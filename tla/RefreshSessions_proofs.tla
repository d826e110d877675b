----------------------- MODULE RefreshSessions_proofs -----------------------
(* Theorems about RefreshSessions.                                         *)
EXTENDS RefreshSessions, TLAPS

-----------------------------------------------------------------------------
(* The inductive invariant.                                                *)

Rotating == {"setPrev", "setGrace", "save"}

\* What a request carries at each of its steps.
Shape ==
    \A o \in Op :
        /\ op[o].pc \in {"prev", "grace", "active", "find"} \cup Rotating => op[o].cookie # None
        /\ op[o].pc \in {"grace", "findId"} \cup Rotating => op[o].sid # None
        /\ op[o].pc \in {"setGrace", "save"} => op[o].new # None
        /\ op[o].pc # "idle" => op[o].who \in Browser
        /\ op[o].pc \in {"verify", "create"} => op[o].kind = "login"
        /\ op[o].pc = "savePw" => op[o].kind \in {"change", "reset"}
        /\ op[o].pc \in {"prev", "grace", "alarm", "active"} \cup Rotating => op[o].kind = "refresh"
        /\ op[o].new # None => op[o].kind \in {"refresh", "login"}
        /\ op[o].kind = "login" => op[o].cookie = None

\* A row has a token issued for it, and a rotation works on the row its cookie
\* was issued for; a token that was not issued was not rotated away.
Issued ==
    /\ \A s \in Session : tok[s] # None => family[tok[s]] = s
    /\ \A o \in Op : op[o].pc \in Rotating =>
          family[op[o].cookie] = op[o].sid /\ tok[op[o].sid] # None
    /\ \A t \in Token : family[t] = None => prev[t] = None

\* The token of a rotation that is not saved yet is its own: no row has it, no
\* request rotates it, and it was not rotated away.
Fresh ==
    \A o \in Op : op[o].pc \in {"setGrace", "save"} =>
        /\ family[op[o].new] = op[o].sid
        /\ prev[op[o].new] = None
        /\ \A s \in Session : tok[s] # op[o].new
        /\ \A k \in Op : op[k].pc \in Rotating => op[k].cookie # op[o].new
        /\ \A k \in Op : k # o /\ op[k].pc \in {"setGrace", "save"} => op[k].new # op[o].new

\* A cookie that was rotated away and whose window is over: neither way of a
\* refresh is open to it.
Spent(t) == tok[family[t]] # t /\ prev[t] # None /\ grace[t] = None

\* A refresh that was sent with a spent cookie gets nowhere.
TurnedAway(o) ==
    op[o].kind = "refresh" /\ ~op[o].fair =>
        /\ op[o].pc \in {"prev", "grace"} => Spent(op[o].cookie)
        /\ op[o].pc \notin {"active"} \cup Rotating
        /\ op[o].pc = "reply" => op[o].new = None

\* Unless rotations overlapped, each one is.
Earned == "doubleRotate" \in raced \/ \A o \in Op : TurnedAway(o)

\* A password change that has not revoked yet is on its way.
Pending == \E o \in Op : op[o].pc = "revokeAll" /\ op[o].kind \in {"change", "reset"}

\* OldPasswordIsOut, for the change itself: a sign-out of all sessions that is
\* lost takes nothing with it.
Password ==
    {"lateLogin", "lost"} \cap raced = {} =>
        \/ Pending
        \/ \A s \in Session : tok[s] # None /\ ~revoked[s] => since[s] = pw

\* Every token about was issued, for a row that has one; the window of a token
\* opens on one of the same row.
Known ==
    /\ \A b \in Browser : jar[b] # None => family[jar[b]] # None
    /\ \A o \in Op : op[o].cookie # None => family[op[o].cookie] # None
    /\ \A o \in Op : op[o].new # None => family[op[o].new] # None
    /\ \A o \in Op : op[o].pc = "grace" => family[op[o].cookie] = op[o].sid
    /\ \A t \in Token : prev[t] # None => prev[t] = family[t]
    /\ \A t \in Token : grace[t] # None => family[t] # None /\ family[grace[t]] = family[t]
    /\ \A t \in Token : family[t] # None => tok[family[t]] # None

\* None of the races that part a browser from its row.
Calm == raced \ {"lateLogin", "revokedBehind"} = {}

\* The browser has a token of the row, or a request of it carries one.
Holds(b, s) ==
    \/ jar[b] # None /\ family[jar[b]] = s
    \/ \E o \in Op : /\ op[o].who = b
                     /\ \/ op[o].cookie # None /\ family[op[o].cookie] = s
                        \/ op[o].new # None /\ family[op[o].new] = s

\* A session is one browser's.
OneHolder ==
    "copied" \notin raced =>
        \A a, b \in Browser, s \in Session : Holds(a, s) /\ Holds(b, s) => a = b

\* Its row has the token.
IsCurrent(t) == tok[family[t]] = t

\* The answers on their way bring current tokens.
Answers ==
    Calm => \A o \in Op : op[o].pc = "reply" /\ op[o].new # None => IsCurrent(op[o].new)

\* The answer of o brings its browser, which has the cookie t, another token.
Brings(o, b, t) ==
    /\ op[o].pc = "reply" /\ op[o].who = b
    /\ op[o].cookie = t /\ op[o].new # None
    /\ family[op[o].new] = family[t]

\* A browser has the current token, or an answer brings it.
Jars ==
    Calm => \A b \in Browser : jar[b] # None =>
                \/ IsCurrent(jar[b])
                \/ \E o \in Op : Brings(o, b, jar[b])

\* A current token that is filed as previous is being rotated.
Filed ==
    Calm => \A t \in Token : prev[t] # None /\ IsCurrent(t) =>
                \E o \in Op : op[o].pc \in {"setGrace", "save"} /\ op[o].cookie = t

\* The window is open when the row is saved.
SaveWindows == Calm => \A o \in Op : op[o].pc = "save" => grace[op[o].cookie] # None

\* A token that was rotated away is in its window, or will be when the request
\* that rotates it goes on.
InWindow(t) ==
    prev[t] # None =>
        \/ grace[t] # None
        \/ \E o \in Op : op[o].pc = "setGrace" /\ op[o].cookie = t

\* The cookies that are about are in their windows.
JarWindows == Calm => \A b \in Browser : jar[b] # None => InWindow(jar[b])
CookieWindows ==
    Calm => \A o \in Op :
        /\ op[o].pc \in {"prev", "grace"} => InWindow(op[o].cookie)
        /\ op[o].pc = "grace" => prev[op[o].cookie] # None

InStep == Answers /\ Jars
Quiet == Filed /\ SaveWindows /\ JarWindows /\ CookieWindows

Inv == /\ TypeOK /\ Shape /\ Issued /\ Fresh /\ Earned /\ Password
       /\ Known /\ OneHolder /\ InStep /\ Quiet /\ NoFalseAlarm

-----------------------------------------------------------------------------
(* Preservation.                                                           *)

\* The idle record is one of a request.
LEMMA IdleType == Idle \in OpRecord
  BY SessionsAssumption DEF Idle, OpRecord, Label, Kind

\* A request that moves on keeps its type.
LEMMA GotoType ==
    ASSUME NEW r \in OpRecord, NEW l \in Label
    PROVE  [r EXCEPT !.pc = l] \in OpRecord
  BY DEF OpRecord

\* So does one that found a session.
LEMMA FoundType ==
    ASSUME NEW r \in OpRecord, NEW l \in Label, NEW s \in Session
    PROVE  [r EXCEPT !.pc = l, !.sid = s] \in OpRecord
  BY DEF OpRecord

\* So does one that is answered.
LEMMA AnswerType ==
    ASSUME NEW r \in OpRecord, NEW t \in Token \cup {None}
    PROVE  [r EXCEPT !.pc = "reply", !.new = t, !.sid = None, !.dead = FALSE, !.ver = 0]
              \in OpRecord
<1>1. "reply" \in Label /\ 0 \in 0 .. MaxPw /\ None \in Session \cup {None}
  BY SessionsAssumption DEF Label
<1> QED
  BY <1>1 DEF OpRecord

\* A request that a browser sends is a request.
LEMMA RequestType ==
    ASSUME TypeOK, NEW b \in Browser, NEW k \in Kind, NEW l \in Label
    PROVE  Request(b, k, l) \in OpRecord
<1>1. jar[b] \in Token \cup {None}
  BY DEF TypeOK
<1>2. Request(b, k, l) = [Idle EXCEPT !.pc = l, !.kind = k, !.who = b, !.cookie = jar[b]]
  BY DEF Request
<1> QED
  BY <1>1, <1>2, IdleType DEF OpRecord

\* A step changes one request.
LEMMA StepType ==
    ASSUME TypeOK, NEW o \in Op, NEW r \in OpRecord, Step(o, r),
           r.pc \in {"revoke", "setPrev", "setGrace", "save"} => r.sid # None
    PROVE  /\ op' \in [Op -> OpRecord]
           /\ \A k \in Op : op'[k].pc \in {"revoke", "setPrev", "setGrace", "save"}
                              => op'[k].sid # None
  BY DEF TypeOK, Step

OpTyped ==
    /\ op \in [Op -> OpRecord]
    /\ \A k \in Op : op[k].pc \in {"revoke", "setPrev", "setGrace", "save"} => op[k].sid # None

\* A step to a label after which no row is written, or with the row known.
LEMMA GotoTyped ==
    ASSUME TypeOK, NEW o \in Op, NEW l \in Label, Goto(o, l),
           l \in {"revoke", "setPrev", "setGrace", "save"} => op[o].sid # None
    PROVE  OpTyped'
<1>1. op[o] \in OpRecord
  BY DEF TypeOK
<1>2. [op[o] EXCEPT !.pc = l] \in OpRecord
  BY <1>1, GotoType
<1>3. [op[o] EXCEPT !.pc = l].pc = l /\ [op[o] EXCEPT !.pc = l].sid = op[o].sid
  BY <1>1 DEF OpRecord
<1> QED
  BY <1>2, <1>3, StepType DEF OpTyped, Goto

\* A step that has found the row.
LEMMA FoundTyped ==
    ASSUME TypeOK, NEW o \in Op, NEW l \in Label, NEW s \in Session,
           Step(o, [op[o] EXCEPT !.pc = l, !.sid = s])
    PROVE  OpTyped'
<1>1. op[o] \in OpRecord
  BY DEF TypeOK
<1>2. [op[o] EXCEPT !.pc = l, !.sid = s] \in OpRecord
  BY <1>1, FoundType
<1>3. [op[o] EXCEPT !.pc = l, !.sid = s].sid # None
  BY <1>1, SessionsAssumption DEF OpRecord
<1> QED
  BY <1>2, <1>3, StepType DEF OpTyped

\* An answer.
LEMMA AnswerTyped ==
    ASSUME TypeOK, NEW o \in Op, NEW t \in Token \cup {None}, Answer(o, t)
    PROVE  OpTyped'
<1> DEFINE r == [op[o] EXCEPT !.pc = "reply", !.new = t, !.sid = None, !.dead = FALSE, !.ver = 0]
<1>1. op[o] \in OpRecord
  BY DEF TypeOK
<1>2. r \in OpRecord
  BY <1>1, AnswerType
<1>3. r.pc = "reply"
  BY <1>1 DEF OpRecord
<1>4. Step(o, r)
  BY DEF Answer
<1> QED
  BY <1>2, <1>3, <1>4, StepType DEF OpTyped

\* The end of a request.
LEMMA IdleTyped ==
    ASSUME TypeOK, NEW o \in Op, Step(o, Idle)
    PROVE  OpTyped'
<1>1. Idle.pc = "idle"
  BY DEF Idle
<1> QED
  BY <1>1, IdleType, StepType DEF OpTyped

\* A request that is sent.
LEMMA RequestTyped ==
    ASSUME TypeOK, NEW o \in Op, NEW b \in Browser, NEW k \in Kind,
           NEW l \in Label \ {"revoke", "setPrev", "setGrace", "save"},
           Step(o, Request(b, k, l))
    PROVE  OpTyped'
<1>1. Request(b, k, l) \in OpRecord /\ Request(b, k, l).pc = l
  BY RequestType DEF Request, Idle
<1> QED
  BY <1>1, StepType DEF OpTyped

\* Every step keeps the types.
LEMMA TypeStep ==
    ASSUME TypeOK, Shape, [Next]_vars
    PROVE  TypeOK'
<1>1. ASSUME NEW o \in Op, NEW b \in Browser, BeginRefresh(o, b) PROVE TypeOK'
  <2>1. Request(b, "refresh", "prev") \in OpRecord /\ Request(b, "refresh", "prev").pc = "prev"
    BY RequestType DEF Kind, Label, Request, Idle
  <2>2. /\ [Request(b, "refresh", "prev") EXCEPT !.fair = Good(jar[b])] \in OpRecord
        /\ [Request(b, "refresh", "prev") EXCEPT !.fair = Good(jar[b])].pc = "prev"
    BY <2>1 DEF OpRecord, Good
  <2>3. OpTyped'
    BY <1>1, <2>2, StepType DEF BeginRefresh, OpTyped
  <2> QED
    BY <1>1, <2>3 DEF BeginRefresh, TypeOK, OpTyped, server, history
<1>2. ASSUME NEW o \in Op, NEW b \in Browser, BeginLogin(o, b) PROVE TypeOK'
  <2>1. OpTyped'
    BY <1>2, RequestTyped DEF BeginLogin, Kind, Label
  <2> QED
    BY <1>2, <2>1 DEF BeginLogin, TypeOK, OpTyped, server, history
<1>3. ASSUME NEW o \in Op, NEW b \in Browser, BeginLogout(o, b) PROVE TypeOK'
  <2>1. OpTyped'
    BY <1>3, RequestTyped DEF BeginLogout, Kind, Label
  <2> QED
    BY <1>3, <2>1 DEF BeginLogout, TypeOK, OpTyped, server, history
<1>4. ASSUME NEW o \in Op, NEW b \in Browser, NEW s \in Session, BeginRevoke(o, b, s) PROVE TypeOK'
  <2>1. Request(b, "revoke", "findId") \in OpRecord /\ Request(b, "revoke", "findId").pc = "findId"
    BY RequestType DEF Kind, Label, Request, Idle
  <2>2. /\ [Request(b, "revoke", "findId") EXCEPT !.sid = s] \in OpRecord
        /\ [Request(b, "revoke", "findId") EXCEPT !.sid = s].pc = "findId"
    BY <2>1 DEF OpRecord, Good
  <2>3. OpTyped'
    BY <1>4, <2>2, StepType DEF BeginRevoke, OpTyped
  <2> QED
    BY <1>4, <2>3 DEF BeginRevoke, TypeOK, OpTyped, server, history
<1>5. ASSUME NEW o \in Op, NEW b \in Browser, BeginChange(o, b) PROVE TypeOK'
  <2>1. OpTyped'
    BY <1>5, RequestTyped DEF BeginChange, Kind, Label
  <2> QED
    BY <1>5, <2>1 DEF BeginChange, TypeOK, OpTyped, server, history
<1>6. ASSUME NEW o \in Op, NEW b \in Browser, BeginReset(o, b) PROVE TypeOK'
  <2>1. OpTyped'
    BY <1>6, RequestTyped DEF BeginReset, Kind, Label
  <2> QED
    BY <1>6, <2>1 DEF BeginReset, TypeOK, OpTyped, server, history
<1>7. ASSUME NEW o \in Op, NEW b \in Browser, BeginLogoutAll(o, b) PROVE TypeOK'
  <2>1. OpTyped'
    BY <1>7, RequestTyped DEF BeginLogoutAll, Kind, Label
  <2> QED
    BY <1>7, <2>1 DEF BeginLogoutAll, TypeOK, OpTyped, server, history
<1>8. ASSUME NEW o \in Op, ReadPrev(o) PROVE TypeOK'
  <2>1. op[o] \in OpRecord /\ op[o].cookie \in Token
    BY <1>8 DEF TypeOK, Shape, ReadPrev, At, OpRecord
  <2>2. CASE prev[op[o].cookie] = None
    <3>1. Step(o, [op[o] EXCEPT !.pc = "active"])
      BY <1>8, <2>2 DEF ReadPrev
    <3>2. OpTyped'
      BY <3>1, GotoTyped DEF Goto, Label
    <3> QED
      BY <1>8, <3>2 DEF ReadPrev, TypeOK, OpTyped, server, history
  <2>3. CASE prev[op[o].cookie] # None
    <3> DEFINE s == prev[op[o].cookie]
               r == [op[o] EXCEPT !.pc = "grace", !.sid = s, !.dead = revoked[s]]
    <3>1. s \in Session /\ revoked[s] \in BOOLEAN
      BY <2>1, <2>3 DEF TypeOK
    <3>2. r \in OpRecord /\ r.pc = "grace"
      BY <2>1, <3>1 DEF OpRecord, Label
    <3>3. Step(o, r)
      BY <1>8, <2>3 DEF ReadPrev
    <3>4. OpTyped'
      BY <3>2, <3>3, StepType DEF OpTyped
    <3> QED
      BY <1>8, <3>4 DEF ReadPrev, TypeOK, OpTyped, server, history
  <2> QED
    BY <2>2, <2>3
<1>9. ASSUME NEW o \in Op, ReadGrace(o) PROVE TypeOK'
  <2>1. grace[op[o].cookie] \in Token \cup {None}
    BY <1>9 DEF ReadGrace, At, Shape, TypeOK, OpRecord
  <2>2. CASE op[o].dead \/ grace[op[o].cookie] = None
    <3>1. OpTyped'
      BY <1>9, <2>2, GotoTyped DEF ReadGrace, Label
    <3> QED
      BY <1>9, <3>1 DEF ReadGrace, TypeOK, OpTyped, server, history, GraceRace, RaceName
  <2>3. CASE ~(op[o].dead \/ grace[op[o].cookie] = None)
    <3>1. OpTyped'
      BY <1>9, <2>1, <2>3, AnswerTyped DEF ReadGrace
    <3> QED
      BY <1>9, <3>1 DEF ReadGrace, TypeOK, OpTyped, server, history, GraceRace, RaceName
  <2> QED
    BY <2>2, <2>3
<1>10. ASSUME NEW o \in Op, Alarm(o) PROVE TypeOK'
  <2>1. OpTyped'
    BY <1>10, AnswerTyped DEF Alarm, At
  <2> QED
    BY <1>10, <2>1 DEF Alarm, TypeOK, OpTyped, AllRevoked, history
<1>11. ASSUME NEW o \in Op, FindActive(o) PROVE TypeOK'
  <2>1. OpTyped'
    BY <1>11, FoundTyped, AnswerTyped DEF FindActive, Label, Current
  <2> QED
    BY <1>11, <2>1 DEF FindActive, TypeOK, OpTyped, Note, server, history, RaceName
<1>12. ASSUME NEW o \in Op, SetPrev(o) PROVE TypeOK'
  <2>1. op[o] \in OpRecord /\ op[o].cookie \in Token /\ op[o].sid \in Session
    BY <1>12 DEF TypeOK, Shape, Rotating, SetPrev, At, OpRecord
  <2>2. PICK t \in Unissued : /\ family' = [family EXCEPT ![t] = op[o].sid]
                             /\ Step(o, [op[o] EXCEPT !.pc = "setGrace", !.new = t])
    BY <1>12 DEF SetPrev
  <2>3. /\ [op[o] EXCEPT !.pc = "setGrace", !.new = t] \in OpRecord
        /\ [op[o] EXCEPT !.pc = "setGrace", !.new = t].sid = op[o].sid
    BY <2>1 DEF OpRecord, Label, Unissued
  <2>4. OpTyped'
    BY <2>1, <2>2, <2>3, StepType, SessionsAssumption DEF OpTyped
  <2> QED
    BY <1>12, <2>1, <2>2, <2>4 DEF SetPrev, TypeOK, OpTyped, server, history, Unissued
<1>13. ASSUME NEW o \in Op, SetGrace(o) PROVE TypeOK'
  <2>1. OpTyped'
    BY <1>13, GotoTyped DEF SetGrace, Label, At, TypeOK
  <2>2. op[o].new \in Token \cup {None}
    BY DEF TypeOK, OpRecord
  <2> QED
    BY <1>13, <2>1, <2>2 DEF SetGrace, TypeOK, OpTyped, server, history, Note, RaceName
<1>14. ASSUME NEW o \in Op, Save(o) PROVE TypeOK'
  <2>1. op[o].new \in Token
    BY <1>14 DEF Save, At, Shape, TypeOK, OpRecord
  <2>2. OpTyped'
    BY <1>14, <2>1, AnswerTyped DEF Save
  <2> QED
    BY <1>14, <2>1, <2>2 DEF Save, TypeOK, OpTyped, server, history, RaceName
<1>15. ASSUME NEW o \in Op, Verify(o) PROVE TypeOK'
  <2>1. op[o] \in OpRecord /\ pw \in 0 .. MaxPw
    BY DEF TypeOK
  <2>2. /\ [op[o] EXCEPT !.pc = "create", !.ver = pw] \in OpRecord
        /\ [op[o] EXCEPT !.pc = "create", !.ver = pw].pc = "create"
    BY <2>1 DEF OpRecord, Label
  <2>3. OpTyped'
    BY <1>15, <2>2, StepType DEF Verify, OpTyped
  <2> QED
    BY <1>15, <2>3 DEF Verify, TypeOK, OpTyped, server, history
<1>16. ASSUME NEW o \in Op, CreateSession(o) PROVE TypeOK'
  <2>1. PICK s \in Session, t \in Unissued :
          /\ tok' = [tok EXCEPT ![s] = t]
          /\ family' = [family EXCEPT ![t] = s]
          /\ since' = [since EXCEPT ![s] = op[o].ver]
          /\ Answer(o, t)
    BY <1>16 DEF CreateSession
  <2>2. t \in Token /\ op[o].ver \in 0 .. MaxPw
    BY DEF Unissued, TypeOK, OpRecord
  <2>3. OpTyped'
    BY <2>1, <2>2, AnswerTyped
  <2> QED
    BY <1>16, <2>1, <2>2, <2>3 DEF CreateSession, TypeOK, OpTyped, server, Note, RaceName
<1>17. ASSUME NEW o \in Op, LogoutFind(o) PROVE TypeOK'
  <2>1. OpTyped'
    BY <1>17, FoundTyped, AnswerTyped DEF LogoutFind, Label, Current
  <2> QED
    BY <1>17, <2>1 DEF LogoutFind, TypeOK, OpTyped, server, history
<1>18. ASSUME NEW o \in Op, RevokeFind(o) PROVE TypeOK'
  <2>1. op[o].sid # None
    BY <1>18 DEF RevokeFind, At, Shape
  <2>2. OpTyped'
    BY <1>18, <2>1, IdleTyped, GotoTyped DEF RevokeFind, Label
  <2> QED
    BY <1>18, <2>2 DEF RevokeFind, TypeOK, OpTyped, server, history
<1>19. ASSUME NEW o \in Op, RevokeSave(o) PROVE TypeOK'
  <2>1. OpTyped'
    BY <1>19, IdleTyped, AnswerTyped DEF RevokeSave, At
  <2> QED
    BY <1>19, <2>1 DEF RevokeSave, TypeOK, OpTyped, history
<1>20. ASSUME NEW o \in Op, SavePw(o) PROVE TypeOK'
  <2>1. OpTyped'
    BY <1>20, GotoTyped DEF SavePw, Label
  <2>2. pw + 1 \in 0 .. MaxPw
    BY <1>20, SessionsAssumption DEF SavePw, TypeOK
  <2> QED
    BY <1>20, <2>1, <2>2 DEF SavePw, TypeOK, OpTyped, server, history
<1>21. ASSUME NEW o \in Op, RevokeAll(o) PROVE TypeOK'
  <2>1. OpTyped'
    BY <1>21, IdleTyped, AnswerTyped DEF RevokeAll, At
  <2> QED
    BY <1>21, <2>1 DEF RevokeAll, TypeOK, OpTyped, AllRevoked, history
<1>22. ASSUME NEW o \in Op, Deliver(o) PROVE TypeOK'
  <2>1. OpTyped'
    BY <1>22, IdleTyped DEF Deliver
  <2>2. op[o].new \in Token \cup {None}
    BY DEF TypeOK, OpRecord
  <2> QED
    BY <1>22, <2>1, <2>2 DEF Deliver, TypeOK, OpTyped, server, history
<1>23. ASSUME NEW o \in Op, Lose(o) PROVE TypeOK'
  <2>1. OpTyped'
    BY <1>23, IdleTyped DEF Lose, At
  <2> QED
    BY <1>23, <2>1 DEF Lose, TypeOK, OpTyped, Note, server, history, RaceName
<1>24. ASSUME NEW t \in Token, GraceExpires(t) PROVE TypeOK'
  BY <1>24 DEF GraceExpires, TypeOK, server, history, Note, RaceName
<1>25. ASSUME NEW a \in Browser, NEW b \in Browser, Copy(a, b) PROVE TypeOK'
  BY <1>25 DEF Copy, TypeOK, server, history, Note, RaceName
<1>26. CASE UNCHANGED vars
  BY <1>26 DEF vars, server, history, TypeOK
<1> QED
  BY <1>1, <1>2, <1>3, <1>4, <1>5, <1>6, <1>7, <1>8, <1>9, <1>10, <1>11, <1>12, <1>13,
     <1>14, <1>15, <1>16, <1>17, <1>18, <1>19, <1>20, <1>21, <1>22, <1>23, <1>24, <1>25,
     <1>26 DEF Next, Send, Serve

\* Every step leaves each request with what its next step needs.
LEMMA ShapeStep ==
    ASSUME TypeOK, Shape, [Next]_vars
    PROVE  Shape'
<1> USE SessionsAssumption DEF TypeOK, OpRecord, Shape, Rotating
<1>1. ASSUME NEW o \in Op, NEW b \in Browser, BeginRefresh(o, b) PROVE Shape'
  BY <1>1 DEF BeginRefresh, At, Step, Request, Idle, Good, server, history
<1>2. ASSUME NEW o \in Op, NEW b \in Browser, BeginLogin(o, b) PROVE Shape'
  BY <1>2 DEF BeginLogin, At, Step, Request, Idle, server, history
<1>3. ASSUME NEW o \in Op, NEW b \in Browser, BeginLogout(o, b) PROVE Shape'
  BY <1>3 DEF BeginLogout, At, Step, Request, Idle, server, history
<1>4. ASSUME NEW o \in Op, NEW b \in Browser, NEW s \in Session, BeginRevoke(o, b, s) PROVE Shape'
  BY <1>4 DEF BeginRevoke, At, Step, Request, Idle, server, history
<1>5. ASSUME NEW o \in Op, NEW b \in Browser, BeginChange(o, b) PROVE Shape'
  BY <1>5 DEF BeginChange, At, Step, Request, Idle, server, history
<1>6. ASSUME NEW o \in Op, NEW b \in Browser, BeginReset(o, b) PROVE Shape'
  BY <1>6 DEF BeginReset, At, Step, Request, Idle, server, history
<1>7. ASSUME NEW o \in Op, NEW b \in Browser, BeginLogoutAll(o, b) PROVE Shape'
  BY <1>7 DEF BeginLogoutAll, At, Step, Request, Idle, server, history
<1>8. ASSUME NEW o \in Op, ReadPrev(o) PROVE Shape'
  BY <1>8 DEF ReadPrev, At, Step, server, history
<1>9. ASSUME NEW o \in Op, ReadGrace(o) PROVE Shape'
  <2>1. /\ op[o].pc = "grace"
        /\ UNCHANGED <<tok, revoked, prev, grace, pw, jar, family, since>>
        /\ raced \subseteq raced'
    BY <1>9 DEF ReadGrace, At, server, history, GraceRace
  <2>2. CASE op[o].dead \/ grace[op[o].cookie] = None
    <3>1. Goto(o, "alarm")
      BY <1>9, <2>2 DEF ReadGrace
    <3> QED
      BY <2>1, <2>2, <3>1 DEF Step, Goto, Answer, Idle, history, Current
  <2>3. CASE ~(op[o].dead \/ grace[op[o].cookie] = None)
    <3>1. Answer(o, grace[op[o].cookie])
      BY <1>9, <2>3 DEF ReadGrace
    <3> QED
      BY <2>1, <2>3, <3>1 DEF Step, Goto, Answer, Idle, history, Current
  <2> QED
    BY <2>2, <2>3
<1>10. ASSUME NEW o \in Op, Alarm(o) PROVE Shape'
  BY <1>10 DEF Alarm, At, Step, Answer, AllRevoked, history
<1>11. ASSUME NEW o \in Op, FindActive(o) PROVE Shape'
  <2>1. /\ op[o].pc = "active"
        /\ UNCHANGED <<tok, revoked, prev, grace, pw, jar, family, since>>
        /\ raced \subseteq raced'
    BY <1>11 DEF FindActive, At, server, history, Note
  <2>2. ASSUME NEW s \in Current(op[o].cookie),
               Step(o, [op[o] EXCEPT !.pc = "setPrev", !.sid = s])
        PROVE  Shape'
    BY <2>1, <2>2 DEF Current, Step
  <2>3. CASE Answer(o, None)
    BY <2>1, <2>3 DEF Answer, Step
  <2> QED
    BY <1>11, <2>2, <2>3 DEF FindActive
<1>12. ASSUME NEW o \in Op, SetPrev(o) PROVE Shape'
  BY <1>12 DEF SetPrev, At, Step, Unissued
<1>13. ASSUME NEW o \in Op, SetGrace(o) PROVE Shape'
  BY <1>13 DEF SetGrace, At, Step, Goto, Note, history
<1>14. ASSUME NEW o \in Op, Save(o) PROVE Shape'
  BY <1>14 DEF Save, At, Step, Answer, history
<1>15. ASSUME NEW o \in Op, Verify(o) PROVE Shape'
  BY <1>15 DEF Verify, At, Step, server, history
<1>16. ASSUME NEW o \in Op, CreateSession(o) PROVE Shape'
  BY <1>16 DEF CreateSession, At, Step, Answer, Unissued, Note
<1>17. ASSUME NEW o \in Op, LogoutFind(o) PROVE Shape'
  <2>1. /\ op[o].pc = "find"
        /\ UNCHANGED <<tok, revoked, prev, grace, pw, jar, family, since>>
        /\ raced \subseteq raced'
    BY <1>17 DEF LogoutFind, At, server, history, Note
  <2>2. ASSUME NEW s \in Current(op[o].cookie),
               Step(o, [op[o] EXCEPT !.pc = "revoke", !.sid = s])
        PROVE  Shape'
    BY <2>1, <2>2 DEF Current, Step
  <2>3. CASE Answer(o, None)
    BY <2>1, <2>3 DEF Answer, Step
  <2> QED
    BY <1>17, <2>2, <2>3 DEF LogoutFind
<1>18. ASSUME NEW o \in Op, RevokeFind(o) PROVE Shape'
  <2>1. /\ op[o].pc = "findId"
        /\ UNCHANGED <<tok, revoked, prev, grace, pw, jar, family, since, raced>>
    BY <1>18 DEF RevokeFind, At, server, history
  <2>2. CASE tok[op[o].sid] = None \/ revoked[op[o].sid]
    <3>1. Step(o, Idle)
      BY <1>18, <2>2 DEF RevokeFind
    <3> QED
      BY <2>1, <2>2, <3>1 DEF Step, Goto, Answer, Idle, history, Current
  <2>3. CASE ~(tok[op[o].sid] = None \/ revoked[op[o].sid])
    <3>1. Goto(o, "revoke")
      BY <1>18, <2>3 DEF RevokeFind
    <3> QED
      BY <2>1, <2>3, <3>1 DEF Step, Goto, Answer, Idle, history, Current
  <2> QED
    BY <2>2, <2>3
<1>19. ASSUME NEW o \in Op, RevokeSave(o) PROVE Shape'
  <2>1. /\ op[o].pc = "revoke"
        /\ UNCHANGED <<tok, prev, grace, pw, jar, family, since, raced>>
        /\ revoked' = [revoked EXCEPT ![op[o].sid] = TRUE]
    BY <1>19 DEF RevokeSave, At, server, history
  <2>2. CASE op[o].kind = "logout" \/ family[op[o].cookie] = op[o].sid
    <3>1. Answer(o, None)
      BY <1>19, <2>2 DEF RevokeSave
    <3> QED
      BY <2>1, <2>2, <3>1 DEF Step, Goto, Answer, Idle, history, Current
  <2>3. CASE ~(op[o].kind = "logout" \/ family[op[o].cookie] = op[o].sid)
    <3>1. Step(o, Idle)
      BY <1>19, <2>3 DEF RevokeSave
    <3> QED
      BY <2>1, <2>3, <3>1 DEF Step, Goto, Answer, Idle, history, Current
  <2> QED
    BY <2>2, <2>3
<1>20. ASSUME NEW o \in Op, SavePw(o) PROVE Shape'
  BY <1>20 DEF SavePw, At, Step, Goto, history
<1>21. ASSUME NEW o \in Op, RevokeAll(o) PROVE Shape'
  <2>1. /\ op[o].pc = "revokeAll"
        /\ UNCHANGED <<tok, prev, grace, pw, jar, family, since, raced>>
        /\ revoked' = AllRevoked
    BY <1>21 DEF RevokeAll, At, server, history
  <2>2. CASE op[o].kind = "reset"
    <3>1. Step(o, Idle)
      BY <1>21, <2>2 DEF RevokeAll
    <3> QED
      BY <2>1, <2>2, <3>1 DEF Step, Goto, Answer, Idle, history, Current, AllRevoked
  <2>3. CASE ~(op[o].kind = "reset")
    <3>1. Answer(o, None)
      BY <1>21, <2>3 DEF RevokeAll
    <3> QED
      BY <2>1, <2>3, <3>1 DEF Step, Goto, Answer, Idle, history, Current, AllRevoked
  <2> QED
    BY <2>2, <2>3
<1>22. ASSUME NEW o \in Op, Deliver(o) PROVE Shape'
  BY <1>22 DEF Deliver, At, Step, Idle, server, history
<1>23. ASSUME NEW o \in Op, Lose(o) PROVE Shape'
  BY <1>23 DEF Lose, At, Step, Idle, Note, server, history
<1>24. ASSUME NEW t \in Token, GraceExpires(t) PROVE Shape'
  BY <1>24 DEF GraceExpires, At, Note, history
<1>25. ASSUME NEW a \in Browser, NEW b \in Browser, Copy(a, b) PROVE Shape'
  BY <1>25 DEF Copy, server, history
<1>26. CASE UNCHANGED vars
  BY <1>26 DEF vars, server, history, At, Good
<1> QED
  BY <1>1, <1>2, <1>3, <1>4, <1>5, <1>6, <1>7, <1>8, <1>9, <1>10, <1>11, <1>12, <1>13,
     <1>14, <1>15, <1>16, <1>17, <1>18, <1>19, <1>20, <1>21, <1>22, <1>23, <1>24, <1>25,
     <1>26 DEF Next, Send, Serve

\* Tokens stay with the rows they were issued for.
LEMMA IssuedStep ==
    ASSUME TypeOK, Shape, Issued, Fresh, [Next]_vars
    PROVE  Issued'
<1> USE SessionsAssumption DEF TypeOK, OpRecord, Shape, Rotating, Issued, Fresh
<1>1. ASSUME NEW o \in Op, NEW b \in Browser, BeginRefresh(o, b) PROVE Issued'
  BY <1>1 DEF BeginRefresh, At, Step, Request, Idle, Good, server, history
<1>2. ASSUME NEW o \in Op, NEW b \in Browser, BeginLogin(o, b) PROVE Issued'
  BY <1>2 DEF BeginLogin, At, Step, Request, Idle, server, history
<1>3. ASSUME NEW o \in Op, NEW b \in Browser, BeginLogout(o, b) PROVE Issued'
  BY <1>3 DEF BeginLogout, At, Step, Request, Idle, server, history
<1>4. ASSUME NEW o \in Op, NEW b \in Browser, NEW s \in Session, BeginRevoke(o, b, s) PROVE Issued'
  BY <1>4 DEF BeginRevoke, At, Step, Request, Idle, server, history
<1>5. ASSUME NEW o \in Op, NEW b \in Browser, BeginChange(o, b) PROVE Issued'
  BY <1>5 DEF BeginChange, At, Step, Request, Idle, server, history
<1>6. ASSUME NEW o \in Op, NEW b \in Browser, BeginReset(o, b) PROVE Issued'
  BY <1>6 DEF BeginReset, At, Step, Request, Idle, server, history
<1>7. ASSUME NEW o \in Op, NEW b \in Browser, BeginLogoutAll(o, b) PROVE Issued'
  BY <1>7 DEF BeginLogoutAll, At, Step, Request, Idle, server, history
<1>8. ASSUME NEW o \in Op, ReadPrev(o) PROVE Issued'
  BY <1>8 DEF ReadPrev, At, Step, server, history
<1>9. ASSUME NEW o \in Op, ReadGrace(o) PROVE Issued'
  <2>1. /\ op[o].pc = "grace"
        /\ UNCHANGED <<tok, revoked, prev, grace, pw, jar, family, since>>
        /\ raced \subseteq raced'
    BY <1>9 DEF ReadGrace, At, server, history, GraceRace
  <2>2. CASE op[o].dead \/ grace[op[o].cookie] = None
    <3>1. Goto(o, "alarm")
      BY <1>9, <2>2 DEF ReadGrace
    <3> QED
      BY <2>1, <2>2, <3>1 DEF Step, Goto, Answer, Idle, history, Current
  <2>3. CASE ~(op[o].dead \/ grace[op[o].cookie] = None)
    <3>1. Answer(o, grace[op[o].cookie])
      BY <1>9, <2>3 DEF ReadGrace
    <3> QED
      BY <2>1, <2>3, <3>1 DEF Step, Goto, Answer, Idle, history, Current
  <2> QED
    BY <2>2, <2>3
<1>10. ASSUME NEW o \in Op, Alarm(o) PROVE Issued'
  BY <1>10 DEF Alarm, At, Step, Answer, AllRevoked, history
<1>11. ASSUME NEW o \in Op, FindActive(o) PROVE Issued'
  <2>1. /\ op[o].pc = "active"
        /\ UNCHANGED <<tok, revoked, prev, grace, pw, jar, family, since>>
        /\ raced \subseteq raced'
    BY <1>11 DEF FindActive, At, server, history, Note
  <2>2. ASSUME NEW s \in Current(op[o].cookie),
               Step(o, [op[o] EXCEPT !.pc = "setPrev", !.sid = s])
        PROVE  Issued'
    BY <2>1, <2>2 DEF Current, Step
  <2>3. CASE Answer(o, None)
    BY <2>1, <2>3 DEF Answer, Step
  <2> QED
    BY <1>11, <2>2, <2>3 DEF FindActive
<1>12. ASSUME NEW o \in Op, SetPrev(o) PROVE Issued'
  BY <1>12 DEF SetPrev, At, Step, Unissued
<1>13. ASSUME NEW o \in Op, SetGrace(o) PROVE Issued'
  BY <1>13 DEF SetGrace, At, Step, Goto, Note, history
<1>14. ASSUME NEW o \in Op, Save(o) PROVE Issued'
  BY <1>14 DEF Save, At, Step, Answer, history
<1>15. ASSUME NEW o \in Op, Verify(o) PROVE Issued'
  BY <1>15 DEF Verify, At, Step, server, history
<1>16. ASSUME NEW o \in Op, CreateSession(o) PROVE Issued'
  BY <1>16 DEF CreateSession, At, Step, Answer, Unissued, Note
<1>17. ASSUME NEW o \in Op, LogoutFind(o) PROVE Issued'
  <2>1. /\ op[o].pc = "find"
        /\ UNCHANGED <<tok, revoked, prev, grace, pw, jar, family, since>>
        /\ raced \subseteq raced'
    BY <1>17 DEF LogoutFind, At, server, history, Note
  <2>2. ASSUME NEW s \in Current(op[o].cookie),
               Step(o, [op[o] EXCEPT !.pc = "revoke", !.sid = s])
        PROVE  Issued'
    BY <2>1, <2>2 DEF Current, Step
  <2>3. CASE Answer(o, None)
    BY <2>1, <2>3 DEF Answer, Step
  <2> QED
    BY <1>17, <2>2, <2>3 DEF LogoutFind
<1>18. ASSUME NEW o \in Op, RevokeFind(o) PROVE Issued'
  <2>1. /\ op[o].pc = "findId"
        /\ UNCHANGED <<tok, revoked, prev, grace, pw, jar, family, since, raced>>
    BY <1>18 DEF RevokeFind, At, server, history
  <2>2. CASE tok[op[o].sid] = None \/ revoked[op[o].sid]
    <3>1. Step(o, Idle)
      BY <1>18, <2>2 DEF RevokeFind
    <3> QED
      BY <2>1, <2>2, <3>1 DEF Step, Goto, Answer, Idle, history, Current
  <2>3. CASE ~(tok[op[o].sid] = None \/ revoked[op[o].sid])
    <3>1. Goto(o, "revoke")
      BY <1>18, <2>3 DEF RevokeFind
    <3> QED
      BY <2>1, <2>3, <3>1 DEF Step, Goto, Answer, Idle, history, Current
  <2> QED
    BY <2>2, <2>3
<1>19. ASSUME NEW o \in Op, RevokeSave(o) PROVE Issued'
  <2>1. /\ op[o].pc = "revoke"
        /\ UNCHANGED <<tok, prev, grace, pw, jar, family, since, raced>>
        /\ revoked' = [revoked EXCEPT ![op[o].sid] = TRUE]
    BY <1>19 DEF RevokeSave, At, server, history
  <2>2. CASE op[o].kind = "logout" \/ family[op[o].cookie] = op[o].sid
    <3>1. Answer(o, None)
      BY <1>19, <2>2 DEF RevokeSave
    <3> QED
      BY <2>1, <2>2, <3>1 DEF Step, Goto, Answer, Idle, history, Current
  <2>3. CASE ~(op[o].kind = "logout" \/ family[op[o].cookie] = op[o].sid)
    <3>1. Step(o, Idle)
      BY <1>19, <2>3 DEF RevokeSave
    <3> QED
      BY <2>1, <2>3, <3>1 DEF Step, Goto, Answer, Idle, history, Current
  <2> QED
    BY <2>2, <2>3
<1>20. ASSUME NEW o \in Op, SavePw(o) PROVE Issued'
  BY <1>20 DEF SavePw, At, Step, Goto, history
<1>21. ASSUME NEW o \in Op, RevokeAll(o) PROVE Issued'
  <2>1. /\ op[o].pc = "revokeAll"
        /\ UNCHANGED <<tok, prev, grace, pw, jar, family, since, raced>>
        /\ revoked' = AllRevoked
    BY <1>21 DEF RevokeAll, At, server, history
  <2>2. CASE op[o].kind = "reset"
    <3>1. Step(o, Idle)
      BY <1>21, <2>2 DEF RevokeAll
    <3> QED
      BY <2>1, <2>2, <3>1 DEF Step, Goto, Answer, Idle, history, Current, AllRevoked
  <2>3. CASE ~(op[o].kind = "reset")
    <3>1. Answer(o, None)
      BY <1>21, <2>3 DEF RevokeAll
    <3> QED
      BY <2>1, <2>3, <3>1 DEF Step, Goto, Answer, Idle, history, Current, AllRevoked
  <2> QED
    BY <2>2, <2>3
<1>22. ASSUME NEW o \in Op, Deliver(o) PROVE Issued'
  BY <1>22 DEF Deliver, At, Step, Idle, server, history
<1>23. ASSUME NEW o \in Op, Lose(o) PROVE Issued'
  BY <1>23 DEF Lose, At, Step, Idle, Note, server, history
<1>24. ASSUME NEW t \in Token, GraceExpires(t) PROVE Issued'
  BY <1>24 DEF GraceExpires, At, Note, history
<1>25. ASSUME NEW a \in Browser, NEW b \in Browser, Copy(a, b) PROVE Issued'
  BY <1>25 DEF Copy, server, history
<1>26. CASE UNCHANGED vars
  BY <1>26 DEF vars, server, history, At, Good
<1> QED
  BY <1>1, <1>2, <1>3, <1>4, <1>5, <1>6, <1>7, <1>8, <1>9, <1>10, <1>11, <1>12, <1>13,
     <1>14, <1>15, <1>16, <1>17, <1>18, <1>19, <1>20, <1>21, <1>22, <1>23, <1>24, <1>25,
     <1>26 DEF Next, Send, Serve

\* The token of a rotation stays unseen until it is saved.
LEMMA FreshStep ==
    ASSUME TypeOK, Shape, Issued, Fresh, [Next]_vars
    PROVE  Fresh'
<1> USE SessionsAssumption DEF TypeOK, OpRecord, Shape, Rotating, Issued, Fresh
<1>1. ASSUME NEW o \in Op, NEW b \in Browser, BeginRefresh(o, b) PROVE Fresh'
  BY <1>1 DEF BeginRefresh, At, Step, Request, Idle, Good, server, history
<1>2. ASSUME NEW o \in Op, NEW b \in Browser, BeginLogin(o, b) PROVE Fresh'
  BY <1>2 DEF BeginLogin, At, Step, Request, Idle, server, history
<1>3. ASSUME NEW o \in Op, NEW b \in Browser, BeginLogout(o, b) PROVE Fresh'
  BY <1>3 DEF BeginLogout, At, Step, Request, Idle, server, history
<1>4. ASSUME NEW o \in Op, NEW b \in Browser, NEW s \in Session, BeginRevoke(o, b, s) PROVE Fresh'
  BY <1>4 DEF BeginRevoke, At, Step, Request, Idle, server, history
<1>5. ASSUME NEW o \in Op, NEW b \in Browser, BeginChange(o, b) PROVE Fresh'
  BY <1>5 DEF BeginChange, At, Step, Request, Idle, server, history
<1>6. ASSUME NEW o \in Op, NEW b \in Browser, BeginReset(o, b) PROVE Fresh'
  BY <1>6 DEF BeginReset, At, Step, Request, Idle, server, history
<1>7. ASSUME NEW o \in Op, NEW b \in Browser, BeginLogoutAll(o, b) PROVE Fresh'
  BY <1>7 DEF BeginLogoutAll, At, Step, Request, Idle, server, history
<1>8. ASSUME NEW o \in Op, ReadPrev(o) PROVE Fresh'
  BY <1>8 DEF ReadPrev, At, Step, server, history
<1>9. ASSUME NEW o \in Op, ReadGrace(o) PROVE Fresh'
  <2>1. /\ op[o].pc = "grace"
        /\ UNCHANGED <<tok, revoked, prev, grace, pw, jar, family, since>>
        /\ raced \subseteq raced'
    BY <1>9 DEF ReadGrace, At, server, history, GraceRace
  <2>2. CASE op[o].dead \/ grace[op[o].cookie] = None
    <3>1. Goto(o, "alarm")
      BY <1>9, <2>2 DEF ReadGrace
    <3> QED
      BY <2>1, <2>2, <3>1 DEF Step, Goto, Answer, Idle, history, Current
  <2>3. CASE ~(op[o].dead \/ grace[op[o].cookie] = None)
    <3>1. Answer(o, grace[op[o].cookie])
      BY <1>9, <2>3 DEF ReadGrace
    <3> QED
      BY <2>1, <2>3, <3>1 DEF Step, Goto, Answer, Idle, history, Current
  <2> QED
    BY <2>2, <2>3
<1>10. ASSUME NEW o \in Op, Alarm(o) PROVE Fresh'
  BY <1>10 DEF Alarm, At, Step, Answer, AllRevoked, history
<1>11. ASSUME NEW o \in Op, FindActive(o) PROVE Fresh'
  <2>1. /\ op[o].pc = "active"
        /\ UNCHANGED <<tok, revoked, prev, grace, pw, jar, family, since>>
        /\ raced \subseteq raced'
    BY <1>11 DEF FindActive, At, server, history, Note
  <2>2. ASSUME NEW s \in Current(op[o].cookie),
               Step(o, [op[o] EXCEPT !.pc = "setPrev", !.sid = s])
        PROVE  Fresh'
    BY <2>1, <2>2 DEF Current, Step
  <2>3. CASE Answer(o, None)
    BY <2>1, <2>3 DEF Answer, Step
  <2> QED
    BY <1>11, <2>2, <2>3 DEF FindActive
<1>12. ASSUME NEW o \in Op, SetPrev(o) PROVE Fresh'
  BY <1>12 DEF SetPrev, At, Step, Unissued
<1>13. ASSUME NEW o \in Op, SetGrace(o) PROVE Fresh'
  BY <1>13 DEF SetGrace, At, Step, Goto, Note, history
<1>14. ASSUME NEW o \in Op, Save(o) PROVE Fresh'
  BY <1>14 DEF Save, At, Step, Answer, history
<1>15. ASSUME NEW o \in Op, Verify(o) PROVE Fresh'
  BY <1>15 DEF Verify, At, Step, server, history
<1>16. ASSUME NEW o \in Op, CreateSession(o) PROVE Fresh'
  BY <1>16 DEF CreateSession, At, Step, Answer, Unissued, Note
<1>17. ASSUME NEW o \in Op, LogoutFind(o) PROVE Fresh'
  <2>1. /\ op[o].pc = "find"
        /\ UNCHANGED <<tok, revoked, prev, grace, pw, jar, family, since>>
        /\ raced \subseteq raced'
    BY <1>17 DEF LogoutFind, At, server, history, Note
  <2>2. ASSUME NEW s \in Current(op[o].cookie),
               Step(o, [op[o] EXCEPT !.pc = "revoke", !.sid = s])
        PROVE  Fresh'
    BY <2>1, <2>2 DEF Current, Step
  <2>3. CASE Answer(o, None)
    BY <2>1, <2>3 DEF Answer, Step
  <2> QED
    BY <1>17, <2>2, <2>3 DEF LogoutFind
<1>18. ASSUME NEW o \in Op, RevokeFind(o) PROVE Fresh'
  <2>1. /\ op[o].pc = "findId"
        /\ UNCHANGED <<tok, revoked, prev, grace, pw, jar, family, since, raced>>
    BY <1>18 DEF RevokeFind, At, server, history
  <2>2. CASE tok[op[o].sid] = None \/ revoked[op[o].sid]
    <3>1. Step(o, Idle)
      BY <1>18, <2>2 DEF RevokeFind
    <3> QED
      BY <2>1, <2>2, <3>1 DEF Step, Goto, Answer, Idle, history, Current
  <2>3. CASE ~(tok[op[o].sid] = None \/ revoked[op[o].sid])
    <3>1. Goto(o, "revoke")
      BY <1>18, <2>3 DEF RevokeFind
    <3> QED
      BY <2>1, <2>3, <3>1 DEF Step, Goto, Answer, Idle, history, Current
  <2> QED
    BY <2>2, <2>3
<1>19. ASSUME NEW o \in Op, RevokeSave(o) PROVE Fresh'
  <2>1. /\ op[o].pc = "revoke"
        /\ UNCHANGED <<tok, prev, grace, pw, jar, family, since, raced>>
        /\ revoked' = [revoked EXCEPT ![op[o].sid] = TRUE]
    BY <1>19 DEF RevokeSave, At, server, history
  <2>2. CASE op[o].kind = "logout" \/ family[op[o].cookie] = op[o].sid
    <3>1. Answer(o, None)
      BY <1>19, <2>2 DEF RevokeSave
    <3> QED
      BY <2>1, <2>2, <3>1 DEF Step, Goto, Answer, Idle, history, Current
  <2>3. CASE ~(op[o].kind = "logout" \/ family[op[o].cookie] = op[o].sid)
    <3>1. Step(o, Idle)
      BY <1>19, <2>3 DEF RevokeSave
    <3> QED
      BY <2>1, <2>3, <3>1 DEF Step, Goto, Answer, Idle, history, Current
  <2> QED
    BY <2>2, <2>3
<1>20. ASSUME NEW o \in Op, SavePw(o) PROVE Fresh'
  BY <1>20 DEF SavePw, At, Step, Goto, history
<1>21. ASSUME NEW o \in Op, RevokeAll(o) PROVE Fresh'
  <2>1. /\ op[o].pc = "revokeAll"
        /\ UNCHANGED <<tok, prev, grace, pw, jar, family, since, raced>>
        /\ revoked' = AllRevoked
    BY <1>21 DEF RevokeAll, At, server, history
  <2>2. CASE op[o].kind = "reset"
    <3>1. Step(o, Idle)
      BY <1>21, <2>2 DEF RevokeAll
    <3> QED
      BY <2>1, <2>2, <3>1 DEF Step, Goto, Answer, Idle, history, Current, AllRevoked
  <2>3. CASE ~(op[o].kind = "reset")
    <3>1. Answer(o, None)
      BY <1>21, <2>3 DEF RevokeAll
    <3> QED
      BY <2>1, <2>3, <3>1 DEF Step, Goto, Answer, Idle, history, Current, AllRevoked
  <2> QED
    BY <2>2, <2>3
<1>22. ASSUME NEW o \in Op, Deliver(o) PROVE Fresh'
  BY <1>22 DEF Deliver, At, Step, Idle, server, history
<1>23. ASSUME NEW o \in Op, Lose(o) PROVE Fresh'
  BY <1>23 DEF Lose, At, Step, Idle, Note, server, history
<1>24. ASSUME NEW t \in Token, GraceExpires(t) PROVE Fresh'
  BY <1>24 DEF GraceExpires, At, Note, history
<1>25. ASSUME NEW a \in Browser, NEW b \in Browser, Copy(a, b) PROVE Fresh'
  BY <1>25 DEF Copy, server, history
<1>26. CASE UNCHANGED vars
  BY <1>26 DEF vars, server, history, At, Good
<1> QED
  BY <1>1, <1>2, <1>3, <1>4, <1>5, <1>6, <1>7, <1>8, <1>9, <1>10, <1>11, <1>12, <1>13,
     <1>14, <1>15, <1>16, <1>17, <1>18, <1>19, <1>20, <1>21, <1>22, <1>23, <1>24, <1>25,
     <1>26 DEF Next, Send, Serve

Others(o) == \A k \in Op : k # o => op'[k] = op[k]

\* A spent cookie stays spent while no rotations overlap.
LEMMA SpentStays ==
    ASSUME TypeOK, Shape, Issued, Fresh, [Next]_vars, "doubleRotate" \notin raced',
           NEW c \in Token, Spent(c)
    PROVE  Spent(c)'
<1>1. CASE UNCHANGED <<tok, prev, grace, family>>
  BY <1>1 DEF Spent
<1>2. ASSUME NEW o \in Op, SetPrev(o) PROVE Spent(c)'
  <2>1. PICK t \in Unissued : family' = [family EXCEPT ![t] = op[o].sid]
    BY <1>2 DEF SetPrev
  <2>2. /\ UNCHANGED <<tok, grace>> /\ prev' = [prev EXCEPT ![op[o].cookie] = op[o].sid]
        /\ op[o].sid # None
    BY <1>2 DEF SetPrev, At, Shape, Rotating
  <2>3. c # t
    BY <2>1 DEF Spent, Issued, Unissued
  <2> QED
    BY <2>1, <2>2, <2>3 DEF Spent, TypeOK
<1>3. ASSUME NEW o \in Op, SetGrace(o) PROVE Spent(c)'
  <2>1. /\ UNCHANGED <<tok, prev, family>> /\ grace' = [grace EXCEPT ![op[o].cookie] = op[o].new]
        /\ tok[op[o].sid] = op[o].cookie
        /\ op[o].pc = "setGrace"
    BY <1>3 DEF SetGrace, At, Note, history
  <2>2. family[op[o].cookie] = op[o].sid
    BY <2>1 DEF Issued, Rotating
  <2>3. c # op[o].cookie
    BY <2>1, <2>2 DEF Spent
  <2> QED
    BY <2>1, <2>3 DEF Spent, TypeOK
<1>4. ASSUME NEW o \in Op, Save(o) PROVE Spent(c)'
  <2>1. /\ UNCHANGED <<prev, grace, family>> /\ tok' = [tok EXCEPT ![op[o].sid] = op[o].new]
        /\ op[o].pc = "save"
    BY <1>4 DEF Save, At, history
  <2>2. c # op[o].new
    BY <2>1 DEF Spent, Fresh
  <2> QED
    BY <2>1, <2>2 DEF Spent, TypeOK
<1>5. ASSUME NEW o \in Op, CreateSession(o) PROVE Spent(c)'
  <2>1. PICK s \in Session, t \in Unissued : /\ tok' = [tok EXCEPT ![s] = t]
                                             /\ family' = [family EXCEPT ![t] = s]
    BY <1>5 DEF CreateSession
  <2>2. UNCHANGED <<prev, grace>>
    BY <1>5 DEF CreateSession
  <2>3. c # t
    BY <2>1 DEF Spent, Issued, Unissued
  <2> QED
    BY <2>1, <2>2, <2>3 DEF Spent, TypeOK
<1>6. ASSUME NEW t \in Token, GraceExpires(t) PROVE Spent(c)'
  BY <1>6 DEF GraceExpires, Spent, TypeOK, history
<1>7. ASSUME NEW o \in Op, NEW b \in Browser, Send(o, b) PROVE UNCHANGED <<tok, prev, grace, family>>
  BY <1>7 DEF Send, BeginRefresh, BeginLogin, BeginLogout, BeginRevoke, BeginChange, BeginReset,
     BeginLogoutAll, server, history
<1>8. ASSUME NEW o \in Op, \/ ReadPrev(o) \/ ReadGrace(o) \/ Alarm(o) \/ FindActive(o)
                           \/ Verify(o) \/ LogoutFind(o) \/ RevokeFind(o)
      PROVE  UNCHANGED <<tok, prev, grace, family>>
  <2>1. CASE ReadPrev(o) \/ ReadGrace(o)
    BY <2>1 DEF ReadPrev, ReadGrace, server, history
  <2>2. CASE Alarm(o) \/ Verify(o)
    BY <2>2 DEF Alarm, Verify, server, history
  <2>3. CASE FindActive(o)
    BY <2>3 DEF FindActive, server, history
  <2>4. CASE LogoutFind(o)
    BY <2>4 DEF LogoutFind, server, history
  <2>5. CASE RevokeFind(o)
    BY <2>5 DEF RevokeFind, server, history
  <2> QED
    BY <1>8, <2>1, <2>2, <2>3, <2>4, <2>5
<1>9. ASSUME NEW o \in Op, \/ RevokeSave(o) \/ SavePw(o) \/ RevokeAll(o) \/ Deliver(o) \/ Lose(o)
      PROVE  UNCHANGED <<tok, prev, grace, family>>
  BY <1>9 DEF RevokeSave, SavePw, RevokeAll, Deliver, Lose, server, history
<1>10. ASSUME NEW a \in Browser, NEW b \in Browser, Copy(a, b) PROVE UNCHANGED <<tok, prev, grace, family>>
  BY <1>10 DEF Copy, server, history
<1>11. CASE UNCHANGED vars
  BY <1>1, <1>11 DEF vars, server, history
<1> QED
  BY <1>1, <1>2, <1>3, <1>4, <1>5, <1>6, <1>7, <1>8, <1>9, <1>10, <1>11 DEF Next, Serve

\* A refresh that is turned away, is done, or is none, has nothing to earn.
LEMMA NothingEarned ==
    ASSUME TypeOK, NEW o \in Op,
           \/ \E l \in {"alarm", "revoke", "revokeAll"} : Goto(o, l)
           \/ Answer(o, None)
           \/ Step(o, Idle)
           \/ \E s : Step(o, [op[o] EXCEPT !.pc = "revoke", !.sid = s])
    PROVE  Others(o) /\ TurnedAway(o)'
<1> DEFINE Goal == Others(o) /\ TurnedAway(o)'
<1>1. ASSUME NEW l \in {"alarm", "revoke", "revokeAll"}, Goto(o, l)
      PROVE  Goal
  BY <1>1 DEF Goto, TypeOK, OpRecord, Step, Others, TurnedAway, Rotating
<1>2. ASSUME Answer(o, None) PROVE Goal
  BY <1>2 DEF Answer, TypeOK, OpRecord, Step, Others, TurnedAway, Rotating
<1>3. ASSUME Step(o, Idle) PROVE Goal
  BY <1>3 DEF Idle, TypeOK, OpRecord, Step, Others, TurnedAway, Rotating
<1>4. ASSUME NEW s, Step(o, [op[o] EXCEPT !.pc = "revoke", !.sid = s])
      PROVE  Goal
  BY <1>4 DEF TypeOK, OpRecord, Step, Others, TurnedAway, Rotating
<1> HIDE DEF Goal
<1>5. Goal
  BY <1>1, <1>2, <1>3, <1>4
<1> QED
  BY <1>5 DEF Goal

\* Nor has any other request that a browser sends.
LEMMA SendEarns ==
    ASSUME TypeOK, NEW o \in Op, NEW b \in Browser, Send(o, b)
    PROVE  Others(o) /\ UNCHANGED <<tok, prev, grace, family, raced>> /\ TurnedAway(o)'
<1> DEFINE Goal == Others(o) /\ UNCHANGED <<tok, prev, grace, family, raced>> /\ TurnedAway(o)'
<1>1. ASSUME BeginRefresh(o, b) PROVE Goal
  <2>1. /\ UNCHANGED <<tok, prev, grace, family, raced>> /\ Others(o)
        /\ op'[o].pc = "prev" /\ op'[o].cookie = jar[b] /\ op'[o].fair = Good(jar[b])
    BY <1>1 DEF BeginRefresh, Step, Others, Request, Idle, TypeOK, server, history
  <2>2. ~Good(jar[b]) => Spent(jar[b])
    BY DEF Good, Spent
  <2>3. TurnedAway(o)'
    BY <2>1, <2>2 DEF TurnedAway, Spent, Rotating
  <2> QED
    BY <2>1, <2>3
<1>2. ASSUME BeginLogin(o, b) PROVE Goal
  BY <1>2 DEF BeginLogin, Step, Others, Request, Idle, TurnedAway, TypeOK, server, history
<1>3. ASSUME BeginLogout(o, b) PROVE Goal
  BY <1>3 DEF BeginLogout, Step, Others, Request, Idle, TurnedAway, TypeOK, server, history
<1>4. ASSUME NEW s \in Session, BeginRevoke(o, b, s) PROVE Goal
  BY <1>4 DEF BeginRevoke, Step, Others, Request, Idle, TurnedAway, TypeOK, server, history
<1>5. ASSUME BeginChange(o, b) PROVE Goal
  BY <1>5 DEF BeginChange, Step, Others, Request, Idle, TurnedAway, TypeOK, server, history
<1>6. ASSUME BeginReset(o, b) PROVE Goal
  BY <1>6 DEF BeginReset, Step, Others, Request, Idle, TurnedAway, TypeOK, server, history
<1>7. ASSUME BeginLogoutAll(o, b) PROVE Goal
  BY <1>7 DEF BeginLogoutAll, Step, Others, Request, Idle, TurnedAway, TypeOK, server, history
<1> HIDE DEF Goal
<1>8. Goal
  BY <1>1, <1>2, <1>3, <1>4, <1>5, <1>6, <1>7 DEF Send
<1> QED
  BY <1>8 DEF Goal

\* A step of one request that leaves it turned away if it was.
LEMMA EarnedByOne ==
    ASSUME TypeOK, Shape, Issued, Fresh, Earned, [Next]_vars, raced \subseteq raced',
           NEW o \in Op, Others(o), "doubleRotate" \notin raced' => TurnedAway(o)'
    PROVE  Earned'
<1>1. SUFFICES ASSUME "doubleRotate" \notin raced', NEW k \in Op, k # o
               PROVE  TurnedAway(k)'
  BY DEF Earned
<1>2. TurnedAway(k) /\ op'[k] = op[k]
  BY <1>1 DEF Earned, Others
<1>3. op[k].pc \in {"prev", "grace"} => op[k].cookie \in Token
  BY DEF Shape, TypeOK, OpRecord
<1> QED
  BY <1>1, <1>2, <1>3, SpentStays DEF TurnedAway

\* Every step keeps what refreshes earn.
LEMMA EarnedStep ==
    ASSUME TypeOK, Shape, Issued, Fresh, Earned, [Next]_vars
    PROVE  Earned'
<1>1. ASSUME NEW o \in Op, NEW b \in Browser, Send(o, b) PROVE Earned'
  BY <1>1, SendEarns, EarnedByOne
<1>2. ASSUME NEW o \in Op, ReadPrev(o) PROVE Earned'
  <2>1. op[o].pc = "prev" /\ UNCHANGED <<tok, prev, grace, family, raced>>
    BY <1>2 DEF ReadPrev, At, server, history
  <2>2. op[o].cookie \in Token
    BY <2>1 DEF Shape, TypeOK, OpRecord
  <2>3. CASE prev[op[o].cookie] = None
    <3>1. Step(o, [op[o] EXCEPT !.pc = "active"])
      BY <1>2, <2>3 DEF ReadPrev
    <3>2. /\ Others(o) /\ op'[o].pc = "active" /\ op'[o].kind = op[o].kind
          /\ op'[o].fair = op[o].fair
      BY <3>1 DEF TypeOK, OpRecord, Step, Others
    <3>3. "doubleRotate" \notin raced => (op[o].kind = "refresh" => op[o].fair)
      BY <2>1, <2>3 DEF Earned, TurnedAway, Spent
    <3>4. "doubleRotate" \notin raced' => TurnedAway(o)'
      BY <2>1, <3>2, <3>3 DEF TurnedAway
    <3> QED
      BY <2>1, <3>2, <3>4, EarnedByOne
  <2>4. CASE prev[op[o].cookie] # None
    <3>1. Step(o, [op[o] EXCEPT !.pc = "grace", !.sid = prev[op[o].cookie],
                                !.dead = revoked[prev[op[o].cookie]]])
      BY <1>2, <2>4 DEF ReadPrev
    <3>2. /\ Others(o) /\ op'[o].pc = "grace" /\ op'[o].kind = op[o].kind
          /\ op'[o].fair = op[o].fair /\ op'[o].cookie = op[o].cookie
      BY <3>1 DEF TypeOK, OpRecord, Step, Others
    <3>3. "doubleRotate" \notin raced => TurnedAway(o)
      BY DEF Earned
    <3>4. "doubleRotate" \notin raced' => TurnedAway(o)'
      BY <2>1, <3>2, <3>3 DEF TurnedAway, Spent, Rotating
    <3> QED
      BY <2>1, <3>2, <3>4, EarnedByOne
  <2> QED
    BY <2>3, <2>4
<1>3. ASSUME NEW o \in Op, ReadGrace(o) PROVE Earned'
  <2>1. op[o].pc = "grace" /\ raced \subseteq raced'
    BY <1>3 DEF ReadGrace, At, GraceRace
  <2>2. CASE op[o].dead \/ grace[op[o].cookie] = None
    <3>1. Goto(o, "alarm")
      BY <1>3, <2>2 DEF ReadGrace
    <3>2. Others(o) /\ TurnedAway(o)'
      BY <3>1, NothingEarned
    <3> QED
      BY <2>1, <3>2, EarnedByOne
  <2>3. CASE ~(op[o].dead \/ grace[op[o].cookie] = None)
    <3>1. Answer(o, grace[op[o].cookie])
      BY <1>3, <2>3 DEF ReadGrace
    <3>2. Others(o) /\ op'[o].kind = op[o].kind /\ op'[o].fair = op[o].fair
      BY <3>1 DEF Answer, TypeOK, OpRecord, Step, Others
    <3>3. "doubleRotate" \notin raced => (op[o].kind = "refresh" => op[o].fair)
      BY <2>1, <2>3 DEF Earned, TurnedAway, Spent
    <3> QED
      BY <2>1, <3>2, <3>3, EarnedByOne DEF TurnedAway
  <2> QED
    BY <2>2, <2>3
<1>4. ASSUME NEW o \in Op, op[o].pc \in {"active"} \cup Rotating, raced \subseteq raced',
             Others(o), op'[o].kind = op[o].kind, op'[o].fair = op[o].fair
      PROVE  Earned'
  <2>1. op[o].kind = "refresh"
    BY <1>4 DEF Shape
  <2>2. "doubleRotate" \notin raced => op[o].fair
    BY <1>4, <2>1 DEF Earned, TurnedAway
  <2>3. "doubleRotate" \notin raced' => TurnedAway(o)'
    BY <1>4, <2>1, <2>2 DEF TurnedAway
  <2> QED
    BY <1>4, <2>3, EarnedByOne
<1>5. ASSUME NEW o \in Op, FindActive(o) PROVE Earned'
  <2>1. op[o].pc = "active"
    BY <1>5 DEF FindActive, At
  <2>2. raced \subseteq raced'
    BY <1>5 DEF FindActive, Note
  <2>3. \/ \E s : Step(o, [op[o] EXCEPT !.pc = "setPrev", !.sid = s])
        \/ Answer(o, None)
    BY <1>5 DEF FindActive
  <2>4. Others(o) /\ op'[o].kind = op[o].kind /\ op'[o].fair = op[o].fair
    <3>1. ASSUME NEW s, Step(o, [op[o] EXCEPT !.pc = "setPrev", !.sid = s])
          PROVE  Others(o) /\ op'[o].kind = op[o].kind /\ op'[o].fair = op[o].fair
      BY <3>1 DEF TypeOK, OpRecord, Step, Others
    <3>2. CASE Answer(o, None)
      BY <3>2 DEF TypeOK, OpRecord, Step, Others, Answer
    <3> QED
      BY <2>3, <3>1, <3>2
  <2> QED
    BY <1>4, <2>1, <2>2, <2>4
<1>6. ASSUME NEW o \in Op, SetPrev(o) PROVE Earned'
  <2>1. op[o].pc \in Rotating /\ raced' = raced
    BY <1>6 DEF SetPrev, At, Rotating
  <2>2. \E t : Step(o, [op[o] EXCEPT !.pc = "setGrace", !.new = t])
    BY <1>6 DEF SetPrev
  <2>3. Others(o) /\ op'[o].kind = op[o].kind /\ op'[o].fair = op[o].fair
    BY <2>2 DEF TypeOK, OpRecord, Step, Others
  <2> QED
    BY <1>4, <2>1, <2>3
<1>7. ASSUME NEW o \in Op, SetGrace(o) PROVE Earned'
  <2>1. op[o].pc \in Rotating /\ raced \subseteq raced' /\ Step(o, [op[o] EXCEPT !.pc = "save"])
    BY <1>7 DEF SetGrace, At, Rotating, Goto, Note
  <2>2. Others(o) /\ op'[o].kind = op[o].kind /\ op'[o].fair = op[o].fair
    BY <2>1 DEF TypeOK, OpRecord, Step, Others
  <2> QED
    BY <1>4, <2>1, <2>2
<1>8. ASSUME NEW o \in Op, Save(o) PROVE Earned'
  <2>1. op[o].pc \in Rotating /\ raced \subseteq raced' /\ Answer(o, op[o].new)
    BY <1>8 DEF Save, At, Rotating
  <2>2. Others(o) /\ op'[o].kind = op[o].kind /\ op'[o].fair = op[o].fair
    BY <2>1 DEF TypeOK, OpRecord, Step, Others, Answer
  <2> QED
    BY <1>4, <2>1, <2>2
<1>9. ASSUME NEW o \in Op, Others(o), op'[o].kind = "login", raced \subseteq raced' PROVE Earned'
  <2>1. TurnedAway(o)'
    BY <1>9 DEF TurnedAway
  <2> QED
    BY <1>9, <2>1, EarnedByOne
<1>10. ASSUME NEW o \in Op, Verify(o) PROVE Earned'
  <2>1. op[o].kind = "login" /\ raced' = raced /\ Step(o, [op[o] EXCEPT !.pc = "create", !.ver = pw])
    BY <1>10 DEF Verify, At, Shape
  <2>2. Others(o) /\ op'[o].kind = "login"
    BY <2>1 DEF TypeOK, OpRecord, Step, Others
  <2> QED
    BY <1>9, <2>1, <2>2
<1>11. ASSUME NEW o \in Op, CreateSession(o) PROVE Earned'
  <2>1. op[o].kind = "login" /\ raced \subseteq raced'
    BY <1>11 DEF CreateSession, At, Shape, Note
  <2>2. \E t : Answer(o, t)
    BY <1>11 DEF CreateSession
  <2>3. Others(o) /\ op'[o].kind = "login"
    BY <2>1, <2>2 DEF TypeOK, OpRecord, Step, Others, Answer
  <2> QED
    BY <1>9, <2>1, <2>3
<1>12. ASSUME NEW o \in Op, Alarm(o) \/ RevokeSave(o) \/ RevokeAll(o) PROVE Earned'
  <2>1. raced' = raced /\ (Answer(o, None) \/ Step(o, Idle))
    BY <1>12 DEF Alarm, RevokeSave, RevokeAll
  <2>2. Others(o) /\ TurnedAway(o)'
    BY <2>1, NothingEarned
  <2> QED
    BY <2>1, <2>2, EarnedByOne
<1>13. ASSUME NEW o \in Op, LogoutFind(o) PROVE Earned'
  <2>1. raced' = raced /\ \/ Answer(o, None)
                          \/ \E s : Step(o, [op[o] EXCEPT !.pc = "revoke", !.sid = s])
    BY <1>13 DEF LogoutFind
  <2>2. Others(o) /\ TurnedAway(o)'
    BY <2>1, NothingEarned
  <2> QED
    BY <2>1, <2>2, EarnedByOne
<1>14. ASSUME NEW o \in Op, RevokeFind(o) \/ SavePw(o) PROVE Earned'
  <2>1. raced' = raced /\ (Step(o, Idle) \/ \E l \in {"revoke", "revokeAll"} : Goto(o, l))
    BY <1>14 DEF RevokeFind, SavePw
  <2>2. Others(o) /\ TurnedAway(o)'
    BY <2>1, NothingEarned
  <2> QED
    BY <2>1, <2>2, EarnedByOne
<1>15. ASSUME NEW o \in Op, Deliver(o) \/ Lose(o) PROVE Earned'
  <2>1. raced \subseteq raced' /\ Step(o, Idle)
    BY <1>15 DEF Deliver, Lose, Note
  <2>2. Others(o) /\ TurnedAway(o)'
    BY <2>1, NothingEarned
  <2> QED
    BY <2>1, <2>2, EarnedByOne
<1>16. ASSUME UNCHANGED op, raced \subseteq raced' PROVE Earned'
  <2>1. SUFFICES ASSUME "doubleRotate" \notin raced', NEW k \in Op PROVE TurnedAway(k)'
    BY DEF Earned
  <2>2. TurnedAway(k) /\ op'[k] = op[k]
    BY <1>16, <2>1 DEF Earned
  <2>3. op[k].pc \in {"prev", "grace"} => op[k].cookie \in Token
    BY DEF Shape, TypeOK, OpRecord
  <2> QED
    BY <2>1, <2>2, <2>3, SpentStays DEF TurnedAway
<1>17. ASSUME \/ \E t \in Token : GraceExpires(t)
              \/ \E a, b \in Browser : Copy(a, b)
              \/ UNCHANGED vars
       PROVE  Earned'
  <2>1. UNCHANGED op /\ raced \subseteq raced'
    BY <1>17 DEF GraceExpires, Copy, vars, Note
  <2> QED
    BY <1>16, <2>1
<1> QED
  BY <1>1, <1>2, <1>3, <1>5, <1>6, <1>7, <1>8, <1>10, <1>11, <1>12, <1>13, <1>14, <1>15,
     <1>17 DEF Next, Serve

\* Sessions of an old password do not come back.
LEMMA PasswordStep ==
    ASSUME TypeOK, Shape, Issued, Password, [Next]_vars
    PROVE  Password'
<1> USE SessionsAssumption DEF TypeOK, OpRecord, Shape, Rotating, Issued, Password, Pending
<1>1. ASSUME NEW o \in Op, NEW b \in Browser, BeginRefresh(o, b) PROVE Password'
  BY <1>1 DEF BeginRefresh, At, Step, Request, Idle, Good, server, history
<1>2. ASSUME NEW o \in Op, NEW b \in Browser, BeginLogin(o, b) PROVE Password'
  BY <1>2 DEF BeginLogin, At, Step, Request, Idle, server, history
<1>3. ASSUME NEW o \in Op, NEW b \in Browser, BeginLogout(o, b) PROVE Password'
  BY <1>3 DEF BeginLogout, At, Step, Request, Idle, server, history
<1>4. ASSUME NEW o \in Op, NEW b \in Browser, NEW s \in Session, BeginRevoke(o, b, s) PROVE Password'
  BY <1>4 DEF BeginRevoke, At, Step, Request, Idle, server, history
<1>5. ASSUME NEW o \in Op, NEW b \in Browser, BeginChange(o, b) PROVE Password'
  BY <1>5 DEF BeginChange, At, Step, Request, Idle, server, history
<1>6. ASSUME NEW o \in Op, NEW b \in Browser, BeginReset(o, b) PROVE Password'
  BY <1>6 DEF BeginReset, At, Step, Request, Idle, server, history
<1>7. ASSUME NEW o \in Op, NEW b \in Browser, BeginLogoutAll(o, b) PROVE Password'
  BY <1>7 DEF BeginLogoutAll, At, Step, Request, Idle, server, history
<1>8. ASSUME NEW o \in Op, ReadPrev(o) PROVE Password'
  BY <1>8 DEF ReadPrev, At, Step, server, history
<1>9. ASSUME NEW o \in Op, ReadGrace(o) PROVE Password'
  <2>1. /\ op[o].pc = "grace"
        /\ UNCHANGED <<tok, revoked, prev, grace, pw, jar, family, since>>
        /\ raced \subseteq raced'
    BY <1>9 DEF ReadGrace, At, server, history, GraceRace
  <2>2. CASE op[o].dead \/ grace[op[o].cookie] = None
    <3>1. Goto(o, "alarm")
      BY <1>9, <2>2 DEF ReadGrace
    <3> QED
      BY <2>1, <2>2, <3>1 DEF Step, Goto, Answer, Idle, history, Current
  <2>3. CASE ~(op[o].dead \/ grace[op[o].cookie] = None)
    <3>1. Answer(o, grace[op[o].cookie])
      BY <1>9, <2>3 DEF ReadGrace
    <3> QED
      BY <2>1, <2>3, <3>1 DEF Step, Goto, Answer, Idle, history, Current
  <2> QED
    BY <2>2, <2>3
<1>10. ASSUME NEW o \in Op, Alarm(o) PROVE Password'
  BY <1>10 DEF Alarm, At, Step, Answer, AllRevoked, history
<1>11. ASSUME NEW o \in Op, FindActive(o) PROVE Password'
  <2>1. /\ op[o].pc = "active"
        /\ UNCHANGED <<tok, revoked, prev, grace, pw, jar, family, since>>
        /\ raced \subseteq raced'
    BY <1>11 DEF FindActive, At, server, history, Note
  <2>2. ASSUME NEW s \in Current(op[o].cookie),
               Step(o, [op[o] EXCEPT !.pc = "setPrev", !.sid = s])
        PROVE  Password'
    BY <2>1, <2>2 DEF Current, Step
  <2>3. CASE Answer(o, None)
    BY <2>1, <2>3 DEF Answer, Step
  <2> QED
    BY <1>11, <2>2, <2>3 DEF FindActive
<1>12. ASSUME NEW o \in Op, SetPrev(o) PROVE Password'
  BY <1>12 DEF SetPrev, At, Step, Unissued
<1>13. ASSUME NEW o \in Op, SetGrace(o) PROVE Password'
  BY <1>13 DEF SetGrace, At, Step, Goto, Note, history
<1>14. ASSUME NEW o \in Op, Save(o) PROVE Password'
  BY <1>14 DEF Save, At, Step, Answer, history
<1>15. ASSUME NEW o \in Op, Verify(o) PROVE Password'
  BY <1>15 DEF Verify, At, Step, server, history
<1>16. ASSUME NEW o \in Op, CreateSession(o) PROVE Password'
  <2>1. PICK s \in Session, t \in Unissued :
          /\ tok' = [tok EXCEPT ![s] = t]
          /\ since' = [since EXCEPT ![s] = op[o].ver]
          /\ Answer(o, t)
    BY <1>16 DEF CreateSession
  <2>2. /\ op[o].pc = "create"
        /\ UNCHANGED <<revoked, pw>>
        /\ raced \subseteq raced'
        /\ op[o].ver = pw \/ "lateLogin" \in raced'
    BY <1>16 DEF CreateSession, At, Note
  <2>3. Pending => Pending'
    BY <2>1, <2>2 DEF Answer, Step
  <2> QED
    BY <2>1, <2>2, <2>3
<1>17. ASSUME NEW o \in Op, LogoutFind(o) PROVE Password'
  <2>1. /\ op[o].pc = "find"
        /\ UNCHANGED <<tok, revoked, prev, grace, pw, jar, family, since>>
        /\ raced \subseteq raced'
    BY <1>17 DEF LogoutFind, At, server, history, Note
  <2>2. ASSUME NEW s \in Current(op[o].cookie),
               Step(o, [op[o] EXCEPT !.pc = "revoke", !.sid = s])
        PROVE  Password'
    BY <2>1, <2>2 DEF Current, Step
  <2>3. CASE Answer(o, None)
    BY <2>1, <2>3 DEF Answer, Step
  <2> QED
    BY <1>17, <2>2, <2>3 DEF LogoutFind
<1>18. ASSUME NEW o \in Op, RevokeFind(o) PROVE Password'
  <2>1. /\ op[o].pc = "findId"
        /\ UNCHANGED <<tok, revoked, prev, grace, pw, jar, family, since, raced>>
    BY <1>18 DEF RevokeFind, At, server, history
  <2>2. CASE tok[op[o].sid] = None \/ revoked[op[o].sid]
    <3>1. Step(o, Idle)
      BY <1>18, <2>2 DEF RevokeFind
    <3> QED
      BY <2>1, <2>2, <3>1 DEF Step, Goto, Answer, Idle, history, Current
  <2>3. CASE ~(tok[op[o].sid] = None \/ revoked[op[o].sid])
    <3>1. Goto(o, "revoke")
      BY <1>18, <2>3 DEF RevokeFind
    <3> QED
      BY <2>1, <2>3, <3>1 DEF Step, Goto, Answer, Idle, history, Current
  <2> QED
    BY <2>2, <2>3
<1>19. ASSUME NEW o \in Op, RevokeSave(o) PROVE Password'
  <2>1. /\ op[o].pc = "revoke"
        /\ UNCHANGED <<tok, prev, grace, pw, jar, family, since, raced>>
        /\ revoked' = [revoked EXCEPT ![op[o].sid] = TRUE]
    BY <1>19 DEF RevokeSave, At, server, history
  <2>2. CASE op[o].kind = "logout" \/ family[op[o].cookie] = op[o].sid
    <3>1. Answer(o, None)
      BY <1>19, <2>2 DEF RevokeSave
    <3> QED
      BY <2>1, <2>2, <3>1 DEF Step, Goto, Answer, Idle, history, Current
  <2>3. CASE ~(op[o].kind = "logout" \/ family[op[o].cookie] = op[o].sid)
    <3>1. Step(o, Idle)
      BY <1>19, <2>3 DEF RevokeSave
    <3> QED
      BY <2>1, <2>3, <3>1 DEF Step, Goto, Answer, Idle, history, Current
  <2> QED
    BY <2>2, <2>3
<1>20. ASSUME NEW o \in Op, SavePw(o) PROVE Password'
  BY <1>20 DEF SavePw, At, Step, Goto, history
<1>21. ASSUME NEW o \in Op, RevokeAll(o) PROVE Password'
  <2>1. /\ op[o].pc = "revokeAll"
        /\ UNCHANGED <<tok, prev, grace, pw, jar, family, since, raced>>
        /\ revoked' = AllRevoked
    BY <1>21 DEF RevokeAll, At, server, history
  <2>2. CASE op[o].kind = "reset"
    <3>1. Step(o, Idle)
      BY <1>21, <2>2 DEF RevokeAll
    <3> QED
      BY <2>1, <2>2, <3>1 DEF Step, Goto, Answer, Idle, history, Current, AllRevoked
  <2>3. CASE ~(op[o].kind = "reset")
    <3>1. Answer(o, None)
      BY <1>21, <2>3 DEF RevokeAll
    <3> QED
      BY <2>1, <2>3, <3>1 DEF Step, Goto, Answer, Idle, history, Current, AllRevoked
  <2> QED
    BY <2>2, <2>3
<1>22. ASSUME NEW o \in Op, Deliver(o) PROVE Password'
  BY <1>22 DEF Deliver, At, Step, Idle, server, history
<1>23. ASSUME NEW o \in Op, Lose(o) PROVE Password'
  BY <1>23, ZenonT(60) DEF Lose, At, Step, Idle, Note, server, history
<1>24. ASSUME NEW t \in Token, GraceExpires(t) PROVE Password'
  BY <1>24 DEF GraceExpires, At, Note, history
<1>25. ASSUME NEW a \in Browser, NEW b \in Browser, Copy(a, b) PROVE Password'
  BY <1>25 DEF Copy, server, history
<1>26. CASE UNCHANGED vars
  BY <1>26 DEF vars, server, history, At, Good
<1> QED
  BY <1>1, <1>2, <1>3, <1>4, <1>5, <1>6, <1>7, <1>8, <1>9, <1>10, <1>11, <1>12, <1>13,
     <1>14, <1>15, <1>16, <1>17, <1>18, <1>19, <1>20, <1>21, <1>22, <1>23, <1>24, <1>25,
     <1>26 DEF Next, Send, Serve

\* Only tokens that were issued get about.
LEMMA KnownStep ==
    ASSUME TypeOK, Shape, Issued, Fresh, Known, [Next]_vars
    PROVE  Known'
<1> USE SessionsAssumption DEF TypeOK, OpRecord, Shape, Rotating, Issued, Fresh, Known
<1>1. ASSUME NEW o \in Op, NEW b \in Browser, BeginRefresh(o, b) PROVE Known'
  BY <1>1 DEF BeginRefresh, At, Step, Request, Idle, Good, server, history
<1>2. ASSUME NEW o \in Op, NEW b \in Browser, BeginLogin(o, b) PROVE Known'
  BY <1>2 DEF BeginLogin, At, Step, Request, Idle, server, history
<1>3. ASSUME NEW o \in Op, NEW b \in Browser, BeginLogout(o, b) PROVE Known'
  BY <1>3 DEF BeginLogout, At, Step, Request, Idle, server, history
<1>4. ASSUME NEW o \in Op, NEW b \in Browser, NEW s \in Session, BeginRevoke(o, b, s) PROVE Known'
  BY <1>4 DEF BeginRevoke, At, Step, Request, Idle, server, history
<1>5. ASSUME NEW o \in Op, NEW b \in Browser, BeginChange(o, b) PROVE Known'
  BY <1>5 DEF BeginChange, At, Step, Request, Idle, server, history
<1>6. ASSUME NEW o \in Op, NEW b \in Browser, BeginReset(o, b) PROVE Known'
  BY <1>6 DEF BeginReset, At, Step, Request, Idle, server, history
<1>7. ASSUME NEW o \in Op, NEW b \in Browser, BeginLogoutAll(o, b) PROVE Known'
  BY <1>7 DEF BeginLogoutAll, At, Step, Request, Idle, server, history
<1>8. ASSUME NEW o \in Op, ReadPrev(o) PROVE Known'
  BY <1>8 DEF ReadPrev, At, Step, server, history
<1>9. ASSUME NEW o \in Op, ReadGrace(o) PROVE Known'
  <2>1. /\ op[o].pc = "grace"
        /\ UNCHANGED <<tok, revoked, prev, grace, pw, jar, family, since>>
        /\ raced \subseteq raced'
    BY <1>9 DEF ReadGrace, At, server, history, GraceRace
  <2>2. CASE op[o].dead \/ grace[op[o].cookie] = None
    <3>1. Goto(o, "alarm")
      BY <1>9, <2>2 DEF ReadGrace
    <3> QED
      BY <2>1, <2>2, <3>1 DEF Step, Goto, Answer, Idle, history, Current
  <2>3. CASE ~(op[o].dead \/ grace[op[o].cookie] = None)
    <3>1. Answer(o, grace[op[o].cookie])
      BY <1>9, <2>3 DEF ReadGrace
    <3> QED
      BY <2>1, <2>3, <3>1 DEF Step, Goto, Answer, Idle, history, Current
  <2> QED
    BY <2>2, <2>3
<1>10. ASSUME NEW o \in Op, Alarm(o) PROVE Known'
  BY <1>10 DEF Alarm, At, Step, Answer, AllRevoked, history
<1>11. ASSUME NEW o \in Op, FindActive(o) PROVE Known'
  <2>1. /\ op[o].pc = "active"
        /\ UNCHANGED <<tok, revoked, prev, grace, pw, jar, family, since>>
        /\ raced \subseteq raced'
    BY <1>11 DEF FindActive, At, server, history, Note
  <2>2. ASSUME NEW s \in Current(op[o].cookie),
               Step(o, [op[o] EXCEPT !.pc = "setPrev", !.sid = s])
        PROVE  Known'
    BY <2>1, <2>2 DEF Current, Step
  <2>3. CASE Answer(o, None)
    BY <2>1, <2>3 DEF Answer, Step
  <2> QED
    BY <1>11, <2>2, <2>3 DEF FindActive
<1>12. ASSUME NEW o \in Op, SetPrev(o) PROVE Known'
  BY <1>12 DEF SetPrev, At, Step, Unissued
<1>13. ASSUME NEW o \in Op, SetGrace(o) PROVE Known'
  BY <1>13 DEF SetGrace, At, Step, Goto, Note, history
<1>14. ASSUME NEW o \in Op, Save(o) PROVE Known'
  BY <1>14 DEF Save, At, Step, Answer, history
<1>15. ASSUME NEW o \in Op, Verify(o) PROVE Known'
  BY <1>15 DEF Verify, At, Step, server, history
<1>16. ASSUME NEW o \in Op, CreateSession(o) PROVE Known'
  BY <1>16 DEF CreateSession, At, Step, Answer, Unissued, Note
<1>17. ASSUME NEW o \in Op, LogoutFind(o) PROVE Known'
  <2>1. /\ op[o].pc = "find"
        /\ UNCHANGED <<tok, revoked, prev, grace, pw, jar, family, since>>
        /\ raced \subseteq raced'
    BY <1>17 DEF LogoutFind, At, server, history, Note
  <2>2. ASSUME NEW s \in Current(op[o].cookie),
               Step(o, [op[o] EXCEPT !.pc = "revoke", !.sid = s])
        PROVE  Known'
    BY <2>1, <2>2 DEF Current, Step
  <2>3. CASE Answer(o, None)
    BY <2>1, <2>3 DEF Answer, Step
  <2> QED
    BY <1>17, <2>2, <2>3 DEF LogoutFind
<1>18. ASSUME NEW o \in Op, RevokeFind(o) PROVE Known'
  <2>1. /\ op[o].pc = "findId"
        /\ UNCHANGED <<tok, revoked, prev, grace, pw, jar, family, since, raced>>
    BY <1>18 DEF RevokeFind, At, server, history
  <2>2. CASE tok[op[o].sid] = None \/ revoked[op[o].sid]
    <3>1. Step(o, Idle)
      BY <1>18, <2>2 DEF RevokeFind
    <3> QED
      BY <2>1, <2>2, <3>1 DEF Step, Goto, Answer, Idle, history, Current
  <2>3. CASE ~(tok[op[o].sid] = None \/ revoked[op[o].sid])
    <3>1. Goto(o, "revoke")
      BY <1>18, <2>3 DEF RevokeFind
    <3> QED
      BY <2>1, <2>3, <3>1 DEF Step, Goto, Answer, Idle, history, Current
  <2> QED
    BY <2>2, <2>3
<1>19. ASSUME NEW o \in Op, RevokeSave(o) PROVE Known'
  <2>1. /\ op[o].pc = "revoke"
        /\ UNCHANGED <<tok, prev, grace, pw, jar, family, since, raced>>
        /\ revoked' = [revoked EXCEPT ![op[o].sid] = TRUE]
    BY <1>19 DEF RevokeSave, At, server, history
  <2>2. CASE op[o].kind = "logout" \/ family[op[o].cookie] = op[o].sid
    <3>1. Answer(o, None)
      BY <1>19, <2>2 DEF RevokeSave
    <3> QED
      BY <2>1, <2>2, <3>1 DEF Step, Goto, Answer, Idle, history, Current
  <2>3. CASE ~(op[o].kind = "logout" \/ family[op[o].cookie] = op[o].sid)
    <3>1. Step(o, Idle)
      BY <1>19, <2>3 DEF RevokeSave
    <3> QED
      BY <2>1, <2>3, <3>1 DEF Step, Goto, Answer, Idle, history, Current
  <2> QED
    BY <2>2, <2>3
<1>20. ASSUME NEW o \in Op, SavePw(o) PROVE Known'
  BY <1>20 DEF SavePw, At, Step, Goto, history
<1>21. ASSUME NEW o \in Op, RevokeAll(o) PROVE Known'
  <2>1. /\ op[o].pc = "revokeAll"
        /\ UNCHANGED <<tok, prev, grace, pw, jar, family, since, raced>>
        /\ revoked' = AllRevoked
    BY <1>21 DEF RevokeAll, At, server, history
  <2>2. CASE op[o].kind = "reset"
    <3>1. Step(o, Idle)
      BY <1>21, <2>2 DEF RevokeAll
    <3> QED
      BY <2>1, <2>2, <3>1 DEF Step, Goto, Answer, Idle, history, Current, AllRevoked
  <2>3. CASE ~(op[o].kind = "reset")
    <3>1. Answer(o, None)
      BY <1>21, <2>3 DEF RevokeAll
    <3> QED
      BY <2>1, <2>3, <3>1 DEF Step, Goto, Answer, Idle, history, Current, AllRevoked
  <2> QED
    BY <2>2, <2>3
<1>22. ASSUME NEW o \in Op, Deliver(o) PROVE Known'
  BY <1>22 DEF Deliver, At, Step, Idle, server, history
<1>23. ASSUME NEW o \in Op, Lose(o) PROVE Known'
  BY <1>23 DEF Lose, At, Step, Idle, Note, server, history
<1>24. ASSUME NEW t \in Token, GraceExpires(t) PROVE Known'
  BY <1>24 DEF GraceExpires, At, Note, history
<1>25. ASSUME NEW a \in Browser, NEW b \in Browser, Copy(a, b) PROVE Known'
  BY <1>25 DEF Copy, server, history
<1>26. CASE UNCHANGED vars
  BY <1>26 DEF vars, server, history, At, Good
<1> QED
  BY <1>1, <1>2, <1>3, <1>4, <1>5, <1>6, <1>7, <1>8, <1>9, <1>10, <1>11, <1>12, <1>13,
     <1>14, <1>15, <1>16, <1>17, <1>18, <1>19, <1>20, <1>21, <1>22, <1>23, <1>24, <1>25,
     <1>26 DEF Next, Send, Serve

\* What a step of a request may do with tokens: leave them, drop them, or answer
\* with one of the row of its cookie.
PassesOn(o) ==
    /\ UNCHANGED <<jar, family>> /\ raced \subseteq raced' /\ Others(o)
    /\ op'[o].who \in Browser => op'[o].who = op[o].who
    /\ op'[o].cookie # None => op'[o].cookie = op[o].cookie
    /\ op'[o].new # None => \/ op'[o].new = op[o].new
                            \/ op[o].cookie # None /\ family[op'[o].new] = family[op[o].cookie]

\* Then nobody holds more than before.
LEMMA PassingHolds ==
    ASSUME TypeOK, OneHolder, NEW o \in Op, PassesOn(o)
    PROVE  OneHolder'
<1>1. ASSUME NEW b \in Browser, NEW s \in Session, Holds(b, s)' PROVE Holds(b, s)
  <2>1. CASE jar'[b] # None /\ family'[jar'[b]] = s
    BY <2>1 DEF PassesOn, Holds
  <2>2. ASSUME NEW k \in Op, op'[k].who = b,
               \/ op'[k].cookie # None /\ family'[op'[k].cookie] = s
               \/ op'[k].new # None /\ family'[op'[k].new] = s
        PROVE  Holds(b, s)
    <3>1. CASE k # o
      BY <2>2, <3>1 DEF PassesOn, Others, Holds
    <3>2. CASE k = o
      <4>1. op[o].who = b /\ family' = family
        BY <2>2, <3>2 DEF PassesOn
      <4>2. \/ op[o].cookie # None /\ family[op[o].cookie] = s
            \/ op[o].new # None /\ family[op[o].new] = s
        BY <2>2, <3>2, <4>1 DEF PassesOn
      <4> QED
        BY <4>1, <4>2 DEF Holds
    <3> QED
      BY <3>1, <3>2
  <2> QED
    BY <1>1, <2>1, <2>2 DEF Holds
<1>2. "copied" \in raced => "copied" \in raced'
  BY DEF PassesOn
<1> QED
  BY <1>1, <1>2 DEF OneHolder

\* A request that goes on, finds a row, ends, or is answered with nothing or with
\* what it has, is of that kind.
LEMMA PassingForms ==
    ASSUME TypeOK, NEW o \in Op, UNCHANGED <<jar, family>>, raced \subseteq raced',
           \/ \E l \in Label : Goto(o, l)
           \/ \E l \in Label, s \in Session : Step(o, [op[o] EXCEPT !.pc = l, !.sid = s])
           \/ \E l \in Label, s \in Session, d \in BOOLEAN : Step(o, [op[o] EXCEPT !.pc = l, !.sid = s, !.dead = d])
           \/ Step(o, [op[o] EXCEPT !.pc = "create", !.ver = pw])
           \/ Answer(o, None) \/ Answer(o, op[o].new)
           \/ Step(o, Idle)
    PROVE  PassesOn(o)
<1>1. ASSUME NEW l \in Label, Goto(o, l) PROVE PassesOn(o)
  <2>1. Others(o) /\ op'[o] = [op[o] EXCEPT !.pc = l] /\ op[o] \in OpRecord
    BY <1>1 DEF Goto, Others, Step, TypeOK
  <2>2. op'[o].who = op[o].who /\ op'[o].cookie = op[o].cookie /\ op'[o].new = op[o].new
    BY <2>1 DEF OpRecord
  <2> QED
    BY <2>1, <2>2 DEF PassesOn
<1>2. ASSUME NEW l \in Label, NEW s \in Session, Step(o, [op[o] EXCEPT !.pc = l, !.sid = s]) PROVE PassesOn(o)
  <2>1. Others(o) /\ op'[o] = [op[o] EXCEPT !.pc = l, !.sid = s] /\ op[o] \in OpRecord
    BY <1>2 DEF Others, Step, TypeOK
  <2>2. op'[o].who = op[o].who /\ op'[o].cookie = op[o].cookie /\ op'[o].new = op[o].new
    BY <2>1 DEF OpRecord
  <2> QED
    BY <2>1, <2>2 DEF PassesOn
<1>3. ASSUME NEW l \in Label, NEW s \in Session, NEW d \in BOOLEAN, Step(o, [op[o] EXCEPT !.pc = l, !.sid = s, !.dead = d])
      PROVE  PassesOn(o)
  <2>1. Others(o) /\ op'[o] = [op[o] EXCEPT !.pc = l, !.sid = s, !.dead = d] /\ op[o] \in OpRecord
    BY <1>3 DEF Others, Step, TypeOK
  <2>2. op'[o].who = op[o].who /\ op'[o].cookie = op[o].cookie /\ op'[o].new = op[o].new
    BY <2>1 DEF OpRecord
  <2> QED
    BY <2>1, <2>2 DEF PassesOn
<1>4. CASE Step(o, [op[o] EXCEPT !.pc = "create", !.ver = pw])
  BY <1>4 DEF PassesOn, Others, Step, TypeOK, OpRecord
<1>5. CASE Answer(o, None)
  BY <1>5 DEF Answer, PassesOn, Others, Step, TypeOK, OpRecord
<1>6. CASE Answer(o, op[o].new)
  BY <1>6 DEF Answer, PassesOn, Others, Step, TypeOK, OpRecord
<1>7. CASE Step(o, Idle)
  BY <1>7, SessionsAssumption DEF Idle, PassesOn, Others, Step, TypeOK, OpRecord
<1> QED
  BY <1>1, <1>2, <1>3, <1>4, <1>5, <1>6, <1>7

\* A request that a browser sends has the cookie of its jar, or none.
LEMMA SendHolds ==
    ASSUME TypeOK, OneHolder, NEW o \in Op, NEW b \in Browser, Send(o, b)
    PROVE  OneHolder'
<1> DEFINE Sends == /\ UNCHANGED <<jar, family, raced>> /\ Others(o)
                    /\ op'[o].who = b /\ op'[o].cookie = jar[b] /\ op'[o].new = None
<1> USE DEF Step, Others, Request, Idle, TypeOK, server, history
<1>1. ASSUME BeginRefresh(o, b) PROVE Sends
  BY <1>1 DEF BeginRefresh
<1>2. ASSUME BeginLogin(o, b) PROVE Sends
  BY <1>2 DEF BeginLogin
<1>3. ASSUME BeginLogout(o, b) PROVE Sends
  BY <1>3 DEF BeginLogout
<1>4. ASSUME NEW s \in Session, BeginRevoke(o, b, s) PROVE Sends
  BY <1>4 DEF BeginRevoke
<1>5. ASSUME BeginChange(o, b) PROVE Sends
  BY <1>5 DEF BeginChange
<1>6. ASSUME BeginReset(o, b) PROVE Sends
  BY <1>6 DEF BeginReset
<1>7. ASSUME BeginLogoutAll(o, b) PROVE Sends
  BY <1>7 DEF BeginLogoutAll
<1> HIDE DEF Sends
<1>8. Sends
  BY <1>1, <1>2, <1>3, <1>4, <1>5, <1>6, <1>7 DEF Send
<1>9. ASSUME NEW a \in Browser, NEW s \in Session, Holds(a, s)' PROVE Holds(a, s)
  BY <1>8, <1>9 DEF Sends, Holds
<1> QED
  BY <1>8, <1>9 DEF Sends, OneHolder

\* The token of a rotation is of the row of its cookie, so its browser has it.
LEMMA DrawHolds ==
    ASSUME TypeOK, Shape, Issued, Known, OneHolder, NEW o \in Op, SetPrev(o)
    PROVE  OneHolder'
<1>1. PICK t \in Unissued : /\ family' = [family EXCEPT ![t] = op[o].sid]
                            /\ Step(o, [op[o] EXCEPT !.pc = "setGrace", !.new = t])
  BY DEF SetPrev
<1>2. UNCHANGED <<jar, raced>> /\ op[o].pc = "setPrev"
  BY DEF SetPrev, At
<1>3. /\ op[o].cookie # None /\ family[op[o].cookie] = op[o].sid
      /\ op[o].cookie \in Token
  BY <1>2 DEF Shape, Rotating, Issued, TypeOK, OpRecord
<1>4. /\ Others(o) /\ op'[o].who = op[o].who /\ op'[o].cookie = op[o].cookie
      /\ op'[o].new = t
  BY <1>1 DEF Others, Step, TypeOK, OpRecord
<1>5. t \in Token /\ family[t] = None /\ family'[t] = op[o].sid
      /\ \A u : u # t => family'[u] = family[u]
  BY <1>1 DEF Unissued, TypeOK
<1>6. ASSUME NEW b \in Browser, NEW s \in Session, Holds(b, s)' PROVE Holds(b, s)
  <2>1. CASE jar'[b] # None /\ family'[jar'[b]] = s
    BY <1>2, <1>5, <2>1 DEF Holds, Known
  <2>2. ASSUME NEW k \in Op, op'[k].who = b,
               \/ op'[k].cookie # None /\ family'[op'[k].cookie] = s
               \/ op'[k].new # None /\ family'[op'[k].new] = s
        PROVE  Holds(b, s)
    <3>1. CASE k # o
      BY <1>4, <1>5, <2>2, <3>1 DEF Others, Holds, Known
    <3>2. CASE k = o
      BY <1>3, <1>4, <1>5, <2>2, <3>2 DEF Holds, Known
    <3> QED
      BY <3>1, <3>2
  <2> QED
    BY <1>6, <2>1, <2>2 DEF Holds
<1> QED
  BY <1>2, <1>6 DEF OneHolder

\* Nobody has a token of a session before it begins.
LEMMA CreateHolds ==
    ASSUME TypeOK, Shape, Known, OneHolder, NEW o \in Op, CreateSession(o)
    PROVE  OneHolder'
<1>1. PICK x \in {y \in Session : tok[y] = None}, t \in Unissued :
          family' = [family EXCEPT ![t] = x] /\ Answer(o, t)
  BY DEF CreateSession
<1>2. /\ jar' = jar /\ raced \subseteq raced'
      /\ op[o].cookie = None
  BY DEF CreateSession, At, Shape, Note
<1>3. /\ Others(o) /\ op'[o].who = op[o].who /\ op'[o].cookie = op[o].cookie
      /\ op'[o].new = t
  BY <1>1 DEF Answer, Others, Step, TypeOK, OpRecord
<1>4. t \in Token /\ family[t] = None /\ family'[t] = x
      /\ \A u : u # t => family'[u] = family[u]
  BY <1>1 DEF Unissued, TypeOK
<1>5. \A u \in Token : family[u] # x
  BY <1>1, SessionsAssumption DEF Known
<1>6. ASSUME NEW b \in Browser, NEW s \in Session, Holds(b, s)'
      PROVE  IF s = x THEN b = op[o].who ELSE Holds(b, s)
  <2>1. CASE jar'[b] # None /\ family'[jar'[b]] = s
    <3>1. jar[b] \in Token /\ jar[b] # t
      BY <1>2, <1>4, <2>1 DEF TypeOK, Known
    <3> QED
      BY <1>2, <1>4, <1>5, <2>1, <3>1 DEF Holds
  <2>2. ASSUME NEW k \in Op, op'[k].who = b,
               \/ op'[k].cookie # None /\ family'[op'[k].cookie] = s
               \/ op'[k].new # None /\ family'[op'[k].new] = s
        PROVE  IF s = x THEN b = op[o].who ELSE Holds(b, s)
    <3>1. CASE k # o
      <4>1. op'[k] = op[k] /\ (op[k].cookie # None => op[k].cookie \in Token /\ op[k].cookie # t)
            /\ (op[k].new # None => op[k].new \in Token /\ op[k].new # t)
        BY <1>3, <1>4, <3>1 DEF Others, Known, TypeOK, OpRecord
      <4> QED
        BY <1>4, <1>5, <2>2, <4>1 DEF Holds
    <3>2. CASE k = o
      BY <1>2, <1>3, <1>4, <2>2, <3>2
    <3> QED
      BY <3>1, <3>2
  <2> QED
    BY <1>6, <2>1, <2>2 DEF Holds
<1> QED
  BY <1>2, <1>6 DEF OneHolder

\* An answer brings its browser what it carried.
LEMMA DeliverHolds ==
    ASSUME TypeOK, OneHolder, NEW o \in Op, Deliver(o)
    PROVE  OneHolder'
<1>1. /\ UNCHANGED <<family, raced>> /\ jar' = [jar EXCEPT ![op[o].who] = op[o].new]
      /\ Others(o) /\ op'[o] = Idle
  BY DEF Deliver, Step, Others, TypeOK, server, history
<1>2. ASSUME NEW b \in Browser, NEW s \in Session, Holds(b, s)' PROVE Holds(b, s)
  <2>1. CASE jar'[b] # None /\ family'[jar'[b]] = s
    BY <1>1, <2>1 DEF Holds, TypeOK
  <2>2. ASSUME NEW k \in Op, op'[k].who = b,
               \/ op'[k].cookie # None /\ family'[op'[k].cookie] = s
               \/ op'[k].new # None /\ family'[op'[k].new] = s
        PROVE  Holds(b, s)
    <3>1. k # o
      BY <1>1, <2>2 DEF Idle
    <3> QED
      BY <1>1, <2>2, <3>1 DEF Others, Holds
  <2> QED
    BY <1>2, <2>1, <2>2 DEF Holds
<1> QED
  BY <1>1, <1>2 DEF OneHolder

\* No token gets from one browser to another.
LEMMA HolderStep ==
    ASSUME TypeOK, Shape, Issued, Fresh, Known, OneHolder, [Next]_vars
    PROVE  OneHolder'
<1>1. ASSUME NEW o \in Op, NEW b \in Browser, Send(o, b) PROVE OneHolder'
  BY <1>1, SendHolds
<1>2. ASSUME NEW o \in Op, ReadPrev(o) PROVE PassesOn(o)
  <2>1. UNCHANGED <<jar, family, raced>>
    BY <1>2 DEF ReadPrev, history
  <2>2. CASE prev[op[o].cookie] = None
    <3>1. Goto(o, "active")
      BY <1>2, <2>2 DEF ReadPrev, Goto
    <3> QED
      BY <2>1, <3>1, PassingForms DEF Label
  <2>3. CASE prev[op[o].cookie] # None
    <3>1. op[o].cookie \in Token
      BY <1>2 DEF ReadPrev, At, Shape, TypeOK, OpRecord
    <3>2. prev[op[o].cookie] \in Session /\ revoked[prev[op[o].cookie]] \in BOOLEAN
      BY <2>3, <3>1 DEF TypeOK
    <3>3. \E l \in Label, s \in Session, d \in BOOLEAN :
             Step(o, [op[o] EXCEPT !.pc = l, !.sid = s, !.dead = d])
      BY <1>2, <2>3, <3>2 DEF ReadPrev, Label
    <3> QED
      BY <2>1, <3>3, PassingForms
  <2> QED
    BY <2>2, <2>3
<1>3. ASSUME NEW o \in Op, ReadGrace(o) PROVE PassesOn(o)
  <2>1. op[o].pc = "grace" /\ UNCHANGED <<jar, family>> /\ raced \subseteq raced'
    BY <1>3 DEF ReadGrace, At, GraceRace, history
  <2>2. CASE op[o].dead \/ grace[op[o].cookie] = None
    <3>1. Goto(o, "alarm")
      BY <1>3, <2>2 DEF ReadGrace
    <3> QED
      BY <2>1, <3>1, PassingForms DEF Label
  <2>3. CASE ~(op[o].dead \/ grace[op[o].cookie] = None)
    <3>1. Answer(o, grace[op[o].cookie])
      BY <1>3, <2>3 DEF ReadGrace
    <3>2. op[o].cookie \in Token /\ op[o].cookie # None
      BY <2>1 DEF Shape, TypeOK, OpRecord
    <3>3. family[grace[op[o].cookie]] = family[op[o].cookie]
      BY <2>3, <3>2 DEF Known
    <3>4. /\ Others(o) /\ op'[o].who = op[o].who /\ op'[o].cookie = op[o].cookie
          /\ op'[o].new = grace[op[o].cookie]
      BY <3>1 DEF Answer, Others, Step, TypeOK, OpRecord
    <3> QED
      BY <2>1, <3>2, <3>3, <3>4 DEF PassesOn
  <2> QED
    BY <2>2, <2>3
<1>4. ASSUME NEW o \in Op, FindActive(o) PROVE PassesOn(o)
  <2>1. UNCHANGED <<jar, family>> /\ raced \subseteq raced'
    BY <1>4 DEF FindActive, Note, history
  <2>2. Answer(o, None) \/ \E l \in Label, s \in Session : Step(o, [op[o] EXCEPT !.pc = l, !.sid = s])
    BY <1>4 DEF FindActive, Label, Current
  <2> QED
    BY <2>1, <2>2, PassingForms
<1>5. ASSUME NEW o \in Op, LogoutFind(o) PROVE PassesOn(o)
  <2>1. UNCHANGED <<jar, family, raced>>
    BY <1>5 DEF LogoutFind, history
  <2>2. Answer(o, None) \/ \E l \in Label, s \in Session : Step(o, [op[o] EXCEPT !.pc = l, !.sid = s])
    BY <1>5 DEF LogoutFind, Label, Current
  <2> QED
    BY <2>1, <2>2, PassingForms
<1>6. ASSUME NEW o \in Op, SetGrace(o) \/ RevokeFind(o) \/ SavePw(o) PROVE PassesOn(o)
  <2>1. UNCHANGED <<jar, family>> /\ raced \subseteq raced'
    BY <1>6 DEF SetGrace, RevokeFind, SavePw, Note, history
  <2>2. Step(o, Idle) \/ \E l \in Label : Goto(o, l)
    BY <1>6 DEF SetGrace, RevokeFind, SavePw, Label
  <2> QED
    BY <2>1, <2>2, PassingForms
<1>7. ASSUME NEW o \in Op, \/ Alarm(o) \/ Save(o) \/ RevokeSave(o) \/ RevokeAll(o) \/ Lose(o)
      PROVE  PassesOn(o)
  <2>1. UNCHANGED <<jar, family>> /\ raced \subseteq raced'
    BY <1>7 DEF Alarm, Save, RevokeSave, RevokeAll, Lose, Note, history
  <2>2. Answer(o, None) \/ Answer(o, op[o].new) \/ Step(o, Idle)
    BY <1>7 DEF Alarm, Save, RevokeSave, RevokeAll, Lose
  <2> QED
    BY <2>1, <2>2, PassingForms
<1>8. ASSUME NEW o \in Op, Verify(o) PROVE PassesOn(o)
  <2>1. /\ UNCHANGED <<jar, family, raced>>
        /\ Step(o, [op[o] EXCEPT !.pc = "create", !.ver = pw])
    BY <1>8 DEF Verify, history
  <2> QED
    BY <2>1, PassingForms
<1>9. ASSUME NEW o \in Op, PassesOn(o) PROVE OneHolder'
  BY <1>9, PassingHolds
<1>10. ASSUME NEW o \in Op, SetPrev(o) \/ CreateSession(o) \/ Deliver(o) PROVE OneHolder'
  BY <1>10, DrawHolds, CreateHolds, DeliverHolds
<1>11. ASSUME NEW a \in Browser, NEW b \in Browser, Copy(a, b) PROVE OneHolder'
  <2>1. "copied" \in raced'
    BY <1>11 DEF Copy
  <2> QED
    BY <2>1 DEF OneHolder
<1>12. ASSUME (\E t \in Token : GraceExpires(t)) \/ UNCHANGED vars PROVE OneHolder'
  <2>1. UNCHANGED <<jar, op, family>> /\ raced \subseteq raced'
    BY <1>12 DEF GraceExpires, Note, vars, history
  <2>2. \A b \in Browser, s \in Session : Holds(b, s)' <=> Holds(b, s)
    BY <2>1 DEF Holds
  <2> QED
    BY <2>1, <2>2 DEF OneHolder
<1> QED
  BY <1>1, <1>2, <1>3, <1>4, <1>5, <1>6, <1>7, <1>8, <1>9, <1>10, <1>11, <1>12 DEF Next, Serve

\* The steps of requests that only look, or revoke.
Aside(o) ==
    \/ ReadPrev(o) \/ ReadGrace(o) \/ Alarm(o) \/ FindActive(o) \/ Verify(o)
    \/ LogoutFind(o) \/ RevokeFind(o) \/ RevokeSave(o) \/ SavePw(o) \/ RevokeAll(o)

\* What these steps have in common.
Bystander(o) ==
    /\ UNCHANGED <<tok, prev, grace, jar, family>> /\ raced \subseteq raced' /\ Others(o)
    /\ op[o].pc \notin {"reply", "setGrace", "save"}
    /\ op'[o].pc \notin {"prev", "setGrace", "save"}
    /\ op'[o].pc = "reply" /\ op'[o].new # None /\ Calm' => IsCurrent(op'[o].new)
    /\ op'[o].pc = "grace" => /\ op[o].pc = "prev" /\ op'[o].cookie = op[o].cookie
                              /\ prev[op[o].cookie] # None

\* A step that answers with nothing, goes on, or ends, is one of them.
LEMMA PlainStep ==
    ASSUME TypeOK, NEW o \in Op, op[o].pc \notin {"reply", "setGrace", "save"},
           UNCHANGED <<tok, prev, grace, jar, family>>, raced \subseteq raced',
           \/ Answer(o, None) \/ Step(o, Idle)
           \/ \E l \in {"active", "alarm", "revoke", "revokeAll"} : Goto(o, l)
           \/ \E s : \E l \in {"setPrev", "revoke"} : Step(o, [op[o] EXCEPT !.pc = l, !.sid = s])
           \/ Step(o, [op[o] EXCEPT !.pc = "create", !.ver = pw])
    PROVE  Bystander(o)
<1> USE DEF TypeOK, OpRecord, Bystander, Others, Step
<1>1. CASE Answer(o, None)
  BY <1>1 DEF Answer
<1>2. CASE Step(o, Idle)
  BY <1>2 DEF Idle
<1>3. ASSUME NEW l \in {"active", "alarm", "revoke", "revokeAll"}, Goto(o, l)
      PROVE  Bystander(o)
  BY <1>3 DEF Goto
<1>4. ASSUME NEW s, NEW l \in {"setPrev", "revoke"},
             Step(o, [op[o] EXCEPT !.pc = l, !.sid = s])
      PROVE  Bystander(o)
  BY <1>4
<1>5. CASE Step(o, [op[o] EXCEPT !.pc = "create", !.ver = pw])
  BY <1>5
<1> QED
  BY <1>1, <1>2, <1>3, <1>4, <1>5

\* All of them are.
LEMMA AsideStep ==
    ASSUME TypeOK, Shape, Known, NEW o \in Op, Aside(o)
    PROVE  Bystander(o)
<1> USE DEF At, server, history
<1>1. ASSUME ReadPrev(o) PROVE Bystander(o)
  <2>1. CASE prev[op[o].cookie] = None
    BY <1>1, <2>1, PlainStep DEF ReadPrev, Goto
  <2>2. CASE prev[op[o].cookie] # None
    BY <1>1, <2>2 DEF ReadPrev, TypeOK, OpRecord, Bystander, Others, Step
  <2> QED
    BY <2>1, <2>2
<1>2. ASSUME ReadGrace(o) PROVE Bystander(o)
  <2>1. raced \subseteq raced'
    BY <1>2 DEF ReadGrace, GraceRace
  <2>2. CASE op[o].dead \/ grace[op[o].cookie] = None
    BY <1>2, <2>1, <2>2, PlainStep DEF ReadGrace
  <2>3. CASE ~(op[o].dead \/ grace[op[o].cookie] = None)
    <3> DEFINE g == grace[op[o].cookie]
    <3>1. Answer(o, g) /\ UNCHANGED <<tok, prev, grace, jar, family>> /\ op[o].pc = "grace"
      BY <1>2, <2>3 DEF ReadGrace
    <3>2. op[o].cookie \in Token /\ op[o].cookie # None
      BY <3>1 DEF TypeOK, OpRecord, Shape
    <3>3. family[g] = op[o].sid
      BY <2>3, <3>1, <3>2 DEF Known
    <3>4. tok[op[o].sid] = g \/ "outOfStep" \in raced'
      BY <1>2, <2>3 DEF ReadGrace, GraceRace
    <3>5. Calm' => tok[family[g]] = g
      BY <3>3, <3>4 DEF Calm
    <3>6. op'[o].pc = "reply" /\ op'[o].new = g /\ Others(o)
      BY <3>1 DEF TypeOK, OpRecord, Answer, Step, Others
    <3>7. Calm' => tok[family[op'[o].new]] = op'[o].new
      BY <3>5, <3>6
    <3> HIDE DEF g
    <3> QED
      BY <2>1, <3>1, <3>6, <3>7 DEF Bystander, IsCurrent
  <2> QED
    BY <2>2, <2>3
<1>3. ASSUME Alarm(o) PROVE Bystander(o)
  BY <1>3, PlainStep DEF Alarm
<1>4. ASSUME FindActive(o) PROVE Bystander(o)
  <2>1. /\ op[o].pc = "active" /\ UNCHANGED <<tok, prev, grace, jar, family>>
        /\ raced \subseteq raced'
    BY <1>4 DEF FindActive, Note
  <2>2. \/ Answer(o, None)
        \/ \E s : Step(o, [op[o] EXCEPT !.pc = "setPrev", !.sid = s])
    BY <1>4 DEF FindActive
  <2> QED
    BY <2>1, <2>2, PlainStep
<1>5. ASSUME Verify(o) PROVE Bystander(o)
  BY <1>5, PlainStep DEF Verify
<1>6. ASSUME LogoutFind(o) PROVE Bystander(o)
  <2>1. /\ op[o].pc = "find" /\ UNCHANGED <<tok, prev, grace, jar, family, raced>>
    BY <1>6 DEF LogoutFind
  <2>2. \/ Answer(o, None)
        \/ \E s : Step(o, [op[o] EXCEPT !.pc = "revoke", !.sid = s])
    BY <1>6 DEF LogoutFind
  <2> QED
    BY <2>1, <2>2, PlainStep
<1>7. ASSUME RevokeFind(o) PROVE Bystander(o)
  BY <1>7, PlainStep DEF RevokeFind
<1>8. ASSUME RevokeSave(o) PROVE Bystander(o)
  BY <1>8, PlainStep DEF RevokeSave
<1>9. ASSUME SavePw(o) PROVE Bystander(o)
  BY <1>9, PlainStep DEF SavePw
<1>10. ASSUME RevokeAll(o) PROVE Bystander(o)
  BY <1>10, PlainStep DEF RevokeAll
<1> QED
  BY <1>1, <1>2, <1>3, <1>4, <1>5, <1>6, <1>7, <1>8, <1>9, <1>10 DEF Aside

\* What the sending of a request does.
Opening(o, b) ==
    /\ UNCHANGED <<tok, prev, grace, jar, family, raced>> /\ Others(o)
    /\ op[o].pc = "idle"
    /\ op'[o].pc \notin {"reply", "grace", "setGrace", "save"}
    /\ op'[o].pc = "prev" => op'[o].cookie = jar[b] /\ jar[b] # None

\* Every request begins so.
LEMMA SendStep ==
    ASSUME TypeOK, NEW o \in Op, NEW b \in Browser, Send(o, b)
    PROVE  Opening(o, b)
<1> USE DEF Opening, Others, Step, Request, Idle, At, server, history, TypeOK
<1>1. ASSUME BeginRefresh(o, b) PROVE Opening(o, b)
  BY <1>1 DEF BeginRefresh
<1>2. ASSUME BeginLogin(o, b) \/ BeginLogout(o, b) PROVE Opening(o, b)
  <2>1. CASE BeginLogin(o, b)
    BY <2>1 DEF BeginLogin
  <2>2. CASE BeginLogout(o, b)
    BY <2>2 DEF BeginLogout
  <2> QED
    BY <1>2, <2>1, <2>2
<1>3. ASSUME NEW s \in Session, BeginRevoke(o, b, s) PROVE Opening(o, b)
  BY <1>3 DEF BeginRevoke
<1>4. ASSUME BeginChange(o, b) PROVE Opening(o, b)
  BY <1>4 DEF BeginChange
<1>5. ASSUME BeginReset(o, b) PROVE Opening(o, b)
  BY <1>5 DEF BeginReset
<1>6. ASSUME BeginLogoutAll(o, b) PROVE Opening(o, b)
  BY <1>6 DEF BeginLogoutAll
<1> QED
  BY <1>1, <1>2, <1>3, <1>4, <1>5, <1>6 DEF Send

\* A lost refresh is noted; what else is lost carries no token of a cookie.
LEMMA LoseStep ==
    ASSUME TypeOK, Shape, NEW o \in Op, Lose(o)
    PROVE  \/ ~Calm'
           \/ /\ UNCHANGED <<tok, prev, grace, jar, family>> /\ raced \subseteq raced'
              /\ Others(o) /\ op'[o] = Idle
              /\ op[o].pc \notin {"setGrace", "save"}
              /\ op[o].cookie # None => op[o].new = None
<1>1. CASE op[o].kind = "refresh"
  <2>1. "lost" \in raced'
    BY <1>1 DEF Lose, Note
  <2> QED
    BY <2>1 DEF Calm
<1>2. CASE op[o].kind # "refresh"
  <2>1. op[o].pc \notin {"setGrace", "save"} /\ (op[o].cookie # None => op[o].new = None)
    BY <1>2 DEF Shape, Rotating
  <2>2. /\ UNCHANGED <<tok, prev, grace, jar, family>> /\ raced \subseteq raced'
        /\ Others(o) /\ op'[o] = Idle
    BY DEF Lose, Note, Step, Others, TypeOK, server, history
  <2> QED
    BY <2>1, <2>2
<1> QED
  BY <1>1, <1>2

\* A window that closes while a request has the cookie is noted.
LEMMA ExpiryStep ==
    ASSUME TypeOK, NEW t \in Token, GraceExpires(t), Calm'
    PROVE  /\ UNCHANGED <<tok, prev, jar, family, op>> /\ Calm
           /\ \A x \in Token : x # t => grace'[x] = grace[x]
           /\ \A o \in Op : op[o].cookie = t => op[o].pc = "idle"
<1>1. /\ UNCHANGED <<tok, prev, jar, family, op>> /\ raced \subseteq raced'
      /\ \A x \in Token : x # t => grace'[x] = grace[x]
  BY DEF GraceExpires, Note, history, TypeOK
<1>2. Calm
  BY <1>1 DEF Calm
<1>3. "slow" \notin raced'
  BY DEF Calm
<1>4. \A o \in Op : op[o].cookie = t => op[o].pc = "idle"
  BY <1>3 DEF GraceExpires, Note, At
<1> QED
  BY <1>1, <1>2, <1>4

\* A step that moves no token, but the answer of a request that brings nothing,
\* leaves the browsers what they have.
LEMMA JarsKept ==
    ASSUME Jars, NEW o \in Op, Others(o), UNCHANGED <<tok, jar, family>>,
           raced \subseteq raced',
           op[o].pc # "reply" \/ op[o].cookie = None \/ op[o].new = None
    PROVE  Jars'
<1> SUFFICES ASSUME Calm', NEW b \in Browser, jar[b] # None
             PROVE  IsCurrent(jar[b])' \/ \E k \in Op : Brings(k, b, jar[b])'
  BY DEF Jars
<1>1. Calm
  BY DEF Calm
<1>2. CASE IsCurrent(jar[b])
  BY <1>2 DEF IsCurrent
<1>3. ASSUME NEW k \in Op, Brings(k, b, jar[b]) PROVE Brings(k, b, jar[b])'
  <2>1. k # o
    BY <1>3 DEF Brings
  <2> QED
    BY <1>3, <2>1 DEF Brings, Others
<1> QED
  BY <1>1, <1>2, <1>3 DEF Jars

\* What a save does, when nothing raced.
LEMMA SaveStep ==
    ASSUME TypeOK, Shape, Fresh, Issued, NEW o \in Op, Save(o), Calm'
    PROVE  /\ op[o].pc = "save" /\ op[o].cookie \in Token /\ op[o].new \in Token
           /\ op[o].sid \in Session /\ op[o].who \in Browser
           /\ op[o].cookie # None /\ op[o].new # None
           /\ tok' = [tok EXCEPT ![op[o].sid] = op[o].new]
           /\ UNCHANGED <<prev, grace, family, jar>> /\ Others(o)
           /\ op'[o].pc = "reply" /\ op'[o].new = op[o].new
           /\ op'[o].who = op[o].who /\ op'[o].cookie = op[o].cookie
           /\ Calm /\ tok[op[o].sid] = op[o].cookie /\ ~Underway(op[o].cookie)
           /\ family[op[o].new] = op[o].sid /\ family[op[o].cookie] = op[o].sid
<1>1. /\ op[o].pc = "save" /\ op[o].cookie \in Token /\ op[o].new \in Token
      /\ op[o].sid \in Session /\ op[o].who \in Browser
      /\ op[o].cookie # None /\ op[o].new # None
  BY DEF Save, At, TypeOK, OpRecord, Shape, Rotating
<1>2. /\ tok' = [tok EXCEPT ![op[o].sid] = op[o].new]
      /\ UNCHANGED <<prev, grace, family, jar>>
  BY DEF Save, history
<1>3. /\ Others(o) /\ op'[o].pc = "reply" /\ op'[o].new = op[o].new
      /\ op'[o].who = op[o].who /\ op'[o].cookie = op[o].cookie
  BY DEF Save, Answer, Step, Others, TypeOK, OpRecord
<1>4. "doubleRotate" \notin raced' /\ "outOfStep" \notin raced'
  BY DEF Calm
<1>5. /\ raced \subseteq raced' /\ tok[op[o].sid] = op[o].cookie
      /\ ~Underway(op[o].cookie)
  BY <1>4 DEF Save
<1>6. family[op[o].new] = op[o].sid /\ family[op[o].cookie] = op[o].sid
  BY <1>1 DEF Fresh, Issued, Rotating
<1>7. Calm
  BY <1>5 DEF Calm
<1> QED
  BY <1>1, <1>2, <1>3, <1>5, <1>6, <1>7

\* An answer on its way is not overtaken by a rotation.
LEMMA AnswersStep ==
    ASSUME TypeOK, Shape, Issued, Fresh, Known, Answers, [Next]_vars
    PROVE  Answers'
<1> USE SessionsAssumption DEF TypeOK, OpRecord, Shape, Rotating, Issued, Fresh, Known,
   Answers, IsCurrent, Calm
<1>1. ASSUME NEW o \in Op, NEW b \in Browser, Send(o, b) PROVE Answers'
  BY <1>1, SendStep DEF Opening, Others
<1>2. ASSUME NEW o \in Op, Aside(o) PROVE Answers'
  BY <1>2, AsideStep DEF Bystander, Others
<1>3. ASSUME NEW o \in Op, SetPrev(o) PROVE Answers'
  BY <1>3 DEF SetPrev, At, Step, Unissued
<1>4. ASSUME NEW o \in Op, SetGrace(o) PROVE Answers'
  BY <1>4 DEF SetGrace, At, Step, Goto, Note, history
<1>5. ASSUME NEW o \in Op, Save(o) PROVE Answers'
  <2> SUFFICES ASSUME Calm', NEW k \in Op, op'[k].pc = "reply", op'[k].new # None
               PROVE  IsCurrent(op[k].new)'
    BY DEF Answers
  <2>1. CASE k = o
    BY <1>5, <2>1, SaveStep
  <2>2. CASE k # o
    <3>1. op'[k] = op[k] /\ Calm /\ ~Underway(op[o].cookie)
      BY <1>5, <2>2, SaveStep DEF Others
    <3>2. IsCurrent(op[k].new)
      BY <3>1 DEF Answers
    <3>3. family[op[k].new] # op[o].sid
      BY <1>5, SaveStep, <3>1, <3>2 DEF Underway, At
    <3> QED
      BY <1>5, SaveStep, <3>1, <3>2, <3>3
  <2> QED
    BY <2>1, <2>2
<1>6. ASSUME NEW o \in Op, CreateSession(o) PROVE Answers'
  BY <1>6 DEF CreateSession, At, Step, Answer, Unissued, Note
<1>7. ASSUME NEW o \in Op, Deliver(o) PROVE Answers'
  BY <1>7 DEF Deliver, At, Step, Idle, server, history
<1>8. ASSUME NEW o \in Op, Lose(o) PROVE Answers'
  BY <1>8, LoseStep DEF Others, Idle
<1>9. ASSUME NEW t \in Token, GraceExpires(t) PROVE Answers'
  BY <1>9 DEF GraceExpires, At, Note, history
<1>10. ASSUME NEW a \in Browser, NEW b \in Browser, Copy(a, b) PROVE Answers'
  BY <1>10 DEF Copy, server, history
<1>11. CASE UNCHANGED vars
  BY <1>11 DEF vars, server, history
<1> QED
  BY <1>1, <1>2, <1>3, <1>4, <1>5, <1>6, <1>7, <1>8, <1>9, <1>10, <1>11 DEF Next, Serve, Aside

\* Every rotation is followed by the answer that tells its browser.
LEMMA JarsStep ==
    ASSUME TypeOK, Shape, Issued, Fresh, Known, OneHolder, Answers, Jars, [Next]_vars
    PROVE  Jars'
<1> USE SessionsAssumption DEF TypeOK, OpRecord
<1>1. ASSUME NEW o \in Op, NEW b \in Browser, Send(o, b) PROVE Jars'
  BY <1>1, SendStep, JarsKept DEF Opening
<1>2. ASSUME NEW o \in Op, Aside(o) PROVE Jars'
  BY <1>2, AsideStep, JarsKept DEF Bystander
<1>3. ASSUME NEW o \in Op, SetPrev(o) PROVE Jars'
  <2>1. PICK t \in Unissued : /\ family' = [family EXCEPT ![t] = op[o].sid]
                             /\ Step(o, [op[o] EXCEPT !.pc = "setGrace", !.new = t])
    BY <1>3 DEF SetPrev
  <2>2. op[o].pc = "setPrev" /\ Others(o) /\ UNCHANGED <<tok, jar, raced>>
    BY <1>3, <2>1 DEF SetPrev, At, Step, Others
  <2>3. \A x \in Token : family[x] # None => family'[x] = family[x]
    BY <2>1 DEF Unissued
  <2> QED
    BY <2>2, <2>3 DEF Jars, Calm, IsCurrent, Brings, Others, Known
<1>4. ASSUME NEW o \in Op, SetGrace(o) PROVE Jars'
  <2>1. op[o].pc = "setGrace" /\ Others(o) /\ UNCHANGED <<tok, jar, family>>
        /\ raced \subseteq raced'
    BY <1>4 DEF SetGrace, At, Goto, Step, Others, Note, history
  <2> QED
    BY <2>1, JarsKept
<1>5. ASSUME NEW o \in Op, Save(o) PROVE Jars'
  <2> SUFFICES ASSUME Calm', NEW b \in Browser, jar[b] # None
               PROVE  IsCurrent(jar[b])' \/ \E k \in Op : Brings(k, b, jar[b])'
    BY <1>5, SaveStep DEF Jars
  <2>1. IsCurrent(jar[b]) \/ \E k \in Op : Brings(k, b, jar[b])
    BY <1>5, SaveStep DEF Jars
  <2>2. CASE family[jar[b]] # op[o].sid
    <3>1. tok' = [tok EXCEPT ![op[o].sid] = op[o].new] /\ family' = family /\ jar' = jar
      BY <1>5, SaveStep
    <3>2. jar[b] \in Token /\ family[jar[b]] \in Session
      BY DEF Known
    <3>3. tok'[family[jar[b]]] = tok[family[jar[b]]]
      BY <3>1, <3>2, <2>2
    <3>4. IsCurrent(jar[b]) => IsCurrent(jar[b])'
      BY <3>1, <3>3 DEF IsCurrent
    <3>5. ASSUME NEW k \in Op, Brings(k, b, jar[b]) PROVE Brings(k, b, jar[b])'
      BY <1>5, SaveStep, <3>5 DEF Brings, Others
    <3> QED
      BY <2>1, <3>4, <3>5
  <2>3. CASE family[jar[b]] = op[o].sid
    <3>1. Holds(b, op[o].sid) /\ Holds(op[o].who, op[o].sid)
      BY <1>5, SaveStep, <2>3 DEF Holds
    <3>2. op[o].who = b
      BY <1>5, SaveStep, <3>1 DEF OneHolder, Calm
    <3>3. ASSUME NEW k \in Op, Brings(k, b, jar[b]) PROVE FALSE
      <4>1. op[k].pc = "reply" /\ op[k].new # None /\ family[op[k].new] = op[o].sid
        BY <2>3, <3>3 DEF Brings
      <4>2. op[k].new = op[o].cookie
        BY <1>5, SaveStep, <4>1 DEF Answers, IsCurrent
      <4> QED
        BY <1>5, SaveStep, <4>1, <4>2 DEF Underway, At
    <3>4. jar[b] = op[o].cookie
      BY <1>5, SaveStep, <2>1, <2>3, <3>3 DEF IsCurrent
    <3> QED
      BY <1>5, SaveStep, <2>3, <3>2, <3>4 DEF Brings
  <2> QED
    BY <2>2, <2>3
<1>6. ASSUME NEW o \in Op, CreateSession(o) PROVE Jars'
  <2>1. PICK s \in {x \in Session : tok[x] = None}, t \in Unissued :
          /\ tok' = [tok EXCEPT ![s] = t]
          /\ family' = [family EXCEPT ![t] = s]
          /\ Answer(o, t)
    BY <1>6 DEF CreateSession
  <2>2. op[o].pc = "create" /\ jar' = jar /\ Others(o) /\ raced \subseteq raced'
    BY <1>6, <2>1 DEF CreateSession, Note, At, Answer, Step, Others
  <2>3. \A x \in Token : family[x] # None => family[x] # s /\ family'[x] = family[x]
    BY <2>1 DEF Unissued, Known
  <2>4. ASSUME NEW b \in Browser, jar[b] # None PROVE IsCurrent(jar[b]) => IsCurrent(jar[b])'
    BY <2>1, <2>2, <2>3, <2>4 DEF IsCurrent, Known
  <2>5. ASSUME NEW b \in Browser, jar[b] # None, NEW k \in Op, Brings(k, b, jar[b])
        PROVE  Brings(k, b, jar[b])'
    BY <2>2, <2>3, <2>5 DEF Brings, Others, Known
  <2> QED
    BY <2>2, <2>4, <2>5 DEF Jars, Calm
<1>7. ASSUME NEW o \in Op, Deliver(o) PROVE Jars'
  <2>1. /\ op[o].pc = "reply" /\ jar' = [jar EXCEPT ![op[o].who] = op[o].new]
        /\ Others(o) /\ UNCHANGED <<tok, family, raced>>
    BY <1>7 DEF Deliver, At, Step, Others, server, history
  <2> QED
    BY <2>1, SMTT(40) DEF Jars, Answers, Calm, IsCurrent, Brings, Others
<1>8. ASSUME NEW o \in Op, Lose(o) PROVE Jars'
  <2>1. CASE ~Calm'
    BY <2>1 DEF Jars
  <2>2. CASE Calm'
    BY <1>8, <2>2, LoseStep, JarsKept
  <2> QED
    BY <2>1, <2>2
<1>9. ASSUME NEW t \in Token, GraceExpires(t) PROVE Jars'
  BY <1>9 DEF GraceExpires, Note, history, Jars, Calm, IsCurrent, Brings
<1>10. ASSUME NEW a \in Browser, NEW b \in Browser, Copy(a, b) PROVE Jars'
  <2>1. "copied" \in raced'
    BY <1>10 DEF Copy
  <2>2. ~Calm'
    BY <2>1 DEF Calm
  <2> QED
    BY <2>2 DEF Jars
<1>11. CASE UNCHANGED vars
  BY <1>11 DEF vars, server, history, Jars, Calm, IsCurrent, Brings
<1> QED
  BY <1>1, <1>2, <1>3, <1>4, <1>5, <1>6, <1>7, <1>8, <1>9, <1>10, <1>11 DEF Next, Serve, Aside

\* A token is filed as previous by the request that rotates it.
LEMMA FiledStep ==
    ASSUME TypeOK, Shape, Issued, Fresh, Known, Filed, [Next]_vars
    PROVE  Filed'
<1> USE SessionsAssumption DEF TypeOK, OpRecord, Shape, Rotating, Issued, Fresh, Known,
   Filed, IsCurrent, Calm
<1>1. ASSUME NEW o \in Op, NEW b \in Browser, Send(o, b) PROVE Filed'
  BY <1>1, SendStep DEF Opening, Others
<1>2. ASSUME NEW o \in Op, Aside(o) PROVE Filed'
  BY <1>2, AsideStep DEF Bystander, Others
<1>3. ASSUME NEW o \in Op, SetPrev(o) PROVE Filed'
  BY <1>3 DEF SetPrev, At, Step, Unissued
<1>4. ASSUME NEW o \in Op, SetGrace(o) PROVE Filed'
  BY <1>4 DEF SetGrace, At, Step, Goto, Note, history
<1>5. ASSUME NEW o \in Op, Save(o) PROVE Filed'
  BY <1>5 DEF Save, At, Step, Answer, history
<1>6. ASSUME NEW o \in Op, CreateSession(o) PROVE Filed'
  BY <1>6 DEF CreateSession, At, Step, Answer, Unissued, Note
<1>7. ASSUME NEW o \in Op, Deliver(o) PROVE Filed'
  BY <1>7 DEF Deliver, At, Step, Idle, server, history
<1>8. ASSUME NEW o \in Op, Lose(o) PROVE Filed'
  BY <1>8, LoseStep DEF Others, Idle
<1>9. ASSUME NEW t \in Token, GraceExpires(t) PROVE Filed'
  BY <1>9 DEF GraceExpires, At, Note, history
<1>10. ASSUME NEW a \in Browser, NEW b \in Browser, Copy(a, b) PROVE Filed'
  BY <1>10 DEF Copy, server, history
<1>11. CASE UNCHANGED vars
  BY <1>11 DEF vars, server, history
<1> QED
  BY <1>1, <1>2, <1>3, <1>4, <1>5, <1>6, <1>7, <1>8, <1>9, <1>10, <1>11 DEF Next, Serve, Aside

\* No window closes on a rotation.
LEMMA SaveWindowsStep ==
    ASSUME TypeOK, Shape, Issued, Fresh, Known, SaveWindows, [Next]_vars
    PROVE  SaveWindows'
<1> USE SessionsAssumption DEF TypeOK, OpRecord, Shape, SaveWindows, Rotating, Calm
<1>1. ASSUME NEW o \in Op, NEW b \in Browser, Send(o, b) PROVE SaveWindows'
  BY <1>1, SendStep DEF Opening, Others
<1>2. ASSUME NEW o \in Op, Aside(o) PROVE SaveWindows'
  BY <1>2, AsideStep DEF Bystander, Others
<1>3. ASSUME NEW o \in Op, SetPrev(o) PROVE SaveWindows'
  BY <1>3 DEF SetPrev, At, Step, Unissued
<1>4. ASSUME NEW o \in Op, SetGrace(o) PROVE SaveWindows'
  BY <1>4 DEF SetGrace, At, Step, Goto, Note, history
<1>5. ASSUME NEW o \in Op, Save(o) PROVE SaveWindows'
  BY <1>5 DEF Save, At, Step, Answer, history
<1>6. ASSUME NEW o \in Op, CreateSession(o) PROVE SaveWindows'
  BY <1>6 DEF CreateSession, At, Step, Answer, Unissued, Note
<1>7. ASSUME NEW o \in Op, Deliver(o) PROVE SaveWindows'
  BY <1>7 DEF Deliver, At, Step, Idle, server, history
<1>8. ASSUME NEW o \in Op, Lose(o) PROVE SaveWindows'
  BY <1>8, LoseStep DEF Others, Idle
<1>9. ASSUME NEW t \in Token, GraceExpires(t) PROVE SaveWindows'
  BY <1>9, ExpiryStep
<1>10. ASSUME NEW a \in Browser, NEW b \in Browser, Copy(a, b) PROVE SaveWindows'
  BY <1>10 DEF Copy, server, history
<1>11. CASE UNCHANGED vars
  BY <1>11 DEF vars, server, history
<1> QED
  BY <1>1, <1>2, <1>3, <1>4, <1>5, <1>6, <1>7, <1>8, <1>9, <1>10, <1>11 DEF Next, Serve, Aside

\* No window closes on a browser.
LEMMA JarWindowsStep ==
    ASSUME TypeOK, Shape, Issued, Fresh, Known, Answers, Jars, Filed, SaveWindows, JarWindows, [Next]_vars
    PROVE  JarWindows'
<1> USE SessionsAssumption DEF TypeOK, OpRecord, JarWindows, InWindow, Calm
<1>1. ASSUME NEW o \in Op, NEW b \in Browser, Send(o, b) PROVE JarWindows'
  BY <1>1, SendStep DEF Opening, Others
<1>2. ASSUME NEW o \in Op, Aside(o) PROVE JarWindows'
  BY <1>2, AsideStep DEF Bystander, Others
<1>3. ASSUME NEW o \in Op, SetPrev(o) PROVE JarWindows'
  BY <1>3 DEF SetPrev, At, Step, Unissued
<1>4. ASSUME NEW o \in Op, SetGrace(o) PROVE JarWindows'
  <2>1. /\ op[o].pc = "setGrace" /\ op[o].cookie \in Token /\ op[o].new # None
        /\ grace' = [grace EXCEPT ![op[o].cookie] = op[o].new]
        /\ Others(o) /\ raced \subseteq raced' /\ UNCHANGED <<prev, jar>>
    BY <1>4 DEF SetGrace, At, Goto, Step, Others, Note, Shape, Rotating
  <2>2. ASSUME NEW t \in Token, InWindow(t) PROVE InWindow(t)'
    <3>1. CASE t = op[o].cookie
      BY <2>1, <3>1
    <3>2. CASE t # op[o].cookie
      BY <2>1, <2>2, <3>2 DEF Others
    <3> QED
      BY <3>1, <3>2
  <2> HIDE DEF InWindow
  <2> QED
    BY <2>1, <2>2
<1>5. ASSUME NEW o \in Op, Save(o) PROVE JarWindows'
  BY <1>5 DEF Save, At, Step, Answer, history
<1>6. ASSUME NEW o \in Op, CreateSession(o) PROVE JarWindows'
  BY <1>6 DEF CreateSession, At, Step, Answer, Unissued, Note
<1>7. ASSUME NEW o \in Op, Deliver(o) PROVE JarWindows'
  <2>1. /\ op[o].pc = "reply" /\ jar' = [jar EXCEPT ![op[o].who] = op[o].new]
        /\ Others(o) /\ UNCHANGED <<prev, grace, raced>>
    BY <1>7 DEF Deliver, At, Step, Others, server
  <2>2. ASSUME Calm, op[o].new # None PROVE InWindow(op[o].new)
    BY <2>1, <2>2 DEF Answers, Filed, SaveWindows
  <2> HIDE DEF InWindow
  <2>3. ASSUME NEW t, InWindow(t) PROVE InWindow(t)'
    BY <2>1, <2>3 DEF Others, InWindow
  <2> QED
    BY <2>1, <2>2, <2>3
<1>8. ASSUME NEW o \in Op, Lose(o) PROVE JarWindows'
  <2>1. CASE ~Calm'
    BY <2>1
  <2>2. CASE Calm'
    <3>1. \A b \in Browser : InWindow(jar[b]) => InWindow(jar[b])'
      BY <1>8, <2>2, LoseStep DEF Others
    <3> QED
      BY <1>8, <2>2, <3>1, LoseStep
  <2> QED
    BY <2>1, <2>2
<1>9. ASSUME NEW t \in Token, GraceExpires(t) PROVE JarWindows'
  <2> SUFFICES ASSUME Calm' PROVE JarWindows'
    OBVIOUS
  <2>1. ASSUME NEW b \in Browser, jar[b] = t, prev[t] # None PROVE FALSE
    <3>1. t # None
      BY SessionsAssumption
    <3>2. \E k \in Op : op[k].cookie = t /\ op[k].pc # "idle"
      BY <1>9, ExpiryStep, <2>1, <3>1 DEF Jars, Brings, Filed
    <3> QED
      BY <1>9, ExpiryStep, <3>2
  <2> QED
    BY <1>9, ExpiryStep, <2>1
<1>10. ASSUME NEW a \in Browser, NEW b \in Browser, Copy(a, b) PROVE JarWindows'
  BY <1>10 DEF Copy, server, history
<1>11. CASE UNCHANGED vars
  BY <1>11 DEF vars, server, history
<1> QED
  BY <1>1, <1>2, <1>3, <1>4, <1>5, <1>6, <1>7, <1>8, <1>9, <1>10, <1>11 DEF Next, Serve, Aside

\* No window closes on a refresh.
LEMMA CookieWindowsStep ==
    ASSUME TypeOK, Shape, Issued, Fresh, Known, JarWindows, CookieWindows, [Next]_vars
    PROVE  CookieWindows'
<1> USE SessionsAssumption DEF TypeOK, OpRecord, Shape, JarWindows, CookieWindows, InWindow,
   Calm
<1>1. ASSUME NEW o \in Op, NEW b \in Browser, Send(o, b) PROVE CookieWindows'
  BY <1>1, SendStep, SMTT(40) DEF Opening, Others
<1>2. ASSUME NEW o \in Op, Aside(o) PROVE CookieWindows'
  BY <1>2, AsideStep DEF Bystander, Others
<1>3. ASSUME NEW o \in Op, SetPrev(o) PROVE CookieWindows'
  BY <1>3 DEF SetPrev, At, Step, Unissued
<1>4. ASSUME NEW o \in Op, SetGrace(o) PROVE CookieWindows'
  BY <1>4 DEF SetGrace, At, Step, Goto, Note, history
<1>5. ASSUME NEW o \in Op, Save(o) PROVE CookieWindows'
  BY <1>5 DEF Save, At, Step, Answer, history
<1>6. ASSUME NEW o \in Op, CreateSession(o) PROVE CookieWindows'
  <2>1. PICK s \in {x \in Session : tok[x] = None}, t \in Unissued : Answer(o, t)
    BY <1>6 DEF CreateSession
  <2>2. /\ op[o].pc = "create" /\ op'[o].pc = "reply" /\ Others(o)
        /\ UNCHANGED <<prev, grace>> /\ raced \subseteq raced'
    BY <1>6, <2>1 DEF CreateSession, Note, At, Answer, Step, Others
  <2>3. ASSUME NEW x, InWindow(x) PROVE InWindow(x)'
    BY <2>2, <2>3 DEF Others
  <2> HIDE DEF InWindow
  <2>4. ASSUME Calm', NEW k \in Op, op'[k].pc \in {"prev", "grace"}
        PROVE  /\ op'[k] = op[k] /\ Calm
    BY <2>2, <2>4 DEF Others
  <2> QED
    BY <2>2, <2>3, <2>4
<1>7. ASSUME NEW o \in Op, Deliver(o) PROVE CookieWindows'
  BY <1>7 DEF Deliver, At, Step, Idle, server, history
<1>8. ASSUME NEW o \in Op, Lose(o) PROVE CookieWindows'
  BY <1>8, LoseStep DEF Others, Idle
<1>9. ASSUME NEW t \in Token, GraceExpires(t) PROVE CookieWindows'
  BY <1>9, ExpiryStep
<1>10. ASSUME NEW a \in Browser, NEW b \in Browser, Copy(a, b) PROVE CookieWindows'
  BY <1>10 DEF Copy, server, history
<1>11. CASE UNCHANGED vars
  BY <1>11 DEF vars, server, history
<1> QED
  BY <1>1, <1>2, <1>3, <1>4, <1>5, <1>6, <1>7, <1>8, <1>9, <1>10, <1>11 DEF Next, Serve, Aside

\* The alarm rings after a race only.
LEMMA AlarmStep ==
    ASSUME TypeOK, Shape, CookieWindows, NoFalseAlarm, [Next]_vars
    PROVE  NoFalseAlarm'
<1> USE SessionsAssumption DEF TypeOK, OpRecord, Shape, Rotating, CookieWindows, InWindow,
   Calm, NoFalseAlarm, At
<1>1. ASSUME NEW o \in Op, NEW b \in Browser, BeginRefresh(o, b) PROVE NoFalseAlarm'
  BY <1>1 DEF BeginRefresh, At, Step, Request, Idle, Good, server, history
<1>2. ASSUME NEW o \in Op, NEW b \in Browser, BeginLogin(o, b) PROVE NoFalseAlarm'
  BY <1>2 DEF BeginLogin, At, Step, Request, Idle, server, history
<1>3. ASSUME NEW o \in Op, NEW b \in Browser, BeginLogout(o, b) PROVE NoFalseAlarm'
  BY <1>3 DEF BeginLogout, At, Step, Request, Idle, server, history
<1>4. ASSUME NEW o \in Op, NEW b \in Browser, NEW s \in Session, BeginRevoke(o, b, s) PROVE NoFalseAlarm'
  BY <1>4 DEF BeginRevoke, At, Step, Request, Idle, server, history
<1>5. ASSUME NEW o \in Op, NEW b \in Browser, BeginChange(o, b) PROVE NoFalseAlarm'
  BY <1>5 DEF BeginChange, At, Step, Request, Idle, server, history
<1>6. ASSUME NEW o \in Op, NEW b \in Browser, BeginReset(o, b) PROVE NoFalseAlarm'
  BY <1>6 DEF BeginReset, At, Step, Request, Idle, server, history
<1>7. ASSUME NEW o \in Op, NEW b \in Browser, BeginLogoutAll(o, b) PROVE NoFalseAlarm'
  BY <1>7 DEF BeginLogoutAll, At, Step, Request, Idle, server, history
<1>8. ASSUME NEW o \in Op, ReadPrev(o) PROVE NoFalseAlarm'
  BY <1>8 DEF ReadPrev, At, Step, server, history
<1>9. ASSUME NEW o \in Op, ReadGrace(o) PROVE NoFalseAlarm'
  <2>1. op[o].pc = "grace" /\ raced \subseteq raced'
    BY <1>9 DEF ReadGrace, GraceRace
  <2>2. CASE op[o].dead \/ grace[op[o].cookie] = None
    <3>1. ASSUME raced' = {} PROVE FALSE
      <4>1. Calm
        BY <2>1, <3>1 DEF Calm
      <4>2. InWindow(op[o].cookie) /\ prev[op[o].cookie] # None
        BY <2>1, <4>1 DEF CookieWindows
      <4>3. CASE grace[op[o].cookie] # None
        BY <1>9, <2>2, <3>1, <4>3 DEF ReadGrace, GraceRace
      <4>4. CASE grace[op[o].cookie] = None
        <5>1. HalfRotated(op[o].cookie)
          BY <4>2, <4>4 DEF InWindow, HalfRotated, At
        <5> QED
          BY <1>9, <3>1, <4>4, <5>1 DEF ReadGrace, GraceRace
      <4> QED
        BY <4>3, <4>4
    <3> QED
      BY <3>1 DEF NoFalseAlarm
  <2>3. CASE ~(op[o].dead \/ grace[op[o].cookie] = None)
    <3>1. Answer(o, grace[op[o].cookie])
      BY <1>9, <2>3 DEF ReadGrace
    <3> QED
      BY <2>1, <3>1 DEF Step, Answer
  <2> QED
    BY <2>2, <2>3
<1>10. ASSUME NEW o \in Op, Alarm(o) PROVE NoFalseAlarm'
  BY <1>10 DEF Alarm, At, Step, Answer, AllRevoked, history
<1>11. ASSUME NEW o \in Op, FindActive(o) PROVE NoFalseAlarm'
  <2>1. /\ op[o].pc = "active"
        /\ UNCHANGED <<tok, revoked, prev, grace, pw, jar, family, since>>
        /\ raced \subseteq raced'
    BY <1>11 DEF FindActive, At, server, history, Note
  <2>2. ASSUME NEW s \in Current(op[o].cookie),
               Step(o, [op[o] EXCEPT !.pc = "setPrev", !.sid = s])
        PROVE  NoFalseAlarm'
    BY <2>1, <2>2 DEF Current, Step
  <2>3. CASE Answer(o, None)
    BY <2>1, <2>3 DEF Answer, Step
  <2> QED
    BY <1>11, <2>2, <2>3 DEF FindActive
<1>12. ASSUME NEW o \in Op, SetPrev(o) PROVE NoFalseAlarm'
  BY <1>12 DEF SetPrev, At, Step, Unissued
<1>13. ASSUME NEW o \in Op, SetGrace(o) PROVE NoFalseAlarm'
  BY <1>13 DEF SetGrace, At, Step, Goto, Note, history
<1>14. ASSUME NEW o \in Op, Save(o) PROVE NoFalseAlarm'
  BY <1>14 DEF Save, At, Step, Answer, history
<1>15. ASSUME NEW o \in Op, Verify(o) PROVE NoFalseAlarm'
  BY <1>15 DEF Verify, At, Step, server, history
<1>16. ASSUME NEW o \in Op, CreateSession(o) PROVE NoFalseAlarm'
  BY <1>16 DEF CreateSession, At, Step, Answer, Unissued, Note
<1>17. ASSUME NEW o \in Op, LogoutFind(o) PROVE NoFalseAlarm'
  <2>1. /\ op[o].pc = "find"
        /\ UNCHANGED <<tok, revoked, prev, grace, pw, jar, family, since>>
        /\ raced \subseteq raced'
    BY <1>17 DEF LogoutFind, At, server, history, Note
  <2>2. ASSUME NEW s \in Current(op[o].cookie),
               Step(o, [op[o] EXCEPT !.pc = "revoke", !.sid = s])
        PROVE  NoFalseAlarm'
    BY <2>1, <2>2 DEF Current, Step
  <2>3. CASE Answer(o, None)
    BY <2>1, <2>3 DEF Answer, Step
  <2> QED
    BY <1>17, <2>2, <2>3 DEF LogoutFind
<1>18. ASSUME NEW o \in Op, RevokeFind(o) PROVE NoFalseAlarm'
  <2>1. /\ op[o].pc = "findId"
        /\ UNCHANGED <<tok, revoked, prev, grace, pw, jar, family, since, raced>>
    BY <1>18 DEF RevokeFind, At, server, history
  <2>2. CASE tok[op[o].sid] = None \/ revoked[op[o].sid]
    <3>1. Step(o, Idle)
      BY <1>18, <2>2 DEF RevokeFind
    <3> QED
      BY <2>1, <2>2, <3>1 DEF Step, Goto, Answer, Idle, history, Current
  <2>3. CASE ~(tok[op[o].sid] = None \/ revoked[op[o].sid])
    <3>1. Goto(o, "revoke")
      BY <1>18, <2>3 DEF RevokeFind
    <3> QED
      BY <2>1, <2>3, <3>1 DEF Step, Goto, Answer, Idle, history, Current
  <2> QED
    BY <2>2, <2>3
<1>19. ASSUME NEW o \in Op, RevokeSave(o) PROVE NoFalseAlarm'
  <2>1. /\ op[o].pc = "revoke"
        /\ UNCHANGED <<tok, prev, grace, pw, jar, family, since, raced>>
        /\ revoked' = [revoked EXCEPT ![op[o].sid] = TRUE]
    BY <1>19 DEF RevokeSave, At, server, history
  <2>2. CASE op[o].kind = "logout" \/ family[op[o].cookie] = op[o].sid
    <3>1. Answer(o, None)
      BY <1>19, <2>2 DEF RevokeSave
    <3> QED
      BY <2>1, <2>2, <3>1 DEF Step, Goto, Answer, Idle, history, Current
  <2>3. CASE ~(op[o].kind = "logout" \/ family[op[o].cookie] = op[o].sid)
    <3>1. Step(o, Idle)
      BY <1>19, <2>3 DEF RevokeSave
    <3> QED
      BY <2>1, <2>3, <3>1 DEF Step, Goto, Answer, Idle, history, Current
  <2> QED
    BY <2>2, <2>3
<1>20. ASSUME NEW o \in Op, SavePw(o) PROVE NoFalseAlarm'
  BY <1>20 DEF SavePw, At, Step, Goto, history
<1>21. ASSUME NEW o \in Op, RevokeAll(o) PROVE NoFalseAlarm'
  <2>1. /\ op[o].pc = "revokeAll"
        /\ UNCHANGED <<tok, prev, grace, pw, jar, family, since, raced>>
        /\ revoked' = AllRevoked
    BY <1>21 DEF RevokeAll, At, server, history
  <2>2. CASE op[o].kind = "reset"
    <3>1. Step(o, Idle)
      BY <1>21, <2>2 DEF RevokeAll
    <3> QED
      BY <2>1, <2>2, <3>1 DEF Step, Goto, Answer, Idle, history, Current, AllRevoked
  <2>3. CASE ~(op[o].kind = "reset")
    <3>1. Answer(o, None)
      BY <1>21, <2>3 DEF RevokeAll
    <3> QED
      BY <2>1, <2>3, <3>1 DEF Step, Goto, Answer, Idle, history, Current, AllRevoked
  <2> QED
    BY <2>2, <2>3
<1>22. ASSUME NEW o \in Op, Deliver(o) PROVE NoFalseAlarm'
  BY <1>22 DEF Deliver, At, Step, Idle, server, history
<1>23. ASSUME NEW o \in Op, Lose(o) PROVE NoFalseAlarm'
  BY <1>23 DEF Lose, At, Step, Idle, Note, server, history
<1>24. ASSUME NEW t \in Token, GraceExpires(t) PROVE NoFalseAlarm'
  BY <1>24 DEF GraceExpires, At, Note, history
<1>25. ASSUME NEW a \in Browser, NEW b \in Browser, Copy(a, b) PROVE NoFalseAlarm'
  BY <1>25 DEF Copy, server, history
<1>26. CASE UNCHANGED vars
  BY <1>26 DEF vars, server, history, At, Good
<1> QED
  BY <1>1, <1>2, <1>3, <1>4, <1>5, <1>6, <1>7, <1>8, <1>9, <1>10, <1>11, <1>12, <1>13,
     <1>14, <1>15, <1>16, <1>17, <1>18, <1>19, <1>20, <1>21, <1>22, <1>23, <1>24, <1>25,
     <1>26 DEF Next, Send, Serve

\* No step takes a revocation back.
LEMMA RevokedStep ==
    ASSUME TypeOK, Shape, [Next]_vars
    PROVE  \A x \in Session : revoked[x] => revoked'[x]
<1> USE SessionsAssumption DEF TypeOK, Shape
<1>1. ASSUME NEW o \in Op, NEW b \in Browser, BeginRefresh(o, b) PROVE \A x \in Session : revoked[x] => revoked'[x]
  BY <1>1 DEF BeginRefresh, At, Step, Request, Idle, Good, server, history
<1>2. ASSUME NEW o \in Op, NEW b \in Browser, BeginLogin(o, b) PROVE \A x \in Session : revoked[x] => revoked'[x]
  BY <1>2 DEF BeginLogin, At, Step, Request, Idle, server, history
<1>3. ASSUME NEW o \in Op, NEW b \in Browser, BeginLogout(o, b) PROVE \A x \in Session : revoked[x] => revoked'[x]
  BY <1>3 DEF BeginLogout, At, Step, Request, Idle, server, history
<1>4. ASSUME NEW o \in Op, NEW b \in Browser, NEW s \in Session, BeginRevoke(o, b, s) PROVE \A x \in Session : revoked[x] => revoked'[x]
  BY <1>4 DEF BeginRevoke, At, Step, Request, Idle, server, history
<1>5. ASSUME NEW o \in Op, NEW b \in Browser, BeginChange(o, b) PROVE \A x \in Session : revoked[x] => revoked'[x]
  BY <1>5 DEF BeginChange, At, Step, Request, Idle, server, history
<1>6. ASSUME NEW o \in Op, NEW b \in Browser, BeginReset(o, b) PROVE \A x \in Session : revoked[x] => revoked'[x]
  BY <1>6 DEF BeginReset, At, Step, Request, Idle, server, history
<1>7. ASSUME NEW o \in Op, NEW b \in Browser, BeginLogoutAll(o, b) PROVE \A x \in Session : revoked[x] => revoked'[x]
  BY <1>7 DEF BeginLogoutAll, At, Step, Request, Idle, server, history
<1>8. ASSUME NEW o \in Op, ReadPrev(o) PROVE \A x \in Session : revoked[x] => revoked'[x]
  BY <1>8 DEF ReadPrev, At, Step, server, history
<1>9. ASSUME NEW o \in Op, ReadGrace(o) PROVE \A x \in Session : revoked[x] => revoked'[x]
  BY <1>9 DEF ReadGrace, At, Step, Goto, Answer, GraceRace, server, history
<1>10. ASSUME NEW o \in Op, Alarm(o) PROVE \A x \in Session : revoked[x] => revoked'[x]
  BY <1>10 DEF Alarm, At, Step, Answer, AllRevoked, history
<1>11. ASSUME NEW o \in Op, FindActive(o) PROVE \A x \in Session : revoked[x] => revoked'[x]
  BY <1>11 DEF FindActive, At, Step, Answer, Current, Note, server, history
<1>12. ASSUME NEW o \in Op, SetPrev(o) PROVE \A x \in Session : revoked[x] => revoked'[x]
  BY <1>12 DEF SetPrev, At, Step, Unissued
<1>13. ASSUME NEW o \in Op, SetGrace(o) PROVE \A x \in Session : revoked[x] => revoked'[x]
  BY <1>13 DEF SetGrace, At, Step, Goto, Note, history
<1>14. ASSUME NEW o \in Op, Save(o) PROVE \A x \in Session : revoked[x] => revoked'[x]
  BY <1>14 DEF Save, At, Step, Answer, history
<1>15. ASSUME NEW o \in Op, Verify(o) PROVE \A x \in Session : revoked[x] => revoked'[x]
  BY <1>15 DEF Verify, At, Step, server, history
<1>16. ASSUME NEW o \in Op, CreateSession(o) PROVE \A x \in Session : revoked[x] => revoked'[x]
  BY <1>16 DEF CreateSession, At, Step, Answer, Unissued, Note
<1>17. ASSUME NEW o \in Op, LogoutFind(o) PROVE \A x \in Session : revoked[x] => revoked'[x]
  BY <1>17 DEF LogoutFind, At, Step, Answer, Current, server, history
<1>18. ASSUME NEW o \in Op, RevokeFind(o) PROVE \A x \in Session : revoked[x] => revoked'[x]
  BY <1>18 DEF RevokeFind, At, Step, Goto, Idle, server, history
<1>19. ASSUME NEW o \in Op, RevokeSave(o) PROVE \A x \in Session : revoked[x] => revoked'[x]
  BY <1>19 DEF RevokeSave, At, Step, Answer, Idle, history
<1>20. ASSUME NEW o \in Op, SavePw(o) PROVE \A x \in Session : revoked[x] => revoked'[x]
  BY <1>20 DEF SavePw, At, Step, Goto, history
<1>21. ASSUME NEW o \in Op, RevokeAll(o) PROVE \A x \in Session : revoked[x] => revoked'[x]
  BY <1>21 DEF RevokeAll, At, Step, Answer, Idle, AllRevoked, history
<1>22. ASSUME NEW o \in Op, Deliver(o) PROVE \A x \in Session : revoked[x] => revoked'[x]
  BY <1>22 DEF Deliver, At, Step, Idle, server, history
<1>23. ASSUME NEW o \in Op, Lose(o) PROVE \A x \in Session : revoked[x] => revoked'[x]
  BY <1>23 DEF Lose, At, Step, Idle, Note, server, history
<1>24. ASSUME NEW t \in Token, GraceExpires(t) PROVE \A x \in Session : revoked[x] => revoked'[x]
  BY <1>24 DEF GraceExpires, At, Note, history
<1>25. ASSUME NEW a \in Browser, NEW b \in Browser, Copy(a, b) PROVE \A x \in Session : revoked[x] => revoked'[x]
  BY <1>25 DEF Copy, server, history
<1>26. CASE UNCHANGED vars
  BY <1>26 DEF vars, server, history, At, Good
<1> QED
  BY <1>1, <1>2, <1>3, <1>4, <1>5, <1>6, <1>7, <1>8, <1>9, <1>10, <1>11, <1>12, <1>13,
     <1>14, <1>15, <1>16, <1>17, <1>18, <1>19, <1>20, <1>21, <1>22, <1>23, <1>24, <1>25,
     <1>26 DEF Next, Send, Serve

\* The invariant holds at the start.
LEMMA InvInit == Init => Inv
<1> SUFFICES ASSUME Init PROVE Inv
  OBVIOUS
<1>1. op = [o \in Op |-> Idle] /\ Idle.pc = "idle" /\ Idle.kind = "refresh" /\ Idle.new = None
  BY DEF Init, Idle
<1>2. TypeOK
  BY <1>1, IdleType, SessionsAssumption DEF Init, TypeOK
<1>3. Shape /\ Fresh /\ Earned
  BY <1>1 DEF Shape, Fresh, Earned, TurnedAway, Rotating
<1>4. Issued
  BY <1>1 DEF Init, Issued, Rotating
<1>5. Password
  BY DEF Init, Password
<1>6. Known
  BY <1>1 DEF Init, Known, Idle
<1>7. OneHolder
  BY <1>1 DEF Init, OneHolder, Holds, Idle
<1>8. InStep /\ Quiet /\ NoFalseAlarm
  BY <1>1 DEF Init, InStep, Quiet, Answers, Jars, Filed, SaveWindows, JarWindows,
     CookieWindows, NoFalseAlarm, At
<1> QED
  BY <1>2, <1>3, <1>4, <1>5, <1>6, <1>7, <1>8 DEF Inv

\* Every step keeps the invariant.
LEMMA InvStep == Inv /\ [Next]_vars => Inv'
  BY TypeStep, ShapeStep, IssuedStep, FreshStep, EarnedStep, PasswordStep,
     KnownStep, HolderStep, AnswersStep, JarsStep, FiledStep,
     SaveWindowsStep, JarWindowsStep, CookieWindowsStep, AlarmStep DEF Inv, InStep, Quiet

\* The invariant always holds.
LEMMA Invariance == Spec => []Inv
  BY InvInit, InvStep, PTL DEF Spec

-----------------------------------------------------------------------------
(* Theorems.                                                               *)

\* Every reachable state is well typed, and a step that writes to a row has
\* found it.
THEOREM SessionsTypeCorrect == Spec => []TypeOK
<1>1. Inv => TypeOK
  BY DEF Inv
<1> QED
  BY <1>1, Invariance, PTL

\* Unless requests raced, were lost or the cookie was copied, a browser that
\* waits for nothing has the token of its row.
THEOREM CookiesWork == Spec => []CookieWorks
<1>1. Inv => CookieWorks
  BY DEF Inv, InStep, Jars, Brings, Calm, IsCurrent, CookieWorks, Waiting, At
<1> QED
  BY <1>1, Invariance, PTL

\* The alarm does not ring for a browser's own tabs unless a race was on.
THEOREM AlarmsAreTrue == Spec => []NoFalseAlarm
<1>1. Inv => NoFalseAlarm
  BY DEF Inv
<1> QED
  BY <1>1, Invariance, PTL

\* A refresh earns a token only with a cookie that was good when it was sent,
\* unless two rotations of it overlapped.
THEOREM RefreshesAreEarned == Spec => []TokensAreEarned
<1>1. Inv => TokensAreEarned
  BY DEF Inv, Earned, TurnedAway, TokensAreEarned, At
<1> QED
  BY <1>1, Invariance, PTL

\* After a change of the password no session of an earlier one is left, unless
\* a login overlapped it or it broke off.
THEOREM OldPasswordsAreOut == Spec => []OldPasswordIsOut
<1>1. Inv => OldPasswordIsOut
  BY DEF Inv, Password, Pending, OldPasswordIsOut, At
<1> QED
  BY <1>1, Invariance, PTL

\* No step of any request brings a revoked session back.
THEOREM RevocationsLast == Spec => RevokedForGood
<1>1. Inv /\ [Next]_vars => [\A s \in Session : revoked[s] => revoked'[s]]_vars
  BY RevokedStep DEF Inv
<1> QED
  BY <1>1, Invariance, PTL DEF Spec, RevokedForGood
=============================================================================
