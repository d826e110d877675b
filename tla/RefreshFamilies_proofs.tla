------------------------ MODULE RefreshFamilies_proofs ------------------------
(* RefreshSessions implements TokenFamilies: the rows, the keys and the     *)
(* requests are an account of sessions with one token each.                *)
EXTENDS RefreshSessions_proofs

\* A session is signed out after it has begun.
Begun ==
    /\ \A s \in Session : revoked[s] => tok[s] # None
    /\ \A o \in Op : op[o].pc = "revoke" => tok[op[o].sid] # None

\* A step that signs nothing out and finds no row to.
Harmless(o) ==
    /\ revoked' = revoked
    /\ \A s \in Session : tok[s] # None => tok'[s] # None
    /\ Others(o)
    /\ op'[o].pc # "revoke"

\* Such a step leaves no session signed out that has not begun.
LEMMA HarmlessStep ==
    ASSUME TypeOK, Begun, NEW o \in Op, Harmless(o)
    PROVE  Begun'
<1>1. ASSUME NEW k \in Op, op'[k].pc = "revoke" PROVE tok'[op'[k].sid] # None
  <2>1. op'[k] = op[k] /\ op[k].pc = "revoke"
    BY <1>1 DEF Harmless, Others
  <2>2. op[k].sid \in Session
    BY <2>1 DEF TypeOK, OpRecord
  <2> QED
    BY <2>1, <2>2 DEF Harmless, Begun
<1> QED
  BY <1>1 DEF Harmless, Begun

\* A request that goes on, ends or is answered leaves the others alone, and is
\* not about to sign a row out.
LEMMA PassOn ==
    ASSUME TypeOK, NEW o \in Op,
           \/ \E l \in {"alarm", "active"} : Goto(o, l)
           \/ \E g : Answer(o, g)
           \/ \E s : Step(o, [op[o] EXCEPT !.pc = "setPrev", !.sid = s])
           \/ Step(o, Idle)
    PROVE  Others(o) /\ op'[o].pc # "revoke"
<1> USE DEF TypeOK, OpRecord, Step, Others
<1>1. ASSUME NEW l \in {"alarm", "active"}, Goto(o, l) PROVE Others(o) /\ op'[o].pc # "revoke"
  BY <1>1 DEF Goto
<1>2. ASSUME NEW g, Answer(o, g) PROVE Others(o) /\ op'[o].pc # "revoke"
  BY <1>2 DEF Answer
<1>3. ASSUME NEW s, Step(o, [op[o] EXCEPT !.pc = "setPrev", !.sid = s])
      PROVE  Others(o) /\ op'[o].pc # "revoke"
  BY <1>3
<1>4. CASE Step(o, Idle)
  BY <1>4 DEF Idle
<1> QED
  BY <1>1, <1>2, <1>3, <1>4

\* Nor does a request that a browser sends.
LEMMA SendHarmless ==
    ASSUME TypeOK, NEW o \in Op, NEW b \in Browser, Send(o, b)
    PROVE  Harmless(o)
<1> USE DEF Harmless, Others, Step, Request, Idle, server, history, TypeOK
<1>1. ASSUME BeginRefresh(o, b) PROVE Harmless(o)
  BY <1>1 DEF BeginRefresh
<1>2. ASSUME BeginLogin(o, b) \/ BeginLogout(o, b) PROVE Harmless(o)
  <2>1. CASE BeginLogin(o, b)
    BY <2>1 DEF BeginLogin
  <2>2. CASE BeginLogout(o, b)
    BY <2>2 DEF BeginLogout
  <2> QED
    BY <1>2, <2>1, <2>2
<1>3. ASSUME NEW s \in Session, BeginRevoke(o, b, s) PROVE Harmless(o)
  BY <1>3 DEF BeginRevoke
<1>4. ASSUME BeginChange(o, b) \/ BeginReset(o, b) PROVE Harmless(o)
  <2>1. CASE BeginChange(o, b)
    BY <2>1 DEF BeginChange
  <2>2. CASE BeginReset(o, b)
    BY <2>2 DEF BeginReset
  <2> QED
    BY <1>4, <2>1, <2>2
<1>5. ASSUME BeginLogoutAll(o, b) PROVE Harmless(o)
  BY <1>5 DEF BeginLogoutAll
<1> QED
  BY <1>1, <1>2, <1>3, <1>4, <1>5 DEF Send

\* Every step keeps it so.
LEMMA BegunStep ==
    ASSUME TypeOK, Shape, Begun, [Next]_vars
    PROVE  Begun'
<1> USE SessionsAssumption DEF TypeOK, Step, Idle, Others, server, history
<1>1. ASSUME NEW o \in Op, NEW b \in Browser, Send(o, b) PROVE Begun'
  BY <1>1, SendHarmless, HarmlessStep
<1>2. ASSUME NEW o \in Op, ReadPrev(o) PROVE Begun'
  <2>1. Harmless(o)
    BY <1>2 DEF ReadPrev, Harmless
  <2> QED
    BY <2>1, HarmlessStep
<1>3. ASSUME NEW o \in Op, ReadGrace(o) PROVE Begun'
  <2>1. revoked' = revoked /\ tok' = tok
    BY <1>3 DEF ReadGrace
  <2>2. Goto(o, "alarm") \/ \E g : Answer(o, g)
    BY <1>3 DEF ReadGrace
  <2>3. Harmless(o)
    BY <2>1, <2>2, PassOn DEF Harmless
  <2> QED
    BY <2>3, HarmlessStep
<1>4. ASSUME NEW o \in Op, Alarm(o) PROVE Begun'
  <2>1. /\ tok' = tok /\ revoked' = AllRevoked
        /\ \A k \in Op : op'[k].pc = "revoke" => op'[k] = op[k]
    BY <1>4 DEF Alarm, Answer
  <2> QED
    BY <2>1 DEF Begun, AllRevoked
<1>5. ASSUME NEW o \in Op, FindActive(o) PROVE Begun'
  <2>1. revoked' = revoked /\ tok' = tok
    BY <1>5 DEF FindActive
  <2>2. \/ \E s : Step(o, [op[o] EXCEPT !.pc = "setPrev", !.sid = s])
        \/ \E g : Answer(o, g)
    BY <1>5 DEF FindActive
  <2>3. Harmless(o)
    BY <2>1, <2>2, PassOn DEF Harmless
  <2> QED
    BY <2>3, HarmlessStep
<1>6. ASSUME NEW o \in Op, SetPrev(o) PROVE Begun'
  <2>1. Harmless(o)
    BY <1>6 DEF SetPrev, Harmless
  <2> QED
    BY <2>1, HarmlessStep
<1>7. ASSUME NEW o \in Op, SetGrace(o) PROVE Begun'
  <2>1. Harmless(o)
    BY <1>7 DEF SetGrace, Harmless, Goto
  <2> QED
    BY <2>1, HarmlessStep
<1>8. ASSUME NEW o \in Op, Save(o) PROVE Begun'
  <2>1. op[o].new # None
    BY <1>8 DEF Save, At, Shape
  <2>2. Harmless(o)
    BY <1>8, <2>1 DEF Save, Harmless, Answer
  <2> QED
    BY <2>2, HarmlessStep
<1>9. ASSUME NEW o \in Op, Verify(o) PROVE Begun'
  <2>1. Harmless(o)
    BY <1>9 DEF Verify, Harmless
  <2> QED
    BY <2>1, HarmlessStep
<1>10. ASSUME NEW o \in Op, CreateSession(o) PROVE Begun'
  <2>1. Harmless(o)
    BY <1>10 DEF CreateSession, Harmless, Answer, Unissued
  <2> QED
    BY <2>1, HarmlessStep
<1>11. ASSUME NEW o \in Op, LogoutFind(o) PROVE Begun'
  <2>1. op[o].cookie # None
    BY <1>11 DEF LogoutFind, At, Shape
  <2>2. tok' = tok /\ revoked' = revoked
    BY <1>11 DEF LogoutFind
  <2>3. ASSUME NEW s \in Current(op[o].cookie),
               Step(o, [op[o] EXCEPT !.pc = "revoke", !.sid = s])
        PROVE  Begun'
    <3>1. tok[s] # None /\ op'[o].sid = s
      BY <2>1, <2>3 DEF Current, OpRecord
    <3>2. \A k \in Op : k # o => op'[k] = op[k]
      BY <2>3
    <3> QED
      BY <2>2, <3>1, <3>2 DEF Begun
  <2>4. CASE Answer(o, None)
    <3>1. Harmless(o)
      BY <2>2, <2>4 DEF Harmless, Answer
    <3> QED
      BY <3>1, HarmlessStep
  <2> QED
    BY <1>11, <2>3, <2>4 DEF LogoutFind
<1>12. ASSUME NEW o \in Op, RevokeFind(o) PROVE Begun'
  <2>1. tok' = tok /\ revoked' = revoked /\ \A k \in Op : k # o => op'[k] = op[k]
    BY <1>12 DEF RevokeFind, Goto
  <2>2. CASE tok[op[o].sid] = None \/ revoked[op[o].sid]
    <3>1. Harmless(o)
      BY <1>12, <2>1, <2>2 DEF RevokeFind, Harmless
    <3> QED
      BY <3>1, HarmlessStep
  <2>3. CASE ~(tok[op[o].sid] = None \/ revoked[op[o].sid])
    <3>1. op'[o].sid = op[o].sid
      BY <1>12, <2>3 DEF RevokeFind, Goto, OpRecord
    <3> QED
      BY <2>1, <2>3, <3>1 DEF Begun
  <2> QED
    BY <2>2, <2>3
<1>13. ASSUME NEW o \in Op, RevokeSave(o) PROVE Begun'
  <2>1. op[o].pc = "revoke" /\ tok[op[o].sid] # None
    BY <1>13 DEF RevokeSave, At, Begun
  <2>2. /\ tok' = tok /\ revoked' = [revoked EXCEPT ![op[o].sid] = TRUE]
        /\ Answer(o, None) \/ Step(o, Idle)
    BY <1>13 DEF RevokeSave
  <2>3. \A k \in Op : op'[k].pc = "revoke" => op'[k] = op[k]
    BY <2>2, PassOn
  <2> QED
    BY <2>1, <2>2, <2>3 DEF Begun
<1>14. ASSUME NEW o \in Op, SavePw(o) PROVE Begun'
  <2>1. Harmless(o)
    BY <1>14 DEF SavePw, Harmless, Goto
  <2> QED
    BY <2>1, HarmlessStep
<1>15. ASSUME NEW o \in Op, RevokeAll(o) PROVE Begun'
  <2>1. /\ tok' = tok /\ revoked' = AllRevoked
        /\ Answer(o, None) \/ Step(o, Idle)
    BY <1>15 DEF RevokeAll
  <2>2. \A k \in Op : op'[k].pc = "revoke" => op'[k] = op[k]
    BY <2>1, PassOn
  <2> QED
    BY <2>1, <2>2 DEF Begun, AllRevoked
<1>16. ASSUME NEW o \in Op, Deliver(o) \/ Lose(o) PROVE Begun'
  <2>1. Harmless(o)
    BY <1>16 DEF Deliver, Lose, Harmless
  <2> QED
    BY <2>1, HarmlessStep
<1>17. ASSUME NEW t \in Token, GraceExpires(t) PROVE Begun'
  BY <1>17 DEF GraceExpires, Begun
<1>18. ASSUME NEW a \in Browser, NEW b \in Browser, Copy(a, b) PROVE Begun'
  BY <1>18 DEF Copy, Begun
<1>19. CASE UNCHANGED vars
  BY <1>19 DEF vars, Begun
<1> QED
  BY <1>1, <1>2, <1>3, <1>4, <1>5, <1>6, <1>7, <1>8, <1>9, <1>10, <1>11, <1>12, <1>13,
     <1>14, <1>15, <1>16, <1>17, <1>18, <1>19 DEF Next, Serve

-----------------------------------------------------------------------------
(* The steps.                                                              *)

\* A request has drawn a token that it has not saved.
Carries(o, t) == op[o].pc \in {"setGrace", "save"} /\ op[o].new = t

\* Two sets of the same members are equal.
LEMMA SameMembers ==
    ASSUME NEW U, NEW A \in SUBSET U, NEW B \in SUBSET U, \A u \in U : u \in A <=> u \in B
    PROVE  A = B
  OBVIOUS

\* While the rows and the requests that carry them stay, the same are retired.
LEMMA StillRetired ==
    ASSUME UNCHANGED <<tok, family>>,
           \A o \in Op, t \in Token : Carries(o, t)' <=> Carries(o, t)
    PROVE  Retired' = Retired
  BY DEF Retired, Carries

\* A step of one request that carries nothing, before and after.
LEMMA IdleHands ==
    ASSUME NEW o \in Op, UNCHANGED <<tok, family>>, Others(o),
           op[o].pc \notin {"setGrace", "save"}, op'[o].pc \notin {"setGrace", "save"}
    PROVE  Retired' = Retired
<1>1. \A k \in Op, t \in Token : Carries(k, t)' <=> Carries(k, t)
  BY DEF Carries, Others
<1> QED
  BY <1>1, StillRetired

\* If the rows keep their tokens, the step signs out some sessions or none.
LEMMA EndStep ==
    ASSUME TypeOK, Shape, Begun', [Next]_vars, tok' = tok, Retired' = Retired
    PROVE  Families!End
<1>1. \A s \in Session : revoked[s] => revoked'[s]
  BY RevokedStep
<1>2. Ended' \in SUBSET {s \in Session : tok[s] # None}
  BY DEF Ended, Begun
<1>3. Ended' = Ended \cup Ended'
  BY <1>1 DEF Ended
<1> QED
  BY <1>2, <1>3 DEF Families!End

\* The token that is drawn is carried at once, so it is retired neither before
\* nor after.
LEMMA SetPrevStill ==
    ASSUME TypeOK, Shape, Issued, NEW o \in Op, SetPrev(o)
    PROVE  tok' = tok /\ Retired' = Retired
<1> USE SessionsAssumption DEF TypeOK
<1>1. PICK t \in Unissued : /\ family' = [family EXCEPT ![t] = op[o].sid]
                            /\ Step(o, [op[o] EXCEPT !.pc = "setGrace", !.new = t])
  BY DEF SetPrev
<1>2. tok' = tok /\ op[o].pc = "setPrev"
  BY DEF SetPrev, At
<1>3. Carries(o, t)'
  BY <1>1 DEF Carries, Step, OpRecord
<1>4. t \notin Retired' /\ t \notin Retired
  BY <1>1, <1>3 DEF Retired, Carries, Unissued
<1>5. ASSUME NEW u \in Token, u # t PROVE u \in Retired' <=> u \in Retired
  <2>1. family'[u] = family[u]
    BY <1>1, <1>5 DEF Unissued
  <2>2. \A k \in Op : Carries(k, u)' <=> Carries(k, u)
    BY <1>1, <1>2, <1>5 DEF Carries, Step, OpRecord
  <2> QED
    BY <1>2, <2>1, <2>2 DEF Retired, Carries
<1>6. Retired' = Retired
  <2>1. Retired \subseteq Token /\ Retired' \subseteq Token
    BY DEF Retired
  <2>2. \A u \in Token : u \in Retired' <=> u \in Retired
    BY <1>4, <1>5
  <2>3. Retired \in SUBSET Token /\ Retired' \in SUBSET Token
    BY <2>1
  <2> QED
    BY ONLY <2>2, <2>3, SameMembers
<1> QED
  BY <1>2, <1>6

\* A row takes the token the request has carried; the one it had is retired.
LEMMA SaveRotates ==
    ASSUME TypeOK, Shape, Issued, Fresh, NEW o \in Op, Save(o)
    PROVE  Families!Rotate(op[o].sid, op[o].new) /\ op[o].sid \in Session /\ op[o].new \in Token
<1> USE SessionsAssumption DEF TypeOK, OpRecord
<1> DEFINE s == op[o].sid
           t == op[o].new
<1>1. op[o].pc = "save" /\ s \in Session /\ t \in Token /\ tok[s] \in Token
  BY DEF Save, At, Shape, Rotating, Issued
<1>2. /\ tok' = [tok EXCEPT ![s] = t] /\ UNCHANGED <<revoked, family>>
      /\ Others(o) /\ op'[o].pc = "reply"
  BY DEF Save, Answer, Step, Others, history
<1>3. family[t] = s /\ (\A x \in Session : tok[x] # t)
      /\ \A k \in Op \ {o} : ~Carries(k, t)
  BY <1>1 DEF Fresh, Carries
<1>4. t \notin Retired
  BY <1>1 DEF Retired
<1>5. Families!New(t)
  BY <1>3, <1>4 DEF Families!New
<1>6. family[tok[s]] = s /\ tok[s] # t
  BY <1>1, <1>3 DEF Issued
<1>7. \A k \in Op : ~Carries(k, tok[s])
  BY <1>1 DEF Fresh, Carries
<1>8. tok[s] \in Retired'
  BY <1>1, <1>2, <1>6, <1>7 DEF Retired, Carries, Others
<1>9. ASSUME NEW u \in Token, u # tok[s] PROVE u \in Retired' <=> u \in Retired
  <2>1. CASE u = t
    BY <1>1, <1>2, <1>3, <1>4, <2>1 DEF Retired
  <2>2. CASE u # t
    <3>1. \A k \in Op : Carries(k, u)' <=> Carries(k, u)
      BY <1>2, <2>2 DEF Carries, Others
    <3>2. tok'[family[u]] = u <=> tok[family[u]] = u
      BY <1>1, <1>2, <1>9, <2>2
    <3> QED
      BY <1>2, <3>1, <3>2 DEF Retired, Carries
  <2> QED
    BY <2>1, <2>2
<1>10. Retired' = Retired \cup {tok[s]}
  <2>1. Retired \subseteq Token /\ Retired' \subseteq Token
    BY DEF Retired
  <2> QED
    BY <1>1, <1>8, <1>9, <2>1
<1>11. Ended' = Ended
  BY <1>2 DEF Ended
<1> QED
  BY <1>1, <1>2, <1>5, <1>10, <1>11 DEF Families!Rotate

\* A sign-in starts a session with a token of its own.
LEMMA CreateStarts ==
    ASSUME TypeOK, Shape, Issued, Known, Begun, NEW o \in Op, CreateSession(o)
    PROVE  \E s \in Session, t \in Token : Families!Start(s, t)
<1> USE SessionsAssumption DEF TypeOK
<1>1. PICK s \in {x \in Session : tok[x] = None}, t \in Unissued :
          /\ tok' = [tok EXCEPT ![s] = t]
          /\ family' = [family EXCEPT ![t] = s]
          /\ Answer(o, t)
  BY DEF CreateSession
<1>2. op[o].pc = "create" /\ revoked' = revoked
  BY DEF CreateSession, At
<1>3. Others(o) /\ op'[o].pc = "reply"
  BY <1>1 DEF Answer, Step, Others, OpRecord
<1>4. t \in Token /\ family[t] = None /\ t # None
  BY <1>1 DEF Unissued
<1>5. s \notin Ended /\ Ended' = Ended
  BY <1>1, <1>2 DEF Begun, Ended
<1>6. Families!New(t)
  BY <1>4 DEF Families!New, Retired, Issued
<1>7. t \notin Retired' /\ t \notin Retired
  BY <1>1, <1>4 DEF Retired
<1>8. ASSUME NEW u \in Token, u # t PROVE u \in Retired' <=> u \in Retired
  <2>1. family'[u] = family[u]
    BY <1>1, <1>4, <1>8
  <2>2. \A k \in Op : Carries(k, u)' <=> Carries(k, u)
    BY <1>2, <1>3 DEF Carries, Others
  <2>3. CASE family[u] = s
    BY <1>1, <2>3 DEF Known
  <2>4. CASE family[u] # s
    <3>1. family[u] # None => tok'[family[u]] = tok[family[u]]
      BY <1>1, <2>4
    <3> QED
      BY <2>1, <2>2, <3>1 DEF Retired, Carries
  <2> QED
    BY <2>3, <2>4
<1>9. Retired' = Retired
  <2>1. Retired \subseteq Token /\ Retired' \subseteq Token
    BY DEF Retired
  <2>2. \A u \in Token : u \in Retired' <=> u \in Retired
    BY <1>7, <1>8
  <2>3. Retired \in SUBSET Token /\ Retired' \in SUBSET Token
    BY <2>1
  <2> QED
    BY ONLY <2>2, <2>3, SameMembers
<1>10. Families!Start(s, t)
  BY <1>1, <1>5, <1>6, <1>9 DEF Families!Start
<1> QED
  BY <1>1, <1>4, <1>10

\* What a lost rotation has drawn is wasted.
LEMMA LoseWastes ==
    ASSUME TypeOK, Shape, Fresh, NEW o \in Op, Lose(o),
           op[o].pc \in {"setGrace", "save"}
    PROVE  \E t \in Token : Families!Waste(t)
<1> USE SessionsAssumption DEF TypeOK, OpRecord
<1> DEFINE t == op[o].new
<1>1. t \in Token /\ family[t] = op[o].sid /\ op[o].sid \in Session
  BY DEF Shape, Fresh, Rotating
<1>2. UNCHANGED <<tok, revoked, family>> /\ Others(o) /\ op'[o].pc = "idle"
  BY DEF Lose, Step, Idle, Others, server, history
<1>3. (\A x \in Session : tok[x] # t) /\ \A k \in Op \ {o} : ~Carries(k, t)
  BY DEF Fresh, Carries
<1>4. t \notin Retired
  BY DEF Retired
<1>5. t \in Retired'
  BY <1>1, <1>2, <1>3 DEF Retired, Carries, Others
<1>6. ASSUME NEW u \in Token, u # t PROVE u \in Retired' <=> u \in Retired
  <2>1. \A k \in Op : Carries(k, u)' <=> Carries(k, u)
    BY <1>2, <1>6 DEF Carries, Others
  <2> QED
    BY <1>2, <2>1 DEF Retired, Carries
<1>7. Retired' = Retired \cup {t}
  <2>1. Retired \subseteq Token /\ Retired' \subseteq Token
    BY DEF Retired
  <2> QED
    BY <1>1, <1>5, <1>6, <2>1
<1>8. Ended' = Ended
  BY <1>2 DEF Ended
<1>9. Families!Waste(t)
  BY <1>2, <1>3, <1>4, <1>7, <1>8 DEF Families!Waste, Families!New
<1> QED
  BY <1>1, <1>9

\* Every step is one of an account of token families, or none.
LEMMA FamilyStep ==
    ASSUME Inv, Begun, Begun', [Next]_vars
    PROVE  [Families!Next]_<<tok, Ended, Retired>>
<1> USE DEF Inv
<1>1. ASSUME tok' = tok /\ Retired' = Retired PROVE Families!Next
  BY <1>1, EndStep DEF Families!Next
<1>2. ASSUME NEW o \in Op, NEW b \in Browser, Send(o, b) PROVE Families!Next
  BY <1>1, <1>2, SendStep, IdleHands DEF Opening
<1>3. ASSUME NEW o \in Op, Aside(o) PROVE Families!Next
  BY <1>1, <1>3, AsideStep, IdleHands DEF Bystander
<1>4. ASSUME NEW o \in Op, SetPrev(o) PROVE Families!Next
  BY <1>1, <1>4, SetPrevStill
<1>5. ASSUME NEW o \in Op, SetGrace(o) PROVE Families!Next
  <2>1. UNCHANGED <<tok, family>> /\ \A k \in Op, t \in Token : Carries(k, t)' <=> Carries(k, t)
    BY <1>5 DEF SetGrace, At, Goto, Step, Carries, TypeOK, OpRecord, history
  <2> QED
    BY <1>1, <2>1, StillRetired
<1>6. ASSUME NEW o \in Op, Save(o) PROVE Families!Next
  BY <1>6, SaveRotates DEF Families!Next
<1>7. ASSUME NEW o \in Op, CreateSession(o) PROVE Families!Next
  BY <1>7, CreateStarts DEF Families!Next
<1>8. ASSUME NEW o \in Op, Deliver(o) PROVE Families!Next
  <2>1. /\ UNCHANGED <<tok, family>> /\ Others(o)
        /\ op[o].pc = "reply" /\ op'[o].pc = "idle"
    BY <1>8 DEF Deliver, At, Step, Idle, Others, TypeOK, server, history
  <2> QED
    BY <1>1, <2>1, IdleHands
<1>9. ASSUME NEW o \in Op, Lose(o) PROVE Families!Next
  <2>1. CASE op[o].pc \in {"setGrace", "save"}
    BY <1>9, <2>1, LoseWastes DEF Families!Next
  <2>2. CASE op[o].pc \notin {"setGrace", "save"}
    <3>1. UNCHANGED <<tok, family>> /\ Others(o) /\ op'[o].pc = "idle"
      BY <1>9 DEF Lose, Step, Idle, Others, TypeOK, server, history
    <3> QED
      BY <1>1, <2>2, <3>1, IdleHands
  <2> QED
    BY <2>1, <2>2
<1>10. ASSUME \/ \E t \in Token : GraceExpires(t)
              \/ \E a, b \in Browser : Copy(a, b)
       PROVE  Families!Next
  <2>1. UNCHANGED <<tok, family, op>>
    BY <1>10 DEF GraceExpires, Copy, server, history
  <2>2. Retired' = Retired
    BY <2>1 DEF Retired
  <2> QED
    BY <1>1, <2>1, <2>2
<1>11. CASE UNCHANGED vars
  BY <1>11 DEF vars, server, history, Ended, Retired
<1> QED
  BY <1>2, <1>3, <1>4, <1>5, <1>6, <1>7, <1>8, <1>9, <1>10, <1>11 DEF Next, Serve, Aside

\* A session signed out, or about to be, has begun.
LEMMA BegunHolds == Spec => []Begun
<1>1. Init => Begun
  BY DEF Init, Begun, Idle
<1>2. Inv /\ Begun /\ [Next]_vars => Begun'
  BY BegunStep DEF Inv
<1> QED
  BY <1>1, <1>2, Invariance, PTL DEF Spec

\* However the requests of an account overlap, whatever is lost or stolen, its
\* sessions have one token at a time, a token that gave way or was never handed
\* out is no session's again, and a session that ended stays so.
THEOREM RotationsImplementFamilies == Spec => ImplementsFamilies
<1>1. Init => Families!Init
  BY DEF Init, Families!Init, Ended, Retired
<1>2. Inv /\ Begun /\ Begun' /\ [Next]_vars => [Families!Next]_(Families!vars)
  BY FamilyStep DEF Families!vars
<1> QED
  BY <1>1, <1>2, Invariance, BegunHolds, PTL DEF Spec, Families!Spec, ImplementsFamilies
=============================================================================
