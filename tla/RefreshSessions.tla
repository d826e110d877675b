--------------------------- MODULE RefreshSessions ---------------------------
(***************************************************************************)
(* The sign-in sessions of one account: the rows of                        *)
(* apps/api/src/sessions/sessions.service.ts with the hash of the current   *)
(* refresh token, the Redis keys refresh-prev and refresh-grace, and the    *)
(* requests of apps/api/src/auth/auth.service.ts that create, rotate and    *)
(* revoke.  Everything is keyed by user, so accounts are independent.       *)
(*                                                                         *)
(* A browser has one cookie jar for all its tabs; a request carries the     *)
(* cookie it found there, and its answer changes the jar when it arrives.   *)
(* The steps of a request are what runs between two awaits.  family, since  *)
(* and raced are history variables; no action of the server reads them.     *)
(***************************************************************************)
EXTENDS Naturals, FiniteSets

CONSTANTS Browser,
          Session,   \* session rows (bound)
          Token,     \* refresh tokens (bound)
          Op,        \* requests served at once (bound)
          MaxPw,     \* password changes (bound)
          Sent,      \* the kinds of requests the browsers send
          MayLose,   \* a request or its answer may be lost, with the process
          MayCopy,   \* a cookie may get into another browser
          None

ASSUME SessionsAssumption ==
    /\ None \notin Browser \cup Session \cup Token
    /\ MaxPw \in Nat
    /\ Sent \subseteq {"refresh", "login", "logout", "revoke", "change", "reset", "logoutAll"}

VARIABLES
    tok,      \* tokenHash of the row; None: no row
    revoked,  \* revoked of the row
    prev,     \* auth:refresh-prev: the session the token was rotated away in
    grace,    \* auth:refresh-grace: the token it was rotated to
    pw,       \* the password in force, by its number
    jar,      \* the refresh cookie of each browser
    op,       \* the requests in flight
    family, since, raced

server == <<tok, revoked, prev, grace, pw>>
history == <<family, since>>
vars == <<server, jar, op, history, raced>>

Kind == {"refresh", "login", "logout", "revoke", "change", "reset", "logoutAll"}
RaceName == {"doubleRotate", "readBehind", "outOfStep", "lost", "copied",
             "slow", "revokedBehind", "halfRotated", "lateLogin"}
Label == {"prev", "grace", "alarm", "active", "setPrev", "setGrace", "save",
          "verify", "create", "find", "findId", "revoke", "savePw", "revokeAll", "reply"}
Idle == [pc |-> "idle", kind |-> "refresh", who |-> None, cookie |-> None,
         sid |-> None, new |-> None, dead |-> FALSE, fair |-> FALSE, ver |-> 0]
Request(b, k, label) ==
    [Idle EXCEPT !.pc = label, !.kind = k, !.who = b, !.cookie = jar[b]]

OpRecord == [pc : Label \cup {"idle"}, kind : Kind, who : Browser \cup {None},
             cookie : Token \cup {None}, sid : Session \cup {None},
             new : Token \cup {None}, dead : BOOLEAN, fair : BOOLEAN, ver : 0 .. MaxPw]

\* The types, and the session a step that writes to a row has found.
TypeOK ==
    /\ tok \in [Session -> Token \cup {None}]
    /\ revoked \in [Session -> BOOLEAN]
    /\ prev \in [Token -> Session \cup {None}]
    /\ grace \in [Token -> Token \cup {None}]
    /\ pw \in 0 .. MaxPw
    /\ jar \in [Browser -> Token \cup {None}]
    /\ op \in [Op -> OpRecord]
    /\ \A o \in Op : op[o].pc \in {"revoke", "setPrev", "setGrace", "save"} => op[o].sid # None
    /\ family \in [Token -> Session \cup {None}]
    /\ since \in [Session -> 0 .. MaxPw]
    /\ raced \in SUBSET RaceName

Init ==
    /\ tok = [s \in Session |-> None]
    /\ revoked = [s \in Session |-> FALSE]
    /\ prev = [t \in Token |-> None]
    /\ grace = [t \in Token |-> None]
    /\ pw = 0
    /\ jar = [b \in Browser |-> None]
    /\ op = [o \in Op |-> Idle]
    /\ family = [t \in Token |-> None]
    /\ since = [s \in Session |-> 0]
    /\ raced = {}

-----------------------------------------------------------------------------
Note(h, condition) == raced' = IF condition THEN raced \cup {h} ELSE raced
At(o, label) == op[o].pc = label
Step(o, r) == op' = [op EXCEPT ![o] = r]
Goto(o, label) == Step(o, [op[o] EXCEPT !.pc = label])
\* The answer sets the cookie t, or clears the cookies (None).
Answer(o, t) == Step(o, [op[o] EXCEPT !.pc = "reply", !.new = t, !.sid = None,
                                      !.dead = FALSE, !.ver = 0])
Unissued == {t \in Token : family[t] = None}
Current(t) == {s \in Session : tok[s] = t /\ ~revoked[s]}

\* The row still has the token, or it was not rotated away, or not long ago.
Good(t) == tok[family[t]] = t \/ prev[t] = None \/ grace[t] # None

-----------------------------------------------------------------------------
(* The requests of the browsers.                                           *)

BeginRefresh(o, b) ==
    /\ "refresh" \in Sent /\ At(o, "idle") /\ jar[b] # None
    /\ Step(o, [Request(b, "refresh", "prev") EXCEPT
                    !.fair = Good(jar[b])])
    /\ UNCHANGED <<server, jar, history, raced>>

BeginLogin(o, b) ==
    /\ "login" \in Sent /\ At(o, "idle") /\ jar[b] = None
    /\ Step(o, Request(b, "login", "verify"))
    /\ UNCHANGED <<server, jar, history, raced>>

BeginLogout(o, b) ==
    /\ "logout" \in Sent /\ At(o, "idle") /\ jar[b] # None
    /\ Step(o, Request(b, "logout", "find"))
    /\ UNCHANGED <<server, jar, history, raced>>

\* The list of sessions: one of them, or the caller's own, is signed out.
BeginRevoke(o, b, s) ==
    /\ "revoke" \in Sent /\ At(o, "idle") /\ jar[b] # None
    /\ Step(o, [Request(b, "revoke", "findId") EXCEPT !.sid = s])
    /\ UNCHANGED <<server, jar, history, raced>>

BeginChange(o, b) ==
    /\ "change" \in Sent /\ At(o, "idle") /\ jar[b] # None
    /\ Step(o, Request(b, "change", "savePw"))
    /\ UNCHANGED <<server, jar, history, raced>>

\* A link from a mail: the browser need not be signed in.
BeginReset(o, b) ==
    /\ "reset" \in Sent /\ At(o, "idle")
    /\ Step(o, Request(b, "reset", "savePw"))
    /\ UNCHANGED <<server, jar, history, raced>>

BeginLogoutAll(o, b) ==
    /\ "logoutAll" \in Sent /\ At(o, "idle") /\ jar[b] # None
    /\ Step(o, Request(b, "logoutAll", "revokeAll"))
    /\ UNCHANGED <<server, jar, history, raced>>

-----------------------------------------------------------------------------
(* refresh.                                                                *)

\* findReusedRefreshToken.
ReadPrev(o) ==
    /\ At(o, "prev")
    /\ LET s == prev[op[o].cookie]
       IN  Step(o, IF s = None THEN [op[o] EXCEPT !.pc = "active"]
                   ELSE [op[o] EXCEPT !.pc = "grace", !.sid = s, !.dead = revoked[s]])
    /\ UNCHANGED <<server, jar, history, raced>>

\* The previous hash of the cookie is filed and its grace copy is not yet.
HalfRotated(t) == \E k \in Op : At(k, "setGrace") /\ op[k].cookie = t

\* What goes on beside the read, for the history.
GraceRace(o) ==
    LET g == grace[op[o].cookie]
    IN  raced' = raced \cup {h \in {"revokedBehind"} : op[o].dead /\ g # None}
                      \cup {h \in {"halfRotated"} : g = None /\ HalfRotated(op[o].cookie)}
                      \cup {h \in {"outOfStep"} : g \notin {None, tok[op[o].sid]}}

\* Mutant: the window is not looked at.
ReadGrace_NoWindow(o) ==
    /\ At(o, "grace")
    /\ IF op[o].dead THEN Goto(o, "alarm") ELSE Answer(o, tok[op[o].sid])
    /\ GraceRace(o)
    /\ UNCHANGED <<server, jar, history>>
\* Mutant: the old cookie is handed back.
ReadGrace_OldCookie(o) ==
    /\ At(o, "grace")
    /\ IF op[o].dead \/ grace[op[o].cookie] = None
       THEN Goto(o, "alarm") ELSE Answer(o, op[o].cookie)
    /\ GraceRace(o)
    /\ UNCHANGED <<server, jar, history>>
\* Mutant: no window at all.
ReadGrace_Never(o) ==
    /\ At(o, "grace")
    /\ Goto(o, "alarm")
    /\ GraceRace(o)
    /\ UNCHANGED <<server, jar, history>>
\* The cookie was rotated: within the window it gets the token it was rotated
\* to; afterwards, or when the session was revoked, it counts as stolen.
ReadGrace(o) ==
    /\ At(o, "grace")
    /\ LET g == grace[op[o].cookie]
       IN  IF op[o].dead \/ g = None THEN Goto(o, "alarm") ELSE Answer(o, g)
    /\ GraceRace(o)
    /\ UNCHANGED <<server, jar, history>>

AllRevoked == [s \in Session |-> revoked[s] \/ tok[s] # None]

Alarm(o) ==
    /\ At(o, "alarm")
    /\ revoked' = AllRevoked
    /\ Answer(o, None)
    /\ UNCHANGED <<tok, prev, grace, pw, jar, history, raced>>

\* findActiveByRefreshToken.
FindActive(o) ==
    /\ At(o, "active")
    /\ \/ \E s \in Current(op[o].cookie) :
             Step(o, [op[o] EXCEPT !.pc = "setPrev", !.sid = s]) /\ UNCHANGED raced
       \/ /\ Current(op[o].cookie) = {}
          /\ Note("readBehind", ~revoked[family[op[o].cookie]])
          /\ Answer(o, None)
    /\ UNCHANGED <<server, jar, history>>

\* rotate, write by write.
SetPrev(o) ==
    /\ At(o, "setPrev")
    /\ prev' = [prev EXCEPT ![op[o].cookie] = op[o].sid]
    /\ \E t \in Unissued :
          /\ family' = [family EXCEPT ![t] = op[o].sid]
          /\ Step(o, [op[o] EXCEPT !.pc = "setGrace", !.new = t])
    /\ UNCHANGED <<tok, revoked, grace, pw, jar, since, raced>>

SetGrace(o) ==
    /\ At(o, "setGrace")
    /\ grace' = [grace EXCEPT ![op[o].cookie] = op[o].new]
    /\ Goto(o, "save")
    /\ Note("doubleRotate", tok[op[o].sid] # op[o].cookie)
    /\ UNCHANGED <<tok, revoked, prev, pw, jar, history>>

\* An answer with the token has not arrived yet.
Underway(t) == \E k \in Op : At(k, "reply") /\ op[k].new = t

\* Mutant: the row is written as it was read.
Save_Whole(o) ==
    /\ At(o, "save")
    /\ tok' = [tok EXCEPT ![op[o].sid] = op[o].new]
    /\ revoked' = [revoked EXCEPT ![op[o].sid] = FALSE]
    /\ Answer(o, op[o].new)
    /\ UNCHANGED <<prev, grace, pw, jar, history, raced>>
\* Mutant: the row takes the token the window has.
Save_Filed(o) ==
    /\ At(o, "save")
    /\ tok' = [tok EXCEPT ![op[o].sid] = grace[op[o].cookie]]
    /\ Answer(o, op[o].new)
    /\ UNCHANGED <<revoked, prev, grace, pw, jar, history, raced>>
\* The save writes the changed fields only, revoked is not among them.
Save(o) ==
    /\ At(o, "save")
    /\ tok' = [tok EXCEPT ![op[o].sid] = op[o].new]
    /\ Answer(o, op[o].new)
    /\ raced' = raced \cup {h \in {"doubleRotate"} : tok[op[o].sid] # op[o].cookie}
                     \cup {h \in {"outOfStep"} : Underway(op[o].cookie)}
    /\ UNCHANGED <<revoked, prev, grace, pw, jar, history>>

-----------------------------------------------------------------------------
(* login, logout, revoke, change.                                          *)

\* The password is compared with the user read here.
Verify(o) ==
    /\ At(o, "verify")
    /\ Step(o, [op[o] EXCEPT !.pc = "create", !.ver = pw])
    /\ UNCHANGED <<server, jar, history, raced>>

CreateSession(o) ==
    /\ At(o, "create")
    /\ \E s \in {x \in Session : tok[x] = None}, t \in Unissued :
          /\ tok' = [tok EXCEPT ![s] = t]
          /\ family' = [family EXCEPT ![t] = s]
          /\ since' = [since EXCEPT ![s] = op[o].ver]
          /\ Answer(o, t)
    /\ Note("lateLogin", op[o].ver # pw)
    /\ UNCHANGED <<revoked, prev, grace, pw, jar>>

\* Mutant: the row is revoked without having been found.
LogoutFind_Unchecked(o) ==
    /\ At(o, "find")
    /\ Goto(o, "revoke")
    /\ UNCHANGED <<server, jar, history, raced>>
LogoutFind(o) ==
    /\ At(o, "find")
    /\ \/ \E s \in Current(op[o].cookie) : Step(o, [op[o] EXCEPT !.pc = "revoke", !.sid = s])
       \/ Current(op[o].cookie) = {} /\ Answer(o, None)
    /\ UNCHANGED <<server, jar, history, raced>>

\* revokeById: nothing to do for a row that is missing or revoked.
RevokeFind(o) ==
    /\ At(o, "findId")
    /\ IF tok[op[o].sid] = None \/ revoked[op[o].sid]
       THEN Step(o, Idle) ELSE Goto(o, "revoke")
    /\ UNCHANGED <<server, jar, history, raced>>

\* The cookies are cleared on a logout, or when the session is the caller's.
RevokeSave(o) ==
    /\ At(o, "revoke")
    /\ revoked' = [revoked EXCEPT ![op[o].sid] = TRUE]
    /\ IF op[o].kind = "logout" \/ family[op[o].cookie] = op[o].sid
       THEN Answer(o, None) ELSE Step(o, Idle)
    /\ UNCHANGED <<tok, prev, grace, pw, jar, history, raced>>

SavePw(o) ==
    /\ At(o, "savePw")
    /\ pw < MaxPw
    /\ pw' = pw + 1
    /\ Goto(o, "revokeAll")
    /\ UNCHANGED <<tok, revoked, prev, grace, jar, history, raced>>

\* Mutant: the session that asked is spared.
RevokeAll_ButOwn(o) ==
    /\ At(o, "revokeAll")
    /\ revoked' = [s \in Session |-> revoked[s] \/ (tok[s] # None /\ tok[s] # op[o].cookie)]
    /\ Answer(o, None)
    /\ UNCHANGED <<tok, prev, grace, pw, jar, history, raced>>
\* A reset leaves the cookies alone.
RevokeAll(o) ==
    /\ At(o, "revokeAll")
    /\ revoked' = AllRevoked
    /\ IF op[o].kind = "reset" THEN Step(o, Idle) ELSE Answer(o, None)
    /\ UNCHANGED <<tok, prev, grace, pw, jar, history, raced>>

-----------------------------------------------------------------------------
(* The answer, the clock and the network.                                  *)

Deliver(o) ==
    /\ At(o, "reply")
    /\ jar' = [jar EXCEPT ![op[o].who] = op[o].new]
    /\ Step(o, Idle)
    /\ UNCHANGED <<server, history, raced>>

\* 30 s after SetGrace.
GraceExpires(t) ==
    /\ grace[t] # None
    /\ grace' = [grace EXCEPT ![t] = None]
    /\ Note("slow", \E o \in Op : ~At(o, "idle") /\ op[o].cookie = t)
    /\ UNCHANGED <<tok, revoked, prev, pw, jar, op, history>>

\* The connection drops or the process restarts.
Lose(o) ==
    /\ MayLose
    /\ ~At(o, "idle")
    /\ Step(o, Idle)
    /\ Note("lost", op[o].kind \in {"refresh", "change", "reset"})
    /\ UNCHANGED <<server, jar, history>>

Copy(a, b) ==
    /\ MayCopy
    /\ a # b /\ jar[a] # None
    /\ jar' = [jar EXCEPT ![b] = jar[a]]
    /\ raced' = raced \cup {"copied"}
    /\ UNCHANGED <<server, op, history>>

Serve(o) ==
    \/ ReadPrev(o) \/ ReadGrace(o) \/ Alarm(o) \/ FindActive(o)
    \/ SetPrev(o) \/ SetGrace(o) \/ Save(o)
    \/ Verify(o) \/ CreateSession(o) \/ LogoutFind(o)
    \/ RevokeFind(o) \/ RevokeSave(o) \/ SavePw(o) \/ RevokeAll(o)

Send(o, b) ==
    \/ BeginRefresh(o, b) \/ BeginLogin(o, b) \/ BeginLogout(o, b)
    \/ \E s \in Session : BeginRevoke(o, b, s)
    \/ BeginChange(o, b) \/ BeginReset(o, b) \/ BeginLogoutAll(o, b)

Next ==
    \/ \E o \in Op : \/ \E b \in Browser : Send(o, b)
                     \/ Serve(o) \/ Deliver(o) \/ Lose(o)
    \/ \E t \in Token : GraceExpires(t)
    \/ \E a, b \in Browser : Copy(a, b)

Spec == Init /\ [][Next]_vars

-----------------------------------------------------------------------------
(* Properties.                                                             *)

\* A revoked session stays revoked, though a rotation that read it before may
\* save it afterwards.
RevokedForGood == [][\A s \in Session : revoked[s] => revoked'[s]]_vars

Waiting(b) == \E o \in Op : ~At(o, "idle") /\ op[o].who = b

\* Unless requests raced, were lost or the cookie was copied, a browser that
\* waits for nothing holds the token its session's row has: its next refresh
\* is served for as long as the session is not revoked.
CookieWorks ==
    raced \ {"lateLogin", "revokedBehind"} = {} =>
        \A b \in Browser : jar[b] # None /\ ~Waiting(b) => tok[family[jar[b]]] = jar[b]

\* Without any of these no cookie is taken for stolen: the alarm, which signs
\* out every browser of the account, does not ring for its own tabs.
NoFalseAlarm == \A o \in Op : At(o, "alarm") => raced # {}

\* Unless two rotations of a cookie overlapped, a refresh gets a token only if
\* its cookie had not been rotated away when it was sent, or not for long.
TokensAreEarned ==
    \A o \in Op : At(o, "reply") /\ op[o].kind = "refresh" /\ op[o].new # None
        => op[o].fair \/ "doubleRotate" \in raced

\* Unless a login overlapped the change, or the change broke off, no session
\* begun with an earlier password is left once a change has answered.
OldPasswordIsOut ==
    {"lateLogin", "lost"} \cap raced = {} =>
        \/ \E o \in Op : At(o, "revokeAll")
        \/ \A s \in Session : tok[s] # None /\ ~revoked[s] => since[s] = pw

\* What sessions.service.ts:72 says of the grace copy: a refresh whose cookie
\* was good when it was sent is answered with a token while its session lasts.
ConcurrentRefreshIsSafe ==
    \A o \in Op : At(o, "reply") /\ op[o].kind = "refresh" /\ op[o].new = None
        => ~op[o].fair \/ revoked[family[op[o].cookie]]

\* What the test of auth.e2e-spec.ts:159 expects: a cookie that was rotated
\* away is refused.
ReplayIsRefused ==
    [][\A o \in Op : At(o, "grace") /\ ~op[o].dead => op'[o].pc # "reply"]_vars

\* What logout answers at auth.service.ts:147: the session of its cookie is over.
SignedOut ==
    \A o \in Op : At(o, "reply") /\ op[o].kind = "logout"
        => revoked[family[op[o].cookie]]

\* The sessions that were signed out, as TokenFamilies has them.
Ended == {s \in Session : revoked[s]}
\* Issued, and neither in the row nor about to be.
Retired ==
    {t \in Token : /\ family[t] # None
                   /\ tok[family[t]] # t
                   /\ ~\E o \in Op : op[o].pc \in {"setGrace", "save"} /\ op[o].new = t}

Families == INSTANCE TokenFamilies WITH current <- tok, ended <- Ended, retired <- Retired

\* However the requests overlap, whatever is lost or stolen, a session has one
\* token at a time, none that was replaced or never handed out comes back, and a
\* session that ended stays so.
ImplementsFamilies == Families!Spec
=============================================================================
