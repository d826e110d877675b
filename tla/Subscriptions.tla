--------------------------- MODULE Subscriptions ---------------------------
(***************************************************************************)
(* The subscription rows of one user in apps/api/src/subscriptions, the    *)
(* requests of the user and of the administrators that change them, and    *)
(* the entitlement the API caches for 15 s.                                *)
(*                                                                         *)
(* A request loads a row, works on its copy and saves it; Mongoose writes  *)
(* only the fields the copy changed and compares no version, so a save     *)
(* merges with what others wrote meanwhile.  A step is one database or     *)
(* Redis command with the synchronous code around it; reads that follow    *)
(* each other are one step.                                                *)
(*                                                                         *)
(* A plan is an offer (plan, billing cycle), numbered in the order of rank *)
(* and cycle that decides whether a change is an upgrade; all offers last  *)
(* Cycle days here.  Day 0 stands for a date that is not set.              *)
(* hazard is a history variable no action reads.                           *)
(***************************************************************************)
EXTENDS Naturals, FiniteSets

CONSTANTS Row,            \* ids of subscription rows (bound)
          Req,            \* requests served at once (bound)
          Plan,           \* the offers
          Op,             \* the kinds of request the instance allows
          PatchTo,        \* statuses an administrator may patch into a row (bound)
          PatchDay,       \* days an administrator may patch into a row (bound)
          RequirePayment, \* SUBSCRIPTION_REQUIRE_PAYMENT
          TrialDays,      \* plan.trialDays
          Cycle,          \* the billing cycle
          GraceDays,      \* SUBSCRIPTION_GRACE_DAYS
          LastDay,        \* the last day of the clock (bound)
          Ref,            \* what a row may say it was activated by
          None            \* no value

Status == {"pending", "trial", "active", "cancelled", "suspended", "expired"}
ById == {"suspend", "unsuspend", "activate", "patch", "delete"}
ByAdmin == ById \cup {"grant"}
Changing == {"change", "cancel", "resume", "renew", "suspend", "unsuspend", "activate", "patch"}
OpName == ByAdmin \cup {"start", "change", "cancel", "resume", "renew", "me",
                      "entitlement", "lose"}

ASSUME SubscriptionAssumption ==
    /\ Plan \subseteq Nat \ {0}
    /\ Op \subseteq OpName
    /\ PatchTo \subseteq Status
    /\ PatchDay \subseteq Nat \ {0}
    /\ RequirePayment \in BOOLEAN
    /\ TrialDays \in Nat /\ Cycle \in Nat \ {0} /\ GraceDays \in Nat /\ LastDay \in Nat \ {0}
    /\ {"none", "admin"} \subseteq Ref

VARIABLES now,     \* the day
          sub,     \* sub[s]: the row of the subscriptions collection, None if there is none
          cache,   \* the entitlement in Redis: on, late (history: known to be out of date)
          req,     \* req[r]: the request r serves, with the copy it works on
          hazard   \* history: the races and failures so far, an administrator's request among them

subVars == <<now, sub, cache, req, hazard>>

\* end, trial and grace: currentPeriodEnd, trialEnd and gracePeriodEndsAt; tried:
\* trialStart is set; next and nextAt: the scheduled plan and its day; ref: what it was
\* activated by, in Billing a payment.
Sub == [status : Status, cur : BOOLEAN, start : Nat, end : Nat, trial : Nat, tried : BOOLEAN,
        grace : Nat, auto : BOOLEAN, atEnd : BOOLEAN, plan : Plan,
        next : Plan \cup {0}, nextAt : Nat, ref : Ref]

ASSUME NoneIsNoRow == None \notin Sub /\ None \notin Row

Label == {"idle", "find", "load", "save", "act", "retire", "create", "announce", "fill"}
\* was and doc: the row as loaded and the copy; day: when the request began; new: the
\* row start will insert; p, out and copy are used by Billing.
Idle == [op |-> None, at |-> "idle", s |-> None, was |-> None, doc |-> None, day |-> 0,
         new |-> None, p |-> None, out |-> None, copy |-> None]

Rows == {s \in Row : sub[s] # None}
Current == {s \in Rows : sub[s].cur}

-----------------------------------------------------------------------------
(* What the code computes from a row and the clock.                        *)

\* isEntitledStatus
Entitled(d) ==
    \/ d.status \in {"trial", "active", "cancelled"} /\ now <= d.end
    \/ d.status \in {"trial", "active", "suspended", "expired"} /\ d.grace # 0 /\ now <= d.grace

Renewing(d) == d.auto /\ ~d.atEnd

\* extendPeriod
Extended(d) ==
    LET from == IF d.end > now THEN d.end ELSE now
    IN [d EXCEPT !.status = "active", !.start = from, !.end = from + Cycle, !.grace = 0]

\* Mutant: the days of grace are not given.
Failed_NoGrace(d) == [d EXCEPT !.status = "suspended"]

\* recordFailedRenewal
Failed(d) == [d EXCEPT !.status = "suspended", !.grace = now + GraceDays]

\* Mutant: a schedule that is not set is due.
WithSchedule_NotSet(d) ==
    IF now >= d.nextAt THEN [d EXCEPT !.plan = d.next, !.next = 0, !.nextAt = 0] ELSE d

WithSchedule(d) ==
    IF d.next # 0 /\ d.nextAt # 0 /\ now >= d.nextAt
    THEN [d EXCEPT !.plan = d.next, !.next = 0, !.nextAt = 0] ELSE d

\* What follows the end of a trial, a period or a grace period.
Moved(d) ==
    CASE d.status = "trial" /\ d.trial # 0 /\ now > d.trial /\ Renewing(d) ->
            IF RequirePayment THEN [d EXCEPT !.status = "pending"]
            ELSE [d EXCEPT !.status = "active", !.start = now, !.end = now + Cycle]
      [] d.status = "active" /\ now > d.end /\ Renewing(d) ->
            IF RequirePayment THEN Failed(d) ELSE Extended(d)
      [] \/ d.status = "trial" /\ d.trial # 0 /\ now > d.trial /\ ~Renewing(d)
         \/ d.status = "active" /\ now > d.end /\ ~Renewing(d)
         \/ d.status = "cancelled" /\ now > d.end
         \/ d.status = "suspended" /\ d.grace # 0 /\ now > d.grace ->
            [d EXCEPT !.status = "expired"]
      [] OTHER -> d

\* applyLifecycle
Lifecycle(d) == Moved(WithSchedule(d))

\* activateFromPayment: refused, as done before, when the row is active by the same
\* payment; a cancelled row keeps its period.
Activated(d, ref) ==
    LET from == IF d.status = "active" /\ d.end > now THEN d.end ELSE now
        on == [d EXCEPT !.status = "active", !.ref = ref, !.auto = TRUE, !.atEnd = FALSE,
                        !.grace = 0, !.cur = TRUE]
    IN IF d.status = "active" /\ d.ref = ref THEN {}
       ELSE {IF d.status = "cancelled" THEN on
             ELSE [on EXCEPT !.start = from, !.end = from + Cycle]}

\* Mutant: a lesser plan holds at once.
Changed_AtOnce(d) ==
    IF d.status \in {"expired", "pending"} THEN {}
    ELSE {[d EXCEPT !.plan = p] : p \in Plan}

\* Mutant: an upgrade begins a new period today.
Changed_Restarts(d) ==
    IF d.status \in {"expired", "pending"} THEN {}
    ELSE {IF p > d.plan THEN [d EXCEPT !.plan = p, !.next = 0, !.nextAt = 0, !.start = now, !.end = now + Cycle]
          ELSE [d EXCEPT !.next = p, !.nextAt = d.end] :
             p \in {q \in Plan : q # d.plan \/ d.next # 0}}

\* The copies a request may save, none when it is refused.
Changed(d) ==
    IF d.status \in {"expired", "pending"} THEN {}
    ELSE {IF p > d.plan THEN [d EXCEPT !.plan = p, !.next = 0, !.nextAt = 0]
          ELSE [d EXCEPT !.next = p, !.nextAt = d.end] :
             p \in {q \in Plan : q # d.plan \/ d.next # 0}}

Cancelled(d) ==
    IF d.status = "expired" \/ (d.status = "cancelled" /\ d.atEnd) THEN {}
    ELSE {[d EXCEPT !.status = "cancelled", !.atEnd = TRUE, !.auto = FALSE,
                    !.next = 0, !.nextAt = 0]}

Resumed(d) ==
    IF d.status # "cancelled" \/ now > d.end THEN {}
    ELSE {[d EXCEPT !.status = IF d.trial # 0 /\ now <= d.trial THEN "trial" ELSE "active",
                    !.atEnd = FALSE, !.auto = TRUE]}

\* renew where no payment is required; LastDay bounds how far ahead.
Renewed(d) == IF Renewing(d) /\ d.end < LastDay THEN {Extended(d)} ELSE {}

Unsuspended(d) ==
    IF d.status # "suspended" THEN {}
    ELSE LET on == [d EXCEPT !.status = "active", !.grace = 0]
         IN {IF now > d.end THEN [on EXCEPT !.start = now, !.end = now + Cycle] ELSE on}

\* What adminPatch makes of the dates; to[f] is a day or 0.
Redated(d, to, auto) ==
    LET Date(f, v) == IF to[f] # 0 THEN to[f] ELSE v
    IN [d EXCEPT !.end = Date("end", @), !.trial = Date("trial", @),
                 !.grace = Date("grace", @), !.nextAt = Date("nextAt", @), !.auto = auto]

\* What it makes of another status.
Restated(d, st) ==
    LET e == [d EXCEPT !.status = st]
    IN CASE st = "cancelled" -> [e EXCEPT !.atEnd = TRUE, !.auto = FALSE]
         [] st = "expired" -> [e EXCEPT !.auto = FALSE]
         [] st = "suspended" -> [e EXCEPT !.grace = IF @ # 0 THEN @ ELSE now + GraceDays]
         [] st = "active" -> [e EXCEPT !.grace = 0]
         [] OTHER -> e

\* adminPatch.
Patched(d) ==
    LET dated == {Redated(d, to, auto) : to \in [{"end", "trial", "grace", "nextAt"} -> PatchDay \cup {0}],
                                         auto \in BOOLEAN}
    IN dated \cup {Restated(e, st) : e \in dated, st \in PatchTo \ {d.status}}

Result(o, d) ==
    CASE o = "change" -> Changed(d)
      [] o = "cancel" -> Cancelled(d)
      [] o = "resume" -> Resumed(d)
      [] o = "renew" -> Renewed(d)
      [] o = "suspend" -> {Failed(d)}
      [] o = "unsuspend" -> Unsuspended(d)
      [] o = "activate" -> Activated(d, "admin")
      [] o = "patch" -> Patched(d)

\* blocksNewSubscription
Blocks(d) ==
    \/ d.status \in {"pending", "trial", "active"}
    \/ d.status = "cancelled" /\ now <= d.end
    \/ d.status = "suspended" /\ ~(d.grace # 0 /\ now > d.grace)

Fresh(st, plan, trial, auto) ==
    [status |-> st, cur |-> TRUE, start |-> now,
     end |-> IF trial # 0 THEN trial ELSE now + Cycle, trial |-> trial, tried |-> trial # 0,
     grace |-> 0, auto |-> auto, atEnd |-> FALSE, plan |-> plan, next |-> 0, nextAt |-> 0,
     ref |-> "none"]

\* Mutant: only the current row is looked at.
HasUsedTrial_Current == \E s \in Current : sub[s].tried

HasUsedTrial == \E s \in Rows : sub[s].tried

\* save(): the fields the copy changed replace those of the row.
Merge(row, was, doc) == [f \in DOMAIN row |-> IF doc[f] # was[f] THEN doc[f] ELSE row[f]]

-----------------------------------------------------------------------------
(* A request's steps.                                                      *)

At(r, label) == req[r].at = label
Step(r, new) == req' = [req EXCEPT ![r] = new]
Done(r) == Step(r, Idle)
Goto(r, label) == Step(r, [req[r] EXCEPT !.at = label])
Note(h, happened) == hazard' = IF happened THEN hazard \cup {h} ELSE hazard

\* Another request wrote the row since r read it, or the day turned since it began.
Stale(r) ==
    \/ req[r].day # now
    \/ IF req[r].s = None THEN Current # {} ELSE sub[req[r].s] # req[r].was

Late(c) == IF c = None THEN None ELSE [c EXCEPT !.late = TRUE]

\* The unique index on {userId} where isCurrent.
IndexAllows(s, row) == row.cur => Current \subseteq {s}

\* A row that was deleted or a second current row makes save() throw.
Storable(r, doc) ==
    LET s == req[r].s IN sub[s] # None /\ IndexAllows(s, Merge(sub[s], req[r].was, doc))

\* r saves doc and goes on at label.
Store(r, doc, label) ==
    LET s == req[r].s
        row == Merge(sub[s], req[r].was, doc)
    IN IF Storable(r, doc)
       THEN /\ sub' = [sub EXCEPT ![s] = row]
            /\ Step(r, [req[r] EXCEPT !.at = label, !.doc = IF label = "announce" THEN None ELSE doc,
                                       !.was = IF label = "announce" THEN None ELSE doc])
            /\ Note("overwrote", Stale(r) /\ row # sub[s])
       ELSE UNCHANGED <<sub, hazard>> /\ Done(r)

Answered(r) == Done(r) /\ UNCHANGED <<sub, hazard>>

\* r ends early; what it has written is not announced, and a payment it is at work on
\* is noted.
BreakOff(r) ==
    /\ Done(r)
    /\ hazard' = hazard \cup {h \in {"stripped"} : At(r, "create") /\ req[r].doc # None}
                        \cup ({req[r].p} \ {None})
    /\ cache' = IF At(r, "announce") \/ At(r, "create") THEN Late(cache) ELSE cache
    /\ UNCHANGED sub

Init ==
    /\ now = 1
    /\ sub = [s \in Row |-> None]
    /\ cache = None
    /\ req = [r \in Req |-> Idle]
    /\ hazard = {}

Begin(r) ==
    /\ At(r, "idle")
    /\ \E o \in Op \ {"lose"} :
          /\ \/ /\ o \notin ById
                /\ o = "entitlement" => cache = None
                /\ Step(r, [Idle EXCEPT !.op = o, !.at = "find", !.day = now])
             \/ /\ o \in ById
                /\ \E s \in Rows : Step(r, [Idle EXCEPT !.op = o, !.at = "load", !.s = s, !.day = now])
          /\ Note("admin", o \in ByAdmin)
    /\ UNCHANGED <<now, sub, cache>>

\* Where a request goes on, with a row in hand or without.
Onward(o, found) ==
    CASE o = "me" -> "idle"
      [] o = "entitlement" -> "fill"
      [] o = "grant" -> IF found THEN "retire" ELSE "create"
      [] OTHER -> IF found \/ o = "start" THEN "act" ELSE "idle"

Proceed(r, new) == Step(r, IF new.at = "idle" THEN Idle ELSE new)

\* findCurrent, and for all but grant the lifecycle of reconcile, which announces
\* what it changes before it is saved.
Find(r) ==
    /\ At(r, "find")
    /\ LET o == req[r].op
           new == [req[r] EXCEPT !.at = Onward(o, Current # {})]
       IN \/ Current = {} /\ Proceed(r, new) /\ UNCHANGED cache
          \/ \E s \in Current :
               LET doc == IF o = "grant" THEN sub[s] ELSE Lifecycle(sub[s])
                   held == [new EXCEPT !.s = s, !.was = sub[s], !.doc = doc]
               IN IF doc = sub[s] THEN Proceed(r, held) /\ UNCHANGED cache
                  ELSE Step(r, [held EXCEPT !.at = "save"]) /\ cache' = None
    /\ UNCHANGED <<now, sub, hazard>>

\* The lifecycle of reconcile is saved.
Save(r) ==
    /\ At(r, "save")
    /\ Store(r, req[r].doc, Onward(req[r].op, TRUE))
    /\ cache' = IF Stale(r) THEN Late(cache) ELSE cache
    /\ UNCHANGED now

\* requireById, which throws when the row is not there.
Load(r) ==
    /\ At(r, "load")
    /\ LET s == req[r].s
       IN IF sub[s] = None THEN BreakOff(r)
          ELSE /\ Step(r, [req[r] EXCEPT !.at = "act", !.was = sub[s], !.doc = sub[s]])
               /\ UNCHANGED <<sub, cache, hazard>>
    /\ UNCHANGED now

\* The operations that change one row.
Apply(r) ==
    /\ At(r, "act")
    /\ req[r].op \in Changing
    /\ ~(req[r].op = "renew" /\ RequirePayment)
    /\ LET to == Result(req[r].op, req[r].doc)
       IN IF to = {} THEN Answered(r) ELSE \E doc \in to : Store(r, doc, "announce")
    /\ UNCHANGED <<now, cache>>

\* renew where payments are required: the row is read again and suspended.
RenewFails(r) ==
    /\ At(r, "act")
    /\ req[r].op = "renew" /\ RequirePayment
    /\ IF Renewing(req[r].doc) THEN Step(r, [Idle EXCEPT !.op = "suspend", !.at = "load", !.s = req[r].s, !.day = now])
       ELSE Done(r)
    /\ UNCHANGED <<now, sub, cache, hazard>>

\* start: the guard, the plan and the right to a trial.
Start(r) ==
    /\ At(r, "act")
    /\ req[r].op = "start"
    /\ IF req[r].doc # None /\ Blocks(req[r].doc) THEN Done(r)
       ELSE \E plan \in Plan :
              LET trial == IF TrialDays > 0 /\ ~HasUsedTrial THEN now + TrialDays ELSE 0
                  st == CASE trial # 0 -> "trial" [] RequirePayment -> "pending" [] OTHER -> "active"
              IN Step(r, [req[r] EXCEPT !.new = Fresh(st, plan, trial, TRUE),
                                        !.at = IF req[r].doc = None THEN "create" ELSE "retire"])
    /\ UNCHANGED <<now, sub, cache, hazard>>

\* The row that was current gives way.
Retire(r) ==
    /\ At(r, "retire")
    /\ Store(r, [req[r].doc EXCEPT !.cur = FALSE], "create")
    /\ UNCHANGED <<now, cache>>

\* Mutant: there is no unique index.
Insert_NoIndex(r, row) ==
    /\ \E s \in Row \ Rows : sub' = [sub EXCEPT ![s] = row]
    /\ Done(r)
    /\ UNCHANGED hazard

Insert(r, row) ==
    IF Current = {}
    THEN \E s \in Row \ Rows :
            /\ sub' = [sub EXCEPT ![s] = row]
            /\ Step(r, [req[r] EXCEPT !.at = "announce", !.s = s, !.was = None, !.doc = None, !.new = None])
            /\ UNCHANGED hazard
    ELSE Answered(r)

\* start inserts the row it made up; grant looks the plan up first, when the row
\* that was current has given way already.
Create(r) ==
    /\ At(r, "create")
    /\ \/ /\ req[r].op = "start"
          /\ Insert(r, req[r].new)
          /\ UNCHANGED cache
       \/ /\ req[r].op = "grant"
          /\ \E st \in Status, plan \in Plan :
                LET trial == IF st = "trial" THEN now + IF TrialDays > 1 THEN TrialDays ELSE 1 ELSE 0
                IN Insert(r, Fresh(st, plan, trial, st # "pending"))
          /\ UNCHANGED cache
       \/ /\ req[r].op = "grant"
          /\ BreakOff(r)
    /\ UNCHANGED now

Delete(r) ==
    /\ At(r, "act")
    /\ req[r].op = "delete"
    /\ sub' = [sub EXCEPT ![req[r].s] = None]
    /\ Goto(r, "announce")
    /\ Note("removed", req[r].s \in Rows)
    /\ UNCHANGED <<now, cache>>

\* Mutant: the cached entitlement is kept.
Announce_KeepsCache(r) ==
    /\ At(r, "announce")
    /\ Done(r)
    /\ UNCHANGED <<now, sub, cache, hazard>>

\* The event is recorded and the cached entitlement dropped.
Announce(r) ==
    /\ At(r, "announce")
    /\ cache' = None
    /\ Done(r)
    /\ UNCHANGED <<now, sub, hazard>>

\* getEntitlement of an account without a complimentary role.
Fill(r) ==
    /\ At(r, "fill")
    /\ cache' = [on |-> req[r].doc # None /\ Entitled(req[r].doc), late |-> Stale(r)]
    /\ Done(r)
    /\ UNCHANGED <<now, sub, hazard>>

\* The 15 s are over.
Lapse ==
    /\ cache # None
    /\ cache' = None
    /\ UNCHANGED <<now, sub, req, hazard>>

\* A request does not last from one midnight to the next, nor, once it has looked for a
\* used trial, as long as a trial.
Tick ==
    /\ now < LastDay
    /\ \A r \in Req : At(r, "idle") \/ (req[r].day = now /\ ~At(r, "create") /\ ~At(r, "retire"))
    /\ now' = now + 1
    /\ cache' = Late(cache)
    /\ UNCHANGED <<sub, req, hazard>>

\* The process stops in the middle of a request.
Lose(r) ==
    /\ "lose" \in Op
    /\ ~At(r, "idle")
    /\ BreakOff(r)
    /\ UNCHANGED now

Serve(r) ==
    \/ Find(r) \/ Save(r) \/ Load(r) \/ Apply(r) \/ RenewFails(r) \/ Start(r)
    \/ Retire(r) \/ Create(r) \/ Delete(r) \/ Announce(r) \/ Fill(r)

SubNext ==
    \/ \E r \in Req : Begin(r) \/ Serve(r) \/ Lose(r)
    \/ Lapse \/ Tick

Spec == Init /\ [][SubNext]_subVars

-----------------------------------------------------------------------------
(* Properties.                                                             *)

Request == [op : OpName \cup {None}, at : Label, s : Row \cup {None}, was : Sub \cup {None},
            doc : Sub \cup {None}, day : Nat, new : Sub \cup {None},
            p : {None}, out : {None}, copy : {None}]

\* The type of every variable.
TypeOK ==
    /\ now \in 1 .. LastDay
    /\ sub \in [Row -> Sub \cup {None}]
    /\ cache \in [on : BOOLEAN, late : BOOLEAN] \cup {None}
    /\ req \in [Req -> Request]
    /\ hazard \subseteq {"overwrote", "stripped", "removed", "admin"}

\* A user who has subscribed has exactly one current subscription, however starts,
\* grants and saves interleave: unless a row gave way to one a start or grant has yet to
\* insert, or never will because it broke off or found no plan, or a row was deleted.
OneCurrent ==
    /\ Cardinality(Current) <= 1
    /\ Rows # {} /\ Current = {} =>
          \/ hazard \cap {"stripped", "removed"} # {}
          \/ \E r \in Req : At(r, "create") /\ req[r].doc # None

\* Starting a subscription gives one trial, ever, though rows come and go: only the
\* deletion of the row that had it, or an administrator who grants one or ends it by hand,
\* gives another.
OneTrial ==
    "removed" \notin hazard /\ Op \cap {"grant", "patch"} = {} =>
        Cardinality({s \in Rows : sub[s].tried}) <= 1

\* The cached entitlement says what the current row and the clock say, unless the day
\* turned or a write was not announced since, it was filled from an old copy, or a
\* row has given way to one that is not there yet.
CacheIsTrue ==
    cache # None =>
        \/ cache.late
        \/ \E r \in Req : At(r, "announce")
        \/ Current = {} /\ \E r \in Req : At(r, "create") /\ req[r].doc # None
        \/ cache.on = \E s \in Current : Entitled(Lifecycle(sub[s]))

\* Nobody is moved to a lesser plan before the day the change was scheduled for,
\* though saves merge, unless one of them overwrote another.
PlanFallsWhenDue ==
    [][\A s \in Row : sub[s] # None /\ sub'[s] # None /\ sub'[s].plan < sub[s].plan
          => \/ sub[s].nextAt # 0 /\ now >= sub[s].nextAt
             \/ "overwrote" \in hazard']_subVars

\* The last day d gives access, on its own: Entitled(d) lasts until then.
AccessUntil(d) ==
    LET end == IF d.status \in {"trial", "active", "cancelled"} THEN d.end ELSE 0
        grace == IF d.status \in {"trial", "active", "suspended", "expired"} THEN d.grace ELSE 0
    IN IF end > grace THEN end ELSE grace

\* Where the code lets d give up days of access as it becomes e: cancelling gives up
\* those of grace; a trial that is over gives way to a first period from today, however
\* far it was renewed ahead, or stays unpaid; and where payments are required a renewal
\* that is refused, an early one of the owner's too (renew, line 445), leaves nothing but
\* the days of grace from today.
GivenUp(d, e) ==
    \/ e.status = "cancelled" /\ e.end >= d.end
    \/ /\ d.status = "trial" /\ now > d.trial
       /\ \/ e.status = "active" /\ e.end = now + Cycle
          \/ e.status = "pending" /\ now > d.end
    \/ RequirePayment /\ e.status = "suspended" /\ e.grace = now + GraceDays

\* As long as no administrator steps in, and no save overwrites another, no step on the
\* way of any request moves the last day of a user's access to an earlier one, except as
\* GivenUp has it, and a start that replaces a subscription expired with days of grace.
AccessIsKept ==
    [][\A s \in Current : Entitled(sub[s]) /\ now' = now =>
          \/ hazard' \cap {"overwrote", "admin"} # {}
          \/ /\ sub'[s] # None /\ (sub'[s].cur \/ sub[s].status = "expired")
             /\ AccessUntil(sub'[s]) >= AccessUntil(sub[s]) \/ GivenUp(sub[s], sub'[s])]_subVars

\* What subscriptions.e2e-spec.ts:289 says: where payments are required a pending
\* subscription stays locked until a payment activates it.
PendingStaysLocked ==
    \A s \in Rows : Entitled(sub[s]) => sub[s].tried \/ sub[s].ref # "none"
=============================================================================
