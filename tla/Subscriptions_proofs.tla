------------------------ MODULE Subscriptions_proofs ------------------------
(* Theorems about Subscriptions.                                           *)
EXTENDS Subscriptions, FiniteSetTheorems, TLAPS

USE SubscriptionAssumption, NoneIsNoRow DEF SubscriptionAssumption

LEMMA AtMostOne ==
    ASSUME NEW S, \A s, t \in S : s = t
    PROVE  Cardinality(S) <= 1
  <1>1. CASE S = {}
    BY <1>1, FS_EmptySet
  <1>2. ASSUME NEW s \in S PROVE Cardinality(S) <= 1
    <2>1. S = {s}
      OBVIOUS
    <2>2. Cardinality({s}) = 1
      BY FS_Singleton
    <2>. QED
      BY <2>1, <2>2
  <1>. QED
    BY <1>1, <1>2

-----------------------------------------------------------------------------
(* What the operations compute.                                            *)

\* Every field a copy did not change keeps its value.
LEMMA MergeType ==
    ASSUME NEW row \in Sub, NEW was \in Sub, NEW doc \in Sub
    PROVE  /\ Merge(row, was, doc) \in Sub
           /\ Merge(row, was, doc).cur = IF doc.cur # was.cur THEN doc.cur ELSE row.cur
           /\ Merge(row, was, doc).plan = IF doc.plan # was.plan THEN doc.plan ELSE row.plan
           /\ Merge(row, was, doc).ref = IF doc.ref # was.ref THEN doc.ref ELSE row.ref
  BY DEF Merge, Sub

\* A new row is the current one, activated by nothing.
LEMMA FreshType ==
    ASSUME NEW st \in Status, NEW plan \in Plan, NEW trial \in Nat, NEW auto \in BOOLEAN, now \in Nat
    PROVE  /\ Fresh(st, plan, trial, auto) \in Sub /\ Fresh(st, plan, trial, auto).cur
           /\ Fresh(st, plan, trial, auto).ref = "none"
  <1>1. now + Cycle \in Nat
    OBVIOUS
  <1>2. (IF trial # 0 THEN trial ELSE now + Cycle) \in Nat /\ (trial # 0) \in BOOLEAN
    BY <1>1
  <1>3. ASSUME NEW end \in Nat, NEW tried \in BOOLEAN
        PROVE
          [status |-> st, cur |-> TRUE, start |-> now, end |-> end, trial |-> trial, tried |-> tried,
           grace |-> 0, auto |-> auto, atEnd |-> FALSE, plan |-> plan, next |-> 0, nextAt |-> 0,
           ref |-> "none"] \in Sub
    BY DEF Sub
  <1>4. Fresh(st, plan, trial, auto) \in Sub
    BY <1>2, <1>3, Zenon DEF Fresh
  <1>5. Fresh(st, plan, trial, auto).cur = TRUE /\ Fresh(st, plan, trial, auto).ref = "none"
    BY Zenon DEF Fresh
  <1>. QED
    BY <1>4, <1>5

\* Time makes no row current nor activates it, and moves it to the plan scheduled for the day.
LEMMA LifecycleType ==
    ASSUME NEW d \in Sub, now \in Nat
    PROVE  /\ Lifecycle(d) \in Sub
           /\ Lifecycle(d).cur = d.cur /\ Lifecycle(d).ref = d.ref
           /\ Lifecycle(d).plan # d.plan => d.nextAt # 0 /\ now >= d.nextAt
  <1>1. /\ WithSchedule(d) \in Sub
        /\ WithSchedule(d).cur = d.cur /\ WithSchedule(d).ref = d.ref
        /\ WithSchedule(d).plan # d.plan => d.nextAt # 0 /\ now >= d.nextAt
    BY DEF WithSchedule, Sub
  <1>2. ASSUME NEW e \in Sub
        PROVE  Moved(e) \in Sub /\ Moved(e).cur = e.cur /\ Moved(e).ref = e.ref /\ Moved(e).plan = e.plan
    <2>. now + Cycle \in Nat /\ now + GraceDays \in Nat /\ e.end + Cycle \in Nat
      BY DEF Sub
    <2>1. Failed(e) \in Sub /\ Failed(e).cur = e.cur /\ Failed(e).ref = e.ref /\ Failed(e).plan = e.plan
      BY DEF Failed, Sub, Status
    <2>2. Extended(e) \in Sub /\ Extended(e).cur = e.cur /\ Extended(e).ref = e.ref /\ Extended(e).plan = e.plan
      BY DEF Extended, Sub, Status
    <2>3. \A st \in Status : LET f == [e EXCEPT !.status = st] IN f \in Sub /\ f.cur = e.cur /\ f.ref = e.ref /\ f.plan = e.plan
      BY DEF Sub
    <2>4. LET f == [e EXCEPT !.status = "active", !.start = now, !.end = now + Cycle]
          IN f \in Sub /\ f.cur = e.cur /\ f.ref = e.ref /\ f.plan = e.plan
      BY DEF Sub, Status
    <2>. QED
      BY <2>1, <2>2, <2>3, <2>4 DEF Moved, Status
  <1>. QED
    BY <1>1, <1>2 DEF Lifecycle

\* An activation makes the row current and active, and names what it is by; it is
\* refused only when the row is active by the same.
LEMMA ActivatedType ==
    ASSUME NEW d \in Sub, now \in Nat, NEW ref \in Ref
    PROVE  /\ \A e \in Activated(d, ref) : e \in Sub /\ e.cur /\ e.plan = d.plan /\ e.ref = ref
           /\ Activated(d, ref) = {} => d.ref = ref
  <1>1. ASSUME NEW e \in Activated(d, ref)
        PROVE  e \in Sub /\ e.cur /\ e.plan = d.plan /\ e.ref = ref
    <2>. DEFINE on == [d EXCEPT !.status = "active", !.ref = ref, !.auto = TRUE, !.atEnd = FALSE,
                                !.grace = 0, !.cur = TRUE]
                from == IF d.status = "active" /\ d.end > now THEN d.end ELSE now
    <2>1. e = on \/ e = [on EXCEPT !.start = from, !.end = from + Cycle]
      BY <1>1, Zenon DEF Activated
    <2>2. on \in Sub /\ on.cur = TRUE /\ on.plan = d.plan /\ on.ref = ref
      BY DEF Sub, Status
    <2>3. from \in Nat /\ from + Cycle \in Nat
      BY DEF Sub
    <2>. HIDE DEF on, from
    <2>. QED
      BY <2>1, <2>2, <2>3, ZenonT(60) DEF Sub
  <1>2. Activated(d, ref) = {} => d.ref = ref
    BY Zenon DEF Activated
  <1>. QED
    BY <1>1, <1>2

\* What a request makes of a row may make it current, never the other way, and
\* moves it to a greater plan if to any.
LEMMA ResultType ==
    ASSUME NEW d \in Sub, now \in Nat, NEW o \in Changing, NEW e \in Result(o, d)
    PROVE  /\ e \in Sub
           /\ e.cur = d.cur \/ e.cur = TRUE
           /\ e.plan # d.plan => e.plan > d.plan
           /\ e.ref \in {d.ref, "admin"}
  <1>. /\ now + Cycle \in Nat /\ now + GraceDays \in Nat /\ d.end + Cycle \in Nat
       /\ Plan \subseteq Nat
    BY DEF Sub
  <1>1. CASE o = "change"
    <2>1. e \in Changed(d)
      BY <1>1 DEF Result
    <2>2. PICK q \in Plan : e = IF q > d.plan THEN [d EXCEPT !.plan = q, !.next = 0, !.nextAt = 0]
                                ELSE [d EXCEPT !.next = q, !.nextAt = d.end]
      BY <2>1 DEF Changed
    <2>. QED
      BY <2>2 DEF Sub
  <1>2. CASE o = "cancel"
    <2>1. e = [d EXCEPT !.status = "cancelled", !.atEnd = TRUE, !.auto = FALSE,
                        !.next = 0, !.nextAt = 0]
      BY <1>2, Zenon DEF Result, Cancelled
    <2>. QED
      BY <2>1 DEF Sub, Status
  <1>3. CASE o = "resume"
    <2>1. PICK st \in {"trial", "active"} :
            e = [d EXCEPT !.status = st, !.atEnd = FALSE, !.auto = TRUE]
      BY <1>3, Zenon DEF Result, Resumed
    <2>. QED
      BY <2>1 DEF Sub, Status
  <1>4. CASE o = "renew"
    <2>1. e = Extended(d)
      BY <1>4, Zenon DEF Result, Renewed
    <2>. QED
      BY <2>1 DEF Extended, Sub, Status
  <1>5. CASE o = "suspend"
    <2>1. e = Failed(d)
      BY <1>5, Zenon DEF Result
    <2>. QED
      BY <2>1 DEF Failed, Sub, Status
  <1>6. CASE o = "unsuspend"
    <2>1. \/ e = [[d EXCEPT !.status = "active", !.grace = 0] EXCEPT !.start = now, !.end = now + Cycle]
          \/ e = [d EXCEPT !.status = "active", !.grace = 0]
      BY <1>6, Zenon DEF Result, Unsuspended
    <2>2. CASE e = [d EXCEPT !.status = "active", !.grace = 0]
      BY <2>2 DEF Sub, Status
    <2>3. CASE e = [[d EXCEPT !.status = "active", !.grace = 0] EXCEPT !.start = now, !.end = now + Cycle]
      BY <2>3 DEF Sub, Status
    <2>. QED
      BY <2>1, <2>2, <2>3
  <1>7. CASE o = "activate"
    <2>. QED
      BY <1>7, ActivatedType DEF Result
  <1>8. CASE o = "patch"
    <2>1. e \in Patched(d)
      BY <1>8 DEF Result
    <2>2. ASSUME NEW to \in [{"end", "trial", "grace", "nextAt"} -> PatchDay \cup {0}],
                 NEW auto \in BOOLEAN
          PROVE  LET f == Redated(d, to, auto) IN f \in Sub /\ f.cur = d.cur /\ f.ref = d.ref /\ f.plan = d.plan
      <3>. DEFINE Date(f, v) == IF to[f] # 0 THEN to[f] ELSE v
      <3>1. \A f \in {"end", "trial", "grace", "nextAt"}, v \in Nat : Date(f, v) \in Nat
        OBVIOUS
      <3>2. /\ Date("end", d.end) \in Nat /\ Date("trial", d.trial) \in Nat
            /\ Date("grace", d.grace) \in Nat /\ Date("nextAt", d.nextAt) \in Nat
        BY <3>1 DEF Sub
      <3>3. Redated(d, to, auto) =
              [d EXCEPT !.end = Date("end", d.end), !.trial = Date("trial", d.trial),
                        !.grace = Date("grace", d.grace), !.nextAt = Date("nextAt", d.nextAt), !.auto = auto]
        BY DEF Redated, Sub
      <3>. DEFINE a == [d EXCEPT !.end = Date("end", d.end), !.trial = Date("trial", d.trial)]
                  b == [a EXCEPT !.grace = Date("grace", d.grace), !.nextAt = Date("nextAt", d.nextAt)]
      <3>4. Redated(d, to, auto) = [b EXCEPT !.auto = auto]
        BY <3>3
      <3>. HIDE DEF Date
      <3>5. a \in Sub /\ a.cur = d.cur /\ a.ref = d.ref /\ a.plan = d.plan
        BY <3>2 DEF Sub
      <3>. HIDE DEF a
      <3>6. b \in Sub /\ b.cur = d.cur /\ b.ref = d.ref /\ b.plan = d.plan
        BY <3>2, <3>5 DEF Sub
      <3>. HIDE DEF b
      <3>. QED
        BY <3>4, <3>6 DEF Sub
    <2>3. ASSUME NEW c \in Sub, NEW st \in PatchTo
          PROVE  LET f == Restated(c, st) IN f \in Sub /\ f.cur = c.cur /\ f.ref = c.ref /\ f.plan = c.plan
      <3>. DEFINE b == [c EXCEPT !.status = st]
      <3>1. b \in Sub /\ b.cur = c.cur /\ b.ref = c.ref /\ b.plan = c.plan
        BY DEF Sub
      <3>2. \/ Restated(c, st) = [b EXCEPT !.atEnd = TRUE, !.auto = FALSE]
            \/ Restated(c, st) = [b EXCEPT !.auto = FALSE]
            \/ Restated(c, st) = [b EXCEPT !.grace = IF b.grace # 0 THEN b.grace ELSE now + GraceDays]
            \/ Restated(c, st) = [b EXCEPT !.grace = 0]
            \/ Restated(c, st) = b
        BY DEF Restated, Status
      <3>. HIDE DEF b
      <3>3. (IF b.grace # 0 THEN b.grace ELSE now + GraceDays) \in Nat
        BY <3>1 DEF Sub
      <3>4. \A v \in Nat : LET f == [b EXCEPT !.grace = v] IN f \in Sub /\ f.cur = c.cur /\ f.ref = c.ref /\ f.plan = c.plan
        BY <3>1 DEF Sub
      <3>5. LET f == [b EXCEPT !.auto = FALSE] IN f \in Sub /\ f.cur = c.cur /\ f.ref = c.ref /\ f.plan = c.plan
        BY <3>1 DEF Sub
      <3>6. LET f == [b EXCEPT !.atEnd = TRUE, !.auto = FALSE] IN f \in Sub /\ f.cur = c.cur /\ f.ref = c.ref /\ f.plan = c.plan
        BY <3>1 DEF Sub
      <3>7. LET f == [b EXCEPT !.grace = IF b.grace # 0 THEN b.grace ELSE now + GraceDays]
            IN f \in Sub /\ f.cur = c.cur /\ f.ref = c.ref /\ f.plan = c.plan
        BY <3>3, <3>4
      <3>8. LET f == [b EXCEPT !.grace = 0] IN f \in Sub /\ f.cur = c.cur /\ f.ref = c.ref /\ f.plan = c.plan
        BY <3>4
      <3>. QED
        BY <3>1, <3>2, <3>5, <3>6, <3>7, <3>8, Zenon
    <2>. DEFINE dated == {Redated(d, to, auto) : to \in [{"end", "trial", "grace", "nextAt"} -> PatchDay \cup {0}],
                                                 auto \in BOOLEAN}
    <2>4. \A c \in dated : c \in Sub /\ c.cur = d.cur /\ c.ref = d.ref /\ c.plan = d.plan
      BY <2>2
    <2>5. e \in dated \/ \E c \in dated, st \in PatchTo : e = Restated(c, st)
      BY <2>1 DEF Patched
    <2>. QED
      BY <2>3, <2>4, <2>5
  <1>. QED
    BY <1>1, <1>2, <1>3, <1>4, <1>5, <1>6, <1>7, <1>8 DEF Changing

-----------------------------------------------------------------------------
(* The inductive invariant.                                                *)

\* What a request has in hand at each of its labels.
Fits(q) ==
    /\ q.at = "find" => q.op \in OpName \ (ById \cup {"lose"}) /\ q.doc = None
    /\ q.at = "load" => q.op \in ById /\ q.s \in Row
    /\ q.at = "save" =>
          /\ q.op \in OpName \ (ById \cup {"lose"})
          /\ q.s \in Row /\ q.was \in Sub /\ q.doc \in Sub
          /\ q.doc.cur = q.was.cur
          /\ q.doc.plan # q.was.plan => q.was.nextAt # 0 /\ now >= q.was.nextAt
    /\ q.at = "act" =>
          /\ q.op \in Changing \cup {"start", "delete"}
          /\ q.doc = None => q.op = "start"
          /\ q.doc # None => q.s \in Row /\ q.was = q.doc
    /\ q.at = "retire" =>
          /\ q.op \in {"start", "grant"}
          /\ q.s \in Row /\ q.was \in Sub /\ q.doc = q.was
    /\ q.at = "create" => q.op \in {"start", "grant"}
    /\ q.at \in {"retire", "create"} /\ q.op = "start" => q.new \in Sub /\ q.new.cur

Shape == \A r \in Req : Fits(req[r])

Unique == \A s, t \in Current : s = t

Replaced ==
    Rows # {} /\ Current = {} =>
        \/ hazard \cap {"stripped", "removed"} # {}
        \/ \E r \in Req : At(r, "create") /\ req[r].doc # None

IInv == TypeOK /\ Shape /\ Unique /\ Replaced

PlanStep ==
    \A s \in Row : sub[s] # None /\ sub'[s] # None /\ sub'[s].plan < sub[s].plan
      => \/ sub[s].nextAt # 0 /\ now >= sub[s].nextAt
         \/ "overwrote" \in hazard'

CacheType == [on : BOOLEAN, late : BOOLEAN] \cup {None}

LEMMA LateType == ASSUME TypeOK PROVE Late(cache) \in CacheType
  BY DEF TypeOK, Late, CacheType

LEMMA PlanType == ASSUME NEW d \in Sub PROVE d.plan \in Nat
  BY DEF Sub

LEMMA RowTypes ==
    ASSUME TypeOK, NEW s \in Rows
    PROVE  sub[s] \in Sub /\ sub[s].plan \in Nat /\ s \in Row
  BY DEF TypeOK, Rows, Sub

LEMMA InHand ==
    ASSUME IInv, NEW r \in Req
    PROVE  /\ req[r] \in Request /\ Fits(req[r]) /\ now \in Nat /\ cache \in CacheType
           /\ hazard \subseteq {"overwrote", "stripped", "removed", "admin"}
  BY DEF IInv, TypeOK, Shape, CacheType

LEMMA IdleFits == Idle \in Request /\ Fits(Idle)
  BY DEF Idle, Request, Label, Fits

\* A step that leaves the rows alone.
LEMMA Quiet ==
    ASSUME IInv, NEW r \in Req, NEW q \in Request, Fits(q), Step(r, q),
           UNCHANGED <<now, sub>>, cache' \in CacheType,
           hazard \subseteq hazard', hazard' \subseteq {"overwrote", "stripped", "removed", "admin"},
           At(r, "create") /\ req[r].doc # None =>
               Current # {} \/ "stripped" \in hazard'
    PROVE  IInv' /\ PlanStep
  <1>. req \in [Req -> Request] /\ req' = [req EXCEPT ![r] = q]
    BY DEF IInv, TypeOK, Step
  <1>1. TypeOK'
    BY DEF IInv, TypeOK, CacheType
  <1>2. Shape'
    BY DEF IInv, Shape, Fits
  <1>3. Rows' = Rows /\ Current' = Current
    BY DEF Rows, Current
  <1>4. Unique'
    BY <1>3 DEF IInv, Unique
  <1>5. Replaced'
    BY <1>3 DEF IInv, Replaced, At
  <1>6. PlanStep
    <2>1. ASSUME NEW s \in Row, sub[s] # None
          PROVE  ~(sub'[s].plan < sub[s].plan)
      BY <2>1, RowTypes DEF IInv, Rows
    <2>. QED
      BY <2>1 DEF PlanStep
  <1>. QED
    BY <1>1, <1>2, <1>4, <1>5, <1>6 DEF IInv

\* What a save does: nothing, or it writes the merged row.
LEMMA StoreCases ==
    ASSUME TypeOK, NEW r \in Req, NEW doc \in Sub, NEW label \in Label, Store(r, doc, label),
           req[r].s \in Row, req[r].was \in Sub
    PROVE  \/ UNCHANGED <<sub, hazard>> /\ Step(r, Idle)
           \/ LET s == req[r].s
                  was == req[r].was
                  held == IF label = "announce" THEN None ELSE doc
              IN /\ s \in Rows
                 /\ Step(r, [req[r] EXCEPT !.at = label, !.doc = held, !.was = held])
                 /\ \E row \in Sub :
                       /\ sub' = [sub EXCEPT ![s] = row]
                       /\ row.cur = IF doc.cur # was.cur THEN doc.cur ELSE sub[s].cur
                       /\ row.plan = IF doc.plan # was.plan THEN doc.plan ELSE sub[s].plan
                       /\ row.cur => Current \subseteq {s}
                       /\ hazard \subseteq hazard' /\ hazard' \subseteq hazard \cup {"overwrote"}
                       /\ sub[s] # was /\ row # sub[s] => "overwrote" \in hazard'
  <1>. DEFINE s == req[r].s
              row == Merge(sub[s], req[r].was, doc)
  <1>1. CASE ~(sub[s] # None /\ IndexAllows(s, row))
    BY <1>1 DEF Store, Storable, Done
  <1>2. CASE sub[s] # None /\ IndexAllows(s, row)
    <2>1. s \in Rows /\ sub[s] \in Sub
      BY <1>2, RowTypes DEF Rows
    <2>2. /\ row \in Sub
          /\ row.cur = IF doc.cur # req[r].was.cur THEN doc.cur ELSE sub[s].cur
          /\ row.plan = IF doc.plan # req[r].was.plan THEN doc.plan ELSE sub[s].plan
      BY <2>1, MergeType
    <2>3. sub[s] # req[r].was => Stale(r)
      BY NoneIsNoRow DEF Stale
    <2>4. /\ sub' = [sub EXCEPT ![s] = row]
          /\ Step(r, [req[r] EXCEPT !.at = label, !.doc = IF label = "announce" THEN None ELSE doc,
                                    !.was = IF label = "announce" THEN None ELSE doc])
          /\ Note("overwrote", Stale(r) /\ row # sub[s])
      BY <1>2 DEF Store, Storable
    <2>5. row.cur => Current \subseteq {s}
      BY <1>2 DEF IndexAllows
    <2>. HIDE DEF row, s
    <2>6. /\ hazard \subseteq hazard' /\ hazard' \subseteq hazard \cup {"overwrote"}
          /\ sub[s] # req[r].was /\ row # sub[s] => "overwrote" \in hazard'
      BY <2>3, <2>4 DEF Note, s
    <2>. QED
      BY <2>1, <2>2, <2>4, <2>5, <2>6 DEF s
  <1>. QED
    BY <1>1, <1>2

\* A save by a request that may make the row current but not less, or puts a new
\* one in its place, and that moves it to a lesser plan only when that is due.
LEMMA Stored ==
    ASSUME IInv, NEW r \in Req, NEW doc \in Sub, NEW label \in Label, Store(r, doc, label),
           req[r].s \in Row, req[r].was \in Sub, ~At(r, "create"),
           UNCHANGED now, cache' \in CacheType,
           LET held == IF label = "announce" THEN None ELSE doc
           IN Fits([req[r] EXCEPT !.at = label, !.doc = held, !.was = held]),
           doc.cur = req[r].was.cur \/ doc.cur \/ label = "create",
           doc.plan < req[r].was.plan => req[r].was.nextAt # 0 /\ now >= req[r].was.nextAt
    PROVE  IInv' /\ PlanStep
  <1>. DEFINE s == req[r].s
              held == IF label = "announce" THEN None ELSE doc
              q == [req[r] EXCEPT !.at = label, !.doc = held, !.was = held]
  <1>1. CASE UNCHANGED <<sub, hazard>> /\ Step(r, Idle)
    BY <1>1, IdleFits, Quiet DEF IInv, TypeOK
  <1>2. ASSUME NEW row \in Sub, s \in Rows, Step(r, q),
               sub' = [sub EXCEPT ![s] = row],
               row.cur = IF doc.cur # req[r].was.cur THEN doc.cur ELSE sub[s].cur,
               row.plan = IF doc.plan # req[r].was.plan THEN doc.plan ELSE sub[s].plan,
               row.cur => Current \subseteq {s},
               hazard \subseteq hazard', hazard' \subseteq hazard \cup {"overwrote"},
               sub[s] # req[r].was /\ row # sub[s] => "overwrote" \in hazard'
        PROVE  IInv' /\ PlanStep
    <2>1. q \in Request /\ Fits(q) /\ q.at = label /\ q.doc = held
      BY ZenonT(60) DEF IInv, TypeOK, Request
    <2>. HIDE DEF q
    <2>. req \in [Req -> Request] /\ req' = [req EXCEPT ![r] = q]
      BY <1>2 DEF IInv, TypeOK, Step
    <2>2. TypeOK'
      BY <1>2, <2>1 DEF IInv, TypeOK, CacheType
    <2>3. Shape'
      BY <2>1 DEF IInv, Shape, Fits
    <2>4. Rows' = Rows /\ Current' = {t \in Current : t # s} \cup {t \in {s} : row.cur}
      BY <1>2, NoneIsNoRow DEF Rows, Current, IInv, TypeOK
    <2>5. Unique'
      BY <1>2, <2>4 DEF IInv, Unique
    <2>6. Replaced'
      <3>1. CASE label = "create"
        BY <2>1, <3>1, NoneIsNoRow DEF Replaced, At
      <3>2. CASE label # "create"
        <4>1. s \in Current => row.cur
          BY <1>2, <3>2 DEF Current
        <4>2. Current \subseteq Current'
          BY <2>4, <4>1
        <4>3. \A t \in Req : At(t, "create") /\ req[t].doc # None =>
                 At(t, "create")' /\ req'[t].doc # None
          BY DEF At
        <4>. QED
          BY <1>2, <2>4, <4>2, <4>3 DEF IInv, Replaced
      <3>. QED
        BY <3>1, <3>2
    <2>7. PlanStep
      <3>1. sub[s].plan \in Nat /\ doc.plan \in Nat /\ req[r].was.plan \in Nat
        BY <1>2, RowTypes DEF IInv, Sub
      <3>2. sub[s] # req[r].was /\ row.plan < sub[s].plan => "overwrote" \in hazard'
        BY <1>2, <3>1
      <3>3. ASSUME sub[s] = req[r].was, row.plan < sub[s].plan
            PROVE  sub[s].nextAt # 0 /\ now >= sub[s].nextAt
        BY <1>2, <3>1, <3>3
      <3>4. ASSUME NEW t \in Row, t # s, sub[t] # None
            PROVE  ~(sub'[t].plan < sub[t].plan)
        BY <1>2, <3>4, RowTypes DEF IInv, Rows, TypeOK
      <3>5. sub'[s] = row
        BY <1>2 DEF IInv, TypeOK, Rows
      <3>. QED
        BY <3>2, <3>3, <3>4, <3>5 DEF PlanStep
    <2>. QED
      BY <2>2, <2>3, <2>5, <2>6, <2>7 DEF IInv
  <1>3. \/ UNCHANGED <<sub, hazard>> /\ Step(r, Idle)
        \/ /\ s \in Rows
           /\ Step(r, q)
           /\ \E row \in Sub :
                 /\ sub' = [sub EXCEPT ![s] = row]
                 /\ row.cur = IF doc.cur # req[r].was.cur THEN doc.cur ELSE sub[s].cur
                 /\ row.plan = IF doc.plan # req[r].was.plan THEN doc.plan ELSE sub[s].plan
                 /\ row.cur => Current \subseteq {s}
                 /\ hazard \subseteq hazard' /\ hazard' \subseteq hazard \cup {"overwrote"}
                 /\ sub[s] # req[r].was /\ row # sub[s] => "overwrote" \in hazard'
    BY StoreCases DEF IInv
  <1>. QED
    BY <1>1, <1>2, <1>3

\* A new row is written only where there is no current one.
LEMMA Inserted ==
    ASSUME IInv, NEW r \in Req, At(r, "create"), NEW row \in Sub, row.cur, Insert(r, row),
           UNCHANGED <<now, cache>>
    PROVE  IInv' /\ PlanStep
  <1>1. CASE Current # {}
    BY <1>1, IdleFits, Quiet DEF Insert, Answered, Done, IInv, TypeOK, CacheType
  <1>2. CASE Current = {}
    <2>1. PICK s \in Row \ Rows :
            /\ sub' = [sub EXCEPT ![s] = row]
            /\ Step(r, [req[r] EXCEPT !.at = "announce", !.s = s, !.was = None, !.doc = None, !.new = None])
            /\ UNCHANGED hazard
      BY <1>2 DEF Insert
    <2>. DEFINE q == [req[r] EXCEPT !.at = "announce", !.s = s, !.was = None, !.doc = None, !.new = None]
    <2>2. q \in Request /\ Fits(q)
      <3>1. req[r] \in Request /\ s \in Row
        BY DEF IInv, TypeOK
      <3>2. q \in Request /\ q.at = "announce"
        BY <3>1 DEF Request, Label
      <3>. QED
        BY <3>2 DEF Fits
    <2>. HIDE DEF q
    <2>. req \in [Req -> Request] /\ req' = [req EXCEPT ![r] = q]
      BY <2>1 DEF IInv, TypeOK, Step, q
    <2>3. TypeOK'
      BY <2>1, <2>2 DEF IInv, TypeOK
    <2>4. Shape'
      BY <2>2 DEF IInv, Shape, Fits
    <2>5. Current' = {s}
      BY <1>2, <2>1, NoneIsNoRow DEF Rows, Current, IInv, TypeOK
    <2>6. Unique' /\ Replaced'
      BY <2>5 DEF Unique, Replaced
    <2>7. ASSUME NEW t \in Row, sub[t] # None, sub'[t].plan < sub[t].plan
          PROVE  FALSE
      BY <2>1, <2>7, RowTypes DEF IInv, Rows, TypeOK
    <2>. QED
      BY <2>3, <2>4, <2>6, <2>7 DEF IInv, PlanStep
  <1>. QED
    BY <1>1, <1>2

-----------------------------------------------------------------------------
(* The steps.                                                              *)

LEMMA BeginKeeps == ASSUME IInv, NEW r \in Req, Begin(r) PROVE IInv' /\ PlanStep
  <1>1. PICK o \in Op \ {"lose"} :
          \/ o \notin ById /\ Step(r, [Idle EXCEPT !.op = o, !.at = "find", !.day = now])
          \/ /\ o \in ById
             /\ \E s \in Rows : Step(r, [Idle EXCEPT !.op = o, !.at = "load", !.s = s, !.day = now])
    BY DEF Begin
  <1>. o \in OpName
    OBVIOUS
  <1>2. now \in Nat
    BY DEF IInv, TypeOK
  <1>3. LET q == [Idle EXCEPT !.op = o, !.at = "find", !.day = now]
        IN q \in Request /\ (o \notin ById => Fits(q))
    BY <1>2 DEF Idle, Request, Label, Fits
  <1>4. ASSUME NEW s \in Rows
        PROVE  LET q == [Idle EXCEPT !.op = o, !.at = "load", !.s = s, !.day = now]
               IN q \in Request /\ (o \in ById => Fits(q))
    BY <1>2 DEF Idle, Request, Label, Fits, Rows
  <1>5. UNCHANGED <<now, sub, cache>> /\ ~At(r, "create") /\ cache' \in CacheType
    BY DEF Begin, At, IInv, TypeOK, CacheType
  <1>6. hazard \subseteq hazard' /\ hazard' \subseteq {"overwrote", "stripped", "removed", "admin"}
    BY DEF Begin, Note, IInv, TypeOK
  <1>. QED
    BY <1>1, <1>3, <1>4, <1>5, <1>6, Quiet

\* Where a request that has found or not found the current row may go.
LEMMA OnwardCases ==
    ASSUME NEW o \in OpName \ (ById \cup {"lose"})
    PROVE  /\ Onward(o, TRUE) \in {"idle", "fill", "retire", "act"}
           /\ Onward(o, TRUE) = "retire" => o = "grant"
           /\ Onward(o, TRUE) = "act" => o \in Changing \cup {"start"}
           /\ Onward(o, FALSE) \in {"idle", "fill", "create", "act"}
           /\ Onward(o, FALSE) = "create" => o = "grant"
           /\ Onward(o, FALSE) = "act" => o = "start"
  BY DEF Onward, OpName, ByAdmin, ById, Changing

LEMMA FindKeeps == ASSUME IInv, NEW r \in Req, Find(r) PROVE IInv' /\ PlanStep
  <1>. DEFINE o == req[r].op
  <1>1. /\ req[r] \in Request /\ req[r].doc = None /\ now \in Nat
        /\ o \in OpName \ (ById \cup {"lose"})
        /\ cache \in CacheType /\ None \in CacheType
    BY InHand DEF Find, At, Fits, CacheType
  <1>2. UNCHANGED <<now, sub, hazard>> /\ ~At(r, "create")
        /\ hazard' \subseteq {"overwrote", "stripped", "removed", "admin"}
    BY InHand DEF Find, At
  <1>3. ASSUME NEW q \in Request, Fits(q), Step(r, q), cache' \in CacheType
        PROVE  IInv' /\ PlanStep
    BY <1>2, <1>3, Quiet
  <1>4. ASSUME NEW q \in Request, Fits(q), Proceed(r, q), cache' \in CacheType
        PROVE  IInv' /\ PlanStep
    BY <1>3, <1>4, IdleFits DEF Proceed
  <1>. DEFINE found == Onward(o, TRUE)
              lost == Onward(o, FALSE)
  <1>8. /\ found \in {"idle", "fill", "retire", "act"}
        /\ found = "retire" => o = "grant"
        /\ found = "act" => o \in Changing \cup {"start"}
        /\ lost \in {"idle", "fill", "create", "act"}
        /\ lost = "create" => o = "grant"
        /\ lost = "act" => o = "start"
    BY <1>1, OnwardCases
  <1>5. CASE /\ Current = {}
             /\ Proceed(r, [req[r] EXCEPT !.at = Onward(o, FALSE)])
             /\ UNCHANGED cache
    <2>. DEFINE q == [req[r] EXCEPT !.at = Onward(o, FALSE)]
    <2>1. q \in Request /\ q.at = lost /\ q.op = o /\ q.doc = None
      BY <1>1, <1>8, ZenonT(60) DEF Request, Label
    <2>2. Fits(q)
      <3>. HIDE DEF q, o, lost
      <3>. QED
        BY <1>8, <2>1 DEF Fits
    <2>. QED
      BY <1>1, <1>4, <1>5, <2>1, <2>2
  <1>6. ASSUME NEW s \in Current, NEW doc \in Sub,
               doc.cur = sub[s].cur,
               doc.plan # sub[s].plan => sub[s].nextAt # 0 /\ now >= sub[s].nextAt,
               LET held == [[req[r] EXCEPT !.at = Onward(o, TRUE)] EXCEPT !.s = s, !.was = sub[s], !.doc = doc]
               IN IF doc = sub[s] THEN Proceed(r, held) /\ UNCHANGED cache
                  ELSE Step(r, [held EXCEPT !.at = "save"]) /\ cache' = None
        PROVE  IInv' /\ PlanStep
    <2>. DEFINE q == [req[r] EXCEPT !.at = Onward(o, TRUE), !.s = s, !.was = sub[s], !.doc = doc]
                v == [req[r] EXCEPT !.at = "save", !.s = s, !.was = sub[s], !.doc = doc]
    <2>1. sub[s] \in Sub /\ s \in Row
      BY RowTypes DEF Current, IInv
    <2>2. /\ [[req[r] EXCEPT !.at = Onward(o, TRUE)] EXCEPT !.s = s, !.was = sub[s], !.doc = doc] = q
          /\ [q EXCEPT !.at = "save"] = v
      BY <1>1 DEF Request
    <2>3. /\ q \in Request
          /\ q.at = found /\ q.op = o /\ q.s = s /\ q.was = sub[s] /\ q.doc = doc
      BY <1>1, <1>8, <2>1, ZenonT(60) DEF Request, Label
    <2>6. /\ v \in Request
          /\ v.at = "save" /\ v.op = o /\ v.s = s /\ v.was = sub[s] /\ v.doc = doc
      BY <1>1, <2>1, ZenonT(60) DEF Request, Label
    <2>4. doc = sub[s] => Fits(q)
      <3>. HIDE DEF q, v, o, found
      <3>. QED
        BY <1>8, <2>1, <2>3, NoneIsNoRow DEF Fits
    <2>5. Fits(v)
      <3>. HIDE DEF q, v, o
      <3>. QED
        BY <1>1, <1>6, <2>1, <2>6 DEF Fits
    <2>. HIDE DEF q, v
    <2>. QED
      BY <1>1, <1>3, <1>4, <1>6, <2>2, <2>3, <2>4, <2>5, <2>6
  <1>7. ASSUME NEW s \in Current
        PROVE  LET doc == IF o = "grant" THEN sub[s] ELSE Lifecycle(sub[s])
               IN /\ doc \in Sub /\ doc.cur = sub[s].cur
                  /\ doc.plan # sub[s].plan => sub[s].nextAt # 0 /\ now >= sub[s].nextAt
    BY <1>1, RowTypes, LifecycleType DEF Current, IInv
  <1>. QED
    BY <1>5, <1>6, <1>7 DEF Find

LEMMA SaveKeeps == ASSUME IInv, NEW r \in Req, Save(r) PROVE IInv' /\ PlanStep
  <1>. DEFINE o == req[r].op
              label == Onward(o, TRUE)
              doc == req[r].doc
              q == [req[r] EXCEPT !.at = label, !.doc = doc, !.was = doc]
  <1>1. /\ req[r] \in Request /\ o \in OpName \ (ById \cup {"lose"})
        /\ req[r].s \in Row /\ req[r].was \in Sub /\ doc \in Sub /\ doc.cur = req[r].was.cur
        /\ doc.plan # req[r].was.plan => req[r].was.nextAt # 0 /\ now >= req[r].was.nextAt
        /\ ~At(r, "create")
    BY InHand DEF Save, At, Fits
  <1>2. /\ label \in {"idle", "fill", "retire", "act"}
        /\ label = "retire" => o = "grant"
        /\ label = "act" => o \in Changing \cup {"start"}
    BY <1>1, OnwardCases, ZenonT(60)
  <1>3. q.at = label /\ q.op = o /\ q.s = req[r].s /\ q.doc = doc /\ q.was = doc
    BY <1>1 DEF Request
  <1>4. Fits(q)
    <2>. HIDE DEF q, label, o, doc
    <2>. QED
      BY <1>1, <1>2, <1>3, NoneIsNoRow DEF Fits
  <1>5. label \in Label /\ label # "announce"
    BY <1>2 DEF Label
  <1>6. cache' \in CacheType
    BY InHand, LateType DEF Save, IInv
  <1>7. Store(r, doc, label) /\ UNCHANGED now
    BY DEF Save
  <1>8. doc.plan < req[r].was.plan => req[r].was.nextAt # 0 /\ now >= req[r].was.nextAt
    <2>1. doc.plan \in Nat /\ req[r].was.plan \in Nat
      BY <1>1, PlanType
    <2>. QED
      BY <1>1, <2>1
  <1>. HIDE DEF label, o, doc
  <1>. QED
    BY <1>1, <1>4, <1>5, <1>6, <1>7, <1>8, Stored

LEMMA BreakOffKeeps ==
    ASSUME IInv, NEW r \in Req, BreakOff(r), UNCHANGED now
    PROVE  IInv' /\ PlanStep
  <1>1. req[r].p = None /\ cache \in CacheType
    BY InHand DEF Request
  <1>2. /\ Step(r, Idle) /\ UNCHANGED <<now, sub>>
        /\ hazard' = hazard \cup {h \in {"stripped"} : At(r, "create") /\ req[r].doc # None}
        /\ cache' \in CacheType
    BY <1>1, LateType DEF BreakOff, Done, IInv
  <1>3. /\ hazard \subseteq hazard' /\ hazard' \subseteq {"overwrote", "stripped", "removed", "admin"}
        /\ At(r, "create") /\ req[r].doc # None => "stripped" \in hazard'
    BY <1>2, InHand
  <1>. QED
    BY <1>2, <1>3, IdleFits, Quiet

LEMMA LoadKeeps == ASSUME IInv, NEW r \in Req, Load(r) PROVE IInv' /\ PlanStep
  <1>1. req[r] \in Request /\ req[r].op \in ById /\ req[r].s \in Row /\ ~At(r, "create")
    BY InHand DEF Load, At, Fits
  <1>2. CASE sub[req[r].s] = None
    BY <1>2, BreakOffKeeps DEF Load
  <1>3. CASE sub[req[r].s] # None
    <2>. /\ UNCHANGED <<now, sub, cache, hazard>> /\ cache' \in CacheType
         /\ hazard' \subseteq {"overwrote", "stripped", "removed", "admin"}
      BY <1>3, InHand DEF Load
    <2>. DEFINE d == sub[req[r].s]
                q == [req[r] EXCEPT !.at = "act", !.was = d, !.doc = d]
    <2>1. d \in Sub
      BY <1>1, <1>3, RowTypes DEF Rows, IInv
    <2>2. q \in Request
      BY <1>1, <2>1 DEF Request, Label
    <2>3. q.at = "act" /\ q.op = req[r].op /\ q.s = req[r].s /\ q.was = d /\ q.doc = d
      BY <1>1 DEF Request
    <2>4. req[r].op \in Changing \cup {"start", "delete"}
      BY <1>1 DEF ById, Changing
    <2>5. Fits(q)
      <3>. HIDE DEF q, d
      <3>. QED
        BY <1>1, <2>1, <2>3, <2>4, NoneIsNoRow DEF Fits
    <2>6. Step(r, q)
      BY <1>3 DEF Load
    <2>. HIDE DEF q
    <2>. QED
      BY <1>1, <2>2, <2>5, <2>6, Quiet
  <1>. QED
    BY <1>2, <1>3

LEMMA ApplyKeeps == ASSUME IInv, NEW r \in Req, Apply(r) PROVE IInv' /\ PlanStep
  <1>. DEFINE d == req[r].doc
  <1>1. /\ req[r] \in Request /\ req[r].op \in Changing /\ ~At(r, "create")
        /\ d \in Sub /\ req[r].was = d /\ req[r].s \in Row /\ now \in Nat
        /\ UNCHANGED <<now, cache>> /\ cache' \in CacheType
        /\ hazard \subseteq {"overwrote", "stripped", "removed", "admin"}
    BY InHand DEF Apply, At, Fits, Request, Changing
  <1>2. CASE Answered(r)
    BY <1>1, <1>2, IdleFits, Quiet DEF Answered, Done
  <1>3. ASSUME NEW doc \in Result(req[r].op, d), Store(r, doc, "announce")
        PROVE  IInv' /\ PlanStep
    <2>1. /\ doc \in Sub
          /\ doc.cur = d.cur \/ doc.cur = TRUE
          /\ doc.plan # d.plan => doc.plan > d.plan
      BY <1>1, <1>3, ResultType
    <2>2. ~(doc.plan < d.plan)
      <3>1. doc.plan \in Nat /\ d.plan \in Nat
        BY <1>1, <2>1, PlanType
      <3>. QED
        BY <2>1, <3>1
    <2>. DEFINE q == [req[r] EXCEPT !.at = "announce", !.doc = None, !.was = None]
    <2>3. Fits(q)
      BY <1>1 DEF Request, Fits
    <2>4. "announce" \in Label
      BY DEF Label
    <2>. QED
      BY <1>1, <1>3, <2>1, <2>2, <2>3, <2>4, Stored
  <1>. QED
    BY <1>2, <1>3 DEF Apply

LEMMA RenewFailsKeeps == ASSUME IInv, NEW r \in Req, RenewFails(r) PROVE IInv' /\ PlanStep
  <1>1. /\ req[r] \in Request /\ req[r].s \in Row /\ ~At(r, "create") /\ now \in Nat
        /\ UNCHANGED <<now, sub, cache, hazard>> /\ cache' \in CacheType
        /\ hazard' \subseteq {"overwrote", "stripped", "removed", "admin"}
    BY InHand DEF RenewFails, At, Fits
  <1>. DEFINE q == [Idle EXCEPT !.op = "suspend", !.at = "load", !.s = req[r].s, !.day = now]
  <1>2. q \in Request /\ Fits(q)
    BY <1>1 DEF Idle, Request, Label, OpName, ByAdmin, ById, Fits
  <1>3. Step(r, q) \/ Step(r, Idle)
    BY DEF RenewFails, Done
  <1>. HIDE DEF q
  <1>. QED
    BY <1>1, <1>2, <1>3, IdleFits, Quiet

LEMMA StartKeeps == ASSUME IInv, NEW r \in Req, Start(r) PROVE IInv' /\ PlanStep
  <1>1. /\ req[r] \in Request /\ req[r].op = "start" /\ ~At(r, "create") /\ now \in Nat
        /\ req[r].doc # None => req[r].s \in Row /\ req[r].was = req[r].doc
        /\ UNCHANGED <<now, sub, cache, hazard>> /\ cache' \in CacheType
        /\ hazard' \subseteq {"overwrote", "stripped", "removed", "admin"}
    BY InHand DEF Start, At, Fits
  <1>2. CASE Done(r)
    BY <1>1, <1>2, IdleFits, Quiet DEF Done
  <1>3. ASSUME NEW plan \in Plan, NEW trial \in Nat, NEW st \in Status,
               Step(r, [req[r] EXCEPT !.new = Fresh(st, plan, trial, TRUE),
                                      !.at = IF req[r].doc = None THEN "create" ELSE "retire"])
        PROVE  IInv' /\ PlanStep
    <2>. DEFINE row == Fresh(st, plan, trial, TRUE)
                label == IF req[r].doc = None THEN "create" ELSE "retire"
                q == [req[r] EXCEPT !.new = row, !.at = label]
    <2>1. row \in Sub /\ row.cur
      BY <1>1, FreshType
    <2>2. label \in Label /\ label \in {"create", "retire"} /\ (label = "retire" => req[r].doc # None)
      BY DEF Label
    <2>. HIDE DEF row, label
    <2>3. q \in Request
      BY <1>1, <2>1, <2>2 DEF Request
    <2>4. /\ q.at = label /\ q.op = "start" /\ q.s = req[r].s /\ q.new = row
          /\ q.doc = req[r].doc /\ q.was = req[r].was
      BY <1>1 DEF Request
    <2>5. Fits(q)
      <3>1. req[r].doc # None => req[r].doc \in Sub
        BY <1>1 DEF Request
      <3>. HIDE DEF q
      <3>. QED
        BY <1>1, <2>1, <2>2, <2>4, <3>1 DEF Fits
    <2>6. Step(r, q)
      BY <1>3 DEF row, label
    <2>. HIDE DEF q
    <2>. QED
      BY <1>1, <2>3, <2>5, <2>6, Quiet
  <1>4. ASSUME ~Done(r)
        PROVE  \E plan \in Plan, trial \in Nat, st \in Status :
                 Step(r, [req[r] EXCEPT !.new = Fresh(st, plan, trial, TRUE),
                                        !.at = IF req[r].doc = None THEN "create" ELSE "retire"])
    <2>. DEFINE trial == IF TrialDays > 0 /\ ~HasUsedTrial THEN now + TrialDays ELSE 0
                st == CASE trial # 0 -> "trial" [] RequirePayment -> "pending" [] OTHER -> "active"
    <2>1. PICK plan \in Plan :
             Step(r, [req[r] EXCEPT !.new = Fresh(st, plan, trial, TRUE),
                                    !.at = IF req[r].doc = None THEN "create" ELSE "retire"])
      BY <1>4 DEF Start
    <2>2. trial \in Nat
      BY <1>1
    <2>. HIDE DEF trial
    <2>3. st \in Status
      BY DEF Status
    <2>. QED
      BY <2>1, <2>2, <2>3
  <1>. QED
    BY <1>2, <1>3, <1>4

LEMMA RetireKeeps == ASSUME IInv, NEW r \in Req, Retire(r) PROVE IInv' /\ PlanStep
  <1>. DEFINE d == req[r].doc
              doc == [d EXCEPT !.cur = FALSE]
              q == [req[r] EXCEPT !.at = "create", !.doc = doc, !.was = doc]
  <1>1. /\ req[r] \in Request /\ req[r].op \in {"start", "grant"} /\ ~At(r, "create")
        /\ req[r].s \in Row /\ d \in Sub /\ req[r].was = d
        /\ req[r].op = "start" => req[r].new \in Sub /\ req[r].new.cur
        /\ UNCHANGED <<now, cache>> /\ cache' \in CacheType
        /\ Store(r, doc, "create")
    BY InHand DEF Retire, At, Fits
  <1>2. doc \in Sub /\ doc.plan = d.plan /\ d.plan \in Nat
    BY <1>1 DEF Sub
  <1>3. q.at = "create" /\ q.op = req[r].op /\ q.new = req[r].new
    BY <1>1 DEF Request
  <1>4. Fits(q)
    <2>. HIDE DEF q
    <2>. QED
      BY <1>1, <1>3 DEF Fits
  <1>5. "create" \in Label /\ ~(doc.plan < d.plan)
    BY <1>2 DEF Label
  <1>. HIDE DEF doc
  <1>. QED
    BY <1>1, <1>2, <1>4, <1>5, Stored

\* A request that breaks off after the row it replaces gave way leaves its trace.
LEMMA CreateKeeps == ASSUME IInv, NEW r \in Req, Create(r) PROVE IInv' /\ PlanStep
  <1>1. At(r, "create") /\ UNCHANGED now /\ now \in Nat
    BY InHand DEF Create
  <1>2. CASE req[r].op = "start" /\ Insert(r, req[r].new) /\ UNCHANGED cache
    <2>1. req[r].new \in Sub /\ req[r].new.cur
      BY <1>1, <1>2, InHand DEF At, Fits
    <2>. QED
      BY <1>1, <1>2, <2>1, Inserted
  <1>3. CASE /\ UNCHANGED cache
             /\ \E st \in Status, plan \in Plan :
                  LET trial == IF st = "trial" THEN now + IF TrialDays > 1 THEN TrialDays ELSE 1 ELSE 0
                  IN Insert(r, Fresh(st, plan, trial, st # "pending"))
    <2>1. PICK st \in Status, plan \in Plan :
            LET trial == IF st = "trial" THEN now + IF TrialDays > 1 THEN TrialDays ELSE 1 ELSE 0
            IN Insert(r, Fresh(st, plan, trial, st # "pending"))
      BY <1>3
    <2>. DEFINE trial == IF st = "trial" THEN now + IF TrialDays > 1 THEN TrialDays ELSE 1 ELSE 0
    <2>2. trial \in Nat /\ (st # "pending") \in BOOLEAN
      BY <1>1
    <2>. HIDE DEF trial
    <2>3. LET row == Fresh(st, plan, trial, st # "pending") IN row \in Sub /\ row.cur
      BY <1>1, <2>2, FreshType
    <2>4. Insert(r, Fresh(st, plan, trial, st # "pending"))
      BY <2>1 DEF trial
    <2>. QED
      BY <1>1, <1>3, <2>3, <2>4, Inserted
  <1>4. CASE BreakOff(r)
    BY <1>1, <1>4, BreakOffKeeps
  <1>. QED
    BY <1>2, <1>3, <1>4 DEF Create

LEMMA DeleteKeeps == ASSUME IInv, NEW r \in Req, Delete(r) PROVE IInv' /\ PlanStep
  <1>. DEFINE s == req[r].s
              q == [req[r] EXCEPT !.at = "announce"]
  <1>1. /\ req[r] \in Request /\ s \in Row /\ ~At(r, "create")
        /\ sub' = [sub EXCEPT ![s] = None] /\ Step(r, q)
        /\ hazard' = IF s \in Rows THEN hazard \cup {"removed"} ELSE hazard
        /\ UNCHANGED <<now, cache>> /\ cache' \in CacheType
        /\ hazard \subseteq {"overwrote", "stripped", "removed", "admin"}
    BY InHand DEF Delete, At, Fits, Goto, Note
  <1>2. q \in Request /\ Fits(q)
    BY <1>1 DEF Request, Label, Fits
  <1>. HIDE DEF q
  <1>3. CASE s \notin Rows
    <2>1. sub' = sub
      BY <1>1, <1>3 DEF Rows, IInv, TypeOK
    <2>. QED
      BY <1>1, <1>2, <1>3, <2>1, Quiet
  <1>4. CASE s \in Rows
    <2>. req \in [Req -> Request] /\ req' = [req EXCEPT ![r] = q]
      BY <1>1 DEF IInv, TypeOK, Step
    <2>1. TypeOK'
      BY <1>1, <1>2 DEF IInv, TypeOK, CacheType
    <2>2. Shape'
      BY <1>1, <1>2 DEF IInv, Shape, Fits
    <2>3. Current' \subseteq Current
      BY <1>1 DEF Rows, Current, IInv, TypeOK
    <2>4. Unique' /\ Replaced'
      BY <1>1, <1>4, <2>3 DEF IInv, Unique, Replaced
    <2>5. ASSUME NEW t \in Row, sub[t] # None, sub'[t] # None, sub'[t].plan < sub[t].plan
          PROVE  FALSE
      BY <1>1, <2>5, RowTypes DEF IInv, Rows, TypeOK
    <2>. QED
      BY <2>1, <2>2, <2>4, <2>5 DEF IInv, PlanStep
  <1>. QED
    BY <1>3, <1>4

LEMMA AnswerKeeps == ASSUME IInv, NEW r \in Req, Announce(r) \/ Fill(r) PROVE IInv' /\ PlanStep
  <1>1. /\ Step(r, Idle) /\ UNCHANGED <<now, sub, hazard>> /\ ~At(r, "create")
        /\ hazard' \subseteq {"overwrote", "stripped", "removed", "admin"}
    BY InHand DEF Announce, Fill, Done, At
  <1>2. cache' \in CacheType
    <2>1. CASE Announce(r)
      BY <2>1 DEF Announce, CacheType
    <2>2. CASE Fill(r)
      <3>1. /\ (req[r].doc # None /\ Entitled(req[r].doc)) \in BOOLEAN
            /\ Stale(r) \in BOOLEAN
        BY Zenon DEF Entitled, Stale
      <3>2. \A on \in BOOLEAN, late \in BOOLEAN : [on |-> on, late |-> late] \in CacheType
        BY DEF CacheType
      <3>3. cache' = [on |-> req[r].doc # None /\ Entitled(req[r].doc), late |-> Stale(r)]
        BY <2>2 DEF Fill
      <3>. QED
        BY <3>1, <3>2, <3>3, Zenon
    <2>. QED
      BY <2>1, <2>2
  <1>. QED
    BY <1>1, <1>2, IdleFits, Quiet

\* The clock and the cache leave the rows and the requests alone.
LEMMA IdleKeeps ==
    ASSUME IInv, UNCHANGED <<sub, req, hazard>>, now' \in {now, now + 1}, now' \in 1 .. LastDay,
           cache' \in CacheType
    PROVE  IInv' /\ PlanStep
  <1>1. TypeOK'
    BY DEF IInv, TypeOK, CacheType
  <1>2. Shape'
    <2>1. ASSUME NEW r \in Req PROVE Fits(req[r])'
      <3>1. Fits(req[r]) /\ now \in Nat
        BY DEF IInv, Shape, TypeOK
      <3>2. req[r].at = "save" => req[r].was.nextAt \in Nat
        BY <3>1 DEF Fits, Sub
      <3>. QED
        BY <3>1, <3>2 DEF Fits
    <2>. QED
      BY <2>1 DEF Shape
  <1>3. Unique' /\ Replaced'
    BY DEF IInv, Unique, Replaced, Current, Rows, At
  <1>4. ASSUME NEW t \in Row, sub[t] # None PROVE ~(sub'[t].plan < sub[t].plan)
    BY <1>4, RowTypes DEF IInv, Rows
  <1>. QED
    BY <1>1, <1>2, <1>3, <1>4 DEF IInv, PlanStep

-----------------------------------------------------------------------------
(* The theorems.                                                           *)

LEMMA InitIInv == Init => IInv
  <1>. SUFFICES ASSUME Init PROVE IInv
    OBVIOUS
  <1>1. TypeOK
    BY IdleFits DEF Init, TypeOK
  <1>2. Shape
    BY IdleFits DEF Init, Shape
  <1>3. Rows = {} /\ Current = {}
    BY DEF Init, Rows, Current
  <1>. QED
    BY <1>1, <1>2, <1>3 DEF IInv, Unique, Replaced

LEMMA NextKeeps == IInv /\ [SubNext]_subVars => IInv' /\ PlanStep
  <1>. SUFFICES ASSUME IInv, [SubNext]_subVars PROVE IInv' /\ PlanStep
    OBVIOUS
  <1>0. now \in 1 .. LastDay /\ cache \in CacheType /\ None \in CacheType
    BY DEF IInv, TypeOK, CacheType
  <1>1. ASSUME NEW r \in Req, Begin(r) \/ Serve(r) \/ Lose(r) PROVE IInv' /\ PlanStep
    <2>1. CASE Begin(r)
      BY <2>1, BeginKeeps
    <2>2. CASE Serve(r)
      BY <2>2, FindKeeps, SaveKeeps, LoadKeeps, ApplyKeeps, RenewFailsKeeps, StartKeeps,
         RetireKeeps, CreateKeeps, DeleteKeeps, AnswerKeeps DEF Serve
    <2>3. CASE Lose(r)
      BY <2>3, BreakOffKeeps DEF Lose
    <2>. QED
      BY <1>1, <2>1, <2>2, <2>3
  <1>2. CASE Lapse
    BY <1>0, <1>2, IdleKeeps DEF Lapse
  <1>3. CASE Tick
    BY <1>0, <1>3, IdleKeeps, LateType DEF Tick, IInv
  <1>4. CASE UNCHANGED subVars
    BY <1>0, <1>4, IdleKeeps DEF subVars
  <1>. QED
    BY <1>1, <1>2, <1>3, <1>4 DEF SubNext

LEMMA Invariance == Spec => []IInv
  BY InitIInv, NextKeeps, PTL DEF Spec

\* Every variable has its type in every reachable state.
THEOREM TypeCorrect == Spec => []TypeOK
  <1>1. IInv => TypeOK
    BY DEF IInv
  <1>. QED
    BY <1>1, Invariance, PTL

\* The rows of a user never show two current subscriptions, and never none without
\* one of the reasons OneCurrent names, however many requests and rows there are.
THEOREM OneCurrentHolds == Spec => []OneCurrent
  <1>1. IInv => OneCurrent
    <2>. SUFFICES ASSUME IInv PROVE OneCurrent
      OBVIOUS
    <2>1. Cardinality(Current) <= 1
      BY AtMostOne DEF IInv, Unique
    <2>. QED
      BY <2>1 DEF IInv, Replaced, OneCurrent
  <1>. QED
    BY <1>1, Invariance, PTL

\* No interleaving of changes, renewals, readings and saves moves a row to a lesser plan
\* before the day of its schedule, unless a save overwrote another.
THEOREM PlanFallsWhenDueHolds == Spec => PlanFallsWhenDue
  <1>1. IInv /\ [SubNext]_subVars => PlanStep
    BY NextKeeps
  <1>2. [PlanStep]_subVars <=> [\A s \in Row : sub[s] # None /\ sub'[s] # None /\ sub'[s].plan < sub[s].plan
          => \/ sub[s].nextAt # 0 /\ now >= sub[s].nextAt
             \/ "overwrote" \in hazard']_subVars
    BY DEF PlanStep
  <1>. QED
    BY <1>1, <1>2, Invariance, PTL DEF Spec, PlanFallsWhenDue

-----------------------------------------------------------------------------
(* The cached entitlement.                                                 *)

\* Time has moved a row on once and for all until the clock moves.
LEMMA LifecycleIdempotent ==
    ASSUME NEW d \in Sub, now \in Nat
    PROVE  Lifecycle(Lifecycle(d)) = Lifecycle(d)
  <1>. DEFINE e == WithSchedule(d)
  <1>1. e \in Sub /\ ~(e.next # 0 /\ e.nextAt # 0 /\ now >= e.nextAt)
    BY DEF WithSchedule, Sub
  <1>. HIDE DEF e
  <1>2. Moved(e) \in Sub /\ Moved(e).next = e.next /\ Moved(e).nextAt = e.nextAt
        /\ Moved(Moved(e)) = Moved(e)
    <2>. now + Cycle \in Nat /\ now + GraceDays \in Nat /\ e.end + Cycle \in Nat
         /\ now + Cycle > now /\ now + GraceDays >= now
      BY <1>1 DEF Sub
    <2>1. CASE Moved(e) = e
      BY <1>1, <2>1
    <2>2. CASE Moved(e) = [e EXCEPT !.status = "pending"] \/ Moved(e) = [e EXCEPT !.status = "expired"]
      <3>1. /\ Moved(e) \in Sub /\ Moved(e).status \in {"pending", "expired"}
            /\ Moved(e).next = e.next /\ Moved(e).nextAt = e.nextAt
        BY <1>1, <2>2 DEF Sub, Status
      <3>2. ASSUME NEW f, f.status \in {"pending", "expired"} PROVE Moved(f) = f
        BY <3>2 DEF Moved
      <3>. QED
        BY <3>1, <3>2
    <2>3. CASE Moved(e) = Failed(e)
      <3>. DEFINE f == Failed(e)
      <3>1. f \in Sub /\ f.status = "suspended" /\ f.grace = now + GraceDays
            /\ f.next = e.next /\ f.nextAt = e.nextAt
        BY <1>1 DEF Failed, Sub, Status
      <3>. HIDE DEF f
      <3>2. Moved(f) = f
        BY <3>1 DEF Moved
      <3>. QED
        BY <2>3, <3>1, <3>2 DEF f
    <2>4. CASE Moved(e) = [e EXCEPT !.status = "active", !.start = now, !.end = now + Cycle]
               \/ Moved(e) = Extended(e)
      <3>. DEFINE f == Moved(e)
      <3>1. f \in Sub /\ f.status = "active" /\ f.end > now
            /\ f.next = e.next /\ f.nextAt = e.nextAt
        <4>1. CASE f = [e EXCEPT !.status = "active", !.start = now, !.end = now + Cycle]
          <5>. HIDE DEF f
          <5>. QED
            BY <1>1, <4>1 DEF Sub, Status
        <4>2. CASE f = Extended(e)
          <5>. HIDE DEF f
          <5>. DEFINE from == IF e.end > now THEN e.end ELSE now
          <5>1. from \in Nat /\ from + Cycle \in Nat /\ from + Cycle > now
            BY <1>1 DEF Sub
          <5>2. f = [e EXCEPT !.status = "active", !.start = from, !.end = from + Cycle, !.grace = 0]
            BY <4>2 DEF Extended
          <5>. HIDE DEF from
          <5>. QED
            BY <1>1, <5>1, <5>2 DEF Sub, Status
        <4>. QED
          BY <2>4, <4>1, <4>2
      <3>. HIDE DEF f
      <3>2. Moved(f) = f
        BY <3>1 DEF Moved, Sub
      <3>. QED
        BY <3>1, <3>2 DEF f
    <2>. QED
      BY <2>1, <2>2, <2>3, <2>4, Zenon DEF Moved
  <1>3. WithSchedule(Moved(e)) = Moved(e)
    BY <1>1, <1>2 DEF WithSchedule
  <1>. QED
    BY <1>2, <1>3 DEF Lifecycle, e

\* What a request has read, while the day is that on which it began.
Read(q) ==
    /\ q.day <= now
    /\ q.at = "find" => q.s = None /\ q.doc = None
    /\ q.at = "save" => q.was.cur /\ (q.day = now => q.doc = Lifecycle(q.was))
    /\ q.at = "act" /\ q.op = "start" /\ q.doc # None => q.doc.cur
    /\ q.at = "retire" => q.was.cur
    /\ q.at = "fill" =>
          \/ q.doc = None /\ q.s = None
          \/ /\ q.s \in Row /\ q.doc \in Sub /\ q.was = q.doc /\ q.doc.cur
             /\ q.day = now => Lifecycle(q.doc) = q.doc

Reads == \A r \in Req : Read(req[r])

Truth == \E s \in Current : Entitled(Lifecycle(sub[s]))

Announcing == \E r \in Req : At(r, "announce")
Replacing == \E r \in Req : At(r, "create") /\ req[r].doc # None

Cached == cache # None => cache.late \/ Announcing \/ (Current = {} /\ Replacing) \/ cache.on = Truth

LEMMA SameDay ==
    ASSUME UNCHANGED now
    PROVE  /\ \A d : Lifecycle(d)' = Lifecycle(d)
           /\ \A d : Entitled(d)' = Entitled(d)
  BY DEF Lifecycle, WithSchedule, Moved, Failed, Extended, Entitled

LEMMA SameTruth ==
    ASSUME UNCHANGED <<now, sub>>
    PROVE  Truth' = Truth /\ Current' = Current
  BY SameDay DEF Truth, Current, Rows

LEMMA ReadStep ==
    ASSUME IInv, Reads, NEW r \in Req, NEW q, Step(r, q), UNCHANGED now, Read(q)
    PROVE  Reads'
  <1>1. ASSUME NEW t \in Req PROVE Read(req[t])'
    <2>1. req'[t] = req[t] \/ req'[t] = q
      BY DEF Step, IInv, TypeOK
    <2>2. Read(req[t]) /\ Read(q)
      BY DEF Reads
    <2>3. ASSUME NEW p, Read(p), req'[t] = p PROVE Read(req[t])'
      BY <2>3, SameDay DEF Read
    <2>. QED
      BY <2>1, <2>2, <2>3
  <1>. QED
    BY <1>1 DEF Reads

LEMMA ReadIdle == ASSUME now \in Nat PROVE Read(Idle)
  BY DEF Read, Idle

\* A step that leaves the rows alone, and drops the cached entitlement or marks it when
\* a write goes unannounced.
LEMMA CacheQuiet ==
    ASSUME IInv, Cached, NEW r \in Req, NEW q, Step(r, q), UNCHANGED <<now, sub>>,
           cache' \in {cache, None, Late(cache)},
           At(r, "announce") \/ (At(r, "create") /\ Current = {} /\ req[r].doc # None)
               => cache' \in {None, Late(cache)}
    PROVE  Cached'
  <1>1. CASE cache' = None \/ (cache' = Late(cache) /\ cache # cache')
    BY <1>1 DEF Cached, Late, IInv, TypeOK
  <1>2. CASE cache' = cache /\ (cache = None \/ cache.late)
    BY <1>2 DEF Cached
  <1>3. CASE cache' = cache /\ cache # None /\ ~cache.late
    <2>1. ~At(r, "announce") /\ ~(At(r, "create") /\ Current = {} /\ req[r].doc # None)
      BY <1>3 DEF Late, IInv, TypeOK
    <2>2. \A t \in Req : t # r => req'[t] = req[t]
      BY DEF Step, IInv, TypeOK
    <2>3. Announcing => Announcing'
      BY <2>1, <2>2 DEF Announcing, At
    <2>4. Current = {} /\ Replacing => Current' = {} /\ Replacing'
      BY <2>1, <2>2, SameTruth DEF Replacing, At
    <2>5. Truth' = Truth
      BY SameTruth
    <2>. QED
      BY <1>3, <2>3, <2>4, <2>5, Zenon DEF Cached
  <1>. QED
    BY <1>1, <1>2, <1>3

\* A save that will be announced, or by which the current row gives way.
LEMMA CacheStored ==
    ASSUME IInv, Cached, NEW r \in Req, NEW doc \in Sub, NEW label \in {"announce", "create"},
           Store(r, doc, label), req[r].s \in Row, req[r].was \in Sub,
           ~At(r, "announce"), ~At(r, "create"), UNCHANGED <<now, cache>>,
           label = "create" => doc.cur = FALSE /\ req[r].was.cur = TRUE
    PROVE  Cached'
  <1>. DEFINE s == req[r].s
              held == IF label = "announce" THEN None ELSE doc
              q == [req[r] EXCEPT !.at = label, !.doc = held, !.was = held]
  <1>1. CASE UNCHANGED <<sub, hazard>> /\ Step(r, Idle)
    BY <1>1, CacheQuiet
  <1>2. ASSUME NEW row \in Sub, s \in Rows, Step(r, q), sub' = [sub EXCEPT ![s] = row],
               row.cur = IF doc.cur # req[r].was.cur THEN doc.cur ELSE sub[s].cur
        PROVE  Cached'
    <2>1. q.at = label /\ q.doc = held
      BY DEF IInv, TypeOK, Request
    <2>. HIDE DEF q
    <2>2. req'[r] = q /\ \A t \in Req : t # r => req'[t] = req[t]
      BY <1>2 DEF Step, IInv, TypeOK
    <2>3. CASE label = "announce"
      BY <2>1, <2>2, <2>3 DEF Cached, Announcing, At
    <2>4. CASE label = "create"
      <3>1. row.cur = FALSE
        BY <1>2, <2>4
      <3>2. Replacing'
        BY <2>1, <2>2, <2>4, NoneIsNoRow DEF Replacing, At
      <3>3. CASE s \in Current
        <4>1. Current' = {}
          BY <1>2, <3>1, <3>3 DEF Current, Rows, IInv, TypeOK, Unique
        <4>. QED
          BY <3>2, <4>1 DEF Cached
      <3>4. CASE s \notin Current
        <4>1. Current' = Current /\ \A t \in Current : sub'[t] = sub[t]
          BY <1>2, <3>1, <3>4, NoneIsNoRow DEF Current, Rows, IInv, TypeOK
        <4>2. Truth' = Truth
          BY <4>1, SameDay DEF Truth
        <4>3. Announcing => Announcing'
          BY <2>2 DEF Announcing, At
        <4>. QED
          BY <3>2, <4>1, <4>2, <4>3, Zenon DEF Cached
      <3>. QED
        BY <3>3, <3>4
    <2>. QED
      BY <2>3, <2>4
  <1>3. label \in Label
    BY DEF Label
  <1>4. \/ UNCHANGED <<sub, hazard>> /\ Step(r, Idle)
        \/ /\ s \in Rows
           /\ Step(r, q)
           /\ \E row \in Sub :
                 /\ sub' = [sub EXCEPT ![s] = row]
                 /\ row.cur = IF doc.cur # req[r].was.cur THEN doc.cur ELSE sub[s].cur
    BY <1>3, StoreCases DEF IInv
  <1>. QED
    BY <1>1, <1>2, <1>4

CacheInv == IInv /\ Reads /\ Cached

LEMMA BeginReads == ASSUME CacheInv, NEW r \in Req, Begin(r) PROVE Reads' /\ Cached'
  <1>1. now \in Nat /\ ~At(r, "announce") /\ ~At(r, "create") /\ UNCHANGED <<now, sub, cache>>
    BY InHand DEF Begin, At, CacheInv
  <1>2. PICK o \in Op, s \in Row \cup {None} :
           \/ Step(r, [Idle EXCEPT !.op = o, !.at = "find", !.day = now])
           \/ Step(r, [Idle EXCEPT !.op = o, !.at = "load", !.s = s, !.day = now])
    BY DEF Begin, Rows
  <1>3. /\ Read([Idle EXCEPT !.op = o, !.at = "find", !.day = now])
        /\ Read([Idle EXCEPT !.op = o, !.at = "load", !.s = s, !.day = now])
    BY <1>1 DEF Read, Idle
  <1>. QED
    BY <1>1, <1>2, <1>3, ReadStep, CacheQuiet DEF CacheInv

LEMMA FindReads == ASSUME CacheInv, NEW r \in Req, Find(r) PROVE Reads' /\ Cached'
  <1>. DEFINE o == req[r].op
              found == Onward(o, TRUE)
              lost == Onward(o, FALSE)
  <1>1. /\ req[r] \in Request /\ req[r].s = None /\ req[r].doc = None /\ now \in Nat
        /\ o \in OpName \ (ById \cup {"lose"}) /\ req[r].day <= now
        /\ ~At(r, "announce") /\ ~At(r, "create") /\ UNCHANGED <<now, sub>>
    BY InHand DEF Find, At, Fits, CacheInv, Reads, Read
  <1>2. /\ found \in {"idle", "fill", "retire", "act"}
        /\ lost \in {"idle", "fill", "create", "act"}
    BY <1>1, OnwardCases
  <1>3. ASSUME NEW q, Read(q), Step(r, q) \/ Proceed(r, q), cache' \in {cache, None}
        PROVE  Reads' /\ Cached'
    BY <1>1, <1>3, ReadIdle, ReadStep, CacheQuiet DEF CacheInv, Proceed
  <1>4. CASE /\ Current = {}
             /\ Proceed(r, [req[r] EXCEPT !.at = lost])
             /\ UNCHANGED cache
    <2>. DEFINE q == [req[r] EXCEPT !.at = lost]
    <2>1. q.at = lost /\ q.s = None /\ q.doc = None /\ q.day = req[r].day
      BY <1>1 DEF Request
    <2>. HIDE DEF q, lost, o
    <2>2. Read(q)
      BY <1>1, <1>2, <2>1 DEF Read
    <2>. QED
      BY <1>3, <1>4, <2>2 DEF q
  <1>5. ASSUME NEW s \in Current, NEW doc,
               doc = sub[s] \/ doc = Lifecycle(sub[s]),
               LET held == [[req[r] EXCEPT !.at = found] EXCEPT !.s = s, !.was = sub[s], !.doc = doc]
               IN IF doc = sub[s] THEN Proceed(r, held) /\ UNCHANGED cache
                  ELSE Step(r, [held EXCEPT !.at = "save"]) /\ cache' = None,
               found = "fill" => doc = Lifecycle(sub[s])
        PROVE  Reads' /\ Cached'
    <2>. DEFINE held == [[req[r] EXCEPT !.at = found] EXCEPT !.s = s, !.was = sub[s], !.doc = doc]
                v == [held EXCEPT !.at = "save"]
    <2>1. sub[s] \in Sub /\ s \in Row /\ sub[s].cur
      BY RowTypes DEF Current, CacheInv, IInv
    <2>2. /\ held.at = found /\ held.s = s /\ held.was = sub[s] /\ held.doc = doc /\ held.day = req[r].day
          /\ v.at = "save" /\ v.was = sub[s] /\ v.doc = doc /\ v.day = req[r].day
      BY <1>1 DEF Request
    <2>. HIDE DEF held, v, found, o
    <2>3. doc = sub[s] => Read(held)
      BY <1>1, <1>2, <1>5, <2>1, <2>2 DEF Read
    <2>4. doc # sub[s] => Read(v)
      BY <1>1, <1>5, <2>1, <2>2 DEF Read
    <2>. QED
      BY <1>3, <1>5, <2>3, <2>4 DEF held, v
  <1>6. found = "fill" => o # "grant"
    BY DEF Onward
  <1>. QED
    BY <1>4, <1>5, <1>6 DEF Find

LEMMA SaveReads == ASSUME CacheInv, NEW r \in Req, Save(r) PROVE Reads' /\ Cached'
  <1>. DEFINE o == req[r].op
              s == req[r].s
              was == req[r].was
              label == Onward(o, TRUE)
              doc == req[r].doc
              q == [req[r] EXCEPT !.at = label, !.doc = doc, !.was = doc]
  <1>1. /\ req[r] \in Request /\ o \in OpName \ (ById \cup {"lose"})
        /\ s \in Row /\ was \in Sub /\ doc \in Sub /\ doc.cur = was.cur /\ was.cur
        /\ req[r].day <= now /\ (req[r].day = now => doc = Lifecycle(was))
        /\ ~At(r, "announce") /\ ~At(r, "create") /\ now \in Nat /\ UNCHANGED now
        /\ Store(r, doc, label)
    BY InHand DEF Save, At, Fits, CacheInv, Reads, Read
  <1>2. label \in {"idle", "fill", "retire", "act"} /\ label \in Label /\ label # "announce"
    <2>1. label \in {"idle", "fill", "retire", "act"}
      BY <1>1, OnwardCases
    <2>. HIDE DEF label
    <2>. QED
      BY <2>1 DEF Label
  <1>3. q.at = label /\ q.op = o /\ q.s = s /\ q.doc = doc /\ q.was = doc /\ q.day = req[r].day
    BY <1>1 DEF Request
  <1>. HIDE DEF q, label, o
  <1>4. Read(q)
    <2>1. req[r].day = now => Lifecycle(doc) = doc
      BY <1>1, LifecycleIdempotent
    <2>. QED
      BY <1>1, <1>2, <1>3, <2>1 DEF Read
  <1>5. Step(r, q) \/ Step(r, Idle)
    BY <1>1, <1>2 DEF Store, Done, q
  <1>6. Reads'
    BY <1>1, <1>4, <1>5, ReadIdle, ReadStep DEF CacheInv
  <1>7. CASE Stale(r)
    <2>1. cache' = Late(cache)
      BY <1>7 DEF Save
    <2>2. cache' = None \/ cache'.late = TRUE
      BY <2>1 DEF Late, CacheInv, IInv, TypeOK
    <2>. QED
      BY <1>6, <2>2 DEF Cached
  <1>8. CASE ~Stale(r)
    <2>1. req[r].day = now /\ sub[s] = was /\ doc = Lifecycle(was)
      BY <1>1, <1>8, NoneIsNoRow DEF Stale
    <2>2. s \in Current /\ Current = {s}
      BY <1>1, <2>1, NoneIsNoRow DEF Current, Rows, CacheInv, IInv, Unique
    <2>3. Merge(was, was, doc) = doc
      BY <1>1 DEF Merge, Sub
    <2>4. sub' = [sub EXCEPT ![s] = doc]
      BY <1>1, <2>1, <2>2, <2>3, NoneIsNoRow DEF Store, Storable, IndexAllows
    <2>5. sub'[s] = doc /\ Current' = {s}
      BY <1>1, <2>2, <2>4, NoneIsNoRow DEF Current, Rows, CacheInv, IInv, TypeOK
    <2>. HIDE DEF s, was, doc
    <2>7. Lifecycle(doc) = Lifecycle(was)
      BY <1>1, <2>1, LifecycleIdempotent
    <2>6. PICK c : c = s
      OBVIOUS
    <2>10. Truth' = Truth
      <3>1. Truth <=> Entitled(Lifecycle(sub[c]))
        BY <2>2, <2>6 DEF Truth
      <3>2. Truth' <=> Entitled(Lifecycle(sub[c]))'
        BY <2>5, <2>6 DEF Truth
      <3>3. Lifecycle(sub[c]) = Lifecycle(was) /\ Lifecycle(sub[c])' = Lifecycle(was)
        BY <1>1, <2>1, <2>5, <2>6, <2>7, SameDay
      <3>4. Entitled(Lifecycle(sub[c]))' <=> Entitled(Lifecycle(was))
        BY <1>1, <3>3, SameDay
      <3>5. Truth' <=> Truth
        BY <3>1, <3>2, <3>3, <3>4
      <3>. QED
        BY <3>5 DEF Truth
    <2>8. Announcing => Announcing'
      BY <1>1, <1>5 DEF Announcing, At, Step, CacheInv, IInv, TypeOK
    <2>9. UNCHANGED cache
      BY <1>8 DEF Save
    <2>. QED
      BY <1>6, <2>2, <2>8, <2>9, <2>10 DEF CacheInv, Cached
  <1>. QED
    BY <1>6, <1>7, <1>8 DEF Cached

LEMMA BreakOffReads ==
    ASSUME CacheInv, NEW r \in Req, BreakOff(r), UNCHANGED now
    PROVE  Reads' /\ Cached'
  <1>1. /\ Step(r, Idle) /\ UNCHANGED <<now, sub>> /\ now \in Nat
        /\ cache' = IF At(r, "announce") \/ At(r, "create") THEN Late(cache) ELSE cache
    BY InHand DEF BreakOff, Done, CacheInv
  <1>. QED
    BY <1>1, ReadIdle, ReadStep, CacheQuiet DEF CacheInv

LEMMA LoadReads == ASSUME CacheInv, NEW r \in Req, Load(r) \/ RenewFails(r) PROVE Reads' /\ Cached'
  <1>1. /\ req[r] \in Request /\ req[r].day <= now /\ now \in Nat
        /\ ~At(r, "announce") /\ ~At(r, "create")
    BY InHand DEF Load, RenewFails, At, CacheInv, Reads, Read
  <1>2. ASSUME NEW q, Read(q), Step(r, q), UNCHANGED <<now, sub, cache>>
        PROVE  Reads' /\ Cached'
    BY <1>1, <1>2, ReadStep, CacheQuiet DEF CacheInv
  <1>3. CASE Load(r)
    <2>. DEFINE d == sub[req[r].s]
                q == [req[r] EXCEPT !.at = "act", !.was = d, !.doc = d]
    <2>1. req[r].op \in ById
      BY <1>3, InHand DEF Load, At, Fits, CacheInv
    <2>2. Read(q)
      BY <1>1, <2>1 DEF Request, Read, ById
    <2>3. CASE sub[req[r].s] = None
      BY <1>3, <2>3, BreakOffReads DEF Load
    <2>4. CASE sub[req[r].s] # None
      <3>1. Step(r, q) /\ UNCHANGED <<now, sub, cache>>
        BY <1>3, <2>4 DEF Load
      <3>. QED
        BY <1>2, <2>2, <3>1
    <2>. QED
      BY <2>3, <2>4
  <1>4. CASE RenewFails(r)
    <2>. DEFINE q == [Idle EXCEPT !.op = "suspend", !.at = "load", !.s = req[r].s, !.day = now]
    <2>1. Read(q)
      BY <1>1 DEF Idle, Read
    <2>2. (Step(r, Idle) \/ Step(r, q)) /\ UNCHANGED <<now, sub, cache>>
      BY <1>4 DEF RenewFails, Done
    <2>. QED
      BY <1>1, <1>2, <2>1, <2>2, ReadIdle
  <1>. QED
    BY <1>3, <1>4

LEMMA ApplyReads == ASSUME CacheInv, NEW r \in Req, Apply(r) PROVE Reads' /\ Cached'
  <1>. DEFINE d == req[r].doc
  <1>1. /\ req[r] \in Request /\ req[r].op \in Changing
        /\ ~At(r, "announce") /\ ~At(r, "create")
        /\ d \in Sub /\ req[r].was = d /\ req[r].s \in Row /\ now \in Nat /\ req[r].day <= now
        /\ UNCHANGED <<now, cache>>
    BY InHand DEF Apply, At, Fits, Request, Changing, CacheInv, Reads, Read
  <1>2. CASE Answered(r)
    BY <1>1, <1>2, ReadIdle, ReadStep, CacheQuiet DEF Answered, Done, CacheInv
  <1>3. ASSUME NEW doc \in Result(req[r].op, d), Store(r, doc, "announce")
        PROVE  Reads' /\ Cached'
    <2>1. doc \in Sub
      BY <1>1, <1>3, ResultType
    <2>2. Cached'
      BY <1>1, <1>3, <2>1, CacheStored DEF CacheInv
    <2>. DEFINE q == [req[r] EXCEPT !.at = "announce", !.doc = None, !.was = None]
    <2>3. Read(q)
      BY <1>1 DEF Request, Read
    <2>4. Step(r, q) \/ Step(r, Idle)
      BY <1>3 DEF Store, Done
    <2>. QED
      BY <1>1, <2>2, <2>3, <2>4, ReadIdle, ReadStep DEF CacheInv
  <1>. QED
    BY <1>2, <1>3 DEF Apply

LEMMA StartReads == ASSUME CacheInv, NEW r \in Req, Start(r) PROVE Reads' /\ Cached'
  <1>1. /\ req[r] \in Request /\ req[r].day <= now /\ now \in Nat
        /\ ~At(r, "announce") /\ ~At(r, "create") /\ UNCHANGED <<now, sub, cache>>
        /\ req[r].doc # None => req[r].doc.cur /\ req[r].was = req[r].doc
    BY InHand DEF Start, At, Fits, CacheInv, Reads, Read
  <1>. DEFINE label == IF req[r].doc = None THEN "create" ELSE "retire"
  <1>2. Step(r, Idle) \/ \E row : Step(r, [req[r] EXCEPT !.new = row, !.at = label])
    BY DEF Start, Done
  <1>3. ASSUME NEW row PROVE Read([req[r] EXCEPT !.new = row, !.at = label])
    BY <1>1 DEF Request, Read
  <1>. QED
    BY <1>1, <1>2, <1>3, ReadIdle, ReadStep, CacheQuiet DEF CacheInv

LEMMA RetireReads == ASSUME CacheInv, NEW r \in Req, Retire(r) PROVE Reads' /\ Cached'
  <1>. DEFINE d == req[r].doc
              doc == [d EXCEPT !.cur = FALSE]
              q == [req[r] EXCEPT !.at = "create", !.doc = doc, !.was = doc]
  <1>1. /\ req[r] \in Request /\ ~At(r, "announce") /\ ~At(r, "create")
        /\ req[r].s \in Row /\ d \in Sub /\ req[r].was = d /\ d.cur
        /\ req[r].day <= now /\ now \in Nat
        /\ UNCHANGED <<now, cache>> /\ Store(r, doc, "create")
    BY InHand DEF Retire, At, Fits, CacheInv, Reads, Read
  <1>2. doc \in Sub /\ doc.cur = FALSE /\ d.cur = TRUE
    BY <1>1 DEF Sub
  <1>3. Read(q)
    <2>1. q.at = "create" /\ q.day = req[r].day
      BY <1>1 DEF Request
    <2>. HIDE DEF q
    <2>. QED
      BY <1>1, <2>1 DEF Read
  <1>4. Step(r, q) \/ Step(r, Idle)
    BY <1>1 DEF Store, Done
  <1>5. Reads'
    BY <1>1, <1>3, <1>4, ReadIdle, ReadStep DEF CacheInv
  <1>. HIDE DEF doc
  <1>6. Cached'
    BY <1>1, <1>2, CacheStored DEF CacheInv
  <1>. QED
    BY <1>5, <1>6

LEMMA InsertReads ==
    ASSUME CacheInv, NEW r \in Req, At(r, "create"), NEW row, Insert(r, row), UNCHANGED <<now, cache>>
    PROVE  Reads' /\ Cached'
  <1>1. req[r] \in Request /\ req[r].day <= now /\ now \in Nat /\ ~At(r, "announce")
    BY InHand DEF CacheInv, Reads, Read, At
  <1>2. CASE Current # {}
    BY <1>1, <1>2, ReadIdle, ReadStep, CacheQuiet DEF Insert, Answered, Done, CacheInv
  <1>3. CASE Current = {}
    <2>1. PICK s \in Row : Step(r, [req[r] EXCEPT !.at = "announce", !.s = s, !.was = None,
                                                  !.doc = None, !.new = None])
      BY <1>3 DEF Insert
    <2>. DEFINE q == [req[r] EXCEPT !.at = "announce", !.s = s, !.was = None, !.doc = None, !.new = None]
    <2>2. q.at = "announce" /\ q.day = req[r].day
      BY <1>1 DEF Request
    <2>. HIDE DEF q
    <2>3. Step(r, q)
      BY <2>1 DEF q
    <2>4. Read(q)
      BY <1>1, <2>2 DEF Read
    <2>5. Announcing'
      BY <2>2, <2>3 DEF Announcing, At, Step, CacheInv, IInv, TypeOK
    <2>. QED
      BY <2>3, <2>4, <2>5, ReadStep DEF CacheInv, Cached
  <1>. QED
    BY <1>2, <1>3

LEMMA CreateReads == ASSUME CacheInv, NEW r \in Req, Create(r) PROVE Reads' /\ Cached'
  <1>1. At(r, "create") /\ UNCHANGED now
    BY DEF Create
  <1>2. (\E row : Insert(r, row) /\ UNCHANGED cache) \/ BreakOff(r)
    BY DEF Create
  <1>. QED
    BY <1>1, <1>2, InsertReads, BreakOffReads

LEMMA DeleteReads == ASSUME CacheInv, NEW r \in Req, Delete(r) PROVE Reads' /\ Cached'
  <1>. DEFINE q == [req[r] EXCEPT !.at = "announce"]
  <1>1. req[r] \in Request /\ req[r].day <= now /\ Step(r, q) /\ UNCHANGED now
    BY InHand DEF Delete, Goto, CacheInv, Reads, Read
  <1>2. q.at = "announce" /\ q.day = req[r].day
    BY <1>1 DEF Request
  <1>. HIDE DEF q
  <1>3. Read(q)
    BY <1>1, <1>2 DEF Read
  <1>4. Announcing'
    BY <1>1, <1>2 DEF Announcing, At, Step, CacheInv, IInv, TypeOK
  <1>. QED
    BY <1>1, <1>3, <1>4, ReadStep DEF CacheInv, Cached

LEMMA AnnounceReads == ASSUME CacheInv, NEW r \in Req, Announce(r) PROVE Reads' /\ Cached'
  <1>1. cache' = None /\ Step(r, Idle) /\ UNCHANGED now /\ now \in Nat
    BY InHand DEF Announce, Done, CacheInv
  <1>. QED
    BY <1>1, ReadIdle, ReadStep DEF CacheInv, Cached

LEMMA FillReads == ASSUME CacheInv, NEW r \in Req, Fill(r) PROVE Reads' /\ Cached'
  <1>1. /\ Step(r, Idle) /\ UNCHANGED <<now, sub>> /\ now \in Nat
        /\ cache' = [on |-> req[r].doc # None /\ Entitled(req[r].doc), late |-> Stale(r)]
        /\ Read(req[r]) /\ At(r, "fill")
    BY InHand DEF Fill, Done, CacheInv, Reads
  <1>2. Reads'
    BY <1>1, ReadIdle, ReadStep DEF CacheInv
  <1>3. CASE Stale(r)
    <2>1. cache'.late = Stale(r)
      BY <1>1
    <2>2. cache'.late
      BY <1>3, <2>1, Zenon
    <2>. QED
      BY <1>2, <2>2 DEF Cached
  <1>4. CASE ~Stale(r)
    <2>1. PICK d, s : d = req[r].doc /\ s = req[r].s
      OBVIOUS
    <2>2. (d # None /\ Entitled(d)) <=> Truth
      <3>1. CASE d = None /\ s = None
        BY <1>4, <2>1, <3>1 DEF Stale, Truth
      <3>2. CASE /\ s \in Row /\ d \in Sub /\ req[r].was = d /\ d.cur
                 /\ req[r].day = now => Lifecycle(d) = d
        <4>1. sub[s] = d /\ Lifecycle(d) = d
          BY <1>4, <2>1, <3>2, NoneIsNoRow DEF Stale
        <4>2. Current = {s}
          BY <3>2, <4>1, NoneIsNoRow DEF Current, Rows, CacheInv, IInv, Unique
        <4>. QED
          BY <3>2, <4>1, <4>2, NoneIsNoRow DEF Truth
      <3>. QED
        BY <1>1, <2>1, <3>1, <3>2 DEF Read, At
    <2>3. Truth' = Truth
      BY <1>1, SameTruth
    <2>4. cache'.on = Truth
      <3>1. cache'.on <=> Truth
        BY <1>1, <2>1, <2>2
      <3>2. cache'.on \in BOOLEAN /\ Truth \in BOOLEAN
        BY <1>1 DEF Truth
      <3>. QED
        BY <3>1, <3>2
    <2>. QED
      BY <1>2, <2>3, <2>4 DEF Cached
  <1>. QED
    BY <1>2, <1>3, <1>4 DEF Cached

\* Once the day turns the cached entitlement is known to be old.
LEMMA IdleReads ==
    ASSUME CacheInv, UNCHANGED <<sub, req>>,
           \/ UNCHANGED now /\ cache' \in {cache, None}
           \/ now' = now + 1 /\ cache' = Late(cache)
    PROVE  Reads' /\ Cached'
  <1>1. now \in Nat /\ \A r \in Req : Read(req[r]) /\ req[r].day \in Nat
    BY DEF CacheInv, IInv, TypeOK, Reads, Request
  <1>2. CASE UNCHANGED now /\ cache' \in {cache, None}
    <2>1. ASSUME NEW r \in Req PROVE Read(req[r])'
      BY <1>1, <1>2, SameDay DEF Read
    <2>2. Cached'
      BY <1>2, SameTruth DEF CacheInv, Cached, Announcing, Replacing, At
    <2>. QED
      BY <2>1, <2>2 DEF Reads
  <1>3. CASE now' = now + 1 /\ cache' = Late(cache)
    <2>1. ASSUME NEW r \in Req PROVE Read(req[r])'
      <3>1. req[r].day # now' /\ req[r].day <= now'
        BY <1>1, <1>3 DEF Read
      <3>. QED
        BY <1>1, <3>1 DEF Read
    <2>2. cache' = None \/ cache'.late = TRUE
      BY <1>3 DEF Late, CacheInv, IInv, TypeOK
    <2>. QED
      BY <2>1, <2>2 DEF Reads, Cached
  <1>. QED
    BY <1>2, <1>3

LEMMA CacheNext == CacheInv /\ [SubNext]_subVars => CacheInv'
  <1>. SUFFICES ASSUME CacheInv, [SubNext]_subVars PROVE Reads' /\ Cached'
    BY NextKeeps DEF CacheInv
  <1>1. ASSUME NEW r \in Req, Begin(r) \/ Serve(r) \/ Lose(r) PROVE Reads' /\ Cached'
    <2>1. CASE Begin(r)
      BY <2>1, BeginReads
    <2>2. CASE Serve(r)
      BY <2>2, FindReads, SaveReads, LoadReads, ApplyReads, StartReads, RetireReads,
         CreateReads, DeleteReads, AnnounceReads, FillReads DEF Serve
    <2>3. CASE Lose(r)
      BY <2>3, BreakOffReads DEF Lose
    <2>. QED
      BY <1>1, <2>1, <2>2, <2>3
  <1>2. CASE Lapse
    BY <1>2, IdleReads DEF Lapse
  <1>3. CASE Tick
    BY <1>3, IdleReads DEF Tick
  <1>4. CASE UNCHANGED subVars
    BY <1>4, IdleReads DEF subVars
  <1>. QED
    BY <1>1, <1>2, <1>3, <1>4 DEF SubNext

LEMMA InitCache == Init => CacheInv
  <1>. SUFFICES ASSUME Init PROVE CacheInv
    OBVIOUS
  <1>1. now \in Nat /\ cache = None /\ \A r \in Req : req[r] = Idle
    BY DEF Init
  <1>2. Reads /\ Cached
    BY <1>1, ReadIdle DEF Reads, Cached
  <1>. QED
    BY <1>2, InitIInv DEF CacheInv

\* Whatever requests run at once, what the API takes for the entitlement of a user is
\* what the rows say, except for the reasons CacheIsTrue names.
THEOREM CacheIsTrueHolds == Spec => []CacheIsTrue
  <1>1. Init => CacheInv
    BY InitCache
  <1>2. CacheInv => CacheIsTrue
    BY DEF CacheInv, Cached, CacheIsTrue, Announcing, Replacing, Truth
  <1>. QED
    BY <1>1, <1>2, CacheNext, PTL DEF Spec

-----------------------------------------------------------------------------
(* One trial.                                                              *)

\* Nothing of a subscription that began today has ended.
Young(d) ==
    /\ d.status # "expired"
    /\ d.end >= now
    /\ d.trial = 0 \/ d.trial >= now
    /\ d.grace = 0 \/ d.grace >= now

Tried == {s \in Rows : sub[s].tried}

\* About to insert a row with a trial.
Trying(q) == q.at \in {"retire", "create"} /\ q.op = "start" /\ q.new.tried

\* Nothing but the row a start inserts begins a trial, and a row that blocks does not give way.
Own(q) ==
    /\ q.at # "idle" => q.op \notin {"grant", "patch"}
    /\ q.doc # None => /\ q.s \in Rows /\ q.was \in Sub /\ q.doc \in Sub
                       /\ q.doc.tried = q.was.tried
    /\ q.at = "retire" => ~Blocks(q.doc)
    /\ Trying(q) => Young(q.new)

Careful(q) == q.doc # None /\ q.s \in Tried => Young(q.doc) /\ q.doc.cur

\* A row that had a trial is still the current one, whatever is saved into it.
Ripe ==
    /\ \A s \in Tried : Young(sub[s]) /\ sub[s].cur
    /\ \A r \in Req : Careful(req[r])

Trials ==
    /\ \A s, t \in Tried : s = t
    /\ \A r \in Req : Own(req[r])
    /\ (\E r \in Req : Trying(req[r])) => Ripe

Unaided == "removed" \notin hazard /\ Op \cap {"grant", "patch"} = {}

TrialInv == IInv /\ (Unaided => Trials)

LEMMA YoungBlocks == ASSUME NEW d \in Sub, Young(d), now \in Nat PROVE Blocks(d)
  BY DEF Sub, Status, Young, Blocks

\* Time does not end what began today, and gives no trial.
LEMMA YoungLifecycle ==
    ASSUME NEW d \in Sub, now \in Nat
    PROVE  /\ Lifecycle(d).tried = d.tried
           /\ Young(d) => Young(Lifecycle(d))
  <1>1. PICK e : e = WithSchedule(d)
    OBVIOUS
  <1>2. /\ e \in Sub /\ e.tried = d.tried
        /\ Young(d) => Young(e)
    BY <1>1 DEF WithSchedule, Sub, Young
  <1>3. Moved(e).tried = e.tried
    <2>1. Failed(e).tried = e.tried
      BY <1>2 DEF Failed, Sub
    <2>2. Extended(e).tried = e.tried
      BY <1>2 DEF Extended, Sub
    <2>3. \A st \in Status : [e EXCEPT !.status = st].tried = e.tried
      BY <1>2 DEF Sub
    <2>4. [e EXCEPT !.status = "active", !.start = now, !.end = now + Cycle].tried = e.tried
      BY <1>2 DEF Sub
    <2>. QED
      BY <2>1, <2>2, <2>3, <2>4 DEF Moved, Status
  <1>4. Young(e) => Moved(e) = e
    <2>. SUFFICES ASSUME Young(e) PROVE Moved(e) = e
      OBVIOUS
    <2>1. e.end \in Nat /\ e.trial \in Nat /\ e.grace \in Nat
      BY <1>2 DEF Sub
    <2>2. /\ ~(e.trial # 0 /\ now > e.trial)
          /\ ~(now > e.end)
          /\ ~(e.grace # 0 /\ now > e.grace)
      BY <2>1 DEF Young
    <2>. QED
      BY <2>2, Zenon DEF Moved
  <1>. QED
    BY <1>1, <1>2, <1>3, <1>4 DEF Lifecycle

\* Nor does anything but an administrator's patch.
LEMMA YoungResult ==
    ASSUME NEW d \in Sub, now \in Nat, NEW o \in Changing \ {"patch"}, NEW e \in Result(o, d)
    PROVE  /\ e.tried = d.tried
           /\ Young(d) => Young(e)
           /\ d.cur => e.cur
  <1>. /\ now + Cycle \in Nat /\ now + GraceDays \in Nat /\ d.end + Cycle \in Nat
       /\ Plan \subseteq Nat
    BY DEF Sub
  <1>1. CASE o = "change"
    <2>1. e \in Changed(d)
      BY <1>1 DEF Result
    <2>2. PICK q \in Plan : e = IF q > d.plan THEN [d EXCEPT !.plan = q, !.next = 0, !.nextAt = 0]
                                ELSE [d EXCEPT !.next = q, !.nextAt = d.end]
      BY <2>1 DEF Changed
    <2>. QED
      BY <2>2 DEF Sub, Young
  <1>2. CASE o = "cancel"
    <2>1. e = [d EXCEPT !.status = "cancelled", !.atEnd = TRUE, !.auto = FALSE,
                        !.next = 0, !.nextAt = 0]
      BY <1>2, Zenon DEF Result, Cancelled
    <2>. QED
      BY <2>1 DEF Sub, Young
  <1>3. CASE o = "resume"
    <2>1. PICK st \in {"trial", "active"} :
            e = [d EXCEPT !.status = st, !.atEnd = FALSE, !.auto = TRUE]
      BY <1>3, Zenon DEF Result, Resumed
    <2>. QED
      BY <2>1 DEF Sub, Young
  <1>4. CASE o = "renew"
    <2>1. e = Extended(d)
      BY <1>4, Zenon DEF Result, Renewed
    <2>. QED
      BY <2>1 DEF Extended, Sub, Young
  <1>5. CASE o = "suspend"
    <2>1. e = Failed(d)
      BY <1>5, Zenon DEF Result
    <2>. QED
      BY <2>1 DEF Failed, Sub, Young
  <1>6. CASE o = "unsuspend"
    <2>. DEFINE on == [d EXCEPT !.status = "active", !.grace = 0]
    <2>1. e = on \/ e = [on EXCEPT !.start = now, !.end = now + Cycle]
      BY <1>6, Zenon DEF Result, Unsuspended
    <2>2. on \in Sub /\ on.cur = d.cur /\ on.tried = d.tried /\ (Young(d) => Young(on))
      BY DEF Sub, Status, Young
    <2>. HIDE DEF on
    <2>3. CASE e = [on EXCEPT !.start = now, !.end = now + Cycle]
      <3>1. /\ e.status = on.status /\ e.end = now + Cycle /\ e.trial = on.trial /\ e.grace = on.grace
            /\ e.tried = on.tried /\ e.cur = on.cur
        BY <2>2, <2>3 DEF Sub
      <3>. QED
        BY <2>2, <3>1 DEF Young
    <2>. QED
      BY <2>1, <2>2, <2>3
  <1>7. CASE o = "activate"
    <2>. DEFINE on == [d EXCEPT !.status = "active", !.ref = "admin", !.auto = TRUE, !.atEnd = FALSE,
                                !.grace = 0, !.cur = TRUE]
                from == IF d.status = "active" /\ d.end > now THEN d.end ELSE now
    <2>1. e = on \/ e = [on EXCEPT !.start = from, !.end = from + Cycle]
      BY <1>7, Zenon DEF Result, Activated
    <2>2. on \in Sub /\ on.cur = TRUE /\ on.tried = d.tried /\ (Young(d) => Young(on))
      BY DEF Sub, Status, Young
    <2>3. from \in Nat /\ from + Cycle \in Nat /\ from + Cycle >= now
      BY DEF Sub
    <2>. HIDE DEF on, from
    <2>. QED
      BY <2>1, <2>2, <2>3, ZenonT(60) DEF Sub, Young
  <1>. QED
    BY <1>1, <1>2, <1>3, <1>4, <1>5, <1>6, <1>7 DEF Changing

LEMMA YoungMerge ==
    ASSUME NEW row \in Sub, NEW was \in Sub, NEW doc \in Sub
    PROVE  /\ doc.tried = was.tried => Merge(row, was, doc).tried = row.tried
           /\ Young(row) /\ Young(doc) => Young(Merge(row, was, doc))
           /\ row.cur /\ doc.cur => Merge(row, was, doc).cur
  BY DEF Merge, Sub, Young

\* A row with a trial has it before it.
LEMMA FreshYoung ==
    ASSUME NEW st \in Status \ {"expired"}, NEW plan \in Plan, NEW trial \in Nat, NEW auto \in BOOLEAN,
           now \in Nat
    PROVE  Fresh(st, plan, trial, auto).tried => (trial >= now => Young(Fresh(st, plan, trial, auto)))
  BY DEF Fresh, Young

LEMMA OwnIdle == Own(Idle) /\ ~Trying(Idle) /\ Careful(Idle)
  BY DEF Own, Trying, Careful, Idle

\* A step that leaves the rows alone and takes a right to a trial only where none was had.
LEMMA QuietTrials ==
    ASSUME IInv, Trials, NEW r \in Req, NEW q, Own(q), Step(r, q), UNCHANGED <<now, sub>>,
           Trying(q) => Trying(req[r]) \/ Tried = {},
           Ripe => Careful(q)
    PROVE  Trials'
  <1>. req \in [Req -> Request] /\ req' = [req EXCEPT ![r] = q]
    BY DEF IInv, TypeOK, Step
  <1>1. Rows' = Rows /\ Tried' = Tried
    BY DEF Rows, Tried
  <1>2. (\A s, t \in Tried : s = t)'
    BY <1>1 DEF Trials
  <1>3. \A p : (Own(p) => Own(p)') /\ (Trying(p)' <=> Trying(p)) /\ (Careful(p) => Careful(p)')
    BY <1>1 DEF Own, Trying, Careful, Young, Blocks
  <1>4. ASSUME NEW t \in Req PROVE Own(req[t])'
    <2>1. PICK p : p = req'[t]
      OBVIOUS
    <2>2. Own(p)
      BY <2>1 DEF Trials
    <2>. QED
      BY <1>3, <2>1, <2>2 DEF Own, Trying, Young, Blocks
  <1>5. ASSUME NEW t \in Req, Trying(req[t])' PROVE Ripe'
    <2>1. CASE Tried = {}
      BY <1>1, <2>1 DEF Ripe, Careful
    <2>2. CASE \E u \in Req : Trying(req[u])
      <3>1. Ripe /\ Careful(q)
        BY <2>2 DEF Trials
      <3>2. \A s \in Tried' : Young(sub[s])' /\ sub'[s].cur
        BY <1>1, <3>1 DEF Ripe, Young
      <3>3. ASSUME NEW u \in Req PROVE Careful(req[u])'
        <4>1. PICK p : p = req'[u]
          OBVIOUS
        <4>2. Careful(p)
          BY <3>1, <4>1 DEF Ripe
        <4>. QED
          BY <1>1, <4>1, <4>2 DEF Careful, Young
      <3>. QED
        BY <3>2, <3>3 DEF Ripe
    <2>3. Trying(req'[t]) => Tried = {} \/ \E u \in Req : Trying(req[u])
      BY DEF Trying
    <2>. QED
      BY <1>5, <2>1, <2>2, <2>3 DEF Trying
  <1>. QED
    BY <1>2, <1>4, <1>5 DEF Trials

\* A save into the row a request has in hand.
LEMMA StoreTrials ==
    ASSUME IInv, Trials, NEW r \in Req, NEW doc \in Sub, NEW label \in Label, Store(r, doc, label),
           req[r].doc # None, doc.tried = req[r].was.tried, UNCHANGED now,
           label # "retire" \/ ~Blocks(doc),
           label \in {"retire", "create"} /\ Trying([req[r] EXCEPT !.at = label]) => Trying(req[r]),
           req[r].at # "idle",
           Ripe /\ req[r].s \in Tried => Young(doc) /\ doc.cur
    PROVE  Trials'
  <1>. DEFINE s == req[r].s
              was == req[r].was
              row == Merge(sub[s], was, doc)
              held == IF label = "announce" THEN None ELSE doc
              q == [req[r] EXCEPT !.at = label, !.doc = held, !.was = held]
  <1>1. /\ req \in [Req -> Request] /\ req[r] \in Request /\ Own(req[r])
        /\ s \in Rows /\ s \in Row /\ sub[s] \in Sub /\ was \in Sub /\ sub \in [Row -> Sub \cup {None}]
        /\ now \in Nat
    BY RowTypes DEF IInv, TypeOK, Trials, Own
  <1>2. /\ q.at = label /\ q.s = s /\ q.op = req[r].op /\ q.new = req[r].new /\ q.doc = held /\ q.was = held
    BY <1>1 DEF Request
  <1>. HIDE DEF held, q
  <1>3. Trying(q) => Trying(req[r])
    <2>1. PICK p : p = [req[r] EXCEPT !.at = label]
      OBVIOUS
    <2>2. p.at = label /\ p.op = req[r].op /\ p.new = req[r].new
      BY <1>1, <2>1 DEF Request
    <2>3. Trying(q) => Trying(p) /\ label \in {"retire", "create"}
      BY <1>2, <2>2 DEF Trying
    <2>. QED
      BY <2>1, <2>3
  <1>4. Own(q)
    <2>1. held = None \/ held = doc
      BY DEF held
    <2>2. label = "retire" => held = doc
      BY DEF held
    <2>3. Trying(q) => Young(q.new)
      BY <1>1, <1>2, <1>3 DEF Own
    <2>. QED
      BY <1>1, <1>2, <2>1, <2>2, <2>3 DEF Own
  <1>5. Ripe => Careful(q)
    BY <1>2 DEF Careful, held
  <1>6. CASE ~Storable(r, doc)
    <2>1. Step(r, Idle) /\ UNCHANGED <<now, sub>>
      BY <1>6 DEF Store, Done
    <2>. QED
      BY <2>1, OwnIdle, QuietTrials
  <1>7. CASE Storable(r, doc)
    <2>1. sub' = [sub EXCEPT ![s] = row] /\ req' = [req EXCEPT ![r] = q]
      BY <1>7 DEF Store, Step, held, q
    <2>2. row \in Sub /\ row.tried = sub[s].tried
      <3>1. PICK old, seen : old = sub[s] /\ seen = was
        OBVIOUS
      <3>2. old \in Sub /\ seen \in Sub /\ doc \in Sub /\ doc.tried = seen.tried
        BY <1>1, <3>1
      <3>3. Merge(old, seen, doc) \in Sub /\ Merge(old, seen, doc).tried = old.tried
        BY <3>2, MergeType, YoungMerge
      <3>. QED
        BY <3>1, <3>3
    <2>3. Young(sub[s]) /\ Young(doc) => Young(row)
      BY <1>1, YoungMerge
    <2>4. sub[s].cur /\ doc.cur => row.cur
      BY <1>1, YoungMerge
    <2>. HIDE DEF row
    <2>5. sub'[s] = row /\ \A t \in Row \ {s} : sub'[t] = sub[t]
      BY <1>1, <2>1
    <2>6. Rows' = Rows
      BY <1>1, <2>2, <2>5, NoneIsNoRow DEF Rows
    <2>7. Tried' = Tried
      BY <2>2, <2>5, <2>6 DEF Tried, Rows
    <2>8. (\A t, u \in Tried : t = u)'
      BY <2>7 DEF Trials
    <2>9. ASSUME NEW t \in Req PROVE Own(req[t])'
      <3>1. PICK p : p = req'[t]
        OBVIOUS
      <3>2. Own(p)
        BY <1>1, <1>4, <2>1, <3>1 DEF Trials
      <3>. QED
        BY <2>6, <3>1, <3>2 DEF Own, Trying, Young, Blocks
    <2>10. ASSUME NEW t \in Req, Trying(req[t])' PROVE Ripe'
      <3>1. Trying(req'[t]) => \E u \in Req : Trying(req[u])
        BY <1>1, <1>3, <2>1
      <3>2. Ripe
        BY <2>10, <3>1 DEF Trials, Trying
      <3>3. ASSUME NEW u \in Tried' PROVE Young(sub[u])' /\ sub'[u].cur
        <4>1. u \in Tried /\ Young(sub[u]) /\ sub[u].cur /\ u \in Row
          BY <2>7, <3>2, <3>3 DEF Ripe, Tried, Rows
        <4>2. CASE u = s
          <5>1. Young(row) /\ row.cur
            BY <2>3, <2>4, <3>2, <4>1, <4>2
          <5>. QED
            BY <2>5, <4>2, <5>1 DEF Young
        <4>3. CASE u # s
          BY <2>5, <4>1, <4>3 DEF Young
        <4>. QED
          BY <4>2, <4>3
      <3>4. ASSUME NEW u \in Req PROVE Careful(req[u])'
        <4>1. PICK p : p = req'[u]
          OBVIOUS
        <4>2. Careful(p)
          BY <1>1, <1>2, <2>1, <3>2, <4>1 DEF Ripe, Careful, held
        <4>. QED
          BY <2>7, <4>1, <4>2 DEF Careful, Young
      <3>. QED
        BY <3>3, <3>4 DEF Ripe
    <2>. QED
      BY <2>8, <2>9, <2>10 DEF Trials
  <1>. QED
    BY <1>6, <1>7

LEMMA InTrial ==
    ASSUME TrialInv, Unaided, NEW r \in Req
    PROVE  /\ IInv /\ Trials /\ Own(req[r]) /\ req[r] \in Request /\ Fits(req[r])
           /\ now \in Nat /\ now >= 1 /\ \A s \in Rows : s \in Row /\ sub[s] \in Sub
           /\ sub \in [Row -> Sub \cup {None}]
           /\ Ripe => Careful(req[r])
  BY InHand, RowTypes DEF TrialInv, Trials, Ripe, IInv, TypeOK

LEMMA BeginTrials == ASSUME TrialInv, Unaided, NEW r \in Req, Begin(r) PROVE Trials'
  <1>1. PICK q : Step(r, q) /\ q.doc = None /\ q.at \in {"find", "load"} /\ q.op \in Op
    <2>1. PICK o \in Op :
            \/ Step(r, [Idle EXCEPT !.op = o, !.at = "find", !.day = now])
            \/ \E s \in Rows : Step(r, [Idle EXCEPT !.op = o, !.at = "load", !.s = s, !.day = now])
      BY DEF Begin
    <2>2. LET q == [Idle EXCEPT !.op = o, !.at = "find", !.day = now]
          IN q.doc = None /\ q.at = "find" /\ q.op = o
      BY DEF Idle
    <2>3. \A s : LET q == [Idle EXCEPT !.op = o, !.at = "load", !.s = s, !.day = now]
                IN q.doc = None /\ q.at = "load" /\ q.op = o
      BY DEF Idle
    <2>. HIDE DEF Idle
    <2>. QED
      BY <2>1, <2>2, <2>3, ZenonT(40)
  <1>2. Own(q) /\ ~Trying(q) /\ Careful(q)
    BY <1>1 DEF Own, Trying, Careful, Unaided
  <1>. QED
    BY <1>1, <1>2, InTrial, QuietTrials DEF Begin

LEMMA FindTrials == ASSUME TrialInv, Unaided, NEW r \in Req, Find(r) PROVE Trials'
  <1>. DEFINE o == req[r].op
              found == Onward(o, TRUE)
  <1>1. /\ IInv /\ Trials /\ now \in Nat /\ UNCHANGED <<now, sub>> /\ req[r] \in Request
        /\ At(r, "find") /\ Own(req[r]) /\ o \in OpName \ (ById \cup {"lose"}) /\ o # "grant"
        /\ req[r].doc = None
        /\ \A s \in Rows : s \in Row /\ sub[s] \in Sub
    BY InTrial DEF Find, At, Own, Fits
  <1>2. found # "create" /\ found # "retire" /\ Onward(o, FALSE) # "retire"
    BY <1>1 DEF Onward, OpName, ById
  <1>3. ASSUME NEW s \in Current, NEW at \in {found, "save"}, NEW doc, doc = Lifecycle(sub[s])
        PROVE  LET q == [req[r] EXCEPT !.at = at, !.s = s, !.was = sub[s], !.doc = doc]
               IN Own(q) /\ ~Trying(q) /\ (Ripe => Careful(q))
    <2>. DEFINE q == [req[r] EXCEPT !.at = at, !.s = s, !.was = sub[s], !.doc = doc]
    <2>1. q.at = at /\ q.s = s /\ q.was = sub[s] /\ q.doc = doc /\ q.op = o
      BY <1>1 DEF Request
    <2>2. s \in Rows /\ sub[s] \in Sub /\ sub[s].cur
      BY <1>1 DEF Current
    <2>3. doc \in Sub /\ doc.tried = sub[s].tried /\ doc.cur = sub[s].cur /\ (Young(sub[s]) => Young(doc))
      BY <1>1, <1>3, <2>2, LifecycleType, YoungLifecycle
    <2>. HIDE DEF q, found
    <2>4. at # "retire" /\ at # "create" /\ o # "patch"
      BY <1>1, <1>2, <1>3 DEF ById
    <2>5. Own(q) /\ ~Trying(q)
      BY <1>1, <2>1, <2>2, <2>3, <2>4 DEF Own, Trying
    <2>6. Ripe => Careful(q)
      BY <2>1, <2>2, <2>3 DEF Ripe, Careful
    <2>. QED
      BY <2>5, <2>6 DEF q
  <1>4. ASSUME NEW q, Own(q), ~Trying(q), Ripe => Careful(q), Step(r, q) \/ Step(r, Idle) PROVE Trials'
    <2>1. CASE Step(r, q)
      BY <1>1, <1>4, <2>1, QuietTrials
    <2>2. CASE Step(r, Idle)
      BY <1>1, <2>2, OwnIdle, QuietTrials
    <2>. QED
      BY <1>4, <2>1, <2>2
  <1>5. CASE Current = {}
    <2>. DEFINE q == [req[r] EXCEPT !.at = Onward(o, FALSE)]
    <2>1. Step(r, q) \/ Step(r, Idle)
      BY <1>5 DEF Find, Proceed
    <2>2. q.at = Onward(o, FALSE) /\ q.doc = None /\ q.op = o
      BY <1>1 DEF Request
    <2>. HIDE DEF q
    <2>3. o # "patch" /\ (o = "start" => Onward(o, FALSE) = "act")
      BY <1>1, Zenon DEF Onward, ById
    <2>4. Own(q) /\ ~Trying(q) /\ Careful(q)
      BY <1>1, <1>2, <2>2, <2>3 DEF Own, Trying, Careful
    <2>. QED
      BY <1>4, <2>1, <2>4
  <1>6. CASE Current # {}
    <2>1. PICK s \in Current : \E at \in {found, "save"} :
              \/ Step(r, [req[r] EXCEPT !.at = at, !.s = s, !.was = sub[s], !.doc = Lifecycle(sub[s])])
              \/ Step(r, Idle)
      <3>1. PICK s \in Current :
              LET doc == Lifecycle(sub[s])
                  held == [[req[r] EXCEPT !.at = found] EXCEPT !.s = s, !.was = sub[s], !.doc = doc]
              IN IF doc = sub[s] THEN Proceed(r, held) ELSE Step(r, [held EXCEPT !.at = "save"])
        BY <1>1, <1>6 DEF Find
      <3>. HIDE DEF found, o
      <3>. QED
        BY <3>1 DEF Proceed
    <2>2. PICK at \in {found, "save"} :
              \/ Step(r, [req[r] EXCEPT !.at = at, !.s = s, !.was = sub[s], !.doc = Lifecycle(sub[s])])
              \/ Step(r, Idle)
      BY <2>1
    <2>. HIDE DEF found, o
    <2>. QED
      BY <1>3, <1>4, <2>2
  <1>. QED
    BY <1>5, <1>6

LEMMA SaveTrials == ASSUME TrialInv, Unaided, NEW r \in Req, Save(r) PROVE Trials'
  <1>. DEFINE label == Onward(req[r].op, TRUE)
              doc == req[r].doc
  <1>1. /\ IInv /\ Trials /\ Own(req[r]) /\ req[r].at = "save" /\ UNCHANGED now
        /\ req[r].op \in OpName \ (ById \cup {"lose"}) /\ req[r].op # "grant"
        /\ doc \in Sub /\ doc # None /\ doc.tried = req[r].was.tried
        /\ Store(r, doc, label)
        /\ Ripe /\ req[r].s \in Tried => Young(doc) /\ doc.cur
    BY InTrial DEF Save, At, Own, Fits, Careful
  <1>2. label \in Label /\ label # "retire" /\ label # "create"
    <2>1. label \in {"idle", "fill", "retire", "act"} /\ label # "retire"
      BY <1>1, OnwardCases DEF Onward
    <2>. HIDE DEF label
    <2>. QED
      BY <2>1 DEF Label
  <1>. HIDE DEF label, doc
  <1>3. doc # None /\ req[r].doc = doc
    BY <1>1 DEF doc
  <1>. QED
    BY <1>1, <1>2, <1>3, StoreTrials

LEMMA BreakOffTrials ==
    ASSUME TrialInv, Unaided, NEW r \in Req, BreakOff(r), UNCHANGED now
    PROVE  Trials'
  <1>1. Step(r, Idle) /\ UNCHANGED <<now, sub>> /\ IInv /\ Trials
    BY InTrial DEF BreakOff, Done
  <1>. QED
    BY <1>1, OwnIdle, QuietTrials

LEMMA LoadTrials == ASSUME TrialInv, Unaided, NEW r \in Req, Load(r) PROVE Trials'
  <1>. DEFINE s == req[r].s
              q == [req[r] EXCEPT !.at = "act", !.was = sub[s], !.doc = sub[s]]
  <1>1. /\ IInv /\ Trials /\ Own(req[r]) /\ req[r] \in Request /\ req[r].at = "load" /\ UNCHANGED now
        /\ s \in Row /\ sub \in [Row -> Sub \cup {None}]
    BY InTrial DEF Load, At, Fits
  <1>2. CASE sub[s] = None
    BY <1>2, BreakOffTrials DEF Load
  <1>3. CASE sub[s] # None
    <2>1. Step(r, q) /\ UNCHANGED <<now, sub>>
      BY <1>3 DEF Load
    <2>2. s \in Rows /\ sub[s] \in Sub
      BY <1>1, <1>3 DEF Rows
    <2>3. q.at = "act" /\ q.op = req[r].op /\ q.s = s /\ q.was = sub[s] /\ q.doc = sub[s]
      BY <1>1 DEF Request
    <2>. HIDE DEF q
    <2>4. Own(q) /\ ~Trying(q)
      BY <1>1, <2>2, <2>3 DEF Own, Trying
    <2>5. Ripe => Careful(q)
      BY <2>3 DEF Ripe, Careful
    <2>. QED
      BY <1>1, <2>1, <2>4, <2>5, QuietTrials
  <1>. QED
    BY <1>2, <1>3

LEMMA ApplyTrials == ASSUME TrialInv, Unaided, NEW r \in Req, Apply(r) PROVE Trials'
  <1>. DEFINE d == req[r].doc
  <1>1. /\ IInv /\ Trials /\ Own(req[r]) /\ req[r].at = "act" /\ UNCHANGED now /\ now \in Nat
        /\ req[r].op \in Changing \ {"patch"} /\ d # None /\ d \in Sub /\ req[r].was = d
        /\ Ripe => Careful(req[r])
    BY InTrial DEF Apply, At, Own, Fits, Changing
  <1>2. CASE Answered(r)
    BY <1>1, <1>2, OwnIdle, QuietTrials DEF Answered, Done
  <1>3. ASSUME NEW doc \in Result(req[r].op, d), Store(r, doc, "announce")
        PROVE  Trials'
    <2>1. doc \in Sub
      BY <1>1, <1>3, ResultType
    <2>2. doc.tried = d.tried /\ (Young(d) => Young(doc)) /\ (d.cur => doc.cur)
      BY <1>1, <1>3, YoungResult
    <2>3. Ripe /\ req[r].s \in Tried => Young(doc) /\ doc.cur
      BY <1>1, <2>2 DEF Careful
    <2>4. doc.tried = req[r].was.tried /\ "announce" \in Label
      BY <1>1, <2>2 DEF Label
    <2>. QED
      BY <1>1, <1>3, <2>1, <2>3, <2>4, StoreTrials
  <1>. QED
    BY <1>2, <1>3 DEF Apply

LEMMA StartTrials == ASSUME TrialInv, Unaided, NEW r \in Req, Start(r) PROVE Trials'
  <1>1. /\ IInv /\ Trials /\ Own(req[r]) /\ req[r] \in Request /\ req[r].at = "act"
        /\ req[r].op = "start" /\ UNCHANGED <<now, sub>> /\ now \in Nat /\ now >= 1
        /\ Ripe => Careful(req[r])
    BY InTrial DEF Start, At
  <1>2. CASE Step(r, Idle)
    BY <1>1, <1>2, OwnIdle, QuietTrials
  <1>3. CASE ~Step(r, Idle)
    <2>. DEFINE trial == IF TrialDays > 0 /\ ~HasUsedTrial THEN now + TrialDays ELSE 0
                st == CASE trial # 0 -> "trial" [] RequirePayment -> "pending" [] OTHER -> "active"
                label == IF req[r].doc = None THEN "create" ELSE "retire"
    <2>1. PICK plan \in Plan : Step(r, [req[r] EXCEPT !.new = Fresh(st, plan, trial, TRUE), !.at = label])
      BY <1>3 DEF Start, Done
    <2>2. req[r].doc # None => ~Blocks(req[r].doc)
      BY <1>3 DEF Start, Done
    <2>3. trial \in Nat /\ (trial # 0 => Tried = {} /\ trial >= now)
      BY <1>1 DEF HasUsedTrial, Tried
    <2>4. st \in Status \ {"expired"}
      BY Zenon DEF Status
    <2>. DEFINE new == Fresh(st, plan, trial, TRUE)
                q == [req[r] EXCEPT !.new = new, !.at = label]
    <2>. HIDE DEF trial, st
    <2>5. (new.tried <=> trial # 0) /\ (new.tried /\ trial >= now => Young(new))
      BY <1>1, <2>3, <2>4, FreshYoung DEF Fresh
    <2>. HIDE DEF new
    <2>6. /\ q.at = label /\ q.op = "start" /\ q.new = new /\ q.s = req[r].s
          /\ q.was = req[r].was /\ q.doc = req[r].doc
      BY <1>1 DEF Request
    <2>7. label = "retire" => req[r].doc # None
      OBVIOUS
    <2>8. Step(r, q)
      BY <2>1 DEF new
    <2>. HIDE DEF q, label
    <2>9. Own(q)
      BY <1>1, <2>2, <2>3, <2>5, <2>6, <2>7 DEF Own, Trying
    <2>10. Trying(q) => Tried = {}
      BY <2>3, <2>5, <2>6 DEF Trying
    <2>11. Ripe => Careful(q)
      BY <1>1, <2>6 DEF Careful
    <2>. QED
      BY <1>1, <2>8, <2>9, <2>10, <2>11, QuietTrials
  <1>. QED
    BY <1>2, <1>3

LEMMA RetireTrials == ASSUME TrialInv, Unaided, NEW r \in Req, Retire(r) PROVE Trials'
  <1>. DEFINE d == req[r].doc
              doc == [d EXCEPT !.cur = FALSE]
  <1>1. /\ IInv /\ Trials /\ Own(req[r]) /\ req[r] \in Request /\ req[r].at = "retire" /\ req[r].op = "start"
        /\ UNCHANGED now /\ now \in Nat
        /\ d # None /\ d \in Sub /\ req[r].was = d /\ ~Blocks(d)
        /\ Ripe => Careful(req[r])
        /\ Store(r, doc, "create")
    BY InTrial DEF Retire, At, Own, Fits
  <1>2. doc \in Sub /\ doc.tried = d.tried
    BY <1>1 DEF Sub
  <1>3. ~(Ripe /\ req[r].s \in Tried)
    BY <1>1, YoungBlocks DEF Careful
  <1>4. Trying([req[r] EXCEPT !.at = "create"]) => Trying(req[r])
    <2>1. LET p == [req[r] EXCEPT !.at = "create"] IN p.op = req[r].op /\ p.new = req[r].new
      BY <1>1 DEF Request
    <2>. QED
      BY <1>1, <2>1 DEF Trying
  <1>5. doc.tried = req[r].was.tried /\ "create" \in Label
    BY <1>1, <1>2 DEF Label
  <1>. HIDE DEF doc
  <1>. QED
    BY <1>1, <1>2, <1>3, <1>4, <1>5, StoreTrials

LEMMA InsertTrials ==
    ASSUME TrialInv, Unaided, NEW r \in Req, At(r, "create"), UNCHANGED now, Insert(r, req[r].new)
    PROVE  Trials'
  <1>1. /\ IInv /\ Trials /\ Own(req[r]) /\ req[r] \in Request /\ req[r].at = "create"
        /\ req[r].op = "start" /\ req[r].new \in Sub /\ req[r].new.cur
        /\ req \in [Req -> Request] /\ sub \in [Row -> Sub \cup {None}]
    BY InTrial DEF At, Own, Fits, IInv, TypeOK
  <1>2. CASE Current # {}
    <2>1. Step(r, Idle) /\ UNCHANGED <<now, sub>>
      BY <1>2 DEF Insert, Answered, Done
    <2>. QED
      BY <1>1, <2>1, OwnIdle, QuietTrials
  <1>3. CASE Current = {}
    <2>. DEFINE row == req[r].new
    <2>1. PICK s \in Row \ Rows :
            /\ sub' = [sub EXCEPT ![s] = row]
            /\ Step(r, [req[r] EXCEPT !.at = "announce", !.s = s, !.was = None, !.doc = None, !.new = None])
      BY <1>3 DEF Insert
    <2>2. PICK q : q = [req[r] EXCEPT !.at = "announce", !.s = s, !.was = None, !.doc = None, !.new = None]
      OBVIOUS
    <2>3. q.at = "announce" /\ q.doc = None /\ q.op = "start" /\ req' = [req EXCEPT ![r] = q]
      BY <1>1, <2>1, <2>2 DEF Request, Step
    <2>4. Own(q) /\ ~Trying(q)
      BY <2>3 DEF Own, Trying
    <2>5. sub'[s] = row /\ \A t \in Row \ {s} : sub'[t] = sub[t]
      BY <1>1, <2>1
    <2>6. Rows' = Rows \cup {s} /\ s \notin Rows
      BY <1>1, <2>1, <2>5, NoneIsNoRow DEF Rows
    <2>7. Tried' = IF row.tried THEN Tried \cup {s} ELSE Tried
      BY <2>1, <2>5, <2>6 DEF Tried, Rows
    <2>8. row.tried => Young(row) /\ Tried = {}
      <3>1. row.tried => Trying(req[r])
        BY <1>1 DEF Trying
      <3>2. Ripe => Tried = {}
        BY <1>3 DEF Ripe, Tried, Current
      <3>. QED
        BY <1>1, <3>1, <3>2 DEF Trials, Own
    <2>9. (\A t, u \in Tried : t = u)'
      <3>1. \A t, u \in Tried : t = u
        BY <1>1 DEF Trials
      <3>2. CASE row.tried
        BY <2>7, <2>8, <3>2
      <3>3. CASE ~row.tried
        BY <2>7, <3>1, <3>3
      <3>. QED
        BY <3>2, <3>3
    <2>10. ASSUME NEW t \in Req PROVE Own(req[t])'
      <3>1. PICK p : p = req'[t]
        OBVIOUS
      <3>2. Own(p)
        BY <1>1, <2>3, <2>4, <3>1 DEF Trials
      <3>. QED
        BY <2>6, <3>1, <3>2 DEF Own, Trying, Young, Blocks
    <2>11. ASSUME NEW t \in Req, Trying(req[t])' PROVE Ripe'
      <3>1. Trying(req'[t]) => \E u \in Req : Trying(req[u])
        BY <1>1, <2>3, <2>4
      <3>0. Trying(req'[t])
        BY <2>11 DEF Trying
      <3>2. Ripe
        BY <1>1, <3>0, <3>1 DEF Trials
      <3>3. ASSUME NEW u \in Tried' PROVE Young(sub[u])' /\ sub'[u].cur
        <4>1. CASE u = s
          <5>1. row.tried
            BY <2>6, <2>7, <3>3, <4>1 DEF Tried
          <5>. QED
            BY <1>1, <2>5, <2>8, <4>1, <5>1 DEF Young
        <4>2. CASE u # s
          <5>1. u \in Tried /\ u \in Row
            BY <2>7, <3>3, <4>2 DEF Tried, Rows
          <5>. QED
            BY <2>5, <3>2, <4>2, <5>1 DEF Ripe, Young
        <4>. QED
          BY <4>1, <4>2
      <3>4. ASSUME NEW u \in Req PROVE Careful(req[u])'
        <4>1. PICK p : p = req'[u]
          OBVIOUS
        <4>2. Careful(p) /\ (p.doc # None => p.s \in Rows)
          BY <1>1, <2>3, <2>4, <3>2, <4>1 DEF Ripe, Careful, Trials, Own
        <4>3. p.doc # None /\ p.s \in Tried' => p.s \in Tried
          BY <2>6, <2>7, <4>2
        <4>. QED
          BY <4>1, <4>2, <4>3 DEF Careful, Young
      <3>. QED
        BY <3>3, <3>4 DEF Ripe
    <2>. QED
      BY <2>9, <2>10, <2>11 DEF Trials
  <1>. QED
    BY <1>2, <1>3

LEMMA CreateTrials == ASSUME TrialInv, Unaided, NEW r \in Req, Create(r) PROVE Trials'
  <1>1. At(r, "create") /\ UNCHANGED now /\ req[r].op # "grant"
    BY InTrial DEF Create, At, Own
  <1>. QED
    BY <1>1, InsertTrials DEF Create

LEMMA QuietSteps ==
    ASSUME TrialInv, Unaided, NEW r \in Req, RenewFails(r) \/ Announce(r) \/ Fill(r)
    PROVE  Trials'
  <1>. DEFINE q == [Idle EXCEPT !.op = "suspend", !.at = "load", !.s = req[r].s, !.day = now]
  <1>1. IInv /\ Trials /\ UNCHANGED <<now, sub>> /\ (Step(r, Idle) \/ Step(r, q))
    BY InTrial DEF RenewFails, Announce, Fill, Done
  <1>2. q.doc = None /\ q.at = "load" /\ q.op = "suspend"
    BY DEF Idle
  <1>. HIDE DEF q
  <1>3. Own(q) /\ ~Trying(q) /\ Careful(q)
    BY <1>2 DEF Own, Trying, Careful
  <1>. QED
    BY <1>1, <1>3, OwnIdle, QuietTrials

\* Nobody is about to insert a row when the day turns.
LEMMA TickTrials == ASSUME TrialInv, Unaided, Tick PROVE Trials'
  <1>1. UNCHANGED <<sub, req>> /\ Trials
    BY InTrial DEF Tick, TrialInv
  <1>2. \A t \in Req : req[t].at \notin {"retire", "create"}
    BY DEF Tick, At
  <1>3. Rows' = Rows /\ Tried' = Tried
    BY <1>1 DEF Rows, Tried
  <1>4. ASSUME NEW t \in Req PROVE Own(req[t])' /\ ~Trying(req[t])'
    BY <1>1, <1>2, <1>3 DEF Trials, Own, Trying
  <1>. QED
    BY <1>1, <1>3, <1>4 DEF Trials

LEMMA HazardStays == [SubNext]_subVars => hazard \subseteq hazard'
  <1>. SUFFICES ASSUME [SubNext]_subVars PROVE hazard \subseteq hazard'
    OBVIOUS
  <1>1. ASSUME NEW r \in Req, BreakOff(r) PROVE hazard \subseteq hazard'
    BY <1>1 DEF BreakOff
  <1>2. ASSUME NEW r \in Req, NEW doc, NEW label, Store(r, doc, label) PROVE hazard \subseteq hazard'
    BY <1>2 DEF Store, Note
  <1>3. ASSUME NEW r \in Req, Serve(r) PROVE hazard \subseteq hazard'
    <2>1. CASE Find(r) \/ RenewFails(r) \/ Start(r) \/ Announce(r) \/ Fill(r)
      BY <2>1 DEF Find, RenewFails, Start, Announce, Fill
    <2>2. CASE Save(r) \/ Retire(r)
      BY <1>2, <2>2 DEF Save, Retire
    <2>3. CASE Apply(r)
      BY <1>2, <2>3 DEF Apply, Answered
    <2>4. CASE Load(r)
      BY <1>1, <2>4 DEF Load
    <2>5. CASE Create(r)
      BY <1>1, <2>5 DEF Create, Insert, Answered
    <2>6. CASE Delete(r)
      BY <2>6 DEF Delete, Note
    <2>. QED
      BY <1>3, <2>1, <2>2, <2>3, <2>4, <2>5, <2>6 DEF Serve
  <1>. QED
    BY <1>1, <1>3 DEF SubNext, subVars, Begin, Note, Lose, Lapse, Tick

LEMMA TrialNext == TrialInv /\ [SubNext]_subVars => TrialInv'
  <1>. SUFFICES ASSUME TrialInv, [SubNext]_subVars, Unaided' PROVE Trials'
    BY NextKeeps DEF TrialInv
  <1>1. Unaided
    BY HazardStays DEF Unaided
  <1>2. ASSUME NEW r \in Req, Delete(r) PROVE Trials'
    <2>1. req[r].s \in Rows
      BY <1>1, <1>2, InTrial DEF Delete, At, Fits, Own
    <2>2. "removed" \in hazard'
      BY <1>2, <2>1 DEF Delete, Note
    <2>. QED
      BY <2>2 DEF Unaided
  <1>3. ASSUME NEW r \in Req, Serve(r) PROVE Trials'
    BY <1>1, <1>2, <1>3, FindTrials, SaveTrials, LoadTrials, ApplyTrials, StartTrials, RetireTrials,
       CreateTrials, QuietSteps DEF Serve
  <1>4. ASSUME NEW r \in Req, Lose(r) PROVE Trials'
    BY <1>1, <1>4, BreakOffTrials DEF Lose
  <1>5. CASE UNCHANGED <<now, sub, req>>
    BY <1>1, <1>5 DEF TrialInv, Trials, Ripe, Own, Trying, Careful, Young, Blocks, Tried, Rows
  <1>. QED
    BY <1>1, <1>3, <1>4, <1>5, BeginTrials, TickTrials DEF SubNext, subVars, Lapse

\* Whatever requests run at once, starting gives one trial.
THEOREM OneTrialHolds == Spec => []OneTrial
  <1>1. Init => TrialInv
    <2>. SUFFICES ASSUME Init PROVE Trials
      BY InitIInv DEF TrialInv
    <2>1. Rows = {} /\ Tried = {} /\ \A r \in Req : req[r] = Idle
      BY DEF Init, Rows, Tried
    <2>. QED
      BY <2>1, OwnIdle DEF Trials
  <1>2. TrialInv => OneTrial
    <2>. SUFFICES ASSUME TrialInv, Unaided PROVE Cardinality(Tried) <= 1
      BY DEF OneTrial, Unaided, Tried
    <2>1. \A s, t \in Tried : s = t
      BY DEF TrialInv, Trials
    <2>. QED
      BY <2>1, AtMostOne
  <1>. QED
    BY <1>1, <1>2, TrialNext, PTL DEF Spec

-----------------------------------------------------------------------------
(* Access.                                                                 *)

\* What a row is as long as no administrator steps in: a trial or a paid period renews
\* itself, a trial ends no later than the period it opens, where payments are required
\* with it, and where they are not there are no days of grace.
Kept(d) ==
    /\ d.status \in {"trial", "active"} => Renewing(d)
    /\ d.status = "trial" => d.trial # 0
    /\ d.trial # 0 => d.end >= d.trial /\ (RequirePayment => d.end = d.trial)
    /\ RequirePayment \/ d.grace = 0

\* No administrator's request, and a start that is about to replace a row found it one
\* that may be replaced.
Timely(q) ==
    /\ q.at # "idle" => q.op \notin ByAdmin \/ (q.op = "suspend" /\ RequirePayment)
    /\ q.at \in {"retire", "create"} /\ q.op = "start" => Kept(q.new)
    /\ q.at = "retire" /\ q.day = now => ~Blocks(q.doc)

Terms == (\A s \in Rows : Kept(sub[s])) /\ (\A r \in Req : Timely(req[r]))

Undisturbed == hazard \cap {"overwrote", "admin"} = {}

AccessInv == CacheInv /\ (Undisturbed => Terms)

\* What may become of a row that gives access, in a step that leaves the clock alone.
Keeps(d, e) ==
    Entitled(d) => /\ e.cur \/ ~d.cur \/ d.status = "expired"
                   /\ AccessUntil(e) >= AccessUntil(d) \/ GivenUp(d, e)

AccessStep ==
    Undisturbed' /\ now' = now =>
        \A s \in Rows : sub'[s] # None /\ Keeps(sub[s], sub'[s])

\* AccessUntil is the last day of which Entitled is true.
LEMMA EntitledUntil ==
    ASSUME NEW d \in Sub, now \in Nat \ {0}
    PROVE  AccessUntil(d) \in Nat /\ (Entitled(d) <=> now <= AccessUntil(d))
  <1>1. d.end \in Nat /\ d.grace \in Nat /\ d.status \in Status
    BY DEF Sub
  <1>2. PICK end \in Nat, grace \in Nat :
          /\ end = IF d.status \in {"trial", "active", "cancelled"} THEN d.end ELSE 0
          /\ grace = IF d.status \in {"trial", "active", "suspended", "expired"} THEN d.grace ELSE 0
    BY <1>1
  <1>3. AccessUntil(d) = IF end > grace THEN end ELSE grace
    BY <1>2 DEF AccessUntil
  <1>4. Entitled(d) <=> now <= end \/ now <= grace
    BY <1>1, <1>2 DEF Entitled
  <1>. QED
    BY <1>3, <1>4

\* A row that keeps its status and dates keeps its access.
LEMMA SameUntil ==
    ASSUME NEW d \in Sub, NEW e \in Sub, now \in Nat \ {0}, e.status = d.status, e.end = d.end,
           e.grace = d.grace, e.cur = d.cur
    PROVE  Keeps(d, e)
  <1>1. AccessUntil(e) = AccessUntil(d)
    BY DEF AccessUntil
  <1>. QED
    BY <1>1, EntitledUntil DEF Keeps

\* A row that is not written keeps its access.
LEMMA RowKeeps ==
    ASSUME IInv, NEW s \in Rows, sub'[s] = sub[s]
    PROVE  sub'[s] # None /\ Keeps(sub[s], sub'[s])
  <1>1. sub[s] \in Sub /\ sub[s] # None /\ now \in Nat \ {0}
    BY RowTypes DEF IInv, TypeOK, Rows
  <1>. QED
    BY <1>1, SameUntil

LEMMA KeptMoved ==
    ASSUME NEW e \in Sub, now \in Nat \ {0}, Kept(e)
    PROVE  Kept(Moved(e)) /\ Keeps(e, Moved(e))
  <1>. /\ now + Cycle \in Nat /\ now + GraceDays \in Nat /\ e.end + Cycle \in Nat
       /\ e.end \in Nat /\ e.trial \in Nat /\ e.grace \in Nat /\ e.status \in Status
    BY DEF Sub
  <1>1. CASE Moved(e) = e
    BY <1>1, SameUntil
  <1>2. CASE /\ e.status = "trial" /\ e.trial # 0 /\ now > e.trial /\ Renewing(e) /\ RequirePayment
             /\ Moved(e) = [e EXCEPT !.status = "pending"]
    <2>1. PICK f : f = [e EXCEPT !.status = "pending"]
      OBVIOUS
    <2>2. f.status = "pending" /\ f.end = e.end /\ f.trial = e.trial /\ f.grace = e.grace /\ f.cur = e.cur
      BY <2>1 DEF Sub
    <2>3. Kept(f)
      BY <1>2, <2>2 DEF Kept
    <2>4. GivenUp(e, f)
      BY <1>2, <2>2 DEF Kept, GivenUp
    <2>. QED
      BY <1>2, <2>1, <2>2, <2>3, <2>4 DEF Keeps
  <1>3. CASE /\ e.status = "trial" /\ e.trial # 0 /\ now > e.trial /\ Renewing(e) /\ ~RequirePayment
             /\ Moved(e) = [e EXCEPT !.status = "active", !.start = now, !.end = now + Cycle]
    <2>1. PICK f : f = [e EXCEPT !.status = "active", !.start = now, !.end = now + Cycle]
      OBVIOUS
    <2>2. /\ f.status = "active" /\ f.end = now + Cycle /\ f.trial = e.trial /\ f.auto = e.auto
          /\ f.atEnd = e.atEnd /\ f.grace = e.grace /\ f.cur = e.cur
      BY <2>1 DEF Sub
    <2>3. Kept(f)
      BY <1>3, <2>2 DEF Kept, Renewing
    <2>4. GivenUp(e, f)
      BY <1>3, <2>2 DEF GivenUp
    <2>. QED
      BY <1>3, <2>1, <2>2, <2>3, <2>4 DEF Keeps
  <1>4. CASE e.status = "active" /\ now > e.end /\ Renewing(e) /\ RequirePayment /\ Moved(e) = Failed(e)
    <2>1. PICK f : f = Failed(e)
      OBVIOUS
    <2>2. /\ f.status = "suspended" /\ f.end = e.end /\ f.trial = e.trial /\ f.grace = now + GraceDays
          /\ f.cur = e.cur
      BY <2>1 DEF Failed, Sub
    <2>3. Kept(f)
      BY <1>4, <2>2 DEF Kept
    <2>4. GivenUp(e, f)
      BY <1>4, <2>2 DEF GivenUp
    <2>. QED
      BY <1>4, <2>1, <2>2, <2>3, <2>4 DEF Keeps
  <1>5. CASE e.status = "active" /\ now > e.end /\ Renewing(e) /\ ~RequirePayment /\ Moved(e) = Extended(e)
    <2>1. PICK f : f = Extended(e)
      OBVIOUS
    <2>2. /\ f.status = "active" /\ f.end = now + Cycle /\ f.trial = e.trial /\ f.auto = e.auto
          /\ f.atEnd = e.atEnd /\ f.grace = 0
      BY <1>5, <2>1 DEF Extended, Sub
    <2>3. Kept(f)
      BY <1>5, <2>2 DEF Kept, Renewing
    <2>4. ~Entitled(e)
      BY <1>5 DEF Kept, Entitled
    <2>. QED
      BY <1>5, <2>1, <2>3, <2>4 DEF Keeps
  <1>6. CASE /\ \/ e.status = "trial" /\ e.trial # 0 /\ now > e.trial /\ ~Renewing(e)
                \/ e.status = "active" /\ now > e.end /\ ~Renewing(e)
                \/ e.status = "cancelled" /\ now > e.end
                \/ e.status = "suspended" /\ e.grace # 0 /\ now > e.grace
             /\ Moved(e) = [e EXCEPT !.status = "expired"]
    <2>1. PICK f : f = [e EXCEPT !.status = "expired"]
      OBVIOUS
    <2>2. f.status = "expired" /\ f.end = e.end /\ f.trial = e.trial /\ f.grace = e.grace
      BY <2>1 DEF Sub
    <2>3. Kept(f)
      BY <2>2 DEF Kept
    <2>4. ~Entitled(e)
      BY <1>6 DEF Kept, Entitled
    <2>. QED
      BY <1>6, <2>1, <2>3, <2>4 DEF Keeps
  <1>. QED
    BY <1>1, <1>2, <1>3, <1>4, <1>5, <1>6, Zenon DEF Moved

LEMMA KeptLifecycle ==
    ASSUME NEW d \in Sub, now \in Nat \ {0}, Kept(d)
    PROVE  Kept(Lifecycle(d)) /\ Keeps(d, Lifecycle(d))
  <1>1. PICK e : e = WithSchedule(d)
    OBVIOUS
  <1>2. /\ e \in Sub /\ e.status = d.status /\ e.end = d.end /\ e.trial = d.trial /\ e.grace = d.grace
        /\ e.auto = d.auto /\ e.atEnd = d.atEnd /\ e.cur = d.cur
    BY <1>1 DEF WithSchedule, Sub
  <1>3. Kept(e) /\ (Entitled(d) <=> Entitled(e)) /\ AccessUntil(e) = AccessUntil(d)
    BY <1>2 DEF Kept, Renewing, Entitled, AccessUntil
  <1>4. Kept(Moved(e)) /\ Keeps(e, Moved(e))
    BY <1>2, <1>3, KeptMoved
  <1>5. PICK f : f = Moved(e)
    OBVIOUS
  <1>6. GivenUp(e, f) => GivenUp(d, f)
    BY <1>2 DEF GivenUp
  <1>7. Keeps(d, f)
    BY <1>2, <1>3, <1>4, <1>5, <1>6 DEF Keeps
  <1>. QED
    BY <1>1, <1>4, <1>5, <1>7 DEF Lifecycle

\* Whatever its owner does to it.
LEMMA KeptResult ==
    ASSUME NEW d \in Sub, now \in Nat \ {0}, Kept(d), NEW o \in {"change", "cancel", "resume", "renew", "suspend"},
           o = "suspend" => RequirePayment, ~(o = "renew" /\ RequirePayment), NEW e \in Result(o, d)
    PROVE  Kept(e) /\ Keeps(d, e)
  <1>. /\ now + Cycle \in Nat /\ now + GraceDays \in Nat /\ d.end + Cycle \in Nat
       /\ d.end \in Nat /\ d.trial \in Nat /\ d.grace \in Nat /\ d.status \in Status
    BY DEF Sub
  <1>1. CASE o = "change"
    <2>1. e \in Changed(d)
      BY <1>1 DEF Result
    <2>2. PICK q \in Plan : e = IF q > d.plan THEN [d EXCEPT !.plan = q, !.next = 0, !.nextAt = 0]
                                ELSE [d EXCEPT !.next = q, !.nextAt = d.end]
      BY <2>1 DEF Changed
    <2>3. /\ e.status = d.status /\ e.end = d.end /\ e.trial = d.trial /\ e.grace = d.grace
          /\ e.auto = d.auto /\ e.atEnd = d.atEnd /\ e.cur = d.cur /\ e \in Sub
      BY <2>2 DEF Sub
    <2>4. Kept(e)
      BY <2>3 DEF Kept, Renewing
    <2>. QED
      BY <2>3, <2>4, SameUntil
  <1>2. CASE o = "cancel"
    <2>1. e = [d EXCEPT !.status = "cancelled", !.atEnd = TRUE, !.auto = FALSE,
                        !.next = 0, !.nextAt = 0]
      BY <1>2, Zenon DEF Result, Cancelled
    <2>2. /\ e.status = "cancelled" /\ e.end = d.end /\ e.trial = d.trial /\ e.grace = d.grace
          /\ e.cur = d.cur
      BY <2>1 DEF Sub
    <2>. QED
      BY <2>2 DEF Kept, Keeps, GivenUp
  <1>3. CASE o = "resume"
    <2>1. PICK st \in {"trial", "active"} :
            /\ e = [d EXCEPT !.status = st, !.atEnd = FALSE, !.auto = TRUE]
            /\ st = "trial" => d.trial # 0
            /\ d.status = "cancelled"
      <3>1. /\ e = [d EXCEPT !.status = IF d.trial # 0 /\ now <= d.trial THEN "trial" ELSE "active",
                             !.atEnd = FALSE, !.auto = TRUE]
            /\ d.status = "cancelled"
        BY <1>3, Zenon DEF Result, Resumed
      <3>. QED
        BY <3>1
    <2>2. /\ e.status = st /\ e.end = d.end /\ e.trial = d.trial /\ e.auto = TRUE /\ e.atEnd = FALSE
          /\ e.grace = d.grace /\ e.cur = d.cur
      BY <2>1 DEF Sub
    <2>3. Kept(e)
      BY <2>1, <2>2 DEF Kept, Renewing
    <2>4. AccessUntil(e) >= AccessUntil(d)
      BY <2>1, <2>2 DEF AccessUntil
    <2>. QED
      BY <2>2, <2>3, <2>4 DEF Keeps
  <1>4. CASE o = "renew"
    <2>1. e = Extended(d) /\ Renewing(d)
      BY <1>4, Zenon DEF Result, Renewed
    <2>2. /\ e.status = "active" /\ e.trial = d.trial /\ e.auto = d.auto /\ e.atEnd = d.atEnd
          /\ e.end >= d.end /\ e.end \in Nat /\ e.grace = 0 /\ e.cur = d.cur
      BY <2>1 DEF Extended, Sub
    <2>3. Kept(e)
      BY <1>4, <2>1, <2>2 DEF Kept, Renewing
    <2>4. AccessUntil(e) >= AccessUntil(d)
      BY <1>4, <2>2 DEF Kept, AccessUntil
    <2>. QED
      BY <2>2, <2>3, <2>4 DEF Keeps
  <1>5. CASE o = "suspend"
    <2>1. e = Failed(d)
      BY <1>5, Zenon DEF Result
    <2>2. /\ e.status = "suspended" /\ e.end = d.end /\ e.trial = d.trial /\ e.grace = now + GraceDays
          /\ e.cur = d.cur
      BY <2>1 DEF Failed, Sub
    <2>. QED
      BY <1>5, <2>2 DEF Kept, Keeps, GivenUp
  <1>. QED
    BY <1>1, <1>2, <1>3, <1>4, <1>5

LEMMA TimelyIdle == Timely(Idle)
  BY DEF Timely, Idle

\* A step that leaves the clock alone and writes at most one row.
LEMMA TermsStep ==
    ASSUME IInv, Terms, NEW r \in Req, NEW q, Timely(q), Step(r, q), UNCHANGED now,
           \/ UNCHANGED sub
           \/ \E s \in Row, d \in Sub :
                 /\ sub' = [sub EXCEPT ![s] = d]
                 /\ Kept(d)
                 /\ s \in Rows => Keeps(sub[s], d)
    PROVE  Terms' /\ AccessStep
  <1>1. req \in [Req -> Request] /\ sub \in [Row -> Sub \cup {None}] /\ req' = [req EXCEPT ![r] = q]
    BY DEF IInv, TypeOK, Step
  <1>2. ASSUME NEW t \in Req PROVE Timely(req[t])'
    <2>1. PICK p : p = req'[t]
      OBVIOUS
    <2>2. Timely(p)
      BY <1>1, <2>1 DEF Terms
    <2>. QED
      BY <2>1, <2>2, SameDay DEF Timely, Kept, Renewing, Blocks
  <1>3. CASE UNCHANGED sub
    <2>1. Rows' = Rows
      BY <1>3 DEF Rows
    <2>2. \A s \in Rows' : Kept(sub[s])'
      BY <1>3, <2>1 DEF Terms, Kept, Renewing
    <2>3. AccessStep
      BY <1>3, RowKeeps DEF AccessStep
    <2>. QED
      BY <1>2, <2>2, <2>3 DEF Terms
  <1>4. ASSUME NEW s \in Row, NEW d \in Sub, sub' = [sub EXCEPT ![s] = d], Kept(d),
               s \in Rows => Keeps(sub[s], d)
        PROVE  Terms' /\ AccessStep
    <2>1. sub'[s] = d /\ \A t \in Row \ {s} : sub'[t] = sub[t]
      BY <1>1, <1>4
    <2>2. ASSUME NEW t \in Rows' PROVE Kept(sub[t])'
      <3>1. PICK c : c = sub'[t]
        OBVIOUS
      <3>2. Kept(c)
        BY <1>4, <2>1, <3>1 DEF Terms, Rows
      <3>. QED
        BY <3>1, <3>2 DEF Kept, Renewing
    <2>3. ASSUME NEW t \in Rows PROVE sub'[t] # None /\ Keeps(sub[t], sub'[t])
      <3>1. CASE t = s
        BY <1>4, <2>1, <3>1, NoneIsNoRow
      <3>2. CASE t # s
        <4>1. sub'[t] = sub[t] /\ sub[t] # None
          BY <2>1, <3>2 DEF Rows
        <4>. QED
          BY <4>1, RowKeeps
      <3>. QED
        BY <3>1, <3>2
    <2>4. AccessStep
      BY <2>3 DEF AccessStep
    <2>. QED
      BY <1>2, <2>2, <2>4 DEF Terms
  <1>. QED
    BY <1>3, <1>4

LEMMA TermsStored ==
    ASSUME IInv, Terms, NEW r \in Req, NEW doc \in Sub, NEW label, Store(r, doc, label),
           req[r].was \in Sub, req[r].s \in Row, UNCHANGED now, "overwrote" \notin hazard',
           Kept(req[r].was) /\ req[r].day = now => Kept(doc) /\ Keeps(req[r].was, doc),
           LET held == IF label = "announce" THEN None ELSE doc
           IN Timely([req[r] EXCEPT !.at = label, !.doc = held, !.was = held])
    PROVE  Terms' /\ AccessStep
  <1>. DEFINE s == req[r].s
              was == req[r].was
              row == Merge(sub[s], was, doc)
              held == IF label = "announce" THEN None ELSE doc
              q == [req[r] EXCEPT !.at = label, !.doc = held, !.was = held]
  <1>1. CASE ~Storable(r, doc)
    <2>1. Step(r, Idle) /\ UNCHANGED <<now, sub>>
      BY <1>1 DEF Store, Done
    <2>. QED
      BY <2>1, TimelyIdle, TermsStep
  <1>2. CASE Storable(r, doc)
    <2>1. /\ sub' = [sub EXCEPT ![s] = row] /\ Step(r, q) /\ sub[s] # None
          /\ ~(Stale(r) /\ row # sub[s])
      BY <1>2 DEF Store, Storable, Note
    <2>2. sub[s] \in Sub /\ s \in Rows
      BY <2>1 DEF IInv, TypeOK, Rows
    <2>3. CASE row = sub[s]
      <3>1. UNCHANGED sub
        BY <2>1, <2>3 DEF IInv, TypeOK
      <3>. QED
        BY <2>1, <3>1, TermsStep
    <2>4. CASE ~Stale(r)
      <3>1. sub[s] = was /\ req[r].day = now
        BY <2>4, NoneIsNoRow DEF Stale
      <3>2. row = doc
        <4>1. PICK c : c = was
          OBVIOUS
        <4>2. Merge(c, c, doc) = doc
          BY <4>1 DEF Merge, Sub
        <4>. QED
          BY <3>1, <4>1, <4>2
      <3>3. Kept(doc) /\ Keeps(sub[s], doc)
        BY <2>2, <3>1 DEF Terms
      <3>. HIDE DEF s, q, row
      <3>. QED
        <4>1. Timely(q)
          BY DEF q
        <4>2. s \in Row
          BY DEF s
        <4>. QED
          BY <2>1, <3>2, <3>3, <4>1, <4>2, TermsStep
    <2>. QED
      BY <2>1, <2>3, <2>4
  <1>. QED
    BY <1>1, <1>2

LEMMA InAccess ==
    ASSUME AccessInv, Undisturbed, NEW r \in Req
    PROVE  /\ IInv /\ Terms /\ Timely(req[r]) /\ Read(req[r]) /\ req[r] \in Request /\ Fits(req[r])
           /\ now \in Nat \ {0} /\ \A s \in Rows : s \in Row /\ sub[s] \in Sub
  BY InHand, RowTypes DEF AccessInv, CacheInv, Terms, Reads, IInv, TypeOK

LEMMA BeginTerms ==
    ASSUME AccessInv, Undisturbed, Undisturbed', NEW r \in Req, Begin(r)
    PROVE  Terms' /\ AccessStep
  <1>1. PICK o \in Op \ ByAdmin : Step(r, [Idle EXCEPT !.op = o, !.at = "find", !.day = now])
    BY DEF Begin, Note, Undisturbed, ByAdmin
  <1>2. PICK q : Step(r, q) /\ q.at = "find" /\ q.op = o
    <2>1. LET q == [Idle EXCEPT !.op = o, !.at = "find", !.day = now] IN q.at = "find" /\ q.op = o
      BY DEF Idle
    <2>. QED
      BY <1>1, <2>1
  <1>3. Timely(q)
    BY <1>2 DEF Timely
  <1>. QED
    BY <1>2, <1>3, InAccess, TermsStep DEF Begin

LEMMA FindTerms == ASSUME AccessInv, Undisturbed, NEW r \in Req, Find(r) PROVE Terms' /\ AccessStep
  <1>. DEFINE o == req[r].op
              found == Onward(o, TRUE)
  <1>1. /\ IInv /\ Terms /\ now \in Nat /\ UNCHANGED <<now, sub>> /\ req[r] \in Request
        /\ o \in OpName \ (ByAdmin \cup {"lose"}) /\ \A s \in Rows : s \in Row /\ sub[s] \in Sub
        /\ req[r].doc = None
    <2>1. /\ Fits(req[r]) /\ Timely(req[r]) /\ req[r].at = "find"
      BY InAccess DEF Find, At
    <2>2. o \in OpName \ (ByAdmin \cup {"lose"}) /\ req[r].doc = None
      BY <2>1 DEF Fits, Timely, ByAdmin, ById
    <2>. QED
      BY <2>2, InAccess DEF Find
  <1>2. ASSUME NEW q, Timely(q), Step(r, q) \/ Step(r, Idle) PROVE Terms' /\ AccessStep
    BY <1>1, <1>2, TimelyIdle, TermsStep
  <1>3. CASE Current = {}
    <2>. DEFINE q == [req[r] EXCEPT !.at = Onward(o, FALSE)]
    <2>1. Step(r, q) \/ Step(r, Idle)
      BY <1>3 DEF Find, Proceed
    <2>2. q.at = Onward(o, FALSE) /\ q.op = o /\ q.doc = None
      BY <1>1 DEF Request
    <2>3. Onward(o, FALSE) \in {"idle", "fill", "act"}
      BY <1>1, OnwardCases, ZenonT(60) DEF ByAdmin
    <2>. HIDE DEF q
    <2>4. Timely(q)
      BY <1>1, <2>2, <2>3 DEF Timely
    <2>. QED
      BY <1>2, <2>1, <2>4
  <1>4. ASSUME NEW s, NEW doc
        PROVE  LET held == [[req[r] EXCEPT !.at = found] EXCEPT !.s = s, !.was = sub[s], !.doc = doc]
               IN Timely([held EXCEPT !.at = "save"]) /\ Timely(held)
    <2>. DEFINE held == [[req[r] EXCEPT !.at = found] EXCEPT !.s = s, !.was = sub[s], !.doc = doc]
                v == [held EXCEPT !.at = "save"]
    <2>1. held.at = found /\ held.op = o /\ v.at = "save" /\ v.op = o
      BY <1>1 DEF Request
    <2>2. found \in {"idle", "fill", "act"}
      BY <1>1, OnwardCases, ZenonT(60) DEF ByAdmin
    <2>. HIDE DEF held, v, found, o
    <2>. QED
      BY <1>1, <2>1, <2>2 DEF Timely, held, v
  <1>5. CASE Current # {}
    <2>1. PICK s \in Current :
            LET doc == IF o = "grant" THEN sub[s] ELSE Lifecycle(sub[s])
                held == [[req[r] EXCEPT !.at = found] EXCEPT !.s = s, !.was = sub[s], !.doc = doc]
            IN IF doc = sub[s] THEN Proceed(r, held) ELSE Step(r, [held EXCEPT !.at = "save"])
      BY <1>1, <1>5 DEF Find
    <2>. HIDE DEF found, o
    <2>. QED
      BY <1>2, <1>4, <2>1 DEF Proceed
  <1>. QED
    BY <1>3, <1>5

LEMMA SaveTerms ==
    ASSUME AccessInv, Undisturbed, Undisturbed', NEW r \in Req, Save(r)
    PROVE  Terms' /\ AccessStep
  <1>. DEFINE label == Onward(req[r].op, TRUE)
              doc == req[r].doc
              was == req[r].was
              q == [req[r] EXCEPT !.at = label, !.doc = doc, !.was = doc]
  <1>1. /\ IInv /\ Terms /\ now \in Nat \ {0} /\ UNCHANGED now /\ req[r] \in Request
        /\ req[r].op \in OpName \ (ByAdmin \cup {"lose"})
        /\ doc \in Sub /\ was \in Sub /\ req[r].s \in Row
        /\ req[r].day = now => doc = Lifecycle(was)
        /\ Store(r, doc, label)
    <2>1. Fits(req[r]) /\ Timely(req[r]) /\ Read(req[r]) /\ req[r].at = "save"
      BY InAccess DEF Save, At
    <2>2. req[r].op \in OpName \ (ByAdmin \cup {"lose"})
      BY <2>1 DEF Fits, Timely, ByAdmin, ById
    <2>3. /\ doc \in Sub /\ was \in Sub /\ req[r].s \in Row
          /\ req[r].day = now => doc = Lifecycle(was)
      BY <2>1, <2>2 DEF Fits, Read, ByAdmin
    <2>. QED
      BY <2>2, <2>3, InAccess DEF Save
  <1>2. label \in {"idle", "fill", "act"}
    BY <1>1, OnwardCases, ZenonT(60) DEF ByAdmin
  <1>3. q.at = label /\ q.op = req[r].op /\ q.doc = doc /\ q.day = req[r].day
    BY <1>1 DEF Request
  <1>. HIDE DEF q, label, doc, was
  <1>4. Timely(q)
    BY <1>1, <1>2, <1>3 DEF Timely
  <1>5. Kept(was) /\ req[r].day = now => Kept(doc) /\ Keeps(was, doc)
    BY <1>1, KeptLifecycle
  <1>6. label # "announce" /\ "overwrote" \notin hazard'
    BY <1>2 DEF Undisturbed
  <1>7. LET held == IF label = "announce" THEN None ELSE doc
        IN Timely([req[r] EXCEPT !.at = label, !.doc = held, !.was = held])
    BY <1>4, <1>6 DEF q
  <1>. QED
    BY <1>1, <1>5, <1>6, <1>7, TermsStored DEF was

LEMMA BreakOffTerms ==
    ASSUME AccessInv, Undisturbed, NEW r \in Req, BreakOff(r), UNCHANGED now
    PROVE  Terms' /\ AccessStep
  <1>1. IInv /\ Terms /\ Step(r, Idle) /\ UNCHANGED <<now, sub>>
    BY InAccess DEF BreakOff, Done
  <1>. QED
    BY <1>1, TimelyIdle, TermsStep

LEMMA LoadTerms ==
    ASSUME AccessInv, Undisturbed, NEW r \in Req, Load(r) \/ RenewFails(r)
    PROVE  Terms' /\ AccessStep
  <1>1. /\ IInv /\ Terms /\ UNCHANGED now /\ req[r] \in Request /\ Fits(req[r]) /\ Timely(req[r])
    BY InAccess DEF Load, RenewFails
  <1>2. CASE Load(r)
    <2>. DEFINE d == sub[req[r].s]
                q == [req[r] EXCEPT !.at = "act", !.was = d, !.doc = d]
    <2>1. CASE d = None
      BY <1>2, <2>1, BreakOffTerms DEF Load
    <2>2. CASE d # None
      <3>1. Step(r, q) /\ UNCHANGED <<now, sub>> /\ req[r].at = "load"
        BY <1>2, <2>2 DEF Load, At
      <3>2. q.at = "act" /\ q.op = req[r].op
        BY <1>1 DEF Request
      <3>. HIDE DEF q
      <3>3. Timely(q)
        BY <1>1, <3>1, <3>2 DEF Timely
      <3>. QED
        BY <1>1, <3>1, <3>3, TermsStep
    <2>. QED
      BY <2>1, <2>2
  <1>3. CASE RenewFails(r)
    <2>. DEFINE q == [Idle EXCEPT !.op = "suspend", !.at = "load", !.s = req[r].s, !.day = now]
    <2>1. q.at = "load" /\ q.op = "suspend"
      BY DEF Idle
    <2>2. (Step(r, Idle) \/ Step(r, q)) /\ UNCHANGED <<now, sub>>
      BY <1>3 DEF RenewFails, Done
    <2>. HIDE DEF q
    <2>3. Timely(q)
      BY <1>3, <2>1 DEF Timely, RenewFails
    <2>. QED
      BY <1>1, <2>2, <2>3, TimelyIdle, TermsStep
  <1>. QED
    BY <1>2, <1>3

LEMMA ApplyTerms ==
    ASSUME AccessInv, Undisturbed, Undisturbed', NEW r \in Req, Apply(r)
    PROVE  Terms' /\ AccessStep
  <1>. DEFINE d == req[r].doc
              o == req[r].op
  <1>1. /\ IInv /\ Terms /\ UNCHANGED now /\ now \in Nat \ {0} /\ req[r] \in Request
        /\ d \in Sub /\ req[r].was = d /\ req[r].s \in Row
        /\ o \in {"change", "cancel", "resume", "renew", "suspend"} /\ o \in Changing
        /\ ~(o = "renew" /\ RequirePayment)
        /\ o = "suspend" => RequirePayment
    <2>1. /\ IInv /\ Terms /\ UNCHANGED now /\ now \in Nat \ {0} /\ req[r] \in Request
          /\ Fits(req[r]) /\ Timely(req[r]) /\ req[r].at = "act" /\ o \in Changing
          /\ ~(o = "renew" /\ RequirePayment)
      BY InAccess DEF Apply, At
    <2>2. o \in {"change", "cancel", "resume", "renew", "suspend"} /\ (o = "suspend" => RequirePayment)
      BY <2>1 DEF Timely, Changing, ByAdmin, ById
    <2>3. d # None /\ d \in Sub /\ req[r].was = d /\ req[r].s \in Row
      BY <2>1, <2>2 DEF Fits, Request
    <2>. QED
      BY <2>1, <2>2, <2>3
  <1>2. CASE Answered(r)
    BY <1>1, <1>2, TimelyIdle, TermsStep DEF Answered, Done
  <1>3. ASSUME NEW doc \in Result(o, d), Store(r, doc, "announce")
        PROVE  Terms' /\ AccessStep
    <2>. DEFINE q == [req[r] EXCEPT !.at = "announce", !.doc = None, !.was = None]
    <2>1. doc \in Sub
      BY <1>1, <1>3, ResultType
    <2>2. q.at = "announce" /\ q.op = o
      BY <1>1 DEF Request
    <2>. HIDE DEF q
    <2>3. Timely(q)
      <3>1. Timely(req[r]) /\ req[r].at = "act"
        BY InAccess DEF Apply, At
      <3>. QED
        BY <2>2, <3>1 DEF Timely
    <2>4. Kept(req[r].was) /\ req[r].day = now => Kept(doc) /\ Keeps(req[r].was, doc)
      BY <1>1, <1>3, KeptResult
    <2>5. "overwrote" \notin hazard'
      BY DEF Undisturbed
    <2>6. LET held == IF "announce" = "announce" THEN None ELSE doc
          IN Timely([req[r] EXCEPT !.at = "announce", !.doc = held, !.was = held])
      BY <2>3 DEF q
    <2>7. req[r].was \in Sub
      BY <1>1
    <2>. QED
      BY <1>1, <1>3, <2>1, <2>4, <2>5, <2>6, <2>7, TermsStored
  <1>. QED
    BY <1>2, <1>3 DEF Apply

LEMMA KeptFresh ==
    ASSUME NEW st \in Status, NEW plan \in Plan, NEW trial \in Nat, NEW auto \in BOOLEAN, now \in Nat,
           st \in {"trial", "active"} => auto = TRUE, st = "trial" => trial # 0
    PROVE  Kept(Fresh(st, plan, trial, auto))
  BY DEF Fresh, Kept, Renewing

LEMMA StartTerms == ASSUME AccessInv, Undisturbed, NEW r \in Req, Start(r) PROVE Terms' /\ AccessStep
  <1>1. /\ IInv /\ Terms /\ Timely(req[r]) /\ req[r] \in Request /\ req[r].at = "act"
        /\ req[r].op = "start" /\ UNCHANGED <<now, sub>> /\ now \in Nat
    BY InAccess DEF Start, At
  <1>2. CASE Step(r, Idle)
    BY <1>1, <1>2, TimelyIdle, TermsStep
  <1>3. CASE ~Step(r, Idle)
    <2>. DEFINE trial == IF TrialDays > 0 /\ ~HasUsedTrial THEN now + TrialDays ELSE 0
                st == CASE trial # 0 -> "trial" [] RequirePayment -> "pending" [] OTHER -> "active"
                label == IF req[r].doc = None THEN "create" ELSE "retire"
    <2>1. PICK plan \in Plan : Step(r, [req[r] EXCEPT !.new = Fresh(st, plan, trial, TRUE), !.at = label])
      BY <1>3 DEF Start, Done
    <2>0. label = "retire" => ~Blocks(req[r].doc)
      BY <1>3 DEF Start, Done
    <2>2. trial \in Nat /\ st \in Status /\ (st = "trial" => trial # 0)
      <3>1. trial \in Nat
        BY <1>1
      <3>. HIDE DEF trial
      <3>2. st \in Status /\ (st = "trial" => trial # 0)
        BY Zenon DEF Status
      <3>. QED
        BY <3>1, <3>2
    <2>. DEFINE new == Fresh(st, plan, trial, TRUE)
                q == [req[r] EXCEPT !.new = new, !.at = label]
    <2>. HIDE DEF trial, st
    <2>3. Kept(new)
      BY <1>1, <2>2, KeptFresh
    <2>. HIDE DEF new
    <2>4. q.at = label /\ q.op = "start" /\ q.new = new /\ q.doc = req[r].doc
      BY <1>1 DEF Request
    <2>5. Step(r, q)
      BY <2>1 DEF new
    <2>. HIDE DEF q
    <2>6. Timely(q)
      BY <1>1, <2>0, <2>3, <2>4 DEF Timely, ByAdmin, ById
    <2>. QED
      BY <1>1, <2>5, <2>6, TermsStep
  <1>. QED
    BY <1>2, <1>3

LEMMA RetireTerms ==
    ASSUME AccessInv, Undisturbed, Undisturbed', NEW r \in Req, Retire(r)
    PROVE  Terms' /\ AccessStep
  <1>. DEFINE d == req[r].doc
              doc == [d EXCEPT !.cur = FALSE]
              q == [req[r] EXCEPT !.at = "create", !.doc = doc, !.was = doc]
  <1>1. /\ IInv /\ Terms /\ Timely(req[r]) /\ req[r] \in Request /\ req[r].at = "retire"
        /\ UNCHANGED now /\ d \in Sub /\ req[r].was = d /\ req[r].s \in Row
        /\ Store(r, doc, "create") /\ now \in Nat
        /\ req[r].day = now => ~Blocks(d)
    BY InAccess DEF Retire, At, Fits, Timely
  <1>2. /\ doc \in Sub
        /\ doc.status = d.status /\ doc.end = d.end /\ doc.trial = d.trial /\ doc.grace = d.grace
        /\ doc.auto = d.auto /\ doc.atEnd = d.atEnd
    BY <1>1 DEF Sub
  <1>0. d.status \in Status /\ d.end \in Nat /\ d.grace \in Nat
    BY <1>1 DEF Sub
  <1>3. q.at = "create" /\ q.op = req[r].op /\ q.new = req[r].new
    BY <1>1 DEF Request
  <1>. HIDE DEF doc, q
  <1>4. Timely(q)
    BY <1>1, <1>3 DEF Timely
  <1>5. Kept(d) /\ req[r].day = now => Kept(doc) /\ Keeps(d, doc)
    <2>1. Kept(d) => Kept(doc)
      BY <1>2 DEF Kept, Renewing
    <2>2. AccessUntil(doc) = AccessUntil(d) /\ AccessUntil(d) \in Nat
      BY <1>0, <1>2 DEF AccessUntil
    <2>3. Entitled(d) /\ ~Blocks(d) => d.status = "expired"
      BY <1>0, <1>1 DEF Entitled, Blocks, Status
    <2>. QED
      BY <1>1, <2>1, <2>2, <2>3 DEF Keeps
  <1>6. LET held == IF "create" = "announce" THEN None ELSE doc
        IN Timely([req[r] EXCEPT !.at = "create", !.doc = held, !.was = held])
    BY <1>4 DEF q
  <1>7. "overwrote" \notin hazard' /\ req[r].was \in Sub
    BY <1>1 DEF Undisturbed
  <1>8. Kept(req[r].was) /\ req[r].day = now => Kept(doc) /\ Keeps(req[r].was, doc)
    BY <1>1, <1>5
  <1>. QED
    BY <1>1, <1>2, <1>6, <1>7, <1>8, TermsStored

LEMMA InsertTerms ==
    ASSUME AccessInv, Undisturbed, NEW r \in Req, At(r, "create"), NEW row \in Sub, Kept(row),
           Insert(r, row), UNCHANGED now
    PROVE  Terms' /\ AccessStep
  <1>1. IInv /\ Terms /\ Timely(req[r]) /\ req[r] \in Request /\ req[r].at = "create"
    BY InAccess DEF At
  <1>2. CASE Current # {}
    <2>1. Step(r, Idle) /\ UNCHANGED <<now, sub>>
      BY <1>2 DEF Insert, Answered, Done
    <2>. QED
      BY <1>1, <2>1, TimelyIdle, TermsStep
  <1>3. CASE Current = {}
    <2>1. PICK s \in Row \ Rows :
            /\ sub' = [sub EXCEPT ![s] = row]
            /\ Step(r, [req[r] EXCEPT !.at = "announce", !.s = s, !.was = None, !.doc = None, !.new = None])
      BY <1>3 DEF Insert
    <2>2. PICK q : q = [req[r] EXCEPT !.at = "announce", !.s = s, !.was = None, !.doc = None, !.new = None]
      OBVIOUS
    <2>3. q.at = "announce" /\ q.op = req[r].op /\ Step(r, q)
      BY <1>1, <2>1, <2>2 DEF Request
    <2>4. Timely(q)
      BY <1>1, <2>3 DEF Timely
    <2>5. s \in Row /\ s \notin Rows
      BY <2>1
    <2>. QED
      BY <1>1, <2>1, <2>3, <2>4, <2>5, TermsStep
  <1>. QED
    BY <1>2, <1>3

LEMMA CreateTerms == ASSUME AccessInv, Undisturbed, NEW r \in Req, Create(r) PROVE Terms' /\ AccessStep
  <1>1. /\ Fits(req[r]) /\ Timely(req[r]) /\ UNCHANGED now /\ At(r, "create") /\ req[r].at = "create"
    BY InAccess DEF Create, At
  <1>2. req[r].op = "start" /\ req[r].new \in Sub /\ Kept(req[r].new)
    BY <1>1 DEF Fits, Timely, ByAdmin
  <1>. QED
    BY <1>1, <1>2, InsertTerms DEF Create

LEMMA DeleteNever == ASSUME AccessInv, Undisturbed, NEW r \in Req PROVE ~Delete(r)
  BY InAccess DEF Delete, At, Timely, ByAdmin, ById

LEMMA AnswerTerms ==
    ASSUME AccessInv, Undisturbed, NEW r \in Req, Announce(r) \/ Fill(r)
    PROVE  Terms' /\ AccessStep
  <1>1. IInv /\ Terms /\ Step(r, Idle) /\ UNCHANGED <<now, sub>>
    BY InAccess DEF Announce, Fill, Done
  <1>. QED
    BY <1>1, TimelyIdle, TermsStep

\* Who began on another day takes nothing for granted.
LEMMA TickTerms == ASSUME AccessInv, Undisturbed, Tick PROVE Terms' /\ AccessStep
  <1>1. UNCHANGED <<sub, req>> /\ Terms /\ now' = now + 1 /\ now \in Nat
    BY DEF Tick, AccessInv, CacheInv, IInv, TypeOK
  <1>2. Rows' = Rows
    BY <1>1 DEF Rows
  <1>3. \A s \in Rows' : Kept(sub[s])'
    BY <1>1, <1>2 DEF Terms, Kept, Renewing
  <1>4. ASSUME NEW t \in Req PROVE Timely(req[t])'
    <2>1. Timely(req[t]) /\ req[t].day <= now /\ req[t].day \in Nat
      BY <1>1 DEF Terms, AccessInv, CacheInv, Reads, Read, IInv, TypeOK, Request
    <2>2. req[t].day # now'
      BY <1>1, <2>1
    <2>. QED
      BY <1>1, <2>1, <2>2 DEF Timely, Kept, Renewing
  <1>5. AccessStep
    BY <1>1 DEF AccessStep
  <1>. QED
    BY <1>3, <1>4, <1>5 DEF Terms

LEMMA AccessNext ==
    AccessInv /\ [SubNext]_subVars => AccessInv' /\ AccessStep
  <1>. SUFFICES ASSUME AccessInv, [SubNext]_subVars, Undisturbed' PROVE Terms' /\ AccessStep
    BY CacheNext DEF AccessInv, AccessStep, Undisturbed
  <1>1. Undisturbed
    BY HazardStays DEF Undisturbed
  <1>2. ASSUME NEW r \in Req, Serve(r) PROVE Terms' /\ AccessStep
    BY <1>1, <1>2, FindTerms, SaveTerms, LoadTerms, ApplyTerms, StartTerms, RetireTerms,
       CreateTerms, DeleteNever, AnswerTerms DEF Serve
  <1>3. ASSUME NEW r \in Req, Lose(r) PROVE Terms' /\ AccessStep
    BY <1>1, <1>3, BreakOffTerms DEF Lose
  <1>4. CASE UNCHANGED <<now, sub, req>>
    <2>1. Terms'
      BY <1>1, <1>4, SameDay DEF AccessInv, Terms, Timely, Kept, Renewing, Rows, Blocks
    <2>2. AccessStep
      BY <1>4, RowKeeps DEF AccessStep, AccessInv, CacheInv
    <2>. QED
      BY <2>1, <2>2
  <1>. QED
    BY <1>1, <1>2, <1>3, <1>4, BeginTerms, TickTerms DEF SubNext, subVars, Lapse

\* As long as no administrator steps in, the last day of access moves to an earlier one
\* only where GivenUp says so, or a start replaces a row expired with days of grace.
THEOREM AccessIsKeptHolds == Spec => AccessIsKept
  <1>1. Init => AccessInv
    <2>. SUFFICES ASSUME Init PROVE CacheInv /\ Terms
      BY DEF AccessInv
    <2>1. Rows = {} /\ \A r \in Req : req[r] = Idle
      BY DEF Init, Rows
    <2>. QED
      BY <2>1, TimelyIdle, InitCache DEF Terms
  <1>2. AccessInv /\ [SubNext]_subVars =>
          [\A s \in Current : Entitled(sub[s]) /\ now' = now =>
             \/ hazard' \cap {"overwrote", "admin"} # {}
             \/ /\ sub'[s] # None /\ (sub'[s].cur \/ sub[s].status = "expired")
                /\ AccessUntil(sub'[s]) >= AccessUntil(sub[s]) \/ GivenUp(sub[s], sub'[s])]_subVars
    BY AccessNext DEF AccessStep, Undisturbed, Keeps, Current
  <1>. QED
    BY <1>1, <1>2, AccessNext, PTL DEF Spec, AccessIsKept

=============================================================================
