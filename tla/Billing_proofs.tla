--------------------------- MODULE Billing_proofs ---------------------------
(* Theorems about Billing.                                                 *)
EXTENDS Billing, Subscriptions_proofs

USE SubscriptionAssumption, NoneIsNoRow, BillingAssumption
    DEF SubscriptionAssumption, BillingAssumption

-----------------------------------------------------------------------------
(* The inductive invariant.                                                *)

\* A payment that was a success: it says so, or it was refunded or overwritten since.
Succeeded(p) == Holds(p, "success") \/ Refunded(p) \/ p \in overpaid

\* What is reported of a payment is so at the provider.
Reported(p, out) ==
    /\ out \in {"paid", "succeeded"} => prov[p] = "paid"
    /\ out = "cancelled" => prov[p] = "cancelled"
    /\ out = "refunded" => Refunded(p)

\* A row, or a copy of one, that names a payment was activated by it.
Earned(d) == d.ref \in Pay => grants[d.ref] > 0

Finding == (OpName \ (ById \cup {"lose"})) \cup {"checkout"}
Paying == {"claim", "read", "ask", "charge", "settle", "commit", "success", "invoice", "void"}

\* What a request has in hand of the rows at each of its labels.
RowFits(q) ==
    /\ q.at = "find" => q.op \in Finding /\ q.doc = None
    /\ q.at = "load" => q.op \in ById \cup {"checkout", "mark", "granted"} /\ q.s \in Row
    /\ q.at = "save" => q.op \in Finding /\ q.s \in Row /\ q.was \in Sub /\ q.doc \in Sub
    /\ q.at = "act" =>
          /\ q.op \in Changing \cup {"start", "delete", "checkout", "mark", "granted"}
          /\ q.doc = None => q.op = "start"
          /\ q.doc # None => q.s \in Row /\ q.was = q.doc
    /\ q.at = "retire" =>
          q.op \in {"start", "grant"} /\ q.s \in Row /\ q.was \in Sub /\ q.doc = q.was
    /\ q.at = "create" => q.op \in {"start", "grant"}
    /\ q.at \in {"insert", "session"} => q.s \in Row
    /\ q.at \in {"retire", "create"} /\ q.op = "start" => q.new \in Sub /\ q.new.ref = "none"
    /\ q.was # None => Earned(q.was)
    /\ q.doc # None => Earned(q.doc)

\* What it has in hand of a payment.
PayFits(q) ==
    /\ q.at \in Paying => q.p \in Pay /\ pay[q.p] # None /\ prov[q.p] # "none"
    /\ q.at = "claim" => q.op = "webhook" /\ <<q.p, q.out>> \in mail
    /\ q.at = "read" => /\ q.op \in {"webhook", "verify", "refund"}
                        /\ q.op = "webhook" => q.out \in Outcome /\ Reported(q.p, q.out)
    /\ q.at \in {"ask", "charge", "settle", "commit"} =>
          q.copy \in Payment /\ (q.copy.status = "success" => Succeeded(q.p))
    /\ q.at \in {"settle", "commit", "success", "void"} =>
          q.out \in Outcome /\ Reported(q.p, q.out)
    /\ q.at \in {"commit", "success"} => q.out = "paid"
    /\ q.at = "invoice" => prov[q.p] = "paid"
    /\ q.at = "void" => q.out \in {"cancelled", "refunded"}
    /\ q.at = "insert" => q.copy \in Payment /\ q.copy.status = "pending" /\ ~q.copy.url
    /\ q.at = "session" => q.p \in Pay /\ pay[q.p] # None /\ prov[q.p] = "none"
    /\ q.at \in {"load", "act"} /\ q.op = "granted" => q.p \in Pay
    /\ tx => /\ q.at \notin {"success", "invoice"}
             /\ ~(q.at \in {"load", "act"} /\ q.op = "granted")

\* What is known of a payment whatever requests are at work.
Sound(p) ==
    /\ pay[p] = None => prov[p] = "none"
    /\ pay[p] # None /\ pay[p].url => prov[p] # "none"
    /\ \A out \in Outcome \cup {"succeeded"} : <<p, out>> \in mail => prov[p] # "none" /\ Reported(p, out)
    /\ prov[p] = "paid" => <<p, "paid">> \in mail
    /\ Holds(p, "success") => prov[p] = "paid"
    /\ tx /\ grants[p] > 0 => Succeeded(p)
    /\ tx /\ grants[p] > 1 => Refunded(p) \/ p \in overpaid

\* q will activate a subscription for p.
Serves(q, p) ==
    /\ q.p = p
    /\ \/ q.at = "invoice"
       \/ q.at \in {"load", "act"} /\ q.op = "granted" /\ inv[p] = "paid"

ServedNow(p) == (grants[p] > 0 /\ inv[p] = "paid") \/ Refunded(p) \/ p \in hazard

Served(p) == Holds(p, "success") => ServedNow(p) \/ \E r \in Req : Serves(req[r], p)

\* q will make p a success.
Settles(q, p) ==
    /\ q.p = p
    /\ q.out = "paid"
    /\ \/ q.at \in {"settle", "commit", "success"}
       \/ q.at = "read" /\ q.op = "webhook"

SettledNow(p) == Succeeded(p) \/ p \in hazard

Claimed(p) == <<p, "paid">> \in claimed => SettledNow(p) \/ \E r \in Req : Settles(req[r], p)

BillInv ==
    /\ BillTypeOK
    /\ \A s \in Rows : Earned(sub[s])
    /\ \A r \in Req : RowFits(req[r]) /\ PayFits(req[r])
    /\ \A r, t \in Req : At(r, "session") /\ At(t, "session") /\ req[r].p = req[t].p => r = t
    /\ \A p \in Pay : Sound(p) /\ Served(p) /\ Claimed(p)

Hazards == {"overwrote", "stripped", "removed", "admin"} \cup Pay

LEMMA InBill ==
    ASSUME BillInv, NEW r \in Req
    PROVE  /\ req[r] \in BillRequest /\ RowFits(req[r]) /\ PayFits(req[r])
           /\ now \in Nat /\ cache \in CacheType /\ hazard \subseteq Hazards
           /\ sub \in [Row -> Sub \cup {None}] /\ req \in [Req -> BillRequest]
  BY DEF BillInv, BillTypeOK, CacheType, Hazards

LEMMA InRow ==
    ASSUME BillInv, NEW s \in Row, sub[s] # None
    PROVE  sub[s] \in Sub /\ Earned(sub[s])
  BY DEF BillInv, BillTypeOK, Rows

LEMMA BillLate == ASSUME BillTypeOK PROVE Late(cache) \in CacheType /\ None \in CacheType
  BY DEF BillTypeOK, Late, CacheType

\* A request that is between two steps of the rows has no payment to fit.
LEMMA RowLabels ==
    ASSUME NEW q, q.at \in Label, ~(q.at \in {"load", "act"} /\ q.op = "granted")
    PROVE  PayFits(q)
  BY DEF PayFits, Label, Paying

LEMMA IdleFitsBill == Idle \in BillRequest /\ RowFits(Idle) /\ PayFits(Idle) /\ Idle.at = "idle"
  <1>1. Idle \in BillRequest /\ Idle.at = "idle" /\ Idle.was = None /\ Idle.doc = None
    BY DEF Idle, BillRequest, Label
  <1>. QED
    BY <1>1, RowLabels DEF RowFits, Label

\* What stays true of the payments whatever is done.
Grows ==
    /\ mail \subseteq mail'
    /\ hazard \subseteq hazard'
    /\ \A p \in Pay : /\ prov[p] \in {"paid", "cancelled"} => prov'[p] = prov[p]
                      /\ prov[p] # "none" => prov'[p] # "none"
                      /\ pay[p] # None => pay'[p] # None
                      /\ Succeeded(p) => Succeeded(p)'
                      /\ grants[p] > 0 => grants'[p] > 0

\* So a request keeps what it has in hand.
LEMMA FitsOn ==
    ASSUME Grows, UNCHANGED tx, NEW q, q \in BillRequest, RowFits(q), PayFits(q),
           q.at = "session" => prov'[q.p] = prov[q.p]
    PROVE  RowFits(q)' /\ PayFits(q)'
  <1>1. ASSUME NEW d \in Sub, Earned(d)
        PROVE  Earned(d)'
    BY <1>1 DEF Earned, Grows
  <1>2. RowFits(q)'
    <2>1. (q.was # None => Earned(q.was)') /\ (q.doc # None => Earned(q.doc)')
      BY <1>1 DEF RowFits, BillRequest
    <2>. QED
      BY <2>1 DEF RowFits
  <1>3. ASSUME NEW p \in Pay, NEW out, Reported(p, out)
        PROVE  Reported(p, out)'
    BY <1>3 DEF Reported, Refunded, Grows
  <1>4. PayFits(q)'
    <2>1. q.at \in Paying => q.p \in Pay /\ pay'[q.p] # None /\ prov'[q.p] # "none"
      BY DEF PayFits, Grows
    <2>2. /\ q.at = "claim" => q.op = "webhook" /\ <<q.p, q.out>> \in mail'
          /\ q.at = "invoice" => prov'[q.p] = "paid"
      BY <2>1 DEF PayFits, Grows, Paying
    <2>3. q.at = "read" => /\ q.op \in {"webhook", "verify", "refund"}
                           /\ q.op = "webhook" => q.out \in Outcome /\ Reported(q.p, q.out)'
      BY <1>3, <2>1 DEF PayFits, Paying
    <2>4. q.at \in {"ask", "charge", "settle", "commit"} =>
             q.copy \in Payment /\ (q.copy.status = "success" => Succeeded(q.p)')
      BY <2>1 DEF PayFits, Paying, Grows
    <2>5. q.at \in {"settle", "commit", "success", "void"} =>
             q.out \in Outcome /\ Reported(q.p, q.out)'
      BY <1>3, <2>1 DEF PayFits, Paying
    <2>6. q.at = "session" => q.p \in Pay /\ pay'[q.p] # None /\ prov'[q.p] = "none"
      BY DEF PayFits, Grows
    <2>7. /\ q.at \in {"commit", "success"} => q.out = "paid"
          /\ q.at = "void" => q.out \in {"cancelled", "refunded"}
          /\ q.at = "insert" => q.copy \in Payment /\ q.copy.status = "pending" /\ ~q.copy.url
          /\ q.at \in {"load", "act"} /\ q.op = "granted" => q.p \in Pay
          /\ tx' => /\ q.at \notin {"success", "invoice"}
                    /\ ~(q.at \in {"load", "act"} /\ q.op = "granted")
      BY DEF PayFits
    <2>. QED
      BY <2>1, <2>2, <2>3, <2>4, <2>5, <2>6, <2>7 DEF PayFits
  <1>. QED
    BY <1>2, <1>4

\* A step of r: what it must show of the payments and of what r goes on with.
LEMMA Advance ==
    ASSUME BillInv, UNCHANGED tx, NEW r \in Req, NEW q, q \in BillRequest, Step(r, q),
           BillTypeOK', Grows, RowFits(q)', PayFits(q)',
           \A t \in Req \ {r} : At(t, "session") => prov'[req[t].p] = prov[req[t].p],
           q.at = "session" => \A t \in Req \ {r} : At(t, "session") => req[t].p # q.p,
           \A s \in Row : sub'[s] # None => Earned(sub[s])',
           \A p \in Pay : Sound(p)',
           \A p \in Pay : Holds(p, "success")' =>
               \/ ServedNow(p)' \/ Serves(q, p)'
               \/ Holds(p, "success") /\ ~ServedNow(p) /\ ~Serves(req[r], p) /\ inv'[p] = inv[p],
           \A p \in Pay : <<p, "paid">> \in claimed' =>
               \/ SettledNow(p)' \/ Settles(q, p)
               \/ <<p, "paid">> \in claimed /\ ~SettledNow(p) /\ ~Settles(req[r], p)
    PROVE  BillInv'
  <1>. /\ req \in [Req -> BillRequest] /\ req' = [req EXCEPT ![r] = q]
    BY InBill DEF Step
  <1>1. \A s \in Rows' : Earned(sub[s])'
    BY DEF Rows
  <1>2. ASSUME NEW t \in Req
        PROVE  RowFits(req[t])' /\ PayFits(req[t])'
    <2>1. CASE t = r
      <3>1. req'[t] = q
        BY <2>1
      <3>. QED
        BY <3>1 DEF RowFits, PayFits
    <2>2. CASE t # r
      <3>. DEFINE c == req[t]
      <3>1. req'[t] = c
        BY <2>2
      <3>2. c \in BillRequest /\ RowFits(c) /\ PayFits(c)
        BY InBill
      <3>3. c.at = "session" => prov'[c.p] = prov[c.p]
        BY <2>2 DEF At
      <3>4. PICK k : k = c
        OBVIOUS
      <3>. HIDE DEF c
      <3>5. RowFits(k)' /\ PayFits(k)'
        BY <3>2, <3>3, <3>4, FitsOn
      <3>. QED
        BY <3>1, <3>4, <3>5 DEF RowFits, PayFits
    <2>. QED
      BY <2>1, <2>2
  <1>3. ASSUME NEW t \in Req, NEW u \in Req, At(t, "session")', At(u, "session")', req'[t].p = req'[u].p
        PROVE  t = u
    BY <1>3 DEF At, BillInv
  <1>4. ASSUME NEW p \in Pay
        PROVE  Served(p)'
    <2>1. CASE Holds(p, "success") /\ ~ServedNow(p) /\ ~Serves(req[r], p) /\ inv'[p] = inv[p]
      <3>1. PICK t \in Req : Serves(req[t], p)
        BY <2>1 DEF BillInv, Served
      <3>2. t # r /\ req'[t] = req[t]
        BY <2>1, <3>1
      <3>3. Serves(req[t], p)'
        BY <2>1, <3>1, <3>2 DEF Serves
      <3>. QED
        BY <3>3 DEF Served
    <2>2. CASE Serves(q, p)'
      <3>1. req'[r] = q
        OBVIOUS
      <3>2. Serves(req[r], p)'
        BY <2>2, <3>1 DEF Serves
      <3>. QED
        BY <3>2 DEF Served
    <2>. QED
      BY <2>1, <2>2 DEF Served
  <1>5. ASSUME NEW p \in Pay
        PROVE  Claimed(p)'
    <2>1. CASE <<p, "paid">> \in claimed /\ ~SettledNow(p) /\ ~Settles(req[r], p)
      <3>1. PICK t \in Req : Settles(req[t], p)
        BY <2>1 DEF BillInv, Claimed
      <3>2. t # r /\ req'[t] = req[t]
        BY <2>1, <3>1
      <3>3. Settles(req[t], p)'
        BY <3>1, <3>2 DEF Settles
      <3>. QED
        BY <3>3 DEF Claimed
    <2>2. CASE Settles(q, p)
      <3>1. req'[r] = q
        OBVIOUS
      <3>2. Settles(req[r], p)'
        BY <2>2, <3>1 DEF Settles
      <3>. QED
        BY <3>2 DEF Claimed
    <2>. QED
      BY <2>1, <2>2 DEF Claimed
  <1>. QED
    BY <1>1, <1>2, <1>3, <1>4, <1>5 DEF BillInv

\* A step that leaves the payments alone.
LEMMA Calm ==
    ASSUME BillInv, UNCHANGED tx, NEW r \in Req, NEW q, q \in BillRequest, Step(r, q),
           UNCHANGED <<pay, inv, prov, mail, grants, overpaid>>, now' \in Nat,
           sub' \in [Row -> Sub \cup {None}], cache' \in CacheType,
           hazard \subseteq hazard', hazard' \subseteq Hazards, claimed' \subseteq Event,
           \A s \in Row : sub'[s] # None => Earned(sub'[s]),
           RowFits(q), PayFits(q), q.at # "session",
           \A p \in Pay : Serves(req[r], p) => Serves(q, p) \/ ServedNow(p) \/ p \in hazard',
           \A p \in Pay : Settles(req[r], p) => Settles(q, p) \/ SettledNow(p) \/ p \in hazard',
           \A p \in Pay : <<p, "paid">> \in claimed' =>
               <<p, "paid">> \in claimed \/ Settles(q, p) \/ SettledNow(p)
    PROVE  BillInv'
  <1>1. BillTypeOK'
    BY InBill DEF BillInv, BillTypeOK, Step, CacheType, Hazards
  <1>2. Grows
    BY DEF Grows, Succeeded, Holds, Refunded
  <1>3. RowFits(q)' /\ PayFits(q)'
    BY <1>2, FitsOn
  <1>4. \A s \in Row : sub'[s] # None => Earned(sub[s])'
    BY DEF Earned
  <1>5. \A p \in Pay : Sound(p)'
    BY DEF BillInv, Sound, Holds, Refunded, Reported, Succeeded
  <1>6. ASSUME NEW p \in Pay
        PROVE  /\ Holds(p, "success")' <=> Holds(p, "success")
               /\ ServedNow(p) => ServedNow(p)'
               /\ SettledNow(p) => SettledNow(p)'
               /\ Serves(q, p) => Serves(q, p)'
               /\ p \in hazard' => ServedNow(p)' /\ SettledNow(p)'
    BY DEF Holds, ServedNow, SettledNow, Serves, Succeeded, Refunded
  <1>7. \A p \in Pay : Holds(p, "success")' =>
               \/ ServedNow(p)' \/ Serves(q, p)'
               \/ Holds(p, "success") /\ ~ServedNow(p) /\ ~Serves(req[r], p) /\ inv'[p] = inv[p]
    BY <1>6
  <1>8. \A p \in Pay : <<p, "paid">> \in claimed' =>
               \/ SettledNow(p)' \/ Settles(q, p)
               \/ <<p, "paid">> \in claimed /\ ~SettledNow(p) /\ ~Settles(req[r], p)
    BY <1>6
  <1>. QED
    BY <1>1, <1>2, <1>3, <1>4, <1>5, <1>7, <1>8, Advance

\* Busy with what a payment brings about.
Busy(q) ==
    \/ q.at \in {"read", "settle", "commit", "success", "invoice"}
    \/ q.at \in {"load", "act"} /\ q.op = "granted"

\* A step of a request that is not.
LEMMA Restful ==
    ASSUME BillInv, UNCHANGED <<tx, billVars>>, NEW r \in Req, NEW q, q \in BillRequest, Step(r, q),
           ~Busy(req[r]), now' \in Nat,
           sub' \in [Row -> Sub \cup {None}], cache' \in CacheType,
           hazard \subseteq hazard', hazard' \subseteq Hazards,
           \A s \in Row : sub'[s] # None => Earned(sub'[s]),
           RowFits(q), PayFits(q), q.at # "session"
    PROVE  BillInv'
  <1>1. \A p \in Pay : ~Serves(req[r], p) /\ ~Settles(req[r], p)
    BY DEF Busy, Serves, Settles
  <1>2. claimed' \subseteq Event /\ claimed' = claimed
    BY DEF billVars, BillInv, BillTypeOK
  <1>. QED
    BY <1>1, <1>2, Calm DEF billVars

\* One that leaves the rows alone too.
LEMMA Reading ==
    ASSUME BillInv, UNCHANGED <<tx, billVars>>, NEW r \in Req, NEW q, q \in BillRequest, Step(r, q),
           ~Busy(req[r]), UNCHANGED <<now, sub>>, cache' \in CacheType,
           hazard \subseteq hazard', hazard' \subseteq hazard \cup {"admin"},
           RowFits(q), PayFits(q), q.at # "session"
    PROVE  BillInv'
  <1>1. \A s \in Row : sub'[s] # None => Earned(sub'[s])
    BY InRow
  <1>2. hazard' \subseteq Hazards
    BY InBill DEF Hazards
  <1>. QED
    BY <1>1, <1>2, InBill, Restful

LEMMA BreakOffBills ==
    ASSUME BillInv, UNCHANGED <<tx, billVars, now>>, NEW r \in Req, BreakOff(r)
    PROVE  BillInv'
  <1>1. /\ req[r] \in BillRequest /\ sub \in [Row -> Sub \cup {None}] /\ now \in Nat
        /\ cache \in CacheType /\ hazard \subseteq Hazards /\ Late(cache) \in CacheType
    BY InBill, BillLate DEF BillInv
  <1>2. Step(r, Idle) /\ sub' = sub /\ cache' \in CacheType
    BY <1>1 DEF BreakOff, Done
  <1>3. /\ hazard \subseteq hazard' /\ hazard' \subseteq Hazards
        /\ \A p \in Pay : req[r].p = p => p \in hazard'
    BY <1>1, ZenonT(60) DEF BreakOff, Hazards, BillRequest
  <1>4. \A s \in Row : sub'[s] # None => Earned(sub'[s])
    BY <1>2, InRow
  <1>5. \A p \in Pay : Serves(req[r], p) \/ Settles(req[r], p) => p \in hazard'
    BY <1>3 DEF Serves, Settles
  <1>6. claimed' \subseteq Event /\ claimed' = claimed
    BY DEF billVars, BillInv, BillTypeOK
  <1>. QED
    BY <1>1, <1>2, <1>3, <1>4, <1>5, <1>6, IdleFitsBill, Calm DEF billVars

\* What a save does: nothing, or it writes a row whose reference is that of the row or
\* of the copy.
LEMMA StoreWrites ==
    ASSUME BillInv, NEW r \in Req, NEW doc \in Sub, NEW label \in Label, Store(r, doc, label),
           req[r].s \in Row, req[r].was \in Sub
    PROVE  \/ UNCHANGED <<sub, hazard>> /\ Step(r, Idle) /\ ~Storable(r, doc)
           \/ LET s == req[r].s
                  held == IF label = "announce" THEN None ELSE doc
              IN /\ sub[s] \in Sub /\ Earned(sub[s])
                 /\ Step(r, [req[r] EXCEPT !.at = label, !.doc = held, !.was = held])
                 /\ \E row \in Sub :
                       /\ sub' = [sub EXCEPT ![s] = row]
                       /\ row.ref = IF doc.ref # req[r].was.ref THEN doc.ref ELSE sub[s].ref
                 /\ hazard \subseteq hazard' /\ hazard' \subseteq hazard \cup {"overwrote"}
  <1>. DEFINE s == req[r].s
              row == Merge(sub[s], req[r].was, doc)
  <1>1. CASE ~Storable(r, doc)
    BY <1>1 DEF Store, Done
  <1>2. CASE Storable(r, doc)
    <2>1. sub[s] \in Sub /\ Earned(sub[s])
      BY <1>2, InRow DEF Storable
    <2>2. row \in Sub /\ row.ref = IF doc.ref # req[r].was.ref THEN doc.ref ELSE sub[s].ref
      BY <2>1, MergeType
    <2>3. /\ sub' = [sub EXCEPT ![s] = row]
          /\ Step(r, [req[r] EXCEPT !.at = label, !.doc = IF label = "announce" THEN None ELSE doc,
                                    !.was = IF label = "announce" THEN None ELSE doc])
          /\ Note("overwrote", Stale(r) /\ row # sub[s])
      BY <1>2 DEF Store
    <2>4. hazard \subseteq hazard' /\ hazard' \subseteq hazard \cup {"overwrote"}
      <3>. HIDE DEF row, s
      <3>. QED
        BY <2>3 DEF Note
    <2>. HIDE DEF row
    <2>. QED
      BY <2>1, <2>2, <2>3, <2>4
  <1>. QED
    BY <1>1, <1>2

\* A save of a copy that names no payment that did not activate it.
LEMMA StoredBill ==
    ASSUME BillInv, UNCHANGED <<tx, billVars, now>>, cache' \in CacheType,
           NEW r \in Req, NEW doc \in Sub, NEW label \in Label, Store(r, doc, label),
           ~Busy(req[r]), req[r].s \in Row, req[r].was \in Sub, Earned(doc),
           LET held == IF label = "announce" THEN None ELSE doc
               q == [req[r] EXCEPT !.at = label, !.doc = held, !.was = held]
           IN RowFits(q) /\ PayFits(q)
    PROVE  BillInv'
  <1>. DEFINE s == req[r].s
              held == IF label = "announce" THEN None ELSE doc
              q == [req[r] EXCEPT !.at = label, !.doc = held, !.was = held]
  <1>0. /\ req[r] \in BillRequest /\ sub \in [Row -> Sub \cup {None}] /\ now \in Nat
        /\ hazard \subseteq Hazards
    BY InBill
  <1>1. CASE UNCHANGED <<sub, hazard>> /\ Step(r, Idle)
    BY <1>1, IdleFitsBill, Reading
  <1>2. ASSUME NEW row \in Sub, Earned(sub[s]), Step(r, q), sub' = [sub EXCEPT ![s] = row],
               row.ref = IF doc.ref # req[r].was.ref THEN doc.ref ELSE sub[s].ref,
               hazard \subseteq hazard', hazard' \subseteq hazard \cup {"overwrote"}
        PROVE  BillInv'
    <2>1. q \in BillRequest /\ q.at = label
      <3>1. held \in Sub \cup {None}
        OBVIOUS
      <3>. HIDE DEF held
      <3>. QED
        BY <1>0, <3>1, ZenonT(60) DEF BillRequest
    <2>2. Earned(row)
      BY <1>2 DEF Earned
    <2>3. \A t \in Row : sub'[t] # None => Earned(sub'[t])
      BY <1>0, <1>2, <2>2, InRow
    <2>4. sub' \in [Row -> Sub \cup {None}] /\ hazard' \subseteq Hazards /\ now' \in Nat
      BY <1>0, <1>2 DEF Hazards
    <2>5. q.at # "session"
      BY <2>1 DEF Label
    <2>6. RowFits(q) /\ PayFits(q)
      OBVIOUS
    <2>. HIDE DEF q
    <2>. QED
      BY <1>2, <2>1, <2>3, <2>4, <2>5, <2>6, Restful
  <1>3. \/ UNCHANGED <<sub, hazard>> /\ Step(r, Idle)
        \/ /\ Earned(sub[s]) /\ Step(r, q)
           /\ \E row \in Sub :
                 /\ sub' = [sub EXCEPT ![s] = row]
                 /\ row.ref = IF doc.ref # req[r].was.ref THEN doc.ref ELSE sub[s].ref
           /\ hazard \subseteq hazard' /\ hazard' \subseteq hazard \cup {"overwrote"}
    BY StoreWrites
  <1>. HIDE DEF q
  <1>. QED
    BY <1>1, <1>2, <1>3

-----------------------------------------------------------------------------
(* The steps of the rows' requests.                                        *)

\* A request goes on at another label, with another row in hand or the same.
LEMMA Relabel ==
    ASSUME NEW q \in BillRequest, NEW label \in Label
    PROVE  LET v == [q EXCEPT !.at = label]
           IN /\ v \in BillRequest /\ v.at = label
              /\ v.op = q.op /\ v.s = q.s /\ v.was = q.was /\ v.doc = q.doc /\ v.p = q.p
  BY DEF BillRequest

RowStep(r) == r \in Req /\ BillInv /\ UNCHANGED <<tx, billVars>>

LEMMA BeginBills == ASSUME NEW r, RowStep(r), Begin(r) PROVE BillInv'
  <1>1. PICK o \in Op \ {"lose"} :
          \/ o \notin ById /\ Step(r, [Idle EXCEPT !.op = o, !.at = "find", !.day = now])
          \/ /\ o \in ById
             /\ \E s \in Rows : Step(r, [Idle EXCEPT !.op = o, !.at = "load", !.s = s, !.day = now])
    BY DEF Begin
  <1>. o \in OpName /\ r \in Req /\ BillInv /\ UNCHANGED <<tx, billVars>>
    BY DEF RowStep
  <1>2. now \in Nat /\ UNCHANGED <<now, sub>> /\ cache' \in CacheType /\ ~Busy(req[r])
        /\ hazard \subseteq hazard' /\ hazard' \subseteq hazard \cup {"admin"}
    BY InBill DEF Begin, Busy, At, Note
  <1>3. LET q == [Idle EXCEPT !.op = o, !.at = "find", !.day = now]
        IN /\ q \in BillRequest /\ q.at = "find"
           /\ o \notin ById => RowFits(q)
    BY <1>2 DEF Idle, BillRequest, Label, RowFits, Finding
  <1>4. ASSUME NEW s \in Rows
        PROVE  LET q == [Idle EXCEPT !.op = o, !.at = "load", !.s = s, !.day = now]
               IN /\ q \in BillRequest /\ q.at = "load" /\ q.op = o
                  /\ o \in ById => RowFits(q)
    BY <1>2 DEF Idle, BillRequest, Label, RowFits, Rows
  <1>5. CASE o \notin ById /\ Step(r, [Idle EXCEPT !.op = o, !.at = "find", !.day = now])
    <2>. DEFINE q == [Idle EXCEPT !.op = o, !.at = "find", !.day = now]
    <2>1. q \in BillRequest /\ q.at = "find" /\ RowFits(q)
      BY <1>3, <1>5
    <2>. HIDE DEF q
    <2>2. PayFits(q)
      BY <2>1, RowLabels DEF Label
    <2>. QED
      BY <1>2, <1>5, <2>1, <2>2, Reading DEF q
  <1>6. ASSUME NEW s \in Rows, o \in ById,
               Step(r, [Idle EXCEPT !.op = o, !.at = "load", !.s = s, !.day = now])
        PROVE  BillInv'
    <2>. DEFINE q == [Idle EXCEPT !.op = o, !.at = "load", !.s = s, !.day = now]
    <2>1. q \in BillRequest /\ q.at = "load" /\ q.op = o /\ RowFits(q)
      BY <1>4, <1>6
    <2>. HIDE DEF q
    <2>2. PayFits(q)
      BY <1>6, <2>1, RowLabels DEF Label, ById
    <2>. QED
      BY <1>2, <1>6, <2>1, <2>2, Reading DEF q
  <1>. QED
    BY <1>1, <1>5, <1>6

\* Where a request that has found or not found the current row may go.
LEMMA FindingCases ==
    ASSUME NEW o \in Finding
    PROVE  /\ Onward(o, TRUE) \in {"idle", "fill", "retire", "act"}
           /\ Onward(o, TRUE) = "retire" => o = "grant"
           /\ Onward(o, TRUE) = "act" => o \in Changing \cup {"start", "checkout"}
           /\ Onward(o, FALSE) \in {"idle", "fill", "create", "act"}
           /\ Onward(o, FALSE) = "create" => o = "grant"
           /\ Onward(o, FALSE) = "act" => o = "start"
  BY DEF Onward, Finding, OpName, ByAdmin, ById, Changing

LEMMA FindBills == ASSUME NEW r, RowStep(r), Find(r) PROVE BillInv'
  <1>. r \in Req /\ BillInv /\ UNCHANGED <<tx, billVars>>
    BY DEF RowStep
  <1>. DEFINE o == req[r].op
  <1>1. /\ req[r] \in BillRequest /\ req[r].doc = None /\ now \in Nat /\ o \in Finding
        /\ cache \in CacheType /\ None \in CacheType /\ RowFits(req[r])
    BY InBill DEF Find, At, RowFits, CacheType
  <1>2. UNCHANGED <<now, sub, hazard>> /\ ~Busy(req[r])
    BY DEF Find, At, Busy
  <1>3. ASSUME NEW q \in BillRequest, RowFits(q), PayFits(q), q.at # "session", Proceed(r, q),
               cache' \in CacheType
        PROVE  BillInv'
    BY <1>2, <1>3, Reading, IdleFitsBill DEF Proceed
  <1>. DEFINE found == Onward(o, TRUE)
              lost == Onward(o, FALSE)
  <1>4. /\ found \in {"idle", "fill", "retire", "act"}
        /\ found = "retire" => o = "grant"
        /\ found = "act" => o \in Changing \cup {"start", "checkout"}
        /\ lost \in {"idle", "fill", "create", "act"}
        /\ lost = "create" => o = "grant"
        /\ lost = "act" => o = "start"
    BY <1>1, FindingCases
  <1>5. CASE /\ Current = {}
             /\ Proceed(r, [req[r] EXCEPT !.at = Onward(o, FALSE)])
             /\ UNCHANGED cache
    <2>. DEFINE q == [req[r] EXCEPT !.at = Onward(o, FALSE)]
    <2>0. lost \in Label
      BY <1>4 DEF Label
    <2>1. /\ q \in BillRequest /\ q.at = lost /\ q.op = o /\ q.doc = None /\ q.was = req[r].was
          /\ q.at \in Label
      BY <1>1, <2>0, Relabel, ZenonT(60)
    <2>. HIDE DEF q
    <2>2. RowFits(q)
      BY <1>1, <1>4, <2>1 DEF RowFits
    <2>3. PayFits(q)
      BY <1>4, <2>1, RowLabels
    <2>. QED
      BY <1>1, <1>3, <1>5, <2>1, <2>2, <2>3 DEF q, Label
  <1>6. ASSUME NEW s \in Current, NEW doc \in Sub, doc.ref = sub[s].ref,
               LET held == [[req[r] EXCEPT !.at = Onward(o, TRUE)] EXCEPT !.s = s, !.was = sub[s], !.doc = doc]
               IN IF doc = sub[s] THEN Proceed(r, held) /\ UNCHANGED cache
                  ELSE Step(r, [held EXCEPT !.at = "save"]) /\ cache' = None
        PROVE  BillInv'
    <2>. DEFINE q == [req[r] EXCEPT !.at = Onward(o, TRUE), !.s = s, !.was = sub[s], !.doc = doc]
                v == [req[r] EXCEPT !.at = "save", !.s = s, !.was = sub[s], !.doc = doc]
    <2>1. sub[s] \in Sub /\ s \in Row /\ Earned(sub[s]) /\ Earned(doc)
      BY <1>6, InRow DEF Current, Rows, Earned
    <2>2. /\ [[req[r] EXCEPT !.at = Onward(o, TRUE)] EXCEPT !.s = s, !.was = sub[s], !.doc = doc] = q
          /\ [q EXCEPT !.at = "save"] = v
      BY <1>1, ZenonT(60) DEF BillRequest
    <2>0. found \in Label /\ "save" \in Label
      BY <1>4 DEF Label
    <2>3. /\ q \in BillRequest
          /\ q.at = found /\ q.op = o /\ q.s = s /\ q.was = sub[s] /\ q.doc = doc
      <3>1. PICK c \in BillRequest, t \in Row, w \in Sub, label \in Label :
              c = req[r] /\ t = s /\ w = sub[s] /\ label = found
        BY <1>1, <2>0, <2>1
      <3>2. [c EXCEPT !.at = label, !.s = t, !.was = w, !.doc = doc] \in BillRequest
        BY DEF BillRequest
      <3>3. PICK u \in BillRequest : u = [c EXCEPT !.at = label, !.s = t, !.was = w, !.doc = doc]
        BY <3>2
      <3>4. u.at = label /\ u.op = c.op /\ u.s = t /\ u.was = w /\ u.doc = doc
        BY <3>3 DEF BillRequest
      <3>5. q = u
        BY <3>1, <3>3
      <3>. HIDE DEF q
      <3>. QED
        BY <3>1, <3>4, <3>5
    <2>4. /\ v \in BillRequest
          /\ v.at = "save" /\ v.op = o /\ v.s = s /\ v.was = sub[s] /\ v.doc = doc
      <3>1. PICK c \in BillRequest, t \in Row, w \in Sub, label \in Label :
              c = req[r] /\ t = s /\ w = sub[s] /\ label = "save"
        BY <1>1, <2>0, <2>1
      <3>2. [c EXCEPT !.at = label, !.s = t, !.was = w, !.doc = doc] \in BillRequest
        BY DEF BillRequest
      <3>3. PICK u \in BillRequest : u = [c EXCEPT !.at = label, !.s = t, !.was = w, !.doc = doc]
        BY <3>2
      <3>4. u.at = label /\ u.op = c.op /\ u.s = t /\ u.was = w /\ u.doc = doc
        BY <3>3 DEF BillRequest
      <3>5. v = u
        BY <3>1, <3>3
      <3>. HIDE DEF v
      <3>. QED
        BY <3>1, <3>4, <3>5
    <2>5. doc = sub[s] => RowFits(q)
      <3>. HIDE DEF q, v, o, found
      <3>. QED
        BY <1>4, <2>1, <2>3, NoneIsNoRow DEF RowFits
    <2>6. RowFits(v)
      <3>. HIDE DEF q, v, o
      <3>. QED
        BY <1>1, <2>1, <2>4 DEF RowFits
    <2>7. PayFits(q) /\ PayFits(v)
      <3>1. ~(q.at \in {"load", "act"} /\ q.op = "granted")
        <4>. HIDE DEF q, o
        <4>. QED
          BY <1>1, <2>3 DEF Finding, OpName, ByAdmin, ById
      <3>. HIDE DEF q, v
      <3>. QED
        BY <2>0, <2>3, <2>4, <3>1, RowLabels
    <2>. HIDE DEF q, v
    <2>8. q.at # "session" /\ v.at # "session"
      BY <2>0, <2>3, <2>4 DEF Label
    <2>. QED
      BY <1>1, <1>2, <1>3, <1>6, <2>2, <2>3, <2>4, <2>5, <2>6, <2>7, <2>8, Reading, ZenonT(60)
  <1>7. ASSUME NEW s \in Current
        PROVE  LET doc == IF o = "grant" THEN sub[s] ELSE Lifecycle(sub[s])
               IN doc \in Sub /\ doc.ref = sub[s].ref
    BY <1>1, InRow, LifecycleType DEF Current, Rows
  <1>. QED
    BY <1>5, <1>6, <1>7 DEF Find

LEMMA SaveBills == ASSUME NEW r, RowStep(r), Save(r) PROVE BillInv'
  <1>. r \in Req /\ BillInv /\ UNCHANGED <<tx, billVars>>
    BY DEF RowStep
  <1>. DEFINE o == req[r].op
              label == Onward(o, TRUE)
              doc == req[r].doc
              q == [req[r] EXCEPT !.at = label, !.doc = doc, !.was = doc]
  <1>1. /\ req[r] \in BillRequest /\ o \in Finding /\ ~Busy(req[r])
        /\ req[r].s \in Row /\ req[r].was \in Sub /\ doc \in Sub /\ Earned(doc)
    BY InBill, NoneIsNoRow DEF Save, At, RowFits, Busy
  <1>2. /\ label \in {"idle", "fill", "retire", "act"}
        /\ label = "retire" => o = "grant"
        /\ label = "act" => o \in Changing \cup {"start", "checkout"}
    BY <1>1, FindingCases, ZenonT(60)
  <1>3. q.at = label /\ q.op = o /\ q.s = req[r].s /\ q.doc = doc /\ q.was = doc /\ label \in Label
        /\ label # "announce"
    BY <1>1, <1>2 DEF BillRequest, Label
  <1>4. RowFits(q)
    <2>. HIDE DEF q, label, o, doc
    <2>. QED
      BY <1>1, <1>2, <1>3, NoneIsNoRow DEF RowFits
  <1>5. PayFits(q)
    <2>1. ~(q.at \in {"load", "act"} /\ q.op = "granted")
      <3>. HIDE DEF q, label, o
      <3>. QED
        BY <1>1, <1>3 DEF Finding, OpName, ByAdmin, ById
    <2>. HIDE DEF q, label
    <2>. QED
      BY <1>3, <2>1, RowLabels
  <1>6. cache' \in CacheType /\ Store(r, doc, label) /\ UNCHANGED now
    BY InBill, BillLate DEF Save, BillInv
  <1>. HIDE DEF label, o, doc
  <1>. QED
    BY <1>1, <1>3, <1>4, <1>5, <1>6, StoredBill

LEMMA LoadBills == ASSUME NEW r, RowStep(r), Load(r) PROVE BillInv'
  <1>. r \in Req /\ BillInv /\ UNCHANGED <<tx, billVars>>
    BY DEF RowStep
  <1>1. /\ req[r] \in BillRequest /\ req[r].s \in Row /\ req[r].at = "load" /\ PayFits(req[r])
        /\ req[r].op \in ById \cup {"checkout", "mark", "granted"}
    BY InBill DEF Load, At, RowFits
  <1>2. CASE sub[req[r].s] = None
    BY <1>2, BreakOffBills DEF Load
  <1>3. CASE sub[req[r].s] # None
    <2>. DEFINE d == sub[req[r].s]
                q == [req[r] EXCEPT !.at = "act", !.was = d, !.doc = d]
    <2>1. d \in Sub /\ Earned(d)
      BY <1>1, <1>3, InRow
    <2>2. q \in BillRequest
      BY <1>1, <2>1 DEF BillRequest, Label
    <2>3. /\ q.at = "act" /\ q.op = req[r].op /\ q.s = req[r].s /\ q.was = d /\ q.doc = d
          /\ q.p = req[r].p
      BY <1>1 DEF BillRequest
    <2>4. /\ Step(r, q) /\ UNCHANGED <<now, sub, cache, hazard>> /\ cache' \in CacheType
          /\ claimed' = claimed
      BY <1>3, InBill DEF Load, billVars
    <2>. HIDE DEF q
    <2>5. RowFits(q)
      <3>. HIDE DEF d
      <3>. QED
        BY <1>1, <2>1, <2>3, NoneIsNoRow DEF RowFits, ById, Changing
    <2>6. PayFits(q)
      BY <1>1, <2>3 DEF PayFits, Paying
    <2>7. \A p \in Pay : /\ Serves(req[r], p) => Serves(q, p)
                         /\ ~Settles(req[r], p)
      BY <1>1, <2>3 DEF Serves, Settles
    <2>8. /\ \A s \in Row : sub'[s] # None => Earned(sub'[s])
          /\ sub' \in [Row -> Sub \cup {None}] /\ now' \in Nat /\ hazard' \subseteq Hazards
          /\ claimed' \subseteq Event
      BY <2>4, InBill, InRow DEF BillInv, BillTypeOK
    <2>. QED
      BY <2>2, <2>3, <2>4, <2>5, <2>6, <2>7, <2>8, Calm DEF billVars
  <1>. QED
    BY <1>2, <1>3

LEMMA ApplyBills == ASSUME NEW r, RowStep(r), Apply(r) PROVE BillInv'
  <1>. r \in Req /\ BillInv /\ UNCHANGED <<tx, billVars>>
    BY DEF RowStep
  <1>. DEFINE o == req[r].op
              d == req[r].doc
  <1>1. /\ req[r] \in BillRequest /\ req[r].at = "act" /\ o \in Changing /\ now \in Nat
        /\ req[r].s \in Row /\ req[r].was = d /\ d \in Sub /\ Earned(d)
        /\ UNCHANGED <<now, cache>> /\ cache' \in CacheType
    BY InBill DEF Apply, At, RowFits, BillRequest, Changing
  <1>2. ~Busy(req[r])
    BY <1>1 DEF Busy, Changing
  <1>3. CASE Result(o, d) = {}
    BY <1>1, <1>2, <1>3, IdleFitsBill, Reading DEF Apply, Answered, Done
  <1>4. ASSUME NEW doc \in Result(o, d), Store(r, doc, "announce")
        PROVE  BillInv'
    <2>1. doc \in Sub /\ doc.ref \in {d.ref, "admin"}
      BY <1>1, ResultType
    <2>2. Earned(doc)
      BY <1>1, <2>1 DEF Earned
    <2>. DEFINE q == [req[r] EXCEPT !.at = "announce", !.doc = None, !.was = None]
    <2>3. q.at = "announce" /\ q.doc = None /\ q.was = None
      BY <1>1 DEF BillRequest
    <2>. HIDE DEF q
    <2>4. RowFits(q)
      BY <2>3 DEF RowFits
    <2>5. PayFits(q) /\ "announce" \in Label
      BY <2>3, RowLabels DEF Label
    <2>6. LET held == IF "announce" = "announce" THEN None ELSE doc
              v == [req[r] EXCEPT !.at = "announce", !.doc = held, !.was = held]
          IN RowFits(v) /\ PayFits(v)
      BY <2>4, <2>5 DEF q
    <2>. HIDE DEF d, o
    <2>. QED
      BY <1>1, <1>2, <1>4, <2>1, <2>2, <2>5, <2>6, StoredBill
  <1>. QED
    BY <1>3, <1>4 DEF Apply

LEMMA RenewFailsBills == ASSUME NEW r, RowStep(r), RenewFails(r) PROVE BillInv'
  <1>. r \in Req /\ BillInv /\ UNCHANGED <<tx, billVars>>
    BY DEF RowStep
  <1>1. /\ req[r] \in BillRequest /\ req[r].at = "act" /\ req[r].op = "renew" /\ req[r].s \in Row
        /\ now \in Nat /\ UNCHANGED <<now, sub, cache, hazard>> /\ cache' \in CacheType
    BY InBill DEF RenewFails, At, RowFits
  <1>2. ~Busy(req[r])
    BY <1>1 DEF Busy
  <1>. DEFINE q == [Idle EXCEPT !.op = "suspend", !.at = "load", !.s = req[r].s, !.day = now]
  <1>3. /\ q \in BillRequest /\ q.at = "load" /\ q.op = "suspend" /\ q.s = req[r].s
        /\ q.doc = None /\ q.was = None
    BY <1>1, ZenonT(60) DEF Idle, BillRequest, Label, OpName, ByAdmin, ById
  <1>4. Step(r, Idle) \/ Step(r, q)
    BY DEF RenewFails, Done
  <1>. HIDE DEF q
  <1>5. RowFits(q) /\ PayFits(q)
    BY <1>1, <1>3, RowLabels DEF RowFits, ById, Label
  <1>. QED
    BY <1>1, <1>2, <1>3, <1>4, <1>5, IdleFitsBill, Reading

LEMMA StartBills == ASSUME NEW r, RowStep(r), Start(r) PROVE BillInv'
  <1>. r \in Req /\ BillInv /\ UNCHANGED <<tx, billVars>>
    BY DEF RowStep
  <1>1. /\ req[r] \in BillRequest /\ req[r].at = "act" /\ req[r].op = "start" /\ RowFits(req[r])
        /\ now \in Nat /\ UNCHANGED <<now, sub, cache, hazard>> /\ cache' \in CacheType
    BY InBill DEF Start, At
  <1>2. ~Busy(req[r])
    BY <1>1 DEF Busy
  <1>3. CASE Step(r, Idle)
    BY <1>1, <1>2, <1>3, IdleFitsBill, Reading
  <1>4. ASSUME NEW plan \in Plan,
               LET trial == IF TrialDays > 0 /\ ~HasUsedTrial THEN now + TrialDays ELSE 0
                   st == CASE trial # 0 -> "trial" [] RequirePayment -> "pending" [] OTHER -> "active"
               IN Step(r, [req[r] EXCEPT !.new = Fresh(st, plan, trial, TRUE),
                                         !.at = IF req[r].doc = None THEN "create" ELSE "retire"])
        PROVE  BillInv'
    <2>. DEFINE trial == IF TrialDays > 0 /\ ~HasUsedTrial THEN now + TrialDays ELSE 0
                st == CASE trial # 0 -> "trial" [] RequirePayment -> "pending" [] OTHER -> "active"
                label == IF req[r].doc = None THEN "create" ELSE "retire"
                row == Fresh(st, plan, trial, TRUE)
                q == [req[r] EXCEPT !.new = row, !.at = label]
    <2>1. trial \in Nat
      BY <1>1
    <2>2. st \in Status
      BY DEF Status
    <2>. HIDE DEF trial, st
    <2>3. row \in Sub /\ row.ref = "none"
      BY <1>1, <2>1, <2>2, FreshType
    <2>4. label \in Label /\ label \in {"create", "retire"} /\ (label = "retire" => req[r].doc # None)
      BY DEF Label
    <2>5. Step(r, q)
      BY <1>4 DEF trial, st
    <2>6. /\ q \in BillRequest /\ q.at = label /\ q.op = "start" /\ q.s = req[r].s /\ q.new = row
          /\ q.doc = req[r].doc /\ q.was = req[r].was
      <3>. HIDE DEF row, label
      <3>1. PICK c \in BillRequest, new \in Sub, at \in Label : c = req[r] /\ new = row /\ at = label
        BY <1>1, <2>3, <2>4
      <3>2. [c EXCEPT !.new = new, !.at = at] \in BillRequest
        BY DEF BillRequest
      <3>. QED
        BY <1>1, <3>1, <3>2 DEF BillRequest
    <2>. HIDE DEF q, row, label
    <2>7. RowFits(q)
      BY <1>1, <2>3, <2>4, <2>6, NoneIsNoRow DEF RowFits, BillRequest
    <2>8. PayFits(q)
      BY <2>4, <2>6, RowLabels
    <2>. QED
      BY <1>1, <1>2, <2>4, <2>5, <2>6, <2>7, <2>8, Reading
  <1>. QED
    BY <1>3, <1>4 DEF Start, Done

LEMMA RetireBills == ASSUME NEW r, RowStep(r), Retire(r) PROVE BillInv'
  <1>. r \in Req /\ BillInv /\ UNCHANGED <<tx, billVars>>
    BY DEF RowStep
  <1>. DEFINE d == req[r].doc
              doc == [d EXCEPT !.cur = FALSE]
              q == [req[r] EXCEPT !.at = "create", !.doc = doc, !.was = doc]
  <1>1. /\ req[r] \in BillRequest /\ req[r].at = "retire" /\ req[r].op \in {"start", "grant"}
        /\ req[r].s \in Row /\ req[r].was \in Sub /\ d = req[r].was /\ Earned(d)
        /\ (req[r].op = "start" => req[r].new \in Sub /\ req[r].new.ref = "none")
        /\ cache' \in CacheType /\ UNCHANGED <<now, cache>>
    BY InBill, NoneIsNoRow DEF Retire, At, RowFits
  <1>2. ~Busy(req[r])
    BY <1>1 DEF Busy
  <1>3. doc \in Sub /\ doc.ref = d.ref
    BY <1>1 DEF Sub
  <1>4. Earned(doc)
    BY <1>1, <1>3 DEF Earned
  <1>5. Store(r, doc, "create")
    BY DEF Retire
  <1>6. /\ q.at = "create" /\ q.op = req[r].op /\ q.new = req[r].new /\ q.doc = doc /\ q.was = doc
    BY <1>1 DEF BillRequest
  <1>. HIDE DEF doc
  <1>7. RowFits(q) /\ PayFits(q) /\ "create" \in Label
    <2>. HIDE DEF q
    <2>. QED
      BY <1>1, <1>4, <1>6, RowLabels DEF RowFits, Label
  <1>8. LET held == IF "create" = "announce" THEN None ELSE doc
            v == [req[r] EXCEPT !.at = "create", !.doc = held, !.was = held]
        IN RowFits(v) /\ PayFits(v)
    BY <1>7
  <1>. HIDE DEF q, d
  <1>. QED
    BY <1>1, <1>2, <1>3, <1>4, <1>5, <1>7, <1>8, StoredBill

LEMMA InsertBills ==
    ASSUME NEW r, RowStep(r), At(r, "create"), NEW row \in Sub, row.ref = "none", Insert(r, row),
           UNCHANGED <<now, cache>>
    PROVE  BillInv'
  <1>. r \in Req /\ BillInv /\ UNCHANGED <<tx, billVars>>
    BY DEF RowStep
  <1>1. /\ req[r] \in BillRequest /\ now \in Nat /\ cache' \in CacheType /\ hazard \subseteq Hazards
        /\ sub \in [Row -> Sub \cup {None}] /\ ~Busy(req[r])
    BY InBill DEF At, Busy
  <1>2. CASE Current # {}
    BY <1>1, <1>2, IdleFitsBill, Reading DEF Insert, Answered, Done
  <1>3. CASE Current = {}
    <2>1. PICK s \in Row \ Rows :
            /\ sub' = [sub EXCEPT ![s] = row]
            /\ Step(r, [req[r] EXCEPT !.at = "announce", !.s = s, !.was = None, !.doc = None, !.new = None])
            /\ UNCHANGED hazard
      BY <1>3 DEF Insert
    <2>. DEFINE q == [req[r] EXCEPT !.at = "announce", !.s = s, !.was = None, !.doc = None, !.new = None]
    <2>2. q \in BillRequest /\ q.at = "announce" /\ q.was = None /\ q.doc = None
      <3>1. PICK c \in BillRequest, t \in Row : c = req[r] /\ t = s
        BY <1>1
      <3>2. [c EXCEPT !.at = "announce", !.s = t] \in BillRequest
        BY ZenonT(60) DEF BillRequest, Label
      <3>3. PICK u \in BillRequest : u = [c EXCEPT !.at = "announce", !.s = t]
        BY <3>2
      <3>4. [u EXCEPT !.was = None, !.doc = None, !.new = None] \in BillRequest
        <4>1. [u EXCEPT !.was = None] \in BillRequest
          BY DEF BillRequest
        <4>2. \A v \in BillRequest : [v EXCEPT !.doc = None] \in BillRequest
          BY DEF BillRequest
        <4>3. \A v \in BillRequest : [v EXCEPT !.new = None] \in BillRequest
          BY DEF BillRequest
        <4>. QED
          BY <4>1, <4>2, <4>3
      <3>5. q = [u EXCEPT !.was = None, !.doc = None, !.new = None]
        BY <3>1, <3>3
      <3>6. q \in BillRequest
        BY <3>4, <3>5
      <3>. QED
        BY <3>6 DEF BillRequest
    <2>. HIDE DEF q
    <2>3. RowFits(q) /\ PayFits(q) /\ q.at # "session"
      BY <2>2, RowLabels DEF RowFits, Label
    <2>4. Earned(row)
      BY DEF Earned
    <2>5. \A t \in Row : sub'[t] # None => Earned(sub'[t])
      BY <1>1, <2>1, <2>4, InRow
    <2>6. sub' \in [Row -> Sub \cup {None}] /\ hazard' \subseteq Hazards /\ now' \in Nat
          /\ hazard \subseteq hazard'
      BY <1>1, <2>1
    <2>7. Step(r, q)
      BY <2>1 DEF q
    <2>. QED
      BY <1>1, <2>2, <2>3, <2>5, <2>6, <2>7, Restful
  <1>. QED
    BY <1>2, <1>3

LEMMA CreateBills == ASSUME NEW r, RowStep(r), Create(r) PROVE BillInv'
  <1>. r \in Req /\ BillInv /\ UNCHANGED <<tx, billVars>>
    BY DEF RowStep
  <1>0. At(r, "create") /\ now \in Nat /\ RowFits(req[r]) /\ UNCHANGED now
    BY InBill DEF Create
  <1>1. CASE req[r].op = "start" /\ Insert(r, req[r].new) /\ UNCHANGED cache
    <2>1. req[r].new \in Sub /\ req[r].new.ref = "none"
      BY <1>0, <1>1 DEF RowFits, At
    <2>. QED
      BY <1>0, <1>1, <2>1, InsertBills
  <1>2. ASSUME NEW st \in Status, NEW plan \in Plan,
               LET trial == IF st = "trial" THEN now + IF TrialDays > 1 THEN TrialDays ELSE 1 ELSE 0
               IN Insert(r, Fresh(st, plan, trial, st # "pending")),
               UNCHANGED cache
        PROVE  BillInv'
    <2>. DEFINE trial == IF st = "trial" THEN now + IF TrialDays > 1 THEN TrialDays ELSE 1 ELSE 0
                row == Fresh(st, plan, trial, st # "pending")
    <2>1. trial \in Nat /\ (st # "pending") \in BOOLEAN
      BY <1>0
    <2>2. row \in Sub /\ row.ref = "none"
      <3>. HIDE DEF trial
      <3>. QED
        BY <1>0, <2>1, FreshType
    <2>3. Insert(r, row)
      BY <1>2
    <2>. HIDE DEF row
    <2>. QED
      BY <1>0, <1>2, <2>2, <2>3, InsertBills
  <1>3. CASE BreakOff(r)
    BY <1>0, <1>3, BreakOffBills
  <1>. QED
    BY <1>1, <1>2, <1>3 DEF Create

LEMMA DeleteBills == ASSUME NEW r, RowStep(r), Delete(r) PROVE BillInv'
  <1>. r \in Req /\ BillInv /\ UNCHANGED <<tx, billVars>>
    BY DEF RowStep
  <1>1. /\ req[r] \in BillRequest /\ now \in Nat /\ cache' \in CacheType /\ hazard \subseteq Hazards
        /\ sub \in [Row -> Sub \cup {None}] /\ RowFits(req[r])
        /\ req[r].at = "act" /\ req[r].op = "delete"
    BY InBill DEF Delete, At
  <1>. DEFINE q == [req[r] EXCEPT !.at = "announce"]
  <1>2. /\ q \in BillRequest /\ q.at = "announce" /\ q.was = req[r].was /\ q.doc = req[r].doc
    BY <1>1, Relabel DEF Label
  <1>3. Step(r, q) /\ sub' = [sub EXCEPT ![req[r].s] = None] /\ UNCHANGED now
    BY DEF Delete, Goto
  <1>. HIDE DEF q
  <1>4. RowFits(q) /\ PayFits(q) /\ q.at # "session" /\ ~Busy(req[r])
    BY <1>1, <1>2, RowLabels DEF RowFits, Label, Busy
  <1>5. hazard \subseteq hazard' /\ hazard' \subseteq Hazards
    BY <1>1 DEF Delete, Note, Hazards
  <1>6. \A t \in Row : sub'[t] # None => Earned(sub'[t])
    BY <1>1, <1>3, InRow
  <1>7. sub' \in [Row -> Sub \cup {None}] /\ now' \in Nat
    BY <1>1, <1>3
  <1>. QED
    BY <1>1, <1>2, <1>3, <1>4, <1>5, <1>6, <1>7, Restful

LEMMA AnswerBills == ASSUME NEW r, RowStep(r), Announce(r) \/ Fill(r) PROVE BillInv'
  <1>. r \in Req /\ BillInv /\ UNCHANGED <<tx, billVars>>
    BY DEF RowStep
  <1>1. ~Busy(req[r]) /\ Step(r, Idle) /\ UNCHANGED <<now, sub, hazard>>
    BY DEF Announce, Fill, At, Busy, Done
  <1>2. cache' \in CacheType
    <2>1. CASE Announce(r)
      BY <2>1 DEF Announce, CacheType
    <2>2. CASE Fill(r)
      <3>1. PICK on, late : cache' = [on |-> on, late |-> late] /\ on \in BOOLEAN /\ late \in BOOLEAN
        BY <2>2 DEF Fill, Stale, Entitled
      <3>. QED
        BY <3>1 DEF CacheType
    <2>. QED
      BY <2>1, <2>2
  <1>. QED
    BY <1>1, <1>2, IdleFitsBill, Reading

\* A step in which no request goes on.
LEMMA IdleBills ==
    ASSUME BillInv, UNCHANGED <<tx, billVars, sub, req, hazard>>, now' \in Nat, cache' \in CacheType
    PROVE  BillInv'
  <1>1. BillTypeOK'
    BY DEF BillInv, BillTypeOK, billVars, CacheType
  <1>2. \A p \in Pay : Sound(p)' /\ Served(p)' /\ Claimed(p)'
    BY ZenonT(60) DEF BillInv, billVars, Sound, Served, Claimed, Holds, Refunded, Reported, Succeeded, ServedNow,
           SettledNow, Serves, Settles
  <1>3. \A r \in Req : RowFits(req[r])' /\ PayFits(req[r])'
    <2>1. TAKE r \in Req
    <2>2. RowFits(req[r]) /\ PayFits(req[r])
      BY DEF BillInv
    <2>3. RowFits(req[r])'
      BY <2>2 DEF billVars, RowFits, Earned
    <2>4. PayFits(req[r])'
      BY <2>2 DEF billVars, PayFits, Reported, Refunded, Succeeded, Holds
    <2> QED
      BY <2>3, <2>4
  <1>4. \A s \in Rows' : Earned(sub[s])'
    BY DEF BillInv, billVars, Rows, Earned
  <1>. QED
    BY <1>1, <1>2, <1>3, <1>4 DEF BillInv, At

\* Every step of the requests of Subscriptions.
LEMMA SubNextBills == ASSUME BillInv, UNCHANGED tx, SubNext /\ UNCHANGED billVars PROVE BillInv'
  <1>1. ASSUME NEW r \in Req, Begin(r) \/ Serve(r) \/ Lose(r)
        PROVE  BillInv'
    <2>1. RowStep(r)
      BY DEF RowStep
    <2>2. CASE Lose(r)
      BY <2>2, BreakOffBills DEF Lose
    <2>3. CASE Serve(r)
      BY <2>1, <2>3, FindBills, SaveBills, LoadBills, ApplyBills, RenewFailsBills, StartBills,
         RetireBills, CreateBills, DeleteBills, AnswerBills DEF Serve
    <2>. QED
      BY <1>1, <2>1, <2>2, <2>3, BeginBills
  <1>2. CASE Lapse
    BY <1>2, IdleBills, InBill DEF Lapse, BillInv, BillTypeOK, CacheType
  <1>3. CASE Tick
    <2>1. now' \in Nat /\ cache' \in CacheType /\ UNCHANGED <<sub, req, hazard>>
      BY <1>3, BillLate DEF Tick, BillInv, BillTypeOK
    <2>. QED
      BY <2>1, IdleBills
  <1>. QED
    BY <1>1, <1>2, <1>3 DEF SubNext

-----------------------------------------------------------------------------
(* The steps of the billing that leave the payments alone.                 *)

BillStep(r) == r \in Req /\ BillInv /\ UNCHANGED tx

LEMMA KeepsRows ==
    ASSUME NEW c, NEW q, RowFits(c), q.was = c.was, q.doc = c.doc,
           q.at \in Paying
    PROVE  RowFits(q)
  BY DEF RowFits, Paying

\* A payment a request is at work on.
LEMMA InPay ==
    ASSUME BillInv, NEW r \in Req, req[r].at \in Paying
    PROVE  LET p == req[r].p
           IN /\ p \in Pay /\ pay[p] \in Payment /\ pay[p].status \in PayStatus /\ prov[p] # "none"
              /\ pay[p].status = "success" <=> Holds(p, "success")
              /\ Sound(p)
  <1>1. req[r].p \in Pay /\ pay[req[r].p] # None /\ prov[req[r].p] # "none"
    BY InBill DEF PayFits
  <1>2. pay \in [Pay -> Payment \cup {None}] /\ Sound(req[r].p)
    BY <1>1 DEF BillInv, BillTypeOK
  <1>3. pay[req[r].p] \in Payment
    BY <1>1, <1>2
  <1>4. pay[req[r].p].status \in PayStatus
    BY <1>3 DEF Payment
  <1>. QED
    BY <1>1, <1>2, <1>3, <1>4 DEF Holds

LEMMA PayReads ==
    ASSUME NEW r, BillStep(r), UNCHANGED <<now, sub, cache, hazard, pay, inv, prov, mail, grants, overpaid>>,
           claimed' \subseteq Event, NEW q \in BillRequest, Step(r, q),
           RowFits(q), PayFits(q), q.at # "session",
           req[r].at \notin {"invoice", "load", "act"},
           \A p \in Pay : Settles(req[r], p) => Settles(q, p) \/ SettledNow(p),
           \A p \in Pay : <<p, "paid">> \in claimed' =>
               <<p, "paid">> \in claimed \/ Settles(q, p) \/ SettledNow(p)
    PROVE  BillInv'
  <1>. r \in Req /\ BillInv /\ UNCHANGED tx
    BY DEF BillStep
  <1>1. \A s \in Row : sub'[s] # None => Earned(sub'[s])
    BY InRow
  <1>2. \A p \in Pay : ~Serves(req[r], p)
    BY DEF Serves
  <1>. QED
    BY <1>1, <1>2, InBill, Calm

\* One that records no event.
LEMMA PayAsks ==
    ASSUME NEW r, BillStep(r), UNCHANGED <<now, sub, cache, hazard, billVars>>,
           NEW q \in BillRequest, Step(r, q), RowFits(q), PayFits(q), q.at # "session",
           req[r].at \notin {"invoice", "load", "act"},
           \A p \in Pay : Settles(req[r], p) => Settles(q, p) \/ SettledNow(p)
    PROVE  BillInv'
  <1>1. claimed' \subseteq Event /\ claimed' = claimed
    BY DEF BillStep, BillInv, BillTypeOK, billVars
  <1>. QED
    BY <1>1, PayReads DEF billVars

LEMMA BeginPayBills == ASSUME NEW r, BillStep(r), BeginPay(r) PROVE BillInv'
  <1>. r \in Req /\ BillInv /\ UNCHANGED <<tx, now, sub, cache, hazard, billVars>> /\ RowStep(r)
    BY DEF BillStep, RowStep, BeginPay
  <1>1. now \in Nat /\ ~Busy(req[r]) /\ cache' \in CacheType
    BY InBill DEF BeginPay, At, Busy
  <1>2. ASSUME NEW q \in BillRequest, Step(r, q), RowFits(q), PayFits(q), q.at # "session"
        PROVE  BillInv'
    BY <1>1, <1>2, Reading
  <1>3. PICK o \in PayOp :
          LET new == [Idle EXCEPT !.op = o, !.day = now]
          IN \/ /\ o = "checkout"
                /\ \/ Step(r, [new EXCEPT !.at = "find"])
                   \/ \E s \in Rows : Step(r, [new EXCEPT !.at = "load", !.s = s])
             \/ /\ o = "webhook"
                /\ \E e \in mail : Step(r, [new EXCEPT !.at = "claim", !.p = e[1], !.out = e[2]])
             \/ /\ o \in {"verify", "refund"}
                /\ \E p \in Pay : /\ pay[p] # None /\ pay[p].url
                                  /\ Step(r, [new EXCEPT !.at = "read", !.p = p])
    BY DEF BeginPay
  <1>4. o \in {"checkout", "verify", "webhook", "refund"}
    OBVIOUS
  <1>5. PICK new \in BillRequest : new = [Idle EXCEPT !.op = o, !.day = now] /\ new.op = o
                                   /\ new.was = None /\ new.doc = None
    <2>1. [Idle EXCEPT !.op = o, !.day = now] \in BillRequest
      BY <1>1, <1>4 DEF Idle, BillRequest, Label
    <2>. QED
      BY <2>1 DEF Idle
  <1>6. ASSUME o = "checkout", Step(r, [new EXCEPT !.at = "find"])
        PROVE  BillInv'
    <2>1. PICK q : q = [new EXCEPT !.at = "find"]
      OBVIOUS
    <2>2. q \in BillRequest /\ q.at = "find" /\ q.op = o /\ q.was = None /\ q.doc = None
      BY <1>5, <2>1, ZenonT(60) DEF BillRequest, Label
    <2>3. RowFits(q) /\ PayFits(q)
      BY <1>6, <2>2, RowLabels DEF RowFits, Finding, Label
    <2>. QED
      BY <1>2, <1>6, <2>1, <2>2, <2>3
  <1>7. ASSUME o = "checkout", NEW s \in Rows, Step(r, [new EXCEPT !.at = "load", !.s = s])
        PROVE  BillInv'
    <2>1. PICK q : q = [new EXCEPT !.at = "load", !.s = s]
      OBVIOUS
    <2>2. q \in BillRequest /\ q.at = "load" /\ q.op = o /\ q.was = None /\ q.doc = None /\ q.s \in Row
      BY <1>5, <2>1, ZenonT(60) DEF BillRequest, Label, Rows
    <2>3. RowFits(q) /\ PayFits(q)
      BY <1>7, <2>2, RowLabels DEF RowFits, Label
    <2>. QED
      BY <1>2, <1>7, <2>1, <2>2, <2>3
  <1>8. ASSUME o = "webhook", NEW e \in mail, Step(r, [new EXCEPT !.at = "claim", !.p = e[1], !.out = e[2]])
        PROVE  BillInv'
    <2>0. PICK p \in Pay, out \in Outcome \cup {"succeeded"} : e = <<p, out>>
      BY DEF BillInv, BillTypeOK, Event
    <2>1. PICK q : q = [new EXCEPT !.at = "claim", !.p = p, !.out = out]
      OBVIOUS
    <2>2. q \in BillRequest /\ q.at = "claim" /\ q.op = o /\ q.was = None /\ q.doc = None
          /\ q.p = p /\ q.out = out
      <3>1. q \in BillRequest
        BY <2>1 DEF BillRequest
      <3>. QED
        BY <1>5, <2>1, <3>1 DEF BillRequest
    <2>3. Sound(p)
      BY DEF BillInv
    <2>4. <<p, out>> \in mail /\ prov[p] # "none" /\ pay[p] # None
      BY <2>0, <2>3 DEF Sound
    <2>5. RowFits(q) /\ PayFits(q)
      BY <1>8, <2>2, <2>4 DEF RowFits, PayFits, Paying
    <2>. QED
      BY <1>2, <1>8, <2>0, <2>1, <2>2, <2>5
  <1>9. ASSUME o \in {"verify", "refund"}, NEW p \in Pay, pay[p] # None, pay[p].url,
               Step(r, [new EXCEPT !.at = "read", !.p = p])
        PROVE  BillInv'
    <2>1. PICK q : q = [new EXCEPT !.at = "read", !.p = p]
      OBVIOUS
    <2>2. q \in BillRequest /\ q.at = "read" /\ q.op = o /\ q.was = None /\ q.doc = None /\ q.p = p
      <3>1. q \in BillRequest
        BY <2>1 DEF BillRequest
      <3>. QED
        BY <1>5, <2>1, <3>1 DEF BillRequest
    <2>3. prov[p] # "none"
      BY <1>9 DEF BillInv, Sound
    <2>4. RowFits(q) /\ PayFits(q)
      BY <1>9, <2>2, <2>3 DEF RowFits, PayFits, Paying
    <2>. QED
      BY <1>2, <1>9, <2>1, <2>2, <2>4
  <1>. QED
    BY <1>3, <1>5, <1>6, <1>7, <1>8, <1>9

LEMMA CheckoutBills ==
    ASSUME NEW r, BillStep(r), NEW asked \in Kind, NEW given \in Header \cup {None}, Checkout(r, asked, given)
    PROVE  BillInv'
  <1>. r \in Req /\ BillInv /\ UNCHANGED <<tx, now, sub, cache, hazard, billVars>> /\ RowStep(r)
    BY DEF BillStep, RowStep, Checkout
  <1>1. /\ req[r] \in BillRequest /\ req[r].at = "act" /\ req[r].op = "checkout" /\ req[r].s \in Row
        /\ req[r].doc \in Sub /\ now \in Nat /\ cache' \in CacheType /\ ~Busy(req[r])
    BY InBill DEF Checkout, At, RowFits, BillRequest, Busy
  <1>. DEFINE d == req[r].doc
              s == req[r].s
              kind == IF asked = "renewal" \/ d.status \in {"suspended", "expired"}
                      THEN "renewal" ELSE "checkout"
              start == IF kind = "renewal" THEN now ELSE d.start
              key == IF given # None THEN given ELSE <<kind, s, start>>
              copy == [status |-> "pending", sub |-> s, kind |-> kind,
                       start |-> start, url |-> FALSE, key |-> key]
              q == [Idle EXCEPT !.op = "checkout", !.at = "insert", !.s = s, !.day = req[r].day, !.copy = copy]
  <1>2. kind \in Kind
    BY DEF Kind
  <1>3. start \in Nat
    BY <1>1 DEF Sub
  <1>4. key \in Header \cup (Kind \X Row \X Nat)
    <2>. HIDE DEF kind, start
    <2>. QED
      BY <1>1, <1>2, <1>3
  <1>5. copy \in Payment /\ copy.status = "pending" /\ ~copy.url
    <2>. HIDE DEF kind, start, key
    <2>. QED
      BY <1>1, <1>2, <1>3, <1>4 DEF Payment, PayStatus
  <1>6. Step(r, Idle) \/ Step(r, q)
    BY Zenon DEF Checkout, Done
  <1>. HIDE DEF copy
  <1>7. /\ q \in BillRequest /\ q.at = "insert" /\ q.was = None /\ q.doc = None /\ q.copy = copy
        /\ q.s \in Row
    <2>1. q.at = "insert" /\ q.was = None /\ q.doc = None /\ q.copy = copy /\ q.s = s
      BY DEF Idle
    <2>2. PICK c \in Payment, t \in Row, day \in Nat : c = copy /\ t = s /\ day = req[r].day
      BY <1>1, <1>5 DEF BillRequest
    <2>3. [Idle EXCEPT !.op = "checkout", !.at = "insert", !.s = t, !.day = day, !.copy = c] \in BillRequest
      BY DEF Idle, BillRequest
    <2>. QED
      BY <2>1, <2>2, <2>3
  <1>. HIDE DEF q
  <1>8. RowFits(q) /\ PayFits(q)
    BY <1>5, <1>7 DEF RowFits, PayFits, Paying
  <1>. QED
    BY <1>1, <1>6, <1>7, <1>8, IdleFitsBill, Reading

LEMMA MarkPendingBills == ASSUME NEW r, BillStep(r), MarkPending(r) PROVE BillInv'
  <1>. r \in Req /\ BillInv /\ UNCHANGED <<tx, now, cache, billVars>>
    BY DEF BillStep, MarkPending
  <1>1. /\ req[r] \in BillRequest /\ req[r].at = "act" /\ req[r].op = "mark" /\ req[r].s \in Row
        /\ req[r].doc \in Sub /\ req[r].was \in Sub /\ cache' \in CacheType /\ ~Busy(req[r])
    BY InBill DEF MarkPending, At, RowFits, BillRequest, Busy
  <1>. DEFINE doc == [req[r].doc EXCEPT !.status = "pending", !.ref = "session"]
              q == [req[r] EXCEPT !.at = "announce", !.doc = None, !.was = None]
  <1>2. doc \in Sub /\ doc.ref = "session"
    BY <1>1 DEF Sub, Status
  <1>3. Store(r, doc, "announce")
    BY DEF MarkPending
  <1>. HIDE DEF doc
  <1>4. Earned(doc)
    BY <1>2 DEF Earned
  <1>5. q.at = "announce" /\ q.doc = None /\ q.was = None
    BY <1>1 DEF BillRequest
  <1>6. RowFits(q) /\ PayFits(q) /\ "announce" \in Label
    <2>. HIDE DEF q
    <2>. QED
      BY <1>5, RowLabels DEF RowFits, Label
  <1>7. LET held == IF "announce" = "announce" THEN None ELSE doc
            v == [req[r] EXCEPT !.at = "announce", !.doc = held, !.was = held]
        IN RowFits(v) /\ PayFits(v)
    BY <1>6
  <1>. HIDE DEF q
  <1>. QED
    BY <1>1, <1>2, <1>3, <1>4, <1>6, <1>7, StoredBill

LEMMA ClaimBills == ASSUME NEW r, BillStep(r), Claim(r) PROVE BillInv'
  <1>. /\ r \in Req /\ BillInv /\ UNCHANGED tx
       /\ UNCHANGED <<now, sub, cache, hazard, pay, inv, prov, mail, grants, overpaid>>
    BY DEF BillStep, Claim
  <1>. DEFINE p == req[r].p
              out == req[r].out
              next == IF out = "succeeded" THEN "paid" ELSE out
              q == [req[r] EXCEPT !.at = "read", !.out = next]
  <1>1. /\ req[r] \in BillRequest /\ req[r].at = "claim" /\ req[r].op = "webhook" /\ RowFits(req[r])
        /\ p \in Pay /\ pay[p] # None /\ prov[p] # "none" /\ <<p, out>> \in mail
    BY InBill DEF Claim, At, PayFits, Paying
  <1>2. out \in Outcome \cup {"succeeded"} /\ mail \subseteq Event /\ claimed \subseteq Event
    BY <1>1 DEF BillInv, BillTypeOK, Event
  <1>3. Reported(p, out)
    BY <1>1, <1>2 DEF BillInv, Sound
  <1>4. claimed' = claimed \cup {<<p, out>>} /\ claimed' \subseteq Event
    BY <1>1, <1>2 DEF Claim
  <1>5. next \in Outcome /\ Reported(p, next)
    BY <1>2, <1>3 DEF Outcome, Reported
  <1>6. ~Settles(req[r], p) /\ \A x \in Pay : ~Settles(req[r], x)
    BY <1>1 DEF Settles
  <1>7. CASE <<p, out>> \in claimed
    <2>1. Step(r, Idle) /\ claimed' = claimed
      BY <1>4, <1>7 DEF Claim, Done
    <2>. QED
      BY <1>1, <1>2, <1>6, <2>1, IdleFitsBill, PayReads
  <1>8. CASE <<p, out>> \notin claimed
    <2>1. Step(r, q)
      BY <1>8 DEF Claim
    <2>2. /\ q \in BillRequest /\ q.at = "read" /\ q.op = "webhook" /\ q.was = req[r].was
          /\ q.doc = req[r].doc /\ q.p = p /\ q.out = next
      <3>. HIDE DEF next
      <3>. QED
        BY <1>1, <1>5, ZenonT(60) DEF BillRequest
    <2>. HIDE DEF q
    <2>3. RowFits(q)
      BY <1>1, <2>2, KeepsRows DEF Paying
    <2>4. PayFits(q)
      <3>. HIDE DEF next
      <3>. QED
        BY <1>1, <1>5, <2>2 DEF PayFits, Paying
    <2>5. ASSUME NEW x \in Pay, <<x, "paid">> \in claimed', <<x, "paid">> \notin claimed
          PROVE  Settles(q, x)
      BY <1>4, <2>2, <2>5 DEF Settles
    <2>. QED
      BY <1>1, <1>4, <1>6, <2>1, <2>2, <2>3, <2>4, <2>5, PayReads
  <1>. QED
    BY <1>7, <1>8

LEMMA ReadPaymentBills == ASSUME NEW r, BillStep(r), ReadPayment(r) PROVE BillInv'
  <1>. r \in Req /\ BillInv /\ UNCHANGED <<tx, now, sub, cache, hazard, billVars>>
    BY DEF BillStep, ReadPayment
  <1>. DEFINE p == req[r].p
              next == CASE req[r].op = "verify" -> "ask" [] req[r].op = "refund" -> "charge"
                        [] OTHER -> "settle"
              q == [req[r] EXCEPT !.at = next, !.copy = pay[p]]
  <1>1. /\ req[r] \in BillRequest /\ req[r].at = "read" /\ RowFits(req[r])
        /\ req[r].op \in {"webhook", "verify", "refund"}
        /\ req[r].op = "webhook" => req[r].out \in Outcome /\ Reported(p, req[r].out)
    BY InBill DEF ReadPayment, At, PayFits
  <1>2. /\ p \in Pay /\ pay[p] \in Payment /\ prov[p] # "none" /\ pay[p] # None
        /\ pay[p].status = "success" => Succeeded(p)
    BY <1>1, InPay DEF Paying, Succeeded
  <1>3. /\ req[r].op = "verify" => next = "ask"
        /\ req[r].op = "refund" => next = "charge"
        /\ req[r].op = "webhook" => next = "settle"
    OBVIOUS
  <1>4. Step(r, q)
    BY DEF ReadPayment
  <1>. HIDE DEF next
  <1>5. /\ q \in BillRequest /\ q.at = next /\ q.op = req[r].op /\ q.was = req[r].was
        /\ q.doc = req[r].doc /\ q.p = p /\ q.out = req[r].out /\ q.copy = pay[p]
    <2>1. PICK c \in BillRequest, d \in Payment, label \in Paying : c = req[r] /\ d = pay[p] /\ label = next
      BY <1>1, <1>2, <1>3 DEF Paying
    <2>2. PICK u : u = [c EXCEPT !.at = label, !.copy = d]
      OBVIOUS
    <2>3. /\ u \in BillRequest /\ u.at = label /\ u.op = c.op /\ u.was = c.was
          /\ u.doc = c.doc /\ u.p = c.p /\ u.out = c.out /\ u.copy = d
      BY <2>2 DEF BillRequest, Paying
    <2>4. q = u
      BY <2>1, <2>2
    <2>. HIDE DEF q
    <2>. QED
      BY <2>1, <2>3, <2>4
  <1>. HIDE DEF q
  <1>6. RowFits(q)
    BY <1>1, <1>3, <1>5, KeepsRows DEF Paying
  <1>7. PayFits(q)
    BY <1>1, <1>2, <1>3, <1>5 DEF PayFits, Paying
  <1>8. \A x \in Pay : Settles(req[r], x) => Settles(q, x)
    BY <1>1, <1>3, <1>5 DEF Settles
  <1>. QED
    BY <1>1, <1>3, <1>4, <1>5, <1>6, <1>7, <1>8, PayAsks

LEMMA AskBills == ASSUME NEW r, BillStep(r), Ask(r) PROVE BillInv'
  <1>. r \in Req /\ BillInv /\ UNCHANGED <<tx, now, sub, cache, hazard, billVars>>
    BY DEF BillStep, Ask
  <1>. DEFINE p == req[r].p
              q == [req[r] EXCEPT !.at = "settle", !.out = prov[p]]
  <1>1. /\ req[r] \in BillRequest /\ req[r].at = "ask" /\ RowFits(req[r])
        /\ req[r].copy \in Payment /\ (req[r].copy.status = "success" => Succeeded(p))
    BY InBill DEF Ask, At, PayFits
  <1>2. p \in Pay /\ pay[p] # None /\ prov[p] # "none"
    BY <1>1, InBill DEF Paying, PayFits
  <1>3. \A x \in Pay : ~Settles(req[r], x)
    BY <1>1 DEF Settles
  <1>4. CASE prov[p] \in {"paid", "cancelled"}
    <2>1. Step(r, q)
      BY <1>4 DEF Ask
    <2>2. /\ q \in BillRequest /\ q.at = "settle" /\ q.was = req[r].was /\ q.copy = req[r].copy
          /\ q.doc = req[r].doc /\ q.p = p /\ q.out = prov[p]
      <3>1. PICK c \in BillRequest, out \in Outcome : c = req[r] /\ out = prov[p]
        BY <1>1, <1>4 DEF Outcome
      <3>2. PICK u : u = [c EXCEPT !.at = "settle", !.out = out]
        OBVIOUS
      <3>3. /\ u \in BillRequest /\ u.at = "settle" /\ u.was = c.was /\ u.copy = c.copy
            /\ u.doc = c.doc /\ u.p = c.p /\ u.out = out
        BY <3>2 DEF BillRequest
      <3>4. q = u
        BY <3>1, <3>2
      <3>. HIDE DEF q
      <3>. QED
        BY <3>1, <3>3, <3>4
    <2>. HIDE DEF q
    <2>3. RowFits(q)
      BY <1>1, <2>2, KeepsRows DEF Paying
    <2>4. q.out \in Outcome /\ Reported(p, q.out)
      BY <1>4, <2>2 DEF Outcome, Reported
    <2>5. PayFits(q)
      BY <1>1, <1>2, <2>2, <2>4 DEF PayFits, Paying
    <2>. QED
      BY <1>1, <1>3, <2>1, <2>2, <2>3, <2>5, PayAsks
  <1>5. CASE prov[p] \notin {"paid", "cancelled"}
    <2>1. Step(r, Idle)
      BY <1>5 DEF Ask, Done
    <2>. QED
      BY <1>1, <1>3, <2>1, IdleFitsBill, PayAsks
  <1>. QED
    BY <1>4, <1>5

LEMMA SettlePaidBills == ASSUME NEW r, BillStep(r), SettlePaid(r) PROVE BillInv'
  <1>. r \in Req /\ BillInv /\ UNCHANGED <<tx, now, sub, cache, hazard, billVars>>
    BY DEF BillStep, SettlePaid
  <1>. DEFINE p == req[r].p
              q == [req[r] EXCEPT !.at = "commit"]
  <1>1. /\ req[r] \in BillRequest /\ req[r].at = "settle" /\ req[r].out = "paid" /\ RowFits(req[r])
        /\ PayFits(req[r]) /\ (req[r].copy.status = "success" => Succeeded(p))
    BY InBill DEF SettlePaid, At, PayFits
  <1>2. CASE req[r].copy.status = "success"
    <2>1. Step(r, Idle)
      BY <1>2 DEF SettlePaid, Done
    <2>2. \A x \in Pay : Settles(req[r], x) => SettledNow(x)
      BY <1>1, <1>2 DEF Settles, SettledNow
    <2>. QED
      BY <1>1, <2>1, <2>2, IdleFitsBill, PayAsks
  <1>3. CASE req[r].copy.status # "success"
    <2>1. Step(r, q)
      BY <1>3 DEF SettlePaid, Goto
    <2>2. /\ q \in BillRequest /\ q.at = "commit" /\ q.was = req[r].was /\ q.copy = req[r].copy
          /\ q.doc = req[r].doc /\ q.p = p /\ q.out = req[r].out
      BY <1>1 DEF BillRequest
    <2>. HIDE DEF q
    <2>3. RowFits(q)
      BY <1>1, <2>2, KeepsRows DEF Paying
    <2>4. PayFits(q)
      BY <1>1, <2>2 DEF PayFits, Paying
    <2>5. \A x \in Pay : Settles(req[r], x) => Settles(q, x)
      BY <1>1, <2>2 DEF Settles
    <2>. QED
      BY <1>1, <2>1, <2>2, <2>3, <2>4, <2>5, PayAsks
  <1>. QED
    BY <1>2, <1>3

LEMMA RereadBills == ASSUME NEW r, BillStep(r), Reread(r) PROVE BillInv'
  <1>. r \in Req /\ BillInv /\ ~tx /\ UNCHANGED <<tx, now, sub, cache, hazard, billVars>>
    BY DEF BillStep, Reread
  <1>. DEFINE p == req[r].p
              q == [req[r] EXCEPT !.at = "success", !.copy = pay[p]]
  <1>1. /\ req[r] \in BillRequest /\ req[r].at = "commit" /\ req[r].out = "paid" /\ RowFits(req[r])
        /\ PayFits(req[r])
    BY InBill DEF Reread, At, PayFits
  <1>2. /\ p \in Pay /\ pay[p] \in Payment /\ prov[p] # "none" /\ pay[p] # None
        /\ pay[p].status = "success" => Succeeded(p)
    BY <1>1, InPay DEF Paying, Succeeded
  <1>3. CASE Handled(p)
    <2>1. Step(r, Idle)
      BY <1>3 DEF Reread, Done
    <2>2. \A x \in Pay : Settles(req[r], x) => SettledNow(x)
      BY <1>2, <1>3 DEF Settles, SettledNow, Handled
    <2>. QED
      BY <1>1, <2>1, <2>2, IdleFitsBill, PayAsks
  <1>4. CASE ~Handled(p)
    <2>1. Step(r, q)
      BY <1>4 DEF Reread
    <2>2. /\ q \in BillRequest /\ q.at = "success" /\ q.was = req[r].was
          /\ q.doc = req[r].doc /\ q.p = p /\ q.out = req[r].out
      BY <1>1, <1>2, ZenonT(60) DEF BillRequest
    <2>. HIDE DEF q
    <2>3. RowFits(q)
      BY <1>1, <2>2, KeepsRows DEF Paying
    <2>4. PayFits(q)
      BY <1>1, <1>2, <2>2 DEF PayFits, Paying
    <2>5. \A x \in Pay : Settles(req[r], x) => Settles(q, x)
      BY <1>1, <2>2 DEF Settles
    <2>. QED
      BY <1>1, <2>1, <2>2, <2>3, <2>4, <2>5, PayAsks
  <1>. QED
    BY <1>3, <1>4

-----------------------------------------------------------------------------
(* The steps of the billing that write a payment.                          *)

Tidings == Outcome \cup {"succeeded"}

\* Nothing is written of any payment but p.
Only(p) ==
    \A x \in Pay \ {p} :
        /\ pay'[x] = pay[x] /\ inv'[x] = inv[x] /\ prov'[x] = prov[x] /\ grants'[x] = grants[x]
        /\ x \in overpaid' <=> x \in overpaid
        /\ \A out \in Tidings : <<x, out>> \in mail' <=> <<x, out>> \in mail

LEMMA Elsewhere ==
    ASSUME BillInv, UNCHANGED tx, NEW p \in Pay, Only(p), hazard \subseteq hazard', NEW x \in Pay \ {p}
    PROVE  /\ Sound(x)'
           /\ Succeeded(x) => Succeeded(x)'
           /\ SettledNow(x) => SettledNow(x)'
           /\ ServedNow(x) => ServedNow(x)'
           /\ Holds(x, "success")' => Holds(x, "success")
  <1>1. /\ pay'[x] = pay[x] /\ inv'[x] = inv[x] /\ prov'[x] = prov[x] /\ grants'[x] = grants[x]
        /\ x \in overpaid' <=> x \in overpaid
        /\ \A out \in Tidings : <<x, out>> \in mail' <=> <<x, out>> \in mail
        /\ Sound(x)
    BY DEF Only, BillInv
  <1>2. /\ Holds(x, "success")' <=> Holds(x, "success")
        /\ Refunded(x)' <=> Refunded(x)
    BY <1>1 DEF Holds, Refunded, Tidings, Outcome
  <1>3. \A out : Reported(x, out) => Reported(x, out)'
    BY <1>1, <1>2 DEF Reported
  <1>4. Succeeded(x)' <=> Succeeded(x)
    BY <1>1, <1>2 DEF Succeeded
  <1>5. \A out \in Tidings : <<x, out>> \in mail' => prov'[x] # "none" /\ Reported(x, out)'
    BY <1>1, <1>3 DEF Sound, Tidings
  <1>6. prov'[x] = "paid" => <<x, "paid">> \in mail'
    BY <1>1 DEF Sound, Tidings, Outcome
  <1>7. /\ pay'[x] = None => prov'[x] = "none"
        /\ pay'[x] # None /\ pay'[x].url => prov'[x] # "none"
        /\ Holds(x, "success")' => prov'[x] = "paid"
        /\ tx' /\ grants'[x] > 0 => Succeeded(x)'
        /\ tx' /\ grants'[x] > 1 => Refunded(x)' \/ x \in overpaid'
    BY <1>1, <1>2, <1>4 DEF Sound
  <1>8. Sound(x)'
    BY <1>5, <1>6, <1>7 DEF Sound, Tidings
  <1>. QED
    BY <1>1, <1>2, <1>4, <1>8 DEF SettledNow, ServedNow

\* A step of r that writes of p at most.
LEMMA Writes ==
    ASSUME BillInv, UNCHANGED tx, NEW r \in Req, NEW q, q \in BillRequest, Step(r, q),
           NEW p \in Pay, Only(p), BillTypeOK', RowFits(q)', PayFits(q)',
           mail \subseteq mail', hazard \subseteq hazard', claimed' = claimed,
           req[r].at = "insert" \/ req[r].p = p,
           prov[p] \in {"paid", "cancelled"} => prov'[p] = prov[p],
           prov[p] # "none" => prov'[p] # "none",
           pay[p] # None => pay'[p] # None,
           Succeeded(p) => Succeeded(p)',
           grants[p] > 0 => grants'[p] > 0,
           \A t \in Req \ {r} : At(t, "session") => req[t].p # p \/ (prov'[p] = prov[p] /\ q.at # "session"),
           q.at = "session" => q.p = p,
           \A s \in Row : sub'[s] # None => Earned(sub[s])',
           Sound(p)',
           Holds(p, "success")' =>
               \/ ServedNow(p)' \/ Serves(q, p)'
               \/ Holds(p, "success") /\ ~ServedNow(p) /\ ~Serves(req[r], p) /\ inv'[p] = inv[p],
           Settles(req[r], p) => Settles(q, p) \/ SettledNow(p)'
    PROVE  BillInv'
  <1>1. ASSUME NEW x \in Pay \ {p}
        PROVE  ~Serves(req[r], x) /\ ~Settles(req[r], x)
    BY DEF Serves, Settles
  <1>2. Grows
    <2>1. \A x \in Pay \ {p} : /\ pay'[x] = pay[x] /\ prov'[x] = prov[x] /\ grants'[x] = grants[x]
                               /\ Succeeded(x) => Succeeded(x)'
      BY Elsewhere DEF Only
    <2>. QED
      BY <2>1 DEF Grows
  <1>3. \A x \in Pay : Sound(x)'
    BY Elsewhere
  <1>4. ASSUME NEW t \in Req \ {r}, At(t, "session")
        PROVE  prov'[req[t].p] = prov[req[t].p]
    <2>1. req[t].p \in Pay
      BY <1>4, InBill DEF PayFits, At
    <2>. QED
      BY <1>4, <2>1 DEF Only
  <1>5. q.at = "session" => \A t \in Req \ {r} : At(t, "session") => req[t].p # q.p
    OBVIOUS
  <1>6. ASSUME NEW x \in Pay, Holds(x, "success")'
        PROVE  \/ ServedNow(x)' \/ Serves(q, x)'
               \/ Holds(x, "success") /\ ~ServedNow(x) /\ ~Serves(req[r], x) /\ inv'[x] = inv[x]
    BY <1>1, <1>6, Elsewhere DEF Only
  <1>7. SettledNow(p) => SettledNow(p)'
    BY DEF SettledNow
  <1>8. ASSUME NEW x \in Pay, <<x, "paid">> \in claimed'
        PROVE  \/ SettledNow(x)' \/ Settles(q, x)
               \/ <<x, "paid">> \in claimed /\ ~SettledNow(x) /\ ~Settles(req[r], x)
    BY <1>1, <1>7, <1>8, Elsewhere
  <1>. QED
    BY <1>2, <1>3, <1>4, <1>5, <1>6, <1>8, Advance

LEMMA InTypes ==
    ASSUME BillInv
    PROVE  /\ now \in Nat /\ sub \in [Row -> Sub \cup {None}] /\ req \in [Req -> BillRequest]
           /\ cache \in CacheType /\ hazard \subseteq Hazards
           /\ pay \in [Pay -> Payment \cup {None}] /\ inv \in [Pay -> Invoice]
           /\ prov \in [Pay -> {"none", "open", "paid", "cancelled"}]
           /\ mail \subseteq Event /\ claimed \subseteq Event /\ grants \in [Pay -> Nat]
           /\ overpaid \subseteq Pay
           /\ \A s \in Row : sub[s] # None => Earned(sub[s])
  BY DEF BillInv, BillTypeOK, Rows, CacheType, Hazards

\* A step of r that leaves the rows alone and keeps its hands on no row.
LEMMA PayOnly ==
    ASSUME BillInv, UNCHANGED <<tx, now, sub, cache, hazard, claimed>>,
           NEW r \in Req, NEW q, q \in BillRequest, Step(r, q),
           NEW p \in Pay, Only(p), RowFits(q)', PayFits(q)',
           pay' \in [Pay -> Payment \cup {None}], inv' \in [Pay -> Invoice],
           prov' \in [Pay -> {"none", "open", "paid", "cancelled"}], grants' = grants,
           mail \subseteq mail', mail' \subseteq Event, overpaid' \subseteq Pay,
           req[r].at = "insert" \/ req[r].p = p,
           prov[p] \in {"paid", "cancelled"} => prov'[p] = prov[p],
           prov[p] # "none" => prov'[p] # "none",
           pay[p] # None => pay'[p] # None,
           Succeeded(p) => Succeeded(p)',
           \A t \in Req \ {r} : At(t, "session") => req[t].p # p \/ (prov'[p] = prov[p] /\ q.at # "session"),
           q.at = "session" => q.p = p,
           Sound(p)',
           Holds(p, "success")' =>
               \/ ServedNow(p)' \/ Serves(q, p)'
               \/ Holds(p, "success") /\ ~ServedNow(p) /\ ~Serves(req[r], p) /\ inv'[p] = inv[p],
           Settles(req[r], p) => Settles(q, p) \/ SettledNow(p)'
    PROVE  BillInv'
  <1>1. \A s \in Row : sub'[s] # None => Earned(sub[s])'
    BY InTypes DEF Earned
  <1>2. BillTypeOK'
    BY InTypes DEF BillInv, BillTypeOK, Step, CacheType, Hazards
  <1>. QED
    BY <1>1, <1>2, Writes

LEMMA InsertPaymentBills == ASSUME NEW r, BillStep(r), InsertPayment(r) PROVE BillInv'
  <1>. /\ r \in Req /\ BillInv /\ UNCHANGED tx
       /\ UNCHANGED <<now, sub, cache, hazard, prov, mail, claimed, grants, overpaid>>
    BY DEF BillStep, InsertPayment
  <1>1. /\ req[r] \in BillRequest /\ req[r].at = "insert" /\ RowFits(req[r]) /\ req[r].s \in Row
        /\ req[r].copy \in Payment /\ req[r].copy.status = "pending" /\ ~req[r].copy.url
    BY InBill DEF InsertPayment, At, PayFits, RowFits
  <1>2. CASE Done(r) /\ UNCHANGED <<pay, inv>>
    <2>1. \A x \in Pay : ~Settles(req[r], x)
      BY <1>1 DEF Settles
    <2>. QED
      BY <1>1, <1>2, <2>1, IdleFitsBill, PayAsks DEF Done, billVars
  <1>3. ASSUME NEW p \in {x \in Pay : pay[x] = None},
               pay' = [pay EXCEPT ![p] = req[r].copy],
               inv' = [inv EXCEPT ![p] = "open"],
               Step(r, [req[r] EXCEPT !.at = "session", !.p = p, !.copy = None])
        PROVE  BillInv'
    <2>0. PICK q : q = [req[r] EXCEPT !.at = "session", !.p = p, !.copy = None]
      OBVIOUS
    <2>1. /\ q \in BillRequest /\ q.at = "session" /\ q.was = req[r].was /\ q.doc = req[r].doc
          /\ q.p = p /\ q.s = req[r].s
      BY <1>1, <2>0 DEF BillRequest
    <2>2. Step(r, q)
      BY <1>3, <2>0
    <2>3. /\ pay' \in [Pay -> Payment \cup {None}] /\ inv' \in [Pay -> Invoice]
          /\ pay'[p] = req[r].copy /\ pay'[p] # None /\ pay[p] = None /\ prov[p] = "none"
      BY <1>1, <1>3, InTypes, ZenonT(60) DEF Invoice, BillInv, Sound
    <2>4. Only(p)
      BY <1>3, InTypes DEF Only
    <2>5. ~Holds(p, "success") /\ ~Holds(p, "success")'
      BY <1>1, <2>3 DEF Holds
    <2>6. Succeeded(p)' <=> Succeeded(p)
      BY <2>5 DEF Succeeded, Refunded
    <2>7. Sound(p)'
      BY <1>1, <2>3, <2>5, <2>6 DEF BillInv, Sound, Reported, Refunded
    <2>8. RowFits(q)'
      BY <1>1, <2>1 DEF RowFits, Earned
    <2>9. PayFits(q)'
      BY <2>1, <2>3 DEF PayFits, Paying
    <2>10. ASSUME NEW t \in Req \ {r}, At(t, "session")
           PROVE  req[t].p # p
      BY <2>3, <2>10, InBill DEF PayFits, At
    <2>11. ~Settles(req[r], p)
      BY <1>1 DEF Settles
    <2>. QED
      BY <1>1, <2>1, <2>2, <2>3, <2>4, <2>5, <2>6, <2>7, <2>8, <2>9, <2>10, <2>11, InTypes, PayOnly
  <1>. QED
    BY <1>2, <1>3 DEF InsertPayment

LEMMA OpenSessionBills == ASSUME NEW r, BillStep(r), OpenSession(r) PROVE BillInv'
  <1>. /\ r \in Req /\ BillInv /\ UNCHANGED tx
       /\ UNCHANGED <<now, sub, cache, hazard, inv, mail, claimed, grants, overpaid>>
    BY DEF BillStep, OpenSession
  <1>0. PICK p, q : p = req[r].p /\ q = [req[r] EXCEPT !.op = "mark", !.at = "load", !.p = None]
    OBVIOUS
  <1>1. /\ req[r] \in BillRequest /\ req[r].at = "session" /\ RowFits(req[r]) /\ req[r].s \in Row
        /\ p \in Pay /\ pay[p] # None /\ prov[p] = "none"
    BY <1>0, InBill DEF OpenSession, At, PayFits, RowFits
  <1>2. /\ Step(r, q) /\ prov' = [prov EXCEPT ![p] = "open"] /\ pay' = [pay EXCEPT ![p].url = TRUE]
    BY <1>0 DEF OpenSession
  <1>3. /\ q \in BillRequest /\ q.at = "load" /\ q.was = req[r].was /\ q.doc = req[r].doc
        /\ q.op = "mark" /\ q.s = req[r].s
    BY <1>0, <1>1 DEF BillRequest, Label
  <1>4. /\ pay[p] \in Payment /\ pay'[p] = [pay[p] EXCEPT !.url = TRUE] /\ prov'[p] = "open"
        /\ pay'[p] # None /\ pay' \in [Pay -> Payment \cup {None}]
    <2>1. pay[p] \in Payment
      BY <1>1, InTypes
    <2>2. [pay[p] EXCEPT !.url = TRUE] \in Payment
      BY <2>1 DEF Payment
    <2>. QED
      BY <1>1, <1>2, <2>1, <2>2, InTypes
  <1>5. /\ prov' \in [Pay -> {"none", "open", "paid", "cancelled"}]
        /\ Only(p)
    BY <1>1, <1>2, InTypes DEF Only
  <1>6. Sound(p)
    BY <1>1 DEF BillInv
  <1>7. ~Holds(p, "success") /\ ~Holds(p, "success")'
    BY <1>1, <1>4, <1>6 DEF Sound, Holds, Payment
  <1>8. Succeeded(p)' <=> Succeeded(p)
    BY <1>7 DEF Succeeded, Refunded
  <1>9. Sound(p)'
    BY <1>1, <1>4, <1>6, <1>7, <1>8 DEF Sound, Reported, Refunded
  <1>10. RowFits(q)' /\ PayFits(q)'
    BY <1>1, <1>3 DEF RowFits, PayFits, Paying, Earned
  <1>11. ASSUME NEW t \in Req \ {r}, At(t, "session")
         PROVE  req[t].p # p
    BY <1>0, <1>1, <1>11 DEF BillInv, At
  <1>12. ~Settles(req[r], p)
    BY <1>1 DEF Settles
  <1>13. /\ inv' \in [Pay -> Invoice] /\ mail \subseteq mail' /\ mail' \subseteq Event
         /\ overpaid' \subseteq Pay
    BY InTypes
  <1>14. /\ req[r].at = "insert" \/ req[r].p = p
         /\ q.at # "session"
         /\ prov[p] = "none" /\ prov'[p] # "none"
    BY <1>0, <1>1, <1>3, <1>4
  <1>15. /\ Holds(p, "success")' =>
               \/ ServedNow(p)' \/ Serves(q, p)'
               \/ Holds(p, "success") /\ ~ServedNow(p) /\ ~Serves(req[r], p) /\ inv'[p] = inv[p]
         /\ Settles(req[r], p) => Settles(q, p) \/ SettledNow(p)'
         /\ \A t \in Req \ {r} : At(t, "session") => req[t].p # p \/ (prov'[p] = prov[p] /\ q.at # "session")
         /\ Succeeded(p) => Succeeded(p)'
    BY <1>7, <1>8, <1>11, <1>12
  <1>16. /\ prov[p] \in {"paid", "cancelled"} => prov'[p] = prov[p]
         /\ prov[p] # "none" => prov'[p] # "none"
         /\ pay[p] # None => pay'[p] # None
         /\ q.at = "session" => q.p = p
    BY <1>4, <1>14
  <1>17. q \in BillRequest /\ Step(r, q) /\ p \in Pay
    BY <1>1, <1>2, <1>3
  <1>. QED
    BY <1>4, <1>5, <1>9, <1>10, <1>13, <1>14, <1>15, <1>16, <1>17, PayOnly

LEMMA ChargeBills == ASSUME NEW r, BillStep(r), Charge(r) PROVE BillInv'
  <1>. /\ r \in Req /\ BillInv /\ UNCHANGED tx
       /\ UNCHANGED <<now, sub, cache, hazard, pay, inv, prov, claimed, grants, overpaid>>
    BY DEF BillStep, Charge
  <1>0. PICK p, q : p = req[r].p /\ q = [req[r] EXCEPT !.at = "settle", !.out = "refunded"]
    OBVIOUS
  <1>1. /\ req[r] \in BillRequest /\ req[r].at = "charge" /\ RowFits(req[r]) /\ p \in Pay
        /\ req[r].copy \in Payment /\ (req[r].copy.status = "success" => Succeeded(p))
        /\ pay[p] # None /\ prov[p] # "none"
    BY <1>0, InBill DEF Charge, At, PayFits, Paying
  <1>2. \A x \in Pay : ~Settles(req[r], x)
    BY <1>1 DEF Settles
  <1>3. CASE req[r].copy.status # "success"
    <2>1. Step(r, Idle) /\ UNCHANGED mail
      BY <1>3 DEF Charge, Done
    <2>. QED
      BY <1>1, <1>2, <2>1, IdleFitsBill, PayAsks DEF billVars
  <1>4. CASE req[r].copy.status = "success"
    <2>1. Step(r, q) /\ mail' = mail \cup {<<p, "refunded">>}
      BY <1>0, <1>4 DEF Charge
    <2>2. /\ q \in BillRequest /\ q.at = "settle" /\ q.was = req[r].was /\ q.doc = req[r].doc
          /\ q.p = p /\ q.out = "refunded" /\ q.copy = req[r].copy
      BY <1>0, <1>1 DEF BillRequest, Outcome
    <2>3. Refunded(p)' /\ Succeeded(p)' /\ mail' \subseteq Event /\ mail \subseteq mail'
      BY <1>1, <2>1, InTypes DEF Refunded, Succeeded, Event, Outcome
    <2>4. Only(p)
      BY <2>1 DEF Only
    <2>5. Holds(p, "success")' <=> Holds(p, "success")
      BY DEF Holds
    <2>6. \A out : Reported(p, out) => Reported(p, out)'
      BY <2>3 DEF Reported
    <2>7. Reported(p, "refunded")'
      BY <2>3 DEF Reported
    <2>8. Sound(p)'
      <3>1. Sound(p)
        BY <1>1 DEF BillInv
      <3>2. \A out \in Outcome \cup {"succeeded"} : <<p, out>> \in mail' => prov'[p] # "none" /\ Reported(p, out)'
        BY <1>1, <2>1, <2>6, <2>7, <3>1 DEF Sound
      <3>. QED
        BY <2>3, <2>5, <3>1, <3>2 DEF Sound
    <2>9. RowFits(q)'
      BY <1>1, <2>2 DEF RowFits, Earned
    <2>10. PayFits(q)'
      BY <1>1, <2>2, <2>3, <2>7 DEF PayFits, Paying, Outcome
    <2>11. ASSUME NEW t \in Req \ {r}, At(t, "session")
           PROVE  req[t].p # p
      BY <1>1, <2>11, InBill DEF PayFits, At
    <2>12. Holds(p, "success")' => ServedNow(p)'
      BY <2>3 DEF ServedNow
    <2>. QED
      BY <1>0, <1>1, <1>2, <2>1, <2>2, <2>3, <2>4, <2>8, <2>9, <2>10, <2>11, <2>12, InTypes, PayOnly
  <1>. QED
    BY <1>3, <1>4

LEMMA SaveSuccessBills == ASSUME NEW r, BillStep(r), SaveSuccess(r) PROVE BillInv'
  <1>. /\ r \in Req /\ BillInv /\ UNCHANGED tx
       /\ UNCHANGED <<now, inv, prov, mail, claimed, grants, overpaid>>
    BY DEF BillStep, SaveSuccess
  <1>0. PICK p, q : p = req[r].p /\ q = [req[r] EXCEPT !.at = "invoice"]
    OBVIOUS
  <1>1. /\ req[r] \in BillRequest /\ req[r].at = "success" /\ req[r].out = "paid" /\ RowFits(req[r])
        /\ PayFits(req[r]) /\ Reported(p, "paid")
    BY <1>0, InBill DEF SaveSuccess, At, PayFits
  <1>2. p \in Pay /\ pay[p] \in Payment /\ pay[p] # None /\ prov[p] = "paid" /\ Sound(p) /\ ~tx
    BY <1>0, <1>1, InPay DEF Paying, Reported, PayFits
  <1>3. CASE ~Payable(p)
    <2>1. BreakOff(r) /\ UNCHANGED pay
      BY <1>0, <1>3 DEF SaveSuccess
    <2>. QED
      BY <2>1, BreakOffBills DEF billVars
  <1>4. CASE Payable(p)
    <2>1. /\ Step(r, q) /\ UNCHANGED <<sub, cache, hazard>>
          /\ pay' = [pay EXCEPT ![p].status = "success"]
      BY <1>0, <1>4 DEF SaveSuccess, Goto
    <2>2. /\ q \in BillRequest /\ q.at = "invoice" /\ q.was = req[r].was /\ q.doc = req[r].doc
          /\ q.p = p
      BY <1>0, <1>1 DEF BillRequest
    <2>3. /\ pay'[p] = [pay[p] EXCEPT !.status = "success"] /\ pay'[p] \in Payment
          /\ pay' \in [Pay -> Payment \cup {None}]
      <3>1. [pay[p] EXCEPT !.status = "success"] \in Payment
        BY <1>2 DEF Payment, PayStatus
      <3>. QED
        BY <1>2, <2>1, <3>1, InTypes
    <2>4. Only(p)
      BY <2>1, InTypes DEF Only
    <2>5. pay'[p] # None /\ Holds(p, "success")' /\ Succeeded(p)'
      BY <1>2, <2>3 DEF Holds, Payment, Succeeded
    <2>6. Sound(p)'
      BY <1>2, <2>5 DEF Sound, Reported, Refunded
    <2>7. RowFits(q)' /\ PayFits(q)'
      BY <1>1, <1>2, <2>2, <2>5 DEF RowFits, PayFits, Earned, Paying
    <2>8. ASSUME NEW t \in Req \ {r}, At(t, "session")
          PROVE  req[t].p # p
      BY <1>2, <2>8, InBill DEF PayFits, At
    <2>9. Serves(q, p)' /\ SettledNow(p)'
      BY <2>2, <2>5 DEF Serves, SettledNow
    <2>10. /\ inv' \in [Pay -> Invoice] /\ mail \subseteq mail' /\ mail' \subseteq Event
           /\ overpaid' \subseteq Pay /\ prov' \in [Pay -> {"none", "open", "paid", "cancelled"}]
      BY InTypes
    <2>. QED
      BY <1>0, <1>2, <2>1, <2>2, <2>3, <2>4, <2>5, <2>6, <2>7, <2>8, <2>9, <2>10, PayOnly
  <1>. QED
    BY <1>3, <1>4

LEMMA PayInvoiceBills == ASSUME NEW r, BillStep(r), PayInvoice(r) PROVE BillInv'
  <1>. /\ r \in Req /\ BillInv /\ UNCHANGED tx
       /\ UNCHANGED <<now, sub, cache, hazard, pay, prov, mail, claimed, grants, overpaid>>
    BY DEF BillStep, PayInvoice
  <1>0. PICK p : p = req[r].p
    OBVIOUS
  <1>1. /\ req[r] \in BillRequest /\ req[r].at = "invoice" /\ RowFits(req[r]) /\ PayFits(req[r])
    BY <1>0, InBill DEF PayInvoice, At
  <1>2. /\ p \in Pay /\ pay[p] \in Payment /\ pay[p] # None /\ prov[p] # "none" /\ Sound(p) /\ ~tx
        /\ pay[p].sub \in Row
    BY <1>0, <1>1, InPay DEF Paying, PayFits, Payment
  <1>3. PICK q : q = [req[r] EXCEPT !.op = "granted", !.at = "load", !.s = pay[p].sub]
    OBVIOUS
  <1>4. /\ q \in BillRequest /\ q.at = "load" /\ q.was = req[r].was /\ q.doc = req[r].doc
        /\ q.p = p /\ q.op = "granted" /\ q.s = pay[p].sub
    <2>1. PICK c \in BillRequest, s \in Row : c = req[r] /\ s = pay[p].sub
      BY <1>1, <1>2
    <2>2. q = [c EXCEPT !.op = "granted", !.at = "load", !.s = s]
      BY <1>3, <2>1
    <2>3. /\ q \in BillRequest /\ q.at = "load" /\ q.was = c.was /\ q.doc = c.doc
          /\ q.p = c.p /\ q.op = "granted" /\ q.s = s
      BY <2>2 DEF BillRequest, Label
    <2>. QED
      BY <1>0, <2>1, <2>3
  <1>5. Step(r, q) /\ inv' = [inv EXCEPT ![p] = "paid"]
    BY <1>0, <1>3 DEF PayInvoice
  <1>6. Only(p) /\ inv' \in [Pay -> Invoice] /\ inv'[p] = "paid"
    BY <1>2, <1>5, InTypes DEF Only, Invoice
  <1>7. Holds(p, "success")' <=> Holds(p, "success")
    BY DEF Holds
  <1>8. (Succeeded(p)' <=> Succeeded(p)) /\ Sound(p)'
    BY <1>2, <1>7 DEF Succeeded, Sound, Refunded, Reported
  <1>9. RowFits(q)' /\ PayFits(q)'
    BY <1>1, <1>2, <1>4 DEF RowFits, PayFits, Earned, Paying
  <1>10. ASSUME NEW t \in Req \ {r}, At(t, "session")
         PROVE  req[t].p # p
    BY <1>2, <1>10, InBill DEF PayFits, At
  <1>11. Serves(q, p)' /\ ~Settles(req[r], p)
    BY <1>1, <1>4, <1>6 DEF Serves, Settles
  <1>12. /\ mail \subseteq mail' /\ mail' \subseteq Event /\ overpaid' \subseteq Pay
         /\ prov' \in [Pay -> {"none", "open", "paid", "cancelled"}]
         /\ pay' \in [Pay -> Payment \cup {None}]
    BY InTypes
  <1>. QED
    BY <1>0, <1>2, <1>4, <1>5, <1>6, <1>8, <1>9, <1>10, <1>11, <1>12, PayOnly

LEMMA CloseInvoiceBills == ASSUME NEW r, BillStep(r), CloseInvoice(r) PROVE BillInv'
  <1>. /\ r \in Req /\ BillInv /\ UNCHANGED tx
       /\ UNCHANGED <<now, sub, cache, hazard, pay, prov, mail, claimed, grants, overpaid>>
    BY DEF BillStep, CloseInvoice
  <1>0. PICK p, q : p = req[r].p /\ q = Idle
    OBVIOUS
  <1>1. /\ req[r] \in BillRequest /\ req[r].at = "void" /\ PayFits(req[r])
        /\ req[r].out \in {"cancelled", "refunded"} /\ Reported(p, req[r].out)
    BY <1>0, InBill DEF CloseInvoice, At, PayFits
  <1>2. /\ p \in Pay /\ pay[p] \in Payment /\ pay[p] # None /\ prov[p] # "none" /\ Sound(p)
    BY <1>0, <1>1, InPay DEF Paying, PayFits
  <1>3. /\ Step(r, q)
        /\ inv' = [inv EXCEPT ![p] = IF req[r].out = "refunded" THEN "refunded" ELSE "void"]
    BY <1>0 DEF CloseInvoice, Done
  <1>4. Only(p) /\ inv' \in [Pay -> Invoice]
    BY <1>2, <1>3, InTypes DEF Only, Invoice
  <1>5. Holds(p, "success")' <=> Holds(p, "success")
    BY DEF Holds
  <1>6. (Succeeded(p)' <=> Succeeded(p)) /\ Sound(p)'
    BY <1>2, <1>5 DEF Succeeded, Sound, Refunded, Reported
  <1>7. RowFits(Idle)' /\ PayFits(Idle)' /\ Idle \in BillRequest /\ Idle.at = "idle"
    <2>1. Grows
      BY DEF Grows, Succeeded, Refunded, Holds
    <2>. QED
      BY <2>1, IdleFitsBill, FitsOn
  <1>8. ASSUME NEW t \in Req \ {r}, At(t, "session")
        PROVE  req[t].p # p
    BY <1>2, <1>8, InBill DEF PayFits, At
  <1>9. Holds(p, "success")' => ServedNow(p)'
    BY <1>1, <1>2, <1>5 DEF Sound, Reported, Refunded, ServedNow
  <1>10. ~Settles(req[r], p)
    BY <1>1 DEF Settles
  <1>11. /\ mail \subseteq mail' /\ mail' \subseteq Event /\ overpaid' \subseteq Pay
         /\ prov' \in [Pay -> {"none", "open", "paid", "cancelled"}]
         /\ pay' \in [Pay -> Payment \cup {None}]
    BY InTypes
  <1>12. RowFits(q)' /\ PayFits(q)' /\ q \in BillRequest /\ q.at # "session"
    BY <1>0, <1>7 DEF RowFits, PayFits
  <1>. QED
    BY <1>0, <1>2, <1>3, <1>4, <1>6, <1>8, <1>9, <1>10, <1>11, <1>12, PayOnly

LEMMA ConcludeBills == ASSUME NEW r, BillStep(r), Conclude(r) PROVE BillInv'
  <1>. /\ r \in Req /\ BillInv /\ UNCHANGED tx
       /\ UNCHANGED <<now, sub, cache, hazard, inv, prov, mail, claimed, grants>>
    BY DEF BillStep, Conclude
  <1>0. PICK p, out, copy : p = req[r].p /\ out = req[r].out /\ copy = req[r].copy
    OBVIOUS
  <1>1. /\ req[r] \in BillRequest /\ req[r].at = "settle" /\ PayFits(req[r]) /\ RowFits(req[r])
        /\ out \in {"failed", "cancelled", "refunded"} /\ Reported(p, out) /\ copy \in Payment
    BY <1>0, InBill DEF Conclude, At, PayFits
  <1>2. /\ p \in Pay /\ pay[p] \in Payment /\ pay[p] # None /\ prov[p] # "none" /\ Sound(p)
    BY <1>0, <1>1, InPay DEF Paying, PayFits
  <1>3. \A x \in Pay : ~Settles(req[r], x)
    BY <1>0, <1>1 DEF Settles
  <1>4. CASE Spared(copy, out)
    <2>1. Step(r, Idle) /\ UNCHANGED <<pay, overpaid>>
      BY <1>0, <1>4 DEF Conclude, Done
    <2>. QED
      BY <1>1, <1>3, <2>1, IdleFitsBill, PayAsks DEF billVars
  <1>5. CASE ~Spared(copy, out)
    <2>1. /\ pay' = [pay EXCEPT ![p].status = IF copy.status = out THEN @ ELSE out]
          /\ overpaid' = overpaid \cup
               {q \in {p} : Holds(p, "success") /\ out # "refunded" /\ copy.status \notin {"success", out}}
          /\ IF out = "failed"
             THEN IF copy.kind = "renewal"
                  THEN Step(r, [req[r] EXCEPT !.op = "suspend", !.at = "load", !.s = copy.sub])
                  ELSE Done(r)
             ELSE Goto(r, "void")
      BY <1>0, <1>5 DEF Conclude
    <2>2. PICK status \in PayStatus : /\ status = IF copy.status = out THEN pay[p].status ELSE out
                                      /\ pay' = [pay EXCEPT ![p].status = status]
      BY <1>1, <1>2, <2>1 DEF Payment, PayStatus
    <2>3. /\ pay'[p] = [pay[p] EXCEPT !.status = status] /\ pay'[p] \in Payment /\ pay'[p] # None
          /\ pay' \in [Pay -> Payment \cup {None}]
      <3>1. [pay[p] EXCEPT !.status = status] \in Payment
        BY <1>2 DEF Payment
      <3>. QED
        BY <1>2, <2>2, <3>1, InTypes
    <2>4. pay'[p].status = status /\ pay'[p].url = pay[p].url
      BY <1>2, <2>3 DEF Payment
    <2>5. overpaid \subseteq overpaid' /\ overpaid' \subseteq Pay /\ Only(p)
      BY <1>2, <2>1, <2>2, InTypes DEF Only
    <2>6. Holds(p, "success")' => Holds(p, "success")
      BY <1>1, <1>2, <2>2, <2>3, <2>4 DEF Holds
    <2>7. Holds(p, "success") => Holds(p, "success")' \/ Refunded(p) \/ p \in overpaid'
      <3>1. CASE copy.status = out
        BY <1>2, <2>2, <2>3, <2>4, <3>1 DEF Holds
      <3>2. CASE copy.status # out /\ out = "refunded"
        BY <1>1, <3>2 DEF Reported
      <3>3. CASE copy.status # out /\ out # "refunded"
        BY <1>5, <2>1, <3>3 DEF Spared
      <3>. QED
        BY <3>1, <3>2, <3>3
    <2>8. Refunded(p)' <=> Refunded(p)
      BY DEF Refunded
    <2>9. Succeeded(p) => Succeeded(p)'
      BY <2>5, <2>7, <2>8 DEF Succeeded
    <2>10. Sound(p)'
      BY <1>2, <2>3, <2>4, <2>5, <2>6, <2>8, <2>9 DEF Sound, Reported
    <2>11. \A x \in Pay : Succeeded(x) => Succeeded(x)'
      BY <1>2, <2>5, <2>9, Elsewhere
    <2>12. Grows
      BY <2>3, <2>5, <2>11, InTypes DEF Grows, Only
    <2>13. ASSUME NEW q, q \in BillRequest, Step(r, q), RowFits(q), PayFits(q), q.at # "session"
           PROVE  BillInv'
      <3>1. RowFits(q)' /\ PayFits(q)'
        BY <2>12, <2>13, FitsOn
      <3>2. ASSUME Holds(p, "success")'
            PROVE  \/ ServedNow(p)' \/ Serves(q, p)'
                   \/ Holds(p, "success") /\ ~ServedNow(p) /\ ~Serves(req[r], p) /\ inv'[p] = inv[p]
        BY <1>1, <2>6, <2>8, <3>2 DEF ServedNow, Serves
      <3>3. /\ mail \subseteq mail' /\ mail' \subseteq Event /\ inv' \in [Pay -> Invoice]
            /\ prov' \in [Pay -> {"none", "open", "paid", "cancelled"}]
        BY InTypes
      <3>4. ASSUME NEW t \in Req \ {r}, At(t, "session")
            PROVE  req[t].p # p \/ (prov'[p] = prov[p] /\ q.at # "session")
        BY <2>13
      <3>. QED
        BY <1>0, <1>2, <1>3, <2>3, <2>5, <2>9, <2>10, <2>13, <3>1, <3>2, <3>3, <3>4, PayOnly
    <2>14. CASE Done(r)
      BY <2>13, <2>14, IdleFitsBill DEF Done
    <2>15. CASE out = "failed" /\ Step(r, [req[r] EXCEPT !.op = "suspend", !.at = "load", !.s = copy.sub])
      <3>1. PICK c \in BillRequest, s \in Row : c = req[r] /\ s = copy.sub
        BY <1>1 DEF Payment
      <3>2. PICK q : q = [c EXCEPT !.op = "suspend", !.at = "load", !.s = s]
        OBVIOUS
      <3>3. /\ q \in BillRequest /\ q.at = "load" /\ q.was = c.was /\ q.doc = c.doc
            /\ q.op = "suspend" /\ q.s = s
        BY <3>2, ZenonT(60) DEF BillRequest, Label, OpName, ByAdmin, ById
      <3>4. RowFits(q) /\ PayFits(q)
        BY <1>1, <3>1, <3>3, RowLabels DEF RowFits, ById, Label
      <3>. QED
        BY <2>13, <2>15, <3>1, <3>2, <3>3, <3>4
    <2>16. CASE out # "failed" /\ Goto(r, "void")
      <3>1. PICK q : q = [req[r] EXCEPT !.at = "void"]
        OBVIOUS
      <3>2. /\ q \in BillRequest /\ q.at = "void" /\ q.was = req[r].was /\ q.doc = req[r].doc
            /\ q.p = p /\ q.out = out
        BY <1>0, <1>1, <3>1 DEF BillRequest
      <3>3. RowFits(q)
        BY <1>1, <3>2, KeepsRows DEF Paying
      <3>4. PayFits(q)
        BY <1>1, <1>2, <2>16, <3>2 DEF PayFits, Paying, Outcome
      <3>. QED
        BY <2>13, <2>16, <3>1, <3>2, <3>3, <3>4 DEF Goto
    <2>. QED
      BY <2>1, <2>14, <2>15, <2>16
  <1>. QED
    BY <1>4, <1>5

LEMMA CommitBills == ASSUME NEW r, BillStep(r), Commit(r) PROVE BillInv'
  <1>. r \in Req /\ BillInv /\ UNCHANGED <<tx, now>> /\ tx
    BY DEF BillStep, Commit
  <1>0. PICK p, s : p = req[r].p /\ s = pay[p].sub
    OBVIOUS
  <1>1. /\ req[r] \in BillRequest /\ req[r].at = "commit" /\ Reported(p, "paid")
    BY <1>0, InBill DEF Commit, At, PayFits
  <1>2. /\ p \in Pay /\ pay[p] \in Payment /\ pay[p] # None /\ prov[p] = "paid" /\ Sound(p)
        /\ s \in Row /\ (pay[p].status = "success" <=> Holds(p, "success"))
    BY <1>0, <1>1, InPay DEF Paying, Reported, Payment, Holds
  <1>3. \/ /\ Handled(p) /\ Answered(r) /\ UNCHANGED <<cache, billVars>>
        \/ BreakOff(r) /\ UNCHANGED billVars
        \/ /\ ~Handled(p) /\ sub[s] # None
           /\ pay' = [pay EXCEPT ![p].status = "success"]
           /\ inv' = [inv EXCEPT ![p] = "paid"]
           /\ \/ \E row \in Activated(sub[s], p) : /\ sub' = [sub EXCEPT ![s] = row]
                                                   /\ grants' = [grants EXCEPT ![p] = @ + 1]
              \/ Activated(sub[s], p) = {} /\ UNCHANGED <<sub, grants>>
           /\ cache' \in {None, Late(cache)}
           /\ Done(r)
           /\ UNCHANGED <<hazard, prov, mail, claimed, overpaid>>
    BY <1>0 DEF Commit
  <1>4. CASE Handled(p) /\ Answered(r) /\ UNCHANGED <<cache, billVars>>
    <2>1. Step(r, Idle) /\ UNCHANGED <<sub, hazard>>
      BY <1>4 DEF Answered, Done
    <2>2. \A x \in Pay : Settles(req[r], x) => SettledNow(x)
      BY <1>0, <1>2, <1>4 DEF Settles, SettledNow, Succeeded, Handled
    <2>. QED
      BY <1>1, <1>4, <2>1, <2>2, IdleFitsBill, PayAsks
  <1>5. CASE BreakOff(r) /\ UNCHANGED billVars
    BY <1>5, BreakOffBills
  <1>6. CASE /\ ~Handled(p) /\ sub[s] # None
             /\ pay' = [pay EXCEPT ![p].status = "success"]
             /\ inv' = [inv EXCEPT ![p] = "paid"]
             /\ \/ \E row \in Activated(sub[s], p) : /\ sub' = [sub EXCEPT ![s] = row]
                                                     /\ grants' = [grants EXCEPT ![p] = @ + 1]
                \/ Activated(sub[s], p) = {} /\ UNCHANGED <<sub, grants>>
             /\ cache' \in {None, Late(cache)}
             /\ Done(r)
             /\ UNCHANGED <<hazard, prov, mail, claimed, overpaid>>
    <2>1. /\ pay'[p] = [pay[p] EXCEPT !.status = "success"] /\ pay'[p] \in Payment
          /\ pay' \in [Pay -> Payment \cup {None}] /\ inv' \in [Pay -> Invoice] /\ inv'[p] = "paid"
      <3>1. [pay[p] EXCEPT !.status = "success"] \in Payment
        BY <1>2 DEF Payment, PayStatus
      <3>. QED
        BY <1>2, <1>6, <3>1, InTypes DEF Invoice
    <2>2. pay'[p] # None /\ Holds(p, "success")' /\ Succeeded(p)'
      BY <1>2, <2>1 DEF Holds, Payment, Succeeded
    <2>3. sub[s] \in Sub /\ Earned(sub[s])
      BY <1>2, <1>6, InRow
    <2>4. /\ sub' \in [Row -> Sub \cup {None}] /\ grants' \in [Pay -> Nat]
          /\ grants'[p] > 0 /\ grants'[p] <= grants[p] + 1
          /\ \A x \in Pay \ {p} : grants'[x] = grants[x]
          /\ \A t \in Row : \/ sub'[t] = sub[t]
                            \/ sub'[t] \in Sub /\ sub'[t].ref = p
      <3>0. /\ sub \in [Row -> Sub \cup {None}] /\ grants \in [Pay -> Nat] /\ grants[p] \in Nat
             /\ now \in Nat /\ p \in Ref
        BY <1>2, InTypes
      <3>1. CASE \E row \in Activated(sub[s], p) : /\ sub' = [sub EXCEPT ![s] = row]
                                                  /\ grants' = [grants EXCEPT ![p] = @ + 1]
        <4>1. PICK row \in Activated(sub[s], p) : /\ sub' = [sub EXCEPT ![s] = row]
                                                 /\ grants' = [grants EXCEPT ![p] = @ + 1]
          BY <3>1
        <4>2. row \in Sub /\ row.ref = p
          BY <1>2, <2>3, <3>0, <4>1, ActivatedType
        <4>. QED
          BY <1>2, <3>0, <4>1, <4>2
      <3>2. CASE Activated(sub[s], p) = {} /\ UNCHANGED <<sub, grants>>
        <4>1. sub[s].ref = p
          BY <1>2, <2>3, <3>0, <3>2, ActivatedType
        <4>2. grants[p] > 0
          BY <1>2, <2>3, <4>1 DEF Earned
        <4>. QED
          BY <3>0, <3>2, <4>2
      <3>. QED
        BY <1>6, <3>1, <3>2
    <2>5. Only(p)
      BY <1>6, <2>4, InTypes DEF Only
    <2>6. Sound(p)'
      <3>1. tx' /\ grants'[p] > 1 => Refunded(p)' \/ p \in overpaid'
        <4>1. grants'[p] > 1 => grants[p] > 0
          BY <1>2, <2>4, InTypes
        <4>2. ~Holds(p, "success")
          BY <1>2, <1>6 DEF Handled
        <4>. QED
          BY <1>2, <1>6, <4>1, <4>2 DEF Sound, Succeeded, Refunded
      <3>2. \A out : Reported(p, out) => Reported(p, out)'
        BY <1>6 DEF Reported, Refunded
      <3>. QED
        BY <1>2, <1>6, <2>2, <3>1, <3>2 DEF Sound
    <2>7. \A t \in Row : sub'[t] # None => Earned(sub[t])'
      <3>1. ASSUME NEW t \in Row, sub'[t] # None
            PROVE  Earned(sub[t])'
        <4>1. CASE sub'[t] = sub[t]
          <5>1. Earned(sub[t])
            BY <3>1, <4>1, InRow
          <5>. QED
            BY <2>4, <4>1, <5>1 DEF Earned
        <4>2. CASE sub'[t].ref = p
          BY <2>4, <4>2 DEF Earned
        <4>. QED
          BY <2>4, <4>1, <4>2
      <3>. QED
        BY <3>1
    <2>8. cache' \in CacheType /\ Step(r, Idle)
      BY <1>6, BillLate DEF BillInv, Done
    <2>9. BillTypeOK'
      BY <1>6, <2>1, <2>4, <2>8, InTypes, IdleFitsBill DEF BillInv, BillTypeOK, Step, CacheType, Hazards
    <2>10. PICK q : q = Idle
      OBVIOUS
    <2>11. RowFits(q)' /\ PayFits(q)' /\ q \in BillRequest /\ q.at = "idle" /\ Step(r, q)
      <3>1. Grows
        <4>1. \A x \in Pay \ {p} : Succeeded(x) => Succeeded(x)'
          BY <1>2, <1>6, <2>5, Elsewhere
        <4>. QED
          BY <1>6, <2>2, <2>4, <2>5, <4>1 DEF Grows, Only
      <3>2. q \in BillRequest /\ q.at = "idle" /\ RowFits(q) /\ PayFits(q)
        BY <2>10, IdleFitsBill
      <3>. QED
        BY <2>8, <2>10, <3>1, <3>2, FitsOn
    <2>12. ServedNow(p)' /\ SettledNow(p)'
      BY <2>1, <2>2, <2>4 DEF ServedNow, SettledNow
    <2>. QED
      BY <1>0, <1>1, <1>2, <1>6, <2>2, <2>4, <2>5, <2>6, <2>7, <2>9, <2>11, <2>12, Writes, ZenonT(60)
  <1>. QED
    BY <1>3, <1>4, <1>5, <1>6

LEMMA GrantAccessBills == ASSUME NEW r, BillStep(r), GrantAccess(r) PROVE BillInv'
  <1>. r \in Req /\ BillInv /\ UNCHANGED tx /\ UNCHANGED <<now, pay, inv, prov, mail, claimed, overpaid>>
    BY DEF BillStep, GrantAccess
  <1>0. PICK p, d : p = req[r].p /\ d = req[r].doc
    OBVIOUS
  <1>1. /\ req[r] \in BillRequest /\ req[r].at = "act" /\ req[r].op = "granted" /\ d \in Sub
        /\ Earned(d) /\ req[r].was = d /\ req[r].s \in Row /\ p \in Pay /\ ~tx
    BY <1>0, InBill DEF GrantAccess, At, PayFits, RowFits, BillRequest
  <1>2. /\ pay \in [Pay -> Payment \cup {None}] /\ now \in Nat /\ sub \in [Row -> Sub \cup {None}]
        /\ grants \in [Pay -> Nat] /\ hazard \subseteq Hazards /\ cache \in CacheType
        /\ claimed \subseteq Event
    BY InTypes
  <1>3. \A x \in Pay : ~Settles(req[r], x)
    BY <1>1 DEF Settles
  <1>4. \A x \in Pay : Serves(req[r], x) => x = p /\ inv[p] = "paid"
    BY <1>0, <1>1 DEF Serves
  <1>5. CASE Activated(d, p) = {} /\ Answered(r) /\ UNCHANGED <<cache, grants>>
    <2>1. grants[p] > 0
      <3>1. d.ref = p
        BY <1>1, <1>2, <1>5, ActivatedType
      <3>. QED
        BY <1>1, <3>1 DEF Earned
    <2>2. \A x \in Pay : Serves(req[r], x) => ServedNow(x)
      BY <1>4, <2>1 DEF ServedNow
    <2>3. Step(r, Idle) /\ UNCHANGED <<sub, hazard>>
      BY <1>5 DEF Answered, Done
    <2>4. \A t \in Row : sub'[t] # None => Earned(sub'[t])
      BY <2>3, InRow
    <2>5. Idle.at # "session"
      BY IdleFitsBill
    <2>. QED
      BY <1>2, <1>3, <1>5, <2>2, <2>3, <2>4, <2>5, IdleFitsBill, Calm
  <1>6. ASSUME NEW doc \in Activated(d, p), Storable(r, doc), Store(r, doc, "announce"),
               grants' = [grants EXCEPT ![p] = IF sub' = sub THEN @ ELSE @ + 1], UNCHANGED cache
        PROVE  BillInv'
    <2>1. doc \in Sub /\ doc.ref = p
      BY <1>1, <1>2, <1>6, ActivatedType
    <2>2. PICK s, q : s = req[r].s /\ q = [req[r] EXCEPT !.at = "announce", !.doc = None, !.was = None]
      OBVIOUS
    <2>3. /\ sub[s] \in Sub /\ Earned(sub[s]) /\ Step(r, q)
          /\ \E row \in Sub :
                /\ sub' = [sub EXCEPT ![s] = row]
                /\ row.ref = IF p # d.ref THEN p ELSE sub[s].ref
          /\ hazard \subseteq hazard' /\ hazard' \subseteq hazard \cup {"overwrote"}
      <3>1. req[r].was \in Sub /\ req[r].s \in Row /\ "announce" \in Label
        BY <1>1 DEF Label
      <3>2. \/ UNCHANGED <<sub, hazard>> /\ Step(r, Idle) /\ ~Storable(r, doc)
            \/ LET w == req[r].s
                   held == IF "announce" = "announce" THEN None ELSE doc
               IN /\ sub[w] \in Sub /\ Earned(sub[w])
                  /\ Step(r, [req[r] EXCEPT !.at = "announce", !.doc = held, !.was = held])
                  /\ \E row \in Sub :
                        /\ sub' = [sub EXCEPT ![w] = row]
                        /\ row.ref = IF doc.ref # req[r].was.ref THEN doc.ref ELSE sub[w].ref
                  /\ hazard \subseteq hazard' /\ hazard' \subseteq hazard \cup {"overwrote"}
        BY <1>6, <2>1, <3>1, StoreWrites
      <3>. QED
        BY <1>1, <1>6, <2>1, <2>2, <3>2
    <2>4. PICK row \in Sub : /\ sub' = [sub EXCEPT ![s] = row]
                             /\ row.ref = IF p # d.ref THEN p ELSE sub[s].ref
      BY <2>3
    <2>5. /\ q \in BillRequest /\ q.at = "announce" /\ q.doc = None /\ q.was = None
      BY <1>1, <2>2 DEF BillRequest, Label
    <2>6. /\ grants' \in [Pay -> Nat] /\ \A x \in Pay \ {p} : grants'[x] = grants[x]
          /\ grants[p] > 0 => grants'[p] > 0
          /\ sub' # sub => grants'[p] > 0
      <3>1. grants[p] \in Nat
        BY <1>1, <1>2
      <3>2. CASE sub' = sub
        BY <1>1, <1>2, <1>6, <3>1, <3>2
      <3>3. CASE sub' # sub
        BY <1>1, <1>2, <1>6, <3>1, <3>3
      <3>. QED
        BY <3>2, <3>3
    <2>7. grants'[p] > 0
      <3>1. CASE sub' = sub
        <4>1. row = sub[s] /\ s \in Row
          BY <1>1, <1>2, <2>2, <2>4, <3>1
        <4>2. CASE p = d.ref
          BY <1>1, <2>6, <4>2 DEF Earned
        <4>3. CASE p # d.ref
          BY <1>1, <2>3, <2>4, <2>6, <4>1, <4>3 DEF Earned
        <4>. QED
          BY <4>2, <4>3
      <3>2. CASE sub' # sub
        BY <2>6, <3>2
      <3>. QED
        BY <3>1, <3>2
    <2>8. ASSUME NEW d0 \in Sub, Earned(d0)
          PROVE  Earned(d0)'
      BY <2>6, <2>7, <2>8 DEF Earned
    <2>9. Earned(row)'
      BY <1>1, <2>3, <2>4, <2>6, <2>7 DEF Earned
    <2>10. \A t \in Row : sub'[t] # None => Earned(sub[t])'
      <3>1. ASSUME NEW t \in Row, sub'[t] # None
            PROVE  Earned(sub[t])'
        <4>1. CASE t = s
          <5>1. sub'[t] = row
            BY <1>2, <2>4, <4>1
          <5>. QED
            BY <2>9, <5>1 DEF Earned
        <4>2. CASE t # s
          <5>1. sub'[t] = sub[t] /\ sub[t] \in Sub /\ Earned(sub[t])
            BY <1>2, <2>4, <3>1, <4>2, InRow
          <5>2. Earned(sub[t])'
            <6>1. PICK d0 \in Sub : d0 = sub[t]
              BY <5>1
            <6>2. Earned(d0)'
              BY <2>8, <5>1, <6>1
            <6>. QED
              BY <5>1, <6>1, <6>2 DEF Earned
          <5>. QED
            BY <5>2
        <4>. QED
          BY <4>1, <4>2
      <3>. QED
        BY <3>1
    <2>11. sub' \in [Row -> Sub \cup {None}] /\ hazard' \subseteq Hazards
      BY <1>1, <1>2, <2>2, <2>3, <2>4 DEF Hazards
    <2>12. BillTypeOK'
      BY <1>6, <2>3, <2>5, <2>6, <2>11, InTypes DEF BillInv, BillTypeOK, Step, CacheType, Hazards
    <2>13. Only(p)
      BY <2>6 DEF Only
    <2>14. RowFits(q)' /\ PayFits(q)'
      <3>1. RowFits(q)'
        BY <2>5 DEF RowFits
      <3>2. PayFits(q)'
        BY <2>5 DEF PayFits, Paying
      <3>. QED
        BY <3>1, <3>2
    <2>15. /\ Holds(p, "success")' <=> Holds(p, "success")
           /\ Refunded(p)' <=> Refunded(p)
      BY DEF Holds, Refunded
    <2>16. Sound(p)' /\ (Succeeded(p) => Succeeded(p)')
      <3>1. Sound(p)
        BY <1>1 DEF BillInv
      <3>2. \A out : Reported(p, out) => Reported(p, out)'
        BY <2>15 DEF Reported
      <3>. QED
        BY <1>1, <2>15, <3>1, <3>2 DEF Sound, Succeeded
    <2>17. Holds(p, "success")' =>
             \/ ServedNow(p)'
             \/ Holds(p, "success") /\ ~ServedNow(p) /\ ~Serves(req[r], p) /\ inv'[p] = inv[p]
      <3>1. Serves(req[r], p) => ServedNow(p)'
        BY <1>1, <1>4, <2>7 DEF ServedNow
      <3>2. ServedNow(p) => ServedNow(p)'
        BY <2>3, <2>7, <2>15 DEF ServedNow
      <3>. QED
        BY <2>15, <3>1, <3>2
    <2>18. /\ claimed' = claimed /\ mail \subseteq mail' /\ prov' = prov /\ pay' = pay
           /\ q.at # "session"
      BY <2>5
    <2>. QED
      BY <1>0, <1>1, <1>3, <2>3, <2>5, <2>7, <2>10, <2>12, <2>13, <2>14, <2>16, <2>17, <2>18, Writes
  <1>7. CASE BreakOff(r) /\ UNCHANGED grants
    BY <1>7, BreakOffBills DEF billVars
  <1>8. \/ Activated(d, p) = {} /\ Answered(r) /\ UNCHANGED <<cache, grants>>
        \/ \E doc \in Activated(d, p) :
              IF Storable(r, doc)
              THEN /\ Store(r, doc, "announce")
                   /\ grants' = [grants EXCEPT ![p] = IF sub' = sub THEN @ ELSE @ + 1]
                   /\ UNCHANGED cache
              ELSE BreakOff(r) /\ UNCHANGED grants
    BY <1>0 DEF GrantAccess
  <1>. QED
    BY <1>5, <1>6, <1>7, <1>8

-----------------------------------------------------------------------------
(* The provider, and every step.                                           *)

\* What the provider does moves an open session on and sends its events.
LEMMA ProviderBills ==
    ASSUME BillInv, UNCHANGED tx, NEW p \in Pay, Provider(p)
    PROVE  BillInv'
  <1>. UNCHANGED <<subVars, pay, inv, claimed, grants, overpaid>> /\ prov[p] = "open"
    BY DEF Provider, Capture, Decline, ExpireSession
  <1>1. Sound(p) /\ mail \subseteq Event /\ prov \in [Pay -> {"none", "open", "paid", "cancelled"}]
    BY InTypes DEF BillInv
  <1>2. PICK status \in {"open", "paid", "cancelled"}, news \in SUBSET Tidings :
          /\ prov' = [prov EXCEPT ![p] = status]
          /\ mail' = mail \cup ({p} \X news)
          /\ "refunded" \notin news
          /\ status = "paid" <=> "paid" \in news
          /\ status # "paid" => "succeeded" \notin news
          /\ "cancelled" \in news => status = "cancelled"
    <2>1. CASE Capture(p)
      <3>1. {<<p, "paid">>, <<p, "succeeded">>} = {p} \X {"paid", "succeeded"}
        OBVIOUS
      <3>2. {"paid", "succeeded"} \in SUBSET Tidings
        BY DEF Tidings, Outcome
      <3>. QED
        BY <2>1, <3>1, <3>2 DEF Capture
    <2>2. CASE Decline(p)
      <3>1. {<<p, "failed">>} = {p} \X {"failed"} /\ prov' = [prov EXCEPT ![p] = "open"]
        BY <1>1, <2>2 DEF Decline
      <3>2. {"failed"} \in SUBSET Tidings
        BY DEF Tidings, Outcome
      <3>. QED
        BY <2>2, <3>1, <3>2 DEF Decline
    <2>3. CASE ExpireSession(p)
      <3>1. {<<p, "cancelled">>} = {p} \X {"cancelled"}
        OBVIOUS
      <3>2. {"cancelled"} \in SUBSET Tidings
        BY DEF Tidings, Outcome
      <3>. QED
        BY <2>3, <3>1, <3>2 DEF ExpireSession
    <2>. QED
      BY <2>1, <2>2, <2>3 DEF Provider
  <1>3. prov'[p] = status /\ \A x \in Pay \ {p} : prov'[x] = prov[x]
    BY <1>1, <1>2
  <1>4. \A x \in Pay : \A out : <<x, out>> \in mail' <=> <<x, out>> \in mail \/ (x = p /\ out \in news)
    BY <1>2
  <1>5. \A x \in Pay : /\ Holds(x, "success")' <=> Holds(x, "success")
                       /\ Refunded(x)' <=> Refunded(x)
    BY <1>2, <1>4 DEF Holds, Refunded
  <1>6. \A x \in Pay : Succeeded(x)' <=> Succeeded(x)
    BY <1>5 DEF Succeeded
  <1>7. Only(p)
    BY <1>3, <1>4 DEF Only
  <1>8. Grows
    BY <1>2, <1>3, <1>6 DEF Grows, subVars
  <1>9. Sound(p)'
    <2>1. \A out : <<p, out>> \notin mail \/ out \notin {"paid", "succeeded", "cancelled"}
      BY <1>1 DEF Sound, Reported, Outcome
    <2>2. ASSUME NEW out \in Outcome \cup {"succeeded"}, <<p, out>> \in mail'
          PROVE  prov'[p] # "none" /\ Reported(p, out)'
      <3>1. CASE <<p, out>> \in mail
        BY <1>1, <1>3, <1>5, <2>1, <3>1 DEF Sound, Reported
      <3>2. CASE out \in news
        BY <1>2, <1>3, <3>2 DEF Reported
      <3>. QED
        BY <1>4, <2>2, <3>1, <3>2
    <2>3. ~Holds(p, "success") /\ ~Holds(p, "success")'
      BY <1>1, <1>5 DEF Sound
    <2>4. pay'[p] # None
      BY <1>1 DEF Sound
    <2>5. prov'[p] # "none" /\ (prov'[p] = "paid" => <<p, "paid">> \in mail')
      BY <1>2, <1>3, <1>4
    <2>6. /\ tx' /\ grants'[p] > 0 => Succeeded(p)'
          /\ tx' /\ grants'[p] > 1 => Refunded(p)' \/ p \in overpaid'
      BY <1>1, <1>5, <1>6 DEF Sound
    <2>. QED
      BY <2>2, <2>3, <2>4, <2>5, <2>6 DEF Sound
  <1>10. \A x \in Pay : Sound(x)'
    <2>1. hazard \subseteq hazard'
      BY DEF subVars
    <2>. QED
      BY <1>7, <1>9, <2>1, Elsewhere
  <1>11. ASSUME NEW t \in Req
         PROVE  RowFits(req[t])' /\ PayFits(req[t])'
    <2>1. PICK c : c = req[t]
      OBVIOUS
    <2>2. c \in BillRequest /\ RowFits(c) /\ PayFits(c)
      BY <2>1, InBill
    <2>3. c.at = "session" => prov'[c.p] = prov[c.p]
      BY <1>3, <2>2 DEF PayFits
    <2>4. RowFits(c)' /\ PayFits(c)'
      BY <1>8, <2>2, <2>3, FitsOn
    <2>5. req'[t] = c
      BY <2>1 DEF subVars
    <2>. QED
      BY <2>4, <2>5 DEF RowFits, PayFits
  <1>12. ASSUME NEW x \in Pay
         PROVE  Served(x)' /\ Claimed(x)'
    <2>1. Served(x) /\ Claimed(x)
      BY DEF BillInv
    <2>2. ServedNow(x)' <=> ServedNow(x)
      BY <1>5 DEF ServedNow, subVars
    <2>3. SettledNow(x)' <=> SettledNow(x)
      BY <1>6 DEF SettledNow, subVars
    <2>4. \A t \in Req : Serves(req[t], x) => Serves(req[t], x)'
      BY DEF Serves, subVars
    <2>5. \A t \in Req : Settles(req[t], x) => Settles(req[t], x)'
      BY DEF Settles, subVars
    <2>6. Served(x)'
      BY <1>5, <2>1, <2>2, <2>4 DEF Served
    <2>7. Claimed(x)'
      BY <2>1, <2>3, <2>5 DEF Claimed
    <2>. QED
      BY <2>6, <2>7
  <1>13. BillTypeOK'
    <2>1. mail' \subseteq Event /\ prov' \in [Pay -> {"none", "open", "paid", "cancelled"}]
      BY <1>1, <1>2 DEF Event, Tidings
    <2>. QED
      BY <2>1 DEF BillInv, BillTypeOK, subVars
  <1>14. \A s \in Rows' : Earned(sub[s])'
    BY DEF BillInv, Rows, Earned, subVars
  <1>15. \A r, t \in Req : At(r, "session")' /\ At(t, "session")' /\ req'[r].p = req'[t].p => r = t
    BY DEF BillInv, At, subVars
  <1>. QED
    BY <1>10, <1>11, <1>12, <1>13, <1>14, <1>15 DEF BillInv

LEMMA InitBillInv == BillInit => BillInv
  <1>. SUFFICES ASSUME BillInit PROVE BillInv
    OBVIOUS
  <1>1. BillTypeOK
    BY IdleFitsBill DEF BillInit, Init, BillTypeOK, Invoice
  <1>2. \A p \in Pay : Sound(p) /\ Served(p) /\ Claimed(p)
    BY DEF BillInit, Sound, Served, Claimed, Holds, Reported
  <1>3. \A r \in Req : RowFits(req[r]) /\ PayFits(req[r]) /\ ~At(r, "session")
    BY IdleFitsBill DEF BillInit, Init, At
  <1>4. Rows = {}
    BY DEF BillInit, Init, Rows
  <1>. QED
    BY <1>1, <1>2, <1>3, <1>4 DEF BillInv

LEMMA BillNextKeeps == BillInv /\ [BillNext]_vars => BillInv'
  <1>. SUFFICES ASSUME BillInv, [BillNext]_vars PROVE BillInv'
    OBVIOUS
  <1>1. CASE UNCHANGED vars
    <2>1. now' \in Nat /\ cache' \in CacheType
      BY <1>1, InTypes DEF vars, subVars
    <2>. QED
      BY <1>1, <2>1, IdleBills DEF vars, subVars
  <1>2. ASSUME UNCHANGED tx, NEW r \in Req, Bill(r)
        PROVE  BillInv'
    <2>1. BillStep(r)
      BY <1>2 DEF BillStep
    <2>2. CASE \E asked \in Kind, given \in Header \cup {None} : Checkout(r, asked, given)
      BY <2>1, <2>2, CheckoutBills
    <2>3. CASE BeginPay(r) \/ InsertPayment(r) \/ OpenSession(r) \/ MarkPending(r)
      BY <2>1, <2>3, BeginPayBills, InsertPaymentBills, OpenSessionBills, MarkPendingBills
    <2>4. CASE Claim(r) \/ ReadPayment(r) \/ Ask(r) \/ Charge(r) \/ SettlePaid(r) \/ Commit(r)
      BY <2>1, <2>4, ClaimBills, ReadPaymentBills, AskBills, ChargeBills, SettlePaidBills, CommitBills
    <2>5. CASE Reread(r) \/ SaveSuccess(r) \/ PayInvoice(r) \/ GrantAccess(r)
      BY <2>1, <2>5, RereadBills, SaveSuccessBills, PayInvoiceBills, GrantAccessBills
    <2>6. CASE Conclude(r) \/ CloseInvoice(r)
      BY <2>1, <2>6, ConcludeBills, CloseInvoiceBills
    <2>. QED
      BY <1>2, <2>2, <2>3, <2>4, <2>5, <2>6 DEF Bill
  <1>. QED
    BY <1>1, <1>2, SubNextBills, ProviderBills DEF BillNext

LEMMA BillInvariance == BillSpec => []BillInv
  <1>. QED
    BY InitBillInv, BillNextKeeps, PTL DEF BillSpec

-----------------------------------------------------------------------------
(* The properties.                                                         *)

\* Every variable keeps its type, whoever pays, verifies, refunds or is notified when.
THEOREM BillTypeCorrect == BillSpec => []BillTypeOK
  <1>1. BillInv => BillTypeOK
    BY DEF BillInv
  <1>. QED
    BY <1>1, BillInvariance, PTL

\* settlePaid buys at most one period with a payment, where there are transactions:
\* unless it was refunded, or a failure read before it was paid was saved after.
THEOREM PaymentBuysOnceHolds == BillSpec => []PaymentBuysOnce
  <1>1. BillInv => PaymentBuysOnce
    BY DEF BillInv, Sound, PaymentBuysOnce
  <1>. QED
    BY <1>1, BillInvariance, PTL

\* Once no request is at work on a payment that says success, settlePaid has activated a
\* subscription for it and paid its invoice, in one transaction or in steps; unless it was
\* refunded or a request for it broke off.
THEOREM SuccessIsServedHolds == BillSpec => []SuccessIsServed
  <1>1. BillInv => SuccessIsServed
    BY DEF BillInv, SuccessIsServed, Served, ServedNow, Serves, Working
  <1>. QED
    BY <1>1, BillInvariance, PTL

\* Money the provider has captured is not forgotten once handleWebhook has taken its
\* events, however claimWebhook drops repetitions.
THEOREM CapturedIsSettledHolds == BillSpec => []CapturedIsSettled
  <1>1. ASSUME BillInv
        PROVE  CapturedIsSettled
    <2>. SUFFICES ASSUME NEW p \in Pay, prov[p] = "paid", ~Working(p),
                         {e \in mail : e[1] = p} \subseteq claimed
                  PROVE  Holds(p, "success") \/ Refunded(p) \/ p \in overpaid \cup hazard
      BY DEF CapturedIsSettled
    <2>1. Sound(p) /\ Claimed(p)
      BY <1>1 DEF BillInv
    <2>2. <<p, "paid">> \in claimed
      BY <2>1 DEF Sound
    <2>3. ~\E r \in Req : Settles(req[r], p)
      BY DEF Working, Settles
    <2>. QED
      BY <2>1, <2>2, <2>3 DEF Claimed, SettledNow, Succeeded
  <1>. QED
    BY <1>1, BillInvariance, PTL

\* Only settleFailed and settleCancelled of a copy that was read before the payment was
\* paid, and applyProviderRefund, take a success away; the first are noted.
THEOREM PaidStaysPaidHolds == BillSpec => PaidStaysPaid
  <1>1. ASSUME BillInv, [BillNext]_vars, NEW p \in Pay, Holds(p, "success")
        PROVE  Holds(p, "success")' \/ Holds(p, "refunded")' \/ p \in overpaid'
    <2>1. CASE pay'[p] = pay[p]
      BY <1>1, <2>1 DEF Holds
    <2>2. pay[p] \in Payment /\ pay[p] # None /\ pay \in [Pay -> Payment \cup {None}]
      BY <1>1, InTypes DEF Holds
    <2>3. ASSUME NEW r \in Req, Bill(r), pay'[p] # pay[p]
          PROVE  Holds(p, "success")' \/ Holds(p, "refunded")' \/ p \in overpaid'
      <3>1. \/ InsertPayment(r) \/ OpenSession(r) \/ Commit(r) \/ SaveSuccess(r) \/ Conclude(r)
        BY <2>3, Zenon DEF Bill, billVars, BeginPay, MarkPending, Claim, ReadPayment, Ask, Charge, SettlePaid,
               Reread, PayInvoice, GrantAccess, CloseInvoice, Checkout
      <3>2. CASE InsertPayment(r)
        BY <2>2, <2>3, <3>2 DEF InsertPayment
      <3>3. CASE OpenSession(r)
        <4>1. pay' = [pay EXCEPT ![req[r].p].url = TRUE]
          BY <3>3 DEF OpenSession
        <4>2. pay'[p] = [pay[p] EXCEPT !.url = TRUE]
          BY <2>2, <2>3, <4>1
        <4>. QED
          BY <1>1, <2>2, <4>2, ZenonT(60) DEF Holds, Payment
      <3>4. CASE Commit(r) \/ SaveSuccess(r)
        <4>1. pay' = [pay EXCEPT ![req[r].p].status = "success"]
          BY <2>3, <3>4 DEF Commit, SaveSuccess, billVars
        <4>2. pay'[p] = [pay[p] EXCEPT !.status = "success"]
          BY <2>2, <2>3, <4>1
        <4>. QED
          BY <1>1, <2>2, <4>2 DEF Holds, Payment
      <3>5. CASE Conclude(r)
        <4>1. PICK out, copy : out = req[r].out /\ copy = req[r].copy
          OBVIOUS
        <4>2. /\ pay' = [pay EXCEPT ![req[r].p].status = IF copy.status = out THEN @ ELSE out]
              /\ overpaid' = overpaid \cup
                   {q \in {req[r].p} : Holds(req[r].p, "success") /\ out # "refunded"
                                       /\ copy.status \notin {"success", out}}
              /\ ~Spared(copy, out)
          BY <2>3, <3>5, <4>1 DEF Conclude
        <4>3. req[r].p = p
          BY <2>3, <4>2, <2>2
        <4>4. pay'[p] = [pay[p] EXCEPT !.status = IF copy.status = out THEN @ ELSE out]
          BY <2>2, <4>2, <4>3
        <4>5. copy.status # out
          BY <2>2, <2>3, <4>4 DEF Payment
        <4>6. pay'[p] = [pay[p] EXCEPT !.status = out] /\ pay'[p] # None /\ pay'[p].status = out
          <5>1. out \in PayStatus
            BY <1>1, <3>5, <4>1 DEF Conclude, PayStatus
          <5>2. pay'[p] = [pay[p] EXCEPT !.status = out]
            BY <4>4, <4>5
          <5>3. [pay[p] EXCEPT !.status = out] \in Payment
            BY <2>2, <5>1 DEF Payment
          <5>. QED
            BY <2>2, <5>1, <5>2, <5>3 DEF Payment
        <4>7. CASE out = "refunded"
          BY <4>6, <4>7 DEF Holds
        <4>8. CASE out # "refunded"
          BY <1>1, <4>2, <4>3, <4>5, <4>8 DEF Spared
        <4>. QED
          BY <4>7, <4>8
      <3>. QED
        BY <3>1, <3>2, <3>3, <3>4, <3>5
    <2>4. pay'[p] # pay[p] => \E r \in Req : Bill(r)
      BY <1>1 DEF BillNext, Provider, Capture, Decline, ExpireSession, vars, billVars
    <2>. QED
      BY <2>1, <2>3, <2>4
  <1>2. BillInv /\ [BillNext]_vars =>
          \A p \in Pay : Holds(p, "success") => Holds(p, "success")' \/ Holds(p, "refunded")'
                                                \/ p \in overpaid'
    BY <1>1
  <1>. QED
    BY <1>2, BillInvariance, PTL DEF BillSpec, PaidStaysPaid
=============================================================================
