------------------------------ MODULE Billing ------------------------------
(***************************************************************************)
(* Payments for the subscriptions of one user, apps/api/src/billing:       *)
(* checkouts, verification by the user, webhooks of the payment provider   *)
(* and refunds, beside the requests of Subscriptions.                      *)
(*                                                                         *)
(* The provider is external: a session is open until it is paid or         *)
(* expires, each of these sends an event, and events arrive in any order,  *)
(* again and again.  Amounts and currencies agree, and a refund gives      *)
(* everything back.  A payment is loaded and saved field by field as rows  *)
(* are.                                                                    *)
(***************************************************************************)
EXTENDS Subscriptions

CONSTANTS Pay,          \* ids of payments (bound)
          PayOp,        \* the kinds of billing request the instance allows
          Header        \* Idempotency-Key headers clients send

Kind == {"checkout", "renewal"}
Outcome == {"paid", "failed", "cancelled", "refunded"}
\* Two events report one success: checkout.session.completed, payment_intent.succeeded.
Event == Pay \X (Outcome \cup {"succeeded"})

VARIABLES tx,       \* the database supports transactions; a deployment's, it stays
          pay,      \* pay[p]: the payment, None if there is none
          inv,      \* inv[p]: the status of its invoice
          prov,     \* prov[p]: its checkout session at the provider
          mail,     \* the events the provider has sent
          claimed,  \* the webhook events recorded
          grants,   \* grants[p]: how often it activated a subscription (history)
          overpaid  \* the payments whose success a failure was saved over (history)

billVars == <<pay, inv, prov, mail, claimed, grants, overpaid>>
vars == <<subVars, billVars, tx>>

PayStatus == {"pending", "success", "failed", "cancelled", "refunded"}
Invoice == {"none", "open", "paid", "void", "refunded"}

\* sub and start: the row and the billing period it pays; url: the session's address
\* is saved; key: the idempotency key.
Payment == [status : PayStatus, sub : Row, kind : Kind, start : Nat, url : BOOLEAN,
            key : Header \cup (Kind \X Row \X Nat)]

\* An activation names the payment, one that waits its session.
ASSUME BillingAssumption ==
    /\ PayOp \subseteq {"checkout", "verify", "webhook", "refund"}
    /\ Pay \cup {"session"} \subseteq Ref
    /\ {"none", "admin", "session"} \cap Pay = {}
    /\ None \notin Pay \cup Payment

Holds(p, status) == pay[p] # None /\ pay[p].status = status

BillInit ==
    /\ Init
    /\ tx \in BOOLEAN
    /\ pay = [p \in Pay |-> None]
    /\ inv = [p \in Pay |-> "none"]
    /\ prov = [p \in Pay |-> "none"]
    /\ mail = {}
    /\ claimed = {}
    /\ grants = [p \in Pay |-> 0]
    /\ overpaid = {}

BeginPay(r) ==
    /\ At(r, "idle")
    /\ \E o \in PayOp :
          LET new == [Idle EXCEPT !.op = o, !.day = now]
          IN \/ /\ o = "checkout"
                /\ \/ Step(r, [new EXCEPT !.at = "find"])
                   \/ \E s \in Rows : Step(r, [new EXCEPT !.at = "load", !.s = s])
             \/ /\ o = "webhook"
                /\ \E e \in mail : Step(r, [new EXCEPT !.at = "claim", !.p = e[1], !.out = e[2]])
             \/ /\ o \in {"verify", "refund"}
                /\ \E p \in Pay : /\ pay[p] # None /\ pay[p].url
                                  /\ Step(r, [new EXCEPT !.at = "read", !.p = p])
    /\ UNCHANGED <<now, sub, cache, hazard, billVars>>

-----------------------------------------------------------------------------
(* createCheckout.                                                         *)

\* The unique index on the successful payments of a period.
Settled(p, s, kind, start) ==
    Holds(p, "success") /\ pay[p].sub = s /\ pay[p].kind = kind /\ pay[p].start = start

\* asked and given: the kind and the Idempotency-Key of the request; without one the
\* key is made of the kind, the row and the day.
Checkout(r, asked, given) ==
    /\ At(r, "act")
    /\ req[r].op = "checkout"
    /\ LET d == req[r].doc
           s == req[r].s
           kind == IF asked = "renewal" \/ d.status \in {"suspended", "expired"}
                   THEN "renewal" ELSE "checkout"
           start == IF kind = "renewal" THEN now ELSE d.start
           key == IF given # None THEN given ELSE <<kind, s, start>>
           same == {p \in Pay : pay[p] # None /\ pay[p].key = key}
           refused == \/ kind = "checkout" /\ d.status # "pending"
                      \/ kind = "renewal" /\ d.status \notin {"suspended", "expired", "active"}
                      \/ kind = "checkout" /\ \E p \in Pay : Settled(p, s, kind, start)
                      \/ \E p \in same : Holds(p, "success")
           returned == \E p \in same : Holds(p, "pending") /\ pay[p].url
       IN IF refused \/ returned THEN Done(r)
          ELSE Step(r, [Idle EXCEPT !.op = "checkout", !.at = "insert", !.s = s, !.day = req[r].day,
                                    !.copy = [status |-> "pending", sub |-> s, kind |-> kind,
                                              start |-> start, url |-> FALSE, key |-> key]])
    /\ UNCHANGED <<now, sub, cache, hazard, billVars>>

\* The payment and its invoice; a key that is taken fails the request.
InsertPayment(r) ==
    /\ At(r, "insert")
    /\ IF \E p \in Pay : pay[p] # None /\ pay[p].key = req[r].copy.key
       THEN Done(r) /\ UNCHANGED <<pay, inv>>
       ELSE \E p \in {q \in Pay : pay[q] = None} :
              /\ pay' = [pay EXCEPT ![p] = req[r].copy]
              /\ inv' = [inv EXCEPT ![p] = "open"]
              /\ Step(r, [req[r] EXCEPT !.at = "session", !.p = p, !.copy = None])
    /\ UNCHANGED <<now, sub, cache, hazard, prov, mail, claimed, grants, overpaid>>

\* The provider's session, whose address is saved and will be answered.
OpenSession(r) ==
    /\ At(r, "session")
    /\ LET p == req[r].p
       IN /\ prov' = [prov EXCEPT ![p] = "open"]
          /\ pay' = [pay EXCEPT ![p].url = TRUE]
    /\ Step(r, [req[r] EXCEPT !.op = "mark", !.at = "load", !.p = None])
    /\ UNCHANGED <<now, sub, cache, hazard, inv, mail, claimed, grants, overpaid>>

\* markPaymentPending, whatever became of the row or the payment meanwhile.
MarkPending(r) ==
    /\ At(r, "act")
    /\ req[r].op = "mark"
    /\ Store(r, [req[r].doc EXCEPT !.status = "pending", !.ref = "session"], "announce")
    /\ UNCHANGED <<now, cache, billVars>>

-----------------------------------------------------------------------------
(* What tells the billing of a payment: verifyCheckout, handleWebhook,     *)
(* refund.                                                                 *)

\* Mutant: the payment is recorded, not the event.
Claim_PerPayment(r) ==
    /\ At(r, "claim")
    /\ LET p == req[r].p
       IN /\ claimed' = claimed \cup {e \in Event : e[1] = p}
          /\ IF <<p, req[r].out>> \in claimed THEN Done(r)
             ELSE Step(r, [req[r] EXCEPT !.at = "read", !.out = IF @ = "succeeded" THEN "paid" ELSE @])
    /\ UNCHANGED <<now, sub, cache, hazard, pay, inv, prov, mail, grants, overpaid>>

\* claimWebhook: an event that is recorded already is a duplicate.
Claim(r) ==
    /\ At(r, "claim")
    /\ LET e == <<req[r].p, req[r].out>>
       IN /\ claimed' = claimed \cup {e}
          /\ IF e \in claimed THEN Done(r)
             ELSE Step(r, [req[r] EXCEPT !.at = "read", !.out = IF @ = "succeeded" THEN "paid" ELSE @])
    /\ UNCHANGED <<now, sub, cache, hazard, pay, inv, prov, mail, grants, overpaid>>

\* The payment is loaded; then the provider is asked, or has spoken.
ReadPayment(r) ==
    /\ At(r, "read")
    /\ LET p == req[r].p
           next == CASE req[r].op = "verify" -> "ask" [] req[r].op = "refund" -> "charge"
                     [] OTHER -> "settle"
       IN Step(r, [req[r] EXCEPT !.at = next, !.copy = pay[p]])
    /\ UNCHANGED <<now, sub, cache, hazard, billVars>>

\* retrieveCheckout
Ask(r) ==
    /\ At(r, "ask")
    /\ LET p == req[r].p
       IN IF prov[p] \in {"paid", "cancelled"}
          THEN Step(r, [req[r] EXCEPT !.at = "settle", !.out = prov[p]])
          ELSE Done(r)
    /\ UNCHANGED <<now, sub, cache, hazard, billVars>>

\* refund: only what was captured and not given back.
Charge(r) ==
    /\ At(r, "charge")
    /\ LET p == req[r].p
       IN IF req[r].copy.status = "success"
          THEN /\ Step(r, [req[r] EXCEPT !.at = "settle", !.out = "refunded"])
               /\ mail' = mail \cup {<<p, "refunded">>}
          ELSE Done(r) /\ UNCHANGED mail
    /\ UNCHANGED <<now, sub, cache, hazard, pay, inv, prov, claimed, grants, overpaid>>

-----------------------------------------------------------------------------
(* Settlement.                                                             *)

\* Mutant: the payment is not read again.
Handled_No(p) == FALSE

\* The payment as read again in the transaction needs nothing.
Handled(p) == pay[p].status = "success"

\* settlePaid, before the transaction: nothing to do when the copy says success.
SettlePaid(r) ==
    /\ At(r, "settle")
    /\ req[r].out = "paid"
    /\ IF req[r].copy.status = "success" THEN Done(r) ELSE Goto(r, "commit")
    /\ UNCHANGED <<now, sub, cache, hazard, billVars>>

\* The payment may be saved as a success.
Payable(p) ==
    pay[p].kind = "checkout" =>
        \A q \in Pay \ {p} : ~Settled(q, pay[p].sub, pay[p].kind, pay[p].start)

\* The transaction: the payment, the invoice and activateFromPayment.  The cached
\* entitlement is dropped before it commits, so a reader may bring the old one back.
Commit(r) ==
    /\ At(r, "commit")
    /\ tx
    /\ LET p == req[r].p
           s == pay[p].sub
           to == IF sub[s] = None THEN {} ELSE Activated(sub[s], p)
       IN IF Handled(p) THEN Answered(r) /\ UNCHANGED <<cache, billVars>>
          ELSE IF sub[s] # None /\ Payable(p) /\ IndexAllows(s, [sub[s] EXCEPT !.cur = TRUE])
          THEN /\ pay' = [pay EXCEPT ![p].status = "success"]
               /\ inv' = [inv EXCEPT ![p] = "paid"]
               /\ \/ \E row \in to : /\ sub' = [sub EXCEPT ![s] = row]
                                     /\ grants' = [grants EXCEPT ![p] = @ + 1]
                  \/ to = {} /\ UNCHANGED <<sub, grants>>
               /\ cache' \in {None, Late(cache)}
               /\ Done(r)
               /\ UNCHANGED <<hazard, prov, mail, claimed, overpaid>>
          ELSE BreakOff(r) /\ UNCHANGED billVars
    /\ UNCHANGED now

\* Without transactions the same is done in steps, each of them for good.
Reread(r) ==
    /\ At(r, "commit")
    /\ ~tx
    /\ LET p == req[r].p
       IN IF Handled(p) THEN Done(r)
          ELSE Step(r, [req[r] EXCEPT !.at = "success", !.copy = pay[p]])
    /\ UNCHANGED <<now, sub, cache, hazard, billVars>>

SaveSuccess(r) ==
    /\ At(r, "success")
    /\ LET p == req[r].p
       IN IF Payable(p)
          THEN /\ pay' = [pay EXCEPT ![p].status = "success"]
               /\ Goto(r, "invoice")
               /\ UNCHANGED <<sub, cache, hazard>>
          ELSE BreakOff(r) /\ UNCHANGED pay
    /\ UNCHANGED <<now, inv, prov, mail, claimed, grants, overpaid>>

\* Mutant: nothing is activated.
PayInvoice_Ends(r) ==
    /\ At(r, "invoice")
    /\ inv' = [inv EXCEPT ![req[r].p] = "paid"]
    /\ Done(r)
    /\ UNCHANGED <<now, sub, cache, hazard, pay, prov, mail, claimed, grants, overpaid>>

PayInvoice(r) ==
    /\ At(r, "invoice")
    /\ LET p == req[r].p
       IN /\ inv' = [inv EXCEPT ![p] = "paid"]
          /\ Step(r, [req[r] EXCEPT !.op = "granted", !.at = "load", !.s = pay[p].sub])
    /\ UNCHANGED <<now, sub, cache, hazard, pay, prov, mail, claimed, grants, overpaid>>

GrantAccess(r) ==
    /\ At(r, "act")
    /\ req[r].op = "granted"
    /\ LET p == req[r].p
           to == Activated(req[r].doc, p)
       IN \/ to = {} /\ Answered(r) /\ UNCHANGED <<cache, grants>>
          \/ \E doc \in to :
                IF Storable(r, doc)
                THEN /\ Store(r, doc, "announce")
                     /\ grants' = [grants EXCEPT ![p] = IF sub' = sub THEN @ ELSE @ + 1]
                     /\ UNCHANGED cache
                ELSE BreakOff(r) /\ UNCHANGED grants
    /\ UNCHANGED <<now, pay, inv, prov, mail, claimed, overpaid>>

\* Mutant: what the payment says does not matter.
Spared_Never(copy, out) == FALSE

\* A failure of a payment that was a success is not looked at.
Spared(copy, out) == copy.status = "success" /\ out # "refunded"

\* settleFailed, settleCancelled and applyProviderRefund save the copy read before,
\* whatever the payment says by now.
Conclude(r) ==
    /\ At(r, "settle")
    /\ req[r].out \in {"failed", "cancelled", "refunded"}
    /\ LET p == req[r].p
           out == req[r].out
           copy == req[r].copy
       IN IF Spared(copy, out)
          THEN Done(r) /\ UNCHANGED <<pay, overpaid>>
          ELSE /\ pay' = [pay EXCEPT ![p].status = IF copy.status = out THEN @ ELSE out]
               /\ overpaid' = overpaid \cup
                    {q \in {p} : Holds(p, "success") /\ out # "refunded" /\ copy.status \notin {"success", out}}
               /\ IF out = "failed"
                  THEN IF copy.kind = "renewal"
                       THEN Step(r, [req[r] EXCEPT !.op = "suspend", !.at = "load", !.s = copy.sub])
                       ELSE Done(r)
                  ELSE Goto(r, "void")
    /\ UNCHANGED <<now, sub, cache, hazard, inv, prov, mail, claimed, grants>>

\* Mutant: the invoice is given the word of the payment.
CloseInvoice_SameWord(r) ==
    /\ At(r, "void")
    /\ inv' = [inv EXCEPT ![req[r].p] = req[r].out]
    /\ Done(r)
    /\ UNCHANGED <<now, sub, cache, hazard, pay, prov, mail, claimed, grants, overpaid>>

CloseInvoice(r) ==
    /\ At(r, "void")
    /\ inv' = [inv EXCEPT ![req[r].p] = IF req[r].out = "refunded" THEN "refunded" ELSE "void"]
    /\ Done(r)
    /\ UNCHANGED <<now, sub, cache, hazard, pay, prov, mail, claimed, grants, overpaid>>

-----------------------------------------------------------------------------
(* The provider.                                                           *)

\* The user pays; a card may be declined before.
Capture(p) ==
    /\ prov[p] = "open" /\ pay[p].url
    /\ prov' = [prov EXCEPT ![p] = "paid"]
    /\ mail' = mail \cup {<<p, "paid">>, <<p, "succeeded">>}
    /\ UNCHANGED <<subVars, pay, inv, claimed, grants, overpaid>>

Decline(p) ==
    /\ prov[p] = "open" /\ pay[p].url
    /\ mail' = mail \cup {<<p, "failed">>}
    /\ UNCHANGED <<subVars, pay, inv, prov, claimed, grants, overpaid>>

ExpireSession(p) ==
    /\ prov[p] = "open"
    /\ prov' = [prov EXCEPT ![p] = "cancelled"]
    /\ mail' = mail \cup {<<p, "cancelled">>}
    /\ UNCHANGED <<subVars, pay, inv, claimed, grants, overpaid>>

Bill(r) ==
    \/ BeginPay(r) \/ InsertPayment(r) \/ OpenSession(r) \/ MarkPending(r)
    \/ Claim(r) \/ ReadPayment(r) \/ Ask(r) \/ Charge(r) \/ SettlePaid(r) \/ Commit(r)
    \/ Reread(r) \/ SaveSuccess(r) \/ PayInvoice(r) \/ GrantAccess(r)
    \/ Conclude(r) \/ CloseInvoice(r)
    \/ \E asked \in Kind, given \in Header \cup {None} : Checkout(r, asked, given)

Provider(p) == Capture(p) \/ Decline(p) \/ ExpireSession(p)

BillNext ==
    /\ UNCHANGED tx
    /\ \/ SubNext /\ UNCHANGED billVars
       \/ \E r \in Req : Bill(r)
       \/ \E p \in Pay : Provider(p)

BillSpec == BillInit /\ [][BillNext]_vars

-----------------------------------------------------------------------------
(* Properties.                                                             *)

BillRequest ==
    [op : OpName \cup {"checkout", "verify", "webhook", "refund", "mark", "granted", None},
     at : Label \cup {"claim", "read", "ask", "charge", "settle", "commit", "success", "invoice",
                      "void", "insert", "session"},
     s : Row \cup {None}, was : Sub \cup {None}, doc : Sub \cup {None}, day : Nat,
     new : Sub \cup {None}, p : Pay \cup {None}, out : Outcome \cup {"succeeded", None},
     copy : Payment \cup {None}]

\* The type of every variable.
BillTypeOK ==
    /\ tx \in BOOLEAN
    /\ now \in Nat
    /\ sub \in [Row -> Sub \cup {None}]
    /\ cache \in [on : BOOLEAN, late : BOOLEAN] \cup {None}
    /\ req \in [Req -> BillRequest]
    /\ hazard \subseteq {"overwrote", "stripped", "removed", "admin"} \cup Pay
    /\ pay \in [Pay -> Payment \cup {None}]
    /\ inv \in [Pay -> Invoice]
    /\ prov \in [Pay -> {"none", "open", "paid", "cancelled"}]
    /\ mail \subseteq Event
    /\ claimed \subseteq Event
    /\ grants \in [Pay -> Nat]
    /\ overpaid \subseteq Pay

Refunded(p) == <<p, "refunded">> \in mail

\* A payment buys one period, however often and in whatever order the browser, two
\* events and their repetitions report it, where the database supports transactions:
\* unless it was refunded, or a failure read before it was paid was saved after.
PaymentBuysOnce ==
    tx => \A p \in Pay : grants[p] > 1 => Refunded(p) \/ p \in overpaid

Working(p) == \E r \in Req : req[r].p = p

\* A payment that says success has bought a period, and its invoice says paid, once no
\* request is at work on it; unless it was refunded or a request for it broke off.
SuccessIsServed ==
    \A p \in Pay : Holds(p, "success") /\ ~Working(p) =>
        \/ grants[p] > 0 /\ inv[p] = "paid"
        \/ Refunded(p) \/ p \in hazard

\* Money that was captured is not forgotten: once all its events were taken, its payment
\* is a success; unless it was refunded, a failure was saved over the success, or a
\* request for it broke off.
CapturedIsSettled ==
    \A p \in Pay : /\ prov[p] = "paid" /\ ~Working(p)
                   /\ {e \in mail : e[1] = p} \subseteq claimed
        => Holds(p, "success") \/ Refunded(p) \/ p \in overpaid \cup hazard

\* A payment that was a success stays one unless it is refunded, though failures are
\* reported late; unless the failure had read it before.
PaidStaysPaid ==
    [][\A p \in Pay : Holds(p, "success") => Holds(p, "success")' \/ Holds(p, "refunded")'
                                            \/ p \in overpaid']_vars
=============================================================================
