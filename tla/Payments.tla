------------------------------ MODULE Payments ------------------------------
(***************************************************************************)
(* One order's payment: create_payment and charge_refund, which check the  *)
(* database, call Stripe, and write afterwards; Stripe's check-out pages   *)
(* and refunds; and the webhook that applies Stripe's events, which may    *)
(* come late, out of order, or again.  Orders do not meet in these         *)
(* handlers (Payment.order_id is unique), so one order is modelled.        *)
(*                                                                         *)
(* Check-outs and refunds are numbered in the order Stripe creates them:   *)
(* the number is the creation time that the webhook reads from an event's  *)
(* object.  Only events whose object carries the metadata the code sets    *)
(* are tracked: check-out sessions and refunds.                            *)
(***************************************************************************)
EXTENDS Quantities, Integers

CONSTANTS
    Requests,     \* concurrent calls of create_payment
    Refunders,    \* concurrent calls of charge_refund
    Prices,       \* totals the order may have; a re-order sets a new one
    MaxCheckouts, \* bound: check-out pages made
    MaxRefunds,   \* bound: refunds made
    Redelivery    \* whether Stripe may send again what was acknowledged

ASSUME PaymentAssumption ==
    /\ Prices \subseteq Nat \ {0} /\ Prices # {}
    /\ MaxCheckouts \in Nat /\ MaxRefunds \in Nat
    /\ Redelivery \in BOOLEAN

Checkouts == 1..MaxCheckouts
RefundIds == 1..MaxRefunds
Amounts   == UNION {1..p : p \in Prices}

VARIABLES
    order,      \* Order.status and Order.total_amount
    row,        \* the Payment row; status "none": there is no row
    ledger,     \* ledger[r]: refund_amount of the Refund row of r; 0: no row
    lastRefund, \* lastRefund[r]: last_event_id of the Refund row of r
    request,    \* what a call of create_payment has read and made
    refunder,   \* what a call of charge_refund has read and made
    checkout,   \* Stripe: the check-out pages
    shown,      \* check-outs whose URL the customer has been given
    refund,     \* Stripe: the refunds
    acked       \* events that were answered with 200

database == <<order, row, ledger, lastRefund>>
stripe   == <<checkout, shown, refund>>
vars == <<database, request, refunder, stripe, acked>>

OrderStatus == {"pending", "processing", "paid", "shipped", "delivered",
                "cancelled"}
Status == {"pending", "success", "failed", "refunded"}

Events == [kind : {"completed", "expired"}, of : Checkouts]
              \union [kind : {"refunded", "rejected"}, of : RefundIds]

NoEvent == [kind |-> "none", of |-> 0]

Row == [status : Status \union {"none"},
        total  : Prices \union {0},
        ref    : Checkouts \union {0},    \* reference_id
        txn    : Checkouts \union {0},    \* transaction_id, by its check-out
        lastAt : Checkouts \union {0},    \* last_event_at; 0: NULL
        lastId : Events \union {NoEvent}] \* last_event_id

NoRow == [status |-> "none", total |-> 0, ref |-> 0, txn |-> 0, lastAt |-> 0,
          lastId |-> NoEvent]

IdleRequest  == [step |-> "idle", saw |-> NoRow, total |-> 0, made |-> 0]
IdleRefunder == [step |-> "idle", amount |-> 0, full |-> FALSE, made |-> 0,
                 saw |-> "pending"]

TypeOK ==
    /\ order \in [status : OrderStatus, total : Prices]
    /\ row \in Row
    /\ ledger \in [RefundIds -> Nat]
    /\ lastRefund \in [RefundIds -> Events \union {NoEvent}]
    /\ request \in [Requests -> [step : {"idle", "checked", "opened"},
                                 saw : Row, total : Prices \union {0},
                                 made : Checkouts \union {0}]]
    /\ refunder \in [Refunders -> [step : {"idle", "locked", "refunded"},
                                   amount : Nat, full : BOOLEAN,
                                   made : RefundIds \union {0},
                                   saw : OrderStatus]]
    /\ checkout \in [Checkouts -> {"none", "open", "paid", "expired"}]
    /\ shown \subseteq Checkouts
    /\ refund \in [RefundIds -> [state : {"none", "made", "rejected"},
                                 amount : Nat, of : Checkouts \union {0}]]
    /\ acked \subseteq Events

Refunded == Total(ledger, RefundIds)

Init ==
    /\ \E p \in Prices : order = [status |-> "pending", total |-> p]
    /\ row = NoRow
    /\ ledger = [r \in RefundIds |-> 0]
    /\ lastRefund = [r \in RefundIds |-> NoEvent]
    /\ request = [q \in Requests |-> IdleRequest]
    /\ refunder = [k \in Refunders |-> IdleRefunder]
    /\ checkout = [c \in Checkouts |-> "none"]
    /\ shown = {}
    /\ refund = [r \in RefundIds |-> [state |-> "none", amount |-> 0, of |-> 0]]
    /\ acked = {}

-----------------------------------------------------------------------------
\* Mutant: charge_refund reads the payment without FOR UPDATE.
RowAlwaysFree == TRUE

\* The payment row is locked by charge_refund from its check to its commit.
RowFree == \A k \in Refunders : refunder[k].step = "idle"

-----------------------------------------------------------------------------
(* create_payment.                                                         *)

\* The order must be pending; a pending payment answers with its old page
\* and a successful one with 409, neither of which changes anything.
CheckPayment(q) ==
    /\ request[q].step = "idle"
    /\ order.status = "pending"
    /\ row.status \notin {"pending", "success"}
    /\ request' = [request EXCEPT ![q] = [step |-> "checked", saw |-> row,
                                          total |-> order.total, made |-> 0]]
    /\ UNCHANGED <<database, refunder, stripe, acked>>

\* Stripe makes a check-out page.
OpenCheckout(q) ==
    /\ request[q].step = "checked"
    /\ \E c \in Checkouts :
          /\ checkout[c] = "none"
          /\ \A d \in Checkouts : d < c => checkout[d] # "none"
          /\ checkout' = [checkout EXCEPT ![c] = "open"]
          /\ request' = [request EXCEPT ![q] = [request[q] EXCEPT
                            !.step = "opened", !.made = c]]
    /\ UNCHANGED <<database, refunder, shown, refund, acked>>

\* No row was seen: a new one is inserted; order_id is unique.
InsertPayment(q) ==
    /\ request[q].step = "opened" /\ request[q].saw.status = "none"
    /\ row.status = "none"
    /\ row' = [NoRow EXCEPT !.status = "pending", !.total = request[q].total,
                            !.ref = request[q].made]
    /\ shown' = shown \union {request[q].made}
    /\ request' = [request EXCEPT ![q] = IdleRequest]
    /\ UNCHANGED <<order, ledger, lastRefund, refunder, checkout, refund,
                   acked>>

\* A column is written when the new value differs from the value the request
\* loaded before its call to Stripe: the row selected FOR UPDATE does not
\* replace what the session has already loaded.
Overwritten(saw, new) ==
    [status |-> IF new.status = saw.status THEN row.status ELSE new.status,
     total  |-> IF new.total = saw.total THEN row.total ELSE new.total,
     ref    |-> IF new.ref = saw.ref THEN row.ref ELSE new.ref,
     txn    |-> IF new.txn = saw.txn THEN row.txn ELSE new.txn,
     lastAt |-> IF new.lastAt = saw.lastAt THEN row.lastAt ELSE new.lastAt,
     lastId |-> IF new.lastId = saw.lastId THEN row.lastId ELSE new.lastId]

\* The existing row is reset for the new check-out.
ResetPayment(q) ==
    /\ request[q].step = "opened" /\ request[q].saw.status # "none"
    /\ RowFree
    /\ row' = Overwritten(request[q].saw,
                 [NoRow EXCEPT !.status = "pending",
                               !.total = request[q].total,
                               !.ref = request[q].made])
    /\ shown' = shown \union {request[q].made}
    /\ request' = [request EXCEPT ![q] = IdleRequest]
    /\ UNCHANGED <<order, ledger, lastRefund, refunder, checkout, refund,
                   acked>>

\* A Stripe error, the unique constraint, a database error or a crash.  The
\* page, if it was made, stays open at Stripe; its URL is lost.
AbandonPayment(q) ==
    /\ request[q].step # "idle"
    /\ request' = [request EXCEPT ![q] = IdleRequest]
    /\ UNCHANGED <<database, refunder, stripe, acked>>

-----------------------------------------------------------------------------
(* charge_refund.                                                          *)

Refundable(a) ==
    /\ row.status \in {"success", "refunded"}
    /\ a + Refunded <= row.total

\* The payment is locked and checked; the order is read, not locked.
LockRefund(k, a) ==
    /\ refunder[k].step = "idle" /\ RowFree
    /\ Refundable(a)
    /\ refunder' = [refunder EXCEPT ![k] =
                      [step |-> "locked", amount |-> a,
                       full |-> a + Refunded >= row.total, made |-> 0,
                       saw |-> order.status]]
    /\ UNCHANGED <<database, request, stripe, acked>>

\* Stripe refunds the payment's transaction.  It is not assumed to look at
\* what has been refunded before.
StripeRefund(k) ==
    /\ refunder[k].step = "locked" /\ row.txn # 0
    /\ \E r \in RefundIds :
          /\ refund[r].state = "none"
          /\ \A d \in RefundIds : d < r => refund[d].state # "none"
          /\ refund' = [refund EXCEPT ![r] = [state |-> "made", of |-> row.txn,
                                              amount |-> refunder[k].amount]]
          /\ refunder' = [refunder EXCEPT ![k] = [refunder[k] EXCEPT
                             !.step = "refunded", !.made = r]]
    /\ UNCHANGED <<database, request, checkout, shown, acked>>

\* The Refund row is written; a full refund puts the order back to pending,
\* unless the order was loaded as pending.
SaveRefund(k) ==
    /\ refunder[k].step = "refunded"
    /\ ledger' = [ledger EXCEPT ![refunder[k].made] = refunder[k].amount]
    /\ order' = IF refunder[k].full /\ refunder[k].saw # "pending"
                THEN [order EXCEPT !.status = "pending"] ELSE order
    /\ refunder' = [refunder EXCEPT ![k] = IdleRefunder]
    /\ UNCHANGED <<row, lastRefund, request, stripe, acked>>

\* Stripe declines, or the write fails after the refund was made (the
\* "FATAL STATE MISMATCH" of the log).
AbandonRefund(k) ==
    /\ refunder[k].step # "idle"
    /\ refunder' = [refunder EXCEPT ![k] = IdleRefunder]
    /\ UNCHANGED <<database, request, stripe, acked>>

-----------------------------------------------------------------------------
(* Stripe.                                                                 *)

Pay(c) ==
    /\ checkout[c] = "open" /\ c \in shown
    /\ checkout' = [checkout EXCEPT ![c] = "paid"]
    /\ UNCHANGED <<database, request, refunder, shown, refund, acked>>

\* A page outlives the request that made it (it lasts a day).
ExpireCheckout(c) ==
    /\ checkout[c] = "open" /\ \A q \in Requests : request[q].made # c
    /\ checkout' = [checkout EXCEPT ![c] = "expired"]
    /\ UNCHANGED <<database, request, refunder, shown, refund, acked>>

RejectRefund(r) ==
    /\ refund[r].state = "made"
    /\ refund' = [refund EXCEPT ![r].state = "rejected"]
    /\ UNCHANGED <<database, request, refunder, checkout, shown, acked>>

\* The events Stripe has to send.  A refund is reported as done, and then
\* perhaps as rejected by the bank.
Sent(e) ==
    \/ e.kind = "completed" /\ checkout[e.of] = "paid"
    \/ e.kind = "expired" /\ checkout[e.of] = "expired"
    \/ e.kind = "refunded" /\ refund[e.of].state # "none"
    \/ e.kind = "rejected" /\ refund[e.of].state = "rejected"

Arrives(e) == Sent(e) /\ (e \in acked => Redelivery)

-----------------------------------------------------------------------------
(* stripe_webhook.  An event that finds no row to update is acknowledged   *)
(* all the same.                                                           *)

Ack(e) == acked' = acked \union {e}

Skip(e) ==
    /\ Ack(e) /\ UNCHANGED <<database, request, refunder, stripe>>

\* Mutant: the time of the event is not compared.
AcceptsAnyTime(e) == row.status # "none" /\ row.lastId # e

\* The conditions of the UPDATE of the payment.
Accepts(e) ==
    /\ row.status # "none"
    /\ row.lastAt = 0 \/ row.lastAt <= e.of
    /\ row.lastId # e

\* Mutants: a failed check-out moves the order on as well; it leaves the
\* payment as it is; Stripe's word is stored as the status.
OutcomeAlwaysPaid(e) ==
    [payment |-> IF e.kind = "completed" THEN "success" ELSE "failed",
     order |-> "processing"]
OutcomeIfPaid(e) ==
    IF e.kind = "completed" THEN [payment |-> "success", order |-> "processing"]
                            ELSE [payment |-> row.status, order |-> "pending"]
OutcomeByKind(e) ==
    [payment |-> e.kind,
     order |-> IF e.kind = "completed" THEN "processing" ELSE "pending"]

\* What an event of a check-out says of the payment and of the order.
Outcome(e) ==
    IF e.kind = "completed" THEN [payment |-> "success", order |-> "processing"]
                            ELSE [payment |-> "failed", order |-> "pending"]

PaymentEvent(e) ==
    /\ e.kind \in {"completed", "expired"} /\ Arrives(e) /\ RowFree
    /\ IF Accepts(e)
       THEN /\ row' = [row EXCEPT !.status = Outcome(e).payment,
                                  !.lastAt = e.of, !.lastId = e,
                                  !.txn = IF e.kind = "completed" THEN e.of
                                          ELSE 0]
            /\ order' = [order EXCEPT !.status = Outcome(e).order]
            /\ Ack(e)
            /\ UNCHANGED <<ledger, lastRefund, request, refunder, stripe>>
       ELSE Skip(e)

\* An event of a refund finds its Refund row, or is skipped.  Its time is
\* the refund's own and never older than last_event_at.
RefundEvent(e) ==
    /\ e.kind \in {"refunded", "rejected"} /\ Arrives(e)
    /\ IF ledger[e.of] # 0 /\ lastRefund[e.of] # e
       THEN /\ RowFree
            /\ lastRefund' = [lastRefund EXCEPT ![e.of] = e]
            /\ row' = [row EXCEPT !.status = IF e.kind = "rejected"
                                             THEN "success" ELSE "refunded"]
            /\ Ack(e)
            /\ UNCHANGED <<order, ledger, request, refunder, stripe>>
       ELSE Skip(e)

-----------------------------------------------------------------------------
(* The order's own handlers (see OrderStock), as far as payments see them. *)

SetOrder(new) ==
    /\ order' = new
    /\ UNCHANGED <<row, ledger, lastRefund, request, refunder, stripe, acked>>

\* The sweep and the portal cancel a pending order whatever its payment; the
\* customer's cancel_order is the case of a pending payment or none.
CancelOrder ==
    /\ order.status = "pending"
    /\ SetOrder([order EXCEPT !.status = "cancelled"])

\* reactivate_order computes the total anew.
ReactivateOrder(p) ==
    /\ order.status = "cancelled"
    /\ SetOrder([status |-> "pending", total |-> p])

\* toggle_status by the store.
ToggleStatus(new) ==
    /\ order.status \in {"pending", "processing", "shipped"}
    /\ new \in {"pending", "cancelled"} /\ row.status # "none"
          => Refunded = row.total
    /\ order.status = "pending" /\ row.status # "success"
          => new \notin {"processing", "shipped", "delivered"}
    /\ SetOrder([order EXCEPT !.status = new])

Next ==
    \/ \E q \in Requests : \/ CheckPayment(q) \/ OpenCheckout(q)
                           \/ InsertPayment(q) \/ ResetPayment(q)
                           \/ AbandonPayment(q)
    \/ \E k \in Refunders : \/ \E a \in Amounts : LockRefund(k, a)
                            \/ StripeRefund(k) \/ SaveRefund(k)
                            \/ AbandonRefund(k)
    \/ \E c \in Checkouts : Pay(c) \/ ExpireCheckout(c)
    \/ \E r \in RefundIds : RejectRefund(r)
    \/ \E e \in Events : PaymentEvent(e) \/ RefundEvent(e)
    \/ CancelOrder
    \/ \E p \in Prices : ReactivateOrder(p)
    \/ \E new \in OrderStatus : ToggleStatus(new)

Spec == Init /\ [][Next]_vars

-----------------------------------------------------------------------------
(* Properties.                                                             *)

Paid(c) == checkout[c] = "paid"

RefundOf(c) == {r \in RefundIds : refund[r].of = c /\ refund[r].state = "made"}

\* docs/payment.md:23: the refunds recorded for a payment, the one being
\* written included, never exceed its total, whatever refunds run at once.
RefundsFenced ==
    [][\A k \in Refunders : SaveRefund(k)
            => Total(ledger', RefundIds) <= row.total]_vars

\* Only money moves an order on: it is processed, shipped or delivered, and
\* its payment a success or refunded, only if one of its pages has been paid.
\* ("paid" is not among these: toggle_status sets it without a check.)
ProgressIsPaid ==
    (\/ order.status \in {"processing", "shipped", "delivered"}
     \/ row.status \in {"success", "refunded"})
       => \E c \in Checkouts : Paid(c)

\* Until the payment is reset for another check-out, an event of an older
\* check-out never takes effect after an event of a newer one.
NewerEventStands ==
    [][row'.ref = row.ref => row'.lastAt >= row.lastAt]_vars

\* payment_service.py:156, "payment for this order has already been
\* completed": no second check-out is paid while the first is not refunded.
PaidOnce ==
    \A c, d \in Checkouts :
        c # d /\ Paid(c) /\ Paid(d) => RefundOf(c) \union RefundOf(d) # {}

-----------------------------------------------------------------------------
(* The inductive invariant behind the safety properties.                   *)

\* charge_refund holds the row alone, and what it checked stays true.
RefundHeld ==
    /\ \A k, l \in Refunders : k # l =>
          refunder[k].step = "idle" \/ refunder[l].step = "idle"
    /\ \A k \in Refunders : refunder[k].step # "idle" =>
          /\ row.status # "none"
          /\ refunder[k].amount > 0
          /\ refunder[k].amount + Refunded <= row.total
    /\ \A k \in Refunders : refunder[k].step = "refunded" =>
          /\ refunder[k].made \in RefundIds
          /\ ledger[refunder[k].made] = 0
          /\ refund[refunder[k].made].state # "none"

\* A page that a request has opened is its own and new to everyone: neither
\* the row nor what the request has read of it can name that page.
PageHeld ==
    /\ row.ref \in shown \union {0}
    /\ \A c \in shown : checkout[c] # "none"
    /\ \A q \in Requests :
          /\ request[q].saw.ref \in shown \union {0}
          /\ request[q].step = "opened" =>
                /\ request[q].made \in Checkouts \ shown
                /\ checkout[request[q].made] # "none"
    /\ \A p, q \in Requests : p # q =>
          ~ (/\ request[p].step = "opened" /\ request[q].step = "opened"
             /\ request[p].made = request[q].made)

\* Money behind the records: a transaction is a paid check-out, and a
\* refund is of a transaction.
MoneyBehind ==
    /\ row.txn # 0 => Paid(row.txn)
    /\ \A r \in RefundIds : ledger[r] # 0 => refund[r].state # "none"
    /\ \A r \in RefundIds : refund[r].state # "none" =>
          refund[r].of \in Checkouts /\ Paid(refund[r].of)

IInv == TypeOK /\ PageHeld /\ RefundHeld /\ MoneyBehind /\ ProgressIsPaid

-----------------------------------------------------------------------------
(* Fairness: a page is paid or expires; Stripe sends each event of a page  *)
(* until it is acknowledged, and the UPDATE waits for its row lock; every  *)
(* call of charge_refund ends.                                             *)

FirstEvent(c) ==
    \E e \in Events \ acked : e.of = c /\ PaymentEvent(e)

Fairness ==
    /\ \A c \in Checkouts : /\ WF_vars(Pay(c) \/ ExpireCheckout(c))
                             /\ SF_vars(FirstEvent(c))
    /\ \A k \in Refunders : WF_vars(SaveRefund(k) \/ AbandonRefund(k))

FairSpec == Spec /\ Fairness

\* A payment does not stay pending for ever: the page it refers to is paid
\* or expires, and that event is accepted.
PendingIsSettled == row.status = "pending" ~> row.status # "pending"
=============================================================================
