--------------------------- MODULE PaymentsProofs ---------------------------
(***************************************************************************)
(* For every number of concurrent requests, check-outs, refunds and prices:*)
(* the inductive invariant of Payments and what follows.                   *)
(***************************************************************************)
EXTENDS Payments, QuantitiesTheorems

USE PaymentAssumption

\* The kinds of step.
LEMMA StepCases ==
    ASSUME [Next]_vars
    PROVE  \/ \E q \in Requests : \/ CheckPayment(q) \/ OpenCheckout(q)
                                  \/ InsertPayment(q) \/ ResetPayment(q)
                                  \/ AbandonPayment(q)
           \/ \E k \in Refunders, a \in Amounts : LockRefund(k, a)
           \/ \E k \in Refunders : \/ StripeRefund(k) \/ SaveRefund(k)
                                   \/ AbandonRefund(k)
           \/ \E c \in Checkouts : Pay(c) \/ ExpireCheckout(c)
           \/ \E r \in RefundIds : RejectRefund(r)
           \/ \E e \in Events : PaymentEvent(e) \/ RefundEvent(e)
           \/ CancelOrder
           \/ \E p \in Prices : ReactivateOrder(p)
           \/ \E new \in OrderStatus : ToggleStatus(new)
           \/ UNCHANGED vars
  BY DEF Next

\* An amount is a positive number.
LEMMA AmountsPositive == \A a \in Amounts : a \in Nat /\ a > 0
  BY DEF Amounts

\* What has been refunded is a number.
LEMMA RefundedType ==
    ASSUME TypeOK
    PROVE  Refunded \in Nat /\ IsFiniteSet(RefundIds)
<1>1. IsFiniteSet(RefundIds)
  BY FirstN DEF RefundIds
<1>2. QED
  BY <1>1, TotalType DEF Refunded, TypeOK

\* A new Refund row adds its amount to what has been refunded.
LEMMA LedgerAdd ==
    ASSUME TypeOK, NEW r \in RefundIds, ledger[r] = 0, NEW a \in Nat
    PROVE  Total([ledger EXCEPT ![r] = a], RefundIds) = Refunded + a
<1> DEFINE new == [ledger EXCEPT ![r] = a]
           R   == RefundIds \ {r}
<1>1. IsFiniteSet(R) /\ r \notin R /\ RefundIds = R \union {r}
  <2>1. IsFiniteSet(RefundIds)
    BY RefundedType
  <2>2. QED
    BY <2>1, FS_Subset
<1>2. /\ ledger \in [RefundIds -> Nat] /\ new \in [RefundIds -> Nat]
      /\ new[r] = a /\ \A x \in R : new[x] = ledger[x]
  BY DEF TypeOK
<1> HIDE DEF new
<1>3. Total(ledger, R) \in Nat
  BY <1>1, <1>2, TotalType
<1>4. Total(new, R) = Total(ledger, R)
  BY <1>2, TotalAgree
<1>5. Total(new, R \union {r}) = Total(new, R) + new[r]
  BY <1>1, <1>2, TotalAdd
<1>6. Total(ledger, R \union {r}) = Total(ledger, R) + ledger[r]
  BY <1>1, <1>2, TotalAdd
<1>7. Total(new, RefundIds) = Total(ledger, RefundIds) + a
  <2> DEFINE T == Total(ledger, R)
  <2>1. /\ Total(new, RefundIds) = T + a
        /\ Total(ledger, RefundIds) = T + 0
    BY <1>1, <1>2, <1>4, <1>5, <1>6
  <2>2. T \in Nat
    BY <1>3
  <2> HIDE DEF T
  <2>3. QED
    BY <2>1, <2>2
<1>8. QED
  BY <1>7 DEF Refunded, new

\* The invariant holds at the start.
LEMMA InitIInv == Init => IInv
<1> SUFFICES ASSUME Init PROVE IInv
  OBVIOUS
<1>1. TypeOK
  BY DEF Init, TypeOK, Row, NoRow, NoEvent, IdleRequest, IdleRefunder,
     OrderStatus, Status
<1>2. RefundHeld
  BY DEF Init, RefundHeld, IdleRefunder
<1>3. MoneyBehind
  BY DEF Init, MoneyBehind, NoRow
<1>4. ProgressIsPaid
  BY DEF Init, ProgressIsPaid, NoRow
<1>5. PageHeld
  BY DEF Init, PageHeld, IdleRequest, NoRow
<1>6. QED
  BY <1>1, <1>2, <1>3, <1>4, <1>5 DEF IInv

-----------------------------------------------------------------------------
\* The fields of what handlers start from.
LEMMA IdleType ==
    /\ NoRow \in Row
    /\ IdleRequest \in [step : {"idle", "checked", "opened"}, saw : Row,
                        total : Prices \union {0}, made : Checkouts \union {0}]
    /\ IdleRefunder \in [step : {"idle", "locked", "refunded"}, amount : Nat,
                         full : BOOLEAN, made : RefundIds \union {0},
                         saw : OrderStatus]
  BY DEF NoRow, NoEvent, IdleRequest, IdleRefunder, Row, OrderStatus

\* An idle request has read no page.
LEMMA IdleNew == IdleRequest.step = "idle" /\ IdleRequest.saw.ref = 0
  BY DEF IdleRequest, NoRow

\* Every step keeps the types.
LEMMA TypeStep == IInv /\ [Next]_vars => TypeOK'
<1> SUFFICES ASSUME IInv, [Next]_vars PROVE TypeOK'
  OBVIOUS
<1>a. TypeOK /\ PageHeld
  BY DEF IInv
<1> USE <1>a
<1>1. ASSUME NEW q \in Requests, CheckPayment(q) PROVE TypeOK'
  BY <1>1 DEF TypeOK, CheckPayment, database, stripe
<1>2. ASSUME NEW q \in Requests, OpenCheckout(q) PROVE TypeOK'
  <2>1. PICK c \in Checkouts :
           /\ checkout' = [checkout EXCEPT ![c] = "open"]
           /\ request' = [request EXCEPT ![q] = [request[q] EXCEPT
                             !.step = "opened", !.made = c]]
    BY <1>2 DEF OpenCheckout
  <2>2. UNCHANGED <<database, refunder, shown, refund, acked>>
    BY <1>2 DEF OpenCheckout
  <2>3. QED
    BY <2>1, <2>2 DEF TypeOK, database
<1>3. ASSUME NEW q \in Requests, InsertPayment(q) PROVE TypeOK'
  <2>1. row' \in Row /\ request[q].made \in Checkouts
    BY <1>3 DEF InsertPayment, TypeOK, PageHeld, Row, NoRow, NoEvent, Status
  <2>2. QED
    BY <1>3, <2>1, IdleType DEF TypeOK, InsertPayment
<1>4. ASSUME NEW q \in Requests, ResetPayment(q) PROVE TypeOK'
  <2> DEFINE new == [NoRow EXCEPT !.status = "pending",
                                  !.total = request[q].total,
                                  !.ref = request[q].made]
  <2>1. new \in Row
    BY DEF TypeOK, Row, NoRow, NoEvent, Status
  <2> HIDE DEF new
  <2>2. Overwritten(request[q].saw, new) \in Row
    BY <2>1 DEF Overwritten, Row, TypeOK
  <2>3. row' \in Row /\ request[q].made \in Checkouts
    BY <1>4, <2>2 DEF ResetPayment, PageHeld, new
  <2>4. shown' \subseteq Checkouts
    BY <1>4, <2>3 DEF ResetPayment, TypeOK
  <2>5. QED
    BY <1>4, <2>3, <2>4, IdleType DEF TypeOK, ResetPayment
<1>5. ASSUME NEW q \in Requests, AbandonPayment(q) PROVE TypeOK'
  BY <1>5, IdleType DEF TypeOK, AbandonPayment, database, stripe
<1>6. ASSUME NEW k \in Refunders, NEW a \in Amounts, LockRefund(k, a)
      PROVE  TypeOK'
  BY <1>6, AmountsPositive DEF TypeOK, LockRefund, database, stripe
<1>7. ASSUME NEW k \in Refunders, StripeRefund(k) PROVE TypeOK'
  <2>1. PICK r \in RefundIds :
           /\ refund' = [refund EXCEPT ![r] = [state |-> "made", of |-> row.txn,
                                             amount |-> refunder[k].amount]]
           /\ refunder' = [refunder EXCEPT ![k] = [refunder[k] EXCEPT
                             !.step = "refunded", !.made = r]]
    BY <1>7 DEF StripeRefund
  <2>2. UNCHANGED <<database, request, checkout, shown, acked>>
    BY <1>7 DEF StripeRefund
  <2>3. row.txn \in Checkouts \union {0}
    BY DEF TypeOK, Row
  <2>4. refund' \in [RefundIds -> [state : {"none", "made", "rejected"},
                                   amount : Nat, of : Checkouts \union {0}]]
    BY <2>1, <2>3 DEF TypeOK
  <2>5. refunder' \in [Refunders -> [step : {"idle", "locked", "refunded"},
                                     amount : Nat, full : BOOLEAN,
                                     made : RefundIds \union {0},
                                     saw : OrderStatus]]
    BY <2>1 DEF TypeOK
  <2>6. QED
    BY <2>2, <2>4, <2>5 DEF TypeOK, database
<1>8. ASSUME NEW k \in Refunders, SaveRefund(k) PROVE TypeOK'
  BY <1>8 DEF TypeOK, SaveRefund, stripe, IdleRefunder, OrderStatus
<1>9. ASSUME NEW k \in Refunders, AbandonRefund(k) PROVE TypeOK'
  BY <1>9 DEF TypeOK, AbandonRefund, database, stripe, IdleRefunder,
     OrderStatus
<1>10. ASSUME NEW c \in Checkouts, Pay(c) \/ ExpireCheckout(c) PROVE TypeOK'
  BY <1>10 DEF TypeOK, Pay, ExpireCheckout, database
<1>11. ASSUME NEW r \in RefundIds, RejectRefund(r) PROVE TypeOK'
  BY <1>11 DEF TypeOK, RejectRefund, database
<1>12. ASSUME NEW e \in Events, PaymentEvent(e) PROVE TypeOK'
  <2>1. CASE Skip(e)
    BY <2>1 DEF TypeOK, Skip, Ack, database, stripe
  <2>2. CASE ~Skip(e)
    <3>1. /\ row' = [row EXCEPT !.status = Outcome(e).payment,
                                !.lastAt = e.of, !.lastId = e,
                                !.txn = IF e.kind = "completed" THEN e.of
                                        ELSE 0]
          /\ order' = [order EXCEPT !.status = Outcome(e).order]
          /\ Ack(e)
          /\ UNCHANGED <<ledger, lastRefund, request, refunder, stripe>>
      BY <1>12, <2>2 DEF PaymentEvent
    <3>2. /\ Outcome(e).payment \in Status
          /\ Outcome(e).order \in OrderStatus
      BY DEF Outcome, Status, OrderStatus
    <3>3. e.of \in Checkouts
      BY <1>12 DEF PaymentEvent, Events
    <3>4. row' \in Row
      BY <3>1, <3>2, <3>3 DEF TypeOK, Row
    <3>5. QED
      BY <3>1, <3>2, <3>4 DEF TypeOK, Ack, stripe
  <2>3. QED
    BY <2>1, <2>2
<1>13. ASSUME NEW e \in Events, RefundEvent(e) PROVE TypeOK'
  <2>1. CASE Skip(e)
    BY <2>1 DEF TypeOK, Skip, Ack, database, stripe
  <2>2. CASE ~Skip(e)
    <3>1. /\ lastRefund' = [lastRefund EXCEPT ![e.of] = e]
          /\ row' = [row EXCEPT !.status = IF e.kind = "rejected"
                                           THEN "success" ELSE "refunded"]
          /\ Ack(e)
          /\ UNCHANGED <<order, ledger, request, refunder, stripe>>
      BY <1>13, <2>2 DEF RefundEvent
    <3>2. row' \in Row
      BY <3>1 DEF TypeOK, Row, Status
    <3>3. QED
      BY <3>1, <3>2 DEF TypeOK, Ack, stripe
  <2>3. QED
    BY <2>1, <2>2
<1>14. ASSUME \/ CancelOrder \/ \E p \in Prices : ReactivateOrder(p)
              \/ \E new \in OrderStatus : ToggleStatus(new)
       PROVE  TypeOK'
  BY <1>14 DEF TypeOK, CancelOrder, ReactivateOrder, ToggleStatus, SetOrder,
     stripe, OrderStatus
<1>15. CASE UNCHANGED vars
  BY <1>15 DEF TypeOK, vars, database, stripe
<1>16. QED
  BY <1>1, <1>2, <1>3, <1>4, <1>5, <1>6, <1>7, <1>8, <1>9, <1>10, <1>11,
     <1>12, <1>13, <1>14, <1>15, StepCases

-----------------------------------------------------------------------------
\* A page that is opened was made by no one before, and stays its request's own
\* until it is shown.
LEMMA PageStep == IInv /\ [Next]_vars => PageHeld'
<1> SUFFICES ASSUME IInv, [Next]_vars PROVE PageHeld'
  OBVIOUS
<1>a. TypeOK /\ PageHeld
  BY DEF IInv
<1>1. CASE UNCHANGED <<row, request, shown, checkout>>
  BY <1>1, <1>a DEF PageHeld
<1>2. ASSUME NEW q \in Requests, CheckPayment(q) PROVE PageHeld'
  <2>1. /\ UNCHANGED <<row, shown, checkout>>
        /\ request' = [request EXCEPT ![q] = [step |-> "checked", saw |-> row,
                                       total |-> order.total, made |-> 0]]
    BY <1>2 DEF CheckPayment, database, stripe
  <2>2. QED
    BY <2>1, <1>a DEF PageHeld, TypeOK
<1>3. ASSUME NEW q \in Requests, OpenCheckout(q) PROVE PageHeld'
  <2>1. PICK c \in Checkouts :
           /\ checkout[c] = "none"
           /\ checkout' = [checkout EXCEPT ![c] = "open"]
           /\ request' = [request EXCEPT ![q] = [request[q] EXCEPT
                             !.step = "opened", !.made = c]]
    BY <1>3 DEF OpenCheckout
  <2>2. UNCHANGED <<row, shown>>
    BY <1>3 DEF OpenCheckout, database
  <2>3. c \notin shown
    BY <2>1, <1>a DEF PageHeld
  <2>4. \A d \in Checkouts : checkout[d] # "none" => checkout'[d] # "none"
    BY <2>1, <1>a DEF TypeOK
  <2>5. /\ request'[q].step = "opened" /\ request'[q].made = c
        /\ request'[q].saw = request[q].saw
        /\ \A p \in Requests : p # q => request'[p] = request[p]
    BY <2>1, <1>a DEF TypeOK
  <2>6. checkout'[c] # "none"
    BY <2>1, <1>a DEF TypeOK
  <2>7. \A p \in Requests : request[p].step = "opened" => request[p].made # c
    BY <2>1, <1>a DEF PageHeld
  <2>8. shown \subseteq Checkouts
    BY <1>a DEF TypeOK
  <2>9. QED
    BY <2>2, <2>3, <2>4, <2>5, <2>6, <2>7, <2>8, <1>a DEF PageHeld
<1>4. ASSUME NEW q \in Requests, InsertPayment(q) \/ ResetPayment(q)
      PROVE  PageHeld'
  <2> DEFINE c == request[q].made
  <2>1. /\ shown' = shown \union {c} /\ UNCHANGED checkout
        /\ request' = [request EXCEPT ![q] = IdleRequest]
        /\ request[q].step = "opened"
    BY <1>4 DEF InsertPayment, ResetPayment
  <2>2. c \in Checkouts \ shown /\ checkout[c] # "none"
    BY <2>1, <1>a DEF PageHeld
  <2>3. row'.ref \in {c, row.ref}
    <3>1. CASE InsertPayment(q)
      BY <3>1 DEF InsertPayment, NoRow
    <3>2. CASE ResetPayment(q)
      BY <3>2 DEF ResetPayment, Overwritten, NoRow
    <3>3. QED
      BY <1>4, <3>1, <3>2
  <2>4. /\ request'[q] = IdleRequest
        /\ \A p \in Requests : p # q => request'[p] = request[p]
    BY <2>1, <1>a DEF TypeOK
  <2>5. \A p \in Requests : p # q /\ request[p].step = "opened" =>
           request[p].made # c
    BY <2>1, <1>a DEF PageHeld
  <2> HIDE DEF c
  <2>6. QED
    BY <2>1, <2>2, <2>3, <2>4, <2>5, IdleNew, <1>a DEF PageHeld
<1>5. ASSUME NEW q \in Requests, AbandonPayment(q) PROVE PageHeld'
  <2>1. /\ UNCHANGED <<row, shown, checkout>>
        /\ request' = [request EXCEPT ![q] = IdleRequest]
    BY <1>5 DEF AbandonPayment, database, stripe
  <2>2. /\ request'[q] = IdleRequest
        /\ \A p \in Requests : p # q => request'[p] = request[p]
    BY <2>1, <1>a DEF TypeOK
  <2>3. QED
    BY <2>1, <2>2, <1>a, IdleNew DEF PageHeld
<1>6. ASSUME NEW c \in Checkouts, Pay(c) \/ ExpireCheckout(c) PROVE PageHeld'
  <2>1. /\ UNCHANGED <<row, shown, request>>
        /\ \A d \in Checkouts : checkout[d] # "none" => checkout'[d] # "none"
    BY <1>6, <1>a DEF Pay, ExpireCheckout, TypeOK, database
  <2>2. shown \subseteq Checkouts
    BY <1>a DEF TypeOK
  <2>3. QED
    BY <2>1, <2>2, <1>a DEF PageHeld
<1>7. ASSUME NEW e \in Events, PaymentEvent(e) \/ RefundEvent(e) PROVE PageHeld'
  <2>1. UNCHANGED <<shown, checkout, request>>
    BY <1>7 DEF PaymentEvent, RefundEvent, Skip, stripe
  <2>2. row'.ref = row.ref
    BY <1>7, <1>a DEF PaymentEvent, RefundEvent, Skip, database, TypeOK, Row
  <2>3. QED
    BY <2>1, <2>2, <1>a DEF PageHeld
<1>8. QED
  BY <1>1, <1>2, <1>3, <1>4, <1>5, <1>6, <1>7, StepCases DEF LockRefund,
     StripeRefund, SaveRefund, AbandonRefund, RejectRefund, CancelOrder,
     ReactivateOrder, ToggleStatus, SetOrder, vars, database, stripe

-----------------------------------------------------------------------------
\* What has happened at Stripe stays: a page paid, a refund made and its
\* transaction.
LEMMA StripeStays ==
    ASSUME IInv, [Next]_vars
    PROVE  /\ \A c \in Checkouts : checkout[c] = "paid" => checkout'[c] = "paid"
           /\ \A r \in RefundIds : refund[r].state # "none" =>
                 refund'[r].state # "none" /\ refund'[r].of = refund[r].of
<1>a. TypeOK
  BY DEF IInv
<1>1. CASE UNCHANGED <<checkout, refund>>
  BY <1>1
<1>2. ASSUME NEW q \in Requests, OpenCheckout(q)
      PROVE  /\ UNCHANGED refund
             /\ \A c \in Checkouts : checkout[c] = "paid" => checkout'[c] = "paid"
  BY <1>2, <1>a DEF OpenCheckout, TypeOK
<1>3. ASSUME NEW c \in Checkouts, Pay(c) \/ ExpireCheckout(c)
      PROVE  /\ UNCHANGED refund
             /\ \A d \in Checkouts : checkout[d] = "paid" => checkout'[d] = "paid"
  BY <1>3, <1>a DEF Pay, ExpireCheckout, TypeOK
<1>4. ASSUME NEW k \in Refunders, StripeRefund(k)
      PROVE  /\ UNCHANGED checkout
             /\ \A r \in RefundIds : refund[r].state # "none" =>
                   refund'[r] = refund[r]
  BY <1>4, <1>a DEF StripeRefund, TypeOK
<1>5. ASSUME NEW r \in RefundIds, RejectRefund(r)
      PROVE  /\ UNCHANGED checkout
             /\ \A d \in RefundIds : refund[d].state # "none" =>
                   refund'[d].state # "none" /\ refund'[d].of = refund[d].of
  BY <1>5, <1>a DEF RejectRefund, TypeOK
<1>6. QED
  BY <1>1, <1>2, <1>3, <1>4, <1>5, StepCases DEF CheckPayment, InsertPayment,
     ResetPayment, AbandonPayment, LockRefund, SaveRefund, AbandonRefund,
     PaymentEvent, RefundEvent, Skip, CancelOrder, ReactivateOrder,
     ToggleStatus, SetOrder, stripe, vars

-----------------------------------------------------------------------------
\* Only a completed event brings a transaction, and its page is paid.
LEMMA MoneyStep == IInv /\ [Next]_vars => MoneyBehind'
<1> SUFFICES ASSUME IInv, [Next]_vars PROVE MoneyBehind'
  OBVIOUS
<1>a. TypeOK /\ RefundHeld /\ MoneyBehind
  BY DEF IInv
<1>b. row.txn \in Checkouts \union {0}
  BY <1>a DEF TypeOK, Row
<1>1. row'.txn # 0 => row'.txn \in Checkouts /\ checkout'[row'.txn] = "paid"
  <2>1. ASSUME row'.txn \in {0, row.txn}
        PROVE  row'.txn # 0 =>
                  row'.txn \in Checkouts /\ checkout'[row'.txn] = "paid"
    BY <2>1, <1>a, <1>b, StripeStays DEF MoneyBehind, Paid
  <2>2. ASSUME NEW q \in Requests, InsertPayment(q) \/ ResetPayment(q)
        PROVE  row'.txn \in {0, row.txn}
    <3>1. CASE InsertPayment(q)
      BY <3>1 DEF InsertPayment, NoRow
    <3>2. CASE ResetPayment(q)
      BY <3>2 DEF ResetPayment, Overwritten, NoRow
    <3>3. QED
      BY <2>2, <3>1, <3>2
  <2>3. ASSUME NEW e \in Events, RefundEvent(e) PROVE row'.txn = row.txn
    BY <2>3, <1>a DEF RefundEvent, Skip, database, TypeOK, Row
  <2>4. ASSUME NEW e \in Events, PaymentEvent(e)
        PROVE  \/ row'.txn \in {0, row.txn}
               \/ row'.txn \in Checkouts /\ checkout[row'.txn] = "paid"
    <3>1. CASE Skip(e)
      BY <3>1 DEF Skip, database
    <3>2. CASE ~Skip(e)
      <4>1. row' = [row EXCEPT !.status = Outcome(e).payment,
                               !.lastAt = e.of, !.lastId = e,
                               !.txn = IF e.kind = "completed" THEN e.of
                                       ELSE 0]
        BY <2>4, <3>2 DEF PaymentEvent
      <4>2. row'.txn = IF e.kind = "completed" THEN e.of ELSE 0
        BY <4>1, <1>a DEF TypeOK, Row
      <4>3. e.kind = "completed" =>
               e.of \in Checkouts /\ checkout[e.of] = "paid"
        BY <2>4 DEF PaymentEvent, Arrives, Sent, Events
      <4>4. QED
        BY <4>2, <4>3
    <3>3. QED
      BY <3>1, <3>2
  <2>5. ASSUME row'.txn \in Checkouts, checkout[row'.txn] = "paid"
        PROVE  checkout'[row'.txn] = "paid"
    BY <2>5, StripeStays
  <2>6. CASE UNCHANGED row
    BY <2>1, <2>6
  <2>7. QED
    BY <2>1, <2>2, <2>3, <2>4, <2>5, <2>6, StepCases DEF CheckPayment,
       OpenCheckout, AbandonPayment, LockRefund, StripeRefund, SaveRefund,
       AbandonRefund, Pay, ExpireCheckout, RejectRefund, CancelOrder,
       ReactivateOrder, ToggleStatus, SetOrder, database, vars
<1>2. ASSUME NEW r \in RefundIds, ledger'[r] # 0 PROVE refund'[r].state # "none"
  <2>1. ASSUME NEW k \in Refunders, SaveRefund(k), ledger[r] = 0
        PROVE  refund[r].state # "none"
    <3>1. /\ ledger' = [ledger EXCEPT ![refunder[k].made] = refunder[k].amount]
          /\ refunder[k].step = "refunded"
      BY <2>1 DEF SaveRefund
    <3>2. r = refunder[k].made
      BY <1>2, <2>1, <3>1, <1>a DEF TypeOK
    <3>3. QED
      BY <3>1, <3>2, <1>a DEF RefundHeld
  <2>2. ledger[r] # 0 => refund[r].state # "none"
    BY <1>a DEF MoneyBehind
  <2>3. CASE UNCHANGED ledger
    BY <1>2, <2>2, <2>3, StripeStays
  <2>4. QED
    BY <1>2, <2>1, <2>2, <2>3, StripeStays, StepCases DEF CheckPayment,
       OpenCheckout, InsertPayment, ResetPayment, AbandonPayment, LockRefund,
       StripeRefund, AbandonRefund, Pay, ExpireCheckout, RejectRefund,
       PaymentEvent, RefundEvent, Skip, CancelOrder, ReactivateOrder,
       ToggleStatus, SetOrder, database, vars
<1>3. ASSUME NEW r \in RefundIds, refund'[r].state # "none"
      PROVE  refund'[r].of \in Checkouts /\ checkout'[refund'[r].of] = "paid"
  <2>1. CASE refund[r].state # "none"
    BY <2>1, <1>a, StripeStays DEF MoneyBehind, Paid
  <2>2. CASE refund[r].state = "none"
    <3>1. PICK k \in Refunders : StripeRefund(k)
      <4>1. ASSUME NEW d \in RefundIds, RejectRefund(d) PROVE FALSE
        BY <4>1, <1>3, <2>2, <1>a DEF RejectRefund, TypeOK
      <4>2. ~ UNCHANGED refund
        BY <1>3, <2>2
      <4>3. QED
        BY <4>1, <4>2, StepCases DEF CheckPayment, OpenCheckout,
           InsertPayment, ResetPayment, AbandonPayment, LockRefund,
           SaveRefund, AbandonRefund, Pay, ExpireCheckout, PaymentEvent,
           RefundEvent, Skip, CancelOrder, ReactivateOrder, ToggleStatus,
           SetOrder, stripe, vars
    <3>2. refund'[r].of = row.txn /\ row.txn # 0
      BY <3>1, <1>3, <2>2, <1>a DEF StripeRefund, TypeOK
    <3>3. checkout[row.txn] = "paid"
      BY <3>2, <1>a DEF MoneyBehind, Paid
    <3>4. QED
      BY <3>2, <3>3, <1>b, StripeStays
  <2>3. QED
    BY <2>1, <2>2
<1>4. QED
  BY <1>1, <1>2, <1>3 DEF MoneyBehind, Paid

-----------------------------------------------------------------------------
\* Either money has come in, or nothing that needs money has happened: the
\* row names no transaction, so nothing could be refunded.
LEMMA ProgressStep == IInv /\ [Next]_vars => ProgressIsPaid'
<1> SUFFICES ASSUME IInv, [Next]_vars PROVE ProgressIsPaid'
  OBVIOUS
<1>a. TypeOK /\ MoneyBehind /\ ProgressIsPaid
  BY DEF IInv
<1>1. CASE \E c \in Checkouts : checkout[c] = "paid"
  <2>1. \E c \in Checkouts : checkout'[c] = "paid"
    BY <1>1, StripeStays
  <2>2. QED
    BY <2>1 DEF ProgressIsPaid, Paid
<1>2. CASE \A c \in Checkouts : checkout[c] # "paid"
  <2>1. /\ order.status \notin {"processing", "shipped", "delivered"}
        /\ row.status \notin {"success", "refunded"}
    BY <1>2, <1>a DEF ProgressIsPaid, Paid
  <2>2. \A r \in RefundIds : ledger[r] = 0
    BY <1>2, <1>a DEF MoneyBehind, Paid
  <2>3. CASE UNCHANGED <<order, row>>
    BY <2>1, <2>3 DEF ProgressIsPaid
  <2>4. ASSUME NEW q \in Requests, InsertPayment(q) PROVE ProgressIsPaid'
    <3>1. order' = order /\ row'.status = "pending"
      BY <2>4 DEF InsertPayment, NoRow
    <3>2. QED
      BY <2>1, <3>1 DEF ProgressIsPaid
  <2>5. ASSUME NEW q \in Requests, ResetPayment(q) PROVE ProgressIsPaid'
    <3>1. order' = order /\ row'.status \in {"pending", row.status}
      BY <2>5 DEF ResetPayment, Overwritten, NoRow
    <3>2. QED
      BY <2>1, <3>1 DEF ProgressIsPaid
  <2>6. ASSUME NEW k \in Refunders, SaveRefund(k) PROVE ProgressIsPaid'
    <3>1. row' = row /\ (order' = order \/ order'.status = "pending")
      BY <2>6, <1>a DEF SaveRefund, TypeOK
    <3>2. QED
      BY <2>1, <3>1 DEF ProgressIsPaid
  <2>7. ASSUME NEW e \in Events, PaymentEvent(e) PROVE ProgressIsPaid'
    <3>1. e.kind = "expired"
      BY <2>7, <1>2 DEF PaymentEvent, Arrives, Sent, Events
    <3>2. CASE Skip(e)
      BY <3>2, <2>3 DEF Skip, database
    <3>3. CASE ~Skip(e)
      <4>1. /\ row' = [row EXCEPT !.status = Outcome(e).payment,
                               !.lastAt = e.of, !.lastId = e,
                               !.txn = IF e.kind = "completed" THEN e.of
                                       ELSE 0]
            /\ order' = [order EXCEPT !.status = Outcome(e).order]
        BY <2>7, <3>3 DEF PaymentEvent
      <4>2. Outcome(e).payment = "failed" /\ Outcome(e).order = "pending"
        BY <3>1 DEF Outcome
      <4>3. row'.status = "failed" /\ order'.status = "pending"
        BY <4>1, <4>2, <1>a DEF TypeOK, Row
      <4>4. QED
        BY <4>3 DEF ProgressIsPaid
    <3>4. QED
      BY <3>2, <3>3
  <2>8. ASSUME NEW e \in Events, RefundEvent(e) PROVE UNCHANGED <<order, row>>
    <3>1. e.of \in RefundIds
      BY <2>8 DEF RefundEvent, Events
    <3>2. QED
      BY <2>8, <2>2, <3>1 DEF RefundEvent, Skip, database
  <2>9. ASSUME \/ CancelOrder \/ \E p \in Prices : ReactivateOrder(p)
               \/ \E new \in OrderStatus : ToggleStatus(new)
        PROVE  ProgressIsPaid'
    <3>1. /\ row' = row
          /\ order'.status \notin {"processing", "shipped", "delivered"}
      BY <2>9, <2>1, <1>a DEF CancelOrder, ReactivateOrder, ToggleStatus,
         SetOrder, TypeOK, OrderStatus
    <3>2. QED
      BY <2>1, <3>1 DEF ProgressIsPaid
  <2>10. QED
    BY <2>3, <2>4, <2>5, <2>6, <2>7, <2>8, <2>9, StepCases DEF CheckPayment,
       OpenCheckout, AbandonPayment, LockRefund, StripeRefund, AbandonRefund,
       Pay, ExpireCheckout, RejectRefund, database, vars
<1>3. QED
  BY <1>1, <1>2

-----------------------------------------------------------------------------
\* The row stays locked from the check to the commit, so what was checked
\* is still so.
LEMMA HeldStep == IInv /\ [Next]_vars => RefundHeld'
<1> SUFFICES ASSUME IInv, [Next]_vars PROVE RefundHeld'
  OBVIOUS
<1>a. TypeOK /\ RefundHeld /\ MoneyBehind
  BY DEF IInv
<1>b. ASSUME \A k \in Refunders : refunder'[k].step = "idle" PROVE RefundHeld'
  BY <1>b DEF RefundHeld
<1>1. CASE UNCHANGED <<row, ledger, refunder>>
  BY <1>1, <1>a, StripeStays DEF RefundHeld, Refunded
<1>2. CASE RowFree /\ UNCHANGED refunder
  BY <1>2, <1>b DEF RowFree
<1>3. ASSUME NEW q \in Requests, InsertPayment(q)
      PROVE  RowFree /\ UNCHANGED refunder
  BY <1>3, <1>a DEF InsertPayment, RefundHeld, RowFree
<1>4. ASSUME NEW k \in Refunders, NEW a \in Amounts, LockRefund(k, a)
      PROVE  RefundHeld'
  <2>1. /\ RowFree /\ UNCHANGED <<row, ledger>>
        /\ refunder' = [refunder EXCEPT ![k] =
                          [step |-> "locked", amount |-> a,
                           full |-> a + Refunded >= row.total, made |-> 0,
                           saw |-> order.status]]
    BY <1>4 DEF LockRefund, database
  <2>2. row.status # "none" /\ a + Refunded <= row.total /\ a > 0
    BY <1>4, AmountsPositive DEF LockRefund, Refundable
  <2>3. /\ refunder'[k].step = "locked" /\ refunder'[k].amount = a
        /\ \A l \in Refunders : l # k => refunder'[l] = refunder[l]
    BY <2>1, <1>a DEF TypeOK
  <2>4. Refunded' = Refunded
    BY <2>1 DEF Refunded
  <2>5. QED
    BY <2>1, <2>2, <2>3, <2>4 DEF RefundHeld, RowFree
<1>5. ASSUME NEW k \in Refunders, StripeRefund(k) PROVE RefundHeld'
  <2>1. PICK r \in RefundIds :
           /\ refund[r].state = "none"
           /\ refund' = [refund EXCEPT ![r] = [state |-> "made", of |-> row.txn,
                                             amount |-> refunder[k].amount]]
           /\ refunder' = [refunder EXCEPT ![k] = [refunder[k] EXCEPT
                             !.step = "refunded", !.made = r]]
    BY <1>5 DEF StripeRefund
  <2>2. UNCHANGED <<row, ledger>> /\ refunder[k].step = "locked"
    BY <1>5 DEF StripeRefund, database
  <2>3. /\ refunder'[k].step = "refunded" /\ refunder'[k].made = r
        /\ refunder'[k].amount = refunder[k].amount
        /\ \A l \in Refunders : l # k => refunder'[l] = refunder[l]
    BY <2>1, <1>a DEF TypeOK
  <2>4. refund'[r].state # "none"
    BY <2>1, <1>a DEF TypeOK
  <2>5. ledger[r] = 0
    BY <2>1, <1>a DEF MoneyBehind
  <2>6. \A l \in Refunders : l # k => refunder[l].step = "idle"
    BY <2>2, <1>a DEF RefundHeld
  <2>7. Refunded' = Refunded
    BY <2>2 DEF Refunded
  <2>8. QED
    BY <2>2, <2>3, <2>4, <2>5, <2>6, <2>7, <1>a DEF RefundHeld
<1>6. ASSUME NEW k \in Refunders, SaveRefund(k) \/ AbandonRefund(k)
      PROVE  RefundHeld'
  <2>1. /\ refunder' = [refunder EXCEPT ![k] = IdleRefunder]
        /\ refunder[k].step # "idle"
    BY <1>6 DEF SaveRefund, AbandonRefund
  <2>2. \A l \in Refunders : l # k => refunder[l].step = "idle"
    BY <2>1, <1>a DEF RefundHeld
  <2>3. \A l \in Refunders : refunder'[l].step = "idle"
    BY <2>1, <2>2, <1>a DEF TypeOK, IdleRefunder
  <2>4. QED
    BY <2>3, <1>b
<1>7. ASSUME NEW q \in Requests, ResetPayment(q)
      PROVE  RowFree /\ UNCHANGED refunder
  BY <1>7 DEF ResetPayment
<1>8. ASSUME NEW e \in Events, PaymentEvent(e)
      PROVE  RowFree /\ UNCHANGED refunder
  BY <1>8 DEF PaymentEvent, Skip
<1>9. ASSUME NEW e \in Events, RefundEvent(e)
      PROVE  \/ RowFree /\ UNCHANGED refunder
             \/ UNCHANGED <<row, ledger, refunder>>
  BY <1>9 DEF RefundEvent, Skip, database
<1>10. QED
  BY <1>1, <1>2, <1>3, <1>4, <1>5, <1>6, <1>7, <1>8, <1>9, StepCases
     DEF CheckPayment, OpenCheckout, AbandonPayment, Pay, ExpireCheckout,
     RejectRefund, CancelOrder, ReactivateOrder, ToggleStatus, SetOrder,
     database, vars

-----------------------------------------------------------------------------
\* Every step keeps the invariant.
LEMMA InvStep == IInv /\ [Next]_vars => IInv'
<1>1. ASSUME IInv, [Next]_vars
      PROVE  /\ TypeOK' /\ PageHeld' /\ RefundHeld'
             /\ MoneyBehind' /\ ProgressIsPaid'
  BY <1>1, TypeStep, PageStep, HeldStep, MoneyStep, ProgressStep
<1>2. QED
  BY <1>1 DEF IInv

\* The inductive invariant holds in every state.
THEOREM Invariance == Spec => []IInv
  BY InitIInv, InvStep, PTL DEF Spec

\* Every state of the payment and of its order is one the columns allow.
THEOREM TypeCorrect == Spec => []TypeOK
<1>1. IInv => TypeOK
  BY DEF IInv
<1>2. QED
  BY <1>1, Invariance, PTL

\* However requests, refunds and events interleave, no order is in
\* processing or shipped, and no payment is a success, before a check-out
\* has been paid.
THEOREM ProgressPaid == Spec => []ProgressIsPaid
<1>1. IInv => ProgressIsPaid
  BY DEF IInv
<1>2. QED
  BY <1>1, Invariance, PTL

\* The Refund row adds just what was checked under the lock.
LEMMA FencedStep ==
    ASSUME IInv, NEW k \in Refunders, SaveRefund(k)
    PROVE  Total(ledger', RefundIds) <= row.total
<1> DEFINE r == refunder[k].made
           a == refunder[k].amount
<1>1. TypeOK /\ RefundHeld
  BY DEF IInv
<1>2. ledger' = [ledger EXCEPT ![r] = a] /\ refunder[k].step = "refunded"
  BY DEF SaveRefund
<1>3. r \in RefundIds /\ ledger[r] = 0 /\ a + Refunded <= row.total
  BY <1>1, <1>2 DEF RefundHeld
<1>4. a \in Nat /\ Refunded \in Nat
  BY <1>1, RefundedType DEF TypeOK
<1>5. Total(ledger', RefundIds) = Refunded + a
  <2> HIDE DEF r, a
  <2>1. QED
    BY <1>1, <1>2, <1>3, <1>4, LedgerAdd
<1>6. QED
  BY <1>3, <1>4, <1>5

\* However many calls of charge_refund run at once, the refunds recorded for a
\* payment never add up to more than its total.
THEOREM RefundsAreFenced == Spec => RefundsFenced
<1>1. IInv /\ [Next]_vars =>
         [\A k \in Refunders : SaveRefund(k)
             => Total(ledger', RefundIds) <= row.total]_vars
  BY FencedStep
<1>2. QED
  BY <1>1, Invariance, PTL DEF Spec, RefundsFenced

\* A reset names a page nobody has seen, so it changes reference_id; the
\* webhook compares times.
LEMMA NewerStep ==
    ASSUME IInv, [Next]_vars, row'.ref = row.ref
    PROVE  row'.lastAt >= row.lastAt
<1>a. TypeOK /\ PageHeld
  BY DEF IInv
<1>b. row.lastAt \in Nat /\ row.ref \in Nat
  BY <1>a DEF TypeOK, Row, Checkouts
<1>1. CASE UNCHANGED row
  BY <1>1, <1>b
<1>2. ASSUME NEW q \in Requests, InsertPayment(q) \/ ResetPayment(q) PROVE FALSE
  <2>1. /\ request[q].made \in Checkouts \ shown
        /\ row.ref \in shown \union {0}
        /\ request[q].saw.ref \in shown \union {0}
    BY <1>2, <1>a DEF PageHeld, InsertPayment, ResetPayment
  <2>2. 0 \notin Checkouts
    BY DEF Checkouts
  <2>3. row'.ref = request[q].made
    <3>1. CASE InsertPayment(q)
      BY <3>1 DEF InsertPayment, NoRow
    <3>2. CASE ResetPayment(q)
      BY <3>2, <2>1, <2>2 DEF ResetPayment, Overwritten, NoRow
    <3>3. QED
      BY <1>2, <3>1, <3>2
  <2>4. QED
    BY <2>1, <2>2, <2>3
<1>3. ASSUME NEW e \in Events, PaymentEvent(e) PROVE row'.lastAt >= row.lastAt
  <2>1. CASE Skip(e)
    BY <2>1, <1>1 DEF Skip, database
  <2>2. CASE ~Skip(e)
    <3>1. /\ Accepts(e)
          /\ row' = [row EXCEPT !.status = Outcome(e).payment,
                               !.lastAt = e.of, !.lastId = e,
                               !.txn = IF e.kind = "completed" THEN e.of
                                       ELSE 0]
      BY <1>3, <2>2 DEF PaymentEvent
    <3>2. row'.lastAt = e.of
      BY <3>1, <1>a DEF TypeOK, Row
    <3>3. e.of \in Nat
      BY <1>3 DEF PaymentEvent, Events, Checkouts
    <3>4. QED
      BY <3>1, <3>2, <3>3, <1>b DEF Accepts
  <2>3. QED
    BY <2>1, <2>2
<1>4. ASSUME NEW e \in Events, RefundEvent(e) PROVE row'.lastAt >= row.lastAt
  <2>1. row'.lastAt = row.lastAt
    BY <1>4, <1>a DEF RefundEvent, Skip, database, TypeOK, Row
  <2>2. QED
    BY <2>1, <1>b
<1>5. CASE \E e \in Events : PaymentEvent(e) \/ RefundEvent(e)
  BY <1>5, <1>3, <1>4
<1>6. CASE ~ \E e \in Events : PaymentEvent(e) \/ RefundEvent(e)
  <2>1. UNCHANGED row
    BY <1>2, <1>6, StepCases DEF CheckPayment, OpenCheckout, AbandonPayment,
       LockRefund, StripeRefund, SaveRefund, AbandonRefund, Pay,
       ExpireCheckout, RejectRefund, CancelOrder, ReactivateOrder,
       ToggleStatus, SetOrder, database, vars
  <2>2. QED
    BY <2>1, <1>1
<1>7. QED
  BY <1>5, <1>6

\* Between two resets of the payment the webhook never lets an older event
\* undo a newer one.
THEOREM NewerStands == Spec => NewerEventStands
<1>1. IInv /\ [Next]_vars =>
         [row'.ref = row.ref => row'.lastAt >= row.lastAt]_vars
  BY NewerStep
<1>2. QED
  BY <1>1, Invariance, PTL DEF Spec, NewerEventStands
=============================================================================
