-------------------------- MODULE OrderStockProofs --------------------------
(***************************************************************************)
(* For every catalogue, every set of carts and any number of concurrent    *)
(* sessions: the inductive invariant of OrderStock and what follows.       *)
(***************************************************************************)
EXTENDS OrderStock, QuantitiesTheorems

USE CatalogAssumption, CartAssumption, BoundAssumption

\* The fields an action gives to the session that takes it.
LEMMA IdleFields ==
    /\ Idle \in Txn
    /\ Idle.op = "idle" /\ Idle.targets = {} /\ Idle.rows = {}
    /\ Idle.drop = {}
  BY DEF Idle, Txn

\* An order's demand for a variant is a number, and so is that of a set of
\* orders.
LEMMA DemandTotal ==
    ASSUME TypeOK, NEW v \in Variants, NEW S \in SUBSET Orders
    PROVE  /\ IsFiniteSet(S)
           /\ Demand(v) \in [Orders -> Nat]
           /\ Total(Demand(v), S) \in Nat
<1>1. Demand(v) \in [Orders -> Nat]
  BY DEF Demand, TypeOK
<1>2. IsFiniteSet(S)
  BY FS_Subset
<1>3. QED
  BY <1>1, <1>2, TotalType

\* The kinds of step; the four ways to cancel are one kind.
LEMMA StepCases ==
    ASSUME [Next]_vars
    PROVE  \/ \E s \in Sessions, o \in Orders, c \in Carts : BeginCreate(s, o, c)
           \/ \E s \in Sessions, o \in Orders : BeginReactivate(s, o)
           \/ \E s \in Sessions, S, D \in SUBSET Orders :
                 /\ BeginCancel(s, S, D) /\ D \subseteq S
                 /\ \A x \in S :
                       status[x] \in {"pending", "processing", "shipped"}
           \/ \E s \in Sessions, v \in Variants : BeginCount(s, v)
           \/ \E s \in Sessions : \/ LockStock(s)
                                 \/ CommitCreate(s)
                                 \/ CommitReactivate(s)
                                 \/ CommitCancel(s)
                                 \/ Rollback(s)
           \/ \E s \in Sessions, n \in 0..MaxStock : CommitCount(s, n)
           \/ \E o \in Orders : Event(o)
           \/ UNCHANGED vars
<1>1. ASSUME NEW s \in Sessions, NEW o \in Orders,
             PortalExpire(s, o) \/ ToggleCancel(s, o) \/ CancelOrder(s, o)
      PROVE  \E S, D \in SUBSET Orders :
                /\ BeginCancel(s, S, D) /\ D \subseteq S
                /\ \A x \in S :
                      status[x] \in {"pending", "processing", "shipped"}
  <2>1. \E D \in SUBSET {o} : BeginCancel(s, {o}, D)
    BY <1>1 DEF PortalExpire, ToggleCancel, CancelOrder
  <2>2. status[o] \in {"pending", "processing", "shipped"}
    BY <1>1 DEF PortalExpire, ToggleCancel, CancelOrder
  <2>3. QED
    BY <2>1, <2>2
<1>2. ASSUME NEW s \in Sessions, Sweep(s)
      PROVE  \E S, D \in SUBSET Orders :
                /\ BeginCancel(s, S, D) /\ D \subseteq S
                /\ \A x \in S :
                      status[x] \in {"pending", "processing", "shipped"}
  BY <1>2 DEF Sweep, Sweepable
<1>3. CASE \E s \in Sessions : Begin(s)
  BY <1>1, <1>2, <1>3 DEF Begin
<1>4. CASE \E s \in Sessions : Commit(s)
  BY <1>4 DEF Commit
<1>5. CASE \E s \in Sessions : LockStock(s) \/ Rollback(s)
  BY <1>5
<1>6. CASE \/ \E o \in Orders : Event(o)
           \/ UNCHANGED vars
  BY <1>6
<1>7. QED
  BY <1>3, <1>4, <1>5, <1>6 DEF Next, Session

\* An event is a toggle, a deletion, the passing of time, or a payment step
\* on an existing order, which may force the order's status.
LEMMA EventCases ==
    ASSUME TypeOK, OrderShape, NEW o \in Orders, Event(o)
    PROVE  \/ \E new \in OrderStatus : ToggleStatus(o, new)
           \/ DeleteOrder(o)
           \/ Expire(o)
           \/ /\ status[o] # "none"
              /\ pay' \in [Orders -> PaymentStatus \union {"none"}]
              /\ refunds' \in [Orders -> RefundSum]
              /\ \A x \in Orders : status[x] = "none" =>
                    pay'[x] = pay[x] /\ refunds'[x] = refunds[x]
              /\ \/ PaymentOnly
                 \/ ForceStatus(o, "pending")
                 \/ ForceStatus(o, "processing")
<1> USE DEF TypeOK, PaymentStatus, RefundSum
<1>1. pay[o] # "none" \/ refunds[o] # "none" => status[o] # "none"
  BY DEF OrderShape
<1>2. CASE OpenPayment(o)
  BY <1>2 DEF OpenPayment
<1>3. CASE PaymentSucceeded(o) \/ PaymentFailed(o)
  BY <1>1, <1>3 DEF PaymentSucceeded, PaymentFailed
<1>4. CASE RefundInFull(o) \/ RefundInPart(o)
  BY <1>1, <1>4 DEF RefundInFull, RefundInPart
<1>5. ASSUME NEW new \in PaymentStatus, RefundEvent(o, new)
      PROVE  /\ status[o] # "none"
             /\ pay' \in [Orders -> PaymentStatus \union {"none"}]
             /\ refunds' \in [Orders -> RefundSum]
             /\ \A x \in Orders : status[x] = "none" =>
                    pay'[x] = pay[x] /\ refunds'[x] = refunds[x]
             /\ PaymentOnly
  BY <1>1, <1>5 DEF RefundEvent
<1>6. QED
  BY <1>2, <1>3, <1>4, <1>5 DEF Event

\* What no event changes.
LEMMA EventFrame ==
    ASSUME TypeOK, OrderShape, NEW o \in Orders, Event(o)
    PROVE  /\ UNCHANGED <<stockVars, txn, cartOf, checkedOut, supply, lost,
                          surplus>>
           /\ \/ OrderFree(o) /\ \E new \in OrderStatus :
                                   status' = [status EXCEPT ![o] = new]
              \/ UNCHANGED status
           /\ \/ OrderFree(o) /\ deleted' = deleted \union {o}
              \/ UNCHANGED deleted
<1> USE DEF stockVars, orderVars, historyVars
<1>1. CASE \E new \in OrderStatus : ToggleStatus(o, new)
  BY <1>1 DEF ToggleStatus
<1>2. CASE DeleteOrder(o) \/ Expire(o)
  BY <1>2 DEF DeleteOrder, Expire
<1>3. CASE PaymentOnly
  BY <1>3 DEF PaymentOnly
<1>4. CASE ForceStatus(o, "pending") \/ ForceStatus(o, "processing")
  BY <1>4 DEF ForceStatus, OrderStatus
<1>5. QED
  BY <1>1, <1>2, <1>3, <1>4, EventCases

LEMMA InitIInv == Init => IInv
<1> SUFFICES ASSUME Init PROVE IInv
  OBVIOUS
<1> USE DEF Init
<1>1. TypeOK
  BY IdleFields DEF TypeOK, RefundSum
<1>2. OrderShape
  BY DEF OrderShape
<1>3. SessionShape
  BY IdleFields DEF SessionShape, HeldRows
<1>4. LocksExclusive /\ LockedReadIsCurrent
  BY IdleFields DEF LocksExclusive, LockedReadIsCurrent
<1>5. StockConserved
  <2>1. Reserving = {}
    BY DEF Reserving
  <2>2. \A v \in Variants : Total(Demand(v), {}) = 0
    BY TotalZero
  <2>3. QED
    BY <2>1, <2>2 DEF StockConserved
<1>6. OneOrderPerCart
  BY DEF OneOrderPerCart
<1>7. QED
  BY <1>1, <1>2, <1>3, <1>4, <1>5, <1>6 DEF IInv

\* What the code computes when it takes stock stays a stock.
LEMMA TakeStockType ==
    ASSUME TypeOK, SessionShape, NEW s \in Sessions, TakeStock(s),
           txn[s].op \in {"create", "reactivate"}
    PROVE  stock' \in [Variants -> Nat] /\ listed' \subseteq Products
<1> DEFINE t == txn[s]
<1>1. /\ t.cart \in Carts /\ t.rows \subseteq Variants
      /\ t.read \in [Variants -> Nat]
      /\ \A v \in t.rows : CartItems[t.cart][v] <= t.read[v]
  BY DEF SessionShape, HeldRows, TypeOK, Txn
<1>2. \A v \in t.rows : t.read[v] - CartItems[t.cart][v] \in Nat
  BY <1>1
<1>3. QED
  BY <1>2 DEF TakeStock, TypeOK

LEMMA TypeStep == IInv /\ [Next]_vars => TypeOK'
<1> SUFFICES ASSUME IInv, [Next]_vars PROVE TypeOK'
  OBVIOUS
<1> USE DEF IInv, TypeOK, stockVars, orderVars, payVars, historyVars
<1>1. ASSUME NEW s \in Sessions, NEW o \in Orders, NEW c \in Carts,
             BeginCreate(s, o, c)
      PROVE  TypeOK'
  BY <1>1 DEF BeginCreate, Idle, Txn, SeenOf
<1>2. ASSUME NEW s \in Sessions, NEW o \in Orders, BeginReactivate(s, o)
      PROVE  TypeOK'
  BY <1>2 DEF BeginReactivate, Idle, Txn, SeenOf
<1>3. ASSUME NEW s \in Sessions, NEW S \in SUBSET Orders,
             NEW D \in SUBSET Orders, BeginCancel(s, S, D)
      PROVE  TypeOK'
  BY <1>3 DEF BeginCancel, Idle, Txn, SeenOf, Snapshot
<1>4. ASSUME NEW s \in Sessions, NEW v \in Variants, BeginCount(s, v)
      PROVE  TypeOK'
  BY <1>4 DEF BeginCount, Idle, Txn, SeenOf, Snapshot
<1>5. ASSUME NEW s \in Sessions, LockStock(s)
      PROVE  TypeOK'
  <2> DEFINE c == txn[s].cart
             t == [txn[s] EXCEPT !.rows = Lines(c), !.read = Snapshot(Lines(c)),
                                 !.soldOut = SoldOutBy(c)]
  <2>1. /\ Lines(c) \subseteq Variants /\ SoldOutBy(c) \subseteq Products
        /\ Snapshot(Lines(c)) \in [Variants -> Nat]
    BY DEF Lines, SoldOutBy, Snapshot
  <2>2. txn[s] \in Txn
    OBVIOUS
  <2>3. t \in Txn
    BY <2>1, <2>2 DEF Txn
  <2>4. txn' = [txn EXCEPT ![s] = t]
    BY <1>5 DEF LockStock
  <2>5. QED
    BY <1>5, <2>3, <2>4 DEF LockStock
<1>6. ASSUME NEW s \in Sessions, CommitCreate(s)
      PROVE  TypeOK'
  <2>1. stock' \in [Variants -> Nat] /\ listed' \subseteq Products
    BY <1>6, TakeStockType DEF CommitCreate
  <2>2. txn' \in [Sessions -> Txn]
    BY <1>6, IdleFields DEF CommitCreate
  <2>3. txn[s].cart \in Carts /\ txn[s].targets \subseteq Orders
    BY <1>6 DEF CommitCreate, SessionShape, HeldRows, Txn
  <2>4. QED
    BY <1>6, <2>1, <2>2, <2>3 DEF CommitCreate, CheckOut, OrderStatus
<1>7. ASSUME NEW s \in Sessions, CommitReactivate(s)
      PROVE  TypeOK'
  <2>1. stock' \in [Variants -> Nat] /\ listed' \subseteq Products
    BY <1>7, TakeStockType DEF CommitReactivate
  <2>2. txn' \in [Sessions -> Txn] /\ ops' \in 0..MaxOps
    BY <1>7, IdleFields DEF CommitReactivate
  <2>3. txn[s].targets \subseteq Orders
    BY DEF Txn
  <2>4. QED
    BY <1>7, <2>1, <2>2, <2>3 DEF CommitReactivate, OrderStatus
<1>8. ASSUME NEW s \in Sessions, CommitCancel(s)
      PROVE  TypeOK'
  <2> DEFINE S == txn[s].targets
  <2>1. txn[s] \in Txn /\ S \subseteq Orders
    BY DEF Txn
  <2>2. \A v \in Variants : Total(Demand(v), S) \in Nat
    BY <2>1, DemandTotal
  <2>3. stock' \in [Variants -> Nat]
    BY <1>8, <2>1, <2>2 DEF CommitCancel, Txn
  <2>4. status' \in [Orders -> OrderStatus \union {"none"}]
    BY <1>8 DEF CommitCancel, OrderStatus
  <2>5. /\ listed' \subseteq Products /\ lost' \subseteq Variants
        /\ surplus' \subseteq Variants /\ revived' \subseteq Orders
        /\ deleted' \subseteq Orders
    BY <1>8, <2>1 DEF CommitCancel, ItemsOf, Txn
  <2>6. txn' \in [Sessions -> Txn]
    BY <1>8, IdleFields DEF CommitCancel
  <2>7. QED
    BY <1>8, <2>3, <2>4, <2>5, <2>6 DEF CommitCancel
<1>9. ASSUME NEW s \in Sessions, NEW n \in 0..MaxStock, CommitCount(s, n)
      PROVE  TypeOK'
  <2>1. PICK v \in txn[s].rows :
          /\ stock' = [stock EXCEPT ![v] = n]
          /\ listed' = listed \union ({ProductOf[v]} \ txn[s].seen)
          /\ supply' = [supply EXCEPT ![v] = n + Total(Demand(v), Reserving)]
          /\ lost' = lost \ {v}
          /\ surplus' = surplus \ {v}
    BY <1>9 DEF CommitCount
  <2>2. v \in Variants /\ n \in Nat
    BY DEF Txn
  <2>3. Reserving \subseteq Orders
    BY DEF Reserving
  <2>4. Total(Demand(v), Reserving) \in Nat
    BY <2>2, <2>3, DemandTotal
  <2>5. supply' \in [Variants -> Nat] /\ stock' \in [Variants -> Nat]
    BY <2>1, <2>2, <2>4
  <2>6. txn' \in [Sessions -> Txn] /\ ops' \in 0..MaxOps
    BY <1>9, IdleFields DEF CommitCount
  <2>7. QED
    BY <1>9, <2>1, <2>2, <2>5, <2>6 DEF CommitCount
<1>10. ASSUME NEW s \in Sessions, Rollback(s)
       PROVE  TypeOK'
  <2>1. txn' \in [Sessions -> Txn] /\ ops' \in 0..MaxOps
    BY <1>10, IdleFields DEF Rollback
  <2>2. QED
    BY <1>10, <2>1 DEF Rollback
<1>11. ASSUME NEW o \in Orders, Event(o)
       PROVE  TypeOK'
  <2>1. CASE \E new \in OrderStatus : ToggleStatus(o, new)
    BY <2>1 DEF ToggleStatus
  <2>2. CASE DeleteOrder(o) \/ Expire(o)
    BY <2>2 DEF DeleteOrder, Expire
  <2>3. ASSUME /\ pay' \in [Orders -> PaymentStatus \union {"none"}]
               /\ refunds' \in [Orders -> RefundSum],
               \/ PaymentOnly
               \/ ForceStatus(o, "pending") \/ ForceStatus(o, "processing")
        PROVE  TypeOK'
    <3>1. CASE PaymentOnly
      BY <2>3, <3>1 DEF PaymentOnly
    <3>2. CASE ForceStatus(o, "pending") \/ ForceStatus(o, "processing")
      BY <2>3, <3>2 DEF ForceStatus, OrderStatus
    <3>3. QED
      BY <2>3, <3>1, <3>2
  <2>4. QED
    BY <1>11, <2>1, <2>2, <2>3, EventCases
<1>12. ASSUME UNCHANGED vars PROVE TypeOK'
  BY <1>12 DEF vars
<1>13. QED
  BY <1>1, <1>2, <1>3, <1>4, <1>5, <1>6, <1>7, <1>8, <1>9, <1>10, <1>11, <1>12,
     StepCases

\* For what the orders and the stock look like, only four kinds of session
\* steps and the events count.
LEMMA WritingSteps ==
    ASSUME [Next]_vars
    PROVE  \/ UNCHANGED <<stockVars, orderVars, payVars, historyVars>>
           \/ \E s \in Sessions : \/ CommitCreate(s)
                                 \/ CommitReactivate(s)
                                 \/ CommitCancel(s)
           \/ \E s \in Sessions, n \in 0..MaxStock : CommitCount(s, n)
           \/ \E o \in Orders : Event(o)
<1> DEFINE Quiet == UNCHANGED <<stockVars, orderVars, payVars, historyVars>>
<1>1. ASSUME NEW s \in Sessions, NEW o \in Orders,
             \/ \E c \in Carts : BeginCreate(s, o, c)
             \/ BeginReactivate(s, o)
      PROVE  Quiet
  BY <1>1 DEF BeginCreate, BeginReactivate
<1>2. ASSUME NEW s \in Sessions,
             \/ \E S, D \in SUBSET Orders : BeginCancel(s, S, D)
             \/ \E v \in Variants : BeginCount(s, v)
      PROVE  Quiet
  BY <1>2 DEF BeginCancel, BeginCount
<1>3. ASSUME NEW s \in Sessions, LockStock(s) \/ Rollback(s)
      PROVE  Quiet
  BY <1>3 DEF LockStock, Rollback
<1>4. ASSUME UNCHANGED vars PROVE Quiet
  BY <1>4 DEF vars
<1> HIDE DEF Quiet
<1>5. \/ Quiet
      \/ \E s \in Sessions : \/ CommitCreate(s)
                            \/ CommitReactivate(s)
                            \/ CommitCancel(s)
      \/ \E s \in Sessions, n \in 0..MaxStock : CommitCount(s, n)
      \/ \E o \in Orders : Event(o)
  BY StepCases, <1>1, <1>2, <1>3, <1>4
<1>6. QED
  BY <1>5 DEF Quiet

\* The orders a committing session has locked.
LEMMA CommitTargets ==
    ASSUME IInv, NEW s \in Sessions
    PROVE  /\ CommitCreate(s) =>
                \E o \in Orders :
                   /\ txn[s].targets = {o} /\ status[o] = "none"
                   /\ txn[s].cart \in Carts \ checkedOut
                   /\ txn[s].rows = Lines(txn[s].cart)
                   /\ status' = [status EXCEPT ![o] = "pending"]
                   /\ cartOf' = [cartOf EXCEPT ![o] = txn[s].cart]
           /\ CommitReactivate(s) =>
                \E o \in Orders :
                   /\ txn[s].targets = {o} /\ status[o] = "cancelled"
                   /\ o \notin deleted /\ txn[s].cart = cartOf[o]
                   /\ txn[s].cart \in Carts
                   /\ txn[s].rows = Lines(txn[s].cart)
                   /\ status' = [status EXCEPT ![o] = "pending"]
           /\ CommitCancel(s) =>
                /\ txn[s].targets \subseteq Orders
                /\ txn[s].drop \subseteq txn[s].targets
                /\ \A o \in txn[s].targets :
                      status[o] \in {"pending", "processing", "shipped"}
           /\ \A n : CommitCount(s, n) => txn[s].targets = {}
<1>a. HeldRows(txn[s])
  BY DEF IInv, SessionShape
<1>1. ASSUME CommitCreate(s)
      PROVE  \E o \in Orders :
                /\ txn[s].targets = {o} /\ status[o] = "none"
                /\ txn[s].cart \in Carts \ checkedOut
                /\ txn[s].rows = Lines(txn[s].cart)
                /\ status' = [status EXCEPT ![o] = "pending"]
                /\ cartOf' = [cartOf EXCEPT ![o] = txn[s].cart]
  <2>1. txn[s].op = "create" /\ txn[s].rows # {}
    BY <1>1 DEF CommitCreate
  <2>2. /\ txn[s].cart \in Carts \ checkedOut
        /\ txn[s].rows = Lines(txn[s].cart)
    BY <1>a, <2>1 DEF HeldRows
  <2>3. PICK o \in Orders : txn[s].targets = {o} /\ status[o] = "none"
    BY <1>a, <2>1 DEF HeldRows
  <2>4. PICK x \in txn[s].targets :
           /\ status' = [status EXCEPT ![x] = "pending"]
           /\ cartOf' = [cartOf EXCEPT ![x] = txn[s].cart]
    BY <1>1 DEF CommitCreate
  <2>5. x = o
    BY <2>3, <2>4
  <2>6. QED
    BY <2>2, <2>3, <2>4, <2>5
<1>2. ASSUME CommitReactivate(s)
      PROVE  \E o \in Orders :
                /\ txn[s].targets = {o} /\ status[o] = "cancelled"
                /\ o \notin deleted /\ txn[s].cart = cartOf[o]
                /\ txn[s].cart \in Carts
                /\ txn[s].rows = Lines(txn[s].cart)
                /\ status' = [status EXCEPT ![o] = "pending"]
  <2>1. txn[s].op = "reactivate" /\ txn[s].rows # {}
    BY <1>2 DEF CommitReactivate
  <2>2. txn[s].cart \in Carts /\ txn[s].rows = Lines(txn[s].cart)
    BY <1>a, <2>1 DEF HeldRows
  <2>3. PICK o \in Orders : /\ txn[s].targets = {o} /\ status[o] = "cancelled"
                            /\ o \notin deleted /\ txn[s].cart = cartOf[o]
    BY <1>a, <2>1 DEF HeldRows
  <2>4. PICK x \in txn[s].targets : status' = [status EXCEPT ![x] = "pending"]
    BY <1>2 DEF CommitReactivate
  <2>5. x = o
    BY <2>3, <2>4
  <2>6. QED
    BY <2>2, <2>3, <2>4, <2>5
<1>3. txn[s].targets \subseteq Orders
  BY DEF IInv, TypeOK, Txn
<1>4. CommitCancel(s) =>
         /\ txn[s].drop \subseteq txn[s].targets
         /\ \A o \in txn[s].targets :
               status[o] \in {"pending", "processing", "shipped"}
  BY <1>a DEF CommitCancel, HeldRows
<1>5. \A n : CommitCount(s, n) => txn[s].targets = {}
  BY <1>a DEF CommitCount, HeldRows
<1>6. QED
  BY <1>1, <1>2, <1>3, <1>4, <1>5

LEMMA ShapeStep == IInv /\ [Next]_vars => OrderShape'
<1> SUFFICES ASSUME IInv, [Next]_vars PROVE OrderShape'
  OBVIOUS
<1> USE DEF OrderShape
<1>a. TypeOK /\ OrderShape
  BY DEF IInv
<1>1. CASE UNCHANGED <<stockVars, orderVars, payVars, historyVars>>
  BY <1>1, <1>a DEF orderVars, payVars, historyVars
<1>2. ASSUME NEW s \in Sessions, CommitCreate(s)
      PROVE  OrderShape'
  <2>1. PICK o \in Orders :
           /\ status[o] = "none" /\ txn[s].cart \in Carts
           /\ status' = [status EXCEPT ![o] = "pending"]
           /\ cartOf' = [cartOf EXCEPT ![o] = txn[s].cart]
    BY <1>2, CommitTargets
  <2>2. UNCHANGED <<deleted, pay, refunds, revived>>
    BY <1>2 DEF CommitCreate, payVars, historyVars
  <2>3. QED
    BY <1>a, <2>1, <2>2 DEF TypeOK
<1>3. ASSUME NEW s \in Sessions, CommitReactivate(s)
      PROVE  OrderShape'
  <2>1. PICK o \in Orders :
           /\ status[o] = "cancelled"
           /\ status' = [status EXCEPT ![o] = "pending"]
    BY <1>3, CommitTargets
  <2>2. UNCHANGED <<cartOf, deleted, pay, refunds, revived>>
    BY <1>3 DEF CommitReactivate, payVars, historyVars
  <2>3. QED
    BY <1>a, <2>1, <2>2 DEF TypeOK
<1>4. ASSUME NEW s \in Sessions, CommitCancel(s)
      PROVE  OrderShape'
  <2> DEFINE S == txn[s].targets
  <2>1. /\ S \subseteq Orders /\ txn[s].drop \subseteq S
        /\ \A o \in S : status[o] \in {"pending", "processing", "shipped"}
    BY <1>4, CommitTargets
  <2>2. /\ UNCHANGED <<cartOf, pay, refunds>>
        /\ status' = [o \in Orders |-> IF o \in S THEN "cancelled"
                                       ELSE status[o]]
        /\ deleted' = deleted \union txn[s].drop
        /\ revived' = revived \ S
    BY <1>4 DEF CommitCancel, payVars
  <2> HIDE DEF S
  <2>3. QED
    BY <1>a, <2>1, <2>2 DEF TypeOK
<1>5. ASSUME NEW s \in Sessions, NEW n \in 0..MaxStock, CommitCount(s, n)
      PROVE  OrderShape'
  BY <1>5, <1>a DEF CommitCount, orderVars, payVars
<1>6. ASSUME NEW o \in Orders, Event(o)
      PROVE  OrderShape'
  <2> USE DEF TypeOK, orderVars, payVars, historyVars
  <2>1. CASE \E new \in OrderStatus : ToggleStatus(o, new)
    BY <1>a, <2>1 DEF ToggleStatus, OrderStatus
  <2>2. CASE DeleteOrder(o) \/ Expire(o)
    BY <1>a, <2>2 DEF DeleteOrder, Expire
  <2>3. ASSUME status[o] # "none",
               \A x \in Orders : status[x] = "none" =>
                   pay'[x] = pay[x] /\ refunds'[x] = refunds[x],
               \/ PaymentOnly
               \/ ForceStatus(o, "pending") \/ ForceStatus(o, "processing")
        PROVE  OrderShape'
    <3>1. CASE PaymentOnly
      BY <1>a, <2>3, <3>1 DEF PaymentOnly
    <3>2. CASE ForceStatus(o, "pending") \/ ForceStatus(o, "processing")
      BY <1>a, <2>3, <3>2 DEF ForceStatus
    <3>3. QED
      BY <2>3, <3>1, <3>2
  <2>4. QED
    BY <1>6, <1>a, <2>1, <2>2, <2>3, EventCases
<1>7. QED
  BY <1>1, <1>2, <1>3, <1>4, <1>5, <1>6, WritingSteps

LEMMA CartStep == IInv /\ [Next]_vars => OneOrderPerCart'
<1> SUFFICES ASSUME IInv, [Next]_vars PROVE OneOrderPerCart'
  OBVIOUS
<1>a. TypeOK /\ OrderShape /\ OneOrderPerCart
  BY DEF IInv
<1>1. ASSUME UNCHANGED <<cartOf, checkedOut>>
      PROVE  OneOrderPerCart'
  BY <1>1, <1>a DEF OneOrderPerCart
<1>2. ASSUME NEW s \in Sessions, CommitCreate(s)
      PROVE  OneOrderPerCart'
  <2>1. PICK o \in Orders :
           /\ status[o] = "none" /\ txn[s].cart \in Carts \ checkedOut
           /\ cartOf' = [cartOf EXCEPT ![o] = txn[s].cart]
    BY <1>2, CommitTargets
  <2> DEFINE c == txn[s].cart
  <2>2. checkedOut' = checkedOut \union {c} /\ c # NoCart
    BY <1>2, <2>1 DEF CommitCreate, CheckOut
  <2>3. cartOf[o] = NoCart /\ \A x \in Orders : cartOf[x] # c
    BY <1>a, <2>1, <2>2 DEF OrderShape, OneOrderPerCart
  <2>4. \A x \in Orders : cartOf'[x] = IF x = o THEN c ELSE cartOf[x]
    BY <1>a, <2>1 DEF TypeOK
  <2> HIDE DEF c
  <2>5. \A o1, o2 \in Orders :
           cartOf'[o1] = cartOf'[o2] /\ cartOf'[o1] # NoCart => o1 = o2
    BY <1>a, <2>3, <2>4 DEF OneOrderPerCart
  <2>6. {cartOf'[x] : x \in Orders} \ {NoCart}
           = ({cartOf[x] : x \in Orders} \ {NoCart}) \union {c}
    BY <2>2, <2>3, <2>4
  <2>7. QED
    BY <1>a, <2>2, <2>5, <2>6 DEF OneOrderPerCart
<1>3. ASSUME NEW s \in Sessions, CommitReactivate(s) \/ CommitCancel(s)
      PROVE  UNCHANGED <<cartOf, checkedOut>>
  BY <1>3 DEF CommitReactivate, CommitCancel
<1>4. ASSUME NEW s \in Sessions, NEW n \in 0..MaxStock, CommitCount(s, n)
      PROVE  UNCHANGED <<cartOf, checkedOut>>
  BY <1>4 DEF CommitCount, orderVars
<1>5. ASSUME NEW o \in Orders, Event(o)
      PROVE  UNCHANGED <<cartOf, checkedOut>>
  BY <1>5, <1>a, EventFrame
<1>6. ASSUME UNCHANGED <<stockVars, orderVars, payVars, historyVars>>
      PROVE  UNCHANGED <<cartOf, checkedOut>>
  BY <1>6 DEF orderVars
<1>7. QED
  BY <1>1, <1>2, <1>3, <1>4, <1>5, <1>6, WritingSteps

\* A session that takes rows no other session has keeps the locks exclusive,
\* and so does one that gives all of them up.
LEMMA LocksTaken ==
    ASSUME LocksExclusive, NEW s \in Sessions,
           \A r \in Sessions \ {s} :
              /\ txn'[r] = txn[r]
              /\ txn'[s].targets \cap txn[r].targets = {}
              /\ txn'[s].rows \cap txn[r].rows = {}
              /\ txn'[s].op = "create" /\ txn[r].op = "create"
                    => txn'[s].cart # txn[r].cart
    PROVE  LocksExclusive'
  BY DEF LocksExclusive

LEMMA LocksStep == IInv /\ [Next]_vars => LocksExclusive'
<1> SUFFICES ASSUME IInv, [Next]_vars PROVE LocksExclusive'
  OBVIOUS
<1>a. TypeOK /\ LocksExclusive /\ SessionShape
  BY DEF IInv
<1>1. ASSUME NEW s \in Sessions, NEW o \in Orders, NEW c \in Carts,
             BeginCreate(s, o, c)
      PROVE  LocksExclusive'
  <2> DEFINE t == [Idle EXCEPT !.op = "create", !.targets = {o}, !.cart = c,
                               !.seen = SeenOf(Lines(c))]
  <2>1. /\ t.op = "create" /\ t.targets = {o} /\ t.rows = {} /\ t.cart = c
    BY DEF Idle
  <2>2. txn' = [txn EXCEPT ![s] = t] /\ OrderFree(o) /\ CartFree(c)
    BY <1>1 DEF BeginCreate
  <2> HIDE DEF t
  <2>3. \A r \in Sessions :
          txn'[r] = IF r = s THEN t ELSE txn[r]
    BY <1>a, <2>2 DEF TypeOK
  <2>4. \A r \in Sessions \ {s} :
          /\ t.targets \cap txn[r].targets = {}
          /\ t.rows \cap txn[r].rows = {}
          /\ t.op = "create" /\ txn[r].op = "create" => t.cart # txn[r].cart
    BY <2>1, <2>2 DEF OrderFree, CartFree
  <2>5. QED
    BY <1>a, <2>3, <2>4, LocksTaken
<1>2. ASSUME NEW s \in Sessions, NEW o \in Orders, BeginReactivate(s, o)
      PROVE  LocksExclusive'
  <2> DEFINE t == [Idle EXCEPT !.op = "reactivate", !.targets = {o},
                               !.cart = cartOf[o],
                               !.seen = SeenOf(Lines(cartOf[o]))]
  <2>1. /\ t.op = "reactivate" /\ t.targets = {o} /\ t.rows = {}
    BY DEF Idle
  <2>2. txn' = [txn EXCEPT ![s] = t] /\ OrderFree(o)
    BY <1>2 DEF BeginReactivate, Reorderable
  <2> HIDE DEF t
  <2>3. \A r \in Sessions :
          txn'[r] = IF r = s THEN t ELSE txn[r]
    BY <1>a, <2>2 DEF TypeOK
  <2>4. \A r \in Sessions \ {s} :
          /\ t.targets \cap txn[r].targets = {}
          /\ t.rows \cap txn[r].rows = {}
          /\ t.op = "create" /\ txn[r].op = "create" => t.cart # txn[r].cart
    BY <2>1, <2>2 DEF OrderFree
  <2>5. QED
    BY <1>a, <2>3, <2>4, LocksTaken
<1>3. ASSUME NEW s \in Sessions, NEW S \in SUBSET Orders,
             NEW D \in SUBSET Orders, BeginCancel(s, S, D)
      PROVE  LocksExclusive'
  <2> DEFINE t == [Idle EXCEPT !.op = "cancel", !.targets = S, !.drop = D,
                               !.read = Snapshot(ItemsOf(S)),
                               !.seen = SeenOf(ItemsOf(S))]
  <2>1. /\ t.op = "cancel" /\ t.targets = S /\ t.rows = {}
    BY DEF Idle
  <2>2. txn' = [txn EXCEPT ![s] = t] /\ \A o \in S : OrderFree(o)
    BY <1>3 DEF BeginCancel
  <2> HIDE DEF t
  <2>3. \A r \in Sessions :
          txn'[r] = IF r = s THEN t ELSE txn[r]
    BY <1>a, <2>2 DEF TypeOK
  <2>4. \A r \in Sessions \ {s} :
          /\ t.targets \cap txn[r].targets = {}
          /\ t.rows \cap txn[r].rows = {}
          /\ t.op = "create" /\ txn[r].op = "create" => t.cart # txn[r].cart
    BY <2>1, <2>2 DEF OrderFree
  <2>5. QED
    BY <1>a, <2>3, <2>4, LocksTaken
<1>4. ASSUME NEW s \in Sessions, NEW v \in Variants, BeginCount(s, v)
      PROVE  LocksExclusive'
  <2> DEFINE t == [Idle EXCEPT !.op = "count", !.rows = {v},
                               !.read = Snapshot({v}), !.seen = SeenOf({v})]
  <2>1. /\ t.op = "count" /\ t.targets = {} /\ t.rows = {v}
    BY DEF Idle
  <2>2. txn' = [txn EXCEPT ![s] = t] /\ RowFree(v)
    BY <1>4 DEF BeginCount
  <2> HIDE DEF t
  <2>3. \A r \in Sessions :
          txn'[r] = IF r = s THEN t ELSE txn[r]
    BY <1>a, <2>2 DEF TypeOK
  <2>4. \A r \in Sessions \ {s} :
          /\ t.targets \cap txn[r].targets = {}
          /\ t.rows \cap txn[r].rows = {}
          /\ t.op = "create" /\ txn[r].op = "create" => t.cart # txn[r].cart
    BY <2>1, <2>2 DEF RowFree
  <2>5. QED
    BY <1>a, <2>3, <2>4, LocksTaken
<1>5. ASSUME NEW s \in Sessions, LockStock(s)
      PROVE  LocksExclusive'
  <2> DEFINE c == txn[s].cart
             t == [txn[s] EXCEPT !.rows = Lines(c), !.read = Snapshot(Lines(c)),
                                 !.soldOut = SoldOutBy(c)]
  <2>1. txn[s] \in Txn
    BY <1>a DEF TypeOK
  <2>2. /\ t.op = txn[s].op /\ t.targets = txn[s].targets
        /\ t.rows = Lines(c) /\ t.cart = c
    BY <2>1 DEF Txn
  <2>3. txn' = [txn EXCEPT ![s] = t] /\ \A v \in Lines(c) : RowFree(v)
    BY <1>5 DEF LockStock
  <2> HIDE DEF t
  <2>4. \A r \in Sessions :
          txn'[r] = IF r = s THEN t ELSE txn[r]
    BY <1>a, <2>3 DEF TypeOK
  <2>5. \A r \in Sessions \ {s} :
          /\ t.targets \cap txn[r].targets = {}
          /\ t.rows \cap txn[r].rows = {}
          /\ t.op = "create" /\ txn[r].op = "create" => t.cart # txn[r].cart
    BY <1>a, <2>2, <2>3 DEF RowFree, LocksExclusive
  <2>6. QED
    BY <1>a, <2>4, <2>5, LocksTaken
<1>6. ASSUME NEW s \in Sessions, txn' = [txn EXCEPT ![s] = Idle]
      PROVE  LocksExclusive'
  <2>1. \A r \in Sessions : txn'[r] = IF r = s THEN Idle ELSE txn[r]
    BY <1>a, <1>6 DEF TypeOK
  <2>2. QED
    BY <1>a, <2>1, IdleFields, LocksTaken
<1>7. ASSUME UNCHANGED txn
      PROVE  LocksExclusive'
  BY <1>a, <1>7 DEF LocksExclusive
<1>8. ASSUME NEW s \in Sessions,
             CommitCreate(s) \/ CommitReactivate(s) \/ CommitCancel(s)
                \/ Rollback(s) \/ \E n \in 0..MaxStock : CommitCount(s, n)
      PROVE  LocksExclusive'
  <2>1. txn' = [txn EXCEPT ![s] = Idle]
    BY <1>8 DEF CommitCreate, CommitReactivate, CommitCancel, Rollback,
       CommitCount
  <2>2. QED
    BY <1>6, <2>1
<1>9. ASSUME NEW o \in Orders, Event(o)
      PROVE  UNCHANGED txn
  BY <1>9, EventFrame DEF IInv
<1>10. UNCHANGED vars => UNCHANGED txn
  BY DEF vars
<1>11. QED
  BY <1>1, <1>2, <1>3, <1>4, <1>5, <1>7, <1>8, <1>9, <1>10, StepCases

\* What a session holds stays as it is while others step, unless they write
\* the orders it has locked or check out the cart it has locked.
LEMMA OthersHeld ==
    ASSUME TypeOK, NEW r \in Sessions, HeldRows(txn[r]), txn'[r] = txn[r],
           txn[r].op = "create" => txn[r].cart \notin checkedOut' \ checkedOut,
           \A x \in txn[r].targets :
              /\ status'[x] = status[x] /\ cartOf'[x] = cartOf[x]
              /\ x \in deleted' => x \in deleted
    PROVE  HeldRows(txn[r])'
  BY DEF HeldRows

\* A session that ends holds nothing.
LEMMA IdleHeld ==
    ASSUME NEW s, txn'[s] = Idle
    PROVE  HeldRows(txn[s])'
  BY IdleFields DEF HeldRows

\* The steps that only change what one session holds.
LEMMA SessionQuiet ==
    ASSUME TypeOK, SessionShape, NEW s \in Sessions,
           UNCHANGED <<stockVars, orderVars, payVars, historyVars>>,
           \A r \in Sessions \ {s} : txn'[r] = txn[r],
           HeldRows(txn[s])'
    PROVE  SessionShape'
<1>1. ASSUME NEW r \in Sessions \ {s}
      PROVE  HeldRows(txn[r])'
  BY <1>1, OthersHeld DEF SessionShape, orderVars
<1>2. QED
  BY <1>1 DEF SessionShape

LEMMA SessionStep == IInv /\ [Next]_vars => SessionShape'
<1> SUFFICES ASSUME IInv, [Next]_vars PROVE SessionShape'
  OBVIOUS
<1>a. TypeOK /\ LocksExclusive /\ SessionShape
  BY DEF IInv
<1>b. \A s \in Sessions : \A t : txn' = [txn EXCEPT ![s] = t] =>
         \A r \in Sessions : txn'[r] = IF r = s THEN t ELSE txn[r]
  BY <1>a DEF TypeOK
<1>c. ASSUME NEW r \in Sessions
      PROVE  txn[r].targets \subseteq Orders /\ HeldRows(txn[r])
  BY <1>a DEF TypeOK, Txn, SessionShape
<1>1. ASSUME NEW s \in Sessions, NEW o \in Orders, NEW c \in Carts,
             BeginCreate(s, o, c)
      PROVE  SessionShape'
  <2> DEFINE t == [Idle EXCEPT !.op = "create", !.targets = {o}, !.cart = c,
                               !.seen = SeenOf(Lines(c))]
  <2>1. /\ t.op = "create" /\ t.targets = {o} /\ t.rows = {} /\ t.cart = c
    BY DEF Idle
  <2>2. \A r \in Sessions : txn'[r] = IF r = s THEN t ELSE txn[r]
    BY <1>1, <1>b DEF BeginCreate
  <2>3. /\ UNCHANGED <<stockVars, orderVars, payVars, historyVars>>
        /\ c \notin checkedOut /\ status[o] = "none"
    BY <1>1 DEF BeginCreate
  <2> HIDE DEF t
  <2>4. HeldRows(txn[s])'
    BY <2>1, <2>2, <2>3 DEF HeldRows, orderVars
  <2>5. QED
    BY <1>a, <2>2, <2>3, <2>4, SessionQuiet
<1>2. ASSUME NEW s \in Sessions, NEW o \in Orders, BeginReactivate(s, o)
      PROVE  SessionShape'
  <2> DEFINE t == [Idle EXCEPT !.op = "reactivate", !.targets = {o},
                               !.cart = cartOf[o],
                               !.seen = SeenOf(Lines(cartOf[o]))]
  <2>1. /\ t.op = "reactivate" /\ t.targets = {o} /\ t.rows = {}
        /\ t.cart = cartOf[o]
    BY DEF Idle
  <2>2. \A r \in Sessions : txn'[r] = IF r = s THEN t ELSE txn[r]
    BY <1>2, <1>b DEF BeginReactivate
  <2>3. /\ UNCHANGED <<stockVars, orderVars, payVars, historyVars>>
        /\ status[o] = "cancelled" /\ o \notin deleted
    BY <1>2 DEF BeginReactivate, Reorderable
  <2>4. cartOf[o] \in Carts
    BY <1>a, <2>3 DEF IInv, OrderShape, TypeOK
  <2> HIDE DEF t
  <2>5. HeldRows(txn[s])'
    BY <2>1, <2>2, <2>3, <2>4 DEF HeldRows, orderVars
  <2>6. QED
    BY <1>a, <2>2, <2>3, <2>5, SessionQuiet
<1>3. ASSUME NEW s \in Sessions, NEW S \in SUBSET Orders,
             NEW D \in SUBSET Orders, BeginCancel(s, S, D), D \subseteq S,
             \A x \in S : status[x] \in {"pending", "processing", "shipped"}
      PROVE  SessionShape'
  <2> DEFINE t == [Idle EXCEPT !.op = "cancel", !.targets = S, !.drop = D,
                               !.read = Snapshot(ItemsOf(S)),
                               !.seen = SeenOf(ItemsOf(S))]
  <2>1. /\ t.op = "cancel" /\ t.targets = S /\ t.rows = {} /\ t.drop = D
    BY DEF Idle
  <2>2. \A r \in Sessions : txn'[r] = IF r = s THEN t ELSE txn[r]
    BY <1>3, <1>b DEF BeginCancel
  <2>3. UNCHANGED <<stockVars, orderVars, payVars, historyVars>>
    BY <1>3 DEF BeginCancel
  <2> HIDE DEF t
  <2>4. HeldRows(txn[s])'
    BY <1>3, <2>1, <2>2, <2>3 DEF HeldRows, orderVars
  <2>5. QED
    BY <1>a, <2>2, <2>3, <2>4, SessionQuiet
<1>4. ASSUME NEW s \in Sessions, NEW v \in Variants, BeginCount(s, v)
      PROVE  SessionShape'
  <2> DEFINE t == [Idle EXCEPT !.op = "count", !.rows = {v},
                               !.read = Snapshot({v}), !.seen = SeenOf({v})]
  <2>1. /\ t.op = "count" /\ t.targets = {} /\ t.rows = {v}
    BY DEF Idle
  <2>2. \A r \in Sessions : txn'[r] = IF r = s THEN t ELSE txn[r]
    BY <1>4, <1>b DEF BeginCount
  <2>3. UNCHANGED <<stockVars, orderVars, payVars, historyVars>>
    BY <1>4 DEF BeginCount
  <2> HIDE DEF t
  <2>4. HeldRows(txn[s])'
    BY <2>1, <2>2 DEF HeldRows
  <2>5. QED
    BY <1>a, <2>2, <2>3, <2>4, SessionQuiet
<1>5. ASSUME NEW s \in Sessions, LockStock(s)
      PROVE  SessionShape'
  <2> DEFINE c == txn[s].cart
             t == [txn[s] EXCEPT !.rows = Lines(c), !.read = Snapshot(Lines(c)),
                                 !.soldOut = SoldOutBy(c)]
  <2>1. txn[s] \in Txn
    BY <1>a DEF TypeOK
  <2>2. /\ t.op = txn[s].op /\ t.targets = txn[s].targets
        /\ t.rows = Lines(c) /\ t.cart = c /\ t.read = Snapshot(Lines(c))
    BY <2>1 DEF Txn
  <2>3. \A r \in Sessions : txn'[r] = IF r = s THEN t ELSE txn[r]
    BY <1>5, <1>b DEF LockStock
  <2>4. /\ UNCHANGED <<stockVars, orderVars, payVars, historyVars>>
        /\ txn[s].op \in {"create", "reactivate"}
        /\ \A v \in Lines(c) : CartItems[c][v] <= stock[v]
    BY <1>5 DEF LockStock, Enough
  <2>5. \A v \in Lines(c) : CartItems[c][v] <= Snapshot(Lines(c))[v]
    BY <2>4 DEF Snapshot, Lines
  <2> HIDE DEF t, c
  <2>6. HeldRows(txn[s])'
    BY <1>c, <2>2, <2>3, <2>4, <2>5 DEF HeldRows, orderVars, c
  <2>7. QED
    BY <1>a, <2>3, <2>4, <2>6, SessionQuiet
<1>6. ASSUME NEW s \in Sessions, CommitCreate(s)
      PROVE  SessionShape'
  <2>1. PICK o \in Orders :
           /\ txn[s].targets = {o}
           /\ status' = [status EXCEPT ![o] = "pending"]
           /\ cartOf' = [cartOf EXCEPT ![o] = txn[s].cart]
    BY <1>6, CommitTargets
  <2>2. /\ checkedOut' = checkedOut \union {txn[s].cart}
        /\ txn[s].op = "create" /\ UNCHANGED deleted
    BY <1>6 DEF CommitCreate, CheckOut
  <2>3. \A r \in Sessions : txn'[r] = IF r = s THEN Idle ELSE txn[r]
    BY <1>6, <1>b DEF CommitCreate
  <2>4. ASSUME NEW r \in Sessions \ {s}
        PROVE  HeldRows(txn[r])'
    <3>1. \A x \in txn[r].targets :
             /\ status'[x] = status[x] /\ cartOf'[x] = cartOf[x]
             /\ x \in deleted' => x \in deleted
      BY <1>a, <1>c, <2>1, <2>2 DEF LocksExclusive, TypeOK
    <3>2. txn[r].op = "create" => txn[r].cart \notin checkedOut' \ checkedOut
      BY <1>a, <2>2 DEF LocksExclusive
    <3>3. QED
      BY <1>a, <1>c, <2>3, <3>1, <3>2, OthersHeld
  <2>5. QED
    BY <2>3, <2>4, IdleHeld DEF SessionShape
<1>7. ASSUME NEW s \in Sessions, CommitReactivate(s)
      PROVE  SessionShape'
  <2>1. PICK o \in Orders :
           /\ txn[s].targets = {o}
           /\ status' = [status EXCEPT ![o] = "pending"]
    BY <1>7, CommitTargets
  <2>2. UNCHANGED <<cartOf, deleted, checkedOut>>
    BY <1>7 DEF CommitReactivate
  <2>3. \A r \in Sessions : txn'[r] = IF r = s THEN Idle ELSE txn[r]
    BY <1>7, <1>b DEF CommitReactivate
  <2>4. ASSUME NEW r \in Sessions \ {s}
        PROVE  HeldRows(txn[r])'
    <3>1. \A x \in txn[r].targets :
             /\ status'[x] = status[x] /\ cartOf'[x] = cartOf[x]
             /\ x \in deleted' => x \in deleted
      BY <1>a, <1>c, <2>1, <2>2 DEF LocksExclusive, TypeOK
    <3>2. QED
      BY <1>a, <1>c, <2>2, <2>3, <3>1, OthersHeld
  <2>5. QED
    BY <2>3, <2>4, IdleHeld DEF SessionShape
<1>8. ASSUME NEW s \in Sessions, CommitCancel(s)
      PROVE  SessionShape'
  <2>1. /\ status' = [o \in Orders |-> IF o \in txn[s].targets
                                       THEN "cancelled" ELSE status[o]]
        /\ deleted' = deleted \union txn[s].drop
        /\ txn[s].drop \subseteq txn[s].targets
        /\ UNCHANGED <<cartOf, checkedOut>>
    BY <1>8, CommitTargets DEF CommitCancel
  <2>2. \A r \in Sessions : txn'[r] = IF r = s THEN Idle ELSE txn[r]
    BY <1>8, <1>b DEF CommitCancel
  <2>3. ASSUME NEW r \in Sessions \ {s}
        PROVE  HeldRows(txn[r])'
    <3>1. \A x \in txn[r].targets : x \in Orders /\ x \notin txn[s].targets
      BY <1>a, <1>c DEF LocksExclusive
    <3>2. \A x \in txn[r].targets :
             /\ status'[x] = status[x] /\ cartOf'[x] = cartOf[x]
             /\ x \in deleted' => x \in deleted
      BY <2>1, <3>1
    <3>3. QED
      BY <1>a, <1>c, <2>1, <2>2, <3>2, OthersHeld
  <2>4. QED
    BY <2>2, <2>3, IdleHeld DEF SessionShape
<1>9. ASSUME NEW s \in Sessions,
             Rollback(s) \/ \E n \in 0..MaxStock : CommitCount(s, n)
      PROVE  SessionShape'
  <2>1. UNCHANGED orderVars /\ txn' = [txn EXCEPT ![s] = Idle]
    BY <1>9 DEF CommitCount, Rollback
  <2>2. \A r \in Sessions : txn'[r] = IF r = s THEN Idle ELSE txn[r]
    BY <1>b, <2>1
  <2>3. ASSUME NEW r \in Sessions \ {s}
        PROVE  HeldRows(txn[r])'
    BY <1>a, <1>c, <2>1, <2>2, OthersHeld DEF orderVars
  <2>4. QED
    BY <2>2, <2>3, IdleHeld DEF SessionShape
<1>10. ASSUME NEW o \in Orders, Event(o)
       PROVE  SessionShape'
  <2>1. /\ UNCHANGED <<txn, cartOf, checkedOut>>
        /\ \/ OrderFree(o) /\ \E new \in OrderStatus :
                                status' = [status EXCEPT ![o] = new]
           \/ UNCHANGED status
        /\ \/ OrderFree(o) /\ deleted' = deleted \union {o}
           \/ UNCHANGED deleted
    BY <1>10, EventFrame DEF IInv
  <2>2. ASSUME NEW r \in Sessions
        PROVE  HeldRows(txn[r])'
    <3>1. \A x \in txn[r].targets :
             /\ status'[x] = status[x]
             /\ x \in deleted' => x \in deleted
      BY <1>a, <1>c, <2>1 DEF OrderFree, TypeOK
    <3>2. QED
      BY <1>a, <1>c, <2>1, <3>1, OthersHeld
  <2>3. QED
    BY <2>2 DEF SessionShape
<1>11. ASSUME UNCHANGED vars
       PROVE  SessionShape'
  <2>1. UNCHANGED <<txn, status, cartOf, deleted, checkedOut>>
    BY <1>11 DEF vars, orderVars
  <2>2. ASSUME NEW r \in Sessions
        PROVE  HeldRows(txn[r])'
    BY <1>a, <1>c, <2>1, OthersHeld
  <2>3. QED
    BY <2>2 DEF SessionShape
<1>12. QED
  BY <1>1, <1>2, <1>3, <1>4, <1>5, <1>6, <1>7, <1>8, <1>9, <1>10, <1>11,
     StepCases

LEMMA ReadStep == IInv /\ [Next]_vars => LockedReadIsCurrent'
<1> SUFFICES ASSUME IInv, [Next]_vars PROVE LockedReadIsCurrent'
  OBVIOUS
<1>a. TypeOK /\ LocksExclusive /\ LockedReadIsCurrent
  BY DEF IInv
<1>b. \A s \in Sessions : \A t : txn' = [txn EXCEPT ![s] = t] =>
         \A r \in Sessions : txn'[r] = IF r = s THEN t ELSE txn[r]
  BY <1>a DEF TypeOK
<1>c. \A r \in Sessions : txn[r] \in Txn /\ txn[r].rows \subseteq Variants
  BY <1>a DEF TypeOK, Txn
<1>1. ASSUME NEW s \in Sessions, UNCHANGED stock,
             \A r \in Sessions \ {s} : txn'[r] = txn[r],
             \A v \in txn'[s].rows : txn'[s].read[v] = stock[v]
      PROVE  LockedReadIsCurrent'
  BY <1>a, <1>1 DEF LockedReadIsCurrent
<1>2. ASSUME NEW s \in Sessions,
             \A r \in Sessions : txn'[r] = IF r = s THEN Idle ELSE txn[r],
             \A r \in Sessions \ {s} : \A v \in txn[r].rows :
                stock'[v] = stock[v]
      PROVE  LockedReadIsCurrent'
  BY <1>a, <1>2, IdleFields DEF LockedReadIsCurrent
<1>3. ASSUME NEW s \in Sessions, UNCHANGED stock, txn'[s].rows = {},
             \A r \in Sessions \ {s} : txn'[r] = txn[r]
      PROVE  LockedReadIsCurrent'
  BY <1>1, <1>3
<1>4. ASSUME NEW s \in Sessions, NEW o \in Orders, NEW c \in Carts,
             BeginCreate(s, o, c)
      PROVE  LockedReadIsCurrent'
  <2>1. txn'[s].rows = {}
    <3> DEFINE t == [Idle EXCEPT !.op = "create", !.targets = {o}, !.cart = c,
                                 !.seen = SeenOf(Lines(c))]
    <3>1. t.rows = {}
      BY DEF Idle
    <3>2. txn'[s] = t
      BY <1>a, <1>4 DEF BeginCreate, TypeOK
    <3> HIDE DEF t
    <3>3. QED
      BY <3>1, <3>2
  <2>2. UNCHANGED stock /\ \A r \in Sessions \ {s} : txn'[r] = txn[r]
    BY <1>4, <1>b DEF BeginCreate, stockVars
  <2>3. QED
    BY <1>3, <2>1, <2>2
<1>5. ASSUME NEW s \in Sessions, NEW o \in Orders, BeginReactivate(s, o)
      PROVE  LockedReadIsCurrent'
  <2>1. txn'[s].rows = {}
    <3> DEFINE t == [Idle EXCEPT !.op = "reactivate", !.targets = {o},
                                 !.cart = cartOf[o],
                                 !.seen = SeenOf(Lines(cartOf[o]))]
    <3>1. t.rows = {}
      BY DEF Idle
    <3>2. txn'[s] = t
      BY <1>a, <1>5 DEF BeginReactivate, TypeOK
    <3> HIDE DEF t
    <3>3. QED
      BY <3>1, <3>2
  <2>2. UNCHANGED stock /\ \A r \in Sessions \ {s} : txn'[r] = txn[r]
    BY <1>5, <1>b DEF BeginReactivate, stockVars
  <2>3. QED
    BY <1>3, <2>1, <2>2
<1>6. ASSUME NEW s \in Sessions, NEW S \in SUBSET Orders,
             NEW D \in SUBSET Orders, BeginCancel(s, S, D)
      PROVE  LockedReadIsCurrent'
  <2>1. txn'[s].rows = {}
    <3> DEFINE t == [Idle EXCEPT !.op = "cancel", !.targets = S, !.drop = D,
                                 !.read = Snapshot(ItemsOf(S)),
                                 !.seen = SeenOf(ItemsOf(S))]
    <3>1. t.rows = {}
      BY DEF Idle
    <3>2. txn'[s] = t
      BY <1>a, <1>6 DEF BeginCancel, TypeOK
    <3> HIDE DEF t
    <3>3. QED
      BY <3>1, <3>2
  <2>2. UNCHANGED stock /\ \A r \in Sessions \ {s} : txn'[r] = txn[r]
    BY <1>6, <1>b DEF BeginCancel, stockVars
  <2>3. QED
    BY <1>3, <2>1, <2>2
<1>7. ASSUME NEW s \in Sessions, NEW v \in Variants, BeginCount(s, v)
      PROVE  LockedReadIsCurrent'
  <2>1. txn'[s].rows = {v} /\ txn'[s].read = Snapshot({v})
    <3> DEFINE t == [Idle EXCEPT !.op = "count", !.rows = {v},
                                 !.read = Snapshot({v}), !.seen = SeenOf({v})]
    <3>1. t.rows = {v} /\ t.read = Snapshot({v})
      BY DEF Idle
    <3>2. txn'[s] = t
      BY <1>a, <1>7 DEF BeginCount, TypeOK
    <3> HIDE DEF t
    <3>3. QED
      BY <3>1, <3>2
  <2>2. Snapshot({v})[v] = stock[v]
    BY DEF Snapshot
  <2>3. UNCHANGED stock /\ \A r \in Sessions \ {s} : txn'[r] = txn[r]
    BY <1>7, <1>b DEF BeginCount, stockVars
  <2>4. QED
    BY <1>1, <2>1, <2>2, <2>3
<1>8. ASSUME NEW s \in Sessions, LockStock(s)
      PROVE  LockedReadIsCurrent'
  <2> DEFINE L == Lines(txn[s].cart)
  <2>1. txn'[s].rows = L /\ txn'[s].read = Snapshot(L)
    <3> DEFINE t == [txn[s] EXCEPT !.rows = L, !.read = Snapshot(L),
                                   !.soldOut = SoldOutBy(txn[s].cart)]
    <3>1. t.rows = L /\ t.read = Snapshot(L)
      BY <1>c DEF Txn
    <3>2. txn'[s] = t
      BY <1>a, <1>8 DEF LockStock, TypeOK
    <3> HIDE DEF t
    <3>3. QED
      BY <3>1, <3>2
  <2>2. \A v \in L : Snapshot(L)[v] = stock[v]
    BY DEF Snapshot, Lines
  <2>3. UNCHANGED stock /\ \A r \in Sessions \ {s} : txn'[r] = txn[r]
    BY <1>8, <1>b DEF LockStock, stockVars
  <2>4. QED
    BY <1>1, <2>1, <2>2, <2>3
<1>9. ASSUME NEW s \in Sessions, CommitCreate(s) \/ CommitReactivate(s)
      PROVE  LockedReadIsCurrent'
  <2>1. \A r \in Sessions : txn'[r] = IF r = s THEN Idle ELSE txn[r]
    BY <1>9, <1>b DEF CommitCreate, CommitReactivate
  <2>2. \A v \in Variants \ txn[s].rows : stock'[v] = stock[v]
    BY <1>9 DEF CommitCreate, CommitReactivate, TakeStock
  <2>3. \A r \in Sessions \ {s} : \A v \in txn[r].rows : stock'[v] = stock[v]
    BY <1>a, <1>c, <2>2 DEF LocksExclusive
  <2>4. QED
    BY <1>2, <2>1, <2>3
<1>10. ASSUME NEW s \in Sessions, CommitCancel(s)
       PROVE  LockedReadIsCurrent'
  <2>1. \A r \in Sessions : txn'[r] = IF r = s THEN Idle ELSE txn[r]
    BY <1>10, <1>b DEF CommitCancel
  <2>2. \A r \in Sessions : \A v \in txn[r].rows : stock'[v] = stock[v]
    BY <1>10, <1>c DEF CommitCancel, RowFree
  <2>3. QED
    BY <1>2, <2>1, <2>2
<1>11. ASSUME NEW s \in Sessions, NEW n \in 0..MaxStock, CommitCount(s, n)
       PROVE  LockedReadIsCurrent'
  <2>1. \A r \in Sessions : txn'[r] = IF r = s THEN Idle ELSE txn[r]
    BY <1>11, <1>b DEF CommitCount
  <2>2. PICK v \in txn[s].rows : stock' = [stock EXCEPT ![v] = n]
    BY <1>11 DEF CommitCount
  <2>3. \A r \in Sessions \ {s} : \A w \in txn[r].rows : w # v /\ w \in Variants
    BY <1>a, <1>c, <2>2 DEF LocksExclusive
  <2>4. \A r \in Sessions \ {s} : \A w \in txn[r].rows : stock'[w] = stock[w]
    BY <1>a, <2>2, <2>3 DEF TypeOK
  <2>5. QED
    BY <1>2, <2>1, <2>4
<1>12. ASSUME NEW s \in Sessions, Rollback(s)
       PROVE  LockedReadIsCurrent'
  <2>1. \A r \in Sessions : txn'[r] = IF r = s THEN Idle ELSE txn[r]
    BY <1>12, <1>b DEF Rollback
  <2>2. QED
    BY <1>2, <1>12, <2>1 DEF Rollback, stockVars
<1>13. ASSUME UNCHANGED <<stock, txn>>
       PROVE  LockedReadIsCurrent'
  BY <1>a, <1>13 DEF LockedReadIsCurrent
<1>14. ASSUME NEW o \in Orders, Event(o)
       PROVE  UNCHANGED <<stock, txn>>
  BY <1>14, EventFrame DEF IInv, stockVars
<1>15. UNCHANGED vars => UNCHANGED <<stock, txn>>
  BY DEF vars, stockVars
<1>16. QED
  BY <1>4, <1>5, <1>6, <1>7, <1>8, <1>9, <1>10, <1>11, <1>12, <1>13, <1>14,
     <1>15, StepCases

\* Taking stock lowers every row by the cart's line, if any.
LEMMA TakeStockTakes ==
    ASSUME IInv, NEW s \in Sessions, TakeStock(s),
           txn[s].cart \in Carts, txn[s].rows = Lines(txn[s].cart)
    PROVE  \A v \in Variants : stock'[v] = stock[v] - CartItems[txn[s].cart][v]
<1>1. ASSUME NEW v \in Lines(txn[s].cart)
      PROVE  txn[s].read[v] = stock[v]
  BY <1>1 DEF IInv, LockedReadIsCurrent
<1>2. ASSUME NEW v \in Variants \ Lines(txn[s].cart)
      PROVE  CartItems[txn[s].cart][v] = 0
  BY <1>2 DEF Lines
<1>3. stock \in [Variants -> Nat]
  BY DEF IInv, TypeOK
<1>4. ASSUME NEW v \in Variants
      PROVE  stock'[v] = stock[v] - CartItems[txn[s].cart][v]
  <2>1. CASE v \in Lines(txn[s].cart)
    BY <1>1, <2>1 DEF TakeStock
  <2>2. CASE v \notin Lines(txn[s].cart)
    BY <1>2, <1>3, <2>2 DEF TakeStock
  <2>3. QED
    BY <2>1, <2>2
<1>5. QED
  BY <1>4

\* One more order reserves the items of cart c, taken out of the stock.
LEMMA ConserveTake ==
    ASSUME IInv, NEW o \in Orders, o \notin Reserving,
           Reserving' = Reserving \cup {o}, NEW c \in Carts,
           \A v \in Variants : stock'[v] = stock[v] - CartItems[c][v],
           \A v \in Variants : Demand(v)' \in [Orders -> Nat],
           \A v \in Variants : Demand(v)'[o] = CartItems[c][v],
           \A v \in Variants : \A x \in Reserving : Demand(v)'[x] = Demand(v)[x],
           UNCHANGED <<supply, lost, surplus>>
    PROVE  StockConserved'
<1>1. ASSUME NEW v \in Variants \ (lost \union surplus)
      PROVE  stock'[v] + Total(Demand(v)', Reserving') = supply[v]
  <2> DEFINE d == Demand(v)
             e == Demand(v)'
             R == Reserving
  <2>1. /\ stock[v] + Total(d, R) = supply[v]
        /\ stock[v] \in Nat /\ CartItems[c][v] \in Nat
    BY DEF IInv, StockConserved, TypeOK
  <2>2. R \subseteq Orders
    BY DEF Reserving
  <2>3. IsFiniteSet(R) /\ Total(d, R) \in Nat
    BY <2>2, DemandTotal DEF IInv
  <2>4. Total(e, R) = Total(d, R)
    BY TotalAgree
  <2>5. \A y \in R \cup {o} : e[y] \in Nat
    BY <2>2
  <2>6. e[o] = CartItems[c][v]
    OBVIOUS
  <2>a. o \notin R
    OBVIOUS
  <2> HIDE DEF d, e, R
  <2>7. Total(e, R \cup {o}) = Total(e, R) + e[o]
    <3>a. IsFiniteSet({o})
      BY FS_Singleton
    <3>1. IsFiniteSet({o}) /\ R \cap {o} = {}
      BY <2>a, <3>a
    <3>2. Total(e, R \cup {o}) = Total(e, R) + Total(e, {o})
      BY <2>3, <2>5, <3>1, TotalUnion
    <3>3. Total(e, {o}) = e[o]
      BY <2>5, TotalSingleton
    <3>4. QED
      BY <3>2, <3>3
  <2>8. stock'[v] = stock[v] - CartItems[c][v]
    OBVIOUS
  <2>9. stock'[v] + Total(e, R \cup {o}) = supply[v]
    BY <2>1, <2>3, <2>4, <2>6, <2>7, <2>8
  <2>10. QED
    BY <2>9 DEF e, R
<1>2. QED
  BY <1>1 DEF StockConserved

LEMMA ConserveStep == IInv /\ [Next]_vars => StockConserved'
<1> SUFFICES ASSUME IInv, [Next]_vars PROVE StockConserved'
  OBVIOUS
<1>a. TypeOK /\ OrderShape /\ StockConserved
  BY DEF IInv
<1>b. UNCHANGED cartOf => \A v \in Variants : Demand(v)' = Demand(v)
  BY DEF Demand
<1>1. ASSUME UNCHANGED <<stock, cartOf, supply, lost, surplus>>,
             Reserving' = Reserving
      PROVE  StockConserved'
  BY <1>a, <1>b, <1>1 DEF StockConserved
<1>2. ASSUME UNCHANGED <<stockVars, orderVars, payVars, historyVars>>
      PROVE  StockConserved'
  <2>1. UNCHANGED <<stock, cartOf, supply, lost, surplus, status, revived>>
    BY <1>2 DEF stockVars, orderVars, historyVars
  <2>2. Reserving' = Reserving
    BY <2>1 DEF Reserving
  <2>3. QED
    BY <1>1, <2>1, <2>2
<1>3. ASSUME NEW s \in Sessions, CommitCreate(s)
      PROVE  StockConserved'
  <2>1. PICK o \in Orders :
           /\ status[o] = "none" /\ txn[s].cart \in Carts
           /\ txn[s].rows = Lines(txn[s].cart)
           /\ status' = [status EXCEPT ![o] = "pending"]
           /\ cartOf' = [cartOf EXCEPT ![o] = txn[s].cart]
    BY <1>3, CommitTargets
  <2> DEFINE c == txn[s].cart
  <2>2. TakeStock(s) /\ UNCHANGED <<supply, lost, surplus, revived>>
    BY <1>3 DEF CommitCreate, historyVars
  <2>3. \A v \in Variants : stock'[v] = stock[v] - CartItems[c][v]
    BY <2>1, <2>2, TakeStockTakes
  <2>4. o \notin Reserving /\ o \notin revived
    BY <1>a, <2>1 DEF Reserving, OrderShape
  <2>5. Reserving' = Reserving \cup {o}
    BY <1>a, <2>1, <2>2, <2>4 DEF Reserving, TypeOK
  <2>6. \A x \in Orders : cartOf'[x] = IF x = o THEN c ELSE cartOf[x]
    BY <1>a, <2>1 DEF TypeOK
  <2>7. \A v \in Variants : Demand(v)'[o] = CartItems[c][v]
    BY <2>1, <2>6 DEF Demand
  <2>8. \A v \in Variants : \A x \in Reserving : Demand(v)'[x] = Demand(v)[x]
    BY <2>4, <2>6 DEF Demand, Reserving
  <2>9. \A v \in Variants : Demand(v)' \in [Orders -> Nat]
    BY DEF Demand
  <2>10. QED
    BY <2>1, <2>2, <2>3, <2>4, <2>5, <2>7, <2>8, <2>9, ConserveTake
<1>4. ASSUME NEW s \in Sessions, CommitReactivate(s)
      PROVE  StockConserved'
  <2>1. PICK o \in Orders :
           /\ status[o] = "cancelled" /\ txn[s].cart = cartOf[o]
           /\ txn[s].cart \in Carts /\ txn[s].rows = Lines(txn[s].cart)
           /\ status' = [status EXCEPT ![o] = "pending"]
    BY <1>4, CommitTargets
  <2> DEFINE c == txn[s].cart
  <2>2. TakeStock(s) /\ UNCHANGED <<cartOf, supply, lost, surplus, revived>>
    BY <1>4 DEF CommitReactivate, historyVars
  <2>3. \A v \in Variants : stock'[v] = stock[v] - CartItems[c][v]
    BY <2>1, <2>2, TakeStockTakes
  <2>4. o \notin Reserving /\ o \notin revived
    BY <1>a, <2>1 DEF Reserving, OrderShape
  <2>5. Reserving' = Reserving \cup {o}
    BY <1>a, <2>1, <2>2, <2>4 DEF Reserving, TypeOK
  <2>6. \A v \in Variants : Demand(v)'[o] = CartItems[c][v]
    BY <2>1, <2>2 DEF Demand
  <2>7. \A v \in Variants : \A x \in Reserving : Demand(v)'[x] = Demand(v)[x]
    BY <1>b, <2>2
  <2>8. \A v \in Variants : Demand(v)' \in [Orders -> Nat]
    BY DEF Demand
  <2>9. QED
    BY <2>1, <2>2, <2>3, <2>4, <2>5, <2>6, <2>7, <2>8, ConserveTake
<1>5. ASSUME NEW s \in Sessions, CommitCancel(s)
      PROVE  StockConserved'
  <2> DEFINE S == txn[s].targets
             R == Reserving
  <2>1. /\ S \subseteq Orders
        /\ \A x \in S : status[x] \in {"pending", "processing", "shipped"}
    BY <1>5, CommitTargets
  <2>2. /\ status' = [o \in Orders |-> IF o \in S THEN "cancelled"
                                       ELSE status[o]]
        /\ lost' = lost \union {v \in ItemsOf(S) : txn[s].read[v] # stock[v]}
        /\ surplus' = surplus \union ItemsOf(S \intersect revived)
        /\ revived' = revived \ S
        /\ UNCHANGED <<cartOf, supply>>
        /\ \A v \in Variants :
              stock'[v] = IF v \in ItemsOf(S)
                          THEN txn[s].read[v] + Total(Demand(v), S)
                          ELSE stock[v]
    BY <1>5 DEF CommitCancel
  <2>3. Reserving' = R \ S
    BY <2>1, <2>2 DEF Reserving
  <2>4. S = (S \cap R) \cup (S \cap revived) /\ R \ S = R \ (S \cap R)
    BY <2>1 DEF Reserving
  <2>5. (S \cap R) \cap (S \cap revived) = {} /\ R \subseteq Orders
    BY DEF Reserving
  <2> HIDE DEF S, R
  <2>6. ASSUME NEW v \in Variants \ (lost' \union surplus')
        PROVE  stock'[v] + Total(Demand(v), R \ S) = supply[v]
    <3> DEFINE d == Demand(v)
               A == S \cap R
               B == S \cap revived
    <3>1. /\ d \in [Orders -> Nat] /\ Total(d, R) \in Nat
          /\ IsFiniteSet(R) /\ IsFiniteSet(A) /\ IsFiniteSet(B)
          /\ Total(d, A) \in Nat
      BY <1>a, <2>1, <2>5, DemandTotal
    <3>2. stock[v] + Total(d, R) = supply[v] /\ stock[v] \in Nat
      BY <1>a, <2>2, <2>6 DEF StockConserved, R, TypeOK
    <3>3. \A x \in B : d[x] = 0
      <4>1. v \notin ItemsOf(B)
        BY <2>2, <2>6
      <4>2. \A x \in B : d[x] \in Nat
        BY <2>1, <3>1
      <4>3. QED
        BY <4>1, <4>2 DEF ItemsOf
    <3>4. Total(d, B) = 0
      BY <3>3, TotalZero
    <3>a. /\ \A x \in A \cup B : d[x] \in Nat
          /\ \A x \in R : d[x] \in Nat
          /\ A \cap B = {} /\ A \in SUBSET R /\ S = A \cup B
          /\ R \ S = R \ A
      BY <2>1, <2>4, <2>5, <3>1
    <3> HIDE DEF d, A, B
    <3>5. Total(d, A \cup B) = Total(d, A) + Total(d, B)
      BY <3>1, <3>a, TotalUnion
    <3>6. Total(d, S) = Total(d, A)
      BY <3>1, <3>4, <3>5, <3>a
    <3>7. Total(d, R \ A) = Total(d, R) - Total(d, A)
      BY <3>1, <3>a, TotalDifference
    <3>8. stock'[v] = stock[v] + Total(d, S)
      <4>1. CASE v \in ItemsOf(S)
        BY <2>2, <2>6, <4>1 DEF d
      <4>2. CASE v \notin ItemsOf(S)
        <5>1. \A x \in S : d[x] = 0
          BY <2>1, <3>1, <4>2 DEF ItemsOf, d
        <5>2. Total(d, S) = 0
          BY <5>1, TotalZero
        <5>3. QED
          BY <2>2, <3>2, <4>2, <5>2
      <4>3. QED
        BY <4>1, <4>2
    <3>9. stock'[v] + Total(d, R \ S) = supply[v]
      <4>1. /\ Total(d, R \ S) = Total(d, R) - Total(d, A)
            /\ stock'[v] = stock[v] + Total(d, A)
        BY <3>6, <3>7, <3>8, <3>a
      <4>2. QED
        BY <3>1, <3>2, <4>1
    <3>10. QED
      BY <3>9 DEF d
  <2>7. QED
    BY <1>b, <2>2, <2>3, <2>6 DEF StockConserved
<1>6. ASSUME NEW s \in Sessions, NEW n \in 0..MaxStock, CommitCount(s, n)
      PROVE  StockConserved'
  <2>1. PICK v \in txn[s].rows :
          /\ stock' = [stock EXCEPT ![v] = n]
          /\ supply' = [supply EXCEPT ![v] = n + Total(Demand(v), Reserving)]
          /\ lost' = lost \ {v}
          /\ surplus' = surplus \ {v}
    BY <1>6 DEF CommitCount
  <2>2. UNCHANGED <<status, cartOf, revived>> /\ v \in Variants
    BY <1>6, <1>a, <2>1 DEF CommitCount, orderVars, TypeOK, Txn
  <2>3. Reserving' = Reserving
    BY <2>2 DEF Reserving
  <2>4. \A w \in Variants :
           /\ stock'[w] = IF w = v THEN n ELSE stock[w]
           /\ supply'[w] = IF w = v THEN n + Total(Demand(v), Reserving)
                                    ELSE supply[w]
    BY <1>a, <2>1, <2>2 DEF TypeOK
  <2>5. ASSUME NEW w \in Variants \ (lost' \union surplus')
        PROVE  stock'[w] + Total(Demand(w), Reserving) = supply'[w]
    <3>1. CASE w = v
      BY <2>4, <3>1
    <3>2. CASE w # v
      BY <1>a, <2>1, <2>4, <2>5, <3>2 DEF StockConserved
    <3>3. QED
      BY <3>1, <3>2
  <2>6. QED
    BY <1>b, <2>2, <2>3, <2>5 DEF StockConserved
<1>7. ASSUME NEW o \in Orders, Event(o)
      PROVE  StockConserved'
  <2>1. UNCHANGED <<stock, cartOf, supply, lost, surplus>>
    BY <1>7, <1>a, EventFrame DEF stockVars
  <2>2. CASE UNCHANGED <<status, revived>>
    BY <1>1, <2>1, <2>2 DEF Reserving
  <2>3. CASE \E new \in OrderStatus : ToggleStatus(o, new)
    <3>1. PICK new \in OrderStatus : ToggleStatus(o, new)
      BY <2>3
    <3>2. /\ status' = [status EXCEPT ![o] = new] /\ UNCHANGED revived
          /\ status[o] \notin {"none", "cancelled"}
          /\ new \notin {"none", "cancelled"}
      BY <3>1 DEF ToggleStatus, historyVars, OrderStatus
    <3>3. \A x \in Orders : status'[x] = IF x = o THEN new ELSE status[x]
      BY <1>a, <3>2 DEF TypeOK
    <3>4. Reserving' = Reserving
      BY <3>2, <3>3 DEF Reserving
    <3>5. QED
      BY <1>1, <2>1, <3>4
  <2>4. ASSUME NEW new \in {"pending", "processing"}, ForceStatus(o, new),
               status[o] # "none"
        PROVE  StockConserved'
    <3>2. /\ status' = [status EXCEPT ![o] = new]
          /\ revived' = IF status[o] = "cancelled" THEN revived \union {o}
                        ELSE revived
      BY <2>4 DEF ForceStatus
    <3>3. \A x \in Orders : status'[x] = IF x = o THEN new ELSE status[x]
      BY <1>a, <3>2 DEF TypeOK
    <3>4. Reserving' = Reserving
      BY <2>4, <3>2, <3>3 DEF Reserving
    <3>5. QED
      BY <1>1, <2>1, <3>4
  <2>5. CASE DeleteOrder(o) \/ Expire(o) \/ PaymentOnly
    BY <2>2, <2>5 DEF DeleteOrder, Expire, PaymentOnly, orderVars,
       historyVars
  <2>6. QED
    BY <1>7, <1>a, <2>3, <2>4, <2>5, EventCases
<1>8. QED
  BY <1>2, <1>3, <1>4, <1>5, <1>6, <1>7, WritingSteps

-----------------------------------------------------------------------------
\* The inductive invariant holds in every reachable state.
THEOREM Invariance == Spec => []IInv
<1>1. Init => IInv
  BY InitIInv
<1>2. IInv /\ [Next]_vars => IInv'
  BY TypeStep, ShapeStep, SessionStep, LocksStep, ReadStep, ConserveStep,
     CartStep DEF IInv
<1>3. QED
  BY <1>1, <1>2, PTL DEF Spec

\* Every value the handlers write is one its column can hold; in particular
\* no concurrent order drives stock_quantity below zero (the CHECK of
\* models.py is never what stops it).
THEOREM TypeCorrect == Spec => []TypeOK
<1>1. IInv => TypeOK
  BY DEF IInv
<1>2. QED
  BY <1>1, Invariance, PTL

\* The SELECT ... FOR UPDATE of create_orders, reactivate_order and
\* inventory.update protects what it reads until the transaction ends, even
\* from restore_inventory, which reads without a lock.
THEOREM LockedReads == Spec => []LockedReadIsCurrent
<1>1. IInv => LockedReadIsCurrent
  BY DEF IInv
<1>2. QED
  BY <1>1, Invariance, PTL

\* Stock is conserved by any number of concurrent orders, cancellations,
\* sweeps and counts, except on the rows that a stale write or a second
\* give-back has hit.
THEOREM StockConservation == Spec => []StockConserved
<1>1. IInv => StockConserved
  BY DEF IInv
<1>2. QED
  BY <1>1, Invariance, PTL

\* A cart becomes at most one order, whatever requests race for it.
THEOREM OneOrder == Spec => []OneOrderPerCart
<1>1. IInv => OneOrderPerCart
  BY DEF IInv
<1>2. QED
  BY <1>1, Invariance, PTL

\* Soft-deleting an order that holds no stock is final for the stock: no
\* session, payment event or re-order takes stock for it again.
THEOREM DeletedReleased == Spec => DeletedStaysReleased
<1>1. IInv /\ [Next]_vars
         => [\A o \in deleted \ Reserving : o \notin Reserving']_vars
  <2> SUFFICES ASSUME IInv, [Next]_vars,
                      NEW o \in deleted, o \notin Reserving
               PROVE  o \notin Reserving'
    OBVIOUS
  <2>a. TypeOK /\ OrderShape /\ o \in Orders
    BY DEF IInv, TypeOK
  <2>b. status[o] \in {"none", "cancelled"} \/ o \in revived
    BY <2>a DEF Reserving
  <2>c. status[o] # "none"
    BY <2>a DEF OrderShape
  <2>1. CASE UNCHANGED <<stockVars, orderVars, payVars, historyVars>>
    BY <2>1 DEF orderVars, historyVars, Reserving
  <2>2. ASSUME NEW s \in Sessions, CommitCreate(s)
        PROVE  o \notin Reserving'
    <3>1. PICK x \in Orders : /\ status[x] = "none"
                              /\ status' = [status EXCEPT ![x] = "pending"]
      BY <2>2, CommitTargets
    <3>2. status'[o] = status[o] /\ UNCHANGED revived
      BY <2>2, <2>a, <2>c, <3>1 DEF CommitCreate, historyVars, TypeOK
    <3>3. QED
      BY <2>b, <3>2 DEF Reserving
  <2>3. ASSUME NEW s \in Sessions, CommitReactivate(s)
        PROVE  o \notin Reserving'
    <3>1. PICK x \in Orders : /\ x \notin deleted
                              /\ status' = [status EXCEPT ![x] = "pending"]
      BY <2>3, CommitTargets
    <3>2. status'[o] = status[o] /\ UNCHANGED revived
      BY <2>3, <2>a, <3>1 DEF CommitReactivate, historyVars, TypeOK
    <3>3. QED
      BY <2>b, <3>2 DEF Reserving
  <2>4. ASSUME NEW s \in Sessions, CommitCancel(s)
        PROVE  o \notin Reserving'
    <3>1. /\ status'[o] = IF o \in txn[s].targets THEN "cancelled"
                          ELSE status[o]
          /\ revived' = revived \ txn[s].targets
      BY <2>4, <2>a DEF CommitCancel
    <3>2. QED
      BY <2>b, <3>1 DEF Reserving
  <2>5. ASSUME NEW s \in Sessions, NEW n \in 0..MaxStock, CommitCount(s, n)
        PROVE  o \notin Reserving'
    BY <2>5 DEF CommitCount, orderVars, Reserving
  <2>6. ASSUME NEW x \in Orders, Event(x)
        PROVE  o \notin Reserving'
    <3>1. CASE UNCHANGED <<status, revived>>
      BY <3>1 DEF Reserving
    <3>2. CASE \E new \in OrderStatus : ToggleStatus(x, new)
      <4>1. /\ UNCHANGED revived
            /\ status[x] \notin {"none", "cancelled"}
            /\ \E new \in OrderStatus : status' = [status EXCEPT ![x] = new]
        BY <3>2 DEF ToggleStatus, historyVars
      <4>2. o # x => status'[o] = status[o]
        BY <2>a, <4>1 DEF TypeOK
      <4>3. QED
        BY <2>b, <4>1, <4>2 DEF Reserving
    <3>3. ASSUME NEW new \in OrderStatus, ForceStatus(x, new)
          PROVE  o \notin Reserving'
      <4>1. /\ o # x => status'[o] = status[o]
            /\ revived \subseteq revived'
            /\ status[x] = "cancelled" => x \in revived'
        BY <2>a, <3>3 DEF ForceStatus, TypeOK
      <4>2. QED
        BY <2>b, <2>c, <4>1 DEF Reserving
    <3>4. CASE DeleteOrder(x) \/ Expire(x) \/ PaymentOnly
      BY <3>1, <3>4 DEF DeleteOrder, Expire, PaymentOnly, orderVars,
         historyVars
    <3>5. QED
      BY <2>6, <2>a, <3>2, <3>3, <3>4, EventCases DEF OrderStatus
  <2>7. QED
    BY <2>1, <2>2, <2>3, <2>4, <2>5, <2>6, WritingSteps
<1>2. QED
  BY <1>1, Invariance, PTL DEF Spec, DeletedStaysReleased

-----------------------------------------------------------------------------
(* One session.  What it has read of the products, and what it has found   *)
(* out about those it empties, is still so when it commits.                *)
ListedInv ==
    /\ \A v \in Variants : stock[v] > 0 => ProductOf[v] \in listed
    /\ \A s \in Sessions :
          /\ txn[s].seen \subseteq listed
          /\ txn[s].op \in {"create", "reactivate"} /\ txn[s].rows # {}
                => txn[s].soldOut = SoldOutBy(txn[s].cart)

\* A session ends, and with it what it has read.
LEMMA ListedIdle ==
    ASSUME TypeOK, NEW s, Sessions = {s}, txn' = [txn EXCEPT ![s] = Idle],
           \A v \in Variants : stock'[v] > 0 => ProductOf[v] \in listed'
    PROVE  ListedInv'
<1>1. txn'[s] = Idle
  BY DEF TypeOK
<1>2. txn'[s].seen = {} /\ txn'[s].op = "idle"
  BY <1>1 DEF Idle
<1> QED  BY <1>2 DEF ListedInv

\* A session reads, and the stock stays as it is.
LEMMA ListedReads ==
    ASSUME ListedInv, NEW s, Sessions = {s}, UNCHANGED stockVars,
           txn'[s].seen \subseteq listed,
           txn'[s].op \in {"create", "reactivate"} /\ txn'[s].rows # {}
                => txn'[s].soldOut = SoldOutBy(txn'[s].cart)
    PROVE  ListedInv'
<1>1. stock' = stock /\ listed' = listed
  BY DEF stockVars
<1>2. \A c : SoldOutBy(c)' = SoldOutBy(c)
  BY <1>1 DEF SoldOutBy
<1> QED  BY <1>1, <1>2 DEF ListedInv, SoldOutBy

\* The stock that an order takes leaves nothing of what it marks.
LEMMA ListedTake ==
    ASSUME IInv, ListedInv, NEW s, Sessions = {s}, TakeStock(s),
           txn[s].op \in {"create", "reactivate"}, txn[s].rows # {},
           txn' = [txn EXCEPT ![s] = Idle]
    PROVE  ListedInv'
<1> DEFINE c == txn[s].cart
<1>1. c \in Carts /\ txn[s].rows = Lines(c)
  BY DEF IInv, SessionShape, HeldRows
<1>2. \A v \in Variants : stock'[v] = stock[v] - CartItems[c][v]
  BY <1>1, TakeStockTakes
<1>3. listed' = listed \ SoldOutBy(c)
  BY DEF TakeStock, ListedInv
<1>4. ASSUME NEW v \in Variants, stock'[v] > 0
      PROVE  ProductOf[v] \in listed'
  <2>1. stock[v] \in Nat /\ CartItems[c][v] \in Nat
    BY <1>1 DEF IInv, TypeOK
  <2>2. stock[v] > 0 /\ stock[v] - CartItems[c][v] > 0
    BY <1>2, <1>4, <2>1
  <2>3. ProductOf[v] \in listed
    BY <2>2 DEF ListedInv
  <2>4. ProductOf[v] \notin SoldOutBy(c)
    <3> SUFFICES ASSUME ProductOf[v] \in SoldOutBy(c) PROVE FALSE
      OBVIOUS
    <3>1. stock[v] - CartItems[c][v] = 0
      BY DEF SoldOutBy
    <3> QED  BY <2>1, <2>2, <3>1
  <2> QED  BY <1>3, <2>3, <2>4
<1> QED  BY <1>4, ListedIdle DEF IInv

LEMMA ListedInit == ASSUME Init PROVE ListedInv
<1>1. \A v \in Variants : stock[v] > 0 => ProductOf[v] \in listed
  BY DEF Init
<1>2. \A s \in Sessions : txn[s].seen = {} /\ txn[s].op = "idle"
  BY DEF Init, Idle
<1> QED  BY <1>1, <1>2 DEF ListedInv

LEMMA ListedStep ==
    ASSUME IInv, ListedInv, NEW s, Sessions = {s}, [Next]_vars
    PROVE  ListedInv'
<1>a. TypeOK /\ OrderShape /\ txn[s] \in Txn /\ s \in Sessions
  BY DEF IInv, TypeOK
<1>1. ASSUME UNCHANGED <<stockVars, txn>> PROVE ListedInv'
  BY <1>1, ListedReads DEF ListedInv
<1>2. ASSUME UNCHANGED stockVars, NEW V, NEW t \in Txn,
             txn' = [txn EXCEPT ![s] = t], t.seen = SeenOf(V), t.soldOut = {},
             t.op \in {"cancel", "count"} \/ t.rows = {}
      PROVE  ListedInv'
  <2>1. txn'[s] = t
    BY <1>2, <1>a DEF TypeOK
  <2>2. t.seen \subseteq listed
    BY <1>2 DEF SeenOf
  <2> QED  BY <1>2, <2>1, <2>2, ListedReads
<1>3. ASSUME NEW o \in Orders, NEW c \in Carts, BeginCreate(s, o, c)
      PROVE  ListedInv'
  <2> DEFINE t == [Idle EXCEPT !.op = "create", !.targets = {o}, !.cart = c,
                               !.seen = SeenOf(Lines(c))]
  <2>1. /\ t.seen = SeenOf(Lines(c)) /\ t.soldOut = {} /\ t.rows = {}
        /\ txn' = [txn EXCEPT ![s] = t] /\ UNCHANGED stockVars
    BY <1>3 DEF BeginCreate, Idle
  <2>2. t \in Txn
    BY <1>a DEF Idle, Txn, SeenOf, TypeOK
  <2> HIDE DEF t
  <2> QED  BY <2>1, <2>2, <1>2
<1>4. ASSUME NEW o \in Orders, BeginReactivate(s, o) PROVE ListedInv'
  <2> DEFINE t == [Idle EXCEPT !.op = "reactivate", !.targets = {o},
                               !.cart = cartOf[o],
                               !.seen = SeenOf(Lines(cartOf[o]))]
  <2>1. /\ t.seen = SeenOf(Lines(cartOf[o])) /\ t.soldOut = {} /\ t.rows = {}
        /\ txn' = [txn EXCEPT ![s] = t] /\ UNCHANGED stockVars
    BY <1>4 DEF BeginReactivate, Idle
  <2>2. t \in Txn
    BY <1>a DEF Idle, Txn, SeenOf, TypeOK
  <2> HIDE DEF t
  <2> QED  BY <2>1, <2>2, <1>2
<1>5. ASSUME NEW S \in SUBSET Orders, NEW D \in SUBSET Orders,
             BeginCancel(s, S, D)
      PROVE  ListedInv'
  <2> DEFINE t == [Idle EXCEPT !.op = "cancel", !.targets = S, !.drop = D,
                               !.read = Snapshot(ItemsOf(S)),
                               !.seen = SeenOf(ItemsOf(S))]
  <2>1. /\ t.seen = SeenOf(ItemsOf(S)) /\ t.soldOut = {} /\ t.rows = {}
        /\ txn' = [txn EXCEPT ![s] = t] /\ UNCHANGED stockVars
    BY <1>5 DEF BeginCancel, Idle
  <2>2. Snapshot(ItemsOf(S)) \in [Variants -> Nat]
    BY <1>a DEF Snapshot, TypeOK
  <2>3. t \in Txn
    BY <1>a, <2>2 DEF Idle, Txn, SeenOf, TypeOK
  <2> HIDE DEF t
  <2> QED  BY <2>1, <2>3, <1>2
<1>6. ASSUME NEW v \in Variants, BeginCount(s, v) PROVE ListedInv'
  <2> DEFINE t == [Idle EXCEPT !.op = "count", !.rows = {v},
                               !.read = Snapshot({v}), !.seen = SeenOf({v})]
  <2>1. /\ t.seen = SeenOf({v}) /\ t.soldOut = {} /\ t.op = "count"
        /\ txn' = [txn EXCEPT ![s] = t] /\ UNCHANGED stockVars
    BY <1>6 DEF BeginCount, Idle
  <2>2. Snapshot({v}) \in [Variants -> Nat]
    BY <1>a DEF Snapshot, TypeOK
  <2>3. t \in Txn
    BY <1>a, <2>2 DEF Idle, Txn, SeenOf, TypeOK
  <2> HIDE DEF t
  <2> QED  BY <2>1, <2>3, <1>2
<1>7. ASSUME LockStock(s) PROVE ListedInv'
  <2>1. /\ txn'[s].seen = txn[s].seen /\ txn'[s].cart = txn[s].cart
        /\ txn'[s].soldOut = SoldOutBy(txn[s].cart)
    BY <1>7, <1>a DEF LockStock, TypeOK, Txn
  <2>2. UNCHANGED stockVars /\ txn'[s].seen \subseteq listed
    BY <1>7, <1>a, <2>1 DEF LockStock, ListedInv
  <2> QED  BY <2>1, <2>2, ListedReads
<1>8. ASSUME CommitCreate(s) \/ CommitReactivate(s) PROVE ListedInv'
  BY <1>8, ListedTake DEF CommitCreate, CommitReactivate
<1>9. ASSUME CommitCancel(s) PROVE ListedInv'
  <2>1. PICK given \in SUBSET Variants :
            /\ \A v \in Variants \ given : stock'[v] = stock[v]
            /\ listed' = listed \union
                  {p \in Products \ txn[s].seen : \E v \in given : ProductOf[v] = p}
            /\ txn' = [txn EXCEPT ![s] = Idle]
    <3> DEFINE G == ItemsOf(txn[s].targets)
    <3>1. G \in SUBSET Variants
      BY DEF ItemsOf
    <3>2. /\ stock' = [v \in Variants |->
                          IF v \in G
                          THEN txn[s].read[v] + Total(Demand(v), txn[s].targets)
                          ELSE stock[v]]
          /\ listed' = listed \union
                {p \in Products \ txn[s].seen : \E v \in G : ProductOf[v] = p}
          /\ txn' = [txn EXCEPT ![s] = Idle]
      BY <1>9 DEF CommitCancel
    <3> HIDE DEF G
    <3>3. \A v \in Variants \ G : stock'[v] = stock[v]
      BY <3>2
    <3> QED  BY <3>1, <3>2, <3>3
  <2>2. ASSUME NEW v \in Variants, stock'[v] > 0
        PROVE  ProductOf[v] \in listed'
    <3>1. CASE v \in given
      <4>1. ProductOf[v] \in Products
        OBVIOUS
      <4> QED  BY <2>1, <3>1, <4>1, <1>a DEF ListedInv
    <3>2. CASE v \notin given
      BY <2>1, <2>2, <3>2 DEF ListedInv
    <3> QED  BY <3>1, <3>2
  <2> QED  BY <1>a, <2>1, <2>2, ListedIdle
<1>10. ASSUME NEW n \in 0..MaxStock, CommitCount(s, n) PROVE ListedInv'
  <2>1. PICK v \in txn[s].rows :
            /\ stock' = [stock EXCEPT ![v] = n]
            /\ listed' = listed \union ({ProductOf[v]} \ txn[s].seen)
    BY <1>10 DEF CommitCount
  <2>2. ASSUME NEW u \in Variants, stock'[u] > 0
        PROVE  ProductOf[u] \in listed'
    <3>1. CASE u = v
      BY <2>1, <3>1, <1>a DEF ListedInv
    <3>2. CASE u # v
      BY <2>1, <2>2, <3>2, <1>a DEF ListedInv, TypeOK
    <3> QED  BY <3>1, <3>2
  <2>3. txn' = [txn EXCEPT ![s] = Idle]
    BY <1>10 DEF CommitCount
  <2> QED  BY <1>a, <2>2, <2>3, ListedIdle
<1>11. ASSUME Rollback(s) PROVE ListedInv'
  <2>1. UNCHANGED stockVars /\ txn' = [txn EXCEPT ![s] = Idle]
    BY <1>11 DEF Rollback
  <2> QED  BY <1>a, <2>1, ListedIdle DEF stockVars, ListedInv
<1>12. ASSUME NEW o \in Orders, Event(o) PROVE ListedInv'
  BY <1>1, <1>12, <1>a, EventFrame
<1>13. CASE UNCHANGED vars
  BY <1>1, <1>13 DEF vars
<1> QED
  BY <1>3, <1>4, <1>5, <1>6, <1>7, <1>8, <1>9, <1>10, <1>11, <1>12, <1>13,
     StepCases

\* Without concurrency the catalogue agrees with the warehouse: a product with
\* stock is listed whenever no request is under way (create_orders,
\* restore_inventory, update of inventory_service.py).  What a session has
\* read of the products is so when it commits, and it marks out of stock what
\* it empties and nothing else.
THEOREM StockedListed ==
    ASSUME NEW s, Sessions = {s} PROVE Spec => []StockedProductIsListed
<1>1. Init => ListedInv
  BY ListedInit
<1>2. IInv /\ ListedInv /\ [Next]_vars => ListedInv'
  BY ListedStep
<1>3. ListedInv => StockedProductIsListed
  BY DEF ListedInv, StockedProductIsListed
<1> QED  BY <1>1, <1>2, <1>3, Invariance, PTL DEF Spec
=============================================================================
