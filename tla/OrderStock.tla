----------------------------- MODULE OrderStock -----------------------------
(***************************************************************************)
(* Stock reservation by concurrent database sessions: the order handlers   *)
(* (create, re-order, payment portal, status toggle, cancel, delete), the  *)
(* Celery sweep that invalidates abandoned orders, the merchant's stock    *)
(* count, and the payment events that write an order's status.             *)
(*                                                                         *)
(* A handler that holds row locks over several statements is a session     *)
(* that goes through Begin -> (LockStock) -> Commit, or is rolled back.    *)
(* `txn[s]' keeps what the session has locked and what it has READ: the    *)
(* commit writes values computed from that read, as the ORM does, never    *)
(* from the current row.  A handler that reads and writes rows under one   *)
(* lock with nothing read outside it is one action.                        *)
(***************************************************************************)
EXTENDS Quantities, Integers

CONSTANTS
    Variants,    \* product variants; each has one inventory row
    Products,    \* catalogue products
    ProductOf,   \* the product of a variant
    Carts,       \* carts with at least one line, ready for check-out
    CartItems,   \* CartItems[c][v]: quantity of v in cart c (0: not in it)
    NoCart,      \* the cart of an order that does not exist yet
    Orders,      \* order ids
    Sessions,    \* concurrent database sessions (requests and workers)
    InitStock,   \* stock of each variant at the start
    MaxStock,    \* bound: the largest number a merchant types into a count
    MaxOps       \* bound: re-orders, payment events, counts and failures
                 \* of a cancellation, together

ASSUME CatalogAssumption ==
    /\ IsFiniteSet(Variants) /\ IsFiniteSet(Orders)
    /\ ProductOf \in [Variants -> Products]
    /\ InitStock \in [Variants -> Nat]

ASSUME CartAssumption ==
    /\ NoCart \notin Carts
    /\ CartItems \in [Carts -> [Variants -> Nat]]
    /\ \A c \in Carts : \E v \in Variants : CartItems[c][v] > 0

ASSUME BoundAssumption == MaxStock \in Nat /\ MaxOps \in Nat

VARIABLES
    stock,       \* Inventory.stock_quantity
    listed,      \* products whose product_availability is "available"
    checkedOut,  \* carts with check_out set
    status,      \* Order.status; "none": no such row
    cartOf,      \* the cart whose lines became the order's items
    deleted,     \* orders with order_delete set
    reordered,   \* orders with re_order_time set
    expired,     \* orders whose payment window (1 h, or 30 min) has lapsed
    pay,         \* Payment.payment_status of the order's row; "none": no row
    refunds,     \* the order's Refund rows: none, a part of the payment's
                 \* total, or all of it
    txn,         \* what each session has locked and read
    ops,         \* how much of MaxOps is used
    supply,      \* history: units in the shop, by the last count
    lost,        \* history: variants whose row a stale write has overwritten
    surplus,     \* history: variants given back by an order without stock
    revived      \* history: orders a payment event took out of "cancelled"

stockVars   == <<stock, listed>>
orderVars   == <<status, cartOf, deleted, reordered, expired, checkedOut>>
payVars     == <<pay, refunds>>
historyVars == <<supply, lost, surplus, revived>>
vars == <<stockVars, orderVars, payVars, txn, ops, historyVars>>

OrderStatus   == {"pending", "processing", "paid", "shipped", "delivered",
                  "cancelled"}
PaymentStatus == {"pending", "success", "failed", "refunded"}
RefundSum     == {"none", "part", "full"}

Txn == [op      : {"idle", "create", "reactivate", "cancel", "count"},
        targets : SUBSET Orders,        \* order rows locked
        cart    : Carts \union {NoCart},\* cart locked, or the order's cart
        rows    : SUBSET Variants,      \* inventory rows locked
        read    : [Variants -> Nat],    \* stock read
        seen    : SUBSET Products,      \* products read as "available"
        soldOut : SUBSET Products,      \* products to mark out_of_stock
        drop    : SUBSET Orders]        \* orders to soft-delete

Idle == [op |-> "idle", targets |-> {}, cart |-> NoCart, rows |-> {},
         read |-> [v \in Variants |-> 0], seen |-> {}, soldOut |-> {},
         drop |-> {}]

TypeOK ==
    /\ stock \in [Variants -> Nat]
    /\ listed \subseteq Products
    /\ checkedOut \subseteq Carts
    /\ status \in [Orders -> OrderStatus \union {"none"}]
    /\ cartOf \in [Orders -> Carts \union {NoCart}]
    /\ deleted \subseteq Orders
    /\ reordered \subseteq Orders
    /\ expired \subseteq Orders
    /\ pay \in [Orders -> PaymentStatus \union {"none"}]
    /\ refunds \in [Orders -> RefundSum]
    /\ txn \in [Sessions -> Txn]
    /\ ops \in 0..MaxOps
    /\ supply \in [Variants -> Nat]
    /\ lost \subseteq Variants
    /\ surplus \subseteq Variants
    /\ revived \subseteq Orders

-----------------------------------------------------------------------------
(* Quantities.  An order's items are the lines of its cart.                *)

Demand(v) == [o \in Orders |->
                 IF cartOf[o] \in Carts THEN CartItems[cartOf[o]][v] ELSE 0]

Lines(c) == {v \in Variants : CartItems[c][v] > 0}

ItemsOf(S) == {v \in Variants : \E o \in S : Demand(v)[o] > 0}

\* The orders that have taken their items out of the stock and not given
\* them back.
Reserving == {o \in Orders : status[o] \notin {"none", "cancelled"}} \ revived

-----------------------------------------------------------------------------
(* Row locks: SELECT ... FOR UPDATE, held until commit or rollback.        *)

CartFree(c) == \A s \in Sessions : txn[s].op = "create" => txn[s].cart # c
OrderFree(o) == \A s \in Sessions : o \notin txn[s].targets

\* Mutant: the inventory is selected without FOR UPDATE.
RowUnlocked(v) == TRUE

RowFree(v) == \A s \in Sessions : v \notin txn[s].rows

Snapshot(V) == [v \in Variants |-> IF v \in V THEN stock[v] ELSE 0]

SeenOf(V) == {p \in listed : \E v \in V : ProductOf[v] = p}

-----------------------------------------------------------------------------
Init ==
    /\ stock = InitStock
    /\ listed = {p \in Products :
                    \E v \in Variants : ProductOf[v] = p /\ InitStock[v] > 0}
    /\ checkedOut = {}
    /\ status = [o \in Orders |-> "none"]
    /\ cartOf = [o \in Orders |-> NoCart]
    /\ deleted = {} /\ reordered = {} /\ expired = {}
    /\ pay = [o \in Orders |-> "none"]
    /\ refunds = [o \in Orders |-> "none"]
    /\ txn = [s \in Sessions |-> Idle]
    /\ ops = 0
    /\ supply = InitStock
    /\ lost = {} /\ surplus = {} /\ revived = {}

-----------------------------------------------------------------------------
(* create_orders and reactivate_order.                                     *)

\* The cart row is locked, its lines and their products are read, the order
\* row is inserted (not visible to others before the commit).
BeginCreate(s, o, c) ==
    /\ txn[s].op = "idle"
    /\ c \notin checkedOut /\ CartFree(c)
    /\ status[o] = "none" /\ OrderFree(o)
    /\ txn' = [txn EXCEPT ![s] =
                  [Idle EXCEPT !.op = "create", !.targets = {o}, !.cart = c,
                               !.seen = SeenOf(Lines(c))]]
    /\ UNCHANGED <<stockVars, orderVars, payVars, ops, historyVars>>

\* Mutant: the query of the re-order forgets order_delete.
ReorderableAnyway(o) == status[o] = "cancelled" /\ OrderFree(o)

Reorderable(o) == status[o] = "cancelled" /\ o \notin deleted /\ OrderFree(o)

\* A cancelled order is locked; its items and their products are read.
BeginReactivate(s, o) ==
    /\ txn[s].op = "idle" /\ Reorderable(o)
    /\ txn' = [txn EXCEPT ![s] =
                  [Idle EXCEPT !.op = "reactivate", !.targets = {o},
                               !.cart = cartOf[o],
                               !.seen = SeenOf(Lines(cartOf[o]))]]
    /\ UNCHANGED <<stockVars, orderVars, payVars, ops, historyVars>>

\* Mutant: the product's other variants are not looked at.
SoldOutByLine(c) ==
    {ProductOf[v] : v \in {u \in Lines(c) : stock[u] = CartItems[c][u]}}

\* The products that taking cart c empties: no row is left with stock.
SoldOutBy(c) ==
    LET left(v) == stock[v] - CartItems[c][v]
    IN  {p \in Products :
            /\ \E v \in Lines(c) : ProductOf[v] = p /\ left(v) = 0
            /\ \A v \in Variants : ProductOf[v] = p => left(v) = 0}

\* Mutant: an order may take one unit more than there is.
EnoughAndOne(c, v) == CartItems[c][v] <= stock[v] + 1

Enough(c, v) == CartItems[c][v] <= stock[v]

\* The inventory rows are locked and read, every line is checked against
\* them, and the products this order empties are looked up among the
\* committed rows and the session's own writes.
LockStock(s) ==
    LET c == txn[s].cart
    IN  /\ txn[s].op \in {"create", "reactivate"} /\ txn[s].rows = {}
        /\ \A v \in Lines(c) : /\ RowFree(v) /\ Enough(c, v)
                                /\ ProductOf[v] \in txn[s].seen
        /\ txn' = [txn EXCEPT ![s] =
                      [txn[s] EXCEPT !.rows = Lines(c),
                                     !.read = Snapshot(Lines(c)),
                                     !.soldOut = SoldOutBy(c)]]
        /\ UNCHANGED <<stockVars, orderVars, payVars, ops, historyVars>>

\* The literal written to each locked row is what was read minus the line.
TakeStock(s) ==
    /\ stock' = [v \in Variants |->
                    IF v \in txn[s].rows
                    THEN txn[s].read[v] - CartItems[txn[s].cart][v]
                    ELSE stock[v]]
    /\ listed' = listed \ txn[s].soldOut

\* Mutant: the cart stays open after its order is made.
LeaveOpen(c) == c \notin checkedOut /\ UNCHANGED checkedOut

\* The conditional update of the cart.
CheckOut(c) == c \notin checkedOut /\ checkedOut' = checkedOut \union {c}

CommitCreate(s) ==
    /\ txn[s].op = "create" /\ txn[s].rows # {}
    /\ CheckOut(txn[s].cart)
    /\ \E o \in txn[s].targets :
          /\ status' = [status EXCEPT ![o] = "pending"]
          /\ cartOf' = [cartOf EXCEPT ![o] = txn[s].cart]
    /\ TakeStock(s)
    /\ txn' = [txn EXCEPT ![s] = Idle]
    /\ UNCHANGED <<deleted, reordered, expired, payVars, ops, historyVars>>

CommitReactivate(s) ==
    /\ txn[s].op = "reactivate" /\ txn[s].rows # {}
    /\ ops < MaxOps
    /\ \E o \in txn[s].targets :
          /\ status' = [status EXCEPT ![o] = "pending"]
          /\ reordered' = reordered \union {o}
          /\ expired' = expired \ {o}
    /\ TakeStock(s)
    /\ txn' = [txn EXCEPT ![s] = Idle]
    /\ ops' = ops + 1
    /\ UNCHANGED <<cartOf, deleted, checkedOut, payVars, historyVars>>

-----------------------------------------------------------------------------
(* The four ways to cancel.  Each locks the order rows and reads their     *)
(* inventory WITHOUT locking it; the commit gives the items back.          *)

BeginCancel(s, S, drop) ==
    /\ txn[s].op = "idle"
    /\ \A o \in S : OrderFree(o)
    /\ txn' = [txn EXCEPT ![s] =
                  [Idle EXCEPT !.op = "cancel", !.targets = S, !.drop = drop,
                               !.read = Snapshot(ItemsOf(S)),
                               !.seen = SeenOf(ItemsOf(S))]]
    /\ UNCHANGED <<stockVars, orderVars, payVars, ops, historyVars>>

\* proceed_to_payment_portal on an order whose window has lapsed.
PortalExpire(s, o) ==
    /\ status[o] = "pending" /\ o \notin deleted /\ o \in expired
    /\ BeginCancel(s, {o}, {o} \intersect reordered)

\* toggle_status to cancelled: with a payment row, only when fully refunded.
ToggleCancel(s, o) ==
    /\ status[o] \in {"pending", "processing", "shipped"} /\ o \notin deleted
    /\ pay[o] = "none" \/ refunds[o] = "full"
    /\ BeginCancel(s, {o}, {})

\* cancel_order by the customer.
CancelOrder(s, o) ==
    /\ status[o] = "pending" /\ o \notin deleted
    /\ pay[o] \in {"none", "pending"}
    /\ BeginCancel(s, {o}, {})

\* Mutants: a sweep that forgets to ask for pending orders, and one that
\* leaves out re-orders.
SweepableAny ==
    {o \in Orders : o \notin deleted /\ o \in expired /\ OrderFree(o)}

SweepableFirst == {o \in Orders \ reordered :
                      /\ status[o] = "pending" /\ o \notin deleted
                      /\ o \in expired /\ OrderFree(o)}

\* invalidate_order: one transaction for every expired pending order whose
\* row is not locked by another session (SKIP LOCKED).
Sweepable == {o \in Orders : /\ status[o] = "pending" /\ o \notin deleted
                             /\ o \in expired /\ OrderFree(o)}

Sweep(s) ==
    /\ Sweepable # {}
    /\ BeginCancel(s, Sweepable, Sweepable \intersect reordered)

\* restore_inventory and commit.  The UPDATE waits for row locks, then
\* writes the value computed from the earlier read.
CommitCancel(s) ==
    LET t     == txn[s]
        S     == t.targets
        given == ItemsOf(S)
    IN  /\ t.op = "cancel"
        /\ \A v \in given : RowFree(v)
        /\ status' = [o \in Orders |-> IF o \in S THEN "cancelled"
                                       ELSE status[o]]
        /\ deleted' = deleted \union t.drop
        /\ stock' = [v \in Variants |-> IF v \in given
                                        THEN t.read[v] + Total(Demand(v), S)
                                        ELSE stock[v]]
        /\ listed' = listed \union
              {p \in Products \ t.seen : \E v \in given : ProductOf[v] = p}
        /\ txn' = [txn EXCEPT ![s] = Idle]
        /\ lost' = lost \union {v \in given : t.read[v] # stock[v]}
        /\ surplus' = surplus \union ItemsOf(S \intersect revived)
        /\ revived' = revived \ S
        /\ UNCHANGED <<cartOf, reordered, expired, checkedOut, payVars, ops,
                       supply>>

-----------------------------------------------------------------------------
(* inventory.update: the row is locked and overwritten with a count.       *)

BeginCount(s, v) ==
    /\ txn[s].op = "idle" /\ RowFree(v)
    /\ txn' = [txn EXCEPT ![s] =
                  [Idle EXCEPT !.op = "count", !.rows = {v},
                               !.read = Snapshot({v}), !.seen = SeenOf({v})]]
    /\ UNCHANGED <<stockVars, orderVars, payVars, ops, historyVars>>

CommitCount(s, n) ==
    /\ txn[s].op = "count" /\ ops < MaxOps
    /\ \E v \in txn[s].rows :
          /\ n # txn[s].read[v]
          /\ stock' = [stock EXCEPT ![v] = n]
          /\ listed' = listed \union ({ProductOf[v]} \ txn[s].seen)
          /\ supply' = [supply EXCEPT ![v] = n + Total(Demand(v), Reserving)]
          /\ lost' = lost \ {v}
          /\ surplus' = surplus \ {v}
    /\ txn' = [txn EXCEPT ![s] = Idle]
    /\ ops' = ops + 1
    /\ UNCHANGED <<orderVars, payVars, revived>>

\* A rejected check, a database error, a deadlock victim or a crash.  A
\* cancellation has no check left after it began: only failures abort it.
Rollback(s) ==
    /\ txn[s].op # "idle"
    /\ IF txn[s].op = "cancel" THEN ops < MaxOps /\ ops' = ops + 1
                               ELSE UNCHANGED ops
    /\ txn' = [txn EXCEPT ![s] = Idle]
    /\ UNCHANGED <<stockVars, orderVars, payVars, historyVars>>

-----------------------------------------------------------------------------
(* Handlers that are one action: everything is read and written under the  *)
(* order's row lock.                                                       *)

\* toggle_status to a status other than cancelled.  Note "paid": it is not
\* among the statuses an unpaid pending order may not take.
ToggleStatus(o, new) ==
    /\ OrderFree(o)
    /\ status[o] \in {"pending", "processing", "shipped"} /\ o \notin deleted
    /\ new = "pending" => pay[o] = "none" \/ refunds[o] = "full"
    /\ status[o] = "pending" /\ pay[o] # "success"
          => new \notin {"shipped", "processing", "delivered"}
    /\ new # "cancelled" /\ status' = [status EXCEPT ![o] = new]
    /\ UNCHANGED <<stockVars, cartOf, deleted, reordered, expired, checkedOut,
                   payVars, txn, ops, historyVars>>

DeleteOrder(o) ==
    /\ OrderFree(o)
    /\ status[o] \in {"cancelled", "delivered", "shipped"} /\ o \notin deleted
    /\ deleted' = deleted \union {o}
    /\ UNCHANGED <<stockVars, status, cartOf, reordered, expired, checkedOut,
                   payVars, txn, ops, historyVars>>

-----------------------------------------------------------------------------
(* Time and payments.                                                      *)

\* The window that governs the order lapses: one hour from created_at, or
\* half an hour from re_order_time.
Expire(o) ==
    /\ status[o] # "none" /\ o \notin expired
    /\ expired' = expired \union {o}
    /\ UNCHANGED <<stockVars, status, cartOf, deleted, reordered, checkedOut,
                   payVars, txn, ops, historyVars>>

\* A payment step that leaves the order row alone.
PaymentOnly ==
    /\ ops < MaxOps /\ ops' = ops + 1
    /\ UNCHANGED <<stockVars, orderVars, txn, historyVars>>

\* A write to the order's status that looks at no status before it; it
\* waits for the order's row lock.
ForceStatus(o, new) ==
    /\ OrderFree(o)
    /\ status' = [status EXCEPT ![o] = new]
    /\ revived' = IF status[o] = "cancelled" THEN revived \union {o}
                  ELSE revived
    /\ ops < MaxOps /\ ops' = ops + 1
    /\ UNCHANGED <<stockVars, cartOf, deleted, reordered, expired, checkedOut,
                   txn, supply, lost, surplus>>

\* create_payment writes the payment row after its call to Stripe; what it
\* checked before the call (a pending, unpaid order) may be stale by then.
\* The row gets the order's current total, so refunds of an earlier payment
\* may add up to more or less of it than before.
OpenPayment(o) ==
    /\ status[o] # "none" /\ pay[o] # "pending"
    /\ pay' = [pay EXCEPT ![o] = "pending"]
    /\ \E sum \in RefundSum :
          /\ sum = "none" <=> refunds[o] = "none"
          /\ refunds' = [refunds EXCEPT ![o] = sum]
    /\ PaymentOnly

\* The webhook of a completed or of a failed/expired Stripe session.
PaymentSucceeded(o) ==
    /\ pay[o] # "none"
    /\ pay' = [pay EXCEPT ![o] = "success"] /\ UNCHANGED refunds
    /\ ForceStatus(o, "processing")

PaymentFailed(o) ==
    /\ pay[o] # "none"
    /\ pay' = [pay EXCEPT ![o] = "failed"] /\ UNCHANGED refunds
    /\ ForceStatus(o, "pending")

\* charge_refund of all that is left of the payment.  The order was read
\* before the call to Stripe: had it been pending then, nothing is written.
RefundInFull(o) ==
    /\ pay[o] \in {"success", "refunded"} /\ refunds[o] # "full"
    /\ refunds' = [refunds EXCEPT ![o] = "full"] /\ UNCHANGED pay
    /\ ForceStatus(o, "pending") \/ PaymentOnly

\* charge_refund of less than that.
RefundInPart(o) ==
    /\ pay[o] \in {"success", "refunded"} /\ refunds[o] = "none"
    /\ refunds' = [refunds EXCEPT ![o] = "part"] /\ UNCHANGED pay
    /\ PaymentOnly

\* The webhook of a refund, partial or full: confirmed, or rejected by the
\* bank (then the payment counts as successful again).
RefundEvent(o, new) ==
    /\ refunds[o] # "none" /\ new \in {"success", "refunded"} /\ pay[o] # new
    /\ pay' = [pay EXCEPT ![o] = new] /\ UNCHANGED refunds
    /\ PaymentOnly

-----------------------------------------------------------------------------
Begin(s) ==
    \/ \E o \in Orders, c \in Carts : BeginCreate(s, o, c)
    \/ \E o \in Orders : BeginReactivate(s, o)
    \/ \E o \in Orders : PortalExpire(s, o)
    \/ \E o \in Orders : ToggleCancel(s, o)
    \/ \E o \in Orders : CancelOrder(s, o)
    \/ Sweep(s)
    \/ \E v \in Variants : BeginCount(s, v)

Commit(s) ==
    \/ CommitCreate(s)
    \/ CommitReactivate(s)
    \/ CommitCancel(s)
    \/ \E n \in 0..MaxStock : CommitCount(s, n)

Session(s) == Begin(s) \/ LockStock(s) \/ Commit(s) \/ Rollback(s)

Event(o) ==
    \/ \E new \in OrderStatus : ToggleStatus(o, new)
    \/ DeleteOrder(o)
    \/ Expire(o)
    \/ OpenPayment(o)
    \/ PaymentSucceeded(o)
    \/ PaymentFailed(o)
    \/ RefundInFull(o)
    \/ RefundInPart(o)
    \/ \E new \in PaymentStatus : RefundEvent(o, new)

Next == (\E s \in Sessions : Session(s)) \/ (\E o \in Orders : Event(o))

Spec == Init /\ [][Next]_vars
-----------------------------------------------------------------------------
(* Properties.                                                             *)

\* FOR UPDATE keeps its promise: while a session holds an inventory row,
\* the value it has read is the value in the row (restore_inventory reads
\* without a lock, but its UPDATE waits for the lock).
LockedReadIsCurrent ==
    \A s \in Sessions : \A v \in txn[s].rows : txn[s].read[v] = stock[v]

\* No unit of stock appears or vanishes: what is on the shelf and what live
\* orders have taken add up to the counted supply, for every variant that
\* neither a stale write (lost) nor a second give-back (surplus) has hit.
StockConserved ==
    \A v \in Variants \ (lost \union surplus) :
        stock[v] + Total(Demand(v), Reserving) = supply[v]

\* A cart becomes at most one order, however often it is submitted, and it
\* is flagged check_out exactly when its order exists.
OneOrderPerCart ==
    /\ \A o1, o2 \in Orders :
          cartOf[o1] = cartOf[o2] /\ cartOf[o1] # NoCart => o1 = o2
    /\ checkedOut = {cartOf[o] : o \in Orders} \ {NoCart}

\* A soft-deleted order that holds no stock never takes stock again,
\* whatever sessions were already under way when it was deleted.
DeletedStaysReleased ==
    [][\A o \in deleted \ Reserving : o \notin Reserving']_vars

\* README.md:144, "zero Lost Updates": concurrent handlers leave no variant
\* with more or fewer units than were counted (second give-backs aside).
NoLostUpdates ==
    \A v \in Variants \ surplus :
        stock[v] + Total(Demand(v), Reserving) = supply[v]

\* The catalogue agrees with the warehouse: without concurrency, a product
\* that has stock is never left flagged out_of_stock.
StockedProductIsListed ==
    (\A s \in Sessions : txn[s].op = "idle") =>
        \A v \in Variants : stock[v] > 0 => ProductOf[v] \in listed

-----------------------------------------------------------------------------
(* The inductive invariant behind the safety properties.                   *)

\* What rows of an order that does not exist, or is cancelled, look like.
OrderShape ==
    \A o \in Orders :
        /\ status[o] = "none" <=> cartOf[o] = NoCart
        /\ status[o] = "none" => /\ o \notin deleted
                                 /\ pay[o] = "none" /\ refunds[o] = "none"
        /\ status[o] \in {"none", "cancelled"} => o \notin revived

\* What the rows a session holds look like until it ends.
HeldRows(t) ==
    /\ t.op = "idle" => t.targets = {} /\ t.rows = {}
    /\ t.op = "create" =>
          /\ t.cart \in Carts \ checkedOut
          /\ \E o \in Orders : t.targets = {o} /\ status[o] = "none"
    /\ t.op = "reactivate" =>
          \E o \in Orders : /\ t.targets = {o} /\ status[o] = "cancelled"
                            /\ o \notin deleted /\ t.cart = cartOf[o]
    /\ t.op \in {"create", "reactivate"} =>
          /\ t.cart \in Carts
          /\ t.rows = {} \/ t.rows = Lines(t.cart)
          /\ \A v \in t.rows : CartItems[t.cart][v] <= t.read[v]
    /\ t.op = "cancel" =>
          /\ t.rows = {} /\ t.drop \subseteq t.targets
          /\ \A o \in t.targets :
                status[o] \in {"pending", "processing", "shipped"}
    /\ t.op = "count" => t.targets = {} /\ \E v \in Variants : t.rows = {v}

SessionShape == \A s \in Sessions : HeldRows(txn[s])

\* No row is locked by two sessions.
LocksExclusive ==
    \A s, t \in Sessions : s # t =>
        /\ txn[s].targets \cap txn[t].targets = {}
        /\ txn[s].rows \cap txn[t].rows = {}
        /\ txn[s].op = "create" /\ txn[t].op = "create"
              => txn[s].cart # txn[t].cart

IInv == /\ TypeOK /\ OrderShape /\ SessionShape /\ LocksExclusive
        /\ LockedReadIsCurrent /\ StockConserved /\ OneOrderPerCart

-----------------------------------------------------------------------------
(* Fairness: every session ends (commit, rejection or a lost connection);  *)
(* the beat schedules the sweep every five minutes for ever, so a sweep    *)
(* that is possible again and again is run; a cancellation waits for its   *)
(* row locks, and fails only finitely often (MaxOps).                      *)

Fairness ==
    /\ \A s \in Sessions : WF_vars(Commit(s) \/ Rollback(s))
    /\ \A s \in Sessions : SF_vars(CommitCancel(s))
    /\ SF_vars(\E s \in Sessions : Sweep(s))

FairSpec == Spec /\ Fairness

\* An abandoned order is eventually taken out of "pending": it cannot keep
\* its stock for ever.
ExpiredIsReleased ==
    \A o \in Orders :
        status[o] = "pending" /\ o \in expired /\ o \notin deleted
            ~> status[o] # "pending"
=============================================================================
