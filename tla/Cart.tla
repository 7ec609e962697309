-------------------------------- MODULE Cart --------------------------------
(***************************************************************************)
(* The carts of one customer.  The first addition finds no open cart and   *)
(* makes one; later additions, edits, the clean-up and the check-out lock  *)
(* the cart's row, read the cart and write what they computed from it.     *)
(* Whether a cart is open is counted before, without a lock.               *)
(***************************************************************************)
EXTENDS Integers, FiniteSets, Quantities

CONSTANTS
    Variants,
    Calls,
    MaxItems,   \* 30: different variants in a cart
    MaxCarts,   \* bound: carts
    MaxQuantity, \* bound: pieces of a variant in a cart
    MaxStock    \* bound: pieces in stock

CartAssumption ==
    /\ {MaxItems, MaxCarts, MaxQuantity, MaxStock} \subseteq Nat \ {0}
    /\ IsFiniteSet(Variants)

Carts == 1..MaxCarts
Amounts == 0..MaxQuantity

VARIABLES
    state, \* of a cart
    items, \* pieces of each variant
    total, \* the cart's total_quantity
    stock,
    shelf, \* of a variant: "available", "out_of_stock" or "gone"
    call

vars == <<state, items, total, stock, shelf, call>>

Idle == [step |-> "idle"]
Empty == [v \in Variants |-> 0]
In(contents) == {v \in Variants : contents[v] > 0}

TypeOK ==
    /\ state \in [Carts -> {"none", "open", "out", "deleted"}]
    /\ items \in [Carts -> [Variants -> Amounts]]
    /\ stock \in [Variants -> 0..MaxStock]
    /\ shelf \in [Variants -> {"available", "out_of_stock", "gone"}]
    /\ \A k \in Carts : /\ total[k] \in 0..(MaxQuantity * Cardinality(Variants))
                        /\ state[k] \in {"none", "deleted"} => items[k] = Empty
                        /\ Cardinality(In(items[k])) <= MaxItems

Init ==
    /\ state = [k \in Carts |-> "none"] /\ items = [k \in Carts |-> Empty]
    /\ total = [k \in Carts |-> 0]
    /\ stock = [v \in Variants |-> MaxStock]
    /\ shelf = [v \in Variants |-> "available"]
    /\ call = [c \in Calls |-> Idle]

Open == {k \in Carts : state[k] = "open"}
New == {k \in Carts : state[k] = "none" /\ k - 1 \notin {j \in Carts :
                                                         state[j] = "none"}}

\* Mutant: the row is read without a lock.
RowUnlocked(k) == TRUE
\* FOR UPDATE on the cart's row, held to the end of the transaction.
RowFree(k) == \A c \in Calls : ~ (call[c].step = "locked" /\ call[c].cart = k)

Done(c) == call' = [call EXCEPT ![c] = Idle]
Refuse(c) == Done(c) /\ UNCHANGED <<state, items, total, stock, shelf>>

-----------------------------------------------------------------------------
\* add_item_to_cart counts the customer's open carts.
Add(c, v, q) ==
    /\ call[c].step = "idle"
    /\ call' = [call EXCEPT ![c] =
                  [step |-> IF Open = {} THEN "insert" ELSE "find",
                   variant |-> v, quantity |-> q]]
    /\ UNCHANGED <<state, items, total, stock, shelf>>

\* It inserts a cart and looks for the open one: its own, unless another has
\* been committed by now, which scalar_one_or_none does not stand.
Insert(c) ==
    /\ call[c].step = "insert"
    /\ IF Open = {} THEN /\ call' = [call EXCEPT ![c].step = "fill"]
                         /\ UNCHANGED <<state, items, total, stock, shelf>>
                    ELSE Refuse(c)

Orderable(v, q) == shelf[v] = "available" /\ stock[v] >= q

FillNew(c) ==
    LET v == call[c].variant  q == call[c].quantity IN
    /\ call[c].step = "fill"
    /\ \/ /\ Orderable(v, q)
          /\ \E k \in New :
                /\ state' = [state EXCEPT ![k] = "open"]
                /\ items' = [items EXCEPT ![k][v] = q]
                /\ total' = [total EXCEPT ![k] = q]
          /\ Done(c) /\ UNCHANGED <<stock, shelf>>
       \/ ~Orderable(v, q) /\ Refuse(c)

\* Lock the row and read the cart, for the operation op.
Lock(c, k, op, v, q) ==
    /\ RowFree(k)
    /\ call' = [call EXCEPT ![c] =
                  [step |-> "locked", op |-> op, cart |-> k, variant |-> v,
                   quantity |-> q, items |-> items[k], total |-> total[k]]]
    /\ UNCHANGED <<state, items, total, stock, shelf>>

\* The look-up by customer, which finds no cart, one, or fails on two.
Find(c) ==
    /\ call[c].step = "find"
    /\ \/ \E k \in Open : /\ Open = {k}
                          /\ Lock(c, k, "add", call[c].variant,
                                  call[c].quantity)
       \/ Cardinality(Open) # 1 /\ Refuse(c)

RoomFor(contents, v) == \/ contents[v] > 0
                        \/ Cardinality(In(contents)) < MaxItems

\* edit_quantity and delete_one take any cart of the customer's, checked out
\* or not.
Edit(c, k, v, q) ==
    /\ call[c].step = "idle" /\ items[k][v] > 0 /\ q # items[k][v]
    /\ Lock(c, k, "edit", v, q)

DeleteOne(c, k, v) ==
    /\ call[c].step = "idle" /\ items[k][v] > 0
    /\ Lock(c, k, "edit", v, 0)

\* What they write: the quantity, and the total by the difference.
Write(c) ==
    LET k == call[c].cart  v == call[c].variant  was == call[c].items[v]
        now == IF call[c].op = "add" THEN was + call[c].quantity
               ELSE call[c].quantity
        ok == call[c].op = "add" => /\ Orderable(v, call[c].quantity)
                                    /\ RoomFor(call[c].items, v)
    IN /\ call[c].step = "locked" /\ call[c].op \in {"add", "edit"}
       /\ now <= MaxQuantity \* bound
       /\ IF ok
          THEN /\ items' = [items EXCEPT ![k][v] = now]
               /\ total' = [total EXCEPT ![k] = call[c].total + now - was]
               /\ Done(c) /\ UNCHANGED <<state, stock, shelf>>
          ELSE Refuse(c)

\* update_cart takes out what is deleted or not in stock.
Removed(contents) ==
    {v \in In(contents) : shelf[v] = "gone" \/ stock[v] < contents[v]}

CleanUp(c, k) ==
    /\ call[c].step = "idle" /\ state[k] \in {"open", "out"}
    /\ Removed(items[k]) # {}
    /\ Lock(c, k, "clean", CHOOSE v \in Variants : TRUE, 0)

\* The deleted lines are those found; the total is changed in the database.
WriteClean(c) ==
    LET k == call[c].cart  out == Removed(call[c].items) IN
    /\ call[c].step = "locked" /\ call[c].op = "clean"
    /\ items' = [items EXCEPT ![k] =
                    [v \in Variants |-> IF v \in out THEN 0 ELSE @[v]]]
    /\ total' = [total EXCEPT ![k] =
                    @ - Total(call[c].items, out)]
    /\ Done(c) /\ UNCHANGED <<state, stock, shelf>>

\* delete_all does not lock before it deletes the row; the lines it found go
\* one by one, a line added meanwhile by the foreign key's ON DELETE CASCADE.
DeleteAll(k) ==
    /\ state[k] \in {"open", "out"} /\ RowFree(k)
    /\ state' = [state EXCEPT ![k] = "deleted"]
    /\ items' = [items EXCEPT ![k] = Empty]
    /\ total' = [total EXCEPT ![k] = 0]
    /\ UNCHANGED <<stock, shelf, call>>

\* create_orders, as far as the cart goes.
Accepted(contents) == /\ In(contents) # {}
                      /\ \A v \in In(contents) : Orderable(v, contents[v])
CheckOut(k) ==
    /\ state[k] = "open" /\ RowFree(k) /\ Accepted(items[k])
    /\ state' = [state EXCEPT ![k] = "out"]
    /\ stock' = [v \in Variants |-> stock[v] - items[k][v]]
    /\ UNCHANGED <<items, total, shelf, call>>

\* What others do to the product and its stock.  The flag may say out_of_stock
\* while there is stock: see CommitCount in OrderStock.
Shelve(v, s) ==
    /\ shelf[v] # "gone" /\ s # shelf[v]
    /\ shelf' = [shelf EXCEPT ![v] = s]
    /\ UNCHANGED <<state, items, total, stock, call>>
SellElsewhere(v) ==
    /\ stock[v] > 0
    /\ stock' = [stock EXCEPT ![v] = @ - 1]
    /\ UNCHANGED <<state, items, total, shelf, call>>

Next ==
    \/ \E c \in Calls, v \in Variants, q \in Amounts \ {0} : Add(c, v, q)
    \/ \E c \in Calls : \/ Insert(c) \/ FillNew(c) \/ Find(c)
                        \/ Write(c) \/ WriteClean(c)
    \/ \E c \in Calls, k \in Carts, v \in Variants :
          \/ \E q \in Amounts \ {0} : Edit(c, k, v, q)
          \/ DeleteOne(c, k, v)
    \/ \E c \in Calls, k \in Carts : CleanUp(c, k)
    \/ \E k \in Carts : DeleteAll(k) \/ CheckOut(k)
    \/ \E v \in Variants : \/ SellElsewhere(v)
                           \/ \E s \in {"available", "out_of_stock", "gone"} :
                                 Shelve(v, s)

Spec == Init /\ [][Next]_vars

-----------------------------------------------------------------------------
\* The stored total of a cart is the sum of its lines, whatever overlapped
\* (docs/cart.md:7 and All-or-Nothing Mutation Guarantees).
TotalMatches ==
    \A k \in Carts : total[k] = Total(items[k], Variants)

\* docs/cart.md:27: a customer has one cart that is not checked out.
OneOpenCart == Cardinality({k \in Carts : state[k] = "open"}) <= 1
=============================================================================
