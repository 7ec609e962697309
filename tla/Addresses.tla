----------------------------- MODULE Addresses -----------------------------
(***************************************************************************)
(* Delivery addresses and the orders they belong to.  An order gets a new  *)
(* address or one its customer used before; an address is soft-deleted     *)
(* when none of the customer's orders that use it is active.  Handlers     *)
(* lock the order they change and, to delete an address, the address and   *)
(* its orders, but to choose one they read the address without a lock, and *)
(* a deletion looks for the orders as its statement begins.                *)
(***************************************************************************)
EXTENDS Integers, FiniteSets

CONSTANTS
    Orders, Users,
    UserOf,       \* the customer of an order
    Calls,        \* requests that choose or delete an address
    MaxAddresses, \* bound: addresses
    StoreGoes     \* whether the store may be deleted

AddressAssumption ==
    UserOf \in [Orders -> Users] /\ MaxAddresses \in Nat /\ StoreGoes \in BOOLEAN

Ids == 1..MaxAddresses

VARIABLES
    status,  \* of an order
    hidden,  \* orders deleted by their customers or the sweep
    linked,  \* an order's address, 0 for none
    address, \* "none", "delivery", "store" or "deleted"
    call     \* a request: the order it has locked, the address it has read or
             \* is deleting, the orders its statement saw, and (history) those
             \* that chose the address since

vars == <<status, hidden, linked, address, call>>

Idle == [step |-> "idle", order |-> "none", chosen |-> 0,
         seen |-> {}, late |-> {}]
Choosing(c) == call[c].step = "choosing"
Removing(c) == call[c].step = "removing"

Active   == {"pending", "processing", "paid", "shipped"}
Finished == {"delivered", "cancelled"}

TypeOK ==
    /\ status \in [Orders -> Active \union Finished]
    /\ hidden \subseteq Orders
    /\ linked \in [Orders -> Ids \union {0}]
    /\ address \in [Ids -> {"none", "delivery", "store", "deleted"}]
    /\ \A o \in Orders :
          /\ linked[o] # 0 => address[linked[o]] # "none"
          /\ status[o] \in {"processing", "shipped", "delivered"}
                => linked[o] # 0

Init ==
    /\ status = [o \in Orders |-> "pending"] /\ hidden = {}
    /\ linked = [o \in Orders |-> 0] /\ address = [a \in Ids |-> "none"]
    /\ call = [c \in Calls |-> Idle]

Done(c) == call' = [call EXCEPT ![c] = Idle]
OrderFree(o) == \A c \in Calls : ~ (Choosing(c) /\ call[c].order = o)
Uses(u, a) == {o \in Orders : UserOf[o] = u /\ linked[o] = a}
Live(a) == address[a] \in {"delivery", "store"}
Fresh == {a \in Ids : address[a] = "none" /\ \A b \in 1..(a - 1) :
                                                address[b] # "none"}

-----------------------------------------------------------------------------
\* delivery_address does not look at the order's status.
AddDelivery(o) ==
    /\ o \notin hidden /\ OrderFree(o)
    /\ \E a \in Fresh : /\ address' = [address EXCEPT ![a] = "delivery"]
                        /\ linked' = [linked EXCEPT ![o] = a]
    /\ UNCHANGED <<status, hidden, call>>

\* Mutant: any live address will do.
ChoosableByAnyone(o, a) == Live(a)

\* One of the customer's own orders must have the address.
Choosable(o, a) == Live(a) /\ Uses(UserOf[o], a) # {}

\* choose_order_address: the order is locked, the address is not.
BeginChoose(c, o, a) ==
    /\ call[c].step = "idle"
    /\ o \notin hidden /\ OrderFree(o) /\ status[o] = "pending"
    /\ Choosable(o, a)
    /\ call' = [call EXCEPT ![c] =
                   [Idle EXCEPT !.step = "choosing", !.order = o, !.chosen = a]]
    /\ UNCHANGED <<status, hidden, linked, address>>

\* The foreign key locks the address against a deletion that has not come that
\* far, for the rest of the transaction.
CommitChoose(c) ==
    /\ Choosing(c)
    /\ linked' = [linked EXCEPT ![call[c].order] = call[c].chosen]
    /\ call' = [d \in Calls |->
          IF d = c THEN Idle
          ELSE IF Removing(d) /\ call[d].chosen = call[c].chosen
               THEN [call[d] EXCEPT !.late =
                           @ \union ({call[c].order} \ call[d].seen)]
               ELSE call[d]]
    /\ UNCHANGED <<status, hidden, address>>

\* remove_delivery_address: one statement joins the address to the customer's
\* orders as they are when it begins, and then waits for the locks of the rows
\* it found.
BeginRemove(c, u, a) ==
    /\ call[c].step = "idle" /\ Live(a) /\ Uses(u, a) # {}
    /\ call' = [call EXCEPT ![c] =
                   [Idle EXCEPT !.step = "removing", !.chosen = a,
                                !.seen = Uses(u, a)]]
    /\ UNCHANGED <<status, hidden, linked, address>>

\* Mutant: only one order, whichever comes first, is looked at.
RemovableByOne(found) == \E o \in found : status[o] \in Finished

Removable(found) == found # {} /\ \A o \in found : status[o] \in Finished

\* With the locks the rows are looked at again: those whose order has another
\* address by now drop out, and an order that has got this one does not join.
CommitRemove(c) ==
    LET a == call[c].chosen
        found == {o \in call[c].seen : linked[o] = a} IN
    /\ Removing(c) /\ Live(a) /\ Removable(found)
    /\ \A o \in found : OrderFree(o)
    /\ address' = [address EXCEPT ![a] = "deleted"]
    /\ Done(c)
    /\ UNCHANGED <<status, hidden, linked>>

\* Refused, or the database fails.
Fail(c) ==
    /\ Choosing(c) \/ Removing(c)
    /\ Done(c)
    /\ UNCHANGED <<status, hidden, linked, address>>

\* add_address and remove_address: the store's own.
AddStoreAddress ==
    /\ \E a \in Fresh : address' = [address EXCEPT ![a] = "store"]
    /\ UNCHANGED <<status, hidden, linked, call>>

RemoveStoreAddress(a) ==
    /\ address[a] = "store"
    /\ address' = [address EXCEPT ![a] = "deleted"]
    /\ UNCHANGED <<status, hidden, linked, call>>

\* remove_store deletes every address with the store's id.
RemoveStore ==
    /\ StoreGoes
    /\ address' = [a \in Ids |->
                     IF address[a] = "none" THEN "none" ELSE "deleted"]
    /\ address' # address
    /\ UNCHANGED <<status, hidden, linked, call>>

-----------------------------------------------------------------------------
(* The life of an order.  None of it looks at whether the address is live. *)

\* The events of a payment and a full refund write the order's status whatever
\* it was; to be paid for, an order must have had an address.
Payment(o) ==
    /\ linked[o] # 0 /\ OrderFree(o)
    /\ \E s \in {"pending", "processing"} : status' = [status EXCEPT ![o] = s]
    /\ UNCHANGED <<hidden, linked, address, call>>

\* toggle_status by the store, back and forth (what it asks of refunds is left
\* out), and cancel_order.  A pending order goes forward only when it is paid,
\* but for the status "paid".
Toggle(o) ==
    /\ status[o] \in {"pending", "processing", "shipped"}
    /\ o \notin hidden /\ OrderFree(o)
    /\ \E s \in Active \union Finished :
          /\ status[o] = "pending" /\ s \in {"processing", "shipped", "delivered"}
                => linked[o] # 0
          /\ status' = [status EXCEPT ![o] = s]
    /\ UNCHANGED <<hidden, linked, address, call>>

\* The sweep, and the portal that finds the order too old: one that was ordered
\* again is hidden as well.
Sweep(o) ==
    /\ status[o] = "pending" /\ o \notin hidden /\ OrderFree(o)
    /\ status' = [status EXCEPT ![o] = "cancelled"]
    /\ hidden' \in {hidden, hidden \union {o}}
    /\ UNCHANGED <<linked, address, call>>

\* reactivate_order.
Revive(o) ==
    /\ status[o] = "cancelled" /\ o \notin hidden /\ OrderFree(o)
    /\ status' = [status EXCEPT ![o] = "pending"]
    /\ UNCHANGED <<hidden, linked, address, call>>

\* delete_order.
Hide(o) ==
    /\ status[o] \in Finished \union {"shipped"} /\ OrderFree(o)
    /\ o \notin hidden
    /\ hidden' = hidden \union {o}
    /\ UNCHANGED <<status, linked, address, call>>

Next ==
    \/ \E o \in Orders : AddDelivery(o) \/ Payment(o) \/ Toggle(o) \/ Sweep(o)
                            \/ Revive(o) \/ Hide(o)
    \/ \E c \in Calls :
          \/ \E o \in Orders, a \in Ids : BeginChoose(c, o, a)
          \/ \E u \in Users, a \in Ids : BeginRemove(c, u, a)
          \/ CommitChoose(c) \/ CommitRemove(c) \/ Fail(c)
    \/ AddStoreAddress \/ RemoveStore \/ \E a \in Ids : RemoveStoreAddress(a)

Spec == Init /\ [][Next]_vars

\* No step of another handler while a request is at work.
InTurn == (\A c \in Calls : call[c].step = "idle")
             \/ \E c \in Calls : CommitChoose(c) \/ CommitRemove(c) \/ Fail(c)

-----------------------------------------------------------------------------
\* docs/delivery_address.md:37 (Active Order Lock): an active order is not left
\* with a deleted address.  The code does not keep this: an order that is
\* ordered again, or whose store is deleted, has one.
ActiveAddressLives ==
    \A o \in Orders : status[o] \in Active /\ linked[o] # 0
                         => address[linked[o]] # "deleted"

\* docs/delivery_address.md:37: remove_delivery_address deletes an address only
\* while none of its orders is active.  The code does not keep this when an
\* order chooses the address while the deletion waits for its locks.
DeletedIsUnused ==
    [][\A c \in Calls : CommitRemove(c)
          => \A o \in Orders : linked[o] = call[c].chosen
                                  => status[o] \notin Active]_vars

\* However choosing, deleting and the life of orders overlap, an address goes
\* only with its store, or by a deletion while none of its orders is active but
\* those that chose it after the deletion's statement had begun
\* (remove_delivery_address, choose_order_address).
AddressLocked ==
    [][\A a \in Ids : address[a] = "delivery" /\ address'[a] = "deleted"
          => \/ RemoveStore
             \/ \E c \in Calls : /\ Removing(c) /\ call[c].chosen = a
                                 /\ \A o \in Orders \ call[c].late :
                                       linked[o] = a => status[o] \in Finished
      ]_vars

\* docs/delivery_address.md, Logical Ownership Boundaries: an address serves
\* the orders of one customer, and never is the store's own.
OnePersonPerAddress ==
    \A o \in Orders : linked[o] # 0 =>
       /\ address[linked[o]] # "store"
       /\ \A p \in Orders : linked[p] = linked[o] => UserOf[p] = UserOf[o]
=============================================================================
