------------------------------- MODULE Locks -------------------------------
(***************************************************************************)
(* The row locks of the transactions that move stock, taken one at a time. *)
(* A check-out, or a re-order, locks inventory rows in the order in which  *)
(* the database finds them and then the products it empties.  A            *)
(* cancellation locks its order and writes the rows of inventory and of    *)
(* products at the flush, each table by id, the tables in either order.  A *)
(* count locks an inventory row and then its product.                      *)
(***************************************************************************)
EXTENDS Integers, Sequences, SequencesExt, Sorting

CONSTANTS
    Sessions,
    Variants,   \* ids of inventory rows
    ProductOf   \* product ids, other numbers than the variants'

LocksAssumption ==
    /\ Variants \subseteq Nat /\ IsFiniteSet(Variants)
    /\ ProductOf \in [Variants -> Nat]
    /\ \A v \in Variants : ProductOf[v] \notin Variants

Rows == Variants \union {ProductOf[v] : v \in Variants}

VARIABLES
    plan,  \* the rows a session has yet to lock
    held   \* those it has locked

vars == <<plan, held>>

Busy(s) == plan[s] # <<>> \/ held[s] # {}

Init == /\ plan = [s \in Sessions |-> <<>>] /\ held = [s \in Sessions |-> {}]

ProductsOf(V) == {ProductOf[v] : v \in V}

Start(s, rows) == /\ ~Busy(s)
                  /\ plan' = [plan EXCEPT ![s] = rows] /\ UNCHANGED held

\* create_orders and reactivate_order: sorted() orders the IN list only.
CheckOut(s, V) ==
    \E rows \in SetToSeqs(V), P \in SUBSET ProductsOf(V) :
        \E empties \in SetToSeqs(P) : Start(s, rows \o empties)

\* restore_inventory: what is flushed is what has changed, a product when it
\* was out of stock.
Restore(s, V) ==
    \E P \in SUBSET ProductsOf(V) :
        \E variants \in Sorted(V), products \in Sorted(P) :
            \/ Start(s, variants \o products)
            \/ Start(s, products \o variants)

\* inventory.update.
Count(s, v) == Start(s, <<v>>) \/ Start(s, <<v, ProductOf[v]>>)

Free(row) == \A s \in Sessions : row \notin held[s]

Acquire(s) ==
    /\ plan[s] # <<>> /\ (Free(Head(plan[s])) \/ Head(plan[s]) \in held[s])
    /\ held' = [held EXCEPT ![s] = @ \union {Head(plan[s])}]
    /\ plan' = [plan EXCEPT ![s] = Tail(@)]

Commit(s) == /\ plan[s] = <<>> /\ held[s] # {}
             /\ held' = [held EXCEPT ![s] = {}] /\ UNCHANGED plan

\* Session s waits for a row that t holds.
Waits(s, t) == s # t /\ plan[s] # <<>> /\ Head(plan[s]) \in held[t]

\* The sessions that wait for each other in a circle: the largest set in
\* which each waits for another of the set.
Circle == UNION {S \in SUBSET Sessions :
                    \A s \in S : \E t \in S : Waits(s, t)}

\* Mutant: the victim's handler keeps the session as it is.
BreakWithoutRollback(s) == s \in Circle /\ UNCHANGED vars

\* The database aborts one of them, and its handler rolls back.
Break(s) ==
    /\ s \in Circle
    /\ plan' = [plan EXCEPT ![s] = <<>>] /\ held' = [held EXCEPT ![s] = {}]

Next ==
    \E s \in Sessions :
        \/ \E V \in (SUBSET Variants) \ {{}} : CheckOut(s, V) \/ Restore(s, V)
        \/ \E v \in Variants : Count(s, v)
        \/ Acquire(s) \/ Commit(s) \/ Break(s)

Spec == Init /\ [][Next]_vars

\* The database's queue for a row is first come, first served, and it looks
\* for circles for as long as one waits.
Fairness ==
    /\ \A s \in Sessions : SF_vars(Acquire(s)) /\ WF_vars(Commit(s))
    /\ WF_vars(\E s \in Sessions : Break(s))
FairSpec == Spec /\ Fairness

-----------------------------------------------------------------------------
\* Types, and no row is locked by two sessions.
TypeOK ==
    /\ plan \in [Sessions -> Seq(Rows)] /\ held \in [Sessions -> SUBSET Rows]
    /\ \A s, t \in Sessions : s # t => held[s] \cap held[t] = {}

\* Whatever order the rows come in, every transaction ends, in a commit or
\* as the victim of a deadlock.
EveryTransactionEnds == \A s \in Sessions : Busy(s) ~> ~Busy(s)
=============================================================================
