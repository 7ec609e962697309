------------------------------ MODULE EventLog ------------------------------
(***************************************************************************)
(* What the notification pipeline promises: an event the database emits is *)
(* either stored or given up, in batches, and never both; it is stored     *)
(* again only when the answer to a commit was lost, so that nobody knows.  *)
(***************************************************************************)
EXTENDS Integers

CONSTANT Events

VARIABLES open,   \* emitted, neither stored for good nor given up
          rows,   \* rows[e]: Notification rows of e
          unheard \* events that were in a commit whose answer was lost

vars == <<open, rows, unheard>>

Init == open = {} /\ rows = [e \in Events |-> 0] /\ unheard = {}

Fresh == {e \in Events : rows[e] = 0} \ (open \union unheard)

Emit(S) == /\ S \subseteq Fresh
           /\ open' = open \union S
           /\ UNCHANGED <<rows, unheard>>

Plus(S) == [e \in Events |-> IF e \in S THEN rows[e] + 1 ELSE rows[e]]

Store(S) == /\ S \subseteq open
            /\ rows' = Plus(S)
            /\ open' = open \ S
            /\ UNCHANGED unheard

StoreUnheard(S, Dropped) ==
    /\ S \subseteq open /\ Dropped \subseteq S
    /\ rows' = Plus(S)
    /\ open' = open \ Dropped
    /\ unheard' = unheard \union S

GiveUp(S) == /\ S \subseteq open
             /\ open' = open \ S
             /\ UNCHANGED <<rows, unheard>>

Next == \E S \in SUBSET Events :
           \/ Emit(S) \/ Store(S) \/ GiveUp(S)
           \/ \E Dropped \in SUBSET S : StoreUnheard(S, Dropped)

Spec == Init /\ [][Next]_vars
=============================================================================
