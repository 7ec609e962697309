---------------------------- MODULE Notifications ----------------------------
(***************************************************************************)
(* From a database trigger to a Notification row.  In every server process *)
(* a router task listens to PostgreSQL and puts each payload in a bounded  *)
(* in-memory queue; a worker task collects batches, commits them, and puts *)
(* the items of a failed batch back until they have failed three times.    *)
(*                                                                         *)
(* An event is emitted once.  "bad" events cannot be stored: their payload *)
(* violates a constraint (a reply to a product review has no store_id).    *)
(***************************************************************************)
EXTENDS Integers, Sequences, FiniteSets, Sorting

CONSTANTS
    Events,     \* trigger firings
    Bad,        \* those whose row the database refuses
    Servers,    \* server processes
    QueueSize,  \* Queue(maxsize=1000)
    BatchSize,  \* items in a batch: 100
    MaxTries,   \* an item is dropped when its count of failures reaches 3
    MaxStops,   \* bound: crashes of routers and stops of servers
    LostAnswers \* whether the answer to a successful commit may be lost

PipelineAssumption ==
    /\ Bad \subseteq Events /\ IsFiniteSet(Events)
    /\ QueueSize \in Nat \ {0} /\ BatchSize \in Nat \ {0}
    /\ MaxTries \in Nat \ {0} /\ MaxStops \in Nat
    /\ LostAnswers \in BOOLEAN

VARIABLES
    emitted,   \* events whose trigger has fired
    listening, \* servers whose router is connected
    inbox,     \* inbox[s]: payloads received by the router of s
    queue,     \* queue[s]: notification_queue of s
    batch,     \* batch[s]: items the worker of s holds
    rows,      \* rows[e]: Notification rows of e
    unheard,   \* history: events in a commit whose answer was lost
    stops      \* crashes and stops so far

memory == <<inbox, queue, batch>>
vars   == <<emitted, listening, memory, rows, unheard, stops>>

Item == [ev : Events, retries : 0..(MaxTries - 1)]

TypeOK ==
    /\ emitted \subseteq Events /\ listening \subseteq Servers
    /\ inbox \in [Servers -> Seq(Events)]
    /\ queue \in [Servers -> Seq(Item)] /\ batch \in [Servers -> Seq(Item)]
    /\ \A s \in Servers : /\ Len(queue[s]) <= QueueSize
                          /\ Len(batch[s]) <= BatchSize
    /\ rows \in [Events -> Nat]
    /\ unheard \subseteq Events /\ stops \in 0..MaxStops

Empty == [s \in Servers |-> << >>]

Init == /\ emitted = {} /\ listening = Servers
        /\ inbox = Empty /\ queue = Empty /\ batch = Empty
        /\ rows = [e \in Events |-> 0] /\ unheard = {} /\ stops = 0

InBatch(s) == {batch[s][i].ev : i \in DOMAIN batch[s]}
HeldBy(s)  == {inbox[s][i] : i \in DOMAIN inbox[s]} \union InBatch(s)
                 \union {queue[s][i].ev : i \in DOMAIN queue[s]}

-----------------------------------------------------------------------------
(* PostgreSQL and the router.                                              *)

\* NOTIFY reaches those who are listening; nobody keeps it for the others.
Emit(e) ==
    /\ e \notin emitted
    /\ emitted' = emitted \union {e}
    /\ inbox' = [s \in Servers |-> IF s \in listening
                                   THEN Append(inbox[s], e) ELSE inbox[s]]
    /\ UNCHANGED <<listening, queue, batch, rows, unheard, stops>>

\* The router waits for room in the queue; publishing to Redis comes after.
Route(s) ==
    /\ inbox[s] # << >> /\ Len(queue[s]) < QueueSize
    /\ queue' = [queue EXCEPT ![s] =
                    Append(@, [ev |-> Head(inbox[s]), retries |-> 0])]
    /\ inbox' = [inbox EXCEPT ![s] = Tail(@)]
    /\ UNCHANGED <<emitted, listening, batch, rows, unheard, stops>>

RouterCrash(s) ==
    /\ s \in listening /\ stops < MaxStops
    /\ listening' = listening \ {s}
    /\ inbox' = [inbox EXCEPT ![s] = << >>]
    /\ stops' = stops + 1
    /\ UNCHANGED <<emitted, queue, batch, rows, unheard>>

Reconnect(s) ==
    /\ s \notin listening
    /\ listening' = listening \union {s}
    /\ UNCHANGED <<emitted, memory, rows, unheard, stops>>

\* The worker's attempt to save its batch on cancellation puts it in a queue
\* that ends with the process.
Shutdown(s) ==
    /\ stops < MaxStops
    /\ listening' = listening \ {s}
    /\ inbox' = [inbox EXCEPT ![s] = << >>]
    /\ queue' = [queue EXCEPT ![s] = << >>]
    /\ batch' = [batch EXCEPT ![s] = << >>]
    /\ stops' = stops + 1
    /\ UNCHANGED <<emitted, rows, unheard>>

-----------------------------------------------------------------------------
(* The worker.                                                             *)

Collect(s) ==
    /\ queue[s] # << >> /\ Len(batch[s]) < BatchSize
    /\ batch' = [batch EXCEPT ![s] = Append(@, Head(queue[s]))]
    /\ queue' = [queue EXCEPT ![s] = Tail(@)]
    /\ UNCHANGED <<emitted, listening, inbox, rows, unheard, stops>>

Stored(s) == [e \in Events |->
                 rows[e] + Cardinality({i \in DOMAIN batch[s] :
                                           batch[s][i].ev = e})]

Saveable(s) == batch[s] # << >> /\ InBatch(s) \intersect Bad = {}

\* Mutant: the batch is not a new list in every round.
CommitKeepingItems(s) ==
    /\ Saveable(s)
    /\ rows' = Stored(s)
    /\ queue' = queue /\ batch' = batch
    /\ UNCHANGED <<emitted, listening, inbox, unheard, stops>>

Commit(s) ==
    /\ Saveable(s)
    /\ rows' = Stored(s)
    /\ batch' = [batch EXCEPT ![s] = << >>]
    /\ UNCHANGED <<emitted, listening, inbox, queue, unheard, stops>>

Room(s) == QueueSize - Len(queue[s])

\* The items of a failed batch that have a try left, by their places in it.
Again(s) == {i \in DOMAIN batch[s] : batch[s][i].retries + 1 < MaxTries}

\* The items at those places that the queue has room for, counted again.
Retried(s, places, room) ==
    [i \in 1..(IF room < Len(places) THEN room ELSE Len(places)) |->
        [batch[s][places[i]] EXCEPT !.retries = @ + 1]]

\* Mutants: failures are not counted; retries ignore the queue's limit.
ToRetryUncounted(s) ==
    {[i \in 1..(IF Room(s) < Len(places) THEN Room(s) ELSE Len(places)) |->
         batch[s][places[i]]] : places \in Sorted(DOMAIN batch[s])}
ToRetryUnbounded(s) ==
    {Retried(s, places, Len(places)) : places \in Sorted(Again(s))}

\* The items that have failed too often are dropped, and those the queue has
\* no room for.
ToRetry(s) == {Retried(s, places, Room(s)) : places \in Sorted(Again(s))}

Requeue(s) ==
    /\ \E items \in ToRetry(s) : queue' = [queue EXCEPT ![s] = @ \o items]
    /\ batch' = [batch EXCEPT ![s] = << >>]
    /\ UNCHANGED <<emitted, listening, inbox, stops>>

CommitFails(s) ==
    /\ batch[s] # << >>
    /\ Requeue(s)
    /\ UNCHANGED <<rows, unheard>>

\* The connection breaks after the database has committed.
CommitUnheard(s) ==
    /\ LostAnswers /\ Saveable(s)
    /\ rows' = Stored(s)
    /\ unheard' = unheard \union InBatch(s)
    /\ Requeue(s)

Next == \/ \E e \in Events : Emit(e)
        \/ \E s \in Servers :
              \/ Route(s) \/ RouterCrash(s) \/ Reconnect(s) \/ Shutdown(s)
              \/ Collect(s) \/ Commit(s) \/ CommitFails(s) \/ CommitUnheard(s)

Spec == Init /\ [][Next]_vars

\* The router and the worker are loops; a batch that is collected is committed.
Fairness == \A s \in Servers :
               /\ WF_vars(Route(s)) /\ WF_vars(Reconnect(s))
               /\ WF_vars(Collect(s))
               /\ WF_vars(Commit(s) \/ CommitFails(s) \/ CommitUnheard(s))
FairSpec == Spec /\ Fairness

-----------------------------------------------------------------------------
\* One server implements the abstract log.  A batch that holds an event twice
\* after a lost answer does not occur: an item is in one place at a time.
Log == INSTANCE EventLog WITH
           open <- UNION {HeldBy(s) : s \in Servers},
           rows <- rows, unheard <- unheard

\* The pipeline of a server implements the abstract log: an event is stored or
\* given up, not both, and stored again only after a lost answer
\* (redis.py, add_commit_periodically).
ImplementsLog == Log!Spec

\* Every event that is emitted leaves the pipeline, whatever batches it is in
\* and however often they fail: no item is retried for ever and a full queue
\* does not block the router and the worker at once (redis.py,
\* add_commit_periodically and run_router).
EventIsSettled ==
    \A e \in Events : e \in emitted
        ~> [](\A s \in Servers : e \notin HeldBy(s))
=============================================================================
