------------------------------- MODULE Outbox -------------------------------
(***************************************************************************)
(* The transactional outbox of the chat: an event is stored in the         *)
(* transaction of its message, claimed under a lock that lapses, put into  *)
(* a Redis stream and marked published.  Every server process runs the     *)
(* loop publish_events; a claim's token is the server that holds it, since *)
(* a server has one claim at a time and forgets it when it crashes.        *)
(***************************************************************************)
EXTENDS Integers, FiniteSets

CONSTANTS
    Servers, Events,
    Limit,          \* claims after which an event is given up (5 in the code)
    MaxFaults,      \* bound: crashes and failures of Redis or the database
    AttemptsColumn  \* whether the counter the claim reads is a column

OutboxAssumption ==
    /\ IsFiniteSet(Servers) /\ "none" \notin Servers \union Events
    /\ Limit \in Nat \ {0} /\ MaxFaults \in Nat /\ AttemptsColumn \in BOOLEAN

VARIABLES
    row,    \* the rows of OutboxEvent
    holds,  \* holds[s]: the events s has claimed and not yet dealt with
    sent,   \* sent[s]: the event of s that is in the stream and not marked
    stream, \* stream[e]: how often e is in the stream
    faults

vars == <<row, holds, sent, stream, faults>>

None == "none"
Unclaimed(status) ==
    [status |-> status, token |-> None, attempts |-> 0, due |-> TRUE]

\* due: next_attempt_at of a pending row, locked_until of a claimed one, is
\* past.
TypeOK ==
    /\ row \in [Events -> [status : {None, "pending", "processing",
                                     "published", "dead_letter"},
                           token : Servers \union {None},
                           attempts : 0..Limit, due : BOOLEAN]]
    /\ \A e \in Events :
          (row[e].token # None) <=> (row[e].status = "processing")
    /\ holds \in [Servers -> SUBSET Events]
    /\ sent \in [Servers -> Events \union {None}]
    /\ \A s \in Servers : sent[s] \in holds[s] \union {None}
    /\ stream \in [Events -> Nat]
    /\ faults \in 0..MaxFaults

Init == /\ row = [e \in Events |-> Unclaimed(None)]
        /\ holds = [s \in Servers |-> {}]
        /\ sent = [s \in Servers |-> None]
        /\ stream = [e \in Events |-> 0]
        /\ faults = 0

Store(e) ==
    /\ row[e].status = None
    /\ row' = [row EXCEPT ![e] = Unclaimed("pending")]
    /\ UNCHANGED <<holds, sent, stream, faults>>

-----------------------------------------------------------------------------
Claimable(e) == row[e].status \in {"pending", "processing"} /\ row[e].due

\* Mutant: no limit to the attempts.
ClaimedForEver(e, s) ==
    [status |-> "processing", token |-> s, due |-> FALSE,
     attempts |-> IF row[e].attempts < Limit THEN row[e].attempts + 1
                                             ELSE Limit]

Claimed(e, s) ==
    IF row[e].attempts >= Limit
    THEN [row[e] EXCEPT !.status = "dead_letter", !.token = None]
    ELSE [status |-> "processing", token |-> s, due |-> FALSE,
          attempts |-> row[e].attempts + 1]

\* claim_outbox_events takes all it finds unlocked, in one transaction.  An
\* attribute that does not exist makes it return nothing.
Claim(s) ==
    LET found == {e \in Events : Claimable(e)} IN
    /\ AttemptsColumn /\ holds[s] = {} /\ found # {}
    /\ row' = [e \in Events |-> IF e \in found THEN Claimed(e, s) ELSE row[e]]
    /\ holds' = [holds EXCEPT ![s] = {e \in found : row'[e].token = s}]
    /\ UNCHANGED <<sent, stream, faults>>

\* Mutant: the event is marked without being added.
MarkOnly(s, e) ==
    /\ e \in holds[s] /\ sent[s] = None
    /\ sent' = [sent EXCEPT ![s] = e]
    /\ UNCHANGED <<row, holds, stream, faults>>

Publish(s, e) ==
    /\ e \in holds[s] /\ sent[s] = None
    /\ stream' = [stream EXCEPT ![e] = @ + 1]
    /\ sent' = [sent EXCEPT ![s] = e]
    /\ UNCHANGED <<row, holds, faults>>

LetGo(s, e) == /\ holds' = [holds EXCEPT ![s] = @ \ {e}]
               /\ sent' = [sent EXCEPT ![s] = None]

Held(s, e) == row[e].token = s

Mark(s) ==
    LET e == sent[s] IN
    /\ e # None
    /\ row' = IF Held(s, e)
              THEN [row EXCEPT ![e].status = "published", ![e].token = None]
              ELSE row
    /\ LetGo(s, e)
    /\ UNCHANGED <<stream, faults>>

Fault == faults < MaxFaults /\ faults' = faults + 1

\* The database fails when the event is marked; the loop goes on.
MarkFails(s) ==
    /\ sent[s] # None /\ Fault
    /\ LetGo(s, sent[s])
    /\ UNCHANGED <<row, stream>>

\* Mutant: the retry takes no notice of whose claim it is.
RetryUnfenced(s, e) ==
    /\ e \in holds[s] /\ sent[s] = None /\ Fault
    /\ row' = [row EXCEPT ![e].status = "pending", ![e].token = None,
                          ![e].due = FALSE]
    /\ LetGo(s, e)
    /\ UNCHANGED stream

\* xadd fails, before the entry is added or with its answer lost after, and
\* schedule_retry fails with it or not.
Retry(s, e) ==
    /\ e \in holds[s] /\ sent[s] = None /\ Fault
    /\ stream' \in {stream, [stream EXCEPT ![e] = @ + 1]}
    /\ \/ row' = row
       \/ row' = IF Held(s, e)
                 THEN [row EXCEPT ![e].status = "pending", ![e].token = None,
                                  ![e].due = FALSE]
                 ELSE row
    /\ LetGo(s, e)

Crash(s) ==
    /\ holds[s] # {} /\ Fault
    /\ holds' = [holds EXCEPT ![s] = {}]
    /\ sent' = [sent EXCEPT ![s] = None]
    /\ UNCHANGED <<row, stream>>

\* Five minutes pass for a row.
Lapse(e) ==
    /\ row[e].status \in {"pending", "processing"} /\ ~row[e].due
    /\ row' = [row EXCEPT ![e].due = TRUE]
    /\ UNCHANGED <<holds, sent, stream, faults>>

Work(s) == Claim(s) \/ Mark(s) \/ \E e \in Events : Publish(s, e)

Next == \/ \E e \in Events : Store(e) \/ Lapse(e)
        \/ \E s \in Servers : \/ Work(s) \/ MarkFails(s) \/ Crash(s)
                              \/ \E e \in Events : Retry(s, e)

Spec == Init /\ [][Next]_vars

-----------------------------------------------------------------------------
\* What is marked published has been put into the stream, over crashes and
\* lapsed claims (publish_events, mark_event_as_published).
PublishedIsInStream == \A e \in Events :
    row[e].status = "published" => stream[e] > 0

\* Duplicates are bounded: an event is in the stream at most as often as it may
\* be claimed (claim_outbox_events).
BoundedRepeats == \A e \in Events : stream[e] <= Limit

\* A claim in force is ended only by its holder: a server whose own claim has
\* lapsed neither publishes nor returns an event claimed by another since
\* (mark_event_as_published, schedule_retry).
ClaimStands == [][\A e \in Events : \A s \in Servers :
    row[e].token = s /\ ~row[e].due /\ row'[e].token # s
       => e \in holds[s] /\ e \notin holds'[s]]_vars
=============================================================================
