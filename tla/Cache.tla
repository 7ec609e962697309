------------------------------- MODULE Cache -------------------------------
(***************************************************************************)
(* One cached view.  A reader asks Redis for the version of its key, looks *)
(* the entry up under it, and on a miss queries the database and stores    *)
(* what it found; a writer commits and leaves the invalidation to a        *)
(* background task.  The version is a Redis key of its own and expires,    *)
(* later than the entries do.  Some views have no version: their entries   *)
(* are scanned for and unlinked, or are meant to be.                       *)
(***************************************************************************)
EXTENDS Integers

CONSTANTS
    Readers,
    Schemes,         \* which of "version", "scan" and "unawaited"
    MaxWrites,       \* bound: changes of the data
    MaxExpiries      \* bound: how often the version's key expires

CacheAssumption ==
    /\ Schemes \subseteq {"version", "scan", "unawaited"}
    /\ MaxWrites \in Nat /\ MaxExpiries \in Nat

Data == 0..MaxWrites
Versions == 1..(MaxWrites + 1)
Nothing == [data |-> -1, late |-> FALSE]

VARIABLES
    scheme,    \* how the view is invalidated, which never changes
    db,        \* the data, counted by its changes
    tasks,     \* invalidations still to be run, by the change they follow
    announced, \* the last change whose invalidation has run
    version,   \* value of the version's key, 0 when there is none
    late,      \* the version's key is older than an entry's life
    expiries,
    entry,     \* the view's entry under each version
    reader,    \* how far a request has come
    served     \* what the last request returned

vars == <<scheme, db, tasks, announced, version, late, expiries, entry,
          reader, served>>

Idle == [step |-> "idle", since |-> 0, under |-> 1, data |-> 0]

TypeOK ==
    /\ db \in Data /\ tasks \subseteq 1..db /\ announced \in 0..db
    /\ scheme \in Schemes
    /\ version \in Versions \union {0} /\ late \in BOOLEAN
    /\ \A v \in Versions : entry[v].data <= db
    /\ \A r \in Readers : reader[r].under <= MaxWrites + 1
    /\ served.data <= db /\ served.since <= announced

Init ==
    /\ scheme \in Schemes
    /\ db = 0 /\ tasks = {} /\ announced = 0
    /\ version = 0 /\ late = FALSE /\ expiries = 0
    /\ entry = [v \in Versions |-> Nothing]
    /\ reader = [r \in Readers |-> Idle]
    /\ served = [data |-> 0, since |-> 0]

Step(r, s) == reader' = [reader EXCEPT ![r].step = s]
Return(r, data) ==
    /\ served' = [data |-> data, since |-> reader[r].since]
    /\ reader' = [reader EXCEPT ![r] = Idle]

-----------------------------------------------------------------------------
\* cache_version: GET, and SET NX of 1 if there is none.
Begin(r) ==
    /\ reader[r].step = "idle"
    /\ reader' = [reader EXCEPT ![r] =
          [step |-> IF scheme = "version" /\ version = 0 THEN "set" ELSE "look",
           since |-> announced, data |-> 0,
           under |-> IF scheme = "version" /\ version # 0 THEN version ELSE 1]]
    /\ UNCHANGED <<scheme, db, tasks, announced, version, late, expiries,
                   entry, served>>

SetVersion(r) ==
    /\ reader[r].step = "set"
    /\ IF version = 0 THEN version' = 1 /\ late' = FALSE
                      ELSE UNCHANGED <<version, late>>
    /\ Step(r, "look")
    /\ UNCHANGED <<scheme, db, tasks, announced, expiries, entry, served>>

Lookup(r) ==
    LET e == entry[reader[r].under] IN
    /\ reader[r].step = "look"
    /\ IF e = Nothing THEN Step(r, "query") /\ UNCHANGED served
                      ELSE Return(r, e.data)
    /\ UNCHANGED <<scheme, db, tasks, announced, version, late, expiries,
                   entry>>

Query(r) ==
    /\ reader[r].step = "query"
    /\ reader' = [reader EXCEPT ![r].step = "fill", ![r].data = db]
    /\ UNCHANGED <<scheme, db, tasks, announced, version, late, expiries,
                   entry, served>>

\* Mutant: the version is read again when the entry is stored.
VersionNow(r) == IF version = 0 THEN 1 ELSE version
\* The key was built when the request began.
UnderVersion(r) == reader[r].under

Fill(r) ==
    /\ reader[r].step = "fill"
    /\ entry' = [entry EXCEPT ![UnderVersion(r)] =
                    [data |-> reader[r].data, late |-> late]]
    /\ Return(r, reader[r].data)
    /\ UNCHANGED <<scheme, db, tasks, announced, version, late, expiries>>

-----------------------------------------------------------------------------
Write ==
    /\ db < MaxWrites
    /\ db' = db + 1 /\ tasks' = tasks \union {db + 1}
    /\ UNCHANGED <<scheme, announced, version, late, expiries, entry,
                   reader, served>>

\* INCR, which makes a missing key 1, and EXPIRE.  Every entry stored so far
\* now goes before the version does.
Increment ==
    /\ version' = version + 1 /\ late' = FALSE
    /\ entry' = [v \in Versions |->
                   IF entry[v] = Nothing THEN Nothing
                   ELSE [entry[v] EXCEPT !.late = FALSE]]

Unlink == /\ entry' = [v \in Versions |-> Nothing]
          /\ UNCHANGED <<version, late>>

\* order_address_invalidation does not await the unlink, which never runs.
UnlinkUnawaited == UNCHANGED <<version, late, entry>>

Invalidate(n) ==
    /\ n \in tasks
    /\ tasks' = tasks \ {n}
    /\ announced' = IF n > announced THEN n ELSE announced
    /\ CASE scheme = "version" -> Increment
         [] scheme = "scan" -> Unlink
         [] scheme = "unawaited" -> UnlinkUnawaited
    /\ UNCHANGED <<scheme, db, expiries, reader, served>>

\* The server stops before the background task has run.
Lose(n) ==
    /\ n \in tasks /\ tasks' = tasks \ {n}
    /\ UNCHANGED <<scheme, db, announced, version, late, expiries, entry,
                   reader, served>>

\* The version's key reaches the age at which new entries may outlive it.
Age ==
    /\ version # 0 /\ ~late /\ expiries < MaxExpiries
    /\ late' = TRUE
    /\ UNCHANGED <<scheme, db, tasks, announced, version, expiries, entry,
                   reader, served>>

\* By then the entries stored while it was young are gone.
ExpireVersion ==
    /\ version # 0 /\ late
    /\ \A v \in Versions : entry[v] = Nothing \/ entry[v].late
    /\ version' = 0 /\ late' = FALSE /\ expiries' = expiries + 1
    /\ UNCHANGED <<scheme, db, tasks, announced, entry, reader, served>>

\* Mutant: entries are stored without a time to live.
NeverExpires(v) == FALSE /\ UNCHANGED vars

ExpireEntry(v) ==
    /\ entry[v] # Nothing
    /\ entry' = [entry EXCEPT ![v] = Nothing]
    /\ UNCHANGED <<scheme, db, tasks, announced, version, late, expiries,
                   reader, served>>

-----------------------------------------------------------------------------
Request(r) == Begin(r) \/ SetVersion(r) \/ Lookup(r) \/ Query(r) \/ Fill(r)

Next == \/ \E r \in Readers : Request(r)
        \/ Write \/ Age \/ ExpireVersion
        \/ \E n \in 1..MaxWrites : Invalidate(n) \/ Lose(n)
        \/ \E v \in Versions : ExpireEntry(v)

Spec == Init /\ [][Next]_vars

\* Requests that have begun go on, and Redis expires what it was told to.
Fairness ==
    /\ \A r \in Readers :
          WF_vars(SetVersion(r) \/ Lookup(r) \/ Query(r) \/ Fill(r))
    /\ \A v \in Versions : WF_vars(ExpireEntry(v))
FairSpec == Spec /\ Fairness

-----------------------------------------------------------------------------
\* Of a view with a version, a request that begins after the invalidation that
\* follows a change returns data with that change, whatever slower requests
\* store in between (docs/membership.md:22, docs/order.md:25), as long as the
\* version's key has never expired.
Fresh == scheme = "version" /\ expiries = 0 => served.data >= served.since

\* Whatever was invalidated, lost or forgotten, entries that are out of date
\* are gone in the end.
StaleEndsGone == <>[](\A v \in Versions : entry[v].data \in {-1, db})
=============================================================================
