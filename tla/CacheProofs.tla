---------------------------- MODULE CacheProofs ----------------------------
(* What holds of Cache for any readers and any number of changes: its      *)
(* types, and that a versioned view is fresh while its version's key does  *)
(* not expire.                                                             *)
EXTENDS Cache, FiniteSets, FiniteSetTheorems, TLAPS

Steps == {"idle", "set", "look", "query", "fill"}

(* Types.  A version is a change whose invalidation has run, so that those *)
(* still to be run count against it.                                       *)
Typed ==
    /\ scheme \in Schemes /\ db \in Data
    /\ tasks \subseteq 1..db /\ announced \in 0..db
    /\ version \in Nat /\ late \in BOOLEAN /\ expiries \in Nat
    /\ entry \in [Versions -> [data : Int, late : BOOLEAN]]
    /\ reader \in [Readers -> [step : Steps, since : Nat, under : Versions,
                               data : Nat]]
    /\ served \in [data : Int, since : Nat]

Behind ==
    /\ \A v \in Versions : entry[v].data <= db
    /\ \A r \in Readers : reader[r].since <= announced /\ reader[r].data <= db
    /\ served.data <= db /\ served.since <= announced

Counted == version # 0 => version + Cardinality(tasks) <= db + 1

TInv == Typed /\ Behind /\ Counted

(* The versioned view.  Before there is a version nobody has looked.       *)
Young ==
    version = 0 =>
       /\ announced = 0
       /\ \A v \in Versions : entry[v] = Nothing
       /\ \A r \in Readers : reader[r].step \in {"idle", "set"}

(* Nobody uses a version that has not been given out.                      *)
GivenOut ==
    /\ \A r \in Readers : reader[r].under = 1 \/ reader[r].under <= version
    /\ \A v \in Versions : v > version => entry[v] = Nothing

(* What is under the present version, or will be, has every change that is *)
(* announced; what is under a reader's version has all that were announced *)
(* when it began.                                                          *)
Current ==
    /\ version \in Versions /\ entry[version] # Nothing
          => entry[version].data >= announced
    /\ \A r \in Readers : reader[r].step = "fill" /\ reader[r].under = version
          => reader[r].data >= announced

Promised ==
    \A r \in Readers : reader[r].step # "idle" =>
       /\ entry[reader[r].under] # Nothing
             => entry[reader[r].under].data >= reader[r].since
       /\ \A s \in Readers :
             reader[s].step = "fill" /\ reader[s].under = reader[r].under
                => reader[s].data >= reader[r].since

Answered == served.data >= served.since

(* Of a view with a version whose key has never expired.                   *)
Kept == scheme = "version" /\ expiries = 0
FInv == TInv /\ Young /\ GivenOut /\ Current /\ Promised /\ Answered

-----------------------------------------------------------------------------
USE DEF CacheAssumption, Data, Versions

(* The kinds of step.                                                      *)
LEMMA StepCases ==
  ASSUME CacheAssumption, [Next]_vars
  PROVE  \/ \E r \in Readers : \/ Begin(r) \/ SetVersion(r) \/ Lookup(r)
                               \/ Query(r) \/ Fill(r)
         \/ Write \/ Age \/ ExpireVersion
         \/ \E n \in 1..MaxWrites : Invalidate(n) \/ Lose(n)
         \/ \E v \in Versions : ExpireEntry(v)
         \/ UNCHANGED vars
  BY DEF Next, Request

LEMMA TasksFinite ==
  ASSUME CacheAssumption, TInv
  PROVE  /\ IsFiniteSet(tasks)
         /\ Cardinality(tasks) \in Nat /\ Cardinality(tasks) <= db
<1>1. db \in Nat /\ tasks \subseteq 1..db
  BY DEF TInv, Typed
<1>2. IsFiniteSet(1..db) /\ Cardinality(1..db) = db
  <2>1. IsFiniteSet(1..db)
        /\ Cardinality(1..db) = IF 1 > db THEN 0 ELSE db - 1 + 1
    BY <1>1, FS_Interval
  <2> QED BY <1>1, <2>1
<1>3. IsFiniteSet(tasks) /\ Cardinality(tasks) <= Cardinality(1..db)
  BY <1>1, <1>2, FS_Subset
<1> QED BY <1>2, <1>3, FS_CardinalityType

(* A version fits into Versions.                                           *)
LEMMA VersionFits ==
  ASSUME CacheAssumption
  PROVE  TInv /\ version # 0 => version \in Versions
  BY TasksFinite DEF TInv, Typed, Counted

LEMMA TaskRemoved ==
  ASSUME CacheAssumption, TInv, NEW n \in tasks
  PROVE  Cardinality(tasks \ {n}) = Cardinality(tasks) - 1
  BY TasksFinite, FS_RemoveElement

LEMMA TInit ==
  ASSUME CacheAssumption
  PROVE  Init => TInv
<1> SUFFICES ASSUME Init PROVE TInv
  OBVIOUS
<1>1. Nothing \in [data : Int, late : BOOLEAN] /\ Nothing.data = -1
  BY DEF Nothing
<1>2. /\ Idle \in [step : Steps, since : Nat, under : Versions, data : Nat]
      /\ Idle.since = 0 /\ Idle.data = 0
  BY DEF Idle, Steps
<1> HIDE DEF Nothing, Idle
<1>3. Typed
  <2>1. entry \in [Versions -> [data : Int, late : BOOLEAN]]
    BY <1>1 DEF Init
  <2>2. reader \in [Readers -> [step : Steps, since : Nat, under : Versions,
                                data : Nat]]
    BY <1>2 DEF Init
  <2>3. /\ db = 0 /\ db \in 0..MaxWrites /\ announced = 0 /\ tasks = {}
        /\ version = 0 /\ late = FALSE /\ expiries = 0 /\ scheme \in Schemes
        /\ served \in [data : Int, since : Nat]
    BY DEF Init
  <2>4. announced \in 0..db
    BY <2>3
  <2> QED BY <2>1, <2>2, <2>3, <2>4 DEF Typed
<1>4. Behind
  BY <1>1, <1>2 DEF Init, Behind
<1> QED BY <1>3, <1>4 DEF Init, TInv, Counted

(* A step of a reader.                                                     *)
LEMMA TRequest ==
  ASSUME CacheAssumption, TInv, NEW r \in Readers,
         Begin(r) \/ SetVersion(r) \/ Lookup(r) \/ Query(r) \/ Fill(r)
  PROVE  TInv'
<1>1. CASE Begin(r)
  <2>1. /\ reader' = [reader EXCEPT ![r] =
              [step |-> reader'[r].step, since |-> announced,
               under |-> reader'[r].under, data |-> 0]]
        /\ reader'[r].step \in Steps /\ reader'[r].under \in Versions
    BY <1>1, VersionFits DEF Begin, TInv, Typed, Steps
  <2>2. /\ \A s \in Readers : s # r => reader'[s] = reader[s]
        /\ reader'[r].since = announced /\ reader'[r].data = 0
    BY <2>1 DEF TInv, Typed
  <2>3. UNCHANGED <<scheme, db, tasks, announced, version, late, expiries,
                    entry, served>>
    BY <1>1 DEF Begin
  <2>4. Typed'
    <3>1. [step |-> reader'[r].step, since |-> announced,
           under |-> reader'[r].under, data |-> 0]
             \in [step : Steps, since : Nat, under : Versions, data : Nat]
      BY <2>1 DEF TInv, Typed
    <3>2. reader' \in [Readers -> [step : Steps, since : Nat,
                                   under : Versions, data : Nat]]
      BY <2>1, <3>1 DEF TInv, Typed
    <3> QED BY <2>3, <3>2 DEF TInv, Typed
  <2>5. Behind'
    <3>1. /\ db' = db /\ announced' = announced /\ announced <= db
          /\ entry' = entry /\ served' = served /\ db \in Nat
          /\ announced \in Nat
      BY <2>3 DEF TInv, Typed
    <3>2. \A s \in Readers : /\ reader'[s].since <= announced
                             /\ reader'[s].data <= db
      <4> TAKE s \in Readers
      <4>1. CASE s = r
        BY <2>2, <3>1, <4>1
      <4>2. CASE s # r
        BY <2>2, <3>1, <4>2 DEF TInv, Behind
      <4> QED BY <4>1, <4>2
    <3> QED BY <3>1, <3>2 DEF TInv, Behind
  <2> QED BY <2>3, <2>4, <2>5 DEF TInv, Counted
<1>2. CASE SetVersion(r)
  <2>1. /\ reader' = [reader EXCEPT ![r].step = "look"]
        /\ version' = IF version = 0 THEN 1 ELSE version
        /\ UNCHANGED <<scheme, db, tasks, announced, expiries, entry, served>>
        /\ late' \in BOOLEAN
    BY <1>2 DEF SetVersion, Step, TInv, Typed
  <2>2. Typed'
    BY <2>1 DEF TInv, Typed, Steps
  <2>3. Behind'
    BY <2>1 DEF TInv, Typed, Behind
  <2>4. Counted'
    BY <2>1, TasksFinite DEF TInv, Typed, Counted
  <2> QED BY <2>2, <2>3, <2>4 DEF TInv
<1>3. CASE Lookup(r)
  <2>1. UNCHANGED <<scheme, db, tasks, announced, version, late, expiries,
                    entry>>
    BY <1>3 DEF Lookup
  <2>2. CASE entry[reader[r].under] = Nothing
    <3>1. reader' = [reader EXCEPT ![r].step = "query"] /\ UNCHANGED served
      BY <1>3, <2>2 DEF Lookup, Step
    <3>2. Typed'
      BY <2>1, <3>1 DEF TInv, Typed, Steps
    <3>3. Behind'
      BY <2>1, <3>1 DEF TInv, Typed, Behind
    <3> QED BY <2>1, <3>2, <3>3 DEF TInv, Counted
  <2>3. CASE entry[reader[r].under] # Nothing
    <3>1. /\ served' = [data |-> entry[reader[r].under].data,
                        since |-> reader[r].since]
          /\ reader' = [reader EXCEPT ![r] = Idle]
      BY <1>3, <2>3 DEF Lookup, Return
    <3>2. Typed' /\ Behind'
      BY <2>1, <3>1 DEF TInv, Typed, Behind, Idle, Steps
    <3> QED BY <2>1, <3>2 DEF TInv, Counted
  <2> QED BY <2>2, <2>3
<1>4. CASE Query(r)
  <2>1. /\ reader' = [reader EXCEPT ![r].step = "fill", ![r].data = db]
        /\ UNCHANGED <<scheme, db, tasks, announced, version, late, expiries,
                       entry, served>>
    BY <1>4 DEF Query
  <2>2. reader' \in [Readers -> [step : Steps, since : Nat, under : Versions,
                                 data : Nat]]
    <3>1. db \in Nat /\ "fill" \in Steps
      BY DEF TInv, Typed, Steps
    <3> QED BY <2>1, <3>1 DEF TInv, Typed
  <2>3. Typed'
    BY <2>1, <2>2 DEF TInv, Typed
  <2>4. Behind'
    BY <2>1 DEF TInv, Typed, Behind
  <2> QED BY <2>1, <2>3, <2>4 DEF TInv, Counted
<1>5. CASE Fill(r)
  <2>1. /\ entry' = [entry EXCEPT ![reader[r].under] =
                        [data |-> reader[r].data, late |-> late]]
        /\ served' = [data |-> reader[r].data, since |-> reader[r].since]
        /\ reader' = [reader EXCEPT ![r] = Idle]
        /\ UNCHANGED <<scheme, db, tasks, announced, version, late, expiries>>
    BY <1>5 DEF Fill, Return, UnderVersion
  <2>2. Typed' /\ Behind'
    BY <2>1 DEF TInv, Typed, Behind, Idle, Steps
  <2> QED BY <2>1, <2>2 DEF TInv, Counted
<1> QED BY <1>1, <1>2, <1>3, <1>4, <1>5

LEMMA TWrite ==
  ASSUME CacheAssumption, TInv, Write
  PROVE  TInv'
<1>1. db + 1 \notin tasks
  BY DEF TInv, Typed
<1>2. Cardinality(tasks \union {db + 1}) = Cardinality(tasks) + 1
  BY <1>1, TasksFinite, FS_AddElement
<1>3. Typed' /\ Behind'
  BY DEF Write, TInv, Typed, Behind
<1>4. Counted'
  BY <1>2, TasksFinite DEF Write, TInv, Typed, Counted
<1> QED BY <1>3, <1>4 DEF TInv

LEMMA TInvalidate ==
  ASSUME CacheAssumption, TInv, NEW n \in 1..MaxWrites, Invalidate(n)
  PROVE  TInv'
<1>1. /\ n \in tasks /\ n \in 1..db /\ tasks' = tasks \ {n}
      /\ announced' \in {n, announced} /\ announced' >= announced
      /\ UNCHANGED <<scheme, db, expiries, reader, served>>
  BY DEF Invalidate, TInv, Typed
<1>2. /\ version' \in {version, version + 1} /\ late' \in BOOLEAN
      /\ \A v \in Versions : entry'[v].data \in {entry[v].data, -1}
      /\ entry' \in [Versions -> [data : Int, late : BOOLEAN]]
  <2>1. CASE Increment
    BY <2>1 DEF Increment, TInv, Typed, Nothing
  <2>2. CASE Unlink
    BY <2>2 DEF Unlink, TInv, Typed, Nothing
  <2>3. CASE UnlinkUnawaited
    BY <2>3 DEF UnlinkUnawaited, TInv, Typed
  <2>4. scheme \in {"version", "scan", "unawaited"}
    BY DEF TInv, Typed
  <2> QED BY <2>1, <2>2, <2>3, <2>4 DEF Invalidate
<1>3. Typed'
  BY <1>1, <1>2 DEF TInv, Typed
<1>4. Behind'
  <2>1. ASSUME NEW v \in Versions PROVE entry'[v].data <= db
    <3>1. entry'[v].data = entry[v].data \/ entry'[v].data = -1
      BY <1>2
    <3>2. entry[v].data <= db /\ db \in Nat
      BY DEF TInv, Typed, Behind
    <3> QED BY <3>1, <3>2
  <2>2. ASSUME NEW r \in Readers
        PROVE  reader[r].since <= announced' /\ reader[r].data <= db
    <3>1. announced \in Nat /\ announced' \in Nat /\ reader[r].since \in Nat
      BY <1>1 DEF TInv, Typed
    <3> QED BY <1>1, <3>1 DEF TInv, Behind
  <2>3. served.data <= db /\ served.since <= announced'
    <3>1. announced \in Nat /\ announced' \in Nat /\ served.since \in Nat
      BY <1>1 DEF TInv, Typed
    <3> QED BY <1>1, <3>1 DEF TInv, Behind
  <2> QED BY <1>1, <2>1, <2>2, <2>3 DEF Behind
<1>5. Cardinality(tasks') = Cardinality(tasks) - 1
  BY <1>1, TaskRemoved
<1>6. Counted'
  <2>1. /\ Cardinality(tasks) \in Nat /\ Cardinality(tasks) <= db
        /\ db \in Nat /\ version \in Nat /\ UNCHANGED db
        /\ Cardinality(tasks') = Cardinality(tasks) - 1
        /\ version # 0 => version + Cardinality(tasks) <= db + 1
    BY <1>1, <1>5, TasksFinite DEF TInv, Typed, Counted
  <2>2. version' = version \/ version' = version + 1
    BY <1>2
  <2> QED BY <2>1, <2>2 DEF Counted
<1> QED BY <1>3, <1>4, <1>6 DEF TInv

LEMMA TStep ==
  ASSUME CacheAssumption
  PROVE  TInv /\ [Next]_vars => TInv'
<1> SUFFICES ASSUME TInv, [Next]_vars PROVE TInv'
  OBVIOUS
<1>1. ASSUME NEW r \in Readers, Begin(r) \/ SetVersion(r) \/ Lookup(r)
                                   \/ Query(r) \/ Fill(r)
      PROVE TInv'
  BY <1>1, TRequest
<1>2. CASE Write
  BY <1>2, TWrite
<1>3. CASE Age
  BY <1>3 DEF Age, TInv, Typed, Behind, Counted
<1>4. CASE ExpireVersion
  <2>1. Typed'
    <3>1. /\ version' = 0 /\ late' = FALSE /\ expiries' = expiries + 1
          /\ UNCHANGED <<scheme, db, tasks, announced, entry, reader, served>>
      BY <1>4 DEF ExpireVersion
    <3>2. expiries' \in Nat
      BY <3>1 DEF TInv, Typed
    <3> QED BY <3>1, <3>2 DEF TInv, Typed
  <2>2. Behind'
    BY <1>4 DEF ExpireVersion, TInv, Behind
  <2> QED BY <1>4, <2>1, <2>2 DEF ExpireVersion, TInv, Counted
<1>5. ASSUME NEW n \in 1..MaxWrites, Invalidate(n) PROVE TInv'
  BY <1>5, TInvalidate
<1>6. ASSUME NEW n \in 1..MaxWrites, Lose(n) PROVE TInv'
  <2>1. Typed' /\ Behind'
    BY <1>6 DEF Lose, TInv, Typed, Behind
  <2>2. Counted'
    <3>1. /\ n \in tasks /\ tasks' = tasks \ {n}
          /\ UNCHANGED <<db, version>> /\ version \in Nat /\ db \in Nat
      BY <1>6 DEF Lose, TInv, Typed
    <3>2. Cardinality(tasks') = Cardinality(tasks) - 1
      BY <3>1, TaskRemoved
    <3> QED BY <3>1, <3>2, TasksFinite DEF TInv, Counted
  <2> QED BY <2>1, <2>2 DEF TInv
<1>7. ASSUME NEW v \in Versions, ExpireEntry(v) PROVE TInv'
  BY <1>7 DEF ExpireEntry, Nothing, TInv, Typed, Behind, Counted
<1>8. CASE UNCHANGED vars
  BY <1>8 DEF vars, TInv, Typed, Behind, Counted
<1> QED BY <1>1, <1>2, <1>3, <1>4, <1>5, <1>6, <1>7, <1>8, StepCases

(* TInv, the types with what bounds the versions (redis.py).               *)
THEOREM TypeInvariance ==
  ASSUME CacheAssumption
  PROVE  Spec => []TInv
  BY TInit, TStep, PTL DEF Spec

(* Types, however the view is invalidated and whether the version's key    *)
(* expires or not (redis.py).                                              *)
THEOREM TypeCorrect ==
  ASSUME CacheAssumption
  PROVE  Spec => []TypeOK
<1>1. TInv => TypeOK
  <2> SUFFICES ASSUME TInv PROVE TypeOK
    OBVIOUS
  <2>1. version \in Versions \union {0}
    BY VersionFits
  <2> QED BY <2>1 DEF TInv, Typed, Behind, TypeOK
<1> QED BY <1>1, TypeInvariance, PTL
-----------------------------------------------------------------------------
(* Freshness.                                                              *)

LEMMA FInit ==
  ASSUME CacheAssumption
  PROVE  Init /\ Kept => FInv
<1> SUFFICES ASSUME Init, Kept PROVE FInv
  OBVIOUS
<1>1. \A r \in Readers : reader[r].step = "idle" /\ reader[r].under = 1
  BY DEF Init, Idle
<1>2. \A v \in Versions : entry[v] = Nothing
  BY DEF Init
<1>3. served.data = 0 /\ served.since = 0
  BY DEF Init
<1> HIDE DEF Nothing, Idle
<1>4. Young /\ GivenOut
  BY <1>1, <1>2 DEF Init, Young, GivenOut
<1>5. Current /\ Promised /\ Answered
  BY <1>1, <1>2, <1>3 DEF Init, Current, Promised, Answered
<1> QED BY <1>4, <1>5, TInit DEF FInv

LEMMA FBegin ==
  ASSUME CacheAssumption,
         FInv, TInv', scheme = "version", NEW r \in Readers, Begin(r)
  PROVE  FInv'
<1>1. /\ \A s \in Readers : s # r => reader'[s] = reader[s]
      /\ reader'[r].since = announced
      /\ reader'[r].under = IF version # 0 THEN version ELSE 1
      /\ reader'[r].step = IF version = 0 THEN "set" ELSE "look"
      /\ UNCHANGED <<announced, version, late, entry, served>>
  BY DEF Begin, FInv, TInv, Typed
<1>2. version \in Nat /\ announced \in Nat
  BY DEF FInv, TInv, Typed
<1>3. Young'
  BY <1>1 DEF FInv, Young
<1>4. GivenOut'
  BY <1>1, <1>2 DEF FInv, GivenOut
<1>5. Current'
  BY <1>1 DEF FInv, Current
<1>6. Promised'
  <2> SUFFICES ASSUME NEW q \in Readers, reader'[q].step # "idle"
               PROVE  /\ entry[reader'[q].under] # Nothing =>
                            entry[reader'[q].under].data >= reader'[q].since
                      /\ \A s \in Readers : reader'[s].step = "fill"
                               /\ reader'[s].under = reader'[q].under
                            => reader'[s].data >= reader'[q].since
    BY <1>1 DEF Promised
  <2>1. \A s \in Readers : reader'[s].step = "fill" => reader'[s] = reader[s]
    BY <1>1
  <2>2. CASE q # r
    BY <1>1, <2>1, <2>2 DEF FInv, Promised
  <2>3. CASE q = r /\ version # 0
    <3>1. version \in Versions
      BY <2>3, VersionFits DEF FInv
    <3> QED BY <1>1, <2>1, <2>3, <3>1 DEF FInv, Current
  <2>4. CASE q = r /\ version = 0
    <3>1. /\ \A v \in Versions : entry[v] = Nothing
          /\ \A s \in Readers : reader[s].step # "fill"
      BY <2>4 DEF FInv, Young
    <3>2. reader'[r].under = 1 /\ 1 \in Versions
      BY <1>1, <2>4
    <3> QED BY <2>1, <2>4, <3>1, <3>2
  <2> QED BY <2>2, <2>3, <2>4
<1> QED BY <1>1, <1>3, <1>4, <1>5, <1>6 DEF FInv, Answered

LEMMA FSetVersion ==
  ASSUME CacheAssumption, FInv, TInv', NEW r \in Readers, SetVersion(r)
  PROVE  FInv'
<1>1. /\ \A s \in Readers : s # r => reader'[s] = reader[s]
      /\ reader'[r].step = "look" /\ reader'[r].since = reader[r].since
      /\ reader'[r].under = reader[r].under
      /\ reader[r].step = "set"
      /\ version' = IF version = 0 THEN 1 ELSE version
      /\ ~late => ~late'
      /\ UNCHANGED <<announced, entry, served>>
  BY DEF SetVersion, Step, FInv, TInv, Typed
<1>2. version \in Nat /\ version' \in Nat /\ version' # 0
  BY <1>1 DEF FInv, TInv, Typed
<1>3. Young'
  BY <1>1, <1>2 DEF FInv, Young
<1>4. GivenOut'
  <2>1. \A s \in Readers :
           reader'[s].under = reader[s].under /\ reader[s].under \in Nat
    <3>1. \A v \in Versions : v \in Nat
      OBVIOUS
    <3> QED BY <1>1, <3>1 DEF FInv, TInv, Typed
  <2>2. version <= version' /\ \A v \in Versions : v > version' => v > version
    BY <1>1, <1>2
  <2> QED BY <1>1, <1>2, <2>1, <2>2 DEF FInv, GivenOut
<1>5. \A s \in Readers : reader'[s].step = "fill" => reader'[s] = reader[s]
  BY <1>1
<1>6. Current'
  <2>1. CASE version = 0
    BY <1>1, <1>5, <2>1 DEF FInv, Young, Current
  <2>2. CASE version # 0
    BY <1>1, <1>5, <2>2 DEF FInv, Current
  <2> QED BY <2>1, <2>2
<1>7. Promised'
  BY <1>1, <1>5 DEF FInv, Promised
<1> QED BY <1>1, <1>3, <1>4, <1>6, <1>7 DEF FInv, Answered

LEMMA FLookup ==
  ASSUME CacheAssumption, FInv, TInv', NEW r \in Readers, Lookup(r)
  PROVE  FInv'
<1>1. UNCHANGED <<announced, version, late, entry>>
  BY DEF Lookup
<1>2. version # 0 /\ reader[r].step = "look" /\ reader[r].under \in Versions
  BY DEF Lookup, FInv, Young, TInv, Typed
<1>3. \A s \in Readers : s # r => reader'[s] = reader[s]
  BY DEF Lookup, Step, Return, FInv, TInv, Typed
<1>4. CASE entry[reader[r].under] = Nothing
  <2>1. /\ reader'[r].step = "query" /\ reader'[r].since = reader[r].since
        /\ reader'[r].under = reader[r].under /\ UNCHANGED served
    BY <1>4 DEF Lookup, Step, FInv, TInv, Typed
  <2>2. Young' /\ GivenOut' /\ Current'
    BY <1>1, <1>2, <1>3, <2>1 DEF FInv, Young, GivenOut, Current
  <2>3. Promised'
    BY <1>1, <1>2, <1>3, <2>1 DEF FInv, Promised
  <2> QED BY <2>1, <2>2, <2>3 DEF FInv, Answered
<1>5. CASE entry[reader[r].under] # Nothing
  <2>1. /\ reader'[r].step = "idle" /\ reader'[r].under = 1
        /\ served'.data = entry[reader[r].under].data
        /\ served'.since = reader[r].since
    BY <1>5 DEF Lookup, Return, Idle, FInv, TInv, Typed
  <2>2. Young' /\ GivenOut' /\ Current'
    BY <1>1, <1>2, <1>3, <2>1 DEF FInv, Young, GivenOut, Current
  <2>3. Promised'
    BY <1>1, <1>3, <2>1 DEF FInv, Promised
  <2>4. Answered'
    BY <1>2, <1>5, <2>1 DEF FInv, Promised, Answered
  <2> QED BY <2>2, <2>3, <2>4 DEF FInv
<1> QED BY <1>4, <1>5

LEMMA FQuery ==
  ASSUME CacheAssumption, FInv, TInv', NEW r \in Readers, Query(r)
  PROVE  FInv'
<1>1. /\ reader[r].step = "query" /\ reader'[r].step = "fill"
      /\ reader'[r].data = db /\ reader'[r].since = reader[r].since
      /\ reader'[r].under = reader[r].under
      /\ \A s \in Readers : s # r => reader'[s] = reader[s]
      /\ UNCHANGED <<announced, version, late, entry, served>>
  BY DEF Query, FInv, TInv, Typed
<1>2. /\ db \in Nat /\ announced \in Nat /\ announced <= db /\ version # 0
      /\ \A s \in Readers :
            reader[s].since \in Nat /\ reader[s].since <= announced
  <2>1. db \in Nat /\ announced \in Nat /\ announced <= db
    BY DEF FInv, TInv, Typed
  <2>2. version # 0
    BY <1>1 DEF FInv, Young
  <2>3. \A s \in Readers :
           reader[s].since \in Nat /\ reader[s].since <= announced
    BY DEF FInv, TInv, Typed, Behind
  <2> QED BY <2>1, <2>2, <2>3
<1>3. Young' /\ GivenOut'
  BY <1>1, <1>2 DEF FInv, Young, GivenOut
<1>4. Current'
  BY <1>1, <1>2 DEF FInv, Current
<1>5. Promised'
  <2> SUFFICES ASSUME NEW q \in Readers, reader'[q].step # "idle"
               PROVE  /\ entry[reader'[q].under] # Nothing =>
                            entry[reader'[q].under].data >= reader'[q].since
                      /\ \A s \in Readers : reader'[s].step = "fill"
                               /\ reader'[s].under = reader'[q].under
                            => reader'[s].data >= reader'[q].since
    BY <1>1 DEF Promised
  <2>1. /\ reader[q].step # "idle" /\ reader'[q].since = reader[q].since
        /\ reader'[q].under = reader[q].under
    BY <1>1
  <2>2. ASSUME NEW s \in Readers, reader'[s].step = "fill",
               reader'[s].under = reader'[q].under
        PROVE  reader'[s].data >= reader'[q].since
    <3>1. CASE s = r
      <4>1. reader[q].since <= db
        BY <1>2
      <4> QED BY <1>1, <2>1, <3>1, <4>1, <1>2
    <3>2. CASE s # r
      BY <1>1, <2>1, <2>2, <3>2 DEF FInv, Promised
    <3> QED BY <3>1, <3>2
  <2> QED BY <2>1, <2>2 DEF FInv, Promised
<1> QED BY <1>1, <1>3, <1>4, <1>5 DEF FInv, Answered

LEMMA FFill ==
  ASSUME CacheAssumption, FInv, TInv', NEW r \in Readers, Fill(r)
  PROVE  FInv'
<1> DEFINE u == reader[r].under
           d == reader[r].data
<1>1. /\ reader[r].step = "fill" /\ reader'[r].step = "idle"
      /\ reader'[r].under = 1
      /\ \A s \in Readers : s # r => reader'[s] = reader[s]
      /\ served'.data = d /\ served'.since = reader[r].since
      /\ UNCHANGED <<announced, version, late>>
  BY DEF Fill, Return, Idle, FInv, TInv, Typed
<1>2. /\ u \in Versions /\ entry'[u].data = d
      /\ \A v \in Versions : v # u => entry'[v] = entry[v]
  BY DEF Fill, UnderVersion, FInv, TInv, Typed
<1>3. version # 0 /\ version \in Nat
  BY <1>1 DEF FInv, Young, TInv, Typed
<1>4. u = 1 \/ u <= version
  BY DEF FInv, GivenOut
<1>5. /\ u = version => d >= announced
      /\ \A q \in Readers : reader[q].step # "idle" /\ reader[q].under = u
            => d >= reader[q].since
  BY <1>1 DEF FInv, Current, Promised
<1>6. d >= reader[r].since
  BY <1>1, <1>5
<1> HIDE DEF u, d
<1>7. Young'
  BY <1>1, <1>3 DEF FInv, Young
<1>8. GivenOut'
  BY <1>1, <1>2, <1>3, <1>4 DEF FInv, GivenOut
<1>9. Current'
  BY <1>1, <1>2, <1>5 DEF FInv, Current
<1>10. Promised'
  <2> SUFFICES ASSUME NEW q \in Readers, reader'[q].step # "idle"
               PROVE  /\ entry'[reader'[q].under] # Nothing =>
                            entry'[reader'[q].under].data >= reader'[q].since
                      /\ \A s \in Readers : reader'[s].step = "fill"
                               /\ reader'[s].under = reader'[q].under
                            => reader'[s].data >= reader'[q].since
    BY DEF Promised
  <2>1. q # r /\ reader'[q] = reader[q] /\ reader[q].under \in Versions
    BY <1>1 DEF FInv, TInv, Typed
  <2>2. CASE reader[q].under = u
    BY <1>1, <1>2, <1>5, <2>1, <2>2 DEF FInv, Promised
  <2>3. CASE reader[q].under # u
    BY <1>1, <1>2, <2>1, <2>3 DEF FInv, Promised
  <2> QED BY <2>2, <2>3
<1>11. Answered'
  BY <1>1, <1>6 DEF Answered
<1> QED BY <1>7, <1>8, <1>9, <1>10, <1>11 DEF FInv

(* The new version is one that nobody uses.                                *)
LEMMA FInvalidate ==
  ASSUME CacheAssumption,
         FInv, TInv', scheme = "version", NEW n \in 1..MaxWrites, Invalidate(n)
  PROVE  FInv'
<1>1. /\ version' = version + 1 /\ ~late' /\ UNCHANGED <<reader, served>>
      /\ version \in Nat
  BY DEF Invalidate, Increment, FInv, TInv, Typed
<1>2. \A v \in Versions : /\ entry[v] = Nothing => entry'[v] = Nothing
                          /\ entry'[v] # Nothing => entry[v] # Nothing
                                /\ entry'[v].data = entry[v].data
  BY DEF Invalidate, Increment, FInv, TInv, Typed
<1>3. \A r \in Readers :
         reader[r].under \in Versions /\ reader[r].under \in Nat
  <2>1. \A v \in Versions : v \in Nat
    OBVIOUS
  <2> QED BY <2>1 DEF FInv, TInv, Typed
<1>4. Young'
  BY <1>1 DEF Young
<1>5. GivenOut'
  <2>1. \A v \in Versions : v > version + 1 => v > version
    BY <1>1
  <2> QED BY <1>1, <1>2, <1>3, <2>1 DEF FInv, GivenOut
<1>6. Current'
  <2>1. version + 1 \in Versions => entry[version + 1] = Nothing
    BY <1>1 DEF FInv, GivenOut
  <2>2. ASSUME NEW r \in Readers, reader[r].step = "fill"
        PROVE  reader[r].under # version + 1
    <3>1. version # 0
      BY <2>2 DEF FInv, Young
    <3> QED BY <1>1, <1>3, <3>1 DEF FInv, GivenOut
  <2> QED BY <1>1, <1>2, <2>1, <2>2 DEF Current
<1>7. Promised'
  BY <1>1, <1>2, <1>3 DEF FInv, Promised
<1> QED BY <1>1, <1>4, <1>5, <1>6, <1>7 DEF FInv, Answered

(* What neither announces a change nor touches a version.                  *)
LEMMA FQuiet ==
  ASSUME CacheAssumption, FInv, TInv',
         UNCHANGED <<announced, version, reader, served>>,
         \A v \in Versions : entry'[v] \in {entry[v], Nothing}
  PROVE  FInv'
<1>1. \A r \in Readers : reader[r].under \in Versions
  BY DEF FInv, TInv, Typed
<1>2. Young' /\ GivenOut'
  BY DEF FInv, Young, GivenOut
<1>3. Current' /\ Promised' /\ Answered'
  BY <1>1 DEF FInv, Current, Promised, Answered
<1> QED BY <1>2, <1>3 DEF FInv

LEMMA FStep ==
  ASSUME CacheAssumption, TInv, Kept => FInv, [Next]_vars, Kept'
  PROVE  FInv'
<1>1. TInv'
  BY TStep
<1>2. Kept
  <2>1. scheme' = scheme /\ (expiries' = expiries \/ expiries' = expiries + 1)
    BY StepCases
    DEF Begin, SetVersion, Lookup, Query, Fill, Write, Age, ExpireVersion,
        Invalidate, Lose, ExpireEntry, vars
  <2>2. expiries \in Nat
    BY DEF TInv, Typed
  <2> QED BY <2>1, <2>2 DEF Kept
<1> FInv /\ scheme = "version"
  BY <1>2 DEF Kept
<1>3. ASSUME NEW r \in Readers, Begin(r) \/ SetVersion(r) \/ Lookup(r)
                                   \/ Query(r) \/ Fill(r)
      PROVE FInv'
  BY <1>1, <1>3, FBegin, FSetVersion, FLookup, FQuery, FFill
<1>4. CASE Write \/ Age
  BY <1>1, <1>4, FQuiet DEF Write, Age
<1>5. ~ExpireVersion
  BY <1>2 DEF ExpireVersion, Kept, TInv, Typed
<1>6. ASSUME NEW n \in 1..MaxWrites, Invalidate(n) PROVE FInv'
  BY <1>1, <1>6, FInvalidate
<1>7. ASSUME NEW n \in 1..MaxWrites, Lose(n) PROVE FInv'
  BY <1>1, <1>7, FQuiet DEF Lose
<1>8. ASSUME NEW v \in Versions, ExpireEntry(v) PROVE FInv'
  BY <1>1, <1>8, FQuiet DEF ExpireEntry, FInv, TInv, Typed
<1>9. CASE UNCHANGED vars
  BY <1>1, <1>9, FQuiet DEF vars
<1> QED BY <1>3, <1>4, <1>5, <1>6, <1>7, <1>8, <1>9, StepCases

(* A view invalidated by its version is fresh as long as the version's key *)
(* has not expired, however many readers are slow and whichever            *)
(* invalidations are late or lost (cache_version,                          *)
(* order_global_invalidation).                                             *)
THEOREM VersionedIsFresh ==
  ASSUME CacheAssumption
  PROVE  Spec => []Fresh
<1> DEFINE GInv == TInv /\ (Kept => FInv)
<1>1. Init => GInv
  BY TInit, FInit
<1>2. GInv /\ [Next]_vars => GInv'
  BY TStep, FStep
<1>3. GInv => Fresh
  BY DEF FInv, Answered, Fresh, Kept
<1> QED BY <1>1, <1>2, <1>3, PTL DEF Spec
=============================================================================
