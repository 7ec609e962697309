------------------------- MODULE BackgroundProofs ---------------------------
(***************************************************************************)
(* What goes on behind the requests, for every value of the constants: the *)
(* outbox, the memberships, the notification pipeline and the row locks,   *)
(* each with its inductive invariant, and then the properties of           *)
(* MCBackground, in which a behaviour is one of them or of the cache.      *)
(***************************************************************************)
EXTENDS MCBackground, FiniteSetTheorems, SequenceTheorems, TLAPS

-----------------------------------------------------------------------------
(***************************************************************************)
(* The outbox, for any number of servers and events, any limit and any     *)
(* number of crashes.                                                      *)
(***************************************************************************)
OutboxRows ==
  [status : {None, "pending", "processing", "published", "dead_letter"},
   token : Servers \union {None}, attempts : 0..Limit, due : BOOLEAN]

(* The servers that have claimed an event and not put it in the stream.    *)
Owing(e) == {s \in Servers : e \in holds[s] /\ sent[s] # e}

(* Every appearance in the stream, done or to come, has its own claim.     *)
OutboxCounted == \A e \in Events :
    /\ stream[e] + Cardinality(Owing(e)) <= row[e].attempts
    /\ row[e].status = None => row[e].attempts = 0

(* What a server is about to mark is in the stream.                        *)
OutboxStreamed == \A s \in Servers : sent[s] # None => stream[sent[s]] > 0

OutboxInv == TypeOK /\ OutboxCounted /\ OutboxStreamed /\ PublishedIsInStream

USE DEF OutboxAssumption

LEMMA OutboxFields ==
  ASSUME OutboxAssumption, TypeOK, NEW e \in Events
  PROVE  /\ row[e] \in OutboxRows /\ row \in [Events -> OutboxRows]
         /\ row[e].attempts \in 0..Limit /\ row[e].due \in BOOLEAN
         /\ row[e].token \in Servers \union {None}
BY DEF TypeOK, OutboxRows

LEMMA OwingIsFinite ==
  ASSUME OutboxAssumption, NEW e \in Events
  PROVE  /\ IsFiniteSet(Owing(e)) /\ Cardinality(Owing(e)) \in Nat
         /\ IsFiniteSet(Owing(e)') /\ Cardinality(Owing(e)') \in Nat
<1>1. Owing(e) \subseteq Servers /\ Owing(e)' \subseteq Servers
  BY DEF Owing
<1> QED BY <1>1, FS_Subset, FS_CardinalityType

(* OutboxCounted is kept for an event that no more servers owe than        *)
(* before.                                                                 *)
LEMMA FewerOwe ==
  ASSUME OutboxAssumption,
         NEW e \in Events, TypeOK, OutboxCounted, Owing(e)' \subseteq Owing(e),
         stream'[e] = stream[e], row'[e].attempts = row[e].attempts
  PROVE  stream'[e] + Cardinality(Owing(e)') <= row'[e].attempts
<1>1. Cardinality(Owing(e)') <= Cardinality(Owing(e))
  BY OwingIsFinite, FS_Subset
<1> QED BY <1>1, OwingIsFinite, OutboxFields DEF OutboxCounted, TypeOK

LEMMA OutboxInit ==
  ASSUME OutboxAssumption
  PROVE  Init => OutboxInv
<1> SUFFICES ASSUME Init PROVE OutboxInv
  OBVIOUS
<1>1. Unclaimed(None) \in OutboxRows
  BY DEF Unclaimed, None, OutboxRows
<1>2. TypeOK
  <2>1. row \in [Events -> OutboxRows]
    BY <1>1 DEF Init
  <2>2. \A e \in Events : row[e].token = None /\ row[e].status = None
    BY DEF Init, Unclaimed
  <2> QED BY <2>1, <2>2 DEF Init, TypeOK, None, OutboxRows
<1>3. \A e \in Events : Cardinality(Owing(e)) = 0
  BY FS_EmptySet DEF Init, Owing
<1>4. OutboxCounted
  BY <1>3 DEF OutboxCounted, Init, Unclaimed
<1>5. OutboxStreamed /\ PublishedIsInStream
  BY DEF Init, OutboxStreamed, PublishedIsInStream, Unclaimed, None
<1> QED BY <1>2, <1>4, <1>5 DEF OutboxInv

LEMMA StoreKeeps ==
  ASSUME OutboxAssumption, OutboxInv, NEW e \in Events, Store(e)
  PROVE  OutboxInv'
<1>1. /\ row[e].status = None
      /\ row' = [row EXCEPT ![e] = Unclaimed("pending")]
      /\ UNCHANGED <<holds, sent, stream, faults>>
  BY DEF Store
<1>2. /\ row'[e] = Unclaimed("pending")
      /\ \A d \in Events : d # e => row'[d] = row[d]
  BY <1>1 DEF OutboxInv, TypeOK
<1>3. TypeOK'
  <2>1. /\ Unclaimed("pending") \in OutboxRows
        /\ Unclaimed("pending").token = None
        /\ Unclaimed("pending").status = "pending"
    BY DEF Unclaimed, OutboxRows, None
  <2>2. row' \in [Events -> OutboxRows]
    BY <1>1, <2>1, OutboxFields DEF OutboxInv
  <2> QED BY <1>1, <1>2, <2>1, <2>2 DEF OutboxInv, TypeOK, OutboxRows
<1>4. OutboxCounted'
  <2> SUFFICES ASSUME NEW d \in Events
               PROVE  /\ stream'[d] + Cardinality(Owing(d)')
                           <= row'[d].attempts
                      /\ row'[d].status = None => row'[d].attempts = 0
    BY DEF OutboxCounted
  <2>1. row'[d].attempts = row[d].attempts
    BY <1>1, <1>2 DEF Unclaimed, OutboxInv, OutboxCounted
  <2>2. Owing(d)' = Owing(d)
    BY <1>1 DEF Owing
  <2>3. row'[d].status = None => row'[d].attempts = 0
    BY <1>2 DEF Unclaimed, OutboxInv, OutboxCounted
  <2> QED BY <1>1, <2>1, <2>2, <2>3, FewerOwe DEF OutboxInv
<1>5. OutboxStreamed'
  BY <1>1 DEF OutboxInv, OutboxStreamed
<1>6. PublishedIsInStream'
  BY <1>1, <1>2 DEF OutboxInv, PublishedIsInStream, Unclaimed
<1> QED BY <1>3, <1>4, <1>5, <1>6 DEF OutboxInv

LEMMA ClaimKeeps ==
  ASSUME OutboxAssumption, OutboxInv, NEW s \in Servers, Claim(s)
  PROVE  OutboxInv'
<1> DEFINE found == {e \in Events : Claimable(e)}
           mine == {e \in found : row'[e].token = s}
<1>1. /\ holds[s] = {} /\ UNCHANGED <<sent, stream, faults>>
      /\ row' = [e \in Events |-> IF e \in found THEN Claimed(e, s)
                    ELSE row[e]]
      /\ holds' = [holds EXCEPT ![s] = mine]
  BY DEF Claim
<1>2. \A e \in Events :
         row'[e] = IF e \in found THEN Claimed(e, s) ELSE row[e]
  BY <1>1
<1>3. /\ holds'[s] = mine /\ mine \subseteq found /\ found \subseteq Events
      /\ \A t \in Servers : t # s => holds'[t] = holds[t]
      /\ sent[s] = None
  BY <1>1 DEF OutboxInv, TypeOK
<1>4. \A e \in found :
         /\ Claimed(e, s) \in OutboxRows
         /\ (Claimed(e, s).token # None)
              <=> (Claimed(e, s).status = "processing")
         /\ Claimed(e, s).token \in {s, None}
         /\ Claimed(e, s).status \in {"processing", "dead_letter"}
         /\ Claimed(e, s).attempts =
               IF Claimed(e, s).token = s THEN row[e].attempts + 1
                                          ELSE row[e].attempts
  <2> SUFFICES ASSUME NEW e \in found
               PROVE  /\ Claimed(e, s) \in OutboxRows
                      /\ (Claimed(e, s).token # None)
                            <=> (Claimed(e, s).status = "processing")
                      /\ Claimed(e, s).token \in {s, None}
                      /\ Claimed(e, s).status \in {"processing", "dead_letter"}
                      /\ Claimed(e, s).attempts =
                            IF Claimed(e, s).token = s
                            THEN row[e].attempts + 1 ELSE row[e].attempts
    OBVIOUS
  <2>1. row[e] \in OutboxRows /\ row[e].attempts \in 0..Limit /\ s # None
    BY OutboxFields DEF OutboxInv, None
  <2>2. CASE row[e].attempts >= Limit
    BY <2>1, <2>2 DEF Claimed, OutboxRows, None
  <2>3. CASE row[e].attempts < Limit
    BY <2>1, <2>3 DEF Claimed, OutboxRows, None
  <2> QED BY <2>1, <2>2, <2>3
<1> HIDE DEF found, mine
<1>5. TypeOK'
  <2>1. row' \in [Events -> OutboxRows]
    BY <1>1, <1>4, OutboxFields DEF OutboxInv
  <2>2. \A e \in Events :
           (row'[e].token # None) <=> (row'[e].status = "processing")
    BY <1>2, <1>4 DEF OutboxInv, TypeOK
  <2>3. holds' \in [Servers -> SUBSET Events]
    BY <1>1, <1>3 DEF OutboxInv, TypeOK
  <2>4. \A t \in Servers : sent'[t] \in holds'[t] \union {None}
    BY <1>1, <1>3 DEF OutboxInv, TypeOK
  <2> QED BY <1>1, <2>1, <2>2, <2>3, <2>4 DEF OutboxInv, TypeOK, OutboxRows
<1>6. OutboxCounted'
  <2> SUFFICES ASSUME NEW e \in Events
               PROVE  /\ stream'[e] + Cardinality(Owing(e)')
                           <= row'[e].attempts
                      /\ row'[e].status = None => row'[e].attempts = 0
    BY DEF OutboxCounted
  <2>1. row'[e].status = None => row'[e].attempts = 0
    BY <1>2, <1>4 DEF OutboxInv, OutboxCounted, None
  <2>2. CASE e \in mine
    <3>1. /\ e \in found /\ row'[e].token = s
          /\ row'[e].attempts = row[e].attempts + 1
      BY <1>2, <1>3, <1>4, <2>2 DEF mine
    <3>2. Owing(e)' = Owing(e) \union {s}
      BY <1>1, <1>3, <2>2 DEF Owing, None
    <3>3. s \notin Owing(e)
      BY <1>1 DEF Owing
    <3>4. Cardinality(Owing(e)') = Cardinality(Owing(e)) + 1
      BY <3>2, <3>3, OwingIsFinite, FS_AddElement
    <3> QED BY <1>1, <2>1, <3>1, <3>4, OwingIsFinite, OutboxFields
            DEF OutboxInv, OutboxCounted, TypeOK
  <2>3. CASE e \notin mine
    <3>1. row'[e].attempts = row[e].attempts
      BY <1>2, <1>4, <2>3 DEF mine
    <3>2. Owing(e)' \subseteq Owing(e)
      BY <1>1, <1>3, <2>3 DEF Owing
    <3> QED BY <1>1, <2>1, <3>1, <3>2, FewerOwe DEF OutboxInv
  <2> QED BY <2>2, <2>3
<1>7. OutboxStreamed'
  BY <1>1 DEF OutboxInv, OutboxStreamed
<1>8. PublishedIsInStream'
  BY <1>1, <1>2, <1>4 DEF OutboxInv, PublishedIsInStream
<1> QED BY <1>5, <1>6, <1>7, <1>8 DEF OutboxInv

LEMMA PublishKeeps ==
  ASSUME OutboxAssumption,
         OutboxInv, NEW s \in Servers, NEW e \in Events, Publish(s, e)
  PROVE  OutboxInv'
<1>1. /\ e \in holds[s] /\ sent[s] = None /\ UNCHANGED <<row, holds, faults>>
      /\ stream' = [stream EXCEPT ![e] = @ + 1]
      /\ sent' = [sent EXCEPT ![s] = e] /\ e # None
  BY DEF Publish, None
<1>2. \A d \in Events : stream[d] \in Nat
  BY DEF OutboxInv, TypeOK
<1>3. /\ stream'[e] = stream[e] + 1 /\ sent'[s] = e
      /\ \A d \in Events : d # e => stream'[d] = stream[d]
      /\ \A t \in Servers : t # s => sent'[t] = sent[t]
      /\ \A d \in Events : stream'[d] \in Nat /\ stream'[d] >= stream[d]
  BY <1>1, <1>2 DEF OutboxInv, TypeOK
<1>4. TypeOK'
  BY <1>1, <1>3 DEF OutboxInv, TypeOK
<1>5. OutboxCounted'
  <2> SUFFICES ASSUME NEW d \in Events
               PROVE  stream'[d] + Cardinality(Owing(d)') <= row'[d].attempts
    BY <1>1 DEF OutboxInv, OutboxCounted
  <2>1. CASE d = e
    <3>1. s \in Owing(e) /\ Owing(e)' = Owing(e) \ {s}
      BY <1>1, <1>3 DEF Owing
    <3>2. Cardinality(Owing(e)') = Cardinality(Owing(e)) - 1
      BY <3>1, OwingIsFinite, FS_RemoveElement
    <3> QED BY <1>1, <1>2, <1>3, <2>1, <3>2, OwingIsFinite, OutboxFields
            DEF OutboxInv, OutboxCounted
  <2>2. CASE d # e
    <3>1. Owing(d)' \subseteq Owing(d)
      BY <1>1, <1>3, <2>2 DEF Owing, None
    <3> QED BY <1>1, <1>3, <2>2, <3>1, FewerOwe DEF OutboxInv
  <2> QED BY <2>1, <2>2
<1>6. OutboxStreamed'
  <2> SUFFICES ASSUME NEW t \in Servers, sent'[t] # None
               PROVE  stream'[sent'[t]] > 0
    BY DEF OutboxStreamed
  <2>1. CASE t = s
    BY <1>2, <1>3, <2>1
  <2>2. CASE t # s
    <3>1. sent[t] \in Events /\ stream[sent[t]] > 0 /\ sent'[t] = sent[t]
      BY <1>3, <2>2 DEF OutboxInv, TypeOK, OutboxStreamed
    <3> QED BY <1>2, <1>3, <3>1
  <2> QED BY <2>1, <2>2
<1>7. PublishedIsInStream'
  BY <1>1, <1>2, <1>3 DEF OutboxInv, PublishedIsInStream
<1> QED BY <1>4, <1>5, <1>6, <1>7 DEF OutboxInv

(* A server that is done with what it held, however it ended: an event it  *)
(* lets go may have been added, no counter changes, and no row becomes     *)
(* published that is not in the stream.                                    *)
LEMMA EndKeeps ==
  ASSUME OutboxAssumption, OutboxInv, NEW s \in Servers,
         NEW H \in SUBSET holds[s],
         stream' \in [Events -> Nat], faults' \in 0..MaxFaults,
         \A e \in Events : \/ stream'[e] = stream[e]
                           \/ /\ stream'[e] = stream[e] + 1
                              /\ e \in holds[s] \ H /\ sent[s] # e,
         holds' = [holds EXCEPT ![s] = H],
         sent' = [sent EXCEPT ![s] = None],
         sent[s] # None => sent[s] \notin H,
         row' \in [Events -> OutboxRows],
         \A e \in Events : /\ row'[e].attempts = row[e].attempts
                           /\ row'[e].status = None => row[e].status = None
                           /\ row'[e].token # None
                                 <=> row'[e].status = "processing"
                           /\ row'[e].status = "published"
                                 => row[e].status = "published"
                                       \/ stream[e] > 0
  PROVE  OutboxInv'
<1>1. /\ holds'[s] = H /\ sent'[s] = None
      /\ \A t \in Servers : t # s => holds'[t] = holds[t] /\ sent'[t] = sent[t]
  BY DEF OutboxInv, TypeOK
<1>2. TypeOK'
  <2>1. holds' \in [Servers -> SUBSET Events]
    BY DEF OutboxInv, TypeOK
  <2>2. \A t \in Servers : sent'[t] \in holds'[t] \union {None}
    BY <1>1 DEF OutboxInv, TypeOK
  <2> QED BY <2>1, <2>2 DEF OutboxInv, TypeOK, OutboxRows
<1>3. OutboxCounted'
  <2> SUFFICES ASSUME NEW e \in Events
               PROVE  /\ stream'[e] + Cardinality(Owing(e)')
                           <= row'[e].attempts
                      /\ row'[e].status = None => row'[e].attempts = 0
    BY DEF OutboxCounted
  <2>1. row'[e].status = None => row'[e].attempts = 0
    BY DEF OutboxInv, OutboxCounted
  <2>2. Owing(e)' \subseteq Owing(e)
    BY <1>1 DEF Owing
  <2>3. CASE stream'[e] = stream[e]
    BY <2>1, <2>2, <2>3, FewerOwe DEF OutboxInv
  <2>4. CASE /\ stream'[e] = stream[e] + 1
             /\ e \in holds[s] \ H /\ sent[s] # e
    <3>1. Owing(e)' \subseteq Owing(e) \ {s} /\ s \in Owing(e)
      BY <1>1, <2>4 DEF Owing
    <3>2. /\ Cardinality(Owing(e) \ {s}) = Cardinality(Owing(e)) - 1
          /\ Cardinality(Owing(e)') <= Cardinality(Owing(e) \ {s})
      BY <3>1, OwingIsFinite, FS_RemoveElement, FS_Subset
    <3>3. stream[e] \in Nat /\ row[e].attempts \in 0..Limit
      BY OutboxFields DEF OutboxInv, TypeOK
    <3> QED BY <2>1, <2>4, <3>2, <3>3, OwingIsFinite
            DEF OutboxInv, OutboxCounted
  <2> QED BY <2>3, <2>4
<1>4. OutboxStreamed'
  <2>1. \A t \in Servers : sent'[t] # None => sent'[t] = sent[t] /\ t # s
    BY <1>1
  <2>2. \A t \in Servers : sent[t] # None => sent[t] \in Events
    BY DEF OutboxInv, TypeOK
  <2> QED BY <2>1, <2>2 DEF OutboxInv, OutboxStreamed, TypeOK
<1>5. PublishedIsInStream'
  BY DEF OutboxInv, PublishedIsInStream, TypeOK
<1> QED BY <1>2, <1>3, <1>4, <1>5 DEF OutboxInv

LEMMA MarkKeeps ==
  ASSUME OutboxAssumption, OutboxInv, NEW s \in Servers, Mark(s)
  PROVE  OutboxInv'
<1> DEFINE e == sent[s]
           marked == [row[e] EXCEPT !.status = "published", !.token = None]
<1>1. /\ e # None /\ e \in holds[s] /\ e \in Events /\ stream[e] > 0
      /\ stream' = stream /\ faults' \in 0..MaxFaults
      /\ holds' = [holds EXCEPT ![s] = @ \ {e}]
      /\ sent' = [sent EXCEPT ![s] = None]
  BY DEF Mark, LetGo, OutboxInv, TypeOK, OutboxStreamed
<1>2. row[e] \in OutboxRows /\ row \in [Events -> OutboxRows]
  BY <1>1, OutboxFields DEF OutboxInv
<1>3. /\ marked \in OutboxRows /\ marked.status = "published"
      /\ marked.token = None
      /\ marked.attempts = row[e].attempts
  BY <1>2 DEF OutboxRows, None
<1>4. row' = row \/ row' = [row EXCEPT ![e] = marked]
  BY <1>2 DEF Mark, OutboxRows
<1> HIDE DEF e, marked
<1>5. row' \in [Events -> OutboxRows]
  BY <1>2, <1>3, <1>4
<1>6. \A d \in Events : row'[d] = row[d] \/ (d = e /\ row'[d] = marked)
  BY <1>2, <1>4
<1>7. \A d \in Events : /\ row'[d].attempts = row[d].attempts
                        /\ row'[d].status = None => row[d].status = None
                        /\ row'[d].token # None
                              <=> row'[d].status = "processing"
                        /\ row'[d].status = "published"
                              => row[d].status = "published" \/ stream[d] > 0
  BY <1>1, <1>3, <1>6 DEF OutboxInv, TypeOK, None
<1>8. stream' \in [Events -> Nat]
  BY <1>1 DEF OutboxInv, TypeOK
<1> QED BY <1>1, <1>5, <1>7, <1>8, EndKeeps DEF e

(* The holder of a claim gives it back, or fails to.                       *)
LEMMA RetryKeeps ==
  ASSUME OutboxAssumption,
         OutboxInv, NEW s \in Servers, NEW e \in Events, Retry(s, e)
  PROVE  OutboxInv'
<1> DEFINE back == [row[e] EXCEPT !.status = "pending", !.token = None,
                                  !.due = FALSE]
<1>1. /\ sent[s] = None /\ e \in holds[s] /\ faults' \in 0..MaxFaults
      /\ holds' = [holds EXCEPT ![s] = @ \ {e}]
      /\ sent' = [sent EXCEPT ![s] = None]
  BY DEF Retry, LetGo, Fault, OutboxInv, TypeOK
<1>8. /\ stream' \in [Events -> Nat]
      /\ \A d \in Events : \/ stream'[d] = stream[d]
                           \/ stream'[d] = stream[d] + 1 /\ d = e
  BY DEF Retry, OutboxInv, TypeOK
<1>9. e # None
  BY DEF None
<1>2. row[e] \in OutboxRows /\ row \in [Events -> OutboxRows]
  BY OutboxFields DEF OutboxInv
<1>3. /\ back \in OutboxRows /\ back.status = "pending" /\ back.token = None
      /\ back.attempts = row[e].attempts
  BY <1>2 DEF OutboxRows, None
<1>4. row' = row \/ row' = [row EXCEPT ![e] = back]
  BY <1>2 DEF Retry, OutboxRows
<1> HIDE DEF back
<1>5. row' \in [Events -> OutboxRows]
  BY <1>2, <1>3, <1>4
<1>6. \A d \in Events : row'[d] = row[d] \/ (d = e /\ row'[d] = back)
  BY <1>2, <1>4
<1>7. \A d \in Events : /\ row'[d].attempts = row[d].attempts
                        /\ row'[d].status = None => row[d].status = None
                        /\ row'[d].token # None
                              <=> row'[d].status = "processing"
                        /\ row'[d].status = "published"
                              => row[d].status = "published" \/ stream[d] > 0
  BY <1>3, <1>6 DEF OutboxInv, TypeOK, None
<1>10. holds[s] \ {e} \in SUBSET holds[s]
  OBVIOUS
<1>11. \A d \in Events :
          \/ stream'[d] = stream[d]
          \/ /\ stream'[d] = stream[d] + 1
             /\ d \in holds[s] \ (holds[s] \ {e}) /\ sent[s] # d
  BY <1>1, <1>8, <1>9
<1> QED BY <1>1, <1>5, <1>7, <1>8, <1>10, <1>11, EndKeeps

LEMMA ForgetKeeps ==
  ASSUME OutboxAssumption, OutboxInv, NEW s \in Servers,
         MarkFails(s) \/ Crash(s)
  PROVE  OutboxInv'
<1> DEFINE H == IF MarkFails(s) THEN holds[s] \ {sent[s]} ELSE {}
<1>1. /\ H \in SUBSET holds[s] /\ (sent[s] # None => sent[s] \notin H)
      /\ holds' = [holds EXCEPT ![s] = H]
      /\ sent' = [sent EXCEPT ![s] = None]
      /\ UNCHANGED <<row, stream>> /\ faults' \in 0..MaxFaults
  <2>1. CASE MarkFails(s)
    BY <2>1 DEF MarkFails, LetGo, Fault, OutboxInv, TypeOK
  <2>2. CASE ~MarkFails(s)
    BY <2>2 DEF Crash, Fault, OutboxInv, TypeOK
  <2> QED BY <2>1, <2>2
<1> HIDE DEF H
<1>2. row' \in [Events -> OutboxRows]
  BY <1>1, OutboxFields DEF OutboxInv, TypeOK, OutboxRows
<1>3. \A d \in Events : /\ row'[d].attempts = row[d].attempts
                        /\ row'[d].status = None => row[d].status = None
                        /\ row'[d].token # None
                              <=> row'[d].status = "processing"
                        /\ row'[d].status = "published"
                              => row[d].status = "published" \/ stream[d] > 0
  BY <1>1 DEF OutboxInv, TypeOK
<1>4. stream' \in [Events -> Nat]
  BY <1>1 DEF OutboxInv, TypeOK
<1> QED BY <1>1, <1>2, <1>3, <1>4, EndKeeps

LEMMA LapseKeeps ==
  ASSUME OutboxAssumption, OutboxInv, NEW e \in Events, Lapse(e)
  PROVE  OutboxInv'
<1>1. /\ row' = [row EXCEPT ![e].due = TRUE]
      /\ UNCHANGED <<holds, sent, stream, faults>>
  BY DEF Lapse
<1>2. row \in [Events -> OutboxRows] /\ row[e] \in OutboxRows
  BY OutboxFields DEF OutboxInv
<1>3. row' \in [Events -> OutboxRows]
  BY <1>1, <1>2 DEF OutboxRows
<1>4. \A d \in Events : /\ row'[d].attempts = row[d].attempts
                        /\ row'[d].status = row[d].status
                        /\ row'[d].token = row[d].token
  BY <1>1, <1>2 DEF OutboxRows
<1>5. TypeOK'
  BY <1>1, <1>3, <1>4 DEF OutboxInv, TypeOK, OutboxRows
<1>6. OutboxCounted'
  <2>1. \A d \in Events : Owing(d)' = Owing(d)
    BY <1>1 DEF Owing
  <2> QED BY <1>1, <1>4, <2>1 DEF OutboxInv, OutboxCounted
<1>7. OutboxStreamed' /\ PublishedIsInStream'
  BY <1>1, <1>4 DEF OutboxInv, OutboxStreamed, PublishedIsInStream
<1> QED BY <1>5, <1>6, <1>7 DEF OutboxInv

LEMMA OutboxStep ==
  ASSUME OutboxAssumption
  PROVE  OutboxInv /\ [Next]_vars => OutboxInv'
<1> SUFFICES ASSUME OutboxInv, [Next]_vars PROVE OutboxInv'
  OBVIOUS
<1>1. CASE UNCHANGED vars
  <2>1. \A d \in Events : Owing(d)' = Owing(d)
    BY <1>1 DEF vars, Owing
  <2> QED BY <1>1, <2>1
             DEF vars, OutboxInv, TypeOK, OutboxCounted, OutboxStreamed,
                 PublishedIsInStream
<1>2. CASE Next
  BY <1>2, StoreKeeps, LapseKeeps, ClaimKeeps, MarkKeeps, PublishKeeps,
     ForgetKeeps, RetryKeeps DEF Next, Work
<1> QED BY <1>1, <1>2

(* OutboxInv, the inductive invariant of the outbox, holds under its own   *)
(* specification: claims, crashes and lapses of every server (the worker   *)
(* of websocket.py).                                                       *)
THEOREM OutboxInvariance ==
  ASSUME OutboxAssumption
  PROVE  Spec => []OutboxInv
<1> QED BY OutboxInit, OutboxStep, PTL DEF Spec

(* Types, and that a row has a token exactly while it is claimed.          *)
THEOREM OutboxTypeCorrect ==
  ASSUME OutboxAssumption
  PROVE  Spec => []TypeOK
<1>1. OutboxInv => TypeOK
  BY DEF OutboxInv
<1> QED BY <1>1, OutboxInvariance, PTL

(* What is marked published is in the stream, over any number of crashes   *)
(* and lapsed claims (publish_events, mark_event_as_published).            *)
THEOREM PublishedStreamed ==
  ASSUME OutboxAssumption
  PROVE  Spec => []PublishedIsInStream
<1>1. OutboxInv => PublishedIsInStream
  BY DEF OutboxInv
<1> QED BY <1>1, OutboxInvariance, PTL

(* No event is in the stream more often than it may be claimed, however    *)
(* many servers take it from one another (claim_outbox_events).            *)
THEOREM RepeatsBounded ==
  ASSUME OutboxAssumption
  PROVE  Spec => []BoundedRepeats
<1>1. OutboxInv => BoundedRepeats
  BY OwingIsFinite, OutboxFields
     DEF OutboxInv, TypeOK, OutboxCounted, BoundedRepeats
<1> QED BY <1>1, OutboxInvariance, PTL

(* A claim in force is ended by its holder alone (mark_event_as_published  *)
(* and schedule_retry compare the token, claim_outbox_events the time).    *)
THEOREM ClaimsStand ==
  ASSUME OutboxAssumption
  PROVE  Spec => ClaimStands
<1> DEFINE Fenced == \A e \in Events : \A s \in Servers :
              row[e].token = s /\ ~row[e].due /\ row'[e].token # s
                 => e \in holds[s] /\ e \notin holds'[s]
<1>1. OutboxInv /\ [Next]_vars => [Fenced]_vars
  <2> SUFFICES ASSUME OutboxInv, Next, NEW e \in Events, NEW s \in Servers,
                      row[e].token = s, ~row[e].due, row'[e].token # s
               PROVE  e \in holds[s] /\ e \notin holds'[s]
    OBVIOUS
  <2>1. row \in [Events -> OutboxRows] /\ s # None
        /\ row[e].status = "processing"
    BY OutboxFields DEF OutboxInv, TypeOK, None
  <2>2. ASSUME NEW d \in Events, Store(d) \/ Lapse(d) PROVE FALSE
    BY <2>1, <2>2 DEF Store, Lapse, OutboxRows, None
  <2>3. ASSUME NEW t \in Servers, Claim(t) \/ MarkFails(t) \/ Crash(t)
        PROVE FALSE
    BY <2>1, <2>3 DEF Claim, Claimable, MarkFails, Crash
  <2>4. ASSUME NEW t \in Servers, NEW d \in Events, Publish(t, d) PROVE FALSE
    BY <2>4 DEF Publish
  <2>5. ASSUME NEW t \in Servers, NEW d \in Events, d \in holds[t],
               row' # row => Held(t, d),
               \A x \in Events : x # d => row'[x] = row[x],
               LetGo(t, d)
        PROVE  e \in holds[s] /\ e \notin holds'[s]
    <3>1. d = e /\ t = s
      BY <2>5 DEF Held
    <3> QED BY <2>5, <3>1 DEF LetGo, OutboxInv, TypeOK
  <2>6. ASSUME NEW t \in Servers, Mark(t)
        PROVE  e \in holds[s] /\ e \notin holds'[s]
    <3>1. sent[t] \in Events /\ sent[t] \in holds[t] /\ LetGo(t, sent[t])
      BY <2>6 DEF Mark, OutboxInv, TypeOK
    <3>2. /\ row' # row => Held(t, sent[t])
          /\ \A x \in Events : x # sent[t] => row'[x] = row[x]
      BY <2>1, <2>6 DEF Mark
    <3> QED BY <2>5, <3>1, <3>2
  <2>7. ASSUME NEW t \in Servers, NEW d \in Events, Retry(t, d)
        PROVE  e \in holds[s] /\ e \notin holds'[s]
    <3>1. /\ d \in holds[t] /\ LetGo(t, d)
          /\ row' # row => Held(t, d)
          /\ \A x \in Events : x # d => row'[x] = row[x]
      BY <2>1, <2>7 DEF Retry
    <3> QED BY <2>5, <3>1
  <2> QED BY <2>2, <2>3, <2>4, <2>6, <2>7 DEF Next, Work
<1> HIDE DEF Fenced
<1>2. Spec => [][Fenced]_vars
  BY <1>1, OutboxInvariance, PTL DEF Spec
<1> QED BY <1>2 DEF ClaimStands, Fenced

HIDE DEF OutboxAssumption

-----------------------------------------------------------------------------
(* The instance's copy of FiniteSets is FiniteSets.                        *)
LEMMA MembershipFinite == \A S : Membership!IsFiniteSet(S) <=> IsFiniteSet(S)
  BY DEF Membership!IsFiniteSet, IsFiniteSet
LEMMA MembershipCardinality ==
  ASSUME NEW S PROVE Membership!Cardinality(S) = Cardinality(S)
  BY Zenon DEF Membership!Cardinality, Cardinality
USE MembershipFinite, MembershipCardinality

MemberRows == [row : {"none", "live", "deleted"}, active : BOOLEAN,
               type : Plans]
SubRows ==
  [status : Membership!Status, plan : Plans, expire : Membership!Times,
   lastAt : 0..MaxObjects,
   lastId : Membership!Signals \union {Membership!NoEvent}]
PageRows ==
  [mode : Modes, at : 1..MaxObjects, state : {"open", "paid", "expired"}]
BillingRows ==
  [at : 0..MaxObjects, until : Membership!Times, plan : Plans, on : BOOLEAN]

MemberTyped ==
    /\ now \in 1..MaxTime /\ member \in MemberRows /\ sub \in SubRows
    /\ editor \in Membership!Status \union {"idle"}
    /\ tasks \subseteq {"due", "on", "off"}
    /\ pages \subseteq PageRows /\ billing \in BillingRows
    /\ objects \in 0..MaxObjects /\ posted \subseteq Membership!Signals
    /\ acked \subseteq posted /\ credits \in Nat

\* What an event says of Stripe's objects.  An event of a page is that of its
\* state, which is final.
SignalOK(e) ==
    /\ e.at <= objects /\ e.until <= MaxTime + 1
    /\ e.kind = "completed" =>
          /\ e.until = 0 /\ e.plan = "-"
          /\ \E p \in pages : p.at = e.at /\ p.state = "paid"
    /\ e.kind = "expired" =>
          \E p \in pages : p.at = e.at /\ p.state = "expired"
    /\ e.kind \notin {"completed", "expired"} => \A p \in pages : p.at # e.at
    /\ e.kind \in {"updated", "invoice_paid"} => e.until # 0
         /\ e.plan \in Plans

\* Stripe numbers its objects.
StripeInv ==
    /\ IsFiniteSet(pages) /\ Cardinality(pages) <= objects
    /\ \A p \in pages : p.at <= objects
    /\ \A p, q \in pages : p.at = q.at => p = q
    /\ billing.until <= MaxTime + 1
    /\ billing.on => /\ billing.at \in 1..objects /\ billing.until # 0
                     /\ \A p \in pages : p.at # billing.at
    /\ \A e \in posted : SignalOK(e)

PaidBy(n) == {p \in pages : p.state = "paid" /\ p.at <= n}

\* The pages credited are paid and no later than the last event applied; what
\* activates a member is a period that is there.
PeriodInv ==
    /\ sub.lastAt = 0 \/ (sub.lastId \in posted /\ sub.lastId.at = sub.lastAt)
    /\ credits <= Cardinality(PaidBy(sub.lastAt))
    /\ sub.expire <= MaxTime + 1 + credits
    /\ Membership!ActiveHasPeriod
    /\ "on" \in tasks => sub.expire # 0

MemberInv == MemberTyped /\ StripeInv /\ PeriodInv

LEMMA MemberNumbers ==
  ASSUME Membership!MembershipAssumption, MemberTyped
  PROVE  /\ MaxTime \in Nat /\ MaxObjects \in Nat /\ objects \in Nat
         /\ now \in Nat /\ now # 0 /\ now <= MaxTime
         /\ sub.expire \in Nat /\ sub.lastAt \in 0..MaxObjects
         /\ billing.until \in Nat /\ billing.at \in 0..MaxObjects
         /\ \A p \in pages : p.at \in 1..MaxObjects
         /\ \A e \in posted : e.at \in 1..MaxObjects /\ e.until \in Nat
  BY DEF Membership!MembershipAssumption, MemberTyped, SubRows, BillingRows,
         PageRows, Membership!Signals, Membership!Times

\* Periods far enough below the bound of Times.
LEMMA MemberTimes ==
  ASSUME Membership!MembershipAssumption, NEW t \in Nat,
         t <= MaxTime + 1 + MaxObjects
  PROVE  t \in Membership!Times
  BY DEF Membership!MembershipAssumption, Membership!Times

LEMMA PaidByFinite ==
  ASSUME StripeInv, NEW n
  PROVE  IsFiniteSet(PaidBy(n)) /\ Cardinality(PaidBy(n)) \in Nat
         /\ Cardinality(PaidBy(n)) <= Cardinality(pages)
<1>1. PaidBy(n) \subseteq pages
  BY DEF PaidBy
<1> QED BY <1>1, FS_Subset, FS_CardinalityType DEF StripeInv

LEMMA MemberInit == Membership!MembershipAssumption /\ Membership!Init
                      => MemberInv
<1> SUFFICES ASSUME Membership!MembershipAssumption, Membership!Init
             PROVE  MemberInv
  OBVIOUS
<1>0. 0 \in Membership!Times /\ MaxTime \in Nat \ {0} /\ MaxObjects \in Nat
  BY MemberTimes DEF Membership!MembershipAssumption
<1>1. MemberTyped
  <2>1. member \in MemberRows
    BY DEF Membership!Init, MemberRows
  <2>2. sub \in SubRows
    BY <1>0 DEF Membership!Init, SubRows, Membership!Status
  <2>3. billing \in BillingRows
    BY <1>0 DEF Membership!Init, BillingRows
  <2> QED BY <1>0, <2>1, <2>2, <2>3 DEF Membership!Init, MemberTyped
<1>2. IsFiniteSet({}) /\ Cardinality({}) = 0
  BY FS_EmptySet
<1>3. billing.until = 0 /\ billing.on = FALSE /\ sub.lastAt = 0
      /\ sub.expire = 0 /\ member.active = FALSE
  BY DEF Membership!Init
<1>4. StripeInv
  BY <1>0, <1>2, <1>3 DEF Membership!Init, StripeInv
<1>5. PaidBy(sub.lastAt) = {}
  BY DEF Membership!Init, PaidBy
<1>6. PeriodInv
  BY <1>0, <1>2, <1>3, <1>5
     DEF Membership!Init, PeriodInv, Membership!ActiveHasPeriod
<1> QED BY <1>1, <1>4, <1>6 DEF MemberInv

\* Steps of the shop: Stripe's objects and events stay.
LEMMA ShopStep ==
  ASSUME Membership!MembershipAssumption, MemberInv,
         UNCHANGED Membership!stripe,
         MemberTyped', PeriodInv'
  PROVE  MemberInv'
<1>1. StripeInv'
  BY DEF Membership!stripe, MemberInv, StripeInv, SignalOK
<1> QED BY <1>1 DEF MemberInv

\* Steps that leave the period and the events applied as they are.
LEMMA RowStep ==
  ASSUME Membership!MembershipAssumption, MemberInv,
         UNCHANGED <<Membership!stripe, credits>>,
         MemberTyped',
         sub'.expire = sub.expire, sub'.lastAt = sub.lastAt,
         sub'.lastId = sub.lastId,
         member'.active => sub.expire # 0,
         "on" \in tasks' => sub.expire # 0
  PROVE  MemberInv'
<1>1. PaidBy(sub.lastAt)' = PaidBy(sub.lastAt)
  BY DEF Membership!stripe, PaidBy
<1>2. PeriodInv'
  BY <1>1
     DEF Membership!stripe, MemberInv, PeriodInv, Membership!ActiveHasPeriod
<1> QED BY <1>2, ShopStep

LEMMA MemberFields ==
  ASSUME MemberTyped
  PROVE  /\ member.row \in {"none", "live", "deleted"}
         /\ member.active \in BOOLEAN /\ member.type \in Plans
         /\ sub.status \in Membership!Status /\ sub.plan \in Plans
         /\ sub.lastId \in Membership!Signals \union {Membership!NoEvent}
         /\ sub.expire \in Membership!Times /\ sub.lastAt \in 0..MaxObjects
  BY DEF MemberTyped, MemberRows, SubRows

-----------------------------------------------------------------------------
LEMMA MemberActions ==
  ASSUME Membership!MembershipAssumption, MemberInv, Membership!Member
  PROVE  MemberInv'
<1>0. /\ MemberTyped /\ (member.active => sub.expire # 0)
      /\ ("on" \in tasks => sub.expire # 0)
  BY DEF MemberInv, PeriodInv, Membership!ActiveHasPeriod
<1>1. ASSUME NEW p \in Plans, Membership!MakeMember(p) PROVE MemberInv'
  <2>1. /\ member' \in MemberRows /\ ~member'.active
        /\ UNCHANGED <<now, editor, tasks, Membership!stripe, acked, credits>>
    BY <1>1 DEF Membership!MakeMember, MemberRows
  <2>2. /\ sub' \in SubRows /\ sub'.expire = sub.expire
        /\ sub'.lastAt = sub.lastAt /\ sub'.lastId = sub.lastId
    BY <1>0, <1>1 DEF Membership!MakeMember, MemberTyped, SubRows
  <2>3. MemberTyped'
    BY <1>0, <2>1, <2>2 DEF MemberTyped, Membership!stripe
  <2> QED BY <1>0, <2>1, <2>2, <2>3, RowStep
<1>2. ASSUME NEW p \in Plans, Membership!Update(p) PROVE MemberInv'
  <2>1. /\ member' \in MemberRows /\ member'.active = member.active
        /\ editor' = "idle"
        /\ UNCHANGED <<now, tasks, Membership!stripe, acked, credits>>
    BY <1>0, <1>2 DEF Membership!Update, MemberTyped, MemberRows
  <2>2. /\ sub' \in SubRows /\ sub'.expire = sub.expire
        /\ sub'.lastAt = sub.lastAt /\ sub'.lastId = sub.lastId
    BY <1>0, <1>2 DEF Membership!Update, MemberTyped, SubRows
  <2>3. MemberTyped'
    BY <1>0, <2>1, <2>2 DEF MemberTyped, Membership!stripe
  <2> QED BY <1>0, <2>1, <2>2, <2>3, RowStep
<1>3. CASE Membership!ReadForUpdate
  <2>1. editor' \in Membership!Status
        /\ UNCHANGED <<now, Membership!rows, tasks, Membership!stripe, acked,
                       credits>>
    BY <1>0, <1>3, MemberFields DEF Membership!ReadForUpdate
  <2>2. MemberTyped'
    BY <1>0, <2>1 DEF MemberTyped, Membership!stripe, Membership!rows
  <2> QED BY <1>0, <2>1, <2>2, RowStep DEF Membership!rows
<1>4. CASE Membership!LeaveUpdate
  <2>1. editor' = "idle"
        /\ UNCHANGED <<now, Membership!rows, tasks, Membership!stripe, acked,
                       credits>>
    BY <1>4 DEF Membership!LeaveUpdate
  <2>2. MemberTyped'
    BY <1>0, <2>1 DEF MemberTyped, Membership!stripe, Membership!rows
  <2> QED BY <1>0, <2>1, <2>2, RowStep DEF Membership!rows
<1>5. CASE Membership!DeleteMember
  <2>1. /\ member' \in MemberRows /\ ~member'.active
        /\ UNCHANGED <<now, sub, editor, tasks, Membership!stripe, acked,
                       credits>>
    BY <1>0, <1>5 DEF Membership!DeleteMember, MemberTyped, MemberRows
  <2>2. MemberTyped'
    BY <1>0, <2>1 DEF MemberTyped, Membership!stripe
  <2> QED BY <1>0, <2>1, <2>2, RowStep
<1>6. CASE Membership!RestoreMembership
  <2>1. /\ member' \in MemberRows /\ member'.active = member.active
        /\ UNCHANGED <<now, sub, editor, tasks, Membership!stripe, acked,
                       credits>>
    BY <1>0, <1>6 DEF Membership!RestoreMembership, MemberTyped, MemberRows
  <2>2. MemberTyped'
    BY <1>0, <2>1 DEF MemberTyped, Membership!stripe
  <2> QED BY <1>0, <2>1, <2>2, RowStep
<1>7. ASSUME NEW m \in Modes, Membership!CreatePayment(m) PROVE MemberInv'
  <2> PICK p : p = [mode |-> m, at |-> objects + 1, state |-> "open"]
    OBVIOUS
  <2>1. /\ objects < MaxObjects /\ objects' = objects + 1
        /\ pages' = pages \union {p}
        /\ UNCHANGED <<now, Membership!rows, editor, tasks, billing, posted,
                       acked, credits>>
    BY <1>7 DEF Membership!CreatePayment
  <2>2. /\ objects \in Nat /\ MaxObjects \in Nat
        /\ objects + 1 \in 1..MaxObjects
    BY <1>0, <2>1, MemberNumbers
  <2>3. /\ p \in PageRows /\ p.at = objects + 1 /\ p.state = "open"
    BY <2>2 DEF PageRows
  <2>4. MemberTyped'
    BY <1>0, <2>1, <2>2, <2>3 DEF MemberTyped, Membership!rows
  <2>5. \A q \in pages : q.at \in 1..MaxObjects /\ q.at <= objects
    BY <1>0, MemberNumbers DEF MemberInv, StripeInv
  <2>6. p \notin pages
    BY <2>2, <2>3, <2>5
  <2>7. /\ IsFiniteSet(pages') /\ Cardinality(pages') = Cardinality(pages) + 1
        /\ Cardinality(pages) \in Nat
    BY <2>1, <2>6, FS_AddElement, FS_CardinalityType DEF MemberInv, StripeInv
  <2>8. \A e \in posted : SignalOK(e)'
    <3> SUFFICES ASSUME NEW e \in posted PROVE SignalOK(e)'
      OBVIOUS
    <3>1. SignalOK(e) /\ e.at \in 1..MaxObjects
      BY <1>0, MemberNumbers DEF MemberInv, StripeInv
    <3>2. e.at <= objects' /\ p.at # e.at
      BY <2>1, <2>2, <2>3, <3>1 DEF SignalOK
    <3> QED BY <2>1, <3>1, <3>2 DEF SignalOK
  <2>9. StripeInv'
    <3>1. Cardinality(pages') <= objects'
      BY <2>1, <2>2, <2>7 DEF MemberInv, StripeInv
    <3>2. \A q \in pages' : q.at <= objects'
      BY <2>1, <2>2, <2>3, <2>5
    <3>3. \A q, r \in pages' : q.at = r.at => q = r
      BY <2>1, <2>2, <2>3, <2>5 DEF MemberInv, StripeInv
    <3>4. billing.on => /\ billing.at \in 1..objects' /\ billing.until # 0
                        /\ \A q \in pages' : q.at # billing.at
      BY <2>1, <2>2, <2>3 DEF MemberInv, StripeInv
    <3> QED BY <2>1, <2>7, <2>8, <3>1, <3>2, <3>3, <3>4
            DEF MemberInv, StripeInv
  <2>10. PaidBy(sub.lastAt)' = PaidBy(sub.lastAt)
    BY <2>1, <2>3 DEF PaidBy, Membership!rows
  <2>11. PeriodInv'
    BY <2>1, <2>10
       DEF MemberInv, PeriodInv, Membership!ActiveHasPeriod, Membership!rows
  <2> QED BY <2>4, <2>9, <2>11 DEF MemberInv
<1> QED BY <1>1, <1>2, <1>3, <1>4, <1>5, <1>6, <1>7 DEF Membership!Member

-----------------------------------------------------------------------------
\* Steps of Stripe: the shop's rows stay, and paid pages stay paid.
LEMMA StripeKeeps ==
  ASSUME Membership!MembershipAssumption, MemberInv,
         UNCHANGED <<now, Membership!rows, editor, tasks, acked, credits>>,
         pages' \subseteq PageRows, billing' \in BillingRows,
         objects' \in 0..MaxObjects, posted \subseteq posted',
         posted' \subseteq Membership!Signals, StripeInv',
         \A p \in pages : p.state = "paid" => p \in pages'
  PROVE  MemberInv'
<1>1. MemberTyped'
  BY DEF MemberInv, MemberTyped, Membership!rows
<1>2. PaidBy(sub.lastAt) \subseteq PaidBy(sub.lastAt)'
  BY DEF PaidBy, Membership!rows
<1>3. /\ IsFiniteSet(PaidBy(sub.lastAt)')
      /\ Cardinality(PaidBy(sub.lastAt)') \in Nat
  <2>1. PaidBy(sub.lastAt)' \subseteq pages'
    BY DEF PaidBy
  <2> QED BY <2>1, FS_Subset, FS_CardinalityType DEF StripeInv
<1>4. /\ Cardinality(PaidBy(sub.lastAt)) <= Cardinality(PaidBy(sub.lastAt)')
      /\ Cardinality(PaidBy(sub.lastAt)) \in Nat
  BY <1>2, <1>3, FS_Subset, PaidByFinite DEF MemberInv
<1>5. credits <= Cardinality(PaidBy(sub.lastAt)')
  <2>1. credits \in Nat /\ credits <= Cardinality(PaidBy(sub.lastAt))
    BY DEF MemberInv, MemberTyped, PeriodInv
  <2> QED BY <1>3, <1>4, <2>1
<1>6. PeriodInv'
  BY <1>5 DEF MemberInv, PeriodInv, Membership!ActiveHasPeriod, Membership!rows
<1> QED BY <1>1, <1>6 DEF MemberInv

\* A page that was open is paid or expires.
PageEnded(p, q, s) ==
    /\ pages' \subseteq PageRows /\ q \in pages'
    /\ q.at = p.at /\ q.state = s /\ p.at <= objects
    /\ IsFiniteSet(pages') /\ Cardinality(pages') <= objects'
    /\ \A r \in pages' : r.at <= objects' /\ \E t \in pages : t.at = r.at
    /\ \A r, t \in pages' : r.at = t.at => r = t
    /\ \A r \in pages : r.state = "paid" => r \in pages'
    /\ \A e \in posted : SignalOK(e)'

LEMMA PageEnds ==
  ASSUME Membership!MembershipAssumption, MemberInv, NEW p \in pages,
         p.state = "open",
         NEW s \in {"paid", "expired"}, NEW q, q = [p EXCEPT !.state = s],
         pages' = (pages \ {p}) \union {q},
         objects' \in Nat, objects <= objects'
  PROVE  PageEnded(p, q, s)
<1>0. MemberTyped /\ StripeInv
  BY DEF MemberInv
<1>1. p \in PageRows
  BY <1>0 DEF MemberTyped
<1>2. q \in PageRows /\ q.at = p.at /\ q.state = s
  BY <1>1 DEF PageRows
<1>3. \A r \in pages \ {p} : r.at # q.at
  BY <1>0, <1>2 DEF StripeInv
<1>4. q \notin pages \ {p}
  BY <1>3
<1>5. IsFiniteSet(pages') /\ Cardinality(pages') = Cardinality(pages)
  <2>1. /\ IsFiniteSet(pages \ {p})
        /\ Cardinality(pages \ {p}) = Cardinality(pages) - 1
        /\ Cardinality(pages) \in Nat
    BY <1>0, FS_RemoveElement, FS_CardinalityType DEF StripeInv
  <2>2. /\ IsFiniteSet((pages \ {p}) \union {q})
        /\ Cardinality((pages \ {p}) \union {q}) = Cardinality(pages \ {p}) + 1
    BY <1>4, <2>1, FS_AddElement
  <2> QED BY <2>1, <2>2
<1>6. Cardinality(pages') <= objects'
  <2>1. Cardinality(pages) \in Nat /\ Cardinality(pages) <= objects
        /\ objects \in Nat
    BY <1>0, FS_CardinalityType, MemberNumbers DEF StripeInv
  <2> QED BY <1>5, <2>1
<1>7. \A r \in pages : r.at \in 1..MaxObjects /\ r.at <= objects
        /\ objects \in Nat
  BY <1>0, MemberNumbers DEF StripeInv
<1>8. \A r \in pages' : r.at <= objects' /\ \E t \in pages : t.at = r.at
  <2>1. \A r \in pages : r.at <= objects'
    BY <1>7
  <2> QED BY <1>2, <2>1
<1>9. ASSUME NEW e \in posted PROVE SignalOK(e)'
  <2>1. SignalOK(e) /\ e.at \in 1..MaxObjects /\ objects \in Nat
    BY <1>0, MemberNumbers DEF StripeInv
  <2>2. e.at <= objects'
    BY <2>1 DEF SignalOK
  <2>3. \A t \in pages : t.state \in {"paid", "expired"} => t \in pages'
    OBVIOUS
  <2>4. e.kind \notin {"completed", "expired"} => \A r \in pages' : r.at # e.at
    BY <1>8, <2>1 DEF SignalOK
  <2> QED BY <2>1, <2>2, <2>3, <2>4 DEF SignalOK
<1>10. pages' \subseteq PageRows
  BY <1>0, <1>2 DEF MemberTyped
<1>11. \A r, t \in pages' : r.at = t.at => r = t
  BY <1>0, <1>3 DEF StripeInv
<1> QED BY <1>2, <1>5, <1>6, <1>7, <1>8, <1>9, <1>10, <1>11 DEF PageEnded

LEMMA EventFields ==
  ASSUME NEW k, NEW a, NEW u, NEW p
  PROVE  /\ Membership!Event(k, a, u, p).kind = k
         /\ Membership!Event(k, a, u, p).at = a
         /\ Membership!Event(k, a, u, p).until = u
         /\ Membership!Event(k, a, u, p).plan = p
  BY DEF Membership!Event

LEMMA EventSignal ==
  ASSUME Membership!MembershipAssumption, NEW a \in 1..MaxObjects,
         NEW u \in Nat, u <= MaxTime + 1, NEW p \in Plans \union {"-"},
         NEW k \in {"completed", "expired", "updated", "deleted",
                    "invoice_paid", "invoice_failed"}
  PROVE  Membership!Event(k, a, u, p) \in Membership!Signals
<1>1. u \in Membership!Times
  BY MemberTimes DEF Membership!MembershipAssumption
<1> QED BY <1>1 DEF Membership!Event, Membership!Signals

\* The event of a page that has just ended.
LEMMA PageSignal ==
  ASSUME Membership!MembershipAssumption, NEW p, p.at \in 1..MaxObjects,
         objects' \in Nat, p.at <= objects',
         NEW k \in {"completed", "expired"},
         NEW q, q \in pages', q.at = p.at,
         q.state = IF k = "completed" THEN "paid" ELSE "expired"
  PROVE  /\ Membership!Event(k, p.at, 0, "-") \in Membership!Signals
         /\ SignalOK(Membership!Event(k, p.at, 0, "-"))'
<1>0. MaxTime \in Nat
  BY DEF Membership!MembershipAssumption
<1> PICK e : e = Membership!Event(k, p.at, 0, "-")
  OBVIOUS
<1>1. e.kind = k /\ e.at = p.at /\ e.until = 0 /\ e.plan = "-"
  BY DEF Membership!Event
<1>2. e \in Membership!Signals
  BY <1>0, EventSignal
<1>3. SignalOK(e)'
  BY <1>0, <1>1 DEF SignalOK
<1> QED BY <1>2, <1>3

\* An event of an object that is not a page.
LEMMA ObjectSignal ==
  ASSUME Membership!MembershipAssumption, NEW a \in 1..MaxObjects,
         objects' \in Nat,
         a <= objects', \A p \in pages' : p.at # a,
         NEW u \in Nat, u <= MaxTime + 1, NEW p \in Plans \union {"-"},
         NEW k \in {"updated", "deleted", "invoice_paid", "invoice_failed"},
         k \in {"updated", "invoice_paid"} => u # 0 /\ p \in Plans
  PROVE  Membership!Event(k, a, u, p) \in Membership!Signals
         /\ SignalOK(Membership!Event(k, a, u, p))'
<1> PICK e : e = Membership!Event(k, a, u, p)
  OBVIOUS
<1>1. e.kind = k /\ e.at = a /\ e.until = u /\ e.plan = p
  BY DEF Membership!Event
<1>2. e \in Membership!Signals
  BY EventSignal
<1>3. SignalOK(e)'
  BY <1>1 DEF SignalOK
<1> QED BY <1>2, <1>3

LEMMA StripeActions ==
  ASSUME Membership!MembershipAssumption, MemberInv, Membership!Stripe
  PROVE  MemberInv'
<1>0. /\ MemberTyped /\ StripeInv
  BY DEF MemberInv
<1>n. /\ MaxTime \in Nat /\ MaxObjects \in Nat /\ objects \in Nat
      /\ now \in Nat /\ now # 0 /\ now <= MaxTime
      /\ billing.until \in Nat /\ billing.at \in 0..MaxObjects
      /\ \A p \in pages : p.at \in 1..MaxObjects
      /\ objects <= MaxObjects
  BY <1>0, MemberNumbers DEF MemberTyped
<1>p. /\ billing \in BillingRows /\ billing.plan \in Plans
      /\ sub.plan \in Plans
      /\ billing.on \in BOOLEAN
  BY <1>0, MemberFields DEF MemberTyped, BillingRows
<1>1. ASSUME NEW p \in pages, Membership!PayOnce(p) PROVE MemberInv'
  <2> PICK q : q = [p EXCEPT !.state = "paid"]
    OBVIOUS
  <2>1. /\ p.state = "open" /\ pages' = (pages \ {p}) \union {q}
        /\ posted' = posted \union {Membership!Event("completed", p.at, 0,
                                                     "-")}
        /\ UNCHANGED <<now, Membership!rows, editor, tasks, billing, objects,
                       acked, credits>>
    BY <1>1 DEF Membership!PayOnce, Membership!PagePaid
  <2>2. PageEnded(p, q, "paid")
    BY <1>n, <2>1, PageEnds
  <2>3. /\ Membership!Event("completed", p.at, 0, "-") \in Membership!Signals
        /\ SignalOK(Membership!Event("completed", p.at, 0, "-"))'
    BY <1>n, <2>1, <2>2, PageSignal DEF PageEnded
  <2>4. posted' \subseteq Membership!Signals /\ \A e \in posted' : SignalOK(e)'
    BY <1>0, <2>1, <2>2, <2>3 DEF MemberTyped, PageEnded
  <2>5. StripeInv'
    BY <1>0, <2>1, <2>2, <2>4 DEF StripeInv, PageEnded
  <2> QED BY <1>0, <2>1, <2>2, <2>4, <2>5, StripeKeeps
             DEF MemberTyped, PageEnded
<1>2. ASSUME NEW p \in pages, Membership!ExpirePage(p) PROVE MemberInv'
  <2> PICK q : q = [p EXCEPT !.state = "expired"]
    OBVIOUS
  <2>1. /\ p.state = "open" /\ pages' = (pages \ {p}) \union {q}
        /\ posted' = posted \union {Membership!Event("expired", p.at, 0, "-")}
        /\ UNCHANGED <<now, Membership!rows, editor, tasks, billing, objects,
                       acked, credits>>
    BY <1>2 DEF Membership!ExpirePage
  <2>2. PageEnded(p, q, "expired")
    BY <1>n, <2>1, PageEnds
  <2>3. /\ Membership!Event("expired", p.at, 0, "-") \in Membership!Signals
        /\ SignalOK(Membership!Event("expired", p.at, 0, "-"))'
    BY <1>n, <2>1, <2>2, PageSignal DEF PageEnded
  <2>4. posted' \subseteq Membership!Signals /\ \A e \in posted' : SignalOK(e)'
    BY <1>0, <2>1, <2>2, <2>3 DEF MemberTyped, PageEnded
  <2>5. StripeInv'
    BY <1>0, <2>1, <2>2, <2>4 DEF StripeInv, PageEnded
  <2> QED BY <1>0, <2>1, <2>2, <2>4, <2>5, StripeKeeps
             DEF MemberTyped, PageEnded
<1>3. ASSUME NEW p \in pages, Membership!Subscribe(p) PROVE MemberInv'
  <2> PICK q, n, e, f, g :
          /\ q = [p EXCEPT !.state = "paid"] /\ n = objects + 1
          /\ e = Membership!Event("completed", p.at, 0, "-")
          /\ f = Membership!Event("updated", n, now + 1, sub.plan)
          /\ g = Membership!Event("invoice_paid", n, now + 1, sub.plan)
    OBVIOUS
  <2>1. /\ p.state = "open" /\ pages' = (pages \ {p}) \union {q}
        /\ objects < MaxObjects /\ objects' = n
        /\ billing' = [at |-> n, until |-> now + 1, plan |-> sub.plan,
                       on |-> TRUE]
        /\ posted' = posted \union {e, f, g}
        /\ UNCHANGED <<now, Membership!rows, editor, tasks, acked, credits>>
    BY <1>3 DEF Membership!Subscribe, Membership!PagePaid
  <2>2. /\ n \in Nat /\ n \in 1..MaxObjects /\ objects < n
        /\ now + 1 \in Nat /\ now + 1 # 0 /\ now + 1 <= MaxTime + 1
    BY <1>n, <2>1
  <2>3. PageEnded(p, q, "paid")
    BY <1>n, <2>1, <2>2, PageEnds
  <2>4. \A r \in pages' : r.at # n
    BY <1>0, <1>n, <2>2, <2>3 DEF StripeInv, PageEnded
  <2>5. e \in Membership!Signals /\ SignalOK(e)'
    BY <1>n, <2>1, <2>2, <2>3, PageSignal DEF PageEnded
  <2>6. f \in Membership!Signals /\ SignalOK(f)'
    BY <1>n, <1>p, <2>1, <2>2, <2>4, ObjectSignal
  <2>7. g \in Membership!Signals /\ SignalOK(g)'
    BY <1>n, <1>p, <2>1, <2>2, <2>4, ObjectSignal
  <2>8. posted' \subseteq Membership!Signals /\ \A d \in posted' : SignalOK(d)'
    BY <1>0, <2>1, <2>3, <2>5, <2>6, <2>7 DEF MemberTyped, PageEnded
  <2>9. billing' \in BillingRows
    <3>1. now + 1 \in Membership!Times
      BY <1>n, <2>2, MemberTimes
    <3> QED BY <1>p, <2>1, <2>2, <3>1 DEF BillingRows
  <2>10. /\ billing'.until <= MaxTime + 1 /\ billing'.until # 0
         /\ billing'.at \in 1..objects' /\ \A r \in pages' : r.at # billing'.at
    BY <2>1, <2>2, <2>4
  <2>11. StripeInv'
    BY <2>3, <2>8, <2>10 DEF StripeInv, PageEnded
  <2> QED BY <1>n, <2>1, <2>2, <2>3, <2>8, <2>9, <2>11, StripeKeeps
             DEF PageEnded
\* The pages stay, and so what is known of the events so far.
<1>4. ASSUME pages' = pages, objects' \in objects..MaxObjects,
             UNCHANGED <<now, Membership!rows, editor, tasks, acked, credits>>,
             billing' \in BillingRows, billing'.until <= MaxTime + 1,
             billing'.on => /\ billing'.at \in 1..objects
                            /\ billing'.until # 0
                            /\ \A p \in pages : p.at # billing'.at,
             NEW S \in SUBSET Membership!Signals, posted' = posted \union S,
             \A e \in S : SignalOK(e)'
      PROVE  MemberInv'
  <2>1. objects' \in Nat /\ objects <= objects' /\ objects' \in 0..MaxObjects
    BY <1>n, <1>4
  <2>2. \A e \in posted : SignalOK(e)'
    <3> SUFFICES ASSUME NEW e \in posted PROVE SignalOK(e)'
      OBVIOUS
    <3>1. SignalOK(e) /\ e.at \in 1..MaxObjects
      BY <1>0, MemberNumbers DEF StripeInv
    <3>2. e.at <= objects'
      BY <1>n, <2>1, <3>1 DEF SignalOK
    <3> QED BY <1>4, <3>1, <3>2 DEF SignalOK
  <2>3. \A p \in pages : p.at <= objects'
    BY <1>0, <1>n, <2>1 DEF StripeInv
  <2>4. Cardinality(pages) <= objects'
    <3>1. Cardinality(pages) \in Nat
      BY <1>0, FS_CardinalityType DEF StripeInv
    <3> QED BY <1>0, <1>n, <2>1, <3>1 DEF StripeInv
  <2>5. billing'.on => billing'.at \in 1..objects'
    BY <1>n, <1>4, <2>1
  <2>6. StripeInv'
    BY <1>0, <1>4, <2>2, <2>3, <2>4, <2>5 DEF StripeInv
  <2> QED BY <1>0, <1>4, <2>1, <2>6, StripeKeeps DEF MemberTyped
<1>5. CASE Membership!Renew
  <2> PICK n, u, f, g :
          /\ n = objects + 1 /\ u = billing.until + 1
          /\ f = Membership!Event("updated", billing.at, u, billing.plan)
          /\ g = Membership!Event("invoice_paid", n, u, billing.plan)
    OBVIOUS
  <2>1. /\ billing.on /\ billing.until <= now /\ objects < MaxObjects
        /\ objects' = n /\ posted' = posted \union {f, g}
        /\ UNCHANGED <<now, Membership!rows, editor, tasks, pages, acked,
                       credits>>
    BY <1>5 DEF Membership!Renew
  <2>2. /\ n \in Nat /\ n \in 1..MaxObjects /\ objects < n
        /\ u \in Nat /\ u # 0 /\ u <= MaxTime + 1
    BY <1>n, <2>1
  <2>3. /\ billing' \in BillingRows /\ billing'.until = u
        /\ billing'.at = billing.at
    <3>1. u \in Membership!Times
      BY <1>n, <2>2, MemberTimes
    <3>2. billing' = [billing EXCEPT !.until = u]
      BY <1>5, <1>p DEF Membership!Renew, BillingRows
    <3> QED BY <1>p, <3>1, <3>2 DEF BillingRows
  <2>4. \A p \in pages' : p.at # n /\ p.at # billing.at
    BY <1>0, <1>n, <2>1, <2>2 DEF StripeInv
  <2>5. billing.at \in 1..MaxObjects /\ billing.at <= objects'
        /\ billing.at \in 1..objects
    BY <1>0, <1>n, <2>1, <2>2 DEF StripeInv
  <2>6. f \in Membership!Signals /\ SignalOK(f)'
    BY <1>p, <2>1, <2>2, <2>4, <2>5, ObjectSignal
  <2>7. g \in Membership!Signals /\ SignalOK(g)'
    BY <1>p, <2>1, <2>2, <2>4, ObjectSignal
  <2>8. objects' \in objects..MaxObjects
    BY <1>n, <2>1, <2>2
  <2>9. {f, g} \in SUBSET Membership!Signals /\ \A e \in {f, g} : SignalOK(e)'
    BY <2>6, <2>7
  <2> QED BY <1>4, <2>1, <2>2, <2>3, <2>4, <2>5, <2>8, <2>9
<1>6. CASE Membership!RenewFails
  <2> PICK n, f : n = objects + 1
        /\ f = Membership!Event("invoice_failed", n, 0, "-")
    OBVIOUS
  <2>1. /\ objects < MaxObjects /\ objects' = n /\ posted' = posted \union {f}
        /\ UNCHANGED <<now, Membership!rows, editor, tasks, pages, billing,
                       acked, credits>>
    BY <1>6 DEF Membership!RenewFails
  <2>2. /\ n \in Nat /\ n \in 1..MaxObjects /\ objects < n
    BY <1>n, <2>1
  <2>3. \A p \in pages' : p.at # n
    BY <1>0, <1>n, <2>1, <2>2 DEF StripeInv
  <2>4. f \in Membership!Signals /\ SignalOK(f)'
    BY <1>n, <2>1, <2>2, <2>3, ObjectSignal
  <2>5. objects' \in objects..MaxObjects
    BY <1>n, <2>1, <2>2
  <2>6. {f} \in SUBSET Membership!Signals /\ \A e \in {f} : SignalOK(e)'
    BY <2>4
  <2> QED BY <1>0, <1>4, <1>p, <2>1, <2>5, <2>6 DEF StripeInv
<1>7. CASE Membership!EndBilling
  <2> PICK f : f = Membership!Event("deleted", billing.at, 0, "-")
    OBVIOUS
  <2>1. /\ billing.on /\ billing' = [billing EXCEPT !.on = FALSE]
        /\ posted' = posted \union {f}
        /\ UNCHANGED <<now, Membership!rows, editor, tasks, pages, objects,
                       acked, credits>>
    BY <1>7 DEF Membership!EndBilling
  <2>2. billing' \in BillingRows /\ billing'.until = billing.until
        /\ ~billing'.on
    BY <1>p, <2>1 DEF BillingRows
  <2>3. /\ billing.at \in 1..objects /\ \A p \in pages' : p.at # billing.at
    BY <1>0, <2>1 DEF StripeInv
  <2>4. billing.at \in 1..MaxObjects /\ billing.at <= objects'
        /\ objects' \in Nat
    BY <1>n, <2>1, <2>3
  <2>5. f \in Membership!Signals /\ SignalOK(f)'
    BY <1>n, <2>3, <2>4, ObjectSignal
  <2>6. objects' \in objects..MaxObjects
    BY <1>n, <2>1
  <2>7. {f} \in SUBSET Membership!Signals /\ \A e \in {f} : SignalOK(e)'
    BY <2>5
  <2> QED BY <1>0, <1>4, <2>1, <2>2, <2>6, <2>7 DEF StripeInv
<1>8. ASSUME NEW p \in Plans, Membership!ChangePlan(p) PROVE MemberInv'
  <2> PICK f : f = Membership!Event("updated", billing.at, billing.until, p)
    OBVIOUS
  <2>1. /\ billing.on /\ billing' = [billing EXCEPT !.plan = p]
        /\ posted' = posted \union {f}
        /\ UNCHANGED <<now, Membership!rows, editor, tasks, pages, objects,
                       acked, credits>>
    BY <1>8 DEF Membership!ChangePlan
  <2>2. /\ billing' \in BillingRows /\ billing'.until = billing.until
        /\ billing'.at = billing.at
    BY <1>p, <2>1 DEF BillingRows
  <2>3. /\ billing.at \in 1..objects /\ \A q \in pages' : q.at # billing.at
        /\ billing.until # 0 /\ billing.until <= MaxTime + 1
    BY <1>0, <2>1 DEF StripeInv
  <2>4. billing.at \in 1..MaxObjects /\ billing.at <= objects'
        /\ objects' \in Nat
    BY <1>n, <2>1, <2>3
  <2>5. f \in Membership!Signals /\ SignalOK(f)'
    BY <1>n, <2>3, <2>4, ObjectSignal
  <2>6. objects' \in objects..MaxObjects
    BY <1>n, <2>1
  <2>7. {f} \in SUBSET Membership!Signals /\ \A e \in {f} : SignalOK(e)'
    BY <2>5
  <2> QED BY <1>0, <1>4, <2>1, <2>2, <2>3, <2>6, <2>7
<1> QED BY <1>1, <1>2, <1>3, <1>5, <1>6, <1>7, <1>8 DEF Membership!Stripe

-----------------------------------------------------------------------------
\* An event that is accepted and credited is that of a page that is not among
\* those credited so far.
LEMMA WebhookStep ==
  ASSUME Membership!MembershipAssumption, MemberInv, NEW e \in posted,
         Membership!Webhook(e)
  PROVE  MemberInv'
<1>0. /\ MemberTyped /\ StripeInv /\ PeriodInv
  BY DEF MemberInv
<1>n. /\ MaxTime \in Nat /\ MaxObjects \in Nat /\ objects \in Nat
      /\ now \in Nat /\ now # 0 /\ now <= MaxTime
      /\ sub.expire \in Nat /\ sub.lastAt \in 0..MaxObjects
      /\ e.at \in 1..MaxObjects /\ e.until \in Nat /\ credits \in Nat
      /\ \A p \in pages : p.at \in 1..MaxObjects
  BY <1>0, MemberNumbers DEF MemberTyped
<1>e. e \in Membership!Signals /\ SignalOK(e)
  BY <1>0 DEF MemberTyped, StripeInv
<1>1. /\ sub.lastAt <= e.at /\ sub.lastId # e
      /\ tasks' = tasks \union {"due"} /\ acked' = acked \union {e}
      /\ credits' = credits + (IF e.kind = "completed" THEN 1 ELSE 0)
      /\ UNCHANGED <<now, editor, Membership!stripe>>
  BY DEF Membership!Webhook, Membership!Accepts
<1>2. sub' = [status |-> Membership!StatusAfter(e),
              plan |-> Membership!PlanAfter(e),
              expire |-> Membership!ExpireAfter(e), lastAt |-> e.at,
              lastId |-> e]
  BY DEF Membership!Webhook
<1>3. \A n : PaidBy(n)' = PaidBy(n)
  BY <1>1 DEF PaidBy, Membership!stripe
<1>4. /\ IsFiniteSet(PaidBy(e.at)) /\ Cardinality(PaidBy(e.at)) \in Nat
      /\ Cardinality(PaidBy(sub.lastAt)) \in Nat
      /\ Cardinality(PaidBy(e.at)) <= Cardinality(pages)
  BY <1>0, PaidByFinite
<1>5. PaidBy(sub.lastAt) \subseteq PaidBy(e.at)
  BY <1>n, <1>1 DEF PaidBy
<1>6. credits' <= Cardinality(PaidBy(e.at)) /\ credits' \in Nat
  <2>0. credits <= Cardinality(PaidBy(sub.lastAt))
    BY <1>0 DEF PeriodInv
  <2>1. CASE e.kind # "completed"
    <3>1. Cardinality(PaidBy(sub.lastAt)) <= Cardinality(PaidBy(e.at))
      BY <1>4, <1>5, FS_Subset
    <3> QED BY <1>n, <1>1, <1>4, <2>0, <2>1, <3>1
  <2>2. CASE e.kind = "completed"
    <3>1. PICK p \in pages : p.at = e.at /\ p.state = "paid"
      BY <1>e, <2>2 DEF SignalOK
    <3>2. p \in PaidBy(e.at)
      BY <1>n, <3>1 DEF PaidBy
    <3>3. p \notin PaidBy(sub.lastAt)
      <4> SUFFICES ASSUME p.at <= sub.lastAt PROVE FALSE
        BY DEF PaidBy
      <4>1. sub.lastAt = e.at
        BY <1>n, <1>1, <3>1
      <4>2. sub.lastId \in posted /\ sub.lastId.at = e.at
        BY <1>0, <1>n, <4>1 DEF PeriodInv
      <4>3. SignalOK(sub.lastId) /\ sub.lastId \in Membership!Signals
        BY <1>0, <4>2 DEF StripeInv, MemberTyped
      <4>4. sub.lastId.kind = "completed"
        BY <1>0, <3>1, <4>2, <4>3 DEF SignalOK, StripeInv
      <4>5. /\ sub.lastId.until = e.until /\ sub.lastId.plan = e.plan
            /\ sub.lastId.kind = e.kind
        BY <1>e, <2>2, <4>3, <4>4 DEF SignalOK
      <4>6. sub.lastId = e
        BY <1>e, <4>2, <4>3, <4>5 DEF Membership!Signals
      <4> QED BY <1>1, <4>6
    <3> DEFINE P == PaidBy(e.at)
               Q == PaidBy(sub.lastAt)
    <3>4. /\ IsFiniteSet(P \ {p}) /\ Cardinality(P \ {p}) = Cardinality(P) - 1
          /\ Cardinality(P \ {p}) \in Nat
      BY <1>4, <3>2, FS_RemoveElement, FS_CardinalityType
    <3>5. Q \subseteq P \ {p}
      BY <1>5, <3>3
    <3> HIDE DEF P, Q
    <3>6. Cardinality(Q) <= Cardinality(P \ {p})
      BY <3>4, <3>5, FS_Subset
    <3>7. Cardinality(Q) <= Cardinality(P) - 1
      BY <3>4, <3>6
    <3> QED BY <1>n, <1>1, <1>4, <2>0, <2>2, <3>7 DEF P, Q
  <2> QED BY <2>1, <2>2
<1>7. credits' <= MaxObjects
  <2>1. Cardinality(pages) \in Nat /\ Cardinality(pages) <= objects
        /\ objects <= MaxObjects
    BY <1>0, FS_CardinalityType DEF StripeInv, MemberTyped
  <2> QED BY <1>n, <1>4, <1>6, <2>1
<1>8. Membership!ExpireAfter(e) \in Nat
      /\ Membership!ExpireAfter(e) <= MaxTime + 1 + credits'
      /\ (sub.expire # 0 => Membership!ExpireAfter(e) # 0)
      /\ (Membership!Activates(e) => Membership!ExpireAfter(e) # 0)
  <2>0. sub.expire <= MaxTime + 1 + credits
    BY <1>0 DEF PeriodInv
  <2>1. CASE e.kind = "completed"
    <3>1. Membership!ExpireAfter(e) = Membership!Later(sub.expire, now) + 1
      BY <2>1 DEF Membership!ExpireAfter
    <3> QED BY <1>n, <1>1, <2>0, <2>1, <3>1 DEF Membership!Later
  <2>2. CASE e.kind \in {"updated", "invoice_paid"}
    <3>1. Membership!ExpireAfter(e) = e.until
      BY <2>2 DEF Membership!ExpireAfter
    <3>2. e.until <= MaxTime + 1 /\ e.until # 0
      BY <1>e, <2>2 DEF SignalOK
    <3> QED BY <1>n, <1>6, <3>1, <3>2
  <2>3. CASE e.kind \notin {"completed", "updated", "invoice_paid"}
    <3>1. Membership!ExpireAfter(e) = sub.expire /\ ~Membership!Activates(e)
      BY <2>3 DEF Membership!ExpireAfter, Membership!Activates
    <3> QED BY <1>n, <1>1, <2>0, <2>3, <3>1
  <2> QED BY <2>1, <2>2, <2>3
<1>9. Membership!ExpireAfter(e) \in Membership!Times
  BY <1>n, <1>6, <1>7, <1>8, MemberTimes
<1>10. Membership!StatusAfter(e) \in Membership!Status
       /\ Membership!PlanAfter(e) \in Plans
  <2>1. Membership!StatusAfter(e) \in Membership!Status
    BY <1>0, MemberFields DEF Membership!StatusAfter, Membership!Status
  <2>2. Membership!PlanAfter(e) \in Plans
    BY <1>0, <1>e, MemberFields DEF Membership!PlanAfter, SignalOK
  <2> QED BY <2>1, <2>2
<1>11. /\ sub' \in SubRows /\ sub'.expire = Membership!ExpireAfter(e)
       /\ sub'.lastAt = e.at /\ sub'.lastId = e
  BY <1>n, <1>e, <1>2, <1>9, <1>10 DEF SubRows
<1>12. /\ member' \in MemberRows
       /\ member'.active => member.active \/ Membership!Activates(e)
  <2>1. member' = [member EXCEPT !.active = member.active
                     \/ Membership!Activates(e)]
    BY <1>0 DEF Membership!Webhook, MemberTyped, MemberRows
  <2>2. (member.active \/ Membership!Activates(e)) \in BOOLEAN
    OBVIOUS
  <2> QED BY <1>0, <2>1, <2>2 DEF MemberTyped, MemberRows
<1>13. MemberTyped'
  BY <1>0, <1>1, <1>6, <1>11, <1>12 DEF MemberTyped, Membership!stripe
<1>14. PeriodInv'
  <2>1. sub'.lastId \in posted' /\ sub'.lastId.at = sub'.lastAt
    BY <1>1, <1>11 DEF Membership!stripe
  <2>2. credits' <= Cardinality(PaidBy(sub.lastAt)')
    <3>1. PaidBy(sub.lastAt)' = PaidBy(e.at)
      BY <1>1, <1>11 DEF PaidBy, Membership!stripe
    <3> QED BY <1>6, <3>1
  <2>3. member'.active => sub'.expire # 0
    BY <1>0, <1>8, <1>11, <1>12 DEF PeriodInv, Membership!ActiveHasPeriod
  <2>4. "on" \in tasks' => sub'.expire # 0
    BY <1>0, <1>1, <1>8, <1>11 DEF PeriodInv
  <2> QED BY <1>8, <1>11, <2>1, <2>2, <2>3, <2>4
             DEF PeriodInv, Membership!ActiveHasPeriod
<1> QED BY <1>1, <1>13, <1>14, ShopStep

LEMMA MemberStep ==
  Membership!MembershipAssumption /\ MemberInv
  /\ [Membership!Next]_Membership!vars => MemberInv'
<1> SUFFICES ASSUME Membership!MembershipAssumption, MemberInv,
                    [Membership!Next]_Membership!vars
             PROVE  MemberInv'
  OBVIOUS
<1>0. /\ MemberTyped /\ (member.active => sub.expire # 0)
      /\ ("on" \in tasks => sub.expire # 0)
  BY DEF MemberInv, PeriodInv, Membership!ActiveHasPeriod
<1>n. /\ MaxTime \in Nat /\ now \in Nat /\ now # 0 /\ now <= MaxTime
      /\ sub.expire \in Nat
  BY <1>0, MemberNumbers
<1>1. ASSUME NEW e \in posted, Membership!SkipEvent(e) PROVE MemberInv'
  <2>1. acked' = acked \union {e}
        /\ UNCHANGED <<now, Membership!rows, editor, tasks, Membership!stripe,
                       credits>>
    BY <1>1 DEF Membership!SkipEvent
  <2>2. MemberTyped'
    BY <1>0, <2>1 DEF MemberTyped, Membership!stripe, Membership!rows
  <2> QED BY <1>0, <2>1, <2>2, RowStep DEF Membership!rows
<1>2. CASE Membership!MembershipActivationRead
  <2>1. /\ tasks' = (tasks \ {"due"}) \union
             (IF sub.expire = 0
                \/ member.active = (Membership!FlagToWrite = "on")
              THEN {} ELSE {Membership!FlagToWrite})
        /\ UNCHANGED <<now, Membership!rows, editor, Membership!stripe, acked,
                       credits>>
    BY <1>2 DEF Membership!MembershipActivationRead
  <2>2. Membership!FlagToWrite \in {"on", "off"}
    BY DEF Membership!FlagToWrite
  <2>3. tasks' \subseteq {"due", "on", "off"}
    BY <1>0, <2>1, <2>2 DEF MemberTyped
  <2>4. "on" \in tasks' => sub.expire # 0
    BY <1>0, <2>1
  <2>5. MemberTyped'
    BY <1>0, <2>1, <2>3 DEF MemberTyped, Membership!stripe, Membership!rows
  <2> QED BY <1>0, <2>1, <2>4, <2>5, RowStep DEF Membership!rows
<1>3. ASSUME NEW flag \in {"on", "off"},
             Membership!MembershipActivationWrite(flag)
      PROVE  MemberInv'
  <2>1. /\ flag \in tasks /\ tasks' = tasks \ {flag}
        /\ member' = [member EXCEPT !.active = (flag = "on")]
        /\ UNCHANGED <<now, sub, editor, Membership!stripe, acked, credits>>
    BY <1>3 DEF Membership!MembershipActivationWrite
  <2>2. member' \in MemberRows /\ (member'.active => flag = "on")
    <3>1. (flag = "on") \in BOOLEAN
      OBVIOUS
    <3> QED BY <1>0, <2>1, <3>1 DEF MemberTyped, MemberRows
  <2>3. MemberTyped'
    BY <1>0, <2>1, <2>2 DEF MemberTyped, Membership!stripe
  <2> QED BY <1>0, <2>1, <2>2, <2>3, RowStep
<1>4. CASE Membership!Activate
  <2>1. /\ Membership!PaidUp /\ member' = [member EXCEPT !.active = TRUE]
        /\ sub' = [sub EXCEPT !.status = "active"]
        /\ UNCHANGED <<now, editor, tasks, Membership!stripe, acked, credits>>
    BY <1>4 DEF Membership!Activate, Membership!Activatable
  <2>2. sub.expire # 0
    BY <1>n, <2>1 DEF Membership!PaidUp
  <2>3. member' \in MemberRows
    BY <1>0, <2>1 DEF MemberTyped, MemberRows
  <2>4. /\ sub' \in SubRows /\ sub'.expire = sub.expire
        /\ sub'.lastAt = sub.lastAt /\ sub'.lastId = sub.lastId
    BY <1>0, <2>1 DEF MemberTyped, SubRows, Membership!Status
  <2>5. MemberTyped'
    BY <1>0, <2>1, <2>3, <2>4 DEF MemberTyped, Membership!stripe
  <2> QED BY <1>0, <2>1, <2>2, <2>4, <2>5, RowStep
<1>5. CASE Membership!Deactivate
  <2>1. /\ member' = [member EXCEPT !.active = FALSE]
        /\ sub' = [sub EXCEPT !.status = "past_due"]
        /\ UNCHANGED <<now, editor, tasks, Membership!stripe, acked, credits>>
    BY <1>5 DEF Membership!Deactivate
  <2>2. member' \in MemberRows /\ ~member'.active
    BY <1>0, <2>1 DEF MemberTyped, MemberRows
  <2>3. /\ sub' \in SubRows /\ sub'.expire = sub.expire
        /\ sub'.lastAt = sub.lastAt /\ sub'.lastId = sub.lastId
    BY <1>0, <2>1 DEF MemberTyped, SubRows, Membership!Status
  <2>4. MemberTyped'
    BY <1>0, <2>1, <2>2, <2>3 DEF MemberTyped, Membership!stripe
  <2> QED BY <1>0, <2>1, <2>2, <2>3, <2>4, RowStep
<1>6. CASE Membership!UpdateMembershipType
  <2>1. /\ member' = [member EXCEPT !.type = sub.plan]
        /\ UNCHANGED <<now, sub, editor, tasks, Membership!stripe, acked,
                       credits>>
    BY <1>6 DEF Membership!UpdateMembershipType
  <2>2. member' \in MemberRows /\ member'.active = member.active
    BY <1>0, <2>1, MemberFields DEF MemberTyped, MemberRows
  <2>3. MemberTyped'
    BY <1>0, <2>1, <2>2 DEF MemberTyped, Membership!stripe
  <2> QED BY <1>0, <2>1, <2>2, <2>3, RowStep
<1>7. CASE Membership!Tick
  <2>1. /\ now' \in 1..MaxTime
        /\ UNCHANGED <<Membership!rows, editor, tasks, Membership!stripe,
                       acked, credits>>
    BY <1>n, <1>7 DEF Membership!Tick
  <2>2. MemberTyped'
    BY <1>0, <2>1 DEF MemberTyped, Membership!stripe, Membership!rows
  <2> QED BY <1>0, <2>1, <2>2, RowStep DEF Membership!rows
<1>8. CASE UNCHANGED Membership!vars
  <2>1. MemberTyped'
    BY <1>0, <1>8
       DEF Membership!vars, MemberTyped, Membership!stripe, Membership!rows
  <2> QED BY <1>0, <1>8, <2>1, RowStep DEF Membership!vars, Membership!rows
<1> QED BY <1>1, <1>2, <1>3, <1>4, <1>5, <1>6, <1>7, <1>8, MemberActions,
           StripeActions, WebhookStep
           DEF Membership!Next, Membership!Task, Membership!Beat

LEMMA MemberProperties ==
  ASSUME Membership!MembershipAssumption, MemberInv
  PROVE  Membership!TypeOK /\ Membership!ActiveHasPeriod
         /\ Membership!CreditedOnce
<1>1. Membership!TypeOK
  BY DEF MemberInv, MemberTyped, MemberRows, SubRows, PageRows, BillingRows,
         Membership!TypeOK
<1>2. Membership!CreditedOnce
  <2> DEFINE P == {p \in pages : p.state = "paid"}
  <2>1. PaidBy(sub.lastAt) \subseteq P /\ P \subseteq pages
    BY DEF PaidBy
  <2>2. IsFiniteSet(P) /\ Cardinality(P) \in Nat
    BY <2>1, FS_Subset, FS_CardinalityType DEF MemberInv, StripeInv
  <2>3. Cardinality(PaidBy(sub.lastAt)) <= Cardinality(P)
    BY <2>1, <2>2, FS_Subset
  <2>4. Cardinality(PaidBy(sub.lastAt)) \in Nat
    BY PaidByFinite DEF MemberInv
  <2>5. credits \in Nat /\ credits <= Cardinality(PaidBy(sub.lastAt))
    BY DEF MemberInv, MemberTyped, PeriodInv
  <2> HIDE DEF P
  <2>6. credits <= Cardinality(P)
    BY <2>2, <2>3, <2>4, <2>5
  <2> QED BY <2>6 DEF P, Membership!CreditedOnce
<1> QED BY <1>1, <1>2 DEF MemberInv, PeriodInv

-----------------------------------------------------------------------------
(* The instance's copy of FiniteSets is FiniteSets.                        *)
LEMMA PipelineFinite == \A S : Pipeline!IsFiniteSet(S) <=> IsFiniteSet(S)
  BY DEF Pipeline!IsFiniteSet, IsFiniteSet
LEMMA PipelineCardinality ==
  ASSUME NEW S PROVE Pipeline!Cardinality(S) = Cardinality(S)
  BY Zenon DEF Pipeline!Cardinality, Cardinality
USE PipelineFinite, PipelineCardinality

(***************************************************************************)
(* The notification pipeline.  An event is in one place of a server at a   *)
(* time: in the router's inbox, in the queue or in the worker's batch, and *)
(* there once.                                                             *)
(***************************************************************************)
PipeNames(q) == {q[i] : i \in DOMAIN q}
PipeEvents(q) == {q[i].ev : i \in DOMAIN q}

PipeOnce(q) == \A i, j \in DOMAIN q : q[i] = q[j] => i = j
PipeItemsOnce(q) == \A i, j \in DOMAIN q : q[i].ev = q[j].ev => i = j

\* inbox in, queue q and batch b of one server.
PipeHolds(in, q, b) == PipeNames(in) \union PipeEvents(b) \union PipeEvents(q)

PipeOnePlace(in, q, b) ==
    /\ PipeOnce(in) /\ PipeItemsOnce(q) /\ PipeItemsOnce(b)
    /\ PipeNames(in) \intersect PipeEvents(q) = {}
    /\ PipeNames(in) \intersect PipeEvents(b) = {}
    /\ PipeEvents(q) \intersect PipeEvents(b) = {}

PipeInv ==
    /\ Pipeline!TypeOK
    /\ \A s \in Listeners : /\ PipeOnePlace(inbox[s], queue[s], batch[s])
                            /\ PipeHolds(inbox[s], queue[s], batch[s])
                                  \subseteq emitted
    /\ unheard \subseteq emitted
    /\ \A e \in Firings : rows[e] > 0 => e \in emitted

(* Sequences of events and of items, under the operations of the code.     *)
LEMMA PipeAppendName ==
    ASSUME NEW S, NEW q \in Seq(S), NEW e \in S
    PROVE  /\ PipeNames(Append(q, e)) = PipeNames(q) \union {e}
           /\ PipeOnce(q) /\ e \notin PipeNames(q) => PipeOnce(Append(q, e))
<1> DEFINE n == Len(q)
           r == Append(q, e)
<1>1. n \in Nat /\ DOMAIN q = 1..n
  BY LenProperties
<1>2. /\ r \in Seq(S) /\ Len(r) = n + 1
      /\ \A i \in 1..n : r[i] = q[i]
      /\ r[n + 1] = e
  BY AppendProperties
<1>3. DOMAIN r = 1..(n + 1)
  BY <1>2, LenProperties
<1> HIDE DEF n, r
<1>4. PipeNames(r) = PipeNames(q) \union {e}
  BY <1>1, <1>2, <1>3 DEF PipeNames
<1>5. ASSUME PipeOnce(q), e \notin PipeNames(q),
             NEW i \in 1..(n + 1), NEW j \in 1..(n + 1), r[i] = r[j]
      PROVE  i = j
  BY <1>1, <1>2, <1>5 DEF PipeOnce, PipeNames
<1>6. PipeOnce(q) /\ e \notin PipeNames(q) => PipeOnce(r)
  BY <1>3, <1>5 DEF PipeOnce
<1> QED  BY <1>4, <1>6 DEF r

LEMMA PipeTailName ==
    ASSUME NEW S, NEW q \in Seq(S), q # <<>>, PipeOnce(q)
    PROVE  /\ Head(q) \in PipeNames(q)
           /\ PipeNames(Tail(q)) = PipeNames(q) \ {Head(q)}
           /\ PipeOnce(Tail(q))
<1> DEFINE n == Len(q)
           r == Tail(q)
           h == Head(q)
<1>1. n \in Nat \ {0} /\ DOMAIN q = 1..n
  BY LenProperties, EmptySeq
<1>2. /\ r \in Seq(S) /\ Len(r) = n - 1
      /\ \A i \in 1..(n - 1) : r[i] = q[i + 1]
  BY HeadTailProperties
<1>3. DOMAIN r = 1..(n - 1)
  BY <1>2, LenProperties
<1>4. h = q[1]
  OBVIOUS
<1> HIDE DEF n, r, h
<1>5. h \in PipeNames(q)
  BY <1>1, <1>4 DEF PipeNames
<1>6. PipeOnce(r)
  <2> SUFFICES ASSUME NEW i \in 1..(n - 1), NEW j \in 1..(n - 1), r[i] = r[j]
               PROVE  i = j
    BY <1>3 DEF PipeOnce
  <2>1. q[i + 1] = q[j + 1] /\ i + 1 \in 1..n /\ j + 1 \in 1..n
    BY <1>1, <1>2
  <2>2. i + 1 = j + 1
    BY <2>1, <1>1 DEF PipeOnce
  <2> QED  BY <2>2
<1>7. PipeNames(r) \subseteq PipeNames(q) \ {h}
  <2> SUFFICES ASSUME NEW i \in 1..(n - 1) PROVE r[i] \in PipeNames(q) \ {h}
    BY <1>3 DEF PipeNames
  <2>1. r[i] = q[i + 1] /\ i + 1 \in 1..n /\ 1 \in 1..n /\ i + 1 # 1
    BY <1>1, <1>2
  <2> QED  BY <2>1, <1>1, <1>4 DEF PipeOnce, PipeNames
<1>8. ASSUME NEW x \in PipeNames(q), x # h PROVE x \in PipeNames(r)
  <2>1. PICK i \in 1..n : x = q[i]
    BY <1>1, <1>8 DEF PipeNames
  <2>2. i # 1
    BY <2>1, <1>4, <1>8
  <2>3. i - 1 \in 1..(n - 1) /\ r[i - 1] = q[i]
    BY <2>2, <1>1, <1>2
  <2> QED  BY <2>1, <2>3, <1>3 DEF PipeNames
<1> QED  BY <1>5, <1>6, <1>7, <1>8 DEF r, h

LEMMA PipeAppendItem ==
    ASSUME NEW q \in Seq(Pipeline!Item), NEW x \in Pipeline!Item
    PROVE  /\ PipeEvents(Append(q, x)) = PipeEvents(q) \union {x.ev}
           /\ PipeItemsOnce(q) /\ x.ev \notin PipeEvents(q)
                 => PipeItemsOnce(Append(q, x))
<1> DEFINE n == Len(q)
           r == Append(q, x)
<1>1. n \in Nat /\ DOMAIN q = 1..n
  BY LenProperties
<1>2. /\ r \in Seq(Pipeline!Item) /\ Len(r) = n + 1
      /\ \A i \in 1..n : r[i] = q[i]
      /\ r[n + 1] = x
  BY AppendProperties
<1>3. DOMAIN r = 1..(n + 1)
  BY <1>2, LenProperties
<1> HIDE DEF n, r
<1>4. PipeEvents(r) = PipeEvents(q) \union {x.ev}
  BY <1>1, <1>2, <1>3 DEF PipeEvents
<1>5. ASSUME PipeItemsOnce(q), x.ev \notin PipeEvents(q),
             NEW i \in 1..(n + 1), NEW j \in 1..(n + 1), r[i].ev = r[j].ev
      PROVE  i = j
  BY <1>1, <1>2, <1>5 DEF PipeItemsOnce, PipeEvents
<1>6. PipeItemsOnce(q) /\ x.ev \notin PipeEvents(q) => PipeItemsOnce(r)
  BY <1>3, <1>5 DEF PipeItemsOnce
<1> QED  BY <1>4, <1>6 DEF r

LEMMA PipeTailItem ==
    ASSUME NEW q \in Seq(Pipeline!Item), q # <<>>, PipeItemsOnce(q)
    PROVE  /\ Head(q).ev \in PipeEvents(q)
           /\ PipeEvents(Tail(q)) = PipeEvents(q) \ {Head(q).ev}
           /\ PipeItemsOnce(Tail(q))
<1> DEFINE n == Len(q)
           r == Tail(q)
           h == Head(q)
<1>1. n \in Nat \ {0} /\ DOMAIN q = 1..n
  BY LenProperties, EmptySeq
<1>2. /\ r \in Seq(Pipeline!Item) /\ Len(r) = n - 1
      /\ \A i \in 1..(n - 1) : r[i] = q[i + 1]
  BY HeadTailProperties
<1>3. DOMAIN r = 1..(n - 1)
  BY <1>2, LenProperties
<1>4. h = q[1]
  OBVIOUS
<1> HIDE DEF n, r, h
<1>5. h.ev \in PipeEvents(q)
  BY <1>1, <1>4 DEF PipeEvents
<1>6. PipeItemsOnce(r)
  <2> SUFFICES ASSUME NEW i \in 1..(n - 1), NEW j \in 1..(n - 1),
                      r[i].ev = r[j].ev
               PROVE  i = j
    BY <1>3 DEF PipeItemsOnce
  <2>1. q[i + 1].ev = q[j + 1].ev /\ i + 1 \in 1..n /\ j + 1 \in 1..n
    BY <1>1, <1>2
  <2>2. i + 1 = j + 1
    BY <2>1, <1>1 DEF PipeItemsOnce
  <2> QED  BY <2>2
<1>7. PipeEvents(r) \subseteq PipeEvents(q) \ {h.ev}
  <2> SUFFICES ASSUME NEW i \in 1..(n - 1)
               PROVE  r[i].ev \in PipeEvents(q) \ {h.ev}
    BY <1>3 DEF PipeEvents
  <2>1. r[i] = q[i + 1] /\ i + 1 \in 1..n /\ 1 \in 1..n /\ i + 1 # 1
    BY <1>1, <1>2
  <2> QED  BY <2>1, <1>1, <1>4 DEF PipeItemsOnce, PipeEvents
<1>8. ASSUME NEW e \in PipeEvents(q), e # h.ev PROVE e \in PipeEvents(r)
  <2>1. PICK i \in 1..n : e = q[i].ev
    BY <1>1, <1>8 DEF PipeEvents
  <2>2. i # 1
    BY <2>1, <1>4, <1>8
  <2>3. i - 1 \in 1..(n - 1) /\ r[i - 1] = q[i]
    BY <2>2, <1>1, <1>2
  <2> QED  BY <2>1, <2>3, <1>3 DEF PipeEvents
<1> QED  BY <1>5, <1>6, <1>7, <1>8 DEF r, h

LEMMA PipeConcat ==
    ASSUME NEW p \in Seq(Pipeline!Item), NEW q \in Seq(Pipeline!Item)
    PROVE  /\ PipeEvents(p \o q) = PipeEvents(p) \union PipeEvents(q)
           /\ /\ PipeItemsOnce(p) /\ PipeItemsOnce(q)
              /\ PipeEvents(p) \intersect PipeEvents(q) = {}
              => PipeItemsOnce(p \o q)
<1> DEFINE m == Len(p)
           n == Len(q)
           r == p \o q
<1>1. m \in Nat /\ DOMAIN p = 1..m /\ n \in Nat /\ DOMAIN q = 1..n
  BY LenProperties
<1>2. /\ r \in Seq(Pipeline!Item) /\ Len(r) = m + n
      /\ \A i \in 1..m : r[i] = p[i]
      /\ \A i \in 1..n : r[m + i] = q[i]
  <2>1. r \in Seq(Pipeline!Item) /\ Len(r) = m + n
        /\ \A i \in 1..(m + n) : r[i] = IF i <= m THEN p[i] ELSE q[i - m]
    BY ConcatProperties
  <2> HIDE DEF m, n, r
  <2>2. ASSUME NEW i \in 1..m PROVE r[i] = p[i]
    <3>1. i \in 1..(m + n) /\ i <= m
      BY <1>1
    <3> QED  BY <2>1, <3>1
  <2>3. ASSUME NEW i \in 1..n PROVE r[m + i] = q[i]
    <3>1. m + i \in 1..(m + n) /\ ~(m + i <= m) /\ (m + i) - m = i
      BY <1>1
    <3> QED  BY <2>1, <3>1
  <2> QED  BY <2>1, <2>2, <2>3
<1>3. DOMAIN r = 1..(m + n)
  BY <1>2, LenProperties
<1> HIDE DEF m, n, r
<1>4. ASSUME NEW i \in 1..(m + n)
      PROVE  \/ i \in 1..m /\ r[i] = p[i]
             \/ \E k \in 1..n : i = m + k /\ r[i] = q[k]
  <2>1. CASE i <= m
    BY <2>1, <1>1, <1>2
  <2>2. CASE ~(i <= m)
    <3>1. i - m \in 1..n /\ i = m + (i - m)
      BY <2>2, <1>1
    <3> QED  BY <3>1, <1>2
  <2> QED  BY <2>1, <2>2
<1>5. PipeEvents(r) \subseteq PipeEvents(p) \union PipeEvents(q)
  BY <1>1, <1>3, <1>4 DEF PipeEvents
<1>6. PipeEvents(p) \subseteq PipeEvents(r)
  BY <1>1, <1>2, <1>3 DEF PipeEvents
<1>7. PipeEvents(q) \subseteq PipeEvents(r)
  <2> SUFFICES ASSUME NEW k \in 1..n PROVE q[k].ev \in PipeEvents(r)
    BY <1>1 DEF PipeEvents
  <2>1. m + k \in 1..(m + n) /\ r[m + k] = q[k]
    BY <1>1, <1>2
  <2> QED  BY <2>1, <1>3 DEF PipeEvents
<1>8. ASSUME PipeItemsOnce(p), PipeItemsOnce(q),
             PipeEvents(p) \intersect PipeEvents(q) = {}
      PROVE  PipeItemsOnce(r)
  <2> SUFFICES ASSUME NEW i \in 1..(m + n), NEW j \in 1..(m + n),
                      r[i].ev = r[j].ev
               PROVE  i = j
    BY <1>3 DEF PipeItemsOnce
  <2>1. \A k \in 1..m : p[k].ev \in PipeEvents(p)
    BY <1>1 DEF PipeEvents
  <2>2. \A k \in 1..n : q[k].ev \in PipeEvents(q)
    BY <1>1 DEF PipeEvents
  <2>3. CASE i \in 1..m /\ r[i] = p[i] /\ j \in 1..m /\ r[j] = p[j]
    BY <2>3, <1>1, <1>8 DEF PipeItemsOnce
  <2>4. ASSUME NEW k \in 1..n, NEW l \in 1..n,
               i = m + k, r[i] = q[k], j = m + l, r[j] = q[l]
        PROVE  i = j
    <3>1. k = l
      BY <2>4, <1>1, <1>8 DEF PipeItemsOnce
    <3> QED  BY <2>4, <3>1
  <2>5. ~(i \in 1..m /\ r[i] = p[i] /\ \E k \in 1..n : j = m + k
            /\ r[j] = q[k])
    BY <2>1, <2>2, <1>8
  <2>6. ~(j \in 1..m /\ r[j] = p[j] /\ \E k \in 1..n : i = m + k
            /\ r[i] = q[k])
    BY <2>1, <2>2, <1>8
  <2> QED  BY <2>3, <2>4, <2>5, <2>6, <1>4
<1> QED  BY <1>5, <1>6, <1>7, <1>8 DEF r

LEMMA PipeEmpty ==
    /\ PipeNames(<<>>) = {} /\ PipeEvents(<<>>) = {}
    /\ PipeOnce(<<>>) /\ PipeItemsOnce(<<>>)
    /\ <<>> \in Seq(Firings) /\ <<>> \in Seq(Pipeline!Item) /\ Len(<<>>) = 0
BY EmptySeq DEF PipeNames, PipeEvents, PipeOnce, PipeItemsOnce

(***************************************************************************)
(* What is put back of a failed batch.                                     *)
(***************************************************************************)
LEMMA PipeTyped ==
    ASSUME Pipeline!TypeOK, NEW s \in Listeners
    PROVE  /\ inbox[s] \in Seq(Firings) /\ queue[s] \in Seq(Pipeline!Item)
           /\ batch[s] \in Seq(Pipeline!Item)
           /\ Len(queue[s]) \in Nat /\ Len(queue[s]) <= QueueSize
           /\ Len(batch[s]) \in Nat /\ Len(batch[s]) <= BatchSize
           /\ DOMAIN batch[s] = 1..Len(batch[s])
<1>1. /\ inbox[s] \in Seq(Firings) /\ queue[s] \in Seq(Pipeline!Item)
      /\ batch[s] \in Seq(Pipeline!Item)
      /\ Len(queue[s]) <= QueueSize /\ Len(batch[s]) <= BatchSize
  BY DEF Pipeline!TypeOK
<1> QED  BY <1>1, LenProperties

LEMMA PipeRetried ==
    ASSUME Pipeline!PipelineAssumption, Pipeline!TypeOK, NEW s \in Listeners,
           PipeItemsOnce(batch[s]), NEW r \in Pipeline!ToRetry(s)
    PROVE  /\ r \in Seq(Pipeline!Item) /\ Len(r) <= QueueSize - Len(queue[s])
           /\ PipeEvents(r) \subseteq PipeEvents(batch[s])
           /\ PipeItemsOnce(r)
<1> DEFINE b == batch[s]
           m == Len(b)
           A == Pipeline!Again(s)
           c == Cardinality(A)
           room == Pipeline!Room(s)
<1>1. b \in Seq(Pipeline!Item) /\ m \in Nat /\ DOMAIN b = 1..m
  BY PipeTyped
<1>2. room \in Nat /\ room = QueueSize - Len(queue[s])
  BY PipeTyped DEF Pipeline!PipelineAssumption, Pipeline!Room
<1>3. A = {i \in 1..m : b[i].retries + 1 < MaxTries}
  BY <1>1 DEF Pipeline!Again
<1> HIDE DEF A, m
<1>4. c \in Nat
  <2>1. IsFiniteSet(1..m)
    BY <1>1, FS_Interval
  <2>2. IsFiniteSet(A)
    BY <2>1, <1>3, FS_Subset
  <2> QED  BY <2>2, FS_CardinalityType
<1>5. PICK p \in Pipeline!Sorted(A) : r = Pipeline!Retried(s, p, room)
  BY DEF Pipeline!ToRetry, A
<1>6. p \in [1..c -> A] /\ \A i, j \in 1..c : i < j => p[i] < p[j]
  BY DEF Pipeline!Sorted
<1> HIDE DEF c, room
<1>7. p \in Seq(A) /\ Len(p) = c
  <2>1. p \in Seq(A)
    BY <1>4, <1>6, SeqDef
  <2> QED  BY <2>1, <1>4, <1>6, LenProperties
<1>8. PICK k \in Nat : k = IF room < Len(p) THEN room ELSE Len(p)
  BY <1>2, <1>4, <1>7
<1>9. k <= c /\ k <= room
  BY <1>2, <1>4, <1>7, <1>8
<1>10. r = [i \in 1..k |-> [b[p[i]] EXCEPT !.retries = @ + 1]]
  BY <1>5, <1>8 DEF Pipeline!Retried
<1>11. ASSUME NEW i \in 1..k
       PROVE  /\ p[i] \in 1..m
              /\ r[i] = [b[p[i]] EXCEPT !.retries = @ + 1]
              /\ r[i] \in Pipeline!Item /\ r[i].ev = b[p[i]].ev
  <2>1. i \in 1..c
    BY <1>4, <1>9
  <2>2. p[i] \in A
    BY <2>1, <1>6
  <2>3. PICK y \in 1..m : y = p[i] /\ b[y].retries + 1 < MaxTries
    BY <2>2, <1>3
  <2>4. b[y] \in Pipeline!Item
    BY <1>1, ElementOfSeq DEF m
  <2>5. r[i] = [b[y] EXCEPT !.retries = @ + 1]
    BY <1>10, <2>3
  <2>6. r[i] = [ev |-> b[y].ev, retries |-> b[y].retries + 1]
    BY <2>4, <2>5 DEF Pipeline!Item
  <2>7. b[y].retries + 1 \in 0..(MaxTries - 1)
    BY <2>3, <2>4 DEF Pipeline!Item, Pipeline!PipelineAssumption
  <2> QED  BY <2>3, <2>4, <2>5, <2>6, <2>7 DEF Pipeline!Item
<1>12. r \in Seq(Pipeline!Item) /\ Len(r) = k /\ DOMAIN r = 1..k
  <2>1. r \in [1..k -> Pipeline!Item]
    BY <1>10, <1>11
  <2>2. r \in Seq(Pipeline!Item)
    BY <2>1, <1>8, SeqDef
  <2> QED  BY <2>1, <2>2, <1>8, LenProperties
<1>13. PipeEvents(r) \subseteq PipeEvents(b)
  BY <1>1, <1>11, <1>12 DEF PipeEvents
<1>14. PipeItemsOnce(r)
  <2> SUFFICES ASSUME NEW i \in 1..k, NEW j \in 1..k, r[i].ev = r[j].ev
               PROVE  i = j
    BY <1>12 DEF PipeItemsOnce
  <2>a. /\ p[i] \in DOMAIN b /\ p[j] \in DOMAIN b
        /\ b[p[i]].ev = b[p[j]].ev
    BY <1>1, <1>11
  <2>1. p[i] = p[j]
    BY <2>a DEF PipeItemsOnce
  <2>2. i \in 1..c /\ j \in 1..c
    BY <1>4, <1>9
  <2>3. p[i] \in 1..m /\ p[j] \in 1..m
    BY <1>11
  <2>4. ~(i < j) /\ ~(j < i)
    BY <2>1, <2>2, <2>3, <1>6
  <2> QED  BY <2>4
<1> QED  BY <1>2, <1>9, <1>12, <1>13, <1>14 DEF b

(***************************************************************************)
(* What is stored of a batch: a row for each of its events.                *)
(***************************************************************************)
LEMMA PipeStored ==
    ASSUME Pipeline!TypeOK, NEW s \in Listeners, PipeItemsOnce(batch[s])
    PROVE  Pipeline!Stored(s)
             = [e \in Firings |-> IF e \in PipeEvents(batch[s])
                                         THEN rows[e] + 1 ELSE rows[e]]
<1> DEFINE b == batch[s]
           At(e) == {i \in DOMAIN b : b[i].ev = e}
<1>1. \A e \in Firings : rows[e] \in Nat
  BY DEF Pipeline!TypeOK
<1>2. ASSUME NEW e \in Firings, e \in PipeEvents(b)
      PROVE  Cardinality(At(e)) = 1
  <2>1. PICK i \in DOMAIN b : b[i].ev = e
    BY <1>2 DEF PipeEvents
  <2>2. At(e) = {i}
    BY <2>1 DEF PipeItemsOnce
  <2> QED  BY <2>2, FS_Singleton
<1>3. ASSUME NEW e \in Firings, e \notin PipeEvents(b)
      PROVE  Cardinality(At(e)) = 0
  <2>1. At(e) = {}
    BY <1>3 DEF PipeEvents
  <2> QED  BY <2>1, FS_EmptySet
<1>4. Pipeline!Stored(s) = [e \in Firings |-> rows[e] + Cardinality(At(e))]
  BY DEF Pipeline!Stored
<1> HIDE DEF At, b
<1>5. ASSUME NEW e \in Firings
      PROVE  rows[e] + Cardinality(At(e))
                = IF e \in PipeEvents(b) THEN rows[e] + 1 ELSE rows[e]
  BY <1>1, <1>2, <1>3
<1> QED  BY <1>4, <1>5 DEF b

(***************************************************************************)
(* The steps.                                                              *)
(***************************************************************************)
LEMMA PipeFields ==
    ASSUME PipeInv, NEW s \in Listeners
    PROVE  /\ PipeOnce(inbox[s]) /\ PipeItemsOnce(queue[s])
           /\ PipeItemsOnce(batch[s])
           /\ PipeNames(inbox[s]) \intersect PipeEvents(queue[s]) = {}
           /\ PipeNames(inbox[s]) \intersect PipeEvents(batch[s]) = {}
           /\ PipeEvents(queue[s]) \intersect PipeEvents(batch[s]) = {}
           /\ PipeHolds(inbox[s], queue[s], batch[s]) \subseteq emitted
           /\ PipeNames(inbox[s]) \subseteq emitted
           /\ PipeEvents(queue[s]) \subseteq emitted
           /\ PipeEvents(batch[s]) \subseteq emitted
BY DEF PipeInv, PipeOnePlace, PipeHolds

\* A step of one server that leaves what it holds where it may be.
LEMMA PipeServerStep ==
    ASSUME PipeInv, NEW s \in Listeners,
           NEW in \in Seq(Firings), NEW q \in Seq(Pipeline!Item),
           NEW b \in Seq(Pipeline!Item),
           inbox' = [inbox EXCEPT ![s] = in],
           queue' = [queue EXCEPT ![s] = q],
           batch' = [batch EXCEPT ![s] = b],
           Len(q) <= QueueSize, Len(b) <= BatchSize,
           PipeOnePlace(in, q, b), PipeHolds(in, q, b) \subseteq emitted,
           emitted' = emitted,
           listening' \subseteq Listeners, stops' \in 0..MaxStops,
           rows' \in [Firings -> Nat], unheard' \subseteq emitted,
           \A e \in Firings : rows'[e] > 0 => e \in emitted
    PROVE  PipeInv'
<1>1. emitted \subseteq Firings
  BY DEF PipeInv, Pipeline!TypeOK
<1>2. Pipeline!TypeOK'
  <2>1. /\ inbox' \in [Listeners -> Seq(Firings)]
        /\ queue' \in [Listeners -> Seq(Pipeline!Item)]
        /\ batch' \in [Listeners -> Seq(Pipeline!Item)]
    BY DEF PipeInv, Pipeline!TypeOK
  <2>2. \A t \in Listeners : /\ Len(queue'[t]) <= QueueSize
                             /\ Len(batch'[t]) <= BatchSize
    BY DEF PipeInv, Pipeline!TypeOK
  <2> QED  BY <1>1, <2>1, <2>2 DEF Pipeline!TypeOK
<1>3. ASSUME NEW t \in Listeners
      PROVE  /\ PipeOnePlace(inbox'[t], queue'[t], batch'[t])
             /\ PipeHolds(inbox'[t], queue'[t], batch'[t]) \subseteq emitted
  <2>1. CASE t = s
    <3>1. inbox'[t] = in /\ queue'[t] = q /\ batch'[t] = b
      BY <2>1 DEF PipeInv, Pipeline!TypeOK
    <3> QED  BY <3>1
  <2>2. CASE t # s
    <3>1. inbox'[t] = inbox[t] /\ queue'[t] = queue[t] /\ batch'[t] = batch[t]
      BY <2>2 DEF PipeInv, Pipeline!TypeOK
    <3> QED  BY <3>1 DEF PipeInv
  <2> QED  BY <2>1, <2>2
<1> QED  BY <1>2, <1>3 DEF PipeInv

LEMMA PipeInit == ASSUME Pipeline!PipelineAssumption, Pipeline!Init
                  PROVE  PipeInv
<1>1. Pipeline!TypeOK
  BY PipeEmpty
     DEF Pipeline!Init, Pipeline!TypeOK, Pipeline!Empty,
         Pipeline!PipelineAssumption
<1>2. ASSUME NEW s \in Listeners
      PROVE  /\ PipeOnePlace(inbox[s], queue[s], batch[s])
             /\ PipeHolds(inbox[s], queue[s], batch[s]) \subseteq emitted
  <2>1. inbox[s] = <<>> /\ queue[s] = <<>> /\ batch[s] = <<>>
    BY DEF Pipeline!Init, Pipeline!Empty
  <2> QED  BY <2>1, PipeEmpty DEF PipeOnePlace, PipeHolds
<1> QED  BY <1>1, <1>2 DEF PipeInv, Pipeline!Init

LEMMA PipeEmit ==
    ASSUME PipeInv, NEW e \in Firings, Pipeline!Emit(e) PROVE PipeInv'
<1>1. ASSUME NEW s \in Listeners
      PROVE  /\ inbox'[s] \in Seq(Firings)
             /\ PipeOnePlace(inbox'[s], queue'[s], batch'[s])
             /\ PipeHolds(inbox'[s], queue'[s], batch'[s]) \subseteq emitted'
  <2>1. inbox[s] \in Seq(Firings)
    BY PipeTyped DEF PipeInv
  <2>2. queue'[s] = queue[s] /\ batch'[s] = batch[s] /\ e \notin emitted
        /\ emitted' = emitted \union {e}
    BY DEF Pipeline!Emit
  <2>3. CASE s \in listening
    <3>1. inbox'[s] = Append(inbox[s], e)
      BY <2>3 DEF Pipeline!Emit
    <3>2. e \notin PipeNames(inbox[s])
      BY <2>2, PipeFields
    <3>3. /\ PipeNames(inbox'[s]) = PipeNames(inbox[s]) \union {e}
          /\ PipeOnce(inbox'[s]) /\ inbox'[s] \in Seq(Firings)
      BY <2>1, <3>1, <3>2, PipeAppendName, PipeFields, AppendProperties
    <3> QED  BY <2>2, <3>3, PipeFields DEF PipeOnePlace, PipeHolds
  <2>4. CASE s \notin listening
    <3>1. inbox'[s] = inbox[s]
      BY <2>4 DEF Pipeline!Emit
    <3> QED  BY <2>1, <2>2, <3>1 DEF PipeInv
  <2> QED  BY <2>3, <2>4
<1>2. inbox' \in [Listeners -> Seq(Firings)]
  BY <1>1 DEF Pipeline!Emit
<1>3. Pipeline!TypeOK'
  BY <1>2 DEF PipeInv, Pipeline!TypeOK, Pipeline!Emit
<1> QED  BY <1>1, <1>3 DEF PipeInv, Pipeline!Emit

LEMMA PipeRoute ==
    ASSUME Pipeline!PipelineAssumption, PipeInv, NEW s \in Listeners,
           Pipeline!Route(s)
    PROVE  /\ PipeInv'
           /\ PipeHolds(inbox'[s], queue'[s], batch'[s])
                 = PipeHolds(inbox[s], queue[s], batch[s])
<1>1. /\ inbox[s] \in Seq(Firings) /\ inbox[s] # <<>>
      /\ queue[s] \in Seq(Pipeline!Item) /\ batch[s] \in Seq(Pipeline!Item)
      /\ Len(queue[s]) \in Nat /\ Len(queue[s]) < QueueSize
      /\ Len(batch[s]) <= BatchSize
  BY PipeTyped DEF PipeInv, Pipeline!Route
<1>2. PICK e \in Firings : e = Head(inbox[s])
  BY <1>1, HeadTailProperties
<1>3. PICK x \in Pipeline!Item : x = [ev |-> e, retries |-> 0]
  <2>1. 0 \in 0..(MaxTries - 1)
    BY DEF Pipeline!PipelineAssumption
  <2>2. [ev |-> e, retries |-> 0] \in Pipeline!Item
    BY <2>1 DEF Pipeline!Item
  <2> QED  BY <2>2
<1>4. PICK in \in Seq(Firings) : in = Tail(inbox[s])
  BY <1>1, HeadTailProperties
<1>5. /\ Append(queue[s], x) \in Seq(Pipeline!Item)
      /\ Len(Append(queue[s], x)) = Len(queue[s]) + 1
  BY <1>1, AppendProperties
<1>6. PICK q \in Seq(Pipeline!Item) : q = Append(queue[s], x)
  BY <1>5
<1>7. /\ e \in PipeNames(inbox[s])
      /\ PipeNames(in) = PipeNames(inbox[s]) \ {e} /\ PipeOnce(in)
  BY <1>1, <1>2, <1>4, PipeTailName, PipeFields
<1>8. PipeEvents(q) = PipeEvents(queue[s]) \union {e} /\ PipeItemsOnce(q)
  <2>1. x.ev = e /\ x.ev \notin PipeEvents(queue[s])
    BY <1>3, <1>7, PipeFields
  <2> QED  BY <1>1, <1>6, <2>1, PipeAppendItem, PipeFields
<1>9. /\ PipeOnePlace(in, q, batch[s])
      /\ PipeHolds(in, q, batch[s]) = PipeHolds(inbox[s], queue[s], batch[s])
  BY <1>7, <1>8, PipeFields DEF PipeOnePlace, PipeHolds
<1>10. /\ inbox' = [inbox EXCEPT ![s] = in]
       /\ queue' = [queue EXCEPT ![s] = q]
       /\ batch' = [batch EXCEPT ![s] = batch[s]]
  <2>1. queue' = [queue EXCEPT ![s] =
                     Append(@, [ev |-> Head(inbox[s]), retries |-> 0])]
        /\ inbox' = [inbox EXCEPT ![s] = Tail(@)] /\ batch' = batch
    BY DEF Pipeline!Route
  <2> QED  BY <2>1, <1>2, <1>3, <1>4, <1>6 DEF PipeInv, Pipeline!TypeOK
<1>11. PipeHolds(in, q, batch[s]) \subseteq emitted /\ Len(q) <= QueueSize
  BY <1>1, <1>5, <1>6, <1>9, PipeFields DEF Pipeline!PipelineAssumption
<1>12. inbox'[s] = in /\ queue'[s] = q /\ batch'[s] = batch[s]
  BY <1>10 DEF PipeInv, Pipeline!TypeOK
<1>13. /\ emitted' = emitted /\ listening' \subseteq Listeners
       /\ stops' \in 0..MaxStops
       /\ rows' \in [Firings -> Nat] /\ unheard' \subseteq emitted
       /\ \A y \in Firings : rows'[y] > 0 => y \in emitted
  BY DEF Pipeline!Route, PipeInv, Pipeline!TypeOK
<1> QED  BY <1>1, <1>9, <1>10, <1>11, <1>12, <1>13, PipeServerStep

LEMMA PipeCollect ==
    ASSUME Pipeline!PipelineAssumption, PipeInv, NEW s \in Listeners,
           Pipeline!Collect(s)
    PROVE  /\ PipeInv'
           /\ PipeHolds(inbox'[s], queue'[s], batch'[s])
                 = PipeHolds(inbox[s], queue[s], batch[s])
<1>1. /\ inbox[s] \in Seq(Firings)
      /\ queue[s] \in Seq(Pipeline!Item) /\ batch[s] \in Seq(Pipeline!Item)
      /\ queue[s] # <<>>
      /\ Len(queue[s]) \in Nat /\ Len(queue[s]) <= QueueSize
      /\ Len(batch[s]) \in Nat /\ Len(batch[s]) < BatchSize
  BY PipeTyped DEF PipeInv, Pipeline!Collect
<1>2. PICK x \in Pipeline!Item : x = Head(queue[s])
  BY <1>1, HeadTailProperties
<1>3. Tail(queue[s]) \in Seq(Pipeline!Item)
      /\ Len(Tail(queue[s])) = Len(queue[s]) - 1
  BY <1>1, HeadTailProperties
<1>4. PICK q \in Seq(Pipeline!Item) : q = Tail(queue[s])
  BY <1>3
<1>5. /\ Append(batch[s], x) \in Seq(Pipeline!Item)
      /\ Len(Append(batch[s], x)) = Len(batch[s]) + 1
  BY <1>1, AppendProperties
<1>6. PICK b \in Seq(Pipeline!Item) : b = Append(batch[s], x)
  BY <1>5
<1>7. /\ x.ev \in PipeEvents(queue[s])
      /\ PipeEvents(q) = PipeEvents(queue[s]) \ {x.ev} /\ PipeItemsOnce(q)
  BY <1>1, <1>2, <1>4, PipeTailItem, PipeFields
<1>8. PipeEvents(b) = PipeEvents(batch[s]) \union {x.ev} /\ PipeItemsOnce(b)
  <2>1. x.ev \notin PipeEvents(batch[s])
    BY <1>7, PipeFields
  <2> QED  BY <1>1, <1>6, <2>1, PipeAppendItem, PipeFields
<1>9. /\ PipeOnePlace(inbox[s], q, b)
      /\ PipeHolds(inbox[s], q, b) = PipeHolds(inbox[s], queue[s], batch[s])
  BY <1>7, <1>8, PipeFields DEF PipeOnePlace, PipeHolds
<1>10. /\ inbox' = [inbox EXCEPT ![s] = inbox[s]]
       /\ queue' = [queue EXCEPT ![s] = q]
       /\ batch' = [batch EXCEPT ![s] = b]
  <2>1. batch' = [batch EXCEPT ![s] = Append(@, Head(queue[s]))]
        /\ queue' = [queue EXCEPT ![s] = Tail(@)] /\ inbox' = inbox
    BY DEF Pipeline!Collect
  <2> QED  BY <2>1, <1>2, <1>4, <1>6 DEF PipeInv, Pipeline!TypeOK
<1>11. /\ PipeHolds(inbox[s], q, b) \subseteq emitted
       /\ Len(q) <= QueueSize /\ Len(b) <= BatchSize
  <2>1. BatchSize \in Nat /\ QueueSize \in Nat
    BY DEF Pipeline!PipelineAssumption
  <2> QED  BY <1>1, <1>3, <1>4, <1>5, <1>6, <1>9, <2>1, PipeFields
<1>12. inbox'[s] = inbox[s] /\ queue'[s] = q /\ batch'[s] = b
  BY <1>10 DEF PipeInv, Pipeline!TypeOK
<1>13. /\ emitted' = emitted /\ listening' \subseteq Listeners
       /\ stops' \in 0..MaxStops
       /\ rows' \in [Firings -> Nat] /\ unheard' \subseteq emitted
       /\ \A y \in Firings : rows'[y] > 0 => y \in emitted
  BY DEF Pipeline!Collect, PipeInv, Pipeline!TypeOK
<1> QED  BY <1>1, <1>9, <1>10, <1>11, <1>12, <1>13, PipeServerStep

\* A router that crashes or reconnects, and a server that stops.
LEMMA PipeStop ==
    ASSUME Pipeline!PipelineAssumption, PipeInv, NEW s \in Listeners,
           Pipeline!RouterCrash(s) \/ Pipeline!Shutdown(s)
    PROVE  /\ PipeInv'
           /\ PipeHolds(inbox'[s], queue'[s], batch'[s])
                 \subseteq PipeHolds(inbox[s], queue[s], batch[s])
<1>1. /\ queue[s] \in Seq(Pipeline!Item) /\ batch[s] \in Seq(Pipeline!Item)
      /\ Len(queue[s]) <= QueueSize /\ Len(batch[s]) <= BatchSize
      /\ QueueSize \in Nat /\ BatchSize \in Nat
  BY PipeTyped DEF PipeInv, Pipeline!PipelineAssumption
<1>2. /\ emitted' = emitted /\ listening' \subseteq Listeners
      /\ rows' \in [Firings -> Nat] /\ unheard' \subseteq emitted
      /\ \A y \in Firings : rows'[y] > 0 => y \in emitted
  BY DEF Pipeline!RouterCrash, Pipeline!Shutdown, PipeInv, Pipeline!TypeOK
<1>3. stops' \in 0..MaxStops
  BY DEF Pipeline!RouterCrash, Pipeline!Shutdown, PipeInv, Pipeline!TypeOK,
         Pipeline!PipelineAssumption
<1>4. PICK q \in Seq(Pipeline!Item), b \in Seq(Pipeline!Item) :
          /\ q = queue[s] \/ q = <<>>
          /\ b = batch[s] \/ b = <<>>
          /\ inbox' = [inbox EXCEPT ![s] = <<>>]
          /\ queue' = [queue EXCEPT ![s] = q]
          /\ batch' = [batch EXCEPT ![s] = b]
  <2>1. CASE Pipeline!RouterCrash(s)
    <3>1. /\ inbox' = [inbox EXCEPT ![s] = <<>>]
          /\ queue' = [queue EXCEPT ![s] = queue[s]]
          /\ batch' = [batch EXCEPT ![s] = batch[s]]
      BY <2>1 DEF Pipeline!RouterCrash, PipeInv, Pipeline!TypeOK
    <3> QED  BY <3>1, <1>1
  <2>2. CASE Pipeline!Shutdown(s)
    <3>1. /\ inbox' = [inbox EXCEPT ![s] = <<>>]
          /\ queue' = [queue EXCEPT ![s] = <<>>]
          /\ batch' = [batch EXCEPT ![s] = <<>>]
      BY <2>2 DEF Pipeline!Shutdown
    <3> QED  BY <3>1, PipeEmpty
  <2> QED  BY <2>1, <2>2
<1>5. /\ PipeEvents(q) \subseteq PipeEvents(queue[s]) /\ PipeItemsOnce(q)
      /\ Len(q) <= QueueSize
  BY <1>1, <1>4, PipeEmpty, PipeFields
<1>6. /\ PipeEvents(b) \subseteq PipeEvents(batch[s]) /\ PipeItemsOnce(b)
      /\ Len(b) <= BatchSize
  BY <1>1, <1>4, PipeEmpty, PipeFields
<1>7. /\ PipeOnePlace(<<>>, q, b)
      /\ PipeHolds(<<>>, q, b) \subseteq PipeHolds(inbox[s], queue[s],
                                                   batch[s])
  BY <1>5, <1>6, PipeEmpty, PipeFields DEF PipeOnePlace, PipeHolds
<1>8. PipeHolds(<<>>, q, b) \subseteq emitted /\ <<>> \in Seq(Firings)
  BY <1>7, PipeFields, PipeEmpty
<1>9. inbox'[s] = <<>> /\ queue'[s] = q /\ batch'[s] = b
  BY <1>4 DEF PipeInv, Pipeline!TypeOK
<1> QED  BY <1>2, <1>3, <1>4, <1>5, <1>6, <1>7, <1>8, <1>9, PipeServerStep

\* A batch that ends: stored or not, heard of or not.  What is put back was
\* in it.
LEMMA PipeBatchEnds ==
    ASSUME Pipeline!PipelineAssumption, PipeInv, NEW s \in Listeners,
           Pipeline!Commit(s) \/ Pipeline!CommitFails(s)
             \/ Pipeline!CommitUnheard(s)
    PROVE  /\ PipeInv'
           /\ rows' = rows \/ rows' = Pipeline!Stored(s)
           /\ \E r \in Seq(Pipeline!Item) :
                 /\ PipeEvents(r) \subseteq PipeEvents(batch[s])
                 /\ Pipeline!Commit(s) => PipeEvents(r) = {}
                 /\ PipeHolds(inbox'[s], queue'[s], batch'[s])
                       = PipeNames(inbox[s])
                            \union (PipeEvents(queue[s]) \union PipeEvents(r))
<1>1. /\ inbox[s] \in Seq(Firings)
      /\ queue[s] \in Seq(Pipeline!Item) /\ batch[s] \in Seq(Pipeline!Item)
      /\ Len(queue[s]) \in Nat /\ Len(queue[s]) <= QueueSize
      /\ QueueSize \in Nat /\ BatchSize \in Nat /\ Pipeline!TypeOK
      /\ PipeItemsOnce(batch[s])
  BY PipeTyped, PipeFields DEF PipeInv, Pipeline!PipelineAssumption
<1>2. /\ emitted' = emitted /\ listening' \subseteq Listeners
      /\ stops' \in 0..MaxStops
  BY DEF Pipeline!Commit, Pipeline!CommitFails, Pipeline!CommitUnheard,
         Pipeline!Requeue, PipeInv, Pipeline!TypeOK
<1>3. PICK r \in Seq(Pipeline!Item) :
          /\ PipeEvents(r) \subseteq PipeEvents(batch[s]) /\ PipeItemsOnce(r)
          /\ Len(r) <= QueueSize - Len(queue[s])
          /\ Pipeline!Commit(s) => PipeEvents(r) = {}
          /\ queue' = [queue EXCEPT ![s] = queue[s] \o r]
  <2>1. CASE Pipeline!Commit(s)
    <3>1. queue[s] \o <<>> = queue[s]
      BY <1>1, ConcatEmptySeq
    <3>2. queue' = [queue EXCEPT ![s] = queue[s]]
      BY <2>1 DEF Pipeline!Commit, PipeInv, Pipeline!TypeOK
    <3>3. PICK r \in Seq(Pipeline!Item) : r = <<>>
      BY PipeEmpty
    <3>4. queue' = [queue EXCEPT ![s] = queue[s] \o r]
      BY <3>1, <3>2, <3>3
    <3>5. Len(r) <= QueueSize - Len(queue[s])
      BY <1>1, <3>3, PipeEmpty
    <3> QED  BY <3>3, <3>4, <3>5, PipeEmpty
  <2>2. CASE ~Pipeline!Commit(s)
    <3>1. Pipeline!Requeue(s)
      BY <2>2 DEF Pipeline!CommitFails, Pipeline!CommitUnheard
    <3>2. PICK r \in Pipeline!ToRetry(s) :
            queue' = [queue EXCEPT ![s] = @ \o r]
      BY <3>1 DEF Pipeline!Requeue
    <3>3. queue' = [queue EXCEPT ![s] = queue[s] \o r]
      BY <3>2 DEF PipeInv, Pipeline!TypeOK
    <3> QED  BY <2>2, <3>3, <1>1, PipeRetried
  <2> QED  BY <2>1, <2>2
<1>4. PICK q \in Seq(Pipeline!Item) :
          q = queue[s] \o r /\ Len(q) = Len(queue[s]) + Len(r)
  BY <1>1, ConcatProperties
<1>5. Len(r) \in Nat
  BY LenProperties
<1>6. Len(q) <= QueueSize
  BY <1>1, <1>3, <1>4, <1>5
<1>7. /\ PipeEvents(q) = PipeEvents(queue[s]) \union PipeEvents(r)
      /\ PipeItemsOnce(q)
  <2>1. PipeEvents(queue[s]) \intersect PipeEvents(r) = {}
    BY <1>3, PipeFields
  <2> QED  BY <1>1, <1>3, <1>4, <2>1, PipeConcat, PipeFields
<1>8. /\ inbox' = [inbox EXCEPT ![s] = inbox[s]]
      /\ queue' = [queue EXCEPT ![s] = q]
      /\ batch' = [batch EXCEPT ![s] = <<>>]
  <2>1. inbox' = inbox /\ batch' = [batch EXCEPT ![s] = <<>>]
    BY DEF Pipeline!Commit, Pipeline!CommitFails, Pipeline!CommitUnheard,
           Pipeline!Requeue
  <2> QED  BY <2>1, <1>3, <1>4 DEF PipeInv, Pipeline!TypeOK
<1>9. /\ PipeOnePlace(inbox[s], q, <<>>)
      /\ PipeHolds(inbox[s], q, <<>>) = PipeNames(inbox[s])
           \union PipeEvents(q)
  <2>1. PipeNames(inbox[s]) \intersect PipeEvents(q) = {}
    BY <1>3, <1>7, PipeFields
  <2> QED  BY <1>7, <2>1, PipeEmpty, PipeFields DEF PipeOnePlace, PipeHolds
<1>10. PipeHolds(inbox[s], q, <<>>) \subseteq emitted
  BY <1>3, <1>7, <1>9, PipeFields
<1>11. rows' = rows \/ rows' = Pipeline!Stored(s)
  BY DEF Pipeline!Commit, Pipeline!CommitFails, Pipeline!CommitUnheard
<1>12. /\ rows' \in [Firings -> Nat]
       /\ \A y \in Firings : rows'[y] > 0 => y \in emitted
  <2>1. CASE rows' = rows
    BY <2>1 DEF PipeInv, Pipeline!TypeOK
  <2>2. CASE rows' = Pipeline!Stored(s)
    <3>1. rows' = [e \in Firings |-> IF e \in PipeEvents(batch[s])
                                    THEN rows[e] + 1 ELSE rows[e]]
      BY <2>2, <1>1, PipeStored
    <3>2. rows \in [Firings -> Nat] /\ \A y \in Firings : rows[y] > 0
            => y \in emitted
      BY DEF PipeInv, Pipeline!TypeOK
    <3>3. rows' \in [Firings -> Nat]
      BY <3>1, <3>2
    <3>4. ASSUME NEW y \in Firings, rows'[y] > 0 PROVE y \in emitted
      BY <3>1, <3>2, <3>4, PipeFields
    <3> QED  BY <3>3, <3>4
  <2> QED  BY <1>11, <2>1, <2>2
<1>13. unheard' \subseteq emitted
  <2>1. Pipeline!InBatch(s) = PipeEvents(batch[s])
    BY DEF Pipeline!InBatch, PipeEvents
  <2>2. unheard' = unheard \/ unheard' = unheard \union Pipeline!InBatch(s)
    BY DEF Pipeline!Commit, Pipeline!CommitFails, Pipeline!CommitUnheard
  <2> QED  BY <2>1, <2>2, PipeFields DEF PipeInv
<1>14. inbox'[s] = inbox[s] /\ queue'[s] = q /\ batch'[s] = <<>>
  BY <1>8 DEF PipeInv, Pipeline!TypeOK
<1>15. Len(<<>>) <= BatchSize /\ <<>> \in Seq(Pipeline!Item)
  BY <1>1, PipeEmpty
<1>16. PipeInv'
  BY <1>1, <1>2, <1>6, <1>8, <1>9, <1>10, <1>12, <1>13, <1>15, PipeServerStep
<1>17. PipeHolds(inbox'[s], queue'[s], batch'[s])
          = PipeNames(inbox[s])
            \union (PipeEvents(queue[s]) \union PipeEvents(r))
  BY <1>7, <1>9, <1>14
<1> QED  BY <1>3, <1>11, <1>16, <1>17

LEMMA PipeRest ==
    ASSUME PipeInv,
           UNCHANGED Pipeline!vars \/ \E s \in Listeners :
             Pipeline!Reconnect(s)
    PROVE  PipeInv' /\ UNCHANGED <<inbox, queue, batch, rows, unheard>>
<1>1. UNCHANGED <<emitted, inbox, queue, batch, rows, unheard, stops>>
  BY DEF Pipeline!vars, Pipeline!memory, Pipeline!Reconnect
<1>2. listening' \subseteq Listeners
  BY DEF Pipeline!vars, Pipeline!Reconnect, PipeInv, Pipeline!TypeOK
<1> QED  BY <1>1, <1>2 DEF PipeInv, Pipeline!TypeOK

LEMMA PipeStep ==
    ASSUME Pipeline!PipelineAssumption, PipeInv, [Pipeline!Next]_Pipeline!vars
    PROVE  PipeInv'
BY PipeEmit, PipeRoute, PipeCollect, PipeStop, PipeBatchEnds, PipeRest
   DEF Pipeline!Next

(***************************************************************************)
(* The refinement: what a single server holds is what is open.             *)
(***************************************************************************)
PipeOpen == UNION {Pipeline!HeldBy(s) : s \in Listeners}

LEMMA PipeHeld ==
    ASSUME NEW s \in Listeners
    PROVE  /\ Pipeline!InBatch(s) = PipeEvents(batch[s])
           /\ Pipeline!HeldBy(s) = PipeHolds(inbox[s], queue[s], batch[s])
BY DEF Pipeline!InBatch, Pipeline!HeldBy, PipeHolds, PipeNames, PipeEvents

LEMMA PipeHeldNext ==
    ASSUME NEW s \in Listeners
    PROVE  Pipeline!HeldBy(s)' = PipeHolds(inbox'[s], queue'[s], batch'[s])
BY DEF Pipeline!InBatch, Pipeline!HeldBy, PipeHolds, PipeNames, PipeEvents

LEMMA PipeLogInit == ASSUME Pipeline!Init PROVE Pipeline!Log!Init
<1>1. ASSUME NEW s \in Listeners PROVE Pipeline!HeldBy(s) = {}
  <2>1. inbox[s] = <<>> /\ queue[s] = <<>> /\ batch[s] = <<>>
    BY DEF Pipeline!Init, Pipeline!Empty
  <2> QED  BY <2>1, PipeHeld, PipeEmpty DEF PipeHolds
<1> QED  BY <1>1 DEF Pipeline!Init, Pipeline!Log!Init

LEMMA PipeLogStep ==
    ASSUME Pipeline!PipelineAssumption, PipeInv, NEW s, Listeners = {s},
           [Pipeline!Next]_Pipeline!vars
    PROVE  [Pipeline!Log!Next]_(Pipeline!Log!vars)
<1> DEFINE open == UNION {Pipeline!HeldBy(t) : t \in Listeners}
<1>1. open = Pipeline!HeldBy(s) /\ open' = Pipeline!HeldBy(s)'
  OBVIOUS
<1>2. /\ open = PipeHolds(inbox[s], queue[s], batch[s])
      /\ open' = PipeHolds(inbox'[s], queue'[s], batch'[s])
  BY <1>1, PipeHeld, PipeHeldNext
<1> HIDE DEF open
<1>3. open \subseteq Firings /\ emitted \subseteq Firings
      /\ open \subseteq emitted
  BY <1>2, PipeFields DEF PipeInv, Pipeline!TypeOK
<1>4. PipeEvents(batch[s]) \subseteq open
      /\ PipeEvents(batch[s]) \subseteq Firings
  BY <1>2, <1>3 DEF PipeHolds
<1>5. Pipeline!InBatch(s) = PipeEvents(batch[s])
  BY PipeHeld
<1>6. ASSUME NEW e \in Firings, Pipeline!Emit(e)
      PROVE  [Pipeline!Log!Next]_(Pipeline!Log!vars)
  <2>1. rows[e] \in Nat /\ ~(rows[e] > 0) /\ e \notin unheard /\ e \notin open
    BY <1>6, <1>3 DEF Pipeline!Emit, PipeInv, Pipeline!TypeOK
  <2>2. {e} \subseteq Pipeline!Log!Fresh
    BY <2>1 DEF Pipeline!Log!Fresh, open
  <2>3. queue' = queue /\ batch' = batch /\ rows' = rows /\ unheard' = unheard
    BY <1>6 DEF Pipeline!Emit
  <2>4. CASE s \in listening
    <3>1. inbox'[s] = Append(inbox[s], e)
      BY <2>4, <1>6 DEF Pipeline!Emit
    <3>2. PipeNames(inbox'[s]) = PipeNames(inbox[s]) \union {e}
      BY <3>1, PipeAppendName, PipeTyped DEF PipeInv
    <3>3. open' = open \union {e}
      BY <1>2, <2>3, <3>2 DEF PipeHolds
    <3>4. Pipeline!Log!Emit({e})
      BY <2>2, <2>3, <3>3 DEF Pipeline!Log!Emit, open
    <3> QED  BY <3>4 DEF Pipeline!Log!Next
  <2>5. CASE s \notin listening
    <3>1. inbox'[s] = inbox[s]
      BY <2>5, <1>6 DEF Pipeline!Emit
    <3>2. open' = open
      BY <1>2, <2>3, <3>1
    <3> QED  BY <2>3, <3>2 DEF Pipeline!Log!vars, open
  <2> QED  BY <2>4, <2>5
<1>7. ASSUME Pipeline!Route(s) \/ Pipeline!Collect(s)
      PROVE  [Pipeline!Log!Next]_(Pipeline!Log!vars)
  <2>1. open' = open
    BY <1>2, <1>7, PipeRoute, PipeCollect
  <2>2. rows' = rows /\ unheard' = unheard
    BY <1>7 DEF Pipeline!Route, Pipeline!Collect
  <2> QED  BY <2>1, <2>2 DEF Pipeline!Log!vars, open
<1>8. ASSUME Pipeline!RouterCrash(s) \/ Pipeline!Shutdown(s)
      PROVE  [Pipeline!Log!Next]_(Pipeline!Log!vars)
  <2>1. open' \subseteq open
    BY <1>2, <1>8, PipeStop
  <2>2. rows' = rows /\ unheard' = unheard
    BY <1>8 DEF Pipeline!RouterCrash, Pipeline!Shutdown
  <2>3. PICK G \in SUBSET Firings : G = open \ open'
    BY <1>3
  <2>4. G \subseteq open /\ open' = open \ G
    BY <2>1, <2>3
  <2>5. Pipeline!Log!GiveUp(G)
    BY <2>2, <2>4 DEF Pipeline!Log!GiveUp, open
  <2> QED  BY <2>5 DEF Pipeline!Log!Next
<1>9. ASSUME Pipeline!Commit(s) \/ Pipeline!CommitFails(s)
               \/ Pipeline!CommitUnheard(s)
      PROVE  [Pipeline!Log!Next]_(Pipeline!Log!vars)
  <2>1. PICK r \in Seq(Pipeline!Item) :
            /\ PipeEvents(r) \subseteq PipeEvents(batch[s])
            /\ Pipeline!Commit(s) => PipeEvents(r) = {}
            /\ PipeHolds(inbox'[s], queue'[s], batch'[s])
                  = PipeNames(inbox[s])
                       \union (PipeEvents(queue[s]) \union PipeEvents(r))
    BY <1>9, PipeBatchEnds
  <2>2. PICK B \in SUBSET Firings : B = PipeEvents(batch[s])
    BY <1>4
  <2>3. PICK G \in SUBSET B : G = B \ PipeEvents(r)
    OBVIOUS
  <2>4. open' = open \ G
    BY <1>2, <2>1, <2>2, <2>3, PipeFields DEF PipeHolds
  <2>5. Pipeline!Stored(s) = [e \in Firings |-> IF e \in B THEN rows[e] + 1
                                 ELSE rows[e]]
    BY <2>2, PipeStored, PipeFields DEF PipeInv
  <2>6. Pipeline!Stored(s) = Pipeline!Log!Plus(B)
    BY <2>5 DEF Pipeline!Log!Plus
  <2>7. B \subseteq open
    BY <1>4, <2>2
  <2>8. CASE Pipeline!Commit(s)
    <3>1. G = B
      BY <2>1, <2>3, <2>8
    <3>2. rows' = Pipeline!Stored(s) /\ unheard' = unheard
      BY <2>8 DEF Pipeline!Commit
    <3>3. Pipeline!Log!Store(B)
      BY <2>4, <2>6, <2>7, <3>1, <3>2 DEF Pipeline!Log!Store, open
    <3> QED  BY <3>3 DEF Pipeline!Log!Next
  <2>9. CASE Pipeline!CommitFails(s)
    <3>1. rows' = rows /\ unheard' = unheard
      BY <2>9 DEF Pipeline!CommitFails
    <3>2. G \subseteq open /\ G \in SUBSET Firings
      BY <2>2, <2>3, <2>7
    <3>3. Pipeline!Log!GiveUp(G)
      BY <2>4, <3>1, <3>2 DEF Pipeline!Log!GiveUp, open
    <3> QED  BY <3>2, <3>3 DEF Pipeline!Log!Next
  <2>10. CASE Pipeline!CommitUnheard(s)
    <3>1. rows' = Pipeline!Stored(s) /\ unheard' = unheard \union B
      BY <2>10, <1>5, <2>2 DEF Pipeline!CommitUnheard
    <3>2. Pipeline!Log!StoreUnheard(B, G)
      BY <2>4, <2>6, <2>7, <3>1 DEF Pipeline!Log!StoreUnheard, open
    <3> QED  BY <3>2 DEF Pipeline!Log!Next
  <2> QED  BY <1>9, <2>8, <2>9, <2>10
<1>10. CASE UNCHANGED Pipeline!vars \/ Pipeline!Reconnect(s)
  <2>1. UNCHANGED <<inbox, queue, batch, rows, unheard>>
    BY <1>10, PipeRest
  <2>2. open' = open
    BY <1>2, <2>1
  <2> QED  BY <2>1, <2>2 DEF Pipeline!Log!vars, open
<1> QED  BY <1>6, <1>7, <1>8, <1>9, <1>10 DEF Pipeline!Next

-----------------------------------------------------------------------------
(* The instance's copy of FiniteSets is FiniteSets.                        *)
LEMMA LocksFinite == \A S : Locks!IsFiniteSet(S) <=> IsFiniteSet(S)
  BY DEF Locks!IsFiniteSet, IsFiniteSet
LEMMA LocksCardinality ==
  ASSUME NEW S PROVE Locks!Cardinality(S) = Cardinality(S)
  BY Zenon DEF Locks!Cardinality, Cardinality
USE LocksFinite, LocksCardinality

(***************************************************************************)
(* Row locks.                                                              *)
(***************************************************************************)

(* A set in ascending order is a sequence of its elements.                 *)
LEMMA LocksSorted ==
    ASSUME NEW S, IsFiniteSet(S), NEW q \in Locks!Sorted(S) PROVE q \in Seq(S)
<1>1. Cardinality(S) \in Nat  BY FS_CardinalityType
<1>2. q \in [1..Cardinality(S) -> S]  BY DEF Locks!Sorted
<1> QED  BY <1>1, <1>2, SeqDef

LEMMA LocksOrders ==
    ASSUME NEW S, IsFiniteSet(S), NEW q \in Locks!SetToSeqs(S)
    PROVE  q \in Seq(S)
<1>1. Cardinality(S) \in Nat  BY FS_CardinalityType
<1>2. q \in [1..Cardinality(S) -> S]  BY DEF Locks!SetToSeqs
<1> QED  BY <1>1, <1>2, SeqDef

(* The products of some variants are finitely many rows.                    *)
LEMMA LocksProducts ==
    ASSUME Locks!LocksAssumption, NEW V \in SUBSET Variants,
           NEW P \in SUBSET Locks!ProductsOf(V)
    PROVE  /\ IsFiniteSet(V) /\ IsFiniteSet(P)
           /\ V \subseteq Locks!Rows /\ P \subseteq Locks!Rows
<1>1. IsFiniteSet(V)
  BY FS_Subset DEF Locks!LocksAssumption
<1>2. IsFiniteSet({ProductOf[v] : v \in V})
  <2> DEFINE T == {ProductOf[v] : v \in V}
             f == [v \in V |-> ProductOf[v]]
  <2>1. f \in Surjection(V, T)
    BY DEF Surjection
  <2> QED  BY <1>1, <2>1, FS_Surjection
<1>3. P \subseteq {ProductOf[v] : v \in V}
  BY DEF Locks!ProductsOf
<1>4. IsFiniteSet(P)
  BY <1>2, <1>3, FS_Subset
<1> QED  BY <1>1, <1>3, <1>4 DEF Locks!Rows

LEMMA LocksJoin ==
    ASSUME NEW S \in SUBSET Locks!Rows, NEW T \in SUBSET Locks!Rows,
           NEW p \in Seq(S), NEW q \in Seq(T)
    PROVE  p \o q \in Seq(Locks!Rows)
<1>1. p \in Seq(Locks!Rows) /\ q \in Seq(Locks!Rows)
  BY SeqMonotonic
<1> QED  BY <1>1, ConcatProperties

LEMMA LocksStart ==
    ASSUME Locks!TypeOK, NEW s \in Sessions, NEW order \in Seq(Locks!Rows),
           Locks!Start(s, order)
    PROVE  Locks!TypeOK'
BY DEF Locks!TypeOK, Locks!Start

LEMMA LocksInit == ASSUME Locks!Init PROVE Locks!TypeOK
<1>1. <<>> \in Seq(Locks!Rows)  BY EmptySeq
<1> QED  BY <1>1 DEF Locks!Init, Locks!TypeOK

LEMMA LocksStep ==
    ASSUME Locks!LocksAssumption, Locks!TypeOK, [Locks!Next]_Locks!vars
    PROVE  Locks!TypeOK'
<1>1. ASSUME NEW s \in Sessions, NEW V \in SUBSET Variants,
             Locks!CheckOut(s, V)
      PROVE  Locks!TypeOK'
  <2>1. PICK order \in Locks!SetToSeqs(V), P \in SUBSET Locks!ProductsOf(V) :
            \E empties \in Locks!SetToSeqs(P) :
              Locks!Start(s, order \o empties)
    BY <1>1 DEF Locks!CheckOut
  <2>2. PICK empties \in Locks!SetToSeqs(P) : Locks!Start(s, order \o empties)
    BY <2>1
  <2>3. order \in Seq(V) /\ empties \in Seq(P)
    BY LocksProducts, LocksOrders
  <2>4. order \o empties \in Seq(Locks!Rows)
    BY <2>3, LocksProducts, LocksJoin
  <2> QED  BY <2>2, <2>4, LocksStart
<1>2. ASSUME NEW s \in Sessions, NEW V \in SUBSET Variants, Locks!Restore(s, V)
      PROVE  Locks!TypeOK'
  <2>1. PICK P \in SUBSET Locks!ProductsOf(V) :
            \E variants \in Locks!Sorted(V), products \in Locks!Sorted(P) :
                \/ Locks!Start(s, variants \o products)
                \/ Locks!Start(s, products \o variants)
    BY <1>2 DEF Locks!Restore
  <2>2. PICK variants \in Locks!Sorted(V), products \in Locks!Sorted(P) :
            \/ Locks!Start(s, variants \o products)
            \/ Locks!Start(s, products \o variants)
    BY <2>1
  <2>3. variants \in Seq(V) /\ products \in Seq(P)
    BY LocksProducts, LocksSorted
  <2>4. variants \o products \in Seq(Locks!Rows)
        /\ products \o variants \in Seq(Locks!Rows)
    BY <2>3, LocksProducts, LocksJoin
  <2> QED  BY <2>2, <2>4, LocksStart
<1>3. ASSUME NEW s \in Sessions, NEW v \in Variants, Locks!Count(s, v)
      PROVE  Locks!TypeOK'
  <2>1. v \in Locks!Rows /\ ProductOf[v] \in Locks!Rows
    BY DEF Locks!Rows
  <2>2. <<v>> \in Seq(Locks!Rows) /\ <<v, ProductOf[v]>> \in Seq(Locks!Rows)
    BY <2>1
  <2> QED  BY <1>3, <2>2, LocksStart DEF Locks!Count
<1>4. ASSUME NEW s \in Sessions, Locks!Acquire(s) PROVE Locks!TypeOK'
  <2>1. /\ plan[s] \in Seq(Locks!Rows) /\ plan[s] # <<>>
        /\ Locks!Free(Head(plan[s])) \/ Head(plan[s]) \in held[s]
        /\ held' = [held EXCEPT ![s] = @ \union {Head(plan[s])}]
        /\ plan' = [plan EXCEPT ![s] = Tail(@)]
    BY <1>4 DEF Locks!TypeOK, Locks!Acquire
  <2>2. Head(plan[s]) \in Locks!Rows /\ Tail(plan[s]) \in Seq(Locks!Rows)
    BY <2>1, HeadTailProperties
  <2>3. PICK next \in Locks!Rows : next = Head(plan[s])
    BY <2>2
  <2>4. PICK rest \in Seq(Locks!Rows) : rest = Tail(plan[s])
    BY <2>2
  <2>5. plan' \in [Sessions -> Seq(Locks!Rows)]
    BY <2>1, <2>4 DEF Locks!TypeOK
  <2>6. held' = [held EXCEPT ![s] = @ \union {next}]
    BY <2>1, <2>3
  <2>7. Locks!Free(next) \/ next \in held[s]
    BY <2>1, <2>3
  <2>8. \A t \in Sessions : t # s => next \notin held[t]
    BY <2>7 DEF Locks!Free, Locks!TypeOK
  <2> QED  BY <2>5, <2>6, <2>8 DEF Locks!TypeOK
<1>5. ASSUME NEW s \in Sessions, Locks!Commit(s) PROVE Locks!TypeOK'
  BY <1>5 DEF Locks!TypeOK, Locks!Commit
<1>6. ASSUME NEW s \in Sessions, Locks!Break(s) PROVE Locks!TypeOK'
  <2>1. <<>> \in Seq(Locks!Rows)  BY EmptySeq
  <2> QED  BY <1>6, <2>1 DEF Locks!TypeOK, Locks!Break
<1>7. CASE UNCHANGED Locks!vars
  BY <1>7 DEF Locks!vars, Locks!TypeOK
<1> QED  BY <1>1, <1>2, <1>3, <1>4, <1>5, <1>6, <1>7 DEF Locks!Next

-----------------------------------------------------------------------------
(***************************************************************************)
(* All of them.  A step of MCBackground is one component's, or leaves a    *)
(* component as it is.                                                     *)
(***************************************************************************)
CacheProof == INSTANCE CacheProofs WITH tasks <- invalidations

(* CacheProofs' copy of the cache is the cache.                            *)
LEMMA CacheIsSame ==
  /\ Cache!Next <=> CacheProof!Next
  /\ Cache!Init <=> CacheProof!Init
  /\ Cache!TypeOK <=> CacheProof!TypeOK
  /\ Cache!CacheAssumption <=> CacheProof!CacheAssumption
<1>1. Cache!Versions = CacheProof!Versions /\ Cache!Data = CacheProof!Data
      /\ Cache!Nothing = CacheProof!Nothing /\ Cache!Idle = CacheProof!Idle
  BY DEF Cache!Versions, CacheProof!Versions, Cache!Data, CacheProof!Data,
         Cache!Nothing, CacheProof!Nothing, Cache!Idle, CacheProof!Idle
<1>2. \A r, s : Cache!Step(r, s) <=> CacheProof!Step(r, s)
  BY DEF Cache!Step, CacheProof!Step
<1>3. \A r, d : Cache!Return(r, d) <=> CacheProof!Return(r, d)
  BY <1>1 DEF Cache!Return, CacheProof!Return
<1>4. \A r : Cache!Request(r) <=> CacheProof!Request(r)
  <2> TAKE r
  <2>1. Cache!Begin(r) <=> CacheProof!Begin(r)
    BY DEF Cache!Begin, CacheProof!Begin
  <2>2. Cache!SetVersion(r) <=> CacheProof!SetVersion(r)
    BY <1>2 DEF Cache!SetVersion, CacheProof!SetVersion
  <2>3. Cache!Lookup(r) <=> CacheProof!Lookup(r)
    BY <1>1, <1>2, <1>3 DEF Cache!Lookup, CacheProof!Lookup
  <2>4. Cache!Query(r) <=> CacheProof!Query(r)
    BY DEF Cache!Query, CacheProof!Query
  <2>5. Cache!Fill(r) <=> CacheProof!Fill(r)
    BY <1>3 DEF Cache!Fill, CacheProof!Fill, Cache!UnderVersion,
                CacheProof!UnderVersion
  <2> QED
    BY <2>1, <2>2, <2>3, <2>4, <2>5 DEF Cache!Request, CacheProof!Request
<1>5. \A n : Cache!Invalidate(n) <=> CacheProof!Invalidate(n)
  <2>1. Cache!Increment <=> CacheProof!Increment
    BY <1>1 DEF Cache!Increment, CacheProof!Increment
  <2>2. Cache!Unlink <=> CacheProof!Unlink
    BY <1>1 DEF Cache!Unlink, CacheProof!Unlink
  <2>3. Cache!UnlinkUnawaited <=> CacheProof!UnlinkUnawaited
    BY DEF Cache!UnlinkUnawaited, CacheProof!UnlinkUnawaited
  <2> QED
    BY <2>1, <2>2, <2>3 DEF Cache!Invalidate, CacheProof!Invalidate
<1>6. \A n : Cache!Lose(n) <=> CacheProof!Lose(n)
  BY DEF Cache!Lose, CacheProof!Lose
<1>7. \A v : Cache!ExpireEntry(v) <=> CacheProof!ExpireEntry(v)
  BY <1>1 DEF Cache!ExpireEntry, CacheProof!ExpireEntry
<1>8. /\ Cache!Write <=> CacheProof!Write
      /\ Cache!Age <=> CacheProof!Age
      /\ Cache!ExpireVersion <=> CacheProof!ExpireVersion
  BY <1>1 DEF Cache!Write, CacheProof!Write, Cache!Age, CacheProof!Age,
              Cache!ExpireVersion, CacheProof!ExpireVersion
<1>9. Cache!Next <=> CacheProof!Next
  BY <1>1, <1>4, <1>5, <1>6, <1>7, <1>8 DEF Cache!Next, CacheProof!Next
<1>10. Cache!Init <=> CacheProof!Init
  BY <1>1 DEF Cache!Init, CacheProof!Init
<1>11. Cache!TypeOK <=> CacheProof!TypeOK
  BY <1>1 DEF Cache!TypeOK, CacheProof!TypeOK
<1> QED
  BY <1>9, <1>10, <1>11
     DEF Cache!CacheAssumption, CacheProof!CacheAssumption

LEMMA BackgroundSteps ==
  ASSUME [AllNext]_allVars
  PROVE  /\ [Membership!Next]_Membership!vars
         /\ [Pipeline!Next]_Pipeline!vars
         /\ [Next]_vars
         /\ [CacheProof!Next]_CacheProof!vars
         /\ [Locks!Next]_Locks!vars
<1> DEFINE M == UNCHANGED Membership!vars
           P == UNCHANGED Pipeline!vars
           O == UNCHANGED vars
           C == UNCHANGED CacheProof!vars
           L == UNCHANGED Locks!vars
<1>1. UNCHANGED membershipsVars => M
  BY DEF membershipsVars, Membership!vars, Membership!rows, Membership!stripe
<1>2. UNCHANGED notificationsVars => P
  BY DEF notificationsVars, Pipeline!vars, Pipeline!memory
<1>3. UNCHANGED cacheVars => C
  BY DEF cacheVars, CacheProof!vars
<1>4. UNCHANGED locksVars => L
  BY DEF locksVars, Locks!vars
<1>5. Cache!Next => CacheProof!Next
  BY CacheIsSame
<1> HIDE DEF M, P, O, C, L
<1>6. UNCHANGED allVars => M /\ P /\ O /\ C /\ L
  BY <1>1, <1>2, <1>3, <1>4 DEF allVars, O
<1>7. AllNext => \/ Membership!Next /\ P /\ O /\ C /\ L
                 \/ Pipeline!Next /\ M /\ O /\ C /\ L
                 \/ Next /\ M /\ P /\ C /\ L
                 \/ Cache!Next /\ M /\ P /\ O /\ L
                 \/ Locks!Next /\ M /\ P /\ O /\ C
  BY <1>1, <1>2, <1>3, <1>4 DEF AllNext, O
<1> QED  BY <1>5, <1>6, <1>7 DEF M, P, O, C, L

-----------------------------------------------------------------------------
(* The invariant of a behaviour of MCBackground: every component's own.  A *)
(* view that has a version, whose key has not expired, is fresh.           *)
CacheInv == CacheProof!TInv /\ (CacheProof!Kept => CacheProof!FInv)

BackgroundInv ==
    MemberInv /\ PipeInv /\ OutboxInv /\ CacheInv /\ Locks!TypeOK

LEMMA CacheInitStep ==
  ASSUME CacheProof!CacheAssumption
  PROVE  /\ CacheProof!Init => CacheInv
         /\ CacheInv /\ [CacheProof!Next]_CacheProof!vars => CacheInv'
<1>1. CacheProof!Init => CacheInv
  BY CacheProof!TInit, CacheProof!FInit DEF CacheInv
<1>2. ASSUME CacheInv, [CacheProof!Next]_CacheProof!vars
      PROVE  CacheInv'
  <2>1. CacheProof!TInv /\ (CacheProof!Kept => CacheProof!FInv)
    BY <1>2 DEF CacheInv
  <2>2. CacheProof!TInv'
    BY <1>2, <2>1, CacheProof!TStep
  <2>3. CacheProof!Kept' => CacheProof!FInv'
    BY <1>2, <2>1, CacheProof!FStep
  <2> QED  BY <2>2, <2>3 DEF CacheInv
<1> QED  BY <1>1, <1>2

LEMMA CacheProperties ==
  ASSUME CacheProof!CacheAssumption, CacheInv
  PROVE  Cache!TypeOK /\ Cache!Fresh
<1>1. CacheProof!TypeOK
  <2>1. version \in CacheProof!Versions \union {0}
    BY CacheProof!VersionFits DEF CacheInv
  <2> QED
    BY <2>1 DEF CacheInv, CacheProof!TInv, CacheProof!Typed,
                CacheProof!Behind, CacheProof!TypeOK,
                CacheProof!Versions, CacheProof!CacheAssumption
<1>2. Cache!Fresh
  BY DEF CacheInv, CacheProof!FInv, CacheProof!Answered, CacheProof!Kept,
         Cache!Fresh
<1> QED  BY <1>1, <1>2, CacheIsSame

LEMMA BackgroundAssumed ==
  /\ Membership!MembershipAssumption /\ Pipeline!PipelineAssumption
  /\ OutboxAssumption /\ CacheProof!CacheAssumption /\ Locks!LocksAssumption
  BY Assumptions, CacheIsSame

LEMMA BackgroundInit == AllInit => BackgroundInv
<1> SUFFICES ASSUME AllInit PROVE BackgroundInv
  OBVIOUS
<1>1. /\ Membership!Init /\ Pipeline!Init /\ Init /\ Cache!Init
      /\ Locks!Init
  BY DEF AllInit
<1> QED
  BY <1>1, BackgroundAssumed, CacheIsSame, MemberInit, PipeInit, OutboxInit,
     CacheInitStep, LocksInit DEF BackgroundInv

LEMMA BackgroundStep == BackgroundInv /\ [AllNext]_allVars => BackgroundInv'
<1> SUFFICES ASSUME BackgroundInv, [AllNext]_allVars PROVE BackgroundInv'
  OBVIOUS
<1>1. /\ [Membership!Next]_Membership!vars
      /\ [Pipeline!Next]_Pipeline!vars
      /\ [Next]_vars
      /\ [CacheProof!Next]_CacheProof!vars
      /\ [Locks!Next]_Locks!vars
  BY BackgroundSteps
<1>2. MemberInv /\ PipeInv /\ OutboxInv /\ CacheInv /\ Locks!TypeOK
  BY DEF BackgroundInv
<1> QED
  BY <1>1, <1>2, BackgroundAssumed, MemberStep, PipeStep, OutboxStep,
     CacheInitStep, LocksStep DEF BackgroundInv

(* BackgroundInv, the conjunction of the components' inductive invariants, *)
(* holds of the composition (membership_service.py, websocket.py,          *)
(* redis.py, transaction_locking.py).                                      *)
THEOREM BackgroundInvariance == AllSpec => []BackgroundInv
  BY BackgroundInit, BackgroundStep, PTL DEF AllSpec

(* Every component's variables keep their types, whatever crashes, is lost *)
(* or fails (membership_service.py, websocket.py, redis.py,                *)
(* transaction_locking.py).                                                *)
THEOREM BackgroundTypeCorrect == AllSpec => []AllTypeOK
<1>1. BackgroundInv => AllTypeOK
  BY BackgroundAssumed, MemberProperties, CacheProperties
     DEF BackgroundInv, PipeInv, OutboxInv, AllTypeOK
<1> QED  BY <1>1, BackgroundInvariance, PTL

(* Nobody becomes an active member without a period that was paid, and a   *)
(* page that is paid adds one period, however often, late or out of order  *)
(* Stripe tells of it (membership_service.py, stripe_webhook_service.py).  *)
THEOREM MembersHavePaid == AllSpec => []PaidFor
<1>1. BackgroundInv => PaidFor
  BY BackgroundAssumed, MemberProperties DEF BackgroundInv, PaidFor
<1> QED  BY <1>1, BackgroundInvariance, PTL

(* After an invalidation nobody who asks is told what was before, for any  *)
(* number of readers and writes (cache_version and cached of redis.py).    *)
THEOREM CacheIsFresh == AllSpec => []Fresh
<1>1. BackgroundInv => Fresh
  BY BackgroundAssumed, CacheProperties DEF BackgroundInv, Fresh
<1> QED  BY <1>1, BackgroundInvariance, PTL

(* The pipeline of a server, its queue, its batch and its retries, does    *)
(* what the abstract log does: an event is stored or given up while it is  *)
(* open, and only one whose commit was not heard of is stored again        *)
(* (run_router and add_commit_periodically of redis.py).                   *)
THEOREM LogIsImplemented ==
  ASSUME NEW s, Listeners = {s}
  PROVE  AllSpec => ImplementsLog
<1>1. AllInit => BackgroundInv /\ Pipeline!Log!Init
  BY BackgroundInit, PipeLogInit DEF AllInit
<1>2. BackgroundInv /\ [AllNext]_allVars
         => BackgroundInv' /\ [Pipeline!Log!Next]_(Pipeline!Log!vars)
  BY BackgroundStep, BackgroundSteps, BackgroundAssumed, PipeLogStep
     DEF BackgroundInv
<1> QED
  BY <1>1, <1>2, PTL
     DEF AllSpec, ImplementsLog, Pipeline!ImplementsLog, Pipeline!Log!Spec
=============================================================================
