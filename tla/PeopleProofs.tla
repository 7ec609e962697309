--------------------------- MODULE PeopleProofs -----------------------------
(***************************************************************************)
(* What holds, for every value of the constants, of the requests about     *)
(* people: stores and who works in them, sessions, support tickets and     *)
(* addresses. RequestsProofs draws the properties of MCRequests from it.   *)
(***************************************************************************)
EXTENDS MCRequests, FiniteSetTheorems, SequenceTheorems, TLAPS

-----------------------------------------------------------------------------
(***************************************************************************)
(* Stores, for any users, stores and requests in progress, and whatever    *)
(* the caps.                                                               *)
(***************************************************************************)
StoreDetails == 0..MaxEdits
StoreAccounts ==
  [state : {"none", "pending", "verified", "rejected"},
   tin : BOOLEAN, details : StoreDetails, deleted : BOOLEAN]
StoreCreations ==
  [step : {"create"}, store : Stores, who : (SUBSET Users) \ {{}}]
StoreAdditions ==
  [step : {"add"}, store : Stores, who : (SUBSET Users) \ {{}},
   role : {"owner", "staff"}]
StoreCallStates == {Idle} \union StoreCreations \union StoreAdditions

StoreTyped ==
    /\ status \in [Stores -> {"none", "new", "approved", "deleted"}]
    /\ owners \in [Stores -> SUBSET Users]
    /\ staff \in [Stores -> SUBSET Users]
    /\ name \in [Stores -> 0..1] /\ reviewed \in [Stores -> StoreDetails]
    /\ account \in [Stores -> StoreAccounts]
    /\ call \in [Calls -> StoreCallStates]

(* A store has owners from its creation on, and nothing before it.         *)
StoreFounded == \A s \in Stores :
    /\ (owners[s] = {}) <=> (status[s] = "none")
    /\ status[s] = "none" => staff[s] = {} /\ account[s].state = "none"

StoreAdds(c) == call[c].step = "add"

(* A request that is about to add somebody holds the store's lock alone,   *)
(* and the person is not in the store.                                     *)
StoreLocked == \A c \in Calls : StoreAdds(c) =>
    /\ status[call[c].store] # "none"
    /\ call[c].who \intersect owners[call[c].store] = {}
    /\ call[c].who \intersect staff[call[c].store] = {}
    /\ \A d \in Calls : StoreAdds(d) /\ d # c => call[d].store # call[c].store

StoreInv == StoreTyped /\ StoreFounded /\ StoreLocked /\ NoDoubleRole
  /\ VerifiedAsReviewed

USE DEF StoreAssumption

-----------------------------------------------------------------------------
LEMMA StoreCallFields ==
  ASSUME StoreAssumption, StoreTyped, NEW c \in Calls
  PROVE  /\ call[c].step = "create" => call[c] \in StoreCreations
         /\ StoreAdds(c) => call[c] \in StoreAdditions
BY DEF StoreTyped, StoreCallStates, StoreCreations, StoreAdditions, Idle,
       StoreAdds

LEMMA StoreInit ==
  ASSUME StoreAssumption
  PROVE  Init => StoreInv
<1> SUFFICES ASSUME Init PROVE StoreInv
  OBVIOUS
<1>1. NoAccount \in StoreAccounts /\ NoAccount.state = "none"
  BY DEF NoAccount, StoreAccounts, StoreDetails
<1>2. StoreTyped
  BY <1>1 DEF Init, StoreTyped, StoreCallStates, StoreDetails
<1>3. StoreFounded /\ NoDoubleRole /\ VerifiedAsReviewed
  BY <1>1 DEF Init, StoreFounded, NoDoubleRole, VerifiedAsReviewed
<1>4. StoreLocked
  BY DEF Init, StoreLocked, StoreAdds, Idle
<1> QED BY <1>2, <1>3, <1>4 DEF StoreInv

LEMMA StoreCheckKeeps ==
  ASSUME StoreAssumption,
         StoreInv, NEW c \in Calls,
         NEW r \in StoreCreations \union StoreAdditions,
         call[c].step = "idle", call' = [call EXCEPT ![c] = r],
         UNCHANGED <<status, people, name, account, reviewed>>,
         r.step = "add" =>
            /\ status[r.store] # "none" /\ LockFree(r.store)
            /\ r.who \intersect (owners[r.store] \union staff[r.store]) = {}
  PROVE  StoreInv'
<1>1. call'[c] = r /\ \A d \in Calls : d # c => call'[d] = call[d]
  BY DEF StoreInv, StoreTyped
<1>2. call' \in [Calls -> StoreCallStates]
  BY DEF StoreInv, StoreTyped, StoreCallStates
<1>3. StoreTyped'
  BY <1>2 DEF StoreInv, StoreTyped, people
<1>4. StoreFounded' /\ NoDoubleRole' /\ VerifiedAsReviewed'
  BY DEF StoreInv, StoreFounded, NoDoubleRole, VerifiedAsReviewed, people
<1>5. r.step = "add" =>
         \A d \in Calls : StoreAdds(d) => call[d].store # r.store
  BY DEF LockFree, Adding, StoreAdds
<1>6. StoreLocked'
  <2> SUFFICES ASSUME NEW d \in Calls, StoreAdds(d)'
               PROVE  /\ status[call'[d].store] # "none"
                      /\ call'[d].who \intersect owners[call'[d].store] = {}
                      /\ call'[d].who \intersect staff[call'[d].store] = {}
                      /\ \A e \in Calls : StoreAdds(e)' /\ e # d
                            => call'[e].store # call'[d].store
    BY DEF StoreLocked, people
  <2>1. CASE d = c
    <3>1. \A e \in Calls : StoreAdds(e)' /\ e # c => call'[e].store # r.store
      BY <1>1, <1>5, <2>1 DEF StoreAdds
    <3> QED BY <1>1, <2>1, <3>1 DEF StoreAdds
  <2>2. CASE d # c
    <3>1. StoreAdds(d) /\ call'[d] = call[d]
      BY <1>1, <2>2 DEF StoreAdds
    <3>2. \A e \in Calls : StoreAdds(e)' /\ e # d
            => call'[e].store # call[d].store
      BY <1>1, <1>5, <3>1 DEF StoreAdds, StoreInv, StoreLocked
    <3> QED BY <3>1, <3>2 DEF StoreInv, StoreLocked
  <2> QED BY <2>1, <2>2
<1> QED BY <1>3, <1>4, <1>6 DEF StoreInv

LEMMA StoreCreateKeeps ==
  ASSUME StoreAssumption, StoreInv, NEW c \in Calls, Create(c)
  PROVE  StoreInv'
<1> DEFINE s == call[c].store
<1>1. /\ call[c] \in StoreCreations /\ call' = [call EXCEPT ![c] = Idle]
      /\ UNCHANGED <<staff, name, account, reviewed>>
  BY StoreCallFields DEF Create, StoreInv
<1>2. s \in Stores /\ call[c].who \in (SUBSET Users) \ {{}}
  BY <1>1 DEF StoreCreations
<1>3. /\ call'[c] = Idle /\ call' \in [Calls -> StoreCallStates]
      /\ \A d \in Calls : d # c => call'[d] = call[d]
  BY <1>1 DEF StoreInv, StoreTyped, StoreCallStates
<1>4. \A d \in Calls : StoreAdds(d)' => d # c /\ StoreAdds(d)
        /\ call'[d] = call[d]
  BY <1>3 DEF StoreAdds, Idle
<1>5. CASE status[s] = "none"
  <2>1. /\ status' = [status EXCEPT ![s] = "new"]
        /\ owners' = [owners EXCEPT ![s] = call[c].who]
    BY <1>5 DEF Create
  <2> HIDE DEF s
  <2>2. /\ status'[s] = "new" /\ owners'[s] = call[c].who
        /\ \A t \in Stores : t # s => /\ status'[t] = status[t]
                                      /\ owners'[t] = owners[t]
    BY <1>2, <2>1 DEF StoreInv, StoreTyped
  <2>3. StoreTyped'
    <3>1. status' \in [Stores -> {"none", "new", "approved", "deleted"}]
      BY <2>1 DEF StoreInv, StoreTyped
    <3>2. owners' \in [Stores -> SUBSET Users]
      BY <1>2, <2>1 DEF StoreInv, StoreTyped
    <3> QED BY <1>1, <1>3, <3>1, <3>2 DEF StoreInv, StoreTyped
  <2>4. StoreFounded'
    BY <1>1, <1>2, <2>2 DEF StoreInv, StoreFounded
  <2>5. NoDoubleRole'
    BY <1>1, <1>5, <2>2 DEF StoreInv, StoreFounded, NoDoubleRole
  <2>6. StoreLocked'
    <3>1. \A d \in Calls : StoreAdds(d)' => call[d].store # s
            /\ call[d].store \in Stores
      BY <1>4, <1>5, StoreCallFields DEF StoreInv, StoreLocked, StoreAdditions
    <3> QED BY <1>1, <1>4, <2>2, <3>1 DEF StoreInv, StoreLocked
  <2>7. VerifiedAsReviewed'
    BY <1>1 DEF StoreInv, VerifiedAsReviewed
  <2> QED BY <2>3, <2>4, <2>5, <2>6, <2>7 DEF StoreInv
<1>6. CASE status[s] # "none"
  <2>1. UNCHANGED <<status, owners>>
    BY <1>6 DEF Create
  <2> HIDE DEF s
  <2>2. StoreTyped'
    BY <1>1, <1>3, <2>1 DEF StoreInv, StoreTyped
  <2>3. StoreLocked'
    BY <1>1, <1>4, <2>1 DEF StoreInv, StoreLocked
  <2> QED BY <1>1, <2>1, <2>2, <2>3
          DEF StoreInv, StoreFounded, NoDoubleRole, VerifiedAsReviewed
<1> QED BY <1>5, <1>6

LEMMA StoreAddKeeps ==
  ASSUME StoreAssumption, StoreInv, NEW c \in Calls, AddPerson(c)
  PROVE  StoreInv'
<1> DEFINE s == call[c].store
           us == call[c].who
<1>1. /\ StoreAdds(c) /\ call[c] \in StoreAdditions
      /\ call' = [call EXCEPT ![c] = Idle]
      /\ UNCHANGED <<status, name, account, reviewed>>
  BY StoreCallFields DEF AddPerson, StoreInv, StoreAdds
<1>2. s \in Stores /\ us \in (SUBSET Users) \ {{}}
  BY <1>1 DEF StoreAdditions
<1>3. /\ call'[c] = Idle /\ call' \in [Calls -> StoreCallStates]
      /\ \A d \in Calls : d # c => call'[d] = call[d]
  BY <1>1 DEF StoreInv, StoreTyped, StoreCallStates
<1>4. \A d \in Calls : StoreAdds(d)' =>
         /\ d # c /\ StoreAdds(d) /\ call'[d] = call[d] /\ call[d].store # s
         /\ call[d].store \in Stores
  BY <1>1, <1>3, StoreCallFields
     DEF StoreAdds, Idle, StoreInv, StoreLocked, StoreAdditions
<1>5. /\ status[s] # "none"
      /\ us \intersect owners[s] = {} /\ us \intersect staff[s] = {}
  BY <1>1 DEF StoreInv, StoreLocked
<1>6. \/ /\ owners' = [owners EXCEPT ![s] = @ \union us] /\ staff' = staff
      \/ /\ staff' = [staff EXCEPT ![s] = @ \union us] /\ owners' = owners
  BY DEF AddPerson
<1> HIDE DEF s, us
<1>7. /\ \/ owners'[s] = owners[s] \union us /\ staff'[s] = staff[s]
         \/ staff'[s] = staff[s] \union us /\ owners'[s] = owners[s]
      /\ \A t \in Stores : t # s => /\ owners'[t] = owners[t]
                                    /\ staff'[t] = staff[t]
  BY <1>2, <1>6 DEF StoreInv, StoreTyped
<1>8. StoreTyped'
  <2>1. /\ owners' \in [Stores -> SUBSET Users]
        /\ staff' \in [Stores -> SUBSET Users]
    BY <1>2, <1>6 DEF StoreInv, StoreTyped
  <2> QED BY <1>1, <1>3, <2>1 DEF StoreInv, StoreTyped
<1>9. StoreFounded'
  BY <1>1, <1>2, <1>5, <1>7 DEF StoreInv, StoreFounded
<1>10. NoDoubleRole'
  BY <1>2, <1>5, <1>7 DEF StoreInv, NoDoubleRole
<1>11. StoreLocked'
  BY <1>1, <1>4, <1>7 DEF StoreInv, StoreLocked
<1>12. VerifiedAsReviewed'
  BY <1>1 DEF StoreInv, VerifiedAsReviewed
<1> QED BY <1>8, <1>9, <1>10, <1>11, <1>12 DEF StoreInv

(* Actions on a store's people or status that no request holds up.         *)
LEMMA StorePeopleKeep ==
  ASSUME StoreAssumption, StoreInv, NEW s \in Stores,
         \/ \E u \in Users : RemoveStaff(s, u)
         \/ Approve(s) \/ Rename(s) \/ Remove(s)
  PROVE  StoreInv'
<1>1. /\ UNCHANGED <<owners, account, reviewed, call>>
      /\ \A t \in Stores : staff'[t] \subseteq staff[t]
      /\ \A t \in Stores : (status'[t] = "none") <=> (status[t] = "none")
      /\ StoreTyped'
  <2>1. CASE \E u \in Users : RemoveStaff(s, u)
    BY <2>1 DEF RemoveStaff, StoreInv, StoreTyped
  <2>2. CASE Approve(s)
    BY <2>2 DEF Approve, StoreInv, StoreTyped, people
  <2>3. CASE Rename(s)
    BY <2>3 DEF Rename, StoreInv, StoreTyped, people
  <2>4. CASE Remove(s)
    BY <2>4 DEF Remove, StoreInv, StoreTyped, people
  <2> QED BY <2>1, <2>2, <2>3, <2>4
<1>2. StoreFounded' /\ NoDoubleRole' /\ VerifiedAsReviewed'
  BY <1>1 DEF StoreInv, StoreFounded, NoDoubleRole, VerifiedAsReviewed
<1>3. StoreLocked'
  <2>1. \A c \in Calls : StoreAdds(c) => call[c].store \in Stores
    BY StoreCallFields DEF StoreInv, StoreAdditions
  <2> QED BY <1>1, <2>1 DEF StoreInv, StoreLocked, StoreAdds
<1> QED BY <1>1, <1>2, <1>3 DEF StoreInv

LEMMA StoreAccountsKeep ==
  ASSUME StoreAssumption, StoreInv, NEW s \in Stores,
         NEW new \in StoreAccounts,
         account' = [account EXCEPT ![s] = new],
         reviewed' \in [Stores -> StoreDetails],
         UNCHANGED <<status, people, name, call>>, status[s] # "none",
         \A t \in Stores : t # s => reviewed'[t] = reviewed[t],
         new.state = "verified" => new.details = reviewed'[s]
  PROVE  StoreInv'
<1>1. account'[s] = new /\ \A t \in Stores : t # s => account'[t] = account[t]
  BY DEF StoreInv, StoreTyped
<1>2. StoreTyped'
  BY DEF StoreInv, StoreTyped, people
<1>3. StoreFounded'
  BY <1>1 DEF StoreInv, StoreFounded, people
<1>4. StoreLocked' /\ NoDoubleRole'
  BY DEF StoreInv, StoreLocked, NoDoubleRole, StoreAdds, people
<1>5. VerifiedAsReviewed'
  BY <1>1 DEF StoreInv, VerifiedAsReviewed
<1> QED BY <1>2, <1>3, <1>4, <1>5 DEF StoreInv

LEMMA StoreAddAccountKeeps ==
  ASSUME StoreAssumption,
         StoreInv, NEW s \in Stores, NEW tin \in BOOLEAN, AddAccount(s, tin)
  PROVE  StoreInv'
<1> DEFINE new == [account[s] EXCEPT !.state = "pending", !.tin = tin]
<1>1. account[s] \in StoreAccounts
  BY DEF StoreInv, StoreTyped
<1>2. new \in StoreAccounts /\ new.state = "pending"
  BY <1>1 DEF StoreAccounts
<1>3. /\ account' = [account EXCEPT ![s] = new] /\ status[s] # "none"
      /\ UNCHANGED <<status, people, name, reviewed, call>>
  BY <1>1 DEF AddAccount, StoreAccounts
<1> HIDE DEF new
<1>4. reviewed' \in [Stores -> StoreDetails]
  BY <1>3 DEF StoreInv, StoreTyped
<1> QED BY <1>2, <1>3, <1>4, StoreAccountsKeep

LEMMA StoreEditAccountKeeps ==
  ASSUME StoreAssumption,
         StoreInv, NEW s \in Stores, NEW tin \in BOOLEAN,
         NEW details \in BOOLEAN,
         EditAccount(s, tin, details)
  PROVE  StoreInv'
<1> DEFINE old == account[s]
           more == IF details THEN old.details + 1 ELSE old.details
           new == [old EXCEPT !.state = "pending", !.tin = old.tin \/ tin,
                              !.details = more]
<1>1. old \in StoreAccounts /\ old.state # "none"
  BY DEF StoreInv, StoreTyped, EditAccount
<1>2. more \in StoreDetails
  <2>1. old.details \in StoreDetails /\ (details => old.details < MaxEdits)
    BY <1>1 DEF EditAccount, StoreAccounts
  <2> QED BY <2>1 DEF StoreDetails
<1>3. (old.tin \/ tin) \in BOOLEAN
  OBVIOUS
<1>4. /\ account' = [account EXCEPT ![s] = new]
      /\ UNCHANGED <<status, people, name, reviewed, call>>
  BY <1>1 DEF EditAccount, StoreAccounts
<1> HIDE DEF more
<1>5. new \in StoreAccounts /\ new.state = "pending"
  BY <1>1, <1>2, <1>3 DEF StoreAccounts
<1> HIDE DEF new, old
<1>6. status[s] # "none" /\ reviewed' \in [Stores -> StoreDetails]
  BY <1>1, <1>4 DEF StoreInv, StoreTyped, StoreFounded, old
<1> QED BY <1>4, <1>5, <1>6, StoreAccountsKeep

LEMMA StoreJudgeKeeps ==
  ASSUME StoreAssumption,
         StoreInv, NEW s \in Stores, NEW verdict \in {"verified", "rejected"},
         Judge(s, verdict)
  PROVE  StoreInv'
<1> DEFINE new == [account[s] EXCEPT !.state = verdict]
<1>1. account[s] \in StoreAccounts /\ account[s].details \in StoreDetails
  BY DEF StoreInv, StoreTyped, StoreAccounts
<1>2. new \in StoreAccounts /\ new.state = verdict
      /\ new.details = account[s].details
  BY <1>1 DEF StoreAccounts
<1>3. /\ account' = [account EXCEPT ![s] = new] /\ status[s] # "none"
      /\ UNCHANGED <<status, people, name, call>>
  BY <1>1 DEF Judge, StoreAccounts
<1>4. /\ reviewed' \in [Stores -> StoreDetails]
      /\ \A t \in Stores : t # s => reviewed'[t] = reviewed[t]
      /\ verdict = "verified" => reviewed'[s] = account[s].details
  BY <1>1 DEF Judge, StoreInv, StoreTyped
<1> HIDE DEF new
<1> QED BY <1>2, <1>3, <1>4, StoreAccountsKeep

LEMMA StoreStep ==
  ASSUME StoreAssumption
  PROVE  StoreInv /\ [Next]_vars => StoreInv'
<1> SUFFICES ASSUME StoreInv, [Next]_vars PROVE StoreInv'
  OBVIOUS
<1>1. ASSUME NEW c \in Calls, NEW s \in Stores, NEW us \in SUBSET Users,
             CheckCreation(c, s, us)
      PROVE  StoreInv'
  <2> DEFINE r == [step |-> "create", store |-> s, who |-> us]
  <2>1. r \in StoreCreations /\ r.step # "add"
    BY <1>1 DEF CheckCreation, StoreCreations
  <2>2. /\ call[c].step = "idle" /\ call' = [call EXCEPT ![c] = r]
        /\ UNCHANGED <<status, people, name, account, reviewed>>
    BY <1>1 DEF CheckCreation
  <2> HIDE DEF r
  <2> QED BY <2>1, <2>2, StoreCheckKeeps
<1>2. ASSUME NEW c \in Calls, NEW s \in Stores, NEW u \in Users,
             NEW role \in {"owner", "staff"}, CheckPerson(c, s, u, role)
      PROVE  StoreInv'
  <2> DEFINE r == [step |-> "add", store |-> s, who |-> {u}, role |-> role]
  <2>1. r \in StoreAdditions /\ r.store = s /\ r.who = {u}
    BY DEF StoreAdditions
  <2>2. /\ call[c].step = "idle" /\ call' = [call EXCEPT ![c] = r]
        /\ UNCHANGED <<status, people, name, account, reviewed>>
    BY <1>2 DEF CheckPerson
  <2>3. /\ status[s] # "none" /\ LockFree(s)
        /\ u \notin owners[s] \union staff[s]
    BY <1>2 DEF CheckPerson, OwnerAllowed, StaffAllowed
  <2> HIDE DEF r
  <2> QED BY <2>1, <2>2, <2>3, StoreCheckKeeps
<1>3. CASE UNCHANGED vars
  BY <1>3
     DEF vars, people, StoreInv, StoreTyped, StoreFounded, StoreLocked,
         StoreAdds, NoDoubleRole, VerifiedAsReviewed
<1> QED BY <1>1, <1>2, <1>3, StoreCreateKeeps, StoreAddKeeps, StorePeopleKeep,
           StoreAddAccountKeeps, StoreEditAccountKeeps, StoreJudgeKeeps
           DEF Next

(* StoreInv, the inductive invariant of stores and their accounts          *)
(* (store_service.py, store_account_service.py).                           *)
THEOREM StoreInvariance ==
  ASSUME StoreAssumption
  PROVE  Spec => []StoreInv
<1> QED BY StoreInit, StoreStep, PTL DEF Spec

(* Types, and that a store has owners exactly from its creation on.        *)
LEMMA StoreTypes ==
  ASSUME StoreAssumption, StoreInv
  PROVE  TypeOK
  BY DEF StoreInv, StoreTyped, StoreFounded, StoreAccounts, StoreDetails,
         TypeOK

(* The advisory lock of add_owner_staff keeps anyone from becoming owner   *)
(* and staff of one store, even though store_creation does not take it.    *)
THEOREM StoreOneRole ==
  ASSUME StoreAssumption
  PROVE  Spec => []NoDoubleRole
<1>1. StoreInv => NoDoubleRole
  BY DEF StoreInv
<1> QED BY <1>1, StoreInvariance, PTL

(* An account is shown as verified only with the details it was verified   *)
(* with (edit_finance_details, verify_store_account).                      *)
THEOREM StoreReviewed ==
  ASSUME StoreAssumption
  PROVE  Spec => []VerifiedAsReviewed
<1>1. StoreInv => VerifiedAsReviewed
  BY DEF StoreInv
<1> QED BY <1>1, StoreInvariance, PTL

(* A rejection stands until the platform judges again, and after its       *)
(* store's deletion an account is only ever edited (verify_store_account,  *)
(* rejection_reason_check).                                                *)
THEOREM StoreRejectionStands ==
  ASSUME StoreAssumption
  PROVE  Spec => RejectedStands
<1> DEFINE Stands == \A s \in Stores : account[s] # account'[s] =>
              /\ account[s].state = "rejected"
                   => account'[s].state = "verified"
              /\ status[s] = "deleted" => account'[s].state = "pending"
<1>1. StoreInv /\ [Next]_vars => [Stands]_vars
  <2> SUFFICES ASSUME StoreInv, Next, NEW s \in Stores,
                      account[s] # account'[s]
               PROVE  /\ account[s].state = "rejected"
                            => account'[s].state = "verified"
                      /\ status[s] = "deleted" => account'[s].state = "pending"
    OBVIOUS
  <2>1. account \in [Stores -> StoreAccounts]
    BY DEF StoreInv, StoreTyped
  <2>2. ASSUME NEW t \in Stores, NEW tin \in BOOLEAN, AddAccount(t, tin)
        PROVE  account[s].state = "none" /\ account'[s].state = "pending"
    BY <2>1, <2>2 DEF AddAccount, StoreAccounts
  <2>3. ASSUME NEW t \in Stores, NEW tin \in BOOLEAN, NEW details \in BOOLEAN,
               EditAccount(t, tin, details)
        PROVE  /\ account[s].state \in {"pending", "verified"}
               /\ account'[s].state = "pending"
    BY <2>1, <2>3 DEF EditAccount, StoreAccounts
  <2>4. ASSUME NEW t \in Stores, NEW verdict \in {"verified", "rejected"},
               Judge(t, verdict)
        PROVE  /\ status[s] = "approved" /\ account'[s].state = verdict
               /\ account[s].state # verdict
    <3>1. /\ status[t] = "approved"
          /\ account' = [account EXCEPT ![t].state = verdict]
      BY <2>4 DEF Judge
    <3>2. t = s /\ account'[s] = [account[s] EXCEPT !.state = verdict]
      BY <2>1, <3>1
    <3>3. account[s] \in StoreAccounts
      BY <2>1
    <3>4. account[s].state # verdict
      BY <3>2, <3>3 DEF StoreAccounts
    <3> QED BY <3>1, <3>2, <3>3, <3>4 DEF StoreAccounts
  <2>5. \/ \E t \in Stores, tin \in BOOLEAN : AddAccount(t, tin)
        \/ \E t \in Stores, tin \in BOOLEAN, details \in BOOLEAN :
              EditAccount(t, tin, details)
        \/ \E t \in Stores, verdict \in {"verified", "rejected"} :
              Judge(t, verdict)
    BY DEF Next, Create, AddPerson, CheckCreation, CheckPerson, RemoveStaff,
           Approve, Rename, Remove
  <2> QED BY <2>2, <2>3, <2>4, <2>5
<1> HIDE DEF Stands
<1>2. Spec => [][Stands]_vars
  BY <1>1, StoreInvariance, PTL DEF Spec
<1> QED BY <1>2 DEF RejectedStands, Stands

HIDE DEF StoreAssumption

-----------------------------------------------------------------------------
(***************************************************************************)
(* Sessions: refresh tokens, their exchange and bans.                      *)
(***************************************************************************)
(* The instance's copy of FiniteSets is FiniteSets.                        *)
LEMMA SessionFinite == \A S : Session!IsFiniteSet(S) <=> IsFiniteSet(S)
  BY DEF Session!IsFiniteSet, IsFiniteSet
LEMMA SessionCardinality ==
  ASSUME NEW S PROVE Session!Cardinality(S) = Cardinality(S)
  BY Zenon DEF Session!Cardinality, Cardinality
USE SessionFinite, SessionCardinality

(* A token about to be exchanged has been issued, and every exchange has   *)
(* issued one.                                                             *)
SessionInv ==
    /\ Session!TypeOK
    /\ \A c \in Calls : sessionCall[c].step = "checked"
         => sessionCall[c].token \in 1..issued
    /\ \A t \in Session!Tokens : exchanged[t] <= issued

SessionCalls ==
    [step : {"idle", "read", "unban", "mint", "checked", "banning"},
     token : Session!Tokens \union {0}, saw : Session!Account]

LEMMA SessionCallTypes ==
  ASSUME Session!SessionAssumption
  PROVE  Session!Idle \in SessionCalls
  BY DEF Session!Idle, SessionCalls, Session!Account, Session!Bans

LEMMA SessionInit ==
  ASSUME Session!SessionAssumption
  PROVE  Session!Init => SessionInv
<1> SUFFICES ASSUME Session!Init PROVE SessionInv
  OBVIOUS
<1> USE DEF Session!SessionAssumption, Session!Init, Session!Tokens
<1>1. userAccount \in Session!Account
  BY DEF Session!Account, Session!Bans
<1>2. sessionCall \in [Calls -> SessionCalls]
  BY SessionCallTypes
<1>3. banned \in BOOLEAN /\ parted \in BOOLEAN
  OBVIOUS
<1>4. Session!TypeOK
  BY <1>1, <1>2, <1>3 DEF Session!TypeOK, SessionCalls
<1> QED BY <1>4 DEF SessionInv, Session!Idle

(* The steps that issue no token: the rest of the invariant is about what  *)
(* they write.                                                             *)
LEMMA SessionKeeps ==
  ASSUME Session!SessionAssumption, SessionInv,
         UNCHANGED <<issued, exchanged>>,
         userAccount' \in Session!Account, banned' \in BOOLEAN,
         parted' \in BOOLEAN, bans' \in 0..MaxBans,
         expired' \subseteq ending', ending' \subseteq 1..issued,
         blacklist' \subseteq (1..issued) \ expired',
         sessionCall' \in [Calls -> SessionCalls],
         \A c \in Calls : sessionCall'[c].step = "checked"
            => sessionCall'[c].token \in 1..issued
  PROVE  SessionInv'
<1>1. 1..issued \subseteq Session!Tokens
  BY DEF SessionInv, Session!TypeOK, Session!Tokens,
         Session!SessionAssumption
<1>2. Session!TypeOK'
  BY <1>1 DEF SessionInv, Session!TypeOK, SessionCalls
<1> QED BY <1>2 DEF SessionInv

LEMMA SessionStep ==
  ASSUME Session!SessionAssumption
  PROVE  SessionInv /\ [Session!Next]_Session!vars => SessionInv'
<1> SUFFICES ASSUME SessionInv, [Session!Next]_Session!vars PROVE SessionInv'
  OBVIOUS
<1> USE DEF Session!issue, Session!life, Session!marks, Session!redis
<1>0. /\ sessionCall \in [Calls -> SessionCalls]
      /\ userAccount \in Session!Account /\ banned \in BOOLEAN
      /\ parted \in BOOLEAN /\ bans \in 0..MaxBans
      /\ expired \subseteq ending /\ ending \subseteq 1..issued
      /\ blacklist \subseteq (1..issued) \ expired
      /\ issued \in 0..MaxTokens /\ MaxTokens \in Nat /\ MaxBans \in Nat
      /\ 1..issued \subseteq Session!Tokens
      /\ exchanged \in [Session!Tokens -> 0..MaxTokens]
  BY DEF SessionInv, Session!TypeOK, SessionCalls, Session!Tokens,
         Session!SessionAssumption
<1>1. \A c \in Calls : sessionCall[c].step = "checked"
         => sessionCall[c].token \in 1..issued
  BY DEF SessionInv
<1>2. \A c \in Calls, x \in SessionCalls :
         sessionCall' = [sessionCall EXCEPT ![c] = x]
           /\ (x.step = "checked" => x.token \in 1..issued)
         => /\ sessionCall' \in [Calls -> SessionCalls]
            /\ \A d \in Calls : sessionCall'[d].step = "checked"
                  => sessionCall'[d].token \in 1..issued
  BY <1>0, <1>1
<1>3. Session!Idle \in SessionCalls /\ Session!Idle.step = "idle"
  BY SessionCallTypes DEF Session!Idle
<1>4. \A c \in Calls : Session!Done(c)
         => /\ sessionCall' \in [Calls -> SessionCalls]
            /\ \A d \in Calls : sessionCall'[d].step = "checked"
                  => sessionCall'[d].token \in 1..issued
  BY <1>2, <1>3 DEF Session!Done
<1>5. \A c \in Calls, t \in Session!Tokens \union {0} :
         \A step \in {"read", "checked", "banning"} :
         Session!Goto(c, step, t) /\ (step = "checked" => t \in 1..issued)
         => /\ sessionCall' \in [Calls -> SessionCalls]
            /\ \A d \in Calls : sessionCall'[d].step = "checked"
                  => sessionCall'[d].token \in 1..issued
  <2> SUFFICES ASSUME NEW c \in Calls, NEW t \in Session!Tokens \union {0},
                      NEW step \in {"read", "checked", "banning"},
                      Session!Goto(c, step, t),
                      step = "checked" => t \in 1..issued
               PROVE  /\ sessionCall' \in [Calls -> SessionCalls]
                      /\ \A d \in Calls : sessionCall'[d].step = "checked"
                            => sessionCall'[d].token \in 1..issued
    OBVIOUS
  <2>1. PICK x : x = [step |-> step, token |-> t, saw |-> userAccount]
    OBVIOUS
  <2>2. x \in SessionCalls /\ x.step = step /\ x.token = t
    BY <1>0, <2>1 DEF SessionCalls
  <2> QED BY <1>2, <2>1, <2>2 DEF Session!Goto
<1>6. \A c \in Calls : \A step \in {"unban", "mint"} :
         sessionCall' = [sessionCall EXCEPT ![c].step = step]
         => /\ sessionCall' \in [Calls -> SessionCalls]
            /\ \A d \in Calls : sessionCall'[d].step = "checked"
                  => sessionCall'[d].token \in 1..issued
  <2> SUFFICES ASSUME NEW c \in Calls, NEW step \in {"unban", "mint"},
                      sessionCall' = [sessionCall EXCEPT ![c].step = step]
               PROVE  /\ sessionCall' \in [Calls -> SessionCalls]
                      /\ \A d \in Calls : sessionCall'[d].step = "checked"
                            => sessionCall'[d].token \in 1..issued
    OBVIOUS
  <2>1. PICK x : x = [sessionCall[c] EXCEPT !.step = step]
    OBVIOUS
  <2>2. x \in SessionCalls /\ x.step = step
    BY <1>0, <2>1 DEF SessionCalls
  <2> QED BY <1>0, <1>2, <2>1, <2>2
<1> HIDE DEF SessionCalls
<1>10. ASSUME NEW c \in Calls, Session!LoginRead(c) PROVE SessionInv'
  BY <1>0, <1>5, <1>10, SessionKeeps DEF Session!LoginRead
<1>11. ASSUME NEW c \in Calls,
              Session!LoginLift(c) \/ Session!LoginCommit(c)
       PROVE  SessionInv'
  <2>1. userAccount' \in Session!Account
    <3>1. sessionCall[c].saw \in Session!Account
      BY <1>0 DEF SessionCalls
    <3>2. CASE Session!LoginLift(c)
      <4>1. userAccount' = [active |-> userAccount.active
                                         \/ ~sessionCall[c].saw.active,
                            ban |-> "none"]
        BY <3>2 DEF Session!LoginLift
      <4>2. (userAccount.active \/ ~sessionCall[c].saw.active) \in BOOLEAN
        OBVIOUS
      <4> QED BY <4>1, <4>2 DEF Session!Account, Session!Bans
    <3>3. CASE Session!LoginCommit(c)
      <4> DEFINE old == userAccount.active
                 new == old \/ ~sessionCall[c].saw.active
      <4>1. userAccount' = [userAccount EXCEPT !.active = new]
        BY <1>0, <3>3 DEF Session!LoginCommit, Session!Account
      <4>2. new \in BOOLEAN
        OBVIOUS
      <4> HIDE DEF new
      <4> QED BY <1>0, <4>1, <4>2 DEF Session!Account
    <3> QED BY <1>11, <3>2, <3>3
  <2>2. /\ UNCHANGED <<Session!redis, Session!issue, Session!life, bans>>
        /\ parted' \in BOOLEAN
    BY <1>0, <1>11 DEF Session!LoginLift, Session!LoginCommit
  <2>3. /\ sessionCall' \in [Calls -> SessionCalls]
        /\ \A d \in Calls : sessionCall'[d].step = "checked"
              => sessionCall'[d].token \in 1..issued
    BY <1>6, <1>11 DEF Session!LoginLift, Session!LoginCommit
  <2> QED BY <1>0, <2>1, <2>2, <2>3, SessionKeeps
<1>12. ASSUME NEW c \in Calls,
              Session!LoginRefused(c) \/ Session!RefreshFails(c)
                \/ Session!BanInRedis(c)
       PROVE  SessionInv'
  <2>1. /\ Session!Done(c) /\ UNCHANGED <<userAccount, Session!issue, Session!life, bans>>
        /\ banned' \in BOOLEAN /\ parted' \in BOOLEAN
    BY <1>0, <1>12
       DEF Session!LoginRefused, Session!RefreshFails, Session!BanInRedis
  <2>2. blacklist' \subseteq (1..issued) \ expired
    BY <1>0, <1>1, <1>12
       DEF Session!LoginRefused, Session!RefreshFails, Session!BanInRedis,
           Session!Revoked
  <2> QED BY <1>0, <1>4, <2>1, <2>2, SessionKeeps
<1>13. ASSUME NEW c \in Calls, Session!LoginUnban(c) PROVE SessionInv'
  <2>1. banned' \in BOOLEAN /\ parted' \in BOOLEAN
    BY <1>0, <1>13 DEF Session!LoginUnban
  <2>2. /\ sessionCall' \in [Calls -> SessionCalls]
        /\ \A d \in Calls : sessionCall'[d].step = "checked"
              => sessionCall'[d].token \in 1..issued
    BY <1>6, <1>13 DEF Session!LoginUnban
  <2> QED BY <1>0, <1>13, <2>1, <2>2, SessionKeeps DEF Session!LoginUnban
<1>14. ASSUME NEW c \in Calls, NEW t \in Session!Tokens,
              Session!RefreshCheck(c, t)
       PROVE  SessionInv'
  BY <1>0, <1>5, <1>14, SessionKeeps DEF Session!RefreshCheck, Session!Live
<1>15. ASSUME NEW c \in Calls, NEW t \in Session!Tokens,
              Session!Logout(c, t)
       PROVE  SessionInv'
  BY <1>0, <1>1, <1>15, SessionKeeps
     DEF Session!Logout, Session!Live, Session!Revoked
<1>16. ASSUME NEW c \in Calls, NEW t \in Session!Tokens,
              Session!DeactivateProfile(c, t)
       PROVE  SessionInv'
  <2>1. userAccount' \in Session!Account
    BY <1>0, <1>16 DEF Session!DeactivateProfile, Session!Account
  <2> QED BY <1>0, <1>1, <1>16, <2>1, SessionKeeps
             DEF Session!DeactivateProfile
<1>17. ASSUME NEW c \in Calls, NEW kind \in {"timed", "indefinite"},
              Session!BanProfile(c, kind)
       PROVE  SessionInv'
  <2>1. userAccount' \in Session!Account /\ bans' \in 0..MaxBans
        /\ parted' \in BOOLEAN
    BY <1>0, <1>17 DEF Session!BanProfile, Session!Account, Session!Bans
  <2>2. /\ sessionCall' \in [Calls -> SessionCalls]
        /\ \A d \in Calls : sessionCall'[d].step = "checked"
              => sessionCall'[d].token \in 1..issued
    BY <1>5, <1>17 DEF Session!BanProfile
  <2>3. UNCHANGED <<Session!redis, Session!issue, Session!life>>
    BY <1>17 DEF Session!BanProfile
  <2> QED BY <1>0, <2>1, <2>2, <2>3, SessionKeeps
<1>18. ASSUME NEW t \in Session!Tokens,
              Session!LastSecond(t) \/ Session!EntryEnds(t)
                \/ Session!Expire(t)
       PROVE  SessionInv'
  BY <1>0, <1>1, <1>18, SessionKeeps
     DEF Session!LastSecond, Session!EntryEnds, Session!Expire
<1>19. CASE Session!BanLapses
  <2>1. userAccount' \in Session!Account
    BY <1>0, <1>19 DEF Session!BanLapses, Session!Account, Session!Bans
  <2> QED BY <1>0, <1>1, <1>19, <2>1, SessionKeeps DEF Session!BanLapses
<1>20. CASE UNCHANGED Session!vars
  BY <1>0, <1>1, <1>20, SessionKeeps DEF Session!vars
<1>21. ASSUME NEW c \in Calls, Session!LoginMint(c) PROVE SessionInv'
  <2>1. /\ issued' = issued + 1 /\ issued < MaxTokens
        /\ Session!Done(c) /\ UNCHANGED <<userAccount, Session!redis, exchanged,
                                         Session!life, Session!marks>>
    BY <1>21 DEF Session!LoginMint
  <2>2. /\ issued' \in 0..MaxTokens /\ 1..issued \subseteq 1..issued'
    BY <1>0, <2>1
  <2>3. /\ sessionCall' \in [Calls -> SessionCalls]
        /\ \A d \in Calls : sessionCall'[d].step = "checked"
              => sessionCall'[d].token \in 1..issued
    BY <1>4, <2>1
  <2>4. Session!TypeOK'
    BY <1>0, <2>1, <2>2, <2>3 DEF Session!TypeOK, SessionCalls
  <2>5. \A t \in Session!Tokens : exchanged[t] <= issued'
    BY <1>0, <2>1 DEF SessionInv
  <2> QED BY <2>1, <2>2, <2>3, <2>4, <2>5 DEF SessionInv
<1>22. ASSUME NEW c \in Calls, Session!RefreshRotate(c) PROVE SessionInv'
  <2> DEFINE t == sessionCall[c].token
  <2>1. /\ issued' = issued + 1 /\ issued < MaxTokens
        /\ exchanged' = [exchanged EXCEPT ![t] = @ + 1]
        /\ Session!Done(c) /\ UNCHANGED <<userAccount, banned, Session!life, Session!marks>>
        /\ blacklist' = Session!Revoked(t)
    BY <1>22 DEF Session!RefreshRotate
  <2>2. t \in 1..issued /\ t \in Session!Tokens
    BY <1>0, <1>1, <1>22 DEF Session!RefreshRotate
  <2> HIDE DEF t
  <2>3. /\ issued' \in 0..MaxTokens /\ 1..issued \subseteq 1..issued'
        /\ blacklist' \subseteq (1..issued) \ expired
    BY <1>0, <2>1, <2>2 DEF Session!Revoked
  <2>4. /\ sessionCall' \in [Calls -> SessionCalls]
        /\ \A d \in Calls : sessionCall'[d].step = "checked"
              => sessionCall'[d].token \in 1..issued
    BY <1>4, <2>1
  <2>5. \A u \in Session!Tokens : exchanged'[u] <= issued'
    BY <1>0, <2>1, <2>2 DEF SessionInv
  <2>6. exchanged' \in [Session!Tokens -> 0..MaxTokens]
    BY <1>0, <2>1, <2>2, <2>5 DEF SessionInv
  <2>7. Session!TypeOK'
    BY <1>0, <2>1, <2>3, <2>4, <2>6 DEF Session!TypeOK, SessionCalls
  <2> QED BY <2>3, <2>4, <2>5, <2>7 DEF SessionInv
<1> QED BY <1>10, <1>11, <1>12, <1>13, <1>14, <1>15, <1>16, <1>17, <1>18,
           <1>19, <1>20, <1>21, <1>22 DEF Session!Next

(* A dead token stays dead until its last second, and after it: entries    *)
(* end in that second alone.                                               *)
LEMMA DeadStep ==
  ASSUME Session!SessionAssumption
  PROVE  SessionInv /\ [Session!Next]_Session!vars
            => [\A t \in 1..issued :
                   (~Session!Live(t) /\ t \notin ending) \/ t \in expired
                   => ~Session!Live(t)']_Session!vars
<1> SUFFICES ASSUME SessionInv, [Session!Next]_Session!vars,
                    NEW t \in 1..issued,
                    (t \in blacklist /\ t \notin ending) \/ t \in expired
             PROVE  t \in blacklist' \union expired'
  BY DEF Session!Live, SessionInv, Session!TypeOK
<1> USE DEF Session!issue, Session!life, Session!marks, Session!redis
<1>1. CASE UNCHANGED <<blacklist, expired>>
  BY <1>1
<1>2. ASSUME NEW c \in Calls,
             Session!RefreshRotate(c) \/ Session!RefreshFails(c)
               \/ \E u \in Session!Tokens : Session!Logout(c, u)
      PROVE  blacklist \subseteq blacklist' /\ expired' = expired
  BY <1>2
     DEF Session!RefreshRotate, Session!RefreshFails, Session!Logout,
         Session!Revoked
<1>3. ASSUME NEW u \in Session!Tokens,
             Session!Expire(u) \/ Session!EntryEnds(u)
      PROVE  t \in blacklist' \union expired'
  BY <1>3 DEF Session!Expire, Session!EntryEnds
<1> QED BY <1>1, <1>2, <1>3
           DEF Session!Next, Session!LoginRead, Session!LoginLift,
               Session!LoginRefused, Session!LoginCommit, Session!LoginUnban,
               Session!LoginMint, Session!BanInRedis, Session!RefreshCheck,
               Session!DeactivateProfile, Session!BanProfile,
               Session!LastSecond, Session!BanLapses, Session!vars

(* With one request at a time, whether Redis answers or not: until its     *)
(* last second an exchanged token is dead.                                 *)
ExchangedIsDead ==
    /\ Session!ExchangedOnceInTime
    /\ \A t \in Session!Tokens : t \notin blacklist \union ending
         => exchanged[t] = 0
    /\ \A c \in Calls : sessionCall[c].step = "checked"
         => \/ sessionCall[c].token \in ending
            \/ exchanged[sessionCall[c].token] = 0

LEMMA ExchangedInit ==
  ASSUME Session!SessionAssumption
  PROVE  Session!Init => ExchangedIsDead
  BY DEF Session!Init, ExchangedIsDead, Session!ExchangedOnceInTime,
         Session!Idle, Session!Tokens

LEMMA ExchangedStep ==
  ASSUME Session!SessionAssumption, NEW c, Calls = {c}
  PROVE  SessionInv /\ ExchangedIsDead /\ [Session!Next]_Session!vars
           => ExchangedIsDead'
<1> SUFFICES ASSUME SessionInv, ExchangedIsDead, [Session!Next]_Session!vars
             PROVE  ExchangedIsDead'
  OBVIOUS
<1> USE DEF Session!issue, Session!life, Session!marks, Session!redis
<1>0. /\ exchanged \in [Session!Tokens -> 0..MaxTokens]
      /\ sessionCall \in [Calls -> SessionCalls]
      /\ expired \subseteq ending /\ MaxTokens \in Nat
      /\ \A d \in Calls : sessionCall[d].step = "checked"
            => sessionCall[d].token \in Session!Tokens
  BY DEF SessionInv, Session!TypeOK, SessionCalls, Session!Tokens,
         Session!SessionAssumption
<1>1. ASSUME UNCHANGED exchanged, blacklist \subseteq blacklist' \union ending',
             ending \subseteq ending',
             sessionCall'[c].step = "checked" =>
                \/ sessionCall'[c].token \in ending'
                \/ exchanged[sessionCall'[c].token] = 0
      PROVE  ExchangedIsDead'
  BY <1>1 DEF ExchangedIsDead, Session!ExchangedOnceInTime
<1>2. ASSUME UNCHANGED exchanged, blacklist \subseteq blacklist' \union ending',
             ending \subseteq ending',
             sessionCall'[c].step # "checked" \/ sessionCall' = sessionCall
      PROVE  ExchangedIsDead'
  BY <1>1, <1>2 DEF ExchangedIsDead
<1>3. CASE Session!LoginRead(c) \/ \E kind \in {"timed", "indefinite"} :
                                      Session!BanProfile(c, kind)
  BY <1>0, <1>2, <1>3 DEF Session!LoginRead, Session!BanProfile, Session!Goto
<1>4. CASE Session!LoginLift(c) \/ Session!LoginCommit(c)
             \/ Session!LoginUnban(c)
  BY <1>0, <1>2, <1>4
     DEF Session!LoginLift, Session!LoginCommit, Session!LoginUnban,
         SessionCalls
<1>5. CASE Session!LoginRefused(c) \/ Session!LoginMint(c)
             \/ Session!RefreshFails(c) \/ Session!BanInRedis(c)
  BY <1>0, <1>2, <1>5
     DEF Session!LoginRefused, Session!LoginMint, Session!RefreshFails,
         Session!BanInRedis, Session!Done, Session!Idle, Session!Revoked
<1>6. ASSUME NEW t \in Session!Tokens, Session!RefreshCheck(c, t)
      PROVE  ExchangedIsDead'
  BY <1>0, <1>1, <1>6
     DEF Session!RefreshCheck, Session!Live, Session!Goto, ExchangedIsDead
<1>7. ASSUME NEW t \in Session!Tokens,
             Session!Logout(c, t) \/ Session!DeactivateProfile(c, t)
      PROVE  ExchangedIsDead'
  BY <1>2, <1>7
     DEF Session!Logout, Session!DeactivateProfile, Session!Revoked
<1>8. ASSUME NEW t \in Session!Tokens,
             Session!LastSecond(t) \/ Session!EntryEnds(t)
               \/ Session!Expire(t)
      PROVE  ExchangedIsDead'
  BY <1>2, <1>8 DEF Session!LastSecond, Session!EntryEnds, Session!Expire
<1>9. CASE Session!BanLapses \/ UNCHANGED Session!vars
  BY <1>2, <1>9 DEF Session!BanLapses, Session!vars
<1>10. CASE Session!RefreshRotate(c)
  <2> DEFINE t == sessionCall[c].token
  <2>1. /\ blacklist' = Session!Revoked(t) /\ UNCHANGED ending
        /\ exchanged' = [exchanged EXCEPT ![t] = @ + 1]
        /\ sessionCall' = [sessionCall EXCEPT ![c] = Session!Idle]
        /\ t \in Session!Tokens /\ (t \in ending \/ exchanged[t] = 0)
    BY <1>0, <1>10 DEF Session!RefreshRotate, ExchangedIsDead, Session!Done
  <2> HIDE DEF t
  <2>2. /\ blacklist \subseteq blacklist' /\ t \in blacklist' \union ending
        /\ \A u \in Session!Tokens \ {t} : exchanged'[u] = exchanged[u]
        /\ exchanged'[t] = exchanged[t] + 1
    BY <1>0, <2>1 DEF Session!Revoked
  <2>3. Session!ExchangedOnceInTime'
    BY <1>0, <2>1, <2>2 DEF ExchangedIsDead, Session!ExchangedOnceInTime
  <2>4. \A u \in Session!Tokens : u \notin blacklist' \union ending
          => exchanged'[u] = 0
    BY <2>2 DEF ExchangedIsDead
  <2> QED BY <1>0, <2>1, <2>3, <2>4 DEF ExchangedIsDead, Session!Idle
<1> QED BY <1>3, <1>4, <1>5, <1>6, <1>7, <1>8, <1>9, <1>10 DEF Session!Next

(* For any number of requests: unless a write to Redis was lost or bans    *)
(* and their liftings came between each other's writes, who is at work     *)
(* tells what the database and Redis say.                                  *)
SomeoneAt(step) == \E c \in Calls : sessionCall[c].step = step
BanInv == ~parted =>
    /\ SomeoneAt("banning") => userAccount.ban # "none"
    /\ SomeoneAt("unban") => userAccount.ban = "none"
    /\ ~SomeoneAt("banning") /\ ~SomeoneAt("unban")
          => (banned <=> userAccount.ban # "none")

LEMMA BanInit ==
  ASSUME Session!SessionAssumption
  PROVE  Session!Init => BanInv
  BY DEF Session!Init, BanInv, SomeoneAt, Session!Idle

LEMMA BanStep ==
  ASSUME Session!SessionAssumption
  PROVE  SessionInv /\ BanInv /\ [Session!Next]_Session!vars => BanInv'
<1> SUFFICES ASSUME SessionInv, BanInv, [Session!Next]_Session!vars, ~parted'
             PROVE  BanInv'
  BY DEF BanInv
<1> USE DEF Session!issue, Session!life, Session!marks, Session!redis
<1>0. /\ sessionCall \in [Calls -> SessionCalls]
      /\ userAccount \in Session!Account
  BY DEF SessionInv, Session!TypeOK, SessionCalls
<1>1. ASSUME NEW c \in Calls,
             sessionCall' = [sessionCall EXCEPT ![c] = sessionCall'[c]]
      PROVE  \A step : SomeoneAt(step)' <=>
                \/ sessionCall'[c].step = step
                \/ \E d \in Calls \ {c} : sessionCall[d].step = step
  <2>1. \A d \in Calls \ {c} : sessionCall'[d] = sessionCall[d]
    BY <1>0, <1>1
  <2> QED BY <2>1 DEF SomeoneAt
<1>2. ASSUME NEW c \in Calls,
             sessionCall' = [sessionCall EXCEPT ![c] = sessionCall'[c]],
             sessionCall[c].step \notin {"banning", "unban"},
             sessionCall'[c].step \notin {"banning", "unban"},
             userAccount'.ban = "none" <=> userAccount.ban = "none",
             banned' = banned, parted' = parted
      PROVE  BanInv'
  <2>1. /\ SomeoneAt("banning")' <=> SomeoneAt("banning")
        /\ SomeoneAt("unban")' <=> SomeoneAt("unban")
    BY <1>1, <1>2 DEF SomeoneAt
  <2>2. /\ userAccount'.ban = "none" <=> userAccount.ban = "none"
        /\ banned' = banned /\ ~parted
    BY <1>2
  <2>3. /\ SomeoneAt("banning") => userAccount.ban # "none"
        /\ SomeoneAt("unban") => userAccount.ban = "none"
        /\ ~SomeoneAt("banning") /\ ~SomeoneAt("unban")
              => (banned <=> userAccount.ban # "none")
    BY <2>2 DEF BanInv
  <2> HIDE DEF SomeoneAt
  <2>4. /\ SomeoneAt("banning")' => userAccount'.ban # "none"
        /\ SomeoneAt("unban")' => userAccount'.ban = "none"
    BY <2>1, <2>2, <2>3
  <2>5. ~SomeoneAt("banning")' /\ ~SomeoneAt("unban")'
          => (banned' <=> userAccount'.ban # "none")
    BY <2>1, <2>2, <2>3, Zenon
  <2> QED BY <2>4, <2>5 DEF BanInv
<1>3. ASSUME userAccount'.ban = "none" <=> userAccount.ban = "none",
             UNCHANGED <<banned, parted, sessionCall>>
      PROVE  BanInv'
  BY <1>3 DEF BanInv, SomeoneAt
<1>4. ASSUME NEW c \in Calls,
             \/ Session!LoginRead(c) \/ Session!LoginRefused(c)
             \/ Session!LoginMint(c) \/ Session!RefreshRotate(c)
             \/ Session!RefreshFails(c)
             \/ \E t \in Session!Tokens : Session!RefreshCheck(c, t)
      PROVE  BanInv'
  BY <1>0, <1>2, <1>4
     DEF Session!LoginRead, Session!LoginRefused, Session!LoginMint,
         Session!RefreshRotate, Session!RefreshFails, Session!RefreshCheck,
         Session!Goto, Session!Done, Session!Idle, Session!Lifts
<1>5. ASSUME NEW c \in Calls, Session!LoginCommit(c) PROVE BanInv'
  <2>1. /\ sessionCall[c].step = "read" /\ UNCHANGED <<banned, parted>>
        /\ sessionCall' = [sessionCall EXCEPT ![c].step = "mint"]
        /\ userAccount'.ban = userAccount.ban
    BY <1>0, <1>5 DEF Session!LoginCommit, Session!Account
  <2>2. /\ sessionCall' = [sessionCall EXCEPT ![c] = sessionCall'[c]]
        /\ sessionCall'[c].step = "mint"
    BY <1>0, <2>1 DEF SessionCalls
  <2> QED BY <1>2, <2>1, <2>2
<1>6. ASSUME NEW c \in Calls, Session!LoginLift(c) PROVE BanInv'
  <2>1. /\ userAccount'.ban = "none" /\ ~SomeoneAt("banning") /\ ~parted
        /\ sessionCall' = [sessionCall EXCEPT ![c].step = "unban"]
    BY <1>6 DEF Session!LoginLift, SomeoneAt
  <2>2. /\ sessionCall' = [sessionCall EXCEPT ![c] = sessionCall'[c]]
        /\ sessionCall'[c].step = "unban"
    BY <1>0, <2>1 DEF SessionCalls
  <2>3. SomeoneAt("unban")' /\ ~SomeoneAt("banning")'
    BY <1>1, <2>1, <2>2 DEF SomeoneAt
  <2> QED BY <2>1, <2>3 DEF BanInv
<1>7. ASSUME NEW c \in Calls, Session!LoginUnban(c) PROVE BanInv'
  <2>1. /\ sessionCall[c].step = "unban" /\ ~parted /\ banned' = FALSE
        /\ sessionCall' = [sessionCall EXCEPT ![c].step = "mint"]
        /\ UNCHANGED userAccount
    BY <1>7 DEF Session!LoginUnban
  <2>2. /\ sessionCall' = [sessionCall EXCEPT ![c] = sessionCall'[c]]
        /\ sessionCall'[c].step = "mint"
    BY <1>0, <2>1 DEF SessionCalls
  <2>3. userAccount.ban = "none" /\ ~SomeoneAt("banning")
    BY <2>1 DEF BanInv, SomeoneAt
  <2>4. ~SomeoneAt("banning")'
    BY <1>1, <2>2, <2>3 DEF SomeoneAt
  <2> QED BY <2>1, <2>3, <2>4 DEF BanInv
<1>8. ASSUME NEW c \in Calls, NEW kind \in {"timed", "indefinite"},
             Session!BanProfile(c, kind)
      PROVE  BanInv'
  <2>1. /\ userAccount'.ban # "none" /\ ~SomeoneAt("unban") /\ ~parted
        /\ sessionCall' = [sessionCall EXCEPT ![c] =
              [step |-> "banning", token |-> 0, saw |-> userAccount]]
    BY <1>8 DEF Session!BanProfile, SomeoneAt, Session!Goto
  <2>2. /\ sessionCall' = [sessionCall EXCEPT ![c] = sessionCall'[c]]
        /\ sessionCall'[c].step = "banning"
    BY <1>0, <2>1
  <2>3. SomeoneAt("banning")' /\ ~SomeoneAt("unban")'
    BY <1>1, <2>1, <2>2 DEF SomeoneAt
  <2> QED BY <2>1, <2>3 DEF BanInv
<1>9. ASSUME NEW c \in Calls, Session!BanInRedis(c) PROVE BanInv'
  <2>1. /\ sessionCall[c].step = "banning" /\ ~parted /\ banned' = TRUE
        /\ sessionCall' = [sessionCall EXCEPT ![c] = Session!Idle]
        /\ UNCHANGED userAccount
    BY <1>9 DEF Session!BanInRedis, Session!Done
  <2>2. /\ sessionCall' = [sessionCall EXCEPT ![c] = sessionCall'[c]]
        /\ sessionCall'[c].step = "idle"
    BY <1>0, <2>1 DEF Session!Idle
  <2>3. userAccount.ban # "none" /\ ~SomeoneAt("unban")
    BY <2>1 DEF BanInv, SomeoneAt
  <2>4. ~SomeoneAt("unban")'
    BY <1>1, <2>2, <2>3 DEF SomeoneAt
  <2> QED BY <2>1, <2>3, <2>4 DEF BanInv
<1>10. ASSUME NEW c \in Calls, NEW t \in Session!Tokens,
              Session!Logout(c, t) \/ Session!DeactivateProfile(c, t)
       PROVE  BanInv'
  <2>1. userAccount'.ban = userAccount.ban
    BY <1>0, <1>10
       DEF Session!Logout, Session!DeactivateProfile, Session!Account
  <2>2. UNCHANGED <<banned, parted, sessionCall>>
    BY <1>10 DEF Session!Logout, Session!DeactivateProfile
  <2> QED BY <1>3, <2>1, <2>2
<1>11. CASE Session!BanLapses
  <2>1. userAccount.ban = "timed" /\ userAccount'.ban = "over"
    BY <1>0, <1>11 DEF Session!BanLapses, Session!Account
  <2> QED BY <1>3, <1>11, <2>1 DEF Session!BanLapses
<1>12. ASSUME NEW t \in Session!Tokens,
              Session!LastSecond(t) \/ Session!EntryEnds(t)
                \/ Session!Expire(t)
       PROVE  BanInv'
  BY <1>3, <1>12 DEF Session!LastSecond, Session!EntryEnds, Session!Expire
<1>13. CASE UNCHANGED Session!vars
  BY <1>3, <1>13 DEF Session!vars
<1> QED BY <1>4, <1>5, <1>6, <1>7, <1>8, <1>9, <1>10, <1>11, <1>12, <1>13
           DEF Session!Next

LEMMA BansAgree == BanInv => Session!BanAgrees
  BY DEF BanInv, SomeoneAt, Session!BanAgrees

LEMMA NoTokenStep ==
  ASSUME Session!SessionAssumption
  PROVE  SessionInv /\ BanInv /\ [Session!Next]_Session!vars =>
    [\A c \in Calls :
       (/\ sessionCall[c].step = "idle"
        /\ sessionCall'[c].step \in {"read", "checked"}
        /\ ~parted /\ \A b \in Calls : sessionCall[b].step # "banning")
       => userAccount.ban \in {"none", "over"}]_Session!vars
<1> SUFFICES ASSUME SessionInv, BanInv, [Session!Next]_Session!vars,
                    NEW c \in Calls, sessionCall[c].step = "idle",
                    sessionCall'[c].step \in {"read", "checked"}, ~parted,
                    ~SomeoneAt("banning")
             PROVE  userAccount.ban \in {"none", "over"}
  BY DEF SomeoneAt
<1> USE DEF Session!issue, Session!life, Session!marks, Session!redis
<1>0. sessionCall \in [Calls -> SessionCalls]
  BY DEF SessionInv, Session!TypeOK, SessionCalls
<1>1. PICK d \in Calls :
         \/ Session!LoginRead(d)
         \/ \E t \in Session!Tokens : Session!RefreshCheck(d, t)
  <2>1. ASSUME NEW d \in Calls,
               \/ Session!LoginLift(d) \/ Session!LoginCommit(d)
               \/ Session!LoginUnban(d)
        PROVE  FALSE
    BY <1>0, <2>1
       DEF Session!LoginLift, Session!LoginCommit, Session!LoginUnban,
           SessionCalls, Session!Lifts
  <2>2. ASSUME NEW d \in Calls,
               \/ Session!LoginRefused(d) \/ Session!LoginMint(d)
               \/ Session!RefreshRotate(d) \/ Session!RefreshFails(d)
               \/ Session!BanInRedis(d)
        PROVE  FALSE
    BY <1>0, <2>2
       DEF Session!LoginRefused, Session!LoginMint, Session!RefreshRotate,
           Session!RefreshFails, Session!BanInRedis, Session!Done,
           Session!Idle
  <2>3. ASSUME NEW d \in Calls, NEW kind \in {"timed", "indefinite"},
               Session!BanProfile(d, kind)
        PROVE  FALSE
    BY <1>0, <2>3 DEF Session!BanProfile, Session!Goto
  <2>4. sessionCall' # sessionCall
    OBVIOUS
  <2> QED BY <2>1, <2>2, <2>3, <2>4
             DEF Session!Next, Session!Logout, Session!DeactivateProfile,
                 Session!LastSecond, Session!EntryEnds, Session!Expire,
                 Session!BanLapses, Session!vars
<1>2. CASE Session!LoginRead(d)
  BY <1>2 DEF Session!LoginRead
<1>3. CASE \E t \in Session!Tokens : Session!RefreshCheck(d, t)
  BY <1>3 DEF Session!RefreshCheck, BanInv
<1> QED BY <1>1, <1>2, <1>3

-----------------------------------------------------------------------------
(***************************************************************************)
(* Support tickets and their conversations, of any length up to            *)
(* MaxMessages.                                                            *)
(***************************************************************************)
(* The instance's copy of FiniteSets is FiniteSets.                        *)
LEMMA TicketFinite == \A S : Ticket!IsFiniteSet(S) <=> IsFiniteSet(S)
  BY DEF Ticket!IsFiniteSet, IsFiniteSet
LEMMA TicketCardinality ==
  ASSUME NEW S PROVE Ticket!Cardinality(S) = Cardinality(S)
  BY Zenon DEF Ticket!Cardinality, Cardinality
USE TicketFinite, TicketCardinality

(* Who talks, or is about to join, has found the ticket; an agent who talks *)
(* has set it to in_progress, or found it so.                               *)
TicketAges == 0..2
TicketNumbers == 0..MaxTickets
TicketRow ==
  [status : Ticket!Active \union {"none", "closed"}, customer : Customers,
   agent : Agents, quick : BOOLEAN, updated : TicketAges,
   quiet : TicketAges, replied : BOOLEAN, chatted : BOOLEAN]
MessageRow ==
  [by : Ticket!Roles, seen : BOOLEAN, delivered : BOOLEAN,
   sender_deleted : BOOLEAN, receiver_deleted : BOOLEAN]
TicketCall ==
  [step : {"idle", "checked", "picked", "quick", "joining", "talking"},
   ticket : TicketNumbers, role : Ticket!Roles, customer : Customers,
   agent : Agents, status : Ticket!Active \union {"none"}]
Attended(t) == ticket[t].status \in {"in_progress", "closed"}
TicketTypes ==
    /\ ticket \in [Ticket!Tickets -> TicketRow]
    /\ messages \in [Ticket!Tickets -> Seq(MessageRow)]
    /\ ticketCall \in [Calls -> TicketCall]
TicketInv ==
    /\ TicketTypes
    /\ \A t \in Ticket!Tickets : /\ Len(messages[t]) <= MaxMessages
                                 /\ ticket[t].status = "none"
                                      => messages[t] = <<>>
    /\ \A c \in Calls :
          ticketCall[c].step \in {"joining", "talking"} =>
             /\ ticketCall[c].ticket \in Ticket!Tickets
             /\ ticket[ticketCall[c].ticket].status # "none"
             /\ (IF ticketCall[c].step = "joining"
                 THEN ticketCall[c].status = "in_progress"
                 ELSE ticketCall[c].role = "support")
                   => Attended(ticketCall[c].ticket)
    /\ Ticket!AnsweredIsInProgress

LEMMA TicketAge ==
  ASSUME Ticket!TicketAssumption
  PROVE  /\ 0 \in TicketAges /\ \A n \in TicketAges :
              Ticket!Older(n) \in TicketAges
         /\ 0 \in TicketNumbers /\ Ticket!Tickets \subseteq TicketNumbers
         /\ \A n \in TicketAges, m \in TicketAges :
               n <= m => Ticket!Older(n) <= Ticket!Older(m)
BY DEF Ticket!TicketAssumption, TicketAges, TicketNumbers, Ticket!Tickets,
       Ticket!Older

LEMMA TicketConstants ==
  ASSUME Ticket!TicketAssumption
  PROVE  /\ Ticket!NoRow \in TicketRow /\ Ticket!NoRow.status = "none"
         /\ Ticket!NoRow.replied = FALSE
         /\ Ticket!Idle \in TicketCall /\ Ticket!Idle.step = "idle"
         /\ \A c \in Customers, a \in Agents, q \in BOOLEAN :
               Ticket!Row(c, a, q) \in TicketRow
         /\ \A r \in Ticket!Roles : Ticket!Message(r) \in MessageRow
<1>1. /\ (CHOOSE c \in Customers : TRUE) \in Customers
      /\ (CHOOSE a \in Agents : TRUE) \in Agents
  BY DEF Ticket!TicketAssumption
<1>2. \A c \in Customers, a \in Agents, q \in BOOLEAN :
         Ticket!Row(c, a, q) \in TicketRow
  BY TicketAge DEF Ticket!Row, TicketRow, Ticket!Active
<1>3. Ticket!NoRow \in TicketRow /\ Ticket!NoRow.status = "none"
      /\ Ticket!NoRow.replied = FALSE
  <2> DEFINE c == CHOOSE c \in Customers : TRUE
             a == CHOOSE a \in Agents : TRUE
  <2>1. Ticket!NoRow = [Ticket!Row(c, a, FALSE) EXCEPT !.status = "none"]
    BY DEF Ticket!NoRow
  <2>2. Ticket!Row(c, a, FALSE) \in TicketRow
    BY <1>1, <1>2
  <2> HIDE DEF c, a
  <2>3. Ticket!Row(c, a, FALSE).replied = FALSE
    BY DEF Ticket!Row
  <2> QED BY <2>1, <2>2, <2>3 DEF TicketRow
<1>4. Ticket!NoRow.customer \in Customers /\ Ticket!NoRow.agent \in Agents
  BY <1>3 DEF TicketRow
<1>5. Ticket!Idle \in TicketCall /\ Ticket!Idle.step = "idle"
  <2> DEFINE cus == Ticket!NoRow.customer
             a == Ticket!NoRow.agent
  <2>1. Ticket!Idle = [step |-> "idle", ticket |-> 0, role |-> "customer",
                customer |-> cus, agent |-> a, status |-> "none"]
    BY DEF Ticket!Idle
  <2>2. cus \in Customers /\ a \in Agents
    BY <1>4
  <2>3. 0 \in TicketNumbers
    BY TicketAge
  <2> HIDE DEF cus, a
  <2> QED BY <2>1, <2>2, <2>3 DEF TicketCall, Ticket!Roles
<1>6. \A r \in Ticket!Roles : Ticket!Message(r) \in MessageRow
  BY DEF Ticket!Message, MessageRow
<1> QED BY <1>2, <1>3, <1>5, <1>6

\* TypeOK and the property are parts of the invariant.
LEMMA TicketTypeOK ==
  ASSUME Ticket!TicketAssumption, TicketInv
  PROVE  Ticket!TypeOK
BY DEF TicketInv, TicketTypes, Ticket!TypeOK, TicketRow, TicketAges

LEMMA TicketInit ==
  ASSUME Ticket!TicketAssumption
  PROVE  Ticket!Init => TicketInv
<1> SUFFICES ASSUME Ticket!Init PROVE TicketInv
  OBVIOUS
<1>1. TicketTypes
  BY TicketConstants, EmptySeq DEF Ticket!Init, TicketTypes
<1>2. \A t \in Ticket!Tickets : messages[t] = <<>>
        /\ Len(messages[t]) <= MaxMessages
  BY DEF Ticket!Init, Ticket!TicketAssumption
<1>3. \A c \in Calls : ticketCall[c].step = "idle"
  BY TicketConstants DEF Ticket!Init
<1>4. Ticket!AnsweredIsInProgress
  BY TicketConstants DEF Ticket!Init, Ticket!AnsweredIsInProgress
<1> QED BY <1>1, <1>2, <1>3, <1>4 DEF TicketInv

\* A message more: the others stay as they are.
LEMMA TicketSends ==
  ASSUME Ticket!TicketAssumption, TicketTypes, NEW t \in Ticket!Tickets,
         NEW r \in Ticket!Roles,
         Ticket!Sent(t, r)
  PROVE  /\ messages' \in [Ticket!Tickets -> Seq(MessageRow)]
         /\ Len(messages'[t]) = Len(messages[t]) + 1
         /\ \A i \in DOMAIN messages'[t] :
               IF i \in DOMAIN messages[t]
                 THEN messages'[t][i] = messages[t][i]
                                           ELSE messages'[t][i]
                                                 = Ticket!Message(r)
         /\ \A u \in Ticket!Tickets : u # t => messages'[u] = messages[u]
<1> DEFINE s == messages[t]
           m == Ticket!Message(r)
<1>1. s \in Seq(MessageRow) /\ m \in MessageRow
  BY TicketConstants DEF TicketTypes
<1>2. messages' = [messages EXCEPT ![t] = Append(s, m)]
  BY DEF Ticket!Sent
<1>5. messages \in [Ticket!Tickets -> Seq(MessageRow)]
  BY DEF TicketTypes
<1> HIDE DEF s, m
<1>3. /\ Append(s, m) \in Seq(MessageRow) /\ Len(Append(s, m)) = Len(s) + 1
      /\ \A i \in DOMAIN Append(s, m) :
            IF i \in DOMAIN s THEN Append(s, m)[i] = s[i]
                              ELSE Append(s, m)[i] = m
  BY <1>1
<1>4. /\ messages'[t] = Append(s, m)
      /\ messages' \in [Ticket!Tickets -> Seq(MessageRow)]
      /\ \A u \in Ticket!Tickets : u # t => messages'[u] = messages[u]
  BY <1>2, <1>3, <1>5
<1> QED BY <1>3, <1>4 DEF s, m

\* Marks on the messages of one ticket: there are as many as before.
LEMMA TicketMarks ==
  ASSUME Ticket!TicketAssumption, TicketTypes, NEW t \in Ticket!Tickets,
         NEW f \in [DOMAIN messages[t] -> MessageRow],
         messages' = [messages EXCEPT ![t] = f]
  PROVE  /\ messages' \in [Ticket!Tickets -> Seq(MessageRow)]
         /\ messages'[t] = f
         /\ \A u \in Ticket!Tickets :
               /\ Len(messages'[u]) = Len(messages[u])
               /\ DOMAIN messages'[u] = DOMAIN messages[u]
               /\ messages[u] = <<>> => messages'[u] = <<>>
               /\ u # t => messages'[u] = messages[u]
<1>1. messages \in [Ticket!Tickets -> Seq(MessageRow)]
  BY DEF TicketTypes
<1>2. PICK n \in Nat : DOMAIN messages[t] = 1..n /\ Len(messages[t]) = n
  BY <1>1, LenProperties
<1>3. f \in Seq(MessageRow)
  BY <1>2, SeqDef
<1>4. DOMAIN f = 1..n /\ Len(f) = n
  BY <1>2, <1>3, LenProperties
<1>5. messages[t] = <<>> => f = <<>>
  BY <1>2, <1>3, <1>4, EmptySeq
<1>6. messages'[t] = f /\ \A u \in Ticket!Tickets : u # t
        => messages'[u] = messages[u]
  BY <1>1
<1>7. messages' \in [Ticket!Tickets -> Seq(MessageRow)]
  BY <1>1, <1>3
<1> QED BY <1>2, <1>4, <1>5, <1>6, <1>7

\* The view, the clearing and the marking of messages by the handlers.
LEMMA TicketHides ==
  ASSUME NEW m \in MessageRow, NEW r \in Ticket!Roles
  PROVE  /\ Ticket!Hidden(m, r) \in MessageRow
         /\ Ticket!Hidden(m, r).seen = m.seen /\ Ticket!Hidden(m, r).delivered
              = m.delivered
         /\ [m EXCEPT !.seen = TRUE] \in MessageRow
         /\ [m EXCEPT !.delivered = TRUE] \in MessageRow
         /\ [m EXCEPT !.seen = TRUE, !.delivered = TRUE] \in MessageRow
BY DEF Ticket!Hidden, MessageRow

LEMMA TicketMarked ==
  ASSUME Ticket!TicketAssumption, TicketTypes, NEW t \in Ticket!Tickets,
         NEW r \in Ticket!Roles,
         \/ \E i \in DOMAIN messages[t] : Ticket!RemoveMessage(t, i)
         \/ Ticket!ClearConversation(t, r) \/ Ticket!View(t, r)
              \/ Ticket!Conversations(t, r)
         \/ \E c \in Calls : ticketCall[c].ticket = t /\ Ticket!SocketFlag(c)
  PROVE  \E f \in [DOMAIN messages[t] -> MessageRow] :
            messages' = [messages EXCEPT ![t] = f]
<1>1. /\ messages \in [Ticket!Tickets -> Seq(MessageRow)]
      /\ \A i \in DOMAIN messages[t] : messages[t][i] \in MessageRow
      /\ messages[t] \in [DOMAIN messages[t] -> MessageRow]
  BY LenProperties, ElementOfSeq DEF TicketTypes
<1>2. "customer" \in Ticket!Roles
  BY DEF Ticket!Roles
<1>3. ASSUME NEW i \in DOMAIN messages[t], NEW m \in MessageRow,
             messages' = [messages EXCEPT ![t][i] = m]
      PROVE  \E f \in [DOMAIN messages[t] -> MessageRow] :
                messages' = [messages EXCEPT ![t] = f]
  <2> DEFINE f == [messages[t] EXCEPT ![i] = m]
  <2>1. f \in [DOMAIN messages[t] -> MessageRow]
    BY <1>1
  <2>2. messages' = [messages EXCEPT ![t] = f]
    BY <1>3
  <2> QED BY <2>1, <2>2
<1>4. ASSUME NEW i \in DOMAIN messages[t], Ticket!RemoveMessage(t, i)
      PROVE  \E f \in [DOMAIN messages[t] -> MessageRow] :
                messages' = [messages EXCEPT ![t] = f]
  <2>1. messages' = [messages EXCEPT ![t][i] = Ticket!Hidden(messages[t][i],
                                                      "customer")]
    BY <1>4 DEF Ticket!RemoveMessage
  <2> QED BY <1>1, <1>2, <1>3, <2>1, TicketHides
<1>5. ASSUME Ticket!ClearConversation(t, r)
      PROVE  \E f \in [DOMAIN messages[t] -> MessageRow] :
                messages' = [messages EXCEPT ![t] = f]
  <2> DEFINE f ==
        [i \in DOMAIN messages[t] |-> Ticket!Hidden(messages[t][i], r)]
  <2>1. f \in [DOMAIN messages[t] -> MessageRow]
    BY <1>1, TicketHides
  <2>2. messages' = [messages EXCEPT ![t] = f]
    BY <1>5 DEF Ticket!ClearConversation
  <2> QED BY <2>1, <2>2
<1>6. ASSUME Ticket!View(t, r)
      PROVE  \E f \in [DOMAIN messages[t] -> MessageRow] :
                messages' = [messages EXCEPT ![t] = f]
  <2> DEFINE f == [i \in DOMAIN messages[t] |->
          IF i \in Ticket!Unseen(t, r)
             THEN [messages[t][i] EXCEPT !.seen = TRUE, !.delivered = TRUE]
             ELSE messages[t][i]]
  <2>1. f \in [DOMAIN messages[t] -> MessageRow]
    BY <1>1, TicketHides
  <2>2. messages' = [messages EXCEPT ![t] = f]
    BY <1>6 DEF Ticket!View
  <2> QED BY <2>1, <2>2
<1>7. ASSUME Ticket!Conversations(t, r)
      PROVE  \E f \in [DOMAIN messages[t] -> MessageRow] :
                messages' = [messages EXCEPT ![t] = f]
  <2>1. PICK i \in DOMAIN messages[t] :
           messages' = [messages EXCEPT ![t][i] =
                          [messages[t][i] EXCEPT !.delivered = TRUE]]
    BY <1>1, <1>7 DEF Ticket!Conversations
  <2> QED BY <1>1, <1>3, <2>1, TicketHides
<1>8. ASSUME NEW c \in Calls, ticketCall[c].ticket = t, Ticket!SocketFlag(c)
      PROVE  \E f \in [DOMAIN messages[t] -> MessageRow] :
                messages' = [messages EXCEPT ![t] = f]
  <2>1. PICK i \in DOMAIN messages[t] :
           \/ messages' = [messages EXCEPT ![t][i] =
                             [messages[t][i] EXCEPT !.delivered = TRUE]]
           \/ messages' = [messages EXCEPT ![t][i] =
                             [messages[t][i] EXCEPT !.seen = TRUE]]
    BY <1>1, <1>8 DEF Ticket!SocketFlag
  <2> QED BY <1>1, <1>3, <2>1, TicketHides
<1> QED BY <1>4, <1>5, <1>6, <1>7, <1>8

\* Rows that keep being what they are, and calls that find theirs.
LEMMA TicketStep ==
  ASSUME Ticket!TicketAssumption
  PROVE  TicketInv /\ [Ticket!Next]_Ticket!vars => TicketInv'
<1> SUFFICES ASSUME TicketInv, [Ticket!Next]_Ticket!vars PROVE TicketInv'
  OBVIOUS
<1>0. /\ ticket \in [Ticket!Tickets -> TicketRow]
      /\ messages \in [Ticket!Tickets -> Seq(MessageRow)]
      /\ ticketCall \in [Calls -> TicketCall]
      /\ TicketTypes
  BY DEF TicketInv, TicketTypes
<1>1. /\ Ticket!Idle \in TicketCall /\ Ticket!Idle.step = "idle"
      /\ \A cus \in Customers, a \in Agents, q \in BOOLEAN :
            Ticket!Row(cus, a, q) \in TicketRow
  BY TicketConstants
\* A call that ends, or goes on to anything but a ticket.
<1>2. ASSUME NEW c \in Calls, UNCHANGED <<ticket, messages>>,
             NEW k \in TicketCall, k.step \notin {"joining", "talking"},
             ticketCall' = [ticketCall EXCEPT ![c] = k]
      PROVE  TicketInv'
  <2>1. TicketTypes'
    BY <1>0, <1>2 DEF TicketTypes
  <2>2. \A d \in Calls : ticketCall'[d].step \in {"joining", "talking"}
                            => ticketCall'[d] = ticketCall[d]
    BY <1>0, <1>2
  <2>3. Ticket!AnsweredIsInProgress'
    BY <1>2 DEF Ticket!AnsweredIsInProgress, TicketInv
  <2> QED BY <1>2, <2>1, <2>2, <2>3 DEF TicketInv, Attended
<1>3. ASSUME NEW c \in Calls, NEW cus \in Customers, Ticket!Check(c, cus)
      PROVE  TicketInv'
  <2>1. [Ticket!Idle EXCEPT !.step = "checked", !.customer = cus]
          \in TicketCall
    BY <1>1 DEF TicketCall
  <2>2. [Ticket!Idle EXCEPT !.step = "checked", !.customer = cus].step
          = "checked"
    BY <1>1 DEF TicketCall
  <2> QED BY <1>2, <1>3, <2>1, <2>2 DEF Ticket!Check
<1>4. ASSUME NEW c \in Calls, NEW a \in Agents, Ticket!Pick(c, a)
      PROVE  TicketInv'
  <2>1. [ticketCall[c] EXCEPT !.step = "picked", !.agent = a] \in TicketCall
    BY <1>0 DEF TicketCall
  <2>2. [ticketCall[c] EXCEPT !.step = "picked", !.agent = a].step = "picked"
    BY <1>0 DEF TicketCall
  <2>3. /\ ticketCall' = [ticketCall EXCEPT ![c] =
                       [ticketCall[c] EXCEPT !.step = "picked", !.agent = a]]
        /\ UNCHANGED <<ticket, messages>>
    BY <1>0, <1>4 DEF Ticket!Pick
  <2> QED BY <1>2, <2>1, <2>2, <2>3
<1>5. ASSUME NEW c \in Calls, Ticket!Abandon(c) \/ Ticket!SocketClose(c)
      PROVE  TicketInv'
  BY <1>1, <1>2, <1>5 DEF Ticket!Abandon, Ticket!SocketClose, Ticket!Done
\* A new row, whose number no call has.
<1>6. ASSUME NEW c \in Calls, NEW t \in Ticket!Tickets, Ticket!Open(c, t)
      PROVE  TicketInv'
  <2>1. /\ ticket[t].status = "none" /\ Ticket!Sent(t, "customer")
        /\ Ticket!Done(c)
        /\ ticket' = [ticket EXCEPT ![t] = Ticket!Row(ticketCall[c].customer,
                                               ticketCall[c].agent, FALSE)]
    BY <1>6 DEF Ticket!Open, Ticket!Fresh
  <2>2. Ticket!Row(ticketCall[c].customer, ticketCall[c].agent, FALSE)
          \in TicketRow
    BY <1>0, <1>1 DEF TicketCall
  <2>3. ticket' \in [Ticket!Tickets -> TicketRow] /\ ticket'[t].replied = FALSE
        /\ \A u \in Ticket!Tickets : u # t => ticket'[u] = ticket[u]
    BY <1>0, <2>1, <2>2 DEF Ticket!Row
  <2>4. "customer" \in Ticket!Roles
    BY DEF Ticket!Roles
  <2>5. /\ messages' \in [Ticket!Tickets -> Seq(MessageRow)]
        /\ Len(messages'[t]) = Len(messages[t]) + 1
        /\ \A u \in Ticket!Tickets : u # t => messages'[u] = messages[u]
    BY <1>0, <2>1, <2>4, TicketSends
  <2>6. Len(messages[t]) = 0
    BY <2>1 DEF TicketInv
  <2>7. ticket'[t].status # "none"
    BY <1>0, <2>1 DEF Ticket!Row
  <2>8. \A u \in Ticket!Tickets : /\ Len(messages'[u]) <= MaxMessages
                                  /\ ticket'[u].status = "none"
                                       => messages'[u] = <<>>
    <3>1. Len(messages'[t]) = 1 /\ 1 <= MaxMessages
      BY <2>5, <2>6 DEF Ticket!TicketAssumption
    <3>2. Len(messages'[t]) <= MaxMessages
      BY <3>1
    <3>3. \A u \in Ticket!Tickets : u # t =>
             /\ Len(messages'[u]) <= MaxMessages
             /\ ticket'[u].status = "none" => messages'[u] = <<>>
      BY <2>3, <2>5 DEF TicketInv
    <3> QED BY <2>7, <3>2, <3>3
  <2>9. ticketCall' \in [Calls -> TicketCall]
        /\ \A d \in Calls : ticketCall'[d].step \in {"joining", "talking"}
                               => ticketCall'[d] = ticketCall[d]
                                 /\ ticketCall[d].ticket # t
    BY <1>0, <1>1, <2>1 DEF Ticket!Done, TicketInv
  <2>10. Ticket!AnsweredIsInProgress'
    BY <2>3 DEF Ticket!AnsweredIsInProgress, TicketInv
  <2> QED BY <2>3, <2>5, <2>8, <2>9, <2>10 DEF TicketInv, TicketTypes, Attended
<1>7. ASSUME NEW c \in Calls, NEW t \in Ticket!Tickets, Ticket!SocketOpen(c, t)
      PROVE  TicketInv'
  <2>1. /\ ticket[t].status = "none" /\ Ticket!Talk(c, t, "customer")
        /\ ticket' = [ticket EXCEPT ![t] = Ticket!Row(ticketCall[c].customer,
                                               ticketCall[c].agent, TRUE)]
        /\ UNCHANGED messages
    BY <1>7 DEF Ticket!SocketOpen, Ticket!Fresh
  <2>2. Ticket!Row(ticketCall[c].customer, ticketCall[c].agent, TRUE)
          \in TicketRow
    BY <1>0, <1>1 DEF TicketCall
  <2>3. ticket' \in [Ticket!Tickets -> TicketRow] /\ ticket'[t].replied = FALSE
        /\ \A u \in Ticket!Tickets : u # t => ticket'[u] = ticket[u]
    BY <1>0, <2>1, <2>2 DEF Ticket!Row
  <2>4. ticket'[t].status # "none"
    BY <1>0, <2>1 DEF Ticket!Row
  <2>5. [Ticket!Idle EXCEPT !.step = "talking", !.ticket = t,
         !.role = "customer"]
           \in TicketCall
    BY <1>1, TicketAge DEF TicketCall, Ticket!Roles
  <2>6. /\ ticketCall' \in [Calls -> TicketCall]
        /\ \A d \in Calls : d # c => ticketCall'[d] = ticketCall[d]
        /\ ticketCall'[c].ticket = t /\ ticketCall'[c].role = "customer"
        /\ ticketCall'[c].step = "talking"
    BY <1>0, <1>1, <2>1, <2>5 DEF Ticket!Talk, TicketCall
  <2>7. \A d \in Calls : d # c
          /\ ticketCall'[d].step \in {"joining", "talking"}
                            => ticketCall[d].ticket # t
    BY <2>1, <2>6 DEF TicketInv
  <2>8. Ticket!AnsweredIsInProgress'
    BY <2>3 DEF Ticket!AnsweredIsInProgress, TicketInv
  <2>9. \A u \in Ticket!Tickets : /\ Len(messages'[u]) <= MaxMessages
                                  /\ ticket'[u].status = "none"
                                       => messages'[u] = <<>>
    BY <2>1, <2>3, <2>4 DEF TicketInv
  <2>10. \A d \in Calls :
          ticketCall'[d].step \in {"joining", "talking"} =>
             /\ ticketCall'[d].ticket \in Ticket!Tickets
             /\ ticket'[ticketCall'[d].ticket].status # "none"
             /\ (IF ticketCall'[d].step = "joining"
                 THEN ticketCall'[d].status = "in_progress"
                 ELSE ticketCall'[d].role = "support")
                   => Attended(ticketCall[d].ticket)'
    <3> SUFFICES ASSUME NEW d \in Calls,
                        ticketCall'[d].step \in {"joining", "talking"}
                 PROVE
             /\ ticketCall'[d].ticket \in Ticket!Tickets
             /\ ticket'[ticketCall'[d].ticket].status # "none"
             /\ (IF ticketCall'[d].step = "joining"
                 THEN ticketCall'[d].status = "in_progress"
                 ELSE ticketCall'[d].role = "support")
                   => Attended(ticketCall[d].ticket)'
      OBVIOUS
    <3>1. CASE d = c
      BY <2>4, <2>6, <3>1
    <3>2. CASE d # c
      BY <2>3, <2>6, <2>7, <3>2 DEF TicketInv, Attended
    <3> QED BY <3>1, <3>2
  <2>11. TicketTypes'
    BY <1>0, <2>1, <2>3, <2>6 DEF TicketTypes
  <2> QED BY <2>8, <2>9, <2>10, <2>11 DEF TicketInv
<1>8. ASSUME NEW c \in Calls, NEW cus \in Customers,
             Ticket!SocketCustomer(c, cus)
      PROVE  TicketInv'
  <2>1. CASE \E t \in Ticket!Tickets : ticket[t].quick /\ Ticket!Recent(t)
                                /\ Ticket!Talk(c, t, "customer")
    <3>1. PICK t \in Ticket!Tickets : ticket[t].status \in Ticket!Active
                               /\ Ticket!Talk(c, t, "customer")
      BY <2>1 DEF Ticket!Recent
    <3>2. UNCHANGED <<ticket, messages>>
      BY <1>8 DEF Ticket!SocketCustomer
    <3>3. [Ticket!Idle EXCEPT !.step = "talking", !.ticket = t,
           !.role = "customer"]
             \in TicketCall
      BY <1>1, TicketAge DEF TicketCall, Ticket!Roles
    <3>4. /\ ticketCall' \in [Calls -> TicketCall]
          /\ \A d \in Calls : d # c => ticketCall'[d] = ticketCall[d]
          /\ ticketCall'[c].ticket = t /\ ticketCall'[c].role = "customer"
          /\ ticketCall'[c].step = "talking"
      BY <1>0, <1>1, <3>1, <3>3 DEF Ticket!Talk, TicketCall
    <3>5. TicketTypes' /\ Ticket!AnsweredIsInProgress'
      BY <1>0, <3>2, <3>4
         DEF TicketTypes, Ticket!AnsweredIsInProgress, TicketInv
    <3>6. ticket'[t].status # "none"
      BY <3>1, <3>2 DEF Ticket!Active
    <3> QED BY <3>2, <3>4, <3>5, <3>6 DEF TicketInv, Attended
  <2>2. CASE \E a \in Ticket!Least : ticketCall' = [ticketCall EXCEPT ![c] =
                [Ticket!Idle EXCEPT !.step = "quick", !.customer = cus,
                 !.agent = a]]
    <3>1. PICK a \in Agents : ticketCall' = [ticketCall EXCEPT ![c] =
                [Ticket!Idle EXCEPT !.step = "quick", !.customer = cus,
                 !.agent = a]]
      BY <2>2 DEF Ticket!Least
    <3> DEFINE k == [Ticket!Idle EXCEPT !.step = "quick", !.customer = cus,
                                 !.agent = a]
    <3>2. k \in TicketCall /\ k.step = "quick"
      BY <1>1 DEF TicketCall
    <3>3. UNCHANGED <<ticket, messages>>
      BY <1>8 DEF Ticket!SocketCustomer
    <3> HIDE DEF k
    <3> QED BY <1>2, <3>1, <3>2, <3>3 DEF k
  <2> QED BY <1>8, <2>1, <2>2 DEF Ticket!SocketCustomer
<1>9. ASSUME NEW c \in Calls, NEW t \in Ticket!Tickets,
             Ticket!SocketAgent(c, t)
      PROVE  TicketInv'
  <2> DEFINE k == [Ticket!Idle EXCEPT !.step = "joining", !.ticket = t,
                               !.status = ticket[t].status]
  <2>1. /\ ticket[t].status \in Ticket!Active
        /\ ticketCall' = [ticketCall EXCEPT ![c] = k]
        /\ UNCHANGED <<ticket, messages>>
    BY <1>9 DEF Ticket!SocketAgent, Ticket!Recent
  <2>2. /\ k \in TicketCall /\ k.step = "joining" /\ k.ticket = t
        /\ k.status = ticket[t].status
    BY <1>1, <2>1, TicketAge DEF TicketCall
  <2> HIDE DEF k
  <2>3. /\ ticketCall' \in [Calls -> TicketCall]
        /\ \A d \in Calls : IF d = c THEN ticketCall'[d] = k
             ELSE ticketCall'[d] = ticketCall[d]
    BY <1>0, <2>1, <2>2
  <2>4. TicketTypes' /\ Ticket!AnsweredIsInProgress'
    BY <1>0, <2>1, <2>3 DEF TicketTypes, Ticket!AnsweredIsInProgress, TicketInv
  <2>5. ticket[t].status # "none"
    BY <2>1 DEF Ticket!Active
  <2>6. ticketCall'[c].status = "in_progress" => Attended(t)'
    BY <2>1, <2>2, <2>3 DEF Attended
  <2> QED BY <2>1, <2>2, <2>3, <2>4, <2>5, <2>6 DEF TicketInv, Attended
\* A row that changes and is neither new nor less attended to.
<1>10. ASSUME NEW t \in Ticket!Tickets, NEW rec \in TicketRow,
              rec.status # "none",
              ticket' = [ticket EXCEPT ![t] = rec],
              ticket[t].status # "none",
              Attended(t) => rec.status \in {"in_progress", "closed"},
              rec.replied => rec.status \in {"in_progress", "closed"},
              messages' \in [Ticket!Tickets -> Seq(MessageRow)],
              \A u \in Ticket!Tickets :
                 /\ Len(messages'[u]) <= MaxMessages
                 /\ messages[u] = <<>> /\ u # t => messages'[u] = <<>>,
              UNCHANGED ticketCall
       PROVE  TicketInv'
  <2>1. ticket' \in [Ticket!Tickets -> TicketRow] /\ ticket'[t] = rec
        /\ \A u \in Ticket!Tickets : u # t => ticket'[u] = ticket[u]
    BY <1>0, <1>10
  <2>2. TicketTypes'
    BY <1>0, <1>10, <2>1 DEF TicketTypes
  <2>3. \A u \in Ticket!Tickets : /\ Attended(u) => Attended(u)'
                                  /\ ticket[u].status # "none"
                                        => ticket'[u].status # "none"
    BY <1>10, <2>1 DEF Attended
  <2>4. Ticket!AnsweredIsInProgress'
    BY <1>10, <2>1 DEF Ticket!AnsweredIsInProgress, TicketInv
  <2>5. \A d \in Calls : ticketCall'[d] = ticketCall[d]
    BY <1>10
  <2>6. \A u \in Ticket!Tickets : /\ Len(messages'[u]) <= MaxMessages
                                  /\ ticket'[u].status = "none"
                                       => messages'[u] = <<>>
    BY <1>10, <2>1 DEF TicketInv
  <2>7. \A d \in Calls :
          ticketCall'[d].step \in {"joining", "talking"} =>
             /\ ticketCall'[d].ticket \in Ticket!Tickets
             /\ ticket'[ticketCall'[d].ticket].status # "none"
             /\ (IF ticketCall'[d].step = "joining"
                 THEN ticketCall'[d].status = "in_progress"
                 ELSE ticketCall'[d].role = "support")
                   => Attended(ticketCall[d].ticket)'
    BY <1>10, <2>3, <2>5 DEF TicketInv, Attended
  <2> QED BY <2>2, <2>4, <2>6, <2>7 DEF TicketInv
\* Messages that are marked: nothing else changes.
<1>11. ASSUME UNCHANGED <<ticket, ticketCall>>,
              messages' \in [Ticket!Tickets -> Seq(MessageRow)],
              \A u \in Ticket!Tickets : /\ Len(messages'[u]) = Len(messages[u])
                                        /\ messages[u] = <<>>
                                             => messages'[u] = <<>>
       PROVE  TicketInv'
  <2>1. TicketTypes' /\ Ticket!AnsweredIsInProgress'
    BY <1>0, <1>11 DEF TicketTypes, Ticket!AnsweredIsInProgress, TicketInv
  <2> QED BY <1>11, <2>1 DEF TicketInv, Attended
<1>12. ASSUME NEW c \in Calls, Ticket!SocketJoin(c) PROVE TicketInv'
  <2> DEFINE t == ticketCall[c].ticket
             k == [Ticket!Idle EXCEPT !.step = "talking", !.ticket = t,
                               !.role = "support"]
             rec == IF ticketCall[c].status = "in_progress" THEN ticket[t]
                    ELSE [ticket[t] EXCEPT !.status = "in_progress",
                                           !.updated = 0, !.chatted = TRUE]
  <2>1. /\ t \in Ticket!Tickets /\ ticket[t].status # "none"
        /\ ticketCall[c].status = "in_progress" => Attended(t)
    BY <1>12 DEF Ticket!SocketJoin, TicketInv
  <2>2. /\ ticket' = [ticket EXCEPT ![t] = rec]
        /\ ticketCall' = [ticketCall EXCEPT ![c] = k] /\ UNCHANGED messages
    BY <1>0, <1>12 DEF Ticket!SocketJoin, Ticket!Talk
  <2>3. rec \in TicketRow /\ rec.status \in {"in_progress", "closed"}
    BY <1>0, <2>1, TicketAge DEF TicketRow, Ticket!Active, Attended
  <2>4. k \in TicketCall /\ k.step = "talking" /\ k.ticket = t
    BY <1>1, <2>1, TicketAge DEF TicketCall, Ticket!Roles
  <2> HIDE DEF t, k, rec
  <2>5. ticket' \in [Ticket!Tickets -> TicketRow] /\ ticket'[t] = rec
        /\ \A u \in Ticket!Tickets : u # t => ticket'[u] = ticket[u]
    BY <1>0, <2>1, <2>2, <2>3
  <2>6. /\ ticketCall' \in [Calls -> TicketCall]
        /\ \A d \in Calls : IF d = c THEN ticketCall'[d] = k
             ELSE ticketCall'[d] = ticketCall[d]
    BY <1>0, <2>2, <2>4
  <2>7. \A u \in Ticket!Tickets :
           /\ ticket'[u].status \in {"in_progress", "closed"}
                 \/ ticket'[u] = ticket[u]
           /\ ticket[u].status # "none" => ticket'[u].status # "none"
           /\ ticket'[u].status = "none" => ticket[u].status = "none"
    BY <2>1, <2>3, <2>5
  <2>8. TicketTypes' /\ Ticket!AnsweredIsInProgress'
    BY <1>0, <2>2, <2>5, <2>6, <2>7
       DEF TicketTypes, Ticket!AnsweredIsInProgress, TicketInv
  <2>9. \A d \in Calls :
          ticketCall'[d].step \in {"joining", "talking"} =>
             /\ ticketCall'[d].ticket \in Ticket!Tickets
             /\ ticket'[ticketCall'[d].ticket].status # "none"
             /\ (IF ticketCall'[d].step = "joining"
                 THEN ticketCall'[d].status = "in_progress"
                 ELSE ticketCall'[d].role = "support")
                   => Attended(ticketCall[d].ticket)'
    <3> SUFFICES ASSUME NEW d \in Calls,
                        ticketCall'[d].step \in {"joining", "talking"}
                 PROVE
             /\ ticketCall'[d].ticket \in Ticket!Tickets
             /\ ticket'[ticketCall'[d].ticket].status # "none"
             /\ (IF ticketCall'[d].step = "joining"
                 THEN ticketCall'[d].status = "in_progress"
                 ELSE ticketCall'[d].role = "support")
                   => Attended(ticketCall[d].ticket)'
      OBVIOUS
    <3>1. CASE d = c
      BY <2>1, <2>3, <2>4, <2>5, <2>6, <3>1 DEF Attended
    <3>2. CASE d # c
      BY <2>6, <2>7, <3>2 DEF TicketInv, Attended
    <3> QED BY <3>1, <3>2
  <2>10. \A u \in Ticket!Tickets : /\ Len(messages'[u]) <= MaxMessages
                                   /\ ticket'[u].status = "none"
                                        => messages'[u] = <<>>
    BY <2>2, <2>7 DEF TicketInv
  <2> QED BY <2>8, <2>9, <2>10 DEF TicketInv
<1>13. ASSUME NEW t \in Ticket!Tickets, NEW r \in Ticket!Roles,
              Ticket!Sent(t, r), Ticket!Room(t)
       PROVE  /\ messages' \in [Ticket!Tickets -> Seq(MessageRow)]
              /\ \A u \in Ticket!Tickets :
                    /\ Len(messages'[u]) <= MaxMessages
                    /\ messages[u] = <<>> /\ u # t => messages'[u] = <<>>
  <2>1. /\ messages' \in [Ticket!Tickets -> Seq(MessageRow)]
        /\ Len(messages'[t]) = Len(messages[t]) + 1
        /\ \A u \in Ticket!Tickets : u # t => messages'[u] = messages[u]
    BY <1>0, <1>13, TicketSends
  <2>2. Len(messages[t]) \in Nat
    BY <1>0
  <2>3. Len(messages'[t]) <= MaxMessages
    BY <1>13, <2>1, <2>2 DEF Ticket!Room, Ticket!TicketAssumption
  <2> QED BY <2>1, <2>3 DEF TicketInv
<1>14. ASSUME NEW c \in Calls, Ticket!SocketSend(c) PROVE TicketInv'
  <2> DEFINE t == ticketCall[c].ticket
             rec == [ticket[t] EXCEPT
                       !.quiet = 0, !.chatted = TRUE,
                       !.replied = @ \/ ticketCall[c].role = "support"]
  <2>1. /\ t \in Ticket!Tickets /\ ticket[t].status # "none"
        /\ ticketCall[c].role = "support" => Attended(t)
        /\ ticketCall[c].role \in Ticket!Roles
    BY <1>0, <1>14 DEF Ticket!SocketSend, TicketInv, TicketCall
  <2>2. /\ ticket' = [ticket EXCEPT ![t] = rec] /\ UNCHANGED ticketCall
        /\ Ticket!Sent(t, ticketCall[c].role) /\ Ticket!Room(t)
    BY <1>0, <1>14 DEF Ticket!SocketSend
  <2>3. ticket[t].replied => Attended(t)
    BY <2>1 DEF TicketInv, Ticket!AnsweredIsInProgress, Attended
  <2>4. (ticket[t].replied \/ ticketCall[c].role = "support") \in BOOLEAN
    OBVIOUS
  <2>5. /\ rec \in TicketRow /\ rec.status = ticket[t].status
        /\ rec.replied <=> ticket[t].replied \/ ticketCall[c].role = "support"
    BY <1>0, <2>1, <2>4, TicketAge DEF TicketRow
  <2> HIDE DEF rec
  <2> QED BY <1>10, <1>13, <2>1, <2>2, <2>3, <2>5 DEF Attended
<1>15. ASSUME NEW t \in Ticket!Tickets, NEW r \in Ticket!Roles,
              Ticket!TicketThread(t, r)
       PROVE  TicketInv'
  <2> DEFINE rec == [ticket[t] EXCEPT
                       !.status = IF r = "support" THEN "in_progress" ELSE @,
                       !.updated = 0, !.quiet = 0,
                       !.replied = @ \/ r = "support"]
  <2>1. ticket[t].status # "none"
    BY <1>15 DEF Ticket!TicketThread, Ticket!Active
  <2>2. /\ ticket' = [ticket EXCEPT ![t] = rec] /\ UNCHANGED ticketCall
        /\ Ticket!Sent(t, r) /\ Ticket!Room(t)
    BY <1>0, <1>15 DEF Ticket!TicketThread
  <2>3. ticket[t].replied => Attended(t)
    BY <2>1 DEF TicketInv, Ticket!AnsweredIsInProgress, Attended
  <2>4. (ticket[t].replied \/ r = "support") \in BOOLEAN
    OBVIOUS
  <2>5. /\ rec \in TicketRow
        /\ rec.status = IF r = "support" THEN "in_progress"
                                         ELSE ticket[t].status
        /\ rec.replied <=> ticket[t].replied \/ r = "support"
    BY <1>0, <2>1, <2>4, TicketAge DEF TicketRow, Ticket!Active
  <2> HIDE DEF rec
  <2> QED BY <1>10, <1>13, <2>1, <2>2, <2>3, <2>5 DEF Attended
<1>16. ASSUME NEW t \in Ticket!Tickets, Ticket!Closed(t),
              ticket[t].status # "none",
              UNCHANGED ticketCall,
              messages' \in [Ticket!Tickets -> Seq(MessageRow)],
              \A u \in Ticket!Tickets :
                 /\ Len(messages'[u]) <= MaxMessages
                 /\ messages[u] = <<>> => messages'[u] = <<>>
       PROVE  TicketInv'
  <2> DEFINE rec == [ticket[t] EXCEPT !.status = "closed", !.updated = 0]
  <2>1. rec \in TicketRow /\ rec.status = "closed"
    BY <1>0, TicketAge DEF TicketRow
  <2>2. ticket' = [ticket EXCEPT ![t] = rec]
    BY <1>0, <1>16 DEF Ticket!Closed
  <2> HIDE DEF rec
  <2> QED BY <1>10, <1>16, <2>1, <2>2
<1>17. ASSUME NEW t \in Ticket!Tickets,
              Ticket!MarkAsResolved(t) \/ Ticket!CloseTicket(t)
       PROVE  TicketInv'
  <2>1. /\ Ticket!Closed(t) /\ ticket[t].status # "none"
        /\ UNCHANGED <<messages, ticketCall>>
    BY <1>17 DEF Ticket!MarkAsResolved, Ticket!CloseTicket, Ticket!Closable,
                 Ticket!Active
  <2> QED BY <1>0, <1>16, <2>1 DEF TicketInv
<1>18. ASSUME NEW t \in Ticket!Tickets,
              \/ \E i \in 1..MaxMessages : Ticket!RemoveMessage(t, i)
              \/ \E r \in Ticket!Roles : \/ Ticket!ClearConversation(t, r)
                                              \/ Ticket!View(t, r)
                                         \/ Ticket!Conversations(t, r)
              \/ \E c \in Calls : ticketCall[c].ticket = t
                   /\ Ticket!SocketFlag(c)
       PROVE  /\ messages' \in [Ticket!Tickets -> Seq(MessageRow)]
              /\ \A u \in Ticket!Tickets :
                    /\ Len(messages'[u]) = Len(messages[u])
                    /\ messages[u] = <<>> => messages'[u] = <<>>
  <2>1. "customer" \in Ticket!Roles
    BY DEF Ticket!Roles
  <2>2. \A i \in 1..MaxMessages : Ticket!RemoveMessage(t, i)
          => i \in DOMAIN messages[t]
    BY DEF Ticket!RemoveMessage
  <2>3. \E f \in [DOMAIN messages[t] -> MessageRow] :
           messages' = [messages EXCEPT ![t] = f]
    BY <1>0, <1>18, <2>1, <2>2, TicketMarked
  <2> QED BY <1>0, <2>3, TicketMarks
<1>19. ASSUME NEW t \in Ticket!Tickets,
              \/ \E i \in 1..MaxMessages : Ticket!RemoveMessage(t, i)
              \/ \E r \in Ticket!Roles : Ticket!View(t, r)
                   \/ Ticket!Conversations(t, r)
              \/ \E c \in Calls : ticketCall[c].ticket = t
                   /\ Ticket!SocketFlag(c)
       PROVE  TicketInv'
  <2>1. UNCHANGED <<ticket, ticketCall>>
    BY <1>19
       DEF Ticket!RemoveMessage, Ticket!View, Ticket!Conversations,
           Ticket!SocketFlag
  <2> QED BY <1>11, <1>18, <1>19, <2>1
<1>20. ASSUME NEW t \in Ticket!Tickets, NEW r \in Ticket!Roles,
              Ticket!ClearConversation(t, r)
       PROVE  TicketInv'
  <2>1. /\ messages' \in [Ticket!Tickets -> Seq(MessageRow)]
        /\ \A u \in Ticket!Tickets :
              /\ Len(messages'[u]) = Len(messages[u])
              /\ messages[u] = <<>> => messages'[u] = <<>>
    BY <1>18, <1>20
  <2>2. /\ ticket[t].status # "none" /\ UNCHANGED ticketCall
        /\ UNCHANGED ticket \/ Ticket!Closed(t)
    BY <1>20 DEF Ticket!ClearConversation, Ticket!Active
  <2>3. \A u \in Ticket!Tickets : Len(messages'[u]) <= MaxMessages
    BY <2>1 DEF TicketInv
  <2> QED BY <1>11, <1>16, <2>1, <2>2, <2>3
<1>21. ASSUME Ticket!Tick PROVE TicketInv'
  <2>1. UNCHANGED <<messages, ticketCall>>
        /\ ticket' = [t \in Ticket!Tickets |->
              IF ticket[t].status = "none" THEN ticket[t]
              ELSE [ticket[t] EXCEPT !.updated = Ticket!Older(@),
                    !.quiet = Ticket!Older(@)]]
    BY <1>21 DEF Ticket!Tick
  <2>2. \A n \in TicketAges : Ticket!Older(n) \in TicketAges
    BY TicketAge
  <2>3. \A t \in Ticket!Tickets :
           /\ ticket'[t] \in TicketRow /\ ticket'[t].status = ticket[t].status
           /\ ticket'[t].replied = ticket[t].replied
    BY <1>0, <2>1, <2>2 DEF TicketRow
  <2>4. TicketTypes'
    BY <1>0, <2>1, <2>3 DEF TicketTypes
  <2>5. Ticket!AnsweredIsInProgress'
    BY <2>3 DEF Ticket!AnsweredIsInProgress, TicketInv
  <2>6. \A t \in Ticket!Tickets : /\ Len(messages'[t]) <= MaxMessages
                                  /\ ticket'[t].status = "none"
                                       => messages'[t] = <<>>
    BY <2>1, <2>3 DEF TicketInv
  <2>7. \A c \in Calls : ticketCall'[c] = ticketCall[c]
    BY <2>1
  <2>8. \A c \in Calls :
          ticketCall'[c].step \in {"joining", "talking"} =>
             /\ ticketCall'[c].ticket \in Ticket!Tickets
             /\ ticket'[ticketCall'[c].ticket].status # "none"
             /\ (IF ticketCall'[c].step = "joining"
                 THEN ticketCall'[c].status = "in_progress"
                 ELSE ticketCall'[c].role = "support")
                   => Attended(ticketCall[c].ticket)'
    <3>1. \A t \in Ticket!Tickets : Attended(t) => Attended(t)'
      BY <2>3 DEF Attended
    <3>2. \A c \in Calls : Attended(ticketCall[c].ticket)' <=>
             ticket'[ticketCall[c].ticket].status \in {"in_progress", "closed"}
      BY <2>1 DEF Attended
    <3> QED BY <2>3, <2>7, <3>1, <3>2 DEF TicketInv, Attended
  <2> QED BY <2>4, <2>5, <2>6, <2>8 DEF TicketInv
<1>22. CASE UNCHANGED Ticket!vars
  BY <1>0, <1>11, <1>22 DEF Ticket!vars, TicketInv
<1>23. ASSUME NEW c \in Calls, Ticket!SocketFlag(c) PROVE TicketInv'
  <2>1. ticketCall[c].ticket \in Ticket!Tickets
    BY <1>23 DEF Ticket!SocketFlag, TicketInv
  <2> QED BY <1>19, <1>23, <2>1
<1> QED BY <1>3, <1>4, <1>5, <1>6, <1>7, <1>8, <1>9, <1>12, <1>14, <1>15,
           <1>17, <1>19, <1>20, <1>21, <1>22, <1>23 DEF Ticket!Next

(* What a step does to the row of one ticket.                              *)
RowOpened(t) ==
    /\ ticket[t].status = "none" /\ ticket'[t].status = "open"
    /\ ticket'[t].updated = 0 /\ ticket'[t].quiet = 0
    /\ ~ticket'[t].quick => \E c \in Calls : Ticket!Open(c, t)
    /\ ticket'[t].quick => ticket'[t].chatted
RowJoined(t) == \E c \in Calls :
    /\ ticketCall[c].step = "joining" /\ ticketCall[c].ticket = t
    /\ ticketCall[c].status # "in_progress"
    /\ ticketCall'[c].step = "talking" /\ ticket'[t].chatted
RowAnswered(t) ==
    /\ ticket[t].status \in Ticket!Active /\ ticket'[t].status \in Ticket!Active
    /\ ticket'[t].updated = 0 /\ ticket'[t].quiet = 0
    /\ ticket'[t].chatted = ticket[t].chatted
    /\ \/ ticket'[t].status = "in_progress" /\ ticket'[t].replied
       \/ ticket'[t].status = ticket[t].status
          /\ ticket'[t].replied = ticket[t].replied
RowClosed(t) ==
    /\ ticket'[t].status = "closed" /\ ticket'[t].updated = 0
    /\ ticket'[t].quiet = ticket[t].quiet
RowSent(t) == ticket'[t].status = ticket[t].status /\ ticket'[t].chatted
RowOlder(t) ==
    /\ ticket'[t].status = ticket[t].status
    /\ ticket'[t].replied = ticket[t].replied
    /\ ticket'[t].chatted = ticket[t].chatted
    /\ ticket'[t].updated = Ticket!Older(ticket[t].updated)
    /\ ticket'[t].quiet = Ticket!Older(ticket[t].quiet)
RowStep(t) ==
    \/ ticket'[t] = ticket[t]
    \/ RowOpened(t)
    \/ /\ ticket'[t].customer = ticket[t].customer
       /\ ticket'[t].quick = ticket[t].quick
       /\ \/ RowJoined(t) \/ RowAnswered(t) \/ RowClosed(t) \/ RowSent(t)
          \/ RowOlder(t)

LEMMA TicketRowStep ==
  ASSUME Ticket!TicketAssumption, TicketInv, [Ticket!Next]_Ticket!vars,
         NEW t \in Ticket!Tickets
  PROVE  RowStep(t)
<1>0. /\ ticket \in [Ticket!Tickets -> TicketRow]
      /\ ticketCall \in [Calls -> TicketCall]
      /\ \A c \in Calls : ticketCall[c].step \in {"joining", "talking"}
            => ticketCall[c].ticket \in Ticket!Tickets
  BY DEF TicketInv, TicketTypes
<1>1. CASE UNCHANGED ticket
  BY <1>1 DEF RowStep
<1>2. ASSUME NEW c \in Calls, NEW u \in Ticket!Tickets, Ticket!Open(c, u)
      PROVE  RowStep(t)
  BY <1>0, <1>2
     DEF Ticket!Open, Ticket!Fresh, Ticket!Row, RowStep, RowOpened
<1>3. ASSUME NEW c \in Calls, NEW u \in Ticket!Tickets,
             Ticket!SocketOpen(c, u)
      PROVE  RowStep(t)
  BY <1>0, <1>3
     DEF Ticket!SocketOpen, Ticket!Fresh, Ticket!Row, RowStep, RowOpened
<1>4. ASSUME NEW c \in Calls, Ticket!SocketJoin(c) PROVE RowStep(t)
  <2> DEFINE u == ticketCall[c].ticket
             rec == [ticket[u] EXCEPT !.status = "in_progress",
                                      !.updated = 0, !.chatted = TRUE]
  <2>1. /\ ticketCall[c].step = "joining" /\ u \in Ticket!Tickets
        /\ \/ UNCHANGED ticket
           \/ /\ ticketCall[c].status # "in_progress"
              /\ ticket' = [ticket EXCEPT ![u] = rec]
    BY <1>0, <1>4 DEF Ticket!SocketJoin
  <2>2. /\ rec.customer = ticket[u].customer /\ rec.quick = ticket[u].quick
        /\ rec.chatted
    BY <1>0, <2>1 DEF TicketRow
  <2>3. ticketCall'[c].step = "talking"
    BY <1>0, <1>4, TicketConstants
       DEF Ticket!SocketJoin, Ticket!Talk, TicketCall
  <2> HIDE DEF rec
  <2>4. CASE UNCHANGED ticket
    BY <2>4 DEF RowStep
  <2>5. CASE ticket' = [ticket EXCEPT ![u] = rec]
               /\ ticketCall[c].status # "in_progress"
    BY <1>0, <2>1, <2>2, <2>3, <2>5 DEF RowStep, RowJoined
  <2> QED BY <2>1, <2>4, <2>5
<1>5. ASSUME NEW c \in Calls, Ticket!SocketSend(c) PROVE RowStep(t)
  <2> DEFINE u == ticketCall[c].ticket
             said == ticket[u].replied \/ ticketCall[c].role = "support"
             rec == [ticket[u] EXCEPT !.quiet = 0, !.chatted = TRUE,
                                      !.replied = said]
  <2>1. u \in Ticket!Tickets /\ ticket' = [ticket EXCEPT ![u] = rec]
    BY <1>0, <1>5 DEF Ticket!SocketSend, TicketRow
  <2> HIDE DEF said
  <2>2. /\ rec.customer = ticket[u].customer /\ rec.quick = ticket[u].quick
        /\ rec.status = ticket[u].status /\ rec.chatted
    BY <1>0, <2>1 DEF TicketRow
  <2> HIDE DEF rec
  <2> QED BY <1>0, <2>1, <2>2 DEF RowStep, RowSent
<1>6. ASSUME NEW u \in Ticket!Tickets, NEW r \in Ticket!Roles,
             Ticket!TicketThread(u, r)
      PROVE  RowStep(t)
  <2> DEFINE phase == IF r = "support" THEN "in_progress"
                      ELSE ticket[u].status
             said == ticket[u].replied \/ r = "support"
             rec == [ticket[u] EXCEPT !.status = phase, !.updated = 0,
                                      !.quiet = 0, !.replied = said]
  <2>1. /\ ticket[u].status \in Ticket!Active
        /\ ticket' = [ticket EXCEPT ![u] = rec]
    BY <1>0, <1>6 DEF Ticket!TicketThread, TicketRow
  <2>2. /\ phase \in Ticket!Active
        /\ \/ phase = "in_progress" /\ said
           \/ phase = ticket[u].status /\ said = ticket[u].replied
    BY <1>0, <2>1 DEF Ticket!Active, TicketRow
  <2> HIDE DEF said, phase
  <2>3. /\ rec.customer = ticket[u].customer /\ rec.quick = ticket[u].quick
        /\ rec.chatted = ticket[u].chatted /\ rec.status = phase
        /\ rec.updated = 0 /\ rec.quiet = 0 /\ rec.replied = said
    BY <1>0 DEF TicketRow
  <2> HIDE DEF rec
  <2> QED BY <1>0, <2>1, <2>2, <2>3 DEF RowStep, RowAnswered
<1>7. ASSUME NEW u \in Ticket!Tickets, Ticket!Closed(u) PROVE RowStep(t)
  <2> DEFINE rec == [ticket[u] EXCEPT !.status = "closed", !.updated = 0]
  <2>1. ticket' = [ticket EXCEPT ![u] = rec]
    BY <1>0, <1>7 DEF Ticket!Closed
  <2>2. /\ rec.customer = ticket[u].customer /\ rec.quick = ticket[u].quick
        /\ rec.status = "closed" /\ rec.updated = 0
        /\ rec.quiet = ticket[u].quiet
    BY <1>0 DEF TicketRow
  <2> HIDE DEF rec
  <2> QED BY <1>0, <2>1, <2>2 DEF RowStep, RowClosed
<1>8. ASSUME Ticket!Tick PROVE RowStep(t)
  <2> DEFINE young == Ticket!Older(ticket[t].updated)
             still == Ticket!Older(ticket[t].quiet)
             rec == [ticket[t] EXCEPT !.updated = young, !.quiet = still]
  <2>1. ticket'[t] = ticket[t] \/ ticket'[t] = rec
    BY <1>0, <1>8 DEF Ticket!Tick, TicketRow
  <2> HIDE DEF young, still
  <2>2. /\ rec.customer = ticket[t].customer /\ rec.quick = ticket[t].quick
        /\ rec.status = ticket[t].status /\ rec.chatted = ticket[t].chatted
        /\ rec.replied = ticket[t].replied
        /\ rec.updated = young /\ rec.quiet = still
    BY <1>0 DEF TicketRow
  <2> HIDE DEF rec
  <2> QED BY <2>1, <2>2 DEF RowStep, RowOlder, young, still
<1>9. CASE \E c \in Calls :
              \/ \E cus \in Customers : Ticket!Check(c, cus)
                   \/ Ticket!SocketCustomer(c, cus)
              \/ \E a \in Agents : Ticket!Pick(c, a)
              \/ \E u \in Ticket!Tickets : Ticket!SocketAgent(c, u)
              \/ Ticket!Abandon(c) \/ Ticket!SocketFlag(c)
              \/ Ticket!SocketClose(c)
  BY <1>1, <1>9
     DEF Ticket!Check, Ticket!SocketCustomer, Ticket!Pick, Ticket!Abandon,
         Ticket!SocketAgent, Ticket!SocketFlag, Ticket!SocketClose
<1>10. CASE \E u \in Ticket!Tickets :
              \/ Ticket!MarkAsResolved(u) \/ Ticket!CloseTicket(u)
              \/ \E r \in Ticket!Roles : \/ Ticket!View(u, r)
                                         \/ Ticket!ClearConversation(u, r)
                                         \/ Ticket!Conversations(u, r)
              \/ \E i \in 1..MaxMessages : Ticket!RemoveMessage(u, i)
  BY <1>1, <1>7, <1>10
     DEF Ticket!MarkAsResolved, Ticket!CloseTicket, Ticket!View,
         Ticket!ClearConversation, Ticket!Conversations, Ticket!RemoveMessage
<1> QED BY <1>1, <1>2, <1>3, <1>4, <1>5, <1>6, <1>8, <1>9, <1>10
           DEF Ticket!Next, Ticket!vars

(* A ticket that no socket has touched is in progress because it was       *)
(* answered, and its updated_at is that of the last message or later.      *)
TicketQuietInv == \A t \in Ticket!Tickets : ~ticket[t].chatted =>
    /\ ticket[t].status = "in_progress" => ticket[t].replied
    /\ ticket[t].updated <= ticket[t].quiet

LEMMA TicketQuietInit ==
  ASSUME Ticket!TicketAssumption
  PROVE  Ticket!Init => TicketQuietInv
<1>1. Ticket!NoRow.updated <= Ticket!NoRow.quiet
      /\ Ticket!NoRow.status = "none"
  BY DEF Ticket!NoRow, Ticket!Row
<1> QED BY <1>1 DEF Ticket!Init, TicketQuietInv

LEMMA TicketQuietStep ==
  ASSUME Ticket!TicketAssumption
  PROVE  TicketInv /\ TicketQuietInv /\ [Ticket!Next]_Ticket!vars
            => TicketQuietInv'
<1> SUFFICES ASSUME TicketInv, TicketQuietInv, [Ticket!Next]_Ticket!vars,
                    NEW t \in Ticket!Tickets, ~ticket'[t].chatted
             PROVE  /\ ticket'[t].status = "in_progress" => ticket'[t].replied
                    /\ ticket'[t].updated <= ticket'[t].quiet
  BY DEF TicketQuietInv
<1>1. RowStep(t)
  BY TicketRowStep
<1>2. /\ ticket[t] \in TicketRow
      /\ ticket[t].updated \in TicketAges /\ ticket[t].quiet \in TicketAges
  BY DEF TicketInv, TicketTypes, TicketRow
<1>3. CASE ticket'[t] = ticket[t]
  BY <1>3 DEF TicketQuietInv
<1>4. CASE RowOpened(t)
  BY <1>4 DEF RowOpened
<1>5. CASE RowAnswered(t)
  BY <1>5 DEF RowAnswered, TicketQuietInv
<1>6. CASE RowClosed(t)
  BY <1>2, <1>6 DEF RowClosed, TicketAges
<1>7. CASE RowOlder(t)
  <2>1. ticket[t].updated <= ticket[t].quiet
    BY <1>7 DEF RowOlder, TicketQuietInv
  <2> QED BY <1>2, <1>7, <2>1, TicketAge DEF RowOlder, TicketQuietInv
<1> QED BY <1>1, <1>3, <1>4, <1>5, <1>6, <1>7 DEF RowStep, RowJoined, RowSent

LEMMA TicketQuietClose ==
  TicketInv /\ TicketQuietInv => Ticket!PlainCloseQuietly
<1> SUFFICES ASSUME TicketInv, TicketQuietInv, NEW t \in Ticket!Tickets,
                    Ticket!Closable(t), ~ticket[t].chatted
             PROVE  ticket[t].replied /\ ticket[t].quiet = 2
  BY DEF Ticket!PlainCloseQuietly
<1>1. ticket[t].quiet \in 0..2 /\ ticket[t].updated <= ticket[t].quiet
  BY DEF TicketQuietInv, TicketInv, TicketTypes, TicketRow, TicketAges
<1> QED BY <1>1 DEF Ticket!Closable, TicketQuietInv

(* The socket of an agent read his ticket while it was active.             *)
TicketJoinInv == \A c \in Calls : ticketCall[c].step = "joining"
    => ticketCall[c].status \in Ticket!Active

LEMMA TicketJoinStep ==
  ASSUME Ticket!TicketAssumption
  PROVE  TicketInv /\ TicketJoinInv /\ [Ticket!Next]_Ticket!vars
            => TicketJoinInv'
<1> SUFFICES ASSUME TicketInv, TicketJoinInv, [Ticket!Next]_Ticket!vars
             PROVE  TicketJoinInv'
  OBVIOUS
<1>0. ticketCall \in [Calls -> TicketCall]
  BY DEF TicketInv, TicketTypes
<1>1. Ticket!Idle \in TicketCall /\ Ticket!Idle.step = "idle"
  BY TicketConstants
<1>2. ASSUME NEW c \in Calls, NEW k,
             ticketCall' = [ticketCall EXCEPT ![c] = k],
             k.step = "joining" => k.status \in Ticket!Active
      PROVE  TicketJoinInv'
  BY <1>0, <1>2 DEF TicketJoinInv
<1>3. CASE UNCHANGED ticketCall
  BY <1>3 DEF TicketJoinInv
<1>5. ASSUME NEW c \in Calls, NEW t, NEW r, Ticket!Talk(c, t, r)
      PROVE  TicketJoinInv'
  <2> DEFINE k == [Ticket!Idle EXCEPT !.step = "talking", !.ticket = t,
                                      !.role = r]
  <2>1. k.step = "talking" /\ ticketCall' = [ticketCall EXCEPT ![c] = k]
    BY <1>1, <1>5 DEF Ticket!Talk, TicketCall
  <2> HIDE DEF k
  <2> QED BY <1>2, <2>1
<1>6. ASSUME NEW c \in Calls, Ticket!Done(c) PROVE TicketJoinInv'
  BY <1>1, <1>2, <1>6 DEF Ticket!Done
<1>7. ASSUME NEW c \in Calls, NEW cus \in Customers, Ticket!Check(c, cus)
      PROVE  TicketJoinInv'
  <2> DEFINE k == [Ticket!Idle EXCEPT !.step = "checked", !.customer = cus]
  <2>1. k.step = "checked" /\ ticketCall' = [ticketCall EXCEPT ![c] = k]
    BY <1>1, <1>7 DEF Ticket!Check, TicketCall
  <2> HIDE DEF k
  <2> QED BY <1>2, <2>1
<1>8. ASSUME NEW c \in Calls, NEW cus \in Customers,
             Ticket!SocketCustomer(c, cus)
      PROVE  TicketJoinInv'
  <2>1. CASE \E t \in Ticket!Tickets : Ticket!Talk(c, t, "customer")
    BY <1>5, <2>1
  <2>2. ASSUME NEW a \in Agents, ticketCall' = [ticketCall EXCEPT ![c] =
                 [Ticket!Idle EXCEPT !.step = "quick", !.customer = cus,
                                     !.agent = a]]
        PROVE  TicketJoinInv'
    <3> DEFINE k == [Ticket!Idle EXCEPT !.step = "quick", !.customer = cus,
                                        !.agent = a]
    <3>1. k.step = "quick" /\ ticketCall' = [ticketCall EXCEPT ![c] = k]
      BY <1>1, <2>2 DEF TicketCall
    <3> HIDE DEF k
    <3> QED BY <1>2, <3>1
  <2> QED BY <1>8, <2>1, <2>2 DEF Ticket!SocketCustomer, Ticket!Least
<1>9. ASSUME NEW c \in Calls, NEW a \in Agents, Ticket!Pick(c, a)
      PROVE  TicketJoinInv'
  <2> DEFINE k == [ticketCall[c] EXCEPT !.step = "picked", !.agent = a]
  <2>1. k.step = "picked" /\ ticketCall' = [ticketCall EXCEPT ![c] = k]
    BY <1>0, <1>9 DEF Ticket!Pick, TicketCall
  <2> HIDE DEF k
  <2> QED BY <1>2, <2>1
<1>10. ASSUME NEW c \in Calls, NEW t \in Ticket!Tickets,
              Ticket!SocketAgent(c, t)
       PROVE  TicketJoinInv'
  <2> DEFINE k == [Ticket!Idle EXCEPT !.step = "joining", !.ticket = t,
                                      !.status = ticket[t].status]
  <2>1. k.status \in Ticket!Active
    BY <1>1, <1>10 DEF Ticket!SocketAgent, Ticket!Recent, TicketCall
  <2>2. ticketCall' = [ticketCall EXCEPT ![c] = k]
    BY <1>10 DEF Ticket!SocketAgent
  <2> HIDE DEF k
  <2> QED BY <1>2, <2>1, <2>2
<1>11. CASE \E c \in Calls :
              \/ \E t \in Ticket!Tickets : Ticket!Open(c, t)
                                              \/ Ticket!SocketOpen(c, t)
              \/ Ticket!Abandon(c) \/ Ticket!SocketJoin(c)
              \/ Ticket!SocketSend(c) \/ Ticket!SocketFlag(c)
              \/ Ticket!SocketClose(c)
  BY <1>3, <1>5, <1>6, <1>11
     DEF Ticket!Open, Ticket!SocketOpen, Ticket!Abandon, Ticket!SocketJoin,
         Ticket!SocketSend, Ticket!SocketFlag, Ticket!SocketClose
<1>12. CASE \E t \in Ticket!Tickets :
              \/ Ticket!MarkAsResolved(t) \/ Ticket!CloseTicket(t)
              \/ \E r \in Ticket!Roles : \/ Ticket!TicketThread(t, r)
                                         \/ Ticket!View(t, r)
                                         \/ Ticket!ClearConversation(t, r)
                                         \/ Ticket!Conversations(t, r)
              \/ \E i \in 1..MaxMessages : Ticket!RemoveMessage(t, i)
  BY <1>3, <1>12
     DEF Ticket!MarkAsResolved, Ticket!CloseTicket, Ticket!TicketThread,
         Ticket!View, Ticket!ClearConversation, Ticket!Conversations,
         Ticket!RemoveMessage
<1> QED BY <1>3, <1>7, <1>8, <1>9, <1>10, <1>11, <1>12
           DEF Ticket!Next, Ticket!Tick, Ticket!vars

LEMMA TicketReopens ==
  ASSUME Ticket!TicketAssumption
  PROVE  TicketInv /\ TicketJoinInv /\ [Ticket!Next]_Ticket!vars =>
    [\A t \in Ticket!Tickets :
       /\ ticket[t].status = "closed"
       /\ ticket'[t].status # "closed"
       => \E c \in Calls : /\ ticketCall[c].step = "joining"
                           /\ ticketCall[c].ticket = t
                           /\ ticketCall[c].status = "open"
                           /\ ticketCall'[c].step = "talking"]_Ticket!vars
<1> SUFFICES ASSUME TicketInv, TicketJoinInv, [Ticket!Next]_Ticket!vars,
                    NEW t \in Ticket!Tickets, ticket[t].status = "closed",
                    ticket'[t].status # "closed"
             PROVE  \E c \in Calls : /\ ticketCall[c].step = "joining"
                                     /\ ticketCall[c].ticket = t
                                     /\ ticketCall[c].status = "open"
                                     /\ ticketCall'[c].step = "talking"
  OBVIOUS
<1>1. RowStep(t)
  BY TicketRowStep
<1>2. RowJoined(t)
  BY <1>1
     DEF RowStep, RowOpened, RowAnswered, RowClosed, RowSent, RowOlder,
         Ticket!Active
<1> QED BY <1>2 DEF RowJoined, TicketJoinInv, Ticket!Active

(* A message that changes is marked as delivered or seen, or its ticket is *)
(* closed by then.                                                         *)
LEMMA TicketRemoves ==
  ASSUME Ticket!TicketAssumption
  PROVE  TicketInv /\ [Ticket!Next]_Ticket!vars =>
    [\A t \in Ticket!Tickets : \A i \in DOMAIN messages[t] :
       /\ messages'[t][i] # messages[t][i]
       /\ messages'[t][i] \in {Ticket!Hidden(messages[t][i], r) :
                                  r \in Ticket!Roles}
       => ticket'[t].status = "closed"]_Ticket!vars
<1> SUFFICES ASSUME TicketInv, [Ticket!Next]_Ticket!vars,
                    NEW t \in Ticket!Tickets, NEW i \in DOMAIN messages[t],
                    messages'[t][i] # messages[t][i],
                    NEW q \in Ticket!Roles,
                    messages'[t][i] = Ticket!Hidden(messages[t][i], q)
             PROVE  ticket'[t].status = "closed"
  OBVIOUS
<1>0. /\ ticket \in [Ticket!Tickets -> TicketRow] /\ TicketTypes
      /\ messages \in [Ticket!Tickets -> Seq(MessageRow)]
      /\ \A c \in Calls : ticketCall[c].step \in {"joining", "talking"}
            => ticketCall[c].ticket \in Ticket!Tickets
      /\ ticketCall \in [Calls -> TicketCall]
  BY DEF TicketInv, TicketTypes
<1>1. messages[t][i] \in MessageRow
  BY <1>0, ElementOfSeq, LenProperties
<1>2. /\ messages'[t][i].seen = messages[t][i].seen
      /\ messages'[t][i].delivered = messages[t][i].delivered
  BY <1>1, TicketHides
\* So it was not marked.
<1>3. ASSUME messages'[t][i] = [messages[t][i] EXCEPT !.seen = TRUE]
      PROVE  FALSE
  BY <1>1, <1>2, <1>3 DEF MessageRow
<1>4. ASSUME messages'[t][i] = [messages[t][i] EXCEPT !.delivered = TRUE]
      PROVE  FALSE
  BY <1>1, <1>2, <1>4 DEF MessageRow
<1>5. ASSUME messages'[t][i] = [messages[t][i] EXCEPT !.seen = TRUE,
                                                      !.delivered = TRUE]
      PROVE  FALSE
  BY <1>1, <1>2, <1>5 DEF MessageRow
<1>6. ~UNCHANGED messages
  OBVIOUS
<1>7. ASSUME NEW u \in Ticket!Tickets, NEW r \in Ticket!Roles,
             Ticket!Sent(u, r)
      PROVE  FALSE
  BY <1>0, <1>7, TicketSends
<1>8. ASSUME NEW u \in Ticket!Tickets, NEW j \in DOMAIN messages[u], NEW m,
             messages' = [messages EXCEPT ![u][j] = m]
      PROVE  u = t /\ j = i /\ messages'[t][i] = m
  <2>1. u = t
    BY <1>0, <1>8
  <2>2. messages'[t] = [messages[t] EXCEPT ![j] = m]
    BY <1>0, <1>8, <2>1
  <2> QED BY <2>1, <2>2
<1>9. ASSUME NEW u \in Ticket!Tickets, NEW r \in Ticket!Roles,
             Ticket!View(u, r)
      PROVE  FALSE
  <2>1. messages' = [messages EXCEPT ![u] = [j \in DOMAIN messages[u] |->
            IF j \in Ticket!Unseen(u, r)
               THEN [messages[u][j] EXCEPT !.seen = TRUE, !.delivered = TRUE]
               ELSE messages[u][j]]]
    BY <1>9 DEF Ticket!View
  <2>2. u = t
    BY <1>0, <2>1
  <2>3. messages'[t] = [j \in DOMAIN messages[t] |->
            IF j \in Ticket!Unseen(t, r)
               THEN [messages[t][j] EXCEPT !.seen = TRUE, !.delivered = TRUE]
               ELSE messages[t][j]]
    BY <1>0, <2>1, <2>2
  <2> QED BY <1>5, <2>3
<1>10. ASSUME NEW u \in Ticket!Tickets, NEW r \in Ticket!Roles,
              Ticket!Conversations(u, r)
       PROVE  FALSE
  <2>1. PICK j \in DOMAIN messages[u] :
           messages' = [messages EXCEPT ![u][j] =
                          [messages[u][j] EXCEPT !.delivered = TRUE]]
    BY <1>0, <1>10 DEF Ticket!Conversations
  <2> QED BY <1>4, <1>8, <2>1
<1>11. ASSUME NEW c \in Calls, Ticket!SocketFlag(c) PROVE FALSE
  <2> DEFINE u == ticketCall[c].ticket
  <2>1. u \in Ticket!Tickets
    BY <1>0, <1>11 DEF Ticket!SocketFlag
  <2>2. PICK j \in DOMAIN messages[u] :
           \/ messages' = [messages EXCEPT ![u][j] =
                             [messages[u][j] EXCEPT !.delivered = TRUE]]
           \/ messages' = [messages EXCEPT ![u][j] =
                             [messages[u][j] EXCEPT !.seen = TRUE]]
    BY <1>0, <1>11 DEF Ticket!SocketFlag
  <2>3. ASSUME messages' = [messages EXCEPT ![u][j] =
                              [messages[u][j] EXCEPT !.delivered = TRUE]]
        PROVE  FALSE
    BY <1>4, <1>8, <2>1, <2>2, <2>3
  <2>4. ASSUME messages' = [messages EXCEPT ![u][j] =
                              [messages[u][j] EXCEPT !.seen = TRUE]]
        PROVE  FALSE
    BY <1>3, <1>8, <2>1, <2>2, <2>4
  <2> QED BY <2>2, <2>3, <2>4
<1>12. ASSUME NEW u \in Ticket!Tickets, NEW j, Ticket!RemoveMessage(u, j)
       PROVE  ticket'[t].status = "closed"
  <2>1. /\ ticket[u].status = "closed" /\ UNCHANGED ticket
        /\ j \in DOMAIN messages[u]
        /\ messages' = [messages EXCEPT ![u][j] =
                          Ticket!Hidden(messages[u][j], "customer")]
    BY <1>0, <1>12 DEF Ticket!RemoveMessage
  <2> QED BY <1>8, <2>1
<1>13. ASSUME NEW u \in Ticket!Tickets, NEW r \in Ticket!Roles,
              Ticket!ClearConversation(u, r)
       PROVE  ticket'[t].status = "closed"
  <2>1. u = t
    BY <1>0, <1>13 DEF Ticket!ClearConversation
  <2>2. \/ ticket[t].status = "closed" /\ UNCHANGED ticket
        \/ Ticket!Closed(t)
    BY <1>13, <2>1 DEF Ticket!ClearConversation
  <2> QED BY <1>0, <2>2 DEF Ticket!Closed, TicketRow
<1>14. ~ \E c \in Calls :
              \/ \E cus \in Customers : Ticket!Check(c, cus)
                   \/ Ticket!SocketCustomer(c, cus)
              \/ \E a \in Agents : Ticket!Pick(c, a)
              \/ \E u \in Ticket!Tickets : \/ Ticket!SocketOpen(c, u)
                                           \/ Ticket!SocketAgent(c, u)
              \/ Ticket!Abandon(c) \/ Ticket!SocketJoin(c)
              \/ Ticket!SocketClose(c)
  BY <1>6
     DEF Ticket!Check, Ticket!SocketCustomer, Ticket!Pick, Ticket!Abandon,
         Ticket!SocketOpen, Ticket!SocketAgent, Ticket!SocketJoin,
         Ticket!SocketClose
<1>15. ~ \E c \in Calls : \/ \E u \in Ticket!Tickets : Ticket!Open(c, u)
                          \/ Ticket!SocketSend(c)
  <2>1. ~ \E c \in Calls, u \in Ticket!Tickets : Ticket!Open(c, u)
    BY <1>7 DEF Ticket!Open, Ticket!Roles
  <2>2. ASSUME NEW c \in Calls, Ticket!SocketSend(c) PROVE FALSE
    <3>0. ticketCall[c].step = "talking" /\ ticketCall[c] \in TicketCall
      BY <1>0, <2>2 DEF Ticket!SocketSend
    <3>1. /\ ticketCall[c].ticket \in Ticket!Tickets
          /\ ticketCall[c].role \in Ticket!Roles
      BY <3>0 DEF TicketInv, TicketCall
    <3>2. Ticket!Sent(ticketCall[c].ticket, ticketCall[c].role)
      BY <2>2 DEF Ticket!SocketSend
    <3> QED BY <1>7, <3>1, <3>2
  <2> QED BY <2>1, <2>2
<1>16. ~ \E u \in Ticket!Tickets :
            \/ Ticket!MarkAsResolved(u) \/ Ticket!CloseTicket(u)
            \/ \E r \in Ticket!Roles : Ticket!TicketThread(u, r)
  BY <1>6, <1>7
     DEF Ticket!MarkAsResolved, Ticket!CloseTicket, Ticket!TicketThread
<1> QED BY <1>6, <1>9, <1>10, <1>11, <1>12, <1>13, <1>14, <1>15, <1>16
           DEF Ticket!Next, Ticket!Tick, Ticket!vars

-----------------------------------------------------------------------------
(* One request at a time: between the look-up of text_support and its      *)
(* insert no other opens a ticket, and what an agent's socket reopens is   *)
(* as it was when it read it.                                              *)
Plainly(t) ==
    /\ ~ticket[t].quick
    /\ \/ ticket[t].status \in Ticket!Active
       \/ \E c \in Calls : /\ ticketCall[c].step = "joining"
                           /\ ticketCall[c].ticket = t
TicketOneInv ==
    /\ \A t, u \in Ticket!Tickets :
          /\ Plainly(t) /\ Plainly(u)
          /\ ticket[t].customer = ticket[u].customer
          => t = u
    /\ \A c \in Calls : ticketCall[c].step \in {"checked", "picked"} =>
          \A t \in Ticket!Tickets : ticket[t].customer = ticketCall[c].customer
                                => ~Plainly(t)

\* The invariant says it of any two tickets, the property of their number.
LEMMA TicketOne ==
  ASSUME TicketOneInv
  PROVE  Ticket!OnePlain
<1> DEFINE mine(cus) == {t \in Ticket!ActiveOf(cus) : ~ticket[t].quick}
<1> SUFFICES ASSUME NEW cus \in Customers
             PROVE  Cardinality(mine(cus)) <= 1
  BY DEF Ticket!OnePlain
<1>1. CASE mine(cus) = {}
  BY <1>1, FS_EmptySet
<1>2. CASE mine(cus) # {}
  <2>1. PICK t \in mine(cus) : TRUE
    BY <1>2
  <2>2. mine(cus) = {t}
    BY <2>1 DEF Ticket!ActiveOf, TicketOneInv, Plainly
  <2> HIDE DEF mine
  <2>3. Cardinality(mine(cus)) = 1
    BY <2>2, FS_Singleton
  <2> QED BY <2>3
<1> QED BY <1>1, <1>2

LEMMA TicketOneInit ==
  ASSUME Ticket!TicketAssumption
  PROVE  Ticket!Init => TicketOneInv
<1> SUFFICES ASSUME Ticket!Init PROVE TicketOneInv
  OBVIOUS
<1>1. \A t \in Ticket!Tickets : ticket[t].status \notin Ticket!Active
  BY TicketConstants DEF Ticket!Init, Ticket!Active
<1>2. \A c \in Calls : ticketCall[c].step = "idle"
  BY TicketConstants DEF Ticket!Init
<1> QED BY <1>1, <1>2 DEF TicketOneInv, Plainly

LEMMA TicketOneStep ==
  ASSUME Ticket!TicketAssumption, NEW c, Calls = {c}
  PROVE  TicketInv /\ TicketOneInv /\ [Ticket!Next]_Ticket!vars
            => TicketOneInv'
<1> SUFFICES ASSUME TicketInv, TicketOneInv, [Ticket!Next]_Ticket!vars
             PROVE  TicketOneInv'
  OBVIOUS
<1>0. /\ ticket \in [Ticket!Tickets -> TicketRow]
      /\ ticketCall \in [Calls -> TicketCall]
      /\ \A t \in Ticket!Tickets : RowStep(t)
  BY TicketRowStep DEF TicketInv, TicketTypes
<1>1. Ticket!Idle \in TicketCall /\ Ticket!Idle.step = "idle"
  BY TicketConstants
\* No ticket gets to count, and no look-up begins.
<1>2. ASSUME \A t \in Ticket!Tickets : Plainly(t)' =>
                Plainly(t) /\ ticket'[t].customer = ticket[t].customer,
             ticketCall'[c].step \in {"checked", "picked"} =>
                /\ ticketCall[c].step \in {"checked", "picked"}
                /\ ticketCall'[c].customer = ticketCall[c].customer
      PROVE  TicketOneInv'
  BY <1>2 DEF TicketOneInv
<1>3. ASSUME \A t \in Ticket!Tickets : ~Ticket!Open(c, t),
             NEW t \in Ticket!Tickets, Plainly(t)',
             \/ ticketCall'[c].step # "joining"
             \/ ticketCall'[c].ticket # t
             \/ ticketCall' = ticketCall
             \/ Plainly(t)
      PROVE  Plainly(t) /\ ticket'[t].customer = ticket[t].customer
  <2>1. /\ ticket'[t].customer = ticket[t].customer
        /\ ticket'[t].quick = ticket[t].quick
    BY <1>0, <1>3 DEF RowStep, RowOpened, Plainly
  <2>2. CASE ticket'[t].status \in Ticket!Active
    <3>1. ticket'[t].status \in Ticket!Active
            => ticket[t].status \in Ticket!Active \/ RowJoined(t)
      BY <1>0, <1>3
         DEF RowStep, RowOpened, RowAnswered, RowClosed, RowSent, RowOlder,
             Ticket!Active, Plainly
    <3> QED BY <1>3, <2>1, <2>2, <3>1 DEF Plainly, RowJoined
  <2>3. CASE ticket'[t].status \notin Ticket!Active
    BY <1>3, <2>1, <2>3 DEF Plainly
  <2> QED BY <2>1, <2>2, <2>3
<1>4. ASSUME ticketCall'[c].step \notin {"checked", "picked", "joining"},
             \A t \in Ticket!Tickets : ~Ticket!Open(c, t)
      PROVE  TicketOneInv'
  BY <1>2, <1>3, <1>4
<1>5. ASSUME NEW cus \in Customers, Ticket!Check(c, cus) PROVE TicketOneInv'
  <2> DEFINE k == [Ticket!Idle EXCEPT !.step = "checked", !.customer = cus]
  <2>1. k.customer = cus /\ k.step = "checked"
    BY <1>1 DEF TicketCall
  <2>2. /\ Ticket!ActiveOf(cus) = {} /\ UNCHANGED ticket
        /\ ticketCall[c].step = "idle"
        /\ ticketCall' = [ticketCall EXCEPT ![c] = k]
    BY <1>5 DEF Ticket!Check
  <2> HIDE DEF k
  <2>3. ticketCall'[c] = k
    BY <1>0, <2>2
  <2>4. \A t \in Ticket!Tickets : Plainly(t)' => Plainly(t)
          /\ ticket[t].status \in Ticket!Active
    BY <2>1, <2>2, <2>3 DEF Plainly
  <2> QED BY <2>1, <2>2, <2>3, <2>4 DEF TicketOneInv, Ticket!ActiveOf
<1>6. ASSUME NEW a \in Agents, Ticket!Pick(c, a) PROVE TicketOneInv'
  <2>1. /\ UNCHANGED ticket /\ ticketCall[c].step = "checked"
        /\ ticketCall' = [ticketCall EXCEPT ![c].step = "picked",
                          ![c].agent = a]
    BY <1>6 DEF Ticket!Pick
  <2>2. /\ ticketCall'[c].customer = ticketCall[c].customer
        /\ ticketCall'[c].step = "picked"
    BY <1>0, <2>1 DEF TicketCall
  <2>3. \A t \in Ticket!Tickets : Plainly(t)' => Plainly(t)
    BY <2>1, <2>2 DEF Plainly
  <2> QED BY <1>2, <2>1, <2>2, <2>3
<1>7. ASSUME NEW t \in Ticket!Tickets, Ticket!Open(c, t) PROVE TicketOneInv'
  <2> DEFINE rec ==
        Ticket!Row(ticketCall[c].customer, ticketCall[c].agent, FALSE)
  <2>1. /\ ticketCall[c].step = "picked"
        /\ ticket' = [ticket EXCEPT ![t] = rec]
        /\ ticketCall' = [ticketCall EXCEPT ![c] = Ticket!Idle]
    BY <1>7 DEF Ticket!Open, Ticket!Done
  <2>2. rec.customer = ticketCall[c].customer
    BY DEF Ticket!Row
  <2> HIDE DEF rec
  <2>3. ticketCall'[c].step = "idle"
    BY <1>0, <1>1, <2>1
  <2>4. /\ ticket'[t].customer = ticketCall[c].customer
        /\ \A u \in Ticket!Tickets : u # t => ticket'[u] = ticket[u]
    BY <1>0, <2>1, <2>2
  <2>5. \A u \in Ticket!Tickets : u # t /\ Plainly(u)' => Plainly(u)
    BY <2>1, <2>3, <2>4 DEF Plainly
  <2>6. \A u \in Ticket!Tickets : ticket[u].customer = ticketCall[c].customer
                              => ~Plainly(u)
    BY <2>1 DEF TicketOneInv
  <2> QED BY <2>3, <2>4, <2>5, <2>6 DEF TicketOneInv
<1>8. ASSUME NEW t \in Ticket!Tickets, Ticket!SocketAgent(c, t)
      PROVE  TicketOneInv'
  <2> DEFINE k == [Ticket!Idle EXCEPT !.step = "joining", !.ticket = t,
                                      !.status = ticket[t].status]
  <2>1. /\ ticket[t].status \in Ticket!Active /\ UNCHANGED ticket
        /\ ticketCall' = [ticketCall EXCEPT ![c] = k]
    BY <1>8 DEF Ticket!SocketAgent, Ticket!Recent
  <2>2. k.step = "joining" /\ k.ticket = t
    BY <1>1 DEF TicketCall
  <2> HIDE DEF k
  <2>3. ticketCall'[c] = k
    BY <1>0, <2>1
  <2>4. \A u \in Ticket!Tickets : Plainly(u)' => Plainly(u)
    BY <2>1, <2>2, <2>3 DEF Plainly
  <2> QED BY <1>2, <2>1, <2>2, <2>3, <2>4
\* The other steps of a request end with neither a look-up nor a reading.
<1>9. ASSUME \/ \E cus \in Customers : Ticket!SocketCustomer(c, cus)
             \/ \E t \in Ticket!Tickets : Ticket!SocketOpen(c, t)
             \/ Ticket!Abandon(c) \/ Ticket!SocketJoin(c)
             \/ Ticket!SocketSend(c) \/ Ticket!SocketFlag(c)
             \/ Ticket!SocketClose(c)
      PROVE  TicketOneInv'
  <2>1. ASSUME NEW t, NEW r, Ticket!Talk(c, t, r)
        PROVE  ticketCall'[c].step = "talking"
    BY <1>0, <1>1, <2>1 DEF Ticket!Talk, TicketCall
  <2>2. ASSUME NEW cus \in Customers, NEW a \in Agents,
               ticketCall' = [ticketCall EXCEPT ![c] =
                 [Ticket!Idle EXCEPT !.step = "quick", !.customer = cus,
                                     !.agent = a]]
        PROVE  ticketCall'[c].step = "quick"
    BY <1>0, <1>1, <2>2 DEF TicketCall
  <2>3. Ticket!Done(c) => ticketCall'[c].step = "idle"
    BY <1>0, <1>1 DEF Ticket!Done
  <2>4. ticketCall'[c].step \in {"idle", "talking", "quick"}
    BY <1>9, <2>1, <2>2, <2>3
       DEF Ticket!SocketCustomer, Ticket!SocketOpen, Ticket!Abandon,
           Ticket!SocketJoin, Ticket!SocketSend, Ticket!SocketFlag,
           Ticket!SocketClose, Ticket!Least
  <2>5. CASE \E t \in Ticket!Tickets : Ticket!Open(c, t)
    BY <1>7, <2>5
  <2> QED BY <1>4, <2>4, <2>5
<1>10. ASSUME UNCHANGED ticketCall PROVE TicketOneInv'
  <2>1. CASE \E t \in Ticket!Tickets : Ticket!Open(c, t)
    BY <1>7, <2>1
  <2>2. CASE \A t \in Ticket!Tickets : ~Ticket!Open(c, t)
    BY <1>2, <1>3, <1>10, <2>2
  <2> QED BY <2>1, <2>2
<1>11. CASE \E t \in Ticket!Tickets :
              \/ Ticket!MarkAsResolved(t) \/ Ticket!CloseTicket(t)
              \/ \E r \in Ticket!Roles : \/ Ticket!TicketThread(t, r)
                                         \/ Ticket!View(t, r)
                                         \/ Ticket!ClearConversation(t, r)
                                         \/ Ticket!Conversations(t, r)
              \/ \E i \in 1..MaxMessages : Ticket!RemoveMessage(t, i)
  BY <1>10, <1>11
     DEF Ticket!MarkAsResolved, Ticket!CloseTicket, Ticket!TicketThread,
         Ticket!View, Ticket!ClearConversation, Ticket!Conversations,
         Ticket!RemoveMessage
<1> QED BY <1>5, <1>6, <1>7, <1>8, <1>9, <1>10, <1>11
           DEF Ticket!Next, Ticket!Tick, Ticket!vars

-----------------------------------------------------------------------------
(***************************************************************************)
(* Delivery addresses and the orders they serve.                           *)
(***************************************************************************)
USE DEF Address!AddressAssumption

(* The shape of the state; TypeOK says the rest about it.                  *)
Served == DOMAIN UserOf
AddressCalls ==
    [step : {"idle", "choosing", "removing"}, order : Served \union {"none"},
     chosen : Address!Ids \union {0}, seen : SUBSET Served,
     late : SUBSET Served]
AddressShape ==
    /\ orderStatus \in [Served -> Address!Active \union Address!Finished]
    /\ hidden \subseteq Served
    /\ linked \in [Served -> Address!Ids \union {0}]
    /\ address \in [Address!Ids -> {"none", "delivery", "store", "deleted"}]
    /\ addressCall \in [Calls -> AddressCalls]
    /\ \A c \in Calls :
          /\ Address!Choosing(c) => addressCall[c].order \in Served
          /\ addressCall[c].step # "idle"
                => addressCall[c].chosen \in Address!Ids

(* The customer of whatever refers to an address, and the address: an      *)
(* order, or a request that is about to give the address to its order.     *)
AddressLinkedOwn == \A o \in Served : linked[o] # 0 =>
    /\ address[linked[o]] \in {"delivery", "deleted"}
    /\ \A p \in Served : linked[p] = linked[o] => UserOf[p] = UserOf[o]

AddressChosenOwn == \A c \in Calls : Address!Choosing(c) =>
    /\ \A p \in Served : linked[p] = addressCall[c].chosen
          => UserOf[p] = UserOf[addressCall[c].order]
    /\ \A d \in Calls : Address!Choosing(d)
         /\ addressCall[d].chosen = addressCall[c].chosen
          => UserOf[addressCall[d].order] = UserOf[addressCall[c].order]

(* A request's address is there, and no store's; a deletion saw the orders *)
(* that have it, but for those that came late.                             *)
AddressFound == \A c \in Calls : addressCall[c].step # "idle" =>
    /\ address[addressCall[c].chosen] \in {"delivery", "deleted"}
    /\ Address!Removing(c) => \A o \in Served :
         linked[o] = addressCall[c].chosen
            => o \in addressCall[c].seen \union addressCall[c].late

(* An order that is paid has an address.                                   *)
AddressPaidLinked == \A o \in Served :
    orderStatus[o] \in {"processing", "shipped", "delivered"}
       => linked[o] # 0

AddressInv == /\ AddressShape /\ AddressLinkedOwn /\ AddressChosenOwn
              /\ AddressFound /\ AddressPaidLinked

-----------------------------------------------------------------------------
LEMMA AddressIds ==
  ASSUME Address!AddressAssumption
  PROVE  /\ 0 \notin Address!Ids
         /\ Address!Idle \in AddressCalls /\ Address!Idle.step = "idle"
  BY DEF Address!Ids, Address!Idle, AddressCalls

LEMMA AddressInit ==
  ASSUME Address!AddressAssumption
  PROVE  Address!Init => AddressInv
<1> SUFFICES ASSUME Address!Init PROVE AddressInv
  OBVIOUS
<1>1. \A c \in Calls : addressCall[c].step = "idle"
  BY AddressIds DEF Address!Init
<1>2. AddressShape
  BY <1>1, AddressIds
     DEF Address!Init, AddressShape, Address!Choosing, Address!Active, Served
<1> QED BY <1>1, <1>2
           DEF Address!Init, AddressInv, AddressLinkedOwn, AddressChosenOwn,
               AddressFound, AddressPaidLinked, Address!Choosing, Served

LEMMA AddDeliveryKeeps ==
  ASSUME Address!AddressAssumption, AddressInv, NEW o \in Served,
         Address!AddDelivery(o)
  PROVE  AddressInv'
<1>1. PICK a \in Address!Ids : /\ address[a] = "none"
                               /\ address' = [address EXCEPT ![a] = "delivery"]
                               /\ linked' = [linked EXCEPT ![o] = a]
  BY DEF Address!AddDelivery, Address!Fresh
<1>2. UNCHANGED <<orderStatus, hidden, addressCall>>
  BY DEF Address!AddDelivery
<1>3. a # 0
  BY AddressIds
<1>4. \A p \in Served : linked[p] # a
  BY <1>1, <1>3 DEF AddressInv, AddressLinkedOwn, AddressShape
<1>5. \A c \in Calls : addressCall[c].step # "idle"
        => addressCall[c].chosen # a
  BY <1>1 DEF AddressInv, AddressFound
<1>6. /\ linked'[o] = a /\ address'[a] = "delivery"
      /\ \A p \in Served : p # o => linked'[p] = linked[p]
      /\ \A b \in Address!Ids : b # a => address'[b] = address[b]
  BY <1>1 DEF AddressInv, AddressShape
<1>7. AddressShape'
  BY <1>1, <1>2 DEF AddressInv, AddressShape, Address!Choosing
<1>8. AddressLinkedOwn'
  <2> SUFFICES ASSUME NEW p \in Served, linked'[p] # 0
               PROVE  /\ address'[linked'[p]] \in {"delivery", "deleted"}
                      /\ \A q \in Served :
                            linked'[q] = linked'[p] => UserOf[q] = UserOf[p]
    BY DEF AddressLinkedOwn
  <2>1. CASE p = o
    BY <2>1, <1>4, <1>6
  <2>2. CASE p # o
    BY <2>2, <1>4, <1>6 DEF AddressInv, AddressShape, AddressLinkedOwn
  <2> QED BY <2>1, <2>2
<1>9. AddressChosenOwn'
  BY <1>2, <1>5, <1>6
     DEF AddressInv, AddressShape, AddressChosenOwn, Address!Choosing
<1>10. AddressFound'
  BY <1>2, <1>5, <1>6
     DEF AddressInv, AddressShape, AddressFound, Address!Removing
<1>11. AddressPaidLinked'
  BY <1>2, <1>3, <1>6 DEF AddressInv, AddressPaidLinked
<1> QED BY <1>7, <1>8, <1>9, <1>10, <1>11 DEF AddressInv

LEMMA BeginChooseKeeps ==
  ASSUME Address!AddressAssumption, AddressInv, NEW c \in Calls,
         NEW o \in Served, NEW a \in Address!Ids,
         Address!BeginChoose(c, o, a)
  PROVE  AddressInv'
<1> DEFINE k == [Address!Idle EXCEPT !.step = "choosing", !.order = o,
                                     !.chosen = a]
<1>1. /\ addressCall' = [addressCall EXCEPT ![c] = k]
      /\ UNCHANGED <<orderStatus, hidden, linked, address>>
  BY DEF Address!BeginChoose
<1>2. PICK q \in Served : UserOf[q] = UserOf[o] /\ linked[q] = a
  BY DEF Address!BeginChoose, Address!Choosable, Address!Uses, Served
<1>3. /\ address[a] \in {"delivery", "deleted"}
      /\ \A p \in Served : linked[p] = a => UserOf[p] = UserOf[o]
  BY <1>2, AddressIds DEF AddressInv, AddressLinkedOwn
<1>4. \A d \in Calls : Address!Choosing(d) /\ addressCall[d].chosen = a
         => UserOf[addressCall[d].order] = UserOf[o]
  BY <1>2 DEF AddressInv, AddressChosenOwn
<1>5. k \in AddressCalls /\ k.step = "choosing" /\ k.order = o /\ k.chosen = a
  BY AddressIds DEF AddressCalls
<1> HIDE DEF k
<1>6. /\ addressCall'[c] = k /\ addressCall' \in [Calls -> AddressCalls]
      /\ \A d \in Calls : d # c => addressCall'[d] = addressCall[d]
  BY <1>1, <1>5 DEF AddressInv, AddressShape
<1>7. AddressShape'
  BY <1>1, <1>5, <1>6 DEF AddressInv, AddressShape, Address!Choosing
<1>8. AddressLinkedOwn' /\ AddressPaidLinked'
  BY <1>1 DEF AddressInv, AddressLinkedOwn, AddressPaidLinked
<1>9. AddressChosenOwn'
  BY <1>1, <1>3, <1>4, <1>5, <1>6
     DEF AddressInv, AddressChosenOwn, Address!Choosing
<1>10. AddressFound'
  BY <1>1, <1>3, <1>5, <1>6 DEF AddressInv, AddressFound, Address!Removing
<1> QED BY <1>7, <1>8, <1>9, <1>10 DEF AddressInv

LEMMA CommitChooseKeeps ==
  ASSUME Address!AddressAssumption, AddressInv, NEW c \in Calls,
         Address!CommitChoose(c)
  PROVE  AddressInv'
<1> DEFINE o == addressCall[c].order
           a == addressCall[c].chosen
           k(d) == [addressCall[d] EXCEPT !.late =
                       @ \union ({o} \ addressCall[d].seen)]
<1>1. /\ Address!Choosing(c) /\ o \in Served /\ a \in Address!Ids /\ a # 0
      /\ linked' = [linked EXCEPT ![o] = a]
      /\ addressCall' = [d \in Calls |->
            IF d = c THEN Address!Idle
            ELSE IF Address!Removing(d) /\ addressCall[d].chosen = a
                 THEN k(d) ELSE addressCall[d]]
      /\ UNCHANGED <<orderStatus, hidden, address>>
  BY AddressIds
     DEF Address!CommitChoose, AddressInv, AddressShape, Address!Choosing
<1>2. /\ address[a] \in {"delivery", "deleted"}
      /\ \A p \in Served : linked[p] = a => UserOf[p] = UserOf[o]
      /\ \A d \in Calls : Address!Choosing(d) /\ addressCall[d].chosen = a
            => UserOf[addressCall[d].order] = UserOf[o]
  BY <1>1 DEF AddressInv, AddressChosenOwn, AddressFound, Address!Choosing
<1>3. \A d \in Calls :
         /\ k(d) \in AddressCalls /\ k(d).step = addressCall[d].step
         /\ k(d).order = addressCall[d].order
         /\ k(d).chosen = addressCall[d].chosen
         /\ k(d).seen = addressCall[d].seen
         /\ k(d).late = addressCall[d].late
                          \union ({o} \ addressCall[d].seen)
  BY <1>1 DEF AddressInv, AddressShape, AddressCalls
<1> HIDE DEF o, a, k
<1>4. linked'[o] = a /\ \A p \in Served : p # o => linked'[p] = linked[p]
  BY <1>1 DEF AddressInv, AddressShape
<1>5. \A d \in Calls :
        /\ addressCall'[d] \in AddressCalls
        /\ addressCall'[d].step # "idle" =>
             /\ d # c
             /\ addressCall'[d].step = addressCall[d].step
             /\ addressCall'[d].order = addressCall[d].order
             /\ addressCall'[d].chosen = addressCall[d].chosen
             /\ addressCall'[d].seen = addressCall[d].seen
             /\ addressCall[d].late \subseteq addressCall'[d].late
             /\ Address!Removing(d) /\ addressCall[d].chosen = a
                   => o \in addressCall'[d].seen \union addressCall'[d].late
  <2> TAKE d \in Calls
  <2>1. addressCall[d] \in AddressCalls
    BY DEF AddressInv, AddressShape
  <2>2. \/ d = c /\ addressCall'[d] = Address!Idle
        \/ /\ d # c /\ Address!Removing(d) /\ addressCall[d].chosen = a
           /\ addressCall'[d] = k(d)
        \/ /\ d # c /\ ~(Address!Removing(d) /\ addressCall[d].chosen = a)
           /\ addressCall'[d] = addressCall[d]
    BY <1>1
  <2> QED BY <1>3, <2>1, <2>2, AddressIds
<1>6. AddressShape'
  <2>1. addressCall' \in [Calls -> AddressCalls]
    BY <1>1, <1>5
  <2>2. linked' \in [Served -> Address!Ids \union {0}]
    BY <1>1 DEF AddressInv, AddressShape
  <2> QED BY <1>1, <1>5, <2>1, <2>2 DEF AddressInv, AddressShape,
             Address!Choosing
<1>7. AddressLinkedOwn'
  <2> SUFFICES ASSUME NEW p \in Served, linked'[p] # 0
               PROVE  /\ address[linked'[p]] \in {"delivery", "deleted"}
                      /\ \A q \in Served :
                            linked'[q] = linked'[p] => UserOf[q] = UserOf[p]
    BY <1>1 DEF AddressLinkedOwn
  <2>1. CASE p = o
    BY <2>1, <1>1, <1>2, <1>4
  <2>2. CASE p # o
    <3>1. linked'[p] = linked[p]
      BY <2>2, <1>4
    <3>2. ASSUME NEW q \in Served, linked'[q] = linked'[p]
          PROVE  UserOf[q] = UserOf[p]
      <4>1. CASE q = o
        BY <4>1, <3>1, <3>2, <1>2, <1>4
      <4>2. CASE q # o
        BY <4>2, <3>1, <3>2, <1>4 DEF AddressInv, AddressLinkedOwn
      <4> QED BY <4>1, <4>2
    <3> QED BY <3>1, <3>2 DEF AddressInv, AddressLinkedOwn
  <2> QED BY <2>1, <2>2
<1>8. AddressChosenOwn'
  <2> SUFFICES ASSUME NEW d \in Calls, Address!Choosing(d)'
               PROVE  /\ \A p \in Served : linked'[p] = addressCall'[d].chosen
                            => UserOf[p] = UserOf[addressCall'[d].order]
                      /\ \A e \in Calls : Address!Choosing(e)'
                               /\ addressCall'[e].chosen
                                    = addressCall'[d].chosen
                            => UserOf[addressCall'[e].order]
                              = UserOf[addressCall'[d].order]
    BY DEF AddressChosenOwn
  <2>1. /\ Address!Choosing(d)
        /\ addressCall'[d].order = addressCall[d].order
        /\ addressCall'[d].chosen = addressCall[d].chosen
    BY <1>5 DEF Address!Choosing
  <2>2. ASSUME NEW p \in Served, linked'[p] = addressCall[d].chosen
        PROVE  UserOf[p] = UserOf[addressCall[d].order]
    <3>1. CASE p = o
      BY <3>1, <2>1, <2>2, <1>2, <1>4
    <3>2. CASE p # o
      BY <3>2, <2>1, <2>2, <1>4 DEF AddressInv, AddressChosenOwn
    <3> QED BY <3>1, <3>2
  <2>3. \A e \in Calls : Address!Choosing(e)'
          /\ addressCall'[e].chosen = addressCall'[d].chosen
            => UserOf[addressCall'[e].order] = UserOf[addressCall'[d].order]
    BY <2>1, <1>5 DEF AddressInv, AddressChosenOwn, Address!Choosing
  <2> QED BY <2>1, <2>2, <2>3
<1>9. AddressFound'
  <2> SUFFICES ASSUME NEW d \in Calls, addressCall'[d].step # "idle"
               PROVE  /\ address[addressCall'[d].chosen]
                           \in {"delivery", "deleted"}
                      /\ Address!Removing(d)' => \A p \in Served :
                           linked'[p] = addressCall'[d].chosen
                             => p \in addressCall'[d].seen
                                        \union addressCall'[d].late
    BY <1>1 DEF AddressFound
  <2>1. /\ addressCall[d].step # "idle"
        /\ Address!Removing(d)' => Address!Removing(d)
    BY <1>5 DEF Address!Removing
  <2>2. address[addressCall'[d].chosen] \in {"delivery", "deleted"}
    BY <1>5, <2>1 DEF AddressInv, AddressFound
  <2>3. ASSUME Address!Removing(d)', NEW p \in Served,
               linked'[p] = addressCall'[d].chosen
        PROVE  p \in addressCall'[d].seen \union addressCall'[d].late
    <3>1. CASE p = o
      BY <1>4, <1>5, <2>1, <2>3, <3>1
    <3>2. CASE p # o
      BY <1>4, <1>5, <2>1, <2>3, <3>2 DEF AddressInv, AddressFound
    <3> QED BY <3>1, <3>2
  <2> QED BY <2>2, <2>3
<1>10. AddressPaidLinked'
  BY <1>1, <1>4 DEF AddressInv, AddressPaidLinked
<1> QED BY <1>6, <1>7, <1>8, <1>9, <1>10 DEF AddressInv

LEMMA BeginRemoveKeeps ==
  ASSUME Address!AddressAssumption, AddressInv, NEW c \in Calls, NEW u,
         NEW a \in Address!Ids,
         Address!BeginRemove(c, u, a)
  PROVE  AddressInv'
<1> DEFINE found == Address!Uses(u, a)
           k == [Address!Idle EXCEPT !.step = "removing", !.chosen = a,
                                     !.seen = found]
<1>1. /\ addressCall' = [addressCall EXCEPT ![c] = k] /\ found # {}
      /\ UNCHANGED <<orderStatus, hidden, linked, address>>
  BY DEF Address!BeginRemove
<1>2. PICK q \in Served : UserOf[q] = u /\ linked[q] = a
  BY <1>1 DEF Address!Uses, Served
<1>3. /\ address[a] \in {"delivery", "deleted"}
      /\ \A p \in Served : linked[p] = a => p \in found
  BY <1>2, AddressIds DEF AddressInv, AddressLinkedOwn, Address!Uses, Served
<1>4. found \subseteq Served
  BY DEF Address!Uses, Served
<1> HIDE DEF found
<1>5. /\ k \in AddressCalls /\ k.step = "removing" /\ k.chosen = a
      /\ k.seen = found
  BY <1>4, AddressIds DEF AddressCalls
<1> HIDE DEF k
<1>6. /\ addressCall'[c] = k /\ addressCall' \in [Calls -> AddressCalls]
      /\ \A d \in Calls : d # c => addressCall'[d] = addressCall[d]
  BY <1>1, <1>5 DEF AddressInv, AddressShape
<1>7. AddressShape'
  BY <1>1, <1>5, <1>6 DEF AddressInv, AddressShape, Address!Choosing
<1>8. AddressLinkedOwn' /\ AddressPaidLinked'
  BY <1>1 DEF AddressInv, AddressLinkedOwn, AddressPaidLinked
<1>9. AddressChosenOwn'
  BY <1>1, <1>5, <1>6 DEF AddressInv, AddressChosenOwn, Address!Choosing
<1>10. AddressFound'
  BY <1>1, <1>3, <1>5, <1>6 DEF AddressInv, AddressFound, Address!Removing
<1> QED BY <1>7, <1>8, <1>9, <1>10 DEF AddressInv

(* The actions that only mark addresses or end a request: no address       *)
(* becomes the store's or nobody's that an order or a request refers to.   *)
LEMMA MarkingKeeps ==
  ASSUME Address!AddressAssumption, AddressInv,
         UNCHANGED <<orderStatus, hidden, linked>>,
         UNCHANGED addressCall \/ \E c \in Calls : Address!Done(c),
         address' \in [Address!Ids -> {"none", "delivery", "store",
                                       "deleted"}],
         \A a \in Address!Ids : address[a] \in {"delivery", "deleted"}
                           => address'[a] \in {"delivery", "deleted"}
  PROVE  AddressInv'
<1>1. /\ addressCall' \in [Calls -> AddressCalls]
      /\ \A d \in Calls : addressCall'[d].step # "idle"
            => addressCall'[d] = addressCall[d]
  BY AddressIds DEF Address!Done, AddressInv, AddressShape
<1>2. AddressShape' /\ AddressPaidLinked'
  BY <1>1 DEF AddressInv, AddressShape, AddressPaidLinked, Address!Choosing
<1>3. AddressLinkedOwn'
  BY DEF AddressInv, AddressShape, AddressLinkedOwn
<1>4. AddressChosenOwn'
  BY <1>1 DEF AddressInv, AddressChosenOwn, Address!Choosing
<1>5. AddressFound'
  BY <1>1 DEF AddressInv, AddressShape, AddressFound, Address!Removing
<1> QED BY <1>2, <1>3, <1>4, <1>5 DEF AddressInv

(* The actions that only move an order through its life.                   *)
LifeStep(o) == \/ Address!Payment(o) \/ Address!Toggle(o) \/ Address!Sweep(o)
               \/ Address!Revive(o) \/ Address!Hide(o)

LEMMA LifeLeaves ==
  ASSUME NEW o, LifeStep(o)
  PROVE  UNCHANGED <<linked, address, addressCall>>
  BY DEF LifeStep, Address!Payment, Address!Toggle, Address!Sweep,
         Address!Revive, Address!Hide

LEMMA StatusKeeps ==
  ASSUME Address!AddressAssumption, AddressInv, NEW o \in Served, LifeStep(o)
  PROVE  AddressInv'
<1>1. UNCHANGED <<linked, address, addressCall>>
  BY LifeLeaves
<1>2. /\ orderStatus' \in [Served -> Address!Active \union Address!Finished]
      /\ hidden' \subseteq Served
  BY DEF AddressInv, AddressShape, LifeStep, Address!Payment, Address!Toggle,
         Address!Sweep, Address!Revive, Address!Hide, Address!Active,
         Address!Finished
<1>3. AddressPaidLinked'
  BY <1>1 DEF AddressInv, AddressShape, AddressPaidLinked, LifeStep,
       Address!Payment, Address!Toggle, Address!Sweep, Address!Revive,
       Address!Hide
<1>4. AddressShape'
  BY <1>1, <1>2 DEF AddressInv, AddressShape, Address!Choosing
<1> QED BY <1>1, <1>3, <1>4
           DEF AddressInv, AddressLinkedOwn, AddressChosenOwn, AddressFound,
               Address!Choosing, Address!Removing

LEMMA AddressStep ==
  ASSUME Address!AddressAssumption
  PROVE  AddressInv /\ [Address!Next]_Address!vars => AddressInv'
<1> SUFFICES ASSUME AddressInv, [Address!Next]_Address!vars PROVE AddressInv'
  OBVIOUS
<1>1. ASSUME NEW o \in Served, Address!AddDelivery(o) PROVE AddressInv'
  BY <1>1, AddDeliveryKeeps
<1>2. ASSUME NEW o \in Served, LifeStep(o) PROVE AddressInv'
  BY <1>2, StatusKeeps
<1>3. ASSUME NEW c \in Calls, NEW o \in Served, NEW a \in Address!Ids,
             Address!BeginChoose(c, o, a)
      PROVE AddressInv'
  BY <1>3, BeginChooseKeeps
<1>4. ASSUME NEW c \in Calls, Address!CommitChoose(c) PROVE AddressInv'
  BY <1>4, CommitChooseKeeps
<1>5. ASSUME NEW c \in Calls, NEW u \in Range(UserOf), NEW a \in Address!Ids,
             Address!BeginRemove(c, u, a)
      PROVE  AddressInv'
  BY <1>5, BeginRemoveKeeps
<1>6. ASSUME NEW c \in Calls, Address!CommitRemove(c) \/ Address!Fail(c)
      PROVE  AddressInv'
  BY <1>6, MarkingKeeps
     DEF Address!CommitRemove, Address!Fail, AddressInv, AddressShape
<1>7. CASE Address!AddStoreAddress
  BY <1>7, MarkingKeeps
     DEF Address!AddStoreAddress, Address!Fresh, AddressInv, AddressShape
<1>8. CASE Address!RemoveStore
  BY <1>8, MarkingKeeps DEF Address!RemoveStore, AddressInv, AddressShape
<1>9. ASSUME NEW a \in Address!Ids, Address!RemoveStoreAddress(a)
      PROVE  AddressInv'
  BY <1>9, MarkingKeeps
     DEF Address!RemoveStoreAddress, AddressInv, AddressShape
<1>10. CASE UNCHANGED Address!vars
  BY <1>10, MarkingKeeps DEF Address!vars, AddressInv, AddressShape
<1> QED BY <1>1, <1>2, <1>3, <1>4, <1>5, <1>6, <1>7, <1>8, <1>9, <1>10
           DEF Address!Next, LifeStep, Served

(* What it says of the code: types, that an order beyond pending has an    *)
(* address that exists (create_payment asks for one), and that an address  *)
(* serves the orders of one customer.                                      *)
LEMMA AddressProperties ==
  ASSUME Address!AddressAssumption, AddressInv
  PROVE  Address!TypeOK /\ Address!OnePersonPerAddress
<1>1. Address!TypeOK
  BY DEF AddressInv, AddressShape, AddressLinkedOwn, AddressPaidLinked,
         Address!TypeOK, Served
<1>2. Address!OnePersonPerAddress
  BY DEF AddressInv, AddressLinkedOwn, Address!OnePersonPerAddress, Served
<1> QED BY <1>1, <1>2

(* Unless its store is deleted, an address goes by a deletion that found   *)
(* every order that has it finished, but for those that chose it meanwhile *)
(* (remove_delivery_address).                                              *)
LEMMA AddressGoes ==
  ASSUME Address!AddressAssumption
  PROVE  AddressInv /\ [Address!Next]_Address!vars =>
    [\A a \in Address!Ids : address[a] = "delivery" /\ address'[a] = "deleted"
       => \/ Address!RemoveStore
          \/ \E c \in Calls :
               /\ Address!Removing(c) /\ addressCall[c].chosen = a
               /\ \A o \in Served \ addressCall[c].late :
                     linked[o] = a => orderStatus[o] \in Address!Finished
    ]_Address!vars
<1> SUFFICES ASSUME AddressInv, [Address!Next]_Address!vars,
                    NEW a \in Address!Ids,
                    address[a] = "delivery", address'[a] = "deleted",
                    ~Address!RemoveStore
             PROVE  \E c \in Calls :
               /\ Address!Removing(c) /\ addressCall[c].chosen = a
               /\ \A o \in Served \ addressCall[c].late :
                     linked[o] = a => orderStatus[o] \in Address!Finished
  OBVIOUS
<1>0. address' # address /\ address \in [Address!Ids ->
                               {"none", "delivery", "store", "deleted"}]
  BY DEF AddressInv, AddressShape
<1>1. PICK c \in Calls : Address!CommitRemove(c)
  <2>1. \A b \in Address!Ids : ~Address!RemoveStoreAddress(b)
    BY <1>0 DEF Address!RemoveStoreAddress
  <2>2. ~Address!AddStoreAddress
    BY <1>0 DEF Address!AddStoreAddress
  <2>3. \A o \in Served : ~Address!AddDelivery(o)
    BY <1>0 DEF Address!AddDelivery
  <2>4. \A o \in Served : ~LifeStep(o)
    BY <1>0, LifeLeaves
  <2>5. \A d \in Calls :
           /\ ~Address!CommitChoose(d) /\ ~Address!Fail(d)
           /\ \A o \in Served, b \in Address!Ids : ~Address!BeginChoose(d, o, b)
           /\ \A u \in Range(UserOf), b \in Address!Ids :
                 ~Address!BeginRemove(d, u, b)
    BY <1>0
       DEF Address!CommitChoose, Address!Fail, Address!BeginChoose,
           Address!BeginRemove
  <2> QED BY <1>0, <2>1, <2>2, <2>3, <2>4, <2>5
             DEF Address!Next, Address!vars, LifeStep, Served
<1>2. Address!Removing(c) /\ addressCall[c].chosen = a
  BY <1>0, <1>1 DEF Address!CommitRemove
<1>3. ASSUME NEW o \in Served \ addressCall[c].late, linked[o] = a
      PROVE  orderStatus[o] \in Address!Finished
  <2>1. o \in addressCall[c].seen
    BY <1>2, <1>3 DEF AddressInv, AddressFound, Address!Removing
  <2> QED BY <1>1, <1>2, <1>3, <2>1
             DEF Address!CommitRemove, Address!Removable
<1> QED BY <1>2, <1>3

HIDE DEF Address!AddressAssumption
=============================================================================
