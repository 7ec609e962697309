------------------------------- MODULE Stores -------------------------------
(***************************************************************************)
(* The people of a store and its bank account.  Creating a store counts    *)
(* the stores of its owners without a lock; adding a person to a store     *)
(* holds an advisory lock on that store, and counts the person's other     *)
(* stores, which the lock does not cover.  A store is approved, renamed    *)
(* once, and deleted with everything it has; its account is edited by its  *)
(* owners and verified or rejected by the platform.                        *)
(***************************************************************************)
EXTENDS Integers, FiniteSets

CONSTANTS
    Stores, Users,
    Calls,      \* requests being served
    OwnerMax,   \* 10: stores a user may own
    StaffMax,   \* 2: stores a user may work in
    Followed,   \* bound: stores whose name and account are followed
    MaxEdits    \* bound: edits of an account

StoreAssumption ==
    /\ {OwnerMax, StaffMax, MaxEdits} \subseteq Nat \ {0}
    /\ Followed \subseteq Stores

VARIABLES
    status,   \* of a store
    owners, staff,
    name,     \* how often a store was renamed
    account,  \* a store's bank account
    reviewed, \* the account's details when it was last verified
    call      \* what a request is about to write

vars == <<status, owners, staff, name, account, reviewed, call>>
people == <<owners, staff>>

Idle == [step |-> "idle"]
NoAccount == [state |-> "none", tin |-> FALSE, details |-> 0,
              deleted |-> FALSE]

TypeOK ==
    /\ status \in [Stores -> {"none", "new", "approved", "deleted"}]
    /\ {owners, staff} \subseteq [Stores -> SUBSET Users]
    /\ name \in [Stores -> 0..1] /\ reviewed \in [Stores -> 0..MaxEdits]
    /\ \A s \in Stores :
          /\ account[s].state \in {"none", "pending", "verified", "rejected"}
          /\ account[s].state # "none" => owners[s] # {}
          /\ owners[s] = {} <=> status[s] = "none"

Init ==
    /\ status = [s \in Stores |-> "none"]
    /\ owners = [s \in Stores |-> {}] /\ staff = [s \in Stores |-> {}]
    /\ name = [s \in Stores |-> 0] /\ reviewed = [s \in Stores |-> 0]
    /\ account = [s \in Stores |-> NoAccount]
    /\ call = [c \in Calls |-> Idle]

\* Deleted stores keep their people and count as well.
Owned(u) == {s \in Stores : u \in owners[s]}
WorksIn(u) == {s \in Stores : u \in staff[s]}

Adding(s) == {c \in Calls : call[c].step = "add" /\ call[c].store = s}

\* Mutant: no advisory lock.
Unlocked(s) == TRUE
\* pg_advisory_xact_lock on the store, held from the checks to the commit.
LockFree(s) == Adding(s) = {}

-----------------------------------------------------------------------------
\* store_creation: the creator must be among the owners.
CheckCreation(c, s, us) ==
    /\ call[c].step = "idle" /\ status[s] = "none" /\ us # {}
    /\ \A u \in us : Cardinality(Owned(u)) < OwnerMax
    /\ call' = [call EXCEPT ![c] =
                   [step |-> "create", store |-> s, who |-> us]]
    /\ UNCHANGED <<status, people, name, account, reviewed>>

\* The insert, which the unique slug refuses if the store is there by now.
Create(c) ==
    LET s == call[c].store IN
    /\ call[c].step = "create"
    /\ call' = [call EXCEPT ![c] = Idle]
    /\ IF status[s] = "none"
       THEN /\ status' = [status EXCEPT ![s] = "new"]
            /\ owners' = [owners EXCEPT ![s] = call[c].who]
       ELSE UNCHANGED <<status, owners>>
    /\ UNCHANGED <<staff, name, account, reviewed>>

OwnerAllowed(s, u) ==
    /\ u \notin owners[s] \union staff[s]
    /\ Cardinality(Owned(u)) <= OwnerMax
StaffAllowed(s, u) ==
    /\ u \notin owners[s] \union staff[s]
    /\ Cardinality(WorksIn(u)) <= StaffMax

\* add_owner_staff does not ask whether the store is approved or deleted.
CheckPerson(c, s, u, role) ==
    /\ call[c].step = "idle" /\ status[s] # "none" /\ LockFree(s)
    /\ \/ role = "owner" /\ OwnerAllowed(s, u)
       \/ role = "staff" /\ StaffAllowed(s, u)
    /\ call' = [call EXCEPT ![c] = [step |-> "add", store |-> s,
                                    who |-> {u}, role |-> role]]
    /\ UNCHANGED <<status, people, name, account, reviewed>>

AddPerson(c) ==
    LET s == call[c].store  us == call[c].who IN
    /\ call[c].step = "add"
    /\ call' = [call EXCEPT ![c] = Idle]
    /\ IF call[c].role = "owner"
       THEN owners' = [owners EXCEPT ![s] = @ \union us] /\ UNCHANGED staff
       ELSE staff' = [staff EXCEPT ![s] = @ \union us] /\ UNCHANGED owners
    /\ UNCHANGED <<status, name, account, reviewed>>

RemoveStaff(s, u) ==
    /\ status[s] = "approved" /\ LockFree(s) /\ u \in staff[s]
    /\ staff' = [staff EXCEPT ![s] = @ \ {u}]
    /\ UNCHANGED <<status, owners, name, account, reviewed, call>>

-----------------------------------------------------------------------------
Approve(s) ==
    /\ status[s] = "new"
    /\ status' = [status EXCEPT ![s] = "approved"]
    /\ UNCHANGED <<people, name, account, reviewed, call>>

\* store_update: the name, once.
Rename(s) ==
    /\ s \in Followed /\ status[s] \in {"new", "approved"} /\ name[s] = 0
    /\ name' = [name EXCEPT ![s] = 1]
    /\ UNCHANGED <<status, people, account, reviewed, call>>

\* store_check.account is a list, so that the flag is set on the list and
\* not on the row.
Remove(s) ==
    /\ status[s] \in {"new", "approved"}
    /\ status' = [status EXCEPT ![s] = "deleted"]
    /\ UNCHANGED <<people, name, account, reviewed, call>>

-----------------------------------------------------------------------------
AddAccount(s, tin) ==
    /\ s \in Followed /\ status[s] # "none" /\ account[s].state = "none"
    /\ account' = [account EXCEPT ![s].state = "pending", ![s].tin = tin]
    /\ UNCHANGED <<status, people, name, reviewed, call>>

\* Mutant: the edit leaves the status alone.
EditQuietly(s, tin, details) ==
    /\ account[s].state \in {"pending", "verified"}
    /\ tin \/ details
    /\ account[s].state = "verified" => tin /\ ~account[s].tin
    /\ details => account[s].details < MaxEdits
    /\ account' = [account EXCEPT ![s].tin = @ \/ tin,
                     ![s].details = IF details THEN @ + 1 ELSE @]
    /\ UNCHANGED <<status, people, name, reviewed, call>>

\* edit_finance_details.  A verified account may be edited when a missing tax
\* number comes along.  A rejected one keeps its reason, which
\* rejection_reason_check allows no other status: the edit is rolled back.
EditAccount(s, tin, details) ==
    /\ account[s].state \in {"pending", "verified"}
    /\ tin \/ details
    /\ account[s].state = "verified" => tin /\ ~account[s].tin
    /\ details => account[s].details < MaxEdits
    /\ account' = [account EXCEPT ![s].state = "pending", ![s].tin = @ \/ tin,
                     ![s].details = IF details THEN @ + 1 ELSE @]
    /\ UNCHANGED <<status, people, name, reviewed, call>>

\* Mutant: an account of any store.
JudgeAny(s, verdict) ==
    /\ account[s].state # "none"
    /\ account' = [account EXCEPT ![s].state = verdict]
    /\ reviewed' = IF verdict = "verified"
                   THEN [reviewed EXCEPT ![s] = account[s].details]
                   ELSE reviewed
    /\ UNCHANGED <<status, people, name, call>>

\* verify_store_account, in any state of the account.
Judge(s, verdict) ==
    /\ status[s] = "approved" /\ account[s].state # "none"
    /\ account' = [account EXCEPT ![s].state = verdict]
    /\ reviewed' = IF verdict = "verified"
                   THEN [reviewed EXCEPT ![s] = account[s].details]
                   ELSE reviewed
    /\ UNCHANGED <<status, people, name, call>>

-----------------------------------------------------------------------------
Next ==
    \/ \E c \in Calls : Create(c) \/ AddPerson(c)
    \/ \E c \in Calls, s \in Stores, us \in SUBSET Users :
          CheckCreation(c, s, us)
    \/ \E c \in Calls, s \in Stores, u \in Users, role \in {"owner", "staff"} :
          CheckPerson(c, s, u, role)
    \/ \E s \in Stores, u \in Users : RemoveStaff(s, u)
    \/ \E s \in Stores : Approve(s) \/ Rename(s) \/ Remove(s)
    \/ \E s \in Stores, tin \in BOOLEAN :
          \/ AddAccount(s, tin)
          \/ \E details \in BOOLEAN : EditAccount(s, tin, details)
    \/ \E s \in Stores, verdict \in {"verified", "rejected"} :
          Judge(s, verdict)

Spec == Init /\ [][Next]_vars

-----------------------------------------------------------------------------
\* Nobody is owner and staff of the same store, however the additions overlap
\* (docs/store.md:17 and :29).
NoDoubleRole == \A s \in Stores : owners[s] \intersect staff[s] = {}

\* An account shown as verified has the details it was verified with, whatever
\* its owners edited since.
VerifiedAsReviewed ==
    \A s \in Stores :
       account[s].state = "verified" => account[s].details = reviewed[s]

\* A rejected account does not change before the platform judges it again, and
\* after the store's deletion no account is judged any more.
RejectedStands ==
    [][\A s \in Stores :
          account[s] # account'[s] =>
             /\ account[s].state = "rejected" => account'[s].state = "verified"
             /\ status[s] = "deleted" => account'[s].state = "pending"]_vars
=============================================================================
