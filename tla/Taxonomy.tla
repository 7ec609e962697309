------------------------------ MODULE Taxonomy ------------------------------
(***************************************************************************)
(* The global tree of product categories and sub-categories.  A name is    *)
(* unique as it is spelled; that two spellings of one name are not both    *)
(* stored is left to a look before the insert, as is that the category     *)
(* above a new sub-category is live.  Nothing is locked in between.        *)
(***************************************************************************)
EXTENDS Integers, FiniteSets

CONSTANTS
    Calls,
    CatNames, SubNames, \* the spellings of names
    Norm,       \* a spelling without its blanks and capitals
    CreatorSet  \* an insert fills the column created_by; FALSE as the code is

TaxonomyAssumption ==
    /\ CatNames \intersect SubNames = {} /\ "none" \notin CatNames
    /\ \A n \in CatNames \union SubNames : n \in DOMAIN Norm
    /\ CreatorSet \in BOOLEAN

VARIABLES
    cat, sub, \* the row of each spelling: "none", "live" or "deleted"
    above,    \* the category of each sub-category row
    call      \* a handler between its look and its insert

rows == <<cat, sub, above>>
vars == <<rows, call>>

Statuses == {"none", "live", "deleted"}
None == "none"
Idle == [step |-> "idle"]
Inserts ==
    {Idle} \union [step : {"category"}, name : CatNames]
           \union [step : {"sub"}, name : SubNames, of : CatNames]

TypeOK ==
    /\ cat \in [CatNames -> Statuses] /\ sub \in [SubNames -> Statuses]
    /\ above \in [SubNames -> CatNames \union {None}]
    /\ \A n \in SubNames : \* no sub-category without a category's row
          IF sub[n] = "none" THEN above[n] = None
                             ELSE above[n] # None /\ cat[above[n]] # "none"
    /\ call \in [Calls -> Inserts]

Init == /\ cat = [n \in CatNames |-> "none"]
        /\ sub = [n \in SubNames |-> "none"]
        /\ above = [n \in SubNames |-> None]
        /\ call = [c \in Calls |-> Idle]

Begin(c, insert) == /\ call[c] = Idle
                    /\ call' = [call EXCEPT ![c] = insert]
                    /\ UNCHANGED rows
Done(c) == call' = [call EXCEPT ![c] = Idle]

\* Deleted rows count: a name is never free again.
Taken(table, n) ==
    \E m \in DOMAIN table : table[m] # "none" /\ Norm[m] = Norm[n]

CheckCategory(c, n) ==
    ~Taken(cat, n) /\ Begin(c, [step |-> "category", name |-> n])

InsertCategory(c, n) ==
    /\ call[c] = [step |-> "category", name |-> n]
    /\ CreatorSet /\ cat[n] = "none"
    /\ cat' = [cat EXCEPT ![n] = "live"]
    /\ Done(c)
    /\ UNCHANGED <<sub, above>>

\* The name must be new among the sub-categories of every category.
CheckSub(c, n, k) ==
    /\ cat[k] = "live" /\ ~Taken(sub, n)
    /\ Begin(c, [step |-> "sub", name |-> n, of |-> k])

InsertSub(c, n, k) ==
    /\ call[c] = [step |-> "sub", name |-> n, of |-> k]
    /\ CreatorSet /\ sub[n] = "none"
    /\ sub' = [sub EXCEPT ![n] = "live"]
    /\ above' = [above EXCEPT ![n] = k]
    /\ Done(c)
    /\ UNCHANGED cat

\* A constraint refuses the insert: the spelling is there, or created_by is
\* NULL.
Refused(c) ==
    /\ call[c] # Idle
    /\ \/ ~CreatorSet
       \/ call[c].step = "category" /\ cat[call[c].name] # "none"
       \/ call[c].step = "sub" /\ sub[call[c].name] # "none"
    /\ Done(c)
    /\ UNCHANGED rows

\* The category's row is locked before its sub-categories are read.
DeleteCategory(k) ==
    /\ cat[k] = "live"
    /\ cat' = [cat EXCEPT ![k] = "deleted"]
    /\ sub' = [n \in SubNames |-> IF above[n] = k THEN "deleted" ELSE sub[n]]
    /\ UNCHANGED <<above, call>>

DeleteSubCategory(n) ==
    /\ sub[n] = "live"
    /\ sub' = [sub EXCEPT ![n] = "deleted"]
    /\ UNCHANGED <<cat, above, call>>

Next ==
    \/ \E c \in Calls :
          \/ \E n \in CatNames : CheckCategory(c, n) \/ InsertCategory(c, n)
          \/ \E n \in SubNames, k \in CatNames :
                CheckSub(c, n, k) \/ InsertSub(c, n, k)
          \/ Refused(c)
    \/ \E k \in CatNames : DeleteCategory(k)
    \/ \E n \in SubNames : DeleteSubCategory(n)

Spec == Init /\ [][Next]_vars

\* No step of another handler between the look and the insert of one.
InTurn == \/ \A c \in Calls : call[c] = Idle
          \/ \E c \in Calls : call[c] # Idle /\ call'[c] # call[c]

-----------------------------------------------------------------------------
\* No two categories, and no two sub-categories, have the same normal form,
\* whatever was deleted in between (category, sub_category).
NamesDiffer ==
    /\ \A m, n \in CatNames : Norm[m] = Norm[n] /\ m # n
           => cat[m] = "none" \/ cat[n] = "none"
    /\ \A m, n \in SubNames : Norm[m] = Norm[n] /\ m # n
           => sub[m] = "none" \/ sub[n] = "none"

\* A live sub-category has a live category over it (sub_category,
\* delete_category).
ParentIsLive ==
    \A n \in SubNames : sub[n] = "live" => cat[above[n]] = "live"
=============================================================================
