------------------------------ MODULE Reviews ------------------------------
(***************************************************************************)
(* The reviews of one product, or of one store, and the count and average  *)
(* kept in its row.  Each request is one statement that selects the row    *)
(* FOR UPDATE, together with what it needs to know of the reviews, and a   *)
(* commit.  A statement that has to wait for the lock gets the row as it   *)
(* is then, and the reviews as they were when the statement began.         *)
(***************************************************************************)
EXTENDS Integers, FiniteSets, Quantities

CONSTANTS
    Users,      \* those who have bought something
    Calls,
    Kind,       \* "product" or "store"
    Ratings,    \* part of 1..5
    MaxReviews  \* bound: reviews ever posted

ReviewsAssumption ==
    /\ Kind \in {"product", "store"} /\ Ratings \subseteq 1..5
    /\ MaxReviews \in Nat \ {0}

VARIABLES
    reviews, \* the rows of the table Review: id, user, rating
    posted,  \* the last id given
    count,   \* review_count of the row
    average, \* its avg_rating, in hundredths
    listed,  \* not is_deleted
    call

vars == <<reviews, posted, count, average, listed, call>>

Idle == [step |-> "idle"]
Busy(c) == call[c].step # "idle"
Done(c) == call' = [call EXCEPT ![c] = Idle]
Of(u) == {r \in reviews : r.user = u}

\* The column Numeric(3, 2).
Storable(hundredths) == hundredths \in -999..999

TypeOK ==
    /\ reviews \subseteq [id : 1..posted, user : Users, rating : Ratings]
    /\ \A r, s \in reviews : r.id = s.id => r = s
    /\ posted \in 0..MaxReviews /\ count \in 0..MaxReviews
    /\ Storable(average) /\ listed \in BOOLEAN
    /\ \A c \in Calls : call[c].step \in {"idle", "create", "update"}

Init == /\ reviews = {} /\ posted = 0 /\ count = 0 /\ average = 0
        /\ listed = TRUE /\ call = [c \in Calls |-> Idle]

-----------------------------------------------------------------------------
\* Mutant: digits are cut off.
CutOff(total, n) == total \div n
\* quantize(Decimal("0.01")): the half goes to the even neighbour.
Quantized(total, n) ==
    LET q == total \div n  twice == 2 * (total % n) IN
    IF twice > n \/ (twice = n /\ q % 2 = 1) THEN q + 1 ELSE q

Added(rating) == Quantized(average * count + 100 * rating, count + 1)

Changed(former, rating) ==
    IF count > 0
    THEN Quantized(average * count - 100 * former + 100 * rating, count)
    ELSE 100 * rating

TakenOut(rating) ==
    LET left == average * count - 100 * rating IN
    IF count > 1 THEN Quantized(IF left > 0 THEN left ELSE 0, count - 1) ELSE 0

-----------------------------------------------------------------------------
\* create: the statement begins and sees whether the user has a review.
BeginCreate(c, u, rating) ==
    /\ ~Busy(c)
    /\ call' = [call EXCEPT ![c] = [step |-> "create", user |-> u,
                                    rating |-> rating, limit |-> Of(u) # {}]]
    /\ UNCHANGED <<reviews, posted, count, average, listed>>

\* user_product_review: a store's review has no product, NULLs are distinct.
Unique(u) == Kind = "product" => Of(u) = {}

Insert(u, rating) ==
    /\ posted < MaxReviews \* bound
    /\ reviews' = reviews \union {[id |-> posted + 1, user |-> u,
                                   rating |-> rating]}
    /\ posted' = posted + 1
    /\ count' = count + 1 /\ average' = Added(rating)

\* The row is locked: the new review, the count and the average are committed.
CommitCreate(c) ==
    LET u == call[c].user IN
    /\ call[c].step = "create"
    /\ \/ /\ listed /\ ~call[c].limit /\ Unique(u)
          /\ Insert(u, call[c].rating)
       \/ /\ ~(listed /\ ~call[c].limit /\ Unique(u))
          /\ UNCHANGED <<reviews, posted, count, average>>
    /\ Done(c) /\ UNCHANGED listed

\* update_review: the review is part of what the statement sees.
BeginUpdate(c, r, rating) ==
    /\ ~Busy(c) /\ listed /\ rating # r.rating
    /\ call' = [call EXCEPT ![c] = [step |-> "update", review |-> r,
                                    rating |-> rating]]
    /\ UNCHANGED <<reviews, posted, count, average, listed>>

\* The row is locked.  A review deleted meanwhile fails the UPDATE, and an
\* average that its column does not hold fails too.
CommitUpdate(c) ==
    LET r == call[c].review  new == Changed(r.rating, call[c].rating)
        now == {s \in reviews : s.id = r.id}
    IN /\ call[c].step = "update"
       /\ IF listed /\ now # {} /\ Storable(new)
          THEN /\ reviews' = (reviews \ now) \union
                                {[r EXCEPT !.rating = call[c].rating]}
               /\ average' = new
          ELSE UNCHANGED <<reviews, average>>
       /\ Done(c) /\ UNCHANGED <<posted, count, listed>>

\* delete_review locks the review too, so it reads both as they are; an
\* average that the column does not hold fails it.
Delete(r) ==
    /\ reviews' = reviews \ {r} /\ average' = TakenOut(r.rating)
    /\ Storable(average')
    /\ count' = IF count > 0 THEN count - 1 ELSE 0
    /\ UNCHANGED <<posted, listed, call>>

\* The product or the store is deleted; its reviews stay.
Unlist == listed /\ listed' = FALSE
          /\ UNCHANGED <<reviews, posted, count, average, call>>

Next ==
    \/ \E c \in Calls :
          \/ \E u \in Users, q \in Ratings : BeginCreate(c, u, q)
          \/ \E r \in reviews, q \in Ratings : BeginUpdate(c, r, q)
          \/ CommitCreate(c) \/ CommitUpdate(c)
    \/ \E r \in reviews : Delete(r)
    \/ Unlist

Spec == Init /\ [][Next]_vars

\* One request at a time.
InTurn == \/ \A c \in Calls : ~Busy(c)
          \/ \E c \in Calls : CommitCreate(c) \/ CommitUpdate(c)

-----------------------------------------------------------------------------
\* The count in the row is the number of reviews, whoever waits for whom.
CountMatches == count = Cardinality(reviews)

\* Nobody has two reviews of the product, or of the store.
OneReview == \A u \in Users : Cardinality(Of(u)) <= 1

Stars == Total([r \in reviews |-> r.rating], reviews)
\* How far the average is off, times the number of reviews, in hundredths.
Off == average * count - 100 * Stars

\* A request that leaves reviews behind moves the average away from the
\* ratings by half a hundredth at the most: what its one rounding costs.  Only
\* a deletion may do more, when the roundings before it have added up to more
\* than what is left and it sets the average to 0.
RoundingOnly ==
    [][count' > 0 => \/ 2 * (Off' - Off) \in -count'..count'
                     \/ count' < count /\ average' = 0]_vars
=============================================================================
