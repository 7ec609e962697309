-------------------------- MODULE RequestsProofs ----------------------------
(***************************************************************************)
(* What holds, for every value of the constants, of reviews and replies,   *)
(* and then the properties of MCRequests, in which a behaviour is one      *)
(* component of those that serve requests.                                 *)
(***************************************************************************)
EXTENDS PeopleProofs, ShopProofs

-----------------------------------------------------------------------------
(***************************************************************************)
(* Reviews, their count and their average.                                 *)
(***************************************************************************)
(* The instance's copy of FiniteSets is FiniteSets.                        *)
LEMMA ReviewFinite == \A S : Review!IsFiniteSet(S) <=> IsFiniteSet(S)
  BY DEF Review!IsFiniteSet, IsFiniteSet
LEMMA ReviewCardinality ==
  ASSUME NEW S PROVE Review!Cardinality(S) = Cardinality(S)
  BY Zenon DEF Review!Cardinality, Cardinality
LEMMA ReviewTotal == \A q, S : Review!Total(q, S) = Total(q, S)
  BY ReviewCardinality DEF Review!Total, Total, Review!Units, Units
USE ReviewFinite, ReviewCardinality, ReviewTotal

(* Rounding to the nearest hundredth: the quotient stays between the bounds *)
(* of what is divided, and times the divisor is off by half of it at most.  *)
LEMMA QuantizedParts ==
  ASSUME NEW t \in Int, NEW n \in Nat \ {0}
  PROVE  /\ t \div n \in Int /\ t % n \in 0..(n - 1)
         /\ t = n * (t \div n) + (t % n)
OBVIOUS

LEMMA QuantizedNear ==
  ASSUME NEW t \in Int, NEW n \in Nat \ {0}
  PROVE  /\ Review!Quantized(t, n) \in Int
         /\ 2 * (Review!Quantized(t, n) * n - t) \in -n..n
         /\ \A lo, hi \in Int : lo * n <= t /\ t <= hi * n
                                   => Review!Quantized(t, n) \in lo..hi
<1>1. PICK q \in Int, r \in 0..(n - 1) :
         q = t \div n /\ r = t % n /\ t = n * q + r
  BY QuantizedParts
<1>2. \/ Review!Quantized(t, n) = q + 1 /\ 2 * r >= n
      \/ Review!Quantized(t, n) = q /\ 2 * r <= n
  BY <1>1 DEF Review!Quantized
<1>3. q * n \in Int /\ n * q = q * n /\ (q + 1) * n = q * n + n
  BY <1>1
<1>4. /\ Review!Quantized(t, n) \in Int
      /\ 2 * (Review!Quantized(t, n) * n - t) \in -n..n
  <2> DEFINE p == q * n
  <2>1. p \in Int /\ t = p + r
    BY <1>1, <1>3
  <2>2. \/ Review!Quantized(t, n) * n = p + n /\ 2 * r >= n
        \/ Review!Quantized(t, n) * n = p /\ 2 * r <= n
    BY <1>2, <1>3
  <2> HIDE DEF p
  <2>3. 2 * (Review!Quantized(t, n) * n - t) \in -n..n
    BY <1>1, <2>1, <2>2
  <2> QED BY <1>2, <2>3
<1>5. ASSUME NEW lo \in Int, NEW hi \in Int, lo * n <= t, t <= hi * n
      PROVE  Review!Quantized(t, n) \in lo..hi
  <2>1. lo <= q
    <3>1. SUFFICES ASSUME q + 1 <= lo PROVE FALSE
      BY <1>1
    <3>2. (q + 1) * n <= lo * n
      BY <1>1, <3>1
    <3> QED BY <1>1, <1>3, <1>5, <3>2
  <2>2. q <= hi
    <3>1. SUFFICES ASSUME hi + 1 <= q PROVE FALSE
      BY <1>1
    <3>2. (hi + 1) * n <= q * n /\ (hi + 1) * n = hi * n + n
      BY <1>1, <3>1
    <3>3. hi * n \in Int
      OBVIOUS
    <3> QED BY <1>1, <1>3, <1>5, <3>2, <3>3
  <2>3. ASSUME 2 * r >= n PROVE q + 1 <= hi
    <3>1. SUFFICES ASSUME hi <= q PROVE FALSE
      BY <1>1
    <3>2. hi * n <= q * n
      BY <1>1, <3>1
    <3>3. hi * n \in Int
      OBVIOUS
    <3> QED BY <1>1, <1>3, <1>5, <2>3, <3>2, <3>3
  <2> QED BY <1>1, <1>2, <2>1, <2>2, <2>3
<1> QED BY <1>4, <1>5

\* A review more leaves an average that the column holds.
LEMMA ReviewAdded ==
  ASSUME Review!ReviewsAssumption, Review!Storable(average), count \in Nat,
         NEW rating \in Ratings
  PROVE  /\ Review!Storable(Review!Added(rating))
         /\ Review!Added(rating) \in Int
         /\ 2 * (Review!Added(rating) * (count + 1)
                    - (average * count + 100 * rating))
               \in -(count + 1)..(count + 1)
<1> DEFINE t == average * count + 100 * rating
           n == count + 1
           a == average * count
<1>1. average \in Int /\ -999 <= average /\ average <= 999
      /\ rating \in 1..5 /\ n \in Nat \ {0}
  BY DEF Review!Storable, Review!ReviewsAssumption
<1>2. a \in Int
  BY <1>1
<1>3. -999 * count <= a /\ a <= 999 * count
  BY <1>1
<1>4. t \in Int /\ t = a + 100 * rating
  BY <1>1, <1>2
<1> HIDE DEF t, a
<1>5. -999 * n <= t /\ t <= 999 * n
  <2>1. -999 * n = -999 * count - 999 /\ 999 * n = 999 * count + 999
    BY DEF n
  <2> HIDE DEF n
  <2>2. -500 <= 100 * rating /\ 100 * rating <= 500
    BY <1>1
  <2> QED BY <1>1, <1>2, <1>3, <1>4, <2>1, <2>2
<1> HIDE DEF n
<1>6. Review!Quantized(t, n) \in -999..999
  <2>1. \A lo, hi \in Int : lo * n <= t /\ t <= hi * n
                                => Review!Quantized(t, n) \in lo..hi
    BY <1>1, <1>4, QuantizedNear
  <2>2. PICK lo, hi \in Int : lo = -999 /\ hi = 999
    OBVIOUS
  <2>3. lo * n = -999 * n /\ hi * n = 999 * n
    BY <1>1, <2>2
  <2>4. Review!Quantized(t, n) \in lo..hi
    BY <1>5, <2>1, <2>3
  <2> QED BY <2>2, <2>4
<1>7. 2 * (Review!Quantized(t, n) * n - t) \in -n..n
  BY <1>1, <1>4, QuantizedNear
<1>8. Review!Added(rating) = Review!Quantized(t, n)
  BY DEF Review!Added, t, n
<1> QED BY <1>6, <1>7, <1>8 DEF Review!Storable, t, n
-----------------------------------------------------------------------------
ReviewRows(n) == [id : 1..n, user : Buyers, rating : Ratings]
Creates == [step : {"create"}, user : Buyers, rating : Ratings,
            limit : BOOLEAN]
Updates(n) == [step : {"update"}, review : ReviewRows(n), rating : Ratings]
ReviewCalls(n) == {Review!Idle} \union Creates \union Updates(n)

\* What each call knows of the review it changes stays true of that review.
ReviewInv ==
    /\ reviews \subseteq ReviewRows(posted) /\ IsFiniteSet(reviews)
    /\ \A r, s \in reviews : r.id = s.id => r = s
    /\ posted \in 0..MaxReviews /\ count \in 0..posted
    /\ count = Cardinality(reviews)
    /\ Review!Storable(average) /\ listed \in BOOLEAN
    /\ reviewCall \in [Calls -> ReviewCalls(posted)]
    /\ \A c \in Calls, s \in reviews :
          reviewCall[c].step = "update" /\ reviewCall[c].review.id = s.id
             => reviewCall[c].review.user = s.user

LEMMA RowFields ==
  ASSUME NEW n, NEW r \in ReviewRows(n)
  PROVE  r.id \in 1..n /\ r.user \in Buyers /\ r.rating \in Ratings
BY DEF ReviewRows

LEMMA RowsGrow ==
  ASSUME NEW n \in Nat
  PROVE  ReviewRows(n) \subseteq ReviewRows(n + 1)
         /\ ReviewCalls(n) \subseteq ReviewCalls(n + 1)
<1>1. ReviewRows(n) \subseteq ReviewRows(n + 1)
  BY DEF ReviewRows
<1>2. Updates(n) \subseteq Updates(n + 1)
  BY <1>1 DEF Updates
<1> QED BY <1>1, <1>2 DEF ReviewCalls

LEMMA ReviewCallFields ==
  ASSUME NEW n, NEW v \in ReviewCalls(n)
  PROVE  /\ v.step \in {"idle", "create", "update"}
         /\ v.step = "create" => v \in Creates /\ v.user \in Buyers
                          /\ v.rating \in Ratings /\ v.limit \in BOOLEAN
         /\ v.step = "update" => v.review \in ReviewRows(n)
                          /\ v.rating \in Ratings
BY DEF ReviewCalls, Creates, Updates, Review!Idle

\* Back to idle: no call knows more than before.
LEMMA ReviewDone ==
  ASSUME NEW n, reviewCall \in [Calls -> ReviewCalls(n)], NEW c \in Calls,
         Review!Done(c)
  PROVE  /\ reviewCall' \in [Calls -> ReviewCalls(n)]
         /\ reviewCall'[c] = Review!Idle
         /\ \A d \in Calls : d # c => reviewCall'[d] = reviewCall[d]
         /\ \A d \in Calls : reviewCall'[d].step # "idle"
                                => d # c /\ reviewCall'[d] = reviewCall[d]
<1>1. Review!Idle \in ReviewCalls(n) /\ Review!Idle.step = "idle"
  BY DEF ReviewCalls, Review!Idle
<1> QED BY <1>1 DEF Review!Done

LEMMA ReviewInit == Review!ReviewsAssumption /\ Review!Init => ReviewInv
<1> SUFFICES ASSUME Review!ReviewsAssumption, Review!Init PROVE ReviewInv
  OBVIOUS
<1>1. Review!Idle \in ReviewCalls(0) /\ Review!Idle.step = "idle"
  BY DEF ReviewCalls, Review!Idle
<1>2. IsFiniteSet({}) /\ Cardinality({}) = 0
  BY FS_EmptySet
<1>3. MaxReviews \in Nat
  BY DEF Review!ReviewsAssumption
<1> QED BY <1>1, <1>2, <1>3 DEF Review!Init, ReviewInv, Review!Storable

LEMMA ReviewTyped == ReviewInv /\ Review!ReviewsAssumption => Review!TypeOK
<1> SUFFICES ASSUME ReviewInv, Review!ReviewsAssumption PROVE Review!TypeOK
  OBVIOUS
<1>1. \A c \in Calls : reviewCall[c].step \in {"idle", "create", "update"}
  BY ReviewCallFields DEF ReviewInv
<1>2. count \in 0..MaxReviews
  BY DEF ReviewInv, Review!ReviewsAssumption
<1> QED BY <1>1, <1>2 DEF ReviewInv, Review!TypeOK, ReviewRows

\* A call begins.
LEMMA ReviewBeginStep ==
  ASSUME Review!ReviewsAssumption, ReviewInv, NEW c \in Calls,
         NEW v \in ReviewCalls(posted),
         reviewCall' = [reviewCall EXCEPT ![c] = v],
         v.step = "update" => v.review \in reviews,
         UNCHANGED <<reviews, posted, count, average, listed>>
  PROVE  ReviewInv'
<1>1. reviewCall' \in [Calls -> ReviewCalls(posted)]
  BY DEF ReviewInv
<1>2. ASSUME NEW d \in Calls, NEW s \in reviews,
             reviewCall'[d].step = "update",
             reviewCall'[d].review.id = s.id
      PROVE  reviewCall'[d].review.user = s.user
  <2>1. CASE d = c
    <3>1. reviewCall'[d] = v
      BY <2>1 DEF ReviewInv
    <3>2. v.review \in reviews /\ v.review.id = s.id
      BY <1>2, <3>1
    <3>3. v.review = s
      BY <3>2 DEF ReviewInv
    <3> QED BY <3>1, <3>3
  <2>2. CASE d # c
    <3>1. reviewCall'[d] = reviewCall[d]
      BY <2>2 DEF ReviewInv
    <3> QED BY <1>2, <3>1 DEF ReviewInv
  <2> QED BY <2>1, <2>2
<1> QED BY <1>1, <1>2 DEF ReviewInv, Review!Storable

\* A call ends and the reviews stay.
LEMMA ReviewEndStep ==
  ASSUME Review!ReviewsAssumption, ReviewInv, NEW c \in Calls, Review!Done(c),
         UNCHANGED <<reviews, posted, count, average, listed>>
  PROVE  ReviewInv'
<1>1. /\ reviewCall' \in [Calls -> ReviewCalls(posted)]
      /\ \A d \in Calls : reviewCall'[d].step # "idle"
                             => d # c /\ reviewCall'[d] = reviewCall[d]
  BY ReviewDone DEF ReviewInv
<1>2. \A d \in Calls, s \in reviews :
          reviewCall'[d].step = "update" /\ reviewCall'[d].review.id = s.id
             => reviewCall'[d].review.user = s.user
  BY <1>1 DEF ReviewInv
<1> QED BY <1>1, <1>2 DEF ReviewInv, Review!Storable

LEMMA ReviewInsertStep ==
  ASSUME Review!ReviewsAssumption, ReviewInv, NEW c \in Calls,
         NEW u \in Buyers, NEW q \in Ratings,
         Review!Insert(u, q), Review!Done(c), UNCHANGED listed
  PROVE  ReviewInv'
<1> DEFINE x == [id |-> posted + 1, user |-> u, rating |-> q]
<1>1. posted \in Nat /\ posted + 1 \in 0..MaxReviews /\ count \in 0..posted
      /\ MaxReviews \in Nat
  BY DEF Review!Insert, ReviewInv, Review!ReviewsAssumption
<1>2. reviews' = reviews \union {x} /\ posted' = posted + 1
      /\ count' = count + 1 /\ average' = Review!Added(q)
  BY DEF Review!Insert
<1>3. x \in ReviewRows(posted + 1) /\ x.id = posted + 1
  BY <1>1 DEF ReviewRows
<1> HIDE DEF x
<1>4. \A r \in reviews : r.id \in 1..posted /\ r.id # x.id
  BY <1>1, <1>3, RowFields DEF ReviewInv
<1>5. reviews' \subseteq ReviewRows(posted') /\ x \notin reviews
  BY <1>1, <1>2, <1>3, <1>4, RowsGrow DEF ReviewInv
<1>6. IsFiniteSet(reviews') /\ Cardinality(reviews') = Cardinality(reviews) + 1
  BY <1>2, <1>5, FS_AddElement DEF ReviewInv
<1>7. Review!Storable(average')
  BY <1>1, <1>2, ReviewAdded DEF ReviewInv, Review!Storable
<1>8. /\ reviewCall' \in [Calls -> ReviewCalls(posted)]
      /\ \A d \in Calls : reviewCall'[d].step # "idle"
                             => d # c /\ reviewCall'[d] = reviewCall[d]
  BY ReviewDone DEF ReviewInv
<1>9. reviewCall' \in [Calls -> ReviewCalls(posted')]
  BY <1>1, <1>2, <1>8, RowsGrow
<1>10. ASSUME NEW d \in Calls, NEW s \in reviews',
              reviewCall'[d].step = "update",
              reviewCall'[d].review.id = s.id
       PROVE  reviewCall'[d].review.user = s.user
  <2>1. reviewCall'[d] = reviewCall[d]
    BY <1>8, <1>10
  <2>2. reviewCall[d].review \in ReviewRows(posted)
    BY <1>10, <2>1, ReviewCallFields DEF ReviewInv
  <2>3. reviewCall[d].review.id \in 1..posted
    BY <2>2, RowFields
  <2>4. s \in reviews
    BY <1>1, <1>2, <1>3, <1>10, <2>1, <2>3
  <2> QED BY <1>10, <2>1, <2>4 DEF ReviewInv
<1>11. \A r, s \in reviews' : r.id = s.id => r = s
  BY <1>2, <1>4 DEF ReviewInv
<1>12. posted' \in 0..MaxReviews /\ count' \in 0..posted'
       /\ count' = Cardinality(reviews')
  BY <1>1, <1>2, <1>6 DEF ReviewInv
<1>13. listed' \in BOOLEAN
  BY DEF ReviewInv
<1> QED BY <1>5, <1>6, <1>7, <1>9, <1>10, <1>11, <1>12, <1>13
        DEF ReviewInv, Review!Storable

\* One row in the place of another.
LEMMA ReplacedRow ==
  ASSUME NEW S, IsFiniteSet(S), NEW old \in S, NEW x, x \notin S \ {old}
  PROVE  /\ IsFiniteSet((S \ {old}) \union {x})
         /\ Cardinality((S \ {old}) \union {x}) = Cardinality(S)
<1>1. /\ IsFiniteSet(S \ {old}) /\ Cardinality(S \ {old}) = Cardinality(S) - 1
      /\ Cardinality(S) \in Nat
  BY FS_RemoveElement, FS_CardinalityType
<1>2. /\ IsFiniteSet((S \ {old}) \union {x})
      /\ Cardinality((S \ {old}) \union {x}) = Cardinality(S \ {old}) + 1
  BY <1>1, FS_AddElement
<1> QED BY <1>1, <1>2

LEMMA ReviewUpdateStep ==
  ASSUME Review!ReviewsAssumption, ReviewInv, NEW c \in Calls,
         Review!CommitUpdate(c)
  PROVE  ReviewInv'
<1> PICK v : v = reviewCall[c]
  OBVIOUS
<1>1. v \in ReviewCalls(posted) /\ v.step = "update"
  BY DEF ReviewInv, Review!CommitUpdate
<1>2. v.review \in ReviewRows(posted) /\ v.rating \in Ratings
  BY <1>1, ReviewCallFields
<1> DEFINE now == {s \in reviews : s.id = v.review.id}
           x == [v.review EXCEPT !.rating = v.rating]
<1>3. CASE UNCHANGED <<reviews, average>>
  BY <1>3, ReviewEndStep DEF Review!CommitUpdate
<1>4. CASE /\ now # {}
        /\ Review!Storable(Review!Changed(v.review.rating, v.rating))
           /\ reviews' = (reviews \ now) \union {x}
           /\ average' = Review!Changed(v.review.rating, v.rating)
  <2>1. PICK old \in reviews : old.id = v.review.id
    BY <1>4
  <2>2. now = {old}
    BY <2>1 DEF ReviewInv
  <2>3. /\ x \in ReviewRows(posted) /\ x.id = v.review.id
        /\ x.user = v.review.user
    BY <1>2 DEF ReviewRows
  <2>4. v.review.user = old.user
    BY <1>1, <2>1 DEF ReviewInv
  <2>5. reviews' = (reviews \ {old}) \union {x}
    BY <1>4, <2>2
  <2> HIDE DEF now, x
  <2>6. UNCHANGED <<posted, count, listed>> /\ Review!Done(c)
    BY DEF Review!CommitUpdate
  <2>7. \A s \in reviews \ {old} : s.id # x.id
    BY <2>1, <2>3 DEF ReviewInv
  <2>8. x \notin reviews \ {old}
    BY <2>7
  <2>9. IsFiniteSet(reviews') /\ Cardinality(reviews') = Cardinality(reviews)
    BY <2>5, <2>8, ReplacedRow DEF ReviewInv
  <2>10. \A r, s \in reviews' : r.id = s.id => r = s
    BY <2>5, <2>7 DEF ReviewInv
  <2>11. /\ reviewCall' \in [Calls -> ReviewCalls(posted)]
         /\ \A d \in Calls : reviewCall'[d].step # "idle"
                                => d # c /\ reviewCall'[d] = reviewCall[d]
    BY <2>6, ReviewDone DEF ReviewInv
  <2>12. ASSUME NEW d \in Calls, NEW s \in reviews',
                reviewCall'[d].step = "update",
                reviewCall'[d].review.id = s.id
         PROVE  reviewCall'[d].review.user = s.user
    <3>1. reviewCall'[d] = reviewCall[d]
      BY <2>11, <2>12
    <3>2. CASE s \in reviews
      BY <2>12, <3>1, <3>2 DEF ReviewInv
    <3>3. CASE s = x
      <4>1. reviewCall[d].review.id = old.id
        BY <2>1, <2>3, <2>12, <3>1, <3>3
      <4>2. reviewCall[d].review.user = old.user
        BY <2>12, <3>1, <4>1 DEF ReviewInv
      <4> QED BY <2>3, <2>4, <3>1, <3>3, <4>2
    <3> QED BY <2>5, <3>2, <3>3
  <2>13. Review!Storable(average')
    BY <1>4
  <2>14. reviews' \subseteq ReviewRows(posted)
    BY <2>3, <2>5 DEF ReviewInv
  <2> QED BY <2>6, <2>9, <2>10, <2>11, <2>12, <2>13, <2>14
          DEF ReviewInv, Review!Storable
<1> QED BY <1>3, <1>4 DEF Review!CommitUpdate

LEMMA ReviewDeleteStep ==
  ASSUME Review!ReviewsAssumption, ReviewInv, NEW r \in reviews,
         Review!Delete(r)
  PROVE  ReviewInv' /\ count > 0 /\ count' = count - 1
<1>1. /\ IsFiniteSet(reviews \ {r})
      /\ Cardinality(reviews \ {r}) = Cardinality(reviews) - 1
  BY FS_RemoveElement DEF ReviewInv
<1>2. Cardinality(reviews \ {r}) \in Nat
  BY <1>1, FS_CardinalityType
<1>3. posted \in Nat /\ count \in 0..posted /\ count = Cardinality(reviews)
  BY DEF ReviewInv, Review!ReviewsAssumption
<1>4. count > 0 /\ count' = count - 1
  BY <1>1, <1>2, <1>3 DEF Review!Delete
<1>5. count' = Cardinality(reviews') /\ count' \in 0..posted
  BY <1>1, <1>3, <1>4 DEF Review!Delete
<1>6. UNCHANGED <<posted, listed, reviewCall>> /\ Review!Storable(average')
      /\ reviews' = reviews \ {r}
  BY DEF Review!Delete
<1>7. ReviewInv'
  BY <1>1, <1>5, <1>6 DEF ReviewInv, Review!Storable
<1> QED BY <1>4, <1>7

LEMMA ReviewStep == Review!ReviewsAssumption /\ ReviewInv
                    /\ [Review!Next]_Review!vars => ReviewInv'
<1> SUFFICES ASSUME Review!ReviewsAssumption, ReviewInv,
                    [Review!Next]_Review!vars
             PROVE  ReviewInv'
  OBVIOUS
<1>1. ASSUME NEW c \in Calls, NEW u \in Buyers, NEW q \in Ratings,
             Review!BeginCreate(c, u, q)
      PROVE  ReviewInv'
  <2> DEFINE v == [step |-> "create", user |-> u, rating |-> q,
                   limit |-> Review!Of(u) # {}]
  <2>1. v \in Creates /\ v.step = "create"
    <3>1. (Review!Of(u) # {}) \in BOOLEAN
      OBVIOUS
    <3> QED BY <3>1 DEF Creates
  <2>2. reviewCall' = [reviewCall EXCEPT ![c] = v]
    BY <1>1 DEF Review!BeginCreate
  <2> HIDE DEF v
  <2> QED BY <1>1, <2>1, <2>2, ReviewBeginStep
             DEF Review!BeginCreate, ReviewCalls
<1>2. ASSUME NEW c \in Calls, NEW r \in reviews, NEW q \in Ratings,
             Review!BeginUpdate(c, r, q)
      PROVE  ReviewInv'
  <2> DEFINE v == [step |-> "update", review |-> r, rating |-> q]
  <2>1. v \in Updates(posted) /\ v.step = "update" /\ v.review = r
    BY DEF Updates, ReviewInv
  <2>2. reviewCall' = [reviewCall EXCEPT ![c] = v]
    BY <1>2 DEF Review!BeginUpdate
  <2> HIDE DEF v
  <2> QED BY <1>2, <2>1, <2>2, ReviewBeginStep
             DEF Review!BeginUpdate, ReviewCalls
<1>3. ASSUME NEW c \in Calls, Review!CommitCreate(c) PROVE ReviewInv'
  <2>1. CASE Review!Insert(reviewCall[c].user, reviewCall[c].rating)
    <3>1. reviewCall[c].user \in Buyers /\ reviewCall[c].rating \in Ratings
      BY <1>3, ReviewCallFields DEF Review!CommitCreate, ReviewInv
    <3> QED BY <1>3, <2>1, <3>1, ReviewInsertStep DEF Review!CommitCreate
  <2>2. CASE UNCHANGED <<reviews, posted, count, average>>
    BY <1>3, <2>2, ReviewEndStep DEF Review!CommitCreate
  <2> QED BY <1>3, <2>1, <2>2 DEF Review!CommitCreate
<1>4. ASSUME NEW c \in Calls, Review!CommitUpdate(c) PROVE ReviewInv'
  BY <1>4, ReviewUpdateStep
<1>5. ASSUME NEW r \in reviews, Review!Delete(r) PROVE ReviewInv'
  BY <1>5, ReviewDeleteStep
<1>6. CASE Review!Unlist
  BY <1>6 DEF Review!Unlist, ReviewInv, Review!Storable
<1>7. CASE UNCHANGED Review!vars
  BY <1>7 DEF Review!vars, ReviewInv, Review!Storable
<1> QED BY <1>1, <1>2, <1>3, <1>4, <1>5, <1>6, <1>7 DEF Review!Next
-----------------------------------------------------------------------------
(* One request at a time.  What a call saw when its statement began is      *)
(* still so when it commits: create's look at the user's reviews, and the   *)
(* review that update changes.                                              *)
ReviewTurnInv ==
    /\ ReviewInv
    /\ \A c, d \in Calls : Review!Busy(c) /\ Review!Busy(d) => c = d
    /\ \A c \in Calls :
          /\ reviewCall[c].step = "create" /\ ~reviewCall[c].limit
                => Review!Of(reviewCall[c].user) = {}
          /\ reviewCall[c].step = "update" => reviewCall[c].review \in reviews
    /\ \A r, s \in reviews : r.user = s.user => r = s

LEMMA ReviewTurnInit == Review!ReviewsAssumption /\ Review!Init
                          => ReviewTurnInv
<1> SUFFICES ASSUME Review!ReviewsAssumption, Review!Init PROVE ReviewTurnInv
  OBVIOUS
<1>1. ReviewInv
  BY ReviewInit
<1> QED BY <1>1 DEF Review!Init, ReviewTurnInv, Review!Busy, Review!Idle

\* Whoever steps has the reviews to itself.
LEMMA ReviewTurnAlone ==
  ASSUME ReviewTurnInv, NEW c \in Calls, Review!Busy(c), Review!Done(c)
  PROVE  \A d \in Calls : ~Review!Busy(d)'
<1>1. \A d \in Calls : d # c => ~Review!Busy(d)
  BY DEF ReviewTurnInv
<1>2. reviewCall' \in [Calls -> ReviewCalls(posted)]
      /\ reviewCall'[c] = Review!Idle
      /\ \A d \in Calls : d # c => reviewCall'[d] = reviewCall[d]
  BY ReviewDone DEF ReviewTurnInv, ReviewInv
<1>3. Review!Idle.step = "idle"
  BY DEF Review!Idle
<1> QED BY <1>1, <1>2, <1>3 DEF Review!Busy

\* With nobody busy only the rows count.
LEMMA ReviewTurnQuiet ==
  ASSUME ReviewInv', \A d \in Calls : ~Review!Busy(d)',
         \A r, s \in reviews' : r.user = s.user => r = s
  PROVE  ReviewTurnInv'
<1>1. \A d \in Calls : reviewCall'[d].step = "idle"
  BY DEF Review!Busy
<1> QED BY <1>1 DEF ReviewTurnInv, Review!Busy

LEMMA ReviewTurnStep ==
  Review!ReviewsAssumption /\ ReviewTurnInv
  /\ [Review!Next /\ Review!InTurn]_Review!vars => ReviewTurnInv'
<1> SUFFICES ASSUME Review!ReviewsAssumption, ReviewTurnInv,
                    [Review!Next /\ Review!InTurn]_Review!vars
             PROVE  ReviewTurnInv'
  OBVIOUS
<1>1. ReviewInv /\ ReviewInv'
  BY ReviewStep DEF ReviewTurnInv
<1>2. ASSUME NEW c \in Calls, Review!CommitCreate(c) PROVE ReviewTurnInv'
  <2>1. \A d \in Calls : ~Review!Busy(d)'
    BY <1>2, ReviewTurnAlone DEF Review!CommitCreate, Review!Busy
  <2>2. CASE ~reviewCall[c].limit
          /\ Review!Insert(reviewCall[c].user, reviewCall[c].rating)
    <3> PICK u : u = reviewCall[c].user
      OBVIOUS
    <3>1. \A r \in reviews : r.user # u
      BY <1>2, <2>2 DEF ReviewTurnInv, Review!CommitCreate, Review!Of
    <3>2. PICK x : x = [id |-> posted + 1, user |-> u,
                        rating |-> reviewCall[c].rating]
      OBVIOUS
    <3>3. reviews' = reviews \union {x} /\ x.user = u
      BY <2>2, <3>2 DEF Review!Insert
    <3>4. \A r, s \in reviews' : r.user = s.user => r = s
      BY <3>1, <3>3 DEF ReviewTurnInv
    <3> QED BY <1>1, <2>1, <3>4, ReviewTurnQuiet
  <2>3. CASE reviews' = reviews
    <3>1. \A r, s \in reviews' : r.user = s.user => r = s
      BY <2>3 DEF ReviewTurnInv
    <3> QED BY <1>1, <2>1, <3>1, ReviewTurnQuiet
  <2>4. reviewCall[c].limit \in BOOLEAN
    BY <1>2, ReviewCallFields DEF Review!CommitCreate, ReviewTurnInv, ReviewInv
  <2> QED BY <1>2, <2>2, <2>3, <2>4 DEF Review!CommitCreate
<1>3. ASSUME NEW c \in Calls, Review!CommitUpdate(c) PROVE ReviewTurnInv'
  <2>1. \A d \in Calls : ~Review!Busy(d)'
    BY <1>3, ReviewTurnAlone DEF Review!CommitUpdate, Review!Busy
  <2>2. \A r, s \in reviews' : r.user = s.user => r = s
    <3>1. CASE reviews' = reviews
      BY <3>1 DEF ReviewTurnInv
    <3>2. CASE reviews' # reviews
      <4> PICK old : old = reviewCall[c].review
        OBVIOUS
      <4>1. old \in reviews /\ old \in ReviewRows(posted)
        BY <1>3 DEF Review!CommitUpdate, ReviewTurnInv, ReviewInv
      <4>2. {s \in reviews : s.id = old.id} = {old}
        BY <4>1 DEF ReviewTurnInv, ReviewInv
      <4>3. PICK x : x = [old EXCEPT !.rating = reviewCall[c].rating]
        OBVIOUS
      <4>4. reviews' = (reviews \ {old}) \union {x}
        BY <1>3, <3>2, <4>2, <4>3 DEF Review!CommitUpdate
      <4>5. x.user = old.user
        BY <4>1, <4>3 DEF ReviewRows
      <4> QED BY <4>1, <4>4, <4>5 DEF ReviewTurnInv
    <3> QED BY <3>1, <3>2
  <2> QED BY <1>1, <2>1, <2>2, ReviewTurnQuiet
<1>4. ASSUME \A d \in Calls : ~Review!Busy(d), Review!Next,
             ~\E c \in Calls : Review!CommitCreate(c) \/ Review!CommitUpdate(c)
      PROVE  ReviewTurnInv'
  <2>1. \A d \in Calls : reviewCall[d].step = "idle"
    BY <1>4 DEF Review!Busy
  <2>2. ASSUME NEW c \in Calls, NEW u \in Buyers, NEW q \in Ratings,
               Review!BeginCreate(c, u, q)
        PROVE  ReviewTurnInv'
    <3>1. PICK v : v = [step |-> "create", user |-> u, rating |-> q,
                        limit |-> Review!Of(u) # {}]
      OBVIOUS
    <3>2. reviewCall' = [reviewCall EXCEPT ![c] = v] /\ UNCHANGED reviews
      BY <2>2, <3>1 DEF Review!BeginCreate
    <3>3. v.step = "create" /\ (~v.limit => Review!Of(v.user) = {})
      <4>1. v.step = "create" /\ v.limit = (Review!Of(u) # {}) /\ v.user = u
        BY <3>1
      <4> QED BY <4>1
    <3>4. \A d \in Calls : reviewCall'[d] = IF d = c THEN v ELSE reviewCall[d]
      BY <3>2 DEF ReviewTurnInv, ReviewInv
    <3>5. \A d, e \in Calls : Review!Busy(d)' /\ Review!Busy(e)' => d = e
      BY <2>1, <3>4 DEF Review!Busy
    <3>6. \A d \in Calls :
            /\ reviewCall'[d].step = "create" /\ ~reviewCall'[d].limit
                  => {r \in reviews' : r.user = reviewCall'[d].user} = {}
            /\ reviewCall'[d].step # "update"
      BY <2>1, <3>2, <3>3, <3>4 DEF Review!Of
    <3> QED BY <1>1, <3>2, <3>5, <3>6 DEF ReviewTurnInv, Review!Of
  <2>3. ASSUME NEW c \in Calls, NEW r \in reviews, NEW q \in Ratings,
               Review!BeginUpdate(c, r, q)
        PROVE  ReviewTurnInv'
    <3>1. PICK v : v = [step |-> "update", review |-> r, rating |-> q]
      OBVIOUS
    <3>2. reviewCall' = [reviewCall EXCEPT ![c] = v] /\ UNCHANGED reviews
      BY <2>3, <3>1 DEF Review!BeginUpdate
    <3>3. v.step = "update" /\ v.review \in reviews
      BY <3>1
    <3>4. \A d \in Calls : reviewCall'[d] = IF d = c THEN v ELSE reviewCall[d]
      BY <3>2 DEF ReviewTurnInv, ReviewInv
    <3>5. \A d, e \in Calls : Review!Busy(d)' /\ Review!Busy(e)' => d = e
      BY <2>1, <3>4 DEF Review!Busy
    <3>6. \A d \in Calls :
            /\ reviewCall'[d].step # "create"
            /\ reviewCall'[d].step = "update"
                 => reviewCall'[d].review \in reviews'
      BY <2>1, <3>2, <3>3, <3>4
    <3> QED BY <1>1, <3>2, <3>5, <3>6 DEF ReviewTurnInv, Review!Of
  <2>4. ASSUME NEW r \in reviews, Review!Delete(r) PROVE ReviewTurnInv'
    <3>1. \A d \in Calls : ~Review!Busy(d)'
      BY <1>4, <2>4 DEF Review!Delete, Review!Busy
    <3>2. \A s, t \in reviews' : s.user = t.user => s = t
      BY <2>4 DEF Review!Delete, ReviewTurnInv
    <3> QED BY <1>1, <3>1, <3>2, ReviewTurnQuiet
  <2>5. CASE Review!Unlist
    <3>1. \A d \in Calls : ~Review!Busy(d)'
      BY <1>4, <2>5 DEF Review!Unlist, Review!Busy
    <3>2. \A s, t \in reviews' : s.user = t.user => s = t
      BY <2>5 DEF Review!Unlist, ReviewTurnInv
    <3> QED BY <1>1, <3>1, <3>2, ReviewTurnQuiet
  <2> QED BY <1>4, <2>2, <2>3, <2>4, <2>5 DEF Review!Next
<1>5. CASE UNCHANGED Review!vars
  BY <1>1, <1>5 DEF Review!vars, ReviewTurnInv, Review!Busy, Review!Of
<1> QED BY <1>2, <1>3, <1>4, <1>5 DEF Review!InTurn

LEMMA ReviewTurnOne == ReviewTurnInv => Review!OneReview /\ Review!CountMatches
<1> SUFFICES ASSUME ReviewTurnInv PROVE Review!OneReview /\ Review!CountMatches
  OBVIOUS
<1>1. ASSUME NEW u \in Buyers PROVE Cardinality(Review!Of(u)) <= 1
  <2>1. CASE Review!Of(u) = {}
    <3>1. Cardinality({}) = 0
      BY FS_EmptySet
    <3> QED BY <2>1, <3>1
  <2>2. CASE Review!Of(u) # {}
    <3>1. PICK r : r \in Review!Of(u)
      BY <2>2
    <3>2. Review!Of(u) = {r}
      BY <3>1 DEF Review!Of, ReviewTurnInv
    <3>3. Cardinality({r}) = 1
      BY FS_Singleton
    <3> QED BY <3>2, <3>3
  <2> QED BY <2>1, <2>2
<1> QED BY <1>1
           DEF Review!OneReview, Review!CountMatches, ReviewTurnInv, ReviewInv

-----------------------------------------------------------------------------
\* The ratings of a set of reviews, added up.
StarsOf(R) == Total([r \in R |-> r.rating], R)

LEMMA StarsNumber ==
  ASSUME NEW R, IsFiniteSet(R), \A r \in R : r.rating \in Nat
  PROVE  StarsOf(R) \in Nat
<1> DEFINE f == [r \in R |-> r.rating]
<1>1. \A x \in R : f[x] \in Nat
  OBVIOUS
<1> HIDE DEF f
<1>2. Total(f, R) \in Nat
  BY <1>1, TotalType
<1> QED BY <1>2 DEF StarsOf, f

LEMMA StarsAdd ==
  ASSUME NEW R, IsFiniteSet(R), NEW x, x \notin R, x.rating \in Nat,
         \A r \in R : r.rating \in Nat
  PROVE  StarsOf(R \union {x}) = StarsOf(R) + x.rating
<1> DEFINE f == [r \in R |-> r.rating]
           g == [r \in R \union {x} |-> r.rating]
<1>1. /\ \A y \in R \union {x} : g[y] \in Nat
      /\ g[x] = x.rating /\ \A y \in R : g[y] = f[y]
  OBVIOUS
<1> HIDE DEF f, g
<1>2. Total(g, R \union {x}) = Total(g, R) + g[x]
  BY <1>1, TotalAdd
<1>3. Total(g, R) = Total(f, R)
  BY <1>1, TotalAgree
<1> QED BY <1>1, <1>2, <1>3 DEF StarsOf, f, g

LEMMA StarsRemove ==
  ASSUME NEW R, IsFiniteSet(R), NEW x \in R, \A r \in R : r.rating \in Nat
  PROVE  StarsOf(R \ {x}) = StarsOf(R) - x.rating
<1>1. IsFiniteSet(R \ {x}) /\ x \notin R \ {x} /\ (R \ {x}) \union {x} = R
  BY FS_RemoveElement
<1>2. StarsOf((R \ {x}) \union {x}) = StarsOf(R \ {x}) + x.rating
  BY <1>1, StarsAdd
<1>3. StarsOf(R \ {x}) \in Nat /\ x.rating \in Nat
  BY <1>1, StarsNumber
<1>4. StarsOf(R) = StarsOf(R \ {x}) + x.rating
  BY <1>1, <1>2
<1>5. \A a, b, d \in Nat : a = b + d => b = a - d
  OBVIOUS
<1>6. StarsOf(R) \in Nat
  BY StarsNumber
<1> QED BY <1>3, <1>4, <1>5, <1>6

\* A half at the most, or the deletion that sets the average to 0.
ReviewRounding ==
    count' > 0 => \/ 2 * (Review!Off' - Review!Off) \in -count'..count'
                  \/ count' < count /\ average' = 0

LEMMA ReviewNumbers ==
  ASSUME Review!ReviewsAssumption, ReviewInv
  PROVE  /\ count \in Nat /\ average \in Int /\ IsFiniteSet(reviews)
         /\ \A r \in reviews : r.rating \in 1..5
         /\ Review!Stars = StarsOf(reviews) /\ StarsOf(reviews) \in Nat
<1>1. \A r \in reviews : r.rating \in 1..5
  BY RowFields DEF ReviewInv, Review!ReviewsAssumption
<1>2. IsFiniteSet(reviews) /\ Review!Stars = StarsOf(reviews)
  BY DEF ReviewInv, Review!Stars, StarsOf
<1>3. StarsOf(reviews) \in Nat
  <2>1. \A r \in reviews : r.rating \in Nat
    BY <1>1
  <2> QED BY <1>2, <2>1, StarsNumber
<1>4. count \in Nat /\ average \in Int
  BY DEF ReviewInv, Review!Storable, Review!ReviewsAssumption
<1> QED BY <1>1, <1>2, <1>3, <1>4

\* The steps that change neither the reviews nor the average.
LEMMA RoundingSame ==
  ASSUME Review!ReviewsAssumption, ReviewInv,
         UNCHANGED <<reviews, count, average>>
  PROVE  ReviewRounding
<1>1. count \in Nat /\ average \in Int /\ Review!Stars \in Nat
  BY ReviewNumbers
<1>2. Review!Stars' = Review!Stars /\ average' * count' = average * count
  BY DEF Review!Stars
<1>3. average * count \in Int
  BY <1>1
<1> DEFINE a == average * count
<1>4. Review!Off = a - 100 * Review!Stars
      /\ Review!Off' = a - 100 * Review!Stars /\ a \in Int
  BY <1>2, <1>3 DEF Review!Off
<1> HIDE DEF a
<1>5. Review!Off' - Review!Off = 0 /\ count' = count
  BY <1>1, <1>4
<1>6. 2 * (Review!Off' - Review!Off) \in -count'..count'
  BY <1>1, <1>5
<1> QED BY <1>6 DEF ReviewRounding

LEMMA RoundingInsert ==
  ASSUME Review!ReviewsAssumption, ReviewInv, ReviewInv', NEW u \in Buyers,
         NEW q \in Ratings, Review!Insert(u, q)
  PROVE  ReviewRounding
<1>1. /\ count \in Nat /\ average \in Int /\ IsFiniteSet(reviews)
      /\ \A r \in reviews : r.rating \in 1..5
      /\ Review!Stars = StarsOf(reviews) /\ StarsOf(reviews) \in Nat
  BY ReviewNumbers
<1> PICK x : x = [id |-> posted + 1, user |-> u, rating |-> q]
  OBVIOUS
<1>2. /\ reviews' = reviews \union {x} /\ count' = count + 1
      /\ average' = Review!Added(q) /\ x.id = posted + 1 /\ x.rating = q
  BY DEF Review!Insert
<1>3. x \notin reviews
  <2>1. posted \in Nat /\ \A r \in reviews : r.id \in 1..posted
    BY RowFields DEF ReviewInv, Review!ReviewsAssumption
  <2> QED BY <1>2, <2>1
<1>4. q \in 1..5
  BY DEF Review!ReviewsAssumption
<1>5. Review!Stars' = Review!Stars + q
  <2>1. x.rating \in Nat /\ \A r \in reviews : r.rating \in Nat
    BY <1>1, <1>2, <1>4
  <2>2. StarsOf(reviews \union {x}) = StarsOf(reviews) + x.rating
    BY <1>1, <1>3, <2>1, StarsAdd
  <2>3. Review!Stars' = StarsOf(reviews \union {x})
    BY <1>2 DEF Review!Stars, StarsOf
  <2> QED BY <1>1, <1>2, <2>2, <2>3
<1>6. Review!Storable(average)
  BY DEF ReviewInv
<1>7. /\ Review!Added(q) \in Int
      /\ 2 * (Review!Added(q) * (count + 1) - (average * count + 100 * q))
            \in -(count + 1)..(count + 1)
  BY <1>1, <1>6, ReviewAdded
<1> DEFINE a == average * count
           b == Review!Added(q) * (count + 1)
<1>8. /\ a \in Int /\ b \in Int /\ Review!Off = a - 100 * Review!Stars
      /\ Review!Off' = b - 100 * (Review!Stars + q)
      /\ 2 * (b - (a + 100 * q)) \in -(count + 1)..(count + 1)
  BY <1>1, <1>2, <1>5, <1>7 DEF Review!Off
<1> HIDE DEF a, b
<1>9. 2 * (Review!Off' - Review!Off) = 2 * (b - (a + 100 * q))
  BY <1>1, <1>4, <1>8
<1>10. 2 * (Review!Off' - Review!Off) \in -count'..count'
  BY <1>2, <1>8, <1>9
<1> QED BY <1>10 DEF ReviewRounding

LEMMA RoundingUpdate ==
  ASSUME Review!ReviewsAssumption, ReviewTurnInv, NEW c \in Calls,
         Review!CommitUpdate(c)
  PROVE  ReviewRounding
<1> ReviewInv
  BY DEF ReviewTurnInv
<1>1. /\ count \in Nat /\ average \in Int /\ IsFiniteSet(reviews)
      /\ \A r \in reviews : r.rating \in 1..5
      /\ Review!Stars = StarsOf(reviews) /\ StarsOf(reviews) \in Nat
  BY ReviewNumbers
<1> PICK old, q : old = reviewCall[c].review /\ q = reviewCall[c].rating
  OBVIOUS
<1>2. /\ old \in reviews /\ old \in ReviewRows(posted) /\ q \in 1..5
      /\ old.rating \in 1..5
  <2>1. q \in Ratings
    BY ReviewCallFields DEF ReviewInv, Review!CommitUpdate
  <2>2. old \in reviews /\ old \in ReviewRows(posted)
    BY DEF Review!CommitUpdate, ReviewTurnInv, ReviewInv
  <2> QED BY <1>1, <2>1, <2>2 DEF Review!ReviewsAssumption
<1>3. {s \in reviews : s.id = old.id} = {old}
  BY <1>2 DEF ReviewInv
<1>4. CASE UNCHANGED <<reviews, average>>
  BY <1>4, RoundingSame DEF Review!CommitUpdate
<1>5. CASE ~UNCHANGED <<reviews, average>>
  <2>1. PICK x : /\ x = [old EXCEPT !.rating = q]
                 /\ reviews' = (reviews \ {old}) \union {x}
    BY <1>3, <1>5 DEF Review!CommitUpdate
  <2>2. average' = Review!Changed(old.rating, q) /\ count' = count
    BY <1>5 DEF Review!CommitUpdate
  <2>3. x.rating = q /\ x.id = old.id
    BY <1>2, <2>1 DEF ReviewRows
  <2>4. x \notin reviews \ {old}
    BY <1>2, <2>3 DEF ReviewInv
  <2>5. Review!Stars' = Review!Stars - old.rating + q
    <3>1. \A r \in reviews : r.rating \in Nat
      BY <1>1
    <3>2. IsFiniteSet(reviews \ {old})
      BY <1>1, FS_RemoveElement
    <3>3. StarsOf(reviews \ {old}) = StarsOf(reviews) - old.rating
      BY <1>1, <1>2, <3>1, StarsRemove
    <3>4. StarsOf((reviews \ {old}) \union {x})
             = StarsOf(reviews \ {old}) + x.rating
      <4>1. x.rating \in Nat
        BY <1>2, <2>3
      <4> QED BY <2>4, <3>1, <3>2, <4>1, StarsAdd
    <3>5. Review!Stars' = StarsOf((reviews \ {old}) \union {x})
      BY <2>1 DEF Review!Stars, StarsOf
    <3> QED BY <1>1, <2>3, <3>3, <3>4, <3>5
  <2>6. count \in Nat \ {0}
    <3>1. count = Cardinality(reviews) /\ count # 0
      BY <1>1, <1>2, FS_EmptySet DEF ReviewInv
    <3> QED BY <1>1, <3>1
  <2> DEFINE a == average * count
             t == a - 100 * old.rating + 100 * q
             b == Review!Quantized(t, count) * count
  <2>7. a \in Int
    BY <1>1
  <2>8. Review!Changed(old.rating, q) = Review!Quantized(t, count)
    BY <2>6 DEF Review!Changed
  <2>9. Review!Off = a - 100 * Review!Stars
    BY DEF Review!Off
  <2>10. Review!Off' = b - 100 * Review!Stars'
    BY <2>2, <2>8 DEF Review!Off
  <2> HIDE DEF a
  <2>11. t \in Int
    BY <1>2, <2>7
  <2> HIDE DEF t
  <2>12. Review!Quantized(t, count) \in Int
         /\ 2 * (Review!Quantized(t, count) * count - t) \in -count..count
    BY <2>6, <2>11, QuantizedNear
  <2>13. b \in Int /\ 2 * (b - t) \in -count..count
    BY <2>6, <2>12
  <2> HIDE DEF b
  <2>14. 2 * (Review!Off' - Review!Off) = 2 * (b - t)
    BY <1>1, <1>2, <2>5, <2>7, <2>9, <2>10, <2>11, <2>13 DEF t
  <2>15. 2 * (Review!Off' - Review!Off) \in -count'..count'
    BY <2>2, <2>13, <2>14
  <2> QED BY <2>15 DEF ReviewRounding
<1> QED BY <1>4, <1>5

LEMMA RoundingDelete ==
  ASSUME Review!ReviewsAssumption, ReviewInv, NEW r \in reviews,
         Review!Delete(r)
  PROVE  ReviewRounding
<1>1. /\ count \in Nat /\ average \in Int /\ IsFiniteSet(reviews)
      /\ \A s \in reviews : s.rating \in 1..5
      /\ Review!Stars = StarsOf(reviews) /\ StarsOf(reviews) \in Nat
  BY ReviewNumbers
<1>2. count > 0 /\ count' = count - 1
  BY ReviewDeleteStep
<1>3. CASE count = 1
  BY <1>2, <1>3 DEF ReviewRounding
<1>4. CASE count > 1
  <2> DEFINE a == average * count
             left == a - 100 * r.rating
             n == count - 1
             t == IF left > 0 THEN left ELSE 0
             b == Review!Quantized(t, n) * n
  <2>1. a \in Int
    BY <1>1
  <2>2. average' = Review!Quantized(t, n)
    BY <1>4 DEF Review!Delete, Review!TakenOut
  <2>3. Review!Stars' = Review!Stars - r.rating
    <3>1. \A s \in reviews : s.rating \in Nat
      BY <1>1
    <3>2. StarsOf(reviews \ {r}) = StarsOf(reviews) - r.rating
      BY <1>1, <3>1, StarsRemove
    <3>3. Review!Stars' = StarsOf(reviews \ {r})
      BY DEF Review!Delete, Review!Stars, StarsOf
    <3> QED BY <1>1, <3>2, <3>3
  <2>4. Review!Off = a - 100 * Review!Stars
        /\ Review!Off' = b - 100 * Review!Stars'
    BY <1>2, <2>2 DEF Review!Off
  <2>5. n \in Nat \ {0} /\ count' = n
    BY <1>1, <1>2, <1>4
  <2> HIDE DEF a
  <2>6. left \in Int /\ r.rating \in 1..5
    BY <1>1, <2>1
  <2> HIDE DEF left
  <2>7. t \in Int
    BY <2>6
  <2> HIDE DEF t, n
  <2>8. /\ Review!Quantized(t, n) \in Int
        /\ 2 * (Review!Quantized(t, n) * n - t) \in -n..n
        /\ \A lo, hi \in Int : lo * n <= t /\ t <= hi * n
                                   => Review!Quantized(t, n) \in lo..hi
    BY <2>5, <2>7, QuantizedNear
  <2>9. CASE left > 0
    <3>1. t = left
      BY <2>9 DEF t
    <3>2. b \in Int /\ 2 * (b - left) \in -n..n
      BY <2>5, <2>8, <3>1
    <3> HIDE DEF b
    <3>3. 2 * (Review!Off' - Review!Off) = 2 * (b - left)
      BY <1>1, <2>1, <2>3, <2>4, <2>6, <3>2 DEF left
    <3>4. 2 * (Review!Off' - Review!Off) \in -count'..count'
      BY <2>5, <3>2, <3>3
    <3> QED BY <3>4 DEF ReviewRounding
  <2>10. CASE ~(left > 0)
    <3>1. t = 0
      BY <2>10 DEF t
    <3>2. 0 * n <= t /\ t <= 0 * n
      BY <2>5, <3>1
    <3>3. Review!Quantized(t, n) \in 0..0
      BY <2>8, <3>2
    <3>4. average' = 0 /\ count' < count
      BY <1>1, <1>2, <2>2, <3>3
    <3> QED BY <3>4 DEF ReviewRounding
  <2> QED BY <2>9, <2>10
<1> QED BY <1>1, <1>2, <1>3, <1>4

LEMMA ReviewRoundingStep ==
  Review!ReviewsAssumption /\ ReviewTurnInv
    /\ [Review!Next /\ Review!InTurn]_Review!vars
     => [ReviewRounding]_Review!vars
<1> SUFFICES ASSUME Review!ReviewsAssumption, ReviewTurnInv, Review!Next
             PROVE  ReviewRounding
  OBVIOUS
<1> ReviewInv
  BY DEF ReviewTurnInv
<1>0. ReviewInv'
  BY ReviewStep
<1>1. ASSUME NEW c \in Calls, NEW u \in Buyers, NEW q \in Ratings,
             Review!BeginCreate(c, u, q)
      PROVE  ReviewRounding
  BY <1>1, RoundingSame DEF Review!BeginCreate
<1>2. ASSUME NEW c \in Calls, NEW r \in reviews, NEW q \in Ratings,
             Review!BeginUpdate(c, r, q)
      PROVE  ReviewRounding
  BY <1>2, RoundingSame DEF Review!BeginUpdate
<1>3. ASSUME NEW c \in Calls, Review!CommitCreate(c) PROVE ReviewRounding
  <2>1. CASE Review!Insert(reviewCall[c].user, reviewCall[c].rating)
    <3>1. reviewCall[c].user \in Buyers /\ reviewCall[c].rating \in Ratings
      BY <1>3, ReviewCallFields DEF Review!CommitCreate, ReviewInv
    <3> QED BY <1>0, <2>1, <3>1, RoundingInsert
  <2>2. CASE UNCHANGED <<reviews, posted, count, average>>
    BY <2>2, RoundingSame
  <2> QED BY <1>3, <2>1, <2>2 DEF Review!CommitCreate
<1>4. ASSUME NEW c \in Calls, Review!CommitUpdate(c) PROVE ReviewRounding
  BY <1>4, RoundingUpdate
<1>5. ASSUME NEW r \in reviews, Review!Delete(r) PROVE ReviewRounding
  BY <1>5, RoundingDelete
<1>6. CASE Review!Unlist
  BY <1>6, RoundingSame DEF Review!Unlist
<1> QED BY <1>1, <1>2, <1>3, <1>4, <1>5, <1>6 DEF Review!Next

-----------------------------------------------------------------------------
(***************************************************************************)
(* Replies to a review and reactions to it.                                *)
(***************************************************************************)
(* The instance's copy of FiniteSets is FiniteSets.                        *)
LEMMA ReplyFinite == \A S : Reply!IsFiniteSet(S) <=> IsFiniteSet(S)
  BY DEF Reply!IsFiniteSet, IsFiniteSet
LEMMA ReplyCardinality ==
  ASSUME NEW S PROVE Reply!Cardinality(S) = Cardinality(S)
  BY Zenon DEF Reply!Cardinality, Cardinality
USE ReplyFinite, ReplyCardinality

Reacted == {u \in (Buyers \union Team) : react[u] # Reply!None}
ReplyRows ==
  [id : 1..MaxReplies, user : (Buyers \union Team), route : Reply!Routes]
ReplyCalls ==
    {Reply!Idle} \union [step : {"reply"}, user : (Buyers \union Team),
                         exists : BOOLEAN]
           \union [step : {"delete"}, reply : ReplyRows, route : Reply!Routes,
                   count : 0..MaxReplies]
           \union [step : {"react"}, user : (Buyers \union Team),
                   kind : Reactions,
                   existing : Reactions \union {Reply!None},
                   count : 0..Cardinality(Buyers \union Team)]

ReplyTyped ==
    /\ there \in BOOLEAN /\ made \in 0..MaxReplies /\ strays \in Nat
    /\ replies \subseteq ReplyRows /\ IsFiniteSet(replies)
    /\ \A r \in replies : r.id <= made
    /\ counts \in [Reply!Routes -> 0..MaxReplies]
    /\ react \in [(Buyers \union Team) -> Reactions \union {Reply!None}]
    /\ reacted \in 0..Cardinality(Buyers \union Team)
    /\ replyCall \in [Calls -> ReplyCalls]

(* No count exceeds the replies ever made, be it stored or remembered.     *)
FewerThanMade ==
    /\ \A w \in Reply!Routes : counts[w] <= made
    /\ \A c \in Calls : replyCall[c].step = "delete"
         => replyCall[c].count <= made

(* A review that is gone has taken all along, and the handlers that still  *)
(* refer to something of it.                                               *)
GoneWithReview ==
    /\ ~there => replies = {} /\ reacted = 0
    /\ \A c \in Calls : replyCall[c].step \in {"delete", "react"} => there

(* A request that reacts holds the review's row alone and knows it as it   *)
(* is.                                                                     *)
ReactAlone ==
    /\ \A c, d \in Calls :
         replyCall[c].step = "react" /\ replyCall[d].step = "react" => c = d
    /\ \A c \in Calls : replyCall[c].step = "react" =>
         /\ replyCall[c].existing = react[replyCall[c].user]
         /\ replyCall[c].count = reacted

ReplyInv == /\ ReplyTyped /\ FewerThanMade /\ GoneWithReview /\ ReactAlone
            /\ Reply!ReactionsCounted

-----------------------------------------------------------------------------
LEMMA ReplyCallFields ==
  ASSUME Reply!RepliesAssumption, ReplyTyped, NEW c \in Calls
  PROVE  /\ replyCall[c].step = "reply"
              => replyCall[c] \in [step : {"reply"},
                                   user : (Buyers \union Team),
                                   exists : BOOLEAN]
         /\ replyCall[c].step = "delete"
              => replyCall[c] \in [step : {"delete"}, reply : ReplyRows,
                              route : Reply!Routes, count : 0..MaxReplies]
         /\ replyCall[c].step = "react"
              => replyCall[c] \in [step : {"react"},
                                   user : (Buyers \union Team),
                                   kind : Reactions,
                              existing : Reactions \union {Reply!None},
                              count : 0..Cardinality(Buyers \union Team)]
<1>1. replyCall[c] \in ReplyCalls
  BY DEF ReplyTyped
<1> QED BY <1>1 DEF ReplyCalls, Reply!Idle

LEMMA ReactedIsFinite ==
  ASSUME Reply!RepliesAssumption
  PROVE  /\ IsFiniteSet(Reacted) /\ Cardinality(Reacted) \in Nat
         /\ Cardinality(Reacted) <= Cardinality(Buyers \union Team)
         /\ Cardinality(Buyers \union Team) \in Nat
<1>1. Reacted \in SUBSET (Buyers \union Team)
  BY DEF Reacted
<1> QED BY <1>1, FS_Subset, FS_CardinalityType DEF Reply!RepliesAssumption

LEMMA ReplyInit ==
  ASSUME Reply!RepliesAssumption
  PROVE  Reply!Init => ReplyInv
<1> SUFFICES ASSUME Reply!Init PROVE ReplyInv
  OBVIOUS
<1>1. Cardinality(Buyers \union Team) \in Nat
  BY ReactedIsFinite
<1>2. ReplyTyped
  BY <1>1, FS_EmptySet
     DEF Reply!Init, ReplyTyped, ReplyCalls, Reply!Routes,
         Reply!RepliesAssumption
<1>3. FewerThanMade /\ GoneWithReview /\ ReactAlone
  BY DEF Reply!Init, FewerThanMade, GoneWithReview, ReactAlone, Reply!Idle
<1>4. Reacted = {}
  BY DEF Reacted, Reply!Init
<1>5. Reply!ReactionsCounted
  BY <1>4, FS_EmptySet DEF Reply!ReactionsCounted, Reacted, Reply!Init
<1> QED BY <1>2, <1>3, <1>5 DEF ReplyInv

(* A handler begins: only call changes.                                    *)
LEMMA ReplyBegins ==
  ASSUME Reply!RepliesAssumption, ReplyInv, NEW c \in Calls,
         NEW r \in ReplyCalls,
         replyCall' = [replyCall EXCEPT ![c] = r],
         UNCHANGED <<there, replies, made, strays, counts, react, reacted>>,
         r.step = "delete" => there /\ r.count <= made,
         r.step = "react" => /\ there /\ Reply!ReviewFree
                             /\ r.existing = react[r.user] /\ r.count = reacted
  PROVE  ReplyInv'
<1>1. replyCall'[c] = r /\ \A d \in Calls : d # c
        => replyCall'[d] = replyCall[d]
  BY DEF ReplyInv, ReplyTyped
<1>2. ReplyTyped'
  BY DEF ReplyInv, ReplyTyped
<1>3. FewerThanMade'
  BY <1>1 DEF ReplyInv, FewerThanMade
<1>4. GoneWithReview'
  BY <1>1 DEF ReplyInv, GoneWithReview
<1>5. ReactAlone'
  BY <1>1 DEF ReplyInv, ReactAlone, Reply!ReviewFree
<1>6. Reply!ReactionsCounted'
  BY DEF ReplyInv, Reply!ReactionsCounted
<1> QED BY <1>2, <1>3, <1>4, <1>5, <1>6 DEF ReplyInv

(* A handler ends without a reaction: replies and their counts may change. *)
LEMMA ReplyEnds ==
  ASSUME Reply!RepliesAssumption, ReplyInv,
         replyCall' \in [Calls -> ReplyCalls],
         \A d \in Calls : replyCall'[d] = replyCall[d]
           \/ replyCall'[d] = Reply!Idle,
         UNCHANGED <<there, react, reacted>>,
         made' \in 0..MaxReplies, made <= made', strays' \in Nat,
         replies' \subseteq ReplyRows, IsFiniteSet(replies'),
         \A r \in replies' : r.id <= made',
         there \/ replies' = {},
         counts' \in [Reply!Routes -> 0..MaxReplies],
         \A w \in Reply!Routes : counts'[w] <= made'
  PROVE  ReplyInv'
<1>1. \A d \in Calls : replyCall'[d].step \in {"delete", "react"}
                          => replyCall'[d] = replyCall[d]
  BY DEF Reply!Idle
<1>2. ReplyTyped'
  BY DEF ReplyInv, ReplyTyped
<1>3. FewerThanMade'
  <2>1. ASSUME NEW d \in Calls, replyCall'[d].step = "delete"
        PROVE  replyCall'[d].count <= made'
    BY <2>1, <1>1, ReplyCallFields DEF ReplyInv, FewerThanMade, ReplyTyped
  <2> QED BY <2>1 DEF FewerThanMade
<1>4. GoneWithReview'
  BY <1>1 DEF ReplyInv, GoneWithReview
<1>5. ReactAlone'
  BY <1>1 DEF ReplyInv, ReactAlone
<1>6. Reply!ReactionsCounted'
  BY DEF ReplyInv, Reply!ReactionsCounted
<1> QED BY <1>2, <1>3, <1>4, <1>5, <1>6 DEF ReplyInv

LEMMA InsertTyped ==
  ASSUME Reply!RepliesAssumption, ReplyInv, NEW u \in (Buyers \union Team),
         NEW w \in Reply!Routes,
         Reply!Insert(u, w)
  PROVE  /\ made' \in 0..MaxReplies /\ made <= made'
         /\ replies' \subseteq ReplyRows /\ IsFiniteSet(replies')
         /\ \A r \in replies' : r.id <= made'
         /\ counts' \in [Reply!Routes -> 0..MaxReplies]
         /\ \A v \in Reply!Routes : counts'[v] <= made'
<1> DEFINE new == [id |-> made + 1, user |-> u, route |-> w]
<1> USE DEF Reply!RepliesAssumption
<1>1. made' = made + 1 /\ made' \in 0..MaxReplies /\ made <= made'
  BY DEF Reply!Insert, ReplyInv, ReplyTyped
<1>2. replies' = replies \union {new} /\ new \in ReplyRows
  BY <1>1 DEF Reply!Insert, ReplyRows, ReplyInv, ReplyTyped
<1>3. IsFiniteSet(replies')
  BY <1>2, FS_AddElement DEF ReplyInv, ReplyTyped
<1>4. \A r \in replies' : r.id <= made'
  BY <1>1, <1>2 DEF ReplyInv, ReplyTyped, ReplyRows
<1>5. \A v \in Reply!Routes : counts'[v] \in 0..made'
  BY <1>1 DEF Reply!Insert, ReplyInv, ReplyTyped, FewerThanMade
<1>6. counts' \in [Reply!Routes -> 0..MaxReplies]
  BY <1>1, <1>5 DEF Reply!Insert, ReplyInv, ReplyTyped
<1> QED BY <1>1, <1>2, <1>3, <1>4, <1>5, <1>6 DEF ReplyInv, ReplyTyped

(* Adding, replacing or taking back one reaction, and the count with it.   *)
LEMMA ReactKeeps ==
  ASSUME Reply!RepliesAssumption, ReplyInv, NEW c \in Calls,
         Reply!CommitReact(c)
  PROVE  ReplyInv'
<1> DEFINE u == replyCall[c].user
           k == replyCall[c].kind
           now == IF react[u] = k THEN Reply!None ELSE k
<1>1. /\ u \in (Buyers \union Team) /\ k \in Reactions /\ k # Reply!None
      /\ replyCall[c].existing = react[u] /\ replyCall[c].count = reacted
      /\ replyCall[c].step = "react" /\ there
  BY ReplyCallFields
     DEF Reply!CommitReact, ReplyInv, ReactAlone, GoneWithReview,
         Reply!RepliesAssumption, Reply!None
<1>2. /\ react' = [react EXCEPT ![u] = now]
      /\ reacted' = CASE react[u] = k -> IF reacted > 0 THEN reacted - 1 ELSE 0
                      [] react[u] = Reply!None -> reacted + 1
                      [] OTHER -> reacted
      /\ replyCall' = [replyCall EXCEPT ![c] = Reply!Idle]
      /\ UNCHANGED <<there, replies, made, strays, counts>>
  BY <1>1 DEF Reply!CommitReact, Reply!Done
<1>3. reacted = Cardinality(Reacted)
  BY DEF ReplyInv, Reply!ReactionsCounted, Reacted
<1> HIDE DEF u, k
<1>4. /\ react'[u] = now /\ \A v \in (Buyers \union Team) : v # u
           => react'[v] = react[v]
      /\ react' \in [(Buyers \union Team) -> Reactions \union {Reply!None}]
  BY <1>1, <1>2 DEF ReplyInv, ReplyTyped
<1>5. reacted' = Cardinality(Reacted')
  <2>1. CASE react[u] = k
    <3>1. Reacted' = Reacted \ {u} /\ u \in Reacted
      BY <2>1, <1>1, <1>4 DEF Reacted
    <3>2. Cardinality(Reacted') = Cardinality(Reacted) - 1
      BY <3>1, ReactedIsFinite, FS_RemoveElement
    <3>3. Cardinality(Reacted) > 0
      BY <3>1, ReactedIsFinite, FS_EmptySet
    <3> QED BY <2>1, <3>2, <3>3, <1>1, <1>2, <1>3
  <2>2. CASE react[u] = Reply!None
    <3>1. Reacted' = Reacted \union {u} /\ u \notin Reacted
      BY <2>2, <1>1, <1>4 DEF Reacted
    <3>2. Cardinality(Reacted') = Cardinality(Reacted) + 1
      BY <3>1, ReactedIsFinite, FS_AddElement
    <3> QED BY <2>2, <3>2, <1>1, <1>2, <1>3
  <2>3. CASE react[u] # k /\ react[u] # Reply!None
    <3>1. Reacted' = Reacted
      BY <2>3, <1>1, <1>4 DEF Reacted
    <3> QED BY <2>3, <3>1, <1>1, <1>2, <1>3
  <2> QED BY <2>1, <2>2, <2>3
<1>6. reacted' \in 0..Cardinality(Buyers \union Team)
  <2>1. Reacted' \in SUBSET (Buyers \union Team)
    BY DEF Reacted
  <2> QED BY <2>1, <1>5, FS_Subset, FS_CardinalityType, ReactedIsFinite
          DEF Reply!RepliesAssumption
<1>7. /\ replyCall' \in [Calls -> ReplyCalls]
      /\ \A d \in Calls : d # c => replyCall'[d] = replyCall[d]
      /\ \A d \in Calls : replyCall'[d].step # "react"
  BY <1>1, <1>2 DEF ReplyInv, ReplyTyped, ReplyCalls, ReactAlone, Reply!Idle
<1>8. ReplyTyped'
  BY <1>2, <1>4, <1>6, <1>7 DEF ReplyInv, ReplyTyped
<1>9. FewerThanMade'
  BY <1>2, <1>7 DEF ReplyInv, ReplyTyped, FewerThanMade, Reply!Idle
<1>10. GoneWithReview' /\ ReactAlone'
  BY <1>1, <1>2, <1>7 DEF GoneWithReview, ReactAlone
<1>11. Reply!ReactionsCounted'
  BY <1>5 DEF Reply!ReactionsCounted, Reacted
<1> QED BY <1>8, <1>9, <1>10, <1>11 DEF ReplyInv

LEMMA DeleteReviewKeeps ==
  ASSUME Reply!RepliesAssumption, ReplyInv, Reply!DeleteReview
  PROVE  ReplyInv'
<1>1. \A c \in Calls : replyCall'[c].step \notin {"delete", "react"}
  BY DEF Reply!DeleteReview, Reply!ReviewFree, Reply!Idle
<1>2. replyCall' \in [Calls -> ReplyCalls]
  BY DEF Reply!DeleteReview, ReplyInv, ReplyTyped, ReplyCalls
<1>3. ReplyTyped'
  <2>1. Cardinality(Buyers \union Team) \in Nat
    BY ReactedIsFinite
  <2>2. counts' \in [Reply!Routes -> 0..MaxReplies]
    BY DEF Reply!DeleteReview, Reply!RepliesAssumption
  <2>3. IsFiniteSet(replies') /\ replies' = {}
    BY FS_EmptySet DEF Reply!DeleteReview
  <2>4. react' \in [(Buyers \union Team) -> Reactions \union {Reply!None}]
    BY DEF Reply!DeleteReview
  <2>5. there' = FALSE /\ reacted' = 0 /\ UNCHANGED made /\ strays' = 0
    BY DEF Reply!DeleteReview
  <2>6. there' \in BOOLEAN
    BY <2>5
  <2>7. reacted' \in 0..Cardinality(Buyers \union Team)
    BY <2>1, <2>5
  <2> QED BY <1>2, <2>2, <2>3, <2>4, <2>5, <2>6, <2>7 DEF ReplyInv, ReplyTyped
<1>4. FewerThanMade' /\ GoneWithReview' /\ ReactAlone'
  BY <1>1 DEF Reply!DeleteReview, FewerThanMade, GoneWithReview, ReactAlone,
              ReplyInv, ReplyTyped
<1>5. Reacted' = {}
  BY DEF Reacted, Reply!DeleteReview
<1>6. Reply!ReactionsCounted'
  BY <1>5, FS_EmptySet DEF Reply!ReactionsCounted, Reacted, Reply!DeleteReview
<1> QED BY <1>3, <1>4, <1>6 DEF ReplyInv

LEMMA ReplyStep ==
  ASSUME Reply!RepliesAssumption
  PROVE  ReplyInv /\ [Reply!Next]_Reply!vars => ReplyInv'
<1> SUFFICES ASSUME ReplyInv, [Reply!Next]_Reply!vars PROVE ReplyInv'
  OBVIOUS
<1> USE DEF Reply!RepliesAssumption
<1>1. ASSUME NEW c \in Calls, NEW u \in (Buyers \union Team),
             Reply!BeginReply(c, u)
      PROVE  ReplyInv'
  <2> DEFINE r == [step |-> "reply", user |-> u,
                   exists |-> \E q \in replies : q.user = u]
  <2>1. r \in ReplyCalls
    BY DEF ReplyCalls
  <2> QED BY <1>1, <2>1, ReplyBegins DEF Reply!BeginReply
<1>2. ASSUME NEW c \in Calls, NEW q \in replies, NEW w \in Reply!Routes,
             Reply!BeginDelete(c, q, w)
      PROVE  ReplyInv'
  <2> DEFINE r == [step |-> "delete", reply |-> q, route |-> w,
                   count |-> counts[w]]
  <2>1. r \in ReplyCalls /\ r.step = "delete" /\ r.count <= made
    BY DEF ReplyCalls, ReplyInv, ReplyTyped, FewerThanMade
  <2>2. there
    BY DEF ReplyInv, GoneWithReview
  <2> QED BY <1>2, <2>1, <2>2, ReplyBegins DEF Reply!BeginDelete
<1>3. ASSUME NEW c \in Calls, NEW u \in (Buyers \union Team),
             NEW k \in Reactions,
             Reply!BeginReact(c, u, k)
      PROVE  ReplyInv'
  <2> DEFINE r == [step |-> "react", user |-> u, kind |-> k,
                   existing |-> react[u], count |-> reacted]
  <2>1. r \in ReplyCalls
    BY DEF ReplyCalls, ReplyInv, ReplyTyped
  <2> QED BY <1>3, <2>1, ReplyBegins DEF Reply!BeginReact
<1>4. ASSUME NEW c \in Calls, Reply!CommitReply(c) PROVE ReplyInv'
  <2>1. /\ replyCall' = [replyCall EXCEPT ![c] = Reply!Idle]
        /\ UNCHANGED <<there, strays, react, reacted>> /\ strays' \in Nat
        /\ replyCall[c].user \in (Buyers \union Team)
        /\ "product" \in Reply!Routes
    BY <1>4, ReplyCallFields
       DEF Reply!CommitReply, Reply!Done, ReplyInv, ReplyTyped, Reply!Routes
  <2>2. /\ replyCall' \in [Calls -> ReplyCalls]
        /\ \A d \in Calls : replyCall'[d] = replyCall[d]
             \/ replyCall'[d] = Reply!Idle
    BY <2>1 DEF ReplyInv, ReplyTyped, ReplyCalls
  <2>3. CASE there /\ Reply!Insert(replyCall[c].user, "product")
    BY <2>1, <2>2, <2>3, InsertTyped, ReplyEnds
  <2>4. CASE UNCHANGED <<replies, made, counts>>
    BY <2>1, <2>2, <2>4, ReplyEnds
       DEF ReplyInv, ReplyTyped, FewerThanMade, GoneWithReview
  <2> QED BY <1>4, <2>3, <2>4 DEF Reply!CommitReply
<1>5. ASSUME NEW c \in Calls, Reply!CommitDelete(c) PROVE ReplyInv'
  <2> DEFINE n == replyCall[c].count
  <2>1. /\ replyCall' = [replyCall EXCEPT ![c] = Reply!Idle]
        /\ UNCHANGED <<there, react, reacted, made>> /\ strays' \in Nat
        /\ there /\ replies' = replies \ {replyCall[c].reply}
    BY <1>5
       DEF Reply!CommitDelete, Reply!Done, ReplyInv, ReplyTyped, GoneWithReview
  <2>2. /\ replyCall' \in [Calls -> ReplyCalls]
        /\ \A d \in Calls : replyCall'[d] = replyCall[d]
             \/ replyCall'[d] = Reply!Idle
    BY <2>1 DEF ReplyInv, ReplyTyped, ReplyCalls
  <2>3. replyCall[c].route \in Reply!Routes /\ n \in 0..MaxReplies /\ n <= made
    BY <1>5, ReplyCallFields DEF Reply!CommitDelete, ReplyInv, FewerThanMade
  <2>4. /\ counts' \in [Reply!Routes -> 0..MaxReplies]
        /\ \A w \in Reply!Routes : counts'[w] <= made
    BY <1>5, <2>3 DEF Reply!CommitDelete, ReplyInv, ReplyTyped, FewerThanMade
  <2>5. IsFiniteSet(replies')
    BY <2>1, FS_RemoveElement DEF ReplyInv, ReplyTyped
  <2> HIDE DEF n
  <2> QED BY <2>1, <2>2, <2>4, <2>5, ReplyEnds DEF ReplyInv, ReplyTyped
<1>6. ASSUME NEW c \in Calls, Reply!CommitReact(c) PROVE ReplyInv'
  BY <1>6, ReactKeeps
<1>7. ASSUME NEW u \in (Buyers \union Team), Reply!StoreReply(u)
      PROVE  ReplyInv'
  <2>1. UNCHANGED <<there, strays, react, reacted, replyCall>> /\ there
        /\ "store" \in Reply!Routes
    BY <1>7 DEF Reply!StoreReply, Reply!Routes
  <2> QED BY <1>7, <2>1, InsertTyped, ReplyEnds
          DEF Reply!StoreReply, ReplyInv, ReplyTyped
<1>8. CASE Reply!DeleteReview
  BY <1>8, DeleteReviewKeeps
<1>9. CASE UNCHANGED Reply!vars
  BY <1>9 DEF Reply!vars, ReplyInv, ReplyTyped, FewerThanMade, GoneWithReview,
              ReactAlone, Reply!ReactionsCounted
<1> QED BY <1>1, <1>2, <1>3, <1>4, <1>5, <1>6, <1>7, <1>8, <1>9
        DEF Reply!Next, Reply!Begin, Reply!Commit

LEMMA ReplyTypeOK == Reply!RepliesAssumption /\ ReplyInv => Reply!TypeOK
  BY DEF ReplyInv, ReplyTyped, GoneWithReview, Reply!TypeOK, ReplyRows

(* With one request at a time, what it has read is still so when it        *)
(* commits.                                                                *)
RowsBy(w) == {r \in replies : r.route = w}

ReplySeen ==
    /\ \A c, d \in Calls : Reply!Busy(c) /\ Reply!Busy(d) => c = d
    /\ \A c \in Calls :
          /\ replyCall[c].step = "reply" =>
                (replyCall[c].exists
                   <=> \E r \in replies : r.user = replyCall[c].user)
          /\ replyCall[c].step = "delete" =>
                /\ replyCall[c].reply \in replies
                /\ replyCall[c].route = "store"
                     => replyCall[c].reply.route = "store"
                /\ replyCall[c].count = counts[replyCall[c].route]
ReplyTurnInv == ReplySeen /\ Reply!OneReply /\ Reply!RepliesCounted

LEMMA ReplyTurnInit ==
  ASSUME Reply!RepliesAssumption
  PROVE  Reply!Init => ReplyTurnInv
<1> SUFFICES ASSUME Reply!Init PROVE ReplyTurnInv
  OBVIOUS
<1>1. ReplySeen /\ Reply!OneReply
  BY DEF Reply!Init, ReplySeen, Reply!OneReply, Reply!Busy, Reply!Idle
<1>2. \A w \in Reply!Routes : Reply!RepliesBy(w) = 0 /\ counts[w] = 0
  <2>1. \A w \in Reply!Routes : {r \in replies : r.route = w} = {}
    BY DEF Reply!Init
  <2> QED BY <2>1, FS_EmptySet DEF Reply!Init, Reply!RepliesBy
<1>3. Reply!RepliesCounted
  BY <1>2 DEF Reply!RepliesCounted, Reply!Routes, Reply!Init
<1> QED BY <1>1, <1>3 DEF ReplyTurnInv

LEMMA RowsByFinite ==
  ASSUME ReplyTyped, NEW w \in Reply!Routes
  PROVE  /\ IsFiniteSet(RowsBy(w)) /\ Cardinality(RowsBy(w)) \in Nat
         /\ Reply!RepliesBy(w) = Cardinality(RowsBy(w))
<1>1. RowsBy(w) \in SUBSET replies
  BY DEF RowsBy
<1>2. IsFiniteSet(RowsBy(w)) /\ Cardinality(RowsBy(w)) \in Nat
  BY <1>1, FS_Subset, FS_CardinalityType DEF ReplyTyped
<1> QED BY <1>2 DEF Reply!RepliesBy, RowsBy

(* One reply more, or one less, is one more or less of its route.          *)
LEMMA RowsByAdd ==
  ASSUME ReplyTyped, ReplyTyped', NEW r, r \notin replies,
         replies' = replies \union {r}, NEW w \in Reply!Routes
  PROVE  /\ Reply!RepliesBy(w) \in Nat
         /\ Reply!RepliesBy(w)' = IF r.route = w THEN Reply!RepliesBy(w) + 1
                                                 ELSE Reply!RepliesBy(w)
<1>1. /\ IsFiniteSet(RowsBy(w)) /\ Reply!RepliesBy(w) \in Nat
      /\ Reply!RepliesBy(w) = Cardinality(RowsBy(w))
  BY RowsByFinite
<1>2. Reply!RepliesBy(w)' = Cardinality(RowsBy(w)')
  BY DEF Reply!RepliesBy, RowsBy
<1>3. CASE r.route = w
  <2>1. RowsBy(w)' = RowsBy(w) \union {r} /\ r \notin RowsBy(w)
    BY <1>3 DEF RowsBy
  <2> QED BY <1>1, <1>2, <1>3, <2>1, FS_AddElement
<1>4. CASE r.route # w
  <2>1. RowsBy(w)' = RowsBy(w)
    BY <1>4 DEF RowsBy
  <2> QED BY <1>1, <1>2, <1>4, <2>1
<1> QED BY <1>3, <1>4

LEMMA RowsByRemove ==
  ASSUME ReplyTyped, NEW r \in replies, replies' = replies \ {r},
         NEW w \in Reply!Routes
  PROVE  /\ Reply!RepliesBy(w) \in Nat
         /\ r.route = w => Reply!RepliesBy(w) > 0
         /\ Reply!RepliesBy(w)' = IF r.route = w THEN Reply!RepliesBy(w) - 1
                                                 ELSE Reply!RepliesBy(w)
<1>1. /\ IsFiniteSet(RowsBy(w)) /\ Reply!RepliesBy(w) \in Nat
      /\ Reply!RepliesBy(w) = Cardinality(RowsBy(w))
  BY RowsByFinite
<1>2. Reply!RepliesBy(w)' = Cardinality(RowsBy(w)')
  BY DEF Reply!RepliesBy, RowsBy
<1>3. CASE r.route = w
  <2>1. RowsBy(w)' = RowsBy(w) \ {r} /\ r \in RowsBy(w)
    BY <1>3 DEF RowsBy
  <2>2. Cardinality(RowsBy(w)) # 0
    BY <1>1, <2>1, FS_EmptySet
  <2>3. Cardinality(RowsBy(w)') = Cardinality(RowsBy(w)) - 1
    BY <1>1, <2>1, FS_RemoveElement
  <2> QED BY <1>1, <1>2, <1>3, <2>2, <2>3
<1>4. CASE r.route # w
  <2>1. RowsBy(w)' = RowsBy(w)
    BY <1>4 DEF RowsBy
  <2> QED BY <1>1, <1>2, <1>4, <2>1
<1> QED BY <1>3, <1>4

(* A new reply under the review that is there.                             *)
LEMMA InsertCounted ==
  ASSUME Reply!RepliesAssumption, ReplyInv, ReplyInv', ReplyTurnInv, there,
         NEW u \in (Buyers \union Team), NEW w \in Reply!Routes,
         Reply!Insert(u, w), UNCHANGED strays
  PROVE  Reply!RepliesCounted'
<1> DEFINE new == [id |-> made + 1, user |-> u, route |-> w]
<1>1. /\ replies' = replies \union {new} /\ new \notin replies
      /\ new.route = w /\ counts' = [counts EXCEPT ![w] = @ + 1]
  BY DEF Reply!Insert, ReplyInv, ReplyTyped
<1>2. /\ counts[w] \in Nat /\ strays \in Nat
      /\ \A v \in Reply!Routes :
            counts'[v] = IF v = w THEN counts[v] + 1 ELSE counts[v]
  BY <1>1 DEF ReplyInv, ReplyTyped
<1> HIDE DEF new
<1>3. \A v \in Reply!Routes :
         /\ Reply!RepliesBy(v) \in Nat /\ counts[v] \in Nat
         /\ Reply!RepliesBy(v)' = IF v = w THEN Reply!RepliesBy(v) + 1
                                           ELSE Reply!RepliesBy(v)
  BY <1>1, RowsByAdd DEF ReplyInv, ReplyTyped
<1>4. /\ "store" \in Reply!Routes /\ "product" \in Reply!Routes
      /\ w \in {"store", "product"}
  BY DEF Reply!Routes
<1>5. counts'["store"] = Reply!RepliesBy("store")' + strays'
  BY <1>2, <1>3, <1>4 DEF ReplyTurnInv, Reply!RepliesCounted
<1>6. /\ counts'["product"] <= Reply!RepliesBy("product")'
      /\ Reply!RepliesBy("product")' - strays' <= counts'["product"]
  BY <1>2, <1>3, <1>4 DEF ReplyTurnInv, Reply!RepliesCounted
<1> QED BY <1>5, <1>6 DEF Reply!RepliesCounted

LEMMA ReplyTurnStep ==
  ASSUME Reply!RepliesAssumption
  PROVE  ReplyInv /\ ReplyTurnInv /\ [Reply!Next /\ Reply!InTurn]_Reply!vars
           => ReplyTurnInv'
<1> SUFFICES ASSUME ReplyInv, ReplyTurnInv,
                    [Reply!Next /\ Reply!InTurn]_Reply!vars
             PROVE  ReplyTurnInv'
  OBVIOUS
<1> ReplyInv'
  BY ReplyStep
<1> USE DEF ReplyTurnInv
<1>0. ASSUME NEW c \in Calls, Reply!InTurn, Reply!Begin(c)
      PROVE  /\ \A d \in Calls : d # c => ~Reply!Busy(d)
                  /\ replyCall'[d] = replyCall[d]
             /\ UNCHANGED <<there, replies, made, strays, counts>>
  <2>1. \A d \in Calls : ~Reply!Busy(d)
    BY <1>0
       DEF Reply!InTurn, Reply!Commit, Reply!CommitReply, Reply!CommitDelete,
           Reply!CommitReact, Reply!Begin, Reply!BeginReply, Reply!BeginDelete,
           Reply!BeginReact, Reply!Done, Reply!Busy, Reply!Idle, ReplyInv,
           ReplyTyped, ReplySeen
  <2> QED BY <1>0, <2>1
             DEF Reply!Begin, Reply!BeginReply, Reply!BeginDelete,
                 Reply!BeginReact, ReplyInv, ReplyTyped
<1>1. ASSUME NEW c \in Calls, Reply!InTurn, Reply!Begin(c) PROVE ReplyTurnInv'
  <2>1. Reply!OneReply' /\ Reply!RepliesCounted'
    BY <1>0, <1>1 DEF Reply!OneReply, Reply!RepliesCounted, Reply!RepliesBy
  <2>2. ASSUME NEW u \in (Buyers \union Team), Reply!BeginReply(c, u)
        PROVE  ReplySeen'
    <3>1. /\ replyCall'[c].step = "reply" /\ replyCall'[c].user = u
          /\ replyCall'[c].exists <=> \E r \in replies : r.user = u
      BY <2>2 DEF Reply!BeginReply, ReplyInv, ReplyTyped
    <3>2. \A d, e \in Calls : Reply!Busy(d)' /\ Reply!Busy(e)' => d = e
      BY <1>0, <1>1 DEF Reply!Busy
    <3>3. \A d \in Calls : d # c => replyCall'[d].step = "idle"
      BY <1>0, <1>1 DEF Reply!Busy
    <3>4. replies' = replies
      BY <1>0, <1>1
    <3>5. ASSUME NEW d \in Calls, replyCall'[d].step = "reply"
          PROVE  replyCall'[d].exists <=> \E r \in replies' :
                   r.user = replyCall'[d].user
      <4>1. d = c
        BY <3>3, <3>5
      <4> QED BY <3>1, <3>4, <4>1
    <3>6. ~\E d \in Calls : replyCall'[d].step = "delete"
      BY <3>1, <3>3
    <3> QED BY <3>2, <3>5, <3>6 DEF ReplySeen
  <2>3. ASSUME NEW r \in replies, NEW w \in Reply!Routes,
               Reply!BeginDelete(c, r, w)
        PROVE  ReplySeen'
    <3>1. /\ replyCall'[c].step = "delete" /\ replyCall'[c].reply = r
          /\ replyCall'[c].route = w
          /\ w = "store" => r.route = "store"
          /\ replyCall'[c].count = counts[w]
      BY <2>3 DEF Reply!BeginDelete, ReplyInv, ReplyTyped
    <3> QED BY <1>0, <1>1, <3>1 DEF ReplySeen, Reply!Busy
  <2>4. ASSUME NEW u \in (Buyers \union Team), NEW k \in Reactions,
               Reply!BeginReact(c, u, k)
        PROVE  ReplySeen'
    <3>1. replyCall'[c].step = "react"
      BY <2>4 DEF Reply!BeginReact, ReplyInv, ReplyTyped
    <3> QED BY <1>0, <1>1, <3>1 DEF ReplySeen, Reply!Busy
  <2> QED BY <1>1, <2>1, <2>2, <2>3, <2>4 DEF Reply!Begin
<1>2. ASSUME NEW c \in Calls, Reply!Commit(c)
      PROVE  /\ \A d \in Calls : ~Reply!Busy(d)'
             /\ UNCHANGED there
  <2>1. Reply!Busy(c) /\ replyCall' = [replyCall EXCEPT ![c] = Reply!Idle]
        /\ UNCHANGED there
    BY <1>2
       DEF Reply!Commit, Reply!CommitReply, Reply!CommitDelete,
           Reply!CommitReact, Reply!Done, Reply!Busy
  <2> QED BY <2>1 DEF ReplySeen, Reply!Busy, Reply!Idle, ReplyInv, ReplyTyped
<1>3. (\A d \in Calls : ~Reply!Busy(d)') => ReplySeen'
  BY DEF ReplySeen, Reply!Busy
<1>4. ASSUME NEW c \in Calls, Reply!CommitReply(c) PROVE ReplyTurnInv'
  <2> DEFINE u == replyCall[c].user
  <2>1. ReplySeen' /\ UNCHANGED <<there, strays>>
    BY <1>2, <1>3, <1>4 DEF Reply!Commit, Reply!CommitReply
  <2>2. CASE there /\ ~replyCall[c].exists /\ Reply!Insert(u, "product")
    <3>1. u \in (Buyers \union Team) /\ "product" \in Reply!Routes
      BY <1>4, ReplyCallFields DEF Reply!CommitReply, Reply!Routes, ReplyInv
    <3>2. \A r \in replies : r.user # u
      BY <1>4, <2>2 DEF Reply!CommitReply, ReplySeen
    <3>3. Reply!RepliesCounted'
      BY <2>1, <2>2, <3>1, InsertCounted
    <3>4. Reply!OneReply'
      BY <2>2, <3>2 DEF Reply!Insert, Reply!OneReply
    <3> QED BY <2>1, <3>3, <3>4
  <2>3. CASE UNCHANGED <<replies, made, counts>>
    BY <2>1, <2>3 DEF Reply!OneReply, Reply!RepliesCounted, Reply!RepliesBy
  <2> QED BY <1>4, <2>2, <2>3 DEF Reply!CommitReply
<1>5. ASSUME NEW c \in Calls, Reply!CommitDelete(c) PROVE ReplyTurnInv'
  <2> DEFINE q == replyCall[c].reply
             w == replyCall[c].route
  <2>1. ReplySeen' /\ UNCHANGED there /\ there
    BY <1>2, <1>3, <1>5
       DEF Reply!Commit, Reply!CommitDelete, ReplyInv, GoneWithReview
  <2>2. /\ q \in replies /\ w \in Reply!Routes /\ q.route \in Reply!Routes
        /\ w = "store" => q.route = "store"
        /\ replies' = replies \ {q}
        /\ counts' = IF counts[w] = 0 THEN counts
                     ELSE [counts EXCEPT ![w] = counts[w] - 1]
        /\ strays' = IF w = q.route THEN strays ELSE strays + 1
    BY <1>5, ReplyCallFields
       DEF Reply!CommitDelete, ReplySeen, ReplyInv, ReplyTyped, ReplyRows
  <2> HIDE DEF q, w
  <2>3. Reply!OneReply'
    BY <2>2 DEF Reply!OneReply
  <2>4. \A v \in Reply!Routes :
           /\ Reply!RepliesBy(v) \in Nat
           /\ q.route = v => Reply!RepliesBy(v) > 0
           /\ Reply!RepliesBy(v)' = IF q.route = v THEN Reply!RepliesBy(v) - 1
                                                   ELSE Reply!RepliesBy(v)
    BY <2>2, RowsByRemove DEF ReplyInv
  <2>5. \A v \in Reply!Routes :
           /\ counts[v] \in Nat
           /\ counts'[v] = IF v = w /\ counts[v] # 0 THEN counts[v] - 1
                                                     ELSE counts[v]
    BY <2>2 DEF ReplyInv, ReplyTyped
  <2>6. /\ "store" \in Reply!Routes /\ "product" \in Reply!Routes
        /\ w \in {"store", "product"} /\ q.route \in {"store", "product"}
        /\ strays \in Nat
    BY <2>2 DEF Reply!Routes, ReplyInv, ReplyTyped
  <2>7. /\ counts["store"] = Reply!RepliesBy("store") + strays
        /\ counts["product"] <= Reply!RepliesBy("product")
        /\ Reply!RepliesBy("product") - strays <= counts["product"]
    BY <2>1 DEF Reply!RepliesCounted
  <2>8. counts'["store"] = Reply!RepliesBy("store")' + strays'
    BY <2>2, <2>4, <2>5, <2>6, <2>7
  <2>9. /\ counts'["product"] <= Reply!RepliesBy("product")'
        /\ Reply!RepliesBy("product")' - strays' <= counts'["product"]
    BY <2>2, <2>4, <2>5, <2>6, <2>7
  <2> QED BY <2>1, <2>3, <2>8, <2>9 DEF Reply!RepliesCounted
<1>6. ASSUME NEW c \in Calls, Reply!CommitReact(c) PROVE ReplyTurnInv'
  BY <1>2, <1>3, <1>6
     DEF Reply!Commit, Reply!CommitReact, Reply!OneReply,
         Reply!RepliesCounted, Reply!RepliesBy
<1>7. ASSUME NEW u \in (Buyers \union Team), Reply!StoreReply(u), Reply!InTurn
      PROVE  ReplyTurnInv'
  <2>1. \A d \in Calls : ~Reply!Busy(d) /\ ~Reply!Busy(d)'
    BY <1>7, <1>2 DEF Reply!StoreReply, Reply!InTurn, Reply!Busy
  <2>2. /\ there /\ UNCHANGED strays
        /\ Reply!Insert(u, "store") /\ "store" \in Reply!Routes
    BY <1>7 DEF Reply!StoreReply, Reply!Routes
  <2>3. Reply!RepliesCounted'
    BY <2>2, InsertCounted
  <2>4. Reply!OneReply'
    BY <2>2 DEF Reply!Insert, Reply!OneReply
  <2> QED BY <2>1, <2>3, <2>4, <1>3
<1>8. CASE Reply!DeleteReview /\ Reply!InTurn
  <2>1. \A d \in Calls : ~Reply!Busy(d)'
    BY <1>8, <1>2 DEF Reply!DeleteReview, Reply!InTurn, Reply!Busy, Reply!Idle
  <2> QED BY <1>3, <1>8, <2>1
             DEF Reply!DeleteReview, Reply!OneReply, Reply!RepliesCounted
<1>9. CASE UNCHANGED Reply!vars
  BY <1>9
     DEF Reply!vars, ReplySeen, Reply!Busy, Reply!OneReply,
         Reply!RepliesCounted, Reply!RepliesBy
<1> QED BY <1>1, <1>4, <1>5, <1>6, <1>7, <1>8, <1>9
           DEF Reply!Next, Reply!Commit

-----------------------------------------------------------------------------
(***************************************************************************)
(* All of them.  A step of MCRequests is one component's, or leaves a      *)
(* component as it is.                                                     *)
(***************************************************************************)
LEMMA RestingComponents ==
  /\ UNCHANGED sessionsVars => UNCHANGED Session!vars
  /\ UNCHANGED ticketsVars => UNCHANGED Ticket!vars
  /\ UNCHANGED photosVars => UNCHANGED Photo!vars
  /\ UNCHANGED catalogueVars => UNCHANGED Catalogue!vars
  /\ UNCHANGED addressesVars => UNCHANGED Address!vars
  /\ UNCHANGED cartVars => UNCHANGED Cart!vars
  /\ UNCHANGED reviewsVars => UNCHANGED Review!vars
  /\ UNCHANGED repliesVars => UNCHANGED Reply!vars
  /\ UNCHANGED taxonomyVars => UNCHANGED Category!vars
<1>1. UNCHANGED sessionsVars => UNCHANGED Session!vars
  BY DEF sessionsVars, Session!vars, Session!redis, Session!issue,
         Session!life, Session!marks
<1>2. UNCHANGED ticketsVars => UNCHANGED Ticket!vars
  BY DEF ticketsVars, Ticket!vars
<1>3. UNCHANGED photosVars => UNCHANGED Photo!vars
  BY DEF photosVars, Photo!vars, Photo!marks
<1>4. UNCHANGED catalogueVars => UNCHANGED Catalogue!vars
  BY DEF catalogueVars, Catalogue!vars, Catalogue!rows, Catalogue!media
<1>5. UNCHANGED addressesVars => UNCHANGED Address!vars
  BY DEF addressesVars, Address!vars
<1>6. UNCHANGED cartVars => UNCHANGED Cart!vars
  BY DEF cartVars, Cart!vars
<1>7. UNCHANGED reviewsVars => UNCHANGED Review!vars
  BY DEF reviewsVars, Review!vars
<1>8. UNCHANGED repliesVars => UNCHANGED Reply!vars
  BY DEF repliesVars, Reply!vars
<1>9. UNCHANGED taxonomyVars => UNCHANGED Category!vars
  BY DEF taxonomyVars, Category!vars, Category!rows
<1> QED BY <1>1, <1>2, <1>3, <1>4, <1>5, <1>6, <1>7, <1>8, <1>9

LEMMA RequestSteps ==
  ASSUME [AllNext]_allVars
  PROVE  /\ [Session!Next]_Session!vars
         /\ [Ticket!Next]_Ticket!vars
         /\ [Photo!Next]_Photo!vars
         /\ [Catalogue!Next]_Catalogue!vars
         /\ [Next]_vars
         /\ [Address!Next]_Address!vars
         /\ [Cart!Next]_Cart!vars
         /\ [Review!Next]_Review!vars
         /\ [Reply!Next]_Reply!vars
         /\ [Category!Next]_Category!vars
<1> DEFINE S0 == UNCHANGED Session!vars
           S1 == UNCHANGED Ticket!vars
           S2 == UNCHANGED Photo!vars
           S3 == UNCHANGED Catalogue!vars
           S4 == UNCHANGED vars
           S5 == UNCHANGED Address!vars
           S6 == UNCHANGED Cart!vars
           S7 == UNCHANGED Review!vars
           S8 == UNCHANGED Reply!vars
           S9 == UNCHANGED Category!vars
<1>1. /\ UNCHANGED sessionsVars => S0
      /\ UNCHANGED ticketsVars => S1
      /\ UNCHANGED photosVars => S2
      /\ UNCHANGED catalogueVars => S3
      /\ UNCHANGED vars => S4
      /\ UNCHANGED addressesVars => S5
      /\ UNCHANGED cartVars => S6
      /\ UNCHANGED reviewsVars => S7
      /\ UNCHANGED repliesVars => S8
      /\ UNCHANGED taxonomyVars => S9
  BY RestingComponents
<1>2. UNCHANGED allVars => S0 /\ S1 /\ S2 /\ S3 /\ S4 /\ S5 /\ S6 /\ S7 /\ S8
        /\ S9
  BY <1>1 DEF allVars
<1>3. AllNext =>
         \/ Session!Next /\ S1 /\ S2 /\ S3 /\ S4 /\ S5 /\ S6 /\ S7 /\ S8 /\ S9
         \/ Ticket!Next /\ S0 /\ S2 /\ S3 /\ S4 /\ S5 /\ S6 /\ S7 /\ S8 /\ S9
         \/ Photo!Next /\ S0 /\ S1 /\ S3 /\ S4 /\ S5 /\ S6 /\ S7 /\ S8 /\ S9
         \/ Catalogue!Next /\ S0 /\ S1 /\ S2 /\ S4 /\ S5 /\ S6 /\ S7 /\ S8
              /\ S9
         \/ Next /\ S0 /\ S1 /\ S2 /\ S3 /\ S5 /\ S6 /\ S7 /\ S8 /\ S9
         \/ Address!Next /\ S0 /\ S1 /\ S2 /\ S3 /\ S4 /\ S6 /\ S7 /\ S8 /\ S9
         \/ Cart!Next /\ S0 /\ S1 /\ S2 /\ S3 /\ S4 /\ S5 /\ S7 /\ S8 /\ S9
         \/ Review!Next /\ S0 /\ S1 /\ S2 /\ S3 /\ S4 /\ S5 /\ S6 /\ S8 /\ S9
         \/ Reply!Next /\ S0 /\ S1 /\ S2 /\ S3 /\ S4 /\ S5 /\ S6 /\ S7 /\ S9
         \/ Category!Next /\ S0 /\ S1 /\ S2 /\ S3 /\ S4 /\ S5 /\ S6 /\ S7 /\ S8
  BY <1>1 DEF AllNext
<1>4. CASE UNCHANGED allVars
  BY <1>2, <1>4
<1>5. CASE AllNext
  <2> HIDE DEF S0, S1, S2, S3, S4, S5, S6, S7, S8, S9
  <2>1. /\ Session!Next \/ S0
        /\ Ticket!Next \/ S1
        /\ Photo!Next \/ S2
        /\ Catalogue!Next \/ S3
        /\ Next \/ S4
        /\ Address!Next \/ S5
        /\ Cart!Next \/ S6
        /\ Review!Next \/ S7
        /\ Reply!Next \/ S8
        /\ Category!Next \/ S9
    BY <1>3, <1>5
  <2> QED BY <2>1 DEF S0, S1, S2, S3, S4, S5, S6, S7, S8, S9
<1> QED BY <1>4, <1>5

(* Requests are told to be served one at a time where there is one call.   *)
LEMMA TurnSteps ==
  ASSUME NEW c, Calls = {c}, [AllNext]_allVars
  PROVE  /\ [Catalogue!Next /\ Catalogue!InTurn]_Catalogue!vars
         /\ [Address!Next /\ Address!InTurn]_Address!vars
         /\ [Review!Next /\ Review!InTurn]_Review!vars
         /\ [Reply!Next /\ Reply!InTurn]_Reply!vars
         /\ [Category!Next /\ Category!InTurn]_Category!vars
<1>0. ~Overlap
  <2>1. Cardinality({c}) = 1
    BY FS_Singleton
  <2> QED BY <2>1 DEF Overlap
<1> DEFINE S3 == UNCHANGED Catalogue!vars
           S5 == UNCHANGED Address!vars
           S7 == UNCHANGED Review!vars
           S8 == UNCHANGED Reply!vars
           S9 == UNCHANGED Category!vars
<1>1. /\ UNCHANGED catalogueVars => S3
      /\ UNCHANGED addressesVars => S5
      /\ UNCHANGED reviewsVars => S7
      /\ UNCHANGED repliesVars => S8
      /\ UNCHANGED taxonomyVars => S9
  BY RestingComponents
<1>2. UNCHANGED allVars => S3 /\ S5 /\ S7 /\ S8 /\ S9
  BY <1>1 DEF allVars
<1>3. AllNext =>
         \/ Catalogue!Next /\ Catalogue!InTurn /\ S5 /\ S7 /\ S8 /\ S9
         \/ Address!Next /\ Address!InTurn /\ S3 /\ S7 /\ S8 /\ S9
         \/ Review!Next /\ Review!InTurn /\ S3 /\ S5 /\ S8 /\ S9
         \/ Reply!Next /\ Reply!InTurn /\ S3 /\ S5 /\ S7 /\ S9
         \/ Category!Next /\ Category!InTurn /\ S3 /\ S5 /\ S7 /\ S8
         \/ S3 /\ S5 /\ S7 /\ S8 /\ S9
  BY <1>0, <1>1 DEF AllNext
<1>4. CASE UNCHANGED allVars
  BY <1>2, <1>4
<1>5. CASE AllNext
  <2> HIDE DEF S3, S5, S7, S8, S9
  <2>1. /\ (Catalogue!Next /\ Catalogue!InTurn) \/ S3
        /\ (Address!Next /\ Address!InTurn) \/ S5
        /\ (Review!Next /\ Review!InTurn) \/ S7
        /\ (Reply!Next /\ Reply!InTurn) \/ S8
        /\ (Category!Next /\ Category!InTurn) \/ S9
    BY <1>3, <1>5
  <2> QED BY <2>1 DEF S3, S5, S7, S8, S9
<1> QED BY <1>4, <1>5

LEMMA RequestsAssumed ==
  /\ Session!SessionAssumption /\ Ticket!TicketAssumption
  /\ Photo!PhotoAssumption /\ Catalogue!CatalogueAssumption
  /\ StoreAssumption /\ Address!AddressAssumption
  /\ Cart!CartAssumption /\ Review!ReviewsAssumption
  /\ Reply!RepliesAssumption /\ Category!TaxonomyAssumption
  BY Assumptions

(* The invariant of a behaviour of MCRequests: every component's own.      *)
RequestsInv ==
    /\ SessionInv /\ TicketInv /\ CatalogueInv /\ StoreInv /\ AddressInv
    /\ CartInv /\ ReviewInv /\ ReplyInv /\ TaxonomyInv
    /\ PhotoInv /\ Photo!OrphansAreKnown /\ BanInv /\ TicketQuietInv
    /\ TicketJoinInv

LEMMA RequestsInit == AllInit => RequestsInv
<1> SUFFICES ASSUME AllInit PROVE RequestsInv
  OBVIOUS
<1>1. /\ Session!Init /\ Ticket!Init /\ Photo!Init /\ Catalogue!Init
      /\ Init /\ Address!Init /\ Cart!Init /\ Review!Init
      /\ Reply!Init /\ Category!Init
  BY DEF AllInit
<1>2. SessionInv /\ TicketInv /\ CatalogueInv /\ StoreInv /\ AddressInv
  BY <1>1, RequestsAssumed, SessionInit, TicketInit, CatalogueInit, StoreInit,
     AddressInit
<1>3. CartInv /\ ReviewInv /\ ReplyInv /\ TaxonomyInv /\ PhotoInv
  BY <1>1, RequestsAssumed, CartInit, ReviewInit, ReplyInit, TaxonomyInit,
     PhotoInit
<1>4. Photo!OrphansAreKnown /\ BanInv /\ TicketQuietInv
  BY <1>1, RequestsAssumed, OrphanInit, BanInit, TicketQuietInit
<1>5. TicketJoinInv
  BY <1>1 DEF Ticket!Init, Ticket!Idle, TicketJoinInv
<1> QED BY <1>2, <1>3, <1>4, <1>5 DEF RequestsInv

LEMMA RequestsStep == RequestsInv /\ [AllNext]_allVars => RequestsInv'
<1> SUFFICES ASSUME RequestsInv, [AllNext]_allVars PROVE RequestsInv'
  OBVIOUS
<1>1. /\ SessionInv /\ TicketInv /\ CatalogueInv /\ StoreInv /\ AddressInv
      /\ CartInv /\ ReviewInv /\ ReplyInv /\ TaxonomyInv
      /\ PhotoInv /\ Photo!OrphansAreKnown /\ BanInv /\ TicketQuietInv
      /\ TicketJoinInv
  BY DEF RequestsInv
<1>2. /\ SessionInv' /\ TicketInv' /\ CatalogueInv' /\ StoreInv'
      /\ AddressInv'
  BY <1>1, RequestSteps, RequestsAssumed, SessionStep, TicketStep,
     CatalogueStep, StoreStep, AddressStep
<1>3. CartInv' /\ ReviewInv' /\ ReplyInv' /\ TaxonomyInv'
  BY <1>1, RequestSteps, RequestsAssumed, CartStep, ReviewStep, ReplyStep,
     TaxonomyStep
<1>4. PhotoInv' /\ Photo!OrphansAreKnown'
  BY <1>1, RequestSteps, RequestsAssumed, PhotoStep, OrphanStep
<1>5. BanInv' /\ TicketQuietInv' /\ TicketJoinInv'
  BY <1>1, RequestSteps, RequestsAssumed, BanStep, TicketQuietStep,
     TicketJoinStep
<1> QED BY <1>2, <1>3, <1>4, <1>5 DEF RequestsInv

(* RequestsInv, the conjunction of the components' inductive invariants,   *)
(* holds of the composition, however many requests overlap (the services   *)
(* MCRequests composes).                                                   *)
THEOREM RequestsInvariance == AllSpec => []RequestsInv
  BY RequestsInit, RequestsStep, PTL DEF AllSpec

(* Every component's variables keep their types, and no variant or cart    *)
(* gets more than it may hold, however many requests overlap and whatever  *)
(* fails (add_vimage, add_item_to_cart).                                   *)
THEOREM RequestsTypeCorrect == AllSpec => []AllTypeOK
<1>1. RequestsInv => AllTypeOK
  <2> SUFFICES ASSUME RequestsInv PROVE AllTypeOK
    OBVIOUS
  <2>1. /\ SessionInv /\ TicketInv /\ CatalogueInv /\ StoreInv /\ AddressInv
        /\ CartInv /\ ReviewInv /\ ReplyInv /\ TaxonomyInv /\ PhotoInv
    BY DEF RequestsInv
  <2>2. Session!TypeOK /\ Catalogue!TypeOK /\ Category!TypeOK
    BY <2>1 DEF SessionInv, CatalogueInv, TaxonomyInv
  <2>3. Ticket!TypeOK /\ Reply!TypeOK /\ Review!TypeOK
    BY <2>1, RequestsAssumed, TicketTypeOK, ReplyTypeOK, ReviewTyped
  <2>4. Address!TypeOK /\ Photo!TypeOK /\ Cart!TypeOK
    BY <2>1, RequestsAssumed, AddressProperties, PhotoProperties,
       CartProperties
  <2>5. TypeOK
    BY <2>1, RequestsAssumed, StoreTypes
  <2> QED BY <2>2, <2>3, <2>4, <2>5 DEF AllTypeOK
<1> QED BY <1>1, RequestsInvariance, PTL

(* A dead refresh token stays dead until the last second in which its      *)
(* entry may be gone before it, and ever after that, whatever requests     *)
(* overlap and whether Redis answers or not (refresh_token and logout of   *)
(* auth_service.py).                                                       *)
THEOREM DeadTokens == AllSpec => DeadStaysDead
<1>1. RequestsInv /\ [AllNext]_allVars
         => [\A t \in 1..issued :
                (~Session!Live(t) /\ t \notin ending) \/ t \in expired
                => ~Session!Live(t)']_Session!vars
  BY RequestSteps, RequestsAssumed, DeadStep DEF RequestsInv
<1> QED
  BY <1>1, RequestsInvariance, PTL
     DEF AllSpec, DeadStaysDead, Session!DeadStaysDead

(* Redis bans whom the database bans once every handler has made both of   *)
(* its writes, and who begins under a ban is given no token, however bans, *)
(* logins and lapses overlap and whatever fails, except after a write to   *)
(* Redis that was lost or that came between the two of another handler     *)
(* (ban_profile, logins, refresh_token).                                   *)
THEOREM BansStand == AllSpec => BansHold
<1>1. RequestsInv => Session!BanAgrees
  BY BansAgree DEF RequestsInv
<1>2. RequestsInv /\ [AllNext]_allVars
         => [\A c \in Calls :
               (/\ sessionCall[c].step = "idle" /\ sessionCall'[c].step
                                                    \in {"read", "checked"}
                /\ ~parted /\ \A b \in Calls : sessionCall[b].step # "banning")
               => userAccount.ban \in {"none", "over"}]_Session!vars
  BY RequestSteps, RequestsAssumed, NoTokenStep DEF RequestsInv
<1>3. AllSpec => []Session!BanAgrees
  BY <1>1, RequestsInvariance, PTL
<1>4. AllSpec => Session!NoTokenUnderBan
  BY <1>2, RequestsInvariance, PTL DEF AllSpec, Session!NoTokenUnderBan
<1> QED BY <1>3, <1>4, PTL DEF BansHold

(* An answered ticket is in progress or closed, although the socket's      *)
(* handler answers on what it has read long before (ticket_thread,         *)
(* get_connection).                                                        *)
THEOREM AnsweredTickets == AllSpec => []AnsweredIsInProgress
<1>1. RequestsInv => AnsweredIsInProgress
  BY DEF RequestsInv, TicketInv, AnsweredIsInProgress
<1> QED BY <1>1, RequestsInvariance, PTL

(* Among any number of requests and sockets a closed ticket is reopened by *)
(* nobody but an agent's socket that had read it open; one that no socket  *)
(* has touched is closed by its agent only when it was answered and has    *)
(* been quiet for two days; and nothing is removed from a conversation     *)
(* that goes on (get_connection, close_ticket, ticket_thread,              *)
(* clear_conversation, remove_message).                                    *)
THEOREM ConversationsStand == AllSpec => ConversationsClose
<1>1. RequestsInv => Ticket!PlainCloseQuietly
  BY TicketQuietClose DEF RequestsInv
<1>2. RequestsInv /\ [AllNext]_allVars
         => [\A t \in Ticket!Tickets :
               /\ ticket[t].status = "closed"
               /\ ticket'[t].status # "closed"
               => \E c \in Calls :
                     /\ ticketCall[c].step = "joining" /\ ticketCall[c].ticket = t
                     /\ ticketCall[c].status = "open"
                     /\ ticketCall'[c].step = "talking"]_Ticket!vars
  BY RequestSteps, RequestsAssumed, TicketReopens DEF RequestsInv
<1>3. RequestsInv /\ [AllNext]_allVars
         => [\A t \in Ticket!Tickets : \A i \in DOMAIN messages[t] :
               /\ messages'[t][i] # messages[t][i]
               /\ messages'[t][i] \in {Ticket!Hidden(messages[t][i], r) :
                                          r \in Ticket!Roles}
               => ticket'[t].status = "closed"]_Ticket!vars
  BY RequestSteps, RequestsAssumed, TicketRemoves DEF RequestsInv
<1>4. AllSpec => []Ticket!PlainCloseQuietly
  BY <1>1, RequestsInvariance, PTL
<1>5. AllSpec => Ticket!OnlyLateJoinsReopen
  BY <1>2, RequestsInvariance, PTL DEF AllSpec, Ticket!OnlyLateJoinsReopen
<1>6. AllSpec => Ticket!RemovedWhenClosed
  BY <1>3, RequestsInvariance, PTL DEF AllSpec, Ticket!RemovedWhenClosed
<1> QED BY <1>4, <1>5, <1>6, PTL DEF ConversationsClose

(* Every file that a row names is in storage, however many handlers        *)
(* overlap, stop or fail (cleaned_up and its callers, add_vimage,          *)
(* delete_one), but for the one that store_update removes after its commit *)
(* when an invalidation raises.                                            *)
THEOREM NamedFiles == AllSpec => []NamedIsStored
<1>1. RequestsInv => NamedIsStored
  BY RequestsAssumed, PhotoProperties
     DEF RequestsInv, CatalogueInv, Catalogue!ImagesHaveFiles, NamedIsStored
<1> QED BY <1>1, RequestsInvariance, PTL

(* Storage holds nothing else but what a handler is at work on and what is *)
(* known to be left behind: by a server that stopped, a removal that       *)
(* failed, was not made or looked in the wrong bucket, or a picture        *)
(* replaced by another request in the meantime (cleaned_up and its         *)
(* callers).                                                               *)
THEOREM OrphansKnown == AllSpec => []OrphansAreKnown
<1>1. RequestsInv => OrphansAreKnown
  BY DEF RequestsInv, OrphansAreKnown
<1> QED BY <1>1, RequestsInvariance, PTL

(* An address serves the orders of one customer and is never the store's,  *)
(* although requests choose it by what they have read without a lock       *)
(* (choose_order_address).                                                 *)
THEOREM OnePerson == AllSpec => []OnePersonPerAddress
<1>1. RequestsInv => OnePersonPerAddress
  BY RequestsAssumed, AddressProperties DEF RequestsInv, OnePersonPerAddress
<1> QED BY <1>1, RequestsInvariance, PTL

(* However many requests overlap, an address goes with its store or by a   *)
(* deletion, and then none of its orders is active but those that chose it *)
(* after the deletion's statement had begun (remove_delivery_address,      *)
(* choose_order_address).                                                  *)
THEOREM AddressStands == AllSpec => AddressLocked
<1>1. RequestsInv /\ [AllNext]_allVars
         => [\A a \in Address!Ids :
               address[a] = "delivery" /\ address'[a] = "deleted"
               => \/ Address!RemoveStore
                  \/ \E c \in Calls :
                       /\ Address!Removing(c) /\ addressCall[c].chosen = a
                       /\ \A o \in DOMAIN UserOf \ addressCall[c].late :
                             linked[o] = a
                               => orderStatus[o] \in Address!Finished
            ]_Address!vars
  BY RequestSteps, RequestsAssumed, AddressGoes DEF RequestsInv, Served
<1> QED
  BY <1>1, RequestsInvariance, PTL
     DEF AllSpec, AddressLocked, Address!AddressLocked

(* The total of a cart is the sum over its items, a product's count of     *)
(* reviews is their number, and a review's counts of reactions are those   *)
(* of the reactions, however many requests overlap (add_item_to_cart,      *)
(* edit_quantity, store_review, delete_review, react_type).                *)
THEOREM CountersStand == AllSpec => []CountersAgree
<1>1. RequestsInv => CountersAgree
  BY RequestsAssumed, CartProperties
     DEF RequestsInv, ReviewInv, ReplyInv, Review!CountMatches, CountersAgree
<1> QED BY <1>1, RequestsInvariance, PTL

-----------------------------------------------------------------------------
(* Requests that do not overlap: what each component's handlers have read  *)
(* is still so when they write.                                            *)
TurnInv ==
    /\ ExchangedIsDead /\ TicketOneInv /\ CatalogueTurnInv /\ CartOneInv
    /\ ReviewTurnInv /\ ReplyTurnInv /\ TaxonomyTurnInv

LEMMA TurnInit == AllInit => TurnInv
<1> SUFFICES ASSUME AllInit PROVE TurnInv
  OBVIOUS
<1>1. /\ Session!Init /\ Ticket!Init /\ Catalogue!Init
      /\ Cart!Init /\ Review!Init /\ Reply!Init /\ Category!Init
  BY DEF AllInit
<1>2. CatalogueTurnInv /\ CartOneInv /\ ReviewTurnInv /\ TaxonomyTurnInv
  BY <1>1, RequestsAssumed, CatalogueTurnInit, CartOneInit, ReviewTurnInit,
     TaxonomyTurnInit
<1>3. ExchangedIsDead /\ TicketOneInv /\ ReplyTurnInv
  BY <1>1, RequestsAssumed, ExchangedInit, TicketOneInit, ReplyTurnInit
<1> QED BY <1>2, <1>3 DEF TurnInv

LEMMA TurnStep ==
  ASSUME NEW c, Calls = {c}
  PROVE  RequestsInv /\ TurnInv /\ [AllNext]_allVars => TurnInv'
<1> SUFFICES ASSUME RequestsInv, TurnInv, [AllNext]_allVars PROVE TurnInv'
  OBVIOUS
<1>1. SessionInv /\ TicketInv /\ CartInv /\ ReplyInv /\ TaxonomyInv
  BY DEF RequestsInv
<1>2. CatalogueTurnInv' /\ ReviewTurnInv' /\ TaxonomyTurnInv'
  BY <1>1, TurnSteps, RequestsAssumed, CatalogueTurnStep, ReviewTurnStep,
     TaxonomyTurnStep DEF TurnInv
<1>3. CartOneInv'
  BY <1>1, RequestSteps, RequestsAssumed, CartOneStep DEF TurnInv
<1>4. ExchangedIsDead'
  BY <1>1, RequestSteps, RequestsAssumed, ExchangedStep DEF TurnInv
<1>5. TicketOneInv'
  BY <1>1, RequestSteps, RequestsAssumed, TicketOneStep DEF TurnInv
<1>6. ReplyTurnInv'
  BY <1>1, TurnSteps, RequestsAssumed, ReplyTurnStep DEF TurnInv
<1> QED BY <1>2, <1>3, <1>4, <1>5, <1>6 DEF TurnInv

(* TurnInv, what holds besides while requests take turns: that no other    *)
(* request changes what a handler has read (the services MCRequests        *)
(* composes).                                                              *)
THEOREM TurnInvariance ==
  ASSUME NEW c, Calls = {c}
  PROVE  AllSpec => [](RequestsInv /\ TurnInv)
<1>1. AllInit => RequestsInv /\ TurnInv
  BY RequestsInit, TurnInit
<1>2. RequestsInv /\ TurnInv /\ [AllNext]_allVars => (RequestsInv /\ TurnInv)'
  BY RequestsStep, TurnStep
<1> QED BY <1>1, <1>2, PTL DEF AllSpec

(* A customer has one open cart (add_item_to_cart), which two requests at  *)
(* once can break.                                                         *)
THEOREM OneCart ==
  ASSUME NEW c, Calls = {c}
  PROVE  AllSpec => []OneOpenCart
<1>1. TurnInv => OneOpenCart
  BY CartOne DEF TurnInv, OneOpenCart
<1> QED BY <1>1, TurnInvariance, PTL

(* Nothing live is under something deleted: products, variants, stores     *)
(* (delete_one, remove_store, approve_stores) and sub-categories           *)
(* (delete_category).                                                      *)
THEOREM NothingIsLost ==
  ASSUME NEW c, Calls = {c}
  PROVE  AllSpec => []NothingDangles
<1>1. TurnInv => NothingDangles
  BY DEF TurnInv, CatalogueTurnInv, TaxonomyTurnInv, NothingDangles
<1> QED BY <1>1, TurnInvariance, PTL

(* What no unique constraint rules out is there once, sockets and failures *)
(* of Redis included: the exchange of a refresh token before its last      *)
(* second, the active ticket a customer opened over HTTP, the open cart, a *)
(* buyer's review and reply and the normal form of a category's name       *)
(* (refresh_token, text_support, add_item_to_cart, store_review, reply,    *)
(* category).                                                              *)
THEOREM NothingTwice ==
  ASSUME NEW c, Calls = {c}
  PROVE  AllSpec => []Unique
<1>1. TurnInv => Unique
  <2> SUFFICES ASSUME TurnInv PROVE Unique
    OBVIOUS
  <2>1. Session!ExchangedOnceInTime /\ Reply!OneReply /\ Category!NamesDiffer
    BY DEF TurnInv, ExchangedIsDead, ReplyTurnInv, TaxonomyTurnInv
  <2>2. Ticket!OnePlain /\ Cart!OneOpenCart /\ Review!OneReview
    BY TicketOne, CartOne, ReviewTurnOne DEF TurnInv
  <2> QED BY <2>1, <2>2 DEF Unique
<1> QED BY <1>1, TurnInvariance, PTL

(* A review counts the replies of each route, whichever route deletes      *)
(* them, but for the store's replies that the product's route deletes,     *)
(* which stay in the store's count and are taken from the product's        *)
(* (reply, delete_reply).                                                  *)
THEOREM RepliesAreCounted ==
  ASSUME NEW c, Calls = {c}
  PROVE  AllSpec => []RepliesCounted
<1>1. TurnInv => RepliesCounted
  BY DEF TurnInv, ReplyTurnInv, RepliesCounted
<1> QED BY <1>1, TurnInvariance, PTL

(* A write moves an average away from the true one by its rounding, half a *)
(* hundredth, or delete_review cuts it to 0 (store_review, update_review,  *)
(* delete_review).                                                         *)
THEOREM RoundingBounded ==
  ASSUME NEW c, Calls = {c}
  PROVE  AllSpec => RoundingOnly
<1>1. TurnInv /\ [AllNext]_allVars => [ReviewRounding]_Review!vars
  BY TurnSteps, RequestsAssumed, ReviewRoundingStep DEF TurnInv
<1>2. ReviewRounding <=>
         (count' > 0 =>
            \/ 2 * (Review!Off' - Review!Off) \in -count'..count'
            \/ count' < count /\ average' = 0)
  BY DEF ReviewRounding
<1>3. TurnInv /\ [AllNext]_allVars =>
         [count' > 0 =>
            \/ 2 * (Review!Off' - Review!Off) \in -count'..count'
            \/ count' < count /\ average' = 0]_Review!vars
  BY <1>1, <1>2
<1> QED
  BY <1>3, TurnInvariance, PTL DEF AllSpec, RoundingOnly, Review!RoundingOnly
=============================================================================
