------------------------------ MODULE Replies ------------------------------
(***************************************************************************)
(* The thread under one review of a product: replies, reactions, and the   *)
(* counts of them kept in the review's row.  Replies come from buyers by   *)
(* the product's route and from the reviewer and the store's people by the *)
(* store's, which takes the reviews of products too.                       *)
(***************************************************************************)
EXTENDS Integers, FiniteSets

CONSTANTS
    Users,
    Buyers,     \* those who may reply by the product's route
    Team,       \* the reviewer, owners and staff: by the store's route
    Calls,
    Reactions,
    MaxReplies  \* bound: replies ever made

RepliesAssumption ==
    /\ Buyers \subseteq Users /\ Team \subseteq Users /\ IsFiniteSet(Users)
    /\ "none" \notin Reactions
    /\ MaxReplies \in Nat \ {0}

Routes == {"product", "store"}

VARIABLES
    there,    \* the review has not been deleted
    replies,  \* the rows of Reply: id, user, route (product_id or NULL)
    made,     \* the last id given
    strays,   \* history: the store's replies deleted by the product's route
    counts,   \* product_reply_count and store_reply_count
    react,    \* the row of React of each user
    reacted,  \* product_review_reaction_count
    call

vars == <<there, replies, made, strays, counts, react, reacted, call>>

Idle == [step |-> "idle"]
Busy(c) == call[c].step # "idle"
Done(c) == call' = [call EXCEPT ![c] = Idle]
None == "none"

TypeOK ==
    /\ there \in BOOLEAN
    /\ replies \subseteq [id : 1..made, user : Users, route : Routes]
    /\ made \in 0..MaxReplies /\ strays \in Nat
    /\ counts \in [Routes -> 0..MaxReplies]
    /\ react \in [Users -> Reactions \union {None}]
    /\ reacted \in 0..Cardinality(Users)
    /\ ~there => replies = {} /\ reacted = 0

Init ==
    /\ there = TRUE /\ replies = {} /\ made = 0 /\ strays = 0
    /\ counts = [w \in Routes |-> 0]
    /\ react = [u \in Users |-> None] /\ reacted = 0
    /\ call = [c \in Calls |-> Idle]

\* FOR UPDATE on a reply's row.
ReplyFree(r) == \A c \in Calls : call[c].step = "delete" => call[c].reply # r

\* FOR UPDATE on the review's row.
ReviewFree == \A c \in Calls : call[c].step # "react"

-----------------------------------------------------------------------------
Insert(u, w) ==
    /\ made < MaxReplies \* bound
    /\ replies' = replies \union {[id |-> made + 1, user |-> u, route |-> w]}
    /\ made' = made + 1
    /\ counts' = [counts EXCEPT ![w] = @ + 1]

\* product_reply_service.reply: the statement begins, and sees whether the
\* user has replied.
BeginReply(c, u) ==
    /\ ~Busy(c) /\ there /\ u \in Buyers
    /\ call' = [call EXCEPT ![c] =
                  [step |-> "reply", user |-> u,
                   exists |-> \E r \in replies : r.user = u]]
    /\ UNCHANGED <<there, replies, made, strays, counts, react, reacted>>

\* It has the lock on the review, read as it is now.
CommitReply(c) ==
    /\ call[c].step = "reply" /\ ReviewFree
    /\ IF there /\ ~call[c].exists
       THEN Insert(call[c].user, "product")
       ELSE UNCHANGED <<replies, made, counts>>
    /\ Done(c) /\ UNCHANGED <<there, strays, react, reacted>>

\* store_reply_service.reply: review and store are locked, any number will do.
StoreReply(u) ==
    /\ there /\ u \in Team /\ ReviewFree
    /\ Insert(u, "store")
    /\ UNCHANGED <<there, strays, react, reacted, call>>

\* delete_reply of either route locks the reply and reads the review.  The
\* product's finds the replies of both.
BeginDelete(c, r, w) ==
    /\ ~Busy(c) /\ ReplyFree(r)
    /\ w = "store" => r.route = "store"
    /\ call' = [call EXCEPT ![c] = [step |-> "delete", reply |-> r,
                                    route |-> w, count |-> counts[w]]]
    /\ UNCHANGED <<there, replies, made, strays, counts, react, reacted>>

\* Mutant: the count is left alone.
CommitDeleteOnly(c) ==
    /\ call[c].step = "delete" /\ ReviewFree
    /\ replies' = replies \ {call[c].reply}
    /\ Done(c) /\ UNCHANGED <<there, made, strays, counts, react, reacted>>

\* It writes one less than it read; a count of zero is not written.
CommitDelete(c) ==
    LET n == call[c].count IN
    /\ call[c].step = "delete" /\ ReviewFree
    /\ replies' = replies \ {call[c].reply}
    /\ counts' = IF n = 0 THEN counts
                 ELSE [counts EXCEPT ![call[c].route] = n - 1]
    /\ strays' = IF call[c].route = call[c].reply.route THEN strays
                 ELSE strays + 1
    /\ Done(c) /\ UNCHANGED <<there, made, react, reacted>>

-----------------------------------------------------------------------------
\* react_type locks the review, then reads the user's reaction.
BeginReact(c, u, k) ==
    /\ ~Busy(c) /\ there /\ ReviewFree
    /\ call' = [call EXCEPT ![c] =
                  [step |-> "react", user |-> u, kind |-> k,
                   existing |-> react[u], count |-> reacted]]
    /\ UNCHANGED <<there, replies, made, strays, counts, react, reacted>>

\* The same kind takes it back, another kind replaces it.
CommitReact(c) ==
    LET u == call[c].user  k == call[c].kind  n == call[c].count
        was == call[c].existing
    IN /\ call[c].step = "react"
       /\ react' = [react EXCEPT ![u] = IF was = k THEN None ELSE k]
       /\ reacted' = CASE was = k -> IF n > 0 THEN n - 1 ELSE 0
                       [] was = None -> n + 1
                       [] OTHER -> n
       /\ Done(c) /\ UNCHANGED <<there, replies, made, strays, counts>>

\* delete_review takes replies and reactions along.  A request that deletes
\* a reply wants the review while this wants the reply: the database aborts
\* one.  Here that is the other request, or this one does nothing.
DeleteReview ==
    /\ there /\ ReviewFree
    /\ there' = FALSE /\ replies' = {} /\ strays' = 0
    /\ counts' = [w \in Routes |-> 0]
    /\ react' = [u \in Users |-> None] /\ reacted' = 0
    /\ call' = [c \in Calls |-> IF call[c].step = "delete" THEN Idle
                                ELSE call[c]]
    /\ UNCHANGED made

Begin(c) == \/ \E u \in Users : BeginReply(c, u)
            \/ \E r \in replies, w \in Routes : BeginDelete(c, r, w)
            \/ \E u \in Users, k \in Reactions : BeginReact(c, u, k)

Commit(c) == CommitReply(c) \/ CommitDelete(c) \/ CommitReact(c)

Next ==
    \/ \E c \in Calls : Begin(c) \/ Commit(c)
    \/ \E u \in Users : StoreReply(u)
    \/ DeleteReview

Spec == Init /\ [][Next]_vars

\* One request at a time.
InTurn == (\A c \in Calls : ~Busy(c)) \/ \E c \in Calls : Commit(c)

-----------------------------------------------------------------------------
RepliesBy(w) == Cardinality({r \in replies : r.route = w})

\* The review counts the replies of each route, but for those of the store that
\* the product's route deletes: they stay in the store's count and may each
\* take one from the product's (reply and delete_reply of either route).
RepliesCounted ==
    there => /\ counts["store"] = RepliesBy("store") + strays
             /\ counts["product"] <= RepliesBy("product")
             /\ RepliesBy("product") - strays <= counts["product"]

\* A buyer has one reply under a review.
OneReply ==
    \A r, s \in replies :
        r.user = s.user /\ r.route = "product" /\ s.route = "product" => r = s

\* The review counts the reactions, whatever happens at the same time.
ReactionsCounted == reacted = Cardinality({u \in Users : react[u] # None})
=============================================================================
