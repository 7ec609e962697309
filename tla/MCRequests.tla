----------------------------- MODULE MCRequests -----------------------------
(***************************************************************************)
(* Instances, for TLC, of the components that serve requests.  They share  *)
(* no state, so every property is about one of them and side by side they  *)
(* would only multiply each other's states: a behaviour is one's, the one  *)
(* that part names, and a run covers each of those in Parts.  Stores is     *)
(* extended and not instantiated, so that its properties are those that    *)
(* PeopleProofs proves.                                                    *)
(***************************************************************************)
EXTENDS Stores, Functions, TLC

CONSTANTS
    Parts,
    MaxTokens, MaxBans, RedisFails,
    Customers, Agents, MaxTickets, MaxMessages,
    Kinds, MaxFiles, StorageFails, CacheFails, Crashes,
    Parent, MaxImages, MaxUploads,
    UserOf, MaxAddresses, StoreGoes,
    Variants, MaxItems, MaxCarts, MaxQuantity, MaxStock,
    Buyers, Kind, Ratings, MaxReviews,
    Team, Reactions, MaxReplies,
    CreatorSet

\* Several requests at once, or one at a time.
Overlap == Cardinality(Calls) > 1

\* Which of two requests is which does not matter.
Symmetric == Permutations(Calls)

\* Values of constants: two variants of one product, or one each of two; three
\* orders of two customers; two spellings each of a category and of a
\* sub-category, and one of another.
OneParent  == [v \in {"v1", "v2"} |-> "p1"]
TwoParents == [v \in {"v1", "v2"} |-> IF v = "v1" THEN "p1" ELSE "p2"]
ThreeOrders == [o \in {"o1", "o2", "o3"} |-> IF o = "o3" THEN "u2" ELSE "u1"]
CatNames == {"Shoes", "shoes", "hats"}
SubNames == {"Boots", "boots", "caps"}
Normal == [n \in CatNames \union SubNames |->
             CASE n = "Shoes" -> "shoes" [] n = "Boots" -> "boots"
               [] OTHER -> n]

VARIABLES
    part, userAccount, banned, blacklist, issued, ending, expired, exchanged,
    bans, parted, sessionCall, ticket, messages, ticketCall, stored, row, sent,
    used, leaked, torn, photoCall, store, product, variant, inventory, images,
    files, uploads, catalogueCall, orderStatus, hidden, linked, address,
    addressCall, state, items, total, stock, shelf, cartCall, reviews, posted,
    count, average, listed, reviewCall, there, replies, made, strays, counts,
    react, reacted, replyCall, cat, sub, above, categoryCall

sessionsVars == <<userAccount, banned, blacklist, issued, ending, expired,
                  exchanged, bans, parted, sessionCall>>
ticketsVars == <<ticket, messages, ticketCall>>
photosVars == <<stored, row, sent, used, leaked, torn, photoCall>>
catalogueVars == <<store, product, variant, inventory, images, files, uploads,
                   catalogueCall>>
addressesVars == <<orderStatus, hidden, linked, address, addressCall>>
cartVars == <<state, items, total, stock, shelf, cartCall>>
reviewsVars == <<reviews, posted, count, average, listed, reviewCall>>
repliesVars == <<there, replies, made, strays, counts, react, reacted,
                 replyCall>>
taxonomyVars == <<cat, sub, above, categoryCall>>

Session == INSTANCE Sessions WITH account <- userAccount, call <- sessionCall
Ticket == INSTANCE Tickets WITH call <- ticketCall
Photo == INSTANCE Photos WITH RedisFails <- CacheFails, call <- photoCall
Catalogue == INSTANCE Catalogue WITH Products <- Range(Parent),
        Variants <- DOMAIN Parent, call <- catalogueCall
Address == INSTANCE Addresses WITH Orders <- DOMAIN UserOf,
        Users <- Range(UserOf), status <- orderStatus, call <- addressCall
Cart == INSTANCE Cart WITH call <- cartCall
Review == INSTANCE Reviews WITH Users <- Buyers, call <- reviewCall
Reply == INSTANCE Replies WITH Users <- Buyers \union Team, call <- replyCall
Category == INSTANCE Taxonomy WITH Norm <- Normal, call <- categoryCall

ASSUME Assumptions ==
    /\ Session!SessionAssumption /\ Ticket!TicketAssumption
    /\ Photo!PhotoAssumption /\ Catalogue!CatalogueAssumption
    /\ StoreAssumption /\ Address!AddressAssumption
    /\ Cart!CartAssumption /\ Review!ReviewsAssumption
    /\ Reply!RepliesAssumption /\ Category!TaxonomyAssumption

AllInit ==
    /\ part \in Parts
    /\ Session!Init /\ Ticket!Init /\ Photo!Init /\ Catalogue!Init
    /\ Init /\ Address!Init /\ Cart!Init /\ Review!Init
    /\ Reply!Init /\ Category!Init

\* One component's step; where its handlers can be told to be served one at a
\* time, they are when there is one call.
AllNext ==
    /\ UNCHANGED part
    /\ \/ /\ part = "sessions" /\ Session!Next
          /\ UNCHANGED <<ticketsVars, photosVars, catalogueVars, vars,
                         addressesVars, cartVars, reviewsVars, repliesVars,
                         taxonomyVars>>
       \/ /\ part = "tickets" /\ Ticket!Next
          /\ UNCHANGED <<sessionsVars, photosVars, catalogueVars, vars,
                         addressesVars, cartVars, reviewsVars, repliesVars,
                         taxonomyVars>>
       \/ /\ part = "photos" /\ Photo!Next
          /\ UNCHANGED <<sessionsVars, ticketsVars, catalogueVars, vars,
                         addressesVars, cartVars, reviewsVars, repliesVars,
                         taxonomyVars>>
       \/ /\ part = "catalogue" /\ Catalogue!Next
          /\ (~Overlap => Catalogue!InTurn)
          /\ UNCHANGED <<sessionsVars, ticketsVars, photosVars, vars,
                         addressesVars, cartVars, reviewsVars, repliesVars,
                         taxonomyVars>>
       \/ /\ part = "stores" /\ Next
          /\ UNCHANGED <<sessionsVars, ticketsVars, photosVars, catalogueVars,
                         addressesVars, cartVars, reviewsVars, repliesVars,
                         taxonomyVars>>
       \/ /\ part = "addresses" /\ Address!Next
          /\ (~Overlap => Address!InTurn)
          /\ UNCHANGED <<sessionsVars, ticketsVars, photosVars, catalogueVars,
                         vars, cartVars, reviewsVars, repliesVars,
                         taxonomyVars>>
       \/ /\ part = "cart" /\ Cart!Next
          /\ UNCHANGED <<sessionsVars, ticketsVars, photosVars, catalogueVars,
                         vars, addressesVars, reviewsVars, repliesVars,
                         taxonomyVars>>
       \/ /\ part = "reviews" /\ Review!Next /\ (~Overlap => Review!InTurn)
          /\ UNCHANGED <<sessionsVars, ticketsVars, photosVars, catalogueVars,
                         vars, addressesVars, cartVars, repliesVars,
                         taxonomyVars>>
       \/ /\ part = "replies" /\ Reply!Next /\ (~Overlap => Reply!InTurn)
          /\ UNCHANGED <<sessionsVars, ticketsVars, photosVars, catalogueVars,
                         vars, addressesVars, cartVars, reviewsVars,
                         taxonomyVars>>
       \/ /\ part = "taxonomy" /\ Category!Next /\ (~Overlap => Category!InTurn)
          /\ UNCHANGED <<sessionsVars, ticketsVars, photosVars, catalogueVars,
                         vars, addressesVars, cartVars, reviewsVars,
                         repliesVars>>

allVars == <<part, vars, sessionsVars, ticketsVars, photosVars, catalogueVars,
             addressesVars, cartVars, reviewsVars, repliesVars, taxonomyVars>>
AllSpec == AllInit /\ [][AllNext]_allVars

-----------------------------------------------------------------------------
(* What the components' modules promise, several of one kind together.     *)
(* NoDoubleRole, VerifiedAsReviewed and RejectedStands are stated in       *)
(* Stores.                                                                 *)

\* Every component's variables keep their types, and no variant or cart gets
\* more than it may hold (add_vimage, add_item_to_cart).
AllTypeOK ==
    /\ Session!TypeOK /\ Ticket!TypeOK /\ Photo!TypeOK /\ Catalogue!TypeOK
    /\ TypeOK /\ Address!TypeOK /\ Cart!TypeOK /\ Review!TypeOK
    /\ Reply!TypeOK /\ Category!TypeOK

\* A dead refresh token stays dead, but for its last second (refresh_token,
\* logout).
DeadStaysDead == Session!DeadStaysDead

\* Redis and the database agree on who is banned, and no request that begins
\* under a ban is given a token (ban_profile, logins, refresh_token).
BansHold == []Session!BanAgrees /\ Session!NoTokenUnderBan

\* An answered ticket is in progress or closed (ticket_thread,
\* get_connection).
AnsweredIsInProgress == Ticket!AnsweredIsInProgress

\* A closed ticket is reopened by a late socket alone (get_connection), an agent
\* may close it only when it was answered and has been quiet, unless a socket
\* has touched it (close_ticket), and nothing is removed from a conversation
\* that goes on (clear_conversation, remove_message).
ConversationsClose ==
    /\ Ticket!OnlyLateJoinsReopen /\ []Ticket!PlainCloseQuietly
    /\ Ticket!RemovedWhenClosed

\* Every file that a row names is in storage: a picture's, but for the one
\* store_update removes (upload_profile_picture, ...), and a variant's image
\* (add_vimage, delete_one, delete_image).
NamedIsStored == Photo!NamedIsStored /\ Catalogue!ImagesHaveFiles

\* Storage holds nothing else, but for what the code is known to leave behind
\* (cleaned_up and its callers).
OrphansAreKnown == Photo!OrphansAreKnown

\* An address goes with its store, or while none of its orders is active but
\* those that chose it after the deletion had begun (remove_delivery_address).
AddressLocked == Address!AddressLocked

\* An address serves one customer's orders (choose_order_address).
OnePersonPerAddress == Address!OnePersonPerAddress

\* What is stored as a sum or a count is that of the rows: the total of a cart
\* (add_item_to_cart), the reviews of a product (product_review), and the
\* reactions to a review (react_type).
CountersAgree ==
    /\ Cart!TotalMatches /\ Review!CountMatches /\ Reply!ReactionsCounted

-----------------------------------------------------------------------------
(* Of requests that do not overlap.                                        *)

\* Nothing live is under something deleted: products, variants and stores
\* (delete_one, remove_store, approve_stores), and sub-categories
\* (delete_category).
NothingDangles ==
    /\ Catalogue!LiveUnderLive /\ Catalogue!ApprovedIsThere
    /\ Category!ParentIsLive

\* What no unique constraint rules out and the handlers look up first is there
\* once: the exchange of a refresh token before its last second
\* (refresh_token), the active ticket that a customer opened over HTTP
\* (text_support) and his open cart (add_item_to_cart), a buyer's review and
\* reply (store_review, reply), the normal form of a category's name
\* (category).
Unique ==
    /\ Session!ExchangedOnceInTime /\ Ticket!OnePlain /\ Cart!OneOpenCart
    /\ Review!OneReview /\ Reply!OneReply /\ Category!NamesDiffer

\* A review counts the replies of each route, but for those of the store that
\* the product's route deletes (reply, delete_reply).
RepliesCounted == Reply!RepliesCounted

\* An average goes wrong by its rounding alone (update_review).
RoundingOnly == Review!RoundingOnly

-----------------------------------------------------------------------------
(* What the documents say and the code does not keep.                      *)

\* A refresh token is exchanged once (README.md, Refresh Token Rotation;
\* refresh_token): not in its last second.
ExchangedOnce == Session!ExchangedOnce

\* Nor before it, when two requests present it at once (refresh_token).
ExchangedOnceInTime == Session!ExchangedOnceInTime

\* A customer has one active ticket (docs/customer_support.md, Ticket Cap;
\* get_connection): sockets open another.
OneActive == Ticket!OneActive

\* A closed ticket stays closed (docs/customer_support.md; get_connection): a
\* late socket opens it.
ClosedStays == Ticket!ClosedStays

\* An agent may close a ticket only after he has answered it and when it has
\* been quiet (docs/customer_support.md; close_ticket, get_connection): what
\* happens over a socket does not count.
ClosesQuietly == Ticket!ClosesQuietly

\* Storage holds nothing that no row names (docs/customer_support.md;
\* cleaned_up): it looks in the wrong bucket.
NoOrphans == Photo!NoOrphans

\* An active order has no deleted address (docs/delivery_address.md;
\* reactivate_order): one that is ordered again may.
ActiveAddressLives == Address!ActiveAddressLives

\* An address is deleted only when it is not in use (docs/delivery_address.md;
\* remove_delivery_address): not so, if it is chosen while the deletion waits.
DeletedIsUnused == Address!DeletedIsUnused

\* A customer has one open cart (docs/cart.md; add_item_to_cart): two first
\* additions at once make two.
OneOpenCart == Cart!OneOpenCart

\* A buyer has one reply under a review (docs/product_reply.md; reply): two sent
\* at once are both stored.
OneReply == Reply!OneReply
=============================================================================
