# AtomicCommerce: formal models

TLA+ models of the AtomicCommerce marketplace (FastAPI services over
PostgreSQL, Celery workers, Redis, object storage, Stripe), the TLC
configurations that check them on small instances, and TLAPS proofs of what
holds for every instance. Paths below are relative to the repository root
`src/`.

    tlc -config OrderStock_safety.cfg MCOrderStock     # and OrderStock_*.cfg
    tlc -config Payments_safety.cfg MCPayments         # and Payments_*.cfg
    tlc -config Requests_overlap.cfg MCRequests        # and Requests_*.cfg
    tlc -config Background.cfg MCBackground            # and Background_*.cfg
    tlapm OrderStockProofs.tla                         # and the other *Proofs.tla

## 1. Inventory of the system

Every request runs in one asynchronous database session (PostgreSQL, READ
COMMITTED); Celery workers run their own. Sessions interact only through rows:
`SELECT ... FOR UPDATE` locks a row until commit or rollback, and a plain
SELECT sees the last committed version. A statement that waits for a lock
re-reads the locked row when it gets it and nothing else: joins and subqueries
are as old as the statement. The ORM remembers the value it has read and
writes back a literal computed from it. Outside the database there are Stripe
(called by the payment service, answering later through the webhook), Redis
(cache, pub/sub, blacklist, streams), object storage and in-process queues; no
transaction spans any of them and the database.

| Part | State it keeps | Operations | Interacts with | What is hard | What makes it correct |
|---|---|---|---|---|---|
| Orders and stock: `order_service`, `inventory_service.update`, `helper.restore_inventory`, `scheduled_task.invalidate_order` | `Order` (status, order_delete, re_order_time), `OrderItem`, `Inventory.stock_quantity`, `Product.product_availability`, `Cart.check_out` | create, re-order, portal, toggle status, cancel, delete; stock count; sweep | payments (status of the order), cart, catalogue | competing sessions, reads without lock, sweep against requests, payment events on orders in any state, lock order | no overselling, stock conserved, a cart ordered once, abandoned orders released, availability agrees with stock |
| Payments and refunds: `payment_service` | `Payment` (one row per order), `Refund` rows | create_payment, charge_refund, subscription checkout | Stripe, webhook, orders | check, call to Stripe, write; a write that fails after Stripe acted | a paid order is not charged again, refunds within what was charged |
| Stripe webhook: `stripe_webhook_service` | `last_event_id`, `last_event_at` on payments, refunds, subscriptions | order, refund and membership events | payments, orders, memberships | duplicated, late, reordered events | each event applied once, an old event never undoes a newer one |
| Memberships: `membership_service`, Celery `activate`, `deactivate`, `update_membership_type`, `payment_service.membership_activation` | `Membership`, `Subscription` | join, update, leave, restore, activation by webhook, background task and workers | webhook, payments | redundant activators racing with deletion and with one another | active exactly while paid up |
| Cart: `cart_service` | `Cart`, `CartItem` | add, update, remove, clean up, read | inventory, orders | two first additions at once, a total kept beside the lines | one open cart per user, total equals lines |
| Inventory create/read/delete: `inventory_service` | `Inventory.is_deleted` | create, soft delete | catalogue, orders | deletion while others create | one row per variant |
| Catalogue: `product_service`, `product_variant_service` | products, variants, images and their files | create, update, soft delete, images | stores, inventory, cache, storage | cascades of soft deletes against creation | nothing live below something deleted, images have files |
| Categories: `category_service`, `sub_category_service` | `Category`, `SubCategory` | create, delete | catalogue | look, then insert | one row per normalized name, live parents |
| Stores: `store_service` | `Store`, owners, staff | create, approve, rename, remove, owners and staff | almost all services | counts over rows nobody locks | roles exclude one another, caps, deletion is complete |
| Store account and address: `store_account_and_address_service` | `StoreAccount` verification, `Address` | create, edit, verify, reject | stores | edits after a verdict | a verdict is about the details shown |
| Store analytics: `store_analytics_service` | none (reads) | time buckets of sales | orders, payments | bucket boundaries | each sale in one bucket |
| Authentication: `auth_service`, `auth/` | refresh tokens (blacklist in Redis), bans | sign-up, login, refresh, logout | profile | two uses of a token at once, two stores of one ban | a dead token stays dead, no token under a ban |
| Profile: `profile_service` | `User` | edit, picture, ban, deactivate | auth, storage | the old picture read before the upload | a named file exists |
| Support tickets: `customer_support_service` | `Ticket`, `Messaging` | open, assign, answer, close, clear | chat, outbox | two tickets at once, a socket answering a ticket being closed | closed stays closed, one active ticket |
| Chat and outbox: `routes/websocket.py` | connections, `Messaging`, `OutboxEvent` | connect, send, publish pending events | Redis, tickets | crash between send and mark, claims that lapse | what is marked published is in the stream, boundedly often |
| Notifications: `utils/redis.py` worker and router, `notification_service` | in-memory queue, `Notification` | queue, batch commit, listing, SSE | PostgreSQL NOTIFY, lifespan of the app | full queue, failing batch, lost answer, shutdown | nothing stuck, nothing stored twice without cause |
| Cache-aside: `utils/redis.py` | version and data keys | read, fill, invalidate | all readers | fill racing with invalidation, keys that expire | nobody is told what was before an invalidation |
| Reviews, replies and reactions: five services | rows, counts and averages | create, update, delete, react | catalogue, stores | duplicates at once, counts kept beside rows | counts agree with rows |
| Delivery addresses: `delivery_address_service` | `Address`, `Order.address_id` | add, choose, delete | orders, stores | choosing against deleting | an address in use stays, and is one person's |
| Routes, schemas, exceptions; `main.py`; `celery_app.py`; `models.py`, `database/`; logs, media, migrations, nginx | - | framework wiring, configuration, I/O | - | - | - |

## 2. Plan

Order by importance: money and stock first, then what can lose or duplicate
work, then the rest. Done: `OrderStock`, `Payments`, `Memberships`,
`EventLog`/`Notifications`, `Sessions`, `Outbox`, `Tickets`, `Cache`,
`Photos`, `Catalogue`, `Stores`, `Addresses`, `Cart`, `Reviews`, `Replies`,
`Locks`, `Taxonomy`, and proofs about all of them. Left:

1. `OrderStock` composed with `Addresses`, whose orders are abstract;
2. the abstract life cycle of a payment that `Payments` refines with one page at
   a time, and `update_payment`;
3. the registry of socket connections and the fan-out over Redis streams;
4. the notification listing (its bulk update of unread rows);
5. `Pricing`: totals of an order as a pure function; buckets of the analytics.

Each module takes its sets as CONSTANTS with a named assumption, has one
action per operation, and where it is proved about an inductive invariant of
named conjuncts in a module of proofs. Recursive operators are out of the
provers' reach, so sums are cardinalities (`Quantities`: orders' demand, the
total of a cart, the stars of reviews), and "in ascending order", where the
code loops over a list or calls `sorted()`, is the one sequence that has the
property (`Sorting`), not the result of a sorting function.

## 3. Modules

| Module | Models |
|---|---|
| `Quantities` | sums over rows (`Total`), as a number of units |
| `Sorting` | a finite set of numbers in ascending order, for `Notifications` and `Locks` |
| `OrderStock` | sessions, orders, stock, availability, and payments as far as they write an order |
| `Payments` | one order's payment: create_payment, charge_refund, Stripe's pages and refunds, the webhook |
| `Memberships` | one membership and its subscription: the member, Stripe, the webhook, the background task, three Celery tasks |
| `EventLog` | abstract: events are stored or given up, and stored again only after a lost answer |
| `Notifications` | router, bounded queue and batch worker of every server; refines `EventLog` |
| `Sessions` | one account's refresh tokens and bans, in the database and in Redis |
| `Tickets` | support tickets over HTTP and over web sockets |
| `Outbox` | the chat's transactional outbox |
| `Cache` | one cached view under each of three schemes of invalidation |
| `Photos` | files in storage and the rows that name them, in four handlers |
| `Catalogue` | products, variants, inventory rows, images and files below a store |
| `Stores` | creation, approval, owners and staff of stores, their bank accounts |
| `Addresses` | delivery addresses against the life of their orders |
| `Cart` | the carts of one customer |
| `Reviews`, `Replies` | reviews, replies and reactions with their counts and averages |
| `Taxonomy` | categories and sub-categories |
| `Locks` | the order in which stock transactions lock rows |
| `MCOrderStock`, `MCPayments`, `MCRequests`, `MCBackground` | instances for TLC |
| `QuantitiesTheorems`, `OrderStockProofs`, `PaymentsProofs`, `CacheProofs`, `BackgroundProofs`, `PeopleProofs`, `ShopProofs`, `RequestsProofs` | lemmas and theorems |

How the modules fit. `OrderStock` and `Payments` look at the same order from
two sides. `OrderStock` has every handler of an order and treats a payment as
events that may come at any time; `Payments` has every step of a payment and
treats the order's handlers as single steps on its status. They share
`Quantities`. `Addresses` has the handlers of an order again as steps on its
status, `Locks` the same transactions as `OrderStock` as sequences of locks.
`Catalogue` and `Stores` both have the deletion of a store, each with the rows
it is about.

`MCRequests` puts the ten components that serve requests side by side, and
`MCBackground` the five that run behind them. The components in each share no
variable, so that their interleavings would only multiply the states of one by
those of another; the variable `part` names the component a behaviour is
about, and a run covers every component in `Parts` (give it one name to check
one component). `MCRequests` extends `Stores` and `MCBackground` extends
`Outbox` rather than instantiating them, so that their properties are stated
of the composition under their own names; the others are instantiated with the
variables whose names clash renamed. The proofs are about the composites
themselves, whose properties the runs check. A
component that rests is at its initial state, where no action that its
fairness demands is possible, so the conjunction of all fairness in
`AllFairSpec` asks nothing of it.

`Requests_overlap.cfg` has two requests at once (`Calls = {c1, c2}`),
`Requests_serial.cfg` one (`Calls = {c1}`, and `InTurn` in the components
whose steps are not all calls). The second says what handlers keep when
nothing runs between their steps; it has larger data instead. Where a property
holds only there, the README names the interleaving that breaks it
(*Disagreements without a run*).

### OrderStock and the code

State: `stock` is `Inventory.stock_quantity`; `listed` the products whose
`product_availability` is `"available"`; `checkedOut` `Cart.check_out`;
`status`, `cartOf`, `deleted`, `reordered` are the order's status, its items
(the lines of its cart), `order_delete` and whether `re_order_time` is set;
`expired` is the clock as the handlers see it: the window that governs the
order (one hour from `created_at`, thirty minutes from `re_order_time`) has
lapsed. `pay` and `refunds` are the payment row's status and how much of its
total the `Refund` rows add up to. `txn[s]` is session `s`: which handler
runs, the rows it holds, what it has read. `supply`, `lost`, `surplus`,
`revived` are history variables that no action reads.

A handler that holds locks over several statements is Begin, (LockStock,)
Commit, and Rollback at any time between; the others are single actions.

| Action | Code |
|---|---|
| `BeginCreate`, `LockStock`, `CommitCreate` | `create_orders`: cart under FOR UPDATE, inventory under FOR UPDATE and checks, writes and the conditional update of the cart |
| `BeginReactivate`, `LockStock`, `CommitReactivate` | `reactivate_order` |
| `PortalExpire`, `ToggleCancel`, `CancelOrder`, `Sweep`, then `CommitCancel` | the four callers of `restore_inventory`: order rows locked, inventory loaded by `selectinload` with no lock, written at commit |
| `BeginCount`, `CommitCount` | `inventory_service.update` |
| `ToggleStatus`, `DeleteOrder` | `toggle_status` to another status, `delete_order` |
| `Expire` | time passes |
| `OpenPayment` | `create_payment` writing the payment row; its check of a pending order is older than its call to Stripe, so no status is required |
| `PaymentSucceeded`, `PaymentFailed`, `RefundEvent` | the webhook |
| `RefundInFull`, `RefundInPart` | `charge_refund`; a full refund sets the order to pending, or writes nothing when the order was read as pending before |

Abstractions. An order is visible to others from its commit. A portal visit to
an order in time only moves `re_order_time` forward by five minutes: here a
window lapses at any moment, so this needs no action. Prices, taxes and
discounts are left out. Variants and inventory rows are not deleted here. A
transaction that is the victim of a database deadlock is a Rollback. Product
rows are not locked by handlers until they flush; their writes are part of the
commit, and what they read before is in `seen` and `soldOut`.

### Payments and the code

State: `order` is the order's status and total; `row` the `Payment` row;
`ledger[r]` and `lastRefund[r]` the `Refund` row of Stripe's refund `r`;
`request` and `refunder` the calls of `create_payment` and `charge_refund` in
progress, with what they have read; `checkout` and `refund` Stripe's own
objects; `shown` the pages whose URL a response has carried; `acked` the
events answered with 200.

| Action | Code |
|---|---|
| `CheckPayment`, `OpenCheckout`, `InsertPayment` or `ResetPayment`, `AbandonPayment` | `create_payment`: the reads and early returns, the call to Stripe, the write of the row, a failure or crash at any point |
| `LockRefund`, `StripeRefund`, `SaveRefund`, `AbandonRefund` | `charge_refund`, with the payment row locked throughout |
| `PaymentEvent`, `RefundEvent` | `stripe_webhook`: one delivery of one event, applied or skipped; both acknowledge |
| `CancelOrder`, `ReactivateOrder`, `ToggleStatus` | the sweep (and the portal and the customer), `reactivate_order`, `toggle_status` |
| `Pay`, `ExpireCheckout`, `RejectRefund` | Stripe and its customers (external) |

`Overwritten` is the subtle part. `create_payment` loads the row, calls
Stripe, then selects the row again FOR UPDATE in the same session. That second
select locks the row but does not replace the values the session already
holds, and the ORM writes only columns whose new value differs from the held
one: if another request has meanwhile changed the status away from what was
read, and the new status equals what was read, the other's stays.

Abstractions. One order, because a payment belongs to one order
(`unique_order_payment`) and the handlers touch no other. Pages and refunds
are numbered as Stripe creates them and the number stands for `created`; two
objects made in the same second are left out. `create_payment` puts its
metadata on the check-out session only, so `payment_intent.*` and `charge.*`
events carry none, the webhook ignores them, and they are not modelled;
`refund.updated` is. Both events of a refund carry the refund's own creation
time. Stripe is not assumed to know how much has been refunded. The
transaction of an expired page is null. Amounts are small naturals: every
comparison in the code is between exact decimals.

### Memberships and the code

State: `member` is the `Membership` row (absent, live or deleted; `is_active`;
plan), `sub` the `Subscription` row (status, mode, `expire_at`, plan,
`last_event_at` and `last_event_id`), `pages`, `billing`, `objects`, `sent`
Stripe's side, `tasks` the background activations, `editor` an `update`
waiting for its lock. The unit of time is a billing period. Stripe's objects
are numbered as they are created and an event carries the number of its
object: that is what the webhook compares.

| Action | Code |
|---|---|
| `MakeMember`, `ReadForUpdate`/`Update`/`LeaveUpdate`, `DeleteMember`, `RestoreMembership` | `membership_service`; `update` waits with FOR UPDATE OF Membership, so the joined subscription is the one read before |
| `CreatePayment`, `ChangePlan` | the check-out of a membership, `update_payment` |
| `Webhook`, `SkipEvent` | one delivery of one event, applied (`Accepts`, `StatusAfter`, `ExpireAfter`, `PlanAfter`, `Activates`) or dropped by the filter; both acknowledge |
| `MembershipActivationRead`, `MembershipActivationWrite` | the background task: reads without a lock, writes the flag later |
| `Activate`, `Deactivate`, `UpdateMembershipType` | the three Celery tasks |
| `PayOnce`, `Subscribe`, `ExpirePage`, `Renew`, `RenewFails`, `EndBilling`, `Tick` | Stripe and the clock (external) |

The missing comma that joins two event names (`stripe_webhook_service.py:268`)
is modelled by what it does: `invoice.payment_succeeded` leaves the status
alone. Time passes only when `Activate` has nothing to do: its period is an
hour, a billing period a month. Prices, `customer.subscription.created` (which
writes references only) and a second recurring subscription are left out.

### EventLog, Notifications and the code

`Notifications` has per server the router's connection and payloads, the
bounded `notification_queue`, and the worker's batch; an item carries its
number of failures. `Emit` is the database trigger (external), `Route` puts a
payload in the queue if there is room, `RouterCrash`/`Reconnect` lose what is
sent between, `Shutdown` is the end of `lifespan`, `Collect` and `Commit`,
`CommitFails`, `CommitUnheard` (the answer to a successful commit is lost) are
`add_commit_periodically`; `ToRetry` is its limit of three (`Again`) and the
room the queue has left (`Room`, `Retried`). `EventLog` is what
a reader may rely on: `Emit`, `Store`, `StoreUnheard`, `GiveUp`. `Log` is the
refinement mapping: what is open is what a server holds in its inbox, queue or
batch. It is checked for one server; with two each event is stored twice
(below).

### Outbox and the code

`row` is the `OutboxEvent` row (status, claim token, attempts, due),
`holds[s]` and `sent[s]` the loop variables of `publish_events` in process
`s`, `stream` the Redis stream. `Store` is the insert with the message,
`Claim` `claim_outbox_events`, `Publish` `xadd`, `Mark`/`MarkFails`
`mark_event_as_published`, `Retry` `schedule_retry`, `Crash` the end of a
process, `Lapse` the passing of a claim's time. Two things keep the loop from
running in the code as it stands: nothing starts `publish_events`, and the
claim reads `event.attempts` where the column is `attempt` (`models.py:216`),
an exception that is caught and logged. So no event is ever published by the
code as it stands. `AttemptsColumn = FALSE` is that, and everything safe is
safe then because nothing happens; the run takes the name for corrected, checks
what the protocol of claims, tokens and retries keeps, and assumes no fairness
of a loop that nothing starts: that an event is settled in the end is not
claimed. `Retry` puts the event back whether the entry was not added or only
the answer to it was lost. The consumers of the stream (a group per process that reads from `$` and never
re-reads unacknowledged entries) are not modelled.

### Cache and the code

`scheme` is the way a view is invalidated, chosen at the start: `"version"`
(INCR on a version key, e.g. `view_orders`), `"scan"` (entries scanned for and
unlinked, `cart_invalidation`), `"unawaited"` (`order_address_invalidation`,
whose `unlink` is never awaited). A request is `Begin`, `SetVersion`,
`Lookup`, `Query`, `Fill`: version, entry, database and store are separate
round trips. `Write` commits and leaves an invalidation to a background task
(`Invalidate`; `Lose` when the process stops first). `late` abstracts the
times to live: the version's key expires (`ExpireVersion`) only once it is
late (`Age`) and the entries stored before that are gone.

### Sessions and the code

`account` is the row (active; ban none, timed, indefinite or over), `banned`
and `blacklist` are in Redis. `logins` is `LoginRead`, then `LoginCommit`, or
for a ban that is over `LoginLift` (or `LoginRefused`, by the schema's check of
the ban columns) and `LoginUnban`, then `LoginMint`; `refresh_token` is
`RefreshCheck`, `RefreshRotate` or `RefreshFails`; `Logout`,
`DeactivateProfile`, `BanProfile` and `BanInRedis` are the other handlers. An
access token lives for minutes and is taken to fall with its refresh token.

A token ends in two steps: at its exp (`LastSecond`) nothing more is put on the
blacklist for it, and its entry there ends at some time from then on
(`EntryEnds`); only when that second is over is it no longer accepted
(`Expire`). `parted` is a history variable: a write to Redis was lost, or a ban
and the lifting of one came between each other's two writes, which is when the
database and Redis may disagree.

### Tickets and the code

`ticket` and `messages` are the rows of `Ticket` and `Messaging`; `call` what
a handler has read, or the ends of a socket. `Check`, `Pick`, `Open`,
`Abandon` are `text_support` (look, load count, insert after the upload); the
handlers that lock the ticket (`TicketThread`, `MarkAsResolved`,
`CloseTicket`, `RemoveMessage`, `ClearConversation`, `View`, `Conversations`)
are one step; the `Socket` actions are `get_connection`, which reads the
ticket without a lock and flags it later, opens a quick ticket whatever others
there are, and stores messages without touching the ticket. Sockets are part of
every run. `chatted` is a history variable: a socket opened, joined or used
the ticket. Time since an event is 0, 1 (thirty minutes) or 2 (two days). One
store; a page of messages shows the whole thread; `remove_message`'s unlocked
read is atomic with its write; whether agents are active is left out.

### Photos and the code

Four places store a file, write the row, then remove the old or the new
file: `upload_profile_picture`, `store_update`, `product_change`, and the
messages of `text_support` and `ticket_thread`. `call[c]` is how far one has
come, `Fail`, `UploadFails`, `Refuse`, `Crash` what stops it. `CleanedUp`
looks in the public bucket only, as `cleaned_up` does, and may fail. Two
history variables say where the code goes wrong: `leaked`, the files that stay
although no row names them (a stop, a removal that fails, is never made or
looks in the wrong bucket, a picture replaced by an upload that had read the
name before it), and `torn`, the photo that `store_update` removes when an
invalidation raises after its commit and is taken for a failed write.
`NamedIsStored` and `OrphansAreKnown` say that nothing else goes wrong, with
all failures on.

### Catalogue, Stores, Addresses and the code

`Catalogue`: one store with its products, variants, inventory rows and images;
a creation is a check and an insert (`CheckVariant`, `InsertVariant`, ...),
since most look at what is above without a lock; `CountImages`/`AddImage` hold
the variant's row; `DeleteProduct`, `DeleteVariant`, `DeleteImage` and
`RemoveStore` are one transaction each, and remove the files the code removes.

`Stores`: `CheckCreation`/`Create` count without a lock,
`CheckPerson`/`AddPerson` hold the advisory lock of the store; `RemoveStaff`,
`Approve`, `Rename` (once), `Remove`, `AddAccount`, `EditAccount` and `Judge`
are one step. The caps compare as the code does (`>` before the addition).
`Followed` are the stores whose name and account are followed. User activity,
slugs and descriptive fields are left out.

`Addresses`: `BeginChoose`/`CommitChoose` is `choose_order_address`, which
locks the order and reads the address without a lock. `remove_delivery_address`
is one statement with a snapshot of its own: `BeginRemove` sees the orders that
have the address as it begins, `CommitRemove` has the locks, looks at those
rows again and at no others; `late` is a history of the orders that chose the
address in between. `AddDelivery`, `AddStoreAddress`, `RemoveStoreAddress` are
one step. `Payment` (events and refunds), `Toggle`, `Sweep`, `Revive`, `Hide`,
`RemoveStore` are what the other services do to orders and addresses; none of
them looks at whether the address is still there.

### Cart, Reviews, Replies, Taxonomy, Locks and the code

`Cart`: `Add` counts the open carts without a lock and continues with
`Insert`, `FillNew` or `Find`; `Edit`, `DeleteOne` and `CleanUp` lock the cart
and write in `Write`/`WriteClean`; `DeleteAll`, `CheckOut` are one step;
`SellElsewhere` and `Shelve` change what can be bought.

`Reviews`: a request is one statement that locks the row of the product or the
store and reads the reviews as they were when it began waiting (`BeginCreate`,
`CommitCreate`, ...). The average is in hundredths and rounded half to even.
`RoundingOnly` bounds what one write may change of `Off`, the error of the
average times the number of reviews: half of that number, the price of one
rounding. It makes one exception, which the proof forced: `delete_review`
takes the maximum of 0 and what is left, and roundings that have added up
before (three reviews with ratings 1, 2 and 3 are enough) can make what is
left negative, so that the average becomes 0 and the error changes by more.
`Kind` says whether the reviews are a product's, whose unique constraint
binds, or a store's. `Replies`: one review, replies by two routes and
reactions; `StoreReply` and `DeleteReview` are one step; `strays` counts the
store's replies that were deleted by the product's route, which takes them off
the wrong count. Texts are left out;
the reactions to replies take the same path.

`Taxonomy`: look, then insert, of categories and sub-categories by spelling;
deletions. `CreatorSet = FALSE` is the code as it stands: no handler fills
`created_by`, a NOT NULL column, so every creation is refused. The runs take
it for filled.

`Locks`: what `OrderStock` leaves out, one lock at a time: `CheckOut` locks
inventory rows in the order the database finds them and then products,
`Restore` writes each table by id and the tables in either order, `Count`
locks an inventory row and its product. `Break` is the database aborting one
of a circle.

### Runs

| Run | Instance | Result | Shows |
|---|---|---|---|
| `safety` | OrderStock: 2 sessions, 2 orders, 2 carts, stock 3 and 1, 3 extra operations | 1.2 million states | no overselling (`TypeOK`: a stock is a natural number), `LockedReadIsCurrent`, `StockConserved`, `OneOrderPerCart`, `DeletedStaysReleased` |
| `serial` | 1 session, 4 extra operations | 350 thousand states | `StockedProductIsListed`: without concurrency, availability is right |
| `live` | 2 sessions, 1 extra operation, `FairSpec` | 92 thousand states | `ExpiredIsReleased`: an abandoned order gives its stock back |
| `lost` | 2 sessions, none | violation | `NoLostUpdates`: README.md:144 |
| `pay_safety` | Payments: 2 payments and 2 refunds in progress, 2 pages, 2 refunds, totals 1 and 2, repeated events | 2.7 million states | `ProgressIsPaid`, `RefundsFenced`, `NewerEventStands` |
| `pay_live` | 1 and 1, 3 pages, 2 refunds, `FairSpec` | 224 thousand states | `PendingIsSettled`: a pending payment is settled |
| `pay_once` | 1 and 1, 3 pages | violation | `PaidOnce`: payment_service.py:156 |
| `requests` | ten components of `MCRequests`, two requests at once, all failures of Redis, storage and the server, sockets, re-orders, deletion of the store | 1.39 million states, with the requests symmetric | what overlapping requests cannot break: `AllTypeOK` (with the caps on images and cart lines), `DeadStaysDead`, `BansHold`, `AnsweredIsInProgress`, `ConversationsClose`, `NamedIsStored`, `OrphansAreKnown`, `NoDoubleRole`, `VerifiedAsReviewed`, `RejectedStands`, `OnePersonPerAddress`, `AddressLocked`, `CountersAgree` |
| `requests_serial` | seven of them, one request at a time, larger data, the same failures | 2.42 million states | what the handlers keep by themselves: `NothingDangles`, `Unique`, `RepliesCounted`, `RoundingOnly` |
| `cart_race` | `Cart` alone, two requests | violation | `OneOpenCart`: docs/cart.md:27 |
| `background` | five components of `MCBackground`, `AllFairSpec` | 189 thousand states | `PaidFor`, `FollowsPeriod`, `ImplementsLog`, `EverySettled`, `PublishedIsInStream`, `BoundedRepeats`, `ClaimStands`, `Fresh`, `StaleEndsGone`, `EveryTransactionEnds` |
| `mem_deleted` | `Memberships` alone, three Stripe objects | violation | `DeletedIsInactive`: docs/membership.md:34 |

OrderStock: all runs have two variants of one product, a cart with one unit of
each and a cart with two of the first, so that the carts compete. `MaxOps`
bounds what could go on for ever: re-orders, payment and refund events,
counts, and failures of a cancellation; `MaxStock` bounds what a merchant
types into a count. Two sessions are enough because every interference here is
between the read of one and the write of another; the proofs remove the bound.
In `live` one event suffices to have an order come back to pending, or a sweep
fail. `StockConserved` says by how much stock and orders may drift apart: its
exceptions, `lost` and `surplus`, are marked where the hole is hit and nowhere
else.

In `Payments`, `MaxCheckouts` and `MaxRefunds` bound the pages and refunds
ever made. Two calls at once and two pages are the smallest instance in which
one request overwrites another's row and an old page's event meets a newer
one's; three pages add a page after both.

In `MCRequests` the bounds are on what is ever created: `MaxTokens`, `MaxBans`,
`MaxTickets`, `MaxMessages`, `MaxFiles`, `MaxUploads`, `MaxAddresses`,
`MaxCarts`, `MaxReviews`, `MaxReplies`, `MaxEdits`. Two requests show every
interference of a read of one with a write of another; the third of each kind
of row is there so that a deletion can leave two behind, or two pass a cap of
one. The caps of the code (5 images, 10 and 2 stores, items of a cart) are
constants and small here. No switch of these two runs turns a failure off;
where the code goes wrong a property says so, by a history variable that is set
at the hole and nowhere else (`parted`, `chatted`, `leaked`, `torn`, `late`,
`strays`, and the last second of a token). `RoundingOnly` needs three reviews
by three customers: with two every average is exact. `requests_serial` leaves
out `Stores`, `Photos` and `Addresses`, whose properties hold overlapping.

In `MCBackground`: two Stripe objects (a check-out and a renewal, or two
check-outs) and two periods; three notifications of which one cannot be
stored, a queue and batches of two, one server, two stops; two outbox events,
two servers, two attempts, two faults; two readers, two changes and one expiry
of the version's key; two transactions over two variants of one product.
`Memberships` alone was also checked with three objects (744 thousand states,
both liveness properties hold); that is too long for a run of all five.

Deadlock is checked in the OrderStock runs. It is not in the others, where the
models do stop: a payment delivered or set to paid by the store has nothing
left to happen, and the components of the composites end when the bounds on
what is created are reached.

Violations. `lost`: an order is created; its cancellation reads the inventory
while a second check-out of the same variant is under way; the check-out
commits its decrement, and the cancellation overwrites it with the sum of the
old quantity and what it gives back, so that units that were sold are on the
shelf again. `pay_once`: the expiry of an orphaned page, matched by `order_id`,
lets the customer be given a second page while the first can still be paid.
`cart_race`: two first additions both count no open cart and insert one.
`mem_deleted`: a membership is deleted while its page is open; the page is
paid, and the webhook or the hourly task makes the deleted member active.

### Fairness

`live`: a session that has begun ends, by commit or rollback (requests finish
or their connection is dropped). The beat starts the sweep every 300 seconds
for ever (`celery_app.py:26`), so a sweep enabled again and again runs (strong
fairness: between two ticks the row may be locked, SKIP LOCKED, and free
again). A cancellation waits in the database's queue for its row locks, hence
is served (strong fairness); it may fail, but not for ever: `MaxOps` bounds
the failures. No handler's start is fair: customers owe nothing.

`pay_live`: a page is paid or expires (Stripe ends it after a day), Stripe
sends each event of a page until it has been acknowledged (strong fairness:
the UPDATE waits in the queue of the row lock), and a call of `charge_refund`
ends. The run has one request at a time on purpose. With two and a fourth page
the property fails: both read a refunded row, one resets it, its page's event
is applied, and the other's reset leaves that newer `last_event_at` under an
older page, whose event the filter then drops. No document promises otherwise,
so this stands as a hazard and not as a finding.

`background`, all weak fairness but for one: the three Celery tasks run for
ever (`celery_app.py:30-38`) and a background activation that was started ends;
nothing is assumed of Stripe's deliveries or of the member. Routers and workers
are loops that the lifespan of the app keeps, and a router reconnects; a
request that has begun goes on and Redis expires what it was told to. The
outbox has no fairness: nothing starts its loop, and its properties are safety
alone. A row lock is granted first come, first served, so a transaction that
can take its next lock again and again takes it (strong fairness), and the
database looks for circles as long as one waits.

`FollowsPeriod` says of the end of a period what the code does: a member is
deactivated if the subscription's status is not `inactive`. `deactivate`
passes over inactive subscriptions, and with three objects the model reaches a
lapsed member whose flag stays on behind such a status: `deactivate` sets it,
a late `subscription.updated` of the same creation time makes the status
active again, and a background task that had read before switches the member
on after the next `deactivate`.

### Disagreements without a run

Four disagreements between a document and the code have a run of their own
(above). Nine more have a configuration, `Requests_<name>.cfg`, with which TLC
finds the property that states the document violated within seconds. The runs
check beside each of them what the code does keep.

| cfg | Property | The shortest trace | Code | What a document says | Kept all the same |
|---|---|---|---|---|---|
| `refresh` | `ExchangedOnce` | one request at a time: a token is refreshed twice as its last second begins; nothing is put on the blacklist any more, and `decode_token` still accepts it | auth_service.py:408 | README.md:154, "on every single use" | `DeadStaysDead` |
| `refresh_race` | `ExchangedOnceInTime` | two requests look at the blacklist before either writes it | auth_service.py:366 | the same | `Unique`, `DeadStaysDead` |
| `quick_ticket` | `OneActive` | one request at a time: `text_support` opens a ticket, then its customer connects and is given a quick ticket | routes/websocket.py:347 | docs/customer_support.md:27, "a maximum of one active ticket" | `Unique` (tickets opened over HTTP) |
| `reopened` | `ClosedStays` | an agent's socket reads a ticket open, it is resolved, the socket writes in_progress | routes/websocket.py:430 | docs/customer_support.md:20, "protects resolution status changes" | `ConversationsClose` (nothing else reopens one) |
| `chat` | `ClosesQuietly` | one request at a time: the agent answers a quick ticket, the customer writes over the socket later on, and the ticket can be closed two days after the answer | routes/websocket.py:532 | docs/customer_support.md:29, "completely inactive (no messages sent)"; a socket also counts as an answer before it gives any (:30) | `ConversationsClose` (tickets no socket has touched) |
| `orphan` | `NoOrphans` | one request at a time, working storage: a support photo is uploaded to the private bucket and its request fails; `cleaned_up` looks in the public one | supabase_url.py:51 | docs/customer_support.md:19, "purge the newly uploaded storage file path" | `OrphansAreKnown` |
| `reorder` | `ActiveAddressLives` | one request at a time: the address of a delivered order is removed, then a full refund or a late failure of its payment sets the order to pending; a re-order of a cancelled one does the same (order_service.py:555), and so does the deletion of the store (store_service.py:981) | payment_service.py:586 | docs/delivery_address.md:37, an address of an order in `pending` "cannot be [...] soft-deleted until" | `AddressLocked` |
| `address_race` | `DeletedIsUnused` | a second order's choice is under way when the deletion begins; it commits, and the deletion, whose snapshot has the first order alone, goes through | delivery_address_service.py:227 | the same | `AddressLocked` (all but such late orders) |
| `reply_race` | `OneReply` | two replies of one user find none and are both stored | product_reply_service.py:74 | docs/product_reply.md:39, "only one reply per user per review thread" | `Unique` |

The models also show the following, each of which was found as a violation of
a property the document states; the order is that of the parts.

| Code | What happens | What a document says |
|---|---|---|
| stripe_webhook_service.py:450 | the event sets `Order.status` whatever it was: an order cancelled while its page was open becomes processing without stock, and gives stock back again when cancelled later | README.md:144, no "inventory drift" |
| order_service.py:563 | `reactivate_order` never looks at `re_order_time`: cancel, re-order, cancel, re-order | docs/order.md:35, "Allowed exactly once per invalidated order" |
| inventory_service.py:268 | a count decides by the availability it read before an order flagged the product out_of_stock, and leaves it so with stock | docs/inventory.md:15, "resets its marketplace state back to "available"" |
| scheduled_task.py:44 | a cancelled order that its customer deletes and a late event of a failed payment sets back to pending stays pending for ever | docs/order.md:29, "abandoned orders are systematically cleaned up" |
| order_service.py:164 | `sorted()` orders the ids of the IN list, not the locks: sessions wait in a circle until the database aborts one | docs/order.md:27, "to prevent database deadlock conditions" |
| payment_service.py:208 | `create_payment` clears the last event, and the row keeps one: an event processed before is applied again | docs/stripe_webhook.md:46, "ignored without performing additional state mutations" |
| stripe_webhook_service.py:425 | the failure event of any page of the order turns SUCCESS into FAILED | docs/database.md:73, PENDING, then SUCCESS or FAILED, then REFUNDED |
| stripe_webhook_service.py:354 | `customer.subscription.deleted` carries the subscription's creation time, older than the last renewal's invoice, and is skipped | docs/stripe_webhook.md lists it among the signals that adjust the status |
| membership_service.py:132 | FOR UPDATE OF Membership does not re-read the subscription: a plan changes under one that has become active | docs/membership.md:32, only "when there is no active subscription" |
| main.py:62 | every server process starts a router and a worker, and each stores every event | README.md:134, "a dedicated worker listener" |
| customer_support_service.py:48 | two requests at once open two tickets | docs/customer_support.md:27, "a maximum of one active ticket" |
| customer_support_service.py:74 | tickets opened at once all go to the agent who was least burdened before them | docs/customer_support.md:9, "the least-burdened operator" |
| routes/websocket.py:495 | "read" sets a message seen and leaves it undelivered | docs/customer_support.md:14, "(`seen=True, delivered=True`)" together |
| store_service.py:396 | an invalidation that raises after the commit of `store_update` is taken for a failed write: `cleaned_up` removes the photo the row names (:422) | README.md:155, files are cleaned up "on database rollbacks" |
| auth_service.py:122 | two uploads read the same old picture: the one that the second replaces stays in storage | docs/auth.md:34, "zero-orphan compliant" |
| product_variant_service.py:63 | a product deleted between the look and the insert keeps a live variant | docs/product.md:30, deletion suppresses what is below |
| product_service.py:550 | only the last variant's files are removed | docs/product.md:30, "simultaneously dropping secondary files" |
| store_service.py:642 | the advisory lock is on the store, the counts are over all stores: a person added by two stores at once exceeds the cap | docs/store.md:29, no "out-of-bounds roster sizes" |
| store_service.py:747 | `> 2` lets a person work in three stores (and `> 10` at :744 own eleven) | docs/store.md:23, at most 2 |
| store_service.py:966 | `Store.account` is a list: its `is_deleted` is not the row's | docs/store.md:35, accounts are soft-deleted |
| store_service.py:870 | staff of a deleted store cannot be removed and hold their places | docs/store.md:42, "can be removed from a roster" |
| store_account_and_address_service.py:147 | a request that adds the tax number to a verified account writes every other field too | docs/store_account_and_address.md:33, "The only permitted modification" |
| delivery_address_service.py:159 | the address is read without a lock: deleted before the choice commits, it stays with a pending order | docs/delivery_address.md:9, no drifting "over concurrent mutation workflows" |
| delivery_address_service.py:48 | a new address is accepted whatever the order's status | docs/delivery_address.md:41, "in a pending state" |
| redis.py:140 | INCR on an expired version key gives 1, where new readers start as well: old entries are served | docs/order.md:25, "invalid instantly" |
| redis.py:145 | a reader that queried before the change stores its answer after the scan | docs/cart.md:13, stale records are flushed "synchronously" |
| redis.py:187 | the unlink is never awaited: entries stay for five hours | docs/delivery_address.md:30, eviction after commit |
| cart_service.py:307 | the clean-up lets a variant stand that check-out refuses (availability) | docs/cart.md:22, "to reconcile states prior to billing handoffs" |
| store_reviews_service.py:48 | two first reviews of a store sent at once are both stored | docs/store_reviews.md:41, "only one active review per storefront" |
| product_reviews_service.py:214 | of two edits that wait, the second subtracts the rating before the first: the average may reach -3.00 | docs/product_reviews.md:11, the lock prevents "mathematical race conditions" |
| product_reviews_service.py:250 | corrections start from the rounded average, and roundings add up | docs/product_reviews.md:18, "to correct the product's average score" |
| store_reply_service.py:218 | the count is read without a lock and written one less | docs/store_reply.md:20, protected "from drift" |
| product_reply_service.py:288 | a store's reply deleted by the product's route is taken off the wrong count | docs/product_reply.md:26 |
| category_service.py:30 | two spellings created at once are both stored, after which the look-up fails | docs/category.md:44, no "identical normalized names" |
| sub_category_service.py:29 | a category deleted before the insert keeps a live sub-category | docs/sub_category.md:30, "a valid, non-deleted parent" |
| category_service.py:119 | a category is deleted whatever refers to it | docs/category.md:45, "cannot be removed if [...] actively referenced" |
| category_service.py:45 | no handler fills the NOT NULL column `created_by`: no category is ever created | docs/category.md:55 |

### Not modelled

Routes, schemas and exceptions: request parsing and response shapes; what they
allow is what the models enumerate. Start-up and middleware, the Celery
application, the relational schema, logging, migrations and deployment: wiring
without behaviour of its own; the beat's schedule is fairness, the lifespan's
tasks are in `Notifications`, constraints of the schema are in the modules
that run into them. Store analytics: SQL aggregates that change nothing. The
money of an order: pure arithmetic (planned). The registry of socket
connections, the fan-out over Redis streams and `ticket_timeout_sweeper`,
which nothing starts: their state is split over a process's memory and Redis,
and no document promises anything of it. The listing of notifications and its
SSE stream: it marks rows read in bulk, and nothing reads that mark. Sign-up,
e-mail verification and password reset: one row at a time.

## 4. Proofs

`OrderStockProofs` proves, for any finite set of variants and orders, any
products, carts and sessions, any initial stock and any bounds, from
`CatalogAssumption`, `CartAssumption` and `BoundAssumption`:

| Theorem | States |
|---|---|
| `Invariance` | `Spec => []IInv` |
| `TypeCorrect` | `Spec => []TypeOK`, hence no negative stock |
| `LockedReads` | `Spec => []LockedReadIsCurrent` |
| `StockConservation` | `Spec => []StockConserved` |
| `OneOrder` | `Spec => []OneOrderPerCart` |
| `DeletedReleased` | `Spec => DeletedStaysReleased` |
| `StockedListed` | `Sessions = {s}` implies `Spec => []StockedProductIsListed` |

None of the safety properties is inductive alone. That a commit leaves a
natural number in the row needs that the row still holds what was read
(`LockedReadIsCurrent`) and that the lines fitted into that (`HeldRows`); the
former needs that row locks exclude one another (`LocksExclusive`); that an
order enters `Reserving` once needs that the order a session works on is still
what it found (`HeldRows`, `OrderShape`). `IInv` is the conjunction.
`StepCases` and `EventCases` split the next-state relation once for all
lemmas; there is one lemma per conjunct (`TypeStep`, `ShapeStep`, `CartStep`,
`LocksStep`, `SessionStep`, `ReadStep`, `ConserveStep`) with one step per
action that can disturb it. `ConserveStep` uses the lemmas of
`QuantitiesTheorems` on sums over a set that gains or loses orders.

`StockedListed` holds of one session only: with two, a count that read the
availability before an order took the last unit leaves the product flagged
(*Disagreements without a run*). Its invariant `ListedInv` relates a session
under way to all rows: what it has read of the products is what `listed` says,
what it is about to flag is sold out in the rows it is about to write, and
between sessions `listed` agrees with the stock. It is proved beside `IInv`,
from which it takes that what was read under a lock is still in the row.

`PaymentsProofs` proves, for any sets of requests, refunds in progress and
totals and any numbers of pages and refunds, from `PaymentAssumption`:

| Theorem | States |
|---|---|
| `Invariance` | `Spec => []IInv` |
| `TypeCorrect` | `Spec => []TypeOK` |
| `ProgressPaid` | `Spec => []ProgressIsPaid` |
| `RefundsAreFenced` | `Spec => RefundsFenced` |
| `NewerStands` | `Spec => NewerEventStands` |

`ProgressIsPaid` needs `MoneyBehind`: a refund event could make a payment a
success or refunded, but a refund exists only of a transaction, and a
transaction is a paid page (`MoneyStep`, from `StripeStays`: what Stripe has
done stays done). `RefundsFenced` needs `RefundHeld`: one refund at a time is
past its check, and the sum and the total it checked do not change before its
commit; `LedgerAdd` adds its row to the sum. `NewerEventStands` needs
`PageHeld`: a request that is about to write holds a page no row has named, so
a reset always changes `reference_id`; all other writes go through the filter.

`CacheProofs` takes the assumption on the constants of `Cache` as the
hypothesis of its theorems (`ASSUME CacheAssumption PROVE Spec => ...`), since
that module is instantiated by a composite: `TypeInvariance`, `TypeCorrect`
(`TypeOK`) and `VersionedIsFresh` (`Fresh`), for any readers and writes.

The composites are proved about themselves, with the constants of
`MCBackground` and `MCRequests` and the assumptions of the modules they
compose, which both state (`BackgroundAssumed` and `RequestsAssumed` collect
them). What is proved of a component is stated with its instance
(`Membership!Init`, `Cart!Next`, ...), one section per component; at the end
of the module the components' invariants are conjoined, and a step of the
composition is a step of one component that leaves the variables of the others
alone (`BackgroundSteps`, `RequestSteps`, `TurnSteps`), which is also what
carries the action properties over. `PeopleProofs` has the components about
people (`Stores`, `Sessions`, `Tickets`, `Addresses`), `ShopProofs` those
about goods (`Catalogue`, `Photos`, `Cart`, `Taxonomy`), `RequestsProofs`
those about opinions (`Reviews`, `Replies`) and the composite; `BackgroundProofs`
has `Outbox`, `Memberships`, `Notifications`, `Locks` and their composite, with
`Cache` from `CacheProofs`.

### The background components

| Theorem of `BackgroundProofs` | States |
|---|---|
| `OutboxInvariance`, `OutboxTypeCorrect` | the invariant and `TypeOK` of `Outbox` under its own `Spec` |
| `PublishedStreamed`, `RepeatsBounded`, `ClaimsStand` | `PublishedIsInStream`, `BoundedRepeats`, `ClaimStands`, under the same, for any servers, events, attempts and faults |
| `BackgroundInvariance` | `AllSpec => []BackgroundInv` |
| `BackgroundTypeCorrect` | `AllSpec => []AllTypeOK` |
| `MembersHavePaid` | `AllSpec => []PaidFor` |
| `CacheIsFresh` | `AllSpec => []Fresh` |
| `LogIsImplemented` | `Listeners = {s}` implies `AllSpec => ImplementsLog` |

`BoundedRepeats` needs `OutboxCounted` (an event is in the stream at most as
often as it was claimed, counting the servers that have claimed it and not
added it yet), `PublishedIsInStream` needs `OutboxStreamed` (the event a
server is about to mark is in the stream).

`PaidFor` is two statements. That an active member has had a period needs that
a task that is about to switch a member on has seen one (`PeriodInv`), and that
an expiry never goes back to "none". That a paid page is credited once needs
`StripeInv` (Stripe numbers its objects, and an event tells of one that exists)
and, in `PeriodInv`, that the pages credited are no more than the pages paid up
to the last event applied (`PaidBy`). An event is applied only if none of a
newer object was and it is not the last one itself, and of a paid page there is
one event: so the page it tells of is later than `lastAt`, a new element of
`PaidBy`, whose cardinality grows with the credit.

`ImplementsLog` is the refinement of `EventLog` by `Notifications`: initial
states map to initial states (`PipeLogInit`), and each action maps to a step of
the log or a stutter (`PipeLogStep`): `Emit` to `Emit`, `Commit` to `Store` of
the whole batch, `CommitUnheard` to `StoreUnheard` of the batch and giving up
what is not tried again, `CommitFails`, a full queue, a router that crashes and
a stop to `GiveUp`; `Route`, `Collect` and what is emitted while nobody listens
to a stutter. The mapping's "open" is
the union of what the inbox, the queue and the batch hold; that an event leaves
it when its item does needs `PipeOnePlace`: an event has at most one place in
the pipeline of a server. With two servers each stores every event and the log
is not implemented, so the theorem is about one.

`Locks!TypeOK` includes that no row lock has two holders and is inductive.

### The components that serve requests, overlapping

| Theorem of `RequestsProofs` | States |
|---|---|
| `RequestsInvariance` | `AllSpec => []RequestsInv` |
| `RequestsTypeCorrect` | `AllSpec => []AllTypeOK` |
| `DeadTokens` | `AllSpec => DeadStaysDead` |
| `BansStand` | `AllSpec => BansHold` |
| `AnsweredTickets` | `AllSpec => []AnsweredIsInProgress` |
| `ConversationsStand` | `AllSpec => ConversationsClose` |
| `NamedFiles` | `AllSpec => []NamedIsStored` |
| `OrphansKnown` | `AllSpec => []OrphansAreKnown` |
| `OnePerson` | `AllSpec => []OnePersonPerAddress` |
| `AddressStands` | `AllSpec => AddressLocked` |
| `CountersStand` | `AllSpec => []CountersAgree` |

`StoreOneRole`, `StoreReviewed` and `StoreRejectionStands` of `PeopleProofs`
state `NoDoubleRole`, `VerifiedAsReviewed` and `RejectedStands` under the
specification of `Stores` (`StoreInvariance` its invariant), for any stores,
users and requests.

These hold for any number of requests at once, so each invariant says what
other requests cannot change under a handler:

- `StoreLocked`: at most one addition per store is past its check, and what it
  checked still holds; `StoreFounded`: a store that does not exist has no
  people, so a creation, which takes no lock, cannot meet an addition.
- `TicketInv`: a socket that has joined or is talking is about a ticket that
  was opened, and one that will write "in progress" or answer is about one
  that is in progress or closed (`Attended`), which no handler undoes.
  `TicketQuietInv`: a ticket no socket has touched is in progress because it
  was answered, and its `updated_at` is no older than its last message;
  `TicketJoinInv`: a socket about to join has read its ticket active.
- `SessionInv`: a token about to be exchanged has been issued. `BanInv`: unless
  a write was lost or one came between two of another, who is at work tells
  which of the two writes about a ban has been made, and otherwise the database
  and Redis agree.
- `AddressChosenOwn`: the address of a choice under way is a customer's, and
  every order or other choice that has it is of the same customer;
  `AddressLinkedOwn` the same of the orders. `AddressFound`: the orders that
  have an address about to be deleted were seen by the deletion or came late;
  `AddressPaidLinked`: an order that is paid has an address.
- `CatalogueInv`: whoever is about to add an image holds the variant's row: its
  count is still right and the variant and its product are live; each image
  has its file since names are never used again.
- `PhotoInv`: names are used once, one row names a file, what a handler has
  uploaded and not written is its own, what it takes for the old file is no
  other row's, and a named file that is not `torn` is stored.
- `CartInv`: one handler holds a cart's lock, and the lines and the total it
  has read are those in the row (`CartLocks`); the total is the sum
  (`QuantitiesTheorems`, a sum of which one summand changes).
- `ReviewInv`: a request that waits for the lock knows an old review, whose
  author has not changed; the count is the number of reviews and the average
  stays in the column's range, which needs that the correctly rounded quotient
  of a sum between two bounds lies between them (`QuantizedNear`).
- `ReplyInv`: whoever reacts holds the review's row alone, and knows the
  reaction it replaces and the count.

### The components that serve requests, in turn

| Theorem of `RequestsProofs` | States, if `Calls = {c}` |
|---|---|
| `TurnInvariance` | `AllSpec => [](RequestsInv /\ TurnInv)` |
| `OneCart` | `AllSpec => []OneOpenCart` |
| `NothingIsLost` | `AllSpec => []NothingDangles` |
| `NothingTwice` | `AllSpec => []Unique` |
| `RepliesAreCounted` | `AllSpec => []RepliesCounted` |
| `RoundingBounded` | `AllSpec => RoundingOnly` |

Two requests at once break most of these (*Disagreements without a run*), and
one at a time is the hypothesis under which the handlers' checks can be
expected to do what they are for. No switch of a failure is a hypothesis: what
Redis, storage, sockets and the deletion of a reply by the other route break is
excepted in the properties themselves, by a history variable that is set where
it happens. What remains to be proved is that a check and the write after it
see the same rows: `TurnInv` says of each handler, between its steps, what it
has read and that it is still so, and that at most one handler is under way.
`RoundingOnly` rests on `QuantizedNear` again: the new average times the new
number of reviews is within half that number of what it should be. It was first
stated without the exception for a deletion that ends at 0, which TLC confirmed
on the run's ratings and which is false in general (*Cart, Reviews, ...*
above).

### Assumptions

All constants are arbitrary but for the named assumptions of the modules, which
the runs evaluate. Those that the proofs needed and the code justifies: sets
that are summed over are finite (`Variants` of carts and of locks, `Users` of
replies: rows of a table), a ticket holds at least one message, and the value
that stands for "no reaction" or "no name" is no reaction or name (`NULL`).
`MCRequests` fixes the spellings of categories (`CatNames`, `SubNames`,
`Normal`), so that what is proved of `Taxonomy` in the composition is about
these six; the lemmas of `ShopProofs` about `Category` use nothing of them but
`TaxonomyAssumption`.

### What stays with TLC

All liveness: `ExpiredIsReleased`, `PendingIsSettled`, `FollowsPeriod`,
`EverySettled` (of the notifications), `StaleEndsGone`, `EveryTransactionEnds`. Liveness under
fairness needs ENABLED and is out of the prover's reach. The four violated
properties (`NoLostUpdates`, `PaidOnce`, `OneOpenCart` for two requests,
`DeletedIsInactive`) are counterexamples and need no proof, and so are those of
the nine configurations under *Disagreements without a run*. Every safety
invariant and every action property of a passing run is proved.
