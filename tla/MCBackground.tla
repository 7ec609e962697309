---------------------------- MODULE MCBackground ----------------------------
(***************************************************************************)
(* Instances, for TLC, of what goes on behind the requests: periodic tasks *)
(* and webhooks, the workers of every server process, the cache, and the   *)
(* locks of the database.  As in MCRequests a behaviour is one component's,*)
(* the one that part names; Outbox is the one extended.                    *)
(***************************************************************************)
EXTENDS Outbox

CONSTANTS
    Parts,
    Plans, Modes, MaxTime, MaxObjects,
    Firings, Bad, Listeners, QueueSize, BatchSize, MaxTries, MaxStops,
    LostAnswers,
    Readers, Schemes, MaxWrites, MaxExpiries,
    Sessions, Variants, ProductOf

\* Value of a constant: two variants of one product.
OneProduct  == [v \in {1, 2} |-> 9]

VARIABLES
    part, now, member, sub, editor, tasks, pages, billing, objects, posted,
    acked, credits, emitted, listening, inbox, queue, batch, rows, unheard,
    stops, scheme, db, invalidations, announced, version, late, expiries,
    entry, reader, served, plan, held

membershipsVars == <<now, member, sub, editor, tasks, pages, billing, objects,
                     posted, acked, credits>>
notificationsVars == <<emitted, listening, inbox, queue, batch, rows, unheard,
                       stops>>
cacheVars == <<scheme, db, invalidations, announced, version, late, expiries,
               entry, reader, served>>
locksVars == <<plan, held>>

Membership == INSTANCE Memberships WITH sent <- posted
Pipeline == INSTANCE Notifications WITH Events <- Firings,
                                        Servers <- Listeners
Cache == INSTANCE Cache WITH tasks <- invalidations
Locks == INSTANCE Locks

ASSUME Assumptions ==
    /\ Membership!MembershipAssumption /\ Pipeline!PipelineAssumption
    /\ OutboxAssumption /\ Cache!CacheAssumption
    /\ Locks!LocksAssumption

AllInit ==
    /\ part \in Parts
    /\ Membership!Init /\ Pipeline!Init /\ Init /\ Cache!Init
    /\ Locks!Init
    /\ part # "cache" => scheme = CHOOSE s \in Schemes : TRUE

AllNext ==
    /\ UNCHANGED part
    /\ \/ /\ part = "memberships" /\ Membership!Next
          /\ UNCHANGED <<notificationsVars, vars, cacheVars, locksVars>>
       \/ /\ part = "notifications" /\ Pipeline!Next
          /\ UNCHANGED <<membershipsVars, vars, cacheVars, locksVars>>
       \/ /\ part = "outbox" /\ Next
          /\ UNCHANGED <<membershipsVars, notificationsVars, cacheVars,
                         locksVars>>
       \/ /\ part = "cache" /\ Cache!Next
          /\ UNCHANGED <<membershipsVars, notificationsVars, vars,
                         locksVars>>
       \/ /\ part = "locks" /\ Locks!Next
          /\ UNCHANGED <<membershipsVars, notificationsVars, vars,
                         cacheVars>>

allVars == <<part, vars, membershipsVars, notificationsVars, cacheVars,
             locksVars>>
AllSpec == AllInit /\ [][AllNext]_allVars

\* Nothing that a component's fairness demands is possible before its first
\* step, so that it asks nothing of those that rest. The outbox has none:
\* nothing in the code starts its loop.
AllFairSpec ==
    /\ AllSpec
    /\ Membership!Fairness /\ Pipeline!Fairness
    /\ Cache!Fairness /\ Locks!Fairness

-----------------------------------------------------------------------------
(* What the components' modules promise, several of one kind together.     *)
(* PublishedIsInStream, BoundedRepeats and ClaimStands are stated in       *)
(* Outbox.                                                                 *)

\* Every component's variables keep their types, and no row is locked twice.
AllTypeOK ==
    /\ Membership!TypeOK /\ Pipeline!TypeOK /\ TypeOK /\ Cache!TypeOK
    /\ Locks!TypeOK

\* Whoever is an active member has paid once (activate), and a paid page adds
\* one period however often Stripe tells it (the webhook).
PaidFor == Membership!ActiveHasPeriod /\ Membership!CreditedOnce

\* A member who is paid up becomes active (activate), one whose period is over
\* becomes inactive (deactivate).
FollowsPeriod ==
    Membership!PaidBecomesActive /\ Membership!LapsedBecomesInactive

\* A deleted membership is inactive (activate).
DeletedIsInactive == Membership!DeletedIsInactive

\* A server's pipeline implements the abstract log (add_commit_periodically).
ImplementsLog == Pipeline!ImplementsLog

\* Every event leaves the pipeline (run_router, add_commit_periodically).
EverySettled == Pipeline!EventIsSettled

\* After an invalidation nobody is told what was before (cache_version).
Fresh == Cache!Fresh

\* Entries out of date are gone in the end (cached).
StaleEndsGone == Cache!StaleEndsGone

\* Every transaction ends (create_orders, restore_inventory, update).
EveryTransactionEnds == Locks!EveryTransactionEnds
=============================================================================
