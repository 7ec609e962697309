----------------------------- MODULE Memberships -----------------------------
(***************************************************************************)
(* One user's membership of one store and its subscription row: the member *)
(* and the store's staff, Stripe's pages and recurring billing, the webhook*)
(* that applies Stripe's events, the background task it starts, and the    *)
(* three Celery tasks that reconcile both rows.                            *)
(*                                                                         *)
(* A unit of time is one billing period.  Stripe's objects are numbered in *)
(* the order they are created: that is the time the webhook compares, and  *)
(* every event of an object carries the time of the object, not its own.   *)
(***************************************************************************)
EXTENDS Integers, FiniteSets

CONSTANTS
    Plans,      \* Standard, Regular, Premium
    Modes,      \* activation types in use: "one_time", "subscription"
    MaxTime,    \* bound: billing periods
    MaxObjects  \* bound: objects Stripe creates

MembershipAssumption ==
    /\ Plans # {} /\ Modes \subseteq {"one_time", "subscription"}
    /\ MaxTime \in Nat \ {0} /\ MaxObjects \in Nat

VARIABLES
    now,     \* the clock
    member,  \* the Membership row; row "none": there is none
    sub,     \* the Subscription row; expire and lastAt 0: NULL
    editor,  \* what update read before it got the lock of the membership
    tasks,   \* background membership_activation: "due", or the flag to write
    pages,   \* Stripe: check-out pages
    billing, \* Stripe: the recurring subscription; until 0: there is none
    objects, \* Stripe: objects created so far
    sent,    \* Stripe: events to deliver
    acked,   \* events answered with 200
    credits  \* history: one-time periods added to expire_at

rows   == <<member, sub>>
stripe == <<pages, billing, objects, sent>>
vars   == <<now, rows, editor, tasks, stripe, acked, credits>>

Status == {"inactive", "active", "past_due", "cancelled"}
Times  == 0..(2 * MaxTime + MaxObjects + 1)

Signals == [kind : {"completed", "expired", "updated", "deleted",
                   "invoice_paid", "invoice_failed"},
           at : 1..MaxObjects, until : Times, plan : Plans \union {"-"}]
NoEvent == [kind |-> "none", at |-> 0, until |-> 0, plan |-> "-"]

TypeOK ==
    /\ now \in 1..MaxTime
    /\ member \in [row : {"none", "live", "deleted"}, active : BOOLEAN,
                   type : Plans]
    /\ sub \in [status : Status, plan : Plans, expire : Times,
                lastAt : 0..MaxObjects, lastId : Signals \union {NoEvent}]
    /\ editor \in Status \union {"idle"}
    /\ tasks \subseteq {"due", "on", "off"}
    /\ pages \subseteq [mode : Modes, at : 1..MaxObjects,
                        state : {"open", "paid", "expired"}]
    /\ billing \in [at : 0..MaxObjects, until : Times, plan : Plans,
                    on : BOOLEAN]
    /\ objects \in 0..MaxObjects
    /\ sent \subseteq Signals /\ acked \subseteq sent
    /\ credits \in Nat

Init ==
    /\ now = 1
    /\ \E p \in Plans :
          /\ member = [row |-> "none", active |-> FALSE, type |-> p]
          /\ sub = [status |-> "inactive", plan |-> p, expire |-> 0,
                    lastAt |-> 0, lastId |-> NoEvent]
          /\ billing = [at |-> 0, until |-> 0, plan |-> p, on |-> FALSE]
    /\ editor = "idle" /\ tasks = {} /\ pages = {} /\ objects = 0
    /\ sent = {} /\ acked = {} /\ credits = 0

Later(a, b) == IF a > b THEN a ELSE b

PaidUp == sub.expire > now
Lapsed == sub.expire # 0 /\ sub.expire <= now

-----------------------------------------------------------------------------
(* The member and the store.                                               *)

\* Membership and Subscription are inserted together; a second join, and one
\* after a deletion, is refused.
MakeMember(p) ==
    /\ member.row = "none"
    /\ member' = [row |-> "live", active |-> FALSE, type |-> p]
    /\ sub' = [sub EXCEPT !.plan = p]
    /\ UNCHANGED <<now, editor, tasks, stripe, acked, credits>>

\* update joins both rows and locks the membership only: when it has to wait
\* for that lock, it goes on with the subscription as it was before it waited.
ReadForUpdate ==
    /\ editor = "idle" /\ member.row = "live"
    /\ editor' = sub.status
    /\ UNCHANGED <<now, rows, tasks, stripe, acked, credits>>

MayEdit == editor = "inactive"

Update(p) ==
    /\ editor # "idle" /\ MayEdit /\ member.row = "live"
    /\ editor' = "idle"
    /\ member' = [member EXCEPT !.type = p]
    /\ sub' = [sub EXCEPT !.plan = p]
    /\ UNCHANGED <<now, tasks, stripe, acked, credits>>

LeaveUpdate ==
    /\ editor # "idle" /\ (~MayEdit \/ member.row = "deleted")
    /\ editor' = "idle"
    /\ UNCHANGED <<now, rows, tasks, stripe, acked, credits>>

\* Neither touches the subscription, at Stripe or here.
DeleteMember ==
    /\ member.row = "live"
    /\ member' = [member EXCEPT !.row = "deleted", !.active = FALSE]
    /\ UNCHANGED <<now, sub, editor, tasks, stripe, acked, credits>>

RestoreMembership ==
    /\ member.row = "deleted"
    /\ member' = [member EXCEPT !.row = "live"]
    /\ UNCHANGED <<now, sub, editor, tasks, stripe, acked, credits>>

\* create_payment for a membership, deleted or not. Its write of reference_id
\* is left out: no handler reads it.
CreatePayment(m) ==
    /\ member.row # "none" /\ objects < MaxObjects
    /\ m = "subscription" => sub.status # "active"
    /\ objects' = objects + 1
    /\ pages' = pages \union {[mode |-> m, at |-> objects + 1,
                               state |-> "open"]}
    /\ UNCHANGED <<now, rows, editor, tasks, billing, sent, acked, credits>>

-----------------------------------------------------------------------------
(* Stripe, its customers and the clock.                                    *)

Event(k, at, until, p) == [kind |-> k, at |-> at, until |-> until, plan |-> p]

PagePaid(p) == (pages \ {p}) \union {[p EXCEPT !.state = "paid"]}

PayOnce(p) ==
    /\ p.mode = "one_time" /\ p.state = "open"
    /\ pages' = PagePaid(p)
    /\ sent' = sent \union {Event("completed", p.at, 0, "-")}
    /\ UNCHANGED <<now, rows, editor, tasks, billing, objects, acked, credits>>

\* The page, the subscription and its first invoice each have an event. One
\* recurring subscription is modelled.
Subscribe(p) ==
    /\ p.mode = "subscription" /\ p.state = "open" /\ objects < MaxObjects
    /\ ~billing.on
    /\ pages' = PagePaid(p)
    /\ objects' = objects + 1
    /\ billing' = [at |-> objects + 1, until |-> now + 1, plan |-> sub.plan,
                   on |-> TRUE]
    /\ sent' = sent \union
           {Event("completed", p.at, 0, "-"),
            Event("updated", objects + 1, now + 1, sub.plan),
            Event("invoice_paid", objects + 1, now + 1, sub.plan)}
    /\ UNCHANGED <<now, rows, editor, tasks, acked, credits>>

ExpirePage(p) ==
    /\ p.state = "open"
    /\ pages' = (pages \ {p}) \union {[p EXCEPT !.state = "expired"]}
    /\ sent' = sent \union {Event("expired", p.at, 0, "-")}
    /\ UNCHANGED <<now, rows, editor, tasks, billing, objects, acked, credits>>

Renew ==
    /\ billing.on /\ billing.until <= now /\ objects < MaxObjects
    /\ objects' = objects + 1
    /\ billing' = [billing EXCEPT !.until = @ + 1]
    /\ sent' = sent \union
           {Event("updated", billing.at, billing.until + 1, billing.plan),
            Event("invoice_paid", objects + 1, billing.until + 1,
                  billing.plan)}
    /\ UNCHANGED <<now, rows, editor, tasks, pages, acked, credits>>

RenewFails ==
    /\ billing.on /\ billing.until <= now /\ objects < MaxObjects
    /\ objects' = objects + 1
    /\ sent' = sent \union {Event("invoice_failed", objects + 1, 0, "-")}
    /\ UNCHANGED <<now, rows, editor, tasks, pages, billing, acked, credits>>

\* In Stripe's portal (update_payment).
ChangePlan(p) ==
    /\ billing.on /\ p # billing.plan
    /\ Event("updated", billing.at, billing.until, p) \notin sent
    /\ billing' = [billing EXCEPT !.plan = p]
    /\ sent' = sent \union {Event("updated", billing.at, billing.until, p)}
    /\ UNCHANGED <<now, rows, editor, tasks, pages, objects, acked, credits>>

EndBilling ==
    /\ billing.on
    /\ billing' = [billing EXCEPT !.on = FALSE]
    /\ sent' = sent \union {Event("deleted", billing.at, 0, "-")}
    /\ UNCHANGED <<now, rows, editor, tasks, pages, objects, acked, credits>>

-----------------------------------------------------------------------------
(* The webhook and its background task.                                    *)

AcceptsAgain(e) == sub.lastAt <= e.at

Accepts(e) == sub.lastAt <= e.at /\ sub.lastId # e

\* The list of events that make a subscription active lacks a comma, so that
\* an invoice does not.
StatusAfter(e) ==
    CASE e.kind = "completed" -> "active"
      [] e.kind = "deleted" -> "cancelled"
      [] e.kind \in {"invoice_failed", "expired"} -> "past_due"
      [] OTHER -> sub.status

ExpireAfter(e) ==
    CASE e.kind = "completed" -> Later(sub.expire, now) + 1
      [] e.kind \in {"updated", "invoice_paid"} -> e.until
      [] OTHER -> sub.expire

PlanAfter(e) == IF e.kind \in {"updated", "invoice_paid"} THEN e.plan
                                                          ELSE sub.plan

Activates(e) == e.kind \in {"completed", "invoice_paid"}

Webhook(e) ==
    /\ e \in sent /\ Accepts(e)
    /\ sub' = [status |-> StatusAfter(e), plan |-> PlanAfter(e),
               expire |-> ExpireAfter(e), lastAt |-> e.at, lastId |-> e]
    /\ member' = [member EXCEPT !.active = @ \/ Activates(e)]
    /\ tasks' = tasks \union {"due"}
    /\ acked' = acked \union {e}
    /\ credits' = credits + (IF e.kind = "completed" THEN 1 ELSE 0)
    /\ UNCHANGED <<now, editor, stripe>>

SkipEvent(e) ==
    /\ e \in sent /\ ~Accepts(e)
    /\ acked' = acked \union {e}
    /\ UNCHANGED <<now, rows, editor, tasks, stripe, credits>>

FlagToWrite == IF PaidUp THEN "on" ELSE "off"

\* No lock is taken; comparing a missing date fails, which ends the task.
MembershipActivationRead ==
    /\ "due" \in tasks
    /\ tasks' = (tasks \ {"due"}) \union
           (IF sub.expire = 0 \/ member.active = (FlagToWrite = "on")
            THEN {} ELSE {FlagToWrite})
    /\ UNCHANGED <<now, rows, editor, stripe, acked, credits>>

MembershipActivationWrite(flag) ==
    /\ flag \in tasks
    /\ tasks' = tasks \ {flag}
    /\ member' = [member EXCEPT !.active = (flag = "on")]
    /\ UNCHANGED <<now, sub, editor, stripe, acked, credits>>

-----------------------------------------------------------------------------
(* Celery.                                                                 *)

Activatable == PaidUp /\ (sub.status # "active" \/ ~member.active)

Activate ==
    /\ member.row # "none" /\ Activatable
    /\ member' = [member EXCEPT !.active = TRUE]
    /\ sub' = [sub EXCEPT !.status = "active"]
    /\ UNCHANGED <<now, editor, tasks, stripe, acked, credits>>

\* Mutant: only subscriptions that are still active are looked at.
DeactivatableActive == Lapsed /\ sub.status = "active"

Deactivatable == Lapsed /\ sub.status # "inactive"

Deactivate ==
    /\ Deactivatable
    /\ member' = [member EXCEPT !.active = FALSE]
    /\ sub' = [sub EXCEPT !.status = "past_due"]
    /\ UNCHANGED <<now, editor, tasks, stripe, acked, credits>>

UpdateMembershipType ==
    /\ member.row # "none" /\ sub.plan # member.type
    /\ member' = [member EXCEPT !.type = sub.plan]
    /\ UNCHANGED <<now, sub, editor, tasks, stripe, acked, credits>>

\* activate runs every hour, a period is a month: it has run before the next.
Tick ==
    /\ now < MaxTime /\ (member.row = "none" \/ ~Activatable)
    /\ now' = now + 1
    /\ UNCHANGED <<rows, editor, tasks, stripe, acked, credits>>

-----------------------------------------------------------------------------
Member == \/ \E p \in Plans : MakeMember(p) \/ Update(p)
          \/ ReadForUpdate \/ LeaveUpdate
          \/ DeleteMember \/ RestoreMembership
          \/ \E m \in Modes : CreatePayment(m)
Stripe == \/ \E p \in pages : PayOnce(p) \/ Subscribe(p) \/ ExpirePage(p)
          \/ Renew \/ RenewFails \/ EndBilling
          \/ \E p \in Plans : ChangePlan(p)
Task   == \/ MembershipActivationRead
          \/ \E flag \in {"on", "off"} : MembershipActivationWrite(flag)
Beat   == Activate \/ Deactivate \/ UpdateMembershipType

Next == \/ Member \/ Stripe \/ Task \/ Beat \/ Tick
        \/ \E e \in sent : Webhook(e) \/ SkipEvent(e)

Spec == Init /\ [][Next]_vars

\* Background tasks end and the beat's tasks run for ever.
Fairness == /\ WF_vars(MembershipActivationRead)
            /\ \A flag \in {"on", "off"} :
                  WF_vars(MembershipActivationWrite(flag))
            /\ WF_vars(Activate) /\ WF_vars(Deactivate)
            /\ WF_vars(UpdateMembershipType)
FairSpec == Spec /\ Fairness

-----------------------------------------------------------------------------
(* Safety.                                                                 *)

\* A membership is active only if its subscription has, or had, a paid period
\* (expire_at is set): no join, background task or worker activates a member
\* who never paid (membership_service.py, scheduled_task.py:activate).
ActiveHasPeriod == member.active => sub.expire # 0

\* A paid page adds its thirty days at most once, in whatever order and however
\* often Stripe sends the events (stripe_webhook_service.py, update of
\* Subscription).
CreditedOnce == credits <= Cardinality({p \in pages : p.state = "paid"})

\* A deleted membership is inactive until the store restores it
\* (docs/membership.md, Reactivation Restriction).
DeletedIsInactive == member.row = "deleted" => ~member.active

-----------------------------------------------------------------------------
(* Liveness.                                                               *)

\* A member who is paid up becomes active whatever events were lost or tasks
\* crashed (docs/payment.md, Celery Backup Worker).
PaidBecomesActive == (member.row = "live" /\ PaidUp)
                        ~> (member.active \/ member.row = "deleted" \/ ~PaidUp)

\* A member whose period has passed becomes inactive, or has paid again
\* (scheduled_task.py:deactivate), unless the subscription is "inactive" still:
\* where the event of the check-out came too late to count, no beat looks at
\* it, and a background task that read an older end may have the last word.
LapsedBecomesInactive ==
    (member.active /\ Lapsed /\ sub.status # "inactive")
        ~> (~member.active \/ PaidUp)
=============================================================================
