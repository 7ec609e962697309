------------------------------- MODULE Tickets -------------------------------
(***************************************************************************)
(* Support tickets of one store: opened over HTTP (text_support) or by a   *)
(* web socket ("Quick Ticket"), answered, closed by the customer or the    *)
(* agent, and cleared.  Handlers that lock the ticket's row and commit are *)
(* one step; what is read before a wait and used after it is kept in call. *)
(* Time since an event is 0 (under 30 minutes), 1 or 2 (two days or more). *)
(***************************************************************************)
EXTENDS Integers, FiniteSets, Sequences

CONSTANTS
    Customers, Agents,
    Calls,       \* requests and sockets at once
    MaxTickets,  \* bound: tickets
    MaxMessages  \* bound: messages of a ticket

TicketAssumption ==
    /\ MaxTickets \in Nat /\ MaxMessages \in Nat \ {0}
    /\ Agents # {} /\ Customers # {}

Tickets == 1..MaxTickets

VARIABLES
    ticket,   \* the rows of Ticket, with the history the properties need
    messages, \* messages[t]: the rows of Messaging of t, in order
    call      \* what a handler has read, or whom a socket connects

vars == <<ticket, messages, call>>

Roles == {"customer", "support"}
Other(r) == CHOOSE q \in Roles : q # r
Active == {"open", "in_progress"}

\* A row: updated is the time since updated_at. History: quiet, the time since
\* the last message of any kind; replied, whether the agent sent one; chatted,
\* whether a socket has opened it, joined it or sent to it.
Row(c, a, quick) == [status |-> "open", customer |-> c, agent |-> a,
                     quick |-> quick, updated |-> 0, quiet |-> 0,
                     replied |-> FALSE, chatted |-> quick]
NoRow == [Row(CHOOSE c \in Customers : TRUE, CHOOSE a \in Agents : TRUE, FALSE)
             EXCEPT !.status = "none"]
Message(r) == [by |-> r, seen |-> FALSE, delivered |-> FALSE,
               sender_deleted |-> FALSE, receiver_deleted |-> FALSE]
Idle == [step |-> "idle", ticket |-> 0, role |-> "customer",
         customer |-> NoRow.customer, agent |-> NoRow.agent, status |-> "none"]

TypeOK ==
    /\ ticket \in [Tickets -> [status : Active \union {"none", "closed"},
                               customer : Customers, agent : Agents,
                               quick : BOOLEAN, updated : 0..2, quiet : 0..2,
                               replied : BOOLEAN, chatted : BOOLEAN]]
    /\ \A t \in Tickets :
          /\ Len(messages[t]) <= MaxMessages
          /\ ticket[t].status = "none" => messages[t] = <<>>
    /\ \A c \in Calls : call[c].step = "talking" => call[c].ticket \in Tickets

Init == /\ ticket = [t \in Tickets |-> NoRow]
        /\ messages = [t \in Tickets |-> <<>>]
        /\ call = [c \in Calls |-> Idle]

Load(a) == Cardinality({t \in Tickets : /\ ticket[t].status \in Active
                                        /\ ticket[t].agent = a})
Least == {a \in Agents : \A b \in Agents : Load(a) <= Load(b)}
Fresh == {t \in Tickets : /\ ticket[t].status = "none"
                          /\ \A u \in 1..(t-1) : ticket[u].status # "none"}
Done(c) == call' = [call EXCEPT ![c] = Idle]
Sent(t, r) == messages' = [messages EXCEPT ![t] = Append(@, Message(r))]
Room(t) == Len(messages[t]) < MaxMessages

-----------------------------------------------------------------------------
(* text_support.                                                           *)

ActiveOf(cus) == {t \in Tickets : /\ ticket[t].customer = cus
                                  /\ ticket[t].status \in Active}

\* Mutant: no look for an active ticket.
OpenUnchecked(c, cus) ==
    /\ call[c].step = "idle"
    /\ call' = [call EXCEPT ![c] = [Idle EXCEPT !.step = "checked",
                                                !.customer = cus]]
    /\ UNCHANGED <<ticket, messages>>

Check(c, cus) ==
    /\ call[c].step = "idle" /\ ActiveOf(cus) = {}
    /\ call' = [call EXCEPT ![c] = [Idle EXCEPT !.step = "checked",
                                                !.customer = cus]]
    /\ UNCHANGED <<ticket, messages>>

Pick(c, a) ==
    /\ call[c].step = "checked" /\ a \in Least
    /\ call' = [call EXCEPT ![c].step = "picked", ![c].agent = a]
    /\ UNCHANGED <<ticket, messages>>

Open(c, t) ==
    /\ call[c].step = "picked" /\ t \in Fresh
    /\ ticket' = [ticket EXCEPT ![t] = Row(call[c].customer, call[c].agent,
                                           FALSE)]
    /\ Sent(t, "customer")
    /\ Done(c)

\* The photo cannot be stored or the database fails: nothing is written.
Abandon(c) ==
    /\ call[c].step \in {"checked", "picked"}
    /\ Done(c)
    /\ UNCHANGED <<ticket, messages>>

-----------------------------------------------------------------------------
(* The handlers that lock the ticket's row.                                *)

\* Mutant: an answer leaves the ticket open.
ThreadKeepsStatus(t, r) ==
    /\ ticket[t].status \in Active /\ Room(t)
    /\ ticket' = [ticket EXCEPT ![t].updated = 0, ![t].quiet = 0,
                                ![t].replied = @ \/ r = "support"]
    /\ Sent(t, r)
    /\ UNCHANGED call

\* Mutant: a closed ticket is answered as well.
ThreadReopens(t, r) ==
    /\ ticket[t].status # "none" /\ Room(t)
    /\ ticket' = [ticket EXCEPT
          ![t].status = IF r = "support" THEN "in_progress" ELSE @,
          ![t].updated = 0, ![t].quiet = 0,
          ![t].replied = @ \/ r = "support"]
    /\ Sent(t, r)
    /\ UNCHANGED call

TicketThread(t, r) ==
    /\ ticket[t].status \in Active /\ Room(t)
    /\ ticket' = [ticket EXCEPT
          ![t].status = IF r = "support" THEN "in_progress" ELSE @,
          ![t].updated = 0, ![t].quiet = 0,
          ![t].replied = @ \/ r = "support"]
    /\ Sent(t, r)
    /\ UNCHANGED call

\* A change of the row sets updated_at.
Closed(t) == ticket' = [ticket EXCEPT ![t].status = "closed", ![t].updated = 0]

MarkAsResolved(t) ==
    /\ ticket[t].status \in Active
    /\ Closed(t)
    /\ UNCHANGED <<messages, call>>

Closable(t) == ticket[t].status = "in_progress" /\ ticket[t].updated = 2

CloseTicket(t) ==
    /\ Closable(t)
    /\ Closed(t)
    /\ UNCHANGED <<messages, call>>

\* m as it is when r has removed it from his view.
Hidden(m, r) == IF m.by = r THEN [m EXCEPT !.sender_deleted = TRUE]
                            ELSE [m EXCEPT !.receiver_deleted = TRUE]

\* Only the customer of a ticket gets past the look-up.
RemoveMessage(t, i) ==
    /\ ticket[t].status = "closed" /\ i \in DOMAIN messages[t]
    /\ messages' = [messages EXCEPT ![t][i] = Hidden(@, "customer")]
    /\ UNCHANGED <<ticket, call>>

ClearConversation(t, r) ==
    /\ ticket[t].status \in Active \union {"closed"}
    /\ r = "support" => ticket[t].status = "closed"
    /\ messages[t] # <<>>
    /\ messages' = [messages EXCEPT ![t] =
                       [i \in DOMAIN @ |-> Hidden(@[i], r)]]
    /\ IF ticket[t].status = "closed" THEN UNCHANGED ticket ELSE Closed(t)
    /\ UNCHANGED call

-----------------------------------------------------------------------------
(* Reading marks what the other side sent.                                 *)

Visible(m, r) == IF m.by = r THEN ~m.sender_deleted ELSE ~m.receiver_deleted
Unseen(t, r) == {i \in DOMAIN messages[t] :
                    /\ messages[t][i].by # r /\ ~messages[t][i].seen
                    /\ Visible(messages[t][i], r)}

\* customer_support_messages, with a page that holds the whole thread.
View(t, r) ==
    /\ Unseen(t, r) # {}
    /\ messages' = [messages EXCEPT ![t] = [i \in DOMAIN @ |->
          IF i \in Unseen(t, r)
             THEN [@[i] EXCEPT !.seen = TRUE, !.delivered = TRUE] ELSE @[i]]]
    /\ UNCHANGED <<ticket, call>>

\* customer_support_conversations: only the latest message is marked.
Conversations(t, r) ==
    LET shown == {i \in DOMAIN messages[t] : Visible(messages[t][i], r)} IN
    \E i \in shown :
       /\ \A j \in shown : j <= i
       /\ messages[t][i].by # r /\ ~messages[t][i].delivered
       /\ messages' = [messages EXCEPT ![t][i].delivered = TRUE]
       /\ UNCHANGED <<ticket, call>>

-----------------------------------------------------------------------------
(* get_connection.                                                         *)

Talk(c, t, r) == call' = [call EXCEPT ![c] = [Idle EXCEPT !.step = "talking",
                                                 !.ticket = t, !.role = r]]
Recent(t) == ticket[t].status \in Active /\ ticket[t].updated = 0

\* A customer: the quick ticket of the last half hour, or else an agent is
\* picked for a new one, whatever other tickets the customer has.
SocketCustomer(c, cus) ==
    LET mine == {t \in Tickets : /\ ticket[t].customer = cus
                                 /\ ticket[t].quick /\ Recent(t)} IN
    /\ call[c].step = "idle"
    /\ \/ \E t \in mine : Talk(c, t, "customer")
       \/ /\ mine = {}
          /\ \E a \in Least : call' = [call EXCEPT ![c] =
                [Idle EXCEPT !.step = "quick", !.customer = cus, !.agent = a]]
    /\ UNCHANGED <<ticket, messages>>

SocketOpen(c, t) ==
    /\ call[c].step = "quick" /\ t \in Fresh
    /\ ticket' = [ticket EXCEPT ![t] = Row(call[c].customer, call[c].agent,
                                           TRUE)]
    /\ Talk(c, t, "customer")
    /\ UNCHANGED messages

\* The agent's ticket is read without a lock ...
SocketAgent(c, t) ==
    /\ call[c].step = "idle" /\ Recent(t)
    /\ call' = [call EXCEPT ![c] = [Idle EXCEPT !.step = "joining",
                                !.ticket = t, !.status = ticket[t].status]]
    /\ UNCHANGED <<ticket, messages>>

\* ... and set to in_progress, which writes nothing when it was so.
SocketJoin(c) ==
    /\ call[c].step = "joining"
    /\ ticket' = IF call[c].status = "in_progress" THEN ticket
                 ELSE [ticket EXCEPT ![call[c].ticket].status = "in_progress",
                                     ![call[c].ticket].updated = 0,
                                     ![call[c].ticket].chatted = TRUE]
    /\ Talk(c, call[c].ticket, "support")
    /\ UNCHANGED messages

\* A message is stored with its outbox event; the ticket is neither looked at
\* nor touched.
SocketSend(c) ==
    LET t == call[c].ticket IN
    /\ call[c].step = "talking" /\ Room(t)
    /\ Sent(t, call[c].role)
    /\ ticket' = [ticket EXCEPT ![t].quiet = 0, ![t].chatted = TRUE,
                                ![t].replied = @ \/ call[c].role = "support"]
    /\ UNCHANGED call

\* "ack" and "read" set one flag each.
SocketFlag(c) ==
    LET t == call[c].ticket IN
    /\ call[c].step = "talking"
    /\ \E i \in DOMAIN messages[t] :
          /\ messages[t][i].by # call[c].role
          /\ \/ messages' = [messages EXCEPT ![t][i].delivered = TRUE]
             \/ messages' = [messages EXCEPT ![t][i].seen = TRUE]
    /\ UNCHANGED <<ticket, call>>

SocketClose(c) ==
    /\ call[c].step = "talking"
    /\ Done(c)
    /\ UNCHANGED <<ticket, messages>>

-----------------------------------------------------------------------------
Older(n) == IF n = 2 THEN 2 ELSE n + 1
Tick == /\ ticket' = [t \in Tickets |->
              IF ticket[t].status = "none" THEN ticket[t]
              ELSE [ticket[t] EXCEPT !.updated = Older(@), !.quiet = Older(@)]]
        /\ UNCHANGED <<messages, call>>

Next == \/ \E c \in Calls :
              \/ \E cus \in Customers : Check(c, cus) \/ SocketCustomer(c, cus)
              \/ \E a \in Agents : Pick(c, a)
              \/ \E t \in Tickets : \/ Open(c, t) \/ SocketOpen(c, t)
                                    \/ SocketAgent(c, t)
              \/ Abandon(c) \/ SocketJoin(c) \/ SocketSend(c)
              \/ SocketFlag(c) \/ SocketClose(c)
        \/ \E t \in Tickets :
              \/ MarkAsResolved(t) \/ CloseTicket(t)
              \/ \E r \in Roles : \/ TicketThread(t, r) \/ View(t, r)
                                  \/ ClearConversation(t, r)
                                  \/ Conversations(t, r)
              \/ \E i \in 1..MaxMessages : RemoveMessage(t, i)
        \/ Tick

Spec == Init /\ [][Next]_vars

-----------------------------------------------------------------------------
\* A customer has at most one active ticket (docs/customer_support.md, Ticket
\* Cap). It does not hold: get_connection opens a quick ticket beside the
\* active ticket it does not look for.
OneActive == \A cus \in Customers : Cardinality(ActiveOf(cus)) <= 1

\* What is true of one request at a time: the tickets a customer opened over
\* HTTP are active one after the other (text_support).
OnePlain == \A cus \in Customers :
    Cardinality({t \in ActiveOf(cus) : ~ticket[t].quick}) <= 1

\* A ticket its agent has answered no longer counts as unattended, whichever
\* way he answered (ticket_thread and get_connection).
AnsweredIsInProgress == \A t \in Tickets :
    ticket[t].replied => ticket[t].status \in {"in_progress", "closed"}

\* A closed ticket stays closed (docs/customer_support.md, its status blocks
\* further modifications). It does not hold: get_connection writes the status
\* it decided on when it read the ticket open.
ClosedStays == [][\A t \in Tickets :
    ticket[t].status = "closed" => ticket'[t].status = "closed"]_vars

\* Nothing else reopens a closed ticket: only the socket of an agent who had
\* read it open before it was closed (ticket_thread, clear_conversation,
\* get_connection).
OnlyLateJoinsReopen == [][\A t \in Tickets :
    /\ ticket[t].status = "closed"
    /\ ticket'[t].status # "closed"
    => \E c \in Calls : /\ call[c].step = "joining" /\ call[c].ticket = t
                        /\ call[c].status = "open"
                        /\ call'[c].step = "talking"]_vars

\* What either side removes from its view belongs to a conversation that is
\* over when it is gone: nothing is removed from one that goes on
\* (clear_conversation, remove_message).
RemovedWhenClosed == [][\A t \in Tickets : \A i \in DOMAIN messages[t] :
    /\ messages'[t][i] # messages[t][i]
    /\ messages'[t][i] \in {Hidden(messages[t][i], r) : r \in Roles}
    => ticket'[t].status = "closed"]_vars

\* An agent may close a ticket only after he answered it and when nobody has
\* written for two days (docs/customer_support.md, Ticket Closure Restriction
\* and Unattended Ticket Protection; close_ticket). It does not hold: a socket
\* that joins answers nothing, and what it sends leaves updated_at as it was.
ClosesQuietly == \A t \in Tickets :
    Closable(t) => ticket[t].replied /\ ticket[t].quiet = 2

\* It holds of the tickets that no socket has touched.
PlainCloseQuietly == \A t \in Tickets :
    Closable(t) /\ ~ticket[t].chatted
       => ticket[t].replied /\ ticket[t].quiet = 2
=============================================================================
