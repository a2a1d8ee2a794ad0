------------------------------- MODULE Helpdesk --------------------------------
(***************************************************************************)
(* Support tickets: ticketService with ticketRepository.                   *)
(*                                                                         *)
(* A reply reads the ticket, and then adds the message and sets the status *)
(* in one transaction.  Closing and reopening set the status whatever it   *)
(* is.  Transactions of two replies may commit in another order than their *)
(* messages were created in; of the messages the model keeps the newest.   *)
(* A user replies to tickets of its own only.                              *)
(***************************************************************************)
EXTENDS Integers

CONSTANTS
    Tickets,
    Requests,       \* handlers in progress at once
    MaxCalls,       \* bound: calls in a behaviour
    MaxFailures     \* bound: failed calls and restarts in a behaviour

VARIABLES
    status,         \* of each ticket
    newest,         \* per ticket, the newest message
    run,            \* the replies in progress
    clock,          \* the latest creation time of a message
    calls, failures,    \* so far (bounded)
    author          \* history: per ticket, what set its status

vars == <<status, newest, run, clock, calls, failures, author>>

-------------------------------------------------------------------------------
(* Data *)

NoTicket == "no ticket"
TicketStatus == {"OPEN", "REPLIED", "CLOSED"}
Message == [created : Nat, isAdmin : BOOLEAN]
Author == {"nobody", "create", "reply", "crossing reply", "close", "reopen"}

Idle == [pc |-> "idle"]
\* alone and late are history: no other reply to the ticket has been in its
\* transaction meanwhile; the ticket was closed since it was read.
RunState == [pc : {"add", "commit"}, ticket : Tickets, isAdmin : BOOLEAN, created : Nat,
             alone : BOOLEAN, late : BOOLEAN]

Adding(t) == {p \in Requests : run[p].pc = "commit" /\ run[p].ticket = t}
Answered(isAdmin) == IF isAdmin THEN "REPLIED" ELSE "OPEN"
Call == calls < MaxCalls /\ calls' = calls + 1
Fail == failures < MaxFailures /\ failures' = failures + 1

\* The message of p is shown, and the status is s.
Commit(p, s) ==
    LET t == run[p].ticket IN
    /\ run[p].pc = "commit"
    /\ newest' = IF run[p].created < newest[t].created THEN newest
                 ELSE [newest EXCEPT ![t] = [created |-> run[p].created, isAdmin |-> run[p].isAdmin]]
    /\ status' = [status EXCEPT ![t] = s]
    /\ author' = [author EXCEPT ![t] = IF run[p].alone THEN "reply" ELSE "crossing reply"]
    /\ run' = [run EXCEPT ![p] = Idle]
    /\ UNCHANGED <<clock, calls, failures>>

-------------------------------------------------------------------------------
(* Slips of the steps below that the properties must notice.  They are not   *)
(* part of the specification.                                                *)

\* The status is left alone when the user replies to a reply.
CommitKeepingReplied(p) ==
    Commit(p, IF status[run[p].ticket] = "REPLIED" THEN "REPLIED" ELSE Answered(run[p].isAdmin))

\* An admin may reply to a closed ticket.
ReplyUnlessUserAndClosed(p, t, isAdmin) ==
    /\ run[p] = Idle
    /\ Call
    /\ status[t] # NoTicket
    /\ isAdmin \/ status[t] # "CLOSED"
    /\ run' = [run EXCEPT ![p] = [pc |-> "add", ticket |-> t, isAdmin |-> isAdmin, created |-> 0,
                                  alone |-> FALSE, late |-> FALSE]]
    /\ UNCHANGED <<status, newest, clock, failures, author>>

-------------------------------------------------------------------------------
(* Handlers *)

\* The ticket and its first message are one nested insert.
CreateTicket(t) ==
    /\ Call
    /\ status[t] = NoTicket
    /\ status' = [status EXCEPT ![t] = "OPEN"]
    /\ clock' = clock + 1
    /\ newest' = [newest EXCEPT ![t] = [created |-> clock', isAdmin |-> FALSE]]
    /\ author' = [author EXCEPT ![t] = "create"]
    /\ UNCHANGED <<run, failures>>

\* replyToTicket, as far as the check of the ticket it has read.
ReplyToTicket(p, t, isAdmin) ==
    /\ run[p] = Idle
    /\ Call
    /\ status[t] \notin {NoTicket, "CLOSED"}
    /\ run' = [run EXCEPT ![p] = [pc |-> "add", ticket |-> t, isAdmin |-> isAdmin, created |-> 0,
                                  alone |-> FALSE, late |-> FALSE]]
    /\ UNCHANGED <<status, newest, clock, failures, author>>

\* addMessage: the message is created, not yet to be seen by others ...
AddMessage(p) ==
    LET t == run[p].ticket IN
    /\ run[p].pc = "add"
    /\ clock' = clock + 1
    /\ run' = [q \in Requests |->
        IF q = p THEN [run[p] EXCEPT !.pc = "commit", !.created = clock', !.alone = Adding(t) = {}]
        ELSE IF q \in Adding(t) THEN [run[q] EXCEPT !.alone = FALSE] ELSE run[q]]
    /\ UNCHANGED <<status, newest, calls, failures, author>>

\* ... the status is set, which waits for others that set it, and it commits.
CommitMessage(p) == Commit(p, Answered(run[p].isAdmin))

CloseTicket(t) ==
    /\ Call
    /\ status[t] # NoTicket
    /\ status' = [status EXCEPT ![t] = "CLOSED"]
    /\ author' = [author EXCEPT ![t] = "close"]
    /\ run' = [p \in Requests |-> IF run[p] # Idle /\ run[p].ticket = t
                                  THEN [run[p] EXCEPT !.late = TRUE] ELSE run[p]]
    /\ UNCHANGED <<newest, clock, failures>>

ReopenTicket(t) ==
    /\ Call
    /\ status[t] # NoTicket
    /\ status' = [status EXCEPT ![t] = "OPEN"]
    /\ author' = [author EXCEPT ![t] = "reopen"]
    /\ UNCHANGED <<newest, run, clock, failures>>

\* A call of p fails; the transaction is undone as a whole.
ReplyFails(p) ==
    /\ run[p] # Idle
    /\ Fail
    /\ run' = [run EXCEPT ![p] = Idle]
    /\ UNCHANGED <<status, newest, clock, calls, author>>

-------------------------------------------------------------------------------
Init ==
    /\ status = [t \in Tickets |-> NoTicket]
    /\ newest = [t \in Tickets |-> [created |-> 0, isAdmin |-> FALSE]]
    /\ run = [p \in Requests |-> Idle]
    /\ clock = 0 /\ calls = 0 /\ failures = 0
    /\ author = [t \in Tickets |-> "nobody"]

Next ==
    \/ \E t \in Tickets : CreateTicket(t) \/ CloseTicket(t) \/ ReopenTicket(t)
    \/ \E p \in Requests, t \in Tickets, isAdmin \in BOOLEAN : ReplyToTicket(p, t, isAdmin)
    \/ \E p \in Requests : AddMessage(p) \/ CommitMessage(p) \/ ReplyFails(p)

Spec == Init /\ [][Next]_vars

-------------------------------------------------------------------------------
(* Properties *)

\* Every variable holds what its declaration says.
TypeOK ==
    /\ status \in [Tickets -> TicketStatus \cup {NoTicket}]
    /\ newest \in [Tickets -> Message]
    /\ run \in [Requests -> RunState \cup {Idle}]
    /\ clock \in Nat /\ calls \in Nat /\ failures \in Nat
    /\ author \in [Tickets -> Author]

\* The lists of tickets that wait for an admin, and of those that wait for the
\* user, are by status: a ticket whose status a reply has set waits for the
\* other side of its newest message.  Two replies whose transactions cross may
\* leave it waiting for the wrong side.
StatusTellsWhoIsWaitedFor ==
    \A t \in Tickets :
        author[t] \in {"create", "reply"} => status[t] = Answered(newest[t].isAdmin)

\* 'Ticket is closed and cannot receive new messages': what opens a closed
\* ticket again is reopenTicket, or a reply that read the ticket before it was
\* closed and is not checked again.
OpenedOnlyByAdminOrLateReply ==
    \A t \in Tickets :
        status[t] = "CLOSED" /\ status'[t] # "CLOSED" =>
            \/ author'[t] = "reopen"
            \/ \E p \in Adding(t) : run'[p] = Idle /\ run[p].late

ClosedStaysClosed == [][OpenedOnlyByAdminOrLateReply]_vars

===============================================================================
