------------------------------- MODULE PoolBonus -------------------------------
(***************************************************************************)
(* Requests for the pool bonus: poolBonusService and poolBonusRepository.  *)
(*                                                                         *)
(* A user asks for money from the POOL_BONUS wallet, as a transfer to      *)
(* PRINCIPAL or as a withdrawal; an admin approves (perhaps less than was  *)
(* asked) or rejects, the user may cancel, and an approval executes the    *)
(* request at once.  A run is one handler in progress, interleaved with    *)
(* the others at every awaited call.  Executing catches an error, writes   *)
(* FAILED and throws it again; elsewhere an error ends the handler.        *)
(* Nothing already done is undone.  A change of a balance is one step here *)
(* (WalletLedger has its stages).                                          *)
(***************************************************************************)
EXTENDS Integers, FiniteSets

CONSTANTS
    Users,          \* users who ask
    Admins,         \* users who decide; some may also ask
    Requests,       \* requests a behaviour may create
    Runs,           \* handlers in progress at once
    Amounts,        \* amounts asked for and approved
    Funds,          \* per user, what is on the POOL_BONUS wallet at first
    MaxCalls,       \* bound: calls of the API in a behaviour
    MaxFailures     \* bound: failed calls and restarts in a behaviour

ASSUME AmountAssumption == Amounts \subseteq Nat \ {0}
ASSUME FundsAssumption == Funds \in [Users -> Nat]
ASSUME BoundAssumption == MaxCalls \in Nat /\ MaxFailures \in Nat

VARIABLES
    request,        \* the request rows
    pool,           \* per user, balance of the POOL_BONUS wallet
    run,            \* the handlers in progress
    calls,          \* calls so far (bounded by MaxCalls)
    failures,       \* failed calls and restarts so far (bounded by MaxFailures)
    taken,          \* history: per request, debited from POOL_BONUS for it
    paid,           \* history: per request, credited to PRINCIPAL or put in a
                    \* withdrawal record
    overlapped,     \* history: requests on which two handlers overlapped
    crowded,        \* history: users of whom two createRequest overlapped
    interrupted     \* history: requests whose execution was cut short

money == <<pool, taken, paid>>
counters == <<calls, failures>>
history == <<overlapped, crowded, interrupted>>
vars == <<request, money, run, counters, history>>

-------------------------------------------------------------------------------
(* Data *)

Type == {"TRANSFER_TO_PRINCIPAL", "WITHDRAW"}
Status == {"PENDING", "APPROVED", "PROCESSED", "REJECTED", "FAILED"}
NoRequest == [status |-> "NONE"]
Row == [status : Status, user : Users, type : Type, asked : Amounts, approved : Amounts \cup {0}]

Idle == [pc |-> "idle"]
Creating == [pc : {"pending", "balance", "insert"}, user : Users, type : Type, amount : Amounts]
\* A decision, and the execution that follows an approval, with the amount.
Executing == {"debit", "debitEntry", "credit", "creditEntry", "withdrawal", "processed", "failed"}
Deciding == [pc : {"cancel", "cancelled", "approve", "approved", "update", "updateBalance",
                   "reject", "rejected"} \cup Executing,
             request : Requests, admin : Admins \cup {"none"}, amount : Amounts \cup {0}]

At(r, pc) == run[r].pc = pc
Exists(q) == request[q] # NoRequest
InCreate(r) == run[r].pc \in {"pending", "balance", "insert"}
On(r, q) == ~At(r, "idle") /\ ~InCreate(r) /\ run[r].request = q
Continue(r, pc) == run' = [run EXCEPT ![r].pc = pc]
End(r) == run' = [run EXCEPT ![r] = Idle]
RowOf(r) == request[run[r].request]
Pending(u) == {q \in Requests : request[q].status = "PENDING" /\ request[q].user = u}

\* The execution a handler is in the middle of.
Midway(r) == IF run[r].pc \in Executing THEN {run[r].request} ELSE {}

-------------------------------------------------------------------------------
(* Slips of the steps below that the properties must notice.  They are not   *)
(* part of the specification.                                                *)

FindNothingPending(r) ==
    /\ At(r, "pending")
    /\ Continue(r, "balance")
    /\ UNCHANGED <<request, money, counters, history>>

RefusalSwallowed(r) ==
    /\ At(r, "debit")
    /\ pool[RowOf(r).user] < run[r].amount
    /\ Continue(r, "processed")
    /\ UNCHANGED <<request, money, counters, history>>

ApproveUnlessProcessed(r) ==
    /\ At(r, "approve")
    /\ RowOf(r).status # "PROCESSED"
    /\ RowOf(r).user # run[r].admin
    /\ run' = [run EXCEPT ![r].pc = "approved", ![r].amount = RowOf(r).asked]
    /\ UNCHANGED <<request, money, counters, history>>

CreditAsked(r) ==
    /\ At(r, "credit")
    /\ paid' = [paid EXCEPT ![run[r].request] = @ + RowOf(r).asked]
    /\ Continue(r, "creditEntry")
    /\ UNCHANGED <<request, pool, taken, counters, history>>

ProcessedUnwritten(r) ==
    /\ At(r, "processed")
    /\ End(r)
    /\ UNCHANGED <<request, money, counters, history>>

-------------------------------------------------------------------------------
(* Calls *)

Call(r) == run[r] = Idle /\ calls < MaxCalls /\ calls' = calls + 1

CallCreate(r, u, type, amount) ==
    /\ Call(r)
    /\ run' = [run EXCEPT ![r] = [pc |-> "pending", user |-> u, type |-> type, amount |-> amount]]
    /\ crowded' = IF \E s \in Runs : InCreate(s) /\ run[s].user = u
                  THEN crowded \cup {u} ELSE crowded
    /\ UNCHANGED <<request, money, failures, overlapped, interrupted>>

CallOn(r, pc, q, admin, amount) ==
    /\ Call(r)
    /\ Exists(q)
    /\ run' = [run EXCEPT ![r] = [pc |-> pc, request |-> q, admin |-> admin, amount |-> amount]]
    /\ overlapped' = IF \E s \in Runs : On(s, q) THEN overlapped \cup {q} ELSE overlapped
    /\ UNCHANGED <<request, money, failures, crowded, interrupted>>

CallCancel(r, q) == CallOn(r, "cancel", q, "none", 0)
CallApprove(r, q, a) == CallOn(r, "approve", q, a, 0)
CallUpdateAndApprove(r, q, a, amount) == CallOn(r, "update", q, a, amount)
CallReject(r, q, a) == CallOn(r, "reject", q, a, 0)

-------------------------------------------------------------------------------
(* createRequest *)

FindPending(r) ==
    /\ At(r, "pending")
    /\ Pending(run[r].user) = {}
    /\ Continue(r, "balance")
    /\ UNCHANGED <<request, money, counters, history>>

CheckBalance(r) ==
    /\ At(r, "balance")
    /\ pool[run[r].user] >= run[r].amount
    /\ Continue(r, "insert")
    /\ UNCHANGED <<request, money, counters, history>>

\* No constraint of the table looks for another pending request.
Insert(r, q) ==
    /\ At(r, "insert")
    /\ ~Exists(q)
    /\ request' = [request EXCEPT ![q] = [status |-> "PENDING", user |-> run[r].user,
                                          type |-> run[r].type, asked |-> run[r].amount,
                                          approved |-> 0]]
    /\ End(r)
    /\ UNCHANGED <<money, counters, history>>

-------------------------------------------------------------------------------
(* Decisions: the status is read by one call and written by a later one *)

ReadCancel(r) ==
    /\ At(r, "cancel")
    /\ RowOf(r).status = "PENDING"
    /\ Continue(r, "cancelled")
    /\ UNCHANGED <<request, money, counters, history>>

ReadReject(r) ==
    /\ At(r, "reject")
    /\ RowOf(r).status = "PENDING"
    /\ Continue(r, "rejected")
    /\ UNCHANGED <<request, money, counters, history>>

\* A cancellation and a rejection write the same status.
SetRejected(r) ==
    /\ run[r].pc \in {"cancelled", "rejected"}
    /\ request' = [request EXCEPT ![run[r].request].status = "REJECTED"]
    /\ End(r)
    /\ UNCHANGED <<money, counters, history>>

\* An admin does not approve a request of their own.
ReadApprove(r) ==
    /\ At(r, "approve")
    /\ RowOf(r).status = "PENDING"
    /\ RowOf(r).user # run[r].admin
    /\ run' = [run EXCEPT ![r].pc = "approved", ![r].amount = RowOf(r).asked]
    /\ UNCHANGED <<request, money, counters, history>>

ReadUpdate(r) ==
    /\ At(r, "update")
    /\ RowOf(r).status = "PENDING"
    /\ RowOf(r).user # run[r].admin
    /\ run[r].amount <= RowOf(r).asked
    /\ Continue(r, "updateBalance")
    /\ UNCHANGED <<request, money, counters, history>>

UpdateBalance(r) ==
    /\ At(r, "updateBalance")
    /\ pool[RowOf(r).user] >= run[r].amount
    /\ Continue(r, "approved")
    /\ UNCHANGED <<request, money, counters, history>>

SetApproved(r) ==
    /\ At(r, "approved")
    /\ request' = [request EXCEPT ![run[r].request].status = "APPROVED",
                                  ![run[r].request].approved = run[r].amount]
    /\ Continue(r, "debit")
    /\ UNCHANGED <<money, counters, history>>

-------------------------------------------------------------------------------
(* executeRequest *)

Debit(r) ==
    LET u == RowOf(r).user
    IN  /\ At(r, "debit")
        /\ pool[u] >= run[r].amount
        /\ pool' = [pool EXCEPT ![u] = @ - run[r].amount]
        /\ taken' = [taken EXCEPT ![run[r].request] = @ + run[r].amount]
        /\ Continue(r, "debitEntry")
        /\ UNCHANGED <<request, paid, counters, history>>

\* A balance that has become too small is caught like any error.
DebitRefused(r) ==
    /\ At(r, "debit")
    /\ pool[RowOf(r).user] < run[r].amount
    /\ Continue(r, "failed")
    /\ UNCHANGED <<request, money, counters, history>>

DebitEntry(r) ==
    /\ At(r, "debitEntry")
    /\ Continue(r, IF RowOf(r).type = "WITHDRAW" THEN "withdrawal" ELSE "credit")
    /\ UNCHANGED <<request, money, counters, history>>

CreditPrincipal(r) ==
    /\ At(r, "credit")
    /\ paid' = [paid EXCEPT ![run[r].request] = @ + run[r].amount]
    /\ Continue(r, "creditEntry")
    /\ UNCHANGED <<request, pool, taken, counters, history>>

CreditEntry(r) ==
    /\ At(r, "creditEntry")
    /\ Continue(r, "processed")
    /\ UNCHANGED <<request, money, counters, history>>

\* The record the withdrawal service then works on; without fee or penalty.
CreateWithdrawal(r) ==
    /\ At(r, "withdrawal")
    /\ paid' = [paid EXCEPT ![run[r].request] = @ + run[r].amount]
    /\ Continue(r, "processed")
    /\ UNCHANGED <<request, pool, taken, counters, history>>

SetProcessed(r) ==
    /\ At(r, "processed")
    /\ request' = [request EXCEPT ![run[r].request].status = "PROCESSED"]
    /\ End(r)
    /\ UNCHANGED <<money, counters, history>>

SetFailed(r) ==
    /\ At(r, "failed")
    /\ request' = [request EXCEPT ![run[r].request].status = "FAILED"]
    /\ End(r)
    /\ UNCHANGED <<money, counters, history>>

-------------------------------------------------------------------------------
(* Errors *)

Failing == failures < MaxFailures /\ failures' = failures + 1

\* A query fails, or a ledger entry does not add up.  The catch of
\* executeRequest does not cover the last update: its promise is returned, not
\* awaited.
Fail(r) ==
    /\ Failing
    /\ run[r] # Idle
    /\ IF run[r].pc \in Executing \ {"processed", "failed"} THEN Continue(r, "failed") ELSE End(r)
    /\ interrupted' = IF At(r, "debit") THEN interrupted ELSE interrupted \cup Midway(r)
    /\ UNCHANGED <<request, money, calls, overlapped, crowded>>

\* The server dies; what it had in memory is gone.
Crash ==
    /\ Failing
    /\ run' = [r \in Runs |-> Idle]
    /\ interrupted' = interrupted \cup UNION {Midway(r) : r \in Runs}
    /\ UNCHANGED <<request, money, calls, overlapped, crowded>>

\* The code refuses where a step above is not allowed.
Refused(r) ==
    /\ \/ At(r, "pending") /\ Pending(run[r].user) # {}
       \/ At(r, "balance") /\ pool[run[r].user] < run[r].amount
       \/ run[r].pc \in {"cancel", "reject", "approve", "update"} /\ RowOf(r).status # "PENDING"
       \/ run[r].pc \in {"approve", "update"} /\ RowOf(r).user = run[r].admin
       \/ At(r, "update") /\ run[r].amount > RowOf(r).asked
       \/ At(r, "updateBalance") /\ pool[RowOf(r).user] < run[r].amount
    /\ End(r)
    /\ UNCHANGED <<request, money, counters, history>>

-------------------------------------------------------------------------------

Init ==
    /\ request = [q \in Requests |-> NoRequest]
    /\ pool = Funds
    /\ run = [r \in Runs |-> Idle]
    /\ calls = 0
    /\ failures = 0
    /\ taken = [q \in Requests |-> 0]
    /\ paid = [q \in Requests |-> 0]
    /\ overlapped = {}
    /\ crowded = {}
    /\ interrupted = {}

Called(r) ==
    \/ \E u \in Users, type \in Type, amount \in Amounts : CallCreate(r, u, type, amount)
    \/ \E q \in Requests : \/ CallCancel(r, q)
                           \/ \E a \in Admins : \/ CallApprove(r, q, a)
                                                \/ CallReject(r, q, a)
                                                \/ \E amount \in Amounts :
                                                       CallUpdateAndApprove(r, q, a, amount)

Step(r) ==
    \/ FindPending(r) \/ CheckBalance(r)
    \/ \E q \in Requests : Insert(r, q)
    \/ ReadCancel(r) \/ ReadReject(r) \/ SetRejected(r)
    \/ ReadApprove(r) \/ ReadUpdate(r) \/ UpdateBalance(r) \/ SetApproved(r)
    \/ Debit(r) \/ DebitRefused(r) \/ DebitEntry(r)
    \/ CreditPrincipal(r) \/ CreditEntry(r) \/ CreateWithdrawal(r)
    \/ SetProcessed(r) \/ SetFailed(r)
    \/ Refused(r)

Next == (\E r \in Runs : Called(r) \/ Step(r) \/ Fail(r)) \/ Crash

Spec == Init /\ [][Next]_vars

\* The event loop runs every handler on.
FairSpec == Spec /\ \A r \in Runs : WF_vars(Step(r))

-------------------------------------------------------------------------------
(* Properties *)

\* Types of the variables; no balance is negative.
TypeOK ==
    /\ request \in [Requests -> Row \cup {NoRequest}]
    /\ pool \in [Users -> Nat]
    /\ run \in [Runs -> Creating \cup Deciding \cup {Idle}]
    /\ calls \in 0..MaxCalls
    /\ failures \in 0..MaxFailures
    /\ taken \in [Requests -> Nat]
    /\ paid \in [Requests -> Nat]
    /\ overlapped \subseteq Requests
    /\ crowded \subseteq Users
    /\ interrupted \subseteq Requests

Quiet(q) == \A r \in Runs : ~On(r, q)

\* However decisions overlap and wherever they fail, no request pays out more
\* than was taken for it, and none that was not cut short takes more than it
\* pays: approvals that race execute the request twice, but each in full.
PayoutsAreTaken ==
    \A q \in Requests :
        /\ paid[q] <= taken[q]
        /\ Quiet(q) /\ q \notin interrupted => paid[q] = taken[q]

\* Without overlap and without an execution cut short, the status tells where
\* the money is: taken as approved, and within what was asked, if PROCESSED,
\* and still on the wallet if PENDING, REJECTED or FAILED.
StatusTellsMoney ==
    \A q \in Requests \ (overlapped \cup interrupted) :
        Exists(q) /\ Quiet(q) =>
            /\ request[q].status # "APPROVED"
            /\ taken[q] = (IF request[q].status = "PROCESSED" THEN request[q].approved ELSE 0)
            /\ request[q].approved <= request[q].asked

\* MAX_PENDING_REQUESTS_PER_USER is 1: only calls of createRequest that overlap
\* give a user two pending requests.
OnePendingPerUser ==
    \A u \in Users \ crowded : Cardinality(Pending(u)) <= 1

\* A request is a claim on what is approved of it.
Stage(q) ==
    CASE request[q].status = "NONE" -> "none"
      [] request[q].status \in {"PENDING", "APPROVED"} -> "open"
      [] request[q].status = "PROCESSED" -> "granted"
      [] request[q].status \in {"REJECTED", "FAILED"} -> "refused"

Claim == INSTANCE Settlement WITH
             Claims <- Requests, Reopenable <- {},
             stage <- [q \in Requests |-> Stage(q)], given <- paid,
             astray <- overlapped \cup interrupted

\* "Only pending requests can be modified": through its calls and handlers, a
\* request is settled as Settlement says: paid at most once, before it shows
\* PROCESSED, never if it is REJECTED or FAILED, and these are final, unless
\* handlers overlap on it or its execution was cut short.
SettledOnce == Claim!Spec

\* A request does not stay APPROVED, unless its execution was cut short: it is
\* executed or fails.
ApprovedIsExecuted ==
    \A q \in Requests :
        request[q].status = "APPROVED" ~> request[q].status # "APPROVED" \/ q \in interrupted
===============================================================================
