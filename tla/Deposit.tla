------------------------------- MODULE Deposit --------------------------------
(***************************************************************************)
(* Life of a deposit: depositService and depositRepository with the parts  *)
(* of blockchainService and referralService they call.                     *)
(*                                                                         *)
(* A run is one handler in progress on one deposit (verify, approve or     *)
(* reject), interleaved with the others at every awaited call.  A verify   *)
(* run goes on as an approve run.  Requests run for the API.  Tasks run    *)
(* retryPendingDeposits, which verifies one deposit of the list it read    *)
(* after another; two cron schedules (deposit_verification, failed_retry)  *)
(* start it, so two may overlap.  A run throws where the code refuses, and *)
(* may fail at any of its calls: a query or an RPC call that errors, a     *)
(* ledger entry that does not add up (see WalletLedger).  The server may   *)
(* die and restart.  Nothing already done is undone.                       *)
(*                                                                         *)
(* A wallet credit and its ledger row are one step here.  Amounts are in   *)
(* units of 50 USDT, which hides the tolerance of 0.1 USDT for fees.  The  *)
(* 5% bonus is accounted for by the amount it is computed from, and the    *)
(* referral bonus likewise.                                                *)
(***************************************************************************)
EXTENDS Integers, FiniteSets

CONSTANTS
    Deposits,       \* deposit records a behaviour may create
    Hashes,         \* transaction hashes
    Requests,       \* API requests in progress at once
    Tasks,          \* scheduled runs of retryPendingDeposits
    OnChain,        \* per hash, the amount transferred on chain; 0 if none
    Amounts,        \* amounts users declare
    Sponsored,      \* deposits of users who have a sponsor
    MaxRequests,    \* bound: API requests in a behaviour
    MaxFailures     \* bound: failed calls in a behaviour

MINIMUM_DEPOSIT == 1
DEPOSIT_BONUS_THRESHOLD == 1
SPONSOR_TRADE_BONUS_DEPOSIT_MIN == 20

ASSUME AmountAssumption == Amounts \subseteq Nat
ASSUME ChainAssumption == OnChain \in [Hashes -> Nat]
\* "nobody" and "other" are no deposits, "stored" is no hash.
ASSUME NameAssumption == Deposits \cap {"nobody", "other"} = {} /\ "stored" \notin Hashes
ASSUME TaskAssumption == Tasks \cap Requests = {}
ASSUME BoundAssumption == MaxRequests \in Nat /\ MaxFailures \in Nat

VARIABLES
    deposit,        \* the deposit rows
    recordedFor,    \* per hash, whose verification inserted its
                    \* BlockchainTransaction row (the row itself does not say)
    run,            \* the runs in progress
    retryList,      \* per task, deposits it has still to verify
    requests,       \* API requests so far (bounded by MaxRequests)
    failures,       \* failed calls and restarts so far (bounded by MaxFailures)
    paid,           \* per deposit, principal credited for it
    bonusPaid,      \* per deposit, amount its bonus was credited on
    referralPaid,   \* per deposit, amounts its referral bonus was credited on
    bonusRow,       \* deposits with a ReferralBonus row
    boosted,        \* deposits that activated the sponsor trade bonus
    settled,        \* history: per hash, deposits verified with it
    overlapped,     \* history: deposits on which two runs overlapped
    interrupted     \* history: deposits on which a run failed half-way, with
                    \* "unpaid" or "paying" for how far it had come

money == <<paid, bonusPaid, referralPaid, bonusRow, boosted>>
history == <<settled, overlapped, interrupted>>
vars == <<deposit, recordedFor, run, retryList, requests, failures, money, history>>

-------------------------------------------------------------------------------
(* Data *)

Status == {"PENDING", "VERIFIED", "APPROVED", "REJECTED"}
NoDeposit == [status |-> "NONE"]
DepositRow == [status : Status, hash : Hashes, amount : Nat]

Idle == [pc |-> "idle"]
\* The awaited call a run is about to make, with what it has read so far.
RunState == [pc : {"verify", "rehash", "lookup", "record", "settle", "approve", "credit", "bonus",
                   "approved", "referral", "referralPay", "referralRow", "activate",
                   "reject", "rejected"},
             dep : Deposits, hash : Hashes \cup {"stored"}, amount : Nat]

Runs == Requests \cup Tasks
Exists(d) == deposit[d] # NoDeposit
On(p, d) == run[p] # Idle /\ run[p].dep = d
Bonus(amount) == IF amount > DEPOSIT_BONUS_THRESHOLD THEN amount ELSE 0
Larger(a, b) == IF a > b THEN a ELSE b

At(p, pc) == run[p].pc = pc
Continue(p, pc) == run' = [run EXCEPT ![p].pc = pc]
End(p) == run' = [run EXCEPT ![p] = Idle]

Taken(h, d) == \E e \in Deposits \ {d} : Exists(e) /\ deposit[e].hash = h
Recorded(h) == recordedFor[h] # "nobody"

\* How far a run is: its hash recorded but nothing paid, or paying.
Progress(p) ==
    CASE run[p].pc \in {"settle", "approve", "credit"} -> {<<run[p].dep, "unpaid">>}
      [] run[p].pc \in {"bonus", "approved", "referral", "referralPay", "referralRow",
                        "activate"} -> {<<run[p].dep, "paying">>}
      [] OTHER -> {}

\* A query, an RPC call or a ledger entry fails, and the run with it.
Fail(p) ==
    /\ run[p] # Idle
    /\ failures < MaxFailures
    /\ failures' = failures + 1
    /\ End(p)
    /\ interrupted' = interrupted \cup Progress(p)
    /\ UNCHANGED <<deposit, recordedFor, retryList, requests, money, settled, overlapped>>

\* The server dies; what it had in memory is gone.
Crash ==
    /\ failures < MaxFailures
    /\ failures' = failures + 1
    /\ run' = [p \in Runs |-> Idle]
    /\ retryList' = [t \in Tasks |-> {}]
    /\ interrupted' = interrupted \cup UNION {Progress(p) : p \in {q \in Runs : run[q] # Idle}}
    /\ UNCHANGED <<deposit, recordedFor, requests, money, settled, overlapped>>

\* A run begins at pc on deposit d, with the hash it was given, if any.
Enter(p, pc, d, h) ==
    /\ run[p] = Idle
    /\ run' = [run EXCEPT ![p] = [pc |-> pc, dep |-> d, hash |-> h, amount |-> 0]]
    /\ overlapped' = IF \E q \in Runs : On(q, d) THEN overlapped \cup {d} ELSE overlapped

-------------------------------------------------------------------------------
(* Slips of the steps below that the properties must notice.  They are not   *)
(* part of the specification.                                                *)

CronTickVerifiedOnly(t) ==
    /\ run[t] = Idle
    /\ retryList[t] = {}
    /\ retryList' = [retryList EXCEPT ![t] = {d \in Deposits : deposit[d].status = "VERIFIED"}]
    /\ UNCHANGED <<deposit, recordedFor, run, requests, failures, money, history>>

RecordAgain(p) ==
    /\ At(p, "record")
    /\ OnChain[run[p].hash] > 0
    /\ recordedFor' = [recordedFor EXCEPT ![run[p].hash] = run[p].dep]
    /\ Continue(p, "settle")
    /\ UNCHANGED <<deposit, retryList, requests, failures, money, history>>

ApproveReadStale(p) ==
    /\ At(p, "approve")
    /\ deposit[run[p].dep].status \in {"PENDING", "VERIFIED"}
    /\ run' = [run EXCEPT ![p].pc = "credit"]
    /\ UNCHANGED <<deposit, recordedFor, retryList, requests, failures, money, history>>

ApproveReadSetsApproved(p) ==
    /\ At(p, "approve")
    /\ deposit[run[p].dep].status \in {"PENDING", "VERIFIED"}
    /\ deposit' = [deposit EXCEPT ![run[p].dep].status = "APPROVED"]
    /\ run' = [run EXCEPT ![p].pc = "credit", ![p].amount = deposit[run[p].dep].amount]
    /\ UNCHANGED <<recordedFor, retryList, requests, failures, money, history>>

RejectReadUnchecked(p) ==
    /\ At(p, "reject")
    /\ Continue(p, "rejected")
    /\ UNCHANGED <<deposit, recordedFor, retryList, requests, failures, money, history>>

-------------------------------------------------------------------------------
(* Requests *)

Request(p) == p \in Requests /\ requests < MaxRequests /\ requests' = requests + 1

\* createDeposit.  The duplicate check and the unique column refuse the same
\* hashes.  Verification starts without being awaited.
CreateDeposit(p, d, h, amount) ==
    /\ Request(p)
    /\ ~Exists(d)
    /\ amount >= MINIMUM_DEPOSIT
    /\ ~Taken(h, d)
    /\ deposit' = [deposit EXCEPT ![d] = [status |-> "PENDING", hash |-> h, amount |-> amount]]
    /\ Enter(p, "verify", d, "stored")
    /\ UNCHANGED <<recordedFor, retryList, failures, money, settled, interrupted>>

\* The owner or an admin asks for verification, with a new hash or without.
RequestVerify(p, d, h) ==
    /\ Request(p)
    /\ Exists(d)
    /\ Enter(p, "verify", d, h)
    /\ UNCHANGED <<deposit, recordedFor, retryList, failures, money, settled, interrupted>>

\* An admin approves or rejects.
RequestDecision(p, d, pc) ==
    /\ Request(p)
    /\ Exists(d)
    /\ pc \in {"approve", "reject"}
    /\ Enter(p, pc, d, "stored")
    /\ UNCHANGED <<deposit, recordedFor, retryList, failures, money, settled, interrupted>>

\* Any user may have a transaction verified on its own (POST
\* /blockchain/verify), and processing a withdrawal does the same.
RecordElsewhere(h) ==
    /\ requests < MaxRequests
    /\ requests' = requests + 1
    /\ OnChain[h] > 0
    /\ ~Recorded(h)
    /\ recordedFor' = [recordedFor EXCEPT ![h] = "other"]
    /\ UNCHANGED <<deposit, run, retryList, failures, money, history>>

\* retryPendingDeposits reads the deposits to retry ...
CronTick(t) ==
    /\ run[t] = Idle
    /\ retryList[t] = {}
    /\ retryList' = [retryList EXCEPT
                       ![t] = {d \in Deposits : deposit[d].status \in {"PENDING", "VERIFIED"}}]
    /\ UNCHANGED <<deposit, recordedFor, run, requests, failures, money, history>>

\* ... and verifies them one by one, whatever became of them meanwhile.
CronVerify(t, d) ==
    /\ d \in retryList[t]
    /\ retryList' = [retryList EXCEPT ![t] = @ \ {d}]
    /\ Enter(t, "verify", d, "stored")
    /\ UNCHANGED <<deposit, recordedFor, requests, failures, money, settled, interrupted>>

-------------------------------------------------------------------------------
(* verifyDeposit *)

\* findById and the status check.
VerifyRead(p) ==
    LET d == run[p].dep
    IN  /\ At(p, "verify")
        /\ deposit[d].status \notin {"VERIFIED", "APPROVED"}
        /\ run' = [run EXCEPT ![p].pc = IF run[p].hash \in {"stored", deposit[d].hash}
                                        THEN "lookup" ELSE "rehash",
                              ![p].hash = IF @ = "stored" THEN deposit[d].hash ELSE @,
                              ![p].amount = deposit[d].amount]
        /\ UNCHANGED <<deposit, recordedFor, retryList, requests, failures, money, history>>

\* The new transaction hash, if one was given.  Its column is unique.
Rehash(p) ==
    /\ At(p, "rehash")
    /\ ~Taken(run[p].hash, run[p].dep)
    /\ deposit' = [deposit EXCEPT ![run[p].dep].hash = run[p].hash]
    /\ Continue(p, "lookup")
    /\ UNCHANGED <<recordedFor, retryList, requests, failures, money, history>>

\* blockchainService.verifyTransaction refuses a recorded hash ...
Lookup(p) ==
    /\ At(p, "lookup")
    /\ ~Recorded(run[p].hash)
    /\ Continue(p, "record")
    /\ UNCHANGED <<deposit, recordedFor, retryList, requests, failures, money, history>>

\* ... checks it against the chain and records it, in a unique column.
Record(p) ==
    /\ At(p, "record")
    /\ OnChain[run[p].hash] > 0
    /\ ~Recorded(run[p].hash)
    /\ recordedFor' = [recordedFor EXCEPT ![run[p].hash] = run[p].dep]
    /\ Continue(p, "settle")
    /\ UNCHANGED <<deposit, retryList, requests, failures, money, history>>

\* The row takes the larger of the declared and the received amount.  A
\* smaller amount received is an error, the hash staying recorded.
Settle(p) ==
    LET d == run[p].dep
        h == run[p].hash
    IN  /\ At(p, "settle")
        /\ OnChain[h] >= run[p].amount
        /\ deposit' = [deposit EXCEPT ![d].status = "VERIFIED",
                                      ![d].amount = Larger(run[p].amount, OnChain[h])]
        /\ settled' = [settled EXCEPT ![h] = @ \cup {d}]
        /\ Continue(p, "approve")
        /\ UNCHANGED <<recordedFor, retryList, requests, failures, money, overlapped, interrupted>>

-------------------------------------------------------------------------------
(* approveDeposit *)

ApproveRead(p) ==
    /\ At(p, "approve")
    /\ deposit[run[p].dep].status \in {"PENDING", "VERIFIED"}
    /\ run' = [run EXCEPT ![p].pc = "credit", ![p].amount = deposit[run[p].dep].amount]
    /\ UNCHANGED <<deposit, recordedFor, retryList, requests, failures, money, history>>

Credit(p) ==
    /\ At(p, "credit")
    /\ paid' = [paid EXCEPT ![run[p].dep] = @ + run[p].amount]
    /\ Continue(p, IF Bonus(run[p].amount) > 0 THEN "bonus" ELSE "approved")
    /\ UNCHANGED <<deposit, recordedFor, retryList, requests, failures, history>>
    /\ UNCHANGED <<bonusPaid, referralPaid, bonusRow, boosted>>

CreditBonus(p) ==
    /\ At(p, "bonus")
    /\ bonusPaid' = [bonusPaid EXCEPT ![run[p].dep] = @ + Bonus(run[p].amount)]
    /\ Continue(p, "approved")
    /\ UNCHANGED <<deposit, recordedFor, retryList, requests, failures, history>>
    /\ UNCHANGED <<paid, referralPaid, bonusRow, boosted>>

\* The status is written without looking at the one it replaces.
SetApproved(p) ==
    /\ At(p, "approved")
    /\ deposit' = [deposit EXCEPT ![run[p].dep].status = "APPROVED"]
    /\ Continue(p, IF run[p].dep \in Sponsored THEN "referral" ELSE "activate")
    /\ UNCHANGED <<recordedFor, retryList, requests, failures, money, history>>

\* processReferralBonus throws if the deposit's bonus was recorded already.
ReferralCheck(p) ==
    /\ At(p, "referral")
    /\ run[p].dep \notin bonusRow
    /\ Continue(p, "referralPay")
    /\ UNCHANGED <<deposit, recordedFor, retryList, requests, failures, money, history>>

ReferralPay(p) ==
    /\ At(p, "referralPay")
    /\ referralPaid' = [referralPaid EXCEPT ![run[p].dep] = @ + run[p].amount]
    /\ Continue(p, "referralRow")
    /\ UNCHANGED <<deposit, recordedFor, retryList, requests, failures, history>>
    /\ UNCHANGED <<paid, bonusPaid, bonusRow, boosted>>

ReferralRow(p) ==
    /\ At(p, "referralRow")
    /\ bonusRow' = bonusRow \cup {run[p].dep}
    /\ Continue(p, "activate")
    /\ UNCHANGED <<deposit, recordedFor, retryList, requests, failures, history>>
    /\ UNCHANGED <<paid, bonusPaid, referralPaid, boosted>>

\* The sponsor trade bonus of a large deposit.
Activate(p) ==
    /\ At(p, "activate")
    /\ boosted' = IF run[p].amount >= SPONSOR_TRADE_BONUS_DEPOSIT_MIN
                  THEN boosted \cup {run[p].dep} ELSE boosted
    /\ End(p)
    /\ UNCHANGED <<deposit, recordedFor, retryList, requests, failures, history>>
    /\ UNCHANGED <<paid, bonusPaid, referralPaid, bonusRow>>

-------------------------------------------------------------------------------
(* rejectDeposit *)

RejectRead(p) ==
    /\ At(p, "reject")
    /\ deposit[run[p].dep].status # "APPROVED"
    /\ Continue(p, "rejected")
    /\ UNCHANGED <<deposit, recordedFor, retryList, requests, failures, money, history>>

SetRejected(p) ==
    /\ At(p, "rejected")
    /\ deposit' = [deposit EXCEPT ![run[p].dep].status = "REJECTED"]
    /\ End(p)
    /\ UNCHANGED <<recordedFor, retryList, requests, failures, money, history>>

-------------------------------------------------------------------------------
(* Errors the code throws where a step above is not allowed *)

Refused(p) ==
    LET d == run[p].dep
        h == run[p].hash
    IN  \/ At(p, "verify") /\ deposit[d].status \in {"VERIFIED", "APPROVED"}
        \/ At(p, "rehash") /\ Taken(h, d)
        \/ At(p, "lookup") /\ Recorded(h)
        \/ At(p, "record") /\ (OnChain[h] = 0 \/ Recorded(h))
        \/ At(p, "settle") /\ OnChain[h] < run[p].amount
        \/ At(p, "approve") /\ deposit[d].status \notin {"PENDING", "VERIFIED"}
        \/ At(p, "referral") /\ d \in bonusRow
        \/ At(p, "reject") /\ deposit[d].status = "APPROVED"

Throw(p) ==
    /\ Refused(p)
    /\ End(p)
    /\ UNCHANGED <<deposit, recordedFor, retryList, requests, failures, money, history>>

-------------------------------------------------------------------------------

Init ==
    /\ deposit = [d \in Deposits |-> NoDeposit]
    /\ recordedFor = [h \in Hashes |-> "nobody"]
    /\ run = [p \in Runs |-> Idle]
    /\ retryList = [t \in Tasks |-> {}]
    /\ requests = 0
    /\ failures = 0
    /\ paid = [d \in Deposits |-> 0]
    /\ bonusPaid = [d \in Deposits |-> 0]
    /\ referralPaid = [d \in Deposits |-> 0]
    /\ bonusRow = {}
    /\ boosted = {}
    /\ settled = [h \in Hashes |-> {}]
    /\ overlapped = {}
    /\ interrupted = {}

Verify(p) == VerifyRead(p) \/ Rehash(p) \/ Lookup(p) \/ Record(p) \/ Settle(p)

Approve(p) ==
    \/ ApproveRead(p) \/ Credit(p) \/ CreditBonus(p) \/ SetApproved(p)
    \/ ReferralCheck(p) \/ ReferralPay(p) \/ ReferralRow(p) \/ Activate(p)

Reject(p) == RejectRead(p) \/ SetRejected(p)

Step(p) == Verify(p) \/ Approve(p) \/ Reject(p) \/ Throw(p)

Arrive(p) ==
    \E d \in Deposits :
        \/ \E h \in Hashes, a \in Amounts : CreateDeposit(p, d, h, a)
        \/ \E h \in Hashes \cup {"stored"} : RequestVerify(p, d, h)
        \/ \E pc \in {"approve", "reject"} : RequestDecision(p, d, pc)

Next ==
    \/ \E p \in Requests : Arrive(p)
    \/ \E h \in Hashes : RecordElsewhere(h)
    \/ \E t \in Tasks : CronTick(t) \/ \E d \in Deposits : CronVerify(t, d)
    \/ \E p \in Runs : Step(p) \/ Fail(p)
    \/ Crash

Spec == Init /\ [][Next]_vars

\* The event loop runs every handler on, and node-cron keeps ticking.
FairSpec ==
    /\ Spec
    /\ \A p \in Runs : WF_vars(Step(p))
    /\ \A t \in Tasks : /\ WF_vars(CronTick(t))
                        /\ WF_vars(\E d \in Deposits : CronVerify(t, d))

-------------------------------------------------------------------------------
(* Properties *)

TypeOK ==
    /\ deposit \in [Deposits -> DepositRow \cup {NoDeposit}]
    /\ recordedFor \in [Hashes -> Deposits \cup {"nobody", "other"}]
    /\ run \in [Runs -> RunState \cup {Idle}]
    /\ retryList \in [Tasks -> SUBSET Deposits]
    /\ requests \in 0..MaxRequests
    /\ failures \in 0..MaxFailures
    /\ paid \in [Deposits -> Nat]
    /\ bonusPaid \in [Deposits -> Nat]
    /\ referralPaid \in [Deposits -> Nat]
    /\ bonusRow \subseteq Deposits
    /\ boosted \subseteq Deposits
    /\ settled \in [Hashes -> SUBSET Deposits]
    /\ overlapped \subseteq Deposits
    /\ interrupted \subseteq Deposits \X {"unpaid", "paying"}

\* However runs interleave and fail, a deposit is never APPROVED before its
\* principal is credited; and unless runs overlapped on it, the credits cover
\* the amount and the bonus its row now shows.
ApprovedIsCredited ==
    \A d \in Deposits :
        deposit[d].status = "APPROVED" =>
            /\ paid[d] >= MINIMUM_DEPOSIT
            /\ d \notin overlapped =>
                   /\ paid[d] >= deposit[d].amount
                   /\ bonusPaid[d] >= Bonus(deposit[d].amount)

\* A transaction hash vouches for one deposit only, whatever hashes users
\* enter: the unique BlockchainTransaction row is taken before the deposit is
\* marked VERIFIED, and a deposit is marked at most once with it.
HashVerifiesOneDeposit ==
    \A h \in Hashes : Cardinality(settled[h]) <= 1

Quiet(d) == \A p \in Runs : ~On(p, d)

\* Without overlapping runs and without a run that failed while paying, the
\* money given out for a deposit is exactly what its row says: nothing before
\* it is APPROVED, then its amount, the bonus and the referral bonus on it.
UndisturbedPaysExactly ==
    \A d \in Deposits \ overlapped :
        Exists(d) /\ Quiet(d) /\ <<d, "paying">> \notin interrupted =>
            LET due == IF deposit[d].status = "APPROVED" THEN deposit[d].amount ELSE 0
            IN  /\ paid[d] = due
                /\ bonusPaid[d] = Bonus(due)
                /\ referralPaid[d] = (IF d \in Sponsored THEN due ELSE 0)
                /\ d \in boosted <=> due >= SPONSOR_TRADE_BONUS_DEPOSIT_MIN

\* A deposit is a claim on its principal.  A rejected one may still be verified
\* and approved.
Stage(d) ==
    CASE deposit[d].status = "NONE" -> "none"
      [] deposit[d].status \in {"PENDING", "VERIFIED"} -> "open"
      [] deposit[d].status = "APPROVED" -> "granted"
      [] deposit[d].status = "REJECTED" -> "refused"

Astray == {d \in Deposits : d \in overlapped \/ <<d, "paying">> \in interrupted}

Claim == INSTANCE Settlement WITH
             Claims <- Deposits, Reopenable <- Deposits,
             stage <- [d \in Deposits |-> Stage(d)], given <- paid, astray <- Astray

\* Through its dozen calls and two handlers, a deposit is settled as Settlement
\* says: its principal is credited at most once, before it shows APPROVED and
\* never on one that is REJECTED, and APPROVED is final, unless handlers overlap
\* on it or one was cut short while paying.
SettledOnce == Claim!Spec

Payable(d) ==
    /\ Exists(d)
    /\ OnChain[deposit[d].hash] >= deposit[d].amount
    /\ recordedFor[deposit[d].hash] \in {"nobody", d}
    /\ \A k \in {"unpaid", "paying"} : <<d, k>> \notin interrupted

\* The retry task leaves no deposit undecided whose hash is good, was not
\* recorded on another account, and whose runs were not cut short: it is
\* approved or rejected in the end.
RetryDecidesPayable ==
    \A d \in Deposits :
        []<>(Payable(d) => deposit[d].status \in {"APPROVED", "REJECTED"})

\* deposit.service.ts:185-187: "Rejected or already approved deposits cannot be
\* approved again."  The principal of a deposit is credited at most once.
CreditedAtMostOnce ==
    \A d \in Deposits : Exists(d) => paid[d] <= deposit[d].amount
===============================================================================
