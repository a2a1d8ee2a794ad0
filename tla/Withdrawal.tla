------------------------------ MODULE Withdrawal -------------------------------
(***************************************************************************)
(* Life of a withdrawal: withdrawalService and withdrawalRepository, with  *)
(* the parts of blockchainService they call.                               *)
(*                                                                         *)
(* A run is one handler in progress on one withdrawal: create, process (an *)
(* admin submits the hash of the payment made on chain) or reject.  Runs   *)
(* interleave at every awaited call, throw where the code refuses, and may *)
(* fail or die with the server at any call; nothing already done is        *)
(* undone.  A debit or credit finds the wallet, reads it again and writes  *)
(* the balance computed from that: two on one wallet can write over each   *)
(* other.  Amounts are whole multiples of 10 USDT, so that the fee and the *)
(* penalty are integers.                                                   *)
(***************************************************************************)
EXTENDS Integers, FiniteSets, Totals

CONSTANTS
    Withdrawals,    \* withdrawal records a behaviour may create
    Wallets,        \* wallets money is withdrawn from, each of another user
    Principal,      \* those of type PRINCIPAL
    Funds,          \* per wallet, what is on it at first
    Hashes,         \* transaction hashes
    PaidTo,         \* per hash, the wallet whose owner it pays on chain
    Runs,           \* handlers in progress at once
    Amounts,        \* amounts users ask for
    MaxRequests,    \* bound: requests in a behaviour
    MaxFailures     \* bound: failed calls and restarts in a behaviour

MINIMUM_WITHDRAWAL == 10

ASSUME AmountAssumption == Amounts \subseteq {10 * n : n \in 1..1000}
ASSUME WalletAssumption == Principal \subseteq Wallets /\ Funds \in [Wallets -> Nat]
ASSUME ChainAssumption == PaidTo \in [Hashes -> Wallets]
ASSUME NameAssumption == "nobody" \notin Withdrawals
ASSUME BoundAssumption == MaxRequests \in Nat /\ MaxFailures \in Nat

VARIABLES
    withdrawal,     \* the withdrawal rows
    balance,        \* per wallet
    ledger,         \* per wallet, sum of credit - debit over its ledger rows
    recordedFor,    \* per hash, whose verification inserted its
                    \* BlockchainTransaction row (the row itself does not say)
    run,            \* the runs in progress
    requests,       \* requests so far (bounded by MaxRequests)
    failures,       \* failed calls so far (bounded by MaxFailures)
    refunded,       \* history: per withdrawal, amount refunded for it
    raced,          \* history: wallets read for a change while another was
                    \* about to be written
    displaced,      \* history: per wallet, what its writes put back (or took)
                    \* besides their own amount, by writing over others
    overlapped,     \* history: withdrawals on which two runs overlapped
    interrupted     \* history: wallets on which a run ended after it moved
                    \* money, before it wrote all it should about it

rows == <<withdrawal, recordedFor>>
races == <<raced, displaced>>
money == <<balance, ledger, refunded, races>>
counters == <<requests, failures>>
history == <<overlapped, interrupted>>
vars == <<rows, money, run, counters, history>>

-------------------------------------------------------------------------------
(* Data *)

NoRow == [status |-> "NONE"]
NoHash == "no hash"
Row == [status : {"PENDING", "COMPLETED", "REJECTED"}, wallet : Wallets,
        amount : Nat, hash : Hashes \cup {NoHash}]

Idle == [pc |-> "idle"]
RunState == [pc : {"debit", "debitReread", "debitWrite", "net", "fee", "penalty", "insert",
                   "read", "lookup", "record", "complete",
                   "check", "refund", "refundReread", "refundWrite", "refundEntry", "rejected"},
             wd : Withdrawals, wallet : Wallets, amount : Nat, early : BOOLEAN,
             hash : Hashes \cup {NoHash},
             found : Nat,    \* the balance walletService has found
             was : Nat]      \* the balance walletRepository has read

Exists(w) == withdrawal[w] # NoRow
On(r, w) == run[r] # Idle /\ run[r].wd = w
OnWallet(r, x) == run[r] # Idle /\ run[r].wallet = x
At(r, pc) == run[r].pc = pc
Continue(r, pc) == run' = [run EXCEPT ![r].pc = pc]
End(r) == run' = [run EXCEPT ![r] = Idle]
Recorded(h) == recordedFor[h] # "nobody"

\* What the platform keeps of the amount: the fee, and the penalty on principal
\* withdrawn early, within 90 days of the user's first approved deposit.
Fee(amount) == amount \div 5
Penalty(r) == IF run[r].early THEN run[r].amount \div 10 ELSE 0
Net(r) == run[r].amount - Fee(run[r].amount) - Penalty(r)

Enter(r, pc, w, x, amount, early, h) ==
    /\ run[r] = Idle
    /\ requests < MaxRequests
    /\ requests' = requests + 1
    /\ run' = [run EXCEPT ![r] = [pc |-> pc, wd |-> w, wallet |-> x, amount |-> amount,
                                  early |-> early, hash |-> h, found |-> 0, was |-> 0]]
    /\ overlapped' = IF \E q \in Runs : On(q, w) THEN overlapped \cup {w} ELSE overlapped

\* walletRepository reads the wallet again, whatever walletService found ...
Reread(r, pc) ==
    LET x == run[r].wallet
    IN  /\ run' = [run EXCEPT ![r].pc = pc, ![r].was = balance[x]]
        /\ raced' = IF \E q \in Runs : OnWallet(q, x) /\ run[q].pc \in {"debitWrite", "refundWrite"}
                    THEN raced \cup {x} ELSE raced

\* ... and writes the new balance over whatever is there by then.
WriteBalance(r, new) ==
    LET x == run[r].wallet
    IN  /\ balance' = [balance EXCEPT ![x] = new]
        /\ displaced' = [displaced EXCEPT ![x] = @ + run[r].was - balance[x]]
        /\ UNCHANGED raced

\* The run has changed a balance and not written all it should about it.
MovedMoney(r) == run[r].pc \in {"net", "fee", "penalty", "insert", "refundEntry", "rejected"}

\* A call of the run fails.
Fail(r) ==
    /\ run[r] # Idle
    /\ failures < MaxFailures
    /\ failures' = failures + 1
    /\ End(r)
    /\ interrupted' = IF MovedMoney(r) THEN interrupted \cup {run[r].wallet} ELSE interrupted
    /\ UNCHANGED <<rows, money, requests, overlapped>>

\* The server dies; what it had in memory is gone.
Crash ==
    /\ failures < MaxFailures
    /\ failures' = failures + 1
    /\ run' = [r \in Runs |-> Idle]
    /\ interrupted' = interrupted \cup {x \in Wallets : \E r \in Runs :
                                            OnWallet(r, x) /\ MovedMoney(r)}
    /\ UNCHANGED <<rows, money, requests, overlapped>>

-------------------------------------------------------------------------------
(* Slips of the steps below that the properties must notice.  They are not   *)
(* part of the specification.                                                *)

DebitNetOnly(r) ==
    /\ At(r, "debitWrite")
    /\ WriteBalance(r, run[r].was - Net(r))
    /\ Continue(r, "net")
    /\ UNCHANGED <<rows, ledger, refunded, counters, history>>

FeeEntrySkipsPenalty(r) ==
    /\ At(r, "fee")
    /\ ledger' = [ledger EXCEPT ![run[r].wallet] = @ - Fee(run[r].amount)]
    /\ Continue(r, "insert")
    /\ UNCHANGED <<rows, balance, refunded, races, counters, history>>

RecordAgain(r) ==
    /\ At(r, "record")
    /\ PaidTo[run[r].hash] = run[r].wallet
    /\ recordedFor' = [recordedFor EXCEPT ![run[r].hash] = run[r].wd]
    /\ Continue(r, "complete")
    /\ UNCHANGED <<withdrawal, money, counters, history>>

CheckNothing(r) ==
    /\ At(r, "check")
    /\ Continue(r, "refund")
    /\ UNCHANGED <<rows, money, counters, history>>

RefundNet(r) ==
    /\ At(r, "refundWrite")
    /\ LET returned == run[r].amount - Fee(run[r].amount)
       IN  /\ WriteBalance(r, run[r].was + returned)
           /\ refunded' = [refunded EXCEPT ![run[r].wd] = @ + returned]
    /\ Continue(r, "refundEntry")
    /\ UNCHANGED <<rows, ledger, counters, history>>

-------------------------------------------------------------------------------
(* createWithdrawal *)

\* Everything before the debit only reads: the minimum, the balance, the date
\* of the user's first approved deposit.  The record exists only at the end.
Create(r, w, x, amount, early) ==
    /\ ~Exists(w) /\ \A q \in Runs : ~On(q, w)
    /\ amount >= MINIMUM_WITHDRAWAL
    /\ balance[x] >= amount
    /\ early => x \in Principal
    /\ Enter(r, "debit", w, x, amount, early, NoHash)
    /\ UNCHANGED <<rows, money, failures, interrupted>>

\* debitWallet looks at the balance twice more before it writes.
Debit(r) ==
    /\ At(r, "debit")
    /\ balance[run[r].wallet] >= run[r].amount
    /\ Continue(r, "debitReread")
    /\ UNCHANGED <<rows, money, counters, history>>

DebitReread(r) ==
    /\ At(r, "debitReread")
    /\ balance[run[r].wallet] >= run[r].amount
    /\ Reread(r, "debitWrite")
    /\ UNCHANGED <<rows, balance, ledger, refunded, displaced, counters, history>>

DebitWrite(r) ==
    /\ At(r, "debitWrite")
    /\ WriteBalance(r, run[r].was - run[r].amount)
    /\ Continue(r, "net")
    /\ UNCHANGED <<rows, ledger, refunded, counters, history>>

\* The debit is booked in parts.  Their running balances are computed from the
\* debit's own, so that createEntry accepts them.
NetEntry(r) ==
    /\ At(r, "net")
    /\ ledger' = [ledger EXCEPT ![run[r].wallet] = @ - Net(r)]
    /\ Continue(r, "fee")
    /\ UNCHANGED <<rows, balance, refunded, races, counters, history>>

FeeEntry(r) ==
    /\ At(r, "fee")
    /\ ledger' = [ledger EXCEPT ![run[r].wallet] = @ - Fee(run[r].amount)]
    /\ Continue(r, IF Penalty(r) > 0 THEN "penalty" ELSE "insert")
    /\ UNCHANGED <<rows, balance, refunded, races, counters, history>>

PenaltyEntry(r) ==
    /\ At(r, "penalty")
    /\ ledger' = [ledger EXCEPT ![run[r].wallet] = @ - Penalty(r)]
    /\ Continue(r, "insert")
    /\ UNCHANGED <<rows, balance, refunded, races, counters, history>>

Insert(r) ==
    /\ At(r, "insert")
    /\ withdrawal' = [withdrawal EXCEPT
                        ![run[r].wd] = [status |-> "PENDING", wallet |-> run[r].wallet,
                                        amount |-> run[r].amount, hash |-> NoHash]]
    /\ End(r)
    /\ UNCHANGED <<recordedFor, money, counters, history>>

-------------------------------------------------------------------------------
(* processWithdrawal *)

Process(r, w, h) ==
    /\ Exists(w)
    /\ Enter(r, "read", w, withdrawal[w].wallet, 0, FALSE, h)
    /\ UNCHANGED <<rows, money, failures, interrupted>>

\* findById.  No code sets PROCESSING, which would be let through as well.
Read(r) ==
    /\ At(r, "read")
    /\ withdrawal[run[r].wd].status = "PENDING"
    /\ Continue(r, "lookup")
    /\ UNCHANGED <<rows, money, counters, history>>

\* blockchainService.verifyTransaction refuses a recorded hash ...
Lookup(r) ==
    /\ At(r, "lookup")
    /\ ~Recorded(run[r].hash)
    /\ Continue(r, "record")
    /\ UNCHANGED <<rows, money, counters, history>>

\* ... and records one that pays the destination address, whatever it pays.
Record(r) ==
    /\ At(r, "record")
    /\ PaidTo[run[r].hash] = run[r].wallet
    /\ ~Recorded(run[r].hash)
    /\ recordedFor' = [recordedFor EXCEPT ![run[r].hash] = run[r].wd]
    /\ Continue(r, "complete")
    /\ UNCHANGED <<withdrawal, money, counters, history>>

\* The status is written without looking at the one it replaces.
Complete(r) ==
    /\ At(r, "complete")
    /\ withdrawal' = [withdrawal EXCEPT ![run[r].wd].status = "COMPLETED",
                                        ![run[r].wd].hash = run[r].hash]
    /\ End(r)
    /\ UNCHANGED <<recordedFor, money, counters, history>>

\* A deposit, or a user's call of POST /blockchain/verify, records the hash.
RecordElsewhere(h) ==
    /\ requests < MaxRequests
    /\ requests' = requests + 1
    /\ ~Recorded(h)
    /\ recordedFor' = [recordedFor EXCEPT ![h] = "other"]
    /\ UNCHANGED <<withdrawal, money, run, failures, history>>

-------------------------------------------------------------------------------
(* rejectWithdrawal *)

Reject(r, w) ==
    /\ Exists(w)
    /\ Enter(r, "check", w, withdrawal[w].wallet, withdrawal[w].amount, FALSE, NoHash)
    /\ UNCHANGED <<rows, money, failures, interrupted>>

\* A rejected withdrawal is not refused.
Check(r) ==
    /\ At(r, "check")
    /\ withdrawal[run[r].wd].status # "COMPLETED"
    /\ Continue(r, "refund")
    /\ UNCHANGED <<rows, money, counters, history>>

\* creditWallet.
Refund(r) ==
    /\ At(r, "refund")
    /\ run' = [run EXCEPT ![r].pc = "refundReread", ![r].found = balance[run[r].wallet]]
    /\ UNCHANGED <<rows, money, counters, history>>

RefundReread(r) ==
    /\ At(r, "refundReread")
    /\ Reread(r, "refundWrite")
    /\ UNCHANGED <<rows, balance, ledger, refunded, displaced, counters, history>>

RefundWrite(r) ==
    /\ At(r, "refundWrite")
    /\ WriteBalance(r, run[r].was + run[r].amount)
    /\ refunded' = [refunded EXCEPT ![run[r].wd] = @ + run[r].amount]
    /\ Continue(r, "refundEntry")
    /\ UNCHANGED <<rows, ledger, counters, history>>

\* createEntry refuses the refund's entry when the balance changed between the
\* two reads: what was found plus the amount is not what was written.
RefundEntry(r) ==
    /\ At(r, "refundEntry")
    /\ run[r].found = run[r].was
    /\ ledger' = [ledger EXCEPT ![run[r].wallet] = @ + run[r].amount]
    /\ Continue(r, "rejected")
    /\ UNCHANGED <<rows, balance, refunded, races, counters, history>>

SetRejected(r) ==
    /\ At(r, "rejected")
    /\ withdrawal' = [withdrawal EXCEPT ![run[r].wd].status = "REJECTED"]
    /\ End(r)
    /\ UNCHANGED <<recordedFor, money, counters, history>>

-------------------------------------------------------------------------------
(* Errors the code throws where a step above is not allowed *)

Refused(r) ==
    LET w == run[r].wd
        h == run[r].hash
    IN  \/ run[r].pc \in {"debit", "debitReread"} /\ balance[run[r].wallet] < run[r].amount
        \/ At(r, "read") /\ withdrawal[w].status # "PENDING"
        \/ At(r, "lookup") /\ Recorded(h)
        \/ At(r, "record") /\ (PaidTo[h] # run[r].wallet \/ Recorded(h))
        \/ At(r, "check") /\ withdrawal[w].status = "COMPLETED"
        \/ At(r, "refundEntry") /\ run[r].found # run[r].was

Throw(r) ==
    /\ Refused(r)
    /\ End(r)
    /\ interrupted' = IF MovedMoney(r) THEN interrupted \cup {run[r].wallet} ELSE interrupted
    /\ UNCHANGED <<rows, money, counters, overlapped>>

-------------------------------------------------------------------------------

Init ==
    /\ withdrawal = [w \in Withdrawals |-> NoRow]
    /\ balance = Funds
    /\ ledger = [x \in Wallets |-> 0]
    /\ recordedFor = [h \in Hashes |-> "nobody"]
    /\ run = [r \in Runs |-> Idle]
    /\ requests = 0
    /\ failures = 0
    /\ refunded = [w \in Withdrawals |-> 0]
    /\ raced = {}
    /\ displaced = [x \in Wallets |-> 0]
    /\ overlapped = {}
    /\ interrupted = {}

Arrive(r) ==
    \E w \in Withdrawals :
        \/ \E x \in Wallets, a \in Amounts, early \in BOOLEAN : Create(r, w, x, a, early)
        \/ \E h \in Hashes : Process(r, w, h)
        \/ Reject(r, w)

Step(r) ==
    \/ Debit(r) \/ DebitReread(r) \/ DebitWrite(r) \/ NetEntry(r) \/ FeeEntry(r) \/ PenaltyEntry(r) \/ Insert(r)
    \/ Read(r) \/ Lookup(r) \/ Record(r) \/ Complete(r)
    \/ Check(r) \/ Refund(r) \/ RefundReread(r) \/ RefundWrite(r) \/ RefundEntry(r) \/ SetRejected(r)
    \/ Throw(r)

Next ==
    \/ \E r \in Runs : Arrive(r) \/ Step(r) \/ Fail(r)
    \/ \E h \in Hashes : RecordElsewhere(h)
    \/ Crash

Spec == Init /\ [][Next]_vars

-------------------------------------------------------------------------------
(* Properties *)

\* Types of the variables; no balance is negative.
TypeOK ==
    /\ withdrawal \in [Withdrawals -> Row \cup {NoRow}]
    /\ balance \in [Wallets -> Nat]
    /\ ledger \in [Wallets -> Int]
    /\ recordedFor \in [Hashes -> Withdrawals \cup {"nobody", "other"}]
    /\ run \in [Runs -> RunState \cup {Idle}]
    /\ requests \in 0..MaxRequests
    /\ failures \in 0..MaxFailures
    /\ refunded \in [Withdrawals -> Nat]
    /\ raced \subseteq Wallets
    /\ displaced \in [Wallets -> Int]
    /\ overlapped \subseteq Withdrawals
    /\ interrupted \subseteq Wallets

\* What has been asked from a wallet, and refunded to it, per withdrawal.
From(w, x) == Exists(w) /\ withdrawal[w].wallet = x
Asked(x) == [w \in Withdrawals |-> IF From(w, x) THEN withdrawal[w].amount ELSE 0]
Returned(x) == [w \in Withdrawals |-> IF From(w, x) THEN refunded[w] ELSE 0]

\* Whatever overlaps or fails, a wallet and the withdrawals made from it, less
\* their refunds, hold more than the wallet had only by what a write put back
\* over another: a request for money exists only once its debit was written.
\* (Two withdrawals of 20 that overlap on a wallet of 30 can both write 10.)
HeldNeverExceedsFunds ==
    \A x \in Wallets :
        balance[x] + Total(Asked(x)) <= Funds[x] + Total(Returned(x)) + displaced[x]

\* The net, fee and penalty entries of a withdrawal add up to its debit, and a
\* refund's to its credit: with no run on a wallet, and none cut short, the
\* ledger explains its balance, up to what was written over.
EntriesAddUp ==
    \A x \in Wallets \ interrupted :
        (\A r \in Runs : ~OnWallet(r, x)) => Funds[x] + ledger[x] + displaced[x] = balance[x]

\* Nothing is written over on a wallet none of whose changes overlapped, from
\* the second read of the one to its write.
OnlyRacesDisplace == \A x \in Wallets \ raced : displaced[x] = 0

\* All three: changes of a wallet that do not overlap leave its money accounted
\* for, at all times by its withdrawals and, at rest, by its ledger, whatever
\* fails; with those that do, it is wrong by exactly what they wrote over.
MoneyIsAccountedFor == HeldNeverExceedsFunds /\ EntriesAddUp /\ OnlyRacesDisplace

\* A completed withdrawal is backed by a recorded payment to its address that
\* was recorded for it and for no other withdrawal or deposit, even if admins
\* submit the same hash for two withdrawals at once.
CompletedIsBacked ==
    \A w \in Withdrawals :
        Exists(w) /\ withdrawal[w].hash # NoHash =>
            /\ recordedFor[withdrawal[w].hash] = w
            /\ PaidTo[withdrawal[w].hash] = withdrawal[w].wallet

\* With no overlap on a withdrawal and no run cut short on its wallet, the
\* money agrees with its status: refunded in full if it is rejected (perhaps
\* more than once), else not at all.
RefundMatchesStatus ==
    \A w \in Withdrawals \ overlapped :
        /\ Exists(w)
        /\ \A r \in Runs : ~On(r, w)
        /\ withdrawal[w].wallet \notin interrupted
        => IF withdrawal[w].status = "REJECTED"
           THEN refunded[w] >= withdrawal[w].amount
           ELSE refunded[w] = 0

\* A withdrawal is a claim on its refund: granted by a rejection, and refused
\* once the payment is COMPLETED.  How often it is refunded does not show: a
\* second rejection pays again.
Stage(w) ==
    CASE withdrawal[w].status = "NONE" -> "none"
      [] withdrawal[w].status = "PENDING" -> "open"
      [] withdrawal[w].status = "REJECTED" -> "granted"
      [] withdrawal[w].status = "COMPLETED" -> "refused"

Astray == {w \in Withdrawals : \/ w \in overlapped
                               \/ Exists(w) /\ withdrawal[w].wallet \in interrupted}

Claim == INSTANCE Settlement WITH
             Claims <- Withdrawals, Reopenable <- {},
             stage <- [w \in Withdrawals |-> Stage(w)],
             given <- [w \in Withdrawals |-> IF refunded[w] > 0 THEN 1 ELSE 0],
             astray <- Astray

\* Through its calls and handlers, a withdrawal is settled as Settlement says:
\* it is refunded before it shows REJECTED, never if it is COMPLETED, and both
\* are final, unless handlers overlap on it or one was cut short on its wallet.
SettledOnce == Claim!Spec
===============================================================================
