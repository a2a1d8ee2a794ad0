----------------------------- MODULE WalletLedger -----------------------------
(***************************************************************************)
(* Wallet rows and their ledger: walletService, walletRepository and       *)
(* ledgerService.createEntry, as every other service of the platform uses  *)
(* them.                                                                   *)
(*                                                                         *)
(* A request runs one operation (credit, debit or transfer) on a Node      *)
(* event loop that interleaves requests at each awaited database call.     *)
(* The code has no transaction here: a balance change is                   *)
(*     find   service reads the row; its balance is the ledger's "before"  *)
(*     reread repository reads the row again by id                         *)
(*     write  repository writes balance and totals computed from reread    *)
(*     ledger createEntry checks before + credit - debit = after, inserts  *)
(* and a transfer runs each stage for its source wallet and then for its   *)
(* destination.  Amounts are integers here: the code converts Decimal      *)
(* columns to numbers and compares with a 0.0001 tolerance.                *)
(***************************************************************************)
EXTENDS Integers

CONSTANTS
    Users,          \* owners of wallets
    Wallets,        \* the wallet rows of the instance, pairs <<user, type>>
    Requests,       \* requests that can be in progress at once
    Amounts,        \* amounts a request may move
    MaxStarts       \* bound: operations started in a behaviour

WalletType == {"PRINCIPAL", "DEPOSIT_BONUS", "REFERRAL", "TRADING_PROFIT",
               "RANK_BONUS", "POOL_BONUS", "ADMIN_COMMISSION"}

ASSUME WalletAssumption == Wallets \subseteq Users \X WalletType
\* The transfer validator and every internal caller pass a positive amount.
ASSUME AmountAssumption == Amounts \subseteq Nat \ {0}
ASSUME StartsAssumption == MaxStarts \in Nat

VARIABLES
    wallet,         \* the wallet rows
    ledger,         \* per wallet, sum of credit - debit over its ledger rows
    op,             \* per request, the operation it runs
    stage,          \* per request, the database call it is about to make
    side,           \* per request, the wallet of op that call is about
    before,         \* per request and side, balance read by the service
    snap,           \* per request, the row read by the repository
    after,          \* per request and side, balance the write returned
    starts,         \* operations started so far (bounded by MaxStarts)
    written,        \* history: per wallet, sums of the amounts written to it
    overlapped,     \* history: wallets on which two operations overlapped
    unledgered      \* history: wallets of operations that moved money and
                    \* stopped before all their ledger rows were written

rows == <<wallet, ledger, written>>
locals == <<op, before, snap, after>>
control == <<stage, side>>
history == <<overlapped, unledgered>>
vars == <<rows, locals, control, starts, history>>

-------------------------------------------------------------------------------
(* Data *)

Side == {"src", "dst"}
Stage == {"idle", "find", "reread", "write", "ledger"}
Row == [balance : Int, totalCredit : Nat, totalDebit : Nat]
NewRow == [balance |-> 0, totalCredit |-> 0, totalDebit |-> 0]

\* ALLOWED_TRANSFERS: four wallet types may be moved, only to PRINCIPAL.
AllowedTransfer(from, to) ==
    /\ from \in {"DEPOSIT_BONUS", "REFERRAL", "TRADING_PROFIT", "RANK_BONUS"}
    /\ to = "PRINCIPAL"

\* A credit or a debit names one wallet, in both fields.
Operation == [kind : {"credit", "debit", "transfer"},
              src : Wallets, dst : Wallets, amt : Amounts]
NoOp == [kind |-> "none"]

\* What a service may ask for.  Credits and debits come from the other
\* services; a transfer is a user's own, between two of their wallets.
Allowed(o) ==
    IF o.kind = "transfer"
    THEN o.src[1] = o.dst[1] /\ AllowedTransfer(o.src[2], o.dst[2])
    ELSE o.src = o.dst

-------------------------------------------------------------------------------
(* Where a request is *)

Active(r) == stage[r] # "idle"
At(r, st, s) == stage[r] = st /\ side[r] = s
HasSide(o, s) == o.kind = "transfer" \/ o.kind = (IF s = "src" THEN "debit" ELSE "credit")
WalletOf(o, s) == IF s = "src" THEN o.src ELSE o.dst
Delta(o, s) == IF s = "src" THEN -o.amt ELSE o.amt
Touches(r, w) == Active(r) /\ w \in {op[r].src, op[r].dst}

\* The source half of a transfer's stage is followed by its destination half.
DstNext(r) == side[r] = "src" /\ op[r].kind = "transfer"
FirstSide(o) == IF o.kind = "credit" THEN "dst" ELSE "src"

\* The request has changed a balance and has ledger rows still to write.
MovedMoney(r) ==
    \/ stage[r] = "ledger"
    \/ op[r].kind = "transfer" /\ side[r] = "dst" /\ stage[r] \in {"reread", "write"}

Goto(r, st, s) ==
    /\ stage' = [stage EXCEPT ![r] = st]
    /\ side' = [side EXCEPT ![r] = s]

\* The request is over; its local variables are gone.
Return(r) ==
    /\ Goto(r, "idle", "src")
    /\ op' = [op EXCEPT ![r] = NoOp]
    /\ before' = [before EXCEPT ![r] = [s \in Side |-> 0]]
    /\ snap' = [snap EXCEPT ![r] = NewRow]
    /\ after' = [after EXCEPT ![r] = [s \in Side |-> 0]]

\* The operation stops here: an exception thrown by this code, a failed
\* database call, or the process dying.  Nothing already written is undone.
Stop(r) ==
    /\ Return(r)
    /\ unledgered' = unledgered \cup
                       (IF MovedMoney(r) THEN {op[r].src, op[r].dst} ELSE {})
    /\ UNCHANGED <<rows, starts, overlapped>>

-------------------------------------------------------------------------------
(* Rows *)

\* Slips of Updated and EntryAddsUp that the properties must notice.  They are
\* not part of the specification.
UpdatedKeepingTotalDebit(row, o, s) ==
    [row EXCEPT !.balance = @ + Delta(o, s),
                !.totalCredit = IF s = "dst" THEN @ + o.amt ELSE @]
UpdatedCreditingRefund(row, o, s) ==
    [row EXCEPT !.balance = @ + Delta(o, s), !.totalCredit = @ + o.amt]
EntryAddsUpUnsigned(r, s) == before[r][s] + op[r].amt = after[r][s]

\* repository.creditWallet and debitWallet, from the row they reread: the
\* balance and the total are both absolute values.
Updated(row, o, s) ==
    [balance     |-> row.balance + Delta(o, s),
     totalCredit |-> IF s = "dst" THEN row.totalCredit + o.amt ELSE row.totalCredit,
     totalDebit  |-> IF s = "src" THEN row.totalDebit + o.amt ELSE row.totalDebit]

\* createEntry's validation of the balances it is given.
EntryAddsUp(r, s) == before[r][s] + Delta(op[r], s) = after[r][s]

-------------------------------------------------------------------------------
(* Steps *)

Start(r, o) ==
    /\ ~Active(r)
    /\ starts < MaxStarts
    /\ Allowed(o)
    /\ op' = [op EXCEPT ![r] = o]
    /\ Goto(r, "find", FirstSide(o))
    /\ starts' = starts + 1
    /\ overlapped' = overlapped \cup
                       {w \in {o.src, o.dst} : \E q \in Requests : Touches(q, w)}
    /\ UNCHANGED <<rows, before, snap, after, unledgered>>

\* The service's balance check, made once the rows it needs are read.
Insufficient(r) ==
    LET balance == IF side[r] = "src" THEN wallet[op[r].src].balance ELSE before[r]["src"]
    IN  op[r].kind # "credit" /\ ~DstNext(r) /\ balance < op[r].amt

\* findByUserIdAndType, and what the service does with the row.
Find(r, s) ==
    /\ At(r, "find", s)
    /\ ~Insufficient(r)
    /\ before' = [before EXCEPT ![r][s] = wallet[WalletOf(op[r], s)].balance]
    /\ IF DstNext(r) THEN Goto(r, "find", "dst") ELSE Goto(r, "reread", FirstSide(op[r]))
    /\ UNCHANGED <<rows, op, snap, after, starts, history>>

RefuseFind(r, s) ==
    /\ At(r, "find", s)
    /\ Insufficient(r)
    /\ Stop(r)

\* The repository's own findById.
Reread(r, s) ==
    /\ At(r, "reread", s)
    /\ snap' = [snap EXCEPT ![r] = wallet[WalletOf(op[r], s)]]
    /\ Goto(r, "write", s)
    /\ UNCHANGED <<rows, op, before, after, starts, history>>

\* updateBalance, computed from the row as it was reread.
Write(r, s) ==
    LET w == WalletOf(op[r], s)
        row == Updated(snap[r], op[r], s)
        field == IF s = "dst" THEN "credit" ELSE "debit"
    IN  /\ At(r, "write", s)
        /\ row.balance >= 0
        /\ wallet' = [wallet EXCEPT ![w] = row]
        /\ written' = [written EXCEPT ![w][field] = @ + op[r].amt]
        /\ after' = [after EXCEPT ![r][s] = row.balance]
        /\ IF DstNext(r) THEN Goto(r, "reread", "dst") ELSE Goto(r, "ledger", FirstSide(op[r]))
        /\ UNCHANGED <<ledger, op, before, snap, starts, history>>

RefuseWrite(r, s) ==
    /\ At(r, "write", s)
    /\ Updated(snap[r], op[r], s).balance < 0
    /\ Stop(r)

\* A slip of Ledger: a transfer's destination entry is forgotten.
LedgerSourceOnly(r, s) ==
    /\ At(r, "ledger", s)
    /\ EntryAddsUp(r, s)
    /\ ledger' = [ledger EXCEPT ![WalletOf(op[r], s)] = @ + Delta(op[r], s)]
    /\ Return(r)
    /\ UNCHANGED <<wallet, written, starts, history>>

\* createEntry.
Ledger(r, s) ==
    LET w == WalletOf(op[r], s)
    IN  /\ At(r, "ledger", s)
        /\ EntryAddsUp(r, s)
        /\ ledger' = [ledger EXCEPT ![w] = @ + Delta(op[r], s)]
        /\ IF DstNext(r)
           THEN Goto(r, "ledger", "dst") /\ UNCHANGED locals
           ELSE Return(r)
        /\ UNCHANGED <<wallet, written, starts, history>>

RefuseLedger(r, s) ==
    /\ At(r, "ledger", s)
    /\ ~EntryAddsUp(r, s)
    /\ Stop(r)

\* A database call of the request fails, or the server dies under it.
Abort(r) ==
    /\ Active(r)
    /\ Stop(r)

-------------------------------------------------------------------------------

Init ==
    /\ wallet = [w \in Wallets |-> NewRow]
    /\ ledger = [w \in Wallets |-> 0]
    /\ op = [r \in Requests |-> NoOp]
    /\ stage = [r \in Requests |-> "idle"]
    /\ side = [r \in Requests |-> "src"]
    /\ before = [r \in Requests |-> [s \in Side |-> 0]]
    /\ snap = [r \in Requests |-> NewRow]
    /\ after = [r \in Requests |-> [s \in Side |-> 0]]
    /\ starts = 0
    /\ written = [w \in Wallets |-> [credit |-> 0, debit |-> 0]]
    /\ overlapped = {}
    /\ unledgered = {}

Step(r) ==
    \/ \E o \in Operation : Start(r, o)
    \/ \E s \in Side : \/ Find(r, s)
                       \/ RefuseFind(r, s)
                       \/ Reread(r, s)
                       \/ Write(r, s)
                       \/ RefuseWrite(r, s)
                       \/ Ledger(r, s)
                       \/ RefuseLedger(r, s)
    \/ Abort(r)

Next == \E r \in Requests : Step(r)

Spec == Init /\ [][Next]_vars

-------------------------------------------------------------------------------
(* Properties *)

\* Types of the variables; a running request has a well-formed operation.
TypeOK ==
    /\ wallet \in [Wallets -> Row]
    /\ ledger \in [Wallets -> Int]
    /\ op \in [Requests -> Operation \cup {NoOp}]
    /\ stage \in [Requests -> Stage]
    /\ side \in [Requests -> Side]
    /\ before \in [Requests -> [Side -> Int]]
    /\ snap \in [Requests -> Row]
    /\ after \in [Requests -> [Side -> Int]]
    /\ starts \in 0..MaxStarts
    /\ written \in [Wallets -> [credit : Nat, debit : Nat]]
    /\ overlapped \subseteq Wallets
    /\ unledgered \subseteq Wallets

\* However requests interleave or stop, a stored row is consistent in itself:
\* its balance is never negative (DATABASE_DESIGN.md: "balance must be >= 0")
\* and is its lifetime credits less its lifetime debits, although balance and
\* totals are rewritten from a row that may have changed since it was read.
RowConsistent ==
    \A w \in Wallets :
        /\ wallet[w].balance >= 0
        /\ wallet[w].balance = wallet[w].totalCredit - wallet[w].totalDebit

\* A lost update is missing from the lifetime totals of its row: they never
\* exceed the amounts that requests wrote to it, and equal them as long as no
\* two operations on the wallet overlapped.  (The balance may be wrong either
\* way: when it is a debit that is lost, its amount is there to be spent again.)
TotalsAccountForWrites ==
    \A w \in Wallets :
        /\ wallet[w].totalCredit <= written[w].credit
        /\ wallet[w].totalDebit <= written[w].debit
        /\ w \notin overlapped =>
               /\ wallet[w].totalCredit = written[w].credit
               /\ wallet[w].totalDebit = written[w].debit

\* Both together: whatever is lost, no row claims what was not written to it.
RowsAccountForWrites == RowConsistent /\ TotalsAccountForWrites

\* A wallet on which no two operations overlapped, and on which none stopped
\* between its balance change and its ledger rows, is fully accounted for as
\* soon as no operation is running on it: its ledger rows add up to its balance.
LedgerMatchesUndisturbed ==
    \A w \in Wallets \ (overlapped \cup unledgered) :
        (\A r \in Requests : ~Touches(r, w)) => ledger[w] = wallet[w].balance

\* createEntry's balance check is not a false alarm: it refuses an entry only
\* for a wallet on which operations overlapped.
EntryRefusedOnlyAfterOverlap ==
    \A r \in Requests, s \in Side :
        At(r, "ledger", s) /\ ~EntryAddsUp(r, s) => WalletOf(op[r], s) \in overlapped

\* Both together: entries are refused for a reason, and otherwise add up.
EntriesTellBalances == LedgerMatchesUndisturbed /\ EntryRefusedOnlyAfterOverlap

\* What an operation adds to its wallets, and those it is yet to be entered on.
Effect(o) ==
    [w \in {o.src, o.dst} |-> IF HasSide(o, "dst") /\ w = o.dst THEN o.amt ELSE -o.amt]
Entered(r, w) ==
    op[r].kind = "transfer" /\ At(r, "ledger", "dst") /\ w = op[r].src
Asked(w) == {Effect(op[r]) : r \in {q \in Requests : Touches(q, w) /\ ~Entered(q, w)}}

Books == INSTANCE Bookkeeping WITH
             Accounts <- Wallets,
             balance <- [w \in Wallets |-> wallet[w].balance],
             entered <- ledger,
             asked <- [w \in Wallets |-> Asked(w)],
             astray <- overlapped \cup unledgered

\* Through all their calls, undisturbed operations keep the books: each moves
\* its amount once, a transfer takes before it gives and moves all before any
\* entry is made, an entry explains just the change, and an operation that is
\* refused has changed nothing on either of its wallets.
BooksAreKept == Books!Spec
===============================================================================
