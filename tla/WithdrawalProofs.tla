---------------------------- MODULE WithdrawalProofs ----------------------------
(***************************************************************************)
(* Theorems about Withdrawal, for any number of withdrawals, wallets,      *)
(* hashes and handlers.                                                    *)
(*                                                                         *)
(* SoundInv holds whatever overlaps: types, what a handler may rely on at  *)
(* each of its calls, and that a recorded hash backs its withdrawal.       *)
(* OrderInv is about a withdrawal on which no two handlers overlapped: the *)
(* next call of its one handler tells what has been refunded.  RaceInv is  *)
(* about a wallet on which no change overlapped another's write: what was  *)
(* read for the write is still there.  MoneyInv adds up what each wallet   *)
(* has received, holds, has in withdrawals, has with handlers, and has     *)
(* displaced.                                                              *)
(***************************************************************************)
EXTENDS Withdrawal, FiniteSetTheorems, TLAPS

(* ---------------------------------------------------------------------- *)
(* What holds whatever overlaps                                           *)

CreateCalls == {"debit", "debitReread", "debitWrite", "net", "fee", "penalty", "insert"}
PayCalls == {"read", "lookup", "record", "complete"}
RejectCalls == {"check", "refund", "refundReread", "refundWrite", "refundEntry", "rejected"}
Calls == CreateCalls \cup PayCalls \cup RejectCalls

\* What a handler has secured at each of its calls.
SoundRun(r) ==
    LET pc == run[r].pc
        w == run[r].wd
    IN  /\ pc \in CreateCalls => ~ Exists(w) /\ run[r].amount >= 1
        /\ pc = "debitWrite" => run[r].was >= run[r].amount
        /\ pc \in PayCalls \cup RejectCalls => Exists(w) /\ run[r].wallet = withdrawal[w].wallet
        /\ pc \in PayCalls => run[r].hash \in Hashes
        /\ pc \in RejectCalls => run[r].amount = withdrawal[w].amount
        /\ pc = "complete" => recordedFor[run[r].hash] = w /\ PaidTo[run[r].hash] = run[r].wallet

\* The withdrawal a handler creates is known to no other handler.
SoleCreator ==
    \A r, s \in Runs :
        run[r].pc \in CreateCalls /\ run[s].pc \in CreateCalls /\ run[r].wd = run[s].wd => r = s

SoundRow(w) ==
    /\ Exists(w) =>
           /\ withdrawal[w].amount >= 1
           /\ withdrawal[w].hash # NoHash =>
                  /\ recordedFor[withdrawal[w].hash] = w
                  /\ PaidTo[withdrawal[w].hash] = withdrawal[w].wallet
    /\ ~ Exists(w) => refunded[w] = 0

SoundInv ==
    /\ TypeOK
    /\ SoleCreator
    /\ \A r \in Runs : SoundRun(r)
    /\ \A w \in Withdrawals : SoundRow(w)

LEMMA IdleCalls == "idle" \notin Calls /\ Idle.pc = "idle"
  BY DEF Idle, Calls, CreateCalls, PayCalls, RejectCalls

LEMMA InitSound == Init => SoundInv
  BY WalletAssumption, BoundAssumption
     DEF Init, SoundInv, TypeOK, SoleCreator, SoundRun, SoundRow, Exists, Idle, NoRow,
         CreateCalls, PayCalls, RejectCalls

\* The call a handler is about to make tells whether it is in progress.
LEMMA Kinds ==
    ASSUME TypeOK, NEW r \in Runs
    PROVE  /\ run[r] # Idle => run[r] \in RunState /\ run[r].pc \in Calls /\ run[r].wd \in Withdrawals
           /\ run[r].pc \in Calls => run[r] # Idle
           /\ run[r] \in RunState \cup {Idle}
           /\ \A w : On(r, w) <=> run[r].pc \in Calls /\ run[r].wd = w
  <1>1. run[r] \in RunState \cup {Idle}
    BY DEF TypeOK
  <1>2. run[r] = Idle => run[r].pc \notin Calls
    BY IdleCalls
  <1>3. run[r] \in RunState => run[r].pc \in Calls /\ run[r].wd \in Withdrawals
    BY DEF RunState, Calls, CreateCalls, PayCalls, RejectCalls
  <1> QED
    BY <1>1, <1>2, <1>3 DEF On

\* What is known of a handler in progress.
LEMMA Running ==
    ASSUME SoundInv, NEW r \in Runs, run[r].pc \in Calls
    PROVE  /\ run[r] # Idle /\ run[r] \in RunState /\ SoundRun(r)
           /\ run[r].wd \in Withdrawals /\ run[r].wallet \in Wallets /\ run[r].amount \in Nat
           /\ run[r].early \in BOOLEAN /\ run[r].hash \in Hashes \cup {NoHash}
           /\ balance[run[r].wallet] \in Nat /\ ledger[run[r].wallet] \in Int
           /\ refunded[run[r].wd] \in Nat
           /\ run[r].found \in Nat /\ run[r].was \in Nat /\ displaced[run[r].wallet] \in Int
  <1>1. run[r] # Idle /\ run[r] \in RunState /\ SoundRun(r)
    BY Kinds DEF SoundInv
  <1>2. /\ run[r].wd \in Withdrawals /\ run[r].wallet \in Wallets /\ run[r].amount \in Nat
        /\ run[r].early \in BOOLEAN /\ run[r].hash \in Hashes \cup {NoHash}
        /\ run[r].found \in Nat /\ run[r].was \in Nat
    BY <1>1 DEF RunState
  <1> QED
    BY <1>1, <1>2 DEF SoundInv, TypeOK

LEMMA ExistingRow ==
    ASSUME TypeOK, NEW w \in Withdrawals, Exists(w)
    PROVE  /\ withdrawal[w] \in Row /\ withdrawal[w].status \in {"PENDING", "COMPLETED", "REJECTED"}
           /\ withdrawal[w].wallet \in Wallets /\ withdrawal[w].amount \in Nat
           /\ withdrawal[w].hash \in Hashes \cup {NoHash}
  BY DEF TypeOK, Exists, Row

\* The platform's parts are integers.
LEMMA PartsAreNumbers ==
    ASSUME SoundInv, NEW r \in Runs, run[r].pc \in Calls
    PROVE  Fee(run[r].amount) \in Int /\ Penalty(r) \in Int /\ Net(r) \in Int
  <1>1. run[r].amount \in Nat
    BY Running
  <1>2. Fee(run[r].amount) \in Int /\ Penalty(r) \in Int
    BY <1>1 DEF Fee, Penalty
  <1> QED
    BY <1>1, <1>2 DEF Net

\* Handler r goes on to its call pc; what it works on stays the same.
GoesOn(r, pc) ==
    /\ run' \in [Runs -> RunState \cup {Idle}]
    /\ \A s \in Runs \ {r} : run'[s] = run[s]
    /\ run'[r].pc = pc /\ run'[r].wd = run[r].wd /\ run'[r].wallet = run[r].wallet
    /\ run'[r].amount = run[r].amount /\ run'[r].early = run[r].early
    /\ run'[r].hash = run[r].hash

\* A handler that goes on may keep what it has just read of the balance.
LEMMA RunKeeps ==
    ASSUME TypeOK, NEW r \in Runs, run[r].pc \in Calls, NEW pc \in Calls,
           NEW found \in Nat, NEW was \in Nat,
           NEW q, q = [run[r] EXCEPT !.pc = pc, !.found = found, !.was = was],
           run' = [run EXCEPT ![r] = q]
    PROVE  GoesOn(r, pc) /\ run'[r].found = found /\ run'[r].was = was
  <1>1. run[r] \in RunState
    BY Kinds
  <1>2. /\ q \in RunState /\ q.pc = pc /\ q.wd = run[r].wd /\ q.wallet = run[r].wallet
        /\ q.amount = run[r].amount /\ q.early = run[r].early /\ q.hash = run[r].hash
        /\ q.found = found /\ q.was = was
    BY <1>1 DEF RunState, Calls, CreateCalls, PayCalls, RejectCalls
  <1>3. run'[r] = q /\ \A s \in Runs \ {r} : run'[s] = run[s]
    BY DEF TypeOK
  <1>4. run' \in [Runs -> RunState \cup {Idle}]
    BY <1>2 DEF TypeOK
  <1> QED
    BY <1>2, <1>3, <1>4 DEF GoesOn

\* Continue changes nothing but the next call.
LEMMA ContinueKeeps ==
    ASSUME TypeOK, NEW r \in Runs, run[r].pc \in Calls, NEW pc \in Calls, Continue(r, pc)
    PROVE  /\ GoesOn(r, pc) /\ run'[r].found = run[r].found /\ run'[r].was = run[r].was
           /\ run' \in [Runs -> RunState \cup {Idle}]
           /\ \A s \in Runs \ {r} : run'[s] = run[s]
           /\ run'[r].pc = pc /\ run'[r].wd = run[r].wd /\ run'[r].wallet = run[r].wallet
           /\ run'[r].amount = run[r].amount /\ run'[r].early = run[r].early
           /\ run'[r].hash = run[r].hash
  <1>1. run[r] \in RunState
    BY Kinds
  <1>2. PICK f \in Nat, b \in Nat : f = run[r].found /\ b = run[r].was
    BY <1>1 DEF RunState
  <1>3. PICK q : q = [run[r] EXCEPT !.pc = pc, !.found = f, !.was = b]
    OBVIOUS
  <1>4. run' = [run EXCEPT ![r] = q]
    BY <1>1, <1>2, <1>3 DEF Continue, RunState
  <1>5. GoesOn(r, pc) /\ run'[r].found = f /\ run'[r].was = b
    BY <1>3, <1>4, RunKeeps
  <1> QED
    BY <1>2, <1>5 DEF GoesOn

\* Reread keeps the balance it reads.
LEMMA RereadKeeps ==
    ASSUME TypeOK, NEW r \in Runs, run[r].pc \in Calls, NEW pc \in Calls, Reread(r, pc)
    PROVE  /\ GoesOn(r, pc) /\ run'[r].found = run[r].found
           /\ run'[r].was = balance[run[r].wallet] /\ raced' \subseteq Wallets
  <1>1. run[r] \in RunState /\ run[r].found \in Nat /\ run[r].wallet \in Wallets
    BY Kinds DEF RunState
  <1>2. PICK f \in Nat, b \in Nat : f = run[r].found /\ b = balance[run[r].wallet]
    BY <1>1 DEF TypeOK
  <1>3. PICK q : q = [run[r] EXCEPT !.pc = pc, !.found = f, !.was = b]
    OBVIOUS
  <1>4. run' = [run EXCEPT ![r] = q]
    BY <1>1, <1>2, <1>3 DEF Reread, RunState
  <1>5. GoesOn(r, pc) /\ run'[r].found = f /\ run'[r].was = b
    BY <1>3, <1>4, RunKeeps
  <1>6. raced' \subseteq Wallets
    BY <1>1 DEF Reread, TypeOK
  <1> QED
    BY <1>2, <1>5, <1>6

\* A refund starts with what walletService finds.
LEMMA RefundKeeps ==
    ASSUME TypeOK, NEW r \in Runs, Refund(r)
    PROVE  /\ run[r].pc = "refund" /\ run[r].pc \in Calls /\ "refundReread" \in Calls
           /\ GoesOn(r, "refundReread") /\ run'[r].found = balance[run[r].wallet]
           /\ UNCHANGED <<rows, money, counters, history>>
  <1>1. run[r].pc = "refund" /\ run[r].pc \in Calls /\ "refundReread" \in Calls
    BY DEF Refund, At, Calls, RejectCalls
  <1>2. run[r] \in RunState /\ run[r].was \in Nat /\ run[r].wallet \in Wallets
    BY <1>1, Kinds DEF RunState
  <1>3. PICK f \in Nat, b \in Nat : f = balance[run[r].wallet] /\ b = run[r].was
    BY <1>2 DEF TypeOK
  <1>4. PICK q : q = [run[r] EXCEPT !.pc = "refundReread", !.found = f, !.was = b]
    OBVIOUS
  <1>5. run' = [run EXCEPT ![r] = q]
    BY <1>2, <1>3, <1>4 DEF Refund, RunState
  <1>6. GoesOn(r, "refundReread") /\ run'[r].found = f
    BY <1>1, <1>4, <1>5, RunKeeps
  <1> QED
    BY <1>1, <1>3, <1>6 DEF Refund

LEMMA EndKeeps ==
    ASSUME TypeOK, NEW r \in Runs, End(r)
    PROVE  /\ run' \in [Runs -> RunState \cup {Idle}]
           /\ run'[r] = Idle /\ run'[r].pc = "idle"
           /\ \A s \in Runs \ {r} : run'[s] = run[s]
  BY IdleCalls DEF End, TypeOK

LEMMA CreatorAlone ==
    ASSUME SoundInv, NEW r \in Runs, run[r].pc \in CreateCalls, NEW s \in Runs, s # r,
           run[s].pc \in Calls
    PROVE  run[s].wd # run[r].wd
  <1>1. ~ Exists(run[r].wd)
    BY DEF SoundInv, SoundRun
  <1>2. CASE run[s].pc \in CreateCalls
    BY <1>2 DEF SoundInv, SoleCreator
  <1>3. CASE run[s].pc \in PayCalls \cup RejectCalls
    BY <1>1, <1>3 DEF SoundInv, SoundRun
  <1> QED
    BY <1>2, <1>3 DEF Calls

\* A step of handler r alone, which keeps what the others rely on.
LEMMA StepStaysSound ==
    ASSUME SoundInv, TypeOK', NEW r \in Runs,
           \A s \in Runs \ {r} : run'[s] = run[s],
           SoundRun(r)',
           run'[r].pc \in CreateCalls =>
               \A s \in Runs \ {r} : run[s].pc \in Calls => run[s].wd # run'[r].wd,
           \A w \in Withdrawals : Exists(w) =>
               /\ Exists(w)' /\ withdrawal'[w].wallet = withdrawal[w].wallet
               /\ withdrawal'[w].amount = withdrawal[w].amount,
           \A w \in Withdrawals : ~ Exists(w) /\ Exists(w)' =>
               \A s \in Runs \ {r} : run[s].pc \in Calls => run[s].wd # w,
           \A h \in Hashes : Recorded(h) => recordedFor'[h] = recordedFor[h],
           \A w \in Withdrawals : SoundRow(w)'
    PROVE  SoundInv'
  <1>1. SoleCreator'
    BY DEF SoundInv, SoleCreator, Calls
  <1>2. ASSUME NEW s \in Runs \ {r}
        PROVE  SoundRun(s)'
    <2>1. CASE run[s].pc \notin Calls
      BY <1>2, <2>1 DEF SoundRun, Calls, CreateCalls, PayCalls
    <2>2. CASE run[s].pc \in Calls
      <3>1. PICK w : w = run[s].wd
        OBVIOUS
      <3>2. PICK h : h = run[s].hash
        OBVIOUS
      <3>3. SoundRun(s) /\ w \in Withdrawals /\ run'[s] = run[s]
        BY <1>2, <2>2, <3>1, Running
      <3>4. run[s].pc \in CreateCalls => ~ Exists(w)' /\ run[s].amount >= 1
        BY <2>2, <3>1, <3>3 DEF SoundRun
      <3>5. run[s].pc \in PayCalls \cup RejectCalls =>
                /\ Exists(w)' /\ run[s].wallet = withdrawal'[w].wallet
                /\ withdrawal'[w].amount = withdrawal[w].amount
        BY <3>1, <3>3 DEF SoundRun
      <3>6. run[s].pc \in PayCalls => h \in Hashes
        BY <3>1, <3>2, <3>3 DEF SoundRun
      <3>7. run[s].pc \in RejectCalls => run[s].amount = withdrawal'[w].amount
        BY <3>1, <3>3, <3>5 DEF SoundRun
      <3>8. run[s].pc = "complete" => recordedFor'[h] = w /\ PaidTo[h] = run[s].wallet
        <4> SUFFICES ASSUME run[s].pc = "complete"
                     PROVE  recordedFor'[h] = w /\ PaidTo[h] = run[s].wallet
          OBVIOUS
        <4>1. recordedFor[h] = w /\ PaidTo[h] = run[s].wallet
          BY <3>1, <3>2, <3>3 DEF SoundRun
        <4>2. h \in Hashes /\ Recorded(h)
          BY <3>3, <3>6, <4>1, NameAssumption DEF PayCalls, Recorded
        <4> QED
          BY <4>1, <4>2
      <3>9. run'[s].wd = w /\ run'[s].hash = h
        BY <3>1, <3>2, <3>3
      <3> QED
        BY <3>3, <3>4, <3>5, <3>6, <3>7, <3>8, <3>9 DEF SoundRun
    <2> QED
      BY <2>1, <2>2
  <1> QED
    BY <1>1, <1>2 DEF SoundInv

LEMMA KindsApart ==
    /\ \A pc \in CreateCalls : pc \notin PayCalls /\ pc \notin RejectCalls
    /\ \A pc \in PayCalls : pc \notin RejectCalls
    /\ \A pc \in Calls : pc \in CreateCalls \cup PayCalls \cup RejectCalls
  BY DEF Calls, CreateCalls, PayCalls, RejectCalls

SameKind(a, b) ==
    /\ a \in CreateCalls <=> b \in CreateCalls
    /\ a \in PayCalls <=> b \in PayCalls
    /\ a \in RejectCalls <=> b \in RejectCalls

\* A handler goes on; the rows stay as they are.
LEMMA GoesOnSound ==
    ASSUME SoundInv, TypeOK', NEW r \in Runs, run[r].pc \in Calls, NEW pc \in Calls,
           GoesOn(r, pc), SameKind(pc, run[r].pc), pc # "complete", UNCHANGED rows,
           pc = "debitWrite" => run'[r].was >= run'[r].amount,
           \A w \in Withdrawals : ~ Exists(w) => refunded'[w] = refunded[w]
    PROVE  SoundInv'
  <1>1. PICK w : w = run[r].wd
    OBVIOUS
  <1>2. /\ run'[r].pc = pc /\ run'[r].wd = w /\ run'[r].wallet = run[r].wallet
        /\ run'[r].amount = run[r].amount /\ run'[r].hash = run[r].hash
        /\ \A s \in Runs \ {r} : run'[s] = run[s]
    BY <1>1 DEF GoesOn
  <1>3. SoundRun(r) /\ w \in Withdrawals
    BY <1>1, Running
  <1>4. SoundRun(r)'
    BY <1>1, <1>2, <1>3 DEF SoundRun, SameKind, Exists, rows
  <1>5. run'[r].pc \in CreateCalls =>
            \A s \in Runs \ {r} : run[s].pc \in Calls => run[s].wd # run'[r].wd
    BY <1>1, <1>2, CreatorAlone DEF SameKind
  <1>6. \A v \in Withdrawals : SoundRow(v)'
    BY DEF SoundInv, SoundRow, Exists, rows
  <1> QED
    BY <1>2, <1>4, <1>5, <1>6, StepStaysSound DEF Exists, rows

\* A handler ends.
LEMMA EndsSound ==
    ASSUME SoundInv, TypeOK', NEW r \in Runs, run'[r] = Idle,
           \A s \in Runs \ {r} : run'[s] = run[s],
           \A w \in Withdrawals : Exists(w) =>
               /\ Exists(w)' /\ withdrawal'[w].wallet = withdrawal[w].wallet
               /\ withdrawal'[w].amount = withdrawal[w].amount,
           \A w \in Withdrawals : ~ Exists(w) /\ Exists(w)' =>
               \A s \in Runs \ {r} : run[s].pc \in Calls => run[s].wd # w,
           recordedFor' = recordedFor,
           \A w \in Withdrawals : SoundRow(w)'
    PROVE  SoundInv'
  <1>1. run'[r].pc \notin Calls
    BY IdleCalls
  <1>2. SoundRun(r)'
    BY <1>1 DEF SoundRun, Calls, CreateCalls, PayCalls
  <1>3. run'[r].pc \notin CreateCalls
    BY <1>1 DEF Calls
  <1> QED
    BY <1>2, <1>3, StepStaysSound

\* The checks of a handler: they write nothing.
LEMMA PlainStepsSound ==
    ASSUME SoundInv, NEW r \in Runs, Debit(r) \/ Read(r) \/ Lookup(r) \/ Check(r) \/ Refund(r)
    PROVE  SoundInv'
  <1>1. UNCHANGED <<rows, money, counters, history>>
    BY DEF Debit, Read, Lookup, Check, Refund
  <1>2. PICK pc \in Calls :
            /\ GoesOn(r, pc) /\ run[r].pc \in Calls
            /\ SameKind(pc, run[r].pc) /\ pc # "complete" /\ pc # "debitWrite"
    <2>1. CASE Refund(r)
      BY <2>1, RefundKeeps DEF SoundInv, SameKind, CreateCalls, PayCalls, RejectCalls
    <2>2. CASE Debit(r) \/ Read(r) \/ Lookup(r) \/ Check(r)
      <3>1. PICK pc \in Calls :
                /\ Continue(r, pc) /\ run[r].pc \in Calls
                /\ SameKind(pc, run[r].pc) /\ pc # "complete" /\ pc # "debitWrite"
        BY <2>2 DEF Debit, Read, Lookup, Check, At, SameKind, Calls, CreateCalls, PayCalls, RejectCalls
      <3> QED
        BY <3>1, ContinueKeeps DEF SoundInv
    <2> QED
      BY <2>1, <2>2
  <1>3. TypeOK'
    BY <1>1, <1>2 DEF GoesOn, SoundInv, TypeOK, rows, money, races, counters, history
  <1> QED
    BY <1>1, <1>2, <1>3, GoesOnSound DEF money

\* A debit that goes on to its write has read enough.
LEMMA RereadsSound ==
    ASSUME SoundInv, NEW r \in Runs, DebitReread(r) \/ RefundReread(r)
    PROVE  SoundInv'
  <1>1. UNCHANGED <<rows, balance, ledger, refunded, displaced, counters, history>>
    BY DEF DebitReread, RefundReread
  <1>2. PICK pc \in Calls :
            /\ Reread(r, pc) /\ run[r].pc \in Calls
            /\ SameKind(pc, run[r].pc) /\ pc # "complete"
            /\ pc = "debitWrite" => balance[run[r].wallet] >= run[r].amount
    BY DEF DebitReread, RefundReread, At, SameKind, Calls, CreateCalls, PayCalls, RejectCalls
  <1>3. /\ GoesOn(r, pc) /\ run'[r].was = balance[run[r].wallet] /\ run'[r].amount = run[r].amount
        /\ raced' \subseteq Wallets
    BY <1>2, RereadKeeps DEF SoundInv, GoesOn
  <1>4. TypeOK'
    BY <1>1, <1>3 DEF GoesOn, SoundInv, TypeOK, rows, counters, history
  <1> QED
    BY <1>1, <1>2, <1>3, <1>4, GoesOnSound

\* What a write changes of the wallets.
LEMMA WriteKeeps ==
    ASSUME SoundInv, NEW r \in Runs, run[r].pc \in Calls, NEW x, x = run[r].wallet,
           NEW new \in Nat, WriteBalance(r, new)
    PROVE  /\ balance' \in [Wallets -> Nat] /\ balance'[x] = new
           /\ \A y \in Wallets \ {x} : balance'[y] = balance[y]
           /\ displaced' \in [Wallets -> Int]
           /\ displaced'[x] = displaced[x] + run[r].was - balance[x]
           /\ \A y \in Wallets \ {x} : displaced'[y] = displaced[y]
           /\ UNCHANGED raced
  <1>1. x \in Wallets /\ balance[x] \in Nat /\ displaced[x] \in Int /\ run[r].was \in Nat
    BY Running
  <1> QED
    BY <1>1 DEF WriteBalance, SoundInv, TypeOK

LEMMA EntriesSound ==
    ASSUME SoundInv, NEW r \in Runs,
           NetEntry(r) \/ FeeEntry(r) \/ PenaltyEntry(r) \/ RefundEntry(r)
    PROVE  SoundInv'
  <1>1. UNCHANGED <<rows, balance, refunded, races, counters, history>>
    BY DEF NetEntry, FeeEntry, PenaltyEntry, RefundEntry
  <1>2. PICK pc \in Calls :
            /\ Continue(r, pc) /\ run[r].pc \in Calls
            /\ SameKind(pc, run[r].pc) /\ pc # "complete" /\ pc # "debitWrite"
    <2>1. CASE FeeEntry(r)
      <3>1. PICK pc \in {"penalty", "insert"} : Continue(r, pc)
        BY <2>1 DEF FeeEntry
      <3>2. pc \in Calls /\ run[r].pc = "fee" /\ run[r].pc \in Calls /\ SameKind(pc, run[r].pc)
        BY <2>1, <3>1 DEF FeeEntry, At, SameKind, Calls, CreateCalls, PayCalls, RejectCalls
      <3> QED
        BY <3>1, <3>2
    <2>2. CASE NetEntry(r) \/ PenaltyEntry(r) \/ RefundEntry(r)
      BY <2>2 DEF NetEntry, PenaltyEntry, RefundEntry, At, SameKind, Calls, CreateCalls,
                  PayCalls, RejectCalls
    <2> QED
      BY <2>1, <2>2
  <1>3. GoesOn(r, pc) /\ run' \in [Runs -> RunState \cup {Idle}]
    BY <1>2, ContinueKeeps DEF SoundInv
  <1>4. ledger' \in [Wallets -> Int]
    <2>1. PICK x : x = run[r].wallet
      OBVIOUS
    <2>2. x \in Wallets /\ ledger[x] \in Int /\ run[r].amount \in Int
      BY <1>2, <2>1, Running
    <2>3. PICK n \in Int : ledger' = [ledger EXCEPT ![x] = @ + n]
      <3>1. CASE NetEntry(r)
        <4>1. Net(r) \in Int /\ ledger' = [ledger EXCEPT ![x] = @ - Net(r)]
          BY <1>2, <2>1, <3>1, PartsAreNumbers DEF NetEntry
        <4>2. -Net(r) \in Int /\ ledger[x] - Net(r) = ledger[x] + (-Net(r))
          BY <2>2, <4>1
        <4> QED
          BY <4>1, <4>2
      <3>2. CASE FeeEntry(r)
        <4>1. PICK f \in Int : f = Fee(run[r].amount)
          BY <1>2, PartsAreNumbers
        <4>2. ledger' = [ledger EXCEPT ![x] = @ - f]
          BY <2>1, <3>2, <4>1 DEF FeeEntry
        <4>3. -f \in Int /\ ledger[x] - f = ledger[x] + (-f)
          BY <2>2
        <4> QED
          BY <4>2, <4>3
      <3>3. CASE PenaltyEntry(r)
        <4>1. PICK f \in Int : f = Penalty(r)
          BY <1>2, PartsAreNumbers
        <4>2. ledger' = [ledger EXCEPT ![x] = @ - f]
          BY <2>1, <3>3, <4>1 DEF PenaltyEntry
        <4>3. -f \in Int /\ ledger[x] - f = ledger[x] + (-f)
          BY <2>2
        <4> QED
          BY <4>2, <4>3
      <3>4. CASE RefundEntry(r)
        BY <2>1, <2>2, <3>4 DEF RefundEntry
      <3> QED
        BY <3>1, <3>2, <3>3, <3>4
    <2> QED
      BY <2>2, <2>3 DEF SoundInv, TypeOK
  <1>5. TypeOK'
    BY <1>1, <1>3, <1>4 DEF SoundInv, TypeOK, rows, races, counters, history
  <1> QED
    BY <1>1, <1>2, <1>3, <1>5, GoesOnSound

LEMMA DebitSound ==
    ASSUME SoundInv, NEW r \in Runs, DebitWrite(r)
    PROVE  SoundInv'
  <1>1. /\ run[r].pc = "debitWrite" /\ run[r].pc \in Calls /\ "net" \in Calls
        /\ SameKind("net", run[r].pc)
    BY DEF DebitWrite, At, SameKind, Calls, CreateCalls, PayCalls, RejectCalls
  <1>2. Continue(r, "net") /\ UNCHANGED <<rows, ledger, refunded, counters, history>>
    BY DEF DebitWrite
  <1>3. GoesOn(r, "net") /\ run' \in [Runs -> RunState \cup {Idle}]
    BY <1>1, <1>2, ContinueKeeps DEF SoundInv
  <1>4. run[r].was - run[r].amount \in Nat
    BY <1>1, Running DEF SoundRun
  <1>5. balance' \in [Wallets -> Nat] /\ displaced' \in [Wallets -> Int] /\ UNCHANGED raced
    BY <1>1, <1>4, WriteKeeps DEF DebitWrite
  <1>6. TypeOK'
    BY <1>2, <1>3, <1>5 DEF SoundInv, TypeOK, rows, counters, history
  <1> QED
    BY <1>1, <1>2, <1>3, <1>6, GoesOnSound

\* What the write of a refund changes.
LEMMA RefundFacts ==
    ASSUME SoundInv, NEW r \in Runs, RefundWrite(r), NEW w, w = run[r].wd
    PROVE  /\ run[r].pc = "refundWrite" /\ run[r].pc \in Calls /\ "refundEntry" \in Calls
           /\ w \in Withdrawals /\ Exists(w) /\ run[r].amount = withdrawal[w].amount
           /\ run[r].amount >= 1 /\ run[r].amount \in Nat /\ refunded[w] \in Nat
           /\ run[r].was + run[r].amount \in Nat
           /\ refunded' \in [Withdrawals -> Nat]
           /\ refunded'[w] = refunded[w] + run[r].amount
           /\ \A v \in Withdrawals \ {w} : refunded'[v] = refunded[v]
           /\ UNCHANGED <<rows, ledger, counters, history>>
           /\ Continue(r, "refundEntry") /\ GoesOn(r, "refundEntry")
           /\ WriteBalance(r, run[r].was + run[r].amount)
  <1>1. /\ run[r].pc = "refundWrite" /\ run[r].pc \in Calls /\ run[r].pc \in RejectCalls
        /\ "refundEntry" \in Calls
    BY DEF RefundWrite, At, Calls, RejectCalls
  <1>2. /\ w \in Withdrawals /\ Exists(w) /\ run[r].amount = withdrawal[w].amount
        /\ run[r].amount \in Nat /\ refunded[w] \in Nat /\ run[r].was + run[r].amount \in Nat
    BY <1>1, Running DEF SoundRun
  <1>3. run[r].amount >= 1
    BY <1>2 DEF SoundInv, SoundRow
  <1>4. /\ refunded' \in [Withdrawals -> Nat] /\ refunded'[w] = refunded[w] + run[r].amount
        /\ \A v \in Withdrawals \ {w} : refunded'[v] = refunded[v]
    BY <1>2 DEF RefundWrite, SoundInv, TypeOK
  <1>5. /\ UNCHANGED <<rows, ledger, counters, history>> /\ Continue(r, "refundEntry")
        /\ WriteBalance(r, run[r].was + run[r].amount)
    BY DEF RefundWrite
  <1>6. GoesOn(r, "refundEntry")
    BY <1>1, <1>5, ContinueKeeps DEF SoundInv
  <1> QED
    BY <1>1, <1>2, <1>3, <1>4, <1>5, <1>6

LEMMA RefundSound ==
    ASSUME SoundInv, NEW r \in Runs, RefundWrite(r)
    PROVE  SoundInv'
  <1>1. PICK w : w = run[r].wd
    OBVIOUS
  <1>2. "refundEntry" \in Calls /\ SameKind("refundEntry", run[r].pc)
    BY <1>1, RefundFacts DEF SameKind, Calls, CreateCalls, PayCalls, RejectCalls
  <1>3. balance' \in [Wallets -> Nat] /\ displaced' \in [Wallets -> Int] /\ UNCHANGED raced
    BY <1>1, RefundFacts, WriteKeeps
  <1>4. TypeOK'
    BY <1>1, <1>3, RefundFacts DEF GoesOn, SoundInv, TypeOK, rows, counters, history
  <1>5. \A v \in Withdrawals : ~ Exists(v) => refunded'[v] = refunded[v]
    BY <1>1, RefundFacts
  <1> QED
    BY <1>1, <1>2, <1>4, <1>5, RefundFacts, GoesOnSound

LEMMA RecordSound ==
    ASSUME SoundInv, NEW r \in Runs, Record(r)
    PROVE  SoundInv'
  <1>1. PICK w, h : w = run[r].wd /\ h = run[r].hash
    OBVIOUS
  <1>2. run[r].pc = "record" /\ run[r].pc \in Calls /\ run[r].pc \in PayCalls /\ "complete" \in Calls
    BY DEF Record, At, Calls, PayCalls
  <1>3. w \in Withdrawals /\ h \in Hashes /\ Exists(w) /\ run[r].wallet = withdrawal[w].wallet
    BY <1>1, <1>2, Running DEF SoundRun
  <1>4. /\ PaidTo[h] = run[r].wallet /\ ~ Recorded(h) /\ Continue(r, "complete")
        /\ recordedFor' = [recordedFor EXCEPT ![h] = w]
        /\ UNCHANGED <<withdrawal, money, counters, history>>
    BY <1>1 DEF Record
  <1>5. /\ run'[r].pc = "complete" /\ run'[r].wd = w /\ run'[r].wallet = run[r].wallet
        /\ run'[r].hash = h
        /\ \A s \in Runs \ {r} : run'[s] = run[s]
        /\ run' \in [Runs -> RunState \cup {Idle}]
    BY <1>1, <1>2, <1>4, ContinueKeeps DEF SoundInv
  <1>6. /\ recordedFor' \in [Hashes -> Withdrawals \cup {"nobody", "other"}]
        /\ recordedFor'[h] = w
        /\ \A g \in Hashes : Recorded(g) => recordedFor'[g] = recordedFor[g]
    BY <1>3, <1>4 DEF SoundInv, TypeOK, Recorded
  <1>7. TypeOK'
    BY <1>4, <1>5, <1>6 DEF SoundInv, TypeOK, money, races, counters, history
  <1>8. SoundRun(r)'
    BY <1>3, <1>4, <1>5, <1>6 DEF SoundRun, Exists, CreateCalls, RejectCalls
  <1>9. ASSUME NEW v \in Withdrawals
        PROVE  SoundRow(v)'
    <2>1. PICK g : g = withdrawal[v].hash
      OBVIOUS
    <2>2. SoundRow(v)
      BY DEF SoundInv
    <2>3. Exists(v) /\ g # NoHash => g \in Hashes
      BY <2>1, ExistingRow DEF SoundInv
    <2>4. Exists(v) /\ g # NoHash => recordedFor'[g] = v
      BY <1>6, <2>1, <2>2, <2>3, NameAssumption DEF SoundRow, Recorded
    <2> QED
      BY <1>4, <2>1, <2>2, <2>4 DEF SoundRow, Exists, money
  <1>10. run'[r].pc \notin CreateCalls
    BY <1>5 DEF CreateCalls
  <1> QED
    BY <1>4, <1>5, <1>6, <1>7, <1>8, <1>9, <1>10, StepStaysSound DEF Exists

\* What an Insert changes.
LEMMA InsertFacts ==
    ASSUME SoundInv, NEW r \in Runs, Insert(r), NEW w, w = run[r].wd
    PROVE  /\ run[r].pc = "insert" /\ run[r].pc \in CreateCalls /\ run[r].pc \in Calls
           /\ w \in Withdrawals /\ ~ Exists(w) /\ Exists(w)'
           /\ withdrawal' \in [Withdrawals -> Row \cup {NoRow}]
           /\ withdrawal'[w].status = "PENDING" /\ withdrawal'[w].wallet = run[r].wallet
           /\ withdrawal'[w].amount = run[r].amount /\ withdrawal'[w].hash = NoHash
           /\ run[r].amount >= 1
           /\ \A v \in Withdrawals \ {w} : withdrawal'[v] = withdrawal[v]
           /\ End(r) /\ UNCHANGED <<recordedFor, money, counters, history>>
  <1>1. run[r].pc = "insert" /\ run[r].pc \in CreateCalls /\ run[r].pc \in Calls
    BY DEF Insert, At, CreateCalls, Calls
  <1>2. /\ w \in Withdrawals /\ run[r].wallet \in Wallets /\ run[r].amount \in Nat
        /\ run[r].amount >= 1 /\ ~ Exists(w)
    BY <1>1, Running DEF SoundRun
  <1>3. PICK row : row = [status |-> "PENDING", wallet |-> run[r].wallet,
                          amount |-> run[r].amount, hash |-> NoHash]
    OBVIOUS
  <1>4. /\ row \in Row /\ row # NoRow
        /\ row.status = "PENDING" /\ row.wallet = run[r].wallet
        /\ row.amount = run[r].amount /\ row.hash = NoHash
    BY <1>2, <1>3 DEF Row, NoRow
  <1>5. withdrawal' = [withdrawal EXCEPT ![w] = row]
    BY <1>3 DEF Insert
  <1>6. /\ withdrawal' \in [Withdrawals -> Row \cup {NoRow}] /\ withdrawal'[w] = row
        /\ \A v \in Withdrawals \ {w} : withdrawal'[v] = withdrawal[v]
    BY <1>2, <1>4, <1>5 DEF SoundInv, TypeOK
  <1>7. Exists(w)'
    BY <1>4, <1>6 DEF Exists
  <1> QED
    BY <1>1, <1>2, <1>4, <1>6, <1>7 DEF Insert

LEMMA InsertSound ==
    ASSUME SoundInv, NEW r \in Runs, Insert(r)
    PROVE  SoundInv'
  <1>1. PICK w : w = run[r].wd
    OBVIOUS
  <1>2. /\ run'[r] = Idle /\ \A s \in Runs \ {r} : run'[s] = run[s]
        /\ run' \in [Runs -> RunState \cup {Idle}]
    BY <1>1, InsertFacts, EndKeeps DEF SoundInv
  <1>3. TypeOK'
    BY <1>1, <1>2, InsertFacts DEF SoundInv, TypeOK, money, races, counters, history
  <1>4. ASSUME NEW v \in Withdrawals
        PROVE  SoundRow(v)' /\ (Exists(v) => v # w)
    <2>1. CASE v = w
      BY <1>1, <2>1, InsertFacts DEF SoundRow
    <2>2. CASE v # w
      <3>1. withdrawal'[v] = withdrawal[v] /\ recordedFor' = recordedFor /\ refunded' = refunded
        BY <1>1, <2>2, InsertFacts DEF money
      <3> QED
        BY <2>2, <3>1 DEF SoundInv, SoundRow, Exists
    <2> QED
      BY <2>1, <2>2
  <1>5. \A v \in Withdrawals : v # w => withdrawal'[v] = withdrawal[v]
    BY <1>1, InsertFacts
  <1>6. \A v \in Withdrawals : Exists(v) =>
            /\ Exists(v)' /\ withdrawal'[v].wallet = withdrawal[v].wallet
            /\ withdrawal'[v].amount = withdrawal[v].amount
    BY <1>4, <1>5 DEF Exists
  <1>7. \A v \in Withdrawals : ~ Exists(v) /\ Exists(v)' =>
            \A s \in Runs \ {r} : run[s].pc \in Calls => run[s].wd # v
    <2>1. \A s \in Runs \ {r} : run[s].pc \in Calls => run[s].wd # w
      BY <1>1, InsertFacts, CreatorAlone
    <2>2. \A v \in Withdrawals : ~ Exists(v) /\ Exists(v)' => v = w
      BY <1>5 DEF Exists
    <2> QED
      BY <2>1, <2>2
  <1>8. recordedFor' = recordedFor
    BY <1>1, InsertFacts
  <1> QED
    BY <1>2, <1>3, <1>4, <1>6, <1>7, <1>8, EndsSound

\* What writing the status of an existing withdrawal changes.
LEMMA StatusFacts ==
    ASSUME SoundInv, NEW r \in Runs, Complete(r) \/ SetRejected(r), NEW w, w = run[r].wd
    PROVE  /\ run[r].pc \in Calls /\ w \in Withdrawals /\ Exists(w) /\ Exists(w)'
           /\ Complete(r) <=> run[r].pc = "complete"
           /\ SetRejected(r) <=> run[r].pc = "rejected"
           /\ withdrawal' \in [Withdrawals -> Row \cup {NoRow}]
           /\ withdrawal'[w].wallet = withdrawal[w].wallet
           /\ withdrawal'[w].amount = withdrawal[w].amount
           /\ Complete(r) => withdrawal'[w].status = "COMPLETED" /\ withdrawal'[w].hash = run[r].hash
           /\ SetRejected(r) =>
                  withdrawal'[w].status = "REJECTED" /\ withdrawal'[w].hash = withdrawal[w].hash
           /\ \A v \in Withdrawals \ {w} : withdrawal'[v] = withdrawal[v]
           /\ End(r) /\ UNCHANGED <<recordedFor, money, counters, history>>
  <1>1. /\ run[r].pc \in Calls /\ run[r].pc \in PayCalls \cup RejectCalls
        /\ Complete(r) <=> run[r].pc = "complete"
        /\ SetRejected(r) <=> run[r].pc = "rejected"
        /\ End(r) /\ UNCHANGED <<recordedFor, money, counters, history>>
    BY DEF Complete, SetRejected, At, Calls, PayCalls, RejectCalls
  <1>2. w \in Withdrawals /\ Exists(w)
    BY <1>1, Running DEF SoundRun
  <1>3. withdrawal[w] \in Row /\ withdrawal \in [Withdrawals -> Row \cup {NoRow}]
    BY <1>2, ExistingRow DEF SoundInv, TypeOK
  <1>4. CASE Complete(r)
    <2>1. run[r].hash \in Hashes
      BY <1>1, <1>4, Running DEF SoundRun, PayCalls
    <2>2. /\ withdrawal'[w] = [withdrawal[w] EXCEPT !.status = "COMPLETED", !.hash = run[r].hash]
          /\ \A v \in Withdrawals \ {w} : withdrawal'[v] = withdrawal[v]
      BY <1>2, <1>3, <1>4 DEF Complete
    <2>3. /\ withdrawal'[w] \in Row /\ withdrawal'[w].status = "COMPLETED"
          /\ withdrawal'[w].hash = run[r].hash
          /\ withdrawal'[w].wallet = withdrawal[w].wallet
          /\ withdrawal'[w].amount = withdrawal[w].amount
      BY <1>3, <2>1, <2>2 DEF Row
    <2>4. withdrawal' \in [Withdrawals -> Row \cup {NoRow}]
      BY <1>2, <1>3, <1>4, <2>3 DEF Complete
    <2>5. Exists(w)'
      BY <2>3 DEF Exists, Row, NoRow
    <2> QED
      BY <1>1, <1>2, <1>4, <2>2, <2>3, <2>4, <2>5
  <1>5. CASE SetRejected(r)
    <2>1. /\ withdrawal'[w] = [withdrawal[w] EXCEPT !.status = "REJECTED"]
          /\ \A v \in Withdrawals \ {w} : withdrawal'[v] = withdrawal[v]
      BY <1>2, <1>3, <1>5 DEF SetRejected
    <2>2. /\ withdrawal'[w] \in Row /\ withdrawal'[w].status = "REJECTED"
          /\ withdrawal'[w].hash = withdrawal[w].hash
          /\ withdrawal'[w].wallet = withdrawal[w].wallet
          /\ withdrawal'[w].amount = withdrawal[w].amount
      BY <1>3, <2>1 DEF Row
    <2>3. withdrawal' \in [Withdrawals -> Row \cup {NoRow}]
      BY <1>2, <1>3, <1>5, <2>2 DEF SetRejected
    <2>4. Exists(w)'
      BY <2>2 DEF Exists, Row, NoRow
    <2> QED
      BY <1>1, <1>2, <1>5, <2>1, <2>2, <2>3, <2>4
  <1> QED
    BY <1>4, <1>5

LEMMA StatusSound ==
    ASSUME SoundInv, NEW r \in Runs, Complete(r) \/ SetRejected(r)
    PROVE  SoundInv'
  <1>1. PICK w : w = run[r].wd
    OBVIOUS
  <1>2. /\ run'[r] = Idle /\ \A s \in Runs \ {r} : run'[s] = run[s]
        /\ run' \in [Runs -> RunState \cup {Idle}]
    BY <1>1, StatusFacts, EndKeeps DEF SoundInv
  <1>3. TypeOK'
    BY <1>1, <1>2, StatusFacts DEF SoundInv, TypeOK, money, races, counters, history
  <1>4. recordedFor' = recordedFor /\ refunded' = refunded
    BY <1>1, StatusFacts DEF money
  <1>5. SoundRow(w)'
    <2>1. SoundRow(w) /\ Exists(w) /\ Exists(w)' /\ SoundRun(r)
      BY <1>1, StatusFacts DEF SoundInv
    <2>2. CASE Complete(r)
      <3>1. PICK h : h = run[r].hash
        OBVIOUS
      <3>2. /\ withdrawal'[w].hash = h /\ withdrawal'[w].wallet = withdrawal[w].wallet
            /\ withdrawal'[w].amount = withdrawal[w].amount /\ run[r].pc = "complete"
        BY <1>1, <2>2, <3>1, StatusFacts
      <3>3. recordedFor[h] = w /\ PaidTo[h] = run[r].wallet /\ run[r].wallet = withdrawal[w].wallet
        BY <1>1, <2>1, <3>1, <3>2 DEF SoundRun, PayCalls
      <3>4. withdrawal[w].amount >= 1
        BY <2>1 DEF SoundRow
      <3> QED
        BY <1>4, <2>1, <3>2, <3>3, <3>4 DEF SoundRow
    <2>3. CASE SetRejected(r)
      <3>1. /\ withdrawal'[w].hash = withdrawal[w].hash
            /\ withdrawal'[w].wallet = withdrawal[w].wallet
            /\ withdrawal'[w].amount = withdrawal[w].amount
        BY <1>1, <2>3, StatusFacts
      <3> QED
        BY <1>4, <2>1, <3>1 DEF SoundRow
    <2> QED
      BY <2>2, <2>3
  <1>6. \A v \in Withdrawals : v # w => withdrawal'[v] = withdrawal[v]
    BY <1>1, StatusFacts
  <1>7. \A v \in Withdrawals : SoundRow(v)'
    BY <1>4, <1>5, <1>6 DEF SoundInv, SoundRow, Exists
  <1>8. \A v \in Withdrawals :
            /\ Exists(v)' <=> Exists(v)
            /\ Exists(v) => /\ withdrawal'[v].wallet = withdrawal[v].wallet
                            /\ withdrawal'[v].amount = withdrawal[v].amount
    <2>1. /\ Exists(w)' /\ Exists(w) /\ withdrawal'[w].wallet = withdrawal[w].wallet
          /\ withdrawal'[w].amount = withdrawal[w].amount
      BY <1>1, StatusFacts
    <2> QED
      BY <1>6, <2>1 DEF Exists
  <1> QED
    BY <1>2, <1>3, <1>4, <1>7, <1>8, EndsSound

\* A handler ends without a write: it throws, or its call fails.
LEMMA BreaksOffSound ==
    ASSUME SoundInv, NEW r \in Runs, Throw(r) \/ Fail(r)
    PROVE  SoundInv'
  <1>1. /\ run'[r] = Idle /\ \A s \in Runs \ {r} : run'[s] = run[s]
        /\ run' \in [Runs -> RunState \cup {Idle}]
    BY EndKeeps DEF Throw, Fail, SoundInv
  <1>2. UNCHANGED <<rows, money>>
    BY DEF Throw, Fail
  <1>3. TypeOK'
    <2>1. CASE Throw(r)
      <3>1. run[r].pc = "refundEntry" => run[r].wallet \in Wallets
        BY Running DEF Calls, RejectCalls
      <3>2. interrupted' \subseteq Wallets
        BY <2>1, <3>1 DEF Throw, Refused, At, MovedMoney, SoundInv, TypeOK
      <3> QED
        BY <1>1, <2>1, <3>2 DEF Throw, SoundInv, TypeOK, rows, money, races, counters
    <2>2. CASE Fail(r)
      <3>1. run[r].wallet \in Wallets
        BY <2>2, Kinds, Running DEF Fail, SoundInv
      <3>2. failures' \in 0..MaxFailures /\ interrupted' \subseteq Wallets
        BY <2>2, <3>1, BoundAssumption DEF Fail, SoundInv, TypeOK
      <3> QED
        BY <1>1, <1>2, <2>2, <3>2 DEF Fail, SoundInv, TypeOK, rows, money, races
    <2> QED
      BY <2>1, <2>2
  <1>4. \A w \in Withdrawals : SoundRow(w)' /\ (Exists(w)' <=> Exists(w))
    BY <1>2 DEF SoundInv, SoundRow, Exists, rows, money
  <1> QED
    BY <1>1, <1>2, <1>3, <1>4, EndsSound DEF rows

\* What the arrival of a request changes.
LEMMA EnterFacts ==
    ASSUME SoundInv, NEW r \in Runs, NEW pc \in {"debit", "read", "check"}, NEW w \in Withdrawals,
           NEW x \in Wallets, NEW a \in Nat, NEW early \in BOOLEAN, NEW h \in Hashes \cup {NoHash},
           Enter(r, pc, w, x, a, early, h)
    PROVE  /\ run[r] = Idle
           /\ run'[r].pc = pc /\ run'[r].wd = w /\ run'[r].wallet = x /\ run'[r].amount = a
           /\ run'[r].hash = h
           /\ \A s \in Runs \ {r} : run'[s] = run[s]
           /\ run' \in [Runs -> RunState \cup {Idle}]
           /\ requests' \in 0..MaxRequests /\ overlapped' \subseteq Withdrawals
           /\ overlapped' = IF \E q \in Runs : On(q, w) THEN overlapped \cup {w} ELSE overlapped
  <1>1. PICK row : row = [pc |-> pc, wd |-> w, wallet |-> x, amount |-> a, early |-> early,
                          hash |-> h, found |-> 0, was |-> 0]
    OBVIOUS
  <1>2. /\ row \in RunState /\ row.pc = pc /\ row.wd = w /\ row.wallet = x /\ row.amount = a
        /\ row.hash = h
    BY <1>1 DEF RunState
  <1>3. run' = [run EXCEPT ![r] = row]
    BY <1>1 DEF Enter
  <1>4. requests' \in 0..MaxRequests
    BY BoundAssumption DEF Enter, SoundInv, TypeOK
  <1>5. overlapped' \subseteq Withdrawals
    BY DEF Enter, SoundInv, TypeOK
  <1> QED
    BY <1>2, <1>3, <1>4, <1>5 DEF Enter, SoundInv, TypeOK

\* A request arrives as one of the three calls.
Entered(r, pc, w, x, a, early, h) ==
    /\ Enter(r, pc, w, x, a, early, h)
    /\ pc = "debit" => ~ Exists(w) /\ (\A q \in Runs : ~ On(q, w)) /\ a >= 1
    /\ pc \in {"read", "check"} => Exists(w) /\ x = withdrawal[w].wallet
    /\ pc = "read" => h \in Hashes
    /\ pc = "check" => a = withdrawal[w].amount
    /\ UNCHANGED <<rows, money, failures, interrupted>>

LEMMA ArriveIs ==
    ASSUME SoundInv, NEW r \in Runs, Arrive(r)
    PROVE  \E w \in Withdrawals, pc \in {"debit", "read", "check"}, x \in Wallets, a \in Nat,
              early \in BOOLEAN, h \in Hashes \cup {NoHash} : Entered(r, pc, w, x, a, early, h)
  <1>1. PICK w \in Withdrawals :
            \/ \E x \in Wallets, a \in Amounts, early \in BOOLEAN : Create(r, w, x, a, early)
            \/ \E h \in Hashes : Process(r, w, h)
            \/ Reject(r, w)
    BY DEF Arrive
  <1>2. \A x \in Wallets, a \in Amounts, early \in BOOLEAN :
            Create(r, w, x, a, early) => a \in Nat /\ Entered(r, "debit", w, x, a, early, NoHash)
    BY AmountAssumption DEF Create, Entered, MINIMUM_WITHDRAWAL
  <1>3. \A h \in Hashes : Process(r, w, h) =>
            /\ withdrawal[w].wallet \in Wallets
            /\ Entered(r, "read", w, withdrawal[w].wallet, 0, FALSE, h)
    BY ExistingRow DEF Process, Entered, SoundInv
  <1>4. Reject(r, w) =>
            /\ withdrawal[w].wallet \in Wallets /\ withdrawal[w].amount \in Nat
            /\ Entered(r, "check", w, withdrawal[w].wallet, withdrawal[w].amount, FALSE, NoHash)
    BY ExistingRow DEF Reject, Entered, SoundInv
  <1>5. \A x \in Wallets, a \in Amounts, early \in BOOLEAN : Create(r, w, x, a, early) =>
            \E y \in Nat : Entered(r, "debit", w, x, y, early, NoHash)
    BY <1>2
  <1> QED
    BY <1>1, <1>3, <1>4, <1>5

LEMMA ArriveSound ==
    ASSUME SoundInv, NEW r \in Runs, Arrive(r)
    PROVE  SoundInv'
  <1>1. PICK w \in Withdrawals, pc \in {"debit", "read", "check"}, x \in Wallets, a \in Nat,
             early \in BOOLEAN, h \in Hashes \cup {NoHash} : Entered(r, pc, w, x, a, early, h)
    BY ArriveIs
  <1>2. /\ run'[r].pc = pc /\ run'[r].wd = w /\ run'[r].wallet = x /\ run'[r].amount = a
        /\ run'[r].hash = h
        /\ \A s \in Runs \ {r} : run'[s] = run[s]
        /\ run' \in [Runs -> RunState \cup {Idle}]
        /\ requests' \in 0..MaxRequests /\ overlapped' \subseteq Withdrawals
    BY <1>1, EnterFacts DEF Entered
  <1>3. TypeOK'
    BY <1>1, <1>2 DEF Entered, SoundInv, TypeOK, rows, money, races
  <1>4. SoundRun(r)'
    BY <1>1, <1>2 DEF Entered, SoundRun, Exists, rows, CreateCalls, PayCalls, RejectCalls
  <1>5. \A v \in Withdrawals : SoundRow(v)' /\ (Exists(v)' <=> Exists(v))
    BY <1>1 DEF Entered, SoundInv, SoundRow, Exists, rows, money
  <1>6. run'[r].pc \in CreateCalls =>
            \A s \in Runs \ {r} : run[s].pc \in Calls => run[s].wd # run'[r].wd
    BY <1>1, <1>2, Kinds DEF Entered, SoundInv, CreateCalls
  <1> QED
    BY <1>1, <1>2, <1>3, <1>4, <1>5, <1>6, StepStaysSound DEF Entered, rows

LEMMA ElsewhereSound ==
    ASSUME SoundInv, NEW h \in Hashes, RecordElsewhere(h)
    PROVE  SoundInv'
  <1>1. /\ recordedFor' \in [Hashes -> Withdrawals \cup {"nobody", "other"}]
        /\ \A g \in Hashes : Recorded(g) => recordedFor'[g] = recordedFor[g]
    BY DEF RecordElsewhere, SoundInv, TypeOK, Recorded
  <1>2. requests' \in 0..MaxRequests
    BY BoundAssumption DEF RecordElsewhere, SoundInv, TypeOK
  <1>3. UNCHANGED <<withdrawal, money, run, failures, history>>
    BY DEF RecordElsewhere
  <1>4. TypeOK'
    BY <1>1, <1>2, <1>3 DEF SoundInv, TypeOK, money, races, history
  <1>5. ASSUME NEW r \in Runs
        PROVE  SoundRun(r)'
    <2>1. PICK w, g : w = run[r].wd /\ g = run[r].hash
      OBVIOUS
    <2>2. SoundRun(r)
      BY DEF SoundInv
    <2>3. run[r].pc = "complete" => recordedFor'[g] = w
      <3> SUFFICES ASSUME run[r].pc = "complete"
                   PROVE  recordedFor'[g] = w
        OBVIOUS
      <3>1. w \in Withdrawals
        BY <2>1, Running DEF Calls, PayCalls
      <3>2. g \in Hashes /\ recordedFor[g] = w
        BY <2>1, <2>2 DEF SoundRun, PayCalls
      <3> QED
        BY <1>1, <3>1, <3>2, NameAssumption DEF Recorded
    <2> QED
      BY <1>3, <2>1, <2>2, <2>3 DEF SoundRun, Exists
  <1>6. ASSUME NEW v \in Withdrawals
        PROVE  SoundRow(v)'
    <2>1. PICK g : g = withdrawal[v].hash
      OBVIOUS
    <2>2. SoundRow(v)
      BY DEF SoundInv
    <2>3. Exists(v) /\ g # NoHash => g \in Hashes
      BY <2>1, ExistingRow DEF SoundInv
    <2>4. Exists(v) /\ g # NoHash => recordedFor'[g] = v
      BY <1>1, <2>1, <2>2, <2>3, NameAssumption DEF SoundRow, Recorded
    <2> QED
      BY <1>3, <2>1, <2>2, <2>4 DEF SoundRow, Exists, money
  <1>7. SoleCreator'
    BY <1>3 DEF SoundInv, SoleCreator
  <1> QED
    BY <1>4, <1>5, <1>6, <1>7 DEF SoundInv

LEMMA CrashSound ==
    ASSUME SoundInv, Crash
    PROVE  SoundInv'
  <1>1. failures' \in 0..MaxFailures /\ interrupted' \subseteq Wallets
    BY BoundAssumption DEF Crash, SoundInv, TypeOK
  <1>2. run' = [r \in Runs |-> Idle] /\ UNCHANGED <<rows, money, requests, overlapped>>
    BY DEF Crash
  <1>3. TypeOK'
    BY <1>1, <1>2 DEF SoundInv, TypeOK, rows, money, races
  <1>4. \A r \in Runs : run'[r].pc \notin Calls
    BY <1>2, IdleCalls
  <1>5. SoleCreator' /\ \A r \in Runs : SoundRun(r)'
    BY <1>4 DEF SoleCreator, SoundRun, Calls, CreateCalls, PayCalls
  <1>6. \A v \in Withdrawals : SoundRow(v)'
    BY <1>2 DEF SoundInv, SoundRow, Exists, rows, money
  <1> QED
    BY <1>3, <1>5, <1>6 DEF SoundInv

LEMMA StutterSound == ASSUME SoundInv, UNCHANGED vars PROVE SoundInv'
  BY DEF SoundInv, TypeOK, SoleCreator, SoundRun, SoundRow, Exists, vars, rows, money, races, counters,
         history

LEMMA NextSound == SoundInv /\ [Next]_vars => SoundInv'
  <1> SUFFICES ASSUME SoundInv, [Next]_vars
               PROVE  SoundInv'
    OBVIOUS
  <1>1. ASSUME NEW r \in Runs, Step(r)
        PROVE  SoundInv'
    BY <1>1, PlainStepsSound, RereadsSound, EntriesSound, DebitSound, RefundSound, RecordSound, InsertSound,
       StatusSound, BreaksOffSound DEF Step
  <1> QED
    BY <1>1, ArriveSound, BreaksOffSound, ElsewhereSound, CrashSound, StutterSound DEF Next

\* Rows, wallets and handlers keep their types, and no balance goes below zero.
THEOREM TypeCorrect == Spec => []TypeOK
  <1>1. SoundInv => TypeOK
    BY DEF SoundInv
  <1> QED
    BY <1>1, InitSound, NextSound, PTL DEF Spec

\* A completed withdrawal is backed by a payment to its address, recorded for
\* it alone, for any number of withdrawals, hashes and handlers.
THEOREM CompletedBacked == Spec => []CompletedIsBacked
  <1>1. SoundInv => CompletedIsBacked
    BY DEF SoundInv, SoundRow, CompletedIsBacked
  <1> QED
    BY <1>1, InitSound, NextSound, PTL DEF Spec

(* ---------------------------------------------------------------------- *)
(* What holds for a withdrawal on which no two handlers overlapped        *)

\* The refund agrees with the status.
Matches(w) ==
    IF withdrawal[w].status = "REJECTED"
    THEN refunded[w] >= withdrawal[w].amount
    ELSE refunded[w] = 0

\* Alone on its withdrawal, a handler finds the status at each call as it read it.
InOrder(r) ==
    LET pc == run[r].pc
        w == run[r].wd
    IN  /\ pc \in {"lookup", "record", "complete"} => withdrawal[w].status = "PENDING"
        /\ pc \in RejectCalls \ {"check"} => withdrawal[w].status # "COMPLETED"

Unpaid == {"check", "refund", "refundReread", "refundWrite"}

\* ... and what has been refunded follows from the call it is about to make.
Exact(r) ==
    LET pc == run[r].pc
        w == run[r].wd
    IN  /\ pc \in PayCalls \cup Unpaid => Matches(w)
        /\ pc \in {"refundEntry", "rejected"} => refunded[w] >= withdrawal[w].amount

\* No handler was cut short on the wallet of w.
Undisturbed(w) == Exists(w) /\ withdrawal[w].wallet \notin interrupted

Orderly(w) ==
    w \notin overlapped =>
        /\ \A r, s \in Runs : On(r, w) /\ On(s, w) => r = s
        /\ \A r \in Runs : On(r, w) => InOrder(r)
        /\ Undisturbed(w) =>
               /\ (\A r \in Runs : ~ On(r, w)) => Matches(w)
               /\ \A r \in Runs : On(r, w) => Exact(r)

OrderInv == SoundInv /\ \A w \in Withdrawals : Orderly(w)

LEMMA InitOrderly == Init => OrderInv
  BY InitSound DEF Init, OrderInv, Orderly, On, Undisturbed, Exists

\* A withdrawal that a step leaves alone, with its handlers, stays in order.
LEMMA UntouchedStaysOrderly ==
    ASSUME NEW w \in Withdrawals, Orderly(w),
           withdrawal'[w] = withdrawal[w], refunded'[w] = refunded[w],
           w \in overlapped => w \in overlapped',
           interrupted \subseteq interrupted',
           \A s \in Runs : On(s, w) \/ On(s, w)' => run'[s] = run[s]
    PROVE  Orderly(w)'
  <1> SUFFICES ASSUME w \notin overlapped'
               PROVE  Orderly(w)'
    BY DEF Orderly
  <1>1. \A s \in Runs : On(s, w)' <=> On(s, w)
    BY DEF On
  <1>2. Undisturbed(w)' => Undisturbed(w)
    BY DEF Undisturbed, Exists
  <1>3. Matches(w)' <=> Matches(w)
    BY DEF Matches
  <1>4. ASSUME NEW s \in Runs, On(s, w)'
        PROVE  InOrder(s)' /\ (Undisturbed(w)' => Exact(s)')
    <2>1. On(s, w) /\ run'[s] = run[s] /\ run[s].wd = w
      BY <1>1, <1>4 DEF On
    <2>2. InOrder(s) /\ (Undisturbed(w)' => Exact(s))
      BY <1>2, <2>1 DEF Orderly
    <2> QED
      BY <2>1, <2>2 DEF InOrder, Exact, Matches
  <1> QED
    BY <1>1, <1>2, <1>3, <1>4 DEF Orderly

\* The withdrawal of a handler that goes on to its next call.
LEMMA GoesOnOrderly ==
    ASSUME NEW r \in Runs, NEW w \in Withdrawals, On(r, w), Orderly(w), On(r, w)',
           \A s \in Runs \ {r} : run'[s] = run[s],
           overlapped' = overlapped,
           w \notin overlapped => InOrder(r)',
           w \notin overlapped /\ Undisturbed(w)' => Exact(r)'
    PROVE  Orderly(w)'
  <1> SUFFICES ASSUME w \notin overlapped
               PROVE  Orderly(w)'
    BY DEF Orderly
  <1>1. \A s \in Runs : On(s, w)' => s = r
    BY DEF Orderly, On
  <1> QED
    BY <1>1 DEF Orderly

\* The withdrawal of a handler that ends.
LEMMA EndsOrderly ==
    ASSUME NEW r \in Runs, NEW w \in Withdrawals, On(r, w), Orderly(w), run'[r] = Idle,
           \A s \in Runs \ {r} : run'[s] = run[s],
           overlapped' = overlapped,
           w \notin overlapped /\ Undisturbed(w)' => Matches(w)'
    PROVE  Orderly(w)'
  <1> SUFFICES ASSUME w \notin overlapped
               PROVE  Orderly(w)'
    BY DEF Orderly
  <1>1. \A s \in Runs : ~ On(s, w)'
    BY DEF Orderly, On
  <1> QED
    BY <1>1 DEF Orderly

\* What is known of a handler alone on its withdrawal.
LEMMA Alone ==
    ASSUME OrderInv, NEW r \in Runs, NEW w, w = run[r].wd, run[r].pc \in Calls
    PROVE  /\ w \in Withdrawals /\ On(r, w) /\ Orderly(w) /\ SoundInv
           /\ w \notin overlapped => InOrder(r)
           /\ w \notin overlapped /\ Undisturbed(w) => Exact(r)
  <1>1. w \in Withdrawals /\ On(r, w) /\ SoundInv
    BY Running DEF OrderInv, On
  <1> QED
    BY <1>1 DEF OrderInv, Orderly

\* A step of one handler that changes nothing of the other withdrawals.
LEMMA StepStaysOrderly ==
    ASSUME OrderInv, SoundInv', NEW r \in Runs, run[r].pc \in Calls,
           NEW w, w = run[r].wd, Orderly(w)',
           \A s \in Runs \ {r} : run'[s] = run[s],
           run'[r] = Idle \/ run'[r].wd = w,
           overlapped' = overlapped, interrupted \subseteq interrupted',
           \A v \in Withdrawals \ {w} :
               withdrawal'[v] = withdrawal[v] /\ refunded'[v] = refunded[v]
    PROVE  OrderInv'
  <1>1. ASSUME NEW v \in Withdrawals, v # w
        PROVE  Orderly(v)'
    <2>1. \A s \in Runs : On(s, v) \/ On(s, v)' => run'[s] = run[s]
      <3>1. ~ On(r, v) /\ ~ On(r, v)'
        BY <1>1 DEF On
      <3> QED
        BY <3>1
    <2> QED
      BY <1>1, <2>1, UntouchedStaysOrderly DEF OrderInv
  <1> QED
    BY <1>1 DEF OrderInv

\* A handler goes on and writes no row.
LEMMA GoingOnOrderly ==
    ASSUME OrderInv, SoundInv', NEW r \in Runs, run[r].pc \in Calls, NEW pc \in Calls,
           GoesOn(r, pc), UNCHANGED <<rows, history>>,
           NEW w, w = run[r].wd,
           \A v \in Withdrawals \ {w} : refunded'[v] = refunded[v],
           w \notin overlapped => InOrder(r)',
           w \notin overlapped /\ Undisturbed(w) => Exact(r)'
    PROVE  OrderInv'
  <1>1. /\ run'[r].pc = pc /\ run'[r].wd = w
        /\ \A s \in Runs \ {r} : run'[s] = run[s]
    BY DEF GoesOn
  <1>2. w \in Withdrawals /\ On(r, w) /\ Orderly(w)
    BY Alone
  <1>3. On(r, w)'
    BY <1>1, IdleCalls DEF On
  <1>4. Undisturbed(w)' <=> Undisturbed(w)
    BY DEF Undisturbed, Exists, rows, history
  <1>5. Orderly(w)'
    BY <1>1, <1>2, <1>3, <1>4, GoesOnOrderly DEF history
  <1> QED
    BY <1>1, <1>5, StepStaysOrderly DEF rows, history

\* Steps of a handler that write no row and refund nothing.
LEMMA PlainStepsOrderly ==
    ASSUME OrderInv, SoundInv', NEW r \in Runs,
           \/ Debit(r) \/ DebitReread(r) \/ DebitWrite(r)
           \/ NetEntry(r) \/ FeeEntry(r) \/ PenaltyEntry(r)
           \/ Read(r) \/ Lookup(r) \/ Check(r) \/ Refund(r) \/ RefundReread(r) \/ RefundEntry(r)
    PROVE  OrderInv'
  <1>1. PICK w : w = run[r].wd
    OBVIOUS
  <1>2. UNCHANGED <<rows, refunded, counters, history>>
    BY DEF Debit, DebitReread, DebitWrite, NetEntry, FeeEntry, PenaltyEntry, Read, Lookup, Check,
           Refund, RefundReread, RefundEntry, money
  <1>3. PICK pc \in Calls :
            /\ GoesOn(r, pc) /\ run[r].pc \in Calls
            /\ \/ pc \in CreateCalls
               \/ pc = "lookup" /\ run[r].pc = "read" /\ withdrawal[w].status = "PENDING"
               \/ pc = "record" /\ run[r].pc = "lookup"
               \/ pc = "refund" /\ run[r].pc = "check" /\ withdrawal[w].status # "COMPLETED"
               \/ pc = "refundReread" /\ run[r].pc = "refund"
               \/ pc = "refundWrite" /\ run[r].pc = "refundReread"
               \/ pc = "rejected" /\ run[r].pc = "refundEntry"
    <2>1. CASE FeeEntry(r)
      <3>1. PICK pc \in {"penalty", "insert"} : Continue(r, pc)
        BY <2>1 DEF FeeEntry
      <3>2. run[r].pc \in Calls /\ pc \in CreateCalls /\ pc \in Calls
        BY <2>1, <3>1 DEF FeeEntry, At, Calls, CreateCalls
      <3> QED
        BY <3>1, <3>2, ContinueKeeps DEF OrderInv, SoundInv
    <2>2. CASE Debit(r) \/ DebitWrite(r) \/ NetEntry(r) \/ PenaltyEntry(r)
      <3>1. PICK pc \in CreateCalls : Continue(r, pc) /\ run[r].pc \in Calls
        BY <2>2 DEF Debit, DebitWrite, NetEntry, PenaltyEntry, At, Calls, CreateCalls
      <3>2. pc \in Calls
        BY DEF Calls
      <3> QED
        BY <3>1, <3>2, ContinueKeeps DEF OrderInv, SoundInv
    <2>3. CASE Read(r) \/ Lookup(r) \/ Check(r) \/ RefundEntry(r)
      <3>1. PICK pc \in Calls :
                /\ Continue(r, pc) /\ run[r].pc \in Calls
                /\ \/ pc = "lookup" /\ run[r].pc = "read" /\ withdrawal[w].status = "PENDING"
                   \/ pc = "record" /\ run[r].pc = "lookup"
                   \/ pc = "refund" /\ run[r].pc = "check" /\ withdrawal[w].status # "COMPLETED"
                   \/ pc = "rejected" /\ run[r].pc = "refundEntry"
        BY <1>1, <2>3 DEF Read, Lookup, Check, RefundEntry, At, Calls, PayCalls, RejectCalls
      <3>2. GoesOn(r, pc)
        BY <3>1, ContinueKeeps DEF OrderInv, SoundInv
      <3> QED
        BY <3>1, <3>2
    <2>4. CASE Refund(r)
      BY <2>4, RefundKeeps DEF OrderInv, SoundInv
    <2>5. CASE DebitReread(r) \/ RefundReread(r)
      <3>1. PICK pc \in Calls :
                /\ Reread(r, pc) /\ run[r].pc \in Calls
                /\ \/ pc \in CreateCalls
                   \/ pc = "refundWrite" /\ run[r].pc = "refundReread"
        BY <2>5 DEF DebitReread, RefundReread, At, Calls, CreateCalls, RejectCalls
      <3>2. GoesOn(r, pc)
        BY <3>1, RereadKeeps DEF OrderInv, SoundInv
      <3> QED
        BY <3>1, <3>2
    <2> QED
      BY <2>1, <2>2, <2>3, <2>4, <2>5
  <1>4. /\ w \notin overlapped => InOrder(r)
        /\ w \notin overlapped /\ Undisturbed(w) => Exact(r)
    BY <1>1, <1>3, Alone
  <1>5. run'[r].pc = pc /\ run'[r].wd = w
    BY <1>1, <1>3 DEF GoesOn
  <1>6. w \notin overlapped => InOrder(r)'
    BY <1>1, <1>2, <1>3, <1>4, <1>5 DEF InOrder, CreateCalls, RejectCalls, rows
  <1>7. w \notin overlapped /\ Undisturbed(w) => Exact(r)'
    BY <1>1, <1>2, <1>3, <1>4, <1>5 DEF Exact, Matches, Unpaid, CreateCalls, PayCalls, rows
  <1> QED
    BY <1>1, <1>2, <1>3, <1>6, <1>7, GoingOnOrderly

LEMMA RecordOrderly ==
    ASSUME OrderInv, SoundInv', NEW r \in Runs, Record(r)
    PROVE  OrderInv'
  <1>1. PICK w : w = run[r].wd
    OBVIOUS
  <1>2. run[r].pc = "record" /\ run[r].pc \in Calls /\ "complete" \in Calls /\ Continue(r, "complete")
    BY DEF Record, At, Calls, PayCalls
  <1>3. /\ w \in Withdrawals /\ On(r, w) /\ Orderly(w) /\ SoundInv
        /\ w \notin overlapped => InOrder(r)
        /\ w \notin overlapped /\ Undisturbed(w) => Exact(r)
    BY <1>1, <1>2, Alone
  <1>4. /\ run'[r].pc = "complete" /\ run'[r].wd = w
        /\ \A s \in Runs \ {r} : run'[s] = run[s]
    BY <1>1, <1>2, <1>3, ContinueKeeps DEF SoundInv
  <1>5. UNCHANGED <<withdrawal, money, counters, history>>
    BY DEF Record
  <1>6. w \notin overlapped => InOrder(r)'
    BY <1>1, <1>2, <1>3, <1>4, <1>5 DEF InOrder, RejectCalls
  <1>7. w \notin overlapped /\ Undisturbed(w) => Exact(r)'
    BY <1>1, <1>2, <1>3, <1>4, <1>5 DEF Exact, Matches, Unpaid, PayCalls, money
  <1>8. On(r, w)' /\ (Undisturbed(w)' <=> Undisturbed(w))
    BY <1>2, <1>4, <1>5, IdleCalls DEF On, Undisturbed, Exists, history
  <1>9. Orderly(w)'
    BY <1>3, <1>4, <1>5, <1>6, <1>7, <1>8, GoesOnOrderly DEF history
  <1> QED
    BY <1>1, <1>2, <1>4, <1>5, <1>9, StepStaysOrderly DEF money, history

\* A refund leaves at least the amount of the row refunded.
LEMMA RefundOrderly ==
    ASSUME OrderInv, SoundInv', NEW r \in Runs, RefundWrite(r)
    PROVE  OrderInv'
  <1>1. PICK w : w = run[r].wd
    OBVIOUS
  <1>2. /\ run[r].pc = "refundWrite" /\ run[r].pc \in Calls /\ GoesOn(r, "refundEntry")
        /\ "refundEntry" \in Calls
        /\ run[r].amount = withdrawal[w].amount /\ run[r].amount \in Nat /\ refunded[w] \in Nat
        /\ refunded'[w] = refunded[w] + run[r].amount
        /\ \A v \in Withdrawals \ {w} : refunded'[v] = refunded[v]
        /\ UNCHANGED <<rows, ledger, counters, history>>
    BY <1>1, RefundFacts DEF OrderInv
  <1>3. run'[r].pc = "refundEntry" /\ run'[r].wd = w
    BY <1>1, <1>2 DEF GoesOn
  <1>4. w \notin overlapped => InOrder(r)
    BY <1>1, <1>2, Alone
  <1>5. w \notin overlapped => InOrder(r)'
    BY <1>1, <1>2, <1>3, <1>4 DEF InOrder, RejectCalls, rows
  <1>6. refunded'[w] >= withdrawal'[w].amount
    BY <1>2 DEF rows
  <1>7. Exact(r)'
    BY <1>3, <1>6 DEF Exact, Unpaid, PayCalls
  <1> QED
    BY <1>1, <1>2, <1>5, <1>7, GoingOnOrderly

\* The record exists, as yet without a refund.
LEMMA InsertOrderly ==
    ASSUME OrderInv, SoundInv', NEW r \in Runs, Insert(r)
    PROVE  OrderInv'
  <1>1. PICK w : w = run[r].wd
    OBVIOUS
  <1>2. /\ run[r].pc \in Calls /\ w \in Withdrawals /\ ~ Exists(w)
        /\ withdrawal'[w].status = "PENDING"
        /\ \A v \in Withdrawals \ {w} : withdrawal'[v] = withdrawal[v]
        /\ End(r) /\ UNCHANGED <<recordedFor, money, counters, history>>
    BY <1>1, InsertFacts DEF OrderInv
  <1>3. On(r, w) /\ Orderly(w) /\ SoundInv
    BY <1>1, <1>2, Alone
  <1>4. run'[r] = Idle /\ \A s \in Runs \ {r} : run'[s] = run[s]
    BY <1>2, <1>3, EndKeeps DEF SoundInv
  <1>5. refunded[w] = 0
    BY <1>2, <1>3 DEF SoundInv, SoundRow
  <1>6. Matches(w)'
    BY <1>2, <1>5 DEF Matches, money
  <1>7. Orderly(w)'
    BY <1>2, <1>3, <1>4, <1>6, EndsOrderly DEF history
  <1> QED
    BY <1>1, <1>2, <1>4, <1>7, StepStaysOrderly DEF money, history

LEMMA StatusOrderly ==
    ASSUME OrderInv, SoundInv', NEW r \in Runs, Complete(r) \/ SetRejected(r)
    PROVE  OrderInv'
  <1>1. PICK w : w = run[r].wd
    OBVIOUS
  <1>2. /\ run[r].pc \in Calls /\ w \in Withdrawals /\ Exists(w)
        /\ Complete(r) => run[r].pc = "complete" /\ withdrawal'[w].status = "COMPLETED"
        /\ SetRejected(r) => run[r].pc = "rejected" /\ withdrawal'[w].status = "REJECTED"
        /\ withdrawal'[w].wallet = withdrawal[w].wallet
        /\ withdrawal'[w].amount = withdrawal[w].amount
        /\ \A v \in Withdrawals \ {w} : withdrawal'[v] = withdrawal[v]
        /\ End(r) /\ UNCHANGED <<recordedFor, money, counters, history>>
    BY <1>1, StatusFacts DEF OrderInv
  <1>3. /\ On(r, w) /\ Orderly(w) /\ SoundInv
        /\ w \notin overlapped => InOrder(r)
        /\ w \notin overlapped /\ Undisturbed(w) => Exact(r)
    BY <1>1, <1>2, Alone
  <1>4. run'[r] = Idle /\ \A s \in Runs \ {r} : run'[s] = run[s]
    BY <1>2, <1>3, EndKeeps DEF SoundInv
  <1>5. ASSUME w \notin overlapped, Undisturbed(w)'
        PROVE  Matches(w)'
    <2>1. Undisturbed(w)
      BY <1>2, <1>5 DEF Undisturbed, history
    <2>2. InOrder(r) /\ Exact(r) /\ refunded' = refunded
      BY <1>2, <1>3, <1>5, <2>1 DEF money
    <2>3. CASE Complete(r)
      <3>1. withdrawal[w].status = "PENDING" /\ Matches(w)
        BY <1>1, <1>2, <2>2, <2>3 DEF InOrder, Exact, PayCalls
      <3> QED
        BY <1>2, <2>2, <2>3, <3>1 DEF Matches
    <2>4. CASE SetRejected(r)
      <3>1. refunded[w] >= withdrawal[w].amount
        BY <1>1, <1>2, <2>2, <2>4 DEF Exact
      <3> QED
        BY <1>2, <2>2, <2>4, <3>1 DEF Matches
    <2> QED
      BY <2>3, <2>4
  <1>6. Orderly(w)'
    BY <1>2, <1>3, <1>4, <1>5, EndsOrderly DEF history
  <1> QED
    BY <1>1, <1>2, <1>4, <1>6, StepStaysOrderly DEF money, history

\* A handler that breaks off has moved no money, or its wallet is interrupted.
LEMMA BreaksOffOrderly ==
    ASSUME OrderInv, SoundInv', NEW r \in Runs, Throw(r) \/ Fail(r)
    PROVE  OrderInv'
  <1>1. PICK w : w = run[r].wd
    OBVIOUS
  <1>2. run[r] # Idle /\ run[r].pc \in Calls
    <2>1. CASE Throw(r)
      <3>1. run[r].pc \in {"debit", "debitReread", "read", "lookup", "record", "check", "refundEntry"}
        BY <2>1 DEF Throw, Refused, At
      <3>2. run[r].pc \in Calls
        BY <3>1 DEF Calls, CreateCalls, PayCalls, RejectCalls
      <3> QED
        BY <3>2, Kinds DEF OrderInv, SoundInv
    <2>2. CASE Fail(r)
      BY <2>2, Kinds DEF Fail, OrderInv, SoundInv
    <2> QED
      BY <2>1, <2>2
  <1>3. /\ w \in Withdrawals /\ On(r, w) /\ Orderly(w) /\ SoundInv
        /\ w \notin overlapped /\ Undisturbed(w) => Exact(r)
    BY <1>1, <1>2, Alone
  <1>4. /\ run'[r] = Idle /\ \A s \in Runs \ {r} : run'[s] = run[s]
        /\ UNCHANGED <<rows, money>> /\ overlapped' = overlapped
        /\ interrupted \subseteq interrupted'
        /\ run[r].pc \in {"refundEntry", "rejected"} => run[r].wallet \in interrupted'
    <2>1. CASE Throw(r)
      BY <1>3, <2>1, EndKeeps DEF Throw, SoundInv, MovedMoney
    <2>2. CASE Fail(r)
      BY <1>3, <2>2, EndKeeps DEF Fail, SoundInv, MovedMoney
    <2> QED
      BY <2>1, <2>2
  <1>5. ASSUME w \notin overlapped, Undisturbed(w)'
        PROVE  Matches(w)'
    <2>1. Undisturbed(w) /\ withdrawal[w].wallet \notin interrupted'
      BY <1>4, <1>5 DEF Undisturbed, Exists, rows
    <2>2. Exact(r) /\ SoundRun(r)
      BY <1>3, <1>5, <2>1 DEF SoundInv
    <2>3. run[r].pc \notin CreateCalls
      BY <1>1, <2>1, <2>2 DEF SoundRun, Undisturbed
    <2>4. run[r].pc \notin {"refundEntry", "rejected"}
      BY <1>1, <1>4, <2>1, <2>2 DEF SoundRun, RejectCalls
    <2>5. run[r].pc \in PayCalls \cup Unpaid
      BY <1>2, <2>3, <2>4 DEF Calls, RejectCalls, Unpaid
    <2>6. Matches(w)
      BY <1>1, <2>2, <2>5 DEF Exact
    <2> QED
      BY <1>4, <2>6 DEF Matches, rows, money
  <1>6. Orderly(w)'
    BY <1>3, <1>4, <1>5, EndsOrderly
  <1> QED
    BY <1>1, <1>2, <1>4, <1>6, StepStaysOrderly DEF rows, money

LEMMA CrashOrderly ==
    ASSUME OrderInv, SoundInv', Crash
    PROVE  OrderInv'
  <1>1. /\ \A r \in Runs : run'[r] = Idle
        /\ UNCHANGED <<rows, money, requests, overlapped>>
        /\ interrupted \subseteq interrupted'
        /\ interrupted' = interrupted \cup {x \in Wallets : \E r \in Runs :
                                                OnWallet(r, x) /\ MovedMoney(r)}
    BY DEF Crash
  <1>2. ASSUME NEW w \in Withdrawals, w \notin overlapped, Undisturbed(w)'
        PROVE  Matches(w)'
    <2>1. Undisturbed(w) /\ withdrawal[w].wallet \notin interrupted' /\ Orderly(w) /\ SoundInv
      BY <1>1, <1>2 DEF Undisturbed, Exists, rows, OrderInv
    <2>2. ASSUME NEW r \in Runs, On(r, w)
          PROVE  Matches(w)
      <3>1. run[r].pc \in Calls /\ run[r].wd = w /\ run[r] # Idle
        BY <2>1, <2>2, Kinds DEF SoundInv, On
      <3>2. Exact(r) /\ SoundRun(r) /\ run[r].wallet \in Wallets
        BY <1>2, <2>1, <2>2, <3>1, Running DEF Orderly
      <3>3. run[r].pc \notin CreateCalls
        BY <2>1, <3>1, <3>2 DEF SoundRun, Undisturbed
      <3>4. run[r].pc \notin {"refundEntry", "rejected"}
        <4>1. ~ MovedMoney(r) \/ run[r].wallet # withdrawal[w].wallet
          BY <1>1, <2>1, <3>1, <3>2 DEF OnWallet
        <4> QED
          BY <3>1, <3>2, <4>1 DEF SoundRun, RejectCalls, MovedMoney
      <3>5. run[r].pc \in PayCalls \cup Unpaid
        BY <3>1, <3>3, <3>4 DEF Calls, RejectCalls, Unpaid
      <3> QED
        BY <3>1, <3>2, <3>5 DEF Exact
    <2>3. Matches(w)
      BY <1>2, <2>1, <2>2 DEF Orderly
    <2> QED
      BY <1>1, <2>3 DEF Matches, rows, money
  <1>3. \A w \in Withdrawals : \A r \in Runs : ~ On(r, w)'
    BY <1>1 DEF On
  <1>4. \A w \in Withdrawals : Orderly(w)'
    BY <1>1, <1>2, <1>3 DEF Orderly
  <1> QED
    BY <1>4 DEF OrderInv

\* A request begins: alone on its withdrawal, or it overlaps.
LEMMA ArriveOrderly ==
    ASSUME OrderInv, SoundInv', NEW r \in Runs, Arrive(r)
    PROVE  OrderInv'
  <1>1. PICK w \in Withdrawals, pc \in {"debit", "read", "check"}, x \in Wallets, a \in Nat,
             early \in BOOLEAN, h \in Hashes \cup {NoHash} : Entered(r, pc, w, x, a, early, h)
    BY ArriveIs DEF OrderInv
  <1>2. /\ run[r] = Idle /\ run'[r].pc = pc /\ run'[r].wd = w
        /\ \A s \in Runs \ {r} : run'[s] = run[s]
        /\ overlapped' = IF \E q \in Runs : On(q, w) THEN overlapped \cup {w} ELSE overlapped
    BY <1>1, EnterFacts DEF Entered, OrderInv
  <1>3. UNCHANGED <<rows, money, failures, interrupted>>
    BY <1>1 DEF Entered
  <1>4. ASSUME NEW v \in Withdrawals, v # w
        PROVE  Orderly(v)'
    <2>1. \A s \in Runs : On(s, v) \/ On(s, v)' => run'[s] = run[s]
      BY <1>2, <1>4 DEF On
    <2>2. v \in overlapped => v \in overlapped'
      BY <1>2
    <2> QED
      BY <1>3, <1>4, <2>1, <2>2, UntouchedStaysOrderly DEF OrderInv, rows, money
  <1>5. ASSUME w \notin overlapped'
        PROVE  Orderly(w)'
    <2>1. w \notin overlapped /\ (\A q \in Runs : ~ On(q, w)) /\ Orderly(w)
      BY <1>2, <1>5 DEF OrderInv
    <2>2. \A s \in Runs : On(s, w)' => s = r
      BY <1>2, <2>1 DEF On
    <2>3. On(r, w)'
      BY <1>2, IdleCalls DEF On, Calls, CreateCalls, PayCalls, RejectCalls
    <2>4. InOrder(r)'
      BY <1>2 DEF InOrder, RejectCalls
    <2>5. Undisturbed(w)' => Matches(w)'
      BY <1>3, <2>1 DEF Orderly, Undisturbed, Exists, Matches, rows, money
    <2>6. Undisturbed(w)' => Exact(r)'
      BY <1>2, <2>5 DEF Exact
    <2> QED
      BY <2>2, <2>3, <2>4, <2>6 DEF Orderly
  <1>6. Orderly(w)'
    BY <1>5 DEF Orderly
  <1> QED
    BY <1>4, <1>6 DEF OrderInv

LEMMA NextOrderly == OrderInv /\ [Next]_vars => OrderInv'
  <1> SUFFICES ASSUME OrderInv, [Next]_vars
               PROVE  OrderInv'
    OBVIOUS
  <1>1. SoundInv'
    BY NextSound DEF OrderInv
  <1>2. ASSUME NEW r \in Runs, Step(r)
        PROVE  OrderInv'
    BY <1>1, <1>2, PlainStepsOrderly, RecordOrderly, RefundOrderly, InsertOrderly, StatusOrderly,
       BreaksOffOrderly DEF Step
  <1>3. CASE (\E h \in Hashes : RecordElsewhere(h)) \/ UNCHANGED vars
    <2>1. UNCHANGED <<withdrawal, money, run, history>>
      BY <1>3 DEF RecordElsewhere, vars, rows
    <2>2. ASSUME NEW w \in Withdrawals
          PROVE  Orderly(w)'
      BY <2>1, UntouchedStaysOrderly DEF OrderInv, money, history
    <2> QED
      BY <1>1, <2>2 DEF OrderInv
  <1> QED
    BY <1>1, <1>2, <1>3, ArriveOrderly, BreaksOffOrderly, CrashOrderly DEF Next

THEOREM OrderAlways == Spec => []OrderInv
  BY InitOrderly, NextOrderly, PTL DEF Spec

\* With no overlap on a withdrawal and no handler cut short on its wallet, it
\* is refunded in full if REJECTED and not at all otherwise.
THEOREM RefundMatches == Spec => []RefundMatchesStatus
  <1>1. OrderInv => RefundMatchesStatus
    <2> SUFFICES ASSUME OrderInv, NEW w \in Withdrawals \ overlapped, Exists(w),
                        \A r \in Runs : ~ On(r, w), withdrawal[w].wallet \notin interrupted
                 PROVE  Matches(w)
      BY DEF RefundMatchesStatus, Matches
    <2> QED
      BY DEF OrderInv, Orderly, Undisturbed
  <1> QED
    BY <1>1, OrderAlways, PTL

(* ---------------------------------------------------------------------- *)
(* Wallets whose changes do not overlap                                   *)

\* The calls that write a balance.
Writes == {"debitWrite", "refundWrite"}
Writing(r, x) == run[r].pc \in Writes /\ run[r].wallet = x

\* One handler at a time is about to write, over the balance it read.
Unraced(x) ==
    x \notin raced =>
        /\ displaced[x] = 0
        /\ \A r, s \in Runs : Writing(r, x) /\ Writing(s, x) => r = s
        /\ \A r \in Runs : Writing(r, x) => run[r].was = balance[x]

RaceInv == \A x \in Wallets : Unraced(x)

\* Steps that neither read for a write nor write.
LEMMA NoRace ==
    ASSUME RaceInv, UNCHANGED <<balance, races>>,
           \A s \in Runs : run'[s].pc \in Writes => run'[s] = run[s]
    PROVE  RaceInv'
  BY DEF RaceInv, Unraced, Writing, races

\* A handler that reads for a write while another is about to write is noted.
LEMMA RereadRaces ==
    ASSUME SoundInv, RaceInv, NEW r \in Runs, DebitReread(r) \/ RefundReread(r)
    PROVE  RaceInv'
  <1>1. PICK pc \in Calls : Reread(r, pc) /\ run[r].pc \in Calls
    BY DEF DebitReread, RefundReread, At, Calls, CreateCalls, RejectCalls
  <1>2. /\ GoesOn(r, pc) /\ run'[r].was = balance[run[r].wallet] /\ SoundInv
    BY <1>1, RereadKeeps DEF SoundInv
  <1>3. balance' = balance /\ displaced' = displaced
    BY DEF DebitReread, RefundReread
  <1> SUFFICES ASSUME NEW x \in Wallets, x \notin raced' PROVE Unraced(x)'
    BY DEF RaceInv, Unraced
  <1>4. CASE run[r].wallet # x
    <2>1. x \notin raced
      BY <1>1, <1>4 DEF Reread
    <2>2. \A s \in Runs : Writing(s, x)' => Writing(s, x) /\ run'[s] = run[s]
      BY <1>2, <1>4 DEF GoesOn, Writing
    <2> QED
      BY <1>3, <2>1, <2>2 DEF RaceInv, Unraced
  <1>5. CASE run[r].wallet = x
    <2>1. x \notin raced /\ \A q \in Runs : ~ (OnWallet(q, x) /\ run[q].pc \in Writes)
      BY <1>1, <1>5 DEF Reread, Writes
    <2>2. \A q \in Runs : ~ Writing(q, x)
      BY <2>1, Kinds DEF Writing, Writes, OnWallet, SoundInv, Calls, CreateCalls, RejectCalls
    <2>3. \A s \in Runs : Writing(s, x)' => s = r
      BY <1>2, <2>2 DEF GoesOn, Writing
    <2> QED
      BY <1>2, <1>3, <1>5, <2>1, <2>3 DEF RaceInv, Unraced
  <1> QED
    BY <1>4, <1>5

\* A write by a handler that nobody overlapped displaces nothing.
LEMMA WriteRaces ==
    ASSUME SoundInv, RaceInv, NEW r \in Runs, DebitWrite(r) \/ RefundWrite(r)
    PROVE  RaceInv'
  <1>1. PICK pc \in {"net", "refundEntry"}, new \in Nat :
            Continue(r, pc) /\ WriteBalance(r, new)
    <2>1. CASE DebitWrite(r)
      <3>1. run[r].was - run[r].amount \in Nat
        BY <2>1, Running DEF DebitWrite, At, SoundRun, Calls, CreateCalls
      <3> QED
        BY <2>1, <3>1 DEF DebitWrite
    <2>2. CASE RefundWrite(r)
      <3>1. PICK w : w = run[r].wd
        OBVIOUS
      <3> QED
        BY <2>2, <3>1, RefundFacts
    <2> QED
      BY <2>1, <2>2
  <1>2. run[r].pc \in Writes /\ run[r].pc \in Calls /\ pc \in Calls /\ pc \notin Writes
    BY DEF DebitWrite, RefundWrite, At, Writes, Calls, CreateCalls, RejectCalls
  <1>3. run'[r].pc = pc /\ \A s \in Runs \ {r} : run'[s] = run[s]
    BY <1>1, <1>2, ContinueKeeps DEF SoundInv
  <1>4. PICK z : z = run[r].wallet
    OBVIOUS
  <1>5. /\ \A y \in Wallets \ {z} : balance'[y] = balance[y] /\ displaced'[y] = displaced[y]
        /\ displaced'[z] = displaced[z] + run[r].was - balance[z]
        /\ raced' = raced
    BY <1>1, <1>2, <1>4, WriteKeeps
  <1>6. \A s \in Runs : \A x : Writing(s, x)' => Writing(s, x) /\ run'[s] = run[s] /\ s # r
    BY <1>2, <1>3 DEF Writing
  <1> SUFFICES ASSUME NEW x \in Wallets, x \notin raced PROVE Unraced(x)'
    BY <1>5 DEF RaceInv, Unraced
  <1>7. CASE x # z
    BY <1>5, <1>6, <1>7 DEF RaceInv, Unraced
  <1>8. CASE x = z
    <2>1. Writing(r, x)
      BY <1>2, <1>4, <1>8 DEF Writing
    <2>2. run[r].was = balance[x] /\ displaced[x] = 0 /\ balance[x] \in Nat
      BY <2>1 DEF RaceInv, Unraced, SoundInv, TypeOK
    <2>3. \A s \in Runs : ~ Writing(s, x)'
      BY <1>6, <2>1 DEF RaceInv, Unraced
    <2> QED
      BY <1>5, <1>8, <2>2, <2>3 DEF Unraced
  <1> QED
    BY <1>7, <1>8

LEMMA NextRaces == SoundInv /\ RaceInv /\ [Next]_vars => RaceInv'
  <1> SUFFICES ASSUME SoundInv, RaceInv, [Next]_vars
               PROVE  RaceInv'
    OBVIOUS
  <1>1. ASSUME NEW r \in Runs, Arrive(r)
        PROVE  RaceInv'
    <2>1. PICK w \in Withdrawals, pc \in {"debit", "read", "check"}, x \in Wallets, a \in Nat,
               early \in BOOLEAN, h \in Hashes \cup {NoHash} : Entered(r, pc, w, x, a, early, h)
      BY <1>1, ArriveIs
    <2>2. /\ run'[r].pc = pc /\ \A s \in Runs \ {r} : run'[s] = run[s]
          /\ UNCHANGED <<balance, races>>
      BY <2>1, EnterFacts DEF Entered, money
    <2> QED
      BY <2>2, NoRace DEF Writes
  <1>2. ASSUME NEW r \in Runs, Insert(r) \/ Complete(r) \/ SetRejected(r) \/ Throw(r) \/ Fail(r)
        PROVE  RaceInv'
    <2>1. End(r) /\ UNCHANGED <<balance, races>>
      BY <1>2 DEF Insert, Complete, SetRejected, Throw, Fail, money
    <2>2. run'[r].pc = "idle" /\ \A s \in Runs \ {r} : run'[s] = run[s]
      BY <2>1, EndKeeps DEF SoundInv
    <2> QED
      BY <2>1, <2>2, NoRace DEF Writes
  <1>3. ASSUME NEW r \in Runs, \/ Debit(r) \/ NetEntry(r) \/ FeeEntry(r) \/ PenaltyEntry(r)
                               \/ Read(r) \/ Lookup(r) \/ Record(r) \/ Check(r) \/ RefundEntry(r)
        PROVE  RaceInv'
    <2>1. PICK pc \in Calls : Continue(r, pc) /\ run[r].pc \in Calls /\ pc \notin Writes
      <3>1. CASE FeeEntry(r)
        <4>1. PICK pc \in {"penalty", "insert"} : Continue(r, pc)
          BY <3>1 DEF FeeEntry
        <4> QED
          BY <3>1, <4>1 DEF FeeEntry, At, Writes, Calls, CreateCalls
      <3>2. CASE Debit(r) \/ NetEntry(r) \/ PenaltyEntry(r)
        BY <3>2 DEF Debit, NetEntry, PenaltyEntry, At, Writes, Calls, CreateCalls
      <3>3. CASE Read(r) \/ Lookup(r) \/ Record(r) \/ Check(r) \/ RefundEntry(r)
        BY <3>3 DEF Read, Lookup, Record, Check, RefundEntry, At, Writes, Calls, PayCalls, RejectCalls
      <3> QED
        BY <1>3, <3>1, <3>2, <3>3
    <2>2. run'[r].pc \notin Writes /\ \A s \in Runs \ {r} : run'[s] = run[s]
      BY <2>1, ContinueKeeps DEF SoundInv
    <2>3. UNCHANGED <<balance, races>>
      BY <1>3 DEF Debit, NetEntry, FeeEntry, PenaltyEntry, Read, Lookup, Record, Check, RefundEntry,
                  money
    <2> QED
      BY <2>2, <2>3, NoRace
  <1>4. ASSUME NEW r \in Runs, Refund(r)
        PROVE  RaceInv'
    <2>1. run'[r].pc = "refundReread" /\ \A s \in Runs \ {r} : run'[s] = run[s]
      BY <1>4, RefundKeeps DEF SoundInv, GoesOn
    <2>2. UNCHANGED <<balance, races>>
      BY <1>4 DEF Refund, money
    <2> QED
      BY <2>1, <2>2, NoRace DEF Writes
  <1>5. ASSUME NEW r \in Runs, Step(r)
        PROVE  RaceInv'
    BY <1>2, <1>3, <1>4, <1>5, RereadRaces, WriteRaces DEF Step
  <1>6. CASE (\E h \in Hashes : RecordElsewhere(h)) \/ UNCHANGED vars
    BY <1>6, NoRace DEF RecordElsewhere, vars, money
  <1>7. CASE Crash
    <2>1. \A s \in Runs : run'[s].pc \notin Writes
      BY <1>7, IdleCalls DEF Crash, Writes, Calls, CreateCalls, RejectCalls
    <2> QED
      BY <1>7, <2>1, NoRace DEF Crash, money
  <1> QED
    BY <1>1, <1>2, <1>5, <1>6, <1>7 DEF Next

LEMMA InitRaces == Init => RaceInv
  BY IdleCalls DEF Init, RaceInv, Unraced, Writing, Writes, Calls, CreateCalls, RejectCalls

(* ---------------------------------------------------------------------- *)
(* The money of a wallet                                                  *)

\* What a total that can be counted becomes when one of its terms changes.
LEMMA TotalChanges ==
    ASSUME NEW S, NEW f \in [S -> Nat], NEW g \in [S -> Nat], NEW x \in S,
           \A y \in S \ {x} : g[y] = f[y], IsFiniteSet(Units(f))
    PROVE  /\ IsFiniteSet(Units(g))
           /\ Total(g) = Total(f) - f[x] + g[x]
           /\ Total(f) \in Nat /\ f[x] <= Total(f)
  <1> DEFINE Column(k) == {x} \X (1..k)
             Rest == Units(f) \ Column(f[x])
  <1>1. \A k \in Nat : IsFiniteSet(Column(k)) /\ Cardinality(Column(k)) = k
    <2> TAKE k \in Nat
    <2>1. IsFiniteSet(1..k) /\ Cardinality(1..k) = k
      <3>1. 1 \in Int /\ k \in Int /\ (IF 1 > k THEN 0 ELSE k - 1 + 1) = k
        OBVIOUS
      <3> QED
        BY <3>1, FS_Interval, Zenon
    <2>2. IsFiniteSet({x}) /\ Cardinality({x}) = 1
      BY FS_Singleton, Zenon
    <2>3. IsFiniteSet(Column(k)) /\ Cardinality(Column(k)) = Cardinality({x}) * Cardinality(1..k)
      BY <2>1, <2>2, FS_Product
    <2> QED
      BY <2>1, <2>2, <2>3
  <1>2. Units(f) \cap Column(f[x]) = Column(f[x])
    BY DEF Units
  <1>3. Units(g) = Rest \cup Column(g[x]) /\ Rest \cap Column(g[x]) = {}
    BY DEF Units
  <1> HIDE DEF Column
  <1>4. IsFiniteSet(Rest) /\ Cardinality(Rest) = Cardinality(Units(f)) - Cardinality(Column(f[x]))
    BY <1>2, FS_Difference
  <1> HIDE DEF Rest
  <1>5. /\ IsFiniteSet(Units(g))
        /\ Cardinality(Units(g)) = Cardinality(Rest) + Cardinality(Column(g[x])) - Cardinality({})
    <2>1. IsFiniteSet(Column(g[x]))
      BY <1>1
    <2> QED
      BY <1>3, <1>4, <2>1, FS_Union
  <1>6. Cardinality(Units(f)) \in Nat /\ Cardinality(Rest) \in Nat /\ Cardinality({}) = 0
    BY <1>4, FS_CardinalityType, FS_EmptySet
  <1>7. Cardinality(Column(f[x])) = f[x] /\ Cardinality(Column(g[x])) = g[x]
    BY <1>1
  <1> QED
    BY <1>4, <1>5, <1>6, <1>7 DEF Total

\* A total whose terms only shrink does not grow.
LEMMA TotalShrinks ==
    ASSUME NEW S, NEW f \in [S -> Nat], NEW g \in [S -> Nat],
           \A x \in S : g[x] <= f[x], IsFiniteSet(Units(f))
    PROVE  IsFiniteSet(Units(g)) /\ Total(g) <= Total(f) /\ Total(g) \in Nat /\ Total(f) \in Nat
  <1>1. Units(g) \subseteq Units(f)
    BY DEF Units
  <1> QED
    BY <1>1, FS_Subset, FS_CardinalityType DEF Total

\* The total of nothing.
LEMMA TotalOfNothing ==
    ASSUME NEW S PROVE IsFiniteSet(Units([x \in S |-> 0])) /\ Total([x \in S |-> 0]) = 0
  <1>1. Units([x \in S |-> 0]) = {}
    BY DEF Units
  <1> QED
    BY <1>1, FS_EmptySet DEF Total

\* What a handler has taken off wallet x and not yet put in a record; of that,
\* what the ledger does not show yet; and what it has refunded but not booked.
PenaltyOf(q) == IF q.early THEN q.amount \div 10 ELSE 0
TakenOf(q, x) ==
    IF q.pc \in {"net", "fee", "penalty", "insert"} /\ q.wallet = x THEN q.amount ELSE 0
UnbookedOf(q, x) ==
    CASE q.pc = "net" /\ q.wallet = x -> q.amount
      [] q.pc = "fee" /\ q.wallet = x -> Fee(q.amount) + PenaltyOf(q)
      [] q.pc = "penalty" /\ q.wallet = x -> PenaltyOf(q)
      [] OTHER -> 0
CreditedOf(q, x) == IF q.pc = "refundEntry" /\ q.wallet = x THEN q.amount ELSE 0

Taken(x) == [r \in Runs |-> TakenOf(run[r], x)]
Unbooked(x) == [r \in Runs |-> UnbookedOf(run[r], x)]
Credited(x) == [r \in Runs |-> CreditedOf(run[r], x)]

\* The money of a wallet is on it, in withdrawals or in handlers; and what its
\* ledger does not explain is what handlers have still to book.  Both up to what
\* its writes displaced.
Accounted(x) ==
    /\ IsFiniteSet(Units(Asked(x))) /\ IsFiniteSet(Units(Returned(x)))
    /\ IsFiniteSet(Units(Taken(x))) /\ IsFiniteSet(Units(Unbooked(x)))
    /\ IsFiniteSet(Units(Credited(x)))
    /\ balance[x] + Total(Asked(x)) + Total(Taken(x)) <= Funds[x] + Total(Returned(x)) + displaced[x]
    /\ x \notin interrupted =>
           Funds[x] + ledger[x] + Total(Credited(x)) + displaced[x] = balance[x] + Total(Unbooked(x))

MoneyInv == \A x \in Wallets : Accounted(x)

\* All these are functions to numbers.
Tallied ==
    \A x \in Wallets :
        /\ Asked(x) \in [Withdrawals -> Nat] /\ Returned(x) \in [Withdrawals -> Nat]
        /\ Taken(x) \in [Runs -> Nat] /\ Unbooked(x) \in [Runs -> Nat] /\ Credited(x) \in [Runs -> Nat]
        /\ balance[x] \in Nat /\ ledger[x] \in Int /\ displaced[x] \in Int /\ Funds[x] \in Nat

LEMMA TermsAreNumbers ==
    ASSUME NEW q \in RunState \cup {Idle}, NEW x
    PROVE  TakenOf(q, x) \in Nat /\ UnbookedOf(q, x) \in Nat /\ CreditedOf(q, x) \in Nat
  <1>1. CASE q = Idle
    BY <1>1 DEF Idle, TakenOf, UnbookedOf, CreditedOf
  <1>2. CASE q \in RunState
    <2>1. q.amount \in Nat /\ q.early \in BOOLEAN
      BY <1>2 DEF RunState
    <2>2. Fee(q.amount) \in Nat /\ PenaltyOf(q) \in Nat
      BY <2>1 DEF Fee, PenaltyOf
    <2> QED
      BY <2>1, <2>2 DEF TakenOf, UnbookedOf, CreditedOf
  <1> QED
    BY <1>1, <1>2

LEMMA SoundTallied == SoundInv => Tallied
  <1> SUFFICES ASSUME SoundInv, NEW x \in Wallets
               PROVE  /\ Asked(x) \in [Withdrawals -> Nat] /\ Returned(x) \in [Withdrawals -> Nat]
                      /\ Taken(x) \in [Runs -> Nat] /\ Unbooked(x) \in [Runs -> Nat]
                      /\ Credited(x) \in [Runs -> Nat]
                      /\ balance[x] \in Nat /\ ledger[x] \in Int /\ displaced[x] \in Int /\ Funds[x] \in Nat
    BY DEF Tallied
  <1>1. \A r \in Runs : run[r] \in RunState \cup {Idle}
    BY DEF SoundInv, TypeOK
  <1>2. Taken(x) \in [Runs -> Nat] /\ Unbooked(x) \in [Runs -> Nat] /\ Credited(x) \in [Runs -> Nat]
    BY <1>1, TermsAreNumbers DEF Taken, Unbooked, Credited
  <1>3. \A w \in Withdrawals : Exists(w) => withdrawal[w].amount \in Nat
    BY ExistingRow DEF SoundInv
  <1>4. Asked(x) \in [Withdrawals -> Nat] /\ Returned(x) \in [Withdrawals -> Nat]
    BY <1>3 DEF Asked, Returned, From, SoundInv, TypeOK
  <1> QED
    BY <1>2, <1>4, WalletAssumption DEF SoundInv, TypeOK

\* What is known of a wallet, and what is to be shown of it after a step.
LEMMA AccountOf ==
    ASSUME SoundInv, MoneyInv, NEW x \in Wallets
    PROVE  /\ Asked(x) \in [Withdrawals -> Nat] /\ Returned(x) \in [Withdrawals -> Nat]
           /\ Taken(x) \in [Runs -> Nat] /\ Unbooked(x) \in [Runs -> Nat]
           /\ Credited(x) \in [Runs -> Nat]
           /\ balance[x] \in Nat /\ ledger[x] \in Int /\ displaced[x] \in Int /\ Funds[x] \in Nat
           /\ IsFiniteSet(Units(Asked(x))) /\ Total(Asked(x)) \in Nat
           /\ IsFiniteSet(Units(Returned(x))) /\ Total(Returned(x)) \in Nat
           /\ IsFiniteSet(Units(Taken(x))) /\ Total(Taken(x)) \in Nat
           /\ IsFiniteSet(Units(Unbooked(x))) /\ Total(Unbooked(x)) \in Nat
           /\ IsFiniteSet(Units(Credited(x))) /\ Total(Credited(x)) \in Nat
           /\ balance[x] + Total(Asked(x)) + Total(Taken(x)) <= Funds[x] + Total(Returned(x)) + displaced[x]
           /\ x \notin interrupted =>
                  Funds[x] + ledger[x] + Total(Credited(x)) + displaced[x] = balance[x] + Total(Unbooked(x))
  <1>1. Accounted(x) /\ Tallied
    BY SoundTallied DEF MoneyInv
  <1>2. \A f : IsFiniteSet(Units(f)) => Total(f) \in Nat
    BY FS_CardinalityType DEF Total
  <1> QED
    BY <1>1, <1>2 DEF Accounted, Tallied

LEMMA AccountNext ==
    ASSUME NEW x \in Wallets,
           IsFiniteSet(Units(Asked(x)')), IsFiniteSet(Units(Returned(x)')),
           IsFiniteSet(Units(Taken(x)')), IsFiniteSet(Units(Unbooked(x)')),
           IsFiniteSet(Units(Credited(x)')),
           balance'[x] + Total(Asked(x)') + Total(Taken(x)') <= Funds[x] + Total(Returned(x)') + displaced'[x],
           x \notin interrupted' =>
               Funds[x] + ledger'[x] + Total(Credited(x)') + displaced'[x] = balance'[x] + Total(Unbooked(x)')
    PROVE  Accounted(x)'
  BY DEF Accounted, Total, Units

\* What a step of handler r alone changes of the handlers' totals.
LEMMA TallyStep ==
    ASSUME SoundInv, Tallied', MoneyInv, NEW r \in Runs,
           \A s \in Runs \ {r} : run'[s] = run[s], NEW x \in Wallets
    PROVE  /\ IsFiniteSet(Units(Taken(x)'))
           /\ Total(Taken(x)') = Total(Taken(x)) - TakenOf(run[r], x) + TakenOf(run'[r], x)
           /\ IsFiniteSet(Units(Unbooked(x)'))
           /\ Total(Unbooked(x)') = Total(Unbooked(x)) - UnbookedOf(run[r], x) + UnbookedOf(run'[r], x)
           /\ IsFiniteSet(Units(Credited(x)'))
           /\ Total(Credited(x)') = Total(Credited(x)) - CreditedOf(run[r], x) + CreditedOf(run'[r], x)
  <1>1. /\ \A s \in Runs : Taken(x)[s] = TakenOf(run[s], x) /\ Taken(x)'[s] = TakenOf(run'[s], x)
        /\ \A s \in Runs : Unbooked(x)[s] = UnbookedOf(run[s], x)
                           /\ Unbooked(x)'[s] = UnbookedOf(run'[s], x)
        /\ \A s \in Runs : Credited(x)[s] = CreditedOf(run[s], x)
                           /\ Credited(x)'[s] = CreditedOf(run'[s], x)
    BY DEF Taken, Unbooked, Credited, TakenOf, UnbookedOf, CreditedOf, PenaltyOf
  <1>2. /\ Taken(x) \in [Runs -> Nat] /\ Unbooked(x) \in [Runs -> Nat] /\ Credited(x) \in [Runs -> Nat]
        /\ IsFiniteSet(Units(Taken(x))) /\ IsFiniteSet(Units(Unbooked(x)))
        /\ IsFiniteSet(Units(Credited(x)))
    BY AccountOf
  <1>3. Taken(x)' \in [Runs -> Nat] /\ Unbooked(x)' \in [Runs -> Nat] /\ Credited(x)' \in [Runs -> Nat]
    BY DEF Tallied
  <1>4. /\ IsFiniteSet(Units(Taken(x)'))
        /\ Total(Taken(x)') = Total(Taken(x)) - Taken(x)[r] + Taken(x)'[r]
    BY <1>1, <1>2, <1>3, TotalChanges
  <1>5. /\ IsFiniteSet(Units(Unbooked(x)'))
        /\ Total(Unbooked(x)') = Total(Unbooked(x)) - Unbooked(x)[r] + Unbooked(x)'[r]
    BY <1>1, <1>2, <1>3, TotalChanges
  <1>6. /\ IsFiniteSet(Units(Credited(x)'))
        /\ Total(Credited(x)') = Total(Credited(x)) - Credited(x)[r] + Credited(x)'[r]
    BY <1>1, <1>2, <1>3, TotalChanges
  <1> QED
    BY <1>1, <1>4, <1>5, <1>6

\* The rows ask the same of every wallet.
SameRows ==
    \A w \in Withdrawals : /\ Exists(w)' <=> Exists(w)
                           /\ Exists(w) => /\ withdrawal'[w].wallet = withdrawal[w].wallet
                                           /\ withdrawal'[w].amount = withdrawal[w].amount

LEMMA RowsKept ==
    ASSUME SameRows, UNCHANGED refunded, NEW x \in Wallets
    PROVE  Asked(x)' = Asked(x) /\ Returned(x)' = Returned(x)
  BY DEF SameRows, Asked, Returned, From

\* A step of one handler that moves no money and has none to move.
LEMMA NoMoneyMoves ==
    ASSUME SoundInv, Tallied', MoneyInv, NEW r \in Runs,
           \A s \in Runs \ {r} : run'[s] = run[s], SameRows,
           UNCHANGED <<balance, ledger, refunded, displaced>>,
           interrupted \subseteq interrupted',
           run'[r].pc \notin {"net", "fee", "penalty", "insert", "refundEntry"},
           \/ run[r].pc \notin {"net", "fee", "penalty", "insert", "refundEntry"}
           \/ run[r].wallet \in interrupted'
    PROVE  MoneyInv'
  <1> SUFFICES ASSUME NEW x \in Wallets PROVE Accounted(x)'
    BY DEF MoneyInv
  <1>1. /\ TakenOf(run'[r], x) = 0 /\ UnbookedOf(run'[r], x) = 0 /\ CreditedOf(run'[r], x) = 0
    BY DEF TakenOf, UnbookedOf, CreditedOf
  <1>2. /\ TakenOf(run[r], x) \in Nat
        /\ UnbookedOf(run[r], x) \in Nat /\ CreditedOf(run[r], x) \in Nat
    BY TermsAreNumbers DEF SoundInv, TypeOK
  <1>3. x \notin interrupted' => /\ UnbookedOf(run[r], x) = 0 /\ CreditedOf(run[r], x) = 0
    BY DEF UnbookedOf, CreditedOf
  <1>4. /\ balance' = balance /\ ledger' = ledger /\ displaced' = displaced
        /\ Asked(x)' = Asked(x) /\ Returned(x)' = Returned(x)
    BY RowsKept
  <1>5. /\ balance'[x] + Total(Asked(x)') + Total(Taken(x)') <= Funds[x] + Total(Returned(x)') + displaced'[x]
        /\ x \notin interrupted' =>
               Funds[x] + ledger'[x] + Total(Credited(x)') + displaced'[x] = balance'[x] + Total(Unbooked(x)')
    BY <1>1, <1>2, <1>3, <1>4, AccountOf, TallyStep
  <1> QED
    BY <1>4, <1>5, AccountOf, TallyStep, AccountNext

\* A handler goes on and moves money of its wallet.
LEMMA MoneyMoves ==
    ASSUME SoundInv, Tallied', MoneyInv, NEW r \in Runs, run[r].pc \in Calls,
           NEW pc \in Calls, GoesOn(r, pc), UNCHANGED <<rows, refunded, interrupted>>,
           \A x \in Wallets : x # run[r].wallet =>
               balance'[x] = balance[x] /\ ledger'[x] = ledger[x] /\ displaced'[x] = displaced[x],
           LET x == run[r].wallet
               next == run'[r]
               own == balance[x] - displaced[x]
               own2 == balance'[x] - displaced'[x]
           IN  /\ own2 + TakenOf(next, x) = own + TakenOf(run[r], x)
               /\ ledger'[x] - own2 + CreditedOf(next, x) - UnbookedOf(next, x)
                    = ledger[x] - own + CreditedOf(run[r], x) - UnbookedOf(run[r], x)
    PROVE  MoneyInv'
  <1> SUFFICES ASSUME NEW x \in Wallets PROVE Accounted(x)'
    BY DEF MoneyInv
  <1>1. run'[r].wallet = run[r].wallet /\ \A s \in Runs \ {r} : run'[s] = run[s]
    BY DEF GoesOn
  <1>2. Asked(x)' = Asked(x) /\ Returned(x)' = Returned(x)
    BY RowsKept DEF SameRows, Exists, rows
  <1>3. /\ TakenOf(run[r], x) \in Nat /\ UnbookedOf(run[r], x) \in Nat /\ CreditedOf(run[r], x) \in Nat
        /\ TakenOf(run'[r], x) \in Nat /\ UnbookedOf(run'[r], x) \in Nat
        /\ CreditedOf(run'[r], x) \in Nat
    <2>1. run[r] \in RunState \cup {Idle} /\ run'[r] \in RunState \cup {Idle}
      BY DEF GoesOn, SoundInv, TypeOK
    <2> QED
      BY <2>1, TermsAreNumbers
  <1>4. x # run[r].wallet =>
            /\ TakenOf(run[r], x) = 0 /\ UnbookedOf(run[r], x) = 0 /\ CreditedOf(run[r], x) = 0
            /\ TakenOf(run'[r], x) = 0 /\ UnbookedOf(run'[r], x) = 0 /\ CreditedOf(run'[r], x) = 0
    BY <1>1 DEF TakenOf, UnbookedOf, CreditedOf
  <1>5. /\ balance'[x] \in Nat /\ ledger'[x] \in Int /\ displaced'[x] \in Int
        /\ balance[x] \in Nat /\ ledger[x] \in Int /\ displaced[x] \in Int
    BY AccountOf DEF Tallied
  <1>6. /\ balance'[x] - displaced'[x] + TakenOf(run'[r], x)
             = balance[x] - displaced[x] + TakenOf(run[r], x)
        /\ ledger'[x] - (balance'[x] - displaced'[x]) + CreditedOf(run'[r], x) - UnbookedOf(run'[r], x)
             = ledger[x] - (balance[x] - displaced[x]) + CreditedOf(run[r], x) - UnbookedOf(run[r], x)
    BY <1>3, <1>4, <1>5
  <1>7. /\ balance'[x] + Total(Asked(x)') + Total(Taken(x)') <= Funds[x] + Total(Returned(x)') + displaced'[x]
        /\ x \notin interrupted' =>
               Funds[x] + ledger'[x] + Total(Credited(x)') + displaced'[x] = balance'[x] + Total(Unbooked(x)')
    <2>1. /\ Total(Asked(x)) \in Nat /\ Total(Returned(x)) \in Nat /\ Total(Taken(x)) \in Nat
          /\ Total(Unbooked(x)) \in Nat /\ Total(Credited(x)) \in Nat /\ Funds[x] \in Nat
          /\ balance[x] + Total(Asked(x)) + Total(Taken(x))
               <= Funds[x] + Total(Returned(x)) + displaced[x]
          /\ x \notin interrupted =>
                 Funds[x] + ledger[x] + Total(Credited(x)) + displaced[x]
                   = balance[x] + Total(Unbooked(x))
      BY AccountOf
    <2>2. /\ Total(Taken(x)') = Total(Taken(x)) - TakenOf(run[r], x) + TakenOf(run'[r], x)
          /\ Total(Unbooked(x)') = Total(Unbooked(x)) - UnbookedOf(run[r], x) + UnbookedOf(run'[r], x)
          /\ Total(Credited(x)') = Total(Credited(x)) - CreditedOf(run[r], x) + CreditedOf(run'[r], x)
      BY <1>1, TallyStep
    <2>3. interrupted' = interrupted
      OBVIOUS
    <2> QED
      BY <1>2, <1>3, <1>5, <1>6, <2>1, <2>2, <2>3
  <1> QED
    BY <1>1, <1>2, <1>7, AccountOf, TallyStep, AccountNext

\* The debit and the entries of a handler: what leaves one place is in another.
LEMMA MovesAccounted ==
    ASSUME SoundInv, SoundInv', Tallied', MoneyInv, NEW r \in Runs,
           DebitWrite(r) \/ NetEntry(r) \/ FeeEntry(r) \/ PenaltyEntry(r) \/ RefundEntry(r)
    PROVE  MoneyInv'
  <1>1. PICK q, x, a : q = run[r] /\ x = run[r].wallet /\ a = run[r].amount
    OBVIOUS
  <1>2. run[r].pc \in Calls
    BY DEF DebitWrite, NetEntry, FeeEntry, PenaltyEntry, RefundEntry, At, Calls, CreateCalls,
           RejectCalls
  <1>3. /\ x \in Wallets /\ a \in Nat /\ q.early \in BOOLEAN /\ q \in RunState
        /\ balance[x] \in Nat /\ ledger[x] \in Int /\ displaced[x] \in Int /\ q.was \in Nat
    BY <1>1, <1>2, Running
  <1>4. Fee(a) \in Nat /\ PenaltyOf(q) \in Nat /\ Penalty(r) = PenaltyOf(q)
        /\ Net(r) = a - Fee(a) - PenaltyOf(q)
    BY <1>1, <1>3 DEF Fee, PenaltyOf, Penalty, Net
  <1>5. ASSUME NEW pc \in Calls, Continue(r, pc)
        PROVE  /\ GoesOn(r, pc) /\ run'[r].pc = pc /\ run'[r].wallet = x /\ run'[r].amount = a
               /\ PenaltyOf(run'[r]) = PenaltyOf(q)
    BY <1>1, <1>2, <1>5, ContinueKeeps DEF SoundInv, PenaltyOf
  <1>6. /\ q.pc \in {"net", "fee", "penalty", "insert"} => TakenOf(q, x) = a
        /\ q.pc \notin {"net", "fee", "penalty", "insert"} => TakenOf(q, x) = 0
        /\ q.pc = "net" => UnbookedOf(q, x) = a
        /\ q.pc = "fee" => UnbookedOf(q, x) = Fee(a) + PenaltyOf(q)
        /\ q.pc = "penalty" => UnbookedOf(q, x) = PenaltyOf(q)
        /\ q.pc \notin {"net", "fee", "penalty"} => UnbookedOf(q, x) = 0
        /\ q.pc = "refundEntry" => CreditedOf(q, x) = a
        /\ q.pc # "refundEntry" => CreditedOf(q, x) = 0
    BY <1>1 DEF TakenOf, UnbookedOf, CreditedOf
  <1>7. ASSUME NEW pc \in Calls, Continue(r, pc)
        PROVE  LET n == run'[r] IN
               /\ GoesOn(r, pc)
               /\ pc \in {"net", "fee", "penalty", "insert"} => TakenOf(n, x) = a
               /\ pc \notin {"net", "fee", "penalty", "insert"} => TakenOf(n, x) = 0
               /\ pc = "net" => UnbookedOf(n, x) = a
               /\ pc = "fee" => UnbookedOf(n, x) = Fee(a) + PenaltyOf(q)
               /\ pc = "penalty" => UnbookedOf(n, x) = PenaltyOf(q)
               /\ pc \notin {"net", "fee", "penalty"} => UnbookedOf(n, x) = 0
               /\ CreditedOf(n, x) = IF pc = "refundEntry" THEN a ELSE 0
    BY <1>5, <1>7 DEF TakenOf, UnbookedOf, CreditedOf
  <1>8. CASE DebitWrite(r)
    <2>1. Continue(r, "net") /\ "net" \in Calls /\ q.pc = "debitWrite"
      BY <1>1, <1>8 DEF DebitWrite, At, Calls, CreateCalls
    <2>2. /\ balance'[x] = q.was - a /\ displaced'[x] = displaced[x] + q.was - balance[x]
          /\ ledger' = ledger
          /\ \A y \in Wallets : y # x => balance'[y] = balance[y] /\ displaced'[y] = displaced[y]
          /\ UNCHANGED <<rows, refunded, interrupted>>
      BY <1>1, <1>3, <1>8 DEF DebitWrite, WriteBalance, SoundInv, TypeOK, history
    <2> QED
      BY <1>1, <1>2, <1>3, <1>6, <1>7, <2>1, <2>2, MoneyMoves
  <1>9. CASE NetEntry(r)
    <2>1. Continue(r, "fee") /\ "fee" \in Calls /\ q.pc = "net"
      BY <1>1, <1>9 DEF NetEntry, At, Calls, CreateCalls
    <2>2. /\ ledger'[x] = ledger[x] - Net(r) /\ balance' = balance /\ displaced' = displaced
          /\ \A y \in Wallets : y # x => ledger'[y] = ledger[y]
          /\ UNCHANGED <<rows, refunded, interrupted>>
      BY <1>1, <1>3, <1>9 DEF NetEntry, SoundInv, TypeOK, races, history
    <2> QED
      BY <1>1, <1>2, <1>3, <1>4, <1>6, <1>7, <2>1, <2>2, MoneyMoves
  <1>10. CASE FeeEntry(r)
    <2>1. PICK pc \in Calls : /\ Continue(r, pc)
                              /\ pc = IF PenaltyOf(q) > 0 THEN "penalty" ELSE "insert"
      BY <1>4, <1>10 DEF FeeEntry, Calls, CreateCalls
    <2>2. /\ ledger'[x] = ledger[x] - Fee(a) /\ balance' = balance /\ displaced' = displaced
          /\ \A y \in Wallets : y # x => ledger'[y] = ledger[y]
          /\ UNCHANGED <<rows, refunded, interrupted>> /\ q.pc = "fee"
      BY <1>1, <1>3, <1>10 DEF FeeEntry, At, SoundInv, TypeOK, races, history
    <2>3. UnbookedOf(run'[r], x) = PenaltyOf(q) /\ TakenOf(run'[r], x) = a
          /\ CreditedOf(run'[r], x) = 0 /\ GoesOn(r, pc)
      BY <1>4, <1>7, <2>1
    <2> QED
      BY <1>1, <1>2, <1>3, <1>4, <1>6, <2>1, <2>2, <2>3, MoneyMoves
  <1>11. CASE PenaltyEntry(r)
    <2>1. Continue(r, "insert") /\ "insert" \in Calls /\ q.pc = "penalty"
      BY <1>1, <1>11 DEF PenaltyEntry, At, Calls, CreateCalls
    <2>2. /\ ledger'[x] = ledger[x] - PenaltyOf(q) /\ balance' = balance /\ displaced' = displaced
          /\ \A y \in Wallets : y # x => ledger'[y] = ledger[y]
          /\ UNCHANGED <<rows, refunded, interrupted>>
      BY <1>1, <1>3, <1>4, <1>11 DEF PenaltyEntry, SoundInv, TypeOK, races, history
    <2> QED
      BY <1>1, <1>2, <1>3, <1>4, <1>6, <1>7, <2>1, <2>2, MoneyMoves
  <1>12. CASE RefundEntry(r)
    <2>1. Continue(r, "rejected") /\ "rejected" \in Calls /\ q.pc = "refundEntry"
      BY <1>1, <1>12 DEF RefundEntry, At, Calls, RejectCalls
    <2>2. /\ ledger'[x] = ledger[x] + a /\ balance' = balance /\ displaced' = displaced
          /\ \A y \in Wallets : y # x => ledger'[y] = ledger[y]
          /\ UNCHANGED <<rows, refunded, interrupted>>
      BY <1>1, <1>3, <1>12 DEF RefundEntry, SoundInv, TypeOK, races, history
    <2> QED
      BY <1>1, <1>2, <1>3, <1>6, <1>7, <2>1, <2>2, MoneyMoves
  <1> QED
    BY <1>8, <1>9, <1>10, <1>11, <1>12

\* A withdrawal is recorded for the money its handler took.
LEMMA InsertAccounted ==
    ASSUME SoundInv, Tallied', MoneyInv, NEW r \in Runs, Insert(r)
    PROVE  MoneyInv'
  <1>1. PICK w, z, a : w = run[r].wd /\ z = run[r].wallet /\ a = run[r].amount
    OBVIOUS
  <1>2. /\ run[r].pc = "insert" /\ w \in Withdrawals /\ ~ Exists(w) /\ Exists(w)'
        /\ withdrawal'[w].wallet = z /\ withdrawal'[w].amount = a
        /\ \A v \in Withdrawals \ {w} : withdrawal'[v] = withdrawal[v]
        /\ UNCHANGED <<money, history>> /\ refunded[w] = 0
    <2>1. SoundRow(w)
      BY <1>1, InsertFacts DEF SoundInv
    <2> QED
      BY <1>1, <2>1, InsertFacts DEF SoundRow
  <1>3. a \in Nat /\ run'[r] = Idle /\ \A s \in Runs \ {r} : run'[s] = run[s]
    BY <1>1, InsertFacts, EndKeeps, Running DEF SoundInv
  <1> SUFFICES ASSUME NEW x \in Wallets PROVE Accounted(x)'
    BY DEF MoneyInv
  <1>4. /\ TakenOf(run[r], x) = IF z = x THEN a ELSE 0
        /\ UnbookedOf(run[r], x) = 0 /\ CreditedOf(run[r], x) = 0
        /\ TakenOf(run'[r], x) = 0 /\ UnbookedOf(run'[r], x) = 0 /\ CreditedOf(run'[r], x) = 0
    BY <1>1, <1>2, <1>3 DEF TakenOf, UnbookedOf, CreditedOf, Idle
  <1>5. /\ \A v \in Withdrawals \ {w} : Asked(x)'[v] = Asked(x)[v]
        /\ Asked(x)[w] = 0 /\ Asked(x)'[w] = IF z = x THEN a ELSE 0
    BY <1>2 DEF Asked, From, Exists
  <1>6. /\ IsFiniteSet(Units(Asked(x)'))
        /\ Total(Asked(x)') = Total(Asked(x)) - Asked(x)[w] + Asked(x)'[w]
    <2>1. Asked(x) \in [Withdrawals -> Nat] /\ IsFiniteSet(Units(Asked(x)))
      BY AccountOf
    <2>2. Asked(x)' \in [Withdrawals -> Nat]
      BY DEF Tallied
    <2> QED
      BY <1>2, <1>5, <2>1, <2>2, TotalChanges
  <1>7. Returned(x)' = Returned(x)
    BY <1>2 DEF Returned, From, Exists, money
  <1>8. /\ balance'[x] + Total(Asked(x)') + Total(Taken(x)') <= Funds[x] + Total(Returned(x)') + displaced'[x]
        /\ x \notin interrupted' =>
               Funds[x] + ledger'[x] + Total(Credited(x)') + displaced'[x] = balance'[x] + Total(Unbooked(x)')
    <2>1. /\ balance' = balance /\ ledger' = ledger /\ displaced' = displaced
          /\ interrupted' = interrupted
      BY <1>2 DEF money, races, history
    <2> QED
      BY <1>3, <1>4, <1>5, <1>6, <1>7, <2>1, AccountOf, TallyStep
  <1> QED
    BY <1>3, <1>6, <1>7, <1>8, AccountOf, TallyStep, AccountNext

\* A refund: the wallet has it back, and the withdrawal shows it.
LEMMA RefundAccounted ==
    ASSUME SoundInv, Tallied', MoneyInv, NEW r \in Runs, RefundWrite(r)
    PROVE  MoneyInv'
  <1>1. PICK w, z, a : w = run[r].wd /\ z = run[r].wallet /\ a = run[r].amount
    OBVIOUS
  <1>2. /\ run[r].pc = "refundWrite" /\ run[r].pc \in Calls /\ w \in Withdrawals /\ Exists(w)
        /\ a \in Nat /\ GoesOn(r, "refundEntry")
        /\ refunded[w] \in Nat
        /\ refunded'[w] = refunded[w] + a
        /\ \A v \in Withdrawals \ {w} : refunded'[v] = refunded[v]
        /\ UNCHANGED <<rows, ledger, history>>
    BY <1>1, RefundFacts
  <1>3. withdrawal[w].wallet = z /\ z \in Wallets
    BY <1>1, <1>2, Running DEF SoundRun, RejectCalls
  <1>4. /\ run'[r].pc = "refundEntry" /\ run'[r].wallet = z /\ run'[r].amount = a
        /\ \A s \in Runs \ {r} : run'[s] = run[s]
    BY <1>1, <1>2 DEF GoesOn
  <1> SUFFICES ASSUME NEW x \in Wallets PROVE Accounted(x)'
    BY DEF MoneyInv
  <1>5. /\ TakenOf(run[r], x) = 0 /\ UnbookedOf(run[r], x) = 0 /\ CreditedOf(run[r], x) = 0
        /\ TakenOf(run'[r], x) = 0 /\ UnbookedOf(run'[r], x) = 0
        /\ CreditedOf(run'[r], x) = IF z = x THEN a ELSE 0
    BY <1>2, <1>4 DEF TakenOf, UnbookedOf, CreditedOf
  <1>6. /\ \A v \in Withdrawals \ {w} : Returned(x)'[v] = Returned(x)[v]
        /\ Returned(x)'[w] = Returned(x)[w] + (IF z = x THEN a ELSE 0)
    BY <1>2, <1>3 DEF Returned, From, Exists, rows
  <1>7. /\ IsFiniteSet(Units(Returned(x)'))
        /\ Total(Returned(x)') = Total(Returned(x)) - Returned(x)[w] + Returned(x)'[w]
    <2>1. Returned(x) \in [Withdrawals -> Nat] /\ IsFiniteSet(Units(Returned(x)))
      BY AccountOf
    <2>2. Returned(x)' \in [Withdrawals -> Nat]
      BY DEF Tallied
    <2> QED
      BY <1>2, <1>6, <2>1, <2>2, TotalChanges
  <1>8. Asked(x)' = Asked(x)
    BY <1>2 DEF Asked, From, Exists, rows
  <1>9. /\ balance'[x] - displaced'[x] = balance[x] - displaced[x] + (IF z = x THEN a ELSE 0)
        /\ balance'[x] \in Nat /\ displaced'[x] \in Int
        /\ balance[x] \in Nat /\ displaced[x] \in Int
    <2>1. /\ run[r].was + a \in Nat /\ WriteBalance(r, run[r].was + a)
          /\ run[r].was \in Nat /\ balance[x] \in Nat /\ displaced[x] \in Int
      BY <1>1, <1>2, RefundFacts, AccountOf, Running
    <2>2. /\ balance'[z] = run[r].was + a /\ displaced'[z] = displaced[z] + run[r].was - balance[z]
          /\ x # z => balance'[x] = balance[x] /\ displaced'[x] = displaced[x]
      BY <1>1, <1>2, <2>1, WriteKeeps
    <2> QED
      BY <1>2, <2>1, <2>2
  <1>10. Returned(x)[w] \in Nat
    BY <1>2, AccountOf
  <1>11. /\ balance'[x] + Total(Asked(x)') + Total(Taken(x)') <= Funds[x] + Total(Returned(x)') + displaced'[x]
         /\ x \notin interrupted' =>
                Funds[x] + ledger'[x] + Total(Credited(x)') + displaced'[x] = balance'[x] + Total(Unbooked(x)')
    <2>1. ledger' = ledger /\ interrupted' = interrupted
      BY <1>2 DEF history
    <2> QED
      BY <1>2, <1>4, <1>5, <1>6, <1>7, <1>8, <1>9, <1>10, <2>1, AccountOf, TallyStep
  <1> QED
    BY <1>4, <1>7, <1>8, <1>11, AccountOf, TallyStep, AccountNext

\* A step that leaves handlers and money.
LEMMA NothingMoves ==
    ASSUME MoneyInv, UNCHANGED <<withdrawal, balance, ledger, refunded, displaced, run, interrupted>>
    PROVE  MoneyInv'
  <1> SUFFICES ASSUME NEW x \in Wallets PROVE Accounted(x)'
    BY DEF MoneyInv
  <1>1. Asked(x)' = Asked(x) /\ Returned(x)' = Returned(x)
    BY DEF Asked, Returned, From, Exists
  <1>2. Taken(x)' = Taken(x) /\ Unbooked(x)' = Unbooked(x) /\ Credited(x)' = Credited(x)
    BY DEF Taken, Unbooked, Credited, TakenOf, UnbookedOf, CreditedOf, PenaltyOf
  <1>3. /\ Accounted(x) /\ balance' = balance /\ ledger' = ledger /\ displaced' = displaced
        /\ interrupted' = interrupted
    BY DEF MoneyInv
  <1> QED
    BY <1>1, <1>2, <1>3, AccountNext DEF Accounted

\* The server dies: what handlers held is lost, and the wallets are marked.
LEMMA CrashAccounted ==
    ASSUME SoundInv, Tallied', MoneyInv, Crash
    PROVE  MoneyInv'
  <1> SUFFICES ASSUME NEW x \in Wallets PROVE Accounted(x)'
    BY DEF MoneyInv
  <1>1. UNCHANGED <<rows, money>> /\ run' = [r \in Runs |-> Idle]
    BY DEF Crash
  <1>2. /\ Asked(x)' = Asked(x) /\ Returned(x)' = Returned(x)
        /\ balance' = balance /\ ledger' = ledger /\ displaced' = displaced
    BY <1>1 DEF Asked, Returned, From, Exists, rows, money, races
  <1>3. \A r \in Runs : Taken(x)'[r] = 0 /\ Unbooked(x)'[r] = 0 /\ Credited(x)'[r] = 0
    BY <1>1 DEF Taken, Unbooked, Credited, TakenOf, UnbookedOf, CreditedOf, Idle
  <1>4. x \notin interrupted' =>
            x \notin interrupted /\ \A r \in Runs : Unbooked(x)[r] = 0 /\ Credited(x)[r] = 0
    <2>1. ASSUME x \notin interrupted', NEW r \in Runs
          PROVE  UnbookedOf(run[r], x) = 0 /\ CreditedOf(run[r], x) = 0
      <3>1. ~ (OnWallet(r, x) /\ MovedMoney(r))
        BY <2>1 DEF Crash
      <3>2. run[r].pc \in {"net", "fee", "penalty", "refundEntry"} => run[r] # Idle
        BY DEF Idle
      <3> QED
        BY <3>1, <3>2 DEF OnWallet, MovedMoney, UnbookedOf, CreditedOf
    <2> QED
      BY <2>1 DEF Unbooked, Credited, Crash
  <1>5. /\ Taken(x)' \in [Runs -> Nat] /\ Unbooked(x)' \in [Runs -> Nat]
        /\ Credited(x)' \in [Runs -> Nat]
    BY DEF Tallied
  <1>6. /\ Taken(x) \in [Runs -> Nat] /\ Unbooked(x) \in [Runs -> Nat] /\ Credited(x) \in [Runs -> Nat]
        /\ IsFiniteSet(Units(Taken(x))) /\ IsFiniteSet(Units(Unbooked(x)))
        /\ IsFiniteSet(Units(Credited(x)))
    BY AccountOf
  <1>7. /\ IsFiniteSet(Units(Taken(x)')) /\ Total(Taken(x)') <= Total(Taken(x))
        /\ Total(Taken(x)') \in Nat
    <2>1. \A r \in Runs : Taken(x)'[r] <= Taken(x)[r]
      BY <1>3, <1>6
    <2> QED
      BY <1>5, <1>6, <2>1, TotalShrinks
  <1>8. IsFiniteSet(Units(Unbooked(x)')) /\ IsFiniteSet(Units(Credited(x)'))
    <2>1. \A r \in Runs : Unbooked(x)'[r] <= Unbooked(x)[r] /\ Credited(x)'[r] <= Credited(x)[r]
      BY <1>3, <1>6
    <2> QED
      BY <1>5, <1>6, <2>1, TotalShrinks
  <1>9. x \notin interrupted' =>
            x \notin interrupted /\ Unbooked(x)' = Unbooked(x) /\ Credited(x)' = Credited(x)
    BY <1>3, <1>4, <1>5, <1>6
  <1> QED
    BY <1>2, <1>7, <1>8, <1>9, AccountOf, AccountNext

\* Every step accounts for the money.
LEMMA NextAccounted == SoundInv /\ SoundInv' /\ MoneyInv /\ [Next]_vars => MoneyInv'
  <1>1. SoundInv' => Tallied'
    BY SoundTallied, PTL
  <1> SUFFICES ASSUME SoundInv, SoundInv', Tallied', MoneyInv, [Next]_vars
               PROVE  MoneyInv'
    BY <1>1
  <1>2. ASSUME NEW r \in Runs, Arrive(r)
        PROVE  MoneyInv'
    <2>1. PICK w \in Withdrawals, pc \in {"debit", "read", "check"}, x \in Wallets, a \in Nat,
               early \in BOOLEAN, h \in Hashes \cup {NoHash} : Entered(r, pc, w, x, a, early, h)
      BY <1>2, ArriveIs
    <2>2. run[r] = Idle /\ run'[r].pc = pc /\ \A s \in Runs \ {r} : run'[s] = run[s]
      BY <2>1, EnterFacts DEF Entered
    <2>3. SameRows /\ UNCHANGED <<balance, ledger, refunded, displaced, interrupted>>
      BY <2>1 DEF Entered, SameRows, Exists, rows, money, races
    <2> QED
      BY <2>2, <2>3, NoMoneyMoves DEF Idle
  <1>3. ASSUME NEW r \in Runs, \/ Debit(r) \/ DebitReread(r) \/ Read(r) \/ Lookup(r) \/ Check(r)
                               \/ Record(r) \/ Refund(r) \/ RefundReread(r)
        PROVE  MoneyInv'
    <2> DEFINE Dry == {"debit", "debitReread", "debitWrite", "read", "lookup", "record", "complete",
                       "check", "refund", "refundReread", "refundWrite"}
    <2>1. PICK pc \in Dry : /\ run[r].pc \in Dry
                            /\ Continue(r, pc) \/ Reread(r, pc) \/ (Refund(r) /\ pc = "refundReread")
      <3>1. CASE Refund(r)
        BY <3>1, RefundKeeps DEF SoundInv
      <3>2. CASE \/ Debit(r) \/ DebitReread(r) \/ Read(r) \/ Lookup(r) \/ Check(r) \/ Record(r)
                 \/ RefundReread(r)
        BY <3>2 DEF Debit, DebitReread, Read, Lookup, Check, Record, RefundReread, At
      <3> QED
        BY <1>3, <3>1, <3>2
    <2>2. run[r].pc \in Calls /\ pc \in Calls
      BY <2>1 DEF Calls, CreateCalls, PayCalls, RejectCalls
    <2>3. GoesOn(r, pc)
      BY <2>1, <2>2, ContinueKeeps, RereadKeeps, RefundKeeps DEF SoundInv
    <2>4. SameRows /\ UNCHANGED <<balance, ledger, refunded, displaced, interrupted>>
      BY <1>3 DEF Debit, DebitReread, Read, Lookup, Check, Record, Refund, RefundReread, SameRows,
                  Exists, rows, money, races, history
    <2> QED
      BY <2>1, <2>3, <2>4, NoMoneyMoves DEF GoesOn
  <1>4. ASSUME NEW r \in Runs, Complete(r) \/ SetRejected(r)
        PROVE  MoneyInv'
    <2>1. PICK w : w = run[r].wd
      OBVIOUS
    <2>2. run'[r] = Idle /\ \A s \in Runs \ {r} : run'[s] = run[s]
      BY <1>4, <2>1, StatusFacts, EndKeeps DEF SoundInv
    <2>3. SameRows /\ UNCHANGED <<balance, ledger, refunded, displaced, interrupted>>
      <3>1. /\ Exists(w) /\ Exists(w)' /\ withdrawal'[w].wallet = withdrawal[w].wallet
            /\ withdrawal'[w].amount = withdrawal[w].amount
            /\ \A v \in Withdrawals \ {w} : withdrawal'[v] = withdrawal[v]
            /\ UNCHANGED <<balance, ledger, refunded, displaced, interrupted>>
        BY <1>4, <2>1, StatusFacts DEF money, races, history
      <3> QED
        BY <3>1 DEF SameRows, Exists
    <2>4. run[r].pc \in {"complete", "rejected"}
      BY <1>4 DEF Complete, SetRejected, At
    <2> QED
      BY <2>2, <2>3, <2>4, NoMoneyMoves DEF Idle
  <1>5. ASSUME NEW r \in Runs, Throw(r) \/ Fail(r)
        PROVE  MoneyInv'
    <2>1. run'[r] = Idle /\ \A s \in Runs \ {r} : run'[s] = run[s]
      BY <1>5, EndKeeps DEF Throw, Fail, SoundInv
    <2>2. /\ SameRows /\ UNCHANGED <<balance, ledger, refunded, displaced>>
          /\ interrupted \subseteq interrupted'
      BY <1>5 DEF Throw, Fail, SameRows, Exists, rows, money, races
    <2>3. \/ run[r].pc \notin {"net", "fee", "penalty", "insert", "refundEntry"}
          \/ run[r].wallet \in interrupted'
      BY <1>5 DEF Throw, Refused, At, Fail, MovedMoney
    <2> QED
      BY <2>1, <2>2, <2>3, NoMoneyMoves DEF Idle
  <1>6. ASSUME NEW r \in Runs, Step(r)
        PROVE  MoneyInv'
    BY <1>3, <1>4, <1>5, <1>6, MovesAccounted, InsertAccounted, RefundAccounted DEF Step
  <1>7. ASSUME NEW h \in Hashes, RecordElsewhere(h)
        PROVE  MoneyInv'
    BY <1>7, NothingMoves DEF RecordElsewhere, money, races, history
  <1>8. CASE UNCHANGED vars
    BY <1>8, NothingMoves DEF vars, rows, money, races, history
  <1> QED
    BY <1>2, <1>5, <1>6, <1>7, <1>8, CrashAccounted DEF Next

\* While the changes of a wallet do not overlap, its money is accounted for
\* whatever fails or is cut short: by the withdrawals made from it at all times,
\* and by its ledger when no handler is at work on it and none was cut short.
\* When they overlap, it is wrong by exactly what their writes displaced.
THEOREM MoneyAccounted == Spec => []MoneyIsAccountedFor
  <1>1. Init => MoneyInv
    <2> SUFFICES ASSUME Init, NEW x \in Wallets PROVE Accounted(x)
      BY DEF MoneyInv
    <2>1. /\ Asked(x) = [w \in Withdrawals |-> 0] /\ Returned(x) = [w \in Withdrawals |-> 0]
          /\ Taken(x) = [r \in Runs |-> 0] /\ Unbooked(x) = [r \in Runs |-> 0]
          /\ Credited(x) = [r \in Runs |-> 0]
      BY DEF Init, Asked, Returned, From, Exists, Taken, Unbooked, Credited, TakenOf, UnbookedOf,
             CreditedOf, Idle
    <2> QED
      BY <2>1, TotalOfNothing, WalletAssumption DEF Init, Accounted
  <1>2. SoundInv /\ RaceInv /\ MoneyInv => MoneyIsAccountedFor
    <2> SUFFICES ASSUME SoundInv, RaceInv, MoneyInv, NEW x \in Wallets
                 PROVE  /\ balance[x] + Total(Asked(x)) <= Funds[x] + Total(Returned(x)) + displaced[x]
                        /\ x \notin interrupted /\ (\A r \in Runs : ~OnWallet(r, x)) =>
                               Funds[x] + ledger[x] + displaced[x] = balance[x]
                        /\ x \notin raced => displaced[x] = 0
      BY DEF MoneyIsAccountedFor, HeldNeverExceedsFunds, EntriesAddUp, OnlyRacesDisplace
    <2>1. balance[x] + Total(Asked(x)) <= Funds[x] + Total(Returned(x)) + displaced[x]
      BY AccountOf
    <2>2. ASSUME \A r \in Runs : ~OnWallet(r, x)
          PROVE  Unbooked(x) = [r \in Runs |-> 0] /\ Credited(x) = [r \in Runs |-> 0]
      <3>1. \A r \in Runs : UnbookedOf(run[r], x) = 0 /\ CreditedOf(run[r], x) = 0
        BY <2>2 DEF OnWallet, UnbookedOf, CreditedOf, Idle
      <3> QED
        BY <3>1 DEF Unbooked, Credited
    <2> QED
      BY <2>1, <2>2, AccountOf, TotalOfNothing DEF RaceInv, Unraced
  <1> QED
    BY <1>1, <1>2, InitSound, NextSound, InitRaces, NextRaces, NextAccounted, PTL DEF Spec

(* ---------------------------------------------------------------------- *)
(* A withdrawal implements Settlement                                     *)

Given(w) == IF refunded[w] > 0 THEN 1 ELSE 0

LEMMA RestsIf ==
    ASSUME NEW w \in Withdrawals, Stage(w)' = Stage(w), Given(w)' = Given(w)
    PROVE  Claim!Rest(w)
  BY DEF Claim!Rest, Given

LEMMA MovesIf ==
    ASSUME NEW w \in Withdrawals, NEW from, NEW to, Stage(w) = from, Stage(w)' = to
    PROVE  Claim!Moves(w, from, to)
  BY DEF Claim!Moves

LEMMA SettleNames ==
    ASSUME NEW w \in Withdrawals
    PROVE  /\ Given(w) = 0 /\ Given(w)' = 0 /\ Claim!Moves(w, "none", "open") => Claim!Settle(w)
           /\ Given(w) = 0 /\ Given(w)' = 1 /\ Claim!Moves(w, "open", "open") => Claim!Settle(w)
           /\ Given(w) = 1 /\ Given(w)' = 1 /\ Claim!Moves(w, "open", "granted") => Claim!Settle(w)
           /\ Given(w) = 0 /\ Given(w)' = 0 /\ Claim!Moves(w, "open", "refused") => Claim!Settle(w)
           /\ Claim!Rest(w) => Claim!Settle(w)
  BY DEF Claim!Settle, Claim!File, Claim!Give, Claim!Grant, Claim!Refuse, Given

\* The withdrawals other than the one a step is about rest.
LEMMA OthersRest ==
    ASSUME NEW w \in Withdrawals, withdrawal'[w] = withdrawal[w], refunded'[w] = refunded[w]
    PROVE  Claim!Settle(w)
  <1>1. Stage(w)' = Stage(w) /\ Given(w)' = Given(w)
    BY DEF Stage, Given
  <1> QED
    BY <1>1, RestsIf, SettleNames

\* The steps of a handler that write its withdrawal's row or refund it.
LEMMA RunSettles ==
    ASSUME OrderInv, NEW r \in Runs, NEW w, w = run[r].wd, w \notin Astray',
           Insert(r) \/ Complete(r) \/ RefundWrite(r) \/ SetRejected(r)
    PROVE  w \in Withdrawals /\ Claim!Settle(w)
  <1>1. /\ run[r].pc \in Calls
        /\ Insert(r) => run[r].pc \notin PayCalls \cup RejectCalls
        /\ ~ Insert(r) => run[r].pc \in PayCalls \cup RejectCalls
    BY DEF Insert, Complete, RefundWrite, SetRejected, At, Calls, CreateCalls, PayCalls, RejectCalls
  <1>2. /\ w \in Withdrawals /\ SoundInv /\ refunded[w] \in Nat /\ SoundRun(r)
        /\ w \notin overlapped => InOrder(r)
        /\ w \notin overlapped /\ Undisturbed(w) => Exact(r)
    BY <1>1, Alone, Running
  <1>3. w \notin overlapped /\ history' = history
    BY <1>2 DEF Astray, Insert, Complete, RefundWrite, SetRejected, history
  <1>4. CASE Insert(r)
    <2>1. ~ Exists(w) /\ refunded[w] = 0 /\ refunded'[w] = 0 /\ withdrawal'[w].status = "PENDING"
      BY <1>2, <1>4, InsertFacts DEF SoundInv, SoundRow, money
    <2>2. Stage(w) = "none"
      BY <2>1 DEF Stage, Exists, NoRow
    <2>3. Stage(w)' = "open"
      BY <2>1 DEF Stage
    <2>4. Given(w) = 0 /\ Given(w)' = 0
      BY <2>1 DEF Given
    <2> QED
      BY <1>2, <2>2, <2>3, <2>4, MovesIf, SettleNames
  <1>5. ASSUME ~ Insert(r)
        PROVE  /\ Exists(w) /\ Exact(r) /\ InOrder(r) /\ withdrawal[w].amount >= 1
               /\ withdrawal[w].amount \in Nat
               /\ withdrawal[w].status \in {"PENDING", "COMPLETED", "REJECTED"}
    <2>1. Exists(w) /\ Exists(w)' /\ withdrawal'[w].wallet = withdrawal[w].wallet
      <3>1. CASE Complete(r) \/ SetRejected(r)
        BY <1>2, <3>1, StatusFacts
      <3>2. CASE RefundWrite(r)
        BY <1>2, <3>2, RefundFacts DEF Exists, rows
      <3> QED
        BY <1>5, <3>1, <3>2
    <2>2. Undisturbed(w)
      BY <1>2, <1>3, <2>1 DEF Undisturbed, Astray, history
    <2>3. withdrawal[w].amount >= 1
      BY <1>2, <2>1 DEF SoundInv, SoundRow
    <2> QED
      BY <1>2, <1>3, <2>1, <2>2, <2>3, ExistingRow DEF SoundInv
  <1>6. CASE Complete(r)
    <2>1. ~ Insert(r) /\ run[r].pc = "complete"
      BY <1>6 DEF Insert, Complete, At
    <2>2. withdrawal[w].status = "PENDING" /\ refunded[w] = 0
      BY <1>5, <2>1 DEF InOrder, Exact, Matches, PayCalls
    <2>3. withdrawal'[w].status = "COMPLETED" /\ refunded'[w] = refunded[w]
      BY <1>2, <1>6, StatusFacts DEF money
    <2>4. Stage(w) = "open" /\ Stage(w)' = "refused"
      BY <2>2, <2>3 DEF Stage
    <2>5. Given(w) = 0 /\ Given(w)' = 0
      BY <2>2, <2>3 DEF Given
    <2> QED
      BY <1>2, <2>4, <2>5, MovesIf, SettleNames
  <1>7. CASE RefundWrite(r)
    <2>1. ~ Insert(r) /\ run[r].pc = "refundWrite"
      BY <1>7 DEF Insert, RefundWrite, At
    <2>2. withdrawal[w].status # "COMPLETED" /\ Matches(w)
      BY <1>5, <2>1 DEF InOrder, Exact, Unpaid, RejectCalls
    <2>3. /\ refunded'[w] = refunded[w] + run[r].amount /\ run[r].amount >= 1
          /\ run[r].amount \in Nat /\ withdrawal' = withdrawal
      BY <1>2, <1>7, RefundFacts DEF rows
    <2>4. refunded'[w] > 0
      BY <1>2, <2>3
    <2>5. Given(w)' = 1
      BY <2>4 DEF Given
    <2>6. Stage(w)' = Stage(w)
      BY <2>3 DEF Stage
    <2>7. CASE withdrawal[w].status = "PENDING"
      <3>1. Stage(w) = "open" /\ refunded[w] = 0
        BY <2>2, <2>7 DEF Stage, Matches
      <3>2. Given(w) = 0
        BY <3>1 DEF Given
      <3> QED
        BY <1>2, <2>5, <2>6, <3>1, <3>2, MovesIf, SettleNames
    <2>8. CASE withdrawal[w].status = "REJECTED"
      <3>1. refunded[w] > 0
        BY <1>2, <1>5, <2>1, <2>2, <2>8 DEF Matches
      <3>2. Given(w) = 1
        BY <3>1 DEF Given
      <3> QED
        BY <1>2, <2>5, <2>6, <3>2, RestsIf, SettleNames
    <2> QED
      BY <1>5, <2>1, <2>2, <2>7, <2>8
  <1>8. CASE SetRejected(r)
    <2>1. ~ Insert(r) /\ run[r].pc = "rejected"
      BY <1>8 DEF Insert, SetRejected, At
    <2>2. withdrawal[w].status # "COMPLETED" /\ refunded[w] > 0
      BY <1>2, <1>5, <2>1 DEF InOrder, Exact, RejectCalls
    <2>3. withdrawal'[w].status = "REJECTED" /\ refunded'[w] = refunded[w]
      BY <1>2, <1>8, StatusFacts DEF money
    <2>4. Given(w) = 1 /\ Given(w)' = 1
      BY <2>2, <2>3 DEF Given
    <2>5. Stage(w)' = "granted"
      BY <2>3 DEF Stage
    <2>6. CASE withdrawal[w].status = "PENDING"
      <3>1. Stage(w) = "open"
        BY <2>6 DEF Stage
      <3> QED
        BY <1>2, <2>4, <2>5, <3>1, MovesIf, SettleNames
    <2>7. CASE withdrawal[w].status = "REJECTED"
      <3>1. Stage(w) = "granted"
        BY <2>7 DEF Stage
      <3> QED
        BY <1>2, <2>4, <2>5, <3>1, RestsIf, SettleNames
    <2> QED
      BY <1>5, <2>1, <2>2, <2>6, <2>7
  <1> QED
    BY <1>4, <1>6, <1>7, <1>8

\* Withdrawals keep their wallets, so that none finds its way back.
LEMMA AstrayGrows ==
    ASSUME OrderInv, [Next]_vars
    PROVE  Astray \subseteq Astray'
  <1>1. overlapped \subseteq overlapped' /\ interrupted \subseteq interrupted'
    <2>1. ASSUME NEW r \in Runs, Step(r)
          PROVE  overlapped' = overlapped /\ interrupted \subseteq interrupted'
      BY <2>1 DEF Step, Debit, DebitReread, DebitWrite, NetEntry, FeeEntry, PenaltyEntry, Insert,
          Read, Lookup, Record, Complete, Check, Refund, RefundReread, RefundWrite, RefundEntry,
          SetRejected, Throw, history
    <2>2. ASSUME NEW r \in Runs, Arrive(r)
          PROVE  overlapped \subseteq overlapped' /\ interrupted' = interrupted
      BY <2>2 DEF Arrive, Create, Process, Reject, Enter
    <2>3. CASE (\E r \in Runs : Fail(r)) \/ Crash
      BY <2>3 DEF Fail, Crash
    <2>4. CASE (\E h \in Hashes : RecordElsewhere(h)) \/ UNCHANGED vars
      BY <2>4 DEF RecordElsewhere, vars, history
    <2> QED
      BY <2>1, <2>2, <2>3, <2>4 DEF Next, history
  <1>2. ASSUME NEW w \in Withdrawals, Exists(w)
        PROVE  Exists(w)' /\ withdrawal'[w].wallet = withdrawal[w].wallet
    <2>1. CASE withdrawal' = withdrawal
      BY <1>2, <2>1 DEF Exists
    <2>2. ASSUME NEW r \in Runs, Insert(r) \/ Complete(r) \/ SetRejected(r)
          PROVE  Exists(w)' /\ withdrawal'[w].wallet = withdrawal[w].wallet
      <3>1. PICK v : v = run[r].wd
        OBVIOUS
      <3>2. CASE v # w
        <4>1. withdrawal'[w] = withdrawal[w]
          BY <2>2, <3>1, <3>2, InsertFacts, StatusFacts DEF OrderInv
        <4> QED
          BY <1>2, <4>1 DEF Exists
      <3>3. CASE v = w
        <4>1. ~ Insert(r)
          BY <1>2, <3>1, <3>3, InsertFacts DEF OrderInv
        <4>2. SoundInv /\ (Complete(r) \/ SetRejected(r))
          BY <2>2, <4>1 DEF OrderInv
        <4>3. Exists(v)' /\ withdrawal'[v].wallet = withdrawal[v].wallet
          BY <3>1, <4>2, StatusFacts
        <4> QED
          BY <3>3, <4>3
      <3> QED
        BY <3>2, <3>3
    <2>3. ASSUME NEW r \in Runs, Step(r), ~ (Insert(r) \/ Complete(r) \/ SetRejected(r))
          PROVE  withdrawal' = withdrawal
      BY <2>3 DEF Step, Debit, DebitReread, DebitWrite, NetEntry, FeeEntry, PenaltyEntry, Read,
          Lookup, Record, Check, Refund, RefundReread, RefundWrite, RefundEntry, Throw, rows
    <2>4. ASSUME NEW r \in Runs, Arrive(r) \/ Fail(r)
          PROVE  withdrawal' = withdrawal
      BY <2>4 DEF Arrive, Create, Process, Reject, Fail, rows
    <2>5. CASE Crash \/ (\E h \in Hashes : RecordElsewhere(h)) \/ UNCHANGED vars
      BY <2>1, <2>5 DEF Crash, RecordElsewhere, vars, rows
    <2> QED
      BY <2>1, <2>2, <2>3, <2>4, <2>5 DEF Next
  <1> QED
    BY <1>1, <1>2 DEF Astray

LEMMA StepSettles ==
    ASSUME OrderInv, [Next]_vars, NEW w \in Withdrawals, w \notin Astray'
    PROVE  Claim!Settle(w)
  <1>1. CASE UNCHANGED <<withdrawal, refunded>>
    BY <1>1, OthersRest
  <1>2. ASSUME NEW r \in Runs, Insert(r) \/ Complete(r) \/ RefundWrite(r) \/ SetRejected(r)
        PROVE  Claim!Settle(w)
    <2>1. CASE w = run[r].wd
      BY <1>2, <2>1, RunSettles
    <2>2. CASE w # run[r].wd
      <3>1. withdrawal'[w] = withdrawal[w] /\ refunded'[w] = refunded[w]
        BY <1>2, <2>2 DEF Insert, Complete, RefundWrite, SetRejected, OrderInv, SoundInv, TypeOK,
                          rows, money
      <3> QED
        BY <3>1, OthersRest
    <2> QED
      BY <2>1, <2>2
  <1>3. ASSUME NEW r \in Runs, Step(r), ~ (Insert(r) \/ Complete(r) \/ RefundWrite(r) \/ SetRejected(r))
        PROVE  UNCHANGED <<withdrawal, refunded>>
    BY <1>3 DEF Step, Debit, DebitReread, DebitWrite, NetEntry, FeeEntry, PenaltyEntry, Read, Lookup,
        Record, Check, Refund, RefundReread, RefundEntry, Throw, rows, money
  <1>4. ASSUME NEW r \in Runs, Arrive(r) \/ Fail(r)
        PROVE  UNCHANGED <<withdrawal, refunded>>
    BY <1>4 DEF Arrive, Create, Process, Reject, Fail, rows, money
  <1>5. CASE Crash \/ (\E h \in Hashes : RecordElsewhere(h)) \/ UNCHANGED vars
    <2>1. UNCHANGED <<withdrawal, refunded>>
      BY <1>5 DEF Crash, RecordElsewhere, vars, rows, money
    <2> QED
      BY <1>1, <2>1
  <1> QED
    BY <1>1, <1>2, <1>3, <1>4, <1>5 DEF Next

\* Handlers and failures in any number implement the abstract Settlement: a
\* withdrawal is refunded before it shows REJECTED, never when it is COMPLETED,
\* and both are final, unless it went astray.
THEOREM ImplementsSettlement == Spec => SettledOnce
  <1>1. Init => Claim!Init
    BY DEF Init, Claim!Init, Stage, Astray, Exists, NoRow
  <1>2. OrderInv /\ [Next]_vars => [Claim!Next]_(Claim!vars)
    BY StepSettles, AstrayGrows DEF Claim!Next, OrderInv
  <1> QED
    BY <1>1, <1>2, OrderAlways, PTL DEF Spec, SettledOnce, Claim!Spec
===============================================================================
