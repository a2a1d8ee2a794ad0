----------------------------- MODULE DepositProofs -----------------------------
(***************************************************************************)
(* Theorems about Deposit, for any number of deposits, hashes, requests    *)
(* and tasks.                                                              *)
(*                                                                         *)
(* SoundInv holds whatever overlaps: types, and what a run may rely on at  *)
(* each of its calls.  OrderInv is about a deposit on which no two runs    *)
(* overlapped: it has at most one run, and the run's place tells exactly   *)
(* what has been paid.                                                     *)
(***************************************************************************)
EXTENDS Deposit, FiniteSetTheorems, TLAPS

(* ---------------------------------------------------------------------- *)
(* What holds whatever overlaps                                           *)

\* What a run in progress has secured, at each of its calls.
SoundRun(p) ==
    run[p] # Idle =>
        /\ run[p] \in RunState
        /\ deposit[run[p].dep] \in DepositRow
        /\ run[p].pc \in {"rehash", "lookup", "record", "settle"} => run[p].hash \in Hashes
        /\ run[p].pc \notin {"verify", "approve", "reject", "rejected"} => run[p].amount >= 1
        /\ run[p].pc \in {"bonus", "approved"} => paid[run[p].dep] >= 1
        /\ run[p].pc = "settle" => recordedFor[run[p].hash] = run[p].dep

SoundRow(d) ==
    deposit[d] # NoDeposit =>
        /\ deposit[d].amount >= 1
        /\ deposit[d].status = "APPROVED" => paid[d] >= 1

SoundInv ==
    /\ TypeOK
    /\ \A p \in Runs : SoundRun(p)
    /\ \A d \in Deposits : SoundRow(d)
    /\ \A t \in Tasks : \A d \in retryList[t] : deposit[d] \in DepositRow
    /\ \A h \in Hashes : settled[h] \subseteq {recordedFor[h]}

USE DEF MINIMUM_DEPOSIT

LEMMA InitSound == Init => SoundInv
  BY BoundAssumption DEF Init, SoundInv, TypeOK, SoundRun, SoundRow, Idle, NoDeposit

\* A run that a step does not touch stays sound, if the step keeps the rows,
\* takes no money back and records no hash a second time.
LEMMA OtherRunsStaySound ==
    ASSUME SoundInv, NEW q \in Runs, run'[q] = run[q],
           \A d \in Deposits : deposit[d] \in DepositRow => deposit'[d] \in DepositRow,
           \A d \in Deposits : paid'[d] >= paid[d],
           paid' \in [Deposits -> Nat],
           \A h \in Hashes : Recorded(h) => recordedFor'[h] = recordedFor[h]
    PROVE  SoundRun(q)'
  <1>1. SUFFICES ASSUME run[q] # Idle
                 PROVE  SoundRun(q)'
    BY DEF SoundRun
  <1>2. SoundRun(q) /\ run[q] \in RunState /\ run[q].dep \in Deposits
    BY <1>1 DEF SoundInv, SoundRun, RunState
  <1>3. paid[run[q].dep] \in Nat /\ paid'[run[q].dep] \in Nat
    BY <1>2 DEF SoundInv, TypeOK
  <1>4. run[q].pc = "settle" => recordedFor'[run[q].hash] = run[q].dep
    BY <1>1, <1>2, NameAssumption DEF SoundRun, Recorded
  <1> QED
    BY <1>1, <1>2, <1>3, <1>4 DEF SoundRun

\* A step of run p alone, which keeps what the others rely on.
LEMMA StepStaysSound ==
    ASSUME SoundInv, TypeOK', NEW p \in Runs,
           \A q \in Runs \ {p} : run'[q] = run[q],
           SoundRun(p)',
           \A d \in Deposits : deposit[d] \in DepositRow => deposit'[d] \in DepositRow,
           \A d \in Deposits : paid'[d] >= paid[d],
           \A h \in Hashes : Recorded(h) => recordedFor'[h] = recordedFor[h],
           \A d \in Deposits : SoundRow(d)',
           \A t \in Tasks : retryList'[t] \subseteq retryList[t],
           \A h \in Hashes : settled'[h] \subseteq {recordedFor'[h]}
    PROVE  SoundInv'
  <1>1. paid' \in [Deposits -> Nat]
    BY DEF TypeOK
  <1>2. ASSUME NEW q \in Runs \ {p}
        PROVE  SoundRun(q)'
    BY <1>1, <1>2, OtherRunsStaySound
  <1>3. \A t \in Tasks : \A d \in retryList'[t] : deposit'[d] \in DepositRow
    BY DEF SoundInv, TypeOK
  <1> QED
    BY <1>2, <1>3 DEF SoundInv

\* What is known of a run about to make a call.
LEMMA Running ==
    ASSUME SoundInv, NEW p \in Runs, run[p] # Idle
    PROVE  /\ SoundRun(p)
           /\ run[p] \in RunState
           /\ run[p].dep \in Deposits /\ run[p].amount \in Nat
           /\ run[p].hash \in Hashes \cup {"stored"}
           /\ deposit[run[p].dep] \in DepositRow /\ Exists(run[p].dep)
           /\ deposit[run[p].dep].status \in Status /\ deposit[run[p].dep].hash \in Hashes
           /\ deposit[run[p].dep].amount \in Nat /\ deposit[run[p].dep].amount >= 1
           /\ paid[run[p].dep] \in Nat /\ bonusPaid[run[p].dep] \in Nat
           /\ referralPaid[run[p].dep] \in Nat
  <1>1. SoundRun(p) /\ run[p] \in RunState /\ deposit[run[p].dep] \in DepositRow
    BY DEF SoundInv, SoundRun
  <1>2. run[p].dep \in Deposits /\ run[p].amount \in Nat /\ run[p].hash \in Hashes \cup {"stored"}
    BY <1>1 DEF RunState
  <1>3. deposit[run[p].dep].status \in Status /\ deposit[run[p].dep].hash \in Hashes
        /\ deposit[run[p].dep].amount \in Nat
    BY <1>1 DEF DepositRow
  <1>4. deposit[run[p].dep] # NoDeposit
    BY <1>1 DEF DepositRow, NoDeposit
  <1>5. deposit[run[p].dep].amount >= 1
    BY <1>2, <1>4 DEF SoundInv, SoundRow
  <1> QED
    BY <1>1, <1>2, <1>3, <1>4, <1>5 DEF SoundInv, TypeOK, Exists

LEMMA AtIsRunning ==
    ASSUME NEW p, NEW pc, At(p, pc), pc # "idle"
    PROVE  run[p] # Idle
  BY DEF At, Idle

\* A step that only takes a run to its next call.
LEMMA MovesAreSound ==
    ASSUME SoundInv, NEW p \in Runs, run[p] # Idle, NEW r,
           r = Idle \/ r \in RunState,
           run' = [run EXCEPT ![p] = r],
           SoundRun(p)',
           UNCHANGED <<deposit, recordedFor, retryList, requests, failures, money, history>>
    PROVE  SoundInv'
  <1>1. TypeOK'
    BY DEF SoundInv, TypeOK, money, history
  <1>2. \A q \in Runs \ {p} : run'[q] = run[q]
    BY DEF SoundInv, TypeOK
  <1>3. \A d \in Deposits : SoundRow(d)' /\ paid'[d] >= paid[d]
    BY DEF SoundInv, TypeOK, SoundRow, money
  <1>4. \A h \in Hashes : settled'[h] \subseteq {recordedFor'[h]}
    BY DEF SoundInv, history
  <1> QED
    BY <1>1, <1>2, <1>3, <1>4, StepStaysSound

LEMMA EndsAreSound ==
    ASSUME SoundInv, NEW p \in Runs, End(p), run[p] # Idle,
           UNCHANGED <<deposit, recordedFor, retryList, requests, failures, money, history>>
    PROVE  SoundInv'
  <1>1. run'[p] = Idle /\ run' = [run EXCEPT ![p] = Idle]
    BY DEF SoundInv, TypeOK, End
  <1>2. SoundRun(p)'
    BY <1>1 DEF SoundRun
  <1> QED
    BY <1>1, <1>2, MovesAreSound

LEMMA VerifyReadSound ==
    ASSUME SoundInv, NEW p \in Runs, VerifyRead(p)
    PROVE  SoundInv'
  <1>1. PICK r : r = run'[p]
    OBVIOUS
  <1>2. run[p] # Idle
    BY AtIsRunning DEF VerifyRead
  <1>3. r \in RunState /\ r.hash \in Hashes /\ r.dep = run[p].dep /\ r.amount >= 1
        /\ r.pc \in {"lookup", "rehash"} /\ run' = [run EXCEPT ![p] = r]
    BY <1>1, <1>2, Running DEF VerifyRead, RunState, SoundInv, TypeOK
  <1>4. UNCHANGED <<deposit, recordedFor, retryList, requests, failures, money, history>>
    BY DEF VerifyRead
  <1>5. SoundRun(p)'
    BY <1>1, <1>2, <1>3, <1>4, Running DEF SoundRun
  <1> QED
    BY <1>2, <1>3, <1>4, <1>5, MovesAreSound

Calls == {"verify", "rehash", "lookup", "record", "settle", "approve", "credit", "bonus",
          "approved", "referral", "referralPay", "referralRow", "activate",
          "reject", "rejected"}

\* Continue changes nothing but the next call.
LEMMA ContinueKeeps ==
    ASSUME SoundInv, NEW p \in Runs, run[p] # Idle, NEW pc \in Calls, Continue(p, pc)
    PROVE  /\ run' \in [Runs -> RunState \cup {Idle}]
           /\ \A q \in Runs \ {p} : run'[q] = run[q]
           /\ run'[p] \in RunState /\ run'[p] # Idle
           /\ run'[p].pc = pc /\ run'[p].dep = run[p].dep
           /\ run'[p].hash = run[p].hash /\ run'[p].amount = run[p].amount
  <1>1. run[p] \in RunState /\ run \in [Runs -> RunState \cup {Idle}]
    BY Running DEF SoundInv, TypeOK
  <1>2. run'[p] = [run[p] EXCEPT !.pc = pc]
    BY <1>1 DEF Continue
  <1>3. [run[p] EXCEPT !.pc = pc] \in RunState
    BY <1>1 DEF RunState, Calls
  <1>4. run'[p] # Idle
    BY <1>2, <1>3 DEF RunState, Idle
  <1>5. /\ run'[p].pc = pc /\ run'[p].dep = run[p].dep
        /\ run'[p].hash = run[p].hash /\ run'[p].amount = run[p].amount
    BY <1>1, <1>2 DEF RunState
  <1> QED
    BY <1>1, <1>2, <1>3, <1>4, <1>5 DEF Continue

\* A step by which a run goes on to its next call and nothing else changes.
LEMMA StepsOnAreSound ==
    ASSUME SoundInv, NEW p \in Runs, run[p] # Idle, NEW pc \in Calls, Continue(p, pc),
           pc \in {"rehash", "lookup", "record", "settle"} => run[p].hash \in Hashes,
           pc \notin {"verify", "approve", "reject", "rejected"} => run[p].amount >= 1,
           pc \in {"bonus", "approved"} => paid[run[p].dep] >= 1,
           pc # "settle",
           UNCHANGED <<deposit, recordedFor, retryList, requests, failures, money, history>>
    PROVE  SoundInv'
  <1>1. PICK r : r = run'[p]
    OBVIOUS
  <1>2. r \in RunState /\ run' = [run EXCEPT ![p] = r]
    BY <1>1, ContinueKeeps DEF Continue, SoundInv, TypeOK
  <1>3. deposit'[run'[p].dep] \in DepositRow
    BY ContinueKeeps, Running
  <1>4. SoundRun(p)'
    BY <1>1, <1>2, <1>3, ContinueKeeps DEF SoundRun, money
  <1> QED
    BY <1>2, <1>4, MovesAreSound

LEMMA RehashSound ==
    ASSUME SoundInv, NEW p \in Runs, Rehash(p)
    PROVE  SoundInv'
  <1>1. run[p] # Idle
    BY AtIsRunning DEF Rehash
  <1>2. run[p].hash \in Hashes /\ run[p].amount >= 1 /\ run[p].dep \in Deposits
    BY <1>1, Running DEF Rehash, At, SoundRun
  <1>3. deposit'[run[p].dep] = [deposit[run[p].dep] EXCEPT !.hash = run[p].hash]
        /\ \A d \in Deposits \ {run[p].dep} : deposit'[d] = deposit[d]
    BY <1>2 DEF Rehash, SoundInv, TypeOK
  <1>4. \A d \in Deposits : deposit[d] \in DepositRow => deposit'[d] \in DepositRow
    BY <1>2, <1>3 DEF DepositRow
  <1>a. deposit' \in [Deposits -> DepositRow \cup {NoDeposit}]
    BY <1>1, <1>2, <1>4, Running DEF Rehash, SoundInv, TypeOK
  <1>5. Continue(p, "lookup") /\ "lookup" \in Calls
    BY DEF Rehash, Calls
  <1>6. TypeOK'
    <2>1. run' \in [Runs -> RunState \cup {Idle}]
      BY <1>1, <1>5, ContinueKeeps
    <2>2. UNCHANGED <<recordedFor, retryList, requests, failures, money, history>>
      BY DEF Rehash
    <2> QED
      BY <1>a, <2>1, <2>2 DEF SoundInv, TypeOK, money, history
  <1>7. SoundRun(p)'
    BY <1>1, <1>2, <1>4, <1>5, ContinueKeeps, Running DEF SoundRun
  <1>8. \A d \in Deposits : SoundRow(d)'
    <2> TAKE d \in Deposits
    <2>1. CASE d = run[p].dep
      <3>1. deposit'[d].status = deposit[d].status /\ deposit'[d].amount = deposit[d].amount
        BY <1>1, <1>3, <2>1, Running DEF DepositRow
      <3>2. SoundRow(d) /\ deposit[d] # NoDeposit /\ paid' = paid
        BY <1>1, <2>1, Running DEF SoundInv, Exists, Rehash, money
      <3> QED
        BY <3>1, <3>2 DEF SoundRow
    <2>2. CASE d # run[p].dep
      BY <1>3, <2>2 DEF SoundInv, SoundRow, Rehash, money
    <2> QED
      BY <2>1, <2>2
  <1>9. UNCHANGED <<recordedFor, retryList, settled, paid>>
    BY DEF Rehash, money, history
  <1>10. \A d \in Deposits : paid'[d] >= paid[d]
    BY <1>9 DEF SoundInv, TypeOK
  <1> QED
    BY <1>1, <1>4, <1>5, <1>6, <1>7, <1>8, <1>9, <1>10, ContinueKeeps, StepStaysSound DEF SoundInv

LEMMA LookupSound ==
    ASSUME SoundInv, NEW p \in Runs, Lookup(p)
    PROVE  SoundInv'
  <1>1. run[p] # Idle
    BY AtIsRunning DEF Lookup
  <1>2. run[p].hash \in Hashes /\ run[p].amount >= 1
    BY <1>1, Running DEF Lookup, At, SoundRun
  <1> QED
    BY <1>1, <1>2, StepsOnAreSound DEF Lookup, Calls

LEMMA RecordSound ==
    ASSUME SoundInv, NEW p \in Runs, Record(p)
    PROVE  SoundInv'
  <1>1. run[p] # Idle
    BY AtIsRunning DEF Record
  <1>2. run[p].hash \in Hashes /\ run[p].amount >= 1 /\ run[p].dep \in Deposits
    BY <1>1, Running DEF Record, At, SoundRun
  <1>3. Continue(p, "settle") /\ "settle" \in Calls
    BY DEF Record, Calls
  <1>4. recordedFor'[run[p].hash] = run[p].dep
        /\ recordedFor' \in [Hashes -> Deposits \cup {"nobody", "other"}]
        /\ \A h \in Hashes \ {run[p].hash} : recordedFor'[h] = recordedFor[h]
    BY <1>2 DEF Record, SoundInv, TypeOK
  <1>5. \A h \in Hashes : Recorded(h) => recordedFor'[h] = recordedFor[h]
    BY <1>4 DEF Record
  <1>6. UNCHANGED <<deposit, retryList, paid, settled>>
    BY DEF Record, money, history
  <1>7. TypeOK'
    BY <1>1, <1>3, <1>4, ContinueKeeps DEF Record, SoundInv, TypeOK, money, history
  <1>8. SoundRun(p)'
    BY <1>1, <1>2, <1>3, <1>4, <1>6, ContinueKeeps, Running DEF SoundRun
  <1>9. \A d \in Deposits : SoundRow(d)' /\ paid'[d] >= paid[d]
    BY <1>6 DEF SoundInv, TypeOK, SoundRow
  <1>10. \A h \in Hashes : settled'[h] \subseteq {recordedFor'[h]}
    <2> TAKE h \in Hashes
    <2>1. CASE h = run[p].hash
      <3>1. settled[h] \subseteq {"nobody"} /\ settled[h] \subseteq Deposits
        BY <2>1, <1>2 DEF Record, Recorded, SoundInv, TypeOK
      <3> QED
        BY <3>1, <1>6, NameAssumption
    <2>2. CASE h # run[p].hash
      BY <1>4, <1>6, <2>2 DEF SoundInv
    <2> QED
      BY <2>1, <2>2
  <1> QED
    BY <1>1, <1>3, <1>5, <1>6, <1>7, <1>8, <1>9, <1>10, ContinueKeeps, StepStaysSound

LEMMA SettleSound ==
    ASSUME SoundInv, NEW p \in Runs, Settle(p)
    PROVE  SoundInv'
  <1>1. run[p] # Idle
    BY AtIsRunning DEF Settle
  <1>2. /\ run[p].hash \in Hashes /\ run[p].amount \in Nat /\ run[p].amount >= 1
        /\ run[p].dep \in Deposits /\ recordedFor[run[p].hash] = run[p].dep
        /\ OnChain[run[p].hash] \in Nat
    BY <1>1, Running, ChainAssumption DEF Settle, At, SoundRun
  <1>3. PICK a : a = Larger(run[p].amount, OnChain[run[p].hash])
    OBVIOUS
  <1>4. a \in Nat /\ a >= 1
    BY <1>2, <1>3 DEF Larger
  <1>5. deposit'[run[p].dep] = [deposit[run[p].dep] EXCEPT !.status = "VERIFIED", !.amount = a]
        /\ \A d \in Deposits \ {run[p].dep} : deposit'[d] = deposit[d]
    BY <1>2, <1>3 DEF Settle, SoundInv, TypeOK
  <1>6. deposit'[run[p].dep] \in DepositRow
    BY <1>1, <1>4, <1>5, Running DEF DepositRow, Status
  <1>7. /\ deposit' \in [Deposits -> DepositRow \cup {NoDeposit}]
        /\ \A d \in Deposits : deposit[d] \in DepositRow => deposit'[d] \in DepositRow
    BY <1>2, <1>5, <1>6 DEF Settle, SoundInv, TypeOK
  <1>8. Continue(p, "approve") /\ "approve" \in Calls
    BY DEF Settle, Calls
  <1>9. /\ settled' \in [Hashes -> SUBSET Deposits]
        /\ \A h \in Hashes : settled'[h] \subseteq {recordedFor[h]}
    BY <1>2 DEF Settle, SoundInv, TypeOK
  <1>10. UNCHANGED <<recordedFor, retryList, paid>>
    BY DEF Settle, money
  <1>11. TypeOK'
    BY <1>1, <1>7, <1>8, <1>9, ContinueKeeps DEF Settle, SoundInv, TypeOK, money
  <1>12. SoundRun(p)'
    BY <1>1, <1>2, <1>7, <1>8, ContinueKeeps, Running DEF SoundRun
  <1>13. \A d \in Deposits : SoundRow(d)' /\ paid'[d] >= paid[d]
    <2> TAKE d \in Deposits
    <2>1. paid'[d] >= paid[d]
      BY <1>10 DEF SoundInv, TypeOK
    <2>2. CASE d = run[p].dep
      <3>1. deposit'[d].amount = a /\ deposit'[d].status = "VERIFIED"
        BY <1>1, <1>5, <2>2, Running DEF DepositRow
      <3> QED
        BY <1>4, <2>1, <3>1 DEF SoundRow
    <2>3. CASE d # run[p].dep
      BY <1>5, <1>10, <2>1, <2>3 DEF SoundInv, SoundRow
    <2> QED
      BY <2>2, <2>3
  <1> QED
    BY <1>1, <1>7, <1>8, <1>9, <1>10, <1>11, <1>12, <1>13, ContinueKeeps, StepStaysSound

LEMMA ApproveReadSound ==
    ASSUME SoundInv, NEW p \in Runs, ApproveRead(p)
    PROVE  SoundInv'
  <1>1. PICK r : r = run'[p]
    OBVIOUS
  <1>2. run[p] # Idle
    BY AtIsRunning DEF ApproveRead
  <1>3. r \in RunState /\ r.dep = run[p].dep /\ r.amount >= 1
        /\ r.pc = "credit" /\ run' = [run EXCEPT ![p] = r]
    BY <1>1, <1>2, Running DEF ApproveRead, RunState, SoundInv, TypeOK
  <1>4. UNCHANGED <<deposit, recordedFor, retryList, requests, failures, money, history>>
    BY DEF ApproveRead
  <1>5. SoundRun(p)'
    BY <1>1, <1>2, <1>3, <1>4, Running DEF SoundRun
  <1> QED
    BY <1>2, <1>3, <1>4, <1>5, MovesAreSound

\* What crediting changes.
LEMMA CreditFacts ==
    ASSUME SoundInv, NEW p \in Runs, Credit(p)
    PROVE  /\ run[p] # Idle /\ run[p].pc = "credit" /\ run[p].amount >= 1
           /\ paid' \in [Deposits -> Nat]
           /\ paid'[run[p].dep] = paid[run[p].dep] + run[p].amount
           /\ \A d \in Deposits \ {run[p].dep} : paid'[d] = paid[d]
           /\ \E pc \in {"bonus", "approved"} :
                 /\ Continue(p, pc)
                 /\ pc = "bonus" <=> Bonus(run[p].amount) > 0
           /\ UNCHANGED <<deposit, recordedFor, retryList, requests, failures, history>>
           /\ UNCHANGED <<bonusPaid, referralPaid, bonusRow, boosted>>
  <1>1. run[p] # Idle /\ run[p].pc = "credit"
    BY AtIsRunning DEF Credit, At
  <1>2. run[p].amount >= 1 /\ run[p].amount \in Nat /\ run[p].dep \in Deposits
    BY <1>1, Running DEF SoundRun
  <1>3. /\ paid' \in [Deposits -> Nat]
        /\ paid'[run[p].dep] = paid[run[p].dep] + run[p].amount
        /\ \A d \in Deposits \ {run[p].dep} : paid'[d] = paid[d]
    BY <1>2 DEF Credit, SoundInv, TypeOK
  <1> QED
    BY <1>1, <1>2, <1>3 DEF Credit

LEMMA CreditSound ==
    ASSUME SoundInv, NEW p \in Runs, Credit(p)
    PROVE  SoundInv'
  <1>1. PICK pc \in {"bonus", "approved"} : Continue(p, pc)
    BY CreditFacts
  <1>2. pc \in Calls /\ run[p] # Idle
    BY CreditFacts DEF Calls
  <1>3. run[p].dep \in Deposits /\ paid[run[p].dep] \in Nat /\ run[p].amount \in Nat
        /\ paid'[run[p].dep] >= 1
    BY <1>2, Running, CreditFacts
  <1>4. \A d \in Deposits : paid'[d] >= paid[d]
    BY <1>3, CreditFacts DEF SoundInv, TypeOK
  <1>5. TypeOK'
    <2>1. run' \in [Runs -> RunState \cup {Idle}]
      BY <1>1, <1>2, ContinueKeeps
    <2> QED
      BY <2>1, CreditFacts DEF SoundInv, TypeOK, history
  <1>6. SoundRun(p)'
    BY <1>1, <1>2, <1>3, ContinueKeeps, CreditFacts, Running DEF SoundRun
  <1>7. \A d \in Deposits : SoundRow(d)'
    BY <1>4, CreditFacts DEF SoundInv, SoundRow, TypeOK
  <1>8. \A h \in Hashes : settled'[h] \subseteq {recordedFor'[h]}
    BY CreditFacts DEF SoundInv, history
  <1>9. \A d \in Deposits : deposit[d] \in DepositRow => deposit'[d] \in DepositRow
    BY CreditFacts
  <1>10. UNCHANGED <<recordedFor, retryList>>
    BY CreditFacts
  <1> QED
    BY <1>1, <1>2, <1>4, <1>5, <1>6, <1>7, <1>8, <1>9, <1>10, ContinueKeeps, StepStaysSound

\* The steps that pay something else than the principal.
LEMMA ExtrasAreSound ==
    ASSUME SoundInv, NEW p \in Runs, run[p] # Idle,
           End(p) \/ (\E pc \in {"approved", "referralRow", "activate"} :
                          Continue(p, pc) /\ (pc = "approved" => run[p].pc = "bonus")),
           run[p].amount >= 1,
           bonusPaid' \in [Deposits -> Nat], referralPaid' \in [Deposits -> Nat],
           bonusRow' \subseteq Deposits, boosted' \subseteq Deposits,
           UNCHANGED <<deposit, recordedFor, retryList, requests, failures, history, paid>>
    PROVE  SoundInv'
  <1>1. /\ run' \in [Runs -> RunState \cup {Idle}] /\ \A q \in Runs \ {p} : run'[q] = run[q]
        /\ SoundRun(p)'
    <2>1. CASE End(p)
      BY <2>1 DEF End, SoundInv, TypeOK, SoundRun
    <2>2. ASSUME NEW pc \in {"approved", "referralRow", "activate"},
                 Continue(p, pc), pc = "approved" => run[p].pc = "bonus"
          PROVE  /\ run' \in [Runs -> RunState \cup {Idle}]
                 /\ \A q \in Runs \ {p} : run'[q] = run[q]
                 /\ SoundRun(p)'
      <3>1. pc \in Calls
        BY DEF Calls
      <3> QED
        BY <2>2, <3>1, ContinueKeeps, Running DEF SoundRun
    <2> QED
      BY <2>1, <2>2
  <1>2. TypeOK'
    BY <1>1 DEF SoundInv, TypeOK, history
  <1>3. \A d \in Deposits : SoundRow(d)' /\ paid'[d] >= paid[d]
    BY DEF SoundInv, TypeOK, SoundRow
  <1>4. \A h \in Hashes : settled'[h] \subseteq {recordedFor'[h]}
    BY DEF SoundInv, history
  <1> QED
    BY <1>1, <1>2, <1>3, <1>4, StepStaysSound

LEMMA ExtraStepsSound ==
    ASSUME SoundInv, NEW p \in Runs,
           CreditBonus(p) \/ ReferralPay(p) \/ ReferralRow(p) \/ Activate(p)
    PROVE  SoundInv'
  <1>1. run[p] # Idle
    BY AtIsRunning DEF CreditBonus, ReferralPay, ReferralRow, Activate
  <1>2. run[p].dep \in Deposits /\ run[p].amount \in Nat /\ run[p].amount >= 1
    BY <1>1, Running
       DEF SoundRun, CreditBonus, ReferralPay, ReferralRow, Activate, At
  <1>3. CASE CreditBonus(p)
    <2>1. bonusPaid' \in [Deposits -> Nat]
      BY <1>2, <1>3 DEF CreditBonus, Bonus, SoundInv, TypeOK
    <2> QED
      BY <1>1, <1>2, <1>3, <2>1, ExtrasAreSound DEF CreditBonus, SoundInv, TypeOK, At
  <1>4. CASE ReferralPay(p)
    <2>1. referralPaid' \in [Deposits -> Nat]
      BY <1>2, <1>4 DEF ReferralPay, SoundInv, TypeOK
    <2> QED
      BY <1>1, <1>2, <1>4, <2>1, ExtrasAreSound DEF ReferralPay, SoundInv, TypeOK
  <1>5. CASE ReferralRow(p)
    BY <1>1, <1>2, <1>5, ExtrasAreSound DEF ReferralRow, SoundInv, TypeOK
  <1>6. CASE Activate(p)
    BY <1>1, <1>2, <1>6, ExtrasAreSound DEF Activate, SoundInv, TypeOK
  <1> QED
    BY <1>3, <1>4, <1>5, <1>6

\* What writing a status changes.
LEMMA StatusFacts ==
    ASSUME SoundInv, NEW p \in Runs, run[p] # Idle, NEW s \in Status,
           deposit' = [deposit EXCEPT ![run[p].dep].status = s]
    PROVE  /\ deposit' \in [Deposits -> DepositRow \cup {NoDeposit}]
           /\ deposit'[run[p].dep] \in DepositRow
           /\ deposit'[run[p].dep].status = s
           /\ deposit'[run[p].dep].amount = deposit[run[p].dep].amount
           /\ deposit'[run[p].dep].hash = deposit[run[p].dep].hash
           /\ \A d \in Deposits \ {run[p].dep} : deposit'[d] = deposit[d]
  <1>1. deposit'[run[p].dep] = [deposit[run[p].dep] EXCEPT !.status = s]
        /\ \A d \in Deposits \ {run[p].dep} : deposit'[d] = deposit[d]
    BY Running DEF SoundInv, TypeOK
  <1>2. deposit'[run[p].dep] \in DepositRow
    BY <1>1, Running DEF DepositRow
  <1>3. deposit' \in [Deposits -> DepositRow \cup {NoDeposit}]
    BY <1>1, <1>2, Running DEF SoundInv, TypeOK
  <1> QED
    BY <1>1, <1>2, <1>3, Running DEF DepositRow

LEMMA SetStatusSound ==
    ASSUME SoundInv, NEW p \in Runs, SetApproved(p) \/ SetRejected(p)
    PROVE  SoundInv'
  <1>1. run[p] # Idle
    BY AtIsRunning DEF SetApproved, SetRejected
  <1>2. PICK s \in {"APPROVED", "REJECTED"} :
            /\ deposit' = [deposit EXCEPT ![run[p].dep].status = s]
            /\ s = "APPROVED" => SetApproved(p)
    BY DEF SetApproved, SetRejected
  <1>3. s \in Status
    BY DEF Status
  <1>4. s = "APPROVED" => paid[run[p].dep] >= 1 /\ run[p].amount >= 1
    BY <1>1, <1>2, Running DEF SetApproved, SoundRun, At
  <1>5. UNCHANGED <<recordedFor, retryList, requests, failures, money, history>>
    BY DEF SetApproved, SetRejected
  <1>6. /\ run' \in [Runs -> RunState \cup {Idle}] /\ \A q \in Runs \ {p} : run'[q] = run[q]
        /\ SoundRun(p)'
    <2>1. CASE SetRejected(p)
      BY <2>1 DEF SetRejected, End, SoundInv, TypeOK, SoundRun
    <2>2. CASE SetApproved(p)
      <3>1. PICK pc \in {"referral", "activate"} : Continue(p, pc)
        BY <2>2 DEF SetApproved
      <3>2. pc \in Calls /\ run[p].amount >= 1
        BY <1>1, <2>2, Running DEF Calls, SoundRun, SetApproved, At
      <3>3. deposit'[run[p].dep] \in DepositRow
        BY <1>1, <1>2, <1>3, StatusFacts
      <3> QED
        BY <1>1, <3>1, <3>2, <3>3, ContinueKeeps DEF SoundRun
    <2> QED
      BY <2>1, <2>2
  <1>7. TypeOK'
    <2>1. deposit' \in [Deposits -> DepositRow \cup {NoDeposit}]
      BY <1>1, <1>2, <1>3, StatusFacts
    <2> QED
      BY <1>5, <1>6, <2>1 DEF SoundInv, TypeOK, money, history
  <1>8. \A d \in Deposits : deposit[d] \in DepositRow => deposit'[d] \in DepositRow
    BY <1>1, <1>2, <1>3, StatusFacts
  <1>9. \A d \in Deposits : SoundRow(d)' /\ paid'[d] >= paid[d]
    <2> TAKE d \in Deposits
    <2>1. paid'[d] = paid[d] /\ paid[d] \in Nat
      BY <1>5 DEF money, SoundInv, TypeOK
    <2>2. CASE d = run[p].dep
      <3>1. deposit'[d].status = s /\ deposit'[d].amount = deposit[d].amount
        BY <1>1, <1>2, <1>3, <2>2, StatusFacts
      <3>2. deposit[d].amount >= 1
        BY <1>1, <2>2, Running
      <3> QED
        BY <1>4, <2>1, <2>2, <3>1, <3>2 DEF SoundRow
    <2>3. CASE d # run[p].dep
      <3>1. deposit'[d] = deposit[d]
        BY <1>1, <1>2, <1>3, <2>3, StatusFacts
      <3> QED
        BY <2>1, <3>1 DEF SoundInv, SoundRow
    <2> QED
      BY <2>1, <2>2, <2>3
  <1>10. \A h \in Hashes : settled'[h] \subseteq {recordedFor'[h]}
    BY <1>5 DEF SoundInv, history
  <1> QED
    BY <1>5, <1>6, <1>7, <1>8, <1>9, <1>10, StepStaysSound

LEMMA StepSound ==
    ASSUME SoundInv, NEW p \in Runs, Step(p)
    PROVE  SoundInv'
  <1>1. CASE Verify(p)
    BY <1>1, VerifyReadSound, RehashSound, LookupSound, RecordSound, SettleSound DEF Verify
  <1>2. CASE ReferralCheck(p)
    <2>1. run[p] # Idle
      BY <1>2, AtIsRunning DEF ReferralCheck
    <2>2. run[p].amount >= 1
      BY <1>2, <2>1, Running DEF ReferralCheck, At, SoundRun
    <2> QED
      BY <1>2, <2>1, <2>2, StepsOnAreSound DEF ReferralCheck, Calls
  <1>3. CASE RejectRead(p)
    <2>1. run[p] # Idle
      BY <1>3, AtIsRunning DEF RejectRead
    <2>2. "rejected" \in Calls
      BY DEF Calls
    <2> QED
      BY <1>3, <2>1, <2>2, StepsOnAreSound DEF RejectRead
  <1>4. CASE Throw(p)
    <2>1. run[p] # Idle
      BY <1>4, AtIsRunning DEF Throw, Refused
    <2>2. End(p) /\ UNCHANGED <<deposit, recordedFor, retryList, requests, failures, money, history>>
      BY <1>4 DEF Throw
    <2> QED
      BY <2>1, <2>2, EndsAreSound
  <1> QED
    BY <1>1, <1>2, <1>3, <1>4, ApproveReadSound, CreditSound, SetStatusSound, ExtraStepsSound
       DEF Step, Approve, Reject

\* A run that begins needs nothing but its deposit.
LEMMA EntersAreSound ==
    ASSUME SoundInv, NEW p \in Runs, NEW d \in Deposits, NEW h \in Hashes \cup {"stored"},
           NEW pc \in {"verify", "approve", "reject"}, Enter(p, pc, d, h),
           deposit' \in [Deposits -> DepositRow \cup {NoDeposit}],
           deposit'[d] \in DepositRow, deposit'[d].amount >= 1,
           deposit'[d] = deposit[d] \/ deposit'[d].status = "PENDING",
           \A e \in Deposits \ {d} : deposit'[e] = deposit[e],
           retryList' \in [Tasks -> SUBSET Deposits],
           \A t \in Tasks : retryList'[t] \subseteq retryList[t], requests' \in 0..MaxRequests,
           UNCHANGED <<recordedFor, failures, money, settled, interrupted>>
    PROVE  SoundInv'
  <1>1. PICK r : r = [pc |-> pc, dep |-> d, hash |-> h, amount |-> 0]
    OBVIOUS
  <1>2. r \in RunState /\ r.pc = pc /\ r.dep = d
    BY <1>1 DEF RunState
  <1>3. run' = [run EXCEPT ![p] = r]
    BY <1>1 DEF Enter
  <1>4. run'[p] = r /\ \A q \in Runs \ {p} : run'[q] = run[q]
    BY <1>3 DEF SoundInv, TypeOK
  <1>5. overlapped' \subseteq Deposits
    BY DEF Enter, SoundInv, TypeOK
  <1>6. TypeOK'
    BY <1>2, <1>3, <1>5 DEF SoundInv, TypeOK, money
  <1>7. SoundRun(p)'
    BY <1>2, <1>4 DEF SoundRun
  <1>8. \A e \in Deposits : SoundRow(e)' /\ paid'[e] >= paid[e]
    BY DEF SoundInv, TypeOK, SoundRow, money
  <1>9. \A x \in Hashes : settled'[x] \subseteq {recordedFor'[x]}
    BY DEF SoundInv
  <1> QED
    BY <1>4, <1>6, <1>7, <1>8, <1>9, StepStaysSound

LEMMA CreateSound ==
    ASSUME SoundInv, NEW p \in Requests, NEW d \in Deposits, NEW h \in Hashes,
           NEW a \in Amounts, CreateDeposit(p, d, h, a)
    PROVE  SoundInv'
  <1>1. PICK row : row = [status |-> "PENDING", hash |-> h, amount |-> a]
    OBVIOUS
  <1>2. row \in DepositRow /\ row.status = "PENDING" /\ row.amount >= 1
    BY <1>1, AmountAssumption DEF DepositRow, Status, CreateDeposit
  <1>3. /\ deposit'[d] = row /\ \A e \in Deposits \ {d} : deposit'[e] = deposit[e]
        /\ deposit' \in [Deposits -> DepositRow \cup {NoDeposit}]
    BY <1>1, <1>2 DEF CreateDeposit, SoundInv, TypeOK
  <1>4. p \in Runs /\ requests' \in 0..MaxRequests
    BY BoundAssumption DEF Runs, CreateDeposit, Request, SoundInv, TypeOK
  <1>5. /\ Enter(p, "verify", d, "stored")
        /\ UNCHANGED <<recordedFor, retryList, failures, money, settled, interrupted>>
    BY DEF CreateDeposit
  <1>6. retryList' \in [Tasks -> SUBSET Deposits]
    BY <1>5 DEF SoundInv, TypeOK
  <1> QED
    BY <1>2, <1>3, <1>4, <1>5, <1>6, EntersAreSound

LEMMA ExistingRow ==
    ASSUME SoundInv, NEW d \in Deposits, Exists(d)
    PROVE  deposit[d] \in DepositRow /\ deposit[d].amount >= 1
  BY DEF SoundInv, TypeOK, SoundRow, Exists

LEMMA AskSound ==
    ASSUME SoundInv, NEW p \in Requests, NEW d \in Deposits,
           \/ \E h \in Hashes \cup {"stored"} : RequestVerify(p, d, h)
           \/ \E pc \in {"approve", "reject"} : RequestDecision(p, d, pc)
    PROVE  SoundInv'
  <1>1. PICK h \in Hashes \cup {"stored"}, pc \in {"verify", "approve", "reject"} :
            Enter(p, pc, d, h)
    BY DEF RequestVerify, RequestDecision
  <1>2. /\ p \in Runs /\ requests' \in 0..MaxRequests /\ Exists(d)
        /\ UNCHANGED <<deposit, recordedFor, retryList, failures, money, settled, interrupted>>
    BY BoundAssumption DEF Runs, RequestVerify, RequestDecision, Request, SoundInv, TypeOK
  <1>3. deposit' \in [Deposits -> DepositRow \cup {NoDeposit}]
        /\ retryList' \in [Tasks -> SUBSET Deposits]
    BY <1>2 DEF SoundInv, TypeOK
  <1> QED
    BY <1>1, <1>2, <1>3, ExistingRow, EntersAreSound

LEMMA CronSound ==
    ASSUME SoundInv, NEW t \in Tasks, CronTick(t) \/ \E d \in Deposits : CronVerify(t, d)
    PROVE  SoundInv'
  <1>1. CASE CronTick(t)
    <2>1. PICK due : due = {d \in Deposits : deposit[d].status \in {"PENDING", "VERIFIED"}}
      OBVIOUS
    <2>2. retryList' = [retryList EXCEPT ![t] = due]
      BY <1>1, <2>1 DEF CronTick
    <2>3. UNCHANGED <<deposit, recordedFor, run, requests, failures, money, history>>
      BY <1>1 DEF CronTick
    <2>4. \A d \in due : d \in Deposits /\ deposit[d] \in DepositRow
      BY <2>1 DEF SoundInv, TypeOK, NoDeposit
    <2>5. TypeOK'
      BY <2>2, <2>3, <2>4 DEF SoundInv, TypeOK, money, history
    <2>6. \A q \in Runs : SoundRun(q)'
      BY <2>3 DEF SoundInv, SoundRun, money
    <2>7. \A d \in Deposits : SoundRow(d)'
      BY <2>3 DEF SoundInv, SoundRow, money
    <2>8. \A x \in Tasks : \A d \in retryList'[x] : deposit'[d] \in DepositRow
      BY <2>2, <2>3, <2>4 DEF SoundInv, TypeOK
    <2> QED
      BY <2>3, <2>5, <2>6, <2>7, <2>8 DEF SoundInv, history
  <1>2. ASSUME NEW d \in Deposits, CronVerify(t, d)
        PROVE  SoundInv'
    <2>1. /\ t \in Runs /\ Enter(t, "verify", d, "stored") /\ deposit[d] \in DepositRow
          /\ UNCHANGED <<deposit, recordedFor, requests, failures, money, settled, interrupted>>
      BY <1>2 DEF Runs, CronVerify, SoundInv
    <2>2. /\ retryList' \in [Tasks -> SUBSET Deposits]
          /\ \A x \in Tasks : retryList'[x] \subseteq retryList[x]
      BY <1>2 DEF CronVerify, SoundInv, TypeOK
    <2>3. deposit[d].amount >= 1 /\ requests' \in 0..MaxRequests
          /\ deposit' \in [Deposits -> DepositRow \cup {NoDeposit}]
      BY <2>1 DEF SoundInv, SoundRow, TypeOK, NoDeposit, DepositRow
    <2> QED
      BY <2>1, <2>2, <2>3, EntersAreSound
  <1> QED
    BY <1>1, <1>2

LEMMA ElsewhereSound ==
    ASSUME SoundInv, NEW h \in Hashes, RecordElsewhere(h)
    PROVE  SoundInv'
  <1>1. /\ recordedFor' \in [Hashes -> Deposits \cup {"nobody", "other"}]
        /\ recordedFor[h] = "nobody"
        /\ \A x \in Hashes \ {h} : recordedFor'[x] = recordedFor[x]
        /\ requests' \in 0..MaxRequests
    BY BoundAssumption DEF RecordElsewhere, Recorded, SoundInv, TypeOK
  <1>2. UNCHANGED <<deposit, run, retryList, failures, money, history>>
    BY DEF RecordElsewhere
  <1>3. TypeOK'
    BY <1>1, <1>2 DEF SoundInv, TypeOK, money, history
  <1>4. \A d \in Deposits : SoundRow(d)' /\ paid'[d] >= paid[d]
    BY <1>2 DEF SoundInv, TypeOK, SoundRow, money
  <1>5. \A q \in Runs : SoundRun(q)'
    BY <1>1, <1>2, <1>4, OtherRunsStaySound DEF money, Recorded, SoundInv, TypeOK
  <1>6. \A x \in Hashes : settled'[x] \subseteq {recordedFor'[x]}
    <2> TAKE x \in Hashes
    <2>1. CASE x = h
      <3>1. settled[x] \subseteq {"nobody"} /\ settled[x] \subseteq Deposits
        BY <1>1, <2>1 DEF SoundInv, TypeOK
      <3> QED
        BY <3>1, <1>2, NameAssumption DEF history
    <2>2. CASE x # h
      BY <1>1, <1>2, <2>2 DEF SoundInv, history
    <2> QED
      BY <2>1, <2>2
  <1> QED
    BY <1>2, <1>3, <1>4, <1>5, <1>6 DEF SoundInv

LEMMA ProgressTyped ==
    ASSUME SoundInv, NEW p \in Runs, run[p] # Idle
    PROVE  Progress(p) \subseteq Deposits \X {"unpaid", "paying"}
  BY Running DEF Progress

LEMMA FailSound ==
    ASSUME SoundInv, NEW p \in Runs, Fail(p)
    PROVE  SoundInv'
  <1>1. Progress(p) \subseteq Deposits \X {"unpaid", "paying"}
    BY ProgressTyped DEF Fail
  <1>2. /\ run' = [run EXCEPT ![p] = Idle] /\ failures' \in 0..MaxFailures
        /\ interrupted' \subseteq Deposits \X {"unpaid", "paying"}
        /\ UNCHANGED <<deposit, recordedFor, retryList, requests, money, settled, overlapped>>
    BY <1>1, BoundAssumption DEF Fail, End, SoundInv, TypeOK
  <1>3. TypeOK'
    BY <1>2 DEF SoundInv, TypeOK, money
  <1>4. SoundRun(p)' /\ \A q \in Runs \ {p} : run'[q] = run[q]
    BY <1>2 DEF SoundInv, TypeOK, SoundRun
  <1>5. \A d \in Deposits : SoundRow(d)' /\ paid'[d] >= paid[d]
    BY <1>2 DEF SoundInv, TypeOK, SoundRow, money
  <1>6. \A h \in Hashes : settled'[h] \subseteq {recordedFor'[h]}
    BY <1>2 DEF SoundInv
  <1> QED
    BY <1>2, <1>3, <1>4, <1>5, <1>6, StepStaysSound

LEMMA CrashSound ==
    ASSUME SoundInv, Crash
    PROVE  SoundInv'
  <1>1. UNION {Progress(p) : p \in {q \in Runs : run[q] # Idle}}
            \subseteq Deposits \X {"unpaid", "paying"}
    BY ProgressTyped
  <1>2. /\ run' = [p \in Runs |-> Idle] /\ retryList' = [t \in Tasks |-> {}]
        /\ failures' \in 0..MaxFailures
        /\ interrupted' \subseteq Deposits \X {"unpaid", "paying"}
        /\ UNCHANGED <<deposit, recordedFor, requests, money, settled, overlapped>>
    BY <1>1, BoundAssumption DEF Crash, SoundInv, TypeOK
  <1>3. TypeOK'
    BY <1>2 DEF SoundInv, TypeOK, money
  <1>4. \A q \in Runs : SoundRun(q)'
    BY <1>2 DEF SoundRun
  <1>5. \A d \in Deposits : SoundRow(d)'
    BY <1>2 DEF SoundInv, SoundRow, money
  <1> QED
    BY <1>2, <1>3, <1>4, <1>5 DEF SoundInv

LEMMA StutterSound == ASSUME SoundInv, UNCHANGED vars PROVE SoundInv'
  BY DEF SoundInv, TypeOK, SoundRun, SoundRow, vars, money, history

LEMMA NextSound == SoundInv /\ [Next]_vars => SoundInv'
  <1> SUFFICES ASSUME SoundInv, [Next]_vars
               PROVE  SoundInv'
    OBVIOUS
  <1>1. ASSUME NEW p \in Requests, Arrive(p)
        PROVE  SoundInv'
    BY <1>1, CreateSound, AskSound DEF Arrive
  <1>2. ASSUME NEW p \in Runs, Step(p) \/ Fail(p)
        PROVE  SoundInv'
    BY <1>2, StepSound, FailSound
  <1> QED
    BY <1>1, <1>2, ElsewhereSound, CronSound, CrashSound, StutterSound DEF Next

\* Rows, runs and counters keep their types, and every run works on a deposit
\* that exists: no handler or task ever reads a row that is not there.
THEOREM TypeCorrect == Spec => []TypeOK
  <1>1. SoundInv => TypeOK
    BY DEF SoundInv
  <1> QED
    BY <1>1, InitSound, NextSound, PTL DEF Spec

THEOREM SoundAlways == Spec => []SoundInv
  BY InitSound, NextSound, PTL DEF Spec

\* A transaction hash vouches for one deposit only, for any number of deposits,
\* hashes, handlers and failures.
THEOREM HashVouchesOnce == Spec => []HashVerifiesOneDeposit
  <1>1. SoundInv => HashVerifiesOneDeposit
    <2> SUFFICES ASSUME SoundInv, NEW h \in Hashes
                 PROVE  Cardinality(settled[h]) <= 1
      BY DEF HashVerifiesOneDeposit
    <2>1. settled[h] = {} \/ settled[h] = {recordedFor[h]}
      BY DEF SoundInv
    <2>2. Cardinality({}) = 0 /\ Cardinality({recordedFor[h]}) = 1
      BY FS_EmptySet, FS_Singleton
    <2>3. Cardinality(settled[h]) = 0 \/ Cardinality(settled[h]) = 1
      BY <2>1, <2>2
    <2> QED
      BY <2>3
  <1> QED
    BY <1>1, SoundAlways, PTL

(* ---------------------------------------------------------------------- *)
(* What holds for a deposit on which no two runs overlapped               *)

Unpaid(d) ==
    paid[d] = 0 /\ bonusPaid[d] = 0 /\ referralPaid[d] = 0 /\ d \notin bonusRow /\ d \notin boosted

Principal(d) == paid[d] = deposit[d].amount /\ bonusPaid[d] = Bonus(deposit[d].amount)

Referral(d) == referralPaid[d] = (IF d \in Sponsored THEN deposit[d].amount ELSE 0)

\* The money given out is what the row says.
Balanced(d) ==
    /\ deposit[d].status # "APPROVED" => Unpaid(d)
    /\ deposit[d].status = "APPROVED" =>
           /\ Principal(d) /\ Referral(d)
           /\ d \in boosted <=> deposit[d].amount >= SPONSOR_TRADE_BONUS_DEPOSIT_MIN

\* The credits cover what the row says, also when a run that failed while
\* paying was followed by another.
Covered(d) ==
    deposit[d].status = "APPROVED" =>
        paid[d] >= deposit[d].amount /\ bonusPaid[d] >= Bonus(deposit[d].amount)

\* Alone on its deposit, a run finds the row at each call as it read it.
InOrder(p) ==
    LET pc == run[p].pc
        d == run[p].dep
    IN  /\ pc \in {"rehash", "lookup", "record", "settle"} =>
               deposit[d].status \in {"PENDING", "REJECTED"} /\ run[p].amount = deposit[d].amount
        /\ pc \in {"credit", "bonus", "approved"} =>
               deposit[d].status \in {"PENDING", "VERIFIED"} /\ run[p].amount = deposit[d].amount
        /\ pc \in {"bonus", "approved"} => paid[d] >= deposit[d].amount
        /\ pc = "approved" => bonusPaid[d] >= Bonus(deposit[d].amount)
        /\ pc \in {"referral", "referralPay", "referralRow", "activate"} =>
               deposit[d].status = "APPROVED" /\ run[p].amount = deposit[d].amount
        /\ pc = "rejected" => deposit[d].status # "APPROVED"

\* ... and what has been paid follows from the call it is about to make.
Exact(p) ==
    LET pc == run[p].pc
        d == run[p].dep
    IN  /\ pc \in {"verify", "rehash", "lookup", "record", "settle", "approve", "reject",
                   "rejected"} => Balanced(d)
        /\ pc = "credit" => Unpaid(d)
        /\ pc = "bonus" => paid[d] = deposit[d].amount /\ bonusPaid[d] = 0
        /\ pc \in {"approved", "referral", "referralPay", "referralRow", "activate"} => Principal(d)
        /\ pc \in {"bonus", "approved", "referral", "referralPay"} =>
               referralPaid[d] = 0 /\ d \notin bonusRow
        /\ pc \in {"referral", "referralPay", "referralRow"} => d \in Sponsored
        /\ pc \in {"referralRow", "activate"} => Referral(d)
        /\ pc \in {"bonus", "approved", "referral", "referralPay", "referralRow", "activate"} =>
               d \notin boosted

Undisturbed(d) == <<d, "paying">> \notin interrupted

Orderly(d) ==
    d \notin overlapped =>
        /\ \A p, q \in Runs : On(p, d) /\ On(q, d) => p = q
        /\ Covered(d)
        /\ \A p \in Runs : On(p, d) => InOrder(p)
        /\ Undisturbed(d) => /\ Quiet(d) => Balanced(d)
                             /\ \A p \in Runs : On(p, d) => Exact(p)

OrderInv == SoundInv /\ \A d \in Deposits : Orderly(d)

LEMMA InitOrderly == Init => OrderInv
  BY InitSound
     DEF Init, OrderInv, Orderly, On, Covered, InOrder, Exact, Balanced, Unpaid, NoDeposit, Idle

\* A deposit that a step leaves alone, with its runs, stays in order.
LEMMA UntouchedStaysOrderly ==
    ASSUME NEW d \in Deposits, Orderly(d),
           deposit'[d] = deposit[d], paid'[d] = paid[d], bonusPaid'[d] = bonusPaid[d],
           referralPaid'[d] = referralPaid[d],
           d \in bonusRow' <=> d \in bonusRow, d \in boosted' <=> d \in boosted,
           d \in overlapped => d \in overlapped',
           <<d, "paying">> \in interrupted => <<d, "paying">> \in interrupted',
           \A q \in Runs : On(q, d) \/ On(q, d)' => run'[q] = run[q]
    PROVE  Orderly(d)'
  <1> SUFFICES ASSUME d \notin overlapped'
               PROVE  Orderly(d)'
    BY DEF Orderly
  <1>1. \A q \in Runs : On(q, d)' <=> On(q, d)
    BY DEF On
  <1>2. Covered(d)'
    BY DEF Orderly, Covered
  <1>3. ASSUME NEW q \in Runs, On(q, d)'
        PROVE  InOrder(q)' /\ (Undisturbed(d)' => Exact(q)')
    <2>1. On(q, d) /\ run'[q] = run[q] /\ run[q].dep = d
      BY <1>1, <1>3 DEF On
    <2>2. InOrder(q) /\ (Undisturbed(d)' => Exact(q))
      BY <2>1 DEF Orderly, Undisturbed
    <2> QED
      BY <2>1, <2>2
         DEF InOrder, Exact, Balanced, Unpaid, Principal, Referral
  <1>4. Undisturbed(d)' /\ Quiet(d)' => Balanced(d)'
    <2>1. Quiet(d)' => Quiet(d)
      BY <1>1 DEF Quiet
    <2> QED
      BY <2>1 DEF Orderly, Undisturbed, Balanced, Unpaid, Principal, Referral
  <1> QED
    BY <1>1, <1>2, <1>3, <1>4 DEF Orderly

\* The deposit of a run that goes on to its next call.
LEMMA GoesOnOrderly ==
    ASSUME NEW p \in Runs, run[p] # Idle, NEW d, d = run[p].dep, d \in Deposits, Orderly(d),
           run'[p] # Idle, run'[p].dep = d,
           \A q \in Runs \ {p} : run'[q] = run[q],
           overlapped' = overlapped, interrupted' = interrupted,
           d \notin overlapped => Covered(d)' /\ InOrder(p)',
           d \notin overlapped /\ Undisturbed(d) => Exact(p)'
    PROVE  Orderly(d)'
  <1> SUFFICES ASSUME d \notin overlapped
               PROVE  Orderly(d)'
    BY DEF Orderly
  <1>1. On(p, d) /\ On(p, d)'
    BY DEF On
  <1>2. \A q \in Runs : On(q, d) => q = p
    BY <1>1 DEF Orderly
  <1>3. \A q \in Runs : On(q, d)' => q = p
    BY <1>2 DEF On
  <1>4. ~ Quiet(d)'
    BY <1>1 DEF Quiet
  <1>5. Undisturbed(d)' => Undisturbed(d)
    BY DEF Undisturbed
  <1> QED
    BY <1>3, <1>4, <1>5 DEF Orderly

\* The deposit of a run that ends.
LEMMA EndsOrderly ==
    ASSUME NEW p \in Runs, run[p] # Idle, NEW d, d = run[p].dep, d \in Deposits, Orderly(d),
           run'[p] = Idle,
           \A q \in Runs \ {p} : run'[q] = run[q],
           overlapped' = overlapped, interrupted \subseteq interrupted',
           d \notin overlapped => Covered(d)',
           d \notin overlapped /\ Undisturbed(d)' => Balanced(d)'
    PROVE  Orderly(d)'
  <1> SUFFICES ASSUME d \notin overlapped
               PROVE  Orderly(d)'
    BY DEF Orderly
  <1>1. On(p, d)
    BY DEF On
  <1>2. \A q \in Runs : On(q, d) => q = p
    BY <1>1 DEF Orderly
  <1>3. \A q \in Runs : ~ On(q, d)'
    BY <1>2 DEF On
  <1> QED
    BY <1>3 DEF Orderly

\* What is known of a run alone on its deposit.
LEMMA Alone ==
    ASSUME OrderInv, NEW p \in Runs, run[p] # Idle, run[p].dep \notin overlapped
    PROVE  /\ Covered(run[p].dep) /\ InOrder(p)
           /\ Undisturbed(run[p].dep) => Exact(p)
  <1>1. run[p].dep \in Deposits
    BY Running DEF OrderInv
  <1> QED
    BY <1>1 DEF OrderInv, Orderly, On

\* A step of one run that changes nothing of the other deposits.
LEMMA StepStaysOrderly ==
    ASSUME OrderInv, SoundInv', NEW p \in Runs, run[p] # Idle, NEW d \in Deposits, d = run[p].dep,
           Orderly(d)',
           \A q \in Runs \ {p} : run'[q] = run[q],
           run'[p] = Idle \/ run'[p].dep = run[p].dep,
           overlapped' = overlapped, interrupted \subseteq interrupted',
           \A e \in Deposits \ {d} :
               /\ deposit'[e] = deposit[e] /\ paid'[e] = paid[e] /\ bonusPaid'[e] = bonusPaid[e]
               /\ referralPaid'[e] = referralPaid[e]
               /\ e \in bonusRow' <=> e \in bonusRow
               /\ e \in boosted' <=> e \in boosted
    PROVE  OrderInv'
  <1>1. ASSUME NEW e \in Deposits \ {d}
        PROVE  Orderly(e)'
    <2>1. \A q \in Runs : On(q, e) \/ On(q, e)' => run'[q] = run[q]
      BY <1>1 DEF On
    <2> QED
      BY <2>1, UntouchedStaysOrderly DEF OrderInv
  <1> QED
    BY <1>1 DEF OrderInv

\* A step by which a run goes on to its next call, or a step in which it ends,
\* without writing the deposit or paying anything.
LEMMA OnlyGoesOn ==
    ASSUME OrderInv, SoundInv', NEW p \in Runs, run[p] # Idle, NEW d \in Deposits, d = run[p].dep,
           run'[p] # Idle, run'[p].dep = d, \A q \in Runs \ {p} : run'[q] = run[q],
           d \notin overlapped => InOrder(p)',
           d \notin overlapped /\ Undisturbed(d) => Exact(p)',
           UNCHANGED <<deposit, money, history>>
    PROVE  OrderInv'
  <1>1. Orderly(d)
    BY DEF OrderInv
  <1>2. d \notin overlapped => Covered(d)'
    BY Alone DEF Covered, money
  <1>3. Orderly(d)'
    BY <1>1, <1>2, GoesOnOrderly DEF history
  <1> QED
    BY <1>3, StepStaysOrderly DEF money, history

LEMMA OnlyEnds ==
    ASSUME OrderInv, SoundInv', NEW p \in Runs, run[p] # Idle, NEW d \in Deposits, d = run[p].dep, End(p),
           d \notin overlapped /\ Undisturbed(d)' => Balanced(d),
           interrupted \subseteq interrupted',
           UNCHANGED <<deposit, money, settled, overlapped>>
    PROVE  OrderInv'
  <1>1. Orderly(d)
    BY DEF OrderInv
  <1>2. run'[p] = Idle /\ \A q \in Runs \ {p} : run'[q] = run[q]
    BY DEF End, OrderInv, SoundInv, TypeOK
  <1>3. d \notin overlapped => Covered(d)'
    BY Alone DEF Covered, money
  <1>4. d \notin overlapped /\ Undisturbed(d)' => Balanced(d)'
    BY DEF Balanced, Unpaid, Principal, Referral, money
  <1>5. Orderly(d)'
    BY <1>1, <1>2, <1>3, <1>4, EndsOrderly
  <1> QED
    BY <1>2, <1>5, StepStaysOrderly DEF money

LEMMA VerifyReadOrderly ==
    ASSUME OrderInv, SoundInv', NEW p \in Runs, VerifyRead(p)
    PROVE  OrderInv'
  <1>1. PICK d : d = run[p].dep
    OBVIOUS
  <1>2. run[p] # Idle /\ run[p].pc = "verify"
    BY AtIsRunning DEF VerifyRead, At
  <1>3. /\ d \in Deposits /\ deposit[d].status \in Status /\ deposit[d].amount \in Nat
        /\ run[p] \in RunState
    BY <1>1, <1>2, Running DEF OrderInv
  <1>4. /\ run'[p].pc \in {"lookup", "rehash"} /\ run'[p].dep = d
        /\ run'[p].amount = deposit[d].amount
        /\ \A q \in Runs \ {p} : run'[q] = run[q]
    BY <1>1, <1>3 DEF VerifyRead, RunState, OrderInv, SoundInv, TypeOK
  <1>5. deposit[d].status \in {"PENDING", "REJECTED"}
    BY <1>1, <1>3 DEF VerifyRead, Status
  <1>6. UNCHANGED <<deposit, money, history>>
    BY DEF VerifyRead
  <1>7. InOrder(p)'
    BY <1>4, <1>5, <1>6 DEF InOrder
  <1>8. d \notin overlapped /\ Undisturbed(d) => Exact(p)'
    <2> SUFFICES ASSUME d \notin overlapped, Undisturbed(d)
                 PROVE  Exact(p)'
      OBVIOUS
    <2>1. Balanced(d)
      BY <1>1, <1>2, Alone DEF Exact
    <2> QED
      BY <1>4, <1>6, <2>1 DEF Exact, Balanced, Unpaid, Principal, Referral, money
  <1>9. run'[p] # Idle
    BY <1>4 DEF Idle
  <1> QED
    BY <1>1, <1>2, <1>3, <1>4, <1>6, <1>7, <1>8, <1>9, OnlyGoesOn

\* Calls that neither pay nor change the status or the amount of the row.
LEMMA PlainStepsOrderly ==
    ASSUME OrderInv, SoundInv', NEW p \in Runs,
           Lookup(p) \/ Record(p) \/ ReferralCheck(p) \/ RejectRead(p)
    PROVE  OrderInv'
  <1>1. PICK d : d = run[p].dep
    OBVIOUS
  <1>2. run[p] # Idle
    BY AtIsRunning DEF Lookup, Record, ReferralCheck, RejectRead
  <1>3. d \in Deposits
    BY <1>1, <1>2, Running DEF OrderInv
  <1>4. PICK pc \in Calls :
            /\ Continue(p, pc)
            /\ \/ pc \in {"record", "settle"} /\ run[p].pc \in {"lookup", "record"}
               \/ pc = "referralPay" /\ run[p].pc = "referral"
               \/ pc = "rejected" /\ run[p].pc = "reject" /\ deposit[d].status # "APPROVED"
    BY <1>1 DEF Lookup, Record, ReferralCheck, RejectRead, Calls, At
  <1>5. UNCHANGED <<deposit, money, history>>
    BY DEF Lookup, Record, ReferralCheck, RejectRead
  <1>6. /\ run'[p] # Idle /\ run'[p].dep = d /\ run'[p].pc = pc
        /\ run'[p].amount = run[p].amount
        /\ \A q \in Runs \ {p} : run'[q] = run[q]
    BY <1>1, <1>2, <1>4, ContinueKeeps DEF OrderInv
  <1>7. ASSUME d \notin overlapped
        PROVE  InOrder(p)'
    <2>1. InOrder(p)
      BY <1>1, <1>2, <1>7, Alone
    <2> QED
      BY <1>1, <1>4, <1>5, <1>6, <2>1 DEF InOrder
  <1>8. ASSUME d \notin overlapped, Undisturbed(d)
        PROVE  Exact(p)'
    <2>1. Exact(p)
      BY <1>1, <1>2, <1>8, Alone
    <2> QED
      BY <1>1, <1>4, <1>5, <1>6, <2>1
         DEF Exact, Balanced, Unpaid, Principal, Referral, money
  <1> QED
    BY <1>1, <1>2, <1>3, <1>5, <1>6, <1>7, <1>8, OnlyGoesOn

\* A step that writes the row of its deposit, pays nothing, and goes on.
LEMMA WritesAndGoesOn ==
    ASSUME OrderInv, SoundInv', NEW p \in Runs, run[p] # Idle, NEW d \in Deposits, d = run[p].dep,
           NEW pc \in Calls, Continue(p, pc),
           \A e \in Deposits \ {d} : deposit'[e] = deposit[e],
           d \notin overlapped => Covered(d)' /\ InOrder(p)',
           d \notin overlapped /\ Undisturbed(d) => Exact(p)',
           UNCHANGED <<money, overlapped, interrupted>>
    PROVE  OrderInv'
  <1>1. Orderly(d)
    BY DEF OrderInv
  <1>2. /\ \A q \in Runs \ {p} : run'[q] = run[q]
        /\ run'[p] # Idle /\ run'[p].dep = d
    BY ContinueKeeps DEF OrderInv
  <1>3. Orderly(d)'
    BY <1>1, <1>2, GoesOnOrderly
  <1> QED
    BY <1>2, <1>3, StepStaysOrderly DEF money

LEMMA RehashOrderly ==
    ASSUME OrderInv, SoundInv', NEW p \in Runs, Rehash(p)
    PROVE  OrderInv'
  <1>1. PICK d : d = run[p].dep
    OBVIOUS
  <1>2. run[p] # Idle /\ run[p].pc = "rehash"
    BY AtIsRunning DEF Rehash, At
  <1>3. d \in Deposits /\ deposit[d] \in DepositRow
    BY <1>1, <1>2, Running DEF OrderInv
  <1>4. deposit'[d] = [deposit[d] EXCEPT !.hash = run[p].hash]
        /\ \A e \in Deposits \ {d} : deposit'[e] = deposit[e]
    BY <1>1, <1>3 DEF Rehash, OrderInv, SoundInv, TypeOK
  <1>5. deposit'[d].status = deposit[d].status /\ deposit'[d].amount = deposit[d].amount
    BY <1>3, <1>4 DEF DepositRow
  <1>6. Continue(p, "lookup") /\ "lookup" \in Calls /\ UNCHANGED <<money, history>>
    BY DEF Rehash, Calls
  <1>7. /\ run'[p].dep = d /\ run'[p].pc = "lookup" /\ run'[p].amount = run[p].amount
    BY <1>1, <1>2, <1>6, ContinueKeeps DEF OrderInv
  <1>8. ASSUME d \notin overlapped
        PROVE  Covered(d)' /\ InOrder(p)'
    <2>1. InOrder(p) /\ Covered(d)
      BY <1>1, <1>2, <1>8, Alone
    <2> QED
      BY <1>1, <1>2, <1>5, <1>6, <1>7, <2>1 DEF InOrder, Covered, money
  <1>9. ASSUME d \notin overlapped, Undisturbed(d)
        PROVE  Exact(p)'
    <2>1. Balanced(d)
      BY <1>1, <1>2, <1>9, Alone DEF Exact
    <2> QED
      BY <1>5, <1>6, <1>7, <2>1 DEF Exact, Balanced, Unpaid, Principal, Referral, money
  <1> QED
    BY <1>1, <1>2, <1>3, <1>4, <1>6, <1>8, <1>9, WritesAndGoesOn DEF history

LEMMA SettleOrderly ==
    ASSUME OrderInv, SoundInv', NEW p \in Runs, Settle(p)
    PROVE  OrderInv'
  <1>1. PICK d : d = run[p].dep
    OBVIOUS
  <1>2. run[p] # Idle /\ run[p].pc = "settle"
    BY AtIsRunning DEF Settle, At
  <1>3. d \in Deposits /\ deposit[d] \in DepositRow
    BY <1>1, <1>2, Running DEF OrderInv
  <1>4. PICK a : deposit'[d] = [deposit[d] EXCEPT !.status = "VERIFIED", !.amount = a]
        /\ \A e \in Deposits \ {d} : deposit'[e] = deposit[e]
    BY <1>1, <1>3 DEF Settle, OrderInv, SoundInv, TypeOK
  <1>5. deposit'[d].status = "VERIFIED"
    BY <1>3, <1>4 DEF DepositRow
  <1>6. Continue(p, "approve") /\ "approve" \in Calls
        /\ UNCHANGED <<money, overlapped, interrupted>>
    BY DEF Settle, Calls
  <1>7. run'[p].dep = d /\ run'[p].pc = "approve"
    BY <1>1, <1>2, <1>6, ContinueKeeps DEF OrderInv
  <1>8. Covered(d)' /\ InOrder(p)'
    BY <1>5, <1>7 DEF InOrder, Covered
  <1>9. ASSUME d \notin overlapped, Undisturbed(d)
        PROVE  Exact(p)'
    <2>1. Balanced(d) /\ deposit[d].status # "APPROVED"
      BY <1>1, <1>2, <1>9, Alone DEF Exact, InOrder
    <2> QED
      BY <1>5, <1>6, <1>7, <2>1 DEF Exact, Balanced, Unpaid, money
  <1> QED
    BY <1>1, <1>2, <1>3, <1>4, <1>6, <1>8, <1>9, WritesAndGoesOn

LEMMA ApproveReadOrderly ==
    ASSUME OrderInv, SoundInv', NEW p \in Runs, ApproveRead(p)
    PROVE  OrderInv'
  <1>1. PICK d : d = run[p].dep
    OBVIOUS
  <1>2. run[p] # Idle /\ run[p].pc = "approve"
    BY AtIsRunning DEF ApproveRead, At
  <1>3. d \in Deposits /\ run[p] \in RunState
    BY <1>1, <1>2, Running DEF OrderInv
  <1>4. /\ run'[p].pc = "credit" /\ run'[p].dep = d
        /\ run'[p].amount = deposit[d].amount
        /\ \A q \in Runs \ {p} : run'[q] = run[q]
    BY <1>1, <1>3 DEF ApproveRead, RunState, OrderInv, SoundInv, TypeOK
  <1>5. deposit[d].status \in {"PENDING", "VERIFIED"} /\ UNCHANGED <<deposit, money, history>>
    BY <1>1 DEF ApproveRead
  <1>6. InOrder(p)'
    BY <1>4, <1>5 DEF InOrder
  <1>7. ASSUME d \notin overlapped, Undisturbed(d)
        PROVE  Exact(p)'
    <2>1. Balanced(d)
      BY <1>1, <1>2, <1>7, Alone DEF Exact
    <2> QED
      BY <1>4, <1>5, <2>1 DEF Exact, Balanced, Unpaid, money
  <1>8. run'[p] # Idle
    BY <1>4 DEF Idle
  <1> QED
    BY <1>1, <1>2, <1>3, <1>4, <1>5, <1>6, <1>7, <1>8, OnlyGoesOn

\* A step that pays on its deposit, and goes on.
LEMMA PaysAndGoesOn ==
    ASSUME OrderInv, SoundInv', NEW p \in Runs, run[p] # Idle, NEW d \in Deposits, d = run[p].dep,
           run'[p] # Idle, run'[p].dep = d, \A q \in Runs \ {p} : run'[q] = run[q],
           \A e \in Deposits \ {d} :
               /\ paid'[e] = paid[e] /\ bonusPaid'[e] = bonusPaid[e]
               /\ referralPaid'[e] = referralPaid[e]
               /\ e \in bonusRow' <=> e \in bonusRow,
           d \notin overlapped => Covered(d)' /\ InOrder(p)',
           d \notin overlapped /\ Undisturbed(d) => Exact(p)',
           UNCHANGED <<deposit, boosted, history>>
    PROVE  OrderInv'
  <1>1. Orderly(d)
    BY DEF OrderInv
  <1>2. Orderly(d)'
    BY <1>1, GoesOnOrderly DEF history
  <1> QED
    BY <1>2, StepStaysOrderly DEF history

LEMMA CreditOrderly ==
    ASSUME OrderInv, SoundInv', NEW p \in Runs, Credit(p)
    PROVE  OrderInv'
  <1> USE DEF OrderInv
  <1>1. PICK d : d = run[p].dep
    OBVIOUS
  <1>2. run[p] # Idle /\ run[p].pc = "credit" /\ run[p].amount >= 1 /\ run[p].amount \in Nat
    BY CreditFacts, Running
  <1>3. /\ d \in Deposits /\ paid[d] \in Nat /\ bonusPaid[d] \in Nat /\ deposit[d].amount \in Nat
        /\ deposit[d].status \in Status
    BY <1>1, <1>2, Running
  <1>4. /\ paid'[d] = paid[d] + run[p].amount
        /\ \A e \in Deposits \ {d} : paid'[e] = paid[e]
        /\ UNCHANGED <<deposit, bonusPaid, referralPaid, bonusRow, boosted, history>>
    BY <1>1, CreditFacts
  <1>5. PICK pc \in {"bonus", "approved"} :
            Continue(p, pc) /\ (pc = "bonus" <=> Bonus(run[p].amount) > 0)
    BY CreditFacts
  <1>6. pc \in Calls
    BY DEF Calls
  <1>7. /\ run'[p] # Idle /\ run'[p].dep = d /\ run'[p].pc = pc
        /\ run'[p].amount = run[p].amount /\ \A q \in Runs \ {p} : run'[q] = run[q]
    BY <1>1, <1>2, <1>5, <1>6, ContinueKeeps
  <1>8. pc = "approved" => Bonus(run[p].amount) = 0
    BY <1>2, <1>5 DEF Bonus
  <1>9. ASSUME d \notin overlapped
        PROVE  Covered(d)' /\ InOrder(p)'
    <2>1. deposit[d].status \in {"PENDING", "VERIFIED"} /\ run[p].amount = deposit[d].amount
      BY <1>1, <1>2, <1>9, Alone DEF InOrder
    <2>2. Covered(d)'
      BY <1>4, <2>1 DEF Covered
    <2>3. pc = "approved" => bonusPaid[d] >= Bonus(deposit[d].amount)
      BY <1>3, <1>8, <2>1
    <2>4. paid'[d] >= deposit[d].amount
      BY <1>2, <1>3, <1>4, <2>1
    <2> QED
      BY <1>4, <1>7, <2>1, <2>2, <2>3, <2>4 DEF InOrder
  <1>10. ASSUME d \notin overlapped, Undisturbed(d)
         PROVE  Exact(p)'
    <2>1. Unpaid(d) /\ run[p].amount = deposit[d].amount
      BY <1>1, <1>2, <1>10, Alone DEF Exact, InOrder
    <2>2. paid'[d] = deposit[d].amount /\ bonusPaid'[d] = 0 /\ referralPaid'[d] = 0
          /\ d \notin bonusRow' /\ d \notin boosted'
      BY <1>3, <1>4, <2>1 DEF Unpaid
    <2>3. pc = "approved" => Bonus(deposit[d].amount) = 0
      BY <1>8, <2>1
    <2> QED
      BY <1>4, <1>7, <2>2, <2>3 DEF Exact, Principal
  <1>11. UNCHANGED <<deposit, boosted, history>>
    BY <1>4
  <1>12. \A e \in Deposits \ {d} :
               /\ paid'[e] = paid[e] /\ bonusPaid'[e] = bonusPaid[e]
               /\ referralPaid'[e] = referralPaid[e]
               /\ e \in bonusRow' <=> e \in bonusRow
    BY <1>4
  <1> HIDE DEF OrderInv
  <1> QED
    BY <1>1, <1>2, <1>3, <1>7, <1>9, <1>10, <1>11, <1>12, PaysAndGoesOn

LEMMA CreditBonusOrderly ==
    ASSUME OrderInv, SoundInv', NEW p \in Runs, CreditBonus(p)
    PROVE  OrderInv'
  <1>1. PICK d : d = run[p].dep
    OBVIOUS
  <1>2. run[p] # Idle /\ run[p].pc = "bonus"
    BY AtIsRunning DEF CreditBonus, At
  <1>3. /\ d \in Deposits /\ bonusPaid[d] \in Nat /\ deposit[d].amount \in Nat
        /\ run[p].amount \in Nat
    BY <1>1, <1>2, Running DEF OrderInv
  <1>4. /\ bonusPaid'[d] = bonusPaid[d] + Bonus(run[p].amount)
        /\ \A e \in Deposits \ {d} : bonusPaid'[e] = bonusPaid[e]
    BY <1>1, <1>3 DEF CreditBonus, OrderInv, SoundInv, TypeOK
  <1>5. /\ Continue(p, "approved") /\ "approved" \in Calls
        /\ UNCHANGED <<deposit, paid, referralPaid, bonusRow, boosted, history>>
    BY DEF CreditBonus, Calls
  <1>6. /\ run'[p] # Idle /\ run'[p].dep = d /\ run'[p].pc = "approved"
        /\ run'[p].amount = run[p].amount /\ \A q \in Runs \ {p} : run'[q] = run[q]
    BY <1>1, <1>2, <1>5, ContinueKeeps DEF OrderInv
  <1>7. Bonus(run[p].amount) \in Nat
    BY <1>3 DEF Bonus
  <1>8. ASSUME d \notin overlapped
        PROVE  Covered(d)' /\ InOrder(p)'
    <2>1. /\ deposit[d].status \in {"PENDING", "VERIFIED"} /\ run[p].amount = deposit[d].amount
          /\ paid[d] >= deposit[d].amount
      BY <1>1, <1>2, <1>8, Alone DEF InOrder
    <2>2. bonusPaid'[d] >= Bonus(deposit[d].amount)
      BY <1>3, <1>4, <1>7, <2>1
    <2> QED
      BY <1>5, <1>6, <2>1, <2>2 DEF InOrder, Covered
  <1>9. ASSUME d \notin overlapped, Undisturbed(d)
        PROVE  Exact(p)'
    <2>1. /\ paid[d] = deposit[d].amount /\ bonusPaid[d] = 0 /\ referralPaid[d] = 0
          /\ d \notin bonusRow /\ d \notin boosted /\ run[p].amount = deposit[d].amount
      BY <1>1, <1>2, <1>9, Alone DEF Exact, InOrder
    <2>2. bonusPaid'[d] = Bonus(deposit[d].amount)
      BY <1>4, <1>7, <2>1
    <2> QED
      BY <1>5, <1>6, <2>1, <2>2 DEF Exact, Principal
  <1> QED
    BY <1>1, <1>2, <1>3, <1>4, <1>5, <1>6, <1>8, <1>9, PaysAndGoesOn

LEMMA SetApprovedOrderly ==
    ASSUME OrderInv, SoundInv', NEW p \in Runs, SetApproved(p)
    PROVE  OrderInv'
  <1>1. PICK d : d = run[p].dep
    OBVIOUS
  <1>2. run[p] # Idle /\ run[p].pc = "approved"
    BY AtIsRunning DEF SetApproved, At
  <1>3. d \in Deposits /\ "APPROVED" \in Status
    BY <1>1, <1>2, Running DEF OrderInv, Status
  <1>4. deposit'[d].status = "APPROVED" /\ deposit'[d].amount = deposit[d].amount
        /\ \A e \in Deposits \ {d} : deposit'[e] = deposit[e]
    BY <1>1, <1>2, <1>3, StatusFacts DEF SetApproved, OrderInv
  <1>5. PICK pc \in Calls :
            /\ Continue(p, pc)
            /\ pc = (IF d \in Sponsored THEN "referral" ELSE "activate")
    BY <1>1 DEF SetApproved, Calls
  <1>6. UNCHANGED <<money, history>>
    BY DEF SetApproved
  <1>7. run'[p].dep = d /\ run'[p].pc = pc /\ run'[p].amount = run[p].amount
    BY <1>1, <1>2, <1>5, ContinueKeeps DEF OrderInv
  <1>8. ASSUME d \notin overlapped
        PROVE  Covered(d)' /\ InOrder(p)'
    <2>1. /\ run[p].amount = deposit[d].amount
          /\ paid[d] >= deposit[d].amount /\ bonusPaid[d] >= Bonus(deposit[d].amount)
      BY <1>1, <1>2, <1>8, Alone DEF InOrder
    <2> QED
      BY <1>4, <1>5, <1>6, <1>7, <2>1 DEF InOrder, Covered, money
  <1>9. ASSUME d \notin overlapped, Undisturbed(d)
        PROVE  Exact(p)'
    <2>1. Principal(d) /\ referralPaid[d] = 0 /\ d \notin bonusRow /\ d \notin boosted
      BY <1>1, <1>2, <1>9, Alone DEF Exact
    <2> QED
      BY <1>4, <1>5, <1>6, <1>7, <2>1 DEF Exact, Principal, Referral, money
  <1> QED
    BY <1>1, <1>2, <1>3, <1>4, <1>5, <1>6, <1>8, <1>9, WritesAndGoesOn DEF history

LEMMA ReferralPayOrderly ==
    ASSUME OrderInv, SoundInv', NEW p \in Runs, ReferralPay(p)
    PROVE  OrderInv'
  <1>1. PICK d : d = run[p].dep
    OBVIOUS
  <1>2. run[p] # Idle /\ run[p].pc = "referralPay"
    BY AtIsRunning DEF ReferralPay, At
  <1>3. d \in Deposits /\ referralPaid[d] \in Nat /\ deposit[d].amount \in Nat
        /\ run[p].amount \in Nat
    BY <1>1, <1>2, Running DEF OrderInv
  <1>4. /\ referralPaid'[d] = referralPaid[d] + run[p].amount
        /\ \A e \in Deposits \ {d} : referralPaid'[e] = referralPaid[e]
    BY <1>1, <1>3 DEF ReferralPay, OrderInv, SoundInv, TypeOK
  <1>5. /\ Continue(p, "referralRow") /\ "referralRow" \in Calls
        /\ UNCHANGED <<deposit, paid, bonusPaid, bonusRow, boosted, history>>
    BY DEF ReferralPay, Calls
  <1>6. /\ run'[p] # Idle /\ run'[p].dep = d /\ run'[p].pc = "referralRow"
        /\ run'[p].amount = run[p].amount /\ \A q \in Runs \ {p} : run'[q] = run[q]
    BY <1>1, <1>2, <1>5, ContinueKeeps DEF OrderInv
  <1>7. ASSUME d \notin overlapped
        PROVE  Covered(d)' /\ InOrder(p)'
    <2>1. InOrder(p) /\ Covered(d)
      BY <1>1, <1>2, <1>7, Alone
    <2> QED
      BY <1>1, <1>2, <1>5, <1>6, <2>1 DEF InOrder, Covered
  <1>8. ASSUME d \notin overlapped, Undisturbed(d)
        PROVE  Exact(p)'
    <2>1. /\ Principal(d) /\ referralPaid[d] = 0 /\ d \in Sponsored /\ d \notin boosted
          /\ run[p].amount = deposit[d].amount
      BY <1>1, <1>2, <1>8, Alone DEF Exact, InOrder
    <2> QED
      BY <1>3, <1>4, <1>5, <1>6, <2>1 DEF Exact, Principal, Referral
  <1> QED
    BY <1>1, <1>2, <1>3, <1>4, <1>5, <1>6, <1>7, <1>8, PaysAndGoesOn

LEMMA ReferralRowOrderly ==
    ASSUME OrderInv, SoundInv', NEW p \in Runs, ReferralRow(p)
    PROVE  OrderInv'
  <1>1. PICK d : d = run[p].dep
    OBVIOUS
  <1>2. run[p] # Idle /\ run[p].pc = "referralRow"
    BY AtIsRunning DEF ReferralRow, At
  <1>3. d \in Deposits
    BY <1>1, <1>2, Running DEF OrderInv
  <1>4. /\ Continue(p, "activate") /\ "activate" \in Calls
        /\ UNCHANGED <<deposit, paid, bonusPaid, referralPaid, boosted, history>>
        /\ \A e \in Deposits \ {d} : e \in bonusRow' <=> e \in bonusRow
    BY <1>1 DEF ReferralRow, Calls
  <1>5. /\ run'[p] # Idle /\ run'[p].dep = d /\ run'[p].pc = "activate"
        /\ run'[p].amount = run[p].amount /\ \A q \in Runs \ {p} : run'[q] = run[q]
    BY <1>1, <1>2, <1>4, ContinueKeeps DEF OrderInv
  <1>6. ASSUME d \notin overlapped
        PROVE  Covered(d)' /\ InOrder(p)'
    <2>1. InOrder(p) /\ Covered(d)
      BY <1>1, <1>2, <1>6, Alone
    <2> QED
      BY <1>1, <1>2, <1>4, <1>5, <2>1 DEF InOrder, Covered
  <1>7. ASSUME d \notin overlapped, Undisturbed(d)
        PROVE  Exact(p)'
    <2>1. Principal(d) /\ Referral(d) /\ d \notin boosted
      BY <1>1, <1>2, <1>7, Alone DEF Exact
    <2> QED
      BY <1>4, <1>5, <2>1 DEF Exact, Principal, Referral
  <1> QED
    BY <1>1, <1>2, <1>3, <1>4, <1>5, <1>6, <1>7, PaysAndGoesOn

LEMMA ActivateOrderly ==
    ASSUME OrderInv, SoundInv', NEW p \in Runs, Activate(p)
    PROVE  OrderInv'
  <1>1. PICK d : d = run[p].dep
    OBVIOUS
  <1>2. run[p] # Idle /\ run[p].pc = "activate"
    BY AtIsRunning DEF Activate, At
  <1>3. d \in Deposits /\ Orderly(d)
    BY <1>1, <1>2, Running DEF OrderInv
  <1>4. /\ UNCHANGED <<deposit, paid, bonusPaid, referralPaid, bonusRow, history>>
        /\ \A e \in Deposits \ {d} : e \in boosted' <=> e \in boosted
        /\ d \notin boosted =>
               (d \in boosted' <=> run[p].amount >= SPONSOR_TRADE_BONUS_DEPOSIT_MIN)
    BY <1>1 DEF Activate
  <1>5. run'[p] = Idle /\ \A q \in Runs \ {p} : run'[q] = run[q]
    BY DEF Activate, End, OrderInv, SoundInv, TypeOK
  <1>6. d \notin overlapped => Covered(d)'
    BY <1>1, <1>2, <1>4, Alone DEF Covered
  <1>7. ASSUME d \notin overlapped, Undisturbed(d)'
        PROVE  Balanced(d)'
    <2>1. Undisturbed(d)
      BY <1>4, <1>7 DEF Undisturbed, history
    <2>2. /\ Principal(d) /\ Referral(d) /\ d \notin boosted
          /\ deposit[d].status = "APPROVED" /\ run[p].amount = deposit[d].amount
      BY <1>1, <1>2, <1>7, <2>1, Alone DEF Exact, InOrder
    <2> QED
      BY <1>4, <2>2 DEF Balanced, Principal, Referral
  <1>8. Orderly(d)'
    BY <1>1, <1>2, <1>3, <1>4, <1>5, <1>6, <1>7, EndsOrderly DEF history
  <1> QED
    BY <1>1, <1>2, <1>3, <1>4, <1>5, <1>8, StepStaysOrderly DEF history

LEMMA SetRejectedOrderly ==
    ASSUME OrderInv, SoundInv', NEW p \in Runs, SetRejected(p)
    PROVE  OrderInv'
  <1>1. PICK d : d = run[p].dep
    OBVIOUS
  <1>2. run[p] # Idle /\ run[p].pc = "rejected"
    BY AtIsRunning DEF SetRejected, At
  <1>3. d \in Deposits /\ Orderly(d) /\ "REJECTED" \in Status
    BY <1>1, <1>2, Running DEF OrderInv, Status
  <1>4. deposit'[d].status = "REJECTED" /\ \A e \in Deposits \ {d} : deposit'[e] = deposit[e]
    BY <1>1, <1>2, <1>3, StatusFacts DEF SetRejected, OrderInv
  <1>5. /\ run'[p] = Idle /\ \A q \in Runs \ {p} : run'[q] = run[q]
        /\ UNCHANGED <<money, history>>
    BY DEF SetRejected, End, OrderInv, SoundInv, TypeOK
  <1>6. Covered(d)'
    BY <1>4 DEF Covered
  <1>7. ASSUME d \notin overlapped, Undisturbed(d)'
        PROVE  Balanced(d)'
    <2>1. Undisturbed(d)
      BY <1>5, <1>7 DEF Undisturbed, history
    <2>2. Balanced(d) /\ deposit[d].status # "APPROVED"
      BY <1>1, <1>2, <1>7, <2>1, Alone DEF Exact, InOrder
    <2> QED
      BY <1>4, <1>5, <2>2 DEF Balanced, Unpaid, money
  <1>8. Orderly(d)'
    BY <1>1, <1>2, <1>3, <1>5, <1>6, <1>7, EndsOrderly DEF history
  <1> QED
    BY <1>1, <1>2, <1>3, <1>4, <1>5, <1>8, StepStaysOrderly DEF money, history

LEMMA ThrowOrderly ==
    ASSUME OrderInv, SoundInv', NEW p \in Runs, Throw(p)
    PROVE  OrderInv'
  <1>1. PICK d : d = run[p].dep
    OBVIOUS
  <1>2. run[p] # Idle
    BY AtIsRunning DEF Throw, Refused
  <1>3. d \in Deposits
    BY <1>1, <1>2, Running DEF OrderInv
  <1>4. End(p) /\ UNCHANGED <<deposit, money, history>>
    BY DEF Throw
  <1>5. \/ run[p].pc \in {"verify", "rehash", "lookup", "record", "settle", "approve", "reject"}
        \/ run[p].pc = "referral" /\ d \in bonusRow
    BY <1>1 DEF Throw, Refused, At
  <1>6. ASSUME d \notin overlapped, Undisturbed(d)'
        PROVE  Balanced(d)
    <2>1. Undisturbed(d)
      BY <1>4, <1>6 DEF Undisturbed, history
    <2>2. Exact(p)
      BY <1>1, <1>2, <1>6, <2>1, Alone
    <2> QED
      BY <1>1, <1>5, <2>2 DEF Exact
  <1> QED
    BY <1>1, <1>2, <1>3, <1>4, <1>6, OnlyEnds DEF history

\* A run that breaks off before it pays leaves its deposit in balance.
LEMMA BreakingOff ==
    ASSUME OrderInv, NEW p \in Runs, run[p] # Idle, NEW d, d = run[p].dep,
           d \notin overlapped, Undisturbed(d), <<d, "paying">> \notin Progress(p)
    PROVE  Balanced(d)
  <1>1. run[p].pc \notin {"bonus", "approved", "referral", "referralPay", "referralRow", "activate"}
    BY DEF Progress
  <1>2. Exact(p) /\ InOrder(p)
    BY Alone
  <1>3. run[p].pc = "credit" => Unpaid(d) /\ deposit[d].status \in {"PENDING", "VERIFIED"}
    BY <1>2 DEF Exact, InOrder
  <1>4. run[p].pc \in {"verify", "rehash", "lookup", "record", "settle", "approve", "reject",
                       "rejected", "credit"}
    BY <1>1, Running DEF OrderInv, RunState
  <1> QED
    BY <1>2, <1>3, <1>4 DEF Exact, Balanced

LEMMA FailOrderly ==
    ASSUME OrderInv, SoundInv', NEW p \in Runs, Fail(p)
    PROVE  OrderInv'
  <1>1. PICK d : d = run[p].dep
    OBVIOUS
  <1>2. run[p] # Idle /\ d \in Deposits
    BY <1>1, Running DEF Fail, OrderInv
  <1>3. /\ End(p) /\ interrupted' = interrupted \cup Progress(p)
        /\ UNCHANGED <<deposit, money, settled, overlapped>>
    BY DEF Fail
  <1>4. ASSUME d \notin overlapped, Undisturbed(d)'
        PROVE  Balanced(d)
    <2>1. Undisturbed(d) /\ <<d, "paying">> \notin Progress(p)
      BY <1>3, <1>4 DEF Undisturbed
    <2> QED
      BY <1>1, <1>2, <1>4, <2>1, BreakingOff
  <1> QED
    BY <1>1, <1>2, <1>3, <1>4, OnlyEnds

LEMMA CrashOrderly ==
    ASSUME OrderInv, SoundInv', Crash
    PROVE  OrderInv'
  <1>1. /\ \A q \in Runs : run'[q] = Idle
        /\ UNCHANGED <<deposit, money, settled, overlapped>>
        /\ interrupted \subseteq interrupted'
        /\ \A q \in Runs : run[q] # Idle => Progress(q) \subseteq interrupted'
    BY DEF Crash
  <1>2. ASSUME NEW d \in Deposits, d \notin overlapped'
        PROVE  Orderly(d)'
    <2>1. d \notin overlapped /\ Orderly(d)
      BY <1>1, <1>2 DEF OrderInv
    <2>2. Covered(d)'
      BY <1>1, <2>1 DEF Orderly, Covered, money
    <2>3. ASSUME Undisturbed(d)'
          PROVE  Balanced(d)'
      <3>1. Undisturbed(d)
        BY <1>1, <2>3 DEF Undisturbed
      <3>2. ASSUME NEW q \in Runs, On(q, d)
            PROVE  Balanced(d)
        <4>1. run[q] # Idle /\ run[q].dep = d
          BY <3>2 DEF On
        <4>2. <<d, "paying">> \notin Progress(q)
          BY <1>1, <2>3, <4>1 DEF Undisturbed
        <4> QED
          BY <2>1, <3>1, <4>1, <4>2, BreakingOff
      <3>3. Balanced(d)
        BY <2>1, <3>1, <3>2 DEF Orderly, Quiet
      <3> QED
        BY <1>1, <3>3 DEF Balanced, Unpaid, Principal, Referral, money
    <2>4. \A q \in Runs : ~ On(q, d)'
      BY <1>1 DEF On
    <2> QED
      BY <2>2, <2>3, <2>4 DEF Orderly
  <1>3. \A d \in Deposits : Orderly(d)'
    BY <1>2 DEF Orderly
  <1> QED
    BY <1>3 DEF OrderInv

\* A run begins: alone on a deposit in balance, or it overlaps with another.
LEMMA EntersOrderly ==
    ASSUME OrderInv, SoundInv', NEW p \in Runs, NEW d \in Deposits, NEW h,
           NEW pc \in {"verify", "approve", "reject"}, Enter(p, pc, d, h),
           deposit'[d] = deposit[d] \/
               (deposit[d].status # "APPROVED" /\ deposit'[d].status = "PENDING"),
           \A e \in Deposits \ {d} : deposit'[e] = deposit[e],
           UNCHANGED <<money, settled, interrupted>>
    PROVE  OrderInv'
  <1>1. /\ run[p] = Idle /\ run'[p] # Idle /\ run'[p].pc = pc /\ run'[p].dep = d
        /\ \A q \in Runs \ {p} : run'[q] = run[q]
        /\ overlapped' = IF \E q \in Runs : On(q, d) THEN overlapped \cup {d} ELSE overlapped
    BY DEF Enter, OrderInv, SoundInv, TypeOK, Idle
  <1>2. ASSUME NEW e \in Deposits \ {d}
        PROVE  Orderly(e)'
    <2>1. \A q \in Runs : On(q, e) \/ On(q, e)' => run'[q] = run[q]
      BY <1>1 DEF On
    <2>2. e \in overlapped => e \in overlapped'
      BY <1>1
    <2> QED
      BY <2>1, <2>2, UntouchedStaysOrderly DEF OrderInv, money
  <1>3. ASSUME d \notin overlapped'
        PROVE  Orderly(d)'
    <2>1. d \notin overlapped /\ Quiet(d) /\ Orderly(d)
      BY <1>1, <1>3 DEF Quiet, OrderInv
    <2>2. \A q \in Runs : On(q, d)' => q = p
      BY <1>1, <2>1 DEF On, Quiet
    <2>3. Covered(d)'
      BY <2>1 DEF Orderly, Covered, money
    <2>4. InOrder(p)'
      BY <1>1 DEF InOrder
    <2>5. ASSUME Undisturbed(d)'
          PROVE  Exact(p)'
      <3>1. Balanced(d)
        BY <2>1, <2>5 DEF Orderly, Undisturbed
      <3>2. Balanced(d)'
        BY <3>1 DEF Balanced, Unpaid, Principal, Referral, money
      <3> QED
        BY <1>1, <3>2 DEF Exact
    <2>6. ~ Quiet(d)'
      BY <1>1 DEF Quiet, On
    <2> QED
      BY <2>2, <2>3, <2>4, <2>5, <2>6 DEF Orderly
  <1>4. Orderly(d)'
    BY <1>3 DEF Orderly
  <1> QED
    BY <1>2, <1>4 DEF OrderInv

\* A step that touches no row, no run and no payment.
LEMMA ApartStaysOrderly ==
    ASSUME OrderInv, SoundInv', UNCHANGED <<deposit, run, money, history>>
    PROVE  OrderInv'
  <1>1. ASSUME NEW d \in Deposits
        PROVE  Orderly(d)'
    BY UntouchedStaysOrderly DEF OrderInv, money, history
  <1> QED
    BY <1>1 DEF OrderInv

LEMMA StepOrderly ==
    ASSUME OrderInv, SoundInv', NEW p \in Runs, Step(p)
    PROVE  OrderInv'
  BY VerifyReadOrderly, RehashOrderly, PlainStepsOrderly, SettleOrderly, ApproveReadOrderly,
     CreditOrderly, CreditBonusOrderly, SetApprovedOrderly, ReferralPayOrderly,
     ReferralRowOrderly, ActivateOrderly, SetRejectedOrderly, ThrowOrderly
     DEF Step, Verify, Approve, Reject

LEMMA ArriveOrderly ==
    ASSUME OrderInv, SoundInv', NEW p \in Requests, Arrive(p)
    PROVE  OrderInv'
  <1>1. p \in Runs
    BY DEF Runs
  <1>2. ASSUME NEW d \in Deposits, NEW h \in Hashes, NEW a \in Amounts, CreateDeposit(p, d, h, a)
        PROVE  OrderInv'
    <2>1. deposit[d] = NoDeposit /\ deposit[d].status # "APPROVED"
      BY <1>2 DEF CreateDeposit, Exists, NoDeposit
    <2>2. PICK row : row = [status |-> "PENDING", hash |-> h, amount |-> a]
      OBVIOUS
    <2>3. deposit'[d] = row /\ \A e \in Deposits \ {d} : deposit'[e] = deposit[e]
      BY <1>2, <2>2 DEF CreateDeposit, OrderInv, SoundInv, TypeOK
    <2>4. deposit'[d].status = "PENDING"
      BY <2>2, <2>3
    <2>5. Enter(p, "verify", d, "stored") /\ UNCHANGED <<money, settled, interrupted>>
      BY <1>2 DEF CreateDeposit
    <2> QED
      BY <1>1, <2>1, <2>3, <2>4, <2>5, EntersOrderly
  <1>3. ASSUME NEW d \in Deposits, NEW h \in Hashes \cup {"stored"}, RequestVerify(p, d, h)
        PROVE  OrderInv'
    BY <1>1, <1>3, EntersOrderly DEF RequestVerify
  <1>4. ASSUME NEW d \in Deposits, NEW pc \in {"approve", "reject"}, RequestDecision(p, d, pc)
        PROVE  OrderInv'
    BY <1>1, <1>4, EntersOrderly DEF RequestDecision
  <1> QED
    BY <1>2, <1>3, <1>4 DEF Arrive

LEMMA NextOrderly == OrderInv /\ [Next]_vars => OrderInv'
  <1> SUFFICES ASSUME OrderInv, [Next]_vars
               PROVE  OrderInv'
    OBVIOUS
  <1>1. SoundInv'
    BY NextSound DEF OrderInv
  <1>2. ASSUME NEW p \in Runs, Step(p) \/ Fail(p)
        PROVE  OrderInv'
    BY <1>1, <1>2, StepOrderly, FailOrderly
  <1>3. ASSUME NEW p \in Requests, Arrive(p)
        PROVE  OrderInv'
    BY <1>1, <1>3, ArriveOrderly
  <1>4. ASSUME NEW t \in Tasks, NEW d \in Deposits, CronVerify(t, d)
        PROVE  OrderInv'
    BY <1>1, <1>4, EntersOrderly DEF CronVerify, Runs
  <1>5. CASE \E t \in Tasks : CronTick(t)
    BY <1>1, <1>5, ApartStaysOrderly DEF CronTick
  <1>6. CASE \E h \in Hashes : RecordElsewhere(h)
    BY <1>1, <1>6, ApartStaysOrderly DEF RecordElsewhere
  <1>7. CASE UNCHANGED vars
    BY <1>1, <1>7, ApartStaysOrderly DEF vars
  <1> QED
    BY <1>1, <1>2, <1>3, <1>4, <1>5, <1>6, <1>7, CrashOrderly DEF Next

THEOREM OrderAlways == Spec => []OrderInv
  BY InitOrderly, NextOrderly, PTL DEF Spec

\* However runs interleave and fail, a deposit is credited before it shows
\* APPROVED; and if no two runs overlapped on it, the credits cover its row.
THEOREM CreditedBeforeApproved == Spec => []ApprovedIsCredited
  <1>1. OrderInv => ApprovedIsCredited
    <2> SUFFICES ASSUME OrderInv, NEW d \in Deposits, deposit[d].status = "APPROVED"
                 PROVE  /\ paid[d] >= MINIMUM_DEPOSIT
                        /\ d \notin overlapped =>
                               /\ paid[d] >= deposit[d].amount
                               /\ bonusPaid[d] >= Bonus(deposit[d].amount)
      BY DEF ApprovedIsCredited
    <2>1. deposit[d] # NoDeposit
      BY DEF NoDeposit
    <2>2. paid[d] >= 1
      BY <2>1 DEF OrderInv, SoundInv, SoundRow
    <2>3. d \notin overlapped => Covered(d)
      BY DEF OrderInv, Orderly
    <2> QED
      BY <2>2, <2>3 DEF Covered
  <1> QED
    BY <1>1, OrderAlways, PTL

\* Undisturbed, a deposit has exactly the money its row says: nothing before it
\* is APPROVED, then its amount, its bonus and its referral bonus, once each.
THEOREM PaidExactly == Spec => []UndisturbedPaysExactly
  <1>1. OrderInv => UndisturbedPaysExactly
    <2> SUFFICES ASSUME OrderInv, NEW d \in Deposits \ overlapped, Exists(d), Quiet(d),
                        <<d, "paying">> \notin interrupted,
                        NEW due, due = IF deposit[d].status = "APPROVED"
                                       THEN deposit[d].amount ELSE 0
                 PROVE  /\ paid[d] = due
                        /\ bonusPaid[d] = Bonus(due)
                        /\ referralPaid[d] = (IF d \in Sponsored THEN due ELSE 0)
                        /\ d \in boosted <=> due >= SPONSOR_TRADE_BONUS_DEPOSIT_MIN
      BY DEF UndisturbedPaysExactly
    <2>1. Balanced(d)
      BY DEF OrderInv, Orderly, Undisturbed
    <2>2. CASE deposit[d].status = "APPROVED"
      BY <2>1, <2>2 DEF Balanced, Principal, Referral
    <2>3. CASE deposit[d].status # "APPROVED"
      <3>1. due = 0 /\ Bonus(0) = 0 /\ ~ (0 >= SPONSOR_TRADE_BONUS_DEPOSIT_MIN)
        BY <2>3 DEF Bonus, DEPOSIT_BONUS_THRESHOLD, SPONSOR_TRADE_BONUS_DEPOSIT_MIN
      <3> QED
        BY <2>1, <2>3, <3>1 DEF Balanced, Unpaid
    <2> QED
      BY <2>2, <2>3
  <1> QED
    BY <1>1, OrderAlways, PTL

(* ---------------------------------------------------------------------- *)
(* A deposit implements Settlement                                        *)

LEMMA RestsIf ==
    ASSUME NEW d \in Deposits, Stage(d)' = Stage(d), paid'[d] = paid[d]
    PROVE  Claim!Rest(d)
  BY DEF Claim!Rest

LEMMA StageOf ==
    ASSUME NEW d \in Deposits
    PROVE  /\ deposit[d].status = "NONE" => Stage(d) = "none"
           /\ deposit[d].status \in {"PENDING", "VERIFIED"} => Stage(d) = "open"
           /\ deposit[d].status = "APPROVED" => Stage(d) = "granted"
           /\ deposit[d].status = "REJECTED" => Stage(d) = "refused"
  BY DEF Stage

LEMMA MovesIf ==
    ASSUME NEW d \in Deposits, NEW from, NEW to, Stage(d) = from, Stage(d)' = to
    PROVE  Claim!Moves(d, from, to)
  BY DEF Claim!Moves

LEMMA SettleNames ==
    ASSUME NEW d \in Deposits
    PROVE  Claim!Settle(d) <=>
             \/ Claim!File(d) \/ Claim!Give(d) \/ Claim!Grant(d)
             \/ Claim!Refuse(d) \/ Claim!Reopen(d) \/ Claim!Rest(d)
  BY DEF Claim!Settle

\* The deposits other than the one a step is about rest.
LEMMA OthersRest ==
    ASSUME NEW d \in Deposits, deposit'[d] = deposit[d], paid'[d] = paid[d]
    PROVE  Claim!Settle(d)
  <1>1. Stage(d)' = Stage(d)
    BY DEF Stage
  <1> QED
    BY <1>1, RestsIf, SettleNames

LEMMA CreateFiles ==
    ASSUME OrderInv, NEW p \in Requests, NEW d \in Deposits, NEW h \in Hashes, NEW a \in Amounts,
           CreateDeposit(p, d, h, a), d \notin Astray'
    PROVE  Claim!Settle(d)
  <1>1. deposit[d] = NoDeposit /\ deposit[d].status = "NONE"
    BY DEF CreateDeposit, Exists, NoDeposit
  <1>2. PICK row : row = [status |-> "PENDING", hash |-> h, amount |-> a]
    OBVIOUS
  <1>3. deposit'[d] = row
    BY <1>2 DEF CreateDeposit, OrderInv, SoundInv, TypeOK
  <1>4. deposit'[d].status = "PENDING"
    BY <1>2, <1>3
  <1>5. Quiet(d)
    BY <1>1, Running DEF Quiet, On, OrderInv, Exists
  <1>6. d \notin overlapped /\ Undisturbed(d)
    BY DEF Astray, Undisturbed, CreateDeposit, Enter
  <1>7. paid[d] = 0
    BY <1>1, <1>5, <1>6 DEF OrderInv, Orderly, Balanced, Unpaid
  <1>8. paid'[d] = 0
    BY <1>7 DEF CreateDeposit, money
  <1>9. Stage(d) = "none"
    BY <1>1 DEF Stage
  <1>10. Stage(d)' = "open"
    BY <1>4 DEF Stage
  <1>11. Claim!File(d)
    BY <1>7, <1>8, <1>9, <1>10, MovesIf DEF Claim!File
  <1> QED
    BY <1>11, SettleNames

\* The steps of a run that write the status of its deposit, or credit it.
LEMMA RunSettles ==
    ASSUME OrderInv, NEW p \in Runs, NEW d \in Deposits, d = run[p].dep, d \notin Astray',
           Rehash(p) \/ Settle(p) \/ Credit(p) \/ SetApproved(p) \/ SetRejected(p)
    PROVE  Claim!Settle(d)
  <1>1. run[p] # Idle
    BY AtIsRunning DEF Rehash, Settle, Credit, SetApproved, SetRejected
  <1>2. deposit[d] \in DepositRow /\ deposit[d].status \in Status /\ run[p] \in RunState
    BY <1>1, Running DEF OrderInv
  <1>3. d \notin overlapped /\ Undisturbed(d)
    BY DEF Astray, Undisturbed, Rehash, Settle, Credit, SetApproved, SetRejected, history
  <1>4. InOrder(p) /\ Exact(p)
    BY <1>1, <1>3, Alone
  <1>5. CASE Rehash(p)
    <2>1. deposit'[d] = [deposit[d] EXCEPT !.hash = run[p].hash]
      BY <1>5 DEF Rehash, OrderInv, SoundInv, TypeOK
    <2>2. deposit'[d].status = deposit[d].status /\ paid'[d] = paid[d]
      BY <1>2, <1>5, <2>1 DEF DepositRow, Rehash, money
    <2>3. Stage(d)' = Stage(d)
      BY <2>2 DEF Stage
    <2> QED
      BY <2>2, <2>3, RestsIf, SettleNames
  <1>6. CASE Settle(p)
    <2>1. PICK a : deposit'[d] = [deposit[d] EXCEPT !.status = "VERIFIED", !.amount = a]
      BY <1>6 DEF Settle, OrderInv, SoundInv, TypeOK
    <2>2. deposit'[d].status = "VERIFIED" /\ paid'[d] = paid[d]
      BY <1>2, <1>6, <2>1 DEF DepositRow, Settle, money
    <2>3. Stage(d)' = "open"
      BY <2>2 DEF Stage
    <2>4. deposit[d].status \in {"PENDING", "REJECTED"} /\ Balanced(d)
      BY <1>4, <1>6 DEF InOrder, Exact, Settle, At
    <2>5. CASE deposit[d].status = "PENDING"
      <3>1. Stage(d) = "open"
        BY <2>5 DEF Stage
      <3> QED
        BY <2>2, <2>3, <3>1, RestsIf, SettleNames
    <2>6. CASE deposit[d].status = "REJECTED"
      <3>1. Stage(d) = "refused"
        BY <2>6 DEF Stage
      <3>2. paid[d] = 0
        BY <2>4, <2>6 DEF Balanced, Unpaid
      <3>3. Claim!Reopen(d)
        BY <2>2, <2>3, <3>1, <3>2, MovesIf DEF Claim!Reopen
      <3> QED
        BY <3>3, SettleNames
    <2> QED
      BY <2>4, <2>5, <2>6
  <1>7. CASE Credit(p)
    <2>1. paid[d] = 0 /\ deposit[d].status \in {"PENDING", "VERIFIED"}
      BY <1>4, <1>7 DEF InOrder, Exact, Unpaid, Credit, At
    <2>2. deposit' = deposit /\ paid'[d] > 0
      <3>1. run[p].amount \in Nat /\ run[p].amount >= 1 /\ deposit' = deposit
            /\ paid'[d] = paid[d] + run[p].amount
        BY <1>1, <1>7, CreditFacts, Running DEF OrderInv
      <3> QED
        BY <2>1, <3>1
    <2>3. Stage(d) = "open" /\ Stage(d)' = "open"
      BY <2>1, <2>2 DEF Stage
    <2>4. Claim!Give(d)
      BY <2>1, <2>2, <2>3, MovesIf DEF Claim!Give
    <2> QED
      BY <2>4, SettleNames
  <1>8. CASE SetApproved(p)
    <2>1. /\ deposit[d].status \in {"PENDING", "VERIFIED"} /\ paid[d] = deposit[d].amount
      BY <1>4, <1>8 DEF InOrder, Exact, Principal, SetApproved, At
    <2>2. paid[d] > 0
      BY <1>1, <2>1, Running DEF OrderInv
    <2>3. "APPROVED" \in Status
      BY DEF Status
    <2>4. deposit'[d].status = "APPROVED" /\ paid'[d] = paid[d]
      BY <1>1, <1>8, <2>3, StatusFacts DEF SetApproved, OrderInv, money
    <2>5. Stage(d) = "open" /\ Stage(d)' = "granted"
      BY <2>1, <2>4 DEF Stage
    <2>6. Claim!Grant(d)
      BY <2>2, <2>4, <2>5, MovesIf DEF Claim!Grant
    <2> QED
      BY <2>6, SettleNames
  <1>9. CASE SetRejected(p)
    <2>1. deposit[d].status # "APPROVED" /\ Balanced(d)
      BY <1>4, <1>9 DEF InOrder, Exact, SetRejected, At
    <2>2. paid[d] = 0
      BY <2>1 DEF Balanced, Unpaid
    <2>3. "REJECTED" \in Status
      BY DEF Status
    <2>4. deposit'[d].status = "REJECTED" /\ paid'[d] = paid[d]
      BY <1>1, <1>9, <2>3, StatusFacts DEF SetRejected, OrderInv, money
    <2>5. Stage(d)' = "refused"
      BY <2>4 DEF Stage
    <2>6. CASE deposit[d].status = "REJECTED"
      <3>1. Stage(d) = "refused"
        BY <2>6 DEF Stage
      <3> QED
        BY <2>4, <2>5, <3>1, RestsIf, SettleNames
    <2>7. CASE deposit[d].status \in {"PENDING", "VERIFIED"}
      <3>1. Stage(d) = "open"
        BY <2>7 DEF Stage
      <3>2. Claim!Refuse(d)
        BY <2>2, <2>4, <2>5, <3>1, MovesIf DEF Claim!Refuse
      <3> QED
        BY <3>2, SettleNames
    <2> QED
      BY <1>2, <2>1, <2>6, <2>7 DEF Status
  <1> QED
    BY <1>5, <1>6, <1>7, <1>8, <1>9

LEMMA StepSettles ==
    ASSUME OrderInv, [Next]_vars, NEW d \in Deposits, d \notin Astray'
    PROVE  Claim!Settle(d)
  <1>1. CASE UNCHANGED <<deposit, paid>>
    BY <1>1, OthersRest
  <1>2. ASSUME NEW p \in Requests, Arrive(p)
        PROVE  Claim!Settle(d)
    <2>1. ASSUME NEW e \in Deposits, NEW h \in Hashes, NEW a \in Amounts, CreateDeposit(p, e, h, a)
          PROVE  Claim!Settle(d)
      <3>1. CASE d = e
        BY <2>1, <3>1, CreateFiles
      <3>2. CASE d # e
        <4>1. deposit'[d] = deposit[d] /\ paid'[d] = paid[d]
          BY <2>1, <3>2 DEF CreateDeposit, OrderInv, SoundInv, TypeOK, money
        <4> QED
          BY <4>1, OthersRest
      <3> QED
        BY <3>1, <3>2
    <2> QED
      BY <1>1, <1>2, <2>1 DEF Arrive, RequestVerify, RequestDecision, money
  <1>3. ASSUME NEW p \in Runs, Step(p)
        PROVE  Claim!Settle(d)
    <2>1. CASE Rehash(p) \/ Settle(p) \/ Credit(p) \/ SetApproved(p) \/ SetRejected(p)
      <3>1. CASE d = run[p].dep
        BY <2>1, <3>1, RunSettles
      <3>2. CASE d # run[p].dep
        <4>1. deposit'[d] = deposit[d] /\ paid'[d] = paid[d]
          BY <2>1, <3>2
             DEF Rehash, Settle, Credit, SetApproved, SetRejected,
                 OrderInv, SoundInv, TypeOK, money
        <4> QED
          BY <4>1, OthersRest
      <3> QED
        BY <3>1, <3>2
    <2>2. CASE ~ (Rehash(p) \/ Settle(p) \/ Credit(p) \/ SetApproved(p) \/ SetRejected(p))
      <3>1. UNCHANGED <<deposit, paid>>
        BY <1>3, <2>2
           DEF Step, Verify, Approve, Reject, Throw, VerifyRead, Lookup, Record, ApproveRead,
               CreditBonus, ReferralCheck, ReferralPay, ReferralRow, Activate, RejectRead, money
      <3> QED
        BY <1>1, <3>1
    <2> QED
      BY <2>1, <2>2
  <1>4. CASE (\E p \in Runs : Fail(p)) \/ Crash \/ UNCHANGED vars
             \/ (\E h \in Hashes : RecordElsewhere(h))
             \/ (\E t \in Tasks : CronTick(t) \/ \E e \in Deposits : CronVerify(t, e))
    <2>1. UNCHANGED <<deposit, paid>>
      BY <1>4 DEF Fail, Crash, RecordElsewhere, CronTick, CronVerify, vars, money
    <2> QED
      BY <1>1, <2>1
  <1> QED
    BY <1>2, <1>3, <1>4 DEF Next

LEMMA AstrayGrows == [Next]_vars => Astray \subseteq Astray'
  <1> SUFFICES ASSUME [Next]_vars
               PROVE  overlapped \subseteq overlapped' /\ interrupted \subseteq interrupted'
    BY DEF Astray
  <1>1. ASSUME NEW p \in Requests, Arrive(p)
        PROVE  overlapped \subseteq overlapped' /\ interrupted' = interrupted
    BY <1>1 DEF Arrive, CreateDeposit, RequestVerify, RequestDecision, Enter
  <1>2. ASSUME NEW p \in Runs, Step(p)
        PROVE  overlapped' = overlapped /\ interrupted' = interrupted
    <2>1. CASE Verify(p)
      BY <2>1 DEF Verify, VerifyRead, Rehash, Lookup, Record, Settle, history
    <2>2. CASE Approve(p)
      BY <2>2 DEF Approve, ApproveRead, Credit, CreditBonus, SetApproved, ReferralCheck,
                  ReferralPay, ReferralRow, Activate, history
    <2>3. CASE Reject(p) \/ Throw(p)
      BY <2>3 DEF Reject, RejectRead, SetRejected, Throw, history
    <2> QED
      BY <1>2, <2>1, <2>2, <2>3 DEF Step
  <1>3. ASSUME NEW t \in Tasks, CronTick(t) \/ \E d \in Deposits : CronVerify(t, d)
        PROVE  overlapped \subseteq overlapped' /\ interrupted' = interrupted
    BY <1>3 DEF CronTick, CronVerify, Enter, history
  <1>4. ASSUME (\E p \in Runs : Fail(p)) \/ Crash
        PROVE  overlapped' = overlapped /\ interrupted \subseteq interrupted'
    BY <1>4 DEF Fail, Crash
  <1>5. CASE (\E h \in Hashes : RecordElsewhere(h)) \/ UNCHANGED vars
    BY <1>5 DEF RecordElsewhere, vars, history
  <1> QED
    BY <1>1, <1>2, <1>3, <1>4, <1>5 DEF Next

\* Handlers and failures in any number implement the abstract Settlement: a
\* deposit is credited at most once, before it shows APPROVED, never when it is
\* REJECTED, and APPROVED is final, unless it went astray.
THEOREM ImplementsSettlement == Spec => SettledOnce
  <1>1. Init => Claim!Init
    BY DEF Init, Claim!Init, Stage, Astray, NoDeposit
  <1>2. OrderInv /\ [Next]_vars => [Claim!Next]_(Claim!vars)
    BY StepSettles, AstrayGrows DEF Claim!Next, OrderInv
  <1> QED
    BY <1>1, <1>2, OrderAlways, PTL DEF Spec, SettledOnce, Claim!Spec
===============================================================================
