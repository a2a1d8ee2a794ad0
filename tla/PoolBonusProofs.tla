---------------------------- MODULE PoolBonusProofs -----------------------------
(***************************************************************************)
(* Theorems about PoolBonus, for any number of users, requests and         *)
(* handlers.                                                               *)
(*                                                                         *)
(* SoundInv holds whatever overlaps: types, and what a handler may rely on *)
(* at each of its calls.  OrderInv is about a request on which no two      *)
(* handlers overlapped: it has at most one handler, whose next call tells  *)
(* what has been taken and paid.  CrowdInv is about the creation of        *)
(* requests.  PayInv adds up what the executions of a request have taken   *)
(* and paid, and what one under way has still to pay.                      *)
(***************************************************************************)
EXTENDS PoolBonus, Totals, FiniteSetTheorems, TLAPS

(* ---------------------------------------------------------------------- *)
(* What holds whatever overlaps                                           *)

CreateCalls == {"pending", "balance", "insert"}
DecideCalls == {"cancel", "cancelled", "approve", "approved", "update", "updateBalance",
                "reject", "rejected"} \cup Executing

\* What a handler that decides has secured, at each of its calls.
SoundRun(r) ==
    run[r].pc \in DecideCalls =>
        /\ Exists(run[r].request)
        /\ run[r].pc \in {"update", "updateBalance", "approved"} \cup Executing =>
               run[r].amount >= 1
        /\ run[r].pc \in {"updateBalance", "approved"} => run[r].amount <= RowOf(r).asked

SoundRow(q) == Exists(q) => request[q].approved <= request[q].asked

SoundInv ==
    /\ TypeOK
    /\ \A r \in Runs : SoundRun(r)
    /\ \A q \in Requests : SoundRow(q)

LEMMA InitSound == Init => SoundInv
  BY FundsAssumption, BoundAssumption
     DEF Init, SoundInv, TypeOK, SoundRun, SoundRow, Exists, Idle, NoRequest, DecideCalls, Executing

\* The call a handler is about to make tells what kind of handler it is.
LEMMA Kinds ==
    ASSUME TypeOK, NEW r \in Runs
    PROVE  /\ run[r].pc \in CreateCalls \cup DecideCalls \cup {"idle"}
           /\ run[r].pc \in CreateCalls => run[r] \in Creating
           /\ run[r].pc \in DecideCalls => run[r] \in Deciding
           /\ run[r].pc = "idle" => run[r] = Idle
           /\ InCreate(r) <=> run[r].pc \in CreateCalls
           /\ \A q : On(r, q) <=> run[r].pc \in DecideCalls /\ run[r].request = q
  <1>1. run[r] \in Creating \cup Deciding \cup {Idle}
    BY DEF TypeOK
  <1>2. CASE run[r] \in Creating
    BY <1>2 DEF Creating, CreateCalls, DecideCalls, Executing, InCreate, On, At
  <1>3. CASE run[r] \in Deciding
    BY <1>3 DEF Deciding, CreateCalls, DecideCalls, Executing, InCreate, On, At
  <1>4. CASE run[r] = Idle
    BY <1>4 DEF Idle, CreateCalls, DecideCalls, Executing, InCreate, On, At
  <1> QED
    BY <1>1, <1>2, <1>3, <1>4

LEMMA AmountsAreNumbers ==
    /\ \A a \in Amounts : a \in Nat /\ a >= 1
    /\ \A a \in Amounts \cup {0} : a \in Nat
  BY AmountAssumption

LEMMA ExistingRow ==
    ASSUME TypeOK, NEW q \in Requests, Exists(q)
    PROVE  /\ request[q] \in Row /\ request[q].status \in Status /\ request[q].user \in Users
           /\ request[q].asked \in Nat /\ request[q].asked >= 1
           /\ request[q].asked \in Amounts
           /\ request[q].approved \in Nat /\ request[q].approved \in Amounts \cup {0}
           /\ request[q].type \in Type
  <1>1. request[q] \in Row
    BY DEF TypeOK, Exists
  <1>2. /\ request[q].status \in Status /\ request[q].user \in Users /\ request[q].type \in Type
        /\ request[q].asked \in Amounts /\ request[q].approved \in Amounts \cup {0}
    BY <1>1 DEF Row
  <1> QED
    BY <1>1, <1>2, AmountsAreNumbers

\* What is known of a handler that decides.
LEMMA Decides ==
    ASSUME SoundInv, NEW r \in Runs, run[r].pc \in DecideCalls
    PROVE  /\ SoundRun(r) /\ run[r] \in Deciding
           /\ run[r].request \in Requests /\ Exists(run[r].request)
           /\ run[r].amount \in Nat /\ run[r].amount \in Amounts \cup {0}
           /\ taken[run[r].request] \in Nat /\ paid[run[r].request] \in Nat
  <1>1. run[r] \in Deciding /\ SoundRun(r)
    BY Kinds DEF SoundInv
  <1>2. run[r].request \in Requests /\ run[r].amount \in Amounts \cup {0}
    BY <1>1 DEF Deciding
  <1>3. run[r].amount \in Nat
    BY <1>2, AmountsAreNumbers
  <1>4. Exists(run[r].request)
    BY <1>1 DEF SoundRun
  <1>5. taken[run[r].request] \in Nat /\ paid[run[r].request] \in Nat
    BY <1>2 DEF SoundInv, TypeOK
  <1> QED
    BY <1>1, <1>2, <1>3, <1>4, <1>5

\* Continue changes nothing but the next call.
LEMMA ContinueKeeps ==
    ASSUME TypeOK, NEW r \in Runs, NEW pc, Continue(r, pc),
           \/ run[r].pc \in DecideCalls /\ pc \in DecideCalls
           \/ run[r].pc \in CreateCalls /\ pc \in CreateCalls
    PROVE  /\ run' \in [Runs -> Creating \cup Deciding \cup {Idle}]
           /\ \A s \in Runs \ {r} : run'[s] = run[s]
           /\ run'[r].pc = pc /\ run'[r].amount = run[r].amount
           /\ run[r].pc \in DecideCalls =>
                  run'[r].request = run[r].request /\ run'[r].admin = run[r].admin
           /\ run[r].pc \in CreateCalls =>
                  run'[r].user = run[r].user /\ run'[r].type = run[r].type
  <1>1. run \in [Runs -> Creating \cup Deciding \cup {Idle}]
    BY DEF TypeOK
  <1>2. run'[r] = [run[r] EXCEPT !.pc = pc] /\ \A s \in Runs \ {r} : run'[s] = run[s]
    BY <1>1 DEF Continue
  <1>3. CASE run[r].pc \in DecideCalls /\ pc \in DecideCalls
    <2>1. run[r] \in Deciding
      BY <1>3, Kinds
    <2>2. [run[r] EXCEPT !.pc = pc] \in Deciding
      BY <1>3, <2>1 DEF Deciding, DecideCalls
    <2>3. run'[r].pc = pc /\ run'[r].amount = run[r].amount
          /\ run'[r].request = run[r].request /\ run'[r].admin = run[r].admin
      BY <1>2, <2>1 DEF Deciding
    <2>4. run[r].pc \notin CreateCalls
      BY <1>3 DEF CreateCalls, DecideCalls, Executing
    <2>5. run' \in [Runs -> Creating \cup Deciding \cup {Idle}]
      BY <1>1, <1>2, <2>2 DEF Continue
    <2> QED
      BY <1>2, <2>3, <2>4, <2>5
  <1>4. CASE run[r].pc \in CreateCalls /\ pc \in CreateCalls
    <2>1. run[r] \in Creating
      BY <1>4, Kinds
    <2>2. [run[r] EXCEPT !.pc = pc] \in Creating
      BY <1>4, <2>1 DEF Creating, CreateCalls
    <2>3. run'[r].pc = pc /\ run'[r].amount = run[r].amount
          /\ run'[r].user = run[r].user /\ run'[r].type = run[r].type
      BY <1>2, <2>1 DEF Creating
    <2>4. run[r].pc \notin DecideCalls
      BY <1>4 DEF CreateCalls, DecideCalls, Executing
    <2>5. run' \in [Runs -> Creating \cup Deciding \cup {Idle}]
      BY <1>1, <1>2, <2>2 DEF Continue
    <2> QED
      BY <1>2, <2>3, <2>4, <2>5
  <1> QED
    BY <1>3, <1>4

LEMMA EndKeeps ==
    ASSUME TypeOK, NEW r \in Runs, End(r)
    PROVE  /\ run' \in [Runs -> Creating \cup Deciding \cup {Idle}]
           /\ run'[r] = Idle /\ \A s \in Runs \ {r} : run'[s] = run[s]
  BY DEF End, TypeOK

\* A step of handler r alone, which keeps the rows the others rely on.
LEMMA StepStaysSound ==
    ASSUME SoundInv, TypeOK', NEW r \in Runs,
           \A s \in Runs \ {r} : run'[s] = run[s],
           SoundRun(r)',
           \A q \in Requests : Exists(q) => Exists(q)' /\ request'[q].asked = request[q].asked,
           \A q \in Requests : SoundRow(q)'
    PROVE  SoundInv'
  <1>1. ASSUME NEW s \in Runs \ {r}
        PROVE  SoundRun(s)'
    <2> SUFFICES ASSUME run[s].pc \in DecideCalls
                 PROVE  SoundRun(s)'
      BY <1>1 DEF SoundRun
    <2>1. SoundRun(s) /\ Exists(run[s].request) /\ run[s].request \in Requests
      BY Decides
    <2>2. PICK q : q = run[s].request
      OBVIOUS
    <2>3. q \in Requests /\ Exists(q) /\ run'[s] = run[s]
      BY <1>1, <2>1, <2>2
    <2>4. Exists(q)' /\ request'[q].asked = request[q].asked
      BY <2>3
    <2> QED
      BY <2>1, <2>2, <2>3, <2>4 DEF SoundRun, RowOf, Exists
  <1> QED
    BY <1>1 DEF SoundInv

\* A step by which a handler only goes on, or ends.
LEMMA GoesOnSound ==
    ASSUME SoundInv, NEW r \in Runs,
           run' \in [Runs -> Creating \cup Deciding \cup {Idle}],
           \A s \in Runs \ {r} : run'[s] = run[s],
           SoundRun(r)',
           UNCHANGED <<request, money, counters, history>>
    PROVE  SoundInv'
  <1>1. TypeOK'
    BY DEF SoundInv, TypeOK, money, counters, history
  <1>2. \A q \in Requests : SoundRow(q)' /\ (Exists(q) => Exists(q)')
    BY DEF SoundInv, SoundRow, Exists
  <1> QED
    BY <1>1, <1>2, StepStaysSound

LEMMA CreateStepsSound ==
    ASSUME SoundInv, NEW r \in Runs, FindPending(r) \/ CheckBalance(r)
    PROVE  SoundInv'
  <1>1. PICK pc \in CreateCalls : Continue(r, pc) /\ run[r].pc \in CreateCalls
    BY DEF FindPending, CheckBalance, CreateCalls, At
  <1>2. pc \notin DecideCalls
    BY DEF CreateCalls, DecideCalls, Executing
  <1>3. /\ run'[r].pc = pc
        /\ \A s \in Runs \ {r} : run'[s] = run[s]
        /\ run' \in [Runs -> Creating \cup Deciding \cup {Idle}]
    BY <1>1, ContinueKeeps DEF SoundInv
  <1>4. SoundRun(r)'
    BY <1>2, <1>3 DEF SoundRun
  <1> QED
    BY <1>3, <1>4, GoesOnSound DEF FindPending, CheckBalance

LEMMA RefusedSound ==
    ASSUME SoundInv, NEW r \in Runs, Refused(r)
    PROVE  SoundInv'
  <1>1. /\ run'[r] = Idle
        /\ \A s \in Runs \ {r} : run'[s] = run[s]
        /\ run' \in [Runs -> Creating \cup Deciding \cup {Idle}]
    BY EndKeeps DEF Refused, SoundInv
  <1>2. SoundRun(r)'
    BY <1>1 DEF SoundRun, Idle, DecideCalls, Executing
  <1> QED
    BY <1>1, <1>2, GoesOnSound DEF Refused

\* A decision goes on to pc: it keeps its request and its amount.
LEMMA DecisionGoesOn ==
    ASSUME SoundInv, NEW r \in Runs, run[r].pc \in DecideCalls, NEW pc \in DecideCalls,
           Continue(r, pc)
    PROVE  /\ run'[r].pc = pc /\ run'[r].request = run[r].request /\ run'[r].amount = run[r].amount
           /\ \A s \in Runs \ {r} : run'[s] = run[s]
           /\ run' \in [Runs -> Creating \cup Deciding \cup {Idle}]
  BY ContinueKeeps DEF SoundInv

LEMMA ReadStepsSound ==
    ASSUME SoundInv, NEW r \in Runs,
           \/ ReadCancel(r) \/ ReadReject(r) \/ ReadUpdate(r) \/ UpdateBalance(r)
           \/ DebitRefused(r) \/ DebitEntry(r) \/ CreditEntry(r)
    PROVE  SoundInv'
  <1>1. UNCHANGED <<request, money, counters, history>>
    BY DEF ReadCancel, ReadReject, ReadUpdate, UpdateBalance, DebitRefused, DebitEntry, CreditEntry
  <1>2. PICK pc \in DecideCalls :
            /\ Continue(r, pc)
            /\ run[r].pc \in DecideCalls
            /\ \/ pc \in {"cancelled", "rejected"}
               \/ /\ pc = "updateBalance" /\ run[r].pc = "update"
                  /\ run[r].amount <= RowOf(r).asked
               \/ pc = "approved" /\ run[r].pc = "updateBalance"
               \/ pc \in Executing /\ run[r].pc \in Executing
    <2>1. CASE ReadCancel(r) \/ ReadReject(r)
      BY <2>1 DEF ReadCancel, ReadReject, DecideCalls, At
    <2>2. CASE ReadUpdate(r) \/ UpdateBalance(r)
      BY <2>2 DEF ReadUpdate, UpdateBalance, DecideCalls, At
    <2>3. CASE DebitRefused(r) \/ CreditEntry(r)
      BY <2>3 DEF DebitRefused, CreditEntry, DecideCalls, Executing, At
    <2>4. CASE DebitEntry(r)
      <3>1. PICK pc \in {"withdrawal", "credit"} : Continue(r, pc)
        BY <2>4 DEF DebitEntry
      <3> QED
        BY <2>4, <3>1 DEF DebitEntry, DecideCalls, Executing, At
    <2> QED
      BY <2>1, <2>2, <2>3, <2>4
  <1>3. /\ run'[r].pc = pc /\ run'[r].request = run[r].request /\ run'[r].amount = run[r].amount
        /\ \A s \in Runs \ {r} : run'[s] = run[s]
        /\ run' \in [Runs -> Creating \cup Deciding \cup {Idle}]
    BY <1>2, DecisionGoesOn
  <1>4. SoundRun(r)
    BY DEF SoundInv
  <1>5. SoundRun(r)'
    BY <1>1, <1>2, <1>3, <1>4 DEF SoundRun, RowOf, Exists, Executing
  <1> QED
    BY <1>1, <1>3, <1>5, GoesOnSound

LEMMA ReadApproveSound ==
    ASSUME SoundInv, NEW r \in Runs, ReadApprove(r)
    PROVE  SoundInv'
  <1>1. run[r].pc = "approve" /\ run[r].pc \in DecideCalls
    BY DEF ReadApprove, At, DecideCalls
  <1>2. PICK q : q = run[r].request
    OBVIOUS
  <1>3. q \in Requests /\ Exists(q) /\ run[r] \in Deciding
    BY <1>1, <1>2, Decides
  <1>4. request[q].asked \in Amounts /\ request[q].asked \in Nat /\ request[q].asked >= 1
    BY <1>3, ExistingRow DEF SoundInv
  <1>5. PICK x : x = [run[r] EXCEPT !.pc = "approved", !.amount = request[q].asked]
    OBVIOUS
  <1>6. x \in Deciding /\ x.pc = "approved" /\ x.request = q /\ x.amount = request[q].asked
    BY <1>2, <1>3, <1>4, <1>5 DEF Deciding
  <1>7. run' = [run EXCEPT ![r] = x]
    BY <1>2, <1>5 DEF ReadApprove, RowOf
  <1>8. /\ run'[r] = x
        /\ \A s \in Runs \ {r} : run'[s] = run[s]
        /\ run' \in [Runs -> Creating \cup Deciding \cup {Idle}]
    BY <1>6, <1>7 DEF SoundInv, TypeOK
  <1>9. UNCHANGED <<request, money, counters, history>>
    BY DEF ReadApprove
  <1>10. SoundRun(r)'
    BY <1>3, <1>4, <1>6, <1>8, <1>9 DEF SoundRun, RowOf, Exists
  <1> QED
    BY <1>8, <1>9, <1>10, GoesOnSound

\* What writing a status changes.
LEMMA StatusFacts ==
    ASSUME SoundInv, NEW q \in Requests, Exists(q), NEW s \in Status,
           request' = [request EXCEPT ![q].status = s]
    PROVE  /\ request' \in [Requests -> Row \cup {NoRequest}]
           /\ request'[q].status = s /\ Exists(q)'
           /\ request'[q].user = request[q].user /\ request'[q].asked = request[q].asked
           /\ request'[q].approved = request[q].approved
           /\ \A p \in Requests \ {q} : request'[p] = request[p]
  <1>1. request[q] \in Row /\ request \in [Requests -> Row \cup {NoRequest}]
    BY ExistingRow DEF SoundInv, TypeOK
  <1>2. request'[q] = [request[q] EXCEPT !.status = s]
        /\ \A p \in Requests \ {q} : request'[p] = request[p]
    BY <1>1
  <1>3. request'[q] \in Row
    BY <1>1, <1>2 DEF Row
  <1>4. request' \in [Requests -> Row \cup {NoRequest}]
    BY <1>1, <1>3
  <1>5. Exists(q)'
    BY <1>3 DEF Exists, Row, NoRequest
  <1>6. /\ request'[q].status = s
        /\ request'[q].user = request[q].user /\ request'[q].asked = request[q].asked
        /\ request'[q].approved = request[q].approved
    BY <1>1, <1>2 DEF Row
  <1> QED
    BY <1>2, <1>4, <1>5, <1>6

LEMMA EndingWrites ==
    ASSUME SoundInv, NEW r \in Runs, SetRejected(r) \/ SetProcessed(r) \/ SetFailed(r)
    PROVE  /\ run[r].pc \in DecideCalls /\ End(r) /\ UNCHANGED <<money, counters, history>>
           /\ \E s \in {"REJECTED", "PROCESSED", "FAILED"} :
                  request' = [request EXCEPT ![run[r].request].status = s]
  BY DEF SetRejected, SetProcessed, SetFailed, DecideCalls, Executing, At

LEMMA EndingWritesSound ==
    ASSUME SoundInv, NEW r \in Runs, SetRejected(r) \/ SetProcessed(r) \/ SetFailed(r)
    PROVE  SoundInv'
  <1>1. PICK q : q = run[r].request
    OBVIOUS
  <1>2. PICK s \in {"REJECTED", "PROCESSED", "FAILED"} :
            request' = [request EXCEPT ![q].status = s]
    BY <1>1, EndingWrites
  <1>3. s \in Status
    BY DEF Status
  <1>4. q \in Requests /\ Exists(q)
    BY <1>1, EndingWrites, Decides
  <1>5. /\ run'[r] = Idle
        /\ \A x \in Runs \ {r} : run'[x] = run[x]
        /\ run' \in [Runs -> Creating \cup Deciding \cup {Idle}]
    BY EndingWrites, EndKeeps DEF SoundInv
  <1>6. SoundRun(r)'
    BY <1>5 DEF SoundRun, Idle, DecideCalls, Executing
  <1>7. TypeOK'
    <2>1. request' \in [Requests -> Row \cup {NoRequest}]
      BY <1>2, <1>3, <1>4, StatusFacts
    <2> QED
      BY <1>5, <2>1, EndingWrites DEF SoundInv, TypeOK, money, counters, history
  <1>8. ASSUME NEW p \in Requests
        PROVE  SoundRow(p)' /\ (Exists(p) => Exists(p)' /\ request'[p].asked = request[p].asked)
    <2>1. CASE p = q
      BY <1>2, <1>3, <1>4, <2>1, StatusFacts DEF SoundInv, SoundRow
    <2>2. CASE p # q
      <3>1. request'[p] = request[p]
        BY <1>2, <1>3, <1>4, <2>2, StatusFacts
      <3> QED
        BY <3>1 DEF SoundInv, SoundRow, Exists
    <2> QED
      BY <2>1, <2>2
  <1> QED
    BY <1>5, <1>6, <1>7, <1>8, StepStaysSound

\* What SetApproved changes.
LEMMA ApprovedFacts ==
    ASSUME SoundInv, NEW r \in Runs, SetApproved(r), NEW q, q = run[r].request
    PROVE  /\ run[r].pc = "approved" /\ run[r].pc \in DecideCalls
           /\ q \in Requests /\ Exists(q) /\ Exists(q)'
           /\ request' \in [Requests -> Row \cup {NoRequest}]
           /\ request'[q].status = "APPROVED" /\ request'[q].approved = run[r].amount
           /\ request'[q].user = request[q].user /\ request'[q].asked = request[q].asked
           /\ run[r].amount <= request[q].asked /\ run[r].amount >= 1
           /\ \A p \in Requests \ {q} : request'[p] = request[p]
           /\ run'[r].pc = "debit" /\ run'[r].request = q /\ run'[r].amount = run[r].amount
           /\ \A s \in Runs \ {r} : run'[s] = run[s]
           /\ run' \in [Runs -> Creating \cup Deciding \cup {Idle}]
  <1>1. run[r].pc = "approved" /\ run[r].pc \in DecideCalls
    BY DEF SetApproved, At, DecideCalls
  <1>2. q \in Requests /\ Exists(q) /\ SoundRun(r) /\ run[r].amount \in Amounts \cup {0}
    BY <1>1, Decides
  <1>3. request[q] \in Row /\ request \in [Requests -> Row \cup {NoRequest}]
    BY <1>2, ExistingRow DEF SoundInv, TypeOK
  <1>4. /\ request'[q] = [request[q] EXCEPT !.status = "APPROVED", !.approved = run[r].amount]
        /\ \A p \in Requests \ {q} : request'[p] = request[p]
    BY <1>2, <1>3 DEF SetApproved
  <1>5. request'[q] \in Row
    BY <1>2, <1>3, <1>4 DEF Row, Status
  <1>6. request' \in [Requests -> Row \cup {NoRequest}]
    BY <1>2, <1>3, <1>5 DEF SetApproved
  <1>7. Exists(q)'
    BY <1>5 DEF Exists, Row, NoRequest
  <1>8. /\ request'[q].status = "APPROVED" /\ request'[q].approved = run[r].amount
        /\ request'[q].user = request[q].user /\ request'[q].asked = request[q].asked
    BY <1>3, <1>4 DEF Row
  <1>9. run[r].amount <= request[q].asked /\ run[r].amount >= 1
    BY <1>1, <1>2 DEF SoundRun, RowOf
  <1>10. Continue(r, "debit") /\ "debit" \in DecideCalls
    BY DEF SetApproved, DecideCalls, Executing
  <1>11. /\ run'[r].pc = "debit" /\ run'[r].request = q /\ run'[r].amount = run[r].amount
         /\ \A s \in Runs \ {r} : run'[s] = run[s]
         /\ run' \in [Runs -> Creating \cup Deciding \cup {Idle}]
    BY <1>1, <1>10, DecisionGoesOn
  <1> QED
    BY <1>1, <1>2, <1>4, <1>6, <1>7, <1>8, <1>9, <1>11

LEMMA SetApprovedSound ==
    ASSUME SoundInv, NEW r \in Runs, SetApproved(r)
    PROVE  SoundInv'
  <1>1. PICK q : q = run[r].request
    OBVIOUS
  <1>2. UNCHANGED <<money, counters, history>>
    BY DEF SetApproved
  <1>3. TypeOK'
    BY <1>1, <1>2, ApprovedFacts DEF SoundInv, TypeOK, money, counters, history
  <1>4. SoundRun(r)'
    BY <1>1, ApprovedFacts DEF SoundRun
  <1>5. ASSUME NEW p \in Requests
        PROVE  SoundRow(p)' /\ (Exists(p) => Exists(p)' /\ request'[p].asked = request[p].asked)
    <2>1. CASE p = q
      BY <1>1, <2>1, ApprovedFacts DEF SoundRow
    <2>2. CASE p # q
      <3>1. request'[p] = request[p]
        BY <1>1, <2>2, ApprovedFacts
      <3> QED
        BY <3>1 DEF SoundInv, SoundRow, Exists
    <2> QED
      BY <2>1, <2>2
  <1>6. \A s \in Runs \ {r} : run'[s] = run[s]
    BY <1>1, ApprovedFacts
  <1> QED
    BY <1>3, <1>4, <1>5, <1>6, StepStaysSound

\* What the steps that move money change.
LEMMA MoneyFacts ==
    ASSUME SoundInv, NEW r \in Runs, Debit(r) \/ CreditPrincipal(r) \/ CreateWithdrawal(r),
           NEW q, q = run[r].request
    PROVE  /\ q \in Requests /\ run[r].amount \in Nat /\ run[r].amount >= 1
           /\ run[r].pc \in DecideCalls
           /\ taken[q] \in Nat /\ paid[q] \in Nat
           /\ \E pc \in {"debitEntry", "creditEntry", "processed"} :
                 /\ run'[r].pc = pc
                 /\ pc = "debitEntry" <=> Debit(r)
           /\ run'[r].request = q /\ run'[r].amount = run[r].amount
           /\ \A s \in Runs \ {r} : run'[s] = run[s]
           /\ run' \in [Runs -> Creating \cup Deciding \cup {Idle}]
           /\ pool' \in [Users -> Nat] /\ taken' \in [Requests -> Nat]
           /\ paid' \in [Requests -> Nat]
           /\ \A p \in Requests \ {q} : taken'[p] = taken[p] /\ paid'[p] = paid[p]
           /\ Debit(r) => taken'[q] = taken[q] + run[r].amount /\ paid'[q] = paid[q]
           /\ ~Debit(r) => taken'[q] = taken[q] /\ paid'[q] = paid[q] + run[r].amount
           /\ UNCHANGED <<request, counters, history>>
  <1>1. PICK pc \in {"debitEntry", "creditEntry", "processed"} :
            /\ Continue(r, pc)
            /\ pc = "debitEntry" <=> Debit(r)
            /\ run[r].pc \in {"debit", "credit", "withdrawal"}
    BY DEF Debit, CreditPrincipal, CreateWithdrawal, At
  <1>2. pc \in DecideCalls /\ run[r].pc \in DecideCalls /\ run[r].pc \in Executing
    BY <1>1 DEF DecideCalls, Executing
  <1>3. /\ run'[r].pc = pc /\ run'[r].request = q /\ run'[r].amount = run[r].amount
        /\ \A s \in Runs \ {r} : run'[s] = run[s]
        /\ run' \in [Runs -> Creating \cup Deciding \cup {Idle}]
    BY <1>1, <1>2, DecisionGoesOn
  <1>4. /\ q \in Requests /\ Exists(q) /\ run[r].amount \in Nat /\ run[r].amount >= 1
        /\ taken[q] \in Nat /\ paid[q] \in Nat
    BY <1>2, Decides DEF SoundRun
  <1>5. CASE Debit(r)
    <2>1. PICK u : u = request[q].user
      OBVIOUS
    <2>2. u \in Users /\ pool[u] \in Nat
      BY <1>4, <2>1, ExistingRow DEF SoundInv, TypeOK
    <2>3. pool[u] >= run[r].amount /\ pool' = [pool EXCEPT ![u] = @ - run[r].amount]
      BY <1>5, <2>1 DEF Debit, RowOf
    <2>4. pool' \in [Users -> Nat]
      BY <1>4, <2>2, <2>3 DEF SoundInv, TypeOK
    <2>5. /\ taken' \in [Requests -> Nat] /\ taken'[q] = taken[q] + run[r].amount
          /\ \A p \in Requests \ {q} : taken'[p] = taken[p]
      BY <1>4, <1>5 DEF Debit, SoundInv, TypeOK
    <2>6. UNCHANGED <<request, paid, counters, history>>
      BY <1>5 DEF Debit
    <2>7. paid' \in [Requests -> Nat]
      BY <2>6 DEF SoundInv, TypeOK
    <2> QED
      BY <1>1, <1>2, <1>3, <1>4, <1>5, <2>4, <2>5, <2>6, <2>7
  <1>6. CASE ~Debit(r)
    <2>1. /\ paid' = [paid EXCEPT ![q] = @ + run[r].amount]
          /\ UNCHANGED <<request, pool, taken, counters, history>>
      BY <1>6 DEF CreditPrincipal, CreateWithdrawal
    <2>2. /\ paid' \in [Requests -> Nat] /\ paid'[q] = paid[q] + run[r].amount
          /\ \A p \in Requests \ {q} : paid'[p] = paid[p]
      BY <1>4, <2>1 DEF SoundInv, TypeOK
    <2>3. pool' \in [Users -> Nat] /\ taken' \in [Requests -> Nat]
      BY <2>1 DEF SoundInv, TypeOK
    <2> QED
      BY <1>1, <1>2, <1>3, <1>4, <1>6, <2>1, <2>2, <2>3
  <1> QED
    BY <1>5, <1>6

LEMMA MoneyStepsSound ==
    ASSUME SoundInv, NEW r \in Runs, Debit(r) \/ CreditPrincipal(r) \/ CreateWithdrawal(r)
    PROVE  SoundInv'
  <1>1. PICK q : q = run[r].request
    OBVIOUS
  <1>2. TypeOK'
    BY <1>1, MoneyFacts DEF SoundInv, TypeOK, counters, history
  <1>3. SoundRun(r)'
    <2>1. Exists(q) /\ run'[r].pc \in {"debitEntry", "creditEntry", "processed"}
      BY <1>1, MoneyFacts, Decides
    <2> QED
      BY <1>1, <2>1, MoneyFacts DEF SoundRun, Exists
  <1>4. \A p \in Requests : SoundRow(p)' /\ (Exists(p) => Exists(p)')
    BY <1>1, MoneyFacts DEF SoundInv, SoundRow, Exists
  <1>5. request' = request /\ \A s \in Runs \ {r} : run'[s] = run[s]
    BY <1>1, MoneyFacts
  <1> QED
    BY <1>2, <1>3, <1>4, <1>5, StepStaysSound

\* What Insert changes.
LEMMA InsertFacts ==
    ASSUME SoundInv, NEW r \in Runs, NEW q \in Requests, Insert(r, q)
    PROVE  /\ run[r].pc = "insert" /\ run[r] \in Creating /\ request[q] = NoRequest
           /\ request' \in [Requests -> Row \cup {NoRequest}] /\ Exists(q)'
           /\ request'[q].status = "PENDING" /\ request'[q].user = run[r].user
           /\ request'[q].approved = 0 /\ request'[q].asked \in Nat
           /\ \A p \in Requests \ {q} : request'[p] = request[p]
           /\ run'[r] = Idle
           /\ \A s \in Runs \ {r} : run'[s] = run[s]
           /\ run' \in [Runs -> Creating \cup Deciding \cup {Idle}]
           /\ UNCHANGED <<money, counters, history>>
  <1>1. run[r].pc = "insert" /\ run[r] \in Creating
    BY Kinds DEF Insert, At, CreateCalls, SoundInv
  <1>2. PICK x : x = [status |-> "PENDING", user |-> run[r].user, type |-> run[r].type,
                      asked |-> run[r].amount, approved |-> 0]
    OBVIOUS
  <1>3. run[r].user \in Users /\ run[r].type \in Type /\ run[r].amount \in Amounts
    BY <1>1 DEF Creating
  <1>4. x \in Row /\ x # NoRequest /\ x.status = "PENDING" /\ x.user = run[r].user
        /\ x.approved = 0 /\ x.asked = run[r].amount
    BY <1>2, <1>3 DEF Row, Status, NoRequest
  <1>5. request' = [request EXCEPT ![q] = x]
    BY <1>2 DEF Insert
  <1>6. /\ request' \in [Requests -> Row \cup {NoRequest}] /\ request'[q] = x
        /\ \A p \in Requests \ {q} : request'[p] = request[p]
    BY <1>4, <1>5 DEF SoundInv, TypeOK
  <1>7. run[r].amount \in Nat
    BY <1>3, AmountsAreNumbers
  <1> QED
    BY <1>1, <1>4, <1>6, <1>7, EndKeeps DEF Insert, Exists, SoundInv

LEMMA InsertSound ==
    ASSUME SoundInv, NEW r \in Runs, NEW q \in Requests, Insert(r, q)
    PROVE  SoundInv'
  <1>1. TypeOK'
    BY InsertFacts DEF SoundInv, TypeOK, money, counters, history
  <1>2. SoundRun(r)'
    BY InsertFacts DEF SoundRun, Idle, DecideCalls, Executing
  <1>3. ASSUME NEW p \in Requests
        PROVE  SoundRow(p)' /\ (Exists(p) => Exists(p)' /\ request'[p].asked = request[p].asked)
    <2>1. CASE p = q
      <3>1. ~ Exists(q) /\ request'[q].approved <= request'[q].asked
        BY InsertFacts DEF Exists
      <3> QED
        BY <2>1, <3>1 DEF SoundRow
    <2>2. CASE p # q
      <3>1. request'[p] = request[p]
        BY <2>2, InsertFacts
      <3> QED
        BY <3>1 DEF SoundInv, SoundRow, Exists
    <2> QED
      BY <2>1, <2>2
  <1> QED
    BY <1>1, <1>2, <1>3, InsertFacts, StepStaysSound

\* What a call that starts a decision changes.
LEMMA CallOnFacts ==
    ASSUME SoundInv, NEW r \in Runs, NEW q \in Requests, NEW admin \in Admins \cup {"none"},
           NEW amount \in Amounts \cup {0}, NEW pc \in {"cancel", "approve", "update", "reject"},
           pc = "update" => amount \in Amounts,
           CallOn(r, pc, q, admin, amount)
    PROVE  /\ run[r] = Idle /\ Exists(q)
           /\ run'[r].pc = pc /\ run'[r].request = q /\ run'[r].amount = amount
           /\ \A s \in Runs \ {r} : run'[s] = run[s]
           /\ run' \in [Runs -> Creating \cup Deciding \cup {Idle}]
           /\ calls' \in 0..MaxCalls
           /\ overlapped' = IF \E s \in Runs : On(s, q) THEN overlapped \cup {q} ELSE overlapped
           /\ UNCHANGED <<request, money, failures, crowded, interrupted>>
  <1>1. PICK x : x = [pc |-> pc, request |-> q, admin |-> admin, amount |-> amount]
    OBVIOUS
  <1>2. x \in Deciding /\ x.pc = pc /\ x.request = q /\ x.amount = amount
    BY <1>1 DEF Deciding
  <1>3. run' = [run EXCEPT ![r] = x]
    BY <1>1 DEF CallOn
  <1>4. calls' \in 0..MaxCalls
    BY BoundAssumption DEF CallOn, Call, SoundInv, TypeOK
  <1> QED
    BY <1>2, <1>3, <1>4 DEF CallOn, Call, SoundInv, TypeOK

LEMMA CallOnSound ==
    ASSUME SoundInv, NEW r \in Runs, NEW q \in Requests, NEW admin \in Admins \cup {"none"},
           NEW amount \in Amounts \cup {0}, NEW pc \in {"cancel", "approve", "update", "reject"},
           pc = "update" => amount \in Amounts,
           CallOn(r, pc, q, admin, amount)
    PROVE  SoundInv'
  <1>1. overlapped' \subseteq Requests
    BY CallOnFacts DEF SoundInv, TypeOK
  <1>2. TypeOK'
    BY <1>1, CallOnFacts DEF SoundInv, TypeOK, money
  <1>3. SoundRun(r)'
    <2>1. pc = "update" => amount >= 1
      BY AmountsAreNumbers
    <2> QED
      BY <2>1, CallOnFacts DEF SoundRun, Exists, Executing
  <1>4. \A p \in Requests : SoundRow(p)' /\ (Exists(p) => Exists(p)')
    BY CallOnFacts DEF SoundInv, SoundRow, Exists
  <1> QED
    BY <1>2, <1>3, <1>4, CallOnFacts, StepStaysSound

\* What a call of createRequest changes.
LEMMA CallCreateFacts ==
    ASSUME SoundInv, NEW r \in Runs, NEW u \in Users, NEW type \in Type, NEW amount \in Amounts,
           CallCreate(r, u, type, amount)
    PROVE  /\ run[r] = Idle
           /\ run'[r].pc = "pending" /\ run'[r].user = u
           /\ \A s \in Runs \ {r} : run'[s] = run[s]
           /\ run' \in [Runs -> Creating \cup Deciding \cup {Idle}]
           /\ calls' \in 0..MaxCalls
           /\ crowded' = IF \E s \in Runs : InCreate(s) /\ run[s].user = u
                         THEN crowded \cup {u} ELSE crowded
           /\ UNCHANGED <<request, money, failures, overlapped, interrupted>>
  <1>1. PICK x : x = [pc |-> "pending", user |-> u, type |-> type, amount |-> amount]
    OBVIOUS
  <1>2. x \in Creating /\ x.pc = "pending" /\ x.user = u
    BY <1>1 DEF Creating
  <1>3. run' = [run EXCEPT ![r] = x]
    BY <1>1 DEF CallCreate
  <1>4. calls' \in 0..MaxCalls
    BY BoundAssumption DEF CallCreate, Call, SoundInv, TypeOK
  <1> QED
    BY <1>2, <1>3, <1>4 DEF CallCreate, Call, SoundInv, TypeOK

LEMMA CallCreateSound ==
    ASSUME SoundInv, NEW r \in Runs, NEW u \in Users, NEW type \in Type, NEW amount \in Amounts,
           CallCreate(r, u, type, amount)
    PROVE  SoundInv'
  <1>1. crowded' \subseteq Users
    BY CallCreateFacts DEF SoundInv, TypeOK
  <1>2. TypeOK'
    BY <1>1, CallCreateFacts DEF SoundInv, TypeOK, money
  <1>3. SoundRun(r)'
    BY CallCreateFacts DEF SoundRun, DecideCalls, Executing
  <1>4. \A p \in Requests : SoundRow(p)' /\ (Exists(p) => Exists(p)')
    BY CallCreateFacts DEF SoundInv, SoundRow, Exists
  <1> QED
    BY <1>2, <1>3, <1>4, CallCreateFacts, StepStaysSound

LEMMA MidwayTyped ==
    ASSUME SoundInv, NEW r \in Runs
    PROVE  Midway(r) \subseteq Requests
  <1>1. CASE run[r].pc \in Executing
    <2>1. run[r].request \in Requests
      BY <1>1, Decides DEF DecideCalls
    <2> QED
      BY <2>1 DEF Midway
  <1>2. CASE run[r].pc \notin Executing
    BY <1>2 DEF Midway
  <1> QED
    BY <1>1, <1>2

\* What a failed call changes.
LEMMA FailFacts ==
    ASSUME SoundInv, NEW r \in Runs, Fail(r)
    PROVE  /\ run[r].pc # "idle"
           /\ \A s \in Runs \ {r} : run'[s] = run[s]
           /\ run' \in [Runs -> Creating \cup Deciding \cup {Idle}]
           /\ \/ run'[r] = Idle /\ run[r].pc \notin Executing \ {"processed", "failed"}
              \/ /\ run[r].pc \in Executing \ {"processed", "failed"}
                 /\ run'[r].pc = "failed" /\ run'[r].request = run[r].request
                 /\ run'[r].amount = run[r].amount
           /\ failures' \in 0..MaxFailures
           /\ interrupted' \subseteq Requests /\ interrupted \subseteq interrupted'
           /\ run[r].pc \in Executing \ {"debit"} => run[r].request \in interrupted'
           /\ UNCHANGED <<request, money, calls, overlapped, crowded>>
  <1>1. run[r].pc # "idle"
    BY Kinds DEF Fail, SoundInv
  <1>2. failures' \in 0..MaxFailures
    BY BoundAssumption DEF Fail, Failing, SoundInv, TypeOK
  <1>3. /\ interrupted' \subseteq Requests /\ interrupted \subseteq interrupted'
        /\ run[r].pc \in Executing \ {"debit"} => run[r].request \in interrupted'
    <2>1. Midway(r) \subseteq Requests
      BY MidwayTyped
    <2> QED
      BY <2>1 DEF Fail, Midway, At, SoundInv, TypeOK
  <1>4. CASE run[r].pc \in Executing \ {"processed", "failed"}
    <2>1. Continue(r, "failed") /\ "failed" \in DecideCalls /\ run[r].pc \in DecideCalls
      BY <1>4 DEF Fail, DecideCalls, Executing
    <2> QED
      BY <1>1, <1>2, <1>3, <1>4, <2>1, DecisionGoesOn DEF Fail
  <1>5. CASE run[r].pc \notin Executing \ {"processed", "failed"}
    <2>1. End(r)
      BY <1>5 DEF Fail
    <2> QED
      BY <1>1, <1>2, <1>3, <1>5, <2>1, EndKeeps DEF Fail, SoundInv
  <1> QED
    BY <1>4, <1>5

LEMMA FailSound ==
    ASSUME SoundInv, NEW r \in Runs, Fail(r)
    PROVE  SoundInv'
  <1>1. TypeOK'
    BY FailFacts DEF SoundInv, TypeOK, money
  <1>2. SoundRun(r)'
    <2>1. CASE run'[r] = Idle
      BY <2>1 DEF SoundRun, Idle, DecideCalls, Executing
    <2>2. CASE run[r].pc \in Executing /\ run'[r].pc = "failed"
               /\ run'[r].request = run[r].request /\ run'[r].amount = run[r].amount
      <3>1. run[r].pc \in DecideCalls /\ SoundRun(r)
        BY <2>2 DEF DecideCalls, SoundInv
      <3> QED
        BY <2>2, <3>1, FailFacts DEF SoundRun, Exists
    <2> QED
      BY <2>1, <2>2, FailFacts
  <1>3. \A p \in Requests : SoundRow(p)' /\ (Exists(p) => Exists(p)')
    BY FailFacts DEF SoundInv, SoundRow, Exists
  <1> QED
    BY <1>1, <1>2, <1>3, FailFacts, StepStaysSound

LEMMA CrashFacts ==
    ASSUME SoundInv, Crash
    PROVE  /\ run' = [r \in Runs |-> Idle]
           /\ failures' \in 0..MaxFailures
           /\ interrupted' \subseteq Requests /\ interrupted \subseteq interrupted'
           /\ \A r \in Runs : run[r].pc \in Executing => run[r].request \in interrupted'
           /\ UNCHANGED <<request, money, calls, overlapped, crowded>>
  <1>1. failures' \in 0..MaxFailures
    BY BoundAssumption DEF Crash, Failing, SoundInv, TypeOK
  <1>2. interrupted' \subseteq Requests
    BY MidwayTyped DEF Crash, SoundInv, TypeOK
  <1>3. \A r \in Runs : run[r].pc \in Executing => run[r].request \in interrupted'
    BY DEF Crash, Midway
  <1> QED
    BY <1>1, <1>2, <1>3 DEF Crash

LEMMA CrashSound ==
    ASSUME SoundInv, Crash
    PROVE  SoundInv'
  <1>1. TypeOK'
    BY CrashFacts DEF SoundInv, TypeOK, money
  <1>2. \A r \in Runs : SoundRun(r)'
    BY CrashFacts DEF SoundRun, Idle, DecideCalls, Executing
  <1>3. \A p \in Requests : SoundRow(p)'
    BY CrashFacts DEF SoundInv, SoundRow, Exists
  <1> QED
    BY <1>1, <1>2, <1>3 DEF SoundInv

LEMMA CalledIs ==
    ASSUME NEW r \in Runs, Called(r)
    PROVE  \/ \E u \in Users, type \in Type, amount \in Amounts : CallCreate(r, u, type, amount)
           \/ \E q \in Requests, admin \in Admins \cup {"none"}, amount \in Amounts \cup {0},
                 pc \in {"cancel", "approve", "update", "reject"} :
                 (pc = "update" => amount \in Amounts) /\ CallOn(r, pc, q, admin, amount)
  BY DEF Called, CallCancel, CallApprove, CallReject, CallUpdateAndApprove

LEMMA StutterSound == ASSUME SoundInv, UNCHANGED vars PROVE SoundInv'
  BY DEF SoundInv, TypeOK, SoundRun, SoundRow, RowOf, Exists, vars, money, counters, history

LEMMA NextSound == SoundInv /\ [Next]_vars => SoundInv'
  <1> SUFFICES ASSUME SoundInv, [Next]_vars
               PROVE  SoundInv'
    OBVIOUS
  <1>1. ASSUME NEW r \in Runs, Called(r)
        PROVE  SoundInv'
    BY <1>1, CalledIs, CallCreateSound, CallOnSound
  <1>2. ASSUME NEW r \in Runs, Step(r)
        PROVE  SoundInv'
    BY <1>2, CreateStepsSound, RefusedSound, ReadStepsSound, ReadApproveSound,
       EndingWritesSound, SetApprovedSound, MoneyStepsSound, InsertSound DEF Step
  <1> QED
    BY <1>1, <1>2, FailSound, CrashSound, StutterSound DEF Next

\* Rows and handlers keep their types, no pool balance goes below zero, and
\* every decision is about a request that exists.
THEOREM TypeCorrect == Spec => []TypeOK
  <1>1. SoundInv => TypeOK
    BY DEF SoundInv
  <1> QED
    BY <1>1, InitSound, NextSound, PTL DEF Spec

(* ---------------------------------------------------------------------- *)
(* What holds for a request on which no two handlers overlapped           *)

\* The money has moved as the row says.
Balanced(q) ==
    /\ request[q].status # "APPROVED"
    /\ taken[q] = (IF request[q].status = "PROCESSED" THEN request[q].approved ELSE 0)
    /\ paid[q] = taken[q]

\* Alone on its request, a handler finds the row at each call as it read it.
InOrder(r) ==
    LET pc == run[r].pc
        q == run[r].request
    IN  /\ pc \in {"cancelled", "rejected", "updateBalance", "approved"} =>
               request[q].status = "PENDING"
        /\ pc \in Executing =>
               request[q].status = "APPROVED" /\ request[q].approved = run[r].amount

\* ... and the money that has moved follows from the call it is about to make.
Exact(r) ==
    LET pc == run[r].pc
        q == run[r].request
    IN  /\ pc \in DecideCalls \ Executing => Balanced(q)
        /\ pc \in {"debit", "failed"} => taken[q] = 0 /\ paid[q] = 0
        /\ pc \in {"debitEntry", "credit", "withdrawal"} => taken[q] = run[r].amount /\ paid[q] = 0
        /\ pc \in {"creditEntry", "processed"} =>
               taken[q] = run[r].amount /\ paid[q] = run[r].amount

Orderly(q) ==
    q \notin overlapped =>
        /\ \A r, s \in Runs : On(r, q) /\ On(s, q) => r = s
        /\ \A r \in Runs : On(r, q) => InOrder(r)
        /\ q \notin interrupted => /\ Quiet(q) => Balanced(q)
                                   /\ \A r \in Runs : On(r, q) => Exact(r)

OrderInv == SoundInv /\ \A q \in Requests : Orderly(q)

LEMMA InitOrderly == Init => OrderInv
  BY InitSound DEF Init, OrderInv, Orderly, On, At, Balanced, NoRequest, Idle

\* A request that a step leaves alone, with its handlers, stays in order.
LEMMA UntouchedStaysOrderly ==
    ASSUME NEW q \in Requests, Orderly(q),
           request'[q] = request[q], taken'[q] = taken[q], paid'[q] = paid[q],
           q \in overlapped => q \in overlapped',
           q \in interrupted => q \in interrupted',
           \A s \in Runs : On(s, q) \/ On(s, q)' => run'[s] = run[s]
    PROVE  Orderly(q)'
  <1> SUFFICES ASSUME q \notin overlapped'
               PROVE  Orderly(q)'
    BY DEF Orderly
  <1>1. \A s \in Runs : On(s, q)' <=> On(s, q)
    BY DEF On, At, InCreate
  <1>2. ASSUME NEW s \in Runs, On(s, q)'
        PROVE  InOrder(s)' /\ (q \notin interrupted' => Exact(s)')
    <2>1. On(s, q) /\ run'[s] = run[s] /\ run[s].request = q
      BY <1>1, <1>2 DEF On
    <2>2. InOrder(s) /\ (q \notin interrupted' => Exact(s))
      BY <2>1 DEF Orderly
    <2> QED
      BY <2>1, <2>2 DEF InOrder, Exact, Balanced
  <1>3. q \notin interrupted' /\ Quiet(q)' => Balanced(q)'
    BY <1>1 DEF Quiet, Orderly, Balanced
  <1> QED
    BY <1>1, <1>2, <1>3 DEF Orderly

\* The request of a handler that goes on to its next call.
LEMMA GoesOnOrderly ==
    ASSUME NEW r \in Runs, NEW q \in Requests, On(r, q), Orderly(q), On(r, q)',
           \A s \in Runs \ {r} : run'[s] = run[s],
           overlapped' = overlapped, interrupted \subseteq interrupted',
           q \notin overlapped => InOrder(r)',
           q \notin overlapped /\ q \notin interrupted' => Exact(r)'
    PROVE  Orderly(q)'
  <1> SUFFICES ASSUME q \notin overlapped
               PROVE  Orderly(q)'
    BY DEF Orderly
  <1>1. \A s \in Runs : On(s, q)' => s = r
    BY DEF Orderly, On, At, InCreate
  <1>2. ~ Quiet(q)'
    BY DEF Quiet
  <1> QED
    BY <1>1, <1>2 DEF Orderly

\* The request of a handler that ends.
LEMMA EndsOrderly ==
    ASSUME NEW r \in Runs, NEW q \in Requests, On(r, q), Orderly(q), run'[r] = Idle,
           \A s \in Runs \ {r} : run'[s] = run[s],
           overlapped' = overlapped, interrupted \subseteq interrupted',
           q \notin overlapped /\ q \notin interrupted' => Balanced(q)'
    PROVE  Orderly(q)'
  <1> SUFFICES ASSUME q \notin overlapped
               PROVE  Orderly(q)'
    BY DEF Orderly
  <1>1. \A s \in Runs : ~ On(s, q)'
    BY DEF Orderly, On, At, InCreate, Idle
  <1> QED
    BY <1>1 DEF Orderly

\* What is known of a handler alone on its request.
LEMMA Alone ==
    ASSUME OrderInv, NEW r \in Runs, NEW q, q = run[r].request, run[r].pc \in DecideCalls
    PROVE  /\ q \in Requests /\ Exists(q) /\ On(r, q) /\ Orderly(q) /\ SoundInv
           /\ q \notin overlapped => InOrder(r)
           /\ q \notin overlapped /\ q \notin interrupted => Exact(r)
  <1>1. q \in Requests /\ Exists(q) /\ SoundInv
    BY Decides DEF OrderInv
  <1>2. On(r, q)
    BY <1>1, Kinds DEF SoundInv
  <1> QED
    BY <1>1, <1>2 DEF OrderInv, Orderly

\* A step of one handler that changes nothing of the other requests.
LEMMA StepStaysOrderly ==
    ASSUME OrderInv, SoundInv', NEW r \in Runs, run[r].pc \in DecideCalls,
           NEW q, q = run[r].request, Orderly(q)',
           \A s \in Runs \ {r} : run'[s] = run[s],
           run'[r] = Idle \/ run'[r].request = q,
           overlapped' = overlapped, interrupted \subseteq interrupted',
           \A p \in Requests \ {q} :
               request'[p] = request[p] /\ taken'[p] = taken[p] /\ paid'[p] = paid[p]
    PROVE  OrderInv'
  <1>1. ASSUME NEW p \in Requests, p # q
        PROVE  Orderly(p)'
    <2>1. \A s \in Runs : On(s, p) \/ On(s, p)' => run'[s] = run[s]
      <3>1. ~ On(r, p) /\ ~ On(r, p)'
        BY <1>1 DEF On, At, Idle
      <3> QED
        BY <3>1
    <2> QED
      BY <1>1, <2>1, UntouchedStaysOrderly DEF OrderInv
  <1> QED
    BY <1>1 DEF OrderInv

LEMMA OnAfter ==
    ASSUME SoundInv', NEW r \in Runs, run'[r].pc \in DecideCalls, NEW q, run'[r].request = q
    PROVE  On(r, q)'
  BY DEF On, At, InCreate, DecideCalls, Executing

\* Steps of a decision that write no row and move no money.
LEMMA ReadStepsOrderly ==
    ASSUME OrderInv, SoundInv', NEW r \in Runs,
           \/ ReadCancel(r) \/ ReadReject(r) \/ ReadUpdate(r) \/ UpdateBalance(r)
           \/ DebitRefused(r) \/ DebitEntry(r) \/ CreditEntry(r)
    PROVE  OrderInv'
  <1>1. PICK q : q = run[r].request
    OBVIOUS
  <1>2. UNCHANGED <<request, money, counters, history>>
    BY DEF ReadCancel, ReadReject, ReadUpdate, UpdateBalance, DebitRefused, DebitEntry, CreditEntry
  <1>3. PICK pc \in DecideCalls :
            /\ Continue(r, pc)
            /\ run[r].pc \in DecideCalls
            /\ \/ /\ pc \in {"cancelled", "rejected", "updateBalance"}
                  /\ run[r].pc \in DecideCalls \ Executing /\ request[q].status = "PENDING"
               \/ pc = "approved" /\ run[r].pc = "updateBalance"
               \/ pc = "failed" /\ run[r].pc = "debit"
               \/ pc \in {"credit", "withdrawal"} /\ run[r].pc = "debitEntry"
               \/ pc = "processed" /\ run[r].pc = "creditEntry"
    <2>1. CASE ReadCancel(r) \/ ReadReject(r) \/ ReadUpdate(r)
      BY <1>1, <2>1 DEF ReadCancel, ReadReject, ReadUpdate, DecideCalls, Executing, At, RowOf
    <2>2. CASE UpdateBalance(r)
      BY <2>2 DEF UpdateBalance, DecideCalls, At
    <2>3. CASE DebitRefused(r) \/ CreditEntry(r)
      BY <2>3 DEF DebitRefused, CreditEntry, DecideCalls, Executing, At
    <2>4. CASE DebitEntry(r)
      <3>1. PICK pc \in {"withdrawal", "credit"} : Continue(r, pc)
        BY <2>4 DEF DebitEntry
      <3> QED
        BY <2>4, <3>1 DEF DebitEntry, DecideCalls, Executing, At
    <2> QED
      BY <2>1, <2>2, <2>3, <2>4
  <1>4. /\ q \in Requests /\ On(r, q) /\ Orderly(q) /\ SoundInv
        /\ q \notin overlapped => InOrder(r)
        /\ q \notin overlapped /\ q \notin interrupted => Exact(r)
    BY <1>1, <1>3, Alone
  <1>5. /\ run'[r].pc = pc /\ run'[r].request = q /\ run'[r].amount = run[r].amount
        /\ \A s \in Runs \ {r} : run'[s] = run[s]
    BY <1>1, <1>3, <1>4, DecisionGoesOn
  <1>6. q \notin overlapped => InOrder(r)'
    BY <1>1, <1>2, <1>3, <1>4, <1>5 DEF InOrder, Executing
  <1>7. q \notin overlapped /\ q \notin interrupted => Exact(r)'
    BY <1>1, <1>2, <1>3, <1>4, <1>5 DEF Exact, Balanced, Executing, DecideCalls, money
  <1>8. Orderly(q)'
    BY <1>2, <1>3, <1>4, <1>5, <1>6, <1>7, OnAfter, GoesOnOrderly DEF history
  <1> QED
    BY <1>1, <1>2, <1>3, <1>5, <1>8, StepStaysOrderly DEF money, history

LEMMA ReadApproveOrderly ==
    ASSUME OrderInv, SoundInv', NEW r \in Runs, ReadApprove(r)
    PROVE  OrderInv'
  <1>1. PICK q : q = run[r].request
    OBVIOUS
  <1>2. run[r].pc = "approve" /\ run[r].pc \in DecideCalls
    BY DEF ReadApprove, At, DecideCalls
  <1>3. /\ q \in Requests /\ On(r, q) /\ Orderly(q) /\ SoundInv /\ run[r] \in Deciding
        /\ q \notin overlapped /\ q \notin interrupted => Exact(r)
    BY <1>1, <1>2, Alone, Decides
  <1>4. PICK x : x = [run[r] EXCEPT !.pc = "approved", !.amount = request[q].asked]
    OBVIOUS
  <1>5. x.pc = "approved" /\ x.request = q
    BY <1>1, <1>3, <1>4 DEF Deciding
  <1>6. run' = [run EXCEPT ![r] = x]
    BY <1>1, <1>4 DEF ReadApprove, RowOf
  <1>7. /\ run'[r] = x
        /\ \A s \in Runs \ {r} : run'[s] = run[s]
    BY <1>3, <1>6 DEF SoundInv, TypeOK
  <1>8. UNCHANGED <<request, money, counters, history>> /\ request[q].status = "PENDING"
    BY <1>1 DEF ReadApprove, RowOf
  <1>9. InOrder(r)'
    BY <1>5, <1>7, <1>8 DEF InOrder, Executing
  <1>10. q \notin overlapped /\ q \notin interrupted => Exact(r)'
    BY <1>1, <1>2, <1>3, <1>5, <1>7, <1>8 DEF Exact, Balanced, Executing, DecideCalls, money
  <1>11. run'[r].pc \in DecideCalls
    BY <1>5, <1>7 DEF DecideCalls
  <1>12. Orderly(q)'
    BY <1>3, <1>5, <1>7, <1>8, <1>9, <1>10, <1>11, OnAfter, GoesOnOrderly DEF history
  <1> QED
    BY <1>1, <1>2, <1>5, <1>7, <1>8, <1>12, StepStaysOrderly DEF money, history

LEMMA EndingWritesOrderly ==
    ASSUME OrderInv, SoundInv', NEW r \in Runs, SetRejected(r) \/ SetProcessed(r) \/ SetFailed(r)
    PROVE  OrderInv'
  <1>1. PICK q : q = run[r].request
    OBVIOUS
  <1>2. run[r].pc \in DecideCalls /\ End(r) /\ UNCHANGED <<money, counters, history>>
    BY EndingWrites DEF OrderInv
  <1>3. /\ q \in Requests /\ Exists(q) /\ On(r, q) /\ Orderly(q) /\ SoundInv
        /\ q \notin overlapped => InOrder(r)
        /\ q \notin overlapped /\ q \notin interrupted => Exact(r)
    BY <1>1, <1>2, Alone
  <1>4. PICK s \in {"REJECTED", "PROCESSED", "FAILED"} :
            /\ request' = [request EXCEPT ![q].status = s]
            /\ s = "REJECTED" => run[r].pc \in {"cancelled", "rejected"}
            /\ s = "PROCESSED" => run[r].pc = "processed"
            /\ s = "FAILED" => run[r].pc = "failed"
    BY <1>1 DEF SetRejected, SetProcessed, SetFailed, At
  <1>5. s \in Status
    BY DEF Status
  <1>6. /\ request'[q].status = s /\ request'[q].approved = request[q].approved
        /\ \A p \in Requests \ {q} : request'[p] = request[p]
    BY <1>3, <1>4, <1>5, StatusFacts
  <1>7. /\ run'[r] = Idle
        /\ \A x \in Runs \ {r} : run'[x] = run[x]
    BY <1>2, <1>3, EndKeeps DEF SoundInv
  <1>8. ASSUME q \notin overlapped, q \notin interrupted'
        PROVE  Balanced(q)'
    <2>1. InOrder(r) /\ Exact(r)
      BY <1>2, <1>3, <1>8 DEF history
    <2>2. taken' = taken /\ paid' = paid
      BY <1>2 DEF money
    <2>3. CASE s = "REJECTED"
      <3>1. Balanced(q) /\ request[q].status = "PENDING"
        BY <1>1, <1>4, <2>1, <2>3 DEF InOrder, Exact, DecideCalls, Executing
      <3> QED
        BY <1>6, <2>2, <2>3, <3>1 DEF Balanced
    <2>4. CASE s = "PROCESSED"
      <3>1. taken[q] = run[r].amount /\ paid[q] = run[r].amount
            /\ request[q].approved = run[r].amount
        BY <1>1, <1>4, <2>1, <2>4 DEF InOrder, Exact, Executing
      <3> QED
        BY <1>6, <2>2, <2>4, <3>1 DEF Balanced
    <2>5. CASE s = "FAILED"
      <3>1. taken[q] = 0 /\ paid[q] = 0
        BY <1>1, <1>4, <2>1, <2>5 DEF Exact
      <3> QED
        BY <1>6, <2>2, <2>5, <3>1 DEF Balanced
    <2> QED
      BY <2>3, <2>4, <2>5
  <1>9. Orderly(q)'
    BY <1>2, <1>3, <1>7, <1>8, EndsOrderly DEF history
  <1> QED
    BY <1>1, <1>2, <1>6, <1>7, <1>9, StepStaysOrderly DEF money, history

LEMMA SetApprovedOrderly ==
    ASSUME OrderInv, SoundInv', NEW r \in Runs, SetApproved(r)
    PROVE  OrderInv'
  <1>1. PICK q : q = run[r].request
    OBVIOUS
  <1>2. run[r].pc = "approved" /\ run[r].pc \in DecideCalls
    BY DEF SetApproved, At, DecideCalls
  <1>3. /\ q \in Requests /\ On(r, q) /\ Orderly(q) /\ SoundInv
        /\ q \notin overlapped => InOrder(r)
        /\ q \notin overlapped /\ q \notin interrupted => Exact(r)
    BY <1>1, <1>2, Alone
  <1>4. /\ request'[q].status = "APPROVED" /\ request'[q].approved = run[r].amount
        /\ \A p \in Requests \ {q} : request'[p] = request[p]
        /\ run'[r].pc = "debit" /\ run'[r].request = q /\ run'[r].amount = run[r].amount
        /\ \A s \in Runs \ {r} : run'[s] = run[s]
    BY <1>1, <1>3, ApprovedFacts
  <1>5. UNCHANGED <<money, counters, history>>
    BY DEF SetApproved
  <1>6. InOrder(r)'
    BY <1>4 DEF InOrder
  <1>7. ASSUME q \notin overlapped, q \notin interrupted
        PROVE  Exact(r)'
    <2>1. Balanced(q) /\ request[q].status = "PENDING"
      BY <1>1, <1>2, <1>3, <1>7 DEF Exact, InOrder, DecideCalls, Executing
    <2>2. taken[q] = 0 /\ paid[q] = 0
      BY <2>1 DEF Balanced
    <2> QED
      BY <1>4, <1>5, <2>2 DEF Exact, DecideCalls, Executing, money
  <1>8. run'[r].pc \in DecideCalls
    BY <1>4 DEF DecideCalls, Executing
  <1>9. Orderly(q)'
    BY <1>3, <1>4, <1>5, <1>6, <1>7, <1>8, OnAfter, GoesOnOrderly DEF history
  <1> QED
    BY <1>1, <1>2, <1>4, <1>5, <1>9, StepStaysOrderly DEF money, history

LEMMA MoneyStepsOrderly ==
    ASSUME OrderInv, SoundInv', NEW r \in Runs,
           Debit(r) \/ CreditPrincipal(r) \/ CreateWithdrawal(r)
    PROVE  OrderInv'
  <1>1. PICK q : q = run[r].request
    OBVIOUS
  <1>2. run[r].pc \in DecideCalls /\ run[r].pc \in Executing
        /\ (Debit(r) <=> run[r].pc = "debit")
        /\ (~Debit(r) => run[r].pc \in {"credit", "withdrawal"})
    BY DEF Debit, CreditPrincipal, CreateWithdrawal, At, DecideCalls, Executing
  <1>3. /\ q \in Requests /\ On(r, q) /\ Orderly(q) /\ SoundInv
        /\ q \notin overlapped => InOrder(r)
        /\ q \notin overlapped /\ q \notin interrupted => Exact(r)
    BY <1>1, <1>2, Alone
  <1>4. /\ run[r].amount \in Nat /\ taken[q] \in Nat /\ paid[q] \in Nat
        /\ run'[r].request = q /\ run'[r].amount = run[r].amount
        /\ \A s \in Runs \ {r} : run'[s] = run[s]
        /\ \A p \in Requests \ {q} : taken'[p] = taken[p] /\ paid'[p] = paid[p]
        /\ Debit(r) => taken'[q] = taken[q] + run[r].amount /\ paid'[q] = paid[q]
        /\ ~Debit(r) => taken'[q] = taken[q] /\ paid'[q] = paid[q] + run[r].amount
        /\ UNCHANGED <<request, counters, history>>
    BY <1>1, <1>3, MoneyFacts
  <1>5. PICK pc \in {"debitEntry", "creditEntry", "processed"} :
            run'[r].pc = pc /\ (pc = "debitEntry" <=> Debit(r))
    BY <1>1, <1>3, MoneyFacts
  <1>6. q \notin overlapped => InOrder(r)'
    BY <1>1, <1>2, <1>3, <1>4, <1>5 DEF InOrder, Executing
  <1>7. ASSUME q \notin overlapped, q \notin interrupted
        PROVE  Exact(r)'
    <2>1. Exact(r)
      BY <1>3, <1>7
    <2>2. CASE Debit(r)
      <3>1. taken[q] = 0 /\ paid[q] = 0
        BY <1>1, <1>2, <2>1, <2>2 DEF Exact
      <3>2. taken'[q] = run[r].amount /\ paid'[q] = 0
        BY <1>4, <2>2, <3>1
      <3> QED
        BY <1>4, <1>5, <2>2, <3>2 DEF Exact, DecideCalls, Executing
    <2>3. CASE ~Debit(r)
      <3>1. taken[q] = run[r].amount /\ paid[q] = 0
        BY <1>1, <1>2, <2>1, <2>3 DEF Exact
      <3>2. taken'[q] = run[r].amount /\ paid'[q] = run[r].amount
        BY <1>4, <2>3, <3>1
      <3> QED
        BY <1>4, <1>5, <2>3, <3>2 DEF Exact, DecideCalls, Executing
    <2> QED
      BY <2>2, <2>3
  <1>8. run'[r].pc \in DecideCalls
    BY <1>5 DEF DecideCalls, Executing
  <1>9. Orderly(q)'
    BY <1>3, <1>4, <1>5, <1>6, <1>7, <1>8, OnAfter, GoesOnOrderly DEF history
  <1> QED
    BY <1>1, <1>2, <1>4, <1>9, StepStaysOrderly DEF history

\* The steps that are on no request, or leave the one they are on in balance.
LEMMA RefusedOrderly ==
    ASSUME OrderInv, SoundInv', NEW r \in Runs, Refused(r)
    PROVE  OrderInv'
  <1>1. PICK q : q = run[r].request
    OBVIOUS
  <1>2. /\ run'[r] = Idle
        /\ \A s \in Runs \ {r} : run'[s] = run[s]
    BY EndKeeps DEF Refused, OrderInv, SoundInv
  <1>3. UNCHANGED <<request, money, counters, history>>
    BY DEF Refused
  <1>4. CASE run[r].pc \in DecideCalls
    <2>1. /\ q \in Requests /\ On(r, q) /\ Orderly(q) /\ SoundInv
          /\ q \notin overlapped /\ q \notin interrupted => Exact(r)
      BY <1>1, <1>4, Alone
    <2>2. run[r].pc \in DecideCalls \ Executing
      BY <1>4 DEF Refused, DecideCalls, Executing, At
    <2>3. q \notin overlapped /\ q \notin interrupted' => Balanced(q)'
      BY <1>1, <1>3, <2>1, <2>2 DEF Exact, Balanced, money, history
    <2>4. Orderly(q)'
      BY <1>2, <1>3, <2>1, <2>3, EndsOrderly DEF history
    <2> QED
      BY <1>1, <1>2, <1>3, <1>4, <2>4, StepStaysOrderly DEF money, history
  <1>5. CASE run[r].pc \notin DecideCalls
    <2>1. ASSUME NEW p \in Requests
          PROVE  Orderly(p)'
      <3>1. \A s \in Runs : On(s, p) \/ On(s, p)' => run'[s] = run[s]
        BY <1>2, <1>5, Kinds DEF On, At, Idle, OrderInv, SoundInv
      <3> QED
        BY <1>3, <3>1, UntouchedStaysOrderly DEF OrderInv, money, history
    <2> QED
      BY <2>1 DEF OrderInv
  <1> QED
    BY <1>4, <1>5

\* Creating a request is on none until it is inserted.
LEMMA CreatingOrderly ==
    ASSUME OrderInv, SoundInv', NEW r \in Runs,
           run[r].pc \notin DecideCalls, run'[r].pc \in CreateCalls \cup {"idle"},
           \A s \in Runs \ {r} : run'[s] = run[s],
           \A p \in Requests : request'[p] = request[p] \/
                                   (request[p] = NoRequest /\ request'[p].status = "PENDING"),
           UNCHANGED <<money, overlapped, interrupted>>
    PROVE  OrderInv'
  <1>1. \A p : ~ On(r, p) /\ ~ On(r, p)'
    BY Kinds DEF OrderInv, SoundInv, On, At, InCreate, CreateCalls
  <1>2. ASSUME NEW p \in Requests
        PROVE  Orderly(p)'
    <2>1. \A s \in Runs : On(s, p) \/ On(s, p)' => run'[s] = run[s]
      BY <1>1
    <2>2. CASE request'[p] = request[p]
      BY <2>1, <2>2, UntouchedStaysOrderly DEF OrderInv, money
    <2>3. CASE request[p] = NoRequest /\ request'[p].status = "PENDING"
      <3>1. \A s \in Runs : ~ On(s, p)
        BY <2>3, Kinds, Decides DEF OrderInv, SoundInv, Exists
      <3>2. \A s \in Runs : ~ On(s, p)'
        BY <1>1, <3>1 DEF On, At, InCreate
      <3>3. p \notin overlapped /\ p \notin interrupted => Balanced(p)
        BY <3>1 DEF OrderInv, Orderly, Quiet
      <3>4. p \notin overlapped /\ p \notin interrupted => Balanced(p)'
        BY <2>3, <3>3 DEF Balanced, money, NoRequest
      <3> QED
        BY <3>2, <3>4 DEF Orderly
    <2> QED
      BY <2>2, <2>3
  <1> QED
    BY <1>2 DEF OrderInv

LEMMA CreateStepsOrderly ==
    ASSUME OrderInv, SoundInv', NEW r \in Runs,
           FindPending(r) \/ CheckBalance(r) \/ \E q \in Requests : Insert(r, q)
    PROVE  OrderInv'
  <1>1. run[r].pc \in CreateCalls /\ run[r].pc \notin DecideCalls
    BY DEF FindPending, CheckBalance, Insert, At, CreateCalls, DecideCalls, Executing
  <1>2. CASE FindPending(r) \/ CheckBalance(r)
    <2>1. PICK pc \in CreateCalls : Continue(r, pc)
      BY <1>2 DEF FindPending, CheckBalance, CreateCalls
    <2>2. /\ run'[r].pc = pc
          /\ \A s \in Runs \ {r} : run'[s] = run[s]
      BY <1>1, <2>1, ContinueKeeps DEF OrderInv, SoundInv
    <2>3. UNCHANGED <<request, money, overlapped, interrupted>>
      BY <1>2 DEF FindPending, CheckBalance, history
    <2> QED
      BY <1>1, <2>2, <2>3, CreatingOrderly
  <1>3. ASSUME NEW q \in Requests, Insert(r, q)
        PROVE  OrderInv'
    <2>1. /\ run'[r].pc = "idle"
          /\ \A s \in Runs \ {r} : run'[s] = run[s]
          /\ UNCHANGED <<money, overlapped, interrupted>>
          /\ \A p \in Requests : request'[p] = request[p] \/
                                   (request[p] = NoRequest /\ request'[p].status = "PENDING")
      BY <1>3, InsertFacts DEF OrderInv, Idle, history
    <2> QED
      BY <1>1, <2>1, CreatingOrderly
  <1> QED
    BY <1>2, <1>3

LEMMA CallCreateOrderly ==
    ASSUME OrderInv, SoundInv', NEW r \in Runs, NEW u \in Users, NEW type \in Type,
           NEW amount \in Amounts, CallCreate(r, u, type, amount)
    PROVE  OrderInv'
  <1>1. /\ run[r] = Idle /\ run'[r].pc = "pending"
        /\ \A s \in Runs \ {r} : run'[s] = run[s]
        /\ UNCHANGED <<request, money, overlapped, interrupted>>
    BY CallCreateFacts DEF OrderInv
  <1>2. run[r].pc \notin DecideCalls /\ run'[r].pc \in CreateCalls
    BY <1>1 DEF Idle, DecideCalls, Executing, CreateCalls
  <1> QED
    BY <1>1, <1>2, CreatingOrderly

\* A decision begins: alone on a request in balance, or it overlaps.
LEMMA CallOnOrderly ==
    ASSUME OrderInv, SoundInv', NEW r \in Runs, NEW q \in Requests,
           NEW admin \in Admins \cup {"none"}, NEW amount \in Amounts \cup {0},
           NEW pc \in {"cancel", "approve", "update", "reject"},
           pc = "update" => amount \in Amounts,
           CallOn(r, pc, q, admin, amount)
    PROVE  OrderInv'
  <1>1. /\ run[r] = Idle /\ run'[r].pc = pc /\ run'[r].request = q
        /\ \A s \in Runs \ {r} : run'[s] = run[s]
        /\ overlapped' = IF \E s \in Runs : On(s, q) THEN overlapped \cup {q} ELSE overlapped
        /\ UNCHANGED <<request, money, failures, crowded, interrupted>>
    BY CallOnFacts DEF OrderInv
  <1>2. ASSUME NEW p \in Requests, p # q
        PROVE  Orderly(p)'
    <2>1. \A s \in Runs : On(s, p) \/ On(s, p)' => run'[s] = run[s]
      BY <1>1, <1>2 DEF On, At, Idle
    <2>2. p \in overlapped => p \in overlapped'
      BY <1>1
    <2> QED
      BY <1>1, <1>2, <2>1, <2>2, UntouchedStaysOrderly DEF OrderInv, money
  <1>3. ASSUME q \notin overlapped'
        PROVE  Orderly(q)'
    <2>1. q \notin overlapped /\ Quiet(q) /\ Orderly(q)
      BY <1>1, <1>3 DEF Quiet, OrderInv
    <2>2. \A s \in Runs : On(s, q)' => s = r
      BY <1>1, <2>1 DEF On, At, InCreate, Quiet
    <2>3. On(r, q)'
      BY <1>1 DEF On, At, InCreate
    <2>4. InOrder(r)'
      BY <1>1 DEF InOrder, Executing
    <2>5. q \notin interrupted => Balanced(q)
      BY <2>1 DEF Orderly
    <2>6. q \notin interrupted' => Exact(r)'
      BY <1>1, <2>5 DEF Exact, Balanced, Executing, DecideCalls, money
    <2> QED
      BY <2>2, <2>3, <2>4, <2>6 DEF Orderly, Quiet
  <1>4. Orderly(q)'
    BY <1>3 DEF Orderly
  <1> QED
    BY <1>2, <1>4 DEF OrderInv

LEMMA FailOrderly ==
    ASSUME OrderInv, SoundInv', NEW r \in Runs, Fail(r)
    PROVE  OrderInv'
  <1>1. PICK q : q = run[r].request
    OBVIOUS
  <1>2. /\ run[r].pc # "idle"
        /\ \A s \in Runs \ {r} : run'[s] = run[s]
        /\ \/ run'[r] = Idle /\ run[r].pc \notin Executing \ {"processed", "failed"}
           \/ /\ run[r].pc \in Executing \ {"processed", "failed"}
              /\ run'[r].pc = "failed" /\ run'[r].request = q
              /\ run'[r].amount = run[r].amount
        /\ interrupted \subseteq interrupted'
        /\ run[r].pc \in Executing \ {"debit"} => q \in interrupted'
        /\ UNCHANGED <<request, money, calls, overlapped, crowded>>
    BY <1>1, FailFacts DEF OrderInv
  <1>3. CASE run[r].pc \notin DecideCalls
    <2>1. run[r].pc \notin Executing
      BY <1>3 DEF DecideCalls
    <2>2. run'[r].pc = "idle"
      BY <1>2, <2>1 DEF Idle
    <2>3. interrupted' = interrupted
      BY <2>1 DEF Fail, Midway
    <2> QED
      BY <1>2, <1>3, <2>2, <2>3, CreatingOrderly
  <1>4. CASE run[r].pc \in DecideCalls
    <2>1. /\ q \in Requests /\ On(r, q) /\ Orderly(q) /\ SoundInv
          /\ q \notin overlapped => InOrder(r)
          /\ q \notin overlapped /\ q \notin interrupted => Exact(r)
      BY <1>1, <1>4, Alone
    <2>2. CASE run'[r] = Idle
      <3>1. ASSUME q \notin overlapped, q \notin interrupted'
            PROVE  Balanced(q)'
        <4>1. run[r].pc \in DecideCalls \ Executing
          BY <1>2, <1>4, <2>2, <3>1 DEF Idle, Executing
        <4>2. Balanced(q)
          BY <1>1, <1>2, <2>1, <3>1, <4>1 DEF Exact
        <4> QED
          BY <1>2, <4>2 DEF Balanced, money
      <3>2. Orderly(q)'
        BY <1>2, <2>1, <2>2, <3>1, EndsOrderly
      <3> QED
        BY <1>1, <1>2, <1>4, <2>2, <3>2, StepStaysOrderly DEF money
    <2>3. CASE run[r].pc \in Executing /\ run'[r].pc = "failed" /\ run'[r].request = q
               /\ run'[r].amount = run[r].amount
      <3>1. q \notin overlapped => InOrder(r)'
        BY <1>1, <1>2, <2>1, <2>3 DEF InOrder, Executing
      <3>2. ASSUME q \notin overlapped, q \notin interrupted'
            PROVE  Exact(r)'
        <4>1. run[r].pc = "debit"
          BY <1>2, <2>3, <3>2
        <4>2. taken[q] = 0 /\ paid[q] = 0
          BY <1>1, <1>2, <2>1, <3>2, <4>1 DEF Exact
        <4> QED
          BY <1>2, <2>3, <4>2 DEF Exact, DecideCalls, Executing, money
      <3>3. run'[r].pc \in DecideCalls
        BY <2>3 DEF DecideCalls, Executing
      <3>4. Orderly(q)'
        BY <1>2, <2>1, <2>3, <3>1, <3>2, <3>3, OnAfter, GoesOnOrderly
      <3> QED
        BY <1>1, <1>2, <1>4, <2>3, <3>4, StepStaysOrderly DEF money
    <2> QED
      BY <1>2, <2>2, <2>3
  <1> QED
    BY <1>3, <1>4

LEMMA CrashOrderly ==
    ASSUME OrderInv, SoundInv', Crash
    PROVE  OrderInv'
  <1>1. /\ \A r \in Runs : run'[r] = Idle
        /\ interrupted \subseteq interrupted'
        /\ \A r \in Runs : run[r].pc \in Executing => run[r].request \in interrupted'
        /\ UNCHANGED <<request, money, calls, overlapped, crowded>>
    BY CrashFacts DEF OrderInv
  <1>2. ASSUME NEW q \in Requests, q \notin overlapped
        PROVE  Orderly(q)'
    <2>1. \A r \in Runs : ~ On(r, q)'
      BY <1>1 DEF On, At, Idle
    <2>2. ASSUME q \notin interrupted'
          PROVE  Balanced(q)'
      <3>1. q \notin interrupted /\ Orderly(q) /\ TypeOK
        BY <1>1, <2>2 DEF OrderInv, SoundInv
      <3>2. ASSUME NEW r \in Runs, On(r, q)
            PROVE  Balanced(q)
        <4>1. run[r].pc \in DecideCalls /\ run[r].request = q
          BY <3>1, <3>2, Kinds
        <4>2. run[r].pc \notin Executing
          BY <1>1, <2>2, <4>1
        <4> QED
          BY <1>2, <3>1, <4>1, <4>2, Alone DEF Exact
      <3>3. Balanced(q)
        BY <1>2, <3>1, <3>2 DEF Orderly, Quiet
      <3> QED
        BY <1>1, <3>3 DEF Balanced, money
    <2> QED
      BY <2>1, <2>2 DEF Orderly
  <1>3. \A q \in Requests : Orderly(q)'
    BY <1>1, <1>2 DEF Orderly
  <1> QED
    BY <1>3 DEF OrderInv

LEMMA NextOrderly == OrderInv /\ [Next]_vars => OrderInv'
  <1> SUFFICES ASSUME OrderInv, [Next]_vars
               PROVE  OrderInv'
    OBVIOUS
  <1>1. SoundInv'
    BY NextSound DEF OrderInv
  <1>2. ASSUME NEW r \in Runs, Called(r)
        PROVE  OrderInv'
    BY <1>1, <1>2, CalledIs, CallCreateOrderly, CallOnOrderly
  <1>3. ASSUME NEW r \in Runs, Step(r)
        PROVE  OrderInv'
    BY <1>1, <1>3, CreateStepsOrderly, RefusedOrderly, ReadStepsOrderly, ReadApproveOrderly,
       EndingWritesOrderly, SetApprovedOrderly, MoneyStepsOrderly DEF Step
  <1>4. CASE UNCHANGED vars
    <2>1. ASSUME NEW q \in Requests
          PROVE  Orderly(q)'
      BY <1>4, UntouchedStaysOrderly DEF OrderInv, vars, money, history
    <2> QED
      BY <1>1, <2>1 DEF OrderInv
  <1> QED
    BY <1>1, <1>2, <1>3, <1>4, FailOrderly, CrashOrderly DEF Next

THEOREM OrderAlways == Spec => []OrderInv
  BY InitOrderly, NextOrderly, PTL DEF Spec

\* Unless handlers overlap on a request or its execution is cut short, its
\* status tells where its money is, and it never takes more than was asked.
THEOREM StatusTells == Spec => []StatusTellsMoney
  <1>1. OrderInv => StatusTellsMoney
    <2> SUFFICES ASSUME OrderInv, NEW q \in Requests \ (overlapped \cup interrupted),
                        Exists(q), Quiet(q)
                 PROVE  /\ request[q].status # "APPROVED"
                        /\ taken[q] = (IF request[q].status = "PROCESSED"
                                       THEN request[q].approved ELSE 0)
                        /\ request[q].approved <= request[q].asked
      BY DEF StatusTellsMoney
    <2>1. Balanced(q)
      BY DEF OrderInv, Orderly
    <2>2. SoundRow(q)
      BY DEF OrderInv, SoundInv
    <2> QED
      BY <2>1, <2>2 DEF Balanced, SoundRow
  <1> QED
    BY <1>1, OrderAlways, PTL

(* ---------------------------------------------------------------------- *)
(* Creating requests                                                      *)

Creates(r, u) == InCreate(r) /\ run[r].user = u

\* Of a user whose calls of createRequest never overlapped.
Uncrowded(u) ==
    u \notin crowded =>
        /\ \A p, q \in Pending(u) : p = q
        /\ \A r, s \in Runs : Creates(r, u) /\ Creates(s, u) => r = s
        /\ \A r \in Runs :
               Creates(r, u) /\ run[r].pc \in {"balance", "insert"} => Pending(u) = {}

CrowdInv == SoundInv /\ \A u \in Users : Uncrowded(u)

LEMMA InitUncrowded == Init => CrowdInv
  BY InitSound DEF Init, CrowdInv, Uncrowded, Creates, InCreate, Pending, NoRequest, Idle

\* A step that gives the user no pending request and no further call.
LEMMA StaysUncrowded ==
    ASSUME NEW u \in Users, Uncrowded(u), u \in crowded => u \in crowded',
           Pending(u)' \subseteq Pending(u),
           \A s \in Runs : Creates(s, u)' =>
               /\ Creates(s, u)
               /\ run'[s].pc \in {"balance", "insert"} => run[s].pc \in {"balance", "insert"}
    PROVE  Uncrowded(u)'
  <1> SUFFICES ASSUME u \notin crowded'
               PROVE  Uncrowded(u)'
    BY DEF Uncrowded
  <1>1. \A p, q \in Pending(u)' : p = q
    BY DEF Uncrowded
  <1>2. \A r, s \in Runs : Creates(r, u)' /\ Creates(s, u)' => r = s
    BY DEF Uncrowded
  <1>3. \A r \in Runs : Creates(r, u)' /\ run'[r].pc \in {"balance", "insert"} => Pending(u)' = {}
    BY DEF Uncrowded
  <1> QED
    BY <1>1, <1>2, <1>3 DEF Uncrowded

\* A step of one handler that is not of createRequest, or ends there.
LEMMA NotCreating ==
    ASSUME CrowdInv, SoundInv', NEW r \in Runs, run'[r].pc \notin CreateCalls,
           \A s \in Runs \ {r} : run'[s] = run[s],
           crowded' = crowded,
           \A q \in Requests : request'[q].status = "PENDING" =>
               request[q].status = "PENDING" /\ request'[q].user = request[q].user
    PROVE  CrowdInv'
  <1>1. ASSUME NEW u \in Users
        PROVE  Uncrowded(u)'
    <2>1. Pending(u)' \subseteq Pending(u)
      BY DEF Pending
    <2>2. \A s \in Runs : Creates(s, u)' => s # r /\ run'[s] = run[s]
      BY DEF Creates, InCreate, CreateCalls
    <2>3. \A s \in Runs : Creates(s, u)' => Creates(s, u)
      BY <2>2 DEF Creates, InCreate
    <2> QED
      BY <2>1, <2>2, <2>3, StaysUncrowded DEF CrowdInv
  <1> QED
    BY <1>1 DEF CrowdInv

LEMMA DecideCallsApart == \A pc \in DecideCalls \cup {"idle"} : pc \notin CreateCalls
  BY DEF DecideCalls, Executing, CreateCalls

LEMMA DecisionsUncrowded ==
    ASSUME CrowdInv, SoundInv', NEW r \in Runs,
           \/ ReadCancel(r) \/ ReadReject(r) \/ ReadUpdate(r) \/ UpdateBalance(r)
           \/ DebitRefused(r) \/ DebitEntry(r) \/ CreditEntry(r)
    PROVE  CrowdInv'
  <1>1. PICK pc \in DecideCalls : Continue(r, pc) /\ run[r].pc \in DecideCalls
    <2>1. CASE DebitEntry(r)
      <3>1. PICK pc \in {"withdrawal", "credit"} : Continue(r, pc)
        BY <2>1 DEF DebitEntry
      <3> QED
        BY <2>1, <3>1 DEF DebitEntry, DecideCalls, Executing, At
    <2>2. CASE ReadCancel(r) \/ ReadReject(r) \/ ReadUpdate(r) \/ UpdateBalance(r)
      BY <2>2 DEF ReadCancel, ReadReject, ReadUpdate, UpdateBalance, DecideCalls, At
    <2>3. CASE DebitRefused(r) \/ CreditEntry(r)
      BY <2>3 DEF DebitRefused, CreditEntry, DecideCalls, Executing, At
    <2> QED
      BY <2>1, <2>2, <2>3
  <1>2. run'[r].pc = pc /\ \A s \in Runs \ {r} : run'[s] = run[s]
    BY <1>1, DecisionGoesOn DEF CrowdInv
  <1>3. crowded' = crowded /\ request' = request
    BY DEF ReadCancel, ReadReject, ReadUpdate, UpdateBalance, DebitRefused, DebitEntry,
           CreditEntry, history
  <1> QED
    BY <1>2, <1>3, DecideCallsApart, NotCreating

LEMMA ReadApproveUncrowded ==
    ASSUME CrowdInv, SoundInv', NEW r \in Runs, ReadApprove(r)
    PROVE  CrowdInv'
  <1>1. run[r] \in Deciding
    BY Decides DEF ReadApprove, At, DecideCalls, CrowdInv
  <1>2. PICK x : x = [run[r] EXCEPT !.pc = "approved", !.amount = RowOf(r).asked]
    OBVIOUS
  <1>3. x.pc = "approved"
    BY <1>1, <1>2 DEF Deciding
  <1>4. run'[r] = x /\ \A s \in Runs \ {r} : run'[s] = run[s]
    BY <1>2 DEF ReadApprove, CrowdInv, SoundInv, TypeOK
  <1>5. crowded' = crowded /\ request' = request
    BY DEF ReadApprove, history
  <1>6. run'[r].pc \notin CreateCalls
    BY <1>3, <1>4 DEF CreateCalls
  <1> QED
    BY <1>4, <1>5, <1>6, NotCreating

LEMMA WritesUncrowded ==
    ASSUME CrowdInv, SoundInv', NEW r \in Runs,
           SetRejected(r) \/ SetProcessed(r) \/ SetFailed(r) \/ SetApproved(r)
    PROVE  CrowdInv'
  <1>1. PICK q : q = run[r].request
    OBVIOUS
  <1>2. /\ run'[r].pc \in DecideCalls \cup {"idle"}
        /\ \A s \in Runs \ {r} : run'[s] = run[s]
        /\ request'[q].status # "PENDING"
        /\ \A p \in Requests \ {q} : request'[p] = request[p]
        /\ crowded' = crowded
    <2>1. CASE SetApproved(r)
      <3>1. crowded' = crowded /\ "debit" \in DecideCalls
        BY <2>1 DEF SetApproved, history, DecideCalls, Executing
      <3> QED
        BY <1>1, <2>1, <3>1, ApprovedFacts DEF CrowdInv
    <2>2. CASE SetRejected(r) \/ SetProcessed(r) \/ SetFailed(r)
      <3>1. PICK s \in {"REJECTED", "PROCESSED", "FAILED"} :
                request' = [request EXCEPT ![q].status = s]
        BY <1>1, <2>2, EndingWrites DEF CrowdInv
      <3>2. s \in Status /\ s # "PENDING"
        BY DEF Status
      <3>3. q \in Requests /\ Exists(q)
        BY <1>1, <2>2, EndingWrites, Decides DEF CrowdInv
      <3>4. request'[q].status = s /\ \A p \in Requests \ {q} : request'[p] = request[p]
        BY <3>1, <3>2, <3>3, StatusFacts DEF CrowdInv
      <3>5. run'[r] = Idle /\ \A x \in Runs \ {r} : run'[x] = run[x]
        BY <2>2, EndingWrites, EndKeeps DEF CrowdInv, SoundInv
      <3>6. crowded' = crowded
        BY <2>2, EndingWrites DEF CrowdInv, history
      <3> QED
        BY <3>2, <3>4, <3>5, <3>6 DEF Idle
    <2> QED
      BY <2>1, <2>2
  <1>3. \A p \in Requests : request'[p].status = "PENDING" =>
            request[p].status = "PENDING" /\ request'[p].user = request[p].user
    BY <1>2
  <1> QED
    BY <1>2, <1>3, DecideCallsApart, NotCreating

LEMMA MoneyUncrowded ==
    ASSUME CrowdInv, SoundInv', NEW r \in Runs,
           Debit(r) \/ CreditPrincipal(r) \/ CreateWithdrawal(r)
    PROVE  CrowdInv'
  <1>1. PICK q : q = run[r].request
    OBVIOUS
  <1>2. /\ run'[r].pc \in {"debitEntry", "creditEntry", "processed"}
        /\ \A s \in Runs \ {r} : run'[s] = run[s]
        /\ UNCHANGED <<request, counters, history>>
    BY <1>1, MoneyFacts DEF CrowdInv
  <1>3. run'[r].pc \notin CreateCalls
    BY <1>2 DEF CreateCalls
  <1> QED
    BY <1>2, <1>3, NotCreating DEF history

LEMMA CallOnUncrowded ==
    ASSUME CrowdInv, SoundInv', NEW r \in Runs, NEW q \in Requests,
           NEW admin \in Admins \cup {"none"}, NEW amount \in Amounts \cup {0},
           NEW pc \in {"cancel", "approve", "update", "reject"},
           pc = "update" => amount \in Amounts,
           CallOn(r, pc, q, admin, amount)
    PROVE  CrowdInv'
  <1>1. /\ run'[r].pc = pc
        /\ \A s \in Runs \ {r} : run'[s] = run[s]
        /\ request' = request /\ crowded' = crowded
    BY CallOnFacts DEF CrowdInv
  <1>2. run'[r].pc \notin CreateCalls
    BY <1>1 DEF CreateCalls
  <1> QED
    BY <1>1, <1>2, NotCreating

LEMMA EndsUncrowded ==
    ASSUME CrowdInv, SoundInv', NEW r \in Runs, Fail(r) \/ Refused(r)
    PROVE  CrowdInv'
  <1>1. /\ run'[r].pc \in {"idle", "failed"}
        /\ \A s \in Runs \ {r} : run'[s] = run[s]
        /\ request' = request /\ crowded' = crowded
    <2>1. CASE Fail(r)
      BY <2>1, FailFacts DEF CrowdInv, Idle
    <2>2. CASE Refused(r)
      BY <2>2, EndKeeps DEF Refused, CrowdInv, SoundInv, Idle, history
    <2> QED
      BY <2>1, <2>2
  <1>2. run'[r].pc \notin CreateCalls
    BY <1>1 DEF CreateCalls
  <1> QED
    BY <1>1, <1>2, NotCreating

LEMMA CrashUncrowded ==
    ASSUME CrowdInv, SoundInv', Crash
    PROVE  CrowdInv'
  <1>1. (\A r \in Runs : run'[r] = Idle) /\ request' = request /\ crowded' = crowded
    BY CrashFacts DEF CrowdInv
  <1>2. ASSUME NEW u \in Users
        PROVE  Uncrowded(u)'
    <2>1. \A s \in Runs : ~ Creates(s, u)'
      BY <1>1 DEF Creates, InCreate, Idle
    <2>2. Pending(u)' \subseteq Pending(u)
      BY <1>1 DEF Pending
    <2> QED
      BY <1>1, <2>1, <2>2, StaysUncrowded DEF CrowdInv
  <1> QED
    BY <1>2 DEF CrowdInv

\* A call of createRequest goes on to its next query.
LEMMA CreateStepsUncrowded ==
    ASSUME CrowdInv, SoundInv', NEW r \in Runs, FindPending(r) \/ CheckBalance(r)
    PROVE  CrowdInv'
  <1>1. PICK pc \in {"balance", "insert"} :
            /\ Continue(r, pc)
            /\ \/ run[r].pc = "pending" /\ Pending(run[r].user) = {}
               \/ run[r].pc = "balance"
    BY DEF FindPending, CheckBalance, At
  <1>2. run[r].pc \in CreateCalls /\ pc \in CreateCalls
    BY <1>1 DEF CreateCalls
  <1>3. /\ run'[r].pc = pc /\ run'[r].user = run[r].user
        /\ \A s \in Runs \ {r} : run'[s] = run[s]
    BY <1>1, <1>2, ContinueKeeps DEF CrowdInv, SoundInv
  <1>4. request' = request /\ crowded' = crowded
    BY DEF FindPending, CheckBalance, history
  <1>5. ASSUME NEW u \in Users, u \notin crowded
        PROVE  Uncrowded(u)'
    <2>1. Pending(u)' = Pending(u)
      BY <1>4 DEF Pending
    <2>2. \A s \in Runs : Creates(s, u)' => Creates(s, u)
      BY <1>2, <1>3 DEF Creates, InCreate, CreateCalls
    <2>3. Creates(r, u) => Pending(u) = {}
      <3>1. CASE run[r].pc = "balance"
        BY <1>5, <3>1 DEF CrowdInv, Uncrowded
      <3>2. CASE Pending(run[r].user) = {}
        BY <3>2 DEF Creates
      <3> QED
        BY <1>1, <3>1, <3>2
    <2>4. \A s \in Runs : Creates(s, u)' /\ run'[s].pc \in {"balance", "insert"} => Pending(u) = {}
      BY <1>3, <1>5, <2>2, <2>3 DEF CrowdInv, Uncrowded
    <2>5. \A p, q \in Pending(u)' : p = q
      BY <1>5, <2>1 DEF CrowdInv, Uncrowded
    <2>6. \A s, x \in Runs : Creates(s, u)' /\ Creates(x, u)' => s = x
      BY <1>5, <2>2 DEF CrowdInv, Uncrowded
    <2> QED
      BY <2>1, <2>4, <2>5, <2>6 DEF Uncrowded
  <1>6. \A u \in Users : Uncrowded(u)'
    BY <1>4, <1>5 DEF Uncrowded
  <1> QED
    BY <1>6 DEF CrowdInv

LEMMA InsertUncrowded ==
    ASSUME CrowdInv, SoundInv', NEW r \in Runs, NEW q \in Requests, Insert(r, q)
    PROVE  CrowdInv'
  <1>1. /\ run[r].pc = "insert" /\ run'[r] = Idle
        /\ request'[q].user = run[r].user
        /\ \A p \in Requests \ {q} : request'[p] = request[p]
        /\ \A s \in Runs \ {r} : run'[s] = run[s]
        /\ UNCHANGED <<money, counters, history>>
    BY InsertFacts DEF CrowdInv
  <1>2. ASSUME NEW u \in Users, u \notin crowded
        PROVE  Uncrowded(u)'
    <2>1. \A s \in Runs : Creates(s, u)' => s # r /\ Creates(s, u) /\ run'[s] = run[s]
      BY <1>1 DEF Creates, InCreate, Idle
    <2>2. CASE run[r].user = u
      <3>1. Creates(r, u)
        BY <1>1, <2>2 DEF Creates, InCreate
      <3>2. Pending(u) = {} /\ \A s \in Runs : Creates(s, u) => s = r
        BY <1>1, <1>2, <3>1 DEF CrowdInv, Uncrowded
      <3>3. Pending(u)' \subseteq {q}
        BY <1>1, <3>2 DEF Pending
      <3>4. \A s \in Runs : ~ Creates(s, u)'
        BY <2>1, <3>2
      <3> QED
        BY <3>3, <3>4 DEF Uncrowded
    <2>3. CASE run[r].user # u
      <3>1. Pending(u)' \subseteq Pending(u)
        BY <1>1, <2>3 DEF Pending
      <3> QED
        BY <1>1, <2>1, <3>1, StaysUncrowded DEF CrowdInv, history
    <2> QED
      BY <2>2, <2>3
  <1>3. \A u \in Users : Uncrowded(u)'
    BY <1>1, <1>2 DEF Uncrowded, history
  <1> QED
    BY <1>3 DEF CrowdInv

LEMMA CallCreateUncrowded ==
    ASSUME CrowdInv, SoundInv', NEW r \in Runs, NEW u \in Users, NEW type \in Type,
           NEW amount \in Amounts, CallCreate(r, u, type, amount)
    PROVE  CrowdInv'
  <1>1. /\ run'[r].pc = "pending" /\ run'[r].user = u
        /\ \A s \in Runs \ {r} : run'[s] = run[s]
        /\ crowded' = IF \E s \in Runs : Creates(s, u) THEN crowded \cup {u} ELSE crowded
        /\ request' = request
    BY CallCreateFacts DEF CrowdInv, Creates
  <1>2. ASSUME NEW v \in Users, v \notin crowded'
        PROVE  Uncrowded(v)'
    <2>1. Pending(v)' = Pending(v) /\ v \notin crowded
      BY <1>1, <1>2 DEF Pending
    <2>2. \A s \in Runs \ {r} : Creates(s, v)' => Creates(s, v) /\ run'[s] = run[s]
      BY <1>1 DEF Creates, InCreate
    <2>3. CASE v = u
      <3>1. \A s \in Runs : ~ Creates(s, v)
        BY <1>1, <1>2, <2>3
      <3>2. \A s \in Runs : Creates(s, v)' => s = r
        BY <2>2, <3>1
      <3> QED
        BY <1>1, <2>1, <3>2 DEF Uncrowded, CrowdInv
    <2>4. CASE v # u
      <3>1. ~ Creates(r, v)'
        BY <1>1, <2>4 DEF Creates
      <3>2. \A s \in Runs : Creates(s, v)' => Creates(s, v) /\ run'[s] = run[s]
        BY <2>2, <3>1
      <3> QED
        BY <2>1, <3>2, StaysUncrowded DEF CrowdInv
    <2> QED
      BY <2>3, <2>4
  <1>3. \A v \in Users : Uncrowded(v)'
    BY <1>2 DEF Uncrowded
  <1> QED
    BY <1>3 DEF CrowdInv

LEMMA NextUncrowded == CrowdInv /\ [Next]_vars => CrowdInv'
  <1> SUFFICES ASSUME CrowdInv, [Next]_vars
               PROVE  CrowdInv'
    OBVIOUS
  <1>1. SoundInv'
    BY NextSound DEF CrowdInv
  <1>2. ASSUME NEW r \in Runs, Called(r)
        PROVE  CrowdInv'
    BY <1>1, <1>2, CalledIs, CallCreateUncrowded, CallOnUncrowded
  <1>3. ASSUME NEW r \in Runs, Step(r)
        PROVE  CrowdInv'
    BY <1>1, <1>3, CreateStepsUncrowded, InsertUncrowded, EndsUncrowded, DecisionsUncrowded,
       ReadApproveUncrowded, WritesUncrowded, MoneyUncrowded DEF Step
  <1>4. CASE UNCHANGED vars
    <2>1. ASSUME NEW u \in Users
          PROVE  Uncrowded(u)'
      <3>1. request' = request /\ run' = run /\ crowded' = crowded
        BY <1>4 DEF vars, history
      <3>2. Pending(u)' \subseteq Pending(u) /\ \A s \in Runs : Creates(s, u)' => Creates(s, u)
        BY <3>1 DEF Pending, Creates, InCreate
      <3> QED
        BY <3>1, <3>2, StaysUncrowded DEF CrowdInv
    <2> QED
      BY <1>1, <2>1 DEF CrowdInv
  <1> QED
    BY <1>1, <1>2, <1>3, <1>4, EndsUncrowded, CrashUncrowded DEF Next

\* A user has two pending requests only if two calls of createRequest of theirs
\* overlapped, however many users, requests and handlers there are.
THEOREM OnePending == Spec => []OnePendingPerUser
  <1>1. CrowdInv => OnePendingPerUser
    <2> SUFFICES ASSUME CrowdInv, NEW u \in Users \ crowded
                 PROVE  Cardinality(Pending(u)) <= 1
      BY DEF OnePendingPerUser
    <2>1. \A p, q \in Pending(u) : p = q
      BY DEF CrowdInv, Uncrowded
    <2>2. CASE Pending(u) = {}
      <3>1. Cardinality(Pending(u)) = 0
        BY <2>2, FS_EmptySet
      <3> QED
        BY <3>1
    <2>3. CASE Pending(u) # {}
      <3>1. PICK q : Pending(u) = {q}
        BY <2>1, <2>3
      <3>2. Cardinality(Pending(u)) = 1
        BY <3>1, FS_Singleton
      <3> QED
        BY <3>2
    <2> QED
      BY <2>2, <2>3
  <1> QED
    BY <1>1, InitUncrowded, NextUncrowded, PTL DEF Spec

(* ---------------------------------------------------------------------- *)
(* What was taken has been paid, or a handler is about to pay it          *)

\* What a total that can be counted becomes when one of its terms changes.
LEMMA TotalChanges ==
    ASSUME NEW S, NEW f \in [S -> Nat], NEW g \in [S -> Nat], NEW x \in S,
           \A y \in S \ {x} : g[y] = f[y], IsFiniteSet(Units(f))
    PROVE  /\ IsFiniteSet(Units(g))
           /\ Total(g) = Total(f) - f[x] + g[x]
           /\ Total(f) \in Nat /\ f[x] <= Total(f)
  <1> DEFINE Column(k) == {x} \X (1..k)
             Rest == Units(f) \ Column(f[x])
  <1>1. \A k \in Nat : IsFiniteSet(Column(k)) /\ Cardinality(Column(k)) = k
    <2> TAKE k \in Nat
    <2>1. IsFiniteSet(1..k) /\ Cardinality(1..k) = k
      <3>1. 1 \in Int /\ k \in Int /\ (IF 1 > k THEN 0 ELSE k - 1 + 1) = k
        OBVIOUS
      <3> QED
        BY <3>1, FS_Interval, Zenon
    <2>2. IsFiniteSet({x}) /\ Cardinality({x}) = 1
      BY FS_Singleton, Zenon
    <2>3. IsFiniteSet(Column(k)) /\ Cardinality(Column(k)) = Cardinality({x}) * Cardinality(1..k)
      BY <2>1, <2>2, FS_Product
    <2> QED
      BY <2>1, <2>2, <2>3
  <1>2. Units(f) \cap Column(f[x]) = Column(f[x])
    BY DEF Units
  <1>3. Units(g) = Rest \cup Column(g[x]) /\ Rest \cap Column(g[x]) = {}
    BY DEF Units
  <1> HIDE DEF Column
  <1>4. IsFiniteSet(Rest) /\ Cardinality(Rest) = Cardinality(Units(f)) - Cardinality(Column(f[x]))
    BY <1>2, FS_Difference
  <1> HIDE DEF Rest
  <1>5. /\ IsFiniteSet(Units(g))
        /\ Cardinality(Units(g)) = Cardinality(Rest) + Cardinality(Column(g[x])) - Cardinality({})
    <2>1. IsFiniteSet(Column(g[x]))
      BY <1>1
    <2> QED
      BY <1>3, <1>4, <2>1, FS_Union
  <1>6. Cardinality(Units(f)) \in Nat /\ Cardinality(Rest) \in Nat /\ Cardinality({}) = 0
    BY <1>4, FS_CardinalityType, FS_EmptySet
  <1>7. Cardinality(Column(f[x])) = f[x] /\ Cardinality(Column(g[x])) = g[x]
    BY <1>1
  <1> QED
    BY <1>4, <1>5, <1>6, <1>7 DEF Total

\* A total whose terms only shrink does not grow.
LEMMA TotalShrinks ==
    ASSUME NEW S, NEW f \in [S -> Nat], NEW g \in [S -> Nat],
           \A x \in S : g[x] <= f[x], IsFiniteSet(Units(f))
    PROVE  IsFiniteSet(Units(g)) /\ Total(g) <= Total(f) /\ Total(g) \in Nat /\ Total(f) \in Nat
  <1>1. Units(g) \subseteq Units(f)
    BY DEF Units
  <1> QED
    BY <1>1, FS_Subset, FS_CardinalityType DEF Total

\* The total of nothing.
LEMMA TotalOfNothing ==
    ASSUME NEW S PROVE IsFiniteSet(Units([x \in S |-> 0])) /\ Total([x \in S |-> 0]) = 0
  <1>1. Units([x \in S |-> 0]) = {}
    BY DEF Units
  <1> QED
    BY <1>1, FS_EmptySet DEF Total

\* What a handler x has taken for request q and is about to pay.
HeldCalls == {"debitEntry", "credit", "withdrawal"}
HeldOf(x, q) == IF x.pc \in HeldCalls /\ x.request = q THEN x.amount ELSE 0
HeldFor(q) == [r \in Runs |-> HeldOf(run[r], q)]
HeldTyped == \A q \in Requests : HeldFor(q) \in [Runs -> Nat]

Matched(q) ==
    /\ IsFiniteSet(Units(HeldFor(q)))
    /\ paid[q] + Total(HeldFor(q)) <= taken[q]
    /\ q \notin interrupted => paid[q] + Total(HeldFor(q)) = taken[q]

PayInv == SoundInv /\ \A q \in Requests : Matched(q)

LEMMA SoundHeld == SoundInv => HeldTyped
  <1> SUFFICES ASSUME SoundInv, NEW q \in Requests, NEW r \in Runs
               PROVE  HeldOf(run[r], q) \in Nat
    BY DEF HeldTyped, HeldFor
  <1>1. CASE run[r].pc \in HeldCalls
    <2>1. run[r].amount \in Nat
      BY <1>1, Decides DEF HeldCalls, DecideCalls, Executing
    <2> QED
      BY <2>1 DEF HeldOf
  <1>2. CASE run[r].pc \notin HeldCalls
    BY <1>2 DEF HeldOf
  <1> QED
    BY <1>1, <1>2

LEMMA SoundHeldNext == SoundInv' => HeldTyped'
  BY SoundHeld, PTL

LEMMA InitPay == Init => PayInv
  <1> SUFFICES ASSUME Init, NEW q \in Requests
               PROVE  Matched(q)
    BY InitSound DEF PayInv
  <1>1. HeldFor(q) = [r \in Runs |-> 0]
    BY DEF Init, HeldFor, HeldOf, HeldCalls, Idle
  <1>2. IsFiniteSet(Units(HeldFor(q))) /\ Total(HeldFor(q)) = 0
    BY <1>1, TotalOfNothing
  <1> QED
    BY <1>2 DEF Matched, Init

\* A step of handler r alone moves as much as it then no longer holds, or cuts
\* the execution short.
LEMMA StepStaysMatched ==
    ASSUME PayInv, SoundInv', NEW r \in Runs, NEW q \in Requests,
           \A s \in Runs \ {r} : run'[s] = run[s],
           interrupted \subseteq interrupted',
           \/ paid'[q] + HeldOf(run'[r], q) + taken[q] = paid[q] + HeldOf(run[r], q) + taken'[q]
           \/ /\ q \in interrupted'
              /\ paid'[q] = paid[q] /\ taken'[q] = taken[q]
              /\ HeldOf(run'[r], q) <= HeldOf(run[r], q)
    PROVE  Matched(q)'
  <1> DEFINE held == HeldFor(q)
             next == [s \in Runs |-> HeldOf(run'[s], q)]
  <1>1. held \in [Runs -> Nat] /\ HeldFor(q)' \in [Runs -> Nat]
    BY SoundHeld, SoundHeldNext DEF PayInv, HeldTyped
  <1>2. HeldFor(q)' = next
    BY DEF HeldFor
  <1>3. next \in [Runs -> Nat] /\ next[r] = HeldOf(run'[r], q) /\ held[r] = HeldOf(run[r], q)
    BY <1>1, <1>2 DEF HeldFor
  <1>4. \A s \in Runs \ {r} : next[s] = held[s]
    BY DEF HeldFor
  <1>5. IsFiniteSet(Units(held))
    BY DEF PayInv, Matched
  <1> HIDE DEF next, held
  <1>6. /\ IsFiniteSet(Units(next))
        /\ Total(next) = Total(held) - held[r] + next[r]
        /\ Total(held) \in Nat /\ held[r] <= Total(held)
    BY <1>1, <1>3, <1>4, <1>5, TotalChanges
  <1>7. /\ paid[q] \in Nat /\ taken[q] \in Nat /\ paid'[q] \in Nat /\ taken'[q] \in Nat
        /\ held[r] \in Nat /\ next[r] \in Nat
    BY <1>1, <1>3 DEF PayInv, SoundInv, TypeOK
  <1>8. /\ paid[q] + Total(held) <= taken[q]
        /\ q \notin interrupted => paid[q] + Total(held) = taken[q]
    BY DEF PayInv, Matched, held
  <1>9. /\ paid'[q] + Total(next) <= taken'[q]
        /\ q \notin interrupted' => paid'[q] + Total(next) = taken'[q]
    BY <1>3, <1>6, <1>7, <1>8
  <1>10. IsFiniteSet(Units(HeldFor(q)')) /\ Total(HeldFor(q)') = Total(next)
    BY <1>2, <1>6
  <1> QED
    BY <1>9, <1>10 DEF Matched, Total, Units

\* A step that moves no money and after which r holds what it held.
LEMMA MovesNothing ==
    ASSUME PayInv, SoundInv', NEW r \in Runs,
           \A s \in Runs \ {r} : run'[s] = run[s],
           \A q \in Requests : \/ HeldOf(run'[r], q) = HeldOf(run[r], q)
                               \/ /\ q \in interrupted'
                                  /\ HeldOf(run'[r], q) <= HeldOf(run[r], q),
           interrupted \subseteq interrupted',
           UNCHANGED money
    PROVE  PayInv'
  <1> SUFFICES ASSUME NEW q \in Requests
               PROVE  Matched(q)'
    BY DEF PayInv
  <1>1. paid' = paid /\ taken' = taken
    BY DEF money
  <1>2. paid[q] \in Nat /\ taken[q] \in Nat /\ HeldOf(run[r], q) \in Nat
    BY SoundHeld DEF PayInv, SoundInv, TypeOK, HeldTyped, HeldFor
  <1> QED
    BY <1>1, <1>2, StepStaysMatched

\* A handler holds nothing for any request unless it is about to pay.
LEMMA HoldsNothing ==
    ASSUME NEW x, x.pc \notin HeldCalls, NEW q
    PROVE  HeldOf(x, q) = 0
  BY DEF HeldOf

LEMMA IdleHoldsNothing == \A q : HeldOf(Idle, q) = 0
  BY DEF HeldOf, HeldCalls, Idle

LEMMA CalledPay ==
    ASSUME PayInv, SoundInv', NEW r \in Runs, Called(r)
    PROVE  PayInv'
  <1>1. SoundInv
    BY DEF PayInv
  <1>2. ASSUME NEW u \in Users, NEW type \in Type, NEW amount \in Amounts,
               CallCreate(r, u, type, amount)
        PROVE  PayInv'
    <2>1. /\ run[r] = Idle /\ run'[r].pc \notin HeldCalls
          /\ \A s \in Runs \ {r} : run'[s] = run[s]
          /\ UNCHANGED <<money, interrupted>>
      BY <1>1, <1>2, CallCreateFacts DEF HeldCalls
    <2> QED
      BY <2>1, HoldsNothing, IdleHoldsNothing, MovesNothing
  <1>3. ASSUME NEW q \in Requests, NEW admin \in Admins \cup {"none"},
               NEW amount \in Amounts \cup {0}, NEW pc \in {"cancel", "approve", "update", "reject"},
               pc = "update" => amount \in Amounts,
               CallOn(r, pc, q, admin, amount)
        PROVE  PayInv'
    <2>1. /\ run[r] = Idle /\ run'[r].pc = pc
          /\ \A s \in Runs \ {r} : run'[s] = run[s]
          /\ UNCHANGED <<money, interrupted>>
      BY <1>1, <1>3, CallOnFacts
    <2>2. run'[r].pc \notin HeldCalls
      BY <2>1 DEF HeldCalls
    <2> QED
      BY <2>1, <2>2, HoldsNothing, IdleHoldsNothing, MovesNothing
  <1> QED
    BY <1>2, <1>3, CalledIs

\* The steps that neither take nor pay.
LEMMA QuietPay ==
    ASSUME PayInv, SoundInv', NEW r \in Runs,
           \/ FindPending(r) \/ CheckBalance(r) \/ Refused(r)
           \/ \E q \in Requests : Insert(r, q)
           \/ ReadCancel(r) \/ ReadReject(r) \/ ReadUpdate(r) \/ UpdateBalance(r)
           \/ ReadApprove(r) \/ SetApproved(r) \/ DebitRefused(r) \/ CreditEntry(r)
           \/ SetRejected(r) \/ SetProcessed(r) \/ SetFailed(r)
    PROVE  PayInv'
  <1>1. SoundInv /\ run \in [Runs -> Creating \cup Deciding \cup {Idle}]
    BY DEF PayInv, SoundInv, TypeOK
  <1>2. run[r].pc \notin HeldCalls /\ UNCHANGED <<money, interrupted>>
    BY DEF FindPending, CheckBalance, Refused, Insert, ReadCancel, ReadReject, ReadUpdate,
           UpdateBalance, ReadApprove, SetApproved, DebitRefused, CreditEntry, SetRejected,
           SetProcessed, SetFailed, At, HeldCalls, history
  <1>3. /\ \A s \in Runs \ {r} : run'[s] = run[s]
        /\ run'[r].pc \notin HeldCalls
    <2>1. CASE FindPending(r) \/ CheckBalance(r)
      <3>1. PICK pc \in {"balance", "insert"} : Continue(r, pc) /\ run[r].pc \in CreateCalls
        BY <2>1 DEF FindPending, CheckBalance, CreateCalls, At
      <3> QED
        BY <1>1, <3>1, ContinueKeeps DEF CreateCalls, HeldCalls, SoundInv
    <2>2. CASE ReadCancel(r) \/ ReadReject(r) \/ ReadUpdate(r) \/ UpdateBalance(r)
               \/ DebitRefused(r) \/ CreditEntry(r)
      <3>1. PICK pc \in {"cancelled", "rejected", "updateBalance", "approved", "failed",
                         "processed"} : Continue(r, pc) /\ run[r].pc \in DecideCalls
        BY <2>2 DEF ReadCancel, ReadReject, ReadUpdate, UpdateBalance, DebitRefused, CreditEntry,
                    DecideCalls, Executing, At
      <3>2. pc \in DecideCalls /\ pc \notin HeldCalls
        BY DEF DecideCalls, Executing, HeldCalls
      <3> QED
        BY <1>1, <3>1, <3>2, DecisionGoesOn
    <2>3. CASE ReadApprove(r)
      <3>1. PICK x : x = [run[r] EXCEPT !.pc = "approved", !.amount = RowOf(r).asked]
        OBVIOUS
      <3>2. run[r] \in Deciding
        BY <1>1, <2>3, Kinds DEF ReadApprove, At, DecideCalls, SoundInv
      <3>3. x.pc = "approved"
        BY <3>1, <3>2 DEF Deciding
      <3>4. run' = [run EXCEPT ![r] = x]
        BY <2>3, <3>1 DEF ReadApprove
      <3> QED
        BY <1>1, <3>3, <3>4 DEF HeldCalls
    <2>4. CASE SetApproved(r)
      BY <1>1, <2>4, ApprovedFacts DEF HeldCalls
    <2>5. CASE Refused(r) \/ SetRejected(r) \/ SetProcessed(r) \/ SetFailed(r)
               \/ \E q \in Requests : Insert(r, q)
      <3>1. End(r)
        BY <2>5 DEF Refused, SetRejected, SetProcessed, SetFailed, Insert
      <3> QED
        BY <1>1, <3>1, EndKeeps DEF SoundInv, Idle, HeldCalls
    <2> QED
      BY <2>1, <2>2, <2>3, <2>4, <2>5
  <1> QED
    BY <1>2, <1>3, HoldsNothing, MovesNothing

LEMMA DebitEntryPay ==
    ASSUME PayInv, SoundInv', NEW r \in Runs, DebitEntry(r)
    PROVE  PayInv'
  <1>1. SoundInv
    BY DEF PayInv
  <1>2. PICK pc \in {"withdrawal", "credit"} : Continue(r, pc)
    BY DEF DebitEntry
  <1>3. run[r].pc = "debitEntry" /\ run[r].pc \in DecideCalls /\ pc \in DecideCalls
    BY DEF DebitEntry, At, DecideCalls, Executing
  <1>4. /\ run'[r].pc = pc /\ run'[r].request = run[r].request /\ run'[r].amount = run[r].amount
        /\ \A s \in Runs \ {r} : run'[s] = run[s]
    BY <1>1, <1>2, <1>3, DecisionGoesOn
  <1>5. \A q \in Requests : HeldOf(run'[r], q) = HeldOf(run[r], q)
    BY <1>3, <1>4 DEF HeldOf, HeldCalls
  <1>6. UNCHANGED <<money, interrupted>>
    BY DEF DebitEntry, history
  <1> QED
    BY <1>4, <1>5, <1>6, MovesNothing

\* What a debit takes the handler holds; what it credits it held.
LEMMA MoneyPay ==
    ASSUME PayInv, SoundInv', NEW r \in Runs, Debit(r) \/ CreditPrincipal(r) \/ CreateWithdrawal(r)
    PROVE  PayInv'
  <1> SUFFICES ASSUME NEW q \in Requests
               PROVE  Matched(q)'
    BY DEF PayInv
  <1>1. PICK p : p = run[r].request
    OBVIOUS
  <1>2. SoundInv
    BY DEF PayInv
  <1>3. /\ run'[r].request = p /\ run'[r].amount = run[r].amount /\ run[r].amount \in Nat
        /\ \A s \in Runs \ {r} : run'[s] = run[s]
        /\ interrupted' = interrupted
        /\ p \in Requests
    BY <1>1, <1>2, MoneyFacts DEF history
  <1>4. paid[q] \in Nat /\ taken[q] \in Nat
    BY <1>2 DEF SoundInv, TypeOK
  <1>5. CASE Debit(r)
    <2>1. run[r].pc = "debit" /\ run'[r].pc = "debitEntry"
      BY <1>1, <1>2, <1>5, MoneyFacts DEF Debit, At
    <2>2. HeldOf(run[r], q) = 0 /\ HeldOf(run'[r], q) = (IF p = q THEN run[r].amount ELSE 0)
      BY <1>3, <2>1 DEF HeldOf, HeldCalls
    <2>3. paid'[q] = paid[q] /\ taken'[q] = taken[q] + (IF p = q THEN run[r].amount ELSE 0)
      BY <1>1, <1>2, <1>4, <1>5, MoneyFacts
    <2>4. paid'[q] + HeldOf(run'[r], q) + taken[q] = paid[q] + HeldOf(run[r], q) + taken'[q]
      BY <1>3, <1>4, <2>2, <2>3
    <2> QED
      BY <1>3, <2>4, StepStaysMatched
  <1>6. CASE ~Debit(r)
    <2>1. run[r].pc \in {"credit", "withdrawal"}
      BY <1>6 DEF CreditPrincipal, CreateWithdrawal, At
    <2>2. run'[r].pc \in {"creditEntry", "processed"}
      BY <1>1, <1>2, <1>6, MoneyFacts
    <2>3. HeldOf(run'[r], q) = 0 /\ HeldOf(run[r], q) = (IF p = q THEN run[r].amount ELSE 0)
      BY <1>1, <2>1, <2>2 DEF HeldOf, HeldCalls
    <2>4. taken'[q] = taken[q] /\ paid'[q] = paid[q] + (IF p = q THEN run[r].amount ELSE 0)
      BY <1>1, <1>2, <1>4, <1>6, MoneyFacts
    <2>5. paid'[q] + HeldOf(run'[r], q) + taken[q] = paid[q] + HeldOf(run[r], q) + taken'[q]
      BY <1>3, <1>4, <2>3, <2>4
    <2> QED
      BY <1>3, <2>5, StepStaysMatched
  <1> QED
    BY <1>5, <1>6

\* What a handler held when it was cut short is for a request now interrupted.
LEMMA FailPay ==
    ASSUME PayInv, SoundInv', NEW r \in Runs, Fail(r)
    PROVE  PayInv'
  <1>1. SoundInv
    BY DEF PayInv
  <1>2. /\ \A s \in Runs \ {r} : run'[s] = run[s]
        /\ run'[r].pc \in {"idle", "failed"}
        /\ interrupted \subseteq interrupted'
        /\ run[r].pc \in Executing \ {"debit"} => run[r].request \in interrupted'
        /\ UNCHANGED money
    BY <1>1, FailFacts DEF Idle
  <1>3. ASSUME NEW q \in Requests
        PROVE  \/ HeldOf(run'[r], q) = HeldOf(run[r], q)
               \/ q \in interrupted' /\ HeldOf(run'[r], q) <= HeldOf(run[r], q)
    <2>1. HeldOf(run'[r], q) = 0 /\ HeldOf(run[r], q) \in Nat
      BY <1>1, <1>2, SoundHeld DEF HeldOf, HeldCalls, HeldTyped, HeldFor
    <2>2. HeldOf(run[r], q) # 0 => q \in interrupted'
      BY <1>2 DEF HeldOf, HeldCalls, Executing
    <2> QED
      BY <2>1, <2>2
  <1> QED
    BY <1>2, <1>3, MovesNothing

LEMMA CrashPay ==
    ASSUME PayInv, SoundInv', Crash
    PROVE  PayInv'
  <1> SUFFICES ASSUME NEW q \in Requests
               PROVE  Matched(q)'
    BY DEF PayInv
  <1>1. SoundInv
    BY DEF PayInv
  <1>2. /\ run' = [r \in Runs |-> Idle]
        /\ interrupted \subseteq interrupted'
        /\ \A r \in Runs : run[r].pc \in Executing => run[r].request \in interrupted'
        /\ paid' = paid /\ taken' = taken
    BY <1>1, CrashFacts DEF money
  <1>3. HeldFor(q) \in [Runs -> Nat] /\ HeldFor(q)' = [r \in Runs |-> 0]
    BY <1>1, <1>2, SoundHeld, IdleHoldsNothing DEF HeldTyped, HeldFor
  <1>4. /\ IsFiniteSet(Units(HeldFor(q))) /\ paid[q] \in Nat /\ taken[q] \in Nat
        /\ paid[q] + Total(HeldFor(q)) <= taken[q]
        /\ q \notin interrupted => paid[q] + Total(HeldFor(q)) = taken[q]
    BY <1>1 DEF PayInv, Matched, SoundInv, TypeOK
  <1>5. IsFiniteSet(Units(HeldFor(q)')) /\ Total(HeldFor(q)') = 0
    BY <1>3, TotalOfNothing
  <1>6. Total(HeldFor(q)) \in Nat
    BY <1>4, FS_CardinalityType DEF Total
  <1>7. CASE q \in interrupted'
    BY <1>2, <1>4, <1>5, <1>6, <1>7 DEF Matched, Total, Units
  <1>8. CASE q \notin interrupted'
    <2>1. \A r \in Runs : HeldOf(run[r], q) = 0
      BY <1>2, <1>8 DEF HeldOf, HeldCalls, Executing
    <2>2. HeldFor(q)' = HeldFor(q)
      BY <1>3, <2>1 DEF HeldFor
    <2> QED
      BY <1>2, <1>4, <2>2 DEF Matched, Total, Units
  <1> QED
    BY <1>7, <1>8

LEMMA StutterPay == ASSUME PayInv, SoundInv', UNCHANGED vars PROVE PayInv'
  BY DEF PayInv, Matched, HeldFor, Units, Total, vars, money, history

LEMMA NextPay == PayInv /\ [Next]_vars => PayInv'
  <1> SUFFICES ASSUME PayInv, [Next]_vars
               PROVE  PayInv'
    OBVIOUS
  <1>1. SoundInv'
    BY NextSound DEF PayInv
  <1>2. ASSUME NEW r \in Runs, Step(r)
        PROVE  PayInv'
    BY <1>1, <1>2, QuietPay, DebitEntryPay, MoneyPay DEF Step
  <1> QED
    BY <1>1, <1>2, CalledPay, FailPay, CrashPay, StutterPay DEF Next

\* However decisions overlap and wherever they fail or the server dies, a
\* request pays out no more than was taken for it, and exactly that once its
\* handlers are done, if none was cut short.
THEOREM PayoutsTaken == Spec => []PayoutsAreTaken
  <1>1. PayInv => PayoutsAreTaken
    <2> SUFFICES ASSUME PayInv, NEW q \in Requests
                 PROVE  /\ paid[q] <= taken[q]
                        /\ Quiet(q) /\ q \notin interrupted => paid[q] = taken[q]
      BY DEF PayoutsAreTaken
    <2>1. paid[q] \in Nat /\ taken[q] \in Nat /\ Matched(q) /\ SoundInv
      BY DEF PayInv, SoundInv, TypeOK
    <2>2. Total(HeldFor(q)) \in Nat
      BY <2>1, FS_CardinalityType DEF Matched, Total
    <2>3. ASSUME Quiet(q)
          PROVE  Total(HeldFor(q)) = 0
      <3>1. ASSUME NEW r \in Runs
            PROVE  HeldOf(run[r], q) = 0
        <4>1. run[r].pc \in DecideCalls => run[r].request # q
          BY <2>1, <2>3, Kinds DEF Quiet, SoundInv
        <4> QED
          BY <4>1 DEF HeldOf, HeldCalls, DecideCalls, Executing
      <3>2. HeldFor(q) = [r \in Runs |-> 0]
        BY <3>1 DEF HeldFor
      <3> QED
        BY <3>2, TotalOfNothing
    <2> QED
      BY <2>1, <2>2, <2>3 DEF Matched
  <1> QED
    BY <1>1, InitPay, NextPay, PTL DEF Spec

(* ---------------------------------------------------------------------- *)
(* A request implements Settlement                                        *)

LEMMA RestsIf ==
    ASSUME NEW q \in Requests, Stage(q)' = Stage(q), paid'[q] = paid[q]
    PROVE  Claim!Rest(q)
  BY DEF Claim!Rest

LEMMA MovesIf ==
    ASSUME NEW q \in Requests, NEW from, NEW to, Stage(q) = from, Stage(q)' = to
    PROVE  Claim!Moves(q, from, to)
  BY DEF Claim!Moves

LEMMA SettleNames ==
    ASSUME NEW q \in Requests
    PROVE  Claim!Settle(q) <=>
             \/ Claim!File(q) \/ Claim!Give(q) \/ Claim!Grant(q)
             \/ Claim!Refuse(q) \/ Claim!Reopen(q) \/ Claim!Rest(q)
  BY DEF Claim!Settle

\* The requests other than the one a step is about rest.
LEMMA OthersRest ==
    ASSUME NEW q \in Requests, request'[q] = request[q], paid'[q] = paid[q]
    PROVE  Claim!Settle(q)
  <1>1. Stage(q)' = Stage(q)
    BY DEF Stage
  <1> QED
    BY <1>1, RestsIf, SettleNames

LEMMA InsertFiles ==
    ASSUME OrderInv, NEW r \in Runs, NEW q \in Requests, Insert(r, q),
           q \notin overlapped, q \notin interrupted
    PROVE  Claim!Settle(q)
  <1>1. /\ request[q].status = "NONE" /\ ~ Exists(q)
        /\ request'[q].status = "PENDING" /\ paid'[q] = paid[q]
    BY InsertFacts DEF OrderInv, NoRequest, Exists, money
  <1>2. Quiet(q)
    BY <1>1, Kinds, Decides DEF Quiet, OrderInv, SoundInv
  <1>3. paid[q] = 0
    BY <1>1, <1>2 DEF OrderInv, Orderly, Balanced
  <1>4. Stage(q) = "none"
    BY <1>1 DEF Stage
  <1>5. Stage(q)' = "open"
    BY <1>1 DEF Stage
  <1>6. Claim!File(q)
    BY <1>1, <1>3, <1>4, <1>5, MovesIf DEF Claim!File
  <1> QED
    BY <1>6, SettleNames

\* The steps of a handler that write its request's status or pay for it.
LEMMA RunSettles ==
    ASSUME OrderInv, NEW r \in Runs, NEW q \in Requests, q = run[r].request,
           q \notin overlapped, q \notin interrupted,
           \/ SetRejected(r) \/ SetApproved(r) \/ CreditPrincipal(r) \/ CreateWithdrawal(r)
           \/ SetProcessed(r) \/ SetFailed(r)
    PROVE  Claim!Settle(q)
  <1>1. run[r].pc \in DecideCalls
    BY DEF SetRejected, SetApproved, CreditPrincipal, CreateWithdrawal, SetProcessed, SetFailed,
           At, DecideCalls, Executing
  <1>2. Exists(q) /\ InOrder(r) /\ Exact(r) /\ SoundInv
    BY <1>1, Alone
  <1>3. CASE SetRejected(r)
    <2>1. request[q].status = "PENDING" /\ paid[q] = 0
      BY <1>2, <1>3 DEF InOrder, Exact, Balanced, SetRejected, DecideCalls, Executing
    <2>2. "REJECTED" \in Status
      BY DEF Status
    <2>3. request'[q].status = "REJECTED" /\ paid' = paid
      BY <1>2, <1>3, <2>2, StatusFacts DEF SetRejected, money
    <2>4. Stage(q) = "open" /\ Stage(q)' = "refused"
      BY <2>1, <2>3 DEF Stage
    <2>5. Claim!Refuse(q)
      BY <2>1, <2>3, <2>4, MovesIf DEF Claim!Refuse
    <2> QED
      BY <2>5, SettleNames
  <1>4. CASE SetApproved(r)
    <2>1. request[q].status = "PENDING"
      BY <1>2, <1>4 DEF InOrder, SetApproved, At
    <2>2. request'[q].status = "APPROVED" /\ paid' = paid
      BY <1>2, <1>4, ApprovedFacts DEF SetApproved, money
    <2>3. Stage(q) = "open" /\ Stage(q)' = "open"
      BY <2>1, <2>2 DEF Stage
    <2> QED
      BY <2>2, <2>3, RestsIf, SettleNames
  <1>5. CASE CreditPrincipal(r) \/ CreateWithdrawal(r)
    <2>1. run[r].pc \in {"credit", "withdrawal"}
      BY <1>5 DEF CreditPrincipal, CreateWithdrawal, At
    <2>2. request[q].status = "APPROVED" /\ paid[q] = 0
      BY <1>2, <2>1 DEF InOrder, Exact, Executing
    <2>3. ~ Debit(r)
      BY <2>1 DEF Debit, At
    <2>4. /\ run[r].amount \in Nat /\ run[r].amount >= 1 /\ request' = request
          /\ paid'[q] = paid[q] + run[r].amount
      BY <1>2, <1>5, <2>3, MoneyFacts
    <2>5. paid'[q] > 0
      BY <2>2, <2>4
    <2>6. Stage(q) = "open" /\ Stage(q)' = "open"
      BY <2>2, <2>4 DEF Stage
    <2>7. Claim!Give(q)
      BY <2>2, <2>5, <2>6, MovesIf DEF Claim!Give
    <2> QED
      BY <2>7, SettleNames
  <1>6. CASE SetProcessed(r)
    <2>1. request[q].status = "APPROVED" /\ paid[q] = run[r].amount
      BY <1>2, <1>6 DEF InOrder, Exact, Executing, SetProcessed, At
    <2>2. run[r].pc \in Executing
      BY <1>6 DEF SetProcessed, At, Executing
    <2>3. paid[q] > 0
      <3>1. run[r].amount \in Nat /\ run[r].amount >= 1
        BY <1>1, <1>2, <2>2, Decides DEF SoundRun
      <3> QED
        BY <2>1, <3>1
    <2>4. "PROCESSED" \in Status
      BY DEF Status
    <2>5. request'[q].status = "PROCESSED" /\ paid' = paid
      BY <1>2, <1>6, <2>4, StatusFacts DEF SetProcessed, money
    <2>6. Stage(q) = "open" /\ Stage(q)' = "granted"
      BY <2>1, <2>5 DEF Stage
    <2>7. Claim!Grant(q)
      BY <2>3, <2>5, <2>6, MovesIf DEF Claim!Grant
    <2> QED
      BY <2>7, SettleNames
  <1>7. CASE SetFailed(r)
    <2>1. request[q].status = "APPROVED" /\ paid[q] = 0
      BY <1>2, <1>7 DEF InOrder, Exact, Executing, SetFailed, At
    <2>2. "FAILED" \in Status
      BY DEF Status
    <2>3. request'[q].status = "FAILED" /\ paid' = paid
      BY <1>2, <1>7, <2>2, StatusFacts DEF SetFailed, money
    <2>4. Stage(q) = "open" /\ Stage(q)' = "refused"
      BY <2>1, <2>3 DEF Stage
    <2>5. Claim!Refuse(q)
      BY <2>1, <2>3, <2>4, MovesIf DEF Claim!Refuse
    <2> QED
      BY <2>5, SettleNames
  <1> QED
    BY <1>3, <1>4, <1>5, <1>6, <1>7

\* Requests go astray by a call that overlaps or an execution cut short.
LEMMA AstrayGrows ==
    ASSUME [Next]_vars
    PROVE  overlapped \subseteq overlapped' /\ interrupted \subseteq interrupted'
  <1>1. ASSUME NEW r \in Runs, Called(r)
        PROVE  overlapped \subseteq overlapped' /\ interrupted' = interrupted
    BY <1>1 DEF Called, CallCreate, CallCancel, CallApprove, CallReject, CallUpdateAndApprove, CallOn
  <1>2. ASSUME NEW r \in Runs, Step(r)
        PROVE  UNCHANGED history
    BY <1>2 DEF Step, FindPending, CheckBalance, Insert, ReadCancel, ReadReject, SetRejected,
        ReadApprove, ReadUpdate, UpdateBalance, SetApproved, Debit, DebitRefused, DebitEntry,
        CreditPrincipal, CreditEntry, CreateWithdrawal, SetProcessed, SetFailed, Refused
  <1>3. CASE (\E r \in Runs : Fail(r)) \/ Crash
    BY <1>3 DEF Fail, Crash
  <1> QED
    BY <1>1, <1>2, <1>3 DEF Next, vars, history

LEMMA StepSettles ==
    ASSUME OrderInv, [Next]_vars, NEW q \in Requests, q \notin overlapped', q \notin interrupted'
    PROVE  Claim!Settle(q)
  <1>1. q \notin overlapped /\ q \notin interrupted
    BY AstrayGrows
  <1>2. CASE UNCHANGED <<request, paid>>
    BY <1>2, OthersRest
  <1>3. ASSUME NEW r \in Runs, NEW p \in Requests, Insert(r, p)
        PROVE  Claim!Settle(q)
    <2>1. CASE p = q
      BY <1>1, <1>3, <2>1, InsertFiles
    <2>2. CASE p # q
      <3>1. request'[q] = request[q] /\ paid'[q] = paid[q]
        BY <1>3, <2>2, InsertFacts DEF OrderInv, money
      <3> QED
        BY <3>1, OthersRest
    <2> QED
      BY <2>1, <2>2
  <1>4. ASSUME NEW r \in Runs,
               \/ SetRejected(r) \/ SetApproved(r) \/ CreditPrincipal(r) \/ CreateWithdrawal(r)
               \/ SetProcessed(r) \/ SetFailed(r)
        PROVE  Claim!Settle(q)
    <2>1. CASE q = run[r].request
      BY <1>1, <1>4, <2>1, RunSettles
    <2>2. CASE q # run[r].request
      <3>1. request'[q] = request[q] /\ paid'[q] = paid[q]
        BY <1>4, <2>2
           DEF SetRejected, SetApproved, CreditPrincipal, CreateWithdrawal, SetProcessed,
               SetFailed, OrderInv, SoundInv, TypeOK, money
      <3> QED
        BY <3>1, OthersRest
    <2> QED
      BY <2>1, <2>2
  <1>5. ASSUME NEW r \in Runs,
               \/ Called(r) \/ FindPending(r) \/ CheckBalance(r) \/ ReadCancel(r) \/ ReadReject(r)
               \/ ReadApprove(r) \/ ReadUpdate(r) \/ UpdateBalance(r) \/ Debit(r)
               \/ DebitRefused(r) \/ DebitEntry(r) \/ CreditEntry(r) \/ Refused(r) \/ Fail(r)
        PROVE  UNCHANGED <<request, paid>>
    <2>1. CASE Called(r)
      BY <2>1 DEF Called, CallCreate, CallCancel, CallApprove, CallReject, CallUpdateAndApprove,
                  CallOn, money
    <2>2. CASE ~ Called(r)
      BY <1>5, <2>2 DEF FindPending, CheckBalance, ReadCancel, ReadReject, ReadApprove,
          ReadUpdate, UpdateBalance, Debit, DebitRefused, DebitEntry, CreditEntry, Refused, Fail,
          money
    <2> QED
      BY <2>1, <2>2
  <1>6. CASE Crash \/ UNCHANGED vars
    <2>1. UNCHANGED <<request, paid>>
      BY <1>6 DEF Crash, vars, money
    <2> QED
      BY <1>2, <2>1
  <1> QED
    BY <1>2, <1>3, <1>4, <1>5, <1>6 DEF Next, Step

\* Handlers and failures in any number implement the abstract Settlement: a
\* request is paid at most once, before it shows PROCESSED, never when it is
\* REJECTED or FAILED, and these are final, unless it went astray.
THEOREM ImplementsSettlement == Spec => SettledOnce
  <1>1. Init => Claim!Init
    BY DEF Init, Claim!Init, Stage, NoRequest
  <1>2. OrderInv /\ [Next]_vars => [Claim!Next]_(Claim!vars)
    BY StepSettles, AstrayGrows DEF Claim!Next, OrderInv
  <1> QED
    BY <1>1, <1>2, OrderAlways, PTL DEF Spec, SettledOnce, Claim!Spec
===============================================================================
