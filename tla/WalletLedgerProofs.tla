-------------------------- MODULE WalletLedgerProofs --------------------------
(***************************************************************************)
(* Theorems about WalletLedger, for every set of wallets, of requests and  *)
(* of amounts and every bound on the number of operations; the last is     *)
(* that it implements Bookkeeping.                                         *)
(***************************************************************************)
EXTENDS WalletLedger, TLAPS

(* ---------------------------------------------------------------------- *)
(* Inductive invariants                                                   *)

\* A running request has an operation that was allowed, and is at a side of it.
Running(r) ==
    Active(r) => /\ op[r] \in Operation
                 /\ Allowed(op[r])
                 /\ HasSide(op[r], side[r])

TypeInv ==
    /\ TypeOK
    /\ \A r \in Requests : Running(r)

\* Every stored row and every row a request holds is consistent in itself and
\* within the amounts written: a write computes a whole row from one snapshot.
Consistent(row) ==
    /\ row.balance >= 0
    /\ row.balance = row.totalCredit - row.totalDebit

Within(row, w) ==
    /\ row.totalCredit <= written[w].credit
    /\ row.totalDebit <= written[w].debit

RowInv ==
    /\ \A w \in Wallets : Consistent(wallet[w]) /\ Within(wallet[w], w)
    /\ \A r \in Requests : Consistent(snap[r])
    /\ \A r \in Requests, s \in Side :
           At(r, "write", s) => Within(snap[r], WalletOf(op[r], s))

\* How far the half of r's operation on side s has come.
Half(r, s, w) == Active(r) /\ HasSide(op[r], s) /\ WalletOf(op[r], s) = w
Past(r, s, stages, st) == stage[r] \in stages \/ (stage[r] = st /\ side[r] = "dst" /\ s = "src")
Found(r, s) == Past(r, s, {"reread", "write", "ledger"}, "find")
Written(r, s) == stage[r] = "ledger" \/ (stage[r] \in {"reread", "write"} /\ side[r] = "dst" /\ s = "src")
Booked(r, s) == stage[r] = "ledger" /\ side[r] = "dst" /\ s = "src"
Pending(r, s) == Written(r, s) /\ ~Booked(r, s)

\* One wallet on which no two operations have overlapped.
Alone(w) == \A r, q \in Requests : Touches(r, w) /\ Touches(q, w) => r = q

TotalsExact(w) ==
    /\ wallet[w].totalCredit = written[w].credit
    /\ wallet[w].totalDebit = written[w].debit

ReadsCurrent(w) ==
    \A r \in Requests, s \in Side : Half(r, s, w) =>
        /\ At(r, "write", s) => snap[r] = wallet[w]
        /\ Found(r, s) /\ ~Written(r, s) => before[r][s] = wallet[w].balance
        /\ Pending(r, s) => /\ after[r][s] = wallet[w].balance
                            /\ before[r][s] + Delta(op[r], s) = after[r][s]

Accounted(w) ==
    w \notin unledgered =>
        /\ \A r \in Requests, s \in Side :
               Half(r, s, w) /\ Pending(r, s) => ledger[w] = before[r][s]
        /\ (\A r \in Requests, s \in Side : Half(r, s, w) => ~Pending(r, s))
               => ledger[w] = wallet[w].balance

Serial(w) == Alone(w) /\ TotalsExact(w) /\ ReadsCurrent(w) /\ Accounted(w)

SerialInv == \A w \in Wallets \ overlapped : Serial(w)

(* ---------------------------------------------------------------------- *)
(* Types                                                                  *)

\* The initial state is well typed.
LEMMA InitTypeInv == Init => TypeInv
  BY StartsAssumption DEF Init, TypeInv, TypeOK, Running, Active, Row, NewRow, Side, Stage

\* Every step of a request keeps types, and keeps running requests well formed.
LEMMA NextTypeInv == TypeInv /\ [Next]_vars => TypeInv'
  <1> SUFFICES ASSUME TypeInv, [Next]_vars
               PROVE  TypeInv'
    OBVIOUS
  <1> USE AmountAssumption, StartsAssumption
  <1>1. CASE UNCHANGED vars
    BY <1>1 DEF vars, rows, locals, control, history, TypeInv, TypeOK, Running, Active
  <1>2. ASSUME NEW r \in Requests, Return(r), UNCHANGED <<starts, written>>,
               wallet' = wallet, ledger' \in [Wallets -> Int],
               overlapped' \subseteq Wallets, unledgered' \subseteq Wallets
        PROVE  TypeInv'
    BY <1>2 DEF Return, Goto, TypeInv, TypeOK, Running, Active, Row, NewRow, Side, Stage
  <1>3. ASSUME NEW r \in Requests, Active(r), Stop(r)
        PROVE  TypeInv'
    <2>1. op[r].src \in Wallets /\ op[r].dst \in Wallets
      BY <1>3 DEF TypeInv, Running, Operation
    <2> QED
      BY <1>2, <1>3, <2>1 DEF Stop, rows, TypeInv, TypeOK
  <1>4. ASSUME NEW r \in Requests, NEW o \in Operation, Start(r, o)
        PROVE  TypeInv'
    BY <1>4 DEF Start, Goto, rows, TypeInv, TypeOK, Running, Active, Operation, FirstSide,
                HasSide, Allowed, Side, Stage
  <1>5. ASSUME NEW r \in Requests, NEW s \in Side, Find(r, s)
        PROVE  TypeInv'
    BY <1>5 DEF Find, Goto, At, rows, history, TypeInv, TypeOK, Running, Active, Operation,
                WalletOf, FirstSide, HasSide, DstNext, Row, Side, Stage
  <1>6. ASSUME NEW r \in Requests, NEW s \in Side, Reread(r, s)
        PROVE  TypeInv'
    BY <1>6 DEF Reread, Goto, At, rows, history, TypeInv, TypeOK, Running, Active, Operation,
                WalletOf, HasSide, Side, Stage
  <1>7. ASSUME NEW r \in Requests, NEW s \in Side, Write(r, s)
        PROVE  TypeInv'
    <2>1. op[r] \in Operation /\ op[r].amt \in Nat
      BY <1>7 DEF Write, At, TypeInv, Running, Active, Operation
    <2>2. Updated(snap[r], op[r], s) \in Row
      BY <1>7, <2>1 DEF TypeInv, TypeOK, Updated, Delta, Row, Side
    <2>3. WalletOf(op[r], s) \in Wallets
      BY <2>1 DEF WalletOf, Operation
    <2>4. wallet' \in [Wallets -> Row]
      BY <1>7, <2>2, <2>3 DEF Write, TypeInv, TypeOK
    <2>5. written' \in [Wallets -> [credit : Nat, debit : Nat]]
      <3> DEFINE w == WalletOf(op[r], s)
      <3>1. written[w] \in [credit : Nat, debit : Nat]
        BY <2>3 DEF TypeInv, TypeOK
      <3>2. [written[w] EXCEPT !["credit"] = @ + op[r].amt] \in [credit : Nat, debit : Nat]
        BY <2>1, <3>1
      <3>3. [written[w] EXCEPT !["debit"] = @ + op[r].amt] \in [credit : Nat, debit : Nat]
        BY <2>1, <3>1
      <3>4. written' = [written EXCEPT ![w] = written'[w]]
            /\ written'[w] \in [credit : Nat, debit : Nat]
        BY <1>7, <2>3, <3>2, <3>3 DEF Write, TypeInv, TypeOK
      <3> QED
        BY <2>3, <3>4 DEF TypeInv, TypeOK
    <2>6. after' \in [Requests -> [Side -> Int]]
      BY <1>7, <2>2 DEF Write, TypeInv, TypeOK, Row
    <2>7. stage' \in [Requests -> Stage] /\ side' \in [Requests -> Side]
      BY <1>7 DEF Write, Goto, TypeInv, TypeOK, FirstSide, Side, Stage
    <2>8. ASSUME NEW q \in Requests PROVE Running(q)'
      BY <1>7, <2>1 DEF Write, Goto, At, TypeInv, TypeOK, Running, Active,
                        FirstSide, HasSide, DstNext, Side
    <2> QED
      BY <1>7, <2>4, <2>5, <2>6, <2>7, <2>8 DEF Write, history, TypeInv, TypeOK
  <1>8. ASSUME NEW r \in Requests, NEW s \in Side, Ledger(r, s)
        PROVE  TypeInv'
    <2>1. op[r] \in Operation /\ op[r].amt \in Nat /\ WalletOf(op[r], s) \in Wallets
      BY <1>8 DEF Ledger, At, TypeInv, Running, Active, Operation, WalletOf
    <2>2. ledger' \in [Wallets -> Int]
      BY <1>8, <2>1 DEF Ledger, TypeInv, TypeOK, Delta
    <2>3. CASE DstNext(r)
      BY <1>8, <2>1, <2>2, <2>3
      DEF Ledger, Goto, At, locals, history, TypeInv, TypeOK, Running, Active,
          HasSide, DstNext, Side, Stage
    <2>4. CASE ~DstNext(r)
      BY <1>2, <1>8, <2>2, <2>4 DEF Ledger, history, TypeInv, TypeOK
    <2> QED
      BY <2>3, <2>4
  <1> QED
    BY <1>1, <1>3, <1>4, <1>5, <1>6, <1>7, <1>8
    DEF Next, Step, RefuseFind, RefuseWrite, RefuseLedger, Abort, At, Active

\* Every reachable state is well typed, whatever requests do.
THEOREM TypeCorrect == Spec => []TypeOK
  <1>1. TypeInv => TypeOK
    BY DEF TypeInv
  <1> QED
    BY InitTypeInv, NextTypeInv, <1>1, PTL DEF Spec

(* ---------------------------------------------------------------------- *)
(* Rows                                                                   *)

\* A step that changes no row and starts no write keeps RowInv.
LEMMA SameRowsKeepRowInv ==
    ASSUME TypeInv, RowInv, UNCHANGED <<wallet, written>>,
           NEW r \in Requests,
           \/ snap' = snap
           \/ snap' = [snap EXCEPT ![r] = NewRow],
           \A q \in Requests, s \in Side :
               At(q, "write", s)' => q # r /\ At(q, "write", s) /\ op'[q] = op[q]
    PROVE  RowInv'
  <1>1. \A w \in Wallets : (Consistent(wallet[w]) /\ Within(wallet[w], w))'
    BY DEF RowInv, Consistent, Within
  <1>2. ASSUME NEW q \in Requests PROVE Consistent(snap[q])'
    <2>1. snap'[q] = snap[q] \/ snap'[q] = NewRow
      BY DEF TypeInv, TypeOK
    <2>2. Consistent(NewRow) /\ Consistent(snap[q])
      BY DEF RowInv, Consistent, NewRow
    <2> QED
      BY <2>1, <2>2 DEF Consistent
  <1>3. ASSUME NEW q \in Requests, NEW s \in Side, At(q, "write", s)'
        PROVE  Within(snap[q], WalletOf(op[q], s))'
    BY <1>3 DEF RowInv, Within, WalletOf, TypeInv, TypeOK
  <1> QED
    BY <1>1, <1>2, <1>3 DEF RowInv

\* Rows start empty, hence consistent.
LEMMA InitRowInv == Init => RowInv
  BY DEF Init, RowInv, Consistent, Within, NewRow, At

\* Every step of a request keeps rows and the rows requests have reread
\* consistent, and the totals within what was written.
LEMMA NextRowInv == TypeInv /\ RowInv /\ [Next]_vars => RowInv'
  <1> SUFFICES ASSUME TypeInv, RowInv, [Next]_vars
               PROVE  RowInv'
    OBVIOUS
  <1>1. CASE UNCHANGED vars
    BY <1>1 DEF vars, rows, locals, control, RowInv, Consistent, Within, At, WalletOf
  <1>2. ASSUME NEW r \in Requests, Return(r), UNCHANGED <<wallet, written>>
        PROVE  RowInv'
    <2>1. \A q \in Requests, s \in Side :
              At(q, "write", s)' => q # r /\ At(q, "write", s) /\ op'[q] = op[q]
      BY <1>2 DEF Return, Goto, At, TypeInv, TypeOK
    <2> QED
      BY <1>2, <2>1, SameRowsKeepRowInv DEF Return
  <1>3. ASSUME NEW r \in Requests, NEW o \in Operation, Start(r, o)
        PROVE  RowInv'
    <2>1. \A q \in Requests, s \in Side :
              At(q, "write", s)' => q # r /\ At(q, "write", s) /\ op'[q] = op[q]
      BY <1>3 DEF Start, Goto, At, TypeInv, TypeOK
    <2> QED
      BY <1>3, <2>1, SameRowsKeepRowInv DEF Start, rows
  <1>4. ASSUME NEW r \in Requests, NEW s \in Side, Find(r, s)
        PROVE  RowInv'
    <2>1. \A q \in Requests, t \in Side :
              At(q, "write", t)' => q # r /\ At(q, "write", t) /\ op'[q] = op[q]
      BY <1>4 DEF Find, Goto, At, TypeInv, TypeOK
    <2> QED
      BY <1>4, <2>1, SameRowsKeepRowInv DEF Find, rows
  <1>5. ASSUME NEW r \in Requests, NEW s \in Side, Reread(r, s)
        PROVE  RowInv'
    <2>1. WalletOf(op[r], s) \in Wallets /\ snap'[r] = wallet[WalletOf(op[r], s)]
      BY <1>5 DEF Reread, At, TypeInv, TypeOK, Running, Active, Operation, WalletOf
    <2>2. \A q \in Requests : q # r => snap'[q] = snap[q]
      BY <1>5 DEF Reread, TypeInv, TypeOK
    <2>3. \A q \in Requests, t \in Side :
              At(q, "write", t)' => IF q = r THEN t = s ELSE At(q, "write", t)
      BY <1>5 DEF Reread, Goto, At, TypeInv, TypeOK
    <2>4. wallet' = wallet /\ written' = written /\ op' = op
      BY <1>5 DEF Reread, rows
    <2> QED
      BY <2>1, <2>2, <2>3, <2>4 DEF RowInv, Consistent, Within, WalletOf
  <1>6. ASSUME NEW r \in Requests, NEW s \in Side, Write(r, s)
        PROVE  RowInv'
    <2> DEFINE w   == WalletOf(op[r], s)
               row == Updated(snap[r], op[r], s)
    <2>1. w \in Wallets /\ op[r].amt \in Nat /\ snap[r] \in Row /\ snap' = snap /\ op' = op
      BY <1>6, AmountAssumption
      DEF Write, At, TypeInv, TypeOK, Running, Active, Operation, WalletOf
    <2>2. \A v \in Wallets : written[v].credit \in Nat /\ written[v].debit \in Nat
      BY DEF TypeInv, TypeOK
    <2>3. wallet'[w] = row /\ row.balance >= 0
          /\ \A v \in Wallets : v # w => wallet'[v] = wallet[v] /\ written'[v] = written[v]
      BY <1>6, <2>1 DEF Write, TypeInv, TypeOK
    <2>4. /\ written'[w].credit = written[w].credit + (IF s = "dst" THEN op[r].amt ELSE 0)
          /\ written'[w].debit = written[w].debit + (IF s = "dst" THEN 0 ELSE op[r].amt)
      <3>1. CASE s = "dst"
        BY <1>6, <2>1, <2>2, <3>1 DEF Write, TypeInv, TypeOK
      <3>2. CASE s = "src"
        BY <1>6, <2>1, <2>2, <3>2 DEF Write, TypeInv, TypeOK
      <3> QED
        BY <3>1, <3>2 DEF Side
    <2>5. Consistent(snap[r]) /\ Within(snap[r], w)
      BY <1>6 DEF Write, RowInv
    <2>6. Consistent(row)
      BY <2>1, <2>3, <2>5 DEF Updated, Delta, Consistent, Row, Side
    <2>7. /\ row.totalCredit <= written'[w].credit
          /\ row.totalDebit <= written'[w].debit
      BY <2>1, <2>2, <2>4, <2>5 DEF Updated, Within, Row, Side
    <2>8. \A v \in Wallets : written[v].credit <= written'[v].credit
                             /\ written[v].debit <= written'[v].debit
      BY <2>1, <2>2, <2>3, <2>4
    <2>9. ASSUME NEW v \in Wallets PROVE (Consistent(wallet[v]) /\ Within(wallet[v], v))'
      <3>1. CASE v = w
        BY <2>3, <2>6, <2>7, <3>1 DEF Consistent, Within
      <3>2. CASE v # w
        BY <2>3, <3>2 DEF RowInv, Consistent, Within
      <3> QED
        BY <3>1, <3>2
    <2>10. ASSUME NEW q \in Requests, NEW t \in Side, At(q, "write", t)'
           PROVE  Within(snap[q], WalletOf(op[q], t))'
      <3>1. At(q, "write", t)
        BY <1>6, <2>10 DEF Write, Goto, At, TypeInv, TypeOK
      <3>2. WalletOf(op[q], t) \in Wallets /\ snap[q] \in Row
        BY <3>1 DEF At, TypeInv, TypeOK, Running, Active, Operation, WalletOf
      <3>3. Within(snap[q], WalletOf(op[q], t))
        BY <3>1 DEF RowInv
      <3>4. \A v \in Wallets : written'[v].credit \in Nat /\ written'[v].debit \in Nat
        BY <2>1, <2>2, <2>3, <2>4
      <3> QED
        BY <2>1, <2>2, <2>8, <3>2, <3>3, <3>4 DEF Within, WalletOf, Row
    <2> QED
      BY <2>1, <2>9, <2>10 DEF RowInv, Consistent
  <1>7. ASSUME NEW r \in Requests, NEW s \in Side, Ledger(r, s)
        PROVE  RowInv'
    <2>1. CASE DstNext(r)
      <3>1. \A q \in Requests, t \in Side :
                At(q, "write", t)' => q # r /\ At(q, "write", t) /\ op'[q] = op[q]
        BY <1>7, <2>1 DEF Ledger, Goto, At, locals, TypeInv, TypeOK
      <3> QED
        BY <1>7, <2>1, <3>1, SameRowsKeepRowInv DEF Ledger, locals
    <2>2. CASE ~DstNext(r)
      BY <1>2, <1>7, <2>2 DEF Ledger
    <2> QED
      BY <2>1, <2>2
  <1> QED
    BY <1>1, <1>2, <1>3, <1>4, <1>5, <1>6, <1>7
    DEF Next, Step, RefuseFind, RefuseWrite, RefuseLedger, Abort, Stop, rows

\* A stored row never goes negative and always balances, under every
\* interleaving of requests and however many of them stop half-way.
THEOREM RowsStayConsistent == Spec => []RowConsistent
  <1>1. RowInv => RowConsistent
    BY DEF RowInv, RowConsistent, Consistent
  <1> QED
    BY InitTypeInv, NextTypeInv, InitRowInv, NextRowInv, <1>1, PTL DEF Spec

(* ---------------------------------------------------------------------- *)
(* Serial execution on one wallet                                         *)

\* What Serial says of the only half that runs on w.
HalfState(r, t, w) ==
    /\ At(r, "write", t) => snap[r] = wallet[w]
    /\ Found(r, t) /\ ~Written(r, t) => before[r][t] = wallet[w].balance
    /\ Pending(r, t) => /\ after[r][t] = wallet[w].balance
                        /\ before[r][t] + Delta(op[r], t) = after[r][t]
    /\ w \notin unledgered =>
           ledger[w] = (IF Pending(r, t) THEN before[r][t] ELSE wallet[w].balance)

OnlyHalf(r, t, w) == Half(r, t, w) /\ \A s \in Side : Half(r, s, w) => s = t

\* The local variables of requests other than r are unchanged.
Others(r) ==
    \A q \in Requests \ {r} :
        /\ op'[q] = op[q] /\ stage'[q] = stage[q] /\ side'[q] = side[q]
        /\ before'[q] = before[q] /\ snap'[q] = snap[q] /\ after'[q] = after[q]

\* An operation touches a wallet with exactly one of its halves: a transfer's
\* two wallets differ, because only PRINCIPAL receives and it does not send.
LEMMA OneHalf ==
    ASSUME TypeInv, NEW r \in Requests, NEW w \in Wallets, Touches(r, w)
    PROVE  \E t \in Side : OnlyHalf(r, t, w)
  <1>1. op[r] \in Operation /\ Allowed(op[r]) /\ HasSide(op[r], side[r]) /\ side[r] \in Side
    BY DEF TypeInv, TypeOK, Running, Touches
  <1>2. CASE op[r].kind = "transfer"
    <2>1. op[r].src # op[r].dst
      BY <1>1, <1>2 DEF Allowed, AllowedTransfer
    <2>2. Half(r, "src", w) <=> w = op[r].src
      BY <1>2 DEF Touches, Half, HasSide, WalletOf
    <2>3. Half(r, "dst", w) <=> w = op[r].dst
      BY <1>2 DEF Touches, Half, HasSide, WalletOf
    <2> QED
      BY <2>1, <2>2, <2>3 DEF Touches, OnlyHalf, Side
  <1>3. CASE op[r].kind = "credit"
    BY <1>1, <1>3 DEF Allowed, Touches, OnlyHalf, Half, HasSide, WalletOf, Side
  <1>4. CASE op[r].kind = "debit"
    BY <1>1, <1>4 DEF Allowed, Touches, OnlyHalf, Half, HasSide, WalletOf, Side
  <1> QED
    BY <1>1, <1>2, <1>3, <1>4 DEF Operation

\* The half of an operation that is on a wallet touches it.
LEMMA HalfTouches ==
    ASSUME NEW r, NEW s, NEW w, Half(r, s, w)
    PROVE  Touches(r, w)
  BY DEF Half, Touches, WalletOf

\* What SerialInv says of a wallet, read off for one request on it.
LEMMA SerialDown ==
    ASSUME NEW w \in Wallets, Serial(w), NEW r \in Requests, NEW t \in Side, OnlyHalf(r, t, w)
    PROVE  /\ TotalsExact(w)
           /\ HalfState(r, t, w)
           /\ \A q \in Requests \ {r} : ~Touches(q, w)
  <1>1. Half(r, t, w) /\ Touches(r, w)
    BY HalfTouches DEF OnlyHalf
  <1>2. \A q \in Requests \ {r} : ~Touches(q, w)
    BY <1>1 DEF Serial, Alone
  <1>3. \A q \in Requests, s \in Side : Half(q, s, w) => q = r /\ s = t
    BY <1>2, HalfTouches DEF OnlyHalf
  <1>4. w \notin unledgered =>
            ledger[w] = (IF Pending(r, t) THEN before[r][t] ELSE wallet[w].balance)
    BY <1>1, <1>3 DEF Serial, Accounted
  <1> QED
    BY <1>1, <1>2, <1>4 DEF Serial, ReadsCurrent, HalfState

\* The converse: SerialInv of a wallet from its one request's half.
LEMMA SerialUp ==
    ASSUME NEW w \in Wallets, NEW r \in Requests, NEW t \in Side, OnlyHalf(r, t, w)',
           TotalsExact(w)', HalfState(r, t, w)',
           \A q \in Requests \ {r} : ~Touches(q, w)'
    PROVE  Serial(w)'
  <1>1. \A q \in Requests, s \in Side : Half(q, s, w)' => q = r /\ s = t
    BY DEF OnlyHalf, Half, Touches, WalletOf
  <1>2. Half(r, t, w)'
    BY DEF OnlyHalf
  <1>3. Alone(w)'
    BY DEF Alone
  <1>4. ReadsCurrent(w)'
    BY <1>1 DEF ReadsCurrent, HalfState
  <1>5. Accounted(w)'
    BY <1>1, <1>2 DEF Accounted, HalfState
  <1> QED
    BY <1>3, <1>4, <1>5 DEF Serial

\* SerialInv of a wallet no request is on: ledger and balance agree.
LEMMA SerialFree ==
    ASSUME NEW w \in Wallets, TotalsExact(w)',
           (w \notin unledgered => ledger[w] = wallet[w].balance)',
           \A q \in Requests : ~Touches(q, w)'
    PROVE  Serial(w)'
  <1>1. \A q \in Requests, s \in Side : ~Half(q, s, w)'
    BY DEF Half, Touches, WalletOf
  <1> QED
    BY <1>1 DEF Serial, Alone, ReadsCurrent, Accounted

\* A wallet that the stepping request is not on stays as it was.
LEMMA SerialElsewhere ==
    ASSUME NEW w \in Wallets, Serial(w), NEW r \in Requests, Others(r),
           ~Touches(r, w), ~Touches(r, w)',
           wallet'[w] = wallet[w], ledger'[w] = ledger[w], written'[w] = written[w],
           unledgered \subseteq unledgered'
    PROVE  Serial(w)'
  <1>1. \A q \in Requests, s \in Side : Half(q, s, w)' => q # r /\ Half(q, s, w)
    BY DEF Others, Half, Active, Touches, WalletOf
  <1>2. \A q \in Requests, s \in Side : Half(q, s, w) => q # r /\ Half(q, s, w)'
    BY DEF Others, Half, Active, Touches, WalletOf
  <1>3. \A q \in Requests : Touches(q, w)' => q # r /\ Touches(q, w)
    BY DEF Others, Touches, Active
  <1>4. \A q \in Requests \ {r}, s \in Side :
            /\ At(q, "write", s)' <=> At(q, "write", s)
            /\ Found(q, s)' <=> Found(q, s)
            /\ Written(q, s)' <=> Written(q, s)
            /\ Pending(q, s)' <=> Pending(q, s)
    BY DEF Others, At, Found, Past, Written, Booked, Pending
  <1>5. Alone(w)'
    BY <1>3 DEF Serial, Alone
  <1>6. TotalsExact(w)'
    BY DEF Serial, TotalsExact
  <1>7. ReadsCurrent(w)'
    BY <1>1, <1>4 DEF Serial, ReadsCurrent, Others
  <1>8. Accounted(w)'
    BY <1>1, <1>2, <1>4 DEF Serial, Accounted, Others
  <1> QED
    BY <1>5, <1>6, <1>7, <1>8 DEF Serial

\* Initially no request runs and every ledger agrees with its balance.
LEMMA InitSerialInv == Init => SerialInv
  <1> SUFFICES ASSUME Init, NEW w \in Wallets
               PROVE  Serial(w)
    BY DEF SerialInv
  <1>1. \A r \in Requests : ~Active(r)
    BY DEF Init, Active
  <1>2. TotalsExact(w) /\ ledger[w] = wallet[w].balance
    BY DEF Init, TotalsExact, NewRow
  <1> QED
    BY <1>1, <1>2 DEF Serial, Alone, ReadsCurrent, Accounted, Half, Touches

\* A request that leaves.  What it touched is fully booked, or unledgered.
LEMMA ReturnKeepsSerial ==
    ASSUME TypeInv, NEW w \in Wallets, Serial(w), NEW r \in Requests, Active(r), Return(r),
           wallet'[w] = wallet[w], written'[w] = written[w], unledgered \subseteq unledgered',
           ~Touches(r, w) => ledger'[w] = ledger[w],
           Touches(r, w) /\ w \notin unledgered' => ledger'[w] = wallet[w].balance
    PROVE  Serial(w)'
  <1>1. Others(r) /\ ~Active(r)'
    BY DEF Return, Goto, Others, Active, TypeInv, TypeOK
  <1>2. CASE Touches(r, w)
    <2>1. PICK t \in Side : OnlyHalf(r, t, w)
      BY <1>2, OneHalf
    <2>2. TotalsExact(w) /\ \A q \in Requests \ {r} : ~Touches(q, w)
      BY <2>1, SerialDown
    <2>3. \A q \in Requests : ~Touches(q, w)'
      BY <1>1, <2>2 DEF Others, Touches, Active
    <2>4. TotalsExact(w)' /\ (w \notin unledgered => ledger[w] = wallet[w].balance)'
      BY <1>2, <2>2 DEF TotalsExact
    <2> QED
      BY <2>3, <2>4, SerialFree
  <1>3. CASE ~Touches(r, w)
    BY <1>1, <1>3, SerialElsewhere DEF Touches
  <1> QED
    BY <1>2, <1>3

\* A request that stops half-way leaves its wallets unledgered.
LEMMA StopKeepsSerial ==
    ASSUME TypeInv, NEW w \in Wallets, Serial(w), NEW r \in Requests, Active(r), Stop(r)
    PROVE  Serial(w)'
  <1>1. ASSUME Touches(r, w), w \notin unledgered'
        PROVE  ledger[w] = wallet[w].balance
    <2>1. PICK t \in Side : OnlyHalf(r, t, w)
      BY <1>1, OneHalf
    <2>2. HalfState(r, t, w)
      BY <2>1, SerialDown
    <2>3. ~MovedMoney(r) /\ w \notin unledgered
      BY <1>1 DEF Stop, Touches
    <2>4. ~Pending(r, t)
      BY <2>1, <2>3 DEF Pending, Written, MovedMoney, OnlyHalf, Half, HasSide, TypeInv, Running
    <2> QED
      BY <2>2, <2>3, <2>4 DEF HalfState
  <1> QED
    BY <1>1, ReturnKeepsSerial DEF Stop, rows

\* A step of r that stays in its operation: what has to be shown is that the
\* half of r that touches w still agrees with w.
LEMMA StepKeepsSerial ==
    ASSUME TypeInv, NEW w \in Wallets, Serial(w), NEW r \in Requests, Active(r), Active(r)',
           op' = op, Others(r), unledgered' = unledgered,
           ~Touches(r, w) =>
               wallet'[w] = wallet[w] /\ ledger'[w] = ledger[w] /\ written'[w] = written[w],
           \A t \in Side : OnlyHalf(r, t, w) /\ HalfState(r, t, w) /\ TotalsExact(w)
                               => HalfState(r, t, w)' /\ TotalsExact(w)'
    PROVE  Serial(w)'
  <1>1. CASE Touches(r, w)
    <2>1. PICK t \in Side : OnlyHalf(r, t, w)
      BY <1>1, OneHalf
    <2>2. TotalsExact(w) /\ HalfState(r, t, w) /\ \A q \in Requests \ {r} : ~Touches(q, w)
      BY <2>1, SerialDown
    <2>3. OnlyHalf(r, t, w)'
      BY <2>1 DEF OnlyHalf, Half
    <2>4. \A q \in Requests \ {r} : ~Touches(q, w)'
      BY <2>2 DEF Others, Touches, Active
    <2> QED
      BY <2>1, <2>2, <2>3, <2>4, SerialUp
  <1>2. CASE ~Touches(r, w)
    BY <1>2, SerialElsewhere DEF Touches
  <1> QED
    BY <1>1, <1>2

\* A request that starts finds the wallet free, or overlaps from then on.
LEMMA StartKeepsSerial ==
    ASSUME TypeInv, NEW w \in Wallets, Serial(w), w \notin overlapped', TypeInv',
           NEW r \in Requests, NEW o \in Operation, Start(r, o)
    PROVE  Serial(w)'
  <1>1. /\ Others(r) /\ ~Active(r) /\ Active(r)' /\ op'[r] = o
        /\ At(r, "find", FirstSide(o))'
        /\ UNCHANGED <<wallet, ledger, written, unledgered>>
    BY DEF Start, Goto, Others, Active, At, rows, TypeInv, TypeOK
  <1>2. CASE w \in {o.src, o.dst}
    <2>1. \A q \in Requests : ~Touches(q, w)
      BY <1>2 DEF Start
    <2>2. TotalsExact(w) /\ (w \notin unledgered => ledger[w] = wallet[w].balance)
      BY <2>1, HalfTouches DEF Serial, Accounted
    <2>3. Touches(r, w)'
      BY <1>1, <1>2 DEF Touches
    <2>4. PICK t \in Side : OnlyHalf(r, t, w)'
      <3>1. o.kind \in {"credit", "debit", "transfer"} /\ Allowed(o)
        BY DEF Start, Operation
      <3>2. CASE o.kind = "transfer"
        <4>1. o.src # o.dst
          BY <3>1, <3>2 DEF Allowed, AllowedTransfer
        <4> QED
          BY <1>1, <1>2, <3>2, <4>1 DEF OnlyHalf, Half, HasSide, WalletOf, Side
      <3>3. CASE o.kind # "transfer"
        BY <1>1, <1>2, <3>1, <3>3 DEF Allowed, OnlyHalf, Half, HasSide, WalletOf, Side
      <3> QED
        BY <3>2, <3>3
    <2>5. ~Found(r, t)' /\ ~At(r, "write", t)' /\ ~Pending(r, t)'
      BY <1>1, <2>4 DEF At, Found, Past, Pending, Written, OnlyHalf, Half, HasSide, FirstSide,
                        Active
    <2>6. HalfState(r, t, w)' /\ TotalsExact(w)'
      BY <1>1, <2>2, <2>5 DEF HalfState, TotalsExact
    <2>7. \A q \in Requests \ {r} : ~Touches(q, w)'
      BY <1>1, <2>1 DEF Others, Touches, Active
    <2> QED
      BY <2>4, <2>6, <2>7, SerialUp
  <1>3. CASE w \notin {o.src, o.dst}
    BY <1>1, <1>3, SerialElsewhere DEF Touches
  <1> QED
    BY <1>2, <1>3

\* Every step keeps the undisturbed wallets' rows, ledger and requests in
\* agreement.
LEMMA NextSerialInv == TypeInv /\ TypeInv' /\ SerialInv /\ [Next]_vars => SerialInv'
  <1> SUFFICES ASSUME TypeInv, TypeInv', SerialInv, [Next]_vars,
                      NEW w \in Wallets, w \notin overlapped'
               PROVE  Serial(w)'
    BY DEF SerialInv
  <1>0. ASSUME w \notin overlapped PROVE Serial(w)
    BY <1>0 DEF SerialInv
  <1>1. CASE UNCHANGED vars
    <2>1. Serial(w)
      BY <1>0, <1>1 DEF vars, history
    <2> QED
      BY <1>1, <2>1
      DEF vars, rows, locals, control, history, Serial, Alone, TotalsExact, ReadsCurrent,
          Accounted, Half, Touches, Active, At, Found, Past, Written, Pending, Booked,
          WalletOf
  <1>2. ASSUME NEW r \in Requests, Active(r), Stop(r)
        PROVE  Serial(w)'
    BY <1>0, <1>2, StopKeepsSerial DEF Stop
  <1>3. ASSUME NEW r \in Requests, NEW o \in Operation, Start(r, o)
        PROVE  Serial(w)'
    BY <1>0, <1>3, StartKeepsSerial DEF Start
  <1>4. ASSUME NEW r \in Requests, NEW s \in Side, Find(r, s)
        PROVE  Serial(w)'
    <2>1. /\ Serial(w) /\ Active(r) /\ Active(r)' /\ op' = op /\ Others(r)
          /\ UNCHANGED <<wallet, ledger, written, unledgered>>
      BY <1>0, <1>4 DEF Find, Goto, At, Active, Others, rows, history, TypeInv, TypeOK
    <2>2. ASSUME NEW t \in Side, OnlyHalf(r, t, w), HalfState(r, t, w), TotalsExact(w)
          PROVE  HalfState(r, t, w)' /\ TotalsExact(w)'
      <3>1. ~Written(r, t) /\ ~Written(r, t)' /\ ~At(r, "write", t)'
        BY <1>4, <2>2
        DEF Find, Goto, At, Written, FirstSide, OnlyHalf, Half, HasSide, TypeInv, TypeOK
      <3>2. CASE t = s
        <4>1. w = WalletOf(op[r], s)
          BY <2>2, <3>2 DEF OnlyHalf, Half
        <4>2. before'[r][s] = wallet[w].balance
          BY <1>4, <4>1 DEF Find, TypeInv, TypeOK
        <4> QED
          BY <2>1, <2>2, <3>1, <3>2, <4>2 DEF HalfState, TotalsExact, Pending
      <3>3. CASE t # s
        <4>1. Found(r, t)' => Found(r, t)
          BY <1>4, <2>2, <3>3
          DEF Find, Goto, At, Found, Past, OnlyHalf, Half, HasSide, FirstSide, DstNext, Side,
              TypeInv, TypeOK, Running, Active
        <4>2. before'[r][t] = before[r][t]
          BY <1>4, <3>3 DEF Find, TypeInv, TypeOK
        <4> QED
          BY <2>1, <2>2, <3>1, <4>1, <4>2 DEF HalfState, TotalsExact, Pending
      <3> QED
        BY <3>2, <3>3
    <2> QED
      BY <2>1, <2>2, StepKeepsSerial
  <1>5. ASSUME NEW r \in Requests, NEW s \in Side, Reread(r, s)
        PROVE  Serial(w)'
    <2>1. /\ Serial(w) /\ Active(r) /\ Active(r)' /\ op' = op /\ Others(r)
          /\ UNCHANGED <<wallet, ledger, written, unledgered, before, after>>
      BY <1>0, <1>5 DEF Reread, Goto, At, Active, Others, rows, history, TypeInv, TypeOK
    <2>2. ASSUME NEW t \in Side, OnlyHalf(r, t, w), HalfState(r, t, w), TotalsExact(w)
          PROVE  HalfState(r, t, w)' /\ TotalsExact(w)'
      <3>1. /\ Found(r, t)' <=> Found(r, t)
            /\ Written(r, t)' <=> Written(r, t)
            /\ Booked(r, t)' <=> Booked(r, t)
        BY <1>5 DEF Reread, Goto, At, Found, Past, Written, Booked, TypeInv, TypeOK
      <3>2. At(r, "write", t)' => snap'[r] = wallet[w]
        BY <1>5, <2>2 DEF Reread, Goto, At, OnlyHalf, Half, TypeInv, TypeOK
      <3> QED
        BY <2>1, <2>2, <3>1, <3>2 DEF HalfState, TotalsExact, Pending
    <2> QED
      BY <2>1, <2>2, StepKeepsSerial
  <1>6. ASSUME NEW r \in Requests, NEW s \in Side, Write(r, s)
        PROVE  Serial(w)'
    <2>1. /\ Serial(w) /\ Active(r) /\ Active(r)' /\ op' = op /\ Others(r)
          /\ UNCHANGED <<ledger, unledgered, before, snap>>
      BY <1>0, <1>6 DEF Write, Goto, At, Active, Others, history, TypeInv, TypeOK
    <2>2. op[r].amt \in Nat /\ snap[r] \in Row /\ WalletOf(op[r], s) \in Wallets
          /\ HasSide(op[r], s)
      BY <1>6, AmountAssumption
      DEF Write, At, TypeInv, TypeOK, Running, Active, Operation, WalletOf
    <2>3. ASSUME w # WalletOf(op[r], s)
          PROVE  wallet'[w] = wallet[w] /\ written'[w] = written[w]
      BY <1>6, <2>3 DEF Write, TypeInv, TypeOK
    <2>4. ~Touches(r, w) => w # WalletOf(op[r], s)
      BY <2>1 DEF Touches, WalletOf
    <2>5. ASSUME NEW t \in Side, OnlyHalf(r, t, w), HalfState(r, t, w), TotalsExact(w)
          PROVE  HalfState(r, t, w)' /\ TotalsExact(w)'
      <3>1. CASE t = s
        <4>1. w = WalletOf(op[r], s) /\ At(r, "write", s) /\ snap[r] = wallet[w]
          BY <1>6, <2>5, <3>1 DEF Write, OnlyHalf, Half, HalfState
        <4>2. Found(r, s) /\ ~Written(r, s) /\ ~Pending(r, s)
          BY <4>1 DEF At, Found, Past, Written, Pending
        <4>3. wallet'[w] = Updated(wallet[w], op[r], s) /\ after'[r][s] = wallet'[w].balance
          BY <1>6, <4>1 DEF Write, TypeInv, TypeOK
        <4>4. before[r][s] + Delta(op[r], s) = after'[r][s]
          BY <2>5, <3>1, <4>2, <4>3 DEF HalfState, Updated
        <4>5. Pending(r, s)'
          BY <1>6, <2>2
          DEF Write, Goto, At, Pending, Written, Booked, DstNext, FirstSide, HasSide, Side,
              TypeInv, TypeOK
        <4>6. Written(r, s)' /\ ~At(r, "write", s)'
          BY <1>6, <4>5 DEF Pending, Write, Goto, At, TypeInv, TypeOK
        <4>7. w \notin unledgered => ledger[w] = before[r][s]
          BY <2>5, <3>1, <4>2 DEF HalfState
        <4>8. TotalsExact(w)'
          <5>1. CASE s = "dst"
            BY <1>6, <2>2, <2>5, <4>1, <4>3, <5>1
            DEF Write, Updated, TotalsExact, TypeInv, TypeOK
          <5>2. CASE s = "src"
            BY <1>6, <2>2, <2>5, <4>1, <4>3, <5>2
            DEF Write, Updated, TotalsExact, TypeInv, TypeOK
          <5> QED
            BY <5>1, <5>2 DEF Side
        <4> QED
          BY <2>1, <3>1, <4>3, <4>4, <4>5, <4>6, <4>7, <4>8 DEF HalfState
      <3>2. CASE t # s
        <4>1. w # WalletOf(op[r], s)
          BY <2>1, <2>2, <2>5, <3>2 DEF OnlyHalf, Half
        <4>2. after'[r][t] = after[r][t] /\ ~At(r, "write", t)'
          BY <1>6, <3>2 DEF Write, Goto, At, TypeInv, TypeOK
        <4>3. /\ Found(r, t)' <=> Found(r, t)
              /\ Written(r, t)' <=> Written(r, t)
              /\ Booked(r, t)' <=> Booked(r, t)
          BY <1>6, <2>2, <2>5, <3>2
          DEF Write, Goto, At, Found, Past, Written, Booked, DstNext, FirstSide, OnlyHalf,
              Half, HasSide, Side, TypeInv, TypeOK
        <4> QED
          BY <2>1, <2>3, <2>5, <4>1, <4>2, <4>3 DEF HalfState, TotalsExact, Pending
      <3> QED
        BY <3>1, <3>2
    <2> QED
      BY <2>1, <2>3, <2>4, <2>5, StepKeepsSerial
  <1>7. ASSUME NEW r \in Requests, NEW s \in Side, Ledger(r, s)
        PROVE  Serial(w)'
    <2>1. /\ Serial(w) /\ Active(r) /\ HasSide(op[r], s) /\ WalletOf(op[r], s) \in Wallets
          /\ UNCHANGED <<wallet, written, unledgered>>
      BY <1>0, <1>7
      DEF Ledger, At, Active, history, TypeInv, TypeOK, Running, Operation, WalletOf
    <2>2. w # WalletOf(op[r], s) => ledger'[w] = ledger[w]
      BY <1>7 DEF Ledger, TypeInv, TypeOK
    <2>3. ASSUME OnlyHalf(r, s, w), HalfState(r, s, w), w \notin unledgered
          PROVE  ledger'[w] = wallet[w].balance
      <3>1. w = WalletOf(op[r], s)
        BY <2>3 DEF OnlyHalf, Half
      <3>2. Pending(r, s)
        BY <1>7 DEF Ledger, At, Pending, Written, Booked
      <3>3. ledger[w] = before[r][s] /\ before[r][s] + Delta(op[r], s) = wallet[w].balance
        BY <2>3, <3>2 DEF HalfState
      <3> QED
        BY <1>7, <3>1, <3>3 DEF Ledger, TypeInv, TypeOK
    <2>4. CASE DstNext(r)
      <3>1. /\ s = "src" /\ At(r, "ledger", "dst")' /\ op' = op /\ Others(r) /\ Active(r)'
            /\ UNCHANGED <<before, after, snap>>
        BY <1>7, <2>4
        DEF Ledger, Goto, At, DstNext, locals, Active, Others, TypeInv, TypeOK
      <3>2. ASSUME NEW t \in Side, OnlyHalf(r, t, w), HalfState(r, t, w), TotalsExact(w)
            PROVE  HalfState(r, t, w)' /\ TotalsExact(w)'
        <4>1. Written(r, t) /\ Written(r, t)' /\ ~At(r, "write", t)'
          BY <1>7, <3>1 DEF Ledger, At, Written
        <4>2. CASE t = s
          <5>1. Booked(r, t)'
            BY <3>1, <4>2 DEF Booked, At
          <5> QED
            BY <2>1, <2>3, <3>2, <4>1, <4>2, <5>1 DEF HalfState, TotalsExact, Pending
        <4>3. CASE t # s
          <5>1. ~Booked(r, t) /\ ~Booked(r, t)' /\ w # WalletOf(op[r], s)
            BY <2>1, <3>1, <3>2, <4>3 DEF Booked, OnlyHalf, Half, Side
          <5> QED
            BY <2>1, <2>2, <3>1, <3>2, <4>1, <5>1 DEF HalfState, TotalsExact, Pending
        <4> QED
          BY <4>2, <4>3
      <3>3. ~Touches(r, w) => ledger'[w] = ledger[w]
        BY <2>1, <2>2 DEF Touches, WalletOf
      <3> QED
        BY <2>1, <3>1, <3>2, <3>3, StepKeepsSerial
    <2>5. CASE ~DstNext(r)
      <3>1. ASSUME Touches(r, w), w \notin unledgered'
            PROVE  ledger'[w] = wallet[w].balance
        <4>1. PICK t \in Side : OnlyHalf(r, t, w)
          BY <3>1, OneHalf
        <4>2. HalfState(r, t, w) /\ w \notin unledgered
          BY <2>1, <3>1, <4>1, SerialDown
        <4>3. CASE t = s
          BY <2>3, <4>1, <4>2, <4>3
        <4>4. CASE t # s
          <5>1. w # WalletOf(op[r], s) /\ Booked(r, t)
            BY <1>7, <2>1, <2>5, <4>1, <4>4
            DEF Ledger, At, Booked, DstNext, OnlyHalf, Half, HasSide, Side
          <5> QED
            BY <2>2, <4>2, <5>1 DEF HalfState, Pending
        <4> QED
          BY <4>3, <4>4
      <3>2. ~Touches(r, w) => ledger'[w] = ledger[w]
        BY <2>1, <2>2 DEF Touches, WalletOf
      <3>3. Return(r)
        BY <1>7, <2>5 DEF Ledger
      <3> QED
        BY <2>1, <3>1, <3>2, <3>3, ReturnKeepsSerial
    <2> QED
      BY <2>4, <2>5
  <1> QED
    BY <1>1, <1>2, <1>3, <1>4, <1>5, <1>6, <1>7
    DEF Next, Step, RefuseFind, RefuseWrite, RefuseLedger, Abort, At, Active

\* The three inductive invariants hold together.
LEMMA AllInvariants == Spec => [](TypeInv /\ RowInv /\ SerialInv)
  BY InitTypeInv, NextTypeInv, InitRowInv, NextRowInv, InitSerialInv, NextSerialInv, PTL
  DEF Spec

\* Lifetime totals never exceed the amounts written, and match them exactly as
\* long as no two operations on the wallet overlap.
THEOREM TotalsNeverInflated == Spec => []TotalsAccountForWrites
  <1>1. RowInv /\ SerialInv => TotalsAccountForWrites
    BY DEF RowInv, SerialInv, Serial, Within, TotalsExact, TotalsAccountForWrites
  <1> QED
    BY AllInvariants, <1>1, PTL

\* Without overlap, and without an operation that stops between its balance
\* change and its ledger rows, the ledger of a wallet adds up to its balance.
THEOREM SerialLedgerMatches == Spec => []LedgerMatchesUndisturbed
  <1>1. SerialInv => LedgerMatchesUndisturbed
    BY HalfTouches DEF SerialInv, Serial, Accounted, LedgerMatchesUndisturbed
  <1> QED
    BY AllInvariants, <1>1, PTL

\* createEntry refuses an entry only for a wallet where operations overlapped.
THEOREM EntryRefusalMeansOverlap == Spec => []EntryRefusedOnlyAfterOverlap
  <1>1. TypeInv /\ SerialInv => EntryRefusedOnlyAfterOverlap
    <2> SUFFICES ASSUME TypeInv, SerialInv, NEW r \in Requests, NEW s \in Side,
                        At(r, "ledger", s), WalletOf(op[r], s) \notin overlapped
                 PROVE  EntryAddsUp(r, s)
      BY DEF EntryRefusedOnlyAfterOverlap
    <2>1. Half(r, s, WalletOf(op[r], s)) /\ WalletOf(op[r], s) \in Wallets
      BY DEF At, Half, Active, TypeInv, Running, Operation, WalletOf
    <2>2. Pending(r, s)
      BY DEF At, Pending, Written, Booked
    <2> QED
      BY <2>1, <2>2 DEF SerialInv, Serial, ReadsCurrent, EntryAddsUp
  <1> QED
    BY AllInvariants, <1>1, PTL

\* Both of them: entries are refused for a reason, and otherwise add up.
THEOREM EntriesTell == Spec => []EntriesTellBalances
  BY SerialLedgerMatches, EntryRefusalMeansOverlap, PTL DEF EntriesTellBalances

\* The two together: whatever is lost, no row claims what was not written to it.
THEOREM RowsAccounted == Spec => []RowsAccountForWrites
  BY RowsStayConsistent, TotalsNeverInflated, PTL DEF RowsAccountForWrites

(* ---------------------------------------------------------------------- *)
(* WalletLedger implements Bookkeeping                                    *)

Astray == overlapped \cup unledgered

\* The steps of the books, told by the variables of this module.
LEMMA RestMapped ==
    ASSUME NEW w \in Wallets, wallet'[w].balance = wallet[w].balance, ledger'[w] = ledger[w],
           Asked(w)' = Asked(w)
    PROVE  Books!Rest(w)
  BY DEF Books!Rest, Books!SameMoney

LEMMA AskMapped ==
    ASSUME NEW w \in Wallets, NEW f, w \in DOMAIN f, f[w] # 0, DOMAIN f \subseteq Wallets,
           w \notin Astray', ledger[w] = wallet[w].balance, UNCHANGED <<wallet, ledger>>,
           \A b \in DOMAIN f \ Astray' : Asked(b) = {} /\ Asked(b)' = {f}
    PROVE  Books!Ask(w)
  <1>1. Books!SameMoney(w) /\ [v \in Wallets |-> wallet[v].balance][w] = ledger[w]
    BY DEF Books!SameMoney
  <1>2. \A b \in Books!Kept(f) : b \in Wallets /\ b \in DOMAIN f \ Astray'
    BY DEF Books!Kept, Astray
  <1>3. \A b \in Books!Kept(f) : /\ [v \in Wallets |-> Asked(v)][b] = {}
                                 /\ [v \in Wallets |-> Asked(v)]'[b] = {f}
    BY <1>2
  <1>4. f \in [v \in Wallets |-> Asked(v)]'[w]
    BY <1>3 DEF Books!Kept, Astray
  <1> QED
    BY <1>1, <1>3, <1>4 DEF Books!Ask

LEMMA ChangeMapped ==
    ASSUME NEW w \in Wallets, NEW f, Asked(w) = {f}, ledger[w] = wallet[w].balance,
           f[w] > 0 => \A b \in DOMAIN f \ Astray' : f[b] < 0 => Books!Moved(f, b),
           wallet'[w].balance = wallet[w].balance + f[w], wallet'[w].balance >= 0,
           ledger'[w] = ledger[w], Asked(w)' = Asked(w)
    PROVE  Books!Change(w)
  <1>1. f \in [v \in Wallets |-> Asked(v)][w] /\ Books!Untouched(f, w)
    BY DEF Books!Untouched
  <1>2. f[w] > 0 => \A b \in Books!Kept(f) : f[b] < 0 => Books!Moved(f, b)
    BY DEF Books!Kept, Astray
  <1> QED
    BY <1>1, <1>2 DEF Books!Change

LEMMA EnterMapped ==
    ASSUME NEW w \in Wallets, NEW f, Books!Moved(f, w),
           \A b \in DOMAIN f \ Astray' : ~Books!Untouched(f, b),
           wallet'[w].balance = wallet[w].balance, ledger'[w] = wallet[w].balance,
           Asked(w)' = {}
    PROVE  Books!Enter(w)
  <1>1. f \in [v \in Wallets |-> Asked(v)][w]
    BY DEF Books!Moved
  <1>2. \A b \in Books!Kept(f) : ~Books!Untouched(f, b)
    BY DEF Books!Kept, Astray
  <1> QED
    BY <1>1, <1>2 DEF Books!Enter

LEMMA RefuseMapped ==
    ASSUME NEW w \in Wallets, NEW f, Asked(w) = {f}, w \in DOMAIN f, DOMAIN f \subseteq Wallets,
           UNCHANGED <<wallet, ledger>>,
           \A b \in DOMAIN f \ Astray' : Books!Untouched(f, b) /\ Asked(b)' = {}
    PROVE  Books!Refuse(w)
  <1>1. f \in [v \in Wallets |-> Asked(v)][w] /\ Books!SameMoney(w)
    BY DEF Books!SameMoney
  <1>2. \A b \in Books!Kept(f) : /\ Books!Untouched(f, b)
                                 /\ [v \in Wallets |-> Asked(v)]'[b] = {}
    BY DEF Books!Kept, Astray
  <1> QED
    BY <1>1, <1>2 DEF Books!Refuse

\* An operation adds to each of its wallets what its half there moves.
LEMMA EffectOf ==
    ASSUME NEW o \in Operation, Allowed(o)
    PROVE  /\ DOMAIN Effect(o) = {o.src, o.dst}
           /\ \A w \in {o.src, o.dst} : \E t \in Side : HasSide(o, t) /\ WalletOf(o, t) = w
           /\ \A t \in Side : HasSide(o, t) =>
                  /\ WalletOf(o, t) \in {o.src, o.dst}
                  /\ Effect(o)[WalletOf(o, t)] = Delta(o, t)
                  /\ Delta(o, t) \in Int \ {0}
                  /\ Delta(o, t) > 0 <=> t = "dst"
  <1>1. o.amt \in Amounts /\ o.kind \in {"credit", "debit", "transfer"}
    BY DEF Operation
  <1>2. o.amt \in Nat \ {0}
    BY <1>1, AmountAssumption
  <1>3. IF o.kind = "transfer" THEN o.src # o.dst ELSE o.src = o.dst
    BY DEF Allowed, AllowedTransfer
  <1>4. DOMAIN Effect(o) = {o.src, o.dst}
    BY DEF Effect
  <1>5. \A w \in {o.src, o.dst} : \E t \in Side : HasSide(o, t) /\ WalletOf(o, t) = w
    BY <1>1, <1>3 DEF HasSide, WalletOf, Side
  <1>6. ASSUME NEW t \in Side, HasSide(o, t)
        PROVE  /\ WalletOf(o, t) \in {o.src, o.dst}
               /\ Effect(o)[WalletOf(o, t)] = Delta(o, t)
    BY <1>1, <1>3, <1>6 DEF Effect, Delta, HasSide, WalletOf, Side
  <1>7. \A t \in Side : Delta(o, t) \in Int \ {0} /\ (Delta(o, t) > 0 <=> t = "dst")
    BY <1>2 DEF Delta, Side
  <1> QED
    BY <1>4, <1>5, <1>6, <1>7

\* The same of the half of a running request.
LEMMA EffectIs ==
    ASSUME TypeInv, NEW r \in Requests, NEW t \in Side, NEW w \in Wallets, OnlyHalf(r, t, w)
    PROVE  /\ DOMAIN Effect(op[r]) = {op[r].src, op[r].dst}
           /\ w \in DOMAIN Effect(op[r])
           /\ Effect(op[r])[w] = Delta(op[r], t)
           /\ Delta(op[r], t) \in Int \ {0}
           /\ Effect(op[r])[w] > 0 <=> t = "dst"
           /\ Entered(r, w) <=> Booked(r, t)
           /\ wallet[w].balance \in Int /\ ledger[w] \in Int
  <1>1. /\ op[r] \in Operation /\ Allowed(op[r]) /\ HasSide(op[r], side[r]) /\ side[r] \in Side
        /\ HasSide(op[r], t) /\ WalletOf(op[r], t) = w
    BY DEF OnlyHalf, Half, TypeInv, TypeOK, Running
  <1>2. op[r].kind = "transfer" => op[r].src # op[r].dst
    BY <1>1 DEF Allowed, AllowedTransfer
  <1>3. Entered(r, w) <=> Booked(r, t)
    BY <1>1, <1>2 DEF Entered, Booked, At, HasSide, WalletOf, Side
  <1>4. wallet[w].balance \in Int /\ ledger[w] \in Int
    BY DEF TypeInv, TypeOK, Row
  <1> QED
    BY <1>1, <1>3, <1>4, EffectOf

\* How far an undisturbed operation has come on a wallet, as the books see it.
LEMMA HalfSeen ==
    ASSUME TypeInv, SerialInv, NEW w \in Wallets, w \notin Astray,
           NEW r \in Requests, NEW t \in Side, OnlyHalf(r, t, w)
    PROVE  /\ \A q \in Requests \ {r} : ~Touches(q, w)
           /\ Booked(r, t) => Asked(w) = {}
           /\ ~Booked(r, t) => Asked(w) = {Effect(op[r])}
           /\ ~Pending(r, t) => ledger[w] = wallet[w].balance
           /\ ~Written(r, t) => Books!Untouched(Effect(op[r]), w)
           /\ Pending(r, t) => Books!Moved(Effect(op[r]), w)
           /\ Written(r, t) => ~Books!Untouched(Effect(op[r]), w)
           /\ At(r, "write", t) => snap[r] = wallet[w]
  <1>1. HalfState(r, t, w) /\ \A q \in Requests \ {r} : ~Touches(q, w)
    BY SerialDown DEF SerialInv, Astray
  <1>2. Touches(r, w)
    BY HalfTouches DEF OnlyHalf
  <1>3. (Booked(r, t) => Asked(w) = {}) /\ (~Booked(r, t) => Asked(w) = {Effect(op[r])})
    <2>1. Entered(r, w) <=> Booked(r, t)
      BY EffectIs
    <2>2. {q \in Requests : Touches(q, w) /\ ~Entered(q, w)} = IF Booked(r, t) THEN {} ELSE {r}
      BY <1>1, <1>2, <2>1
    <2> QED
      BY <2>2 DEF Asked
  <1>4. ~Pending(r, t) => ledger[w] = wallet[w].balance
    BY <1>1 DEF HalfState, Astray
  <1>5. Pending(r, t) => ledger[w] = before[r][t] /\ before[r][t] + Delta(op[r], t) = wallet[w].balance
    BY <1>1 DEF HalfState, Astray
  <1>6. ~Written(r, t) => ~Pending(r, t) /\ ~Booked(r, t)
    BY DEF Pending, Booked, Written
  <1>7. ~Written(r, t) => Books!Untouched(Effect(op[r]), w)
    BY <1>3, <1>4, <1>6 DEF Books!Untouched
  <1>8. Pending(r, t) => Books!Moved(Effect(op[r]), w)
    BY <1>3, <1>5, EffectIs DEF Books!Moved, Pending
  <1>9. Written(r, t) => ~Books!Untouched(Effect(op[r]), w)
    <2>1. CASE Booked(r, t)
      BY <1>3, <2>1 DEF Books!Untouched
    <2>2. CASE ~Booked(r, t)
      <3>1. Pending(r, t) => wallet[w].balance # ledger[w]
        <4>1. before[r] \in [Side -> Int]
          BY DEF TypeInv, TypeOK
        <4>2. before[r][t] \in Int
          BY <4>1
        <4>3. Delta(op[r], t) \in Int \ {0}
          BY EffectIs
        <4> QED
          BY <1>5, <4>2, <4>3
      <3> QED
        BY <2>2, <3>1 DEF Books!Untouched, Pending
    <2> QED
      BY <2>1, <2>2
  <1> QED
    BY <1>1, <1>3, <1>4, <1>7, <1>8, <1>9 DEF HalfState

\* A wallet that no operation touches is asked nothing and fully entered.
LEMMA FreeSeen ==
    ASSUME SerialInv, NEW w \in Wallets, w \notin Astray, \A q \in Requests : ~Touches(q, w)
    PROVE  Asked(w) = {} /\ ledger[w] = wallet[w].balance
  <1>1. \A q \in Requests, s \in Side : ~Half(q, s, w)
    BY HalfTouches
  <1> QED
    BY <1>1 DEF Asked, SerialInv, Serial, Accounted, Astray

\* What is asked of a wallet does not change while its request goes on.
LEMMA AskedKept ==
    ASSUME NEW w \in Wallets, NEW r \in Requests, Others(r), op'[r] = op[r],
           Touches(r, w) <=> Touches(r, w)', Entered(r, w) <=> Entered(r, w)'
    PROVE  Asked(w)' = Asked(w)
  <1>1. \A q \in Requests :
            /\ Touches(q, w)' <=> Touches(q, w)
            /\ Entered(q, w)' <=> Entered(q, w)
            /\ op'[q] = op[q]
    BY DEF Others, Touches, Active, Entered, At
  <1>2. Asked(w)' = {Effect(op'[q]) : q \in {p \in Requests : Touches(p, w)' /\ ~Entered(p, w)'}}
    BY DEF Asked, Effect, HasSide
  <1>3. {p \in Requests : Touches(p, w)' /\ ~Entered(p, w)'} =
        {p \in Requests : Touches(p, w) /\ ~Entered(p, w)}
    BY <1>1
  <1> QED
    BY <1>1, <1>2, <1>3 DEF Asked

\* The same of a wallet that the stepping request is not on.
LEMMA AskedElsewhere ==
    ASSUME NEW w \in Wallets, NEW r \in Requests, Others(r), ~Touches(r, w), ~Touches(r, w)'
    PROVE  Asked(w)' = Asked(w)
  <1>1. \A q \in Requests :
            /\ Touches(q, w)' /\ ~Entered(q, w)' <=> Touches(q, w) /\ ~Entered(q, w)
            /\ q # r => op'[q] = op[q]
    BY DEF Others, Touches, Active, Entered, At
  <1>2. Asked(w)' = {Effect(op'[q]) : q \in {p \in Requests : Touches(p, w)' /\ ~Entered(p, w)'}}
    BY DEF Asked, Effect, HasSide
  <1>3. {p \in Requests : Touches(p, w)' /\ ~Entered(p, w)'} =
        {p \in Requests : Touches(p, w) /\ ~Entered(p, w)}
    BY <1>1
  <1>4. \A p \in Requests : Touches(p, w) /\ ~Entered(p, w) => Effect(op'[p]) = Effect(op[p])
    BY <1>1
  <1> QED
    BY <1>2, <1>3, <1>4 DEF Asked

\* Nothing is asked of a wallet whose one request is over.
LEMMA AskedGone ==
    ASSUME NEW w \in Wallets, NEW r \in Requests, Others(r), ~Active(r)',
           \A q \in Requests \ {r} : ~Touches(q, w)
    PROVE  Asked(w)' = {}
  <1>1. \A q \in Requests : ~Touches(q, w)'
    BY DEF Others, Touches, Active
  <1> QED
    BY <1>1 DEF Asked

(* ---------------------------------------------------------------------- *)
(* Each step of a request is a step of the books                          *)

\* A wallet for which the books still promise something after a step.
Kept(w) == w \in Wallets /\ w \notin Astray /\ w \notin Astray'
Acts(w) == Books!Ask(w) \/ Books!Change(w) \/ Books!Enter(w) \/ Books!Refuse(w) \/ Books!Rest(w)

\* A wallet that has gone astray stays so.
LEMMA AstrayGrows ==
    ASSUME [Next]_vars
    PROVE  Astray \subseteq Astray'
  BY DEF Next, Step, Start, Find, RefuseFind, Reread, Write, RefuseWrite, Ledger, RefuseLedger,
         Abort, Stop, vars, history, Astray

\* A request that starts asks its operation of all its undisturbed wallets.
LEMMA StartSeen ==
    ASSUME TypeInv, SerialInv, NEW r \in Requests, NEW o \in Operation, Start(r, o),
           NEW w \in Wallets, Kept(w)
    PROVE  Acts(w)
  <1>1. /\ Others(r) /\ ~Active(r) /\ Active(r)' /\ op'[r] = o
        /\ At(r, "find", FirstSide(o))'
        /\ UNCHANGED <<wallet, ledger>>
    BY DEF Start, Goto, Others, Active, At, rows, TypeInv, TypeOK
  <1>2. ~Touches(r, w)
    BY <1>1 DEF Touches
  <1>3. CASE w \in {o.src, o.dst}
    <2>1. ASSUME NEW b \in {o.src, o.dst}, b \notin Astray'
          PROVE  Asked(b) = {} /\ Asked(b)' = {Effect(o)} /\ ledger[b] = wallet[b].balance
      <3>1. b \in Wallets /\ b \notin Astray /\ \A q \in Requests : ~Touches(q, b)
        BY <2>1 DEF Start, Operation, Astray
      <3>2. Asked(b) = {} /\ ledger[b] = wallet[b].balance
        BY <3>1, FreeSeen
      <3>3. Touches(r, b)' /\ ~Entered(r, b)'
        BY <1>1, <2>1 DEF Touches, Entered, At
      <3>4. \A q \in Requests \ {r} : ~Touches(q, b)'
        BY <1>1, <3>1 DEF Others, Touches, Active
      <3>5. {q \in Requests : Touches(q, b)' /\ ~Entered(q, b)'} = {r}
        BY <3>3, <3>4
      <3>6. Asked(b)' = {Effect(op'[q]) : q \in {p \in Requests : Touches(p, b)' /\ ~Entered(p, b)'}}
        BY DEF Asked, Effect, HasSide
      <3> QED
        BY <1>1, <3>2, <3>5, <3>6
    <2>2. Allowed(o)
      BY DEF Start
    <2>3. w \in DOMAIN Effect(o) /\ DOMAIN Effect(o) = {o.src, o.dst} /\ Effect(o)[w] # 0
      BY <1>3, <2>2, EffectOf
    <2> QED
      <3>1. {o.src, o.dst} \subseteq Wallets
        BY DEF Operation
      <3> QED
        BY <1>1, <1>3, <2>1, <2>3, <3>1, AskMapped DEF Acts, Kept
  <1>4. CASE w \notin {o.src, o.dst}
    <2>1. ~Touches(r, w)'
      BY <1>1, <1>4 DEF Touches
    <2> QED
      BY <1>1, <1>2, <2>1, AskedElsewhere, RestMapped DEF Acts
  <1> QED
    BY <1>3, <1>4

\* The service's read and the repository's.
LEMMA ReadSeen ==
    ASSUME TypeInv, NEW r \in Requests, NEW s \in Side, Find(r, s) \/ Reread(r, s),
           NEW w \in Wallets
    PROVE  Acts(w)
  <1>1. /\ Others(r) /\ op' = op /\ Active(r) /\ Active(r)'
        /\ stage[r] # "ledger" /\ stage'[r] # "ledger" /\ UNCHANGED <<wallet, ledger>>
    BY DEF Find, Reread, Goto, At, Active, Others, rows, TypeInv, TypeOK
  <1>2. Asked(w)' = Asked(w)
    BY <1>1, AskedKept DEF Touches, Entered, At
  <1> QED
    BY <1>1, <1>2, RestMapped DEF Acts

\* One that stops is refused on both wallets, or has moved money.
LEMMA StopSeen ==
    ASSUME TypeInv, SerialInv, NEW r \in Requests, Active(r), Stop(r), NEW w \in Wallets, Kept(w)
    PROVE  Acts(w)
  <1>1. Others(r) /\ ~Active(r)' /\ UNCHANGED <<wallet, ledger>>
    BY DEF Stop, Return, Goto, Others, Active, rows, TypeInv, TypeOK
  <1>2. CASE ~Touches(r, w)
    BY <1>1, <1>2, AskedElsewhere, RestMapped DEF Acts, Touches
  <1>3. CASE Touches(r, w)
    <2>1. ~MovedMoney(r) /\ op[r] \in Operation /\ Allowed(op[r])
      BY <1>3 DEF Stop, Touches, Kept, Astray, TypeInv, Running
    <2>2. DOMAIN Effect(op[r]) = {op[r].src, op[r].dst} /\ {op[r].src, op[r].dst} \subseteq Wallets
      BY <2>1, EffectOf DEF Operation
    <2>3. ASSUME NEW b \in {op[r].src, op[r].dst}, b \notin Astray'
          PROVE  /\ Books!Untouched(Effect(op[r]), b) /\ Asked(b)' = {}
                 /\ Asked(b) = {Effect(op[r])}
      <3>1. b \in Wallets /\ b \notin Astray /\ Touches(r, b)
        BY <2>2, <2>3 DEF Stop, Astray, Touches
      <3>2. PICK t \in Side : OnlyHalf(r, t, b)
        BY <3>1, OneHalf
      <3>3. ~Written(r, t) /\ ~Booked(r, t)
        BY <2>1, <3>2
        DEF Booked, Written, MovedMoney, OnlyHalf, Half, HasSide, TypeInv, Running
      <3>4. /\ \A q \in Requests \ {r} : ~Touches(q, b)
            /\ Asked(b) = {Effect(op[r])} /\ Books!Untouched(Effect(op[r]), b)
        BY <3>1, <3>2, <3>3, HalfSeen
      <3> QED
        BY <1>1, <3>1, <3>4, AskedGone
    <2>4. w \in {op[r].src, op[r].dst} /\ w \notin Astray'
      BY <1>3 DEF Touches, Kept
    <2> QED
      BY <1>1, <2>2, <2>3, <2>4, RefuseMapped DEF Acts
  <1> QED
    BY <1>2, <1>3

\* A write changes the one wallet, after the source if it is a transfer's destination.
LEMMA WriteSeen ==
    ASSUME TypeInv, SerialInv, NEW r \in Requests, NEW s \in Side, Write(r, s),
           NEW w \in Wallets, Kept(w)
    PROVE  Acts(w)
  <1>1. /\ Others(r) /\ op' = op /\ Active(r) /\ Active(r)' /\ At(r, "write", s)
        /\ ledger' = ledger /\ UNCHANGED <<overlapped, unledgered>>
    BY DEF Write, Goto, At, Active, Others, history, TypeInv, TypeOK
  <1>2. /\ op[r] \in Operation /\ Allowed(op[r]) /\ HasSide(op[r], s)
        /\ WalletOf(op[r], s) \in Wallets
    BY <1>1 DEF At, TypeInv, Running, Active, Operation, WalletOf
  <1>3. w # WalletOf(op[r], s) => wallet'[w] = wallet[w]
    BY DEF Write, TypeInv, TypeOK
  <1>4. Asked(w)' = Asked(w)
    <2>1. ~Entered(r, w) /\ ~Entered(r, w)'
      BY <1>1, <1>2 DEF Write, Goto, Entered, At, FirstSide, DstNext, TypeInv, TypeOK
    <2> QED
      BY <1>1, <2>1, AskedKept DEF Touches
  <1>5. CASE w # WalletOf(op[r], s)
    BY <1>1, <1>3, <1>4, <1>5, RestMapped DEF Acts
  <1>6. CASE w = WalletOf(op[r], s)
    <2> DEFINE f == Effect(op[r])
    <2>1. Touches(r, w) /\ w \notin Astray /\ Half(r, s, w)
      BY <1>1, <1>2, <1>6 DEF Touches, WalletOf, Kept, Half
    <2>2. OnlyHalf(r, s, w)
      BY <2>1, OneHalf DEF OnlyHalf
    <2>3. ~Booked(r, s) /\ ~Written(r, s)
      BY <1>1 DEF At, Booked, Written
    <2>4. Asked(w) = {f} /\ ledger[w] = wallet[w].balance /\ snap[r] = wallet[w]
      BY <1>1, <2>1, <2>2, <2>3, HalfSeen DEF Pending
    <2>5. wallet'[w].balance = wallet[w].balance + f[w] /\ wallet'[w].balance >= 0
      <3>1. wallet'[w] = Updated(wallet[w], op[r], s) /\ wallet'[w].balance >= 0
        BY <1>6, <2>4 DEF Write, TypeInv, TypeOK
      <3>2. f[w] = Delta(op[r], s)
        BY <2>2, EffectIs
      <3> QED
        BY <3>1, <3>2 DEF Updated
    <2>6. ASSUME f[w] > 0, NEW b \in DOMAIN f \ Astray', f[b] < 0
          PROVE  Books!Moved(f, b)
      <3>1. s = "dst"
        BY <2>2, <2>6, EffectIs
      <3>2. b \in Wallets /\ b \notin Astray /\ Touches(r, b)
        <4>1. DOMAIN f = {op[r].src, op[r].dst} /\ op[r].src \in Wallets /\ op[r].dst \in Wallets
          BY <1>2, EffectOf DEF Operation
        <4> QED
          BY <1>1, <2>6, <4>1 DEF Touches, Astray
      <3>3. PICK t \in Side : OnlyHalf(r, t, b)
        BY <3>2, OneHalf
      <3>4. t = "src"
        <4>1. f[b] = Delta(op[r], t) /\ Delta(op[r], t) \in Int /\ (f[b] > 0 <=> t = "dst")
          BY <3>2, <3>3, EffectIs
        <4> QED
          BY <2>6, <4>1 DEF Side
      <3>5. Pending(r, t)
        BY <1>1, <3>1, <3>4 DEF At, Pending, Written, Booked
      <3> QED
        BY <3>2, <3>3, <3>5, HalfSeen
    <2> QED
      BY <1>1, <1>4, <2>4, <2>5, <2>6, ChangeMapped DEF Acts
  <1> QED
    BY <1>5, <1>6

\* An entry is made once all is written, and leaves the other wallet alone.
LEMMA LedgerSeen ==
    ASSUME TypeInv, SerialInv, NEW r \in Requests, NEW s \in Side, Ledger(r, s),
           NEW w \in Wallets, Kept(w)
    PROVE  Acts(w)
  <1>1. /\ Others(r) /\ Active(r) /\ At(r, "ledger", s)
        /\ UNCHANGED <<wallet, overlapped, unledgered>>
    BY DEF Ledger, Return, Goto, At, Active, Others, locals, history, TypeInv, TypeOK
  <1>2. /\ op[r] \in Operation /\ Allowed(op[r]) /\ HasSide(op[r], s)
        /\ WalletOf(op[r], s) \in Wallets /\ w \notin Astray
    BY <1>1 DEF At, TypeInv, Running, Active, Operation, WalletOf, Kept
  <1>3. w # WalletOf(op[r], s) => ledger'[w] = ledger[w]
    BY DEF Ledger, TypeInv, TypeOK
  <1>4. CASE ~Touches(r, w)
    <2>1. ~Touches(r, w)' /\ w # WalletOf(op[r], s)
      BY <1>1, <1>4 DEF Ledger, Return, Goto, locals, Touches, Active, WalletOf, TypeInv, TypeOK
    <2> QED
      BY <1>1, <1>3, <1>4, <2>1, AskedElsewhere, RestMapped DEF Acts
  <1>5. ASSUME NEW t \in Side, OnlyHalf(r, t, w)
        PROVE  Asked(w)' = IF DstNext(r) /\ t = "dst" THEN Asked(w) ELSE {}
    <2>1. \A q \in Requests \ {r} : ~Touches(q, w)
      BY <1>2, <1>5, HalfSeen
    <2>2. CASE DstNext(r)
      <3>1. /\ s = "src" /\ At(r, "ledger", "dst")' /\ op' = op /\ Active(r)'
            /\ op[r].kind = "transfer"
        BY <1>1, <2>2 DEF Ledger, Goto, At, DstNext, locals, Active, TypeInv, TypeOK
      <3>2. op[r].src # op[r].dst /\ w = WalletOf(op[r], t)
        BY <1>2, <1>5, <3>1 DEF Allowed, AllowedTransfer, OnlyHalf, Half
      <3>3. CASE t = "dst"
        <4>1. ~Entered(r, w) /\ ~Entered(r, w)'
          BY <3>1, <3>2, <3>3 DEF Entered, WalletOf
        <4> QED
          BY <1>1, <2>2, <3>1, <3>3, <4>1, AskedKept DEF Touches
      <3>4. CASE t = "src"
        <4>1. Entered(r, w)'
          BY <3>1, <3>2, <3>4 DEF Entered, WalletOf
        <4>2. \A q \in Requests \ {r} : ~Touches(q, w)'
          BY <1>1, <2>1 DEF Others, Touches, Active
        <4>3. {q \in Requests : Touches(q, w)' /\ ~Entered(q, w)'} = {}
          BY <4>1, <4>2
        <4>4. Asked(w)' = {Effect(op'[q]) : q \in {p \in Requests : Touches(p, w)' /\ ~Entered(p, w)'}}
          BY DEF Asked, Effect, HasSide
        <4> QED
          BY <3>4, <4>3, <4>4
      <3> QED
        BY <3>3, <3>4 DEF Side
    <2>3. CASE ~DstNext(r)
      <3>1. ~Active(r)'
        BY <2>3 DEF Ledger, Return, Goto, Active, TypeInv, TypeOK
      <3> QED
        BY <1>1, <2>1, <2>3, <3>1, AskedGone
    <2> QED
      BY <2>2, <2>3
  <1>6. CASE Touches(r, w)
    <2> DEFINE f == Effect(op[r])
    <2>1. PICK t \in Side : OnlyHalf(r, t, w)
      BY <1>6, OneHalf
    <2>2. Half(r, t, w) /\ Half(r, s, WalletOf(op[r], s))
      BY <1>1, <1>2, <2>1 DEF OnlyHalf, Half
    <2>3. CASE t = s
      <3>1. w = WalletOf(op[r], s) /\ Pending(r, s)
        BY <1>1, <2>2, <2>3 DEF Half, At, Pending, Written, Booked
      <3>2. Books!Moved(f, w)
        BY <1>2, <2>1, <2>3, <3>1, HalfSeen
      <3>3. ledger'[w] = wallet[w].balance
        <4>1. ledger'[w] = ledger[w] + Delta(op[r], s)
          BY <3>1 DEF Ledger, TypeInv, TypeOK
        <4>2. wallet[w].balance = ledger[w] + f[w]
          BY <3>2 DEF Books!Moved
        <4> QED
          BY <2>1, <2>3, <4>1, <4>2, EffectIs
      <3>4. Asked(w)' = {}
        BY <1>1, <1>5, <2>1, <2>3 DEF DstNext, At
      <3>5. ASSUME NEW b \in DOMAIN f \ Astray'
            PROVE  ~Books!Untouched(f, b)
        <4>1. b \in Wallets /\ b \notin Astray /\ Touches(r, b)
          <5>1. DOMAIN f = {op[r].src, op[r].dst} /\ op[r].src \in Wallets /\ op[r].dst \in Wallets
            BY <1>2, EffectOf DEF Operation
          <5> QED
            BY <1>1, <3>5, <5>1 DEF Touches, Astray
        <4>2. PICK v \in Side : OnlyHalf(r, v, b)
          BY <4>1, OneHalf
        <4>3. Written(r, v)
          BY <1>1 DEF At, Written
        <4> QED
          BY <4>1, <4>2, <4>3, HalfSeen
      <3> QED
        BY <1>1, <3>2, <3>3, <3>4, <3>5, EnterMapped DEF Acts
    <2>4. CASE t # s
      <3>1. w # WalletOf(op[r], s)
        BY <2>1, <2>2, <2>4 DEF OnlyHalf
      <3>2. op[r].kind = "transfer"
        BY <1>2, <2>2, <2>4 DEF Half, HasSide, Side
      <3>3. Asked(w)' = Asked(w)
        <4>1. CASE DstNext(r)
          BY <1>1, <1>5, <2>1, <2>4, <4>1 DEF DstNext, At, Side
        <4>2. CASE ~DstNext(r)
          <5>1. Booked(r, t)
            BY <1>1, <2>4, <3>2, <4>2 DEF DstNext, At, Booked, Side
          <5> QED
            BY <1>2, <1>5, <2>1, <4>2, <5>1, HalfSeen
        <4> QED
          BY <4>1, <4>2
      <3> QED
        BY <1>1, <1>3, <3>1, <3>3, RestMapped DEF Acts
    <2> QED
      BY <2>3, <2>4
  <1> QED
    BY <1>4, <1>6

\* Every step of a request is one of the books, or none.
LEMMA StepSeen == TypeInv /\ SerialInv /\ [Next]_vars => [Books!Next]_(Books!vars)
  <1> SUFFICES ASSUME TypeInv, SerialInv, [Next]_vars
               PROVE  [Books!Next]_(Books!vars)
    OBVIOUS
  <1>1. CASE UNCHANGED vars
    BY <1>1 DEF vars, rows, locals, control, history, Books!vars, Asked, Touches, Active, Entered,
                At, Effect, HasSide
  <1>2. CASE Next
    <2>1. ASSUME NEW w \in Wallets, Kept(w)
          PROVE  Acts(w)
      <3>1. PICK r \in Requests : Step(r)
        BY <1>2 DEF Next
      <3>2. CASE \E o \in Operation : Start(r, o)
        BY <2>1, <3>2, StartSeen
      <3>3. CASE \E s \in Side : Find(r, s) \/ Reread(r, s)
        BY <3>3, ReadSeen
      <3>4. CASE \E s \in Side : Write(r, s)
        BY <2>1, <3>4, WriteSeen
      <3>5. CASE \E s \in Side : Ledger(r, s)
        BY <2>1, <3>5, LedgerSeen
      <3>6. CASE Active(r) /\ Stop(r)
        BY <2>1, <3>6, StopSeen
      <3> QED
        BY <3>1, <3>2, <3>3, <3>4, <3>5, <3>6
        DEF Step, RefuseFind, RefuseWrite, RefuseLedger, Abort, At, Active
    <2>2. Astray \subseteq Astray'
      BY AstrayGrows
    <2> QED
      BY <2>1, <2>2 DEF Books!Next, Acts, Kept, Astray
  <1> QED
    BY <1>1, <1>2

\* Undisturbed operations are the steps of an account: through all their calls,
\* each moves its amount once, takes before it gives, is entered when all is
\* moved, and is refused on both of its wallets or on none.
THEOREM ImplementsBookkeeping == Spec => BooksAreKept
  <1>1. Init => Books!Init
    <2> SUFFICES ASSUME Init PROVE Books!Init
      OBVIOUS
    <2>1. \A w \in Wallets : wallet[w].balance = 0 /\ Asked(w) = {}
      BY DEF Init, NewRow, Asked, Touches, Active
    <2> QED
      BY <2>1 DEF Init, Books!Init
  <1> QED
    BY <1>1, StepSeen, AllInvariants, PTL DEF Spec, BooksAreKept, Books!Spec
===============================================================================
