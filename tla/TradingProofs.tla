----------------------------- MODULE TradingProofs -----------------------------
(***************************************************************************)
(* Theorems about Trading, for every set of users, trades and runs, every  *)
(* funding and every bound.  TypeInv says what a run knows at each point;  *)
(* PayInv, who pays a trade and what of it is paid; StakeInv adds up what  *)
(* a user has staked; RaceInv says who is about to write a principal, and  *)
(* over what; BarInv, where a bar has been read.                           *)
(***************************************************************************)
EXTENDS Trading, FiniteSetTheorems, TLAPS

(* ---------------------------------------------------------------------- *)
(* Inductive invariants                                                   *)

\* Where a session deals with a user, and a settlement with a trade.
Dealing == {"debit", "reread", "write", "create"}
Settling == {"mark", "reread", "write"} \cup Part

\* Sessions and settlements keep to their own states, and one that is dealing
\* with a user or a trade has one.  A session takes what there is to take.
SessionOK(x) ==
    /\ x \in SessionState \cup {Idle}
    /\ x.pc \in Dealing => x.user \in Users /\ x.stake > 0
    /\ x.pc = "write" => x.was >= x.stake

SettlerOK(x) ==
    /\ x \in SettlerState \cup {Idle}
    /\ x.pc \in Settling => x.trade \in Trades /\ Exists(x.trade)
    /\ x.pc # "idle" => \A t \in x.todo : Exists(t)

RunsTyped ==
    /\ run \in [Runs -> SessionState \cup SettlerState \cup {Idle}]
    /\ \A s \in Sessions : SessionOK(run[s])
    /\ \A p \in Settlers : SettlerOK(run[p])

\* A trade is for something.
AmountsTyped == \A t \in Trades : Exists(t) => trade[t].amount > 0

TypeInv == TypeOK /\ RunsTyped /\ AmountsTyped

\* What a run at a point of a payment has still to pay.
Left(k) ==
    CASE k = "profit" -> {"profit", "commission"}
      [] k = "commission" -> {"commission"}
      [] OTHER -> Part

\* How often a part is paid in the end.
Times(k) == IF k = "commission" /\ ~HasAdmin THEN 0 ELSE 1

\* A trade is paid by the one run that completed it, part after part.
PayInv ==
    /\ PaidAtMostOnce
    /\ CompletedIsPaid
    /\ \A p \in Settlers, t \in Trades : Paying(p, t) =>
           /\ trade[t].status = "COMPLETED"
           /\ \A k \in Part : payouts[t][k] = IF k \in Left(run[p].pc) THEN 0 ELSE 1
    /\ \A p, q \in Settlers, t \in Trades : Paying(p, t) /\ Paying(q, t) => p = q

\* What is barred for a session is barred now; it has read it before it gets
\* to the users, and has no barred user left when it does.
Clear(s, u) == {<<"excluded", u>>, <<"unwilling", u>>} \cap barred[s] = {}

BarredFor(s) ==
    /\ barred[s] \subseteq BarsNow(enabled, excluded, willing)
    /\ Switch \notin barred[s]
    /\ At(s, "users") => \A u \in Users : <<"excluded", u>> \in barred[s] => u \in run[s].skip
    /\ run[s].pc \in {"next"} \cup Dealing => \A u \in run[s].todo : Clear(s, u)
    /\ run[s].pc \in Dealing => Clear(s, run[s].user)

BarInv == \A s \in Sessions : BarredFor(s)

(* ---------------------------------------------------------------------- *)
(* Types                                                                  *)

\* The initial state is well typed.
LEMMA InitTypeInv == Init => TypeInv
  BY FundsAssumption, BoundAssumption
  DEF Init, TypeInv, TypeOK, RunsTyped, AmountsTyped, SessionOK, SettlerOK, Idle, Runs, Part,
      Dealing, Settling, Exists, NotReading

\* A step of one session that leaves it typed leaves every run typed.
LEMMA SessionMoves ==
    ASSUME TypeInv, NEW s \in Sessions, NEW x, run' = [run EXCEPT ![s] = x],
           SessionOK(x), \A t \in Trades : Exists(t) => Exists(t)'
    PROVE  RunsTyped'
  BY RunAssumption
  DEF TypeInv, RunsTyped, SessionOK, SettlerOK, Runs, SettlerState, Idle, Settling, Part

\* Likewise a step of one settlement.
LEMMA SettlerMoves ==
    ASSUME TypeInv, NEW p \in Settlers, NEW x, run' = [run EXCEPT ![p] = x],
           SettlerOK(x), \A t \in Trades : Exists(t) => Exists(t)'
    PROVE  RunsTyped'
  BY RunAssumption
  DEF TypeInv, RunsTyped, SessionOK, SettlerOK, Runs, SettlerState, Idle, Settling, Part

\* A step of no run that forgets no trade.
LEMMA RunsStay ==
    ASSUME TypeInv, UNCHANGED run, \A t \in Trades : Exists(t) => Exists(t)'
    PROVE  RunsTyped'
  BY DEF TypeInv, RunsTyped, SettlerOK, SettlerState, Idle, Settling, Part

\* A step that keeps every trade keeps what it is for.
LEMMA AmountsStay ==
    ASSUME TypeInv, UNCHANGED trade PROVE AmountsTyped'
  BY DEF TypeInv, AmountsTyped, Exists

\* The runs other than the one that makes the step stay as they are.
LEMMA OtherRuns ==
    ASSUME TypeInv, NEW p \in Runs, NEW x, run' = [run EXCEPT ![p] = x]
    PROVE  run'[p] = x /\ \A q \in Runs \ {p} : run'[q] = run[q]
  BY DEF TypeInv, TypeOK

\* What a session is that goes on to the next user.
ToNext(x) == [x EXCEPT !.pc = "next", !.user = "nobody", !.stake = 0, !.found = 0, !.was = 0]

LEMMA SessionGoesOn ==
    ASSUME TypeInv, NEW s \in Sessions, run[s].pc # "idle", ToNextUser(s)
    PROVE  /\ run' = [run EXCEPT ![s] = ToNext(run[s])]
           /\ SessionOK(ToNext(run[s])) /\ ToNext(run[s]).pc = "next"
           /\ ToNext(run[s]).todo = run[s].todo
  <1>1. run[s] \in SessionState
    BY DEF TypeInv, RunsTyped, SessionOK, Idle
  <1>2. /\ ToNext(run[s]) \in SessionState /\ ToNext(run[s]).pc = "next"
        /\ ToNext(run[s]).todo = run[s].todo
    BY <1>1 DEF ToNext, SessionState
  <1>3. run' = [run EXCEPT ![s] = ToNext(run[s])]
    BY DEF ToNextUser, ToNext, TypeInv, TypeOK, Runs
  <1> QED
    BY <1>2, <1>3 DEF SessionOK, Dealing

\* What a settlement is that goes on to the next trade.
OnTo(x) == [x EXCEPT !.pc = "next", !.trade = "none", !.found = 0, !.was = 0]

LEMMA SettlerGoesOn ==
    ASSUME TypeInv, NEW p \in Settlers, run[p].pc # "idle", ToNextTrade(p)
    PROVE  /\ run' = [run EXCEPT ![p] = OnTo(run[p])]
           /\ SettlerOK(OnTo(run[p])) /\ OnTo(run[p]).pc = "next"
  <1>1. run[p] \in SettlerState /\ \A r \in run[p].todo : Exists(r)
    BY DEF TypeInv, RunsTyped, SettlerOK, Idle
  <1>2. /\ OnTo(run[p]) \in SettlerState /\ OnTo(run[p]).pc = "next"
        /\ OnTo(run[p]).todo = run[p].todo
    BY <1>1 DEF OnTo, SettlerState
  <1>3. run' = [run EXCEPT ![p] = OnTo(run[p])]
    BY DEF ToNextTrade, OnTo, TypeInv, TypeOK, Runs
  <1> QED
    BY <1>1, <1>2, <1>3 DEF SettlerOK, Settling, Part

\* What a session knows while it deals with a user.
LEMMA SessionDeals ==
    ASSUME TypeInv, NEW s \in Sessions, run[s].pc \in Dealing
    PROVE  /\ run[s] \in SessionState /\ run[s].user \in Users
           /\ run[s].stake \in Nat \ {0} /\ run[s].was \in Nat /\ principal[run[s].user] \in Nat
           /\ run[s].pc = "write" => run[s].was >= run[s].stake
  <1>1. run[s] \in SessionState /\ run[s].user \in Users /\ run[s].stake > 0
        /\ (run[s].pc = "write" => run[s].was >= run[s].stake)
    BY DEF TypeInv, RunsTyped, SessionOK, Idle, Dealing
  <1>2. run[s].stake \in Nat /\ run[s].was \in Nat
    BY <1>1 DEF SessionState
  <1> QED
    BY <1>1, <1>2 DEF TypeInv, TypeOK

\* What a settlement knows while it deals with a trade.
LEMMA SettlerDeals ==
    ASSUME TypeInv, NEW p \in Settlers, run[p].pc \in Settling
    PROVE  /\ run[p] \in SettlerState /\ run[p].trade \in Trades /\ Exists(run[p].trade)
           /\ trade[run[p].trade] \in TradeRow
           /\ trade[run[p].trade].user \in Users /\ Owner(p) = trade[run[p].trade].user
           /\ trade[run[p].trade].amount \in Nat \ {0} /\ run[p].was \in Nat
           /\ \A r \in run[p].todo : Exists(r)
  <1>1. run[p] \in SettlerState /\ run[p].trade \in Trades /\ Exists(run[p].trade)
        /\ \A r \in run[p].todo : Exists(r)
    BY DEF TypeInv, RunsTyped, SettlerOK, Idle, Settling, Part
  <1>2. trade[run[p].trade] \in TradeRow /\ trade[run[p].trade].amount > 0
    BY <1>1 DEF TypeInv, TypeOK, AmountsTyped, Exists
  <1>3. trade[run[p].trade].user \in Users /\ trade[run[p].trade].amount \in Nat
        /\ run[p].was \in Nat
    BY <1>1, <1>2 DEF TradeRow, SettlerState
  <1> QED
    BY <1>1, <1>2, <1>3, RunAssumption DEF Owner

\* What a write of a principal leaves is a balance.
LEMMA WriteTyped ==
    ASSUME TypeInv, NEW u \in Users, NEW was \in Nat, NEW new \in Nat, WritePrincipal(u, was, new)
    PROVE  principal' \in [Users -> Nat] /\ displaced' \in [Users -> Int]
  <1>1. principal[u] \in Nat /\ displaced[u] \in Int
    BY DEF TypeInv, TypeOK
  <1>2. displaced[u] + was - principal[u] \in Int
    BY <1>1
  <1> QED
    BY <1>2 DEF WritePrincipal, TypeInv, TypeOK

\* Every step of a session keeps types.
LEMMA SessionStepTypeInv ==
    ASSUME TypeInv, NEW s \in Sessions,
           StartSession(s) \/ SessionStep(s) \/ SessionFails(s)
    PROVE  TypeInv'
  <1> USE DEF TypeInv
  <1>0. run[s].pc # "idle" => run[s] \in SessionState
    BY DEF RunsTyped, SessionOK, Idle
  <1>1. CASE StartSession(s)
    <2> DEFINE x == [pc |-> "exclusions", skip |-> {}, todo |-> {}, user |-> "nobody", stake |-> 0,
                     found |-> 0, was |-> 0]
    <2>1. SessionOK(x)
      BY DEF SessionState, SessionOK, Dealing
    <2>2. run' = [run EXCEPT ![s] = x]
      BY <1>1 DEF StartSession
    <2> HIDE DEF x
    <2>3. RunsTyped'
      BY <1>1, <2>1, <2>2, SessionMoves DEF StartSession, Exists
    <2>4. BarsNow(enabled, excluded, willing) \subseteq Bars
      BY DEF TypeOK, BarsNow, Bars
    <2>5. counts' \in [sessions : 0..MaxSessions, changes : 0..MaxChanges, failures : 0..MaxFailures]
      BY <1>1, BoundAssumption DEF StartSession, TypeOK
    <2> QED
      BY <1>1, <2>3, <2>4, <2>5, AmountsStay DEF StartSession, TypeOK, RunsTyped, flags, wallets
  <1>2. CASE ReadExclusions(s)
    <2> DEFINE x == [run[s] EXCEPT !.pc = "users", !.skip = excluded]
    <2>1. x \in SessionState /\ x.pc = "users"
      BY <1>0, <1>2 DEF ReadExclusions, At, SessionState, TypeOK
    <2>2. run' = [run EXCEPT ![s] = x]
      BY <1>2 DEF ReadExclusions, TypeOK, Runs
    <2> HIDE DEF x
    <2>3. RunsTyped'
      BY <1>2, <2>1, <2>2, SessionMoves DEF ReadExclusions, Exists, SessionOK, Dealing
    <2> QED
      BY <1>2, <2>3, AmountsStay DEF ReadExclusions, TypeOK, RunsTyped, flags, wallets
  <1>3. CASE ReadUsers(s)
    <2> DEFINE x == [run[s] EXCEPT !.pc = "next", !.todo = Eligible(s)]
    <2>1. x \in SessionState /\ x.pc = "next"
      BY <1>0, <1>3 DEF ReadUsers, At, SessionState, TypeOK, Eligible
    <2>2. run' = [run EXCEPT ![s] = x]
      BY <1>3 DEF ReadUsers, TypeOK, Runs
    <2> HIDE DEF x
    <2>3. RunsTyped'
      BY <1>3, <2>1, <2>2, SessionMoves DEF ReadUsers, Exists, SessionOK, Dealing
    <2> QED
      BY <1>3, <2>3, AmountsStay DEF ReadUsers, TypeOK, RunsTyped, flags, wallets
  <1>4. ASSUME NEW u \in Users, NextUser(s, u) PROVE TypeInv'
    <2> DEFINE st == Stake(principal[u])
               x == [run[s] EXCEPT !.todo = @ \ {u},
                                   !.pc = IF st > 0 THEN "debit" ELSE "next",
                                   !.user = IF st > 0 THEN u ELSE "nobody",
                                   !.stake = st]
    <2>0. st \in Nat
      BY DEF TypeOK, Stake
    <2>1. run' = [run EXCEPT ![s] = x]
      BY <1>4 DEF NextUser, TypeOK, Runs
    <2> HIDE DEF st
    <2>2. /\ x \in SessionState /\ x.pc \in {"debit", "next"} /\ x.stake = st
          /\ x.pc = "debit" => x.user = u /\ st > 0
      BY <1>0, <1>4, <2>0 DEF NextUser, At, SessionState
    <2> HIDE DEF x
    <2>3. SessionOK(x)
      BY <2>2 DEF SessionOK, Dealing
    <2>4. RunsTyped'
      BY <1>4, <2>1, <2>3, SessionMoves DEF NextUser, Exists
    <2> QED
      BY <1>4, <2>4, AmountsStay DEF NextUser, TypeOK, RunsTyped, flags, wallets
  <1>5. CASE Debit(s)
    <2> DEFINE x == [run[s] EXCEPT !.pc = "reread", !.found = principal[run[s].user]]
    <2>1. At(s, "debit") /\ run[s].pc \in Dealing
      BY <1>5 DEF Debit, At, Dealing
    <2>2. x \in SessionState /\ x.user = run[s].user /\ x.stake = run[s].stake /\ x.pc = "reread"
      BY <2>1, SessionDeals DEF SessionState
    <2>3. run' = [run EXCEPT ![s] = x]
      BY <1>5 DEF Debit, TypeOK, Runs
    <2> HIDE DEF x
    <2>4. SessionOK(x)
      BY <2>1, <2>2, SessionDeals DEF SessionOK
    <2>5. RunsTyped'
      BY <1>5, <2>3, <2>4, SessionMoves DEF Debit, Exists
    <2> QED
      BY <1>5, <2>5, AmountsStay DEF Debit, TypeOK, RunsTyped, flags, wallets
  <1>6. CASE DebitReread(s)
    <2> DEFINE x == [run[s] EXCEPT !.pc = "write", !.was = principal[run[s].user]]
    <2>1. At(s, "reread") /\ run[s].pc \in Dealing
      BY <1>6 DEF DebitReread, At, Dealing
    <2>2. x \in SessionState /\ x.user = run[s].user /\ x.stake = run[s].stake /\ x.pc = "write"
          /\ x.was = principal[run[s].user]
      BY <2>1, SessionDeals DEF SessionState
    <2>3. run' = [run EXCEPT ![s] = x]
      BY <1>6 DEF DebitReread, TypeOK, Runs
    <2> HIDE DEF x
    <2>4. SessionOK(x)
      BY <1>6, <2>1, <2>2, SessionDeals DEF SessionOK, DebitReread
    <2>5. RunsTyped'
      BY <1>6, <2>3, <2>4, SessionMoves DEF DebitReread, Exists
    <2>6. raced' \subseteq Users
      BY <1>6, <2>1, SessionDeals DEF DebitReread, NotesRace, TypeOK
    <2> QED
      BY <1>6, <2>5, <2>6, AmountsStay DEF DebitReread, TypeOK, RunsTyped, flags
  <1>7. CASE DebitWrite(s)
    <2>1. At(s, "write") /\ run[s].pc \in Dealing
      BY <1>7 DEF DebitWrite, At, Dealing
    <2>2. run[s].was \in Nat /\ run[s].was - run[s].stake \in Nat
      BY <2>1, SessionDeals DEF At
    <2>3. principal' \in [Users -> Nat] /\ displaced' \in [Users -> Int]
      BY <1>7, <2>1, <2>2, WriteTyped, SessionDeals DEF DebitWrite
    <2>4. ASSUME run' = [run EXCEPT ![s].pc = "create"], UNCHANGED trade PROVE RunsTyped'
      <3> DEFINE x == [run[s] EXCEPT !.pc = "create"]
      <3>1. x \in SessionState /\ x.user = run[s].user /\ x.stake = run[s].stake /\ x.pc = "create"
        BY <2>1, SessionDeals DEF SessionState
      <3>2. run' = [run EXCEPT ![s] = x]
        BY <2>4 DEF TypeOK, Runs
      <3> HIDE DEF x
      <3>3. SessionOK(x)
        BY <2>1, <3>1, SessionDeals DEF SessionOK
      <3> QED
        BY <2>4, <3>2, <3>3, SessionMoves DEF Exists
    <2>5. ASSUME ToNextUser(s), UNCHANGED trade PROVE RunsTyped'
      BY <2>1, <2>5, SessionGoesOn, SessionMoves DEF Exists, Dealing
    <2>6. RunsTyped'
      BY <1>7, <2>4, <2>5 DEF DebitWrite
    <2> QED
      BY <1>7, <2>3, <2>6, AmountsStay DEF DebitWrite, TypeOK, RunsTyped, flags
  <1>8. CASE DebitRefused(s)
    <2>1. run[s].pc # "idle"
      BY <1>8 DEF DebitRefused, At
    <2>2. RunsTyped'
      BY <1>8, <2>1, SessionGoesOn, SessionMoves DEF DebitRefused, Exists
    <2> QED
      BY <1>8, <2>2, AmountsStay DEF DebitRefused, TypeOK, RunsTyped, flags, wallets
  <1>9. ASSUME NEW t \in Trades, CreateTrade(s, t) PROVE TypeInv'
    <2>1. run[s].pc # "idle" /\ run[s].pc \in Dealing
      BY <1>9 DEF CreateTrade, At, Dealing
    <2>2. run[s].user \in Users /\ run[s].stake \in Nat /\ run[s].stake > 0
      BY <2>1, SessionDeals
    <2>3. trade' \in [Trades -> TradeRow \cup {NoTrade}]
      BY <1>9, <2>2 DEF CreateTrade, TypeOK, TradeRow
    <2>4. (\A r \in Trades : Exists(r) => Exists(r)') /\ AmountsTyped'
      BY <1>9, <2>2 DEF CreateTrade, TypeOK, AmountsTyped, Exists
    <2>5. RunsTyped'
      BY <1>9, <2>1, <2>4, SessionGoesOn, SessionMoves DEF CreateTrade
    <2> QED
      BY <1>9, <2>3, <2>4, <2>5 DEF CreateTrade, TypeOK, RunsTyped, flags, wallets
  <1>10. CASE EndSession(s)
    <2>1. RunsTyped'
      BY <1>10, SessionMoves DEF EndSession, End, Exists, Idle, SessionOK, Dealing
    <2> QED
      BY <1>10, <2>1, AmountsStay DEF EndSession, TypeOK, RunsTyped, flags, wallets
  <1>11. CASE SessionFails(s)
    <2>0. trade' = trade
      BY <1>11 DEF SessionFails
    <2>1. ASSUME End(s) PROVE RunsTyped'
      BY <2>0, <2>1, SessionMoves DEF End, Exists, Idle, SessionOK, Dealing
    <2>2. ASSUME run[s].pc # "idle", ToNextUser(s) PROVE RunsTyped'
      BY <2>0, <2>2, SessionGoesOn, SessionMoves DEF Exists
    <2>3. RunsTyped'
      BY <1>11, <2>1, <2>2 DEF SessionFails
    <2>4. counts' \in [sessions : 0..MaxSessions, changes : 0..MaxChanges, failures : 0..MaxFailures]
      BY <1>11, BoundAssumption DEF SessionFails, Failing, TypeOK
    <2>5. barred' \in [Sessions -> SUBSET Bars]
      BY <1>11 DEF SessionFails, TypeOK
    <2> QED
      BY <1>11, <2>3, <2>4, <2>5, AmountsStay DEF SessionFails, TypeOK, RunsTyped, flags, wallets
  <1> QED
    BY <1>1, <1>2, <1>3, <1>4, <1>5, <1>6, <1>7, <1>8, <1>9, <1>10, <1>11 DEF SessionStep

\* Every step of a settlement keeps types.
LEMMA SettlerStepTypeInv ==
    ASSUME TypeInv, NEW p \in Settlers,
           SettlerStep(p) \/ SettlerFails(p)
    PROVE  TypeInv'
  <1> USE DEF TypeInv
  <1>0. run[p].pc # "idle" => run[p] \in SettlerState
    BY DEF RunsTyped, SettlerOK, Idle
  <1>1. CASE StartSettling(p)
    <2> DEFINE x == [pc |-> "next", todo |-> Due, trade |-> "none", found |-> 0, was |-> 0]
    <2>1. x \in SettlerState /\ x.pc = "next" /\ x.todo = Due
      BY DEF SettlerState, Due
    <2>2. \A t \in Due : Exists(t)
      BY DEF Due, Exists, NoTrade
    <2>3. run' = [run EXCEPT ![p] = x]
      BY <1>1 DEF StartSettling
    <2> HIDE DEF x
    <2>4. SettlerOK(x)
      BY <2>1, <2>2 DEF SettlerOK, Settling, Part
    <2>5. RunsTyped'
      BY <1>1, <2>3, <2>4, SettlerMoves DEF StartSettling, Exists
    <2> QED
      BY <1>1, <2>5, AmountsStay DEF StartSettling, TypeOK, RunsTyped, flags, wallets
  <1>2. ASSUME NEW t \in Trades, NextTrade(p, t) PROVE TypeInv'
    <2> DEFINE x == [run[p] EXCEPT !.todo = @ \ {t}, !.pc = "mark", !.trade = t]
    <2>1. x \in SettlerState /\ x.pc = "mark" /\ x.trade = t /\ x.todo \subseteq run[p].todo
      BY <1>0, <1>2 DEF NextTrade, At, SettlerState
    <2>2. run' = [run EXCEPT ![p] = x]
      BY <1>2 DEF NextTrade, TypeOK, Runs
    <2>3. Exists(t) /\ \A r \in run[p].todo : Exists(r)
      BY <1>2 DEF NextTrade, At, RunsTyped, SettlerOK
    <2> HIDE DEF x
    <2>4. SettlerOK(x)
      BY <2>1, <2>3 DEF SettlerOK
    <2>5. RunsTyped'
      BY <1>2, <2>2, <2>4, SettlerMoves DEF NextTrade, Exists
    <2> QED
      BY <1>2, <2>5, AmountsStay DEF NextTrade, TypeOK, RunsTyped, flags, wallets
  <1>3. ASSUME NEW k \in Settling, run[p].pc \in Settling,
               run' = [run EXCEPT ![p].pc = k], \A t \in Trades : Exists(t) => Exists(t)'
        PROVE  RunsTyped'
    <2> DEFINE x == [run[p] EXCEPT !.pc = k]
    <2>1. x \in SettlerState /\ x.trade = run[p].trade /\ x.todo = run[p].todo
      BY <1>3, SettlerDeals DEF SettlerState, Settling, Part
    <2>2. run' = [run EXCEPT ![p] = x]
      BY <1>3 DEF TypeOK, Runs
    <2> HIDE DEF x
    <2>3. SettlerOK(x)
      BY <1>3, <2>1, SettlerDeals DEF SettlerOK
    <2> QED
      BY <1>3, <2>2, <2>3, SettlerMoves
  <1>4. ASSUME run[p].pc # "idle", ToNextTrade(p), \A t \in Trades : Exists(t) => Exists(t)'
        PROVE  RunsTyped'
    BY <1>4, SettlerGoesOn, SettlerMoves
  <1>5. CASE Mark(p)
    <2>1. run[p].pc \in Settling /\ run[p].pc # "idle"
      BY <1>5 DEF Mark, At, Settling
    <2>2. /\ trade' \in [Trades -> TradeRow \cup {NoTrade}]
          /\ (\A r \in Trades : Exists(r) => Exists(r)') /\ AmountsTyped'
      <3> DEFINE y == [trade[run[p].trade] EXCEPT !.status = "COMPLETED"]
      <3>1. trade[run[p].trade] \in TradeRow /\ trade[run[p].trade].amount > 0
        BY <2>1, SettlerDeals
      <3>2. y \in TradeRow /\ y # NoTrade /\ y.amount = trade[run[p].trade].amount
        BY <3>1 DEF TradeRow, NoTrade
      <3>3. trade' = trade \/ trade' = [trade EXCEPT ![run[p].trade] = y]
        BY <1>5 DEF Mark, TypeOK
      <3> HIDE DEF y
      <3> QED
        BY <2>1, <3>1, <3>2, <3>3, SettlerDeals DEF TypeOK, AmountsTyped, Exists
    <2>3. RunsTyped'
      BY <1>3, <1>4, <1>5, <2>1, <2>2 DEF Mark, Settling, Part
    <2> QED
      BY <1>5, <2>2, <2>3 DEF Mark, TypeOK, RunsTyped, flags, wallets
  <1>6. ASSUME run[p].pc \in Settling, NEW k \in Part,
               Pay(p, k) \/ UNCHANGED payouts
        PROVE  payouts' \in [Trades -> [Part -> Nat]]
    <2>1. run[p].trade \in Trades
      BY <1>6, SettlerDeals
    <2>2. payouts \in [Trades -> [Part -> Nat]]
      BY DEF TypeOK
    <2> QED
      BY <1>6, <2>1, <2>2 DEF Pay
  <1>7. CASE ReturnPrincipal(p)
    <2> DEFINE x == [run[p] EXCEPT !.pc = "reread", !.found = principal[Owner(p)]]
    <2>1. run[p].pc \in Settling
      BY <1>7 DEF ReturnPrincipal, At, Settling, Part
    <2>2. principal[Owner(p)] \in Nat
      BY <2>1, SettlerDeals DEF TypeOK
    <2>3. x \in SettlerState /\ x.trade = run[p].trade /\ x.todo = run[p].todo
      BY <2>1, <2>2, SettlerDeals DEF SettlerState
    <2>4. run' = [run EXCEPT ![p] = x]
      BY <1>7 DEF ReturnPrincipal, TypeOK, Runs
    <2> HIDE DEF x
    <2>5. SettlerOK(x)
      BY <2>1, <2>3, SettlerDeals DEF SettlerOK
    <2>6. RunsTyped'
      BY <1>7, <2>4, <2>5, SettlerMoves DEF ReturnPrincipal, Exists
    <2> QED
      BY <1>7, <2>6, AmountsStay DEF ReturnPrincipal, TypeOK, RunsTyped, flags, wallets
  <1>8. CASE ReturnReread(p)
    <2> DEFINE x == [run[p] EXCEPT !.pc = "write", !.was = principal[Owner(p)]]
    <2>1. run[p].pc \in Settling
      BY <1>8 DEF ReturnReread, At, Settling
    <2>2. principal[Owner(p)] \in Nat /\ Owner(p) \in Users
      BY <2>1, SettlerDeals DEF TypeOK
    <2>3. x \in SettlerState /\ x.trade = run[p].trade /\ x.todo = run[p].todo
      BY <2>1, <2>2, SettlerDeals DEF SettlerState
    <2>4. run' = [run EXCEPT ![p] = x]
      BY <1>8 DEF ReturnReread, TypeOK, Runs
    <2> HIDE DEF x
    <2>5. SettlerOK(x)
      BY <2>1, <2>3, SettlerDeals DEF SettlerOK
    <2>6. RunsTyped'
      BY <1>8, <2>4, <2>5, SettlerMoves DEF ReturnReread, Exists
    <2>7. raced' \subseteq Users
      BY <1>8, <2>2 DEF ReturnReread, NotesRace, TypeOK
    <2> QED
      BY <1>8, <2>6, <2>7, AmountsStay DEF ReturnReread, TypeOK, RunsTyped, flags
  <1>9. CASE ReturnWrite(p)
    <2>1. run[p].pc \in Settling /\ run[p].pc # "idle"
      BY <1>9 DEF ReturnWrite, At, Settling
    <2>2. run[p].was \in Nat /\ run[p].was + trade[run[p].trade].amount \in Nat /\ Owner(p) \in Users
      BY <2>1, SettlerDeals
    <2>3. principal' \in [Users -> Nat] /\ displaced' \in [Users -> Int]
      BY <1>9, <2>2, WriteTyped DEF ReturnWrite
    <2>4. payouts' \in [Trades -> [Part -> Nat]]
      BY <1>6, <1>9, <2>1 DEF ReturnWrite, Part
    <2>5. RunsTyped'
      BY <1>3, <1>4, <1>9, <2>1 DEF ReturnWrite, Settling, Part, Exists
    <2>6. interrupted' \subseteq Trades
      BY <1>9, <2>1, SettlerDeals DEF ReturnWrite, TypeOK
    <2> QED
      BY <1>9, <2>3, <2>4, <2>5, <2>6, AmountsStay DEF ReturnWrite, TypeOK, RunsTyped, flags
  <1>10. CASE PayProfit(p)
    <2>1. run[p].pc \in Settling
      BY <1>10 DEF PayProfit, At, Settling, Part
    <2>2. RunsTyped'
      BY <1>3, <1>10, <2>1 DEF PayProfit, Settling, Part, Exists
    <2>3. payouts' \in [Trades -> [Part -> Nat]]
      BY <1>6, <1>10, <2>1 DEF PayProfit, Part
    <2> QED
      BY <1>10, <2>2, <2>3, AmountsStay DEF PayProfit, TypeOK, RunsTyped, flags, wallets
  <1>11. CASE PayCommission(p)
    <2>1. run[p].pc \in Settling /\ run[p].pc # "idle"
      BY <1>11 DEF PayCommission, At, Settling, Part
    <2>2. RunsTyped'
      BY <1>4, <1>11, <2>1 DEF PayCommission, Exists
    <2>3. payouts' \in [Trades -> [Part -> Nat]]
      BY <1>6, <1>11, <2>1 DEF PayCommission, Part
    <2> QED
      BY <1>11, <2>2, <2>3, AmountsStay DEF PayCommission, TypeOK, RunsTyped, flags, wallets
  <1>12. CASE EndSettling(p)
    <2>1. RunsTyped'
      BY <1>12, SettlerMoves DEF EndSettling, End, Exists, Idle, SettlerOK, Settling, Part
    <2> QED
      BY <1>12, <2>1, AmountsStay DEF EndSettling, TypeOK, RunsTyped, flags, wallets
  <1>13. CASE SettlerFails(p)
    <2>1. RunsTyped'
      BY <1>4, <1>13 DEF SettlerFails, Part, Exists
    <2>2. counts' \in [sessions : 0..MaxSessions, changes : 0..MaxChanges, failures : 0..MaxFailures]
      BY <1>13, BoundAssumption DEF SettlerFails, Failing, TypeOK
    <2> QED
      BY <1>13, <2>1, <2>2, AmountsStay DEF SettlerFails, TypeOK, RunsTyped, flags, wallets
  <1> QED
    BY <1>1, <1>2, <1>5, <1>7, <1>8, <1>9, <1>10, <1>11, <1>12, <1>13 DEF SettlerStep

\* Every step keeps types.
LEMMA NextTypeInv == TypeInv /\ [Next]_vars => TypeInv'
  <1> SUFFICES ASSUME TypeInv, [Next]_vars PROVE TypeInv'
    OBVIOUS
  <1>1. ASSUME NEW t \in Trades, Mature(t) PROVE TypeInv'
    <2>1. /\ trade' \in [Trades -> TradeRow \cup {NoTrade}]
          /\ (\A r \in Trades : Exists(r) => Exists(r)') /\ AmountsTyped'
      BY <1>1 DEF Mature, TypeInv, TypeOK, AmountsTyped, TradeRow, Exists, NoTrade
    <2>2. RunsTyped'
      BY <1>1, <2>1, RunsStay DEF Mature
    <2> QED
      BY <1>1, <2>1, <2>2 DEF Mature, TypeInv, TypeOK, flags, wallets
  <1>2. CASE ChangeFlag
    <2>1. RunsTyped'
      BY <1>2, RunsStay DEF ChangeFlag, Exists
    <2>2. counts' \in [sessions : 0..MaxSessions, changes : 0..MaxChanges, failures : 0..MaxFailures]
      BY <1>2, BoundAssumption DEF ChangeFlag, TypeInv, TypeOK
    <2>3. enabled' \in BOOLEAN /\ excluded' \subseteq Users /\ willing' \subseteq Users
      BY <1>2 DEF ChangeFlag, TypeInv, TypeOK
    <2>4. barred' \in [Sessions -> SUBSET Bars]
      BY <1>2 DEF ChangeFlag, TypeInv, TypeOK
    <2> QED
      BY <1>2, <2>1, <2>2, <2>3, <2>4, AmountsStay DEF ChangeFlag, TypeInv, TypeOK, wallets
  <1>3. ASSUME NEW u \in Users, Spend(u) PROVE TypeInv'
    <2>1. RunsTyped'
      BY <1>3, RunsStay DEF Spend, Exists
    <2>2. counts' \in [sessions : 0..MaxSessions, changes : 0..MaxChanges, failures : 0..MaxFailures]
      BY <1>3, BoundAssumption DEF Spend, TypeInv, TypeOK
    <2>3. spending' \in [Users -> Nat \cup {NotReading}] /\ raced' \subseteq Users
      BY <1>3 DEF Spend, NotesRace, TypeInv, TypeOK
    <2> QED
      BY <1>3, <2>1, <2>2, <2>3, AmountsStay DEF Spend, TypeInv, TypeOK, flags
  <1>4. ASSUME NEW u \in Users, SpendWrite(u) PROVE TypeInv'
    <2>1. RunsTyped'
      BY <1>4, RunsStay DEF SpendWrite, Exists
    <2>2. spending[u] \in Nat
      BY <1>4 DEF SpendWrite, TypeInv, TypeOK
    <2>3. principal' \in [Users -> Nat] /\ displaced' \in [Users -> Int]
      BY <1>4, <2>2, WriteTyped DEF SpendWrite
    <2>4. spent' \in [Users -> Nat] /\ spending' \in [Users -> Nat \cup {NotReading}]
      BY <1>4, <2>2 DEF SpendWrite, TypeInv, TypeOK
    <2> QED
      BY <1>4, <2>1, <2>3, <2>4, AmountsStay DEF SpendWrite, TypeInv, TypeOK, flags
  <1>5. CASE Crash
    <2>1. RunsTyped'
      BY <1>5 DEF Crash, RunsTyped, SessionOK, SettlerOK, Idle, Runs, Part, Dealing, Settling
    <2>2. counts' \in [sessions : 0..MaxSessions, changes : 0..MaxChanges, failures : 0..MaxFailures]
      BY <1>5, BoundAssumption DEF Crash, Failing, TypeInv, TypeOK
    <2>3. interrupted' \subseteq Trades /\ barred' \in [Sessions -> SUBSET Bars]
      BY <1>5 DEF Crash, TypeInv, TypeOK
    <2> QED
      BY <1>5, <2>1, <2>2, <2>3, AmountsStay DEF Crash, TypeInv, TypeOK, RunsTyped, flags
  <1>6. CASE UNCHANGED vars
    <2>1. RunsTyped'
      BY <1>6, RunsStay DEF vars, Exists
    <2> QED
      BY <1>6, <2>1, AmountsStay DEF vars, flags, wallets, TypeInv, TypeOK
  <1> QED
    BY <1>1, <1>2, <1>3, <1>4, <1>5, <1>6, SessionStepTypeInv, SettlerStepTypeInv DEF Next

\* Every reachable state is well typed; in particular no principal is negative.
THEOREM TypeCorrect == Spec => []TypeOK
  <1>1. TypeInv => TypeOK
    BY DEF TypeInv
  <1> QED
    BY <1>1, InitTypeInv, NextTypeInv, PTL DEF Spec

(* ---------------------------------------------------------------------- *)
(* Payment                                                                *)

\* A step that pays nothing, completes no trade and neither begins nor ends
\* the payment of one, nor any part of it.
LEMMA PayQuiet ==
    ASSUME PayInv, UNCHANGED <<payouts, interrupted>>,
           \A t \in Trades : trade'[t].status = "COMPLETED" <=> trade[t].status = "COMPLETED",
           \A p \in Settlers, t \in Trades :
               /\ Paying(p, t)' <=> Paying(p, t)
               /\ Paying(p, t) => Left(run'[p].pc) = Left(run[p].pc)
    PROVE  PayInv'
  <1>1. PaidAtMostOnce' /\ CompletedIsPaid'
    BY DEF PayInv, PaidAtMostOnce, CompletedIsPaid
  <1>2. ASSUME NEW p \in Settlers, NEW t \in Trades, Paying(p, t)'
        PROVE  /\ trade'[t].status = "COMPLETED"
               /\ \A k \in Part : payouts'[t][k] = IF k \in Left(run'[p].pc) THEN 0 ELSE 1
    BY <1>2 DEF PayInv
  <1>3. \A p, q \in Settlers, t \in Trades : Paying(p, t)' /\ Paying(q, t)' => p = q
    BY DEF PayInv
  <1> QED
    BY <1>1, <1>2, <1>3 DEF PayInv

\* A step of no settlement is of this kind.
LEMMA PayStays ==
    ASSUME PayInv, UNCHANGED <<payouts, interrupted>>,
           \A t \in Trades : trade'[t].status = "COMPLETED" <=> trade[t].status = "COMPLETED",
           \A p \in Settlers : run'[p] = run[p]
    PROVE  PayInv'
  BY PayQuiet DEF Paying

\* A session pays nothing.
LEMMA SessionStepPayInv ==
    ASSUME TypeInv, PayInv, NEW s \in Sessions,
           StartSession(s) \/ SessionStep(s) \/ SessionFails(s)
    PROVE  PayInv'
  <1>1. \A p \in Settlers : run'[p] = run[p]
    BY RunAssumption
    DEF StartSession, SessionStep, SessionFails, ReadExclusions, ReadUsers, NextUser, Debit,
        DebitReread, DebitWrite, DebitRefused, CreateTrade, EndSession, ToNextUser, End,
        TypeInv, TypeOK, Runs
  <1>2. \A t \in Trades : trade'[t].status = "COMPLETED" <=> trade[t].status = "COMPLETED"
    <2>1. ASSUME NEW r \in Trades, CreateTrade(s, r)
          PROVE  \A t \in Trades : trade'[t].status = "COMPLETED" <=> trade[t].status = "COMPLETED"
      BY <2>1 DEF CreateTrade, TypeInv, TypeOK, Exists, NoTrade
    <2>2. (\A r \in Trades : ~CreateTrade(s, r)) => trade' = trade
      BY DEF StartSession, SessionStep, SessionFails, ReadExclusions, ReadUsers, NextUser, Debit,
          DebitReread, DebitWrite, DebitRefused, EndSession
    <2> QED
      BY <2>1, <2>2
  <1>3. UNCHANGED <<payouts, interrupted>>
    BY DEF StartSession, SessionStep, SessionFails, ReadExclusions, ReadUsers, NextUser, Debit,
        DebitReread, DebitWrite, DebitRefused, CreateTrade, EndSession
  <1> QED
    BY <1>1, <1>2, <1>3, PayStays

\* A settlement that pays the next part of a trade: it goes on to the part after
\* it, has paid the last one, or leaves the rest.
LEMMA PayStep ==
    ASSUME TypeInv, PayInv, NEW p \in Settlers, NEW k \in Part, NEW x,
           run[p].trade \in Trades, UNCHANGED trade,
           payouts' = [payouts EXCEPT ![run[p].trade][k] = @ + Times(k)],
           run' = [run EXCEPT ![p] = x],
           \/ /\ \/ k = "principal" /\ At(p, "write") /\ x.pc = "profit"
                 \/ k = "profit" /\ At(p, "profit") /\ x.pc = "commission"
              /\ x.trade = run[p].trade /\ UNCHANGED interrupted
           \/ k = "commission" /\ At(p, k) /\ x.pc = "next" /\ UNCHANGED interrupted
           \/ /\ k = "principal" /\ At(p, "write") /\ x.pc = "next"
              /\ interrupted' = interrupted \cup {run[p].trade}
    PROVE  PayInv'
  <1> PICK t \in Trades : t = run[p].trade
    OBVIOUS
  <1>0. p \in Runs /\ run'[p] = x /\ \A q \in Settlers \ {p} : run'[q] = run[q]
    BY OtherRuns DEF Runs
  <1>1. Paying(p, t)
    BY DEF Paying, At, Part
  <1>2. /\ trade[t].status = "COMPLETED"
        /\ \A j \in Part : payouts[t][j] = IF j \in Left(run[p].pc) THEN 0 ELSE 1
        /\ \A q \in Settlers \ {p} : ~Paying(q, t)
    BY <1>1 DEF PayInv
  <1>3. /\ k \in Left(run[p].pc)
        /\ x.pc # "next" => Left(x.pc) = Left(run[p].pc) \ {k}
        /\ k = "commission" => Left(run[p].pc) = {k}
        /\ k # "commission" => Times(k) = 1
        /\ Times(k) \in {0, 1}
    BY DEF Left, Part, At, Times
  <1>4. /\ \A j \in Part : payouts'[t][j] = IF j = k THEN Times(k) ELSE payouts[t][j]
        /\ \A r \in Trades \ {t} : payouts'[r] = payouts[r]
    BY <1>2, <1>3 DEF TypeInv, TypeOK
  <1>5. /\ \A q \in Settlers \ {p}, r \in Trades : Paying(q, r)' <=> Paying(q, r)
        /\ \A r \in Trades \ {t} : ~Paying(p, r) /\ ~Paying(p, r)'
        /\ Paying(p, t)' <=> x.pc # "next"
    BY <1>0, <1>1 DEF Paying, Part
  <1>6. PaidAtMostOnce'
    BY <1>2, <1>3, <1>4 DEF PayInv, PaidAtMostOnce
  <1>7. CompletedIsPaid'
    <2> SUFFICES ASSUME NEW r \in Trades \ interrupted', trade[r].status = "COMPLETED",
                        \A q \in Settlers : ~Paying(q, r)'
                 PROVE  \A j \in Part : payouts'[r][j] = Times(j)
      BY DEF CompletedIsPaid, Times
    <2>1. CASE r = t
      <3>1. k = "commission"
        BY <1>5, <2>1
      <3> QED
        BY <1>2, <1>3, <1>4, <2>1, <3>1 DEF Times
    <2>2. CASE r # t
      <3>1. r \notin interrupted /\ \A q \in Settlers : ~Paying(q, r)
        BY <1>5, <2>2
      <3> QED
        BY <1>4, <2>2, <3>1 DEF PayInv, CompletedIsPaid, Times
    <2> QED
      BY <2>1, <2>2
  <1>8. ASSUME NEW q \in Settlers, NEW r \in Trades, Paying(q, r)'
        PROVE  /\ trade'[r].status = "COMPLETED"
               /\ \A j \in Part : payouts'[r][j] = IF j \in Left(run'[q].pc) THEN 0 ELSE 1
    <2>1. CASE q = p
      <3>1. r = t /\ k # "commission" /\ x.pc # "next" /\ run'[q].pc = x.pc
        BY <1>0, <1>5, <1>8, <2>1 DEF Paying
      <3>2. Left(run'[q].pc) = Left(run[p].pc) \ {k}
        BY <1>3, <3>1
      <3> QED
        BY <1>2, <1>3, <1>4, <3>1, <3>2
    <2>2. CASE q # p
      <3>1. Paying(q, r) /\ r # t /\ run'[q] = run[q]
        BY <1>0, <1>2, <1>5, <1>8, <2>2
      <3> QED
        BY <1>4, <3>1 DEF PayInv
    <2> QED
      BY <2>1, <2>2
  <1>9. ASSUME NEW q1 \in Settlers, NEW q2 \in Settlers, NEW r \in Trades,
               Paying(q1, r)', Paying(q2, r)'
        PROVE  q1 = q2
    <2>1. Paying(q1, r) /\ Paying(q2, r)
      BY <1>1, <1>5, <1>9
    <2> QED
      BY <2>1 DEF PayInv
  <1> QED
    BY <1>6, <1>7, <1>8, <1>9 DEF PayInv

\* The shares of a profit are never nothing: a trade is for something.
LEMMA SharesArePositive ==
    ASSUME NEW amount \in Nat \ {0}, NEW gross \in GrossProfit(amount)
    PROVE  UserProfit(gross) > 0 /\ AdminCommission(gross) > 0
  <1>1. (amount * 185 + 50) \div 100 >= 2 /\ (amount * 370 + 50) \div 100 >= 2
    OBVIOUS
  <1>2. gross \in Nat /\ gross >= 2
    BY <1>1 DEF GrossProfit
  <1> QED
    BY <1>2 DEF UserProfit, AdminCommission

\* Every step of a settlement keeps the books of payment: only the run that
\* completes a trade pays it.
LEMMA SettlerStepPayInv ==
    ASSUME TypeInv, PayInv, NEW p \in Settlers,
           SettlerStep(p) \/ SettlerFails(p)
    PROVE  PayInv'
  <1> DEFINE Pays(pc) == pc \in Part \cup {"reread", "write"}
  <1>0. run[p].pc # "idle" => run[p] \in SettlerState
    BY DEF TypeInv, RunsTyped, SettlerOK, Idle
  <1>1. ASSUME NEW x, run' = [run EXCEPT ![p] = x], UNCHANGED <<trade, payouts, interrupted>>,
               \/ ~Pays(run[p].pc) /\ ~Pays(x.pc)
               \/ /\ Pays(run[p].pc) /\ Pays(x.pc)
                  /\ x.trade = run[p].trade /\ Left(x.pc) = Left(run[p].pc)
        PROVE  PayInv'
    <2>1. run'[p] = x /\ \A q \in Settlers \ {p} : run'[q] = run[q]
      BY <1>1, OtherRuns DEF Runs
    <2>2. \A q \in Settlers, t \in Trades :
              /\ Paying(q, t)' <=> Paying(q, t)
              /\ Paying(q, t) => Left(run'[q].pc) = Left(run[q].pc)
      BY <1>1, <2>1 DEF Paying
    <2> QED
      BY <1>1, <2>2, PayQuiet
  <1>2. CASE StartSettling(p)
    <2> DEFINE x == [pc |-> "next", todo |-> Due, trade |-> "none", found |-> 0, was |-> 0]
    <2>1. ~Pays(run[p].pc) /\ ~Pays(x.pc)
      BY <1>2 DEF StartSettling, Idle, Part
    <2>2. run' = [run EXCEPT ![p] = x]
      BY <1>2 DEF StartSettling
    <2> HIDE DEF x, Pays
    <2> QED
      BY <1>1, <1>2, <2>1, <2>2 DEF StartSettling
  <1>3. ASSUME NEW t \in Trades, NextTrade(p, t) PROVE PayInv'
    <2> DEFINE x == [run[p] EXCEPT !.todo = @ \ {t}, !.pc = "mark", !.trade = t]
    <2>1. ~Pays(run[p].pc) /\ ~Pays(x.pc)
      BY <1>0, <1>3 DEF NextTrade, At, SettlerState, Part
    <2>2. run' = [run EXCEPT ![p] = x]
      BY <1>3 DEF NextTrade, TypeInv, TypeOK, Runs
    <2> HIDE DEF x, Pays
    <2> QED
      BY <1>1, <1>3, <2>1, <2>2 DEF NextTrade
  <1>4. CASE EndSettling(p)
    BY <1>1, <1>4 DEF EndSettling, End, At, Idle, Part
  <1>5. CASE Mark(p) /\ trade[run[p].trade].status # "PENDING"
    <2>1. run[p].pc # "idle" /\ ~Pays(run[p].pc) /\ ToNextTrade(p)
      BY <1>5 DEF Mark, At, Part
    <2>2. run' = [run EXCEPT ![p] = OnTo(run[p])] /\ ~Pays(OnTo(run[p]).pc)
      BY <2>1, SettlerGoesOn DEF Part
    <2> QED
      BY <1>1, <1>5, <2>1, <2>2 DEF Mark
  <1>6. CASE Mark(p) /\ trade[run[p].trade].status = "PENDING"
    <2> DEFINE x == [run[p] EXCEPT !.pc = "principal"]
    <2>0. run[p].pc \in Settling /\ At(p, "mark")
      BY <1>6 DEF Mark, At, Settling
    <2>1. PICK t \in Trades : t = run[p].trade
      BY <2>0, SettlerDeals
    <2>2. run[p] \in SettlerState /\ trade[t] \in TradeRow
      BY <2>0, <2>1, SettlerDeals
    <2>3. run' = [run EXCEPT ![p] = x]
      BY <1>6 DEF Mark, TypeInv, TypeOK, Runs
    <2>4. x.pc = "principal" /\ x.trade = t /\ ~Paying(p, t)
      BY <2>0, <2>1, <2>2 DEF SettlerState, At, Paying, Part
    <2> HIDE DEF x
    <2>5. run'[p] = x /\ \A q \in Settlers \ {p} : run'[q] = run[q]
      BY <2>3, OtherRuns DEF Runs
    <2>6. /\ \A q \in Settlers : ~Paying(q, t)
          /\ \A k \in Part : payouts[t][k] = 0
      <3>1. trade[t].status = "PENDING"
        BY <1>6, <2>1
      <3>2. \A k \in Part : payouts[t][k] \in Nat /\ payouts[t][k] <= 0
        BY <3>1 DEF PayInv, PaidAtMostOnce, TypeInv, TypeOK
      <3> QED
        BY <3>1, <3>2 DEF PayInv
    <2>7. /\ trade'[t].status = "COMPLETED"
          /\ \A r \in Trades \ {t} : trade'[r] = trade[r]
          /\ UNCHANGED <<payouts, interrupted>>
      BY <1>6, <2>1, <2>2 DEF Mark, TypeInv, TypeOK, TradeRow
    <2>8. /\ \A q \in Settlers \ {p}, r \in Trades : Paying(q, r)' <=> Paying(q, r)
          /\ \A r \in Trades \ {t} : ~Paying(p, r) /\ ~Paying(p, r)'
          /\ Paying(p, t)'
      BY <2>0, <2>4, <2>5 DEF Paying, Part, At
    <2>9. \A k \in Part : k \in Left("principal")
      BY DEF Left
    <2>10. PaidAtMostOnce'
      BY <2>6, <2>7 DEF PayInv, PaidAtMostOnce
    <2>11. CompletedIsPaid'
      <3> SUFFICES ASSUME NEW r \in Trades \ interrupted, trade'[r].status = "COMPLETED",
                          \A q \in Settlers : ~Paying(q, r)'
                   PROVE  \A j \in Part : payouts'[r][j] = Times(j)
        BY <2>7 DEF CompletedIsPaid, Times
      <3>1. r # t
        BY <2>8 DEF Paying
      <3>2. \A q \in Settlers : ~Paying(q, r)
        BY <2>8, <3>1 DEF Paying
      <3> QED
        BY <2>7, <3>1, <3>2 DEF PayInv, CompletedIsPaid, Times
    <2>12. ASSUME NEW q \in Settlers, NEW r \in Trades, Paying(q, r)'
           PROVE  /\ trade'[r].status = "COMPLETED"
                  /\ \A j \in Part : payouts'[r][j] = IF j \in Left(run'[q].pc) THEN 0 ELSE 1
      <3>1. CASE q = p
        BY <2>4, <2>5, <2>6, <2>7, <2>8, <2>9, <2>12, <3>1
      <3>2. CASE q # p
        <4>1. Paying(q, r) /\ r # t /\ run'[q] = run[q]
          BY <2>5, <2>6, <2>8, <2>12, <3>2
        <4> QED
          BY <2>7, <4>1 DEF PayInv
      <3> QED
        BY <3>1, <3>2
    <2>13. ASSUME NEW q1 \in Settlers, NEW q2 \in Settlers, NEW r \in Trades,
                  Paying(q1, r)', Paying(q2, r)'
           PROVE  q1 = q2
      BY <2>6, <2>8, <2>13 DEF PayInv
    <2> QED
      BY <2>10, <2>11, <2>12, <2>13 DEF PayInv
  <1>7. CASE ReturnPrincipal(p) \/ ReturnReread(p)
    <2> DEFINE x == IF At(p, "principal")
                    THEN [run[p] EXCEPT !.pc = "reread", !.found = principal[Owner(p)]]
                    ELSE [run[p] EXCEPT !.pc = "write", !.was = principal[Owner(p)]]
    <2>1. run[p].pc \in {"principal", "reread"} /\ run[p] \in SettlerState
      BY <1>0, <1>7 DEF ReturnPrincipal, ReturnReread, At
    <2>2. run' = [run EXCEPT ![p] = x]
      BY <1>7 DEF ReturnPrincipal, ReturnReread, TypeInv, TypeOK, Runs, At
    <2>3. x.pc \in {"reread", "write"} /\ x.trade = run[p].trade
      BY <2>1 DEF SettlerState
    <2> HIDE DEF x
    <2>4. Left(x.pc) = Part /\ Left(run[p].pc) = Part /\ Pays(x.pc) /\ Pays(run[p].pc)
      BY <2>1, <2>3 DEF Left, Part
    <2> HIDE DEF Pays
    <2>5. UNCHANGED <<trade, payouts, interrupted>>
      BY <1>7 DEF ReturnPrincipal, ReturnReread
    <2> QED
      BY <1>1, <2>2, <2>3, <2>4, <2>5
  <1>8. CASE ReturnWrite(p)
    <2>1. /\ run[p] \in SettlerState /\ run[p].trade \in Trades /\ At(p, "write")
          /\ run[p].pc # "idle" /\ UNCHANGED trade
      BY <1>8, SettlerDeals DEF ReturnWrite, At, Settling
    <2>2. payouts' = [payouts EXCEPT ![run[p].trade]["principal"] = @ + Times("principal")]
      BY <1>8 DEF ReturnWrite, Pay, Times
    <2>3. CASE EntryAccepted(p)
      <3> DEFINE x == [run[p] EXCEPT !.pc = "profit"]
      <3>1. x.pc = "profit" /\ x.trade = run[p].trade
        BY <2>1 DEF SettlerState
      <3>2. run' = [run EXCEPT ![p] = x] /\ UNCHANGED interrupted
        BY <1>8, <2>3 DEF ReturnWrite, TypeInv, TypeOK, Runs
      <3> HIDE DEF x
      <3> QED
        BY <2>1, <2>2, <3>1, <3>2, PayStep DEF Part
    <2>4. CASE ~EntryAccepted(p)
      <3>1. ToNextTrade(p) /\ interrupted' = interrupted \cup {run[p].trade}
        BY <1>8, <2>4 DEF ReturnWrite
      <3>2. run' = [run EXCEPT ![p] = OnTo(run[p])] /\ OnTo(run[p]).pc = "next"
        BY <2>1, <3>1, SettlerGoesOn
      <3> QED
        BY <2>1, <2>2, <3>1, <3>2, PayStep DEF Part
    <2> QED
      BY <2>3, <2>4
  <1>9. CASE PayProfit(p)
    <2> DEFINE x == [run[p] EXCEPT !.pc = "commission"]
    <2>1. /\ run[p] \in SettlerState /\ run[p].trade \in Trades /\ At(p, "profit")
          /\ trade[run[p].trade].amount \in Nat \ {0} /\ UNCHANGED <<trade, interrupted>>
      BY <1>9, SettlerDeals DEF PayProfit, At, Settling, Part
    <2>2. payouts' = [payouts EXCEPT ![run[p].trade]["profit"] = @ + Times("profit")]
      BY <1>9, <2>1, SharesArePositive DEF PayProfit, Pay, Times
    <2>3. x.pc = "commission" /\ x.trade = run[p].trade
      BY <2>1 DEF SettlerState
    <2>4. run' = [run EXCEPT ![p] = x]
      BY <1>9 DEF PayProfit, TypeInv, TypeOK, Runs
    <2> HIDE DEF x
    <2> QED
      BY <2>1, <2>2, <2>3, <2>4, PayStep DEF Part
  <1>10. CASE PayCommission(p)
    <2>1. /\ run[p] \in SettlerState /\ run[p].trade \in Trades /\ At(p, "commission")
          /\ run[p].pc # "idle" /\ trade[run[p].trade].amount \in Nat \ {0}
          /\ UNCHANGED <<trade, interrupted>> /\ ToNextTrade(p)
      BY <1>10, SettlerDeals DEF PayCommission, At, Settling, Part
    <2>2. payouts' = [payouts EXCEPT ![run[p].trade]["commission"] = @ + Times("commission")]
      <3>1. CASE HasAdmin
        BY <1>10, <2>1, <3>1, SharesArePositive DEF PayCommission, Pay, Times
      <3>2. CASE ~HasAdmin
        <4>1. payouts' = payouts /\ Times("commission") = 0
          BY <1>10, <3>2 DEF PayCommission, Times
        <4>2. payouts[run[p].trade] \in [Part -> Nat]
              /\ payouts[run[p].trade]["commission"] + 0 = payouts[run[p].trade]["commission"]
          BY <2>1 DEF TypeInv, TypeOK, Part
        <4> QED
          BY <2>1, <4>1, <4>2 DEF TypeInv, TypeOK
      <3> QED
        BY <3>1, <3>2
    <2>3. run' = [run EXCEPT ![p] = OnTo(run[p])] /\ OnTo(run[p]).pc = "next"
      BY <2>1, SettlerGoesOn
    <2> QED
      BY <2>1, <2>2, <2>3, PayStep DEF Part
  <1>11. CASE SettlerFails(p)
    <2>0. run[p].pc # "idle" /\ ToNextTrade(p)
      BY <1>11 DEF SettlerFails, Part
    <2>1. run'[p].pc = "next" /\ \A q \in Settlers \ {p} : run'[q] = run[q]
      BY <2>0, SettlerGoesOn, OtherRuns DEF Runs
    <2>2. \A q \in Settlers, t \in Trades : Paying(q, t)' <=> Paying(q, t) /\ q # p
      BY <2>1 DEF Paying, Part
    <2>3. /\ \A q \in Settlers \ {p} : run'[q].pc = run[q].pc
          /\ \A t \in Trades \ interrupted' : ~Paying(p, t)
          /\ interrupted \subseteq interrupted'
          /\ UNCHANGED <<trade, payouts>>
      BY <1>11, <2>1 DEF SettlerFails
    <2>4. PaidAtMostOnce'
      BY <2>3 DEF PayInv, PaidAtMostOnce
    <2>5. CompletedIsPaid'
      BY <2>2, <2>3 DEF PayInv, CompletedIsPaid
    <2> QED
      BY <2>2, <2>3, <2>4, <2>5 DEF PayInv
  <1> QED
    BY <1>2, <1>3, <1>4, <1>5, <1>6, <1>7, <1>8, <1>9, <1>10, <1>11 DEF SettlerStep

\* Initially nothing is paid, and every step keeps the books of payment.
LEMMA InitPayInv == Init => PayInv
  BY DEF Init, PayInv, PaidAtMostOnce, CompletedIsPaid, Paying, NoTrade, Idle, Runs, Part

LEMMA NextPayInv == TypeInv /\ PayInv /\ [Next]_vars => PayInv'
  <1> SUFFICES ASSUME TypeInv, PayInv, [Next]_vars PROVE PayInv'
    OBVIOUS
  <1>1. ASSUME NEW t \in Trades, Mature(t) PROVE PayInv'
    <2>1. \A r \in Trades : trade'[r].status = "COMPLETED" <=> trade[r].status = "COMPLETED"
      <3>1. trade[t] \in TradeRow
        BY <1>1 DEF Mature, Exists, TypeInv, TypeOK
      <3> QED
        BY <1>1, <3>1 DEF Mature, TypeInv, TypeOK, TradeRow
    <2> QED
      BY <1>1, <2>1, PayStays DEF Mature
  <1>2. CASE ChangeFlag
    BY <1>2, PayStays DEF ChangeFlag
  <1>3. ASSUME NEW u \in Users, Spend(u) \/ SpendWrite(u) PROVE PayInv'
    BY <1>3, PayStays DEF Spend, SpendWrite
  <1>4. CASE Crash
    <2>1. /\ \A p \in Settlers, t \in Trades : ~Paying(p, t)'
          /\ UNCHANGED <<trade, payouts>>
      BY <1>4 DEF Crash, Paying, Runs, Idle, Part
    <2>2. \A t \in Trades \ interrupted' :
              t \notin interrupted /\ \A p \in Settlers : ~Paying(p, t)
      BY <1>4 DEF Crash
    <2> QED
      <3>1. PaidAtMostOnce'
        BY <2>1 DEF PayInv, PaidAtMostOnce
      <3>2. CompletedIsPaid'
        BY <2>1, <2>2 DEF PayInv, CompletedIsPaid
      <3> QED
        BY <2>1, <3>1, <3>2 DEF PayInv, Paying
  <1>5. CASE UNCHANGED vars
    BY <1>5, PayStays DEF vars
  <1> QED
    BY <1>1, <1>2, <1>3, <1>4, <1>5, SessionStepPayInv, SettlerStepPayInv DEF Next

\* trading.service.ts:125 lets one run only complete a trade, so however many
\* settlements overlap and wherever they fail, no part of it is paid twice, and
\* none before it is COMPLETED.
THEOREM NeverPaidTwice == Spec => []PaidAtMostOnce
  <1>1. PayInv => PaidAtMostOnce
    BY DEF PayInv
  <1> QED
    BY <1>1, InitTypeInv, NextTypeInv, InitPayInv, NextPayInv, PTL DEF Spec

\* A COMPLETED trade that no run is paying has been paid in full, the commission
\* too if there is an admin, unless a failure, a restart or a refused entry cut
\* its payment short.
THEOREM SettledInFull == Spec => []CompletedIsPaid
  <1>1. PayInv => CompletedIsPaid
    BY DEF PayInv
  <1> QED
    BY <1>1, InitTypeInv, NextTypeInv, InitPayInv, NextPayInv, PTL DEF Spec

(* ---------------------------------------------------------------------- *)
(* Stakes                                                                 *)

\* What a total that can be counted becomes when one of its terms changes.
LEMMA TotalChanges ==
    ASSUME NEW S, NEW f \in [S -> Nat], NEW g \in [S -> Nat], NEW x \in S,
           \A y \in S \ {x} : g[y] = f[y], IsFiniteSet(Units(f))
    PROVE  /\ IsFiniteSet(Units(g))
           /\ Total(g) = Total(f) - f[x] + g[x]
           /\ Total(f) \in Nat /\ f[x] <= Total(f)
  <1> DEFINE Column(k) == {x} \X (1..k)
             Rest == Units(f) \ Column(f[x])
  <1>1. \A k \in Nat : IsFiniteSet(Column(k)) /\ Cardinality(Column(k)) = k
    <2> TAKE k \in Nat
    <2>1. IsFiniteSet(1..k) /\ Cardinality(1..k) = k
      <3>1. 1 \in Int /\ k \in Int /\ (IF 1 > k THEN 0 ELSE k - 1 + 1) = k
        OBVIOUS
      <3> QED
        BY <3>1, FS_Interval, Zenon
    <2>2. IsFiniteSet({x}) /\ Cardinality({x}) = 1
      BY FS_Singleton, Zenon
    <2>3. IsFiniteSet(Column(k)) /\ Cardinality(Column(k)) = Cardinality({x}) * Cardinality(1..k)
      BY <2>1, <2>2, FS_Product
    <2> QED
      BY <2>1, <2>2, <2>3
  <1>2. Units(f) \cap Column(f[x]) = Column(f[x])
    BY DEF Units
  <1>3. Units(g) = Rest \cup Column(g[x]) /\ Rest \cap Column(g[x]) = {}
    BY DEF Units
  <1> HIDE DEF Column
  <1>4. IsFiniteSet(Rest) /\ Cardinality(Rest) = Cardinality(Units(f)) - Cardinality(Column(f[x]))
    BY <1>2, FS_Difference
  <1> HIDE DEF Rest
  <1>5. /\ IsFiniteSet(Units(g))
        /\ Cardinality(Units(g)) = Cardinality(Rest) + Cardinality(Column(g[x])) - Cardinality({})
    <2>1. IsFiniteSet(Column(g[x]))
      BY <1>1
    <2> QED
      BY <1>3, <1>4, <2>1, FS_Union
  <1>6. Cardinality(Units(f)) \in Nat /\ Cardinality(Rest) \in Nat /\ Cardinality({}) = 0
    BY <1>4, FS_CardinalityType, FS_EmptySet
  <1>7. Cardinality(Column(f[x])) = f[x] /\ Cardinality(Column(g[x])) = g[x]
    BY <1>1
  <1> QED
    BY <1>4, <1>5, <1>6, <1>7 DEF Total

\* A total whose terms only shrink does not grow.
LEMMA TotalShrinks ==
    ASSUME NEW S, NEW f \in [S -> Nat], NEW g \in [S -> Nat],
           \A x \in S : g[x] <= f[x], IsFiniteSet(Units(f))
    PROVE  IsFiniteSet(Units(g)) /\ Total(g) <= Total(f) /\ Total(g) \in Nat /\ Total(f) \in Nat
  <1>1. Units(g) \subseteq Units(f)
    BY DEF Units
  <1> QED
    BY <1>1, FS_Subset, FS_CardinalityType DEF Total

\* The total of nothing.
LEMMA TotalOfNothing ==
    ASSUME NEW S PROVE IsFiniteSet(Units([x \in S |-> 0])) /\ Total([x \in S |-> 0]) = 0
  <1>1. Units([x \in S |-> 0]) = {}
    BY DEF Units
  <1> QED
    BY <1>1, FS_EmptySet DEF Total

\* The stake of a user that a session has taken and not yet put in a trade.
Held(u) == [s \in Sessions |-> IF At(s, "create") /\ run[s].user = u THEN run[s].stake ELSE 0]

\* The money of a user is in the wallet, in sessions, in trades, or spent, but
\* for what was written over.
Sums(u, stakes, held) ==
    /\ IsFiniteSet(Units(stakes))
    /\ IsFiniteSet(Units(held))
    /\ principal[u] + spent[u] + Total(stakes) + Total(held) <= Funds[u] + displaced[u]

StakeInv == \A u \in Users : Sums(u, Stakes(u), Held(u))

\* The stakes are functions to numbers.
Counted ==
    \A u \in Users :
        /\ Stakes(u) \in [Trades -> Nat] /\ Held(u) \in [Sessions -> Nat]
        /\ principal[u] \in Nat /\ spent[u] \in Nat /\ Funds[u] \in Nat /\ displaced[u] \in Int

LEMMA TypeInvCounted == TypeInv => Counted
  <1> SUFFICES ASSUME TypeInv PROVE Counted
    OBVIOUS
  <1>1. \A t \in Trades : Exists(t) => trade[t].amount \in Nat
    BY DEF TypeInv, TypeOK, TradeRow, Exists
  <1>2. \A s \in Sessions : At(s, "create") => run[s].stake \in Nat
    BY SessionDeals DEF Dealing, At
  <1> QED
    BY <1>1, <1>2, FundsAssumption DEF Counted, Stakes, Held, TypeInv, TypeOK

\* What StakeInv says of one user, in numbers.
LEMMA StakeInvOf ==
    ASSUME TypeInv, StakeInv, NEW u \in Users
    PROVE  /\ Stakes(u) \in [Trades -> Nat] /\ Held(u) \in [Sessions -> Nat]
           /\ principal[u] \in Nat /\ spent[u] \in Nat /\ Funds[u] \in Nat /\ displaced[u] \in Int
           /\ IsFiniteSet(Units(Stakes(u))) /\ Total(Stakes(u)) \in Nat
           /\ IsFiniteSet(Units(Held(u))) /\ Total(Held(u)) \in Nat
           /\ principal[u] + spent[u] + Total(Stakes(u)) + Total(Held(u)) <= Funds[u] + displaced[u]
  <1>1. Counted
    BY TypeInvCounted
  <1>2. IsFiniteSet(Units(Stakes(u))) /\ IsFiniteSet(Units(Held(u)))
    BY DEF StakeInv, Sums
  <1>3. Total(Stakes(u)) \in Nat /\ Total(Held(u)) \in Nat
    BY <1>2, FS_CardinalityType DEF Total
  <1> QED
    BY <1>1, <1>2, <1>3 DEF Counted, StakeInv, Sums

\* A step that moves no money, takes no stake, and leaves those in trades.
LEMMA StakeQuiet ==
    ASSUME TypeInv, Counted', StakeInv, UNCHANGED <<principal, spent, displaced>>,
           \A u \in Users : Stakes(u)' = Stakes(u),
           \A s \in Sessions : At(s, "create")' => run'[s] = run[s]
    PROVE  StakeInv'
  <1> SUFFICES ASSUME NEW u \in Users
               PROVE  /\ IsFiniteSet(Units(Stakes(u)'))
                      /\ IsFiniteSet(Units(Held(u)'))
                      /\ principal'[u] + spent'[u] + Total(Stakes(u)') + Total(Held(u)')
                             <= Funds[u] + displaced'[u]
    BY DEF StakeInv, Sums, Total, Units
  <1>0. Held(u) \in [Sessions -> Nat]
    BY StakeInvOf
  <1>1. \A s \in Sessions : Held(u)'[s] <= Held(u)[s]
    BY <1>0 DEF Held, At
  <1>2. IsFiniteSet(Units(Held(u)')) /\ Total(Held(u)') <= Total(Held(u)) /\ Total(Held(u)') \in Nat
    BY <1>1, StakeInvOf, TotalShrinks DEF Counted
  <1> QED
    BY <1>2, StakeInvOf

\* What a write of a principal does to what its owner has, and what was written
\* over; that of others stays.
LEMMA WriteMoves ==
    ASSUME TypeInv, NEW u \in Users, NEW was \in Nat, NEW new \in Nat, WritePrincipal(u, was, new),
           NEW v \in Users
    PROVE  /\ v = u => principal'[v] = new /\ displaced'[v] = displaced[v] + was - principal[v]
           /\ v # u => principal'[v] = principal[v] /\ displaced'[v] = displaced[v]
  BY DEF WritePrincipal, TypeInv, TypeOK

\* The write of a session's debit: the stake is the session's now, or is lost.
LEMMA DebitStakeInv ==
    ASSUME TypeInv, Counted', StakeInv, NEW s \in Sessions, DebitWrite(s)
    PROVE  StakeInv'
  <1> SUFFICES ASSUME NEW u \in Users
               PROVE  /\ IsFiniteSet(Units(Stakes(u)'))
                      /\ IsFiniteSet(Units(Held(u)'))
                      /\ principal'[u] + spent'[u] + Total(Stakes(u)') + Total(Held(u)')
                             <= Funds[u] + displaced'[u]
    BY DEF StakeInv, Sums, Total, Units
  <1> DEFINE v == run[s].user
             st == run[s].stake
             was == run[s].was
  <1>0. At(s, "write") /\ run[s].pc \in Dealing /\ run[s].pc # "idle" /\ s \in Runs
    BY DEF DebitWrite, At, Dealing, Runs
  <1>1. run[s] \in SessionState /\ v \in Users /\ st \in Nat /\ was \in Nat /\ was - st \in Nat
    BY <1>0, SessionDeals DEF At
  <1>2. \E x : /\ run' = [run EXCEPT ![s] = x]
               /\ x.pc = "create" => x.user = v /\ x.stake = st
    <2>1. CASE EntryAccepted(s)
      <3> DEFINE x == [run[s] EXCEPT !.pc = "create"]
      <3>1. run' = [run EXCEPT ![s] = x]
        BY <2>1 DEF DebitWrite, TypeInv, TypeOK, Runs
      <3>2. x.user = v /\ x.stake = st
        BY <1>1 DEF SessionState
      <3> QED
        BY <3>1, <3>2
    <2>2. CASE ~EntryAccepted(s)
      <3>1. ToNextUser(s)
        BY <2>2 DEF DebitWrite
      <3>2. run' = [run EXCEPT ![s] = ToNext(run[s])] /\ ToNext(run[s]).pc = "next"
        BY <1>0, <3>1, SessionGoesOn
      <3> QED
        BY <3>2
    <2> QED
      BY <2>1, <2>2
  <1>3. /\ run'[s].pc = "create" => run'[s].user = v /\ run'[s].stake = st
        /\ \A q \in Sessions \ {s} : run'[q] = run[q]
    BY <1>0, <1>2, OtherRuns DEF Runs
  <1>4. Stakes(u)' = Stakes(u)
    BY DEF DebitWrite, Stakes, Exists
  <1>5. \A q \in Sessions \ {s} : Held(u)'[q] = Held(u)[q]
    BY <1>3 DEF Held, At
  <1>6. Held(u)[s] = 0 /\ Held(u)'[s] <= (IF v = u THEN st ELSE 0) /\ Held(u)'[s] \in Nat
    <2>1. Held(u)[s] = 0
      BY <1>0 DEF Held, At
    <2>2. Held(u)'[s] = IF run'[s].pc = "create" /\ run'[s].user = u THEN run'[s].stake ELSE 0
      BY DEF Held, At
    <2> QED
      BY <1>1, <1>3, <2>1, <2>2
  <1>7. IsFiniteSet(Units(Held(u)')) /\ Total(Held(u)') = Total(Held(u)) - Held(u)[s] + Held(u)'[s]
    BY <1>5, StakeInvOf, TotalChanges DEF Counted
  <1>8. /\ spent'[u] = spent[u]
        /\ v = u => principal'[u] = was - st /\ displaced'[u] = displaced[u] + was - principal[u]
        /\ v # u => principal'[u] = principal[u] /\ displaced'[u] = displaced[u]
    BY <1>1, WriteMoves DEF DebitWrite
  <1> HIDE DEF v, st, was
  <1>9. CASE v = u
    BY <1>1, <1>4, <1>6, <1>7, <1>8, <1>9, StakeInvOf
  <1>10. CASE v # u
    BY <1>1, <1>4, <1>6, <1>7, <1>8, <1>10, StakeInvOf
  <1> QED
    BY <1>9, <1>10

\* The stake goes from the session to a trade.
LEMMA CreateTradeStakeInv ==
    ASSUME TypeInv, Counted', PayInv, StakeInv, NEW s \in Sessions, NEW t \in Trades,
           CreateTrade(s, t)
    PROVE  StakeInv'
  <1> SUFFICES ASSUME NEW u \in Users
               PROVE  /\ IsFiniteSet(Units(Stakes(u)'))
                      /\ IsFiniteSet(Units(Held(u)'))
                      /\ principal'[u] + spent'[u] + Total(Stakes(u)') + Total(Held(u)')
                             <= Funds[u] + displaced'[u]
    BY DEF StakeInv, Sums, Total, Units
  <1>0. At(s, "create") /\ run[s].pc \in Dealing /\ run[s].pc # "idle" /\ s \in Runs
    BY DEF CreateTrade, At, Dealing, Runs
  <1>1. /\ run[s] \in SessionState /\ run[s].user \in Users /\ run[s].stake \in Nat
        /\ run'[s].pc = "next"
        /\ \A q \in Sessions \ {s} : run'[q] = run[q]
    <2>1. run' = [run EXCEPT ![s] = ToNext(run[s])] /\ ToNext(run[s]).pc = "next"
      BY <1>0, SessionGoesOn DEF CreateTrade
    <2>2. run'[s].pc = "next" /\ \A q \in Sessions \ {s} : run'[q] = run[q]
      BY <1>0, <2>1, OtherRuns DEF Runs
    <2> QED
      BY <1>0, <2>2, SessionDeals
  <1>2. /\ trade'[t] = [status |-> "PENDING", user |-> run[s].user, amount |-> run[s].stake,
                        due |-> FALSE]
        /\ \A q \in Trades \ {t} : trade'[q] = trade[q]
        /\ trade[t] = NoTrade /\ payouts' = payouts
    BY DEF CreateTrade, Exists, TypeInv, TypeOK
  <1>3. payouts[t]["principal"] = 0
    BY <1>2 DEF PayInv, PaidAtMostOnce, Part, NoTrade, TypeInv, TypeOK
  <1>4. \A q \in Sessions \ {s} : Held(u)'[q] = Held(u)[q]
    BY <1>1 DEF Held, At
  <1>5. Held(u)'[s] = 0 /\ Held(u)[s] = IF run[s].user = u THEN run[s].stake ELSE 0
    BY <1>0, <1>1 DEF Held, At
  <1>6. \A q \in Trades \ {t} : Stakes(u)'[q] = Stakes(u)[q]
    BY <1>2 DEF Stakes, Exists
  <1>7. Stakes(u)[t] = 0 /\ Stakes(u)'[t] = IF run[s].user = u THEN run[s].stake ELSE 0
    BY <1>2, <1>3 DEF Stakes, Exists, NoTrade
  <1>8. /\ IsFiniteSet(Units(Held(u)')) /\ Held(u)[s] <= Total(Held(u))
        /\ Total(Held(u)') = Total(Held(u)) - Held(u)[s] + Held(u)'[s]
    BY <1>4, StakeInvOf, TotalChanges DEF Counted
  <1>9. /\ IsFiniteSet(Units(Stakes(u)'))
        /\ Total(Stakes(u)') = Total(Stakes(u)) - Stakes(u)[t] + Stakes(u)'[t]
    BY <1>6, StakeInvOf, TotalChanges DEF Counted
  <1>10. principal'[u] = principal[u] /\ spent'[u] = spent[u] /\ displaced'[u] = displaced[u]
    BY DEF CreateTrade, wallets
  <1> QED
    BY <1>1, <1>5, <1>7, <1>8, <1>9, <1>10, StakeInvOf

\* The stake of a trade goes back to the principal, once.
LEMMA ReturnStakeInv ==
    ASSUME TypeInv, Counted', PayInv, StakeInv, NEW p \in Settlers, ReturnWrite(p)
    PROVE  StakeInv'
  <1> SUFFICES ASSUME NEW u \in Users
               PROVE  /\ IsFiniteSet(Units(Stakes(u)'))
                      /\ IsFiniteSet(Units(Held(u)'))
                      /\ principal'[u] + spent'[u] + Total(Stakes(u)') + Total(Held(u)')
                             <= Funds[u] + displaced'[u]
    BY DEF StakeInv, Sums, Total, Units
  <1> DEFINE t == run[p].trade
             v == trade[t].user
             am == trade[t].amount
             was == run[p].was
  <1>0. At(p, "write") /\ run[p].pc \in Settling
    BY DEF ReturnWrite, At, Settling
  <1>1. /\ t \in Trades /\ Exists(t) /\ v \in Users /\ am \in Nat /\ was \in Nat
        /\ Owner(p) = v /\ was + am \in Nat
    BY <1>0, SettlerDeals
  <1>2. payouts[t]["principal"] = 0
    BY <1>0, <1>1 DEF PayInv, Paying, Part, Left, At
  <1>3. /\ payouts'[t]["principal"] = 1 /\ trade' = trade /\ spent' = spent
        /\ \A q \in Trades \ {t} : payouts'[q] = payouts[q]
    BY <1>1, <1>2 DEF ReturnWrite, Pay, TypeInv, TypeOK, Part
  <1>4. /\ v = u => principal'[u] = was + am /\ displaced'[u] = displaced[u] + was - principal[u]
        /\ v # u => principal'[u] = principal[u] /\ displaced'[u] = displaced[u]
    BY <1>1, WriteMoves DEF ReturnWrite
  <1>5. Held(u)' = Held(u)
    BY RunAssumption DEF ReturnWrite, ToNextTrade, Held, At, TypeInv, TypeOK, Runs
  <1>6. \A q \in Trades \ {t} : Stakes(u)'[q] = Stakes(u)[q]
    BY <1>3 DEF Stakes, Exists
  <1>7. Stakes(u)'[t] = 0 /\ Stakes(u)[t] = IF v = u THEN am ELSE 0
    BY <1>1, <1>2, <1>3 DEF Stakes, Exists
  <1>8. /\ IsFiniteSet(Units(Stakes(u)')) /\ Stakes(u)[t] <= Total(Stakes(u))
        /\ Total(Stakes(u)') = Total(Stakes(u)) - Stakes(u)[t] + Stakes(u)'[t]
    BY <1>1, <1>6, StakeInvOf, TotalChanges DEF Counted
  <1> HIDE DEF t, v, am, was
  <1> QED
    BY <1>1, <1>3, <1>4, <1>5, <1>7, <1>8, StakeInvOf

\* Another request takes what it read.
LEMMA SpendStakeInv ==
    ASSUME TypeInv, Counted', StakeInv, NEW x \in Users, SpendWrite(x)
    PROVE  StakeInv'
  <1> SUFFICES ASSUME NEW u \in Users
               PROVE  /\ IsFiniteSet(Units(Stakes(u)'))
                      /\ IsFiniteSet(Units(Held(u)'))
                      /\ principal'[u] + spent'[u] + Total(Stakes(u)') + Total(Held(u)')
                             <= Funds[u] + displaced'[u]
    BY DEF StakeInv, Sums, Total, Units
  <1>1. Stakes(u)' = Stakes(u) /\ Held(u)' = Held(u)
    BY DEF SpendWrite, Stakes, Held, Exists, At
  <1>2. spending[x] \in Nat /\ 0 \in Nat
    BY DEF SpendWrite, TypeInv, TypeOK
  <1>3. /\ x = u => principal'[u] = 0 /\ displaced'[u] = displaced[u] + spending[x] - principal[u]
        /\ x # u => principal'[u] = principal[u] /\ displaced'[u] = displaced[u]
    BY <1>2, WriteMoves DEF SpendWrite
  <1>4. spent'[u] = IF x = u THEN spent[u] + spending[x] ELSE spent[u]
    BY DEF SpendWrite, TypeInv, TypeOK
  <1> QED
    BY <1>1, <1>2, <1>3, <1>4, StakeInvOf

\* Completing a trade, or its coming due, leaves whose it is and what it is for.
KeepsTrades ==
    \A t \in Trades : /\ Exists(t)' <=> Exists(t)
                      /\ Exists(t) => /\ trade'[t].user = trade[t].user
                                      /\ trade'[t].amount = trade[t].amount

LEMMA MarkKeeps == ASSUME TypeInv, NEW p \in Settlers, Mark(p) PROVE KeepsTrades
  <1> DEFINE r == run[p].trade
             y == [trade[r] EXCEPT !.status = "COMPLETED"]
  <1>1. r \in Trades /\ trade[r] \in TradeRow
    BY SettlerDeals DEF Mark, At, Settling
  <1>2. y \in TradeRow /\ y # NoTrade /\ y.user = trade[r].user /\ y.amount = trade[r].amount
    BY <1>1 DEF TradeRow, NoTrade
  <1>3. trade[r] # NoTrade
    BY <1>1 DEF TradeRow, NoTrade
  <1>4. trade' = trade \/ trade' = [trade EXCEPT ![r] = y]
    BY DEF Mark, TypeInv, TypeOK
  <1> HIDE DEF y, r
  <1> QED
    BY <1>1, <1>2, <1>3, <1>4 DEF KeepsTrades, Exists, TypeInv, TypeOK

LEMMA MatureKeeps == ASSUME TypeInv, NEW t \in Trades, Mature(t) PROVE KeepsTrades
  BY DEF KeepsTrades, Mature, Exists, NoTrade, TradeRow, TypeInv, TypeOK

\* Every step accounts for the stakes.
LEMMA NextStakeInv == TypeInv /\ TypeInv' /\ PayInv /\ StakeInv /\ [Next]_vars => StakeInv'
  <1>1. TypeInv' => Counted'
    BY TypeInvCounted, PTL
  <1> SUFFICES ASSUME TypeInv, TypeInv', PayInv, StakeInv, [Next]_vars PROVE StakeInv'
    OBVIOUS
  <1> USE <1>1
  <1>2. ASSUME UNCHANGED <<principal, spent, displaced, trade, payouts>>,
               \A s \in Sessions : At(s, "create")' => run'[s] = run[s]
        PROVE  StakeInv'
    BY <1>2, StakeQuiet DEF Stakes, Exists
  <1>3. ASSUME NEW s \in Sessions, StartSession(s) \/ SessionStep(s) \/ SessionFails(s)
        PROVE  StakeInv'
    <2>0. CASE DebitWrite(s) \/ \E t \in Trades : CreateTrade(s, t)
      BY <2>0, DebitStakeInv, CreateTradeStakeInv
    <2>1. CASE \/ StartSession(s) \/ ReadExclusions(s) \/ ReadUsers(s)
               \/ (\E u \in Users : NextUser(s, u))
               \/ Debit(s) \/ DebitReread(s) \/ DebitRefused(s)
               \/ EndSession(s) \/ SessionFails(s)
      <3>1. UNCHANGED <<principal, spent, displaced, trade, payouts>>
        BY <2>1
        DEF StartSession, ReadExclusions, ReadUsers, NextUser, Debit, DebitReread, DebitRefused,
            EndSession, SessionFails, wallets
      <3>2. run'[s].pc # "create" /\ \A q \in Sessions \ {s} : run'[q] = run[q]
        <4>1. /\ s \in Runs /\ Sessions \subseteq Runs
              /\ run \in [Runs -> SessionState \cup SettlerState \cup {Idle}]
              /\ run[s].pc # "idle" => run[s] \in SessionState
          BY DEF Runs, TypeInv, TypeOK, RunsTyped, SessionOK, Idle
        <4>2. CASE StartSession(s) \/ EndSession(s)
          BY <4>1, <4>2 DEF StartSession, EndSession, End, Idle
        <4>3. CASE ReadExclusions(s)
          BY <4>1, <4>3 DEF ReadExclusions, At, SessionState
        <4>4. CASE ReadUsers(s)
          BY <4>1, <4>4 DEF ReadUsers, At, SessionState
        <4>5. ASSUME run[s].pc # "idle", ToNextUser(s)
              PROVE  run'[s].pc # "create" /\ \A q \in Sessions \ {s} : run'[q] = run[q]
          <5>1. run' = [run EXCEPT ![s] = ToNext(run[s])] /\ ToNext(run[s]).pc = "next"
            BY <4>5, SessionGoesOn
          <5> QED
            BY <4>1, <5>1
        <4>6. CASE DebitRefused(s)
          BY <4>5, <4>6 DEF DebitRefused, At
        <4>7. ASSUME NEW u \in Users, NextUser(s, u)
              PROVE  run'[s].pc # "create" /\ \A q \in Sessions \ {s} : run'[q] = run[q]
          BY <4>1, <4>7 DEF NextUser, At, SessionState
        <4>8. CASE Debit(s)
          BY <4>1, <4>8 DEF Debit, At, SessionState
        <4>9. CASE DebitReread(s)
          BY <4>1, <4>9 DEF DebitReread, At, SessionState
        <4>10. CASE SessionFails(s)
          <5>1. CASE End(s)
            BY <4>1, <5>1 DEF End, Idle
          <5>2. CASE run[s].pc # "idle" /\ ToNextUser(s)
            BY <4>5, <5>2
          <5> QED
            BY <4>10, <5>1, <5>2 DEF SessionFails
        <4> QED
          BY <2>1, <4>2, <4>3, <4>4, <4>6, <4>7, <4>8, <4>9, <4>10
      <3> QED
        BY <1>2, <3>1, <3>2 DEF At
    <2> QED
      BY <1>3, <2>0, <2>1 DEF SessionStep
  <1>4. ASSUME NEW p \in Settlers, SettlerStep(p) \/ SettlerFails(p) PROVE StakeInv'
    <2>1. \A s \in Sessions : run'[s] = run[s]
      BY <1>4, RunAssumption
      DEF SettlerStep, SettlerFails, StartSettling, NextTrade, Mark, ReturnPrincipal, ReturnReread,
          ReturnWrite, PayProfit, PayCommission, EndSettling, End, ToNextTrade, TypeInv, TypeOK, Runs
    <2>2. CASE ReturnWrite(p)
      BY <2>2, ReturnStakeInv
    <2>3. CASE StartSettling(p) \/ (\E t \in Trades : NextTrade(p, t)) \/ EndSettling(p)
               \/ ReturnPrincipal(p) \/ ReturnReread(p) \/ SettlerFails(p)
      BY <1>2, <2>1, <2>3
      DEF StartSettling, NextTrade, EndSettling, ReturnPrincipal, ReturnReread, SettlerFails, wallets
    <2>4. CASE Mark(p)
      <3>1. \A u \in Users : Stakes(u)' = Stakes(u)
        BY <2>4, MarkKeeps DEF Mark, Stakes, KeepsTrades
      <3> QED
        BY <2>1, <2>4, <3>1, StakeQuiet DEF Mark, wallets
    <2>5. CASE PayProfit(p) \/ PayCommission(p)
      <3>1. \A t \in Trades : payouts'[t]["principal"] = payouts[t]["principal"]
        <4>1. \/ UNCHANGED payouts
              \/ payouts' = [payouts EXCEPT ![run[p].trade]["profit"] = @ + 1]
              \/ payouts' = [payouts EXCEPT ![run[p].trade]["commission"] = @ + 1]
          BY <2>5 DEF PayProfit, PayCommission, Pay
        <4> QED
          BY <4>1 DEF TypeInv, TypeOK, Part
      <3>2. \A u \in Users : Stakes(u)' = Stakes(u)
        BY <2>5, <3>1 DEF PayProfit, PayCommission, Stakes, Exists
      <3> QED
        BY <2>1, <2>5, <3>2, StakeQuiet DEF PayProfit, PayCommission, wallets
    <2> QED
      BY <1>4, <2>2, <2>3, <2>4, <2>5 DEF SettlerStep
  <1>5. ASSUME NEW t \in Trades, Mature(t) PROVE StakeInv'
    <2>2. \A u \in Users : Stakes(u)' = Stakes(u)
      BY <1>5, MatureKeeps DEF Mature, Stakes, KeepsTrades
    <2> QED
      BY <1>5, <2>2, StakeQuiet DEF Mature, wallets
  <1>6. CASE ChangeFlag
    BY <1>2, <1>6 DEF ChangeFlag, wallets
  <1>7. ASSUME NEW u \in Users, Spend(u) \/ SpendWrite(u) PROVE StakeInv'
    BY <1>2, <1>7, SpendStakeInv DEF Spend
  <1>8. CASE Crash
    BY <1>2, <1>8 DEF Crash, Idle, At, Runs
  <1>9. CASE UNCHANGED vars
    BY <1>2, <1>9 DEF vars, wallets
  <1> QED
    BY <1>3, <1>4, <1>5, <1>6, <1>7, <1>8, <1>9 DEF Next

(* ---------------------------------------------------------------------- *)
(* Races                                                                  *)

\* Who is about to write the principal of a user.
Writes(q, u) == At(q, "write") /\ Owner(q) = u

\* While no changes of a principal have overlapped, what one is about to write
\* over is what it has read, and nothing has been written over.
NoRace(u) ==
    /\ displaced[u] = 0
    /\ spending[u] # NotReading =>
           spending[u] = principal[u] /\ \A q \in Runs : ~Writes(q, u)
    /\ \A q \in Runs : Writes(q, u) => run[q].was = principal[u]
    /\ \A q, r \in Runs : Writes(q, u) /\ Writes(r, u) => q = r

RaceInv == \A u \in Users \ raced : NoRace(u)

\* A step that begins and ends no write.
LEMMA RaceQuiet ==
    ASSUME RaceInv, UNCHANGED <<principal, displaced, raced>>,
           \A u \in Users : spending'[u] # NotReading => spending'[u] = spending[u],
           \A q \in Runs, u \in Users :
               Writes(q, u)' => Writes(q, u) /\ run'[q].was = run[q].was
    PROVE  RaceInv'
  <1> SUFFICES ASSUME NEW u \in Users \ raced PROVE NoRace(u)'
    BY DEF RaceInv
  <1>1. NoRace(u)
    BY DEF RaceInv
  <1> QED
    BY <1>1 DEF NoRace

\* The second read of a change, of a run or of another request.
LEMMA RereadRaces ==
    ASSUME TypeInv, RaceInv, NEW u \in Users, NotesRace(u), UNCHANGED <<principal, displaced>>,
           \/ /\ UNCHANGED spending
              /\ \E q \in Runs : /\ run'[q].was = principal[u]
                                 /\ \A r \in Runs, v \in Users :
                                        Writes(r, v)' =>
                                            \/ r = q /\ v = u
                                            \/ Writes(r, v) /\ run'[r].was = run[r].was
           \/ /\ spending' = [spending EXCEPT ![u] = principal[u]]
              /\ \A r \in Runs, v \in Users :
                     Writes(r, v)' => Writes(r, v) /\ run'[r].was = run[r].was
    PROVE  RaceInv'
  <1> SUFFICES ASSUME NEW v \in Users \ raced' PROVE NoRace(v)'
    BY DEF RaceInv
  <1>1. v \notin raced /\ NoRace(v)
    BY DEF RaceInv, NotesRace
  <1>2. CASE v # u
    BY <1>1, <1>2 DEF NoRace, TypeInv, TypeOK
  <1>3. CASE v = u
    <2>1. spending[u] = NotReading /\ \A q \in Runs : ~Writes(q, u)
      BY <1>3 DEF NotesRace, ToBeWritten, Writes
    <2>2. CASE UNCHANGED spending
      BY <1>1, <1>3, <2>1, <2>2 DEF NoRace, TypeInv, TypeOK
    <2>3. CASE spending' = [spending EXCEPT ![u] = principal[u]]
      BY <1>1, <1>3, <2>1, <2>3 DEF NoRace, TypeInv, TypeOK
    <2> QED
      BY <2>2, <2>3
  <1> QED
    BY <1>2, <1>3

\* The write of a change: over what it read, if nothing else is about to.
LEMMA WriteRaces ==
    ASSUME TypeInv, RaceInv, NEW u \in Users, NEW was \in Nat, NEW new \in Nat,
           WritePrincipal(u, was, new), UNCHANGED raced,
           \/ /\ UNCHANGED spending
              /\ \E q \in Runs : /\ Writes(q, u) /\ was = run[q].was
                                 /\ \A r \in Runs, v \in Users :
                                        Writes(r, v)' => /\ r # q /\ Writes(r, v)
                                                         /\ run'[r].was = run[r].was
           \/ /\ was = spending[u] /\ spending[u] # NotReading
              /\ spending' = [spending EXCEPT ![u] = NotReading]
              /\ \A r \in Runs, v \in Users :
                     Writes(r, v)' => Writes(r, v) /\ run'[r].was = run[r].was
    PROVE  RaceInv'
  <1> SUFFICES ASSUME NEW v \in Users \ raced PROVE NoRace(v)'
    BY DEF RaceInv
  <1>1. NoRace(v)
    BY DEF RaceInv
  <1>2. /\ v = u => principal'[v] = new /\ displaced'[v] = displaced[v] + was - principal[v]
        /\ v # u => principal'[v] = principal[v] /\ displaced'[v] = displaced[v]
    BY WriteMoves
  <1>3. CASE v # u
    BY <1>1, <1>2, <1>3 DEF NoRace, TypeInv, TypeOK
  <1>4. CASE v = u
    <2>1. was = principal[u] /\ displaced'[u] = 0
      <3>1. was = principal[u] /\ displaced[u] = 0
        BY <1>1, <1>4 DEF NoRace
      <3>2. principal[u] \in Nat
        BY DEF TypeInv, TypeOK
      <3>3. displaced'[u] = 0 + principal[u] - principal[u]
        BY <1>2, <1>4, <3>1
      <3> QED
        BY <3>1, <3>2, <3>3
    <2>2. spending'[u] = NotReading
      BY <1>1, <1>4 DEF NoRace, TypeInv, TypeOK
    <2>3. \A r \in Runs : ~Writes(r, u)'
      BY <1>1, <1>4 DEF NoRace
    <2> QED
      BY <1>4, <2>1, <2>2, <2>3 DEF NoRace
  <1> QED
    BY <1>3, <1>4

\* The runs that make no step go on with what they are about to write.
LEMMA OthersWrite ==
    ASSUME TypeInv, NEW p, \A q \in Runs \ {p} : run'[q] = run[q],
           \A t \in Trades : Exists(t) => trade'[t].user = trade[t].user
    PROVE  \A q \in Runs \ {p}, u \in Users :
               Writes(q, u)' => Writes(q, u) /\ run'[q].was = run[q].was
  <1> SUFFICES ASSUME NEW q \in Runs \ {p}, NEW u \in Users, Writes(q, u)'
               PROVE  Writes(q, u) /\ run'[q].was = run[q].was
    OBVIOUS
  <1>1. At(q, "write") /\ run'[q] = run[q]
    BY DEF Writes, At
  <1>2. CASE q \in Sessions
    BY <1>1, <1>2 DEF Writes, Owner, At
  <1>3. CASE q \notin Sessions
    <2>1. q \in Settlers /\ run[q].pc \in Settling
      BY <1>1, <1>3 DEF Runs, At, Settling
    <2>2. trade'[run[q].trade].user = trade[run[q].trade].user
      BY <2>1, SettlerDeals
    <2> QED
      BY <1>1, <1>3, <2>2 DEF Writes, Owner, At
  <1> QED
    BY <1>2, <1>3

\* A step of one run that is not about to write after it.
LEMMA RunQuiet ==
    ASSUME TypeInv, RaceInv, UNCHANGED <<principal, displaced, raced, spending>>,
           NEW p \in Runs, NEW x, run' = [run EXCEPT ![p] = x], x.pc # "write",
           \A t \in Trades : Exists(t) => trade'[t].user = trade[t].user
    PROVE  RaceInv'
  <1>1. run'[p] = x /\ \A q \in Runs \ {p} : run'[q] = run[q]
    BY OtherRuns
  <1>2. \A q \in Runs, u \in Users : Writes(q, u)' => Writes(q, u) /\ run'[q].was = run[q].was
    BY <1>1, OthersWrite DEF Writes, At
  <1> QED
    BY <1>2, RaceQuiet

\* The step of a session: its second read of a balance, its write, or another.
LEMMA SessionStepRaceInv ==
    ASSUME TypeInv, RaceInv, NEW s \in Sessions,
           StartSession(s) \/ SessionStep(s) \/ SessionFails(s)
    PROVE  RaceInv'
  <1>0. s \in Runs /\ (run[s].pc # "idle" => run[s] \in SessionState)
    BY DEF Runs, TypeInv, RunsTyped, SessionOK, Idle
  <1>1. ASSUME NEW x, run' = [run EXCEPT ![s] = x], x.pc # "write", UNCHANGED <<wallets, trade>>
        PROVE  RaceInv'
    BY <1>0, <1>1, RunQuiet DEF wallets
  <1>2. CASE StartSession(s)
    <2> DEFINE x == [pc |-> "exclusions", skip |-> {}, todo |-> {}, user |-> "nobody", stake |-> 0,
                     found |-> 0, was |-> 0]
    <2>1. run' = [run EXCEPT ![s] = x] /\ UNCHANGED <<wallets, trade>>
      BY <1>2 DEF StartSession
    <2>2. x.pc # "write"
      OBVIOUS
    <2> QED
      BY <1>1, <2>1, <2>2
  <1>3. CASE ReadExclusions(s)
    <2> DEFINE x == [run[s] EXCEPT !.pc = "users", !.skip = excluded]
    <2>1. run' = [run EXCEPT ![s] = x] /\ UNCHANGED <<wallets, trade>>
      BY <1>3 DEF ReadExclusions, TypeInv, TypeOK, Runs
    <2>2. x.pc # "write"
      BY <1>0, <1>3 DEF ReadExclusions, At, SessionState
    <2> QED
      BY <1>1, <2>1, <2>2
  <1>4. CASE ReadUsers(s)
    <2> DEFINE x == [run[s] EXCEPT !.pc = "next", !.todo = Eligible(s)]
    <2>1. run' = [run EXCEPT ![s] = x] /\ UNCHANGED <<wallets, trade>>
      BY <1>4 DEF ReadUsers, TypeInv, TypeOK, Runs
    <2>2. x.pc # "write"
      BY <1>0, <1>4 DEF ReadUsers, At, SessionState
    <2> QED
      BY <1>1, <2>1, <2>2
  <1>5. ASSUME NEW u \in Users, NextUser(s, u) PROVE RaceInv'
    <2> DEFINE st == Stake(principal[u])
               x == [run[s] EXCEPT !.todo = @ \ {u},
                                   !.pc = IF st > 0 THEN "debit" ELSE "next",
                                   !.user = IF st > 0 THEN u ELSE "nobody",
                                   !.stake = st]
    <2>1. run' = [run EXCEPT ![s] = x] /\ UNCHANGED <<wallets, trade>>
      BY <1>5 DEF NextUser, TypeInv, TypeOK, Runs
    <2> HIDE DEF st
    <2>2. x.pc # "write"
      BY <1>0, <1>5 DEF NextUser, At, SessionState
    <2> QED
      BY <1>1, <2>1, <2>2
  <1>6. CASE Debit(s)
    <2> DEFINE x == [run[s] EXCEPT !.pc = "reread", !.found = principal[run[s].user]]
    <2>1. run' = [run EXCEPT ![s] = x] /\ UNCHANGED <<wallets, trade>>
      BY <1>6 DEF Debit, TypeInv, TypeOK, Runs
    <2>2. x.pc # "write"
      BY <1>0, <1>6 DEF Debit, At, SessionState
    <2> QED
      BY <1>1, <2>1, <2>2
  <1>7. CASE DebitReread(s)
    <2> DEFINE u == run[s].user
               x == [run[s] EXCEPT !.pc = "write", !.was = principal[u]]
    <2>1. run[s] \in SessionState /\ u \in Users
      BY <1>7, SessionDeals DEF DebitReread, At, Dealing
    <2>2. run' = [run EXCEPT ![s] = x]
      BY <1>7 DEF DebitReread, TypeInv, TypeOK, Runs
    <2>3. x.was = principal[u] /\ x.user = u
      BY <2>1 DEF SessionState
    <2> HIDE DEF x
    <2>4. run'[s].was = principal[u] /\ run'[s].user = u /\ \A q \in Runs \ {s} : run'[q] = run[q]
      BY <1>0, <2>2, <2>3, OtherRuns
    <2>5. \A v \in Users : Writes(s, v)' => v = u
      BY <2>4 DEF Writes, Owner
    <2>6. \A r \in Runs \ {s}, v \in Users :
              Writes(r, v)' => Writes(r, v) /\ run'[r].was = run[r].was
      BY <1>7, <2>4, OthersWrite DEF DebitReread
    <2>7. UNCHANGED <<principal, displaced, spending>> /\ NotesRace(u)
      BY <1>7 DEF DebitReread
    <2> HIDE DEF u
    <2> QED
      BY <1>0, <2>1, <2>4, <2>5, <2>6, <2>7, RereadRaces
  <1>8. ASSUME run[s].pc # "idle", ToNextUser(s)
        PROVE  /\ run' = [run EXCEPT ![s] = ToNext(run[s])] /\ ToNext(run[s]).pc # "write"
               /\ run'[s].pc # "write" /\ \A q \in Runs \ {s} : run'[q] = run[q]
    <2>1. run' = [run EXCEPT ![s] = ToNext(run[s])] /\ ToNext(run[s]).pc = "next"
      BY <1>8, SessionGoesOn
    <2> QED
      BY <1>0, <2>1, OtherRuns
  <1>9. CASE DebitWrite(s)
    <2> DEFINE u == run[s].user
    <2>1. /\ run[s] \in SessionState /\ u \in Users /\ run[s].was \in Nat
          /\ run[s].was - run[s].stake \in Nat /\ run[s].pc # "idle"
      BY <1>9, SessionDeals DEF DebitWrite, At, Dealing
    <2>2. run'[s].pc # "write" /\ \A q \in Runs \ {s} : run'[q] = run[q]
      <3>1. CASE EntryAccepted(s)
        BY <1>0, <1>9, <2>1, <3>1 DEF DebitWrite, SessionState, TypeInv, TypeOK
      <3>2. CASE ~EntryAccepted(s)
        BY <1>8, <1>9, <2>1, <3>2 DEF DebitWrite
      <3> QED
        BY <3>1, <3>2
    <2>3. Writes(s, u)
      BY <1>9 DEF DebitWrite, Writes, Owner
    <2>4. \A r \in Runs, v \in Users :
              Writes(r, v)' => r # s /\ Writes(r, v) /\ run'[r].was = run[r].was
      BY <1>9, <2>2, OthersWrite DEF DebitWrite, Writes, At
    <2>5. /\ WritePrincipal(u, run[s].was, run[s].was - run[s].stake)
          /\ UNCHANGED <<spending, raced>>
      BY <1>9 DEF DebitWrite
    <2> HIDE DEF u
    <2> QED
      BY <1>0, <2>1, <2>3, <2>4, <2>5, WriteRaces
  <1>10. CASE DebitRefused(s)
    BY <1>1, <1>8, <1>10 DEF DebitRefused, At
  <1>11. ASSUME NEW t \in Trades, CreateTrade(s, t) PROVE RaceInv'
    <2>1. \A r \in Trades : Exists(r) => trade'[r].user = trade[r].user
      BY <1>11 DEF CreateTrade, Exists, TypeInv, TypeOK
    <2>2. run' = [run EXCEPT ![s] = ToNext(run[s])] /\ ToNext(run[s]).pc # "write"
      BY <1>8, <1>11 DEF CreateTrade, At
    <2> QED
      BY <1>0, <1>11, <2>1, <2>2, RunQuiet DEF CreateTrade, wallets
  <1>12. ASSUME End(s), UNCHANGED <<wallets, trade>> PROVE RaceInv'
    <2>1. run' = [run EXCEPT ![s] = Idle] /\ Idle.pc # "write"
      BY <1>12 DEF End, Idle
    <2> QED
      BY <1>1, <1>12, <2>1
  <1>13. CASE EndSession(s)
    BY <1>12, <1>13 DEF EndSession
  <1>14. CASE SessionFails(s)
    <2>1. CASE End(s)
      BY <1>12, <1>14, <2>1 DEF SessionFails
    <2>2. CASE run[s].pc # "idle" /\ ToNextUser(s)
      BY <1>1, <1>8, <1>14, <2>2 DEF SessionFails
    <2> QED
      BY <1>14, <2>1, <2>2 DEF SessionFails
  <1> QED
    BY <1>2, <1>3, <1>4, <1>5, <1>6, <1>7, <1>9, <1>10, <1>11, <1>13, <1>14 DEF SessionStep

\* The step of a settlement, likewise.
LEMMA SettlerStepRaceInv ==
    ASSUME TypeInv, RaceInv, NEW p \in Settlers,
           SettlerStep(p) \/ SettlerFails(p)
    PROVE  RaceInv'
  <1>0. p \in Runs /\ p \notin Sessions /\ (run[p].pc # "idle" => run[p] \in SettlerState)
    BY RunAssumption DEF Runs, TypeInv, RunsTyped, SettlerOK, Idle
  <1>1. ASSUME NEW x, run' = [run EXCEPT ![p] = x], x.pc # "write", UNCHANGED wallets,
               \A t \in Trades : Exists(t) => trade'[t].user = trade[t].user
        PROVE  RaceInv'
    BY <1>0, <1>1, RunQuiet DEF wallets
  <1>2. CASE StartSettling(p)
    <2> DEFINE x == [pc |-> "next", todo |-> Due, trade |-> "none", found |-> 0, was |-> 0]
    <2>1. run' = [run EXCEPT ![p] = x] /\ UNCHANGED <<wallets, trade>>
      BY <1>2 DEF StartSettling
    <2>2. x.pc # "write"
      OBVIOUS
    <2> QED
      BY <1>1, <2>1, <2>2
  <1>3. ASSUME NEW t \in Trades, NextTrade(p, t) PROVE RaceInv'
    <2> DEFINE x == [run[p] EXCEPT !.todo = @ \ {t}, !.pc = "mark", !.trade = t]
    <2>1. run' = [run EXCEPT ![p] = x] /\ UNCHANGED <<wallets, trade>>
      BY <1>3 DEF NextTrade, TypeInv, TypeOK, Runs
    <2>2. x.pc # "write"
      BY <1>0, <1>3 DEF NextTrade, At, SettlerState
    <2> QED
      BY <1>1, <2>1, <2>2
  <1>4. ASSUME NEW k \in Part, run[p].pc # "idle", run' = [run EXCEPT ![p].pc = k],
               UNCHANGED wallets, \A t \in Trades : Exists(t) => trade'[t].user = trade[t].user
        PROVE  RaceInv'
    <2> DEFINE x == [run[p] EXCEPT !.pc = k]
    <2>1. run' = [run EXCEPT ![p] = x]
      BY <1>4 DEF TypeInv, TypeOK, Runs
    <2>2. x.pc # "write"
      BY <1>0, <1>4 DEF SettlerState, Part
    <2> QED
      BY <1>1, <1>4, <2>1, <2>2
  <1>5. ASSUME run[p].pc # "idle", ToNextTrade(p)
        PROVE  /\ run' = [run EXCEPT ![p] = OnTo(run[p])] /\ OnTo(run[p]).pc # "write"
               /\ run'[p].pc # "write" /\ \A q \in Runs \ {p} : run'[q] = run[q]
    <2>1. run' = [run EXCEPT ![p] = OnTo(run[p])] /\ OnTo(run[p]).pc = "next"
      BY <1>5, SettlerGoesOn
    <2> QED
      BY <1>0, <2>1, OtherRuns
  <1>6. CASE Mark(p)
    <2>1. /\ run[p].pc # "idle" /\ UNCHANGED wallets
          /\ \A t \in Trades : Exists(t) => trade'[t].user = trade[t].user
      BY <1>6, MarkKeeps DEF Mark, At, KeepsTrades
    <2>2. CASE trade[run[p].trade].status = "PENDING"
      BY <1>4, <1>6, <2>1, <2>2 DEF Mark, Part
    <2>3. CASE trade[run[p].trade].status # "PENDING"
      BY <1>1, <1>5, <1>6, <2>1, <2>3 DEF Mark
    <2> QED
      BY <2>2, <2>3
  <1>7. CASE ReturnPrincipal(p)
    <2> DEFINE x == [run[p] EXCEPT !.pc = "reread", !.found = principal[Owner(p)]]
    <2>1. run' = [run EXCEPT ![p] = x] /\ UNCHANGED <<wallets, trade>>
      BY <1>7 DEF ReturnPrincipal, TypeInv, TypeOK, Runs
    <2>2. x.pc # "write"
      BY <1>0, <1>7 DEF ReturnPrincipal, At, SettlerState
    <2> QED
      BY <1>1, <2>1, <2>2
  <1>8. CASE ReturnReread(p)
    <2> DEFINE u == Owner(p)
               x == [run[p] EXCEPT !.pc = "write", !.was = principal[u]]
    <2>1. run[p] \in SettlerState /\ u \in Users /\ u = trade[run[p].trade].user
      BY <1>8, SettlerDeals DEF ReturnReread, At, Settling
    <2>2. run' = [run EXCEPT ![p] = x]
      BY <1>8 DEF ReturnReread, TypeInv, TypeOK, Runs
    <2>3. x.was = principal[u] /\ x.trade = run[p].trade
      BY <2>1 DEF SettlerState
    <2> HIDE DEF x
    <2>4. run'[p].was = principal[u] /\ run'[p].trade = run[p].trade
          /\ \A q \in Runs \ {p} : run'[q] = run[q]
      BY <1>0, <2>2, <2>3, OtherRuns
    <2>5. \A v \in Users : Writes(p, v)' => v = u
      BY <1>0, <1>8, <2>1, <2>4 DEF Writes, Owner, ReturnReread
    <2>6. \A r \in Runs \ {p}, v \in Users :
              Writes(r, v)' => Writes(r, v) /\ run'[r].was = run[r].was
      BY <1>8, <2>4, OthersWrite DEF ReturnReread
    <2>7. UNCHANGED <<principal, displaced, spending>> /\ NotesRace(u)
      BY <1>8 DEF ReturnReread
    <2> HIDE DEF u
    <2> QED
      BY <1>0, <2>1, <2>4, <2>5, <2>6, <2>7, RereadRaces
  <1>9. CASE ReturnWrite(p)
    <2> DEFINE u == Owner(p)
    <2>1. /\ run[p] \in SettlerState /\ u \in Users /\ run[p].was \in Nat
          /\ run[p].was + trade[run[p].trade].amount \in Nat /\ run[p].pc # "idle"
      BY <1>9, SettlerDeals DEF ReturnWrite, At, Settling
    <2>2. run'[p].pc # "write" /\ \A q \in Runs \ {p} : run'[q] = run[q]
      <3>1. CASE EntryAccepted(p)
        BY <1>0, <1>9, <2>1, <3>1 DEF ReturnWrite, SettlerState, TypeInv, TypeOK
      <3>2. CASE ~EntryAccepted(p)
        BY <1>5, <1>9, <2>1, <3>2 DEF ReturnWrite
      <3> QED
        BY <3>1, <3>2
    <2>3. Writes(p, u)
      BY <1>9 DEF ReturnWrite, Writes
    <2>4. \A r \in Runs, v \in Users :
              Writes(r, v)' => r # p /\ Writes(r, v) /\ run'[r].was = run[r].was
      BY <1>9, <2>2, OthersWrite DEF ReturnWrite, Writes, At
    <2>5. /\ WritePrincipal(u, run[p].was, run[p].was + trade[run[p].trade].amount)
          /\ UNCHANGED <<spending, raced>>
      BY <1>9 DEF ReturnWrite
    <2> HIDE DEF u
    <2> QED
      BY <1>0, <2>1, <2>3, <2>4, <2>5, WriteRaces
  <1>10. CASE PayProfit(p)
    BY <1>4, <1>10 DEF PayProfit, At, Part
  <1>11. CASE PayCommission(p)
    BY <1>1, <1>5, <1>11 DEF PayCommission, At
  <1>12. CASE EndSettling(p)
    <2>1. run' = [run EXCEPT ![p] = Idle] /\ Idle.pc # "write" /\ UNCHANGED <<wallets, trade>>
      BY <1>12 DEF EndSettling, End, Idle
    <2> QED
      BY <1>1, <2>1
  <1>13. CASE SettlerFails(p)
    <2>1. run[p].pc # "idle" /\ ToNextTrade(p) /\ UNCHANGED <<wallets, trade>>
      BY <1>13 DEF SettlerFails, Part
    <2> QED
      BY <1>1, <1>5, <2>1
  <1> QED
    BY <1>2, <1>3, <1>6, <1>7, <1>8, <1>9, <1>10, <1>11, <1>12, <1>13 DEF SettlerStep

\* Every step keeps the order of those that write.
LEMMA NextRaceInv == TypeInv /\ RaceInv /\ [Next]_vars => RaceInv'
  <1> SUFFICES ASSUME TypeInv, RaceInv, [Next]_vars PROVE RaceInv'
    OBVIOUS
  <1>1. ASSUME UNCHANGED run, \A t \in Trades : Exists(t) => trade'[t].user = trade[t].user
        PROVE  \A q \in Runs, u \in Users : Writes(q, u)' => Writes(q, u) /\ run'[q].was = run[q].was
    <2>1. PICK p : p \notin Runs
      BY NoSetContainsEverything
    <2> QED
      BY <1>1, <2>1, OthersWrite
  <1>2. ASSUME NEW t \in Trades, Mature(t) PROVE RaceInv'
    BY <1>1, <1>2, MatureKeeps, RaceQuiet DEF Mature, KeepsTrades, wallets
  <1>3. CASE ChangeFlag
    BY <1>1, <1>3, RaceQuiet DEF ChangeFlag, wallets
  <1>4. ASSUME NEW u \in Users, Spend(u) PROVE RaceInv'
    BY <1>1, <1>4, RereadRaces DEF Spend
  <1>5. ASSUME NEW u \in Users, SpendWrite(u) PROVE RaceInv'
    <2>1. spending[u] \in Nat /\ spending[u] # NotReading /\ 0 \in Nat
      BY <1>5 DEF SpendWrite, TypeInv, TypeOK
    <2>2. \A q \in Runs, v \in Users : Writes(q, v)' => Writes(q, v) /\ run'[q].was = run[q].was
      BY <1>1, <1>5 DEF SpendWrite
    <2> QED
      BY <1>5, <2>1, <2>2, WriteRaces DEF SpendWrite
  <1>6. CASE Crash
    BY <1>6, RaceQuiet DEF Crash, Writes, At, Idle, Runs
  <1>7. CASE UNCHANGED vars
    BY <1>1, <1>7, RaceQuiet DEF vars, wallets
  <1> QED
    BY <1>2, <1>3, <1>4, <1>5, <1>6, <1>7, SessionStepRaceInv, SettlerStepRaceInv DEF Next

\* What is in a user's principal, in open trades and spent is at most what the
\* user had, but for what changes wrote over each other; and on a principal none
\* of whose changes overlapped nothing is written over, so that sessions and
\* settlements then move the money and never make any, wherever they fail.
THEOREM StakesAreBacked == Spec => []StakesAreTakenFromPrincipal
  <1>1. Init => StakeInv
    <2> SUFFICES ASSUME Init, NEW u \in Users
                 PROVE  /\ IsFiniteSet(Units(Stakes(u))) /\ Total(Stakes(u)) = 0
                        /\ IsFiniteSet(Units(Held(u))) /\ Total(Held(u)) = 0
                        /\ principal[u] = Funds[u] /\ spent[u] = 0 /\ displaced[u] = 0
                        /\ Funds[u] \in Nat
      BY FundsAssumption DEF StakeInv, Sums, Init
    <2>1. Stakes(u) = [t \in Trades |-> 0] /\ Held(u) = [s \in Sessions |-> 0]
      BY DEF Init, Stakes, Held, Exists, At, Idle, Runs
    <2> QED
      BY <2>1, TotalOfNothing, FundsAssumption DEF Init
  <1>2. Init => RaceInv
    BY DEF Init, RaceInv, NoRace, Writes, At, Idle, Runs
  <1>3. TypeInv /\ StakeInv => HeldNeverExceedsFunds
    BY StakeInvOf DEF HeldNeverExceedsFunds
  <1>4. RaceInv => OnlyRacesDisplace
    BY DEF RaceInv, NoRace, OnlyRacesDisplace
  <1>5. TypeInv /\ StakeInv /\ RaceInv => StakesAreTakenFromPrincipal
    BY <1>3, <1>4 DEF StakesAreTakenFromPrincipal
  <1> QED
    BY <1>1, <1>2, <1>5, InitTypeInv, NextTypeInv, InitPayInv, NextPayInv, NextStakeInv,
       NextRaceInv, PTL DEF Spec

(* ---------------------------------------------------------------------- *)
(* Eligibility                                                            *)

\* A session that does not move, while the flags stay, stays clear of the barred.
LEMMA BarredForStays ==
    ASSUME NEW s \in Sessions, BarredFor(s), run'[s] = run[s], barred'[s] = barred[s],
           UNCHANGED flags
    PROVE  BarredFor(s)'
  BY DEF BarredFor, At, Clear, flags, Dealing

\* A session reads the switch, the exclusions and the users in turn, and takes
\* no one who was barred since before.
LEMMA SessionStepBarInv ==
    ASSUME TypeInv, BarInv, NEW s \in Sessions,
           StartSession(s) \/ SessionStep(s) \/ SessionFails(s)
    PROVE  BarInv'
  <1>0. /\ run[s].pc # "idle" => run[s] \in SessionState
        /\ BarredFor(s)
        /\ run \in [Runs -> SessionState \cup SettlerState \cup {Idle}]
        /\ barred \in [Sessions -> SUBSET Bars]
        /\ s \in Runs
    BY DEF TypeInv, TypeOK, RunsTyped, SessionOK, Idle, BarInv, Runs
  <1>1. UNCHANGED flags
    BY DEF StartSession, SessionStep, SessionFails, ReadExclusions, ReadUsers, NextUser, Debit,
        DebitReread, DebitWrite, DebitRefused, CreateTrade, EndSession
  <1>2. \A q \in Sessions \ {s} : run'[q] = run[q] /\ barred'[q] = barred[q]
    BY <1>0
    DEF StartSession, SessionStep, SessionFails, ReadExclusions, ReadUsers, NextUser, Debit,
        DebitReread, DebitWrite, DebitRefused, CreateTrade, EndSession, ToNextUser, End, Runs
  <1>3. SUFFICES BarredFor(s)'
    BY <1>1, <1>2, BarredForStays DEF BarInv
  <1>4. CASE StartSession(s)
    BY <1>0, <1>4 DEF StartSession, BarredFor, BarsNow, Switch, At, flags, Dealing
  <1>5. CASE ReadExclusions(s)
    <2>1. /\ run'[s].pc = "users" /\ run'[s].skip = excluded
          /\ barred'[s] = barred[s]
      BY <1>0, <1>5 DEF ReadExclusions, At, SessionState
    <2>2. \A u \in Users : <<"excluded", u>> \in barred[s] => u \in excluded
      BY <1>0 DEF BarredFor, BarsNow, Switch
    <2> QED
      BY <1>0, <1>1, <2>1, <2>2 DEF BarredFor, At, flags, Dealing
  <1>6. CASE ReadUsers(s)
    <2>1. /\ run'[s].pc = "next" /\ run'[s].todo = willing \ run[s].skip
          /\ barred'[s] = barred[s] /\ At(s, "users")
      BY <1>0, <1>6 DEF ReadUsers, At, SessionState, Eligible
    <2>2. \A u \in Users : <<"unwilling", u>> \in barred[s] => u \notin willing
      BY <1>0 DEF BarredFor, BarsNow, Switch
    <2>3. \A u \in run'[s].todo : {<<"excluded", u>>, <<"unwilling", u>>} \cap barred'[s] = {}
      BY <1>0, <2>1, <2>2 DEF BarredFor, TypeInv, TypeOK
    <2> QED
      BY <1>0, <1>1, <2>1, <2>3 DEF BarredFor, At, Clear, flags, Dealing
  <1>7. ASSUME barred'[s] = barred[s],
               run[s].pc \in {"next"} \cup Dealing, run'[s].pc \in {"next"} \cup Dealing,
               run'[s].todo \subseteq run[s].todo,
               run'[s].pc # "next" =>
                   \/ run'[s].user \in run[s].todo
                   \/ (~At(s, "next") /\ run'[s].user = run[s].user)
        PROVE  BarredFor(s)'
    BY <1>0, <1>1, <1>7 DEF BarredFor, At, Clear, flags, Dealing
  <1>8. ASSUME NEW u \in Users, NextUser(s, u) PROVE BarredFor(s)'
    <2>1. /\ run'[s].pc \in {"next", "debit"}
          /\ run'[s].todo = run[s].todo \ {u}
          /\ run'[s].pc = "debit" => run'[s].user = u
      <3> DEFINE st == Stake(principal[u])
                 x == [run[s] EXCEPT !.todo = @ \ {u},
                                     !.pc = IF st > 0 THEN "debit" ELSE "next",
                                     !.user = IF st > 0 THEN u ELSE "nobody",
                                     !.stake = st]
      <3>1. run[s] \in SessionState
        BY <1>0, <1>8 DEF NextUser, At
      <3>2. run'[s] = x
        BY <1>0, <1>8 DEF NextUser
      <3> HIDE DEF st
      <3> QED
        <4>1. x.pc \in {"next", "debit"} /\ (x.pc = "debit" => st > 0)
          BY <3>1 DEF SessionState
        <4>2. x.todo = run[s].todo \ {u}
          BY <3>1 DEF SessionState
        <4>3. st > 0 => x.user = u
          BY <3>1 DEF SessionState
        <4> QED
          BY <3>2, <4>1, <4>2, <4>3
    <2>2. At(s, "next") /\ u \in run[s].todo /\ barred'[s] = barred[s]
      BY <1>8 DEF NextUser
    <2> QED
      BY <1>7, <2>1, <2>2 DEF At, Dealing
  <1>9. CASE Debit(s) \/ DebitReread(s)
    <2>1. /\ run'[s].pc \in Dealing /\ run'[s].todo = run[s].todo /\ run'[s].user = run[s].user
          /\ run[s].pc \in Dealing /\ ~At(s, "next") /\ barred'[s] = barred[s]
      BY <1>0, <1>9 DEF Debit, DebitReread, At, SessionState, Dealing
    <2> QED
      BY <1>7, <2>1 DEF Dealing
  <1>10. ASSUME run[s].pc \in Dealing, ToNextUser(s), barred'[s] = barred[s] PROVE BarredFor(s)'
    <2>1. run[s].pc # "idle"
      BY <1>10 DEF Dealing
    <2>2. /\ run' = [run EXCEPT ![s] = ToNext(run[s])]
          /\ ToNext(run[s]).pc = "next" /\ ToNext(run[s]).todo = run[s].todo
      BY <1>10, <2>1, SessionGoesOn
    <2>3. run'[s].pc = "next" /\ run'[s].todo = run[s].todo
      BY <1>0, <2>2
    <2> QED
      BY <1>7, <1>10, <2>3
  <1>11. CASE DebitWrite(s) \/ DebitRefused(s) \/ \E t \in Trades : CreateTrade(s, t)
    <2>1. run[s].pc \in Dealing /\ barred'[s] = barred[s]
      BY <1>11 DEF DebitWrite, DebitRefused, CreateTrade, At, Dealing
    <2>2. CASE ToNextUser(s)
      BY <1>10, <2>1, <2>2
    <2>3. CASE ~ToNextUser(s)
      <3>1. DebitWrite(s) /\ run' = [run EXCEPT ![s].pc = "create"]
        BY <1>11, <2>3 DEF DebitWrite, DebitRefused, CreateTrade
      <3>2. /\ run'[s].pc = "create" /\ run'[s].todo = run[s].todo /\ run'[s].user = run[s].user
            /\ ~At(s, "next")
        BY <1>0, <3>1 DEF DebitWrite, At, SessionState
      <3> QED
        BY <1>7, <2>1, <3>2 DEF Dealing
    <2> QED
      BY <2>2, <2>3
  <1>12. ASSUME run'[s] = Idle, barred'[s] = {} PROVE BarredFor(s)'
    BY <1>12 DEF BarredFor, At, Idle, Dealing
  <1>13. CASE EndSession(s)
    BY <1>0, <1>12, <1>13 DEF EndSession, End
  <1>14. CASE SessionFails(s)
    <2>1. CASE run[s].pc \in {"exclusions", "users"}
      BY <1>0, <1>12, <1>14, <2>1 DEF SessionFails, End
    <2>2. CASE run[s].pc \in Dealing
      BY <1>10, <1>14, <2>2 DEF SessionFails, Dealing
    <2> QED
      BY <1>14, <2>1, <2>2 DEF SessionFails, Dealing
  <1> QED
    BY <1>4, <1>5, <1>6, <1>8, <1>9, <1>11, <1>13, <1>14 DEF SessionStep

\* Every step keeps the sessions clear of the barred.
LEMMA NextBarInv == TypeInv /\ BarInv /\ [Next]_vars => BarInv'
  <1> SUFFICES ASSUME TypeInv, BarInv, [Next]_vars PROVE BarInv'
    OBVIOUS
  <1>1. ASSUME UNCHANGED flags, \A s \in Sessions : run'[s] = run[s] /\ barred'[s] = barred[s]
        PROVE  BarInv'
    BY <1>1, BarredForStays DEF BarInv
  <1>2. ASSUME NEW p \in Settlers, SettlerStep(p) \/ SettlerFails(p) PROVE BarInv'
    <2>1. \A s \in Sessions : run'[s] = run[s]
      BY <1>2, RunAssumption
      DEF SettlerStep, SettlerFails, StartSettling, NextTrade, Mark, ReturnPrincipal, ReturnReread,
          ReturnWrite, PayProfit, PayCommission, EndSettling, End, ToNextTrade, TypeInv, TypeOK, Runs
    <2>2. UNCHANGED <<flags, barred>>
      BY <1>2
      DEF SettlerStep, SettlerFails, StartSettling, NextTrade, Mark, ReturnPrincipal, ReturnReread,
          ReturnWrite, PayProfit, PayCommission, EndSettling
    <2> QED
      BY <1>1, <2>1, <2>2
  <1>3. ASSUME NEW t \in Trades, Mature(t) PROVE BarInv'
    BY <1>1, <1>3 DEF Mature
  <1>4. CASE ChangeFlag
    BY <1>4 DEF ChangeFlag, BarInv, BarredFor, At, Clear, Dealing
  <1>5. ASSUME NEW u \in Users, Spend(u) \/ SpendWrite(u) PROVE BarInv'
    BY <1>1, <1>5 DEF Spend, SpendWrite
  <1>6. CASE Crash
    BY <1>6 DEF Crash, BarInv, BarredFor, At, Clear, Idle, Runs, Dealing
  <1>7. CASE UNCHANGED vars
    BY <1>1, <1>7 DEF vars
  <1> QED
    BY <1>2, <1>3, <1>4, <1>5, <1>6, <1>7, SessionStepBarInv DEF Next

\* No session takes the stake of a user who has been excluded, or inactive, or
\* without auto trade, or while trading has been off, since before it started:
\* the order of its three reads and of the loop leaves no way around them.
THEOREM BarredStayOut == Spec => []BarredUsersAreNotTraded
  <1>1. Init => BarInv
    BY DEF Init, BarInv, BarredFor, At, Clear, Idle, Runs, Dealing
  <1>2. TypeInv /\ BarInv => BarredUsersAreNotTraded
    BY DEF TypeInv, RunsTyped, SessionOK, BarInv, BarredFor, BarredUsersAreNotTraded, Clear, Dealing
  <1> QED
    BY <1>1, <1>2, InitTypeInv, NextTypeInv, NextBarInv, PTL DEF Spec

\* The two together: a trade is paid once if it is COMPLETED, and otherwise not.
THEOREM PaidOnce == Spec => []TradesArePaidOnce
  BY NeverPaidTwice, SettledInFull, PTL DEF TradesArePaidOnce
===============================================================================
