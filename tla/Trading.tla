-------------------------------- MODULE Trading --------------------------------
(***************************************************************************)
(* The trade of the day: tradingService and tradingRepository, the switch, *)
(* exclusions and user flags they read.                                    *)
(*                                                                         *)
(* A session (cron's daily_trade, or an admin's request) takes 1% of the   *)
(* principal of every eligible user and records a trade; a settlement      *)
(* (cron's trade_settlement every two minutes, or an admin's request)      *)
(* completes the trades that are due and pays them out.  Sessions and      *)
(* settlements are runs that overlap freely and interleave at every        *)
(* awaited call.  Both catch the error of one user or trade and go on with *)
(* the next; nothing already done is undone.  A change of a principal      *)
(* finds the wallet, reads it again and writes the balance computed from   *)
(* that, so that two can write over each other; its ledger row is written  *)
(* with it, or refused with it.  Time is only whether a trade's settlement *)
(* time has passed.                                                        *)
(***************************************************************************)
EXTENDS Integers, FiniteSets, Totals

CONSTANTS
    Users,          \* users other than admins
    Trades,         \* trade records a behaviour may create
    Sessions,       \* runs of executeTradeSession at once
    Settlers,       \* runs of settlePendingTrades at once
    Funds,          \* per user, the principal at first, in units of 0.00000001
    Tolerance,      \* what createEntry lets running balances differ by: 0.0001,
                    \* or 10000 units (an instance may scale it to its funds)
    HasAdmin,       \* whether there is a user with the role ADMIN: the seed
                    \* script creates one, and no request changes a role
    MaxSessions,    \* bound: sessions started in a behaviour
    MaxChanges,     \* bound: changes of a flag or a balance by other requests
    MaxFailures     \* bound: failed calls and restarts in a behaviour

ASSUME RunAssumption == Sessions \cap Settlers = {}
ASSUME FundsAssumption == Funds \in [Users -> Nat]
ASSUME ToleranceAssumption == Tolerance \in Nat
ASSUME AdminAssumption == HasAdmin \in BOOLEAN
ASSUME BoundAssumption ==
    MaxSessions \in Nat /\ MaxChanges \in Nat /\ MaxFailures \in Nat

VARIABLES
    enabled,        \* the TRADING_ENABLED setting
    excluded,       \* users with a TradeExclusion row
    willing,        \* users that are ACTIVE and have auto trade on
    trade,          \* the trade rows
    principal,      \* per user, balance of the PRINCIPAL wallet
    run,            \* the sessions and settlements in progress
    spending,       \* per user, the principal another request has read, which
                    \* it is about to take
    counts,         \* of started sessions, changes and failures (bounded)
    payouts,        \* history: per trade, how often each part was paid
    spent,          \* history: per user, principal taken by other requests
    raced,          \* history: users whose principal was read for a change
                    \* while another was about to be written
    displaced,      \* history: per user, what the writes of the principal put
                    \* back (or took) by writing over others
    interrupted,    \* history: trades whose payment was cut short
    barred          \* history: per session, what has forbidden trading at every
                    \* moment since it started

flags == <<enabled, excluded, willing>>
wallets == <<principal, spending, spent, raced, displaced>>
vars == <<flags, trade, wallets, run, counts, payouts, interrupted, barred>>

-------------------------------------------------------------------------------
(* Data *)

\* 1% of the principal, rounded to 8 decimals.
Stake(balance) == (balance + 50) \div 100

\* 185% of the stake, or 370% with an active sponsor bonus; 60% of it is the
\* user's, 40% the admin's, both rounded.
GrossProfit(amount) == {(amount * rate + 50) \div 100 : rate \in {185, 370}}
UserProfit(gross) == (gross * 6 + 5) \div 10
AdminCommission(gross) == (gross * 4 + 5) \div 10

Part == {"principal", "profit", "commission"}
NoTrade == [status |-> "NONE"]
TradeRow == [status : {"PENDING", "COMPLETED"}, user : Users, amount : Nat, due : BOOLEAN]

Idle == [pc |-> "idle"]
SessionState == [pc : {"exclusions", "users", "next", "debit", "reread", "write", "create"},
                 skip : SUBSET Users, todo : SUBSET Users, user : Users \cup {"nobody"},
                 stake : Nat, found : Nat, was : Nat]
SettlerState == [pc : {"next", "mark", "principal", "reread", "write", "profit", "commission"},
                 todo : SUBSET Trades, trade : Trades \cup {"none"}, found : Nat, was : Nat]

Runs == Sessions \cup Settlers
At(p, pc) == run[p].pc = pc
End(p) == run' = [run EXCEPT ![p] = Idle]
Exists(t) == trade[t] # NoTrade
Due == {t \in Trades : trade[t].status = "PENDING" /\ trade[t].due}
Paying(p, t) == p \in Settlers /\ run[p].pc \in Part \cup {"reread", "write"} /\ run[p].trade = t

\* A run is done with a user, or with a trade.
ToNextUser(s) ==
    run' = [run EXCEPT ![s].pc = "next", ![s].user = "nobody", ![s].stake = 0,
                       ![s].found = 0, ![s].was = 0]
ToNextTrade(p) ==
    run' = [run EXCEPT ![p].pc = "next", ![p].trade = "none", ![p].found = 0, ![p].was = 0]

\* Whose principal a run is changing: its user's, or the one of its trade.
Owner(p) == IF p \in Sessions THEN run[p].user ELSE trade[run[p].trade].user
NotReading == -1
ToBeWritten(u) ==
    \/ spending[u] # NotReading
    \/ \E q \in Runs : At(q, "write") /\ Owner(q) = u
NotesRace(u) == raced' = IF ToBeWritten(u) THEN raced \cup {u} ELSE raced

\* The balance computed from what was read is written over what is there.
WritePrincipal(u, was, new) ==
    /\ principal' = [principal EXCEPT ![u] = new]
    /\ displaced' = [displaced EXCEPT ![u] = @ + was - principal[u]]

\* createEntry takes what walletService found for the balance before.
EntryAccepted(p) ==
    run[p].found <= run[p].was + Tolerance /\ run[p].was <= run[p].found + Tolerance

\* What forbids a user's trade.
Switch == <<"switch", "everyone">>
Bars == {Switch} \cup {<<"excluded", u>> : u \in Users} \cup {<<"unwilling", u>> : u \in Users}
BarsNow(e, x, w) ==
    (IF e THEN {} ELSE {Switch}) \cup {<<"excluded", u>> : u \in x}
        \cup {<<"unwilling", u>> : u \in Users \ w}

-------------------------------------------------------------------------------
(* Slips of the steps below that the properties must notice.  They are not   *)
(* part of the specification.                                                *)

EligibleIgnoringExclusions(s) == willing

MarkUnguarded(p) ==
    /\ At(p, "mark")
    /\ trade' = [trade EXCEPT ![run[p].trade].status = "COMPLETED"]
    /\ run' = [run EXCEPT ![p].pc = "principal"]
    /\ UNCHANGED <<flags, wallets, counts, payouts, interrupted, barred>>

MarkSkippingPayment(p) ==
    /\ At(p, "mark")
    /\ LET t == run[p].trade
       IN  IF trade[t].status = "PENDING"
           THEN /\ trade' = [trade EXCEPT ![t].status = "COMPLETED"]
                /\ run' = [run EXCEPT ![p].pc = "profit"]
           ELSE /\ UNCHANGED trade
                /\ ToNextTrade(p)
    /\ UNCHANGED <<flags, wallets, counts, payouts, interrupted, barred>>

MarkFailed(p) ==
    /\ At(p, "mark")
    /\ ToNextTrade(p)
    /\ UNCHANGED <<flags, trade, wallets, counts, payouts, interrupted, barred>>

DebitNothing(s) ==
    /\ At(s, "write") /\ s \in Sessions
    /\ run' = [run EXCEPT ![s].pc = "create"]
    /\ UNCHANGED <<flags, trade, wallets, counts, payouts, interrupted, barred>>

-------------------------------------------------------------------------------
(* executeTradeSession *)

\* It reads the switch first; a session that finds it off is over.
StartSession(s) ==
    /\ run[s] = Idle
    /\ counts.sessions < MaxSessions
    /\ counts' = [counts EXCEPT !.sessions = @ + 1]
    /\ enabled
    /\ run' = [run EXCEPT ![s] = [pc |-> "exclusions", skip |-> {}, todo |-> {},
                                  user |-> "nobody", stake |-> 0, found |-> 0, was |-> 0]]
    /\ barred' = [barred EXCEPT ![s] = BarsNow(enabled, excluded, willing)]
    /\ UNCHANGED <<flags, trade, wallets, payouts, interrupted>>

\* Then the exclusions ...
ReadExclusions(s) ==
    /\ At(s, "exclusions")
    /\ run' = [run EXCEPT ![s].pc = "users", ![s].skip = excluded]
    /\ UNCHANGED <<flags, trade, wallets, counts, payouts, interrupted, barred>>

\* ... and the users; the excluded ones are skipped in the loop.
Eligible(s) == willing \ run[s].skip

ReadUsers(s) ==
    /\ At(s, "users")
    /\ run' = [run EXCEPT ![s].pc = "next", ![s].todo = Eligible(s)]
    /\ UNCHANGED <<flags, trade, wallets, counts, payouts, interrupted, barred>>

\* The next user's balance is read.  Without a stake there is no trade.
NextUser(s, u) ==
    /\ At(s, "next")
    /\ u \in run[s].todo
    /\ run' = [run EXCEPT ![s].todo = @ \ {u},
                          ![s].pc = IF Stake(principal[u]) > 0 THEN "debit" ELSE "next",
                          ![s].user = IF Stake(principal[u]) > 0 THEN u ELSE "nobody",
                          ![s].stake = Stake(principal[u])]
    /\ UNCHANGED <<flags, trade, wallets, counts, payouts, interrupted, barred>>

\* debitWallet finds the wallet and looks at the balance again ...
Debit(s) ==
    /\ At(s, "debit")
    /\ principal[run[s].user] >= run[s].stake
    /\ run' = [run EXCEPT ![s].pc = "reread", ![s].found = principal[run[s].user]]
    /\ UNCHANGED <<flags, trade, wallets, counts, payouts, interrupted, barred>>

\* ... once more in walletRepository, and both may refuse ...
DebitReread(s) ==
    LET u == run[s].user
    IN  /\ At(s, "reread") /\ s \in Sessions
        /\ principal[u] >= run[s].stake
        /\ run' = [run EXCEPT ![s].pc = "write", ![s].was = principal[u]]
        /\ NotesRace(u)
        /\ UNCHANGED <<flags, trade, principal, spending, spent, displaced, counts, payouts,
                       interrupted, barred>>

DebitRefused(s) ==
    /\ At(s, "debit") \/ (At(s, "reread") /\ s \in Sessions)
    /\ principal[run[s].user] < run[s].stake
    /\ ToNextUser(s)
    /\ UNCHANGED <<flags, trade, wallets, counts, payouts, interrupted, barred>>

\* ... and writes.  Without its entry the stake is gone.
DebitWrite(s) ==
    LET u == run[s].user
    IN  /\ At(s, "write") /\ s \in Sessions
        /\ WritePrincipal(u, run[s].was, run[s].was - run[s].stake)
        /\ IF EntryAccepted(s) THEN run' = [run EXCEPT ![s].pc = "create"] ELSE ToNextUser(s)
        /\ UNCHANGED <<flags, trade, spending, spent, raced, counts, payouts, interrupted, barred>>

\* Its settlement time counts from the start of the session.
CreateTrade(s, t) ==
    /\ At(s, "create")
    /\ ~Exists(t)
    /\ trade' = [trade EXCEPT ![t] = [status |-> "PENDING", user |-> run[s].user,
                                      amount |-> run[s].stake, due |-> FALSE]]
    /\ ToNextUser(s)
    /\ UNCHANGED <<flags, wallets, counts, payouts, interrupted, barred>>

EndSession(s) ==
    /\ At(s, "next")
    /\ run[s].todo = {}
    /\ End(s)
    /\ barred' = [barred EXCEPT ![s] = {}]
    /\ UNCHANGED <<flags, trade, wallets, counts, payouts, interrupted>>

-------------------------------------------------------------------------------
(* settlePendingTrades *)

\* The two minutes are over.
Mature(t) ==
    /\ Exists(t)
    /\ trade' = [trade EXCEPT ![t].due = TRUE]
    /\ UNCHANGED <<flags, wallets, run, counts, payouts, interrupted, barred>>

\* findPendingTradesToSettle.  A list without a trade is of no effect.
StartSettling(p) ==
    /\ run[p] = Idle
    /\ Due # {}
    /\ run' = [run EXCEPT ![p] = [pc |-> "next", todo |-> Due, trade |-> "none",
                                  found |-> 0, was |-> 0]]
    /\ UNCHANGED <<flags, trade, wallets, counts, payouts, interrupted, barred>>

NextTrade(p, t) ==
    /\ At(p, "next")
    /\ t \in run[p].todo
    /\ run' = [run EXCEPT ![p].todo = @ \ {t}, ![p].pc = "mark", ![p].trade = t]
    /\ UNCHANGED <<flags, trade, wallets, counts, payouts, interrupted, barred>>

\* settleTrade updates the row only if it is still PENDING; if another run
\* was first, there is nothing left to do for this trade.
Mark(p) ==
    /\ At(p, "mark")
    /\ LET t == run[p].trade
       IN  IF trade[t].status = "PENDING"
           THEN /\ trade' = [trade EXCEPT ![t].status = "COMPLETED"]
                /\ run' = [run EXCEPT ![p].pc = "principal"]
           ELSE /\ UNCHANGED trade
                /\ ToNextTrade(p)
    /\ UNCHANGED <<flags, wallets, counts, payouts, interrupted, barred>>

Pay(p, part) == payouts' = [payouts EXCEPT ![run[p].trade][part] = @ + 1]

\* The stake goes back, through creditWallet ...
ReturnPrincipal(p) ==
    /\ At(p, "principal")
    /\ run' = [run EXCEPT ![p].pc = "reread", ![p].found = principal[Owner(p)]]
    /\ UNCHANGED <<flags, trade, wallets, counts, payouts, interrupted, barred>>

ReturnReread(p) ==
    /\ At(p, "reread") /\ p \in Settlers
    /\ run' = [run EXCEPT ![p].pc = "write", ![p].was = principal[Owner(p)]]
    /\ NotesRace(Owner(p))
    /\ UNCHANGED <<flags, trade, principal, spending, spent, displaced, counts, payouts,
                   interrupted, barred>>

\* ... and the rest is left unpaid if its entry is refused.
ReturnWrite(p) ==
    LET t == run[p].trade
    IN  /\ At(p, "write") /\ p \in Settlers
        /\ WritePrincipal(Owner(p), run[p].was, run[p].was + trade[t].amount)
        /\ Pay(p, "principal")
        /\ IF EntryAccepted(p)
           THEN run' = [run EXCEPT ![p].pc = "profit"] /\ UNCHANGED interrupted
           ELSE ToNextTrade(p) /\ interrupted' = interrupted \cup {t}
        /\ UNCHANGED <<flags, trade, spending, spent, raced, counts, barred>>

\* Then come the user's share of the profit and the admin's.
PayProfit(p) ==
    /\ At(p, "profit")
    /\ \E gross \in GrossProfit(trade[run[p].trade].amount) :
           IF UserProfit(gross) > 0 THEN Pay(p, "profit") ELSE UNCHANGED payouts
    /\ run' = [run EXCEPT ![p].pc = "commission"]
    /\ UNCHANGED <<flags, trade, wallets, counts, interrupted, barred>>

PayCommission(p) ==
    /\ At(p, "commission")
    /\ \E gross \in GrossProfit(trade[run[p].trade].amount) :
           IF AdminCommission(gross) > 0 /\ HasAdmin THEN Pay(p, "commission") ELSE UNCHANGED payouts
    /\ ToNextTrade(p)
    /\ UNCHANGED <<flags, trade, wallets, counts, interrupted, barred>>

EndSettling(p) ==
    /\ At(p, "next")
    /\ run[p].todo = {}
    /\ End(p)
    /\ UNCHANGED <<flags, trade, wallets, counts, payouts, interrupted, barred>>

-------------------------------------------------------------------------------
(* Failures *)

Failing == counts.failures < MaxFailures /\ counts' = [counts EXCEPT !.failures = @ + 1]

\* Reading the exclusions or the users fails, and the session with it; the
\* failure of one user's trade leaves the others.
SessionFails(s) ==
    /\ Failing
    /\ \/ /\ run[s].pc \in {"exclusions", "users"}
          /\ End(s)
          /\ barred' = [barred EXCEPT ![s] = {}]
       \/ /\ run[s].pc \in {"debit", "reread", "write", "create"}
          /\ ToNextUser(s)
          /\ UNCHANGED barred
    /\ UNCHANGED <<flags, trade, wallets, payouts, interrupted>>

SettlerFails(p) ==
    /\ Failing
    /\ run[p].pc \in {"mark", "reread", "write"} \cup Part
    /\ ToNextTrade(p)
    /\ interrupted' = interrupted \cup {t \in Trades : Paying(p, t)}
    /\ UNCHANGED <<flags, trade, wallets, payouts, barred>>

\* The server dies; what it had in memory is gone.
Crash ==
    /\ Failing
    /\ run' = [p \in Runs |-> Idle]
    /\ spending' = [u \in Users |-> NotReading]
    /\ barred' = [s \in Sessions |-> {}]
    /\ interrupted' = interrupted \cup {t \in Trades : \E p \in Settlers : Paying(p, t)}
    /\ UNCHANGED <<flags, trade, principal, spent, raced, displaced, payouts>>

-------------------------------------------------------------------------------
(* Other requests meanwhile *)

\* toggleTrading, addTradeExclusion, removeTradeExclusion, toggleAutoTrade and
\* manageUser each change one flag.
ChangeFlag ==
    /\ counts.changes < MaxChanges
    /\ counts' = [counts EXCEPT !.changes = @ + 1]
    /\ \/ enabled' = ~enabled /\ UNCHANGED <<excluded, willing>>
       \/ \E u \in Users : excluded' = excluded \cup {u} /\ UNCHANGED <<enabled, willing>>
       \/ \E u \in Users : excluded' = excluded \ {u} /\ UNCHANGED <<enabled, willing>>
       \/ \E u \in Users : willing' = willing \cup {u} /\ UNCHANGED <<enabled, excluded>>
       \/ \E u \in Users : willing' = willing \ {u} /\ UNCHANGED <<enabled, excluded>>
    /\ barred' = [s \in Sessions |-> barred[s] \cap BarsNow(enabled', excluded', willing')]
    /\ UNCHANGED <<trade, wallets, run, payouts, interrupted>>

\* A withdrawal of all the principal of a user: its debit reads the balance,
\* and writes what is then left of what it read, nothing.
Spend(u) ==
    /\ counts.changes < MaxChanges
    /\ counts' = [counts EXCEPT !.changes = @ + 1]
    /\ spending[u] = NotReading
    /\ principal[u] > 0
    /\ spending' = [spending EXCEPT ![u] = principal[u]]
    /\ NotesRace(u)
    /\ UNCHANGED <<flags, trade, principal, spent, displaced, run, payouts, interrupted, barred>>

SpendWrite(u) ==
    /\ spending[u] # NotReading
    /\ WritePrincipal(u, spending[u], 0)
    /\ spent' = [spent EXCEPT ![u] = @ + spending[u]]
    /\ spending' = [spending EXCEPT ![u] = NotReading]
    /\ UNCHANGED <<flags, trade, raced, run, counts, payouts, interrupted, barred>>

-------------------------------------------------------------------------------

Init ==
    /\ enabled \in BOOLEAN
    /\ excluded \in SUBSET Users
    /\ willing \in SUBSET Users
    /\ trade = [t \in Trades |-> NoTrade]
    /\ principal = Funds
    /\ run = [p \in Runs |-> Idle]
    /\ counts = [sessions |-> 0, changes |-> 0, failures |-> 0]
    /\ payouts = [t \in Trades |-> [part \in Part |-> 0]]
    /\ spending = [u \in Users |-> NotReading]
    /\ spent = [u \in Users |-> 0]
    /\ raced = {}
    /\ displaced = [u \in Users |-> 0]
    /\ interrupted = {}
    /\ barred = [s \in Sessions |-> {}]

SessionStep(s) ==
    \/ ReadExclusions(s) \/ ReadUsers(s)
    \/ \E u \in Users : NextUser(s, u)
    \/ Debit(s) \/ DebitReread(s) \/ DebitWrite(s) \/ DebitRefused(s)
    \/ \E t \in Trades : CreateTrade(s, t)
    \/ EndSession(s)

SettlerStep(p) ==
    \/ StartSettling(p)
    \/ \E t \in Trades : NextTrade(p, t)
    \/ Mark(p)
    \/ ReturnPrincipal(p) \/ ReturnReread(p) \/ ReturnWrite(p)
    \/ PayProfit(p) \/ PayCommission(p)
    \/ EndSettling(p)

Next ==
    \/ \E s \in Sessions : StartSession(s) \/ SessionStep(s) \/ SessionFails(s)
    \/ \E p \in Settlers : SettlerStep(p) \/ SettlerFails(p)
    \/ \E t \in Trades : Mature(t)
    \/ ChangeFlag
    \/ \E u \in Users : Spend(u) \/ SpendWrite(u)
    \/ Crash

Spec == Init /\ [][Next]_vars

\* The event loop runs every handler on, time passes, and cron settles.
FairSpec ==
    /\ Spec
    /\ \A s \in Sessions : WF_vars(SessionStep(s))
    /\ \A p \in Settlers : WF_vars(SettlerStep(p))
    /\ \A t \in Trades : WF_vars(Mature(t))

-------------------------------------------------------------------------------
(* Properties *)

\* Types of the variables; no balance is negative.
TypeOK ==
    /\ enabled \in BOOLEAN
    /\ excluded \subseteq Users
    /\ willing \subseteq Users
    /\ trade \in [Trades -> TradeRow \cup {NoTrade}]
    /\ principal \in [Users -> Nat]
    /\ run \in [Runs -> SessionState \cup SettlerState \cup {Idle}]
    /\ counts \in [sessions : 0..MaxSessions, changes : 0..MaxChanges, failures : 0..MaxFailures]
    /\ payouts \in [Trades -> [Part -> Nat]]
    /\ spending \in [Users -> Nat \cup {NotReading}]
    /\ spent \in [Users -> Nat]
    /\ raced \subseteq Users
    /\ displaced \in [Users -> Int]
    /\ interrupted \subseteq Trades
    /\ barred \in [Sessions -> SUBSET Bars]

\* trading.service.ts:125: however many settlements overlap, whatever fails,
\* no part of a trade is paid twice, and none is paid before the trade is
\* COMPLETED.
PaidAtMostOnce ==
    \A t \in Trades, part \in Part :
        payouts[t][part] <= (IF trade[t].status = "COMPLETED" THEN 1 ELSE 0)

\* A COMPLETED trade that no run is paying, and on whose payment none failed,
\* has been paid in full: the commission too, if there is an admin to take it.
CompletedIsPaid ==
    \A t \in Trades \ interrupted :
        trade[t].status = "COMPLETED" /\ (\A p \in Settlers : ~Paying(p, t))
            => \A part \in Part :
                   payouts[t][part] = (IF part = "commission" /\ ~HasAdmin THEN 0 ELSE 1)

\* Both together: a trade is paid once if it is COMPLETED, and otherwise not.
TradesArePaidOnce == PaidAtMostOnce /\ CompletedIsPaid

\* The stake of a user that each trade still holds.
Stakes(u) == [t \in Trades |->
    IF Exists(t) /\ trade[t].user = u /\ payouts[t]["principal"] = 0 THEN trade[t].amount ELSE 0]

\* Trading adds to a user's principal only where it wrote over another change:
\* with the stakes not yet returned, the principal is at most what the user had,
\* less what other requests took, but for what was written over.  (Two sessions
\* that overlap on 150 can both write 148, and record a stake of 2 each.)
HeldNeverExceedsFunds ==
    \A u \in Users : principal[u] + spent[u] + Total(Stakes(u)) <= Funds[u] + displaced[u]

\* Nothing is written over on a principal none of whose changes overlapped, from
\* the second read of the one to its write.
OnlyRacesDisplace == \A u \in Users \ raced : displaced[u] = 0

\* Both: changes that do not overlap never add to what a user had.
StakesAreTakenFromPrincipal == HeldNeverExceedsFunds /\ OnlyRacesDisplace

\* No session trades for a user who has been excluded, or inactive or with auto
\* trade off, at every moment since it started, or while the switch has been off
\* since; flags that changed meanwhile may be seen or not.
BarredUsersAreNotTraded ==
    \A s \in Sessions :
        run[s].pc \in {"debit", "reread", "write", "create"} =>
            {Switch, <<"excluded", run[s].user>>, <<"unwilling", run[s].user>>} \cap barred[s] = {}

\* A trade does not stay open: settlement completes it in the end.
TradesComplete ==
    \A t \in Trades : trade[t].status = "PENDING" ~> trade[t].status = "COMPLETED"
===============================================================================
