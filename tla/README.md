# Verification of the d2x backend

The d2x backend (`src/src`, Express and Prisma over PostgreSQL) runs a USDT
platform: users deposit on chain, the platform trades for them once a day, and
they withdraw.  This directory holds TLA+ models of its services, TLC
configurations that check them on small instances, and proofs of the most
important results for every instance.

What makes the code worth modelling is that it has almost no transactions.  Node
runs the handlers of all requests and cron tasks on one event loop, and every
`await` of a database or network call is a point where any other handler may
run.  A handler that reads a row, decides, pays, and then writes the status has
several such points between the check and the write; and when a call fails or
the process dies, nothing already written is undone.  The models therefore take
**one awaited call per step**, let handlers interleave freely, and let any call
fail.

## 1. Inventory

| Component | Source (`src/src/modules/…`) | State | Operations that change state | Hard behaviours | What makes it correct |
|---|---|---|---|---|---|
| Wallets | `wallet` | one row per user and type: balance, totalCredit, totalDebit | creditWallet, debitWallet, transfer | absolute balances written from an older read; no lock | a row is consistent in itself, never negative; what is written over is known: totals never exceed what was written, and a balance is wrong only where changes overlapped |
| Ledger | `ledger` | append-only entries with before and after | createEntry | check uses the caller's reads; written after the balance | explains the balance when nothing overlaps or fails |
| Deposits | `deposit` | status, hash, amount | create, verify, approve, reject, retryPendingDeposits | three ways to approve run at once; status check far from its write | APPROVED means credited; credited once; every payable deposit is decided |
| Blockchain verification | `blockchain` | one row per verified hash (unique) | verifyTransaction | two records with one hash; RPC errors | a hash vouches for one record |
| Referrals | `referral`, `prisma/seed.ts`, `tmp-backfill.ts` | two tables: `user.sponsorId` and the referral rows with their counters; one bonus row per referred user and deposit | createReferral, processReferralBonus, seed, backfill | the second table is written calls after the first; counters one row at a time; scripts run beside signups; pays before the row that prevents paying again | rows form a tree; counters, rows and users tell the same team; nobody is left out that a script does not repair |
| Withdrawals | `withdrawal` | status, net, fee, penalty, hash | create, process, reject | debit before the record, its reads and its write apart; refund before the status | a request is covered by held money, unless changes of its wallet overlapped; completed is backed by one payment and not refunded |
| Trading | `trading` | trades, exclusions | executeTradeSession, settlePendingTrades | stale lists over a long loop; overlapping settlements; a principal that two runs change at once | barred users stay out; each trade is paid once; a stake is taken before it is recorded |
| Cron | `cron`, `index.ts` | trade tasks in node-cron and in the service, fixed jobs, log rows | startAll, rescheduleTradeTasks, the jobs | overlapping reschedulings; jobs that die, or are not called; restarts | one task is installed, at the time set; a session a day; a completed log row tells the outcome |
| Settings and admin | `admin`, `settings` | key/value settings, account status | toggleTrading, manageUser, giveReward, updateUserRank, updateTradeSchedule, updateConfig, seedDefaults | read by sessions in progress; a time written without rescheduling; a reward in four calls | see Trading, Ranks, Cron; a reward told of is booked and credited |
| Users | `users` | profile, autoTrade flag | toggleAutoTrade and profile updates | read, negate, write | see Trading |
| Ranks | `rank`, `scripts` | user rank, rank row, history | evaluateUserRank (and its sponsor's), recheck-ranks, reset-unqualified-ranks | evaluations overlap; stale team totals; scripts stopped and run again | only an admin or a script lowers a rank; a level's bonus is paid once and taken back once |
| Cycle bonus | `cycleBonus` | bonus rows, unique per user and cycle | process10DayCycleBonus | crash between credit and status | one credit per cycle |
| Pool bonus | `poolBonus` | requests with a status | create, cancel, approve, reject, execute | decision races; partial execution | executed once, only when approved |
| Authentication | `auth` | accounts with a code, refresh sessions | signup, verifyEmail, resendOTP, login, refreshTokens, logout, requestPasswordReset, resetPassword, changePassword | a code is compared and cleared by different calls; a session is stored calls after the password was checked; the answer to a call is lost | sessions end with their password; a code is used once; a suspension stands |
| Tickets | `ticket` | status and replies | create, reply, close, reopen | reply against close; replies that cross | a closed ticket stays closed; the status tells who is waited for |
| Notifications | `notifications` | rows, read or not | sendToUser, markAsRead | written after what they tell of | a notification tells of something that happened |
| Lists | the repositories' `findAll`, `adminRepository` | none | paged reads | the rows and their number are two queries; rows leave while they are paged through | what a reader misses is accounted for |
| Content, email | the rest | rows | create, update, read | none of interest | — |
| HTTP layer | `middlewares`, `config`, `routes` | — | — | input and output | — |

**How they interact.**  Everything that moves money calls `walletService`, which
calls `walletRepository` and then `ledgerService`.  `createDeposit` starts
`verifyDeposit` without awaiting it; `verifyDeposit` goes on into
`approveDeposit`; the cron tasks `deposit_verification` and `failed_retry` both
start `retryPendingDeposits`, which calls `verifyDeposit`; an admin may call any
of them meanwhile.  `approveDeposit` calls wallets, referrals and, through the
user row, the sponsor trade bonus.  `executeTradeSession` and
`settlePendingTrades` are started by cron and by admins and read the switch,
exclusions and user flags that admins and users change.  `signup` writes the
user, the wallets, the referral row and the counters of everyone above in one
handler after the other, and what it leaves undone the backfill script repairs.
`updateTradeSchedule` writes a setting and tells cron to read it back.  Nothing
but the database connects them: no locks, no queues, no `SELECT … FOR UPDATE`.  Unique
constraints (a hash of a deposit, of a withdrawal and of a verified transaction; a
wallet of each type, a referral row and a rank row per user; a user's bonus of a cycle;
the text of a refresh token) are the only guards the database itself enforces, and a
referral bonus has none, only indexes; the conditional `updateMany` of
`settleTrade` is the only atomic check-and-set in the code.

The hazards that follow from this, each at its line, are in `PROJECT.json`.

## 2. The modules

| Module | Models | Used by |
|---|---|---|
| `WalletLedger` | wallet rows and ledger entries, each database call of credit, debit and transfer | `MCWalletLedger`, `WalletLedgerProofs` |
| `Bookkeeping` | abstract: what wallets promise | `WalletLedger` (as `Books`) |
| `Settlement` | abstract: what any decision about money promises | `Deposit`, `Withdrawal`, `PoolBonus` (as `Claim`) |
| `Deposit` | the deposit's life with blockchain verification, referral bonus and the retry tasks | `MCDeposit`, `DepositProofs` |
| `Withdrawal` | the withdrawal's life with its payment verification and refund | `MCWithdrawal`, `WithdrawalProofs` |
| `Trading` | trade sessions and settlements | `MCTrading`, `TradingProofs` |
| `PoolBonus` | requests for the pool bonus: creation, decision and execution | `MCPoolBonus`, `PoolBonusProofs` |
| `RankBonus` | ranks with their bonus, corrections by an admin, the ten-day cycle bonus | `MCRankBonus`, `RankBonusProofs` |
| `AuthSession` | accounts, one-time codes, refresh tokens, suspensions | `MCAuthSession`, `OfficeProofs` |
| `ReferralTree` | user and referral rows, the counters, wallets made at signup, the scripts that create rows | `MCReferralTree`, `ReferralTreeProofs` |
| `TradeSchedule` | cron's tasks and log rows against changes of settings and restarts | `BackOffice` |
| `Helpdesk` | tickets | `BackOffice` |
| `Rewards` | an admin's reward with its notification | `BackOffice` |
| `RankRecheck` | the scripts that correct ranks | `BackOffice` |
| `PagedList` | lists read page by page | `BackOffice` |
| `BackOffice` | the five together | `MCBackOffice`, `OfficeProofs` |
| `Totals` | the sum of a function's values | the modules with sums of money |

`Deposit`, `PoolBonus`, `RankBonus` and `Rewards` stand on `WalletLedger`: there a
change of a balance is four calls, in them it is one step, and what they count is what
each call credits or takes.  What goes wrong *inside* the wallet is `WalletLedger`'s
question, and what goes wrong *between* the calls of a service is theirs, and still
would with a perfect wallet.  `Bookkeeping` is the link: as long as operations do not
overlap, the balance as its entries tell it changes in one step, by the whole amount.
`Withdrawal` and `Trading` ask whether money is still there to be taken, so that this
will not do for them: two debits that start from the same balance take one amount for
two claims.  They take the reads and the write of every balance that they decide by
as steps of their own, and `displaced` says by how much it was written over.

`BackOffice` instantiates five modules that share no state, so that one run checks
them and one invariant proves them: a behaviour is about one of them, the variable
`part` chooses which at the start, and the variables of the others stay 0.

`Totals` defines a sum without recursion, as the number of pairs `<<x, i>>` with
`i` in `1..f[x]`.  It is the same number, and what a step does to it (one term grows
by so much, a term is added) is a fact about the cardinality of a finite set, which
can be proved for sets of any size.

Each module has, in this order: constants with their assumptions, variables,
data, the actions in the order of the code, Init, Next, Spec, FairSpec where
there is one, and the properties.  Near the top, a short section called *slips*
holds variants of actions with a plausible bug (a dropped check, a skipped
entry, a swapped order); they are not part of the specification, and each
property is known to catch at least one of them.

### WalletLedger

A request has a stage: `find` (walletService reads the row; this is the ledger's
"before"), `reread` (walletRepository reads it again by id), `write` (the row
with an absolute balance and totals computed from the reread), `ledger`
(createEntry checks `before ± amount = after` and inserts).  A transfer runs each
stage for its source and then for its destination.  `RefuseFind`, `RefuseWrite` and `RefuseLedger` are
where the code throws (insufficient balance at the service's read or at the
repository's, an entry that does not add up); `Abort` is a failed call or the
end of the process.  A transfer that ALLOWED_TRANSFERS forbids is refused before
anything is read, and is not started.  Amounts
are integers: the code turns Decimal columns into numbers and compares with a
tolerance of 0.0001, which never matters for amounts that are whole.

`overlapped` and `unledgered` are history variables: the wallets on which two
operations have been in progress at once, and those of operations that stopped
between the balance and its ledger rows.  They let a property say exactly which
guarantee survives which accident.

### Bookkeeping

The abstract specification of the wallets.  An account has a balance, a sum of
entries, and the operation *asked* of it, a function from its accounts to the
amounts it adds there (a transfer adds a negative amount to its source).  `Ask`,
`Change` and `Enter` are what happens to an account; `Refuse` happens to all accounts
of an operation together.  What a transfer promises is in the conditions that look at
the other account: it gives only what it has taken, and enters only when both
balances are changed.  `astray` are the accounts on which operations overlapped or
one stopped that had moved money.

`WalletLedger` instantiates it as `Books`, and `BooksAreKept == Books!Spec` says that
it implements it.  The four calls of each half, the local copies of rows and the stages
are hidden; what is left is that from any state, in any interleaving with operations on
other wallets, an undisturbed operation ends in one of two ways only.

### Deposit

A *run* is one handler in progress on one deposit.  Its `pc` is the call it makes
next, along verify (`verify`, `rehash`, `lookup`, `record`, `settle`) and on into
approve (`approve`, `credit`, `bonus`, `approved`, `referral`, `referralPay`,
`referralRow`, `activate`), or reject (`reject`, `rejected`).  API requests are
runs of `Requests`; each cron schedule is a member of `Tasks`, with the list it
read at the start of its round (`retryList`), worked through one deposit at a
time while everyone else goes on.  The blockchain is the constant `OnChain`: what
a hash transfers; RPC errors are failures.  The duplicate check is two steps, as
in the code: a lookup, and an insert that the unique index may refuse.
A verification with another hash rewrites the deposit's hash (`rehash`), as the
code does, and one without a hash reads the stored one.  Amounts are units of 50
USDT, so that 1 is the minimum and 20 the 1000 USDT of the sponsor trade bonus;
the tolerance of 0.1 USDT for network fees disappears in the unit.

### Withdrawal

`create` is `debit`, `debitReread` and `debitWrite` (walletService finds the wallet and
looks at its balance, walletRepository reads and looks again, and writes the balance
computed from that), then its ledger entries `net`, `fee` and (for principal
withdrawn within 90 days) `penalty`, then `insert`; `process` is `read`,
`lookup`, `record`, `complete`; `reject` is `check`, then `refund`, `refundReread` and
`refundWrite` of the credit, `refundEntry` (which createEntry refuses when the two reads
differ) and `rejected`.  Amounts are multiples of 10 so that the 20% fee and the 10%
penalty are integers.
`displaced` is history: per wallet, what its writes put back of what others had taken,
or took of what others had put there.  `raced` are the wallets read for a change while
another was about to be written.  Two withdrawals of 20 from a wallet of 30 can both be
created: then 10 is left, 40 is asked for, and 20 is `displaced`.

### Trading

Sessions and settlements are runs.  A session reads the switch, the exclusions
and the users in three calls, then for each user reads the balance, debits 1%
(`Stake`, rounded as the code rounds to 8 decimals; `debit`, `reread` and `write` as in
`Withdrawal`) and creates the trade; an
error of one user is caught and the loop goes on.  A settlement lists due trades
and for each marks it COMPLETED *if it is still PENDING*, then returns the stake
(`principal`, `reread`, `write`)
and pays the user's and the admin's parts of the profit, each if there is any, and the
admin's if there is an admin.  A ledger entry is written with its balance, or refused
with it when the two reads differ by more than `Tolerance`, which ends the user's trade
or leaves the rest unpaid.  `Mature` is time: a
trade's two minutes may pass at any moment.  `ChangeFlag` and `Spend` are what
other requests do meanwhile.  `payouts` counts how often each part was paid, and
`barred[s]` holds what has forbidden trading at *every* moment since session `s`
started, so that the property about barred users does not ask a session to see
a flag that changed after it looked.

### PoolBonus

A run is a createRequest (`pending`, `balance`, `insert`) or a handler on one
request: `cancel`/`cancelled` and `reject`/`rejected` read the status and then
write REJECTED; `approve`, or `update` and `updateBalance`, lead to `approved`
(the row becomes APPROVED with its amount) and on into executeRequest: `debit`,
`debitEntry`, then `credit` and `creditEntry` or `withdrawal`, and `processed`.
An error inside its `try` goes to `failed`; the last update is returned without
`await`, so an error of it is *not* caught there and the request stays APPROVED.
`taken` and `paid` are history: per request, what left POOL_BONUS and what
arrived.  `crowded` holds users of whom two createRequest calls overlapped.

### RankBonus

An evaluation is `read`, three counts (`qualifying`, `lv1`, `team`), and for a
promotion `update` (the user row), `find` (the history), `upsert` (the rank
record), `history`, `bonus`, `entry`.  Where the code calls `evaluateUserRank`
for the sponsor without awaiting it, the run goes on as that evaluation: nothing
else follows in the caller that changes state.  An approved deposit starts one
(`ApproveDeposit`), so do the user and the nightly task (`CallEvaluate`).  A
correction is `correct` and `set`, the latter one transaction whose first write
locks the user row.  A distribution reads all rank records (`ranks`), takes them
in any order (`next`) and for each goes through `latest`, `create`, `pool`,
`poolEntry`, `earned`, `mark`; an error of one is caught and the loop goes on.
The levels are the constant `RANK_DEFINITIONS`: what each needs and pays is data.
`paid` counts payments per user and level; `corrected`, `overlapped` and
`interrupted` are the users an admin, an overlap of two changes of rank, or a
failure in the middle of a promotion or cycle has touched.

### Settlement

The abstract specification of a decision about money.  A claim is filed, money is
*given* for it once, and then it is *granted*; or it is *refused* and has had none;
a refusal may be taken back for `Reopenable` claims, as `verifyDeposit` does with
a REJECTED deposit.  Claims are settled independently.  `astray` are the claims for
which nothing is promised any more: two handlers overlapped on them, or one was
cut short while it gave the money.

`Deposit`, `Withdrawal` and `PoolBonus` instantiate it as `Claim`, and `SettledOnce
== Claim!Spec` says that they implement it.  In `Withdrawal` the money given is the refund, so
that granted means REJECTED and refused means COMPLETED.  What this adds to the
state properties is the *order*: no step of any handler, however many calls later
it writes, makes a granted claim something else or gives money after the decision.

### AuthSession

A run is one handler on one account between its calls.  A password is its version,
which every change or reset increases; a session carries the version its handler
had checked.  A code is stored on the account first and mailed then, and the user
presents what was mailed (`inbox`), which may be a code that was replaced since.
`verifyEmail` and `resetPassword` compare the code in one call and clear whatever
code is there in a later one.  `generateTokens` stores one signed text and returns
another: `text` and `given` differ, hence `refreshTokens` is
refused in every behaviour (see the findings).
`used`, `contested` and `cut` are history: what each code did, the users whose
codes two runs acted on at once, and those whose password was changed by a run
that stopped before it revoked the tokens.

### ReferralTree

`createReferral` is taken call by call: `check`, `sponsorRow`, `root` (a sponsor
without a row gets one, without a sponsor of its own, even if it has one), `row`,
then `own` and `walk` up the tree, one counter a call.  Before it, signup makes the
user and then the wallets; a failure in them leaves the user.  The seed script makes the admin, its
wallets, its row and the settings; the backfill reads the users once, and fills in
the wallets and rows that each lacks.  `Downline`, `Tree` and `CountTeamSize` are the
three ways the code reads a team, each level by level as the code goes.  `Above` is
said without recursion: a user and those above it, as no set holds the one and not the
other unless a row in it hangs from outside; `Below` is the team that follows.  `Rest`
is what runs in progress have still to add to a counter (those that `Owes` says),
`missed` what cut runs never will.
`failed`, `raced` and `early` name the users something went wrong with.

### TradeSchedule

`live` are the tasks node-cron runs, `tradeTasks` those the service knows of and
can stop.  A rescheduling writes the setting, reads it back, and installs; a
restart stops everything and installs from what is stored; `updateConfig` and
`seedDefaults` write the setting and do nothing else.  A time is a number of
`Times`, a day one of a month that ends on the 28th to the 31st.  A
log row is inserted (as SUCCESS, without an end time) before the job is called, and not
calling it is what follows when that fails: `sessions` counts the trade sessions that
were called on a day, `unheld` those that were not.  The job works, and the row is
completed, or said to have failed.

### Helpdesk, Rewards, RankRecheck, PagedList

A reply (`Helpdesk`) reads the ticket, and then adds its message and sets the status in one
transaction: two steps, the creation of the message and the commit, since two
transactions may commit in the other order.  A reward (`Rewards`) is `wallet`,
`create`, `credit`, `entry`, `notify`, each of which may fail, after which the admin
may give it again.  `RankRecheck` is recheck-ranks, with its passes over users that
are read once, and the bonuses it then takes back (`debit`, `set`), and
reset-unqualified-ranks, stopped anywhere and run again while the server changes
ranks.  `PagedList` has one definition per list of the API, by what tells the lists apart:
the order, and what makes a row leave.  A page is the rows and their number, two
queries that other steps may separate, and skips as many rows as the pages before
have.

## 3. What the runs check

| Run | Instance | Shows |
|---|---|---|
| `wallet_rows` | one user, a REFERRAL and a PRINCIPAL wallet, 2 requests at once, amounts 1 and 2, 4 operations | `RowsAccountForWrites` (`RowConsistent` and `TotalsAccountForWrites`), `EntriesTellBalances` (`LedgerMatchesUndisturbed` and `EntryRefusedOnlyAfterOverlap`); refinement: `BooksAreKept` |
| `deposit_life` | 2 deposits, hashes of 1 and 20 units, 2 requests at once and a retry task, 3 requests, 1 failure or restart | `ApprovedIsCredited`, `HashVerifiesOneDeposit`, `UndisturbedPaysExactly`; refinement: `SettledOnce` |
| `deposit_retry` | 1 deposit, 2 hashes, 1 request at a time and 2 overlapping tasks, 3 requests, 1 failure | liveness: `RetryDecidesPayable` |
| `deposit_once` (finding) | 1 deposit, 2 requests, no failure | `CreditedAtMostOnce` is violated |
| `withdrawal_life` | 2 withdrawals, 2 wallets (one PRINCIPAL), 2 hashes, 2 handlers at once, 5 requests, 1 failure | `MoneyIsAccountedFor` (`HeldNeverExceedsFunds`, `EntriesAddUp` and `OnlyRacesDisplace`), `CompletedIsBacked`, `RefundMatchesStatus`; refinement: `SettledOnce` |
| `trade_day` | 1 user, 2 trades, 2 sessions and 2 settlements at once, 2 changes (flags and withdrawals), 1 failure | `BarredUsersAreNotTraded`, `TradesArePaidOnce` (`PaidAtMostOnce` and `CompletedIsPaid`), `StakesAreTakenFromPrincipal` (`HeldNeverExceedsFunds` and `OnlyRacesDisplace`) |
| `trade_settles` | 1 user, 2 trades, a session, 2 settlements, 2 sessions, no admin, 2 failures | liveness: `TradesComplete` |
| `pool_requests` | a user and an admin who both ask, 2 requests, amounts 1 and 2, 2 handlers at once, 4 calls, 1 failure | `PayoutsAreTaken`, `StatusTellsMoney`, `OnePendingPerUser`; refinement: `SettledOnce`; liveness: `ApprovedIsExecuted` |
| `rank_bonus` | a line of 3 users, 2 levels, deposits of 1 and 2 where 2 qualify, 2 activities at once, 3 calls, 1 failure | `BonusOncePerLevel`, `RewardsAddUp` (`HistoryTellsRewards`, `EarnedIsPaid` and `CyclesArePaidOnce`), `RecordMatchesRank`, `NobodyLeftBehind`, `NeverDowngraded` |
| `auth_sessions` | one account, 3 codes, 2 tokens, 2 requests at once, 7 calls, 1 decision of an admin, 1 failure | `SessionsEndWithPassword`, `CodeUsedOnce`, `SuspensionStands` |
| `referral_tree` | 3 members and the admin, one type of wallet, 2 requests at once beside the scripts, 2 events (deposits, deletions, scripts, failures) | `RowsFormTree`, `TeamsAreCounted` (`CountersAddUp` and `ViewsAgree`), `NobodyIsLost`, `BackfillRepairs` |
| `back_office` | schedule: 2 times of day, 1 request, 2 changes, 1 failure; tickets: 1 ticket, 2 replies at once, 7 calls, 1 failure; rewards: 1 user, 2 at once, 4 calls, 2 failures; ranks: a line of 3 users, 2 levels, 3 passes, 2 runs of a script, 1 change; lists: 4 rows, pages of 2, 2 changes | `JobsRunAsSet`; `TicketsTellWhoIsWaitedFor`, `ClosedTicketsStayClosed`; `RewardsAreBooked`; `RecheckCorrects`, `RanksOnlyFall`; `MissedAreAccountedFor` |

Each module's `TypeOK` is proved where it has a proof module; a run has no need
to check it as well.
`CHECK_DEADLOCK` is off everywhere: the counters bound how much is asked of the
system, so every behaviour ends when nothing more is asked.

**Why the bounds are enough.**  Races in this code are between *two* handlers of
one record: two requests are the least that race, and a third operation on the
same record (a retry, a second rejection) comes before or after them, which the
bounds of 3 to 5 requests or calls leave room for.  Two records and two hashes are what
sharing a hash takes.  One failure is enough for a partial result, since each
is left behind by one interrupted handler; two in `trade_settles` show that a
settlement is retried more than once.  Amounts are chosen at the thresholds:
the minimum deposit and the bonus minimum; a stake that is rounded up (150 gives
2), and nothing left to take one of after a withdrawal; funds that cover one
withdrawal and not both; a tolerance of 1 between running balances, which a stake of 2
exceeds (10000 in `trade_settles`, which no stake there does).  In
`rank_bonus` the line of three users is the least in which one deposit promotes a
user whose promotion in turn makes another eligible for the second level, which
may then be reached with or without the first; a correction and a second evaluation
make a level achieved twice.  Three codes are one to sign up with and two to
reset a password by, so that one replaces the other while a reset is under way;
two tokens are a session and one that crosses it.  Three members hang in every
shape from one another and from the admin, so that a counter two levels up is
reached, and two events are a deletion or failure and the script that comes after.
Two times of day are midnight and another; a month is walked through day by day.
Pages of two and four rows make two pages, where one row can pass from one to
the other.
Symmetry is used for what is interchangeable (requests, trades, withdrawals,
members, codes, rows) in safety runs only; `OnChain`, `PaidTo` and `Funds` tell
hashes, wallets and users apart, so none of these is declared symmetric.

**Fairness.**  `deposit_retry` assumes that the event loop lets every handler
that has a call pending go on, that each cron schedule keeps firing, and that a
task goes on with the list it read.  `trade_settles` assumes the same of
sessions and settlements, and that time passes; `pool_requests` assumes only
that handlers go on.  The other runs assume none.  This is what
node-cron and the event loop provide; *user* requests, changes of flags and failures are never
fair.  Failures are bounded, so after the last one the calls succeed: a system
whose every call fails for ever settles nothing.  None of these properties asks anything
of the scheduler's order: weak fairness is enough.

**What the exceptions mean.**  Several properties hold only outside a named
accident: `LedgerMatchesUndisturbed` where nothing overlapped or stopped,
`UndisturbedPaysExactly` where nothing overlapped or was cut short while paying,
`CompletedIsPaid` for trades not in `interrupted`; and the sums of `Withdrawal` and
`Trading` are off by `displaced`, which is 0 for a wallet not in `raced`.  The exceptions
are real
weaknesses of the code (two withdrawals or two trade sessions that overlap on a wallet
can both be granted the same money, as the debit of one is written over by the other;
a settlement that dies after it marked a trade COMPLETED
never pays it; a retry cannot repair a deposit whose hash is already recorded; a
login that checked the old password leaves a session after it was changed; a
reply that crosses the closing of its ticket opens it again).
The properties say that nothing *else* goes wrong, and each would fail with its
exception removed.

## 4. Findings

The first has a run of its own; the others were met while modelling, and show as
an exception of a property that passes, or as a definition that says what the
code does.  Paths are below `src/src/modules` unless they are given.

* `deposit_once`: the comment at `deposit.service.ts:185-187` promises that an
  approved deposit cannot be approved again.  The check precedes the credits and
  the write follows them, so the verification `createDeposit` starts and an
  admin's approval both credit.
* `deposit.service.ts:100`: the same comment speaks of rejected deposits, which
  `verifyDeposit` nevertheless verifies and approves, without any race.
* `wallet.repository.ts:98`: `DATABASE_DESIGN.md:608` has balances calculated from
  ledger entries.  Two credits that overlap both reread the row before either
  writes; one is lost from the balance, both are in the ledger.  Of two debits one
  is lost too, though both were granted: with 30 on a wallet, two withdrawals of 20
  leave 10 and are both created, and two trade sessions can record two stakes for one.
* `withdrawal.service.ts:228`: only COMPLETED is refused; rejecting a withdrawal
  twice refunds it twice.  `:229`: a rejection that overlaps processing refunds a
  withdrawal that ends COMPLETED.
* `withdrawal.service.ts:56`: the code takes a 20% fee and a 10% penalty, where
  its comment says 2% and `DATABASE_DESIGN.md` says 2% and 30%.
* `rank.service.ts:67`: a rank's bonus is to be paid once per level.  The history
  row looked for is written three calls later, so two evaluations that overlap
  both pay.  `:60`: ranks are never to go down, but an evaluation with older
  counts writes its lower level over a higher one.
* `auth.service.ts:104`: the refresh token stored is not the text returned, so that
  refreshing is always refused; two sign-ins within a second have the same text,
  whose unique column refuses the second.
* `auth.repository.ts:95`: the first verification of an address sets ACTIVE
  whatever the status is, and so ends a suspension.
* `user.repository.ts:89`: the dashboard shows the direct referrals of the first
  referral row below the user as the user's own.
* `referral.service.ts:57`: a sponsored user whose own row failed gets a root row
  from the first member it sponsors, which the backfill then takes for its row.
* `prisma/seed.ts:19`: the seed stops as soon as the admin exists; what a crash
  left out is never made.
* `admin.service.ts:247`: the trade time written by `updateConfig`, by the
  settings API or by `seedDefaults` does not move the trade task, as
  `updateTradeSchedule` does; a task moved to a later time of a day on which it
  has run makes that day's second session.
* `cron.service.ts:77`: `'0 */30 * * *'` is once a day, not every 30 minutes.
* `ticket.service.ts:36`: a closed ticket is to receive no messages; a reply checked
  before the closing is added after it, and opens the ticket.
* `scripts/recheck-ranks.ts:64` ("safe to re-run"): stopped between the debit and
  the record, the script takes the same bonus again.  Line 6 ("only downgrades"):
  it compares ranks it read at its start.  Line 98 ("until nothing changes"): it
  ends after 10 passes.

## 5. What is proved

TLAPS proves the following for **all** constants that satisfy the modules'
assumptions: every set of users (in `RankBonus`, in `ReferralTree` and for the rank
scripts a finite one, with any sponsors and any ranks), deposits, hashes, wallets, trades, codes,
tokens, tickets and concurrent handlers, all amounts, every bound.  The assumptions
are the modules' named ASSUMEs, which TLC evaluates on the runs.  They say

* that bounds and amounts are numbers (withdrawals are multiples of 10 up to 10000,
  so that fee and penalty are whole) and a page has room for a row;
* that the names the code uses for "none" and the processes are distinct from the
  values they stand beside;
* that `RANK_DEFINITIONS` is a sequence of levels, and (`RankBonus`) that every level
  needs something: a user without referrals and team is eligible for none, which
  is so of the definitions in the code;
* that times of day are numbered without a gap;
* that what is finite in any database is: users whose ranks are evaluated or whose
  teams are counted, the handlers that count them, the rows of a list, rewards given
  at once.

Nothing else is assumed.

| Module | Theorem | States |
|---|---|---|
| `WalletLedgerProofs` | `TypeCorrect` | `TypeOK` |
| | `RowsAccounted` (from `RowsStayConsistent`, `TotalsNeverInflated`) | `RowsAccountForWrites` |
| | `EntriesTell` (from `SerialLedgerMatches`, `EntryRefusalMeansOverlap`) | `EntriesTellBalances` |
| | `ImplementsBookkeeping` | `BooksAreKept` |
| `DepositProofs` | `TypeCorrect` | `TypeOK` |
| | `HashVouchesOnce` | `HashVerifiesOneDeposit` |
| | `CreditedBeforeApproved` | `ApprovedIsCredited` |
| | `PaidExactly` | `UndisturbedPaysExactly` |
| | `ImplementsSettlement` | `SettledOnce` |
| `WithdrawalProofs` | `TypeCorrect` | `TypeOK`; so no balance is ever negative |
| | `CompletedBacked` | `CompletedIsBacked` |
| | `RefundMatches` | `RefundMatchesStatus` |
| | `MoneyAccounted` | `MoneyIsAccountedFor` |
| | `ImplementsSettlement` | `SettledOnce` |
| `TradingProofs` | `TypeCorrect` | `TypeOK`; so no principal is ever negative |
| | `PaidOnce` (from `NeverPaidTwice`, `SettledInFull`) | `TradesArePaidOnce` |
| | `StakesAreBacked` | `StakesAreTakenFromPrincipal` |
| | `BarredStayOut` | `BarredUsersAreNotTraded` |
| `PoolBonusProofs` | `TypeCorrect` | `TypeOK` |
| | `StatusTells` | `StatusTellsMoney` |
| | `PayoutsTaken` | `PayoutsAreTaken` |
| | `OnePending` | `OnePendingPerUser` |
| | `ImplementsSettlement` | `SettledOnce` |
| `RankBonusProofs` | `TypeCorrect` | `TypeOK` |
| | `BonusPaidOnce` | `BonusOncePerLevel` |
| | `RewardsTold` | `RewardsAddUp` |
| | `RecordAtRank` | `RecordMatchesRank` |
| | `NobodyWaits` | `NobodyLeftBehind` |
| | `NeverDown` | `NeverDowngraded` |
| `ReferralTreeProofs` | `RowsStayTree` | `RowsFormTree` |
| | `TeamsStayCounted` (from `CountersStayRight`, `ViewsStayEqual`) | `TeamsAreCounted` |
| | `NobodyStaysLost` | `NobodyIsLost` |
| | `BackfillMends` | `BackfillRepairs` |
| `OfficeProofs` (`AuthSession`) | `TypeCorrect` | `TypeOK` |
| | `SessionsEnd` | `SessionsEndWithPassword` |
| | `CodesUsedOnce` | `CodeUsedOnce` |
| | `SuspensionHolds` | `SuspensionStands` |
| `OfficeProofs` (`BackOffice`) | `JobsAreRun` | `JobsRunAsSet` |
| | `TicketsTell` | `TicketsTellWhoIsWaitedFor` |
| | `ClosedStayClosed` | `ClosedTicketsStayClosed` |
| | `RewardsBooked` | `RewardsAreBooked` |
| | `RecheckEnds` | `RecheckCorrects` |
| | `RanksFall` | `RanksOnlyFall` |
| | `MissedAccounted` | `MissedAreAccountedFor` |

`DepositProofs`, `WithdrawalProofs` and `PoolBonusProofs` also have `OrderAlways`
(and `DepositProofs` `SoundAlways`): the invariants the other theorems follow from.

**WalletLedger.**  `TypeInv` adds to the types that a request in progress has an
allowed operation and stands at a side that operation has.  `RowInv`: not only
the stored rows but also the rows *held by requests* are consistent and within
the amounts written, because a stale row that a request holds is one it may
write back; the invariant is inductive since a write computes the whole new row
from one snapshot.  `SerialInv` is about wallets with no overlap so far: at most
one request touches such a wallet, what it has read is current, and the ledger is
behind the balance by exactly the entries it still has to write.  A ledger check
can fail only for a before that is not current, hence `EntryRefusalMeansOverlap`.

**Bookkeeping.**  `TypeInv` and `SerialInv` suffice.  `HalfSeen` translates: of a wallet
not astray, an operation that has not written there is `Untouched` in the books, one
that has written and not entered is `Moved`, one that has entered is asked no more.
Then each action is one step for each wallet it touches (`StartSeen` to `LedgerSeen`):
a read is none, a write is `Change` of one wallet and `Rest` of the other, an entry
`Enter`, and a stop, since it would leave its wallets astray had it moved anything,
`Refuse` of both.

**Trading.**  `TypeInv` adds what a run knows at each point (a session that debits
has a user; a settlement that marks or pays has a trade that exists).  `PayInv`:
a trade is paid by one run at most, that run has paid exactly the parts before
its `pc`, and the trade is already COMPLETED.  It rests on the conditional update
alone, as the proof of `Mark` shows: whoever finds the trade PENDING knows that
no one pays it and nothing of it is paid.  `BarInv` follows a bar through a
session's reads: what has been barred since the start is in the exclusions it
reads, or off the users it reads, hence not in its list and not the user it
trades for.

**RankBonus.**  `TypeInv` adds that a distribution works on records that exist.
`Inv` says of every user no two changes of whose rank have overlapped: at most
one run is at a change of this rank (`Alone`); what was paid for is in the
history (`PaidInHistory`); an evaluation that has read the rank still has the
current one, one that will write has a higher one, one that has written agrees
with the user row, and one about to pay has not paid yet (`Consistent`); and the
record is at the rank, or a promotion that will put it there is under way or was
cut short (`RecordFollows`).  `Alone` is what makes the rest inductive, and what
overlap takes away: with two evaluations at once the rank one has read, and the
history row it has looked for and not found, are out of date when it uses them,
which is what the findings show.  The lemmas `Kept` and `Changed` treat a move of
a run once for all actions; each action then only says what it leaves behind.

**Deposit, Withdrawal, PoolBonus.**  Two invariants each.  `SoundInv` holds
whatever overlaps: it says what a handler has secured at each of its calls
(before `settle`, the hash is recorded for *its* deposit; before `complete`, for
its withdrawal and paid to its wallet) and that a row that is written is backed
by it.  It rests on the unique index and on what is only ever added to (`recordedFor`,
`paid`), hence `HashVouchesOnce`, `CreditedBeforeApproved` and `CompletedBacked`
need no exception but those they name.  `OrderInv` is about a record on which no
two handlers have overlapped: one handler at most is at it, its next call tells
exactly what has been paid, and a record no handler is at has been paid what its
status says.  As in `RankBonus`, being alone is what makes it inductive.
In `PoolBonus` a third, `CrowdInv`, does the same for the creations of a user's
requests.

**Sums of money.**  Each has an equation (or, where a failure may lose money, an
inequality) that every step keeps because it moves an amount from one term to
another, or loses it.  The terms include what a handler *holds* between the call
that took it and the call that puts it somewhere; without it no step would
balance.
`MoneyInv` (Withdrawal): a wallet's balance, the withdrawals made from it and what
creations hold is no more than its funds, its refunds and `displaced`; on a wallet with
nothing cut short its entries, with those still to be written, explain the balance.
A write moves the balance by its own amount and by what was read less what is there,
which is what it adds to `displaced`.
`StakeInv` (Trading): principal, stakes, what sessions hold and what was spent come
from the funds and from `displaced`.
`RaceInv` (both): of a wallet not in `raced`, one change at most is about to be
written, and what it has read is still the balance; so it displaces nothing.  A second
read while a write is due puts the wallet in `raced`, and a write that comes after
the read was due at the time of it.
`PayInv` (PoolBonus): per request, what was paid and what its executions hold is
what was taken.
`EarnInv` (RankBonus): the bonus wallet and what promotions have still to credit is
what the record says was earned; `CycleInv` says the same of the pool wallet and
the rows of the cycles, CREDITED, PENDING and recorded, and that a row PENDING has
its distribution under way or was cut short.
`ToldInv`: of a user nothing has disturbed, the history has just the levels that
were paid or are about to be.

**NobodyLeftBehind.**  `BehindInv`: as long as no call failed and no admin corrected
a rank, every user not overlapped is *settled* (eligible for nothing above its rank)
or *awaited*: an evaluation of the user has counted nothing that is out of date, or
one of somebody in the user's team is going up and will come to it.  What makes it hard is
that the counts are made in three calls: an evaluation whose counts a promotion below
has made out of date promotes too low, but then the evaluation that promoted is still
to come, on its way up the sponsors.

**Settlement.**  `OrderInv` fixes the stage and the money of a claim not astray at
every call.  The proof takes each action, picks the one claim it works on, and
shows that the step is `Give` (the credit), `Grant`, `Refuse`, `File` or `Reopen`
(the write of a status) or `Rest` of it, and `Rest` of all others; a claim only
goes astray, which is `astray \subseteq astray'`.

**AuthSession.**  `SoundInv`: a code on an account or with a handler was issued to
that user and for that purpose.  `Uncontested`: of a user on whose codes no two
handlers acted at once, one handler at most holds a code, and a code that was used
is nowhere any more, neither on the account nor with a handler.  `Current`: a live
session is of the current password, or of a handler that is late, or about to be
revoked, or its user is `cut`.

**ReferralTree.**  A handler looks at rows in one call and creates one in another.
This is safe as rows are never removed nor moved: `Knows` says of a handler what
it has seen that cannot have changed (the sponsor's row is there; it is the
sponsor the user signed up with), and `Placed` follows for each row.  No
exception is needed: whatever races, fails or is repaired, there is a tree.
`GroundInv` adds that what is there stays (rows, wallets, the sponsor of a user) and
that a row has its user (`UsersFirst`).  On it rests `RepairInv`: while a backfill has
the database to itself, each user is still on its list, or complete, or the one it
is at, with what its next calls will make; and `LostInv`: a user with whom nothing
went wrong is complete (`Served`), or the seed is on its way to it (`Seeded`), or its
signup carries it (`Carries`), which then is the only one that may create its row.

`CountInv` is the equation behind `CountersAddUp`: a counter, with what runs in
progress `Owe` it and what cut runs missed, is the number of marks of its kind in the
user's team (rows for the members, deposits for the deposits).  The hard step is
`row`: the new user joins the teams of all above it, in one step, and the run now
owes one to each of them.  It rests on what a tree guarantees, that a new leaf changes
who is above nobody else, and that a walk from a row visits just those above it.
`MissInv` says that nothing is missed as long as nothing fails.

`ViewsStayEqual` says that `Downline`, `Tree` and `CountTeamSize`, each a function
recursive on the number of levels, describe the team `Below`.  No induction over an
operator is needed: a function is given outright (the team so many levels below,
which the levels in the rows tell), it satisfies the recursion, and two functions that
do cannot differ, as there would be a least level at which they do.  The levels reach
the whole team since a chain of rows has no more members than there are users
(`DepthBound`), and the team sizes of the direct referrals add up as their teams are
disjoint (`TotalOfSizes`, by a bijection).

**BackOffice.**  `ScheduleInv`: node-cron runs the tasks the service knows of, which
are one while the server is up; a rescheduling that runs alone installs the time
that is set, and when none is on its way to install, that time is installed; on a calm
day the sessions `Fired`, which were called, or were not as their row was refused, or
wait for it, are those of the tasks up to now; a log row has no end before its job; the days since the last
cycle bonus are no more than those since the last tenth day of the month.
`DeskInv`: a reply that is alone in its transaction is the only one at its ticket, and
its message the newest; one at a closed ticket is late.
`RewardInv`: credits, entries, answers and notifications differ by the number of
calls between them.
`RecheckInv`: the ranks the script read at its start still hold, but for those it has
written and for users the server wrote; a pass that changed nothing so far has seen
nobody above, hence a whole one has seen nobody; and what is being taken
back, with what is deserved, is within what the record says.
`ListInv`: of the rows listed all the time, those that lie before the next page and
were not seen are no more than the rows that left or moved.  A row that comes only
pushes others back; when some go, no more others pass the reader than went, as
ranks are distinct; one that moves passes the reader itself or lets one
other pass.  At the end, as many more lie beyond the last page as came after the
rows were counted.
`OfficeInv` puts the five together, each for its part.

**Only model-checked.**  Liveness (`RetryDecidesPayable`, `TradesComplete`,
`ApprovedIsExecuted`), which needs fairness and ENABLED, out of this prover's
reach; and `CreditedAtMostOnce`, which is violated.  Every other property of the runs
is stated by a theorem.

## 6. What is left

The liveness of `TradeSchedule`: that trade sessions go on after restarts and
whatever text is stored as their time.

## 7. Not modelled, and why

* Profiles, posts and news, sending mail, storage: rows written and read by one
  call each, that nothing else depends on.  Their lists are in `PagedList`.
* Dashboards and analytics: they only read.
* Routing, validation, rate limits, logging: input and output.  Validators enter
  the models as the set of inputs a handler can be given.
* Password hashing and the signing of tokens: a password is a version, a text
  signed differs when what is signed does.
* The profit rates but for whether they leave a part to pay.
* The RPC provider and PostgreSQL themselves: a hash's transfer is a constant,
  a query is atomic, unique indexes hold.
* The calendar, but in `TradeSchedule`: elsewhere a task may start at any moment, a
  distribution twice in ten days too.
* Real time: the 90 days of an early withdrawal, the two minutes of a trade and the
  life of a code are nondeterministic.
* A payment an admin made whose withdrawal was not completed
  (`withdrawal.service.ts:201`): the payment is outside the system, and nothing
  stored tells it from a hash recorded by another request.

## 8. Running

    tlc -workers 2 -config MCTrading.cfg MCTrading
    tlapm TradingProofs.tla
