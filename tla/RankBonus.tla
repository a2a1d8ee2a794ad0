------------------------------- MODULE RankBonus -------------------------------
(***************************************************************************)
(* Ranks and what they pay: rankService, cycleBonusService and             *)
(* adminService.updateUserRank.                                            *)
(*                                                                         *)
(* An evaluation reads the user's rank, counts directs and team, and       *)
(* perhaps promotes the user: the rank, then the history, the rank record, *)
(* another history row and the bonus, one call after the other.  It then   *)
(* starts the evaluation of the sponsor and does not wait for it.  An      *)
(* admin may set a rank; the ten-day distribution works through the rank   *)
(* records it read at its start.  A run is one of these in progress,       *)
(* interleaved with the others at every awaited call.  A change of a       *)
(* balance is one step here (WalletLedger has its stages).                 *)
(***************************************************************************)
EXTENDS Integers, FiniteSets, Sequences, Totals

CONSTANTS
    Users,              \* users but admins, whose rank nobody sets
    NoUser,             \* the sponsor of a user without one
    Sponsor,            \* per user, the sponsor; fixed at registration
    RANK_DEFINITIONS,   \* per level above NONE, what it needs and pays
    MinDirectDeposit,   \* what a direct must have deposited to count for LV1
    Amounts,            \* amounts of deposits
    Runs,               \* activities in progress at once
    MaxCalls,           \* bound: calls of the API and of cron in a behaviour
    MaxFailures         \* bound: failed calls and restarts in a behaviour

NONE == 0
RANK_ORDER == 1..Len(RANK_DEFINITIONS)
RankLevel == {NONE} \cup RANK_ORDER
Definition == [directReferralCount : Nat, directLv1Count : Nat, teamSize : Nat,
               rankBonus : Nat \ {0}, cycleBonus : Nat]

ASSUME UserAssumption == IsFiniteSet(Users)
ASSUME DefinitionAssumption == RANK_DEFINITIONS \in Seq(Definition)
ASSUME SponsorAssumption == Sponsor \in [Users -> Users \cup {NoUser}] /\ NoUser \notin Users
ASSUME AmountAssumption == Amounts \subseteq Nat \ {0} /\ MinDirectDeposit \in Nat \ {0}
ASSUME BoundAssumption == MaxCalls \in Nat /\ MaxFailures \in Nat

VARIABLES
    deposited,      \* per user, the sum of the approved deposits
    rank,           \* per user, the rank of the user row
    record,         \* per user, the row of ranks, if there is one
    history,        \* per user, the levels for which there is a history row
    bonusWallet,    \* per user, credited to RANK_BONUS
    poolWallet,     \* per user, credited to POOL_BONUS by distributions
    cycles,         \* per user, the rows of cycle_bonuses by cycle number
    run,            \* the activities in progress
    calls,          \* calls so far (bounded by MaxCalls)
    failures,       \* failed calls and restarts so far (bounded by MaxFailures)
    paid,           \* history: per user and level, payments of its bonus
    corrected,      \* history: users whose rank an admin set
    overlapped,     \* history: users of whom two changes of rank overlapped
    interrupted     \* history: users for whom a promotion or cycle was cut short

bonuses == <<bonusWallet, paid>>
distribution == <<poolWallet, cycles>>
counters == <<calls, failures>>
observed == <<corrected, overlapped, interrupted>>
vars == <<deposited, rank, record, history, bonuses, distribution, run, counters, observed>>

-------------------------------------------------------------------------------
(* Data *)

NoRecord == [level |-> -1]
Record == [level : RankLevel, bonusEarned : Nat, cycleEarned : Nat]
CycleRow == [status : {"PENDING", "CREDITED"}, amount : Nat]

Idle == [pc |-> "idle"]
Counting == [pc : {"read", "qualifying", "lv1", "team"}, user : Users, current : RankLevel,
             qualifying : Nat, lv1 : Nat]
Promoting == [pc : {"update", "find", "upsert", "history", "bonus", "entry"},
              user : Users, target : RANK_ORDER, alreadyAchieved : BOOLEAN]
Correcting == [pc : {"correct", "set"}, user : Users, level : RankLevel]
\* The records a distribution still has to work through, and the one it is at.
Distributing == [pc : {"ranks", "next"}, todo : SUBSET (Users \X RankLevel)]
Crediting == [pc : {"latest", "create", "pool", "poolEntry", "earned", "mark"},
              todo : SUBSET (Users \X RankLevel), user : Users, level : RankLevel,
              cycle : Nat]

Evaluates == {"read", "qualifying", "lv1", "team", "update", "find", "upsert", "history",
              "bonus", "entry"}
Credits == {"latest", "create", "pool", "poolEntry", "earned", "mark"}

At(r, pc) == run[r].pc = pc
Continue(r, pc) == run' = [run EXCEPT ![r].pc = pc]
End(r) == run' = [run EXCEPT ![r] = Idle]
Has(u) == record[u] # NoRecord
Evaluate(u) == [pc |-> "read", user |-> u, current |-> NONE, qualifying |-> 0, lv1 |-> 0]

\* The user whose rank a run is about to change, or may be.
Ranks(r, u) == run[r].pc \in Evaluates \cup {"correct", "set"} /\ run[r].user = u
WithOverlap(u) == IF \E s \in Runs : Ranks(s, u) THEN overlapped \cup {u} ELSE overlapped

\* The user for whom a promotion or a cycle is under way.
Midway(r) == IF run[r].pc \in {"find", "upsert", "history", "bonus", "pool", "poolEntry",
                               "earned", "mark"}
             THEN {run[r].user} ELSE {}

-------------------------------------------------------------------------------
(* What a rank needs *)

Directs(u) == {v \in Users : Sponsor[v] = u}

\* The team, which the code collects generation by generation: whom u sponsors,
\* whom they sponsor, and so on; the members of every set closed in this way.
Team(u) ==
    {v \in Users : \A S \in SUBSET Users :
                      (\A w \in Users : Sponsor[w] \in S \cup {u} => w \in S) => v \in S}

QualifyingDirects(u) == Cardinality({v \in Directs(u) : deposited[v] >= MinDirectDeposit})
DirectLv1s(u) == Cardinality({v \in Directs(u) : rank[v] \in RANK_ORDER})
TeamSize(u) == Cardinality({v \in Users : v \in Team(u) /\ deposited[v] > 0})

Eligible(level, qualifying, lv1, team) ==
    LET def == RANK_DEFINITIONS[level]
    IN  IF level = 1 THEN qualifying >= def.directReferralCount
                     ELSE lv1 >= def.directLv1Count /\ team >= def.teamSize

\* Every level needs somebody below.
ASSUME NeedAssumption == \A level \in RANK_ORDER : ~Eligible(level, 0, 0, 0)

\* The highest level there are the numbers for; it need not be the next one.
TargetRank(level, qualifying, lv1, team) ==
    /\ Eligible(level, qualifying, lv1, team)
    /\ \A higher \in RANK_ORDER : higher > level => ~Eligible(higher, qualifying, lv1, team)

\* No level above current can be reached.
NothingAbove(current, qualifying, lv1, team) ==
    \A level \in RANK_ORDER : level > current => ~Eligible(level, qualifying, lv1, team)

CycleBonus(level) == IF level = NONE THEN 0 ELSE RANK_DEFINITIONS[level].cycleBonus

CycleNumbers(u) == {0} \cup DOMAIN cycles[u]

\* The rows rows with row under number cycle.
WithCycle(rows, cycle, row) ==
    [n \in DOMAIN rows \cup {cycle} |-> IF n = cycle THEN row ELSE rows[n]]

IsTarget(r, level) == TargetRank(level, run[r].qualifying, run[r].lv1, TeamSize(run[r].user))

Promote(r, level) == run' = [run EXCEPT ![r] = [pc |-> "update", user |-> run[r].user,
                                                target |-> level, alreadyAchieved |-> FALSE]]

\* The rank record of u at another level, with a bonus added.
AtLevel(u, level, bonus) ==
    IF Has(u) THEN [record[u] EXCEPT !.level = level, !.bonusEarned = @ + bonus]
              ELSE [level |-> level, bonusEarned |-> bonus, cycleEarned |-> 0]

\* The bonus of a promotion, if the level was not achieved before.
Bonus(r) == IF run[r].alreadyAchieved THEN 0 ELSE RANK_DEFINITIONS[run[r].target].rankBonus

\* The evaluation of the sponsor starts before anything else can happen.
EvaluateSponsor(r, u) ==
    IF Sponsor[u] = NoUser
    THEN End(r) /\ UNCHANGED overlapped
    ELSE /\ run' = [run EXCEPT ![r] = Evaluate(Sponsor[u])]
         /\ overlapped' = WithOverlap(Sponsor[u])

-------------------------------------------------------------------------------
(* Slips of the steps below that the properties must notice.  They are not   *)
(* part of the specification.                                                *)

CountTeamAnyChange(r, target) ==
    /\ At(r, "team")
    /\ IsTarget(r, target)
    /\ target # run[r].current
    /\ Promote(r, target)
    /\ UNCHANGED <<deposited, rank, record, history, bonuses, distribution, counters, observed>>

NotPromotedEnds(r) ==
    /\ At(r, "team")
    /\ NothingAbove(run[r].current, run[r].qualifying, run[r].lv1, TeamSize(run[r].user))
    /\ End(r)
    /\ UNCHANGED <<deposited, rank, record, history, bonuses, distribution, counters, observed>>

FindNoHistory(r) ==
    /\ At(r, "find")
    /\ Continue(r, "upsert")
    /\ UNCHANGED <<deposited, rank, record, history, bonuses, distribution, counters, observed>>

UpsertEarning(r) ==
    /\ At(r, "upsert")
    /\ record' = [record EXCEPT ![run[r].user] =
            AtLevel(run[r].user, run[r].target, RANK_DEFINITIONS[run[r].target].rankBonus)]
    /\ Continue(r, "history")
    /\ UNCHANGED <<deposited, rank, history, bonuses, distribution, counters, observed>>

CreditNextLevel(r) ==
    LET u == run[r].user
    IN  /\ At(r, "bonus")
        /\ bonusWallet' = [bonusWallet EXCEPT ![u] = @ + Bonus(r)]
        /\ paid' = [paid EXCEPT ![u][IF run[r].target = 1 THEN 1 ELSE run[r].target - 1] = @ + 1]
        /\ Continue(r, "entry")
        /\ UNCHANGED <<deposited, rank, record, history, distribution, counters, observed>>

SetUserRankOnly(r) ==
    /\ At(r, "set")
    /\ rank' = [rank EXCEPT ![run[r].user] = run[r].level]
    /\ history' = [history EXCEPT ![run[r].user] = @ \cup {run[r].level}]
    /\ corrected' = corrected \cup {run[r].user}
    /\ End(r)
    /\ UNCHANGED <<deposited, record, bonuses, distribution, counters, overlapped, interrupted>>

CreateCycleAgain(r) ==
    /\ At(r, "create")
    /\ cycles' = [cycles EXCEPT ![run[r].user] =
            WithCycle(@, run[r].cycle, [status |-> "PENDING", amount |-> CycleBonus(run[r].level)])]
    /\ Continue(r, "pool")
    /\ UNCHANGED <<deposited, rank, record, history, bonuses, poolWallet, counters, observed>>

-------------------------------------------------------------------------------
(* Calls *)

Call(r) == run[r] = Idle /\ calls < MaxCalls /\ calls' = calls + 1

\* POST /ranks/evaluate, and the nightly evaluation of every user: its calls
\* come one after the other, but not after the sponsors' they start.
CallEvaluate(r, u) ==
    /\ Call(r)
    /\ run' = [run EXCEPT ![r] = Evaluate(u)]
    /\ overlapped' = WithOverlap(u)
    /\ UNCHANGED <<deposited, rank, record, history, bonuses, distribution, failures,
                   corrected, interrupted>>

\* approveDeposit has written APPROVED and evaluates the depositor.
ApproveDeposit(r, u, amount) ==
    /\ Call(r)
    /\ deposited' = [deposited EXCEPT ![u] = @ + amount]
    /\ run' = [run EXCEPT ![r] = Evaluate(u)]
    /\ overlapped' = WithOverlap(u)
    /\ UNCHANGED <<rank, record, history, bonuses, distribution, failures, corrected,
                   interrupted>>

CallCorrect(r, u, level) ==
    /\ Call(r)
    /\ run' = [run EXCEPT ![r] = [pc |-> "correct", user |-> u, level |-> level]]
    /\ overlapped' = WithOverlap(u)
    /\ UNCHANGED <<deposited, rank, record, history, bonuses, distribution, failures,
                   corrected, interrupted>>

\* By cron every ten days, and by an admin.
CallDistribute(r) ==
    /\ Call(r)
    /\ run' = [run EXCEPT ![r] = [pc |-> "ranks", todo |-> {}]]
    /\ UNCHANGED <<deposited, rank, record, history, bonuses, distribution, failures,
                   observed>>

-------------------------------------------------------------------------------
(* evaluateUserRank *)

ReadUser(r) ==
    /\ At(r, "read")
    /\ run' = [run EXCEPT ![r].pc = "qualifying", ![r].current = rank[run[r].user]]
    /\ UNCHANGED <<deposited, rank, record, history, bonuses, distribution, counters, observed>>

\* The counts take several queries each.  As sums of deposits only grow, the
\* result is one that a single query between the first and the last would give.
CountQualifying(r) ==
    /\ At(r, "qualifying")
    /\ run' = [run EXCEPT ![r].pc = "lv1", ![r].qualifying = QualifyingDirects(run[r].user)]
    /\ UNCHANGED <<deposited, rank, record, history, bonuses, distribution, counters, observed>>

CountLv1(r) ==
    /\ At(r, "lv1")
    /\ run' = [run EXCEPT ![r].pc = "team", ![r].lv1 = DirectLv1s(run[r].user)]
    /\ UNCHANGED <<deposited, rank, record, history, bonuses, distribution, counters, observed>>

CountTeam(r, target) ==
    /\ At(r, "team")
    /\ IsTarget(r, target)
    /\ target > run[r].current
    /\ Promote(r, target)
    /\ UNCHANGED <<deposited, rank, record, history, bonuses, distribution, counters, observed>>

NotPromoted(r) ==
    /\ At(r, "team")
    /\ NothingAbove(run[r].current, run[r].qualifying, run[r].lv1, TeamSize(run[r].user))
    /\ EvaluateSponsor(r, run[r].user)
    /\ UNCHANGED <<deposited, rank, record, history, bonuses, distribution, counters,
                   corrected, interrupted>>

UpdateUser(r) ==
    /\ At(r, "update")
    /\ rank' = [rank EXCEPT ![run[r].user] = run[r].target]
    /\ Continue(r, "find")
    /\ UNCHANGED <<deposited, record, history, bonuses, distribution, counters, observed>>

FindHistory(r) ==
    /\ At(r, "find")
    /\ run' = [run EXCEPT ![r].pc = "upsert",
                          ![r].alreadyAchieved = run[r].target \in history[run[r].user]]
    /\ UNCHANGED <<deposited, rank, record, history, bonuses, distribution, counters, observed>>

UpsertUserRank(r) ==
    /\ At(r, "upsert")
    /\ record' = [record EXCEPT ![run[r].user] = AtLevel(run[r].user, run[r].target, Bonus(r))]
    /\ Continue(r, "history")
    /\ UNCHANGED <<deposited, rank, history, bonuses, distribution, counters, observed>>

CreateRankHistory(r) ==
    LET u == run[r].user
    IN  /\ At(r, "history")
        /\ history' = [history EXCEPT ![u] = @ \cup {run[r].target}]
        /\ IF Bonus(r) > 0
           THEN Continue(r, "bonus") /\ UNCHANGED overlapped
           ELSE EvaluateSponsor(r, u)
        /\ UNCHANGED <<deposited, rank, record, bonuses, distribution, counters, corrected,
                       interrupted>>

CreditBonus(r) ==
    LET u == run[r].user
    IN  /\ At(r, "bonus")
        /\ bonusWallet' = [bonusWallet EXCEPT ![u] = @ + Bonus(r)]
        /\ paid' = [paid EXCEPT ![u][run[r].target] = @ + 1]
        /\ Continue(r, "entry")
        /\ UNCHANGED <<deposited, rank, record, history, distribution, counters, observed>>

BonusEntry(r) ==
    /\ At(r, "entry")
    /\ EvaluateSponsor(r, run[r].user)
    /\ UNCHANGED <<deposited, rank, record, history, bonuses, distribution, counters,
                   corrected, interrupted>>

-------------------------------------------------------------------------------
(* updateUserRank: the corrections an admin makes *)

ReadRank(r) ==
    /\ At(r, "correct")
    /\ IF rank[run[r].user] = run[r].level THEN End(r) ELSE Continue(r, "set")
    /\ UNCHANGED <<deposited, rank, record, history, bonuses, distribution, counters, observed>>

\* One transaction: the user row it writes first stays locked until it commits.
SetRank(r) ==
    LET u == run[r].user
        level == run[r].level
    IN  /\ At(r, "set")
        /\ rank' = [rank EXCEPT ![u] = level]
        /\ record' = [record EXCEPT ![u] =
                IF ~Has(u) /\ level = NONE THEN NoRecord ELSE AtLevel(u, level, 0)]
        /\ history' = [history EXCEPT ![u] = @ \cup {level}]
        /\ corrected' = corrected \cup {u}
        /\ End(r)
        /\ UNCHANGED <<deposited, bonuses, distribution, counters, overlapped, interrupted>>

-------------------------------------------------------------------------------
(* process10DayCycleBonus *)

ReadRanks(r) ==
    /\ At(r, "ranks")
    /\ run' = [run EXCEPT ![r] = [pc |-> "next",
                                  todo |-> {<<u, record[u].level>> : u \in {v \in Users : Has(v)}}]]
    /\ UNCHANGED <<deposited, rank, record, history, bonuses, distribution, counters, observed>>

\* The list has no order.
NextRank(r, u, level) ==
    /\ At(r, "next")
    /\ <<u, level>> \in run[r].todo
    /\ LET rest == run[r].todo \ {<<u, level>>}
       IN  run' = [run EXCEPT ![r] =
               IF CycleBonus(level) <= 0 THEN [pc |-> "next", todo |-> rest]
               ELSE [pc |-> "latest", todo |-> rest, user |-> u, level |-> level, cycle |-> 0]]
    /\ UNCHANGED <<deposited, rank, record, history, bonuses, distribution, counters, observed>>

Distributed(r) ==
    /\ At(r, "next")
    /\ run[r].todo = {}
    /\ End(r)
    /\ UNCHANGED <<deposited, rank, record, history, bonuses, distribution, counters, observed>>

FindLatest(r) ==
    /\ At(r, "latest")
    /\ \E latest \in CycleNumbers(run[r].user) :
           /\ \A n \in CycleNumbers(run[r].user) : n <= latest
           /\ run' = [run EXCEPT ![r].pc = "create", ![r].cycle = latest + 1]
    /\ UNCHANGED <<deposited, rank, record, history, bonuses, distribution, counters, observed>>

\* A user and a cycle number are unique together.
CreateCycle(r) ==
    LET u == run[r].user
    IN  /\ At(r, "create")
        /\ run[r].cycle \notin DOMAIN cycles[u]
        /\ cycles' = [cycles EXCEPT ![u] =
                WithCycle(@, run[r].cycle, [status |-> "PENDING", amount |-> CycleBonus(run[r].level)])]
        /\ Continue(r, "pool")
        /\ UNCHANGED <<deposited, rank, record, history, bonuses, poolWallet, counters, observed>>

\* The catch of the loop goes on with the next record.
Skip(r) == run' = [run EXCEPT ![r] = [pc |-> "next", todo |-> run[r].todo]]

CycleExists(r) ==
    /\ At(r, "create")
    /\ run[r].cycle \in DOMAIN cycles[run[r].user]
    /\ Skip(r)
    /\ UNCHANGED <<deposited, rank, record, history, bonuses, distribution, counters, observed>>

CreditPool(r) ==
    /\ At(r, "pool")
    /\ poolWallet' = [poolWallet EXCEPT ![run[r].user] = @ + CycleBonus(run[r].level)]
    /\ Continue(r, "poolEntry")
    /\ UNCHANGED <<deposited, rank, record, history, bonuses, cycles, counters, observed>>

PoolEntry(r) ==
    /\ At(r, "poolEntry")
    /\ Continue(r, "earned")
    /\ UNCHANGED <<deposited, rank, record, history, bonuses, distribution, counters, observed>>

UpdateEarned(r) ==
    /\ At(r, "earned")
    /\ record' = [record EXCEPT ![run[r].user].cycleEarned = @ + CycleBonus(run[r].level)]
    /\ Continue(r, "mark")
    /\ UNCHANGED <<deposited, rank, history, bonuses, distribution, counters, observed>>

MarkAsCredited(r) ==
    /\ At(r, "mark")
    /\ cycles' = [cycles EXCEPT ![run[r].user][run[r].cycle].status = "CREDITED"]
    /\ Skip(r)
    /\ UNCHANGED <<deposited, rank, record, history, bonuses, poolWallet, counters, observed>>

-------------------------------------------------------------------------------
(* Errors *)

Failing == failures < MaxFailures /\ failures' = failures + 1

\* A query fails: an evaluation ends, without its sponsor's, a correction is
\* rolled back, a distribution goes on with the next record.
Fail(r) ==
    /\ Failing
    /\ run[r] # Idle
    /\ IF run[r].pc \in Credits THEN Skip(r) ELSE End(r)
    /\ interrupted' = interrupted \cup Midway(r)
    /\ UNCHANGED <<deposited, rank, record, history, bonuses, distribution, calls, corrected,
                   overlapped>>

\* The server dies; what it had in memory is gone.
Crash ==
    /\ Failing
    /\ run' = [r \in Runs |-> Idle]
    /\ interrupted' = interrupted \cup UNION {Midway(r) : r \in Runs}
    /\ UNCHANGED <<deposited, rank, record, history, bonuses, distribution, calls, corrected,
                   overlapped>>

-------------------------------------------------------------------------------

Init ==
    /\ deposited = [u \in Users |-> 0]
    /\ rank = [u \in Users |-> NONE]
    /\ record = [u \in Users |-> NoRecord]
    /\ history = [u \in Users |-> {}]
    /\ bonusWallet = [u \in Users |-> 0]
    /\ poolWallet = [u \in Users |-> 0]
    /\ cycles = [u \in Users |-> << >>]
    /\ run = [r \in Runs |-> Idle]
    /\ calls = 0
    /\ failures = 0
    /\ paid = [u \in Users |-> [level \in RANK_ORDER |-> 0]]
    /\ corrected = {}
    /\ overlapped = {}
    /\ interrupted = {}

Called(r) ==
    \/ \E u \in Users : \/ CallEvaluate(r, u)
                        \/ \E amount \in Amounts : ApproveDeposit(r, u, amount)
                        \/ \E level \in RankLevel : CallCorrect(r, u, level)
    \/ CallDistribute(r)

Step(r) ==
    \/ ReadUser(r) \/ CountQualifying(r) \/ CountLv1(r)
    \/ \E target \in RANK_ORDER : CountTeam(r, target)
    \/ NotPromoted(r)
    \/ UpdateUser(r) \/ FindHistory(r) \/ UpsertUserRank(r) \/ CreateRankHistory(r)
    \/ CreditBonus(r) \/ BonusEntry(r)
    \/ ReadRank(r) \/ SetRank(r)
    \/ ReadRanks(r) \/ Distributed(r)
    \/ \E u \in Users, level \in RankLevel : NextRank(r, u, level)
    \/ FindLatest(r) \/ CreateCycle(r) \/ CycleExists(r)
    \/ CreditPool(r) \/ PoolEntry(r) \/ UpdateEarned(r) \/ MarkAsCredited(r)

Next == (\E r \in Runs : Called(r) \/ Step(r) \/ Fail(r)) \/ Crash

Spec == Init /\ [][Next]_vars

-------------------------------------------------------------------------------
(* Properties *)

\* Types of the variables.
TypeOK ==
    /\ deposited \in [Users -> Nat]
    /\ rank \in [Users -> RankLevel]
    /\ record \in [Users -> Record \cup {NoRecord}]
    /\ history \in [Users -> SUBSET RankLevel]
    /\ bonusWallet \in [Users -> Nat]
    /\ poolWallet \in [Users -> Nat]
    /\ DOMAIN cycles = Users
    /\ \A u \in Users : /\ DOMAIN cycles[u] \subseteq Nat
                         /\ cycles[u] \in [DOMAIN cycles[u] -> CycleRow]
    /\ run \in [Runs -> Counting \cup Promoting \cup Correcting \cup Distributing
                       \cup Crediting \cup {Idle}]
    /\ calls \in 0..MaxCalls
    /\ failures \in 0..MaxFailures
    /\ paid \in [Users -> [RANK_ORDER -> Nat]]
    /\ corrected \subseteq Users
    /\ overlapped \subseteq Users
    /\ interrupted \subseteq Users

Quiet(u) == \A r \in Runs : u \notin Midway(r)
Undisturbed(u) == Quiet(u) /\ u \notin overlapped \cup interrupted

\* "Rank bonus pays only once per level", however often an admin takes a rank
\* back, as long as no two changes of the user's rank overlap.
BonusOncePerLevel ==
    \A u \in Users \ overlapped, level \in RANK_ORDER : paid[u][level] <= 1

\* Who was promoted has the bonus: without corrections, overlap and failure, the
\* levels of the history are those paid for, and the rank is the highest.
HistoryTellsRewards ==
    \A u \in Users \ corrected :
        Undisturbed(u) =>
            /\ history[u] = {level \in RANK_ORDER : paid[u][level] = 1}
            /\ rank[u] \in {NONE} \cup history[u]
            /\ \A level \in history[u] : level <= rank[u]

\* The rank record never says less than what the wallet was credited with, and
\* says just that, even after overlap, unless a promotion was cut short.
EarnedIsPaid ==
    \A u \in Users :
        LET earned == IF Has(u) THEN record[u].bonusEarned ELSE 0
        IN  /\ bonusWallet[u] <= earned
            /\ Quiet(u) /\ u \notin interrupted => bonusWallet[u] = earned

\* The record, which decides about the cycle bonus, is at the user's rank.
RecordMatchesRank ==
    \A u \in Users :
        Undisturbed(u) => rank[u] = (IF Has(u) THEN record[u].level ELSE NONE)

\* "Never downgrade rank": only an admin lowers the rank of a user of whom no two
\* changes of rank overlap.
NeverDowngraded ==
    [][\A u \in Users \ overlapped :
           rank'[u] >= rank[u] \/ \E r \in Runs : SetRank(r) /\ run[r].user = u]_vars

\* Promotions travel up: with all at rest, nobody who could be promoted has been
\* left behind, if no call failed, no admin interfered and the evaluations of
\* the user did not overlap.
NobodyLeftBehind ==
    (\A r \in Runs : run[r] = Idle) /\ failures = 0 /\ corrected = {} =>
        \A u \in Users \ overlapped :
            NothingAbove(rank[u], QualifyingDirects(u), DirectLv1s(u), TeamSize(u))

RowAmount(row, status) == IF row.status = status THEN row.amount ELSE 0
RowAmounts(u, status) == [n \in DOMAIN cycles[u] |-> RowAmount(cycles[u][n], status)]
CycleSum(u, status) == Total(RowAmounts(u, status))

\* Distributions that overlap or are cut short never pay a cycle twice: its
\* cycles are numbered without a gap, and the pool wallet holds every CREDITED
\* one, and a PENDING one only while it is credited or if it was cut short.
CyclesArePaidOnce ==
    \A u \in Users :
        /\ DOMAIN cycles[u] = 1..Cardinality(DOMAIN cycles[u])
        /\ CycleSum(u, "CREDITED") <= poolWallet[u]
        /\ poolWallet[u] <= CycleSum(u, "CREDITED") + CycleSum(u, "PENDING")
        /\ Quiet(u) /\ u \notin interrupted =>
               /\ CycleSum(u, "PENDING") = 0
               /\ Has(u) => record[u].cycleEarned = poolWallet[u]

\* The three together: history, record, cycles and wallets tell the same rewards.
RewardsAddUp == HistoryTellsRewards /\ EarnedIsPaid /\ CyclesArePaidOnce
===============================================================================
