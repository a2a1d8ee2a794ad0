------------------------------ MODULE RankRecheck ------------------------------
(***************************************************************************)
(* The scripts that correct ranks: recheck-ranks and reset-unqualified-    *)
(* ranks, run by hand while the server may be up.                          *)
(*                                                                         *)
(* recheck-ranks reads all users once.  In passes over them, until a pass  *)
(* changes nothing, it lowers the ranks that are above what the user is    *)
(* eligible for; then it takes back the bonuses paid for ranks above the   *)
(* one that is left, as far as the wallet has them.  It may stop at any    *)
(* call, and be run again.  Deposits are fixed; what the server does       *)
(* meanwhile is one step each (RankBonus has the stages), and so is a      *)
(* change of a balance with its ledger row.  The history rows are left     *)
(* out: the scripts do not read them.                                      *)
(***************************************************************************)
EXTENDS Integers, Sequences, FiniteSetsExt, SequencesExt, Totals

CONSTANTS
    Users,              \* users but admins
    NoUser,             \* the sponsor of a user without one
    Sponsor,            \* per user, the sponsor
    Deposits,           \* what the users may have deposited
    RANK_DEFINITIONS,   \* per level above NONE, what it needs and pays
    MinDirectDeposit,   \* what a direct must have deposited to count for LV1
    MaxPasses,          \* passes over the users: 10
    MaxRuns,            \* bound: runs of the scripts
    MaxChanges          \* bound: what the server does meanwhile

NONE == 0
LV1 == 1
RANK_ORDER == 1..Len(RANK_DEFINITIONS)
RankLevel == {NONE} \cup RANK_ORDER
Definition == [directReferralCount : Nat, directLv1Count : Nat, teamSize : Nat, rankBonus : Nat]

VARIABLES
    deposited,      \* per user, the sum of the approved deposits
    rank,           \* per user, the rank of the user row
    record,         \* per user, the row of ranks, if there is one
    bonusWallet,    \* per user, the balance of RANK_BONUS
    script,         \* the script in progress
    runs, changes,  \* so far (bounded)
    touched,        \* history: users whose rank changed since the script read it
    limited,        \* history: the last pass allowed still changed a rank
    entitled,       \* history: per user, the bonuses recorded as earned and not taken back
    cut             \* history: users whose bonus was taken and not recorded so

data == <<rank, record, bonusWallet>>
counters == <<runs, changes>>
observed == <<touched, limited, entitled, cut>>
vars == <<deposited, data, script, counters, observed>>

-------------------------------------------------------------------------------
(* Data *)

NoRecord == [level |-> -1]
Record == [level : RankLevel, bonusEarned : Nat]

Idle == [pc |-> "idle"]
RecheckState == [pc : {"eligible", "rank", "record", "earned", "deserved", "wallet", "debit", "set"},
                 users : Seq(Users), at : Nat, pass : 1..MaxPasses, changed : BOOLEAN,
                 cached : [Users -> RankLevel], target : RankLevel, earned : Nat, amount : Nat]
ResetState == [pc : {"reset"}, todo : SUBSET Users]

At(pc) == script.pc = pc
Goto(pc) == script' = [script EXCEPT !.pc = pc]
User == script.users[script.at]
Has(u) == record[u] # NoRecord

Directs(u) == {v \in Users : Sponsor[v] = u}
Team(u) ==
    LET generation[n \in 0..Cardinality(Users)] ==
            IF n = 0 THEN {u} ELSE {v \in Users : Sponsor[v] \in generation[n - 1]}
    IN  UNION {generation[n] : n \in 1..Cardinality(Users)}

IsEligible(u, level) ==
    LET def == RANK_DEFINITIONS[level]
    IN  IF level = LV1
        THEN Cardinality({v \in Directs(u) : deposited[v] >= MinDirectDeposit}) >= def.directReferralCount
        ELSE /\ Cardinality({v \in Directs(u) : rank[v] \in RANK_ORDER}) >= def.directLv1Count
             /\ Cardinality({v \in Team(u) : deposited[v] > 0}) >= def.teamSize

\* The highest level the user is eligible for.
EligibleRank(u) == Max({NONE} \cup {level \in RANK_ORDER : IsEligible(u, level)})

\* What the levels up to rank pay, all together.
DeservedBonus(level) == Total([l \in 1..level |-> RANK_DEFINITIONS[l].rankBonus])

\* The next user of the pass, the next pass, or the bonuses.
NextUser(changed) ==
    IF script.at < Len(script.users)
    THEN [script EXCEPT !.pc = "eligible", !.at = @ + 1, !.changed = changed]
    ELSE IF changed /\ script.pass < MaxPasses
    THEN [script EXCEPT !.pc = "eligible", !.at = 1, !.pass = @ + 1, !.changed = FALSE]
    ELSE [script EXCEPT !.pc = "earned", !.at = 1, !.changed = changed]

NextBonus == IF script.at < Len(script.users)
             THEN [script EXCEPT !.pc = "earned", !.at = @ + 1] ELSE Idle

\* The record of u at a level, with a bonus added.
AtLevel(u, level, bonus) ==
    IF Has(u) THEN [record[u] EXCEPT !.level = level, !.bonusEarned = @ + bonus]
              ELSE [level |-> level, bonusEarned |-> bonus]

-------------------------------------------------------------------------------
(* Slips of the steps below that the properties must notice.  They are not   *)
(* part of the specification.                                                *)

\* Any rank that differs is set.
CompareUnequal ==
    /\ At("eligible")
    /\ LET target == EligibleRank(User) IN
       script' = IF target # script.cached[User]
                 THEN [script EXCEPT !.pc = "rank", !.target = target]
                 ELSE NextUser(script.changed)
    /\ limited' = (script'.pc = "earned" /\ script.changed)
    /\ UNCHANGED <<deposited, data, counters, touched, entitled, cut>>

\* The record keeps the bonus that was taken back.
SetNothing ==
    /\ At("set")
    /\ script' = NextBonus
    /\ UNCHANGED <<deposited, data, counters, observed>>

-------------------------------------------------------------------------------
(* recheck-ranks *)

\* All users, in the order the database gives them.
ReadUsers ==
    /\ script = Idle
    /\ runs < MaxRuns
    /\ runs' = runs + 1
    /\ \E users \in SetToSeqs(Users) :
        script' = [pc |-> "eligible", users |-> users, at |-> 1, pass |-> 1, changed |-> FALSE,
                   cached |-> rank, target |-> NONE, earned |-> 0, amount |-> 0]
    /\ touched' = {}
    /\ limited' = FALSE
    /\ UNCHANGED <<deposited, data, changes, entitled, cut>>

Compare ==
    /\ At("eligible")
    /\ LET target == EligibleRank(User) IN
       script' = IF target < script.cached[User]
                 THEN [script EXCEPT !.pc = "rank", !.target = target]
                 ELSE NextUser(script.changed)
    /\ limited' = (script'.pc = "earned" /\ script.changed)
    /\ UNCHANGED <<deposited, data, counters, touched, entitled, cut>>

UpdateRank ==
    /\ At("rank")
    /\ rank' = [rank EXCEPT ![User] = script.target]
    /\ Goto("record")
    /\ UNCHANGED <<deposited, record, bonusWallet, counters, observed>>

\* The record is read, and then set if it is at another level: between the
\* two another change of it has the same outcome as before or after both.
SyncRecord ==
    /\ At("record")
    /\ record' = IF Has(User) THEN [record EXCEPT ![User].level = script.target] ELSE record
    /\ script' = [NextUser(TRUE) EXCEPT !.cached[User] = script.target]
    /\ limited' = (script'.pc = "earned")
    /\ UNCHANGED <<deposited, rank, bonusWallet, counters, touched, entitled, cut>>

\* clawbackUnearnedBonus
ReadEarned ==
    /\ At("earned")
    /\ script' = [script EXCEPT !.pc = "deserved",
                                !.earned = IF Has(User) THEN record[User].bonusEarned ELSE 0]
    /\ UNCHANGED <<deposited, data, counters, observed>>

ReadDeserved ==
    /\ At("deserved")
    /\ LET deserved == DeservedBonus(rank[User]) IN
       script' = IF script.earned > deserved
                 THEN [script EXCEPT !.pc = "wallet", !.target = rank[User],
                                     !.amount = script.earned - deserved]
                 ELSE NextBonus
    /\ UNCHANGED <<deposited, data, counters, observed>>

FindWallet ==
    /\ At("wallet")
    /\ LET amount == Min({script.amount, bonusWallet[User]}) IN
       script' = [script EXCEPT !.pc = IF amount > 0 THEN "debit" ELSE "set", !.amount = amount]
    /\ UNCHANGED <<deposited, data, counters, observed>>

\* debitWallet reads the balance again; if it refuses, the script is over.
Debit ==
    /\ At("debit")
    /\ IF bonusWallet[User] >= script.amount
       THEN /\ bonusWallet' = [bonusWallet EXCEPT ![User] = @ - script.amount]
            /\ entitled' = [entitled EXCEPT ![User] = @ - script.amount]
            /\ Goto("set")
       ELSE script' = Idle /\ UNCHANGED <<bonusWallet, entitled>>
    /\ UNCHANGED <<deposited, rank, record, counters, touched, limited, cut>>

SetEarned ==
    /\ At("set")
    /\ record' = [record EXCEPT ![User].bonusEarned = DeservedBonus(script.target)]
    /\ script' = NextBonus
    /\ UNCHANGED <<deposited, rank, bonusWallet, counters, observed>>

-------------------------------------------------------------------------------
(* reset-unqualified-ranks *)

ResetRead ==
    /\ script = Idle
    /\ runs < MaxRuns
    /\ runs' = runs + 1
    /\ script' = [pc |-> "reset", todo |-> {u \in Users : rank[u] = LV1 /\ ~Has(u)}]
    /\ touched' = {}
    /\ UNCHANGED <<deposited, data, changes, limited, entitled, cut>>

ResetWrite ==
    /\ At("reset")
    /\ rank' = [u \in Users |-> IF u \in script.todo THEN NONE ELSE rank[u]]
    /\ script' = Idle
    /\ UNCHANGED <<deposited, record, bonusWallet, counters, observed>>

\* A call of the script fails, or it is stopped.
Stop ==
    /\ script # Idle
    /\ script' = Idle
    /\ cut' = IF At("set") THEN cut \cup {User} ELSE cut
    /\ UNCHANGED <<deposited, data, counters, touched, limited, entitled>>

-------------------------------------------------------------------------------
(* The server meanwhile *)

Change == changes < MaxChanges /\ changes' = changes + 1

\* evaluateUserRank promotes a user.
Promote(u) ==
    LET level == EligibleRank(u)
        bonus == RANK_DEFINITIONS[level].rankBonus IN
    /\ Change
    /\ level > rank[u]
    /\ rank' = [rank EXCEPT ![u] = level]
    /\ record' = [record EXCEPT ![u] = AtLevel(u, level, bonus)]
    /\ bonusWallet' = [bonusWallet EXCEPT ![u] = @ + bonus]
    /\ touched' = touched \cup {u}
    /\ entitled' = [entitled EXCEPT ![u] = @ + bonus]
    /\ UNCHANGED <<deposited, script, runs, limited, cut>>

\* updateUserRank, by an admin.
UpdateUserRank(u, level) ==
    /\ Change
    /\ level # rank[u]
    /\ rank' = [rank EXCEPT ![u] = level]
    /\ record' = IF Has(u) \/ level # NONE THEN [record EXCEPT ![u] = AtLevel(u, level, 0)] ELSE record
    /\ touched' = touched \cup {u}
    /\ UNCHANGED <<deposited, bonusWallet, script, runs, limited, entitled, cut>>

\* The bonus is withdrawn or transferred.
Spend(u) ==
    /\ Change
    /\ bonusWallet[u] > 0
    /\ bonusWallet' = [bonusWallet EXCEPT ![u] = 0]
    /\ UNCHANGED <<deposited, rank, record, script, runs, observed>>

-------------------------------------------------------------------------------
\* The old rules gave LV1 without a record, and other ranks with one.
Before ==
    {[rank |-> level, record |-> NoRecord] : level \in {NONE, LV1}} \cup
    {[rank |-> level, record |-> [level |-> level, bonusEarned |-> DeservedBonus(level)]] :
        level \in RANK_ORDER}

Init ==
    /\ deposited \in Deposits
    /\ \E before \in [Users -> Before] :
        /\ rank = [u \in Users |-> before[u].rank]
        /\ record = [u \in Users |-> before[u].record]
    /\ bonusWallet = [u \in Users |-> IF Has(u) THEN record[u].bonusEarned ELSE 0]
    /\ script = Idle
    /\ runs = 0 /\ changes = 0
    /\ touched = {} /\ limited = FALSE
    /\ entitled = bonusWallet /\ cut = {}

Recheck == ReadUsers \/ Compare \/ UpdateRank \/ SyncRecord
           \/ ReadEarned \/ ReadDeserved \/ FindWallet \/ Debit \/ SetEarned

Next ==
    \/ Recheck
    \/ ResetRead \/ ResetWrite
    \/ Stop
    \/ \E u \in Users : Promote(u) \/ Spend(u) \/ \E level \in RankLevel : UpdateUserRank(u, level)

Spec == Init /\ [][Next]_vars

-------------------------------------------------------------------------------
(* Properties *)

\* Every variable holds what its declaration says.
TypeOK ==
    /\ deposited \in Deposits
    /\ rank \in [Users -> RankLevel]
    /\ record \in [Users -> Record \cup {NoRecord}]
    /\ bonusWallet \in [Users -> Nat] /\ entitled \in [Users -> Int]
    /\ script \in RecheckState \cup ResetState \cup {Idle}
    /\ runs \in Nat /\ changes \in Nat
    /\ touched \subseteq Users /\ cut \subseteq Users /\ limited \in BOOLEAN

\* recheck-ranks: "Only downgrades; upgrades are left to normal evaluation".
\* The rank compared is the one read at the start: the rank of a user which
\* the server lowered since may be raised.
RaisesOnlyTouched == \A u \in Users : rank'[u] > rank[u] => u \in touched'

OnlyDowngrades == [][RaisesOnlyTouched]_vars

\* "iterate until nothing changes": when the passes are over nobody has a rank
\* above what the user is eligible for, however far one correction made others
\* necessary.  Excepted is that the tenth pass still corrected somebody, and
\* what the server changed meanwhile.
NobodyAboveEligible ==
    script.pc \in {"earned", "deserved", "wallet", "debit", "set"} /\ ~limited /\ touched = {} =>
        \A u \in Users : rank[u] <= EligibleRank(u)

\* "Idempotent: safe to re-run": no bonus is taken back twice.  Nobody is left
\* with less than the record says was earned, and a second run takes, except a
\* user whose debit was done when the script stopped.
BonusTakenOnce ==
    \A u \in Users \ cut :
        entitled[u] >= IF At("set") /\ User = u THEN DeservedBonus(script.target)
                       ELSE IF Has(u) THEN record[u].bonusEarned ELSE 0

===============================================================================
