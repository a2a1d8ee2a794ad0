---------------------------- MODULE RankBonusProofs ----------------------------
(***************************************************************************)
(* Theorems about RankBonus, for every finite set of users with every      *)
(* sponsor relation, all definitions of ranks, every number of activities  *)
(* at once and every bound.  Five inductive invariants carry them: Inv,    *)
(* about ranks and the payments for them; ToldInv, about the history;      *)
(* EarnInv, about the record and the bonus wallet; CycleInv, about cycles, *)
(* their rows and the pool wallet; BehindInv, about who is awaited.        *)
(***************************************************************************)
EXTENDS RankBonus, FiniteSetTheorems, TLAPS

(* ---------------------------------------------------------------------- *)
(* Inductive invariants                                                   *)

RunState == Counting \cup Promoting \cup Correcting \cup Distributing \cup Crediting \cup {Idle}

\* A distribution works on records that exist; none is ever deleted.
Recorded(r) ==
    /\ run[r].pc \in {"next"} \cup Credits => \A e \in run[r].todo : Has(e[1])
    /\ run[r].pc \in Credits => Has(run[r].user)

TypeInv == TypeOK /\ \A r \in Runs : Recorded(r)

\* One change of the user's rank is under way at most.
Alone(u) == \A r, s \in Runs : Ranks(r, u) /\ Ranks(s, u) => r = s

\* What is paid for is in the history.
PaidInHistory(u) ==
    \A level \in RANK_ORDER : /\ paid[u][level] <= 1
                              /\ paid[u][level] = 1 => level \in history[u]

\* An evaluation in state x that is about to pay u has not paid; the rank of u that
\* it has read or written is the one u has, and one it will write is higher.
Consistent(x, u) ==
    x.pc \in Evaluates /\ x.user = u =>
        /\ x.pc \in {"upsert", "history", "bonus"} /\ ~x.alreadyAchieved => paid[u][x.target] = 0
        /\ x.pc = "bonus" => ~x.alreadyAchieved /\ x.target \in history[u]
        /\ x.pc \in {"qualifying", "lv1", "team"} => x.current = rank[u]
        /\ x.pc = "update" => x.target > rank[u]
        /\ x.pc \in {"find", "upsert"} => x.target = rank[u]

\* The record is at the rank, or a promotion under way will put it there.
AtRank(u) == rank[u] = (IF Has(u) THEN record[u].level ELSE NONE)
Recording(x, u) == x.pc \in {"find", "upsert"} /\ x.user = u
RecordFollows(u) == u \in interrupted \/ AtRank(u) \/ \E r \in Runs : Recording(run[r], u)

UserInv(u) == /\ Alone(u)
              /\ PaidInHistory(u)
              /\ \A r \in Runs : Consistent(run[r], u)
              /\ RecordFollows(u)

Inv == TypeInv /\ \A u \in Users \ overlapped : UserInv(u)

(* ---------------------------------------------------------------------- *)
(* Types                                                                  *)

\* The shape of a run follows from where it is.
LEMMA Shapes ==
    ASSUME NEW x \in RunState
    PROVE  /\ x.pc \in {"read", "qualifying", "lv1", "team"} => x \in Counting
           /\ x.pc \in {"update", "find", "upsert", "history", "bonus", "entry"} => x \in Promoting
           /\ x.pc \in {"correct", "set"} => x \in Correcting
           /\ x.pc \in {"ranks", "next"} => x \in Distributing
           /\ x.pc \in Credits => x \in Crediting
           /\ x.pc \in Evaluates \cup {"correct", "set"} => x.user \in Users
           /\ x = Idle \/ x.pc # "idle"
  BY DEF RunState, Counting, Promoting, Correcting, Distributing, Crediting, Idle, Credits,
         Evaluates

\* The initial state is well typed.
LEMMA InitTypeInv == Init => TypeInv
  BY BoundAssumption
  DEF Init, TypeInv, TypeOK, Recorded, Idle, RankLevel, Credits, At

\* Counts are natural numbers.
LEMMA Counts ==
    ASSUME NEW u \in Users
    PROVE  QualifyingDirects(u) \in Nat /\ DirectLv1s(u) \in Nat /\ TeamSize(u) \in Nat
  <1>1. \A S : S \subseteq Users => Cardinality(S) \in Nat
    BY UserAssumption, FS_Subset, FS_CardinalityType
  <1> QED
    BY <1>1 DEF QualifyingDirects, DirectLv1s, TeamSize, Directs

\* Levels and their bonuses.
LEMMA Levels ==
    /\ RANK_ORDER \subseteq Nat \ {0}
    /\ RankLevel \subseteq Nat
    /\ \A level \in RANK_ORDER : RANK_DEFINITIONS[level].rankBonus \in Nat
    /\ \A level \in RankLevel : CycleBonus(level) \in Nat
  <1>1. Len(RANK_DEFINITIONS) \in Nat
    BY DefinitionAssumption
  <1>2. \A level \in RANK_ORDER : RANK_DEFINITIONS[level] \in Definition
    BY DefinitionAssumption DEF RANK_ORDER
  <1>3. \A level \in RANK_ORDER : /\ RANK_DEFINITIONS[level].rankBonus \in Nat
                                /\ RANK_DEFINITIONS[level].cycleBonus \in Nat
    BY <1>2 DEF Definition
  <1>4. RANK_ORDER \subseteq Nat \ {0}
    BY <1>1 DEF RANK_ORDER
  <1> QED
    BY <1>3, <1>4 DEF RankLevel, NONE, CycleBonus

\* A record at another level.
LEMMA Rows ==
    ASSUME TypeInv, NEW u \in Users, NEW level \in RankLevel, NEW bonus \in Nat
    PROVE  /\ AtLevel(u, level, bonus) \in Record
           /\ AtLevel(u, level, bonus) # NoRecord
           /\ AtLevel(u, level, bonus).level = level
  <1>1. CASE Has(u)
    <2>1. record[u] \in Record
      BY <1>1 DEF TypeInv, TypeOK, Has
    <2>2. record[u].bonusEarned + bonus \in Nat
      BY <2>1 DEF Record
    <2>3. AtLevel(u, level, bonus) = [record[u] EXCEPT !.level = level,
                                                      !.bonusEarned = record[u].bonusEarned + bonus]
      BY <1>1 DEF AtLevel
    <2>4. AtLevel(u, level, bonus) \in Record /\ AtLevel(u, level, bonus).level = level
      BY <2>1, <2>2, <2>3 DEF Record
    <2> QED
      BY <2>4, Levels DEF NoRecord
  <1>2. CASE ~Has(u)
    BY <1>2, Levels DEF AtLevel, Record, NoRecord
  <1> QED
    BY <1>1, <1>2

\* The rows of a user's cycles.
CyclesTyped(rows) == DOMAIN rows \subseteq Nat /\ rows \in [DOMAIN rows -> CycleRow]

\* One more row.
LEMMA MoreCycles ==
    ASSUME NEW rows, CyclesTyped(rows), NEW cycle \in Nat, NEW row \in CycleRow
    PROVE  CyclesTyped(WithCycle(rows, cycle, row))
  BY DEF CyclesTyped, WithCycle

\* The cycles of one user replaced.
LEMMA CyclesReplaced ==
    ASSUME TypeInv, NEW u \in Users, NEW rows, CyclesTyped(rows),
           cycles' = [cycles EXCEPT ![u] = rows]
    PROVE  DOMAIN cycles' = Users /\ \A v \in Users : CyclesTyped(cycles'[v])
  BY DEF TypeInv, TypeOK, CyclesTyped

\* A step of one run that leaves it well formed and deletes no record.
LEMMA RunMoves ==
    ASSUME TypeInv, NEW r \in Runs, NEW x \in RunState, run' = [run EXCEPT ![r] = x],
           \A u : Has(u) => Has(u)',
           x.pc \in {"next"} \cup Credits => \A e \in x.todo : Has(e[1]),
           x.pc \in Credits => Has(x.user)
    PROVE  run' \in [Runs -> RunState] /\ (\A s \in Runs : Recorded(s))'
  BY DEF TypeInv, TypeOK, Recorded, RunState

\* Likewise a step that ends in a call of EvaluateSponsor.
LEMMA SponsorMoves ==
    ASSUME TypeInv, NEW r \in Runs, NEW u \in Users, EvaluateSponsor(r, u), UNCHANGED record
    PROVE  /\ run' \in [Runs -> RunState]
           /\ (\A s \in Runs : Recorded(s))'
           /\ overlapped' \subseteq Users
  <1>0. \A v : Has(v) => Has(v)'
    BY DEF Has
  <1>1. CASE Sponsor[u] = NoUser
    <2>1. Idle \in RunState /\ Idle.pc = "idle"
      BY DEF Idle, RunState
    <2> QED
      BY <1>0, <1>1, <2>1, RunMoves DEF EvaluateSponsor, End, TypeInv, TypeOK, Credits
  <1>2. CASE Sponsor[u] # NoUser
    <2>1. Sponsor[u] \in Users
      BY <1>2, SponsorAssumption
    <2>2. Evaluate(Sponsor[u]) \in RunState /\ Evaluate(Sponsor[u]).pc = "read"
      BY <2>1 DEF Evaluate, RunState, Counting, RankLevel
    <2> QED
      BY <1>0, <1>2, <2>1, <2>2, RunMoves
      DEF EvaluateSponsor, TypeInv, TypeOK, Credits, WithOverlap
  <1> QED
    BY <1>1, <1>2

\* A step that changes one run and nothing else.
LEMMA OnlyRunMoves ==
    ASSUME TypeInv, NEW r \in Runs, NEW x \in RunState, run' = [run EXCEPT ![r] = x],
           x.pc \in {"next"} \cup Credits => \A e \in x.todo : Has(e[1]),
           x.pc \in Credits => Has(x.user),
           UNCHANGED <<deposited, rank, record, history, bonuses, distribution, counters, observed>>
    PROVE  TypeInv'
  <1>1. \A u : Has(u) => Has(u)'
    BY DEF Has
  <1>2. run' \in [Runs -> RunState] /\ (\A s \in Runs : Recorded(s))'
    BY <1>1, RunMoves
  <1> QED
    BY <1>2 DEF TypeInv, TypeOK, RunState, bonuses, distribution, counters, observed

\* Every call keeps types.
LEMMA CalledTypeInv ==
    ASSUME TypeInv, NEW r \in Runs, Called(r)
    PROVE  TypeInv'
  <1>0. \A u : UNCHANGED record => (Has(u) => Has(u)')
    BY DEF Has
  <1>e. \A u \in Users : Evaluate(u) \in RunState /\ Evaluate(u).pc = "read"
    BY DEF Evaluate, RunState, Counting, RankLevel
  <1>o. \A u \in Users : WithOverlap(u) \subseteq Users
    BY DEF WithOverlap, TypeInv, TypeOK
  <1>1. ASSUME NEW u \in Users, CallEvaluate(r, u) PROVE TypeInv'
    <2>1. run' \in [Runs -> RunState] /\ (\A s \in Runs : Recorded(s))'
      BY <1>0, <1>1, <1>e, RunMoves DEF CallEvaluate, Credits
    <2> QED
      BY <1>1, <1>o, <2>1, BoundAssumption
      DEF CallEvaluate, Call, TypeInv, TypeOK, RunState, bonuses, distribution
  <1>2. ASSUME NEW u \in Users, NEW amount \in Amounts, ApproveDeposit(r, u, amount)
        PROVE  TypeInv'
    <2>1. run' \in [Runs -> RunState] /\ (\A s \in Runs : Recorded(s))'
      BY <1>0, <1>2, <1>e, RunMoves DEF ApproveDeposit, Credits
    <2>2. deposited' \in [Users -> Nat]
      BY <1>2, AmountAssumption DEF ApproveDeposit, TypeInv, TypeOK
    <2> QED
      BY <1>2, <1>o, <2>1, <2>2, BoundAssumption
      DEF ApproveDeposit, Call, TypeInv, TypeOK, RunState, bonuses, distribution
  <1>3. ASSUME NEW u \in Users, NEW level \in RankLevel, CallCorrect(r, u, level)
        PROVE  TypeInv'
    <2> DEFINE x == [pc |-> "correct", user |-> u, level |-> level]
    <2>1. x \in RunState /\ x.pc = "correct"
      BY DEF RunState, Correcting
    <2>2. run' \in [Runs -> RunState] /\ (\A s \in Runs : Recorded(s))'
      BY <1>0, <1>3, <2>1, RunMoves DEF CallCorrect, Credits
    <2> QED
      BY <1>3, <1>o, <2>2, BoundAssumption
      DEF CallCorrect, Call, TypeInv, TypeOK, RunState, bonuses, distribution
  <1>4. CASE CallDistribute(r)
    <2> DEFINE x == [pc |-> "ranks", todo |-> {}]
    <2>1. x \in RunState /\ x.pc = "ranks"
      BY DEF RunState, Distributing
    <2>2. run' \in [Runs -> RunState] /\ (\A s \in Runs : Recorded(s))'
      BY <1>0, <1>4, <2>1, RunMoves DEF CallDistribute, Credits
    <2> QED
      BY <1>4, <2>2, BoundAssumption
      DEF CallDistribute, Call, TypeInv, TypeOK, RunState, bonuses, distribution, observed
  <1> QED
    BY <1>1, <1>2, <1>3, <1>4 DEF Called

\* Every step of an evaluation keeps types.
LEMMA EvaluationTypeInv ==
    ASSUME TypeInv, NEW r \in Runs,
           \/ ReadUser(r) \/ CountQualifying(r) \/ CountLv1(r)
           \/ \E target \in RANK_ORDER : CountTeam(r, target)
           \/ NotPromoted(r) \/ UpdateUser(r) \/ FindHistory(r) \/ UpsertUserRank(r)
           \/ CreateRankHistory(r) \/ CreditBonus(r) \/ BonusEntry(r)
    PROVE  TypeInv'
  <1>0. run \in [Runs -> RunState] /\ run[r] \in RunState
    BY DEF TypeInv, TypeOK, RunState
  <1>h. \A u : UNCHANGED record => (Has(u) => Has(u)')
    BY DEF Has
  <1>c. At(r, "read") \/ At(r, "qualifying") \/ At(r, "lv1") \/ At(r, "team")
            => run[r] \in Counting /\ run[r].user \in Users
    BY <1>0, Shapes DEF At, Counting
  <1>p. At(r, "update") \/ At(r, "find") \/ At(r, "upsert") \/ At(r, "history")
            \/ At(r, "bonus") \/ At(r, "entry")
            => /\ run[r] \in Promoting /\ run[r].user \in Users
               /\ run[r].target \in RANK_ORDER /\ Bonus(r) \in Nat
    BY <1>0, Shapes, Levels DEF At, Promoting, Bonus
  <1>1. CASE ReadUser(r)
    <2> DEFINE x == [run[r] EXCEPT !.pc = "qualifying", !.current = rank[run[r].user]]
    <2>1. x \in RunState /\ x.pc = "qualifying"
      BY <1>1, <1>c DEF ReadUser, RunState, Counting, TypeInv, TypeOK
    <2>2. run' = [run EXCEPT ![r] = x]
      BY <1>0, <1>1 DEF ReadUser
    <2> QED
      BY <1>1, <2>1, <2>2, OnlyRunMoves DEF ReadUser, Credits
  <1>2. CASE CountQualifying(r)
    <2> DEFINE x == [run[r] EXCEPT !.pc = "lv1", !.qualifying = QualifyingDirects(run[r].user)]
    <2>1. x \in RunState /\ x.pc = "lv1"
      BY <1>2, <1>c, Counts DEF CountQualifying, RunState, Counting
    <2>2. run' = [run EXCEPT ![r] = x]
      BY <1>0, <1>2 DEF CountQualifying
    <2> QED
      BY <1>2, <2>1, <2>2, OnlyRunMoves DEF CountQualifying, Credits
  <1>3. CASE CountLv1(r)
    <2> DEFINE x == [run[r] EXCEPT !.pc = "team", !.lv1 = DirectLv1s(run[r].user)]
    <2>1. x \in RunState /\ x.pc = "team"
      BY <1>3, <1>c, Counts DEF CountLv1, RunState, Counting
    <2>2. run' = [run EXCEPT ![r] = x]
      BY <1>0, <1>3 DEF CountLv1
    <2> QED
      BY <1>3, <2>1, <2>2, OnlyRunMoves DEF CountLv1, Credits
  <1>4. ASSUME NEW target \in RANK_ORDER, CountTeam(r, target) PROVE TypeInv'
    <2> DEFINE x == [pc |-> "update", user |-> run[r].user, target |-> target,
                     alreadyAchieved |-> FALSE]
    <2>1. x \in RunState /\ x.pc = "update"
      BY <1>4, <1>c DEF CountTeam, RunState, Promoting
    <2>2. run' = [run EXCEPT ![r] = x]
      BY <1>4 DEF CountTeam, Promote
    <2> QED
      BY <1>4, <2>1, <2>2, OnlyRunMoves DEF CountTeam, Credits
  <1>5. CASE NotPromoted(r)
    <2>1. /\ run' \in [Runs -> RunState]
          /\ (\A s \in Runs : Recorded(s))'
          /\ overlapped' \subseteq Users
      BY <1>5, <1>c, SponsorMoves DEF NotPromoted
    <2> QED
      BY <1>5, <2>1 DEF NotPromoted, TypeInv, TypeOK, RunState, bonuses, distribution, counters
  <1>6. CASE UpdateUser(r)
    <2> DEFINE x == [run[r] EXCEPT !.pc = "find"]
    <2>1. x \in RunState /\ x.pc = "find"
      BY <1>6, <1>p DEF UpdateUser, RunState, Promoting
    <2>2. run' = [run EXCEPT ![r] = x]
      BY <1>0, <1>6 DEF UpdateUser, Continue
    <2>3. run' \in [Runs -> RunState] /\ (\A s \in Runs : Recorded(s))'
      BY <1>6, <1>h, <2>1, <2>2, RunMoves DEF UpdateUser, Credits
    <2>4. rank' \in [Users -> RankLevel]
      BY <1>6, <1>p DEF UpdateUser, TypeInv, TypeOK, RankLevel
    <2> QED
      BY <1>6, <2>3, <2>4
      DEF UpdateUser, TypeInv, TypeOK, RunState, bonuses, distribution, counters, observed
  <1>7. CASE FindHistory(r)
    <2>0. PICK b \in BOOLEAN : b = (run[r].target \in history[run[r].user])
      <3> DEFINE P == run[r].target \in history[run[r].user]
      <3>1. CASE P
        <4>1. TRUE = P
          BY <3>1
        <4> QED
          BY <4>1
      <3>2. CASE ~P
        <4>1. FALSE = P
          BY <3>2
        <4> QED
          BY <4>1
      <3> QED
        BY <3>1, <3>2
    <2> DEFINE x == [run[r] EXCEPT !.pc = "upsert", !.alreadyAchieved = b]
    <2>1. x \in RunState /\ x.pc = "upsert"
      BY <1>7, <1>p DEF FindHistory, RunState, Promoting
    <2>2. run' = [run EXCEPT ![r] = x]
      BY <1>0, <1>7, <2>0 DEF FindHistory
    <2> QED
      BY <1>7, <2>1, <2>2, OnlyRunMoves DEF FindHistory, Credits
  <1>8. CASE UpsertUserRank(r)
    <2> DEFINE x == [run[r] EXCEPT !.pc = "history"]
    <2>1. x \in RunState /\ x.pc = "history"
      BY <1>8, <1>p DEF UpsertUserRank, RunState, Promoting
    <2>2. run' = [run EXCEPT ![r] = x]
      BY <1>0, <1>8 DEF UpsertUserRank, Continue
    <2> DEFINE row == AtLevel(run[r].user, run[r].target, Bonus(r))
    <2>r. row \in Record /\ row # NoRecord
      BY <1>8, <1>p, Rows DEF UpsertUserRank, RankLevel
    <2>s. record' = [record EXCEPT ![run[r].user] = row]
      BY <1>8 DEF UpsertUserRank
    <2>3. \A u : Has(u) => Has(u)'
      BY <2>r, <2>s, <1>8, <1>p DEF UpsertUserRank, TypeInv, TypeOK, Has
    <2>4. run' \in [Runs -> RunState] /\ (\A s \in Runs : Recorded(s))'
      BY <2>1, <2>2, <2>3, RunMoves DEF Credits
    <2>5. record' \in [Users -> Record \cup {NoRecord}]
      BY <2>r, <2>s DEF TypeInv, TypeOK
    <2> QED
      BY <1>8, <2>4, <2>5
      DEF UpsertUserRank, TypeInv, TypeOK, RunState, bonuses, distribution, counters, observed
  <1>9. CASE CreateRankHistory(r)
    <2>1. /\ run' \in [Runs -> RunState]
          /\ (\A s \in Runs : Recorded(s))'
          /\ overlapped' \subseteq Users
      <3>1. CASE Bonus(r) > 0
        <4> DEFINE x == [run[r] EXCEPT !.pc = "bonus"]
        <4>1. x \in RunState /\ x.pc = "bonus"
          BY <1>9, <1>p DEF CreateRankHistory, RunState, Promoting
        <4>2. run' = [run EXCEPT ![r] = x]
          BY <1>0, <1>9, <3>1 DEF CreateRankHistory, Continue
        <4> QED
          BY <1>9, <1>h, <3>1, <4>1, <4>2, RunMoves
          DEF CreateRankHistory, Credits, TypeInv, TypeOK
      <3>2. CASE ~(Bonus(r) > 0)
        BY <1>9, <1>p, <3>2, SponsorMoves DEF CreateRankHistory
      <3> QED
        BY <3>1, <3>2
    <2>2. history' \in [Users -> SUBSET RankLevel]
      BY <1>9, <1>p DEF CreateRankHistory, TypeInv, TypeOK, RankLevel
    <2> QED
      BY <1>9, <2>1, <2>2
      DEF CreateRankHistory, TypeInv, TypeOK, RunState, bonuses, distribution, counters
  <1>10. CASE CreditBonus(r)
    <2> DEFINE x == [run[r] EXCEPT !.pc = "entry"]
    <2>1. x \in RunState /\ x.pc = "entry"
      BY <1>10, <1>p DEF CreditBonus, RunState, Promoting
    <2>2. run' = [run EXCEPT ![r] = x]
      BY <1>0, <1>10 DEF CreditBonus, Continue
    <2>3. run' \in [Runs -> RunState] /\ (\A s \in Runs : Recorded(s))'
      BY <1>10, <1>h, <2>1, <2>2, RunMoves DEF CreditBonus, Credits
    <2>4. bonusWallet' \in [Users -> Nat]
      BY <1>10, <1>p DEF CreditBonus, TypeInv, TypeOK
    <2>5. paid' \in [Users -> [RANK_ORDER -> Nat]]
      BY <1>10, <1>p DEF CreditBonus, TypeInv, TypeOK
    <2> QED
      BY <1>10, <2>3, <2>4, <2>5
      DEF CreditBonus, TypeInv, TypeOK, RunState, distribution, counters, observed
  <1>11. CASE BonusEntry(r)
    <2>1. /\ run' \in [Runs -> RunState]
          /\ (\A s \in Runs : Recorded(s))'
          /\ overlapped' \subseteq Users
      BY <1>11, <1>p, SponsorMoves DEF BonusEntry
    <2> QED
      BY <1>11, <2>1 DEF BonusEntry, TypeInv, TypeOK, RunState, bonuses, distribution, counters
  <1> QED
    BY <1>1, <1>2, <1>3, <1>4, <1>5, <1>6, <1>7, <1>8, <1>9, <1>10, <1>11

\* Every step of a correction keeps types.
LEMMA CorrectionTypeInv ==
    ASSUME TypeInv, NEW r \in Runs, ReadRank(r) \/ SetRank(r)
    PROVE  TypeInv'
  <1>0. run \in [Runs -> RunState] /\ run[r] \in RunState
    BY DEF TypeInv, TypeOK, RunState
  <1>c. At(r, "correct") \/ At(r, "set")
            => run[r] \in Correcting /\ run[r].user \in Users /\ run[r].level \in RankLevel
    BY <1>0, Shapes DEF At, Correcting
  <1>i. Idle \in RunState /\ Idle.pc = "idle"
    BY DEF Idle, RunState
  <1>1. CASE ReadRank(r)
    <2>1. CASE rank[run[r].user] = run[r].level
      BY <1>1, <1>i, <2>1, OnlyRunMoves DEF ReadRank, End, Credits
    <2>2. CASE rank[run[r].user] # run[r].level
      <3> DEFINE x == [run[r] EXCEPT !.pc = "set"]
      <3>1. x \in RunState /\ x.pc = "set"
        BY <1>1, <1>c DEF ReadRank, RunState, Correcting
      <3>2. run' = [run EXCEPT ![r] = x]
        BY <1>0, <1>1, <2>2 DEF ReadRank, Continue
      <3> QED
        BY <1>1, <3>1, <3>2, OnlyRunMoves DEF ReadRank, Credits
    <2> QED
      BY <2>1, <2>2
  <1>2. CASE SetRank(r)
    <2> DEFINE u == run[r].user
               level == run[r].level
               row == AtLevel(u, level, 0)
    <2>1. row \in Record /\ row # NoRecord
      BY <1>2, <1>c, Rows DEF SetRank
    <2>2. \A v : Has(v) => Has(v)'
      <3>1. CASE ~Has(u) /\ level = NONE
        BY <1>2, <1>c, <3>1 DEF SetRank, TypeInv, TypeOK, Has
      <3>2. CASE ~(~Has(u) /\ level = NONE)
        BY <1>2, <1>c, <2>1, <3>2 DEF SetRank, TypeInv, TypeOK, Has
      <3> QED
        BY <3>1, <3>2
    <2>3. run' \in [Runs -> RunState] /\ (\A s \in Runs : Recorded(s))'
      BY <1>2, <1>i, <2>2, RunMoves DEF SetRank, End, Credits
    <2>4. record' \in [Users -> Record \cup {NoRecord}]
      BY <1>2, <2>1 DEF SetRank, TypeInv, TypeOK
    <2>5. rank' \in [Users -> RankLevel] /\ history' \in [Users -> SUBSET RankLevel]
      BY <1>2, <1>c DEF SetRank, TypeInv, TypeOK
    <2>6. corrected' \subseteq Users
      BY <1>2, <1>c DEF SetRank, TypeInv, TypeOK
    <2> QED
      BY <1>2, <2>3, <2>4, <2>5, <2>6
      DEF SetRank, TypeInv, TypeOK, RunState, bonuses, distribution, counters
  <1> QED
    BY <1>1, <1>2

\* Every step of a distribution keeps types.
LEMMA DistributionTypeInv ==
    ASSUME TypeInv, NEW r \in Runs,
           \/ ReadRanks(r) \/ Distributed(r)
           \/ \E u \in Users, level \in RankLevel : NextRank(r, u, level)
           \/ FindLatest(r) \/ CreateCycle(r) \/ CycleExists(r)
           \/ CreditPool(r) \/ PoolEntry(r) \/ UpdateEarned(r) \/ MarkAsCredited(r)
    PROVE  TypeInv'
  <1>0. run \in [Runs -> RunState] /\ run[r] \in RunState
    BY DEF TypeInv, TypeOK, RunState
  <1>h. \A u : UNCHANGED record => (Has(u) => Has(u)')
    BY DEF Has
  <1>d. At(r, "ranks") \/ At(r, "next") => run[r] \in Distributing
    BY <1>0, Shapes DEF At
  <1>n. At(r, "next") => \A e \in run[r].todo : Has(e[1])
    BY DEF At, TypeInv, Recorded
  <1>c. run[r].pc \in Credits => /\ run[r] \in Crediting /\ run[r].user \in Users
                                 /\ run[r].level \in RankLevel /\ run[r].cycle \in Nat
                                 /\ Has(run[r].user)
                                 /\ \A e \in run[r].todo : Has(e[1])
    BY <1>0, Shapes DEF Crediting, TypeInv, Recorded
  <1>p. At(r, "latest") \/ At(r, "create") \/ At(r, "pool") \/ At(r, "poolEntry")
            \/ At(r, "earned") \/ At(r, "mark") => run[r].pc \in Credits
    BY DEF At, Credits
  <1>x. ASSUME run[r].pc \in Credits, NEW pc \in Credits
        PROVE  LET x == [run[r] EXCEPT !.pc = pc]
               IN  x \in RunState /\ x.pc = pc /\ x.user = run[r].user /\ x.todo = run[r].todo
    BY <1>c, <1>x DEF RunState, Crediting, Credits
  <1>k. ASSUME run[r].pc \in Credits
        PROVE  LET x == [pc |-> "next", todo |-> run[r].todo]
               IN  x \in RunState /\ x.pc = "next" /\ x.todo = run[r].todo
    BY <1>c, <1>k DEF RunState, Crediting, Distributing
  <1>1. CASE ReadRanks(r)
    <2> DEFINE t == {<<u, record[u].level>> : u \in {v \in Users : Has(v)}}
               x == [pc |-> "next", todo |-> t]
    <2>1. \A v \in Users : Has(v) => record[v].level \in RankLevel
      BY DEF TypeInv, TypeOK, Has, Record
    <2>2. t \subseteq Users \X RankLevel
      BY <2>1
    <2>3. \A e \in t : Has(e[1])
      OBVIOUS
    <2>4. x \in RunState /\ x.pc = "next" /\ x.todo = t
      BY <2>2 DEF RunState, Distributing
    <2> QED
      BY <1>1, <2>3, <2>4, OnlyRunMoves DEF ReadRanks, Credits
  <1>2. CASE Distributed(r)
    <2>1. Idle \in RunState /\ Idle.pc = "idle"
      BY DEF Idle, RunState
    <2> QED
      BY <1>2, <2>1, OnlyRunMoves DEF Distributed, End, Credits
  <1>3. ASSUME NEW u \in Users, NEW level \in RankLevel, NextRank(r, u, level) PROVE TypeInv'
    <2> DEFINE rest == run[r].todo \ {<<u, level>>}
    <2>0. rest \subseteq Users \X RankLevel /\ (\A e \in rest : Has(e[1])) /\ Has(u)
      BY <1>3, <1>d, <1>n DEF NextRank, Distributing
    <2>1. CASE CycleBonus(level) <= 0
      <3> DEFINE x == [pc |-> "next", todo |-> rest]
      <3>1. x \in RunState /\ x.pc = "next" /\ x.todo = rest
        BY <2>0 DEF RunState, Distributing
      <3>2. run' = [run EXCEPT ![r] = x]
        BY <1>3, <2>1 DEF NextRank
      <3> QED
        BY <1>3, <2>0, <3>1, <3>2, OnlyRunMoves DEF NextRank, Credits
    <2>2. CASE ~(CycleBonus(level) <= 0)
      <3> DEFINE x == [pc |-> "latest", todo |-> rest, user |-> u, level |-> level, cycle |-> 0]
      <3>1. x \in RunState /\ x.pc = "latest" /\ x.todo = rest /\ x.user = u
        BY <2>0 DEF RunState, Crediting
      <3>2. run' = [run EXCEPT ![r] = x]
        BY <1>3, <2>2 DEF NextRank
      <3> QED
        BY <1>3, <2>0, <3>1, <3>2, OnlyRunMoves DEF NextRank, Credits
    <2> QED
      BY <2>1, <2>2
  <1>4. CASE FindLatest(r)
    <2>1. PICK latest \in CycleNumbers(run[r].user) :
              run' = [run EXCEPT ![r].pc = "create", ![r].cycle = latest + 1]
      BY <1>4 DEF FindLatest
    <2>u. run[r].pc \in Credits
      BY <1>4, <1>p DEF FindLatest
    <2>2. latest + 1 \in Nat
      <3>1. DOMAIN cycles[run[r].user] \subseteq Nat
        BY <1>c, <2>u DEF TypeInv, TypeOK
      <3> QED
        BY <2>1, <3>1 DEF CycleNumbers
    <2> DEFINE x == [run[r] EXCEPT !.pc = "create", !.cycle = latest + 1]
    <2>3. x \in RunState /\ x.pc = "create" /\ x.user = run[r].user /\ x.todo = run[r].todo
      BY <1>c, <2>u, <2>2 DEF RunState, Crediting
    <2>4. run' = [run EXCEPT ![r] = x]
      BY <1>0, <2>1
    <2> QED
      BY <1>4, <1>c, <1>p, <2>3, <2>4, OnlyRunMoves DEF FindLatest
  <1>5. CASE CreateCycle(r)
    <2> DEFINE u == run[r].user
               x == [run[r] EXCEPT !.pc = "pool"]
    <2>1. x \in RunState /\ x.pc = "pool" /\ x.user = u /\ x.todo = run[r].todo
      BY <1>5, <1>p, <1>x DEF CreateCycle, Credits
    <2>2. run' = [run EXCEPT ![r] = x]
      BY <1>0, <1>5 DEF CreateCycle, Continue
    <2>3. run' \in [Runs -> RunState] /\ (\A s \in Runs : Recorded(s))'
      BY <1>5, <1>c, <1>h, <1>p, <2>1, <2>2, RunMoves DEF CreateCycle
    <2> DEFINE row == [status |-> "PENDING", amount |-> CycleBonus(run[r].level)]
               rows == WithCycle(cycles[u], run[r].cycle, row)
    <2>4. cycles' = [cycles EXCEPT ![u] = rows]
      BY <1>5 DEF CreateCycle
    <2>5. row \in CycleRow
      BY <1>5, <1>c, <1>p, Levels DEF CreateCycle, CycleRow
    <2>6. CyclesTyped(rows)
      <3>1. CyclesTyped(cycles[u])
        BY <1>5, <1>c, <1>p DEF CreateCycle, TypeInv, TypeOK, CyclesTyped
      <3> HIDE DEF row
      <3> QED
        BY <1>5, <1>c, <1>p, <2>5, <3>1, MoreCycles DEF CreateCycle
    <2>7. DOMAIN cycles' = Users /\ \A v \in Users : CyclesTyped(cycles'[v])
      <3> HIDE DEF rows
      <3> QED
        BY <1>5, <1>c, <1>p, <2>4, <2>6, CyclesReplaced DEF CreateCycle
    <2> QED
      BY <1>5, <2>3, <2>7
      DEF CreateCycle, TypeInv, TypeOK, RunState, CyclesTyped, bonuses, counters, observed
  <1>6. CASE CycleExists(r)
    BY <1>6, <1>c, <1>k, <1>p, OnlyRunMoves DEF CycleExists, Skip, Credits
  <1>7. CASE CreditPool(r)
    <2> DEFINE u == run[r].user
               x == [run[r] EXCEPT !.pc = "poolEntry"]
    <2>1. x \in RunState /\ x.pc = "poolEntry" /\ x.user = u /\ x.todo = run[r].todo
      BY <1>7, <1>p, <1>x DEF CreditPool, Credits
    <2>2. run' = [run EXCEPT ![r] = x]
      BY <1>0, <1>7 DEF CreditPool, Continue
    <2>3. run' \in [Runs -> RunState] /\ (\A s \in Runs : Recorded(s))'
      BY <1>7, <1>c, <1>h, <1>p, <2>1, <2>2, RunMoves DEF CreditPool
    <2>4. poolWallet' \in [Users -> Nat]
      <3>1. CycleBonus(run[r].level) \in Nat
        BY <1>7, <1>c, <1>p, Levels DEF CreditPool
      <3> QED
        BY <1>7, <1>c, <1>p, <3>1 DEF CreditPool, TypeInv, TypeOK
    <2> QED
      BY <1>7, <2>3, <2>4 DEF CreditPool, TypeInv, TypeOK, RunState, bonuses, counters, observed
  <1>8. CASE PoolEntry(r)
    <2> DEFINE x == [run[r] EXCEPT !.pc = "earned"]
    <2>1. x \in RunState /\ x.pc = "earned" /\ x.user = run[r].user /\ x.todo = run[r].todo
      BY <1>8, <1>p, <1>x DEF PoolEntry, Credits
    <2>2. run' = [run EXCEPT ![r] = x]
      BY <1>0, <1>8 DEF PoolEntry, Continue
    <2> QED
      BY <1>8, <1>c, <1>p, <2>1, <2>2, OnlyRunMoves DEF PoolEntry
  <1>9. CASE UpdateEarned(r)
    <2> DEFINE u == run[r].user
               x == [run[r] EXCEPT !.pc = "mark"]
               earned == record[u].cycleEarned + CycleBonus(run[r].level)
               row == [record[u] EXCEPT !.cycleEarned = earned]
    <2>0. run[r].pc \in Credits
      BY <1>9, <1>p DEF UpdateEarned
    <2>1. x \in RunState /\ x.pc = "mark" /\ x.user = u /\ x.todo = run[r].todo
      BY <2>0, <1>x DEF Credits
    <2>2. run' = [run EXCEPT ![r] = x]
      BY <1>0, <1>9 DEF UpdateEarned, Continue
    <2>3. record[u] \in Record
      BY <1>c, <2>0 DEF TypeInv, TypeOK, Has
    <2>4. earned \in Nat
      <3>1. run[r].level \in RankLevel /\ record[u].cycleEarned \in Nat
        BY <1>c, <2>0, <2>3 DEF Record, Crediting
      <3>2. CycleBonus(run[r].level) \in Nat
        BY <3>1, Levels
      <3> QED
        BY <3>1, <3>2
    <2>5. record' = [record EXCEPT ![u] = row]
      BY <1>9, <1>c, <2>0 DEF UpdateEarned, TypeInv, TypeOK
    <2>6. row \in Record /\ row # NoRecord
      <3> HIDE DEF earned
      <3>1. row \in Record
        BY <2>3, <2>4 DEF Record
      <3>2. row.level \in RankLevel
        BY <3>1 DEF Record
      <3> QED
        BY <3>1, <3>2, Levels DEF NoRecord
    <2>7. \A v : Has(v) => Has(v)'
      BY <1>c, <2>0, <2>5, <2>6 DEF Has, TypeInv, TypeOK
    <2>8. run' \in [Runs -> RunState] /\ (\A s \in Runs : Recorded(s))'
      BY <1>c, <2>0, <2>1, <2>2, <2>7, RunMoves
    <2>9. record' \in [Users -> Record \cup {NoRecord}]
      BY <2>5, <2>6 DEF TypeInv, TypeOK
    <2> QED
      BY <1>9, <2>8, <2>9
      DEF UpdateEarned, TypeInv, TypeOK, RunState, bonuses, distribution, counters, observed
  <1>10. CASE MarkAsCredited(r)
    <2> DEFINE u == run[r].user
               c == run[r].cycle
               rows == [cycles[u] EXCEPT ![c].status = "CREDITED"]
    <2>0. run[r].pc \in Credits
      BY <1>10, <1>p DEF MarkAsCredited
    <2>1. run' \in [Runs -> RunState] /\ (\A s \in Runs : Recorded(s))'
      BY <1>10, <1>c, <1>h, <1>k, <2>0, RunMoves DEF MarkAsCredited, Skip, Credits
    <2>2. cycles' = [cycles EXCEPT ![u] = rows]
      BY <1>10, <1>c, <2>0 DEF MarkAsCredited, TypeInv, TypeOK
    <2>3. CyclesTyped(rows)
      <3>1. CyclesTyped(cycles[u])
        BY <1>c, <2>0 DEF TypeInv, TypeOK, CyclesTyped
      <3> QED
        BY <3>1 DEF CyclesTyped, CycleRow
    <2>4. DOMAIN cycles' = Users /\ \A v \in Users : CyclesTyped(cycles'[v])
      <3> HIDE DEF rows
      <3> QED
        BY <1>c, <2>0, <2>2, <2>3, CyclesReplaced
    <2> QED
      BY <1>10, <2>1, <2>4
      DEF MarkAsCredited, TypeInv, TypeOK, RunState, CyclesTyped, bonuses, counters, observed
  <1> QED
    BY <1>1, <1>2, <1>3, <1>4, <1>5, <1>6, <1>7, <1>8, <1>9, <1>10

\* A failure keeps types.
LEMMA FailTypeInv ==
    ASSUME TypeInv, NEW r \in Runs, Fail(r)
    PROVE  TypeInv'
  <1>0. run \in [Runs -> RunState] /\ run[r] \in RunState
    BY DEF TypeInv, TypeOK, RunState
  <1>1. interrupted' \subseteq Users /\ failures' \in 0..MaxFailures
    <2>1. Midway(r) \subseteq Users
      BY <1>0, Shapes DEF Midway, Evaluates, Credits, Crediting, Promoting
    <2> QED
      BY <2>1, BoundAssumption DEF Fail, Failing, TypeInv, TypeOK
  <1>2. run' \in [Runs -> RunState] /\ (\A s \in Runs : Recorded(s))'
    <2>h. \A u : Has(u) => Has(u)'
      BY DEF Fail, Has
    <2>1. CASE run[r].pc \in Credits
      <3> DEFINE x == [pc |-> "next", todo |-> run[r].todo]
      <3>1. run[r] \in Crediting /\ \A e \in run[r].todo : Has(e[1])
        BY <1>0, <2>1, Shapes DEF TypeInv, Recorded
      <3>2. x \in RunState /\ x.pc = "next" /\ x.todo = run[r].todo
        BY <3>1 DEF RunState, Crediting, Distributing
      <3>3. run' = [run EXCEPT ![r] = x]
        BY <2>1 DEF Fail, Skip
      <3> QED
        BY <2>h, <3>1, <3>2, <3>3, RunMoves DEF Credits
    <2>2. CASE run[r].pc \notin Credits
      <3>1. Idle \in RunState /\ Idle.pc = "idle"
        BY DEF Idle, RunState
      <3> QED
        BY <2>h, <2>2, <3>1, RunMoves DEF Fail, End, Credits
    <2> QED
      BY <2>1, <2>2
  <1> QED
    BY <1>1, <1>2 DEF Fail, TypeInv, TypeOK, RunState, bonuses, distribution

\* A restart keeps types.
LEMMA CrashTypeInv ==
    ASSUME TypeInv, Crash
    PROVE  TypeInv'
  <1>1. \A r \in Runs : Midway(r) \subseteq Users
    BY Shapes DEF Midway, Evaluates, Credits, Crediting, Promoting, TypeInv, TypeOK, RunState
  <1>2. interrupted' \subseteq Users /\ failures' \in 0..MaxFailures
    BY <1>1, BoundAssumption DEF Crash, Failing, TypeInv, TypeOK
  <1>3. run' \in [Runs -> RunState] /\ (\A s \in Runs : Recorded(s))'
    BY DEF Crash, Recorded, RunState, Idle, Credits
  <1> QED
    BY <1>2, <1>3 DEF Crash, TypeInv, TypeOK, RunState, bonuses, distribution

\* TypeInv is inductive.
LEMMA NextTypeInv ==
    ASSUME TypeInv, [Next]_vars
    PROVE  TypeInv'
  <1>1. ASSUME NEW r \in Runs, Step(r) PROVE TypeInv'
    BY <1>1, EvaluationTypeInv, CorrectionTypeInv, DistributionTypeInv DEF Step
  <1>2. CASE UNCHANGED vars
    BY <1>2 DEF vars, TypeInv, TypeOK, Recorded, Has, bonuses, distribution, counters, observed
  <1> QED
    BY <1>1, <1>2, CalledTypeInv, FailTypeInv, CrashTypeInv DEF Next

\* Every reachable state of RankBonus is well typed; so every distribution works
\* on rank records that exist.
THEOREM TypeCorrect == Spec => []TypeOK
  <1>1. Spec => []TypeInv
    BY InitTypeInv, NextTypeInv, PTL DEF Spec
  <1>2. TypeInv => TypeOK
    BY DEF TypeInv
  <1> QED
    BY <1>1, <1>2, PTL

(* ---------------------------------------------------------------------- *)
(* What a step may do to a run and to the users                           *)

Ranking == Evaluates \cup {"correct", "set"}

\* Run r goes on as x: if x changes another user's rank than r did, no run
\* changes that one's, or the user is among those overlapped.
Moved(r, x) ==
    /\ x \in RunState
    /\ run' = [run EXCEPT ![r] = x]
    /\ overlapped \subseteq overlapped'
    /\ \A u \in Users \ overlapped' :
           x.pc \in Ranking /\ x.user = u => Ranks(r, u) \/ \A s \in Runs : ~Ranks(s, u)

\* Where a run is between promotions.
Calm == {"idle", "read", "correct", "set", "ranks", "next"} \cup Credits

\* No rank, history, payment or level of a record of u changes.
Same(u) ==
    /\ rank'[u] = rank[u]
    /\ history'[u] = history[u]
    /\ paid'[u] = paid[u]
    /\ Has(u)' <=> Has(u)
    /\ Has(u) => record'[u].level = record[u].level

Still == (\A u \in Users : Same(u)) /\ interrupted \subseteq interrupted'

\* The evaluation of the sponsor.
LEMMA SponsorMoved ==
    ASSUME TypeInv, NEW r \in Runs, NEW u \in Users, EvaluateSponsor(r, u)
    PROVE  \E x : Moved(r, x) /\ x.pc \in {"idle", "read"}
  <1>1. CASE Sponsor[u] = NoUser
    <2>1. Idle \in RunState /\ Idle.pc = "idle"
      BY DEF Idle, RunState
    <2>2. Moved(r, Idle)
      BY <1>1, <2>1 DEF EvaluateSponsor, End, Moved, Ranking, Evaluates
    <2> QED
      BY <2>1, <2>2
  <1>2. CASE Sponsor[u] # NoUser
    <2> DEFINE x == Evaluate(Sponsor[u])
    <2>1. Sponsor[u] \in Users
      BY <1>2, SponsorAssumption
    <2>2. x \in RunState /\ x.pc = "read" /\ x.user = Sponsor[u]
      BY <2>1 DEF Evaluate, RunState, Counting, RankLevel
    <2>3. Moved(r, x)
      <3> HIDE DEF x
      <3>1. run' = [run EXCEPT ![r] = x] /\ overlapped' = WithOverlap(Sponsor[u])
        BY <1>2 DEF EvaluateSponsor, x
      <3> QED
        BY <2>2, <3>1 DEF Moved, WithOverlap
    <2> QED
      BY <2>2, <2>3
  <1> QED
    BY <1>1, <1>2

\* Steps that do not promote anyone: calls, distributions, failures, reading for
\* a correction, the end of an evaluation.
CalmStep(r) ==
    \/ Called(r) \/ Fail(r) \/ ReadRank(r) \/ NotPromoted(r) \/ BonusEntry(r)
    \/ ReadRanks(r) \/ Distributed(r)
    \/ \E u \in Users, level \in RankLevel : NextRank(r, u, level)
    \/ FindLatest(r) \/ CreateCycle(r) \/ CycleExists(r)
    \/ CreditPool(r) \/ PoolEntry(r) \/ UpdateEarned(r) \/ MarkAsCredited(r)

\* They leave ranks alone, and a promotion they end is among the interrupted.
LEMMA CalmSteps ==
    ASSUME TypeInv, NEW r \in Runs, CalmStep(r)
    PROVE  /\ Still
           /\ \E x : Moved(r, x) /\ x.pc \in Calm
           /\ run[r].pc \in {"find", "upsert", "history", "bonus"} => run[r].user \in interrupted'
  <1>0. run \in [Runs -> RunState] /\ run[r] \in RunState
    BY DEF TypeInv, TypeOK, RunState
  <1>i. Idle \in RunState /\ Idle.pc = "idle"
    BY DEF Idle, RunState
  <1>m. ASSUME NEW x \in RunState, run' = [run EXCEPT ![r] = x], UNCHANGED overlapped,
               x.pc \in Calm, x.pc \notin {"read", "correct", "set"}
        PROVE  \E y : Moved(r, y) /\ y.pc \in Calm
    BY <1>m DEF Moved, Ranking, Evaluates, Calm, Credits
  <1>n. ASSUME NEW x \in RunState, run' = [run EXCEPT ![r] = x],
               x.pc \in {"read", "correct"}, overlapped' = WithOverlap(x.user)
        PROVE  \E y : Moved(r, y) /\ y.pc \in Calm
    BY <1>n DEF Moved, WithOverlap, Calm
  <1>s. ASSUME UNCHANGED <<rank, history, paid, record>>, interrupted \subseteq interrupted'
        PROVE  Still
    BY <1>s DEF Still, Same, Has
  <1>1. CASE Called(r)
    <2>p. run[r].pc = "idle"
      BY <1>1, <1>i DEF Called, CallEvaluate, ApproveDeposit, CallCorrect, CallDistribute, Call
    <2>1. ASSUME NEW u \in Users,
                 CallEvaluate(r, u) \/ \E amount \in Amounts : ApproveDeposit(r, u, amount)
          PROVE  Still /\ \E x : Moved(r, x) /\ x.pc \in Calm
      <3> DEFINE x == Evaluate(u)
      <3>1. x \in RunState /\ x.pc = "read" /\ x.user = u
        BY DEF Evaluate, RunState, Counting, RankLevel
      <3>2. Still
        BY <1>s, <2>1 DEF CallEvaluate, ApproveDeposit, bonuses
      <3>3. run' = [run EXCEPT ![r] = x] /\ overlapped' = WithOverlap(u)
        BY <2>1 DEF CallEvaluate, ApproveDeposit
      <3> HIDE DEF x
      <3> QED
        BY <1>n, <3>1, <3>2, <3>3
    <2>2. ASSUME NEW u \in Users, NEW level \in RankLevel, CallCorrect(r, u, level)
          PROVE  Still /\ \E x : Moved(r, x) /\ x.pc \in Calm
      <3> DEFINE x == [pc |-> "correct", user |-> u, level |-> level]
      <3>1. x \in RunState /\ x.pc = "correct" /\ x.user = u
        BY DEF RunState, Correcting
      <3>2. Still
        BY <1>s, <2>2 DEF CallCorrect, bonuses
      <3>3. run' = [run EXCEPT ![r] = x] /\ overlapped' = WithOverlap(u)
        BY <2>2 DEF CallCorrect
      <3> HIDE DEF x
      <3> QED
        BY <1>n, <3>1, <3>2, <3>3
    <2>3. ASSUME CallDistribute(r)
          PROVE  Still /\ \E x : Moved(r, x) /\ x.pc \in Calm
      <3> DEFINE x == [pc |-> "ranks", todo |-> {}]
      <3>1. x \in RunState /\ x.pc = "ranks"
        BY DEF RunState, Distributing
      <3>2. Still
        BY <1>s, <2>3 DEF CallDistribute, bonuses, observed
      <3>3. run' = [run EXCEPT ![r] = x] /\ UNCHANGED overlapped
        BY <2>3 DEF CallDistribute, observed
      <3> HIDE DEF x
      <3> QED
        BY <1>m, <3>1, <3>2, <3>3 DEF Calm
    <2>4. Still /\ \E x : Moved(r, x) /\ x.pc \in Calm
      BY <1>1, <2>1, <2>2, <2>3 DEF Called
    <2> QED
      BY <2>p, <2>4
  <1>2. CASE Fail(r)
    <2>1. Still /\ UNCHANGED overlapped
      BY <1>s, <1>2 DEF Fail, bonuses
    <2>2. run[r].pc \in {"find", "upsert", "history", "bonus"} => run[r].user \in interrupted'
      BY <1>2 DEF Fail, Midway
    <2>3. CASE run[r].pc \in Credits
      <3> DEFINE x == [pc |-> "next", todo |-> run[r].todo]
      <3>1. run[r] \in Crediting
        BY <1>0, <2>3, Shapes
      <3>2. x \in RunState /\ x.pc = "next"
        BY <3>1 DEF RunState, Crediting, Distributing
      <3>3. run' = [run EXCEPT ![r] = x]
        BY <1>2, <2>3 DEF Fail, Skip
      <3> HIDE DEF x
      <3> QED
        BY <1>m, <2>1, <2>2, <3>2, <3>3 DEF Calm
    <2>4. CASE run[r].pc \notin Credits
      BY <1>2, <1>i, <1>m, <2>1, <2>2, <2>4 DEF Fail, End, Calm
    <2> QED
      BY <2>3, <2>4
  <1>3. CASE ReadRank(r)
    <2>0. run[r] \in Correcting /\ run[r].pc = "correct"
      BY <1>0, <1>3, Shapes DEF ReadRank, At
    <2>1. Still /\ UNCHANGED overlapped
      BY <1>s, <1>3 DEF ReadRank, bonuses, observed
    <2>2. CASE rank[run[r].user] = run[r].level
      BY <1>3, <1>i, <1>m, <2>0, <2>1, <2>2 DEF ReadRank, End, Calm
    <2>3. CASE rank[run[r].user] # run[r].level
      <3> DEFINE x == [run[r] EXCEPT !.pc = "set"]
      <3>1. x \in RunState /\ x.pc = "set" /\ x.user = run[r].user
        BY <2>0 DEF RunState, Correcting
      <3>2. run' = [run EXCEPT ![r] = x]
        BY <1>0, <1>3, <2>3 DEF ReadRank, Continue
      <3> HIDE DEF x
      <3>3. Moved(r, x)
        BY <2>0, <2>1, <3>1, <3>2 DEF Moved, Ranks, Ranking
      <3> QED
        BY <2>0, <2>1, <3>1, <3>3 DEF Calm
    <2> QED
      BY <2>2, <2>3
  <1>4. CASE NotPromoted(r) \/ BonusEntry(r)
    <2>0. run[r].pc \in {"team", "entry"} /\ run[r].user \in Users
      BY <1>0, <1>4, Shapes DEF NotPromoted, BonusEntry, At, Evaluates
    <2>1. Still
      BY <1>s, <1>4 DEF NotPromoted, BonusEntry, bonuses
    <2>2. \E x : Moved(r, x) /\ x.pc \in {"idle", "read"}
      BY <1>4, <2>0, SponsorMoved DEF NotPromoted, BonusEntry
    <2> QED
      BY <2>0, <2>1, <2>2 DEF Calm
  <1>5. CASE ReadRanks(r)
    <2> DEFINE t == {<<u, record[u].level>> : u \in {v \in Users : Has(v)}}
               x == [pc |-> "next", todo |-> t]
    <2>1. \A v \in Users : Has(v) => record[v].level \in RankLevel
      BY DEF TypeInv, TypeOK, Has, Record
    <2>2. x \in RunState /\ x.pc = "next"
      BY <2>1 DEF RunState, Distributing
    <2>3. run' = [run EXCEPT ![r] = x] /\ run[r].pc = "ranks"
      BY <1>5 DEF ReadRanks, At
    <2>4. Still /\ UNCHANGED overlapped
      BY <1>s, <1>5 DEF ReadRanks, bonuses, observed
    <2> HIDE DEF x
    <2> QED
      BY <1>m, <2>2, <2>3, <2>4 DEF Calm
  <1>6. CASE Distributed(r)
    <2>1. Still /\ UNCHANGED overlapped /\ run[r].pc = "next"
      BY <1>s, <1>6 DEF Distributed, At, bonuses, observed
    <2> QED
      BY <1>6, <1>i, <1>m, <2>1 DEF Distributed, End, Calm
  <1>7. ASSUME NEW u \in Users, NEW level \in RankLevel, NextRank(r, u, level)
        PROVE  Still /\ (\E x : Moved(r, x) /\ x.pc \in Calm) /\ run[r].pc = "next"
    <2> DEFINE rest == run[r].todo \ {<<u, level>>}
               x == IF CycleBonus(level) <= 0 THEN [pc |-> "next", todo |-> rest]
                    ELSE [pc |-> "latest", todo |-> rest, user |-> u, level |-> level, cycle |-> 0]
    <2>0. run[r].pc = "next" /\ run[r] \in Distributing
      BY <1>0, <1>7, Shapes DEF NextRank, At
    <2>1. rest \subseteq Users \X RankLevel
      BY <2>0 DEF Distributing
    <2>2. x \in RunState /\ x.pc \in {"next", "latest"}
      BY <2>1 DEF RunState, Distributing, Crediting
    <2>3. run' = [run EXCEPT ![r] = x]
      BY <1>7 DEF NextRank
    <2>4. Still /\ UNCHANGED overlapped
      BY <1>s, <1>7 DEF NextRank, bonuses, observed
    <2> HIDE DEF x
    <2> QED
      BY <1>m, <2>0, <2>2, <2>3, <2>4 DEF Calm, Credits
  <1>8. CASE \/ FindLatest(r) \/ CreateCycle(r) \/ CycleExists(r) \/ CreditPool(r)
             \/ PoolEntry(r) \/ UpdateEarned(r) \/ MarkAsCredited(r)
    <2>0. run[r].pc \in Credits
      BY <1>8 DEF FindLatest, CreateCycle, CycleExists, CreditPool, PoolEntry, UpdateEarned,
                  MarkAsCredited, At, Credits
    <2>1. run[r] \in Crediting /\ run[r].user \in Users /\ Has(run[r].user)
      BY <1>0, <2>0, Shapes DEF Crediting, TypeInv, Recorded
    <2>2. UNCHANGED <<rank, history, paid, overlapped, interrupted>>
      BY <1>8 DEF FindLatest, CreateCycle, CycleExists, CreditPool, PoolEntry, UpdateEarned,
                  MarkAsCredited, bonuses, observed
    <2>3. Still
      <3>1. CASE UNCHANGED record
        BY <1>s, <2>2, <3>1
      <3>2. CASE UpdateEarned(r)
        <4> DEFINE u == run[r].user
        <4>1. record[u] \in Record
          BY <2>1 DEF Has, TypeInv, TypeOK
        <4>2. PICK y : record' = [record EXCEPT ![u] = [record[u] EXCEPT !.cycleEarned = y]]
          BY <2>1, <3>2 DEF UpdateEarned, TypeInv, TypeOK
        <4>3. record'[u].level = record[u].level
          BY <2>1, <4>1, <4>2 DEF Record, TypeInv, TypeOK
        <4>4. record'[u] # NoRecord
          BY <4>1, <4>3, Levels DEF Record, NoRecord
        <4> QED
          BY <2>1, <2>2, <4>2, <4>3, <4>4 DEF Still, Same, Has, TypeInv, TypeOK
      <3> QED
        BY <1>8, <3>1, <3>2
        DEF FindLatest, CreateCycle, CycleExists, CreditPool, PoolEntry, MarkAsCredited
    <2>4. ASSUME NEW pc \in Credits, Continue(r, pc)
          PROVE  \E x : Moved(r, x) /\ x.pc \in Calm
      <3> DEFINE x == [run[r] EXCEPT !.pc = pc]
      <3>1. x \in RunState /\ x.pc = pc
        BY <2>1 DEF RunState, Crediting, Credits
      <3>2. run' = [run EXCEPT ![r] = x]
        BY <1>0, <2>4 DEF Continue
      <3> HIDE DEF x
      <3> QED
        BY <1>m, <2>2, <3>1, <3>2 DEF Calm, Credits
    <2>5. ASSUME Skip(r)
          PROVE  \E x : Moved(r, x) /\ x.pc \in Calm
      <3> DEFINE x == [pc |-> "next", todo |-> run[r].todo]
      <3>1. x \in RunState /\ x.pc = "next"
        BY <2>1 DEF RunState, Crediting, Distributing
      <3>2. run' = [run EXCEPT ![r] = x]
        BY <2>5 DEF Skip
      <3> HIDE DEF x
      <3> QED
        BY <1>m, <2>2, <3>1, <3>2 DEF Calm
    <2>6. ASSUME FindLatest(r)
          PROVE  \E x : Moved(r, x) /\ x.pc \in Calm
      <3>1. PICK n \in CycleNumbers(run[r].user) :
                run' = [run EXCEPT ![r].pc = "create", ![r].cycle = n + 1]
        BY <2>6 DEF FindLatest
      <3>2. n + 1 \in Nat
        <4>1. DOMAIN cycles[run[r].user] \subseteq Nat
          BY <2>1 DEF TypeInv, TypeOK
        <4> QED
          BY <3>1, <4>1 DEF CycleNumbers
      <3> DEFINE x == [run[r] EXCEPT !.pc = "create", !.cycle = n + 1]
      <3>3. x \in RunState /\ x.pc = "create"
        BY <2>1, <3>2 DEF RunState, Crediting
      <3>4. run' = [run EXCEPT ![r] = x]
        BY <1>0, <3>1
      <3> HIDE DEF x
      <3> QED
        BY <1>m, <2>2, <3>3, <3>4 DEF Calm, Credits
    <2>7. \E x : Moved(r, x) /\ x.pc \in Calm
      BY <1>8, <2>4, <2>5, <2>6
      DEF CreateCycle, CycleExists, CreditPool, PoolEntry, UpdateEarned, MarkAsCredited, Credits
    <2> QED
      BY <2>0, <2>3, <2>7 DEF Credits
  <1> QED
    BY <1>1, <1>2, <1>3, <1>4, <1>5, <1>6, <1>7, <1>8 DEF CalmStep

(* ---------------------------------------------------------------------- *)
(* Inv is inductive                                                       *)

\* A run that moves leaves a user whose changes do not overlap alone.
LEMMA MovedAlone ==
    ASSUME Inv, NEW r \in Runs, NEW x, Moved(r, x), NEW u \in Users \ overlapped'
    PROVE  /\ u \in Users \ overlapped
           /\ Alone(u)'
           /\ Ranks(r, u) => \A s \in Runs \ {r} : ~Ranks(s, u)
  <1>0. run \in [Runs -> RunState]
    BY DEF Inv, TypeInv, TypeOK, RunState
  <1>1. u \in Users \ overlapped /\ Alone(u)
    BY DEF Inv, UserInv, Moved
  <1>2. \A s \in Runs \ {r} : run'[s] = run[s]
    BY <1>0 DEF Moved
  <1>3. run'[r] = x
    BY <1>0 DEF Moved
  <1>4. Ranks(r, u)' => Ranks(r, u) \/ \A s \in Runs : ~Ranks(s, u)
    BY <1>3 DEF Moved, Ranks, Ranking
  <1>5. \A s \in Runs \ {r} : Ranks(s, u)' <=> Ranks(s, u)
    BY <1>2 DEF Ranks
  <1> QED
    BY <1>1, <1>4, <1>5 DEF Alone

\* Of a user whose rows do not change, the invariant survives a move of a run
\* that does not forget the record to be written.
LEMMA Kept ==
    ASSUME Inv, NEW r \in Runs, NEW x, Moved(r, x), NEW u \in Users \ overlapped', Same(u),
           interrupted \subseteq interrupted', Consistent(x, u)',
           Recording(run[r], u) => u \in interrupted' \/ Recording(x, u)
    PROVE  UserInv(u)'
  <1>0. run \in [Runs -> RunState]
    BY DEF Inv, TypeInv, TypeOK, RunState
  <1>1. u \in Users \ overlapped /\ Alone(u)'
    BY MovedAlone
  <1>2. run'[r] = x /\ \A s \in Runs \ {r} : run'[s] = run[s]
    BY <1>0 DEF Moved
  <1>3. UserInv(u)
    BY <1>1 DEF Inv
  <1>4. PaidInHistory(u)'
    BY <1>3 DEF UserInv, PaidInHistory, Same
  <1>5. ASSUME NEW s \in Runs PROVE Consistent(run[s], u)'
    <2>1. CASE s = r
      BY <1>2, <2>1 DEF Consistent
    <2>2. CASE s # r
      <3>1. run'[s] = run[s]
        BY <1>2, <2>2
      <3>2. Consistent(run[s], u)
        BY <1>3 DEF UserInv
      <3> QED
        BY <3>1, <3>2 DEF Consistent, Same
    <2> QED
      BY <2>1, <2>2
  <1>6. RecordFollows(u)'
    <2>1. CASE u \in interrupted
      BY <2>1 DEF RecordFollows
    <2>2. CASE AtRank(u)
      BY <2>2 DEF AtRank, RecordFollows, Same
    <2>3. ASSUME NEW s \in Runs, Recording(run[s], u)
          PROVE  RecordFollows(u)'
      <3>1. CASE s = r
        BY <1>2, <2>3, <3>1 DEF RecordFollows, Recording
      <3>2. CASE s # r
        BY <1>2, <2>3, <3>2 DEF RecordFollows, Recording
      <3> QED
        BY <3>1, <3>2
    <2> QED
      BY <1>3, <2>1, <2>2, <2>3 DEF UserInv, RecordFollows
  <1> QED
    BY <1>1, <1>4, <1>5, <1>6 DEF UserInv

\* Of the user whose rank a run is changing, it is what the run leaves behind.
LEMMA Changed ==
    ASSUME Inv, NEW r \in Runs, NEW x, Moved(r, x), NEW u \in Users \ overlapped', Ranks(r, u),
           Consistent(x, u)', PaidInHistory(u)',
           u \in interrupted' \/ AtRank(u)' \/ Recording(x, u)
    PROVE  UserInv(u)'
  <1>0. run \in [Runs -> RunState]
    BY DEF Inv, TypeInv, TypeOK, RunState
  <1>1. Alone(u)' /\ \A s \in Runs \ {r} : ~Ranks(s, u)
    BY MovedAlone
  <1>2. run'[r] = x /\ \A s \in Runs \ {r} : run'[s] = run[s]
    BY <1>0 DEF Moved
  <1>3. ASSUME NEW s \in Runs PROVE Consistent(run[s], u)'
    <2>1. CASE s = r
      BY <1>2, <2>1 DEF Consistent
    <2>2. CASE s # r
      BY <1>1, <1>2, <2>2 DEF Consistent, Ranks
    <2> QED
      BY <2>1, <2>2
  <1>4. RecordFollows(u)'
    BY <1>2 DEF RecordFollows, Recording
  <1> QED
    BY <1>1, <1>3, <1>4 DEF UserInv

\* A run that is changing the rank of u, and the other users.
LEMMA OneUser ==
    ASSUME Inv, NEW r \in Runs, NEW x, Moved(r, x), NEW u \in Users, Ranks(r, u),
           interrupted \subseteq interrupted',
           \A v \in Users \ {u} : Same(v),
           x.pc \in Evaluates /\ x.pc # "read" => x.user = u,
           u \notin overlapped' =>
               /\ Consistent(x, u)' /\ PaidInHistory(u)'
               /\ u \in interrupted' \/ AtRank(u)' \/ Recording(x, u)
    PROVE  \A v \in Users \ overlapped' : UserInv(v)'
  <1>1. ASSUME NEW v \in Users \ overlapped', v # u
        PROVE  UserInv(v)'
    <2>1. Consistent(x, v)'
      BY <1>1 DEF Consistent
    <2>2. ~Recording(run[r], v)
      BY <1>1 DEF Recording, Ranks
    <2> QED
      BY <1>1, <2>1, <2>2, Kept
  <1>2. u \notin overlapped' => UserInv(u)'
    BY Changed
  <1> QED
    BY <1>1, <1>2

\* Steps that promote nobody keep it.
LEMMA CalmInv ==
    ASSUME Inv, NEW r \in Runs, CalmStep(r)
    PROVE  \A u \in Users \ overlapped' : UserInv(u)'
  <1>1. Still /\ (run[r].pc \in {"find", "upsert", "history", "bonus"}
                     => run[r].user \in interrupted')
    BY CalmSteps DEF Inv
  <1>2. PICK x : Moved(r, x) /\ x.pc \in Calm
    BY CalmSteps DEF Inv
  <1>3. ASSUME NEW u \in Users \ overlapped'
        PROVE  UserInv(u)'
    <2>1. Consistent(x, u)'
      BY <1>2 DEF Consistent, Calm, Credits
    <2>2. Recording(run[r], u) => u \in interrupted'
      BY <1>1 DEF Recording
    <2> QED
      BY <1>1, <1>2, <2>1, <2>2, Kept DEF Still
  <1> QED
    BY <1>3

\* A run that goes on with the same user.
LEMMA GoesOn ==
    ASSUME NEW r \in Runs, NEW x \in RunState, run' = [run EXCEPT ![r] = x], UNCHANGED overlapped,
           NEW u, Ranks(r, u), x.pc \in Ranking => x.user = u
    PROVE  Moved(r, x)
  BY DEF Moved

\* Reading, counting and choosing the target keep it.
LEMMA CountingInv ==
    ASSUME Inv, NEW r \in Runs,
           \/ ReadUser(r) \/ CountQualifying(r) \/ CountLv1(r)
           \/ \E target \in RANK_ORDER : CountTeam(r, target)
    PROVE  \A u \in Users \ overlapped' : UserInv(u)'
  <1>u. PICK u : u = run[r].user
    OBVIOUS
  <1>0. run \in [Runs -> RunState] /\ run[r] \in Counting /\ rank \in [Users -> RankLevel]
    <2>1. run \in [Runs -> RunState] /\ run[r] \in RunState /\ rank \in [Users -> RankLevel]
      BY DEF Inv, TypeInv, TypeOK, RunState
    <2>2. run[r].pc \in {"read", "qualifying", "lv1", "team"}
      BY DEF ReadUser, CountQualifying, CountLv1, CountTeam, At
    <2> QED
      BY <2>1, <2>2, Shapes
  <1>1. u \in Users /\ Ranks(r, u) /\ ~Recording(run[r], u)
    BY <1>u, <1>0 DEF Counting, Ranks, Evaluates, Recording
  <1>2. Still /\ UNCHANGED <<overlapped, rank>>
    BY DEF ReadUser, CountQualifying, CountLv1, CountTeam, Still, Same, Has, bonuses, observed
  <1>k. ASSUME NEW x \in RunState, run' = [run EXCEPT ![r] = x], x.user = u,
               u \notin overlapped => Consistent(x, u)'
        PROVE  \A v \in Users \ overlapped' : UserInv(v)'
    <2>1. Moved(r, x)
      BY <1>1, <1>2, <1>k, GoesOn
    <2>2. ASSUME NEW v \in Users \ overlapped' PROVE UserInv(v)'
      <3>1. Consistent(x, v)'
        <4>1. CASE v = u
          BY <1>2, <1>k, <4>1
        <4>2. CASE v # u
          BY <1>k, <4>2 DEF Consistent
        <4> QED
          BY <4>1, <4>2
      <3>2. ~Recording(run[r], v)
        BY <1>u, <1>1 DEF Recording
      <3> QED
        BY <1>2, <2>1, <2>2, <3>1, <3>2, Kept DEF Still
    <2> QED
      BY <2>2
  <1>c. u \notin overlapped => Consistent(run[r], u)
    BY <1>1 DEF Inv, UserInv
  <1>n. QualifyingDirects(u) \in Nat /\ DirectLv1s(u) \in Nat
    BY <1>1, Counts
  <1>3. CASE ReadUser(r)
    <2>1. PICK x : x = [run[r] EXCEPT !.pc = "qualifying", !.current = rank[u]]
      OBVIOUS
    <2>2. x \in RunState /\ x.pc = "qualifying" /\ x.user = u /\ x.current = rank[u]
      BY <1>u, <1>0, <1>1, <2>1 DEF RunState, Counting
    <2>3. run' = [run EXCEPT ![r] = x]
      BY <1>u, <1>0, <1>3, <2>1 DEF ReadUser
    <2>4. Consistent(x, u)'
      BY <1>2, <2>2 DEF Consistent
    <2> QED
      BY <1>k, <2>2, <2>3, <2>4
  <1>4. CASE CountQualifying(r) \/ CountLv1(r)
    <2>1. PICK x : x = IF CountQualifying(r)
                       THEN [run[r] EXCEPT !.pc = "lv1", !.qualifying = QualifyingDirects(u)]
                       ELSE [run[r] EXCEPT !.pc = "team", !.lv1 = DirectLv1s(u)]
      OBVIOUS
    <2>2. /\ x \in RunState /\ x.pc \in {"lv1", "team"} /\ x.user = u
          /\ x.current = run[r].current
      BY <1>u, <1>0, <1>n, <2>1 DEF RunState, Counting
    <2>3. run' = [run EXCEPT ![r] = x] /\ run[r].pc \in {"qualifying", "lv1"}
      BY <1>u, <1>0, <1>4, <2>1 DEF CountQualifying, CountLv1, At
    <2>4. u \notin overlapped => x.current = rank[u]
      BY <1>u, <1>c, <2>2, <2>3 DEF Consistent, Evaluates
    <2>5. u \notin overlapped => Consistent(x, u)'
      BY <1>2, <2>2, <2>4 DEF Consistent
    <2> QED
      BY <1>k, <2>2, <2>3, <2>5
  <1>5. ASSUME NEW target \in RANK_ORDER, CountTeam(r, target)
        PROVE  \A v \in Users \ overlapped' : UserInv(v)'
    <2>1. PICK x : x = [pc |-> "update", user |-> u, target |-> target, alreadyAchieved |-> FALSE]
      OBVIOUS
    <2>2. x \in RunState /\ x.pc = "update" /\ x.user = u /\ x.target = target
      BY <1>u, <1>1, <2>1 DEF RunState, Promoting
    <2>3. run' = [run EXCEPT ![r] = x] /\ run[r].pc = "team" /\ target > run[r].current
      BY <1>u, <1>5, <2>1 DEF CountTeam, Promote, At
    <2>4. u \notin overlapped => x.target > rank[u]
      BY <1>u, <1>c, <2>2, <2>3 DEF Consistent, Evaluates
    <2>5. u \notin overlapped => Consistent(x, u)'
      BY <1>2, <2>2, <2>4 DEF Consistent
    <2> QED
      BY <1>k, <2>2, <2>3, <2>5
  <1> QED
    BY <1>3, <1>4, <1>5


\* Writing the rank, looking for the history row and writing the record keep it.
LEMMA PromotingInv ==
    ASSUME Inv, NEW r \in Runs, UpdateUser(r) \/ FindHistory(r) \/ UpsertUserRank(r)
    PROVE  \A u \in Users \ overlapped' : UserInv(u)'
  <1>u. PICK u, t : u = run[r].user /\ t = run[r].target
    OBVIOUS
  <1>0. /\ run \in [Runs -> RunState] /\ run[r] \in Promoting /\ rank \in [Users -> RankLevel]
        /\ record \in [Users -> Record \cup {NoRecord}]
    <2>1. /\ run \in [Runs -> RunState] /\ run[r] \in RunState /\ rank \in [Users -> RankLevel]
          /\ record \in [Users -> Record \cup {NoRecord}]
      BY DEF Inv, TypeInv, TypeOK, RunState
    <2>2. run[r].pc \in {"update", "find", "upsert"}
      BY DEF UpdateUser, FindHistory, UpsertUserRank, At
    <2> QED
      BY <2>1, <2>2, Shapes
  <1>1. /\ u \in Users /\ Ranks(r, u) /\ t \in RANK_ORDER /\ t \in RankLevel
        /\ run[r].alreadyAchieved \in BOOLEAN
    <2>1. run[r].pc \in {"update", "find", "upsert"}
      BY DEF UpdateUser, FindHistory, UpsertUserRank, At
    <2> QED
      BY <1>u, <1>0, <2>1 DEF Promoting, Ranks, Evaluates, RankLevel
  <1>2. UNCHANGED <<overlapped, interrupted, history, paid>>
    BY DEF UpdateUser, FindHistory, UpsertUserRank, bonuses, observed
  <1>c. u \notin overlapped => Consistent(run[r], u) /\ PaidInHistory(u) /\ RecordFollows(u)
    BY <1>1 DEF Inv, UserInv
  <1>k. ASSUME NEW x \in RunState, run' = [run EXCEPT ![r] = x], x.user = u,
               \A v \in Users \ {u} : Same(v),
               u \notin overlapped => Consistent(x, u)' /\ (AtRank(u)' \/ Recording(x, u))
        PROVE  \A v \in Users \ overlapped' : UserInv(v)'
    <2>1. Moved(r, x)
      BY <1>1, <1>2, <1>k, GoesOn
    <2>2. u \notin overlapped' => PaidInHistory(u)'
      BY <1>2, <1>c DEF PaidInHistory
    <2>3. /\ u \in Users /\ Ranks(r, u) /\ interrupted \subseteq interrupted'
          /\ (x.pc \in Evaluates /\ x.pc # "read" => x.user = u)
          /\ overlapped' = overlapped
      BY <1>1, <1>2, <1>k
    <2> QED
      BY <1>k, <2>1, <2>2, <2>3, OneUser
  <1>3. CASE UpdateUser(r)
    <2>1. PICK x : x = [run[r] EXCEPT !.pc = "find"]
      OBVIOUS
    <2>2. x \in RunState /\ x.pc = "find" /\ x.user = u /\ x.target = t
      BY <1>u, <1>0, <2>1 DEF RunState, Promoting
    <2>3. run' = [run EXCEPT ![r] = x]
      BY <1>u, <1>0, <1>3, <2>1 DEF UpdateUser, Continue
    <2>4. rank'[u] = t /\ \A v \in Users \ {u} : Same(v)
      BY <1>u, <1>0, <1>1, <1>3 DEF UpdateUser, Same, Has, bonuses
    <2>5. Consistent(x, u)' /\ Recording(x, u)
      BY <2>2, <2>4 DEF Consistent, Recording
    <2> QED
      BY <1>k, <2>2, <2>3, <2>4, <2>5
  <1>4. CASE FindHistory(r)
    <2>1. PICK x : x = [run[r] EXCEPT !.pc = "upsert", !.alreadyAchieved = t \in history[u]]
      OBVIOUS
    <2>2. /\ x \in RunState /\ x.pc = "upsert" /\ x.user = u /\ x.target = t
          /\ x.alreadyAchieved <=> t \in history[u]
      <3>1. PICK b \in BOOLEAN : b <=> t \in history[u]
        OBVIOUS
      <3>2. x = [run[r] EXCEPT !.pc = "upsert", !.alreadyAchieved = b]
        <4>1. CASE b
          BY <2>1, <3>1, <4>1
        <4>2. CASE ~b
          BY <2>1, <3>1, <4>2
        <4> QED
          BY <4>1, <4>2
      <3>3. x \in RunState /\ x.pc = "upsert" /\ x.user = u /\ x.target = t
        BY <1>u, <1>0, <3>2 DEF RunState, Promoting
      <3>4. x.alreadyAchieved = b
        BY <1>0, <3>2 DEF Promoting
      <3> QED
        BY <3>1, <3>3, <3>4
    <2>3. run' = [run EXCEPT ![r] = x] /\ run[r].pc = "find"
      BY <1>u, <1>0, <1>4, <2>1 DEF FindHistory, At
    <2>4. UNCHANGED rank /\ \A v \in Users \ {u} : Same(v)
      BY <1>4 DEF FindHistory, Same, Has, bonuses
    <2>5. u \notin overlapped => t = rank[u] /\ (t \notin history[u] => paid[u][t] = 0)
      <3>1. paid[u][t] \in Nat
        BY <1>1 DEF Inv, TypeInv, TypeOK
      <3> QED
        BY <1>u, <1>1, <1>c, <2>3, <3>1 DEF Consistent, PaidInHistory, Evaluates
    <2>6. u \notin overlapped => Consistent(x, u)' /\ Recording(x, u)
      BY <1>2, <2>2, <2>4, <2>5 DEF Consistent, Recording
    <2> QED
      BY <1>k, <2>2, <2>3, <2>4, <2>6
  <1>5. CASE UpsertUserRank(r)
    <2>1. PICK x : x = [run[r] EXCEPT !.pc = "history"]
      OBVIOUS
    <2>2. /\ x \in RunState /\ x.pc = "history" /\ x.user = u /\ x.target = t
          /\ x.alreadyAchieved <=> run[r].alreadyAchieved
      BY <1>u, <1>0, <2>1 DEF RunState, Promoting
    <2>3. run' = [run EXCEPT ![r] = x] /\ run[r].pc = "upsert" /\ UNCHANGED rank
      BY <1>u, <1>0, <1>5, <2>1 DEF UpsertUserRank, Continue, At
    <2>4. PICK row : row = AtLevel(u, t, Bonus(r))
      OBVIOUS
    <2>5. row \in Record /\ row # NoRecord /\ row.level = t
      <3>1. Bonus(r) \in Nat
        BY <1>u, <1>1, Levels DEF Bonus
      <3> QED
        BY <1>1, <2>4, <3>1, Rows DEF Inv
    <2>6. record' = [record EXCEPT ![u] = row]
      BY <1>u, <1>5, <2>4 DEF UpsertUserRank
    <2>7. record'[u] = row /\ \A v \in Users \ {u} : Same(v)
      <3>1. record'[u] = row /\ \A v \in Users \ {u} : record'[v] = record[v]
        BY <1>0, <1>1, <2>6
      <3> QED
        BY <1>2, <2>3, <3>1 DEF Same, Has
    <2>8. u \notin overlapped => t = rank[u]
      BY <1>u, <1>c, <2>3 DEF Consistent, Evaluates
    <2>9. u \notin overlapped => AtRank(u)'
      BY <2>3, <2>5, <2>7, <2>8 DEF AtRank, Has
    <2>10. u \notin overlapped => Consistent(x, u)'
      <3>1. u \notin overlapped /\ ~run[r].alreadyAchieved => paid[u][t] = 0
        BY <1>u, <1>c, <2>3 DEF Consistent, Evaluates
      <3> QED
        BY <1>2, <2>2, <3>1 DEF Consistent
    <2> QED
      BY <1>k, <2>2, <2>3, <2>7, <2>9, <2>10
  <1> QED
    BY <1>3, <1>4, <1>5


\* Writing the history and crediting the bonus keep it.
LEMMA PayingInv ==
    ASSUME Inv, NEW r \in Runs, CreateRankHistory(r) \/ CreditBonus(r)
    PROVE  \A u \in Users \ overlapped' : UserInv(u)'
  <1>u. PICK u, t : u = run[r].user /\ t = run[r].target
    OBVIOUS
  <1>0. /\ run \in [Runs -> RunState] /\ run[r] \in Promoting /\ run[r].pc \in {"history", "bonus"}
        /\ history \in [Users -> SUBSET RankLevel] /\ paid \in [Users -> [RANK_ORDER -> Nat]]
    <2>1. /\ run \in [Runs -> RunState] /\ run[r] \in RunState
          /\ history \in [Users -> SUBSET RankLevel] /\ paid \in [Users -> [RANK_ORDER -> Nat]]
      BY DEF Inv, TypeInv, TypeOK, RunState
    <2>2. run[r].pc \in {"history", "bonus"}
      BY DEF CreateRankHistory, CreditBonus, At
    <2> QED
      BY <2>1, <2>2, Shapes
  <1>1. /\ u \in Users /\ Ranks(r, u) /\ t \in RANK_ORDER
        /\ run[r].alreadyAchieved \in BOOLEAN /\ ~Recording(run[r], u)
    BY <1>u, <1>0 DEF Promoting, Ranks, Evaluates, Recording
  <1>c. u \notin overlapped => Consistent(run[r], u) /\ PaidInHistory(u) /\ RecordFollows(u)
    BY <1>1 DEF Inv, UserInv
  <1>2. UNCHANGED <<rank, record, interrupted>> /\ overlapped \subseteq overlapped'
    <2>1. overlapped \subseteq overlapped'
      BY DEF CreateRankHistory, CreditBonus, EvaluateSponsor, WithOverlap, observed
    <2> QED
      BY <2>1 DEF CreateRankHistory, CreditBonus, observed
  <1>a. u \notin overlapped => u \in interrupted \/ AtRank(u)
    <2>1. ASSUME u \notin overlapped PROVE \A s \in Runs : ~Recording(run[s], u)
      <3>1. Alone(u)
        BY <1>1, <2>1 DEF Inv, UserInv
      <3> QED
        BY <1>1, <3>1 DEF Alone, Ranks, Recording, Evaluates
    <2> QED
      BY <1>c, <2>1 DEF RecordFollows
  <1>k. ASSUME NEW x, Moved(r, x), \A v \in Users \ {u} : Same(v),
               x.pc \in Evaluates /\ x.pc # "read" => x.user = u,
               u \notin overlapped => Consistent(x, u)' /\ PaidInHistory(u)'
        PROVE  \A v \in Users \ overlapped' : UserInv(v)'
    <2>1. u \notin overlapped' => u \in interrupted' \/ AtRank(u)'
      BY <1>2, <1>a DEF AtRank, Has
    <2>2. interrupted \subseteq interrupted' /\ (u \notin overlapped' => u \notin overlapped)
      BY <1>2
    <2> QED
      BY <1>1, <1>k, <2>1, <2>2, OneUser
  <1>3. CASE CreateRankHistory(r)
    <2>1. run[r].pc = "history" /\ paid' = paid
          /\ history' = [history EXCEPT ![u] = history[u] \cup {t}]
      BY <1>u, <1>3 DEF CreateRankHistory, At, bonuses
    <2>2. \A v \in Users \ {u} : Same(v)
      BY <1>0, <1>1, <1>2, <2>1 DEF Same, Has
    <2>3. history'[u] = history[u] \cup {t}
      BY <1>0, <1>1, <2>1
    <2>4. u \notin overlapped => PaidInHistory(u)'
      BY <1>c, <2>1, <2>3 DEF PaidInHistory
    <2>5. CASE Bonus(r) > 0
      <3>1. ~run[r].alreadyAchieved
        BY <2>5 DEF Bonus
      <3>2. PICK x : x = [run[r] EXCEPT !.pc = "bonus"]
        OBVIOUS
      <3>3. /\ x \in RunState /\ x.pc = "bonus" /\ x.user = u /\ x.target = t
            /\ ~x.alreadyAchieved
        BY <1>u, <1>0, <3>1, <3>2 DEF RunState, Promoting
      <3>4. run' = [run EXCEPT ![r] = x] /\ UNCHANGED overlapped
        BY <1>0, <1>3, <2>5, <3>2 DEF CreateRankHistory, Continue
      <3>5. Moved(r, x)
        BY <1>1, <3>3, <3>4, GoesOn
      <3>6. u \notin overlapped => paid[u][t] = 0
        BY <1>u, <1>c, <2>1, <3>1 DEF Consistent, Evaluates
      <3>7. u \notin overlapped => Consistent(x, u)'
        BY <2>1, <2>3, <3>3, <3>6 DEF Consistent
      <3> QED
        BY <1>k, <2>2, <2>4, <3>3, <3>5, <3>7
    <2>6. CASE ~(Bonus(r) > 0)
      <3>1. EvaluateSponsor(r, u)
        BY <1>u, <1>3, <2>6 DEF CreateRankHistory
      <3>2. PICK x : Moved(r, x) /\ x.pc \in {"idle", "read"}
        BY <1>1, <3>1, SponsorMoved DEF Inv
      <3>3. Consistent(x, u)'
        BY <3>2 DEF Consistent, Evaluates
      <3> QED
        BY <1>k, <2>2, <2>4, <3>2, <3>3 DEF Evaluates
    <2> QED
      BY <2>5, <2>6
  <1>4. CASE CreditBonus(r)
    <2>0. /\ run[r].pc = "bonus" /\ history' = history /\ overlapped' = overlapped
          /\ paid' = [paid EXCEPT ![u] = [paid[u] EXCEPT ![t] = paid[u][t] + 1]]
      BY <1>u, <1>0, <1>1, <1>4 DEF CreditBonus, At, observed
    <2>1. /\ \A v \in Users \ {u} : paid'[v] = paid[v]
          /\ \A level \in RANK_ORDER \ {t} : paid'[u][level] = paid[u][level]
          /\ paid'[u][t] = paid[u][t] + 1
      BY <1>0, <1>1, <2>0
    <2>2. \A v \in Users \ {u} : Same(v)
      BY <1>2, <2>0, <2>1 DEF Same, Has
    <2>3. u \notin overlapped => paid[u][t] = 0 /\ t \in history[u]
      BY <1>u, <1>c, <2>0 DEF Consistent, Evaluates
    <2>4. u \notin overlapped => PaidInHistory(u)'
      BY <1>c, <2>0, <2>1, <2>3 DEF PaidInHistory
    <2>5. PICK x : x = [run[r] EXCEPT !.pc = "entry"]
      OBVIOUS
    <2>6. x \in RunState /\ x.pc = "entry" /\ x.user = u
      BY <1>u, <1>0, <2>5 DEF RunState, Promoting
    <2>7. run' = [run EXCEPT ![r] = x]
      BY <1>0, <1>4, <2>5 DEF CreditBonus, Continue
    <2>8. Moved(r, x)
      BY <1>1, <2>0, <2>6, <2>7, GoesOn
    <2>9. Consistent(x, u)'
      BY <2>6 DEF Consistent
    <2> QED
      BY <1>k, <2>2, <2>4, <2>6, <2>8, <2>9
  <1> QED
    BY <1>3, <1>4

\* An admin's change of a rank keeps it.
LEMMA SetRankInv ==
    ASSUME Inv, NEW r \in Runs, SetRank(r)
    PROVE  \A u \in Users \ overlapped' : UserInv(u)'
  <1>u. PICK u, level : u = run[r].user /\ level = run[r].level
    OBVIOUS
  <1>0. /\ run \in [Runs -> RunState] /\ run[r] \in Correcting /\ run[r].pc = "set"
        /\ rank \in [Users -> RankLevel] /\ record \in [Users -> Record \cup {NoRecord}]
        /\ history \in [Users -> SUBSET RankLevel]
    <2>1. /\ run \in [Runs -> RunState] /\ run[r] \in RunState
          /\ rank \in [Users -> RankLevel] /\ record \in [Users -> Record \cup {NoRecord}]
          /\ history \in [Users -> SUBSET RankLevel]
      BY DEF Inv, TypeInv, TypeOK, RunState
    <2>2. run[r].pc = "set"
      BY DEF SetRank, At
    <2> QED
      BY <2>1, <2>2, Shapes
  <1>1. u \in Users /\ Ranks(r, u) /\ level \in RankLevel
    BY <1>u, <1>0 DEF Correcting, Ranks
  <1>2. UNCHANGED <<paid, overlapped, interrupted>>
    BY DEF SetRank, bonuses
  <1>3. /\ rank' = [rank EXCEPT ![u] = level]
        /\ history' = [history EXCEPT ![u] = history[u] \cup {level}]
        /\ run' = [run EXCEPT ![r] = Idle]
    BY <1>u DEF SetRank, End
  <1>4. PICK row : /\ record' = [record EXCEPT ![u] = row]
                   /\ row = IF ~Has(u) /\ level = NONE THEN NoRecord ELSE AtLevel(u, level, 0)
    BY <1>u DEF SetRank
  <1>5. (row = NoRecord /\ level = NONE) \/ (row # NoRecord /\ row.level = level)
    <2>1. AtLevel(u, level, 0) # NoRecord /\ AtLevel(u, level, 0).level = level
      BY <1>1, Rows DEF Inv
    <2> QED
      BY <1>4, <2>1
  <1>6. AtRank(u)'
    <2>1. rank'[u] = level /\ record'[u] = row
      BY <1>0, <1>1, <1>3, <1>4
    <2> QED
      BY <1>5, <2>1 DEF AtRank, Has
  <1>7. \A v \in Users \ {u} : Same(v)
    <2>1. \A v \in Users \ {u} : /\ rank'[v] = rank[v] /\ record'[v] = record[v]
                                 /\ history'[v] = history[v]
      BY <1>0, <1>1, <1>3, <1>4
    <2> QED
      BY <1>2, <2>1 DEF Same, Has
  <1>8. u \notin overlapped' => PaidInHistory(u)'
    <2>1. history'[u] = history[u] \cup {level}
      BY <1>0, <1>1, <1>3
    <2>2. u \notin overlapped => PaidInHistory(u)
      BY <1>1 DEF Inv, UserInv
    <2> QED
      BY <1>2, <2>1, <2>2 DEF PaidInHistory
  <1>9. Idle \in RunState /\ Idle.pc = "idle" /\ Moved(r, Idle)
    BY <1>2, <1>3 DEF Idle, RunState, Moved, Ranking, Evaluates
  <1>10. Consistent(Idle, u)'
    BY <1>9 DEF Consistent, Evaluates
  <1> QED
    BY <1>1, <1>2, <1>6, <1>7, <1>8, <1>9, <1>10, OneUser DEF Evaluates

\* So do a restart and a stutter.
LEMMA RestInv ==
    ASSUME Inv, Crash \/ UNCHANGED vars
    PROVE  \A u \in Users \ overlapped' : UserInv(u)'
  <1>1. UNCHANGED <<rank, record, history, paid, overlapped>>
    BY DEF Crash, vars, bonuses, observed
  <1>2. CASE Crash
    <2>1. \A r \in Runs : run'[r].pc = "idle"
      BY <1>2 DEF Crash, Idle
    <2>2. ASSUME NEW u \in Users \ overlapped'
          PROVE  UserInv(u)'
      <3>1. UserInv(u)
        BY <1>1 DEF Inv
      <3>2. Alone(u)' /\ \A r \in Runs : Consistent(run[r], u)'
        BY <2>1 DEF Alone, Ranks, Consistent, Evaluates
      <3>3. PaidInHistory(u)'
        BY <1>1, <3>1 DEF UserInv, PaidInHistory
      <3>4. RecordFollows(u)'
        <4>1. ASSUME NEW r \in Runs, Recording(run[r], u) PROVE u \in interrupted'
          BY <1>2, <4>1 DEF Crash, Recording, Midway
        <4> QED
          BY <1>1, <1>2, <3>1, <4>1 DEF UserInv, RecordFollows, AtRank, Has, Crash
      <3> QED
        BY <3>2, <3>3, <3>4 DEF UserInv
    <2> QED
      BY <2>2
  <1>3. CASE UNCHANGED vars
    BY <1>3 DEF vars, bonuses, observed, Inv, UserInv, Alone, Ranks, PaidInHistory, Consistent,
                RecordFollows, AtRank, Has, Recording
  <1> QED
    BY <1>2, <1>3

\* Inv is inductive.
LEMMA InitInv == Init => Inv
  <1> SUFFICES ASSUME Init PROVE Inv
    OBVIOUS
  <1>1. \A r \in Runs : run[r].pc = "idle"
    BY DEF Init, Idle
  <1>2. ASSUME NEW u \in Users PROVE UserInv(u)
    <2>1. Alone(u) /\ \A r \in Runs : Consistent(run[r], u)
      BY <1>1 DEF Alone, Ranks, Consistent, Evaluates
    <2>2. PaidInHistory(u) /\ RecordFollows(u)
      BY DEF Init, PaidInHistory, RecordFollows, AtRank, Has
    <2> QED
      BY <2>1, <2>2 DEF UserInv
  <1> QED
    BY <1>2, InitTypeInv DEF Inv

\* Inv is kept by every step.
LEMMA NextInv ==
    ASSUME Inv, [Next]_vars
    PROVE  Inv'
  <1>1. TypeInv'
    BY NextTypeInv DEF Inv
  <1>2. ASSUME NEW r \in Runs, Called(r) \/ Step(r) \/ Fail(r)
        PROVE  \A u \in Users \ overlapped' : UserInv(u)'
    <2>1. \/ CalmStep(r)
          \/ ReadUser(r) \/ CountQualifying(r) \/ CountLv1(r)
          \/ \E target \in RANK_ORDER : CountTeam(r, target)
          \/ UpdateUser(r) \/ FindHistory(r) \/ UpsertUserRank(r)
          \/ CreateRankHistory(r) \/ CreditBonus(r)
          \/ SetRank(r)
      BY <1>2 DEF Step, CalmStep
    <2> QED
      BY <2>1, CalmInv, CountingInv, PromotingInv, PayingInv, SetRankInv
  <1>3. \A u \in Users \ overlapped' : UserInv(u)'
    BY <1>2, RestInv DEF Next
  <1> QED
    BY <1>1, <1>3 DEF Inv

\* Inv holds in every state.
LEMMA Invariance == Spec => []Inv
  BY InitInv, NextInv, PTL DEF Spec

(* ---------------------------------------------------------------------- *)
(* What follows                                                           *)

\* No level's bonus is paid twice to a user two changes of whose rank never
\* overlapped, whatever fails and however often an admin takes the rank back.
THEOREM BonusPaidOnce == Spec => []BonusOncePerLevel
  <1>1. Inv => BonusOncePerLevel
    BY DEF Inv, UserInv, PaidInHistory, BonusOncePerLevel
  <1> QED
    BY <1>1, Invariance, PTL

\* The record that decides about the cycle bonus is at the user's rank, whenever
\* no promotion of the user is under way, was cut short or overlapped another.
THEOREM RecordAtRank == Spec => []RecordMatchesRank
  <1>1. ASSUME Inv, NEW u \in Users, Undisturbed(u)
        PROVE  AtRank(u)
    <2>1. RecordFollows(u) /\ u \notin interrupted
      BY <1>1 DEF Inv, UserInv, Undisturbed
    <2>2. \A r \in Runs : ~Recording(run[r], u)
      BY <1>1 DEF Undisturbed, Quiet, Midway, Recording
    <2> QED
      BY <2>1, <2>2 DEF RecordFollows
  <1>2. Inv => RecordMatchesRank
    BY <1>1 DEF RecordMatchesRank, AtRank
  <1> QED
    BY <1>2, Invariance, PTL

\* An evaluation never lowers the rank of a user two changes of whose rank have
\* not overlapped; only an admin does.
THEOREM NeverDown == Spec => NeverDowngraded
  <1> DEFINE A == \A u \in Users \ overlapped :
                    rank'[u] >= rank[u] \/ \E r \in Runs : SetRank(r) /\ run[r].user = u
  <1>1. ASSUME Inv, [Next]_vars PROVE [A]_vars
    <2>0. rank \in [Users -> RankLevel] /\ \A level \in RankLevel : level \in Int
      BY <1>1, Levels DEF Inv, TypeInv, TypeOK
    <2>1. CASE UNCHANGED rank
      BY <2>0, <2>1
    <2>2. ASSUME NEW r \in Runs, UpdateUser(r) PROVE A
      <3>1. PICK u : u = run[r].user
        OBVIOUS
      <3>2. run[r] \in Promoting /\ run[r].pc = "update"
        <4>1. run[r] \in RunState /\ run[r].pc = "update"
          BY <1>1, <2>2 DEF Inv, TypeInv, TypeOK, RunState, UpdateUser, At
        <4> QED
          BY <4>1, Shapes
      <3>3. u \in Users /\ run[r].target \in RankLevel
        BY <3>1, <3>2 DEF Promoting, RankLevel
      <3>4. u \notin overlapped => run[r].target > rank[u]
        <4>1. u \notin overlapped => Consistent(run[r], u)
          BY <1>1, <3>3 DEF Inv, UserInv
        <4> QED
          BY <3>1, <3>2, <4>1 DEF Consistent, Evaluates
      <3>5. rank' = [rank EXCEPT ![u] = run[r].target]
        BY <2>2, <3>1 DEF UpdateUser
      <3> QED
        BY <2>0, <3>3, <3>4, <3>5
    <2>3. ASSUME NEW r \in Runs, SetRank(r) PROVE A
      <3>1. \A u \in Users : u # run[r].user => rank'[u] = rank[u]
        BY <2>0, <2>3 DEF SetRank
      <3> QED
        BY <2>0, <2>3, <3>1
    <2>4. ASSUME NEW r \in Runs, Called(r) \/ Step(r) \/ Fail(r)
          PROVE  UNCHANGED rank \/ UpdateUser(r) \/ SetRank(r)
      BY <2>4 DEF Called, CallEvaluate, ApproveDeposit, CallCorrect, CallDistribute, Fail, Step,
                  ReadUser, CountQualifying, CountLv1, CountTeam, NotPromoted, FindHistory,
                  UpsertUserRank, CreateRankHistory, CreditBonus, BonusEntry, ReadRank, ReadRanks,
                  NextRank, Distributed, FindLatest, CreateCycle, CycleExists, CreditPool, PoolEntry,
                  UpdateEarned, MarkAsCredited
    <2>5. Crash => UNCHANGED rank
      BY DEF Crash
    <2>6. UNCHANGED vars => UNCHANGED rank
      BY DEF vars
    <2> QED
      BY <1>1, <2>1, <2>2, <2>3, <2>4, <2>5, <2>6 DEF Next
  <1>2. NeverDowngraded <=> [][A]_vars
    BY DEF NeverDowngraded
  <1> HIDE DEF A
  <1>3. Spec => [][A]_vars
    BY <1>1, Invariance, PTL DEF Spec
  <1> QED
    BY <1>2, <1>3

(* ---------------------------------------------------------------------- *)
(* Who was promoted has the bonus                                         *)

\* A promotion of u that has written the rank and still has to pay.
Promotes(x, u) == x.pc \in {"find", "upsert", "history", "bonus"} /\ x.user = u
Promoted(x, u) == x.pc \in {"find", "upsert", "history"} /\ x.user = u
Due(x, u, level) == x.pc = "bonus" /\ x.user = u /\ x.target = level

\* The levels of the history are those paid for or about to be, and the rank is
\* the highest, unless a promotion that is not in the history yet has raised it.
Told(u) ==
    /\ history[u] \subseteq RANK_ORDER
    /\ \A level \in history[u] : level <= rank[u]
    /\ rank[u] \in {NONE} \cup history[u] \/ \E r \in Runs : Promoted(run[r], u)
    /\ \A level \in RANK_ORDER :
           level \in history[u] <=> paid[u][level] = 1 \/ \E r \in Runs : Due(run[r], u, level)
    /\ \A r \in Runs : Promoted(run[r], u) =>
           /\ run[r].target = rank[u] /\ run[r].target \notin history[u]
           /\ run[r].pc # "find" => ~run[r].alreadyAchieved

Disturbed == corrected \cup overlapped \cup interrupted
ToldInv == Inv /\ \A u \in Users \ Disturbed : Told(u)

\* Nobody is taken off a list of those disturbed.
LEMMA DisturbedGrows ==
    ASSUME Inv, [Next]_vars
    PROVE  /\ corrected \subseteq corrected' /\ overlapped \subseteq overlapped'
           /\ interrupted \subseteq interrupted'
  <1>1. CASE UNCHANGED vars
    BY <1>1 DEF vars, observed
  <1>2. CASE Crash
    BY <1>2 DEF Crash
  <1>3. ASSUME NEW r \in Runs, Called(r)
        PROVE  /\ corrected \subseteq corrected' /\ overlapped \subseteq overlapped'
               /\ interrupted \subseteq interrupted'
    BY <1>3 DEF Called, CallEvaluate, ApproveDeposit, CallCorrect, CallDistribute, WithOverlap,
                observed
  <1>4. ASSUME NEW r \in Runs, Fail(r)
        PROVE  /\ corrected \subseteq corrected' /\ overlapped \subseteq overlapped'
               /\ interrupted \subseteq interrupted'
    BY <1>4 DEF Fail
  <1>5. ASSUME NEW r \in Runs, Step(r)
        PROVE  /\ corrected \subseteq corrected' /\ overlapped \subseteq overlapped'
               /\ interrupted \subseteq interrupted'
    <2>1. CASE NotPromoted(r) \/ BonusEntry(r) \/ CreateRankHistory(r) \/ SetRank(r)
      BY <2>1 DEF NotPromoted, BonusEntry, CreateRankHistory, EvaluateSponsor, WithOverlap, SetRank
    <2>2. CASE ~(NotPromoted(r) \/ BonusEntry(r) \/ CreateRankHistory(r) \/ SetRank(r))
      <3>1. UNCHANGED observed
        BY <1>5, <2>2
        DEF Step, ReadUser, CountQualifying, CountLv1, CountTeam, UpdateUser, FindHistory,
            UpsertUserRank, CreditBonus, ReadRank, ReadRanks, NextRank, Distributed, FindLatest,
            CreateCycle, CycleExists, CreditPool, PoolEntry, UpdateEarned, MarkAsCredited
      <3> QED
        BY <3>1 DEF observed
    <2> QED
      BY <2>1, <2>2
  <1> QED
    BY <1>1, <1>2, <1>3, <1>4, <1>5 DEF Next

\* A step of a run that promotes somebody else, or nobody yet.
LEMMA ToldKept ==
    ASSUME ToldInv, [Next]_vars, NEW r \in Runs, NEW x, Moved(r, x),
           NEW u \in Users \ Disturbed', Same(u),
           ~Promotes(run[r], u), ~Promotes(x, u)
    PROVE  Told(u)'
  <1>0. run \in [Runs -> RunState]
    BY DEF ToldInv, Inv, TypeInv, TypeOK, RunState
  <1>1. u \notin Disturbed
    BY DisturbedGrows DEF ToldInv, Disturbed
  <1>2. run'[r] = x /\ \A s \in Runs \ {r} : run'[s] = run[s]
    BY <1>0 DEF Moved
  <1>3. \A s \in Runs : /\ Promotes(run[s], u) \/ Promotes(run'[s], u) => s # r
                        /\ s # r => run'[s] = run[s]
    BY <1>2
  <1>4. \A s \in Runs : /\ Promoted(run'[s], u) <=> Promoted(run[s], u)
                        /\ Promoted(run[s], u) => run'[s] = run[s]
                        /\ \A level : Due(run'[s], u, level) <=> Due(run[s], u, level)
    BY <1>3 DEF Promoted, Promotes, Due
  <1>5. Told(u) /\ rank'[u] = rank[u] /\ history'[u] = history[u] /\ paid'[u] = paid[u]
    BY <1>1 DEF ToldInv, Same
  <1> QED
    BY <1>4, <1>5 DEF Told

\* What is known of the one run that promotes u.
LEMMA Promoter ==
    ASSUME ToldInv, NEW r \in Runs, NEW u \in Users \ Disturbed, Promotes(run[r], u)
    PROVE  /\ Told(u) /\ Consistent(run[r], u) /\ Ranks(r, u)
           /\ \A s \in Runs \ {r} : ~Promotes(run[s], u)
  <1>1. Ranks(r, u)
    BY DEF Promotes, Ranks, Evaluates
  <1>2. UserInv(u) /\ Told(u)
    BY DEF ToldInv, Inv, Disturbed
  <1>3. \A s \in Runs : Promotes(run[s], u) => Ranks(s, u)
    BY DEF Promotes, Ranks, Evaluates
  <1> QED
    BY <1>1, <1>2, <1>3 DEF UserInv, Alone

\* What a step of a promotion does to its run.
PromotionStep(r) ==
    UpdateUser(r) \/ FindHistory(r) \/ UpsertUserRank(r) \/ CreateRankHistory(r) \/ CreditBonus(r)

\* Where a promotion goes on.
LEMMA PromotionSteps ==
    ASSUME TypeInv, NEW r \in Runs, PromotionStep(r)
    PROVE  /\ run[r] \in Promoting /\ run[r].user \in Users /\ run[r].target \in RANK_ORDER
           /\ run[r].alreadyAchieved \in BOOLEAN /\ Bonus(r) \in Nat
           /\ \E x \in RunState :
                 /\ Moved(r, x)
                 /\ \/ /\ x.user = run[r].user /\ x.target = run[r].target
                       /\ ~FindHistory(r) => x.alreadyAchieved = run[r].alreadyAchieved
                       /\ \/ UpdateUser(r) /\ run[r].pc = "update" /\ x.pc = "find"
                          \/ /\ FindHistory(r) /\ run[r].pc = "find" /\ x.pc = "upsert"
                             /\ x.alreadyAchieved <=> run[r].target \in history[run[r].user]
                          \/ UpsertUserRank(r) /\ run[r].pc = "upsert" /\ x.pc = "history"
                          \/ /\ CreateRankHistory(r) /\ run[r].pc = "history" /\ x.pc = "bonus"
                             /\ Bonus(r) > 0
                          \/ CreditBonus(r) /\ run[r].pc = "bonus" /\ x.pc = "entry"
                    \/ /\ CreateRankHistory(r) /\ run[r].pc = "history" /\ Bonus(r) = 0
                       /\ x.pc \in {"idle", "read"}
  <1>0. run \in [Runs -> RunState] /\ run[r] \in RunState
    BY DEF TypeInv, TypeOK, RunState
  <1>1. run[r].pc \in {"update", "find", "upsert", "history", "bonus"} /\ run[r] \in Promoting
    BY <1>0, Shapes
    DEF PromotionStep, UpdateUser, FindHistory, UpsertUserRank, CreateRankHistory, CreditBonus, At
  <1>2. /\ run[r].user \in Users /\ run[r].target \in RANK_ORDER /\ Bonus(r) \in Nat
        /\ run[r].alreadyAchieved \in BOOLEAN /\ Ranks(r, run[r].user)
    BY <1>1, Levels DEF Promoting, Bonus, Ranks, Evaluates
  <1>3. ASSUME NEW pc \in {"find", "upsert", "history", "bonus", "entry"}, Continue(r, pc),
               UNCHANGED overlapped
        PROVE  \E x \in RunState :
                   /\ Moved(r, x) /\ x.pc = pc /\ x.user = run[r].user
                   /\ x.target = run[r].target /\ x.alreadyAchieved = run[r].alreadyAchieved
    <2>1. PICK x : x = [run[r] EXCEPT !.pc = pc]
      OBVIOUS
    <2>2. /\ x \in RunState /\ x.pc = pc /\ x.user = run[r].user /\ x.target = run[r].target
          /\ x.alreadyAchieved = run[r].alreadyAchieved
      BY <1>1, <2>1 DEF RunState, Promoting
    <2>3. run' = [run EXCEPT ![r] = x]
      BY <1>0, <1>3, <2>1 DEF Continue
    <2>4. Moved(r, x)
      BY <1>2, <1>3, <2>2, <2>3, GoesOn
    <2> QED
      BY <2>2, <2>4
  <1>4. CASE UpdateUser(r)
    <2>1. Continue(r, "find") /\ UNCHANGED overlapped /\ run[r].pc = "update"
      BY <1>4 DEF UpdateUser, observed, At
    <2> QED
      BY <1>1, <1>2, <1>3, <1>4, <2>1 DEF FindHistory, At
  <1>5. CASE FindHistory(r)
    <2>1. PICK b \in BOOLEAN : b <=> run[r].target \in history[run[r].user]
      OBVIOUS
    <2>2. PICK x : x = [run[r] EXCEPT !.pc = "upsert", !.alreadyAchieved = b]
      OBVIOUS
    <2>3. /\ x \in RunState /\ x.pc = "upsert" /\ x.user = run[r].user
          /\ x.target = run[r].target /\ x.alreadyAchieved = b
      BY <1>1, <2>2 DEF RunState, Promoting
    <2>4. x = [run[r] EXCEPT !.pc = "upsert",
                             !.alreadyAchieved = run[r].target \in history[run[r].user]]
      <3>1. CASE b
        BY <2>1, <2>2, <3>1
      <3>2. CASE ~b
        BY <2>1, <2>2, <3>2
      <3> QED
        BY <3>1, <3>2
    <2>5. run' = [run EXCEPT ![r] = x] /\ UNCHANGED overlapped /\ run[r].pc = "find"
      BY <1>0, <1>5, <2>4 DEF FindHistory, observed, At
    <2>6. Moved(r, x)
      BY <1>2, <2>3, <2>5, GoesOn
    <2>7. x.alreadyAchieved <=> run[r].target \in history[run[r].user]
      BY <2>1, <2>3
    <2> QED
      BY <1>1, <1>2, <1>5, <2>3, <2>5, <2>6, <2>7
  <1>6. CASE UpsertUserRank(r)
    <2>1. Continue(r, "history") /\ UNCHANGED overlapped /\ run[r].pc = "upsert"
      BY <1>6 DEF UpsertUserRank, observed, At
    <2> QED
      BY <1>1, <1>2, <1>3, <1>6, <2>1
  <1>7. CASE CreateRankHistory(r)
    <2>0. run[r].pc = "history"
      BY <1>7 DEF CreateRankHistory, At
    <2>1. CASE Bonus(r) > 0
      <3>1. Continue(r, "bonus") /\ UNCHANGED overlapped
        BY <1>7, <2>1 DEF CreateRankHistory
      <3> QED
        BY <1>1, <1>2, <1>3, <1>7, <2>0, <2>1, <3>1
    <2>2. CASE ~(Bonus(r) > 0)
      <3>1. EvaluateSponsor(r, run[r].user) /\ Bonus(r) = 0
        BY <1>2, <1>7, <2>2 DEF CreateRankHistory
      <3>2. PICK x : Moved(r, x) /\ x.pc \in {"idle", "read"}
        BY <1>2, <3>1, SponsorMoved
      <3>3. x \in RunState
        BY <3>2 DEF Moved
      <3> QED
        BY <1>1, <1>2, <1>7, <2>0, <3>1, <3>2, <3>3
    <2> QED
      BY <2>1, <2>2
  <1>8. CASE CreditBonus(r)
    <2>1. Continue(r, "entry") /\ UNCHANGED overlapped /\ run[r].pc = "bonus"
      BY <1>8 DEF CreditBonus, observed, At
    <2> QED
      BY <1>1, <1>2, <1>3, <1>8, <2>1
  <1> QED
    BY <1>4, <1>5, <1>6, <1>7, <1>8 DEF PromotionStep

\* It changes no row of another user.
LEMMA PromotionOfOne ==
    ASSUME TypeInv, NEW r \in Runs, PromotionStep(r), NEW u \in Users, u # run[r].user
    PROVE  Same(u) /\ record'[u] = record[u] /\ bonusWallet'[u] = bonusWallet[u]
  <1>1. /\ rank \in [Users -> RankLevel] /\ record \in [Users -> Record \cup {NoRecord}]
        /\ history \in [Users -> SUBSET RankLevel] /\ paid \in [Users -> [RANK_ORDER -> Nat]]
        /\ bonusWallet \in [Users -> Nat]
    BY DEF TypeInv, TypeOK
  <1>2. rank'[u] = rank[u] /\ record'[u] = record[u] /\ history'[u] = history[u]
    BY <1>1 DEF PromotionStep, UpdateUser, FindHistory, UpsertUserRank, CreateRankHistory,
                CreditBonus
  <1>3. paid'[u] = paid[u] /\ bonusWallet'[u] = bonusWallet[u]
    BY <1>1 DEF PromotionStep, UpdateUser, FindHistory, UpsertUserRank, CreateRankHistory,
                CreditBonus, bonuses
  <1> QED
    BY <1>2, <1>3 DEF Same, Has

\* A step of a promotion keeps its user told.
LEMMA PromotionTold ==
    ASSUME ToldInv, [Next]_vars, NEW r \in Runs, PromotionStep(r), NEW u \in Users \ Disturbed'
    PROVE  Told(u)'
  <1>0. TypeInv /\ run \in [Runs -> RunState] /\ u \notin Disturbed
    BY DisturbedGrows DEF ToldInv, Inv, TypeInv, TypeOK, RunState, Disturbed
  <1>1. PICK x \in RunState :
            /\ Moved(r, x)
            /\ \/ /\ x.user = run[r].user /\ x.target = run[r].target
                  /\ ~FindHistory(r) => x.alreadyAchieved = run[r].alreadyAchieved
                  /\ \/ UpdateUser(r) /\ run[r].pc = "update" /\ x.pc = "find"
                     \/ /\ FindHistory(r) /\ run[r].pc = "find" /\ x.pc = "upsert"
                        /\ x.alreadyAchieved <=> run[r].target \in history[run[r].user]
                     \/ UpsertUserRank(r) /\ run[r].pc = "upsert" /\ x.pc = "history"
                     \/ /\ CreateRankHistory(r) /\ run[r].pc = "history" /\ x.pc = "bonus"
                        /\ Bonus(r) > 0
                     \/ CreditBonus(r) /\ run[r].pc = "bonus" /\ x.pc = "entry"
               \/ /\ CreateRankHistory(r) /\ run[r].pc = "history" /\ Bonus(r) = 0
                  /\ x.pc \in {"idle", "read"}
    BY <1>0, PromotionSteps, Zenon
  <1>2. CASE u # run[r].user
    <2>1. Same(u) /\ ~Promotes(run[r], u)
      BY <1>0, <1>2, PromotionOfOne DEF Promotes
    <2>2. ~Promotes(x, u)
      BY <1>1, <1>2 DEF Promotes
    <2> QED
      BY <1>1, <2>1, <2>2, ToldKept
  <1>3. CASE u = run[r].user
    <2> DEFINE t == run[r].target
    <2>1. t \in RANK_ORDER /\ run[r].alreadyAchieved \in BOOLEAN /\ Bonus(r) \in Nat
      BY <1>0, PromotionSteps
    <2>2. run'[r] = x /\ \A s \in Runs \ {r} : run'[s] = run[s]
      BY <1>0, <1>1 DEF Moved
    <2>3. /\ rank[u] \in RankLevel /\ history[u] \subseteq RankLevel
          /\ paid[u] \in [RANK_ORDER -> Nat]
          /\ RankLevel \subseteq Nat /\ RANK_ORDER \subseteq Nat
      BY <1>0, Levels DEF TypeInv, TypeOK
    <2>4. /\ Told(u) /\ Consistent(run[r], u) /\ Ranks(r, u) /\ PaidInHistory(u)
          /\ \A s \in Runs \ {r} : ~Ranks(s, u)
      <3>1. UserInv(u) /\ Told(u) /\ Ranks(r, u)
        BY <1>0, <1>1, <1>3 DEF ToldInv, Inv, Disturbed, Ranks, Evaluates
      <3> QED
        BY <3>1 DEF UserInv, Alone
    <2>5. \A s \in Runs \ {r} : ~Promotes(run[s], u) /\ ~Promotes(run'[s], u)
      BY <2>2, <2>4 DEF Promotes, Ranks, Evaluates
    <2>6. \A s \in Runs \ {r} : /\ ~Promoted(run[s], u) /\ ~Promoted(run'[s], u)
                                /\ \A level : ~Due(run[s], u, level) /\ ~Due(run'[s], u, level)
      BY <2>5 DEF Promotes, Promoted, Due
    <2>t. ASSUME history'[u] \subseteq RANK_ORDER,
                 \A level \in history'[u] : level <= rank'[u],
                 rank'[u] \in {NONE} \cup history'[u] \/ Promoted(x, u),
                 \A level \in RANK_ORDER :
                     level \in history'[u] <=> paid'[u][level] = 1 \/ Due(x, u, level),
                 Promoted(x, u) => /\ x.target = rank'[u] /\ x.target \notin history'[u]
                                   /\ x.pc # "find" => ~x.alreadyAchieved
          PROVE  Told(u)'
      <3>1. rank'[u] \in {NONE} \cup history'[u] \/ \E s \in Runs : Promoted(run'[s], u)
        BY <2>2, <2>t
      <3>2. \A level \in RANK_ORDER :
                level \in history'[u] <=> paid'[u][level] = 1 \/ \E s \in Runs : Due(run'[s], u, level)
        BY <2>2, <2>6, <2>t
      <3>3. \A s \in Runs : Promoted(run'[s], u) =>
                /\ run'[s].target = rank'[u] /\ run'[s].target \notin history'[u]
                /\ run'[s].pc # "find" => ~run'[s].alreadyAchieved
        BY <2>2, <2>6, <2>t
      <3> QED
        BY <2>t, <3>1, <3>2, <3>3 DEF Told
    <2>7. \A level \in RANK_ORDER :
              level \in history[u] <=> paid[u][level] = 1 \/ Due(run[r], u, level)
      BY <2>4, <2>6 DEF Told
    <2>8. /\ history[u] \subseteq RANK_ORDER /\ \A level \in history[u] : level <= rank[u]
          /\ rank[u] \in {NONE} \cup history[u] \/ Promoted(run[r], u)
          /\ Promoted(run[r], u) => /\ t = rank[u] /\ t \notin history[u]
                                    /\ run[r].pc # "find" => ~run[r].alreadyAchieved
      BY <2>4, <2>6 DEF Told
    <2>9. CASE UpdateUser(r) /\ run[r].pc = "update" /\ x.pc = "find"
      <3>1. rank'[u] = t /\ history' = history /\ paid' = paid
        BY <1>0, <1>3, <2>9 DEF UpdateUser, bonuses, TypeInv, TypeOK
      <3>2. t > rank[u]
        BY <1>3, <2>4, <2>9 DEF Consistent, Evaluates
      <3>3. Promoted(x, u) /\ x.target = t
        BY <1>1, <1>3, <2>9 DEF Promoted
      <3>4. ASSUME NEW level \in history[u] PROVE level <= t /\ level # t
        <4>1. level \in Nat /\ t \in Nat /\ rank[u] \in Nat /\ level <= rank[u]
          BY <2>1, <2>3, <2>8
        <4> QED
          BY <3>2, <4>1
      <3>5. \A level : Due(run[r], u, level) <=> Due(x, u, level)
        BY <2>9 DEF Due
      <3> QED
        BY <2>t, <2>7, <2>8, <2>9, <3>1, <3>3, <3>4, <3>5
    <2>10. CASE FindHistory(r) /\ run[r].pc = "find" /\ x.pc = "upsert"
      <3>1. rank' = rank /\ history' = history /\ paid' = paid
        BY <2>10 DEF FindHistory, bonuses
      <3>2. Promoted(x, u) /\ Promoted(run[r], u) /\ x.target = t
        BY <1>1, <1>3, <2>10 DEF Promoted
      <3>3. ~x.alreadyAchieved
        BY <1>1, <1>3, <2>8, <2>10, <3>2 DEF CreateRankHistory, At
      <3>4. \A level : Due(run[r], u, level) <=> Due(x, u, level)
        BY <2>10 DEF Due
      <3> QED
        BY <2>t, <2>7, <2>8, <3>1, <3>2, <3>3, <3>4
    <2>11. CASE UpsertUserRank(r) /\ run[r].pc = "upsert" /\ x.pc = "history"
      <3>1. rank' = rank /\ history' = history /\ paid' = paid
        BY <2>11 DEF UpsertUserRank, bonuses
      <3>2. Promoted(x, u) /\ Promoted(run[r], u) /\ x.target = t
        BY <1>1, <1>3, <2>11 DEF Promoted
      <3>3. ~x.alreadyAchieved
        BY <1>1, <2>8, <2>11, <3>2 DEF FindHistory, At
      <3>4. \A level : Due(run[r], u, level) <=> Due(x, u, level)
        BY <2>11 DEF Due
      <3> QED
        BY <2>t, <2>7, <2>8, <3>1, <3>2, <3>3, <3>4
    <2>12. CASE CreateRankHistory(r) /\ run[r].pc = "history"
      <3>1. rank' = rank /\ paid' = paid /\ history'[u] = history[u] \cup {t}
        BY <1>0, <1>3, <2>12 DEF CreateRankHistory, bonuses, TypeInv, TypeOK
      <3>2. Promoted(run[r], u) /\ t = rank[u] /\ t \notin history[u] /\ ~run[r].alreadyAchieved
        BY <1>3, <2>8, <2>12 DEF Promoted
      <3>3. Bonus(r) > 0
        <4>1. RANK_DEFINITIONS[t] \in Definition
          BY <2>1, DefinitionAssumption DEF RANK_ORDER
        <4> QED
          BY <3>2, <4>1 DEF Bonus, Definition
      <3>4. x.pc = "bonus" /\ x.user = u /\ x.target = t
        BY <1>1, <1>3, <2>12, <3>3 DEF UpdateUser, FindHistory, UpsertUserRank, CreditBonus, At
      <3>5. ~Promoted(x, u) /\ \A level : Due(x, u, level) <=> level = t
        BY <3>4 DEF Promoted, Due
      <3>6. \A level : ~Due(run[r], u, level)
        BY <2>12 DEF Due
      <3>7. \A level \in history'[u] : level <= rank'[u]
        <4>1. t <= rank'[u]
          <5>1. t \in Nat /\ rank'[u] = t
            BY <2>1, <2>3, <3>1, <3>2
          <5> QED
            BY <5>1
        <4> QED
          BY <2>8, <3>1, <4>1
      <3>8. \A level \in RANK_ORDER :
                level \in history'[u] <=> paid'[u][level] = 1 \/ Due(x, u, level)
        BY <2>7, <3>1, <3>5, <3>6
      <3> QED
        BY <2>1, <2>t, <2>8, <3>1, <3>2, <3>5, <3>7, <3>8
    <2>13. CASE CreditBonus(r) /\ run[r].pc = "bonus" /\ x.pc = "entry"
      <3>1. /\ rank' = rank /\ history' = history
            /\ paid'[u] = [paid[u] EXCEPT ![t] = paid[u][t] + 1]
        BY <1>0, <1>3, <2>13 DEF CreditBonus, TypeInv, TypeOK
      <3>2. paid[u][t] = 0 /\ t \in history[u]
        BY <1>3, <2>4, <2>13 DEF Consistent, Evaluates
      <3>3. paid'[u][t] = 1 /\ \A level \in RANK_ORDER \ {t} : paid'[u][level] = paid[u][level]
        BY <2>1, <2>3, <3>1, <3>2
      <3>4. /\ ~Promoted(x, u) /\ ~Promoted(run[r], u) /\ \A level : ~Due(x, u, level)
            /\ \A level : Due(run[r], u, level) <=> level = t
        BY <1>3, <2>13 DEF Promoted, Due
      <3>5. \A level \in RANK_ORDER :
                level \in history'[u] <=> paid'[u][level] = 1 \/ Due(x, u, level)
        BY <2>7, <3>1, <3>2, <3>3, <3>4
      <3> QED
        BY <2>t, <2>8, <3>1, <3>4, <3>5
    <2> QED
      BY <1>1, <2>9, <2>10, <2>11, <2>12, <2>13
  <1> QED
    BY <1>2, <1>3

\* Where an evaluation that counts goes on.
LEMMA CountingMoves ==
    ASSUME TypeInv, NEW r \in Runs,
           \/ ReadUser(r) \/ CountQualifying(r) \/ CountLv1(r)
           \/ \E target \in RANK_ORDER : CountTeam(r, target)
    PROVE  /\ run[r] \in Counting /\ run[r].user \in Users
           /\ \E x \in RunState :
                 /\ Moved(r, x) /\ x.user = run[r].user
                 /\ \/ /\ ReadUser(r) /\ run[r].pc = "read" /\ x.pc = "qualifying"
                    \/ /\ CountQualifying(r) /\ run[r].pc = "qualifying" /\ x.pc = "lv1"
                       /\ x.qualifying = QualifyingDirects(x.user)
                    \/ /\ CountLv1(r) /\ run[r].pc = "lv1" /\ x.pc = "team"
                       /\ x.qualifying = run[r].qualifying /\ x.lv1 = DirectLv1s(x.user)
                    \/ /\ run[r].pc = "team" /\ x.pc = "update"
                       /\ x.target \in RANK_ORDER /\ CountTeam(r, x.target)
  <1>0. run \in [Runs -> RunState] /\ run[r] \in RunState /\ rank \in [Users -> RankLevel]
    BY DEF TypeInv, TypeOK, RunState
  <1>1. run[r].pc \in {"read", "qualifying", "lv1", "team"} /\ run[r] \in Counting
    BY <1>0, Shapes DEF ReadUser, CountQualifying, CountLv1, CountTeam, At
  <1>2. run[r].user \in Users /\ Ranks(r, run[r].user) /\ UNCHANGED overlapped
    BY <1>1 DEF Counting, Ranks, Evaluates, ReadUser, CountQualifying, CountLv1, CountTeam, observed
  <1>k. ASSUME NEW x \in RunState, x.user = run[r].user, run' = [run EXCEPT ![r] = x]
        PROVE  Moved(r, x)
    BY <1>2, <1>k, GoesOn
  <1>3. CASE ReadUser(r)
    <2>1. PICK x : x = [run[r] EXCEPT !.pc = "qualifying", !.current = rank[run[r].user]]
      OBVIOUS
    <2>2. x \in RunState /\ x.pc = "qualifying" /\ x.user = run[r].user
      BY <1>0, <1>1, <1>2, <2>1 DEF RunState, Counting
    <2>3. run' = [run EXCEPT ![r] = x] /\ run[r].pc = "read"
      BY <1>0, <1>3, <2>1 DEF ReadUser, At
    <2> QED
      BY <1>1, <1>2, <1>3, <1>k, <2>2, <2>3
  <1>4. CASE CountQualifying(r)
    <2>1. PICK x : x = [run[r] EXCEPT !.pc = "lv1", !.qualifying = QualifyingDirects(run[r].user)]
      OBVIOUS
    <2>2. /\ x \in RunState /\ x.pc = "lv1" /\ x.user = run[r].user
          /\ x.qualifying = QualifyingDirects(x.user)
      BY <1>1, <1>2, <2>1, Counts DEF RunState, Counting
    <2>3. run' = [run EXCEPT ![r] = x] /\ run[r].pc = "qualifying"
      BY <1>0, <1>4, <2>1 DEF CountQualifying, At
    <2> QED
      BY <1>1, <1>2, <1>4, <1>k, <2>2, <2>3
  <1>5. CASE CountLv1(r)
    <2>1. PICK x : x = [run[r] EXCEPT !.pc = "team", !.lv1 = DirectLv1s(run[r].user)]
      OBVIOUS
    <2>2. /\ x \in RunState /\ x.pc = "team" /\ x.user = run[r].user
          /\ x.qualifying = run[r].qualifying /\ x.lv1 = DirectLv1s(x.user)
      BY <1>1, <1>2, <2>1, Counts DEF RunState, Counting
    <2>3. run' = [run EXCEPT ![r] = x] /\ run[r].pc = "lv1"
      BY <1>0, <1>5, <2>1 DEF CountLv1, At
    <2> QED
      BY <1>1, <1>2, <1>5, <1>k, <2>2, <2>3
  <1>6. ASSUME NEW target \in RANK_ORDER, CountTeam(r, target)
        PROVE  \E x \in RunState : /\ Moved(r, x) /\ x.user = run[r].user
                                   /\ run[r].pc = "team" /\ x.pc = "update"
                                   /\ x.target \in RANK_ORDER /\ CountTeam(r, x.target)
    <2>1. PICK x : x = [pc |-> "update", user |-> run[r].user, target |-> target,
                        alreadyAchieved |-> FALSE]
      OBVIOUS
    <2>2. x \in RunState /\ x.pc = "update" /\ x.user = run[r].user /\ x.target = target
      BY <1>2, <2>1 DEF RunState, Promoting
    <2>3. run' = [run EXCEPT ![r] = x] /\ run[r].pc = "team"
      BY <1>6, <2>1 DEF CountTeam, Promote, At
    <2> QED
      BY <1>6, <1>k, <2>2, <2>3
  <1> QED
    BY <1>1, <1>2, <1>3, <1>4, <1>5, <1>6

\* ToldInv is kept by every step.
LEMMA NextTold == ToldInv /\ [Next]_vars => ToldInv'
  <1> SUFFICES ASSUME ToldInv, [Next]_vars, NEW u \in Users \ Disturbed'
               PROVE  Told(u)'
    BY NextInv DEF ToldInv
  <1>0. Inv /\ TypeInv /\ run \in [Runs -> RunState] /\ u \notin Disturbed
    BY DisturbedGrows DEF ToldInv, Inv, TypeInv, TypeOK, RunState, Disturbed
  <1>1. ASSUME NEW r \in Runs, CalmStep(r)
        PROVE  Told(u)'
    <2>1. Still /\ (run[r].pc \in {"find", "upsert", "history", "bonus"}
                        => run[r].user \in interrupted')
      BY <1>0, <1>1, CalmSteps
    <2>2. PICK x : Moved(r, x) /\ x.pc \in Calm
      BY <1>0, <1>1, CalmSteps
    <2>3. ~Promotes(run[r], u) /\ ~Promotes(x, u)
      BY <2>1, <2>2 DEF Promotes, Calm, Credits, Disturbed
    <2> QED
      BY <2>1, <2>2, <2>3, ToldKept DEF Still
  <1>2. ASSUME NEW r \in Runs,
               \/ ReadUser(r) \/ CountQualifying(r) \/ CountLv1(r)
               \/ \E target \in RANK_ORDER : CountTeam(r, target)
        PROVE  Told(u)'
    <2>1. PICK x : /\ Moved(r, x) /\ run[r].pc \in {"read", "qualifying", "lv1", "team"}
                   /\ x.pc \in {"qualifying", "lv1", "team", "update"}
      BY <1>0, <1>2, CountingMoves
    <2>2. Same(u)
      BY <1>2 DEF ReadUser, CountQualifying, CountLv1, CountTeam, Same, Has, bonuses
    <2>3. ~Promotes(run[r], u) /\ ~Promotes(x, u)
      BY <2>1 DEF Promotes
    <2> QED
      BY <2>1, <2>2, <2>3, ToldKept
  <1>3. ASSUME NEW r \in Runs, SetRank(r)
        PROVE  Told(u)'
    <2>1. u # run[r].user
      BY <1>3 DEF SetRank, Disturbed
    <2>2. Same(u)
      BY <1>0, <1>3, <2>1 DEF SetRank, Same, Has, bonuses, TypeInv, TypeOK
    <2>3. Moved(r, Idle) /\ Idle.pc = "idle"
      BY <1>3 DEF SetRank, End, Moved, Idle, RunState, Ranking, Evaluates
    <2>4. ~Promotes(run[r], u) /\ ~Promotes(Idle, u)
      BY <2>1, <2>3 DEF Promotes
    <2> QED
      BY <2>2, <2>3, <2>4, ToldKept
  <1>4. CASE Crash
    <2>1. \A r \in Runs : ~Promotes(run[r], u) /\ run'[r].pc = "idle"
      BY <1>4 DEF Crash, Midway, Promotes, Disturbed, Idle
    <2>2. /\ rank' = rank /\ history' = history /\ paid' = paid
      BY <1>4 DEF Crash, bonuses
    <2>3. Told(u)
      BY <1>0 DEF ToldInv
    <2> QED
      BY <2>1, <2>2, <2>3 DEF Told, Promotes, Promoted, Due
  <1>5. CASE UNCHANGED vars
    <2>1. Told(u)
      BY <1>0 DEF ToldInv
    <2> QED
      BY <1>5, <2>1 DEF Told, Promoted, Due, vars, bonuses
  <1>6. ASSUME NEW r \in Runs, Called(r) \/ Step(r) \/ Fail(r)
        PROVE  Told(u)'
    <2>1. \/ CalmStep(r)
          \/ ReadUser(r) \/ CountQualifying(r) \/ CountLv1(r)
          \/ \E target \in RANK_ORDER : CountTeam(r, target)
          \/ PromotionStep(r)
          \/ SetRank(r)
      BY <1>6 DEF Step, CalmStep, PromotionStep
    <2> QED
      BY <1>1, <1>2, <1>3, <2>1, PromotionTold
  <1> QED
    BY <1>4, <1>5, <1>6 DEF Next

\* Nothing is told at the start.
LEMMA InitTold == Init => ToldInv
  <1> SUFFICES ASSUME Init, NEW u \in Users
               PROVE  Told(u)
    BY InitInv DEF ToldInv
  <1>1. \A r \in Runs : run[r].pc = "idle"
    BY DEF Init, Idle
  <1>2. rank[u] = NONE /\ history[u] = {} /\ \A level \in RANK_ORDER : paid[u][level] = 0
    BY DEF Init
  <1> QED
    BY <1>1, <1>2 DEF Told, Promoted, Due

\* The invariant says what the property asks.
LEMMA ToldTells == ToldInv => HistoryTellsRewards
  <1> SUFFICES ASSUME ToldInv, NEW u \in Users \ corrected, Undisturbed(u)
               PROVE  /\ history[u] = {level \in RANK_ORDER : paid[u][level] = 1}
                      /\ rank[u] \in {NONE} \cup history[u]
                      /\ \A level \in history[u] : level <= rank[u]
    BY DEF HistoryTellsRewards
  <1>1. Told(u)
    BY DEF ToldInv, Disturbed, Undisturbed
  <1>2. \A r \in Runs : ~Promotes(run[r], u)
    BY DEF Undisturbed, Quiet, Midway, Promotes
  <1>3. \A r \in Runs : ~Promoted(run[r], u) /\ \A level : ~Due(run[r], u, level)
    BY <1>2 DEF Promotes, Promoted, Due
  <1> QED
    BY <1>1, <1>3 DEF Told

(* ---------------------------------------------------------------------- *)
(* The record says what the wallet was credited with                      *)

\* What a total that can be counted becomes when one of its terms changes.
LEMMA TotalChanges ==
    ASSUME NEW S, NEW f \in [S -> Nat], NEW g \in [S -> Nat], NEW x \in S,
           \A y \in S \ {x} : g[y] = f[y], IsFiniteSet(Units(f))
    PROVE  /\ IsFiniteSet(Units(g))
           /\ Total(g) = Total(f) - f[x] + g[x]
           /\ Total(f) \in Nat /\ f[x] <= Total(f)
  <1> DEFINE Column(k) == {x} \X (1..k)
             Rest == Units(f) \ Column(f[x])
  <1>1. \A k \in Nat : IsFiniteSet(Column(k)) /\ Cardinality(Column(k)) = k
    <2> TAKE k \in Nat
    <2>1. IsFiniteSet(1..k) /\ Cardinality(1..k) = k
      <3>1. 1 \in Int /\ k \in Int /\ (IF 1 > k THEN 0 ELSE k - 1 + 1) = k
        OBVIOUS
      <3> QED
        BY <3>1, FS_Interval, Zenon
    <2>2. IsFiniteSet({x}) /\ Cardinality({x}) = 1
      BY FS_Singleton, Zenon
    <2>3. IsFiniteSet(Column(k)) /\ Cardinality(Column(k)) = Cardinality({x}) * Cardinality(1..k)
      BY <2>1, <2>2, FS_Product
    <2> QED
      BY <2>1, <2>2, <2>3
  <1>2. Units(f) \cap Column(f[x]) = Column(f[x])
    BY DEF Units
  <1>3. Units(g) = Rest \cup Column(g[x]) /\ Rest \cap Column(g[x]) = {}
    BY DEF Units
  <1> HIDE DEF Column
  <1>4. IsFiniteSet(Rest) /\ Cardinality(Rest) = Cardinality(Units(f)) - Cardinality(Column(f[x]))
    BY <1>2, FS_Difference
  <1> HIDE DEF Rest
  <1>5. /\ IsFiniteSet(Units(g))
        /\ Cardinality(Units(g)) = Cardinality(Rest) + Cardinality(Column(g[x])) - Cardinality({})
    <2>1. IsFiniteSet(Column(g[x]))
      BY <1>1
    <2> QED
      BY <1>3, <1>4, <2>1, FS_Union
  <1>6. Cardinality(Units(f)) \in Nat /\ Cardinality(Rest) \in Nat /\ Cardinality({}) = 0
    BY <1>4, FS_CardinalityType, FS_EmptySet
  <1>7. Cardinality(Column(f[x])) = f[x] /\ Cardinality(Column(g[x])) = g[x]
    BY <1>1
  <1> QED
    BY <1>4, <1>5, <1>6, <1>7 DEF Total

\* A total whose terms only shrink does not grow.
LEMMA TotalShrinks ==
    ASSUME NEW S, NEW f \in [S -> Nat], NEW g \in [S -> Nat],
           \A x \in S : g[x] <= f[x], IsFiniteSet(Units(f))
    PROVE  IsFiniteSet(Units(g)) /\ Total(g) <= Total(f) /\ Total(g) \in Nat /\ Total(f) \in Nat
  <1>1. Units(g) \subseteq Units(f)
    BY DEF Units
  <1> QED
    BY <1>1, FS_Subset, FS_CardinalityType DEF Total

\* The total of nothing.
LEMMA TotalOfNothing ==
    ASSUME NEW S PROVE IsFiniteSet(Units([x \in S |-> 0])) /\ Total([x \in S |-> 0]) = 0
  <1>1. Units([x \in S |-> 0]) = {}
    BY DEF Units
  <1> QED
    BY <1>1, FS_EmptySet DEF Total

\* What a promotion in state x has added to the record of u and not yet paid.
BonusOf(x) == IF x.alreadyAchieved THEN 0 ELSE RANK_DEFINITIONS[x.target].rankBonus
OwedBy(x, u) == IF x.pc \in {"history", "bonus"} /\ x.user = u THEN BonusOf(x) ELSE 0
Owed(u) == [r \in Runs |-> OwedBy(run[r], u)]
OwedTyped == \A u \in Users : Owed(u) \in [Runs -> Nat]

Earned(u) == IF Has(u) THEN record[u].bonusEarned ELSE 0

EarnedPaid(u) ==
    /\ IsFiniteSet(Units(Owed(u)))
    /\ bonusWallet[u] + Total(Owed(u)) <= Earned(u)
    /\ u \notin interrupted => bonusWallet[u] + Total(Owed(u)) = Earned(u)

EarnInv == TypeInv /\ \A u \in Users : EarnedPaid(u)

\* What is owed is a natural number.
LEMMA OwedIsNat ==
    ASSUME NEW x \in RunState, NEW u
    PROVE  OwedBy(x, u) \in Nat
  <1>1. CASE x.pc \in {"history", "bonus"}
    <2>1. x \in Promoting
      BY <1>1, Shapes
    <2>2. BonusOf(x) \in Nat
      BY <2>1, Levels DEF Promoting, BonusOf
    <2> QED
      BY <2>2 DEF OwedBy
  <1>2. CASE x.pc \notin {"history", "bonus"}
    BY <1>2 DEF OwedBy
  <1> QED
    BY <1>1, <1>2

\* All that is owed to a user, typed.
LEMMA TypedOwed == TypeInv => OwedTyped
  <1>1. TypeInv => \A r \in Runs : run[r] \in RunState
    BY DEF TypeInv, TypeOK, RunState
  <1> QED
    BY <1>1, OwedIsNat DEF OwedTyped, Owed

\* Likewise in the next state.
LEMMA TypedOwedNext == TypeInv' => OwedTyped'
  BY TypedOwed, PTL

\* What was earned and paid are natural numbers.
LEMMA EarnedIsNat ==
    ASSUME TypeInv, NEW u \in Users
    PROVE  Earned(u) \in Nat /\ bonusWallet[u] \in Nat
  BY DEF TypeInv, TypeOK, Earned, Has, Record

\* Likewise in the next state.
LEMMA EarnedIsNatNext ==
    TypeInv' => \A u \in Users : (Earned(u) \in Nat /\ bonusWallet[u] \in Nat)'
  <1> SUFFICES ASSUME TypeInv', NEW u \in Users
               PROVE  Earned(u)' \in Nat /\ bonusWallet'[u] \in Nat
    OBVIOUS
  <1>1. record'[u] \in Record \cup {NoRecord} /\ bonusWallet'[u] \in Nat
    BY DEF TypeInv, TypeOK
  <1> QED
    BY <1>1 DEF Earned, Has, Record

\* A run pays as much as it then no longer owes, or its promotion is cut short.
LEMMA StaysPaid ==
    ASSUME EarnInv, TypeInv', NEW r \in Runs, NEW x, Moved(r, x), NEW u \in Users,
           interrupted \subseteq interrupted',
           \/ bonusWallet'[u] + OwedBy(x, u) + Earned(u)
                  = bonusWallet[u] + OwedBy(run[r], u) + Earned(u)'
           \/ /\ u \in interrupted'
              /\ bonusWallet'[u] = bonusWallet[u] /\ Earned(u)' = Earned(u)
              /\ OwedBy(x, u) <= OwedBy(run[r], u)
    PROVE  EarnedPaid(u)'
  <1> DEFINE owed == Owed(u)
             next == [s \in Runs |-> OwedBy(run'[s], u)]
  <1>0. TypeInv /\ run \in [Runs -> RunState]
    BY DEF EarnInv, TypeInv, TypeOK, RunState
  <1>1. owed \in [Runs -> Nat] /\ Owed(u)' \in [Runs -> Nat]
    BY <1>0, TypedOwed, TypedOwedNext DEF OwedTyped
  <1>2. Owed(u)' = next
    BY DEF Owed
  <1>3. next \in [Runs -> Nat] /\ next[r] = OwedBy(x, u) /\ owed[r] = OwedBy(run[r], u)
    BY <1>0, <1>1, <1>2 DEF Owed, Moved
  <1>4. \A s \in Runs \ {r} : next[s] = owed[s]
    BY <1>0 DEF Owed, Moved
  <1>5. IsFiniteSet(Units(owed))
    BY DEF EarnInv, EarnedPaid
  <1> HIDE DEF next, owed
  <1>6. /\ IsFiniteSet(Units(next))
        /\ Total(next) = Total(owed) - owed[r] + next[r]
        /\ Total(owed) \in Nat /\ owed[r] <= Total(owed)
    BY <1>1, <1>3, <1>4, <1>5, TotalChanges
  <1>7. /\ bonusWallet[u] \in Nat /\ bonusWallet'[u] \in Nat
        /\ Earned(u) \in Nat /\ Earned(u)' \in Nat
        /\ owed[r] \in Nat /\ next[r] \in Nat
    BY <1>0, <1>1, <1>3, EarnedIsNat, EarnedIsNatNext
  <1>8. /\ bonusWallet[u] + Total(owed) <= Earned(u)
        /\ u \notin interrupted => bonusWallet[u] + Total(owed) = Earned(u)
    BY DEF EarnInv, EarnedPaid, owed
  <1>9. /\ bonusWallet'[u] + Total(next) <= Earned(u)'
        /\ u \notin interrupted' => bonusWallet'[u] + Total(next) = Earned(u)'
    BY <1>3, <1>6, <1>7, <1>8
  <1>10. IsFiniteSet(Units(Owed(u)')) /\ Total(Owed(u)') = Total(next)
    BY <1>2, <1>6
  <1> QED
    BY <1>9, <1>10 DEF EarnedPaid, Total, Units

\* A step that pays nothing and adds nothing to a record, of a run that owes
\* nothing afterwards and nothing before, unless it is cut short.
LEMMA PaysNothing ==
    ASSUME EarnInv, TypeInv', NEW r \in Runs, NEW x, Moved(r, x), NEW u \in Users,
           x.pc \notin {"history", "bonus"} \/ x.user # u,
           run[r].pc \in {"history", "bonus"} => run[r].user # u \/ u \in interrupted',
           interrupted \subseteq interrupted',
           bonusWallet'[u] = bonusWallet[u], Earned(u)' = Earned(u)
    PROVE  EarnedPaid(u)'
  <1>1. TypeInv /\ OwedBy(run[r], u) \in Nat
    BY TypedOwed DEF EarnInv, OwedTyped, Owed
  <1>2. OwedBy(x, u) = 0
    BY DEF OwedBy
  <1>3. OwedBy(run[r], u) = 0 \/ u \in interrupted'
    BY DEF OwedBy
  <1>4. bonusWallet[u] \in Nat /\ Earned(u) \in Nat
    BY <1>1, EarnedIsNat
  <1> QED
    BY <1>1, <1>2, <1>3, <1>4, StaysPaid

\* Steps that promote nobody leave what records earned and what was paid alone.
LEMMA CalmEarns ==
    ASSUME TypeInv, NEW r \in Runs, CalmStep(r), NEW u \in Users
    PROVE  bonusWallet'[u] = bonusWallet[u] /\ Earned(u)' = Earned(u)
  <1>1. CASE UpdateEarned(r)
    <2>1. run[r].pc \in Credits /\ run[r] \in RunState
      BY <1>1 DEF UpdateEarned, At, Credits, TypeInv, TypeOK, RunState
    <2>2. run[r].user \in Users /\ Has(run[r].user)
      BY <2>1, Shapes DEF Crediting, TypeInv, Recorded
    <2>3. record \in [Users -> Record \cup {NoRecord}] /\ record[run[r].user] \in Record
      BY <2>2 DEF TypeInv, TypeOK, Has
    <2>4. PICK y : record' = [record EXCEPT ![run[r].user] = [record[run[r].user] EXCEPT !.cycleEarned = y]]
      BY <1>1, <2>2, <2>3 DEF UpdateEarned
    <2>5. bonusWallet' = bonusWallet
      BY <1>1 DEF UpdateEarned, bonuses
    <2>6. CASE u = run[r].user
      <3>1. record'[u] = [record[u] EXCEPT !.cycleEarned = y]
        BY <2>3, <2>4, <2>6
      <3>2. record'[u].bonusEarned = record[u].bonusEarned /\ record'[u].level = record[u].level
        BY <2>3, <2>6, <3>1 DEF Record
      <3>3. record[u].level # -1
        BY <2>3, <2>6, Levels DEF Record
      <3>4. Has(u) /\ Has(u)'
        BY <2>2, <2>6, <3>2, <3>3 DEF Has, NoRecord
      <3> QED
        BY <2>5, <3>2, <3>4 DEF Earned
    <2>7. CASE u # run[r].user
      <3>1. record'[u] = record[u]
        BY <2>3, <2>4, <2>7
      <3> QED
        BY <2>5, <3>1 DEF Earned, Has
    <2> QED
      BY <2>6, <2>7
  <1>2. CASE ~UpdateEarned(r)
    <2>1. UNCHANGED <<record, bonusWallet>>
      <3>1. CASE Called(r)
        BY <3>1 DEF Called, CallEvaluate, ApproveDeposit, CallCorrect, CallDistribute, bonuses
      <3>2. CASE Fail(r)
        BY <3>2 DEF Fail, bonuses
      <3>3. CASE ~Called(r) /\ ~Fail(r)
        BY <1>2, <3>3 DEF CalmStep, ReadRank, NotPromoted, BonusEntry, ReadRanks, Distributed, NextRank,
               FindLatest, CreateCycle, CycleExists, CreditPool, PoolEntry, MarkAsCredited, bonuses
      <3> QED
        BY <3>1, <3>2, <3>3
    <2> QED
      BY <2>1 DEF Earned, Has
  <1> QED
    BY <1>1, <1>2

\* What a record has earned when it changes its level.
LEMMA EarnedAtLevel ==
    ASSUME TypeInv, NEW u \in Users, NEW level \in RankLevel, NEW bonus \in Nat
    PROVE  AtLevel(u, level, bonus).bonusEarned = Earned(u) + bonus
  <1>1. CASE Has(u)
    <2>1. record[u] \in Record
      BY <1>1 DEF TypeInv, TypeOK, Has
    <2>2. record[u].bonusEarned \in Nat
      BY <2>1 DEF Record
    <2>3. AtLevel(u, level, bonus) = [record[u] EXCEPT !.level = level,
                                                      !.bonusEarned = record[u].bonusEarned + bonus]
      BY <1>1 DEF AtLevel
    <2>4. AtLevel(u, level, bonus).bonusEarned = record[u].bonusEarned + bonus
      BY <2>1, <2>3 DEF Record
    <2> QED
      BY <1>1, <2>4 DEF Earned
  <1>2. CASE ~Has(u)
    BY <1>2 DEF AtLevel, Earned
  <1> QED
    BY <1>1, <1>2

\* A correction earns nothing.
LEMMA SetRankEarns ==
    ASSUME TypeInv, NEW r \in Runs, SetRank(r), NEW u \in Users
    PROVE  /\ bonusWallet'[u] = bonusWallet[u] /\ Earned(u)' = Earned(u)
           /\ run[r].pc = "set" /\ Moved(r, Idle)
  <1>0. /\ run[r].pc = "set" /\ run[r].user \in Users /\ run[r].level \in RankLevel
        /\ record \in [Users -> Record \cup {NoRecord}]
    <2>1. run[r].pc = "set" /\ run[r] \in RunState
      BY DEF SetRank, At, TypeInv, TypeOK, RunState
    <2> QED
      BY <2>1, Shapes DEF Correcting, TypeInv, TypeOK
  <1>1. Moved(r, Idle) /\ bonusWallet' = bonusWallet
    BY DEF SetRank, End, Moved, Idle, RunState, Ranking, Evaluates, bonuses
  <1>2. PICK v, level : v = run[r].user /\ level = run[r].level
    OBVIOUS
  <1>3. PICK row : /\ record' = [record EXCEPT ![v] = row]
                   /\ row = IF ~Has(v) /\ level = NONE THEN NoRecord ELSE AtLevel(v, level, 0)
    BY <1>2 DEF SetRank
  <1>4. CASE u # v
    <2>1. record'[u] = record[u]
      BY <1>0, <1>3, <1>4
    <2> QED
      BY <1>0, <1>1, <2>1 DEF Earned, Has
  <1>5. CASE u = v
    <2>1. record'[u] = row
      BY <1>0, <1>3, <1>5
    <2>2. CASE ~Has(u) /\ level = NONE
      <3>1. row = NoRecord
        BY <1>3, <1>5, <2>2
      <3> QED
        BY <1>0, <1>1, <2>1, <2>2, <3>1 DEF Earned, Has
    <2>3. CASE ~(~Has(u) /\ level = NONE)
      <3>1. row = AtLevel(u, level, 0) /\ level \in RankLevel
        BY <1>0, <1>2, <1>3, <1>5, <2>3
      <3>2. row # NoRecord /\ row.bonusEarned = Earned(u) + 0
        BY <3>1, Rows, EarnedAtLevel
      <3>3. Earned(u) \in Nat
        BY EarnedIsNat
      <3> QED
        BY <1>0, <1>1, <2>1, <3>2, <3>3 DEF Earned, Has
    <2> QED
      BY <2>2, <2>3
  <1> QED
    BY <1>4, <1>5

\* A step of a promotion pays what the record says was earned.
LEMMA PromotionEarns ==
    ASSUME EarnInv, TypeInv', NEW r \in Runs, PromotionStep(r), NEW u \in Users
    PROVE  EarnedPaid(u)'
  <1>0. TypeInv /\ run \in [Runs -> RunState]
    BY DEF EarnInv, TypeInv, TypeOK, RunState
  <1>1. PICK x \in RunState :
            /\ Moved(r, x)
            /\ \/ /\ x.user = run[r].user /\ x.target = run[r].target
                  /\ ~FindHistory(r) => x.alreadyAchieved = run[r].alreadyAchieved
                  /\ \/ UpdateUser(r) /\ run[r].pc = "update" /\ x.pc = "find"
                     \/ /\ FindHistory(r) /\ run[r].pc = "find" /\ x.pc = "upsert"
                        /\ x.alreadyAchieved <=> run[r].target \in history[run[r].user]
                     \/ UpsertUserRank(r) /\ run[r].pc = "upsert" /\ x.pc = "history"
                     \/ /\ CreateRankHistory(r) /\ run[r].pc = "history" /\ x.pc = "bonus"
                        /\ Bonus(r) > 0
                     \/ CreditBonus(r) /\ run[r].pc = "bonus" /\ x.pc = "entry"
               \/ /\ CreateRankHistory(r) /\ run[r].pc = "history" /\ Bonus(r) = 0
                  /\ x.pc \in {"idle", "read"}
    BY <1>0, PromotionSteps, Zenon
  <1>2. interrupted' = interrupted
    BY DEF PromotionStep, UpdateUser, FindHistory, UpsertUserRank, CreateRankHistory, CreditBonus,
           observed
  <1>3. /\ run[r].user \in Users /\ run[r].target \in RankLevel /\ Bonus(r) \in Nat
        /\ Bonus(r) = BonusOf(run[r]) /\ bonusWallet[u] \in Nat /\ Earned(u) \in Nat
    BY <1>0, PromotionSteps, EarnedIsNat DEF RankLevel, Bonus, BonusOf
  <1>4. CASE u # run[r].user
    <2>1. record'[u] = record[u] /\ bonusWallet'[u] = bonusWallet[u]
      BY <1>0, <1>4, PromotionOfOne
    <2>2. Earned(u)' = Earned(u)
      BY <2>1 DEF Earned, Has
    <2>3. x.pc \notin {"history", "bonus"} \/ x.user # u
      BY <1>1, <1>4
    <2> QED
      BY <1>1, <1>2, <1>4, <2>1, <2>2, <2>3, PaysNothing
  <1>5. CASE u = run[r].user
    <2>1. CASE UpsertUserRank(r) /\ run[r].pc = "upsert" /\ x.pc = "history"
      <3>1. x.user = u /\ BonusOf(x) = Bonus(r)
        BY <1>1, <1>3, <1>5, <2>1 DEF BonusOf, FindHistory, At
      <3>2. OwedBy(run[r], u) = 0 /\ OwedBy(x, u) = Bonus(r)
        BY <2>1, <3>1 DEF OwedBy
      <3>3. PICK row : /\ row = AtLevel(u, run[r].target, Bonus(r))
                       /\ record' = [record EXCEPT ![u] = row] /\ bonusWallet' = bonusWallet
        BY <1>5, <2>1 DEF UpsertUserRank, bonuses
      <3>4. row # NoRecord /\ row.bonusEarned = Earned(u) + Bonus(r)
        BY <1>0, <1>3, <3>3, Rows, EarnedAtLevel
      <3>5. record'[u] = row
        BY <1>0, <3>3 DEF TypeInv, TypeOK
      <3>6. Earned(u)' = Earned(u) + Bonus(r)
        BY <3>4, <3>5 DEF Earned, Has
      <3>7. bonusWallet'[u] + OwedBy(x, u) + Earned(u) = bonusWallet[u] + OwedBy(run[r], u) + Earned(u)'
        BY <1>3, <3>2, <3>3, <3>6
      <3> QED
        BY <1>1, <1>2, <3>7, StaysPaid
    <2>2. CASE CreditBonus(r) /\ run[r].pc = "bonus" /\ x.pc = "entry"
      <3>1. OwedBy(run[r], u) = Bonus(r) /\ OwedBy(x, u) = 0
        BY <1>3, <1>5, <2>2 DEF OwedBy
      <3>2. bonusWallet'[u] = bonusWallet[u] + Bonus(r) /\ record' = record
        BY <1>0, <1>5, <2>2 DEF CreditBonus, TypeInv, TypeOK
      <3>3. Earned(u)' = Earned(u)
        BY <3>2 DEF Earned, Has
      <3>4. bonusWallet'[u] + OwedBy(x, u) + Earned(u) = bonusWallet[u] + OwedBy(run[r], u) + Earned(u)'
        BY <1>3, <3>1, <3>2, <3>3
      <3> QED
        BY <1>1, <1>2, <3>4, StaysPaid
    <2>3. CASE \/ UpdateUser(r) /\ run[r].pc = "update" /\ x.pc = "find"
               \/ FindHistory(r) /\ run[r].pc = "find" /\ x.pc = "upsert"
               \/ CreateRankHistory(r) /\ run[r].pc = "history"
      <3>1. UNCHANGED <<record, bonusWallet>>
        BY <2>3 DEF UpdateUser, FindHistory, CreateRankHistory, bonuses
      <3>2. Earned(u)' = Earned(u)
        BY <3>1 DEF Earned, Has
      <3>3. OwedBy(x, u) = OwedBy(run[r], u)
        <4>1. CASE run[r].pc \in {"update", "find"} /\ x.pc \in {"find", "upsert"}
          BY <4>1 DEF OwedBy
        <4>2. CASE /\ CreateRankHistory(r) /\ run[r].pc = "history" /\ x.pc = "bonus"
                   /\ x.user = run[r].user /\ x.target = run[r].target
                   /\ x.alreadyAchieved = run[r].alreadyAchieved
          BY <4>2 DEF OwedBy, BonusOf
        <4>3. CASE run[r].pc = "history" /\ Bonus(r) = 0 /\ x.pc \in {"idle", "read"}
          BY <1>3, <1>5, <4>3 DEF OwedBy
        <4> QED
          BY <1>1, <2>3, <4>1, <4>2, <4>3 DEF FindHistory, At
      <3>4. OwedBy(run[r], u) \in Nat
        BY <1>0, OwedIsNat
      <3>5. bonusWallet'[u] + OwedBy(x, u) + Earned(u) = bonusWallet[u] + OwedBy(run[r], u) + Earned(u)'
        BY <3>1, <3>2, <3>3
      <3> QED
        BY <1>1, <1>2, <3>5, StaysPaid
    <2> QED
      BY <1>1, <2>1, <2>2, <2>3
  <1> QED
    BY <1>4, <1>5

\* EarnInv is kept by every step.
LEMMA NextEarn == EarnInv /\ [Next]_vars => EarnInv'
  <1> SUFFICES ASSUME EarnInv, [Next]_vars, NEW u \in Users
               PROVE  EarnedPaid(u)'
    BY NextTypeInv DEF EarnInv
  <1>0. TypeInv /\ TypeInv' /\ EarnedPaid(u)
    BY NextTypeInv DEF EarnInv
  <1>1. ASSUME NEW r \in Runs, CalmStep(r)
        PROVE  EarnedPaid(u)'
    <2>1. Still /\ (run[r].pc \in {"find", "upsert", "history", "bonus"}
                        => run[r].user \in interrupted')
      BY <1>0, <1>1, CalmSteps
    <2>2. PICK x : Moved(r, x) /\ x.pc \in Calm
      BY <1>0, <1>1, CalmSteps
    <2>3. bonusWallet'[u] = bonusWallet[u] /\ Earned(u)' = Earned(u)
      BY <1>0, <1>1, CalmEarns
    <2>4. x.pc \notin {"history", "bonus"}
      BY <2>2 DEF Calm, Credits
    <2> QED
      BY <1>0, <2>1, <2>2, <2>3, <2>4, PaysNothing DEF Still
  <1>2. ASSUME NEW r \in Runs,
               \/ ReadUser(r) \/ CountQualifying(r) \/ CountLv1(r)
               \/ \E target \in RANK_ORDER : CountTeam(r, target)
        PROVE  EarnedPaid(u)'
    <2>1. PICK x : /\ Moved(r, x) /\ run[r].pc \in {"read", "qualifying", "lv1", "team"}
                   /\ x.pc \in {"qualifying", "lv1", "team", "update"}
      BY <1>0, <1>2, CountingMoves
    <2>2. UNCHANGED <<record, bonusWallet, interrupted>>
      BY <1>2 DEF ReadUser, CountQualifying, CountLv1, CountTeam, bonuses, observed
    <2>3. Earned(u)' = Earned(u)
      BY <2>2 DEF Earned, Has
    <2> QED
      BY <1>0, <2>1, <2>2, <2>3, PaysNothing
  <1>3. ASSUME NEW r \in Runs, SetRank(r)
        PROVE  EarnedPaid(u)'
    <2>1. interrupted' = interrupted /\ Idle.pc = "idle"
      BY <1>3 DEF SetRank, Idle
    <2> QED
      BY <1>0, <1>3, <2>1, SetRankEarns, PaysNothing
  <1>4. CASE Crash
    <2>1. /\ bonusWallet' = bonusWallet /\ record' = record /\ interrupted \subseteq interrupted'
          /\ \A r \in Runs : run'[r].pc = "idle"
          /\ \A r \in Runs : run[r].pc \in {"history", "bonus"} => run[r].user \in interrupted'
      BY <1>4 DEF Crash, Midway, Idle, bonuses
    <2>2. Owed(u)' = [r \in Runs |-> 0] /\ Owed(u) \in [Runs -> Nat] /\ Earned(u)' = Earned(u)
      BY <1>0, <2>1, TypedOwed DEF Owed, OwedBy, OwedTyped, Earned, Has
    <2>3. IsFiniteSet(Units(Owed(u)')) /\ Total(Owed(u)') = 0
      BY <2>2, TotalOfNothing
    <2>4. Total(Owed(u)) \in Nat /\ bonusWallet[u] \in Nat /\ Earned(u) \in Nat
      BY <1>0, FS_CardinalityType, EarnedIsNat DEF EarnedPaid, Total
    <2>5. CASE u \in interrupted'
      BY <1>0, <2>1, <2>2, <2>3, <2>4, <2>5 DEF EarnedPaid, Total, Units
    <2>6. CASE u \notin interrupted'
      <3>1. \A r \in Runs : OwedBy(run[r], u) = 0
        BY <2>1, <2>6 DEF OwedBy
      <3>2. Owed(u)' = Owed(u)
        BY <2>2, <3>1 DEF Owed
      <3> QED
        BY <1>0, <2>1, <2>2, <3>2 DEF EarnedPaid, Total, Units
    <2> QED
      BY <2>5, <2>6
  <1>5. CASE UNCHANGED vars
    BY <1>0, <1>5 DEF EarnedPaid, Owed, Earned, Has, Total, Units, vars, bonuses, observed
  <1>6. ASSUME NEW r \in Runs, Called(r) \/ Step(r) \/ Fail(r)
        PROVE  EarnedPaid(u)'
    <2>1. \/ CalmStep(r)
          \/ ReadUser(r) \/ CountQualifying(r) \/ CountLv1(r)
          \/ \E target \in RANK_ORDER : CountTeam(r, target)
          \/ PromotionStep(r)
          \/ SetRank(r)
      BY <1>6 DEF Step, CalmStep, PromotionStep
    <2> QED
      BY <1>0, <1>1, <1>2, <1>3, <2>1, PromotionEarns
  <1> QED
    BY <1>0, <1>4, <1>5, <1>6 DEF Next

\* Nothing is earned at the start.
LEMMA InitEarn == Init => EarnInv
  <1> SUFFICES ASSUME Init, NEW u \in Users
               PROVE  EarnedPaid(u)
    BY InitTypeInv DEF EarnInv
  <1>1. Owed(u) = [r \in Runs |-> 0] /\ Earned(u) = 0 /\ bonusWallet[u] = 0
    BY DEF Init, Owed, OwedBy, Idle, Earned, Has
  <1>2. IsFiniteSet(Units(Owed(u))) /\ Total(Owed(u)) = 0
    BY <1>1, TotalOfNothing
  <1> QED
    BY <1>1, <1>2 DEF EarnedPaid

\* The invariant says what the property asks.
LEMMA EarnedTells == EarnInv => EarnedIsPaid
  <1> SUFFICES ASSUME EarnInv, NEW u \in Users
               PROVE  /\ bonusWallet[u] <= Earned(u)
                      /\ Quiet(u) /\ u \notin interrupted => bonusWallet[u] = Earned(u)
    BY DEF EarnedIsPaid, Earned
  <1>1. /\ EarnedPaid(u) /\ Total(Owed(u)) \in Nat
        /\ bonusWallet[u] \in Nat /\ Earned(u) \in Nat
    BY FS_CardinalityType, EarnedIsNat DEF EarnInv, EarnedPaid, Total
  <1>2. ASSUME Quiet(u)
        PROVE  Total(Owed(u)) = 0
    <2>1. \A r \in Runs : OwedBy(run[r], u) = 0
      BY <1>2 DEF Quiet, Midway, OwedBy
    <2>2. Owed(u) = [r \in Runs |-> 0]
      BY <2>1 DEF Owed
    <2> QED
      BY <2>2, TotalOfNothing
  <1> QED
    BY <1>1, <1>2 DEF EarnedPaid
(* ---------------------------------------------------------------------- *)
(* Cycles are paid once                                                   *)

\* Steps of a distribution from a row of a user's cycles to its last mark.
InCycle == {"pool", "poolEntry", "earned", "mark"}
InPool == {"poolEntry", "earned", "mark"}
Unrecorded == {"poolEntry", "earned"}

Cycling(x, u) == x.pc \in InCycle /\ x.user = u

\* The rows rows are as a distribution in state x, at the user they are of, left
\* them: it may add the next one, or has added one that is still pending.
Fits(x, rows) ==
    /\ x.pc = "create" => x.cycle - 1 \in {0} \cup DOMAIN rows
    /\ x.pc \in InCycle =>
           /\ x.cycle \in DOMAIN rows
           /\ rows[x.cycle] = [status |-> "PENDING", amount |-> CycleBonus(x.level)]

Gapless(rows) == \E k \in Nat : DOMAIN rows = 1..k

RowsInv(u) ==
    /\ Gapless(cycles[u])
    /\ \A r \in Runs : run[r].pc \in Credits /\ run[r].user = u => Fits(run[r], cycles[u])
    /\ \A r, s \in Runs : Cycling(run[r], u) /\ Cycling(run[s], u) /\ run[r].cycle = run[s].cycle
                              => r = s

\* The bonus of a distribution in state x, if it is at u and at one of pcs.
Share(x, pcs, u) == IF x.pc \in pcs /\ x.user = u THEN CycleBonus(x.level) ELSE 0
Shares(pcs, u) == [r \in Runs |-> Share(run[r], pcs, u)]
Shared(pcs, u) == Total(Shares(pcs, u))
SharesTyped == \A u \in Users, pcs \in SUBSET InCycle : Shares(pcs, u) \in [Runs -> Nat]

Statuses == {"PENDING", "CREDITED"}
AmountsTyped ==
    \A u \in Users, status \in Statuses : RowAmounts(u, status) \in [DOMAIN cycles[u] -> Nat]

Counted(u) == /\ IsFiniteSet(Units(Shares(InCycle, u)))
              /\ IsFiniteSet(Units(RowAmounts(u, "PENDING")))
              /\ IsFiniteSet(Units(RowAmounts(u, "CREDITED")))

CyclesEarned(u) == IF Has(u) THEN record[u].cycleEarned ELSE 0

\* Pending rows are those of distributions under way: what is credited of them is
\* what is past "pool", what is recorded of them is what is past "earned".
SumInv(u) ==
    /\ Counted(u)
    /\ CycleSum(u, "CREDITED") + Shared(InPool, u) <= poolWallet[u]
    /\ poolWallet[u] + Shared({"pool"}, u) <= CycleSum(u, "CREDITED") + CycleSum(u, "PENDING")
    /\ u \notin interrupted =>
           /\ CycleSum(u, "PENDING") = Shared(InCycle, u)
           /\ CyclesEarned(u) + Shared(Unrecorded, u) = poolWallet[u]

CycleInv == TypeInv /\ \A u \in Users : RowsInv(u) /\ SumInv(u)

\* A total with one more term.
LEMMA TotalExtends ==
    ASSUME NEW S, NEW f \in [S -> Nat], NEW x, x \notin S, NEW g \in [S \cup {x} -> Nat],
           \A y \in S : g[y] = f[y], IsFiniteSet(Units(f))
    PROVE  IsFiniteSet(Units(g)) /\ Total(g) = Total(f) + g[x] /\ Total(f) \in Nat
  <1> DEFINE h == [y \in S \cup {x} |-> IF y = x THEN 0 ELSE f[y]]
  <1>1. h \in [S \cup {x} -> Nat] /\ h[x] = 0 /\ \A y \in S : h[y] = f[y]
    OBVIOUS
  <1> HIDE DEF h
  <1>2. Units(h) = Units(f)
    <2>1. \A y : h[x] = 0 /\ y \notin 1..0
      BY <1>1
    <2>2. \A e : e \in Units(h) <=> \E y \in S \cup {x} : e \in {y} \X (1..h[y])
      BY <1>1 DEF Units
    <2>3. \A e : e \in Units(f) <=> \E y \in S : e \in {y} \X (1..f[y])
      BY DEF Units
    <2>4. \A e : e \notin {x} \X (1..h[x])
      BY <2>1
    <2>5. \A e : e \in Units(h) <=> e \in Units(f)
      BY <1>1, <2>2, <2>3, <2>4
    <2> QED
      BY <2>5
  <1>3. IsFiniteSet(Units(h)) /\ Total(h) = Total(f)
    BY <1>2 DEF Total
  <1>4. \A y \in (S \cup {x}) \ {x} : g[y] = h[y]
    BY <1>1
  <1>5. /\ IsFiniteSet(Units(g))
        /\ Total(g) = Total(h) - h[x] + g[x]
        /\ Total(h) \in Nat
    BY <1>1, <1>3, <1>4, TotalChanges
  <1>6. g[x] \in Nat
    OBVIOUS
  <1> QED
    BY <1>1, <1>3, <1>5, <1>6

\* Shares and amounts are natural numbers.
LEMMA ShareIsNat ==
    ASSUME NEW x \in RunState, NEW pcs \in SUBSET InCycle, NEW u
    PROVE  Share(x, pcs, u) \in Nat
  <1>1. CASE x.pc \in pcs
    <2>1. x.pc \in Credits
      BY <1>1 DEF InCycle, Credits
    <2>2. x.level \in RankLevel
      BY <2>1, Shapes DEF Crediting
    <2> QED
      BY <2>2, Levels DEF Share
  <1>2. CASE x.pc \notin pcs
    BY <1>2 DEF Share
  <1> QED
    BY <1>1, <1>2

\* The shares in a state, typed.
LEMMA TypedShares == TypeInv => SharesTyped
  <1>1. TypeInv => \A r \in Runs : run[r] \in RunState
    BY DEF TypeInv, TypeOK, RunState
  <1> QED
    BY <1>1, ShareIsNat DEF SharesTyped, Shares

\* Likewise in the next state.
LEMMA TypedSharesNext == TypeInv' => SharesTyped'
  BY TypedShares, PTL

\* The amounts of rows, typed.
LEMMA TypedAmounts == TypeInv => AmountsTyped
  <1> SUFFICES ASSUME TypeInv, NEW u \in Users, NEW status \in Statuses
               PROVE  RowAmounts(u, status) \in [DOMAIN cycles[u] -> Nat]
    BY DEF AmountsTyped
  <1>1. \A n \in DOMAIN cycles[u] : cycles[u][n] \in CycleRow
    BY DEF TypeInv, TypeOK
  <1>2. \A n \in DOMAIN cycles[u] : RowAmount(cycles[u][n], status) \in Nat
    BY <1>1 DEF RowAmount, CycleRow
  <1> QED
    BY <1>2 DEF RowAmounts

\* Likewise in the next state.
LEMMA TypedAmountsNext == TypeInv' => AmountsTyped'
  BY TypedAmounts, PTL

\* What is recorded of cycles and what was credited.
LEMMA CyclesEarnedIsNat ==
    ASSUME TypeInv, NEW u \in Users
    PROVE  CyclesEarned(u) \in Nat /\ poolWallet[u] \in Nat
  BY DEF TypeInv, TypeOK, CyclesEarned, Has, Record

\* Likewise in the next state.
LEMMA CyclesEarnedIsNatNext ==
    TypeInv' => \A u \in Users : (CyclesEarned(u) \in Nat /\ poolWallet[u] \in Nat)'
  <1> SUFFICES ASSUME TypeInv', NEW u \in Users
               PROVE  CyclesEarned(u)' \in Nat /\ poolWallet'[u] \in Nat
    OBVIOUS
  <1>1. record'[u] \in Record \cup {NoRecord} /\ poolWallet'[u] \in Nat
    BY DEF TypeInv, TypeOK
  <1> QED
    BY <1>1 DEF CyclesEarned, Has, Record

\* Run r goes on as x.
Goes(r, x) == x \in RunState /\ run' = [run EXCEPT ![r] = x]

\* What one run adds to the shares and takes from them.
LEMMA SharesMove ==
    ASSUME TypeInv, TypeInv', NEW u \in Users, Counted(u), NEW r \in Runs, NEW x, Goes(r, x),
           NEW pcs \in SUBSET InCycle
    PROVE  /\ Shared(pcs, u)' = Shared(pcs, u) - Share(run[r], pcs, u) + Share(x, pcs, u)
           /\ IsFiniteSet(Units(Shares(pcs, u)))'
           /\ Shared(pcs, u) \in Nat /\ Share(run[r], pcs, u) <= Shared(pcs, u)
           /\ Share(run[r], pcs, u) \in Nat /\ Share(x, pcs, u) \in Nat
  <1> DEFINE old == Shares(pcs, u)
             all == Shares(InCycle, u)
             next == [s \in Runs |-> Share(run'[s], pcs, u)]
  <1>0. run \in [Runs -> RunState] /\ InCycle \in SUBSET InCycle
    BY DEF TypeInv, TypeOK, RunState
  <1>1. old \in [Runs -> Nat] /\ all \in [Runs -> Nat] /\ Shares(pcs, u)' \in [Runs -> Nat]
    BY <1>0, TypedShares, TypedSharesNext DEF SharesTyped
  <1>2. Shares(pcs, u)' = next
    BY DEF Shares
  <1>3. next \in [Runs -> Nat] /\ next[r] = Share(x, pcs, u) /\ old[r] = Share(run[r], pcs, u)
    BY <1>0, <1>1, <1>2 DEF Shares, Goes
  <1>4. \A s \in Runs \ {r} : next[s] = old[s]
    BY <1>0 DEF Shares, Goes
  <1>5. \A s \in Runs : old[s] <= all[s]
    <2>1. \A s \in Runs : old[s] = all[s] \/ old[s] = 0
      BY DEF Shares, Share
    <2> QED
      BY <1>1, <2>1
  <1>6. IsFiniteSet(Units(all))
    BY DEF Counted
  <1> HIDE DEF old, all, next
  <1>7. IsFiniteSet(Units(old))
    BY <1>1, <1>5, <1>6, TotalShrinks
  <1>8. /\ IsFiniteSet(Units(next))
        /\ Total(next) = Total(old) - old[r] + next[r]
        /\ Total(old) \in Nat /\ old[r] <= Total(old)
    <2>1. old \in [Runs -> Nat] /\ next \in [Runs -> Nat]
      BY <1>1, <1>3
    <2> QED
      BY <1>4, <1>7, <2>1, TotalChanges
  <1>9. Total(old) = Shared(pcs, u)
    BY DEF old, Shared
  <1>10. Total(next) = Shared(pcs, u)' /\ IsFiniteSet(Units(Shares(pcs, u)))'
    BY <1>2, <1>8 DEF Shared, Total, Units
  <1> QED
    BY <1>1, <1>3, <1>8, <1>9, <1>10
\* The shares and sums of a user after a step of one run, from what they were: none
\* of the three comparisons gets worse.
LEMMA SumsKept ==
    ASSUME TypeInv, TypeInv', NEW u \in Users, SumInv(u), NEW r \in Runs, NEW x, Goes(r, x),
           interrupted \subseteq interrupted',
           IsFiniteSet(Units(RowAmounts(u, "PENDING")))',
           IsFiniteSet(Units(RowAmounts(u, "CREDITED")))',
           CycleSum(u, "CREDITED")' + Share(x, InPool, u) + poolWallet[u]
               <= CycleSum(u, "CREDITED") + Share(run[r], InPool, u) + poolWallet'[u],
           poolWallet'[u] + Share(x, {"pool"}, u) + CycleSum(u, "CREDITED") + CycleSum(u, "PENDING")
               <= poolWallet[u] + Share(run[r], {"pool"}, u) + CycleSum(u, "CREDITED")'
                      + CycleSum(u, "PENDING")',
           \/ u \in interrupted'
           \/ /\ CycleSum(u, "PENDING")' + Share(run[r], InCycle, u)
                     = CycleSum(u, "PENDING") + Share(x, InCycle, u)
              /\ CyclesEarned(u)' + Share(x, Unrecorded, u) + poolWallet[u]
                     = CyclesEarned(u) + Share(run[r], Unrecorded, u) + poolWallet'[u]
    PROVE  SumInv(u)'
  <1>0. Counted(u)
    BY DEF SumInv
  <1>1. /\ InPool \in SUBSET InCycle /\ {"pool"} \in SUBSET InCycle
        /\ Unrecorded \in SUBSET InCycle /\ InCycle \in SUBSET InCycle
    BY DEF InPool, Unrecorded, InCycle
  <1>2. /\ Shared(InPool, u)' = Shared(InPool, u) - Share(run[r], InPool, u) + Share(x, InPool, u)
        /\ Shared(InPool, u) \in Nat /\ Share(run[r], InPool, u) \in Nat
        /\ Share(x, InPool, u) \in Nat
    BY <1>0, <1>1, SharesMove
  <1>3. /\ Shared({"pool"}, u)' = Shared({"pool"}, u) - Share(run[r], {"pool"}, u)
                                     + Share(x, {"pool"}, u)
        /\ Shared({"pool"}, u) \in Nat /\ Share(run[r], {"pool"}, u) \in Nat
        /\ Share(x, {"pool"}, u) \in Nat
    BY <1>0, <1>1, SharesMove
  <1>4. /\ Shared(Unrecorded, u)' = Shared(Unrecorded, u) - Share(run[r], Unrecorded, u)
                                       + Share(x, Unrecorded, u)
        /\ Shared(Unrecorded, u) \in Nat /\ Share(run[r], Unrecorded, u) \in Nat
        /\ Share(x, Unrecorded, u) \in Nat
    BY <1>0, <1>1, SharesMove
  <1>5. /\ Shared(InCycle, u)' = Shared(InCycle, u) - Share(run[r], InCycle, u)
                                    + Share(x, InCycle, u)
        /\ Shared(InCycle, u) \in Nat /\ Share(run[r], InCycle, u) \in Nat
        /\ Share(x, InCycle, u) \in Nat
        /\ IsFiniteSet(Units(Shares(InCycle, u)))'
    BY <1>0, <1>1, SharesMove
  <1>6. Counted(u)'
    BY <1>5 DEF Counted
  <1>7. /\ CycleSum(u, "CREDITED") \in Nat /\ CycleSum(u, "PENDING") \in Nat
        /\ poolWallet[u] \in Nat /\ CyclesEarned(u) \in Nat
    BY <1>0, CyclesEarnedIsNat, FS_CardinalityType DEF Counted, CycleSum, Total
  <1>8. poolWallet'[u] \in Nat /\ CyclesEarned(u)' \in Nat
    BY CyclesEarnedIsNatNext
  <1>9. CycleSum(u, "CREDITED")' \in Nat /\ CycleSum(u, "PENDING")' \in Nat
    BY <1>6, FS_CardinalityType DEF Counted, CycleSum, Total
  <1>10. CycleSum(u, "CREDITED")' + Shared(InPool, u)' <= poolWallet'[u]
    BY <1>2, <1>7, <1>8, <1>9 DEF SumInv
  <1>11. poolWallet'[u] + Shared({"pool"}, u)' <= CycleSum(u, "CREDITED")' + CycleSum(u, "PENDING")'
    BY <1>3, <1>7, <1>8, <1>9 DEF SumInv
  <1>12. u \notin interrupted' =>
             /\ CycleSum(u, "PENDING")' = Shared(InCycle, u)'
             /\ CyclesEarned(u)' + Shared(Unrecorded, u)' = poolWallet'[u]
    BY <1>4, <1>5, <1>7, <1>8, <1>9 DEF SumInv
  <1> QED
    BY <1>6, <1>10, <1>11, <1>12 DEF SumInv

\* The rows of a user after a step of one run.
LEMMA RowsKept ==
    ASSUME TypeInv, NEW u \in Users, RowsInv(u), NEW r \in Runs, NEW x, Goes(r, x),
           Gapless(cycles'[u]),
           x.pc \in Credits /\ x.user = u => Fits(x, cycles'[u]),
           \A s \in Runs \ {r} : /\ run[s].pc \in Credits /\ run[s].user = u
                                 /\ Fits(run[s], cycles[u])
                                 => Fits(run[s], cycles'[u]),
           \A s \in Runs \ {r} : Cycling(run[s], u) /\ Cycling(x, u) => run[s].cycle # x.cycle
    PROVE  RowsInv(u)'
  <1>0. run \in [Runs -> RunState]
    BY DEF TypeInv, TypeOK, RunState
  <1>1. run'[r] = x /\ \A s \in Runs \ {r} : run'[s] = run[s]
    BY <1>0 DEF Goes
  <1>2. \A s \in Runs : run'[s].pc \in Credits /\ run'[s].user = u => Fits(run'[s], cycles'[u])
    BY <1>1 DEF RowsInv
  <1>3. \A s, t \in Runs : Cycling(run'[s], u) /\ Cycling(run'[t], u)
                               /\ run'[s].cycle = run'[t].cycle => s = t
    BY <1>1 DEF RowsInv
  <1> QED
    BY <1>2, <1>3 DEF RowsInv

\* The sums of rows that do not change.
LEMMA SumsSame ==
    ASSUME NEW u \in Users, SumInv(u), cycles'[u] = cycles[u]
    PROVE  /\ CycleSum(u, "CREDITED")' = CycleSum(u, "CREDITED")
           /\ CycleSum(u, "PENDING")' = CycleSum(u, "PENDING")
           /\ IsFiniteSet(Units(RowAmounts(u, "PENDING")))'
           /\ IsFiniteSet(Units(RowAmounts(u, "CREDITED")))'
  <1>1. ASSUME NEW status
        PROVE  RowAmounts(u, status)' = RowAmounts(u, status)
    BY DEF RowAmounts
  <1>2. /\ IsFiniteSet(Units(RowAmounts(u, "PENDING")))
        /\ IsFiniteSet(Units(RowAmounts(u, "CREDITED")))
    BY DEF SumInv, Counted
  <1> QED
    BY <1>1, <1>2 DEF CycleSum, Total, Units

\* A step that changes nothing of a user's cycles, of a run that is not at them
\* afterwards, and not before either unless it is cut short.
LEMMA CyclesRest ==
    ASSUME TypeInv, TypeInv', NEW u \in Users, RowsInv(u), SumInv(u), NEW r \in Runs, NEW x,
           Goes(r, x), interrupted \subseteq interrupted',
           cycles'[u] = cycles[u], poolWallet'[u] = poolWallet[u],
           CyclesEarned(u)' = CyclesEarned(u),
           x.pc \notin InCycle \/ x.user # u,
           Cycling(run[r], u) => u \in interrupted',
           x.pc = "create" /\ x.user = u => x.cycle - 1 \in CycleNumbers(u)
    PROVE  RowsInv(u)' /\ SumInv(u)'
  <1>1. RowsInv(u)'
    <2>1. Gapless(cycles'[u])
      BY DEF RowsInv
    <2>2. x.pc \in Credits /\ x.user = u => Fits(x, cycles'[u])
      BY DEF Fits, CycleNumbers
    <2>3. \A s \in Runs : Fits(run[s], cycles[u]) => Fits(run[s], cycles'[u])
      OBVIOUS
    <2>4. ~Cycling(x, u)
      BY DEF Cycling
    <2> QED
      BY <2>1, <2>2, <2>3, <2>4, RowsKept
  <1>2. \A pcs \in SUBSET InCycle : Share(x, pcs, u) = 0
    BY DEF Share
  <1>3. u \in interrupted' \/ \A pcs \in SUBSET InCycle : Share(run[r], pcs, u) = 0
    BY DEF Share, Cycling
  <1>4. run[r] \in RunState
    BY DEF TypeInv, TypeOK, RunState
  <1>5. /\ InPool \in SUBSET InCycle /\ {"pool"} \in SUBSET InCycle
        /\ Unrecorded \in SUBSET InCycle /\ InCycle \in SUBSET InCycle
    BY DEF InPool, Unrecorded, InCycle
  <1>6. Share(run[r], InPool, u) \in Nat /\ Share(run[r], {"pool"}, u) \in Nat
    BY <1>4, <1>5, ShareIsNat
  <1>7. /\ poolWallet[u] \in Nat /\ CyclesEarned(u) \in Nat
        /\ CycleSum(u, "CREDITED") \in Nat /\ CycleSum(u, "PENDING") \in Nat
    BY CyclesEarnedIsNat, FS_CardinalityType DEF SumInv, Counted, CycleSum, Total
  <1>9. /\ CycleSum(u, "CREDITED")' = CycleSum(u, "CREDITED")
        /\ CycleSum(u, "PENDING")' = CycleSum(u, "PENDING")
        /\ IsFiniteSet(Units(RowAmounts(u, "PENDING")))'
        /\ IsFiniteSet(Units(RowAmounts(u, "CREDITED")))'
    BY SumsSame
  <1>10. SumInv(u)'
    <2>1. CycleSum(u, "CREDITED")' + Share(x, InPool, u) + poolWallet[u]
              <= CycleSum(u, "CREDITED") + Share(run[r], InPool, u) + poolWallet'[u]
      BY <1>2, <1>5, <1>6, <1>7, <1>9
    <2>2. poolWallet'[u] + Share(x, {"pool"}, u) + CycleSum(u, "CREDITED") + CycleSum(u, "PENDING")
              <= poolWallet[u] + Share(run[r], {"pool"}, u) + CycleSum(u, "CREDITED")'
                     + CycleSum(u, "PENDING")'
      BY <1>2, <1>5, <1>6, <1>7, <1>9
    <2>3. \/ u \in interrupted'
          \/ /\ CycleSum(u, "PENDING")' + Share(run[r], InCycle, u)
                    = CycleSum(u, "PENDING") + Share(x, InCycle, u)
             /\ CyclesEarned(u)' + Share(x, Unrecorded, u) + poolWallet[u]
                    = CyclesEarned(u) + Share(run[r], Unrecorded, u) + poolWallet'[u]
      BY <1>2, <1>3, <1>5, <1>7, <1>9
    <2> QED
      BY <1>9, <2>1, <2>2, <2>3, SumsKept
  <1> QED
    BY <1>1, <1>10
\* Steps that add no row, mark none and credit no cycle, but those of promotions
\* and corrections: calls, failures, the steps between two records.
RestingStep(r) ==
    \/ Called(r) \/ Fail(r) \/ ReadRank(r) \/ NotPromoted(r) \/ BonusEntry(r)
    \/ ReadRanks(r) \/ Distributed(r)
    \/ \E u \in Users, level \in RankLevel : NextRank(r, u, level)
    \/ FindLatest(r) \/ CycleExists(r)

\* They change no row, and a cycle they give up is among the interrupted.
LEMMA RestingSteps ==
    ASSUME TypeInv, NEW r \in Runs, RestingStep(r)
    PROVE  /\ UNCHANGED <<record, poolWallet, cycles>>
           /\ interrupted \subseteq interrupted'
           /\ run[r].pc \in InCycle => run[r].user \in interrupted'
           /\ \E x : /\ Goes(r, x) /\ x.pc \notin InCycle
                     /\ x.pc = "create" => x.cycle - 1 \in CycleNumbers(x.user)
  <1>0. run \in [Runs -> RunState] /\ CalmStep(r)
    BY DEF TypeInv, TypeOK, RunState, RestingStep, CalmStep
  <1>1. PICK x : Moved(r, x)
    BY <1>0, CalmSteps
  <1>2. Goes(r, x) /\ run'[r] = x
    BY <1>0, <1>1 DEF Moved, Goes
  <1>3. UNCHANGED <<record, poolWallet, cycles>>
    <2>1. CASE Called(r)
      BY <2>1 DEF Called, CallEvaluate, ApproveDeposit, CallCorrect, CallDistribute, distribution
    <2>2. CASE Fail(r)
      BY <2>2 DEF Fail, distribution
    <2>3. CASE ~Called(r) /\ ~Fail(r)
      BY <2>3 DEF RestingStep, ReadRank, NotPromoted, BonusEntry, ReadRanks, Distributed, NextRank,
                  FindLatest, CycleExists, distribution
    <2> QED
      BY <2>1, <2>2, <2>3
  <1>4. interrupted \subseteq interrupted'
    BY <1>0, CalmSteps DEF Still
  <1>5. run[r].pc \in InCycle => run[r].user \in interrupted'
    <2>1. CASE Called(r)
      BY <2>1 DEF Called, CallEvaluate, ApproveDeposit, CallCorrect, CallDistribute, Call, Idle,
                  InCycle
    <2>2. CASE Fail(r)
      BY <2>2 DEF Fail, Midway, InCycle
    <2>3. CASE ~Called(r) /\ ~Fail(r)
      BY <2>3 DEF RestingStep, ReadRank, NotPromoted, BonusEntry, ReadRanks, Distributed, NextRank,
                  FindLatest, CycleExists, At, InCycle
    <2> QED
      BY <2>1, <2>2, <2>3
  <1>6. CASE FindLatest(r)
    <2>1. PICK latest \in CycleNumbers(run[r].user) :
              run' = [run EXCEPT ![r].pc = "create", ![r].cycle = latest + 1]
      BY <1>6 DEF FindLatest
    <2>2. run[r] \in Crediting /\ run[r].pc = "latest"
      BY <1>0, <1>6, Shapes DEF FindLatest, At, Credits
    <2>3. CycleNumbers(run[r].user) \subseteq Nat
      BY <2>2 DEF CycleNumbers, Crediting, TypeInv, TypeOK
    <2>4. x.pc = "create" /\ x.user = run[r].user /\ x.cycle = latest + 1
      BY <1>0, <1>2, <2>1, <2>2 DEF Crediting
    <2> QED
      BY <1>2, <1>3, <1>4, <1>5, <2>1, <2>3, <2>4 DEF InCycle
  <1>7. CASE ~FindLatest(r)
    <2>1. Called(r) => x.pc \in {"read", "correct", "ranks"}
      BY <1>0, <1>2 DEF Called, CallEvaluate, ApproveDeposit, CallCorrect, CallDistribute,
                              Evaluate, InCycle
    <2>2. Fail(r) => x.pc \in {"next", "idle"}
      BY <1>0, <1>2 DEF Fail, Skip, End, Idle, InCycle
    <2>3. NotPromoted(r) \/ BonusEntry(r) => x.pc \in {"read", "idle"}
      BY <1>0, <1>2 DEF NotPromoted, BonusEntry, EvaluateSponsor, End, Idle, Evaluate, InCycle
    <2>4. ReadRank(r) \/ ReadRanks(r) \/ Distributed(r) \/ CycleExists(r)
              => x.pc \in {"set", "next", "idle"}
      <3>1. run[r] \in RunState
        BY <1>0
      <3>2. ReadRank(r) => run[r] \in Correcting
        BY <3>1, Shapes DEF ReadRank, At
      <3> QED
        BY <1>0, <1>2, <3>2
        DEF ReadRank, ReadRanks, Distributed, CycleExists, Skip, End, Continue, Idle, InCycle,
            Correcting
    <2>5. ASSUME NEW u \in Users, NEW level \in RankLevel, NextRank(r, u, level)
          PROVE  x.pc \in {"next", "latest"}
      BY <1>0, <1>2, <2>5 DEF NextRank
    <2>6. x.pc \notin InCycle \cup {"create"}
      BY <1>7, <2>1, <2>2, <2>3, <2>4, <2>5 DEF RestingStep, InCycle
    <2> QED
      BY <1>2, <1>3, <1>4, <1>5, <2>6
  <1> QED
    BY <1>6, <1>7
\* Steps of a distribution at the cycle of a user.
CycleStep(r) ==
    CreateCycle(r) \/ CreditPool(r) \/ PoolEntry(r) \/ UpdateEarned(r) \/ MarkAsCredited(r)

\* Where a distribution at a cycle goes on.
LEMMA CycleSteps ==
    ASSUME TypeInv, NEW r \in Runs, CycleStep(r)
    PROVE  /\ run[r] \in Crediting /\ run[r].user \in Users /\ run[r].level \in RankLevel
           /\ run[r].cycle \in Nat /\ Has(run[r].user)
           /\ UNCHANGED interrupted
           /\ \E x : /\ Goes(r, x)
                     /\ \/ /\ x.user = run[r].user /\ x.level = run[r].level
                           /\ x.cycle = run[r].cycle
                           /\ \/ CreateCycle(r) /\ run[r].pc = "create" /\ x.pc = "pool"
                              \/ CreditPool(r) /\ run[r].pc = "pool" /\ x.pc = "poolEntry"
                              \/ PoolEntry(r) /\ run[r].pc = "poolEntry" /\ x.pc = "earned"
                              \/ UpdateEarned(r) /\ run[r].pc = "earned" /\ x.pc = "mark"
                        \/ MarkAsCredited(r) /\ run[r].pc = "mark" /\ x.pc = "next"
  <1>0. run \in [Runs -> RunState] /\ run[r].pc \in Credits
    BY DEF TypeInv, TypeOK, RunState, CycleStep, CreateCycle, CreditPool, PoolEntry, UpdateEarned,
           MarkAsCredited, At, Credits
  <1>1. /\ run[r] \in Crediting /\ run[r].user \in Users /\ run[r].level \in RankLevel
        /\ run[r].cycle \in Nat /\ Has(run[r].user)
    BY <1>0, Shapes DEF Crediting, TypeInv, Recorded
  <1>2. UNCHANGED interrupted
    BY DEF CycleStep, CreateCycle, CreditPool, PoolEntry, UpdateEarned, MarkAsCredited, observed
  <1>3. ASSUME NEW pc \in Credits, Continue(r, pc)
        PROVE  \E x : /\ Goes(r, x) /\ x.pc = pc /\ x.user = run[r].user
                      /\ x.level = run[r].level /\ x.cycle = run[r].cycle
    <2> DEFINE x == [run[r] EXCEPT !.pc = pc]
    <2>1. /\ x \in RunState /\ x.pc = pc /\ x.user = run[r].user
          /\ x.level = run[r].level /\ x.cycle = run[r].cycle
      BY <1>1 DEF RunState, Crediting, Credits
    <2>2. run' = [run EXCEPT ![r] = x]
      BY <1>0, <1>3 DEF Continue
    <2> HIDE DEF x
    <2> QED
      BY <2>1, <2>2 DEF Goes
  <1>4. ASSUME MarkAsCredited(r)
        PROVE  \E x : Goes(r, x) /\ x.pc = "next"
    <2> DEFINE x == [pc |-> "next", todo |-> run[r].todo]
    <2>1. x \in RunState /\ x.pc = "next"
      BY <1>1 DEF RunState, Crediting, Distributing
    <2>2. run' = [run EXCEPT ![r] = x]
      BY <1>4 DEF MarkAsCredited, Skip
    <2> HIDE DEF x
    <2> QED
      BY <2>1, <2>2 DEF Goes
  <1>5. CASE MarkAsCredited(r)
    BY <1>1, <1>2, <1>4, <1>5 DEF MarkAsCredited, At
  <1>6. CASE CreateCycle(r)
    BY <1>1, <1>2, <1>3, <1>6 DEF CreateCycle, At, Credits
  <1>7. CASE CreditPool(r)
    BY <1>1, <1>2, <1>3, <1>7 DEF CreditPool, At, Credits
  <1>8. CASE PoolEntry(r)
    BY <1>1, <1>2, <1>3, <1>8 DEF PoolEntry, At, Credits
  <1>9. CASE UpdateEarned(r)
    BY <1>1, <1>2, <1>3, <1>9 DEF UpdateEarned, At, Credits
  <1> QED
    BY <1>5, <1>6, <1>7, <1>8, <1>9 DEF CycleStep

\* What a step of a distribution that adds no row and marks none changes.
LEMMA CyclesOfOthers ==
    ASSUME TypeInv, NEW r \in Runs, CycleStep(r), NEW u \in Users
    PROVE  /\ u # run[r].user => /\ cycles'[u] = cycles[u] /\ poolWallet'[u] = poolWallet[u]
                                 /\ CyclesEarned(u)' = CyclesEarned(u)
           /\ ~CreateCycle(r) /\ ~MarkAsCredited(r) => cycles'[u] = cycles[u]
           /\ ~CreditPool(r) => poolWallet'[u] = poolWallet[u]
           /\ ~UpdateEarned(r) => CyclesEarned(u)' = CyclesEarned(u)
           /\ u = run[r].user /\ CreditPool(r) =>
                  poolWallet'[u] = poolWallet[u] + CycleBonus(run[r].level)
           /\ u = run[r].user /\ UpdateEarned(r) =>
                  CyclesEarned(u)' = CyclesEarned(u) + CycleBonus(run[r].level)
  <1>0. /\ DOMAIN cycles = Users /\ poolWallet \in [Users -> Nat]
        /\ record \in [Users -> Record \cup {NoRecord}]
        /\ run[r].user \in Users /\ Has(run[r].user)
    BY CycleSteps DEF TypeInv, TypeOK
  <1>1. /\ ~CreateCycle(r) /\ ~MarkAsCredited(r) => cycles' = cycles
        /\ ~CreditPool(r) => poolWallet' = poolWallet
        /\ ~UpdateEarned(r) => record' = record
    BY DEF CycleStep, CreateCycle, CreditPool, PoolEntry, UpdateEarned, MarkAsCredited,
           distribution
  <1>2. u # run[r].user => cycles'[u] = cycles[u]
    BY <1>0, <1>1 DEF CreateCycle, MarkAsCredited
  <1>3. /\ u # run[r].user => poolWallet'[u] = poolWallet[u]
        /\ u = run[r].user /\ CreditPool(r) =>
               poolWallet'[u] = poolWallet[u] + CycleBonus(run[r].level)
    BY <1>0, <1>1 DEF CreditPool
  <1>4. /\ ~UpdateEarned(r) => CyclesEarned(u)' = CyclesEarned(u)
        /\ u # run[r].user => CyclesEarned(u)' = CyclesEarned(u)
    BY <1>0, <1>1 DEF CyclesEarned, Has, UpdateEarned
  <1>5. ASSUME u = run[r].user, UpdateEarned(r)
        PROVE  CyclesEarned(u)' = CyclesEarned(u) + CycleBonus(run[r].level)
    <2>1. record[u] \in Record
      BY <1>0, <1>5 DEF Has
    <2>2. PICK y : /\ y = record[u].cycleEarned + CycleBonus(run[r].level)
                   /\ record' = [record EXCEPT ![u] = [record[u] EXCEPT !.cycleEarned = y]]
      BY <1>0, <1>5 DEF UpdateEarned
    <2>3. record'[u] = [record[u] EXCEPT !.cycleEarned = y]
      BY <1>0, <2>2
    <2>4. record'[u].cycleEarned = y /\ record'[u].level = record[u].level
      BY <2>1, <2>3 DEF Record
    <2>5. Has(u)'
      BY <2>1, <2>4, Levels DEF Has, NoRecord, Record
    <2> QED
      BY <1>0, <1>5, <2>2, <2>4, <2>5 DEF CyclesEarned
  <1> QED
    BY <1>1, <1>2, <1>3, <1>4, <1>5

\* A new row is the next one, and pending.
LEMMA CreateCycleInv ==
    ASSUME TypeInv, TypeInv', NEW r \in Runs, CreateCycle(r), NEW u \in Users, u = run[r].user,
           RowsInv(u), SumInv(u)
    PROVE  RowsInv(u)' /\ SumInv(u)'
  <1> DEFINE c == run[r].cycle
             b == CycleBonus(run[r].level)
             row == [status |-> "PENDING", amount |-> b]
  <1>0. /\ run[r] \in Crediting /\ run[r].level \in RankLevel /\ c \in Nat
        /\ UNCHANGED interrupted /\ CycleStep(r)
    BY CycleSteps DEF CycleStep
  <1>1. PICK x : /\ Goes(r, x) /\ run[r].pc = "create" /\ x.pc = "pool" /\ x.user = u
                 /\ x.level = run[r].level /\ x.cycle = c
    <2>1. ~MarkAsCredited(r) /\ ~CreditPool(r) /\ ~PoolEntry(r) /\ ~UpdateEarned(r)
      BY DEF CreateCycle, MarkAsCredited, CreditPool, PoolEntry, UpdateEarned, At
    <2> QED
      BY <1>0, <2>1, CycleSteps
  <1>2. /\ c \notin DOMAIN cycles[u] /\ cycles'[u] = WithCycle(cycles[u], c, row)
        /\ poolWallet'[u] = poolWallet[u] /\ CyclesEarned(u)' = CyclesEarned(u)
    <2>1. c \notin DOMAIN cycles[u] /\ cycles'[u] = WithCycle(cycles[u], c, row)
      BY DEF CreateCycle, TypeInv, TypeOK
    <2>2. ~CreditPool(r) /\ ~UpdateEarned(r)
      BY DEF CreateCycle, CreditPool, UpdateEarned, At
    <2> QED
      BY <1>0, <2>1, <2>2, CyclesOfOthers
  <1>3. PICK k \in Nat : DOMAIN cycles[u] = 1..k
    BY DEF RowsInv, Gapless
  <1>4. c = k + 1
    <2>1. c - 1 \in {0} \cup 1..k
      BY <1>1, <1>3 DEF RowsInv, Fits, Credits
    <2> QED
      BY <1>0, <1>2, <1>3, <2>1
  <1> HIDE DEF c, b, row
  <1>5. /\ DOMAIN cycles'[u] = DOMAIN cycles[u] \cup {c} /\ cycles'[u][c] = row
        /\ \A n \in DOMAIN cycles[u] : cycles'[u][n] = cycles[u][n]
    BY <1>2 DEF WithCycle
  <1>6. RowsInv(u)'
    <2>1. Gapless(cycles'[u])
      <3>1. DOMAIN cycles'[u] = 1..(k + 1)
        BY <1>3, <1>4, <1>5
      <3> QED
        BY <3>1 DEF Gapless
    <2>2. Fits(x, cycles'[u])
      BY <1>1, <1>5 DEF Fits, row, b
    <2>3. \A s \in Runs : Fits(run[s], cycles[u]) => Fits(run[s], cycles'[u])
      BY <1>5 DEF Fits
    <2>4. \A s \in Runs : Cycling(run[s], u) => run[s].cycle # x.cycle
      BY <1>1, <1>2 DEF RowsInv, Cycling, Fits, InCycle, Credits
    <2> QED
      BY <1>1, <2>1, <2>2, <2>3, <2>4, RowsKept
  <1>7. b \in Nat
    BY <1>0, Levels DEF b
  <1>8. ASSUME NEW status \in Statuses
        PROVE  /\ IsFiniteSet(Units(RowAmounts(u, status)))'
               /\ CycleSum(u, status)' = CycleSum(u, status) + RowAmount(row, status)
    <2> DEFINE f == RowAmounts(u, status)
               g == [n \in DOMAIN cycles'[u] |-> RowAmount(cycles'[u][n], status)]
    <2>1. f \in [DOMAIN cycles[u] -> Nat] /\ RowAmounts(u, status)' \in [DOMAIN cycles'[u] -> Nat]
      BY TypedAmounts, TypedAmountsNext DEF AmountsTyped
    <2>2. RowAmounts(u, status)' = g
      BY DEF RowAmounts
    <2>3. g \in [DOMAIN cycles[u] \cup {c} -> Nat] /\ g[c] = RowAmount(row, status)
      BY <1>5, <2>1, <2>2
    <2>4. \A n \in DOMAIN cycles[u] : g[n] = f[n]
      BY <1>5 DEF RowAmounts
    <2>5. IsFiniteSet(Units(f))
      BY DEF SumInv, Counted, Statuses
    <2> HIDE DEF f, g
    <2>6. IsFiniteSet(Units(g)) /\ Total(g) = Total(f) + g[c]
      <3> DEFINE S == DOMAIN cycles[u]
      <3>1. f \in [S -> Nat] /\ c \notin S /\ g \in [S \cup {c} -> Nat] /\ \A n \in S : g[n] = f[n]
        BY <1>2, <2>1, <2>3, <2>4
      <3> HIDE DEF S
      <3> QED
        BY <2>5, <3>1, TotalExtends
    <2> QED
      BY <2>2, <2>3, <2>6 DEF CycleSum, Total, Units, f
  <1>9. /\ CycleSum(u, "PENDING")' = CycleSum(u, "PENDING") + b
        /\ CycleSum(u, "CREDITED")' = CycleSum(u, "CREDITED") + 0
        /\ IsFiniteSet(Units(RowAmounts(u, "PENDING")))'
        /\ IsFiniteSet(Units(RowAmounts(u, "CREDITED")))'
    BY <1>8 DEF Statuses, RowAmount, row
  <1>10. /\ \A pcs \in SUBSET InCycle : Share(run[r], pcs, u) = 0
         /\ Share(x, InPool, u) = 0 /\ Share(x, {"pool"}, u) = b
         /\ Share(x, InCycle, u) = b /\ Share(x, Unrecorded, u) = 0
    BY <1>1 DEF Share, InPool, InCycle, Unrecorded, b
  <1>11. /\ Share(run[r], InPool, u) = 0 /\ Share(run[r], {"pool"}, u) = 0
         /\ Share(run[r], InCycle, u) = 0 /\ Share(run[r], Unrecorded, u) = 0
    BY <1>10 DEF InPool, InCycle, Unrecorded
  <1>12. /\ poolWallet[u] \in Nat /\ CyclesEarned(u) \in Nat
         /\ CycleSum(u, "CREDITED") \in Nat /\ CycleSum(u, "PENDING") \in Nat
    BY CyclesEarnedIsNat, FS_CardinalityType DEF SumInv, Counted, CycleSum, Total
  <1>13. SumInv(u)'
    BY <1>0, <1>1, <1>2, <1>7, <1>9, <1>10, <1>11, <1>12, SumsKept
  <1> QED
    BY <1>6, <1>13
\* The steps between adding a row and marking it credit the wallet and the record.
LEMMA CreditingInv ==
    ASSUME TypeInv, TypeInv', NEW r \in Runs, CreditPool(r) \/ PoolEntry(r) \/ UpdateEarned(r),
           NEW u \in Users, u = run[r].user, RowsInv(u), SumInv(u)
    PROVE  RowsInv(u)' /\ SumInv(u)'
  <1> DEFINE b == CycleBonus(run[r].level)
  <1>0. /\ run[r] \in Crediting /\ run[r].level \in RankLevel
        /\ UNCHANGED interrupted /\ CycleStep(r) /\ b \in Nat
    BY CycleSteps, Levels DEF CycleStep
  <1>1. PICK x : /\ Goes(r, x) /\ x.user = u /\ x.level = run[r].level /\ x.cycle = run[r].cycle
                 /\ \/ CreditPool(r) /\ run[r].pc = "pool" /\ x.pc = "poolEntry"
                    \/ PoolEntry(r) /\ run[r].pc = "poolEntry" /\ x.pc = "earned"
                    \/ UpdateEarned(r) /\ run[r].pc = "earned" /\ x.pc = "mark"
    <2>1. ~MarkAsCredited(r) /\ ~CreateCycle(r)
      BY DEF CreateCycle, MarkAsCredited, CreditPool, PoolEntry, UpdateEarned, At
    <2> QED
      BY <1>0, <2>1, CycleSteps
  <1>2. /\ cycles'[u] = cycles[u]
        /\ ~CreditPool(r) => poolWallet'[u] = poolWallet[u]
        /\ ~UpdateEarned(r) => CyclesEarned(u)' = CyclesEarned(u)
        /\ CreditPool(r) => poolWallet'[u] = poolWallet[u] + b
        /\ UpdateEarned(r) => CyclesEarned(u)' = CyclesEarned(u) + b
    <2>1. ~MarkAsCredited(r) /\ ~CreateCycle(r)
      BY DEF CreateCycle, MarkAsCredited, CreditPool, PoolEntry, UpdateEarned, At
    <2> QED
      BY <1>0, <2>1, CyclesOfOthers
  <1> HIDE DEF b
  <1>3. RowsInv(u)'
    <2>1. Gapless(cycles'[u])
      BY <1>2 DEF RowsInv
    <2>2. Fits(x, cycles'[u])
      BY <1>1, <1>2 DEF RowsInv, Fits, InCycle, Credits
    <2>3. \A s \in Runs : Fits(run[s], cycles[u]) => Fits(run[s], cycles'[u])
      BY <1>2
    <2>4. \A s \in Runs \ {r} : Cycling(run[s], u) => run[s].cycle # x.cycle
      BY <1>1 DEF RowsInv, Cycling, InCycle
    <2> QED
      BY <1>1, <2>1, <2>2, <2>3, <2>4, RowsKept
  <1>4. /\ CycleSum(u, "PENDING")' = CycleSum(u, "PENDING")
        /\ CycleSum(u, "CREDITED")' = CycleSum(u, "CREDITED")
        /\ IsFiniteSet(Units(RowAmounts(u, "PENDING")))'
        /\ IsFiniteSet(Units(RowAmounts(u, "CREDITED")))'
    BY <1>2, SumsSame
  <1>5. /\ poolWallet[u] \in Nat /\ CyclesEarned(u) \in Nat
        /\ CycleSum(u, "CREDITED") \in Nat /\ CycleSum(u, "PENDING") \in Nat
    BY CyclesEarnedIsNat, FS_CardinalityType DEF SumInv, Counted, CycleSum, Total
  <1>6. Share(run[r], InCycle, u) = b /\ Share(x, InCycle, u) = b
    BY <1>1 DEF Share, InCycle, b
  <1>7. CASE CreditPool(r) /\ run[r].pc = "pool" /\ x.pc = "poolEntry"
    <2>1. /\ Share(run[r], InPool, u) = 0 /\ Share(x, InPool, u) = b
          /\ Share(run[r], {"pool"}, u) = b /\ Share(x, {"pool"}, u) = 0
          /\ Share(run[r], Unrecorded, u) = 0 /\ Share(x, Unrecorded, u) = b
      BY <1>1, <1>7 DEF Share, InPool, Unrecorded, b
    <2>2. CyclesEarned(u)' = CyclesEarned(u) /\ poolWallet'[u] = poolWallet[u] + b
      BY <1>2, <1>7 DEF CreditPool, UpdateEarned, At
    <2>3. SumInv(u)'
      BY <1>0, <1>1, <1>4, <1>5, <1>6, <2>1, <2>2, SumsKept
    <2> QED
      BY <1>3, <2>3
  <1>8. CASE PoolEntry(r) /\ run[r].pc = "poolEntry" /\ x.pc = "earned"
    <2>1. /\ Share(run[r], InPool, u) = b /\ Share(x, InPool, u) = b
          /\ Share(run[r], {"pool"}, u) = 0 /\ Share(x, {"pool"}, u) = 0
          /\ Share(run[r], Unrecorded, u) = b /\ Share(x, Unrecorded, u) = b
      BY <1>1, <1>8 DEF Share, InPool, Unrecorded, b
    <2>2. CyclesEarned(u)' = CyclesEarned(u) /\ poolWallet'[u] = poolWallet[u]
      BY <1>2, <1>8 DEF CreditPool, UpdateEarned, At
    <2>3. SumInv(u)'
      BY <1>0, <1>1, <1>4, <1>5, <1>6, <2>1, <2>2, SumsKept
    <2> QED
      BY <1>3, <2>3
  <1>9. CASE UpdateEarned(r) /\ run[r].pc = "earned" /\ x.pc = "mark"
    <2>1. /\ Share(run[r], InPool, u) = b /\ Share(x, InPool, u) = b
          /\ Share(run[r], {"pool"}, u) = 0 /\ Share(x, {"pool"}, u) = 0
          /\ Share(run[r], Unrecorded, u) = b /\ Share(x, Unrecorded, u) = 0
      BY <1>1, <1>9 DEF Share, InPool, Unrecorded, b
    <2>2. CyclesEarned(u)' = CyclesEarned(u) + b /\ poolWallet'[u] = poolWallet[u]
      BY <1>2, <1>9 DEF CreditPool, UpdateEarned, At
    <2>3. SumInv(u)'
      BY <1>0, <1>1, <1>4, <1>5, <1>6, <2>1, <2>2, SumsKept
    <2> QED
      BY <1>3, <2>3
  <1> QED
    BY <1>1, <1>7, <1>8, <1>9

\* The row marked is the run's own, which was pending until then.
LEMMA MarkInv ==
    ASSUME TypeInv, TypeInv', NEW r \in Runs, MarkAsCredited(r), NEW u \in Users, u = run[r].user,
           RowsInv(u), SumInv(u)
    PROVE  RowsInv(u)' /\ SumInv(u)'
  <1> DEFINE c == run[r].cycle
             b == CycleBonus(run[r].level)
             row == [status |-> "PENDING", amount |-> b]
             marked == [status |-> "CREDITED", amount |-> b]
  <1>0. /\ run[r] \in Crediting /\ run[r].level \in RankLevel /\ c \in Nat
        /\ UNCHANGED interrupted /\ CycleStep(r) /\ run[r].pc = "mark" /\ b \in Nat
    BY CycleSteps, Levels DEF CycleStep, MarkAsCredited, At
  <1>1. PICK x : Goes(r, x) /\ x.pc = "next"
    <2>1. ~CreateCycle(r) /\ ~CreditPool(r) /\ ~PoolEntry(r) /\ ~UpdateEarned(r)
      BY DEF CreateCycle, MarkAsCredited, CreditPool, PoolEntry, UpdateEarned, At
    <2> QED
      BY <1>0, <2>1, CycleSteps
  <1>2. c \in DOMAIN cycles[u] /\ cycles[u][c] = row
    BY <1>0 DEF RowsInv, Fits, InCycle, Credits
  <1>3. poolWallet'[u] = poolWallet[u] /\ CyclesEarned(u)' = CyclesEarned(u)
    <2>1. ~CreditPool(r) /\ ~UpdateEarned(r)
      BY DEF MarkAsCredited, CreditPool, UpdateEarned, At
    <2> QED
      BY <1>0, <2>1, CyclesOfOthers
  <1>4. cycles'[u] = [cycles[u] EXCEPT ![c].status = "CREDITED"]
    BY DEF MarkAsCredited, TypeInv, TypeOK
  <1>5. /\ DOMAIN cycles'[u] = DOMAIN cycles[u] /\ cycles'[u][c] = marked
        /\ \A n \in DOMAIN cycles[u] \ {c} : cycles'[u][n] = cycles[u][n]
    BY <1>2, <1>4
  <1> HIDE DEF c, b, row, marked
  <1>6. RowsInv(u)'
    <2>1. Gapless(cycles'[u])
      BY <1>5 DEF RowsInv, Gapless
    <2>2. x.pc \notin Credits /\ ~Cycling(x, u)
      BY <1>1 DEF Credits, Cycling, InCycle
    <2>3. \A s \in Runs \ {r} : run[s].pc \in InCycle /\ run[s].user = u => run[s].cycle # c
      BY <1>0 DEF RowsInv, Cycling, InCycle, c
    <2>4. \A s \in Runs \ {r} : run[s].user = u /\ Fits(run[s], cycles[u]) => Fits(run[s], cycles'[u])
      BY <1>5, <2>3 DEF Fits
    <2> QED
      BY <1>1, <2>1, <2>2, <2>4, RowsKept
  <1>7. ASSUME NEW status \in Statuses
        PROVE  /\ IsFiniteSet(Units(RowAmounts(u, status)))'
               /\ CycleSum(u, status)' = CycleSum(u, status) - RowAmount(row, status)
                                             + RowAmount(marked, status)
    <2> DEFINE S == DOMAIN cycles[u]
               f == RowAmounts(u, status)
               g == [n \in DOMAIN cycles'[u] |-> RowAmount(cycles'[u][n], status)]
    <2>1. f \in [S -> Nat] /\ RowAmounts(u, status)' \in [DOMAIN cycles'[u] -> Nat]
      BY TypedAmounts, TypedAmountsNext DEF AmountsTyped
    <2>2. RowAmounts(u, status)' = g
      BY DEF RowAmounts
    <2>3. g \in [S -> Nat] /\ g[c] = RowAmount(marked, status) /\ f[c] = RowAmount(row, status)
      BY <1>2, <1>5, <2>1, <2>2 DEF RowAmounts
    <2>4. \A n \in S \ {c} : g[n] = f[n]
      BY <1>5 DEF RowAmounts
    <2>5. IsFiniteSet(Units(f)) /\ f \in [S -> Nat] /\ c \in S
      BY <1>2, <2>1 DEF SumInv, Counted, Statuses
    <2> HIDE DEF f, g, S
    <2>6. IsFiniteSet(Units(g)) /\ Total(g) = Total(f) - f[c] + g[c]
      BY <2>3, <2>4, <2>5, TotalChanges
    <2> QED
      BY <2>2, <2>3, <2>6 DEF CycleSum, Total, Units, f
  <1>8. /\ CycleSum(u, "PENDING")' = CycleSum(u, "PENDING") - b + 0
        /\ CycleSum(u, "CREDITED")' = CycleSum(u, "CREDITED") - 0 + b
        /\ IsFiniteSet(Units(RowAmounts(u, "PENDING")))'
        /\ IsFiniteSet(Units(RowAmounts(u, "CREDITED")))'
    BY <1>7 DEF Statuses, RowAmount, row, marked
  <1>9. /\ Share(run[r], InPool, u) = b /\ Share(run[r], {"pool"}, u) = 0
        /\ Share(run[r], InCycle, u) = b /\ Share(run[r], Unrecorded, u) = 0
        /\ Share(x, InPool, u) = 0 /\ Share(x, {"pool"}, u) = 0
        /\ Share(x, InCycle, u) = 0 /\ Share(x, Unrecorded, u) = 0
    BY <1>0, <1>1 DEF Share, InPool, InCycle, Unrecorded, b
  <1>10. /\ poolWallet[u] \in Nat /\ CyclesEarned(u) \in Nat
         /\ CycleSum(u, "CREDITED") \in Nat /\ CycleSum(u, "PENDING") \in Nat
    BY CyclesEarnedIsNat, FS_CardinalityType DEF SumInv, Counted, CycleSum, Total
  <1>11. SumInv(u)'
    BY <1>0, <1>1, <1>3, <1>8, <1>9, <1>10, SumsKept
  <1> QED
    BY <1>6, <1>11
\* A record that changes its level keeps what it has recorded of cycles.
LEMMA CyclesAtLevel ==
    ASSUME TypeInv, NEW u \in Users, NEW level \in RankLevel, NEW bonus \in Nat
    PROVE  AtLevel(u, level, bonus).cycleEarned = CyclesEarned(u)
  <1>1. CASE Has(u)
    <2>1. record[u] \in Record
      BY <1>1 DEF TypeInv, TypeOK, Has
    <2> QED
      BY <1>1, <2>1 DEF AtLevel, CyclesEarned, Record
  <1>2. CASE ~Has(u)
    BY <1>2 DEF AtLevel, CyclesEarned
  <1> QED
    BY <1>1, <1>2

\* Promotions and corrections leave cycles alone.
LEMMA RankingLeavesCycles ==
    ASSUME TypeInv, NEW r \in Runs, PromotionStep(r) \/ SetRank(r), NEW u \in Users
    PROVE  /\ UNCHANGED <<cycles, poolWallet, interrupted>>
           /\ CyclesEarned(u)' = CyclesEarned(u)
           /\ run[r].pc \notin InCycle
           /\ \E x : Goes(r, x) /\ x.pc \notin Credits
  <1>1. UNCHANGED <<cycles, poolWallet, interrupted>>
    BY DEF PromotionStep, UpdateUser, FindHistory, UpsertUserRank, CreateRankHistory, CreditBonus,
           SetRank, distribution, observed
  <1>2. record \in [Users -> Record \cup {NoRecord}]
    BY DEF TypeInv, TypeOK
  <1>3. run[r].pc \notin InCycle
    BY DEF PromotionStep, UpdateUser, FindHistory, UpsertUserRank, CreateRankHistory, CreditBonus,
           SetRank, At, InCycle
  <1>4. CASE SetRank(r)
    <2>1. Moved(r, Idle) /\ run[r].pc = "set" /\ run[r] \in RunState
      BY <1>4, SetRankEarns DEF TypeInv, TypeOK, RunState
    <2>2. run[r].level \in RankLevel /\ run[r].user \in Users
      BY <2>1, Shapes DEF Correcting
    <2>3. PICK v, level : v = run[r].user /\ level = run[r].level
      OBVIOUS
    <2>4. PICK row : /\ record' = [record EXCEPT ![v] = row]
                     /\ row = IF ~Has(v) /\ level = NONE THEN NoRecord ELSE AtLevel(v, level, 0)
      BY <1>4, <2>3 DEF SetRank
    <2>5. row # NoRecord => row.cycleEarned = CyclesEarned(v)
      BY <2>2, <2>3, <2>4, CyclesAtLevel
    <2>6. row = NoRecord => ~Has(v)
      BY <2>2, <2>3, <2>4, Rows
    <2>7. CyclesEarned(u)' = CyclesEarned(u)
      BY <1>2, <2>2, <2>3, <2>4, <2>5, <2>6 DEF CyclesEarned, Has
    <2>8. Goes(r, Idle) /\ Idle.pc \notin Credits
      BY <2>1 DEF Moved, Goes, Idle, Credits
    <2> QED
      BY <1>1, <1>3, <2>7, <2>8
  <1>5. CASE PromotionStep(r)
    <2>1. PICK x : Moved(r, x) /\ x.pc \notin Credits
      BY <1>5, PromotionSteps DEF Credits
    <2>2. run[r].target \in RankLevel /\ Bonus(r) \in Nat /\ run[r].user \in Users
      BY <1>5, PromotionSteps DEF RankLevel
    <2>3. CASE UpsertUserRank(r)
      <3>1. PICK v, row : /\ v = run[r].user /\ row = AtLevel(v, run[r].target, Bonus(r))
                          /\ record' = [record EXCEPT ![v] = row]
        BY <2>3 DEF UpsertUserRank
      <3>2. row # NoRecord /\ row.cycleEarned = CyclesEarned(v)
        BY <2>2, <3>1, Rows, CyclesAtLevel
      <3> QED
        BY <1>1, <1>2, <1>3, <2>1, <2>2, <3>1, <3>2 DEF CyclesEarned, Has, Moved, Goes
    <2>4. CASE ~UpsertUserRank(r)
      <3>1. record' = record
        BY <1>5, <2>4 DEF PromotionStep, UpdateUser, FindHistory, CreateRankHistory, CreditBonus
      <3> QED
        BY <1>1, <1>3, <2>1, <3>1 DEF CyclesEarned, Has, Moved, Goes
    <2> QED
      BY <2>3, <2>4
  <1> QED
    BY <1>4, <1>5

\* Rows, wallet and record follow one another in every step.
LEMMA NextCycles == CycleInv /\ [Next]_vars => CycleInv'
  <1> SUFFICES ASSUME CycleInv, [Next]_vars, NEW u \in Users
               PROVE  RowsInv(u)' /\ SumInv(u)'
    BY NextTypeInv DEF CycleInv
  <1>0. TypeInv /\ TypeInv' /\ RowsInv(u) /\ SumInv(u)
    BY NextTypeInv DEF CycleInv
  <1>1. ASSUME NEW r \in Runs, RestingStep(r)
        PROVE  RowsInv(u)' /\ SumInv(u)'
    <2>1. /\ UNCHANGED <<record, poolWallet, cycles>> /\ interrupted \subseteq interrupted'
          /\ run[r].pc \in InCycle => run[r].user \in interrupted'
      BY <1>0, <1>1, RestingSteps
    <2>2. PICK x : /\ Goes(r, x) /\ x.pc \notin InCycle
                   /\ x.pc = "create" => x.cycle - 1 \in CycleNumbers(x.user)
      BY <1>0, <1>1, RestingSteps
    <2>3. CyclesEarned(u)' = CyclesEarned(u)
      BY <2>1 DEF CyclesEarned, Has
    <2>4. Cycling(run[r], u) => u \in interrupted'
      BY <2>1 DEF Cycling
    <2>5. cycles'[u] = cycles[u] /\ poolWallet'[u] = poolWallet[u]
      BY <2>1
    <2> QED
      BY <1>0, <2>1, <2>2, <2>3, <2>4, <2>5, CyclesRest
  <1>2. ASSUME NEW r \in Runs,
               \/ ReadUser(r) \/ CountQualifying(r) \/ CountLv1(r)
               \/ \E target \in RANK_ORDER : CountTeam(r, target)
        PROVE  RowsInv(u)' /\ SumInv(u)'
    <2>1. PICK x : /\ Moved(r, x) /\ run[r].pc \in {"read", "qualifying", "lv1", "team"}
                   /\ x.pc \in {"qualifying", "lv1", "team", "update"}
      BY <1>0, <1>2, CountingMoves
    <2>2. UNCHANGED <<record, poolWallet, cycles, interrupted>>
      BY <1>2 DEF ReadUser, CountQualifying, CountLv1, CountTeam, distribution, observed
    <2>3. CyclesEarned(u)' = CyclesEarned(u)
      BY <2>2 DEF CyclesEarned, Has
    <2>4. /\ Goes(r, x) /\ x.pc \notin InCycle /\ x.pc # "create" /\ ~Cycling(run[r], u)
          /\ cycles'[u] = cycles[u] /\ poolWallet'[u] = poolWallet[u]
          /\ interrupted \subseteq interrupted'
      BY <2>1, <2>2 DEF Moved, Goes, InCycle, Cycling
    <2> QED
      BY <1>0, <2>3, <2>4, CyclesRest
  <1>3. ASSUME NEW r \in Runs, PromotionStep(r) \/ SetRank(r)
        PROVE  RowsInv(u)' /\ SumInv(u)'
    <2>1. /\ UNCHANGED <<cycles, poolWallet, interrupted>>
          /\ CyclesEarned(u)' = CyclesEarned(u) /\ run[r].pc \notin InCycle
      BY <1>0, <1>3, RankingLeavesCycles
    <2>2. PICK x : Goes(r, x) /\ x.pc \notin Credits
      BY <1>0, <1>3, RankingLeavesCycles
    <2>3. /\ x.pc \notin InCycle /\ x.pc # "create" /\ ~Cycling(run[r], u)
          /\ cycles'[u] = cycles[u] /\ poolWallet'[u] = poolWallet[u]
          /\ interrupted \subseteq interrupted'
      BY <2>1, <2>2 DEF InCycle, Credits, Cycling
    <2> QED
      BY <1>0, <2>1, <2>2, <2>3, CyclesRest
  <1>4. ASSUME NEW r \in Runs, CycleStep(r)
        PROVE  RowsInv(u)' /\ SumInv(u)'
    <2>1. CASE u = run[r].user
      BY <1>0, <1>4, <2>1, CreateCycleInv, CreditingInv, MarkInv DEF CycleStep
    <2>2. CASE u # run[r].user
      <3>1. /\ cycles'[u] = cycles[u] /\ poolWallet'[u] = poolWallet[u]
            /\ CyclesEarned(u)' = CyclesEarned(u)
        BY <1>0, <1>4, <2>2, CyclesOfOthers
      <3>2. interrupted \subseteq interrupted'
        BY <1>0, <1>4, CycleSteps
      <3>3. PICK x : Goes(r, x) /\ ((x.user = run[r].user /\ x.pc # "create") \/ x.pc = "next")
        BY <1>0, <1>4, CycleSteps
      <3>4. /\ x.pc \notin InCycle \/ x.user # u
            /\ ~(x.pc = "create" /\ x.user = u) /\ ~Cycling(run[r], u)
        BY <2>2, <3>3 DEF InCycle, Cycling
      <3> QED
        BY <1>0, <3>1, <3>2, <3>3, <3>4, CyclesRest
    <2> QED
      BY <2>1, <2>2
  <1>5. CASE Crash
    <2>1. /\ UNCHANGED <<record, poolWallet, cycles>> /\ interrupted \subseteq interrupted'
          /\ \A r \in Runs : run'[r].pc = "idle"
          /\ \A r \in Runs : run[r].pc \in InCycle => run[r].user \in interrupted'
      BY <1>5 DEF Crash, Midway, Idle, InCycle, distribution
    <2>2. RowsInv(u)'
      BY <1>0, <2>1 DEF RowsInv, Credits, Cycling, InCycle
    <2>3. /\ CycleSum(u, "CREDITED")' = CycleSum(u, "CREDITED")
          /\ CycleSum(u, "PENDING")' = CycleSum(u, "PENDING")
          /\ IsFiniteSet(Units(RowAmounts(u, "PENDING")))'
          /\ IsFiniteSet(Units(RowAmounts(u, "CREDITED")))'
      BY <1>0, <2>1, SumsSame
    <2>4. /\ CyclesEarned(u)' = CyclesEarned(u)
          /\ poolWallet[u] \in Nat /\ CycleSum(u, "CREDITED") \in Nat
          /\ CycleSum(u, "PENDING") \in Nat /\ CyclesEarned(u) \in Nat
      BY <1>0, <2>1, CyclesEarnedIsNat, FS_CardinalityType
      DEF CyclesEarned, Has, SumInv, Counted, CycleSum, Total
    <2>5. ASSUME NEW pcs \in SUBSET InCycle
          PROVE  /\ Shared(pcs, u)' = 0 /\ IsFiniteSet(Units(Shares(pcs, u)))'
                 /\ Shared(pcs, u) \in Nat
                 /\ u \notin interrupted' => Shared(pcs, u) = 0
      <3>1. Shares(pcs, u)' = [r \in Runs |-> 0]
        BY <2>1, <2>5 DEF Shares, Share, InCycle
      <3>2. /\ IsFiniteSet(Units([r \in Runs |-> 0])) /\ Total([r \in Runs |-> 0]) = 0
        BY TotalOfNothing
      <3>3. u \notin interrupted' => Shares(pcs, u) = [r \in Runs |-> 0]
        BY <2>1 DEF Shares, Share
      <3>4. IsFiniteSet(Units(Shares(pcs, u)))
        <4>1. /\ Shares(pcs, u) \in [Runs -> Nat] /\ Shares(InCycle, u) \in [Runs -> Nat]
          BY <1>0, TypedShares DEF SharesTyped
        <4>2. \A r \in Runs : Shares(pcs, u)[r] <= Shares(InCycle, u)[r]
          <5>1. \A r \in Runs : \/ Shares(pcs, u)[r] = Shares(InCycle, u)[r]
                                \/ Shares(pcs, u)[r] = 0
            BY DEF Shares, Share
          <5> QED
            BY <4>1, <5>1
        <4> QED
          BY <1>0, <4>1, <4>2, TotalShrinks DEF SumInv, Counted
      <3>5. Shared(pcs, u) \in Nat
        BY <3>4, FS_CardinalityType DEF Shared, Total
      <3> QED
        BY <3>1, <3>2, <3>3, <3>5 DEF Shared, Total, Units
    <2>6. /\ InPool \in SUBSET InCycle /\ {"pool"} \in SUBSET InCycle
          /\ Unrecorded \in SUBSET InCycle /\ InCycle \in SUBSET InCycle
      BY DEF InPool, Unrecorded, InCycle
    <2>7. Counted(u)'
      BY <2>3, <2>5, <2>6 DEF Counted
    <2>8. /\ Shared(InPool, u)' = 0 /\ Shared({"pool"}, u)' = 0
          /\ Shared(Unrecorded, u)' = 0 /\ Shared(InCycle, u)' = 0
          /\ Shared(InPool, u) \in Nat /\ Shared({"pool"}, u) \in Nat
          /\ u \notin interrupted' => Shared(Unrecorded, u) = 0 /\ Shared(InCycle, u) = 0
      BY <2>5, <2>6
    <2>9. poolWallet'[u] = poolWallet[u] /\ (u \notin interrupted' => u \notin interrupted)
      BY <2>1
    <2>10. SumInv(u)'
      BY <1>0, <2>3, <2>4, <2>7, <2>8, <2>9 DEF SumInv
    <2> QED
      BY <2>2, <2>10
  <1>6. CASE UNCHANGED vars
    BY <1>0, <1>6 DEF RowsInv, Cycling, SumInv, Counted, Shared, Shares, CycleSum, RowAmounts,
         CyclesEarned, Has, Total, Units, vars, distribution, observed
  <1>7. ASSUME NEW r \in Runs, Called(r) \/ Step(r) \/ Fail(r)
        PROVE  RowsInv(u)' /\ SumInv(u)'
    <2>1. \/ RestingStep(r)
          \/ ReadUser(r) \/ CountQualifying(r) \/ CountLv1(r)
          \/ \E target \in RANK_ORDER : CountTeam(r, target)
          \/ PromotionStep(r) \/ SetRank(r)
          \/ CycleStep(r)
      BY <1>7 DEF Step, RestingStep, PromotionStep, CycleStep
    <2> QED
      BY <1>1, <1>2, <1>3, <1>4, <2>1
  <1> QED
    BY <1>5, <1>6, <1>7 DEF Next

\* There are no cycles at the start.
LEMMA InitCycles == Init => CycleInv
  <1> SUFFICES ASSUME Init, NEW u \in Users
               PROVE  RowsInv(u) /\ SumInv(u)
    BY InitTypeInv DEF CycleInv
  <1>0. /\ cycles[u] = << >> /\ \A r \in Runs : run[r].pc = "idle"
        /\ poolWallet[u] = 0 /\ CyclesEarned(u) = 0
    BY DEF Init, Idle, CyclesEarned, Has
  <1>1. RowsInv(u)
    <2>1. DOMAIN cycles[u] = 1..0
      BY <1>0
    <2> QED
      BY <1>0, <2>1 DEF RowsInv, Gapless, Cycling, InCycle, Credits
  <1>2. ASSUME NEW status
        PROVE  IsFiniteSet(Units(RowAmounts(u, status))) /\ CycleSum(u, status) = 0
    <2>1. RowAmounts(u, status) = [n \in {} |-> 0]
      BY <1>0 DEF RowAmounts
    <2> QED
      BY <2>1, TotalOfNothing DEF CycleSum
  <1>3. ASSUME NEW pcs \in SUBSET InCycle
        PROVE  IsFiniteSet(Units(Shares(pcs, u))) /\ Shared(pcs, u) = 0
    <2>1. Shares(pcs, u) = [r \in Runs |-> 0]
      BY <1>0 DEF Shares, Share, InCycle
    <2> QED
      BY <2>1, TotalOfNothing DEF Shared
  <1>4. /\ InPool \in SUBSET InCycle /\ {"pool"} \in SUBSET InCycle
        /\ Unrecorded \in SUBSET InCycle /\ InCycle \in SUBSET InCycle
    BY DEF InPool, Unrecorded, InCycle
  <1>5. SumInv(u)
    BY <1>0, <1>2, <1>3, <1>4 DEF SumInv, Counted
  <1> QED
    BY <1>1, <1>5

\* The invariant says what the property asks.
LEMMA CyclesTell == CycleInv => CyclesArePaidOnce
  <1> SUFFICES ASSUME CycleInv, NEW u \in Users
               PROVE  /\ DOMAIN cycles[u] = 1..Cardinality(DOMAIN cycles[u])
                      /\ CycleSum(u, "CREDITED") <= poolWallet[u]
                      /\ poolWallet[u] <= CycleSum(u, "CREDITED") + CycleSum(u, "PENDING")
                      /\ Quiet(u) /\ u \notin interrupted =>
                             /\ CycleSum(u, "PENDING") = 0
                             /\ Has(u) => record[u].cycleEarned = poolWallet[u]
    BY DEF CyclesArePaidOnce
  <1>0. TypeInv /\ RowsInv(u) /\ SumInv(u)
    BY DEF CycleInv
  <1>1. DOMAIN cycles[u] = 1..Cardinality(DOMAIN cycles[u])
    <2>1. PICK k \in Nat : DOMAIN cycles[u] = 1..k
      BY <1>0 DEF RowsInv, Gapless
    <2>2. 1 \in Int /\ k \in Int /\ (IF 1 > k THEN 0 ELSE k - 1 + 1) = k
      OBVIOUS
    <2>3. Cardinality(1..k) = k
      BY <2>2, FS_Interval, Zenon
    <2> QED
      BY <2>1, <2>3
  <1>2. /\ poolWallet[u] \in Nat /\ CyclesEarned(u) \in Nat
        /\ CycleSum(u, "CREDITED") \in Nat /\ CycleSum(u, "PENDING") \in Nat
    BY <1>0, CyclesEarnedIsNat, FS_CardinalityType DEF SumInv, Counted, CycleSum, Total
  <1>3. ASSUME NEW pcs \in SUBSET InCycle
        PROVE  Shared(pcs, u) \in Nat /\ (Quiet(u) => Shared(pcs, u) = 0)
    <2>1. /\ Shares(pcs, u) \in [Runs -> Nat] /\ Shares(InCycle, u) \in [Runs -> Nat]
      BY <1>0, TypedShares DEF SharesTyped
    <2>2. \A r \in Runs : Shares(pcs, u)[r] <= Shares(InCycle, u)[r]
      <3>1. \A r \in Runs : Shares(pcs, u)[r] = Shares(InCycle, u)[r] \/ Shares(pcs, u)[r] = 0
        BY DEF Shares, Share
      <3> QED
        BY <2>1, <3>1
    <2>3. Shared(pcs, u) \in Nat
      BY <1>0, <2>1, <2>2, TotalShrinks DEF SumInv, Counted, Shared
    <2>4. ASSUME Quiet(u)
          PROVE  Shares(pcs, u) = [r \in Runs |-> 0]
      BY <2>4 DEF Quiet, Midway, Shares, Share, InCycle
    <2> QED
      BY <2>3, <2>4, TotalOfNothing DEF Shared
  <1>4. /\ InPool \in SUBSET InCycle /\ {"pool"} \in SUBSET InCycle
        /\ Unrecorded \in SUBSET InCycle /\ InCycle \in SUBSET InCycle
    BY DEF InPool, Unrecorded, InCycle
  <1>5. /\ Shared(InPool, u) \in Nat /\ Shared({"pool"}, u) \in Nat
        /\ Quiet(u) => Shared(InCycle, u) = 0 /\ Shared(Unrecorded, u) = 0
    BY <1>3, <1>4
  <1>6. Has(u) => CyclesEarned(u) = record[u].cycleEarned
    BY DEF CyclesEarned
  <1>7. /\ CycleSum(u, "CREDITED") <= poolWallet[u]
        /\ poolWallet[u] <= CycleSum(u, "CREDITED") + CycleSum(u, "PENDING")
    BY <1>0, <1>2, <1>5 DEF SumInv
  <1>8. Quiet(u) /\ u \notin interrupted =>
            CycleSum(u, "PENDING") = 0 /\ CyclesEarned(u) = poolWallet[u]
    BY <1>0, <1>2, <1>5 DEF SumInv
  <1> QED
    BY <1>1, <1>6, <1>7, <1>8

\* History, record, cycles and wallets tell the same rewards, however promotions,
\* corrections and distributions interleave and wherever they are cut short.
THEOREM RewardsTold == Spec => []RewardsAddUp
  <1>1. Spec => []ToldInv
    BY InitTold, NextTold, PTL DEF Spec
  <1>2. Spec => []EarnInv
    BY InitEarn, NextEarn, PTL DEF Spec
  <1>3. Spec => []CycleInv
    BY InitCycles, NextCycles, PTL DEF Spec
  <1>4. ToldInv /\ EarnInv /\ CycleInv => RewardsAddUp
    BY ToldTells, EarnedTells, CyclesTell DEF RewardsAddUp
  <1> QED
    BY <1>1, <1>2, <1>3, <1>4, PTL
(* ---------------------------------------------------------------------- *)
(* Nobody is left behind                                                  *)

Settled(u) == NothingAbove(rank[u], QualifyingDirects(u), DirectLv1s(u), TeamSize(u))

\* An evaluation of u in state x that has counted nothing that is out of date, and
\* will promote u as far as the counts allow.
Fresh(x, u) ==
    /\ x.pc \in {"read", "qualifying", "lv1", "team", "update"} /\ x.user = u
    /\ x.pc \in {"lv1", "team"} => x.qualifying = QualifyingDirects(u)
    /\ x.pc = "team" => x.lv1 = DirectLv1s(u)
    /\ x.pc = "update" => NothingAbove(x.target, QualifyingDirects(u), DirectLv1s(u), TeamSize(u))

\* An evaluation of somebody below travels up and comes to u, afresh.
ComingTo(x, u) == (x.pc \in Evaluates /\ x.user \in Team(u)) \/ Fresh(x, u)

Awaited(u) == Settled(u) \/ \E r \in Runs : ComingTo(run[r], u)

BehindInv ==
    /\ Inv
    /\ failures = 0 /\ corrected = {} => \A u \in Users \ overlapped : Awaited(u)

\* Whom u sponsors is of the team, and who is sponsored by one of the team.
LEMMA TeamDown ==
    ASSUME NEW u, NEW v \in Users, Sponsor[v] = u \/ Sponsor[v] \in Team(u)
    PROVE  v \in Team(u)
  BY DEF Team

\* Who is of the team is sponsored by u or by one of the team.
LEMMA TeamUp ==
    ASSUME NEW u, NEW v \in Team(u)
    PROVE  Sponsor[v] = u \/ Sponsor[v] \in Team(u)
  <1> DEFINE S == {w \in Users : Sponsor[w] = u \/ Sponsor[w] \in Team(u)}
  <1>1. S \subseteq Team(u)
    BY TeamDown
  <1>2. ASSUME NEW w \in Users, Sponsor[w] \in S \cup {u}
        PROVE  w \in S
    BY <1>1, <1>2
  <1>3. S \in SUBSET Users
    OBVIOUS
  <1> HIDE DEF S
  <1>4. v \in S
    BY <1>2, <1>3 DEF Team
  <1> QED
    BY <1>4 DEF S

\* The counts of u are of the team alone.
LEMMA SameCounts ==
    ASSUME NEW u \in Users,
           \A v \in Team(u) : deposited'[v] = deposited[v] /\ rank'[v] = rank[v]
    PROVE  /\ QualifyingDirects(u)' = QualifyingDirects(u)
           /\ DirectLv1s(u)' = DirectLv1s(u)
           /\ TeamSize(u)' = TeamSize(u)
  <1>1. Directs(u) \subseteq Team(u)
    BY TeamDown DEF Directs
  <1>2. {v \in Directs(u) : deposited'[v] >= MinDirectDeposit}
            = {v \in Directs(u) : deposited[v] >= MinDirectDeposit}
    BY <1>1
  <1>3. {v \in Directs(u) : rank'[v] \in RANK_ORDER} = {v \in Directs(u) : rank[v] \in RANK_ORDER}
    BY <1>1
  <1>4. {v \in Users : v \in Team(u) /\ deposited'[v] > 0}
            = {v \in Users : v \in Team(u) /\ deposited[v] > 0}
    OBVIOUS
  <1> QED
    BY <1>2, <1>3, <1>4 DEF QualifyingDirects, DirectLv1s, TeamSize, Directs

\* With the same counts and a rank that is no lower, who was awaited is, unless it
\* was the run that moves that was awaited.
LEMMA StillAwaited ==
    ASSUME TypeInv, NEW u \in Users, Awaited(u), NEW r \in Runs, NEW x,
           run' = [run EXCEPT ![r] = x],
           \A v \in Team(u) : deposited'[v] = deposited[v] /\ rank'[v] = rank[v],
           rank'[u] \in Nat, rank'[u] >= rank[u],
           ComingTo(run[r], u) => ComingTo(x, u)' \/ Settled(u)'
    PROVE  Awaited(u)'
  <1>0. run \in [Runs -> RunState] /\ rank[u] \in Nat /\ RANK_ORDER \subseteq Nat
    BY Levels DEF TypeInv, TypeOK, RunState
  <1>1. /\ QualifyingDirects(u)' = QualifyingDirects(u)
        /\ DirectLv1s(u)' = DirectLv1s(u)
        /\ TeamSize(u)' = TeamSize(u)
    BY SameCounts
  <1>2. Settled(u) => Settled(u)'
    BY <1>0, <1>1 DEF Settled, NothingAbove, Eligible
  <1>3. \A s \in Runs \ {r} : ComingTo(run[s], u) => ComingTo(run[s], u)'
    <2>1. \A s \in Runs \ {r} : run'[s] = run[s]
      BY <1>0
    <2> QED
      BY <1>1, <2>1 DEF ComingTo, Fresh
  <1>4. run'[r] = x
    BY <1>0
  <1>5. ComingTo(x, u)' => ComingTo(run[r], u)'
    BY <1>4 DEF ComingTo, Fresh
  <1> QED
    BY <1>2, <1>3, <1>5 DEF Awaited

\* The evaluation of the sponsor of one of the team.
LEMMA TravelsUp ==
    ASSUME TypeInv, NEW r \in Runs, NEW u \in Users, run[r].user \in Team(u),
           EvaluateSponsor(r, run[r].user)
    PROVE  \E x : run' = [run EXCEPT ![r] = x] /\ ComingTo(x, u)'
  <1> DEFINE w == run[r].user
  <1>1. Sponsor[w] = u \/ Sponsor[w] \in Team(u)
    BY TeamUp
  <1>2. Sponsor[w] \in Users
    BY <1>1 DEF Team
  <1>3. Sponsor[w] # NoUser
    BY <1>2, SponsorAssumption
  <1>4. PICK x : x = Evaluate(Sponsor[w]) /\ run' = [run EXCEPT ![r] = x]
    BY <1>3 DEF EvaluateSponsor
  <1>5. x.pc = "read" /\ x.user = Sponsor[w]
    BY <1>4 DEF Evaluate
  <1>6. ComingTo(x, u)'
    BY <1>1, <1>5 DEF ComingTo, Fresh, Evaluates
  <1> QED
    BY <1>4, <1>6

\* Steps that change no rank and no deposit, of a run that evaluates nobody.
LEMMA NoEvaluation ==
    ASSUME TypeInv, NEW u \in Users, Awaited(u), NEW r \in Runs, NEW x,
           run' = [run EXCEPT ![r] = x], UNCHANGED <<deposited, rank>>,
           run[r].pc \notin Evaluates
    PROVE  Awaited(u)'
  <1>1. ~ComingTo(run[r], u)
    BY DEF ComingTo, Fresh, Evaluates
  <1>2. rank[u] \in Nat
    BY Levels DEF TypeInv, TypeOK
  <1>3. /\ \A v \in Team(u) : deposited'[v] = deposited[v] /\ rank'[v] = rank[v]
        /\ rank'[u] \in Nat /\ rank'[u] >= rank[u]
    BY <1>2
  <1> QED
    BY <1>1, <1>3, StillAwaited
\* Whoever an evaluation in the team will come to is awaited.
LEMMA Coming ==
    ASSUME TypeInv, NEW u \in Users, NEW r \in Runs, NEW x, run' = [run EXCEPT ![r] = x],
           x.pc \in Evaluates, x.user \in Team(u)
    PROVE  Awaited(u)'
  <1>1. run'[r] = x
    BY DEF TypeInv, TypeOK
  <1> QED
    BY <1>1 DEF Awaited, ComingTo

\* An evaluation that counts.
LEMMA CountingComes ==
    ASSUME TypeInv, NEW u \in Users, Awaited(u), NEW r \in Runs,
           \/ ReadUser(r) \/ CountQualifying(r) \/ CountLv1(r)
           \/ \E target \in RANK_ORDER : CountTeam(r, target)
    PROVE  Awaited(u)'
  <1>1. PICK x \in RunState :
            /\ Moved(r, x) /\ x.user = run[r].user
            /\ \/ /\ ReadUser(r) /\ run[r].pc = "read" /\ x.pc = "qualifying"
               \/ /\ CountQualifying(r) /\ run[r].pc = "qualifying" /\ x.pc = "lv1"
                  /\ x.qualifying = QualifyingDirects(x.user)
               \/ /\ CountLv1(r) /\ run[r].pc = "lv1" /\ x.pc = "team"
                  /\ x.qualifying = run[r].qualifying /\ x.lv1 = DirectLv1s(x.user)
               \/ /\ run[r].pc = "team" /\ x.pc = "update"
                  /\ x.target \in RANK_ORDER /\ CountTeam(r, x.target)
    BY CountingMoves, Zenon
  <1>2. deposited' = deposited /\ rank' = rank
    BY DEF ReadUser, CountQualifying, CountLv1, CountTeam
  <1>3. /\ QualifyingDirects(u)' = QualifyingDirects(u)
        /\ DirectLv1s(u)' = DirectLv1s(u)
        /\ TeamSize(u)' = TeamSize(u)
    BY <1>2, SameCounts
  <1>4. ASSUME run[r].pc \in Evaluates, run[r].user \in Team(u)
        PROVE  ComingTo(x, u)'
    BY <1>1, <1>4 DEF ComingTo, Evaluates
  <1>5. ASSUME Fresh(run[r], u)
        PROVE  Fresh(x, u)'
    <2>1. CASE x.pc \in {"qualifying", "lv1", "team"}
      BY <1>1, <1>3, <1>5, <2>1 DEF Fresh
    <2>2. CASE run[r].pc = "team" /\ x.pc = "update"
      <3>1. TargetRank(x.target, QualifyingDirects(u), DirectLv1s(u), TeamSize(u))
        BY <1>1, <1>5, <2>2 DEF CountTeam, IsTarget, Fresh
      <3>2. NothingAbove(x.target, QualifyingDirects(u), DirectLv1s(u), TeamSize(u))
        BY <3>1 DEF TargetRank, NothingAbove
      <3>3. NothingAbove(x.target, QualifyingDirects(u), DirectLv1s(u), TeamSize(u))'
        BY <1>3, <3>2 DEF NothingAbove, Eligible
      <3> QED
        BY <1>1, <1>5, <2>2, <3>3 DEF Fresh
    <2> QED
      BY <1>1, <2>1, <2>2
  <1>6. ComingTo(run[r], u) => ComingTo(x, u)'
    BY <1>4, <1>5 DEF ComingTo
  <1>7. /\ run' = [run EXCEPT ![r] = x]
        /\ \A v \in Team(u) : deposited'[v] = deposited[v] /\ rank'[v] = rank[v]
        /\ rank'[u] \in Nat /\ rank'[u] >= rank[u]
    <2>1. rank[u] \in Nat
      BY Levels DEF TypeInv, TypeOK
    <2> QED
      BY <1>1, <1>2, <2>1 DEF Moved
  <1> QED
    BY <1>6, <1>7, StillAwaited

\* An evaluation that ends with its user at the rank it counted for, or promoted.
LEMMA EndComes ==
    ASSUME TypeInv, NEW u \in Users, Awaited(u), NEW r \in Runs, Consistent(run[r], u),
           UNCHANGED <<deposited, rank>>,
           EvaluateSponsor(r, run[r].user), run[r].pc \in Evaluates,
           NotPromoted(r) \/ run[r].pc \in {"history", "entry"}
    PROVE  Awaited(u)'
  <1>0. /\ \A v \in Team(u) : deposited'[v] = deposited[v] /\ rank'[v] = rank[v]
        /\ rank'[u] \in Nat /\ rank'[u] >= rank[u]
    <2>1. rank[u] \in Nat
      BY Levels DEF TypeInv, TypeOK
    <2> QED
      BY <2>1
  <1>1. CASE run[r].user \in Team(u)
    <2>1. PICK x : run' = [run EXCEPT ![r] = x] /\ ComingTo(x, u)'
      BY <1>1, TravelsUp
    <2> QED
      BY <1>0, <2>1, StillAwaited
  <1>2. CASE run[r].user \notin Team(u)
    <2>1. PICK x : run' = [run EXCEPT ![r] = x]
      BY DEF EvaluateSponsor, End
    <2>2. ASSUME ComingTo(run[r], u)
          PROVE  Settled(u)'
      <3>1. Fresh(run[r], u)
        BY <1>2, <2>2 DEF ComingTo
      <3>2. NotPromoted(r) /\ run[r].pc = "team"
        BY <3>1 DEF Fresh, NotPromoted, At
      <3>3. run[r].current = rank[u]
        BY <3>1, <3>2 DEF Fresh, Consistent, Evaluates
      <3>4. Settled(u)
        BY <3>1, <3>2, <3>3 DEF NotPromoted, Fresh, Settled
      <3>5. /\ QualifyingDirects(u)' = QualifyingDirects(u)
            /\ DirectLv1s(u)' = DirectLv1s(u)
            /\ TeamSize(u)' = TeamSize(u)
        BY <1>0, SameCounts
      <3> QED
        BY <3>4, <3>5 DEF Settled, NothingAbove, Eligible
    <2> QED
      BY <1>0, <2>1, <2>2, StillAwaited
  <1> QED
    BY <1>1, <1>2

\* A promotion whose rank is written comes to those above when it ends.
LEMMA PromotionComes ==
    ASSUME TypeInv, NEW u \in Users, Awaited(u), NEW r \in Runs, Consistent(run[r], u),
           PromotionStep(r)
    PROVE  Awaited(u)'
  <1>0. /\ run \in [Runs -> RunState] /\ rank \in [Users -> RankLevel]
        /\ rank[u] \in Nat /\ RankLevel \subseteq Nat
    BY Levels DEF TypeInv, TypeOK, RunState
  <1>1. PICK x \in RunState :
            /\ Moved(r, x)
            /\ \/ /\ x.user = run[r].user /\ x.target = run[r].target
                  /\ ~FindHistory(r) => x.alreadyAchieved = run[r].alreadyAchieved
                  /\ \/ UpdateUser(r) /\ run[r].pc = "update" /\ x.pc = "find"
                     \/ /\ FindHistory(r) /\ run[r].pc = "find" /\ x.pc = "upsert"
                        /\ x.alreadyAchieved <=> run[r].target \in history[run[r].user]
                     \/ UpsertUserRank(r) /\ run[r].pc = "upsert" /\ x.pc = "history"
                     \/ /\ CreateRankHistory(r) /\ run[r].pc = "history" /\ x.pc = "bonus"
                        /\ Bonus(r) > 0
                     \/ CreditBonus(r) /\ run[r].pc = "bonus" /\ x.pc = "entry"
               \/ /\ CreateRankHistory(r) /\ run[r].pc = "history" /\ Bonus(r) = 0
                  /\ x.pc \in {"idle", "read"}
    BY PromotionSteps, Zenon
  <1>2. run' = [run EXCEPT ![r] = x]
    BY <1>1 DEF Moved
  <1>3. CASE UpdateUser(r) /\ run[r].pc = "update" /\ x.pc = "find"
    <2> DEFINE w == run[r].user
               t == run[r].target
    <2>0. w \in Users /\ t \in RANK_ORDER /\ t \in Nat /\ x.user = w
      BY <1>1, <1>3, PromotionSteps, Levels
    <2>1. rank' = [rank EXCEPT ![w] = t] /\ deposited' = deposited
      BY <1>3 DEF UpdateUser
    <2>2. CASE w \in Team(u)
      BY <1>2, <1>3, <2>0, <2>2, Coming DEF Evaluates
    <2>3. CASE w \notin Team(u)
      <3>1. \A v \in Team(u) : deposited'[v] = deposited[v] /\ rank'[v] = rank[v]
        BY <1>0, <2>1, <2>3 DEF Team
      <3>2. /\ QualifyingDirects(u)' = QualifyingDirects(u)
            /\ DirectLv1s(u)' = DirectLv1s(u)
            /\ TeamSize(u)' = TeamSize(u)
        BY <3>1, SameCounts
      <3>3. rank'[u] \in Nat /\ rank'[u] >= rank[u]
        BY <1>0, <1>3, <2>0, <2>1 DEF Consistent, Evaluates
      <3>4. ASSUME ComingTo(run[r], u)
            PROVE  Settled(u)'
        <4>1. w = u /\ NothingAbove(t, QualifyingDirects(u), DirectLv1s(u), TeamSize(u))
          BY <1>3, <2>3, <3>4 DEF ComingTo, Fresh
        <4>2. rank'[u] = t
          BY <1>0, <2>1, <4>1
        <4> QED
          BY <3>2, <4>1, <4>2 DEF Settled, NothingAbove, Eligible
      <3> QED
        BY <1>2, <3>1, <3>3, <3>4, StillAwaited
    <2> QED
      BY <2>2, <2>3
  <1>4. CASE /\ x.user = run[r].user /\ x.pc \in {"upsert", "history", "bonus", "entry"}
             /\ run[r].pc \in {"find", "upsert", "history", "bonus"} /\ ~UpdateUser(r)
    <2>1. UNCHANGED <<deposited, rank>>
      BY <1>4 DEF PromotionStep, FindHistory, UpsertUserRank, CreateRankHistory, CreditBonus
    <2>2. ComingTo(run[r], u) => ComingTo(x, u)'
      BY <1>4 DEF ComingTo, Fresh, Evaluates
    <2>3. /\ \A v \in Team(u) : deposited'[v] = deposited[v] /\ rank'[v] = rank[v]
          /\ rank'[u] \in Nat /\ rank'[u] >= rank[u]
      BY <1>0, <2>1
    <2> QED
      BY <1>2, <2>2, <2>3, StillAwaited
  <1>5. CASE CreateRankHistory(r) /\ run[r].pc = "history" /\ Bonus(r) = 0
    <2>1. EvaluateSponsor(r, run[r].user) /\ UNCHANGED <<deposited, rank>>
      BY <1>5 DEF CreateRankHistory
    <2> QED
      BY <1>5, <2>1, EndComes DEF Evaluates
  <1> QED
    BY <1>1, <1>3, <1>4, <1>5 DEF FindHistory, UpsertUserRank, CreateRankHistory, CreditBonus,
         UpdateUser, At

\* A new deposit is counted by the evaluation it starts.
LEMMA DepositComes ==
    ASSUME TypeInv, NEW u \in Users, Awaited(u), NEW r \in Runs, NEW v \in Users, NEW amount,
           ApproveDeposit(r, v, amount)
    PROVE  Awaited(u)'
  <1>0. /\ run \in [Runs -> RunState] /\ deposited \in [Users -> Nat] /\ rank[u] \in Nat
    BY Levels DEF TypeInv, TypeOK, RunState
  <1>1. PICK x : x = Evaluate(v) /\ run' = [run EXCEPT ![r] = x]
    BY DEF ApproveDeposit
  <1>2. /\ deposited' = [deposited EXCEPT ![v] = @ + amount] /\ rank' = rank
        /\ run[r].pc = "idle" /\ x.pc = "read" /\ x.user = v
    BY <1>1 DEF ApproveDeposit, Call, Idle, Evaluate
  <1>3. CASE v \in Team(u)
    BY <1>1, <1>2, <1>3, Coming DEF Evaluates
  <1>4. CASE v \notin Team(u)
    <2>1. \A w \in Team(u) : deposited'[w] = deposited[w] /\ rank'[w] = rank[w]
      BY <1>0, <1>2, <1>4 DEF Team
    <2>2. ~ComingTo(run[r], u)
      BY <1>2 DEF ComingTo, Fresh, Evaluates
    <2>3. rank'[u] \in Nat /\ rank'[u] >= rank[u]
      BY <1>0, <1>2
    <2> QED
      BY <1>1, <2>1, <2>2, <2>3, StillAwaited
  <1> QED
    BY <1>3, <1>4

\* Whoever could be promoted is settled or awaited, in every step.
LEMMA NextBehind == BehindInv /\ [Next]_vars => BehindInv'
  <1> SUFFICES ASSUME BehindInv, [Next]_vars, failures' = 0, corrected' = {},
                      NEW u \in Users \ overlapped'
               PROVE  Awaited(u)'
    BY NextInv DEF BehindInv
  <1>0. Inv /\ TypeInv
    BY DEF BehindInv, Inv
  <1>1. /\ failures = 0 /\ corrected = {} /\ overlapped \subseteq overlapped'
        /\ ~Crash /\ \A r \in Runs : ~Fail(r) /\ ~SetRank(r)
    <2>1. /\ failures \in Nat /\ overlapped \subseteq overlapped'
          /\ corrected \subseteq corrected'
          /\ ~Crash /\ \A r \in Runs : ~Fail(r)
          /\ failures = 0
      <3>0. failures \in Nat
        BY <1>0, BoundAssumption DEF TypeInv, TypeOK
      <3>1. ~Crash /\ \A r \in Runs : ~Fail(r)
        BY <3>0 DEF Crash, Fail, Failing
      <3>2. failures' = failures
        <4>1. CASE UNCHANGED vars
          BY <4>1 DEF vars, counters
        <4>2. ASSUME NEW r \in Runs, Called(r)
              PROVE  failures' = failures
          BY <4>2 DEF Called, CallEvaluate, ApproveDeposit, CallCorrect, CallDistribute
        <4>3. ASSUME NEW r \in Runs, Step(r)
              PROVE  failures' = failures
          BY <4>3 DEF Step, ReadUser, CountQualifying, CountLv1, CountTeam, NotPromoted, UpdateUser,
                      FindHistory, UpsertUserRank, CreateRankHistory, CreditBonus, BonusEntry,
                      ReadRank, SetRank, ReadRanks, NextRank, Distributed, FindLatest, CreateCycle,
                      CycleExists, CreditPool, PoolEntry, UpdateEarned, MarkAsCredited, counters
        <4> QED
          BY <3>1, <4>1, <4>2, <4>3 DEF Next
      <3> QED
        BY <1>0, <3>0, <3>1, <3>2, DisturbedGrows
    <2>2. \A r \in Runs : ~SetRank(r)
      BY DEF SetRank
    <2> QED
      BY <2>1, <2>2
  <1>2. u \in Users \ overlapped /\ Awaited(u) /\ UserInv(u)
    BY <1>0, <1>1 DEF BehindInv, Inv
  <1>3. \A r \in Runs : Consistent(run[r], u)
    BY <1>2 DEF UserInv
  <1>4. ASSUME NEW r \in Runs, CalmStep(r)
        PROVE  Awaited(u)'
    <2>1. CASE \E v \in Users, amount \in Amounts : ApproveDeposit(r, v, amount)
      BY <1>0, <1>2, <2>1, DepositComes
    <2>2. CASE NotPromoted(r) \/ BonusEntry(r)
      <3>1. /\ EvaluateSponsor(r, run[r].user) /\ UNCHANGED <<deposited, rank>>
            /\ run[r].pc \in {"team", "entry"} /\ (NotPromoted(r) \/ run[r].pc = "entry")
        BY <2>2 DEF NotPromoted, BonusEntry, At
      <3> QED
        BY <1>0, <1>2, <1>3, <3>1, EndComes DEF Evaluates
    <2>3. CASE /\ ~(\E v \in Users, amount \in Amounts : ApproveDeposit(r, v, amount))
               /\ ~NotPromoted(r) /\ ~BonusEntry(r)
      <3>1. PICK x : run' = [run EXCEPT ![r] = x]
        BY <1>0, <1>4, CalmSteps DEF Moved
      <3>2. UNCHANGED <<deposited, rank>> /\ run[r].pc \notin Evaluates
        <4>1. CASE Called(r)
          BY <2>3, <4>1
          DEF Called, CallEvaluate, CallCorrect, CallDistribute, Call, Idle, Evaluates
        <4>2. CASE ~Called(r)
          BY <1>1, <1>4, <2>3, <4>2
          DEF CalmStep, ReadRank, ReadRanks, Distributed, NextRank, FindLatest, CreateCycle,
              CycleExists, CreditPool, PoolEntry, UpdateEarned, MarkAsCredited, At, Evaluates
        <4> QED
          BY <4>1, <4>2
      <3> QED
        BY <1>0, <1>2, <3>1, <3>2, NoEvaluation
    <2> QED
      BY <2>1, <2>2, <2>3
  <1>5. CASE UNCHANGED vars
    BY <1>2, <1>5 DEF Awaited, Settled, ComingTo, Fresh, QualifyingDirects, DirectLv1s, TeamSize,
         vars
  <1>6. ASSUME NEW r \in Runs, Called(r) \/ Step(r)
        PROVE  Awaited(u)'
    <2>1. \/ CalmStep(r)
          \/ ReadUser(r) \/ CountQualifying(r) \/ CountLv1(r)
          \/ \E target \in RANK_ORDER : CountTeam(r, target)
          \/ PromotionStep(r)
      BY <1>1, <1>6 DEF Step, CalmStep, PromotionStep
    <2> QED
      BY <1>0, <1>2, <1>3, <1>4, <2>1, CountingComes, PromotionComes
  <1> QED
    BY <1>1, <1>5, <1>6 DEF Next

\* Nobody can be promoted at the start.
LEMMA InitBehind == Init => BehindInv
  <1> SUFFICES ASSUME Init, NEW u \in Users
               PROVE  Settled(u)
    BY InitInv DEF BehindInv, Awaited
  <1>1. \A v \in Users : deposited[v] = 0 /\ rank[v] = NONE
    BY DEF Init
  <1>2. \A v \in Users : ~(deposited[v] >= MinDirectDeposit) /\ ~(deposited[v] > 0)
                          /\ rank[v] \notin RANK_ORDER
    BY <1>1, AmountAssumption, Levels DEF NONE
  <1>3. /\ {v \in Directs(u) : deposited[v] >= MinDirectDeposit} = {}
        /\ {v \in Directs(u) : rank[v] \in RANK_ORDER} = {}
        /\ {v \in Users : v \in Team(u) /\ deposited[v] > 0} = {}
    BY <1>2 DEF Directs
  <1>4. QualifyingDirects(u) = 0 /\ DirectLv1s(u) = 0 /\ TeamSize(u) = 0
    BY <1>3, FS_EmptySet DEF QualifyingDirects, DirectLv1s, TeamSize
  <1> QED
    BY <1>4, NeedAssumption DEF Settled, NothingAbove

\* Promotions travel up: with all at rest, nobody who could be promoted has been left
\* behind, if no call failed, no admin interfered and the evaluations of the user did
\* not overlap.
THEOREM NobodyWaits == Spec => []NobodyLeftBehind
  <1>1. Spec => []BehindInv
    BY InitBehind, NextBehind, PTL DEF Spec
  <1>2. ASSUME BehindInv
        PROVE  NobodyLeftBehind
    <2> SUFFICES ASSUME \A r \in Runs : run[r] = Idle, failures = 0, corrected = {},
                        NEW u \in Users \ overlapped
                 PROVE  Settled(u)
      BY DEF NobodyLeftBehind, Settled
    <2>1. \A r \in Runs : ~ComingTo(run[r], u)
      BY DEF ComingTo, Fresh, Idle, Evaluates
    <2> QED
      BY <1>2, <2>1 DEF BehindInv, Awaited
  <1> QED
    BY <1>1, <1>2, PTL

===============================================================================
