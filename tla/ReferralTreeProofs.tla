--------------------------- MODULE ReferralTreeProofs ---------------------------
(***************************************************************************)
(* Theorems about ReferralTree, for any number of members and of handlers  *)
(* beside the scripts.                                                     *)
(*                                                                         *)
(* A handler creates a row after it has seen, in other calls, that there   *)
(* is none and that the sponsor has one.  What makes this safe is that no  *)
(* row is ever removed or moved, and that a row others hang from is never  *)
(* created a second time: the invariant says, of each handler, what it has *)
(* seen that cannot have changed (GroundInv).  RepairInv says what a       *)
(* backfill that goes on undisturbed has made and has still to make;       *)
(* LostInv, who takes care of a user that is not complete yet; CountInv,   *)
(* that each counter, what runs will add to it and what cut runs did not,  *)
(* are the members below the row or their deposits.  The views of a team   *)
(* are recursive: what each computes is given outright, by the rows above  *)
(* every row, and the levels bound how deep they look.                     *)
(***************************************************************************)
EXTENDS ReferralTree, FiniteSetTheorems, WellFoundedInduction, TLAPS

\* What the variables the tree depends on hold.
TreeTypes ==
    /\ user \in [Users -> UserRow \cup {NoUser}]
    /\ referral \in [Users -> ReferralRow \cup {NoReferral}]
    /\ run \in [Processes -> RunState \cup {Idle}]

\* Calls of createReferral that create rows, and calls made below a row.
Creates == {"check", "sponsorRow", "root", "row"}
Climbs == {"own", "walk"}

\* What a handler in state r knows.
Knows(r) ==
    /\ r.pc \in Creates \cup {"wallets", "fill", "existing"} =>
           user[r.user] # NoUser /\ r.sponsor = user[r.user].sponsor
    /\ r.pc \in Creates \cup {"existing"} => r.sponsor # None
    /\ r.pc = "row" => referral[r.sponsor] # NoReferral
    /\ r.pc \in Climbs => r.at \in Users /\ referral[r.at] # NoReferral
    /\ r.pc # "idle" => \A v \in r.todo : user[v] # NoUser
    /\ r.pc \in {"seedFind", "seedUser", "seedWallets", "seedRow", "seedSettings"} => r.user = Admin

\* A row hangs from the row of the sponsor the user signed up with.
Placed(u) ==
    referral[u] # NoReferral =>
        IF referral[u].sponsor = None THEN referral[u].level = 0
        ELSE /\ user[u] # NoUser
             /\ referral[u].sponsor = user[u].sponsor
             /\ referral[u].sponsor \in Users
             /\ referral[referral[u].sponsor] # NoReferral
             /\ referral[u].level = referral[referral[u].sponsor].level + 1

TreeInv ==
    /\ TreeTypes
    /\ \A p \in Processes : Knows(run[p])
    /\ \A u \in Users : Placed(u)
    /\ user[Admin] # NoUser => user[Admin].sponsor = None

LEMMA TreeMeans == TreeInv => RowsFormTree
  BY DEF TreeInv, RowsFormTree, Placed, HasRow

LEMMA IdleRun == Idle.pc = "idle" /\ Idle \notin RunState
  <1>1. Idle.pc = "idle"
    BY DEF Idle
  <1>2. \A r \in RunState : r.pc # "idle"
    BY DEF RunState
  <1> QED
    BY <1>1, <1>2

LEMMA RowsAreNotNone ==
    /\ \A y \in ReferralRow : y # NoReferral
    /\ \A x \in UserRow : x # NoUser
  <1>1. "level" \notin DOMAIN NoReferral /\ \A y \in ReferralRow : "level" \in DOMAIN y
    BY DEF NoReferral, ReferralRow
  <1>2. "deleted" \notin DOMAIN NoUser /\ \A x \in UserRow : "deleted" \in DOMAIN x
    BY DEF NoUser, UserRow
  <1> QED
    BY <1>1, <1>2

LEMMA InitHolds == Init => TreeInv
  BY IdleRun, AdminAssumption DEF Init, TreeInv, TreeTypes, Knows, Placed, Users, Creates, Climbs

-------------------------------------------------------------------------------
(* The kinds of steps *)

\* What is known stays known while users and rows stay, and are only added to.
Grown ==
    /\ \A v \in Users : user[v] # NoUser =>
           user'[v] # NoUser /\ user'[v].sponsor = user[v].sponsor
    /\ \A v \in Users : referral[v] # NoReferral => referral'[v] # NoReferral

LEMMA RunTypes ==
    ASSUME NEW r \in RunState \cup {Idle}, r.pc # "idle"
    PROVE  /\ r \in RunState /\ r.user \in Users /\ r.sponsor \in Users \cup {None}
           /\ r.at \in Users \cup {None} /\ r.todo \in SUBSET Users
  BY IdleRun DEF RunState

LEMMA KnowsStays ==
    ASSUME Grown, NEW r \in RunState \cup {Idle}, Knows(r)
    PROVE  Knows(r)'
  <1>1. CASE r.pc = "idle"
    BY <1>1 DEF Knows, Creates, Climbs
  <1>2. CASE r.pc # "idle"
    <2>1. /\ r.user \in Users /\ r.sponsor \in Users \cup {None}
          /\ r.at \in Users \cup {None} /\ r.todo \in SUBSET Users
      BY <1>2, RunTypes
    <2>2. r.pc = "row" => r.sponsor \in Users
      BY <2>1 DEF Knows, Creates
    <2> QED
      BY <2>1, <2>2 DEF Grown, Knows
  <1> QED
    BY <1>1, <1>2

LEMMA PlacedStays ==
    ASSUME Grown, NEW u \in Users, Placed(u), referral[u] # NoReferral,
           \A v \in Users : referral[v] # NoReferral =>
               referral'[v].sponsor = referral[v].sponsor /\ referral'[v].level = referral[v].level
    PROVE  Placed(u)'
  BY DEF Placed, Grown

\* A step of one handler that leaves users and rows.
LEMMA RunStep ==
    ASSUME TreeInv, NEW p \in Processes, NEW x \in RunState \cup {Idle},
           run' = [run EXCEPT ![p] = x], UNCHANGED <<user, referral>>, Knows(x)
    PROVE  TreeInv'
  <1>1. run'[p] = x /\ (\A q \in Processes \ {p} : run'[q] = run[q]) /\ TreeTypes'
    BY DEF TreeInv, TreeTypes
  <1>2. \A q \in Processes : Knows(run[q]) \/ q = p
    BY DEF TreeInv
  <1>3. ASSUME NEW q \in Processes
        PROVE  Knows(run[q])'
    <2>1. PICK r : r = run'[q]
      OBVIOUS
    <2>2. Knows(r)
      BY <1>1, <1>2, <2>1
    <2> QED
      BY <2>1, <2>2 DEF Knows
  <1>4. \A u \in Users : Placed(u)'
    BY DEF TreeInv, Placed
  <1> QED
    BY <1>1, <1>3, <1>4 DEF TreeInv

\* A row is added to the tree, or changes in what the tree is not about.
Fits(a, y) ==
    \/ referral[a] # NoReferral /\ y.sponsor = referral[a].sponsor /\ y.level = referral[a].level
    \/ referral[a] = NoReferral /\ y.sponsor = None /\ y.level = 0
    \/ /\ referral[a] = NoReferral /\ user[a] # NoUser
       /\ y.sponsor = user[a].sponsor /\ y.sponsor \in Users
       /\ referral[y.sponsor] # NoReferral /\ y.level = referral[y.sponsor].level + 1

LEMMA RowStep ==
    ASSUME TreeInv, NEW p \in Processes, NEW x \in RunState \cup {Idle},
           NEW a \in Users, NEW y \in ReferralRow, Fits(a, y),
           run' = [run EXCEPT ![p] = x], referral' = [referral EXCEPT ![a] = y], UNCHANGED user,
           Knows(x)'
    PROVE  TreeInv'
  <1>1. /\ run'[p] = x /\ (\A q \in Processes \ {p} : run'[q] = run[q])
        /\ referral'[a] = y /\ (\A v \in Users \ {a} : referral'[v] = referral[v])
        /\ TreeTypes'
    BY DEF TreeInv, TreeTypes
  <1>2. y # NoReferral
    BY RowsAreNotNone
  <1>3. Grown
    BY <1>1, <1>2 DEF Grown
  <1>4. ASSUME NEW q \in Processes
        PROVE  Knows(run[q])'
    <2>1. CASE q = p
      BY <1>1, <2>1 DEF Knows
    <2>2. CASE q # p
      <3>1. PICK r \in RunState \cup {Idle} : r = run[q] /\ Knows(r) /\ r = run'[q]
        BY <1>1, <2>2 DEF TreeInv, TreeTypes
      <3>2. Knows(r)'
        BY <1>3, <3>1, KnowsStays
      <3> QED
        BY <3>1, <3>2 DEF Knows
    <2> QED
      BY <2>1, <2>2
  <1>5. \A u \in Users : Placed(u)
    BY DEF TreeInv
  <1>6. CASE referral[a] # NoReferral
    <2>1. y.sponsor = referral[a].sponsor /\ y.level = referral[a].level
      BY <1>6 DEF Fits
    <2>2. \A v \in Users : referral[v] # NoReferral =>
              referral'[v].sponsor = referral[v].sponsor /\ referral'[v].level = referral[v].level
      BY <1>1, <2>1
    <2>3. ASSUME NEW u \in Users
          PROVE  Placed(u)'
      <3>1. CASE referral[u] = NoReferral
        BY <1>1, <1>6, <3>1 DEF Placed
      <3>2. CASE referral[u] # NoReferral
        BY <1>3, <1>5, <2>2, <3>2, PlacedStays
      <3> QED
        BY <3>1, <3>2
    <2> QED
      BY <1>1, <1>4, <2>3 DEF TreeInv
  <1>7. CASE referral[a] = NoReferral
    <2>1. \A v \in Users : referral[v] # NoReferral => referral'[v] = referral[v]
      BY <1>1, <1>7
    <2>2. ASSUME NEW u \in Users
          PROVE  Placed(u)'
      <3>1. CASE u = a
        BY <1>1, <1>2, <1>7, <2>1, <3>1, NoneAssumption DEF Fits, Placed
      <3>2. CASE u # a /\ referral[u] = NoReferral
        BY <1>1, <3>2 DEF Placed
      <3>3. CASE referral[u] # NoReferral
        BY <1>3, <1>5, <2>1, <3>3, PlacedStays
      <3> QED
        BY <3>1, <3>2, <3>3
    <2> QED
      BY <1>1, <1>4, <2>2 DEF TreeInv
  <1> QED
    BY <1>6, <1>7

-------------------------------------------------------------------------------
(* Where the calls lead *)

\* A run goes on at another call.
LEMMA GotoIs ==
    ASSUME TreeInv, NEW p \in Processes, run[p].pc # "idle", NEW pc, Goto(p, pc),
           pc \in {"check", "sponsorRow", "root", "row", "walk", "seedWallets", "seedSettings",
                   "next"}
    PROVE  \E x \in RunState :
               /\ run' = [run EXCEPT ![p] = x] /\ x.pc = pc
               /\ x.user = run[p].user /\ x.sponsor = run[p].sponsor /\ x.at = run[p].at
               /\ x.todo = run[p].todo /\ x.missing = run[p].missing
  <1>1. run[p] \in RunState
    BY IdleRun DEF TreeInv, TreeTypes
  <1>2. PICK x : x = [run[p] EXCEPT !.pc = pc]
    OBVIOUS
  <1>3. /\ x \in RunState /\ x.pc = pc /\ x.user = run[p].user /\ x.sponsor = run[p].sponsor
        /\ x.at = run[p].at /\ x.todo = run[p].todo /\ x.missing = run[p].missing
    BY <1>1, <1>2 DEF RunState
  <1>4. run' = [run EXCEPT ![p] = x]
    BY <1>2 DEF Goto
  <1> QED
    BY <1>3, <1>4

\* Nothing is known at the end of a run, and of the script between two users
\* only that the users it has still to see are there.
Over(x, p) == x.pc = "idle" \/ (x.pc = "next" /\ x.todo = run[p].todo)

LEMMA DoneIs ==
    ASSUME TreeInv, NEW p \in Processes, run[p].pc # "idle", Done(p)
    PROVE  \E x \in RunState \cup {Idle} :
               run' = [run EXCEPT ![p] = x] /\ Over(x, p)
  <1>1. run[p] \in RunState
    BY IdleRun DEF TreeInv, TreeTypes
  <1>2. PICK x : x = Resume(p)
    OBVIOUS
  <1>3. x \in RunState /\ x.pc = "next" /\ x.todo = run[p].todo
    BY <1>1, <1>2 DEF Resume, RunState
  <1>4. run' = [run EXCEPT ![p] = x] \/ run' = [run EXCEPT ![p] = Idle]
    BY <1>2 DEF Done
  <1>5. CASE run' = [run EXCEPT ![p] = x]
    BY <1>3, <1>5 DEF Over
  <1>6. CASE run' = [run EXCEPT ![p] = Idle]
    <2>1. PICK z : z = Idle
      OBVIOUS
    <2>2. z \in RunState \cup {Idle} /\ Over(z, p)
      BY <2>1, IdleRun DEF Over
    <2>3. run' = [run EXCEPT ![p] = z]
      BY <1>6, <2>1
    <2> QED
      BY <2>2, <2>3
  <1> QED
    BY <1>4, <1>5, <1>6

LEMMA KnowsLittle ==
    ASSUME NEW r, r.pc \in {"idle", "bonus", "next"},
           r.pc # "idle" => \A v \in r.todo : user[v] # NoUser
    PROVE  Knows(r)
  BY DEF Knows, Creates, Climbs

LEMMA DoneHolds ==
    ASSUME TreeInv, NEW p \in Processes, run[p].pc # "idle", Done(p), UNCHANGED <<user, referral>>
    PROVE  TreeInv'
  <1>1. PICK x \in RunState \cup {Idle} :
            run' = [run EXCEPT ![p] = x] /\ Over(x, p)
    BY DoneIs
  <1>2. \A v \in run[p].todo : user[v] # NoUser
    BY DEF TreeInv, Knows
  <1>3. Knows(x)
    BY <1>1, <1>2, KnowsLittle DEF Over
  <1> QED
    BY <1>1, <1>3, RunStep

LEMMA EndHolds ==
    ASSUME TreeInv, NEW p \in Processes, run' = [run EXCEPT ![p] = Idle], UNCHANGED <<user, referral>>
    PROVE  TreeInv'
  <1>1. Idle \in RunState \cup {Idle} /\ Idle.pc = "idle"
    BY IdleRun
  <1>2. Knows(Idle)
    BY <1>1, KnowsLittle
  <1> QED
    BY <1>1, <1>2, RunStep

-------------------------------------------------------------------------------
(* createReferral *)

LEMMA ChecksHold ==
    ASSUME TreeInv, NEW p \in Processes, CheckReferral(p) \/ FindSponsorRow(p)
    PROVE  TreeInv'
  <1>1. /\ run[p].pc \in {"check", "sponsorRow"} /\ run[p].pc # "idle"
        /\ UNCHANGED <<user, referral>>
    BY DEF CheckReferral, FindSponsorRow, At, observed
  <1>2. CASE Done(p)
    BY <1>1, <1>2, DoneHolds
  <1>3. CASE Goto(p, "sponsorRow") \/ Goto(p, "root")
    <2>1. PICK x \in RunState :
              /\ run' = [run EXCEPT ![p] = x] /\ x.pc \in {"sponsorRow", "root"}
              /\ x.user = run[p].user /\ x.sponsor = run[p].sponsor /\ x.todo = run[p].todo
      BY <1>1, <1>3, GotoIs
    <2>2. Knows(x)
      BY <1>1, <2>1 DEF TreeInv, Knows, Creates, Climbs
    <2> QED
      BY <1>1, <2>1, <2>2, RunStep
  <1>4. CASE Goto(p, "row") /\ HasRow(run[p].sponsor)
    <2>1. PICK x \in RunState :
              /\ run' = [run EXCEPT ![p] = x] /\ x.pc = "row"
              /\ x.user = run[p].user /\ x.sponsor = run[p].sponsor /\ x.todo = run[p].todo
      BY <1>1, <1>4, GotoIs
    <2>2. Knows(x)
      BY <1>1, <1>4, <2>1 DEF TreeInv, Knows, Creates, Climbs, HasRow
    <2> QED
      BY <1>1, <2>1, <2>2, RunStep
  <1> QED
    BY <1>2, <1>3, <1>4 DEF CheckReferral, FindSponsorRow

LEMMA CreateRootHolds ==
    ASSUME TreeInv, NEW p \in Processes, CreateRoot(p)
    PROVE  TreeInv'
  <1>1. PICK s : s = run[p].sponsor
    OBVIOUS
  <1>2. run[p].pc = "root" /\ UNCHANGED user
    BY DEF CreateRoot, At
  <1>3. /\ s \in Users /\ user[run[p].user] # NoUser /\ s = user[run[p].user].sponsor
        /\ s # None /\ run[p].user \in Users
        /\ \A v \in run[p].todo : v \in Users /\ user[v] # NoUser
    BY <1>1, <1>2, RunTypes DEF TreeInv, TreeTypes, Knows, Creates
  <1>4. CASE Done(p) /\ UNCHANGED referral
    BY <1>2, <1>4, DoneHolds
  <1>5. CASE /\ referral[s] = NoReferral /\ Goto(p, "row")
             /\ referral' = [referral EXCEPT ![s] = NewReferral(None, 0)]
    <2>1. PICK x \in RunState :
              /\ run' = [run EXCEPT ![p] = x] /\ x.pc = "row"
              /\ x.user = run[p].user /\ x.sponsor = s /\ x.todo = run[p].todo
      BY <1>1, <1>2, <1>5, GotoIs
    <2>2. PICK y : y = NewReferral(None, 0)
      OBVIOUS
    <2>3. y \in ReferralRow /\ y.sponsor = None /\ y.level = 0 /\ y # NoReferral
      BY <2>2, RowsAreNotNone DEF NewReferral, ReferralRow, NoCounts, Counts
    <2>4. referral'[s] = y
      BY <1>3, <1>5, <2>2 DEF TreeInv, TreeTypes
    <2>5. Knows(x)'
      BY <1>2, <1>3, <2>1, <2>3, <2>4 DEF Knows, Creates, Climbs
    <2>6. Fits(s, y)
      BY <1>5, <2>3 DEF Fits
    <2> QED
      BY <1>2, <1>3, <1>5, <2>1, <2>2, <2>3, <2>5, <2>6, RowStep
  <1> QED
    BY <1>1, <1>4, <1>5 DEF CreateRoot, HasRow

LEMMA CreateRowHolds ==
    ASSUME TreeInv, NEW p \in Processes, CreateRow(p)
    PROVE  TreeInv'
  <1>1. PICK u, s : u = run[p].user /\ s = run[p].sponsor
    OBVIOUS
  <1>2. run[p].pc = "row" /\ UNCHANGED user
    BY DEF CreateRow, At
  <1>3. /\ s \in Users /\ user[u] # NoUser /\ s = user[u].sponsor /\ s # None /\ u \in Users
        /\ referral[s] # NoReferral /\ run[p] \in RunState
        /\ \A v \in run[p].todo : v \in Users /\ user[v] # NoUser
    BY <1>1, <1>2, RunTypes DEF TreeInv, TreeTypes, Knows, Creates
  <1>4. CASE Done(p) /\ UNCHANGED referral
    BY <1>2, <1>4, DoneHolds
  <1>5. CASE /\ referral[u] = NoReferral
             /\ referral' = [referral EXCEPT ![u] = NewReferral(s, referral[s].level + 1)]
             /\ run' = [run EXCEPT ![p].pc = "own", ![p].at = s]
    <2>1. PICK x : x = [run[p] EXCEPT !.pc = "own", !.at = s]
      OBVIOUS
    <2>2. x \in RunState /\ x.pc = "own" /\ x.at = s /\ x.todo = run[p].todo
      BY <1>3, <2>1 DEF RunState
    <2>3. run' = [run EXCEPT ![p] = x]
      BY <1>5, <2>1
    <2>4. referral[s] \in ReferralRow /\ referral[s].level \in Nat
      BY <1>3 DEF TreeInv, TreeTypes, ReferralRow
    <2>5. PICK l \in Nat : l = referral[s].level + 1
      BY <2>4
    <2>6. PICK y : y = NewReferral(s, l)
      OBVIOUS
    <2>7. y \in ReferralRow /\ y.sponsor = s /\ y.level = l
      BY <1>3, <2>6 DEF NewReferral, ReferralRow, NoCounts, Counts
    <2>8. referral' = [referral EXCEPT ![u] = y]
      BY <1>5, <2>5, <2>6
    <2>9. Fits(u, y)
      BY <1>3, <1>5, <2>5, <2>7 DEF Fits
    <2>10. s # u
      BY <1>3, <1>5
    <2>11. referral'[s] # NoReferral
      BY <1>3, <2>8, <2>10 DEF TreeInv, TreeTypes
    <2>12. Knows(x)'
      BY <1>2, <1>3, <2>2, <2>11 DEF Knows, Creates, Climbs
    <2> QED
      BY <1>2, <1>3, <2>2, <2>3, <2>7, <2>8, <2>9, <2>12, RowStep
  <1> QED
    BY <1>1, <1>4, <1>5 DEF CreateRow, HasRow

\* The counters of a row change, and the run goes on or ends.
Counted(a) ==
    \E c \in Counts : referral' = [referral EXCEPT ![a].counts = c]

LEMMA CountedFits ==
    ASSUME TreeInv, NEW a \in Users, referral[a] # NoReferral, Counted(a)
    PROVE  \E y \in ReferralRow : referral' = [referral EXCEPT ![a] = y] /\ Fits(a, y)
                                  /\ y # NoReferral
  <1>1. PICK c \in Counts : referral' = [referral EXCEPT ![a].counts = c]
    BY DEF Counted
  <1>2. PICK y : y = [referral[a] EXCEPT !.counts = c]
    OBVIOUS
  <1>3. referral[a] \in ReferralRow
    BY DEF TreeInv, TreeTypes
  <1>4. y \in ReferralRow /\ y.sponsor = referral[a].sponsor /\ y.level = referral[a].level
    BY <1>2, <1>3 DEF ReferralRow
  <1>5. referral' = [referral EXCEPT ![a] = y]
    BY <1>1, <1>2
  <1> QED
    BY <1>4, <1>5, RowsAreNotNone DEF Fits

LEMMA CountsAre ==
    ASSUME TreeInv, NEW a \in Users, referral[a] # NoReferral,
           \/ referral' = [referral EXCEPT ![a].counts.direct = @ + 1]
           \/ referral' = [referral EXCEPT ![a].counts.team = @ + 1]
           \/ referral' = [referral EXCEPT ![a].counts.directDeposits = @ + 1]
           \/ referral' = [referral EXCEPT ![a].counts.teamDeposits = @ + 1]
    PROVE  Counted(a)
  <1>1. PICK c : c = referral[a].counts
    OBVIOUS
  <1>2. c \in Counts
    BY <1>1 DEF TreeInv, TreeTypes, ReferralRow
  <1>3. CASE referral' = [referral EXCEPT ![a].counts.direct = @ + 1]
    <2>1. PICK d : d = [c EXCEPT !.direct = @ + 1]
      OBVIOUS
    <2>2. d \in Counts
      BY <1>2, <2>1 DEF Counts
    <2> QED
      BY <1>1, <1>3, <2>1, <2>2 DEF Counted
  <1>4. CASE referral' = [referral EXCEPT ![a].counts.team = @ + 1]
    <2>1. PICK d : d = [c EXCEPT !.team = @ + 1]
      OBVIOUS
    <2>2. d \in Counts
      BY <1>2, <2>1 DEF Counts
    <2> QED
      BY <1>1, <1>4, <2>1, <2>2 DEF Counted
  <1>5. CASE referral' = [referral EXCEPT ![a].counts.directDeposits = @ + 1]
    <2>1. PICK d : d = [c EXCEPT !.directDeposits = @ + 1]
      OBVIOUS
    <2>2. d \in Counts
      BY <1>2, <2>1 DEF Counts
    <2> QED
      BY <1>1, <1>5, <2>1, <2>2 DEF Counted
  <1>6. CASE referral' = [referral EXCEPT ![a].counts.teamDeposits = @ + 1]
    <2>1. PICK d : d = [c EXCEPT !.teamDeposits = @ + 1]
      OBVIOUS
    <2>2. d \in Counts
      BY <1>2, <2>1 DEF Counts
    <2> QED
      BY <1>1, <1>6, <2>1, <2>2 DEF Counted
  <1> QED
    BY <1>3, <1>4, <1>5, <1>6

LEMMA CountStep ==
    ASSUME TreeInv, NEW p \in Processes, NEW a \in Users, referral[a] # NoReferral, Counted(a),
           UNCHANGED user, NEW x \in RunState \cup {Idle}, run' = [run EXCEPT ![p] = x], Knows(x)
    PROVE  TreeInv'
  <1>1. PICK y \in ReferralRow : referral' = [referral EXCEPT ![a] = y] /\ Fits(a, y)
                                 /\ y # NoReferral
    BY CountedFits
  <1>2. Grown
    BY <1>1 DEF Grown, TreeInv, TreeTypes
  <1>3. Knows(x)'
    BY <1>2, KnowsStays
  <1> QED
    BY <1>1, <1>3, RowStep

LEMMA CountsHold ==
    ASSUME TreeInv, NEW p \in Processes, CountDirect(p) \/ UpdateSponsorStats(p) \/ Walk(p)
    PROVE  TreeInv'
  <1>1. PICK a : a = run[p].at
    OBVIOUS
  <1>2. run[p].pc \in {"own", "walk"} /\ run[p].pc # "idle" /\ UNCHANGED user
    BY DEF CountDirect, UpdateSponsorStats, Walk, At
  <1>3. /\ a \in Users /\ referral[a] # NoReferral /\ run[p] \in RunState
        /\ \A v \in run[p].todo : user[v] # NoUser
    BY <1>1, <1>2, RunTypes DEF TreeInv, TreeTypes, Knows, Climbs
  <1>4. Counted(a)
    BY <1>1, <1>3, CountsAre DEF CountDirect, UpdateSponsorStats, Walk
  <1>5. CASE Goto(p, "walk")
    <2>1. PICK x \in RunState :
              /\ run' = [run EXCEPT ![p] = x] /\ x.pc = "walk" /\ x.at = a /\ x.todo = run[p].todo
      BY <1>1, <1>2, <1>5, GotoIs
    <2>2. Knows(x)
      BY <1>3, <2>1 DEF Knows, Creates, Climbs
    <2> QED
      BY <1>2, <1>3, <1>4, <2>1, <2>2, CountStep
  <1>6. CASE Done(p)
    <2>1. PICK x \in RunState \cup {Idle} :
              run' = [run EXCEPT ![p] = x] /\ Over(x, p)
      BY <1>2, <1>6, DoneIs
    <2>2. Knows(x)
      BY <1>3, <2>1, KnowsLittle DEF Over
    <2> QED
      BY <1>2, <1>3, <1>4, <2>1, <2>2, CountStep
  <1>7. CASE /\ run[p].pc = "walk" /\ referral[a].sponsor # None
             /\ run' = [run EXCEPT ![p].at = referral[a].sponsor]
    <2>1. PICK s : s = referral[a].sponsor
      OBVIOUS
    <2>2. s \in Users /\ referral[s] # NoReferral
      BY <1>3, <1>7, <2>1 DEF TreeInv, Placed
    <2>3. PICK x : x = [run[p] EXCEPT !.at = s]
      OBVIOUS
    <2>4. x \in RunState /\ x.pc = "walk" /\ x.at = s /\ x.todo = run[p].todo
      BY <1>3, <1>7, <2>2, <2>3 DEF RunState
    <2>5. run' = [run EXCEPT ![p] = x]
      BY <1>7, <2>1, <2>3
    <2>6. Knows(x)
      BY <1>3, <2>2, <2>4 DEF Knows, Creates, Climbs
    <2> QED
      BY <1>2, <1>3, <1>4, <2>4, <2>5, <2>6, CountStep
  <1> QED
    <2>1. CASE CountDirect(p) \/ UpdateSponsorStats(p)
      BY <1>5, <2>1 DEF CountDirect, UpdateSponsorStats
    <2>2. CASE Walk(p)
      BY <1>1, <1>6, <1>7, <2>2 DEF Walk, At
    <2> QED
      BY <2>1, <2>2

-------------------------------------------------------------------------------
(* Signing up and depositing *)

\* A user is added, or changes in what the tree is not about.
LEMMA UserStep ==
    ASSUME TreeInv, NEW p \in Processes, NEW x \in RunState \cup {Idle},
           run' = [run EXCEPT ![p] = x], UNCHANGED referral,
           user' \in [Users -> UserRow \cup {NoUser}],
           \A v \in Users : user[v] # NoUser => user'[v] # NoUser /\ user'[v].sponsor = user[v].sponsor,
           user'[Admin] # NoUser => user'[Admin].sponsor = None, Knows(x)'
    PROVE  TreeInv'
  <1>1. /\ run'[p] = x /\ (\A q \in Processes \ {p} : run'[q] = run[q])
        /\ TreeTypes'
    BY DEF TreeInv, TreeTypes
  <1>2. Grown
    BY DEF Grown
  <1>3. ASSUME NEW q \in Processes
        PROVE  Knows(run[q])'
    <2>1. CASE q = p
      BY <1>1, <2>1 DEF Knows
    <2>2. CASE q # p
      <3>1. PICK r \in RunState \cup {Idle} : r = run[q] /\ Knows(r) /\ r = run'[q]
        BY <1>1, <2>2 DEF TreeInv, TreeTypes
      <3>2. Knows(r)'
        BY <1>2, <3>1, KnowsStays
      <3> QED
        BY <3>1, <3>2 DEF Knows
    <2> QED
      BY <2>1, <2>2
  <1>4. ASSUME NEW u \in Users
        PROVE  Placed(u)'
    <2>1. Placed(u)
      BY DEF TreeInv
    <2>2. CASE referral[u] = NoReferral
      BY <2>2 DEF Placed
    <2>3. CASE referral[u] # NoReferral
      BY <1>2, <2>1, <2>3, PlacedStays
    <2> QED
      BY <2>2, <2>3
  <1> QED
    BY <1>1, <1>3, <1>4 DEF TreeInv

LEMMA BeginIs ==
    ASSUME NEW pc \in {"wallets", "bonus", "next", "seedFind"}, NEW u \in Users,
           NEW s \in Users \cup {None}
    PROVE  /\ Begin(pc, u, s) \in RunState
           /\ Begin(pc, u, s).pc = pc /\ Begin(pc, u, s).user = u /\ Begin(pc, u, s).sponsor = s
           /\ Begin(pc, u, s).todo = {} /\ Begin(pc, u, s).missing = WalletTypes
  BY DEF Begin, RunState

LEMMA SignupHolds ==
    ASSUME TreeInv, NEW p \in Requests, NEW u \in Members, NEW s \in Users \cup {None}, Signup(p, u, s)
    PROVE  TreeInv'
  <1>1. PICK x : x = Begin("wallets", u, s)
    OBVIOUS
  <1>2. p \in Processes /\ u \in Users /\ u # Admin
    BY AdminAssumption DEF Processes, Users
  <1>3. /\ x \in RunState /\ x.pc = "wallets" /\ x.user = u /\ x.sponsor = s /\ x.todo = {}
    BY <1>1, <1>2, BeginIs
  <1>4. PICK y : y = [sponsor |-> s, deleted |-> FALSE]
    OBVIOUS
  <1>5. y \in UserRow /\ y.sponsor = s /\ y # NoUser
    BY <1>4, RowsAreNotNone DEF UserRow
  <1>6. /\ run' = [run EXCEPT ![p] = x] /\ UNCHANGED referral /\ user[u] = NoUser
        /\ user' = [user EXCEPT ![u] = y]
    BY <1>1, <1>4 DEF Signup
  <1>7. /\ user' \in [Users -> UserRow \cup {NoUser}] /\ user'[u] = y
        /\ \A v \in Users \ {u} : user'[v] = user[v]
    BY <1>2, <1>5, <1>6 DEF TreeInv, TreeTypes
  <1>8. \A v \in Users : user[v] # NoUser => user'[v] # NoUser /\ user'[v].sponsor = user[v].sponsor
    BY <1>6, <1>7
  <1>9. user'[Admin] # NoUser => user'[Admin].sponsor = None
    BY <1>2, <1>7 DEF TreeInv, Users
  <1>10. Knows(x)'
    BY <1>3, <1>5, <1>7 DEF Knows, Creates, Climbs
  <1> QED
    BY <1>2, <1>3, <1>6, <1>7, <1>8, <1>9, <1>10, UserStep

LEMMA DeleteUserHolds ==
    ASSUME TreeInv, NEW u \in Members, DeleteUser(u)
    PROVE  TreeInv'
  <1>1. u \in Users /\ user[u] # NoUser
    BY DEF Users, DeleteUser
  <1>2. PICK y : y = [user[u] EXCEPT !.deleted = TRUE]
    OBVIOUS
  <1>3. user[u] \in UserRow
    BY <1>1 DEF TreeInv, TreeTypes
  <1>4. y \in UserRow /\ y.sponsor = user[u].sponsor /\ y # NoUser
    BY <1>2, <1>3, RowsAreNotNone DEF UserRow
  <1>5. user' = [user EXCEPT ![u] = y] /\ UNCHANGED <<referral, run>>
    BY <1>2 DEF DeleteUser
  <1>6. /\ user' \in [Users -> UserRow \cup {NoUser}] /\ user'[u] = y
        /\ \A v \in Users \ {u} : user'[v] = user[v]
    BY <1>1, <1>4, <1>5 DEF TreeInv, TreeTypes
  <1>7. \A v \in Users : user[v] # NoUser => user'[v] # NoUser /\ user'[v].sponsor = user[v].sponsor
    BY <1>4, <1>6
  <1>8. user'[Admin] # NoUser => user'[Admin].sponsor = None
    BY <1>1, <1>4, <1>6 DEF TreeInv, Users
  <1>9. Script \in Processes /\ run[Script] \in RunState \cup {Idle} /\ Grown
    BY <1>5, <1>7 DEF Processes, TreeInv, TreeTypes, Grown
  <1>10. PICK x \in RunState \cup {Idle} : x = run[Script] /\ Knows(x)
    BY <1>9 DEF TreeInv
  <1>11. Knows(x)'
    BY <1>9, <1>10, KnowsStays
  <1>12. run' = [run EXCEPT ![Script] = x]
    BY <1>5, <1>9, <1>10 DEF TreeInv, TreeTypes
  <1> QED
    BY <1>5, <1>6, <1>7, <1>8, <1>9, <1>11, <1>12, UserStep

LEMMA CreateWalletHolds ==
    ASSUME TreeInv, NEW p \in Requests, NEW w \in WalletTypes, CreateWallet(p, w)
    PROVE  TreeInv'
  <1>1. p \in Processes /\ run[p].pc = "wallets" /\ UNCHANGED <<user, referral>>
    BY DEF Processes, CreateWallet, At
  <1>2. run[p] \in RunState /\ Knows(run[p]) /\ run[p].missing \in SUBSET WalletTypes
    BY <1>1, IdleRun DEF TreeInv, TreeTypes, RunState
  <1>3. CASE run' = [run EXCEPT ![p] = Idle]
    BY <1>1, <1>3, EndHolds
  <1>4. CASE run' = [run EXCEPT ![p].missing = @ \ {w}]
    <2>1. PICK x : x = [run[p] EXCEPT !.missing = @ \ {w}]
      OBVIOUS
    <2>2. /\ x \in RunState /\ x.pc = "wallets" /\ x.user = run[p].user
          /\ x.sponsor = run[p].sponsor /\ x.todo = run[p].todo
      BY <1>1, <1>2, <2>1 DEF RunState
    <2>3. run' = [run EXCEPT ![p] = x]
      BY <1>4, <2>1
    <2>4. Knows(x)
      BY <1>1, <1>2, <2>2 DEF Knows, Creates, Climbs
    <2> QED
      BY <1>1, <2>2, <2>3, <2>4, RunStep
  <1>5. CASE run[p].sponsor # None /\ run' = [run EXCEPT ![p].pc = "check", ![p].missing = {}]
    <2>1. PICK x : x = [run[p] EXCEPT !.pc = "check", !.missing = {}]
      OBVIOUS
    <2>2. /\ x \in RunState /\ x.pc = "check" /\ x.user = run[p].user
          /\ x.sponsor = run[p].sponsor /\ x.todo = run[p].todo
      BY <1>2, <2>1 DEF RunState
    <2>3. run' = [run EXCEPT ![p] = x]
      BY <1>5, <2>1
    <2>4. Knows(x)
      BY <1>1, <1>2, <1>5, <2>2 DEF Knows, Creates, Climbs
    <2> QED
      BY <1>1, <2>2, <2>3, <2>4, RunStep
  <1> QED
    <2>1. run \in [Processes -> RunState \cup {Idle}]
      BY DEF TreeInv, TreeTypes
    <2>2. PICK x : x = IF run[p].missing # {w} THEN [run[p] EXCEPT !.missing = @ \ {w}]
                       ELSE IF run[p].sponsor = None THEN Idle
                       ELSE [run[p] EXCEPT !.pc = "check", !.missing = {}]
      OBVIOUS
    <2>4. run' = [run EXCEPT ![p] = Idle] \/ run' = [run EXCEPT ![p] = x]
      BY <2>2 DEF CreateWallet
    <2>5. \/ x = [run[p] EXCEPT !.missing = @ \ {w}]
          \/ x = Idle
          \/ run[p].sponsor # None /\ x = [run[p] EXCEPT !.pc = "check", !.missing = {}]
      BY <2>2
    <2>3. /\ [run EXCEPT ![p].missing = @ \ {w}] = [run EXCEPT ![p] = [run[p] EXCEPT !.missing = @ \ {w}]]
          /\ [run EXCEPT ![p].pc = "check", ![p].missing = {}]
                 = [run EXCEPT ![p] = [run[p] EXCEPT !.pc = "check", !.missing = {}]]
      BY <1>1, <2>1
    <2> QED
      BY <1>3, <1>4, <1>5, <2>3, <2>4, <2>5

LEMMA DepositHolds ==
    ASSUME TreeInv, NEW p \in Requests, NEW u \in Members, Deposit(p, u)
    PROVE  TreeInv'
  <1>1. p \in Processes /\ u \in Users /\ UNCHANGED <<user, referral>>
    BY DEF Processes, Users, Deposit
  <1>2. PICK b : b = Begin("bonus", u, None)
    OBVIOUS
  <1>3. b \in RunState /\ b.pc = "bonus" /\ b.todo = {}
    BY <1>1, <1>2, BeginIs
  <1>4. PICK x : x = [b EXCEPT !.adds = "deposit"]
    OBVIOUS
  <1>5. x \in RunState /\ x.pc = "bonus" /\ x.todo = {}
    BY <1>3, <1>4 DEF RunState
  <1>6. run' = [run EXCEPT ![p] = x]
    BY <1>2, <1>4 DEF Deposit
  <1>7. Knows(x)
    BY <1>5, KnowsLittle
  <1> QED
    BY <1>1, <1>5, <1>6, <1>7, RunStep

LEMMA FindDepositorHolds ==
    ASSUME TreeInv, NEW p \in Requests, FindDepositor(p)
    PROVE  TreeInv'
  <1>1. PICK u : u = run[p].user
    OBVIOUS
  <1>2. p \in Processes /\ run[p].pc = "bonus" /\ UNCHANGED <<user, referral>>
    BY DEF Processes, FindDepositor, At
  <1>3. u \in Users /\ run[p] \in RunState /\ Knows(run[p])
    BY <1>1, <1>2, RunTypes DEF TreeInv, TreeTypes
  <1>4. CASE run' = [run EXCEPT ![p] = Idle]
    BY <1>2, <1>4, EndHolds
  <1>5. CASE /\ referral[u] # NoReferral /\ referral[u].sponsor # None
             /\ run' = [run EXCEPT ![p].pc = "own", ![p].at = referral[u].sponsor]
    <2>1. PICK s : s = referral[u].sponsor
      OBVIOUS
    <2>2. s \in Users /\ referral[s] # NoReferral
      BY <1>3, <1>5, <2>1 DEF TreeInv, Placed
    <2>3. PICK x : x = [run[p] EXCEPT !.pc = "own", !.at = s]
      OBVIOUS
    <2>4. x \in RunState /\ x.pc = "own" /\ x.at = s /\ x.todo = run[p].todo
      BY <1>3, <2>2, <2>3 DEF RunState
    <2>5. run' = [run EXCEPT ![p] = x]
      BY <1>5, <2>1, <2>3
    <2>6. Knows(x)
      BY <1>2, <1>3, <2>2, <2>4 DEF Knows, Creates, Climbs
    <2> QED
      BY <1>2, <2>4, <2>5, <2>6, RunStep
  <1> QED
    BY <1>1, <1>4, <1>5 DEF FindDepositor, HasRow

-------------------------------------------------------------------------------
(* The scripts *)

LEMMA ScriptStarts ==
    ASSUME TreeInv, NEW pc \in {"next", "seedFind"}, NEW todo \in SUBSET {u \in Users : user[u] # NoUser},
           StartScript(pc, todo), UNCHANGED <<user, referral>>
    PROVE  TreeInv'
  <1>1. Script \in Processes /\ Admin \in Users
    BY DEF Processes, Users
  <1>2. PICK b : b = Begin(pc, Admin, None)
    OBVIOUS
  <1>3. b \in RunState /\ b.pc = pc /\ b.user = Admin
    BY <1>1, <1>2, BeginIs
  <1>4. PICK x : x = [b EXCEPT !.todo = todo]
    OBVIOUS
  <1>5. x \in RunState /\ x.pc = pc /\ x.user = Admin /\ x.todo = todo
    BY <1>3, <1>4 DEF RunState
  <1>6. run' = [run EXCEPT ![Script] = x]
    BY <1>2, <1>4 DEF StartScript
  <1>7. Knows(x)
    BY <1>5 DEF Knows, Creates, Climbs
  <1> QED
    BY <1>1, <1>5, <1>6, <1>7, RunStep

LEMMA SeedHolds ==
    ASSUME TreeInv, Seed \/ Backfill
    PROVE  TreeInv'
  <1>1. {} \in SUBSET {u \in Users : user[u] # NoUser}
    OBVIOUS
  <1> QED
    BY <1>1, ScriptStarts DEF Seed, Backfill

\* The seed script works for the admin only, and has nobody to see.
Seeds == {"seedFind", "seedUser", "seedWallets", "seedRow", "seedSettings"}

LEMMA SeedKnows ==
    ASSUME TreeInv, NEW x \in RunState, run[Script].pc \in Seeds, x.pc \in Seeds,
           x.user = run[Script].user, x.todo = run[Script].todo
    PROVE  Knows(x)
  <1>1. Script \in Processes /\ run[Script].pc # "idle" /\ x.pc # "idle"
    BY DEF Processes, Seeds
  <1>2. Knows(run[Script])
    BY <1>1 DEF TreeInv
  <1> QED
    BY <1>1, <1>2 DEF Knows, Creates, Climbs, Seeds

LEMMA SeedFindHolds == ASSUME TreeInv, SeedFind PROVE TreeInv'
  <1>1. Script \in Processes /\ run[Script].pc = "seedFind" /\ UNCHANGED <<user, referral>>
    BY DEF Processes, SeedFind, At
  <1>2. run[Script] \in RunState
    BY <1>1, RunTypes DEF TreeInv, TreeTypes
  <1>3. CASE run' = [run EXCEPT ![Script] = Idle]
    BY <1>1, <1>3, EndHolds
  <1>4. CASE run' = [run EXCEPT ![Script] = [run[Script] EXCEPT !.pc = "seedUser"]]
    <2>1. PICK x : x = [run[Script] EXCEPT !.pc = "seedUser"]
      OBVIOUS
    <2>2. x \in RunState /\ x.pc = "seedUser" /\ x.user = run[Script].user /\ x.todo = run[Script].todo
      BY <1>2, <2>1 DEF RunState
    <2>3. Knows(x)
      BY <1>1, <2>2, SeedKnows DEF Seeds
    <2> QED
      BY <1>1, <1>4, <2>1, <2>2, <2>3, RunStep
  <1> QED
    BY <1>3, <1>4 DEF SeedFind

LEMMA SeedUserHolds == ASSUME TreeInv, SeedUser PROVE TreeInv'
  <1>1. /\ Script \in Processes /\ run[Script].pc = "seedUser" /\ run[Script].pc # "idle"
        /\ UNCHANGED referral /\ Goto(Script, "seedWallets") /\ Admin \in Users
    BY DEF Processes, Users, SeedUser, SeedStep, At
  <1>2. PICK y : y = [sponsor |-> None, deleted |-> FALSE]
    OBVIOUS
  <1>3. y \in UserRow /\ y.sponsor = None /\ y # NoUser
    BY <1>2, RowsAreNotNone DEF UserRow
  <1>4. user' = [user EXCEPT ![Admin] = y]
    BY <1>2 DEF SeedUser
  <1>5. /\ user' \in [Users -> UserRow \cup {NoUser}] /\ user'[Admin] = y
        /\ \A v \in Users \ {Admin} : user'[v] = user[v]
    BY <1>1, <1>3, <1>4 DEF TreeInv, TreeTypes
  <1>6. \A v \in Users : user[v] # NoUser => user'[v] # NoUser /\ user'[v].sponsor = user[v].sponsor
    BY <1>1, <1>3, <1>5 DEF TreeInv
  <1>7. PICK x \in RunState :
            /\ run' = [run EXCEPT ![Script] = x] /\ x.pc = "seedWallets"
            /\ x.user = run[Script].user /\ x.todo = run[Script].todo
    BY <1>1, GotoIs
  <1>8. Knows(x)
    BY <1>1, <1>7, SeedKnows DEF Seeds
  <1>9. Knows(x)'
    BY <1>1, <1>6, <1>8, KnowsStays DEF Grown
  <1> QED
    BY <1>1, <1>3, <1>5, <1>6, <1>7, <1>9, UserStep

LEMMA SeedWalletHolds ==
    ASSUME TreeInv, NEW w \in WalletTypes, SeedWallet(w)
    PROVE  TreeInv'
  <1>1. Script \in Processes /\ run[Script].pc = "seedWallets" /\ UNCHANGED <<user, referral>>
    BY DEF Processes, SeedWallet, At
  <1>2. run[Script] \in RunState
    BY <1>1, RunTypes DEF TreeInv, TreeTypes
  <1>3. PICK pc : pc = IF run[Script].missing = {w} THEN "seedRow" ELSE run[Script].pc
    OBVIOUS
  <1>4. PICK m : m = run[Script].missing \ {w}
    OBVIOUS
  <1>5. pc \in {"seedRow", "seedWallets"} /\ m \in SUBSET WalletTypes
    BY <1>1, <1>2, <1>3, <1>4 DEF RunState
  <1>6. PICK x : x = [run[Script] EXCEPT !.missing = m, !.pc = pc]
    OBVIOUS
  <1>7. x \in RunState /\ x.pc = pc /\ x.user = run[Script].user /\ x.todo = run[Script].todo
    BY <1>2, <1>5, <1>6 DEF RunState
  <1>8. run' = [run EXCEPT ![Script] = x]
    BY <1>3, <1>4, <1>6 DEF SeedWallet
  <1>9. Knows(x)
    BY <1>1, <1>5, <1>7, SeedKnows DEF Seeds
  <1> QED
    BY <1>1, <1>7, <1>8, <1>9, RunStep

LEMMA SeedReferralHolds == ASSUME TreeInv, SeedReferral PROVE TreeInv'
  <1>1. /\ Script \in Processes /\ run[Script].pc = "seedRow" /\ run[Script].pc # "idle"
        /\ UNCHANGED user /\ Admin \in Users
    BY DEF Processes, Users, SeedReferral, At
  <1>2. CASE run' = [run EXCEPT ![Script] = Idle] /\ UNCHANGED referral
    BY <1>1, <1>2, EndHolds
  <1>3. CASE /\ referral[Admin] = NoReferral /\ Goto(Script, "seedSettings")
             /\ referral' = [referral EXCEPT ![Admin] = NewReferral(None, 0)]
    <2>1. PICK x \in RunState :
              /\ run' = [run EXCEPT ![Script] = x] /\ x.pc = "seedSettings"
              /\ x.user = run[Script].user /\ x.todo = run[Script].todo
      BY <1>1, <1>3, GotoIs
    <2>2. PICK y : y = NewReferral(None, 0)
      OBVIOUS
    <2>3. y \in ReferralRow /\ y.sponsor = None /\ y.level = 0 /\ y # NoReferral
      BY <2>2, RowsAreNotNone DEF NewReferral, ReferralRow, NoCounts, Counts
    <2>4. Fits(Admin, y)
      BY <1>3, <2>3 DEF Fits
    <2>5. Knows(x)
      BY <1>1, <2>1, SeedKnows DEF Seeds
    <2>6. Grown
      BY <1>1, <1>3, <2>2, <2>3 DEF Grown, TreeInv, TreeTypes
    <2>7. Knows(x)'
      BY <2>5, <2>6, KnowsStays
    <2> QED
      BY <1>1, <1>3, <2>1, <2>2, <2>3, <2>4, <2>7, RowStep
  <1> QED
    BY <1>2, <1>3 DEF SeedReferral, HasRow

\* The backfill goes on to the user's wallets, row, or the next user.
LEMMA FillingHolds ==
    ASSUME TreeInv, NEW r \in RunState, NEW missing \in SUBSET WalletTypes,
           run' = [run EXCEPT ![Script] = Filling(r, missing)], UNCHANGED <<user, referral>>,
           r.user \in Users, user[r.user] # NoUser, r.sponsor = user[r.user].sponsor,
           \A v \in r.todo : user[v] # NoUser
    PROVE  TreeInv'
  <1>1. PICK pc : pc = IF missing # {} THEN "fill" ELSE IF r.sponsor = None THEN "next" ELSE "existing"
    OBVIOUS
  <1>2. pc \in {"fill", "next", "existing"} /\ (pc = "existing" => r.sponsor # None)
    BY <1>1
  <1>3. PICK x : x = [r EXCEPT !.missing = missing, !.pc = pc]
    OBVIOUS
  <1>4. /\ x \in RunState /\ x.pc = pc /\ x.user = r.user /\ x.sponsor = r.sponsor
        /\ x.todo = r.todo
    BY <1>2, <1>3 DEF RunState
  <1>5. run' = [run EXCEPT ![Script] = x]
    BY <1>1, <1>3 DEF Filling
  <1>6. Knows(x)
    BY <1>2, <1>4 DEF Knows, Creates, Climbs
  <1>7. Script \in Processes
    BY DEF Processes
  <1> QED
    BY <1>4, <1>5, <1>6, <1>7, RunStep

LEMMA NextUserHolds ==
    ASSUME TreeInv, NEW u \in Users, NextUser(u)
    PROVE  TreeInv'
  <1>1. /\ Script \in Processes /\ run[Script].pc = "next" /\ UNCHANGED <<user, referral>>
        /\ u \in run[Script].todo
    BY DEF Processes, NextUser, At
  <1>2. run[Script] \in RunState /\ Knows(run[Script])
    BY <1>1, RunTypes DEF TreeInv, TreeTypes
  <1>3. user[u] # NoUser /\ \A v \in run[Script].todo : user[v] # NoUser
    BY <1>1, <1>2 DEF Knows
  <1>4. user[u].sponsor \in Users \cup {None}
    BY <1>3 DEF TreeInv, TreeTypes, UserRow
  <1>5. PICK s, todo : s = user[u].sponsor /\ todo = run[Script].todo \ {u}
    OBVIOUS
  <1>6. PICK r : r = [run[Script] EXCEPT !.user = u, !.sponsor = s, !.todo = todo]
    OBVIOUS
  <1>7. r \in RunState /\ r.user = u /\ r.sponsor = s /\ r.todo = todo
    BY <1>2, <1>4, <1>5, <1>6 DEF RunState
  <1>8. PICK m : m = WalletTypes \ wallets[u]
    OBVIOUS
  <1>9. run' = [run EXCEPT ![Script] = Filling(r, m)]
    BY <1>5, <1>6, <1>8 DEF NextUser
  <1>10. m \in SUBSET WalletTypes
    BY <1>8
  <1> QED
    BY <1>1, <1>3, <1>5, <1>7, <1>9, <1>10, FillingHolds

LEMMA FillWalletHolds == ASSUME TreeInv, FillWallet(Script) PROVE TreeInv'
  <1>1. Script \in Processes /\ run[Script].pc = "fill" /\ UNCHANGED <<user, referral>>
    BY DEF Processes, FillWallet, At
  <1>2. PICK r : r = run[Script]
    OBVIOUS
  <1>3. /\ r \in RunState /\ Knows(r) /\ r.user \in Users
    BY <1>1, <1>2, RunTypes DEF TreeInv, TreeTypes
  <1>4. PICK w \in r.missing :
            run' = [run EXCEPT ![Script] = IF w \in wallets[r.user] THEN Idle
                                           ELSE Filling(r, r.missing \ {w})]
    BY <1>2 DEF FillWallet
  <1>5. CASE run' = [run EXCEPT ![Script] = Idle]
    BY <1>1, <1>5, EndHolds
  <1>6. CASE run' = [run EXCEPT ![Script] = Filling(r, r.missing \ {w})]
    <2>1. r.missing \ {w} \in SUBSET WalletTypes
      BY <1>3 DEF RunState
    <2>2. /\ user[r.user] # NoUser /\ r.sponsor = user[r.user].sponsor
          /\ \A v \in r.todo : user[v] # NoUser
      BY <1>1, <1>2, <1>3 DEF Knows
    <2> QED
      BY <1>1, <1>3, <1>6, <2>1, <2>2, FillingHolds
  <1> QED
    BY <1>4, <1>5, <1>6

LEMMA FindExistingHolds == ASSUME TreeInv, FindExisting PROVE TreeInv'
  <1>1. /\ Script \in Processes /\ run[Script].pc = "existing" /\ run[Script].pc # "idle"
        /\ UNCHANGED <<user, referral>>
    BY DEF Processes, FindExisting, At
  <1>2. Goto(Script, "next") \/ Goto(Script, "check")
    BY DEF FindExisting
  <1>3. PICK x \in RunState :
            /\ run' = [run EXCEPT ![Script] = x] /\ x.pc \in {"next", "check"}
            /\ x.user = run[Script].user /\ x.sponsor = run[Script].sponsor
            /\ x.todo = run[Script].todo
    BY <1>1, <1>2, GotoIs
  <1>4. Knows(x)
    BY <1>1, <1>3 DEF TreeInv, Knows, Creates, Climbs
  <1> QED
    BY <1>1, <1>3, <1>4, RunStep

LEMMA ScriptEndsHold == ASSUME TreeInv, SeedSettings \/ BackfillEnds PROVE TreeInv'
  <1>1. Script \in Processes /\ UNCHANGED <<user, referral>>
    BY DEF Processes, SeedSettings, BackfillEnds
  <1>2. run' = [run EXCEPT ![Script] = Idle]
    BY DEF SeedSettings, BackfillEnds
  <1> QED
    BY <1>1, <1>2, EndHolds

-------------------------------------------------------------------------------
(* Failures *)

LEMMA FailHolds ==
    ASSUME TreeInv, NEW p \in Processes, Fail(p)
    PROVE  TreeInv'
  <1>1. run[p] # Idle /\ UNCHANGED <<user, referral>>
    BY DEF Fail, Broken
  <1>2. run[p] \in RunState
    BY <1>1 DEF TreeInv, TreeTypes
  <1>3. CASE run' = [run EXCEPT ![p] = Idle]
    BY <1>1, <1>3, EndHolds
  <1>4. CASE run' = [run EXCEPT ![p] = Resume(p)]
    <2>1. PICK x : x = Resume(p)
      OBVIOUS
    <2>2. x \in RunState /\ x.pc = "next" /\ x.todo = run[p].todo
      BY <1>2, <2>1 DEF Resume, RunState
    <2>3. run[p].pc # "idle"
      BY <1>2 DEF RunState
    <2>4. Knows(x)
      BY <2>2, <2>3, KnowsLittle DEF TreeInv, Knows
    <2> QED
      BY <1>1, <1>4, <2>1, <2>2, <2>4, RunStep
  <1> QED
    BY <1>3, <1>4 DEF Fail

LEMMA CrashHolds ==
    ASSUME TreeInv, NEW ps, Crash(ps)
    PROVE  TreeInv'
  <1>1. /\ UNCHANGED <<user, referral>>
        /\ run' = [p \in Processes |-> IF p \in ps THEN Idle ELSE run[p]]
    BY DEF Crash, Broken
  <1>2. run' \in [Processes -> RunState \cup {Idle}]
    BY <1>1 DEF TreeInv, TreeTypes
  <1>3. ASSUME NEW q \in Processes
        PROVE  Knows(run[q])'
    <2>1. PICK x : x = run'[q]
      OBVIOUS
    <2>2. Knows(Idle)
      BY IdleRun, KnowsLittle
    <2>3. Knows(x)
      BY <1>1, <2>1, <2>2 DEF TreeInv
    <2> QED
      BY <1>1, <2>1, <2>3 DEF Knows
  <1>4. \A u \in Users : Placed(u)'
    BY <1>1 DEF TreeInv, Placed
  <1>5. TreeTypes'
    BY <1>1, <1>2 DEF TreeInv, TreeTypes
  <1> QED
    BY <1>1, <1>3, <1>4, <1>5 DEF TreeInv

-------------------------------------------------------------------------------
LEMMA NextHolds == TreeInv /\ [Next]_vars => TreeInv'
  <1> SUFFICES ASSUME TreeInv, [Next]_vars
               PROVE  TreeInv'
    OBVIOUS
  <1>1. ASSUME NEW p \in Requests, Request(p)
        PROVE  TreeInv'
    <2>1. p \in Processes
      BY DEF Processes
    <2> QED
      BY <1>1, <2>1, SignupHolds, CreateWalletHolds, DepositHolds, FindDepositorHolds, CountsHold
      DEF Request
  <1>2. ASSUME NEW p \in Processes, CreateReferral(p) \/ Fail(p)
        PROVE  TreeInv'
    BY <1>2, ChecksHold, CreateRootHolds, CreateRowHolds, CountsHold, FailHolds DEF CreateReferral
  <1>3. CASE Seed \/ Backfill \/ ScriptStep
    BY <1>3, SeedHolds, SeedFindHolds, SeedUserHolds, SeedWalletHolds, SeedReferralHolds,
       ScriptEndsHold, NextUserHolds, FillWalletHolds, FindExistingHolds
    DEF ScriptStep
  <1>4. ASSUME NEW u \in Members, DeleteUser(u)
        PROVE  TreeInv'
    BY <1>4, DeleteUserHolds
  <1>5. CASE Crash(Requests) \/ Crash({Script})
    BY <1>5, CrashHolds
  <1>6. CASE UNCHANGED vars
    BY <1>6 DEF vars, TreeInv, TreeTypes, Knows, Placed
  <1> QED
    BY <1>1, <1>2, <1>3, <1>4, <1>5, <1>6 DEF Next

LEMMA AlwaysHolds == Spec => []TreeInv
  <1> QED
    BY InitHolds, NextHolds, PTL DEF Spec

\* However signups, first rows of sponsors, deposits, the scripts and failures
\* mix, the referral rows are a tree along the sponsors users signed up with:
\* a row has a level above 0 just when it hangs from a row one level above.
THEOREM RowsStayTree == Spec => []RowsFormTree
  <1> QED
    BY AlwaysHolds, TreeMeans, PTL

-------------------------------------------------------------------------------
(* What is there stays *)

\* Users, rows and wallets are only added, a row stays under its sponsor, and
\* a deleted user is not taken back.
Lasting ==
    /\ Grown
    /\ \A v \in Users : referral[v] # NoReferral => referral'[v].sponsor = referral[v].sponsor
    /\ \A v \in Users : user[v] # NoUser /\ user[v].deleted => user'[v].deleted
    /\ \A v \in Users : wallets[v] \subseteq wallets'[v]

\* What the seed script, in state r, has found and made.
SeedSees(r) ==
    /\ r.pc = "seedUser" => user[Admin] = NoUser
    /\ r.pc \in {"seedWallets", "seedRow"} => user[Admin] # NoUser
    /\ r.pc \in {"seedFind", "seedUser"} => r.missing = WalletTypes

\* A user comes before its wallets, its row and the users it sponsors.
UsersFirst ==
    /\ wallets \in [Users -> SUBSET WalletTypes]
    /\ \A u \in Users :
           /\ user[u] = NoUser => wallets[u] = {} /\ referral[u] = NoReferral
           /\ user[u] # NoUser /\ user[u].sponsor # None => user[user[u].sponsor] # NoUser
    /\ SeedSees(run[Script])

LEMMA SeedSeesLittle ==
    ASSUME NEW r, r.pc \notin {"seedFind", "seedUser", "seedWallets", "seedRow"}
    PROVE  SeedSees(r)
  BY DEF SeedSees

LEMMA FirstInit == Init => UsersFirst
  <1> SUFFICES ASSUME Init PROVE UsersFirst
    OBVIOUS
  <1>1. run[Script].pc = "idle"
    BY IdleRun DEF Init, Processes
  <1> QED
    BY <1>1, SeedSeesLittle DEF Init, UsersFirst

LEMMA FirstStays ==
    ASSUME TreeInv, UsersFirst, NEW p \in Processes, NEW x \in RunState \cup {Idle},
           run' = [run EXCEPT ![p] = x], UNCHANGED user, wallets' \in [Users -> SUBSET WalletTypes],
           \A u \in Users : user[u] = NoUser => wallets'[u] = {} /\ referral'[u] = NoReferral,
           p = Script => SeedSees(x)
    PROVE  UsersFirst'
  <1>1. PICK r : r = run'[Script]
    OBVIOUS
  <1>2. r = IF p = Script THEN x ELSE run[Script]
    BY <1>1 DEF TreeInv, TreeTypes, Processes
  <1>3. SeedSees(r)
    BY <1>2 DEF UsersFirst
  <1>4. SeedSees(run[Script])'
    BY <1>1, <1>3 DEF SeedSees
  <1> QED
    BY <1>4 DEF UsersFirst

LEMMA RunsLast ==
    ASSUME TreeInv, UsersFirst, NEW p \in Processes, NEW x \in RunState \cup {Idle},
           run' = [run EXCEPT ![p] = x], UNCHANGED <<user, wallets, referral>>,
           p = Script => SeedSees(x)
    PROVE  Lasting /\ UsersFirst'
  <1>1. Lasting
    BY DEF Lasting, Grown
  <1>2. wallets' \in [Users -> SUBSET WalletTypes]
    BY DEF UsersFirst
  <1>3. \A u \in Users : user[u] = NoUser => wallets'[u] = {} /\ referral'[u] = NoReferral
    BY DEF UsersFirst
  <1> QED
    BY <1>1, <1>2, <1>3, FirstStays

LEMMA RowsLast ==
    ASSUME TreeInv, UsersFirst, NEW p \in Processes, NEW x \in RunState \cup {Idle},
           run' = [run EXCEPT ![p] = x], UNCHANGED <<user, wallets>>, p = Script => SeedSees(x),
           NEW a \in Users, NEW y \in ReferralRow, referral' = [referral EXCEPT ![a] = y],
           user[a] # NoUser, referral[a] = NoReferral \/ y.sponsor = referral[a].sponsor
    PROVE  Lasting /\ UsersFirst'
  <1>1. referral'[a] = y /\ y # NoReferral /\ \A v \in Users \ {a} : referral'[v] = referral[v]
    BY RowsAreNotNone DEF TreeInv, TreeTypes
  <1>2. Lasting
    BY <1>1 DEF Lasting, Grown
  <1>3. wallets' \in [Users -> SUBSET WalletTypes]
    BY DEF UsersFirst
  <1>4. \A u \in Users : user[u] = NoUser => wallets'[u] = {} /\ referral'[u] = NoReferral
    BY <1>1 DEF UsersFirst
  <1> QED
    BY <1>2, <1>3, <1>4, FirstStays

LEMMA WalletsLast ==
    ASSUME TreeInv, UsersFirst, NEW p \in Processes, NEW x \in RunState \cup {Idle},
           run' = [run EXCEPT ![p] = x], UNCHANGED <<user, referral>>, p = Script => SeedSees(x),
           NEW a \in Users, NEW W \in SUBSET WalletTypes,
           wallets' = [wallets EXCEPT ![a] = @ \cup W], user[a] # NoUser
    PROVE  Lasting /\ UsersFirst'
  <1>1. /\ wallets' \in [Users -> SUBSET WalletTypes] /\ wallets'[a] = wallets[a] \cup W
        /\ \A v \in Users \ {a} : wallets'[v] = wallets[v]
    BY DEF UsersFirst
  <1>2. Lasting
    BY <1>1 DEF Lasting, Grown
  <1>3. \A u \in Users : user[u] = NoUser => wallets'[u] = {} /\ referral'[u] = NoReferral
    BY <1>1 DEF UsersFirst
  <1> QED
    BY <1>1, <1>2, <1>3, FirstStays

\* Where the calls of createReferral and processReferralBonus lead.
Onward(x, p) ==
    \/ x.pc \in {"idle", "next", "own", "walk"}
    \/ /\ run[p].pc \in Creates /\ x.pc \in Creates /\ x.pc # "check"
       /\ x.user = run[p].user /\ x.sponsor = run[p].sponsor
       /\ x.pc = "root" => run[p].pc = "sponsorRow"

LEMMA AtIs ==
    ASSUME TreeInv, NEW p \in Processes, NEW s \in Users, run[p].pc # "idle",
           \/ run' = [run EXCEPT ![p].pc = "own", ![p].at = s]
           \/ run[p].pc = "walk" /\ run' = [run EXCEPT ![p].at = s]
    PROVE  \E x \in RunState :
               run' = [run EXCEPT ![p] = x] /\ x.pc \in {"own", "walk"} /\ x.at = s
               /\ x.todo = run[p].todo
  <1>1. run[p] \in RunState
    BY RunTypes DEF TreeInv, TreeTypes
  <1>2. CASE run' = [run EXCEPT ![p].pc = "own", ![p].at = s]
    <2>1. PICK x : x = [run[p] EXCEPT !.pc = "own", !.at = s]
      OBVIOUS
    <2>2. x \in RunState /\ x.pc = "own" /\ x.at = s /\ x.todo = run[p].todo
      BY <1>1, <2>1 DEF RunState
    <2>3. run' = [run EXCEPT ![p] = x]
      BY <1>2, <2>1
    <2> QED
      BY <2>2, <2>3
  <1>3. CASE run[p].pc = "walk" /\ run' = [run EXCEPT ![p].at = s]
    <2>1. PICK x : x = [run[p] EXCEPT !.at = s]
      OBVIOUS
    <2>2. x \in RunState /\ x.pc = "walk" /\ x.at = s /\ x.todo = run[p].todo
      BY <1>1, <1>3, <2>1 DEF RunState
    <2>3. run' = [run EXCEPT ![p] = x]
      BY <1>3, <2>1
    <2> QED
      BY <2>2, <2>3
  <1> QED
    BY <1>2, <1>3

LEMMA CallsAre ==
    ASSUME TreeInv, NEW p \in Processes,
           \/ CheckReferral(p) \/ FindSponsorRow(p) \/ CreateRoot(p) \/ CreateRow(p)
           \/ CountDirect(p) \/ Walk(p) \/ FindDepositor(p) \/ UpdateSponsorStats(p)
    PROVE  \E x \in RunState \cup {Idle} : run' = [run EXCEPT ![p] = x] /\ Onward(x, p)
  <1>1. run[p].pc # "idle"
    BY DEF CheckReferral, FindSponsorRow, CreateRoot, CreateRow, CountDirect, Walk, FindDepositor,
           UpdateSponsorStats, At
  <1>2. run[p] \in RunState /\ Knows(run[p])
    BY <1>1, RunTypes DEF TreeInv, TreeTypes
  <1>3. CASE Done(p)
    <2>1. PICK x \in RunState \cup {Idle} : run' = [run EXCEPT ![p] = x] /\ Over(x, p)
      BY <1>1, <1>3, DoneIs
    <2> QED
      BY <2>1 DEF Over, Onward
  <1>4. CASE run' = [run EXCEPT ![p] = Idle]
    <2>1. PICK x : x = Idle
      OBVIOUS
    <2>2. x \in RunState \cup {Idle} /\ Onward(x, p)
      BY <2>1, IdleRun DEF Onward
    <2>3. run' = [run EXCEPT ![p] = x]
      BY <1>4, <2>1
    <2> QED
      BY <2>2, <2>3
  <1>5. CASE run[p].pc \in Climbs /\ Goto(p, "walk")
    <2>1. PICK x \in RunState : run' = [run EXCEPT ![p] = x] /\ x.pc = "walk"
      BY <1>1, <1>5, GotoIs
    <2> QED
      BY <2>1 DEF Onward
  <1>6. ASSUME NEW pc \in {"sponsorRow", "root", "row"}, run[p].pc \in Creates, Goto(p, pc),
               pc = "root" => run[p].pc = "sponsorRow"
        PROVE  \E x \in RunState \cup {Idle} : run' = [run EXCEPT ![p] = x] /\ Onward(x, p)
    <2>1. PICK x \in RunState :
              /\ run' = [run EXCEPT ![p] = x] /\ x.pc = pc
              /\ x.user = run[p].user /\ x.sponsor = run[p].sponsor
      BY <1>1, <1>6, GotoIs
    <2> QED
      BY <1>6, <2>1 DEF Onward, Creates
  <1>7. ASSUME NEW s \in Users,
               \/ run' = [run EXCEPT ![p].pc = "own", ![p].at = s]
               \/ run[p].pc = "walk" /\ run' = [run EXCEPT ![p].at = s]
        PROVE  \E x \in RunState \cup {Idle} : run' = [run EXCEPT ![p] = x] /\ Onward(x, p)
    <2>1. PICK x \in RunState : run' = [run EXCEPT ![p] = x] /\ x.pc \in {"own", "walk"}
      BY <1>1, <1>7, AtIs
    <2> QED
      BY <2>1 DEF Onward
  <1>8. CASE CheckReferral(p)
    BY <1>3, <1>6, <1>8 DEF CheckReferral, At, Creates
  <1>9. CASE FindSponsorRow(p)
    <2>1. run[p].pc = "sponsorRow" /\ (Goto(p, "row") \/ Goto(p, "root"))
      BY <1>9 DEF FindSponsorRow, At
    <2> QED
      BY <1>6, <2>1 DEF Creates
  <1>10. CASE CreateRoot(p)
    BY <1>3, <1>6, <1>10 DEF CreateRoot, At, Creates
  <1>11. CASE CreateRow(p)
    <2>1. run[p].pc = "row" /\ run[p].sponsor \in Users
      BY <1>2, <1>11, RunTypes DEF CreateRow, At, Knows, Creates
    <2>2. Done(p) \/ run' = [run EXCEPT ![p].pc = "own", ![p].at = run[p].sponsor]
      BY <1>11 DEF CreateRow
    <2> QED
      BY <1>3, <1>7, <2>1, <2>2
  <1>12. CASE CountDirect(p) \/ UpdateSponsorStats(p)
    BY <1>5, <1>12 DEF CountDirect, UpdateSponsorStats, At, Climbs
  <1>13. CASE Walk(p)
    <2>1. PICK a : a = run[p].at
      OBVIOUS
    <2>2. run[p].pc = "walk" /\ a \in Users /\ referral[a] # NoReferral
      BY <1>2, <1>13, <2>1 DEF Walk, At, Knows, Climbs
    <2>3. PICK s : s = referral[a].sponsor
      OBVIOUS
    <2>4. s = None \/ s \in Users
      BY <2>2, <2>3 DEF TreeInv, Placed
    <2>5. Done(p) \/ (s # None /\ run' = [run EXCEPT ![p].at = s])
      BY <1>13, <2>1, <2>3 DEF Walk
    <2> QED
      BY <1>3, <1>7, <2>2, <2>4, <2>5
  <1>14. CASE FindDepositor(p)
    <2>1. PICK u : u = run[p].user
      OBVIOUS
    <2>2. u \in Users
      BY <1>2, <2>1, <1>1, RunTypes
    <2>3. PICK s : s = referral[u].sponsor
      OBVIOUS
    <2>4. \/ run' = [run EXCEPT ![p] = Idle]
          \/ /\ referral[u] # NoReferral /\ s # None
             /\ run' = [run EXCEPT ![p].pc = "own", ![p].at = s]
      BY <1>14, <2>1, <2>3 DEF FindDepositor, HasRow
    <2>5. referral[u] # NoReferral /\ s # None => s \in Users
      BY <2>2, <2>3 DEF TreeInv, Placed
    <2> QED
      BY <1>4, <1>7, <2>4, <2>5
  <1> QED
    BY <1>8, <1>9, <1>10, <1>11, <1>12, <1>13, <1>14

LEMMA CallsLast ==
    ASSUME TreeInv, UsersFirst, NEW p \in Processes,
           \/ CheckReferral(p) \/ FindSponsorRow(p) \/ CreateRoot(p) \/ CreateRow(p)
           \/ CountDirect(p) \/ Walk(p) \/ FindDepositor(p) \/ UpdateSponsorStats(p)
    PROVE  Lasting /\ UsersFirst'
  <1>1. PICK x \in RunState \cup {Idle} : run' = [run EXCEPT ![p] = x] /\ Onward(x, p)
    BY CallsAre
  <1>2. SeedSees(x)
    BY <1>1, SeedSeesLittle DEF Onward, Creates
  <1>3. UNCHANGED <<user, wallets>>
    BY DEF CheckReferral, FindSponsorRow, CreateRoot, CreateRow, CountDirect, Walk, FindDepositor,
           UpdateSponsorStats, observed
  <1>4. CASE UNCHANGED referral
    BY <1>1, <1>2, <1>3, <1>4, RunsLast
  <1>5. ASSUME NEW a \in Users, referral[a] # NoReferral, Counted(a)
        PROVE  Lasting /\ UsersFirst'
    <2>1. PICK y \in ReferralRow : referral' = [referral EXCEPT ![a] = y] /\ Fits(a, y)
      BY <1>5, CountedFits
    <2>2. user[a] # NoUser /\ y.sponsor = referral[a].sponsor
      BY <1>5, <2>1 DEF UsersFirst, Fits
    <2> QED
      BY <1>1, <1>2, <1>3, <2>1, <2>2, RowsLast
  <1>6. CASE CheckReferral(p) \/ FindSponsorRow(p) \/ FindDepositor(p)
    BY <1>4, <1>6 DEF CheckReferral, FindSponsorRow, FindDepositor
  <1>7. CASE CountDirect(p) \/ UpdateSponsorStats(p) \/ Walk(p)
    <2>1. PICK a : a = run[p].at
      OBVIOUS
    <2>2. run[p].pc \in Climbs
      BY <1>7 DEF CountDirect, UpdateSponsorStats, Walk, At, Climbs
    <2>3. a \in Users /\ referral[a] # NoReferral
      BY <2>1, <2>2 DEF TreeInv, Knows
    <2>4. Counted(a)
      BY <1>7, <2>1, <2>3, CountsAre DEF CountDirect, UpdateSponsorStats, Walk
    <2> QED
      BY <1>5, <2>3, <2>4
  <1>8. ASSUME NEW a \in Users, NEW s \in Users \cup {None}, NEW l \in Nat, user[a] # NoUser,
               referral[a] = NoReferral, referral' = [referral EXCEPT ![a] = NewReferral(s, l)]
        PROVE  Lasting /\ UsersFirst'
    <2>1. PICK y : y = NewReferral(s, l)
      OBVIOUS
    <2>2. y \in ReferralRow
      BY <2>1 DEF NewReferral, ReferralRow, NoCounts, Counts
    <2> QED
      BY <1>1, <1>2, <1>3, <1>8, <2>1, <2>2, RowsLast
  <1>9. CASE CreateRoot(p)
    <2>1. PICK s : s = run[p].sponsor
      OBVIOUS
    <2>2. run[p].pc = "root"
      BY <1>9 DEF CreateRoot, At
    <2>3. /\ run[p].user \in Users /\ user[run[p].user] # NoUser /\ s \in Users
          /\ s # None /\ s = user[run[p].user].sponsor
      BY <2>1, <2>2, RunTypes DEF TreeInv, TreeTypes, Knows, Creates
    <2>4. user[s] # NoUser
      BY <2>3 DEF UsersFirst
    <2>5. \/ UNCHANGED referral
          \/ referral[s] = NoReferral /\ referral' = [referral EXCEPT ![s] = NewReferral(None, 0)]
      BY <1>9, <2>1 DEF CreateRoot, HasRow
    <2> QED
      BY <1>4, <1>8, <2>3, <2>4, <2>5
  <1>10. CASE CreateRow(p)
    <2>1. PICK u, s : u = run[p].user /\ s = run[p].sponsor
      OBVIOUS
    <2>2. run[p].pc = "row"
      BY <1>10 DEF CreateRow, At
    <2>3. u \in Users /\ user[u] # NoUser /\ s \in Users /\ referral[s] # NoReferral
      BY <2>1, <2>2, RunTypes DEF TreeInv, TreeTypes, Knows, Creates
    <2>4. PICK l : l = referral[s].level + 1
      OBVIOUS
    <2>5. l \in Nat
      BY <2>3, <2>4 DEF TreeInv, TreeTypes, ReferralRow
    <2>6. \/ UNCHANGED referral
          \/ referral[u] = NoReferral /\ referral' = [referral EXCEPT ![u] = NewReferral(s, l)]
      BY <1>10, <2>1, <2>4 DEF CreateRow, HasRow
    <2> QED
      BY <1>4, <1>8, <2>3, <2>5, <2>6
  <1> QED
    BY <1>6, <1>7, <1>9, <1>10

\* A signup: the run begins, with all wallets to make.
LEMMA SignupIs ==
    ASSUME TreeInv, NEW p \in Requests, NEW u \in Members, NEW s \in Users \cup {None}, Signup(p, u, s)
    PROVE  /\ user \in [Users -> UserRow \cup {NoUser}] /\ user[u] = NoUser /\ u \in Users
           /\ user'[u] # NoUser /\ user'[u].sponsor = s
           /\ \A v \in Users \ {u} : user'[v] = user[v]
           /\ \E x \in RunState :
                  /\ run' = [run EXCEPT ![p] = x]
                  /\ x.pc = "wallets" /\ x.user = u /\ x.sponsor = s /\ x.missing = WalletTypes
  <1>1. u \in Users
    BY DEF Users
  <1>2. PICK x : x = Begin("wallets", u, s)
    OBVIOUS
  <1>3. x \in RunState /\ x.pc = "wallets" /\ x.user = u /\ x.sponsor = s /\ x.missing = WalletTypes
    BY <1>1, <1>2, BeginIs
  <1>4. PICK y : y = [sponsor |-> s, deleted |-> FALSE]
    OBVIOUS
  <1>5. y \in UserRow /\ y.sponsor = s /\ y # NoUser
    BY <1>4, RowsAreNotNone DEF UserRow
  <1>6. run' = [run EXCEPT ![p] = x] /\ user[u] = NoUser /\ user' = [user EXCEPT ![u] = y]
    BY <1>2, <1>4 DEF Signup
  <1>7. user \in [Users -> UserRow \cup {NoUser}]
    BY DEF TreeInv, TreeTypes
  <1>8. user'[u] = y /\ \A v \in Users \ {u} : user'[v] = user[v]
    BY <1>1, <1>6, <1>7
  <1> QED
    BY <1>1, <1>3, <1>5, <1>6, <1>7, <1>8

LEMMA SignupLasts ==
    ASSUME TreeInv, UsersFirst, NEW p \in Requests, NEW u \in Members,
           NEW s \in Users \cup {None}, Signup(p, u, s)
    PROVE  Lasting /\ UsersFirst'
  <1>1. PICK x \in RunState : run' = [run EXCEPT ![p] = x]
    BY SignupIs
  <1>2. /\ user[u] = NoUser /\ u \in Users /\ user'[u] # NoUser /\ user'[u].sponsor = s
        /\ \A v \in Users \ {u} : user'[v] = user[v]
    BY SignupIs
  <1>3. /\ UNCHANGED <<wallets, referral>> /\ (s # None => user[s] # NoUser)
        /\ p # Script /\ p \in Processes /\ Script \in Processes /\ u # Admin /\ Admin \in Users
    BY ScriptAssumption, AdminAssumption DEF Signup, Processes, Users
  <1>4. Lasting
    BY <1>2, <1>3 DEF Lasting, Grown
  <1>5. PICK r : r = run[Script]
    OBVIOUS
  <1>6. run'[Script] = r
    BY <1>1, <1>3, <1>5 DEF TreeInv, TreeTypes
  <1>7. SeedSees(run[Script])'
    BY <1>2, <1>3, <1>5, <1>6 DEF UsersFirst, SeedSees
  <1>8. ASSUME NEW v \in Users
        PROVE  /\ user'[v] = NoUser => wallets'[v] = {} /\ referral'[v] = NoReferral
               /\ user'[v] # NoUser /\ user'[v].sponsor # None => user'[user'[v].sponsor] # NoUser
    <2>1. /\ user[v] = NoUser => wallets[v] = {} /\ referral[v] = NoReferral
          /\ user[v] # NoUser /\ user[v].sponsor # None => user[user[v].sponsor] # NoUser
      BY DEF UsersFirst
    <2>2. CASE v = u
      BY <1>2, <1>3, <2>2
    <2>3. CASE v # u
      <3>1. user'[v] = user[v]
        BY <1>2, <2>3
      <3>2. user[v] # NoUser => user[v].sponsor \in Users \cup {None}
        BY DEF TreeInv, TreeTypes, UserRow
      <3> QED
        BY <1>2, <1>3, <2>1, <3>1, <3>2
    <2> QED
      BY <2>2, <2>3
  <1>9. wallets' \in [Users -> SUBSET WalletTypes]
    BY <1>3 DEF UsersFirst
  <1> QED
    BY <1>4, <1>7, <1>8, <1>9 DEF UsersFirst

\* A wallet made at signup, or refused because it is there.
LEMMA CreateWalletIs ==
    ASSUME TreeInv, NEW p \in Requests, NEW w \in WalletTypes, CreateWallet(p, w)
    PROVE  \E x \in RunState \cup {Idle}, W \in SUBSET WalletTypes :
               /\ run' = [run EXCEPT ![p] = x]
               /\ wallets' = [wallets EXCEPT ![run[p].user] = @ \cup W]
               /\ x.pc \in {"wallets", "check"} => x.user = run[p].user /\ x.sponsor = run[p].sponsor
               /\ \/ w \in wallets[run[p].user] /\ x.pc = "idle"
                  \/ /\ w \notin wallets[run[p].user] /\ W = {w}
                     /\ \/ x.pc = "wallets" /\ x.missing = run[p].missing \ {w}
                        \/ /\ x.pc = IF run[p].sponsor = None THEN "idle" ELSE "check"
                           /\ run[p].missing = {w}
  <1>1. run[p].pc = "wallets" /\ p \in Processes
    BY DEF CreateWallet, At, Processes
  <1>2. run[p] \in RunState /\ run \in [Processes -> RunState \cup {Idle}]
    BY <1>1, RunTypes DEF TreeInv, TreeTypes
  <1>3. run[p].missing \in SUBSET WalletTypes
    BY <1>2 DEF RunState
  <1>4. Idle \in RunState \cup {Idle} /\ Idle.pc = "idle"
    BY IdleRun
  <1>5. PICK u : u = run[p].user
    OBVIOUS
  <1>6. CASE w \in wallets[u]
    <2>1. PICK W \in SUBSET run[p].missing : wallets' = [wallets EXCEPT ![u] = @ \cup W]
      BY <1>5, <1>6 DEF CreateWallet
    <2>2. run' = [run EXCEPT ![p] = Idle]
      BY <1>5, <1>6 DEF CreateWallet
    <2>3. W \in SUBSET WalletTypes
      BY <1>3, <2>1
    <2> QED
      BY <1>4, <1>5, <1>6, <2>1, <2>2, <2>3
  <1>7. CASE w \notin wallets[u]
    <2>1. wallets' = [wallets EXCEPT ![u] = @ \cup {w}] /\ {w} \in SUBSET WalletTypes
      BY <1>5, <1>7 DEF CreateWallet
    <2>2. CASE run[p].missing # {w}
      <3>1. PICK x : x = [run[p] EXCEPT !.missing = @ \ {w}]
        OBVIOUS
      <3>2. run' = [run EXCEPT ![p] = x]
        BY <1>5, <1>7, <2>2, <3>1 DEF CreateWallet
      <3>3. /\ x \in RunState /\ x.pc = "wallets" /\ x.user = run[p].user
            /\ x.sponsor = run[p].sponsor /\ x.missing = run[p].missing \ {w}
        BY <1>1, <1>2, <3>1 DEF RunState
      <3> QED
        BY <1>5, <1>7, <2>1, <3>2, <3>3
    <2>3. CASE run[p].missing = {w} /\ run[p].sponsor = None
      <3>1. run' = [run EXCEPT ![p] = Idle]
        BY <1>5, <1>7, <2>3 DEF CreateWallet
      <3> QED
        BY <1>4, <1>5, <1>7, <2>1, <2>3, <3>1
    <2>4. CASE run[p].missing = {w} /\ run[p].sponsor # None
      <3>1. PICK x : x = [run[p] EXCEPT !.pc = "check", !.missing = {}]
        OBVIOUS
      <3>2. run' = [run EXCEPT ![p] = x]
        BY <1>5, <1>7, <2>4, <3>1 DEF CreateWallet
      <3>3. /\ x \in RunState /\ x.pc = "check" /\ x.user = run[p].user
            /\ x.sponsor = run[p].sponsor
        BY <1>2, <3>1 DEF RunState
      <3> QED
        BY <1>5, <1>7, <2>1, <2>4, <3>2, <3>3
    <2> QED
      BY <2>2, <2>3, <2>4
  <1> QED
    BY <1>6, <1>7

LEMMA CreateWalletLasts ==
    ASSUME TreeInv, UsersFirst, NEW p \in Requests, NEW w \in WalletTypes, CreateWallet(p, w)
    PROVE  Lasting /\ UsersFirst'
  <1>1. PICK x \in RunState \cup {Idle}, W \in SUBSET WalletTypes :
            /\ run' = [run EXCEPT ![p] = x]
            /\ wallets' = [wallets EXCEPT ![run[p].user] = @ \cup W]
    BY CreateWalletIs
  <1>2. /\ p \in Processes /\ p # Script /\ UNCHANGED <<user, referral>> /\ run[p].pc = "wallets"
    BY ScriptAssumption DEF CreateWallet, Processes, At
  <1>3. run[p].user \in Users /\ user[run[p].user] # NoUser
    BY <1>2, RunTypes DEF TreeInv, TreeTypes, Knows
  <1> QED
    BY <1>1, <1>2, <1>3, WalletsLast

LEMMA DepositIs ==
    ASSUME TreeInv, NEW p \in Requests, NEW u \in Members, Deposit(p, u)
    PROVE  \E x \in RunState : run' = [run EXCEPT ![p] = x] /\ x.pc = "bonus"
  <1>1. u \in Users
    BY DEF Users
  <1>2. PICK b : b = Begin("bonus", u, None)
    OBVIOUS
  <1>3. b \in RunState /\ b.pc = "bonus"
    BY <1>1, <1>2, BeginIs
  <1>4. PICK x : x = [b EXCEPT !.adds = "deposit"]
    OBVIOUS
  <1>5. x \in RunState /\ x.pc = "bonus"
    BY <1>3, <1>4 DEF RunState
  <1>6. run' = [run EXCEPT ![p] = x]
    BY <1>2, <1>4 DEF Deposit
  <1> QED
    BY <1>5, <1>6

LEMMA DepositLasts ==
    ASSUME TreeInv, UsersFirst, NEW p \in Requests, NEW u \in Members, Deposit(p, u)
    PROVE  Lasting /\ UsersFirst'
  <1>1. PICK x \in RunState : run' = [run EXCEPT ![p] = x] /\ x.pc = "bonus"
    BY DepositIs
  <1>2. p \in Processes /\ UNCHANGED <<user, wallets, referral>>
    BY DEF Deposit, Processes
  <1>3. SeedSees(x)
    BY <1>1, SeedSeesLittle
  <1> QED
    BY <1>1, <1>2, <1>3, RunsLast

LEMMA DeleteUserLasts ==
    ASSUME TreeInv, UsersFirst, NEW u \in Members, DeleteUser(u)
    PROVE  Lasting /\ UsersFirst'
  <1>1. u \in Users /\ user[u] # NoUser
    BY DEF Users, DeleteUser
  <1>2. PICK y : y = [user[u] EXCEPT !.deleted = TRUE]
    OBVIOUS
  <1>3. user[u] \in UserRow
    BY <1>1 DEF TreeInv, TreeTypes
  <1>4. y \in UserRow /\ y.sponsor = user[u].sponsor /\ y # NoUser /\ y.deleted
    BY <1>2, <1>3, RowsAreNotNone DEF UserRow
  <1>5. user' = [user EXCEPT ![u] = y] /\ UNCHANGED <<referral, wallets, run>>
    BY <1>2 DEF DeleteUser
  <1>6. user'[u] = y /\ \A v \in Users \ {u} : user'[v] = user[v]
    BY <1>1, <1>5 DEF TreeInv, TreeTypes
  <1>7. Lasting
    BY <1>4, <1>5, <1>6 DEF Lasting, Grown
  <1>8. \A v \in Users : /\ user'[v] = NoUser <=> user[v] = NoUser
                         /\ user[v] # NoUser => user'[v].sponsor = user[v].sponsor
                         /\ user[v] # NoUser => user[v].sponsor \in Users \cup {None}
    BY <1>1, <1>4, <1>6 DEF TreeInv, TreeTypes, UserRow
  <1>9. Admin \in Users
    BY DEF Users
  <1>10. SeedSees(run[Script])'
    BY <1>5, <1>8, <1>9 DEF UsersFirst, SeedSees
  <1>11. wallets' \in [Users -> SUBSET WalletTypes]
    BY <1>5 DEF UsersFirst
  <1>12. \A v \in Users :
             /\ user'[v] = NoUser => wallets'[v] = {} /\ referral'[v] = NoReferral
             /\ user'[v] # NoUser /\ user'[v].sponsor # None => user'[user'[v].sponsor] # NoUser
    BY <1>5, <1>8 DEF UsersFirst
  <1> QED
    BY <1>7, <1>10, <1>11, <1>12 DEF UsersFirst

LEMMA StartIs ==
    ASSUME NEW pc \in {"next", "seedFind"}, NEW todo \in SUBSET Users, StartScript(pc, todo)
    PROVE  \E x \in RunState :
               /\ run' = [run EXCEPT ![Script] = x]
               /\ x.pc = pc /\ x.user = Admin /\ x.todo = todo /\ x.missing = WalletTypes
  <1>1. Admin \in Users
    BY DEF Users
  <1>2. PICK b : b = Begin(pc, Admin, None)
    OBVIOUS
  <1>3. b \in RunState /\ b.pc = pc /\ b.user = Admin /\ b.missing = WalletTypes
    BY <1>1, <1>2, BeginIs
  <1>4. PICK x : x = [b EXCEPT !.todo = todo]
    OBVIOUS
  <1>5. x \in RunState /\ x.pc = pc /\ x.user = Admin /\ x.todo = todo /\ x.missing = WalletTypes
    BY <1>3, <1>4 DEF RunState
  <1>6. run' = [run EXCEPT ![Script] = x]
    BY <1>2, <1>4 DEF StartScript
  <1> QED
    BY <1>5, <1>6

LEMMA StartsLast ==
    ASSUME TreeInv, UsersFirst, Seed \/ Backfill
    PROVE  Lasting /\ UsersFirst'
  <1>1. PICK pc, todo : /\ pc \in {"next", "seedFind"} /\ todo \in SUBSET Users
                        /\ StartScript(pc, todo)
    BY DEF Seed, Backfill
  <1>2. PICK x \in RunState : run' = [run EXCEPT ![Script] = x] /\ x.pc = pc /\ x.missing = WalletTypes
    BY <1>1, StartIs
  <1>3. Script \in Processes /\ UNCHANGED <<user, wallets, referral>>
    BY DEF Processes, Seed, Backfill
  <1>4. SeedSees(x)
    BY <1>1, <1>2 DEF SeedSees
  <1> QED
    BY <1>2, <1>3, <1>4, RunsLast

LEMMA SeedFindLasts ==
    ASSUME TreeInv, UsersFirst, SeedFind
    PROVE  Lasting /\ UsersFirst'
  <1>1. Script \in Processes /\ run[Script].pc = "seedFind" /\ UNCHANGED <<user, wallets, referral>>
    BY DEF Processes, SeedFind, At
  <1>2. run[Script] \in RunState /\ run[Script].missing = WalletTypes
    BY <1>1, RunTypes DEF TreeInv, TreeTypes, UsersFirst, SeedSees
  <1>3. CASE run' = [run EXCEPT ![Script] = Idle]
    <2>1. PICK x : x = Idle
      OBVIOUS
    <2>2. x \in RunState \cup {Idle} /\ x.pc = "idle"
      BY <2>1, IdleRun
    <2>3. SeedSees(x)
      BY <2>2, SeedSeesLittle
    <2> QED
      BY <1>1, <1>3, <2>1, <2>2, <2>3, RunsLast
  <1>4. CASE user[Admin] = NoUser /\ run' = [run EXCEPT ![Script] = [run[Script] EXCEPT !.pc = "seedUser"]]
    <2>1. PICK x : x = [run[Script] EXCEPT !.pc = "seedUser"]
      OBVIOUS
    <2>2. x \in RunState /\ x.pc = "seedUser" /\ x.missing = WalletTypes
      BY <1>2, <2>1 DEF RunState
    <2>3. SeedSees(x)
      BY <1>4, <2>2 DEF SeedSees
    <2> QED
      BY <1>1, <1>4, <2>1, <2>2, <2>3, RunsLast
  <1> QED
    BY <1>3, <1>4 DEF SeedFind

LEMMA SeedUserIs ==
    ASSUME TreeInv, SeedUser
    PROVE  /\ user'[Admin] # NoUser /\ user'[Admin].sponsor = None /\ Admin \in Users
           /\ \A v \in Users \ {Admin} : user'[v] = user[v]
           /\ \E x \in RunState :
                  /\ run' = [run EXCEPT ![Script] = x]
                  /\ x.pc = "seedWallets" /\ x.missing = run[Script].missing
  <1>1. /\ Script \in Processes /\ run[Script].pc = "seedUser" /\ run[Script].pc # "idle"
        /\ Goto(Script, "seedWallets") /\ Admin \in Users
    BY DEF Processes, Users, SeedUser, SeedStep, At
  <1>2. PICK y : y = [sponsor |-> None, deleted |-> FALSE]
    OBVIOUS
  <1>3. y \in UserRow /\ y.sponsor = None /\ y # NoUser
    BY <1>2, RowsAreNotNone DEF UserRow
  <1>4. user' = [user EXCEPT ![Admin] = y]
    BY <1>2 DEF SeedUser
  <1>5. user'[Admin] = y /\ \A v \in Users \ {Admin} : user'[v] = user[v]
    BY <1>1, <1>4 DEF TreeInv, TreeTypes
  <1>6. PICK x \in RunState :
            /\ run' = [run EXCEPT ![Script] = x] /\ x.pc = "seedWallets"
            /\ x.missing = run[Script].missing
    BY <1>1, GotoIs
  <1> QED
    BY <1>1, <1>3, <1>5, <1>6

LEMMA SeedUserLasts ==
    ASSUME TreeInv, UsersFirst, SeedUser
    PROVE  Lasting /\ UsersFirst'
  <1>1. PICK x \in RunState : run' = [run EXCEPT ![Script] = x] /\ x.pc = "seedWallets"
    BY SeedUserIs
  <1>2. /\ user'[Admin] # NoUser /\ user'[Admin].sponsor = None /\ Admin \in Users
        /\ \A v \in Users \ {Admin} : user'[v] = user[v]
    BY SeedUserIs
  <1>3. /\ UNCHANGED <<wallets, referral>> /\ Script \in Processes /\ run[Script].pc = "seedUser"
    BY DEF SeedUser, SeedStep, Processes, At
  <1>4. user[Admin] = NoUser
    BY <1>3 DEF UsersFirst, SeedSees
  <1>5. Lasting
    BY <1>2, <1>3, <1>4 DEF Lasting, Grown
  <1>6. run'[Script] = x
    BY <1>1, <1>3 DEF TreeInv, TreeTypes
  <1>7. SeedSees(run[Script])'
    BY <1>1, <1>2, <1>6 DEF SeedSees
  <1>8. ASSUME NEW v \in Users
        PROVE  /\ user'[v] = NoUser => wallets'[v] = {} /\ referral'[v] = NoReferral
               /\ user'[v] # NoUser /\ user'[v].sponsor # None => user'[user'[v].sponsor] # NoUser
    <2>1. /\ user[v] = NoUser => wallets[v] = {} /\ referral[v] = NoReferral
          /\ user[v] # NoUser /\ user[v].sponsor # None => user[user[v].sponsor] # NoUser
      BY DEF UsersFirst
    <2>2. CASE v = Admin
      BY <1>2, <2>2
    <2>3. CASE v # Admin
      <3>1. user'[v] = user[v]
        BY <1>2, <2>3
      <3>2. user[v] # NoUser => user[v].sponsor \in Users \cup {None}
        BY DEF TreeInv, TreeTypes, UserRow
      <3> QED
        BY <1>2, <1>3, <2>1, <3>1, <3>2
    <2> QED
      BY <2>2, <2>3
  <1>9. wallets' \in [Users -> SUBSET WalletTypes]
    BY <1>3 DEF UsersFirst
  <1> QED
    BY <1>5, <1>7, <1>8, <1>9 DEF UsersFirst

LEMMA SeedWalletIs ==
    ASSUME TreeInv, NEW w \in WalletTypes, SeedWallet(w)
    PROVE  \E x \in RunState :
               /\ run' = [run EXCEPT ![Script] = x]
               /\ x.pc = IF run[Script].missing = {w} THEN "seedRow" ELSE "seedWallets"
               /\ x.missing = run[Script].missing \ {w}
  <1>1. Script \in Processes /\ run[Script].pc = "seedWallets"
    BY DEF Processes, SeedWallet, At
  <1>2. run[Script] \in RunState
    BY <1>1, RunTypes DEF TreeInv, TreeTypes
  <1>3. PICK pc : pc = IF run[Script].missing = {w} THEN "seedRow" ELSE run[Script].pc
    OBVIOUS
  <1>4. PICK m : m = run[Script].missing \ {w}
    OBVIOUS
  <1>5. pc \in {"seedRow", "seedWallets"} /\ m \in SUBSET WalletTypes
    BY <1>1, <1>2, <1>3, <1>4 DEF RunState
  <1>6. PICK x : x = [run[Script] EXCEPT !.missing = m, !.pc = pc]
    OBVIOUS
  <1>7. x \in RunState /\ x.pc = pc /\ x.missing = m
    BY <1>2, <1>5, <1>6 DEF RunState
  <1>8. run' = [run EXCEPT ![Script] = x]
    BY <1>3, <1>4, <1>6 DEF SeedWallet
  <1> QED
    BY <1>1, <1>3, <1>4, <1>7, <1>8

LEMMA SeedWalletLasts ==
    ASSUME TreeInv, UsersFirst, NEW w \in WalletTypes, SeedWallet(w)
    PROVE  Lasting /\ UsersFirst'
  <1>1. PICK x \in RunState :
            run' = [run EXCEPT ![Script] = x] /\ x.pc \in {"seedRow", "seedWallets"}
    BY SeedWalletIs
  <1>2. PICK W : W = {w}
    OBVIOUS
  <1>3. /\ Script \in Processes /\ UNCHANGED <<user, referral>> /\ Admin \in Users
        /\ W \in SUBSET WalletTypes /\ wallets' = [wallets EXCEPT ![Admin] = @ \cup W]
        /\ run[Script].pc = "seedWallets"
    BY <1>2 DEF Processes, Users, SeedWallet, At
  <1>4. user[Admin] # NoUser
    BY <1>3 DEF UsersFirst, SeedSees
  <1>5. SeedSees(x)
    BY <1>1, <1>4 DEF SeedSees
  <1> QED
    BY <1>1, <1>3, <1>4, <1>5, WalletsLast

LEMMA SeedReferralLasts ==
    ASSUME TreeInv, UsersFirst, SeedReferral
    PROVE  Lasting /\ UsersFirst'
  <1>1. /\ Script \in Processes /\ run[Script].pc = "seedRow" /\ run[Script].pc # "idle"
        /\ UNCHANGED <<user, wallets>> /\ Admin \in Users
    BY DEF Processes, Users, SeedReferral, At
  <1>2. user[Admin] # NoUser
    BY <1>1 DEF UsersFirst, SeedSees
  <1>3. CASE run' = [run EXCEPT ![Script] = Idle] /\ UNCHANGED referral
    <2>1. PICK x : x = Idle
      OBVIOUS
    <2>2. x \in RunState \cup {Idle} /\ x.pc = "idle"
      BY <2>1, IdleRun
    <2>3. SeedSees(x)
      BY <2>2, SeedSeesLittle
    <2> QED
      BY <1>1, <1>3, <2>1, <2>2, <2>3, RunsLast
  <1>4. CASE /\ referral[Admin] = NoReferral /\ Goto(Script, "seedSettings")
             /\ referral' = [referral EXCEPT ![Admin] = NewReferral(None, 0)]
    <2>1. PICK x \in RunState : run' = [run EXCEPT ![Script] = x] /\ x.pc = "seedSettings"
      BY <1>1, <1>4, GotoIs
    <2>2. PICK y : y = NewReferral(None, 0)
      OBVIOUS
    <2>3. y \in ReferralRow
      BY <2>2 DEF NewReferral, ReferralRow, NoCounts, Counts
    <2>4. SeedSees(x)
      BY <2>1, SeedSeesLittle
    <2> QED
      BY <1>1, <1>2, <1>4, <2>1, <2>2, <2>3, <2>4, RowsLast
  <1> QED
    BY <1>3, <1>4 DEF SeedReferral, HasRow

\* The backfill at a user: its wallets, its row, or the next user.
LEMMA FillingIs ==
    ASSUME NEW r \in RunState, NEW missing \in SUBSET WalletTypes
    PROVE  \E x \in RunState :
               /\ x = Filling(r, missing)
               /\ x.pc = IF missing # {} THEN "fill" ELSE IF r.sponsor = None THEN "next" ELSE "existing"
               /\ x.user = r.user /\ x.sponsor = r.sponsor /\ x.todo = r.todo /\ x.missing = missing
  <1>1. PICK pc : pc = IF missing # {} THEN "fill" ELSE IF r.sponsor = None THEN "next" ELSE "existing"
    OBVIOUS
  <1>2. pc \in {"fill", "next", "existing"}
    BY <1>1
  <1>3. PICK x : x = [r EXCEPT !.missing = missing, !.pc = pc]
    OBVIOUS
  <1>4. /\ x \in RunState /\ x.pc = pc /\ x.user = r.user /\ x.sponsor = r.sponsor
        /\ x.todo = r.todo /\ x.missing = missing
    BY <1>2, <1>3 DEF RunState
  <1>5. x = Filling(r, missing)
    BY <1>1, <1>3 DEF Filling
  <1> QED
    BY <1>1, <1>4, <1>5

LEMMA NextUserIs ==
    ASSUME TreeInv, NEW u \in Users, NextUser(u)
    PROVE  \E x \in RunState :
               /\ run' = [run EXCEPT ![Script] = x]
               /\ x.pc = IF WalletTypes \ wallets[u] # {} THEN "fill"
                         ELSE IF user[u].sponsor = None THEN "next" ELSE "existing"
               /\ x.user = u /\ x.sponsor = user[u].sponsor /\ x.todo = run[Script].todo \ {u}
               /\ x.missing = WalletTypes \ wallets[u]
  <1>1. Script \in Processes /\ run[Script].pc = "next" /\ u \in run[Script].todo
    BY DEF Processes, NextUser, At
  <1>2. run[Script] \in RunState /\ Knows(run[Script])
    BY <1>1, RunTypes DEF TreeInv, TreeTypes
  <1>3. user[u] # NoUser
    BY <1>1, <1>2 DEF Knows
  <1>4. user[u].sponsor \in Users \cup {None}
    BY <1>3 DEF TreeInv, TreeTypes, UserRow
  <1>5. PICK s, todo : s = user[u].sponsor /\ todo = run[Script].todo \ {u}
    OBVIOUS
  <1>6. PICK r : r = [run[Script] EXCEPT !.user = u, !.sponsor = s, !.todo = todo]
    OBVIOUS
  <1>7. r \in RunState /\ r.user = u /\ r.sponsor = s /\ r.todo = todo
    BY <1>2, <1>4, <1>5, <1>6 DEF RunState
  <1>8. PICK m \in SUBSET WalletTypes : m = WalletTypes \ wallets[u]
    OBVIOUS
  <1>9. PICK x \in RunState :
            /\ x = Filling(r, m)
            /\ x.pc = IF m # {} THEN "fill" ELSE IF r.sponsor = None THEN "next" ELSE "existing"
            /\ x.user = r.user /\ x.sponsor = r.sponsor /\ x.todo = r.todo /\ x.missing = m
    BY <1>7, FillingIs
  <1>10. run' = [run EXCEPT ![Script] = x]
    BY <1>5, <1>6, <1>8, <1>9 DEF NextUser
  <1> QED
    BY <1>5, <1>7, <1>8, <1>9, <1>10

LEMMA FillWalletIs ==
    ASSUME TreeInv, FillWallet(Script)
    PROVE  \E x \in RunState \cup {Idle}, w \in run[Script].missing :
               /\ run' = [run EXCEPT ![Script] = x]
               /\ wallets' = [wallets EXCEPT ![run[Script].user] = @ \cup {w}]
               /\ \/ x.pc = "idle"
                  \/ /\ x.pc = IF run[Script].missing \ {w} # {} THEN "fill"
                               ELSE IF run[Script].sponsor = None THEN "next" ELSE "existing"
                     /\ x.user = run[Script].user /\ x.sponsor = run[Script].sponsor
                     /\ x.todo = run[Script].todo /\ x.missing = run[Script].missing \ {w}
  <1>1. Script \in Processes /\ run[Script].pc = "fill"
    BY DEF Processes, FillWallet, At
  <1>2. PICK r : r = run[Script]
    OBVIOUS
  <1>3. r \in RunState /\ r.missing \in SUBSET WalletTypes
    BY <1>1, <1>2, RunTypes DEF TreeInv, TreeTypes, RunState
  <1>4. PICK w \in r.missing :
            /\ wallets' = [wallets EXCEPT ![r.user] = @ \cup {w}]
            /\ run' = [run EXCEPT ![Script] = IF w \in wallets[r.user] THEN Idle
                                              ELSE Filling(r, r.missing \ {w})]
    BY <1>2 DEF FillWallet
  <1>5. PICK m \in SUBSET WalletTypes : m = r.missing \ {w}
    BY <1>3
  <1>6. PICK x \in RunState :
            /\ x = Filling(r, m)
            /\ x.pc = IF m # {} THEN "fill" ELSE IF r.sponsor = None THEN "next" ELSE "existing"
            /\ x.user = r.user /\ x.sponsor = r.sponsor /\ x.todo = r.todo /\ x.missing = m
    BY <1>3, FillingIs
  <1>7. Idle \in RunState \cup {Idle} /\ Idle.pc = "idle"
    BY IdleRun
  <1>8. CASE w \in wallets[r.user]
    BY <1>2, <1>4, <1>7, <1>8
  <1>9. CASE w \notin wallets[r.user]
    BY <1>2, <1>4, <1>5, <1>6, <1>9
  <1> QED
    BY <1>8, <1>9

LEMMA BackfillLasts ==
    ASSUME TreeInv, UsersFirst, FillWallet(Script) \/ FindExisting \/ \E u \in Users : NextUser(u)
    PROVE  Lasting /\ UsersFirst'
  <1>1. Script \in Processes /\ UNCHANGED <<user, referral>>
    BY DEF Processes, FillWallet, FindExisting, NextUser
  <1>2. CASE FillWallet(Script)
    <2>1. PICK x \in RunState \cup {Idle}, w \in run[Script].missing :
              /\ run' = [run EXCEPT ![Script] = x]
              /\ wallets' = [wallets EXCEPT ![run[Script].user] = @ \cup {w}]
              /\ x.pc \in {"idle", "fill", "next", "existing"}
      BY <1>2, FillWalletIs
    <2>2. run[Script].pc = "fill"
      BY <1>2 DEF FillWallet, At
    <2>3. run[Script] \in RunState /\ run[Script].user \in Users /\ user[run[Script].user] # NoUser
      BY <1>1, <2>2, RunTypes DEF TreeInv, TreeTypes, Knows
    <2>4. PICK W : W = {w}
      OBVIOUS
    <2>5. W \in SUBSET WalletTypes
      BY <2>3, <2>4 DEF RunState
    <2>6. SeedSees(x)
      BY <2>1, SeedSeesLittle
    <2> QED
      BY <1>1, <2>1, <2>3, <2>4, <2>5, <2>6, WalletsLast
  <1>3. CASE FindExisting
    <2>1. run[Script].pc # "idle" /\ (Goto(Script, "next") \/ Goto(Script, "check"))
      BY <1>3 DEF FindExisting, At
    <2>2. PICK x \in RunState : run' = [run EXCEPT ![Script] = x] /\ x.pc \in {"next", "check"}
      BY <1>1, <2>1, GotoIs
    <2>3. SeedSees(x)
      BY <2>2, SeedSeesLittle
    <2> QED
      BY <1>1, <1>3, <2>2, <2>3, RunsLast DEF FindExisting
  <1>4. ASSUME NEW u \in Users, NextUser(u)
        PROVE  Lasting /\ UsersFirst'
    <2>1. PICK x \in RunState :
              run' = [run EXCEPT ![Script] = x] /\ x.pc \in {"fill", "next", "existing"}
      BY <1>4, NextUserIs
    <2>2. SeedSees(x)
      BY <2>1, SeedSeesLittle
    <2> QED
      BY <1>1, <1>4, <2>1, <2>2, RunsLast DEF NextUser
  <1> QED
    BY <1>2, <1>3, <1>4

LEMMA EndsLast ==
    ASSUME TreeInv, UsersFirst, SeedSettings \/ BackfillEnds
    PROVE  Lasting /\ UsersFirst'
  <1>1. /\ Script \in Processes /\ UNCHANGED <<user, wallets, referral>>
        /\ run' = [run EXCEPT ![Script] = Idle]
    BY DEF Processes, SeedSettings, BackfillEnds
  <1>2. PICK x : x = Idle
    OBVIOUS
  <1>3. x \in RunState \cup {Idle} /\ x.pc = "idle"
    BY <1>2, IdleRun
  <1>4. SeedSees(x)
    BY <1>3, SeedSeesLittle
  <1> QED
    BY <1>1, <1>2, <1>3, <1>4, RunsLast

\* A run that fails is over, or at the next user; only a signup leaves more
\* wallets than before.
LEMMA FailIs ==
    ASSUME TreeInv, NEW p \in Processes, Fail(p)
    PROVE  /\ run[p] \in RunState
           /\ \E x \in RunState \cup {Idle} : run' = [run EXCEPT ![p] = x] /\ Over(x, p)
           /\ \E W \in SUBSET WalletTypes :
                  /\ wallets' = [wallets EXCEPT ![run[p].user] = @ \cup W]
                  /\ run[p].pc # "wallets" => W = {}
  <1>1. run[p] # Idle
    BY DEF Fail
  <1>2. run[p] \in RunState /\ run[p].missing \in SUBSET WalletTypes
    BY <1>1 DEF TreeInv, TreeTypes, RunState
  <1>3. PICK W : /\ W \in SUBSET {w \in run[p].missing : At(p, "wallets")}
                 /\ wallets' = [wallets EXCEPT ![run[p].user] = @ \cup W]
    BY DEF Fail
  <1>4. W \in SUBSET WalletTypes /\ (run[p].pc # "wallets" => W = {})
    BY <1>2, <1>3 DEF At
  <1>5. PICK x : x = IF p = Script /\ run[p].pc \in InCreateReferral THEN Resume(p) ELSE Idle
    OBVIOUS
  <1>6. run' = [run EXCEPT ![p] = x]
    BY <1>5 DEF Fail
  <1>7. Resume(p) \in RunState /\ Resume(p).pc = "next" /\ Resume(p).todo = run[p].todo
    <2>1. PICK y : y = Resume(p)
      OBVIOUS
    <2>2. y \in RunState /\ y.pc = "next" /\ y.todo = run[p].todo
      BY <1>2, <2>1 DEF Resume, RunState
    <2> QED
      BY <2>1, <2>2
  <1>8. x \in RunState \cup {Idle} /\ Over(x, p)
    BY <1>5, <1>7, IdleRun DEF Over
  <1> QED
    BY <1>2, <1>3, <1>4, <1>6, <1>8

LEMMA FailLasts ==
    ASSUME TreeInv, UsersFirst, NEW p \in Processes, Fail(p)
    PROVE  Lasting /\ UsersFirst'
  <1>1. PICK x \in RunState \cup {Idle} : run' = [run EXCEPT ![p] = x] /\ Over(x, p)
    BY FailIs
  <1>2. PICK W \in SUBSET WalletTypes :
            /\ wallets' = [wallets EXCEPT ![run[p].user] = @ \cup W]
            /\ run[p].pc # "wallets" => W = {}
    BY FailIs
  <1>3. run[p] \in RunState /\ UNCHANGED <<user, referral>>
    BY FailIs DEF Fail, Broken
  <1>4. SeedSees(x)
    BY <1>1, SeedSeesLittle DEF Over
  <1>5. run[p].user \in Users
    BY <1>3 DEF RunState
  <1>6. CASE run[p].pc = "wallets"
    <2>1. user[run[p].user] # NoUser
      BY <1>6 DEF TreeInv, Knows
    <2> QED
      BY <1>1, <1>2, <1>3, <1>4, <1>5, <2>1, WalletsLast
  <1>7. CASE run[p].pc # "wallets"
    <2>1. UNCHANGED wallets
      BY <1>2, <1>5, <1>7 DEF UsersFirst
    <2> QED
      BY <1>1, <1>3, <1>4, <2>1, RunsLast
  <1> QED
    BY <1>6, <1>7

LEMMA CrashLasts ==
    ASSUME TreeInv, UsersFirst, NEW ps, Crash(ps)
    PROVE  Lasting /\ UsersFirst'
  <1>1. /\ UNCHANGED <<user, wallets, referral>> /\ Script \in Processes
        /\ run' = [p \in Processes |-> IF p \in ps THEN Idle ELSE run[p]]
    BY DEF Crash, Broken, Processes
  <1>2. Lasting
    BY <1>1 DEF Lasting, Grown
  <1>3. PICK r : r = run'[Script]
    OBVIOUS
  <1>4. r = Idle \/ r = run[Script]
    BY <1>1, <1>3
  <1>5. SeedSees(r)
    BY <1>4, IdleRun, SeedSeesLittle DEF UsersFirst
  <1>6. SeedSees(run[Script])'
    BY <1>1, <1>3, <1>5 DEF SeedSees
  <1> QED
    BY <1>1, <1>2, <1>6 DEF UsersFirst

LEMMA StepLasts ==
    ASSUME TreeInv, UsersFirst, [Next]_vars
    PROVE  Lasting /\ UsersFirst'
  <1>1. ASSUME NEW p \in Requests, Request(p)
        PROVE  Lasting /\ UsersFirst'
    <2>1. p \in Processes
      BY DEF Processes
    <2> QED
      BY <1>1, <2>1, SignupLasts, CreateWalletLasts, DepositLasts, CallsLast DEF Request
  <1>2. ASSUME NEW p \in Processes, CreateReferral(p) \/ Fail(p)
        PROVE  Lasting /\ UsersFirst'
    BY <1>2, CallsLast, FailLasts DEF CreateReferral
  <1>3. CASE Seed \/ Backfill \/ ScriptStep
    BY <1>3, StartsLast, SeedFindLasts, SeedUserLasts, SeedWalletLasts, SeedReferralLasts,
       EndsLast, BackfillLasts
    DEF ScriptStep
  <1>4. ASSUME NEW u \in Members, DeleteUser(u)
        PROVE  Lasting /\ UsersFirst'
    BY <1>4, DeleteUserLasts
  <1>5. CASE Crash(Requests) \/ Crash({Script})
    BY <1>5, CrashLasts
  <1>6. CASE UNCHANGED vars
    BY <1>6 DEF vars, Lasting, Grown, UsersFirst, SeedSees
  <1> QED
    BY <1>1, <1>2, <1>3, <1>4, <1>5, <1>6 DEF Next

\* Both invariants, for what builds on them.
GroundInv == TreeInv /\ UsersFirst

LEMMA GroundInit == Init => GroundInv
  BY InitHolds, FirstInit DEF GroundInv

LEMMA GroundNext == GroundInv /\ [Next]_vars => GroundInv'
  BY NextHolds, StepLasts DEF GroundInv

-------------------------------------------------------------------------------
(* What a backfill repairs *)

\* What the backfill owes a user, and how far it is with the one it is at:
\* while it has the database to itself nobody undoes what it found or made.
Repaired(u) ==
    /\ wallets[u] = WalletTypes
    /\ user[u].sponsor # None /\ ~user[user[u].sponsor].deleted => referral[u] # NoReferral

Underway(u, r) ==
    /\ u = r.user
    /\ \/ r.pc = "fill" /\ WalletTypes \subseteq wallets[u] \cup r.missing
       \/ /\ r.pc \in Creates \cup {"existing"}
          /\ wallets[u] = WalletTypes
          /\ r.pc = "root" => referral[r.sponsor] = NoReferral

Attended(u, r) == u \in r.todo \/ Repaired(u) \/ Underway(u, r)

Repairs == {"next", "fill", "existing"} \cup Creates \cup Climbs

RepairInv ==
    /\ alone /\ run[Script] # Idle => \A p \in Requests : run[p] = Idle
    /\ alone /\ run[Script].pc \in Repairs =>
           \A u \in Users : user[u] # NoUser => Attended(u, run[Script])

LEMMA RepairedStays ==
    ASSUME UsersFirst, UsersFirst', Lasting, UNCHANGED user, NEW u \in Users, Repaired(u)
    PROVE  Repaired(u)'
  BY DEF UsersFirst, Lasting, Grown, Repaired

\* Steps after which the script does not run, or is not alone.
LEMMA QuietRepair ==
    ASSUME alone' => run'[Script] = Idle
    PROVE  RepairInv'
  <1>1. Idle.pc \notin Repairs
    BY IdleRun DEF Repairs, Creates, Climbs
  <1> QED
    BY <1>1 DEF RepairInv

LEMMA ScriptRepair ==
    ASSUME TreeInv, RepairInv, NEW x \in RunState \cup {Idle}, run' = [run EXCEPT ![Script] = x],
           run[Script] # Idle, alone' => alone,
           alone /\ x.pc \in Repairs =>
               \A u \in Users : user'[u] # NoUser => Attended(u, x)'
    PROVE  RepairInv'
  <1>1. Script \in Processes /\ \A p \in Requests : p \in Processes /\ p # Script
    BY ScriptAssumption DEF Processes
  <1>2. run'[Script] = x /\ \A p \in Requests : run'[p] = run[p]
    BY <1>1 DEF TreeInv, TreeTypes
  <1>3. alone' /\ run'[Script] # Idle => \A p \in Requests : run'[p] = Idle
    BY <1>2 DEF RepairInv
  <1>4. ASSUME alone', run'[Script].pc \in Repairs, NEW u \in Users, user'[u] # NoUser
        PROVE  Attended(u, run[Script])'
    <2>1. Attended(u, x)'
      BY <1>2, <1>4
    <2> QED
      BY <1>2, <2>1 DEF Attended, Repaired, Underway
  <1> QED
    BY <1>3, <1>4 DEF RepairInv

\* A handler that works while the script does takes the database from it.
LEMMA HandlerRepair ==
    ASSUME TreeInv, RepairInv, NEW p \in Requests, NEW x, run' = [run EXCEPT ![p] = x],
           alone' => alone /\ (run[p] = Idle => run[Script] = Idle)
    PROVE  RepairInv'
  <1>1. run'[Script] = run[Script]
    BY ScriptAssumption DEF TreeInv, TreeTypes, Processes
  <1>2. alone' => run'[Script] = Idle
    BY <1>1 DEF RepairInv
  <1> QED
    BY <1>2, QuietRepair

LEMMA RequestRepair ==
    ASSUME GroundInv, RepairInv, NEW p \in Requests, Request(p)
    PROVE  RepairInv'
  <1>1. p \in Processes /\ p # Script /\ TreeInv
    BY ScriptAssumption DEF Processes, GroundInv
  <1>2. ASSUME NEW u \in Members, NEW s \in Users \cup {None}, Signup(p, u, s)
        PROVE  RepairInv'
    <2>1. PICK x \in RunState : run' = [run EXCEPT ![p] = x]
      BY <1>1, <1>2, SignupIs
    <2> QED
      BY <1>1, <1>2, <2>1, HandlerRepair DEF Signup, Others
  <1>3. ASSUME NEW u \in Members, Deposit(p, u)
        PROVE  RepairInv'
    <2>1. PICK x \in RunState : run' = [run EXCEPT ![p] = x]
      BY <1>1, <1>3, DepositIs
    <2> QED
      BY <1>1, <1>3, <2>1, HandlerRepair DEF Deposit, Others
  <1>4. ASSUME NEW w \in WalletTypes, CreateWallet(p, w)
        PROVE  RepairInv'
    <2>1. PICK x \in RunState \cup {Idle} : run' = [run EXCEPT ![p] = x]
      BY <1>1, <1>4, CreateWalletIs
    <2>2. run[p] # Idle /\ (alone' => alone)
      BY <1>4, IdleRun DEF CreateWallet, At, Others
    <2> QED
      BY <1>1, <2>1, <2>2, HandlerRepair
  <1>5. CASE FindDepositor(p) \/ UpdateSponsorStats(p)
    <2>1. PICK x \in RunState \cup {Idle} : run' = [run EXCEPT ![p] = x]
      BY <1>1, <1>5, CallsAre
    <2>2. run[p] # Idle
      BY <1>5, IdleRun DEF FindDepositor, UpdateSponsorStats, At
    <2>3. alone' => alone
      BY <1>5 DEF FindDepositor, UpdateSponsorStats, Others
    <2> QED
      BY <1>1, <2>1, <2>2, <2>3, HandlerRepair
  <1> QED
    BY <1>2, <1>3, <1>4, <1>5 DEF Request

LEMMA CallsAlone ==
    ASSUME NEW p \in Processes, CreateReferral(p)
    PROVE  run[p] # Idle /\ (alone' => alone) /\ UNCHANGED <<user, wallets>>
  <1>1. run[p].pc # "idle"
    BY DEF CreateReferral, CheckReferral, FindSponsorRow, CreateRoot, CreateRow, CountDirect, Walk, At
  <1>2. alone' => alone
    <2>1. CASE CheckReferral(p) \/ FindSponsorRow(p)
      BY <2>1 DEF CheckReferral, FindSponsorRow, observed
    <2>2. CASE CreateRoot(p) \/ CreateRow(p) \/ CountDirect(p) \/ Walk(p)
      BY <2>2 DEF CreateRoot, CreateRow, CountDirect, Walk, Others
    <2> QED
      BY <2>1, <2>2 DEF CreateReferral
  <1>3. UNCHANGED <<user, wallets>>
    BY DEF CreateReferral, CheckReferral, FindSponsorRow, CreateRoot, CreateRow, CountDirect, Walk
  <1> QED
    BY <1>1, <1>2, <1>3, IdleRun

LEMMA CallsRepair ==
    ASSUME GroundInv, RepairInv, NEW p \in Requests, CreateReferral(p)
    PROVE  RepairInv'
  <1>1. p \in Processes /\ TreeInv
    BY DEF Processes, GroundInv
  <1>2. PICK x \in RunState \cup {Idle} : run' = [run EXCEPT ![p] = x]
    BY <1>1, CallsAre DEF CreateReferral
  <1> QED
    BY <1>1, <1>2, CallsAlone, HandlerRepair

\* The script goes on with the user a it is at.
LEMMA GoesOn ==
    ASSUME GroundInv, RepairInv, Lasting, UsersFirst', UNCHANGED user, run[Script] # Idle,
           run[Script].pc \in Repairs, alone' => alone,
           NEW x \in RunState \cup {Idle}, run' = [run EXCEPT ![Script] = x],
           x.pc \in Repairs => x.todo = run[Script].todo,
           NEW a \in Users, a = run[Script].user,
           alone /\ x.pc \in Repairs /\ Underway(a, run[Script]) => Attended(a, x)'
    PROVE  RepairInv'
  <1>1. TreeInv /\ UsersFirst
    BY DEF GroundInv
  <1>2. ASSUME alone, x.pc \in Repairs, NEW u \in Users, user'[u] # NoUser
        PROVE  Attended(u, x)'
    <2>1. u \in run[Script].todo \/ Repaired(u) \/ Underway(u, run[Script])
      BY <1>2 DEF RepairInv, Attended
    <2>2. CASE u \in run[Script].todo
      BY <1>2, <2>2 DEF Attended
    <2>3. CASE Repaired(u)
      <3>1. Repaired(u)'
        BY <1>1, <2>3, RepairedStays
      <3> QED
        BY <3>1 DEF Attended
    <2>4. CASE Underway(u, run[Script])
      <3>1. u = a
        BY <2>4 DEF Underway
      <3> QED
        BY <1>2, <2>4, <3>1
    <2> QED
      BY <2>1, <2>2, <2>3, <2>4
  <1> QED
    BY <1>1, <1>2, ScriptRepair

\* Creating the row, each call keeps what it saw, and leaves the user with its
\* row or with a sponsor that is deleted.
LEMMA ScriptCallsRepair ==
    ASSUME GroundInv, RepairInv, CreateReferral(Script), Lasting, UsersFirst'
    PROVE  RepairInv'
  <1>1. /\ Script \in Processes /\ TreeInv /\ UsersFirst /\ run[Script] # Idle
        /\ (alone' => alone) /\ UNCHANGED <<user, wallets>>
    BY CallsAlone DEF Processes, GroundInv
  <1>2. PICK r : r = run[Script]
    OBVIOUS
  <1>3. r \in RunState /\ r.pc # "idle" /\ Knows(r)
    BY <1>1, <1>2 DEF TreeInv, TreeTypes, RunState
  <1>4. PICK a, s : a = r.user /\ s = r.sponsor
    OBVIOUS
  <1>5. a \in Users
    BY <1>3, <1>4 DEF RunState
  <1>6. ASSUME NEW x \in RunState \cup {Idle}, run' = [run EXCEPT ![Script] = x],
               r.pc \in Repairs, x.pc \in Repairs => x.todo = r.todo,
               alone /\ x.pc \in Repairs /\ Underway(a, r) => Attended(a, x)'
        PROVE  RepairInv'
    BY <1>1, <1>2, <1>4, <1>5, <1>6, GoesOn
  <1>7. r.pc \in Climbs => ~Underway(a, r)
    BY DEF Underway, Creates, Climbs
  <1>8. r.pc \in Creates =>
            /\ s \in Users /\ s # None /\ s = user[a].sponsor
            /\ Underway(a, r) => wallets'[a] = WalletTypes
                                 /\ (r.pc = "root" => referral[s] = NoReferral)
    BY <1>1, <1>3, <1>4, RunTypes DEF Knows, Creates, Underway
  <1>9. ASSUME Done(Script), r.pc \in Repairs, Underway(a, r) => Repaired(a)'
        PROVE  RepairInv'
    <2>1. PICK x \in RunState \cup {Idle} : run' = [run EXCEPT ![Script] = x] /\ Over(x, Script)
      BY <1>1, <1>2, <1>3, <1>9, DoneIs
    <2>2. x.pc \in Repairs => x.todo = r.todo
      BY <1>2, <2>1 DEF Over, Repairs, Creates, Climbs
    <2> QED
      BY <1>6, <1>9, <2>1, <2>2 DEF Attended
  <1>10. ASSUME NEW pc \in {"sponsorRow", "root", "row", "walk"}, Goto(Script, pc),
                r.pc \in Repairs, pc = "walk" => r.pc \in Climbs,
                pc = "root" => referral'[s] = NoReferral, pc # "walk" => r.pc \in Creates
         PROVE  RepairInv'
    <2>1. PICK x \in RunState :
              /\ run' = [run EXCEPT ![Script] = x] /\ x.pc = pc /\ x.user = a /\ x.sponsor = s
              /\ x.todo = r.todo
      BY <1>1, <1>2, <1>3, <1>4, <1>10, GotoIs
    <2>2. Underway(a, r) => Underway(a, x)'
      BY <1>7, <1>8, <1>10, <2>1 DEF Underway, Creates
    <2> QED
      BY <1>6, <1>10, <2>1, <2>2 DEF Attended
  <1>11. CASE CheckReferral(Script)
    <2>1. r.pc = "check" /\ UNCHANGED referral
      BY <1>2, <1>11 DEF CheckReferral, At
    <2>2. \/ Done(Script) /\ (referral[a] # NoReferral \/ user[s].deleted)
          \/ Goto(Script, "sponsorRow")
      BY <1>2, <1>4, <1>11 DEF CheckReferral, HasRow
    <2>3. Underway(a, r) /\ (referral[a] # NoReferral \/ user[s].deleted) => Repaired(a)'
      BY <1>1, <1>8, <2>1 DEF Repaired, Creates
    <2> QED
      BY <1>9, <1>10, <2>1, <2>2, <2>3 DEF Repairs, Creates
  <1>12. CASE FindSponsorRow(Script)
    <2>1. r.pc = "sponsorRow" /\ UNCHANGED referral
      BY <1>2, <1>12 DEF FindSponsorRow, At
    <2>2. Goto(Script, "row") \/ (Goto(Script, "root") /\ referral[s] = NoReferral)
      BY <1>2, <1>4, <1>12 DEF FindSponsorRow, HasRow
    <2> QED
      BY <1>10, <2>1, <2>2 DEF Repairs, Creates
  <1>13. CASE CreateRoot(Script)
    <2>1. r.pc = "root"
      BY <1>2, <1>13 DEF CreateRoot, At
    <2>2. Goto(Script, "row") \/ (Done(Script) /\ referral[s] # NoReferral)
      BY <1>2, <1>4, <1>13 DEF CreateRoot, HasRow
    <2>3. referral[s] # NoReferral => ~Underway(a, r)
      BY <1>8, <2>1 DEF Creates
    <2> QED
      BY <1>9, <1>10, <2>1, <2>2, <2>3 DEF Repairs, Creates
  <1>14. CASE CreateRow(Script)
    <2>1. r.pc = "row"
      BY <1>2, <1>14 DEF CreateRow, At
    <2>2. s \in Users
      BY <1>8, <2>1 DEF Creates
    <2>3. CASE Done(Script) /\ referral[a] # NoReferral /\ UNCHANGED referral
      <3>1. Underway(a, r) => Repaired(a)'
        BY <1>8, <2>1, <2>3 DEF Repaired, Creates
      <3> QED
        BY <1>9, <2>1, <2>3, <3>1 DEF Repairs, Creates
    <2>4. CASE /\ run' = [run EXCEPT ![Script].pc = "own", ![Script].at = s]
               /\ referral' = [referral EXCEPT ![a] = NewReferral(s, referral[s].level + 1)]
      <3>1. PICK x \in RunState :
                run' = [run EXCEPT ![Script] = x] /\ x.pc \in {"own", "walk"} /\ x.todo = r.todo
        BY <1>1, <1>2, <1>3, <2>2, <2>4, AtIs
      <3>2. PICK y : y = NewReferral(s, referral[s].level + 1)
        OBVIOUS
      <3>3. "level" \in DOMAIN y /\ "level" \notin DOMAIN NoReferral
        BY <3>2 DEF NewReferral, NoReferral
      <3>4. referral'[a] # NoReferral
        BY <1>1, <1>5, <2>4, <3>2, <3>3 DEF TreeInv, TreeTypes
      <3>5. Underway(a, r) => Repaired(a)'
        BY <1>8, <2>1, <3>4 DEF Repaired, Creates
      <3> QED
        BY <1>6, <2>1, <3>1, <3>5 DEF Attended, Repairs, Creates
    <2> QED
      BY <1>2, <1>4, <1>14, <2>3, <2>4 DEF CreateRow, HasRow
  <1>15. CASE CountDirect(Script)
    <2>1. r.pc = "own" /\ Goto(Script, "walk")
      BY <1>2, <1>15 DEF CountDirect, At
    <2> QED
      BY <1>10, <2>1 DEF Repairs, Climbs
  <1>16. CASE Walk(Script)
    <2>1. r.pc = "walk" /\ r.at \in Users /\ referral[r.at] # NoReferral
      BY <1>2, <1>3, <1>16 DEF Walk, At, Knows, Climbs
    <2>2. PICK b : b = referral[r.at].sponsor
      OBVIOUS
    <2>3. b = None \/ b \in Users
      BY <1>1, <2>1, <2>2 DEF TreeInv, Placed
    <2>4. CASE Done(Script)
      BY <1>7, <1>9, <2>1, <2>4 DEF Repairs, Climbs
    <2>5. CASE b # None /\ run' = [run EXCEPT ![Script].at = b]
      <3>1. PICK x \in RunState :
                run' = [run EXCEPT ![Script] = x] /\ x.pc \in {"own", "walk"} /\ x.todo = r.todo
        BY <1>1, <1>2, <1>3, <2>1, <2>3, <2>5, AtIs
      <3> QED
        BY <1>6, <1>7, <2>1, <3>1 DEF Repairs, Climbs
    <2> QED
      BY <1>2, <1>16, <2>2, <2>4, <2>5 DEF Walk
  <1> QED
    BY <1>11, <1>12, <1>13, <1>14, <1>15, <1>16 DEF CreateReferral

\* The other steps of the backfill: from user to user, and through the wallets
\* of one.
LEMMA BackfillRepair ==
    ASSUME GroundInv, RepairInv, Lasting, UsersFirst',
           FillWallet(Script) \/ FindExisting \/ \E u \in Users : NextUser(u)
    PROVE  RepairInv'
  <1>1. TreeInv /\ UsersFirst /\ Script \in Processes /\ UNCHANGED user
    BY DEF GroundInv, Processes, FillWallet, FindExisting, NextUser
  <1>2. alone' => alone
    BY DEF FillWallet, FindExisting, NextUser, observed
  <1>3. PICK r : r = run[Script]
    OBVIOUS
  <1>4. r.pc \in {"next", "fill", "existing"}
    BY <1>3 DEF FillWallet, FindExisting, NextUser, At
  <1>5. /\ r # Idle /\ r.pc # "idle" /\ r.pc \in Repairs /\ r \in RunState /\ r.user \in Users
        /\ Knows(r)
    BY <1>1, <1>3, <1>4, IdleRun, RunTypes DEF Repairs, TreeInv, TreeTypes
  <1>6. CASE FillWallet(Script)
    <2>1. PICK x \in RunState \cup {Idle}, w \in r.missing :
              /\ run' = [run EXCEPT ![Script] = x]
              /\ wallets' = [wallets EXCEPT ![r.user] = @ \cup {w}]
              /\ \/ x.pc = "idle"
                 \/ /\ x.pc = IF r.missing \ {w} # {} THEN "fill"
                              ELSE IF r.sponsor = None THEN "next" ELSE "existing"
                    /\ x.user = r.user /\ x.sponsor = r.sponsor
                    /\ x.todo = r.todo /\ x.missing = r.missing \ {w}
      BY <1>1, <1>3, <1>6, FillWalletIs
    <2>2. PICK a : a = r.user
      OBVIOUS
    <2>3. r.pc = "fill" /\ UNCHANGED referral
      BY <1>3, <1>6 DEF FillWallet, At
    <2>4. a \in Users /\ r.sponsor = user[a].sponsor
      BY <1>5, <2>2, <2>3 DEF Knows
    <2>5. wallets'[a] = wallets[a] \cup {w} /\ wallets'[a] \in SUBSET WalletTypes
      BY <1>1, <2>1, <2>2, <2>4 DEF UsersFirst
    <2>6. ASSUME x.pc # "idle", Underway(a, r)
          PROVE  Attended(a, x)'
      <3>1. WalletTypes \subseteq wallets[a] \cup r.missing
        BY <2>3, <2>6 DEF Underway, Creates
      <3>2. WalletTypes \subseteq wallets'[a] \cup (r.missing \ {w})
        BY <2>5, <3>1
      <3>3. CASE r.missing \ {w} # {}
        BY <2>1, <2>2, <2>6, <3>2, <3>3 DEF Attended, Underway
      <3>4. CASE r.missing \ {w} = {}
        <4>1. wallets'[a] = WalletTypes
          BY <2>5, <3>2, <3>4
        <4>2. CASE r.sponsor = None
          BY <1>1, <2>4, <4>1, <4>2 DEF Attended, Repaired
        <4>3. CASE r.sponsor # None
          <5>1. x.pc = "existing" /\ x.user = a
            BY <2>1, <2>2, <2>6, <3>4, <4>3
          <5> QED
            BY <4>1, <5>1 DEF Attended, Underway
        <4> QED
          BY <4>2, <4>3
      <3> QED
        BY <3>3, <3>4
    <2>7. x.pc \in Repairs => x.pc # "idle"
      BY DEF Repairs, Creates, Climbs
    <2>8. x.pc \in Repairs => x.todo = run[Script].todo
      BY <1>3, <2>1, <2>7
    <2> QED
      BY <1>1, <1>2, <1>3, <1>5, <2>1, <2>2, <2>4, <2>6, <2>7, <2>8, GoesOn
  <1>7. CASE FindExisting
    <2>1. PICK a : a = r.user
      OBVIOUS
    <2>2. /\ r.pc = "existing" /\ UNCHANGED <<wallets, referral>> /\ a \in Users
          /\ Goto(Script, IF referral[a] # NoReferral THEN "next" ELSE "check")
      BY <1>3, <1>5, <1>7, <2>1 DEF FindExisting, At, HasRow
    <2>3. PICK pc : pc = IF referral[a] # NoReferral THEN "next" ELSE "check"
      OBVIOUS
    <2>4. PICK x \in RunState :
              run' = [run EXCEPT ![Script] = x] /\ x.pc = pc /\ x.user = a /\ x.todo = r.todo
      BY <1>1, <1>3, <1>5, <2>1, <2>2, <2>3, GotoIs
    <2>5. ASSUME Underway(a, r)
          PROVE  Attended(a, x)'
      <3>1. wallets[a] = WalletTypes
        BY <2>2, <2>5 DEF Underway
      <3>2. CASE referral[a] # NoReferral
        BY <2>2, <3>1, <3>2 DEF Attended, Repaired
      <3>3. CASE referral[a] = NoReferral
        BY <2>2, <2>3, <2>4, <3>1, <3>3 DEF Attended, Underway, Creates
      <3> QED
        BY <3>2, <3>3
    <2> QED
      BY <1>1, <1>2, <1>3, <1>5, <2>1, <2>2, <2>4, <2>5, GoesOn
  <1>8. ASSUME NEW a \in Users, NextUser(a)
        PROVE  RepairInv'
    <2>1. r.pc = "next" /\ UNCHANGED <<wallets, referral>>
      BY <1>3, <1>8 DEF NextUser, At
    <2>2. PICK x \in RunState :
              /\ run' = [run EXCEPT ![Script] = x]
              /\ x.pc = IF WalletTypes \ wallets[a] # {} THEN "fill"
                        ELSE IF user[a].sponsor = None THEN "next" ELSE "existing"
              /\ x.user = a /\ x.sponsor = user[a].sponsor /\ x.todo = r.todo \ {a}
              /\ x.missing = WalletTypes \ wallets[a]
      BY <1>1, <1>3, <1>8, NextUserIs
    <2>3. Attended(a, x)'
      <3>1. wallets[a] \in SUBSET WalletTypes
        BY <1>1 DEF UsersFirst
      <3>2. CASE WalletTypes \ wallets[a] # {}
        BY <2>1, <2>2, <3>1, <3>2 DEF Attended, Underway
      <3>3. CASE WalletTypes \ wallets[a] = {}
        <4>1. wallets[a] = WalletTypes
          BY <3>1, <3>3
        <4>2. CASE user[a].sponsor = None
          BY <1>1, <2>1, <4>1, <4>2 DEF Attended, Repaired
        <4>3. CASE user[a].sponsor # None
          <5>1. x.pc = "existing"
            BY <2>2, <3>3, <4>3
          <5> QED
            BY <2>1, <2>2, <4>1, <5>1 DEF Attended, Underway
        <4> QED
          BY <4>2, <4>3
      <3> QED
        BY <3>2, <3>3
    <2>4. ASSUME alone, NEW u \in Users, user'[u] # NoUser
          PROVE  Attended(u, x)'
      <3>1. CASE u = a
        BY <2>3, <3>1
      <3>2. CASE u # a
        <4>1. u \in r.todo \/ Repaired(u) \/ Underway(u, r)
          BY <1>1, <1>3, <1>5, <2>4 DEF RepairInv, Attended
        <4>2. ~Underway(u, r)
          BY <2>1 DEF Underway, Creates
        <4>3. Repaired(u) => Repaired(u)'
          BY <1>1, RepairedStays
        <4> QED
          BY <2>2, <3>2, <4>1, <4>2, <4>3 DEF Attended
      <3> QED
        BY <3>1, <3>2
    <2> QED
      BY <1>1, <1>2, <1>3, <1>5, <2>2, <2>4, ScriptRepair
  <1> QED
    BY <1>6, <1>7, <1>8

\* The backfill begins with every user to see, and the seed script repairs
\* nobody.
LEMMA StartRepair ==
    ASSUME GroundInv, RepairInv, Seed \/ Backfill
    PROVE  RepairInv'
  <1>1. PICK pc, todo : /\ pc \in {"next", "seedFind"} /\ todo \in SUBSET Users
                        /\ StartScript(pc, todo)
                        /\ pc = "next" => todo = {u \in Users : user[u] # NoUser}
    BY DEF Seed, Backfill
  <1>2. PICK x \in RunState : run' = [run EXCEPT ![Script] = x] /\ x.pc = pc /\ x.todo = todo
    BY <1>1, StartIs
  <1>3. Script \in Processes /\ UNCHANGED user /\ \A p \in Requests : p \in Processes /\ p # Script
    BY ScriptAssumption DEF Processes, Seed, Backfill
  <1>4. run'[Script] = x /\ \A p \in Requests : run'[p] = run[p]
    BY <1>2, <1>3 DEF GroundInv, TreeInv, TreeTypes
  <1>5. alone' => \A p \in Requests : run'[p] = Idle
    BY <1>1, <1>4 DEF StartScript
  <1>6. ASSUME run'[Script].pc \in Repairs, NEW u \in Users, user'[u] # NoUser
        PROVE  Attended(u, run[Script])'
    <2>1. pc = "next"
      BY <1>1, <1>2, <1>4, <1>6 DEF Repairs, Creates, Climbs
    <2>2. u \in x.todo
      BY <1>1, <1>2, <1>3, <1>6, <2>1
    <2> QED
      BY <1>4, <2>2 DEF Attended
  <1> QED
    BY <1>5, <1>6 DEF RepairInv

LEMMA SeedRepair ==
    ASSUME GroundInv, RepairInv,
           SeedFind \/ SeedUser \/ SeedReferral \/ SeedSettings \/ BackfillEnds
           \/ \E w \in WalletTypes : SeedWallet(w)
    PROVE  RepairInv'
  <1>1. TreeInv /\ Script \in Processes
    BY DEF GroundInv, Processes
  <1>2. ASSUME NEW x \in RunState, run' = [run EXCEPT ![Script] = x], run[Script].pc # "idle",
               x.pc \in Seeds, alone' => alone
        PROVE  RepairInv'
    <2>1. x.pc \notin Repairs
      BY <1>2 DEF Seeds, Repairs, Creates, Climbs
    <2>2. run[Script] # Idle
      BY <1>2, IdleRun
    <2> QED
      BY <1>1, <1>2, <2>1, <2>2, ScriptRepair
  <1>3. CASE run' = [run EXCEPT ![Script] = Idle]
    <2>1. run'[Script] = Idle
      BY <1>1, <1>3 DEF TreeInv, TreeTypes
    <2> QED
      BY <2>1, QuietRepair
  <1>4. CASE SeedSettings \/ BackfillEnds
    BY <1>3, <1>4 DEF SeedSettings, BackfillEnds
  <1>5. CASE SeedFind
    <2>1. run[Script].pc = "seedFind" /\ (alone' => alone)
      BY <1>5 DEF SeedFind, At, observed
    <2>2. CASE run' = [run EXCEPT ![Script] = [run[Script] EXCEPT !.pc = "seedUser"]]
      <3>1. PICK x : x = [run[Script] EXCEPT !.pc = "seedUser"]
        OBVIOUS
      <3>2. run[Script] \in RunState
        BY <1>1, <2>1, RunTypes DEF TreeInv, TreeTypes
      <3>3. x \in RunState /\ x.pc = "seedUser"
        BY <3>1, <3>2 DEF RunState
      <3> QED
        BY <1>2, <2>1, <2>2, <3>1, <3>3 DEF Seeds
    <2> QED
      BY <1>3, <1>5, <2>2 DEF SeedFind
  <1>6. CASE SeedUser
    <2>1. run[Script].pc = "seedUser" /\ (alone' => alone)
      BY <1>6 DEF SeedUser, SeedStep, At
    <2>2. PICK x \in RunState : run' = [run EXCEPT ![Script] = x] /\ x.pc = "seedWallets"
      BY <1>1, <1>6, SeedUserIs
    <2> QED
      BY <1>2, <2>1, <2>2 DEF Seeds
  <1>7. ASSUME NEW w \in WalletTypes, SeedWallet(w)
        PROVE  RepairInv'
    <2>1. run[Script].pc = "seedWallets" /\ (alone' => alone)
      BY <1>7 DEF SeedWallet, At, observed
    <2>2. PICK x \in RunState :
              run' = [run EXCEPT ![Script] = x] /\ x.pc \in {"seedRow", "seedWallets"}
      BY <1>1, <1>7, SeedWalletIs
    <2> QED
      BY <1>2, <2>1, <2>2 DEF Seeds
  <1>8. CASE SeedReferral
    <2>1. run[Script].pc = "seedRow" /\ run[Script].pc # "idle" /\ (alone' => alone)
      BY <1>8 DEF SeedReferral, At
    <2>2. CASE Goto(Script, "seedSettings")
      <3>1. PICK x \in RunState : run' = [run EXCEPT ![Script] = x] /\ x.pc = "seedSettings"
        BY <1>1, <2>1, <2>2, GotoIs
      <3> QED
        BY <1>2, <2>1, <3>1 DEF Seeds
    <2> QED
      BY <1>3, <1>8, <2>2 DEF SeedReferral
  <1> QED
    BY <1>4, <1>5, <1>6, <1>7, <1>8

LEMMA RepairInit == Init => RepairInv
  BY DEF Init, RepairInv

LEMMA RepairNext == GroundInv /\ RepairInv /\ [Next]_vars => RepairInv'
  <1> SUFFICES ASSUME GroundInv, RepairInv, [Next]_vars
               PROVE  RepairInv'
    OBVIOUS
  <1>1. Lasting /\ UsersFirst'
    BY StepLasts DEF GroundInv
  <1>2. ASSUME NEW p \in Requests, Request(p)
        PROVE  RepairInv'
    BY <1>2, RequestRepair
  <1>3. ASSUME NEW p \in Processes, CreateReferral(p)
        PROVE  RepairInv'
    BY <1>1, <1>3, CallsRepair, ScriptCallsRepair DEF Processes
  <1>4. CASE ~alone'
    BY <1>4, QuietRepair
  <1>5. ASSUME NEW p \in Processes, Fail(p)
        PROVE  ~alone'
    BY <1>5 DEF Fail, Broken
  <1>6. ASSUME NEW u \in Members, DeleteUser(u)
        PROVE  ~alone'
    BY <1>6 DEF DeleteUser
  <1>7. CASE Crash(Requests) \/ Crash({Script})
    BY <1>4, <1>7 DEF Crash, Broken
  <1>8. CASE Seed \/ Backfill
    BY <1>8, StartRepair
  <1>9. CASE ScriptStep
    BY <1>1, <1>9, SeedRepair, BackfillRepair DEF ScriptStep
  <1>10. CASE UNCHANGED vars
    BY <1>10 DEF vars, observed, RepairInv, Attended, Repaired, Underway
  <1> QED
    BY <1>2, <1>3, <1>4, <1>5, <1>6, <1>7, <1>8, <1>9, <1>10 DEF Next

LEMMA RepairMeans ==
    ASSUME GroundInv, RepairInv, BackfillEnds, alone, NEW u \in Users, user[u] # NoUser
    PROVE  Repaired(u)
  <1>1. run[Script].pc = "next" /\ run[Script].todo = {}
    BY DEF BackfillEnds, At
  <1>2. Attended(u, run[Script])
    BY <1>1 DEF RepairInv, Repairs
  <1> QED
    BY <1>1, <1>2 DEF Attended, Underway, Creates

\* A backfill that ends having had the database to itself leaves every user
\* with all its wallets and, unless its sponsor is deleted, with its row, for
\* any number of users and whatever state failed signups had left them in.
THEOREM BackfillMends == Spec => BackfillRepairs
  <1>1. GroundInv /\ RepairInv /\ [Next]_vars =>
            [BackfillEnds /\ alone =>
                \A u \in Users : user[u] # NoUser =>
                    /\ wallets[u] = WalletTypes
                    /\ user[u].sponsor # None /\ ~user[user[u].sponsor].deleted => HasRow(u)]_vars
    BY RepairMeans DEF Repaired, HasRow
  <1> QED
    BY <1>1, GroundInit, GroundNext, RepairInit, RepairNext, PTL DEF Spec, BackfillRepairs

-------------------------------------------------------------------------------
(* Who takes care of a user *)

\* A user has what its signup owes it, the seed script is making its wallets,
\* or a handler is on its way: without the script beside it, with all its
\* wallets to make or made, the only one to make the user's row, and past the
\* search the only one to make the sponsor's.
Served(u) ==
    /\ wallets[u] = WalletTypes
    /\ user[u].sponsor # None =>
           \/ referral[u] # NoReferral /\ referral[u].sponsor = user[u].sponsor
           \/ user[user[u].sponsor].deleted

Seeded(u) ==
    /\ u = Admin /\ run[Script].pc = "seedWallets"
    /\ WalletTypes \subseteq wallets[u] \cup run[Script].missing

Working == Creates \cup {"wallets"}
Works(q, u) == run[q].pc \in Working /\ run[q].user = u
Roots(q, s) == run[q].pc = "root" /\ run[q].sponsor = s

Carries(p, u) ==
    /\ Works(p, u)
    /\ run[Script] = Idle
    /\ referral[u] = NoReferral
    /\ run[p].pc = "wallets" => run[p].missing = WalletTypes \ wallets[u]
    /\ run[p].pc \in Creates => wallets[u] = WalletTypes
    /\ \A v \in Users : user[v] # NoUser => user[v].sponsor # u
    /\ \A q \in Processes \ {p} : ~Works(q, u)
    /\ run[p].pc = "root" =>
           /\ referral[run[p].sponsor] = NoReferral
           /\ \A q \in Processes \ {p} : ~Works(q, run[p].sponsor) /\ ~Roots(q, run[p].sponsor)

Safe(u) == Served(u) \/ Seeded(u) \/ \E p \in Requests : Carries(p, u)

LostInv ==
    \A u \in Users : user[u] # NoUser /\ u \notin failed \cup raced \cup early => Safe(u)

LEMMA LostInit == Init => LostInv
  BY DEF Init, LostInv

LEMMA LostMeans == GroundInv /\ LostInv => NobodyIsLost
  <1> SUFFICES ASSUME GroundInv, LostInv, NEW u \in Users, user[u] # NoUser,
                      \A p \in Processes : run[p] # Idle => run[p].user # u,
                      u \notin failed \cup raced \cup early
               PROVE  Served(u)
    BY DEF NobodyIsLost, Served, HasRow
  <1>1. ASSUME NEW p \in Processes, run[p].user = u
        PROVE  run[p].pc = "idle"
    BY <1>1, IdleRun
  <1>2. ~Seeded(u)
    <2>1. SUFFICES ASSUME Seeded(u) PROVE FALSE
      OBVIOUS
    <2>2. Script \in Processes /\ run[Script].pc = "seedWallets" /\ u = Admin
      BY <2>1 DEF Seeded, Processes
    <2>3. run[Script].user = Admin
      BY <2>2 DEF GroundInv, TreeInv, Knows
    <2> QED
      BY <1>1, <2>2, <2>3
  <1>3. ASSUME NEW p \in Requests
        PROVE  ~Carries(p, u)
    BY <1>1 DEF Carries, Works, Working, Creates, Processes
  <1> QED
    BY <1>2, <1>3 DEF LostInv, Safe

LEMMA ServedStays ==
    ASSUME GroundInv, Lasting, UsersFirst', NEW u \in Users, user[u] # NoUser, Served(u)
    PROVE  Served(u)'
  <1>1. PICK s : s = user[u].sponsor
    OBVIOUS
  <1>2. s \in Users \cup {None} /\ (s # None => s \in Users /\ user[s] # NoUser)
    BY <1>1 DEF GroundInv, TreeInv, TreeTypes, UserRow, UsersFirst
  <1>3. user'[u].sponsor = s
    BY <1>1 DEF Lasting, Grown
  <1>4. wallets'[u] = WalletTypes
    BY DEF Served, Lasting, UsersFirst
  <1>5. CASE referral[u] # NoReferral /\ referral[u].sponsor = s
    BY <1>3, <1>4, <1>5 DEF Served, Lasting, Grown
  <1>6. CASE s # None /\ user[s].deleted
    BY <1>2, <1>3, <1>4, <1>6 DEF Served, Lasting
  <1>7. CASE s = None
    BY <1>3, <1>4, <1>7 DEF Served
  <1> QED
    BY <1>1, <1>5, <1>6, <1>7 DEF Served

LEMMA CarriesStays ==
    ASSUME NEW q \in Requests, NEW u \in Users, Carries(q, u),
           run'[q] = run[q], run'[Script] = run[Script],
           referral'[u] = NoReferral, wallets'[u] = wallets[u],
           \A v \in Users : user'[v] # NoUser => user'[v].sponsor # u,
           \A r \in Processes \ {q} : ~Works(r, u)',
           run[q].pc = "root" =>
               /\ referral'[run[q].sponsor] = NoReferral
               /\ \A r \in Processes \ {q} :
                      /\ ~(run'[r].pc \in Working /\ run'[r].user = run[q].sponsor)
                      /\ ~(run'[r].pc = "root" /\ run'[r].sponsor = run[q].sponsor)
    PROVE  Carries(q, u)'
  BY DEF Carries, Works, Roots

\* The sponsor of a user that is worked on.
LEMMA SponsorIs ==
    ASSUME GroundInv, NEW q \in Processes, NEW u \in Users, Works(q, u)
    PROVE  /\ user[u] # NoUser /\ run[q].sponsor = user[u].sponsor /\ run[q] \in RunState
           /\ run[q].pc # "wallets" => run[q].sponsor \in Users /\ user[run[q].sponsor] # NoUser
  <1>1. run[q].pc \in Creates \cup {"wallets"} /\ run[q].user = u /\ run[q].pc # "idle"
    BY DEF Works, Working, Creates
  <1>2. Knows(run[q]) /\ run[q] \in RunState
    BY <1>1, RunTypes DEF GroundInv, TreeInv, TreeTypes
  <1>3. user[u] # NoUser /\ run[q].sponsor = user[u].sponsor
    BY <1>1, <1>2 DEF Knows
  <1>4. ASSUME run[q].pc # "wallets"
        PROVE  run[q].sponsor \in Users /\ user[run[q].sponsor] # NoUser
    <2>1. run[q].sponsor # None
      BY <1>1, <1>2, <1>4 DEF Knows
    <2>2. run[q].sponsor \in Users
      BY <1>2, <2>1 DEF RunState
    <2> QED
      BY <1>3, <2>1, <2>2 DEF GroundInv, UsersFirst
  <1> QED
    BY <1>2, <1>3, <1>4

\* A step of one handler leaves the others their users.
LEMMA OthersCarry ==
    ASSUME GroundInv, NEW p \in Requests, NEW x, run' = [run EXCEPT ![p] = x], UNCHANGED user,
           \A v \in Users : wallets'[v] = wallets[v] \/ Works(p, v),
           \A v \in Users : referral[v] = NoReferral =>
               referral'[v] = NoReferral \/ Works(p, v) \/ Roots(p, v),
           x.pc \in Working => run[p].pc \in Working /\ x.user = run[p].user,
           NEW q \in Requests, q # p, NEW u \in Users, Carries(q, u),
           x.pc = "root" => x.sponsor = run[p].sponsor /\ (run[p].pc = "root" \/ ~Roots(q, x.sponsor))
    PROVE  Carries(q, u)'
  <1>1. /\ p \in Processes /\ q \in Processes /\ Script \in Processes /\ p # Script /\ q # Script
        /\ run'[p] = x /\ (\A r \in Processes \ {p} : run'[r] = run[r])
    BY ScriptAssumption DEF Processes, GroundInv, TreeInv, TreeTypes
  <1>2. ~Works(p, u) /\ Works(q, u)
    BY <1>1 DEF Carries
  <1>3. ~Roots(p, u)
    <2>1. SUFFICES ASSUME Roots(p, u) PROVE FALSE
      OBVIOUS
    <2>2. PICK v : v = run[p].user
      OBVIOUS
    <2>3. run[p].pc = "root" /\ run[p].sponsor = u
      BY <2>1 DEF Roots
    <2>4. v \in Users /\ user[v] # NoUser /\ user[v].sponsor = u
      BY <1>1, <2>2, <2>3, RunTypes DEF GroundInv, TreeInv, TreeTypes, Knows, Creates
    <2> QED
      BY <2>4 DEF Carries
  <1>4. referral'[u] = NoReferral /\ wallets'[u] = wallets[u]
    BY <1>2, <1>3 DEF Carries
  <1>5. ASSUME NEW r \in Processes \ {q}
        PROVE  ~Works(r, u)'
    <2>1. ~Works(r, u)
      BY DEF Carries
    <2> QED
      BY <1>1, <1>2, <2>1 DEF Works
  <1>6. ASSUME run[q].pc = "root"
        PROVE  /\ referral'[run[q].sponsor] = NoReferral
               /\ \A r \in Processes \ {q} :
                      /\ ~(run'[r].pc \in Working /\ run'[r].user = run[q].sponsor)
                      /\ ~(run'[r].pc = "root" /\ run'[r].sponsor = run[q].sponsor)
    <2>1. PICK s : s = run[q].sponsor
      OBVIOUS
    <2>2. s \in Users
      BY <1>1, <1>2, <1>6, <2>1, SponsorIs
    <2>3. referral[s] = NoReferral /\ \A r \in Processes \ {q} : ~Works(r, s) /\ ~Roots(r, s)
      BY <1>6, <2>1 DEF Carries
    <2>4. referral'[s] = NoReferral
      BY <1>1, <2>2, <2>3
    <2>5. Roots(q, s)
      BY <1>6, <2>1 DEF Roots
    <2>6. ASSUME NEW r \in Processes \ {q}
          PROVE  /\ ~(run'[r].pc \in Working /\ run'[r].user = s)
                 /\ ~(run'[r].pc = "root" /\ run'[r].sponsor = s)
      <3>1. ~Works(r, s) /\ ~Roots(r, s)
        BY <2>3
      <3>2. CASE r # p
        BY <1>1, <3>1, <3>2 DEF Works, Roots
      <3>3. CASE r = p
        <4>1. ~(x.pc \in Working /\ x.user = s)
          BY <3>1, <3>3 DEF Works
        <4>2. ~(x.pc = "root" /\ x.sponsor = s)
          BY <2>5, <3>1, <3>3 DEF Roots
        <4> QED
          BY <1>1, <3>3, <4>1, <4>2
      <3> QED
        BY <3>2, <3>3
    <2> QED
      BY <2>1, <2>4, <2>6
  <1>7. \A v \in Users : user'[v] # NoUser => user'[v].sponsor # u
    BY DEF Carries
  <1>8. run'[q] = run[q] /\ run'[Script] = run[Script]
    BY <1>1
  <1> QED
    BY <1>4, <1>5, <1>6, <1>7, <1>8, CarriesStays

\* A handler goes on with its own user.
LEMMA OwnCarry ==
    ASSUME GroundInv, NEW p \in Requests, NEW u \in Users, Carries(p, u),
           NEW x, run' = [run EXCEPT ![p] = x], UNCHANGED user, referral'[u] = NoReferral,
           x.pc \in Working, x.user = u,
           x.pc = "wallets" => x.missing = WalletTypes \ wallets'[u],
           x.pc \in Creates => wallets'[u] = WalletTypes,
           x.pc = "root" =>
               /\ referral'[x.sponsor] = NoReferral
               /\ \A q \in Processes \ {p} : ~Works(q, x.sponsor) /\ ~Roots(q, x.sponsor)
    PROVE  Carries(p, u)'
  <1>1. /\ p \in Processes /\ Script \in Processes /\ p # Script
        /\ run'[p] = x /\ (\A r \in Processes \ {p} : run'[r] = run[r])
    BY ScriptAssumption DEF Processes, GroundInv, TreeInv, TreeTypes
  <1>2. ASSUME NEW q \in Processes \ {p}
        PROVE  ~Works(q, u)'
    <2>1. ~Works(q, u)
      BY DEF Carries
    <2> QED
      BY <1>1, <2>1 DEF Works
  <1>3. ASSUME x.pc = "root", NEW q \in Processes \ {p}
        PROVE  ~Works(q, run[p].sponsor)' /\ ~Roots(q, run[p].sponsor)'
    <2>1. ~Works(q, x.sponsor) /\ ~Roots(q, x.sponsor)
      BY <1>3
    <2> QED
      BY <1>1, <2>1 DEF Works, Roots
  <1>4. Works(p, u)'
    BY <1>1 DEF Works
  <1>5. \A v \in Users : user'[v] # NoUser => user'[v].sponsor # u
    BY DEF Carries
  <1>6. run'[Script] = Idle
    BY <1>1 DEF Carries
  <1> QED
    BY <1>1, <1>2, <1>3, <1>4, <1>5, <1>6 DEF Carries

LEMMA HandlerSafe ==
    ASSUME GroundInv, Lasting, UsersFirst', NEW p \in Requests, NEW x, run' = [run EXCEPT ![p] = x],
           UNCHANGED user,
           \A v \in Users : wallets'[v] = wallets[v] \/ Works(p, v),
           \A v \in Users : referral[v] = NoReferral =>
               referral'[v] = NoReferral \/ Works(p, v) \/ Roots(p, v),
           x.pc \in Working => run[p].pc \in Working /\ x.user = run[p].user,
           NEW u \in Users, user[u] # NoUser, Safe(u),
           x.pc = "root" =>
               /\ x.sponsor = run[p].sponsor
               /\ run[p].pc = "root" \/ \A q \in Requests \ {p} : Carries(q, u) => ~Roots(q, x.sponsor),
           Carries(p, u) => Safe(u)'
    PROVE  Safe(u)'
  <1>1. CASE Served(u)
    BY <1>1, ServedStays DEF Safe
  <1>2. CASE Seeded(u)
    <2>1. run'[Script] = run[Script]
      BY ScriptAssumption DEF Processes, GroundInv, TreeInv, TreeTypes
    <2> QED
      BY <1>2, <2>1 DEF Safe, Seeded, Lasting
  <1>3. ASSUME NEW q \in Requests, q # p, Carries(q, u)
        PROVE  Safe(u)'
    <2>1. Carries(q, u)'
      BY <1>3, OthersCarry
    <2> QED
      BY <2>1 DEF Safe
  <1> QED
    BY <1>1, <1>2, <1>3 DEF Safe

LEMMA CreateWalletSafe ==
    ASSUME GroundInv, Lasting, UsersFirst', NEW p \in Requests, NEW w \in WalletTypes,
           CreateWallet(p, w), NEW u \in Users, user[u] # NoUser, Safe(u)
    PROVE  Safe(u)'
  <1>1. PICK a : a = run[p].user
    OBVIOUS
  <1>2. /\ run[p].pc = "wallets" /\ p \in Processes /\ TreeInv /\ UNCHANGED <<user, referral>>
        /\ w \in run[p].missing /\ UsersFirst
    BY DEF CreateWallet, At, Processes, GroundInv
  <1>3. PICK x \in RunState \cup {Idle}, W \in SUBSET WalletTypes :
            /\ run' = [run EXCEPT ![p] = x]
            /\ wallets' = [wallets EXCEPT ![a] = @ \cup W]
            /\ x.pc \in {"wallets", "check"} => x.user = a /\ x.sponsor = run[p].sponsor
            /\ \/ w \in wallets[a] /\ x.pc = "idle"
               \/ /\ w \notin wallets[a] /\ W = {w}
                  /\ \/ x.pc = "wallets" /\ x.missing = run[p].missing \ {w}
                     \/ /\ x.pc = IF run[p].sponsor = None THEN "idle" ELSE "check"
                        /\ run[p].missing = {w}
    BY <1>1, <1>2, CreateWalletIs
  <1>4. \A v \in Users : wallets'[v] = wallets[v] \/ Works(p, v)
    BY <1>1, <1>2, <1>3 DEF UsersFirst, Works, Working
  <1>5. x.pc \in {"idle", "wallets", "check"}
    BY <1>3
  <1>6. /\ x.pc \in Working => run[p].pc \in Working /\ x.user = run[p].user
        /\ x.pc # "root"
    BY <1>1, <1>2, <1>3, <1>5 DEF Working, Creates
  <1>7. ASSUME Carries(p, u)
        PROVE  Safe(u)'
    <2>1. u = a /\ run[p].missing = WalletTypes \ wallets[u] /\ referral[u] = NoReferral
      BY <1>1, <1>2, <1>7 DEF Carries, Works
    <2>2. wallets[u] \in SUBSET WalletTypes /\ wallets'[u] = wallets[u] \cup W
      BY <1>2, <1>3, <2>1 DEF UsersFirst
    <2>3. w \notin wallets[u] /\ W = {w}
      BY <1>2, <1>3, <2>1
    <2>4. CASE x.pc = "wallets"
      <3>1. x.missing = WalletTypes \ wallets'[u]
        BY <1>2, <1>3, <2>1, <2>2, <2>3, <2>4
      <3>2. x.pc \in Working /\ x.pc \notin Creates /\ x.pc # "root" /\ x.user = u
        BY <1>3, <2>1, <2>4 DEF Working, Creates
      <3>3. Carries(p, u)'
        BY <1>2, <1>3, <1>7, <2>1, <3>1, <3>2, OwnCarry
      <3> QED
        BY <3>3 DEF Safe
    <2>5. CASE x.pc # "wallets"
      <3>1. run[p].missing = {w} /\ x.pc = IF run[p].sponsor = None THEN "idle" ELSE "check"
        BY <1>3, <2>1, <2>3, <2>5
      <3>2. wallets'[u] = WalletTypes
        BY <2>1, <2>2, <2>3, <3>1
      <3>3. run[p].sponsor = user[u].sponsor
        BY <1>2, <1>7, SponsorIs DEF Carries
      <3>4. CASE run[p].sponsor = None
        BY <1>2, <3>2, <3>3, <3>4 DEF Safe, Served
      <3>5. CASE run[p].sponsor # None
        <4>1. x.pc = "check" /\ x.user = u
          BY <1>3, <2>1, <3>1, <3>5
        <4>2. Carries(p, u)'
          BY <1>2, <1>3, <1>7, <2>1, <3>2, <4>1, OwnCarry DEF Working, Creates
        <4> QED
          BY <4>2 DEF Safe
      <3> QED
        BY <3>4, <3>5
    <2> QED
      BY <2>4, <2>5
  <1> QED
    BY <1>2, <1>3, <1>4, <1>6, <1>7, HandlerSafe

\* Calls after which, or of which, the handler's user is not at stake.
LEMMA SideSafe ==
    ASSUME GroundInv, Lasting, UsersFirst', NEW p \in Requests,
           \/ CountDirect(p) \/ Walk(p) \/ FindDepositor(p) \/ UpdateSponsorStats(p),
           NEW u \in Users, user[u] # NoUser, Safe(u)
    PROVE  Safe(u)'
  <1>1. p \in Processes /\ TreeInv
    BY DEF Processes, GroundInv
  <1>2. PICK x \in RunState \cup {Idle} : run' = [run EXCEPT ![p] = x] /\ Onward(x, p)
    BY <1>1, CallsAre
  <1>3. run[p].pc \in {"own", "walk", "bonus"} /\ UNCHANGED <<user, wallets>>
    BY DEF CountDirect, Walk, FindDepositor, UpdateSponsorStats, At
  <1>4. x.pc \notin Working /\ run[p].pc \notin Working
    BY <1>2, <1>3 DEF Onward, Working, Creates
  <1>5. ~Carries(p, u) /\ x.pc # "root"
    BY <1>4 DEF Carries, Works, Working, Creates
  <1>6. \A v \in Users : referral[v] = NoReferral => referral'[v] = NoReferral
    <2>1. CASE FindDepositor(p)
      BY <2>1 DEF FindDepositor
    <2>2. CASE CountDirect(p) \/ Walk(p) \/ UpdateSponsorStats(p)
      <3>1. PICK a : a = run[p].at
        OBVIOUS
      <3>2. run[p].pc \in Climbs
        BY <2>2 DEF CountDirect, Walk, UpdateSponsorStats, At, Climbs
      <3>3. a \in Users /\ referral[a] # NoReferral
        BY <1>1, <3>1, <3>2 DEF TreeInv, Knows
      <3>4. Counted(a)
        BY <1>1, <2>2, <3>1, <3>3, CountsAre DEF CountDirect, Walk, UpdateSponsorStats
      <3> QED
        BY <1>1, <3>3, <3>4 DEF Counted, TreeInv, TreeTypes
    <2> QED
      BY <2>1, <2>2
  <1> QED
    BY <1>2, <1>3, <1>4, <1>5, <1>6, HandlerSafe

LEMMA DepositSafe ==
    ASSUME GroundInv, Lasting, UsersFirst', NEW p \in Requests, NEW a \in Members, Deposit(p, a),
           NEW u \in Users, user[u] # NoUser, Safe(u)
    PROVE  Safe(u)'
  <1>1. PICK x \in RunState : run' = [run EXCEPT ![p] = x] /\ x.pc = "bonus"
    BY DepositIs DEF GroundInv
  <1>2. UNCHANGED <<user, wallets, referral>> /\ run[p].pc = "idle"
    BY IdleRun DEF Deposit
  <1>3. x.pc \notin Working /\ x.pc # "root" /\ run[p].pc \notin Working
    BY <1>1, <1>2 DEF Working, Creates
  <1>4. ~Carries(p, u)
    BY <1>3 DEF Carries, Works
  <1> QED
    BY <1>1, <1>2, <1>3, <1>4, HandlerSafe

\* The sponsor is deleted, or the search goes on.
LEMMA CheckSafe ==
    ASSUME GroundInv, Lasting, UsersFirst', NEW p \in Requests, CheckReferral(p),
           NEW u \in Users, user[u] # NoUser, Safe(u)
    PROVE  Safe(u)'
  <1>1. /\ p \in Processes /\ TreeInv /\ run[p].pc = "check" /\ run[p].pc # "idle"
        /\ UNCHANGED <<user, wallets, referral>>
    BY DEF Processes, GroundInv, CheckReferral, At
  <1>2. PICK x \in RunState \cup {Idle} : run' = [run EXCEPT ![p] = x] /\ Onward(x, p)
    BY <1>1, CallsAre
  <1>3. x.pc # "root" /\ (x.pc \in Working => run[p].pc \in Working /\ x.user = run[p].user)
    BY <1>1, <1>2 DEF Onward, Working, Creates
  <1>4. ASSUME Carries(p, u)
        PROVE  Safe(u)'
    <2>1. PICK s : s = run[p].sponsor
      OBVIOUS
    <2>2. /\ run[p].user = u /\ wallets[u] = WalletTypes /\ referral[u] = NoReferral
          /\ s = user[u].sponsor
      BY <1>1, <1>4, <2>1, SponsorIs DEF Carries, Works, Creates
    <2>3. CASE user[s].deleted
      <3>1. Served(u)
        BY <2>2, <2>3 DEF Served
      <3> QED
        BY <3>1, ServedStays DEF Safe
    <2>4. CASE Goto(p, "sponsorRow")
      <3>1. PICK y \in RunState :
                run' = [run EXCEPT ![p] = y] /\ y.pc = "sponsorRow" /\ y.user = run[p].user
        BY <1>1, <2>4, GotoIs
      <3>2. Carries(p, u)'
        BY <1>1, <1>4, <2>2, <3>1, OwnCarry DEF Working, Creates
      <3> QED
        BY <3>2 DEF Safe
    <2> QED
      BY <2>1, <2>2, <2>3, <2>4 DEF CheckReferral, HasRow
  <1> QED
    BY <1>1, <1>2, <1>3, <1>4, HandlerSafe

\* A search that finds no row of the sponsor counts as a race with all who
\* may create it too.
LEMMA FindSponsorSafe ==
    ASSUME GroundInv, Lasting, UsersFirst', NEW p \in Requests, FindSponsorRow(p),
           NEW u \in Users, user[u] # NoUser, Safe(u), u \notin raced'
    PROVE  Safe(u)'
  <1>1. /\ p \in Processes /\ TreeInv /\ run[p].pc = "sponsorRow" /\ run[p].pc # "idle"
        /\ UNCHANGED <<user, wallets, referral>>
    BY DEF Processes, GroundInv, FindSponsorRow, At
  <1>2. PICK s, a : s = run[p].sponsor /\ a = run[p].user
    OBVIOUS
  <1>3. PICK pc : pc = IF referral[s] # NoReferral THEN "row" ELSE "root"
    OBVIOUS
  <1>4. Goto(p, pc) /\ pc \in {"row", "root"}
    BY <1>2, <1>3 DEF FindSponsorRow, HasRow
  <1>5. PICK x \in RunState :
            run' = [run EXCEPT ![p] = x] /\ x.pc = pc /\ x.user = a /\ x.sponsor = s
    BY <1>1, <1>2, <1>4, GotoIs
  <1>6. ASSUME pc = "root", NEW q \in Processes \ {p}, run[q] # Idle,
               run[q].user = s \/ (run[q].pc = "root" /\ run[q].sponsor = s)
        PROVE  u # run[q].user /\ u # a
    <2>1. raced' = raced \cup Rivals(p)
      BY <1>2, <1>3, <1>6 DEF FindSponsorRow, HasRow
    <2>2. run[q].user \in Rivals(p) /\ a \in Rivals(p)
      BY <1>2, <1>6 DEF Rivals, At
    <2> QED
      BY <2>1, <2>2
  <1>7. \A q \in Processes : run[q].pc \in Working => run[q] # Idle
    BY IdleRun DEF Working, Creates
  <1>8. ASSUME x.pc = "root", NEW q \in Requests \ {p}, Carries(q, u)
        PROVE  ~Roots(q, x.sponsor)
    <2>1. q \in Processes \ {p} /\ run[q].user = u /\ run[q] # Idle
      BY <1>7, <1>8 DEF Carries, Works, Processes
    <2> QED
      BY <1>5, <1>6, <1>8, <2>1 DEF Roots
  <1>9. ASSUME Carries(p, u)
        PROVE  Safe(u)'
    <2>1. a = u /\ wallets[u] = WalletTypes /\ referral[u] = NoReferral
      BY <1>1, <1>2, <1>9 DEF Carries, Works, Creates
    <2>2. ASSUME pc = "root", NEW q \in Processes \ {p}
          PROVE  ~Works(q, s) /\ ~Roots(q, s)
      <3>1. Works(q, s) \/ Roots(q, s) => run[q] # Idle
        BY <1>7 DEF Works, Roots, Working, Creates
      <3> QED
        BY <1>6, <2>1, <2>2, <3>1 DEF Works, Roots
    <2>3. pc = "root" => referral'[s] = NoReferral
      BY <1>1, <1>3
    <2>4. Carries(p, u)'
      BY <1>1, <1>4, <1>5, <1>9, <2>1, <2>2, <2>3, OwnCarry DEF Working, Creates
    <2> QED
      BY <2>4 DEF Safe
  <1>10. run[p].pc \in Working
    BY <1>1 DEF Working, Creates
  <1> QED
    BY <1>1, <1>2, <1>5, <1>8, <1>9, <1>10, HandlerSafe

LEMMA CreateRootSafe ==
    ASSUME GroundInv, Lasting, UsersFirst', NEW p \in Requests, CreateRoot(p),
           NEW u \in Users, user[u] # NoUser, Safe(u)
    PROVE  Safe(u)'
  <1>1. /\ p \in Processes /\ TreeInv /\ run[p].pc = "root" /\ run[p].pc # "idle"
        /\ UNCHANGED <<user, wallets>>
    BY DEF Processes, GroundInv, CreateRoot, At
  <1>2. PICK s : s = run[p].sponsor
    OBVIOUS
  <1>3. PICK x \in RunState \cup {Idle} : run' = [run EXCEPT ![p] = x] /\ Onward(x, p)
    BY <1>1, CallsAre
  <1>4. x.pc # "root" /\ (x.pc \in Working => run[p].pc \in Working /\ x.user = run[p].user)
    BY <1>1, <1>3 DEF Onward, Working, Creates
  <1>5. UNCHANGED referral \/ referral' = [referral EXCEPT ![s] = NewReferral(None, 0)]
    BY <1>2 DEF CreateRoot
  <1>6. \A v \in Users : v # s => referral'[v] = referral[v]
    BY <1>1, <1>5 DEF TreeInv, TreeTypes
  <1>7. \A v \in Users : referral[v] = NoReferral => referral'[v] = NoReferral \/ Roots(p, v)
    BY <1>1, <1>2, <1>6 DEF Roots
  <1>8. ASSUME Carries(p, u)
        PROVE  Safe(u)'
    <2>1. /\ run[p].user = u /\ wallets[u] = WalletTypes /\ referral[u] = NoReferral
          /\ s = user[u].sponsor /\ referral[s] = NoReferral
      BY <1>1, <1>2, <1>8, SponsorIs DEF Carries, Works, Creates
    <2>2. s # u
      BY <1>8, <2>1 DEF Carries
    <2>3. referral'[u] = NoReferral
      BY <1>6, <2>1, <2>2
    <2>4. Goto(p, "row")
      BY <1>2, <2>1 DEF CreateRoot, HasRow
    <2>5. PICK y \in RunState :
              run' = [run EXCEPT ![p] = y] /\ y.pc = "row" /\ y.user = run[p].user
      BY <1>1, <2>4, GotoIs
    <2>6. Carries(p, u)'
      BY <1>1, <1>8, <2>1, <2>3, <2>5, OwnCarry DEF Working, Creates
    <2> QED
      BY <2>6 DEF Safe
  <1> QED
    BY <1>1, <1>3, <1>4, <1>7, <1>8, HandlerSafe

LEMMA CreateRowSafe ==
    ASSUME GroundInv, Lasting, UsersFirst', NEW p \in Requests, CreateRow(p),
           NEW u \in Users, user[u] # NoUser, Safe(u)
    PROVE  Safe(u)'
  <1>1. /\ p \in Processes /\ TreeInv /\ run[p].pc = "row" /\ run[p].pc # "idle"
        /\ UNCHANGED <<user, wallets>>
    BY DEF Processes, GroundInv, CreateRow, At
  <1>2. PICK a, s : a = run[p].user /\ s = run[p].sponsor
    OBVIOUS
  <1>3. PICK x \in RunState \cup {Idle} : run' = [run EXCEPT ![p] = x] /\ Onward(x, p)
    BY <1>1, CallsAre
  <1>4. x.pc # "root" /\ (x.pc \in Working => run[p].pc \in Working /\ x.user = run[p].user)
    BY <1>1, <1>3 DEF Onward, Working, Creates
  <1>5. UNCHANGED referral
        \/ referral' = [referral EXCEPT ![a] = NewReferral(s, referral[s].level + 1)]
    BY <1>2 DEF CreateRow
  <1>6. \A v \in Users : v # a => referral'[v] = referral[v]
    BY <1>1, <1>5 DEF TreeInv, TreeTypes
  <1>7. \A v \in Users : referral[v] = NoReferral => referral'[v] = NoReferral \/ Works(p, v)
    BY <1>1, <1>2, <1>6 DEF Works, Working, Creates
  <1>8. ASSUME Carries(p, u)
        PROVE  Safe(u)'
    <2>1. /\ a = u /\ wallets[u] = WalletTypes /\ referral[u] = NoReferral
          /\ s = user[u].sponsor
      BY <1>1, <1>2, <1>8, SponsorIs DEF Carries, Works, Creates
    <2>2. PICK y : y = NewReferral(s, referral[s].level + 1)
      OBVIOUS
    <2>3. y.sponsor = s /\ "level" \in DOMAIN y /\ "level" \notin DOMAIN NoReferral
      BY <2>2 DEF NewReferral, NoReferral
    <2>4. referral' = [referral EXCEPT ![u] = y]
      BY <1>2, <2>1, <2>2 DEF CreateRow, HasRow
    <2>5. referral'[u] = y
      BY <1>1, <2>4 DEF TreeInv, TreeTypes
    <2>6. Served(u)'
      BY <1>1, <2>1, <2>3, <2>5 DEF Served
    <2> QED
      BY <2>6 DEF Safe
  <1> QED
    BY <1>1, <1>3, <1>4, <1>7, <1>8, HandlerSafe

\* Someone that signs up is carried by its handler, and takes nobody from
\* another one but a sponsor that is still worked on.
LEMMA SignupSafe ==
    ASSUME GroundInv, Lasting, UsersFirst', NEW p \in Requests, NEW a \in Members,
           NEW s \in Users \cup {None}, Signup(p, a, s),
           NEW u \in Users, user[u] # NoUser => Safe(u), user'[u] # NoUser, u \notin raced' \cup early'
    PROVE  Safe(u)'
  <1>1. /\ TreeInv /\ UsersFirst /\ p \in Processes /\ Script \in Processes /\ p # Script
        /\ run[p] = Idle /\ UNCHANGED <<wallets, referral>> /\ (s # None => user[s] # NoUser)
    BY ScriptAssumption DEF GroundInv, Processes, Signup
  <1>2. PICK x \in RunState :
            /\ run' = [run EXCEPT ![p] = x]
            /\ x.pc = "wallets" /\ x.user = a /\ x.sponsor = s /\ x.missing = WalletTypes
    BY <1>1, SignupIs
  <1>3. /\ user[a] = NoUser /\ a \in Users /\ user'[a] # NoUser /\ user'[a].sponsor = s
        /\ \A v \in Users \ {a} : user'[v] = user[v]
    BY <1>1, SignupIs
  <1>4. run'[p] = x /\ \A q \in Processes \ {p} : run'[q] = run[q]
    BY <1>1, <1>2 DEF TreeInv, TreeTypes
  <1>5. x.pc \in Working /\ x.pc # "root" /\ x.pc \notin Creates /\ run[p].pc \notin Working
    BY <1>1, <1>2, IdleRun DEF Working, Creates
  <1>6. CASE u = a
    <2>1. run[Script] = Idle
      BY <1>6 DEF Signup
    <2>2. referral[a] = NoReferral /\ wallets[a] = {}
      BY <1>1, <1>3 DEF UsersFirst
    <2>3. ASSUME NEW v \in Users, user'[v] # NoUser
          PROVE  user'[v].sponsor # a
      <3>1. CASE v = a
        BY <1>1, <1>3, <3>1, NoneAssumption
      <3>2. CASE v # a
        <4>1. user[v] # NoUser /\ user'[v].sponsor = user[v].sponsor
          BY <1>3, <2>3, <3>2
        <4>2. user[v].sponsor # None => user[user[v].sponsor] # NoUser
          BY <1>1, <4>1 DEF UsersFirst
        <4> QED
          BY <1>3, <4>1, <4>2, NoneAssumption
      <3> QED
        BY <3>1, <3>2
    <2>4. ASSUME NEW q \in Processes \ {p}
          PROVE  ~Works(q, a)'
      <3>1. ~Works(q, a)
        BY <1>3, SponsorIs
      <3> QED
        BY <1>4, <3>1 DEF Works
    <2>5. Works(p, a)'
      BY <1>2, <1>4, <1>5 DEF Works
    <2>6. run'[p].missing = WalletTypes \ wallets'[a]
      BY <1>1, <1>2, <1>4, <2>2
    <2>7. Carries(p, a)'
      BY <1>1, <1>4, <1>5, <2>1, <2>2, <2>3, <2>4, <2>5, <2>6 DEF Carries
    <2> QED
      BY <1>6, <2>7 DEF Safe
  <1>7. CASE u # a
    <2>1. user[u] # NoUser /\ Safe(u)
      BY <1>3, <1>7
    <2>2. CASE Served(u)
      BY <2>1, <2>2, ServedStays DEF Safe
    <2>3. CASE Seeded(u)
      BY <1>1, <1>4, <2>3 DEF Seeded, Safe
    <2>4. ASSUME NEW q \in Requests, Carries(q, u)
          PROVE  Safe(u)'
      <3>1. Works(q, u) /\ q \in Processes /\ q # p /\ run[q].user = u /\ run[q] # Idle
        BY <1>5, <2>4, IdleRun DEF Carries, Works, Working, Creates, Processes
      <3>2. s # u
        <4>1. early' = early \cup {v \in {s} \ {None} :
                                       \E r \in Processes : run[r] # Idle /\ run[r].user = v}
          BY DEF Signup
        <4> QED
          BY <3>1, <4>1, NoneAssumption
      <3>3. \A v \in Users : user'[v] # NoUser => user'[v].sponsor # u
        BY <1>3, <2>4, <3>2 DEF Carries
      <3>4. ASSUME NEW r \in Processes \ {q}
            PROVE  ~Works(r, u)'
        <4>1. ~Works(r, u)
          BY <2>4 DEF Carries
        <4> QED
          BY <1>2, <1>4, <1>7, <4>1 DEF Works
      <3>5. ASSUME run[q].pc = "root"
            PROVE  /\ referral'[run[q].sponsor] = NoReferral
                   /\ \A r \in Processes \ {q} :
                          /\ ~(run'[r].pc \in Working /\ run'[r].user = run[q].sponsor)
                          /\ ~(run'[r].pc = "root" /\ run'[r].sponsor = run[q].sponsor)
        <4>1. PICK b : b = run[q].sponsor
          OBVIOUS
        <4>2. user[b] # NoUser
          BY <3>1, <3>5, <4>1, SponsorIs
        <4>3. a # b
          BY <1>3, <4>2
        <4>4. referral[b] = NoReferral /\ \A r \in Processes \ {q} : ~Works(r, b) /\ ~Roots(r, b)
          BY <2>4, <3>5, <4>1 DEF Carries
        <4>5. ASSUME NEW r \in Processes \ {q}
              PROVE  /\ ~(run'[r].pc \in Working /\ run'[r].user = b)
                     /\ ~(run'[r].pc = "root" /\ run'[r].sponsor = b)
          <5>1. CASE r = p
            BY <1>2, <1>4, <1>5, <4>3, <5>1
          <5>2. CASE r # p
            <6>1. ~Works(r, b) /\ ~Roots(r, b)
              BY <4>4
            <6> QED
              BY <1>4, <5>2, <6>1 DEF Works, Roots
          <5> QED
            BY <5>1, <5>2
        <4> QED
          BY <1>1, <4>1, <4>4, <4>5
      <3>6. run'[q] = run[q] /\ run'[Script] = run[Script]
        BY <1>1, <1>4, <3>1
      <3>7. referral'[u] = NoReferral /\ wallets'[u] = wallets[u]
        BY <1>1, <2>4 DEF Carries
      <3>8. Carries(q, u)'
        BY <2>4, <3>3, <3>4, <3>5, <3>6, <3>7, CarriesStays
      <3> QED
        BY <3>8 DEF Safe
    <2> QED
      BY <2>1, <2>2, <2>3, <2>4 DEF Safe
  <1> QED
    BY <1>6, <1>7

LEMMA DeleteSafe ==
    ASSUME GroundInv, Lasting, UsersFirst', NEW a \in Members, DeleteUser(a),
           NEW u \in Users, user[u] # NoUser, Safe(u)
    PROVE  Safe(u)'
  <1>1. UNCHANGED <<wallets, referral, run>> /\ a \in Users /\ user[a] # NoUser
    BY DEF DeleteUser, Users
  <1>2. \A v \in Users : user'[v] # NoUser => user[v] # NoUser /\ user'[v].sponsor = user[v].sponsor
    BY <1>1 DEF DeleteUser, GroundInv, TreeInv, TreeTypes, Lasting, Grown
  <1>3. CASE Served(u)
    BY <1>3, ServedStays DEF Safe
  <1>4. CASE Seeded(u)
    BY <1>1, <1>4 DEF Safe, Seeded
  <1>5. ASSUME NEW q \in Requests, Carries(q, u)
        PROVE  Carries(q, u)'
    BY <1>1, <1>2, <1>5 DEF Carries, Works, Roots
  <1> QED
    BY <1>3, <1>4, <1>5 DEF Safe

\* Whose run is cut short counts as failed.
LEMMA ScriptIsIdle ==
    ASSUME NEW u, NEW q \in Requests, Carries(q, u)
    PROVE  run[Script] = Idle /\ run[Script].pc = "idle" /\ run[q] # Idle /\ run[q].user = u
  BY IdleRun DEF Carries, Works, Working, Creates

LEMMA SeedsAdmin ==
    ASSUME GroundInv, NEW u, Seeded(u)
    PROVE  u = Admin /\ run[Script].pc = "seedWallets" /\ run[Script] # Idle /\ run[Script].user = u
  <1>1. u = Admin /\ run[Script].pc = "seedWallets" /\ Script \in Processes
    BY DEF Seeded, Processes
  <1>2. run[Script].user = Admin
    BY <1>1 DEF GroundInv, TreeInv, Knows
  <1> QED
    BY <1>1, <1>2, IdleRun

LEMMA FailSafe ==
    ASSUME GroundInv, Lasting, UsersFirst', NEW p \in Processes, Fail(p),
           NEW u \in Users, user[u] # NoUser, Safe(u), u \notin failed'
    PROVE  Safe(u)'
  <1>1. TreeInv /\ UsersFirst /\ UNCHANGED <<user, referral>> /\ run[p] # Idle
    BY DEF GroundInv, Fail, Broken
  <1>2. u # run[p].user
    BY <1>1 DEF Fail, Broken
  <1>3. CASE Served(u)
    BY <1>3, ServedStays DEF Safe
  <1>4. CASE p = Script
    <2>1. ~Seeded(u) /\ \A q \in Requests : ~Carries(q, u)
      BY <1>1, <1>2, <1>4, SeedsAdmin, ScriptIsIdle
    <2> QED
      BY <1>3, <2>1 DEF Safe
  <1>5. CASE p \in Requests
    <2>1. PICK x \in RunState \cup {Idle} : run' = [run EXCEPT ![p] = x] /\ Over(x, p)
      BY <1>1, FailIs
    <2>2. PICK W \in SUBSET WalletTypes :
              /\ wallets' = [wallets EXCEPT ![run[p].user] = @ \cup W]
              /\ run[p].pc # "wallets" => W = {}
      BY <1>1, FailIs
    <2>3. \A v \in Users : wallets'[v] = wallets[v] \/ Works(p, v)
      BY <1>1, <2>2 DEF UsersFirst, Works, Working
    <2>4. x.pc \notin Working /\ x.pc # "root"
      BY <2>1 DEF Over, Working, Creates
    <2>5. ~Carries(p, u)
      BY <1>2, <1>5, ScriptIsIdle
    <2> QED
      BY <1>1, <1>5, <2>1, <2>3, <2>4, <2>5, HandlerSafe
  <1> QED
    BY <1>4, <1>5 DEF Processes

LEMMA CrashSafe ==
    ASSUME GroundInv, Lasting, UsersFirst', Crash(Requests) \/ Crash({Script}),
           NEW u \in Users, user[u] # NoUser, Safe(u), u \notin failed'
    PROVE  Safe(u)'
  <1>1. UNCHANGED <<user, wallets, referral>> /\ Script \in Processes /\ Script \notin Requests
    BY ScriptAssumption DEF Crash, Broken, Processes
  <1>2. CASE Served(u)
    BY <1>2, ServedStays DEF Safe
  <1>3. CASE Crash(Requests)
    <2>1. ASSUME NEW q \in Requests, Carries(q, u)
          PROVE  FALSE
      <3>1. run[q] # Idle /\ run[q].user = u
        BY <2>1, ScriptIsIdle
      <3> QED
        BY <1>3, <3>1 DEF Crash, Broken
    <2>2. run'[Script] = run[Script]
      BY <1>1, <1>3 DEF Crash
    <2>3. Seeded(u) => Seeded(u)'
      BY <1>1, <2>2 DEF Seeded
    <2> QED
      BY <1>2, <2>1, <2>3 DEF Safe
  <1>4. CASE Crash({Script})
    <2>1. run[Script] # Idle
      BY <1>4 DEF Crash
    <2>2. u # run[Script].user
      BY <1>4, <2>1 DEF Crash, Broken
    <2>3. ~Seeded(u) /\ \A q \in Requests : ~Carries(q, u)
      BY <2>1, <2>2, SeedsAdmin, ScriptIsIdle
    <2> QED
      BY <1>2, <2>3 DEF Safe
  <1> QED
    BY <1>3, <1>4

\* A script that starts counts as a race with all handlers in progress.
LEMMA StartSafe ==
    ASSUME GroundInv, Lasting, UsersFirst', Seed \/ Backfill,
           NEW u \in Users, user[u] # NoUser, Safe(u), u \notin raced'
    PROVE  Safe(u)'
  <1>1. PICK pc, todo : StartScript(pc, todo)
    BY DEF Seed, Backfill
  <1>2. run[Script] = Idle
    BY <1>1 DEF StartScript
  <1>3. ~Seeded(u)
    BY <1>2, SeedsAdmin
  <1>4. ASSUME NEW q \in Requests, Carries(q, u)
        PROVE  FALSE
    <2>1. run[q] # Idle /\ run[q].user = u
      BY <1>4, ScriptIsIdle
    <2>2. u \in {run[p].user : p \in {r \in Requests : run[r] # Idle}}
      BY <2>1
    <2> QED
      BY <1>1, <2>2 DEF StartScript
  <1> QED
    BY <1>3, <1>4, ServedStays DEF Safe

\* While the script runs only it carries someone: the admin, by its wallets.
LEMMA ScriptSafe ==
    ASSUME GroundInv, Lasting, UsersFirst', run[Script].pc \notin {"idle", "seedWallets"},
           NEW u \in Users, user[u] # NoUser, Safe(u)
    PROVE  Safe(u)'
  <1>1. ~Seeded(u) /\ \A q \in Requests : ~Carries(q, u)
    BY ScriptIsIdle DEF Seeded
  <1> QED
    BY <1>1, ServedStays DEF Safe

LEMMA SeedUserSafe ==
    ASSUME GroundInv, Lasting, UsersFirst', SeedUser,
           NEW u \in Users, user[u] # NoUser => Safe(u), user'[u] # NoUser
    PROVE  Safe(u)'
  <1>1. TreeInv /\ UsersFirst /\ Script \in Processes /\ run[Script].pc = "seedUser"
    BY DEF GroundInv, Processes, SeedUser, SeedStep, At
  <1>2. PICK x \in RunState :
            run' = [run EXCEPT ![Script] = x] /\ x.pc = "seedWallets" /\ x.missing = run[Script].missing
    BY <1>1, SeedUserIs
  <1>3. \A v \in Users \ {Admin} : user'[v] = user[v]
    BY <1>1, SeedUserIs
  <1>4. CASE u = Admin
    <2>1. x.missing = WalletTypes
      BY <1>1, <1>2 DEF UsersFirst, SeedSees
    <2>2. run'[Script] = x
      BY <1>1, <1>2 DEF TreeInv, TreeTypes
    <2> QED
      BY <1>2, <1>4, <2>1, <2>2 DEF Safe, Seeded
  <1>5. CASE u # Admin
    BY <1>1, <1>3, <1>5, ScriptSafe
  <1> QED
    BY <1>4, <1>5

LEMMA SeedWalletSafe ==
    ASSUME GroundInv, Lasting, UsersFirst', NEW w \in WalletTypes, SeedWallet(w),
           NEW u \in Users, user[u] # NoUser, Safe(u)
    PROVE  Safe(u)'
  <1>1. /\ TreeInv /\ UsersFirst /\ Script \in Processes /\ run[Script].pc = "seedWallets"
        /\ UNCHANGED <<user, referral>> /\ Admin \in Users
        /\ wallets' = [wallets EXCEPT ![Admin] = @ \cup {w}]
    BY DEF GroundInv, Processes, SeedWallet, At, Users
  <1>2. \A q \in Requests : ~Carries(q, u)
    BY <1>1, ScriptIsIdle
  <1>3. CASE Served(u)
    BY <1>3, ServedStays DEF Safe
  <1>4. CASE Seeded(u)
    <2>1. PICK x \in RunState :
              /\ run' = [run EXCEPT ![Script] = x]
              /\ x.pc = IF run[Script].missing = {w} THEN "seedRow" ELSE "seedWallets"
              /\ x.missing = run[Script].missing \ {w}
      BY <1>1, SeedWalletIs
    <2>2. run'[Script] = x
      BY <1>1, <2>1 DEF TreeInv, TreeTypes
    <2>3. u = Admin /\ WalletTypes \subseteq wallets[u] \cup run[Script].missing
      BY <1>4 DEF Seeded
    <2>4. wallets'[u] = wallets[u] \cup {w} /\ wallets[u] \in SUBSET WalletTypes
      BY <1>1, <2>3 DEF UsersFirst
    <2>5. WalletTypes \subseteq wallets'[u] \cup x.missing
      BY <2>1, <2>3, <2>4
    <2>6. CASE run[Script].missing = {w}
      <3>1. wallets'[u] = WalletTypes
        BY <2>3, <2>4, <2>6
      <3>2. user'[u].sponsor = None
        BY <1>1, <2>3 DEF TreeInv
      <3> QED
        BY <3>1, <3>2 DEF Safe, Served
    <2>7. CASE run[Script].missing # {w}
      BY <2>1, <2>2, <2>3, <2>5, <2>7 DEF Safe, Seeded
    <2> QED
      BY <2>6, <2>7
  <1> QED
    BY <1>2, <1>3, <1>4 DEF Safe

LEMMA ExcusesStay ==
    ASSUME [Next]_vars
    PROVE  failed \subseteq failed' /\ raced \subseteq raced' /\ early \subseteq early'
  <1>1. ASSUME NEW p \in Requests, Request(p)
        PROVE  failed \subseteq failed' /\ raced \subseteq raced' /\ early \subseteq early'
    BY <1>1 DEF Request, Signup, CreateWallet, Deposit, FindDepositor, UpdateSponsorStats
  <1>2. ASSUME NEW p \in Processes, CreateReferral(p)
        PROVE  failed \subseteq failed' /\ raced \subseteq raced' /\ early \subseteq early'
    BY <1>2 DEF CreateReferral, CheckReferral, FindSponsorRow, CreateRoot, CreateRow, CountDirect,
       Walk, observed
  <1>3. ASSUME NEW ps, Broken(ps)
        PROVE  failed \subseteq failed' /\ raced \subseteq raced' /\ early \subseteq early'
    BY <1>3 DEF Broken
  <1>4. CASE Seed \/ Backfill
    BY <1>4 DEF Seed, Backfill, StartScript
  <1>5. CASE ScriptStep
    BY <1>5 DEF ScriptStep, SeedFind, SeedUser, SeedStep, SeedReferral, SeedSettings, SeedWallet,
       NextUser, FillWallet, FindExisting, BackfillEnds, observed
  <1>6. ASSUME NEW u \in Members, DeleteUser(u)
        PROVE  failed \subseteq failed' /\ raced \subseteq raced' /\ early \subseteq early'
    BY <1>6 DEF DeleteUser
  <1>7. CASE UNCHANGED vars
    BY <1>7 DEF vars, observed
  <1> QED
    BY <1>1, <1>2, <1>3, <1>4, <1>5, <1>6, <1>7 DEF Next, Fail, Crash

LEMMA LostNext == GroundInv /\ LostInv /\ [Next]_vars => LostInv'
  <1> SUFFICES ASSUME GroundInv, LostInv, [Next]_vars, NEW u \in Users,
                      user'[u] # NoUser, u \notin failed' \cup raced' \cup early'
               PROVE  Safe(u)'
    BY DEF LostInv
  <1>1. Lasting /\ UsersFirst'
    BY StepLasts DEF GroundInv
  <1>2. user[u] # NoUser => Safe(u)
    BY ExcusesStay DEF LostInv
  <1>3. ASSUME NEW p \in Requests, NEW a \in Members, NEW s \in Users \cup {None}, Signup(p, a, s)
        PROVE  Safe(u)'
    BY <1>1, <1>2, <1>3, SignupSafe
  <1>4. CASE SeedUser
    BY <1>1, <1>2, <1>4, SeedUserSafe
  <1>5. CASE UNCHANGED vars
    BY <1>2, <1>5 DEF vars, Safe, Served, Seeded, Carries, Works, Roots
  <1>6. ASSUME user[u] # NoUser, NEW p \in Requests, Request(p)
        PROVE  Safe(u)'
    BY <1>1, <1>2, <1>3, <1>6, CreateWalletSafe, DepositSafe, SideSafe DEF Request
  <1>7. ASSUME user[u] # NoUser, NEW p \in Processes, CreateReferral(p)
        PROVE  Safe(u)'
    <2>1. CASE p = Script
      <3>1. run[Script].pc \notin {"idle", "seedWallets"}
        BY <1>7, <2>1 DEF CreateReferral, CheckReferral, FindSponsorRow, CreateRoot, CreateRow,
           CountDirect, Walk, At
      <3> QED
        BY <1>1, <1>2, <1>7, <3>1, ScriptSafe
    <2>2. CASE p \in Requests
      BY <1>1, <1>2, <1>7, <2>2, CheckSafe, FindSponsorSafe, CreateRootSafe, CreateRowSafe, SideSafe
      DEF CreateReferral
    <2> QED
      BY <2>1, <2>2 DEF Processes
  <1>8. ASSUME user[u] # NoUser, NEW p \in Processes, Fail(p)
        PROVE  Safe(u)'
    BY <1>1, <1>2, <1>8, FailSafe
  <1>9. ASSUME user[u] # NoUser, Seed \/ Backfill
        PROVE  Safe(u)'
    BY <1>1, <1>2, <1>9, StartSafe
  <1>10. ASSUME user[u] # NoUser, ScriptStep
         PROVE  Safe(u)'
    <2>1. CASE \E w \in WalletTypes : SeedWallet(w)
      BY <1>1, <1>2, <1>10, <2>1, SeedWalletSafe
    <2>2. CASE ~\E w \in WalletTypes : SeedWallet(w)
      <3>1. run[Script].pc \notin {"idle", "seedWallets"}
        BY <1>10, <2>2 DEF ScriptStep, SeedFind, SeedUser, SeedStep, SeedReferral, SeedSettings,
           NextUser, FillWallet, FindExisting, BackfillEnds, At
      <3> QED
        BY <1>1, <1>2, <1>10, <3>1, ScriptSafe
    <2> QED
      BY <2>1, <2>2
  <1>11. ASSUME user[u] # NoUser, NEW a \in Members, DeleteUser(a)
         PROVE  Safe(u)'
    BY <1>1, <1>2, <1>11, DeleteSafe
  <1>12. ASSUME user[u] # NoUser, Crash(Requests) \/ Crash({Script})
         PROVE  Safe(u)'
    BY <1>1, <1>2, <1>12, CrashSafe
  <1>13. CASE user[u] # NoUser
    BY <1>5, <1>6, <1>7, <1>8, <1>9, <1>10, <1>11, <1>12, <1>13 DEF Next
  <1>14. CASE user[u] = NoUser
    <2>1. user' # user
      BY <1>14
    <2>2. (\E p \in Requests, a \in Members, s \in Users \cup {None} : Signup(p, a, s)) \/ SeedUser
          \/ \E a \in Members : DeleteUser(a)
      BY <2>1 DEF Next, vars, Request, CreateReferral, ScriptStep, Signup, CreateWallet, Deposit,
         FindDepositor, UpdateSponsorStats, CheckReferral, FindSponsorRow, CreateRoot, CreateRow,
         CountDirect, Walk, Fail, Broken, Seed, Backfill, SeedFind, SeedReferral, SeedSettings,
         SeedWallet, NextUser, FillWallet, FindExisting, BackfillEnds, Crash
    <2>3. ASSUME NEW a \in Members, DeleteUser(a)
          PROVE  FALSE
      <3>1. user[a] # NoUser /\ user' = [user EXCEPT ![a].deleted = TRUE]
        BY <2>3 DEF DeleteUser
      <3> QED
        BY <1>14, <3>1 DEF GroundInv, TreeInv, TreeTypes
    <2> QED
      BY <1>3, <1>4, <2>2, <2>3
  <1> QED
    BY <1>13, <1>14

\* Whatever signups, deposits, scripts and failures do at once, a user nothing
\* works on any more has all its wallets and a row under its sponsor, unless
\* its signup failed or met one of the races the property names.
THEOREM NobodyStaysLost == Spec => []NobodyIsLost
  <1> QED
    BY GroundInit, GroundNext, LostInit, LostNext, LostMeans, PTL DEF Spec

-------------------------------------------------------------------------------
(* Who is above whom *)

LEMMA ParentIs ==
    ASSUME TreeInv, NEW u \in Users
    PROVE  /\ Parent(u) \in Users \cup {None}
           /\ Parent(u) # None => /\ referral[u] # NoReferral /\ Parent(u) = referral[u].sponsor
                                  /\ referral[Parent(u)] # NoReferral
                                  /\ referral[u].level = referral[Parent(u)].level + 1
           /\ referral[u] # NoReferral => referral[u] \in ReferralRow /\ referral[u].level \in Nat
  <1>1. Placed(u) /\ referral[u] \in ReferralRow \cup {NoReferral}
    BY DEF TreeInv, TreeTypes
  <1>2. referral[u] # NoReferral =>
            /\ referral[u] \in ReferralRow /\ referral[u].level \in Nat
            /\ referral[u].sponsor \in Users \cup {None}
    BY <1>1 DEF ReferralRow
  <1> QED
    BY <1>1, <1>2 DEF Placed, Parent, HasRow

LEMMA AboveSelf == ASSUME NEW u \in Users PROVE u \in Above(u)
  BY DEF Above

LEMMA AboveClosed ==
    ASSUME NEW u \in Users, NEW a \in Above(u), Parent(a) \in Users
    PROVE  Parent(a) \in Above(u)
  <1>1. SUFFICES ASSUME NEW S \in SUBSET (Users \ {Parent(a)}), u \in S
                 PROVE  \E v \in S : Parent(v) \notin S \cup {None}
    BY DEF Above
  <1>2. CASE a \in S
    BY <1>2, NoneAssumption
  <1>3. CASE a \notin S
    BY <1>1, <1>3 DEF Above
  <1> QED
    BY <1>2, <1>3

LEMMA AboveLeast ==
    ASSUME NEW S \in SUBSET Users, NEW u \in S, \A v \in S : Parent(v) \in S \cup {None}
    PROVE  Above(u) \subseteq S
  BY DEF Above

LEMMA AboveIs ==
    ASSUME TreeInv, NEW u \in Users
    PROVE  /\ Parent(u) = None => Above(u) = {u}
           /\ Parent(u) # None => Above(u) = {u} \cup Above(Parent(u))
  <1>1. \A v \in Users : Parent(v) \in Users \cup {None}
    BY ParentIs
  <1>2. u \in Above(u) /\ Above(u) \subseteq Users
    BY AboveSelf DEF Above
  <1>3. CASE Parent(u) = None
    <2>1. PICK S : S = {u}
      OBVIOUS
    <2>2. Above(u) \subseteq S
      BY <1>3, <2>1, AboveLeast
    <2> QED
      BY <1>2, <1>3, <2>1, <2>2
  <1>4. CASE Parent(u) # None
    <2>1. PICK q \in Users : q = Parent(u)
      BY <1>1, <1>4
    <2>2. q \in Above(q) /\ Above(q) \subseteq Users
      BY AboveSelf DEF Above
    <2>3. PICK S : S = {u} \cup Above(q)
      OBVIOUS
    <2>4. \A v \in S : Parent(v) \in S \cup {None}
      BY <1>1, <2>1, <2>2, <2>3, AboveClosed
    <2>5. Above(u) \subseteq S
      BY <2>2, <2>3, <2>4, AboveLeast
    <2>6. \A v \in Above(u) : Parent(v) \in Above(u) \cup {None}
      BY <1>1, <1>2, AboveClosed
    <2>7. q \in Above(u)
      BY <1>2, <2>1, AboveClosed
    <2>8. Above(q) \subseteq Above(u)
      BY <1>2, <2>6, <2>7, AboveLeast
    <2> QED
      BY <1>2, <1>4, <2>1, <2>3, <2>5, <2>8
  <1> QED
    BY <1>3, <1>4

LEMMA AboveLower ==
    ASSUME TreeInv, NEW u \in Users, NEW a \in Above(u), a # u
    PROVE  /\ a \in Users /\ referral[a] # NoReferral /\ referral[u] # NoReferral
           /\ referral[a].level < referral[u].level
  <1> DEFINE Lower(v) == /\ referral[v] # NoReferral /\ referral[u] # NoReferral
                         /\ referral[v].level < referral[u].level
  <1>1. PICK S : S = {v \in Users : v = u \/ Lower(v)}
    OBVIOUS
  <1>2. ASSUME NEW v \in S
        PROVE  Parent(v) \in S \cup {None}
    <2>1. v \in Users /\ (v = u \/ Lower(v))
      BY <1>1
    <2>2. CASE Parent(v) = None
      BY <2>2
    <2>3. CASE Parent(v) # None
      <3>1. /\ Parent(v) \in Users /\ referral[v] # NoReferral /\ referral[Parent(v)] # NoReferral
            /\ referral[v].level = referral[Parent(v)].level + 1
            /\ referral[v].level \in Nat
        BY <2>1, <2>3, ParentIs
      <3>2. referral[Parent(v)].level \in Nat
        BY <3>1, ParentIs
      <3>3. referral[u] # NoReferral => referral[u].level \in Nat
        BY ParentIs
      <3>4. Lower(Parent(v))
        BY <2>1, <3>1, <3>2, <3>3
      <3> QED
        BY <1>1, <3>1, <3>4
    <2> QED
      BY <2>2, <2>3
  <1>3. u \in S /\ S \in SUBSET Users
    BY <1>1
  <1>4. a \in S
    BY <1>2, <1>3, AboveLeast
  <1> QED
    BY <1>1, <1>4

LEMMA AboveSame ==
    ASSUME \A v \in Users : Parent(v)' = Parent(v), NEW u \in Users
    PROVE  Above(u)' = Above(u)
  BY DEF Above

LEMMA AboveNewRow ==
    ASSUME TreeInv, NEW b \in Users, referral[b] = NoReferral, NEW u \in Users, u # b,
           \A v \in Users : v # b => Parent(v)' = Parent(v)
    PROVE  Above(u)' = Above(u)
  <1>1. \A v \in Users : Parent(v) # b
    BY ParentIs, NoneAssumption
  <1>2. Parent(b) = None
    BY DEF Parent, HasRow
  <1>3. ASSUME NEW a \in Users, a \notin Above(u)'
        PROVE  a \notin Above(u)
    <2>1. PICK S \in SUBSET (Users \ {a}) :
              u \in S /\ \A v \in S : Parent(v)' \in S \cup {None}
      BY <1>3 DEF Above
    <2>2. PICK T : T = S \ {b}
      OBVIOUS
    <2>3. T \in SUBSET (Users \ {a}) /\ u \in T /\ \A v \in T : Parent(v) \in T \cup {None}
      BY <1>1, <2>1, <2>2
    <2> QED
      BY <2>3 DEF Above
  <1>4. ASSUME NEW a \in Users, a \notin Above(u)
        PROVE  a \notin Above(u)'
    <2>1. PICK S \in SUBSET (Users \ {a}) :
              u \in S /\ \A v \in S : Parent(v) \in S \cup {None}
      BY <1>4 DEF Above
    <2>2. PICK T : T = S \ {b}
      OBVIOUS
    <2>3. T \in SUBSET (Users \ {a}) /\ u \in T /\ \A v \in T : Parent(v)' \in T \cup {None}
      BY <1>1, <2>1, <2>2
    <2> QED
      BY <2>3 DEF Above
  <1> QED
    BY <1>3, <1>4 DEF Above

-------------------------------------------------------------------------------
(* What the counters stand for *)

\* What counter k of the row of a counts: members, or their deposits one by one.
Of(k, a) == IF k \in {"direct", "directDeposits"} THEN DirectOf({a}) ELSE Below(a)
Marks(k, a) ==
    IF k \in {"direct", "team"} THEN Of(k, a) ELSE Units([u \in Of(k, a) |-> paid[u]])
Owing(k, a) == {p \in Processes : Owes(run[p], k, a)}

Balanced(k, a) ==
    /\ IsFiniteSet(Marks(k, a))
    /\ referral[a].counts[k] + missed[a][k] + Cardinality(Owing(k, a)) = Cardinality(Marks(k, a))

\* The kind of what a run in state r adds.
AddsRight(p, r) ==
    /\ r.pc # "idle" /\ p = Script => r.adds = "member"
    /\ r.pc \notin Climbs \cup {"bonus", "idle"} => r.adds = "member"
    /\ r.pc = "bonus" => r.adds = "deposit"

CountInv ==
    /\ paid \in [Users -> Nat] /\ missed \in [Users -> Counts]
    /\ \A p \in Processes : AddsRight(p, run[p])
    /\ \A u \in Users : referral[u] = NoReferral => paid[u] = 0 /\ missed[u] = NoCounts
    /\ \A a \in Users : referral[a] # NoReferral => \A k \in Counters : Balanced(k, a)

LEMMA CountMeans == CountInv => CountersAddUp
  <1> SUFFICES ASSUME CountInv, NEW a \in Users, HasRow(a), NEW k \in Counters
               PROVE  referral[a].counts[k] + missed[a][k] + Rest(Processes, k, a) =
                          [direct |-> Cardinality(DirectOf({a})), team |-> Cardinality(Below(a)),
                           directDeposits |-> Total([u \in DirectOf({a}) |-> paid[u]]),
                           teamDeposits |-> Total([u \in Below(a) |-> paid[u]])][k]
    BY DEF CountersAddUp
  <1>1. Balanced(k, a)
    BY DEF CountInv, HasRow
  <1>2. Rest(Processes, k, a) = Cardinality(Owing(k, a))
    BY DEF Rest, Owing
  <1>3. CASE k = "direct"
    BY <1>1, <1>2, <1>3 DEF Balanced, Marks, Of
  <1>4. CASE k = "team"
    BY <1>1, <1>2, <1>4 DEF Balanced, Marks, Of
  <1>5. CASE k = "directDeposits"
    BY <1>1, <1>2, <1>5 DEF Balanced, Marks, Of, Total
  <1>6. CASE k = "teamDeposits"
    BY <1>1, <1>2, <1>6 DEF Balanced, Marks, Of, Total
  <1> QED
    BY <1>3, <1>4, <1>5, <1>6 DEF Counters

LEMMA OwingIsFinite ==
    ASSUME NEW k, NEW a
    PROVE  IsFiniteSet(Owing(k, a)) /\ Cardinality(Owing(k, a)) \in Nat
  <1>1. Owing(k, a) \in SUBSET Processes
    BY DEF Owing
  <1> QED
    BY <1>1, FiniteAssumption, FS_Subset, FS_CardinalityType

LEMMA BalanceIs ==
    ASSUME TreeInv, CountInv, NEW a \in Users, referral[a] # NoReferral, NEW k \in Counters
    PROVE  /\ referral[a].counts[k] \in Nat /\ missed[a][k] \in Nat
           /\ IsFiniteSet(Marks(k, a)) /\ Cardinality(Marks(k, a)) \in Nat
           /\ referral[a].counts[k] + missed[a][k] + Cardinality(Owing(k, a)) = Cardinality(Marks(k, a))
  <1>1. referral[a] \in ReferralRow /\ missed[a] \in Counts
    BY DEF TreeInv, TreeTypes, CountInv
  <1>2. referral[a].counts \in Counts
    BY <1>1 DEF ReferralRow
  <1>3. Balanced(k, a)
    BY DEF CountInv
  <1> QED
    BY <1>1, <1>2, <1>3, FS_CardinalityType DEF Counts, Balanced

\* What a step may do to a counter: nothing, have something more counted that a
\* run will add, or add it.
Keeps(k, a) ==
    /\ referral'[a].counts[k] = referral[a].counts[k] /\ missed'[a][k] = missed[a][k]
    /\ Marks(k, a)' = Marks(k, a) /\ Owing(k, a)' = Owing(k, a)
Takes(k, a) ==
    /\ referral'[a].counts[k] = referral[a].counts[k] /\ missed'[a][k] = missed[a][k]
    /\ \E m : m \notin Marks(k, a) /\ Marks(k, a)' = Marks(k, a) \cup {m}
    /\ \E p \in Processes : p \notin Owing(k, a) /\ Owing(k, a)' = Owing(k, a) \cup {p}
Pays(k, a) ==
    /\ referral'[a].counts[k] = referral[a].counts[k] + 1 /\ missed'[a][k] = missed[a][k]
    /\ Marks(k, a)' = Marks(k, a)
    /\ \E p \in Owing(k, a) : Owing(k, a)' = Owing(k, a) \ {p}
Gives(k, a) ==
    /\ referral'[a].counts[k] = referral[a].counts[k] /\ Marks(k, a)' = Marks(k, a)
    /\ \E S \in SUBSET Owing(k, a) : /\ Owing(k, a)' = Owing(k, a) \ S
                                     /\ missed'[a][k] = missed[a][k] + Cardinality(S)

LEMMA BalanceStays ==
    ASSUME TreeInv, CountInv, NEW a \in Users, referral[a] # NoReferral, NEW k \in Counters,
           Keeps(k, a) \/ Takes(k, a) \/ Pays(k, a) \/ Gives(k, a)
    PROVE  Balanced(k, a)'
  <1> DEFINE c == referral[a].counts[k]
             d == referral'[a].counts[k]
             m == missed[a][k]
             n == missed'[a][k]
             M == Marks(k, a)
             N == Marks(k, a)'
             O == Owing(k, a)
             Q == Owing(k, a)'
  <1>1. /\ c \in Nat /\ m \in Nat /\ IsFiniteSet(M) /\ Cardinality(M) \in Nat
        /\ c + m + Cardinality(O) = Cardinality(M)
    BY BalanceIs
  <1>2. IsFiniteSet(O) /\ Cardinality(O) \in Nat
    BY OwingIsFinite
  <1>3. \/ d = c /\ n = m /\ N = M /\ Q = O
        \/ /\ d = c /\ n = m
           /\ \E x : x \notin M /\ N = M \cup {x}
           /\ \E p \in Processes : p \notin O /\ Q = O \cup {p}
        \/ d = c + 1 /\ n = m /\ N = M /\ \E p \in O : Q = O \ {p}
        \/ d = c /\ N = M /\ \E S \in SUBSET O : Q = O \ S /\ n = m + Cardinality(S)
    BY Zenon DEF Keeps, Takes, Pays, Gives
  <1>4. SUFFICES IsFiniteSet(N) /\ d + n + Cardinality(Q) = Cardinality(N)
    BY Zenon DEF Balanced
  <1> HIDE DEF c, d, m, n, M, N, O, Q
  <1>5. CASE d = c /\ n = m /\ N = M /\ Q = O
    BY <1>1, <1>5
  <1>6. CASE /\ d = c /\ n = m
             /\ \E x : x \notin M /\ N = M \cup {x}
             /\ \E p \in Processes : p \notin O /\ Q = O \cup {p}
    <2>1. IsFiniteSet(N) /\ Cardinality(N) = Cardinality(M) + 1
      BY <1>1, <1>6, FS_AddElement
    <2>2. Cardinality(Q) = Cardinality(O) + 1
      BY <1>2, <1>6, FS_AddElement
    <2> QED
      BY <1>1, <1>2, <1>6, <2>1, <2>2
  <1>7. CASE d = c + 1 /\ n = m /\ N = M /\ \E p \in O : Q = O \ {p}
    <2>1. Cardinality(Q) = Cardinality(O) - 1
      BY <1>2, <1>7, FS_RemoveElement
    <2> QED
      BY <1>1, <1>2, <1>7, <2>1
  <1>8. CASE d = c /\ N = M /\ \E S \in SUBSET O : Q = O \ S /\ n = m + Cardinality(S)
    <2>1. PICK S \in SUBSET O : Q = O \ S /\ n = m + Cardinality(S)
      BY <1>8
    <2>2. O \cap S = S
      BY <2>1
    <2>3. Cardinality(Q) = Cardinality(O) - Cardinality(S)
      BY <1>2, <2>1, <2>2, FS_Difference
    <2>4. IsFiniteSet(S) /\ Cardinality(S) \in Nat
      BY <1>2, FS_Subset, FS_CardinalityType
    <2> QED
      BY <1>1, <1>2, <1>8, <2>1, <2>3, <2>4
  <1> QED
    BY <1>3, <1>5, <1>6, <1>7, <1>8

-------------------------------------------------------------------------------
(* What a step of one run leaves of what the others owe *)

OnlyMoves(p) == \A q \in Processes \ {p} : run'[q] = run[q]
AboveKept == \A v \in Users : referral[v] # NoReferral => Above(v)' = Above(v)

\* Only rows are owed to, by runs that climb.
LEMMA OwesRows ==
    ASSUME TreeInv, NEW q \in Processes, NEW k, NEW a \in Users, Owes(run[q], k, a)
    PROVE  /\ run[q].pc \in Climbs /\ run[q].at \in Users /\ referral[run[q].at] # NoReferral
           /\ a \in Above(run[q].at) /\ referral[a] # NoReferral
  <1>1. run[q].pc \in Climbs /\ (a = run[q].at \/ a \in Above(run[q].at))
    BY DEF Owes, Climbs
  <1>2. run[q].at \in Users /\ referral[run[q].at] # NoReferral
    BY <1>1 DEF TreeInv, Knows
  <1>3. a \in Above(run[q].at)
    BY <1>1, <1>2, AboveSelf
  <1> QED
    BY <1>1, <1>2, <1>3, AboveLower

LEMMA OwesStays ==
    ASSUME TreeInv, AboveKept, NEW q \in Processes, run'[q] = run[q], NEW k, NEW a
    PROVE  Owes(run[q], k, a)' <=> Owes(run[q], k, a)
  <1>1. CASE run[q].pc \notin Climbs
    BY <1>1 DEF Owes, Climbs
  <1>2. CASE run[q].pc \in Climbs
    <2>1. PICK v \in Users : v = run[q].at /\ referral[v] # NoReferral
      BY <1>2 DEF TreeInv, Knows
    <2>2. Above(v)' = Above(v)
      BY <2>1 DEF AboveKept
    <2>3. Above(run[q].at)' = Above(run[q].at)
      BY <2>1, <2>2 DEF Above
    <2> QED
      BY <2>3 DEF Owes
  <1> QED
    BY <1>1, <1>2

LEMMA OthersOwe ==
    ASSUME TreeInv, AboveKept, NEW p \in Processes, OnlyMoves(p), NEW k, NEW a
    PROVE  Owing(k, a)' \ {p} = Owing(k, a) \ {p}
  <1>1. \A q \in Processes \ {p} : Owes(run[q], k, a)' <=> Owes(run[q], k, a)
    BY OwesStays DEF OnlyMoves
  <1> QED
    BY <1>1 DEF Owing

LEMMA OwesItself ==
    ASSUME NEW p \in Processes, NEW k, NEW a
    PROVE  /\ p \in Owing(k, a) <=> Owes(run[p], k, a)
           /\ p \in Owing(k, a)' <=> Owes(run[p], k, a)'
  BY DEF Owing

\* A run that does not climb owes nothing.
LEMMA NothingOwed ==
    ASSUME NEW p \in Processes, NEW k, NEW a
    PROVE  /\ run[p].pc \notin Climbs => p \notin Owing(k, a)
           /\ run'[p].pc \notin Climbs => p \notin Owing(k, a)'
  BY DEF Owing, Owes, Climbs

LEMMA RowsKeepAbove ==
    ASSUME TreeInv, \A v \in Users : Parent(v)' = Parent(v)
    PROVE  AboveKept
  BY AboveSame DEF AboveKept

\* The rows, and what is counted below them, when only counters change.
SameTree ==
    \A v \in Users : /\ referral'[v] # NoReferral <=> referral[v] # NoReferral
                     /\ referral[v] # NoReferral => referral'[v].sponsor = referral[v].sponsor

LEMMA TreeKeepsMembers ==
    ASSUME SameTree
    PROVE  /\ \A v \in Users : Parent(v)' = Parent(v) /\ Above(v)' = Above(v)
           /\ \A k, a : Of(k, a)' = Of(k, a)
  <1>1. \A v \in Users : Parent(v)' = Parent(v)
    BY DEF Parent, HasRow, SameTree
  <1>2. \A v \in Users : Above(v)' = Above(v)
    BY <1>1, AboveSame
  <1>3. \A a : DirectOf({a})' = DirectOf({a})
    BY DEF DirectOf, HasRow, SameTree
  <1>4. \A a : Below(a)' = Below(a)
    BY <1>2 DEF Below, HasRow, SameTree
  <1> QED
    BY <1>1, <1>2, <1>3, <1>4 DEF Of

LEMMA TreeKeepsMarks ==
    ASSUME TreeInv, SameTree, UNCHANGED paid
    PROVE  AboveKept /\ \A k, a : Marks(k, a)' = Marks(k, a)
  <1>1. AboveKept
    BY TreeKeepsMembers DEF AboveKept
  <1>2. ASSUME NEW k, NEW a
        PROVE  Marks(k, a)' = Marks(k, a)
    <2>1. Of(k, a)' = Of(k, a)
      BY TreeKeepsMembers
    <2> QED
      BY <2>1 DEF Marks
  <1> QED
    BY <1>1, <1>2

LEMMA SameIsTree ==
    UNCHANGED referral => SameTree
  BY DEF SameTree

-------------------------------------------------------------------------------
(* Steps that count nothing *)

LEMMA QuietBalance ==
    ASSUME TreeInv, CountInv, NEW p \in Processes, OnlyMoves(p), UNCHANGED <<referral, paid, missed>>,
           run[p].pc \notin Climbs, run'[p].pc \notin Climbs,
           NEW a \in Users, referral[a] # NoReferral, NEW k \in Counters
    PROVE  Balanced(k, a)'
  <1>1. AboveKept /\ Marks(k, a)' = Marks(k, a)
    BY SameIsTree, TreeKeepsMarks
  <1>2. Owing(k, a)' = Owing(k, a)
    BY <1>1, OthersOwe, NothingOwed
  <1>3. Keeps(k, a)
    BY <1>1, <1>2 DEF Keeps
  <1> QED
    BY <1>3, BalanceStays

\* A step that moves no run.
LEMMA StillBalance ==
    ASSUME TreeInv, CountInv, UNCHANGED <<referral, paid, missed, run>>,
           NEW a \in Users, referral[a] # NoReferral, NEW k \in Counters
    PROVE  Balanced(k, a)'
  <1>1. Marks(k, a)' = Marks(k, a)
    BY SameIsTree, TreeKeepsMarks
  <1>2. Owing(k, a)' = Owing(k, a)
    <2>1. AboveKept
      BY SameIsTree, TreeKeepsMarks
    <2> QED
      BY <2>1, OwesStays DEF Owing
  <1>3. Keeps(k, a)
    BY <1>1, <1>2 DEF Keeps
  <1> QED
    BY <1>3, BalanceStays

-------------------------------------------------------------------------------
(* Steps that raise a counter *)

LEMMA RaisedIs ==
    ASSUME TreeInv, NEW a \in Users, referral[a] # NoReferral, NEW k \in Counters,
           referral' = [referral EXCEPT ![a].counts[k] = @ + 1]
    PROVE  /\ SameTree
           /\ referral'[a].counts[k] = referral[a].counts[k] + 1
           /\ \A b \in Users, j \in Counters :
                  referral[b] # NoReferral /\ (b # a \/ j # k) =>
                      referral'[b].counts[j] = referral[b].counts[j]
  <1>1. PICK c : c = referral[a].counts
    OBVIOUS
  <1>2. referral[a] \in ReferralRow /\ c \in Counts
    BY <1>1 DEF TreeInv, TreeTypes, ReferralRow
  <1>3. PICK d : d = [c EXCEPT ![k] = @ + 1]
    OBVIOUS
  <1>4. d \in Counts /\ d[k] = c[k] + 1 /\ \A j \in Counters \ {k} : d[j] = c[j]
    BY <1>2, <1>3 DEF Counts
  <1>5. PICK y : y = [referral[a] EXCEPT !.counts = d]
    OBVIOUS
  <1>6. y \in ReferralRow /\ y.sponsor = referral[a].sponsor /\ y.counts = d
    BY <1>2, <1>4, <1>5 DEF ReferralRow
  <1>7. referral' = [referral EXCEPT ![a] = y]
    BY <1>1, <1>3, <1>5
  <1>8. referral'[a] = y /\ \A b \in Users \ {a} : referral'[b] = referral[b]
    BY <1>7 DEF TreeInv, TreeTypes
  <1>9. y # NoReferral
    BY <1>6, RowsAreNotNone
  <1> QED
    BY <1>1, <1>4, <1>6, <1>8, <1>9 DEF SameTree

\* A run adds to one counter what it owed to it, and nothing else changes hands.
Raises(p, k, a) ==
    /\ referral[a] # NoReferral
    /\ referral' = [referral EXCEPT ![a].counts[k] = @ + 1]
    /\ UNCHANGED <<paid, missed>> /\ OnlyMoves(p)
    /\ Owes(run[p], k, a)
    /\ \A b \in Users, j \in Counters :
           Owes(run[p], j, b)' <=> Owes(run[p], j, b) /\ (b # a \/ j # k)

LEMMA RaiseBalance ==
    ASSUME TreeInv, CountInv, NEW p \in Processes, NEW a \in Users, NEW k \in Counters,
           Raises(p, k, a), NEW b \in Users, referral[b] # NoReferral, NEW j \in Counters
    PROVE  Balanced(j, b)'
  <1> /\ referral[a] # NoReferral
      /\ referral' = [referral EXCEPT ![a].counts[k] = @ + 1]
      /\ UNCHANGED <<paid, missed>> /\ OnlyMoves(p)
      /\ Owes(run[p], k, a)
      /\ Owes(run[p], j, b)' <=> Owes(run[p], j, b) /\ (b # a \/ j # k)
    BY DEF Raises
  <1>1. AboveKept /\ Marks(j, b)' = Marks(j, b)
    BY RaisedIs, TreeKeepsMarks
  <1>2. Owing(j, b)' \ {p} = Owing(j, b) \ {p}
    BY <1>1, OthersOwe
  <1>3. /\ p \in Owing(j, b) <=> Owes(run[p], j, b)
        /\ p \in Owing(j, b)' <=> Owes(run[p], j, b)'
    BY OwesItself
  <1>4. CASE b = a /\ j = k
    <2>1. p \in Owing(j, b) /\ Owing(j, b)' = Owing(j, b) \ {p}
      BY <1>2, <1>3, <1>4
    <2>2. referral'[b].counts[j] = referral[b].counts[j] + 1 /\ missed'[b][j] = missed[b][j]
      BY <1>4, RaisedIs
    <2>3. Pays(j, b)
      BY <1>1, <2>1, <2>2 DEF Pays
    <2> QED
      BY <2>3, BalanceStays
  <1>5. CASE b # a \/ j # k
    <2>1. Owing(j, b)' = Owing(j, b)
      BY <1>2, <1>3, <1>5
    <2>2. referral'[b].counts[j] = referral[b].counts[j] /\ missed'[b][j] = missed[b][j]
      BY <1>5, RaisedIs
    <2>3. Keeps(j, b)
      BY <1>1, <2>1, <2>2 DEF Keeps
    <2> QED
      BY <2>3, BalanceStays
  <1> QED
    BY <1>4, <1>5

LEMMA MovesOnly ==
    ASSUME TreeInv, NEW p \in Processes, NEW x, run' = [run EXCEPT ![p] = x]
    PROVE  OnlyMoves(p) /\ run'[p] = x
  BY DEF OnlyMoves, TreeInv, TreeTypes

LEMMA OwnBalance ==
    ASSUME TreeInv, CountInv, NEW p \in Processes, CountDirect(p) \/ UpdateSponsorStats(p),
           NEW b \in Users, referral[b] # NoReferral, NEW j \in Counters
    PROVE  Balanced(j, b)'
  <1>1. /\ run[p].pc = "own" /\ Goto(p, "walk") /\ UNCHANGED <<paid, missed>>
        /\ run' = [run EXCEPT ![p] = [run[p] EXCEPT !.pc = "walk"]]
    BY DEF CountDirect, UpdateSponsorStats, At, Goto
  <1>2. PICK a \in Users : a = run[p].at /\ referral[a] # NoReferral
    BY <1>1 DEF TreeInv, Knows, Climbs
  <1>3. OnlyMoves(p) /\ run'[p] = [run[p] EXCEPT !.pc = "walk"] /\ run[p] \in RunState
    BY <1>1, MovesOnly, RunTypes DEF TreeInv, TreeTypes
  <1>4. run'[p].pc = "walk" /\ run'[p].at = run[p].at /\ run'[p].adds = run[p].adds
    BY <1>3 DEF RunState
  <1>5. PICK k \in Counters :
            /\ k = IF run[p].adds = "member" THEN "direct" ELSE "directDeposits"
            /\ referral' = [referral EXCEPT ![a].counts[k] = @ + 1]
    <2>1. CASE CountDirect(p)
      BY <1>2, <2>1 DEF CountDirect, Counters
    <2>2. CASE UpdateSponsorStats(p)
      BY <1>2, <2>2 DEF UpdateSponsorStats, Counters
    <2> QED
      BY <2>1, <2>2
  <1>6. Above(a)' = Above(a)
    BY <1>2, <1>5, RaisedIs, TreeKeepsMembers
  <1>7. Above(run[p].at)' = Above(run[p].at)
    BY <1>2, <1>4, <1>6 DEF Above
  <1>8. k \notin {"team", "teamDeposits"}
    BY <1>5
  <1>9. Owes(run[p], k, a)
    BY <1>1, <1>2, <1>5 DEF Owes
  <1>10. ASSUME NEW c \in Users, NEW i \in Counters
         PROVE  Owes(run[p], i, c)' <=> Owes(run[p], i, c) /\ (c # a \/ i # k)
    BY <1>1, <1>2, <1>4, <1>5, <1>7, <1>8 DEF Owes
  <1>11. Raises(p, k, a)
    BY <1>1, <1>2, <1>3, <1>5, <1>9, <1>10 DEF Raises
  <1> QED
    BY <1>11, RaiseBalance

LEMMA WalkBalance ==
    ASSUME TreeInv, CountInv, NEW p \in Processes, Walk(p),
           NEW b \in Users, referral[b] # NoReferral, NEW j \in Counters
    PROVE  Balanced(j, b)'
  <1>1. run[p].pc = "walk" /\ run[p].pc # "idle" /\ UNCHANGED <<paid, missed>>
    BY DEF Walk, At
  <1>2. PICK a \in Users : a = run[p].at /\ referral[a] # NoReferral
    BY <1>1 DEF TreeInv, Knows, Climbs
  <1>3. run[p] \in RunState
    BY <1>1, RunTypes DEF TreeInv, TreeTypes
  <1>4. PICK k \in Counters :
            /\ k = IF run[p].adds = "member" THEN "team" ELSE "teamDeposits"
            /\ referral' = [referral EXCEPT ![a].counts[k] = @ + 1]
    BY <1>2 DEF Walk, Counters
  <1>5. \A v \in Users : Above(v)' = Above(v)
    BY <1>2, <1>4, RaisedIs, TreeKeepsMembers
  <1>6. Owes(run[p], k, a)
    BY <1>1, <1>2, <1>4, AboveSelf DEF Owes
  <1>7. CASE referral[a].sponsor = None
    <2>1. Done(p)
      BY <1>2, <1>7 DEF Walk
    <2>2. PICK x \in RunState \cup {Idle} : run' = [run EXCEPT ![p] = x] /\ Over(x, p)
      BY <1>1, <2>1, DoneIs
    <2>3. OnlyMoves(p) /\ run'[p].pc \notin Climbs
      BY <2>2, MovesOnly DEF Over, Climbs
    <2>4. Above(a) = {a}
      BY <1>2, <1>7, AboveIs DEF Parent, HasRow
    <2>5. ASSUME NEW c \in Users, NEW i \in Counters
          PROVE  Owes(run[p], i, c)' <=> Owes(run[p], i, c) /\ (c # a \/ i # k)
      BY <1>1, <1>2, <1>4, <2>3, <2>4 DEF Owes, Climbs
    <2>6. Raises(p, k, a)
      BY <1>1, <1>2, <1>4, <1>6, <2>3, <2>5 DEF Raises
    <2> QED
      BY <2>6, RaiseBalance
  <1>8. CASE referral[a].sponsor # None
    <2>1. PICK s \in Users : s = referral[a].sponsor /\ s = Parent(a)
      BY <1>2, <1>8, ParentIs DEF Parent, HasRow
    <2>2. run' = [run EXCEPT ![p] = [run[p] EXCEPT !.at = s]]
      BY <1>2, <1>8, <2>1 DEF Walk
    <2>3. OnlyMoves(p) /\ run'[p] = [run[p] EXCEPT !.at = s]
      BY <2>2, MovesOnly
    <2>4. run'[p].pc = "walk" /\ run'[p].at = s /\ run'[p].adds = run[p].adds
      BY <1>1, <1>3, <2>3 DEF RunState
    <2>5. Above(a) = {a} \cup Above(s) /\ referral[a].level = referral[s].level + 1
      BY <1>2, <2>1, AboveIs, ParentIs, NoneAssumption
    <2>6. a \notin Above(s)
      <3>1. referral[s] # NoReferral /\ referral[s].level \in Nat /\ referral[a].level \in Nat
        BY <1>2, <2>1, ParentIs, NoneAssumption
      <3>2. ~(referral[a].level < referral[s].level) /\ a # s
        BY <2>5, <3>1
      <3> QED
        BY <3>2, AboveLower
    <2>7. Above(run[p].at)' = Above(s)
      BY <1>5, <2>1, <2>4 DEF Above
    <2>8. ASSUME NEW c \in Users, NEW i \in Counters
          PROVE  Owes(run[p], i, c)' <=> Owes(run[p], i, c) /\ (c # a \/ i # k)
      BY <1>1, <1>2, <1>4, <2>4, <2>5, <2>6, <2>7 DEF Owes
    <2>9. Raises(p, k, a)
      BY <1>1, <1>2, <1>4, <1>6, <2>3, <2>8 DEF Raises
    <2> QED
      BY <2>9, RaiseBalance
  <1> QED
    BY <1>7, <1>8

-------------------------------------------------------------------------------
(* A deposit *)

LEMMA OnePaidMore ==
    ASSUME CountInv, NEW u \in Users, paid' = [paid EXCEPT ![u] = @ + 1], NEW S \in SUBSET Users
    PROVE  /\ u \in S => /\ <<u, paid[u] + 1>> \notin Units([v \in S |-> paid[v]])
                         /\ Units([v \in S |-> paid'[v]]) =
                                Units([v \in S |-> paid[v]]) \cup {<<u, paid[u] + 1>>}
           /\ u \notin S => Units([v \in S |-> paid'[v]]) = Units([v \in S |-> paid[v]])
  <1>1. /\ paid[u] \in Nat /\ paid'[u] = paid[u] + 1
        /\ \A v \in Users \ {u} : paid'[v] = paid[v]
    BY DEF CountInv
  <1>2. CASE u \notin S
    <2>1. [v \in S |-> paid'[v]] = [v \in S |-> paid[v]]
      BY <1>1, <1>2
    <2> QED
      BY <1>2, <2>1
  <1>3. CASE u \in S
    <2>1. <<u, paid[u] + 1>> \notin Units([v \in S |-> paid[v]])
      BY <1>1 DEF Units
    <2>2. 1..(paid[u] + 1) = (1..paid[u]) \cup {paid[u] + 1}
      BY <1>1
    <2>3. ASSUME NEW z
          PROVE  z \in Units([v \in S |-> paid'[v]]) <=>
                     z \in Units([v \in S |-> paid[v]]) \cup {<<u, paid[u] + 1>>}
      <3>1. z \in Units([v \in S |-> paid'[v]]) <=> \E v \in S : z \in {v} \X (1..paid'[v])
        BY DEF Units
      <3>2. z \in Units([v \in S |-> paid[v]]) <=> \E v \in S : z \in {v} \X (1..paid[v])
        BY DEF Units
      <3>3. z \in {u} \X (1..paid'[u]) <=> z \in {u} \X (1..paid[u]) \/ z = <<u, paid[u] + 1>>
        BY <1>1, <2>2
      <3> QED
        BY <1>1, <1>3, <3>1, <3>2, <3>3
    <2> QED
      BY <1>3, <2>1, <2>3
  <1> QED
    BY <1>2, <1>3

LEMMA FindDepositorBalance ==
    ASSUME TreeInv, CountInv, NEW p \in Processes, FindDepositor(p),
           NEW b \in Users, referral[b] # NoReferral, NEW j \in Counters
    PROVE  Balanced(j, b)'
  <1>1. /\ run[p].pc = "bonus" /\ run[p].pc # "idle" /\ run[p].pc \notin Climbs
        /\ UNCHANGED <<referral, missed>>
    BY DEF FindDepositor, At, Climbs
  <1>2. PICK u \in Users : u = run[p].user
    BY <1>1, RunTypes DEF TreeInv, TreeTypes
  <1>3. run[p] \in RunState /\ run[p].adds = "deposit"
    BY <1>1, RunTypes DEF TreeInv, TreeTypes, CountInv, AddsRight
  <1>4. CASE run' = [run EXCEPT ![p] = Idle] /\ UNCHANGED paid
    <2>1. OnlyMoves(p) /\ run'[p].pc \notin Climbs
      BY <1>4, MovesOnly, IdleRun DEF Climbs
    <2> QED
      BY <1>1, <1>4, <2>1, QuietBalance
  <1>5. CASE /\ referral[u] # NoReferral /\ referral[u].sponsor # None
             /\ run' = [run EXCEPT ![p].pc = "own", ![p].at = referral[u].sponsor]
             /\ paid' = [paid EXCEPT ![u] = @ + 1]
    <2>1. PICK s \in Users : s = referral[u].sponsor /\ s = Parent(u)
      BY <1>5, ParentIs DEF Parent, HasRow
    <2>2. run' = [run EXCEPT ![p] = [run[p] EXCEPT !.pc = "own", !.at = s]]
      BY <1>5, <2>1
    <2>3. OnlyMoves(p) /\ run'[p] = [run[p] EXCEPT !.pc = "own", !.at = s]
      BY <2>2, MovesOnly
    <2>4. run'[p].pc = "own" /\ run'[p].at = s /\ run'[p].adds = "deposit"
      BY <1>3, <2>3 DEF RunState
    <2>5. /\ \A v \in Users : Above(v)' = Above(v)
          /\ \A k, a : Of(k, a)' = Of(k, a)
      BY <1>1, SameIsTree, TreeKeepsMembers
    <2>6. AboveKept
      BY <2>5 DEF AboveKept
    <2>7. Above(u) = {u} \cup Above(s) /\ u \notin Above(s)
      <3>1. /\ Above(u) = {u} \cup Above(s) /\ referral[s] # NoReferral
            /\ referral[u].level = referral[s].level + 1
        BY <2>1, AboveIs, ParentIs, NoneAssumption
      <3>2. referral[s].level \in Nat /\ referral[u].level \in Nat
        BY <1>5, <3>1, ParentIs
      <3>3. ~(referral[u].level < referral[s].level) /\ u # s
        BY <3>1, <3>2
      <3> QED
        BY <3>1, <3>3, AboveLower
    <2>8. Above(run[p].at)' = Above(s)
      BY <2>4, <2>5 DEF Above
    <2>9. Owes(run[p], j, b)' <=> j \in {"directDeposits", "teamDeposits"} /\ u \in Of(j, b)
      <3>1. u \in DirectOf({b}) <=> b = s
        BY <1>5, <2>1 DEF DirectOf, HasRow
      <3>2. u \in Below(b) <=> b \in Above(s)
        BY <1>5, <2>7 DEF Below, HasRow
      <3> QED
        BY <2>4, <2>8, <3>1, <3>2 DEF Owes, Of, Counters
    <2>10. Owing(j, b)' \ {p} = Owing(j, b) /\ p \notin Owing(j, b)
      BY <1>1, <2>3, <2>6, OthersOwe, NothingOwed
    <2>11. p \in Owing(j, b)' <=> Owes(run[p], j, b)'
      BY OwesItself
    <2>12. Of(j, b) \in SUBSET Users /\ Of(j, b)' = Of(j, b)
      BY <2>5 DEF Of, DirectOf, Below
    <2>13. CASE j \in {"direct", "team"}
      <3>1. Marks(j, b)' = Marks(j, b)
        BY <2>12, <2>13 DEF Marks
      <3>2. Owing(j, b)' = Owing(j, b)
        BY <2>9, <2>10, <2>11, <2>13
      <3>3. Keeps(j, b)
        BY <1>1, <3>1, <3>2 DEF Keeps
      <3> QED
        BY <3>3, BalanceStays
    <2>14. CASE j \in {"directDeposits", "teamDeposits"}
      <3>1. /\ Marks(j, b) = Units([v \in Of(j, b) |-> paid[v]])
            /\ Marks(j, b)' = Units([v \in Of(j, b) |-> paid'[v]])
        BY <2>12, <2>14 DEF Marks
      <3>2. CASE u \in Of(j, b)
        <4>1. /\ <<u, paid[u] + 1>> \notin Marks(j, b)
              /\ Marks(j, b)' = Marks(j, b) \cup {<<u, paid[u] + 1>>}
          <5>1. PICK S \in SUBSET Users : S = Of(j, b)
            BY <2>12
          <5>2. paid' = [paid EXCEPT ![u] = @ + 1] /\ u \in S
            BY <1>5, <3>2, <5>1
          <5>3. /\ <<u, paid[u] + 1>> \notin Units([v \in S |-> paid[v]])
                /\ Units([v \in S |-> paid'[v]]) =
                       Units([v \in S |-> paid[v]]) \cup {<<u, paid[u] + 1>>}
            BY <5>2, OnePaidMore
          <5> QED
            BY <3>1, <5>1, <5>3, Zenon
        <4>2. p \notin Owing(j, b) /\ Owing(j, b)' = Owing(j, b) \cup {p}
          BY <2>9, <2>10, <2>11, <2>14, <3>2
        <4>3. Takes(j, b)
          BY <1>1, <4>1, <4>2 DEF Takes
        <4> QED
          BY <4>3, BalanceStays
      <3>3. CASE u \notin Of(j, b)
        <4>1. Marks(j, b)' = Marks(j, b)
          BY <1>5, <2>12, <3>1, <3>3, OnePaidMore
        <4>2. Owing(j, b)' = Owing(j, b)
          BY <2>9, <2>10, <2>11, <3>3
        <4>3. Keeps(j, b)
          BY <1>1, <4>1, <4>2 DEF Keeps
        <4> QED
          BY <4>3, BalanceStays
      <3> QED
        BY <3>2, <3>3
    <2> QED
      BY <2>13, <2>14 DEF Counters
  <1> QED
    BY <1>2, <1>4, <1>5 DEF FindDepositor, HasRow

-------------------------------------------------------------------------------
(* A new row *)

\* Row b is added under s, or as a root.
NewRow(b, s) ==
    /\ referral[b] = NoReferral /\ s \in Users \cup {None}
    /\ s # None => referral[s] # NoReferral
    /\ \A v \in Users \ {b} : referral'[v] = referral[v]
    /\ referral'[b] # NoReferral /\ referral'[b].sponsor = s /\ referral'[b].counts = NoCounts

\* A row under s is counted by counter k of the row of a.
Joins(s, k, a) ==
    s # None /\ IF k \in {"direct", "directDeposits"} THEN a = s ELSE a \in Above(s)

LEMMA NewRowAbove ==
    ASSUME TreeInv, NEW b \in Users, NEW s, NewRow(b, s)
    PROVE  /\ \A u \in Users \ {b} : Above(u)' = Above(u)
           /\ AboveKept
           /\ Above(b)' = {b} \cup {a \in Users : s # None /\ a \in Above(s)}
  <1>1. /\ \A v \in Users \ {b} : Parent(v)' = Parent(v)
        /\ Parent(b)' = s
    BY DEF NewRow, Parent, HasRow
  <1>2. \A u \in Users \ {b} : Above(u)' = Above(u)
    BY <1>1, AboveNewRow DEF NewRow
  <1>3. AboveKept
    BY <1>2 DEF AboveKept, NewRow
  <1>4. \A v \in Users : Parent(v) # b /\ Parent(v) \in Users \cup {None}
    BY ParentIs, NoneAssumption DEF NewRow
  <1>5. ASSUME NEW a \in Users, a # b, a \notin Above(b)'
        PROVE  s = None \/ a \notin Above(s)
    <2>1. PICK S \in SUBSET (Users \ {a}) :
              b \in S /\ \A v \in S : Parent(v)' \in S \cup {None}
      BY <1>5 DEF Above
    <2>2. PICK T : T = S \ {b}
      OBVIOUS
    <2>3. T \in SUBSET (Users \ {a}) /\ \A v \in T : Parent(v) \in T \cup {None}
      BY <1>1, <1>4, <2>1, <2>2
    <2>4. s # None => s \in T
      BY <1>1, <2>1, <2>2 DEF NewRow
    <2> QED
      BY <2>3, <2>4 DEF Above
  <1>6. ASSUME NEW a \in Users, a # b, s = None \/ a \notin Above(s)
        PROVE  a \notin Above(b)'
    <2>1. PICK T \in SUBSET (Users \ {a}) :
              (s # None => s \in T) /\ \A v \in T : Parent(v) \in T \cup {None}
      <3>1. CASE s = None
        <4>1. PICK T : T = {}
          OBVIOUS
        <4> QED
          BY <3>1, <4>1
      <3>2. CASE s # None
        BY <1>6, <3>2 DEF Above, NewRow
      <3> QED
        BY <3>1, <3>2
    <2>2. PICK S : S = T \cup {b}
      OBVIOUS
    <2>3. S \in SUBSET (Users \ {a}) /\ b \in S /\ \A v \in S : Parent(v)' \in S \cup {None}
      BY <1>1, <1>6, <2>1, <2>2
    <2> QED
      BY <2>3 DEF Above
  <1>7. b \in Above(b)' /\ \A a \in Above(b)' : a \in Users
    BY DEF Above
  <1> QED
    BY <1>2, <1>3, <1>5, <1>6, <1>7

LEMMA NewRowMembers ==
    ASSUME TreeInv, NEW b \in Users, NEW s, NewRow(b, s), NEW k
    PROVE  /\ \A a \in Users \ {b} :
                  /\ b \notin Of(k, a)
                  /\ Joins(s, k, a) => Of(k, a)' = Of(k, a) \cup {b}
                  /\ ~Joins(s, k, a) => Of(k, a)' = Of(k, a)
           /\ Of(k, b)' = {} /\ ~Joins(s, k, b)
  <1>1. /\ \A u \in Users \ {b} : Above(u)' = Above(u)
        /\ Above(b)' = {b} \cup {a \in Users : s # None /\ a \in Above(s)}
    BY NewRowAbove
  <1>2. \A u \in Users \ {b} : b \notin Above(u)
    BY AboveLower DEF NewRow
  <1>3. \A v \in Users : Parent(v) # b
    BY ParentIs, NoneAssumption DEF NewRow
  <1>4. s # b /\ (s # None => b \notin Above(s))
    BY <1>2, NoneAssumption DEF NewRow
  <1>5. Above(b) = {b}
    BY AboveIs DEF NewRow, Parent, HasRow
  <1>6. \A a \in Users \ {b} :
            /\ b \notin Below(a)
            /\ s # None /\ a \in Above(s) => Below(a)' = Below(a) \cup {b}
            /\ ~(s # None /\ a \in Above(s)) => Below(a)' = Below(a)
    <2>1. HasRow(b)' /\ ~HasRow(b) /\ \A u \in Users \ {b} : HasRow(u)' = HasRow(u)
      BY DEF NewRow, HasRow
    <2> QED
      BY <1>1, <2>1 DEF Below
  <1>7. Below(b)' = {}
    BY <1>1, <1>2 DEF Below
  <1>8. \A a \in Users \ {b} :
            /\ b \notin DirectOf({a})
            /\ s # None /\ a = s => DirectOf({a})' = DirectOf({a}) \cup {b}
            /\ ~(s # None /\ a = s) => DirectOf({a})' = DirectOf({a})
    BY NoneAssumption DEF DirectOf, HasRow, NewRow
  <1>9. DirectOf({b})' = {}
    <2>1. ASSUME NEW v \in Users, v # b, referral[v] # NoReferral
          PROVE  referral[v].sponsor # b
      BY <1>3, <2>1 DEF Parent, HasRow
    <2> QED
      BY <1>4, <2>1 DEF DirectOf, HasRow, NewRow
  <1> QED
    BY <1>4, <1>6, <1>7, <1>8, <1>9 DEF Of, Joins

LEMMA NothingPaid ==
    ASSUME NEW S, NEW b, paid[b] = 0
    PROVE  Units([v \in S \cup {b} |-> paid[v]]) = Units([v \in S |-> paid[v]])
  <1>1. {b} \X (1..paid[b]) = {}
    OBVIOUS
  <1>2. ASSUME NEW z
        PROVE  z \in Units([v \in S \cup {b} |-> paid[v]]) <=> z \in Units([v \in S |-> paid[v]])
    <2>1. z \in Units([v \in S \cup {b} |-> paid[v]]) <=>
              \E v \in S \cup {b} : z \in {v} \X (1..paid[v])
      BY DEF Units
    <2>2. z \in Units([v \in S |-> paid[v]]) <=> \E v \in S : z \in {v} \X (1..paid[v])
      BY DEF Units
    <2>3. z \notin {b} \X (1..paid[b])
      BY <1>1
    <2> QED
      BY <2>1, <2>2, <2>3
  <1> QED
    BY <1>2

LEMMA NewRowBalance ==
    ASSUME TreeInv, CountInv, NEW p \in Processes, OnlyMoves(p), UNCHANGED <<paid, missed>>,
           run[p].pc \notin Climbs, NEW b \in Users, NEW s, NewRow(b, s),
           NEW k \in Counters, NEW a \in Users, referral'[a] # NoReferral,
           Owes(run[p], k, a)' <=> k \in {"direct", "team"} /\ Joins(s, k, a)
    PROVE  Balanced(k, a)'
  <1>1. AboveKept
    BY NewRowAbove
  <1>2. Owing(k, a)' \ {p} = Owing(k, a) /\ p \notin Owing(k, a)
    BY <1>1, OthersOwe, NothingOwed
  <1>3. p \in Owing(k, a)' <=> k \in {"direct", "team"} /\ Joins(s, k, a)
    BY OwesItself
  <1>4. CASE a # b
    <2>1. referral'[a] = referral[a] /\ referral[a] # NoReferral
      BY <1>4 DEF NewRow
    <2>2. /\ b \notin Of(k, a)
          /\ Joins(s, k, a) => Of(k, a)' = Of(k, a) \cup {b}
          /\ ~Joins(s, k, a) => Of(k, a)' = Of(k, a)
      BY <1>4, NewRowMembers
    <2>3. CASE k \in {"direct", "team"} /\ Joins(s, k, a)
      <3>1. b \notin Marks(k, a) /\ Marks(k, a)' = Marks(k, a) \cup {b}
        BY <2>2, <2>3 DEF Marks
      <3>2. p \notin Owing(k, a) /\ Owing(k, a)' = Owing(k, a) \cup {p}
        BY <1>2, <1>3, <2>3
      <3>3. Takes(k, a)
        BY <2>1, <3>1, <3>2 DEF Takes
      <3> QED
        BY <2>1, <3>3, BalanceStays
    <2>4. CASE ~(k \in {"direct", "team"} /\ Joins(s, k, a))
      <3>1. Owing(k, a)' = Owing(k, a)
        BY <1>2, <1>3, <2>4
      <3>2. Marks(k, a)' = Marks(k, a)
        <4>1. CASE k \in {"direct", "team"}
          BY <2>2, <2>4, <4>1 DEF Marks
        <4>2. CASE k \notin {"direct", "team"}
          <5>1. paid[b] = 0
            BY DEF CountInv, NewRow
          <5>2. PICK S : S = Of(k, a)
            OBVIOUS
          <5>3. Of(k, a)' = S \/ Of(k, a)' = S \cup {b}
            BY <2>2, <5>2
          <5>4. Marks(k, a) = Units([v \in S |-> paid[v]])
            BY <4>2, <5>2 DEF Marks
          <5>5. Marks(k, a)' = Units([v \in Of(k, a)' |-> paid[v]])
            BY <4>2 DEF Marks
          <5>6. Units([v \in S \cup {b} |-> paid[v]]) = Units([v \in S |-> paid[v]])
            BY <5>1, NothingPaid
          <5> QED
            BY <5>3, <5>4, <5>5, <5>6, Zenon
        <4> QED
          BY <4>1, <4>2
      <3>3. Keeps(k, a)
        BY <2>1, <3>1, <3>2 DEF Keeps
      <3> QED
        BY <2>1, <3>3, BalanceStays
    <2> QED
      BY <2>3, <2>4
  <1>5. CASE a = b
    <2>1. Of(k, a)' = {} /\ ~Joins(s, k, a)
      BY <1>5, NewRowMembers
    <2>2. Owing(k, a) = {}
      <3>1. \A q \in Processes : ~Owes(run[q], k, a)
        BY <1>5, OwesRows DEF NewRow
      <3> QED
        BY <3>1 DEF Owing
    <2>3. Owing(k, a)' = {}
      BY <1>2, <1>3, <2>1, <2>2
    <2>4. Marks(k, a)' = {}
      BY <2>1 DEF Marks, Units
    <2>5. referral'[a].counts[k] = 0 /\ missed'[a][k] = 0
      BY <1>5 DEF CountInv, NewRow, NoCounts
    <2>6. IsFiniteSet({}) /\ Cardinality({}) = 0
      BY FS_EmptySet
    <2> QED
      BY <2>3, <2>4, <2>5, <2>6 DEF Balanced
  <1> QED
    BY <1>4, <1>5

LEMMA CreatesRow ==
    ASSUME TreeInv, NEW b \in Users, NEW s, NEW l \in Nat, referral[b] = NoReferral,
           s \in Users \cup {None}, s # None => referral[s] # NoReferral,
           referral' = [referral EXCEPT ![b] = NewReferral(s, l)]
    PROVE  NewRow(b, s)
  <1>1. PICK y : y = NewReferral(s, l)
    OBVIOUS
  <1>2. y \in ReferralRow /\ y.sponsor = s /\ y.counts = NoCounts
    BY <1>1 DEF NewReferral, ReferralRow, NoCounts, Counts
  <1>3. referral'[b] = y /\ \A v \in Users \ {b} : referral'[v] = referral[v]
    BY <1>1 DEF TreeInv, TreeTypes
  <1> QED
    BY <1>2, <1>3, RowsAreNotNone DEF NewRow

LEMMA CreateRootBalance ==
    ASSUME TreeInv, CountInv, NEW p \in Processes, CreateRoot(p),
           NEW a \in Users, referral'[a] # NoReferral, NEW k \in Counters
    PROVE  Balanced(k, a)'
  <1>1. /\ run[p].pc = "root" /\ run[p].pc # "idle" /\ run[p].pc \notin Climbs
        /\ UNCHANGED <<paid, missed>>
    BY DEF CreateRoot, At, Climbs
  <1>2. PICK s \in Users : s = run[p].sponsor
    BY <1>1, RunTypes DEF TreeInv, TreeTypes, Knows, Creates
  <1>3. CASE Done(p) /\ UNCHANGED referral
    <2>1. PICK x \in RunState \cup {Idle} : run' = [run EXCEPT ![p] = x] /\ Over(x, p)
      BY <1>1, <1>3, DoneIs
    <2>2. OnlyMoves(p) /\ run'[p].pc \notin Climbs
      BY <2>1, MovesOnly DEF Over, Climbs
    <2> QED
      BY <1>1, <1>3, <2>2, QuietBalance
  <1>4. CASE /\ referral[s] = NoReferral /\ Goto(p, "row")
             /\ referral' = [referral EXCEPT ![s] = NewReferral(None, 0)]
    <2>1. PICK x \in RunState : run' = [run EXCEPT ![p] = x] /\ x.pc = "row"
      BY <1>1, <1>4, GotoIs
    <2>2. OnlyMoves(p) /\ run'[p].pc = "row"
      BY <2>1, MovesOnly
    <2>3. NewRow(s, None)
      BY <1>4, CreatesRow
    <2>4. ~Owes(run[p], k, a)'
      BY <2>2 DEF Owes
    <2>5. ~Joins(None, k, a)
      BY DEF Joins
    <2> QED
      BY <1>1, <2>2, <2>3, <2>4, <2>5, NewRowBalance
  <1> QED
    BY <1>2, <1>3, <1>4 DEF CreateRoot, HasRow

LEMMA SeedReferralBalance ==
    ASSUME TreeInv, CountInv, SeedReferral,
           NEW a \in Users, referral'[a] # NoReferral, NEW k \in Counters
    PROVE  Balanced(k, a)'
  <1>1. /\ Script \in Processes /\ run[Script].pc = "seedRow" /\ run[Script].pc # "idle"
        /\ run[Script].pc \notin Climbs /\ UNCHANGED <<paid, missed>> /\ Admin \in Users
    BY DEF SeedReferral, At, Climbs, Processes, Users
  <1>2. CASE run' = [run EXCEPT ![Script] = Idle] /\ UNCHANGED referral
    <2>1. OnlyMoves(Script) /\ run'[Script].pc \notin Climbs
      BY <1>1, <1>2, MovesOnly, IdleRun DEF Climbs
    <2> QED
      BY <1>1, <1>2, <2>1, QuietBalance
  <1>3. CASE /\ referral[Admin] = NoReferral /\ Goto(Script, "seedSettings")
             /\ referral' = [referral EXCEPT ![Admin] = NewReferral(None, 0)]
    <2>1. PICK x \in RunState : run' = [run EXCEPT ![Script] = x] /\ x.pc = "seedSettings"
      BY <1>1, <1>3, GotoIs
    <2>2. OnlyMoves(Script) /\ run'[Script].pc = "seedSettings"
      BY <1>1, <2>1, MovesOnly
    <2>3. NewRow(Admin, None)
      BY <1>1, <1>3, CreatesRow
    <2>4. ~Owes(run[Script], k, a)'
      BY <2>2 DEF Owes
    <2>5. ~Joins(None, k, a)
      BY DEF Joins
    <2> QED
      BY <1>1, <2>2, <2>3, <2>4, <2>5, NewRowBalance
  <1> QED
    BY <1>2, <1>3 DEF SeedReferral, HasRow

LEMMA CreateRowBalance ==
    ASSUME TreeInv, CountInv, NEW p \in Processes, CreateRow(p),
           NEW a \in Users, referral'[a] # NoReferral, NEW k \in Counters
    PROVE  Balanced(k, a)'
  <1>1. /\ run[p].pc = "row" /\ run[p].pc # "idle" /\ run[p].pc \notin Climbs
        /\ UNCHANGED <<paid, missed>>
    BY DEF CreateRow, At, Climbs
  <1>2. PICK u \in Users, s \in Users : u = run[p].user /\ s = run[p].sponsor
    BY <1>1, RunTypes DEF TreeInv, TreeTypes, Knows, Creates
  <1>3. CASE Done(p) /\ UNCHANGED referral
    <2>1. PICK x \in RunState \cup {Idle} : run' = [run EXCEPT ![p] = x] /\ Over(x, p)
      BY <1>1, <1>3, DoneIs
    <2>2. OnlyMoves(p) /\ run'[p].pc \notin Climbs
      BY <2>1, MovesOnly DEF Over, Climbs
    <2> QED
      BY <1>1, <1>3, <2>2, QuietBalance
  <1>4. CASE /\ referral[u] = NoReferral
             /\ referral' = [referral EXCEPT ![u] = NewReferral(s, referral[s].level + 1)]
             /\ run' = [run EXCEPT ![p].pc = "own", ![p].at = s]
    <2>1. referral[s] # NoReferral /\ s # None
      BY <1>1, <1>2, NoneAssumption DEF TreeInv, Knows
    <2>2. PICK l \in Nat : l = referral[s].level + 1
      BY <2>1, ParentIs
    <2>3. NewRow(u, s)
      BY <1>4, <2>1, <2>2, CreatesRow
    <2>4. run' = [run EXCEPT ![p] = [run[p] EXCEPT !.pc = "own", !.at = s]]
      BY <1>4
    <2>5. OnlyMoves(p) /\ run'[p] = [run[p] EXCEPT !.pc = "own", !.at = s]
      BY <2>4, MovesOnly
    <2>6. run[p] \in RunState /\ run[p].adds = "member"
      BY <1>1, RunTypes DEF TreeInv, TreeTypes, CountInv, AddsRight, Climbs
    <2>7. run'[p].pc = "own" /\ run'[p].at = s /\ run'[p].adds = "member"
      BY <2>5, <2>6 DEF RunState
    <2>8. Above(s)' = Above(s)
      BY <2>1, <2>3, NewRowAbove DEF AboveKept
    <2>9. Above(run[p].at)' = Above(s)
      BY <2>7, <2>8 DEF Above
    <2>10. Owes(run[p], k, a)' <=> k \in {"direct", "team"} /\ Joins(s, k, a)
      BY <2>1, <2>7, <2>9 DEF Owes, Joins, Counters
    <2> QED
      BY <1>1, <2>3, <2>5, <2>10, NewRowBalance
  <1> QED
    BY <1>2, <1>3, <1>4 DEF CreateRow, HasRow

-------------------------------------------------------------------------------
(* Failures *)

\* What the runs ps owed is missed when they stop.
LEMMA BrokenBalance ==
    ASSUME TreeInv, CountInv, NEW ps \in SUBSET Processes, Broken(ps),
           \A q \in Processes : IF q \in ps THEN run'[q].pc \notin Climbs ELSE run'[q] = run[q],
           NEW a \in Users, referral[a] # NoReferral, NEW k \in Counters
    PROVE  Balanced(k, a)'
  <1>1. AboveKept /\ Marks(k, a)' = Marks(k, a)
    BY SameIsTree, TreeKeepsMarks DEF Broken
  <1>2. PICK S : S = {p \in ps : Owes(run[p], k, a)}
    OBVIOUS
  <1>3. S \in SUBSET Owing(k, a)
    BY <1>2 DEF Owing
  <1>4. ASSUME NEW q \in Processes
        PROVE  q \in Owing(k, a)' <=> q \in Owing(k, a) \ S
    <2>1. CASE q \in ps
      BY <1>2, <2>1, NothingOwed DEF Owing
    <2>2. CASE q \notin ps
      BY <1>1, <1>2, <2>2, OwesStays, OwesItself
    <2> QED
      BY <2>1, <2>2
  <1>5. Owing(k, a)' = Owing(k, a) \ S
    <2>1. Owing(k, a)' \subseteq Processes /\ Owing(k, a) \subseteq Processes
      BY DEF Owing
    <2> QED
      BY <1>4, <2>1
  <1>6. missed'[a][k] = missed[a][k] + Cardinality(S)
    BY <1>2 DEF Broken, Rest
  <1>7. Gives(k, a)
    BY <1>1, <1>3, <1>5, <1>6 DEF Gives, Broken
  <1> QED
    BY <1>7, BalanceStays

LEMMA FailBalance ==
    ASSUME TreeInv, CountInv, NEW p \in Processes, Fail(p),
           NEW a \in Users, referral[a] # NoReferral, NEW k \in Counters
    PROVE  Balanced(k, a)'
  <1>1. PICK x \in RunState \cup {Idle} : run' = [run EXCEPT ![p] = x] /\ Over(x, p)
    BY FailIs
  <1>2. OnlyMoves(p) /\ run'[p].pc \notin Climbs
    BY <1>1, MovesOnly DEF Over, Climbs
  <1>3. PICK ps : ps = {p}
    OBVIOUS
  <1>4. ps \in SUBSET Processes /\ Broken(ps)
    BY <1>3 DEF Fail
  <1>5. \A q \in Processes : IF q \in ps THEN run'[q].pc \notin Climbs ELSE run'[q] = run[q]
    BY <1>2, <1>3 DEF OnlyMoves
  <1> QED
    BY <1>4, <1>5, BrokenBalance

LEMMA CrashBalance ==
    ASSUME TreeInv, CountInv, NEW ps \in SUBSET Processes, Crash(ps),
           NEW a \in Users, referral[a] # NoReferral, NEW k \in Counters
    PROVE  Balanced(k, a)'
  <1>1. Broken(ps) /\ run' = [p \in Processes |-> IF p \in ps THEN Idle ELSE run[p]]
    BY DEF Crash
  <1>2. \A q \in Processes : IF q \in ps THEN run'[q].pc \notin Climbs ELSE run'[q] = run[q]
    BY <1>1, IdleRun DEF Climbs
  <1> QED
    BY <1>1, <1>2, BrokenBalance

-------------------------------------------------------------------------------
(* The kind of what a run adds *)

LEMMA AddsStay ==
    ASSUME CountInv, NEW p \in Processes, OnlyMoves(p), AddsRight(p, run'[p])
    PROVE  \A q \in Processes : AddsRight(q, run[q])'
  <1>1. ASSUME NEW q \in Processes
        PROVE  AddsRight(q, run'[q])
    BY <1>1 DEF OnlyMoves, CountInv
  <1> QED
    BY <1>1 DEF AddsRight

\* A run goes on with what it adds.
LEMMA GoesOnAdding ==
    ASSUME CountInv, NEW p \in Processes, run[p].pc # "idle", run'[p].adds = run[p].adds,
           run'[p].pc # "bonus",
           run'[p].pc \in Climbs \/ run[p].pc \notin Climbs \cup {"bonus"} \/ p = Script
    PROVE  AddsRight(p, run'[p])
  BY DEF CountInv, AddsRight

LEMMA OverAdding ==
    ASSUME NEW p, NEW x, x.pc = "idle"
    PROVE  AddsRight(p, x)
  BY DEF AddsRight

LEMMA GotoAdding ==
    ASSUME TreeInv, CountInv, NEW p \in Processes, run[p].pc # "idle", NEW pc, Goto(p, pc),
           pc # "bonus", pc \in Climbs \/ run[p].pc \notin Climbs \cup {"bonus"}
    PROVE  \A q \in Processes : AddsRight(q, run[q])'
  <1>1. run[p] \in RunState
    BY RunTypes DEF TreeInv, TreeTypes
  <1>2. OnlyMoves(p) /\ run'[p] = [run[p] EXCEPT !.pc = pc]
    BY MovesOnly DEF Goto
  <1>3. run'[p].pc = pc /\ run'[p].adds = run[p].adds
    BY <1>1, <1>2 DEF RunState
  <1> QED
    BY <1>2, <1>3, GoesOnAdding, AddsStay

LEMMA EndAdding ==
    ASSUME TreeInv, CountInv, NEW p \in Processes, run' = [run EXCEPT ![p] = Idle]
    PROVE  \A q \in Processes : AddsRight(q, run[q])'
  <1>1. OnlyMoves(p) /\ run'[p].pc = "idle"
    BY MovesOnly, IdleRun
  <1> QED
    BY <1>1, OverAdding, AddsStay

LEMMA ResumeAdding ==
    ASSUME TreeInv, CountInv, run[Script].pc # "idle", run' = [run EXCEPT ![Script] = Resume(Script)]
    PROVE  \A q \in Processes : AddsRight(q, run[q])'
  <1>1. Script \in Processes
    BY DEF Processes
  <1>2. run[Script] \in RunState
    BY <1>1, RunTypes DEF TreeInv, TreeTypes
  <1>3. OnlyMoves(Script) /\ run'[Script] = [run[Script] EXCEPT !.pc = "next", !.at = None]
    BY <1>1, MovesOnly DEF Resume
  <1>4. run'[Script].pc = "next" /\ run'[Script].adds = run[Script].adds
    BY <1>2, <1>3 DEF RunState
  <1> QED
    BY <1>1, <1>3, <1>4, GoesOnAdding, AddsStay

LEMMA DoneAdding ==
    ASSUME TreeInv, CountInv, NEW p \in Processes, run[p].pc # "idle", Done(p)
    PROVE  \A q \in Processes : AddsRight(q, run[q])'
  <1>1. CASE p = Script
    BY <1>1, ResumeAdding DEF Done
  <1>2. CASE p # Script
    BY <1>2, EndAdding DEF Done
  <1> QED
    BY <1>1, <1>2

LEMMA BeginAdding ==
    ASSUME TreeInv, CountInv, NEW p \in Processes, NEW pc, pc \notin Climbs \cup {"bonus"},
           NEW u, NEW s, run' = [run EXCEPT ![p] = Begin(pc, u, s)]
    PROVE  \A q \in Processes : AddsRight(q, run[q])'
  <1>1. OnlyMoves(p) /\ run'[p] = Begin(pc, u, s)
    BY MovesOnly
  <1>2. run'[p].pc = pc /\ run'[p].adds = "member"
    BY <1>1 DEF Begin
  <1>3. AddsRight(p, run'[p])
    BY <1>2 DEF AddsRight
  <1> QED
    BY <1>1, <1>3, AddsStay

LEMMA CallsAdding ==
    ASSUME TreeInv, CountInv, NEW p \in Processes, CreateReferral(p) \/ UpdateSponsorStats(p)
    PROVE  \A q \in Processes : AddsRight(q, run[q])'
  <1>1. run[p].pc # "idle" /\ (run[p].pc \in Creates \/ run[p].pc \in Climbs)
    BY DEF CreateReferral, CheckReferral, FindSponsorRow, CreateRoot, CreateRow, CountDirect, Walk,
           UpdateSponsorStats, At, Creates, Climbs
  <1>2. run[p] \in RunState
    BY <1>1, RunTypes DEF TreeInv, TreeTypes
  <1>3. \/ Done(p)
        \/ run[p].pc \in Creates /\ \E pc \in {"sponsorRow", "row", "root"} : Goto(p, pc)
        \/ Goto(p, "walk")
        \/ \E s : run' = [run EXCEPT ![p].pc = "own", ![p].at = s]
        \/ run[p].pc = "walk" /\ \E s : run' = [run EXCEPT ![p].at = s]
    BY DEF CreateReferral, CheckReferral, FindSponsorRow, CreateRoot, CreateRow, CountDirect, Walk,
           UpdateSponsorStats, At, Creates
  <1>4. CASE Done(p)
    BY <1>1, <1>4, DoneAdding
  <1>5. CASE run[p].pc \in Creates /\ \E pc \in {"sponsorRow", "row", "root"} : Goto(p, pc)
    BY <1>1, <1>5, GotoAdding DEF Creates, Climbs
  <1>6. CASE Goto(p, "walk")
    BY <1>1, <1>6, GotoAdding DEF Climbs
  <1>7. CASE \E s : run' = [run EXCEPT ![p].pc = "own", ![p].at = s]
    <2>1. PICK s : run' = [run EXCEPT ![p] = [run[p] EXCEPT !.pc = "own", !.at = s]]
      BY <1>7
    <2>2. OnlyMoves(p) /\ run'[p] = [run[p] EXCEPT !.pc = "own", !.at = s]
      BY <2>1, MovesOnly
    <2>3. run'[p].pc = "own" /\ run'[p].adds = run[p].adds
      BY <1>2, <2>2 DEF RunState
    <2> QED
      BY <1>1, <2>2, <2>3, GoesOnAdding, AddsStay DEF Climbs
  <1>8. CASE run[p].pc = "walk" /\ \E s : run' = [run EXCEPT ![p].at = s]
    <2>1. PICK s : run' = [run EXCEPT ![p] = [run[p] EXCEPT !.at = s]]
      BY <1>8
    <2>2. OnlyMoves(p) /\ run'[p] = [run[p] EXCEPT !.at = s]
      BY <2>1, MovesOnly
    <2>3. run'[p].pc = "walk" /\ run'[p].adds = run[p].adds
      BY <1>2, <1>8, <2>2 DEF RunState
    <2> QED
      BY <1>1, <2>2, <2>3, GoesOnAdding, AddsStay DEF Climbs
  <1> QED
    BY <1>3, <1>4, <1>5, <1>6, <1>7, <1>8

LEMMA FindDepositorAdding ==
    ASSUME TreeInv, CountInv, NEW p \in Processes, FindDepositor(p)
    PROVE  \A q \in Processes : AddsRight(q, run[q])'
  <1>1. run[p].pc = "bonus" /\ run[p].pc # "idle"
    BY DEF FindDepositor, At
  <1>2. run[p] \in RunState
    BY <1>1, RunTypes DEF TreeInv, TreeTypes
  <1>3. CASE run' = [run EXCEPT ![p] = Idle]
    BY <1>3, EndAdding
  <1>4. CASE \E s : run' = [run EXCEPT ![p].pc = "own", ![p].at = s]
    <2>1. PICK s : run' = [run EXCEPT ![p] = [run[p] EXCEPT !.pc = "own", !.at = s]]
      BY <1>4
    <2>2. OnlyMoves(p) /\ run'[p] = [run[p] EXCEPT !.pc = "own", !.at = s]
      BY <2>1, MovesOnly
    <2>3. run'[p].pc = "own" /\ run'[p].adds = run[p].adds
      BY <1>2, <2>2 DEF RunState
    <2> QED
      BY <1>1, <2>2, <2>3, GoesOnAdding, AddsStay DEF Climbs
  <1> QED
    BY <1>3, <1>4 DEF FindDepositor

LEMMA CreateWalletAdding ==
    ASSUME TreeInv, CountInv, NEW p \in Requests, NEW w \in WalletTypes, CreateWallet(p, w)
    PROVE  \A q \in Processes : AddsRight(q, run[q])'
  <1>1. p \in Processes /\ run[p].pc = "wallets" /\ run[p].pc # "idle"
    BY DEF Processes, CreateWallet, At
  <1>2. run[p] \in RunState
    BY <1>1, RunTypes DEF TreeInv, TreeTypes
  <1>3. \/ run' = [run EXCEPT ![p] = Idle]
        \/ run' = [run EXCEPT ![p] = [run[p] EXCEPT !.missing = @ \ {w}]]
        \/ run' = [run EXCEPT ![p] = [run[p] EXCEPT !.pc = "check", !.missing = {}]]
    BY DEF CreateWallet
  <1>4. CASE run' = [run EXCEPT ![p] = Idle]
    BY <1>1, <1>4, EndAdding
  <1>5. CASE run' = [run EXCEPT ![p] = [run[p] EXCEPT !.missing = @ \ {w}]]
    <2>1. OnlyMoves(p) /\ run'[p] = [run[p] EXCEPT !.missing = @ \ {w}]
      BY <1>1, <1>5, MovesOnly
    <2>2. run'[p].pc = "wallets" /\ run'[p].adds = run[p].adds
      BY <1>1, <1>2, <2>1 DEF RunState
    <2> QED
      BY <1>1, <2>1, <2>2, GoesOnAdding, AddsStay DEF Climbs
  <1>6. CASE run' = [run EXCEPT ![p] = [run[p] EXCEPT !.pc = "check", !.missing = {}]]
    <2>1. OnlyMoves(p) /\ run'[p] = [run[p] EXCEPT !.pc = "check", !.missing = {}]
      BY <1>1, <1>6, MovesOnly
    <2>2. run'[p].pc = "check" /\ run'[p].adds = run[p].adds
      BY <1>2, <2>1 DEF RunState
    <2> QED
      BY <1>1, <2>1, <2>2, GoesOnAdding, AddsStay DEF Climbs
  <1> QED
    BY <1>3, <1>4, <1>5, <1>6

LEMMA DepositAdding ==
    ASSUME TreeInv, CountInv, NEW p \in Requests, NEW u \in Members, Deposit(p, u)
    PROVE  \A q \in Processes : AddsRight(q, run[q])'
  <1>1. p \in Processes /\ p # Script
    BY ScriptAssumption DEF Processes
  <1>2. OnlyMoves(p) /\ run'[p] = [Begin("bonus", u, None) EXCEPT !.adds = "deposit"]
    BY <1>1, MovesOnly DEF Deposit
  <1>3. run'[p].pc = "bonus" /\ run'[p].adds = "deposit"
    BY <1>2 DEF Begin
  <1>4. AddsRight(p, run'[p])
    BY <1>1, <1>3 DEF AddsRight
  <1> QED
    BY <1>1, <1>2, <1>4, AddsStay

LEMMA FillingAdding ==
    ASSUME TreeInv, CountInv, run[Script].pc # "idle", NEW r \in RunState, NEW m,
           r.adds = run[Script].adds, run' = [run EXCEPT ![Script] = Filling(r, m)]
    PROVE  \A q \in Processes : AddsRight(q, run[q])'
  <1>1. Script \in Processes
    BY DEF Processes
  <1>2. PICK pc : pc = IF m # {} THEN "fill" ELSE IF r.sponsor = None THEN "next" ELSE "existing"
    OBVIOUS
  <1>3. OnlyMoves(Script) /\ run'[Script] = [r EXCEPT !.missing = m, !.pc = pc]
    BY <1>1, <1>2, MovesOnly DEF Filling
  <1>4. run'[Script].pc = pc /\ run'[Script].adds = run[Script].adds /\ pc # "bonus"
    BY <1>2, <1>3 DEF RunState
  <1> QED
    BY <1>1, <1>3, <1>4, GoesOnAdding, AddsStay

LEMMA ScriptAdding ==
    ASSUME TreeInv, CountInv, Seed \/ Backfill \/ ScriptStep
    PROVE  \A q \in Processes : AddsRight(q, run[q])'
  <1>1. Script \in Processes
    BY DEF Processes
  <1>2. CASE Seed \/ Backfill
    <2>1. PICK pc, todo : pc \in {"seedFind", "next"} /\ StartScript(pc, todo)
      BY <1>2 DEF Seed, Backfill
    <2>2. OnlyMoves(Script) /\ run'[Script] = [Begin(pc, Admin, None) EXCEPT !.todo = todo]
      BY <1>1, <2>1, MovesOnly DEF StartScript
    <2>3. run'[Script].pc = pc /\ run'[Script].adds = "member"
      BY <2>2 DEF Begin
    <2>4. AddsRight(Script, run'[Script])
      BY <2>1, <2>3 DEF AddsRight
    <2> QED
      BY <1>1, <2>2, <2>4, AddsStay
  <1>3. CASE ScriptStep
    <2>1. /\ run[Script].pc # "idle" /\ run[Script].pc \notin Climbs \cup {"bonus"}
      BY <1>3 DEF ScriptStep, SeedFind, SeedUser, SeedStep, SeedReferral, SeedSettings, SeedWallet,
         NextUser, FillWallet, FindExisting, BackfillEnds, At, Climbs
    <2>2. run[Script] \in RunState
      BY <1>1, <2>1, RunTypes DEF TreeInv, TreeTypes
    <2>3. CASE run' = [run EXCEPT ![Script] = Idle]
      BY <1>1, <2>3, EndAdding
    <2>4. CASE \E pc \in {"seedUser", "seedWallets", "seedSettings", "next", "check"} :
                   Goto(Script, pc)
      BY <1>1, <2>1, <2>4, GotoAdding
    <2>5. CASE \E w \in WalletTypes : SeedWallet(w)
      <3>1. PICK w : w \in run[Script].missing
                     /\ run' = [run EXCEPT ![Script].missing = @ \ {w},
                                    ![Script].pc = IF run[Script].missing = {w} THEN "seedRow" ELSE @]
                     /\ run[Script].pc = "seedWallets"
        BY <2>5 DEF SeedWallet, At
      <3>2. PICK pc, m : /\ pc = IF run[Script].missing = {w} THEN "seedRow" ELSE run[Script].pc
                         /\ m = run[Script].missing \ {w}
        OBVIOUS
      <3>3. run' = [run EXCEPT ![Script] = [run[Script] EXCEPT !.missing = m, !.pc = pc]]
        BY <1>1, <3>1, <3>2 DEF TreeInv, TreeTypes
      <3>4. OnlyMoves(Script) /\ run'[Script] = [run[Script] EXCEPT !.missing = m, !.pc = pc]
        BY <1>1, <3>3, MovesOnly
      <3>5. run'[Script].pc = pc /\ run'[Script].adds = run[Script].adds /\ pc # "bonus"
        BY <2>2, <3>1, <3>2, <3>4 DEF RunState
      <3> QED
        BY <1>1, <2>1, <3>4, <3>5, GoesOnAdding, AddsStay
    <2>6. CASE \E u \in Users : NextUser(u)
      <3>1. PICK u \in Users : u \in run[Script].todo /\ NextUser(u)
        BY <2>6 DEF NextUser
      <3>2. run[Script].pc = "next" /\ user[u] # NoUser
        BY <1>1, <2>1, <3>1 DEF NextUser, At, TreeInv, Knows
      <3>3. user[u].sponsor \in Users \cup {None}
        BY <3>2 DEF TreeInv, TreeTypes, UserRow
      <3>4. PICK r : r = [run[Script] EXCEPT !.user = u, !.sponsor = user[u].sponsor,
                                             !.todo = @ \ {u}]
        OBVIOUS
      <3>5. r \in RunState /\ r.adds = run[Script].adds
        BY <2>2, <3>3, <3>4 DEF RunState
      <3>6. run' = [run EXCEPT ![Script] = Filling(r, WalletTypes \ wallets[u])]
        BY <3>1, <3>4 DEF NextUser
      <3> QED
        BY <2>1, <3>5, <3>6, FillingAdding
    <2>7. CASE FillWallet(Script)
      <3>1. PICK r : r = run[Script]
        OBVIOUS
      <3>2. PICK w : \/ run' = [run EXCEPT ![Script] = Idle]
                     \/ run' = [run EXCEPT ![Script] = Filling(r, r.missing \ {w})]
        BY <2>7, <3>1 DEF FillWallet
      <3> QED
        BY <1>1, <2>1, <2>2, <3>1, <3>2, EndAdding, FillingAdding
    <2>8. CASE SeedFind
      <3>1. \/ run' = [run EXCEPT ![Script] = Idle] \/ Goto(Script, "seedUser")
        BY <2>8 DEF SeedFind, Goto
      <3> QED
        BY <2>3, <2>4, <3>1
    <2>9. CASE SeedUser \/ SeedReferral \/ SeedSettings \/ FindExisting \/ BackfillEnds
      <3>1. \/ run' = [run EXCEPT ![Script] = Idle]
            \/ Goto(Script, "seedWallets") \/ Goto(Script, "seedSettings")
            \/ Goto(Script, "next") \/ Goto(Script, "check")
        BY <2>9 DEF SeedUser, SeedStep, SeedReferral, SeedSettings, FindExisting, BackfillEnds
      <3> QED
        BY <2>3, <2>4, <3>1
    <2> QED
      BY <1>3, <2>5, <2>6, <2>7, <2>8, <2>9 DEF ScriptStep
  <1> QED
    BY <1>2, <1>3

LEMMA FailAdding ==
    ASSUME TreeInv, CountInv, NEW p \in Processes, Fail(p)
    PROVE  \A q \in Processes : AddsRight(q, run[q])'
  <1>1. CASE run' = [run EXCEPT ![p] = Idle]
    BY <1>1, EndAdding
  <1>2. CASE p = Script /\ run' = [run EXCEPT ![p] = Resume(p)]
    <2>1. run[p].pc # "idle"
      BY IdleRun DEF Fail, TreeInv, TreeTypes, RunState
    <2> QED
      BY <1>2, <2>1, ResumeAdding
  <1> QED
    BY <1>1, <1>2 DEF Fail

LEMMA AddsNext ==
    ASSUME TreeInv, CountInv, [Next]_vars
    PROVE  \A q \in Processes : AddsRight(q, run[q])'
  <1>1. CASE UNCHANGED run
    BY <1>1 DEF CountInv, AddsRight
  <1>2. ASSUME NEW p \in Requests, Request(p)
        PROVE  \A q \in Processes : AddsRight(q, run[q])'
    <2>1. p \in Processes
      BY DEF Processes
    <2>2. ASSUME NEW u \in Members, NEW s \in Users \cup {None}, Signup(p, u, s)
          PROVE  \A q \in Processes : AddsRight(q, run[q])'
      <3>1. run' = [run EXCEPT ![p] = Begin("wallets", u, s)]
        BY <2>2 DEF Signup
      <3> QED
        BY <2>1, <3>1, BeginAdding DEF Climbs
    <2> QED
      BY <1>2, <2>1, <2>2, CreateWalletAdding, DepositAdding, FindDepositorAdding, CallsAdding
      DEF Request
  <1>3. ASSUME NEW p \in Processes, CreateReferral(p) \/ Fail(p)
        PROVE  \A q \in Processes : AddsRight(q, run[q])'
    BY <1>3, CallsAdding, FailAdding
  <1>4. CASE Seed \/ Backfill \/ ScriptStep
    BY <1>4, ScriptAdding
  <1>5. ASSUME NEW ps, Crash(ps)
        PROVE  \A q \in Processes : AddsRight(q, run[q])'
    <2>1. \A q \in Processes : run'[q] = IF q \in ps THEN Idle ELSE run[q]
      BY <1>5 DEF Crash
    <2>2. \A q \in Processes : AddsRight(q, run'[q])
      BY <2>1, IdleRun, OverAdding DEF CountInv
    <2> QED
      BY <2>2 DEF AddsRight
  <1> QED
    BY <1>1, <1>2, <1>3, <1>4, <1>5 DEF Next, DeleteUser, vars

-------------------------------------------------------------------------------
(* Every step *)

\* The steps that neither add a row, nor count, nor stop a run.
LEMMA QuietSteps ==
    ASSUME TreeInv, CountInv, NEW p \in Processes,
           \/ \E u \in Members, s \in Users \cup {None} : p \in Requests /\ Signup(p, u, s)
           \/ \E w \in WalletTypes : p \in Requests /\ CreateWallet(p, w)
           \/ \E u \in Members : p \in Requests /\ Deposit(p, u)
           \/ CheckReferral(p) \/ FindSponsorRow(p)
           \/ p = Script /\ (Seed \/ Backfill \/ (ScriptStep /\ ~SeedReferral))
    PROVE  /\ OnlyMoves(p) /\ UNCHANGED <<referral, paid, missed>>
           /\ run[p].pc \notin Climbs /\ run'[p].pc \notin Climbs
  <1>1. UNCHANGED <<referral, paid, missed>> /\ run[p].pc \notin Climbs
    BY IdleRun DEF Signup, CreateWallet, Deposit, CheckReferral, FindSponsorRow, Seed, Backfill,
       StartScript, ScriptStep, SeedFind, SeedUser, SeedStep, SeedSettings, SeedWallet, NextUser,
       FillWallet, FindExisting, BackfillEnds, At, Climbs, observed
  <1>2. \E x : run' = [run EXCEPT ![p] = x] /\ x.pc \notin Climbs
    <2>1. CASE \E u \in Members, s \in Users \cup {None} : p \in Requests /\ Signup(p, u, s)
      <3>1. \E x \in RunState : run' = [run EXCEPT ![p] = x] /\ x.pc = "wallets"
        BY <2>1, SignupIs
      <3> QED
        BY <3>1 DEF Climbs
    <2>2. CASE \E w \in WalletTypes : p \in Requests /\ CreateWallet(p, w)
      <3>1. \E x \in RunState \cup {Idle} :
                run' = [run EXCEPT ![p] = x] /\ x.pc \in {"wallets", "idle", "check"}
        BY <2>2, CreateWalletIs
      <3> QED
        BY <3>1 DEF Climbs
    <2>3. CASE \E u \in Members : p \in Requests /\ Deposit(p, u)
      <3>1. \E x \in RunState : run' = [run EXCEPT ![p] = x] /\ x.pc = "bonus"
        BY <2>3, DepositIs
      <3> QED
        BY <3>1 DEF Climbs
    <2>4. CASE CheckReferral(p) \/ FindSponsorRow(p)
      <3>1. run[p].pc # "idle"
        BY <2>4 DEF CheckReferral, FindSponsorRow, At
      <3>2. Done(p) \/ \E pc \in {"sponsorRow", "row", "root"} : Goto(p, pc)
        BY <2>4 DEF CheckReferral, FindSponsorRow
      <3> QED
        BY <3>1, <3>2, DoneIs, GotoIs DEF Over, Climbs
    <2>5. CASE p = Script /\ (Seed \/ Backfill)
      <3>1. PICK pc, todo : /\ pc \in {"next", "seedFind"} /\ todo \in SUBSET Users
                            /\ StartScript(pc, todo)
        BY <2>5 DEF Seed, Backfill
      <3> QED
        BY <2>5, <3>1, StartIs DEF Climbs
    <2>6. CASE p = Script /\ ScriptStep /\ ~SeedReferral
      <3>1. run[Script].pc # "idle" /\ Script \in Processes
        BY <2>6 DEF ScriptStep, SeedFind, SeedUser, SeedStep, SeedSettings, SeedWallet,
           NextUser, FillWallet, FindExisting, BackfillEnds, At, Processes
      <3>2. CASE run' = [run EXCEPT ![Script] = Idle]
        BY <2>6, <3>2, IdleRun DEF Climbs
      <3>3. CASE \E pc \in {"seedWallets", "next", "check"} : Goto(Script, pc)
        BY <2>6, <3>1, <3>3, GotoIs DEF Climbs
      <3>4. CASE Goto(Script, "seedUser")
        <4>1. run' = [run EXCEPT ![Script] = [run[Script] EXCEPT !.pc = "seedUser"]]
          BY <3>4 DEF Goto
        <4>2. [run[Script] EXCEPT !.pc = "seedUser"].pc = "seedUser"
          BY <3>1, RunTypes DEF TreeInv, TreeTypes, RunState
        <4> QED
          BY <2>6, <4>1, <4>2 DEF Climbs
      <3>5. CASE \E w \in WalletTypes : SeedWallet(w)
        BY <2>6, <3>5, SeedWalletIs DEF Climbs
      <3>6. CASE \E u \in Users : NextUser(u)
        BY <2>6, <3>6, NextUserIs DEF Climbs
      <3>7. CASE FillWallet(Script)
        BY <2>6, <3>7, FillWalletIs DEF Climbs
      <3>8. CASE SeedFind
        <4>1. \/ run' = [run EXCEPT ![Script] = Idle] \/ Goto(Script, "seedUser")
          BY <3>8 DEF SeedFind, Goto
        <4> QED
          BY <3>2, <3>4, <4>1
      <3>9. CASE SeedUser \/ SeedSettings \/ FindExisting \/ BackfillEnds
        <4>1. \/ run' = [run EXCEPT ![Script] = Idle]
              \/ Goto(Script, "seedWallets") \/ Goto(Script, "next") \/ Goto(Script, "check")
          BY <3>9 DEF SeedUser, SeedStep, SeedSettings, FindExisting, BackfillEnds
        <4> QED
          BY <3>2, <3>3, <4>1
      <3> QED
        BY <2>6, <3>5, <3>6, <3>7, <3>8, <3>9 DEF ScriptStep
    <2> QED
      BY <2>1, <2>2, <2>3, <2>4, <2>5, <2>6
  <1> QED
    BY <1>1, <1>2, MovesOnly

\* A user without a row has neither deposits that count nor anything missed.
LEMMA RowlessNext ==
    ASSUME TreeInv, CountInv, [Next]_vars, Lasting
    PROVE  /\ paid' \in [Users -> Nat] /\ missed' \in [Users -> Counts]
           /\ \A u \in Users : referral'[u] = NoReferral => paid'[u] = 0 /\ missed'[u] = NoCounts
  <1>1. \A u \in Users : referral'[u] = NoReferral => referral[u] = NoReferral
    BY DEF Lasting, Grown
  <1>2. CASE UNCHANGED <<paid, missed>>
    BY <1>1, <1>2 DEF CountInv
  <1>3. ASSUME NEW p \in Processes, FindDepositor(p)
        PROVE  /\ paid' \in [Users -> Nat] /\ missed' \in [Users -> Counts]
               /\ \A u \in Users : referral'[u] = NoReferral => paid'[u] = 0 /\ missed'[u] = NoCounts
    <2>1. UNCHANGED <<referral, missed>> /\ run[p].pc = "bonus"
      BY <1>3 DEF FindDepositor, At
    <2>2. CASE UNCHANGED paid
      BY <1>2, <2>1, <2>2
    <2>3. CASE /\ referral[run[p].user] # NoReferral
               /\ paid' = [paid EXCEPT ![run[p].user] = @ + 1]
      <3>1. PICK u \in Users : u = run[p].user
        BY <2>1, RunTypes DEF TreeInv, TreeTypes
      <3>2. paid[u] + 1 \in Nat
        BY DEF CountInv
      <3> QED
        BY <2>1, <2>3, <3>1, <3>2 DEF CountInv
    <2> QED
      BY <1>3, <2>2, <2>3 DEF FindDepositor, HasRow
  <1>4. ASSUME NEW ps \in SUBSET Processes, Broken(ps)
        PROVE  /\ paid' \in [Users -> Nat] /\ missed' \in [Users -> Counts]
               /\ \A u \in Users : referral'[u] = NoReferral => paid'[u] = 0 /\ missed'[u] = NoCounts
    <2>1. UNCHANGED <<referral, paid>>
      BY <1>4 DEF Broken
    <2>2. \A a \in Users, k \in Counters : Rest(ps, k, a) \in Nat
      <3>1. ASSUME NEW a \in Users, NEW k \in Counters
            PROVE  Rest(ps, k, a) \in Nat
        <4>1. {p \in ps : Owes(run[p], k, a)} \in SUBSET Processes
          OBVIOUS
        <4> QED
          BY <4>1, FiniteAssumption, FS_Subset, FS_CardinalityType DEF Rest
      <3> QED
        BY <3>1
    <2>3. missed' = [a \in Users |-> [k \in Counters |-> missed[a][k] + Rest(ps, k, a)]]
      BY <1>4 DEF Broken
    <2>4. \A a \in Users, k \in Counters : missed[a][k] \in Nat
      BY DEF CountInv, Counts
    <2>5. \A a \in Users, k \in Counters : missed[a][k] + Rest(ps, k, a) \in Nat
      BY <2>2, <2>4
    <2>6. missed' \in [Users -> Counts]
      BY <2>3, <2>5 DEF Counts
    <2>7. ASSUME NEW u \in Users, referral[u] = NoReferral
          PROVE  missed'[u] = NoCounts
      <3>1. ASSUME NEW k \in Counters
            PROVE  Rest(ps, k, u) = 0 /\ missed[u][k] = 0
        <4>1. {p \in ps : Owes(run[p], k, u)} = {}
          BY <2>7, OwesRows
        <4>2. missed[u] = NoCounts
          BY <2>7 DEF CountInv
        <4> QED
          BY <4>1, <4>2, FS_EmptySet DEF Rest, NoCounts
      <3> QED
        BY <2>3, <3>1 DEF NoCounts
    <2> QED
      BY <2>1, <2>6, <2>7 DEF CountInv
  <1>5. UNCHANGED <<paid, missed>>
        \/ (\E p \in Processes : FindDepositor(p)) \/ \E ps \in SUBSET Processes : Broken(ps)
    <2>1. Requests \subseteq Processes /\ {Script} \subseteq Processes
          /\ \A p \in Processes : {p} \in SUBSET Processes
      BY DEF Processes
    <2> QED
      BY <2>1 DEF Next, vars, observed, Request, CreateReferral, ScriptStep, Signup, CreateWallet,
         Deposit, UpdateSponsorStats, CheckReferral, FindSponsorRow, CreateRoot, CreateRow,
         CountDirect, Walk, Fail, Seed, Backfill, SeedFind, SeedUser, SeedStep, SeedReferral,
         SeedSettings, SeedWallet, NextUser, FillWallet, FindExisting, BackfillEnds, Crash, DeleteUser
  <1> QED
    BY <1>2, <1>3, <1>4, <1>5

LEMMA CountInit == Init => CountInv
  <1> SUFFICES ASSUME Init PROVE CountInv
    OBVIOUS
  <1>1. paid \in [Users -> Nat] /\ missed \in [Users -> Counts]
    BY DEF Init, Counts, NoCounts
  <1>2. \A p \in Processes : AddsRight(p, run[p])
    BY IdleRun, OverAdding DEF Init
  <1> QED
    BY <1>1, <1>2 DEF Init, CountInv

LEMMA CountNext == GroundInv /\ CountInv /\ [Next]_vars => CountInv'
  <1> SUFFICES ASSUME TreeInv, UsersFirst, CountInv, [Next]_vars
               PROVE  CountInv'
    BY DEF GroundInv
  <1>1. Lasting
    BY StepLasts
  <1>2. ASSUME NEW a \in Users, referral'[a] # NoReferral, NEW k \in Counters
        PROVE  Balanced(k, a)'
    <2>1. ASSUME NEW p \in Processes, CreateRoot(p) \/ CreateRow(p)
          PROVE  Balanced(k, a)'
      BY <1>2, <2>1, CreateRootBalance, CreateRowBalance
    <2>2. CASE SeedReferral
      BY <1>2, <2>2, SeedReferralBalance
    <2>3. CASE UNCHANGED referral
      <3>1. referral[a] # NoReferral
        BY <1>2, <2>3
      <3>2. ASSUME NEW p \in Processes,
                   \/ \E u \in Members, s \in Users \cup {None} : p \in Requests /\ Signup(p, u, s)
                   \/ \E w \in WalletTypes : p \in Requests /\ CreateWallet(p, w)
                   \/ \E u \in Members : p \in Requests /\ Deposit(p, u)
                   \/ CheckReferral(p) \/ FindSponsorRow(p)
                   \/ p = Script /\ (Seed \/ Backfill \/ (ScriptStep /\ ~SeedReferral))
            PROVE  Balanced(k, a)'
        BY <3>1, <3>2, QuietSteps, QuietBalance
      <3>3. ASSUME NEW p \in Processes, FindDepositor(p) \/ Fail(p)
            PROVE  Balanced(k, a)'
        BY <3>1, <3>3, FindDepositorBalance, FailBalance
      <3>4. CASE Crash(Requests) \/ Crash({Script})
        <4>1. Requests \in SUBSET Processes /\ {Script} \in SUBSET Processes
          BY DEF Processes
        <4> QED
          BY <3>1, <3>4, <4>1, CrashBalance
      <3>5. CASE UNCHANGED vars \/ \E u \in Members : DeleteUser(u)
        <4>1. UNCHANGED <<referral, paid, missed, run>>
          BY <3>5 DEF vars, observed, DeleteUser
        <4> QED
          BY <3>1, <4>1, StillBalance
      <3>6. Script \in Processes /\ Requests \subseteq Processes
        BY DEF Processes
      <3> QED
        BY <2>1, <2>2, <3>2, <3>3, <3>4, <3>5, <3>6, OwnBalance, WalkBalance, <3>1
        DEF Next, Request, CreateReferral
    <2>4. CASE referral' # referral
      <3>1. \/ \E p \in Processes : CreateRoot(p) \/ CreateRow(p)
            \/ SeedReferral
            \/ \E p \in Processes : CountDirect(p) \/ UpdateSponsorStats(p) \/ Walk(p)
        BY <2>4 DEF Next, vars, observed, Request, CreateReferral, ScriptStep, Signup, CreateWallet,
           Deposit, FindDepositor, CheckReferral, FindSponsorRow, Fail, Broken, Seed, Backfill,
           SeedFind, SeedUser, SeedSettings, SeedWallet, NextUser, FillWallet, FindExisting,
           BackfillEnds, Crash, DeleteUser, Processes
      <3>2. ASSUME NEW p \in Processes, CountDirect(p) \/ UpdateSponsorStats(p) \/ Walk(p)
            PROVE  Balanced(k, a)'
        <4>1. PICK c \in Users, j \in Counters :
                  referral[c] # NoReferral /\ referral' = [referral EXCEPT ![c].counts[j] = @ + 1]
          <5>1. run[p].pc \in Climbs
            BY <3>2 DEF CountDirect, UpdateSponsorStats, Walk, At, Climbs
          <5>2. PICK c \in Users : c = run[p].at /\ referral[c] # NoReferral
            BY <5>1 DEF TreeInv, Knows
          <5> QED
            BY <3>2, <5>2 DEF CountDirect, UpdateSponsorStats, Walk, Counters
        <4>2. SameTree
          BY <4>1, RaisedIs
        <4>3. referral[a] # NoReferral
          BY <1>2, <4>2 DEF SameTree
        <4> QED
          BY <3>2, <4>3, OwnBalance, WalkBalance
      <3> QED
        BY <2>1, <2>2, <3>1, <3>2
    <2> QED
      BY <2>3, <2>4
  <1>3. \A q \in Processes : AddsRight(q, run[q])'
    BY AddsNext
  <1> QED
    BY <1>1, <1>2, <1>3, RowlessNext DEF CountInv

\* Whatever signups, first rows, deposits, scripts, failures and restarts mix,
\* the counters of every row, with what running handlers will still add and what
\* stopped ones did not, are exactly the members below it and their deposits:
\* no walk up the tree adds twice or adds to a row it should not.
THEOREM CountersStayRight == Spec => []CountersAddUp
  <1> QED
    BY GroundInit, GroundNext, CountInit, CountNext, CountMeans, PTL DEF Spec

-------------------------------------------------------------------------------
(* The rows below a row, level by level *)

Depth(w, v) == IF w = v THEN 0 ELSE referral[w].level - referral[v].level
Layer(v, n) == {w \in Users : v \in Above(w) /\ Depth(w, v) = n}
Reach(v, n) == {w \in Users : v \in Above(w) /\ Depth(w, v) <= n}

LEMMA DirectIs ==
    ASSUME NEW S \in SUBSET Users
    PROVE  DirectOf(S) = {w \in Users : Parent(w) \in S}
  BY NoneAssumption DEF DirectOf, Parent, HasRow

LEMMA DepthIs ==
    ASSUME TreeInv, NEW w \in Users, NEW v \in Above(w)
    PROVE  /\ v \in Users /\ Depth(w, v) \in Nat /\ (Depth(w, v) = 0 <=> w = v)
           /\ w # v => /\ Parent(w) \in Users /\ v \in Above(Parent(w))
                       /\ Depth(w, v) = Depth(Parent(w), v) + 1
  <1>1. v \in Users
    BY DEF Above
  <1>2. CASE w = v
    BY <1>1, <1>2 DEF Depth
  <1>3. CASE w # v
    <2>1. /\ referral[w] # NoReferral /\ referral[v] # NoReferral
          /\ referral[v].level < referral[w].level
      BY <1>3, AboveLower
    <2>2. referral[w].level \in Nat /\ referral[v].level \in Nat
      BY <1>1, <2>1, ParentIs
    <2>3. Depth(w, v) = referral[w].level - referral[v].level
      BY <1>3 DEF Depth
    <2>4. Parent(w) \in Users /\ v \in Above(Parent(w))
      BY <1>3, AboveIs, ParentIs
    <2>5. referral[w].level = referral[Parent(w)].level + 1 /\ referral[Parent(w)] # NoReferral
      BY <2>4, ParentIs, NoneAssumption
    <2>6. referral[Parent(w)].level \in Nat
      BY <2>4, <2>5, ParentIs
    <2>7. Depth(w, v) = Depth(Parent(w), v) + 1
      <3>1. CASE Parent(w) = v
        BY <2>2, <2>3, <2>5, <3>1 DEF Depth
      <3>2. CASE Parent(w) # v
        <4>1. Depth(Parent(w), v) = referral[Parent(w)].level - referral[v].level
          BY <3>2 DEF Depth
        <4> QED
          BY <2>2, <2>3, <2>5, <2>6, <4>1
      <3> QED
        BY <3>1, <3>2
    <2>8. Depth(w, v) \in Nat \ {0}
      BY <2>1, <2>2, <2>3
    <2> QED
      BY <1>1, <1>3, <2>4, <2>7, <2>8
  <1> QED
    BY <1>2, <1>3

LEMMA DirectAbove ==
    ASSUME TreeInv, NEW v \in Users, NEW c \in Users, Parent(c) = v,
           NEW w \in Users, c \in Above(w)
    PROVE  v \in Above(w) /\ w # v /\ Depth(w, v) = Depth(w, c) + 1
  <1>1. v \in Above(w)
    BY AboveClosed
  <1>2. /\ referral[c] # NoReferral /\ referral[v] # NoReferral
        /\ referral[c].level = referral[v].level + 1
        /\ referral[c].level \in Nat /\ referral[v].level \in Nat
    BY ParentIs, NoneAssumption
  <1>3. CASE w = c
    BY <1>1, <1>2, <1>3 DEF Depth
  <1>4. CASE w # c
    <2>1. referral[w] # NoReferral /\ referral[c].level < referral[w].level
      BY <1>4, AboveLower
    <2>2. referral[w].level \in Nat
      BY <2>1, ParentIs
    <2>3. w # v
      BY <1>2, <2>1, <2>2
    <2> QED
      BY <1>1, <1>2, <1>4, <2>2, <2>3 DEF Depth
  <1> QED
    BY <1>3, <1>4

\* The way up from w to v passes one row that hangs from v.
LEMMA AboveDirect ==
    ASSUME TreeInv, NEW w \in Users, NEW v \in Above(w), w # v
    PROVE  \E c \in Users : Parent(c) = v /\ c \in Above(w)
  <1> SUFFICES ASSUME \A c \in Above(w) : Parent(c) # v
               PROVE  FALSE
    BY DEF Above
  <1>1. PICK S : S = Above(w) \ {v}
    OBVIOUS
  <1>2. Above(w) \subseteq Users /\ w \in S
    BY <1>1, AboveSelf DEF Above
  <1>3. \A c \in S : Parent(c) \in S \cup {None}
    BY <1>1, <1>2, AboveClosed, ParentIs
  <1>4. Above(w) \subseteq S
    BY <1>1, <1>2, <1>3, AboveLeast
  <1> QED
    BY <1>1, <1>4

LEMMA AboveInLine ==
    ASSUME TreeInv, NEW w \in Users, NEW a \in Above(w), NEW b \in Above(w)
    PROVE  a \in Above(b) \/ b \in Above(a)
  <1>1. PICK S : S = {x \in Above(w) : a \in Above(x) \/ x \in Above(a)}
    OBVIOUS
  <1>2. Above(w) \subseteq Users /\ w \in S
    BY <1>1, AboveSelf DEF Above
  <1>3. ASSUME NEW x \in S, Parent(x) # None
        PROVE  Parent(x) \in S
    <2>1. x \in Users /\ Parent(x) \in Users /\ Parent(x) \in Above(w) /\ a \in Users
      BY <1>1, <1>2, <1>3, ParentIs, AboveClosed
    <2>2. Above(x) = {x} \cup Above(Parent(x))
      BY <1>3, <2>1, AboveIs
    <2>3. CASE x \in Above(a)
      BY <1>1, <2>1, <2>3, AboveClosed
    <2>4. CASE a \in Above(x)
      <3>1. a \in Above(a)
        BY <2>1, AboveSelf
      <3> QED
        BY <1>1, <2>1, <2>2, <2>3, <2>4, <3>1
    <2> QED
      BY <1>1, <2>3, <2>4
  <1>4. Above(w) \subseteq S
    BY <1>1, <1>2, <1>3, AboveLeast
  <1> QED
    BY <1>1, <1>4

LEMMA OneDirect ==
    ASSUME TreeInv, NEW w \in Users, NEW v \in Users,
           NEW c \in Above(w), NEW d \in Above(w), Parent(c) = v, Parent(d) = v
    PROVE  c = d
  <1>1. c \in Users /\ d \in Users
    BY DEF Above
  <1>2. /\ referral[c].level = referral[v].level + 1 /\ referral[d].level = referral[v].level + 1
        /\ referral[v].level \in Nat
    BY <1>1, ParentIs, NoneAssumption
  <1>3. c \in Above(d) \/ d \in Above(c)
    BY AboveInLine
  <1> QED
    BY <1>1, <1>2, <1>3, AboveLower

LEMMA LayerStep ==
    ASSUME TreeInv, NEW v \in Users, NEW n \in Nat
    PROVE  Layer(v, 0) = {v} /\ DirectOf(Layer(v, n)) = Layer(v, n + 1)
  <1>1. Layer(v, 0) = {v}
    BY DepthIs, AboveSelf DEF Layer
  <1>2. DirectOf(Layer(v, n)) = {w \in Users : Parent(w) \in Layer(v, n)}
    BY DirectIs DEF Layer
  <1>3. ASSUME NEW w \in Users, Parent(w) \in Layer(v, n)
        PROVE  w \in Layer(v, n + 1)
    <2>1. /\ Parent(w) \in Users /\ v \in Above(Parent(w)) /\ Depth(Parent(w), v) = n
      BY <1>3 DEF Layer
    <2>2. v \in Above(w) /\ w # v
      <3>1. v \in Above(w)
        BY <2>1, AboveIs, NoneAssumption
      <3>2. w # v
        BY <2>1, AboveSelf, DirectAbove
      <3> QED
        BY <3>1, <3>2
    <2> QED
      BY <2>1, <2>2, DepthIs DEF Layer
  <1>4. ASSUME NEW w \in Layer(v, n + 1)
        PROVE  w \in Users /\ Parent(w) \in Layer(v, n)
    <2>1. w \in Users /\ v \in Above(w) /\ Depth(w, v) = n + 1
      BY DEF Layer
    <2>2. w # v
      BY <2>1 DEF Depth
    <2>3. /\ Parent(w) \in Users /\ v \in Above(Parent(w)) /\ n + 1 = Depth(Parent(w), v) + 1
      BY <2>1, <2>2, DepthIs
    <2>4. Depth(Parent(w), v) \in Nat
      BY <2>3, DepthIs
    <2> QED
      BY <2>1, <2>3, <2>4 DEF Layer
  <1> QED
    BY <1>1, <1>2, <1>3, <1>4

LEMMA ReachStep ==
    ASSUME TreeInv, NEW v \in Users, NEW n \in Nat
    PROVE  /\ Reach(v, 0) = {v}
           /\ Reach(v, n + 1) = {v} \cup UNION {Reach(c, n) : c \in DirectOf({v})}
  <1>1. v \in Above(v) /\ Depth(v, v) = 0
    BY AboveSelf DEF Depth
  <1>2. Reach(v, 0) = {v}
    <2>1. ASSUME NEW w \in Reach(v, 0) PROVE w = v
      <3>1. w \in Users /\ v \in Above(w) /\ Depth(w, v) <= 0
        BY DEF Reach
      <3> QED
        BY <3>1, DepthIs
    <2> QED
      BY <1>1, <2>1 DEF Reach
  <1>3. DirectOf({v}) = {c \in Users : Parent(c) = v}
    BY DirectIs
  <1>4. ASSUME NEW w \in Reach(v, n + 1), w # v
        PROVE  \E c \in DirectOf({v}) : w \in Reach(c, n)
    <2>1. w \in Users /\ v \in Above(w) /\ Depth(w, v) <= n + 1
      BY DEF Reach
    <2>2. PICK c \in Users : Parent(c) = v /\ c \in Above(w)
      BY <1>4, <2>1, AboveDirect
    <2>3. Depth(w, v) = Depth(w, c) + 1 /\ Depth(w, c) \in Nat
      BY <2>1, <2>2, DirectAbove, DepthIs
    <2> QED
      BY <1>3, <2>1, <2>2, <2>3 DEF Reach
  <1>5. ASSUME NEW c \in DirectOf({v}), NEW w \in Reach(c, n)
        PROVE  w \in Reach(v, n + 1)
    <2>1. c \in Users /\ Parent(c) = v /\ w \in Users /\ c \in Above(w) /\ Depth(w, c) <= n
      BY <1>3 DEF Reach
    <2>2. v \in Above(w) /\ Depth(w, v) = Depth(w, c) + 1 /\ Depth(w, c) \in Nat
      BY <2>1, DirectAbove, DepthIs
    <2> QED
      BY <2>1, <2>2 DEF Reach
  <1>6. v \in Reach(v, n + 1)
    BY <1>1 DEF Reach
  <1> QED
    BY <1>2, <1>4, <1>5, <1>6

-------------------------------------------------------------------------------
(* What the recursive functions of the views compute.  Each is given outright  *)
(* and shown to be the one function with its equation, from a least n at which *)
(* another would differ.                                                       *)

LEMMA LeastNumber ==
    ASSUME NEW T \in SUBSET Nat, T # {}
    PROVE  \E m \in T : m = 0 \/ m - 1 \in Nat \ T
  <1>1. PICK m \in T : \A k \in T : ~ <<k, m>> \in OpToRel(<, Nat)
    BY NatLessThanWellFounded, WFMin
  <1>2. \A k \in T : ~(k < m)
    BY <1>1 DEF OpToRel
  <1> QED
    BY <1>2

Levels(u, N, level) == [n \in 0..N |-> IF n = 0 THEN {u} ELSE DirectOf(level[n - 1])]

LEMMA LevelsAre ==
    ASSUME TreeInv, NEW u \in Users, NEW N \in Nat
    PROVE  Downline(u, N) = UNION {Layer(u, n) : n \in 1..N}
  <1>1. PICK known : known = [n \in 0..N |-> Layer(u, n)]
    OBVIOUS
  <1>2. known = Levels(u, N, known)
    <2>1. ASSUME NEW n \in 0..N, n # 0
          PROVE  Layer(u, n) = DirectOf(known[n - 1])
      <3>1. n - 1 \in 0..N /\ n - 1 \in Nat /\ (n - 1) + 1 = n
        BY <2>1
      <3>2. DirectOf(Layer(u, n - 1)) = Layer(u, (n - 1) + 1)
        BY <3>1, LayerStep
      <3> QED
        BY <1>1, <3>1, <3>2
    <2>2. \A n \in 0..N : known[n] = IF n = 0 THEN {u} ELSE DirectOf(known[n - 1])
      BY <1>1, <2>1, LayerStep
    <2> QED
      BY <1>1, <2>2 DEF Levels
  <1>3. PICK level : level = CHOOSE f : f = Levels(u, N, f)
    OBVIOUS
  <1>4. level = Levels(u, N, level)
    BY <1>2, <1>3
  <1>5. Downline(u, N) = UNION {level[n] : n \in 1..N}
    BY <1>3 DEF Downline, Levels
  <1>6. \A n \in 0..N : level[n] = IF n = 0 THEN {u} ELSE DirectOf(level[n - 1])
    BY <1>4 DEF Levels
  <1>7. \A n \in 0..N : known[n] = IF n = 0 THEN {u} ELSE DirectOf(known[n - 1])
    BY <1>2 DEF Levels
  <1>8. PICK T : T = {n \in 0..N : level[n] # known[n]}
    OBVIOUS
  <1>9. T = {}
    <2>1. SUFFICES ASSUME T # {} PROVE FALSE
      OBVIOUS
    <2>2. T \in SUBSET Nat
      BY <1>8
    <2>3. PICK m \in T : m = 0 \/ m - 1 \in Nat \ T
      BY <2>1, <2>2, LeastNumber
    <2>4. m \in 0..N /\ level[m] # known[m]
      BY <1>8
    <2>5. m # 0
      BY <1>6, <1>7, <2>4
    <2>6. m - 1 \in 0..N /\ level[m - 1] = known[m - 1]
      BY <1>8, <2>3, <2>4, <2>5
    <2> QED
      BY <1>6, <1>7, <2>4, <2>5, <2>6
  <1>10. ASSUME NEW n \in 1..N
         PROVE  level[n] = Layer(u, n)
    <2>1. n \in 0..N
      OBVIOUS
    <2>2. level[n] = known[n]
      BY <1>8, <1>9, <2>1
    <2> QED
      BY <1>1, <2>1, <2>2
  <1> QED
    BY <1>5, <1>10

LEMMA DownlineIs ==
    ASSUME TreeInv, NEW u \in Users, NEW N \in Nat
    PROVE  Downline(u, N) = Reach(u, N) \ {u}
  <1>1. ASSUME NEW w \in Users, u \in Above(w)
        PROVE  (\E n \in 1..N : Depth(w, u) = n) <=> Depth(w, u) <= N /\ w # u
    BY <1>1, DepthIs
  <1> QED
    BY <1>1, LevelsAre DEF Layer, Reach

Shown(N, build) ==
    [n \in 0..N |->
        [v \in Users |->
            IF n = 0 THEN {[user |-> v, level |-> N, directReferrals |-> 0]}
            ELSE {[user |-> v, level |-> N - n,
                   directReferrals |-> Cardinality(DirectOf({v}))]}
                 \cup UNION {build[n - 1][c] : c \in DirectOf({v})}]]

\* The node of w in a tree of which v has n levels left to show.
Node(N, n, v, w) ==
    [user |-> w, level |-> (N - n) + Depth(w, v),
     directReferrals |-> IF Depth(w, v) = n THEN 0 ELSE Cardinality(DirectOf({w}))]

Nodes(N, n, v) == {Node(N, n, v, w) : w \in Reach(v, n)}

LEMMA NodesStep ==
    ASSUME TreeInv, NEW v \in Users, NEW N \in Nat, NEW n \in 0..N
    PROVE  Nodes(N, n, v) =
               IF n = 0 THEN {[user |-> v, level |-> N, directReferrals |-> 0]}
               ELSE {[user |-> v, level |-> N - n,
                      directReferrals |-> Cardinality(DirectOf({v}))]}
                    \cup UNION {Nodes(N, n - 1, c) : c \in DirectOf({v})}
  <1>1. Depth(v, v) = 0
    BY DEF Depth
  <1>2. CASE n = 0
    <2>1. Reach(v, n) = {v}
      BY <1>2, ReachStep
    <2>2. Node(N, n, v, v) = [user |-> v, level |-> N, directReferrals |-> 0]
      BY <1>1, <1>2 DEF Node
    <2> QED
      BY <1>2, <2>1, <2>2 DEF Nodes
  <1>3. CASE n # 0
    <2>1. n - 1 \in Nat /\ (n - 1) + 1 = n
      BY <1>3
    <2>2. Reach(v, (n - 1) + 1) = {v} \cup UNION {Reach(c, n - 1) : c \in DirectOf({v})}
      BY <2>1, ReachStep
    <2>3. Reach(v, n) = {v} \cup UNION {Reach(c, n - 1) : c \in DirectOf({v})}
      BY <2>1, <2>2
    <2>4. Node(N, n, v, v) = [user |-> v, level |-> N - n,
                              directReferrals |-> Cardinality(DirectOf({v}))]
      BY <1>1, <1>3 DEF Node
    <2>5. ASSUME NEW c \in DirectOf({v}), NEW w \in Reach(c, n - 1)
          PROVE  Node(N, n, v, w) = Node(N, n - 1, c, w)
      <3>1. c \in Users /\ Parent(c) = v /\ w \in Users /\ c \in Above(w)
        BY DirectIs DEF Reach
      <3>2. Depth(w, v) = Depth(w, c) + 1 /\ Depth(w, c) \in Nat
        BY <3>1, DirectAbove, DepthIs
      <3>3. (N - n) + Depth(w, v) = (N - (n - 1)) + Depth(w, c)
            /\ (Depth(w, v) = n <=> Depth(w, c) = n - 1)
        BY <3>2
      <3> QED
        BY <3>3 DEF Node
    <2> QED
      BY <1>3, <2>3, <2>4, <2>5 DEF Nodes
  <1> QED
    BY <1>2, <1>3

LEMMA TreeIs ==
    ASSUME TreeInv, NEW u \in Users, NEW N \in Nat
    PROVE  {t.user : t \in Tree(u, N)} = Reach(u, N)
  <1>1. PICK known : known = [n \in 0..N |-> [v \in Users |-> Nodes(N, n, v)]]
    OBVIOUS
  <1>2. \A n \in 0..N, v \in Users : known[n][v] = Nodes(N, n, v)
    BY <1>1
  <1>3. ASSUME NEW n \in 0..N, NEW v \in Users
        PROVE  known[n][v] = Shown(N, known)[n][v]
    <2>1. DirectOf({v}) \subseteq Users
      BY DEF DirectOf
    <2>2. n # 0 => n - 1 \in 0..N
      OBVIOUS
    <2>3. ASSUME n # 0
          PROVE  UNION {known[n - 1][c] : c \in DirectOf({v})} =
                 UNION {Nodes(N, n - 1, c) : c \in DirectOf({v})}
      <3>1. \A c \in DirectOf({v}) : known[n - 1][c] = Nodes(N, n - 1, c)
        BY <1>2, <2>1, <2>2, <2>3
      <3> QED
        BY <3>1
    <2>4. Shown(N, known)[n][v] =
              IF n = 0 THEN {[user |-> v, level |-> N, directReferrals |-> 0]}
              ELSE {[user |-> v, level |-> N - n,
                     directReferrals |-> Cardinality(DirectOf({v}))]}
                   \cup UNION {known[n - 1][c] : c \in DirectOf({v})}
      BY DEF Shown
    <2>5. CASE n = 0
      BY <1>2, <2>4, <2>5, NodesStep
    <2>6. CASE n # 0
      <3>1. known[n][v] = Nodes(N, n, v)
        BY <1>2
      <3> QED
        BY <2>3, <2>4, <2>6, <3>1, NodesStep
    <2> QED
      BY <2>5, <2>6
  <1>4. known = Shown(N, known)
    <2>1. \A n \in 0..N : known[n] = Shown(N, known)[n]
      <3>1. ASSUME NEW n \in 0..N
            PROVE  known[n] = Shown(N, known)[n]
        <4>1. known[n] = [v \in Users |-> known[n][v]]
          BY <1>1
        <4>2. Shown(N, known)[n] = [v \in Users |-> Shown(N, known)[n][v]]
          BY DEF Shown
        <4> QED
          BY <1>3, <4>1, <4>2
      <3> QED
        BY <3>1
    <2>2. known = [n \in 0..N |-> known[n]]
      BY <1>1
    <2>3. Shown(N, known) = [n \in 0..N |-> Shown(N, known)[n]]
      BY DEF Shown
    <2> QED
      BY <2>1, <2>2, <2>3
  <1>5. Tree(u, N) = (CHOOSE f : f = Shown(N, f))[N][u]
    BY Zenon DEF Tree, Shown
  <1>6. PICK build : build = CHOOSE f : f = Shown(N, f)
    OBVIOUS
  <1>7. build = Shown(N, build)
    BY <1>4, <1>6
  <1>8. ASSUME NEW n \in 0..N, n = 0 \/ (n - 1 \in 0..N /\ build[n - 1] = known[n - 1])
        PROVE  build[n] = known[n]
    <2>1. build[n] = Shown(N, build)[n] /\ known[n] = Shown(N, known)[n]
      BY <1>4, <1>7
    <2>2. Shown(N, build)[n] = Shown(N, known)[n]
      BY <1>8 DEF Shown
    <2> QED
      BY <2>1, <2>2
  <1>9. PICK T : T = {n \in 0..N : build[n] # known[n]}
    OBVIOUS
  <1>10. T = {}
    <2>1. SUFFICES ASSUME T # {} PROVE FALSE
      OBVIOUS
    <2>2. T \in SUBSET Nat
      BY <1>9
    <2>3. PICK m \in T : m = 0 \/ m - 1 \in Nat \ T
      BY <2>1, <2>2, LeastNumber
    <2>4. m \in 0..N /\ build[m] # known[m]
      BY <1>9
    <2>5. m = 0 \/ (m - 1 \in 0..N /\ build[m - 1] = known[m - 1])
      BY <1>9, <2>3, <2>4
    <2> QED
      BY <1>8, <2>4, <2>5
  <1>11. N \in 0..N
    OBVIOUS
  <1>12. Tree(u, N) = Nodes(N, N, u)
    BY <1>2, <1>5, <1>6, <1>9, <1>10, <1>11
  <1>13. \A w \in Reach(u, N) : Node(N, N, u, w).user = w
    BY DEF Node
  <1> QED
    BY <1>12, <1>13 DEF Nodes


-------------------------------------------------------------------------------
(* The size of a team *)

\* A way up has one row at each level, so that no row is deeper than there are
\* users.
LEMMA DepthBound ==
    ASSUME TreeInv, NEW w \in Users, NEW v \in Above(w)
    PROVE  Depth(w, v) <= Cardinality(Users)
  <1>1. Cardinality(Users) \in Nat /\ v \in Users
    BY FiniteAssumption, FS_CardinalityType DEF Above
  <1>2. CASE w = v
    BY <1>1, <1>2 DEF Depth
  <1>3. CASE w # v
    <2>1. /\ referral[w] # NoReferral /\ referral[w].level \in Nat
          /\ referral[v] # NoReferral /\ referral[v].level \in Nat
      BY <1>1, <1>3, AboveLower, ParentIs
    <2>2. PICK top \in Nat : top = referral[w].level
      BY <2>1
    <2>3. PICK T : T = {m \in 0..top : ~ \E a \in Above(w) : /\ referral[a] # NoReferral
                                                            /\ referral[a].level = top - m}
      OBVIOUS
    <2>4. T = {}
      <3>1. SUFFICES ASSUME T # {} PROVE FALSE
        OBVIOUS
      <3>2. T \in SUBSET Nat
        BY <2>3
      <3>3. PICK m \in T : m = 0 \/ m - 1 \in Nat \ T
        BY <3>1, <3>2, LeastNumber
      <3>4. /\ m \in 0..top
            /\ \A a \in Above(w) : referral[a] # NoReferral => referral[a].level # top - m
        BY <2>3
      <3>5. m # 0
        BY <2>1, <2>2, <3>4, AboveSelf
      <3>6. PICK a \in Above(w) : referral[a] # NoReferral /\ referral[a].level = top - (m - 1)
        BY <2>3, <3>3, <3>4, <3>5
      <3>7. a \in Users /\ referral[a].level # 0
        BY <3>4, <3>5, <3>6 DEF Above
      <3>8. Parent(a) \in Users
        <4>1. referral[a].sponsor # None
          BY <3>6, <3>7 DEF TreeInv, Placed
        <4> QED
          BY <3>6, <3>7, <4>1, ParentIs DEF Parent, HasRow
      <3>9. /\ Parent(a) \in Above(w) /\ referral[Parent(a)] # NoReferral
            /\ referral[a].level = referral[Parent(a)].level + 1
            /\ referral[Parent(a)].level \in Nat
        BY <3>7, <3>8, AboveClosed, ParentIs, NoneAssumption
      <3> QED
        BY <3>4, <3>6, <3>9
    <2>5. PICK f : f = [n \in 1..top + 1 |->
              CHOOSE a \in Above(w) : referral[a] # NoReferral /\ referral[a].level = n - 1]
      OBVIOUS
    <2>6. ASSUME NEW n \in 1..top + 1
          PROVE  f[n] \in Users /\ referral[f[n]].level = n - 1
      <3>1. top - (n - 1) \in 0..top /\ top - (top - (n - 1)) = n - 1
        OBVIOUS
      <3>2. \E a \in Above(w) : referral[a] # NoReferral /\ referral[a].level = n - 1
        BY <2>3, <2>4, <3>1
      <3> QED
        BY <2>5, <3>2 DEF Above
    <2>7. f \in Injection(1..top + 1, Users)
      <3>1. f \in [1..top + 1 -> Users]
        BY <2>5, <2>6
      <3>2. ASSUME NEW m \in 1..top + 1, NEW n \in 1..top + 1, f[m] = f[n]
            PROVE  m = n
        BY <2>6, <3>2
      <3> QED
        BY <3>1, <3>2 DEF Injection, IsInjective
    <2>8. Cardinality(1..top + 1) <= Cardinality(Users)
      BY <2>7, FiniteAssumption, FS_Injection
    <2>9. Cardinality(1..top + 1) = top + 1
      BY FS_Interval
    <2>10. Depth(w, v) <= top
      BY <1>3, <2>1, <2>2 DEF Depth
    <2>11. Depth(w, v) \in Nat
      BY DepthIs
    <2> QED
      BY <1>1, <2>8, <2>9, <2>10, <2>11
  <1> QED
    BY <1>2, <1>3

\* The total of the sizes of disjoint sets is the size of their union.
LEMMA TotalOfSizes ==
    ASSUME NEW S, NEW part, NEW all, IsFiniteSet(all), all = UNION {part[d] : d \in S},
           \A c, d \in S : c # d => part[c] \cap part[d] = {}
    PROVE  Total([d \in S |-> Cardinality(part[d])]) = Cardinality(all)
  <1>1. ASSUME NEW d \in S
        PROVE  /\ Cardinality(part[d]) \in Nat
               /\ \E b : b \in Bijection(1..Cardinality(part[d]), part[d])
    <2>1. part[d] \in SUBSET all
      OBVIOUS
    <2>2. IsFiniteSet(part[d])
      BY <2>1, FS_Subset
    <2> QED
      BY <2>2, FS_CardinalityType DEF ExistsBijection
  <1>2. PICK size : size = [d \in S |-> Cardinality(part[d])]
    OBVIOUS
  <1>3. PICK nth : nth = [d \in S |-> CHOOSE b : b \in Bijection(1..size[d], part[d])]
    OBVIOUS
  <1>4. ASSUME NEW d \in S
        PROVE  size[d] \in Nat /\ nth[d] \in Bijection(1..size[d], part[d])
    BY <1>1, <1>2, <1>3
  <1>5. ASSUME NEW d \in S
        PROVE  /\ \A i \in 1..size[d] : nth[d][i] \in part[d]
               /\ \A i, j \in 1..size[d] : nth[d][i] = nth[d][j] => i = j
               /\ \A w \in part[d] : \E i \in 1..size[d] : nth[d][i] = w
    BY <1>4 DEF Bijection, Injection, Surjection, IsInjective
  <1>6. \A z : z \in Units(size) <=> \E d \in S : \E i \in 1..size[d] : z = <<d, i>>
    BY <1>2 DEF Units
  <1>7. PICK f : f = [z \in Units(size) |-> nth[z[1]][z[2]]]
    OBVIOUS
  <1>8. \A d \in S : \A i \in 1..size[d] : <<d, i>> \in Units(size) /\ f[<<d, i>>] = nth[d][i]
    BY <1>6, <1>7
  <1>9. f \in [Units(size) -> all]
    <2>1. ASSUME NEW z \in Units(size) PROVE f[z] \in all
      <3>1. PICK d \in S : \E i \in 1..size[d] : z = <<d, i>>
        BY <1>6
      <3>2. PICK i \in 1..size[d] : z = <<d, i>>
        BY <3>1
      <3>3. f[z] = nth[d][i] /\ nth[d][i] \in part[d]
        BY <1>5, <1>8, <3>2
      <3> QED
        BY <3>3
    <2> QED
      BY <1>7, <2>1
  <1>10. ASSUME NEW y \in Units(size), NEW z \in Units(size), f[y] = f[z]
         PROVE  y = z
    <2>1. PICK c \in S : \E i \in 1..size[c] : y = <<c, i>>
      BY <1>6
    <2>2. PICK i \in 1..size[c] : y = <<c, i>>
      BY <2>1
    <2>3. PICK d \in S : \E j \in 1..size[d] : z = <<d, j>>
      BY <1>6
    <2>4. PICK j \in 1..size[d] : z = <<d, j>>
      BY <2>3
    <2>5. /\ f[y] = nth[c][i] /\ f[z] = nth[d][j]
          /\ nth[c][i] \in part[c] /\ nth[d][j] \in part[d]
      BY <1>5, <1>8, <2>2, <2>4
    <2>6. c = d
      BY <1>10, <2>5
    <2>7. i = j
      <3>1. j \in 1..size[c] /\ nth[c][i] = nth[c][j]
        BY <1>10, <2>5, <2>6
      <3>2. \A k, l \in 1..size[c] : nth[c][k] = nth[c][l] => k = l
        BY <1>5
      <3> QED
        BY <3>1, <3>2
    <2> QED
      BY <2>2, <2>4, <2>6, <2>7
  <1>11. ASSUME NEW w \in all
         PROVE  \E z \in Units(size) : f[z] = w
    <2>1. PICK d \in S : w \in part[d]
      OBVIOUS
    <2>2. PICK i \in 1..size[d] : nth[d][i] = w
      BY <1>5, <2>1
    <2> QED
      BY <1>8, <2>2
  <1>12. f \in Bijection(Units(size), all)
    BY <1>9, <1>10, <1>11 DEF Bijection, Injection, Surjection, IsInjective
  <1>13. IsFiniteSet(Units(size)) /\ Cardinality(Units(size)) <= Cardinality(all)
    BY <1>12, FS_Injection DEF Bijection
  <1>14. Cardinality(all) = Cardinality(Units(size))
    BY <1>12, <1>13, FS_Bijection DEF ExistsBijection
  <1> QED
    BY <1>2, <1>14 DEF Total


\* That the rows and the users tell the same: a user hangs from a sponsor in
\* the one table if it does in the other.
Matching == \A v \in Users : DirectOf({v}) = {d \in Users : user[d] # NoUser /\ user[d].sponsor = v}

Sizes(total) ==
    [n \in 0..Cardinality(Users) |->
        [v \in Users |->
            LET directs == {d \in Users : user[d] # NoUser /\ user[d].sponsor = v} IN
            IF n = 0 THEN 0
            ELSE Cardinality(directs) + Total([d \in directs |-> total[n - 1][d]])]]

Team(v, n) == Reach(v, n) \ {v}

LEMMA TeamStep ==
    ASSUME TreeInv, NEW v \in Users, NEW n \in Nat
    PROVE  /\ Cardinality(Team(v, 0)) = 0
           /\ Cardinality(Team(v, n + 1)) =
                  Cardinality(DirectOf({v}))
                  + Total([d \in DirectOf({v}) |-> Cardinality(Team(d, n))])
  <1>1. PICK D \in SUBSET Users : D = DirectOf({v})
    BY DEF DirectOf
  <1>2. \A d \in D : d \in Users /\ Parent(d) = v
    BY <1>1, DirectIs
  <1>3. PICK part : part = [d \in D |-> Team(d, n)]
    OBVIOUS
  <1>4. PICK all : all = UNION {part[d] : d \in D}
    OBVIOUS
  <1>5. \A w : w \in all <=> \E d \in D : w \in Reach(d, n) /\ w # d
    BY <1>3, <1>4 DEF Team
  <1>6. ASSUME NEW d \in D, NEW w \in Reach(d, n)
        PROVE  w \in Users /\ d \in Above(w) /\ w # v
    <2>1. w \in Users /\ d \in Above(w)
      BY DEF Reach
    <2> QED
      BY <1>2, <2>1, DirectAbove
  <1>7. IsFiniteSet(all) /\ IsFiniteSet(D)
    <2>1. all \in SUBSET Users
      BY <1>5, <1>6
    <2> QED
      BY <2>1, FiniteAssumption, FS_Subset
  <1>8. \A c, d \in D : c # d => part[c] \cap part[d] = {}
    <2>1. SUFFICES ASSUME NEW c \in D, NEW d \in D, NEW w \in part[c], w \in part[d]
                   PROVE  c = d
      OBVIOUS
    <2>2. w \in Reach(c, n) /\ w \in Reach(d, n)
      BY <1>3, <2>1 DEF Team
    <2> QED
      BY <1>2, <1>6, <2>2, OneDirect
  <1>9. D \cap all = {}
    <2>1. SUFFICES ASSUME NEW w \in D, NEW d \in D, w \in Reach(d, n), w # d
                   PROVE  FALSE
      BY <1>5
    <2>2. w \in Above(w)
      BY <2>1, AboveSelf
    <2> QED
      BY <1>2, <1>6, <2>1, <2>2, OneDirect
  <1>10. Team(v, n + 1) = D \cup all
    <2>1. Reach(v, n + 1) = {v} \cup UNION {Reach(c, n) : c \in D}
      BY <1>1, ReachStep
    <2>2. \A w : w \in Team(v, n + 1) <=> \E d \in D : w \in Reach(d, n)
      BY <1>6, <2>1 DEF Team
    <2>3. \A d \in D : d \in Reach(d, n)
      BY AboveSelf DEF Reach, Depth
    <2> QED
      BY <1>5, <2>2, <2>3
  <1>11. Cardinality(D \cup all) = Cardinality(D) + Cardinality(all)
    <2>1. Cardinality(D \cup all) = Cardinality(D) + Cardinality(all) - Cardinality(D \cap all)
      BY <1>7, FS_Union
    <2>2. Cardinality(D) \in Nat /\ Cardinality(all) \in Nat /\ Cardinality(D \cap all) = 0
      BY <1>7, <1>9, FS_EmptySet, FS_CardinalityType
    <2> QED
      BY <2>1, <2>2
  <1>12. Total([d \in D |-> Cardinality(part[d])]) = Cardinality(all)
    BY <1>4, <1>7, <1>8, TotalOfSizes
  <1>13. [d \in D |-> Cardinality(part[d])] = [d \in D |-> Cardinality(Team(d, n))]
    BY <1>3
  <1>14. Team(v, 0) = {}
    BY ReachStep DEF Team
  <1>15. Cardinality(Team(v, n + 1)) = Cardinality(D) + Total([d \in D |-> Cardinality(Team(d, n))])
    BY <1>10, <1>11, <1>12, <1>13
  <1> QED
    BY <1>1, <1>14, <1>15, FS_EmptySet

LEMMA TeamSizeIs ==
    ASSUME TreeInv, Matching, NEW u \in Users
    PROVE  CountTeamSize(u) = Cardinality(Team(u, Cardinality(Users)))
  <1>1. PICK N \in Nat : N = Cardinality(Users)
    BY FiniteAssumption, FS_CardinalityType
  <1>2. PICK known : known = [n \in 0..N |-> [v \in Users |-> Cardinality(Team(v, n))]]
    OBVIOUS
  <1>3. \A n \in 0..N, v \in Users : known[n][v] = Cardinality(Team(v, n))
    BY <1>2
  <1>4. ASSUME NEW total, NEW n \in 0..N, NEW v \in Users
        PROVE  Sizes(total)[n][v] =
                   IF n = 0 THEN 0
                   ELSE Cardinality(DirectOf({v})) + Total([d \in DirectOf({v}) |-> total[n - 1][d]])
    BY <1>1 DEF Sizes, Matching
  <1>5. ASSUME NEW n \in 0..N, NEW v \in Users
        PROVE  known[n][v] = Sizes(known)[n][v]
    <2>1. CASE n = 0
      BY <1>3, <1>4, <2>1, TeamStep
    <2>2. CASE n # 0
      <3>1. n - 1 \in 0..N /\ n - 1 \in Nat /\ (n - 1) + 1 = n
        BY <2>2
      <3>2. DirectOf({v}) \subseteq Users
        BY DEF DirectOf
      <3>3. [d \in DirectOf({v}) |-> known[n - 1][d]] =
            [d \in DirectOf({v}) |-> Cardinality(Team(d, n - 1))]
        BY <1>3, <3>1, <3>2
      <3>4. Cardinality(Team(v, (n - 1) + 1)) =
                Cardinality(DirectOf({v}))
                + Total([d \in DirectOf({v}) |-> Cardinality(Team(d, n - 1))])
        BY <3>1, TeamStep
      <3>5. Cardinality(Team(v, n)) =
                Cardinality(DirectOf({v})) + Total([d \in DirectOf({v}) |-> known[n - 1][d]])
        BY <3>1, <3>3, <3>4
      <3> QED
        BY <1>3, <1>4, <2>2, <3>5
    <2> QED
      BY <2>1, <2>2
  <1>6. known = Sizes(known)
    <2>1. ASSUME NEW n \in 0..N
          PROVE  known[n] = Sizes(known)[n]
      <3>1. known[n] = [v \in Users |-> known[n][v]]
        BY <1>2
      <3>2. Sizes(known)[n] = [v \in Users |-> Sizes(known)[n][v]]
        BY <1>1 DEF Sizes
      <3> QED
        BY <1>5, <3>1, <3>2
    <2>2. known = [n \in 0..N |-> known[n]]
      BY <1>2
    <2>3. Sizes(known) = [n \in 0..N |-> Sizes(known)[n]]
      BY <1>1 DEF Sizes
    <2> QED
      BY <2>1, <2>2, <2>3
  <1>7. PICK total : total = CHOOSE f : f = Sizes(f)
    OBVIOUS
  <1>8. total = Sizes(total)
    BY <1>6, <1>7
  <1>9. CountTeamSize(u) = total[N][u]
    <2>1. CountTeamSize(u) = (CHOOSE f : f = Sizes(f))[Cardinality(Users)][u]
      BY Zenon DEF CountTeamSize, Sizes
    <2> QED
      BY <1>1, <1>7, <2>1
  <1>10. ASSUME NEW n \in 0..N, n = 0 \/ (n - 1 \in 0..N /\ total[n - 1] = known[n - 1])
         PROVE  total[n] = known[n]
    <2>1. total[n] = Sizes(total)[n] /\ known[n] = Sizes(known)[n]
      BY <1>6, <1>8
    <2>2. Sizes(total)[n] = Sizes(known)[n]
      BY <1>1, <1>10 DEF Sizes
    <2> QED
      BY <2>1, <2>2
  <1>11. PICK T : T = {n \in 0..N : total[n] # known[n]}
    OBVIOUS
  <1>12. T = {}
    <2>1. SUFFICES ASSUME T # {} PROVE FALSE
      OBVIOUS
    <2>2. T \in SUBSET Nat
      BY <1>11
    <2>3. PICK m \in T : m = 0 \/ m - 1 \in Nat \ T
      BY <2>1, <2>2, LeastNumber
    <2>4. m \in 0..N /\ total[m] # known[m]
      BY <1>11
    <2>5. m = 0 \/ (m - 1 \in 0..N /\ total[m - 1] = known[m - 1])
      BY <1>11, <2>3, <2>4
    <2> QED
      BY <1>10, <2>4, <2>5
  <1>13. N \in 0..N
    OBVIOUS
  <1>14. total[N][u] = Cardinality(Team(u, N))
    BY <1>3, <1>11, <1>12, <1>13
  <1> QED
    BY <1>1, <1>9, <1>14


-------------------------------------------------------------------------------
(* The three views of a team *)

\* Only runs that are cut miss something, and then somebody's signup failed.
MissInv == failed = {} => \A a \in Users, k \in Counters : missed[a][k] = 0

LEMMA MissInit == Init => MissInv
  BY DEF Init, MissInv, NoCounts

LEMMA MissNext == MissInv /\ [Next]_vars => MissInv'
  <1> SUFFICES ASSUME MissInv, [Next]_vars
               PROVE  MissInv'
    OBVIOUS
  <1>1. ASSUME NEW ps, Broken(ps), failed' = {}, NEW a \in Users, NEW k \in Counters
        PROVE  missed'[a][k] = 0
    <2>1. failed = {} /\ \A p \in ps : run[p] = Idle
      BY <1>1 DEF Broken
    <2>2. {p \in ps : Owes(run[p], k, a)} = {}
      BY <2>1, IdleRun DEF Owes
    <2>3. missed[a][k] = 0 /\ Rest(ps, k, a) = 0
      BY <2>1, <2>2, FS_EmptySet DEF MissInv, Rest
    <2>4. missed'[a][k] = missed[a][k] + Rest(ps, k, a)
      BY <1>1 DEF Broken
    <2> QED
      BY <2>3, <2>4
  <1>2. (\E ps : Broken(ps)) \/ UNCHANGED missed
    BY DEF Next, vars, observed, Request, CreateReferral, ScriptStep, Signup, CreateWallet,
       Deposit, FindDepositor, UpdateSponsorStats, CheckReferral, FindSponsorRow, CreateRoot,
       CreateRow, CountDirect, Walk, Fail, Seed, Backfill, StartScript, SeedFind, SeedUser, SeedStep,
       SeedReferral, SeedSettings, SeedWallet, NextUser, FillWallet, FindExisting, BackfillEnds,
       Crash, DeleteUser
  <1>3. CASE \E ps : Broken(ps)
    BY <1>1, <1>3 DEF MissInv
  <1>4. CASE UNCHANGED missed
    BY <1>4, ExcusesStay DEF MissInv
  <1> QED
    BY <1>2, <1>3, <1>4

Quiet ==
    /\ \A p \in Processes : run[p] = Idle
    /\ failed \cup raced \cup early = {}
    /\ \A v \in Users : user[v] # NoUser => ~user[v].deleted

LEMMA QuietMatches ==
    ASSUME GroundInv, LostInv, Quiet
    PROVE  Matching
  <1> SUFFICES ASSUME NEW v \in Users
               PROVE  DirectOf({v}) = {d \in Users : user[d] # NoUser /\ user[d].sponsor = v}
    BY DEF Matching
  <1>1. ASSUME NEW d \in DirectOf({v})
        PROVE  d \in Users /\ user[d] # NoUser /\ user[d].sponsor = v
    <2>1. d \in Users /\ referral[d] # NoReferral /\ referral[d].sponsor = v
      BY DEF DirectOf, HasRow
    <2> QED
      BY <2>1, NoneAssumption DEF GroundInv, TreeInv, Placed
  <1>2. ASSUME NEW d \in Users, user[d] # NoUser, user[d].sponsor = v
        PROVE  d \in DirectOf({v})
    <2>1. NobodyIsLost
      BY LostMeans
    <2>2. user[d].sponsor # None /\ user[v] # NoUser /\ ~user[v].deleted
      BY <1>2, NoneAssumption DEF GroundInv, UsersFirst, Quiet
    <2>3. HasRow(d) /\ referral[d].sponsor = v
      BY <1>2, <2>1, <2>2 DEF NobodyIsLost, Quiet
    <2> QED
      BY <2>3 DEF DirectOf
  <1> QED
    BY <1>1, <1>2 DEF DirectOf

LEMMA TeamIsBelow ==
    ASSUME TreeInv, NEW u \in Users
    PROVE  Team(u, Cardinality(Users)) = Below(u)
  BY DepthBound, AboveLower DEF Team, Reach, Below, HasRow

LEMMA TotalIs ==
    ASSUME TreeInv, CountInv, MissInv, Quiet, NEW u \in Users
    PROVE  TotalReferrals(u) = Cardinality(Below(u))
  <1>1. CASE referral[u] = NoReferral
    <2>1. \A w \in Users : Parent(w) # u
      BY <1>1, ParentIs, NoneAssumption
    <2>2. DirectOf({u}) = {}
      BY <2>1, DirectIs
    <2>3. Below(u) = {}
      BY <1>1, AboveLower DEF Below
    <2> QED
      BY <1>1, <2>2, <2>3 DEF TotalReferrals, DirectReferrals, HasRow
  <1>2. CASE referral[u] # NoReferral
    <2>1. "team" \in Counters
      BY DEF Counters
    <2>2. /\ referral[u].counts["team"] \in Nat
          /\ referral[u].counts["team"] + missed[u]["team"] + Cardinality(Owing("team", u))
                 = Cardinality(Marks("team", u))
      BY <1>2, <2>1, BalanceIs
    <2>3. Owing("team", u) = {}
      BY NothingOwed, IdleRun DEF Quiet, Climbs, Owing
    <2>4. missed[u]["team"] = 0 /\ Cardinality(Owing("team", u)) = 0
      BY <2>1, <2>3, FS_EmptySet DEF MissInv, Quiet
    <2>5. Marks("team", u) = Below(u)
      BY DEF Marks, Of
    <2> QED
      BY <1>2, <2>2, <2>4, <2>5 DEF TotalReferrals, HasRow
  <1> QED
    BY <1>1, <1>2

LEMMA ViewsMean == GroundInv /\ LostInv /\ CountInv /\ MissInv => ViewsAgree
  <1> SUFFICES ASSUME GroundInv, LostInv, CountInv, MissInv, NEW u \in Users
               PROVE  /\ \A n \in 1..Cardinality(Users) :
                             {t.user : t \in Tree(u, n)} = {u} \cup Downline(u, n)
                      /\ Quiet =>
                             /\ TotalReferrals(u) = Cardinality(Downline(u, Cardinality(Users)))
                             /\ TotalReferrals(u) = CountTeamSize(u)
    BY DEF ViewsAgree, Quiet
  <1>1. TreeInv /\ Cardinality(Users) \in Nat
    BY FiniteAssumption, FS_CardinalityType DEF GroundInv
  <1>2. ASSUME NEW n \in 1..Cardinality(Users)
        PROVE  {t.user : t \in Tree(u, n)} = {u} \cup Downline(u, n)
    <2>1. n \in Nat
      BY <1>1
    <2>2. u \in Reach(u, n)
      BY <2>1, AboveSelf DEF Reach, Depth
    <2> QED
      BY <1>1, <2>1, <2>2, TreeIs, DownlineIs
  <1>3. ASSUME Quiet
        PROVE  /\ TotalReferrals(u) = Cardinality(Downline(u, Cardinality(Users)))
               /\ TotalReferrals(u) = CountTeamSize(u)
    <2>1. TotalReferrals(u) = Cardinality(Below(u)) /\ Matching
      BY <1>1, <1>3, TotalIs, QuietMatches
    <2>2. Downline(u, Cardinality(Users)) = Below(u)
      BY <1>1, DownlineIs, TeamIsBelow DEF Team
    <2>3. CountTeamSize(u) = Cardinality(Below(u))
      BY <1>1, <2>1, TeamSizeIs, TeamIsBelow
    <2> QED
      BY <2>1, <2>2, <2>3
  <1> QED
    BY <1>2, <1>3

\* The tree and the list of a team show the same members, and once no signup
\* has failed or met a race the counter, the rows and the users tell the same
\* size of every team, however deep.
THEOREM ViewsStayEqual == Spec => []ViewsAgree
  <1> QED
    BY GroundInit, GroundNext, LostInit, LostNext, CountInit, CountNext, MissInit, MissNext,
       ViewsMean, PTL DEF Spec

\* The two together: whatever mixes, a counter is what its rows show less what
\* is still to be added or was cut short, and undisturbed all views are one.
THEOREM TeamsStayCounted == Spec => []TeamsAreCounted
  BY CountersStayRight, ViewsStayEqual, PTL DEF TeamsAreCounted
===============================================================================
