----------------------------- MODULE ReferralTree -----------------------------
(***************************************************************************)
(* The referral tree and the events kept in it: referralService and      *)
(* referralRepository, as signup (authService) and approved deposits call  *)
(* them, with the wallets signup creates, the seed script and the script   *)
(* tmp-backfill, which repairs users whose signup was cut short.           *)
(*                                                                         *)
(* A run is one handler between its database calls.  Two tables say who    *)
(* brought whom: the user row (sponsorId) and the referral row, made a few *)
(* calls later and never moved.  A sponsor without a row is given a root   *)
(* one, even when it has a sponsor itself.                                 *)
(*                                                                         *)
(* The money of a referral bonus is Deposit's; here a deposit has amount 1 *)
(* and reaches processReferralBonus once.                                  *)
(***************************************************************************)
EXTENDS Integers, FiniteSets, Totals

CONSTANTS
    Members,        \* users that sign up
    Admin,          \* the user the seed script creates
    WalletTypes,    \* wallets of a user
    Requests,       \* handlers in progress at once
    Script,         \* the script that is run by hand
    MaxEvents       \* bound: deposits, deletions, scripts and failures in a
                    \* behaviour, together

ASSUME AdminAssumption == Admin \notin Members
ASSUME ScriptAssumption == Script \notin Requests
ASSUME BoundAssumption == MaxEvents \in Nat

VARIABLES
    user,           \* the user rows
    wallets,        \* per user, the types of its wallets
    referral,       \* the referral rows
    settings,       \* whether the default settings are there
    run,            \* the handlers and the script in progress
    events,         \* events so far (bounded by MaxEvents)
    paid,           \* history: per user, deposits that came with a sponsor
    missed,         \* history: per user, what cut runs did not add to its row
    failed,         \* history: users whose signup or seeding failed
    raced,          \* history: users whose signup ran while the script did, or
                    \* while another run could create the row of its sponsor
    early,          \* history: users that sponsored before their signup ended
    alone           \* history: whether the script has had the database to itself

observed == <<paid, missed, failed, raced, early, alone>>
vars == <<user, wallets, referral, settings, run, events, observed>>

-------------------------------------------------------------------------------
(* Data *)

Users == Members \cup {Admin}
Processes == Requests \cup {Script}
None == "none"
ASSUME NoneAssumption == None \notin Users
ASSUME FiniteAssumption == IsFiniteSet(Users) /\ IsFiniteSet(Processes)

NoUser == [sponsor |-> "no row"]
NoReferral == [sponsor |-> "no row"]
UserRow == [sponsor : Users \cup {None}, deleted : BOOLEAN]
Counters == {"direct", "team", "directDeposits", "teamDeposits"}
Counts == [Counters -> Nat]
ReferralRow == [sponsor : Users \cup {None}, level : Nat, counts : Counts]
NoCounts == [k \in Counters |-> 0]
NewReferral(sponsor, level) == [sponsor |-> sponsor, level |-> level, counts |-> NoCounts]

Idle == [pc |-> "idle"]
RunState == [pc : {"wallets", "check", "sponsorRow", "root", "row", "own", "walk", "bonus",
                   "next", "fill", "existing",
                   "seedFind", "seedUser", "seedWallets", "seedRow", "seedSettings"},
             user : Users, sponsor : Users \cup {None}, at : Users \cup {None},
             adds : {"member", "deposit"}, todo : SUBSET Users, missing : SUBSET WalletTypes]
Begin(pc, u, s) == [pc |-> pc, user |-> u, sponsor |-> s, at |-> None, adds |-> "member",
                    todo |-> {}, missing |-> WalletTypes]

At(p, pc) == run[p].pc = pc
Goto(p, pc) == run' = [run EXCEPT ![p].pc = pc]
\* The end of createReferral, whose errors both callers catch.
Resume(p) == [run[p] EXCEPT !.pc = "next", !.at = None]
Done(p) == run' = [run EXCEPT ![p] = IF p = Script THEN Resume(p) ELSE Idle]
Others(p) == alone' = (alone /\ (p = Script \/ run[Script] = Idle))

HasRow(u) == referral[u] # NoReferral
\* findBySponsorId, for a set of sponsors.
DirectOf(S) == {u \in Users : HasRow(u) /\ referral[u].sponsor \in S}

\* findAllBySponsorId: the members at most maxLevel levels below.
Downline(u, maxLevel) ==
    LET level[n \in 0..maxLevel] == IF n = 0 THEN {u} ELSE DirectOf(level[n - 1])
    IN UNION {level[n] : n \in 1..maxLevel}

\* getReferralTree: the nodes shown, each with its level and its direct
\* referrals (0 at the last level, where they are not fetched).
Tree(u, maxLevel) ==
    LET build[n \in 0..maxLevel] ==
          [v \in Users |->
              IF n = 0 THEN {[user |-> v, level |-> maxLevel, directReferrals |-> 0]}
              ELSE {[user |-> v, level |-> maxLevel - n,
                     directReferrals |-> Cardinality(DirectOf({v}))]}
                   \cup UNION {build[n - 1][c] : c \in DirectOf({v})}]
    IN build[maxLevel][u]

\* userRepository.countTeamSize, over the user rows.
CountTeamSize(u) ==
    LET total[n \in 0..Cardinality(Users)] ==
          [v \in Users |->
              LET directs == {d \in Users : user[d] # NoUser /\ user[d].sponsor = v} IN
              IF n = 0 THEN 0
              ELSE Cardinality(directs) + Total([d \in directs |-> total[n - 1][d]])]
    IN total[Cardinality(Users)][u]

\* getStatistics, and a slip of it: the direct referrals alone.
DirectReferrals(u) == Cardinality(DirectOf({u}))
TotalReferrals(u) == IF HasRow(u) THEN referral[u].counts.team ELSE DirectReferrals(u)

\* The user that a row hangs from; a user and those above it: no set holds the
\* one but not the other unless a row in it hangs from outside.
Parent(u) == IF HasRow(u) THEN referral[u].sponsor ELSE None
Above(u) ==
    {a \in Users : \A S \in SUBSET (Users \ {a}) :
        u \in S => \E v \in S : Parent(v) \notin S \cup {None}}
Below(a) == {u \in Users \ {a} : HasRow(u) /\ a \in Above(u)}

\* What the runs ps have still to add to a counter of the row of a.
Owes(r, k, a) ==
    \/ /\ r.pc = "own"
       /\ k = (IF r.adds = "member" THEN "direct" ELSE "directDeposits") /\ a = r.at
    \/ /\ r.pc \in {"own", "walk"}
       /\ k = (IF r.adds = "member" THEN "team" ELSE "teamDeposits") /\ a \in Above(r.at)
Rest(ps, k, a) == Cardinality({p \in ps : Owes(run[p], k, a)})

-------------------------------------------------------------------------------
(* Slips of the steps below that the properties must notice.  They are not   *)
(* part of the specification.                                                *)

\* An upsert in place of the creation.
CreateOrKeepRow(p) ==
    LET r == run[p] IN
    /\ At(p, "row")
    /\ referral' = IF HasRow(r.user) THEN referral
                   ELSE [referral EXCEPT ![r.user] =
                             NewReferral(r.sponsor, referral[r.sponsor].level + 1)]
    /\ run' = [run EXCEPT ![p].pc = "own", ![p].at = r.sponsor]
    /\ Others(p)
    /\ UNCHANGED <<user, wallets, settings, events, paid, missed, failed, raced, early>>

StopWithoutSponsorRow(p) ==
    /\ At(p, "sponsorRow")
    /\ IF HasRow(run[p].sponsor) THEN Goto(p, "row") ELSE Done(p)
    /\ Others(p)
    /\ UNCHANGED <<user, wallets, referral, settings, events, paid, missed, failed, raced, early>>

LevelOfRoot(p) ==
    LET s == run[p].sponsor IN
    /\ At(p, "root")
    /\ IF HasRow(s) THEN Done(p) /\ UNCHANGED referral
       ELSE /\ referral' = [referral EXCEPT ![s] = NewReferral(None, 1)]
            /\ Goto(p, "row")
    /\ Others(p)
    /\ UNCHANGED <<user, wallets, settings, events, paid, missed, failed, raced, early>>

NextUserLackingWallets(u) ==
    /\ At(Script, "next")
    /\ u \in run[Script].todo
    /\ run' = [run EXCEPT ![Script] =
           IF wallets[u] = WalletTypes THEN [run[Script] EXCEPT !.todo = @ \ {u}]
           ELSE [run[Script] EXCEPT !.pc = "fill", !.user = u, !.sponsor = user[u].sponsor, !.todo = @ \ {u},
                          !.missing = WalletTypes \ wallets[u]]]
    /\ UNCHANGED <<user, wallets, referral, settings, events, observed>>

-------------------------------------------------------------------------------
(* Signing up *)

\* The address is new, and the code given is that of a user, deleted or not.
Signup(p, u, s) ==
    /\ run[p] = Idle
    /\ user[u] = NoUser
    /\ s # None => user[s] # NoUser
    /\ user' = [user EXCEPT ![u] = [sponsor |-> s, deleted |-> FALSE]]
    /\ run' = [run EXCEPT ![p] = Begin("wallets", u, s)]
    /\ raced' = raced \cup {v \in {u} : run[Script] # Idle}
    /\ early' = early \cup {v \in {s} \ {None} :
                             \E q \in Processes : run[q] # Idle /\ run[q].user = v}
    /\ Others(p)
    /\ UNCHANGED <<wallets, referral, settings, events, paid, missed, failed>>

\* createAllWallets creates them all at once; a wallet that is there fails it,
\* and others then get created or not.
CreateWallet(p, w) ==
    LET u == run[p].user IN
    /\ At(p, "wallets")
    /\ w \in run[p].missing
    /\ IF w \in wallets[u]
       THEN /\ \E created \in SUBSET run[p].missing :
                   wallets' = [wallets EXCEPT ![u] = @ \cup created]
            /\ run' = [run EXCEPT ![p] = Idle]
       ELSE /\ wallets' = [wallets EXCEPT ![u] = @ \cup {w}]
            /\ run' = [run EXCEPT ![p] =
                   IF run[p].missing # {w} THEN [run[p] EXCEPT !.missing = @ \ {w}]
                   ELSE IF run[p].sponsor = None THEN Idle
                   ELSE [run[p] EXCEPT !.pc = "check", !.missing = {}]]
    /\ Others(p)
    /\ UNCHANGED <<user, referral, settings, events, paid, missed, failed, raced, early>>

-------------------------------------------------------------------------------
(* createReferral *)

\* No row yet, and the sponsor not deleted: or the call throws.
CheckReferral(p) ==
    LET r == run[p] IN
    /\ At(p, "check")
    /\ IF HasRow(r.user) \/ user[r.sponsor].deleted THEN Done(p) ELSE Goto(p, "sponsorRow")
    /\ UNCHANGED <<user, wallets, referral, settings, events, observed>>

\* The users of the runs that may create the row of one sponsor at once.
Rivals(p) ==
    LET s == run[p].sponsor
        rivals == {q \in Processes \ {p} : /\ run[q] # Idle
                                           /\ \/ run[q].user = s
                                              \/ At(q, "root") /\ run[q].sponsor = s}
    IN {run[q].user : q \in rivals} \cup {run[p].user : q \in rivals}

FindSponsorRow(p) ==
    LET s == run[p].sponsor IN
    /\ At(p, "sponsorRow")
    /\ Goto(p, IF HasRow(s) THEN "row" ELSE "root")
    /\ raced' = IF HasRow(s) THEN raced ELSE raced \cup Rivals(p)
    /\ UNCHANGED <<user, wallets, referral, settings, events, paid, missed, failed, early, alone>>

\* userId is unique: the second of two creations throws.
CreateRoot(p) ==
    LET s == run[p].sponsor IN
    /\ At(p, "root")
    /\ IF HasRow(s) THEN Done(p) /\ UNCHANGED referral
       ELSE /\ referral' = [referral EXCEPT ![s] = NewReferral(None, 0)]
            /\ Goto(p, "row")
    /\ Others(p)
    /\ UNCHANGED <<user, wallets, settings, events, paid, missed, failed, raced, early>>

CreateRow(p) ==
    LET r == run[p] IN
    /\ At(p, "row")
    /\ IF HasRow(r.user) THEN Done(p) /\ UNCHANGED referral
       ELSE /\ referral' = [referral EXCEPT ![r.user] =
                                NewReferral(r.sponsor, referral[r.sponsor].level + 1)]
            /\ run' = [run EXCEPT ![p].pc = "own", ![p].at = r.sponsor]
    /\ Others(p)
    /\ UNCHANGED <<user, wallets, settings, events, paid, missed, failed, raced, early>>

\* Increments are made by the database.
CountDirect(p) ==
    /\ At(p, "own")
    /\ run[p].adds = "member"
    /\ referral' = [referral EXCEPT ![run[p].at].counts.direct = @ + 1]
    /\ Goto(p, "walk")
    /\ Others(p)
    /\ UNCHANGED <<user, wallets, settings, events, paid, missed, failed, raced, early>>

\* Up the rows, read one by one: createReferral adds to the team and
\* processReferralBonus to its deposits.
Walk(p) ==
    LET a == run[p].at IN
    /\ At(p, "walk")
    /\ referral' = IF run[p].adds = "member" THEN [referral EXCEPT ![a].counts.team = @ + 1]
                   ELSE [referral EXCEPT ![a].counts.teamDeposits = @ + 1]
    /\ IF referral[a].sponsor = None THEN Done(p)
       ELSE run' = [run EXCEPT ![p].at = referral[a].sponsor]
    /\ Others(p)
    /\ UNCHANGED <<user, wallets, settings, events, paid, missed, failed, raced, early>>

-------------------------------------------------------------------------------
(* processReferralBonus *)

Deposit(p, u) ==
    /\ run[p] = Idle
    /\ user[u] # NoUser
    /\ events < MaxEvents
    /\ events' = events + 1
    /\ run' = [run EXCEPT ![p] = [Begin("bonus", u, None) EXCEPT !.adds = "deposit"]]
    /\ Others(p)
    /\ UNCHANGED <<user, wallets, referral, settings, paid, missed,
                   failed, raced, early>>

\* Nothing without a row with a sponsor; else the bonus is credited (Deposit).
FindDepositor(p) ==
    LET u == run[p].user IN
    /\ At(p, "bonus")
    /\ IF ~HasRow(u) \/ referral[u].sponsor = None
       THEN run' = [run EXCEPT ![p] = Idle] /\ UNCHANGED paid
       ELSE /\ run' = [run EXCEPT ![p].pc = "own", ![p].at = referral[u].sponsor]
            /\ paid' = [paid EXCEPT ![u] = @ + 1]
    /\ UNCHANGED <<user, wallets, referral, settings, events, missed, failed, raced, early, alone>>

UpdateSponsorStats(p) ==
    /\ At(p, "own")
    /\ run[p].adds = "deposit"
    /\ referral' = [referral EXCEPT ![run[p].at].counts.directDeposits = @ + 1]
    /\ Goto(p, "walk")
    /\ Others(p)
    /\ UNCHANGED <<user, wallets, settings, events, paid, missed, failed, raced, early>>

-------------------------------------------------------------------------------
(* The scripts *)

StartScript(pc, todo) ==
    /\ run[Script] = Idle
    /\ events < MaxEvents
    /\ events' = events + 1
    /\ run' = [run EXCEPT ![Script] = [Begin(pc, Admin, None) EXCEPT !.todo = todo]]
    /\ alone' = (\A p \in Requests : run[p] = Idle)
    /\ raced' = raced \cup {run[p].user : p \in {q \in Requests : run[q] # Idle}}

\* prisma/seed: an admin that exists ends it, whatever else is missing.
Seed ==
    /\ StartScript("seedFind", {})
    /\ UNCHANGED <<user, wallets, referral, settings, paid, missed,
                   failed, early>>

SeedStep(pc, next) ==
    /\ At(Script, pc)
    /\ Goto(Script, next)
    /\ UNCHANGED <<events, paid, missed, failed, raced, early, alone>>

SeedFind ==
    /\ At(Script, "seedFind")
    /\ run' = [run EXCEPT ![Script] = IF user[Admin] # NoUser THEN Idle
                                      ELSE [run[Script] EXCEPT !.pc = "seedUser"]]
    /\ UNCHANGED <<user, wallets, referral, settings, events, observed>>

SeedUser ==
    /\ SeedStep("seedUser", "seedWallets")
    /\ user' = [user EXCEPT ![Admin] = [sponsor |-> None, deleted |-> FALSE]]
    /\ UNCHANGED <<wallets, referral, settings>>

SeedWallet(w) ==
    /\ At(Script, "seedWallets")
    /\ w \in run[Script].missing
    /\ wallets' = [wallets EXCEPT ![Admin] = @ \cup {w}]
    /\ run' = [run EXCEPT ![Script].missing = @ \ {w},
                          ![Script].pc = IF run[Script].missing = {w} THEN "seedRow" ELSE @]
    /\ UNCHANGED <<user, referral, settings, events, observed>>

\* A member that signed up with the admin's code may have made the row.
SeedReferral ==
    /\ At(Script, "seedRow")
    /\ IF HasRow(Admin)
       THEN run' = [run EXCEPT ![Script] = Idle] /\ UNCHANGED referral /\ failed' = failed \cup {Admin}
       ELSE /\ referral' = [referral EXCEPT ![Admin] = NewReferral(None, 0)]
            /\ Goto(Script, "seedSettings")
            /\ UNCHANGED failed
    /\ UNCHANGED <<user, wallets, settings, events, paid, missed, raced, early, alone>>

SeedSettings ==
    /\ At(Script, "seedSettings")
    /\ settings' = TRUE
    /\ run' = [run EXCEPT ![Script] = Idle]
    /\ UNCHANGED <<user, wallets, referral, events, observed>>

\* tmp-backfill: all users, one after the other.
Backfill ==
    /\ StartScript("next", {u \in Users : user[u] # NoUser})
    /\ UNCHANGED <<user, wallets, referral, settings, paid, missed,
                   failed, early>>

Filling(r, missing) ==
    [r EXCEPT !.missing = missing,
              !.pc = IF missing # {} THEN "fill" ELSE IF r.sponsor = None THEN "next" ELSE "existing"]

NextUser(u) ==
    /\ At(Script, "next")
    /\ u \in run[Script].todo
    /\ LET r == [run[Script] EXCEPT !.user = u, !.sponsor = user[u].sponsor, !.todo = @ \ {u}]
       IN  run' = [run EXCEPT ![Script] = Filling(r, WalletTypes \ wallets[u])]
    /\ UNCHANGED <<user, wallets, referral, settings, events, observed>>

\* A wallet that signup created meanwhile ends the script.
FillWallet(p) ==
    LET r == run[p] IN
    /\ At(p, "fill")
    /\ \E w \in r.missing :
        /\ wallets' = [wallets EXCEPT ![r.user] = @ \cup {w}]
        /\ run' = [run EXCEPT ![p] = IF w \in wallets[r.user] THEN Idle
                                     ELSE Filling(r, r.missing \ {w})]
    /\ UNCHANGED <<user, referral, settings, events, observed>>

FindExisting ==
    /\ At(Script, "existing")
    /\ Goto(Script, IF HasRow(run[Script].user) THEN "next" ELSE "check")
    /\ UNCHANGED <<user, wallets, referral, settings, events, observed>>

BackfillEnds ==
    /\ At(Script, "next")
    /\ run[Script].todo = {}
    /\ run' = [run EXCEPT ![Script] = Idle]
    /\ UNCHANGED <<user, wallets, referral, settings, events, observed>>

-------------------------------------------------------------------------------
(* Administration and failures *)

DeleteUser(u) ==
    /\ events < MaxEvents
    /\ user[u] # NoUser
    /\ ~user[u].deleted
    /\ events' = events + 1
    /\ user' = [user EXCEPT ![u].deleted = TRUE]
    /\ alone' = FALSE
    /\ UNCHANGED <<wallets, referral, settings, run, paid, missed, failed,
                   raced, early>>

InCreateReferral == {"check", "sponsorRow", "root", "row", "own", "walk"}

\* What the failure of the runs ps leaves undone.
Broken(ps) ==
    /\ events < MaxEvents
    /\ events' = events + 1
    /\ missed' = [a \in Users |-> [k \in Counters |-> missed[a][k] + Rest(ps, k, a)]]
    /\ failed' = failed \cup {run[p].user : p \in {q \in ps : run[q] # Idle}}
    /\ alone' = FALSE
    /\ UNCHANGED <<user, referral, settings, paid, raced, early>>

\* A call fails.  createReferral is left by its catch, and the rest of the
\* wallets are created or not.
Fail(p) ==
    /\ run[p] # Idle
    /\ Broken({p})
    /\ run' = [run EXCEPT ![p] = IF p = Script /\ run[p].pc \in InCreateReferral THEN Resume(p) ELSE Idle]
    /\ \E created \in SUBSET {w \in run[p].missing : At(p, "wallets")} :
           wallets' = [wallets EXCEPT ![run[p].user] = @ \cup created]

\* The server stops, or the script is stopped.
Crash(ps) ==
    /\ \E p \in ps : run[p] # Idle
    /\ Broken(ps)
    /\ run' = [p \in Processes |-> IF p \in ps THEN Idle ELSE run[p]]
    /\ UNCHANGED wallets

-------------------------------------------------------------------------------
Init ==
    /\ user = [u \in Users |-> NoUser]
    /\ wallets = [u \in Users |-> {}]
    /\ referral = [u \in Users |-> NoReferral]
    /\ settings = FALSE
    /\ run = [p \in Processes |-> Idle]
    /\ events = 0
    /\ paid = [u \in Users |-> 0]
    /\ missed = [u \in Users |-> NoCounts]
    /\ failed = {}
    /\ raced = {}
    /\ early = {}
    /\ alone = FALSE

Request(p) ==
    \/ \E u \in Members, s \in Users \cup {None} : Signup(p, u, s)
    \/ \E w \in WalletTypes : CreateWallet(p, w)
    \/ \E u \in Members : Deposit(p, u)
    \/ FindDepositor(p)
    \/ UpdateSponsorStats(p)

CreateReferral(p) ==
    \/ CheckReferral(p) \/ FindSponsorRow(p) \/ CreateRoot(p) \/ CreateRow(p)
    \/ CountDirect(p) \/ Walk(p)

ScriptStep ==
    \/ SeedFind \/ SeedUser \/ SeedReferral \/ SeedSettings
    \/ \E w \in WalletTypes : SeedWallet(w)
    \/ \E u \in Users : NextUser(u)
    \/ FillWallet(Script) \/ FindExisting \/ BackfillEnds

Next ==
    \/ \E p \in Requests : Request(p)
    \/ \E p \in Processes : CreateReferral(p) \/ Fail(p)
    \/ Seed \/ Backfill \/ ScriptStep
    \/ \E u \in Members : DeleteUser(u)
    \/ Crash(Requests) \/ Crash({Script})

Spec == Init /\ [][Next]_vars

-------------------------------------------------------------------------------
(* Properties *)

\* Every variable holds what its declaration says.
TypeOK ==
    /\ user \in [Users -> UserRow \cup {NoUser}]
    /\ wallets \in [Users -> SUBSET WalletTypes]
    /\ referral \in [Users -> ReferralRow \cup {NoReferral}]
    /\ settings \in BOOLEAN
    /\ run \in [Processes -> RunState \cup {Idle}]
    /\ events \in Nat
    /\ paid \in [Users -> Nat]
    /\ missed \in [Users -> Counts]
    /\ failed \subseteq Users /\ raced \subseteq Users /\ early \subseteq Users
    /\ alone \in BOOLEAN

\* The rows are a tree along the sponsors the users signed up with, each a
\* level below its sponsor's: no walk up ends before a root or turns in a
\* circle, whatever is created at the same time or repaired later.
RowsFormTree ==
    \A u \in Users : HasRow(u) =>
        IF referral[u].sponsor = None THEN referral[u].level = 0
        ELSE /\ referral[u].sponsor = user[u].sponsor
             /\ HasRow(referral[u].sponsor)
             /\ referral[u].level = referral[referral[u].sponsor].level + 1

\* The events of a row (createReferral, processReferralBonus) and what runs
\* in progress have still to add give exactly the members below it and their
\* deposits, whatever runs at once.  Only what cut runs did not add is missing,
\* for good: nothing counts a member or a deposit twice.
CountersAddUp ==
    \A a \in Users : HasRow(a) =>
        LET direct == DirectOf({a})
            below == Below(a)
            counted == [direct |-> Cardinality(direct), team |-> Cardinality(below),
                        directDeposits |-> Total([u \in direct |-> paid[u]]),
                        teamDeposits |-> Total([u \in below |-> paid[u]])]
        IN  \A k \in Counters :
                referral[a].counts[k] + missed[a][k] + Rest(Processes, k, a) = counted[k]

\* Once nothing works on a user it has all its wallets and, if it was
\* sponsored, a row under its sponsor.  Excepted are users whose signup failed
\* or ran with the script, who sponsored before it ended, whose sponsor's first
\* row another run could create at once, or whose sponsor is deleted.
NobodyIsLost ==
    \A u \in Users :
        user[u] # NoUser /\ (\A p \in Processes : run[p] # Idle => run[p].user # u) =>
            \/ u \in failed \cup raced \cup early
            \/ /\ wallets[u] = WalletTypes
               /\ user[u].sponsor # None =>
                      \/ HasRow(u) /\ referral[u].sponsor = user[u].sponsor
                      \/ user[user[u].sponsor].deleted

\* When nobody is excepted above and nothing runs, the three views of a team
\* agree: the counter (getStatistics), the rows below (findAllBySponsorId) and
\* the users below (countTeamSize).  The tree shown shows these rows.
ViewsAgree ==
    \A u \in Users :
        /\ (\A p \in Processes : run[p] = Idle) =>
               \A n \in 1..Cardinality(Users) :
                   {t.user : t \in Tree(u, n)} = {u} \cup Downline(u, n)
        /\ (\A p \in Processes : run[p] = Idle) /\ failed \cup raced \cup early = {}
           /\ (\A v \in Users : user[v] # NoUser => ~user[v].deleted) =>
               /\ TotalReferrals(u) = Cardinality(Downline(u, Cardinality(Users)))
               /\ TotalReferrals(u) = CountTeamSize(u)

\* Both together: a team is counted as its rows and its users show it.
TeamsAreCounted == CountersAddUp /\ ViewsAgree

\* A backfill that ran to its end with the database to itself leaves no user
\* without a wallet, and no user of a sponsor that is not deleted without a row,
\* however many signups had failed before and wherever.
BackfillRepairs ==
    [][BackfillEnds /\ alone =>
        \A u \in Users : user[u] # NoUser =>
            /\ wallets[u] = WalletTypes
            /\ user[u].sponsor # None /\ ~user[user[u].sponsor].deleted => HasRow(u)]_vars

===============================================================================
