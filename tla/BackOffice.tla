------------------------------ MODULE BackOffice -------------------------------
(***************************************************************************)
(* Five components that share no state with one another: the schedule, the *)
(* tickets, the rewards, the correction of ranks and the lists.  The part  *)
(* of the office a behaviour is about is chosen at its start, and the      *)
(* variables of the others stay 0.                                         *)
(***************************************************************************)
EXTENDS Integers, FiniteSets, Sequences

CONSTANTS
    Times, EnvTime, Nine, Schedulers, MaxScheduleChanges, MaxScheduleFailures,
    Tickets, Repliers, MaxReplyCalls, MaxReplyFailures,
    Rewarded, Givers, MaxRewardCalls, MaxRewardFailures,
    Members, NoMember, Sponsor, Deposits, RANK_DEFINITIONS, MinDirectDeposit,
    MaxPasses, MaxScriptRuns, MaxRankChanges,
    Rows, Limit, LastPosition, MaxRowChanges

VARIABLES
    part,
    morning, up, live, tradeTasks, rescheduling, job, time, day, scheduleChanges, scheduleFailures,
    sessions, unheld, calm, moves, bypassed, crossed, sinceBonus,
    status, newest, reply, messageClock, replyCalls, replyFailures, author,
    wallet, credits, entries, unread, read, reward, rewardCalls, rewardFailures, answered, unanswered,
    deposited, rank, record, bonusWallet, script, scriptRuns, rankChanges, touched, limited, entitled,
    taken,
    list, position, listed, reader, rowChanges, throughout, left, moved, late

Schedule == INSTANCE TradeSchedule WITH
    Requests <- Schedulers, MaxChanges <- MaxScheduleChanges, MaxFailures <- MaxScheduleFailures,
    run <- rescheduling, changes <- scheduleChanges, failures <- scheduleFailures
Desk == INSTANCE Helpdesk WITH
    Requests <- Repliers, MaxCalls <- MaxReplyCalls, MaxFailures <- MaxReplyFailures,
    run <- reply, clock <- messageClock, calls <- replyCalls, failures <- replyFailures
Reward == INSTANCE Rewards WITH
    Users <- Rewarded, Requests <- Givers, MaxCalls <- MaxRewardCalls, MaxFailures <- MaxRewardFailures,
    run <- reward, calls <- rewardCalls, failures <- rewardFailures, cut <- unanswered
Recheck == INSTANCE RankRecheck WITH
    Users <- Members, NoUser <- NoMember, MaxRuns <- MaxScriptRuns, MaxChanges <- MaxRankChanges,
    runs <- scriptRuns, changes <- rankChanges, cut <- taken
Lists == INSTANCE PagedList WITH MaxChanges <- MaxRowChanges, changes <- rowChanges

\* Times are numbered from midnight without a gap; the values a setting
\* defaults to are times.
ASSUME TimeAssumption ==
    /\ Times \subseteq Nat /\ 0 \in Times /\ \A t \in Times : 0..t \subseteq Times
    /\ EnvTime \in Times /\ Nine \in Times
ASSUME StartupAssumption == "startup" \notin Schedulers
\* What is in progress at once is finite, and so are the tables.
ASSUME FiniteAssumption == IsFiniteSet(Givers) /\ IsFiniteSet(Members) /\ IsFiniteSet(Rows)
\* There are users, ranks above NONE and passes over the users.
ASSUME RankAssumption ==
    /\ Members # {}
    /\ RANK_DEFINITIONS \in Seq(Recheck!Definition) /\ Len(RANK_DEFINITIONS) >= 1
    /\ MaxPasses \in Nat \ {0}
\* A page has room for a row.
ASSUME LimitAssumption == Limit \in Nat \ {0}

ScheduleOff ==
    /\ morning = 0 /\ up = 0 /\ live = 0 /\ tradeTasks = 0 /\ rescheduling = 0 /\ job = 0
    /\ time = 0 /\ day = 0 /\ scheduleChanges = 0 /\ scheduleFailures = 0 /\ sessions = 0 /\ unheld = 0
    /\ calm = 0 /\ moves = 0 /\ bypassed = 0 /\ crossed = 0 /\ sinceBonus = 0
DeskOff ==
    /\ status = 0 /\ newest = 0 /\ reply = 0 /\ messageClock = 0 /\ replyCalls = 0 /\ replyFailures = 0
    /\ author = 0
RewardOff ==
    /\ wallet = 0 /\ credits = 0 /\ entries = 0 /\ unread = 0 /\ read = 0 /\ reward = 0
    /\ rewardCalls = 0 /\ rewardFailures = 0 /\ answered = 0 /\ unanswered = 0
RecheckOff ==
    /\ deposited = 0 /\ rank = 0 /\ record = 0 /\ bonusWallet = 0 /\ script = 0 /\ scriptRuns = 0
    /\ rankChanges = 0 /\ touched = 0 /\ limited = 0 /\ entitled = 0 /\ taken = 0
ListsOff ==
    /\ list = 0 /\ position = 0 /\ listed = 0 /\ reader = 0 /\ rowChanges = 0 /\ throughout = 0
    /\ left = 0 /\ moved = 0 /\ late = 0

OfficeInit ==
    \/ part = "schedule" /\ Schedule!Init /\ DeskOff /\ RewardOff /\ RecheckOff /\ ListsOff
    \/ part = "desk" /\ ScheduleOff /\ Desk!Init /\ RewardOff /\ RecheckOff /\ ListsOff
    \/ part = "reward" /\ ScheduleOff /\ DeskOff /\ Reward!Init /\ RecheckOff /\ ListsOff
    \/ part = "recheck" /\ ScheduleOff /\ DeskOff /\ RewardOff /\ Recheck!Init /\ ListsOff
    \/ part = "lists" /\ ScheduleOff /\ DeskOff /\ RewardOff /\ RecheckOff /\ Lists!Init

scheduleVars == <<morning, up, live, tradeTasks, rescheduling, job, time, day, scheduleChanges,
                  scheduleFailures, sessions, unheld, calm, moves, bypassed, crossed, sinceBonus>>
deskVars == <<status, newest, reply, messageClock, replyCalls, replyFailures, author>>
rewardVars == <<wallet, credits, entries, unread, read, reward, rewardCalls, rewardFailures, answered,
                unanswered>>
recheckVars == <<deposited, rank, record, bonusWallet, script, scriptRuns, rankChanges, touched, limited,
                 entitled, taken>>
listVars == <<list, position, listed, reader, rowChanges, throughout, left, moved, late>>
officeVars == <<part, scheduleVars, deskVars, rewardVars, recheckVars, listVars>>

OfficeNext ==
    \/ part = "schedule" /\ Schedule!Next /\ UNCHANGED <<part, deskVars, rewardVars, recheckVars, listVars>>
    \/ part = "desk" /\ Desk!Next /\ UNCHANGED <<part, scheduleVars, rewardVars, recheckVars, listVars>>
    \/ part = "reward" /\ Reward!Next /\ UNCHANGED <<part, scheduleVars, deskVars, recheckVars, listVars>>
    \/ part = "recheck" /\ Recheck!Next /\ UNCHANGED <<part, scheduleVars, deskVars, rewardVars, listVars>>
    \/ part = "lists" /\ Lists!Next /\ UNCHANGED <<part, scheduleVars, deskVars, rewardVars, recheckVars>>

OfficeSpec == OfficeInit /\ [][OfficeNext]_officeVars

-------------------------------------------------------------------------------
(* What the modules state, of the part chosen. *)

\* The daily trade runs at the time that is set and once a day, the cycle
\* bonus within ten days, and the log tells how a job ended.
JobsRunAsSet ==
    part = "schedule" =>
        /\ Schedule!TaskFollowsSetting
        /\ Schedule!SessionOncePerDay
        /\ Schedule!CycleBonusWithinTenDays
        /\ Schedule!LogTellsOutcome

\* The status of a ticket tells whose turn it is.
TicketsTellWhoIsWaitedFor == part = "desk" => Desk!StatusTellsWhoIsWaitedFor

\* A closed ticket is opened by an admin, or by a reply to what was open.
ClosedTicketsStayClosed == [][part = "desk" => Desk!OpenedOnlyByAdminOrLateReply]_officeVars

\* What admins and users are told of rewards is what was credited.
RewardsAreBooked == part = "reward" => Reward!RewardsAreBooked

\* The script that corrects ranks raises none.
RanksOnlyFall == [][part = "recheck" => Recheck!RaisesOnlyTouched]_officeVars

\* It ends with ranks users are eligible for, and takes a bonus back once.
RecheckCorrects == part = "recheck" => Recheck!NobodyAboveEligible /\ Recheck!BonusTakenOnce

\* Who reads a list to its end misses only what moved meanwhile.
MissedAreAccountedFor == part = "lists" => Lists!MissedAreAccountedFor

===============================================================================
