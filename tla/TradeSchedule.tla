---------------------------- MODULE TradeSchedule -----------------------------
(***************************************************************************)
(* When the jobs run: cronService with cronLogger, and the setting they    *)
(* are scheduled from: settingsService and adminService.                   *)
(*                                                                         *)
(* A day has a few times (Times), and the daily trade is one cron task at  *)
(* one of them.  The task is replaced when an admin changes the time: the  *)
(* setting is written, read back, and the task installed after the read.   *)
(* What the jobs do is Trading's, Deposit's and RankBonus'; here a job     *)
(* returns or throws, between the two writes of its log row: without the   *)
(* first it is not called.                                                 *)
(***************************************************************************)
EXTENDS Integers, FiniteSets

CONSTANTS
    Times,          \* the times of a day, 0 (midnight) .. n
    EnvTime,        \* MORNING_TRADE_TIME of the environment
    Nine,           \* 09:00, for a value that is not a time
    Requests,       \* handlers in progress at once
    MaxChanges,     \* bound: changes of settings in a behaviour
    MaxFailures     \* bound: failed calls and restarts

VARIABLES
    morning,        \* the setting MORNING_TRADE_TIME
    up,             \* whether the server is up, with its fixed jobs
    live,           \* the trade tasks node-cron runs: how many per time
    tradeTasks,     \* those cronService knows of
    run,            \* the reschedulings in progress
    job,            \* the daily_trade job: its state and its log row
    time, day,          \* the clock: time of day, day of the month
    changes, failures,  \* so far (bounded)
    sessions,       \* history: trade sessions called today
    unheld,         \* history: those not called today, as their log row could
                    \* not be inserted
    calm,           \* history: up, nothing changed or in progress since midnight
    moves,          \* history: trade tasks installed today
    bypassed,       \* history: the setting was written since without rescheduling
    crossed,        \* history: the last rescheduling overlapped another, or failed
    sinceBonus      \* history: days since the cycle bonus job ran

tasks == <<live, tradeTasks>>
clock == <<time, day>>
counters == <<changes, failures>>
observed == <<sessions, unheld, calm, moves, bypassed, crossed, sinceBonus>>
vars == <<morning, up, tasks, run, job, clock, counters, observed>>

-------------------------------------------------------------------------------
(* Data *)

\* No setting, and a setting whose text is not a time.
Unset == -1
NotATime == -2
Value == Times \cup {Unset, NotATime}
Startup == "startup"
Processes == Requests \cup {Startup}

Idle == [pc |-> "idle"]
RunState == [pc : {"upsert", "read", "install"}, value : Times, time : Times, alone : BOOLEAN]
NoTasks == [t \in Times |-> 0]
Midnight == 0

\* A log row has its end time only when it is completed.
Log == {"none", "SUCCESS", "FAILED"}
JobState == [pc : {"idle", "logStart", "work", "complete", "fail"}, log : Log,
             ended : BOOLEAN, threw : BOOLEAN, lost : BOOLEAN]
NoJob == [pc |-> "idle", log |-> "none", ended |-> FALSE, threw |-> FALSE, lost |-> FALSE]

\* getTradeSchedule: the setting, or the environment's.
TradeTime(value) == IF value = Unset THEN EnvTime ELSE value
\* timeToCronExpression: what is not a number is 09:00.
CronTime(value) == IF value \in Times THEN value ELSE Nine

\* '0 0 */10 * *', and a slip of it: every tenth day of the month.
TenthDays == {d \in 1..31 : d % 10 = 0}
CycleBonusDays == {d \in 1..31 : (d - 1) % 10 = 0}

\* The first of a month follows the last, the 28th to the 31st.
NextDays(d) == (IF d < 31 THEN {d + 1} ELSE {}) \cup (IF d >= 28 THEN {1} ELSE {})

\* alone is history: no other rescheduling has been in progress meanwhile.
InProgress == {p \in Processes : run[p] # Idle}
Begin(p, pc, value) ==
    run' = [q \in Processes |->
        IF q = p THEN [pc |-> pc, value |-> value, time |-> Nine, alone |-> InProgress = {}]
        ELSE IF run[q] = Idle THEN Idle ELSE [run[q] EXCEPT !.alone = FALSE]]
Installed(t) == [NoTasks EXCEPT ![t] = 1]

-------------------------------------------------------------------------------
(* Slips of the steps below that the properties must notice.  They are not   *)
(* part of the specification.                                                *)

\* The old task is forgotten without being stopped.
ForgetTradeTasks(p) ==
    /\ run[p].pc = "install"
    /\ live' = [live EXCEPT ![run[p].time] = @ + 1]
    /\ tradeTasks' = Installed(run[p].time)
    /\ run' = [run EXCEPT ![p] = Idle]
    /\ moves' = moves + 1
    /\ calm' = FALSE
    /\ crossed' = ~run[p].alone
    /\ UNCHANGED <<morning, up, job, clock, counters, sessions, unheld, bypassed, sinceBonus>>

\* The time is read before it is written.
ReadWhileWriting(p) ==
    /\ run[p].pc = "upsert"
    /\ morning' = run[p].value
    /\ run' = [run EXCEPT ![p].pc = "install", ![p].time = CronTime(TradeTime(morning))]
    /\ bypassed' = FALSE
    /\ UNCHANGED <<up, tasks, job, clock, counters, sessions, unheld, calm, moves, crossed,
                   sinceBonus>>

\* The job is not awaited.
CompleteEarly(threw) ==
    /\ job.pc = "work"
    /\ job' = [job EXCEPT !.pc = "complete", !.threw = threw]
    /\ UNCHANGED <<morning, up, tasks, run, clock, counters, observed>>

-------------------------------------------------------------------------------
(* Settings *)

\* updateTradeSchedule; the time is validated.
UpdateTradeSchedule(p, value) ==
    /\ up
    /\ run[p] = Idle
    /\ changes < MaxChanges
    /\ changes' = changes + 1
    /\ Begin(p, "upsert", value)
    /\ calm' = FALSE
    /\ UNCHANGED <<morning, up, tasks, job, clock, failures, sessions, unheld, moves, bypassed,
                   crossed, sinceBonus>>

Upsert(p) ==
    /\ run[p].pc = "upsert"
    /\ morning' = run[p].value
    /\ run' = [run EXCEPT ![p].pc = "read"]
    /\ UNCHANGED <<up, tasks, job, clock, counters, observed>>

WriteSetting(value) ==
    /\ up
    /\ changes < MaxChanges
    /\ changes' = changes + 1
    /\ morning' = value
    /\ bypassed' = TRUE
    /\ calm' = FALSE
    /\ UNCHANGED <<up, tasks, run, job, clock, failures, sessions, unheld, moves, crossed,
                   sinceBonus>>

\* updateConfig, and the settings endpoints, take any value and reschedule nothing.
UpdateConfig(value) == WriteSetting(value)

\* seedDefaults writes the defaults over what is there.
SeedDefaults == WriteSetting(EnvTime)

-------------------------------------------------------------------------------
(* cronService *)

\* startAll, once after each start; it does not await scheduleTradeTasks.
StartAll ==
    /\ ~up
    /\ up' = TRUE
    /\ Begin(Startup, "read", Nine)
    /\ UNCHANGED <<morning, tasks, job, clock, counters, observed>>

ReadSchedule(p) ==
    /\ run[p].pc = "read"
    /\ run' = [run EXCEPT ![p].pc = "install", ![p].time = CronTime(TradeTime(morning))]
    /\ bypassed' = FALSE
    /\ UNCHANGED <<morning, up, tasks, job, clock, counters, sessions, unheld, calm, moves,
                   crossed, sinceBonus>>

\* Stopping the old tasks and installing the new one is one synchronous step.
ScheduleTradeTasks(p) ==
    /\ run[p].pc = "install"
    /\ live' = [t \in Times |-> live[t] - tradeTasks[t] + Installed(run[p].time)[t]]
    /\ tradeTasks' = Installed(run[p].time)
    /\ run' = [run EXCEPT ![p] = Idle]
    /\ moves' = moves + 1
    /\ calm' = FALSE
    /\ crossed' = ~run[p].alone
    /\ UNCHANGED <<morning, up, job, clock, counters, sessions, unheld, bypassed, sinceBonus>>

\* withLog, for the daily trade: the row is inserted as a SUCCESS, and then the
\* job is called.
LogStart ==
    /\ job.pc = "logStart"
    /\ job' = [job EXCEPT !.pc = "work", !.log = "SUCCESS"]
    /\ sessions' = sessions + 1
    /\ UNCHANGED <<morning, up, tasks, run, clock, counters, unheld, calm, moves, bypassed,
                   crossed, sinceBonus>>

Work(threw) ==
    /\ job.pc = "work"
    /\ job' = [job EXCEPT !.pc = IF threw THEN "fail" ELSE "complete", !.threw = threw]
    /\ UNCHANGED <<morning, up, tasks, run, clock, counters, observed>>

LogComplete ==
    /\ job.pc \in {"complete", "fail"}
    /\ job' = [job EXCEPT !.pc = "idle", !.ended = TRUE,
                          !.log = IF job.pc = "complete" THEN "SUCCESS" ELSE "FAILED"]
    /\ UNCHANGED <<morning, up, tasks, run, clock, counters, observed>>

-------------------------------------------------------------------------------
(* The clock *)

\* The trade task of the new time fires (there is one at most).  A job is over
\* before the next tick.
Fires(t) == up /\ live[t] > 0

Tick ==
    LET t == IF time + 1 \in Times THEN time + 1 ELSE Midnight
        newDay == t = Midnight IN
    /\ job.pc = "idle"
    /\ time' = t
    /\ day' \in (IF newDay THEN NextDays(day) ELSE {day})
    /\ job' = IF Fires(t) THEN [NoJob EXCEPT !.pc = "logStart"] ELSE NoJob
    /\ sessions' = IF newDay THEN 0 ELSE sessions
    /\ unheld' = IF newDay THEN 0 ELSE unheld
    /\ moves' = IF newDay THEN 0 ELSE moves
    /\ calm' = IF newDay THEN up /\ InProgress = {} ELSE calm
    /\ sinceBonus' = IF ~newDay THEN sinceBonus
                     ELSE IF ~up \/ day' \in CycleBonusDays THEN 0
                     ELSE sinceBonus + 1
    /\ UNCHANGED <<morning, up, tasks, run, counters, bypassed, crossed>>

-------------------------------------------------------------------------------
(* Failures *)

\* A request's call fails.  (When the read of startAll fails, nothing catches
\* the rejection and the server stops: that is Crash.)
FailRun(p) ==
    /\ run[p] # Idle
    /\ run[p].pc # "install"
    /\ failures < MaxFailures
    /\ failures' = failures + 1
    /\ run' = [run EXCEPT ![p] = Idle]
    /\ crossed' = (crossed \/ run[p].pc = "read")
    /\ UNCHANGED <<morning, up, tasks, job, clock, changes, sessions, unheld, calm, moves,
                   bypassed, sinceBonus>>

\* The log row cannot be inserted, and the job is not called today.
FailStart ==
    /\ job.pc = "logStart"
    /\ failures < MaxFailures
    /\ failures' = failures + 1
    /\ job' = [job EXCEPT !.pc = "idle"]
    /\ unheld' = unheld + 1
    /\ UNCHANGED <<morning, up, tasks, run, clock, changes, sessions, calm, moves, bypassed, crossed,
                   sinceBonus>>

\* A failed write of the outcome of a job that returned is followed by one
\* that says FAILED.
FailLog ==
    /\ job.pc \in {"complete", "fail"}
    /\ failures < MaxFailures
    /\ failures' = failures + 1
    /\ job' = [job EXCEPT !.pc = IF job.pc = "complete" THEN "fail" ELSE "idle", !.lost = TRUE]
    /\ UNCHANGED <<morning, up, tasks, run, clock, changes, observed>>

\* The server stops: tasks and handlers are gone.
Crash ==
    /\ up
    /\ failures < MaxFailures
    /\ failures' = failures + 1
    /\ up' = FALSE
    /\ live' = NoTasks
    /\ tradeTasks' = NoTasks
    /\ run' = [p \in Processes |-> Idle]
    /\ job' = [job EXCEPT !.pc = "idle", !.lost = @ \/ job.pc # "idle"]
    /\ calm' = FALSE
    /\ sinceBonus' = 0
    /\ UNCHANGED <<morning, clock, changes, sessions, unheld, moves, bypassed, crossed>>

-------------------------------------------------------------------------------
Init ==
    /\ morning = Unset
    /\ up = FALSE
    /\ live = NoTasks
    /\ tradeTasks = NoTasks
    /\ run = [p \in Processes |-> Idle]
    /\ job = NoJob
    /\ time = Midnight /\ day = 1
    /\ changes = 0 /\ failures = 0
    /\ sessions = 0 /\ unheld = 0 /\ calm = FALSE /\ moves = 0
    /\ bypassed = FALSE /\ crossed = FALSE /\ sinceBonus = 0

Next ==
    \/ \E p \in Requests, t \in Times : UpdateTradeSchedule(p, t)
    \/ \E p \in Requests : Upsert(p) \/ FailRun(p)
    \/ \E p \in Processes : ReadSchedule(p) \/ ScheduleTradeTasks(p)
    \/ \E value \in Times \cup {NotATime} : UpdateConfig(value)
    \/ SeedDefaults
    \/ StartAll
    \/ LogStart \/ (\E threw \in BOOLEAN : Work(threw)) \/ LogComplete
    \/ Tick
    \/ FailStart \/ FailLog \/ Crash

Spec == Init /\ [][Next]_vars

-------------------------------------------------------------------------------
(* Properties *)

\* Every variable holds what its declaration says.
TypeOK ==
    /\ morning \in Value
    /\ up \in BOOLEAN
    /\ live \in [Times -> Nat] /\ tradeTasks \in [Times -> Nat]
    /\ run \in [Processes -> RunState \cup {Idle}]
    /\ job \in JobState
    /\ time \in Times /\ day \in 1..31
    /\ changes \in Nat /\ failures \in Nat
    /\ sessions \in Nat /\ unheld \in Nat /\ moves \in Nat /\ sinceBonus \in Nat
    /\ calm \in BOOLEAN /\ bypassed \in BOOLEAN /\ crossed \in BOOLEAN

\* When nothing is in progress the daily trade is the one task node-cron runs,
\* whatever reschedulings overlapped or failed, at the time of the setting (or
\* of the environment, or 09:00).  Excepted from that time is a setting written
\* by updateConfig or seedDefaults since it was last read, and a rescheduling
\* that failed or overlapped another.
TaskFollowsSetting ==
    up /\ InProgress = {} =>
        /\ \E t \in Times : live = Installed(t)
        /\ ~bypassed /\ ~crossed => live = Installed(CronTime(TradeTime(morning)))

\* On a day on which the server was up and nothing changed, the trade session is
\* called once, at its time, unless its log row could not be inserted: nothing
\* tries again that day.  Each (re)scheduling on a day can add one session, as
\* nothing remembers that the one of the day was held.
SessionOncePerDay ==
    LET called == sessions + unheld + (IF job.pc = "logStart" THEN 1 ELSE 0)
    IN  /\ calm => called = Cardinality({t \in 0..time : live[t] > 0})
        /\ calm => \E t \in Times : live[t] = 1
        /\ called <= 1 + moves

\* cron.service: "Cycle bonus every 10 days".  The expression counts from the
\* first of each month: a server that stays up never waits longer than that,
\* though it may wait less (from the 31st to the 1st, a day).
CycleBonusWithinTenDays == sinceBonus <= 10

\* A log row says SUCCESS from its start.  Only one with an end time tells
\* whether the job returned: then a failed write is what makes FAILED of a job
\* that did.  One that stays without was cut short, by a stop or a failed write.
LogTellsOutcome ==
    job.pc = "idle" /\ job.log # "none" =>
        /\ job.ended /\ job.log = "SUCCESS" => ~job.threw
        /\ job.ended /\ job.log = "FAILED" => job.threw \/ job.lost
        /\ ~job.ended => job.lost

===============================================================================
