SPECIFICATION OfficeSpec
CONSTANTS
    Times <- MCTimes
    EnvTime = 0
    Nine = 1
    Schedulers = {q1}
    MaxScheduleChanges = 2
    MaxScheduleFailures = 1
    Tickets = {t1}
    Repliers = {p1, p2}
    MaxReplyCalls = 7
    MaxReplyFailures = 1
    Rewarded = {u1}
    Givers = {p1, p2}
    MaxRewardCalls = 4
    MaxRewardFailures = 2
    top = top
    middle = middle
    low = low
    Members = {top, middle, low}
    NoMember = "nobody"
    Sponsor <- MCSponsor
    Deposits <- MCDeposits
    RANK_DEFINITIONS <- MCDefinitions
    MinDirectDeposit = 2
    MaxPasses = 3
    MaxScriptRuns = 2
    MaxRankChanges = 1
    a = a
    b = b
    c = c
    d = d
    Rows = {a, b, c, d}
    Limit = 2
    LastPosition = 6
    MaxRowChanges = 2
SYMMETRY MCSymmetry
CHECK_DEADLOCK FALSE
INVARIANTS
    JobsRunAsSet
    TicketsTellWhoIsWaitedFor
    RewardsAreBooked
    RecheckCorrects
    MissedAreAccountedFor
PROPERTIES
    ClosedTicketsStayClosed
    RanksOnlyFall
