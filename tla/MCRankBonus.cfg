SPECIFICATION Spec
CONSTANTS
    top = top
    middle = middle
    low = low
    NoUser = NoUser
    r1 = r1
    r2 = r2
    Users = {top, middle, low}
    Sponsor <- MCSponsor
    RANK_DEFINITIONS <- MCDefinitions
    MinDirectDeposit = 2
    Amounts = {1, 2}
    Runs = {r1, r2}
    MaxCalls = 3
    MaxFailures = 1
CHECK_DEADLOCK FALSE
INVARIANTS
    BonusOncePerLevel
    RecordMatchesRank
    NobodyLeftBehind
    RewardsAddUp
PROPERTIES
    NeverDowngraded
