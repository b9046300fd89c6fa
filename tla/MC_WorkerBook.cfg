CONSTANTS
    Instances = {"live", "paper", "shadow"}
    Mints = {m1, m2}
    StartBalance = 10
    CircuitLosses = 2
    Ops = {}
    Base <- MCBase
    OnChain = {"live"}
    UnitsPerToken <- MCUnits
    Sizes = {3}
    Moves <- MCMoves
    MaxPositionPct = 45
    MaxDeployedPct = 65
    MaxTradesPerDay = 0
    MinGap = 0
    SameMintGap = 0
    DayLength = 10
    MaxNow = 1
    MaxPositions = 3
    MaxCommands = 0
    MaxCrashes = 1
    MaxFaults = 1
SYMMETRY MCSymmetry
SPECIFICATION Spec
CHECK_DEADLOCK FALSE
INVARIANTS LedgerBalances JournalMatchesBook BreakerSeesStreak BookFollowsChain
PROPERTIES DeployedCapHolds EntriesPermitted BackedAfterRecovery ImplementsAccount
