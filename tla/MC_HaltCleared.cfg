CONSTANTS
    Instances = {"live", "paper", "shadow"}
    Mints = {m1}
    StartBalance = 10
    CircuitLosses = 1
    Ops = {"clear_reconcile_halt"}
    Base <- LiveFirst
    OnChain = {"live"}
    UnitsPerToken <- SixDecimals
    Sizes = {4}
    Moves <- MCMoves
    MaxPositionPct = 45
    MaxDeployedPct = 90
    MaxTradesPerDay = 0
    MinGap = 0
    SameMintGap = 0
    DayLength = 10
    MaxNow = 1
    MaxPositions = 1
    MaxCommands = 1
    MaxCrashes = 2
    MaxFaults = 1
SPECIFICATION Spec
CHECK_DEADLOCK FALSE
PROPERTY HaltClearedOnlyAfterwards
