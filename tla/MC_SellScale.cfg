CONSTANTS
    Instances = {"live", "paper", "shadow"}
    Mints = {m1}
    StartBalance = 1000
    CircuitLosses = 1
    Ops = {}
    Base <- LiveFirst
    OnChain = {"live"}
    UnitsPerToken <- EightDecimals
    Sizes = {400}
    Moves <- MCMoves
    MaxPositionPct = 45
    MaxDeployedPct = 90
    MaxTradesPerDay = 0
    MinGap = 0
    SameMintGap = 0
    DayLength = 10
    MaxNow = 1
    MaxPositions = 1
    MaxCommands = 0
    MaxCrashes = 0
    MaxFaults = 0
SPECIFICATION Spec
CHECK_DEADLOCK FALSE
INVARIANT ClosedIsSold
