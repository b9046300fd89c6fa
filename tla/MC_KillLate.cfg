CONSTANTS
    Instances = {"live", "paper", "shadow"}
    Mints = {m1, m2}
    StartBalance = 10
    CircuitLosses = 1
    Ops = {"kill_switch"}
    Base <- PaperOnly
    OnChain = {}
    UnitsPerToken <- SixDecimals
    Sizes = {4}
    Moves <- MCMoves
    MaxPositionPct = 45
    MaxDeployedPct = 90
    MaxTradesPerDay = 0
    MinGap = 0
    SameMintGap = 0
    DayLength = 10
    MaxNow = 1
    MaxPositions = 2
    MaxCommands = 1
    MaxCrashes = 0
    MaxFaults = 0
SPECIFICATION Spec
CHECK_DEADLOCK FALSE
PROPERTY KillStopsEntries
