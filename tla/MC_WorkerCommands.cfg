CONSTANTS
    Instances = {"live", "paper", "shadow"}
    Mints = {m1, m2}
    StartBalance = 10
    CircuitLosses = 1
    Ops = {"start", "stop", "kill_switch", "release_kill_switch", "reset_circuit", "clear_reconcile_halt", "close_position", "set_shadow"}
    Base <- MCBase
    OnChain = {"live"}
    UnitsPerToken <- MCUnits
    Sizes = {3}
    Moves <- MCMoves
    MaxPositionPct = 40
    MaxDeployedPct = 90
    MaxTradesPerDay = 1
    MinGap = 1
    SameMintGap = 2
    DayLength = 4
    MaxNow = 4
    MaxPositions = 3
    MaxCommands = 3
    MaxCrashes = 1
    MaxFaults = 1
SPECIFICATION FairSpec
CONSTRAINT InScenario
CHECK_DEADLOCK FALSE
INVARIANTS LateEntriesBounded CommandsInOrder SameMintCooldown DailyCapOvershoot
PROPERTIES KillEventuallyHolds CommandsAnswered
