CONSTANTS
    Prices = {1, 2, 4, 6}
    Fills = {2}
    Risks = {1}
    RewardRatios = {5}
    Overrides = {0, 3}
    Atrs = {1}
    Settings <- MCSettings
    LeastDistance = 1
    MaxClock = 2
    MaxCrashes = 1
    MaxFaults = 1
SPECIFICATION FairSpec
CHECK_DEADLOCK FALSE
INVARIANTS TrailCoversCosts TrailLeavesRoom
PROPERTIES StopNeverLoosens FadedEvaluationsCounted ExitActedOn
