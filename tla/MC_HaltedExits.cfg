CONSTANTS
    Prices = {1, 2}
    Fills = {2}
    Risks = {1}
    RewardRatios = {5}
    Overrides = {0}
    Atrs = {1}
    Settings <- MCSettings
    LeastDistance = 1
    MaxClock = 2
    MaxCrashes = 0
    MaxFaults = 0
SPECIFICATION FairSpec
CHECK_DEADLOCK FALSE
PROPERTY ManagedWhileHalted
