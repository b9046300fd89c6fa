CONSTANTS
    Ops = {"set_shadow"}
    Bundles = {1}
    Reviews = {3}
    Acceptors = {"daily"}
    MinDays = 1
    MaxDay = 2
    MaxCommands = 2
    MaxCrashes = 0
    MaxFaults = 0
SPECIFICATION Spec
CHECK_DEADLOCK FALSE
INVARIANT ReviewNeverLive
