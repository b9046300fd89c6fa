CONSTANTS
    Ops = {"set_shadow"}
    Bundles = {1, 2}
    Reviews = {3}
    Acceptors = {"daily", "web"}
    MinDays = 1
    MaxDay = 2
    MaxCommands = 2
    MaxCrashes = 1
    MaxFaults = 1
SPECIFICATION Spec
CHECK_DEADLOCK FALSE
INVARIANTS OneInShadow ShadowFollowsOverrides ShadowIsNotLive TrialIsRun
PROPERTIES PromotedServed ImplementsTrials
