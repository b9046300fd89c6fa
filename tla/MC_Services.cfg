CONSTANTS
    Webs = {"w1"}
    MaxSaves = 2
    Scans = {"scan"}
    Quotes = {"quote"}
    Limits <- MCLimits
    Reserve = 2
    Cooling = 3
    Patience = 3
    MaxRetries = 1
    MaxTime = 6
    MaxLimits = 1
    Retests = {"monthly"}
    Benchmarks = {"benchmark"}
    Size <- MCSize
    Attempts = 2
    MaxFaults = 1
    Pairs <- MCPairs
    Listing <- MCListing
    MaxMinute = 2
    MonthLength = 2
    Page = 2
    Lookback = 2
    Recent = 2
    Pulls = {"p1", "p2"}
    MaxStarts = 2
    MaxDeaths = 1
    Optimizers = {"o1", "o2"}
    Windows = {"w1", "w2"}
    MinShare = 50
    Unfit <- MCUnfit
    Retries = 1
    MaxRuns = 1
    MaxLaunches = 2
    MaxBreaks = 3
    Tokens <- MCTokens
    BarsOf <- MCBarsOf
    Liquidity <- MCLiquidity
    Alike = {2}
    MinBars = 0
    Risk = 100
    RewardRisk = 2
    ActivateAt = 100
    TrailDistance = 80
    InvalidationBars = 2
    MaxHold = 3
    MaxHorizon = 5
    FeePct = 1
    SlipPct = 1
    StartBalance = 10000
    WalletPct = 60
    TotalPct = 80
    LiquidityPct = 50
    MinPosition = 2500
    MaxClock = 4
    Assets <- MCAssets
    Books <- MCBooks
    HotMax = 1
    HotEvery = 1
    BroadEvery = 2
    RefreshEvery = 2
    HotAge = 1
    PassTtl = 1
    FailTtl = 2
    OutageTtl = 1
    Uptime = 1
    MaxMoment = 3
    MaxTroubles = 2
    Symbols = {"s1", "s2"}
    InDays = 2
    OutDays = 1
    StepDays = 1
    WarmUp = 1
    MinCandles = 1
    Horizon = 2
    Floored <- MCFloored
    MaxDay = 6
    Universe = {"u1", "u2"}
    MaxCandles = 2
    MaxToday = 2
    MaxDailies = 2
    MaxUpsets = 1
    Passes <- MCPasses
    Batch <- MCBatch
    Sets = {"s"}
    Scores = {1, 2}
    Regions = {0}
    MaxDistance = 0
    Keep = 0
    MaxModels = 2
    MaxFound = 2
    KRange = {2}
    MaxSwaps = 2
    Sends = 2
    MaxLosses = 3
SPECIFICATION ServicesSpec
CHECK_DEADLOCK FALSE
INVARIANTS ServicesTypeOK SettingsCohere BudgetHonoured QuoteNotBehindScans CleanMeansGone DoneMeansStored VerdictFromRows ReportsTrue EnginesAgree PositionsWatched SearchConfined DailyRunsTestTheStore RegimeSetsEarned SwapsAsAssumed
PROPERTIES EntriesVetted
