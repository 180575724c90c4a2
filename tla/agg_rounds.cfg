SPECIFICATION FairSpec
CONSTANTS
    s1 = s1  s2 = s2  s3 = s3  weth = weth  e1 = e1  e2 = e2
    Sources <- ThreeSources
    Assets = {weth}
    Entries <- OneEntry
    IdOf <- SameId
    ClassOf <- AllRWA
    SymbolsOf <- AllSymbols
    Registered <- ThreeSources
    MinSources = 2
    MaxDeviationPct = 10
    FreshnessPolicy = "strict"
    StaleAfterCrypto = 0
    StaleAfterRWA = 1
    Second = 2
    Quotes <- Spread
    Lags <- Stale
    MaxTicks = 2
    MaxTime = 1
    MaxRestarts = 0
    MaxLate = 0
INVARIANTS RoundSound MedianIsMiddle MinorityHarmless
PROPERTIES KeepsTicking StopTerminates
CHECK_DEADLOCK FALSE
