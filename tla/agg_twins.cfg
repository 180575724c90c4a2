SPECIFICATION Spec
CONSTANTS
    s1 = s1  s2 = s2  s3 = s3  weth = weth  e1 = e1  e2 = e2
    Sources <- OneSource
    Assets = {weth}
    Entries <- TwoEntries
    IdOf <- SameId
    ClassOf <- AllCrypto
    SymbolsOf <- AllSymbols
    Registered <- OneSource
    MinSources = 1
    MaxDeviationPct = 10
    FreshnessPolicy = "permissive"
    StaleAfterCrypto = 1
    StaleAfterRWA = 2
    Second = 1
    Quotes <- Pair
    Lags <- NoLag
    MaxTicks = 1
    MaxTime = 0
    MaxRestarts = 0
    MaxLate = 1
SYMMETRY EntrySymmetry
INVARIANT CacheNotBehind
CHECK_DEADLOCK FALSE
