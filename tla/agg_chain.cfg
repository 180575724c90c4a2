SPECIFICATION Spec
CONSTANTS
    s1 = s1  s2 = s2  s3 = s3  weth = weth  e1 = e1  e2 = e2
    Sources <- OneSource
    Assets = {weth}
    Entries <- OneEntry
    IdOf <- SameId
    ClassOf <- AllCrypto
    SymbolsOf <- AllSymbols
    Registered <- OneSource
    MinSources = 1
    MaxDeviationPct = 10
    FreshnessPolicy = "permissive"
    StaleAfterCrypto = 1
    StaleAfterRWA = 2
    Second = 1
    Quotes <- StepsAndZero
    Lags <- NoLag
    MaxTicks = 3
    MaxTime = 0
    MaxRestarts = 1
    MaxLate = 1
INVARIANTS TypeOK Coherent BandHeld NeverDisarmed BlindOnce CacheTracksRows FeedMirrorsRows
PROPERTY ImplementsPriceFeed
CHECK_DEADLOCK FALSE
