SPECIFICATION LeavingSpec
CONSTANTS
    c1 = c1  c2 = c2  p1 = p1
    Canonical <- CanonicalIds
    Schemes <- AllSchemes
    MaxAssets = 1
    Calls <- TwoCalls
    Unary <- OneUnary
    Probes <- OneProbe
    MaxConns = 1
INVARIANTS PoolOutlivesUsers EveryModuleStopped BrokenIsNotReady LoopsAreConfigured DefaultsSuffice
PROPERTIES StopEnds
CHECK_DEADLOCK FALSE
