SPECIFICATION FairSpec
CONSTANTS
    c1 = c1  c2 = c2  p1 = p1
    Canonical <- CanonicalIds
    Schemes <- OneScheme
    MaxAssets = 1
    Calls <- OneCall
    Unary <- NoCall
    Probes <- OneProbe
    MaxConns = 1
PROPERTIES StopEnds
CHECK_DEADLOCK FALSE
