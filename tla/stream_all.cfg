SPECIFICATION FairSpec
CONSTANTS
    weth = weth  gold = gold  c1 = c1
    Nobody = Nobody
    BadId = BadId
    Assets <- TwoAssets
    Streams <- OneStream
    Requests <- AnyRequest
    Buffer = 1
    MaxRows = 2
INVARIANTS NeverGoesBack GetPriceNotBehind TailComplete
CHECK_DEADLOCK FALSE
PROPERTIES UsesBus LeaversForgotten
