SPECIFICATION Spec
CONSTANTS
    weth = weth  gold = gold  c1 = c1
    Nobody = Nobody
    BadId = BadId
    Assets <- OneAsset
    Streams <- OneStream
    Requests <- OneId
    Buffer = 2
    MaxRows = 2
INVARIANT SnapshotThenEveryTick
CHECK_DEADLOCK FALSE
