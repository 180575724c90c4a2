SPECIFICATION FairSpec
CONSTANTS
    f1 = f1  f2 = f2  f3 = f3
    NoTime = NoTime  Empty = Empty  Garbage = Garbage  NaN = NaN  Garbled = Garbled
    Reported <- OldTime
    Kinds <- AllKinds
    Replies <- AllReplies
    Fetchers <- ThreeFetchers
    Interval = 2
    Burst = 1
    Timeout = 2
    TickTime = 3
    MaxNow = 6
    MaxFetches = 3
INVARIANTS RateHeld UsableAnswers
PROPERTIES FetchEnds
CHECK_DEADLOCK FALSE
