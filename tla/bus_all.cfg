SPECIFICATION FairSpec
CONSTANTS
    p1 = p1  p2 = p2  c1 = c1  c2 = c2
    Nobody = Nobody
    Publishers <- TwoPublishers
    Subscribers <- TwoSubscribers
    Buffer = 1
    MaxStamp = 2
INVARIANTS TypeOK NeverSendsOnClosed Accounted InOrder
PROPERTY NobodyWaitsForSubscribers
CHECK_DEADLOCK FALSE
