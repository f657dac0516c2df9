\* Two messages, cancels and replaces, a crash, a failing statement and handler.
CONSTANTS
    m1 = m1 m2 = m2 c1 = c1 c2 = c2 p1 = p1 p2 = p2 i1 = i1 i2 = i2 k1 = k1
    Messages = {m1, m2}
    Cancels = {c1, c2}
    Replaces = {p1, p2}
    Ids = {i1, i2}
    Keys = {k1}
    NoField = NoField
    Attr <- MCAttr
    Criteria <- MCCriteria
    Update <- MCUpdate
    DefaultValidity = 1
    MaxTime = 3
    MaxCrashes = 1
    MaxDbErrors = 1
    MaxHandlerErrors = 1
    MaxRecycles = 1
    Stubborn = {m1}
    Poison = {m1}
    InMemory = {TRUE, FALSE}
SPECIFICATION FairSpec
INVARIANTS TypeOK NoSilentLoss DeliveredOnce
PROPERTIES GoneForGood DueLeaves
CHECK_DEADLOCK FALSE
