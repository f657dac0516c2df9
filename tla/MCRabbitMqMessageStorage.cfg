\* Two messages of one id, a third that save refuses, a cancel of the id and one without an id; two faults.
CONSTANTS
    m1 = m1 m2 = m2 m3 = m3 c1 = c1 c2 = c2 i1 = i1 i2 = i2 u1 = u1 u2 = u2
    Messages = {m1, m2, m3}
    Cancels = {c1, c2}
    Ids = {i1, i2}
    Users = {u1, u2}
    NoField = NoField
    Attr <- MCAttr
    IdOf <- MCIdOf
    DefaultValidity = 0
    MaxTime = 3
    MaxFaults = 2
SPECIFICATION FairSpec
INVARIANTS TypeOK NoSilentLoss DeliveredOnce
PROPERTIES DueLeaves
CHECK_DEADLOCK FALSE
