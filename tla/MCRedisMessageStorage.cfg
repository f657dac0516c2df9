\* Two messages of one id and a cancel of it; one crash, failing command or handler.
CONSTANTS
    m1 = m1 m2 = m2 c1 = c1 i1 = i1 u1 = u1 u2 = u2
    Messages = {m1, m2}
    Cancels = {c1}
    Ids = {i1}
    Users = {u1, u2}
    NoField = NoField
    Loop = Loop
    Attr <- MCAttr
    IdOf <- MCIdOf
    DefaultValidity = 1
    MaxTime = 3
    MaxFaults = 1
SPECIFICATION FairSpec
INVARIANTS TypeOK NoSilentLoss DeliveredOnce
PROPERTIES DueLeaves
CHECK_DEADLOCK FALSE
