\* Two messages of one id, ready at the same time.
CONSTANTS
    m1 = m1 m2 = m2 m3 = m3 m4 = m4 c1 = c1 c2 = c2 p1 = p1 p2 = p2
    i1 = i1 i2 = i2 x1 = x1 x2 = x2 u1 = u1 u2 = u2
    Messages = {m1, m4}
    Cancels = {}
    Replaces = {}
    Ids = {i1, i2}
    Sources = {x1, x2}
    Users = {u1, u2}
    NoField = NoField
    Attr <- MCAttr
    Criteria <- MCCriteria
    Update <- MCUpdate
    DefaultValidity = 2
    MaxTime = 4
    MaxHandlerErrors = 0
SPECIFICATION Spec
PROPERTIES ReadyIsDelivered
CHECK_DEADLOCK FALSE
