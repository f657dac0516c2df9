\* Round robin over three connections; a fourth is added; the index wraps after two requests.
CONSTANTS
    Requests = {r1, r2, r3}
    Configured = 3
    MaxLive = 1
    RoundRobin = TRUE
    Width = 2
SYMMETRY Symmetry
SPECIFICATION Spec
INVARIANTS TypeOK SpreadEven FailOverOrder
CHECK_DEADLOCK FALSE
