SPECIFICATION Spec
CONSTANTS
    Keys = {k1, k2}
    Calls = {c1, c2, c3, c4}
    Hanging = {c1}
INVARIANTS
    TypeOK
    OneAtATime
    ArrivalOrder
PROPERTIES
    ChainIsQueue
    TurnComes
CHECK_DEADLOCK FALSE
