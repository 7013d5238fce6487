SPECIFICATION Spec
CONSTANTS
    Users = {u1, u2}
    Msgs = {m1}
    T1 = 1
    T2 = 3
    M = 9
    MaxLate = 2
    MaxCopies = 2
INVARIANTS
    TimersOfState
    AcceptedHasPlace
    StoredIsKept
    Schedule
PROPERTIES
    NotDroppedEarly
    RowsGo
CHECK_DEADLOCK FALSE
