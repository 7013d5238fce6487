SPECIFICATION ExchangeSpec
CONSTANTS
    T1 = 2
    T2 = 16
    T4 = 20
    TimersMayFail = FALSE
    MaxDelay = 1
    Horizon = 260
INVARIANTS
    AbsorbsRepeats
PROPERTY
    ExecutesAtMostOnce
CHECK_DEADLOCK FALSE
