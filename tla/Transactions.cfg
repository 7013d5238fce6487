SPECIFICATION Spec
CONSTANTS
    T1 = 1
    T2 = 8
    TimersMayFail = TRUE
    MaxTold = 3
INVARIANTS
    TimersOfState
    ClientTellsTU
    ServerTellsTU
    RepeatsOnSchedule
PROPERTIES
    KeepsPromise
    RepeatedOnlyIfUnacknowledged
    AnswerStable
    Released
CHECK_DEADLOCK FALSE
