SPECIFICATION Spec
CONSTANTS
    Reqs = {r1, r2}
    MaxRings = 1
INVARIANTS
    TimersOfState
    CallerHearsCallee
    OnlyUnheeded
    HashOwnsCall
PROPERTIES
    SetupEnds
CHECK_DEADLOCK FALSE
