SPECIFICATION Spec
CONSTANTS
    Blocks = {b1, b2}
    N = 2
    Named = {2}
    Profiles <- MCProfiles
    MaxOpen = 1
    MaxListed = 1
INVARIANTS
    RefsAreKeys
    WaitsForSomething
PROPERTY
    WaitGetsShorter
CHECK_DEADLOCK FALSE
