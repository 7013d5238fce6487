SPECIFICATION Spec
CONSTANTS
    Criteria <- MCCriteria
    Profiles <- MCProfiles
    MaxReturns = 5
INVARIANTS
    Kept
    NobodyPassedOver
CHECK_DEADLOCK FALSE
