SPECIFICATION Spec
CONSTANTS
    Criteria <- MCCriteria
    Profiles <- MCProfiles
    MaxReturns = 2
INVARIANT ClosingIsFreed
CHECK_DEADLOCK FALSE
