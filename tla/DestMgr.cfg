CONSTANTS
    Names = {"as1", "as2", "general", "other"}
    Answers <- MCAnswers
    Local <- MCLocal
    MaxRecords = 3
SPECIFICATION Spec
INVARIANTS
    FoundIffUsable
    BestPriority
    QuarantineIsSeen
PROPERTY
    QuarantineLasts
