SPECIFICATION FairSpec
CONSTANTS
    N = 3
    MaxConcurrent = 2
    MayCancel = TRUE
INVARIANTS
    TypeOK
    AllAnswered
PROPERTIES
    ResultsFinal
    ImplementsSchedule
    NoneForgotten
CHECK_DEADLOCK FALSE
