SPECIFICATION FairSpec
CONSTANTS
    MaxPTLRetries = 3
    MaxToolIterations = 1
    MaxContinuations = 1
    MaxCompactFailures = 1
    TokenBudget = 4
    DiminishingThreshold = 2
    DiminishingMinCount = 1
    Lengths = {1, 2}
    MaxBlocks = 1
    MediaResults = TRUE
    EmptyReplies = TRUE
INVARIANTS
    TypeOK
    RequestAnswerable
    SummaryRequestsPaired
PROPERTIES
    OnlyRecoveryUnpairs
    CutOffKept
    RunEnds
CHECK_DEADLOCK FALSE
