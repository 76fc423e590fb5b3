SPECIFICATION Spec
CONSTANTS
    N = 2
    MaxConcurrent = 2
    MayCancel = TRUE
INVARIANTS
    NoSendAfterClose
CHECK_DEADLOCK FALSE
