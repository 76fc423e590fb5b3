SPECIFICATION FairSpec
CONSTANTS
    FailureThreshold = 1
    HalfOpenMaxRequests = 1
    HalfOpenSuccessThreshold = 1
    Agents = {a, b}
    p = p
    q = q
    f = f
    g = g
    Pool <- PoolOfTwo
    Fallbacks <- OneFallback
    UsesFallbackModel = TRUE
    MaxAttempts = 1
    FallbackAfterAttempts = 2
    Outcomes = {"ok", "trips"}
INVARIANTS
    TypeOK
    GivesUpHonestly
    FallbackWhenDue
    RequestsBounded
PROPERTIES
    CallEnds
CHECK_DEADLOCK FALSE
