SPECIFICATION BusySpec
CONSTANTS
    FailureThreshold = 1
    HalfOpenMaxRequests = 1
    HalfOpenSuccessThreshold = 1
    Agents = {a}
    p = p
    q = q
    f = f
    g = g
    Pool <- PoolOfOne
    Fallbacks <- OneFallback
    UsesFallbackModel = FALSE
    MaxAttempts = 0
    FallbackAfterAttempts = 0
    Outcomes = {"ok", "trips"}
PROPERTIES
    FallbackRecovers
