SPECIFICATION FairSpec
CONSTANTS
    FailureThreshold = 2
    HalfOpenMaxRequests = 2
    HalfOpenSuccessThreshold = 2
    Callers = {c1, c2, c3}
    Outcomes = {"ok", "trips", "ignored"}
INVARIANTS
    TypeOK
    TrialsHoldSlots
PROPERTIES
    SlotsLostSilently
    NothingSentWhileOpen
    RecoversIfTold
