SPECIFICATION Spec
CONSTANTS
    p1 = p1
    p2 = p2
    a1 = a1
    a2 = a2
    Proc = {p1, p2}
    Agent = {a1, a2}
    NoOwner = NoOwner
    MaxId = 3
    Requests <- SmallRequests
    MaxCalls = 3
    MaxCrashes = 1
SYMMETRY Interchangeable
INVARIANTS
    TypeOK
PROPERTIES
    IdsNotReused
    DependenciesKept
    OwnerChanges
    BusyCheckHolds
CHECK_DEADLOCK FALSE
