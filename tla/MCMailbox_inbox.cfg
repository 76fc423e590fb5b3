SPECIFICATION FairSpec
CONSTANTS
    s = s
    t = t
    u = u
    a = a
    b = b
    Sender <- Calls
    Agent <- Agents
    AgentOf <- Owners
    MaxMessages = 2
    MaxTime = 1
    MaxStarts = 2
    MaxKills = 1
INVARIANTS
    TypeOK
PROPERTIES
    NothingLost
    SendsGetThrough
    HandedOnce
    AllHanded
CHECK_DEADLOCK FALSE
