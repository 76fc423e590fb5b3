SPECIFICATION FairSpec
CONSTANTS
    Session = {u, v}
    Task = {o, n}
    Recurring = {n}
    Initial = {{o, n}, {n}}
    MaxEvents = 2
INVARIANTS
    TypeOK
    OneOwner
    FiresAgain
PROPERTIES
    Takeover
CHECK_DEADLOCK FALSE
