SPECIFICATION FairSpec
CONSTANTS
    Agents = {ag}
    Shells = {sh}
    Caller = {k, l}
    MaxRuns = 3
    MaxCalls = 4
INVARIANTS
    TypeOK
    ShellToldOnce
PROPERTIES
    RunsStayStoppable
    RunningMeansRunning
    ShellAlwaysTold
CHECK_DEADLOCK FALSE
