CONSTANTS
    server = server  tool = tool
    owner = owner  request = request  snapshot = snapshot
    Procs = {server, tool}
    Tasks = {owner, request, snapshot}
    ProcOf <- MCProcOf
    Spaces <- MCSpaces
    Asks <- MCAsks
    MaxAsks = 2
    MaxMishaps = 1
SPECIFICATION FairSpec
INVARIANT Exclusion
PROPERTIES ImplementsSpaceLease Drains
CHECK_DEADLOCK FALSE
