SPECIFICATION StreamSpec
CONSTANTS
    ToolIndexes = {0, 1, 2}
    EagerTool = eager
    DeferredTool = deferred
    ClientRequests <- MCRequests
    Chunks <- MCChunks
    MaxChunks = 3
    MaxFailovers = 1
INVARIANTS
    TextKept
    CallsWhole
    RecordedOnce
PROPERTY
    ClientSees
CHECK_DEADLOCK FALSE
