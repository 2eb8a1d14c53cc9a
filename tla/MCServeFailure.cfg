SPECIFICATION ProcessSpec
CONSTANTS
    Requests = {r1}
    Probes = {}
    CompletionCapacity = 1
    HistoryCapacity = 1
    ClientSets = {{r1}}
INVARIANT DatabaseOutlivesHandlers
CHECK_DEADLOCK FALSE
