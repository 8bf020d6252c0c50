CONSTANTS
    Streams = {s1, win}
    WindowStream = win
    MaxWorks = 3
    MaxEventPoolSize = 3
    Graphs = {g1}
SPECIFICATION Spec
INVARIANTS EventsConserved StatusIsOwn CleanupHasComm NoLeak
CHECK_DEADLOCK FALSE
