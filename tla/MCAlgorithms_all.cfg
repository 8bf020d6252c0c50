SPECIFICATION AlgorithmsSpec
CONSTANTS
    Modes <- Settings
    Jobs <- SomeJobs
INVARIANTS
    AllReduced
    ReceivedIsDue
    SchedulesCorrect
PROPERTY AlgorithmsEnd
CHECK_DEADLOCK FALSE
