CONSTANTS
    UserStreams = {s1}
    Internal = si
    OpModes = {TRUE, FALSE}
    MaxWork = 2
    MaxCaptures = 1
    AbortModes = {TRUE, FALSE}
    NoOne = none
SPECIFICATION FairSpec
INVARIANTS TypeOK CompletedInOrder FailureStaysAtHead NoIssueAfterFailure NoSpuriousAbort
    FinalizeDrainsOneStream
PROPERTIES StatusForward FailureStopsProcess HangDetected FinalizeReturns KeepsContract
