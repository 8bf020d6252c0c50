CONSTANTS
    UserStreams = {s1}
    Internal = si
    OpModes = {TRUE, FALSE}
    MaxWork = 2
    MaxCaptures = 0
    AbortModes = {FALSE}
    NoOne = none
SPECIFICATION Spec
INVARIANT FinalizeDrains
