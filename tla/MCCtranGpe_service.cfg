CONSTANTS
    Items = {i1, i2, i3}
    i1 = i1
    i2 = i2
    i3 = i3
    NoItem = NoItem
    s1 = s1
    s2 = s2
    Streams = {s1, s2}
    NoStream = NoStream
    Modes <- PassModes
    MaxGroups = 2
    MaxCmds = 3
    MaxReplays = 2
SPECIFICATION Spec
INVARIANTS FlagExclusive FlagsComeBack KernelsInOrder
PROPERTY KernelsExitOrStuck
CHECK_DEADLOCK FALSE
