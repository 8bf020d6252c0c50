CONSTANTS
    s1 = s1
    s2 = s2
    Segments = {s1, s2}
    NComms = 2
    CanFail = {}
SPECIFICATION Spec
INVARIANT AllocatedRegistered
CHECK_DEADLOCK FALSE
