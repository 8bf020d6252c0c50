CONSTANTS
    s1 = s1
    s2 = s2
    Segments = {s1, s2}
    NComms = 3
    CanFail = {"register", "deregister", "cuda"}
SPECIFICATION Spec
SYMMETRY Symmetry
INVARIANTS NoDanglingComm HandlesAllocated AttachedComplete
PROPERTY NoHandleOutlivesNccl
CHECK_DEADLOCK FALSE
