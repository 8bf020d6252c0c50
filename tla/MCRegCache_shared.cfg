CONSTANTS
    Comms = {c1, c2}
    Segments = {1, 2}
    Addrs = {a1, a2, a3}
    NoAddr = NoAddr
    Modes <- Settings
    MaxColls = 2
SPECIFICATION Spec
SYMMETRY Symmetry
INVARIANTS CoveredByCache RegisteredOnce UsedStaysRegistered ExportsLive NothingLeft
CHECK_DEADLOCK FALSE
