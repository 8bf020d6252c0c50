CONSTANT VcModes <- LastModes
SPECIFICATION Spec
INVARIANT NotifyFollowsAllPuts
CHECK_DEADLOCK FALSE
