CONSTANTS
    Jobs <- EmptyInputs
    MaxSplit = 1
    MaxRow = 2
SPECIFICATION Spec
INVARIANT CountsAgree
CHECK_DEADLOCK FALSE
