SPECIFICATION Spec
CONSTANTS
    Cursors = {"a", "b"}
    Sizes = {0, 2}
    Times = {0, 2, 4, 6, 8}
    Limits = {1, 2, 3}
    MaxPages = 4
INVARIANTS Whole
PROPERTIES WalkEnds
\* Every walk ends.
CHECK_DEADLOCK FALSE
