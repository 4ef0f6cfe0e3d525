CONSTANTS
    Shapes = {"plain-return"}
    Kinds = {"if"}
    MaxStmts = 4
    MaxRounds = 1
SPECIFICATION Spec
INVARIANT StopsForReason
\* A task stops for good when it has finished.
CHECK_DEADLOCK FALSE
