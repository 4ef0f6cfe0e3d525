CONSTANTS
    Shapes = {"loop-return"}
    Kinds = {"while"}
    MaxStmts = 4
    MaxRounds = 2
SPECIFICATION Spec
INVARIANT RunsOnExit
CHECK_DEADLOCK FALSE
