CONSTANTS
    Shapes = {}
    Kinds = {"if", "while", "for", "block"}
    MaxStmts = 4
    MaxRounds = 2
SPECIFICATION Spec
INVARIANTS
    TypeOK
    SourceOrder
    RightValues
    StopsForReason
PROPERTY
    Finishes
\* A task stops for good when it has finished.
CHECK_DEADLOCK FALSE
