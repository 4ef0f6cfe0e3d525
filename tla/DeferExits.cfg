CONSTANTS
    Shapes = {}
    Kinds = {"if", "while", "select"}
    MaxStmts = 5
    MaxRounds = 2
SPECIFICATION Spec
INVARIANTS
    TypeOK
    RunsOnExit
    KeepsArguments
    ReturnsValue
\* A function returns or is rejected, and that is the end of the behaviour.
CHECK_DEADLOCK FALSE
