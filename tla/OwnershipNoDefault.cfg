CONSTANTS
    a = a
    b = b
    s = s
    Vars = {a, b, s}
    Scalars = {s}
    Namings <- Apart
    Shapes = {"no-default"}
    MaxDepth = 2
    MaxStmts = 6
SPECIFICATION Spec
SYMMETRY OwnedSymmetry
INVARIANTS
    NoUseBeforeInit
\* The body is written until it returns or runs out of statements.
CHECK_DEADLOCK FALSE
