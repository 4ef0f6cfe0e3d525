CONSTANTS
    a = a
    b = b
    s = s
    Vars = {a, b, s}
    Scalars = {s}
    Namings <- Shared
    Shapes = {}
    MaxDepth = 3
    MaxStmts = 7
SPECIFICATION Spec
SYMMETRY OwnedSymmetry
INVARIANTS
    TypeOK
    NoUseAfterMove
    NoUseBeforeInit
    NoDoubleRelease
    LoopHeadStable
    Coherent
    NoLeak
    ConsumedHasNoOldValue
\* The body is written until it returns or runs out of statements.
CHECK_DEADLOCK FALSE
