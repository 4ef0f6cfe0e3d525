CONSTANTS
    x = x
    y = y
    Params = {x, y}
    Shapes = {}
    MaxMacros = 3
    MaxLeaves = 5
    MaxOpen = 3
SPECIFICATION Spec
SYMMETRY ParamSymmetry
INVARIANTS
    TypeOK
    VerdictRight
    RefusedRightly
    ExitsClean
    BookRight
\* Macros are written until the bounds.
CHECK_DEADLOCK FALSE
