CONSTANTS
    A = A
    B = B
    C = C
    D = D
    a = a
    a2 = a2
    c = c
    d = d
    j = j
    k = k
    Root = Root
    Macro = Macro
    Mods = {A, B, C, D}
    Funcs = {a, a2, c, d}
    Methods = {k}
    Imports <- MCImports
    Home <- MCHome
    Bare <- MCBare
    Programs <- Ordinary
    Importers = {Root, C}
    Allowed = {}
    MaxBuilds = 2
    MaxEdits = 1
SPECIFICATION Spec
INVARIANTS
    TypeOK
    NothingLost
    Complete
    Exact
PROPERTIES
    Terminates
\* Nobody has to start another build.
CHECK_DEADLOCK FALSE
