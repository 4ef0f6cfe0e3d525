CONSTANTS
    root = root
    saMod = saMod
    lib = lib
    local = local
    contract = contract
    deep = deep
    p1 = p1
    p2 = p2
    Files = {root, saMod, lib, local, contract}
    Root = root
    SaMod = saMod
    Contracts = {contract}
    Contents = {1, 2}
    Absent = 0
    Specifiers = {"pkg", "sai"}
    Imports <- Flat
    Member <- MemberFile
    Local <- LocalFile
    Procs = {p1, p2}
    Allowed = {}
    MaxEdits = 2
SYMMETRY Symmetry
SPECIFICATION Spec
INVARIANTS
    TypeOK
    Honest
    Fresh
