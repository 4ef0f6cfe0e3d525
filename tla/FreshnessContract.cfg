CONSTANTS
    root = root
    saMod = saMod
    lib = lib
    local = local
    contract = contract
    deep = deep
    p1 = p1
    p2 = p2
    Files = {root, saMod, lib, local, contract, deep}
    Root = root
    SaMod = saMod
    Contracts = {contract, deep}
    Contents = {1, 2}
    Absent = 0
    Specifiers = {"pkg", "sai", "deep"}
    Imports <- Deep
    Member <- MemberFile
    Local <- LocalFile
    Procs = {p1}
    Allowed = {}
    MaxEdits = 2
SPECIFICATION Spec
INVARIANT
    Honest
