--------------------------- MODULE MCFreshnessGate ---------------------------
(* FreshnessGate on a root source, a package file that the workspace may    *)
(* provide instead of the one beside the root, and two contract files.      *)
EXTENDS FreshnessGate, TLC

CONSTANTS root, saMod, lib, local, contract, deep, p1, p2

(* The root names the package, and in its second version a contract.        *)
RootImports == [c \in Contents |-> IF c = 1 THEN {"pkg"} ELSE {"pkg", "sai"}]

(* Contracts that import nothing, and one that imports another.             *)
Flat == [f \in Files |-> IF f = root THEN RootImports ELSE [c \in Contents |-> {}]]
Deep == [f \in Files |-> CASE f = root -> RootImports
                           [] f = contract -> [c \in Contents |-> {"deep"}]
                           [] OTHER -> [c \in Contents |-> {}]]

MemberFile == [i \in Specifiers |-> CASE i = "pkg" -> lib [] i = "sai" -> contract [] OTHER -> deep]
LocalFile  == [i \in Specifiers |-> CASE i = "pkg" -> local [] i = "sai" -> contract [] OTHER -> deep]

Symmetry == Permutations(Procs)
=============================================================================
