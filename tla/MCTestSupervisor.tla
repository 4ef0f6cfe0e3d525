-------------------------- MODULE MCTestSupervisor --------------------------
(* TestSupervisor on three tests and two builds of the suite. *)
EXTENDS TestSupervisor

CONSTANTS b1, b2, x, y, z, w

(* The first test keeps its name in both builds; the second build has a    *)
(* new test in second place, and what was there has moved up.              *)
NameIn(b, t) ==
    IF t = 0 THEN x
    ELSE IF b = b1 THEN (IF t = 1 THEN y ELSE z)
    ELSE IF t = 1 THEN w ELSE y

Renamed == [b \in Builds |-> [t \in Tests |-> NameIn(b, t)]]
=============================================================================
