-------------------------- MODULE MCOwnershipFlow --------------------------
(* OwnershipFlow on small sets of bindings and short bodies. *)
EXTENDS OwnershipFlow, TLC

CONSTANTS a, b, s

(* The owned bindings may be renamed in every state of a body. *)
OwnedSymmetry == Permutations({a, b})

Own == [v \in Vars |-> v]

(* Names of their own, or one name for two bindings, of which the second is  *)
(* the inner one.                                                            *)
Apart  == {Own}
Shared == {[Own EXCEPT ![v] = w] : v \in Vars, w \in Vars}
=============================================================================
