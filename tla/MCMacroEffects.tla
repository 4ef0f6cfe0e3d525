-------------------------- MODULE MCMacroEffects --------------------------
(* MacroEffects with two parameters. *)
EXTENDS MacroEffects, TLC

CONSTANTS x, y

(* The parameters may be renamed. *)
ParamSymmetry == Permutations(Params)
=============================================================================
