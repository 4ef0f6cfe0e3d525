----------------------------- MODULE MCCoopTask -----------------------------
(* CoopTask on short bodies. *)
EXTENDS CoopTask
=============================================================================
