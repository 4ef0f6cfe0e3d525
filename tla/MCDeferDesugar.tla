--------------------------- MODULE MCDeferDesugar ---------------------------
(* DeferDesugar on functions of a few statements. *)
EXTENDS DeferDesugar
=============================================================================
