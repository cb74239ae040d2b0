------------------------- MODULE MCRunStateScripts -------------------------
(* An instance of RunStateScripts for TLC.                                 *)
EXTENDS RunStateScripts, TLC

CONSTANTS e1, e2

Symmetry == Permutations({e1, e2})
=============================================================================
