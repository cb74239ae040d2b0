---------------------------- MODULE MCGridSweep ----------------------------
(* Small sweeps for TLC. Combinations are model values; Distinct gives     *)
(* every combination a signature of its own.                               *)
EXTENDS GridSweep, TLC

Distinct == [c \in Combos |-> c]

AnyCombo == Permutations(Combos)
=============================================================================
