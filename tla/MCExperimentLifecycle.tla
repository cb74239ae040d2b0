----------------------- MODULE MCExperimentLifecycle -----------------------
(* The instance of the lifecycle for TLC: combinations and requests are    *)
(* interchangeable.                                                        *)
EXTENDS ExperimentLifecycle, TLC

Interchangeable == Permutations(Combos) \cup Permutations(Clients)
=============================================================================
