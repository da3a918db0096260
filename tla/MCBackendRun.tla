----------------------------- MODULE MCBackendRun -----------------------------
(* Instances of BackendRun for TLC: the threads are model values, the API  *)
(* threads that decide (and those that cancel) are interchangeable.        *)
EXTENDS BackendRun, TLC

Symmetry == Permutations(Deciders) \cup Permutations(Cancellers)
=============================================================================
