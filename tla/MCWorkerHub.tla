------------------------------ MODULE MCWorkerHub ------------------------------
(* Instances of WorkerHub for TLC: the Tasks, and the two decisions, are   *)
(* interchangeable model values.                                           *)
EXTENDS WorkerHub, TLC

Symmetry == Permutations(Tasks) \cup Permutations(Decisions)
=============================================================================
