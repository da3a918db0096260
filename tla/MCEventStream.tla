----------------------------- MODULE MCEventStream -----------------------------
(* Instances of EventStream for TLC: writers and clients are model values. *)
EXTENDS EventStream, TLC
=============================================================================
