------------------------------- MODULE MCThrottle -------------------------------
(* Throttle for TLC: goroutines are interchangeable. *)
EXTENDS Throttle, TLC

Symmetry == Permutations(Procs)
================================================================================
