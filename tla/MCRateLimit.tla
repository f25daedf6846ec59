------------------------------ MODULE MCRateLimit ------------------------------
(***************************************************************************)
(* RateLimit for TLC: one stranger, two concurrent handlers, a     *)
(* short window that admits one message and a longer one that admits two.  *)
(***************************************************************************)
EXTENDS RateLimit, TLC

MCWindows == <<[duration |-> 2, max |-> 1], [duration |-> 4, max |-> 2]>>

Symmetry == Permutations(Users) \cup Permutations(Procs)
================================================================================
