---------------------------------- MODULE MCRelay ----------------------------------
(* Relay for TLC: two messages of two strangers or of one, or one message. *)
EXTENDS Relay, TLC

CONSTANTS u1, u2, m1, m2

MCAuthorOf     == [m \in {m1, m2} |-> IF m = m1 THEN u1 ELSE u2]
MCSameAuthorOf == [m \in {m1, m2} |-> u1]
MCOneAuthorOf  == [m \in {m1} |-> u1]

Symmetry == Permutations(Procs)
================================================================================
