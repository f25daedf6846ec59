----------------------------- MODULE MCReplySession -----------------------------
(* ReplySession for TLC: two relayed messages, two overlapping updates. *)
EXTENDS ReplySession, TLC

Symmetry == Permutations(Mappings) \cup Permutations(Procs)
================================================================================
