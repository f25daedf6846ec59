-------------------------------- MODULE MCIntake --------------------------------
(***************************************************************************)
(* Intake for TLC: strangers do not share a row, so one is enough.  No     *)
(* symmetry of the handlers: a liveness property is checked.               *)
(***************************************************************************)
EXTENDS Intake, TLC
================================================================================
