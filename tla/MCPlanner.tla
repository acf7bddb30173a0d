----------------------------- MODULE MCPlanner -----------------------------
(***************************************************************************)
(* The planner's threads for TLC.                                          *)
(***************************************************************************)
EXTENDS Planner
==========================================================================
