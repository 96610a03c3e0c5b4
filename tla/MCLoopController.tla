-------------------------- MODULE MCLoopController --------------------------
(***************************************************************************)
(* LoopController on a small instance: one plan, one wording, so that only *)
(* its author tells a reason from another, and a result whose test verdict *)
(* the reviewer may share or not.                                          *)
(***************************************************************************)
EXTENDS LoopController

CONSTANTS p1, t1

MCResult == {[tests_passed |-> "True", overall_status |-> "success"]}
=============================================================================
