---------------------------- MODULE MCScheduler ----------------------------
(***************************************************************************)
(* Instances of Scheduler for TLC: one or two calls of start() that begin  *)
(* a chain beside the constructor's, bursts of two trials.                 *)
(***************************************************************************)
EXTENDS Scheduler

CONSTANTS u1, u2

=============================================================================
