---------------------------- MODULE MCScheduler ----------------------------
(***************************************************************************)
(* Instances of Scheduler; the bounds are small numbers given in the cfg.  *)
(***************************************************************************)
EXTENDS Scheduler
=============================================================================
