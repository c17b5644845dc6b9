---------------------------- MODULE MCInterrupts ----------------------------
(***************************************************************************)
(* Instances of Interrupts.                                                *)
(***************************************************************************)
EXTENDS Interrupts
=============================================================================
