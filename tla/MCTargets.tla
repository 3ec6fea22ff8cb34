------------------------------ MODULE MCTargets ------------------------------
(* Targets with model values.                                              *)
EXTENDS Targets
=============================================================================
