------------------------------ MODULE MCClosure ------------------------------
(* Instances of Closure for TLC: see the configurations. *)
EXTENDS Closure
=============================================================================
