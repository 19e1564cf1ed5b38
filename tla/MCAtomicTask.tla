---------------------------- MODULE MCAtomicTask ----------------------------
(* Small instances of AtomicTask: see the configurations. *)
EXTENDS AtomicTask
=============================================================================
