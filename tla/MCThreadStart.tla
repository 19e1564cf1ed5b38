---------------------------- MODULE MCThreadStart ----------------------------
(* ThreadStart with small sets. *)
EXTENDS ThreadStart
=============================================================================
