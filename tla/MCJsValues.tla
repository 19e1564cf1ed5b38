------------------------------ MODULE MCJsValues ------------------------------
(* Instances of JsValues for TLC: see the configurations. *)
EXTENDS JsValues
=============================================================================
