-------------------------- MODULE MCExportedClass --------------------------
(* Instances of ExportedClass for TLC: see the configurations.            *)
EXTENDS ExportedClass, TLC

CONSTANTS c, p
parents == (c :> p) @@ (p :> None)
=============================================================================
