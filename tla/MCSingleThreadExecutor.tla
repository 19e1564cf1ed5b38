----------------------- MODULE MCSingleThreadExecutor -----------------------
(* Small instances of SingleThreadExecutor: see the configurations. *)
EXTENDS SingleThreadExecutor
=============================================================================
