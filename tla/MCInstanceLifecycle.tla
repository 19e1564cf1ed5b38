------------------------ MODULE MCInstanceLifecycle ------------------------
(* The settings of InstanceLifecycle that TLC explores. *)
EXTENDS InstanceLifecycle

\* With panic=unwind, and with panic=abort and --force-enable-abort-handler,
\* where calls nest and the host may terminate; the self-recovering abort
\* handler of the guide; and a build without exception handling.
AllSettings ==
  {{"catch", "unwind", "reenter", "stop"},
   {"catch", "reenter", "stop"},
   {"catch", "unwind", "reinit", "healing", "stop", "reset"},
   {"reinit", "reset", "finalize", "startFails"}}
=============================================================================
