--------------------------- MODULE ClosureContract ---------------------------
(***************************************************************************)
(* What a Rust closure handed to JavaScript is promised, as the comment in *)
(* src/convert/closures.rs tells it: a reference count that the handle and *)
(* every invocation share, so that dropping the handle of a closure that   *)
(* runs is deferred until it returns; and &mut for one invocation at once. *)
(***************************************************************************)
EXTENDS Naturals

CONSTANTS
  Closures,
  Mutable   \* those of type FnMut

VARIABLES
  life,     \* "unborn", "live", "closing" or "dead"
  calls     \* invocations that run

vars == <<life, calls>>

Init ==
  /\ life = [c \in Closures |-> "unborn"]
  /\ calls = [c \in Closures |-> 0]

Make(c) ==
  /\ life[c] = "unborn"
  /\ life' = [life EXCEPT ![c] = "live"]
  /\ UNCHANGED calls

Invoke(c) ==
  /\ life[c] \in {"live", "closing"}
  /\ c \in Mutable => calls[c] = 0
  /\ calls' = [calls EXCEPT ![c] = @ + 1]
  /\ UNCHANGED life

\* The last invocation of a closure whose handle is gone destroys it.
Leave(c) ==
  /\ calls[c] > 0
  /\ calls' = [calls EXCEPT ![c] = @ - 1]
  /\ life' = IF life[c] = "closing" /\ calls[c] = 1
             THEN [life EXCEPT ![c] = "dead"] ELSE life

Release(c) ==
  /\ life[c] = "live"
  /\ life' = [life EXCEPT ![c] = IF calls[c] > 0 THEN "closing" ELSE "dead"]
  /\ UNCHANGED calls

Next == \E c \in Closures : Make(c) \/ Invoke(c) \/ Leave(c) \/ Release(c)

Spec == Init /\ [][Next]_vars
=============================================================================
