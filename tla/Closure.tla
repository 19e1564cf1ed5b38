------------------------------- MODULE Closure -------------------------------
(***************************************************************************)
(* Rust closures as JavaScript functions: the glue around an owned closure *)
(* (makeMutClosure and makeClosure in cli-support/src/js/mod.rs) and a     *)
(* borrowed one (cli-support/src/js/binding.rs), the shim and the handle   *)
(* in src/convert/closures.rs and src/closure.rs, and the finalizer.       *)
(*                                                                         *)
(* One thread, but everything nests: a closure's body, or the drop glue of *)
(* what it captured, may call or drop closures, itself included.           *)
(***************************************************************************)
EXTENDS Naturals, Sequences, SequencesExt, FiniteSetsExt

CONSTANTS
  Closures,
  Mutable,  \* FnMut; the others are Fn
  Owned,    \* made from a Box; the others borrow from a Rust frame
  Deeds,    \* what captured values do when dropped: "call", "drop"
  Reinit,   \* generate_reinit: JavaScript may call __wbg_reset_state
  Schedule, \* Rust calls schedule_reinit
  MaxDepth  \* bound: frames on the stack

ASSUME ClosureAssumption ==
  /\ Mutable \subseteq Closures /\ Owned \subseteq Closures
  /\ Deeds \subseteq {"call", "drop"}
  /\ {Reinit, Schedule} \subseteq BOOLEAN
  /\ MaxDepth \in Nat

VARIABLES
  a,          \* state.a is not zero
  cnt,        \* state.cnt, of owned closures
  env,        \* the closure itself: "none", "alive", "dropping", "freed"
  handle,     \* its ScopedClosure: "none", "rust", "leaked", "js", "dropped"
  held,       \* JavaScript holds the function
  registered, \* state is registered with CLOSURE_DTORS
  stale,      \* state.instance is not the current instance
  scheduled,  \* __wbg_reinit_scheduled
  stack       \* invocations and destructors, the running one last

vars == <<a, cnt, env, handle, held, registered, stale, scheduled, stack>>

Init ==
  /\ a = [c \in Closures |-> FALSE]
  /\ cnt = [c \in Closures |-> 0]
  /\ env = [c \in Closures |-> "none"]
  /\ handle = [c \in Closures |-> "none"]
  /\ held = [c \in Closures |-> FALSE]
  /\ registered = {} /\ stale = {} /\ scheduled = FALSE
  /\ stack = <<>>

Put(f, c, v) == [f EXCEPT ![c] = v]
Frame(op, c) == [op |-> op, of |-> c]
Frames(op, c) == Quantify(1..Len(stack), LAMBDA k : stack[k] = Frame(op, c))
Calls(c) == Frames("call", c)
Drops(c) == Frames("drop", c)
Running(op) == stack # <<>> /\ Last(stack).op = op
Code == stack = <<>> \/ Running("call") \* some Rust or JavaScript code runs
Mine(c) == handle[c] = "rust" /\ c \notin stale

-----------------------------------------------------------------------------
\* The handle, in Rust.

\* Closure::new, ScopedClosure::borrow, ..., passed to JavaScript.
Make(c) ==
  /\ Code /\ handle[c] = "none"
  /\ a' = Put(a, c, TRUE)
  /\ cnt' = Put(cnt, c, IF c \in Owned THEN 1 ELSE 0)
  /\ env' = Put(env, c, "alive")
  /\ handle' = Put(handle, c, "rust")
  /\ held' = Put(held, c, TRUE)
  /\ registered' = registered \cup ({c} \cap Owned)
  /\ UNCHANGED <<stale, scheduled, stack>>

\* Mutant: an invocation does not count.
Unref_Early(base, c) ==
  /\ cnt' = Put(cnt, c, 0)
  /\ stack' = Append(base, Frame("drop", c))
  /\ env' = Put(env, c, "dropping")
  /\ UNCHANGED registered

\* _wbg_cb_unref of an owned closure: the last reference destroys it, which
\* runs the drop glue of its captures before state.a is cleared (Destroyed).
Unref(base, c) ==
  /\ cnt' = Put(cnt, c, cnt[c] - 1)
  /\ IF cnt[c] = 1
     THEN /\ stack' = Append(base, Frame("drop", c))
          /\ env' = Put(env, c, "dropping")
     ELSE stack' = base /\ UNCHANGED env
  /\ UNCHANGED registered

MayDrop(c) == Mine(c) /\ (Code \/ (Running("drop") /\ "drop" \in Deeds /\ Len(stack) < MaxDepth))

\* Drop of an owned closure's handle, also from within its own invocation.
DropOwned(c) ==
  /\ c \in Owned /\ MayDrop(c)
  /\ handle' = Put(handle, c, "dropped")
  /\ Unref(stack, c)
  /\ UNCHANGED <<a, held, stale, scheduled>>

\* The end of a borrow, which the borrow checker keeps out of the closure's
\* own invocations: state.a = 0, and the closure may go.
DropBorrowed(c) ==
  /\ c \notin Owned /\ Mine(c) /\ Code /\ Calls(c) = 0
  /\ handle' = Put(handle, c, "dropped")
  /\ a' = Put(a, c, FALSE)
  /\ env' = Put(env, c, "freed")
  /\ UNCHANGED <<cnt, held, registered, stale, scheduled, stack>>

\* forget keeps the function alive for good; into_js_value, and passing the
\* closure by value, leave it to JavaScript.
GiveAway(c, to) ==
  /\ c \in Owned /\ Mine(c) /\ Code
  /\ handle' = Put(handle, c, to)
  /\ UNCHANGED <<a, cnt, env, held, registered, stale, scheduled, stack>>

-----------------------------------------------------------------------------
\* The function, in JavaScript.

\* A borrowed closure has no look at the instance.  (Once a reset is scheduled,
\* only the host calls: see CurrentOnly in InstanceLifecycle for the rest.)
MayCall(c) ==
  /\ held[c] /\ Len(stack) < MaxDepth
  /\ c \in Owned => c \notin stale
  /\ Code \/ (Running("drop") /\ "call" \in Deeds)
  /\ scheduled => stack = <<>>

Made == {c \in Closures : handle[c] # "none"}

\* __wbg_call_guard, past which an export runs in a new instance if need be.
PassGuard ==
  /\ stale' = IF scheduled THEN Made ELSE stale
  /\ scheduled' = FALSE

\* Mutant: the environment is not kept while it runs.
Invoke_Uncounted(c) ==
  /\ MayCall(c) /\ a[c]
  /\ a' = IF c \in Mutable THEN Put(a, c, FALSE) ELSE a
  /\ stack' = Append(stack, Frame("call", c))
  /\ UNCHANGED <<cnt, env, handle, held, registered, stale, scheduled>>

\* real(...): compare the instance, count, take the pointer of a mutable
\* closure, and call the shim, an export, through its guard.  A pointer that is
\* zero makes the shim throw, and `finally` undoes both.
Invoke(c) ==
  /\ MayCall(c) /\ PassGuard
  /\ \/ /\ a[c]
        /\ cnt' = IF c \in Owned THEN Put(cnt, c, cnt[c] + 1) ELSE cnt
        /\ a' = IF c \in Mutable THEN Put(a, c, FALSE) ELSE a
        /\ stack' = Append(stack, Frame("call", c))
     \/ ~a[c] /\ UNCHANGED <<a, cnt, stack>>
  /\ UNCHANGED <<env, handle, held, registered>>

\* Mutant: the pointer is put back after the unref, which found it zero.
Leave_Late ==
  /\ Running("call")
  /\ LET c == Last(stack).of IN
       /\ a' = Put(a, c, TRUE)
       /\ cnt' = IF c \in Owned THEN Put(cnt, c, cnt[c] - 1) ELSE cnt
       /\ registered' = IF cnt[c] = 1 THEN registered \ {c} ELSE registered
  /\ stack' = Front(stack)
  /\ UNCHANGED <<env, handle, held, stale, scheduled>>

\* The invocation returns or throws; `finally` puts the pointer back and
\* releases the count.
Leave ==
  /\ Running("call")
  /\ LET c == Last(stack).of IN
       /\ a' = IF c \in Mutable THEN Put(a, c, TRUE) ELSE a
       /\ IF c \in Owned THEN Unref(Front(stack), c)
          ELSE stack' = Front(stack) /\ UNCHANGED <<cnt, env, registered>>
  /\ UNCHANGED <<handle, held, stale, scheduled>>

\* Mutant: the state is not unregistered.
Destroyed_Registered ==
  /\ Running("drop")
  /\ LET c == Last(stack).of IN env' = Put(env, c, "freed")
  /\ stack' = Front(stack)
  /\ UNCHANGED <<a, cnt, handle, held, registered, stale, scheduled>>

\* __wbindgen_destroy_closure returns: clear the pointer and unregister.  (Who
\* comes from the finalizer has neither to do; nothing refers to state then.)
Destroyed ==
  /\ Running("drop")
  /\ LET c == Last(stack).of IN
       /\ env' = Put(env, c, "freed")
       /\ a' = Put(a, c, FALSE)
       /\ registered' = registered \ {c}
  /\ stack' = Front(stack)
  /\ UNCHANGED <<cnt, handle, held, stale, scheduled>>

Forsake(c) ==
  /\ held[c] /\ Code
  /\ held' = Put(held, c, FALSE)
  /\ UNCHANGED <<a, cnt, env, handle, registered, stale, scheduled, stack>>

Garbage(c) == ~held[c] /\ (handle[c] \in {"js", "dropped"} \/ c \in stale) /\ stack = <<>>

\* Mutant: no look at the instance.
Finalize_Stale(c) ==
  /\ c \in registered /\ Garbage(c)
  /\ registered' = registered \ {c}
  /\ stack' = <<Frame("drop", c)>> /\ env' = Put(env, c, "dropping")
  /\ UNCHANGED <<a, cnt, handle, held, stale, scheduled>>

\* CLOSURE_DTORS calls back, as a task: destroy, unless the instance is gone.
Finalize(c) ==
  /\ c \in registered /\ Garbage(c)
  /\ registered' = registered \ {c}
  /\ IF c \in stale THEN UNCHANGED <<stack, env>>
     ELSE stack' = <<Frame("drop", c)>> /\ env' = Put(env, c, "dropping")
  /\ UNCHANGED <<a, cnt, handle, held, stale, scheduled>>

\* handler::schedule_reinit.
ScheduleReinit ==
  /\ Schedule /\ Running("call") /\ ~scheduled
  /\ scheduled' = TRUE
  /\ UNCHANGED <<a, cnt, env, handle, held, registered, stale, stack>>

\* __wbg_reset_state between two calls: called by JavaScript, or by the guard
\* of some other export.  What Rust held is gone, the functions remain.
Reset ==
  /\ Reinit \/ scheduled
  /\ stack = <<>>
  /\ stale' = Made /\ scheduled' = FALSE
  /\ UNCHANGED <<a, cnt, env, handle, held, registered, stack>>

Next ==
  \/ \E c \in Closures :
       \/ Make(c) \/ DropOwned(c) \/ DropBorrowed(c) \/ Invoke(c)
       \/ Forsake(c) \/ Finalize(c)
       \/ \E to \in {"leaked", "js"} : GiveAway(c, to)
  \/ Leave \/ Destroyed \/ ScheduleReinit \/ Reset

Spec == Init /\ [][Next]_vars

\* Invocations return, whatever they call before; destructors return; and the
\* host collects garbage in time.
FairSpec ==
  /\ Spec
  /\ \A k \in 1..MaxDepth : SF_vars(Leave /\ Len(stack) = k)
  /\ WF_vars(Destroyed)
  /\ \A c \in Closures : SF_vars(Finalize(c))
-----------------------------------------------------------------------------
TypeOK ==
  /\ a \in [Closures -> BOOLEAN]
  /\ cnt \in [Closures -> 0..MaxDepth + 1]
  /\ env \in [Closures -> {"none", "alive", "dropping", "freed"}]
  /\ handle \in [Closures -> {"none", "rust", "leaked", "js", "dropped"}]
  /\ held \in [Closures -> BOOLEAN]
  /\ registered \subseteq Owned /\ stale \subseteq Closures
  /\ scheduled \in BOOLEAN
  /\ stack \in Seq([op : {"call", "drop"}, of : Closures])

\* The count is exact: one for the handle, wherever it went, and one for each
\* invocation; it is what defers the destruction of a closure that runs.
CountExact ==
  \A c \in Owned : env[c] = "alive" =>
    cnt[c] = Calls(c) + (IF handle[c] = "dropped" THEN 0 ELSE 1)

\* No invocation runs in an environment that is dropped or being dropped.
NoUseAfterFree == \A c \in Closures : Calls(c) > 0 => env[c] = "alive"

\* An environment is destroyed once: not by its last invocation and its handle
\* both, not by a finalizer after either.
FreedOnce ==
  [][\A c \in Closures : env[c] \in {"dropping", "freed"} => Drops(c)' <= Drops(c)]_vars

\* Once its instance is replaced, no new invocation of an owned closure begins,
\* and no destructor: not by the host, a handle or the garbage collector.
StaleUntouched ==
  [][\A c \in Owned \cap stale : Calls(c)' <= Calls(c) /\ Drops(c)' <= Drops(c)]_vars

\* "Cannot invoke closure from previous WASM instance", says the glue: no code
\* of an owned closure runs while another instance than its own is current.
NoStaleCall == \A c \in Owned \cap stale : Calls(c) = 0

Contract == INSTANCE ClosureContract WITH
  life <- [c \in Closures |->
    CASE env[c] = "none" -> "unborn"
      [] env[c] = "alive" /\ handle[c] # "dropped" -> "live"
      [] env[c] = "alive" /\ handle[c] = "dropped" -> "closing"
      [] OTHER -> "dead"],
  calls <- [c \in Closures |-> Calls(c)]

\* The glue keeps the reference-counting contract.
ImplementsContract == Contract!Spec

\* A closure whose handle was dropped, or that JavaScript owns and forsook, is
\* destroyed in the end, unless its instance goes first.
NoLeak ==
  \A c \in Owned :
    (handle[c] = "dropped" \/ (handle[c] = "js" /\ ~held[c])) ~> (env[c] = "freed" \/ c \in stale)
=============================================================================
