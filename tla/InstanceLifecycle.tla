-------------------------- MODULE InstanceLifecycle --------------------------
(***************************************************************************)
(* Aborts and reinitialization of a wasm instance: the call guard, the     *)
(* catch of every exported function, the abort hook, __wbg_reset_state     *)
(* (cli-support/src/js/mod.rs), the wrapper around every import            *)
(* (cli-support/src/transforms/catch_handler.rs) and schedule_reinit.      *)
(*                                                                         *)
(* One thread; what interleaves is the JavaScript that calls exports and   *)
(* is called as an import.  A wasm frame belongs to the instance it was    *)
(* entered in, while the glue always means the current one.                *)
(***************************************************************************)
EXTENDS Naturals, Sequences, SequencesExt

CONSTANTS
  None,
  Settings,  \* sets of Features: builds, programs and hosts to consider
  MaxInstance, MaxDepth \* bounds: instances ever made, frames on the stack

\* Of the build.  catch: the module catches exceptions, aborts are detected.
\* unwind: panic=unwind, what JavaScript throws is no abort.  reinit:
\* generate_reinit.  Of the program.  healing: start registers an abort handler
\* that calls schedule_reinit.  reenter: an import calls back.  startFails:
\* start panics or aborts.  Of the host.  finalize: it collects garbage.  stop:
\* it writes the terminated flag.  reset: it calls __wbg_reset_state.
Features == {"catch", "unwind", "reinit", "healing", "reenter", "startFails",
             "finalize", "stop", "reset"}

ASSUME LifecycleAssumption ==
  /\ Settings \subseteq SUBSET Features
  /\ MaxInstance \in Nat \ {0} /\ MaxDepth \in Nat
  /\ None \notin {"js", "trap", "refused"}

Instances == 1..MaxInstance

VARIABLES
  setting,     \* the features at hand
  cur,         \* __wbg_instance_id, counted from 1: the instance `wasm` names
  terminated,  \* __instance_terminated, in each instance's memory
  calledAbort, \* __wbg_called_abort
  reinit,      \* __wbg_reinit_scheduled
  stack,       \* frames of wasm and of imports, the running one last
  exc,         \* the exception in flight: None, "js", "trap" or "refused"
  aborted,     \* history: the instances that trapped
  stopped,     \* history: the instances the host terminated
  hooks        \* history: calls of the abort hook in each instance, up to 2

history == <<aborted, stopped, hooks>>
vars == <<setting, cur, terminated, calledAbort, reinit, stack, exc, history>>

Init ==
  /\ setting \in Settings
  /\ cur = 1
  /\ terminated = [i \in Instances |-> FALSE]
  /\ calledAbort = FALSE /\ reinit = FALSE
  /\ stack = <<>> /\ exc = None
  /\ aborted = {} /\ stopped = {}
  /\ hooks = [i \in Instances |-> 0]

Has(feature) == feature \in setting
Frame(kind, i) == [kind |-> kind, inst |-> i]
Running(kinds) == stack # <<>> /\ Last(stack).kind \in kinds
InJS == exc = None /\ (stack = <<>> \/ Running({"import"}))
InWasm == exc = None /\ stack # <<>> /\ ~Running({"import"})
Here == Last(stack).inst
Room == Len(stack) < MaxDepth
MayCall == InJS /\ Room /\ (stack = <<>> \/ Has("reenter"))

Trap(i) == exc' = "trap" /\ aborted' = aborted \cup {i}

-----------------------------------------------------------------------------
\* The guard of an exported function.

Terminated(i) == Has("catch") /\ terminated[i]

\* __wbg_call_abort_hook, called from base.
CallHook(base, kind) ==
  /\ calledAbort' = TRUE
  /\ hooks' = [hooks EXCEPT ![cur] = IF @ < 2 THEN @ + 1 ELSE @]
  /\ reinit' = (reinit \/ {"reinit", "healing"} \subseteq setting)
  /\ stack' = Append(base, Frame(kind, cur))

\* Mutant: the new instance inherits the mark that the hook was called.
Reset_KeepsMark(base, kind) ==
  /\ cur < MaxInstance /\ cur' = cur + 1
  /\ reinit' = FALSE /\ UNCHANGED calledAbort
  /\ stack' = Append(base, Frame(kind, cur + 1))
  /\ exc' = None
  /\ UNCHANGED <<setting, terminated, history>>

\* __wbg_reset_state: a new instance, whose start runs on top of base.
Reset(base, kind) ==
  /\ cur < MaxInstance /\ cur' = cur + 1
  /\ reinit' = FALSE /\ calledAbort' = FALSE
  /\ stack' = Append(base, Frame(kind, cur + 1))
  /\ exc' = None
  /\ UNCHANGED <<setting, terminated, history>>

\* The instance is terminated and its hook was called: reinitialize or refuse.
Recover(base) ==
  \/ reinit /\ Reset(base, "start")
  \/ /\ ~reinit
     /\ exc' = "refused" /\ stack' = base
     /\ UNCHANGED <<setting, cur, terminated, calledAbort, reinit, history>>

Enter(base) == stack' = Append(base, Frame("export", cur))

\* JavaScript calls an exported function, and __wbg_call_guard decides.
Call ==
  /\ MayCall
  /\ \/ /\ Terminated(cur) /\ ~calledAbort
        /\ CallHook(stack, "guardHook")
        /\ UNCHANGED <<setting, cur, terminated, exc, aborted, stopped>>
     \/ Terminated(cur) /\ calledAbort /\ Recover(stack)
     \/ ~Terminated(cur) /\ reinit /\ Reset(stack, "start")
     \/ /\ ~Terminated(cur) /\ ~reinit
        /\ Enter(stack)
        /\ UNCHANGED <<setting, cur, terminated, calledAbort, reinit, exc, history>>

-----------------------------------------------------------------------------
\* Wasm on top of the stack.

\* handler::schedule_reinit, an import: it returns through its wrapper, which
\* traps in a terminated instance.
ScheduleReinit ==
  /\ InWasm /\ Has("reinit") /\ ~reinit
  /\ reinit' = TRUE
  /\ IF Terminated(Here) THEN Trap(Here) ELSE UNCHANGED <<exc, aborted>>
  /\ UNCHANGED <<setting, cur, terminated, calledAbort, stack, stopped, hooks>>

CallImport ==
  /\ InWasm /\ Room
  /\ stack' = Append(stack, Frame("import", Here))
  /\ UNCHANGED <<setting, cur, terminated, calledAbort, reinit, exc, history>>

MayFail == Running({"start", "reset"}) => Has("startFails")

\* unreachable, a stack overflow, out of memory, ...
Abort ==
  /\ InWasm /\ MayFail
  /\ Trap(Here)
  /\ UNCHANGED <<setting, cur, terminated, calledAbort, reinit, stack, stopped, hooks>>

\* A panic that unwinds, or throw_val: no abort.
Panic ==
  /\ InWasm /\ MayFail
  /\ exc' = "js"
  /\ UNCHANGED <<setting, cur, terminated, calledAbort, reinit, stack, history>>

\* The running frame returns to its caller: an export's caller is JavaScript;
\* after start the guard calls the export; after the hook the guard goes on.
Return ==
  /\ InWasm
  /\ \/ /\ Running({"export", "reset", "finalizer"})
        /\ stack' = Front(stack)
        /\ UNCHANGED <<setting, cur, terminated, calledAbort, reinit, exc, history>>
     \/ /\ Running({"start"})
        /\ Enter(Front(stack))
        /\ UNCHANGED <<setting, cur, terminated, calledAbort, reinit, exc, history>>
     \/ Running({"guardHook"}) /\ Recover(Front(stack))
     \/ /\ Running({"catchHook"})
        /\ stack' = Front(stack) /\ exc' = "trap"
        /\ UNCHANGED <<setting, cur, terminated, calledAbort, reinit, history>>

-----------------------------------------------------------------------------
\* JavaScript on top of the stack, called as an import.

Caller == stack[Len(stack) - 1].inst

\* Mutant: the wrapper looks at the flag when an exception arrives only.
ImportReturns_Unguarded ==
  /\ InJS /\ stack # <<>>
  /\ stack' = Front(stack)
  /\ UNCHANGED <<setting, cur, terminated, calledAbort, reinit, exc, history>>

\* The termination guard of the wrapper: a caller that was terminated while it
\* waited traps now.
ImportReturns ==
  /\ InJS /\ stack # <<>>
  /\ stack' = Front(stack)
  /\ IF Terminated(Caller) THEN Trap(Caller) ELSE UNCHANGED <<exc, aborted>>
  /\ UNCHANGED <<setting, cur, terminated, calledAbort, reinit, stopped, hooks>>

Throw ==
  /\ InJS /\ stack # <<>>
  /\ exc' = "js"
  /\ UNCHANGED <<setting, cur, terminated, calledAbort, reinit, stack, history>>

\* A try of the JavaScript code, or the event loop.
CatchInJS ==
  /\ exc # None /\ (stack = <<>> \/ Running({"import"}))
  /\ exc' = None
  /\ UNCHANGED <<setting, cur, terminated, calledAbort, reinit, stack, history>>

\* An exception leaves an import.  The wrapper's guard comes first.  A trap is
\* not for wasm to catch.  An error is stored for its caller if the import is
\* declared `catch`, and otherwise rethrown with a tag; with panic=abort it is
\* rethrown without, a critical error.
ImportThrows ==
  /\ exc # None /\ Running({"import"})
  /\ stack' = Front(stack)
  /\ \/ Terminated(Caller) /\ Trap(Caller)
     \/ /\ ~Terminated(Caller) /\ exc = "trap"
        /\ UNCHANGED <<exc, aborted>>
     \/ /\ ~Terminated(Caller) /\ exc # "trap"
        /\ \/ exc' = None /\ UNCHANGED aborted
           \/ (Has("unwind") \/ ~Has("catch")) /\ exc' = "js" /\ UNCHANGED aborted
           \/ Has("catch") /\ ~Has("unwind") /\ Trap(Caller)
  /\ UNCHANGED <<setting, cur, terminated, calledAbort, reinit, stopped, hooks>>

-----------------------------------------------------------------------------
\* An exception leaves a wasm frame.

\* Mutant: the hook is called from within the frame that trapped.
ExportThrows_KeepsFrame ==
  /\ exc = "trap" /\ Running({"export"}) /\ Has("catch")
  /\ terminated' = [terminated EXCEPT ![cur] = TRUE]
  /\ CallHook(stack, "catchHook")
  /\ exc' = None
  /\ UNCHANGED <<setting, cur, aborted, stopped>>

\* Mutant: the flag is left to the next guard.
ExportThrows_NoFlag ==
  /\ exc # None /\ Running({"export"})
  /\ \/ /\ exc = "trap" /\ Has("catch")
        /\ CallHook(Front(stack), "catchHook")
        /\ exc' = None
        /\ UNCHANGED <<setting, terminated, cur, aborted, stopped>>
     \/ /\ exc # "trap"
        /\ stack' = Front(stack)
        /\ UNCHANGED <<setting, cur, terminated, calledAbort, reinit, exc, history>>

\* __wbg_handle_catch: unwrap a tagged error; anything else terminates the
\* current instance and calls the hook, before it is thrown on.
ExportThrows ==
  /\ exc # None /\ Running({"export"})
  /\ \/ /\ exc = "trap" /\ Has("catch")
        /\ terminated' = [terminated EXCEPT ![cur] = TRUE]
        /\ CallHook(Front(stack), "catchHook")
        /\ exc' = None
        /\ UNCHANGED <<setting, cur, aborted, stopped>>
     \/ /\ exc # "trap" \/ ~Has("catch")
        /\ stack' = Front(stack)
        /\ UNCHANGED <<setting, cur, terminated, calledAbort, reinit, exc, history>>

\* __wbg_call_abort_hook catches what the hook throws.
HookThrows ==
  /\ exc # None
  /\ \/ Running({"guardHook"}) /\ Recover(Front(stack))
     \/ /\ Running({"catchHook"})
        /\ stack' = Front(stack) /\ exc' = "trap"
        /\ UNCHANGED <<setting, cur, terminated, calledAbort, reinit, history>>

\* start is called by the guard and a finalizer by the host: no try, no flag.
BareThrows ==
  /\ exc # None /\ Running({"start", "reset", "finalizer"})
  /\ stack' = Front(stack)
  /\ UNCHANGED <<setting, cur, terminated, calledAbort, reinit, exc, history>>

-----------------------------------------------------------------------------
\* The host.

Stop ==
  /\ Has("stop") /\ InJS /\ Has("catch") /\ ~terminated[cur]
  /\ terminated' = [terminated EXCEPT ![cur] = TRUE]
  /\ stopped' = stopped \cup {cur}
  /\ UNCHANGED <<setting, cur, calledAbort, reinit, stack, exc, aborted, hooks>>

\* __wbg_reset_state, exported by --experimental-reset-state-function.
ResetState ==
  Has("reset") /\ MayCall /\ Has("reinit") /\ Reset(stack, "reset")

\* A FinalizationRegistry frees an object of the current instance: the class's
\* free function or __wbindgen_destroy_closure, called without a guard.
Finalize ==
  /\ Has("finalize") /\ exc = None /\ stack = <<>> /\ Room
  /\ stack' = <<Frame("finalizer", cur)>>
  /\ UNCHANGED <<setting, cur, terminated, calledAbort, reinit, exc, history>>

Next ==
  \/ Call \/ ScheduleReinit \/ CallImport \/ Abort \/ Panic \/ Return
  \/ ImportReturns \/ Throw \/ CatchInJS \/ ImportThrows
  \/ ExportThrows \/ HookThrows \/ BareThrows
  \/ Stop \/ ResetState \/ Finalize

Spec == Init /\ [][Next]_vars
-----------------------------------------------------------------------------
Kinds == {"export", "import", "guardHook", "catchHook", "start", "reset", "finalizer"}

\* Types, and the shape of the stack: wasm and JavaScript alternate on it, from
\* the host up, and never grow beyond the bound.
TypeOK ==
  /\ setting \in Settings
  /\ cur \in Instances
  /\ terminated \in [Instances -> BOOLEAN]
  /\ calledAbort \in BOOLEAN /\ reinit \in BOOLEAN
  /\ stack \in Seq([kind : Kinds, inst : Instances])
  /\ exc \in {None, "js", "trap", "refused"}
  /\ aborted \subseteq Instances /\ stopped \subseteq Instances
  /\ hooks \in [Instances -> 0..2]
  /\ Len(stack) <= MaxDepth
  /\ \A k \in 1..Len(stack) : stack[k].kind = "import" <=> k % 2 = 0

\* What the guide promises of a terminated instance (handling-aborts.md): it
\* "cannot again execute", neither by a new call nor by a frame that was
\* waiting for an import, whichever way the import ends.  Only the hook runs.
DeadStaysDead ==
  InWasm /\ ~Running({"guardHook", "catchHook"}) => ~Terminated(Here)

\* "All aborts will set this flag", and nothing else does: once an abort is
\* caught, whoever caught it and however deep, no instance that trapped passes
\* for a live one; and an instance is poisoned only by an abort of its own or by
\* the host, not by a panic or by what is left over from an earlier instance.
PoisonExact ==
  /\ Has("catch") /\ exc = None => \A i \in aborted : Terminated(i)
  /\ \A i \in Instances : terminated[i] => i \in aborted \cup stopped

\* The mark __wbg_called_abort is about the current instance: a call is refused
\* only after the hook was called in the very instance that is refused.
HookBeforeRefusal ==
  /\ calledAbort <=> hooks[cur] > 0
  /\ exc = "refused" => hooks[cur] > 0
=============================================================================
