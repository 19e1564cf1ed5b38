# A formal model of the wasm-bindgen runtime

This directory holds TLA+ specifications of the parts of wasm-bindgen whose
correctness depends on order: who calls whom, when, and what was freed, queued,
locked, borrowed or reset in between.  The modules are checked with TLC on small
instances, and what they check of safety is proved with TLAPS for every
instance.  `PROJECT.json` maps each definition to the lines it models, lists the
runs, the hazards of the code and the theorems, and names for every property a
plausible bug of the code that breaks it (the `_`-suffixed "Mutant" operators
that stand next to the action they change; no specification uses them).

1. [The system](#1-the-system)
2. [Modules](#2-modules)
3. [How the modules correspond to the code](#3-how-the-modules-correspond-to-the-code)
4. [Runs, bounds and results](#4-runs-bounds-and-results)
5. [Fairness](#5-fairness)
6. [Proofs](#6-proofs)
7. [Disagreements found](#7-disagreements-found)
8. [Not modelled](#8-not-modelled)
9. [Plan](#9-plan)

## 1. The system

wasm-bindgen has two halves.  The command line tool (`crates/cli-support`)
rewrites a compiled wasm module and *generates* JavaScript glue.  The glue and
the Rust runtime linked into the module (`src/`, `crates/js-sys/src/futures`)
then call each other for as long as the page lives.  State and interleavings are
in the second half: this project models what the generated glue and the runtime
do, and leaves the generation itself to the repository's snapshot tests.

| Part | Source | State it keeps | Operations | Talks to |
|---|---|---|---|---|
| `executor` | `js-sys/src/futures/queue.rs`, `task/singlethread.rs` | run queue, `is_scheduled`; per task its future, `is_queued`, strong count | `spawn`, clone / wake / drop a waker, one `run_all` per microtask | host microtask queue, futures |
| `executor_threads` | `task/multithread.rs`, `task/wait_async_polyfill.rs`, `worker.js` | per task an atomic `state`, its future, its waiter; `HELPERS` pool | `spawn`, wake from any thread, `run`, `wait_async` | `Atomics.waitAsync` / `Atomics.wait`, workers |
| `instance_lifecycle` | `cli-support/src/js/mod.rs` (guard, handle-catch, reset), `binding.rs` (`wrap_try_catch`), `transforms/catch_handler.rs`, `src/rt/mod.rs`, `src/handler.rs` | current instance, `__instance_terminated`, `__wbg_called_abort`, `__wbg_reinit_scheduled` | call an export, return to wasm, catch an abort, abort hook, `schedule_reinit`, `__wbg_reset_state` | every exported function and every import |
| `closures` | `cli-support/src/js/mod.rs` (`makeClosure`, `makeMutClosure`), `binding.rs`, `src/closure.rs`, `src/convert/closures.rs` | `state.a`, `state.cnt`, `state.instance`, `CLOSURE_DTORS`, the handle | make, call, drop, forget, hand over, finalize | lifecycle (guard, resets), the garbage collector |
| `thread_start` | `cli-support/src/transforms/threads/mod.rs` | thread counter, lock of the temporary stack; per thread `__stack_alloc`, `__tls_base`, stack size | start, `__wbindgen_thread_destroy` | allocator, atomics |
| `js_future` | `js-sys/src/futures/mod.rs`, `stream.rs` | `Inner`: result, waker, callbacks, and its strong count; a stream's `next` and `done` | from a promise, settle, poll, pass on, drop; `future_to_promise`; `poll_next` | executor, closures, promises |
| `js_values` | `src/externref.rs`, `transforms/externref/mod.rs` (shims), heap helpers in `js/mod.rs`, `binding.rs` (`try`/`finally`) | free list in a slab or array, `stack_pointer` | add, clone, lend for a call, take, drop, reset | every value that crosses |
| `exported_classes` | class glue in `js/mod.rs`, `binding.rs`, `macro-support/src/codegen.rs`, `WasmRefCell`, `RcRef` in `src/rt/mod.rs`, `src/parent.rs` | `__wbg_ptr`, registration, `Rc` counts, borrow flags | wrap, call by reference, by value and async, `free`, finalize | lifecycle, the garbage collector |
| `runtime` | `src/rt/mod.rs` | `LazyLock` state, `GLOBAL_EXNDATA`, allocator | force, malloc / free, store an exception | all of the above |
| `interning` | `src/cache/intern.rs` | a map from strings to handles | intern, unintern, lookup | js_values |
| `test_runtime`, `test_runner` | `crates/test`, `crates/cli/.../wasm_bindgen_test_runner` | tests left and running; processes | poll; serve and drive a browser | executor |
| `transforms`, `bindgen`, `macros`, `bindings` | the rest of `crates/` | none at run time | generate code | |

### What is hard here

* **Re-entrancy on one thread.**  A future's poll may wake itself, spawn, drop
  the last waker or panic; a closure may be called, dropped and finalized while
  it runs; an import may call an export below a frame that waits for it.
* **Real concurrency.**  A wake from another thread is an atomic swap *and then*
  a notify; the home thread polls, falls asleep and waits in between.  Threads
  start and end on one temporary stack behind a hand-written futex lock.
* **Partial failure.**  A panic leaves `run_all` with a half-run batch, an abort
  leaves a borrow that is never given back, a trap leaves an instance that must
  never run again, `malloc` may fail with a lock held, and an exception skips the
  drops of the anchors that a call took, or the end of the shim it passes.
* **Replacement.**  `__wbg_reset_state` exchanges the instance under JavaScript
  objects that point into the old one.
* **Late answers.**  A promise settles before, between and after polls, when its
  future has moved to another task or is gone; a finalizer runs any time later;
  an async method begins a microtask after it was called.
* **Exact counting by hand.**  `Rc` counts behind raw wakers, behind class objects
  and behind two closures that own each other; `state.cnt` behind `finally`; a
  free list threaded through indices; sizes handed to `free`.

### What makes each part correct

| Part | Properties |
|---|---|
| executor | No wake is lost; a task is queued at most once; the host owes a tick exactly when `is_scheduled` says so; strong counts are exact; a tick ends; every task that is due is polled |
| executor_threads | A wake reaches a task between its swap and its wait; a task is in exactly one place; nothing trips the `debug_assert`; a helper serves one task |
| instance_lifecycle | A terminated instance never executes again; what aborted is flagged and only that; the hook is called before anyone is refused |
| closures | No environment is used after or dropped during its destruction, none is freed twice or leaked; `&mut` is not aliased; an old instance's closures are left alone |
| thread_start | The lock excludes, and no waiter is forgotten; no two threads share a stack; every block is freed once with its size |
| js_future | Callbacks are there whenever the host may call one; the cycle of state and closures is broken; each await gets its value once, a stream its values in order; nobody waits for what has settled |
| js_values | An index stands for its value until it is given back; free slots hold nothing and are found again; the stack pointer is where the lent slots end |
| exported_classes | One writer or any number of readers have a value; a cell lives exactly as long as it is counted; what is given back is freed with its ancestors |

`PROJECT.json` lists the hazards behind these at their lines, with the
properties that cover them, and says of the others why no property does yet.

## 2. Modules

| Module | What it is |
|---|---|
| `TaskContract` | Abstract specification: what any executor promises a future |
| `SingleThreadExecutor` | The queue and its tasks, without threads; implements `TaskContract` |
| `SingleThreadExecutorProofs` | Its invariants and the refinement, proved |
| `AtomicTask` | The tasks of builds with threads; implements `TaskContract`, fairness included |
| `AtomicTaskProofs` | Its invariants and the refinement, proved |
| `InstanceLifecycle` | Guards, aborts, resets |
| `InstanceLifecycleProofs` | Its invariants, proved |
| `ClosureContract` | Abstract specification: one count shared by the handle and the calls |
| `Closure` | The glue of closures; implements `ClosureContract` |
| `ClosureProofs` | Its invariants and the refinement, proved |
| `ThreadStart` | Start and destruction of threads |
| `ThreadStartProofs` | Its invariants, proved |
| `JsFuture` | Promises awaited by Rust, futures awaited by JavaScript, streams; *uses* `TaskContract` as its executor |
| `JsFutureProofs` | Its invariants, proved |
| `HandleContract` | Abstract specification: an index names one value until it is given back |
| `JsValues` | The slab of externrefs and the heap of the glue; implements `HandleContract` |
| `JsValuesProofs` | Its invariants and the refinement, proved |
| `ExportedClass` | Rust values behind JavaScript classes, their counts and borrows |
| `ExportedClassProofs` | Its invariants, proved |
| `MC...` | The instances TLC checks, one per specification |

`TaskContract` is one specification for two implementations and one client: a
future cannot tell which executor runs it.  `JsFuture` takes its steps
(`Exec!Spawn`, `Exec!Wake`, `Exec!Poll`, ...) as the executor's half of its own
actions, so that what is checked of futures there holds on both executors, whose
modules show that they keep the contract.  The composition of the other parts is
by interface too: a panic in a poll is `PollUnwinds` in the executor whatever the future was; `Closure`
contains of the lifecycle what a closure meets of it (the guard that its shim
passes, and the resets); `AtomicTask` contains the run queue with its ticks, whose
counts and wakes `SingleThreadExecutor` has.

## 3. How the modules correspond to the code

Names are the code's where there is one: `spawn`, `schedule_task`, `run_all`,
`raw_wake_by_ref`, `alloc_helper`, `free_helper`, `malloc`, `free`.  A JavaScript
or Rust function that nothing can interrupt is one action; one that calls code
that may do anything (a poll, a body, a destructor, an import) is split there;
code that runs beside another thread is split at every access to shared memory.

### SingleThreadExecutor

| Variable | Code |
|---|---|
| `tasks`, `isScheduled` | `QueueState.tasks`, `is_scheduled` |
| `microtasks` | how often the closure of `Queue` was handed to `queueMicrotask` (or `Promise.then`) and not yet called |
| `inner` | `Task.inner`: `Some`, `None`, or `"stuck"`, a `RefCell` whose borrow an aborted poll left behind |
| `isQueued`, `rc` | `Task.is_queued`, the strong count of the `Rc` |
| `clones` | clones of the `RawWaker` in user code's hands |
| `pc`, `current`, `left` | the stack of `run_all`: between tasks or in a poll, the task, `task_count_left` |
| `abandoned` | history, for properties only: the last `run_all` did not get through |

`run_all` is `BeginTick` (clear the flag, count the batch), then per task `Pop`
with one of `BeginPoll`, `RunFinished`, `RunStuck`, then one of the four ways a
poll ends, then `EndTick`.  User code is free: in `"js"` and inside any poll it
may spawn, and clone, wake and drop every waker it has, in any order.

### AtomicTask

`state` is `AtomicWaker.state`; `Swap` and `Notify` are the two halves of
`wake_by_ref`, and other threads' steps lie between them.  `Resume` is the
closure that a resolved promise calls (it wakes the task itself and calls
`run`), `FallAsleep`, `PollPending`, `PollReady`, `PollUnwinds` the loop of `run`
and its `ClearOnUnwind`, and the wait is `WaitAsync` / `WaitAsyncNotEqual` natively or `PostToHelper`, `HelperWaits`,
`OnMessage` with the polyfill.  `waiters`, `posted`, `answered`, `resolved`
count what is under way at each station.  `BeginTick`, `FirstRun`, `EndTick` are
the `run_all` of the queue, with `isScheduled`, `inTick` and `left` (its flag, its
place on the stack, `task_count_left`): a task goes through it for its first run
only, since no wake with threads touches the queue.  A poll that unwinds inside a
tick takes `run_all` off the stack too, which the history variable `abandoned` records.
`host` says which of the two waits the
host has; it is chosen in `Init`, so that one run checks both.  The tasks' wakers
are held by `Wakers`, which stand for threads, callbacks and other futures alike.

### InstanceLifecycle

`stack` is the stack of wasm frames and imports with the instance each runs in;
`exc` the exception in flight.  `Call` is `__wbg_call_guard` with its four
outcomes; `ImportReturns` and `ImportThrows` are the termination check and the
catch of an import's wrapper; `ExportThrows` is `__wbg_handle_catch`; `CallHook`
and `HookThrows` are `__wbg_call_abort_hook`; `Reset` is `__wbg_reset_state`,
whose start runs as a frame of its own.  `BareThrows` is an exception from wasm
that was entered with no `try` around it: a start during reinitialization, or a
finalizer.  `setting` says what the build, the program and the host are capable
of (the comment at `Features`).

### Closure

`a`, `cnt` are the fields of `state`; `registered` is `CLOSURE_DTORS`; `stale`
the closures whose `state.instance` is not the current one; `handle` where the
`ScopedClosure` went; `env` the closure's own memory; `stack` the invocations
and destructors that are running.  `Invoke` and `Leave` are `real(...)` before
and after its call of the shim, `Unref` is `_wbg_cb_unref`, and `Destroyed` what
follows the return of `__wbindgen_destroy_closure`.  While a destructor runs,
the `Drop` of a captured value may itself drop or call closures (`Deeds`).
Owned and borrowed closures, `Fn` and `FnMut`, are one module because they meet
on one stack.

### ThreadStart

`counter` and `lock` are the two words in shared memory, `stackAlloc`, `tlsBase`,
`stackSize` the globals of each instance, `live` and `misfreed` the allocator as
seen from outside.  `TryLock`, `Wait`, `Critical`, `Unlock`, `Notify` are the
instructions of `with_temp_stack`, one action per access to shared memory; `Jam`
is the trap of `malloc_failure` inside it.  `DestroySelf` and `DestroyOther` are
the two ways to call `__wbindgen_thread_destroy`; the second takes the branch
that the value of `__stack_alloc` picks, as the injected code does.

### JsFuture

`state[f]` has the fields of `Inner` (`callbacks`, `result`, `task`), the strong
count of its `Rc`, who has the handle, and what the properties need to look back
(`called`, `polled`, `awaiter`).  `From` makes the three owners of the state, the
handle and the two closures, which the state itself owns: a cycle, which
`finish` breaks when the host calls either closure.  `Polled` is `poll`, with its
two outcomes.  `CallNext`, `CallThrows`, `PollNext` are the paths through
`JsStream::poll_next`, `Finish` is the wrapper of `future_to_promise` around a
future that ends or unwinds, `Abort` a panic that nobody hears of.  The strings
`"ok"`, `"err"`, `"end"` stand for values; `"end"` is an `IteratorNext` with `done`.

### JsValues

`mode` is the build.  The slab is `link` (`Slab.data`), `len`, `cap`, `head`
(`Slab.head`); in heap mode `heap` and `heap_next` are the same list, whose slots
hold either a value or a link: `cell` is the value and `link` the link.  Indices
are the code's: the stack is below `Top`, the constants from there to `Base`, the
slab above.  `Own`, `CloneRef`, `Release` are `alloc`, `clone_ref`, `dealloc` with
the `table.set` that belongs to each.  `Enter`, `Return`, `Throw` are the shim
of an export in one mode, the `try` and `finally` of the glue in the other, and
differ as those do: the shim restores `stack_pointer` from its frame, `finally`
counts it up from where it is.  `Overflow` and `Refuse` are calls that never begin.
`names` is not in the code: it is what Rust takes its indices for.

### ExportedClass

`cell`, `strong`, `borrow` are the `Rc<WasmRefCell>` of each value; `object` the
JavaScript object around it.  A `parent` is a value inside another value, whose
cell a child owns and whose object a child also is (`src/parent.rs`).  A value is the
parent part of one child, as it is where a child is made with its parent; that two
children share one through `Parent::clone` is not modelled, and the assumption that
`parent` is injective says so.  `Line` is a value with all its ancestors, the least set
that is closed under `parent`.  `Take` and `Drop`
are the constructors and destructors of `RcRef` and `RcRefMut`; `Enter` and
`Return` a call with its anchors, `Fails` one whose conversions throw at the
first argument that is refused.  `GiveBack` is `free()` and a call by value,
which differ in what is done with the value only; `Finalize` is the
`FinalizationRegistry`.  `lost` collects the anchors and counts whose drop an
exception skipped: the code leaks them, and the invariants count them in.
`Call`, `Begin`, `End` are an async method, which takes its anchor in the first
poll of its future.

## 4. Runs, bounds and results

| Run | Instance | Shows | Distinct states |
|---|---|---|---|
| `executor` | 3 tasks, 1 clone each, polls may unwind or abort | 5 invariants, the refinement, 2 liveness properties | 42 085 |
| `atomic` | 2 tasks, 2 wakers, both hosts, 2 helpers, a pool of 1 | 4 invariants, the refinement with fairness | 77 842 |
| `lifecycle` | 4 settings, up to 4 instances, 6 frames | 4 invariants | 16 372 |
| `closure` | an `Fn`, an `FnMut`, a borrowed `FnMut`, 3 frames, resets of both kinds | 2 invariants, 2 action properties, the refinement, no leak | 60 608 |
| `thread_start` | 3 threads, 5 blocks, 2 sizes, failing `malloc` | 4 invariants, termination | 101 506 |
| `js_values` | both builds, 2 values, a stack of 3, a slab of 3, calls with up to 2 borrowed arguments | 3 invariants, the refinement | 46 874 |
| `js_future` | 2 tasks, a foreign promise, a stream of 2 calls, 2 JsFutures made | 3 invariants, liveness of awaits | 298 869 |
| `exported_class` | a class and its parent, calls 2 deep with up to 2 arguments, 1 async call, 1 lost anchor, both builds | 3 invariants, no leak | 30 944 |

The other runs (`closure_stale`, `closure_drop_calls`, `js_values_refuse`,
`class_async`) each refute one property that a comment or a guide states; see
section 7.

**Why the bounds are enough to meet the cases.**
*executor*: three tasks are the smallest batch with a task before, at and behind
the one that fails; one clone per task lets a waker outlive its task (the
context's waker comes on top), and the proofs remove both bounds.
*atomic*: two wakers race one another and the home thread on one task; two tasks
compete for helpers; a pool of one makes `free_helper` truncate (the source keeps
ten).  *lifecycle*: six frames are three nested calls of export and import; four
instances let a self-recovering handler abort in the instance that replaced
an instance that replaced another.  The settings are combined so that each
interaction occurs (`MCInstanceLifecycle`), not as a full product; calls nest
where no reset can fall between them, because a nested reset already breaks what the
guide promises (section 7), and `start` fails only where no flag is promised.
*closure*: three frames are a closure that calls itself through another; `Deeds`
is `{"drop"}`, since a captured value that *calls* while it is dropped is finding
`closure_drop_calls`.  *thread_start*: three threads make one sleep while another
holds the lock and a third is about to notify; five blocks let each of the two
threads that allocate have its stack and all three their thread-local memory.
Here the first thread is never destroyed (section 7).
*js_values*: two calls with two and one borrowed arguments fill the stack, so that
a third is refused; three slots are grown into in two steps (by `Chunk`, then by
the length), and freed and reused in every order.  A chunk of one makes the
first growth happen twice, where the source starts with 128.  *js_future*: two
tasks can await each other and pass a future between polls; two calls of `next()`
show their order; two JsFutures are enough for one that is dropped while another
is polled.  *exported_class*: a child has two cells to count; two arguments meet
each other and a nested call's; one lost anchor leaves the other cell's counts to
be checked after it.

**Deadlock** is checked in `js_values`, where something can always be done.  In the
other runs the system may come to rest (every future finished, every closure
freed, every thread at rest, every object gone), or the bound on instances leaves
a call waiting.  That nothing rests that should go on is what the liveness
properties say.

### The properties in a sentence each

* `WakeNotLost`: while a task lives, a set `is_queued`, for which a wake is
  ignored, means that the task really is on the queue.
* `TickOwed`: `is_scheduled` is exact, and no queued task waits for a tick that
  nobody scheduled, unless a panic abandoned its tick.
* `CountsExact`: each task's strong count is the number of its owners, so that no
  waker is used after its task was freed (`NoUseAfterFree` follows) and nothing
  leaks but what an abort leaves.
* `PolledUnlessAbandoned`, `TickEnds`: liveness of the queue; a batch that a panic
  left behind is run as soon as anything asks for a tick again; a future that wakes
  itself in every poll starves neither the host nor the other tasks.
* `OneActivation`: a live task is queued, or running, or waiting, or about to be
  called back: one of them, and once.  A finished task is nowhere.
* `AwakeBeforePoll`: the `debug_assert` in `Task::run`.
* `HelperExclusive`: no request goes to a worker that is blocked for another.
* `ImplementsFairContract`: with threads as without, a task that was woken is polled
  again: no wake is lost between swap, notify, check and wait.  Excused is a task
  that waits for its first run in a queue that an unwinding poll left, with no tick
  asked for ever since (`LeftBehind`).
* `DeadStaysDead`, `PoisonExact`, `HookBeforeRefusal`: the guide
  `handling-aborts.md`, on every path by which control can enter wasm, return to
  it, or leave it.
* `CountExact`, `FreedOnce`, `StaleUntouched`, `NoLeak` (`Closure`) and its
  `ImplementsContract`: memory safety of closures, including those that drop
  themselves while they run, and those that the collector and a reset race for.
  That no invocation runs in a freed environment, and that no `FnMut` is entered
  twice, is part of the contract.
* `StacksSeparate`, `NoWaiterForgotten`, `FreesExact`, `StartsEnd`: the injected
  start and destroy code.
* `HandlesHold`, `NothingKept`, `ImplementsContract` (`JsValues`): what an index that
  is out stands for; that a value given back is not kept alive; that
  `live_count`, which walks the free list, counts the indices that are out.
* `CallbacksValid`: until the host has called back, both closures are there and
  the result is not, as `finish` asserts; afterwards the cycle is gone.
* `Delivered`: one await, one value, of its own promise; a stream yields its calls'
  values in order and nothing after the last.
* `AwaitEnds`: whoever polled last and found nothing is polled again once the
  promise has settled, on whatever task the future is by then.
* `CountExact`, `NoAliasing`, `NoLeak` (`ExportedClass`): each cell's count is the number
  of its owners, its borrow flag says who is in it, and an object that was given
  back is freed with its ancestors unless an exception lost an anchor on it.

## 5. Fairness

* `SingleThreadExecutor`: `WF(run_all)`.  The host runs the microtasks it was
  given and Rust's loop proceeds; a poll that does not return is outside the
  contract of futures.  User code owes nothing: it need not wake anything.
* `AtomicTask`: weak fairness for code that is on a stack already (`Running`), for
  a thread between swap and notify, and for workers; strong fairness per callback
  (`BeginTick`, `Resume(t)`, `OnMessage(t)`), because each is enabled only when the
  home thread is idle and event loops serve callbacks in order.  `BeginTick` needs
  `is_scheduled`: nothing runs a queue for which no tick was asked.  A native host
  gives no such order to a future that wakes itself in every poll and so never
  leaves `Task::run`: then the home thread is never idle, strong fairness asks
  for nothing, and `ImplementsFairContract` promises nothing (section 7).
* `Closure`: invocations and destructors return (`SF` for `Leave` at each depth, as
  calls nest in between), and the collector gets to every function nobody holds
  (`SF(Finalize)`).  JavaScript does not promise the latter; `NoLeak` thus says
  that collection is *enough*, not that it happens.
* `ThreadStart`: weak fairness per thread.  The lock admits barging, but each
  thread asks for it at most twice, so nobody waits forever.

* `JsFuture`: `SF(Poll(t))`, which is what the executors are shown to give
  (`PolledUnlessAbandoned`; a strand after an unwinding poll is section 7);
  polls return; and the host calls back what has settled once the stack is empty.
* `ExportedClass`: calls return or throw (`SF` per depth, as above), a future that
  was made is polled and ends, and the collector comes in time (`SF(Finalize)`; the
  same reservation as for closures).

`InstanceLifecycle` has no liveness property: aborts stop things.  `JsValues` has
none because nothing in it waits.

## 6. Proofs

The invariants and action properties that the passing runs check, and the
refinements, are proved, liveness apart.  In obligations: `SingleThreadExecutorProofs`
about 920, `ThreadStartProofs` 460, `JsValuesProofs` 2020, `AtomicTaskProofs` 1340,
`InstanceLifecycleProofs` 1360, `ClosureProofs` 1520, `JsFutureProofs` 940,
`ExportedClassProofs` 2210, checked from nothing in some minutes each at most.  They
hold for every set of tasks, threads, wakers, helpers, promises, closures, objects or
values, every bound on clones, slots, instances, calls and frames, every choice of
stack sizes and of ancestors.

**Executor.**  The inductive invariant `IInv` is the conjunction of the checked
invariants with two more parts.  `StackOK` ties the ghost of the stack to the
tasks: in a poll the current task's future is alive, a task that was never
spawned is on no queue and has no waker, and a stuck task's leaked references
cover what is still counted.  Without it the step `PollReady`, which takes two
from `rc`, could not be shown to leave the count exact.  `BatchOnQueue` says that
`task_count_left` never exceeds the queue (the `None` arm in `run_all` is dead).
The lemmas `AppendToQueue` and `PopFromQueue` state what the two operations do to
the set of queued tasks and to its injectivity; every other step argues about that
set only.  From `IInv`:

| Theorem | States |
|---|---|
| `TypeCorrect`, `NoWakeIsLost`, `NoTaskQueuedTwice`, `ATickIsOwed`, `ReferencesCounted` | `Spec => []` of `TypeOK`, `WakeNotLost`, `QueuedOnce`, `TickOwed`, `CountsExact` |
| `Refinement` | `Spec => Contract!Spec`: under the mapping `TaskState` every step is a step of `TaskContract` or a stutter.  `StackOK` gives that no task is polled inside a poll, `WakeNotLost` and `QueuedOnce` that what is popped was woken |

**Threads.**  `LockInv` is inductive alone: types, `LockHeld` (somebody on the
temporary stack implies `lock = 1`, and there is one at most) and
`NoWaiterForgotten`.  It gives `TypeCorrect`, `NoLostWakeup` and
`TempStackExclusive` with no assumption.  `StacksStaySeparate` and
`BlocksFreedExactly` assume `FirstToo = FALSE`, that nobody destroys the first
thread, and need `IInv`: thread ids differ (`IdsDiffer`), the first thread never
enters the lock (`FirstSpared`), and the blocks the threads own are allocated in
their size and pairwise different (`BlocksOwned`).  The ownership predicates
`HasStack` and `HasTls` follow a block from the instruction that allocates it to
the one that frees it.

**Tasks of builds with threads.**  `IInv` of `AtomicTaskProofs` is `TypeOK`,
`OneActivation`, `HelperExclusive` and three parts more.  `Awake`: whoever is about to
run, is queued, or was never spawned is `AWAKE`.  This is what `AwakeBeforePoll`
needs on every way to `run`: from the queue, where nobody has put the task to
sleep yet, and from a callback, which wakes it first.  `QueuedOnce` makes the
head of the queue the only copy, so that `OneActivation` survives the first run, and
`NativeAlone` says that no request is under way on a host that needs none.

| Theorem | States |
|---|---|
| `TypeCorrect`, `AlwaysAwake`, `ActivatedOnce`, `HelpersExclusive` | `Spec => []` of `TypeOK`, `AwakeBeforePoll`, `OneActivation`, `HelperExclusive` |
| `Refinement` | `Spec => Contract!Spec`, the safety part of `ImplementsFairContract`; from `OneActivation` that only one task is polled, and that what runs is not done |

**JavaScript values.**  `IInv` of `JsValuesProofs` describes the free list without
its order, which needs no induction over the list: `FreeList` says that the head is
free or the end, that the link of a free slot is free or the end and never the
head, and that no two links agree.  Taking the head out, putting a slot in front
and growing at the end preserve that, and it is all an allocation needs, a slot
that nobody has.  `StackShape` says that calls lend disjoint slots, one below the other, at
or above `stack_pointer`, in the glue without gaps: so what a return paves over is
its own.  From these `HandlesAlwaysHold` and `Implements` (every step is one of
`HandleContract`) follow.  They assume `Calm`: in heap mode no conversion throws
between two pushes.  Without it `finally` pops more than was pushed
(`js_values_refuse`).

`NothingStays` needs the order after all, since `live_count` walks the list.  `KInv`
adds to `IInv` that slots nobody has hold nothing (`Vacated`) and that the slots can be
ranked (`Chained`): every slot ever used ranks one above the slot its link names, the
end ranks 0, free slots not below it, and the head as high as there are free slots.
What is out keeps the link of its last stay on the list.  So taking the head out moves no
rank, putting a slot in front shifts that slot with what is out and leads to it, and
never a free one, and growth ranks every slot one higher.  From the ranks, that the walk ends at the end and counts the free slots is
`WalkEnds`: of the slots the walk would count wrongly take one of the lowest rank
(`LeastOf`, from the library's theorem that the naturals are well-founded), and its link
is a lower one.  A least counterexample stands for the induction that the provers
do not do.

| Theorem | States |
|---|---|
| `TypeCorrect`, `HandlesAlwaysHold`, `NothingStays` | `Spec => []` of `TypeOK`, `HandlesHold`, `NothingKept` |
| `Implements` | `Spec => ImplementsContract` |

**Instances.**  `IInv` of `InstanceLifecycleProofs` adds three parts to the checked
invariants.  `Frames`: every frame is of the current instance, and a hook's
instance is terminated and marked.  `InFlight`: an abort that is not flagged
flies, and the frame it is about to leave is an export, whose catch will flag it.
`Ahead`: nothing happened yet in instances to come.  The lemmas `StackPushed`,
`StackPopped` and `StackKept` carry `Frames` through whatever an action does to the stack,
`Replaced` does so for a reset, and `Rest` leaves two facts per action to be shown.
`TypeCorrect`, `DeadStayDead`, `AbortsFlagged` and `HooksFirst` follow, of `TypeOK`,
`DeadStaysDead`, `PoisonExact` and `HookBeforeRefusal`.  They assume `Watched`, which
each setting of the run satisfies: an import that calls back and
`generate_reinit` do not meet (a reset below an import), and where aborts are detected
`start` does not fail, no finalizer runs, and reinitialization comes with
`panic=unwind`, so that what an import throws is no abort of `start`.  Each is a
disagreement of section 7: the invariants are false without them.

**Closures.**  `IInv` of `ClosureProofs` says of every closure (`Well`) what its handle,
its environment, `state.a`, its invocations and its destructors on the stack are to one
another: a call means that the environment is alive, a destructor that it is
being dropped; the count is the calls plus one for the handle; an `FnMut` that runs
has `state.a` cleared.  `DropsOnTop`, that above a destructor there are only
destructors, carries it over the nested drops of captured values: whoever returns
into a call finds its environment alive.  The counts are cardinalities of sets of
positions on the stack; `CountType`, `CountAppend` and their like state what a push and a
pop do to them, and the actions cite no more.  All of it assumes `Quiet`, that no
captured value *calls* the function when it is dropped; without it `NoUse` is false
(`closure_drop_calls`).

| Theorem | States |
|---|---|
| `TypeCorrect`, `CountsExact`, `NoUse` | `Spec => []` of `TypeOK`, `CountExact`, `NoUseAfterFree` |
| `DestroyedOnce`, `StaleLeftAlone` | the action properties `FreedOnce`, `StaleUntouched` |
| `Refinement` | `Spec => ImplementsContract`: every step is one of `ClosureContract` or a stutter |

**Futures.**  `IInv` of `JsFutureProofs` says of every JsFuture (`Sound`) that it knows
nothing before the host called back, that afterwards it has its promise's outcome until a
poll took it, and that the count is two for the closures and one for the handle.
`SettledByEnd` ties the promise of a task to its end.  `LastCall` and `Yielded` are what a
stream needs: the call it waits for is the last one made, its JsFuture is the
stream's own, and the outcomes so far are `"ok"` while it lives.  Lemmas state field by
field what an operation does to the record (`FromSound`, `LessFields`); the provers
follow those better than `EXCEPT`.  With no assumption, `TypeCorrect`,
`CallbacksStayValid`, `OutcomesDelivered` are `Spec => []` of `TypeOK`, `CallbacksValid`,
`Delivered`.

**Classes.**  The proof has two layers.  `Core`, the shapes of the variables and the
meaning of the borrow flag (`Flags`), is inductive whatever JavaScript does, and gives
`NoAlias` (`NoAliasing`) with no assumption: even a pointer into a cell that is
gone would be guarded by its flag.  Over it, `IInv` has `Tally`, each count is the
anchors that hold the cell plus one for an object and one for a child, and a cell is
alive as long as it is positive; `Made`, a value is made with its ancestors; and
`Waiting`, an object with an async call that has not begun was not given back.  A drop may
free a cell, which gives up its parent's, and so on up: `DropCounts` is a
fixed point over the line, and `LineFacts` gives that a line's values have one child in it
each, so that every cell loses one count from below at most.  From `IInv` follow
`TypeCorrect`, `CountsExact` and `PointersStayValid`, of `TypeOK`, `CountExact`,
`PointersValid`.  They assume `~Early`: JavaScript gives no object back whose async call
waits for its first poll.  With it, `PointersValid` is false (`class_async`).

**Assumptions** are otherwise those stated with the constants: `None` is no task,
sizes are positive, `MaxClones` is positive, `Null` is no address, the values of
`JsValues` differ from its constants, promises are neither `None` nor the stream, no value
is the parent part of two, async calls are finitely many.  TLC evaluates them.
`Calm`, `FirstToo = FALSE`, `Watched`, `Quiet` and `~Early` are hypotheses of theorems, not
assumptions: each is met by the passing run of its module, and what happens without
it is recorded in section 7.

**Only model-checked** is liveness, since fairness and `ENABLED` are beyond the prover:
`PolledUnlessAbandoned`, `TickEnds`, `StartsEnd`, `AwaitEnds`, both `NoLeak`, and of
`ImplementsFairContract` the fairness (its safety part is `Refinement`).

## 7. Disagreements found

These have a run that shows them and an entry with the quoted line in
`PROJECT.json`.

| Run | What happens |
|---|---|
| `closure_stale` | `real()` looks at the instance before the guard of the shim replaces it, so that the first call after `schedule_reinit` may run an old closure in the new instance |
| `closure_drop_calls` | `state.a` is cleared after the destructor; a `Drop` that calls the function enters the environment that is being dropped |
| `js_values_refuse` | In heap mode `finally` pops a borrowed argument that a conversion before it kept from being pushed: `stack_pointer` ends above where it was |
| `class_async` | An async method called on an object that is freed before its future is first polled counts a cell that is gone |

The models reach these too; they have no run of their own, and the configurations
above keep clear of them where a property would fail only because of them.

*Executors.*  A poll that unwinds leaves the rest of its batch queued with no tick
scheduled until some later spawn or wake, although a future "will always be run
on the next microtask tick" (`futures/mod.rs:87`): `abandoned` in `TickOwed`,
`LeftBehind` in `PolledUnlessAbandoned`.  (TLC refutes `AlwaysRun`, which is that sentence
without the excuse, with two tasks.)  With threads it takes a later *spawn*, as wakes do not touch the queue there
(`multithread.rs:29-46`): `LeftBehind` in `ImplementsFairContract`.  Only tasks that wait for
their first run can be stranded then.  With `Atomics.waitAsync` a future that
wakes itself in every poll loops inside `Task::run` and starves tasks spawned
meanwhile, although `multithread.rs:181` speaks of the next microtask queue.  A
`post_message` that throws rejects a promise of which only the resolution is
awaited, so its task hangs; a worker that is terminated between swap and notify
loses the wake (no action models either).

*Lifecycle.*  A call made below an import performs a scheduled reset under the
export that waits for that import, although "the current call completes normally
and the reset happens on the next export call" (`handling-aborts.md:79-80`); after
it `__wbg_handle_catch` writes the flag of the old frame's trap into the new
instance.  A `start` that aborts during reinitialization leaves its instance
unflagged, although "all aborts will set this flag" (`handling-aborts.md:30`).  Every
export frame that an abort passes calls the hook again.  Finalizers of classes
and closures enter a terminated instance, as they have no guard.

*Closures and futures.*  An `Fn` closure that is dropped while it runs can still be
called until it returns.  Borrowed closures are not compared with the instance.
A thenable that calls back synchronously, in its `then`, finds `callbacks` unset in
`finish`.  A JsFuture that is polled again after its value was taken hangs, and one
whose promise never settles is never freed.

*Threads.*  A leader that destroys the first thread by its globals passes
`stack_alloc = 0`, which means "myself", and so frees its own stack
(`threads/mod.rs:134-136` allows it); the first thread that destroys itself frees address 0
(both reachable with `FirstToo`).  A `malloc` failure in `with_temp_stack` keeps the
lock for good (`Jam`, excluded from `StartsEnd`).

*Values and classes.*  Each exception that passes the shim of an export leaves its
externref slots taken and their values alive (`transforms/externref/mod.rs:546-551`
says they are paved over "on function exit").  A `free()` that is refused
because the object is in use has by then cleared the pointer and the registration:
the value is leaked, although all memory is to be cleaned up by
`FinalizationRegistry` (`weak-references.md:18`).  A null argument, or with
`panic=abort` a refused borrow, leaks the anchors that were taken before it,
their borrow flags included (`tests/wasm/classes.js:48-54` acknowledges the
latter).  `free()` does not look at `__wbg_inst`, so that an object of a replaced
instance frees an address of the new one.

## 8. Not modelled

| Part | Why |
|---|---|
| `runtime`: `LazyLock` | a spin lock around one initialization; section 9 |
| `runtime`: malloc / free, `GLOBAL_EXNDATA` | single steps between wasm and its glue, nothing can come between |
| `interning` | one map on one thread; the glue of the very call reads the index it lends, before `unintern` can run |
| `test_runtime` | a poll loop over futures with `CONCURRENCY` 1; a client of the executor |
| `test_runner` | processes, sockets and browsers: input and output |
| `transforms`, `bindgen`, `macros` | compilers over syntax trees and text; what their output does at run time is modelled where it has state |
| `bindings` | declarations of JavaScript and Web APIs, most of them generated from WebIDL |

The last two rows are most of the repository: more than three quarters of its
lines are the generated declarations of `js-sys` and `web-sys`, which keep no state
and have no control flow of their own.

Abstracted inside the models: argument and return conversion, the values futures
return, names and messages, memory views; `ExportedClass` stays within one instance
(what a reset does to objects is the `__wbg_inst` check of the glue).  Sequential consistency is assumed of
atomics (the code uses `SeqCst`, which is also what wasm's atomic instructions are).

## 9. Plan

Built, in order of importance: `TaskContract` and `SingleThreadExecutor`;
`AtomicTask`; `InstanceLifecycle`; `ClosureContract` and `Closure`; `ThreadStart`;
`JsFuture`; `HandleContract` and `JsValues`; `ExportedClass`; proofs of the safety of all
eight and of the refinements.

Next, models: `LazyLock` (recursion, a panic in the initializer, two threads); the
`__wbg_inst` checks of `ExportedClass` across a reset; parents shared through
`Parent::clone`.  Next, proofs: the hypotheses `Quiet` and `~Early` cover the whole of their
theorems, where `TypeCorrect` of either and what is said of other closures or objects
may need less.
