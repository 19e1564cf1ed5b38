----------------------------- MODULE AtomicTask -----------------------------
(***************************************************************************)
(* The tasks spawn_local makes when wasm is built with threads:            *)
(* futures/task/multithread.rs and wait_async_polyfill.rs.                 *)
(*                                                                         *)
(* A task lives on one thread, the home thread, but is woken from any.  A  *)
(* wake is two steps on shared memory, an atomic swap of the task's state  *)
(* and then a notify; the home thread interleaves with both, and waits     *)
(* with Atomics.waitAsync or, where that is missing, by sending a worker   *)
(* into Atomics.wait.  The run queue gives a spawned task its first run    *)
(* only: no wake puts a task there, or asks for a tick.                    *)
(***************************************************************************)
EXTENDS Naturals, Sequences, Functions, FiniteSetsExt

CONSTANTS
  Tasks,      \* the tasks of the home thread that may ever be spawned
  Wakers,     \* whoever holds and uses wakers: threads, callbacks, futures
  None,
  Hosts,      \* "native" if Atomics.waitAsync may exist, "polyfill" if not
  Helpers,    \* worker identities for the polyfill
  PoolLimit   \* how many idle helpers free_helper keeps (10 in the source)

ASSUME AtomicTaskAssumption ==
  /\ None \notin Tasks \cup Helpers
  /\ Hosts \subseteq {"native", "polyfill"}
  /\ PoolLimit \in Nat
  /\ "polyfill" \in Hosts => \E f \in [Tasks -> Helpers] : IsInjective(f)

VARIABLES
  host,      \* out of Hosts, for good
  state,     \* AtomicWaker.state: "SLEEPING" or "AWAKE"
  inner,     \* Task.inner: "unborn", "some" or "none"
  runQueue,  \* QueueState.tasks: their first run is due
  isScheduled, \* QueueState.is_scheduled, while which the host owes a run_all
  inTick,    \* run_all is on the home thread's stack
  left,      \* its task_count_left
  abandoned, \* history: the last run_all unwound before it was through
  waiters,   \* agents waiting on the address of state: promises or workers
  posted,    \* requests on their way to a helper
  answered,  \* answers of helpers on their way back
  resolved,  \* closure calls due: promises of wait_async that resolved
  holders,   \* who holds a clone of the task's waker
  notifying, \* the task a waker has swapped and not yet notified, or None
  pc,        \* home thread: "idle" (in no task), "notify", "run", "poll" or "wait"
  current,   \* the task on the home thread's stack
  pool,      \* HELPERS
  helperOf   \* the helper waiting for a task

waitVars == <<waiters, posted, answered, resolved>>
poolVars == <<pool, helperOf>>
tickVars == <<isScheduled, inTick, left, abandoned>>
homeVars == <<pc, current, tickVars>>
vars == <<host, state, inner, runQueue, waitVars, holders, notifying, homeVars,
          poolVars>>

Init ==
  /\ host \in Hosts
  /\ state = [t \in Tasks |-> "AWAKE"]
  /\ inner = [t \in Tasks |-> "unborn"]
  /\ runQueue = <<>> /\ left = 0
  /\ isScheduled = FALSE /\ inTick = FALSE /\ abandoned = FALSE
  /\ waiters = [t \in Tasks |-> 0]
  /\ posted = [t \in Tasks |-> 0]
  /\ answered = [t \in Tasks |-> 0]
  /\ resolved = [t \in Tasks |-> 0]
  /\ holders = [t \in Tasks |-> {}]
  /\ notifying = [w \in Wakers |-> None]
  /\ pc = "idle" /\ current = None
  /\ pool = <<>>
  /\ helperOf = [t \in Tasks |-> None]

Polyfill == host = "polyfill"
Inc(f, t) == [f EXCEPT ![t] = @ + 1]
Dec(f, t) == [f EXCEPT ![t] = @ - 1]

-----------------------------------------------------------------------------
\* Wakers, on any thread.

\* During a poll the future clones its waker for someone to wake it with.
Hand(w) ==
  /\ pc = "poll"
  /\ w \notin holders[current]
  /\ holders' = [holders EXCEPT ![current] = @ \cup {w}]
  /\ UNCHANGED <<host, state, inner, runQueue, waitVars, notifying, homeVars, poolVars>>

DropWaker(w, t) ==
  /\ w \in holders[t] /\ notifying[w] = None
  /\ holders' = [holders EXCEPT ![t] = @ \ {w}]
  /\ UNCHANGED <<host, state, inner, runQueue, waitVars, notifying, homeVars, poolVars>>

\* Mutant: the wake ends after the swap.
Swap_NoNotify(w, t) ==
  /\ w \in holders[t] /\ notifying[w] = None
  /\ state' = [state EXCEPT ![t] = "AWAKE"]
  /\ UNCHANGED <<host, inner, runQueue, waitVars, holders, notifying, homeVars, poolVars>>

\* AtomicWaker::wake_by_ref, first half; if AWAKE already it returns.
Swap(w, t) ==
  /\ w \in holders[t] /\ notifying[w] = None
  /\ state[t] = "SLEEPING"
  /\ state' = [state EXCEPT ![t] = "AWAKE"]
  /\ notifying' = [notifying EXCEPT ![w] = t]
  /\ UNCHANGED <<host, inner, runQueue, waitVars, holders, homeVars, poolVars>>

\* Mutant: a notify assumes its waiter.
WakeWaiter_Assumed(t) ==
  /\ waiters' = Dec(waiters, t)
  /\ resolved' = Inc(resolved, t)
  /\ UNCHANGED <<posted, answered>>

\* memory_atomic_notify: one waiter, if there is one.  waitAsync's promise
\* resolves; a helper returns from Atomics.wait and posts its answer.
WakeWaiter(t) ==
  IF waiters[t] = 0 THEN UNCHANGED waitVars
  ELSE /\ waiters' = Dec(waiters, t)
       /\ answered' = IF Polyfill THEN Inc(answered, t) ELSE answered
       /\ resolved' = IF Polyfill THEN resolved ELSE Inc(resolved, t)
       /\ UNCHANGED posted

\* AtomicWaker::wake_by_ref, second half.
Notify(w) ==
  /\ notifying[w] # None
  /\ WakeWaiter(notifying[w])
  /\ notifying' = [notifying EXCEPT ![w] = None]
  /\ UNCHANGED <<host, state, inner, runQueue, holders, homeVars, poolVars>>

-----------------------------------------------------------------------------
\* The home thread.

\* The host can call: nothing is on the home thread's stack.
Free == pc = "idle" /\ ~inTick

\* Task::spawn, called from JavaScript or from inside a poll; schedule_task
\* asks for a tick unless one is due.
spawn(t) ==
  /\ Free \/ pc = "poll"
  /\ inner[t] = "unborn"
  /\ inner' = [inner EXCEPT ![t] = "some"]
  /\ runQueue' = Append(runQueue, t)
  /\ isScheduled' = TRUE
  /\ UNCHANGED <<host, state, waitVars, holders, notifying, pc, current, inTick, left,
                 abandoned, poolVars>>

\* The host calls the queue's closure: run_all up to its loop.
BeginTick ==
  /\ Free /\ isScheduled
  /\ isScheduled' = FALSE /\ inTick' = TRUE
  /\ left' = Len(runQueue)
  /\ abandoned' = FALSE
  /\ UNCHANGED <<host, state, inner, runQueue, waitVars, holders, notifying, pc,
                 current, poolVars>>

\* run_all calls Task::run.
FirstRun ==
  /\ pc = "idle" /\ inTick /\ left > 0 /\ runQueue # <<>>
  /\ left' = left - 1
  /\ runQueue' = Tail(runQueue)
  /\ pc' = "run" /\ current' = Head(runQueue)
  /\ UNCHANGED <<host, state, inner, waitVars, holders, notifying, isScheduled, inTick,
                 abandoned, poolVars>>

EndTick ==
  /\ pc = "idle" /\ inTick
  /\ left = 0 \/ runQueue = <<>>
  /\ inTick' = FALSE /\ left' = 0
  /\ UNCHANGED <<host, state, inner, runQueue, waitVars, holders, notifying, pc,
                 current, isScheduled, abandoned, poolVars>>

\* Mutant: the closure runs the task without waking it first.
Resume_Unwoken(t) ==
  /\ Free /\ resolved[t] > 0
  /\ resolved' = Dec(resolved, t)
  /\ pc' = "run" /\ current' = t
  /\ UNCHANGED <<host, state, inner, runQueue, waiters, posted, answered, holders,
                 notifying, tickVars, poolVars>>

\* The task's closure, called because its promise resolved: wake_by_ref on
\* itself, which notifies if the state was SLEEPING, then run.
Resume(t) ==
  /\ Free /\ resolved[t] > 0
  /\ resolved' = Dec(resolved, t)
  /\ state' = [state EXCEPT ![t] = "AWAKE"]
  /\ pc' = IF state[t] = "SLEEPING" THEN "notify" ELSE "run"
  /\ current' = t
  /\ UNCHANGED <<host, inner, runQueue, waiters, posted, answered, holders,
                 notifying, tickVars, poolVars>>

NotifySelf ==
  /\ pc = "notify"
  /\ WakeWaiter(current)
  /\ pc' = "run"
  /\ UNCHANGED <<host, state, inner, runQueue, holders, notifying, current, tickVars, poolVars>>

Return == pc' = "idle" /\ current' = None

\* The top of the loop of run: ready for a notification, then poll.  (The None
\* arm before the loop is dead: AwakeBeforePoll.)
FallAsleep ==
  /\ pc = "run" /\ inner[current] = "some"
  /\ state' = [state EXCEPT ![current] = "SLEEPING"]
  /\ pc' = "poll"
  /\ UNCHANGED <<host, inner, runQueue, waitVars, holders, notifying, current, tickVars, poolVars>>

PollPending ==
  /\ pc = "poll"
  /\ pc' = "wait"
  /\ UNCHANGED <<host, state, inner, runQueue, waitVars, holders, notifying, current, tickVars, poolVars>>

\* Mutant: a task that is ready waits for its next wake all the same.
PollReady_Waits ==
  /\ pc = "poll" /\ pc' = "wait"
  /\ inner' = [inner EXCEPT ![current] = "none"]
  /\ UNCHANGED <<host, state, runQueue, waitVars, holders, notifying, current, tickVars, poolVars>>

\* Poll::Ready: Inner is dropped.
PollReady ==
  /\ pc = "poll"
  /\ inner' = [inner EXCEPT ![current] = "none"]
  /\ Return
  /\ UNCHANGED <<host, state, runQueue, waitVars, holders, notifying, tickVars, poolVars>>

\* The poll unwinds: ClearOnUnwind drops Inner, and a run_all that is on the
\* stack is left as well, with its batch in the queue.  (After an abort, which
\* drops nothing, nobody enters the task again either.)
PollUnwinds ==
  /\ pc = "poll"
  /\ inner' = [inner EXCEPT ![current] = "none"]
  /\ Return
  /\ inTick' = FALSE /\ left' = 0
  /\ abandoned' = (abandoned \/ inTick)
  /\ UNCHANGED <<host, state, runQueue, waitVars, holders, notifying, isScheduled,
                 poolVars>>

\* Atomics.waitAsync compares and registers in one step.
WaitAsync ==
  /\ pc = "wait" /\ ~Polyfill
  /\ state[current] = "SLEEPING"
  /\ waiters' = Inc(waiters, current)
  /\ Return
  /\ UNCHANGED <<host, state, inner, runQueue, posted, answered, resolved, holders,
                 notifying, tickVars, poolVars>>

\* ... and answers "not-equal" at once: run goes round its loop again.
WaitAsyncNotEqual ==
  /\ pc = "wait" /\ ~Polyfill
  /\ state[current] # "SLEEPING"
  /\ pc' = "run"
  /\ UNCHANGED <<host, state, inner, runQueue, waitVars, holders, notifying, current, tickVars, poolVars>>

-----------------------------------------------------------------------------
\* The polyfill.

BusyHelpers == {helperOf[t] : t \in Tasks} \ {None}

\* Mutant: the helper is taken but left in the pool.
alloc_helper_Peeks(h) ==
  /\ UNCHANGED pool
  /\ IF pool # <<>> THEN h = pool[Len(pool)] ELSE h \in Helpers \ BusyHelpers

\* alloc_helper: the helper on top of the pool, or a new worker.
alloc_helper(h) ==
  IF pool # <<>>
  THEN h = pool[Len(pool)] /\ pool' = SubSeq(pool, 1, Len(pool) - 1)
  ELSE h \in Helpers \ BusyHelpers /\ UNCHANGED pool

\* wait_async: post a request to a helper, whatever the state is by now.
PostToHelper ==
  /\ pc = "wait" /\ Polyfill
  /\ \E h \in Helpers :
       /\ alloc_helper(h)
       /\ helperOf' = [helperOf EXCEPT ![current] = h]
  /\ posted' = Inc(posted, current)
  /\ Return
  /\ UNCHANGED <<host, state, inner, runQueue, waiters, answered, resolved, holders,
                 notifying, tickVars>>

\* worker.js: Atomics.wait blocks the helper, or finds the state changed.
HelperWaits(t) ==
  /\ posted[t] > 0
  /\ posted' = Dec(posted, t)
  /\ IF state[t] = "SLEEPING"
     THEN waiters' = Inc(waiters, t) /\ UNCHANGED answered
     ELSE answered' = Inc(answered, t) /\ UNCHANGED waiters
  /\ UNCHANGED <<host, state, inner, runQueue, resolved, holders, notifying,
                 homeVars, poolVars>>

\* free_helper: push, then truncate to the limit.
free_helper(h) ==
  LET pushed == Append(pool, h) IN
  pool' = SubSeq(pushed, 1, Min({Len(pushed), PoolLimit}))

\* onmessage on the home thread: free the helper, resolve the promise.
OnMessage(t) ==
  /\ Free /\ answered[t] > 0
  /\ answered' = Dec(answered, t)
  /\ resolved' = Inc(resolved, t)
  /\ free_helper(helperOf[t])
  /\ helperOf' = [helperOf EXCEPT ![t] = None]
  /\ UNCHANGED <<host, state, inner, runQueue, waiters, posted, holders, notifying,
                 homeVars>>

-----------------------------------------------------------------------------
Waking == \E w \in Wakers : Hand(w) \/ \E t \in Tasks : DropWaker(w, t) \/ Swap(w, t)

\* One step of code that is on the home thread's stack already.
Running ==
  \/ FirstRun \/ EndTick
  \/ NotifySelf \/ FallAsleep \/ PollPending \/ PollReady \/ PollUnwinds
  \/ WaitAsync \/ WaitAsyncNotEqual \/ PostToHelper

Next ==
  \/ Waking \/ \E w \in Wakers : Notify(w)
  \/ BeginTick \/ Running
  \/ \E t \in Tasks : spawn(t) \/ Resume(t) \/ HelperWaits(t) \/ OnMessage(t)

Spec == Init /\ [][Next]_vars

\* A thread in the middle of wake_by_ref goes on; workers and the home thread
\* do what they were given to do, every callback in its turn: a run_all that
\* was asked for, and each task's.
FairSpec ==
  /\ Spec
  /\ WF_vars(Running)
  /\ SF_vars(BeginTick)
  /\ \A w \in Wakers : WF_vars(Notify(w))
  /\ \A t \in Tasks : SF_vars(Resume(t)) /\ WF_vars(HelperWaits(t)) /\ SF_vars(OnMessage(t))
-----------------------------------------------------------------------------
Requests(t) == posted[t] + waiters[t] + answered[t]
One(b) == IF b THEN 1 ELSE 0

TypeOK ==
  /\ state \in [Tasks -> {"SLEEPING", "AWAKE"}]
  /\ inner \in [Tasks -> {"unborn", "some", "none"}]
  /\ runQueue \in Seq(Tasks) /\ left \in Nat
  /\ isScheduled \in BOOLEAN /\ inTick \in BOOLEAN /\ abandoned \in BOOLEAN
  /\ \A f \in {waiters, posted, answered, resolved} : f \in [Tasks -> Nat]
  /\ holders \in [Tasks -> SUBSET Wakers]
  /\ notifying \in [Wakers -> Tasks \cup {None}]
  /\ pc \in {"idle", "notify", "run", "poll", "wait"}
  /\ current \in Tasks \cup {None}
  /\ pool \in Seq(Helpers)
  /\ helperOf \in [Tasks -> Helpers \cup {None}]

\* The debug_assert of run's loop: whoever runs the task made it AWAKE first,
\* also after a notify that comes late, for a swap the task has seen already.
AwakeBeforePoll ==
  pc = "run" => state[current] = "AWAKE" /\ inner[current] = "some"

\* A live task is in exactly one place: queued, on the stack, waiting (as a
\* promise or through a helper) or about to be called back; a finished one is
\* in none, so its dropped closure is never called and nothing runs it twice.
OneActivation ==
  \A t \in Tasks :
    One(t \in Range(runQueue)) + One(current = t) + Requests(t) + resolved[t]
      = One(inner[t] = "some")

\* A helper waits for one task at a time and is out of the pool meanwhile: a
\* request posted to a worker blocked in Atomics.wait would be answered late.
HelperExclusive ==
  /\ Polyfill => \A t \in Tasks : helperOf[t] = None <=> Requests(t) = 0
  /\ \A t, u \in Tasks : helperOf[t] = helperOf[u] /\ helperOf[t] # None => t = u
  /\ IsInjective(pool) /\ Range(pool) \cap BusyHelpers = {}
  /\ Len(pool) <= PoolLimit

TaskState ==
  [t \in Tasks |->
     CASE inner[t] = "unborn" -> "unborn"
       [] inner[t] = "none" -> "done"
       [] inner[t] = "some" /\ current = t /\ pc = "poll" ->
            IF state[t] = "AWAKE" THEN "rewoken" ELSE "polling"
       [] OTHER ->
            IF state[t] = "AWAKE" \/ answered[t] + resolved[t] > 0
            THEN "woken" ELSE "idle"]

Contract == INSTANCE TaskContract WITH st <- TaskState

\* A task that an unwinding tick left in the queue, and no spawn since then
\* asked for another tick.
LeftBehind(t) == abandoned /\ ~isScheduled /\ ~inTick /\ t \in Range(runQueue)

\* Waking across threads keeps the contract of the single-threaded executor,
\* and every task that was spawned or woken is polled, as long as polls that
\* come in between do not keep the home thread for themselves, unless it is
\* left behind for good.
ImplementsFairContract ==
  /\ Contract!Spec
  /\ \A t \in Tasks : Contract!Fair(t) \/ <>[]LeftBehind(t)
=============================================================================
