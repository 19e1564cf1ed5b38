------------------------ MODULE SingleThreadExecutor ------------------------
(***************************************************************************)
(* The executor behind spawn_local when wasm is built without threads:     *)
(* the run queue of crates/js-sys/src/futures/queue.rs together with the   *)
(* reference-counted tasks of futures/task/singlethread.rs.                *)
(*                                                                         *)
(* Everything happens on one JavaScript thread.  pc says what is on its    *)
(* stack: "js" (no run_all), "tick" (inside the loop of run_all, between   *)
(* two tasks) or "poll" (inside a task's future).  User code, which may    *)
(* spawn and may clone, wake and drop wakers, runs in "js" and in "poll".  *)
(***************************************************************************)
EXTENDS Naturals, Sequences, Functions

CONSTANTS
  Tasks,      \* the tasks that may ever be spawned
  None,       \* no task is running
  Failures,   \* how a poll may fail to return: "unwind" (a panic or a JS
              \* exception that runs drops), "abort" (one that runs none)
  MaxClones   \* bound on the waker clones of a task user code holds at once

ASSUME TasksAssumption == None \notin Tasks
ASSUME FailuresAssumption == Failures \subseteq {"unwind", "abort"}
ASSUME MaxClonesAssumption == MaxClones \in Nat \ {0}

VARIABLES
  tasks,        \* QueueState.tasks
  isScheduled,  \* QueueState.is_scheduled
  microtasks,   \* run_all microtasks the host owes us
  inner,        \* Task.inner: "unborn", "some", "none", or "stuck": Some, but
                \* its RefCell stays mutably borrowed by an aborted poll
  isQueued,     \* Task.is_queued
  rc,           \* strong count of the Rc<Task>
  clones,       \* waker clones held by user code
  pc, current,  \* what is on the stack, and the task being polled
  left,         \* task_count_left of the run_all on the stack
  abandoned     \* history: the last run_all unwound before it was through

queueVars == <<tasks, isScheduled, microtasks>>
tickVars  == <<pc, current, left, abandoned>>
vars == <<queueVars, inner, isQueued, rc, clones, tickVars>>

Init ==
  /\ tasks = <<>>
  /\ isScheduled = FALSE
  /\ microtasks = 0
  /\ inner = [t \in Tasks |-> "unborn"]
  /\ isQueued = [t \in Tasks |-> FALSE]
  /\ rc = [t \in Tasks |-> 0]
  /\ clones = [t \in Tasks |-> 0]
  /\ pc = "js" /\ current = None /\ left = 0
  /\ abandoned = FALSE

-----------------------------------------------------------------------------
UserCodeRuns == pc \in {"js", "poll"}

\* User code has a Waker of t: a clone, or the Context of the poll it is in.
HasWaker(t) == clones[t] > 0 \/ (pc = "poll" /\ current = t)

\* Queue::schedule_task: append, and ask the host for a tick unless one is due.
schedule_task(t) ==
  /\ tasks' = Append(tasks, t)
  /\ isScheduled' = TRUE
  /\ microtasks' = IF isScheduled THEN microtasks ELSE microtasks + 1

\* Mutant: Task::spawn with is_queued: Cell::new(false).
spawn_Unflagged(t) ==
  /\ UserCodeRuns /\ inner[t] = "unborn"
  /\ inner' = [inner EXCEPT ![t] = "some"]
  /\ rc' = [rc EXCEPT ![t] = 2]
  /\ schedule_task(t)
  /\ UNCHANGED <<isQueued, clones, tickVars>>

\* Task::spawn.  Two counts: the queue's and the one of Inner.waker.
spawn(t) ==
  /\ UserCodeRuns
  /\ inner[t] = "unborn"
  /\ inner' = [inner EXCEPT ![t] = "some"]
  /\ isQueued' = [isQueued EXCEPT ![t] = TRUE]
  /\ rc' = [rc EXCEPT ![t] = 2]
  /\ schedule_task(t)
  /\ UNCHANGED <<clones, tickVars>>

\* RawWakerVTable.clone
raw_clone(t) ==
  /\ UserCodeRuns /\ HasWaker(t)
  /\ clones[t] < MaxClones
  /\ clones' = [clones EXCEPT ![t] = @ + 1]
  /\ rc' = [rc EXCEPT ![t] = @ + 1]
  /\ UNCHANGED <<queueVars, inner, isQueued, tickVars>>

\* RawWakerVTable.drop
raw_drop(t) ==
  /\ UserCodeRuns
  /\ clones[t] > 0
  /\ clones' = [clones EXCEPT ![t] = @ - 1]
  /\ rc' = [rc EXCEPT ![t] = @ - 1]
  /\ UNCHANGED <<queueVars, inner, isQueued, tickVars>>

\* Mutant: the consumed waker of a queued task is forgotten.
WakeQueued_Leaks(t) == isQueued[t] /\ UNCHANGED <<queueVars, isQueued, rc>>

\* Task::wake of a task already on the queue: the consumed waker is dropped.
WakeQueued(t) ==
  /\ isQueued[t]
  /\ rc' = [rc EXCEPT ![t] = @ - 1]
  /\ UNCHANGED <<queueVars, isQueued>>

\* Task::wake otherwise: the consumed waker becomes the queue's reference.
WakeIdle(t) ==
  /\ ~isQueued[t]
  /\ isQueued' = [isQueued EXCEPT ![t] = TRUE]
  /\ schedule_task(t)
  /\ UNCHANGED rc

raw_wake(t) ==
  /\ UserCodeRuns
  /\ clones[t] > 0
  /\ clones' = [clones EXCEPT ![t] = @ - 1]
  /\ WakeQueued(t) \/ WakeIdle(t)
  /\ UNCHANGED <<inner, tickVars>>

\* Mutant: is_queued is set but not asked.
raw_wake_by_ref_Twice(t) ==
  /\ UserCodeRuns /\ HasWaker(t)
  /\ isQueued' = [isQueued EXCEPT ![t] = TRUE]
  /\ rc' = [rc EXCEPT ![t] = @ + 1]
  /\ schedule_task(t)
  /\ UNCHANGED <<inner, clones, tickVars>>

\* Mutant: without ManuallyDrop the borrowed waker is dropped too.
raw_wake_by_ref_Drops(t) ==
  /\ UserCodeRuns /\ HasWaker(t) /\ ~isQueued[t]
  /\ isQueued' = [isQueued EXCEPT ![t] = TRUE]
  /\ schedule_task(t)
  /\ UNCHANGED <<inner, rc, clones, tickVars>>

\* Task::wake_by_ref; on a queued task it changes nothing.
raw_wake_by_ref(t) ==
  /\ UserCodeRuns /\ HasWaker(t)
  /\ ~isQueued[t]
  /\ isQueued' = [isQueued EXCEPT ![t] = TRUE]
  /\ rc' = [rc EXCEPT ![t] = @ + 1]
  /\ schedule_task(t)
  /\ UNCHANGED <<inner, clones, tickVars>>

\* Mutant: the schedule is not consumed.
BeginTick_KeepsFlag ==
  /\ pc = "js" /\ microtasks > 0
  /\ microtasks' = microtasks - 1
  /\ left' = Len(tasks)
  /\ abandoned' = FALSE
  /\ pc' = "tick"
  /\ UNCHANGED <<tasks, isScheduled, inner, isQueued, rc, clones, current>>

\* Mutant: the loop runs until the queue is empty.
Pop_Drains ==
  /\ pc = "tick" /\ left > 0 /\ tasks # <<>>
  /\ tasks' = Tail(tasks)
  /\ UNCHANGED <<left, isScheduled, microtasks>>

-----------------------------------------------------------------------------
\* The host calls the queue's closure: run_all up to its loop.
BeginTick ==
  /\ pc = "js"
  /\ microtasks > 0
  /\ microtasks' = microtasks - 1
  /\ isScheduled' = FALSE
  /\ left' = Len(tasks)
  /\ abandoned' = FALSE
  /\ pc' = "tick"
  /\ UNCHANGED <<tasks, inner, isQueued, rc, clones, current>>

Pop ==
  /\ pc = "tick"
  /\ left > 0 /\ tasks # <<>>
  /\ left' = left - 1
  /\ tasks' = Tail(tasks)
  /\ UNCHANGED <<isScheduled, microtasks>>

\* Mutant: is_queued is not reset before the poll.
BeginPoll_KeepsFlag ==
  /\ Pop
  /\ inner[Head(tasks)] = "some"
  /\ pc' = "poll" /\ current' = Head(tasks)
  /\ UNCHANGED <<inner, isQueued, rc, clones, abandoned>>

\* Task::run up to the poll: from here on a wake queues the task again.
BeginPoll ==
  LET t == Head(tasks) IN
  /\ Pop
  /\ inner[t] = "some"
  /\ isQueued' = [isQueued EXCEPT ![t] = FALSE]
  /\ pc' = "poll" /\ current' = t
  /\ UNCHANGED <<inner, rc, clones, abandoned>>

\* Task::run of a task whose future is gone: ignored, is_queued left set.
RunFinished ==
  LET t == Head(tasks) IN
  /\ Pop
  /\ inner[t] = "none"
  /\ rc' = [rc EXCEPT ![t] = @ - 1]
  /\ UNCHANGED <<inner, isQueued, clones, pc, current, abandoned>>

\* What ends run_all early: the stack is gone, the rest of the batch is not.
LeaveTick ==
  /\ pc' = "js" /\ current' = None /\ left' = 0
  /\ abandoned' = TRUE

\* Task::run of a task an aborted poll left borrowed: borrow_mut panics.
RunStuck ==
  LET t == Head(tasks) IN
  /\ pc = "tick" /\ left > 0 /\ tasks # <<>>
  /\ inner[t] = "stuck"
  /\ tasks' = Tail(tasks)
  /\ LeaveTick
  /\ UNCHANGED <<isScheduled, microtasks, inner, isQueued, rc, clones>>

\* The poll returns Pending: run returns and run_all drops its reference.
PollPending ==
  /\ pc = "poll"
  /\ rc' = [rc EXCEPT ![current] = @ - 1]
  /\ pc' = "tick" /\ current' = None
  /\ UNCHANGED <<queueVars, inner, isQueued, clones, left, abandoned>>

\* The poll returns Ready: Inner is dropped, and with it Inner.waker.
PollReady ==
  /\ pc = "poll"
  /\ inner' = [inner EXCEPT ![current] = "none"]
  /\ rc' = [rc EXCEPT ![current] = @ - 2]
  /\ pc' = "tick" /\ current' = None
  /\ UNCHANGED <<queueVars, isQueued, clones, left, abandoned>>

\* The poll panics and drops run: ClearOnUnwind clears Inner, run_all unwinds.
PollUnwinds ==
  /\ pc = "poll" /\ "unwind" \in Failures
  /\ inner' = [inner EXCEPT ![current] = "none"]
  /\ rc' = [rc EXCEPT ![current] = @ - 2]
  /\ LeaveTick
  /\ UNCHANGED <<queueVars, isQueued, clones>>

\* The poll panics and no drop runs: the borrow and run_all's count leak.
PollAborts ==
  /\ pc = "poll" /\ "abort" \in Failures
  /\ inner' = [inner EXCEPT ![current] = "stuck"]
  /\ LeaveTick
  /\ UNCHANGED <<queueVars, isQueued, rc, clones>>

EndTick ==
  /\ pc = "tick"
  /\ left = 0 \/ tasks = <<>>
  /\ pc' = "js" /\ left' = 0
  /\ UNCHANGED <<queueVars, inner, isQueued, rc, clones, current, abandoned>>

-----------------------------------------------------------------------------
UserCode(t) ==
  spawn(t) \/ raw_clone(t) \/ raw_drop(t) \/ raw_wake(t) \/ raw_wake_by_ref(t)

run_all ==
  \/ BeginTick \/ BeginPoll \/ RunFinished \/ RunStuck \/ EndTick
  \/ PollPending \/ PollReady \/ PollUnwinds \/ PollAborts

Next == (\E t \in Tasks : UserCode(t)) \/ run_all

Spec == Init /\ [][Next]_vars

\* The host runs the microtasks it was given, the loop of run_all goes on, and
\* polls return (cooperative scheduling).  User code owes nothing.
FairSpec == Spec /\ WF_vars(run_all)
-----------------------------------------------------------------------------
Queued(t) == t \in Range(tasks)
One(b) == IF b THEN 1 ELSE 0

\* The variables range over what the fields of the code can hold.
TypeOK ==
  /\ tasks \in Seq(Tasks)
  /\ isScheduled \in BOOLEAN
  /\ microtasks \in Nat
  /\ inner \in [Tasks -> {"unborn", "some", "none", "stuck"}]
  /\ isQueued \in [Tasks -> BOOLEAN]
  /\ rc \in [Tasks -> Nat]
  /\ clones \in [Tasks -> Nat]
  /\ pc \in {"js", "tick", "poll"}
  /\ current \in Tasks \cup {None}
  /\ left \in Nat
  /\ abandoned \in BOOLEAN

\* Task::wake may ignore a task whose is_queued is set ("we're going to run at
\* some point in the future anyway"): while its future lives, such a task
\* really is on the queue, whatever was woken, dropped or unwound before.
WakeNotLost == \A t \in Tasks : inner[t] = "some" /\ isQueued[t] => Queued(t)

\* A task is on the queue at most once ("the Task will only be queued once"),
\* and everything on the queue has its flag set.
QueuedOnce ==
  /\ IsInjective(tasks)
  /\ \A t \in Tasks : Queued(t) => isQueued[t]

\* is_scheduled says exactly whether the host owes a run_all (the debug_assert
\* of run_all); off the stack a queue that is not empty has one coming, unless
\* a panic abandoned it; on the stack so do the tasks queued during this tick.
TickOwed ==
  /\ microtasks = One(isScheduled)
  /\ pc = "js" /\ tasks # <<>> => isScheduled \/ abandoned
  /\ pc # "js" /\ Len(tasks) > left => isScheduled

\* run_all never finds the queue shorter than its count: its None arm is dead.
BatchOnQueue == left <= Len(tasks)

\* The strong count of every Rc<Task> is the number of its owners: the queue,
\* run_all's local, Inner.waker and the clones of user code.  Too low is a use
\* after free behind a raw waker, too high a leak: only an aborted poll leaks.
CountsExact ==
  \A t \in Tasks : inner[t] # "stuck" =>
    rc[t] = One(Queued(t)) + One(current = t) + One(inner[t] = "some") + clones[t]

\* A task polled or queued is not freed, even one leaked by an abort.
NoUseAfterFree ==
  \A t \in Tasks :
    Queued(t) \/ current = t \/ clones[t] > 0 \/ inner[t] = "some" => rc[t] > 0

\* What the stack, the unborn tasks and the stuck ones add to make these
\* inductive: no entry point for tasks that do not exist, and the counts an
\* aborted poll leaked are never given back.
StackOK ==
  /\ pc = "poll" <=> current # None
  /\ pc = "poll" => inner[current] = "some"
  /\ pc = "js" => left = 0
  /\ \A t \in Tasks : inner[t] = "unborn" =>
       ~Queued(t) /\ clones[t] = 0
  /\ \A t \in Tasks : inner[t] = "stuck" =>
       rc[t] >= One(Queued(t)) + clones[t] + 2

IInv ==
  /\ TypeOK /\ StackOK
  /\ WakeNotLost /\ QueuedOnce /\ TickOwed /\ BatchOnQueue
  /\ CountsExact

\* What each task looks like to its future.
TaskState ==
  [t \in Tasks |->
     CASE inner[t] = "unborn" -> "unborn"
       [] inner[t] \in {"none", "stuck"} -> "done"
       [] inner[t] = "some" /\ current = t ->
            IF isQueued[t] THEN "rewoken" ELSE "polling"
       [] OTHER -> IF isQueued[t] THEN "woken" ELSE "idle"]

Contract == INSTANCE TaskContract WITH st <- TaskState

\* Every step of the queue is a step of the contract: no lost wake, no poll
\* that nothing asked for, no poll inside a poll, none after the future ended.
ImplementsContract == Contract!Spec

\* run_all returns to the event loop even if every future wakes itself in every
\* poll: tasks queued during a tick wait for the next one.
TickEnds == pc # "js" ~> pc = "js"

\* What the documentation of spawn_local says: "The future will always be run
\* on the next microtask tick" (futures/mod.rs), here weakened to eventually.
AlwaysRun ==
  \A t \in Tasks :
    inner[t] = "some" /\ isQueued[t] ~> ~(inner[t] = "some" /\ isQueued[t])

\* A panic left a batch behind, and nothing was spawned or woken since.
LeftBehind == abandoned /\ pc = "js" /\ ~isScheduled

\* It holds unless a batch is left behind for good: every task that was spawned
\* or woken is polled, a stranded one as soon as anything asks for a tick again,
\* however often ticks are abandoned.
PolledUnlessAbandoned == AlwaysRun \/ <>[]LeftBehind
=============================================================================
