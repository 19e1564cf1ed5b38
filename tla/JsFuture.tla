------------------------------ MODULE JsFuture ------------------------------
(***************************************************************************)
(* Promises awaited by Rust and futures awaited by JavaScript: JsFuture    *)
(* and future_to_promise of crates/js-sys/src/futures/mod.rs, JsStream of  *)
(* futures/stream.rs, on top of any executor that keeps TaskContract.      *)
(*                                                                         *)
(* A JsFuture is a state shared by its handle and two closures, one of     *)
(* which the host calls when the promise has settled.  Tasks make, poll,   *)
(* pass on and drop handles in any order; the promise of a task settles    *)
(* when its future ends.  A JsStream keeps one JsFuture at a time, for the *)
(* last call of next() on its iterator.                                    *)
(***************************************************************************)
EXTENDS Naturals, Sequences, FiniteSets

CONSTANTS
  Tasks,     \* futures given to future_to_promise or spawn_local
  Foreign,   \* promises that JavaScript settles
  Futures,   \* the JsFutures that tasks may make
  MaxCalls,  \* bound: calls of next() on the iterator
  MaxMade,   \* bound: JsFutures made
  Aborts,    \* a panic aborts (else it unwinds, and rejects the promise)
  Stream,    \* the JsStream, as the owner of a JsFuture
  None

Calls == 1..MaxCalls  \* the k-th call of next(), its promise and its JsFuture
Promises == Tasks \cup Foreign \cup Calls
Awaits == Futures \cup Calls
Outcomes == {"ok", "err", "end"}

ASSUME JsFutureAssumption ==
  /\ MaxCalls \in Nat /\ MaxMade \in Nat /\ Aborts \in BOOLEAN
  /\ Tasks \cap Foreign = {} /\ (Tasks \cup Foreign \cup Futures) \cap Calls = {}
  /\ {Stream, None} \cap Promises = {} /\ Stream # None /\ None \notin Outcomes

VARIABLES
  st,       \* the tasks, see TaskContract
  settled,  \* how each promise settled: "ok", "err", "end" (an IteratorNext
            \* that is done) or None so far
  state,    \* of each JsFuture: its promise; Inner.callbacks, result and task;
            \* the strong count; who has the handle; whether the host called
            \* back; and, as history, what its polls returned and who got
            \* nothing last and was not polled since the call back
  next,     \* JsStream.next: the call it waits for, 0 for None
  stream,   \* "live", "done" or "dropped"
  calls,    \* calls of next() so far
  yields    \* history: what poll_next returned

streamVars == <<next, stream, calls, yields>>
vars == <<st, settled, state, streamVars>>

Exec == INSTANCE TaskContract

Room == Cardinality({f \in Awaits : state[f].of # None}) < MaxMade

Unmade == [of |-> None, callbacks |-> FALSE, result |-> None, task |-> None,
           strong |-> 0, handle |-> None, called |-> FALSE, polled |-> <<>>, awaiter |-> None]

Init ==
  /\ Exec!Init
  /\ settled = [p \in Promises |-> None]
  /\ state = [f \in Awaits |-> Unmade]
  /\ next = 0 /\ stream = "live" /\ calls = 0 /\ yields = <<>>

-----------------------------------------------------------------------------
\* JsFuture

\* From<Promise>: one count for the handle and one for each closure.
From(p, owner) ==
  [Unmade EXCEPT !.of = p, !.callbacks = TRUE, !.strong = 3, !.handle = owner]

\* What n counts less leave: the last one takes the result and the waker along.
Less(s, n) ==
  IF s.strong > n THEN [s EXCEPT !.strong = @ - n]
  ELSE [s EXCEPT !.strong = @ - n, !.result = None, !.task = None]

\* Mutant: a JsFuture that is dropped drops its callbacks.
Dropped_Callbacks(s) == Less([s EXCEPT !.handle = None, !.callbacks = FALSE], 3)

Dropped(s) == Less([s EXCEPT !.handle = None], 1)

\* Mutant: the value is cloned out of the state.
Polled_Clones(s, t) ==
  IF s.result # None THEN [s EXCEPT !.polled = Append(@, s.result)]
  ELSE [s EXCEPT !.task = t]

\* Mutant: a waker that is there stays.
Polled_First(s, t) ==
  IF s.result # None THEN [s EXCEPT !.result = None, !.polled = Append(@, s.result)]
  ELSE IF s.task = None THEN [s EXCEPT !.task = t] ELSE s

\* JsFuture::poll by t: the value, once; else t is to be woken.
Polled(s, t) ==
  IF s.result # None THEN [s EXCEPT !.result = None, !.polled = Append(@, s.result)]
  ELSE [s EXCEPT !.task = t]

Awaited(s, t) == [Polled(s, t) EXCEPT !.awaiter = IF s.result = None THEN t ELSE @]

\* Waker::wake; a task that is woken already, or done, is left as it is.
Woken(t) ==
  IF t # None /\ st[t] \in {"idle", "polling"} THEN Exec!Wake(t) ELSE UNCHANGED st

\* JavaScript has the thread to itself.
InJS == \A t \in Tasks : ~Exec!Polling(t)

\* Mutant: finish gives up the handle's count, too.
finish_Handle(f) ==
  LET s == state[f] IN
  /\ InJS
  /\ s.of # None /\ ~s.called /\ settled[s.of] # None
  /\ state' = [state EXCEPT ![f] =
       Less([s EXCEPT !.called = TRUE, !.callbacks = FALSE,
                      !.result = settled[s.of], !.task = None], 3)]
  /\ Woken(s.task)
  /\ UNCHANGED <<settled, streamVars>>

\* The host calls resolve or reject back, in a microtask of its own: finish
\* drops both closures, stores the value and wakes the task.
finish(f) ==
  LET s == state[f] IN
  /\ InJS
  /\ s.of # None /\ ~s.called /\ settled[s.of] # None
  /\ state' = [state EXCEPT ![f] =
       Less([s EXCEPT !.called = TRUE, !.callbacks = FALSE,
                      !.result = settled[s.of], !.task = None], 2)]
  /\ Woken(s.task)
  /\ UNCHANGED <<settled, streamVars>>

-----------------------------------------------------------------------------
\* What the future of task t does while it is polled.

Make(t, f, p) ==
  /\ Exec!Polling(t) /\ state[f].of = None /\ Room
  /\ p \in Tasks => st[p] # "unborn"
  /\ state' = [state EXCEPT ![f] = From(p, t)]
  /\ UNCHANGED <<st, settled, streamVars>>

PollFuture(t, f) ==
  /\ Exec!Polling(t) /\ state[f].handle = t
  /\ state' = [state EXCEPT ![f] = Awaited(@, t)]
  /\ UNCHANGED <<st, settled, streamVars>>

Pass(t, f, u) ==
  /\ Exec!Polling(t) /\ state[f].handle = t
  /\ st[u] \notin {"unborn", "done"}
  /\ state' = [state EXCEPT ![f].handle = u]
  /\ UNCHANGED <<st, settled, streamVars>>

DropFuture(t, f) ==
  /\ Exec!Polling(t) /\ state[f].handle = t
  /\ state' = [state EXCEPT ![f] = Dropped(@)]
  /\ UNCHANGED <<st, settled, streamVars>>

-----------------------------------------------------------------------------
\* JsStream::poll_next

\* There is no JsFuture: next() is called, and what it returns is not settled
\* before JavaScript runs again (or Rust finds out).
CallNext(t) ==
  /\ Exec!Polling(t) /\ stream = "live" /\ next = 0
  /\ calls < MaxCalls /\ Room
  /\ calls' = calls + 1 /\ next' = calls + 1
  /\ state' = [state EXCEPT ![calls + 1] = Awaited(From(calls + 1, Stream), t)]
  /\ UNCHANGED <<st, settled, stream, yields>>

CallThrows(t) ==
  /\ Exec!Polling(t) /\ stream = "live" /\ next = 0
  /\ stream' = "done"
  /\ yields' = Append(yields, "err")
  /\ UNCHANGED <<st, settled, state, next, calls>>

\* There is one: a value sets it free, an error or the end keeps it.
PollNext(t) ==
  /\ Exec!Polling(t) /\ stream = "live" /\ next # 0
  /\ LET s == state[next]
         answer == s.result
     IN
     /\ state' = [state EXCEPT ![next] =
          IF answer = "ok" THEN Dropped(Awaited(s, t)) ELSE Awaited(s, t)]
     /\ next' = IF answer = "ok" THEN 0 ELSE next
     /\ stream' = IF answer \in {"err", "end"} THEN "done" ELSE stream
     /\ yields' = IF answer = None THEN yields ELSE Append(yields, answer)
  /\ UNCHANGED <<st, settled, calls>>

DropStream(t) ==
  /\ Exec!Polling(t) /\ stream # "dropped"
  /\ stream' = "dropped" /\ next' = 0
  /\ state' = IF next = 0 THEN state ELSE [state EXCEPT ![next] = Dropped(@)]
  /\ UNCHANGED <<st, settled, calls, yields>>

-----------------------------------------------------------------------------
\* The executor.

\* future_to_promise and spawn_local: from JavaScript or from another future.
Spawn(t) == Exec!Spawn(t) /\ UNCHANGED <<settled, state, streamVars>>

\* A task that is polled after a call back has got what it waited for.
Poll(t) ==
  /\ Exec!Poll(t)
  /\ state' = [f \in Awaits |->
       IF state[f].called /\ state[f].awaiter = t
       THEN [state[f] EXCEPT !.awaiter = None] ELSE state[f]]
  /\ UNCHANGED <<settled, streamVars>>

\* Some other source of wakeups: a channel, the task itself.
WakeElse(t) == Exec!Wake(t) /\ UNCHANGED <<settled, state, streamVars>>

Sleep(t) == Exec!Sleep(t) /\ UNCHANGED <<settled, state, streamVars>>

\* future_to_promise's wrapper: the future is Ready, or a panic of it is caught
\* and rejects (future_to_promise under unwind).  It drops what it owns.
Finish(t, outcome) ==
  /\ Exec!Finish(t)
  /\ settled' = [settled EXCEPT ![t] = outcome]
  /\ state' = [f \in Awaits |->
       IF state[f].handle = t THEN Dropped(state[f]) ELSE state[f]]
  /\ UNCHANGED streamVars

\* A panic that aborts: neither the promise nor the futures hear of it.
Abort(t) == Aborts /\ Exec!Finish(t) /\ UNCHANGED <<settled, state, streamVars>>

\* JavaScript settles a promise of its own, or one that next() returned.
Settle(p, outcome) ==
  /\ settled[p] = None
  /\ p \in Calls => p <= calls
  /\ outcome = "end" => p \in Calls
  /\ settled' = [settled EXCEPT ![p] = outcome]
  /\ UNCHANGED <<st, state, streamVars>>

-----------------------------------------------------------------------------
Next ==
  \/ \E t \in Tasks :
       \/ Spawn(t) \/ Poll(t) \/ WakeElse(t) \/ Sleep(t) \/ Abort(t)
       \/ \E outcome \in {"ok", "err"} : Finish(t, outcome)
       \/ CallNext(t) \/ CallThrows(t) \/ PollNext(t) \/ DropStream(t)
       \/ \E f \in Futures :
            \/ PollFuture(t, f) \/ DropFuture(t, f)
            \/ \E u \in Tasks : Pass(t, f, u)
            \/ \E p \in Tasks \cup Foreign : Make(t, f, p)
  \/ \E f \in Awaits : finish(f)
  \/ \E p \in Foreign \cup Calls, outcome \in Outcomes : Settle(p, outcome)

Spec == Init /\ [][Next]_vars

Return(t) == Sleep(t) \/ Abort(t) \/ \E outcome \in {"ok", "err"} : Finish(t, outcome)

\* The executor polls what is woken in its turn (see PolledUnlessAbandoned of
\* SingleThreadExecutor), polls return, and the host runs its microtasks once
\* the stack is empty: each JsFuture has but one.
FairSpec ==
  /\ Spec
  /\ \A t \in Tasks : SF_vars(Poll(t))
  /\ WF_vars(\E t \in Tasks : Return(t))
  /\ SF_vars(\E f \in Awaits : finish(f))
-----------------------------------------------------------------------------
One(b) == IF b THEN 1 ELSE 0

TypeOK ==
  /\ st \in [Tasks -> Exec!States]
  /\ settled \in [Promises -> Outcomes \cup {None}]
  /\ state \in [Awaits ->
       [of : Promises \cup {None}, callbacks : BOOLEAN, result : Outcomes \cup {None},
        task : Tasks \cup {None}, strong : 0..3, handle : Tasks \cup {Stream, None},
        called : BOOLEAN, polled : Seq(Outcomes), awaiter : Tasks \cup {None}]]
  /\ next \in 0..MaxCalls /\ calls \in 0..MaxCalls
  /\ stream \in {"live", "done", "dropped"} /\ yields \in Seq(Outcomes)

\* "No matter when the callbacks are invoked they are valid": until the host has
\* called one back, both are there and no result is (the asserts of finish),
\* whatever became of the handle; and then the cycle of state and closures is
\* broken, so that the count is that of the owners and can come to nothing.
CallbacksValid ==
  \A f \in Awaits :
    LET s == state[f] IN
    /\ s.of # None /\ ~s.called => s.callbacks /\ s.result = None
    /\ s.strong = 2 * One(s.callbacks) + One(s.handle # None)
    /\ s.strong = 0 => s.result = None /\ s.task = None

\* An await gets the value its promise settled with, once; a stream gets those
\* of its calls in their order, one call at a time and none after the last.
Delivered ==
  /\ \A f \in Awaits : state[f].polled # <<>> => state[f].polled = <<settled[state[f].of]>>
  /\ Len(yields) \in {calls - 1, calls, calls + 1}
  /\ \A k \in 1..Len(yields) :
       /\ k <= calls => yields[k] = settled[k]
       /\ k < Len(yields) => yields[k] = "ok"
  /\ stream = "live" => \A k \in 1..Len(yields) : yields[k] = "ok"

\* No task waits for ever for a promise that has settled: if it was the last to
\* poll the JsFuture and found nothing, it is polled again, even if it passed
\* the future on meanwhile.  (One that was polled after its value was taken
\* hangs.)
AwaitEnds ==
  \A t \in Tasks : []<>~\E f \in Awaits :
    /\ state[f].awaiter = t /\ settled[state[f].of] # None /\ state[f].polled = <<>>
    /\ st[t] # "done"
=============================================================================
