--------------------- MODULE SingleThreadExecutorProofs ---------------------
(***************************************************************************)
(* Proofs about SingleThreadExecutor, for any set of tasks, any way polls  *)
(* may fail and any number of waker clones.  IInv is inductive; the        *)
(* invariants the runs check are its conjuncts or follow from it.          *)
(***************************************************************************)
EXTENDS SingleThreadExecutor, SequenceTheorems, TLAPS

(***************************************************************************)
(* The queue: what appending and removing the first entry does to the set  *)
(* of queued tasks and to "at most once".                                  *)
(***************************************************************************)
LEMMA AppendToQueue ==
  ASSUME NEW S, NEW q \in Seq(S), NEW e \in S
  PROVE  /\ Append(q, e) \in Seq(S)
         /\ Len(Append(q, e)) = Len(q) + 1
         /\ Append(q, e) # <<>>
         /\ Range(Append(q, e)) = Range(q) \cup {e}
         /\ IsInjective(q) /\ e \notin Range(q) => IsInjective(Append(q, e))
<1> DEFINE r == Append(q, e)
<1>1. /\ r \in Seq(S) /\ r # <<>>
      /\ Len(r) = Len(q) + 1
      /\ \A i \in 1..Len(q) : r[i] = q[i]
      /\ r[Len(q) + 1] = e
  BY AppendProperties
<1>2. /\ DOMAIN q = 1..Len(q) /\ DOMAIN r = 1..(Len(q) + 1)
      /\ Len(q) \in Nat
  BY <1>1, LenProperties
<1> HIDE DEF r
<1>3. Range(r) = Range(q) \cup {e}
  BY <1>1, <1>2 DEF Range
<1>4. ASSUME IsInjective(q), e \notin Range(q)
      PROVE  IsInjective(r)
  BY <1>1, <1>2, <1>4 DEF IsInjective, Range
<1> QED
  BY <1>1, <1>3, <1>4 DEF r

LEMMA PopFromQueue ==
  ASSUME NEW S, NEW q \in Seq(S), q # <<>>
  PROVE  /\ Head(q) \in S /\ Head(q) \in Range(q)
         /\ Tail(q) \in Seq(S)
         /\ Len(Tail(q)) = Len(q) - 1 /\ Len(q) \in Nat \ {0}
         /\ Range(Tail(q)) \subseteq Range(q)
         /\ IsInjective(q) =>
              IsInjective(Tail(q)) /\ Range(Tail(q)) = Range(q) \ {Head(q)}
<1> DEFINE r == Tail(q)
<1>1. /\ Head(q) \in S /\ Head(q) = q[1]
      /\ r \in Seq(S)
      /\ Len(r) = Len(q) - 1
      /\ \A i \in 1..Len(r) : r[i] = q[i + 1]
  BY HeadTailProperties
<1>2. /\ DOMAIN q = 1..Len(q) /\ DOMAIN r = 1..(Len(q) - 1)
      /\ Len(q) \in Nat \ {0}
  BY <1>1, LenProperties, EmptySeq
<1> HIDE DEF r
<1>3. /\ Range(q) = {q[i] : i \in 1..Len(q)}
      /\ Range(r) = {r[i] : i \in 1..(Len(q) - 1)}
  BY <1>2 DEF Range
<1>4. Head(q) \in Range(q)
  BY <1>1, <1>2, <1>3
<1>5. ASSUME NEW x \in Range(r)
      PROVE  \E i \in 1..Len(q) : i # 1 /\ x = q[i]
  <2>1. PICK j \in 1..(Len(q) - 1) : x = r[j]
    BY <1>3
  <2>2. j + 1 \in 1..Len(q) /\ j + 1 # 1 /\ x = q[j + 1]
    BY <2>1, <1>1, <1>2
  <2> QED
    BY <2>2
<1>6. Range(r) \subseteq Range(q)
  BY <1>5, <1>3
<1>7. ASSUME IsInjective(q)
      PROVE  IsInjective(r) /\ Range(r) = Range(q) \ {Head(q)}
  <2>1. IsInjective(r)
    BY <1>1, <1>2, <1>7 DEF IsInjective
  <2>2. ASSUME NEW x \in Range(r)
        PROVE  x # Head(q)
    <3>1. PICK i \in 1..Len(q) : i # 1 /\ x = q[i]
      BY <2>2, <1>5
    <3> QED
      BY <3>1, <1>1, <1>2, <1>7 DEF IsInjective
  <2>3. ASSUME NEW x \in Range(q), x # Head(q)
        PROVE  x \in Range(r)
    <3>1. PICK i \in 1..Len(q) : x = q[i]
      BY <1>3
    <3>2. i - 1 \in 1..(Len(q) - 1) /\ r[i - 1] = x
      BY <3>1, <2>3, <1>1, <1>2
    <3> QED
      BY <3>2, <1>3
  <2> QED
    BY <2>1, <2>2, <2>3, <1>6
<1> QED
  BY <1>1, <1>2, <1>4, <1>6, <1>7 DEF r

-----------------------------------------------------------------------------
LEMMA InitInv == Init => IInv
<1> SUFFICES ASSUME Init PROVE IInv
  OBVIOUS
<1>1. Range(tasks) = {} /\ IsInjective(tasks)
  BY DEF Init, Range, IsInjective
<1>2. Len(tasks) = 0 /\ tasks \in Seq(Tasks)
  BY EmptySeq DEF Init
<1>3. TypeOK
  BY <1>2 DEF Init, TypeOK
<1>4. StackOK /\ WakeNotLost /\ QueuedOnce
  BY <1>1, TasksAssumption DEF Init, StackOK, WakeNotLost, QueuedOnce, Queued
<1>5. TickOwed /\ BatchOnQueue
  BY <1>2 DEF Init, TickOwed, BatchOnQueue, One
<1>6. CountsExact
  BY <1>1, TasksAssumption DEF Init, CountsExact, Queued, One
<1> QED
  BY <1>3, <1>4, <1>5, <1>6 DEF IInv

LEMMA CountFacts ==
  ASSUME IInv, NEW t \in Tasks
  PROVE  /\ rc[t] \in Nat /\ clones[t] \in Nat
         /\ clones[t] > 0 => rc[t] >= 1
         /\ Queued(t) => rc[t] >= 1
         /\ current = t => inner[t] = "some" /\ rc[t] >= 2
<1>1. rc[t] \in Nat /\ clones[t] \in Nat
  BY DEF IInv, TypeOK
<1>2. current = t => inner[t] = "some"
  BY TasksAssumption DEF IInv, StackOK
<1>3. CASE inner[t] = "stuck"
  BY <1>1, <1>2, <1>3 DEF IInv, StackOK, One
<1>4. CASE inner[t] # "stuck"
  <2>1. rc[t] = One(Queued(t)) + One(current = t) + One(inner[t] = "some") + clones[t]
    BY <1>4 DEF IInv, CountsExact
  <2> QED
    BY <2>1, <1>1, <1>2 DEF One
<1> QED
  BY <1>1, <1>2, <1>3, <1>4

LEMMA SpawnInv ==
  ASSUME IInv, NEW t \in Tasks, spawn(t)
  PROVE  IInv'
<1> USE DEF IInv, spawn, schedule_task, UserCodeRuns, queueVars, tickVars
<1>1. /\ tasks' \in Seq(Tasks) /\ tasks' # <<>>
      /\ Len(tasks') = Len(tasks) + 1 /\ Len(tasks) \in Nat
      /\ Range(tasks') = Range(tasks) \cup {t}
      /\ t \notin Range(tasks) => IsInjective(tasks')
  BY AppendToQueue, LenProperties DEF TypeOK, QueuedOnce
<1>3. TypeOK'
  BY <1>1, TasksAssumption DEF TypeOK
<1>4. StackOK'
  BY <1>1, TasksAssumption
  DEF StackOK, TypeOK, QueuedOnce, BatchOnQueue, CountsExact, Queued, One
<1>5. WakeNotLost' /\ QueuedOnce'
  BY <1>1, TasksAssumption DEF StackOK, TypeOK, WakeNotLost, QueuedOnce, Queued
<1>6. TickOwed' /\ BatchOnQueue'
  BY <1>1 DEF TypeOK, StackOK, TickOwed, BatchOnQueue, One
<1>7. CountsExact'
  <2> SUFFICES ASSUME NEW u \in Tasks, inner'[u] # "stuck"
               PROVE  rc'[u] = One(u \in Range(tasks')) + One(current' = u)
                                + One(inner'[u] = "some") + clones'[u]
    BY DEF CountsExact, Queued
  <2>1. rc[u] \in Nat /\ clones[u] \in Nat
    BY DEF TypeOK
  <2>2. CASE u = t
    BY <1>1, <2>1, <2>2, TasksAssumption
    DEF TypeOK, StackOK, WakeNotLost, QueuedOnce, CountsExact, Queued, One
  <2>3. CASE u # t
    BY <1>1, <2>1, <2>3, TasksAssumption DEF TypeOK, StackOK, CountsExact, Queued, One
  <2> QED
    BY <2>2, <2>3
<1> QED
  BY <1>3, <1>4, <1>5, <1>6, <1>7

LEMMA RawCloneInv ==
  ASSUME IInv, NEW t \in Tasks, raw_clone(t)
  PROVE  IInv'
<1> USE DEF IInv, raw_clone, UserCodeRuns, HasWaker, queueVars, tickVars
<1>1. tasks' = tasks /\ Len(tasks) \in Nat /\ (Len(tasks) = 0 <=> tasks = <<>>)
  BY EmptySeq, LenProperties DEF TypeOK
<1>2. rc[t] \in Nat /\ clones[t] \in Nat /\ (clones[t] > 0 => rc[t] >= 1)
  BY CountFacts
<1>3. TypeOK'
  BY <1>1, <1>2, TasksAssumption DEF TypeOK
<1>4. StackOK'
  BY <1>1, <1>2, TasksAssumption
  DEF StackOK, TypeOK, QueuedOnce, BatchOnQueue, CountsExact, Queued, One
<1>5. WakeNotLost' /\ QueuedOnce'
  BY <1>1, <1>2, TasksAssumption DEF StackOK, TypeOK, WakeNotLost, QueuedOnce, Queued
<1>6. TickOwed' /\ BatchOnQueue'
  BY <1>1 DEF TypeOK, StackOK, TickOwed, BatchOnQueue, One
<1>7. CountsExact'
  <2> SUFFICES ASSUME NEW u \in Tasks, inner'[u] # "stuck"
               PROVE  rc'[u] = One(u \in Range(tasks')) + One(current' = u)
                                + One(inner'[u] = "some") + clones'[u]
    BY DEF CountsExact, Queued
  <2>1. rc[u] \in Nat /\ clones[u] \in Nat
    BY DEF TypeOK
  <2>2. CASE u = t
    BY <1>1, <1>2, <2>1, <2>2, TasksAssumption
    DEF TypeOK, StackOK, WakeNotLost, QueuedOnce, CountsExact, Queued, One
  <2>3. CASE u # t
    BY <1>1, <1>2, <2>1, <2>3, TasksAssumption DEF TypeOK, StackOK, CountsExact, Queued, One
  <2> QED
    BY <2>2, <2>3
<1> QED
  BY <1>3, <1>4, <1>5, <1>6, <1>7

LEMMA RawDropInv ==
  ASSUME IInv, NEW t \in Tasks, raw_drop(t)
  PROVE  IInv'
<1> USE DEF IInv, raw_drop, UserCodeRuns, queueVars, tickVars
<1>1. tasks' = tasks /\ Len(tasks) \in Nat /\ (Len(tasks) = 0 <=> tasks = <<>>)
  BY EmptySeq, LenProperties DEF TypeOK
<1>2. rc[t] \in Nat /\ clones[t] \in Nat /\ (clones[t] > 0 => rc[t] >= 1)
  BY CountFacts
<1>3. TypeOK'
  BY <1>1, <1>2, TasksAssumption DEF TypeOK
<1>4. StackOK'
  BY <1>1, <1>2, TasksAssumption
  DEF StackOK, TypeOK, QueuedOnce, BatchOnQueue, CountsExact, Queued, One
<1>5. WakeNotLost' /\ QueuedOnce'
  BY <1>1, <1>2, TasksAssumption DEF StackOK, TypeOK, WakeNotLost, QueuedOnce, Queued
<1>6. TickOwed' /\ BatchOnQueue'
  BY <1>1 DEF TypeOK, StackOK, TickOwed, BatchOnQueue, One
<1>7. CountsExact'
  <2> SUFFICES ASSUME NEW u \in Tasks, inner'[u] # "stuck"
               PROVE  rc'[u] = One(u \in Range(tasks')) + One(current' = u)
                                + One(inner'[u] = "some") + clones'[u]
    BY DEF CountsExact, Queued
  <2>1. rc[u] \in Nat /\ clones[u] \in Nat
    BY DEF TypeOK
  <2>2. CASE u = t
    BY <1>1, <1>2, <2>1, <2>2, TasksAssumption
    DEF TypeOK, StackOK, WakeNotLost, QueuedOnce, CountsExact, Queued, One
  <2>3. CASE u # t
    BY <1>1, <1>2, <2>1, <2>3, TasksAssumption DEF TypeOK, StackOK, CountsExact, Queued, One
  <2> QED
    BY <2>2, <2>3
<1> QED
  BY <1>3, <1>4, <1>5, <1>6, <1>7

LEMMA WakeQueuedInv ==
  ASSUME IInv, NEW t \in Tasks, raw_wake(t), WakeQueued(t)
  PROVE  IInv'
<1> USE DEF IInv, raw_wake, WakeQueued, UserCodeRuns, queueVars, tickVars
<1>1. tasks' = tasks /\ Len(tasks) \in Nat /\ (Len(tasks) = 0 <=> tasks = <<>>)
  BY EmptySeq, LenProperties DEF TypeOK
<1>2. rc[t] \in Nat /\ clones[t] \in Nat /\ (clones[t] > 0 => rc[t] >= 1)
  BY CountFacts
<1>3. TypeOK'
  BY <1>1, <1>2, TasksAssumption DEF TypeOK
<1>4. StackOK'
  BY <1>1, <1>2, TasksAssumption
  DEF StackOK, TypeOK, QueuedOnce, BatchOnQueue, CountsExact, Queued, One
<1>5. WakeNotLost' /\ QueuedOnce'
  BY <1>1, <1>2, TasksAssumption DEF StackOK, TypeOK, WakeNotLost, QueuedOnce, Queued
<1>6. TickOwed' /\ BatchOnQueue'
  BY <1>1 DEF TypeOK, StackOK, TickOwed, BatchOnQueue, One
<1>7. CountsExact'
  <2> SUFFICES ASSUME NEW u \in Tasks, inner'[u] # "stuck"
               PROVE  rc'[u] = One(u \in Range(tasks')) + One(current' = u)
                                + One(inner'[u] = "some") + clones'[u]
    BY DEF CountsExact, Queued
  <2>1. rc[u] \in Nat /\ clones[u] \in Nat
    BY DEF TypeOK
  <2>2. CASE u = t
    BY <1>1, <1>2, <2>1, <2>2, TasksAssumption
    DEF TypeOK, StackOK, WakeNotLost, QueuedOnce, CountsExact, Queued, One
  <2>3. CASE u # t
    BY <1>1, <1>2, <2>1, <2>3, TasksAssumption DEF TypeOK, StackOK, CountsExact, Queued, One
  <2> QED
    BY <2>2, <2>3
<1> QED
  BY <1>3, <1>4, <1>5, <1>6, <1>7

LEMMA WakeIdleInv ==
  ASSUME IInv, NEW t \in Tasks, raw_wake(t), WakeIdle(t)
  PROVE  IInv'
<1> USE DEF IInv, raw_wake, WakeIdle, schedule_task, UserCodeRuns, queueVars, tickVars
<1>1. /\ tasks' \in Seq(Tasks) /\ tasks' # <<>>
      /\ Len(tasks') = Len(tasks) + 1 /\ Len(tasks) \in Nat
      /\ Range(tasks') = Range(tasks) \cup {t}
      /\ t \notin Range(tasks) => IsInjective(tasks')
  BY AppendToQueue, LenProperties DEF TypeOK, QueuedOnce
<1>2. rc[t] \in Nat /\ clones[t] \in Nat /\ (clones[t] > 0 => rc[t] >= 1)
  BY CountFacts
<1>3. TypeOK'
  BY <1>1, <1>2, TasksAssumption DEF TypeOK
<1>4. StackOK'
  BY <1>1, <1>2, TasksAssumption
  DEF StackOK, TypeOK, QueuedOnce, BatchOnQueue, CountsExact, Queued, One
<1>5. WakeNotLost' /\ QueuedOnce'
  BY <1>1, <1>2, TasksAssumption DEF StackOK, TypeOK, WakeNotLost, QueuedOnce, Queued
<1>6. TickOwed' /\ BatchOnQueue'
  BY <1>1 DEF TypeOK, StackOK, TickOwed, BatchOnQueue, One
<1>7. CountsExact'
  <2> SUFFICES ASSUME NEW u \in Tasks, inner'[u] # "stuck"
               PROVE  rc'[u] = One(u \in Range(tasks')) + One(current' = u)
                                + One(inner'[u] = "some") + clones'[u]
    BY DEF CountsExact, Queued
  <2>1. rc[u] \in Nat /\ clones[u] \in Nat
    BY DEF TypeOK
  <2>2. CASE u = t
    BY <1>1, <1>2, <2>1, <2>2, TasksAssumption
    DEF TypeOK, StackOK, WakeNotLost, QueuedOnce, CountsExact, Queued, One
  <2>3. CASE u # t
    BY <1>1, <1>2, <2>1, <2>3, TasksAssumption DEF TypeOK, StackOK, CountsExact, Queued, One
  <2> QED
    BY <2>2, <2>3
<1> QED
  BY <1>3, <1>4, <1>5, <1>6, <1>7

LEMMA WakeByRefInv ==
  ASSUME IInv, NEW t \in Tasks, raw_wake_by_ref(t)
  PROVE  IInv'
<1> USE DEF IInv, raw_wake_by_ref, schedule_task, UserCodeRuns, HasWaker, queueVars, tickVars
<1>1. /\ tasks' \in Seq(Tasks) /\ tasks' # <<>>
      /\ Len(tasks') = Len(tasks) + 1 /\ Len(tasks) \in Nat
      /\ Range(tasks') = Range(tasks) \cup {t}
      /\ t \notin Range(tasks) => IsInjective(tasks')
  BY AppendToQueue, LenProperties DEF TypeOK, QueuedOnce
<1>2. rc[t] \in Nat /\ clones[t] \in Nat /\ (clones[t] > 0 => rc[t] >= 1)
  BY CountFacts
<1>3. TypeOK'
  BY <1>1, <1>2, TasksAssumption DEF TypeOK
<1>4. StackOK'
  BY <1>1, <1>2, TasksAssumption
  DEF StackOK, TypeOK, QueuedOnce, BatchOnQueue, CountsExact, Queued, One
<1>5. WakeNotLost' /\ QueuedOnce'
  BY <1>1, <1>2, TasksAssumption DEF StackOK, TypeOK, WakeNotLost, QueuedOnce, Queued
<1>6. TickOwed' /\ BatchOnQueue'
  BY <1>1 DEF TypeOK, StackOK, TickOwed, BatchOnQueue, One
<1>7. CountsExact'
  <2> SUFFICES ASSUME NEW u \in Tasks, inner'[u] # "stuck"
               PROVE  rc'[u] = One(u \in Range(tasks')) + One(current' = u)
                                + One(inner'[u] = "some") + clones'[u]
    BY DEF CountsExact, Queued
  <2>1. rc[u] \in Nat /\ clones[u] \in Nat
    BY DEF TypeOK
  <2>2. CASE u = t
    BY <1>1, <1>2, <2>1, <2>2, TasksAssumption
    DEF TypeOK, StackOK, WakeNotLost, QueuedOnce, CountsExact, Queued, One
  <2>3. CASE u # t
    BY <1>1, <1>2, <2>1, <2>3, TasksAssumption DEF TypeOK, StackOK, CountsExact, Queued, One
  <2> QED
    BY <2>2, <2>3
<1> QED
  BY <1>3, <1>4, <1>5, <1>6, <1>7

LEMMA BeginTickInv ==
  ASSUME IInv, BeginTick
  PROVE  IInv'
<1> USE DEF IInv, BeginTick
<1>1. tasks' = tasks /\ Len(tasks) \in Nat /\ (Len(tasks) = 0 <=> tasks = <<>>)
  BY EmptySeq, LenProperties DEF TypeOK
<1>3. TypeOK'
  <2>1. microtasks' \in Nat /\ left' \in Nat
    BY <1>1 DEF TypeOK
  <2> QED
    BY <1>1, <2>1 DEF TypeOK
<1>4. StackOK'
  BY <1>1, TasksAssumption
  DEF StackOK, TypeOK, QueuedOnce, BatchOnQueue, CountsExact, Queued, One
<1>5. WakeNotLost' /\ QueuedOnce'
  BY <1>1, TasksAssumption DEF StackOK, TypeOK, WakeNotLost, QueuedOnce, Queued
<1>6. TickOwed' /\ BatchOnQueue'
  BY <1>1 DEF TypeOK, StackOK, TickOwed, BatchOnQueue, One
<1>7. CountsExact'
  <2> SUFFICES ASSUME NEW u \in Tasks, inner'[u] # "stuck"
               PROVE  rc'[u] = One(u \in Range(tasks')) + One(current' = u)
                                + One(inner'[u] = "some") + clones'[u]
    BY DEF CountsExact, Queued
  <2> QED
    BY <1>1 DEF TypeOK, CountsExact, Queued
<1> QED
  BY <1>3, <1>4, <1>5, <1>6, <1>7

LEMMA BeginPollInv ==
  ASSUME IInv, NEW t, t = Head(tasks), BeginPoll
  PROVE  IInv'
<1> USE DEF IInv, BeginPoll, Pop
<1>1. /\ tasks' \in Seq(Tasks) /\ t \in Tasks /\ t \in Range(tasks)
      /\ Len(tasks') = Len(tasks) - 1 /\ Len(tasks) \in Nat \ {0}
      /\ Range(tasks') = Range(tasks) \ {t} /\ IsInjective(tasks')
  BY PopFromQueue DEF TypeOK, QueuedOnce
<1>2. rc[t] \in Nat /\ rc[t] >= 1 /\ current = None
  BY <1>1, CountFacts DEF StackOK, TypeOK, Queued
<1>3. TypeOK'
  BY <1>1, <1>2, TasksAssumption DEF TypeOK
<1>4. StackOK'
  BY <1>1, <1>2, TasksAssumption
  DEF StackOK, TypeOK, QueuedOnce, BatchOnQueue, CountsExact, Queued, One
<1>5. WakeNotLost' /\ QueuedOnce'
  BY <1>1, <1>2, TasksAssumption DEF StackOK, TypeOK, WakeNotLost, QueuedOnce, Queued
<1>6. TickOwed' /\ BatchOnQueue'
  BY <1>1 DEF TypeOK, StackOK, TickOwed, BatchOnQueue, One
<1>7. CountsExact'
  <2> SUFFICES ASSUME NEW u \in Tasks, inner'[u] # "stuck"
               PROVE  rc'[u] = One(u \in Range(tasks')) + One(current' = u)
                                + One(inner'[u] = "some") + clones'[u]
    BY DEF CountsExact, Queued
  <2>1. rc[u] \in Nat /\ clones[u] \in Nat
    BY DEF TypeOK
  <2>2. CASE u = t
    <3>1. rc[t] = One(t \in Range(tasks)) + One(current = t)
                         + One(inner[t] = "some") + clones[t]
      BY <1>1, <1>2 DEF CountsExact, Queued
    <3>2. /\ t \in Range(tasks) /\ t \notin Range(tasks')
          /\ current = None /\ current' = t /\ t # None
          /\ inner'[t] = inner[t] /\ rc'[t] = rc[t] /\ clones'[t] = clones[t]
      BY <1>1, <1>2, TasksAssumption
    <3> QED
      BY <1>2, <2>1, <2>2, <3>1, <3>2 DEF One
  <2>3. CASE u # t
    BY <1>1, <1>2, <2>1, <2>3, TasksAssumption DEF TypeOK, StackOK, CountsExact, Queued, One
  <2> QED
    BY <2>2, <2>3
<1> QED
  BY <1>3, <1>4, <1>5, <1>6, <1>7

LEMMA RunFinishedInv ==
  ASSUME IInv, NEW t, t = Head(tasks), RunFinished
  PROVE  IInv'
<1> USE DEF IInv, RunFinished, Pop
<1>1. /\ tasks' \in Seq(Tasks) /\ t \in Tasks /\ t \in Range(tasks)
      /\ Len(tasks') = Len(tasks) - 1 /\ Len(tasks) \in Nat \ {0}
      /\ Range(tasks') = Range(tasks) \ {t} /\ IsInjective(tasks')
  BY PopFromQueue DEF TypeOK, QueuedOnce
<1>2. rc[t] \in Nat /\ rc[t] >= 1 /\ current = None
  BY <1>1, CountFacts DEF StackOK, TypeOK, Queued
<1>3. TypeOK'
  BY <1>1, <1>2, TasksAssumption DEF TypeOK
<1>4. StackOK'
  BY <1>1, <1>2, TasksAssumption
  DEF StackOK, TypeOK, QueuedOnce, BatchOnQueue, CountsExact, Queued, One
<1>5. WakeNotLost' /\ QueuedOnce'
  BY <1>1, <1>2, TasksAssumption DEF StackOK, TypeOK, WakeNotLost, QueuedOnce, Queued
<1>6. TickOwed' /\ BatchOnQueue'
  BY <1>1 DEF TypeOK, StackOK, TickOwed, BatchOnQueue, One
<1>7. CountsExact'
  <2> SUFFICES ASSUME NEW u \in Tasks, inner'[u] # "stuck"
               PROVE  rc'[u] = One(u \in Range(tasks')) + One(current' = u)
                                + One(inner'[u] = "some") + clones'[u]
    BY DEF CountsExact, Queued
  <2>1. rc[u] \in Nat /\ clones[u] \in Nat
    BY DEF TypeOK
  <2>2. CASE u = t
    BY <1>1, <1>2, <2>1, <2>2, TasksAssumption
    DEF TypeOK, StackOK, WakeNotLost, QueuedOnce, CountsExact, Queued, One
  <2>3. CASE u # t
    BY <1>1, <1>2, <2>1, <2>3, TasksAssumption DEF TypeOK, StackOK, CountsExact, Queued, One
  <2> QED
    BY <2>2, <2>3
<1> QED
  BY <1>3, <1>4, <1>5, <1>6, <1>7

LEMMA RunStuckInv ==
  ASSUME IInv, NEW t, t = Head(tasks), RunStuck
  PROVE  IInv'
<1> USE DEF IInv, RunStuck, LeaveTick
<1>1. /\ tasks' \in Seq(Tasks) /\ t \in Tasks /\ t \in Range(tasks)
      /\ Len(tasks') = Len(tasks) - 1 /\ Len(tasks) \in Nat \ {0}
      /\ Range(tasks') = Range(tasks) \ {t} /\ IsInjective(tasks')
  BY PopFromQueue DEF TypeOK, QueuedOnce
<1>2. rc[t] \in Nat /\ rc[t] >= 1 /\ current = None
  BY <1>1, CountFacts DEF StackOK, TypeOK, Queued
<1>3. TypeOK'
  BY <1>1, <1>2, TasksAssumption DEF TypeOK
<1>4. StackOK'
  BY <1>1, <1>2, TasksAssumption
  DEF StackOK, TypeOK, QueuedOnce, BatchOnQueue, CountsExact, Queued, One
<1>5. WakeNotLost' /\ QueuedOnce'
  BY <1>1, <1>2, TasksAssumption DEF StackOK, TypeOK, WakeNotLost, QueuedOnce, Queued
<1>6. TickOwed' /\ BatchOnQueue'
  BY <1>1 DEF TypeOK, StackOK, TickOwed, BatchOnQueue, One
<1>7. CountsExact'
  <2> SUFFICES ASSUME NEW u \in Tasks, inner'[u] # "stuck"
               PROVE  rc'[u] = One(u \in Range(tasks')) + One(current' = u)
                                + One(inner'[u] = "some") + clones'[u]
    BY DEF CountsExact, Queued
  <2>1. rc[u] \in Nat /\ clones[u] \in Nat
    BY DEF TypeOK
  <2>2. CASE u = t
    BY <1>1, <1>2, <2>1, <2>2, TasksAssumption
    DEF TypeOK, StackOK, WakeNotLost, QueuedOnce, CountsExact, Queued, One
  <2>3. CASE u # t
    BY <1>1, <1>2, <2>1, <2>3, TasksAssumption DEF TypeOK, StackOK, CountsExact, Queued, One
  <2> QED
    BY <2>2, <2>3
<1> QED
  BY <1>3, <1>4, <1>5, <1>6, <1>7

LEMMA EndTickInv ==
  ASSUME IInv, EndTick
  PROVE  IInv'
<1> USE DEF IInv, EndTick, queueVars
<1>1. tasks' = tasks /\ Len(tasks) \in Nat /\ (Len(tasks) = 0 <=> tasks = <<>>)
  BY EmptySeq, LenProperties DEF TypeOK
<1>3. TypeOK'
  BY <1>1, TasksAssumption DEF TypeOK
<1>4. StackOK'
  BY <1>1, TasksAssumption
  DEF StackOK, TypeOK, QueuedOnce, BatchOnQueue, CountsExact, Queued, One
<1>5. WakeNotLost' /\ QueuedOnce'
  BY <1>1, TasksAssumption DEF StackOK, TypeOK, WakeNotLost, QueuedOnce, Queued
<1>6. TickOwed' /\ BatchOnQueue'
  BY <1>1 DEF TypeOK, StackOK, TickOwed, BatchOnQueue, One
<1>7. CountsExact'
  <2> SUFFICES ASSUME NEW u \in Tasks, inner'[u] # "stuck"
               PROVE  rc'[u] = One(u \in Range(tasks')) + One(current' = u)
                                + One(inner'[u] = "some") + clones'[u]
    BY DEF CountsExact, Queued
  <2> QED
    BY <1>1 DEF TypeOK, CountsExact, Queued
<1> QED
  BY <1>3, <1>4, <1>5, <1>6, <1>7

LEMMA PollPendingInv ==
  ASSUME IInv, NEW t, t = current, PollPending
  PROVE  IInv'
<1> USE DEF IInv, PollPending, queueVars
<1>1. tasks' = tasks /\ Len(tasks) \in Nat /\ (Len(tasks) = 0 <=> tasks = <<>>)
  BY EmptySeq, LenProperties DEF TypeOK
<1>2. t \in Tasks /\ inner[t] = "some" /\ rc[t] \in Nat /\ rc[t] >= 2
  BY CountFacts, TasksAssumption DEF StackOK, TypeOK
<1>3. TypeOK'
  BY <1>1, <1>2, TasksAssumption DEF TypeOK
<1>4. StackOK'
  BY <1>1, <1>2, TasksAssumption
  DEF StackOK, TypeOK, QueuedOnce, BatchOnQueue, CountsExact, Queued, One
<1>5. WakeNotLost' /\ QueuedOnce'
  BY <1>1, <1>2, TasksAssumption DEF StackOK, TypeOK, WakeNotLost, QueuedOnce, Queued
<1>6. TickOwed' /\ BatchOnQueue'
  BY <1>1 DEF TypeOK, StackOK, TickOwed, BatchOnQueue, One
<1>7. CountsExact'
  <2> SUFFICES ASSUME NEW u \in Tasks, inner'[u] # "stuck"
               PROVE  rc'[u] = One(u \in Range(tasks')) + One(current' = u)
                                + One(inner'[u] = "some") + clones'[u]
    BY DEF CountsExact, Queued
  <2>1. rc[u] \in Nat /\ clones[u] \in Nat
    BY DEF TypeOK
  <2>2. CASE u = t
    <3>1. rc[t] = One(t \in Range(tasks)) + One(current = t)
                         + One(inner[t] = "some") + clones[t]
      BY <1>1, <1>2 DEF CountsExact, Queued
    <3>2. (t \in Range(tasks')) = (t \in Range(tasks)) /\ clones'[t] = clones[t]
      BY <1>1
    <3>3. rc'[t] = rc[t] - One(current = t) - One(inner[t] = "some")
                         + One(current' = t) + One(inner'[t] = "some")
      BY <1>1, <1>2, TasksAssumption DEF TypeOK, One
    <3> QED
      BY <1>2, <2>1, <2>2, <3>1, <3>2, <3>3 DEF One
  <2>3. CASE u # t
    BY <1>1, <1>2, <2>1, <2>3, TasksAssumption DEF TypeOK, StackOK, CountsExact, Queued, One
  <2> QED
    BY <2>2, <2>3
<1> QED
  BY <1>3, <1>4, <1>5, <1>6, <1>7

LEMMA PollReadyInv ==
  ASSUME IInv, NEW t, t = current, PollReady
  PROVE  IInv'
<1> USE DEF IInv, PollReady, queueVars
<1>1. tasks' = tasks /\ Len(tasks) \in Nat /\ (Len(tasks) = 0 <=> tasks = <<>>)
  BY EmptySeq, LenProperties DEF TypeOK
<1>2. t \in Tasks /\ inner[t] = "some" /\ rc[t] \in Nat /\ rc[t] >= 2
  BY CountFacts, TasksAssumption DEF StackOK, TypeOK
<1>3. TypeOK'
  BY <1>1, <1>2, TasksAssumption DEF TypeOK
<1>4. StackOK'
  BY <1>1, <1>2, TasksAssumption
  DEF StackOK, TypeOK, QueuedOnce, BatchOnQueue, CountsExact, Queued, One
<1>5. WakeNotLost' /\ QueuedOnce'
  BY <1>1, <1>2, TasksAssumption DEF StackOK, TypeOK, WakeNotLost, QueuedOnce, Queued
<1>6. TickOwed' /\ BatchOnQueue'
  BY <1>1 DEF TypeOK, StackOK, TickOwed, BatchOnQueue, One
<1>7. CountsExact'
  <2> SUFFICES ASSUME NEW u \in Tasks, inner'[u] # "stuck"
               PROVE  rc'[u] = One(u \in Range(tasks')) + One(current' = u)
                                + One(inner'[u] = "some") + clones'[u]
    BY DEF CountsExact, Queued
  <2>1. rc[u] \in Nat /\ clones[u] \in Nat
    BY DEF TypeOK
  <2>2. CASE u = t
    <3>1. rc[t] = One(t \in Range(tasks)) + One(current = t)
                         + One(inner[t] = "some") + clones[t]
      BY <1>1, <1>2 DEF CountsExact, Queued
    <3>2. (t \in Range(tasks')) = (t \in Range(tasks)) /\ clones'[t] = clones[t]
      BY <1>1
    <3>3. rc'[t] = rc[t] - One(current = t) - One(inner[t] = "some")
                         + One(current' = t) + One(inner'[t] = "some")
      BY <1>1, <1>2, TasksAssumption DEF TypeOK, One
    <3> QED
      BY <1>2, <2>1, <2>2, <3>1, <3>2, <3>3 DEF One
  <2>3. CASE u # t
    BY <1>1, <1>2, <2>1, <2>3, TasksAssumption DEF TypeOK, StackOK, CountsExact, Queued, One
  <2> QED
    BY <2>2, <2>3
<1> QED
  BY <1>3, <1>4, <1>5, <1>6, <1>7

LEMMA PollUnwindsInv ==
  ASSUME IInv, NEW t, t = current, PollUnwinds
  PROVE  IInv'
<1> USE DEF IInv, PollUnwinds, queueVars, LeaveTick
<1>1. tasks' = tasks /\ Len(tasks) \in Nat /\ (Len(tasks) = 0 <=> tasks = <<>>)
  BY EmptySeq, LenProperties DEF TypeOK
<1>2. t \in Tasks /\ inner[t] = "some" /\ rc[t] \in Nat /\ rc[t] >= 2
  BY CountFacts, TasksAssumption DEF StackOK, TypeOK
<1>3. TypeOK'
  BY <1>1, <1>2, TasksAssumption DEF TypeOK
<1>4. StackOK'
  BY <1>1, <1>2, TasksAssumption
  DEF StackOK, TypeOK, QueuedOnce, BatchOnQueue, CountsExact, Queued, One
<1>5. WakeNotLost' /\ QueuedOnce'
  BY <1>1, <1>2, TasksAssumption DEF StackOK, TypeOK, WakeNotLost, QueuedOnce, Queued
<1>6. TickOwed' /\ BatchOnQueue'
  BY <1>1 DEF TypeOK, StackOK, TickOwed, BatchOnQueue, One
<1>7. CountsExact'
  <2> SUFFICES ASSUME NEW u \in Tasks, inner'[u] # "stuck"
               PROVE  rc'[u] = One(u \in Range(tasks')) + One(current' = u)
                                + One(inner'[u] = "some") + clones'[u]
    BY DEF CountsExact, Queued
  <2>1. rc[u] \in Nat /\ clones[u] \in Nat
    BY DEF TypeOK
  <2>2. CASE u = t
    <3>1. rc[t] = One(t \in Range(tasks)) + One(current = t)
                         + One(inner[t] = "some") + clones[t]
      BY <1>1, <1>2 DEF CountsExact, Queued
    <3>2. (t \in Range(tasks')) = (t \in Range(tasks)) /\ clones'[t] = clones[t]
      BY <1>1
    <3>3. rc'[t] = rc[t] - One(current = t) - One(inner[t] = "some")
                         + One(current' = t) + One(inner'[t] = "some")
      BY <1>1, <1>2, TasksAssumption DEF TypeOK, One
    <3> QED
      BY <1>2, <2>1, <2>2, <3>1, <3>2, <3>3 DEF One
  <2>3. CASE u # t
    BY <1>1, <1>2, <2>1, <2>3, TasksAssumption DEF TypeOK, StackOK, CountsExact, Queued, One
  <2> QED
    BY <2>2, <2>3
<1> QED
  BY <1>3, <1>4, <1>5, <1>6, <1>7

LEMMA PollAbortsInv ==
  ASSUME IInv, NEW t, t = current, PollAborts
  PROVE  IInv'
<1> USE DEF IInv, PollAborts, queueVars, LeaveTick
<1>1. tasks' = tasks /\ Len(tasks) \in Nat /\ (Len(tasks) = 0 <=> tasks = <<>>)
  BY EmptySeq, LenProperties DEF TypeOK
<1>2. t \in Tasks /\ inner[t] = "some" /\ rc[t] \in Nat /\ rc[t] >= 2
  BY CountFacts, TasksAssumption DEF StackOK, TypeOK
<1>3. TypeOK'
  BY <1>1, <1>2, TasksAssumption DEF TypeOK
<1>4. StackOK'
  BY <1>1, <1>2, TasksAssumption
  DEF StackOK, TypeOK, QueuedOnce, BatchOnQueue, CountsExact, Queued, One
<1>5. WakeNotLost' /\ QueuedOnce'
  BY <1>1, <1>2, TasksAssumption DEF StackOK, TypeOK, WakeNotLost, QueuedOnce, Queued
<1>6. TickOwed' /\ BatchOnQueue'
  BY <1>1 DEF TypeOK, StackOK, TickOwed, BatchOnQueue, One
<1>7. CountsExact'
  <2> SUFFICES ASSUME NEW u \in Tasks, inner'[u] # "stuck"
               PROVE  rc'[u] = One(u \in Range(tasks')) + One(current' = u)
                                + One(inner'[u] = "some") + clones'[u]
    BY DEF CountsExact, Queued
  <2>1. rc[u] \in Nat /\ clones[u] \in Nat
    BY DEF TypeOK
  <2>2. CASE u = t
    BY <1>1, <1>2, <2>1, <2>2, TasksAssumption
    DEF TypeOK, StackOK, WakeNotLost, QueuedOnce, CountsExact, Queued, One
  <2>3. CASE u # t
    BY <1>1, <1>2, <2>1, <2>3, TasksAssumption DEF TypeOK, StackOK, CountsExact, Queued, One
  <2> QED
    BY <2>2, <2>3
<1> QED
  BY <1>3, <1>4, <1>5, <1>6, <1>7

LEMMA NextInv == IInv /\ [Next]_vars => IInv'
<1> SUFFICES ASSUME IInv, [Next]_vars
             PROVE  IInv'
  OBVIOUS
<1>1. CASE \E t \in Tasks : UserCode(t)
  BY <1>1, SpawnInv, RawCloneInv, RawDropInv, WakeQueuedInv, WakeIdleInv,
     WakeByRefInv DEF UserCode, raw_wake
<1>2. CASE run_all
  BY <1>2, BeginTickInv, BeginPollInv, RunFinishedInv, RunStuckInv, EndTickInv,
     PollPendingInv, PollReadyInv, PollUnwindsInv, PollAbortsInv DEF run_all
<1>3. CASE UNCHANGED vars
  BY <1>3 DEF vars, queueVars, tickVars, IInv, TypeOK, StackOK, WakeNotLost,
     QueuedOnce, TickOwed, BatchOnQueue, CountsExact, Queued, One
<1> QED
  BY <1>1, <1>2, <1>3 DEF Next

(* The inductive invariant holds in every reachable state. *)
THEOREM Invariance == Spec => []IInv
<1> QED
  BY InitInv, NextInv, PTL DEF Spec

(* The fields only ever hold what their types allow: no count underflows. *)
THEOREM TypeCorrect == Spec => []TypeOK
<1>1. IInv => TypeOK
  BY DEF IInv
<1> QED
  BY <1>1, Invariance, PTL

(* Task::wake may rely on is_queued: a live flagged task is on the queue. *)
THEOREM NoWakeIsLost == Spec => []WakeNotLost
<1>1. IInv => WakeNotLost
  BY DEF IInv
<1> QED
  BY <1>1, Invariance, PTL

(* No task is on the run queue twice, and none without its flag. *)
THEOREM NoTaskQueuedTwice == Spec => []QueuedOnce
<1>1. IInv => QueuedOnce
  BY DEF IInv
<1> QED
  BY <1>1, Invariance, PTL

(* is_scheduled is exact, so a queue nobody abandoned has a tick coming. *)
THEOREM ATickIsOwed == Spec => []TickOwed
<1>1. IInv => TickOwed
  BY DEF IInv
<1> QED
  BY <1>1, Invariance, PTL

(* The strong counts behind the raw wakers are exact and keep what is used *)
(* alive: no use after free, whatever is cloned, woken, dropped or unwound. *)
THEOREM ReferencesCounted == Spec => [](CountsExact /\ NoUseAfterFree)
<1>1. IInv => CountsExact
  BY DEF IInv
<1>2. IInv => NoUseAfterFree
  <2> SUFFICES ASSUME IInv, NEW t \in Tasks,
                      Queued(t) \/ current = t \/ clones[t] > 0 \/ inner[t] = "some"
               PROVE  rc[t] > 0
    BY DEF NoUseAfterFree
  <2>1. CASE Queued(t) \/ current = t \/ clones[t] > 0
    BY <2>1, CountFacts
  <2>2. CASE inner[t] = "some"
    <3>1. rc[t] = One(Queued(t)) + One(current = t) + One(inner[t] = "some") + clones[t]
      BY <2>2 DEF IInv, CountsExact
    <3> QED
      BY <3>1, <2>2, CountFacts DEF One
  <2> QED
    BY <2>1, <2>2
<1> QED
  BY <1>1, <1>2, Invariance, PTL

-----------------------------------------------------------------------------
LEMMA InitRefines == Init => Contract!Init
  BY DEF Init, Contract!Init, TaskState

(* One step per operation: which step of the contract it is, or a stutter. *)
LEMMA StepRefines ==
  IInv /\ IInv' /\ [Next]_vars => [Contract!Next]_TaskState
<1> SUFFICES ASSUME IInv, IInv', [Next]_vars
             PROVE  Contract!Next \/ UNCHANGED TaskState
  BY DEF Contract!Next
<1> USE DEF IInv, TypeOK
<1>1. ASSUME NEW t \in Tasks, spawn(t)
      PROVE  Contract!Spawn(t)
  BY <1>1, TasksAssumption
  DEF spawn, tickVars, StackOK, TaskState, Contract!Spawn, Contract!Become
<1>2. ASSUME NEW t \in Tasks, raw_clone(t) \/ raw_drop(t)
      PROVE  UNCHANGED TaskState
  BY <1>2 DEF raw_clone, raw_drop, tickVars, TaskState
<1>3. ASSUME NEW t \in Tasks, raw_wake(t) \/ raw_wake_by_ref(t)
      PROVE  Contract!Wake(t) \/ UNCHANGED TaskState
  <2>1. UNCHANGED <<inner, current>> /\ \/ UNCHANGED isQueued
                                        \/ ~isQueued[t] /\ isQueued' = [isQueued EXCEPT ![t] = TRUE]
    BY <1>3 DEF raw_wake, raw_wake_by_ref, WakeQueued, WakeIdle, tickVars
  <2>2. CASE UNCHANGED isQueued \/ inner[t] # "some"
    BY <2>1, <2>2 DEF TaskState
  <2>3. CASE ~isQueued[t] /\ isQueued' = [isQueued EXCEPT ![t] = TRUE] /\ inner[t] = "some"
    <3>1. \A u \in Tasks : u # t => TaskState'[u] = TaskState[u]
      BY <2>1, <2>3 DEF TaskState
    <3>2. CASE current = t
      BY <2>1, <2>3, <3>1, <3>2 DEF TaskState, Contract!Wake, Contract!Become
    <3>3. CASE current # t
      <4>1. TaskState[t] = "idle" /\ TaskState'[t] = "woken"
        BY <2>1, <2>3, <3>3 DEF TaskState
      <4>2. /\ TaskState = [u \in Tasks |-> TaskState[u]]
            /\ TaskState' = [u \in Tasks |-> TaskState'[u]]
        BY DEF TaskState
      <4>3. TaskState' = [TaskState EXCEPT ![t] = "woken"]
        BY <3>1, <4>1, <4>2
      <4> QED
        BY <4>1, <4>3 DEF Contract!Wake, Contract!Become
    <3> QED
      BY <3>2, <3>3
  <2> QED
    BY <2>1, <2>2, <2>3
<1>4. CASE BeginTick \/ RunFinished \/ RunStuck \/ EndTick
  <2>1. UNCHANGED <<inner, isQueued>> /\ current = None /\ current' = None
    BY <1>4, TasksAssumption
    DEF BeginTick, RunFinished, RunStuck, EndTick, LeaveTick, Pop, StackOK
  <2> QED
    BY <2>1, TasksAssumption DEF TaskState
<1>5. CASE BeginPoll
  <2> DEFINE t == Head(tasks)
  <2>1. t \in Tasks /\ Queued(t)
    BY <1>5, PopFromQueue DEF BeginPoll, Pop, Queued
  <2>2. isQueued[t] /\ current = None
    BY <1>5, <2>1 DEF BeginPoll, Pop, QueuedOnce, StackOK
  <2>3. /\ inner' = inner /\ inner[t] = "some" /\ current' = t
        /\ isQueued' = [isQueued EXCEPT ![t] = FALSE]
    BY <1>5 DEF BeginPoll
  <2> HIDE DEF t
  <2>4. Contract!Poll(t)
    BY <2>1, <2>2, <2>3, TasksAssumption
    DEF TaskState, Contract!Poll, Contract!Polling, Contract!Become
  <2> QED
    BY <2>1, <2>4 DEF Contract!Next
<1>6. CASE PollPending
  <2>1. /\ current \in Tasks /\ inner[current] = "some"
        /\ current' = None /\ UNCHANGED <<inner, isQueued>>
    BY <1>6, TasksAssumption DEF PollPending, queueVars, StackOK
  <2>2. Contract!Sleep(current)
    <3>1. \A u \in Tasks : u # current => TaskState'[u] = TaskState[u]
      BY <2>1, TasksAssumption DEF TaskState
    <3>2. CASE isQueued[current]
      <4>1. TaskState[current] = "rewoken" /\ TaskState'[current] = "woken"
        BY <2>1, <3>2, TasksAssumption DEF TaskState
      <4>2. TaskState' = [TaskState EXCEPT ![current] = "woken"]
        BY <2>1, <3>1, <4>1 DEF TaskState
      <4> QED
        BY <4>1, <4>2 DEF Contract!Sleep, Contract!Become
    <3>3. CASE ~isQueued[current]
      BY <2>1, <3>1, <3>3, TasksAssumption DEF TaskState, Contract!Sleep, Contract!Become
    <3> QED
      BY <3>2, <3>3
  <2> QED
    BY <2>1, <2>2 DEF Contract!Next
<1>7. CASE PollReady \/ PollUnwinds \/ PollAborts
  <2>1. /\ current \in Tasks /\ inner[current] = "some"
        /\ current' = None /\ UNCHANGED isQueued
        /\ \/ inner' = [inner EXCEPT ![current] = "none"]
           \/ inner' = [inner EXCEPT ![current] = "stuck"]
    BY <1>7, TasksAssumption
    DEF PollReady, PollUnwinds, PollAborts, LeaveTick, queueVars, StackOK
  <2>2. Contract!Finish(current)
    BY <2>1, TasksAssumption
    DEF TaskState, Contract!Finish, Contract!Polling, Contract!Become
  <2> QED
    BY <2>1, <2>2 DEF Contract!Next
<1>8. CASE UNCHANGED vars
  BY <1>8 DEF vars, tickVars, TaskState
<1> QED
  BY <1>1, <1>2, <1>3, <1>4, <1>5, <1>6, <1>7, <1>8
  DEF Next, UserCode, run_all, Contract!Next

(* The queue implements the contract: no lost wake, no spurious or nested  *)
(* poll, no poll after the end, whatever panics and whatever is dropped.   *)
THEOREM Refinement == Spec => ImplementsContract
<1> QED
  BY InitRefines, StepRefines, Invariance, PTL
  DEF Spec, ImplementsContract, Contract!Spec
=============================================================================
