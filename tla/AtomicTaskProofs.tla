--------------------------- MODULE AtomicTaskProofs ---------------------------
(***************************************************************************)
(* Proofs about AtomicTask, for any number of tasks, wakers and helpers,   *)
(* with Atomics.waitAsync or without: a task is in one place, polled only  *)
(* when AWAKE, and a helper waits for one task.                            *)
(***************************************************************************)
EXTENDS AtomicTask, SequenceTheorems, TLAPS

\* Whoever is about to run is AWAKE: made so by what brought it there, or never
\* put to sleep yet.
Awake ==
  /\ pc \in {"run", "notify"} => state[current] = "AWAKE"
  /\ \A t \in Range(runQueue) : state[t] = "AWAKE"
  /\ \A t \in Tasks : inner[t] = "unborn" => state[t] = "AWAKE"
  /\ pc = "idle" <=> current = None

\* A first run is due once.
QueuedOnce == IsInjective(runQueue)

\* Nobody needs a helper where there is Atomics.waitAsync.
NativeAlone ==
  ~Polyfill => /\ \A t \in Tasks : posted[t] = 0 /\ answered[t] = 0 /\ helperOf[t] = None
               /\ pool = <<>>

IInv == TypeOK /\ OneActivation /\ QueuedOnce /\ Awake /\ HelperExclusive /\ NativeAlone

-----------------------------------------------------------------------------
LEMMA MinOfTwo ==
  ASSUME NEW m \in Nat, NEW n \in Nat
  PROVE  Min({m, n}) = IF m <= n THEN m ELSE n
<1>1. CASE m <= n
  <2>1. m \in {m, n} /\ \A y \in {m, n} : m <= y
    BY <1>1
  <2>2. \A x \in {m, n} : (\A y \in {m, n} : x <= y) => x = m
    BY <1>1
  <2> QED
    BY <2>1, <2>2, <1>1 DEF Min
<1>2. CASE ~(m <= n)
  <2>1. n \in {m, n} /\ \A y \in {m, n} : n <= y
    BY <1>2
  <2>2. \A x \in {m, n} : (\A y \in {m, n} : x <= y) => x = n
    BY <1>2
  <2> QED
    BY <2>1, <2>2, <1>2 DEF Min
<1> QED
  BY <1>1, <1>2

LEMMA RangeOf ==
  ASSUME NEW S, NEW q \in Seq(S)
  PROVE  Range(q) = {q[i] : i \in 1..Len(q)}
<1>1. DOMAIN q = 1..Len(q)
  BY LenProperties
<1> QED
  BY <1>1 DEF Range

LEMMA Types ==
  ASSUME TypeOK
  PROVE  /\ waiters \in [Tasks -> Nat] /\ posted \in [Tasks -> Nat]
         /\ answered \in [Tasks -> Nat] /\ resolved \in [Tasks -> Nat]
BY DEF TypeOK

\* A queue that loses its head, or gets a task it does not hold.
LEMMA TailQueue ==
  ASSUME NEW S, NEW q \in Seq(S), q # <<>>, IsInjective(q)
  PROVE  /\ Head(q) \in S /\ Tail(q) \in Seq(S) /\ IsInjective(Tail(q))
         /\ Head(q) \in Range(q) /\ Range(Tail(q)) = Range(q) \ {Head(q)}
<1>1. /\ Len(q) \in Nat /\ Len(q) # 0 /\ DOMAIN q = 1..Len(q)
  BY EmptySeq, LenProperties
<1>2. /\ Head(q) \in S /\ Head(q) = q[1] /\ Tail(q) \in Seq(S) /\ Len(Tail(q)) = Len(q) - 1
      /\ \A i \in 1..Len(Tail(q)) : Tail(q)[i] = q[i + 1]
  BY HeadTailProperties
<1>3. DOMAIN Tail(q) = 1..Len(q) - 1
  BY <1>2, LenProperties
<1>4. \A i, j \in 1..Len(q) : q[i] = q[j] => i = j
  BY <1>1 DEF IsInjective
<1>5. IsInjective(Tail(q))
  <2> SUFFICES ASSUME NEW i \in 1..Len(q) - 1, NEW j \in 1..Len(q) - 1, Tail(q)[i] = Tail(q)[j]
               PROVE  i = j
    BY <1>3 DEF IsInjective
  <2>1. q[i + 1] = q[j + 1] /\ i + 1 \in 1..Len(q) /\ j + 1 \in 1..Len(q)
    BY <1>1, <1>2
  <2> QED
    BY <2>1, <1>4
<1>6. Head(q) \in Range(q)
  BY <1>1, <1>2 DEF Range
<1>7. Range(Tail(q)) = Range(q) \ {Head(q)}
  <2>1. \A x \in Range(Tail(q)) : x \in Range(q) /\ x # Head(q)
    <3> TAKE x \in Range(Tail(q))
    <3>1. PICK i \in 1..Len(q) - 1 : x = Tail(q)[i]
      BY <1>3 DEF Range
    <3>2. x = q[i + 1] /\ i + 1 \in 1..Len(q) /\ i + 1 # 1 /\ 1 \in 1..Len(q)
      BY <3>1, <1>1, <1>2
    <3> QED
      BY <3>2, <1>1, <1>2, <1>4 DEF Range
  <2>2. \A x \in Range(q) : x # Head(q) => x \in Range(Tail(q))
    <3> TAKE x \in Range(q)
    <3> HAVE x # Head(q)
    <3>1. PICK i \in 1..Len(q) : x = q[i]
      BY <1>1 DEF Range
    <3>2. i # 1
      BY <3>1, <1>2
    <3>3. i - 1 \in 1..Len(q) - 1 /\ i - 1 + 1 = i
      BY <3>2, <1>1
    <3>4. x = Tail(q)[i - 1]
      BY <3>1, <3>3, <1>2
    <3> QED
      BY <3>3, <3>4, <1>3 DEF Range
  <2> QED
    BY <2>1, <2>2
<1> QED
  BY <1>2, <1>5, <1>6, <1>7

LEMMA AppendQueue ==
  ASSUME NEW S, NEW q \in Seq(S), IsInjective(q), NEW x \in S, x \notin Range(q)
  PROVE  /\ Append(q, x) \in Seq(S) /\ IsInjective(Append(q, x))
         /\ Range(Append(q, x)) = Range(q) \cup {x} /\ Len(Append(q, x)) = Len(q) + 1
<1> DEFINE r == Append(q, x)
<1>1. /\ Len(q) \in Nat /\ DOMAIN q = 1..Len(q)
  BY LenProperties
<1>2. /\ r \in Seq(S) /\ Len(r) = Len(q) + 1 /\ r[Len(q) + 1] = x
      /\ \A i \in 1..Len(q) : r[i] = q[i]
  BY AppendProperties
<1>3. DOMAIN r = 1..Len(q) + 1
  BY <1>2, LenProperties
<1>4. \A i \in 1..Len(q) + 1 : i \in 1..Len(q) \/ i = Len(q) + 1
  BY <1>1
<1>5. \A i \in 1..Len(q) : q[i] # x
  BY <1>1 DEF Range
<1>6. \A i, j \in 1..Len(q) : q[i] = q[j] => i = j
  BY <1>1 DEF IsInjective
<1>7. IsInjective(r)
  BY <1>2, <1>3, <1>4, <1>5, <1>6 DEF IsInjective
<1>8. Range(r) = Range(q) \cup {x}
  <2>1. 1..Len(q) + 1 = 1..Len(q) \cup {Len(q) + 1}
    BY <1>1
  <2> QED
    BY <2>1, <1>1, <1>2, <1>3 DEF Range
<1> QED
  BY <1>2, <1>7, <1>8

\* The first few of a sequence.
LEMMA PrefixQueue ==
  ASSUME NEW S, NEW q \in Seq(S), IsInjective(q), NEW n \in 0..Len(q)
  PROVE  /\ SubSeq(q, 1, n) \in Seq(S) /\ IsInjective(SubSeq(q, 1, n))
         /\ Len(SubSeq(q, 1, n)) = n
         /\ \A x \in Range(SubSeq(q, 1, n)) : \E i \in 1..n : x = q[i]
<1> DEFINE r == SubSeq(q, 1, n)
<1>1. /\ Len(q) \in Nat /\ DOMAIN q = 1..Len(q) /\ n \in Int /\ n - 1 + 1 = n /\ 1 \in Int
      /\ \A i \in 1..n : 1 + i - 1 = i /\ i \in 1..Len(q)
  BY LenProperties
<1>2. \A i \in 1..n : q[i] \in S
  BY <1>1, ElementOfSeq
<1>3. /\ r \in Seq(S) /\ Len(r) = (IF 1 <= n THEN n - 1 + 1 ELSE 0)
      /\ \A i \in 1..n - 1 + 1 : r[i] = q[1 + i - 1]
  BY <1>1, <1>2, SubSeqProperties
<1>4. Len(r) = n
  BY <1>1, <1>3
<1>5. \A i \in 1..n : r[i] = q[i]
  BY <1>1, <1>3
<1>6. DOMAIN r = 1..n
  BY <1>3, <1>4, LenProperties
<1>7. \A i, j \in 1..Len(q) : q[i] = q[j] => i = j
  BY <1>1 DEF IsInjective
<1>8. IsInjective(r)
  BY <1>1, <1>5, <1>6, <1>7 DEF IsInjective
<1>9. \A x \in Range(r) : \E i \in 1..n : x = q[i]
  BY <1>5, <1>6 DEF Range
<1> QED
  BY <1>3, <1>4, <1>8, <1>9

LEMMA InitInv == Init => IInv
<1> SUFFICES ASSUME Init PROVE IInv
  OBVIOUS
<1>1. TypeOK
  <2>1. isScheduled \in BOOLEAN /\ inTick \in BOOLEAN /\ abandoned \in BOOLEAN
    BY DEF Init
  <2> QED
    BY <2>1 DEF Init, TypeOK
<1>2. Range(runQueue) = {} /\ IsInjective(runQueue) /\ IsInjective(pool) /\ Range(pool) = {}
  BY DEF Init, Range, IsInjective
<1>3. OneActivation
  BY <1>2, AtomicTaskAssumption DEF Init, OneActivation, Requests, One
<1>4. Awake /\ QueuedOnce /\ NativeAlone
  BY <1>2 DEF Init, Awake, QueuedOnce, NativeAlone
<1>5. HelperExclusive
  BY <1>2, AtomicTaskAssumption DEF Init, HelperExclusive, Requests
<1> QED
  BY <1>1, <1>3, <1>4, <1>5 DEF IInv

-----------------------------------------------------------------------------
(***************************************************************************)
(* Steps that move no task.                                                *)
(***************************************************************************)
\* Where tasks are, and which helper waits for whom.
places == <<runQueue, current, inner, waitVars, poolVars>>

LEMMA PlacesKept ==
  ASSUME IInv, UNCHANGED places, UNCHANGED host
  PROVE  OneActivation' /\ QueuedOnce' /\ HelperExclusive' /\ NativeAlone'
<1>1. /\ runQueue' = runQueue /\ current' = current /\ inner' = inner /\ host' = host
      /\ waiters' = waiters /\ posted' = posted /\ answered' = answered /\ resolved' = resolved
      /\ pool' = pool /\ helperOf' = helperOf
  BY DEF places, waitVars, poolVars
<1>2. OneActivation'
  BY <1>1 DEF IInv, OneActivation, Requests
<1>3. QueuedOnce' /\ NativeAlone'
  BY <1>1 DEF IInv, QueuedOnce, NativeAlone, Polyfill
<1>4. HelperExclusive'
  BY <1>1 DEF IInv, HelperExclusive, Requests, BusyHelpers, Polyfill
<1> QED
  BY <1>2, <1>3, <1>4

LEMMA QueueType == ASSUME TypeOK PROVE \A t \in Range(runQueue) : t \in Tasks
<1>1. runQueue \in Seq(Tasks)
  BY DEF TypeOK
<1>2. \A i \in 1..Len(runQueue) : runQueue[i] \in Tasks
  BY <1>1, ElementOfSeq
<1>3. Range(runQueue) = {runQueue[i] : i \in 1..Len(runQueue)}
  BY <1>1, RangeOf
<1> QED
  BY <1>2, <1>3

LEMMA HandInv == ASSUME IInv, NEW w \in Wakers, Hand(w) PROVE IInv'
<1>1. UNCHANGED places /\ UNCHANGED <<host, state, inner, pc, current, runQueue>>
  BY DEF Hand, places, homeVars, tickVars, poolVars, waitVars
<1>2. current \in Tasks
  BY DEF IInv, TypeOK, Awake, Hand
<1>3. TypeOK'
  BY <1>2 DEF IInv, TypeOK, Hand, homeVars, tickVars, poolVars, waitVars
<1>4. Awake'
  BY <1>1 DEF IInv, Awake
<1> QED
  BY <1>1, <1>3, <1>4, PlacesKept DEF IInv

LEMMA DropWakerInv ==
  ASSUME IInv, NEW w \in Wakers, NEW t \in Tasks, DropWaker(w, t) PROVE IInv'
<1>1. UNCHANGED places /\ UNCHANGED <<host, state, inner, pc, current, runQueue>>
  BY DEF DropWaker, places, homeVars, tickVars, poolVars, waitVars
<1>3. TypeOK'
  BY DEF IInv, TypeOK, DropWaker, homeVars, tickVars, poolVars, waitVars
<1>4. Awake'
  BY <1>1 DEF IInv, Awake
<1> QED
  BY <1>1, <1>3, <1>4, PlacesKept DEF IInv

LEMMA SwapInv ==
  ASSUME IInv, NEW w \in Wakers, NEW t \in Tasks, Swap(w, t) PROVE IInv'
<1>1. /\ UNCHANGED places /\ UNCHANGED <<host, inner, pc, current, runQueue>>
      /\ state' = [state EXCEPT ![t] = "AWAKE"]
  BY DEF Swap, places, homeVars, tickVars, poolVars, waitVars
<1>3. TypeOK'
  BY DEF IInv, TypeOK, Swap, homeVars, tickVars, poolVars, waitVars
<1>4. Awake'
  <2>1. \A u \in Tasks : state[u] = "AWAKE" => state'[u] = "AWAKE"
    BY <1>1 DEF IInv, TypeOK
  <2>2. \A u \in Range(runQueue) : u \in Tasks
    BY QueueType DEF IInv
  <2>3. pc \in {"run", "notify"} => current \in Tasks
    BY DEF IInv, TypeOK, Awake
  <2> QED
    BY <1>1, <2>1, <2>2, <2>3 DEF IInv, Awake
<1> QED
  BY <1>1, <1>3, <1>4, PlacesKept DEF IInv

\* A tick begins or ends.
LEMMA TickInv == ASSUME IInv, BeginTick \/ EndTick PROVE IInv'
<1>1. UNCHANGED places /\ UNCHANGED <<host, state, inner, pc, current, runQueue, holders, notifying>>
  BY DEF BeginTick, EndTick, places, poolVars, waitVars
<1>2. /\ left' \in {0, Len(runQueue)}
      /\ inTick' \in BOOLEAN /\ isScheduled' \in BOOLEAN /\ abandoned' \in BOOLEAN
  BY DEF BeginTick, EndTick, IInv, TypeOK
<1>3. Len(runQueue) \in Nat
  BY LenProperties DEF IInv, TypeOK
<1>4. TypeOK'
  BY <1>1, <1>2, <1>3 DEF IInv, TypeOK, places, poolVars, waitVars
<1>5. Awake'
  BY <1>1 DEF IInv, Awake
<1> QED
  BY <1>1, <1>4, <1>5, PlacesKept DEF IInv

LEMMA FallAsleepInv == ASSUME IInv, FallAsleep PROVE IInv'
<1>1. /\ UNCHANGED places /\ UNCHANGED <<host, inner, current, runQueue>>
      /\ pc = "run" /\ pc' = "poll" /\ inner[current] = "some"
      /\ state' = [state EXCEPT ![current] = "SLEEPING"]
  BY DEF FallAsleep, places, homeVars, tickVars, poolVars, waitVars
<1>2. current \in Tasks
  BY <1>1 DEF IInv, TypeOK, Awake
<1>3. TypeOK'
  BY <1>2 DEF IInv, TypeOK, FallAsleep, homeVars, tickVars, poolVars, waitVars
<1>4. current \notin Range(runQueue)
  <2>1. /\ One(current \in Range(runQueue)) + One(current = current) + Requests(current)
             + resolved[current] = One(inner[current] = "some")
        /\ Requests(current) \in Nat /\ resolved[current] \in Nat
    BY <1>2 DEF IInv, OneActivation, TypeOK, Requests
  <2> QED
    BY <2>1 DEF One
<1>5. Awake'
  <2>1. \A u \in Range(runQueue) : u \in Tasks
    BY QueueType DEF IInv
  <2>2. \A u \in Range(runQueue) : state'[u] = state[u]
    BY <2>1, <1>1, <1>4 DEF IInv, TypeOK
  <2>3. \A u \in Tasks : inner[u] = "unborn" => state'[u] = state[u]
    BY <1>1 DEF IInv, TypeOK
  <2> QED
    BY <1>1, <2>2, <2>3 DEF IInv, Awake
<1> QED
  BY <1>1, <1>3, <1>5, PlacesKept DEF IInv

LEMMA AnswerInv == ASSUME IInv, PollPending \/ WaitAsyncNotEqual PROVE IInv'
<1>1. /\ UNCHANGED places /\ UNCHANGED <<host, state, inner, current, runQueue, holders, notifying, tickVars>>
      /\ \/ pc = "poll" /\ pc' = "wait"
         \/ pc = "wait" /\ pc' = "run" /\ state[current] # "SLEEPING"
  BY DEF PollPending, WaitAsyncNotEqual, places, homeVars, tickVars, poolVars, waitVars
<1>2. current \in Tasks
  BY <1>1 DEF IInv, TypeOK, Awake
<1>3. TypeOK'
  BY <1>1 DEF IInv, TypeOK, places, poolVars, waitVars, tickVars
<1>4. Awake'
  BY <1>1, <1>2 DEF IInv, Awake, TypeOK
<1> QED
  BY <1>1, <1>3, <1>4, PlacesKept DEF IInv

-----------------------------------------------------------------------------
(***************************************************************************)
(* Steps that move a task: from its waiter to its answer, its closure call *)
(* or its first run, and so on.                                            *)
(***************************************************************************)

\* OneActivation, for one task.
ActiveOnce(t) ==
  One(t \in Range(runQueue)) + One(current = t) + Requests(t) + resolved[t]
    = One(inner[t] = "some")

LEMMA Actives == OneActivation <=> \A t \in Tasks : ActiveOnce(t)
BY DEF OneActivation, ActiveOnce

\* What the helpers need when their requests change and they do not.
LEMMA HelpersKept ==
  ASSUME IInv, UNCHANGED <<host, poolVars>>,
         \A t \in Tasks : Requests(t)' = Requests(t) \/ ~Polyfill
  PROVE  HelperExclusive'
<1>1. host' = host /\ pool' = pool /\ helperOf' = helperOf
  BY DEF poolVars
<1>2. Polyfill' => \A t \in Tasks : helperOf'[t] = None <=> Requests(t)' = 0
  BY <1>1 DEF IInv, HelperExclusive, Polyfill
<1> QED
  BY <1>1, <1>2 DEF IInv, HelperExclusive, BusyHelpers

LEMMA WakeMoves ==
  ASSUME TypeOK, NativeAlone, NEW t \in Tasks, WakeWaiter(t)
  PROVE  /\ waiters' \in [Tasks -> Nat] /\ posted' \in [Tasks -> Nat]
         /\ answered' \in [Tasks -> Nat] /\ resolved' \in [Tasks -> Nat]
         /\ \A u \in Tasks : Requests(u)' + resolved'[u] = Requests(u) + resolved[u]
         /\ Polyfill => \A u \in Tasks : Requests(u)' = Requests(u)
         /\ ~Polyfill => posted' = posted /\ answered' = answered
<1>1. /\ waiters \in [Tasks -> Nat] /\ posted \in [Tasks -> Nat]
      /\ answered \in [Tasks -> Nat] /\ resolved \in [Tasks -> Nat]
  BY Types
<1>2. CASE waiters[t] = 0
  <2>1. waiters' = waiters /\ posted' = posted /\ answered' = answered /\ resolved' = resolved
    BY <1>2 DEF WakeWaiter, waitVars
  <2> QED
    BY <2>1, <1>1 DEF Requests
<1>3. CASE waiters[t] # 0
  <2>1. /\ waiters' = [waiters EXCEPT ![t] = waiters[t] - 1] /\ posted' = posted
        /\ Polyfill => answered' = [answered EXCEPT ![t] = answered[t] + 1] /\ resolved' = resolved
        /\ ~Polyfill => resolved' = [resolved EXCEPT ![t] = resolved[t] + 1] /\ answered' = answered
    BY <1>3 DEF WakeWaiter, Inc, Dec
  <2>2. waiters[t] - 1 \in Nat /\ answered[t] + 1 \in Nat /\ resolved[t] + 1 \in Nat
    BY <1>1, <1>3
  <2>3. CASE Polyfill
    BY <2>1, <2>2, <2>3, <1>1 DEF Requests
  <2>4. CASE ~Polyfill
    BY <2>1, <2>2, <2>4, <1>1 DEF Requests
  <2> QED
    BY <2>3, <2>4
<1> QED
  BY <1>2, <1>3

LEMMA NotifyInv ==
  ASSUME IInv, NEW t \in Tasks, WakeWaiter(t),
         \/ \E w \in Wakers : notifying[w] = t /\ Notify(w)
         \/ current = t /\ NotifySelf
  PROVE  IInv'
<1>1. /\ UNCHANGED <<host, state, inner, runQueue, holders, current, tickVars, poolVars>>
      /\ pool' = pool /\ helperOf' = helperOf
  BY DEF Notify, NotifySelf, homeVars, tickVars, poolVars
<1>2. \/ pc' = pc /\ \E w \in Wakers : notifying' = [notifying EXCEPT ![w] = None]
      \/ pc = "notify" /\ pc' = "run" /\ notifying' = notifying
  BY DEF Notify, NotifySelf, homeVars, tickVars
<1>3. /\ waiters' \in [Tasks -> Nat] /\ posted' \in [Tasks -> Nat]
      /\ answered' \in [Tasks -> Nat] /\ resolved' \in [Tasks -> Nat]
      /\ \A u \in Tasks : Requests(u)' + resolved'[u] = Requests(u) + resolved[u]
      /\ Polyfill => \A u \in Tasks : Requests(u)' = Requests(u)
      /\ ~Polyfill => posted' = posted /\ answered' = answered
  BY WakeMoves DEF IInv
<1>4. TypeOK'
  BY <1>1, <1>2, <1>3 DEF IInv, TypeOK, tickVars
<1>5. OneActivation'
  <2> SUFFICES ASSUME NEW u \in Tasks PROVE ActiveOnce(u)'
    BY DEF OneActivation, ActiveOnce
  <2>1. ActiveOnce(u)
    BY Actives DEF IInv
  <2>2. /\ Requests(u) \in Nat /\ resolved[u] \in Nat /\ Requests(u)' \in Nat /\ resolved'[u] \in Nat
        /\ \A b \in BOOLEAN : One(b) \in Nat
    BY <1>3, Types DEF IInv, Requests, One
  <2>3. One(u \in Range(runQueue)) \in Nat /\ One(current = u) \in Nat
    BY DEF One
  <2>4. Requests(u)' + resolved'[u] = Requests(u) + resolved[u]
    BY <1>3
  <2> HIDE DEF Requests, One
  <2>5. One(u \in Range(runQueue)) + One(current = u) + Requests(u)' + resolved'[u]
          = One(u \in Range(runQueue)) + One(current = u) + Requests(u) + resolved[u]
    BY <2>2, <2>3, <2>4
  <2> QED
    BY <2>1, <2>5, <1>1 DEF ActiveOnce
<1>6. Awake'
  BY <1>1, <1>2 DEF IInv, Awake
<1>7. HelperExclusive'
  BY <1>1, <1>3, HelpersKept
<1>8. QueuedOnce' /\ NativeAlone'
  BY <1>1, <1>3 DEF IInv, QueuedOnce, NativeAlone, Polyfill
<1> QED
  BY <1>4, <1>5, <1>6, <1>7, <1>8 DEF IInv

LEMMA SpawnInv == ASSUME IInv, NEW t \in Tasks, spawn(t) PROVE IInv'
<1>1. /\ UNCHANGED <<host, state, holders, notifying, pc, current, inTick, left, abandoned, poolVars>>
      /\ isScheduled' = TRUE
      /\ waiters' = waiters /\ posted' = posted /\ answered' = answered /\ resolved' = resolved
      /\ pool' = pool /\ helperOf' = helperOf /\ inner[t] = "unborn"
      /\ inner' = [inner EXCEPT ![t] = "some"] /\ runQueue' = Append(runQueue, t)
  BY DEF spawn, waitVars, homeVars, tickVars, poolVars
<1>2. /\ waiters \in [Tasks -> Nat] /\ posted \in [Tasks -> Nat]
      /\ answered \in [Tasks -> Nat] /\ resolved \in [Tasks -> Nat]
  BY Types DEF IInv
<1>3. t \notin Range(runQueue) /\ current # t /\ Requests(t) = 0 /\ resolved[t] = 0
  <2>1. ActiveOnce(t)
    BY Actives DEF IInv
  <2>2. Requests(t) \in Nat /\ resolved[t] \in Nat
    BY <1>2 DEF Requests
  <2> QED
    BY <2>1, <2>2, <1>1 DEF ActiveOnce, One
<1>4. /\ runQueue' \in Seq(Tasks) /\ IsInjective(runQueue')
      /\ Range(runQueue') = Range(runQueue) \cup {t}
  BY <1>1, <1>3, AppendQueue DEF IInv, TypeOK, QueuedOnce
<1>5. TypeOK'
  BY <1>1, <1>2, <1>4 DEF IInv, TypeOK
<1>6. OneActivation'
  <2> SUFFICES ASSUME NEW u \in Tasks PROVE ActiveOnce(u)'
    BY DEF OneActivation, ActiveOnce
  <2>1. ActiveOnce(u)
    BY Actives DEF IInv
  <2>2. Requests(u)' = Requests(u)
    BY <1>1 DEF Requests
  <2>3. CASE u = t
    <3>1. inner'[u] = "some" /\ u \in Range(runQueue')
      BY <2>3, <1>1, <1>4 DEF IInv, TypeOK
    <3> QED
      BY <2>2, <2>3, <3>1, <1>1, <1>3 DEF ActiveOnce, One
  <2>4. CASE u # t
    <3>1. inner'[u] = inner[u] /\ (u \in Range(runQueue') <=> u \in Range(runQueue))
      BY <2>4, <1>1, <1>4 DEF IInv, TypeOK
    <3> QED
      BY <2>1, <2>2, <3>1, <1>1 DEF ActiveOnce, One
  <2> QED
    BY <2>3, <2>4
<1>7. Awake'
  <2>1. inner[t] = "unborn" => state[t] = "AWAKE"
    BY DEF IInv, Awake
  <2>2. \A u \in Tasks : inner'[u] = "unborn" => inner[u] = "unborn"
    BY <1>1 DEF IInv, TypeOK
  <2> QED
    BY <1>1, <1>4, <2>1, <2>2 DEF IInv, Awake
<1>8. HelperExclusive' /\ QueuedOnce' /\ NativeAlone'
  BY <1>1, <1>4, HelpersKept DEF IInv, QueuedOnce, NativeAlone, Polyfill, Requests
<1> QED
  BY <1>5, <1>6, <1>7, <1>8 DEF IInv

\* Of the places of a task all but one are empty.
LEMMA Places ==
  ASSUME IInv, NEW t \in Tasks
  PROVE  /\ Requests(t) \in Nat /\ resolved[t] \in Nat
         /\ waiters[t] \in Nat /\ posted[t] \in Nat /\ answered[t] \in Nat
         /\ current = t =>
              t \notin Range(runQueue) /\ Requests(t) = 0 /\ resolved[t] = 0 /\ inner[t] = "some"
         /\ t \in Range(runQueue) =>
              current # t /\ Requests(t) = 0 /\ resolved[t] = 0 /\ inner[t] = "some"
         /\ Requests(t) > 0 =>
              /\ Requests(t) = 1 /\ resolved[t] = 0
              /\ current # t /\ t \notin Range(runQueue) /\ inner[t] = "some"
         /\ resolved[t] > 0 =>
              /\ resolved[t] = 1 /\ Requests(t) = 0
              /\ current # t /\ t \notin Range(runQueue) /\ inner[t] = "some"
<1>1. ActiveOnce(t)
  BY Actives DEF IInv
<1>2. /\ Requests(t) \in Nat /\ resolved[t] \in Nat
      /\ waiters[t] \in Nat /\ posted[t] \in Nat /\ answered[t] \in Nat
  BY Types DEF IInv, Requests
<1> QED
  BY <1>1, <1>2 DEF ActiveOnce, One

\* One task moves from a place to another, the rest stay.
LEMMA MoveOne ==
  ASSUME IInv, NEW t \in Tasks,
         inner' = inner \/ inner' = [inner EXCEPT ![t] = "none"],
         \A u \in Tasks \ {t} :
           /\ u \in Range(runQueue') <=> u \in Range(runQueue)
           /\ current' = u <=> current = u
           /\ Requests(u)' = Requests(u) /\ resolved'[u] = resolved[u],
         ActiveOnce(t)'
  PROVE  OneActivation'
<1> SUFFICES ASSUME NEW u \in Tasks \ {t} PROVE ActiveOnce(u)'
  BY DEF OneActivation, ActiveOnce
<1>1. ActiveOnce(u)
  BY Actives DEF IInv
<1>2. inner'[u] = inner[u]
  BY DEF IInv, TypeOK
<1> QED
  BY <1>1, <1>2 DEF ActiveOnce

LEMMA FirstRunInv == ASSUME IInv, FirstRun PROVE IInv'
<1>1. /\ pc = "idle" /\ runQueue # <<>> /\ runQueue' = Tail(runQueue)
      /\ pc' = "run" /\ current' = Head(runQueue)
      /\ left > 0 /\ left' = left - 1
      /\ UNCHANGED <<host, state, inner, holders, notifying, isScheduled, inTick, abandoned>>
      /\ waiters' = waiters /\ posted' = posted /\ answered' = answered /\ resolved' = resolved
      /\ pool' = pool /\ helperOf' = helperOf
  BY DEF FirstRun, waitVars, poolVars
<1>2. PICK t \in Tasks :
         /\ t = Head(runQueue) /\ Tail(runQueue) \in Seq(Tasks) /\ IsInjective(Tail(runQueue))
         /\ t \in Range(runQueue) /\ Range(Tail(runQueue)) = Range(runQueue) \ {t}
  BY <1>1, TailQueue DEF IInv, TypeOK, QueuedOnce
<1>3. Requests(t) = 0 /\ resolved[t] = 0 /\ inner[t] = "some"
  BY <1>2, Places
<1>4. current = None /\ None \notin Tasks
  BY <1>1, AtomicTaskAssumption DEF IInv, Awake
<1>5. \A u \in Tasks : Requests(u)' = Requests(u)
  BY <1>1 DEF Requests
<1>6. ActiveOnce(t)'
  BY <1>1, <1>2, <1>3, <1>5 DEF ActiveOnce, One
<1>7. OneActivation'
  BY <1>1, <1>2, <1>4, <1>5, <1>6, MoveOne
<1>8. TypeOK'
  BY <1>1, <1>2 DEF IInv, TypeOK
<1>9. Awake'
  BY <1>1, <1>2, <1>4 DEF IInv, Awake
<1>10. HelperExclusive' /\ QueuedOnce' /\ NativeAlone'
  BY <1>1, <1>2, <1>5, HelpersKept DEF IInv, QueuedOnce, NativeAlone, Polyfill, poolVars
<1> QED
  BY <1>7, <1>8, <1>9, <1>10 DEF IInv

LEMMA ResumeInv == ASSUME IInv, NEW t \in Tasks, Resume(t) PROVE IInv'
<1>1. /\ pc = "idle" /\ resolved[t] > 0 /\ resolved' = [resolved EXCEPT ![t] = resolved[t] - 1]
      /\ state' = [state EXCEPT ![t] = "AWAKE"]
      /\ pc' \in {"run", "notify"} /\ current' = t
      /\ UNCHANGED <<host, runQueue, inner, holders, notifying, tickVars>>
      /\ waiters' = waiters /\ posted' = posted /\ answered' = answered
      /\ pool' = pool /\ helperOf' = helperOf
  BY DEF Resume, Free, poolVars, Dec
<1>2. resolved[t] = 1 /\ Requests(t) = 0 /\ t \notin Range(runQueue) /\ inner[t] = "some"
  BY <1>1, Places
<1>3. current = None /\ None \notin Tasks
  BY <1>1, AtomicTaskAssumption DEF IInv, Awake
<1>4. \A u \in Tasks : Requests(u)' = Requests(u)
  BY <1>1 DEF Requests
<1>5. resolved \in [Tasks -> Nat] /\ resolved' \in [Tasks -> Nat] /\ resolved'[t] = 0
  BY <1>1, <1>2, Types DEF IInv
<1>6. ActiveOnce(t)'
  BY <1>1, <1>2, <1>4, <1>5 DEF ActiveOnce, One
<1>7. OneActivation'
  BY <1>1, <1>3, <1>4, <1>5, <1>6, MoveOne
<1>8. TypeOK'
  BY <1>1, <1>5 DEF IInv, TypeOK, tickVars
<1>9. Awake'
  <2>1. \A u \in Tasks : (state[u] = "AWAKE" => state'[u] = "AWAKE") /\ state'[t] = "AWAKE"
    BY <1>1 DEF IInv, TypeOK
  <2>2. \A u \in Range(runQueue) : u \in Tasks
    BY QueueType DEF IInv
  <2> QED
    BY <1>1, <1>3, <2>1, <2>2 DEF IInv, Awake
<1>10. HelperExclusive' /\ QueuedOnce' /\ NativeAlone'
  BY <1>1, <1>4, HelpersKept DEF IInv, QueuedOnce, NativeAlone, Polyfill, poolVars
<1> QED
  BY <1>7, <1>8, <1>9, <1>10 DEF IInv

LEMMA PollEndsInv == ASSUME IInv, PollReady \/ PollUnwinds PROVE IInv'
<1>1. /\ pc = "poll" /\ inner' = [inner EXCEPT ![current] = "none"]
      /\ pc' = "idle" /\ current' = None
      /\ UNCHANGED <<host, state, runQueue, holders, notifying>>
      /\ waiters' = waiters /\ posted' = posted /\ answered' = answered /\ resolved' = resolved
      /\ pool' = pool /\ helperOf' = helperOf
  BY DEF PollReady, PollUnwinds, Return, waitVars, poolVars
<1>t. /\ left' \in {0, left}
      /\ inTick' \in BOOLEAN /\ isScheduled' \in BOOLEAN /\ abandoned' \in BOOLEAN
  BY DEF PollReady, PollUnwinds, tickVars, IInv, TypeOK
<1>2. current \in Tasks /\ None \notin Tasks
  BY <1>1, AtomicTaskAssumption DEF IInv, TypeOK, Awake
<1>3. Requests(current) = 0 /\ resolved[current] = 0 /\ current \notin Range(runQueue)
  BY <1>2, Places
<1>4. \A u \in Tasks : Requests(u)' = Requests(u)
  BY <1>1 DEF Requests
<1>5. inner'[current] = "none"
  BY <1>1, <1>2 DEF IInv, TypeOK
<1>6. PICK t \in Tasks : t = current
  BY <1>2
<1>7. ActiveOnce(t)'
  BY <1>1, <1>2, <1>3, <1>4, <1>5, <1>6 DEF ActiveOnce, One
<1>8. OneActivation'
  BY <1>1, <1>2, <1>4, <1>6, <1>7, MoveOne
<1>9. TypeOK'
  BY <1>1, <1>2, <1>t DEF IInv, TypeOK
<1>10. Awake'
  <2>1. \A u \in Tasks : inner'[u] = "unborn" => inner[u] = "unborn"
    BY <1>1 DEF IInv, TypeOK
  <2> QED
    BY <1>1, <2>1 DEF IInv, Awake
<1>11. HelperExclusive' /\ QueuedOnce' /\ NativeAlone'
  BY <1>1, <1>4, HelpersKept DEF IInv, QueuedOnce, NativeAlone, Polyfill, poolVars
<1> QED
  BY <1>8, <1>9, <1>10, <1>11 DEF IInv

LEMMA WaitAsyncInv == ASSUME IInv, WaitAsync PROVE IInv'
<1>1. /\ pc = "wait" /\ ~Polyfill /\ waiters' = [waiters EXCEPT ![current] = waiters[current] + 1]
      /\ pc' = "idle" /\ current' = None
      /\ UNCHANGED <<host, state, inner, runQueue, holders, notifying, tickVars>>
      /\ posted' = posted /\ answered' = answered /\ resolved' = resolved
      /\ pool' = pool /\ helperOf' = helperOf
  BY DEF WaitAsync, Return, Inc, poolVars
<1>2. PICK t \in Tasks : t = current
  BY <1>1 DEF IInv, TypeOK, Awake
<1>3. Requests(t) = 0 /\ resolved[t] = 0 /\ t \notin Range(runQueue) /\ inner[t] = "some"
  BY <1>2, Places
<1>4. waiters \in [Tasks -> Nat] /\ waiters' \in [Tasks -> Nat]
  BY <1>1, <1>2, Types DEF IInv
<1>5. Requests(t)' = 1 /\ \A u \in Tasks \ {t} : Requests(u)' = Requests(u)
  <2>1. waiters'[t] = waiters[t] + 1 /\ \A u \in Tasks \ {t} : waiters'[u] = waiters[u]
    BY <1>1, <1>2, <1>4
  <2>2. waiters[t] \in Nat /\ posted[t] \in Nat /\ answered[t] \in Nat
    BY Places
  <2> QED
    BY <2>1, <2>2, <1>1, <1>3 DEF Requests
<1>6. None \notin Tasks
  BY AtomicTaskAssumption
<1>7. ActiveOnce(t)'
  BY <1>1, <1>2, <1>3, <1>5, <1>6 DEF ActiveOnce, One
<1>8. OneActivation'
  BY <1>1, <1>2, <1>5, <1>6, <1>7, MoveOne
<1>9. TypeOK'
  BY <1>1, <1>4 DEF IInv, TypeOK, tickVars
<1>10. Awake'
  BY <1>1 DEF IInv, Awake
<1>11. HelperExclusive' /\ QueuedOnce' /\ NativeAlone'
  BY <1>1, HelpersKept DEF IInv, QueuedOnce, NativeAlone, Polyfill, poolVars
<1> QED
  BY <1>8, <1>9, <1>10, <1>11 DEF IInv

-----------------------------------------------------------------------------
(***************************************************************************)
(* Helpers.                                                                *)
(***************************************************************************)
\* Taking a helper: it is nobody's and leaves the pool.
LEMMA TakeHelper ==
  ASSUME IInv, NEW h \in Helpers, alloc_helper(h)
  PROVE  /\ h \notin BusyHelpers /\ pool' \in Seq(Helpers) /\ IsInjective(pool')
         /\ h \notin Range(pool') /\ Range(pool') \subseteq Range(pool)
         /\ Len(pool') <= PoolLimit
<1> DEFINE n == Len(pool)
<1>1. pool \in Seq(Helpers) /\ n \in Nat /\ n <= PoolLimit /\ PoolLimit \in Nat
  BY AtomicTaskAssumption, LenProperties DEF IInv, TypeOK, HelperExclusive
<1>2. IsInjective(pool) /\ \A x \in Range(pool) : x \notin BusyHelpers
  BY DEF IInv, HelperExclusive
<1>3. DOMAIN pool = 1..n
  BY <1>1, LenProperties
<1>4. CASE pool = <<>>
  <2>1. pool' = pool /\ h \notin BusyHelpers /\ Range(pool) = {}
    BY <1>4 DEF alloc_helper, Range
  <2> QED
    BY <2>1, <1>1, <1>2
<1>5. CASE pool # <<>>
  <2>1. h = pool[n] /\ pool' = SubSeq(pool, 1, n - 1)
    BY <1>5 DEF alloc_helper
  <2>2. n # 0 /\ n \in 1..n /\ n - 1 \in 0..n
    BY <1>1, <1>5, EmptySeq
  <2>3. h \in Range(pool)
    BY <2>1, <2>2, <1>3 DEF Range
  <2>4. /\ pool' \in Seq(Helpers) /\ IsInjective(pool') /\ Len(pool') = n - 1
        /\ \A x \in Range(pool') : \E i \in 1..n - 1 : x = pool[i]
    BY <2>1, <2>2, <1>1, <1>2, PrefixQueue
  <2>5. \A i \in 1..n - 1 : i \in 1..n /\ i # n
    BY <1>1
  <2>6. \A i \in 1..n - 1 : pool[i] # h /\ pool[i] \in Range(pool)
    BY <2>1, <2>2, <2>5, <1>2, <1>3 DEF IsInjective, Range
  <2>7. n - 1 <= PoolLimit
    BY <1>1
  <2> QED
    BY <2>3, <2>4, <2>6, <2>7, <1>2
<1> QED
  BY <1>4, <1>5

LEMMA PostInv == ASSUME IInv, PostToHelper PROVE IInv'
<1>1. PICK h \in Helpers :
        /\ alloc_helper(h) /\ helperOf' = [helperOf EXCEPT ![current] = h]
        /\ pc = "wait" /\ Polyfill /\ posted' = [posted EXCEPT ![current] = posted[current] + 1]
        /\ pc' = "idle" /\ current' = None
        /\ UNCHANGED <<host, state, inner, runQueue, holders, notifying, tickVars>>
        /\ waiters' = waiters /\ answered' = answered /\ resolved' = resolved
  BY DEF PostToHelper, Return, Inc
<1>2. PICK t \in Tasks : t = current
  BY <1>1 DEF IInv, TypeOK, Awake
<1>3. Requests(t) = 0 /\ resolved[t] = 0 /\ t \notin Range(runQueue) /\ inner[t] = "some"
  BY <1>2, Places
<1>4. posted \in [Tasks -> Nat] /\ posted' \in [Tasks -> Nat]
  BY <1>1, <1>2, Types DEF IInv
<1>5. Requests(t)' = 1 /\ \A u \in Tasks \ {t} : Requests(u)' = Requests(u)
  <2>1. posted'[t] = posted[t] + 1 /\ \A u \in Tasks \ {t} : posted'[u] = posted[u]
    BY <1>1, <1>2, <1>4
  <2>2. waiters[t] \in Nat /\ posted[t] \in Nat /\ answered[t] \in Nat
    BY Places
  <2>3. waiters' = waiters /\ answered' = answered
    BY <1>1
  <2>4. \A u \in Tasks \ {t} : Requests(u)' = Requests(u)
    BY <2>1, <2>3 DEF Requests
  <2>5. posted[t] + waiters[t] + answered[t] = 0
    BY <1>3 DEF Requests
  <2>6. posted'[t] + waiters'[t] + answered'[t] = 1
    BY <2>1, <2>2, <2>3, <2>5
  <2> QED
    BY <2>4, <2>6 DEF Requests
<1>6. None \notin Tasks /\ None \notin Helpers
  BY AtomicTaskAssumption
<1>7. ActiveOnce(t)'
  BY <1>1, <1>2, <1>3, <1>5, <1>6 DEF ActiveOnce, One
<1>8. OneActivation'
  BY <1>1, <1>2, <1>5, <1>6, <1>7, MoveOne
<1>9. /\ h \notin BusyHelpers /\ pool' \in Seq(Helpers) /\ IsInjective(pool')
      /\ h \notin Range(pool') /\ Range(pool') \subseteq Range(pool)
      /\ Len(pool') <= PoolLimit
  BY <1>1, TakeHelper
<1>10. /\ helperOf' \in [Tasks -> Helpers \cup {None}] /\ helperOf'[t] = h
       /\ \A u \in Tasks \ {t} : helperOf'[u] = helperOf[u] /\ helperOf[u] # h
  BY <1>1, <1>2, <1>6, <1>9 DEF IInv, TypeOK, BusyHelpers
<1>11. TypeOK'
  BY <1>1, <1>4, <1>9, <1>10 DEF IInv, TypeOK, tickVars
<1>12. Awake'
  BY <1>1 DEF IInv, Awake
<1>13. HelperExclusive'
  <2>1. \A u \in Tasks : helperOf'[u] = None <=> Requests(u)' = 0
    BY <1>1, <1>5, <1>6, <1>10 DEF IInv, HelperExclusive
  <2>2. \A u, v \in Tasks : helperOf'[u] = helperOf'[v] /\ helperOf'[u] # None => u = v
    BY <1>10 DEF IInv, HelperExclusive
  <2>3. BusyHelpers' \subseteq BusyHelpers \cup {h}
    BY <1>10 DEF BusyHelpers
  <2>4. Range(pool') \cap BusyHelpers' = {}
    BY <2>3, <1>9 DEF IInv, HelperExclusive
  <2> QED
    BY <2>1, <2>2, <2>4, <1>9 DEF HelperExclusive
<1>14. QueuedOnce' /\ NativeAlone'
  BY <1>1 DEF IInv, QueuedOnce, NativeAlone, Polyfill
<1> QED
  BY <1>8, <1>11, <1>12, <1>13, <1>14 DEF IInv

LEMMA HelperWaitsInv == ASSUME IInv, NEW t \in Tasks, HelperWaits(t) PROVE IInv'
<1>1. /\ posted[t] > 0 /\ posted' = [posted EXCEPT ![t] = posted[t] - 1]
      /\ \/ waiters' = [waiters EXCEPT ![t] = waiters[t] + 1] /\ answered' = answered
         \/ answered' = [answered EXCEPT ![t] = answered[t] + 1] /\ waiters' = waiters
      /\ UNCHANGED <<host, state, inner, runQueue, resolved, holders, notifying, pc, current, tickVars>>
      /\ pool' = pool /\ helperOf' = helperOf
  BY DEF HelperWaits, Inc, Dec, homeVars, tickVars, poolVars
<1>2. /\ waiters \in [Tasks -> Nat] /\ posted \in [Tasks -> Nat] /\ answered \in [Tasks -> Nat]
      /\ posted[t] - 1 \in Nat /\ waiters[t] + 1 \in Nat /\ answered[t] + 1 \in Nat
  BY <1>1, Types DEF IInv
<1>3. waiters' \in [Tasks -> Nat] /\ posted' \in [Tasks -> Nat] /\ answered' \in [Tasks -> Nat]
  BY <1>1, <1>2
<1>4. \A u \in Tasks : Requests(u)' = Requests(u)
  BY <1>1, <1>2 DEF Requests
<1>5. Polyfill
  BY <1>1, <1>2 DEF IInv, NativeAlone
<1>6. TypeOK'
  BY <1>1, <1>3 DEF IInv, TypeOK, tickVars
<1>7. OneActivation'
  BY <1>1, <1>4 DEF IInv, OneActivation
<1>8. Awake'
  BY <1>1 DEF IInv, Awake
<1>9. HelperExclusive' /\ QueuedOnce' /\ NativeAlone'
  BY <1>1, <1>4, <1>5, HelpersKept DEF IInv, QueuedOnce, NativeAlone, Polyfill, poolVars
<1> QED
  BY <1>6, <1>7, <1>8, <1>9 DEF IInv

\* Giving a helper back: no more than the limit stay.
LEMMA GiveHelper ==
  ASSUME IInv, NEW h \in Helpers, h \in BusyHelpers, free_helper(h)
  PROVE  /\ pool' \in Seq(Helpers) /\ IsInjective(pool')
         /\ Range(pool') \subseteq Range(pool) \cup {h} /\ Len(pool') <= PoolLimit
<1> DEFINE q == Append(pool, h)
           n == Min({Len(q), PoolLimit})
<1>1. pool' = SubSeq(q, 1, n)
  BY DEF free_helper
<1>2. pool \in Seq(Helpers) /\ IsInjective(pool) /\ h \notin Range(pool) /\ PoolLimit \in Nat
  BY AtomicTaskAssumption DEF IInv, TypeOK, HelperExclusive
<1>3. q \in Seq(Helpers) /\ IsInjective(q) /\ Range(q) = Range(pool) \cup {h}
  BY <1>2, AppendQueue
<1>4. Len(q) \in Nat /\ DOMAIN q = 1..Len(q)
  BY <1>3, LenProperties
<1>5. n = IF Len(q) <= PoolLimit THEN Len(q) ELSE PoolLimit
  BY <1>2, <1>4, MinOfTwo
<1> HIDE DEF n, q
<1>6. n \in 0..Len(q) /\ n <= PoolLimit
  BY <1>2, <1>4, <1>5
<1>7. /\ pool' \in Seq(Helpers) /\ IsInjective(pool') /\ Len(pool') = n
      /\ \A x \in Range(pool') : \E i \in 1..n : x = q[i]
  BY <1>1, <1>3, <1>6, PrefixQueue
<1>8. \A i \in 1..n : q[i] \in Range(q)
  BY <1>4, <1>6 DEF Range
<1> QED
  BY <1>3, <1>6, <1>7, <1>8

LEMMA OnMessageInv == ASSUME IInv, NEW t \in Tasks, OnMessage(t) PROVE IInv'
<1>1. /\ answered[t] > 0 /\ answered' = [answered EXCEPT ![t] = answered[t] - 1]
      /\ resolved' = [resolved EXCEPT ![t] = resolved[t] + 1]
      /\ free_helper(helperOf[t]) /\ helperOf' = [helperOf EXCEPT ![t] = None]
      /\ waiters' = waiters /\ posted' = posted
      /\ UNCHANGED <<host, state, inner, runQueue, holders, notifying, pc, current, tickVars>>
  BY DEF OnMessage, Inc, Dec, homeVars, tickVars
<1>2. /\ answered \in [Tasks -> Nat] /\ resolved \in [Tasks -> Nat] /\ posted \in [Tasks -> Nat]
      /\ waiters \in [Tasks -> Nat] /\ answered[t] - 1 \in Nat /\ resolved[t] + 1 \in Nat
  BY <1>1, Types DEF IInv
<1>3. Polyfill
  BY <1>1, <1>2 DEF IInv, NativeAlone
<1>4. Requests(t) > 0
  BY <1>1, <1>2 DEF Requests
<1>5. /\ Requests(t) = 1 /\ resolved[t] = 0 /\ current # t /\ t \notin Range(runQueue)
      /\ inner[t] = "some"
  BY <1>4, Places
<1>6. /\ answered' \in [Tasks -> Nat] /\ resolved' \in [Tasks -> Nat]
      /\ answered'[t] = answered[t] - 1 /\ resolved'[t] = 1
      /\ \A u \in Tasks \ {t} : answered'[u] = answered[u] /\ resolved'[u] = resolved[u]
  BY <1>1, <1>2, <1>5
<1>7. Requests(t)' = 0 /\ \A u \in Tasks \ {t} : Requests(u)' = Requests(u)
  BY <1>1, <1>2, <1>5, <1>6 DEF Requests
<1>8. ActiveOnce(t)'
  BY <1>1, <1>5, <1>6, <1>7 DEF ActiveOnce, One
<1>9. OneActivation'
  BY <1>1, <1>6, <1>7, <1>8, MoveOne
<1>10. PICK h \in Helpers : h = helperOf[t] /\ h # None /\ h \in BusyHelpers
  <2>1. helperOf[t] # None /\ helperOf[t] \in Helpers \cup {None}
    BY <1>3, <1>4 DEF IInv, TypeOK, HelperExclusive
  <2> QED
    BY <2>1 DEF BusyHelpers
<1>11. /\ pool' \in Seq(Helpers) /\ IsInjective(pool')
       /\ Range(pool') \subseteq Range(pool) \cup {h} /\ Len(pool') <= PoolLimit
  BY <1>1, <1>10, GiveHelper
<1>12. /\ helperOf' \in [Tasks -> Helpers \cup {None}] /\ helperOf'[t] = None
       /\ \A u \in Tasks \ {t} : helperOf'[u] = helperOf[u] /\ helperOf[u] # h
  <2>1. \A u \in Tasks \ {t} : helperOf[u] # helperOf[t]
    BY <1>10 DEF IInv, HelperExclusive
  <2> QED
    BY <2>1, <1>1, <1>10 DEF IInv, TypeOK
<1>13. TypeOK'
  BY <1>1, <1>2, <1>6, <1>11, <1>12 DEF IInv, TypeOK, tickVars
<1>14. Awake'
  BY <1>1 DEF IInv, Awake
<1>15. HelperExclusive'
  <2>1. \A u \in Tasks : helperOf'[u] = None <=> Requests(u)' = 0
    BY <1>3, <1>7, <1>12 DEF IInv, HelperExclusive
  <2>2. \A u, v \in Tasks : helperOf'[u] = helperOf'[v] /\ helperOf'[u] # None => u = v
    BY <1>12 DEF IInv, HelperExclusive
  <2>3. \A x \in BusyHelpers' : x \in BusyHelpers /\ x # h
    BY <1>12 DEF BusyHelpers
  <2>4. Range(pool') \cap BusyHelpers' = {}
    BY <2>3, <1>11 DEF IInv, HelperExclusive
  <2> QED
    BY <2>1, <2>2, <2>4, <1>11 DEF HelperExclusive
<1>16. QueuedOnce' /\ NativeAlone'
  BY <1>1, <1>3 DEF IInv, QueuedOnce, NativeAlone, Polyfill
<1> QED
  BY <1>9, <1>13, <1>14, <1>15, <1>16 DEF IInv

-----------------------------------------------------------------------------
LEMMA NextInv == ASSUME IInv, Next PROVE IInv'
<1>1. CASE Waking
  BY <1>1, HandInv, DropWakerInv, SwapInv DEF Waking
<1>2. ASSUME NEW w \in Wakers, Notify(w) PROVE IInv'
  <2>1. notifying[w] \in Tasks /\ WakeWaiter(notifying[w])
    BY <1>2 DEF Notify, IInv, TypeOK
  <2>2. PICK t \in Tasks : t = notifying[w]
    BY <2>1
  <2> QED
    BY <2>1, <2>2, <1>2, NotifyInv
<1>3. CASE NotifySelf
  <2>1. current \in Tasks /\ WakeWaiter(current)
    BY <1>3 DEF NotifySelf, IInv, TypeOK, Awake
  <2>2. PICK t \in Tasks : t = current
    BY <2>1
  <2> QED
    BY <2>1, <2>2, <1>3, NotifyInv
<1>4. CASE Running
  BY <1>3, <1>4, FirstRunInv, TickInv, FallAsleepInv, AnswerInv, PollEndsInv, WaitAsyncInv, PostInv
  DEF Running
<1>5. CASE BeginTick
  BY <1>5, TickInv
<1>6. ASSUME NEW t \in Tasks, spawn(t) \/ Resume(t) \/ HelperWaits(t) \/ OnMessage(t) PROVE IInv'
  BY <1>6, SpawnInv, ResumeInv, HelperWaitsInv, OnMessageInv
<1> QED
  BY <1>1, <1>2, <1>4, <1>5, <1>6 DEF Next

LEMMA StutterInv == ASSUME IInv, UNCHANGED vars PROVE IInv'
<1>1. /\ UNCHANGED places /\ UNCHANGED <<host, state, inner, pc, current, runQueue>>
      /\ UNCHANGED <<holders, notifying, tickVars>>
  BY DEF vars, places, waitVars, poolVars, homeVars, tickVars
<1>2. TypeOK'
  BY <1>1 DEF IInv, TypeOK, places, waitVars, poolVars, tickVars
<1>3. Awake'
  BY <1>1 DEF IInv, Awake
<1> QED
  BY <1>1, <1>2, <1>3, PlacesKept DEF IInv

\* Tasks keep to their places and helpers to their tasks: what the invariants
\* rest on.
THEOREM Inductive == Spec => []IInv
<1>1. IInv /\ [Next]_vars => IInv'
  BY NextInv, StutterInv
<1> QED
  BY <1>1, InitInv, PTL DEF Spec

\* The variables of tasks, wakers and helpers keep their types.
THEOREM TypeCorrect == Spec => []TypeOK
<1>1. IInv => TypeOK
  BY DEF IInv
<1> QED
  BY <1>1, Inductive, PTL

\* A task that run polls is AWAKE and not finished, the debug_assert of the
\* loop, however late a notify comes.
THEOREM AlwaysAwake == Spec => []AwakeBeforePoll
<1>1. IInv => AwakeBeforePoll
  <2> SUFFICES ASSUME IInv, pc = "run" PROVE state[current] = "AWAKE" /\ inner[current] = "some"
    BY DEF AwakeBeforePoll
  <2>1. current \in Tasks
    BY DEF IInv, TypeOK, Awake
  <2>2. PICK t \in Tasks : t = current
    BY <2>1
  <2> QED
    BY <2>2, Places DEF IInv, Awake
<1> QED
  BY <1>1, Inductive, PTL

\* A live task is queued, on the stack, waiting or about to be called, one of
\* these; a finished task is none.
THEOREM ActivatedOnce == Spec => []OneActivation
<1>1. IInv => OneActivation
  BY DEF IInv
<1> QED
  BY <1>1, Inductive, PTL

\* No helper is asked to wait for a task while it waits for another.
THEOREM HelpersExclusive == Spec => []HelperExclusive
<1>1. IInv => HelperExclusive
  BY DEF IInv
<1> QED
  BY <1>1, Inductive, PTL

-----------------------------------------------------------------------------
(***************************************************************************)
(* The contract of TaskContract, its safety part.                          *)
(***************************************************************************)
Polled(t) == current = t /\ pc = "poll"
Due(t) == state[t] = "AWAKE" \/ answered[t] + resolved[t] > 0

\* What the contract sees of one task.
Seen(t) ==
  IF inner[t] = "unborn" THEN "unborn"
  ELSE IF inner[t] = "none" THEN "done"
  ELSE IF Polled(t) THEN IF state[t] = "AWAKE" THEN "rewoken" ELSE "polling"
  ELSE IF Due(t) THEN "woken" ELSE "idle"

LEMMA SeenIs == TypeOK => TaskState = [t \in Tasks |-> Seen(t)]
<1> SUFFICES ASSUME TypeOK PROVE TaskState = [t \in Tasks |-> Seen(t)]
  OBVIOUS
<1>1. ASSUME NEW t \in Tasks PROVE TaskState[t] = Seen(t)
  <2>1. inner[t] \in {"unborn", "some", "none"}
    BY DEF TypeOK
  <2>2. CASE inner[t] = "unborn"
    BY <2>2 DEF TaskState, Seen
  <2>3. CASE inner[t] = "none"
    BY <2>3 DEF TaskState, Seen
  <2>4. CASE inner[t] = "some"
    BY <2>4 DEF TaskState, Seen, Polled, Due
  <2> QED
    BY <2>1, <2>2, <2>3, <2>4
<1> QED
  BY <1>1 DEF TaskState

\* A step that the contract sees at one task, or not at all.
LEMMA SeenOne ==
  ASSUME TypeOK, TypeOK', NEW t \in Tasks, \A u \in Tasks \ {t} : Seen(u)' = Seen(u)
  PROVE  /\ TaskState[t] = Seen(t)
         /\ TaskState' = [TaskState EXCEPT ![t] = Seen(t)']
         /\ Seen(t)' = Seen(t) => UNCHANGED TaskState
<1>1. TaskState = [u \in Tasks |-> Seen(u)]
  BY SeenIs
<1>2. TaskState' = [u \in Tasks |-> Seen(u)']
  <2>1. ASSUME NEW u \in Tasks PROVE TaskState'[u] = Seen(u)'
    <3>1. inner'[u] \in {"unborn", "some", "none"}
      BY DEF TypeOK
    <3>2. CASE inner'[u] = "unborn"
      BY <3>2 DEF TaskState, Seen
    <3>3. CASE inner'[u] = "none"
      BY <3>3 DEF TaskState, Seen
    <3>4. CASE inner'[u] = "some"
      BY <3>4 DEF TaskState, Seen, Polled, Due
    <3> QED
      BY <3>1, <3>2, <3>3, <3>4
  <2> QED
    BY <2>1 DEF TaskState
<1> QED
  BY <1>1, <1>2

\* What the contract does not look at.
LEMMA SeenKept ==
  ASSUME NEW t, inner'[t] = inner[t], state'[t] = state[t], Polled(t)' <=> Polled(t),
         answered'[t] + resolved'[t] = answered[t] + resolved[t]
  PROVE  Seen(t)' = Seen(t)
BY DEF Seen, Due

\* One step per operation: which step of the contract it is, or a stutter.
LEMMA StepRefines ==
  ASSUME IInv, IInv', Next
  PROVE  Contract!Next \/ UNCHANGED TaskState
<1> DEFINE Others(t) == \A u \in Tasks \ {t} : Seen(u)' = Seen(u)
<1>t. TypeOK /\ TypeOK' /\ None \notin Tasks
  BY AtomicTaskAssumption DEF IInv
<1>a. ASSUME NEW t \in Tasks, Others(t), Seen(t)' = Seen(t) PROVE UNCHANGED TaskState
  BY <1>a, <1>t, SeenOne
<1>b. ASSUME NEW t \in Tasks, Others(t), Seen(t) = "polling", Seen(t)' = "rewoken"
      PROVE  Contract!Next
  BY <1>b, <1>t, SeenOne DEF Contract!Next, Contract!Wake, Contract!Become
<1>d. ASSUME NEW t \in Tasks, Others(t), Seen(t) = "idle", Seen(t)' = "woken"
      PROVE  Contract!Next
  BY <1>d, <1>t, SeenOne DEF Contract!Next, Contract!Wake, Contract!Become
<1>c. ASSUME NEW t \in Tasks, Others(t), inner[t] = "some", inner' = inner,
             Polled(t)' <=> Polled(t), Polled(t) => state'[t] = "AWAKE", Due(t)'
      PROVE  Contract!Next \/ UNCHANGED TaskState
  <2>0. Seen(t) = IF Polled(t) THEN IF state[t] = "AWAKE" THEN "rewoken" ELSE "polling"
                  ELSE IF Due(t) THEN "woken" ELSE "idle"
    BY <1>c DEF Seen
  <2>0a. Seen(t)' = IF Polled(t)' THEN IF state'[t] = "AWAKE" THEN "rewoken" ELSE "polling"
                    ELSE IF Due(t)' THEN "woken" ELSE "idle"
    BY <1>c DEF Seen
  <2>1. CASE Polled(t) /\ state[t] # "AWAKE"
    <3>1. Seen(t) = "polling" /\ Seen(t)' = "rewoken"
      BY <2>0, <2>0a, <2>1, <1>c DEF Polled
    <3> QED
      BY <3>1, <1>b, <1>c
  <2>2. CASE ~Polled(t) /\ ~Due(t)
    <3>1. Seen(t) = "idle" /\ Seen(t)' = "woken"
      BY <2>0, <2>0a, <2>2, <1>c
    <3> QED
      BY <3>1, <1>d, <1>c
  <2>3. CASE (Polled(t) /\ state[t] = "AWAKE") \/ (~Polled(t) /\ Due(t))
    <3>1. Seen(t)' = Seen(t)
      BY <2>3, <1>c DEF Seen
    <3> QED
      BY <3>1, <1>a, <1>c
  <2> QED
    BY <2>1, <2>2, <2>3 DEF Polled, Due
<1>h. ASSUME NEW w \in Wakers, Hand(w) PROVE UNCHANGED TaskState
  BY <1>h DEF Hand, waitVars, homeVars, tickVars, poolVars, TaskState
<1>1. ASSUME NEW w \in Wakers, NEW t \in Tasks, DropWaker(w, t) PROVE UNCHANGED TaskState
  BY <1>1 DEF DropWaker, waitVars, homeVars, tickVars, poolVars, TaskState
<1>2. ASSUME NEW w \in Wakers, NEW t \in Tasks, Swap(w, t)
      PROVE  Contract!Next \/ UNCHANGED TaskState
  <2>1. /\ inner' = inner /\ pc' = pc /\ current' = current
        /\ answered' = answered /\ resolved' = resolved
        /\ state' = [state EXCEPT ![t] = "AWAKE"]
    BY <1>2 DEF Swap, waitVars, homeVars, tickVars
  <2>2. state'[t] = "AWAKE" /\ \A u \in Tasks \ {t} : state'[u] = state[u]
    BY <2>1, <1>t DEF TypeOK
  <2>3. Others(t)
    BY <2>1, <2>2 DEF Seen, Polled, Due
  <2>4. CASE inner[t] = "some"
    BY <2>1, <2>2, <2>3, <2>4, <1>c DEF Polled, Due
  <2>5. CASE inner[t] # "some"
    <3>1. Seen(t)' = Seen(t)
      BY <2>1, <2>5, <1>t DEF Seen, TypeOK
    <3> QED
      BY <2>3, <3>1, <1>a
  <2> QED
    BY <2>4, <2>5
<1>3. ASSUME NEW w \in Wakers, Notify(w)
      PROVE  Contract!Next \/ UNCHANGED TaskState
  <2>1. PICK t \in Tasks : t = notifying[w]
    BY <1>3, <1>t DEF Notify, TypeOK
  <2>2. WakeWaiter(t) /\ inner' = inner /\ state' = state /\ pc' = pc /\ current' = current
    BY <1>3, <2>1 DEF Notify, homeVars, tickVars
  <2>3. CASE waiters[t] = 0
    <3>1. answered' = answered /\ resolved' = resolved
      BY <2>2, <2>3 DEF WakeWaiter, waitVars
    <3> QED
      BY <2>2, <3>1 DEF TaskState
  <2>4. CASE waiters[t] # 0
    <3>1. waiters[t] \in Nat /\ posted[t] \in Nat /\ answered[t] \in Nat /\ resolved[t] \in Nat
      BY Places
    <3>2. Requests(t) > 0
      BY <2>4, <3>1 DEF Requests
    <3>3. inner[t] = "some" /\ current # t
      BY <3>2, Places
    <3>4. \/ answered' = [answered EXCEPT ![t] = answered[t] + 1] /\ resolved' = resolved
          \/ resolved' = [resolved EXCEPT ![t] = resolved[t] + 1] /\ answered' = answered
      BY <2>2, <2>4 DEF WakeWaiter, Inc
    <3>5. answered \in [Tasks -> Nat] /\ resolved \in [Tasks -> Nat]
      BY <1>t, Types
    <3>6. /\ answered'[t] + resolved'[t] > 0
          /\ \A u \in Tasks \ {t} : answered'[u] = answered[u] /\ resolved'[u] = resolved[u]
      BY <3>1, <3>4, <3>5
    <3>7. Others(t)
      BY <2>2, <3>6 DEF Seen, Polled, Due
    <3> QED
      BY <2>2, <3>3, <3>6, <3>7, <1>c DEF Polled, Due
  <2> QED
    BY <2>3, <2>4
<1>4. ASSUME NotifySelf PROVE UNCHANGED TaskState
  <2>1. PICK t \in Tasks : t = current
    BY <1>4 DEF NotifySelf, IInv, TypeOK, Awake
  <2>2. Requests(t) = 0 /\ waiters[t] \in Nat /\ posted[t] \in Nat /\ answered[t] \in Nat
    BY <2>1, Places
  <2>a. posted[t] + waiters[t] + answered[t] = 0
    BY <2>2 DEF Requests
  <2>b. waiters[t] \in Nat /\ posted[t] \in Nat /\ answered[t] \in Nat
    BY <2>2
  <2>3. waiters[t] = 0
    BY <2>a, <2>b
  <2>4. answered' = answered /\ resolved' = resolved
    BY <1>4, <2>1, <2>3 DEF NotifySelf, WakeWaiter, waitVars
  <2> QED
    BY <1>4, <2>4 DEF NotifySelf, TaskState
<1>5. ASSUME NEW t \in Tasks, spawn(t) PROVE Contract!Next
  <2>1. /\ inner[t] = "unborn" /\ inner' = [inner EXCEPT ![t] = "some"] /\ state' = state
        /\ pc' = pc /\ current' = current /\ answered' = answered /\ resolved' = resolved
    BY <1>5 DEF spawn, waitVars, homeVars, tickVars
  <2>2. inner'[t] = "some" /\ \A u \in Tasks \ {t} : inner'[u] = inner[u]
    BY <2>1, <1>t DEF TypeOK
  <2>3. Others(t)
    BY <2>1, <2>2 DEF Seen, Polled, Due
  <2>4. current # t
    BY <2>1, Places
  <2>5. state[t] = "AWAKE"
    BY <2>1 DEF IInv, Awake
  <2>6. Seen(t) = "unborn" /\ Seen(t)' = "woken"
    BY <2>1, <2>2, <2>4, <2>5 DEF Seen, Polled, Due
  <2> QED
    BY <2>3, <2>6, <1>t, SeenOne DEF Contract!Next, Contract!Spawn, Contract!Become
<1>6. ASSUME FirstRun \/ BeginTick \/ EndTick PROVE UNCHANGED TaskState
  BY <1>6 DEF FirstRun, BeginTick, EndTick, waitVars, TaskState
<1>7. ASSUME NEW t \in Tasks, Resume(t) PROVE UNCHANGED TaskState
  <2>1. /\ resolved[t] > 0 /\ resolved' = [resolved EXCEPT ![t] = resolved[t] - 1]
        /\ state' = [state EXCEPT ![t] = "AWAKE"] /\ answered' = answered /\ inner' = inner
        /\ pc = "idle" /\ pc' \in {"run", "notify"}
    BY <1>7 DEF Resume, Free, Dec
  <2>2. inner[t] = "some" /\ answered[t] \in Nat /\ resolved[t] \in Nat
    BY <2>1, Places
  <2>3. /\ state'[t] = "AWAKE"
        /\ \A u \in Tasks \ {t} : state'[u] = state[u] /\ resolved'[u] = resolved[u]
    BY <2>1, <1>t, Types DEF TypeOK
  <2>4. Others(t)
    BY <2>1, <2>3 DEF Seen, Polled, Due
  <2>5. Due(t) /\ Due(t)'
    BY <2>1, <2>2, <2>3 DEF Due
  <2>6. Seen(t)' = Seen(t)
    BY <2>1, <2>2, <2>5 DEF Seen, Polled
  <2> QED
    BY <2>4, <2>6, <1>a
<1>8. ASSUME NEW t \in Tasks, HelperWaits(t) PROVE UNCHANGED TaskState
  <2>1. /\ posted[t] > 0 /\ state' = state /\ inner' = inner /\ resolved' = resolved
        /\ pc' = pc /\ current' = current
        /\ \/ answered' = answered
           \/ state[t] # "SLEEPING" /\ answered' = [answered EXCEPT ![t] = answered[t] + 1]
    BY <1>8 DEF HelperWaits, Inc, homeVars, tickVars
  <2>2. CASE answered' = answered
    BY <2>1, <2>2 DEF TaskState
  <2>3. CASE state[t] # "SLEEPING" /\ answered' = [answered EXCEPT ![t] = answered[t] + 1]
    <3>1. \A u \in Tasks \ {t} : answered'[u] = answered[u]
      BY <2>3, <1>t, Types
    <3>2. Others(t)
      BY <2>1, <3>1 DEF Seen, Polled, Due
    <3>3. state[t] = "AWAKE"
      BY <2>3, <1>t DEF TypeOK
    <3>4. Seen(t)' = Seen(t)
      BY <2>1, <3>3 DEF Seen, Polled, Due
    <3> QED
      BY <3>2, <3>4, <1>a
  <2> QED
    BY <2>1, <2>2, <2>3
<1>9. ASSUME NEW t \in Tasks, OnMessage(t) PROVE UNCHANGED TaskState
  <2>1. /\ answered[t] > 0 /\ answered' = [answered EXCEPT ![t] = answered[t] - 1]
        /\ resolved' = [resolved EXCEPT ![t] = resolved[t] + 1]
        /\ state' = state /\ inner' = inner /\ pc' = pc /\ current' = current
    BY <1>9 DEF OnMessage, Inc, Dec, homeVars, tickVars
  <2>2. answered \in [Tasks -> Nat] /\ resolved \in [Tasks -> Nat]
    BY <1>t, Types
  <2>3. \A u \in Tasks : answered'[u] + resolved'[u] = answered[u] + resolved[u]
    BY <2>1, <2>2
  <2>4. \A u \in Tasks : Seen(u)' = Seen(u)
    BY <2>1, <2>3 DEF Seen, Polled, Due
  <2> QED
    BY <2>4, <1>a
<1>10. ASSUME FallAsleep PROVE Contract!Next
  <2>1. PICK t \in Tasks : t = current
    BY <1>10 DEF FallAsleep, IInv, TypeOK, Awake
  <2>2. /\ pc = "run" /\ pc' = "poll" /\ current' = current /\ inner[t] = "some" /\ inner' = inner
        /\ state' = [state EXCEPT ![t] = "SLEEPING"] /\ answered' = answered /\ resolved' = resolved
    BY <1>10, <2>1 DEF FallAsleep, waitVars
  <2>3. state'[t] = "SLEEPING" /\ \A u \in Tasks \ {t} : state'[u] = state[u]
    BY <2>2, <1>t DEF TypeOK
  <2>4. Others(t)
    BY <2>1, <2>2, <2>3 DEF Seen, Polled, Due
  <2>5. Seen(t) = "woken" /\ Seen(t)' = "polling"
    BY <2>1, <2>2, <2>3 DEF Seen, Polled, Due, IInv, Awake
  <2>6. \A u \in Tasks : TaskState[u] \notin {"polling", "rewoken"}
    BY <2>2 DEF TaskState
  <2> QED
    BY <2>4, <2>5, <2>6, <1>t, SeenOne
    DEF Contract!Next, Contract!Poll, Contract!Polling, Contract!Become
<1>11. ASSUME PollPending PROVE Contract!Next
  <2>1. PICK t \in Tasks : t = current
    BY <1>11 DEF PollPending, IInv, TypeOK, Awake
  <2>2. /\ pc = "poll" /\ pc' = "wait" /\ current' = current /\ inner' = inner /\ state' = state
        /\ answered' = answered /\ resolved' = resolved
    BY <1>11 DEF PollPending, waitVars
  <2>3. /\ inner[t] = "some" /\ Requests(t) = 0 /\ resolved[t] = 0
        /\ answered[t] \in Nat /\ waiters[t] \in Nat /\ posted[t] \in Nat
    BY <2>1, Places
  <2>4. answered[t] + resolved[t] = 0
    BY <2>3 DEF Requests
  <2>5. Others(t)
    BY <2>1, <2>2 DEF Seen, Polled, Due
  <2>6. \/ Seen(t) = "rewoken" /\ Seen(t)' = "woken"
        \/ Seen(t) = "polling" /\ Seen(t)' = "idle"
    BY <2>1, <2>2, <2>3, <2>4 DEF Seen, Polled, Due
  <2> QED
    BY <2>5, <2>6, <1>t, SeenOne DEF Contract!Next, Contract!Sleep, Contract!Become
<1>12. ASSUME PollReady \/ PollUnwinds PROVE Contract!Next
  <2>1. PICK t \in Tasks : t = current
    BY <1>12 DEF PollReady, PollUnwinds, IInv, TypeOK, Awake
  <2>2. /\ pc = "poll" /\ pc' = "idle" /\ current' = None /\ inner' = [inner EXCEPT ![t] = "none"]
        /\ state' = state /\ answered' = answered /\ resolved' = resolved
    BY <1>12, <2>1 DEF PollReady, PollUnwinds, Return, waitVars
  <2>3. inner[t] = "some"
    BY <2>1, Places
  <2>4. inner'[t] = "none" /\ \A u \in Tasks \ {t} : inner'[u] = inner[u]
    BY <2>2, <1>t DEF TypeOK
  <2>5. Others(t)
    BY <2>1, <2>2, <2>4, <1>t DEF Seen, Polled, Due
  <2>6. Seen(t) \in {"polling", "rewoken"} /\ Seen(t)' = "done"
    BY <2>1, <2>2, <2>3, <2>4 DEF Seen, Polled
  <2> QED
    BY <2>5, <2>6, <1>t, SeenOne
    DEF Contract!Next, Contract!Finish, Contract!Polling, Contract!Become
<1>13. ASSUME WaitAsync \/ WaitAsyncNotEqual \/ PostToHelper PROVE UNCHANGED TaskState
  BY <1>13 DEF WaitAsync, WaitAsyncNotEqual, PostToHelper, Return, waitVars, TaskState
<1> HIDE DEF Others
<1> QED
  BY <1>h, <1>1, <1>2, <1>3, <1>4, <1>5, <1>6, <1>7, <1>8, <1>9, <1>10, <1>11, <1>12, <1>13
  DEF Next, Waking, Running

\* Waking across threads, with waitAsync or with helpers, keeps the contract of
\* the single-threaded executor: no wake is lost, no poll is spurious, nested
\* or late.
THEOREM Refinement == Spec => Contract!Spec
<1>1. Init => Contract!Init
  BY DEF Init, Contract!Init, TaskState
<1>2. IInv /\ IInv' /\ [Next]_vars => [Contract!Next]_TaskState
  <2>1. ASSUME UNCHANGED vars PROVE UNCHANGED TaskState
    BY <2>1 DEF vars, waitVars, homeVars, tickVars, TaskState
  <2> QED
    BY <2>1, StepRefines
<1> QED
  BY <1>1, <1>2, Inductive, PTL DEF Spec, Contract!Spec
=============================================================================
