---------------------------- MODULE JsFutureProofs ----------------------------
(***************************************************************************)
(* Proofs about JsFuture, for any tasks, promises and futures, any number  *)
(* of calls of next(), and either kind of panic: the callbacks of a        *)
(* JsFuture are there when the host needs them, the count breaks the cycle *)
(* of state and closures, and an await and a stream yield what their       *)
(* promises settled with.                                                  *)
(***************************************************************************)
EXTENDS JsFuture, SequenceTheorems, TLAPS

Inner ==
  [of : Promises \cup {None}, callbacks : BOOLEAN, result : Outcomes \cup {None},
   task : Tasks \cup {None}, strong : 0..3, handle : Tasks \cup {Stream, None},
   called : BOOLEAN, polled : Seq(Outcomes), awaiter : Tasks \cup {None}]

\* What a JsFuture knows of its promise: nothing before the call back, and
\* then its outcome, until a poll took it.
Sound(s, outcomes) ==
  /\ s.of = None => s = Unmade
  /\ s.of # None /\ ~s.called => s.callbacks /\ s.result = None /\ s.polled = <<>>
  /\ s.called => s.of # None /\ ~s.callbacks /\ outcomes[s.of] # None
  /\ s.strong = 2 * One(s.callbacks) + One(s.handle # None)
  /\ s.strong = 0 => s.result = None /\ s.task = None
  /\ s.result # None => s.called /\ s.result = outcomes[s.of] /\ s.polled = <<>>
  /\ s.polled # <<>> => s.called /\ s.polled = <<outcomes[s.of]>>

States == \A f \in Awaits : Sound(state[f], settled)

\* The promise of a task settles with the task's end.
SettledByEnd == \A t \in Tasks : settled[t] # None => st[t] = "done"

\* A call that is not made has no promise; the one that is awaited is the last,
\* its JsFuture is the stream's and was not answered while the stream lives.
LastCall ==
  /\ \A k \in Calls : k > calls => state[k].of = None /\ settled[k] = None
  /\ next # 0 => next = calls /\ state[next].of = next /\ state[next].handle = Stream
  /\ stream = "live" =>
       IF next = 0 THEN Len(yields) = calls
       ELSE Len(yields) = calls - 1 /\ state[next].polled = <<>>

\* What poll_next returned so far; see Delivered.
Yielded ==
  /\ Len(yields) \in {calls - 1, calls, calls + 1}
  /\ \A k \in 1..Len(yields) :
       /\ k <= calls => yields[k] = settled[k]
       /\ k < Len(yields) => yields[k] = "ok"
  /\ stream = "live" => \A k \in 1..Len(yields) : yields[k] = "ok"

IInv == TypeOK /\ States /\ SettledByEnd /\ LastCall /\ Yielded

-----------------------------------------------------------------------------
(***************************************************************************)
(* What the operations on a JsFuture do to its record.                     *)
(***************************************************************************)
LEMMA NoneIsNot == None \notin Outcomes /\ None \notin Tasks /\ None # Stream /\ None \notin Promises
BY JsFutureAssumption DEF Promises

LEMMA UnmadeSound ==
  ASSUME NEW outcomes PROVE Unmade \in Inner /\ Sound(Unmade, outcomes)
BY EmptySeq DEF Unmade, Inner, Sound, One

LEMMA FromSound ==
  ASSUME NEW p \in Promises, NEW owner \in Tasks \cup {Stream}, NEW outcomes
  PROVE  /\ From(p, owner) \in Inner /\ Sound(From(p, owner), outcomes)
         /\ From(p, owner).of = p /\ From(p, owner).handle = owner
         /\ From(p, owner).polled = <<>> /\ From(p, owner).result = None
<1> DEFINE u == Unmade
           s == [u EXCEPT !.of = p, !.callbacks = TRUE, !.strong = 3, !.handle = owner]
<1>1. /\ u \in Inner /\ u.result = None /\ u.task = None /\ u.called = FALSE
      /\ u.polled = <<>> /\ u.awaiter = None
  BY UnmadeSound DEF Unmade
<1>2. From(p, owner) = s
  BY DEF From
<1> HIDE DEF u
<1>0. /\ p \in Promises \cup {None} /\ 3 \in 0..3 /\ TRUE \in BOOLEAN
      /\ owner \in Tasks \cup {Stream, None}
  OBVIOUS
<1>5. s \in Inner
  BY <1>0, <1>1 DEF Inner
<1>3. /\ s \in Inner /\ s.of = p /\ s.callbacks = TRUE /\ s.strong = 3 /\ s.handle = owner
      /\ s.result = None /\ s.task = None /\ s.called = FALSE /\ s.polled = <<>>
  BY <1>5, <1>1 DEF Inner
<1> HIDE DEF s
<1>4. Sound(s, outcomes)
  BY <1>3, NoneIsNot DEF Sound, One
<1> QED
  BY <1>2, <1>3, <1>4

LEMMA LessFields ==
  ASSUME NEW s \in Inner, NEW n \in 1..3, s.strong >= n
  PROVE  /\ Less(s, n) \in Inner
         /\ Less(s, n).of = s.of /\ Less(s, n).callbacks = s.callbacks
         /\ Less(s, n).strong = s.strong - n /\ Less(s, n).handle = s.handle
         /\ Less(s, n).called = s.called /\ Less(s, n).polled = s.polled
         /\ s.strong > n => Less(s, n).result = s.result /\ Less(s, n).task = s.task
         /\ s.strong = n => Less(s, n).result = None /\ Less(s, n).task = None
<1>1. CASE s.strong > n
  <2>1. Less(s, n) = [s EXCEPT !.strong = s.strong - n]
    BY <1>1 DEF Less
  <2> QED
    BY <2>1, <1>1 DEF Inner
<1>2. CASE s.strong = n
  <2> DEFINE r == [s EXCEPT !.strong = 0, !.result = None, !.task = None]
  <2>0. s.strong - n = 0 /\ ~(s.strong > n) /\ 0 \in 0..3
    BY <1>2
  <2>1. Less(s, n) = r
    BY <2>0 DEF Less
  <2>2. r \in Inner
    BY <2>0 DEF Inner
  <2>3. /\ r.of = s.of /\ r.callbacks = s.callbacks /\ r.strong = 0 /\ r.handle = s.handle
        /\ r.called = s.called /\ r.polled = s.polled /\ r.result = None /\ r.task = None
    BY DEF Inner
  <2> HIDE DEF r
  <2> QED
    BY <2>0, <2>1, <2>2, <2>3, <1>2
<1> QED
  BY <1>1, <1>2 DEF Inner

\* The handle is dropped.
LEMMA DroppedSound ==
  ASSUME NEW s \in Inner, NEW outcomes, Sound(s, outcomes), s.handle # None
  PROVE  /\ Dropped(s) \in Inner /\ Sound(Dropped(s), outcomes)
         /\ Dropped(s).of = s.of /\ Dropped(s).polled = s.polled
         /\ Dropped(s).handle = None
<1> DEFINE r == [s EXCEPT !.handle = None]
<1>1. /\ r \in Inner /\ r.of = s.of /\ r.callbacks = s.callbacks /\ r.result = s.result
      /\ r.task = s.task /\ r.strong = s.strong /\ r.handle = None /\ r.called = s.called
      /\ r.polled = s.polled
  BY DEF Inner
<1>2. s.of # None /\ s.strong \in 1..3 /\ s.strong = 2 * One(s.callbacks) + 1
  BY DEF Sound, Unmade, Inner, One
<1>3. Dropped(s) = Less(r, 1)
  BY DEF Dropped
<1>4. 1 \in 1..3 /\ r.strong >= 1
  BY <1>1, <1>2
<1> HIDE DEF r
<1>5. /\ Less(r, 1) \in Inner
      /\ Less(r, 1).of = s.of /\ Less(r, 1).callbacks = s.callbacks
      /\ Less(r, 1).strong = s.strong - 1 /\ Less(r, 1).handle = None
      /\ Less(r, 1).called = s.called /\ Less(r, 1).polled = s.polled
      /\ s.strong > 1 => Less(r, 1).result = s.result /\ Less(r, 1).task = s.task
      /\ s.strong = 1 => Less(r, 1).result = None /\ Less(r, 1).task = None
  BY <1>1, <1>4, LessFields
<1>6. Sound(Less(r, 1), outcomes)
  <2> DEFINE q == Less(r, 1)
  <2>1. q.of # None
    BY <1>2, <1>5
  <2>2. ~q.called => q.callbacks /\ q.result = None /\ q.polled = <<>>
    BY <1>2, <1>5 DEF Sound, One
  <2>3. q.called => ~q.callbacks /\ outcomes[q.of] # None
    BY <1>2, <1>5 DEF Sound
  <2>4. q.strong = 2 * One(q.callbacks) + One(q.handle # None)
    BY <1>2, <1>5 DEF One
  <2>5. q.strong = 0 => q.result = None /\ q.task = None
    BY <1>2, <1>5
  <2>6. q.result # None => q.called /\ q.result = outcomes[q.of] /\ q.polled = <<>>
    BY <1>2, <1>5 DEF Sound
  <2>7. q.polled # <<>> => q.called /\ q.polled = <<outcomes[q.of]>>
    BY <1>2, <1>5 DEF Sound
  <2> QED
    BY <2>1, <2>2, <2>3, <2>4, <2>5, <2>6, <2>7 DEF Sound
<1> QED
  BY <1>3, <1>5, <1>6

\* t polls it: it gets the outcome if that is there.
LEMMA AwaitedSound ==
  ASSUME NEW s \in Inner, NEW outcomes, Sound(s, outcomes), s.handle # None, NEW t \in Tasks
  PROVE  /\ Awaited(s, t) \in Inner /\ Sound(Awaited(s, t), outcomes)
         /\ Awaited(s, t).of = s.of /\ Awaited(s, t).handle = s.handle
         /\ s.result = None => Awaited(s, t).polled = s.polled
<1>1. s.of # None /\ s.strong \in 1..3 /\ s.strong # 0
  BY DEF Sound, Unmade, Inner, One
<1>2. CASE s.result = None
  <2>1. Awaited(s, t) = [s EXCEPT !.task = t, !.awaiter = t]
    BY <1>2 DEF Awaited, Polled, Inner
  <2>2. /\ Awaited(s, t) \in Inner /\ Awaited(s, t).of = s.of
        /\ Awaited(s, t).callbacks = s.callbacks
        /\ Awaited(s, t).result = s.result /\ Awaited(s, t).task = t
        /\ Awaited(s, t).strong = s.strong /\ Awaited(s, t).handle = s.handle
        /\ Awaited(s, t).called = s.called /\ Awaited(s, t).polled = s.polled
    BY <2>1 DEF Inner
  <2> QED
    BY <1>1, <2>2 DEF Sound
<1>3. CASE s.result # None
  <2>1. /\ Awaited(s, t) = [s EXCEPT !.result = None, !.polled = Append(s.polled, s.result)]
    BY <1>3 DEF Awaited, Polled, Inner
  <2>2. s.called /\ s.result = outcomes[s.of] /\ s.polled = <<>> /\ s.result \in Outcomes
    BY <1>3 DEF Sound, Inner
  <2>3. Append(s.polled, s.result) = <<outcomes[s.of]>> /\ <<outcomes[s.of]>> \in Seq(Outcomes)
    BY <2>2
  <2>4. /\ Awaited(s, t) \in Inner /\ Awaited(s, t).of = s.of
        /\ Awaited(s, t).callbacks = s.callbacks
        /\ Awaited(s, t).result = None /\ Awaited(s, t).task = s.task
        /\ Awaited(s, t).strong = s.strong /\ Awaited(s, t).handle = s.handle
        /\ Awaited(s, t).called = s.called /\ Awaited(s, t).polled = <<outcomes[s.of]>>
    BY <2>1, <2>3 DEF Inner
  <2> QED
    BY <1>1, <1>3, <2>2, <2>4 DEF Sound
<1> QED
  BY <1>2, <1>3

\* The host calls back with the outcome.
Finished(s, outcome) ==
  Less([s EXCEPT !.called = TRUE, !.callbacks = FALSE, !.result = outcome, !.task = None], 2)

LEMMA FinishedSound ==
  ASSUME NEW s \in Inner, NEW outcomes, Sound(s, outcomes), s.of # None, ~s.called,
         outcomes[s.of] \in Outcomes
  PROVE  /\ Finished(s, outcomes[s.of]) \in Inner
         /\ Sound(Finished(s, outcomes[s.of]), outcomes)
         /\ Finished(s, outcomes[s.of]).of = s.of
         /\ Finished(s, outcomes[s.of]).polled = s.polled
         /\ Finished(s, outcomes[s.of]).handle = s.handle
<1> DEFINE o == outcomes[s.of]
           r == [s EXCEPT !.called = TRUE, !.callbacks = FALSE, !.result = o, !.task = None]
<1>1. /\ r \in Inner /\ r.of = s.of /\ r.callbacks = FALSE /\ r.result = o
      /\ r.task = None /\ r.strong = s.strong /\ r.handle = s.handle /\ r.called = TRUE
      /\ r.polled = s.polled
  BY DEF Inner
<1>2. s.callbacks /\ s.polled = <<>> /\ s.strong = 2 + One(s.handle # None) /\ o # None
  BY NoneIsNot DEF Sound, One
<1>3. s.strong \in 2..3 /\ (s.handle # None <=> s.strong = 3)
  BY <1>2 DEF One
<1>4. Finished(s, o) = Less(r, 2)
  BY DEF Finished
<1>5. 2 \in 1..3 /\ r.strong >= 2
  BY <1>1, <1>3
<1>6. o = outcomes[s.of]
  OBVIOUS
<1> HIDE DEF r, o
<1>7. /\ Less(r, 2) \in Inner
      /\ Less(r, 2).of = s.of /\ Less(r, 2).callbacks = FALSE
      /\ Less(r, 2).strong = s.strong - 2 /\ Less(r, 2).handle = s.handle
      /\ Less(r, 2).called = TRUE /\ Less(r, 2).polled = s.polled
      /\ s.strong > 2 => Less(r, 2).result = o /\ Less(r, 2).task = None
      /\ s.strong = 2 => Less(r, 2).result = None /\ Less(r, 2).task = None
  BY <1>1, <1>5, LessFields
<1>8. Sound(Less(r, 2), outcomes)
  BY <1>2, <1>3, <1>6, <1>7 DEF Sound, One
<1> QED
  BY <1>4, <1>6, <1>7, <1>8

\* Another promise settles, or this one.
LEMMA SettledSound ==
  ASSUME NEW s \in Inner, NEW outcomes, NEW later, Sound(s, outcomes),
         \A p \in Promises : outcomes[p] # None => later[p] = outcomes[p]
  PROVE  Sound(s, later)
<1>1. s.of \in Promises \cup {None}
  BY DEF Inner
<1>2. s.called => s.of # None /\ outcomes[s.of] # None
  BY DEF Sound
<1>3. s.called => later[s.of] = outcomes[s.of]
  BY <1>1, <1>2
<1> QED
  BY <1>3 DEF Sound

\* A task that is polled awaits nothing.
LEMMA PolledSound ==
  ASSUME NEW s \in Inner, NEW outcomes, Sound(s, outcomes), s.called
  PROVE  /\ [s EXCEPT !.awaiter = None] \in Inner
         /\ Sound([s EXCEPT !.awaiter = None], outcomes)
         /\ [s EXCEPT !.awaiter = None].of = s.of
         /\ [s EXCEPT !.awaiter = None].polled = s.polled
         /\ [s EXCEPT !.awaiter = None].handle = s.handle
<1> DEFINE r == [s EXCEPT !.awaiter = None]
<1>1. /\ r \in Inner /\ r.of = s.of /\ r.callbacks = s.callbacks /\ r.result = s.result
      /\ r.task = s.task /\ r.strong = s.strong /\ r.handle = s.handle
      /\ r.called = s.called /\ r.polled = s.polled
  BY DEF Inner
<1>2. s.of # None
  BY DEF Sound
<1> HIDE DEF r
<1>3. Sound(r, outcomes)
  BY <1>1, <1>2 DEF Sound
<1> QED
  BY <1>1, <1>3 DEF r

-----------------------------------------------------------------------------
(***************************************************************************)
(* Most steps leave the stream alone.                                      *)
(***************************************************************************)
LEMMA Types ==
  ASSUME TypeOK
  PROVE  /\ state \in [Awaits -> Inner] /\ settled \in [Promises -> Outcomes \cup {None}]
         /\ st \in [Tasks -> Exec!States] /\ next \in Nat /\ calls \in Nat /\ next <= MaxCalls
         /\ calls <= MaxCalls /\ Len(yields) \in Nat /\ yields \in Seq(Outcomes)
         /\ stream \in {"live", "done", "dropped"}
BY JsFutureAssumption DEF TypeOK, Inner

LEMMA InitInv == Init => IInv
<1> SUFFICES ASSUME Init PROVE IInv
  OBVIOUS
<1>1. \A f \in Awaits : state[f] = Unmade
  BY DEF Init
<1>2. TypeOK
  <2>1. state \in [Awaits -> Inner]
    BY UnmadeSound DEF Init
  <2>2. st \in [Tasks -> Exec!States]
    BY DEF Init, Exec!Init, Exec!States
  <2>3. /\ next \in 0..MaxCalls /\ calls \in 0..MaxCalls
        /\ stream \in {"live", "done", "dropped"} /\ yields \in Seq(Outcomes)
    BY JsFutureAssumption, EmptySeq DEF Init
  <2>4. settled \in [Promises -> Outcomes \cup {None}]
    BY DEF Init
  <2> QED
    BY <2>1, <2>2, <2>3, <2>4 DEF TypeOK, Inner
<1>3. States
  BY <1>1, UnmadeSound DEF States
<1>4. SettledByEnd
  BY DEF Init, SettledByEnd, Promises
<1>5. LastCall
  BY <1>1 DEF Init, LastCall, Awaits, Promises, Unmade
<1>6. Yielded
  BY DEF Init, Yielded
<1> QED
  BY <1>2, <1>3, <1>4, <1>5, <1>6 DEF IInv

LEMMA Rest ==
  ASSUME IInv, UNCHANGED streamVars,
         st' \in [Tasks -> Exec!States], SettledByEnd',
         settled' \in [Promises -> Outcomes \cup {None}],
         \A p \in Promises : settled[p] # None => settled'[p] = settled[p],
         \A k \in Calls : k > calls => settled'[k] = None,
         state' \in [Awaits -> Inner], States',
         \A k \in Calls :
           /\ state'[k].of = state[k].of /\ state'[k].polled = state[k].polled
           /\ state[k].handle = Stream => state'[k].handle = Stream
  PROVE  IInv'
<1>1. /\ next' = next /\ calls' = calls /\ stream' = stream /\ yields' = yields
  BY DEF streamVars
<1>2. TypeOK'
  BY <1>1 DEF IInv, TypeOK, Inner
<1>3. LastCall'
  <2>1. next # 0 => next \in Calls
    BY DEF IInv, TypeOK, Calls
  <2>2. \A k \in Calls : k > calls => state'[k].of = None /\ settled'[k] = None
    BY DEF IInv, LastCall
  <2>3. next # 0 => next = calls /\ state'[next].of = next /\ state'[next].handle = Stream
    BY <2>1 DEF IInv, LastCall
  <2>4. stream = "live" =>
          IF next = 0 THEN Len(yields) = calls
          ELSE Len(yields) = calls - 1 /\ state'[next].polled = <<>>
    BY <2>1 DEF IInv, LastCall
  <2> QED
    BY <1>1, <2>2, <2>3, <2>4 DEF LastCall
<1>4. Yielded'
  <2>1. ASSUME NEW k \in 1..Len(yields), k <= calls PROVE yields[k] = settled'[k]
    <3>1. k \in Calls /\ k \in Promises
      <4>1. calls \in Nat /\ calls <= MaxCalls /\ Len(yields) \in Nat
        BY Types DEF IInv
      <4> QED
        BY <2>1, <4>1, JsFutureAssumption DEF Calls, Promises
    <3>2. yields[k] = settled[k] /\ yields[k] \in Outcomes
      BY <2>1, Types, ElementOfSeq DEF IInv, Yielded
    <3> QED
      BY <3>1, <3>2, NoneIsNot
  <2> QED
    BY <1>1, <2>1 DEF IInv, Yielded
<1> QED
  BY <1>1, <1>2, <1>3, <1>4 DEF IInv

\* The tasks only.
LEMMA Kept ==
  ASSUME IInv, UNCHANGED <<settled, state, streamVars>>,
         st' \in [Tasks -> Exec!States], \A t \in Tasks : st[t] = "done" => st'[t] = "done"
  PROVE  IInv'
<1>1. /\ settled' \in [Promises -> Outcomes \cup {None}] /\ state' \in [Awaits -> Inner]
      /\ \A k \in Calls : k > calls => settled'[k] = None
  BY Types DEF IInv, LastCall
<1>2. States' /\ SettledByEnd'
  BY DEF IInv, States, SettledByEnd, Sound
<1>3. UNCHANGED streamVars /\ settled' = settled /\ state' = state
  OBVIOUS
<1> QED
  BY <1>1, <1>2, <1>3, Rest

\* One JsFuture that is none of the stream's, or keeps what the stream sees.
LEMMA Touched ==
  ASSUME IInv, UNCHANGED <<settled, streamVars>>,
         st' \in [Tasks -> Exec!States], \A t \in Tasks : st[t] = "done" => st'[t] = "done",
         NEW f \in Awaits, NEW r \in Inner, Sound(r, settled), state' = [state EXCEPT ![f] = r],
         f \in Calls =>
           /\ r.of = state[f].of /\ r.polled = state[f].polled /\ r.handle = state[f].handle
  PROVE  IInv'
<1>1. settled' = settled /\ UNCHANGED streamVars
  OBVIOUS
<1>2. /\ settled' \in [Promises -> Outcomes \cup {None}] /\ state' \in [Awaits -> Inner]
      /\ \A k \in Calls : k > calls => settled'[k] = None
  BY Types DEF IInv, LastCall
<1>3. \A g \in Awaits : state'[g] = IF g = f THEN r ELSE state[g]
  BY Types DEF IInv
<1>4. States'
  <2>1. \A g \in Awaits : Sound(state'[g], settled)
    BY <1>3 DEF IInv, States
  <2> QED
    BY <1>1, <2>1 DEF States
<1>5. SettledByEnd'
  BY <1>1 DEF IInv, SettledByEnd
<1>6. \A k \in Calls :
        /\ state'[k].of = state[k].of /\ state'[k].polled = state[k].polled
        /\ state[k].handle = Stream => state'[k].handle = Stream
  BY <1>3 DEF Awaits
<1> QED
  BY <1>1, <1>2, <1>4, <1>5, <1>6, Rest

LEMMA FuturesApart == Futures \subseteq Awaits /\ Futures \cap Calls = {} /\ Calls \subseteq Awaits
BY JsFutureAssumption DEF Awaits

LEMMA StTypes ==
  ASSUME TypeOK, NEW t \in Tasks, NEW s \in Exec!States, Exec!Become(t, s)
  PROVE  st' \in [Tasks -> Exec!States] /\ \A u \in Tasks : st'[u] = IF u = t THEN s ELSE st[u]
BY Types DEF Exec!Become

-----------------------------------------------------------------------------
\* The host calls back.
LEMMA FinishInv == ASSUME IInv, NEW f \in Awaits, finish(f) PROVE IInv'
<1>1. /\ state[f] \in Inner /\ Sound(state[f], settled) /\ state[f].of # None
      /\ ~state[f].called /\ settled[state[f].of] # None
  BY Types DEF finish, IInv, States
<1>2. settled[state[f].of] \in Outcomes
  <2>1. state[f].of \in Promises
    BY <1>1 DEF Inner
  <2> QED
    BY <1>1, <2>1, Types DEF IInv
<1> DEFINE r == Finished(state[f], settled[state[f].of])
<1>3. state' = [state EXCEPT ![f] = r] /\ UNCHANGED <<settled, streamVars>>
  BY DEF finish, Finished
<1>4. /\ r \in Inner /\ Sound(r, settled) /\ r.of = state[f].of
      /\ r.polled = state[f].polled /\ r.handle = state[f].handle
  BY <1>1, <1>2, FinishedSound
<1>5. st' \in [Tasks -> Exec!States] /\ \A t \in Tasks : st[t] = "done" => st'[t] = "done"
  <2>1. PICK t \in Tasks \cup {None} : Woken(t)
    BY <1>1 DEF finish, Inner
  <2>2. CASE UNCHANGED st
    BY <2>2, Types DEF IInv
  <2>3. CASE t \in Tasks /\ Exec!Wake(t)
    BY <2>3, Types DEF IInv, Exec!Wake, Exec!Become, Exec!States
  <2> QED
    BY <2>1, <2>2, <2>3 DEF Woken
<1> HIDE DEF r
<1> QED
  BY <1>3, <1>4, <1>5, Touched

LEMMA Unmoved ==
  ASSUME IInv, st' = st
  PROVE  st' \in [Tasks -> Exec!States] /\ \A t \in Tasks : st[t] = "done" => st'[t] = "done"
BY Types DEF IInv

\* What a task's future does.
LEMMA MakeInv ==
  ASSUME IInv, NEW t \in Tasks, NEW f \in Futures, NEW p \in Tasks \cup Foreign, Make(t, f, p)
  PROVE  IInv'
<1>1. p \in Promises
  BY DEF Promises
<1>2. From(p, t) \in Inner /\ Sound(From(p, t), settled)
  BY <1>1, FromSound
<1>3. state' = [state EXCEPT ![f] = From(p, t)] /\ UNCHANGED <<settled, streamVars>> /\ st' = st
  BY DEF Make
<1>4. f \in Awaits /\ f \notin Calls
  BY FuturesApart
<1> QED
  BY <1>2, <1>3, <1>4, Unmoved, Touched

LEMMA PollFutureInv ==
  ASSUME IInv, NEW t \in Tasks, NEW f \in Futures, PollFuture(t, f) PROVE IInv'
<1>1. f \in Awaits /\ f \notin Calls
  BY FuturesApart
<1>2. state[f] \in Inner /\ Sound(state[f], settled) /\ state[f].handle # None
  BY <1>1, Types, NoneIsNot DEF IInv, States, PollFuture
<1>3. Awaited(state[f], t) \in Inner /\ Sound(Awaited(state[f], t), settled)
  BY <1>2, AwaitedSound
<1>4. /\ state' = [state EXCEPT ![f] = Awaited(state[f], t)]
      /\ UNCHANGED <<settled, streamVars>> /\ st' = st
  BY DEF PollFuture
<1> QED
  BY <1>1, <1>3, <1>4, Unmoved, Touched

LEMMA PassInv ==
  ASSUME IInv, NEW t \in Tasks, NEW f \in Futures, NEW u \in Tasks, Pass(t, f, u) PROVE IInv'
<1>1. f \in Awaits /\ f \notin Calls
  BY FuturesApart
<1>2. state[f] \in Inner /\ Sound(state[f], settled) /\ state[f].handle = t /\ t # None /\ u # None
  BY <1>1, Types, NoneIsNot DEF IInv, States, Pass
<1> DEFINE s == state[f]
           r == [state[f] EXCEPT !.handle = u]
<1>3. state' = [state EXCEPT ![f] = r] /\ UNCHANGED <<settled, streamVars>> /\ st' = st
  BY DEF Pass
<1>4. /\ r \in Inner /\ r.of = s.of /\ r.callbacks = s.callbacks /\ r.result = s.result
      /\ r.task = s.task /\ r.strong = s.strong /\ r.handle = u
      /\ r.called = s.called /\ r.polled = s.polled
  BY <1>2 DEF Inner
<1>5. s.of # None
  BY <1>2 DEF Sound, Unmade
<1>6. Sound(r, settled)
  <2> HIDE DEF r
  <2> QED
    BY <1>2, <1>4, <1>5 DEF Sound, One
<1> HIDE DEF r
<1> QED
  BY <1>1, <1>3, <1>4, <1>6, Unmoved, Touched

LEMMA DropFutureInv ==
  ASSUME IInv, NEW t \in Tasks, NEW f \in Futures, DropFuture(t, f) PROVE IInv'
<1>1. f \in Awaits /\ f \notin Calls
  BY FuturesApart
<1>2. state[f] \in Inner /\ Sound(state[f], settled) /\ state[f].handle # None
  BY <1>1, Types, NoneIsNot DEF IInv, States, DropFuture
<1>3. Dropped(state[f]) \in Inner /\ Sound(Dropped(state[f]), settled)
  BY <1>2, DroppedSound
<1>4. /\ state' = [state EXCEPT ![f] = Dropped(state[f])]
      /\ UNCHANGED <<settled, streamVars>> /\ st' = st
  BY DEF DropFuture
<1> QED
  BY <1>1, <1>3, <1>4, Unmoved, Touched

-----------------------------------------------------------------------------
(***************************************************************************)
(* The stream.                                                             *)
(***************************************************************************)
LEMMA StreamRest ==
  ASSUME IInv, UNCHANGED <<st, settled>>, NEW f \in Calls, NEW r \in Inner,
         Sound(r, settled), state' = [state EXCEPT ![f] = r]
  PROVE  States' /\ SettledByEnd' /\ \A g \in Awaits : state'[g] = IF g = f THEN r ELSE state[g]
<1>1. \A g \in Awaits : state'[g] = IF g = f THEN r ELSE state[g]
  BY Types, FuturesApart DEF IInv
<1>2. \A g \in Awaits : Sound(state'[g], settled)
  BY <1>1 DEF IInv, States
<1>3. st' = st /\ settled' = settled
  OBVIOUS
<1> QED
  BY <1>1, <1>2, <1>3 DEF IInv, States, SettledByEnd

LEMMA StreamTypes ==
  ASSUME TypeOK, UNCHANGED <<st, settled>>, state' \in [Awaits -> Inner],
         next' \in 0..MaxCalls, calls' \in 0..MaxCalls,
         stream' \in {"live", "done", "dropped"}, yields' \in Seq(Outcomes)
  PROVE  TypeOK'
BY DEF TypeOK, Inner

LEMMA CallNextInv == ASSUME IInv, NEW t \in Tasks, CallNext(t) PROVE IInv'
<1> DEFINE k == calls + 1
           s == From(k, Stream)
           r == Awaited(s, t)
<1>1. /\ stream = "live" /\ next = 0 /\ calls < MaxCalls /\ calls' = k /\ next' = k
      /\ state' = [state EXCEPT ![k] = r]
      /\ st' = st /\ settled' = settled /\ stream' = stream /\ yields' = yields
  BY DEF CallNext
<1>2. calls \in Nat /\ MaxCalls \in Nat /\ k \in Calls /\ k \in Promises /\ k # 0
  BY <1>1, Types, JsFutureAssumption DEF IInv, Calls, Promises
<1>3. /\ s \in Inner /\ Sound(s, settled) /\ s.of = k /\ s.handle = Stream
      /\ s.polled = <<>> /\ s.result = None
  BY <1>2, FromSound
<1>4. Stream # None
  BY NoneIsNot
<1> HIDE DEF s
<1>5. /\ r \in Inner /\ Sound(r, settled) /\ r.of = k /\ r.handle = Stream /\ r.polled = <<>>
  BY <1>3, <1>4, AwaitedSound
<1> HIDE DEF r
<1>6. States' /\ SettledByEnd' /\ \A g \in Awaits : state'[g] = IF g = k THEN r ELSE state[g]
  BY <1>1, <1>2, <1>5, StreamRest
<1>7. k \in Awaits /\ state'[k] = r
  BY <1>2, <1>6, FuturesApart
<1>8. TypeOK'
  <2>1. state' \in [Awaits -> Inner]
    BY <1>1, <1>5, Types DEF IInv
  <2>2. k \in 0..MaxCalls
    BY <1>2 DEF Calls
  <2>3. yields \in Seq(Outcomes) /\ stream \in {"live", "done", "dropped"}
    BY Types DEF IInv
  <2> QED
    BY <1>1, <2>1, <2>2, <2>3, StreamTypes DEF IInv
<1>9. LastCall'
  <2>1. ASSUME NEW j \in Calls, j > k PROVE state'[j].of = None /\ settled[j] = None
    <3>1. j > calls /\ j # k /\ j \in Awaits
      BY <1>2, <2>1, FuturesApart, JsFutureAssumption DEF Calls
    <3> QED
      BY <3>1, <1>6 DEF IInv, LastCall
  <2>2. Len(yields) = calls /\ k - 1 = calls
    BY <1>1, <1>2 DEF IInv, LastCall
  <2> QED
    BY <1>1, <1>2, <1>5, <1>7, <2>1, <2>2 DEF LastCall
<1>10. Yielded'
  <2>1. Len(yields) = calls /\ calls = k - 1
    BY <1>1, <1>2 DEF IInv, LastCall
  <2>2. \A j \in 1..Len(yields) : /\ yields[j] = settled[j]
                                   /\ yields[j] = "ok"
    BY <1>1, <1>2, <2>1 DEF IInv, Yielded
  <2> QED
    BY <1>1, <2>1, <2>2 DEF Yielded
<1> QED
  BY <1>6, <1>8, <1>9, <1>10 DEF IInv

\* Something is yielded at the end of a live stream.
LEMMA Yield ==
  ASSUME TypeOK, Yielded, stream = "live", NEW y \in Outcomes, yields' = Append(yields, y),
         calls' = calls, settled' = settled, stream' = IF y = "ok" THEN "live" ELSE "done",
         \/ Len(yields) = calls - 1 /\ y = settled[calls]
         \/ Len(yields) = calls /\ y # "ok"
  PROVE  Yielded' /\ yields' \in Seq(Outcomes) /\ Len(yields') = Len(yields) + 1
<1>1. yields \in Seq(Outcomes) /\ Len(yields) \in Nat /\ calls \in Nat
  BY Types
<1>2. /\ yields' \in Seq(Outcomes) /\ Len(yields') = Len(yields) + 1
      /\ \A j \in 1..Len(yields) : yields'[j] = yields[j]
      /\ yields'[Len(yields) + 1] = y
  BY <1>1, AppendProperties
<1>3. Len(yields') \in {calls' - 1, calls', calls' + 1}
  BY <1>1, <1>2
<1>4. ASSUME NEW j \in 1..Len(yields')
      PROVE  /\ j <= calls' => yields'[j] = settled'[j]
             /\ j < Len(yields') => yields'[j] = "ok"
             /\ stream' = "live" => yields'[j] = "ok"
  <2>1. CASE j \in 1..Len(yields)
    BY <1>1, <1>2, <2>1 DEF Yielded
  <2>2. CASE j = Len(yields) + 1
    BY <1>1, <1>2, <2>2
  <2> QED
    BY <1>1, <1>2, <2>1, <2>2
<1> QED
  BY <1>2, <1>3, <1>4 DEF Yielded

LEMMA CallThrowsInv == ASSUME IInv, NEW t \in Tasks, CallThrows(t) PROVE IInv'
<1>1. /\ stream = "live" /\ next = 0 /\ stream' = "done" /\ yields' = Append(yields, "err")
      /\ st' = st /\ settled' = settled /\ state' = state /\ next' = next /\ calls' = calls
  BY DEF CallThrows
<1>2. "err" \in Outcomes /\ Len(yields) = calls
  BY <1>1 DEF Outcomes, IInv, LastCall
<1>3. Yielded' /\ yields' \in Seq(Outcomes)
  BY <1>1, <1>2, Yield DEF IInv
<1>4. TypeOK'
  BY <1>1, <1>3, Types, StreamTypes DEF IInv, TypeOK
<1>5. LastCall'
  BY <1>1 DEF IInv, LastCall
<1>6. States' /\ SettledByEnd'
  BY <1>1 DEF IInv, States, SettledByEnd
<1> QED
  BY <1>3, <1>4, <1>5, <1>6 DEF IInv

\* The JsFuture that the stream waits for.
LEMMA Awaited1 ==
  ASSUME IInv, next # 0
  PROVE  /\ next \in Calls /\ next \in Awaits /\ next \in Promises
         /\ next = calls /\ state[next] \in Inner /\ Sound(state[next], settled)
         /\ state[next].of = next /\ state[next].handle = Stream /\ Stream # None
<1>1. next \in Calls
  BY DEF IInv, TypeOK, Calls
<1>2. next \in Awaits /\ next \in Promises
  BY <1>1, FuturesApart DEF Promises
<1>3. state[next] \in Inner /\ Sound(state[next], settled)
  BY <1>2, Types DEF IInv, States
<1> QED
  BY <1>1, <1>2, <1>3, NoneIsNot DEF IInv, LastCall

LEMMA PollNextInv == ASSUME IInv, NEW t \in Tasks, PollNext(t) PROVE IInv'
<1> DEFINE s == state[next]
           y == s.result
           q == Awaited(s, t)
           r == IF y = "ok" THEN Dropped(q) ELSE q
<1>1. /\ stream = "live" /\ next # 0
      /\ state' = [state EXCEPT ![next] = r]
      /\ next' = IF y = "ok" THEN 0 ELSE next
      /\ stream' = IF y \in {"err", "end"} THEN "done" ELSE stream
      /\ yields' = IF y = None THEN yields ELSE Append(yields, y)
      /\ st' = st /\ settled' = settled /\ calls' = calls
  BY DEF PollNext
<1>2. /\ next \in Calls /\ next \in Awaits /\ next \in Promises
      /\ next = calls /\ s \in Inner /\ Sound(s, settled)
      /\ s.of = next /\ s.handle = Stream /\ Stream # None
  BY <1>1, Awaited1
<1>3. Len(yields) = calls - 1 /\ s.polled = <<>>
  BY <1>1 DEF IInv, LastCall
<1>4. y \in Outcomes \cup {None} /\ (y # None => y = settled[calls]) /\ None \notin Outcomes
  BY <1>2, NoneIsNot DEF Inner, Sound, Outcomes
<1> HIDE DEF s
<1>5. /\ q \in Inner /\ Sound(q, settled) /\ q.of = next /\ q.handle = Stream
      /\ y = None => q.polled = <<>>
  BY <1>2, <1>3, AwaitedSound
<1> HIDE DEF q
<1>6. /\ r \in Inner /\ Sound(r, settled) /\ r.of = next
      /\ y = None => r.polled = <<>>
      /\ y # "ok" => r.handle = Stream
  BY <1>2, <1>4, <1>5, DroppedSound
<1> HIDE DEF r, y
<1>7. States' /\ SettledByEnd' /\ \A g \in Awaits : state'[g] = IF g = next THEN r ELSE state[g]
  BY <1>1, <1>2, <1>6, StreamRest
<1>8. state'[next] = r
  BY <1>2, <1>7
<1>9. yields \in Seq(Outcomes) /\ calls \in Nat /\ next \in 0..MaxCalls /\ calls \in 0..MaxCalls
  BY Types DEF IInv, TypeOK
<1>10. y # None => Yielded' /\ yields' \in Seq(Outcomes) /\ Len(yields') = calls
  <2> SUFFICES ASSUME y # None
               PROVE  Yielded' /\ yields' \in Seq(Outcomes) /\ Len(yields') = calls
    OBVIOUS
  <2>1. /\ y \in Outcomes /\ y = settled[calls] /\ yields' = Append(yields, y)
        /\ stream' = IF y = "ok" THEN "live" ELSE "done"
    BY <1>1, <1>4 DEF Outcomes
  <2>2. Yielded' /\ yields' \in Seq(Outcomes) /\ Len(yields') = Len(yields) + 1
    BY <1>1, <1>3, <2>1, Yield DEF IInv
  <2> QED
    BY <1>3, <1>9, <2>2
<1>11. y = None => Yielded' /\ yields' = yields /\ stream' = stream /\ next' = next
  <2>1. None # "err" /\ None # "end" /\ None # "ok"
    BY <1>4 DEF Outcomes
  <2> QED
    BY <1>1, <2>1 DEF IInv, Yielded
<1>12. TypeOK'
  <2>1. state' \in [Awaits -> Inner]
    BY <1>1, <1>6, Types DEF IInv
  <2>2. next' \in 0..MaxCalls /\ stream' \in {"live", "done", "dropped"}
    <3>1. 0 \in 0..MaxCalls
      BY JsFutureAssumption
    <3> QED
      BY <1>1, <1>9, <3>1
  <2> QED
    BY <1>1, <1>9, <1>10, <1>11, <2>1, <2>2, StreamTypes DEF IInv
<1>13. LastCall'
  <2>1. ASSUME NEW j \in Calls, j > calls' PROVE state'[j].of = None /\ settled'[j] = None
    <3>1. j \in Awaits /\ j > calls /\ j # next
      BY <1>1, <1>2, <1>9, <2>1, FuturesApart
    <3> QED
      BY <3>1, <1>1, <1>7 DEF IInv, LastCall
  <2>2. next' # 0 => /\ next' = calls' /\ state'[next'].of = next'
                     /\ state'[next'].handle = Stream
    BY <1>1, <1>2, <1>6, <1>8
  <2>3. stream' = "live" =>
          IF next' = 0 THEN Len(yields') = calls'
          ELSE Len(yields') = calls' - 1 /\ state'[next'].polled = <<>>
    <3>1. CASE y = None
      BY <3>1, <1>1, <1>3, <1>6, <1>8, <1>11
    <3>2. CASE y = "ok"
      BY <3>2, <1>1, <1>4, <1>10 DEF Outcomes
    <3>3. CASE y \in {"err", "end"}
      BY <3>3, <1>1
    <3> QED
      BY <3>1, <3>2, <3>3, <1>4 DEF Outcomes
  <2> QED
    BY <2>1, <2>2, <2>3 DEF LastCall
<1> QED
  BY <1>7, <1>10, <1>11, <1>12, <1>13 DEF IInv

LEMMA DropStreamInv == ASSUME IInv, NEW t \in Tasks, DropStream(t) PROVE IInv'
<1>1. /\ stream' = "dropped" /\ next' = 0
      /\ state' = IF next = 0 THEN state ELSE [state EXCEPT ![next] = Dropped(state[next])]
      /\ st' = st /\ settled' = settled /\ calls' = calls /\ yields' = yields
  BY DEF DropStream
<1>2. 0 \in 0..MaxCalls /\ calls \in 0..MaxCalls /\ yields \in Seq(Outcomes)
  BY JsFutureAssumption DEF IInv, TypeOK
<1>3. /\ States' /\ SettledByEnd' /\ state' \in [Awaits -> Inner]
      /\ \A g \in Awaits : state'[g].of = state[g].of
  <2>1. CASE next = 0
    BY <1>1, <2>1, Types DEF IInv, States, SettledByEnd
  <2>2. CASE next # 0
    <3> DEFINE r == Dropped(state[next])
    <3>1. /\ next \in Calls /\ state[next] \in Inner /\ Sound(state[next], settled)
          /\ state[next].handle # None
      BY <2>2, Awaited1
    <3>2. r \in Inner /\ Sound(r, settled) /\ r.of = state[next].of
      BY <3>1, DroppedSound
    <3>3. state' = [state EXCEPT ![next] = r]
      BY <1>1, <2>2
    <3> HIDE DEF r
    <3>4. States' /\ SettledByEnd' /\ \A g \in Awaits : state'[g] = IF g = next THEN r ELSE state[g]
      BY <1>1, <3>1, <3>2, <3>3, StreamRest
    <3>5. state' \in [Awaits -> Inner]
      BY <3>2, <3>3, Types DEF IInv
    <3> QED
      BY <3>2, <3>4, <3>5
  <2> QED
    BY <2>1, <2>2
<1>4. TypeOK'
  BY <1>1, <1>2, <1>3, StreamTypes DEF IInv
<1>5. LastCall'
  BY <1>1, <1>3, FuturesApart DEF IInv, LastCall
<1>6. Yielded'
  BY <1>1 DEF IInv, Yielded
<1> QED
  BY <1>3, <1>4, <1>5, <1>6 DEF IInv

-----------------------------------------------------------------------------
(***************************************************************************)
(* The executor.                                                           *)
(***************************************************************************)
LEMMA SpawnInv == ASSUME IInv, NEW t \in Tasks, Spawn(t) PROVE IInv'
<1>1. Exec!Become(t, "woken") /\ st[t] # "done" /\ "woken" \in Exec!States
  BY DEF Spawn, Exec!Spawn, Exec!States
<1>2. UNCHANGED <<settled, state, streamVars>>
  BY DEF Spawn
<1>3. st' \in [Tasks -> Exec!States] /\ \A u \in Tasks : st[u] = "done" => st'[u] = "done"
  BY <1>1, StTypes DEF IInv
<1> QED
  BY <1>2, <1>3, Kept

LEMMA WakeElseInv == ASSUME IInv, NEW t \in Tasks, WakeElse(t) PROVE IInv'
<1>1. UNCHANGED <<settled, state, streamVars>>
  BY DEF WakeElse
<1>2. PICK s \in Exec!States : Exec!Become(t, s) /\ st[t] # "done"
  BY DEF WakeElse, Exec!Wake, Exec!States
<1>3. st' \in [Tasks -> Exec!States] /\ \A u \in Tasks : st[u] = "done" => st'[u] = "done"
  BY <1>2, StTypes DEF IInv
<1> QED
  BY <1>1, <1>3, Kept

LEMMA SleepInv == ASSUME IInv, NEW t \in Tasks, Sleep(t) PROVE IInv'
<1>1. UNCHANGED <<settled, state, streamVars>>
  BY DEF Sleep
<1>2. PICK s \in Exec!States : Exec!Become(t, s) /\ st[t] # "done"
  BY DEF Sleep, Exec!Sleep, Exec!States
<1>3. st' \in [Tasks -> Exec!States] /\ \A u \in Tasks : st[u] = "done" => st'[u] = "done"
  BY <1>2, StTypes DEF IInv
<1> QED
  BY <1>1, <1>3, Kept

LEMMA AbortInv == ASSUME IInv, NEW t \in Tasks, Abort(t) PROVE IInv'
<1>1. UNCHANGED <<settled, state, streamVars>>
  BY DEF Abort
<1>2. Exec!Become(t, "done") /\ "done" \in Exec!States
  BY DEF Abort, Exec!Finish, Exec!States
<1>3. st' \in [Tasks -> Exec!States] /\ \A u \in Tasks : st[u] = "done" => st'[u] = "done"
  BY <1>2, StTypes DEF IInv
<1> QED
  BY <1>1, <1>3, Kept

LEMMA PollInv == ASSUME IInv, NEW t \in Tasks, Poll(t) PROVE IInv'
<1>1. UNCHANGED streamVars /\ settled' = settled
  BY DEF Poll
<1>2. Exec!Become(t, "polling") /\ st[t] # "done" /\ "polling" \in Exec!States
  BY DEF Poll, Exec!Poll, Exec!States
<1>3. st' \in [Tasks -> Exec!States] /\ \A u \in Tasks : st[u] = "done" => st'[u] = "done"
  BY <1>2, StTypes DEF IInv
<1>4. DOMAIN state' = Awaits /\ state' = [f \in Awaits |-> state'[f]]
  BY DEF Poll
<1>5. ASSUME NEW f \in Awaits
      PROVE  /\ state'[f] \in Inner /\ Sound(state'[f], settled)
             /\ state'[f].of = state[f].of /\ state'[f].polled = state[f].polled
             /\ state'[f].handle = state[f].handle
  <2>1. state[f] \in Inner /\ Sound(state[f], settled)
    BY Types DEF IInv, States
  <2>2. state'[f] = IF state[f].called /\ state[f].awaiter = t
                    THEN [state[f] EXCEPT !.awaiter = None] ELSE state[f]
    BY DEF Poll
  <2>3. CASE state[f].called /\ state[f].awaiter = t
    BY <2>1, <2>2, <2>3, PolledSound
  <2>4. CASE ~(state[f].called /\ state[f].awaiter = t)
    BY <2>1, <2>2, <2>4
  <2> QED
    BY <2>3, <2>4
<1>6. States' /\ SettledByEnd'
  <2>1. States'
    BY <1>1, <1>5 DEF States
  <2>2. SettledByEnd'
    BY <1>1, <1>3 DEF IInv, SettledByEnd
  <2> QED
    BY <2>1, <2>2
<1>7. state' \in [Awaits -> Inner]
  BY <1>4, <1>5
<1>8. /\ settled' \in [Promises -> Outcomes \cup {None}]
      /\ \A k \in Calls : k > calls => settled'[k] = None
  BY <1>1, Types DEF IInv, LastCall
<1> QED
  BY <1>1, <1>3, <1>5, <1>6, <1>7, <1>8, FuturesApart, Rest

\* A promise settles that had not.
LEMMA Settles ==
  ASSUME IInv, NEW p \in Promises, NEW o \in Outcomes, settled[p] = None,
         settled' = [settled EXCEPT ![p] = o]
  PROVE  /\ settled' \in [Promises -> Outcomes \cup {None}]
         /\ settled'[p] = o
         /\ \A q \in Promises : q # p => settled'[q] = settled[q]
         /\ \A q \in Promises : settled[q] # None => settled'[q] = settled[q]
         /\ \A f \in Awaits : Sound(state[f], settled')
<1>1. settled \in [Promises -> Outcomes \cup {None}] /\ state \in [Awaits -> Inner]
  BY Types DEF IInv
<1>2. /\ settled' \in [Promises -> Outcomes \cup {None}]
      /\ settled'[p] = o
      /\ \A q \in Promises : q # p => settled'[q] = settled[q]
  BY <1>1
<1>3. \A q \in Promises : settled[q] # None => settled'[q] = settled[q]
  BY <1>2
<1>4. \A f \in Awaits : Sound(state[f], settled')
  BY <1>1, <1>3, SettledSound DEF IInv, States
<1> QED
  BY <1>2, <1>3, <1>4

LEMMA FinishTaskInv ==
  ASSUME IInv, NEW t \in Tasks, NEW o \in {"ok", "err"}, Finish(t, o) PROVE IInv'
<1>1. UNCHANGED streamVars /\ settled' = [settled EXCEPT ![t] = o]
  BY DEF Finish
<1>2. Exec!Become(t, "done") /\ st[t] # "done" /\ "done" \in Exec!States
  BY DEF Finish, Exec!Finish, Exec!Polling, Exec!States
<1>3. /\ st' \in [Tasks -> Exec!States] /\ st'[t] = "done"
      /\ \A u \in Tasks : st[u] = "done" => st'[u] = "done"
  BY <1>2, StTypes DEF IInv
<1>4. settled[t] = None
  BY <1>2 DEF IInv, SettledByEnd
<1>5. t \in Promises /\ o \in Outcomes /\ t \notin Calls /\ Calls \subseteq Promises
  BY JsFutureAssumption DEF Promises, Outcomes
<1>6. /\ settled' \in [Promises -> Outcomes \cup {None}]
      /\ \A q \in Promises : q # t => settled'[q] = settled[q]
      /\ \A q \in Promises : settled[q] # None => settled'[q] = settled[q]
      /\ \A f \in Awaits : Sound(state[f], settled')
  BY <1>1, <1>4, <1>5, Settles
<1>7. DOMAIN state' = Awaits /\ state' = [f \in Awaits |-> state'[f]]
  BY DEF Finish
<1>8. ASSUME NEW f \in Awaits
      PROVE  /\ state'[f] \in Inner /\ Sound(state'[f], settled')
             /\ state'[f].of = state[f].of /\ state'[f].polled = state[f].polled
             /\ state[f].handle = Stream => state'[f].handle = Stream
  <2>1. state[f] \in Inner /\ Sound(state[f], settled')
    BY <1>6, Types DEF IInv
  <2>2. state'[f] = IF state[f].handle = t THEN Dropped(state[f]) ELSE state[f]
    BY DEF Finish
  <2>3. t # None /\ t # Stream
    BY NoneIsNot, JsFutureAssumption, <1>5
  <2>4. CASE state[f].handle = t
    BY <2>1, <2>2, <2>3, <2>4, DroppedSound
  <2>5. CASE state[f].handle # t
    BY <2>1, <2>2, <2>5
  <2> QED
    BY <2>4, <2>5
<1>9. States'
  BY <1>8 DEF States
<1>10. SettledByEnd'
  <2>1. ASSUME NEW u \in Tasks, settled'[u] # None PROVE st'[u] = "done"
    <3>1. u \in Promises
      BY DEF Promises
    <3> QED
      BY <2>1, <3>1, <1>3, <1>6 DEF IInv, SettledByEnd
  <2> QED
    BY <2>1 DEF SettledByEnd
<1>11. state' \in [Awaits -> Inner]
  BY <1>7, <1>8
<1>12. \A k \in Calls : k > calls => settled'[k] = None
  <2>1. \A k \in Calls : settled'[k] = settled[k]
    BY <1>5, <1>6
  <2> QED
    BY <2>1 DEF IInv, LastCall
<1> QED
  BY <1>1, <1>3, <1>6, <1>8, <1>9, <1>10, <1>11, <1>12, FuturesApart, Rest

LEMMA SettleInv ==
  ASSUME IInv, NEW p \in Foreign \cup Calls, NEW o \in Outcomes, Settle(p, o) PROVE IInv'
<1>1. /\ UNCHANGED streamVars /\ settled' = [settled EXCEPT ![p] = o]
      /\ settled[p] = None /\ (p \in Calls => p <= calls) /\ st' = st /\ state' = state
  BY DEF Settle
<1>2. p \in Promises /\ Calls \subseteq Promises /\ Tasks \subseteq Promises /\ p \notin Tasks
  BY JsFutureAssumption DEF Promises
<1>3. /\ settled' \in [Promises -> Outcomes \cup {None}]
      /\ \A q \in Promises : q # p => settled'[q] = settled[q]
      /\ \A q \in Promises : settled[q] # None => settled'[q] = settled[q]
      /\ \A f \in Awaits : Sound(state[f], settled')
  BY <1>1, <1>2, Settles
<1>4. States' /\ SettledByEnd'
  <2>1. States'
    BY <1>1, <1>3 DEF States
  <2>2. \A u \in Tasks : settled'[u] = settled[u]
    BY <1>2, <1>3
  <2> QED
    BY <2>1, <2>2, <1>1 DEF IInv, SettledByEnd
<1>5. \A k \in Calls : k > calls => settled'[k] = None
  <2>1. ASSUME NEW k \in Calls, k > calls PROVE settled'[k] = None
    <3>1. k # p
      BY <1>1, <2>1, Types, JsFutureAssumption DEF IInv, Calls
    <3> QED
      BY <1>2, <1>3, <2>1, <3>1 DEF IInv, LastCall
  <2> QED
    BY <2>1
<1>6. state' \in [Awaits -> Inner] /\ st' \in [Tasks -> Exec!States]
  BY <1>1, Types DEF IInv
<1> QED
  BY <1>1, <1>3, <1>4, <1>5, <1>6, Rest

-----------------------------------------------------------------------------
LEMMA NextInv == IInv /\ [Next]_vars => IInv'
<1> SUFFICES ASSUME IInv, [Next]_vars PROVE IInv'
  OBVIOUS
<1>1. ASSUME NEW t \in Tasks, Spawn(t) PROVE IInv'
  BY <1>1, SpawnInv
<1>2. ASSUME NEW t \in Tasks, Poll(t) PROVE IInv'
  BY <1>2, PollInv
<1>3. ASSUME NEW t \in Tasks, WakeElse(t) PROVE IInv'
  BY <1>3, WakeElseInv
<1>4. ASSUME NEW t \in Tasks, Sleep(t) PROVE IInv'
  BY <1>4, SleepInv
<1>5. ASSUME NEW t \in Tasks, Abort(t) PROVE IInv'
  BY <1>5, AbortInv
<1>6. ASSUME NEW t \in Tasks, NEW o \in {"ok", "err"}, Finish(t, o) PROVE IInv'
  BY <1>6, FinishTaskInv
<1>7. ASSUME NEW t \in Tasks, CallNext(t) PROVE IInv'
  BY <1>7, CallNextInv
<1>8. ASSUME NEW t \in Tasks, CallThrows(t) PROVE IInv'
  BY <1>8, CallThrowsInv
<1>9. ASSUME NEW t \in Tasks, PollNext(t) PROVE IInv'
  BY <1>9, PollNextInv
<1>10. ASSUME NEW t \in Tasks, DropStream(t) PROVE IInv'
  BY <1>10, DropStreamInv
<1>11. ASSUME NEW t \in Tasks, NEW f \in Futures, PollFuture(t, f) PROVE IInv'
  BY <1>11, PollFutureInv
<1>12. ASSUME NEW t \in Tasks, NEW f \in Futures, DropFuture(t, f) PROVE IInv'
  BY <1>12, DropFutureInv
<1>13. ASSUME NEW t \in Tasks, NEW f \in Futures, NEW u \in Tasks, Pass(t, f, u) PROVE IInv'
  BY <1>13, PassInv
<1>14. ASSUME NEW t \in Tasks, NEW f \in Futures, NEW p \in Tasks \cup Foreign, Make(t, f, p)
       PROVE  IInv'
  BY <1>14, MakeInv
<1>15. ASSUME NEW f \in Awaits, finish(f) PROVE IInv'
  BY <1>15, FinishInv
<1>16. ASSUME NEW p \in Foreign \cup Calls, NEW o \in Outcomes, Settle(p, o) PROVE IInv'
  BY <1>16, SettleInv
<1>17. CASE UNCHANGED vars
  <2>1. UNCHANGED <<settled, state, streamVars>> /\ st' = st
    BY <1>17 DEF vars
  <2> QED
    BY <2>1, Unmoved, Kept
<1> QED
  BY <1>1, <1>2, <1>3, <1>4, <1>5, <1>6, <1>7, <1>8, <1>9, <1>10, <1>11, <1>12, <1>13,
     <1>14, <1>15, <1>16, <1>17 DEF Next

LEMMA SpecInv == Spec => []IInv
BY InitInv, NextInv, PTL DEF Spec

\* Every variable keeps its type.
THEOREM TypeCorrect == Spec => []TypeOK
<1>1. IInv => TypeOK
  BY DEF IInv
<1> QED
  BY <1>1, SpecInv, PTL

\* The host finds the callbacks of every JsFuture it has not called back yet,
\* and afterwards the owners' count decides: finish breaks the cycle.
THEOREM CallbacksStayValid == Spec => []CallbacksValid
<1>1. IInv => CallbacksValid
  <2> SUFFICES ASSUME IInv, NEW f \in Awaits
               PROVE  LET s == state[f] IN
                      /\ s.of # None /\ ~s.called => s.callbacks /\ s.result = None
                      /\ s.strong = 2 * One(s.callbacks) + One(s.handle # None)
                      /\ s.strong = 0 => s.result = None /\ s.task = None
    BY DEF CallbacksValid
  <2>1. Sound(state[f], settled)
    BY DEF IInv, States
  <2> QED
    BY <2>1 DEF Sound
<1> QED
  BY <1>1, SpecInv, PTL

\* What an await yields is the outcome of its promise, once; a stream yields
\* the outcomes of its calls in order, and nothing after the last.
THEOREM OutcomesDelivered == Spec => []Delivered
<1>1. IInv => Delivered
  <2> SUFFICES ASSUME IInv PROVE Delivered
    OBVIOUS
  <2>1. \A f \in Awaits : state[f].polled # <<>> => state[f].polled = <<settled[state[f].of]>>
    BY DEF IInv, States, Sound
  <2> QED
    BY <2>1 DEF IInv, Yielded, Delivered
<1> QED
  BY <1>1, SpecInv, PTL
=============================================================================
