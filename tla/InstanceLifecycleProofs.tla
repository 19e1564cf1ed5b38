----------------------- MODULE InstanceLifecycleProofs -----------------------
(***************************************************************************)
(* Proofs about InstanceLifecycle, for any number of instances, calls      *)
(* nested to any depth and any builds that keep what the guide asks for:   *)
(* what aborted never executes again, is known to have aborted once the    *)
(* abort is caught, and its hook is called before anyone is refused.       *)
(***************************************************************************)
EXTENDS InstanceLifecycle, SequenceTheorems, TLAPS

\* No reset below an import; where aborts are detected, no code runs that
\* nobody watches: start does not fail, also not by what an import throws, and
\* no finalizer runs.
Watched ==
  \A s \in Settings :
    /\ ~({"reinit", "reenter"} \subseteq s)
    /\ "catch" \in s => /\ "startFails" \notin s /\ "finalize" \notin s
                        /\ "reinit" \in s => "unwind" \in s

Hooks == {"guardHook", "catchHook"}

\* Every frame is of the current instance; a hook runs in a terminated one only.
Sound(f) ==
  /\ f.inst = cur
  /\ f.kind \in Hooks => Terminated(cur) /\ calledAbort
  /\ f.kind \in {"start", "reset"} => Has("reinit")
  /\ f.kind = "finalizer" => Has("finalize")

\* Where instances are replaced, calls do not nest.
Frames ==
  /\ \A k \in 1..Len(stack) : Sound(stack[k])
  /\ Has("reinit") => Len(stack) <= 2

\* Nothing happened yet in instances to come.
Ahead ==
  /\ reinit => Has("reinit")
  /\ \A i \in Instances : i > cur => ~terminated[i] /\ hooks[i] = 0 /\ i \notin aborted

\* An abort that is not flagged is in flight, in an export that will flag it.
InFlight ==
  /\ exc = "trap" => cur \in aborted \cup stopped
  /\ Has("catch") => \A i \in aborted :
       terminated[i] \/ (i = cur /\ exc = "trap" /\ Running({"export"}))

IInv ==
  /\ TypeOK /\ Frames /\ Ahead /\ InFlight
  /\ DeadStaysDead /\ PoisonExact /\ HookBeforeRefusal

-----------------------------------------------------------------------------
(***************************************************************************)
(* The stack.                                                              *)
(***************************************************************************)
FrameSet == [kind : Kinds, inst : Instances]

StackType ==
  /\ stack \in Seq(FrameSet)
  /\ Len(stack) <= MaxDepth
  /\ \A k \in 1..Len(stack) : stack[k].kind = "import" <=> k % 2 = 0

LEMMA OneOdd == \A n \in Nat \ {0} : n <= 2 /\ n % 2 # 0 => n = 1
BY SMTT(30)

LEMMA Alternate == \A n \in Nat \ {0} : (n - 1) % 2 = 0 <=> n % 2 # 0
BY SMTT(30)

LEMMA FrameType ==
  ASSUME NEW k \in Kinds, NEW i \in Instances
  PROVE  Frame(k, i) \in FrameSet /\ Frame(k, i).kind = k /\ Frame(k, i).inst = i
BY DEF Frame, FrameSet

LEMMA PopFrame ==
  ASSUME NEW S, NEW q \in Seq(S), q # <<>>
  PROVE  /\ Front(q) \in Seq(S) /\ Len(q) \in Nat \ {0} /\ Len(Front(q)) = Len(q) - 1
         /\ \A k \in 1..Len(q) - 1 : Front(q)[k] = q[k]
         /\ Last(q) = q[Len(q)]
<1>1. Len(q) \in Nat /\ Len(q) # 0
  BY EmptySeq, LenProperties
<1>2. 1 \in 1..Len(q) + 1 /\ Len(q) - 1 \in 1 - 1..Len(q)
  BY <1>1
<1>3. /\ Front(q) \in Seq(S)
      /\ Len(Front(q)) = IF 1 <= Len(q) - 1 THEN Len(q) - 1 - 1 + 1 ELSE 0
      /\ \A k \in 1..Len(q) - 1 - 1 + 1 : Front(q)[k] = q[1 + k - 1]
  BY <1>2, SubSeqProperties DEF Front
<1>4. Len(Front(q)) = Len(q) - 1
  <2>1. PICK m \in Nat : m = Len(q) - 1
    BY <1>1
  <2>2. Len(Front(q)) = IF 1 <= m THEN m - 1 + 1 ELSE 0
    BY <2>1, <1>3
  <2>3. Len(Front(q)) = m
    BY <2>2
  <2> QED
    BY <2>1, <2>3
<1>5. \A k \in 1..Len(q) - 1 : Front(q)[k] = q[k]
  BY <1>1, <1>3
<1> QED
  BY <1>1, <1>3, <1>4, <1>5 DEF Last

LEMMA PushFrame ==
  ASSUME NEW S, NEW q \in Seq(S), NEW f \in S
  PROVE  /\ Append(q, f) \in Seq(S) /\ Len(q) \in Nat /\ Len(Append(q, f)) = Len(q) + 1
         /\ Append(q, f) # <<>> /\ Last(Append(q, f)) = f
         /\ \A k \in 1..Len(q) : Append(q, f)[k] = q[k]
         /\ Append(q, f)[Len(q) + 1] = f
<1>1. Len(q) \in Nat
  BY LenProperties
<1>2. /\ Append(q, f) \in Seq(S) /\ Len(Append(q, f)) = Len(q) + 1
      /\ \A k \in 1..Len(q) : Append(q, f)[k] = q[k]
      /\ Append(q, f)[Len(q) + 1] = f
  BY AppendProperties
<1>3. Append(q, f) # <<>>
  BY <1>1, <1>2, EmptySeq
<1> QED
  BY <1>1, <1>2, <1>3 DEF Last

LEMMA FirstFrame ==
  ASSUME NEW S, NEW f \in S, NEW e \in Seq(S), Len(e) = 0
  PROVE  /\ Append(e, f) \in Seq(S) /\ Len(Append(e, f)) = 1 /\ Append(e, f) # <<>>
         /\ Last(Append(e, f)) = f /\ Append(e, f)[1] = f
<1>1. /\ Append(e, f) \in Seq(S) /\ Len(Append(e, f)) = Len(e) + 1 /\ Append(e, f) # <<>>
      /\ Last(Append(e, f)) = f /\ Append(e, f)[Len(e) + 1] = f
  BY PushFrame
<1>2. Len(e) + 1 = 1
  OBVIOUS
<1> QED
  BY <1>1, <1>2

\* What runs, and what it may be called below.
LEMMA TopFrame ==
  ASSUME TypeOK, Frames, stack # <<>>
  PROVE  /\ Len(stack) \in Nat \ {0} /\ Last(stack) = stack[Len(stack)]
         /\ Last(stack).kind \in Kinds /\ Sound(Last(stack)) /\ Here = cur
         /\ Last(stack).kind = "import" <=> Len(stack) % 2 = 0
         /\ Has("reinit") /\ Last(stack).kind # "import" => Len(stack) = 1
<1>1. /\ Len(stack) \in Nat \ {0} /\ Last(stack) = stack[Len(stack)]
  BY PopFrame DEF TypeOK
<1>2. Len(stack) \in 1..Len(stack)
  BY <1>1
<1>3. stack[Len(stack)] \in FrameSet
  BY <1>1, <1>2, ElementOfSeq DEF TypeOK, FrameSet
<1>4. Last(stack).kind \in Kinds
  BY <1>1, <1>3 DEF FrameSet
<1>5. Sound(Last(stack))
  BY <1>1, <1>2 DEF Frames
<1>6. Last(stack).kind = "import" <=> Len(stack) % 2 = 0
  BY <1>1, <1>2 DEF TypeOK
<1>7. Has("reinit") /\ Last(stack).kind # "import" => Len(stack) = 1
  <2>1. Has("reinit") => Len(stack) <= 2
    BY DEF Frames
  <2> QED
    BY <2>1, <1>1, <1>6, OneOdd
<1> QED
  BY <1>1, <1>4, <1>5, <1>6, <1>7 DEF Sound, Here

\* What holds of frames goes on to hold while no instance is replaced.
Onwards ==
  /\ setting' = setting /\ cur' = cur
  /\ \A i \in Instances : terminated[i] => terminated'[i]
  /\ calledAbort => calledAbort'

LEMMA SoundAgain ==
  ASSUME TypeOK, Onwards, NEW f, Sound(f)
  PROVE  Sound(f)'
BY DEF TypeOK, Onwards, Sound, Terminated, Has

LEMMA StackKept ==
  ASSUME TypeOK, Frames, Onwards, UNCHANGED stack
  PROVE  StackType' /\ Frames'
<1>1. StackType'
  BY DEF TypeOK, StackType, FrameSet
<1>2. \A k \in 1..Len(stack) : Sound(stack[k])'
  <2> TAKE k \in 1..Len(stack)
  <2>1. PICK f : f = stack[k]
    OBVIOUS
  <2>2. Sound(f)'
    BY <2>1, SoundAgain DEF Frames
  <2> QED
    BY <2>1, <2>2 DEF Sound
<1> QED
  BY <1>1, <1>2 DEF Frames, Onwards, Has

LEMMA StackPopped ==
  ASSUME TypeOK, Frames, Onwards, stack # <<>>, stack' = Front(stack)
  PROVE  /\ StackType' /\ Frames'
         /\ stack' # <<>> => /\ Len(stack) >= 2
                             /\ Last(stack)' = stack[Len(stack) - 1]
                             /\ stack[Len(stack) - 1].inst = cur
                             /\ Sound(stack[Len(stack) - 1])
                             /\ stack[Len(stack) - 1].kind \in Kinds
                             /\ stack[Len(stack) - 1].kind = "import" <=> Last(stack).kind # "import"
<1>1. /\ stack' \in Seq(FrameSet) /\ Len(stack) \in Nat \ {0} /\ Len(stack') = Len(stack) - 1
      /\ \A k \in 1..Len(stack) - 1 : stack'[k] = stack[k]
      /\ Last(stack) = stack[Len(stack)]
  BY PopFrame DEF TypeOK, FrameSet
<1>2. StackType'
  BY <1>1, LifecycleAssumption DEF TypeOK, StackType
<1>3. \A k \in 1..Len(stack) - 1 : Sound(stack[k])'
  <2> TAKE k \in 1..Len(stack) - 1
  <2>1. PICK f : f = stack[k]
    OBVIOUS
  <2>2. k \in 1..Len(stack)
    BY <1>1
  <2>3. Sound(f)'
    BY <2>1, <2>2, SoundAgain DEF Frames
  <2> QED
    BY <2>1, <2>3, <1>1 DEF Sound
<1>4. Frames'
  <2>1. setting' = setting
    BY DEF Onwards
  <2>2. Has("reinit") => Len(stack') <= 2
    BY <1>1 DEF Frames
  <2>3. \A k \in 1..Len(stack') : Sound(stack[k])'
    BY <1>1, <1>3
  <2> QED
    BY <2>1, <2>2, <2>3 DEF Frames, Has
<1>5. ASSUME stack' # <<>>
      PROVE  /\ Len(stack) >= 2
             /\ Last(stack)' = stack[Len(stack) - 1]
             /\ stack[Len(stack) - 1].inst = cur
             /\ Sound(stack[Len(stack) - 1])
             /\ stack[Len(stack) - 1].kind \in Kinds
             /\ stack[Len(stack) - 1].kind = "import" <=> Last(stack).kind # "import"
  <2>1. Len(stack') \in Nat \ {0} /\ Last(stack)' = stack'[Len(stack')]
    BY <1>1, <1>5, PopFrame
  <2>2. Len(stack) >= 2 /\ Len(stack) - 1 \in 1..Len(stack) /\ Len(stack) \in 1..Len(stack)
        /\ Len(stack) - 1 \in 1..Len(stack) - 1
    BY <2>1, <1>1
  <2>3. Last(stack)' = stack[Len(stack) - 1]
    BY <2>1, <2>2, <1>1
  <2>4. stack[Len(stack) - 1] \in FrameSet
    BY <2>2, ElementOfSeq DEF TypeOK, FrameSet
  <2>5. Sound(stack[Len(stack) - 1])
    BY <2>2 DEF Frames
  <2>6. /\ stack[Len(stack) - 1].kind = "import" <=> (Len(stack) - 1) % 2 = 0
        /\ Last(stack).kind = "import" <=> Len(stack) % 2 = 0
    BY <2>2, <1>1 DEF TypeOK
  <2>7. (Len(stack) - 1) % 2 = 0 <=> Len(stack) % 2 # 0
    BY <1>1, Alternate
  <2> QED
    BY <2>2, <2>3, <2>4, <2>5, <2>6, <2>7 DEF FrameSet, Sound
<1> QED
  BY <1>2, <1>4, <1>5

\* A frame on top of base, the stack or what is below its top.
LEMMA StackPushed ==
  ASSUME TypeOK, Frames, Onwards, NEW base, NEW kind \in Kinds,
         base = stack \/ (stack # <<>> /\ base = Front(stack)),
         stack' = Append(base, Frame(kind, cur)),
         Len(base) < MaxDepth, kind = "import" <=> Len(base) % 2 = 1,
         Sound(Frame(kind, cur))', Has("reinit") => Len(base) < 2
  PROVE  /\ StackType' /\ Frames' /\ stack' # <<>>
         /\ Last(stack)' = Frame(kind, cur)
         /\ Last(stack)'.kind = kind /\ Last(stack)'.inst = cur
<1>0. cur \in Instances /\ stack \in Seq(FrameSet)
  BY DEF TypeOK, FrameSet
<1>1. /\ base \in Seq(FrameSet) /\ Len(base) \in Nat /\ Len(base) <= Len(stack) /\ Len(stack) \in Nat
      /\ \A k \in 1..Len(base) : base[k] = stack[k]
  <2>1. CASE base = stack
    BY <2>1, <1>0, LenProperties
  <2>2. CASE stack # <<>> /\ base = Front(stack)
    BY <2>2, <1>0, PopFrame, SMTT(30)
  <2> QED
    BY <2>1, <2>2
<1>2. Frame(kind, cur) \in FrameSet /\ Frame(kind, cur).kind = kind /\ Frame(kind, cur).inst = cur
  BY <1>0, FrameType
<1>3. /\ stack' \in Seq(FrameSet) /\ Len(stack') = Len(base) + 1
      /\ stack' # <<>> /\ Last(stack)' = Frame(kind, cur)
      /\ \A k \in 1..Len(base) : stack'[k] = base[k]
      /\ stack'[Len(base) + 1] = Frame(kind, cur)
  <2> DEFINE f == Frame(kind, cur)
  <2>1. f \in FrameSet /\ stack' = Append(base, f)
    BY <1>2
  <2> HIDE DEF f
  <2>2. /\ Append(base, f) \in Seq(FrameSet) /\ Len(Append(base, f)) = Len(base) + 1
        /\ Append(base, f) # <<>> /\ Last(Append(base, f)) = f
        /\ \A k \in 1..Len(base) : Append(base, f)[k] = base[k]
        /\ Append(base, f)[Len(base) + 1] = f
    BY <1>1, <2>1, PushFrame
  <2> QED
    BY <2>1, <2>2 DEF f
<1>4. \A k \in 1..Len(stack') : k \in 1..Len(base) \/ k = Len(base) + 1
  BY <1>1, <1>3
<1>5. \A k \in 1..Len(base) : k \in 1..Len(stack) /\ stack'[k] = stack[k]
  BY <1>1, <1>3
<1>6. StackType'
  <2>1. Len(stack') <= MaxDepth
    BY <1>1, <1>3, LifecycleAssumption
  <2>2. (Len(base) + 1) % 2 = 0 <=> Len(base) % 2 = 1
    BY <1>1
  <2>3. \A k \in 1..Len(stack') : stack'[k].kind = "import" <=> k % 2 = 0
    BY <1>2, <1>3, <1>4, <1>5, <2>2 DEF TypeOK
  <2> QED
    BY <1>3, <2>1, <2>3 DEF StackType
<1>7. \A k \in 1..Len(stack') : Sound(stack[k])'
  <2> TAKE k \in 1..Len(stack')
  <2>1. CASE k \in 1..Len(base)
    <3>1. PICK f : f = stack[k]
      OBVIOUS
    <3>2. Sound(f)'
      BY <2>1, <3>1, <1>5, SoundAgain DEF Frames
    <3> QED
      BY <2>1, <3>1, <3>2, <1>5 DEF Sound
  <2>2. CASE k = Len(base) + 1
    BY <2>2, <1>3, <1>2 DEF Sound, Onwards
  <2> QED
    BY <2>1, <2>2, <1>4
<1>8. Frames'
  <2>1. setting' = setting
    BY DEF Onwards
  <2>2. Has("reinit") => Len(stack') <= 2
    BY <1>1, <1>3
  <2> QED
    BY <1>7, <2>1, <2>2 DEF Frames, Has
<1> QED
  BY <1>2, <1>3, <1>6, <1>8

-----------------------------------------------------------------------------
(***************************************************************************)
(* The parts of a step that several actions share.                         *)
(***************************************************************************)
VarTypes ==
  /\ setting \in Settings
  /\ cur \in Instances
  /\ terminated \in [Instances -> BOOLEAN]
  /\ calledAbort \in BOOLEAN /\ reinit \in BOOLEAN
  /\ exc \in {None, "js", "trap", "refused"}
  /\ aborted \subseteq Instances /\ stopped \subseteq Instances
  /\ hooks \in [Instances -> 0..2]

LEMMA TypesApart == TypeOK <=> VarTypes /\ StackType
BY DEF TypeOK, VarTypes, StackType, FrameSet

LEMMA TypesApartNext == TypeOK' <=> VarTypes' /\ StackType'
BY DEF TypeOK, VarTypes, StackType, FrameSet

LEMMA Restrictions ==
  ASSUME Watched, setting \in Settings
  PROVE  /\ ~(Has("reinit") /\ Has("reenter"))
         /\ Has("catch") => ~Has("startFails") /\ ~Has("finalize")
         /\ Has("catch") /\ Has("reinit") => Has("unwind")
<1>1. /\ ~({"reinit", "reenter"} \subseteq setting)
      /\ "catch" \in setting =>
           /\ "startFails" \notin setting /\ "finalize" \notin setting
           /\ "reinit" \in setting => "unwind" \in setting
  BY DEF Watched
<1> QED
  BY <1>1 DEF Has

\* Every abort is flagged.
Quiet == Has("catch") => \A i \in aborted : terminated[i]

LEMMA Quieted ==
  ASSUME InFlight, exc # "trap" \/ ~Running({"export"})
  PROVE  Quiet
BY DEF InFlight, Quiet

\* The hook is called: on top of base, with the flag set.
LEMMA HookCalled ==
  ASSUME IInv, NEW base, NEW kind \in Hooks,
         base = stack \/ (stack # <<>> /\ base = Front(stack)),
         Len(base) < MaxDepth, Len(base) % 2 = 0, Has("reinit") => Len(base) < 2,
         CallHook(base, kind), exc' = None,
         Has("catch"), cur \in aborted \cup stopped,
         terminated' = [terminated EXCEPT ![cur] = TRUE],
         \A i \in aborted : i = cur \/ terminated[i],
         UNCHANGED <<setting, cur, aborted, stopped>>
  PROVE  IInv'
<1> USE DEF IInv
<1>1. VarTypes /\ None \notin {"js", "trap", "refused"}
  BY TypesApart, LifecycleAssumption
<1>2. terminated' \in [Instances -> BOOLEAN] /\ terminated'[cur] = TRUE
      /\ \A i \in Instances : i # cur => terminated'[i] = terminated[i]
  BY <1>1 DEF VarTypes
<1>3. Onwards
  BY <1>1, <1>2 DEF Onwards, CallHook, VarTypes
<1>4. /\ hooks' \in [Instances -> 0..2] /\ hooks'[cur] > 0
      /\ \A i \in Instances : i # cur => hooks'[i] = hooks[i]
  <2>1. hooks[cur] \in 0..2 /\ cur \in Instances /\ hooks \in [Instances -> 0..2]
    BY <1>1 DEF VarTypes
  <2>2. hooks' = [hooks EXCEPT ![cur] = IF hooks[cur] < 2 THEN hooks[cur] + 1 ELSE hooks[cur]]
    BY DEF CallHook
  <2> QED
    BY <2>1, <2>2
<1>5. VarTypes'
  BY <1>1, <1>2, <1>4 DEF VarTypes, CallHook
<1>6. kind \in Kinds /\ kind # "import"
  BY DEF Hooks, Kinds
<1>7. Sound(Frame(kind, cur))'
  BY <1>1, <1>2, <1>6, FrameType DEF Sound, Terminated, Has, CallHook, Hooks, VarTypes, Frame
<1>8. /\ StackType' /\ Frames' /\ stack' # <<>>
      /\ Last(stack)'.kind = kind /\ Last(stack)'.inst = cur
  BY <1>3, <1>6, <1>7, StackPushed DEF CallHook
<1>9. Ahead'
  BY <1>1, <1>2, <1>4 DEF Ahead, CallHook, Has, VarTypes, Instances
<1>10. InFlight'
  BY <1>1, <1>2 DEF InFlight, VarTypes
<1>11. DeadStaysDead'
  BY <1>8 DEF DeadStaysDead, Running, Hooks
<1>12. PoisonExact'
  BY <1>1, <1>2 DEF PoisonExact, VarTypes, Terminated, Has
<1>13. HookBeforeRefusal'
  BY <1>1, <1>4 DEF HookBeforeRefusal, CallHook
<1> QED
  BY <1>5, <1>8, <1>9, <1>10, <1>11, <1>12, <1>13, TypesApartNext

\* A new instance begins, below nothing.
LEMMA Replaced ==
  ASSUME IInv, NEW kind \in {"start", "reset"}, Has("reinit"), Quiet, MaxDepth > 0,
         Reset(<<>>, kind)
  PROVE  IInv'
<1> USE DEF IInv
<1>1. VarTypes /\ None \notin {"js", "trap", "refused"}
  BY TypesApart, LifecycleAssumption
<1>2. /\ cur \in Nat /\ cur' = cur + 1 /\ cur' \in Instances /\ setting' = setting
      /\ terminated' = terminated /\ aborted' = aborted /\ stopped' = stopped /\ hooks' = hooks
      /\ exc' = None /\ calledAbort' = FALSE /\ reinit' = FALSE
      /\ stack' = Append(<<>>, Frame(kind, cur + 1))
  BY <1>1, LifecycleAssumption DEF Reset, history, Instances, VarTypes
<1>3. VarTypes'
  BY <1>1, <1>2 DEF VarTypes
<1>4. PICK f : f = Frame(kind, cur + 1)
  OBVIOUS
<1>5. f \in FrameSet /\ f.kind = kind /\ f.inst = cur + 1
  BY <1>2, <1>4, FrameType DEF Kinds
<1>6. /\ stack' \in Seq(FrameSet) /\ Len(stack') = 1 /\ stack' # <<>>
      /\ Last(stack)' = f /\ stack'[1] = f
  <2>0. PICK e : e = <<>>
    OBVIOUS
  <2>1. stack' = Append(e, f)
    BY <2>0, <1>2, <1>4
  <2>2. e \in Seq(FrameSet) /\ Len(e) = 0 /\ f \in FrameSet
    BY <2>0, <1>5, EmptySeq
  <2>3. /\ Append(e, f) \in Seq(FrameSet) /\ Len(Append(e, f)) = 1 /\ Append(e, f) # <<>>
        /\ Last(Append(e, f)) = f /\ Append(e, f)[1] = f
    BY ONLY <2>2, FirstFrame
  <2> QED
    BY <2>1, <2>3
<1>7. \A k \in 1..Len(stack') : k = 1
  BY <1>6
<1>8. StackType'
  BY <1>5, <1>6, <1>7, LifecycleAssumption DEF StackType
<1>9. Frames'
  <2>1. Sound(f)'
    BY <1>2, <1>5 DEF Sound, Hooks, Has
  <2>2. \A k \in 1..Len(stack') : Sound(stack[k])'
    BY <2>1, <1>6, <1>7 DEF Sound
  <2> QED
    BY <2>2, <1>6 DEF Frames
<1>10. ~terminated[cur + 1] /\ hooks[cur + 1] = 0 /\ cur + 1 > cur
  BY <1>2 DEF Ahead, Instances
<1>11. Ahead'
  BY <1>1, <1>2 DEF Ahead, Instances
<1>12. InFlight'
  BY <1>1, <1>2 DEF InFlight, Quiet, Has
<1>13. DeadStaysDead'
  BY <1>2, <1>5, <1>6, <1>10 DEF DeadStaysDead, Here, Terminated
<1>14. PoisonExact'
  BY <1>2 DEF PoisonExact, Quiet, Terminated, Has
<1>15. HookBeforeRefusal'
  BY <1>1, <1>2, <1>10 DEF HookBeforeRefusal
<1> QED
  BY <1>3, <1>8, <1>9, <1>11, <1>12, <1>13, <1>14, <1>15, TypesApartNext

\* A step that neither flags nor replaces an instance nor calls a hook.
LEMMA Rest ==
  ASSUME IInv, UNCHANGED <<setting, cur, terminated, calledAbort, stopped, hooks>>,
         aborted' \in {aborted, aborted \cup {cur}},
         reinit' \in BOOLEAN, reinit' => Has("reinit"),
         exc' \in {None, "js", "trap", "refused"}, exc' = "refused" => calledAbort,
         StackType', Frames', InFlight', DeadStaysDead'
  PROVE  IInv'
<1> USE DEF IInv
<1>1. VarTypes /\ None \notin {"js", "trap", "refused"}
  BY TypesApart, LifecycleAssumption
<1>2. aborted' \subseteq Instances /\ aborted \subseteq aborted'
  BY <1>1 DEF VarTypes
<1>3. VarTypes'
  BY <1>1, <1>2 DEF VarTypes
<1>4. Ahead'
  <2>1. \A i \in Instances : i > cur => i \notin aborted'
    BY <1>1 DEF Ahead, VarTypes, Instances
  <2> QED
    BY <2>1 DEF Ahead, Has
<1>5. PoisonExact'
  BY <1>1, <1>2 DEF PoisonExact, InFlight, Terminated, Has
<1>6. HookBeforeRefusal'
  BY DEF HookBeforeRefusal
<1> QED
  BY <1>3, <1>4, <1>5, <1>6, TypesApartNext

LEMMA UnchangedOnwards ==
  ASSUME UNCHANGED <<setting, cur, terminated, calledAbort>>
  PROVE  Onwards
BY DEF Onwards

\* The guard goes on after the hook: base is all there is, where instances are
\* replaced.
LEMMA Recovered ==
  ASSUME IInv, NEW base, calledAbort, Quiet, MaxDepth > 0,
         base = stack \/ (stack # <<>> /\ base = Front(stack)),
         Has("reinit") => base = <<>>,
         Recover(base)
  PROVE  IInv'
<1>1. CASE reinit /\ Reset(base, "start")
  <2>1. Has("reinit")
    BY <1>1 DEF IInv, Ahead
  <2>2. Reset(<<>>, "start")
    BY <1>1, <2>1
  <2> QED
    BY <2>1, <2>2, Replaced
<1>2. CASE /\ ~reinit
           /\ exc' = "refused" /\ stack' = base
           /\ UNCHANGED <<setting, cur, terminated, calledAbort, reinit, history>>
  <2>1. Onwards
    BY <1>2, UnchangedOnwards
  <2>2. StackType' /\ Frames'
    <3>1. CASE base = stack
      BY <3>1, <1>2, <2>1, StackKept DEF IInv
    <3>2. CASE stack # <<>> /\ base = Front(stack)
      BY <3>2, <1>2, <2>1, StackPopped DEF IInv
    <3> QED
      BY <3>1, <3>2
  <2>3. InFlight' /\ DeadStaysDead'
    <3>1. None # "refused"
      BY LifecycleAssumption
    <3> QED
      BY <3>1, <1>2 DEF history, InFlight, Quiet, Has, DeadStaysDead, InWasm
  <2>4. reinit' \in BOOLEAN /\ (reinit' => Has("reinit"))
    BY <1>2 DEF IInv, TypeOK, Ahead
  <2> QED
    BY <1>2, <2>2, <2>3, <2>4, Rest DEF history
<1> QED
  BY <1>1, <1>2 DEF Recover

-----------------------------------------------------------------------------
(***************************************************************************)
(* The actions.                                                            *)
(***************************************************************************)

\* Where JavaScript runs and may call, the stack is even, and empty if instances
\* are replaced.
LEMMA Callable ==
  ASSUME IInv, Watched, InJS
  PROVE  /\ Len(stack) \in Nat /\ Len(stack) % 2 = 0
         /\ MayCall /\ Has("reinit") => stack = <<>>
         /\ MayCall => Len(stack) < MaxDepth /\ MaxDepth > 0
<1>1. Len(stack) \in Nat /\ Len(stack) % 2 = 0
  <2>1. CASE stack = <<>>
    BY <2>1
  <2>2. CASE Running({"import"})
    BY <2>2, TopFrame DEF IInv, Running
  <2> QED
    BY <2>1, <2>2 DEF InJS
<1>2. MayCall /\ Has("reinit") => stack = <<>>
  BY Restrictions DEF MayCall, IInv, TypeOK
<1>3. MayCall => Len(stack) < MaxDepth /\ MaxDepth > 0
  BY <1>1, LifecycleAssumption DEF MayCall, Room
<1> QED
  BY <1>1, <1>2, <1>3

\* What runs in wasm: an odd stack.
LEMMA Executing ==
  ASSUME IInv, InWasm
  PROVE  /\ exc = None /\ stack # <<>> /\ Here = cur /\ cur \in Instances
         /\ Last(stack).kind \in Kinds \ {"import"} /\ Sound(Last(stack))
         /\ Len(stack) \in Nat \ {0} /\ Len(stack) % 2 = 1
         /\ Has("reinit") => Len(stack) = 1
         /\ Last(stack).kind \notin Hooks => ~Terminated(cur)
<1>1. exc = None /\ stack # <<>> /\ ~Running({"import"})
  BY DEF InWasm
<1>2. Last(stack).kind # "import"
  BY <1>1 DEF Running
<1>3. /\ Len(stack) \in Nat \ {0} /\ Last(stack).kind \in Kinds
      /\ Sound(Last(stack)) /\ Here = cur
      /\ Last(stack).kind = "import" <=> Len(stack) % 2 = 0
      /\ Has("reinit") /\ Last(stack).kind # "import" => Len(stack) = 1
  BY <1>1, TopFrame DEF IInv
<1>4. Len(stack) % 2 = 1
  BY <1>2, <1>3
<1>5. Last(stack).kind \notin Hooks => ~Terminated(cur)
  BY <1>1, <1>3 DEF IInv, DeadStaysDead, Hooks, Running, InWasm
<1> QED
  BY <1>1, <1>2, <1>3, <1>4, <1>5 DEF IInv, TypeOK

\* A frame of the export is entered.
LEMMA Entered ==
  ASSUME IInv, NEW base,
         base = stack \/ (stack # <<>> /\ base = Front(stack)),
         Len(base) < MaxDepth, Len(base) % 2 = 0, Has("reinit") => Len(base) < 2,
         ~Terminated(cur), exc = None, Enter(base),
         UNCHANGED <<setting, cur, terminated, calledAbort, reinit, exc, history>>
  PROVE  IInv'
<1>1. Onwards
  BY UnchangedOnwards
<1>2. Sound(Frame("export", cur))'
  BY DEF Sound, Frame, Hooks
<1>3. "export" \in Kinds /\ "export" # "import"
  BY DEF Kinds
<1>4. /\ StackType' /\ Frames' /\ stack' # <<>>
      /\ Last(stack)'.kind = "export" /\ Last(stack)'.inst = cur
  BY <1>1, <1>2, <1>3, StackPushed DEF Enter, IInv
<1>5. Quiet
  BY LifecycleAssumption, Quieted DEF IInv
<1>6. InFlight'
  BY <1>5, LifecycleAssumption DEF InFlight, Quiet, Has, history
<1>7. DeadStaysDead'
  BY <1>4 DEF DeadStaysDead, Here, Terminated, Has
<1>8. reinit' \in BOOLEAN /\ (reinit' => Has("reinit"))
      /\ exc' \in {None, "js", "trap", "refused"} /\ exc' # "refused"
  BY LifecycleAssumption DEF IInv, TypeOK, Ahead
<1> QED
  BY <1>4, <1>6, <1>7, <1>8, Rest DEF history

LEMMA CallInv ==
  ASSUME IInv, Watched, Call
  PROVE  IInv'
<1>1. /\ InJS /\ MayCall /\ exc = None
      /\ Len(stack) \in Nat /\ Len(stack) % 2 = 0 /\ Len(stack) < MaxDepth /\ MaxDepth > 0
      /\ Has("reinit") => stack = <<>> /\ Len(stack) = 0
  BY Callable DEF Call, MayCall, InJS
<1>2. Quiet
  BY <1>1, LifecycleAssumption, Quieted DEF IInv
<1>3. CASE /\ Terminated(cur) /\ ~calledAbort
           /\ CallHook(stack, "guardHook")
           /\ UNCHANGED <<setting, cur, terminated, exc, aborted, stopped>>
  <2>1. Has("catch") /\ terminated[cur]
    BY <1>3 DEF Terminated
  <2>2. cur \in aborted \cup stopped
    BY <2>1 DEF IInv, PoisonExact, TypeOK
  <2>3. terminated' = [terminated EXCEPT ![cur] = TRUE]
    BY <1>3, <2>1 DEF IInv, TypeOK
  <2>4. \A i \in aborted : i = cur \/ terminated[i]
    BY <1>2, <2>1 DEF Quiet
  <2>5. "guardHook" \in Hooks
    BY DEF Hooks
  <2>6. Has("reinit") => Len(stack) < 2
    BY <1>1
  <2>7. exc' = None /\ UNCHANGED <<setting, cur, aborted, stopped>> /\ CallHook(stack, "guardHook")
    BY <1>1, <1>3
  <2>8. PICK base : base = stack
    OBVIOUS
  <2>9. Len(base) < MaxDepth /\ Len(base) % 2 = 0 /\ (Has("reinit") => Len(base) < 2)
        /\ CallHook(base, "guardHook")
    BY <2>6, <2>7, <2>8, <1>1
  <2> QED
    BY <2>1, <2>2, <2>3, <2>4, <2>5, <2>7, <2>8, <2>9, HookCalled
<1>4. CASE Terminated(cur) /\ calledAbort /\ Recover(stack)
  BY <1>1, <1>2, <1>4, Recovered
<1>5. CASE ~Terminated(cur) /\ reinit /\ Reset(stack, "start")
  <2>1. Has("reinit")
    BY <1>5 DEF IInv, Ahead
  <2>2. Reset(<<>>, "start")
    BY <1>1, <1>5, <2>1
  <2> QED
    BY <1>1, <1>2, <2>1, <2>2, Replaced
<1>6. CASE /\ ~Terminated(cur) /\ ~reinit
           /\ Enter(stack)
           /\ UNCHANGED <<setting, cur, terminated, calledAbort, reinit, exc, history>>
  BY <1>1, <1>6, Entered
<1> QED
  BY <1>3, <1>4, <1>5, <1>6 DEF Call

\* While the stack stays as it is and the exception does not fly on.
LEMMA Stays ==
  ASSUME IInv, UNCHANGED <<setting, cur, terminated, calledAbort, stack, stopped, hooks>>,
         aborted' \in {aborted, aborted \cup {cur}},
         reinit' \in BOOLEAN, reinit' => Has("reinit"),
         exc' \in {None, "js", "trap", "refused"}, exc' = "refused" => calledAbort,
         InFlight', DeadStaysDead'
  PROVE  IInv'
<1>1. Onwards
  BY UnchangedOnwards
<1>2. StackType' /\ Frames'
  BY <1>1, StackKept DEF IInv
<1> QED
  BY <1>2, Rest

LEMMA Calm ==
  ASSUME IInv
  PROVE  /\ reinit \in BOOLEAN /\ (reinit => Has("reinit"))
         /\ exc \in {None, "js", "trap", "refused"} /\ None \notin {"js", "trap", "refused"}
         /\ exc = "refused" => calledAbort
         /\ cur \in Instances /\ terminated \in [Instances -> BOOLEAN] /\ setting \in Settings
         /\ \A i \in aborted : i \in Instances
BY LifecycleAssumption DEF IInv, TypeOK, Ahead, HookBeforeRefusal

LEMMA ScheduleReinitInv ==
  ASSUME IInv, ScheduleReinit
  PROVE  IInv'
<1>1. InWasm /\ Has("reinit") /\ reinit' = TRUE
      /\ UNCHANGED <<setting, cur, terminated, calledAbort, stack, stopped, hooks>>
  BY DEF ScheduleReinit
<1>2. Here = cur /\ exc = None /\ Quiet
  BY <1>1, Executing, Calm, Quieted DEF IInv
<1>3. CASE Terminated(cur)
  <2>1. exc' = "trap" /\ aborted' = aborted \cup {cur} /\ terminated[cur]
    BY <1>2, <1>3 DEF ScheduleReinit, Trap, Terminated
  <2>2. InFlight'
    BY <2>1, <1>1, <1>2 DEF InFlight, Quiet, Has
  <2>3. DeadStaysDead'
    BY <2>1, Calm DEF DeadStaysDead, InWasm
  <2> QED
    BY <1>1, <2>1, <2>2, <2>3, Stays
<1>4. CASE ~Terminated(cur)
  <2>1. UNCHANGED <<exc, aborted>>
    BY <1>2, <1>4 DEF ScheduleReinit
  <2>2. InFlight'
    BY <2>1, <1>1, <1>2, Calm DEF InFlight, Quiet, Has
  <2>3. DeadStaysDead'
    BY <2>1, <1>1 DEF IInv, DeadStaysDead, InWasm, Running, Terminated, Here, Has
  <2>4. aborted' \in {aborted, aborted \cup {cur}} /\ exc' \in {None, "js", "trap", "refused"}
        /\ (exc' = "refused" => calledAbort)
    BY <2>1, Calm
  <2> QED
    BY <1>1, <2>1, <2>2, <2>3, <2>4, Stays
<1> QED
  BY <1>3, <1>4

LEMMA CallImportInv ==
  ASSUME IInv, CallImport
  PROVE  IInv'
<1>1. InWasm /\ Room /\ stack' = Append(stack, Frame("import", Here))
      /\ UNCHANGED <<setting, cur, terminated, calledAbort, reinit, exc, aborted, stopped, hooks>>
  BY DEF CallImport, history
<1>2. Here = cur /\ exc = None /\ Len(stack) \in Nat /\ Len(stack) % 2 = 1
      /\ (Has("reinit") => Len(stack) < 2)
  <2>1. /\ Here = cur /\ exc = None /\ Len(stack) \in Nat /\ Len(stack) % 2 = 1
        /\ Has("reinit") => Len(stack) = 1
    BY <1>1, Executing
  <2>2. Has("reinit") => Len(stack) = 1
    BY <2>1
  <2>3. Has("reinit") => Len(stack) < 2
    BY <2>2
  <2> QED
    BY <2>1, <2>3
<1>3. Onwards
  BY <1>1, UnchangedOnwards
<1>4. Sound(Frame("import", cur))'
  BY <1>1 DEF Sound, Frame, Hooks
<1>5. PICK base : base = stack
  OBVIOUS
<1>6. stack' = Append(base, Frame("import", cur)) /\ Len(base) < MaxDepth /\ Len(base) % 2 = 1
      /\ (Has("reinit") => Len(base) < 2) /\ "import" \in Kinds
  BY <1>1, <1>2, <1>5 DEF Room, Kinds
<1>7. /\ StackType' /\ Frames' /\ stack' # <<>>
      /\ Last(stack)'.kind = "import"
  BY <1>3, <1>4, <1>5, <1>6, StackPushed DEF IInv
<1>8. Quiet
  BY <1>2, Calm, Quieted DEF IInv
<1>9. InFlight'
  BY <1>8, <1>1, <1>2, Calm DEF InFlight, Quiet, Has
<1>10. DeadStaysDead'
  BY <1>7 DEF DeadStaysDead, InWasm, Running
<1>11. aborted' \in {aborted, aborted \cup {cur}} /\ exc' \in {None, "js", "trap", "refused"}
       /\ (exc' = "refused" => calledAbort) /\ reinit' \in BOOLEAN /\ (reinit' => Has("reinit"))
  BY <1>1, Calm
<1> QED
  BY <1>1, <1>7, <1>9, <1>10, <1>11, Rest

LEMMA AbortInv ==
  ASSUME IInv, Watched, Abort
  PROVE  IInv'
<1>1. InWasm /\ MayFail /\ Trap(Here)
      /\ UNCHANGED <<setting, cur, terminated, calledAbort, reinit, stack, stopped, hooks>>
  BY DEF Abort
<1>2. Here = cur /\ exc = None /\ Quiet /\ stack # <<>>
      /\ Last(stack).kind \in Kinds \ {"import"} /\ Sound(Last(stack))
  BY <1>1, Executing, Calm, Quieted DEF IInv
<1>3. exc' = "trap" /\ aborted' = aborted \cup {cur}
  BY <1>1, <1>2 DEF Trap
<1>4. Has("catch") => terminated[cur] \/ Last(stack).kind = "export"
  <2> HAVE Has("catch")
  <2>1. ~Has("startFails") /\ ~Has("finalize")
    BY Calm, Restrictions
  <2>2. Last(stack).kind \notin {"start", "reset", "finalizer"}
    BY <1>1, <1>2, <2>1 DEF MayFail, Running, Sound
  <2>3. Last(stack).kind \in Hooks => terminated[cur]
    BY <1>2 DEF Sound, Terminated
  <2> QED
    BY <1>2, <2>2, <2>3 DEF Kinds, Hooks
<1>5. InFlight'
  BY <1>1, <1>2, <1>3, <1>4 DEF InFlight, Quiet, Has, Running
<1>6. DeadStaysDead'
  BY <1>3, Calm DEF DeadStaysDead, InWasm
<1>7. reinit' \in BOOLEAN /\ (reinit' => Has("reinit"))
  BY <1>1, Calm
<1> QED
  BY <1>1, <1>3, <1>5, <1>6, <1>7, Stays

\* A panic in wasm or an error of JavaScript begins to fly, or is caught by
\* JavaScript.
LEMMA FlyInv ==
  ASSUME IInv, Panic \/ Throw \/ CatchInJS
  PROVE  IInv'
<1>1. UNCHANGED <<setting, cur, terminated, calledAbort, reinit, stack, aborted, stopped, hooks>>
  BY DEF Panic, Throw, CatchInJS, history
<1>2. Quiet
  <2>1. exc = None \/ ~Running({"export"})
    BY EmptySeq DEF Panic, Throw, CatchInJS, InWasm, InJS, Running
  <2> QED
    BY <2>1, Calm, Quieted DEF IInv
<1>3. exc' \in {None, "js"} /\ (exc' = None => stack = <<>> \/ Running({"import"}))
  BY Calm DEF Panic, Throw, CatchInJS
<1>4. InFlight'
  BY <1>1, <1>2, <1>3, Calm DEF InFlight, Quiet, Has
<1>5. DeadStaysDead'
  BY <1>1, <1>3, Calm DEF DeadStaysDead, InWasm, Running
<1>6. reinit' \in BOOLEAN /\ (reinit' => Has("reinit"))
      /\ exc' \in {None, "js", "trap", "refused"} /\ exc' # "refused"
      /\ aborted' \in {aborted, aborted \cup {cur}}
  BY <1>1, <1>3, Calm
<1> QED
  BY <1>1, <1>4, <1>5, <1>6, Stays

\* A frame is left with an exception, or for JavaScript: what is flagged stays
\* flagged.
LEMMA Leaves ==
  ASSUME IInv, UNCHANGED <<setting, cur, terminated, calledAbort, reinit, aborted, stopped, hooks>>,
         Quiet, stack # <<>>, stack' = Front(stack),
         exc' \in {None, "js", "trap", "refused"}, exc' = "refused" => calledAbort,
         exc' = "trap" => cur \in aborted \cup stopped,
         exc' # None \/ Last(stack).kind # "import"
  PROVE  IInv'
<1>1. Onwards
  BY UnchangedOnwards
<1>2. /\ StackType' /\ Frames'
      /\ stack' # <<>> => /\ Last(stack)' = stack[Len(stack) - 1]
                          /\ stack[Len(stack) - 1].kind = "import" <=> Last(stack).kind # "import"
  BY <1>1, StackPopped DEF IInv
<1>3. InFlight'
  BY DEF InFlight, Quiet, Has
<1>4. DeadStaysDead'
  BY <1>2 DEF DeadStaysDead, InWasm, Running
<1>5. reinit' \in BOOLEAN /\ (reinit' => Has("reinit")) /\ aborted' \in {aborted, aborted \cup {cur}}
  BY Calm
<1> QED
  BY <1>2, <1>3, <1>4, <1>5, Rest

\* In a hook everything is flagged, and its instance, too.
LEMMA InHook ==
  ASSUME IInv, NEW kind \in Hooks, Running({kind})
  PROVE  /\ stack # <<>> /\ Last(stack).kind = kind /\ calledAbort
         /\ Quiet /\ cur \in aborted \cup stopped
         /\ Has("reinit") => Front(stack) = <<>>
<1>1. stack # <<>> /\ Last(stack).kind = kind /\ kind # "export" /\ kind # "import"
  BY DEF Running, Hooks
<1>2. calledAbort /\ terminated[cur]
  BY <1>1, TopFrame DEF IInv, Sound, Terminated
<1>3. Quiet
  BY <1>1, Quieted DEF IInv, Running
<1>4. cur \in aborted \cup stopped
  BY <1>2, Calm DEF IInv, PoisonExact
<1>5. ASSUME Has("reinit") PROVE Front(stack) = <<>>
  <2>1. Len(stack) = 1
    BY <1>1, <1>5, TopFrame DEF IInv
  <2>2. Front(stack) \in Seq(FrameSet) /\ Len(Front(stack)) = Len(stack) - 1
    BY <1>1, PopFrame DEF IInv, TypeOK, FrameSet
  <2>3. PICK q : q = Front(stack)
    OBVIOUS
  <2>4. q \in Seq(FrameSet) /\ Len(q) = 0
    BY <2>1, <2>2, <2>3
  <2>5. q = <<>>
    BY <2>4, EmptySeq
  <2> QED
    BY <2>3, <2>5
<1> QED
  BY <1>1, <1>2, <1>3, <1>4, <1>5

LEMMA SomeDepth ==
  ASSUME IInv, stack # <<>>
  PROVE  MaxDepth > 0 /\ Len(Front(stack)) < MaxDepth /\ Len(Front(stack)) = Len(stack) - 1
<1>1. Len(stack) \in Nat \ {0} /\ Len(Front(stack)) = Len(stack) - 1 /\ Len(stack) <= MaxDepth
  BY PopFrame DEF IInv, TypeOK
<1> QED
  BY <1>1, LifecycleAssumption

LEMMA ReturnInv ==
  ASSUME IInv, Return
  PROVE  IInv'
<1>1. /\ InWasm /\ exc = None /\ stack # <<>> /\ Here = cur
      /\ Last(stack).kind \in Kinds \ {"import"} /\ Sound(Last(stack))
      /\ Len(stack) \in Nat \ {0} /\ Len(stack) % 2 = 1
      /\ Has("reinit") => Len(stack) = 1
      /\ Last(stack).kind \notin Hooks => ~Terminated(cur)
  BY Executing DEF Return
<1>2. Quiet
  BY <1>1, Calm, Quieted DEF IInv
<1>3. CASE /\ Running({"export", "reset", "finalizer"})
           /\ stack' = Front(stack)
           /\ UNCHANGED <<setting, cur, terminated, calledAbort, reinit, exc, history>>
  <2>1. exc' = None /\ exc' \in {None, "js", "trap", "refused"}
        /\ exc' # "trap" /\ exc' # "refused"
    BY <1>1, <1>3, Calm
  <2> QED
    BY <1>1, <1>2, <1>3, <2>1, Leaves DEF history
<1>4. CASE /\ Running({"start"})
           /\ Enter(Front(stack))
           /\ UNCHANGED <<setting, cur, terminated, calledAbort, reinit, exc, history>>
  <2>1. ~Terminated(cur)
    BY <1>1, <1>4 DEF Running, Hooks
  <2>2. PICK base : base = Front(stack)
    OBVIOUS
  <2>3. Len(base) < MaxDepth /\ Len(base) = Len(stack) - 1
    BY <1>1, <2>2, SomeDepth
  <2>4. Len(base) % 2 = 0 /\ (Has("reinit") => Len(base) < 2)
    BY <1>1, <2>3
  <2>5. Enter(base)
    BY <1>4, <2>2
  <2> QED
    BY <1>1, <1>4, <2>1, <2>2, <2>3, <2>4, <2>5, Entered
<1>5. CASE Running({"guardHook"}) /\ Recover(Front(stack))
  <2>1. "guardHook" \in Hooks
    BY DEF Hooks
  <2>2. calledAbort /\ (Has("reinit") => Front(stack) = <<>>)
    BY <1>5, <2>1, InHook
  <2>3. MaxDepth > 0
    BY <1>1, SomeDepth
  <2>4. PICK base : base = Front(stack)
    OBVIOUS
  <2>5. Recover(base) /\ (Has("reinit") => base = <<>>)
    BY <1>5, <2>2, <2>4
  <2> QED
    BY <1>1, <1>2, <2>2, <2>3, <2>4, <2>5, Recovered
<1>6. CASE /\ Running({"catchHook"})
           /\ stack' = Front(stack) /\ exc' = "trap"
           /\ UNCHANGED <<setting, cur, terminated, calledAbort, reinit, history>>
  <2>1. "catchHook" \in Hooks
    BY DEF Hooks
  <2>2. cur \in aborted \cup stopped
    BY <1>6, <2>1, InHook
  <2>3. exc' # None /\ exc' # "refused"
    BY <1>6, Calm
  <2> QED
    BY <1>1, <1>2, <1>6, <2>2, <2>3, Leaves DEF history
<1> QED
  BY <1>3, <1>4, <1>5, <1>6 DEF Return

LEMMA HookThrowsInv ==
  ASSUME IInv, HookThrows
  PROVE  IInv'
<1>1. CASE Running({"guardHook"}) /\ Recover(Front(stack))
  <2>1. "guardHook" \in Hooks
    BY DEF Hooks
  <2>2. stack # <<>> /\ Quiet /\ calledAbort /\ (Has("reinit") => Front(stack) = <<>>)
    BY <1>1, <2>1, InHook
  <2>3. MaxDepth > 0
    BY <2>2, SomeDepth
  <2>4. PICK base : base = Front(stack)
    OBVIOUS
  <2>5. Recover(base) /\ (Has("reinit") => base = <<>>)
    BY <1>1, <2>2, <2>4
  <2> QED
    BY <2>2, <2>3, <2>4, <2>5, Recovered
<1>2. CASE /\ Running({"catchHook"})
           /\ stack' = Front(stack) /\ exc' = "trap"
           /\ UNCHANGED <<setting, cur, terminated, calledAbort, reinit, history>>
  <2>1. "catchHook" \in Hooks
    BY DEF Hooks
  <2>2. stack # <<>> /\ Quiet /\ cur \in aborted \cup stopped
    BY <1>2, <2>1, InHook
  <2>3. exc' # None /\ exc' # "refused"
    BY <1>2, Calm
  <2> QED
    BY <1>2, <2>2, <2>3, Leaves DEF history
<1> QED
  BY <1>1, <1>2 DEF HookThrows

LEMMA ImportReturnsInv ==
  ASSUME IInv, ImportReturns
  PROVE  IInv'
<1>1. /\ InJS /\ stack # <<>> /\ stack' = Front(stack) /\ exc = None /\ Last(stack).kind = "import"
      /\ UNCHANGED <<setting, cur, terminated, calledAbort, reinit, stopped, hooks>>
      /\ IF Terminated(Caller) THEN Trap(Caller) ELSE UNCHANGED <<exc, aborted>>
  BY DEF ImportReturns, InJS, Running
<1>2. Onwards /\ Quiet
  BY <1>1, Calm, UnchangedOnwards, Quieted DEF IInv
<1>3. /\ StackType' /\ Frames' /\ stack' # <<>>
      /\ Last(stack)'.inst = cur /\ Caller = cur
  <2>1. Len(stack) \in Nat \ {0} /\ Len(stack) % 2 = 0 /\ Len(stack') = Len(stack) - 1
    BY <1>1, TopFrame, PopFrame DEF IInv, TypeOK
  <2>2. Len(stack') # 0
    BY <2>1
  <2>3. stack' # <<>>
    <3>1. PICK q : q = stack'
      OBVIOUS
    <3>2. q # <<>>
      BY <2>2, <3>1
    <3> QED
      BY <3>1, <3>2
  <2> QED
    BY <1>1, <1>2, <2>3, StackPopped DEF IInv, Caller
<1>4. reinit' \in BOOLEAN /\ (reinit' => Has("reinit"))
  BY <1>1, Calm
<1>5. CASE Terminated(cur)
  <2>1. exc' = "trap" /\ aborted' = aborted \cup {cur} /\ terminated[cur]
    BY <1>1, <1>3, <1>5 DEF Trap, Terminated
  <2>2. InFlight'
    BY <2>1, <1>1, <1>2 DEF InFlight, Quiet, Has
  <2>3. DeadStaysDead'
    BY <2>1, Calm DEF DeadStaysDead, InWasm
  <2> QED
    BY <1>1, <1>3, <1>4, <2>1, <2>2, <2>3, Rest
<1>6. CASE ~Terminated(cur)
  <2>1. UNCHANGED <<exc, aborted>>
    BY <1>1, <1>3, <1>6
  <2>2. InFlight'
    BY <2>1, <1>1, <1>2, Calm DEF InFlight, Quiet, Has
  <2>3. DeadStaysDead'
    BY <1>1, <1>3, <1>6 DEF DeadStaysDead, Here, Terminated, Has
  <2>4. aborted' \in {aborted, aborted \cup {cur}} /\ exc' \in {None, "js", "trap", "refused"}
        /\ (exc' = "refused" => calledAbort)
    BY <2>1, Calm
  <2> QED
    BY <1>1, <1>3, <1>4, <2>2, <2>3, <2>4, Rest
<1> QED
  BY <1>5, <1>6

LEMMA ImportThrowsInv ==
  ASSUME IInv, Watched, ImportThrows
  PROVE  IInv'
<1>1. /\ exc # None /\ stack # <<>> /\ stack' = Front(stack) /\ Last(stack).kind = "import"
      /\ UNCHANGED <<setting, cur, terminated, calledAbort, reinit, stopped, hooks>>
  BY DEF ImportThrows, Running
<1>2. Onwards /\ Quiet
  <2>1. ~Running({"export"})
    BY <1>1 DEF Running
  <2> QED
    BY <1>1, <2>1, UnchangedOnwards, Quieted DEF IInv
<1>3. /\ StackType' /\ Frames' /\ stack' # <<>> /\ Last(stack)' = stack[Len(stack) - 1]
      /\ Sound(stack[Len(stack) - 1]) /\ Last(stack)'.inst = cur /\ Caller = cur
      /\ stack[Len(stack) - 1].kind \in Kinds \ {"import"}
  <2>1. Len(stack) \in Nat \ {0} /\ Len(stack) % 2 = 0 /\ Len(stack') = Len(stack) - 1
    BY <1>1, TopFrame, PopFrame DEF IInv, TypeOK
  <2>2. Len(stack') # 0
    BY <2>1
  <2>3. stack' # <<>>
    <3>1. PICK q : q = stack'
      OBVIOUS
    <3>2. q # <<>>
      BY <2>2, <3>1
    <3> QED
      BY <3>1, <3>2
  <2> QED
    BY <1>1, <1>2, <2>3, StackPopped DEF IInv, Caller
<1>4. reinit' \in BOOLEAN /\ (reinit' => Has("reinit"))
  BY <1>1, Calm
<1>5. CASE Terminated(cur) /\ Trap(cur)
  <2>1. exc' = "trap" /\ aborted' = aborted \cup {cur} /\ terminated[cur]
    BY <1>5 DEF Trap, Terminated
  <2>2. InFlight'
    BY <2>1, <1>1, <1>2 DEF InFlight, Quiet, Has
  <2>3. DeadStaysDead'
    BY <2>1, Calm DEF DeadStaysDead, InWasm
  <2> QED
    BY <1>1, <1>3, <1>4, <2>1, <2>2, <2>3, Rest
<1>6. CASE ~Terminated(cur) /\ exc = "trap" /\ UNCHANGED <<exc, aborted>>
  <2>1. exc' = "trap" /\ exc' # None /\ cur \in aborted \cup stopped
    BY <1>6, Calm DEF IInv, InFlight
  <2> QED
    BY <1>1, <1>2, <1>6, <2>1, Leaves
<1>7. CASE ~Terminated(cur) /\ exc' \in {None, "js"} /\ UNCHANGED aborted
  <2>1. InFlight'
    BY <1>7, <1>1, <1>2, Calm DEF InFlight, Quiet, Has
  <2>2. DeadStaysDead'
    BY <1>1, <1>3, <1>7 DEF DeadStaysDead, Here, Terminated, Has
  <2>3. aborted' \in {aborted, aborted \cup {cur}} /\ exc' \in {None, "js", "trap", "refused"}
        /\ exc' # "refused"
    BY <1>7, Calm
  <2> QED
    BY <1>1, <1>3, <1>4, <2>1, <2>2, <2>3, Rest
<1>8. CASE ~Terminated(cur) /\ Has("catch") /\ ~Has("unwind") /\ Trap(cur)
  <2>1. exc' = "trap" /\ aborted' = aborted \cup {cur} /\ ~terminated[cur]
    BY <1>8 DEF Trap, Terminated
  <2>2. ~Has("reinit") /\ ~Has("finalize")
    BY <1>8, Calm, Restrictions
  <2>3. Last(stack)'.kind = "export"
    BY <1>3, <1>8, <2>2 DEF Sound, Kinds, Hooks
  <2>4. InFlight'
    BY <2>1, <2>3, <1>1, <1>2, <1>3 DEF InFlight, Quiet, Has, Running
  <2>5. DeadStaysDead'
    BY <2>1, Calm DEF DeadStaysDead, InWasm
  <2> QED
    BY <1>1, <1>3, <1>4, <2>1, <2>4, <2>5, Rest
<1> QED
  BY <1>3, <1>5, <1>6, <1>7, <1>8 DEF ImportThrows

LEMMA ExportThrowsInv ==
  ASSUME IInv, ExportThrows
  PROVE  IInv'
<1>1. exc # None /\ stack # <<>> /\ Last(stack).kind = "export"
  BY DEF ExportThrows, Running
<1>2. CASE /\ exc = "trap" /\ Has("catch")
           /\ terminated' = [terminated EXCEPT ![cur] = TRUE]
           /\ CallHook(Front(stack), "catchHook")
           /\ exc' = None
           /\ UNCHANGED <<setting, cur, aborted, stopped>>
  <2>1. cur \in aborted \cup stopped /\ \A i \in aborted : i = cur \/ terminated[i]
    BY <1>2 DEF IInv, InFlight
  <2>2. "catchHook" \in Hooks
    BY DEF Hooks
  <2>3. PICK base : base = Front(stack)
    OBVIOUS
  <2>4. Len(base) < MaxDepth /\ Len(base) = Len(stack) - 1
    BY <1>1, <2>3, SomeDepth
  <2>5. Len(stack) \in Nat \ {0} /\ Len(stack) % 2 # 0 /\ (Has("reinit") => Len(stack) = 1)
    BY <1>1, TopFrame DEF IInv
  <2>6. Len(base) % 2 = 0 /\ (Has("reinit") => Len(base) < 2)
    BY <2>4, <2>5
  <2>7. CallHook(base, "catchHook")
    BY <1>2, <2>3
  <2> QED
    BY <1>1, <1>2, <2>1, <2>2, <2>3, <2>4, <2>6, <2>7, HookCalled
<1>3. CASE /\ exc # "trap" \/ ~Has("catch")
           /\ stack' = Front(stack)
           /\ UNCHANGED <<setting, cur, terminated, calledAbort, reinit, exc, history>>
  <2>1. Quiet
    BY <1>3 DEF IInv, InFlight, Quiet
  <2>2. /\ exc' \in {None, "js", "trap", "refused"} /\ exc' # None
        /\ exc' = "refused" => calledAbort
        /\ exc' = "trap" => cur \in aborted \cup stopped
    BY <1>1, <1>3, Calm DEF IInv, InFlight
  <2> QED
    BY <1>1, <1>3, <2>1, <2>2, Leaves DEF history
<1> QED
  BY <1>2, <1>3 DEF ExportThrows

LEMMA BareThrowsInv ==
  ASSUME IInv, BareThrows
  PROVE  IInv'
<1>1. /\ exc # None /\ stack # <<>> /\ stack' = Front(stack) /\ Last(stack).kind # "export"
      /\ UNCHANGED <<setting, cur, terminated, calledAbort, reinit, exc, aborted, stopped, hooks>>
  BY DEF BareThrows, Running, history
<1>2. Quiet
  BY <1>1, Quieted DEF IInv, Running
<1>3. /\ exc' \in {None, "js", "trap", "refused"} /\ exc' # None
      /\ exc' = "refused" => calledAbort
      /\ exc' = "trap" => cur \in aborted \cup stopped
  BY <1>1, Calm DEF IInv, InFlight
<1> QED
  BY <1>1, <1>2, <1>3, Leaves

LEMMA StopInv ==
  ASSUME IInv, Stop
  PROVE  IInv'
<1> USE DEF IInv
<1>1. /\ InJS /\ exc = None /\ terminated' = [terminated EXCEPT ![cur] = TRUE]
      /\ stopped' = stopped \cup {cur}
      /\ UNCHANGED <<setting, cur, calledAbort, reinit, stack, exc, aborted, hooks>>
  BY DEF Stop, InJS
<1>2. VarTypes /\ None \notin {"js", "trap", "refused"}
  BY TypesApart, LifecycleAssumption
<1>3. terminated' \in [Instances -> BOOLEAN] /\ terminated'[cur] = TRUE
      /\ \A i \in Instances : i # cur => terminated'[i] = terminated[i]
  BY <1>1, <1>2 DEF VarTypes
<1>4. VarTypes'
  BY <1>1, <1>2, <1>3 DEF VarTypes
<1>5. Onwards
  BY <1>1, <1>2, <1>3 DEF Onwards, VarTypes
<1>6. StackType' /\ Frames'
  BY <1>1, <1>5, StackKept
<1>7. Ahead'
  BY <1>1, <1>2, <1>3 DEF Ahead, Has, VarTypes, Instances
<1>8. Quiet
  BY <1>1, <1>2, Quieted
<1>9. \A i \in aborted : i \in Instances
  BY <1>2 DEF VarTypes
<1>10. InFlight'
  BY <1>1, <1>2, <1>3, <1>8, <1>9 DEF InFlight, Quiet, Has
<1>11. DeadStaysDead'
  BY <1>1 DEF DeadStaysDead, InWasm, InJS, Running
<1>12. PoisonExact'
  BY <1>1, <1>2, <1>3, <1>8, <1>9 DEF PoisonExact, Quiet, Terminated, Has, VarTypes
<1>13. HookBeforeRefusal'
  BY <1>1 DEF HookBeforeRefusal
<1> QED
  BY <1>4, <1>6, <1>7, <1>10, <1>11, <1>12, <1>13, TypesApartNext

LEMMA ResetStateInv ==
  ASSUME IInv, Watched, ResetState
  PROVE  IInv'
<1>1. InJS /\ MayCall /\ Has("reinit") /\ exc = None /\ Reset(stack, "reset")
  BY DEF ResetState, MayCall, InJS
<1>2. stack = <<>> /\ MaxDepth > 0
  BY <1>1, Callable
<1>3. Quiet
  BY <1>1, Calm, Quieted DEF IInv
<1>4. Reset(<<>>, "reset")
  BY <1>1, <1>2
<1> QED
  BY <1>1, <1>2, <1>3, <1>4, Replaced

LEMMA FinalizeInv ==
  ASSUME IInv, Watched, Finalize
  PROVE  IInv'
<1>1. /\ Has("finalize") /\ exc = None /\ stack = <<>> /\ Room
      /\ stack' = <<Frame("finalizer", cur)>>
      /\ UNCHANGED <<setting, cur, terminated, calledAbort, reinit, exc, aborted, stopped, hooks>>
  BY DEF Finalize, history
<1>2. PICK base : base = stack
  OBVIOUS
<1>3. Len(base) = 0 /\ Len(base) < MaxDepth /\ Len(base) % 2 = 0
  BY <1>1, <1>2 DEF Room
<1>4. stack' = Append(base, Frame("finalizer", cur))
  BY <1>1, <1>2
<1>5. Sound(Frame("finalizer", cur))'
  BY <1>1 DEF Sound, Frame, Hooks, Has
<1>6. Onwards /\ "finalizer" \in Kinds
  BY <1>1, UnchangedOnwards DEF Kinds
<1>7. /\ StackType' /\ Frames' /\ stack' # <<>> /\ Last(stack)'.inst = cur
  BY <1>2, <1>3, <1>4, <1>5, <1>6, StackPushed DEF IInv
<1>8. ~Has("catch")
  BY <1>1, Calm, Restrictions
<1>9. InFlight'
  BY <1>1, <1>8, Calm DEF InFlight, Has
<1>10. DeadStaysDead'
  BY <1>1, <1>8 DEF DeadStaysDead, Terminated, Has
<1>11. aborted' \in {aborted, aborted \cup {cur}} /\ exc' \in {None, "js", "trap", "refused"}
       /\ exc' # "refused" /\ reinit' \in BOOLEAN /\ (reinit' => Has("reinit"))
  BY <1>1, Calm
<1> QED
  BY <1>1, <1>7, <1>9, <1>10, <1>11, Rest

-----------------------------------------------------------------------------
LEMMA InitInv == Init => IInv
<1> SUFFICES ASSUME Init PROVE IInv
  OBVIOUS
<1>1. stack = <<>> /\ exc = None /\ cur = 1 /\ None \notin {"js", "trap", "refused"}
  BY LifecycleAssumption DEF Init
<1>2. stack \in Seq(FrameSet) /\ Len(stack) = 0
  BY <1>1, EmptySeq
<1>3. StackType
  BY <1>2, LifecycleAssumption DEF StackType
<1>4. VarTypes
  <2>1. cur \in Instances
    BY <1>1, LifecycleAssumption DEF Instances
  <2>2. terminated \in [Instances -> BOOLEAN] /\ hooks \in [Instances -> 0..2]
    BY DEF Init
  <2> QED
    BY <1>1, <2>1, <2>2 DEF Init, VarTypes
<1>5. Frames
  BY <1>2 DEF Frames
<1>6. Ahead /\ InFlight /\ DeadStaysDead
  BY <1>1 DEF Init, Ahead, InFlight, DeadStaysDead, InWasm
<1>7. PoisonExact
  BY DEF Init, PoisonExact
<1>8. HookBeforeRefusal
  BY <1>1, LifecycleAssumption DEF Init, HookBeforeRefusal, Instances
<1> QED
  BY <1>3, <1>4, <1>5, <1>6, <1>7, <1>8, TypesApart DEF IInv

LEMMA StutterInv ==
  ASSUME IInv, UNCHANGED vars
  PROVE  IInv'
<1>1. aborted' \in {aborted, aborted \cup {cur}} /\ exc' \in {None, "js", "trap", "refused"}
      /\ (exc' = "refused" => calledAbort) /\ reinit' \in BOOLEAN /\ (reinit' => Has("reinit"))
  BY Calm DEF vars, history
<1>2. InFlight'
  BY DEF IInv, InFlight, vars, history, Has, Running
<1>3. DeadStaysDead'
  BY DEF IInv, DeadStaysDead, vars, history, InWasm, Running, Here, Terminated, Has
<1> QED
  BY <1>1, <1>2, <1>3, Stays DEF vars, history

\* IInv is preserved by every step, where what happens is watched.
THEOREM Inductive ==
  ASSUME Watched
  PROVE  IInv /\ [Next]_vars => IInv'
<1> SUFFICES ASSUME IInv, [Next]_vars
             PROVE  IInv'
  OBVIOUS
<1>1. CASE Call
  BY <1>1, CallInv
<1>2. CASE ScheduleReinit
  BY <1>2, ScheduleReinitInv
<1>3. CASE CallImport
  BY <1>3, CallImportInv
<1>4. CASE Abort
  BY <1>4, AbortInv
<1>5. CASE Panic \/ Throw \/ CatchInJS
  BY <1>5, FlyInv
<1>6. CASE Return
  BY <1>6, ReturnInv
<1>7. CASE ImportReturns
  BY <1>7, ImportReturnsInv
<1>8. CASE ImportThrows
  BY <1>8, ImportThrowsInv
<1>9. CASE ExportThrows
  BY <1>9, ExportThrowsInv
<1>10. CASE HookThrows
  BY <1>10, HookThrowsInv
<1>11. CASE BareThrows
  BY <1>11, BareThrowsInv
<1>12. CASE Stop
  BY <1>12, StopInv
<1>13. CASE ResetState
  BY <1>13, ResetStateInv
<1>14. CASE Finalize
  BY <1>14, FinalizeInv
<1>15. CASE UNCHANGED vars
  BY <1>15, StutterInv
<1> QED
  BY <1>1, <1>2, <1>3, <1>4, <1>5, <1>6, <1>7, <1>8, <1>9, <1>10, <1>11, <1>12,
     <1>13, <1>14, <1>15 DEF Next

LEMMA Invariant ==
  ASSUME Watched
  PROVE  Spec => []IInv
<1>1. Init => IInv
  BY InitInv
<1>2. IInv /\ [Next]_vars => IInv'
  BY Inductive
<1> QED
  BY <1>1, <1>2, PTL DEF Spec

\* The variables keep their types, and wasm and JavaScript alternate on the
\* stack (__wbg_call_guard, the wrapper of imports).
THEOREM TypeCorrect ==
  ASSUME Watched
  PROVE  Spec => []TypeOK
<1>1. IInv => TypeOK
  BY DEF IInv
<1> QED
  BY <1>1, Invariant, PTL

\* No code but the hook runs in a terminated instance, by no way of entering
\* wasm or of returning to it (__wbg_call_guard, generate_catch_wrapper).
THEOREM DeadStayDead ==
  ASSUME Watched
  PROVE  Spec => []DeadStaysDead
<1>1. IInv => DeadStaysDead
  BY DEF IInv
<1> QED
  BY <1>1, Invariant, PTL

\* Once an abort is caught its instance is flagged, and no other instance is
\* (__wbg_handle_catch).
THEOREM AbortsFlagged ==
  ASSUME Watched
  PROVE  Spec => []PoisonExact
<1>1. IInv => PoisonExact
  BY DEF IInv
<1> QED
  BY <1>1, Invariant, PTL

\* Nobody is refused before the hook of this very instance was called
\* (__wbg_call_abort_hook, __wbg_reset_state).
THEOREM HooksFirst ==
  ASSUME Watched
  PROVE  Spec => []HookBeforeRefusal
<1>1. IInv => HookBeforeRefusal
  BY DEF IInv
<1> QED
  BY <1>1, Invariant, PTL
=============================================================================
