---------------------------- MODULE ClosureProofs ----------------------------
(***************************************************************************)
(* Proofs about Closure, for any closures, owned or borrowed, mutable or   *)
(* not, nested as deep as one likes, with or without resets: as long as no *)
(* captured value calls the function when it is dropped, the count is      *)
(* exact, an environment is destroyed once and after its invocations, and  *)
(* the glue keeps the contract of ClosureContract.                         *)
(***************************************************************************)
EXTENDS Closure, SequenceTheorems, FiniteSetTheorems, TLAPS

\* What captured values do when they are dropped is no call.
Quiet == "call" \notin Deeds

\* How often x is on s.
Count(s, x) == Cardinality({k \in 1..Len(s) : s[k] = x})

\* Drop glue only drops: above a destructor there are destructors.
DropsOnTop ==
  \A i, j \in 1..Len(stack) : i < j /\ stack[i].op = "drop" => stack[j].op = "drop"

\* The bound holds; a destructor may be one frame beyond.
Shallow == Len(stack) <= MaxDepth \/ (Len(stack) = MaxDepth + 1 /\ Running("drop"))

\* Where the environment of c is in its life.
Living(c) ==
  /\ handle[c] = "none" <=> env[c] = "none"
  /\ a[c] => env[c] \in {"alive", "dropping"}
  /\ Calls(c) > 0 => env[c] = "alive"
  /\ Drops(c) = IF env[c] = "dropping" THEN 1 ELSE 0
  /\ c \in Mutable /\ Calls(c) > 0 => ~a[c] /\ Calls(c) = 1
  /\ handle[c] = "rust" /\ c \notin stale => env[c] = "alive"
  /\ c \in stale => handle[c] # "none"

\* What the handle and the count say of an owned closure.
Keeping(c) ==
  /\ env[c] = "alive" => cnt[c] = Calls(c) + (IF handle[c] = "dropped" THEN 0 ELSE 1)
  /\ env[c] = "alive" /\ handle[c] = "dropped" => Calls(c) > 0 /\ c \notin stale
  /\ c \in registered => env[c] \in {"alive", "dropping"}

\* A borrowed closure goes with its handle, and has no count.
Borrowing(c) ==
  /\ env[c] = "alive" => handle[c] = "rust"
  /\ env[c] # "dropping" /\ handle[c] \in {"none", "rust", "dropped"}
  /\ cnt[c] = 0

Well(c) == Living(c) /\ IF c \in Owned THEN Keeping(c) ELSE Borrowing(c)

IInv == TypeOK /\ DropsOnTop /\ Shallow /\ \A c \in Closures : Well(c)

-----------------------------------------------------------------------------
(***************************************************************************)
(* Counting on a sequence.                                                 *)
(***************************************************************************)
LEMMA CountType ==
  ASSUME NEW S, NEW s \in Seq(S), NEW x
  PROVE  /\ Count(s, x) \in Nat /\ Count(s, x) <= Len(s)
         /\ Count(s, x) > 0 <=> \E k \in 1..Len(s) : s[k] = x
<1> DEFINE D == {k \in 1..Len(s) : s[k] = x}
<1>1. Len(s) \in Nat
  OBVIOUS
<1>2. IsFiniteSet(1..Len(s)) /\ Cardinality(1..Len(s)) = Len(s)
  <2>1. 1 \in Int /\ Len(s) \in Int
    BY <1>1
  <2>2. Cardinality(1..Len(s)) = IF 1 > Len(s) THEN 0 ELSE Len(s) - 1 + 1
    BY <2>1, FS_Interval
  <2> QED
    BY <1>1, <2>1, <2>2, FS_Interval
<1>3. IsFiniteSet(D) /\ Cardinality(D) <= Len(s)
  <2>1. D \in SUBSET (1..Len(s))
    OBVIOUS
  <2> HIDE DEF D
  <2> QED
    BY <1>2, <2>1, FS_Subset
<1>4. Cardinality(D) \in Nat /\ (Cardinality(D) = 0 <=> D = {})
  <2> HIDE DEF D
  <2> QED
    BY <1>3, FS_CardinalityType, FS_EmptySet
<1>5. Count(s, x) = Cardinality(D)
  BY DEF Count
<1>6. D # {} <=> \E k \in 1..Len(s) : s[k] = x
  OBVIOUS
<1> HIDE DEF D
<1> QED
  BY <1>3, <1>4, <1>5, <1>6

LEMMA CountEmpty == ASSUME NEW x PROVE Count(<<>>, x) = 0
<1>1. {k \in 1..Len(<<>>) : <<>>[k] = x} = {}
  OBVIOUS
<1> QED
  BY <1>1, FS_EmptySet DEF Count

LEMMA CountAppend ==
  ASSUME NEW S, NEW s \in Seq(S), NEW y \in S, NEW x
  PROVE  Count(Append(s, y), x) = Count(s, x) + (IF y = x THEN 1 ELSE 0)
<1> DEFINE D == {k \in 1..Len(s) : s[k] = x}
           t == Append(s, y)
           E == {k \in 1..Len(t) : t[k] = x}
           n == Len(s) + 1
<1>1. /\ Len(s) \in Nat /\ Len(t) = n /\ t[n] = y
      /\ \A k \in 1..Len(s) : t[k] = s[k]
  BY AppendProperties
<1>2. IsFiniteSet(D)
  <2>1. IsFiniteSet(1..Len(s))
    BY <1>1, FS_Interval
  <2>2. D \in SUBSET (1..Len(s))
    OBVIOUS
  <2> HIDE DEF D
  <2> QED
    BY <2>1, <2>2, FS_Subset
<1>3. Count(s, x) = Cardinality(D) /\ Count(t, x) = Cardinality(E)
  BY DEF Count
<1>4. CASE y = x
  <2>1. E = D \cup {n} /\ n \notin D
    BY <1>1, <1>4
  <2> HIDE DEF D, E, n, t
  <2>2. Cardinality(D \cup {n}) = Cardinality(D) + 1
    BY <1>2, <2>1, FS_AddElement
  <2> QED
    BY <1>3, <1>4, <2>1, <2>2 DEF t
<1>5. CASE y # x
  <2>1. E = D
    BY <1>1, <1>5
  <2>2. Cardinality(D) \in Nat
    <3> HIDE DEF D
    <3> QED
      BY <1>2, FS_CardinalityType
  <2> HIDE DEF D, E, t
  <2> QED
    BY <1>3, <1>5, <2>1, <2>2 DEF t
<1> QED
  BY <1>4, <1>5

LEMMA FrontType ==
  ASSUME NEW S, NEW s \in Seq(S), s # <<>>
  PROVE  /\ Front(s) \in Seq(S) /\ Last(s) \in S /\ Len(s) \in Nat \ {0}
         /\ Len(Front(s)) = Len(s) - 1 /\ Append(Front(s), Last(s)) = s
         /\ \A k \in 1..Len(s) - 1 : Front(s)[k] = s[k]
<1>1. Len(s) \in Nat \ {0} /\ Last(s) \in S
  BY DEF Last
<1>2. /\ Front(s) \in Seq(S) /\ Len(Front(s)) = Len(s) - 1
      /\ \A k \in 1..Len(s) - 1 : Front(s)[k] = s[k]
  <2> DEFINE m == Len(s) - 1
  <2>1. m \in Nat /\ \A i \in 1..m : s[i] \in S
    BY <1>1
  <2>2. /\ SubSeq(s, 1, m) \in Seq(S) /\ Len(SubSeq(s, 1, m)) = IF 1 <= m THEN m - 1 + 1 ELSE 0
        /\ \A i \in 1..m - 1 + 1 : SubSeq(s, 1, m)[i] = s[1 + i - 1]
    <3> HIDE DEF m
    <3> QED
      BY <2>1, SubSeqProperties
  <2>3. Front(s) = SubSeq(s, 1, m)
    BY DEF Front
  <2> HIDE DEF m
  <2>4. Len(Front(s)) = m /\ \A i \in 1..m : Front(s)[i] = s[i]
    BY <2>1, <2>2, <2>3
  <2> QED
    BY <2>2, <2>3, <2>4 DEF m
<1>3. Append(Front(s), Last(s)) = s
  <2> DEFINE t == Append(Front(s), Last(s))
  <2>1. /\ t \in Seq(S) /\ Len(t) = Len(s) /\ t[Len(s)] = Last(s)
        /\ \A k \in 1..Len(s) - 1 : t[k] = s[k]
    BY <1>1, <1>2, AppendProperties
  <2>2. \A k \in 1..Len(s) : t[k] = s[k]
    BY <1>1, <2>1 DEF Last
  <2> HIDE DEF t
  <2>3. t = s
    BY <2>1, <2>2, SeqEqual
  <2> QED
    BY <2>3 DEF t
<1> QED
  BY <1>1, <1>2, <1>3

LEMMA CountFront ==
  ASSUME NEW S, NEW s \in Seq(S), s # <<>>, NEW x
  PROVE  Count(s, x) = Count(Front(s), x) + (IF Last(s) = x THEN 1 ELSE 0)
<1>1. PICK f \in Seq(S), y \in S : f = Front(s) /\ y = Last(s) /\ Append(f, y) = s
  BY FrontType
<1>2. Count(Append(f, y), x) = Count(f, x) + (IF y = x THEN 1 ELSE 0)
  BY CountAppend
<1> QED
  BY <1>1, <1>2

-----------------------------------------------------------------------------
(***************************************************************************)
(* The frames of a closure.                                                *)
(***************************************************************************)
Kinds == [op : {"call", "drop"}, of : Closures]

LEMMA FrameFacts ==
  /\ \A c \in Closures : Frame("call", c) \in Kinds /\ Frame("drop", c) \in Kinds
  /\ \A c, d : /\ Frame("call", c) = Frame("call", d) <=> c = d
               /\ Frame("drop", c) = Frame("drop", d) <=> c = d
               /\ Frame("call", c) # Frame("drop", d)
  /\ \A c : /\ Frame("call", c).op = "call" /\ Frame("call", c).of = c
            /\ Frame("drop", c).op = "drop" /\ Frame("drop", c).of = c
  /\ \A x \in Kinds : x.of \in Closures /\ x = Frame(x.op, x.of) /\ x.op \in {"call", "drop"}
<1>1. \A x \in Kinds : x = Frame(x.op, x.of)
  BY DEF Frame, Kinds
<1>2. \A c, d : /\ Frame("call", c) = Frame("call", d) <=> c = d
               /\ Frame("drop", c) = Frame("drop", d) <=> c = d
               /\ Frame("call", c) # Frame("drop", d)
  BY DEF Frame
<1> QED
  BY <1>1, <1>2 DEF Frame, Kinds

LEMMA FramesCounted ==
  ASSUME NEW c
  PROVE  /\ Calls(c) = Count(stack, Frame("call", c)) /\ Drops(c) = Count(stack, Frame("drop", c))
         /\ Calls(c)' = Count(stack', Frame("call", c))
         /\ Drops(c)' = Count(stack', Frame("drop", c))
BY DEF Calls, Drops, Frames, Quantify, Count, Frame

LEMMA FramesType ==
  ASSUME stack \in Seq(Kinds), NEW c \in Closures
  PROVE  /\ Calls(c) \in Nat /\ Calls(c) <= Len(stack) /\ Drops(c) \in Nat
         /\ Calls(c) > 0 <=> \E k \in 1..Len(stack) : stack[k] = Frame("call", c)
         /\ Drops(c) > 0 <=> \E k \in 1..Len(stack) : stack[k] = Frame("drop", c)
         /\ stack = <<>> => Calls(c) = 0 /\ Drops(c) = 0
BY FramesCounted, CountType, CountEmpty

LEMMA Pushed ==
  ASSUME stack \in Seq(Kinds), NEW x \in Kinds, stack' = Append(stack, x), NEW c
  PROVE  /\ Calls(c)' = Calls(c) + (IF x = Frame("call", c) THEN 1 ELSE 0)
         /\ Drops(c)' = Drops(c) + (IF x = Frame("drop", c) THEN 1 ELSE 0)
BY FramesCounted, CountAppend

LEMMA Popped ==
  ASSUME stack \in Seq(Kinds), stack # <<>>, stack' = Front(stack), NEW c
  PROVE  /\ Calls(c) = Calls(c)' + (IF Last(stack) = Frame("call", c) THEN 1 ELSE 0)
         /\ Drops(c) = Drops(c)' + (IF Last(stack) = Frame("drop", c) THEN 1 ELSE 0)
BY FramesCounted, CountFront

LEMMA Unpushed ==
  ASSUME stack' = stack, NEW c PROVE Calls(c)' = Calls(c) /\ Drops(c)' = Drops(c)
BY FramesCounted

-----------------------------------------------------------------------------
(***************************************************************************)
(* What a step does to the stack.                                          *)
(***************************************************************************)
LEMMA StackTypes ==
  ASSUME TypeOK PROVE stack \in Seq(Kinds) /\ Len(stack) \in Nat /\ (stack = <<>> <=> Len(stack) = 0)
<1>1. stack \in Seq(Kinds)
  BY DEF TypeOK, Kinds
<1> QED
  BY <1>1

\* Where code runs, nothing is being dropped.
LEMMA NoDrops ==
  ASSUME IInv, Code
  PROVE  /\ \A k \in 1..Len(stack) : stack[k].op # "drop"
         /\ \A c \in Closures : Drops(c) = 0 /\ env[c] # "dropping"
         /\ Len(stack) <= MaxDepth /\ MaxDepth \in Nat
<1>1. stack \in Seq(Kinds) /\ Len(stack) \in Nat /\ (stack = <<>> <=> Len(stack) = 0)
  BY StackTypes DEF IInv
<1>2. ASSUME NEW k \in 1..Len(stack), stack[k].op = "drop" PROVE FALSE
  <2>1. stack # <<>> /\ stack[Len(stack)].op = "call"
    BY <1>1, <1>2 DEF Code, Running, Last
  <2>2. k < Len(stack) /\ Len(stack) \in 1..Len(stack)
    BY <1>1, <1>2, <2>1
  <2>3. stack[Len(stack)].op = "drop"
    BY <1>2, <2>2 DEF IInv, DropsOnTop
  <2> QED
    BY <2>1, <2>3
<1>3. ASSUME NEW c \in Closures PROVE Drops(c) = 0 /\ env[c] # "dropping"
  <2>1. ~(Drops(c) > 0)
    BY <1>1, <1>2, FramesType, FrameFacts
  <2>2. Drops(c) = 0
    BY <1>1, <2>1, FramesType
  <2> QED
    BY <2>2 DEF IInv, Well, Living
<1>4. Len(stack) <= MaxDepth /\ MaxDepth \in Nat
  <2>1. ~Running("drop")
    BY DEF Code, Running
  <2> QED
    BY <2>1, ClosureAssumption DEF IInv, Shallow
<1> QED
  BY <1>2, <1>3, <1>4

\* A call enters, or a destructor.
LEMMA StackPush ==
  ASSUME IInv, NEW x \in Kinds, stack' = Append(stack, x),
         x.op = "drop" \/ Code,
         Len(stack) < MaxDepth \/ (Code /\ x.op = "drop")
  PROVE  stack' \in Seq(Kinds) /\ DropsOnTop' /\ Shallow'
<1>1. stack \in Seq(Kinds) /\ Len(stack) \in Nat /\ MaxDepth \in Nat
  BY StackTypes, ClosureAssumption DEF IInv
<1>2. /\ stack' \in Seq(Kinds) /\ Len(stack') = Len(stack) + 1 /\ stack' # <<>>
      /\ stack'[Len(stack) + 1] = x /\ \A k \in 1..Len(stack) : stack'[k] = stack[k]
  BY <1>1, AppendProperties
<1>3. DropsOnTop'
  <2> SUFFICES ASSUME NEW i \in 1..Len(stack'), NEW j \in 1..Len(stack'), i < j,
                      stack'[i].op = "drop"
               PROVE  stack'[j].op = "drop"
    BY DEF DropsOnTop
  <2>1. i \in 1..Len(stack) /\ stack[i].op = "drop"
    BY <1>1, <1>2
  <2>2. ~Code
    BY <2>1, NoDrops
  <2>3. CASE j = Len(stack) + 1
    BY <1>2, <2>2, <2>3
  <2>4. CASE j \in 1..Len(stack)
    BY <1>2, <2>1, <2>4 DEF IInv, DropsOnTop
  <2> QED
    BY <1>1, <1>2, <2>3, <2>4
<1>4. Shallow'
  <2>1. CASE Len(stack) < MaxDepth
    BY <1>1, <1>2, <2>1 DEF Shallow
  <2>2. CASE Code /\ x.op = "drop"
    <3>1. Len(stack) <= MaxDepth
      BY <2>2, NoDrops
    <3>2. Running("drop")'
      BY <1>1, <1>2, <2>2 DEF Running, Last
    <3> QED
      BY <1>1, <1>2, <3>1, <3>2 DEF Shallow
  <2> QED
    BY <2>1, <2>2
<1> QED
  BY <1>2, <1>3, <1>4

\* The last frame goes, and a destructor may take its place.
LEMMA StackPop ==
  ASSUME IInv, stack # <<>>, stack' = Front(stack)
  PROVE  stack' \in Seq(Kinds) /\ DropsOnTop' /\ Shallow'
<1>1. stack \in Seq(Kinds) /\ Len(stack) \in Nat /\ MaxDepth \in Nat
  BY StackTypes, ClosureAssumption DEF IInv
<1>2. /\ stack' \in Seq(Kinds) /\ Len(stack') = Len(stack) - 1
      /\ \A k \in 1..Len(stack) - 1 : stack'[k] = stack[k]
  BY <1>1, FrontType
<1>3. DropsOnTop'
  BY <1>1, <1>2 DEF IInv, DropsOnTop
<1>4. Shallow'
  BY <1>1, <1>2 DEF IInv, Shallow
<1> QED
  BY <1>2, <1>3, <1>4

LEMMA StackSwap ==
  ASSUME IInv, stack # <<>>, NEW c \in Closures, stack' = Append(Front(stack), Frame("drop", c))
  PROVE  stack' \in Seq(Kinds) /\ DropsOnTop' /\ Shallow'
<1>1. stack \in Seq(Kinds) /\ Len(stack) \in Nat /\ MaxDepth \in Nat
  BY StackTypes, ClosureAssumption DEF IInv
<1>2. PICK f \in Seq(Kinds) : /\ f = Front(stack) /\ Len(f) = Len(stack) - 1
                              /\ \A k \in 1..Len(stack) - 1 : f[k] = stack[k]
  BY <1>1, FrontType
<1>3. Frame("drop", c) \in Kinds /\ Frame("drop", c).op = "drop"
  BY FrameFacts
<1>4. /\ stack' \in Seq(Kinds) /\ Len(stack') = Len(stack)
      /\ stack'[Len(stack)] = Frame("drop", c)
      /\ \A k \in 1..Len(stack) - 1 : stack'[k] = stack[k]
  <2>1. stack' = Append(f, Frame("drop", c)) /\ Len(f) \in Nat
    BY <1>2
  <2> QED
    BY <1>1, <1>2, <1>3, <2>1, AppendProperties
<1>5. DropsOnTop'
  <2> SUFFICES ASSUME NEW i \in 1..Len(stack'), NEW j \in 1..Len(stack'), i < j,
                      stack'[i].op = "drop"
               PROVE  stack'[j].op = "drop"
    BY DEF DropsOnTop
  <2>1. i \in 1..Len(stack) - 1 /\ i \in 1..Len(stack) /\ stack[i].op = "drop"
    BY <1>1, <1>4
  <2>2. CASE j = Len(stack)
    BY <1>3, <1>4, <2>2
  <2>3. CASE j \in 1..Len(stack) - 1
    BY <1>1, <1>4, <2>1, <2>3 DEF IInv, DropsOnTop
  <2> QED
    BY <1>1, <1>4, <2>2, <2>3
<1>6. Shallow'
  BY <1>1, <1>3, <1>4 DEF IInv, Shallow, Running, Last
<1> QED
  BY <1>4, <1>5, <1>6

\* A closure that no part of the step is about.
LEMMA Others ==
  ASSUME IInv, NEW d \in Closures,
         a'[d] = a[d], cnt'[d] = cnt[d], env'[d] = env[d], handle'[d] = handle[d],
         Calls(d)' = Calls(d), Drops(d)' = Drops(d), d \in registered' <=> d \in registered,
         stale' = stale \/ (stack = <<>> /\ stale' = Made)
  PROVE  Well(d)'
<1>1. stack = <<>> => Calls(d) = 0
  BY StackTypes, FramesType DEF IInv
<1>2. stale' = Made => (d \in stale' <=> handle[d] # "none")
  BY DEF Made
<1>3. Well(d)
  BY DEF IInv
<1>4. Living(d)'
  BY <1>2, <1>3 DEF Well, Living
<1>5. d \in Owned => Keeping(d)'
  <2>1. env[d] = "alive" /\ handle[d] = "dropped" /\ d \in Owned => stale' = stale
    BY <1>1, <1>3 DEF Well, Keeping
  <2> QED
    BY <1>3, <2>1 DEF Well, Keeping
<1>6. d \notin Owned => Borrowing(d)'
  BY <1>3 DEF Well, Borrowing
<1> QED
  BY <1>4, <1>5, <1>6 DEF Well

-----------------------------------------------------------------------------
(***************************************************************************)
(* One lemma per action.                                                   *)
(***************************************************************************)
LEMMA Vars ==
  ASSUME IInv
  PROVE  /\ a \in [Closures -> BOOLEAN] /\ cnt \in [Closures -> 0..MaxDepth + 1]
         /\ env \in [Closures -> {"none", "alive", "dropping", "freed"}]
         /\ handle \in [Closures -> {"none", "rust", "leaked", "js", "dropped"}]
         /\ held \in [Closures -> BOOLEAN]
         /\ registered \subseteq Owned /\ stale \subseteq Closures /\ scheduled \in BOOLEAN
         /\ stack \in Seq(Kinds) /\ MaxDepth \in Nat
         /\ Owned \subseteq Closures /\ Mutable \subseteq Closures
BY ClosureAssumption, StackTypes DEF IInv, TypeOK

LEMMA InitInv == Init => IInv
<1> SUFFICES ASSUME Init PROVE IInv
  OBVIOUS
<1>1. stack = <<>> /\ stack \in Seq(Kinds)
  BY DEF Init
<1>2. TypeOK
  <2>1. stack \in Seq([op : {"call", "drop"}, of : Closures])
    BY <1>1 DEF Kinds
  <2>2. cnt \in [Closures -> 0..MaxDepth + 1]
    <3>1. 0 \in 0..MaxDepth + 1
      BY ClosureAssumption
    <3> QED
      BY <3>1 DEF Init
  <2>3. a \in [Closures -> BOOLEAN] /\ held \in [Closures -> BOOLEAN]
    BY DEF Init
  <2>4. /\ env \in [Closures -> {"none", "alive", "dropping", "freed"}]
        /\ handle \in [Closures -> {"none", "rust", "leaked", "js", "dropped"}]
    BY DEF Init
  <2>5. registered \subseteq Owned /\ stale \subseteq Closures /\ scheduled \in BOOLEAN
    BY DEF Init
  <2> QED
    BY <2>1, <2>2, <2>3, <2>4, <2>5 DEF TypeOK
<1>3. DropsOnTop /\ Shallow
  BY <1>1, ClosureAssumption DEF DropsOnTop, Shallow
<1>4. ASSUME NEW c \in Closures PROVE Well(c)
  <2>1. Calls(c) = 0 /\ Drops(c) = 0
    BY <1>1, FramesType
  <2> QED
    BY <2>1 DEF Init, Well, Living, Keeping, Borrowing
<1> QED
  BY <1>2, <1>3, <1>4 DEF IInv

\* A step that leaves the stack alone, and the stale ones unless it is a reset.
LEMMA Idle ==
  ASSUME IInv, UNCHANGED <<a, cnt, env, handle, registered, stack>>,
         held' \in [Closures -> BOOLEAN], scheduled' \in BOOLEAN,
         stale' = stale \/ (stack = <<>> /\ stale' = Made)
  PROVE  IInv'
<1>1. /\ a' = a /\ cnt' = cnt /\ env' = env /\ handle' = handle
      /\ registered' = registered /\ stack' = stack
  OBVIOUS
<1>2. TypeOK'
  BY <1>1, Vars DEF IInv, TypeOK, Made
<1>3. DropsOnTop' /\ Shallow'
  BY <1>1 DEF IInv, DropsOnTop, Shallow, Running, Last
<1>4. \A d \in Closures : Well(d)'
  BY <1>1, Unpushed, Others
<1> QED
  BY <1>2, <1>3, <1>4 DEF IInv

LEMMA MakeInv == ASSUME IInv, NEW c \in Closures, Make(c) PROVE IInv'
<1>1. /\ handle[c] = "none" /\ stale' = stale /\ scheduled' = scheduled /\ stack' = stack
      /\ a' = [a EXCEPT ![c] = TRUE] /\ cnt' = [cnt EXCEPT ![c] = IF c \in Owned THEN 1 ELSE 0]
      /\ env' = [env EXCEPT ![c] = "alive"] /\ handle' = [handle EXCEPT ![c] = "rust"]
      /\ held' = [held EXCEPT ![c] = TRUE] /\ registered' = registered \cup ({c} \cap Owned)
  BY DEF Make, Put
<1>2. TypeOK'
  <2>1. 1 \in 0..MaxDepth + 1 /\ 0 \in 0..MaxDepth + 1
    BY Vars
  <2> QED
    BY <1>1, <2>1, Vars DEF IInv, TypeOK
<1>3. DropsOnTop' /\ Shallow'
  BY <1>1 DEF IInv, DropsOnTop, Shallow, Running, Last
<1>4. ASSUME NEW d \in Closures, d # c PROVE Well(d)'
  BY <1>1, <1>4, Vars, Unpushed, Others
<1>5. Well(c)'
  <2>1. Calls(c)' = Calls(c) /\ Drops(c)' = Drops(c) /\ Calls(c) \in Nat
    BY <1>1, Unpushed, FramesType, Vars
  <2>2. env[c] = "none" /\ Calls(c) = 0 /\ Drops(c) = 0 /\ c \notin stale
    BY <1>1, <2>1 DEF IInv, Well, Living
  <2>3. /\ a'[c] = TRUE /\ env'[c] = "alive" /\ handle'[c] = "rust"
        /\ cnt'[c] = IF c \in Owned THEN 1 ELSE 0
    BY <1>1, Vars
  <2>4. Living(c)'
    BY <1>1, <2>1, <2>2, <2>3 DEF Living
  <2> QED
    BY <1>1, <2>1, <2>2, <2>3, <2>4 DEF Well, Keeping, Borrowing
<1> QED
  BY <1>2, <1>3, <1>4, <1>5 DEF IInv

\* A destructor begins for c.
LEMMA PushedDrop ==
  ASSUME IInv, NEW c \in Closures, stack' = Append(stack, Frame("drop", c))
  PROVE  /\ Calls(c)' = Calls(c) /\ Drops(c)' = Drops(c) + 1
         /\ \A d \in Closures : d # c => Calls(d)' = Calls(d) /\ Drops(d)' = Drops(d)
<1>1. stack \in Seq(Kinds) /\ Frame("drop", c) \in Kinds
  BY Vars, FrameFacts
<1>2. \A d \in Closures : Calls(d) \in Nat /\ Drops(d) \in Nat
  BY <1>1, FramesType
<1> QED
  BY <1>1, <1>2, Pushed, FrameFacts

LEMMA DropOwnedInv == ASSUME IInv, NEW c \in Closures, DropOwned(c) PROVE IInv'
<1>1. /\ c \in Owned /\ handle[c] = "rust" /\ c \notin stale
      /\ handle' = [handle EXCEPT ![c] = "dropped"]
      /\ cnt' = [cnt EXCEPT ![c] = cnt[c] - 1]
      /\ IF cnt[c] = 1
         THEN stack' = Append(stack, Frame("drop", c)) /\ env' = [env EXCEPT ![c] = "dropping"]
         ELSE stack' = stack /\ env' = env
      /\ registered' = registered /\ a' = a /\ held' = held /\ stale' = stale
      /\ scheduled' = scheduled
      /\ Code \/ Len(stack) < MaxDepth
  BY DEF DropOwned, MayDrop, Mine, Unref, Put
<1>2. /\ env[c] = "alive" /\ cnt[c] = Calls(c) + 1 /\ Calls(c) \in Nat /\ Drops(c) = 0
      /\ cnt[c] \in 0..MaxDepth + 1 /\ MaxDepth \in Nat
  BY <1>1, FramesType, Vars DEF IInv, Well, Living, Keeping
<1>3. /\ handle'[c] = "dropped" /\ cnt'[c] = cnt[c] - 1
      /\ \A d \in Closures : d # c => handle'[d] = handle[d] /\ cnt'[d] = cnt[d]
  BY <1>1, Vars
<1>4. CASE cnt[c] = 1
  <2>1. stack' = Append(stack, Frame("drop", c)) /\ env' = [env EXCEPT ![c] = "dropping"]
    BY <1>1, <1>4
  <2>2. stack' \in Seq(Kinds) /\ DropsOnTop' /\ Shallow'
    BY <1>1, <2>1, StackPush, FrameFacts
  <2>3. /\ Calls(c)' = 0 /\ Drops(c)' = 1
        /\ \A d \in Closures : d # c => Calls(d)' = Calls(d) /\ Drops(d)' = Drops(d)
    BY <1>2, <1>4, <2>1, PushedDrop
  <2>4. TypeOK'
    <3>1. stack' \in Seq([op : {"call", "drop"}, of : Closures])
      BY <2>2 DEF Kinds
    <3>2. cnt[c] - 1 \in 0..MaxDepth + 1
      BY <1>2, <1>4
    <3> QED
      BY <1>1, <2>1, <3>1, <3>2, Vars DEF IInv, TypeOK
  <2>5. env'[c] = "dropping" /\ \A d \in Closures : d # c => env'[d] = env[d]
    BY <2>1, Vars
  <2>6. Well(c)'
    BY <1>1, <1>3, <2>3, <2>5 DEF IInv, Well, Living, Keeping
  <2>7. \A d \in Closures : d # c => Well(d)'
    BY <1>1, <1>3, <2>3, <2>5, Others
  <2> QED
    BY <2>2, <2>4, <2>6, <2>7 DEF IInv
<1>5. CASE cnt[c] # 1
  <2>1. stack' = stack /\ env' = env /\ Calls(c) > 0
    BY <1>1, <1>2, <1>5
  <2>2. DropsOnTop' /\ Shallow'
    BY <2>1 DEF IInv, DropsOnTop, Shallow, Running, Last
  <2>3. \A d \in Closures : Calls(d)' = Calls(d) /\ Drops(d)' = Drops(d)
    BY <2>1, Unpushed
  <2>4. TypeOK'
    <3>1. cnt[c] - 1 \in 0..MaxDepth + 1
      BY <1>2, <1>5
    <3> QED
      BY <1>1, <2>1, <3>1, Vars DEF IInv, TypeOK
  <2>5. Living(c)'
    BY <1>1, <1>3, <2>1, <2>3 DEF IInv, Well, Living
  <2>6. Keeping(c)'
    BY <1>1, <1>2, <1>3, <2>1, <2>3 DEF IInv, Well, Keeping
  <2>7. \A d \in Closures : d # c => Well(d)'
    BY <1>1, <1>3, <2>1, <2>3, Others
  <2> QED
    BY <1>1, <2>2, <2>4, <2>5, <2>6, <2>7 DEF IInv, Well
<1> QED
  BY <1>4, <1>5

LEMMA DropBorrowedInv == ASSUME IInv, NEW c \in Closures, DropBorrowed(c) PROVE IInv'
<1>1. /\ c \notin Owned /\ handle[c] = "rust" /\ c \notin stale /\ Calls(c) = 0
      /\ handle' = [handle EXCEPT ![c] = "dropped"] /\ a' = [a EXCEPT ![c] = FALSE]
      /\ env' = [env EXCEPT ![c] = "freed"]
      /\ cnt' = cnt /\ held' = held /\ registered' = registered /\ stale' = stale
      /\ scheduled' = scheduled /\ stack' = stack
  BY DEF DropBorrowed, Mine, Put
<1>2. TypeOK'
  BY <1>1, Vars DEF IInv, TypeOK
<1>3. DropsOnTop' /\ Shallow'
  BY <1>1 DEF IInv, DropsOnTop, Shallow, Running, Last
<1>4. \A d \in Closures : Calls(d)' = Calls(d) /\ Drops(d)' = Drops(d)
  BY <1>1, Unpushed
<1>5. ASSUME NEW d \in Closures, d # c PROVE Well(d)'
  BY <1>1, <1>4, <1>5, Vars, Others
<1>6. Well(c)'
  <2>1. a'[c] = FALSE /\ env'[c] = "freed" /\ handle'[c] = "dropped"
    BY <1>1, Vars
  <2>2. Drops(c) = 0 /\ cnt[c] = 0
    BY <1>1 DEF IInv, Well, Living, Borrowing
  <2> QED
    BY <1>1, <1>4, <2>1, <2>2 DEF Well, Living, Borrowing
<1> QED
  BY <1>2, <1>3, <1>5, <1>6 DEF IInv

LEMMA GiveAwayInv ==
  ASSUME IInv, NEW c \in Closures, NEW to \in {"leaked", "js"}, GiveAway(c, to) PROVE IInv'
<1>1. /\ c \in Owned /\ handle[c] = "rust" /\ c \notin stale
      /\ handle' = [handle EXCEPT ![c] = to] /\ a' = a /\ env' = env
      /\ cnt' = cnt /\ held' = held /\ registered' = registered /\ stale' = stale
      /\ scheduled' = scheduled /\ stack' = stack
  BY DEF GiveAway, Mine, Put
<1>2. TypeOK'
  BY <1>1, Vars DEF IInv, TypeOK
<1>3. DropsOnTop' /\ Shallow'
  BY <1>1 DEF IInv, DropsOnTop, Shallow, Running, Last
<1>4. \A d \in Closures : Calls(d)' = Calls(d) /\ Drops(d)' = Drops(d)
  BY <1>1, Unpushed
<1>5. ASSUME NEW d \in Closures, d # c PROVE Well(d)'
  BY <1>1, <1>4, <1>5, Vars, Others
<1>6. Well(c)'
  <2>1. handle'[c] = to /\ to # "none" /\ to # "dropped" /\ to # "rust"
    BY <1>1, Vars
  <2>2. Living(c)'
    BY <1>1, <1>4, <2>1 DEF IInv, Well, Living
  <2>3. Keeping(c)'
    BY <1>1, <1>4, <2>1 DEF IInv, Well, Keeping
  <2> QED
    BY <1>1, <2>2, <2>3 DEF Well
<1> QED
  BY <1>2, <1>3, <1>5, <1>6 DEF IInv

-----------------------------------------------------------------------------
LEMMA InvokeInv == ASSUME Quiet, IInv, NEW c \in Closures, Invoke(c) PROVE IInv'
<1>1. /\ Code /\ Len(stack) < MaxDepth /\ (scheduled => stack = <<>>)
      /\ stale' = stale \/ (stack = <<>> /\ stale' = Made)
      /\ scheduled' = FALSE /\ env' = env /\ handle' = handle /\ held' = held
      /\ registered' = registered
  BY DEF Invoke, MayCall, PassGuard, Quiet
<1>2. CASE ~a[c] /\ UNCHANGED <<a, cnt, stack>>
  BY <1>1, <1>2, Idle, Vars
<1>3. CASE /\ a[c]
           /\ cnt' = IF c \in Owned THEN [cnt EXCEPT ![c] = cnt[c] + 1] ELSE cnt
           /\ a' = IF c \in Mutable THEN [a EXCEPT ![c] = FALSE] ELSE a
           /\ stack' = Append(stack, Frame("call", c))
  <2>1. stack' \in Seq(Kinds) /\ DropsOnTop' /\ Shallow'
    BY <1>1, <1>3, StackPush, FrameFacts
  <2>2. /\ Calls(c)' = Calls(c) + 1 /\ Drops(c)' = Drops(c) /\ Calls(c) \in Nat
        /\ Calls(c) <= Len(stack) /\ Len(stack) \in Nat /\ Drops(c) \in Nat
        /\ \A d \in Closures : d # c => Calls(d)' = Calls(d) /\ Drops(d)' = Drops(d)
    <3>1. stack \in Seq(Kinds) /\ Frame("call", c) \in Kinds /\ Len(stack) \in Nat
      BY Vars, FrameFacts
    <3>2. \A d \in Closures : Calls(d) \in Nat /\ Drops(d) \in Nat /\ Calls(d) <= Len(stack)
      BY <3>1, FramesType
    <3> QED
      BY <1>3, <3>1, <3>2, Pushed, FrameFacts
  <2>3. env[c] = "alive"
    BY <1>1, <1>3, NoDrops DEF IInv, Well, Living
  <2>4. c \in Mutable => Calls(c) = 0
    BY <1>3, <2>2 DEF IInv, Well, Living
  <2>5. /\ a'[c] = IF c \in Mutable THEN FALSE ELSE a[c]
        /\ cnt'[c] = IF c \in Owned THEN cnt[c] + 1 ELSE cnt[c]
        /\ \A d \in Closures : d # c => a'[d] = a[d] /\ cnt'[d] = cnt[d]
    BY <1>3, Vars
  <2>6. TypeOK'
    <3>1. c \in Owned => cnt[c] + 1 \in 0..MaxDepth + 1
      BY <1>1, <2>2, <2>3, Vars DEF IInv, Well, Keeping
    <3>2. cnt' \in [Closures -> 0..MaxDepth + 1] /\ a' \in [Closures -> BOOLEAN]
      BY <1>3, <3>1, Vars
    <3>3. stack' \in Seq([op : {"call", "drop"}, of : Closures])
      BY <2>1 DEF Kinds
    <3>4. stale' \subseteq Closures
      BY <1>1, Vars DEF Made
    <3> QED
      BY <1>1, <3>2, <3>3, <3>4, Vars DEF TypeOK
  <2>7. \A d \in Closures : d # c => Well(d)'
    BY <1>1, <2>2, <2>5, Others
  <2>8. Living(c)'
    <3>1. handle[c] # "none" /\ Drops(c) = 0
      BY <2>3 DEF IInv, Well, Living
    <3> QED
      BY <1>1, <2>2, <2>3, <2>4, <2>5, <3>1 DEF Living
  <2>9. c \in Owned => Keeping(c)'
    <3>1. ASSUME c \in Owned, handle[c] = "dropped" PROVE c \notin stale'
      <4>1. Calls(c) > 0 /\ c \notin stale
        BY <3>1, <2>3 DEF IInv, Well, Keeping
      <4>2. stack # <<>>
        BY <4>1, <2>2
      <4> QED
        BY <1>1, <4>1, <4>2
    <3> QED
      BY <1>1, <2>2, <2>3, <2>5, <3>1, Vars DEF IInv, Well, Keeping
  <2>10. c \notin Owned => Borrowing(c)'
    BY <1>1, <2>3, <2>5 DEF IInv, Well, Borrowing
  <2> QED
    BY <2>1, <2>6, <2>7, <2>8, <2>9, <2>10 DEF IInv, Well
<1> QED
  BY <1>2, <1>3 DEF Invoke, Put

\* The closure on top of the stack.
LEMMA TopFrame ==
  ASSUME IInv, NEW op \in {"call", "drop"}, Running(op)
  PROVE  /\ stack # <<>> /\ Last(stack).of \in Closures
         /\ Last(stack) = Frame(op, Last(stack).of)
         /\ op = "call" => Calls(Last(stack).of) > 0
         /\ op = "drop" => Drops(Last(stack).of) > 0
<1>1. stack \in Seq(Kinds) /\ stack # <<>>
  BY Vars DEF Running
<1>2. Last(stack) \in Kinds /\ Last(stack).op = op /\ Last(stack) = stack[Len(stack)]
      /\ Len(stack) \in Nat \ {0}
  BY <1>1, FrontType DEF Running, Last
<1>3. Last(stack).of \in Closures /\ Last(stack) = Frame(op, Last(stack).of)
  BY <1>2, FrameFacts
<1>4. Len(stack) \in 1..Len(stack)
  BY <1>2
<1> QED
  BY <1>1, <1>2, <1>3, <1>4, FramesType

LEMMA SwappedDrop ==
  ASSUME IInv, NEW c \in Closures, stack # <<>>, Last(stack) = Frame("call", c),
         stack' = Append(Front(stack), Frame("drop", c))
  PROVE  /\ Calls(c)' = Calls(c) - 1 /\ Drops(c)' = Drops(c) + 1
         /\ \A d \in Closures : d # c => Calls(d)' = Calls(d) /\ Drops(d)' = Drops(d)
<1>1. stack \in Seq(Kinds) /\ Frame("drop", c) \in Kinds
  BY Vars, FrameFacts
<1>2. PICK f \in Seq(Kinds) : f = Front(stack)
  BY <1>1, FrontType
<1>3. ASSUME NEW x
      PROVE  /\ Count(stack, x) = Count(f, x) + (IF Frame("call", c) = x THEN 1 ELSE 0)
             /\ Count(stack', x) = Count(f, x) + (IF Frame("drop", c) = x THEN 1 ELSE 0)
             /\ Count(f, x) \in Nat
  BY <1>1, <1>2, CountFront, CountAppend, CountType
<1>4. ASSUME NEW d \in Closures
      PROVE  /\ Calls(d)' = Calls(d) - (IF d = c THEN 1 ELSE 0)
             /\ Drops(d)' = Drops(d) + (IF d = c THEN 1 ELSE 0)
             /\ Calls(d) \in Nat /\ Drops(d) \in Nat
  <2>1. /\ Calls(d) = Count(f, Frame("call", d)) + (IF d = c THEN 1 ELSE 0)
        /\ Calls(d)' = Count(f, Frame("call", d)) /\ Count(f, Frame("call", d)) \in Nat
    BY <1>3, FramesCounted, FrameFacts
  <2>2. /\ Drops(d) = Count(f, Frame("drop", d))
        /\ Drops(d)' = Count(f, Frame("drop", d)) + (IF d = c THEN 1 ELSE 0)
        /\ Count(f, Frame("drop", d)) \in Nat
    BY <1>3, FramesCounted, FrameFacts
  <2> QED
    BY <2>1, <2>2
<1> QED
  BY <1>4

LEMMA PoppedFrame ==
  ASSUME IInv, NEW c \in Closures, stack # <<>>, stack' = Front(stack),
         NEW op \in {"call", "drop"}, Last(stack) = Frame(op, c)
  PROVE  /\ Calls(c)' = Calls(c) - (IF op = "call" THEN 1 ELSE 0)
         /\ Drops(c)' = Drops(c) - (IF op = "drop" THEN 1 ELSE 0)
         /\ \A d \in Closures : d # c => Calls(d)' = Calls(d) /\ Drops(d)' = Drops(d)
<1>1. stack \in Seq(Kinds) /\ stack' \in Seq(Kinds)
  BY Vars, FrontType
<1>2. ASSUME NEW d \in Closures
      PROVE  /\ Calls(d) = Calls(d)' + (IF d = c /\ op = "call" THEN 1 ELSE 0)
             /\ Drops(d) = Drops(d)' + (IF d = c /\ op = "drop" THEN 1 ELSE 0)
             /\ Calls(d)' \in Nat /\ Drops(d)' \in Nat
  <2>1. Calls(d)' \in Nat /\ Drops(d)' \in Nat
    BY <1>1, FramesCounted, CountType
  <2> QED
    BY <1>1, <2>1, Popped, FrameFacts
<1> QED
  BY <1>2

LEMMA LeaveInv == ASSUME IInv, Leave PROVE IInv'
<1>0. PICK c \in Closures : c = Last(stack).of /\ stack # <<>> /\ Last(stack) = Frame("call", c)
                          /\ Calls(c) > 0
  BY TopFrame DEF Leave
<1>1. /\ a' = IF c \in Mutable THEN [a EXCEPT ![c] = TRUE] ELSE a
      /\ handle' = handle /\ held' = held /\ stale' = stale /\ scheduled' = scheduled
      /\ registered' = registered
  BY <1>0 DEF Leave, Put, Unref
<1>2. /\ c \in Owned => cnt' = [cnt EXCEPT ![c] = cnt[c] - 1]
      /\ c \notin Owned => cnt' = cnt
      /\ IF c \in Owned /\ cnt[c] = 1
         THEN /\ stack' = Append(Front(stack), Frame("drop", c))
              /\ env' = [env EXCEPT ![c] = "dropping"]
         ELSE stack' = Front(stack) /\ env' = env
  BY <1>0 DEF Leave, Put, Unref
<1>3. stack # <<>> /\ Last(stack) = Frame("call", c) /\ Calls(c) > 0
  BY <1>0
<1>4. /\ env[c] = "alive" /\ Drops(c) = 0 /\ Calls(c) \in Nat /\ handle[c] # "none"
      /\ c \in Mutable => Calls(c) = 1
  BY <1>3, Vars, FramesType DEF IInv, Well, Living
<1>5. c \in Owned => cnt[c] = Calls(c) + (IF handle[c] = "dropped" THEN 0 ELSE 1)
  BY <1>3, <1>4 DEF IInv, Well, Keeping
<1>6. /\ a'[c] = IF c \in Mutable THEN TRUE ELSE a[c]
      /\ cnt'[c] = IF c \in Owned THEN cnt[c] - 1 ELSE cnt[c]
      /\ \A d \in Closures : d # c => a'[d] = a[d] /\ cnt'[d] = cnt[d]
  BY <1>1, <1>2, <1>3, Vars
<1>7. cnt' \in [Closures -> 0..MaxDepth + 1] /\ a' \in [Closures -> BOOLEAN]
  <2>1. c \in Owned => cnt[c] - 1 \in 0..MaxDepth + 1
    <3>1. c \in Owned => cnt[c] >= 1 /\ cnt[c] \in 0..MaxDepth + 1
      BY <1>3, <1>4, <1>5, Vars
    <3> QED
      BY <3>1, Vars
  <2> QED
    BY <1>1, <1>2, <1>3, <2>1, Vars
<1>8. CASE c \in Owned /\ cnt[c] = 1
  <2>1. /\ stack' = Append(Front(stack), Frame("drop", c))
        /\ env' = [env EXCEPT ![c] = "dropping"]
    BY <1>2, <1>8
  <2>2. stack' \in Seq(Kinds) /\ DropsOnTop' /\ Shallow'
    BY <1>3, <2>1, StackSwap
  <2>3. /\ Calls(c)' = 0 /\ Drops(c)' = 1 /\ handle[c] = "dropped"
        /\ \A d \in Closures : d # c => Calls(d)' = Calls(d) /\ Drops(d)' = Drops(d)
    BY <1>3, <1>4, <1>5, <1>8, <2>1, SwappedDrop
  <2>4. env'[c] = "dropping" /\ \A d \in Closures : d # c => env'[d] = env[d]
    BY <1>3, <2>1, Vars
  <2>5. TypeOK'
    <3>1. stack' \in Seq([op : {"call", "drop"}, of : Closures])
      BY <2>2 DEF Kinds
    <3> QED
      BY <1>1, <1>7, <2>1, <3>1, Vars DEF TypeOK
  <2>6. \A d \in Closures : d # c => Well(d)'
    BY <1>1, <1>6, <2>3, <2>4, Others
  <2>7. Well(c)'
    BY <1>1, <1>3, <1>6, <1>8, <2>3, <2>4 DEF Well, Living, Keeping, IInv
  <2> QED
    BY <2>2, <2>5, <2>6, <2>7 DEF IInv
<1>9. CASE ~(c \in Owned /\ cnt[c] = 1)
  <2>1. stack' = Front(stack) /\ env' = env
    BY <1>2, <1>9
  <2>2. stack' \in Seq(Kinds) /\ DropsOnTop' /\ Shallow'
    BY <1>3, <2>1, StackPop
  <2>3. /\ Calls(c)' = Calls(c) - 1 /\ Drops(c)' = Drops(c)
        /\ \A d \in Closures : d # c => Calls(d)' = Calls(d) /\ Drops(d)' = Drops(d)
    <3>1. /\ Calls(c)' = Calls(c) - (IF "call" = "call" THEN 1 ELSE 0)
          /\ Drops(c)' = Drops(c) - (IF "call" = "drop" THEN 1 ELSE 0)
          /\ \A d \in Closures : d # c => Calls(d)' = Calls(d) /\ Drops(d)' = Drops(d)
      BY <1>3, <2>1, PoppedFrame
    <3> QED
      BY <3>1, <1>4
  <2>4. TypeOK'
    <3>1. stack' \in Seq([op : {"call", "drop"}, of : Closures])
      BY <2>2 DEF Kinds
    <3> QED
      BY <1>1, <1>7, <2>1, <3>1, Vars DEF TypeOK
  <2>5. \A d \in Closures : d # c => Well(d)'
    BY <1>1, <1>6, <2>1, <2>3, Others
  <2>6. Living(c)'
    BY <1>1, <1>3, <1>4, <1>6, <2>1, <2>3 DEF Well, Living, IInv
  <2>7. c \in Owned => Keeping(c)'
    BY <1>1, <1>3, <1>4, <1>5, <1>6, <1>9, <2>1, <2>3 DEF Well, Keeping, IInv
  <2>8. c \notin Owned => Borrowing(c)'
    BY <1>1, <1>3, <1>6, <2>1 DEF Well, Borrowing, IInv
  <2> QED
    BY <1>3, <2>2, <2>4, <2>5, <2>6, <2>7, <2>8 DEF IInv, Well
<1> QED
  BY <1>8, <1>9

LEMMA DestroyedInv == ASSUME IInv, Destroyed PROVE IInv'
<1>0. PICK c \in Closures : c = Last(stack).of /\ stack # <<>> /\ Last(stack) = Frame("drop", c)
                          /\ Drops(c) > 0
  BY TopFrame DEF Destroyed
<1>1. /\ a' = [a EXCEPT ![c] = FALSE] /\ env' = [env EXCEPT ![c] = "freed"]
      /\ registered' = registered \ {c} /\ stack' = Front(stack) /\ cnt' = cnt
      /\ handle' = handle /\ held' = held /\ stale' = stale /\ scheduled' = scheduled
  BY <1>0 DEF Destroyed, Put
<1>2. stack # <<>> /\ Last(stack) = Frame("drop", c) /\ Drops(c) > 0
  BY <1>0
<1>3. env[c] = "dropping" /\ Drops(c) = 1 /\ c \in Owned /\ handle[c] # "none"
  BY <1>2 DEF IInv, Well, Living, Borrowing
<1>4. Calls(c) = 0
  BY <1>2, <1>3, Vars, FramesType DEF IInv, Well, Living
<1>5. stack' \in Seq(Kinds) /\ DropsOnTop' /\ Shallow'
  BY <1>1, <1>2, StackPop
<1>6. /\ Calls(c)' = 0 /\ Drops(c)' = 0
      /\ \A d \in Closures : d # c => Calls(d)' = Calls(d) /\ Drops(d)' = Drops(d)
  <2>1. /\ Calls(c)' = Calls(c) - (IF "drop" = "call" THEN 1 ELSE 0)
        /\ Drops(c)' = Drops(c) - (IF "drop" = "drop" THEN 1 ELSE 0)
        /\ \A d \in Closures : d # c => Calls(d)' = Calls(d) /\ Drops(d)' = Drops(d)
    BY <1>1, <1>2, PoppedFrame
  <2> QED
    BY <2>1, <1>3, <1>4
<1>7. /\ a'[c] = FALSE /\ env'[c] = "freed"
      /\ \A d \in Closures : d # c => a'[d] = a[d] /\ env'[d] = env[d]
  BY <1>1, <1>2, Vars
<1>8. TypeOK'
  <2>1. stack' \in Seq([op : {"call", "drop"}, of : Closures])
    BY <1>5 DEF Kinds
  <2> QED
    BY <1>1, <2>1, Vars DEF TypeOK
<1>9. \A d \in Closures : d # c => Well(d)'
  BY <1>1, <1>6, <1>7, Others
<1>10. Well(c)'
  BY <1>1, <1>2, <1>3, <1>6, <1>7 DEF IInv, Well, Living, Keeping
<1> QED
  BY <1>5, <1>8, <1>9, <1>10 DEF IInv

\* What the collector finds.
LEMMA Found ==
  ASSUME IInv, NEW c \in Closures, c \in registered, Garbage(c)
  PROVE  /\ c \in Owned /\ stack = <<>> /\ env[c] = "alive" /\ Calls(c) = 0 /\ Drops(c) = 0
         /\ c \notin stale => handle[c] = "js"
<1>1. c \in Owned /\ stack = <<>> /\ Code
  BY Vars DEF Garbage, Code
<1>2. Calls(c) = 0 /\ Drops(c) = 0 /\ env[c] # "dropping"
  BY <1>1, Vars, FramesType, NoDrops
<1>3. env[c] = "alive"
  BY <1>1, <1>2 DEF IInv, Well, Keeping
<1> QED
  BY <1>1, <1>2, <1>3 DEF IInv, Well, Keeping, Garbage

LEMMA FinalizeInv == ASSUME IInv, NEW c \in Closures, Finalize(c) PROVE IInv'
<1>1. /\ c \in registered /\ registered' = registered \ {c}
      /\ IF c \in stale THEN stack' = stack /\ env' = env
         ELSE stack' = <<Frame("drop", c)>> /\ env' = [env EXCEPT ![c] = "dropping"]
      /\ a' = a /\ cnt' = cnt /\ handle' = handle /\ held' = held /\ stale' = stale
      /\ scheduled' = scheduled /\ Garbage(c)
  BY DEF Finalize, Put
<1>2. /\ c \in Owned /\ stack = <<>> /\ env[c] = "alive" /\ Calls(c) = 0 /\ Drops(c) = 0
      /\ c \notin stale => handle[c] = "js"
  BY <1>1, Found
<1>3. CASE c \in stale
  <2>1. stack' = stack /\ env' = env
    BY <1>1, <1>3
  <2>2. DropsOnTop' /\ Shallow'
    BY <2>1 DEF IInv, DropsOnTop, Shallow, Running, Last
  <2>3. TypeOK'
    BY <1>1, <2>1, Vars DEF IInv, TypeOK
  <2>4. \A d \in Closures : Calls(d)' = Calls(d) /\ Drops(d)' = Drops(d)
    BY <2>1, Unpushed
  <2>5. \A d \in Closures : d # c => Well(d)'
    BY <1>1, <2>1, <2>4, Others
  <2>6. Well(c)'
    BY <1>1, <1>2, <2>1, <2>4 DEF IInv, Well, Living, Keeping
  <2> QED
    BY <2>2, <2>3, <2>5, <2>6 DEF IInv
<1>4. CASE c \notin stale
  <2>1. /\ stack' = Append(stack, Frame("drop", c)) /\ env' = [env EXCEPT ![c] = "dropping"]
        /\ Code
    BY <1>1, <1>2, <1>4 DEF Code
  <2>2. stack' \in Seq(Kinds) /\ DropsOnTop' /\ Shallow'
    BY <2>1, StackPush, FrameFacts
  <2>3. /\ Calls(c)' = 0 /\ Drops(c)' = 1
        /\ \A d \in Closures : d # c => Calls(d)' = Calls(d) /\ Drops(d)' = Drops(d)
    BY <1>2, <2>1, PushedDrop
  <2>4. env'[c] = "dropping" /\ \A d \in Closures : d # c => env'[d] = env[d]
    BY <2>1, Vars
  <2>5. TypeOK'
    <3>1. stack' \in Seq([op : {"call", "drop"}, of : Closures])
      BY <2>2 DEF Kinds
    <3> QED
      BY <1>1, <2>1, <3>1, Vars DEF TypeOK
  <2>6. \A d \in Closures : d # c => Well(d)'
    BY <1>1, <2>3, <2>4, Others
  <2>7. Well(c)'
    BY <1>1, <1>2, <1>4, <2>3, <2>4 DEF IInv, Well, Living, Keeping
  <2> QED
    BY <2>2, <2>5, <2>6, <2>7 DEF IInv
<1> QED
  BY <1>3, <1>4

LEMMA NextInv == ASSUME Quiet, IInv, [Next]_vars PROVE IInv'
<1>1. ASSUME NEW c \in Closures, Forsake(c) PROVE IInv'
  <2>1. /\ UNCHANGED <<a, cnt, env, handle, registered, stack>> /\ stale' = stale
        /\ held' = [held EXCEPT ![c] = FALSE] /\ scheduled' = scheduled
    BY <1>1 DEF Forsake, Put
  <2> QED
    BY <2>1, Vars, Idle
<1>2. CASE ScheduleReinit
  BY <1>2, Vars, Idle DEF ScheduleReinit
<1>3. CASE Reset
  BY <1>3, Vars, Idle DEF Reset
<1>4. CASE UNCHANGED vars
  BY <1>4, Vars, Idle DEF vars
<1> QED
  BY <1>1, <1>2, <1>3, <1>4, MakeInv, DropOwnedInv, DropBorrowedInv, GiveAwayInv, InvokeInv,
     LeaveInv, DestroyedInv, FinalizeInv DEF Next

LEMMA SpecInv == Quiet => (Spec => []IInv)
<1> SUFFICES ASSUME Quiet PROVE Spec => []IInv
  OBVIOUS
<1>1. IInv /\ [Next]_vars => IInv'
  BY NextInv
<1> QED
  BY <1>1, InitInv, PTL DEF Spec

\* Every variable has its type: the count never goes below zero.
THEOREM TypeCorrect == Quiet => (Spec => []TypeOK)
<1> SUFFICES ASSUME Quiet PROVE Spec => []TypeOK
  OBVIOUS
<1>1. IInv => TypeOK
  BY DEF IInv
<1> QED
  BY <1>1, SpecInv, PTL

\* The count is exact: one for the handle and one for each invocation.
THEOREM CountsExact == Quiet => (Spec => []CountExact)
<1> SUFFICES ASSUME Quiet PROVE Spec => []CountExact
  OBVIOUS
<1>1. IInv => CountExact
  BY ClosureAssumption DEF IInv, CountExact, Well, Keeping
<1> QED
  BY <1>1, SpecInv, PTL

\* No invocation runs in an environment that is dropped or being dropped, as
\* long as drop glue does not call: the run that lets it call shows otherwise.
THEOREM NoUse == Quiet => (Spec => []NoUseAfterFree)
<1> SUFFICES ASSUME Quiet PROVE Spec => []NoUseAfterFree
  OBVIOUS
<1>1. IInv => NoUseAfterFree
  BY DEF IInv, NoUseAfterFree, Well, Living
<1> QED
  BY <1>1, SpecInv, PTL

-----------------------------------------------------------------------------
(***************************************************************************)
(* What each action does to the frames of the closures and to their lives. *)
(***************************************************************************)
Same(d) == Calls(d)' = Calls(d) /\ Drops(d)' = Drops(d)

LEMMA DropOwnedEffect ==
  ASSUME IInv, NEW c \in Closures, DropOwned(c)
  PROVE  /\ handle[c] = "rust" /\ env[c] = "alive" /\ c \notin stale /\ Calls(c) \in Nat
         /\ handle' = [handle EXCEPT ![c] = "dropped"] /\ Calls(c)' = Calls(c)
         /\ \A d \in Closures : d # c => Same(d)
         /\ IF Calls(c) = 0 THEN env' = [env EXCEPT ![c] = "dropping"] ELSE env' = env
<1>1. /\ c \in Owned /\ handle[c] = "rust" /\ c \notin stale
      /\ handle' = [handle EXCEPT ![c] = "dropped"]
      /\ IF cnt[c] = 1
         THEN stack' = Append(stack, Frame("drop", c)) /\ env' = [env EXCEPT ![c] = "dropping"]
         ELSE stack' = stack /\ env' = env
  BY DEF DropOwned, MayDrop, Mine, Unref, Put
<1>2. env[c] = "alive" /\ cnt[c] = Calls(c) + 1 /\ Calls(c) \in Nat
  BY <1>1, FramesType, Vars DEF IInv, Well, Living, Keeping
<1>3. Calls(c)' = Calls(c) /\ \A d \in Closures : d # c => Same(d)
  BY <1>1, Unpushed, PushedDrop DEF Same
<1> QED
  BY <1>1, <1>2, <1>3

LEMMA InvokeEffect ==
  ASSUME Quiet, IInv, NEW c \in Closures, Invoke(c)
  PROVE  /\ env' = env /\ handle' = handle /\ (c \in Owned => c \notin stale)
         /\ \A d \in Closures : d # c => Same(d)
         /\ Drops(c)' = Drops(c)
         /\ \/ Calls(c)' = Calls(c)
            \/ /\ Calls(c)' = Calls(c) + 1 /\ env[c] = "alive"
               /\ c \in Mutable => Calls(c) = 0
<1>1. Code /\ env' = env /\ handle' = handle /\ (c \in Owned => c \notin stale)
  BY DEF Invoke, MayCall, PassGuard, Quiet
<1>2. CASE stack' = stack
  BY <1>1, <1>2, Unpushed DEF Same
<1>3. CASE a[c] /\ stack' = Append(stack, Frame("call", c))
  <2>1. /\ stack \in Seq(Kinds) /\ Frame("call", c) \in Kinds
        /\ \A d \in Closures : Calls(d) \in Nat /\ Drops(d) \in Nat
    BY Vars, FrameFacts, FramesType
  <2>2. Calls(c)' = Calls(c) + 1 /\ Drops(c)' = Drops(c)
    BY <1>3, <2>1, Pushed, FrameFacts
  <2>3. \A d \in Closures : d # c => Same(d)
    BY <1>3, <2>1, Pushed, FrameFacts DEF Same
  <2>4. env[c] = "alive"
    BY <1>1, <1>3, NoDrops DEF IInv, Well, Living
  <2>5. c \in Mutable => Calls(c) = 0
    BY <1>3, <2>1 DEF IInv, Well, Living
  <2> QED
    BY <1>1, <2>2, <2>3, <2>4, <2>5
<1> QED
  BY <1>2, <1>3 DEF Invoke

LEMMA LeaveEffect ==
  ASSUME IInv, Leave
  PROVE  \E c \in Closures :
           /\ handle' = handle /\ env[c] = "alive" /\ Calls(c) \in Nat \ {0}
           /\ Calls(c)' = Calls(c) - 1
           /\ \A d \in Closures : d # c => Same(d)
           /\ IF handle[c] = "dropped" /\ Calls(c) = 1
              THEN c \notin stale /\ env' = [env EXCEPT ![c] = "dropping"]
              ELSE env' = env /\ Drops(c)' = Drops(c)
<1>1. PICK c \in Closures : c = Last(stack).of /\ stack # <<>> /\ Last(stack) = Frame("call", c)
                          /\ Calls(c) > 0
  BY TopFrame DEF Leave
<1>2. /\ handle' = handle
      /\ IF c \in Owned /\ cnt[c] = 1
         THEN /\ stack' = Append(Front(stack), Frame("drop", c))
              /\ env' = [env EXCEPT ![c] = "dropping"]
         ELSE stack' = Front(stack) /\ env' = env
  BY <1>1 DEF Leave, Put, Unref
<1>3. env[c] = "alive" /\ Calls(c) \in Nat
  BY <1>1, Vars, FramesType DEF IInv, Well, Living
<1>4. /\ c \in Owned => /\ cnt[c] = Calls(c) + (IF handle[c] = "dropped" THEN 0 ELSE 1)
                        /\ handle[c] = "dropped" => c \notin stale
      /\ c \notin Owned => handle[c] = "rust"
  BY <1>3 DEF IInv, Well, Keeping, Borrowing
<1>5. (c \in Owned /\ cnt[c] = 1) <=> (handle[c] = "dropped" /\ Calls(c) = 1)
  BY <1>1, <1>3, <1>4
<1>6. CASE c \in Owned /\ cnt[c] = 1
  <2>1. Calls(c)' = Calls(c) - 1 /\ \A d \in Closures : d # c => Same(d)
    BY <1>1, <1>2, <1>6, SwappedDrop DEF Same
  <2> QED
    BY <1>1, <1>2, <1>3, <1>4, <1>5, <1>6, <2>1
<1>7. CASE ~(c \in Owned /\ cnt[c] = 1)
  <2>1. stack' = Front(stack) /\ env' = env
    BY <1>2, <1>7
  <2>2. /\ Calls(c)' = Calls(c) - (IF "call" = "call" THEN 1 ELSE 0)
        /\ Drops(c)' = Drops(c) - (IF "call" = "drop" THEN 1 ELSE 0)
        /\ \A d \in Closures : d # c => Calls(d)' = Calls(d) /\ Drops(d)' = Drops(d)
    BY <1>1, <2>1, PoppedFrame
  <2>3. Drops(c) \in Nat
    BY Vars, FramesType
  <2>4. Calls(c)' = Calls(c) - 1 /\ Drops(c)' = Drops(c) /\ \A d \in Closures : d # c => Same(d)
    BY <1>3, <2>2, <2>3 DEF Same
  <2> QED
    BY <1>1, <1>2, <1>3, <1>5, <1>7, <2>1, <2>4
<1> QED
  BY <1>6, <1>7

LEMMA DestroyedEffect ==
  ASSUME IInv, Destroyed
  PROVE  \E c \in Closures :
           /\ handle' = handle /\ env[c] = "dropping" /\ env' = [env EXCEPT ![c] = "freed"]
           /\ Calls(c)' = Calls(c) /\ Drops(c) = 1 /\ Drops(c)' = 0
           /\ \A d \in Closures : d # c => Same(d)
<1>1. PICK c \in Closures : c = Last(stack).of /\ stack # <<>> /\ Last(stack) = Frame("drop", c)
                          /\ Drops(c) > 0
  BY TopFrame DEF Destroyed
<1>2. handle' = handle /\ env' = [env EXCEPT ![c] = "freed"] /\ stack' = Front(stack)
  BY <1>1 DEF Destroyed, Put
<1>3. env[c] = "dropping" /\ Drops(c) = 1
  BY <1>1 DEF IInv, Well, Living
<1>4. /\ Calls(c)' = Calls(c) - (IF "drop" = "call" THEN 1 ELSE 0)
      /\ Drops(c)' = Drops(c) - (IF "drop" = "drop" THEN 1 ELSE 0)
      /\ \A d \in Closures : d # c => Calls(d)' = Calls(d) /\ Drops(d)' = Drops(d)
  BY <1>1, <1>2, PoppedFrame
<1>5. Calls(c) \in Nat
  BY Vars, FramesType
<1>6. Calls(c)' = Calls(c) /\ Drops(c)' = 0 /\ \A d \in Closures : d # c => Same(d)
  BY <1>3, <1>4, <1>5 DEF Same
<1> QED
  BY <1>2, <1>3, <1>6

LEMMA FinalizeEffect ==
  ASSUME IInv, NEW c \in Closures, Finalize(c)
  PROVE  /\ handle' = handle /\ \A d \in Closures : d # c => Same(d)
         /\ \/ env' = env /\ Same(c)
            \/ /\ c \notin stale /\ env[c] = "alive" /\ handle[c] = "js" /\ Calls(c) = 0
               /\ env' = [env EXCEPT ![c] = "dropping"] /\ Calls(c)' = 0
<1>1. /\ c \in registered /\ handle' = handle /\ Garbage(c)
      /\ IF c \in stale THEN stack' = stack /\ env' = env
         ELSE stack' = <<Frame("drop", c)>> /\ env' = [env EXCEPT ![c] = "dropping"]
  BY DEF Finalize, Put
<1>2. /\ stack = <<>> /\ env[c] = "alive" /\ Calls(c) = 0 /\ (c \notin stale => handle[c] = "js")
  BY <1>1, Found
<1>3. CASE c \in stale
  BY <1>1, <1>3, Unpushed DEF Same
<1>4. CASE c \notin stale
  <2>1. stack' = Append(stack, Frame("drop", c))
    BY <1>1, <1>2, <1>4
  <2>2. Calls(c)' = 0 /\ \A d \in Closures : d # c => Same(d)
    BY <1>2, <2>1, PushedDrop DEF Same
  <2> QED
    BY <1>1, <1>2, <1>4, <2>2
<1> QED
  BY <1>3, <1>4

\* The rest of the actions leave the stack alone.
LEMMA QuietSteps ==
  ASSUME IInv,
         \/ \E c \in Closures : Make(c) \/ DropBorrowed(c) \/ Forsake(c)
                              \/ \E to \in {"leaked", "js"} : GiveAway(c, to)
         \/ ScheduleReinit \/ Reset \/ UNCHANGED vars
  PROVE  \A d \in Closures : Same(d)
<1>1. stack' = stack
  BY DEF Make, DropBorrowed, Forsake, GiveAway, ScheduleReinit, Reset, vars
<1> QED
  BY <1>1, Unpushed DEF Same

\* Where frames may come from.
LEMMA FramesGrow ==
  ASSUME Quiet, IInv, [Next]_vars, NEW d \in Closures
  PROVE  /\ Drops(d)' <= Drops(d) \/ (env[d] = "alive" /\ d \notin stale)
         /\ Calls(d)' <= Calls(d) \/ d \notin Owned \/ d \notin stale
<1> DEFINE Goal == /\ Drops(d)' <= Drops(d) \/ (env[d] = "alive" /\ d \notin stale)
                   /\ Calls(d)' <= Calls(d) \/ d \notin Owned \/ d \notin stale
<1>1. Calls(d) \in Nat /\ Drops(d) \in Nat
  BY Vars, FramesType
<1>2. Same(d) => Goal
  BY <1>1 DEF Same
<1>3. ASSUME NEW c \in Closures, DropOwned(c) PROVE Goal
  BY <1>1, <1>2, <1>3, DropOwnedEffect
<1>4. ASSUME NEW c \in Closures, Invoke(c) PROVE Goal
  <2>1. CASE d # c
    BY <1>2, <1>4, <2>1, InvokeEffect
  <2>2. CASE d = c
    BY <1>1, <1>4, <2>2, InvokeEffect
  <2> QED
    BY <2>1, <2>2
<1>5. ASSUME Leave PROVE Goal
  BY <1>1, <1>2, <1>5, LeaveEffect
<1>6. ASSUME Destroyed PROVE Goal
  BY <1>1, <1>2, <1>6, DestroyedEffect
<1>7. ASSUME NEW c \in Closures, Finalize(c) PROVE Goal
  BY <1>1, <1>2, <1>7, FinalizeEffect
<1> HIDE DEF Goal
<1>8. ASSUME \/ \E c \in Closures : Make(c) \/ DropBorrowed(c) \/ Forsake(c)
                                   \/ \E to \in {"leaked", "js"} : GiveAway(c, to)
             \/ ScheduleReinit \/ Reset \/ UNCHANGED vars
      PROVE  Goal
  BY <1>2, <1>8, QuietSteps
<1>9. Goal
  <2>1. ASSUME NEW c \in Closures, \/ Make(c) \/ DropOwned(c) \/ DropBorrowed(c) \/ Invoke(c)
                                    \/ Forsake(c) \/ Finalize(c)
                                    \/ \E to \in {"leaked", "js"} : GiveAway(c, to)
        PROVE  Goal
    BY <1>3, <1>4, <1>7, <1>8, <2>1
  <2>2. CASE ScheduleReinit \/ Reset \/ UNCHANGED vars
    BY <1>8, <2>2
  <2> QED
    BY <1>5, <1>6, <2>1, <2>2 DEF Next
<1> QED
  BY <1>9 DEF Goal

\* An environment is destroyed once: a destructor begins only where the
\* environment is alive.
THEOREM DestroyedOnce == Quiet => (Spec => FreedOnce)
<1> SUFFICES ASSUME Quiet PROVE Spec => FreedOnce
  OBVIOUS
<1>1. IInv /\ [Next]_vars =>
        [\A c \in Closures : env[c] \in {"dropping", "freed"} => Drops(c)' <= Drops(c)]_vars
  BY FramesGrow
<1> QED
  BY <1>1, SpecInv, PTL DEF Spec, FreedOnce

\* Once its instance is replaced, no invocation of an owned closure begins and
\* no destructor.
THEOREM StaleLeftAlone == Quiet => (Spec => StaleUntouched)
<1> SUFFICES ASSUME Quiet PROVE Spec => StaleUntouched
  OBVIOUS
<1>1. IInv /\ [Next]_vars =>
        [\A c \in Owned \cap stale : Calls(c)' <= Calls(c) /\ Drops(c)' <= Drops(c)]_vars
  BY FramesGrow, Vars
<1> QED
  BY <1>1, SpecInv, PTL DEF Spec, StaleUntouched

-----------------------------------------------------------------------------
(***************************************************************************)
(* The glue keeps the contract.                                            *)
(***************************************************************************)
Life(c) ==
  CASE env[c] = "none" -> "unborn"
    [] env[c] = "alive" /\ handle[c] # "dropped" -> "live"
    [] env[c] = "alive" /\ handle[c] = "dropped" -> "closing"
    [] OTHER -> "dead"

LEMMA LifeOf ==
  ASSUME NEW c
  PROVE  /\ env[c] = "none" => Life(c) = "unborn"
         /\ env[c] = "alive" /\ handle[c] # "dropped" => Life(c) = "live"
         /\ env[c] = "alive" /\ handle[c] = "dropped" => Life(c) = "closing"
         /\ env[c] \notin {"none", "alive"} => Life(c) = "dead"
         /\ env'[c] = "none" => Life(c)' = "unborn"
         /\ env'[c] = "alive" /\ handle'[c] # "dropped" => Life(c)' = "live"
         /\ env'[c] = "alive" /\ handle'[c] = "dropped" => Life(c)' = "closing"
         /\ env'[c] \notin {"none", "alive"} => Life(c)' = "dead"
         /\ env'[c] = env[c] /\ handle'[c] = handle[c] => Life(c)' = Life(c)
BY DEF Life

LEMMA ContractMoves ==
  ASSUME NEW c \in Closures, Calls(c) \in Nat,
         \A d \in Closures : d # c => Life(d)' = Life(d) /\ Calls(d)' = Calls(d),
         \/ Life(c) = "unborn" /\ Life(c)' = "live" /\ Calls(c)' = Calls(c)
         \/ /\ Life(c) \in {"live", "closing"} /\ Life(c)' = Life(c)
            /\ c \in Mutable => Calls(c) = 0
            /\ Calls(c)' = Calls(c) + 1
         \/ /\ Calls(c) > 0 /\ Calls(c)' = Calls(c) - 1
            /\ Life(c)' = IF Life(c) = "closing" /\ Calls(c) = 1 THEN "dead" ELSE Life(c)
         \/ /\ Life(c) = "live" /\ Calls(c)' = Calls(c)
            /\ Life(c)' = IF Calls(c) > 0 THEN "closing" ELSE "dead"
         \/ Life(c)' = Life(c) /\ Calls(c)' = Calls(c)
  PROVE  [Contract!Next]_(Contract!vars)
<1> DEFINE life == [d \in Closures |-> Life(d)]
           calls == [d \in Closures |-> Calls(d)]
<1>1. life' = [d \in Closures |-> Life(d)'] /\ calls' = [d \in Closures |-> Calls(d)']
  OBVIOUS
<1>2. life' = [life EXCEPT ![c] = Life(c)'] /\ calls' = [calls EXCEPT ![c] = Calls(c)']
  BY <1>1
<1>3. life[c] = Life(c) /\ calls[c] = Calls(c)
  OBVIOUS
<1>4. Life(c)' = Life(c) => life' = life
  BY <1>1
<1>5. Calls(c)' = Calls(c) => calls' = calls
  BY <1>1
<1>6. CASE Life(c) = "unborn" /\ Life(c)' = "live" /\ Calls(c)' = Calls(c)
  <2>1. Contract!Make(c)
    BY <1>2, <1>3, <1>5, <1>6 DEF Contract!Make, Life
  <2> QED
    BY <2>1 DEF Contract!Next
<1>7. CASE /\ Life(c) \in {"live", "closing"} /\ Life(c)' = Life(c)
           /\ c \in Mutable => Calls(c) = 0
           /\ Calls(c)' = Calls(c) + 1
  <2>1. Contract!Invoke(c)
    BY <1>2, <1>3, <1>4, <1>7 DEF Contract!Invoke, Life
  <2> QED
    BY <2>1 DEF Contract!Next
<1>8. CASE /\ Calls(c) > 0 /\ Calls(c)' = Calls(c) - 1
           /\ Life(c)' = IF Life(c) = "closing" /\ Calls(c) = 1 THEN "dead" ELSE Life(c)
  <2>1. Contract!Leave(c)
    BY <1>2, <1>3, <1>4, <1>8 DEF Contract!Leave, Life
  <2> QED
    BY <2>1 DEF Contract!Next
<1>9. CASE /\ Life(c) = "live" /\ Calls(c)' = Calls(c)
           /\ Life(c)' = IF Calls(c) > 0 THEN "closing" ELSE "dead"
  <2>1. Contract!Release(c)
    BY <1>2, <1>3, <1>5, <1>9 DEF Contract!Release, Life
  <2> QED
    BY <2>1 DEF Contract!Next
<1>10. CASE Life(c)' = Life(c) /\ Calls(c)' = Calls(c)
  BY <1>4, <1>5, <1>10 DEF Contract!vars, Life
<1> QED
  BY <1>6, <1>7, <1>8, <1>9, <1>10

\* Every step of the glue is a step of the contract, or none.
LEMMA StepRefines == ASSUME Quiet, IInv, [Next]_vars PROVE [Contract!Next]_(Contract!vars)
<1>1. \A d \in Closures : Calls(d) \in Nat
  BY Vars, FramesType
<1>2. ASSUME NEW c \in Closures, Make(c) PROVE [Contract!Next]_(Contract!vars)
  <2>1. /\ handle[c] = "none" /\ env' = [env EXCEPT ![c] = "alive"]
        /\ handle' = [handle EXCEPT ![c] = "rust"] /\ \A d \in Closures : Same(d)
    BY <1>2, Unpushed DEF Make, Put, Same
  <2>2. env[c] = "none" /\ env'[c] = "alive" /\ handle'[c] = "rust"
    BY <2>1, Vars DEF IInv, Well, Living
  <2>3. \A d \in Closures : d # c => Life(d)' = Life(d)
    BY <2>1, Vars, LifeOf
  <2>4. Life(c) = "unborn" /\ Life(c)' = "live"
    BY <2>2, LifeOf
  <2> QED
    BY <1>1, <2>1, <2>3, <2>4, ContractMoves DEF Same
<1>3. ASSUME NEW c \in Closures, DropOwned(c) PROVE [Contract!Next]_(Contract!vars)
  <2>1. \A d \in Closures : d # c => Life(d)' = Life(d) /\ Calls(d)' = Calls(d)
    BY <1>3, DropOwnedEffect, Vars, LifeOf DEF Same
  <2>2. Life(c) = "live" /\ Calls(c)' = Calls(c)
    BY <1>3, DropOwnedEffect, LifeOf
  <2>3. Life(c)' = IF Calls(c) > 0 THEN "closing" ELSE "dead"
    BY <1>3, DropOwnedEffect, Vars, LifeOf
  <2> QED
    BY <1>1, <2>1, <2>2, <2>3, ContractMoves
<1>4. ASSUME NEW c \in Closures, DropBorrowed(c) PROVE [Contract!Next]_(Contract!vars)
  <2>1. /\ handle[c] = "rust" /\ c \notin stale /\ Calls(c) = 0 /\ env' = [env EXCEPT ![c] = "freed"]
        /\ handle' = [handle EXCEPT ![c] = "dropped"] /\ \A d \in Closures : Same(d)
    BY <1>4, Unpushed DEF DropBorrowed, Mine, Put, Same
  <2>2. env[c] = "alive" /\ env'[c] = "freed"
    BY <2>1, Vars DEF IInv, Well, Living
  <2>3. \A d \in Closures : d # c => Life(d)' = Life(d)
    BY <2>1, Vars, LifeOf
  <2>4. Life(c) = "live" /\ Life(c)' = "dead"
    BY <2>1, <2>2, LifeOf
  <2> QED
    BY <1>1, <2>1, <2>3, <2>4, ContractMoves DEF Same
<1>5. ASSUME NEW c \in Closures, Invoke(c) PROVE [Contract!Next]_(Contract!vars)
  <2>1. \A d \in Closures : Life(d)' = Life(d)
    BY <1>5, InvokeEffect, LifeOf
  <2>2. \A d \in Closures : d # c => Calls(d)' = Calls(d)
    BY <1>5, InvokeEffect DEF Same
  <2>3. CASE Calls(c)' = Calls(c)
    BY <1>1, <2>1, <2>2, <2>3, ContractMoves
  <2>4. CASE Calls(c)' = Calls(c) + 1 /\ env[c] = "alive" /\ (c \in Mutable => Calls(c) = 0)
    <3>1. Life(c) \in {"live", "closing"}
      BY <2>4, LifeOf
    <3> QED
      BY <1>1, <2>1, <2>2, <2>4, <3>1, ContractMoves
  <2> QED
    BY <1>5, <2>3, <2>4, InvokeEffect
<1>6. CASE Leave
  <2>1. PICK c \in Closures :
           /\ handle' = handle /\ env[c] = "alive" /\ Calls(c) \in Nat \ {0}
           /\ Calls(c)' = Calls(c) - 1
           /\ \A d \in Closures : d # c => Same(d)
           /\ IF handle[c] = "dropped" /\ Calls(c) = 1
              THEN c \notin stale /\ env' = [env EXCEPT ![c] = "dropping"]
              ELSE env' = env /\ Drops(c)' = Drops(c)
    BY <1>6, LeaveEffect
  <2>2. \A d \in Closures : d # c => Life(d)' = Life(d) /\ Calls(d)' = Calls(d)
    BY <2>1, Vars, LifeOf DEF Same
  <2>3. Life(c) = IF handle[c] = "dropped" THEN "closing" ELSE "live"
    BY <2>1, LifeOf
  <2>4. Life(c)' = IF handle[c] = "dropped" /\ Calls(c) = 1 THEN "dead" ELSE Life(c)
    BY <2>1, Vars, LifeOf
  <2>5. Life(c)' = IF Life(c) = "closing" /\ Calls(c) = 1 THEN "dead" ELSE Life(c)
    BY <2>3, <2>4
  <2> QED
    BY <1>1, <2>1, <2>2, <2>5, ContractMoves
<1>7. CASE Destroyed
  <2>1. PICK c \in Closures :
           /\ handle' = handle /\ env[c] = "dropping" /\ env' = [env EXCEPT ![c] = "freed"]
           /\ Calls(c)' = Calls(c) /\ Drops(c) = 1 /\ Drops(c)' = 0
           /\ \A d \in Closures : d # c => Same(d)
    BY <1>7, DestroyedEffect
  <2>2. \A d \in Closures : Life(d)' = Life(d) /\ Calls(d)' = Calls(d)
    BY <2>1, Vars, LifeOf DEF Same
  <2> QED
    BY <1>1, <2>2, ContractMoves
<1>8. ASSUME NEW c \in Closures, Finalize(c) PROVE [Contract!Next]_(Contract!vars)
  <2>1. handle' = handle /\ \A d \in Closures : d # c => Same(d)
    BY <1>8, FinalizeEffect
  <2>2. CASE env' = env /\ Same(c)
    <3>1. \A d \in Closures : Life(d)' = Life(d) /\ Calls(d)' = Calls(d)
      BY <2>1, <2>2, LifeOf DEF Same
    <3> QED
      BY <1>1, <3>1, ContractMoves
  <2>3. CASE /\ env[c] = "alive" /\ handle[c] = "js" /\ Calls(c) = 0
             /\ env' = [env EXCEPT ![c] = "dropping"] /\ Calls(c)' = 0
    <3>1. \A d \in Closures : d # c => Life(d)' = Life(d) /\ Calls(d)' = Calls(d)
      BY <2>1, <2>3, Vars, LifeOf DEF Same
    <3>2. Life(c) = "live" /\ Life(c)' = "dead"
      BY <2>3, Vars, LifeOf
    <3> QED
      BY <1>1, <2>3, <3>1, <3>2, ContractMoves
  <2> QED
    BY <1>8, <2>2, <2>3, FinalizeEffect
<1>9. ASSUME \A d \in Closures : Life(d)' = Life(d) /\ Calls(d)' = Calls(d)
      PROVE  [Contract!Next]_(Contract!vars)
  <2>1. [d \in Closures |-> Life(d)]' = [d \in Closures |-> Life(d)]
    BY <1>9
  <2>2. [d \in Closures |-> Calls(d)]' = [d \in Closures |-> Calls(d)]
    BY <1>9
  <2> QED
    BY <2>1, <2>2 DEF Contract!vars, Life
<1>10. ASSUME NEW c \in Closures, NEW to \in {"leaked", "js"}, GiveAway(c, to)
       PROVE  [Contract!Next]_(Contract!vars)
  <2>1. /\ handle[c] = "rust" /\ c \notin stale /\ env' = env
        /\ handle' = [handle EXCEPT ![c] = to]
    BY <1>10 DEF GiveAway, Mine, Put
  <2>2. env[c] = "alive" /\ handle'[c] = to
    BY <2>1, Vars DEF IInv, Well, Living
  <2>3. \A d \in Closures : Life(d)' = Life(d)
    BY <2>1, <2>2, Vars, LifeOf
  <2> QED
    BY <1>9, <1>10, <2>3, QuietSteps DEF Same
<1>11. ASSUME \/ \E c \in Closures : Forsake(c)
              \/ ScheduleReinit \/ Reset \/ UNCHANGED vars
       PROVE  [Contract!Next]_(Contract!vars)
  <2>1. env' = env /\ handle' = handle
    BY <1>11 DEF Forsake, ScheduleReinit, Reset, vars
  <2> QED
    BY <1>9, <1>11, <2>1, LifeOf, QuietSteps DEF Same
<1> QED
  <2>1. ASSUME NEW c \in Closures, \/ Make(c) \/ DropOwned(c) \/ DropBorrowed(c) \/ Invoke(c)
                                    \/ Forsake(c) \/ Finalize(c)
                                    \/ \E to \in {"leaked", "js"} : GiveAway(c, to)
        PROVE  [Contract!Next]_(Contract!vars)
    BY <1>2, <1>3, <1>4, <1>5, <1>8, <1>10, <1>11, <2>1
  <2> QED
    BY <1>6, <1>7, <1>11, <2>1 DEF Next

LEMMA InitRefines == Init => Contract!Init
<1> SUFFICES ASSUME Init PROVE Contract!Init
  OBVIOUS
<1>1. stack = <<>> /\ stack \in Seq(Kinds)
  BY DEF Init
<1>2. \A c \in Closures : Calls(c) = 0 /\ Life(c) = "unborn"
  BY <1>1, FramesType, LifeOf DEF Init
<1>3. /\ [c \in Closures |-> Life(c)] = [c \in Closures |-> "unborn"]
      /\ [c \in Closures |-> Calls(c)] = [c \in Closures |-> 0]
  BY <1>2
<1> QED
  BY <1>3 DEF Contract!Init, Life

\* The glue implements the reference-counting contract: a handle dropped while
\* the closure runs is deferred to the last invocation, and &mut is for one
\* invocation at once.
THEOREM Refinement == Quiet => (Spec => ImplementsContract)
<1> SUFFICES ASSUME Quiet PROVE Spec => ImplementsContract
  OBVIOUS
<1>1. IInv /\ [Next]_vars => [Contract!Next]_(Contract!vars)
  BY StepRefines
<1> QED
  BY <1>1, InitRefines, SpecInv, PTL DEF Spec, ImplementsContract, Contract!Spec
=============================================================================
