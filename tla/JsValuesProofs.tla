---------------------------- MODULE JsValuesProofs ----------------------------
(***************************************************************************)
(* Proofs about JsValues, for any values, a stack of any size and a slab   *)
(* that grows as far as one likes, in either build: as long as no          *)
(* conversion throws between two pushes of the glue, an index stands for   *)
(* its value until it is given back.                                       *)
(***************************************************************************)
EXTENDS JsValues, SequenceTheorems, FiniteSetTheorems, FunctionTheorems,
        WellFoundedInduction, TLAPS

\* The glue's stack is popped as far as it was pushed.
Calm == "heap" \in Modes => ~EarlyFailure

\* The slots of the slab that nobody has.
Free == {x \in 0..len - 1 : Base + x \notin DOMAIN names}

\* What the free list needs for being one, with no word of its order: it leads
\* from a free slot to a free slot or to the end, never back to its head, and
\* never from two slots to the same.
FreeList ==
  /\ \A h \in DOMAIN names : h < Top \/ h \in Base..Base + len - 1
  /\ head \in Free \cup {len}
  /\ \A x \in Free : link[x] \in Free \cup {len} /\ link[x] # head
  /\ \A x, y \in Free : link[x] = link[y] => x = y

\* Where the slots of a call end: where those of its caller begin.
Above(i) == IF i = 1 THEN Top ELSE frames[i - 1].fp

\* Calls lend slots one below the other, all of them at or above the pointer;
\* in the glue with no gap.
StackShape ==
  /\ \A i \in 1..Len(frames) : sp <= frames[i].fp /\ frames[i].fp + frames[i].n <= Top
  /\ \A i, j \in 1..Len(frames) : i < j => frames[j].fp + frames[j].n <= frames[i].fp
  /\ \A h \in Lent : \E i \in 1..Len(frames) : h \in Slots(frames[i].fp, frames[i].n)
  /\ sp <= Top
  /\ mode = "heap" =>
       /\ \A i \in 1..Len(frames) : frames[i].fp + frames[i].n = Above(i)
       /\ sp = Above(Len(frames) + 1)

IInv == TypeOK /\ FreeList /\ StackShape /\ HandlesHold

-----------------------------------------------------------------------------
LEMMA BaseType == Base = Top + 2 /\ Top \in Nat /\ Top > 0
BY JsValuesAssumption DEF Base, Fixed

LEMMA FixedCells == \A h \in Top..Base - 1 : Fixed[h - Top + 1] \in Cells
BY BaseType DEF Fixed, Cells

LEMMA EmptyType ==
  /\ Empty(Base) \in [0..Base - 1 -> Cells]
  /\ \A h \in Top..Base - 1 : Empty(Base)[h] = Fixed[h - Top + 1]
<1>1. Undefined \in Cells
  BY DEF Cells
<1>2. QED
  BY <1>1, BaseType, FixedCells DEF Empty

LEMMA InitInv == Init => IInv
<1> SUFFICES ASSUME Init PROVE IInv
  OBVIOUS
<1>1. TypeOK
  BY EmptyType, BaseType, JsValuesAssumption DEF Init, TypeOK
<1>2. FreeList
  BY BaseType DEF Init, FreeList, Free
<1>3. StackShape
  BY BaseType DEF Init, StackShape, Lent, Above
<1>4. HandlesHold
  BY EmptyType DEF Init, HandlesHold
<1> QED
  BY <1>1, <1>2, <1>3, <1>4 DEF IInv

-----------------------------------------------------------------------------
(***************************************************************************)
(* A value goes into the slab.                                             *)
(***************************************************************************)
LEMMA ExtraType == ASSUME TypeOK PROVE Extra \in Nat \ {0}
BY JsValuesAssumption DEF TypeOK, Extra

LEMMA AllocSlab ==
  ASSUME TypeOK, FreeList, NEW v \in Cells, Alloc(v, v), UNCHANGED mode
  PROVE  /\ len' \in len..len + 1 /\ len' \in 0..cap' /\ cap' \in cap..MaxSlots
         /\ link' \in [0..len' - 1 -> 0..len'] /\ head' \in 0..len'
         /\ head < len' /\ Base + head \notin DOMAIN names
         /\ DOMAIN names' = DOMAIN names \cup {Base + head}
         /\ \A h \in DOMAIN names' : names'[h] = IF h = Base + head THEN v ELSE names[h]
         /\ cell' = [i \in 0..Base + cap' - 1 |->
              IF i = Base + head THEN v ELSE IF i \in DOMAIN cell THEN cell[i] ELSE Undefined]
         /\ FreeList' /\ Free' = Free \ {head}
<1> DEFINE fresh == head = len
<1>1. /\ cap' = IF fresh /\ len = cap THEN cap + Extra ELSE cap
      /\ cap' <= MaxSlots
      /\ len' = IF fresh THEN len + 1 ELSE len
      /\ link' = IF fresh THEN [i \in 0..len |-> IF i = len THEN len + 1 ELSE link[i]] ELSE link
      /\ head' = link'[head]
      /\ names' = [h \in DOMAIN names \cup {Base + head} |->
                     IF h = Base + head THEN v ELSE names[h]]
      /\ cell' = [i \in 0..Base + cap' - 1 |->
           IF i = Base + head THEN v ELSE IF i \in DOMAIN cell THEN cell[i] ELSE Undefined]
  BY DEF Alloc, Pop, Store
<1>2. /\ len \in Nat /\ cap \in Nat /\ len <= cap /\ head \in 0..len
      /\ link \in [0..len - 1 -> 0..len] /\ MaxSlots \in Nat
  BY JsValuesAssumption DEF TypeOK
<1>3. Base + head \notin DOMAIN names /\ Base \in Nat
  BY <1>2, BaseType DEF FreeList, Free
<1>4. /\ len' \in len..len + 1 /\ len' \in 0..cap' /\ cap' \in cap..MaxSlots
      /\ head < len'
  BY <1>1, <1>2, ExtraType
<1>5. link' \in [0..len' - 1 -> 0..len']
  BY <1>1, <1>2
<1>6. head' \in 0..len'
  BY <1>1, <1>2, <1>4, <1>5
<1>7. Free' = Free \ {head}
  <2> SUFFICES ASSUME NEW x PROVE x \in Free' <=> x \in Free \ {head}
    OBVIOUS
  <2>1. x \in 0..len' - 1 <=> x \in 0..len - 1 \/ x = head
    BY <1>1, <1>2
  <2>2. ASSUME x \in 0..len' - 1
        PROVE Base + x \notin DOMAIN names' <=> Base + x \notin DOMAIN names /\ x # head
    BY <1>1, <1>2, <1>3, <1>4, <2>2
  <2> QED
    BY <2>1, <2>2, <1>2 DEF Free, Base
<1>8. FreeList'
  <2>1. \A h \in DOMAIN names' : h < Top \/ h \in Base..Base + len' - 1
    BY <1>1, <1>2, <1>3, <1>4 DEF FreeList
  <2>2. CASE fresh
    <3>1. \A x \in Free : link'[x] = link[x] /\ link[x] \in Free
      BY <2>2, <1>1, <1>2 DEF FreeList, Free
    <3>2. head' = len' /\ head \notin Free
      BY <2>2, <1>1, <1>2 DEF Free
    <3>3. len' \notin Free
      BY <2>2, <1>1, <1>2 DEF Free
    <3> QED
      BY <3>1, <3>2, <3>3, <2>1, <1>7, <1>3 DEF FreeList
  <2>3. CASE ~fresh
    <3>1. link' = link /\ len' = len /\ head \in Free /\ head' = link[head]
      BY <2>3, <1>1 DEF FreeList
    <3> QED
      BY <3>1, <2>1, <1>7, <1>3 DEF FreeList
  <2> QED
    BY <2>2, <2>3
<1> QED
  BY <1>1, <1>3, <1>4, <1>5, <1>6, <1>7, <1>8

LEMMA Shift ==
  ASSUME NEW b \in Int, NEW h \in Int, NEW x \in Int
  PROVE  b + x = h <=> x = h - b
OBVIOUS

LEMMA Widen ==
  ASSUME NEW b \in Nat, NEW c \in Nat, NEW d \in Nat, NEW x \in Nat, c <= d, x < d
  PROVE  0..b + c - 1 \subseteq 0..b + d - 1 /\ b + x \in 0..b + d - 1
OBVIOUS

LEMMA AllocInv ==
  ASSUME IInv, NEW v \in Cells, Alloc(v, v), UNCHANGED <<mode, sp, frames>>
  PROVE  IInv'
<1>1. UNCHANGED mode
  OBVIOUS
<1>2. /\ len' \in len..len + 1 /\ len' \in 0..cap' /\ cap' \in cap..MaxSlots
      /\ link' \in [0..len' - 1 -> 0..len'] /\ head' \in 0..len'
      /\ head < len' /\ Base + head \notin DOMAIN names
      /\ DOMAIN names' = DOMAIN names \cup {Base + head}
      /\ \A h \in DOMAIN names' : names'[h] = IF h = Base + head THEN v ELSE names[h]
      /\ cell' = [i \in 0..Base + cap' - 1 |->
           IF i = Base + head THEN v ELSE IF i \in DOMAIN cell THEN cell[i] ELSE Undefined]
      /\ FreeList'
  BY <1>1, AllocSlab DEF IInv
<1>3. /\ len \in Nat /\ cap \in Nat /\ len <= cap /\ head \in 0..len /\ Base \in Nat
      /\ Top \in Nat /\ Base = Top + 2 /\ cell \in [0..Base + cap - 1 -> Cells] /\ Undefined \in Cells
      /\ DOMAIN names \subseteq 0..Base + cap - 1 /\ \A h \in DOMAIN names : names[h] \in Cells
  BY BaseType DEF IInv, TypeOK, Cells
<1>a. 0..Base + cap - 1 \subseteq 0..Base + cap' - 1 /\ Base + head \in 0..Base + cap' - 1
  <2>1. cap' \in cap..MaxSlots /\ len' \in 0..cap' /\ head < len' /\ MaxSlots \in Nat
    BY <1>2, JsValuesAssumption
  <2>2. cap \in Nat /\ head \in Nat /\ Base \in Nat
    BY <1>3
  <2>3. cap' \in Nat /\ cap <= cap' /\ head < cap'
    BY <2>1, <2>2
  <2> QED
    BY <2>2, <2>3, Widen
<1>b. /\ DOMAIN cell = 0..Base + cap - 1
      /\ cell' = [i \in 0..Base + cap' - 1 |->
           IF i = Base + head THEN v ELSE IF i \in DOMAIN cell THEN cell[i] ELSE Undefined]
  BY <1>2, <1>3
<1>4. cell' \in [0..Base + cap' - 1 -> Cells]
  BY <1>b, <1>3
<1>5. \A h \in 0..Base + cap - 1 : h # Base + head => cell'[h] = cell[h]
  BY <1>a, <1>b
<1>6. cell'[Base + head] = v
  BY <1>a, <1>b
<1>7. TypeOK'
  <2>1. DOMAIN names' \subseteq DOMAIN cell' /\ \A h \in DOMAIN names' : names'[h] \in Cells
    BY <1>2, <1>3, <1>4, <1>a
  <2>2. len' \in 0..cap' /\ cap' \in 0..MaxSlots
    BY <1>2, <1>3, JsValuesAssumption
  <2>3. /\ mode \in Modes /\ sp \in Int /\ sp <= Base
        /\ frames \in Seq([fp : 0..Base, n : 1..MaxArgs])
    BY DEF IInv, TypeOK
  <2>4. mode' \in Modes /\ sp' \in Int /\ sp' <= Base
    BY <2>3
  <2>5. frames' \in Seq([fp : 0..Base, n : 1..MaxArgs])
    BY <2>3
  <2>6. link' \in [0..len' - 1 -> 0..len'] /\ head' \in 0..len'
    BY <1>2
  <2> QED
    BY <2>1, <2>2, <2>4, <2>5, <2>6, <1>4 DEF TypeOK
<1>8. HandlesHold'
  <2>1. \A h \in DOMAIN names' : cell'[h] = names'[h]
    BY <1>2, <1>3, <1>5, <1>6 DEF IInv, HandlesHold
  <2>2. \A h \in Top..Base - 1 : h \in 0..Base + cap - 1 /\ h # Base + head
    BY <1>3
  <2>3. \A h \in Top..Base - 1 : cell'[h] = Fixed[h - Top + 1]
    BY <2>2, <1>5 DEF IInv, HandlesHold
  <2> QED
    BY <2>1, <2>3 DEF HandlesHold
<1>9. StackShape'
  <2>1. Lent' = Lent
    BY <1>2, <1>3 DEF Lent
  <2> QED
    BY <2>1 DEF IInv, StackShape, Above
<1> QED
  BY <1>2, <1>7, <1>8, <1>9 DEF IInv

LEMMA OwnInv == ASSUME IInv, NEW v \in Values, Own(v) PROVE IInv'
<1>1. v \in Cells
  BY DEF Cells
<1> QED
  BY <1>1, AllocInv DEF Own

LEMMA CloneInv == ASSUME IInv, NEW h \in DOMAIN cell, CloneRef(h) PROVE IInv'
<1>1. CASE h \in DOMAIN names /\ Alloc(cell[h], names[h])
  <2>1. cell[h] = names[h] /\ names[h] \in Cells
    BY <1>1 DEF IInv, HandlesHold, TypeOK
  <2> QED
    BY <1>1, <2>1, AllocInv DEF CloneRef
<1>2. CASE h \in Top..Base - 1 /\ Alloc(cell[h], Fixed[h - Top + 1])
  <2>1. cell[h] = Fixed[h - Top + 1] /\ Fixed[h - Top + 1] \in Cells
    BY <1>2, FixedCells DEF IInv, HandlesHold
  <2> QED
    BY <1>2, <2>1, AllocInv DEF CloneRef
<1> QED
  BY <1>1, <1>2 DEF CloneRef

-----------------------------------------------------------------------------
(***************************************************************************)
(* A value leaves the slab.                                                *)
(***************************************************************************)
LEMMA ReleaseInv ==
  ASSUME IInv, NEW h \in DOMAIN cell, Release(h)
  PROVE  /\ IInv' /\ h - Base \in 0..len - 1
         /\ h - Base \notin Free /\ Free' = Free \cup {h - Base}
<1> DEFINE x0 == h - Base
<1>1. /\ h \in DOMAIN names /\ h >= Base
      /\ cell' = [cell EXCEPT ![h] = Undefined]
      /\ link' = [link EXCEPT ![x0] = head]
      /\ head' = x0
      /\ names' = [i \in DOMAIN names \ {h} |-> names[i]]
  BY DEF Release, Owned
<1>2. mode' = mode /\ len' = len /\ cap' = cap /\ sp' = sp /\ frames' = frames
  BY DEF Release
<1>3. /\ len \in Nat /\ cap \in Nat /\ len <= cap /\ head \in 0..len /\ Base \in Nat
      /\ Base = Top + 2 /\ Top \in Nat /\ link \in [0..len - 1 -> 0..len]
  BY BaseType, JsValuesAssumption DEF IInv, TypeOK
<1>0. h \in Int
  BY BaseType, JsValuesAssumption DEF IInv, TypeOK
<1>4. x0 \in 0..len - 1 /\ h = Base + x0 /\ h \in Base..Base + len - 1
  <2>1. h < Top \/ h \in Base..Base + len - 1
    BY <1>1 DEF IInv, FreeList
  <2> QED
    BY <2>1, <1>0, <1>1, <1>3
<1>5. cell \in [0..Base + cap - 1 -> Cells] /\ Undefined \in Cells
  BY DEF IInv, TypeOK, Cells
<1>6. TypeOK'
  <2>1. link' \in [0..len - 1 -> 0..len] /\ head' \in 0..len
    <3>1. head \in 0..len /\ x0 \in 0..len - 1 /\ x0 \in 0..len
      BY <1>3, <1>4
    <3> QED
      BY <3>1, <1>1, <1>3
  <2>2. cell' \in [0..Base + cap' - 1 -> Cells] /\ DOMAIN cell' = DOMAIN cell
    BY <1>1, <1>2, <1>5
  <2>3. DOMAIN names' \subseteq DOMAIN cell' /\ \A i \in DOMAIN names' : names'[i] \in Cells
    BY <1>1, <2>2 DEF IInv, TypeOK
  <2>4. /\ mode' \in Modes /\ len' \in 0..cap' /\ cap' \in 0..MaxSlots /\ sp' \in Int /\ sp' <= Base
        /\ frames' \in Seq([fp : 0..Base, n : 1..MaxArgs])
    BY <1>2 DEF IInv, TypeOK
  <2> QED
    BY <2>1, <2>2, <2>3, <2>4, <1>2 DEF TypeOK
<1>7. x0 \notin Free /\ Free' = Free \cup {x0}
  <2>1. x0 \notin Free
    BY <1>1, <1>4 DEF Free
  <2> SUFFICES ASSUME NEW x \in 0..len - 1 PROVE x \in Free' <=> x \in Free \cup {x0}
    BY <2>1, <1>2, <1>4 DEF Free
  <2>2. Base + x \in DOMAIN names' <=> Base + x \in DOMAIN names /\ x # x0
    <3>1. DOMAIN names' = DOMAIN names \ {h}
      BY <1>1
    <3>2. Base + x = h <=> x = x0
      <4>1. Base \in Int /\ x \in Int
        BY <1>3
      <4> QED
        BY <1>0, <4>1, Shift
    <3> HIDE DEF x0
    <3> QED
      BY <3>1, <3>2
  <2> QED
    BY <2>2, <1>2 DEF Free, Base
<1>8. FreeList'
  <2>1. \A i \in DOMAIN names' : i < Top \/ i \in Base..Base + len' - 1
    BY <1>1, <1>2 DEF IInv, FreeList
  <2>2. link'[x0] = head /\ \A x \in Free : link'[x] = link[x]
    BY <1>1, <1>3, <1>4, <1>7 DEF Free
  <2>3. head \in Free \cup {len} /\ x0 # len
    BY <1>3, <1>4 DEF IInv, FreeList
  <2>4. /\ \A x \in Free : link[x] \in Free \cup {len} /\ link[x] # head
        /\ \A x, y \in Free : link[x] = link[y] => x = y
    BY DEF IInv, FreeList
  <2>5. \A x \in Free' : link'[x] \in Free' \cup {len'} /\ link'[x] # head'
    BY <2>2, <2>3, <2>4, <1>7, <1>1, <1>2
  <2>6. \A x, y \in Free' : link'[x] = link'[y] => x = y
    BY <2>2, <2>4, <1>7
  <2>7. head' \in Free' \cup {len'}
    BY <1>1, <1>7
  <2> QED
    BY <2>1, <2>5, <2>6, <2>7 DEF FreeList
<1>9. HandlesHold'
  <2>1. \A i \in DOMAIN names' : cell'[i] = names'[i]
    BY <1>1, <1>5 DEF IInv, HandlesHold, TypeOK
  <2>2. \A i \in Top..Base - 1 : i # h
    BY <1>1, <1>3
  <2>3. \A i \in Top..Base - 1 : cell'[i] = Fixed[i - Top + 1]
    <3>1. \A i \in Top..Base - 1 : i \in 0..Base + cap - 1
      BY <1>3
    <3> QED
      BY <3>1, <2>2, <1>1, <1>5 DEF IInv, HandlesHold
  <2> QED
    BY <2>1, <2>3 DEF HandlesHold
<1>10. StackShape'
  <2>1. Lent' = Lent
    <3>1. ~(h < Top)
      BY <1>0, <1>1, <1>3
    <3> QED
      BY <3>1, <1>1 DEF Lent
  <2> QED
    BY <2>1, <1>2 DEF IInv, StackShape, Above
<1> QED
  BY <1>4, <1>6, <1>7, <1>8, <1>9, <1>10 DEF IInv

-----------------------------------------------------------------------------
(***************************************************************************)
(* The stack.  A lent slot is not below the pointer.                       *)
(***************************************************************************)
LEMMA FrameType ==
  ASSUME TypeOK
  PROVE  /\ Len(frames) \in Nat
         /\ \A i \in 1..Len(frames) :
              frames[i].fp \in 0..Base /\ frames[i].n \in 1..MaxArgs /\ frames[i].n \in Nat
<1>1. frames \in Seq([fp : 0..Base, n : 1..MaxArgs])
  BY DEF TypeOK
<1>2. Len(frames) \in Nat /\ \A i \in 1..Len(frames) : frames[i] \in [fp : 0..Base, n : 1..MaxArgs]
  BY <1>1, ElementOfSeq, LenProperties
<1>3. \A i \in 1..Len(frames) : frames[i].fp \in 0..Base /\ frames[i].n \in 1..MaxArgs
  BY <1>2
<1> QED
  BY <1>2, <1>3, JsValuesAssumption

LEMMA LentAbove == ASSUME TypeOK, StackShape PROVE \A h \in Lent : h >= sp /\ h < Top
<1> SUFFICES ASSUME NEW h \in Lent PROVE h >= sp /\ h < Top
  OBVIOUS
<1>0. \A g \in Lent : \E i \in 1..Len(frames) : g \in Slots(frames[i].fp, frames[i].n)
  BY DEF StackShape
<1>1. PICK i \in 1..Len(frames) : h \in Slots(frames[i].fp, frames[i].n)
  BY <1>0
<1>a. sp <= frames[i].fp
  BY DEF StackShape
<1>b. sp \in Int /\ Base \in Nat
  BY BaseType DEF TypeOK
<1>2. sp <= frames[i].fp /\ sp \in Int /\ frames[i].fp \in Int /\ frames[i].n \in Int
  BY <1>a, <1>b, FrameType
<1>3. h >= frames[i].fp /\ h \in Int
  BY <1>1, <1>2 DEF Slots
<1> QED
  BY <1>2, <1>3 DEF Lent

\* Overwriting slots of the stack that nobody has is seen by nobody.
LEMMA PaveInv ==
  ASSUME IInv, NEW from \in Int, NEW n \in Nat,
         from + n <= Top,
         cell' = [i \in DOMAIN cell |-> IF i \in Slots(from, n) THEN Undefined ELSE cell[i]],
         DOMAIN names' \subseteq DOMAIN names, \A h \in DOMAIN names' : names'[h] = names[h],
         \A h \in DOMAIN names' : h \notin Slots(from, n)
  PROVE  /\ cell' \in [0..Base + cap - 1 -> Cells]
         /\ DOMAIN names' \subseteq DOMAIN cell'
         /\ \A h \in DOMAIN names' : names'[h] \in Cells
         /\ HandlesHold'
<1>1. cell \in [0..Base + cap - 1 -> Cells] /\ Undefined \in Cells /\ DOMAIN cell = 0..Base + cap - 1
  BY DEF IInv, TypeOK, Cells
<1>2. cell' \in [0..Base + cap - 1 -> Cells] /\ DOMAIN cell' = DOMAIN cell
  BY <1>1
<1>3. DOMAIN names' \subseteq DOMAIN cell' /\ \A h \in DOMAIN names' : names'[h] \in Cells
  BY <1>2 DEF IInv, TypeOK
<1>4. \A h \in DOMAIN names' : cell'[h] = names'[h]
  BY <1>3, <1>2 DEF IInv, HandlesHold
<1>5. \A h \in Top..Base - 1 : h \notin Slots(from, n) /\ h \in 0..Base + cap - 1
  BY BaseType, JsValuesAssumption DEF Slots, IInv, TypeOK
<1>6. \A h \in Top..Base - 1 : cell'[h] = Fixed[h - Top + 1]
  BY <1>5, <1>1 DEF IInv, HandlesHold
<1> QED
  BY <1>2, <1>3, <1>4, <1>6 DEF HandlesHold

LEMMA EnterInv ==
  ASSUME IInv, NEW m \in 1..MaxArgs, NEW args \in [1..m -> Values], Enter(args)
  PROVE  IInv'
<1> DEFINE n == Len(args)
           fp == sp - n
           Arg(i) == args[IF mode = "heap" THEN fp + n - i ELSE i - fp + 1]
<1>1. /\ n > 0 /\ Room(n)
      /\ sp' = fp
      /\ frames' = Append(frames, [fp |-> fp, n |-> n])
      /\ cell' = [i \in DOMAIN cell |-> IF i \in Slots(fp, n) THEN Arg(i) ELSE cell[i]]
      /\ names' = [h \in DOMAIN names \cup Slots(fp, n) |->
                     IF h \in Slots(fp, n) THEN Arg(h) ELSE names[h]]
      /\ mode' = mode /\ link' = link /\ len' = len /\ cap' = cap /\ head' = head
  BY DEF Enter, slab
<1>2. m \in Nat /\ n = m /\ n \in 1..MaxArgs
  <2>1. m \in Nat
    BY JsValuesAssumption
  <2>2. n = m
    BY <2>1
  <2> QED
    BY <2>1, <2>2
<1>3. /\ sp \in Int /\ sp <= Top /\ fp \in Int /\ fp >= 0 /\ fp <= Top /\ fp + n = sp
      /\ Top \in Nat /\ Base \in Nat /\ Base = Top + 2 /\ n \in Nat
      /\ DOMAIN cell = 0..Base + cap - 1 /\ cap \in Nat
  <2>1. sp \in Int /\ sp <= Top /\ DOMAIN cell = 0..Base + cap - 1 /\ cap \in Nat
    BY JsValuesAssumption DEF IInv, TypeOK, StackShape
  <2>2. sp - n >= 0
    BY <1>1, <1>2, <2>1 DEF Room
  <2> QED
    BY <2>1, <2>2, <1>2, BaseType
<1> HIDE DEF n, fp
<1>4. \A h \in Slots(fp, n) : h \in Int /\ h >= 0 /\ h < sp /\ h < Top /\ h \in DOMAIN cell
  BY <1>3 DEF Slots
<1>5. \A h \in Slots(fp, n) : h \notin DOMAIN names
  <2>1. \A h \in DOMAIN names : h < Top => h >= sp
    BY LentAbove DEF IInv, Lent
  <2> QED
    BY <2>1, <1>4, <1>3
<1>6. \A h \in Slots(fp, n) : Arg(h) \in Values /\ Arg(h) \in Cells
  <2> TAKE h \in Slots(fp, n)
  <2>1. h \in Int /\ h >= fp /\ h <= fp + n - 1
    BY <1>3 DEF Slots
  <2>2. fp + n - h \in 1..m /\ h - fp + 1 \in 1..m
    BY <2>1, <1>2, <1>3
  <2>3. Arg(h) \in Values
    BY <2>2
  <2> QED
    BY <2>3 DEF Cells
<1> HIDE DEF Arg
<1>7. \A h \in DOMAIN cell : cell'[h] = IF h \in Slots(fp, n) THEN Arg(h) ELSE cell[h]
  BY <1>1
<1>8. \A h \in DOMAIN names' : names'[h] = IF h \in Slots(fp, n) THEN Arg(h) ELSE names[h]
  BY <1>1
<1>9. DOMAIN names' = DOMAIN names \cup Slots(fp, n)
  BY <1>1
<1>10. TypeOK'
  <2>1. cell' \in [0..Base + cap' - 1 -> Cells]
    <3>1. \A h \in 0..Base + cap - 1 : cell[h] \in Cells
      BY DEF IInv, TypeOK
    <3> QED
      BY <3>1, <1>1, <1>3, <1>6
  <2>2. DOMAIN names' \subseteq DOMAIN cell'
    BY <1>1, <1>4 DEF IInv, TypeOK
  <2>3. \A h \in DOMAIN names' : names'[h] \in Cells
    BY <1>8, <1>9, <1>6 DEF IInv, TypeOK
  <2>4. frames' \in Seq([fp : 0..Base, n : 1..MaxArgs])
    <3>1. fp \in 0..Base
      BY <1>3
    <3>2. [fp |-> fp, n |-> n] \in [fp : 0..Base, n : 1..MaxArgs]
      BY <3>1, <1>2
    <3>3. frames \in Seq([fp : 0..Base, n : 1..MaxArgs])
      BY DEF IInv, TypeOK
    <3> QED
      BY <3>2, <3>3, <1>1, AppendProperties
  <2>5. sp' \in Int /\ sp' <= Base
    BY <1>1, <1>3
  <2>6. /\ mode' \in Modes /\ len' \in 0..cap' /\ cap' \in 0..MaxSlots /\ head' \in 0..len'
        /\ link' \in [0..len' - 1 -> 0..len']
    BY <1>1 DEF IInv, TypeOK
  <2> QED
    BY <2>1, <2>2, <2>3, <2>4, <2>5, <2>6 DEF TypeOK
<1>11. FreeList'
  <2>1. Free' = Free
    <3>1. \A x \in 0..len - 1 : Base + x \notin Slots(fp, n)
      BY <1>3 DEF Slots
    <3> QED
      BY <3>1, <1>1, <1>9 DEF Free, Base
  <2>2. \A h \in DOMAIN names' : h < Top \/ h \in Base..Base + len' - 1
    BY <1>1, <1>9, <1>4 DEF IInv, FreeList
  <2> QED
    BY <2>1, <2>2, <1>1 DEF IInv, FreeList
<1>12. HandlesHold'
  <2>1. \A h \in DOMAIN names' : cell'[h] = names'[h]
    BY <1>7, <1>8, <1>9, <1>4 DEF IInv, HandlesHold, TypeOK
  <2>2. \A h \in Top..Base - 1 : cell'[h] = Fixed[h - Top + 1]
    <3>1. \A h \in Top..Base - 1 : h \notin Slots(fp, n) /\ h \in DOMAIN cell
      BY <1>3 DEF Slots
    <3> QED
      BY <3>1, <1>7 DEF IInv, HandlesHold
  <2> QED
    BY <2>1, <2>2 DEF HandlesHold
<1>13. StackShape'
  <2> DEFINE k == Len(frames)
  <2>1. /\ frames \in Seq([fp : 0..Base, n : 1..MaxArgs]) /\ k \in Nat
        /\ Len(frames') = k + 1
        /\ \A i \in 1..k : frames'[i] = frames[i]
        /\ frames'[k + 1] = [fp |-> fp, n |-> n]
    BY <1>1, AppendProperties, FrameType DEF IInv, TypeOK
  <2>2. frames'[k + 1].fp = fp /\ frames'[k + 1].n = n
    BY <2>1
  <2>3. /\ \A i \in 1..k : sp <= frames[i].fp /\ frames[i].fp + frames[i].n <= Top
        /\ \A i, j \in 1..k : i < j => frames[j].fp + frames[j].n <= frames[i].fp
        /\ \A h \in Lent : \E i \in 1..k : h \in Slots(frames[i].fp, frames[i].n)
    BY DEF IInv, StackShape
  <2>4. \A i \in 1..k : frames[i].fp \in Nat /\ frames[i].n \in Nat
    BY FrameType, BaseType DEF IInv
  <2>5. \A i \in 1..k + 1 : i \in 1..k \/ i = k + 1
    BY <2>1
  <2>6. \A i \in 1..k + 1 : sp' <= frames'[i].fp /\ frames'[i].fp + frames'[i].n <= Top
    BY <2>1, <2>2, <2>3, <2>4, <2>5, <1>1, <1>3
  <2>7. \A i, j \in 1..k + 1 : i < j => frames'[j].fp + frames'[j].n <= frames'[i].fp
    <3> TAKE i, j \in 1..k + 1
    <3> HAVE i < j
    <3>1. i \in 1..k
      BY <2>1
    <3>2. CASE j \in 1..k
      BY <3>1, <3>2, <2>1, <2>3
    <3>3. CASE j = k + 1
      BY <3>1, <3>3, <2>1, <2>2, <2>3, <1>3
    <3> QED
      BY <3>2, <3>3, <2>5
  <2>8. \A h \in Lent' : \E i \in 1..k + 1 : h \in Slots(frames'[i].fp, frames'[i].n)
    <3> TAKE h \in Lent'
    <3>1. CASE h \in Slots(fp, n)
      BY <3>1, <2>2, <2>1
    <3>2. CASE h \in Lent
      <4>1. PICK i \in 1..k : h \in Slots(frames[i].fp, frames[i].n)
        BY <2>3, <3>2
      <4> QED
        BY <4>1, <2>1
    <3> QED
      BY <3>1, <3>2, <1>9 DEF Lent
  <2>9. ASSUME mode' = "heap"
        PROVE  /\ \A i \in 1..k + 1 :
                    frames'[i].fp + frames'[i].n = IF i = 1 THEN Top ELSE frames'[i - 1].fp
               /\ sp' = frames'[k + 1].fp
    <3>1. /\ \A i \in 1..k : frames[i].fp + frames[i].n = IF i = 1 THEN Top ELSE frames[i - 1].fp
          /\ sp = IF k = 0 THEN Top ELSE frames[k].fp
      <4>1. k + 1 = 1 <=> k = 0
        BY <2>1
      <4>2. k + 1 - 1 = k
        BY <2>1
      <4>3. /\ \A i \in 1..k : frames[i].fp + frames[i].n = Above(i)
            /\ sp = Above(k + 1)
        BY <2>9, <1>1 DEF IInv, StackShape
      <4>4. Above(k + 1) = IF k = 0 THEN Top ELSE frames[k].fp
        BY <4>1, <4>2 DEF Above
      <4> QED
        BY <4>3, <4>4 DEF Above
    <3>2. \A i \in 1..k : i # 1 => frames'[i - 1] = frames[i - 1]
      <4>1. \A i \in 1..k : i # 1 => i - 1 \in 1..k
        BY <2>1
      <4>2. \A i \in 1..k : frames'[i] = frames[i]
        BY <2>1
      <4> QED
        BY <4>1, <4>2
    <3>3. fp + n = IF k = 0 THEN Top ELSE frames'[k].fp
      <4>1. k # 0 => k \in 1..k
        BY <2>1
      <4> QED
        BY <4>1, <3>1, <2>1, <1>3
    <3>4. sp' = frames'[k + 1].fp
      BY <1>1, <2>2
    <3>5. ASSUME NEW i \in 1..k + 1
          PROVE frames'[i].fp + frames'[i].n = IF i = 1 THEN Top ELSE frames'[i - 1].fp
      <4>1. CASE i = k + 1
        <5>1. i - 1 = k /\ (i = 1 <=> k = 0)
          BY <4>1, <2>1
        <5> QED
          BY <5>1, <4>1, <3>3, <2>2
      <4>2. CASE i \in 1..k
        BY <4>2, <3>1, <3>2, <2>1
      <4> QED
        BY <4>1, <4>2, <2>5
    <3> QED
      BY <3>4, <3>5
  <2>10. sp' <= Top
    BY <1>1, <1>3
  <2> QED
    <3>1. Len(frames') = k + 1 /\ k + 1 + 1 # 1 /\ k + 1 + 1 - 1 = k + 1
      BY <2>1
    <3> HIDE DEF k
    <3> QED
      BY <3>1, <2>6, <2>7, <2>8, <2>9, <2>10 DEF StackShape, Above
<1> QED
  BY <1>10, <1>11, <1>12, <1>13 DEF IInv

\* The frame of a call that is over; in the glue the pointer is at its end.
LEMMA LeaveFrame ==
  ASSUME IInv, NEW f \in Range(frames), Leave(f)
  PROVE  /\ f.fp \in Int /\ f.n \in Nat /\ sp \in Int
         /\ sp <= f.fp /\ f.fp + f.n <= Top
         /\ mode = "heap" => sp = f.fp
<1> DEFINE k == Len(frames)
<1>1. frames # <<>> /\ f = frames[k]
  BY DEF Leave, Last
<1>2. frames \in Seq([fp : 0..Base, n : 1..MaxArgs])
  BY DEF IInv, TypeOK
<1>3. k \in Nat /\ k # 0 /\ k \in 1..k
  BY <1>1, <1>2, EmptySeq, LenProperties
<1>4. sp <= frames[k].fp /\ frames[k].fp + frames[k].n <= Top
  BY <1>3 DEF IInv, StackShape
<1>5. frames[k].fp \in 0..Base /\ frames[k].n \in Nat /\ Base \in Nat /\ sp \in Int
  <2>1. \A i \in 1..k : frames[i].fp \in 0..Base /\ frames[i].n \in Nat
    BY FrameType DEF IInv
  <2>2. Base \in Nat /\ sp \in Int
    BY BaseType DEF IInv, TypeOK
  <2> QED
    BY <1>3, <2>1, <2>2
<1>6. mode = "heap" => sp = frames[k].fp
  <2>1. mode = "heap" => sp = Above(k + 1)
    BY DEF IInv, StackShape
  <2>2. k + 1 # 1 /\ k + 1 - 1 = k
    BY <1>3
  <2> QED
    BY <2>1, <2>2 DEF Above
<1> QED
  BY <1>1, <1>4, <1>5, <1>6

\* The calls that remain, when the pointer goes where it was or stays below.
LEMMA LeaveShape ==
  ASSUME IInv, NEW f \in Range(frames), Leave(f),
         sp' \in Int, sp' <= f.fp + f.n,
         mode' = mode, mode = "heap" => sp' = sp + f.n
  PROVE  frames' \in Seq([fp : 0..Base, n : 1..MaxArgs]) /\ StackShape'
<1> DEFINE k == Len(frames)
<1>1. /\ frames # <<>> /\ f = frames[k] /\ frames' = SubSeq(frames, 1, k - 1)
      /\ names' = [h \in DOMAIN names \ Slots(f.fp, f.n) |-> names[h]]
  BY DEF Leave, Last, Front
<1>2. /\ frames \in Seq([fp : 0..Base, n : 1..MaxArgs]) /\ k \in Nat /\ k # 0
      /\ \A i \in 1..k : frames[i] \in [fp : 0..Base, n : 1..MaxArgs]
  <2>1. frames \in Seq([fp : 0..Base, n : 1..MaxArgs])
    BY DEF IInv, TypeOK
  <2> QED
    BY <2>1, <1>1, EmptySeq, LenProperties, ElementOfSeq
<1>3. /\ Len(frames') = k - 1
      /\ \A i \in 1..k - 1 : frames'[i] = frames[i]
      /\ frames' \in Seq([fp : 0..Base, n : 1..MaxArgs])
  <2>1. \A i \in 1..k - 1 : frames[i] \in [fp : 0..Base, n : 1..MaxArgs]
    BY <1>2
  <2>2. 1 \in Int /\ k - 1 \in Int /\ k - 1 - 1 + 1 = k - 1
    BY <1>2
  <2>3. /\ SubSeq(frames, 1, k - 1) \in Seq([fp : 0..Base, n : 1..MaxArgs])
        /\ Len(SubSeq(frames, 1, k - 1)) = IF 1 <= k - 1 THEN k - 1 - 1 + 1 ELSE 0
        /\ \A i \in 1..k - 1 - 1 + 1 : SubSeq(frames, 1, k - 1)[i] = frames[1 + i - 1]
    BY <2>1, <2>2, SubSeqProperties
  <2>4. Len(frames') = k - 1
    BY <2>3, <2>2, <1>1, <1>2
  <2>5. \A i \in 1..k - 1 : 1 + i - 1 = i
    BY <1>2
  <2>6. \A i \in 1..k - 1 : frames'[i] = frames[i]
    BY <2>3, <2>2, <2>5, <1>1
  <2> QED
    BY <2>3, <2>4, <2>6, <1>1
<1>4. /\ \A i \in 1..k : sp <= frames[i].fp /\ frames[i].fp + frames[i].n <= Top
      /\ \A i, j \in 1..k : i < j => frames[j].fp + frames[j].n <= frames[i].fp
      /\ \A h \in Lent : \E i \in 1..k : h \in Slots(frames[i].fp, frames[i].n)
  BY DEF IInv, StackShape
<1>5. k \in 1..k /\ \A i \in 1..k - 1 : i \in 1..k /\ i < k
  BY <1>2
<1>6. /\ \A i \in 1..k : frames[i].fp \in 0..Base /\ frames[i].n \in 1..MaxArgs
                         /\ frames[i].fp \in Int /\ frames[i].n \in Nat
      /\ sp \in Int /\ Top \in Nat
  <2>1. \A i \in 1..k : frames[i].fp \in 0..Base /\ frames[i].n \in 1..MaxArgs /\ frames[i].n \in Nat
    BY FrameType DEF IInv
  <2>2. sp \in Int /\ Top \in Nat /\ Base \in Nat
    BY BaseType DEF IInv, TypeOK
  <2> QED
    BY <2>1, <2>2
<1>7. f.fp \in Int /\ f.n \in Nat /\ f.fp + f.n <= Top
  BY LeaveFrame
<1>8. ASSUME mode = "heap"
      PROVE  /\ sp = f.fp
             /\ \A i \in 1..k :
                  frames[i].fp + frames[i].n = IF i = 1 THEN Top ELSE frames[i - 1].fp
  <2>1. /\ \A i \in 1..k : frames[i].fp + frames[i].n = Above(i)
        /\ sp = Above(k + 1)
    BY <1>8 DEF IInv, StackShape
  <2>2. k + 1 # 1 /\ k + 1 - 1 = k
    BY <1>2
  <2> QED
    BY <2>1, <2>2, <1>1 DEF Above
<1> HIDE DEF k
<1>9. StackShape'
  <2>1. \A i \in 1..k - 1 : sp' <= frames'[i].fp /\ frames'[i].fp + frames'[i].n <= Top
    <3> TAKE i \in 1..k - 1
    <3>1. frames[k].fp + frames[k].n <= frames[i].fp
      BY <1>4, <1>5
    <3>2. sp' <= frames[i].fp
      BY <3>1, <1>1, <1>6, <1>5
    <3> QED
      BY <3>2, <1>3, <1>4, <1>5
  <2>2. \A i, j \in 1..k - 1 : i < j => frames'[j].fp + frames'[j].n <= frames'[i].fp
    BY <1>3, <1>4, <1>5
  <2>3. \A h \in Lent' : \E i \in 1..k - 1 : h \in Slots(frames'[i].fp, frames'[i].n)
    <3> TAKE h \in Lent'
    <3>1. h \in Lent /\ h \notin Slots(f.fp, f.n)
      BY <1>1 DEF Lent
    <3>2. PICK i \in 1..k : h \in Slots(frames[i].fp, frames[i].n)
      BY <3>1, <1>4
    <3>3. i # k
      BY <3>1, <3>2, <1>1
    <3>4. i \in 1..k - 1
      BY <3>3, <1>2
    <3> QED
      BY <3>2, <3>4, <1>3
  <2>4. sp' <= Top
    BY <1>6, <1>7
  <2>5. ASSUME mode' = "heap"
        PROVE  /\ \A i \in 1..k - 1 :
                    frames'[i].fp + frames'[i].n = IF i = 1 THEN Top ELSE frames'[i - 1].fp
               /\ sp' = IF k - 1 = 0 THEN Top ELSE frames'[k - 1].fp
    <3>1. /\ \A i \in 1..k : frames[i].fp + frames[i].n = IF i = 1 THEN Top ELSE frames[i - 1].fp
          /\ sp' = frames[k].fp + frames[k].n
      BY <2>5, <1>8, <1>1
    <3>2. \A i \in 1..k - 1 : i # 1 => i - 1 \in 1..k - 1
      BY <1>2
    <3>3. \A i \in 1..k - 1 : i # 1 => frames'[i - 1] = frames[i - 1]
      BY <3>2, <1>3
    <3>4. k - 1 # 0 => k # 1 /\ k - 1 \in 1..k - 1
      BY <1>2
    <3>5. k - 1 = 0 => k = 1
      BY <1>2
    <3>6. sp' = IF k = 1 THEN Top ELSE frames[k - 1].fp
      BY <3>1, <1>5
    <3>7. sp' = IF k - 1 = 0 THEN Top ELSE frames'[k - 1].fp
      BY <3>4, <3>5, <3>6, <1>3
    <3> QED
      BY <3>1, <3>3, <3>7, <1>3, <1>5
  <2>6. Len(frames') = k - 1 /\ (k - 1 + 1 = 1 <=> k - 1 = 0) /\ k - 1 + 1 - 1 = k - 1
    BY <1>2, <1>3
  <2> QED
    BY <2>1, <2>2, <2>3, <2>4, <2>5, <2>6 DEF StackShape, Above
<1> QED
  BY <1>3, <1>7, <1>8, <1>9

\* What happens on the stack is not seen in the slab.
LEMMA SlabKept ==
  ASSUME IInv, UNCHANGED slab, DOMAIN names' \subseteq DOMAIN names,
         \A h \in DOMAIN names : h \in DOMAIN names' \/ ~(h >= Top)
  PROVE  FreeList'
<1>1. link' = link /\ len' = len /\ head' = head
  BY DEF slab
<1>2. \A x \in 0..len - 1 : Base + x \in DOMAIN names' <=> Base + x \in DOMAIN names
  <2>1. \A x \in 0..len - 1 : Base + x >= Top
    BY BaseType, JsValuesAssumption DEF IInv, TypeOK
  <2> QED
    BY <2>1
<1>3. Free' = Free
  BY <1>1, <1>2 DEF Free, Base
<1> QED
  BY <1>1, <1>3 DEF IInv, FreeList, Base

LEMMA ReturnInv == ASSUME IInv, Return \/ Throw PROVE IInv'
<1>1. PICK f \in Range(frames) :
        /\ Leave(f)
        /\ \/ Pave(IF mode = "heap" THEN sp ELSE f.fp, f.n)
           \/ mode # "heap" /\ UNCHANGED <<cell, sp>>
        /\ UNCHANGED <<mode, slab>>
  BY DEF Return, Throw
<1>2. /\ f.fp \in Int /\ f.n \in Nat /\ sp \in Int
      /\ sp <= f.fp /\ f.fp + f.n <= Top
      /\ mode = "heap" => sp = f.fp
  BY <1>1, LeaveFrame
<1>3. /\ names' = [h \in DOMAIN names \ Slots(f.fp, f.n) |-> names[h]]
      /\ mode' = mode /\ link' = link /\ len' = len /\ cap' = cap /\ head' = head
  BY <1>1 DEF Leave, slab
<1>4. \/ /\ cell' = [i \in DOMAIN cell |-> IF i \in Slots(f.fp, f.n) THEN Undefined ELSE cell[i]]
         /\ sp' = f.fp + f.n
      \/ mode # "heap" /\ cell' = cell /\ sp' = sp
  BY <1>1, <1>2 DEF Pave
<1>5. sp' \in Int /\ sp' <= f.fp + f.n /\ (mode = "heap" => sp' = sp + f.n)
  BY <1>2, <1>4
<1>6. frames' \in Seq([fp : 0..Base, n : 1..MaxArgs]) /\ StackShape'
  BY <1>1, <1>3, <1>5, LeaveShape
<1>7. /\ cell' \in [0..Base + cap - 1 -> Cells]
      /\ DOMAIN names' \subseteq DOMAIN cell'
      /\ \A h \in DOMAIN names' : names'[h] \in Cells
      /\ HandlesHold'
  <2>1. /\ DOMAIN names' \subseteq DOMAIN names /\ \A h \in DOMAIN names' : names'[h] = names[h]
        /\ \A h \in DOMAIN names' : h \notin Slots(f.fp, f.n)
    BY <1>3
  <2>2. CASE cell' = [i \in DOMAIN cell |-> IF i \in Slots(f.fp, f.n) THEN Undefined ELSE cell[i]]
    BY <2>1, <2>2, <1>2, PaveInv
  <2>3. CASE cell' = cell
    BY <2>1, <2>3 DEF IInv, TypeOK, HandlesHold
  <2> QED
    BY <2>2, <2>3, <1>4
<1>8. TypeOK'
  <2>1. sp' <= Base
    BY <1>2, <1>5, BaseType
  <2>2. /\ mode' \in Modes /\ len' \in 0..cap' /\ cap' \in 0..MaxSlots /\ head' \in 0..len'
        /\ link' \in [0..len' - 1 -> 0..len']
    BY <1>3 DEF IInv, TypeOK
  <2> QED
    BY <2>1, <2>2, <1>3, <1>5, <1>6, <1>7 DEF TypeOK
<1>9. FreeList'
  <2>1. \A h \in Slots(f.fp, f.n) : ~(h >= Top)
    BY <1>2, BaseType DEF Slots
  <2>2. UNCHANGED slab /\ DOMAIN names' = DOMAIN names \ Slots(f.fp, f.n)
    BY <1>3 DEF slab
  <2> QED
    BY <2>1, <2>2, SlabKept
<1> QED
  BY <1>6, <1>7, <1>8, <1>9 DEF IInv

LEMMA OverflowInv == ASSUME IInv, NEW n \in 1..MaxArgs, Overflow(n) PROVE IInv'
<1>1. /\ mode = "externref" /\ n \in Nat /\ n > 0 /\ sp' = sp - n
      /\ mode' = mode /\ cell' = cell /\ frames' = frames /\ names' = names
      /\ link' = link /\ len' = len /\ cap' = cap /\ head' = head
  BY JsValuesAssumption DEF Overflow, slab
<1>2. sp \in Int /\ sp <= Top /\ Base = Top + 2 /\ Top \in Nat
  BY BaseType DEF IInv, TypeOK, StackShape
<1>3. sp' \in Int /\ sp' <= sp /\ sp' <= Top /\ sp' <= Base
  BY <1>1, <1>2
<1>4. TypeOK'
  BY <1>1, <1>3 DEF IInv, TypeOK
<1>5. FreeList' /\ HandlesHold'
  BY <1>1 DEF IInv, FreeList, Free, HandlesHold, Base
<1>6. StackShape'
  <2>1. \A i \in 1..Len(frames) : sp' <= frames[i].fp
    <3> TAKE i \in 1..Len(frames)
    <3>1. sp <= frames[i].fp /\ frames[i].fp \in Int
      BY FrameType, <1>2 DEF IInv, StackShape
    <3> QED
      BY <3>1, <1>2, <1>3
  <2>2. mode # "heap" /\ Lent' = Lent
    BY <1>1 DEF Lent
  <2> QED
    BY <2>1, <2>2, <1>1, <1>3 DEF IInv, StackShape
<1> QED
  BY <1>4, <1>5, <1>6 DEF IInv

LEMMA RefuseInv ==
  ASSUME Calm, IInv, NEW n \in 1..MaxArgs, NEW done \in 0..n, Refuse(n, done)
  PROVE  IInv'
<1>1. mode = "heap" /\ mode \in Modes
  BY DEF Refuse, IInv, TypeOK
<1>2. done = n /\ n \in Nat
  BY <1>1, JsValuesAssumption DEF Refuse, Calm
<1>3. sp \in Int /\ sp <= Top /\ sp - n + n = sp /\ sp - n \in Int
  BY <1>2 DEF IInv, TypeOK, StackShape
<1>4. /\ cell' = [i \in DOMAIN cell |-> IF i \in Slots(sp - n, n) THEN Undefined ELSE cell[i]]
      /\ sp' = sp
      /\ mode' = mode /\ frames' = frames /\ names' = names
      /\ link' = link /\ len' = len /\ cap' = cap /\ head' = head
  BY <1>2, <1>3 DEF Refuse, slab
<1>5. \A h \in DOMAIN names' : h \notin Slots(sp - n, n)
  <2>1. \A h \in DOMAIN names : h < Top => h >= sp
    BY LentAbove DEF IInv, Lent
  <2>2. \A h \in Slots(sp - n, n) : h \in Int /\ ~(h >= sp) /\ h < Top
    BY <1>2, <1>3, BaseType DEF Slots
  <2> QED
    BY <2>1, <2>2, <1>4
<1>6. /\ cell' \in [0..Base + cap - 1 -> Cells]
      /\ DOMAIN names' \subseteq DOMAIN cell'
      /\ \A h \in DOMAIN names' : names'[h] \in Cells
      /\ HandlesHold'
  BY <1>2, <1>3, <1>4, <1>5, PaveInv
<1>7. TypeOK'
  BY <1>4, <1>6 DEF IInv, TypeOK
<1>8. FreeList'
  BY <1>4 DEF IInv, FreeList, Free, Base
<1>9. StackShape'
  BY <1>4 DEF IInv, StackShape, Lent, Above
<1> QED
  BY <1>6, <1>7, <1>8, <1>9 DEF IInv

LEMMA ResetInv == ASSUME IInv, Reset PROVE IInv'
<1>1. /\ frames = <<>> /\ cell' = Empty(Base) /\ link' = <<>> /\ len' = 0 /\ cap' = 0 /\ head' = 0
      /\ sp' = Top /\ names' = <<>> /\ mode' = mode /\ frames' = <<>>
  BY DEF Reset
<1>2. mode' \in Modes
  BY <1>1 DEF IInv, TypeOK
<1>3. TypeOK'
  BY <1>1, <1>2, EmptyType, BaseType, JsValuesAssumption DEF TypeOK
<1>4. FreeList'
  BY <1>1, BaseType DEF FreeList, Free
<1>5. StackShape'
  BY <1>1, BaseType DEF StackShape, Lent, Above
<1>6. HandlesHold'
  BY <1>1, EmptyType DEF HandlesHold
<1> QED
  BY <1>3, <1>4, <1>5, <1>6 DEF IInv

LEMMA NextInv == ASSUME Calm, IInv, Next PROVE IInv'
<1>1. CASE \E v \in Values : Own(v)
  BY <1>1, OwnInv
<1>2. CASE \E h \in DOMAIN cell : CloneRef(h) \/ Release(h)
  BY <1>2, CloneInv, ReleaseInv
<1>3. ASSUME NEW n \in 1..MaxArgs, \E args \in [1..n -> Values] : Enter(args) PROVE IInv'
  BY <1>3, EnterInv
<1>4. ASSUME NEW n \in 1..MaxArgs, Overflow(n) PROVE IInv'
  BY <1>4, OverflowInv
<1>5. ASSUME NEW n \in 1..MaxArgs, \E done \in 0..n : Refuse(n, done) PROVE IInv'
  BY <1>5, RefuseInv
<1>6. CASE Return \/ Throw
  BY <1>6, ReturnInv
<1>7. CASE Reset
  BY <1>7, ResetInv
<1> QED
  BY <1>1, <1>2, <1>3, <1>4, <1>5, <1>6, <1>7 DEF Next

LEMMA StutterInv == ASSUME IInv, UNCHANGED vars PROVE IInv'
BY DEF vars, IInv, TypeOK, FreeList, Free, StackShape, Lent, Above, HandlesHold, Base, Fixed

\* The slab and the stack stay in shape: what the invariants rest on.
THEOREM Inductive == ASSUME Calm PROVE Spec => []IInv
<1>1. IInv /\ [Next]_vars => IInv'
  BY NextInv, StutterInv
<1> QED
  BY <1>1, InitInv, PTL DEF Spec

\* Table, free list, pointer and frames keep their types.
THEOREM TypeCorrect == ASSUME Calm PROVE Spec => []TypeOK
<1>1. IInv => TypeOK
  BY DEF IInv
<1> QED
  BY <1>1, Inductive, PTL

\* Every index that Rust holds stands for the value it was made from, however
\* values come, go, are lent and cloned, calls throw and shims overflow.
THEOREM HandlesAlwaysHold == ASSUME Calm PROVE Spec => []HandlesHold
<1>1. IInv => HandlesHold
  BY DEF IInv
<1> QED
  BY <1>1, Inductive, PTL

-----------------------------------------------------------------------------
(***************************************************************************)
(* The contract of the table, read from its slots.                         *)
(***************************************************************************)
Read == [h \in DOMAIN names |-> cell[h]]

LEMMA Gives ==
  ASSUME IInv, IInv', NEW S,
         DOMAIN names' = DOMAIN names \cup S, S # {}, \A h \in S : h \notin DOMAIN names,
         \A h \in DOMAIN names : names'[h] = names[h]
  PROVE  Contract!Give
<1>1. \A h \in DOMAIN names : cell'[h] = cell[h]
  BY DEF IInv, HandlesHold
<1>2. DOMAIN Read = DOMAIN names /\ DOMAIN Read' = DOMAIN names \cup S
  BY DEF Read
<1>3. \A h \in DOMAIN names : Read'[h] = Read[h]
  BY <1>1 DEF Read
<1> QED
  BY <1>2, <1>3 DEF Contract!Give, Contract!Kept, Read

LEMMA TakesBack ==
  ASSUME IInv, IInv', DOMAIN names' \subseteq DOMAIN names,
         \A h \in DOMAIN names' : names'[h] = names[h]
  PROVE  Contract!TakeBack
<1>1. \A h \in DOMAIN names' : cell'[h] = cell[h]
  BY DEF IInv, HandlesHold
<1> QED
  BY <1>1 DEF Contract!TakeBack, Contract!Kept

LEMMA AllocGives ==
  ASSUME IInv, IInv', NEW v \in Cells, Alloc(v, v), UNCHANGED <<mode, sp, frames>>
  PROVE  Contract!Give
<1>1. UNCHANGED mode
  OBVIOUS
<1>2. /\ Base + head \notin DOMAIN names
      /\ DOMAIN names' = DOMAIN names \cup {Base + head}
      /\ \A h \in DOMAIN names' : names'[h] = IF h = Base + head THEN v ELSE names[h]
  BY <1>1, AllocSlab DEF IInv
<1> DEFINE S == {Base + head}
<1>3. /\ DOMAIN names' = DOMAIN names \cup S /\ S # {} /\ \A h \in S : h \notin DOMAIN names
      /\ \A h \in DOMAIN names : names'[h] = names[h]
  BY <1>2
<1> HIDE DEF S
<1> QED
  BY <1>3, Gives

LEMMA EnterGives ==
  ASSUME IInv, IInv', NEW m \in 1..MaxArgs, NEW args \in [1..m -> Values], Enter(args)
  PROVE  Contract!Give
<1> DEFINE S == Slots(sp - Len(args), Len(args))
<1>1. /\ DOMAIN names' = DOMAIN names \cup S
      /\ \A h \in DOMAIN names : h \notin S => names'[h] = names[h]
      /\ Len(args) > 0
  BY DEF Enter
<1>2. sp \in Int /\ sp <= Top /\ Len(args) \in Nat
  <2>1. m \in Nat
    BY JsValuesAssumption
  <2> QED
    BY <2>1 DEF IInv, TypeOK, StackShape
<1>3. \A h \in S : h \in Int /\ ~(h >= sp) /\ h < Top
  BY <1>2, BaseType DEF Slots
<1>4. \A h \in S : h \notin DOMAIN names
  <2>1. \A h \in DOMAIN names : h < Top => h >= sp
    BY LentAbove DEF IInv, Lent
  <2> QED
    BY <2>1, <1>3
<1>5. sp - Len(args) \in S
  BY <1>1, <1>2 DEF Slots
<1> HIDE DEF S
<1> QED
  BY <1>1, <1>4, <1>5, Gives

\* Whatever happens to the table, it gives indices that were free or takes
\* back some that are out; the others keep their value.
LEMMA StepGivesOrTakes == ASSUME IInv, IInv', Next PROVE Contract!Next
<1>1. CASE \E v \in Values : Own(v)
  <2>1. PICK v \in Values : Own(v)
    BY <1>1
  <2>2. v \in Cells
    BY DEF Cells
  <2> QED
    BY <2>1, <2>2, AllocGives DEF Own, Contract!Next
<1>2. ASSUME NEW h \in DOMAIN cell, CloneRef(h) PROVE Contract!Next
  <2>1. CASE h \in DOMAIN names /\ Alloc(cell[h], names[h])
    <3>1. cell[h] = names[h] /\ names[h] \in Cells
      BY <2>1 DEF IInv, HandlesHold, TypeOK
    <3> QED
      BY <1>2, <2>1, <3>1, AllocGives DEF CloneRef, Contract!Next
  <2>2. CASE h \in Top..Base - 1 /\ Alloc(cell[h], Fixed[h - Top + 1])
    <3>1. cell[h] = Fixed[h - Top + 1] /\ Fixed[h - Top + 1] \in Cells
      BY <2>2, FixedCells DEF IInv, HandlesHold
    <3> QED
      BY <1>2, <2>2, <3>1, AllocGives DEF CloneRef, Contract!Next
  <2> QED
    BY <1>2, <2>1, <2>2 DEF CloneRef
<1>3. ASSUME NEW n \in 1..MaxArgs, NEW args \in [1..n -> Values], Enter(args)
      PROVE  Contract!Next
  BY <1>3, EnterGives DEF Contract!Next
<1>4. ASSUME DOMAIN names' \subseteq DOMAIN names, \A h \in DOMAIN names' : names'[h] = names[h]
      PROVE  Contract!Next
  BY <1>4, TakesBack DEF Contract!Next
<1>5. ASSUME NEW h \in DOMAIN cell, Release(h) PROVE Contract!Next
  BY <1>5, <1>4 DEF Release
<1>6. ASSUME NEW n \in 1..MaxArgs, Overflow(n) PROVE Contract!Next
  BY <1>6, <1>4 DEF Overflow
<1>7. ASSUME NEW n, NEW done, Refuse(n, done) PROVE Contract!Next
  BY <1>7, <1>4 DEF Refuse
<1>8. ASSUME Return \/ Throw PROVE Contract!Next
  <2>1. PICK f : Leave(f)
    BY <1>8 DEF Return, Throw
  <2> QED
    BY <2>1, <1>4 DEF Leave
<1>9. ASSUME Reset PROVE Contract!Next
  BY <1>9, <1>4 DEF Reset
<1> QED
  BY <1>1, <1>2, <1>3, <1>5, <1>6, <1>7, <1>8, <1>9 DEF Next

\* Both tables keep the contract of handles.
THEOREM Implements == ASSUME Calm PROVE Spec => ImplementsContract
<1>1. Init => Contract!Init
  BY DEF Init, Contract!Init
<1>2. IInv /\ IInv' /\ [Next]_vars => [Contract!Next]_Read
  <2>1. ASSUME UNCHANGED vars PROVE UNCHANGED Read
    BY <2>1 DEF vars, Read
  <2> QED
    BY <2>1, StepGivesOrTakes
<1>3. Read = [h \in DOMAIN names |-> cell[h]]
  BY DEF Read
<1> QED
  BY <1>1, <1>2, Inductive, PTL DEF Spec, ImplementsContract, Contract!Spec, Read

-----------------------------------------------------------------------------
(***************************************************************************)
(* What was given back is not kept.  The walk along the free list ends     *)
(* because every slot that was ever used, free or not, has a rank above    *)
(* that of the slot it is linked to; what is out keeps its old link.       *)
(***************************************************************************)
LEMMA LeastOf == ASSUME NEW S \in SUBSET Nat, S # {} PROVE \E m \in S : \A k \in S : m <= k
<1> DEFINE R == OpToRel(<, Nat)
<1>1. IsWellFoundedOn(R, Nat)
  BY NatLessThanWellFounded
<1>2. \A x, y \in Nat : x < y => <<x, y>> \in R
  BY DEF OpToRel
<1> HIDE DEF R
<1>3. PICK x \in S : \A y \in S : ~(<<y, x>> \in R)
  BY <1>1, WFMin
<1>4. ASSUME NEW y \in S PROVE x <= y
  <2>1. x \in Nat /\ y \in Nat
    OBVIOUS
  <2>2. ~(y < x)
    BY <1>2, <1>3, <2>1
  <2> QED
    BY <2>1, <2>2
<1> QED
  BY <1>4

\* Slots nobody has hold nothing, and the glue lends all from the pointer on.
Vacated ==
  /\ \A h \in DOMAIN cell : h >= Base /\ h \notin DOMAIN names => cell[h] = Undefined
  /\ mode = "heap" =>
       /\ \A h \in 0..Top - 1 : h < sp => cell[h] = Undefined
       /\ Lent = sp..Top - 1

ChainOf(r) ==
  /\ r \in [0..len -> Int]
  /\ r[len] = 0 /\ \A x \in 0..len - 1 : r[x] = r[link[x]] + 1
  /\ \A x \in Free : r[x] >= 0
  /\ r[head] = Cardinality(Free)

Chained == \E r : ChainOf(r)

KInv == IInv /\ Vacated /\ Chained

LEMMA FreeFinite ==
  ASSUME TypeOK
  PROVE  /\ IsFiniteSet(Free) /\ Cardinality(Free) \in Nat
         /\ Cardinality(Free) = 0 => Free = {}
         /\ len \in Nat /\ link \in [0..len - 1 -> 0..len] /\ head \in 0..len
<1>1. len \in Nat /\ link \in [0..len - 1 -> 0..len] /\ head \in 0..len
  BY JsValuesAssumption DEF TypeOK
<1>2. IsFiniteSet(0..len - 1)
  <2>1. 0 \in Int /\ len - 1 \in Int
    BY <1>1
  <2> QED
    BY <2>1, FS_Interval
<1>3. Free \in SUBSET (0..len - 1)
  BY DEF Free
<1>4. IsFiniteSet(Free)
  BY <1>2, <1>3, FS_Subset
<1> QED
  BY <1>1, <1>4, FS_CardinalityType, FS_EmptySet

\* A slot goes out: the first free one, or one more.
LEMMA AllocChained ==
  ASSUME IInv, IInv', Chained, NEW v \in Cells, Alloc(v, v), UNCHANGED mode
  PROVE  Chained'
<1>1. /\ IsFiniteSet(Free) /\ Cardinality(Free) \in Nat /\ (Cardinality(Free) = 0 => Free = {})
      /\ len \in Nat /\ link \in [0..len - 1 -> 0..len] /\ head \in 0..len
  BY FreeFinite DEF IInv
<1>2. PICK r : ChainOf(r)
  BY DEF Chained
<1>3. /\ r \in [0..len -> Int] /\ r[len] = 0 /\ \A x \in 0..len - 1 : r[x] = r[link[x]] + 1
      /\ \A x \in Free : r[x] >= 0
      /\ r[head] = Cardinality(Free)
  BY <1>2 DEF ChainOf
<1>4. Free' = Free \ {head}
  BY AllocSlab DEF IInv
<1>5. /\ len' = IF head = len THEN len + 1 ELSE len
      /\ link' = IF head = len THEN [i \in 0..len |-> IF i = len THEN len + 1 ELSE link[i]] ELSE link
      /\ head' = link'[head]
  BY DEF Alloc, Pop
<1>6. CASE head = len
  <2> PICK q : q = [x \in 0..len + 1 |-> IF x = len + 1 THEN 0 ELSE r[x] + 1]
    OBVIOUS
  <2>1. Free = {} /\ Free' = {}
    BY <1>1, <1>3, <1>4, <1>6
  <2>2. /\ len' = len + 1 /\ head' = len + 1
        /\ link' = [i \in 0..len |-> IF i = len THEN len + 1 ELSE link[i]]
    BY <1>1, <1>5, <1>6
  <2>3. q \in [0..len + 1 -> Int] /\ q[len + 1] = 0
    BY <1>1, <1>3
  <2>4. ASSUME NEW x \in 0..len PROVE q[x] = q[link'[x]] + 1
    <3>1. q[x] = r[x] + 1 /\ x \in 0..len + 1
      BY <1>1
    <3>2. CASE x = len
      <4>1. link'[x] = len + 1
        BY <2>2, <3>2
      <4> QED
        BY <1>3, <2>3, <3>1, <3>2, <4>1
    <3>3. CASE x # len
      <4>1. x \in 0..len - 1 /\ link'[x] = link[x]
        BY <1>1, <2>2, <3>3
      <4>2. link[x] \in 0..len /\ link[x] # len + 1 /\ link[x] \in 0..len + 1
        BY <1>1, <4>1
      <4>3. q[link[x]] = r[link[x]] + 1
        BY <4>2
      <4>4. r[x] = r[link[x]] + 1
        BY <1>3, <4>1
      <4> QED
        BY <3>1, <4>1, <4>3, <4>4
    <3> QED
      BY <3>2, <3>3
  <2>5. len' - 1 = len /\ Cardinality(Free') = 0
    BY <1>1, <2>1, <2>2, FS_EmptySet
  <2>6. ChainOf(q)'
    BY <2>1, <2>2, <2>3, <2>4, <2>5 DEF ChainOf
  <2> QED
    BY <2>6 DEF Chained
<1>7. CASE head # len
  <2>1. link' = link /\ len' = len /\ head' = link[head]
    BY <1>5, <1>7
  <2>2. head \in Free /\ head \in 0..len - 1
    BY <1>1, <1>7 DEF IInv, FreeList
  <2>3. Cardinality(Free') = Cardinality(Free) - 1
    BY <1>1, <1>4, <2>2, FS_RemoveElement
  <2>4. r[head'] = Cardinality(Free')
    <3>1. r[head] = r[link[head]] + 1 /\ link[head] \in 0..len
      BY <1>1, <1>3, <2>2
    <3> QED
      BY <1>1, <1>3, <2>1, <2>3, <3>1
  <2>5. ChainOf(r)'
    BY <1>3, <1>4, <2>1, <2>4 DEF ChainOf
  <2> QED
    BY <2>5 DEF Chained
<1> QED
  BY <1>6, <1>7

\* A slot comes back: the slots whose old links lead to it get new ranks; the
\* free list is not among them.
LEMMA ReleaseChained ==
  ASSUME IInv, Chained, NEW h \in DOMAIN cell, Release(h) PROVE Chained'
<1> DEFINE x0 == h - Base
           Closed(S) == x0 \in S /\ \A z \in 0..len - 1 : link[z] \in S => z \in S
           T == {y \in 0..len : \A S \in SUBSET (0..len) : Closed(S) => y \in S}
<1>1. /\ IsFiniteSet(Free) /\ Cardinality(Free) \in Nat
      /\ len \in Nat /\ link \in [0..len - 1 -> 0..len] /\ head \in 0..len
  BY FreeFinite DEF IInv
<1>2. PICK r : ChainOf(r)
  BY DEF Chained
<1>3. /\ r \in [0..len -> Int] /\ r[len] = 0 /\ \A x \in 0..len - 1 : r[x] = r[link[x]] + 1
      /\ \A x \in Free : r[x] >= 0
      /\ r[head] = Cardinality(Free)
  BY <1>2 DEF ChainOf
<1>4. x0 \in 0..len - 1 /\ x0 \notin Free /\ Free' = Free \cup {x0}
  BY ReleaseInv
<1>5. link' = [link EXCEPT ![x0] = head] /\ head' = x0 /\ len' = len
  BY DEF Release
<1> HIDE DEF x0
<1>6. \A y : y \in T <=> y \in 0..len /\ \A S \in SUBSET (0..len) : Closed(S) => y \in S
  OBVIOUS
<1>7. x0 \in T
  BY <1>1, <1>4, <1>6
<1>8. ASSUME NEW z \in 0..len - 1, z # x0 PROVE z \in T <=> link[z] \in T
  <2>0. z \in 0..len /\ link[z] \in 0..len
    BY <1>1
  <2>1. ASSUME link[z] \in T PROVE z \in T
    <3>1. ASSUME NEW S \in SUBSET (0..len), Closed(S) PROVE z \in S
      BY <1>6, <2>1, <3>1
    <3> QED
      BY <1>6, <2>0, <3>1
  <2>2. ASSUME z \in T, link[z] \notin T PROVE FALSE
    <3> DEFINE S == T \ {z}
    <3>1. S \in SUBSET (0..len)
      BY <1>6
    <3>2. x0 \in S
      BY <1>7, <1>8
    <3>3. ASSUME NEW y \in 0..len - 1, link[y] \in S PROVE y \in S
      <4>1. y # z
        BY <2>2, <3>3
      <4>2. y \in 0..len /\ link[y] \in T
        BY <1>1, <3>3
      <4>3. ASSUME NEW U \in SUBSET (0..len), Closed(U) PROVE y \in U
        BY <1>6, <4>2, <4>3
      <4> QED
        BY <1>6, <4>1, <4>2, <4>3
    <3>4. Closed(S)
      BY <3>2, <3>3
    <3> HIDE DEF T
    <3>5. z \in S
      <4> HIDE DEF S, Closed
      <4> QED
        BY <1>6, <2>2, <3>1, <3>4
    <3> QED
      BY <3>5
  <2> QED
    BY <2>1, <2>2
<1>9. T \cap (Free \cup {len}) = {}
  <2> DEFINE S == (0..len) \ (Free \cup {len})
  <2>1. x0 \in S
    BY <1>1, <1>4
  <2>2. ASSUME NEW z \in 0..len - 1, link[z] \in S PROVE z \in S
    <3>1. z \in 0..len /\ z # len
      BY <1>1
    <3>2. z \in Free => link[z] \in Free \cup {len}
      BY DEF IInv, FreeList
    <3> QED
      BY <2>2, <3>1, <3>2
  <2>3. S \in SUBSET (0..len) /\ Closed(S)
    BY <2>1, <2>2
  <2> HIDE DEF S, Closed, T
  <2>4. \A y \in T : y \in S
    BY <1>6, <2>3
  <2> QED
    BY <2>4 DEF S
<1> HIDE DEF Closed, T
<1>10. head \notin T /\ len \notin T /\ head \in 0..len
  BY <1>1, <1>9 DEF IInv, FreeList
<1> PICK q : q = [x \in 0..len |-> IF x \in T THEN r[x] - r[x0] + r[head] + 1 ELSE r[x]]
  OBVIOUS
<1>11. \A x \in 0..len : /\ x \in T => q[x] = r[x] - r[x0] + r[head] + 1
                         /\ x \notin T => q[x] = r[x]
                         /\ r[x] \in Int
  BY <1>3
<1>12. q \in [0..len -> Int]
  <2>1. x0 \in 0..len
    BY <1>1, <1>4
  <2> QED
    BY <1>3, <1>10, <2>1
<1>13. q[x0] = q[head] + 1 /\ q[x0] = Cardinality(Free) + 1
  <2>1. x0 \in 0..len
    BY <1>1, <1>4
  <2>2. q[head] = r[head] /\ q[x0] = r[x0] - r[x0] + r[head] + 1
    BY <1>7, <1>10, <1>11, <2>1
  <2>3. r[x0] \in Int
    BY <1>11, <2>1
  <2> QED
    BY <1>1, <1>3, <2>2, <2>3
<1>14. ASSUME NEW x \in 0..len - 1 PROVE q[x] = q[link'[x]] + 1
  <2>1. CASE x = x0
    <3>1. link'[x0] = head
      BY <1>1, <1>4, <1>5
    <3> QED
      BY <1>13, <2>1, <3>1
  <2>2. CASE x # x0
    <3>1. link'[x] = link[x] /\ link[x] \in 0..len /\ x \in 0..len /\ r[x] = r[link[x]] + 1
      BY <1>1, <1>3, <1>5, <2>2
    <3>2. r[x] \in Int /\ r[link[x]] \in Int /\ r[x0] \in Int /\ r[head] \in Int
      <4>1. x0 \in 0..len
        BY <1>1, <1>4
      <4> QED
        BY <1>10, <1>11, <3>1, <4>1
    <3>3. CASE x \in T
      <4>1. link[x] \in T
        BY <1>8, <2>2, <3>3
      <4>2. /\ q[x] = r[x] - r[x0] + r[head] + 1
            /\ q[link[x]] = r[link[x]] - r[x0] + r[head] + 1
        BY <1>11, <3>1, <3>3, <4>1
      <4> QED
        BY <3>1, <3>2, <4>2
    <3>4. CASE x \notin T
      <4>1. link[x] \notin T
        BY <1>8, <2>2, <3>4
      <4>2. q[x] = r[x] /\ q[link[x]] = r[link[x]]
        BY <1>11, <3>1, <3>4, <4>1
      <4> QED
        BY <3>1, <3>2, <4>2
    <3> QED
      BY <3>3, <3>4
  <2> QED
    BY <2>1, <2>2
<1>15. \A x \in Free' : q[x] >= 0
  <2>1. ASSUME NEW x \in Free PROVE q[x] >= 0
    <3>1. x \in 0..len /\ x \notin T
      BY <1>1, <1>9 DEF Free
    <3> QED
      BY <1>3, <1>11, <3>1
  <2>2. q[x0] >= 0
    BY <1>1, <1>13
  <2> QED
    BY <1>4, <2>1, <2>2
<1>16. Cardinality(Free') = Cardinality(Free) + 1
  BY <1>1, <1>4, FS_AddElement
<1>17. q[len] = 0
  <2>1. len \in 0..len
    BY <1>1
  <2> QED
    BY <1>3, <1>10, <1>11, <2>1
<1>18. ChainOf(q)'
  BY <1>5, <1>12, <1>13, <1>14, <1>15, <1>16, <1>17 DEF ChainOf
<1> QED
  BY <1>18 DEF Chained

\* Steps of the stack leave the slab and its chain alone.
LEMMA StackChained ==
  ASSUME IInv, Chained, UNCHANGED slab,
         \A h : h >= Base => (h \in DOMAIN names' <=> h \in DOMAIN names)
  PROVE  Chained'
<1>1. link' = link /\ len' = len /\ head' = head
  BY DEF slab
<1>2. Free' = Free
  <2>1. \A x \in 0..len - 1 : Base + x >= Base
    BY FreeFinite, BaseType DEF IInv
  <2>2. \A x \in 0..len - 1 : Base + x \in DOMAIN names' <=> Base + x \in DOMAIN names
    BY <2>1
  <2> QED
    BY <1>1, <2>2 DEF Free, Base
<1>3. PICK r : ChainOf(r)
  BY DEF Chained
<1>4. ChainOf(r)'
  BY <1>1, <1>2, <1>3 DEF ChainOf
<1> QED
  BY <1>4 DEF Chained

LEMMA BelowBase ==
  ASSUME NEW b \in Nat, NEW t \in Nat, b = t + 2, NEW c \in Nat, NEW h \in 0..t - 1
  PROVE  h \in 0..b + c - 1 /\ \A x \in Nat : h # b + x
OBVIOUS

LEMMA AllocKept ==
  ASSUME KInv, NEW v \in Cells, Alloc(v, v), UNCHANGED <<mode, sp, frames>>
  PROVE  KInv'
<1>1. IInv /\ IInv' /\ Chained'
  BY AllocInv, AllocChained DEF KInv
<1>2. /\ DOMAIN names' = DOMAIN names \cup {Base + head}
      /\ cell' = [i \in 0..Base + cap' - 1 |->
           IF i = Base + head THEN v ELSE IF i \in DOMAIN cell THEN cell[i] ELSE Undefined]
  BY <1>1, AllocSlab DEF IInv
<1>3. /\ Base = Top + 2 /\ Top \in Nat /\ head \in Nat /\ cap \in Nat /\ sp \in Int /\ sp <= Top
      /\ DOMAIN cell = 0..Base + cap - 1 /\ cap' \in Nat
  BY <1>1, BaseType, JsValuesAssumption DEF IInv, TypeOK, StackShape
<1>4. \A h \in 0..Base + cap' - 1 : h # Base + head =>
        cell'[h] = IF h \in DOMAIN cell THEN cell[h] ELSE Undefined
  BY <1>2
<1>5. ASSUME NEW h \in DOMAIN cell', h >= Base, h \notin DOMAIN names' PROVE cell'[h] = Undefined
  <2>1. h \in 0..Base + cap' - 1 /\ h # Base + head /\ h \notin DOMAIN names
    BY <1>2, <1>5
  <2> QED
    BY <1>4, <1>5, <2>1 DEF KInv, Vacated
<1>6. ASSUME mode' = "heap"
      PROVE  /\ \A h \in 0..Top - 1 : h < sp' => cell'[h] = Undefined
             /\ Lent' = sp'..Top - 1
  <2>1. \A h \in 0..Top - 1 : h \in DOMAIN cell /\ h \in 0..Base + cap' - 1 /\ h # Base + head
    <3> TAKE h \in 0..Top - 1
    <3>1. Base \in Nat
      BY <1>3
    <3>2. h \in 0..Base + cap - 1
      BY <1>3, <3>1, BelowBase
    <3>3. h \in 0..Base + cap' - 1 /\ h # Base + head
      BY <1>3, <3>1, BelowBase
    <3> QED
      BY <1>3, <3>2, <3>3
  <2>2. Lent' = Lent
    BY <1>2, <1>3 DEF Lent
  <2> QED
    BY <1>4, <1>6, <2>1, <2>2 DEF KInv, Vacated
<1> QED
  BY <1>1, <1>5, <1>6 DEF KInv, Vacated

LEMMA ReleaseKept == ASSUME KInv, NEW h \in DOMAIN cell, Release(h) PROVE KInv'
<1>1. IInv /\ IInv' /\ Chained'
  BY ReleaseInv, ReleaseChained DEF KInv
<1>2. /\ h \in DOMAIN names /\ h >= Base /\ cell' = [cell EXCEPT ![h] = Undefined]
      /\ DOMAIN names' = DOMAIN names \ {h} /\ UNCHANGED <<mode, sp>>
  BY DEF Release, Owned
<1>3. Base = Top + 2 /\ Top \in Nat /\ DOMAIN cell = 0..Base + cap - 1 /\ cap \in Nat
  BY <1>1, BaseType, JsValuesAssumption DEF IInv, TypeOK
<1>4. ASSUME NEW i \in DOMAIN cell', i >= Base, i \notin DOMAIN names' PROVE cell'[i] = Undefined
  BY <1>2, <1>4 DEF KInv, Vacated
<1>5. ASSUME mode' = "heap"
      PROVE  /\ \A i \in 0..Top - 1 : i < sp' => cell'[i] = Undefined
             /\ Lent' = sp'..Top - 1
  <2>1. h \in Int /\ ~(h < Top)
    BY <1>2, <1>3
  <2>2. Lent' = Lent /\ \A i \in 0..Top - 1 : cell'[i] = cell[i]
    BY <1>2, <1>3, <2>1 DEF Lent
  <2> QED
    BY <1>2, <1>5, <2>2 DEF KInv, Vacated
<1> QED
  BY <1>1, <1>4, <1>5 DEF KInv, Vacated

\* What changes on the stack only.
LEMMA StackKept ==
  ASSUME KInv, IInv', UNCHANGED slab, DOMAIN cell' = DOMAIN cell,
         \A h : h >= Base => (h \in DOMAIN names' <=> h \in DOMAIN names),
         \A h \in DOMAIN cell : h >= Base => cell'[h] = cell[h],
         mode' = "heap" => /\ \A h \in 0..Top - 1 : h < sp' => cell'[h] = Undefined
                           /\ Lent' = sp'..Top - 1
  PROVE  KInv'
<1>1. Chained'
  BY StackChained DEF KInv
<1>2. \A h \in DOMAIN cell' : h >= Base /\ h \notin DOMAIN names' => cell'[h] = Undefined
  BY DEF KInv, Vacated
<1> QED
  BY <1>1, <1>2 DEF KInv, Vacated

LEMMA EnterKept ==
  ASSUME KInv, NEW m \in 1..MaxArgs, NEW args \in [1..m -> Values], Enter(args)
  PROVE  KInv'
<1>1. IInv /\ IInv'
  BY EnterInv DEF KInv
<1>2. PICK n, fp : n = Len(args) /\ fp = sp - n
  OBVIOUS
<1>3. /\ sp' = fp /\ DOMAIN cell' = DOMAIN cell
      /\ \A i \in DOMAIN cell : i \notin Slots(fp, n) => cell'[i] = cell[i]
      /\ DOMAIN names' = DOMAIN names \cup Slots(fp, n)
      /\ UNCHANGED <<mode, slab>>
  BY <1>2 DEF Enter
<1>4. n \in Nat /\ fp \in Int /\ sp \in Int /\ sp <= Top /\ fp + n = sp /\ Top \in Nat /\ Base = Top + 2
  <2>1. m \in Nat
    BY JsValuesAssumption
  <2>2. n \in Nat
    BY <1>2, <2>1
  <2>3. sp \in Int /\ sp <= Top
    BY <1>1 DEF IInv, TypeOK, StackShape
  <2> QED
    BY <1>2, <2>2, <2>3, BaseType
<1>5. \A h : h \in Slots(fp, n) <=> h \in Int /\ fp <= h /\ h < sp
  BY <1>4 DEF Slots
<1>6. \A h : h >= Base => h \notin Slots(fp, n)
  BY <1>4, <1>5
<1>7. ASSUME mode' = "heap"
      PROVE  /\ \A h \in 0..Top - 1 : h < sp' => cell'[h] = Undefined
             /\ Lent' = sp'..Top - 1
  <2>1. (\A h \in 0..Top - 1 : h < sp => cell[h] = Undefined) /\ Lent = sp..Top - 1
    BY <1>3, <1>7 DEF KInv, Vacated
  <2>2. ASSUME NEW h \in 0..Top - 1, h < sp' PROVE cell'[h] = Undefined
    <3>1. h < sp /\ h \notin Slots(fp, n)
      BY <1>3, <1>4, <1>5, <2>2
    <3>2. h \in DOMAIN cell
      BY <1>1, <1>4, JsValuesAssumption DEF IInv, TypeOK
    <3> QED
      BY <1>3, <2>1, <3>1, <3>2
  <2>3. Lent' = Lent \cup Slots(fp, n)
    <3>1. \A h \in Slots(fp, n) : h < Top
      BY <1>4, <1>5
    <3> QED
      BY <1>3, <3>1 DEF Lent
  <2>4. \A h : h \in sp..Top - 1 \/ h \in Slots(fp, n) <=> h \in fp..Top - 1
    BY <1>4, <1>5
  <2> QED
    BY <1>3, <2>1, <2>2, <2>3, <2>4
<1> QED
  BY <1>1, <1>3, <1>6, <1>7, StackKept

LEMMA ReturnKept == ASSUME KInv, Return \/ Throw PROVE KInv'
<1>1. IInv /\ IInv'
  BY ReturnInv DEF KInv
<1>2. PICK f \in Range(frames) :
        /\ Leave(f)
        /\ \/ Pave(IF mode = "heap" THEN sp ELSE f.fp, f.n)
           \/ mode # "heap" /\ UNCHANGED <<cell, sp>>
        /\ UNCHANGED <<mode, slab>>
  BY DEF Return, Throw
<1>3. /\ f.fp \in Int /\ f.n \in Nat /\ sp \in Int
      /\ sp <= f.fp /\ f.fp + f.n <= Top
      /\ mode = "heap" => sp = f.fp
  BY <1>1, <1>2, LeaveFrame
<1>4. DOMAIN names' = DOMAIN names \ Slots(f.fp, f.n)
  BY <1>2 DEF Leave
<1>5. \/ /\ cell' = [i \in DOMAIN cell |-> IF i \in Slots(f.fp, f.n) THEN Undefined ELSE cell[i]]
         /\ sp' = f.fp + f.n
      \/ mode # "heap" /\ cell' = cell /\ sp' = sp
  BY <1>2, <1>3 DEF Pave
<1>6. /\ DOMAIN cell' = DOMAIN cell /\ Base = Top + 2 /\ Top \in Nat
      /\ \A i \in DOMAIN cell : i \notin Slots(f.fp, f.n) => cell'[i] = cell[i]
  BY <1>5, BaseType
<1>7. \A h : h \in Slots(f.fp, f.n) <=> h \in Int /\ f.fp <= h /\ h < f.fp + f.n
  BY <1>3 DEF Slots
<1>8. \A h : h >= Base => h \notin Slots(f.fp, f.n)
  BY <1>3, <1>6, <1>7
<1>9. ASSUME mode' = "heap"
      PROVE  /\ \A h \in 0..Top - 1 : h < sp' => cell'[h] = Undefined
             /\ Lent' = sp'..Top - 1
  <2>1. /\ \A h \in 0..Top - 1 : h < sp => cell[h] = Undefined
        /\ Lent = sp..Top - 1 /\ sp = f.fp /\ sp' = f.fp + f.n
        /\ cell' = [i \in DOMAIN cell |-> IF i \in Slots(f.fp, f.n) THEN Undefined ELSE cell[i]]
    BY <1>2, <1>3, <1>5, <1>9 DEF KInv, Vacated
  <2>2. ASSUME NEW h \in 0..Top - 1, h < sp' PROVE cell'[h] = Undefined
    <3>1. h \in DOMAIN cell
      BY <1>1, <1>6, JsValuesAssumption DEF IInv, TypeOK
    <3>2. h < sp \/ h \in Slots(f.fp, f.n)
      BY <1>3, <1>7, <2>1, <2>2
    <3> QED
      BY <2>1, <3>1, <3>2
  <2>3. Lent' = Lent \ Slots(f.fp, f.n)
    BY <1>4 DEF Lent
  <2>4. \A h : h \in sp..Top - 1 /\ h \notin Slots(f.fp, f.n) <=> h \in sp'..Top - 1
    BY <1>3, <1>6, <1>7, <2>1
  <2> QED
    BY <2>1, <2>2, <2>3, <2>4
<1> QED
  BY <1>1, <1>2, <1>4, <1>6, <1>8, <1>9, StackKept

LEMMA OverflowKept == ASSUME KInv, NEW n \in 1..MaxArgs, Overflow(n) PROVE KInv'
<1>1. IInv'
  BY OverflowInv DEF KInv
<1>2. mode' # "heap" /\ UNCHANGED <<cell, slab, names>>
  BY DEF Overflow
<1> QED
  BY <1>1, <1>2, StackKept

LEMMA RefuseKept ==
  ASSUME Calm, KInv, NEW n \in 1..MaxArgs, NEW done \in 0..n, Refuse(n, done)
  PROVE  KInv'
<1>1. IInv /\ IInv'
  BY RefuseInv DEF KInv
<1>2. mode = "heap" /\ mode \in Modes
  BY <1>1 DEF Refuse, IInv, TypeOK
<1>3. done = n /\ n \in Nat
  BY <1>2, JsValuesAssumption DEF Refuse, Calm
<1>4. sp \in Int /\ sp <= Top /\ sp - n + n = sp /\ sp - n \in Int /\ Base = Top + 2 /\ Top \in Nat
  BY <1>1, <1>3, BaseType DEF IInv, TypeOK, StackShape
<1>5. /\ cell' = [i \in DOMAIN cell |-> IF i \in Slots(sp - n, n) THEN Undefined ELSE cell[i]]
      /\ sp' = sp /\ UNCHANGED <<mode, slab, names>>
  BY <1>3, <1>4 DEF Refuse
<1>6. \A h \in DOMAIN cell : h >= Base => cell'[h] = cell[h]
  <2>1. \A h : h >= Base => h \notin Slots(sp - n, n)
    BY <1>3, <1>4 DEF Slots
  <2> QED
    BY <1>5, <2>1
<1>7. \A h \in 0..Top - 1 : h < sp' => cell'[h] = Undefined
  <2>1. \A h \in 0..Top - 1 : h \in DOMAIN cell
    BY <1>1, <1>4, JsValuesAssumption DEF IInv, TypeOK
  <2> QED
    BY <1>2, <1>5, <2>1 DEF KInv, Vacated
<1>8. Lent' = sp'..Top - 1
  BY <1>2, <1>5 DEF KInv, Vacated, Lent
<1>9. DOMAIN cell' = DOMAIN cell /\ \A h : h \in DOMAIN names' <=> h \in DOMAIN names
  BY <1>5
<1> QED
  BY <1>1, <1>5, <1>6, <1>7, <1>8, <1>9, StackKept

\* An empty slab is a chain of its own.
LEMMA EmptyKept ==
  ASSUME link = <<>>, len = 0, head = 0, cell = Empty(Base), names = <<>>, sp = Top
  PROVE  Vacated /\ Chained
<1>1. Base = Top + 2 /\ Top \in Nat
  BY BaseType
<1>2. Vacated
  <2>1. DOMAIN cell = 0..Base - 1 /\ \A h \in 0..Top - 1 : cell[h] = Undefined
    BY <1>1 DEF Empty
  <2>2. ~\E h \in DOMAIN cell : h >= Base
    BY <1>1, <2>1
  <2>3. Lent = {} /\ sp..Top - 1 = {}
    BY <1>1 DEF Lent
  <2> QED
    BY <2>1, <2>2, <2>3 DEF Vacated
<1>3. Free = {} /\ Cardinality({}) = 0
  BY FS_EmptySet DEF Free
<1>4. PICK r : r = [x \in 0..0 |-> 0]
  OBVIOUS
<1>5. r \in [0..0 -> Int] /\ r[0] = 0
  BY <1>4
<1>6. ChainOf(r)
  BY <1>3, <1>5 DEF ChainOf
<1> QED
  BY <1>2, <1>6 DEF Chained

LEMMA InitKept == Init => KInv
BY InitInv, EmptyKept DEF Init, KInv

LEMMA ResetKept == ASSUME KInv, Reset PROVE KInv'
<1>1. IInv'
  BY ResetInv DEF KInv
<1>2. /\ cell' = Empty(Base) /\ link' = <<>> /\ len' = 0 /\ head' = 0
      /\ sp' = Top /\ names' = <<>>
  BY DEF Reset
<1>3. Vacated' /\ Chained'
  <2>1. Base = Top + 2 /\ Top \in Nat
    BY BaseType
  <2>2. Vacated'
    <3>1. DOMAIN cell' = 0..Base - 1 /\ \A h \in 0..Top - 1 : cell'[h] = Undefined
      BY <1>2, <2>1 DEF Empty
    <3>2. ~\E h \in DOMAIN cell' : h >= Base
      BY <2>1, <3>1
    <3>3. Lent' = {} /\ sp'..Top - 1 = {}
      BY <1>2, <2>1 DEF Lent
    <3> QED
      BY <3>1, <3>2, <3>3 DEF Vacated
  <2>3. Free' = {} /\ Cardinality({}) = 0
    BY <1>2, FS_EmptySet DEF Free
  <2>4. PICK r : r = [x \in 0..0 |-> 0]
    OBVIOUS
  <2>5. r \in [0..0 -> Int] /\ r[0] = 0
    BY <2>4
  <2>6. ChainOf(r)'
    BY <1>2, <2>3, <2>5 DEF ChainOf
  <2> QED
    BY <2>2, <2>6 DEF Chained
<1> QED
  BY <1>1, <1>3 DEF KInv

LEMMA NextKept == ASSUME Calm, KInv, Next PROVE KInv'
<1>1. ASSUME NEW v \in Values, Own(v) PROVE KInv'
  <2>1. v \in Cells
    BY DEF Cells
  <2> QED
    BY <1>1, <2>1, AllocKept DEF Own
<1>2. ASSUME NEW h \in DOMAIN cell, CloneRef(h) PROVE KInv'
  <2>1. CASE h \in DOMAIN names /\ Alloc(cell[h], names[h])
    <3>1. cell[h] = names[h] /\ names[h] \in Cells
      BY <2>1 DEF KInv, IInv, HandlesHold, TypeOK
    <3> QED
      BY <1>2, <2>1, <3>1, AllocKept DEF CloneRef
  <2>2. CASE h \in Top..Base - 1 /\ Alloc(cell[h], Fixed[h - Top + 1])
    <3>1. cell[h] = Fixed[h - Top + 1] /\ Fixed[h - Top + 1] \in Cells
      BY <2>2, FixedCells DEF KInv, IInv, HandlesHold
    <3> QED
      BY <1>2, <2>2, <3>1, AllocKept DEF CloneRef
  <2> QED
    BY <1>2, <2>1, <2>2 DEF CloneRef
<1>3. ASSUME NEW h \in DOMAIN cell, Release(h) PROVE KInv'
  BY <1>3, ReleaseKept
<1>4. ASSUME NEW n \in 1..MaxArgs, \E args \in [1..n -> Values] : Enter(args) PROVE KInv'
  BY <1>4, EnterKept
<1>5. ASSUME NEW n \in 1..MaxArgs, Overflow(n) PROVE KInv'
  BY <1>5, OverflowKept
<1>6. ASSUME NEW n \in 1..MaxArgs, \E done \in 0..n : Refuse(n, done) PROVE KInv'
  BY <1>6, RefuseKept
<1>7. CASE Return \/ Throw
  BY <1>7, ReturnKept
<1>8. CASE Reset
  BY <1>8, ResetKept
<1> QED
  BY <1>1, <1>2, <1>3, <1>4, <1>5, <1>6, <1>7, <1>8 DEF Next

LEMMA StutterKept == ASSUME KInv, UNCHANGED vars PROVE KInv'
<1>1. IInv'
  BY StutterInv DEF KInv
<1>2. Lent' = Lent
  BY DEF Lent, vars
<1> QED
  BY <1>1, <1>2, StackKept DEF vars, slab, KInv, Vacated

\* The walk of live_count, wherever the old links of what is out lead to.
Walk(f) == f = [i \in 0..len |-> IF i = len THEN 0 ELSE 1 + f[link[i]]]

LEMMA WalkEnds ==
  ASSUME IInv, Chained
  PROVE  /\ \E f : Walk(f)
         /\ \A f : Walk(f) => f[head] = Cardinality(Free)
<1>1. /\ len \in Nat /\ link \in [0..len - 1 -> 0..len] /\ head \in 0..len
      /\ Cardinality(Free) \in Nat
  BY FreeFinite DEF IInv
<1>2. PICK r : ChainOf(r)
  BY DEF Chained
<1>3. /\ r \in [0..len -> Int] /\ r[len] = 0 /\ \A x \in 0..len - 1 : r[x] = r[link[x]] + 1
      /\ \A x \in Free : r[x] >= 0
      /\ r[head] = Cardinality(Free)
  BY <1>2 DEF ChainOf
<1>4. Walk(r)
  <2>1. ASSUME NEW i \in 0..len PROVE r[i] = IF i = len THEN 0 ELSE 1 + r[link[i]]
    <3>1. CASE i = len
      BY <1>3, <3>1
    <3>2. CASE i # len
      <4>1. i \in 0..len - 1
        BY <1>1, <3>2
      <4>2. link[i] \in 0..len
        BY <1>1, <4>1
      <4>3. r[link[i]] \in Int
        BY <1>3, <4>2
      <4>4. r[i] = r[link[i]] + 1
        BY <1>3, <4>1
      <4> QED
        BY <3>2, <4>3, <4>4
    <3> QED
      BY <3>1, <3>2
  <2> QED
    BY <1>3, <2>1 DEF Walk
<1>5. ASSUME NEW f, Walk(f) PROVE f[head] = Cardinality(Free)
  <2>1. ASSUME NEW i \in 0..len PROVE f[i] = IF i = len THEN 0 ELSE 1 + f[link[i]]
    <3>1. PICK g : g = f
      OBVIOUS
    <3>2. f = [j \in 0..len |-> IF j = len THEN 0 ELSE 1 + g[link[j]]]
      BY <1>5, <3>1 DEF Walk
    <3> QED
      BY <3>1, <3>2
  <2> DEFINE Way == Free \cup {len}
             wrong == {n \in Nat : \E x \in Way : r[x] = n /\ f[x] # n}
  <2>2. ASSUME NEW x \in Way PROVE x \in 0..len /\ r[x] \in Nat
    <3>1. x \in 0..len
      BY <1>1 DEF Free
    <3>2. r[x] \in Int /\ r[x] >= 0
      BY <1>3, <3>1
    <3> QED
      BY <3>1, <3>2
  <2>3. \A x \in Free : link[x] \in Way /\ x \in 0..len - 1 /\ x # len
    BY <1>1 DEF IInv, FreeList, Free
  <2>4. wrong = {}
    <3> SUFFICES ASSUME wrong # {} PROVE FALSE
      OBVIOUS
    <3>1. PICK n \in wrong : \A k \in wrong : n <= k
      <4>1. wrong \in SUBSET Nat
        OBVIOUS
      <4> HIDE DEF wrong
      <4> QED
        BY <4>1, LeastOf
    <3>2. PICK x \in Way : r[x] = n /\ f[x] # n
      OBVIOUS
    <3>3. n \in Nat
      OBVIOUS
    <3>4. x # len
      <4>1. len \in 0..len
        BY <1>1
      <4> QED
        BY <1>3, <2>1, <3>2, <4>1
    <3>5. x \in Free
      BY <3>4
    <3>6. r[x] = r[link[x]] + 1 /\ link[x] \in Way /\ x \in 0..len
      BY <1>3, <2>2, <2>3, <3>5
    <3>7. r[link[x]] \in Nat
      BY <2>2, <3>6
    <3> HIDE DEF Way
    <3>8. r[link[x]] \notin wrong
      <4>1. r[link[x]] < n
        BY <3>2, <3>6, <3>7
      <4> HIDE DEF wrong
      <4> QED
        BY <3>1, <3>3, <3>7, <4>1
    <3>9. f[link[x]] = r[link[x]]
      BY <3>6, <3>7, <3>8
    <3>10. f[x] = 1 + f[link[x]]
      BY <2>1, <3>4, <3>6
    <3> QED
      BY <3>2, <3>6, <3>7, <3>9, <3>10
  <2>5. head \in Way
    BY DEF IInv, FreeList
  <2>6. f[head] = r[head]
    <3>1. r[head] \notin wrong /\ r[head] \in Nat
      BY <2>2, <2>4, <2>5
    <3> QED
      BY <2>5, <3>1
  <2> QED
    BY <1>3, <2>6
<1> QED
  BY <1>4, <1>5

LEMMA LiveCountIs == live_count = len - (CHOOSE f : Walk(f))[head]
BY DEF live_count, Walk

\* The slots ever used are those that are free and those that are out.
LEMMA UsedSlots ==
  ASSUME IInv PROVE Cardinality(Owned) = len - Cardinality(Free)
<1> DEFINE Used == (0..len - 1) \ Free
           m == [x \in Used |-> Base + x]
<1>1. /\ IsFiniteSet(Free) /\ Cardinality(Free) \in Nat /\ len \in Nat /\ Free \subseteq 0..len - 1
  BY FreeFinite DEF IInv, Free
<1>2. IsFiniteSet(0..len - 1) /\ Cardinality(0..len - 1) = len
  <2>1. 0 \in Int /\ len - 1 \in Int
    BY <1>1
  <2>2. /\ IsFiniteSet(0..len - 1)
        /\ Cardinality(0..len - 1) = IF 0 > len - 1 THEN 0 ELSE len - 1 - 0 + 1
    BY <2>1, FS_Interval
  <2> QED
    BY <1>1, <2>2
<1>3. IsFiniteSet(Used) /\ Cardinality(Used) = len - Cardinality(Free)
  <2>1. /\ IsFiniteSet(Used)
        /\ Cardinality((0..len - 1) \ Free)
             = Cardinality(0..len - 1) - Cardinality((0..len - 1) \cap Free)
    BY <1>2, FS_Difference
  <2>2. (0..len - 1) \cap Free = Free
    BY <1>1
  <2> QED
    BY <1>2, <2>1, <2>2
<1>4. Base = Top + 2 /\ Top \in Nat
  BY BaseType
<1>5. /\ \A x \in Used : x \in 0..len - 1 /\ Base + x \in Owned
      /\ \A h \in Owned : \E x \in Used : Base + x = h
  <2>1. ASSUME NEW x \in Used PROVE x \in 0..len - 1 /\ Base + x \in Owned
    <3>1. x \in 0..len - 1 /\ Base + x \in DOMAIN names /\ Base + x >= Base
      BY <1>1, <1>4 DEF Free
    <3> QED
      BY <3>1 DEF Owned
  <2>2. ASSUME NEW h \in Owned PROVE \E x \in Used : Base + x = h
    <3>1. h \in DOMAIN names /\ h >= Base /\ (h < Top \/ h \in Base..Base + len - 1)
      BY DEF IInv, FreeList, Owned
    <3>2. h \in Int
      BY <3>1 DEF IInv, TypeOK
    <3>3. h \in Base..Base + len - 1
      BY <1>4, <3>1, <3>2
    <3>4. h - Base \in 0..len - 1 /\ Base + (h - Base) = h
      BY <1>1, <1>4, <3>2, <3>3
    <3>5. h - Base \notin Free
      BY <3>1, <3>4 DEF Free
    <3> QED
      BY <3>4, <3>5
  <2> QED
    BY <2>1, <2>2
<1>6. m \in Bijection(Used, Owned)
  <2>1. m \in [Used -> Owned]
    BY <1>5
  <2>2. \A x, y \in Used : m[x] = m[y] => x = y
    <3> TAKE x, y \in Used
    <3>1. x \in Int /\ y \in Int /\ m[x] = Base + x /\ m[y] = Base + y
      BY <1>1
    <3> HIDE DEF m
    <3> QED
      BY <1>4, <3>1
  <2>3. \A h \in Owned : \E x \in Used : m[x] = h
    BY <1>5
  <2> HIDE DEF m, Used
  <2> QED
    BY <2>1, <2>2, <2>3, Fun_IsBij
<1>7. ExistsBijection(Used, Owned)
  BY <1>6 DEF ExistsBijection
<1> HIDE DEF Used
<1>8. Cardinality(Owned) = Cardinality(Used)
  BY <1>3, <1>7, FS_Bijection
<1> QED
  BY <1>3, <1>8 DEF Used

LEMMA KeptNothing == KInv => NothingKept
<1> SUFFICES ASSUME KInv PROVE NothingKept
  OBVIOUS
<1>1. IInv /\ Vacated /\ Chained
  BY DEF KInv
<1>2. Base = Top + 2 /\ Top \in Nat /\ sp \in Int /\ sp <= Top
  BY <1>1, BaseType DEF IInv, TypeOK, StackShape
<1>3. \A h \in DOMAIN cell : h >= Base /\ h \notin Owned => cell[h] = Undefined
  BY <1>1 DEF Vacated, Owned
<1>4. ASSUME mode = "heap", NEW h \in (0..Top - 1) \ Lent PROVE cell[h] = Undefined
  <2>1. h < sp
    BY <1>1, <1>2, <1>4 DEF Vacated
  <2> QED
    BY <1>1, <1>4, <2>1 DEF Vacated
<1>5. StackPointerKept
  <2> SUFFICES ASSUME mode = "heap" PROVE sp = Top - Cardinality(Lent)
    BY DEF StackPointerKept
  <2>1. Lent = sp..Top - 1
    BY <1>1 DEF Vacated
  <2>2. sp \in Int /\ Top - 1 \in Int
    BY <1>2
  <2>3. Cardinality(sp..Top - 1) = IF sp > Top - 1 THEN 0 ELSE Top - 1 - sp + 1
    BY <2>2, FS_Interval
  <2> QED
    BY <1>2, <2>1, <2>3
<1>6. live_count = Cardinality(Owned)
  <2>1. PICK f : f = CHOOSE g : Walk(g)
    OBVIOUS
  <2>2. Walk(f)
    BY <1>1, <2>1, WalkEnds
  <2>3. f[head] = Cardinality(Free)
    BY <1>1, <2>2, WalkEnds
  <2> QED
    BY <1>1, <2>1, <2>3, LiveCountIs, UsedSlots
<1> QED
  BY <1>3, <1>4, <1>5, <1>6 DEF NothingKept

\* A value that Rust gave back is not kept alive by its slot, on the slab or on
\* the glue's stack, and live_count finds as many slots as are out: the walk
\* along the free list ends, for any history of the slab.
THEOREM NothingStays == ASSUME Calm PROVE Spec => []NothingKept
<1>1. KInv /\ [Next]_vars => KInv'
  BY NextKept, StutterKept
<1> QED
  BY <1>1, InitKept, KeptNothing, PTL DEF Spec
=============================================================================
