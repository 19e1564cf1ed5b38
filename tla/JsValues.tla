------------------------------ MODULE JsValues ------------------------------
(***************************************************************************)
(* The tables that hold JavaScript values for wasm.  Rust knows a value by *)
(* an index: of a slot it owns, in a slab with a free list, or of a slot   *)
(* on the stack below, lent for the time of a call.                        *)
(*                                                                         *)
(* There are two of them.  "externref": a wasm table, the slab of          *)
(* src/externref.rs and the shims that transforms/externref/mod.rs puts    *)
(* around exports.  "heap": the array `heap` in the glue of js/mod.rs, and *)
(* the try and finally that js/binding.rs puts around calls.               *)
(***************************************************************************)
EXTENDS Integers, Sequences, SequencesExt, FiniteSets

CONSTANTS
  Values,         \* values that JavaScript passes
  Undefined,      \* what an empty slot holds; also the first constant
  Null,           \* the other constant (of four)
  Modes,          \* builds to check
  Top,            \* slots of the stack: 1024
  Chunk,          \* by which an empty slab grows: 128
  MaxSlots,       \* bound: slots the slab can grow to
  MaxArgs,        \* bound: borrowed arguments of a call
  EarlyFailure    \* in heap mode, a conversion may throw before the pushes are done

Fixed == <<Undefined, Null>>
Base == Top + Len(Fixed)  \* JSIDX_RESERVED

ASSUME JsValuesAssumption ==
  /\ Modes \subseteq {"externref", "heap"}
  /\ {Undefined, Null} \cap Values = {} /\ Undefined # Null
  /\ Top \in Nat \ {0} /\ Chunk \in Nat \ {0}
  /\ MaxSlots \in Nat /\ MaxArgs \in Nat
  /\ EarlyFailure \in BOOLEAN

VARIABLES
  mode,    \* the build
  cell,    \* the table, or heap: a value for every index there is
  link,    \* Slab.data: the next free slot (indices of the slab start at 0)
  len,     \* slots of the slab ever used
  cap,     \* slots of the slab there are
  head,    \* the first free slot, len if there is none
  sp,      \* stack_pointer
  frames,  \* calls with borrowed arguments: where their slots begin, how many
  names    \* what the indices in Rust's hands stand for

vars == <<mode, cell, link, len, cap, head, sp, frames, names>>
slab == <<link, len, cap, head>>

Cells == Values \cup {Undefined, Null}
Empty(n) == [i \in 0..n - 1 |-> IF i \in Top..Base - 1 THEN Fixed[i - Top + 1] ELSE Undefined]

Init ==
  /\ mode \in Modes
  /\ cell = Empty(Base)
  /\ link = <<>> /\ len = 0 /\ cap = 0 /\ head = 0
  /\ sp = Top /\ frames = <<>>
  /\ names = <<>>

Slots(from, n) == from..from + n - 1
Lent == {h \in DOMAIN names : h < Top}
Owned == {h \in DOMAIN names : h >= Base}

-----------------------------------------------------------------------------
\* The slab.

\* By how much a full slab grows: heap.push, or table.grow and
\* try_reserve_exact.
Extra == IF mode = "heap" THEN 1 ELSE IF len > Chunk THEN len ELSE Chunk

\* Mutant: a slot that comes from the free list stays at its head.
Pop_Again(fresh) == head' = IF fresh THEN link'[head] ELSE head

Pop(fresh) == head' = link'[head]

\* Mutant: the vector grows, the table does not.
Store_Fixed(slot, v) == cell' = [cell EXCEPT ![slot] = v]

Store(slot, v) ==
  cell' = [i \in 0..Base + cap' - 1 |->
    IF i = slot THEN v ELSE IF i \in DOMAIN cell THEN cell[i] ELSE Undefined]

\* Slab::alloc and the table.set after it, addHeapObject: the first free slot,
\* or a new one, goes out for v.  (A table that cannot grow is an error.)
Alloc(v, believed) ==
  LET fresh == head = len
      slot == Base + head
  IN
  /\ cap' = IF fresh /\ len = cap THEN cap + Extra ELSE cap
  /\ cap' <= MaxSlots
  /\ len' = IF fresh THEN len + 1 ELSE len
  /\ link' = IF fresh THEN [i \in 0..len |-> IF i = len THEN len + 1 ELSE link[i]] ELSE link
  /\ Pop(fresh)
  /\ Store(slot, v)
  /\ names' = [h \in DOMAIN names \cup {slot} |-> IF h = slot THEN believed ELSE names[h]]

\* A value enters wasm for good: an owned argument, the result of an import, an
\* exception that handleError stores.
Own(v) == Alloc(v, v) /\ UNCHANGED <<mode, sp, frames>>

\* __wbindgen_object_clone_ref, of an owned, a lent or a constant handle.
CloneRef(h) ==
  /\ \/ h \in DOMAIN names /\ Alloc(cell[h], names[h])
     \/ h \in Top..Base - 1 /\ Alloc(cell[h], Fixed[h - Top + 1])
  /\ UNCHANGED <<mode, sp, frames>>

\* Mutant: the slot is not linked into the free list.
Release_Unlinked(h) ==
  /\ h \in Owned
  /\ cell' = [cell EXCEPT ![h] = Undefined]
  /\ names' = [i \in DOMAIN names \ {h} |-> names[i]]
  /\ UNCHANGED <<mode, link, len, cap, head, sp, frames>>

\* __externref_table_dealloc and Slab::dealloc, dropObject: a JsValue is
\* dropped, or leaves for JavaScript (takeObject, the shim of an import).  An
\* index below JSIDX_RESERVED changes nothing.
Release(h) ==
  /\ h \in Owned
  /\ cell' = [cell EXCEPT ![h] = Undefined]
  /\ link' = [link EXCEPT ![h - Base] = head]
  /\ head' = h - Base
  /\ names' = [i \in DOMAIN names \ {h} |-> names[i]]
  /\ UNCHANGED <<mode, len, cap, sp, frames>>

\* live_count: the used slots without those of the free list.
live_count ==
  LET free[i \in 0..len] == IF i = len THEN 0 ELSE 1 + free[link[i]]
  IN  len - free[head]

-----------------------------------------------------------------------------
\* The stack.

\* In heap mode slot 0 is not used: "out of js stack".
Room(n) == sp - n >= IF mode = "heap" THEN 1 ELSE 0

\* A call lends args: the shim stores them upwards from its frame pointer, the
\* glue pushes them one by one.
Enter(args) ==
  LET n == Len(args)
      fp == sp - n
      Arg(i) == args[IF mode = "heap" THEN fp + n - i ELSE i - fp + 1]
  IN
  /\ n > 0 /\ Room(n)
  /\ sp' = fp
  /\ frames' = Append(frames, [fp |-> fp, n |-> n])
  /\ cell' = [i \in DOMAIN cell |-> IF i \in Slots(fp, n) THEN Arg(i) ELSE cell[i]]
  /\ names' = [h \in DOMAIN names \cup Slots(fp, n) |-> IF h \in Slots(fp, n) THEN Arg(h) ELSE names[h]]
  /\ UNCHANGED <<mode, slab>>

\* The shim moves the pointer before its first store fails.
Overflow(n) ==
  /\ mode = "externref" /\ n > 0 /\ ~Room(n)
  /\ sp >= 0 \* bound: the pointer falls on
  /\ sp' = sp - n
  /\ UNCHANGED <<mode, cell, slab, frames, names>>

\* Of n borrowed arguments `done` are pushed when a check or a conversion throws
\* (all of them, when the call itself takes offence at some other argument),
\* and `finally` pops all n: heap[stack_pointer++] = undefined.
Refuse(n, done) ==
  /\ mode = "heap"
  /\ done = n \/ (EarlyFailure /\ done < n)
  /\ Room(done)
  /\ LET from == sp - done IN
     /\ from + n <= Base \* bound: the pointer climbs on
     /\ cell' = [i \in DOMAIN cell |-> IF i \in Slots(from, n) THEN Undefined ELSE cell[i]]
     /\ sp' = from + n
  /\ UNCHANGED <<mode, slab, frames, names>>

\* The call of the last frame is over: its arguments are not lent any more.
Leave(f) ==
  /\ frames # <<>> /\ f = Last(frames)
  /\ frames' = Front(frames)
  /\ names' = [h \in DOMAIN names \ Slots(f.fp, f.n) |-> names[h]]

Pave(from, n) ==
  /\ cell' = [i \in DOMAIN cell |-> IF i \in Slots(from, n) THEN Undefined ELSE cell[i]]
  /\ sp' = from + n

\* Mutant: every return empties the stack.
Return_All ==
  \E f \in Range(frames) :
    /\ Leave(f)
    /\ cell' = [i \in DOMAIN cell |-> IF i \in Slots(f.fp, f.n) THEN Undefined ELSE cell[i]]
    /\ sp' = Top
    /\ UNCHANGED <<mode, slab>>

\* The call returns: the shim paves over its slots and restores the pointer
\* from its own frame; `finally` counts it up from wherever it is.
Return ==
  \E f \in Range(frames) :
    /\ Leave(f)
    /\ Pave(IF mode = "heap" THEN sp ELSE f.fp, f.n)
    /\ UNCHANGED <<mode, slab>>

\* A JavaScript exception, a panic or a trap ends the call: `finally` runs, the
\* end of the shim does not.
Throw ==
  \E f \in Range(frames) :
    /\ Leave(f)
    /\ IF mode = "heap" THEN Pave(sp, f.n) ELSE UNCHANGED <<cell, sp>>
    /\ UNCHANGED <<mode, slab>>

\* __wbg_reset_state between two calls: the heap of the glue is made anew, the
\* table comes with the new instance.
Reset ==
  /\ frames = <<>>
  /\ cell' = Empty(Base)
  /\ link' = <<>> /\ len' = 0 /\ cap' = 0 /\ head' = 0
  /\ sp' = Top
  /\ names' = <<>>
  /\ UNCHANGED <<mode, frames>>
-----------------------------------------------------------------------------
Next ==
  \/ \E v \in Values : Own(v)
  \/ \E h \in DOMAIN cell : CloneRef(h) \/ Release(h)
  \/ \E n \in 1..MaxArgs :
       \/ \E args \in [1..n -> Values] : Enter(args)
       \/ Overflow(n)
       \/ \E done \in 0..n : Refuse(n, done)
  \/ Return \/ Throw \/ Reset

Spec == Init /\ [][Next]_vars
-----------------------------------------------------------------------------
TypeOK ==
  /\ mode \in Modes
  /\ len \in 0..cap /\ cap \in 0..MaxSlots /\ head \in 0..len
  /\ link \in [0..len - 1 -> 0..len]
  /\ cell \in [0..Base + cap - 1 -> Cells]
  /\ sp \in Int /\ sp <= Base
  /\ frames \in Seq([fp : 0..Base, n : 1..MaxArgs])
  /\ DOMAIN names \subseteq DOMAIN cell
  /\ \A h \in DOMAIN names : names[h] \in Cells

\* Every index that Rust holds stands for the value it was made from, in the
\* slab and on the stack, and the constants stand for themselves.
HandlesHold ==
  /\ \A h \in DOMAIN names : cell[h] = names[h]
  /\ \A h \in Top..Base - 1 : cell[h] = Fixed[h - Top + 1]

\* "Our `stack_pointer` points to where we should start writing stack objects":
\* in the glue, below the slots that are lent and nothing else.
StackPointerKept == mode = "heap" => sp = Top - Cardinality(Lent)

\* A value that Rust gave back is not kept alive, and its slot is used again:
\* free slots of the slab and of the glue's stack hold nothing, and
\* externref_heap_live_count, a walk along the free list, finds the slots that
\* are out and no others.
NothingKept ==
  /\ \A h \in DOMAIN cell : h >= Base /\ h \notin Owned => cell[h] = Undefined
  /\ mode = "heap" => \A h \in (0..Top - 1) \ Lent : cell[h] = Undefined
  /\ StackPointerKept
  /\ live_count = Cardinality(Owned)

Contract == INSTANCE HandleContract WITH names <- [h \in DOMAIN names |-> cell[h]]

\* Both tables keep the contract, read from the slots themselves.
ImplementsContract == Contract!Spec
=============================================================================
