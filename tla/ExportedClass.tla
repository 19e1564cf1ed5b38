--------------------------- MODULE ExportedClass ---------------------------
(***************************************************************************)
(* Rust values behind JavaScript classes: the impls that the macro writes  *)
(* for an exported struct (macro-support/src/codegen.rs), its cell         *)
(* Rc<WasmRefCell> (src/rt/mod.rs) and the class in the glue (js/mod.rs,   *)
(* js/binding.rs).                                                         *)
(*                                                                         *)
(* JavaScript holds one count of a cell for every object, and one of each  *)
(* ancestor's.  A call takes anchors on the cells of its receiver and      *)
(* arguments, a count and a borrow each; an async one does so when its     *)
(* future is first polled.  The value of a child owns its parent's cell.   *)
(***************************************************************************)
EXTENDS Integers, Sequences, SequencesExt, FiniteSets

CONSTANTS
  Objects,   \* values of exported classes
  None,
  parent,    \* the parent that is part of a value, or None
  Unwinds,   \* builds to check: panic=unwind or not
  Asyncs,    \* calls of async methods there may be
  MaxDepth,  \* bound: calls within calls
  MaxLost,   \* bound: anchors lost before JavaScript loses no more
  Early      \* JavaScript may give an object back although an async call of it
             \* has not begun

ASSUME ExportedClassAssumption ==
  /\ None \notin Objects
  /\ parent \in [Objects -> Objects \cup {None}]
  /\ \A c, d \in Objects : parent[c] = parent[d] /\ parent[c] # None => c = d
  /\ Unwinds \subseteq BOOLEAN /\ Early \in BOOLEAN /\ IsFiniteSet(Asyncs)
  /\ MaxDepth \in Nat /\ MaxLost \in Nat

VARIABLES
  unwind,  \* the build
  cell,    \* "none", "alive" or "freed"
  strong,  \* the strong count of the Rc
  borrow,  \* the flag of the RefCell: -1 or the number of readers
  object,  \* the JavaScript object: "none", "live", "forsaken" (unreachable)
           \* or "zero" (__wbg_ptr is null, nothing is registered)
  stack,   \* the anchors of the calls under way
  async,   \* "none", "called", "polled" or "ended", and the anchor
  lost     \* anchors, and counts of JavaScript, whose drop an exception skipped

vars == <<unwind, cell, strong, borrow, object, stack, async, lost>>
cells == <<cell, strong, borrow>>

Init ==
  /\ unwind \in Unwinds
  /\ cell = [o \in Objects |-> "none"]
  /\ strong = [o \in Objects |-> 0]
  /\ borrow = [o \in Objects |-> 0]
  /\ object = [o \in Objects |-> "none"]
  /\ stack = <<>>
  /\ async = [a \in Asyncs |-> [at |-> "none", anchor |-> None]]
  /\ lost = <<>>

-----------------------------------------------------------------------------
One(b) == IF b THEN 1 ELSE 0

\* JavaScript makes objects of these; the other values come as their parents.
Leaves == {o \in Objects : \A c \in Objects : parent[c] # o}

\* A value and the parents in it.
Line(o) ==
  {x \in Objects : \A S \in SUBSET Objects :
     (o \in S /\ \A y \in S : parent[y] # None => parent[y] \in S) => x \in S}

\* How many of the anchors are on the cell of o, and of a kind.
Number(anchors, o, kinds) ==
  Cardinality({i \in DOMAIN anchors : anchors[i].of = o /\ anchors[i].kind \in kinds})

Counted == {"ref", "mut", "count"}

\* RefCell::try_borrow and try_borrow_mut, once the anchors before are taken.
Grants(before, x) ==
  LET Held(kinds) == Number(before, x.of, kinds) > 0 IN
  IF x.kind = "ref" THEN borrow[x.of] >= 0 /\ ~Held({"mut"})
  ELSE borrow[x.of] = 0 /\ ~Held({"ref", "mut"})

\* Mutant: an RcRef that counts nothing.
Take_Uncounted(anchors) ==
  /\ UNCHANGED strong
  /\ borrow' = [o \in Objects |->
       IF Number(anchors, o, {"mut"}) > 0 THEN -1
       ELSE borrow[o] + Number(anchors, o, {"ref"})]

\* RcRef::new, RcRefMut::new: a count and a borrow.
Take(anchors) ==
  /\ strong' = [o \in Objects |-> strong[o] + Number(anchors, o, Counted)]
  /\ borrow' = [o \in Objects |->
       IF Number(anchors, o, {"mut"}) > 0 THEN -1
       ELSE borrow[o] + Number(anchors, o, {"ref"})]

\* Counts are dropped, the last one of a cell with the value, and the value
\* with the count of its parent's cell.
DropCounts(n) ==
  \E gone \in SUBSET Objects :
    LET left == [o \in Objects |->
          strong[o] - n[o] - Cardinality({c \in gone : parent[c] = o})]
    IN
    /\ gone = {o \in Objects : cell[o] = "alive" /\ left[o] = 0}
    /\ strong' = left
    /\ cell' = [o \in Objects |-> IF o \in gone THEN "freed" ELSE cell[o]]

\* Anchors are dropped, the borrow before the count.
Drop(anchors) ==
  /\ borrow' = [o \in Objects |->
       IF Number(anchors, o, {"mut"}) > 0 THEN 0
       ELSE borrow[o] - Number(anchors, o, {"ref"})]
  /\ DropCounts([o \in Objects |-> Number(anchors, o, Counted)])

\* An exception that runs no destructors passes those who hold anchors.
Lose(anchors) == lost' = lost \o anchors

-----------------------------------------------------------------------------
\* Objects.

\* JavaScript runs: from the event loop, or in an import under a call.
Reachable(x) == \E o \in Leaves : object[o] = "live" /\ x \in Line(o)

\* IntoWasmAbi::into_abi and __wrap: a cell with one count for JavaScript, and
\* by the upcast functions one more of each ancestor.
New(o) ==
  /\ cell[o] = "none"
  /\ cell' = [x \in Objects |-> IF x \in Line(o) THEN "alive" ELSE cell[x]]
  /\ strong' = [x \in Objects |->
       IF x \in Line(o) THEN 1 + One(x # o) ELSE strong[x]]
  /\ object' = [object EXCEPT ![o] = "live"]
  /\ UNCHANGED <<unwind, borrow, stack, async, lost>>

Unbegun(o) == \E a \in Asyncs : async[a].at = "called" /\ async[a].anchor.of \in Line(o)

\* Mutant: the object is not unregistered.
GiveBack_Registered(o) ==
  /\ object[o] = "live" /\ strong[o] = 1
  /\ Early \/ ~Unbegun(o)
  /\ object' = [object EXCEPT ![o] = "forsaken"]
  /\ DropCounts([x \in Objects |-> One(x \in Line(o))])
  /\ UNCHANGED <<unwind, borrow, stack, async, lost>>

\* free(), or a call by value: __destroy_into_raw gives up the pointer, the
\* registration and the ancestors' counts; then from_abi claims the value.  If
\* it is in use, throw_str passes with the last count of JavaScript.
GiveBack(o) ==
  /\ object[o] = "live"
  /\ Early \/ ~Unbegun(o)
  /\ object' = [object EXCEPT ![o] = "zero"]
  /\ LET claimed == strong[o] = 1 IN
     /\ DropCounts([x \in Objects |-> One(x \in Line(o) /\ (x # o \/ claimed))])
     /\ claimed \/ Len(lost) < MaxLost
     /\ Lose(IF claimed THEN <<>> ELSE <<[of |-> o, kind |-> "count"]>>)
  /\ UNCHANGED <<unwind, borrow, stack, async>>

Forsake(o) ==
  /\ object[o] = "live"
  /\ object' = [object EXCEPT ![o] = "forsaken"]
  /\ UNCHANGED <<unwind, cells, stack, async, lost>>

\* Mutant: the finalizer frees the object's own cell only.
Finalize_Own(o) ==
  /\ stack = <<>> /\ object[o] = "forsaken"
  /\ \A a \in Asyncs : async[a].at # "called"
  /\ object' = [object EXCEPT ![o] = "zero"]
  /\ DropCounts([x \in Objects |-> One(x = o)])
  /\ UNCHANGED <<unwind, borrow, stack, async, lost>>

\* The FinalizationRegistry calls the free functions with allow_delayed: a task
\* of the event loop, after the microtasks that begin async calls.
Finalize(o) ==
  /\ stack = <<>> /\ object[o] = "forsaken"
  /\ \A a \in Asyncs : async[a].at # "called"
  /\ object' = [object EXCEPT ![o] = "zero"]
  /\ DropCounts([x \in Objects |-> One(x \in Line(o))])
  /\ UNCHANGED <<unwind, borrow, stack, async, lost>>

-----------------------------------------------------------------------------
\* Calls.

\* The first anchor that is refused: null (in a release build the glue passes
\* the zero of an object given back), or a conflicting borrow.
Refused(args, i) ==
  \/ args[i].kind = "null"
  \/ args[i].kind # "null" /\ ~Grants(SubSeq(args, 1, i - 1), args[i])

FirstRefused(args, i) ==
  Refused(args, i) /\ \A j \in 1..i - 1 : ~Refused(args, j)

Passable(x) ==
  IF x.kind = "null" THEN object[x.of] = "zero" ELSE Reachable(x.of)

\* Mutant: readers are not looked for.
Enter_Aliased(args) ==
  /\ Len(stack) < MaxDepth
  /\ \A i \in DOMAIN args : Passable(args[i]) /\ args[i].kind # "null"
  /\ Take(args)
  /\ stack' = Append(stack, args)
  /\ UNCHANGED <<unwind, cell, object, async, lost>>

\* A method is called on objects that can be borrowed as it asks for.
Enter(args) ==
  /\ Len(stack) < MaxDepth
  /\ \A i \in DOMAIN args : Passable(args[i]) /\ ~Refused(args, i)
  /\ Take(args)
  /\ stack' = Append(stack, args)
  /\ UNCHANGED <<unwind, cell, object, async, lost>>

\* Or on others: assert_not_null throws, in every build past the anchors that
\* are taken already; borrow_fail panics or throws, then past the count, too.
Fails(args) ==
  /\ Len(lost) < MaxLost
  /\ \A i \in DOMAIN args : Passable(args[i])
  /\ \E i \in DOMAIN args :
       /\ FirstRefused(args, i)
       /\ LET before == SubSeq(args, 1, i - 1)
              count == [of |-> args[i].of, kind |-> "count"]
              gone == CASE args[i].kind = "null" -> before
                        [] args[i].kind # "null" /\ unwind -> <<>>
                        [] args[i].kind # "null" /\ ~unwind -> Append(before, count)
          IN
          Take(gone) /\ Lose(gone)
  /\ UNCHANGED <<unwind, cell, object, stack, async>>

\* The call returns, or unwinds.
Return ==
  /\ stack # <<>>
  /\ Drop(Last(stack))
  /\ stack' = Front(stack)
  /\ UNCHANGED <<unwind, object, async, lost>>

\* A trap, a panic that aborts, or an exception of an import without catch.
Throw ==
  /\ stack # <<>> /\ Len(lost) < MaxLost
  /\ Lose(Last(stack))
  /\ stack' = Front(stack)
  /\ UNCHANGED <<unwind, cells, object, async>>

-----------------------------------------------------------------------------
\* Async calls: the wrapper moves the bare pointer into a future.

Call(a, x) ==
  /\ async[a].at = "none"
  /\ Passable(x) /\ x.kind # "null"
  /\ async' = [async EXCEPT ![a] = [at |-> "called", anchor |-> x]]
  /\ UNCHANGED <<unwind, cells, object, stack, lost>>

\* long_ref_from_abi, ref_mut_from_abi in the first poll, a microtask.
Begin(a) ==
  LET x == async[a].anchor IN
  /\ stack = <<>> /\ async[a].at = "called"
  /\ IF Grants(<<>>, x)
     THEN /\ Take(<<x>>)
          /\ async' = [async EXCEPT ![a].at = "polled"]
          /\ UNCHANGED lost
     ELSE /\ LET gone == IF unwind THEN <<>> ELSE <<[of |-> x.of, kind |-> "count"]>> IN
             Take(gone) /\ Lose(gone)
          /\ async' = [async EXCEPT ![a].at = "ended"]
  /\ UNCHANGED <<unwind, cell, object, stack>>

End(a) ==
  /\ stack = <<>> /\ async[a].at = "polled"
  /\ Drop(<<async[a].anchor>>)
  /\ async' = [async EXCEPT ![a].at = "ended"]
  /\ UNCHANGED <<unwind, object, stack, lost>>

-----------------------------------------------------------------------------
Anchors == [of : Objects, kind : {"ref", "mut", "null"}]
Args == UNION {[1..n -> Anchors] : n \in 1..2}

Next ==
  \/ \E o \in Leaves : New(o) \/ GiveBack(o) \/ Forsake(o) \/ Finalize(o)
  \/ \E args \in Args : Enter(args) \/ Fails(args)
  \/ Return \/ Throw
  \/ \E a \in Asyncs : Begin(a) \/ End(a) \/ \E x \in Anchors : Call(a, x)

Spec == Init /\ [][Next]_vars

\* Calls return and async calls end, whatever else is called; the host collects
\* garbage in time.
FairSpec ==
  /\ Spec
  /\ \A k \in 1..MaxDepth : SF_vars(Len(stack) = k /\ (Return \/ Throw))
  /\ \A a \in Asyncs : SF_vars(Begin(a)) /\ SF_vars(End(a))
  /\ \A o \in Leaves : SF_vars(Finalize(o))
-----------------------------------------------------------------------------
\* The anchors there are: of calls, of futures, and lost ones.
InCalls ==
  [p \in UNION {{k} \X DOMAIN stack[k] : k \in DOMAIN stack} |-> stack[p[1]][p[2]]]

Running ==
  [a \in {b \in Asyncs : async[b].at = "polled"} |-> async[a].anchor]

Holding(o, kinds) ==
  Number(InCalls, o, kinds) + Number(Running, o, kinds) + Number(lost, o, kinds)

TypeOK ==
  /\ unwind \in Unwinds
  /\ cell \in [Objects -> {"none", "alive", "freed"}]
  /\ strong \in [Objects -> Nat]
  /\ borrow \in [Objects -> {-1} \cup Nat]
  /\ object \in [Objects -> {"none", "live", "forsaken", "zero"}]
  /\ stack \in Seq(Args)
  /\ async \in [Asyncs -> [at : {"none", "called", "polled", "ended"},
                          anchor : Anchors \cup {None}]]
  /\ lost \in Seq([of : Objects, kind : Counted])

\* The count of a cell is the number of its owners: JavaScript objects, a value
\* it is the parent of, anchors; what was lost is leaked, and a cell lives as
\* long as it is counted.
CountExact ==
  \A o \in Objects :
    /\ cell[o] = "alive" <=> strong[o] > 0
    /\ strong[o] = Holding(o, Counted)
         + Cardinality({x \in Leaves : object[x] \in {"live", "forsaken"} /\ o \in Line(x)})
         + Cardinality({c \in Objects : parent[c] = o /\ cell[c] = "alive"})

\* "Guard accidental reentrancy": one writer or any number of readers have a
\* value, synchronous, nested and async calls taken together, and the flag of
\* the cell says which.
NoAliasing ==
  \A o \in Objects :
    LET readers == Holding(o, {"ref"})
        writers == Holding(o, {"mut"})
    IN
    /\ writers = 0 \/ (writers = 1 /\ readers = 0)
    /\ cell[o] = "alive" => borrow[o] = readers - writers

\* Whoever will use the pointer of a cell finds the cell alive: objects, calls
\* under way, and async calls, "for the whole length of the Future".
PointersValid ==
  /\ \A o \in Leaves : object[o] \in {"live", "forsaken"} =>
       \A x \in Line(o) : cell[x] = "alive"
  /\ \A a \in Asyncs : async[a].at \in {"called", "polled"} =>
       cell[async[a].anchor.of] = "alive"
  /\ \A o \in Objects : Number(InCalls, o, Counted) > 0 => cell[o] = "alive"

\* A value whose object was given back or collected is freed in the end, with
\* its parents, unless an exception lost an anchor on it.
NoLeak ==
  \A o \in Leaves :
    object[o] \in {"zero", "forsaken"} ~>
      \A x \in Line(o) : cell[x] = "freed" \/ \E i \in DOMAIN lost : x \in Line(lost[i].of)
=============================================================================
