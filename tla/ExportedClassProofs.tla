------------------------- MODULE ExportedClassProofs -------------------------
(***************************************************************************)
(* Proofs about ExportedClass, for any values, any inheritance among their *)
(* classes and any number of calls, synchronous, nested and async: a value *)
(* has one writer or readers and the flag of its cell says which, the      *)
(* counts of the cells are exact, and who will use a pointer finds its     *)
(* cell alive.                                                             *)
(***************************************************************************)
EXTENDS ExportedClass, SequenceTheorems, FiniteSetTheorems, FunctionTheorems, TLAPS

-----------------------------------------------------------------------------
(***************************************************************************)
(* Lines: a value with its parents.  No value is in two.                   *)
(***************************************************************************)
LEMMA LineFacts ==
  ASSUME NEW o \in Objects
  PROVE  /\ Line(o) \subseteq Objects /\ o \in Line(o)
         /\ \A y \in Line(o) : parent[y] # None => parent[y] \in Line(o)
         /\ \A x \in Line(o) : x # o => \E y \in Line(o) : parent[y] = x
<1> DEFINE Closed(S) == o \in S /\ \A y \in S : parent[y] # None => parent[y] \in S
<1>1. \A x : x \in Line(o) <=> x \in Objects /\ \A S \in SUBSET Objects : Closed(S) => x \in S
  BY DEF Line
<1>2. o \in Line(o)
  BY <1>1
<1>3. ASSUME NEW y \in Line(o), parent[y] # None PROVE parent[y] \in Line(o)
  <2>1. y \in Objects /\ parent[y] \in Objects
    BY <1>1, <1>3, ExportedClassAssumption
  <2>2. ASSUME NEW S \in SUBSET Objects, Closed(S) PROVE parent[y] \in S
    BY <1>1, <1>3, <2>2
  <2> QED
    BY <1>1, <2>1, <2>2
<1>4. ASSUME NEW x \in Line(o), x # o PROVE \E y \in Line(o) : parent[y] = x
  <2> SUFFICES ASSUME \A y \in Line(o) : parent[y] # x PROVE FALSE
    OBVIOUS
  <2> DEFINE S == Line(o) \ {x}
  <2>1. S \in SUBSET Objects
    BY <1>1
  <2>2. Closed(S)
    BY <1>2, <1>3, <1>4
  <2> HIDE DEF Closed, S
  <2>3. x \in S
    BY <1>1, <2>1, <2>2
  <2> QED
    BY <2>3 DEF S
<1> QED
  BY <1>1, <1>2, <1>3, <1>4

LEMMA LineLeast ==
  ASSUME NEW o \in Objects, NEW S \in SUBSET Objects, o \in S,
         \A y \in S : parent[y] # None => parent[y] \in S
  PROVE  Line(o) \subseteq S
BY DEF Line

LEMMA LinesApart ==
  ASSUME NEW o \in Leaves, NEW q \in Leaves, NEW x, x \in Line(o), x \in Line(q)
  PROVE  o = q
<1> SUFFICES ASSUME o # q PROVE FALSE
  OBVIOUS
<1> DEFINE S == Line(o) \ Line(q)
<1>1. o \in Objects /\ q \in Objects /\ \A c \in Objects : parent[c] # o /\ parent[c] # q
  BY DEF Leaves
<1>2. o \in S
  BY <1>1, LineFacts
<1>3. ASSUME NEW y \in S, parent[y] # None PROVE parent[y] \in S
  <2>1. y \in Objects /\ parent[y] \in Line(o)
    BY <1>1, <1>3, LineFacts
  <2>2. ASSUME parent[y] \in Line(q) PROVE FALSE
    <3>1. PICK z \in Line(q) : parent[z] = parent[y]
      BY <1>1, <2>1, <2>2, LineFacts
    <3>2. z \in Objects /\ z = y
      BY <1>1, <1>3, <2>1, <3>1, LineFacts, ExportedClassAssumption
    <3> QED
      BY <3>1, <3>2
  <2> QED
    BY <2>1, <2>2
<1>4. S \in SUBSET Objects
  BY <1>1, LineFacts
<1> HIDE DEF S
<1>5. Line(o) \subseteq S
  BY <1>1, <1>2, <1>3, <1>4, LineLeast
<1> QED
  BY <1>5 DEF S

-----------------------------------------------------------------------------
(***************************************************************************)
(* Counting anchors.                                                       *)
(***************************************************************************)
Chosen(f, o, kinds) == {i \in DOMAIN f : f[i].of = o /\ f[i].kind \in kinds}

LEMMA NumberType ==
  ASSUME NEW f, IsFiniteSet(DOMAIN f), NEW o, NEW kinds
  PROVE  /\ IsFiniteSet(Chosen(f, o, kinds)) /\ Number(f, o, kinds) = Cardinality(Chosen(f, o, kinds))
         /\ Number(f, o, kinds) \in Nat
         /\ Number(f, o, kinds) > 0 <=> \E i \in DOMAIN f : f[i].of = o /\ f[i].kind \in kinds
<1>1. Chosen(f, o, kinds) \in SUBSET DOMAIN f
  BY DEF Chosen
<1>2. IsFiniteSet(Chosen(f, o, kinds))
  BY <1>1, FS_Subset
<1>3. Number(f, o, kinds) = Cardinality(Chosen(f, o, kinds))
  BY DEF Number, Chosen
<1>4. /\ Cardinality(Chosen(f, o, kinds)) \in Nat
      /\ Cardinality(Chosen(f, o, kinds)) = 0 <=> Chosen(f, o, kinds) = {}
  BY <1>2, FS_CardinalityType, FS_EmptySet
<1>5. Chosen(f, o, kinds) # {} <=> \E i \in DOMAIN f : f[i].of = o /\ f[i].kind \in kinds
  BY DEF Chosen
<1> QED
  BY <1>2, <1>3, <1>4, <1>5

LEMMA NumberMonotone ==
  ASSUME NEW f, IsFiniteSet(DOMAIN f), NEW o, NEW kinds, NEW more, kinds \subseteq more
  PROVE  Number(f, o, kinds) <= Number(f, o, more)
<1>1. Chosen(f, o, kinds) \in SUBSET Chosen(f, o, more)
  BY DEF Chosen
<1> QED
  BY <1>1, NumberType, FS_Subset

\* The anchors of h are those of f and, renamed by m, those of g.
Joined(f, g, m, h) ==
  /\ DOMAIN f \subseteq DOMAIN h /\ \A i \in DOMAIN f : h[i] = f[i]
  /\ m \in [DOMAIN g -> DOMAIN h \ DOMAIN f]
  /\ \A i, j \in DOMAIN g : m[i] = m[j] => i = j
  /\ \A k \in DOMAIN h \ DOMAIN f : \E i \in DOMAIN g : m[i] = k
  /\ \A i \in DOMAIN g : h[m[i]] = g[i]

LEMMA NumberJoin ==
  ASSUME NEW f, NEW g, NEW m, NEW h, IsFiniteSet(DOMAIN f), IsFiniteSet(DOMAIN g),
         Joined(f, g, m, h), NEW o, NEW kinds
  PROVE  Number(h, o, kinds) = Number(f, o, kinds) + Number(g, o, kinds)
<1> DEFINE F == Chosen(f, o, kinds)
           G == Chosen(g, o, kinds)
           T == {m[i] : i \in G}
           n == [i \in G |-> m[i]]
<1>1. IsFiniteSet(F) /\ IsFiniteSet(G) /\ Cardinality(F) \in Nat /\ Cardinality(G) \in Nat
  BY NumberType
<1>2. n \in Bijection(G, T)
  BY DEF Bijection, Injection, Surjection, IsInjective, Chosen, Joined
<1>3. ExistsBijection(G, T)
  BY <1>2 DEF ExistsBijection
<1>4. IsFiniteSet(T) /\ Cardinality(T) = Cardinality(G)
  <2> HIDE DEF G, T
  <2> QED
    BY <1>1, <1>3, FS_Bijection
<1>5. F \cap T = {} /\ Chosen(h, o, kinds) = F \cup T
  <2>1. F \cap T = {}
    BY DEF Chosen, Joined
  <2>2. F \cup T \subseteq Chosen(h, o, kinds)
    BY DEF Chosen, Joined
  <2>3. Chosen(h, o, kinds) \subseteq F \cup T
    BY DEF Chosen, Joined
  <2> QED
    BY <2>1, <2>2, <2>3
<1>6. Cardinality(F \cup T) = Cardinality(F) + Cardinality(T)
  <2> HIDE DEF F, T
  <2>1. Cardinality(F \cup T) = Cardinality(F) + Cardinality(T) - Cardinality({})
    BY <1>1, <1>4, <1>5, FS_Union
  <2> QED
    BY <1>1, <1>4, <2>1, FS_EmptySet
<1> QED
  BY <1>4, <1>5, <1>6 DEF Number, Chosen

LEMMA NumberEmpty == ASSUME NEW o, NEW kinds PROVE Number(<<>>, o, kinds) = 0
<1>1. {i \in DOMAIN <<>> : <<>>[i].of = o /\ <<>>[i].kind \in kinds} = {}
  OBVIOUS
<1> QED
  BY <1>1, FS_EmptySet DEF Number

LEMMA NumberSingle ==
  ASSUME NEW x, NEW o, NEW kinds
  PROVE  Number(<<x>>, o, kinds) = One(x.of = o /\ x.kind \in kinds)
<1>1. {i \in DOMAIN <<x>> : <<x>>[i].of = o /\ <<x>>[i].kind \in kinds}
        = IF x.of = o /\ x.kind \in kinds THEN {1} ELSE {}
  OBVIOUS
<1>2. Cardinality({1}) = 1 /\ Cardinality({}) = 0
  BY FS_Singleton, FS_EmptySet
<1> QED
  BY <1>1, <1>2 DEF Number, One

LEMMA SeqFinite ==
  ASSUME NEW S, NEW s \in Seq(S)
  PROVE  Len(s) \in Nat /\ DOMAIN s = 1..Len(s) /\ IsFiniteSet(DOMAIN s)
<1>1. Len(s) \in Nat /\ DOMAIN s = 1..Len(s)
  BY LenProperties
<1>2. 1 \in Int /\ Len(s) \in Int
  BY <1>1
<1> QED
  BY <1>1, <1>2, FS_Interval

LEMMA NumberConcat ==
  ASSUME NEW S, NEW s \in Seq(S), NEW t \in Seq(S), NEW o, NEW kinds
  PROVE  Number(s \o t, o, kinds) = Number(s, o, kinds) + Number(t, o, kinds)
<1> DEFINE h == s \o t
           m == [i \in DOMAIN t |-> i + Len(s)]
<1>1. /\ Len(s) \in Nat /\ DOMAIN s = 1..Len(s) /\ IsFiniteSet(DOMAIN s)
      /\ Len(t) \in Nat /\ DOMAIN t = 1..Len(t) /\ IsFiniteSet(DOMAIN t)
  BY SeqFinite
<1>2. /\ h \in Seq(S) /\ Len(h) = Len(s) + Len(t) /\ DOMAIN h = 1..Len(s) + Len(t)
      /\ \A i \in 1..Len(s) : h[i] = s[i]
      /\ \A i \in 1..Len(t) : h[i + Len(s)] = t[i]
  <2>1. /\ h \in Seq(S) /\ Len(h) = Len(s) + Len(t)
        /\ \A i \in 1..Len(s) + Len(t) : h[i] = IF i <= Len(s) THEN s[i] ELSE t[i - Len(s)]
    BY ConcatProperties
  <2> HIDE DEF h
  <2>2. DOMAIN h = 1..Len(s) + Len(t)
    BY <2>1, LenProperties
  <2>3. ASSUME NEW i \in 1..Len(t) PROVE h[i + Len(s)] = t[i]
    <3>1. i + Len(s) \in 1..Len(s) + Len(t) /\ ~(i + Len(s) <= Len(s)) /\ (i + Len(s)) - Len(s) = i
      BY <1>1
    <3> QED
      BY <2>1, <3>1
  <2>4. ASSUME NEW i \in 1..Len(s) PROVE h[i] = s[i]
    BY <1>1, <2>1
  <2> QED
    BY <2>1, <2>2, <2>3, <2>4
<1> HIDE DEF h
<1>3. m \in [DOMAIN t -> DOMAIN h \ DOMAIN s]
  BY <1>1, <1>2
<1>4. /\ \A i, j \in DOMAIN t : m[i] = m[j] => i = j
      /\ \A i \in DOMAIN t : h[m[i]] = t[i]
  <2>1. \A i \in DOMAIN t : i \in Nat /\ m[i] = i + Len(s)
    BY <1>1
  <2> HIDE DEF m
  <2> QED
    BY <1>1, <1>2, <2>1
<1>5. ASSUME NEW k \in DOMAIN h \ DOMAIN s PROVE \E i \in DOMAIN t : m[i] = k
  <2>1. k - Len(s) \in DOMAIN t /\ m[k - Len(s)] = k
    BY <1>1, <1>2
  <2> QED
    BY <2>1
<1>6. DOMAIN s \subseteq DOMAIN h /\ \A i \in DOMAIN s : h[i] = s[i]
  BY <1>1, <1>2
<1> HIDE DEF m
<1>7. Joined(s, t, m, h)
  BY <1>3, <1>4, <1>5, <1>6 DEF Joined
<1>8. Number(h, o, kinds) = Number(s, o, kinds) + Number(t, o, kinds)
  BY <1>1, <1>7, NumberJoin
<1> QED
  BY <1>8 DEF h

-----------------------------------------------------------------------------
(***************************************************************************)
(* The anchors of the calls, of the futures and the lost ones.             *)
(***************************************************************************)
LEMMA ArgsSeq ==
  ASSUME NEW args \in Args
  PROVE  args \in Seq(Anchors) /\ Len(args) \in 1..2 /\ DOMAIN args = 1..Len(args)
         /\ \A i \in 1..Len(args) : args[i] \in Anchors
<1>1. PICK n \in 1..2 : args \in [1..n -> Anchors]
  BY DEF Args
<1>2. n \in Nat
  BY <1>1
<1>3. args \in Seq(Anchors)
  BY <1>1, <1>2, SeqDef
<1>4. Len(args) \in Nat /\ DOMAIN args = 1..Len(args) /\ DOMAIN args = 1..n
  BY <1>1, <1>3, SeqFinite
<1>5. Len(args) = n
  <2>1. \A i \in Nat : 1 <= i /\ i <= Len(args) <=> 1 <= i /\ i <= n
    BY <1>4
  <2> QED
    BY <1>1, <1>2, <1>4, <2>1
<1> QED
  BY <1>1, <1>3, <1>4, <1>5

LEMMA OneOrTwo == ASSUME NEW n \in 1..2, NEW i \in 1..n PROVE i \in 1..2
OBVIOUS

\* InCalls and Running, of any stack and any calls.
Places(s) == UNION {{k} \X DOMAIN s[k] : k \in DOMAIN s}
Placed(s) == [p \in Places(s) |-> s[p[1]][p[2]]]
Polled(f) == [a \in {b \in Asyncs : f[b].at = "polled"} |-> f[a].anchor]

Sited(s) ==
  /\ IsFiniteSet(DOMAIN Placed(s)) /\ DOMAIN Placed(s) = Places(s)
  /\ \A p : p \in Places(s) <=> \E k \in 1..Len(s) : \E i \in 1..Len(s[k]) : p = <<k, i>>
  /\ \A k \in 1..Len(s) : \A i \in 1..Len(s[k]) : Placed(s)[<<k, i>>] = s[k][i]

LEMMA PlacesFinite == ASSUME NEW s \in Seq(Args) PROVE Sited(s)
<1>1. DOMAIN s = 1..Len(s) /\ Len(s) \in Nat /\ IsFiniteSet(DOMAIN s)
  BY SeqFinite
<1>2. \A k \in 1..Len(s) : s[k] \in Args
  BY ElementOfSeq
<1>3. \A k \in 1..Len(s) : DOMAIN s[k] = 1..Len(s[k]) /\ Len(s[k]) \in 1..2
  BY <1>2, ArgsSeq
<1>4. ASSUME NEW p
      PROVE  p \in Places(s) <=> \E k \in 1..Len(s) : \E i \in 1..Len(s[k]) : p = <<k, i>>
  BY <1>1, <1>3 DEF Places
<1>5. Places(s) \in SUBSET ((1..Len(s)) \X (1..2))
  <2> SUFFICES ASSUME NEW p \in Places(s) PROVE p \in (1..Len(s)) \X (1..2)
    OBVIOUS
  <2>1. PICK k \in 1..Len(s), i \in Nat : i \in 1..Len(s[k]) /\ p = <<k, i>>
    BY <1>4
  <2>2. Len(s[k]) \in 1..2
    BY <1>3
  <2>3. i \in 1..2
    BY <2>1, <2>2, OneOrTwo
  <2> QED
    BY <2>1, <2>3
<1>6. IsFiniteSet(Places(s))
  <2>1. IsFiniteSet(1..Len(s)) /\ IsFiniteSet(1..2)
    <3>1. 1 \in Int /\ 2 \in Int
      OBVIOUS
    <3> QED
      BY <1>1, <3>1, FS_Interval
  <2>2. IsFiniteSet((1..Len(s)) \X (1..2))
    BY <2>1, FS_Product
  <2> QED
    BY <1>5, <2>2, FS_Subset
<1>7. DOMAIN Placed(s) = Places(s) /\ \A p \in Places(s) : Placed(s)[p] = s[p[1]][p[2]]
  BY DEF Placed
<1>8. ASSUME NEW k \in 1..Len(s), NEW i \in 1..Len(s[k]) PROVE Placed(s)[<<k, i>>] = s[k][i]
  BY <1>4, <1>7
<1> QED
  BY <1>4, <1>6, <1>7, <1>8 DEF Sited

LEMMA PlacedPush ==
  ASSUME NEW s \in Seq(Args), NEW args \in Args, NEW o, NEW kinds
  PROVE  Number(Placed(Append(s, args)), o, kinds) = Number(Placed(s), o, kinds) + Number(args, o, kinds)
<1> DEFINE t == Append(s, args)
           n == Len(s) + 1
           m == [i \in DOMAIN args |-> <<n, i>>]
<1>1. /\ t \in Seq(Args) /\ Len(t) = n /\ t[n] = args /\ Len(s) \in Nat /\ n \in 1..n
      /\ \A k \in 1..Len(s) : t[k] = s[k]
  BY AppendProperties, SeqFinite
<1>2. DOMAIN args = 1..Len(args) /\ IsFiniteSet(DOMAIN args)
  BY ArgsSeq, SeqFinite
<1>3. /\ IsFiniteSet(DOMAIN Placed(s)) /\ DOMAIN Placed(s) = Places(s)
      /\ \A p : p \in Places(s) <=> \E k \in 1..Len(s) : \E i \in 1..Len(s[k]) : p = <<k, i>>
      /\ \A k \in 1..Len(s) : \A i \in 1..Len(s[k]) : Placed(s)[<<k, i>>] = s[k][i]
  <2>1. Sited(s)
    BY PlacesFinite
  <2> QED
    BY <2>1 DEF Sited
<1> HIDE DEF t
<1>4. /\ DOMAIN Placed(t) = Places(t)
      /\ \A p : p \in Places(t) <=> \E k \in 1..n : \E i \in 1..Len(t[k]) : p = <<k, i>>
      /\ \A k \in 1..n : \A i \in 1..Len(t[k]) : Placed(t)[<<k, i>>] = t[k][i]
  <2>1. Sited(t)
    BY <1>1, PlacesFinite
  <2> QED
    BY <1>1, <2>1 DEF Sited
<1> HIDE DEF n
<1>5. n \notin 1..Len(s) /\ n \in 1..n /\ \A k : k \in 1..n <=> k \in 1..Len(s) \/ k = n
  BY <1>1 DEF n
<1>6. ASSUME NEW p
      PROVE  p \in Places(t) <=> p \in Places(s) \/ \E i \in 1..Len(args) : p = <<n, i>>
  <2>1. ASSUME p \in Places(t) PROVE p \in Places(s) \/ \E i \in 1..Len(args) : p = <<n, i>>
    <3>1. PICK k \in 1..n, i \in Nat : i \in 1..Len(t[k]) /\ p = <<k, i>>
      BY <1>4, <2>1
    <3>2. CASE k = n
      BY <1>1, <3>1, <3>2
    <3>3. CASE k \in 1..Len(s)
      <4>1. i \in 1..Len(s[k])
        BY <1>1, <3>1, <3>3
      <4> QED
        BY <1>3, <3>1, <3>3, <4>1
    <3> QED
      BY <1>5, <3>2, <3>3
  <2>2. ASSUME p \in Places(s) PROVE p \in Places(t)
    <3>1. PICK k \in 1..Len(s), i \in Nat : i \in 1..Len(s[k]) /\ p = <<k, i>>
      BY <1>3, <2>2
    <3>2. k \in 1..n /\ i \in 1..Len(t[k])
      BY <1>1, <1>5, <3>1
    <3> QED
      BY <1>4, <3>1, <3>2
  <2>3. ASSUME NEW i \in 1..Len(args), p = <<n, i>> PROVE p \in Places(t)
    <3>1. i \in 1..Len(t[n])
      BY <1>1
    <3> QED
      BY <1>4, <1>5, <2>3, <3>1
  <2> QED
    BY <2>1, <2>2, <2>3
<1>7. \A i : <<n, i>> \notin Places(s)
  BY <1>3, <1>5
<1>8. Joined(Placed(s), args, m, Placed(t))
  <2>1. \A p \in Places(s) : p \in Places(t) /\ Placed(t)[p] = Placed(s)[p]
    BY <1>1, <1>3, <1>4, <1>5
  <2>2. \A i \in 1..Len(args) : m[i] = <<n, i>> /\ <<n, i>> \in Places(t) /\ Placed(t)[<<n, i>>] = args[i]
    BY <1>1, <1>2, <1>4, <1>5
  <2>3. m \in [DOMAIN args -> Places(t) \ Places(s)]
    BY <1>2, <1>6, <1>7
  <2>4. \A k \in Places(t) \ Places(s) : \E i \in DOMAIN args : m[i] = k
    BY <1>2, <1>6, <2>2
  <2>5. \A i, j \in DOMAIN args : m[i] = m[j] => i = j
    BY <1>2, <2>2
  <2> HIDE DEF m
  <2> QED
    BY <1>2, <1>3, <1>4, <2>1, <2>2, <2>3, <2>4, <2>5 DEF Joined
<1> HIDE DEF m
<1>9. Number(Placed(t), o, kinds) = Number(Placed(s), o, kinds) + Number(args, o, kinds)
  BY <1>2, <1>3, <1>8, NumberJoin
<1> QED
  BY <1>9 DEF t

LEMMA PolledFinite == ASSUME NEW f PROVE IsFiniteSet(DOMAIN Polled(f))
<1>1. DOMAIN Polled(f) \in SUBSET Asyncs
  BY DEF Polled
<1> QED
  BY <1>1, ExportedClassAssumption, FS_Subset

\* One call more that was polled.
LEMMA PolledOne ==
  ASSUME NEW f, NEW g, NEW a \in Asyncs, f[a].at # "polled", g[a].at = "polled",
         \A b \in Asyncs : b # a => g[b] = f[b], NEW o, NEW kinds
  PROVE  Number(Polled(g), o, kinds)
           = Number(Polled(f), o, kinds) + Number(<<g[a].anchor>>, o, kinds)
<1> DEFINE m == [i \in 1..1 |-> a]
           one == <<g[a].anchor>>
<1>1. DOMAIN one = 1..1 /\ IsFiniteSet(DOMAIN one) /\ one[1] = g[a].anchor
  <2>1. 1 \in Int /\ DOMAIN one = 1..1 /\ one[1] = g[a].anchor
    OBVIOUS
  <2>2. IsFiniteSet(1..1)
    BY <2>1, FS_Interval
  <2> QED
    BY <2>1, <2>2
<1>2. /\ \A b : b \in DOMAIN Polled(f) <=> b \in Asyncs /\ f[b].at = "polled"
      /\ \A b : b \in DOMAIN Polled(g) <=> b \in Asyncs /\ g[b].at = "polled"
      /\ \A b \in DOMAIN Polled(f) : Polled(f)[b] = f[b].anchor
      /\ \A b \in DOMAIN Polled(g) : Polled(g)[b] = g[b].anchor
  BY DEF Polled
<1>3. DOMAIN Polled(g) \ DOMAIN Polled(f) = {a} /\ DOMAIN Polled(f) \subseteq DOMAIN Polled(g)
  BY <1>2
<1>4. m[1] = a /\ m \in [1..1 -> {a}]
  OBVIOUS
<1> HIDE DEF m, one
<1>5. Joined(Polled(f), one, m, Polled(g))
  BY <1>1, <1>2, <1>3, <1>4 DEF Joined
<1>6. Number(Polled(g), o, kinds) = Number(Polled(f), o, kinds) + Number(one, o, kinds)
  BY <1>1, <1>5, PolledFinite, NumberJoin
<1> QED
  BY <1>6 DEF one

LEMMA PolledSame ==
  ASSUME NEW f, NEW g, \A a \in Asyncs : g[a].at = "polled" <=> f[a].at = "polled",
         \A a \in Asyncs : g[a].at = "polled" => g[a].anchor = f[a].anchor
  PROVE  Polled(g) = Polled(f)
<1> DEFINE D == {b \in Asyncs : f[b].at = "polled"}
           E == {b \in Asyncs : g[b].at = "polled"}
<1>1. \A b : b \in D <=> b \in E
  OBVIOUS
<1>2. D = E /\ \A a \in D : g[a].anchor = f[a].anchor
  BY <1>1
<1>3. Polled(f) = [a \in D |-> f[a].anchor] /\ Polled(g) = [a \in E |-> g[a].anchor]
  BY DEF Polled
<1> HIDE DEF D, E
<1> QED
  BY <1>2, <1>3

-----------------------------------------------------------------------------
(***************************************************************************)
(* Types that need no argument about the counts: calls that began and      *)
(* async calls have anchors that are not null.                             *)
(***************************************************************************)
Whole == [of : Objects, kind : {"ref", "mut"}]
Losable == [of : Objects, kind : Counted]
Full == {args \in Args : \A i \in DOMAIN args : args[i] \in Whole}

Shape ==
  /\ unwind \in Unwinds
  /\ cell \in [Objects -> {"none", "alive", "freed"}]
  /\ strong \in [Objects -> Int] /\ borrow \in [Objects -> Int]
  /\ object \in [Objects -> {"none", "live", "forsaken", "zero"}]
  /\ stack \in Seq(Full)
  /\ async \in [Asyncs -> [at : {"none", "called", "polled", "ended"},
                          anchor : Anchors \cup {None}]]
  /\ \A a \in Asyncs : async[a].at # "none" => async[a].anchor \in Whole
  /\ lost \in Seq(Losable)

LEMMA FullArgs ==
  ASSUME NEW args \in Full
  PROVE  /\ args \in Args /\ args \in Seq(Whole) /\ args \in Seq(Losable)
         /\ Len(args) \in 1..2 /\ DOMAIN args = 1..Len(args) /\ IsFiniteSet(DOMAIN args)
<1>1. args \in Args /\ \A i \in DOMAIN args : args[i] \in Whole
  BY DEF Full
<1>2. /\ args \in Seq(Anchors) /\ Len(args) \in 1..2 /\ DOMAIN args = 1..Len(args)
  BY <1>1, ArgsSeq
<1>3. args \in [1..Len(args) -> Whole]
  BY <1>1, <1>2
<1>4. Len(args) \in Nat
  BY <1>2
<1>5. args \in Seq(Whole)
  BY <1>3, <1>4, SeqDef
<1>6. Whole \subseteq Losable
  BY DEF Whole, Losable, Counted
<1>7. args \in Seq(Losable)
  BY <1>5, <1>6, SeqMonotonic
<1> QED
  BY <1>1, <1>2, <1>5, <1>7, SeqFinite

LEMMA StackFull ==
  ASSUME NEW s \in Seq(Full) PROVE s \in Seq(Args)
<1>1. Full \subseteq Args
  BY DEF Full
<1> QED
  BY <1>1, SeqMonotonic

LEMMA FrontLast ==
  ASSUME NEW S, NEW s \in Seq(S), s # <<>>
  PROVE  /\ Front(s) \in Seq(S) /\ Last(s) \in S /\ Append(Front(s), Last(s)) = s
         /\ Len(s) \in Nat \ {0}
<1>1. Len(s) \in Nat \ {0} /\ Last(s) \in S
  BY EmptySeq, ElementOfSeq DEF Last
<1>2. /\ Front(s) \in Seq(S) /\ Len(Front(s)) = Len(s) - 1
      /\ \A k \in 1..Len(s) - 1 : Front(s)[k] = s[k]
  <2> DEFINE m == Len(s) - 1
  <2>1. m \in Nat /\ \A i \in 1..m : s[i] \in S
    BY <1>1, ElementOfSeq
  <2>2. /\ SubSeq(s, 1, m) \in Seq(S) /\ Len(SubSeq(s, 1, m)) = IF 1 <= m THEN m - 1 + 1 ELSE 0
        /\ \A i \in 1..m - 1 + 1 : SubSeq(s, 1, m)[i] = s[1 + i - 1]
    <3> HIDE DEF m
    <3> QED
      BY <2>1, SubSeqProperties
  <2>3. Front(s) = SubSeq(s, 1, m)
    BY DEF Front
  <2> HIDE DEF m
  <2>4. Len(Front(s)) = m /\ \A i \in 1..m : Front(s)[i] = s[i]
    BY <2>1, <2>2, <2>3
  <2> QED
    BY <2>2, <2>3, <2>4 DEF m
<1>3. Append(Front(s), Last(s)) = s
  <2> DEFINE t == Append(Front(s), Last(s))
  <2>1. /\ t \in Seq(S) /\ Len(t) = Len(s) /\ t[Len(s)] = Last(s)
        /\ \A k \in 1..Len(s) - 1 : t[k] = s[k]
    BY <1>1, <1>2, AppendProperties
  <2>2. \A k \in 1..Len(s) : t[k] = s[k]
    BY <1>1, <2>1 DEF Last
  <2> HIDE DEF t
  <2>3. t = s
    BY <2>1, <2>2, SeqEqual
  <2> QED
    BY <2>3 DEF t
<1> QED
  BY <1>1, <1>2, <1>3

-----------------------------------------------------------------------------
(***************************************************************************)
(* What a step does to the anchors there are.                              *)
(***************************************************************************)
LEMMA HoldingIs ==
  ASSUME NEW o, NEW kinds
  PROVE  /\ Holding(o, kinds) = Number(Placed(stack), o, kinds)
              + Number(Polled(async), o, kinds) + Number(lost, o, kinds)
         /\ Holding(o, kinds)' = Number(Placed(stack'), o, kinds)
              + Number(Polled(async'), o, kinds) + Number(lost', o, kinds)
BY DEF Holding, InCalls, Running, Placed, Places, Polled, Number

LEMMA PartsType ==
  ASSUME NEW s \in Seq(Full), NEW f, NEW l \in Seq(Losable), NEW o, NEW kinds
  PROVE  /\ Number(Placed(s), o, kinds) \in Nat /\ Number(Polled(f), o, kinds) \in Nat
         /\ Number(l, o, kinds) \in Nat
<1>1. IsFiniteSet(DOMAIN Placed(s))
  BY StackFull, PlacesFinite DEF Sited
<1>2. IsFiniteSet(DOMAIN Polled(f)) /\ IsFiniteSet(DOMAIN l)
  BY PolledFinite, SeqFinite
<1> QED
  BY <1>1, <1>2, NumberType

LEMMA HoldingType ==
  ASSUME Shape, NEW o
  PROVE  /\ \A kinds : Holding(o, kinds) \in Nat
         /\ Holding(o, Counted) = 0 => Holding(o, {"ref"}) = 0 /\ Holding(o, {"mut"}) = 0
<1>1. stack \in Seq(Full) /\ lost \in Seq(Losable)
  BY DEF Shape
<1>2. \A kinds : /\ Number(Placed(stack), o, kinds) \in Nat
                 /\ Number(Polled(async), o, kinds) \in Nat
                 /\ Number(lost, o, kinds) \in Nat
  BY <1>1, PartsType
<1>3. ASSUME NEW kinds, kinds \subseteq Counted
      PROVE  /\ Number(Placed(stack), o, kinds) <= Number(Placed(stack), o, Counted)
             /\ Number(Polled(async), o, kinds) <= Number(Polled(async), o, Counted)
             /\ Number(lost, o, kinds) <= Number(lost, o, Counted)
  <2>1. IsFiniteSet(DOMAIN Placed(stack))
    BY <1>1, StackFull, PlacesFinite DEF Sited
  <2>2. IsFiniteSet(DOMAIN Polled(async)) /\ IsFiniteSet(DOMAIN lost)
    BY <1>1, PolledFinite, SeqFinite
  <2> QED
    BY <1>3, <2>1, <2>2, NumberMonotone
<1>4. {"ref"} \subseteq Counted /\ {"mut"} \subseteq Counted
  BY DEF Counted
<1>5. \A kinds : Holding(o, kinds) \in Nat
  BY <1>2, HoldingIs
<1>6. \A kinds : kinds \subseteq Counted => Holding(o, kinds) <= Holding(o, Counted)
  BY <1>2, <1>3, HoldingIs
<1> QED
  BY <1>4, <1>5, <1>6

Same == \A o, kinds : Holding(o, kinds)' = Holding(o, kinds)
Added(s) == \A o, kinds : Holding(o, kinds)' = Holding(o, kinds) + Number(s, o, kinds)
Dropped(s) == \A o, kinds : Holding(o, kinds) = Holding(o, kinds)' + Number(s, o, kinds)

LEMMA Untouched == ASSUME stack' = stack, Polled(async') = Polled(async), lost' = lost PROVE Same
BY HoldingIs DEF Same

LEMMA PushAdds ==
  ASSUME Shape, NEW args \in Full, stack' = Append(stack, args), async' = async, lost' = lost
  PROVE  stack' \in Seq(Full) /\ Added(args)
<1>1. stack \in Seq(Full) /\ stack \in Seq(Args) /\ lost \in Seq(Losable) /\ args \in Args
      /\ IsFiniteSet(DOMAIN args)
  BY StackFull, FullArgs DEF Shape
<1>2. \A o, kinds : /\ Number(Placed(stack'), o, kinds)
                         = Number(Placed(stack), o, kinds) + Number(args, o, kinds)
                    /\ Number(Placed(stack), o, kinds) \in Nat
                    /\ Number(Polled(async), o, kinds) \in Nat
                    /\ Number(lost, o, kinds) \in Nat /\ Number(args, o, kinds) \in Nat
  BY <1>1, PlacedPush, PartsType, NumberType
<1> QED
  BY <1>1, <1>2, HoldingIs, AppendProperties DEF Added

LEMMA PopDrops ==
  ASSUME Shape, stack # <<>>, stack' = Front(stack), async' = async, lost' = lost
  PROVE  stack' \in Seq(Full) /\ Last(stack) \in Full /\ Dropped(Last(stack))
<1>1. PICK f \in Seq(Full), args \in Full :
        f = Front(stack) /\ args = Last(stack) /\ Append(f, args) = stack
  BY FrontLast DEF Shape
<1>2. f \in Seq(Args) /\ lost \in Seq(Losable) /\ args \in Args /\ IsFiniteSet(DOMAIN args)
  BY StackFull, FullArgs DEF Shape
<1>3. \A o, kinds : /\ Number(Placed(stack), o, kinds)
                         = Number(Placed(f), o, kinds) + Number(args, o, kinds)
                    /\ Number(Placed(f), o, kinds) \in Nat
                    /\ Number(Polled(async), o, kinds) \in Nat
                    /\ Number(lost, o, kinds) \in Nat /\ Number(args, o, kinds) \in Nat
  <2>1. \A o, kinds : Number(Placed(Append(f, args)), o, kinds)
                       = Number(Placed(f), o, kinds) + Number(args, o, kinds)
    BY <1>2, PlacedPush
  <2>2. \A o, kinds : Number(Placed(f), o, kinds) \in Nat /\ Number(Polled(async), o, kinds) \in Nat
                      /\ Number(lost, o, kinds) \in Nat /\ Number(args, o, kinds) \in Nat
    BY <1>2, PartsType, NumberType
  <2> QED
    BY <1>1, <2>1, <2>2
<1> QED
  BY <1>1, <1>3, HoldingIs DEF Dropped

LEMMA PopLoses ==
  ASSUME Shape, stack # <<>>, stack' = Front(stack), async' = async,
         lost' = lost \o Last(stack)
  PROVE  stack' \in Seq(Full) /\ lost' \in Seq(Losable) /\ Same
<1>1. PICK f \in Seq(Full), args \in Full :
        f = Front(stack) /\ args = Last(stack) /\ Append(f, args) = stack
  BY FrontLast DEF Shape
<1>2. f \in Seq(Args) /\ lost \in Seq(Losable) /\ args \in Args /\ args \in Seq(Losable)
      /\ IsFiniteSet(DOMAIN args)
  BY StackFull, FullArgs DEF Shape
<1>3. \A o, kinds : /\ Number(Placed(stack), o, kinds)
                         = Number(Placed(f), o, kinds) + Number(args, o, kinds)
                    /\ Number(lost', o, kinds) = Number(lost, o, kinds) + Number(args, o, kinds)
                    /\ Number(Placed(f), o, kinds) \in Nat
                    /\ Number(Polled(async), o, kinds) \in Nat
                    /\ Number(lost, o, kinds) \in Nat /\ Number(args, o, kinds) \in Nat
  <2>1. \A o, kinds : Number(Placed(Append(f, args)), o, kinds)
                       = Number(Placed(f), o, kinds) + Number(args, o, kinds)
    BY <1>2, PlacedPush
  <2>2. \A o, kinds : Number(Placed(f), o, kinds) \in Nat /\ Number(Polled(async), o, kinds) \in Nat
                      /\ Number(lost, o, kinds) \in Nat /\ Number(args, o, kinds) \in Nat
    BY <1>2, PartsType, NumberType
  <2>3. \A o, kinds : Number(lost \o args, o, kinds) = Number(lost, o, kinds) + Number(args, o, kinds)
    BY <1>2, NumberConcat
  <2> QED
    BY <1>1, <2>1, <2>2, <2>3
<1> QED
  BY <1>1, <1>2, <1>3, HoldingIs, ConcatProperties DEF Same

LEMMA LoseAdds ==
  ASSUME Shape, NEW s \in Seq(Losable), lost' = lost \o s, stack' = stack,
         Polled(async') = Polled(async)
  PROVE  lost' \in Seq(Losable) /\ Added(s)
<1>1. lost \in Seq(Losable) /\ stack \in Seq(Full) /\ IsFiniteSet(DOMAIN s)
  BY SeqFinite DEF Shape
<1>2. \A o, kinds : /\ Number(lost', o, kinds) = Number(lost, o, kinds) + Number(s, o, kinds)
                    /\ Number(Placed(stack), o, kinds) \in Nat
                    /\ Number(Polled(async), o, kinds) \in Nat
                    /\ Number(lost, o, kinds) \in Nat /\ Number(s, o, kinds) \in Nat
  BY <1>1, NumberConcat, PartsType, NumberType
<1> QED
  BY <1>1, <1>2, HoldingIs, ConcatProperties DEF Added

LEMMA BeginAdds ==
  ASSUME Shape, NEW a \in Asyncs, async[a].at # "polled", async'[a].at = "polled",
         \A b \in Asyncs : b # a => async'[b] = async[b], stack' = stack, lost' = lost
  PROVE  Added(<<async'[a].anchor>>)
<1>1. lost \in Seq(Losable) /\ stack \in Seq(Full)
  BY DEF Shape
<1>2. \A o, kinds : /\ Number(Polled(async'), o, kinds)
                         = Number(Polled(async), o, kinds) + Number(<<async'[a].anchor>>, o, kinds)
                    /\ Number(Placed(stack), o, kinds) \in Nat
                    /\ Number(Polled(async), o, kinds) \in Nat
                    /\ Number(lost, o, kinds) \in Nat
                    /\ Number(<<async'[a].anchor>>, o, kinds) \in Nat
  <2>1. \A o, kinds : Number(Polled(async'), o, kinds)
                       = Number(Polled(async), o, kinds) + Number(<<async'[a].anchor>>, o, kinds)
    BY PolledOne
  <2>2. \A o, kinds : Number(<<async'[a].anchor>>, o, kinds) \in Nat
    BY NumberSingle DEF One
  <2> QED
    BY <1>1, <2>1, <2>2, PartsType
<1> QED
  BY <1>2, HoldingIs DEF Added

LEMMA EndDrops ==
  ASSUME Shape, NEW a \in Asyncs, async[a].at = "polled", async'[a].at # "polled",
         \A b \in Asyncs : b # a => async'[b] = async[b], stack' = stack, lost' = lost
  PROVE  Dropped(<<async[a].anchor>>)
<1>1. lost \in Seq(Losable) /\ stack \in Seq(Full)
  BY DEF Shape
<1>2. \A o, kinds : /\ Number(Polled(async), o, kinds)
                         = Number(Polled(async'), o, kinds) + Number(<<async[a].anchor>>, o, kinds)
                    /\ Number(Placed(stack), o, kinds) \in Nat
                    /\ Number(Polled(async'), o, kinds) \in Nat
                    /\ Number(lost, o, kinds) \in Nat
                    /\ Number(<<async[a].anchor>>, o, kinds) \in Nat
  BY <1>1, PolledOne, PartsType, NumberSingle DEF One
<1> QED
  BY <1>2, HoldingIs DEF Dropped

-----------------------------------------------------------------------------
(***************************************************************************)
(* Borrows.  The flag of a cell says who has the value, alive or not.      *)
(***************************************************************************)
Flags ==
  \A o \in Objects :
    /\ borrow[o] = Holding(o, {"ref"}) - Holding(o, {"mut"})
    /\ Holding(o, {"mut"}) = 0 \/ (Holding(o, {"mut"}) = 1 /\ Holding(o, {"ref"}) = 0)

\* Anchors the cells can give, taken together.
Granted(s) ==
  \A o \in Objects :
    /\ Number(s, o, {"mut"}) > 0 =>
         borrow[o] = 0 /\ Number(s, o, {"mut"}) = 1 /\ Number(s, o, {"ref"}) = 0
    /\ Number(s, o, {"ref"}) > 0 => borrow[o] >= 0

LEMMA TakeFlags ==
  ASSUME Shape, Flags, NEW s, IsFiniteSet(DOMAIN s), Granted(s), Take(s), Added(s)
  PROVE  Flags' /\ borrow' \in [Objects -> Int] /\ strong' \in [Objects -> Int]
<1>1. /\ strong' = [o \in Objects |-> strong[o] + Number(s, o, Counted)]
      /\ borrow' = [o \in Objects |-> IF Number(s, o, {"mut"}) > 0 THEN -1
                                     ELSE borrow[o] + Number(s, o, {"ref"})]
  BY DEF Take
<1>2. \A o, kinds : Number(s, o, kinds) \in Nat
  BY NumberType
<1>3. strong \in [Objects -> Int] /\ borrow \in [Objects -> Int]
  BY DEF Shape
<1>4. ASSUME NEW o \in Objects
      PROVE  /\ borrow'[o] = Holding(o, {"ref"})' - Holding(o, {"mut"})'
             /\ \/ Holding(o, {"mut"})' = 0
                \/ (Holding(o, {"mut"})' = 1 /\ Holding(o, {"ref"})' = 0)
  <2>1. /\ Holding(o, {"ref"}) \in Nat /\ Holding(o, {"mut"}) \in Nat
        /\ Holding(o, {"ref"})' = Holding(o, {"ref"}) + Number(s, o, {"ref"})
        /\ Holding(o, {"mut"})' = Holding(o, {"mut"}) + Number(s, o, {"mut"})
    BY HoldingType DEF Added
  <2>2. /\ borrow[o] = Holding(o, {"ref"}) - Holding(o, {"mut"})
        /\ Holding(o, {"mut"}) = 0 \/ (Holding(o, {"mut"}) = 1 /\ Holding(o, {"ref"}) = 0)
    BY DEF Flags
  <2>3. borrow'[o] = IF Number(s, o, {"mut"}) > 0 THEN -1 ELSE borrow[o] + Number(s, o, {"ref"})
    BY <1>1
  <2>4. /\ Number(s, o, {"mut"}) > 0 =>
             borrow[o] = 0 /\ Number(s, o, {"mut"}) = 1 /\ Number(s, o, {"ref"}) = 0
        /\ Number(s, o, {"ref"}) > 0 => borrow[o] >= 0
    BY DEF Granted
  <2> QED
    BY <1>2, <2>1, <2>2, <2>3, <2>4
<1> QED
  BY <1>1, <1>2, <1>3, <1>4 DEF Flags

\* The flags, where anchors are dropped.
Freed(s) ==
  borrow' = [o \in Objects |-> IF Number(s, o, {"mut"}) > 0 THEN 0
                             ELSE borrow[o] - Number(s, o, {"ref"})]

LEMMA DropFlags ==
  ASSUME Shape, Shape', Flags, NEW s, IsFiniteSet(DOMAIN s), Freed(s), Dropped(s)
  PROVE  Flags'
<1>1. \A o, kinds : Number(s, o, kinds) \in Nat
  BY NumberType
<1>2. ASSUME NEW o \in Objects
      PROVE  /\ borrow'[o] = Holding(o, {"ref"})' - Holding(o, {"mut"})'
             /\ \/ Holding(o, {"mut"})' = 0
                \/ (Holding(o, {"mut"})' = 1 /\ Holding(o, {"ref"})' = 0)
  <2>1. \A kinds : Holding(o, kinds)' \in Nat
    <3>1. stack' \in Seq(Full) /\ lost' \in Seq(Losable)
      BY DEF Shape
    <3> QED
      BY <3>1, HoldingIs, PartsType
  <2>2. /\ Holding(o, {"ref"}) = Holding(o, {"ref"})' + Number(s, o, {"ref"})
        /\ Holding(o, {"mut"}) = Holding(o, {"mut"})' + Number(s, o, {"mut"})
    BY DEF Dropped
  <2>3. /\ borrow[o] = Holding(o, {"ref"}) - Holding(o, {"mut"})
        /\ Holding(o, {"mut"}) = 0 \/ (Holding(o, {"mut"}) = 1 /\ Holding(o, {"ref"}) = 0)
    BY DEF Flags
  <2>4. borrow'[o] = IF Number(s, o, {"mut"}) > 0 THEN 0 ELSE borrow[o] - Number(s, o, {"ref"})
    BY DEF Freed
  <2>5. \A kinds : Holding(o, kinds)' \in Int /\ Holding(o, kinds)' >= 0
    BY <2>1
  <2> QED
    BY <1>1, <2>2, <2>3, <2>4, <2>5
<1> QED
  BY <1>2 DEF Flags

\* Or none but counts are taken.
LEMMA KeptFlags ==
  ASSUME Flags, borrow' = borrow,
         \A o : /\ Holding(o, {"ref"})' = Holding(o, {"ref"})
                /\ Holding(o, {"mut"})' = Holding(o, {"mut"})
  PROVE  Flags'
BY DEF Flags

\* What is not refused is granted.
LEMMA PrefixGranted ==
  ASSUME NEW args \in Args, NEW n \in 0..Len(args), \A j \in 1..n : ~Refused(args, j)
  PROVE  /\ SubSeq(args, 1, n) \in Seq(Whole) /\ SubSeq(args, 1, n) \in Seq(Losable)
         /\ Len(SubSeq(args, 1, n)) = n /\ \A j \in 1..n : SubSeq(args, 1, n)[j] = args[j]
         /\ Granted(SubSeq(args, 1, n))
<1>1. /\ Len(args) \in Nat /\ DOMAIN args = 1..Len(args)
      /\ \A i \in 1..Len(args) : args[i] \in Anchors
  BY ArgsSeq
<1>2. ASSUME NEW m \in 0..Len(args)
      PROVE  /\ SubSeq(args, 1, m) \in Seq(Anchors) /\ Len(SubSeq(args, 1, m)) = m
             /\ DOMAIN SubSeq(args, 1, m) = 1..m /\ IsFiniteSet(1..m)
             /\ \A j \in 1..m : SubSeq(args, 1, m)[j] = args[j]
  <2>1. /\ m \in Int /\ 1 \in Int /\ \A i \in 1..m : args[i] \in Anchors
    BY <1>1
  <2>2. /\ SubSeq(args, 1, m) \in Seq(Anchors)
        /\ Len(SubSeq(args, 1, m)) = IF 1 <= m THEN m - 1 + 1 ELSE 0
        /\ \A i \in 1..m - 1 + 1 : SubSeq(args, 1, m)[i] = args[1 + i - 1]
    BY <2>1, SubSeqProperties
  <2>3. Len(SubSeq(args, 1, m)) = m /\ \A i \in 1..m : SubSeq(args, 1, m)[i] = args[i]
    BY <1>1, <2>1, <2>2
  <2> QED
    BY <2>2, <2>3, SeqFinite
<1> DEFINE s == SubSeq(args, 1, n)
<1>3. /\ s \in Seq(Anchors) /\ Len(s) = n /\ DOMAIN s = 1..n /\ IsFiniteSet(DOMAIN s)
      /\ \A j \in 1..n : s[j] = args[j]
  BY <1>2
<1> HIDE DEF s
<1>4. ASSUME NEW j \in 1..n
      PROVE  /\ j - 1 \in 0..Len(args) /\ args[j] \in Anchors /\ args[j].kind # "null"
             /\ Grants(SubSeq(args, 1, j - 1), args[j])
  BY <1>1 DEF Refused
<1>5. ASSUME NEW j \in 1..n, NEW i \in 1..j - 1, args[i].of = args[j].of
      PROVE  args[i].kind # "mut" /\ (args[j].kind = "mut" => args[i].kind # "ref")
  <2> DEFINE b == SubSeq(args, 1, j - 1)
  <2>1. DOMAIN b = 1..j - 1 /\ IsFiniteSet(DOMAIN b) /\ b[i] = args[i]
    BY <1>2, <1>4
  <2> HIDE DEF b
  <2>2. \A kinds : args[i].kind \in kinds => Number(b, args[j].of, kinds) > 0
    BY <1>5, <2>1, NumberType
  <2>3. Grants(b, args[j])
    BY <1>4 DEF b
  <2> QED
    BY <1>4, <2>2, <2>3 DEF Grants, Anchors
<1>6. \A j \in 1..n : /\ args[j].kind = "mut" => borrow[args[j].of] = 0
                      /\ args[j].kind = "ref" => borrow[args[j].of] >= 0
  BY <1>4 DEF Grants
<1>7. s \in Seq(Whole) /\ s \in Seq(Losable)
  <2>1. \A j \in 1..n : s[j] \in Whole
    BY <1>3, <1>4 DEF Anchors, Whole
  <2>2. n \in Nat /\ s \in [1..n -> Anchors]
    BY <1>1, <1>3, LenProperties
  <2>3. s \in [1..n -> Whole]
    BY <2>1, <2>2
  <2>4. s \in Seq(Whole)
    BY <2>2, <2>3, SeqDef
  <2>5. Whole \subseteq Losable
    BY DEF Whole, Losable, Counted
  <2> QED
    BY <2>4, <2>5, SeqMonotonic
<1>8. ASSUME NEW o \in Objects, Number(s, o, {"mut"}) > 0
      PROVE  borrow[o] = 0 /\ Number(s, o, {"mut"}) = 1 /\ Number(s, o, {"ref"}) = 0
  <2>1. PICK i \in 1..n : args[i].of = o /\ args[i].kind = "mut"
    BY <1>3, <1>8, NumberType
  <2>2. ASSUME NEW j \in 1..n, j # i, args[j].of = o PROVE args[j].kind \notin {"ref", "mut"}
    <3>1. CASE j < i
      <4>1. j \in 1..i - 1
        BY <3>1
      <4> QED
        BY <1>5, <2>1, <2>2, <4>1
    <3>2. CASE i < j
      <4>1. i \in 1..j - 1
        BY <3>2
      <4> QED
        BY <1>5, <2>1, <2>2, <4>1
    <3> QED
      BY <1>1, <2>2, <3>1, <3>2
  <2>3. Chosen(s, o, {"mut"}) = {i}
    BY <1>3, <2>1, <2>2 DEF Chosen
  <2>4. Chosen(s, o, {"ref"}) = {}
    BY <1>3, <2>1, <2>2 DEF Chosen
  <2>5. Number(s, o, {"mut"}) = 1 /\ Number(s, o, {"ref"}) = 0
    <3>1. Number(s, o, {"mut"}) = Cardinality({i}) /\ Number(s, o, {"ref"}) = Cardinality({})
      <4>1. /\ Number(s, o, {"mut"}) = Cardinality(Chosen(s, o, {"mut"}))
            /\ Number(s, o, {"ref"}) = Cardinality(Chosen(s, o, {"ref"}))
        BY DEF Number, Chosen
      <4> QED
        BY <2>3, <2>4, <4>1
    <3> QED
      BY <3>1, FS_Singleton, FS_EmptySet
  <2> QED
    BY <1>6, <2>1, <2>5
<1>9. ASSUME NEW o \in Objects, Number(s, o, {"ref"}) > 0 PROVE borrow[o] >= 0
  <2>1. PICK i \in 1..n : args[i].of = o /\ args[i].kind = "ref"
    BY <1>3, <1>9, NumberType
  <2> QED
    BY <1>6, <2>1
<1> QED
  BY <1>3, <1>7, <1>8, <1>9 DEF Granted, s

\* With a count after them, or alone, or none.
LEMMA WithCount ==
  ASSUME NEW s \in Seq(Losable), Granted(s), NEW o \in Objects,
         NEW x, x = [of |-> o, kind |-> "count"]
  PROVE  /\ Append(s, x) \in Seq(Losable) /\ Granted(Append(s, x))
         /\ \A q, kinds : Number(Append(s, x), q, kinds)
                            = Number(s, q, kinds) + Number(<<x>>, q, kinds)
<1>1. x \in Losable /\ <<x>> \in Seq(Losable)
  BY DEF Losable, Counted
<1>2. Append(s, x) = s \o <<x>> /\ Append(s, x) \in Seq(Losable)
  BY <1>1, AppendIsConcat, AppendProperties
<1>3. \A q, kinds : Number(Append(s, x), q, kinds) = Number(s, q, kinds) + Number(<<x>>, q, kinds)
  <2>1. PICK t \in Seq(Losable) : t = <<x>>
    BY <1>1
  <2>2. \A q, kinds : Number(s \o t, q, kinds) = Number(s, q, kinds) + Number(t, q, kinds)
    BY NumberConcat
  <2> QED
    BY <1>2, <2>1, <2>2
<1>4. \A q : Number(<<x>>, q, {"ref"}) = 0 /\ Number(<<x>>, q, {"mut"}) = 0
  BY NumberSingle DEF One
<1>5. \A q, kinds : Number(s, q, kinds) \in Nat
  BY SeqFinite, NumberType
<1>6. Granted(Append(s, x))
  BY <1>3, <1>4, <1>5 DEF Granted
<1> QED
  BY <1>2, <1>3, <1>6

LEMMA NoneGranted == <<>> \in Seq(Losable) /\ Granted(<<>>)
BY NumberEmpty DEF Granted

LEMMA OneGranted ==
  ASSUME NEW x \in Whole, Grants(<<>>, x) PROVE Granted(<<x>>)
<1>1. \A o : /\ Number(<<x>>, o, {"mut"}) = One(x.of = o /\ x.kind = "mut")
             /\ Number(<<x>>, o, {"ref"}) = One(x.of = o /\ x.kind = "ref")
  BY NumberSingle
<1> QED
  BY <1>1 DEF Granted, Grants, Whole, One

-----------------------------------------------------------------------------
(***************************************************************************)
(* One lemma per action: the types and the flags.                          *)
(***************************************************************************)
Core == Shape /\ Flags

LEMMA KidsCounted ==
  ASSUME NEW S \in SUBSET Objects, NEW o \in Objects
  PROVE  /\ Cardinality({c \in S : parent[c] = o}) \in {0, 1}
         /\ Cardinality({c \in S : parent[c] = o}) = 1 <=> \E c \in S : parent[c] = o
<1> DEFINE kids == {c \in S : parent[c] = o}
<1>1. \A c, d \in kids : c = d
  BY ExportedClassAssumption
<1>2. kids # {} <=> \E c \in S : parent[c] = o
  OBVIOUS
<1> HIDE DEF kids
<1>3. CASE kids = {}
  <2>1. Cardinality(kids) = 0
    BY <1>3, FS_EmptySet
  <2> QED
    BY <1>2, <1>3, <2>1 DEF kids
<1>4. CASE kids # {}
  <2>1. PICK c \in kids : TRUE
    BY <1>4
  <2>2. kids = {c}
    BY <1>1, <2>1
  <2>3. Cardinality(kids) = 1
    BY <2>2, FS_Singleton
  <2> QED
    BY <1>2, <1>4, <2>3 DEF kids
<1> QED
  BY <1>3, <1>4

LEMMA CountsShape ==
  ASSUME Shape, NEW n, \A o \in Objects : n[o] \in Nat, DropCounts(n)
  PROVE  strong' \in [Objects -> Int] /\ cell' \in [Objects -> {"none", "alive", "freed"}]
<1>1. PICK gone \in SUBSET Objects :
        /\ strong' = [o \in Objects |->
             strong[o] - n[o] - Cardinality({c \in gone : parent[c] = o})]
        /\ cell' = [o \in Objects |-> IF o \in gone THEN "freed" ELSE cell[o]]
  BY DEF DropCounts
<1>2. \A o \in Objects : Cardinality({c \in gone : parent[c] = o}) \in Nat
  <2>1. \A o \in Objects : Cardinality({c \in gone : parent[c] = o}) \in {0, 1}
    BY KidsCounted
  <2> QED
    BY <2>1
<1>3. strong \in [Objects -> Int] /\ cell \in [Objects -> {"none", "alive", "freed"}]
  BY DEF Shape
<1> QED
  BY <1>1, <1>2, <1>3

LEMMA InitCore == Init => Core
<1> SUFFICES ASSUME Init PROVE Core
  OBVIOUS
<1>1. Shape
  <2>1. strong \in [Objects -> Int] /\ borrow \in [Objects -> Int]
    BY DEF Init
  <2>2. /\ cell \in [Objects -> {"none", "alive", "freed"}]
        /\ object \in [Objects -> {"none", "live", "forsaken", "zero"}]
        /\ stack \in Seq(Full) /\ lost \in Seq(Losable) /\ unwind \in Unwinds
    BY DEF Init
  <2>3. /\ async \in [Asyncs -> [at : {"none", "called", "polled", "ended"},
                                anchor : Anchors \cup {None}]]
        /\ \A a \in Asyncs : async[a].at = "none"
    BY DEF Init
  <2> QED
    BY <2>1, <2>2, <2>3 DEF Shape
<1>2. ASSUME NEW o, NEW kinds PROVE Holding(o, kinds) = 0
  <2>1. Number(Placed(stack), o, kinds) = 0
    <3>1. stack = <<>> /\ stack \in Seq(Args) /\ Len(stack) = 0
      BY DEF Init
    <3>2. IsFiniteSet(DOMAIN Placed(stack)) /\ DOMAIN Placed(stack) = {}
      <4>1. Sited(stack)
        BY <3>1, PlacesFinite
      <4> QED
        BY <3>1, <4>1 DEF Sited
    <3> QED
      BY <3>2, NumberType
  <2>2. Number(Polled(async), o, kinds) = 0
    <3>1. DOMAIN Polled(async) = {}
      BY DEF Polled, Init
    <3> QED
      BY <3>1, PolledFinite, NumberType
  <2>3. Number(lost, o, kinds) = 0
    BY NumberEmpty DEF Init
  <2> QED
    BY <2>1, <2>2, <2>3, HoldingIs
<1>3. Flags
  BY <1>2 DEF Flags, Init
<1> QED
  BY <1>1, <1>3 DEF Core

\* Steps that leave stack, calls and borrows alone.
LEMMA ObjectStep ==
  ASSUME Core, UNCHANGED <<unwind, borrow, stack, async, lost>>,
         strong' \in [Objects -> Int], cell' \in [Objects -> {"none", "alive", "freed"}],
         object' \in [Objects -> {"none", "live", "forsaken", "zero"}]
  PROVE  Core' /\ Same
<1>1. Same
  BY Untouched
<1>2. Shape'
  BY DEF Core, Shape
<1>3. Flags'
  BY <1>1, KeptFlags DEF Core, Same
<1> QED
  BY <1>1, <1>2, <1>3 DEF Core

LEMMA LeafObjects == \A o \in Leaves : o \in Objects
BY DEF Leaves

LEMMA OneType == \A b : One(b) \in {0, 1} /\ (b => One(b) = 1) /\ (~b => One(b) = 0)
BY DEF One

LEMMA NewCore == ASSUME Core, NEW o \in Leaves, New(o) PROVE Core' /\ Same
<1>1. strong' \in [Objects -> Int]
  <2>1. \A x \in Objects : 1 + One(x # o) \in Int
    BY DEF One
  <2>2. /\ strong' = [x \in Objects |-> IF x \in Line(o) THEN 1 + One(x # o) ELSE strong[x]]
        /\ strong \in [Objects -> Int]
    BY DEF New, Core, Shape
  <2> QED
    BY <2>1, <2>2
<1>2. cell' \in [Objects -> {"none", "alive", "freed"}]
  BY DEF New, Core, Shape
<1>3. object' \in [Objects -> {"none", "live", "forsaken", "zero"}]
  BY DEF New, Core, Shape
<1> QED
  BY <1>1, <1>2, <1>3, ObjectStep DEF New

LEMMA ForsakeCore == ASSUME Core, NEW o \in Leaves, Forsake(o) PROVE Core' /\ Same
<1>1. /\ strong' \in [Objects -> Int] /\ cell' \in [Objects -> {"none", "alive", "freed"}]
      /\ object' \in [Objects -> {"none", "live", "forsaken", "zero"}]
  BY DEF Forsake, Core, Shape, cells
<1> QED
  BY <1>1, ObjectStep DEF Forsake, cells

LEMMA FinalizeCore == ASSUME Core, NEW o \in Leaves, Finalize(o) PROVE Core' /\ Same
<1> DEFINE n == [x \in Objects |-> One(x \in Line(o))]
<1>1. DropCounts(n) /\ \A x \in Objects : n[x] \in Nat
  BY OneType DEF Finalize
<1> HIDE DEF n
<1>2. strong' \in [Objects -> Int] /\ cell' \in [Objects -> {"none", "alive", "freed"}]
  BY <1>1, CountsShape DEF Core
<1>3. object' \in [Objects -> {"none", "live", "forsaken", "zero"}]
  BY DEF Finalize, Core, Shape
<1> QED
  BY <1>2, <1>3, ObjectStep DEF Finalize

\* free() of an object in use leaves a count behind.
LEMMA GiveBackCore ==
  ASSUME Core, NEW o \in Leaves, GiveBack(o)
  PROVE  /\ Core'
         /\ \A q, kinds : Holding(q, kinds)' =
              Holding(q, kinds) + One(strong[o] # 1 /\ q = o /\ "count" \in kinds)
<1> DEFINE claimed == strong[o] = 1
           n == [x \in Objects |-> One(x \in Line(o) /\ (x # o \/ claimed))]
           c == [of |-> o, kind |-> "count"]
           gone == IF claimed THEN <<>> ELSE <<c>>
<1>1. DropCounts(n) /\ \A x \in Objects : n[x] \in Nat
  BY OneType DEF GiveBack
<1> HIDE DEF n
<1>2. strong' \in [Objects -> Int] /\ cell' \in [Objects -> {"none", "alive", "freed"}]
  BY <1>1, CountsShape DEF Core
<1>3. object' \in [Objects -> {"none", "live", "forsaken", "zero"}]
  BY DEF GiveBack, Core, Shape
<1>4. c \in Losable /\ gone \in Seq(Losable)
  <2>1. c \in Losable
    BY LeafObjects DEF Losable, Counted
  <2> HIDE DEF c
  <2>2. <<>> \in Seq(Losable) /\ <<c>> \in Seq(Losable)
    BY <2>1
  <2> QED
    BY <2>1, <2>2
<1>5. lost' = lost \o gone /\ stack' = stack /\ async' = async /\ borrow' = borrow
      /\ unwind' = unwind
  BY DEF GiveBack, Lose
<1>6. \A q, kinds : Number(gone, q, kinds) = One(strong[o] # 1 /\ q = o /\ "count" \in kinds)
  <2>1. CASE claimed
    BY <2>1, NumberEmpty, OneType
  <2>2. CASE ~claimed
    <3>1. \A q, kinds : Number(<<c>>, q, kinds) = One(o = q /\ "count" \in kinds)
      BY NumberSingle
    <3>2. gone = <<c>>
      BY <2>2
    <3> QED
      BY <2>2, <3>1, <3>2 DEF One
  <2> QED
    BY <2>1, <2>2
<1> HIDE DEF gone
<1>7. lost' \in Seq(Losable) /\ Added(gone)
  BY <1>4, <1>5, LoseAdds DEF Core
<1>8. \A q, kinds : Holding(q, kinds)' =
        Holding(q, kinds) + One(strong[o] # 1 /\ q = o /\ "count" \in kinds)
  BY <1>6, <1>7 DEF Added
<1>9. Flags'
  <2>1. \A q : /\ Holding(q, {"ref"}) \in Nat /\ Holding(q, {"mut"}) \in Nat
               /\ Holding(q, {"ref"})' = Holding(q, {"ref"}) + 0
               /\ Holding(q, {"mut"})' = Holding(q, {"mut"}) + 0
    BY <1>8, HoldingType, OneType DEF Core
  <2>2. \A q : /\ Holding(q, {"ref"})' = Holding(q, {"ref"})
               /\ Holding(q, {"mut"})' = Holding(q, {"mut"})
    BY <2>1
  <2> QED
    BY <1>5, <2>2, KeptFlags DEF Core
<1>10. Shape'
  BY <1>2, <1>3, <1>5, <1>7 DEF Core, Shape
<1> QED
  BY <1>8, <1>9, <1>10 DEF Core

-----------------------------------------------------------------------------
\* Every anchor is on a cell that an object reaches.
Backed(s) == \A i \in DOMAIN s : Reachable(s[i].of)

LEMMA EnterCore ==
  ASSUME Core, NEW args \in Args, Enter(args)
  PROVE  Core' /\ args \in Full /\ Added(args) /\ Backed(args)
<1>1. /\ DOMAIN args = 1..Len(args) /\ Len(args) \in Nat /\ args \in Seq(Anchors)
      /\ IsFiniteSet(DOMAIN args)
  BY ArgsSeq, SeqFinite
<1>2. \A i \in 1..Len(args) : Passable(args[i]) /\ ~Refused(args, i)
  BY <1>1 DEF Enter
<1>3. SubSeq(args, 1, Len(args)) = args
  BY <1>1, SubSeqFull
<1>4. Len(args) \in 0..Len(args)
  BY <1>1
<1>5. Granted(args) /\ args \in Seq(Whole)
  BY <1>2, <1>3, <1>4, PrefixGranted
<1>6. args \in Full
  BY <1>1, <1>5, ElementOfSeq DEF Full
<1>7. stack' \in Seq(Full) /\ Added(args)
  BY <1>6, PushAdds DEF Enter, Core
<1>8. Flags' /\ borrow' \in [Objects -> Int] /\ strong' \in [Objects -> Int]
  BY <1>1, <1>5, <1>7, TakeFlags DEF Enter, Core
<1>9. Shape'
  BY <1>7, <1>8 DEF Enter, Core, Shape
<1>10. Backed(args)
  <2>1. \A i \in 1..Len(args) : args[i] \in Whole
    BY <1>5, ElementOfSeq
  <2>2. \A i \in 1..Len(args) : args[i].kind # "null"
    BY <2>1 DEF Whole
  <2> QED
    BY <1>1, <1>2, <2>2 DEF Backed, Passable
<1> QED
  BY <1>6, <1>7, <1>8, <1>9, <1>10 DEF Core

\* Anchors are taken and lost at once.
LEMMA LostCore ==
  ASSUME Core, NEW gone \in Seq(Losable), Granted(gone), Take(gone), Lose(gone),
         stack' = stack, Polled(async') = Polled(async)
  PROVE  /\ Flags' /\ Added(gone) /\ lost' \in Seq(Losable)
         /\ borrow' \in [Objects -> Int] /\ strong' \in [Objects -> Int]
<1>1. lost' \in Seq(Losable) /\ Added(gone)
  BY LoseAdds DEF Core, Lose
<1>2. Flags' /\ borrow' \in [Objects -> Int] /\ strong' \in [Objects -> Int]
  BY <1>1, SeqFinite, TakeFlags DEF Core
<1> QED
  BY <1>1, <1>2

LEMMA FailsCore ==
  ASSUME Core, NEW args \in Args, Fails(args)
  PROVE  Core' /\ \E gone \in Seq(Losable) : Take(gone) /\ Added(gone) /\ Backed(gone)
<1>1. /\ DOMAIN args = 1..Len(args) /\ Len(args) \in Nat
      /\ \A i \in 1..Len(args) : args[i] \in Anchors
  BY ArgsSeq
<1>2. PICK i \in 1..Len(args) :
        /\ FirstRefused(args, i)
        /\ LET before == SubSeq(args, 1, i - 1)
               count == [of |-> args[i].of, kind |-> "count"]
               gone == CASE args[i].kind = "null" -> before
                         [] args[i].kind # "null" /\ unwind -> <<>>
                         [] args[i].kind # "null" /\ ~unwind -> Append(before, count)
           IN  Take(gone) /\ Lose(gone)
  BY <1>1 DEF Fails
<1>3. \A j \in 1..Len(args) : Passable(args[j])
  BY <1>1 DEF Fails
<1> DEFINE before == SubSeq(args, 1, i - 1)
           count == [of |-> args[i].of, kind |-> "count"]
<1>4. /\ before \in Seq(Whole) /\ before \in Seq(Losable) /\ Granted(before)
      /\ Len(before) = i - 1 /\ \A j \in 1..i - 1 : before[j] = args[j]
  <2>1. i - 1 \in 0..Len(args) /\ \A j \in 1..i - 1 : ~Refused(args, j)
    BY <1>1, <1>2 DEF FirstRefused
  <2> QED
    BY <2>1, PrefixGranted
<1>5. args[i].of \in Objects /\ args[i].kind \in {"ref", "mut", "null"}
  BY <1>1 DEF Anchors
<1>6. \/ args[i].kind = "null" /\ Take(before) /\ Lose(before)
      \/ args[i].kind # "null" /\ Take(<<>>) /\ Lose(<<>>)
      \/ args[i].kind # "null" /\ Take(Append(before, count)) /\ Lose(Append(before, count))
  BY <1>2
<1> HIDE DEF before
<1>7. Backed(before)
  <2>1. DOMAIN before = 1..i - 1
    BY <1>4, LenProperties
  <2>2. \A j \in 1..i - 1 : before[j] \in Whole /\ j \in 1..Len(args)
    BY <1>1, <1>4, ElementOfSeq
  <2>3. \A j \in 1..i - 1 : before[j].kind # "null" /\ Passable(before[j])
    BY <1>3, <1>4, <2>2 DEF Whole
  <2> QED
    BY <2>1, <2>3 DEF Backed, Passable
<1>8. \E gone \in Seq(Losable) : Take(gone) /\ Lose(gone) /\ Granted(gone) /\ Backed(gone)
  <2>1. CASE args[i].kind = "null" /\ Take(before) /\ Lose(before)
    BY <1>4, <1>7, <2>1
  <2>2. CASE Take(<<>>) /\ Lose(<<>>)
    <3>1. Backed(<<>>)
      <4>1. DOMAIN <<>> = {}
        OBVIOUS
      <4> QED
        BY <4>1 DEF Backed
    <3> QED
      BY <2>2, <3>1, NoneGranted
  <2>3. CASE args[i].kind # "null" /\ Take(Append(before, count)) /\ Lose(Append(before, count))
    <3>1. Append(before, count) \in Seq(Losable) /\ Granted(Append(before, count))
      BY <1>4, <1>5, WithCount
    <3>2. Reachable(args[i].of)
      BY <1>3, <2>3 DEF Passable
    <3>3. Backed(Append(before, count))
      <4>1. count \in Losable /\ count.of = args[i].of
        BY <1>5 DEF Losable, Counted
      <4> HIDE DEF count
      <4>2. /\ Len(Append(before, count)) = Len(before) + 1 /\ Len(before) \in Nat
            /\ Append(before, count)[Len(before) + 1] = count
            /\ \A j \in 1..Len(before) : Append(before, count)[j] = before[j]
            /\ DOMAIN before = 1..Len(before)
            /\ DOMAIN Append(before, count) = 1..Len(before) + 1
        BY <1>4, <3>1, <4>1, AppendProperties, LenProperties
      <4>3. \A j \in 1..Len(before) + 1 : j \in 1..Len(before) \/ j = Len(before) + 1
        BY <4>2
      <4> QED
        BY <1>7, <3>2, <4>1, <4>2, <4>3 DEF Backed
    <3> QED
      BY <2>3, <3>1, <3>3
  <2> QED
    BY <1>6, <2>1, <2>2, <2>3
<1>9. PICK gone \in Seq(Losable) : Take(gone) /\ Lose(gone) /\ Granted(gone) /\ Backed(gone)
  BY <1>8
<1>10. /\ Flags' /\ Added(gone) /\ lost' \in Seq(Losable)
       /\ borrow' \in [Objects -> Int] /\ strong' \in [Objects -> Int]
  BY <1>9, LostCore DEF Fails
<1>11. Shape'
  BY <1>10 DEF Fails, Core, Shape
<1> QED
  BY <1>9, <1>10, <1>11 DEF Core

\* The counts of anchors that are dropped.
Counts(s) == [o \in Objects |-> Number(s, o, Counted)]

\* Steps that drop anchors.
LEMMA DropCore ==
  ASSUME Core, NEW s, IsFiniteSet(DOMAIN s), Drop(s), Dropped(s),
         UNCHANGED <<unwind, object, lost>>, stack' \in Seq(Full),
         async' \in [Asyncs -> [at : {"none", "called", "polled", "ended"},
                               anchor : Anchors \cup {None}]],
         \A a \in Asyncs : async'[a].at # "none" => async'[a].anchor \in Whole
  PROVE  Core' /\ DropCounts(Counts(s))
<1>1. DropCounts(Counts(s)) /\ Freed(s)
  BY DEF Drop, Counts, Freed
<1>2. \A o \in Objects : Counts(s)[o] \in Nat
  BY NumberType DEF Counts
<1>3. strong' \in [Objects -> Int] /\ cell' \in [Objects -> {"none", "alive", "freed"}]
  BY <1>1, <1>2, CountsShape DEF Core
<1>4. borrow' \in [Objects -> Int]
  <2>1. \A o \in Objects : Number(s, o, {"ref"}) \in Int /\ borrow[o] \in Int
    BY NumberType DEF Core, Shape
  <2>2. \A o \in Objects :
          (IF Number(s, o, {"mut"}) > 0 THEN 0 ELSE borrow[o] - Number(s, o, {"ref"})) \in Int
    BY <2>1
  <2> QED
    BY <1>1, <2>2 DEF Freed
<1>5. Shape'
  BY <1>3, <1>4 DEF Core, Shape
<1>6. Flags'
  BY <1>1, <1>5, DropFlags DEF Core
<1> QED
  BY <1>1, <1>5, <1>6 DEF Core

LEMMA ReturnCore ==
  ASSUME Core, Return
  PROVE  /\ Core' /\ IsFiniteSet(DOMAIN Last(stack)) /\ Dropped(Last(stack))
         /\ DropCounts(Counts(Last(stack)))
<1>1. stack' \in Seq(Full) /\ Last(stack) \in Full /\ Dropped(Last(stack))
  BY PopDrops DEF Return, Core
<1>2. IsFiniteSet(DOMAIN Last(stack))
  BY <1>1, FullArgs
<1>3. /\ async' \in [Asyncs -> [at : {"none", "called", "polled", "ended"},
                               anchor : Anchors \cup {None}]]
      /\ \A a \in Asyncs : async'[a].at # "none" => async'[a].anchor \in Whole
  BY DEF Return, Core, Shape
<1> QED
  BY <1>1, <1>2, <1>3, DropCore DEF Return

LEMMA ThrowCore == ASSUME Core, Throw PROVE Core' /\ Same
<1>1. stack' \in Seq(Full) /\ lost' \in Seq(Losable) /\ Same
  BY PopLoses DEF Throw, Lose, Core
<1>2. Flags'
  BY <1>1, KeptFlags DEF Throw, cells, Core, Same
<1>3. Shape'
  BY <1>1 DEF Throw, cells, Core, Shape
<1> QED
  BY <1>1, <1>2, <1>3 DEF Core

LEMMA CallCore ==
  ASSUME Core, NEW a \in Asyncs, NEW x \in Anchors, Call(a, x)
  PROVE  /\ Core' /\ Same /\ Reachable(x.of) /\ async'[a].anchor = x
         /\ \A b \in Asyncs : b # a => async'[b] = async[b]
<1>1. /\ async' = [async EXCEPT ![a] = [at |-> "called", anchor |-> x]]
      /\ async[a].at = "none" /\ Reachable(x.of) /\ x.kind # "null"
      /\ async \in [Asyncs -> [at : {"none", "called", "polled", "ended"},
                              anchor : Anchors \cup {None}]]
  BY DEF Call, Passable, Core, Shape
<1>2. x \in Whole
  BY <1>1 DEF Anchors, Whole
<1>3. /\ async'[a] = [at |-> "called", anchor |-> x]
      /\ \A b \in Asyncs : b # a => async'[b] = async[b]
      /\ async' \in [Asyncs -> [at : {"none", "called", "polled", "ended"},
                               anchor : Anchors \cup {None}]]
  BY <1>1
<1>4. Polled(async') = Polled(async)
  BY <1>1, <1>3, PolledSame
<1>5. Same
  BY <1>4, Untouched DEF Call
<1>6. Flags'
  BY <1>5, KeptFlags DEF Call, cells, Core, Same
<1>7. \A b \in Asyncs : async'[b].at # "none" => async'[b].anchor \in Whole
  <2>1. async'[a].anchor = x
    BY <1>3
  <2>2. ASSUME NEW b \in Asyncs, b # a, async'[b].at # "none" PROVE async'[b].anchor \in Whole
    BY <1>3, <2>2 DEF Core, Shape
  <2> QED
    BY <1>2, <2>1, <2>2
<1>8. Shape'
  BY <1>3, <1>7 DEF Call, cells, Core, Shape
<1> QED
  BY <1>1, <1>3, <1>5, <1>6, <1>8 DEF Core

LEMMA BeginCore ==
  ASSUME Core, NEW a \in Asyncs, Begin(a)
  PROVE  /\ Core' /\ async'[a].at # "called" /\ \A b \in Asyncs : b # a => async'[b] = async[b]
         /\ \E s \in Seq(Losable) : /\ Take(s) /\ Added(s)
                                    /\ \A i \in DOMAIN s : s[i].of = async[a].anchor.of
<1> DEFINE x == async[a].anchor
<1>1. /\ async \in [Asyncs -> [at : {"none", "called", "polled", "ended"},
                              anchor : Anchors \cup {None}]]
      /\ async[a].at = "called" /\ x \in Whole
      /\ \A b \in Asyncs : async[b].at # "none" => async[b].anchor \in Whole
  BY DEF Begin, Core, Shape
<1>2. ASSUME NEW t \in {"polled", "ended"}, async' = [async EXCEPT ![a].at = t]
      PROVE  /\ async'[a].at = t /\ async'[a].anchor = x
             /\ \A b \in Asyncs : b # a => async'[b] = async[b]
             /\ async' \in [Asyncs -> [at : {"none", "called", "polled", "ended"},
                                      anchor : Anchors \cup {None}]]
             /\ \A b \in Asyncs : async'[b].at # "none" => async'[b].anchor \in Whole
  BY <1>1, <1>2
<1>3. x \in Losable /\ x.of \in Objects
  BY <1>1 DEF Whole, Losable, Counted
<1> HIDE DEF x
<1>4. ASSUME Grants(<<>>, x), Take(<<x>>), async' = [async EXCEPT ![a].at = "polled"], lost' = lost
      PROVE  /\ Core' /\ async'[a].at # "called" /\ \A b \in Asyncs : b # a => async'[b] = async[b]
             /\ \E s \in Seq(Losable) : Take(s) /\ Added(s) /\ \A i \in DOMAIN s : s[i].of = x.of
  <2>1. PICK s \in Seq(Losable) : s = <<x>>
    <3>1. <<x>> \in Seq(Losable)
      BY <1>3
    <3> QED
      BY <3>1
  <2>2. Granted(s) /\ IsFiniteSet(DOMAIN s) /\ Take(s) /\ \A i \in DOMAIN s : s[i].of = x.of
    <3>1. Granted(s) /\ IsFiniteSet(DOMAIN s)
      BY <1>1, <1>4, <2>1, OneGranted, SeqFinite DEF x
    <3>2. \A i \in DOMAIN s : s[i].of = x.of
      BY <2>1
    <3> QED
      BY <1>4, <2>1, <3>1, <3>2
  <2>3. /\ async'[a].at = "polled" /\ async'[a].anchor = x
        /\ \A b \in Asyncs : b # a => async'[b] = async[b]
        /\ async' \in [Asyncs -> [at : {"none", "called", "polled", "ended"},
                                 anchor : Anchors \cup {None}]]
        /\ \A b \in Asyncs : async'[b].at # "none" => async'[b].anchor \in Whole
    BY <1>2, <1>4
  <2>4. Added(s)
    <3>1. Added(<<async'[a].anchor>>)
      BY <1>1, <1>4, <2>3, BeginAdds DEF Begin, Core
    <3> QED
      BY <2>1, <2>3, <3>1
  <2>5. Flags' /\ borrow' \in [Objects -> Int] /\ strong' \in [Objects -> Int]
    BY <2>2, <2>4, TakeFlags DEF Core
  <2>6. Shape'
    BY <1>4, <2>3, <2>5 DEF Begin, Core, Shape
  <2> QED
    BY <2>2, <2>3, <2>4, <2>5, <2>6 DEF Core
<1>5. ASSUME NEW gone, gone = (IF unwind THEN <<>> ELSE <<[of |-> x.of, kind |-> "count"]>>),
             Take(gone), Lose(gone), async' = [async EXCEPT ![a].at = "ended"]
      PROVE  /\ Core' /\ async'[a].at # "called" /\ \A b \in Asyncs : b # a => async'[b] = async[b]
             /\ \E s \in Seq(Losable) : Take(s) /\ Added(s) /\ \A i \in DOMAIN s : s[i].of = x.of
  <2>1. gone \in Seq(Losable) /\ Granted(gone) /\ \A i \in DOMAIN gone : gone[i].of = x.of
    <3>1. PICK c : c = [of |-> x.of, kind |-> "count"]
      OBVIOUS
    <3>2. CASE gone = <<>>
      BY <3>2, NoneGranted
    <3>3. CASE gone = <<c>>
      <4>1. c \in Losable /\ c.of = x.of
        BY <1>3, <3>1 DEF Losable, Counted
      <4>2. <<>> \in Seq(Losable) /\ Append(<<>>, c) = <<c>>
        BY NoneGranted
      <4>3. Granted(Append(<<>>, c))
        BY <1>3, <3>1, <4>2, NoneGranted, WithCount
      <4>4. <<c>> \in Seq(Losable) /\ \A i \in DOMAIN <<c>> : <<c>>[i] = c
        BY <4>1
      <4> QED
        BY <3>3, <4>1, <4>2, <4>3, <4>4
    <3> QED
      BY <1>5, <3>1, <3>2, <3>3
  <2>2. /\ async'[a].at = "ended"
        /\ \A b \in Asyncs : b # a => async'[b] = async[b]
        /\ async' \in [Asyncs -> [at : {"none", "called", "polled", "ended"},
                                 anchor : Anchors \cup {None}]]
        /\ \A b \in Asyncs : async'[b].at # "none" => async'[b].anchor \in Whole
    BY <1>2, <1>5
  <2>3. Polled(async') = Polled(async)
    BY <1>1, <2>2, PolledSame
  <2>4. /\ Flags' /\ Added(gone) /\ lost' \in Seq(Losable)
        /\ borrow' \in [Objects -> Int] /\ strong' \in [Objects -> Int]
    BY <1>5, <2>1, <2>3, LostCore DEF Begin
  <2>5. Shape'
    BY <2>2, <2>4 DEF Begin, Core, Shape
  <2> QED
    BY <1>5, <2>1, <2>2, <2>4, <2>5 DEF Core
<1>6. \/ /\ Grants(<<>>, x) /\ Take(<<x>>)
         /\ async' = [async EXCEPT ![a].at = "polled"] /\ lost' = lost
      \/ \E gone : /\ gone = IF unwind THEN <<>> ELSE <<[of |-> x.of, kind |-> "count"]>>
                   /\ Take(gone) /\ Lose(gone)
                   /\ async' = [async EXCEPT ![a].at = "ended"]
  BY DEF Begin, x
<1> QED
  BY <1>4, <1>5, <1>6 DEF x

LEMMA EndCore ==
  ASSUME Core, NEW a \in Asyncs, End(a), NEW s, s = <<async[a].anchor>>
  PROVE  /\ Core' /\ IsFiniteSet(DOMAIN s) /\ Dropped(s) /\ DropCounts(Counts(s))
         /\ \A b \in Asyncs : async'[b].at = "called" => async'[b] = async[b]
<1>1. /\ async \in [Asyncs -> [at : {"none", "called", "polled", "ended"},
                              anchor : Anchors \cup {None}]]
      /\ async[a].at = "polled" /\ async[a].anchor \in Whole
      /\ \A b \in Asyncs : async[b].at # "none" => async[b].anchor \in Whole
      /\ async' = [async EXCEPT ![a].at = "ended"]
  BY DEF End, Core, Shape
<1>2. /\ async'[a].at = "ended" /\ async'[a].anchor = async[a].anchor
      /\ \A b \in Asyncs : b # a => async'[b] = async[b]
      /\ async' \in [Asyncs -> [at : {"none", "called", "polled", "ended"},
                               anchor : Anchors \cup {None}]]
      /\ \A b \in Asyncs : async'[b].at # "none" => async'[b].anchor \in Whole
  BY <1>1
<1>3. s \in Seq(Whole) /\ IsFiniteSet(DOMAIN s)
  <2>1. PICK x \in Whole : x = async[a].anchor
    BY <1>1
  <2>2. s \in Seq(Whole)
    BY <2>1
  <2> QED
    BY <2>2, SeqFinite
<1>4. Dropped(s)
  BY <1>1, <1>2, EndDrops DEF End, Core
<1>5. Drop(s) /\ stack' \in Seq(Full) /\ UNCHANGED <<unwind, object, lost>>
  BY DEF End, Core, Shape
<1> QED
  BY <1>2, <1>3, <1>4, <1>5, DropCore

LEMMA StutterCore == ASSUME Core, UNCHANGED vars PROVE Core' /\ Same
<1>1. Same
  BY Untouched DEF vars
<1>2. Flags'
  BY <1>1, KeptFlags DEF Same, Core, vars
<1>3. Shape'
  BY DEF Core, Shape, vars
<1> QED
  BY <1>1, <1>2, <1>3 DEF Core

LEMMA NextCore == Core /\ [Next]_vars => Core'
<1> SUFFICES ASSUME Core, [Next]_vars PROVE Core'
  OBVIOUS
<1>1. ASSUME NEW o \in Leaves, New(o) \/ GiveBack(o) \/ Forsake(o) \/ Finalize(o) PROVE Core'
  BY <1>1, NewCore, GiveBackCore, ForsakeCore, FinalizeCore
<1>2. ASSUME NEW args \in Args, Enter(args) \/ Fails(args) PROVE Core'
  BY <1>2, EnterCore, FailsCore
<1>3. CASE Return
  BY <1>3, ReturnCore
<1>4. CASE Throw
  BY <1>4, ThrowCore
<1>5. ASSUME NEW a \in Asyncs, Begin(a) PROVE Core'
  BY <1>5, BeginCore
<1>6. ASSUME NEW a \in Asyncs, End(a) PROVE Core'
  BY <1>6, EndCore
<1>7. ASSUME NEW a \in Asyncs, NEW x \in Anchors, Call(a, x) PROVE Core'
  BY <1>7, CallCore
<1>8. CASE UNCHANGED vars
  BY <1>8, StutterCore
<1> QED
  BY <1>1, <1>2, <1>3, <1>4, <1>5, <1>6, <1>7, <1>8 DEF Next

\* "Guard accidental reentrancy", in any build and whenever JavaScript gives
\* objects back: a value has one writer or any number of readers among the
\* calls under way, the async ones and what exceptions lost, and the flag of
\* its cell says which (WasmRefCell, RcRef and RcRefMut in rt/mod.rs).
THEOREM NoAlias == Spec => []NoAliasing
<1>1. Init => Core
  BY InitCore
<1>2. Core /\ [Next]_vars => Core'
  BY NextCore
<1>3. Core => NoAliasing
  BY DEF Core, Flags, NoAliasing
<1> QED
  BY <1>1, <1>2, <1>3, PTL DEF Spec

-----------------------------------------------------------------------------
(***************************************************************************)
(* Counts.  What is proved from here on supposes that JavaScript gives no  *)
(* object back before its async calls began, as otherwise a call counts    *)
(* itself in a cell that is freed.                                         *)
(***************************************************************************)
Owned(o) == \E x \in Leaves : object[x] \in {"live", "forsaken"} /\ o \in Line(x)
Parented(o) == \E c \in Objects : parent[c] = o /\ cell[c] = "alive"

\* A value has one object at most and one child at most.
Tally ==
  \A o \in Objects :
    /\ cell[o] = "alive" <=> strong[o] > 0
    /\ strong[o] = Holding(o, Counted) + One(Owned(o)) + One(Parented(o))

\* The cells of a value and of its parents are made together.
Made == \A x \in Leaves : \A y \in Line(x) : cell[y] = "none" <=> object[x] = "none"

\* An object that has an async call which has not begun is not given back.
Waiting == \A a \in Asyncs : async[a].at = "called" => Owned(async[a].anchor.of)

IInv == Core /\ Tally /\ Made /\ Waiting

LEMMA TallyType ==
  ASSUME Core, NEW o \in Objects
  PROVE  /\ Holding(o, Counted) \in Nat /\ strong[o] \in Int
         /\ One(Owned(o)) \in {0, 1} /\ One(Parented(o)) \in {0, 1}
BY HoldingType, OneType DEF Core, Shape

LEMMA OneExact ==
  ASSUME NEW o \in Objects
  PROVE  /\ Cardinality({x \in Leaves : object[x] \in {"live", "forsaken"} /\ o \in Line(x)})
              = One(Owned(o))
         /\ Cardinality({c \in Objects : parent[c] = o /\ cell[c] = "alive"}) = One(Parented(o))
<1>1. Cardinality({x \in Leaves : object[x] \in {"live", "forsaken"} /\ o \in Line(x)})
        = One(Owned(o))
  <2> DEFINE owners == {x \in Leaves : object[x] \in {"live", "forsaken"} /\ o \in Line(x)}
  <2>1. \A x, y \in owners : x = y
    BY LinesApart
  <2>2. owners # {} <=> Owned(o)
    BY DEF Owned
  <2> HIDE DEF owners
  <2>3. CASE owners = {}
    <3>1. Cardinality(owners) = 0
      BY <2>3, FS_EmptySet
    <3> QED
      BY <2>2, <2>3, <3>1, OneType DEF owners
  <2>4. CASE owners # {}
    <3>1. PICK x \in owners : TRUE
      BY <2>4
    <3>2. owners = {x}
      BY <2>1, <3>1
    <3>3. Cardinality(owners) = 1
      BY <3>2, FS_Singleton
    <3> QED
      BY <2>2, <2>4, <3>3, OneType DEF owners
  <2> QED
    BY <2>3, <2>4
<1>2. Cardinality({c \in Objects : parent[c] = o /\ cell[c] = "alive"}) = One(Parented(o))
  <2>1. PICK S \in SUBSET Objects : S = {c \in Objects : cell[c] = "alive"}
    OBVIOUS
  <2>2. {c \in Objects : parent[c] = o /\ cell[c] = "alive"} = {c \in S : parent[c] = o}
    BY <2>1
  <2>3. /\ Cardinality({c \in S : parent[c] = o}) \in {0, 1}
        /\ Cardinality({c \in S : parent[c] = o}) = 1 <=> \E c \in S : parent[c] = o
    BY KidsCounted
  <2>4. Parented(o) <=> \E c \in S : parent[c] = o
    BY <2>1 DEF Parented
  <2> QED
    BY <2>2, <2>3, <2>4, OneType
<1> QED
  BY <1>1, <1>2

LEMMA TallyExact == Tally => CountExact
BY OneExact DEF Tally, CountExact

\* Who is owned is alive.
LEMMA OwnedAlive ==
  ASSUME Core, Tally, NEW o \in Objects, Owned(o) \/ Holding(o, Counted) > 0
  PROVE  cell[o] = "alive"
<1>1. One(Owned(o)) = 1 \/ Holding(o, Counted) > 0
  BY OneType
<1>2. strong[o] > 0
  BY <1>1, TallyType DEF Tally
<1> QED
  BY <1>2 DEF Tally

LEMMA ReachableOwned == ASSUME NEW o, Reachable(o) PROVE Owned(o)
BY DEF Reachable, Owned

\* Steps that leave the objects and the cells alone.
LEMMA OwnedSame ==
  ASSUME object' = object, cell' = cell
  PROVE  /\ \A o : (Owned(o)' <=> Owned(o)) /\ (Parented(o)' <=> Parented(o))
         /\ Made => Made'
BY DEF Owned, Parented, Made, Line

\* Anchors are taken on cells that have an owner.
LEMMA TakeTally ==
  ASSUME Core, Core', Tally, NEW s \in Seq(Losable), Take(s), Added(s),
         \A i \in DOMAIN s : Owned(s[i].of), object' = object, cell' = cell
  PROVE  Tally'
<1>1. IsFiniteSet(DOMAIN s)
  BY SeqFinite
<1>2. ASSUME NEW o \in Objects
      PROVE  /\ cell'[o] = "alive" <=> strong'[o] > 0
             /\ strong'[o] = Holding(o, Counted)' + One(Owned(o)') + One(Parented(o)')
  <2>1. /\ strong'[o] = strong[o] + Number(s, o, Counted) /\ cell'[o] = cell[o]
        /\ Holding(o, Counted)' = Holding(o, Counted) + Number(s, o, Counted)
        /\ Number(s, o, Counted) \in Nat
    BY <1>1, NumberType DEF Take, Added
  <2>2. (Owned(o)' <=> Owned(o)) /\ (Parented(o)' <=> Parented(o))
    BY OwnedSame
  <2>3. One(Owned(o)') = One(Owned(o)) /\ One(Parented(o)') = One(Parented(o))
    BY <2>2 DEF One
  <2>4. /\ cell[o] = "alive" <=> strong[o] > 0
        /\ strong[o] = Holding(o, Counted) + One(Owned(o)) + One(Parented(o))
    BY DEF Tally
  <2>5. /\ Holding(o, Counted) \in Nat /\ strong[o] \in Int
        /\ One(Owned(o)) \in {0, 1} /\ One(Parented(o)) \in {0, 1}
    BY TallyType
  <2>6. Number(s, o, Counted) > 0 => cell[o] = "alive"
    <3>1. SUFFICES ASSUME Number(s, o, Counted) > 0 PROVE cell[o] = "alive"
      OBVIOUS
    <3>2. PICK i \in DOMAIN s : s[i].of = o
      BY <1>1, <3>1, NumberType
    <3>3. Owned(o)
      BY <3>2
    <3> QED
      BY <3>3, OwnedAlive
  <2>7. strong'[o] = Holding(o, Counted)' + One(Owned(o)') + One(Parented(o)')
    BY <2>1, <2>3, <2>4, <2>5
  <2>8. cell'[o] = "alive" <=> strong'[o] > 0
    BY <2>1, <2>4, <2>5, <2>6
  <2> QED
    BY <2>7, <2>8
<1> QED
  BY <1>2 DEF Tally

\* Counts are dropped with those who had them.
Moved(n) ==
  \A o \in Objects :
    /\ n[o] \in Nat
    /\ Holding(o, Counted) + One(Owned(o)) = Holding(o, Counted)' + One(Owned(o)') + n[o]

LEMMA DropArithmetic ==
  ASSUME NEW h \in Nat, NEW i \in Nat, NEW w \in {0, 1}, NEW v \in {0, 1}, NEW k \in {0, 1},
         NEW j \in {0, 1}, NEW n \in Nat, NEW g \in {0, 1}, NEW st \in Int,
         h + w = i + v + n, k = j + g, st = h + w + k
  PROVE  /\ st - n - g = i + v + j /\ st - n - g >= 0
         /\ st = 0 => st - n - g = 0
OBVIOUS

LEMMA DropTally ==
  ASSUME Core, Core', Tally, NEW n, Moved(n), DropCounts(n)
  PROVE  Tally' /\ \A o \in Objects : cell'[o] = "none" <=> cell[o] = "none"
<1> DEFINE kids(S, o) == Cardinality({c \in S : parent[c] = o})
<1>1. PICK gone \in SUBSET Objects :
        /\ gone = {o \in Objects : cell[o] = "alive" /\ strong[o] - n[o] - kids(gone, o) = 0}
        /\ strong' = [o \in Objects |-> strong[o] - n[o] - kids(gone, o)]
        /\ cell' = [o \in Objects |-> IF o \in gone THEN "freed" ELSE cell[o]]
  <2>1. PICK gone \in SUBSET Objects :
          LET left == [o \in Objects |->
                strong[o] - n[o] - Cardinality({c \in gone : parent[c] = o})]
          IN
          /\ gone = {o \in Objects : cell[o] = "alive" /\ left[o] = 0}
          /\ strong' = left
          /\ cell' = [o \in Objects |-> IF o \in gone THEN "freed" ELSE cell[o]]
    BY DEF DropCounts
  <2>2. {o \in Objects : cell[o] = "alive"
           /\ [q \in Objects |-> strong[q] - n[q] - kids(gone, q)][o] = 0}
        = {o \in Objects : cell[o] = "alive" /\ strong[o] - n[o] - kids(gone, o) = 0}
    OBVIOUS
  <2> QED
    BY <2>1, <2>2
<1>2. \A o \in Objects : /\ kids(gone, o) \in {0, 1}
                         /\ kids(gone, o) = 1 <=> \E c \in gone : parent[c] = o
  BY KidsCounted
<1> HIDE DEF kids
<1>3. \A o \in Objects : /\ o \in gone <=> cell[o] = "alive" /\ strong'[o] = 0
                         /\ strong'[o] = strong[o] - n[o] - kids(gone, o)
                         /\ cell'[o] = IF o \in gone THEN "freed" ELSE cell[o]
  <2>1. \A o \in Objects : /\ strong'[o] = strong[o] - n[o] - kids(gone, o)
                           /\ cell'[o] = IF o \in gone THEN "freed" ELSE cell[o]
    BY <1>1
  <2>2. \A o \in Objects :
          o \in gone <=> cell[o] = "alive" /\ strong[o] - n[o] - kids(gone, o) = 0
    BY <1>1
  <2> QED
    BY <2>1, <2>2
<1>4. ASSUME NEW o \in Objects PROVE One(Parented(o)) = One(Parented(o)') + kids(gone, o)
  <2>1. \A c, d \in Objects : parent[c] = o /\ parent[d] = o => c = d
    BY ExportedClassAssumption
  <2>2. CASE \E c \in gone : parent[c] = o
    <3>1. PICK c \in gone : parent[c] = o
      BY <2>2
    <3>2. Parented(o)
      BY <1>3, <3>1 DEF Parented
    <3>3. ~Parented(o)'
      BY <1>3, <2>1, <3>1 DEF Parented
    <3>4. kids(gone, o) = 1
      BY <1>2, <2>2
    <3>5. One(Parented(o)) = 1 /\ One(Parented(o)') = 0
      BY <3>2, <3>3 DEF One
    <3> QED
      BY <3>4, <3>5
  <2>3. CASE ~\E c \in gone : parent[c] = o
    <3>1. Parented(o)' <=> Parented(o)
      BY <1>3, <2>3 DEF Parented
    <3>2. kids(gone, o) = 0
      BY <1>2, <2>3
    <3>3. One(Parented(o)') = One(Parented(o))
      BY <3>1 DEF One
    <3> QED
      BY <3>2, <3>3, OneType
  <2> QED
    BY <2>2, <2>3
<1>5. ASSUME NEW o \in Objects
      PROVE  /\ cell'[o] = "alive" <=> strong'[o] > 0
             /\ strong'[o] = Holding(o, Counted)' + One(Owned(o)') + One(Parented(o)')
             /\ cell'[o] = "none" <=> cell[o] = "none"
  <2>1. /\ Holding(o, Counted) \in Nat /\ strong[o] \in Int
        /\ One(Owned(o)) \in {0, 1} /\ One(Parented(o)) \in {0, 1}
    BY TallyType
  <2>2. Holding(o, Counted)' \in Nat /\ One(Owned(o)') \in {0, 1} /\ One(Parented(o)') \in {0, 1}
    <3>1. Holding(o, Counted)' \in Nat
      <4>1. stack' \in Seq(Full) /\ lost' \in Seq(Losable)
        BY DEF Core, Shape
      <4> QED
        BY <4>1, HoldingIs, PartsType
    <3> QED
      BY <3>1, OneType
  <2>3. /\ cell[o] = "alive" <=> strong[o] > 0
        /\ strong[o] = Holding(o, Counted) + One(Owned(o)) + One(Parented(o))
    BY DEF Tally
  <2>4. /\ n[o] \in Nat
        /\ Holding(o, Counted) + One(Owned(o)) = Holding(o, Counted)' + One(Owned(o)') + n[o]
    BY DEF Moved
  <2>5. /\ strong'[o] = Holding(o, Counted)' + One(Owned(o)') + One(Parented(o)')
        /\ strong'[o] >= 0 /\ (strong[o] = 0 => strong'[o] = 0)
    <3>1. kids(gone, o) \in {0, 1} /\ strong'[o] = strong[o] - n[o] - kids(gone, o)
      BY <1>2, <1>3
    <3>2. One(Parented(o)) = One(Parented(o)') + kids(gone, o)
      BY <1>4
    <3>3. /\ strong[o] - n[o] - kids(gone, o)
               = Holding(o, Counted)' + One(Owned(o)') + One(Parented(o)')
          /\ strong[o] - n[o] - kids(gone, o) >= 0
          /\ strong[o] = 0 => strong[o] - n[o] - kids(gone, o) = 0
      BY <2>1, <2>2, <2>3, <2>4, <3>1, <3>2, DropArithmetic
    <3> QED
      BY <3>1, <3>3
  <2>6. cell'[o] = "alive" <=> strong'[o] > 0
    <3>1. strong'[o] \in Int /\ strong[o] >= 0
      BY <2>1, <2>2, <2>3, <2>5
    <3> QED
      BY <1>3, <2>1, <2>3, <2>5, <3>1
  <2> QED
    BY <1>3, <2>5, <2>6
<1> QED
  BY <1>5 DEF Tally

-----------------------------------------------------------------------------
(***************************************************************************)
(* One lemma per action: the counts.                                       *)
(***************************************************************************)
LEMMA InitInv == Init => IInv
<1> SUFFICES ASSUME Init PROVE IInv
  OBVIOUS
<1>1. Core
  BY InitCore
<1>2. ASSUME NEW o \in Objects
      PROVE  ~Owned(o) /\ ~Parented(o) /\ strong[o] = 0 /\ borrow[o] = 0 /\ cell[o] = "none"
  <2>1. ~Owned(o)
    BY LeafObjects DEF Init, Owned
  <2>2. ~Parented(o)
    BY DEF Init, Parented
  <2> QED
    BY <2>1, <2>2 DEF Init
<1>3. \A o, kinds : Holding(o, kinds) = 0
  <2> SUFFICES ASSUME NEW o, NEW kinds PROVE Holding(o, kinds) = 0
    OBVIOUS
  <2>1. Number(Placed(stack), o, kinds) = 0
    <3>1. stack = <<>> /\ stack \in Seq(Args) /\ Len(stack) = 0
      BY DEF Init
    <3>2. IsFiniteSet(DOMAIN Placed(stack)) /\ DOMAIN Placed(stack) = {}
      <4>1. Sited(stack)
        BY <3>1, PlacesFinite
      <4> QED
        BY <3>1, <4>1 DEF Sited
    <3> QED
      BY <3>2, NumberType
  <2>2. Number(Polled(async), o, kinds) = 0
    <3>1. DOMAIN Polled(async) = {}
      BY DEF Polled, Init
    <3> QED
      BY <3>1, PolledFinite, NumberType
  <2>3. Number(lost, o, kinds) = 0
    BY NumberEmpty DEF Init
  <2> QED
    BY <2>1, <2>2, <2>3, HoldingIs
<1>4. Tally
  BY <1>2, <1>3, OneType DEF Tally
<1>5. Made
  BY LeafObjects, LineFacts DEF Made, Init
<1>6. Waiting
  BY DEF Waiting, Init
<1> QED
  BY <1>1, <1>4, <1>5, <1>6 DEF IInv

\* Objects that stay keep their async calls waiting.
LEMMA WaitingKept ==
  ASSUME Waiting, \A o : Owned(o) => Owned(o)',
         \A a \in Asyncs : async'[a].at = "called" => async'[a] = async[a]
  PROVE  Waiting'
BY DEF Waiting

LEMMA NewInv == ASSUME IInv, NEW o \in Leaves, New(o) PROVE IInv'
<1>1. Core /\ Tally /\ Made /\ Waiting /\ o \in Objects
  BY LeafObjects DEF IInv
<1>2. Core' /\ Same
  BY <1>1, NewCore
<1>3. /\ cell[o] = "none" /\ UNCHANGED <<stack, async, lost>>
      /\ cell' = [x \in Objects |-> IF x \in Line(o) THEN "alive" ELSE cell[x]]
      /\ strong' = [x \in Objects |-> IF x \in Line(o) THEN 1 + One(x # o) ELSE strong[x]]
      /\ object' = [object EXCEPT ![o] = "live"]
      /\ object \in [Objects -> {"none", "live", "forsaken", "zero"}]
  BY <1>1 DEF New, Core, Shape
<1>4. /\ Line(o) \subseteq Objects /\ o \in Line(o)
      /\ \A y \in Line(o) : parent[y] # None => parent[y] \in Line(o)
      /\ \A x \in Line(o) : x # o => \E y \in Line(o) : parent[y] = x
  BY <1>1, LineFacts
<1>5. object[o] = "none" /\ \A y \in Line(o) : cell[y] = "none"
  BY <1>1, <1>3, <1>4 DEF Made
<1>6. object'[o] = "live" /\ \A q \in Objects : q # o => object'[q] = object[q]
  BY <1>1, <1>3
<1>7. \A x : Owned(x) => Owned(x)'
  BY <1>5, <1>6, LeafObjects DEF Owned, Line
<1>8. ASSUME NEW x \in Line(o)
      PROVE  /\ cell'[x] = "alive" <=> strong'[x] > 0
             /\ strong'[x] = Holding(x, Counted)' + One(Owned(x)') + One(Parented(x)')
  <2>1. x \in Objects /\ cell'[x] = "alive" /\ strong'[x] = 1 + One(x # o)
    BY <1>3, <1>4
  <2>2. Holding(x, Counted)' = 0
    <3>1. Holding(x, Counted) \in Nat /\ ~(Holding(x, Counted) > 0)
      BY <1>1, <1>5, <2>1, TallyType, OwnedAlive
    <3>2. Holding(x, Counted)' = Holding(x, Counted)
      BY <1>2 DEF Same
    <3> QED
      BY <3>1, <3>2
  <2>3. Owned(x)'
    BY <1>6 DEF Owned, Line
  <2>4. Parented(x)' <=> x # o
    <3>1. x = o => ~Parented(x)'
      BY DEF Parented, Leaves
    <3>2. ASSUME x # o PROVE Parented(x)'
      <4>1. PICK y \in Line(o) : parent[y] = x
        BY <1>4, <3>2
      <4>2. y \in Objects /\ cell'[y] = "alive"
        BY <1>3, <1>4
      <4> QED
        BY <4>1, <4>2 DEF Parented
    <3> QED
      BY <3>1, <3>2
  <2>5. One(Owned(x)') = 1 /\ One(Parented(x)') = One(x # o) /\ One(x # o) \in {0, 1}
    BY <2>3, <2>4 DEF One
  <2> QED
    BY <2>1, <2>2, <2>5
<1>9. ASSUME NEW x \in Objects, x \notin Line(o)
      PROVE  /\ cell'[x] = "alive" <=> strong'[x] > 0
             /\ strong'[x] = Holding(x, Counted)' + One(Owned(x)') + One(Parented(x)')
  <2>1. cell'[x] = cell[x] /\ strong'[x] = strong[x]
    BY <1>3, <1>9
  <2>2. Holding(x, Counted)' = Holding(x, Counted)
    BY <1>2 DEF Same
  <2>3. Owned(x)' <=> Owned(x)
    <3>1. \A q \in Leaves : q # o => object'[q] = object[q]
      BY <1>6, LeafObjects
    <3>2. Owned(x)' => \E q \in Leaves : object'[q] \in {"live", "forsaken"} /\ x \in Line(q)
      BY DEF Owned, Line
    <3>3. Owned(x)' => Owned(x)
      BY <1>9, <3>1, <3>2 DEF Owned
    <3> QED
      BY <1>7, <3>3
  <2>4. Parented(x)' <=> Parented(x)
    <3>1. ASSUME NEW c \in Objects, parent[c] = x PROVE cell'[c] = cell[c]
      <4>1. x # None
        BY ExportedClassAssumption
      <4>2. c \notin Line(o)
        BY <1>4, <1>9, <3>1, <4>1
      <4> QED
        BY <1>3, <4>2
    <3> QED
      BY <3>1 DEF Parented
  <2>5. One(Owned(x)') = One(Owned(x)) /\ One(Parented(x)') = One(Parented(x))
    BY <2>3, <2>4 DEF One
  <2> QED
    BY <1>1, <2>1, <2>2, <2>5 DEF Tally
<1>10. Tally'
  BY <1>8, <1>9 DEF Tally
<1>11. Made'
  <2> SUFFICES ASSUME NEW q \in Leaves, NEW y \in Line(q)
               PROVE  cell'[y] = "none" <=> object'[q] = "none"
    BY DEF Made, Line
  <2>1. y \in Objects /\ q \in Objects
    BY LeafObjects, LineFacts
  <2>2. CASE q = o
    BY <1>3, <1>6, <2>1, <2>2
  <2>3. CASE q # o
    <3>1. y \notin Line(o)
      BY <2>3, LinesApart
    <3> QED
      BY <1>1, <1>3, <1>6, <2>1, <2>3, <3>1 DEF Made
  <2> QED
    BY <2>2, <2>3
<1>12. Waiting'
  BY <1>1, <1>3, <1>7, WaitingKept
<1> QED
  BY <1>2, <1>10, <1>11, <1>12 DEF IInv

\* JavaScript's object gives up its counts.
LEMMA OwnedLess ==
  ASSUME NEW o \in Leaves, object[o] \in {"live", "forsaken"},
         object' = [object EXCEPT ![o] = "zero"],
         object \in [Objects -> {"none", "live", "forsaken", "zero"}]
  PROVE  /\ \A x : x \in Line(o) => Owned(x) /\ ~Owned(x)'
         /\ \A x : x \notin Line(o) => (Owned(x)' <=> Owned(x))
         /\ \A q \in Leaves : object'[q] = "none" <=> object[q] = "none"
<1>1. /\ object'[o] = "zero" /\ \A q \in Leaves : q # o => object'[q] = object[q]
  BY LeafObjects
<1>2. \A x : Owned(x)' <=> \E q \in Leaves : object'[q] \in {"live", "forsaken"} /\ x \in Line(q)
  BY DEF Owned, Line
<1>3. ASSUME NEW x, x \in Line(o) PROVE Owned(x) /\ ~Owned(x)'
  <2>1. Owned(x)
    BY <1>3 DEF Owned
  <2>2. \A q \in Leaves : x \in Line(q) => q = o
    BY <1>3, LinesApart
  <2> QED
    BY <1>1, <1>2, <2>1, <2>2
<1>4. ASSUME NEW x, x \notin Line(o) PROVE Owned(x)' <=> Owned(x)
  BY <1>1, <1>2, <1>4 DEF Owned
<1> QED
  BY <1>1, <1>3, <1>4

LEMMA MadeKept ==
  ASSUME Made, \A o \in Objects : cell'[o] = "none" <=> cell[o] = "none",
         \A q \in Leaves : object'[q] = "none" <=> object[q] = "none"
  PROVE  Made'
<1> SUFFICES ASSUME NEW q \in Leaves, NEW y \in Line(q)
             PROVE  cell'[y] = "none" <=> object'[q] = "none"
  BY DEF Made, Line
<1>1. y \in Objects
  BY LeafObjects, LineFacts
<1> QED
  BY <1>1 DEF Made

LEMMA GiveBackInv == ASSUME ~Early, IInv, NEW o \in Leaves, GiveBack(o) PROVE IInv'
<1> DEFINE n == [x \in Objects |-> One(x \in Line(o) /\ (x # o \/ strong[o] = 1))]
<1>1. Core /\ Tally /\ Made /\ Waiting /\ o \in Objects /\ o \in Line(o)
  BY LeafObjects, LineFacts DEF IInv
<1>2. /\ Core' /\ async' = async /\ DropCounts(n) /\ ~Unbegun(o)
      /\ \A q, kinds : Holding(q, kinds)' =
           Holding(q, kinds) + One(strong[o] # 1 /\ q = o /\ "count" \in kinds)
  BY <1>1, GiveBackCore DEF GiveBack
<1>3. /\ \A x : x \in Line(o) => Owned(x) /\ ~Owned(x)'
      /\ \A x : x \notin Line(o) => (Owned(x)' <=> Owned(x))
      /\ \A q \in Leaves : object'[q] = "none" <=> object[q] = "none"
  BY <1>1, OwnedLess DEF GiveBack, Core, Shape
<1>4. Moved(n)
  <2> SUFFICES ASSUME NEW x \in Objects
               PROVE  /\ n[x] \in Nat
                      /\ Holding(x, Counted) + One(Owned(x))
                           = Holding(x, Counted)' + One(Owned(x)') + n[x]
    BY DEF Moved
  <2>1. Holding(x, Counted) \in Nat /\ "count" \in Counted
    BY <1>1, TallyType DEF Counted
  <2>2. Holding(x, Counted)' = Holding(x, Counted) + One(strong[o] # 1 /\ x = o)
    BY <1>2, <2>1 DEF One
  <2>3. n[x] = One(x \in Line(o) /\ (x # o \/ strong[o] = 1))
    OBVIOUS
  <2> HIDE DEF n
  <2>4. CASE x \in Line(o)
    <3>1. One(Owned(x)) = 1 /\ One(Owned(x)') = 0
      BY <1>3, <2>4 DEF One
    <3>2. CASE x = o /\ strong[o] # 1
      BY <2>1, <2>2, <2>3, <2>4, <3>1, <3>2 DEF One
    <3>3. CASE x # o \/ strong[o] = 1
      BY <2>1, <2>2, <2>3, <2>4, <3>1, <3>3 DEF One
    <3> QED
      BY <3>2, <3>3
  <2>5. CASE x \notin Line(o)
    <3>1. One(Owned(x)') = One(Owned(x)) /\ One(Owned(x)) \in {0, 1}
      BY <1>3, <2>5 DEF One
    <3>2. x # o /\ n[x] = 0 /\ Holding(x, Counted)' = Holding(x, Counted) + 0
      BY <1>1, <2>2, <2>3, <2>5 DEF One
    <3> QED
      BY <2>1, <3>1, <3>2
  <2> QED
    BY <2>4, <2>5
<1> HIDE DEF n
<1>5. Tally' /\ \A q \in Objects : cell'[q] = "none" <=> cell[q] = "none"
  BY <1>1, <1>2, <1>4, DropTally
<1>6. Made'
  BY <1>1, <1>3, <1>5, MadeKept
<1>7. Waiting'
  <2>1. \A a \in Asyncs : async[a].at = "called" =>
          Owned(async[a].anchor.of) /\ async[a].anchor.of \notin Line(o)
    BY <1>1, <1>2 DEF Waiting, Unbegun
  <2>2. \A x : Owned(x) /\ x \notin Line(o) => Owned(x)'
    BY <1>3
  <2> QED
    BY <1>2, <2>1, <2>2 DEF Waiting
<1> QED
  BY <1>2, <1>5, <1>6, <1>7 DEF IInv

LEMMA FinalizeInv == ASSUME IInv, NEW o \in Leaves, Finalize(o) PROVE IInv'
<1> DEFINE n == [x \in Objects |-> One(x \in Line(o))]
<1>1. Core /\ Tally /\ Made /\ o \in Objects
  BY LeafObjects DEF IInv
<1>2. Core' /\ Same /\ async' = async /\ DropCounts(n) /\ \A a \in Asyncs : async[a].at # "called"
  BY <1>1, FinalizeCore DEF Finalize
<1>3. /\ \A x : x \in Line(o) => Owned(x) /\ ~Owned(x)'
      /\ \A x : x \notin Line(o) => (Owned(x)' <=> Owned(x))
      /\ \A q \in Leaves : object'[q] = "none" <=> object[q] = "none"
  BY <1>1, OwnedLess DEF Finalize, Core, Shape
<1>4. Moved(n)
  <2> SUFFICES ASSUME NEW x \in Objects
               PROVE  /\ n[x] \in Nat
                      /\ Holding(x, Counted) + One(Owned(x))
                           = Holding(x, Counted)' + One(Owned(x)') + n[x]
    BY DEF Moved
  <2>1. Holding(x, Counted) \in Nat /\ Holding(x, Counted)' = Holding(x, Counted)
    BY <1>1, <1>2, TallyType DEF Same
  <2>2. n[x] = One(x \in Line(o))
    OBVIOUS
  <2> HIDE DEF n
  <2>3. n[x] \in {0, 1} /\ One(Owned(x)) = One(Owned(x)') + n[x] /\ One(Owned(x)') \in {0, 1}
    <3>1. CASE x \in Line(o)
      BY <1>3, <2>2, <3>1 DEF One
    <3>2. CASE x \notin Line(o)
      BY <1>3, <2>2, <3>2 DEF One
    <3> QED
      BY <3>1, <3>2
  <2> QED
    BY <2>1, <2>3
<1> HIDE DEF n
<1>5. Tally' /\ \A q \in Objects : cell'[q] = "none" <=> cell[q] = "none"
  BY <1>1, <1>2, <1>4, DropTally
<1>6. Made'
  BY <1>1, <1>3, <1>5, MadeKept
<1>7. Waiting'
  BY <1>2 DEF Waiting
<1> QED
  BY <1>2, <1>5, <1>6, <1>7 DEF IInv

\* Steps that move neither counts nor objects.
LEMMA StillInv ==
  ASSUME IInv, Core', Same, strong' = strong, cell' = cell,
         \A o : Owned(o)' <=> Owned(o), \A q \in Leaves : object'[q] = "none" <=> object[q] = "none"
  PROVE  Tally' /\ Made'
<1>1. ASSUME NEW o \in Objects
      PROVE  /\ cell'[o] = "alive" <=> strong'[o] > 0
             /\ strong'[o] = Holding(o, Counted)' + One(Owned(o)') + One(Parented(o)')
  <2>1. Parented(o)' <=> Parented(o)
    BY DEF Parented
  <2>2. One(Owned(o)') = One(Owned(o)) /\ One(Parented(o)') = One(Parented(o))
    BY <2>1 DEF One
  <2> QED
    BY <2>2 DEF IInv, Tally, Same
<1>2. Tally'
  BY <1>1 DEF Tally
<1>3. Made'
  BY MadeKept DEF IInv
<1> QED
  BY <1>2, <1>3

LEMMA ForsakeInv == ASSUME IInv, NEW o \in Leaves, Forsake(o) PROVE IInv'
<1>1. Core' /\ Same /\ cell' = cell /\ strong' = strong /\ async' = async
  BY ForsakeCore DEF IInv, Forsake, cells
<1>2. /\ object[o] = "live" /\ object'[o] = "forsaken"
      /\ \A q \in Leaves : q # o => object'[q] = object[q]
  BY LeafObjects DEF Forsake, IInv, Core, Shape
<1>3. \A x : Owned(x)' <=> Owned(x)
  <2>1. \A x : Owned(x)' <=> \E q \in Leaves : object'[q] \in {"live", "forsaken"} /\ x \in Line(q)
    BY DEF Owned, Line
  <2> QED
    BY <1>2, <2>1 DEF Owned
<1>4. Tally' /\ Made'
  BY <1>1, <1>2, <1>3, StillInv
<1>5. Waiting'
  BY <1>1, <1>3, WaitingKept DEF IInv
<1> QED
  BY <1>1, <1>4, <1>5 DEF IInv

LEMMA EnterInv == ASSUME IInv, NEW args \in Args, Enter(args) PROVE IInv'
<1>1. Core /\ Tally /\ Made /\ Waiting
  BY DEF IInv
<1>2. /\ Core' /\ args \in Full /\ Added(args) /\ Backed(args) /\ Take(args)
      /\ UNCHANGED <<cell, object, async>>
  BY <1>1, EnterCore DEF Enter
<1>3. args \in Seq(Losable) /\ \A i \in DOMAIN args : Owned(args[i].of)
  BY <1>2, FullArgs, ReachableOwned DEF Backed
<1>4. Tally'
  BY <1>1, <1>2, <1>3, TakeTally
<1>5. Made' /\ Waiting'
  BY <1>1, <1>2, OwnedSame, WaitingKept
<1> QED
  BY <1>2, <1>4, <1>5 DEF IInv

LEMMA FailsInv == ASSUME IInv, NEW args \in Args, Fails(args) PROVE IInv'
<1>1. Core /\ Tally /\ Made /\ Waiting
  BY DEF IInv
<1>2. Core' /\ UNCHANGED <<cell, object, async>>
  BY <1>1, FailsCore DEF Fails
<1>3. PICK gone \in Seq(Losable) : Take(gone) /\ Added(gone) /\ Backed(gone)
  BY <1>1, FailsCore
<1>4. \A i \in DOMAIN gone : Owned(gone[i].of)
  BY <1>3, ReachableOwned DEF Backed
<1>5. Tally'
  BY <1>1, <1>2, <1>3, <1>4, TakeTally
<1>6. Made' /\ Waiting'
  BY <1>1, <1>2, OwnedSame, WaitingKept
<1> QED
  BY <1>2, <1>5, <1>6 DEF IInv

\* Anchors that are dropped, of a call that ends.
LEMMA DroppedInv ==
  ASSUME IInv, Core', NEW s, IsFiniteSet(DOMAIN s), Dropped(s), DropCounts(Counts(s)),
         object' = object,
         \A a \in Asyncs : async'[a].at = "called" => async'[a] = async[a]
  PROVE  IInv'
<1>1. Core /\ Tally /\ Made /\ Waiting
  BY DEF IInv
<1>2. \A x : Owned(x)' <=> Owned(x)
  BY DEF Owned, Line
<1>3. Moved(Counts(s))
  <2> SUFFICES ASSUME NEW x \in Objects
               PROVE  /\ Counts(s)[x] \in Nat
                      /\ Holding(x, Counted) + One(Owned(x))
                           = Holding(x, Counted)' + One(Owned(x)') + Counts(s)[x]
    BY DEF Moved
  <2>1. Counts(s)[x] = Number(s, x, Counted) /\ Number(s, x, Counted) \in Nat
    BY NumberType DEF Counts
  <2>2. Holding(x, Counted) = Holding(x, Counted)' + Number(s, x, Counted)
    BY DEF Dropped
  <2>3. Holding(x, Counted)' \in Nat
    <3>1. stack' \in Seq(Full) /\ lost' \in Seq(Losable)
      BY DEF Core, Shape
    <3> QED
      BY <3>1, HoldingIs, PartsType
  <2>4. One(Owned(x)') = One(Owned(x)) /\ One(Owned(x)) \in {0, 1}
    BY <1>2 DEF One
  <2> QED
    BY <2>1, <2>2, <2>3, <2>4
<1>4. Tally' /\ \A q \in Objects : cell'[q] = "none" <=> cell[q] = "none"
  BY <1>1, <1>3, DropTally
<1>5. Made'
  BY <1>1, <1>4, MadeKept
<1>6. Waiting'
  BY <1>1, <1>2, WaitingKept
<1> QED
  BY <1>4, <1>5, <1>6 DEF IInv

LEMMA ReturnInv == ASSUME IInv, Return PROVE IInv'
<1>1. /\ Core' /\ IsFiniteSet(DOMAIN Last(stack)) /\ Dropped(Last(stack))
      /\ DropCounts(Counts(Last(stack)))
  BY ReturnCore DEF IInv
<1>2. object' = object /\ async' = async
  BY DEF Return
<1> QED
  BY <1>1, <1>2, DroppedInv

LEMMA ThrowInv == ASSUME IInv, Throw PROVE IInv'
<1>1. Core' /\ Same /\ strong' = strong /\ UNCHANGED <<cell, object, async>>
  BY ThrowCore DEF IInv, Throw, cells
<1>2. \A o : Owned(o)' <=> Owned(o)
  BY <1>1, OwnedSame
<1>3. Tally' /\ Made'
  BY <1>1, <1>2, StillInv
<1>4. Waiting'
  BY <1>1, <1>2, WaitingKept DEF IInv
<1> QED
  BY <1>1, <1>3, <1>4 DEF IInv

LEMMA CallInv ==
  ASSUME IInv, NEW a \in Asyncs, NEW x \in Anchors, Call(a, x) PROVE IInv'
<1>1. /\ Core' /\ Same /\ Reachable(x.of) /\ async'[a].anchor = x
      /\ \A b \in Asyncs : b # a => async'[b] = async[b]
  BY CallCore DEF IInv
<1>2. strong' = strong /\ UNCHANGED <<cell, object>>
  BY DEF Call, cells
<1>3. \A o : Owned(o)' <=> Owned(o)
  BY <1>2, OwnedSame
<1>4. Tally' /\ Made'
  BY <1>1, <1>2, <1>3, StillInv
<1>5. Waiting'
  <2>1. Owned(x.of)'
    BY <1>1, <1>3, ReachableOwned
  <2>2. ASSUME NEW b \in Asyncs, b # a, async'[b].at = "called"
        PROVE  Owned(async[b].anchor.of) /\ async'[b] = async[b]
    BY <1>1, <2>2 DEF IInv, Waiting
  <2> QED
    BY <1>1, <1>3, <2>1, <2>2 DEF Waiting
<1> QED
  BY <1>1, <1>4, <1>5 DEF IInv

LEMMA BeginInv == ASSUME IInv, NEW a \in Asyncs, Begin(a) PROVE IInv'
<1>1. Core /\ Tally /\ Made /\ Waiting
  BY DEF IInv
<1>2. /\ Core' /\ async'[a].at # "called" /\ \A b \in Asyncs : b # a => async'[b] = async[b]
      /\ UNCHANGED <<cell, object>> /\ async[a].at = "called"
  BY <1>1, BeginCore DEF Begin
<1>3. PICK s \in Seq(Losable) : /\ Take(s) /\ Added(s)
                                /\ \A i \in DOMAIN s : s[i].of = async[a].anchor.of
  BY <1>1, BeginCore
<1>4. \A i \in DOMAIN s : Owned(s[i].of)
  BY <1>1, <1>2, <1>3 DEF Waiting
<1>5. Tally'
  BY <1>1, <1>2, <1>3, <1>4, TakeTally
<1>6. Made' /\ Waiting'
  BY <1>1, <1>2, OwnedSame, WaitingKept
<1> QED
  BY <1>2, <1>5, <1>6 DEF IInv

LEMMA EndInv == ASSUME IInv, NEW a \in Asyncs, End(a) PROVE IInv'
<1>1. PICK s : s = <<async[a].anchor>>
  OBVIOUS
<1>2. /\ Core' /\ IsFiniteSet(DOMAIN s) /\ Dropped(s) /\ DropCounts(Counts(s))
      /\ \A b \in Asyncs : async'[b].at = "called" => async'[b] = async[b]
  BY <1>1, EndCore DEF IInv
<1>3. object' = object
  BY DEF End
<1> QED
  BY <1>2, <1>3, DroppedInv

LEMMA StutterInv == ASSUME IInv, UNCHANGED vars PROVE IInv'
<1>1. Core' /\ Same /\ strong' = strong /\ UNCHANGED <<cell, object, async>>
  BY StutterCore DEF IInv, vars
<1>2. \A o : Owned(o)' <=> Owned(o)
  BY <1>1, OwnedSame
<1>3. Tally' /\ Made'
  BY <1>1, <1>2, StillInv
<1>4. Waiting'
  BY <1>1, <1>2, WaitingKept DEF IInv
<1> QED
  BY <1>1, <1>3, <1>4 DEF IInv

LEMMA NextInv == ASSUME ~Early PROVE IInv /\ [Next]_vars => IInv'
<1> SUFFICES ASSUME IInv, [Next]_vars PROVE IInv'
  OBVIOUS
<1>1. ASSUME NEW o \in Leaves, New(o) \/ GiveBack(o) \/ Forsake(o) \/ Finalize(o) PROVE IInv'
  BY <1>1, NewInv, GiveBackInv, ForsakeInv, FinalizeInv
<1>2. ASSUME NEW args \in Args, Enter(args) \/ Fails(args) PROVE IInv'
  BY <1>2, EnterInv, FailsInv
<1>3. CASE Return
  BY <1>3, ReturnInv
<1>4. CASE Throw
  BY <1>4, ThrowInv
<1>5. ASSUME NEW a \in Asyncs, Begin(a) PROVE IInv'
  BY <1>5, BeginInv
<1>6. ASSUME NEW a \in Asyncs, End(a) PROVE IInv'
  BY <1>6, EndInv
<1>7. ASSUME NEW a \in Asyncs, NEW x \in Anchors, Call(a, x) PROVE IInv'
  BY <1>7, CallInv
<1>8. CASE UNCHANGED vars
  BY <1>8, StutterInv
<1> QED
  BY <1>1, <1>2, <1>3, <1>4, <1>5, <1>6, <1>7, <1>8 DEF Next

-----------------------------------------------------------------------------
\* The types: no count goes below zero, and no flag below one writer's.
THEOREM TypeCorrect == ASSUME ~Early PROVE Spec => []TypeOK
<1>1. Init => IInv
  BY InitInv
<1>2. IInv /\ [Next]_vars => IInv'
  BY NextInv
<1>3. IInv => TypeOK
  <2> SUFFICES ASSUME IInv PROVE TypeOK
    OBVIOUS
  <2>1. Core /\ Shape /\ Tally /\ Flags
    BY DEF IInv, Core
  <2>2. \A o \in Objects : strong[o] \in Nat
    BY <2>1, TallyType DEF Tally
  <2>3. \A o \in Objects : borrow[o] \in {-1} \cup Nat
    <3> SUFFICES ASSUME NEW o \in Objects PROVE borrow[o] \in {-1} \cup Nat
      OBVIOUS
    <3>1. /\ Holding(o, {"ref"}) \in Nat /\ Holding(o, {"mut"}) \in Nat
          /\ borrow[o] = Holding(o, {"ref"}) - Holding(o, {"mut"})
          /\ Holding(o, {"mut"}) = 0 \/ (Holding(o, {"mut"}) = 1 /\ Holding(o, {"ref"}) = 0)
      BY <2>1, HoldingType DEF Flags
    <3> QED
      BY <3>1
  <2>4. stack \in Seq(Args)
    BY <2>1, StackFull DEF Shape
  <2>5. strong \in [Objects -> Nat]
    BY <2>1, <2>2 DEF Shape
  <2>6. borrow \in [Objects -> {-1} \cup Nat]
    BY <2>1, <2>3 DEF Shape
  <2> QED
    BY <2>1, <2>4, <2>5, <2>6 DEF Shape, TypeOK, Losable
<1> QED
  BY <1>1, <1>2, <1>3, PTL DEF Spec

\* Every count of a cell has an owner, a JavaScript object, a value that it is
\* the parent of, an anchor under way or one that an exception lost, every
\* owner has one, and a cell lives as long as it is counted (RcRef, RcRefMut,
\* the free functions and the upcasts of codegen.rs).
THEOREM CountsExact == ASSUME ~Early PROVE Spec => []CountExact
<1>1. Init => IInv
  BY InitInv
<1>2. IInv /\ [Next]_vars => IInv'
  BY NextInv
<1>3. IInv => CountExact
  BY TallyExact DEF IInv
<1> QED
  BY <1>1, <1>2, <1>3, PTL DEF Spec

\* Who will use a pointer finds its cell alive, objects and their finalizers,
\* calls under way, async calls that were not polled yet, provided that no
\* object is given back before its async calls began: what it takes is that
\* and no more.
THEOREM PointersStayValid == ASSUME ~Early PROVE Spec => []PointersValid
<1>1. Init => IInv
  BY InitInv
<1>2. IInv /\ [Next]_vars => IInv'
  BY NextInv
<1>3. IInv => PointersValid
  <2> SUFFICES ASSUME IInv PROVE PointersValid
    OBVIOUS
  <2>1. Core /\ Shape /\ Tally /\ Waiting
    BY DEF IInv, Core
  <2>2. ASSUME NEW o \in Leaves, object[o] \in {"live", "forsaken"}, NEW x \in Line(o)
        PROVE  cell[x] = "alive"
    <3>1. x \in Objects /\ Owned(x)
      BY <2>2, LeafObjects, LineFacts DEF Owned
    <3> QED
      BY <2>1, <3>1, OwnedAlive
  <2>3. ASSUME NEW o \in Objects, Number(Placed(stack), o, Counted) > 0
        PROVE  cell[o] = "alive"
    <3>1. /\ Number(Placed(stack), o, Counted) \in Nat /\ Number(Polled(async), o, Counted) \in Nat
          /\ Number(lost, o, Counted) \in Nat
      BY <2>1, PartsType DEF Shape
    <3>2. Holding(o, Counted) > 0
      BY <2>3, <3>1, HoldingIs
    <3> QED
      BY <2>1, <3>2, OwnedAlive
  <2>4. ASSUME NEW a \in Asyncs, async[a].at = "called" PROVE cell[async[a].anchor.of] = "alive"
    <3>1. async[a].anchor.of \in Objects
      BY <2>1, <2>4 DEF Shape, Whole
    <3> QED
      BY <2>1, <2>4, <3>1, OwnedAlive DEF Waiting
  <2>5. ASSUME NEW a \in Asyncs, async[a].at = "polled" PROVE cell[async[a].anchor.of] = "alive"
    <3>1. PICK o \in Objects : o = async[a].anchor.of /\ async[a].anchor.kind \in Counted
      BY <2>1, <2>5 DEF Shape, Whole, Counted
    <3>2. a \in DOMAIN Polled(async) /\ Polled(async)[a] = async[a].anchor
      BY <2>5 DEF Polled
    <3>3. Number(Polled(async), o, Counted) > 0
      BY <3>1, <3>2, PolledFinite, NumberType
    <3>4. /\ Number(Placed(stack), o, Counted) \in Nat /\ Number(Polled(async), o, Counted) \in Nat
          /\ Number(lost, o, Counted) \in Nat
      BY <2>1, PartsType DEF Shape
    <3>5. Holding(o, Counted) > 0
      BY <3>3, <3>4, HoldingIs
    <3> QED
      BY <2>1, <3>1, <3>5, OwnedAlive
  <2>6. InCalls = Placed(stack)
    BY DEF InCalls, Placed, Places
  <2> QED
    BY <2>2, <2>3, <2>4, <2>5, <2>6 DEF PointersValid
<1> QED
  BY <1>1, <1>2, <1>3, PTL DEF Spec
=============================================================================
