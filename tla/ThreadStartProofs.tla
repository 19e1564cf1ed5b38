-------------------------- MODULE ThreadStartProofs --------------------------
(***************************************************************************)
(* Proofs about ThreadStart, for any number of threads, any stack sizes    *)
(* and an allocator that may fail.  The lock needs no assumption; that     *)
(* stacks stay separate and blocks are freed right is proved of programs   *)
(* that do not destroy the first thread.                                   *)
(***************************************************************************)
EXTENDS ThreadStart, TLAPS

\* The lock is held while somebody runs on the temporary stack: one thread.
LockHeld ==
  /\ \A t \in Threads : OnTemp(t) => lock = 1
  /\ \A t, u \in Threads : OnTemp(t) /\ OnTemp(u) => t = u

\* Thread ids are below the counter and are not given twice.
IdsDiffer ==
  /\ \A t \in Threads : pc[t] # "new" => id[t] < counter
  /\ \A t, u \in Threads : pc[t] # "new" /\ pc[u] # "new" /\ id[t] = id[u] => t = u

LockLabels == {"lock", "wait", "asleep", "critical", "unlock", "notify"}

\* The first thread needs no temporary stack, and no leader the null branch.
FirstSpared ==
  \A t \in Threads :
    /\ op[t] # "lead"
    /\ pc[t] \in LockLabels => id[t] # 0
    /\ op[t] = "destroy" => id[t] # 0 /\ pc[t] \in LockLabels \cup {"gone"}

\* The threads that own an allocated stack, and thread-local memory.
HasStack(t) ==
  /\ id[t] # 0
  /\ \/ pc[t] \in {"tls", "ready"}
     \/ op[t] = "start" /\ pc[t] \in {"unlock", "notify"}
     \/ op[t] = "destroy" /\ pc[t] \in {"lock", "wait", "asleep", "critical"}
HasTls(t) == pc[t] = "ready"

\* Owned blocks are allocated, in their size, and nobody owns another's.
BlocksOwned ==
  /\ \A t \in Threads : HasStack(t) =>
       stackAlloc[t] \in Addrs /\ live[stackAlloc[t]] = stackSize[t]
  /\ \A t \in Threads : HasTls(t) =>
       tlsBase[t] \in Addrs /\ live[tlsBase[t]] = TlsSize
  /\ \A t, u \in Threads : HasStack(t) /\ HasTls(u) => stackAlloc[t] # tlsBase[u]
  /\ \A t, u \in Threads :
       HasStack(t) /\ HasStack(u) /\ stackAlloc[t] = stackAlloc[u] => t = u
  /\ \A t, u \in Threads :
       HasTls(t) /\ HasTls(u) /\ tlsBase[t] = tlsBase[u] => t = u

LockInv == TypeOK /\ LockHeld /\ NoWaiterForgotten
IInv == LockInv /\ IdsDiffer /\ FirstSpared /\ BlocksOwned /\ FreesExact

-----------------------------------------------------------------------------
LEMMA FreshIsFree ==
  ASSUME Free # {}
  PROVE  Fresh \in Addrs /\ live[Fresh] = 0
BY DEF Free, Fresh

LEMMA TypeInit == Init => TypeOK
<1> SUFFICES ASSUME Init PROVE TypeOK
  OBVIOUS
<1>1. DefaultSize \in Sizes
  BY ThreadStartAssumption
<1>2. /\ counter \in Nat /\ lock \in {0, 1}
      /\ live \in [Addrs \cup {Null} -> Nat] /\ misfreed \in BOOLEAN
  BY DEF Init
<1>3. /\ pc \in [Threads -> Labels]
      /\ op \in [Threads -> {"start", "destroy", "lead"}]
  BY DEF Init, Labels
<1>4. /\ id \in [Threads -> Nat] /\ stackSize \in [Threads -> Sizes]
      /\ stackAlloc \in [Threads -> Addrs \cup {Null}]
      /\ tlsBase \in [Threads -> Addrs \cup {Null}]
  BY <1>1 DEF Init
<1> QED
  BY <1>2, <1>3, <1>4 DEF TypeOK

LEMMA TypeStep == TypeOK /\ [Next]_vars => TypeOK'
<1> SUFFICES ASSUME TypeOK, [Next]_vars PROVE TypeOK'
  OBVIOUS
<1> USE ThreadStartAssumption DEF TypeOK, Labels, Put, Goto, memory, globals
<1>1. ASSUME NEW t \in Threads, NEW size \in Sizes, Start(t, size) PROVE TypeOK'
  BY <1>1 DEF Start
<1>2. ASSUME NEW t \in Threads, TryLock(t) PROVE TypeOK'
  BY <1>2 DEF TryLock
<1>3. ASSUME NEW t \in Threads, Wait(t) PROVE TypeOK'
  BY <1>3 DEF Wait
<1>4. ASSUME NEW t \in Threads, Critical(t) PROVE TypeOK'
  <2>1. stackSize[t] \in Nat
    OBVIOUS
  <2>2. CASE malloc(stackSize[t]) /\ stackAlloc' = Put(stackAlloc, t, Fresh)
    BY <1>4, <2>1, <2>2, FreshIsFree DEF Critical, malloc
  <2>3. CASE free(stackAlloc[t], stackSize[t]) /\ UNCHANGED stackAlloc
    BY <1>4, <2>3 DEF Critical, free
  <2> QED
    BY <1>4, <2>2, <2>3 DEF Critical
<1>5. ASSUME NEW t \in Threads, Jam(t) \/ Die(t) PROVE TypeOK'
  BY <1>5 DEF Jam, Die
<1>6. ASSUME NEW t \in Threads, Unlock(t) PROVE TypeOK'
  BY <1>6 DEF Unlock
<1>7. ASSUME NEW t \in Threads, Notify(t) PROVE TypeOK'
  BY <1>7 DEF Notify, After, Asleep
<1>8. ASSUME NEW t \in Threads, InitTls(t) PROVE TypeOK'
  BY <1>8, FreshIsFree DEF InitTls, malloc
<1>9. ASSUME NEW t \in Threads, DestroySelf(t) PROVE TypeOK'
  BY <1>9 DEF DestroySelf, free
<1>10. ASSUME NEW l \in Threads, NEW f \in Threads, DestroyOther(l, f) PROVE TypeOK'
  <2>1. CASE stackAlloc[f] # Null
    BY <1>10, <2>1 DEF DestroyOther
  <2>2. CASE stackAlloc[f] = Null
    BY <1>10, <2>2 DEF DestroyOther, free
  <2> QED
    BY <2>1, <2>2
<1>11. ASSUME UNCHANGED vars PROVE TypeOK'
  BY <1>11 DEF vars
<1> QED
  BY <1>1, <1>2, <1>3, <1>4, <1>5, <1>6, <1>7, <1>8, <1>9, <1>10, <1>11 DEF Next, Go

-----------------------------------------------------------------------------
\* Who moves without touching the lock or entering or leaving what it guards.
LEMMA LockInit == Init => LockInv
BY TypeInit DEF Init, LockInv, LockHeld, NoWaiterForgotten, OnTemp, Asleep

LEMMA LockStep == LockInv /\ [Next]_vars => LockInv'
<1> SUFFICES ASSUME LockInv, [Next]_vars PROVE LockHeld' /\ NoWaiterForgotten'
  BY TypeStep DEF LockInv
<1> USE DEF LockInv, TypeOK, LockHeld, NoWaiterForgotten, OnTemp, Asleep, Put, Goto
<1>1. ASSUME NEW t \in Threads, NEW size \in Sizes, Start(t, size)
      PROVE  LockHeld' /\ NoWaiterForgotten'
  BY <1>1 DEF Start
<1>2. ASSUME NEW t \in Threads, TryLock(t) PROVE LockHeld' /\ NoWaiterForgotten'
  BY <1>2 DEF TryLock
<1>3. ASSUME NEW t \in Threads, Wait(t) PROVE LockHeld' /\ NoWaiterForgotten'
  BY <1>3 DEF Wait
<1>4. ASSUME NEW t \in Threads, Critical(t) PROVE LockHeld' /\ NoWaiterForgotten'
  BY <1>4 DEF Critical
<1>5. ASSUME NEW t \in Threads, Jam(t) \/ Die(t) PROVE LockHeld' /\ NoWaiterForgotten'
  BY <1>5 DEF Jam, Die
<1>6. ASSUME NEW t \in Threads, Unlock(t) PROVE LockHeld' /\ NoWaiterForgotten'
  BY <1>6 DEF Unlock
<1>7. ASSUME NEW t \in Threads, Notify(t) PROVE LockHeld' /\ NoWaiterForgotten'
  <2>1. After(t) \in {"tls", "gone", "ready"}
    BY DEF After
  <2>2. CASE Asleep = {} /\ Goto(t, After(t))
    BY <1>7, <2>1, <2>2 DEF Notify
  <2>3. CASE \E w \in Asleep : pc' = [pc EXCEPT ![t] = After(t), ![w] = "lock"]
    BY <1>7, <2>1, <2>3 DEF Notify
  <2> QED
    BY <1>7, <2>2, <2>3 DEF Notify
<1>8. ASSUME NEW t \in Threads, InitTls(t) PROVE LockHeld' /\ NoWaiterForgotten'
  BY <1>8 DEF InitTls
<1>9. ASSUME NEW t \in Threads, DestroySelf(t) PROVE LockHeld' /\ NoWaiterForgotten'
  BY <1>9 DEF DestroySelf, MayDestroy
<1>10. ASSUME NEW l \in Threads, NEW f \in Threads, DestroyOther(l, f)
       PROVE  LockHeld' /\ NoWaiterForgotten'
  BY <1>10 DEF DestroyOther, MayDestroy
<1>11. ASSUME UNCHANGED vars PROVE LockHeld' /\ NoWaiterForgotten'
  BY <1>11 DEF vars
<1> QED
  BY <1>1, <1>2, <1>3, <1>4, <1>5, <1>6, <1>7, <1>8, <1>9, <1>10, <1>11 DEF Next, Go

-----------------------------------------------------------------------------
\* The memory, in programs that spare the first thread.
LEMMA InitInv == Init => IInv
<1> SUFFICES ASSUME Init PROVE IInv
  OBVIOUS
<1>1. LockInv
  BY LockInit
<1>2. \A t \in Threads : pc[t] = "new" /\ op[t] = "start"
  BY DEF Init
<1>3. IdsDiffer
  BY <1>2 DEF IdsDiffer
<1>4. FirstSpared
  BY <1>2 DEF FirstSpared, LockLabels
<1>5. BlocksOwned
  BY <1>2 DEF BlocksOwned, HasStack, HasTls
<1>6. FreesExact
  BY DEF Init, FreesExact
<1> QED
  BY <1>1, <1>3, <1>4, <1>5, <1>6 DEF IInv

LEMMA IdsStep == TypeOK /\ IdsDiffer /\ [Next]_vars => IdsDiffer'
<1> SUFFICES ASSUME TypeOK, IdsDiffer, [Next]_vars PROVE IdsDiffer'
  OBVIOUS
<1> USE DEF IdsDiffer, TypeOK, Put, Goto
<1>1. ASSUME NEW t \in Threads, NEW size \in Sizes, Start(t, size) PROVE IdsDiffer'
  <2>1. /\ counter' = counter + 1 /\ counter \in Nat
        /\ id' = [id EXCEPT ![t] = counter] /\ id \in [Threads -> Nat]
        /\ pc[t] = "new"
        /\ \A u \in Threads \ {t} : pc'[u] = pc[u]
    BY <1>1 DEF Start
  <2>2. \A u \in Threads : pc'[u] # "new" => id'[u] < counter'
    BY <2>1
  <2>3. \A u \in Threads \ {t} : pc'[u] # "new" => id'[u] # id'[t]
    BY <2>1
  <2> QED
    BY <2>1, <2>2, <2>3
<1>2. ASSUME NEW t \in Threads, Go(t) \/ DestroySelf(t) PROVE IdsDiffer'
  <2>1. UNCHANGED <<counter, id>>
    BY <1>2 DEF Go, TryLock, Wait, Critical, Jam, Unlock, Notify, InitTls, Die,
                DestroySelf
  <2>2. \A u \in Threads : pc'[u] # "new" => pc[u] # "new"
    BY <1>2 DEF Go, TryLock, Wait, Critical, Jam, Unlock, Notify, InitTls, Die,
                DestroySelf, MayDestroy, Asleep
  <2> QED
    BY <2>1, <2>2
<1>3. ASSUME NEW l \in Threads, NEW f \in Threads, DestroyOther(l, f) PROVE IdsDiffer'
  <2>1. UNCHANGED <<counter, id>>
    BY <1>3 DEF DestroyOther
  <2>2. \A u \in Threads : pc'[u] # "new" => pc[u] # "new"
    BY <1>3 DEF DestroyOther, MayDestroy
  <2> QED
    BY <2>1, <2>2
<1>4. ASSUME UNCHANGED vars PROVE IdsDiffer'
  BY <1>4 DEF vars
<1> QED
  BY <1>1, <1>2, <1>3, <1>4 DEF Next

LEMMA SparedStep ==
  ASSUME FirstToo = FALSE, IInv, [Next]_vars
  PROVE  FirstSpared'
<1> USE DEF IInv, LockInv, FirstSpared, LockLabels, TypeOK, Put, Goto
<1>1. ASSUME NEW t \in Threads, NEW size \in Sizes, Start(t, size) PROVE FirstSpared'
  BY <1>1 DEF Start
<1>2. ASSUME NEW t \in Threads, TryLock(t) \/ Wait(t) \/ Unlock(t) PROVE FirstSpared'
  BY <1>2 DEF TryLock, Wait, Unlock
<1>3. ASSUME NEW t \in Threads, Critical(t) PROVE FirstSpared'
  BY <1>3 DEF Critical
<1>4. ASSUME NEW t \in Threads, Jam(t) \/ Die(t) PROVE FirstSpared'
  BY <1>4 DEF Jam, Die
<1>5. ASSUME NEW t \in Threads, Notify(t) PROVE FirstSpared'
  <2>1. After(t) = IF op[t] = "start" THEN "tls" ELSE "gone"
    BY DEF After
  <2> QED
    BY <1>5, <2>1 DEF Notify, Asleep
<1>6. ASSUME NEW t \in Threads, InitTls(t) PROVE FirstSpared'
  BY <1>6 DEF InitTls
<1>7. ASSUME NEW t \in Threads, DestroySelf(t) PROVE FirstSpared'
  BY <1>7 DEF DestroySelf, MayDestroy
<1>8. ASSUME NEW l \in Threads, NEW f \in Threads, DestroyOther(l, f) PROVE FirstSpared'
  <2>1. HasStack(f) /\ stackAlloc[f] # Null
    BY <1>8, ThreadStartAssumption DEF DestroyOther, MayDestroy, HasStack, BlocksOwned
  <2> QED
    BY <1>8, <2>1 DEF DestroyOther, MayDestroy
<1>9. ASSUME UNCHANGED vars PROVE FirstSpared'
  BY <1>9 DEF vars
<1> QED
  BY <1>1, <1>2, <1>3, <1>4, <1>5, <1>6, <1>7, <1>8, <1>9 DEF Next, Go

\* A step that leaves memory and blocks alone, and whose threads own no more
\* than before, keeps the blocks owned.
LEMMA NothingAcquired ==
  ASSUME BlocksOwned, UNCHANGED <<live, globals>>,
         \A t \in Threads : (HasStack(t)' => HasStack(t)) /\ (HasTls(t)' => HasTls(t))
  PROVE  BlocksOwned'
BY DEF BlocksOwned, globals

LEMMA SizesArePositive ==
  ASSUME TypeOK, NEW t \in Threads
  PROVE  stackSize[t] \in Nat \ {0} /\ TlsSize \in Nat \ {0}
BY ThreadStartAssumption DEF TypeOK

LEMMA CriticalBlocks ==
  ASSUME IInv, NEW t \in Threads, Critical(t)
  PROVE  BlocksOwned' /\ FreesExact'
<1> USE DEF IInv, LockInv, TypeOK, Put, Goto
<1>1. /\ pc' = [pc EXCEPT ![t] = "unlock"] /\ pc[t] = "critical"
      /\ UNCHANGED <<op, id, stackSize, tlsBase>>
      /\ id[t] # 0 /\ op[t] \in {"start", "destroy"}
  BY DEF Critical, FirstSpared, LockLabels
<1>2. ASSUME NEW u \in Threads, u # t
      PROVE  (HasStack(u)' <=> HasStack(u)) /\ (HasTls(u)' <=> HasTls(u))
  BY <1>1, <1>2 DEF HasStack, HasTls
<1>3. ~HasTls(t) /\ ~HasTls(t)'
  BY <1>1 DEF HasTls
<1>4. CASE op[t] = "start"
  <2>1. /\ live' = [live EXCEPT ![Fresh] = stackSize[t]] /\ UNCHANGED misfreed
        /\ stackAlloc' = [stackAlloc EXCEPT ![t] = Fresh]
        /\ Fresh \in Addrs /\ live[Fresh] = 0
    BY <1>4, FreshIsFree DEF Critical, malloc
  <2>2. \A u \in Threads : HasStack(u) => stackAlloc[u] # Fresh
    BY <2>1, SizesArePositive DEF BlocksOwned
  <2>3. \A u \in Threads : HasTls(u) => tlsBase[u] # Fresh
    BY <2>1, SizesArePositive DEF BlocksOwned
  <2>4. /\ stackAlloc'[t] \in Addrs
        /\ live'[stackAlloc'[t]] = stackSize'[t]
    BY <1>1, <2>1
  <2>5. \A u \in Threads : u # t /\ HasStack(u)' =>
          /\ stackAlloc'[u] = stackAlloc[u] /\ stackAlloc[u] # Fresh
          /\ HasStack(u) /\ live'[stackAlloc[u]] = live[stackAlloc[u]]
    BY <1>2, <2>1, <2>2 DEF BlocksOwned
  <2>6. \A u \in Threads : HasTls(u)' =>
          /\ tlsBase'[u] = tlsBase[u] /\ tlsBase[u] # Fresh
          /\ HasTls(u) /\ live'[tlsBase[u]] = live[tlsBase[u]]
    BY <1>1, <1>2, <1>3, <2>1, <2>3 DEF BlocksOwned
  <2>7. BlocksOwned'
    BY <1>1, <2>1, <2>4, <2>5, <2>6 DEF BlocksOwned
  <2> QED
    BY <2>1, <2>7 DEF FreesExact
<1>5. CASE op[t] = "destroy"
  <2>1. HasStack(t) /\ ~HasStack(t)'
    BY <1>1, <1>5 DEF HasStack
  <2>2. /\ live' = [live EXCEPT ![stackAlloc[t]] = 0] /\ UNCHANGED stackAlloc
        /\ misfreed' = (misfreed \/ live[stackAlloc[t]] # stackSize[t])
        /\ stackAlloc[t] \in Addrs /\ live[stackAlloc[t]] = stackSize[t]
    BY <1>5, <2>1 DEF Critical, free, BlocksOwned
  <2>3. \A u \in Threads : HasStack(u)' =>
          HasStack(u) /\ u # t /\ live'[stackAlloc[u]] = live[stackAlloc[u]]
    BY <1>2, <2>1, <2>2 DEF BlocksOwned
  <2>4. \A u \in Threads : HasTls(u)' =>
          HasTls(u) /\ live'[tlsBase[u]] = live[tlsBase[u]]
    BY <1>2, <1>3, <2>1, <2>2 DEF BlocksOwned
  <2>5. BlocksOwned'
    BY <1>1, <2>2, <2>3, <2>4 DEF BlocksOwned
  <2> QED
    BY <2>2, <2>5 DEF FreesExact
<1> QED
  BY <1>1, <1>4, <1>5

LEMMA InitTlsBlocks ==
  ASSUME IInv, NEW t \in Threads, InitTls(t)
  PROVE  BlocksOwned' /\ FreesExact'
<1> USE DEF IInv, LockInv, TypeOK, Put, Goto
<1>1. /\ pc' = [pc EXCEPT ![t] = "ready"] /\ pc[t] = "tls"
      /\ UNCHANGED <<op, id, stackSize, stackAlloc>>
      /\ live' = [live EXCEPT ![Fresh] = TlsSize] /\ UNCHANGED misfreed
      /\ tlsBase' = [tlsBase EXCEPT ![t] = Fresh]
      /\ Fresh \in Addrs /\ live[Fresh] = 0
  BY FreshIsFree DEF InitTls, malloc
<1>2. \A u \in Threads : HasStack(u)' <=> HasStack(u)
  BY <1>1 DEF HasStack
<1>3. \A u \in Threads : HasStack(u) =>
        stackAlloc[u] # Fresh /\ live'[stackAlloc[u]] = live[stackAlloc[u]]
  BY <1>1, SizesArePositive DEF BlocksOwned
<1>4. \A u \in Threads : u # t /\ HasTls(u)' =>
        /\ HasTls(u) /\ tlsBase'[u] = tlsBase[u]
        /\ tlsBase[u] # Fresh /\ live'[tlsBase[u]] = live[tlsBase[u]]
  BY <1>1, SizesArePositive DEF BlocksOwned, HasTls
<1>5. tlsBase'[t] = Fresh /\ live'[Fresh] = TlsSize
  BY <1>1
<1>6. BlocksOwned'
  BY <1>1, <1>2, <1>3, <1>4, <1>5 DEF BlocksOwned
<1> QED
  BY <1>1, <1>6 DEF FreesExact

LEMMA DestroySelfBlocks ==
  ASSUME FirstToo = FALSE, IInv, NEW t \in Threads, DestroySelf(t)
  PROVE  BlocksOwned' /\ FreesExact'
<1> USE DEF IInv, LockInv, TypeOK, Put, Goto
<1>1. /\ pc[t] = "ready" /\ id[t] # 0
      /\ pc' = [pc EXCEPT ![t] = "lock"] /\ op' = [op EXCEPT ![t] = "destroy"]
      /\ live' = [live EXCEPT ![tlsBase[t]] = 0]
      /\ misfreed' = (misfreed \/ live[tlsBase[t]] # TlsSize)
      /\ tlsBase' = [tlsBase EXCEPT ![t] = Null]
      /\ UNCHANGED <<id, stackSize, stackAlloc>>
  BY DEF DestroySelf, MayDestroy, free
<1>2. HasTls(t) /\ live[tlsBase[t]] = TlsSize /\ tlsBase[t] \in Addrs
  BY <1>1 DEF HasTls, BlocksOwned
<1>3. \A u \in Threads : HasStack(u)' <=> HasStack(u)
  BY <1>1 DEF HasStack
<1>4. \A u \in Threads : HasTls(u)' =>
        /\ u # t /\ HasTls(u) /\ tlsBase'[u] = tlsBase[u]
        /\ live'[tlsBase[u]] = live[tlsBase[u]]
  BY <1>1, <1>2 DEF HasTls, BlocksOwned
<1>5. \A u \in Threads : HasStack(u) => live'[stackAlloc[u]] = live[stackAlloc[u]]
  BY <1>1, <1>2 DEF BlocksOwned
<1>6. BlocksOwned'
  BY <1>1, <1>3, <1>4, <1>5 DEF BlocksOwned
<1> QED
  BY <1>1, <1>2, <1>6 DEF FreesExact

LEMMA DestroyOtherBlocks ==
  ASSUME FirstToo = FALSE, IInv, NEW l \in Threads, NEW f \in Threads, DestroyOther(l, f)
  PROVE  BlocksOwned' /\ FreesExact'
<1> USE DEF IInv, LockInv, TypeOK, Put, Goto
<1>1. pc[f] = "ready" /\ id[f] # 0 /\ HasStack(f) /\ HasTls(f)
  BY DEF DestroyOther, MayDestroy, HasStack, HasTls
<1>2. /\ stackAlloc[f] \in Addrs /\ stackAlloc[f] # Null
      /\ live[stackAlloc[f]] = stackSize[f]
      /\ tlsBase[f] \in Addrs /\ live[tlsBase[f]] = TlsSize
  BY <1>1, ThreadStartAssumption DEF BlocksOwned
<1>3. /\ pc' = [pc EXCEPT ![f] = "gone"]
      /\ live' = [live EXCEPT ![tlsBase[f]] = 0, ![stackAlloc[f]] = 0]
      /\ UNCHANGED <<op, id, globals>> /\ misfreed' = misfreed
  BY <1>2 DEF DestroyOther
<1>4. \A u \in Threads : HasStack(u)' =>
        u # f /\ HasStack(u) /\ live'[stackAlloc[u]] = live[stackAlloc[u]]
  BY <1>1, <1>2, <1>3 DEF HasStack, BlocksOwned
<1>5. \A u \in Threads : HasTls(u)' =>
        u # f /\ HasTls(u) /\ live'[tlsBase[u]] = live[tlsBase[u]]
  BY <1>1, <1>2, <1>3 DEF HasTls, BlocksOwned
<1>6. BlocksOwned'
  BY <1>3, <1>4, <1>5 DEF BlocksOwned, globals
<1> QED
  BY <1>3, <1>6 DEF FreesExact

LEMMA BlocksStep ==
  ASSUME FirstToo = FALSE, IInv, [Next]_vars
  PROVE  BlocksOwned' /\ FreesExact'
<1> USE DEF IInv, LockInv, TypeOK, Put, Goto, HasStack, HasTls
<1>1. ASSUME NEW t \in Threads, NEW size \in Sizes, Start(t, size)
      PROVE  BlocksOwned' /\ FreesExact'
  <2>1. /\ pc[t] = "new" /\ pc'[t] \in {"tls", "lock"}
        /\ \A u \in Threads \ {t} :
             pc'[u] = pc[u] /\ id'[u] = id[u] /\ stackSize'[u] = stackSize[u]
        /\ UNCHANGED <<op, live, misfreed, stackAlloc, tlsBase>>
        /\ pc'[t] = "tls" => id'[t] = 0
    BY <1>1 DEF Start, memory
  <2>2. op[t] # "destroy"
    BY <2>1 DEF FirstSpared, LockLabels
  <2>3. ~HasStack(t)' /\ ~HasTls(t)'
    BY <2>1, <2>2
  <2>4. \A u \in Threads : HasStack(u)' => HasStack(u) /\ stackSize'[u] = stackSize[u]
    BY <2>1, <2>3
  <2>5. \A u \in Threads : HasTls(u)' => HasTls(u)
    BY <2>1, <2>3
  <2>6. BlocksOwned'
    BY <2>1, <2>4, <2>5 DEF BlocksOwned
  <2> QED
    BY <2>1, <2>6 DEF FreesExact
<1>2. ASSUME NEW t \in Threads, TryLock(t) \/ Wait(t) \/ Jam(t) \/ Unlock(t) \/ Die(t)
      PROVE  BlocksOwned' /\ FreesExact'
  <2>1. UNCHANGED <<live, misfreed, globals>>
    BY <1>2 DEF TryLock, Wait, Jam, Unlock, Die, memory
  <2>2. \A u \in Threads : (HasStack(u)' => HasStack(u)) /\ (HasTls(u)' => HasTls(u))
    BY <1>2 DEF TryLock, Wait, Jam, Unlock, Die
  <2> QED
    BY <2>1, <2>2, NothingAcquired DEF FreesExact
<1>3. ASSUME NEW t \in Threads, Critical(t) PROVE BlocksOwned' /\ FreesExact'
  BY <1>3, CriticalBlocks
<1>4. ASSUME NEW t \in Threads, Notify(t) PROVE BlocksOwned' /\ FreesExact'
  <2>1. /\ pc[t] = "notify" /\ id[t] # 0 /\ op[t] \in {"start", "destroy"}
        /\ UNCHANGED <<live, misfreed, op, id, stackSize, tlsBase>>
        /\ stackAlloc' = IF op[t] = "start" THEN stackAlloc
                         ELSE [stackAlloc EXCEPT ![t] = Null]
        /\ After(t) = IF op[t] = "start" THEN "tls" ELSE "gone"
    BY <1>4 DEF Notify, After, FirstSpared, LockLabels, memory
  <2>2. /\ pc'[t] = After(t)
        /\ \A u \in Threads \ {t} :
             pc'[u] = pc[u] \/ (pc[u] = "asleep" /\ pc'[u] = "lock")
    BY <1>4, <2>1 DEF Notify, Asleep
  <2>3. \A u \in Threads : HasStack(u)' => HasStack(u) /\ stackAlloc'[u] = stackAlloc[u]
    BY <2>1, <2>2
  <2>4. \A u \in Threads : HasTls(u)' => HasTls(u)
    BY <2>1, <2>2
  <2>5. BlocksOwned'
    BY <2>1, <2>3, <2>4 DEF BlocksOwned
  <2> QED
    BY <2>1, <2>5 DEF FreesExact
<1>5. ASSUME NEW t \in Threads, InitTls(t) PROVE BlocksOwned' /\ FreesExact'
  BY <1>5, InitTlsBlocks
<1>6. ASSUME NEW t \in Threads, DestroySelf(t) PROVE BlocksOwned' /\ FreesExact'
  BY <1>6, DestroySelfBlocks
<1>7. ASSUME NEW l \in Threads, NEW f \in Threads, DestroyOther(l, f)
      PROVE  BlocksOwned' /\ FreesExact'
  BY <1>7, DestroyOtherBlocks
<1>8. ASSUME UNCHANGED vars PROVE BlocksOwned' /\ FreesExact'
  BY <1>8, NothingAcquired DEF vars, memory, FreesExact
<1> QED
  BY <1>1, <1>2, <1>3, <1>4, <1>5, <1>6, <1>7, <1>8 DEF Next, Go

LEMMA InvStep ==
  ASSUME FirstToo = FALSE, IInv, [Next]_vars
  PROVE  IInv'
BY LockStep, IdsStep, SparedStep, BlocksStep DEF IInv, LockInv

LEMMA StacksFollow == IInv => StacksSeparate
<1> SUFFICES ASSUME IInv PROVE StacksSeparate
  OBVIOUS
<1>1. ASSUME NEW t \in Threads, NEW u \in Threads, t # u
      PROVE  ~(OnTemp(t) /\ OnTemp(u))
  BY <1>1 DEF IInv, LockInv, LockHeld
<1>2. ASSUME NEW t \in Threads, NEW u \in Threads, t # u
      PROVE  ~(OnFirst(t) /\ OnFirst(u))
  BY <1>2 DEF IInv, IdsDiffer, OnFirst
<1>3. ASSUME NEW t \in Threads, OnOwn(t)
      PROVE  HasStack(t)
  BY <1>3 DEF OnOwn, HasStack
<1> QED
  BY <1>1, <1>2, <1>3 DEF IInv, BlocksOwned, StacksSeparate

-----------------------------------------------------------------------------
\* The variables keep their types, whoever is destroyed and whatever fails.
THEOREM TypeCorrect == Spec => []TypeOK
<1>1. Init => TypeOK
  BY TypeInit
<1>2. TypeOK /\ [Next]_vars => TypeOK'
  BY TypeStep
<1> QED
  BY <1>1, <1>2, PTL DEF Spec

\* with_temp_stack: a waiter never sleeps on a free lock unless somebody else
\* is about to take it or to notify, for any number of threads.
THEOREM NoLostWakeup == Spec => []NoWaiterForgotten
<1>1. Init => LockInv
  BY LockInit
<1>2. LockInv /\ [Next]_vars => LockInv'
  BY LockStep
<1>3. LockInv => NoWaiterForgotten
  BY DEF LockInv
<1> QED
  BY <1>1, <1>2, <1>3, PTL DEF Spec

\* with_temp_stack: one thread at a time runs on the temporary stack.
THEOREM TempStackExclusive ==
  Spec => [](\A t, u \in Threads : OnTemp(t) /\ OnTemp(u) => t = u)
<1>1. Init => LockInv
  BY LockInit
<1>2. LockInv /\ [Next]_vars => LockInv'
  BY LockStep
<1>3. LockInv => \A t, u \in Threads : OnTemp(t) /\ OnTemp(u) => t = u
  BY DEF LockInv, LockHeld
<1> QED
  BY <1>1, <1>2, <1>3, PTL DEF Spec

\* The start function and __wbindgen_thread_destroy never let two threads run
\* on one stack, as long as nobody destroys the first thread.
THEOREM StacksStaySeparate ==
  ASSUME FirstToo = FALSE
  PROVE  Spec => []StacksSeparate
<1>1. Init => IInv
  BY InitInv
<1>2. IInv /\ [Next]_vars => IInv'
  BY InvStep
<1>3. IInv => StacksSeparate
  BY StacksFollow
<1> QED
  BY <1>1, <1>2, <1>3, PTL DEF Spec

\* __wbindgen_thread_destroy frees every block once and with its size, as long
\* as nobody destroys the first thread.
THEOREM BlocksFreedExactly ==
  ASSUME FirstToo = FALSE
  PROVE  Spec => []FreesExact
<1>1. Init => IInv
  BY InitInv
<1>2. IInv /\ [Next]_vars => IInv'
  BY InvStep
<1>3. IInv => FreesExact
  BY DEF IInv
<1> QED
  BY <1>1, <1>2, <1>3, PTL DEF Spec
=============================================================================
