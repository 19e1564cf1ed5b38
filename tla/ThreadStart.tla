----------------------------- MODULE ThreadStart -----------------------------
(***************************************************************************)
(* Starting and destroying wasm threads: the start function and            *)
(* __wbindgen_thread_destroy that cli-support/src/transforms/threads/      *)
(* injects into a module with shared memory.                               *)
(*                                                                         *)
(* A thread has no stack before it has allocated one, and none to free its *)
(* own one on, so that malloc and free run on a single temporary stack     *)
(* then, behind a lock made of cmpxchg, atomic.wait and atomic.notify.     *)
(* The first thread keeps the stack the linker gave the module.            *)
(***************************************************************************)
EXTENDS Naturals

CONSTANTS
  Threads,      \* the agents that may ever instantiate the module
  Addrs, Null,  \* what malloc returns, and the i32 that is 0
  Sizes,        \* values of thread_stack_size
  DefaultSize,  \* DEFAULT_THREAD_STACK_SIZE
  TlsSize,      \* __tls_size
  MayFail,      \* malloc may find no memory
  FirstToo      \* the first thread may be destroyed like any other

ASSUME ThreadStartAssumption ==
  /\ Null \notin Addrs
  /\ Sizes \subseteq Nat \ {0} /\ DefaultSize \in Sizes /\ TlsSize \in Nat \ {0}
  /\ MayFail \in BOOLEAN /\ FirstToo \in BOOLEAN

VARIABLES
  counter,    \* the thread id counter in shared memory
  lock,       \* the lock of the temporary stack, in shared memory
  live,       \* the size of each block that is allocated, 0 if it is not
  misfreed,   \* history: free was told of a block or a size that is not so
  pc,         \* where each thread is
  op,         \* what it needs the temporary stack for
  id,         \* local thread_count
  stackSize,  \* the instance's globals stack.size, stack.alloc and __tls_base
  stackAlloc,
  tlsBase

memory == <<live, misfreed>>
globals == <<stackSize, stackAlloc, tlsBase>>
vars == <<counter, lock, memory, pc, op, id, globals>>

Init ==
  /\ counter = 0 /\ lock = 0
  /\ live = [a \in Addrs \cup {Null} |-> 0] /\ misfreed = FALSE
  /\ pc = [t \in Threads |-> "new"]
  /\ op = [t \in Threads |-> "start"]
  /\ id = [t \in Threads |-> 0]
  /\ stackSize = [t \in Threads |-> DefaultSize]
  /\ stackAlloc = [t \in Threads |-> Null]
  /\ tlsBase = [t \in Threads |-> Null]

Put(f, t, v) == [f EXCEPT ![t] = v]
Goto(t, label) == pc' = Put(pc, t, label)

\* __wbindgen_malloc; which free block it takes makes no difference here.
Free == {a \in Addrs : live[a] = 0}
Fresh == CHOOSE a \in Free : TRUE
malloc(size) == Free # {} /\ live' = Put(live, Fresh, size) /\ UNCHANGED misfreed

\* __wbindgen_free
free(a, size) ==
  /\ live' = Put(live, a, 0)
  /\ misfreed' = (misfreed \/ live[a] # size)

-----------------------------------------------------------------------------
\* The start function, up to its first block.

\* The atomic add decides who is first.  Only the others take the size given
\* to them; without one they keep the default.
Start(t, size) ==
  /\ pc[t] = "new"
  /\ counter' = counter + 1
  /\ id' = Put(id, t, counter)
  /\ IF counter = 0 THEN Goto(t, "tls") /\ UNCHANGED stackSize
     ELSE Goto(t, "lock") /\ stackSize' = Put(stackSize, t, size)
  /\ UNCHANGED <<lock, memory, op, stackAlloc, tlsBase>>

-----------------------------------------------------------------------------
\* with_temp_stack

\* Mutant: an atomic add that is not undone when the lock is taken.
TryLock_Adds(t) ==
  /\ pc[t] = "lock"
  /\ lock' = lock + 1
  /\ IF lock = 0 THEN Goto(t, "critical") ELSE Goto(t, "wait")
  /\ UNCHANGED <<counter, memory, op, id, globals>>

\* cmpxchg
TryLock(t) ==
  /\ pc[t] = "lock"
  /\ IF lock = 0 THEN lock' = 1 /\ Goto(t, "critical")
     ELSE UNCHANGED lock /\ Goto(t, "wait")
  /\ UNCHANGED <<counter, memory, op, id, globals>>

\* Mutant: who was woken owns the lock.
Wait_Owns(t) ==
  /\ pc[t] = "wait"
  /\ IF lock = 1 THEN Goto(t, "asleep") ELSE Goto(t, "critical")
  /\ UNCHANGED <<counter, lock, memory, op, id, globals>>

\* Mutant: it sleeps without comparing.
Wait_Blind(t) ==
  /\ pc[t] = "wait"
  /\ Goto(t, "asleep")
  /\ UNCHANGED <<counter, lock, memory, op, id, globals>>

\* atomic.wait compares and falls asleep in one step, or returns "not-equal".
Wait(t) ==
  /\ pc[t] = "wait"
  /\ IF lock = 1 THEN Goto(t, "asleep") ELSE Goto(t, "lock")
  /\ UNCHANGED <<counter, lock, memory, op, id, globals>>

\* The block that runs on the temporary stack.  (The start function sets
\* stack.alloc after the lock is released; nobody reads it before.)
Critical(t) ==
  /\ pc[t] = "critical"
  /\ \/ /\ op[t] = "start"
        /\ malloc(stackSize[t])
        /\ stackAlloc' = Put(stackAlloc, t, Fresh)
     \/ /\ op[t] # "start"
        /\ free(stackAlloc[t], stackSize[t])
        /\ UNCHANGED stackAlloc
  /\ Goto(t, "unlock")
  /\ UNCHANGED <<counter, lock, op, id, stackSize, tlsBase>>

\* malloc_failure traps with the lock held.
Jam(t) ==
  /\ MayFail /\ pc[t] = "critical" /\ op[t] = "start"
  /\ Goto(t, "jammed")
  /\ UNCHANGED <<counter, lock, memory, op, id, globals>>

Unlock(t) ==
  /\ pc[t] = "unlock"
  /\ lock' = 0
  /\ Goto(t, "notify")
  /\ UNCHANGED <<counter, memory, op, id, globals>>

Asleep == {t \in Threads : pc[t] = "asleep"}

\* Where with_temp_stack returns to: the rest of the start function, the end of
\* this thread, or the leader that destroyed another one.
After(t) ==
  CASE op[t] = "start" -> "tls" [] op[t] = "destroy" -> "gone" [] OTHER -> "ready"

\* Mutant: nobody is woken.
Notify_Nobody(t) ==
  /\ pc[t] = "notify"
  /\ Goto(t, After(t))
  /\ stackAlloc' = IF op[t] = "start" THEN stackAlloc ELSE Put(stackAlloc, t, Null)
  /\ UNCHANGED <<counter, lock, memory, op, id, stackSize, tlsBase>>

\* One waiter, if there is any, tries again.
Notify(t) ==
  /\ pc[t] = "notify"
  /\ \/ Asleep = {} /\ Goto(t, After(t))
     \/ \E w \in Asleep : pc' = [pc EXCEPT ![t] = After(t), ![w] = "lock"]
  /\ stackAlloc' = IF op[t] = "start" THEN stackAlloc ELSE Put(stackAlloc, t, Null)
  /\ UNCHANGED <<counter, lock, memory, op, id, stackSize, tlsBase>>

-----------------------------------------------------------------------------
\* The thread-local state, on the thread's own stack.
InitTls(t) ==
  /\ pc[t] = "tls"
  /\ malloc(TlsSize)
  /\ tlsBase' = Put(tlsBase, t, Fresh)
  /\ Goto(t, "ready")
  /\ UNCHANGED <<counter, lock, op, id, stackSize, stackAlloc>>

\* malloc_failure here leaves a stack behind, and no lock.
Die(t) ==
  /\ MayFail /\ pc[t] = "tls"
  /\ Goto(t, "dead")
  /\ UNCHANGED <<counter, lock, memory, op, id, globals>>

MayDestroy(t) == pc[t] = "ready" /\ (id[t] # 0 \/ FirstToo)

\* __wbindgen_thread_destroy() in the thread that ends.
DestroySelf(t) ==
  /\ MayDestroy(t)
  /\ free(tlsBase[t], TlsSize)
  /\ tlsBase' = Put(tlsBase, t, Null)
  /\ op' = Put(op, t, "destroy")
  /\ Goto(t, "lock")
  /\ UNCHANGED <<counter, lock, id, stackSize, stackAlloc>>

\* Mutant: the size is ignored.
DestroyOther_Default(l, f) ==
  /\ pc[l] = "ready" /\ MayDestroy(f) /\ l # f /\ stackAlloc[f] # Null
  /\ live' = [live EXCEPT ![tlsBase[f]] = 0, ![stackAlloc[f]] = 0]
  /\ misfreed' = (misfreed \/ live[tlsBase[f]] # TlsSize \/ live[stackAlloc[f]] # DefaultSize)
  /\ Goto(f, "gone")
  /\ UNCHANGED <<counter, lock, op, id, globals>>

\* Called by a leader l with the globals of a follower f that has come to rest:
\* both blocks are freed, with no need for the temporary stack.  A stack_alloc
\* of 0 however means the leader itself.
DestroyOther(l, f) ==
  /\ pc[l] = "ready" /\ MayDestroy(f) /\ l # f
  /\ IF stackAlloc[f] # Null
     THEN /\ live' = [live EXCEPT ![tlsBase[f]] = 0, ![stackAlloc[f]] = 0]
          /\ misfreed' = (misfreed \/ live[tlsBase[f]] # TlsSize
                                   \/ live[stackAlloc[f]] # stackSize[f])
          /\ Goto(f, "gone")
          /\ UNCHANGED op
     ELSE /\ free(tlsBase[f], TlsSize)
          /\ op' = Put(op, l, "lead")
          /\ pc' = [pc EXCEPT ![l] = "lock", ![f] = "gone"]
  /\ UNCHANGED <<counter, lock, id, globals>>

-----------------------------------------------------------------------------
\* What a thread does once it has begun.
Go(t) ==
  \/ TryLock(t) \/ Wait(t) \/ Critical(t) \/ Jam(t) \/ Unlock(t) \/ Notify(t)
  \/ InitTls(t) \/ Die(t)

Next ==
  \E t \in Threads :
    \/ Go(t) \/ \E size \in Sizes : Start(t, size)
    \/ DestroySelf(t)
    \/ \E f \in Threads : DestroyOther(t, f)

Spec == Init /\ [][Next]_vars

\* Threads run; nobody has to start or to destroy one.
FairSpec == Spec /\ \A t \in Threads : WF_vars(Go(t))
-----------------------------------------------------------------------------
Labels == {"new", "lock", "wait", "asleep", "critical", "unlock", "notify",
           "tls", "ready", "jammed", "dead", "gone"}

TypeOK ==
  /\ counter \in Nat /\ lock \in {0, 1}
  /\ live \in [Addrs \cup {Null} -> Nat] /\ misfreed \in BOOLEAN
  /\ pc \in [Threads -> Labels]
  /\ op \in [Threads -> {"start", "destroy", "lead"}]
  /\ id \in [Threads -> Nat]
  /\ stackSize \in [Threads -> Sizes]
  /\ stackAlloc \in [Threads -> Addrs \cup {Null}]
  /\ tlsBase \in [Threads -> Addrs \cup {Null}]

\* The stack a thread runs on, if it runs code that needs one.
OnTemp(t) == pc[t] \in {"critical", "unlock", "jammed"}
OnOwn(t) == pc[t] \in {"tls", "ready"} /\ id[t] # 0
OnFirst(t) == pc[t] \in {"tls", "ready"} /\ id[t] = 0

\* No two threads run on one stack, be it the temporary one, the linker's or
\* one of their own, and a stack of their own is allocated in its whole size:
\* however starts and ends interleave, and whoever ended whom.
StacksSeparate ==
  /\ \A t, u \in Threads : t # u =>
       /\ ~(OnTemp(t) /\ OnTemp(u)) /\ ~(OnFirst(t) /\ OnFirst(u))
       /\ OnOwn(t) /\ OnOwn(u) => stackAlloc[t] # stackAlloc[u]
  /\ \A t \in Threads : OnOwn(t) => live[stackAlloc[t]] = stackSize[t]

\* No wakeup of the temporary stack's lock is lost: if it is free and somebody
\* sleeps, somebody else is about to try or to notify.
NoWaiterForgotten ==
  lock = 0 /\ Asleep # {} => \E t \in Threads : pc[t] \in {"lock", "notify"}

\* Every block is freed once, and with the size it was allocated with.
FreesExact == ~misfreed

\* Starting or destroying a thread ends, unless one that runs out of memory
\* takes the lock with it.
StartsEnd ==
  [](\A t \in Threads : pc[t] # "jammed") =>
    \A t \in Threads : pc[t] = "lock" ~> pc[t] \in {"ready", "dead", "gone"}
=============================================================================
