---------------------------- MODULE TaskContract ----------------------------
(***************************************************************************)
(* What an executor of the futures runtime promises the futures it runs,   *)
(* whatever queue or waiting primitive it is built from: a wake is never   *)
(* lost, a future is polled only because it was spawned or woken, one      *)
(* future at a time, and never again once it is finished.                  *)
(***************************************************************************)
EXTENDS Naturals

CONSTANT Tasks

VARIABLE st   \* "unborn", "idle", "woken", "polling", "rewoken", "done"

States == {"unborn", "idle", "woken", "polling", "rewoken", "done"}

Polling(t) == st[t] \in {"polling", "rewoken"}

Become(t, s) == st' = [st EXCEPT ![t] = s]

Init == st = [t \in Tasks |-> "unborn"]

Spawn(t) == st[t] = "unborn" /\ Become(t, "woken")

\* A wake of a task that is woken already, or done, changes nothing.
Wake(t) ==
  \/ st[t] = "idle" /\ Become(t, "woken")
  \/ st[t] = "polling" /\ Become(t, "rewoken")

Poll(t) ==
  /\ st[t] = "woken"
  /\ \A u \in Tasks : ~Polling(u)
  /\ Become(t, "polling")

\* The poll returns Pending: a task woken meanwhile is polled once more.
Sleep(t) ==
  \/ st[t] = "polling" /\ Become(t, "idle")
  \/ st[t] = "rewoken" /\ Become(t, "woken")

\* The poll returns Ready, or its future panics.
Finish(t) == Polling(t) /\ Become(t, "done")

Next == \E t \in Tasks :
  Spawn(t) \/ Wake(t) \/ Poll(t) \/ Sleep(t) \/ Finish(t)

Spec == Init /\ [][Next]_st

\* A task that is due is polled, and its poll comes back.
Fair(t) == WF_st(Poll(t)) /\ WF_st(Sleep(t) \/ Finish(t))

FairSpec == Spec /\ \A t \in Tasks : Fair(t)
=============================================================================
