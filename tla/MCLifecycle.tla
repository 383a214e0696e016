------------------------------ MODULE MCLifecycle ------------------------------
(***************************************************************************)
(* Model-checking instance of WorldLifecycle: which operations exist and   *)
(* how many invocations overlap is chosen in each configuration.           *)
(***************************************************************************)
EXTENDS WorldLifecycle, TLC

CONSTANT LaterWakes  \* wakes asked for only after some sleep was

\* The statuses in which the web console offers the wake button.
ConsoleStatuses == {"sleeping", "needs_attention"}

\* Bound: the later wakes follow a whole session, whatever became of its sleep.
WakesAfterSleep ==
  (\E k \in LaterWakes : op[k].status # "absent") =>
    \E s \in SleepOps : op[s].status # "absent"

\* Bound: recoveries follow a wake and not a sleep, and an edit meets one of them.
RecoveriesApart ==
  \/ edits = 0 /\ \A k \in RecoverOps : op[k].status = "absent"
  \/ /\ \A k \in SleepOps \cup LaterWakes : op[k].status = "absent"
     /\ edits = 0 \/ Cardinality({k \in RecoverOps : op[k].status # "absent"}) <= 1

\* Worker invocations are interchangeable, and so are recoveries.
WorkerSymmetry == Permutations(Workers)
RecoverySymmetry == Permutations(RecoverOps)
===============================================================================
