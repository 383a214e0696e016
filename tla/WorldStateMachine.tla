--------------------------- MODULE WorldStateMachine ---------------------------
(***************************************************************************)
(* What the lifecycle of a World promises, without versions, workers,      *)
(* requests or infrastructure: operations run one at a time, each at most  *)
(* once, and the status of the World moves only when one begins or ends.   *)
(* The state a wake restores changes only when a sleep completes.          *)
(***************************************************************************)
CONSTANTS WakeOps, SleepOps, RecoverOps, None

VARIABLES
  status,    \* the public status of the World
  stored,    \* the sleep whose state the next wake restores
  running,   \* the operation in progress, as a set of at most one
  finished   \* the operations that have ended

vars == <<status, stored, running, finished>>

Init == status = "sleeping" /\ stored = None /\ running = {} /\ finished = {}

Begin(o, to) ==
  /\ running = {} /\ o \notin finished
  /\ running' = {o} /\ status' = to
  /\ UNCHANGED <<stored, finished>>

End(o, to) ==
  /\ running = {o}
  /\ running' = {} /\ finished' = finished \cup {o} /\ status' = to

Wake(o) == Begin(o, "waking")
EndWake(o) ==
  /\ \E to \in {"online", "needs_attention", "sleeping"} : End(o, to)
  /\ UNCHANGED stored

Sleep(o) == status = "online" /\ Begin(o, "going_to_sleep")
EndSleep(o) ==
  \/ End(o, "sleeping") /\ stored' = o
  \/ /\ \E to \in {"online", "needs_attention"} : End(o, to)
     /\ UNCHANGED stored

Recover(o) == status \in {"online", "waking"} /\ Begin(o, "waking")
EndRecover(o) ==
  /\ \E to \in {"online", "waking", "needs_attention"} : End(o, to)
  /\ UNCHANGED stored

Next ==
  \/ \E o \in WakeOps : Wake(o) \/ EndWake(o)
  \/ \E o \in SleepOps : Sleep(o) \/ EndSleep(o)
  \/ \E o \in RecoverOps : Recover(o) \/ EndRecover(o)

Spec == Init /\ [][Next]_vars
===============================================================================
