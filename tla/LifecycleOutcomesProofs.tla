------------------------ MODULE LifecycleOutcomesProofs ------------------------
(***************************************************************************)
(* Proofs about where the operations of a World lead: how often it is      *)
(* recovered, which Runtime it is Online with, which wakes are credited    *)
(* back, and when a Runtime that was played on is released.                *)
(*                                                                         *)
(* The bound on recoveries, and that a sleep releases only what is backed  *)
(* up, hold however the workers overlap.  The rest holds while they take   *)
(* turns (WorkersTakeTurns): the execution of an operation invokes its     *)
(* worker again only after the last invocation ended or was given up, so   *)
(* two are in flight only when one outlives the answer its execution       *)
(* waited for.  Then one may have begun to clean up a wake that the other  *)
(* still brings Online, and releases its Runtime.                          *)
(***************************************************************************)
EXTENDS WorldLifecycleProofs

-------------------------------------------------------------------------------
(* Automatic recovery. *)

\* The recovery in progress was numbered after every one of the last fifteen minutes.
AttemptsCount ==
  /\ \A o \in aged : op[o].status # "absent"
  /\ \A o \in RecoverOps : Active(o) => Cardinality(RecentRecoveries) <= op[o].attempt

\* A step that neither requests nor ages a recovery leaves the recoveries alone, or saves
\* one that goes on or ends.
RecoveriesRest ==
  /\ aged' = aged
  /\ \A o \in RecoverOps :
       \/ op'[o] = op[o]
       \/ op'[o].status # "absent" /\ op[o].status # "absent" /\ op'[o].attempt = op[o].attempt
          /\ Active(o)

LEMMA RequestsSpareRecoveries ==
  ASSUME TypeOK, RequestsHoldOperations, NEW c \in Clients, ClientNext(c)
  PROVE  aged' = aged /\ \A o \in RecoverOps : op'[o] = op[o]
<1>1. ASSUME NEW k \in WakeOps \cup SleepOps, NEW x, op' = [op EXCEPT ![k] = x]
      PROVE  \A o \in RecoverOps : op'[o] = op[o]
  BY <1>1, KeysAssumption DEF TypeOK, Ops
<1>2. ASSUME NEW k \in WakeOps, RequestWake(c, k)
      PROVE  aged' = aged /\ \A o \in RecoverOps : op'[o] = op[o]
  BY <1>1, <1>2 DEF RequestWake, BeginOperation
<1>3. ASSUME NEW k \in SleepOps, NEW force \in BOOLEAN, RequestSleep(c, k, force)
      PROVE  aged' = aged /\ \A o \in RecoverOps : op'[o] = op[o]
  BY <1>1, <1>3 DEF RequestSleep, BeginOperation
<1>4. CASE AttachBillingSession(c) \/ FailWakePreflight(c)
  <2>1. client[c].op \in WakeOps
    BY <1>4 DEF RequestsHoldOperations, AttachBillingSession, FailWakePreflight
  <2> QED
    BY <1>4, <2>1, KeysAssumption DEF AttachBillingSession, FailWakePreflight, TypeOK, Ops
<1>5. CASE Reserve(c) \/ ReserveFails(c) \/ AttachFails(c) \/ ReleaseReservation(c)
           \/ Dispatch(c) \/ RequestEnds(c)
  BY <1>5 DEF Reserve, ReserveFails, AttachFails, ReleaseReservation, Dispatch, RequestEnds
<1> QED
  BY <1>2, <1>3, <1>4, <1>5 DEF ClientNext

LEMMA OthersSpareRecoveries ==
  ASSUME TypeOK, RequestsHoldOperations, SnapshotsAreFaithful, [Next]_vars,
         ~\E o \in RecoverOps : RequestAutomaticRecovery(o) \/ RecoveryAges(o)
  PROVE  RecoveriesRest
<1>1. ASSUME NEW c \in Clients, ClientNext(c) PROVE RecoveriesRest
  BY <1>1, RequestsSpareRecoveries DEF RecoveriesRest
<1>2. ASSUME NEW w \in Workers, EffectNext(w) PROVE RecoveriesRest
  <2>1. aged' = aged
    BY <1>2 DEF EffectNext, LoadOperation, LoadWorld, InvocationFails, Provision,
       RunHostCommand, PersistState, CreateBackup, ReleaseRuntime, CaptureUsage,
       ApplyWakeGuarantee, CancelReservation
  <2> QED
    BY <1>2, <2>1, EffectRows DEF RecoveriesRest
<1>3. ASSUME NEW w \in Workers, SaveNext(w) PROVE RecoveriesRest
  <2>1. Saved(w)
    BY <1>3, SaveEffect
  <2>2. aged' = aged /\ op'[worker[w].op].attempt = op[worker[w].op].attempt
    BY <2>1 DEF Saved, SavesRows, SavesOutcome
  <2>3. op[worker[w].op].status # "absent"
    BY <2>1 DEF Saved, SavesRows, Active, ActiveStatuses
  <2> QED
    BY <2>1, <2>2, <2>3, SavedRows DEF RecoveriesRest, Ops
<1>4. CASE EditWorld \/ (\E o \in Ops : Reconcile(o)) \/ UNCHANGED vars
  BY <1>4 DEF EditWorld, Reconcile, vars, RecoveriesRest
<1> QED
  BY <1>1, <1>2, <1>3, <1>4, WorkerNextSplits DEF Next

LEMMA RecentRest ==
  ASSUME RecoveriesRest
  PROVE  RecentRecoveries' = RecentRecoveries
BY DEF RecoveriesRest, RecentRecoveries

LEMMA RecentAreFinite ==
  ASSUME TypeOK
  PROVE  IsFiniteSet(RecentRecoveries) /\ Cardinality(RecentRecoveries) \in Nat
<1>1. RecentRecoveries \subseteq RecoverOps
  BY DEF RecentRecoveries
<1> QED
  BY <1>1, FinitelyManyRecoveries, FS_Subset, FS_CardinalityType

\* Requesting a recovery adds it to the recent ones, as the attempt of their number.
LEMMA RecoveryIsNumbered ==
  ASSUME TypeOK, AttemptsCount, NEW k \in RecoverOps, RequestAutomaticRecovery(k)
  PROVE  /\ Cardinality(RecentRecoveries') = Cardinality(RecentRecoveries) + 1
         /\ op'[k].attempt = Cardinality(RecentRecoveries) + 1
         /\ op[k].status = "absent" /\ Active(k)' /\ aged' = aged
         /\ \A o \in Ops \ {k} : op'[o] = op[o]
         /\ \A o \in Ops : ~Active(o)
<1> DEFINE x == [NewOperation EXCEPT !.runtime = world.runtime,
                                     !.attempt = Cardinality(RecentRecoveries) + 1]
<1>1. /\ op' = [op EXCEPT ![k] = x] /\ op[k].status = "absent"
      /\ aged' = aged /\ \A o \in Ops : ~Active(o)
  BY DEF RequestAutomaticRecovery, BeginOperation
<1>2. x.status = "pending" /\ x.attempt = Cardinality(RecentRecoveries) + 1
  BY DEF NewOperation, NoOperation
<1>3. k \in Ops /\ k \notin aged
  BY <1>1 DEF Ops, AttemptsCount
<1> HIDE DEF x
<1>4. op'[k] = x /\ \A o \in Ops \ {k} : op'[o] = op[o]
  BY <1>1, <1>3 DEF TypeOK
<1>5. RecentRecoveries' = RecentRecoveries \cup {k} /\ k \notin RecentRecoveries
  BY <1>1, <1>2, <1>3, <1>4 DEF RecentRecoveries, Ops
<1>6. Cardinality(RecentRecoveries') = Cardinality(RecentRecoveries) + 1
  BY <1>5, RecentAreFinite, FS_AddElement
<1> QED
  BY <1>1, <1>2, <1>4, <1>6 DEF Active, ActiveStatuses

\* As a recovery ages, fewer are recent.
LEMMA RecoveryAgesOut ==
  ASSUME TypeOK, NEW k \in RecoverOps, RecoveryAges(k)
  PROVE  /\ Cardinality(RecentRecoveries') \in Nat
         /\ Cardinality(RecentRecoveries') <= Cardinality(RecentRecoveries)
         /\ UNCHANGED <<world, op>> /\ aged' = aged \cup {k} /\ op[k].status # "absent"
<1>1. UNCHANGED <<world, op>> /\ aged' = aged \cup {k} /\ op[k].status # "absent"
  BY DEF RecoveryAges
<1>2. RecentRecoveries' \subseteq RecentRecoveries
  BY <1>1 DEF RecentRecoveries
<1> QED
  BY <1>1, <1>2, RecentAreFinite, FS_Subset, FS_CardinalityType

RecoveryInv == AttemptsCount /\ RecoveryIsBounded

LEMMA RecoveryStarts == Init => RecoveryInv
<1> SUFFICES ASSUME Init PROVE RecoveryInv
  OBVIOUS
<1>1. \A o \in Ops : op[o].status = "absent"
  BY DEF Init, NoOperation
<1>2. RecentRecoveries = {}
  BY <1>1 DEF RecentRecoveries, Ops
<1>3. Cardinality(RecentRecoveries) = 0
  BY <1>2, FS_EmptySet
<1>4. aged = {} /\ \A o \in RecoverOps : ~Active(o)
  BY <1>1 DEF Init, Active, ActiveStatuses, Ops
<1> QED
  BY <1>3, <1>4 DEF RecoveryInv, AttemptsCount, RecoveryIsBounded, MaxAttempts

LEMMA RecoveryIsKept ==
  ASSUME IInv, RecoveryInv, [Next]_vars
  PROVE  RecoveryInv'
<1>0. /\ TypeOK /\ RequestsHoldOperations /\ SnapshotsAreFaithful /\ OneActiveOperation
      /\ RowsStep /\ AttemptsCount /\ RecoveryIsBounded
      /\ Cardinality(RecentRecoveries) \in Nat
  BY NextRows, RecentAreFinite DEF IInv, RecoveryInv
<1> DEFINE n == Cardinality(RecentRecoveries)
<1>1. ASSUME NEW k \in RecoverOps, RequestAutomaticRecovery(k) PROVE RecoveryInv'
  <2>1. /\ n' = n + 1 /\ op'[k].attempt = n + 1 /\ k \in Ops
        /\ op[k].status = "absent" /\ Active(k)' /\ aged' = aged
        /\ \A o \in Ops \ {k} : op'[o] = op[o]
        /\ \A o \in Ops : ~Active(o)
    BY <1>0, <1>1, RecoveryIsNumbered DEF Ops
  <2>2. n < MaxAttempts
    BY <1>1 DEF RequestAutomaticRecovery
  <2>3. n' <= MaxAttempts
    BY <1>0, <2>1, <2>2 DEF MaxAttempts
  <2>4. \A o \in aged' : op'[o].status # "absent"
    BY <1>0, <2>1 DEF AttemptsCount, TypeOK, Ops
  <2>5. ASSUME NEW o \in RecoverOps, Active(o)' PROVE n' <= op'[o].attempt
    <3>1. o = k
      BY <2>1, <2>5 DEF Active, Ops
    <3> QED
      BY <1>0, <2>1, <3>1
  <2> QED
    BY <2>1, <2>3, <2>4, <2>5 DEF RecoveryInv, AttemptsCount, RecoveryIsBounded
<1>2. ASSUME NEW k \in RecoverOps, RecoveryAges(k) PROVE RecoveryInv'
  <2>1. /\ n' \in Nat /\ n' <= n
        /\ UNCHANGED <<world, op>> /\ aged' = aged \cup {k} /\ op[k].status # "absent"
    BY <1>0, <1>2, RecoveryAgesOut
  <2>2. \A o \in RecoverOps : Active(o)' => n' <= op'[o].attempt
    BY <1>0, <2>1, OperationTypes DEF AttemptsCount, Active, Operation, Ops
  <2>3. AttemptsCount'
    BY <1>0, <2>1, <2>2 DEF AttemptsCount
  <2>4. RecoveryIsBounded'
    BY <1>0, <2>1 DEF RecoveryIsBounded, MaxAttempts, Active
  <2> QED
    BY <2>3, <2>4 DEF RecoveryInv
<1>3. CASE ~\E o \in RecoverOps : RequestAutomaticRecovery(o) \/ RecoveryAges(o)
  <2>1. RecoveriesRest /\ n' = n
    BY <1>0, <1>3, OthersSpareRecoveries, RecentRest
  <2>2. AttemptsCount'
    BY <1>0, <2>1 DEF RecoveriesRest, AttemptsCount, TypeOK, Active
  <2>3. ASSUME world'.status = "waking", \A o \in Ops : ~Active(o)' PROVE n < MaxAttempts
    <3>1. CASE world.status = "waking" /\ \A o \in Ops : ~Active(o)
      BY <1>0, <3>1 DEF RecoveryIsBounded
    <3>2. ASSUME NEW w \in Workers, Saved(w) PROVE n < MaxAttempts
      <4> DEFINE o == worker[w].op
      <4>1. /\ o \in Ops /\ Active(o) /\ op'[o].status \notin ActiveStatuses
            /\ SavesStatus(o) /\ SavesOutcome(w, o)
        BY <2>3, <3>2 DEF Saved, SavesRows, Active
      <4>2. o \in RecoverOps /\ op[o].attempt < MaxAttempts
        BY <2>3, <4>1 DEF SavesStatus, SavesOutcome, Active
      <4>3. n <= op[o].attempt
        BY <1>0, <4>1, <4>2 DEF AttemptsCount
      <4> QED
        BY <1>0, <4>1, <4>2, <4>3, OperationTypes DEF Operation, MaxAttempts
    <3>3. CASE Quiet \/ \E w \in Workers : EffectNext(w)
      BY <2>3, <3>1, <3>3, EffectRows DEF Quiet, Active
    <3>4. ASSUME NEW k \in Ops, Begins(k) PROVE FALSE
      BY <1>0, <2>3, <3>4, BegunRows DEF Active, ActiveStatuses
    <3>5. ASSUME NEW k \in WakeOps, Attaches(k)
          PROVE  world.status = "waking" /\ \A o \in Ops : ~Active(o)
      BY <1>0, <2>3, <3>5 DEF Attaches, TypeOK, Operation, Active, Ops
    <3>6. ASSUME NEW k \in WakeOps, FailsPreflight(k) PROVE FALSE
      BY <2>3, <3>6 DEF FailsPreflight
    <3> QED
      BY <1>0, <3>1, <3>2, <3>3, <3>4, <3>5, <3>6 DEF RowsStep
  <2>4. RecoveryIsBounded'
    BY <1>0, <2>1, <2>3 DEF RecoveryIsBounded, Active
  <2> QED
    BY <2>2, <2>4 DEF RecoveryInv
<1> QED
  BY <1>1, <1>2, <1>3

\* Automatic recovery is tried at most three times within fifteen minutes, and a World that
\* is left waking always has an attempt left, however workers overlap and recoveries age.
THEOREM RecoveryStaysBounded == Spec => []RecoveryIsBounded
<1>1. IInv /\ RecoveryInv /\ [Next]_vars => RecoveryInv'
  BY RecoveryIsKept
<1>2. RecoveryInv => RecoveryIsBounded
  BY DEF RecoveryInv
<1> QED
  BY <1>1, <1>2, RecoveryStarts, LifecycleInvariant, PTL DEF Spec

-------------------------------------------------------------------------------
(* What holds while the workers take turns. *)

\* One invocation of the worker is in flight at a time.
WorkersTakeTurns ==
  \A v, w \in Workers : worker[v].step # "idle" /\ worker[w].step # "idle" => v = w

\* A World with a single worker, as lifecycle_cycle has it, meets the condition in every state.
LEMMA LoneWorkersTakeTurns ==
  ASSUME \A v, w \in Workers : v = w
  PROVE  WorkersTakeTurns
BY DEF WorkersTakeTurns

\* A busy worker drives an operation that is active, in the phase the worker read, by an
\* execution still at the task that invoked it; only a preflight takes a wake from under it.
HoldsOperation(w) ==
  LET o == worker[w].op IN
    \/ o \in WakeOps /\ op[o].status = "failed"
    \/ /\ Active(o)
       /\ worker[w].seen.phase = op[o].phase
       /\ exec[o] = IF worker[w].task = "advance" THEN "advancing" ELSE "recording"
BusyWorkersHold == \A w \in Workers : worker[w].step # "idle" => HoldsOperation(w)

\* A check that was answered was answered by an instance that runs.
HostAnswered(w) ==
  worker[w].step = "acted" /\ worker[w].task = "advance"
    /\ worker[w].seen.phase \in {"checking_game_health", "checking_players"} =>
      worker[w].seen.runtime # None /\ runtime[worker[w].seen.runtime] = "live"
HostsAnswered == \A w \in Workers : HostAnswered(w)

\* The World records the Runtime of the operation in progress, and nothing is in flight
\* while it is Online.
WorldFollowsRuntime ==
  \A o \in Ops : Active(o) /\ op[o].runtime # None => world.runtime = op[o].runtime
OnlineWorldIsQuiet == world.status = "online" => \A w \in Workers : worker[w].step = "idle"

\* An operation that can no longer succeed: it ended otherwise, or it is active and about to
\* release its Runtime or driven by an execution that records its failure.
Doomed(o) ==
  /\ op[o].status \notin {"absent", "succeeded"}
  /\ Active(o) => op[o].phase = "releasing_runtime" \/ exec[o] \in {"recording", "failed"}
CleansUp(w) == worker[w].step \in {"released", "captured", "settled"} /\ worker[w].op \in WakeOps
GuaranteedAreDoomed ==
  /\ guaranteed \subseteq WakeOps
  /\ \A o \in guaranteed : Doomed(o)
  /\ \A w \in Workers : worker[w].step = "captured" => worker[w].op \in WakeOps
  /\ \A w \in Workers : CleansUp(w) => Doomed(worker[w].op)

TurnsInv ==
  /\ BusyWorkersHold
  /\ HostsAnswered
  /\ WorldFollowsRuntime
  /\ OnlineWorldIsQuiet
  /\ OnlineRuntimeIsLive
  /\ GuaranteedAreDoomed

\* How a step moves the execution of an operation.
ExecutionStep(o) ==
  \/ exec'[o] = exec[o]
  \/ exec[o] = "none" /\ exec'[o] = "advancing"
  \/ exec[o] = "failed" /\ exec'[o] = "recording"
  \/ exec'[o] = "done" /\ op'[o].status \notin ActiveStatuses
  \/ \E w \in Workers :
       /\ worker[w].step # "idle" /\ worker[w].op = o /\ worker'[w].step = "idle"
       /\ \/ exec[o] = "advancing" /\ exec'[o] = "recording"
          \/ exec[o] = "recording" /\ exec'[o] = "failed"

LEMMA ExecutionMoves ==
  ASSUME TypeOK, RequestsHoldOperations, SnapshotsAreFaithful, [Next]_vars, NEW o \in Ops
  PROVE  ExecutionStep(o)
<1> USE DEF ExecutionStep
<1>1. ASSUME NEW c \in Clients, Dispatch(c) PROVE ExecutionStep(o)
  BY <1>1 DEF Dispatch, StartExecution, TypeOK
<1>2. ASSUME NEW c \in Clients, ClientNext(c), ~Dispatch(c) PROVE exec' = exec
  BY <1>2 DEF ClientNext, RequestWake, Reserve, ReserveFails, AttachBillingSession, AttachFails,
     ReleaseReservation, FailWakePreflight, RequestEnds, RequestSleep
<1>3. ASSUME NEW w \in Workers, NEW p \in Ops, LoadOperation(w, p) PROVE ExecutionStep(o)
  BY <1>3 DEF LoadOperation, Active, TypeOK
<1>4. ASSUME NEW w \in Workers, InvocationFails(w) PROVE ExecutionStep(o)
  <2>1. worker[w].step # "idle" /\ worker'[w].step = "idle"
    BY <1>4 DEF InvocationFails, IdleWorker, TypeOK
  <2>2. CASE worker[w].op = o
    BY <1>4, <2>1, <2>2 DEF InvocationFails, TypeOK
  <2>3. CASE worker[w].op # o
    BY <1>4, <2>3 DEF InvocationFails, TypeOK
  <2> QED
    BY <2>2, <2>3
<1>5. ASSUME NEW w \in Workers, EffectNext(w), ~InvocationFails(w),
             ~\E p \in Ops : LoadOperation(w, p)
      PROVE  exec' = exec
  BY <1>5 DEF EffectNext, LoadWorld, Provision, RunHostCommand, PersistState, CreateBackup,
     ReleaseRuntime, CaptureUsage, ApplyWakeGuarantee, CancelReservation
<1>6. ASSUME NEW w \in Workers, SaveNext(w) PROVE ExecutionStep(o)
  <2>1. SavesRows(w, worker[w].op)
    BY <1>6, SaveEffect DEF Saved
  <2> QED
    BY <2>1 DEF SavesRows, TypeOK, TerminalStatuses, ActiveStatuses
<1>7. ASSUME NEW p \in Ops, Reconcile(p) PROVE ExecutionStep(o)
  BY <1>7 DEF Reconcile, TypeOK
<1>8. CASE EditWorld \/ (\E p \in RecoverOps : RequestAutomaticRecovery(p) \/ RecoveryAges(p))
           \/ UNCHANGED vars
  BY <1>8 DEF EditWorld, RequestAutomaticRecovery, RecoveryAges, vars
<1> QED
  BY <1>1, <1>2, <1>3, <1>4, <1>5, <1>6, <1>7, <1>8, WorkerNextSplits DEF Next

\* An instance starts and ends by a worker that was ready for it.
LEMMA RuntimesRest ==
  ASSUME TypeOK, RowsStep, ~\E w \in Workers : Provision(w) \/ ReleaseRuntime(w)
  PROVE  runtime' = runtime
BY BegunRows, PreflightRows DEF RowsStep, Quiet, WorkersUntouched, Begins, Attaches, FailsPreflight,
   Saved, SavesRows, EffectNext, LoadOperation, LoadWorld, InvocationFails, RunHostCommand,
   PersistState, CreateBackup, CaptureUsage, ApplyWakeGuarantee, CancelReservation

\* A worker that stays busy without performing an effect stays as it is, and so do its
\* instance and its hold on its operation: nobody else is there to change them.
LEMMA OthersAreIdle ==
  ASSUME TypeOK, WorkersTakeTurns, WorkersTakeTurns', RowsStep,
         NEW v \in Workers, worker'[v].step # "idle", ~EffectNext(v)
  PROVE  /\ worker'[v] = worker[v] /\ runtime' = runtime
         /\ ~\E w \in Workers : Saved(w)
         /\ \A w \in Workers : worker[w].step # "idle" => w = v
<1>1. worker'[v] = worker[v]
  BY WorkersRest
<1>2. \A w \in Workers : worker[w].step # "idle" => w = v
  BY <1>1 DEF WorkersTakeTurns
<1>3. ~\E w \in Workers : Saved(w)
  <2>1. ASSUME NEW w \in Workers, Saved(w) PROVE FALSE
    <3>1. worker[w].step # "idle" /\ worker' = [worker EXCEPT ![w] = IdleWorker]
      BY <2>1, SavedRows
    <3>2. w = v
      BY <1>2, <3>1
    <3> QED
      BY <3>1, <3>2 DEF TypeOK, IdleWorker
  <2> QED
    BY <2>1
<1>4. ~\E w \in Workers : Provision(w) \/ ReleaseRuntime(w)
  <2>1. ASSUME NEW w \in Workers, Provision(w) \/ ReleaseRuntime(w) PROVE FALSE
    <3>1. worker[w].step = "ready"
      BY <2>1 DEF Provision, ReleaseRuntime, At
    <3> QED
      BY <1>2, <2>1, <3>1 DEF EffectNext
  <2> QED
    BY <2>1
<1> QED
  BY <1>1, <1>2, <1>3, <1>4, RuntimesRest

\* An effect that leaves its worker busy moves no execution, and its worker goes on with what
\* it read and with its task; loading starts from what the execution asks for.
LEMMA EffectHolds ==
  ASSUME TypeOK, NEW w \in Workers, EffectNext(w), worker'[w].step # "idle"
  PROVE  \/ /\ worker[w].step # "idle" /\ exec' = exec
            /\ worker'[w].op = worker[w].op /\ worker'[w].seen = worker[w].seen
            /\ worker'[w].task = worker[w].task
         \/ /\ worker'[w].step = "loaded" /\ worker'[w].op \in Ops
            /\ Active(worker'[w].op) /\ worker'[w].seen = op[worker'[w].op] /\ exec' = exec
            /\ exec[worker'[w].op] =
                 IF worker'[w].task = "advance" THEN "advancing" ELSE "recording"
         \/ worker'[w] = worker[w]
<1>0. ASSUME NEW s \in WorkerSteps, Acted(w, s)
      PROVE  /\ worker'[w].seen = worker[w].seen
             /\ worker'[w].op = worker[w].op /\ worker'[w].task = worker[w].task
  BY <1>0, WorkerTypes DEF Acted, Invocation, TypeOK
<1>1. ASSUME NEW o \in Ops, LoadOperation(w, o)
      PROVE  \/ /\ worker'[w].step = "loaded" /\ worker'[w].op = o
                /\ Active(o) /\ worker'[w].seen = op[o] /\ exec' = exec
                /\ exec[o] = IF worker'[w].task = "advance" THEN "advancing" ELSE "recording"
             \/ worker' = worker
  <2>1. CASE Active(o)
    <3> DEFINE t == IF exec[o] = "advancing" THEN "advance" ELSE "record_failure"
    <3>1. /\ worker' = [worker EXCEPT ![w] =
               [IdleWorker EXCEPT !.step = "loaded", !.op = o, !.seen = op[o], !.task = t]]
          /\ exec' = exec /\ exec[o] \in {"advancing", "recording"}
      BY <1>1, <2>1 DEF LoadOperation
    <3> HIDE DEF t
    <3>2. worker'[w] =
            [IdleWorker EXCEPT !.step = "loaded", !.op = o, !.seen = op[o], !.task = t]
      BY <3>1 DEF TypeOK
    <3>3. /\ worker'[w].step = "loaded" /\ worker'[w].op = o /\ worker'[w].seen = op[o]
          /\ worker'[w].task = t
      BY <3>2 DEF IdleWorker
    <3> QED
      BY <2>1, <3>1, <3>3 DEF t
  <2>2. CASE ~Active(o)
    BY <1>1, <2>2 DEF LoadOperation
  <2> QED
    BY <2>1, <2>2
<1>2. CASE LoadWorld(w)
  BY <1>2, WorkerTypes DEF LoadWorld, Invocation, TypeOK
<1>3. CASE InvocationFails(w)
  BY <1>3 DEF InvocationFails, IdleWorker, TypeOK
<1>4. CASE Provision(w) \/ CreateBackup(w)
  BY <1>0, <1>4 DEF Provision, CreateBackup, At, WorkerSteps
<1>5. CASE RunHostCommand(w)
  BY <1>5, WorkerTypes DEF RunHostCommand, At, Invocation, TypeOK
<1>6. CASE PersistState(w)
  BY <1>6, WorkerTypes DEF PersistState, At, Invocation, TypeOK
<1>7. CASE ReleaseRuntime(w)
  BY <1>0, <1>7 DEF ReleaseRuntime, At, WorkerSteps
<1>8. CASE CaptureUsage(w)
  BY <1>0, <1>8 DEF CaptureUsage, WorkerSteps
<1>9. CASE ApplyWakeGuarantee(w)
  BY <1>0, <1>9 DEF ApplyWakeGuarantee, WorkerSteps
<1>10. CASE CancelReservation(w)
  BY <1>0, <1>10 DEF CancelReservation, WorkerSteps
<1> QED
  BY <1>1, <1>2, <1>3, <1>4, <1>5, <1>6, <1>7, <1>8, <1>9, <1>10 DEF EffectNext

LEMMA HoldsStep ==
  ASSUME IInv, IInv', BusyWorkersHold, WorkersTakeTurns, WorkersTakeTurns', [Next]_vars
  PROVE  BusyWorkersHold'
<1>0. /\ TypeOK /\ RequestsHoldOperations /\ SnapshotsAreFaithful /\ OneActiveOperation
      /\ RowsStep
  BY NextRows DEF IInv
<1> SUFFICES ASSUME NEW v \in Workers, worker'[v].step # "idle" PROVE HoldsOperation(v)'
  BY DEF BusyWorkersHold
<1>1. CASE worker'[v].op = worker[v].op /\ worker'[v].seen = worker[v].seen
           /\ worker'[v].task = worker[v].task /\ worker[v].step # "idle"
           /\ exec' = exec /\ op' = op
  BY <1>1 DEF BusyWorkersHold, HoldsOperation, Active
<1>2. CASE EffectNext(v) /\ worker'[v] # worker[v]
  <2>1. op' = op
    BY <1>2, EffectRows
  <2>2. CASE /\ worker'[v].step = "loaded" /\ worker'[v].op \in Ops
             /\ Active(worker'[v].op) /\ worker'[v].seen = op[worker'[v].op] /\ exec' = exec
             /\ exec[worker'[v].op] =
                  IF worker'[v].task = "advance" THEN "advancing" ELSE "recording"
    BY <2>1, <2>2 DEF HoldsOperation, Active
  <2> QED
    BY <1>0, <1>1, <1>2, <2>1, <2>2, EffectHolds
<1>3. CASE worker'[v] = worker[v]
  <2> DEFINE o == worker[v].op
  <2>1. /\ worker[v].step # "idle" /\ HoldsOperation(v) /\ o \in Ops
        /\ \A w \in Workers : worker[w].step # "idle" => w = v
    BY <1>0, <1>3 DEF BusyWorkersHold, WorkersTakeTurns, SnapshotsAreFaithful, OperationIsFaithful
  <2>2. ~\E w \in Workers : Saved(w)
    <3>1. ASSUME NEW w \in Workers, Saved(w) PROVE FALSE
      <4>1. worker[w].step # "idle" /\ worker' = [worker EXCEPT ![w] = IdleWorker]
        BY <1>0, <3>1, SavedRows
      <4>2. w = v
        BY <2>1, <4>1
      <4> QED
        BY <1>0, <4>1, <4>2 DEF TypeOK, IdleWorker
    <3> QED
      BY <3>1
  <2>3. \/ o \in WakeOps /\ op'[o].status = "failed"
        \/ op'[o].status \in ActiveStatuses /\ Active(o) /\ op'[o].phase = op[o].phase
    <3>1. CASE Quiet \/ \E w \in Workers : EffectNext(w)
      BY <2>1, <3>1, EffectRows DEF Quiet, HoldsOperation, Active
    <3>2. CASE \E k \in Ops : Begins(k)
      BY <1>0, <2>1, <3>2, BegunRows DEF HoldsOperation
    <3>3. ASSUME NEW k \in WakeOps, Attaches(k)
          PROVE  op'[o].status = op[o].status /\ op'[o].phase = op[o].phase
      BY <1>0, <2>1, <3>3 DEF Attaches, TypeOK, Operation
    <3>4. ASSUME NEW k \in WakeOps, FailsPreflight(k)
          PROVE  IF o = k THEN op'[o].status = "failed" ELSE op'[o] = op[o]
      BY <1>0, <2>1, <3>4 DEF FailsPreflight, TypeOK, Operation
    <3> QED
      BY <1>0, <2>1, <2>2, <3>1, <3>2, <3>3, <3>4 DEF RowsStep, HoldsOperation, Active
  <2>4. ASSUME op'[o].status \in ActiveStatuses, Active(o) PROVE exec'[o] = exec[o]
    <3>1. exec[o] \in {"advancing", "recording"}
      BY <2>1, <2>4 DEF HoldsOperation, Active, ActiveStatuses
    <3>2. \A w \in Workers : worker[w].step # "idle" => worker'[w].step # "idle"
      BY <1>3, <2>1
    <3> QED
      BY <1>0, <2>1, <2>4, <3>1, <3>2, ExecutionMoves DEF ExecutionStep
  <2>5. o' = o /\ worker'[v].seen = worker[v].seen /\ worker'[v].task = worker[v].task
    BY <1>3
  <2>6. CASE o \in WakeOps /\ op'[o].status = "failed"
    BY <2>5, <2>6 DEF HoldsOperation
  <2>7. CASE op'[o].status \in ActiveStatuses /\ Active(o) /\ op'[o].phase = op[o].phase
    <3>1. exec[o] = (IF worker[v].task = "advance" THEN "advancing" ELSE "recording")
          /\ worker[v].seen.phase = op[o].phase
      BY <2>1, <2>7 DEF HoldsOperation, Active, ActiveStatuses
    <3> QED
      BY <2>4, <2>5, <2>7, <3>1 DEF HoldsOperation, Active
  <2> QED
    BY <2>3, <2>6, <2>7
<1>4. ~EffectNext(v) => worker'[v] = worker[v]
  BY <1>0, WorkersRest
<1> QED
  BY <1>2, <1>3, <1>4

\* The health check or the player count that a worker acts on was answered by an instance
\* that nobody releases meanwhile.
LEMMA AnsweredStep ==
  ASSUME IInv, HostsAnswered, WorkersTakeTurns, WorkersTakeTurns', [Next]_vars
  PROVE  HostsAnswered'
<1>0. TypeOK /\ RowsStep
  BY NextRows DEF IInv
<1> SUFFICES ASSUME NEW v \in Workers, worker'[v].step = "acted", worker'[v].task = "advance",
                    worker'[v].seen.phase \in {"checking_game_health", "checking_players"}
             PROVE  worker'[v].seen.runtime # None
                    /\ runtime'[worker'[v].seen.runtime] = "live"
  BY DEF HostsAnswered, HostAnswered
<1>1. CASE EffectNext(v)
  <2>2. CASE RunHostCommand(v)
    <3>1. worker'[v].seen = worker[v].seen
      BY <1>0, <2>2, WorkerTypes DEF RunHostCommand, Invocation, TypeOK
    <3> QED
      BY <2>2, <3>1 DEF RunHostCommand, Reachable
  <2>3. CASE Provision(v) \/ CreateBackup(v) \/ PersistState(v)
    <3>1. worker'[v].seen = worker[v].seen
      BY <1>0, <2>3, WorkerTypes
      DEF Provision, CreateBackup, PersistState, Acted, At, Invocation, TypeOK
    <3> QED
      BY <2>3, <3>1 DEF Provision, CreateBackup, PersistState, At
  <2>4. CASE LoadWorld(v) \/ InvocationFails(v)
    BY <1>0, <2>4, WorkerTypes DEF LoadWorld, InvocationFails, IdleWorker, Invocation, TypeOK
  <2>5. CASE ReleaseRuntime(v) \/ CaptureUsage(v) \/ ApplyWakeGuarantee(v) \/ CancelReservation(v)
    <3>1. PICK s \in {"released", "captured", "settled"} : Acted(v, s)
      BY <2>5 DEF ReleaseRuntime, CaptureUsage, ApplyWakeGuarantee, CancelReservation
    <3> QED
      BY <1>0, <3>1, WorkerTypes DEF Acted, Invocation, TypeOK
  <2>6. ASSUME NEW o \in Ops, LoadOperation(v, o) PROVE worker' = worker /\ runtime' = runtime
    <3>1. CASE Active(o)
      <4>1. PICK t : worker' = [worker EXCEPT ![v] =
              [IdleWorker EXCEPT !.step = "loaded", !.op = o, !.seen = op[o], !.task = t]]
        BY <2>6, <3>1 DEF LoadOperation
      <4>2. worker'[v] =
              [IdleWorker EXCEPT !.step = "loaded", !.op = o, !.seen = op[o], !.task = t]
        BY <1>0, <4>1 DEF TypeOK
      <4>3. worker'[v].step = "loaded"
        BY <4>2 DEF IdleWorker
      <4> QED
        BY <4>3
    <3> QED
      BY <2>6, <3>1 DEF LoadOperation
  <2>7. CASE worker' = worker /\ runtime' = runtime
    BY <2>7 DEF HostsAnswered, HostAnswered
  <2> QED
    BY <1>1, <2>2, <2>3, <2>4, <2>5, <2>6, <2>7 DEF EffectNext
<1>2. CASE ~EffectNext(v)
  <2>1. worker'[v] = worker[v] /\ runtime' = runtime
    BY <1>0, <1>2, OthersAreIdle
  <2> QED
    BY <2>1 DEF HostsAnswered, HostAnswered
<1> QED
  BY <1>1, <1>2

LEMMA FollowsRuntimeStep ==
  ASSUME TypeOK, OneActiveOperation, WorldFollowsRuntime, RowsStep
  PROVE  WorldFollowsRuntime'
<1> SUFFICES ASSUME NEW o \in Ops, op'[o].status \in ActiveStatuses, op'[o].runtime # None
             PROVE  world'.runtime = op'[o].runtime
  BY DEF WorldFollowsRuntime, Active
<1>1. CASE op'[o].status = op[o].status /\ op'[o].runtime = op[o].runtime
           /\ world'.runtime = world.runtime
  BY <1>1 DEF WorldFollowsRuntime, Active
<1>2. CASE Quiet \/ \E w \in Workers : EffectNext(w)
  BY <1>1, <1>2, EffectRows DEF Quiet
<1>3. ASSUME NEW k \in Ops, Begins(k) PROVE world'.runtime = op'[o].runtime
  <2>1. o = k
    BY <1>3, BegunRows DEF Active
  <2>2. world'.runtime = world.runtime /\ op'[k].runtime \in {None, world.runtime}
    BY <1>3 DEF Begins, TypeOK
  <2> QED
    BY <2>1, <2>2
<1>4. ASSUME NEW k \in WakeOps, Attaches(k) PROVE world'.runtime = op'[o].runtime
  <2>1. /\ op'[o].status = op[o].status /\ op'[o].runtime = op[o].runtime
        /\ world'.runtime = world.runtime
    BY <1>4 DEF Attaches, TypeOK, Operation
  <2> QED
    BY <1>1, <2>1
<1>5. ASSUME NEW k \in WakeOps, FailsPreflight(k) PROVE FALSE
  <2>1. Active(k) /\ k \in Ops /\ \A p \in Ops \ {k} : op'[p] = op[p]
    BY <1>5, PreflightRows DEF FailsPreflight
  <2>2. op'[k].status = "failed"
    BY <1>5, <2>1 DEF FailsPreflight, TypeOK, Operation
  <2> QED
    BY <2>1, <2>2 DEF OneActiveOperation, Active, ActiveStatuses
<1>6. ASSUME NEW w \in Workers, Saved(w) PROVE world'.runtime = op'[o].runtime
  <2>1. o = worker[w].op
    BY <1>6, SavedRows DEF OneActiveOperation, Active
  <2>2. SavesOutcome(w, o) /\ Active(o)
    BY <1>6, <2>1 DEF Saved, SavesRows
  <2>3. \/ op'[o].runtime = world'.runtime
        \/ op'[o].runtime = op[o].runtime /\ world'.runtime = world.runtime
    BY <2>2 DEF SavesOutcome
  <2> QED
    BY <2>2, <2>3 DEF WorldFollowsRuntime
<1> QED
  BY <1>2, <1>3, <1>4, <1>5, <1>6 DEF RowsStep

\* While the World is Online nothing is in progress that a worker could load.
LEMMA OnlineLeavesWorkers ==
  ASSUME TypeOK, TransitionsAreOwned, OnlineWorldIsQuiet, world.status = "online",
         NEW w \in Workers
  PROVE  /\ ~Saved(w)
         /\ EffectNext(w) => worker' = worker /\ runtime' = runtime
<1>1. worker[w].step = "idle" /\ \A o \in Ops : ~Active(o)
  BY DEF OnlineWorldIsQuiet, TransitionsAreOwned, Ops
<1>2. ~Saved(w)
  BY <1>1 DEF Saved, SavesRows
<1>3. ASSUME EffectNext(w) PROVE worker' = worker /\ runtime' = runtime
  <2>1. PICK o \in Ops : LoadOperation(w, o)
    BY <1>1, <1>3 DEF EffectNext, LoadWorld, InvocationFails, Provision, RunHostCommand, PersistState,
       CreateBackup, ReleaseRuntime, CaptureUsage, ApplyWakeGuarantee, CancelReservation, At
  <2> QED
    BY <1>1, <2>1 DEF LoadOperation
<1> QED
  BY <1>2, <1>3

\* What brings the World Online, when it is not already: a check that was answered.
LEMMA ComesOnline ==
  ASSUME TypeOK, RowsStep, world'.status = "online", world.status # "online"
  PROVE  \E w \in Workers :
           /\ Saved(w) /\ worker[w].step = "acted" /\ worker[w].task = "advance"
           /\ op[worker[w].op].phase \in {"checking_game_health", "checking_players"}
           /\ world'.runtime = world.runtime
<1>1. ~Quiet /\ ~\E w \in Workers : EffectNext(w)
  BY EffectRows DEF Quiet
<1>2. ~(\E k \in Ops : Begins(k)) /\ ~\E k \in WakeOps : Attaches(k) \/ FailsPreflight(k)
  BY DEF Begins, Attaches, FailsPreflight
<1>3. PICK w \in Workers : Saved(w)
  BY <1>1, <1>2 DEF RowsStep
<1> QED
  BY <1>3 DEF Saved, SavesOutcome

LEMMA OnlineStays ==
  ASSUME TypeOK, TransitionsAreOwned, OnlineWorldIsQuiet, RowsStep,
         world'.status = "online", world.status = "online"
  PROVE  worker' = worker /\ runtime' = runtime /\ world'.runtime = world.runtime
<1>1. ASSUME NEW w \in Workers
      PROVE  /\ ~Saved(w)
             /\ EffectNext(w) =>
                  worker' = worker /\ runtime' = runtime /\ world'.runtime = world.runtime
  BY OnlineLeavesWorkers, EffectRows
<1> QED
  BY <1>1 DEF RowsStep, Quiet, Begins, Attaches, FailsPreflight, WorkersUntouched

LEMMA OnlineStep ==
  ASSUME IInv, BusyWorkersHold, HostsAnswered, WorldFollowsRuntime, OnlineWorldIsQuiet,
         OnlineRuntimeIsLive, WorkersTakeTurns, [Next]_vars
  PROVE  OnlineWorldIsQuiet' /\ OnlineRuntimeIsLive'
<1>0. TypeOK /\ TransitionsAreOwned /\ SnapshotsAreFaithful /\ RowsStep
  BY NextRows DEF IInv
<1> SUFFICES ASSUME world'.status = "online"
             PROVE  /\ \A w \in Workers : worker'[w].step = "idle"
                    /\ world'.runtime # None /\ runtime'[world'.runtime] = "live"
  BY DEF OnlineWorldIsQuiet, OnlineRuntimeIsLive
<1>1. CASE world.status = "online"
  BY <1>0, <1>1, OnlineStays DEF OnlineWorldIsQuiet, OnlineRuntimeIsLive
<1>2. CASE world.status # "online"
  <2>1. PICK w \in Workers :
           /\ Saved(w) /\ worker[w].step = "acted" /\ worker[w].task = "advance"
           /\ op[worker[w].op].phase \in {"checking_game_health", "checking_players"}
           /\ world'.runtime = world.runtime
    BY <1>0, <1>2, ComesOnline
  <2> DEFINE o == worker[w].op
  <2>2. /\ o \in Ops /\ Active(o) /\ worker[w].seen = op[o]
        /\ worker' = [worker EXCEPT ![w] = IdleWorker] /\ runtime' = runtime
    BY <2>1 DEF Saved, SavesRows
  <2>3. op[o].runtime # None /\ runtime[op[o].runtime] = "live"
    BY <2>1, <2>2 DEF HostsAnswered, HostAnswered
  <2>4. world.runtime = op[o].runtime
    BY <2>2, <2>3 DEF WorldFollowsRuntime
  <2>5. \A v \in Workers : worker'[v].step = "idle"
    BY <1>0, <2>1, <2>2 DEF WorkersTakeTurns, TypeOK, IdleWorker
  <2> QED
    BY <2>1, <2>2, <2>3, <2>4, <2>5
<1> QED
  BY <1>1, <1>2

\* A doomed wake stays doomed: its execution keeps recording the failure, and the worker that
\* saves it is the one that recording invoked.
LEMMA DoomStays ==
  ASSUME IInv, BusyWorkersHold, [Next]_vars, NEW o \in WakeOps, Doomed(o)
  PROVE  Doomed(o)'
<1>0. /\ TypeOK /\ RequestsHoldOperations /\ SnapshotsAreFaithful /\ OneActiveOperation
      /\ RowsStep /\ o \in Ops
  BY NextRows DEF IInv, Ops
<1>1. ASSUME op'[o].status = op[o].status, op'[o].phase = op[o].phase PROVE Doomed(o)'
  <2>1. exec[o] \in {"recording", "failed"} /\ op'[o].status \in ActiveStatuses =>
          exec'[o] \in {"recording", "failed"}
    BY <1>0, ExecutionMoves DEF ExecutionStep
  <2> QED
    BY <1>1, <2>1 DEF Doomed, Active
<1>2. CASE Quiet \/ \E w \in Workers : EffectNext(w)
  BY <1>1, <1>2, EffectRows DEF Quiet
<1>3. ASSUME NEW k \in Ops, Begins(k) PROVE Doomed(o)'
  <2>1. k # o
    BY <1>0, <1>3, BegunRows DEF Doomed
  <2> QED
    BY <1>0, <1>1, <1>3, <2>1, BegunRows
<1>4. ASSUME NEW k \in WakeOps, Attaches(k) PROVE Doomed(o)'
  <2>1. op'[o].status = op[o].status /\ op'[o].phase = op[o].phase
    BY <1>0, <1>4 DEF Attaches, TypeOK, Operation
  <2> QED
    BY <1>1, <2>1
<1>5. ASSUME NEW k \in WakeOps, FailsPreflight(k) PROVE Doomed(o)'
  <2>1. k # o => op'[o] = op[o]
    BY <1>0, <1>5 DEF FailsPreflight, TypeOK
  <2>2. k = o => op'[o].status = "failed"
    BY <1>0, <1>5 DEF FailsPreflight, TypeOK, Operation
  <2> QED
    BY <1>1, <2>1, <2>2 DEF Doomed, Active, ActiveStatuses
<1>6. ASSUME NEW w \in Workers, Saved(w) PROVE Doomed(o)'
  <2>1. CASE o # worker[w].op
    BY <1>0, <1>1, <1>6, <2>1, SavedRows
  <2>2. CASE o = worker[w].op
    <3>1. /\ Active(o) /\ worker[w].step # "idle" /\ SavesOutcome(w, o)
          /\ worker[w].task \in {"advance", "record_failure"}
      BY <1>0, <1>6, <2>2, WorkerTypes DEF Saved, SavesRows, Invocation
    <3>2. exec[o] = IF worker[w].task = "advance" THEN "advancing" ELSE "recording"
      BY <2>2, <3>1 DEF BusyWorkersHold, HoldsOperation, Active, ActiveStatuses
    <3>3. worker[w].task = "record_failure" \/ op[o].phase = "releasing_runtime"
      BY <3>1, <3>2 DEF Doomed
    <3>4. op'[o].status = "needs_attention"
      BY <3>1, <3>3 DEF SavesOutcome
    <3> QED
      BY <3>4 DEF Doomed, Active, ActiveStatuses
  <2> QED
    BY <2>1, <2>2
<1> QED
  BY <1>0, <1>2, <1>3, <1>4, <1>5, <1>6 DEF RowsStep

\* The worker that releases the Runtime of a wake, or gives its reservation back, is one that
\* cleans it up.
StartsCleaning(w) ==
  /\ worker[w].step = "ready"
  /\ worker[w].task = "record_failure" \/ worker[w].seen.phase = "releasing_runtime"

LEMMA CleaningStarts ==
  ASSUME TypeOK, NEW w \in Workers, EffectNext(w),
         worker'[w].step \in {"released", "captured", "settled"}, worker'[w] # worker[w]
  PROVE  /\ worker'[w].op = worker[w].op
         /\ worker[w].step \in {"released", "captured"} \/ StartsCleaning(w)
         /\ worker'[w].step = "captured" => worker[w].op \in WakeOps
<1>0. ASSUME NEW s \in WorkerSteps, Acted(w, s)
      PROVE  worker'[w].op = worker[w].op /\ worker'[w].step = s
  BY <1>0, WorkerTypes DEF Acted, Invocation, TypeOK
<1>1. CASE \E o \in Ops : LoadOperation(w, o)
  <2>1. PICK o \in Ops : LoadOperation(w, o)
    BY <1>1
  <2>2. PICK t : worker' = [worker EXCEPT ![w] =
          [IdleWorker EXCEPT !.step = "loaded", !.op = o, !.seen = op[o], !.task = t]]
    BY <2>1 DEF LoadOperation
  <2>3. worker'[w] = [IdleWorker EXCEPT !.step = "loaded", !.op = o, !.seen = op[o], !.task = t]
    BY <2>2 DEF TypeOK
  <2> QED
    BY <2>3 DEF IdleWorker
<1>2. CASE LoadWorld(w) \/ InvocationFails(w)
  BY <1>2, WorkerTypes DEF LoadWorld, InvocationFails, IdleWorker, Invocation, TypeOK
<1>3. CASE Provision(w) \/ CreateBackup(w)
  BY <1>0, <1>3 DEF Provision, CreateBackup, WorkerSteps
<1>4. CASE RunHostCommand(w) \/ PersistState(w)
  BY <1>4, WorkerTypes DEF RunHostCommand, PersistState, Invocation, TypeOK
<1>5. CASE ReleaseRuntime(w)
  BY <1>0, <1>5 DEF ReleaseRuntime, WorkerSteps, StartsCleaning, CleaningUp, At
<1>6. CASE CaptureUsage(w)
  BY <1>0, <1>6 DEF CaptureUsage, WorkerSteps
<1>7. CASE ApplyWakeGuarantee(w)
  BY <1>0, <1>7 DEF ApplyWakeGuarantee, WorkerSteps
<1>8. CASE CancelReservation(w)
  BY <1>0, <1>8 DEF CancelReservation, WorkerSteps, StartsCleaning, CleaningUp
<1> QED
  BY <1>1, <1>2, <1>3, <1>4, <1>5, <1>6, <1>7, <1>8 DEF EffectNext

LEMMA CleanedUpIsDoomed ==
  ASSUME TypeOK, SnapshotsAreFaithful, BusyWorkersHold, NEW w \in Workers, StartsCleaning(w),
         worker[w].op \in WakeOps
  PROVE  Doomed(worker[w].op)
<1> DEFINE o == worker[w].op
<1>1. HoldsOperation(w) /\ worker[w].task \in {"advance", "record_failure"}
  BY WorkerTypes DEF BusyWorkersHold, StartsCleaning, Invocation
<1>2. CASE op[o].status = "failed"
  BY <1>2 DEF Doomed, Active, ActiveStatuses
<1>3. CASE /\ Active(o) /\ worker[w].seen.phase = op[o].phase
           /\ exec[o] = IF worker[w].task = "advance" THEN "advancing" ELSE "recording"
  BY <1>3 DEF Doomed, Active, ActiveStatuses, StartsCleaning
<1> QED
  BY <1>1, <1>2, <1>3 DEF HoldsOperation

LEMMA GuaranteedStep ==
  ASSUME IInv, BusyWorkersHold, GuaranteedAreDoomed, [Next]_vars
  PROVE  GuaranteedAreDoomed'
<1>0. TypeOK /\ SnapshotsAreFaithful /\ RowsStep
  BY NextRows DEF IInv
<1>1. ASSUME NEW o \in WakeOps, Doomed(o) PROVE Doomed(o)'
  BY <1>1, DoomStays
<1>2. ASSUME NEW o \in guaranteed' PROVE o \in WakeOps /\ Doomed(o)
  <2>1. CASE o \in guaranteed
    BY <2>1 DEF GuaranteedAreDoomed
  <2>2. CASE o \notin guaranteed
    <3>1. PICK w \in Workers : ApplyWakeGuarantee(w)
      BY <1>0, <1>2, <2>2, BegunRows, PreflightRows
      DEF RowsStep, Quiet, Begins, Attaches, FailsPreflight, Saved, SavesRows, billing,
          WorkersUntouched, EffectNext, LoadOperation, LoadWorld, InvocationFails, Provision,
          RunHostCommand, PersistState, CreateBackup, ReleaseRuntime, CaptureUsage,
          CancelReservation
    <3>2. o = worker[w].op /\ worker[w].step = "captured"
      BY <1>2, <2>2, <3>1 DEF ApplyWakeGuarantee
    <3> QED
      BY <3>2 DEF GuaranteedAreDoomed, CleansUp
  <2> QED
    BY <2>1, <2>2
<1>3. ASSUME NEW v \in Workers, worker'[v].step \in {"released", "captured", "settled"}
      PROVE  /\ worker'[v].step = "captured" => worker'[v].op \in WakeOps
             /\ worker'[v].op \in WakeOps => Doomed(worker'[v].op)
  <2>1. CASE worker'[v] = worker[v]
    BY <1>3, <2>1 DEF GuaranteedAreDoomed, CleansUp
  <2>2. CASE EffectNext(v) /\ worker'[v] # worker[v]
    <3>1. /\ worker'[v].op = worker[v].op
          /\ worker[v].step \in {"released", "captured"} \/ StartsCleaning(v)
          /\ worker'[v].step = "captured" => worker[v].op \in WakeOps
      BY <1>0, <1>3, <2>2, CleaningStarts
    <3>2. worker[v].op \in WakeOps => Doomed(worker[v].op)
      BY <1>0, <3>1, CleanedUpIsDoomed DEF GuaranteedAreDoomed, CleansUp
    <3> QED
      BY <3>1, <3>2
  <2> QED
    BY <1>0, <1>3, <2>1, <2>2, WorkersRest
<1>4. guaranteed' \subseteq WakeOps /\ \A o \in guaranteed' : Doomed(o)'
  BY <1>1, <1>2
<1>5. ASSUME NEW v \in Workers, worker'[v].step \in {"released", "captured", "settled"},
             worker'[v].op \in WakeOps
      PROVE  Doomed(worker[v].op)'
  <2>1. PICK o \in WakeOps : o = worker'[v].op /\ Doomed(o)
    BY <1>3, <1>5
  <2>2. Doomed(o)'
    BY <1>1, <2>1
  <2> QED
    BY <2>1, <2>2 DEF Doomed, Active
<1> QED
  BY <1>3, <1>4, <1>5 DEF GuaranteedAreDoomed, CleansUp

-------------------------------------------------------------------------------
LEMMA TurnsStart == Init => TurnsInv
<1> SUFFICES ASSUME Init PROVE TurnsInv
  OBVIOUS
<1>1. \A w \in Workers : worker[w].step = "idle"
  BY DEF Init, IdleWorker
<1>2. \A o \in Ops : ~Active(o)
  BY DEF Init, NoOperation, Active, ActiveStatuses
<1>3. world.status # "online" /\ guaranteed = {}
  BY DEF Init, NewWorld
<1> QED
  BY <1>1, <1>2, <1>3 DEF TurnsInv, BusyWorkersHold, HostsAnswered, HostAnswered,
     WorldFollowsRuntime, OnlineWorldIsQuiet, OnlineRuntimeIsLive, GuaranteedAreDoomed, CleansUp

LEMMA TurnsAreKept ==
  IInv /\ IInv' /\ TurnsInv /\ WorkersTakeTurns /\ WorkersTakeTurns' /\ [Next]_vars => TurnsInv'
<1> SUFFICES ASSUME IInv, IInv', TurnsInv, WorkersTakeTurns, WorkersTakeTurns', [Next]_vars
             PROVE  TurnsInv'
  OBVIOUS
<1>1. BusyWorkersHold' /\ HostsAnswered'
  BY HoldsStep, AnsweredStep DEF TurnsInv
<1>2. WorldFollowsRuntime'
  BY FollowsRuntimeStep, NextRows DEF IInv, TurnsInv
<1>3. OnlineWorldIsQuiet' /\ OnlineRuntimeIsLive'
  BY OnlineStep DEF TurnsInv
<1>4. GuaranteedAreDoomed'
  BY GuaranteedStep DEF TurnsInv
<1> QED
  BY <1>1, <1>2, <1>3, <1>4 DEF TurnsInv

\* While its workers take turns, what a World is Online with, what its workers hold and which
\* wakes are credited back fit together.
THEOREM TurnsInvariant == Spec /\ []WorkersTakeTurns => []TurnsInv
BY LifecycleInvariant, TurnsStart, TurnsAreKept, PTL DEF Spec

\* A wake that reached Online is never credited back by the Wake Guarantee.
THEOREM OnlyFailedWakesAreCredited ==
  Spec /\ []WorkersTakeTurns => []GuaranteeOnlyForFailedWakes
<1>1. TurnsInv => GuaranteeOnlyForFailedWakes
  BY DEF TurnsInv, GuaranteedAreDoomed, GuaranteeOnlyForFailedWakes, Doomed
<1> QED
  BY <1>1, TurnsInvariant, PTL

\* An Online World always has the instance it says it has: the one its last health check or
\* player count reached, and that nobody released since.
THEOREM OnlineWorldsRun == Spec /\ []WorkersTakeTurns => []OnlineRuntimeIsLive
<1>1. TurnsInv => OnlineRuntimeIsLive
  BY DEF TurnsInv
<1> QED
  BY <1>1, TurnsInvariant, PTL

\* However workers overlap, one that releases for a sleep read that its state is backed up.
SleepersAreBackedUp ==
  \A w \in Workers :
    /\ worker[w].step # "idle" /\ worker[w].op \in SleepOps
    /\ worker[w].seen.phase = "releasing_runtime"
    => worker[w].op \in archived \cap backups

LEMMA SleepersStep == IInv /\ SleepersAreBackedUp /\ [Next]_vars => SleepersAreBackedUp'
<1> SUFFICES ASSUME IInv, SleepersAreBackedUp, [Next]_vars,
                    NEW v \in Workers, worker'[v].step # "idle", worker'[v].op \in SleepOps,
                    worker'[v].seen.phase = "releasing_runtime"
             PROVE  worker'[v].op \in archived' \cap backups'
  BY DEF SleepersAreBackedUp
<1>0. TypeOK /\ RowsStep /\ SleepProgress
  BY NextRows DEF IInv
<1>1. archived \subseteq archived' /\ backups \subseteq backups'
  BY <1>0, EffectsRemain
<1>2. CASE /\ worker[v].step # "idle"
           /\ worker'[v].op = worker[v].op /\ worker'[v].seen = worker[v].seen
  BY <1>1, <1>2 DEF SleepersAreBackedUp
<1>3. CASE worker'[v].seen = op[worker'[v].op]
  BY <1>0, <1>1, <1>3 DEF SleepProgress
<1>4. CASE EffectNext(v)
  BY <1>0, <1>2, <1>3, <1>4, EffectHolds
<1>5. CASE ~EffectNext(v)
  BY <1>0, <1>2, <1>5, WorkersRest
<1> QED
  BY <1>4, <1>5

\* However workers overlap, a Runtime is released by a sleep that has archived and backed up
\* its state, or by an invocation for the very wake that provisioned it.
THEOREM SleepsReleaseSafely ==
  Spec => [][\A r \in WakeOps :
               runtime[r] = "live" /\ runtime'[r] = "released" =>
                 \/ \E s \in archived \cap backups : op[s].runtime = r
                 \/ \E w \in Workers : worker[w].step # "idle" /\ worker[w].op = r]_vars
<1> DEFINE Released(r) ==
      runtime[r] = "live" /\ runtime'[r] = "released" =>
        \/ \E s \in archived \cap backups : op[s].runtime = r
        \/ \E w \in Workers : worker[w].step # "idle" /\ worker[w].op = r
<1>1. ASSUME IInv, SleepersAreBackedUp, [Next]_vars, NEW r \in WakeOps PROVE Released(r)
  <2>0. TypeOK /\ SnapshotsAreFaithful /\ RowsStep /\ RuntimesAreOwned
    BY <1>1, NextRows DEF IInv
  <2> SUFFICES ASSUME runtime[r] = "live", runtime'[r] = "released"
               PROVE  \/ \E s \in archived \cap backups : op[s].runtime = r
                      \/ \E w \in Workers : worker[w].step # "idle" /\ worker[w].op = r
    OBVIOUS
  <2>1. PICK w \in Workers : Provision(w) \/ ReleaseRuntime(w)
    BY <2>0, RuntimesRest
  <2>2. ReleaseRuntime(w) /\ worker[w].seen.runtime = r /\ worker[w].step # "idle"
    BY <2>0, <2>1, WorkerTypes DEF Provision, ReleaseRuntime, At, TypeOK
  <2>3. worker[w].op \in Ops /\ op[worker[w].op].runtime = r
    BY <2>0, <2>2, KeysAssumption DEF SnapshotsAreFaithful, OperationIsFaithful, Ops
  <2>4. CASE worker[w].op \in WakeOps
    BY <2>0, <2>2, <2>3, <2>4, KeysAssumption DEF RuntimesAreOwned, Ops
  <2>5. CASE worker[w].op \notin WakeOps
    <3>1. worker[w].op \in SleepOps /\ worker[w].seen.phase = "releasing_runtime"
      BY <2>2, <2>5 DEF ReleaseRuntime, At, CleaningUp
    <3> QED
      BY <1>1, <2>2, <2>3, <3>1 DEF SleepersAreBackedUp
  <2> QED
    BY <2>4, <2>5
<1>2. IInv /\ SleepersAreBackedUp /\ [Next]_vars => [\A r \in WakeOps : Released(r)]_vars
  BY <1>1
<1>3. Init => SleepersAreBackedUp
  BY DEF Init, IdleWorker, SleepersAreBackedUp
<1> QED
  BY <1>2, <1>3, SleepersStep, LifecycleInvariant, PTL DEF Spec

\* Who releases the Runtime of a wake that succeeded: a sleep that is past its backup.
LEMMA PlayedIsReleasedBySleep ==
  ASSUME IInv, TurnsInv, [Next]_vars, NEW r \in WakeOps,
         runtime[r] = "live", runtime'[r] = "released", op[r].status = "succeeded"
  PROVE  \E s \in archived \cap backups : op[s].runtime = r
<1>0. TypeOK /\ SnapshotsAreFaithful /\ RowsStep /\ RuntimesAreOwned /\ SleepProgress
  BY NextRows DEF IInv
<1>1. PICK w \in Workers : Provision(w) \/ ReleaseRuntime(w)
  BY <1>0, RuntimesRest
<1>2. ReleaseRuntime(w) /\ worker[w].seen.runtime = r
  BY <1>0, <1>1, WorkerTypes DEF Provision, ReleaseRuntime, TypeOK
<1> DEFINE o == worker[w].op
<1>3. /\ o \in Ops /\ worker[w].step = "ready" /\ op[o].runtime = r
      /\ HoldsOperation(w)
  BY <1>0, <1>2, KeysAssumption DEF ReleaseRuntime, At, SnapshotsAreFaithful, OperationIsFaithful,
     TurnsInv, BusyWorkersHold, Ops
<1>4. o \notin WakeOps
  <2>1. ASSUME o \in WakeOps PROVE FALSE
    <3>1. o = r
      BY <1>0, <1>3, <2>1, KeysAssumption DEF RuntimesAreOwned, Ops
    <3> QED
      BY <1>3, <3>1 DEF HoldsOperation, Active, ActiveStatuses
  <2> QED
    BY <2>1
<1>5. o \in SleepOps /\ worker[w].seen.phase = "releasing_runtime"
  BY <1>2, <1>4 DEF ReleaseRuntime, At, CleaningUp
<1>6. op[o].phase = "releasing_runtime"
  BY <1>3, <1>4, <1>5 DEF HoldsOperation
<1>7. o \in archived \cap backups
  BY <1>0, <1>5, <1>6 DEF SleepProgress
<1> QED
  BY <1>3, <1>7

\* A Runtime that was played on is released only once a sleep has archived and backed up its
\* state (the Recovery Guarantee, ADR 0006).
THEOREM PlayedRuntimesAreKept == Spec /\ []WorkersTakeTurns => PlayedRuntimeReleasedSafely
<1>1. IInv /\ TurnsInv /\ [Next]_vars =>
        [\A r \in WakeOps :
           runtime[r] = "live" /\ runtime'[r] = "released" /\ op[r].status = "succeeded" =>
             \E s \in archived \cap backups : op[s].runtime = r]_vars
  BY PlayedIsReleasedBySleep
<1> QED
  BY <1>1, LifecycleInvariant, TurnsInvariant, PTL DEF Spec, PlayedRuntimeReleasedSafely

-------------------------------------------------------------------------------
(* What a session is charged, however the workers overlap. *)

\* A reservation pays for one operation, and the Wake Guarantee credits what was charged.
SessionsAreChargedOnce == \A a, b \in usage : op[a].reservation = op[b].reservation => a = b
CreditsFollowCharges == guaranteed \subseteq usage

\* A worker that read a reservation read the one its operation keeps.
ReservationIsFaithful(w) ==
  worker[w].seen.reservation # None =>
    op[worker[w].op].reservation = worker[w].seen.reservation
ChargesHoldReservations ==
  \A o \in usage : op[o].reservation # None /\ reservation[op[o].reservation] = "captured"

ChargeInv ==
  /\ ChargesHoldReservations
  /\ SessionsAreChargedOnce
  /\ CreditsFollowCharges
  /\ \A w \in Workers : worker[w].step # "idle" => ReservationIsFaithful(w)
  /\ \A w \in Workers : worker[w].step = "captured" => worker[w].op \in usage

\* The reservation of an operation is set once.
LEMMA ReservationStays ==
  ASSUME TypeOK, RowsExist, RowsStep, NEW o \in Ops, op[o].reservation # None
  PROVE  op'[o].reservation = op[o].reservation
<1>1. CASE Quiet \/ \E w \in Workers : EffectNext(w)
  BY <1>1, EffectRows DEF Quiet
<1>2. ASSUME NEW k \in Ops, Begins(k) PROVE op'[o].reservation = op[o].reservation
  BY <1>2, BegunRows DEF RowsExist, NoOperation
<1>3. ASSUME NEW k \in WakeOps, Attaches(k) PROVE op'[o].reservation = op[o].reservation
  BY <1>3 DEF Attaches, TypeOK
<1>4. ASSUME NEW k \in WakeOps, FailsPreflight(k) PROVE op'[o].reservation = op[o].reservation
  BY <1>4 DEF FailsPreflight, TypeOK, Operation
<1>5. ASSUME NEW w \in Workers, Saved(w) PROVE op'[o].reservation = op[o].reservation
  BY <1>5, SavedRows DEF Saved, SavesOutcome
<1> QED
  BY <1>1, <1>2, <1>3, <1>4, <1>5 DEF RowsStep

\* A captured reservation stays captured, whatever a request or a clean-up does to it later.
LEMMA CapturedStays ==
  ASSUME TypeOK, RequestsHoldOperations, SnapshotsAreFaithful, [Next]_vars,
         NEW r \in WakeOps, reservation[r] = "captured"
  PROVE  reservation'[r] = "captured"
<1>1. ASSUME NEW c \in Clients, ClientNext(c) PROVE reservation'[r] = "captured"
  <2>1. CASE Reserve(c) \/ ReleaseReservation(c)
    BY <2>1 DEF Reserve, ReleaseReservation, TypeOK
  <2>2. CASE ~Reserve(c) /\ ~ReleaseReservation(c)
    <3>1. reservation' = reservation
      BY <1>1, <2>2 DEF ClientNext, RequestWake, ReserveFails, AttachBillingSession, AttachFails,
         FailWakePreflight, Dispatch, RequestEnds, RequestSleep, billing
    <3> QED
      BY <3>1
  <2> QED
    BY <2>1, <2>2
<1>2. ASSUME NEW w \in Workers, EffectNext(w) PROVE reservation'[r] = "captured"
  <2>1. CASE CaptureUsage(w) \/ CancelReservation(w)
    BY <2>1 DEF CaptureUsage, CancelReservation, TypeOK
  <2>2. CASE ~CaptureUsage(w) /\ ~CancelReservation(w)
    <3>1. reservation' = reservation
      BY <1>2, <2>2 DEF EffectNext, LoadOperation, LoadWorld, InvocationFails, Provision,
         RunHostCommand, PersistState, CreateBackup, ReleaseRuntime, ApplyWakeGuarantee, billing
    <3> QED
      BY <3>1
  <2> QED
    BY <2>1, <2>2
<1>3. ASSUME NEW w \in Workers, SaveNext(w) PROVE reservation' = reservation
  BY <1>3, SaveEffect DEF Saved, SavesRows, billing
<1>4. CASE \/ EditWorld \/ UNCHANGED vars \/ \E o \in Ops : Reconcile(o)
           \/ \E o \in RecoverOps : RequestAutomaticRecovery(o) \/ RecoveryAges(o)
  BY <1>4 DEF EditWorld, Reconcile, RequestAutomaticRecovery, RecoveryAges, vars, billing
<1> QED
  BY <1>1, <1>2, <1>3, <1>4, WorkerNextSplits DEF Next

\* Where a charge and a credit come from.
LEMMA ChargesComeFrom ==
  ASSUME TypeOK, RowsStep, NEW o \in usage', o \notin usage
  PROVE  \E w \in Workers : CaptureUsage(w) /\ o = worker[w].op
BY BegunRows, PreflightRows
DEF RowsStep, Quiet, Begins, Attaches, FailsPreflight, Saved, SavesRows, billing, WorkersUntouched,
    EffectNext, LoadOperation, LoadWorld, InvocationFails, Provision, RunHostCommand,
    PersistState, CreateBackup, ReleaseRuntime, CaptureUsage, ApplyWakeGuarantee,
    CancelReservation

LEMMA CreditsComeFrom ==
  ASSUME TypeOK, RowsStep, NEW o \in guaranteed', o \notin guaranteed
  PROVE  \E w \in Workers : worker[w].step = "captured" /\ o = worker[w].op
BY BegunRows, PreflightRows
DEF RowsStep, Quiet, Begins, Attaches, FailsPreflight, Saved, SavesRows, billing, WorkersUntouched,
    EffectNext, LoadOperation, LoadWorld, InvocationFails, Provision, RunHostCommand,
    PersistState, CreateBackup, ReleaseRuntime, CaptureUsage, ApplyWakeGuarantee,
    CancelReservation

LEMMA CapturedIsCharged ==
  ASSUME TypeOK, NEW w \in Workers, EffectNext(w), worker'[w].step = "captured",
         worker[w].step # "captured"
  PROVE  worker'[w].op = worker[w].op /\ worker[w].op \in usage'
<1>1. EffectNext(w) /\ worker'[w] # worker[w] /\ worker[w].step = "released"
  BY EffectDone
<1>2. CaptureUsage(w)
  <2>1. ASSUME NEW s \in WorkerSteps, Acted(w, s) PROVE worker'[w].step = s
    BY <2>1, WorkerTypes DEF Acted, Invocation, TypeOK
  <2>2. ~ApplyWakeGuarantee(w) /\ ~InvocationFails(w)
    BY <2>1 DEF ApplyWakeGuarantee, InvocationFails, IdleWorker, WorkerSteps, TypeOK
  <2> QED
    BY <1>1, <2>2 DEF EffectNext, LoadOperation, LoadWorld, Provision, RunHostCommand,
       PersistState, CreateBackup, ReleaseRuntime, CancelReservation, At, CleaningUp
<1> QED
  BY <1>1, <1>2, CleaningStarts DEF CaptureUsage

LEMMA ChargeStarts == Init => ChargeInv
BY DEF Init, IdleWorker, ChargeInv, ChargesHoldReservations, SessionsAreChargedOnce,
       CreditsFollowCharges

LEMMA ChargeIsKept == IInv /\ ChargeInv /\ [Next]_vars => ChargeInv'
<1> SUFFICES ASSUME IInv, ChargeInv, [Next]_vars PROVE ChargeInv'
  OBVIOUS
<1>0. /\ TypeOK /\ RowsExist /\ RequestsHoldOperations /\ SnapshotsAreFaithful /\ RowsStep
      /\ usage \subseteq usage'
  BY NextRows, EffectsRemain DEF IInv
<1>1. ASSUME NEW o \in usage
      PROVE  /\ op'[o].reservation = op[o].reservation /\ op[o].reservation \in WakeOps
             /\ reservation'[op[o].reservation] = "captured"
  <2>1. /\ o \in Ops /\ op[o].reservation # None /\ op[o].reservation \in WakeOps
        /\ reservation[op[o].reservation] = "captured"
    BY <1>0 DEF ChargeInv, ChargesHoldReservations, TypeOK, Operation
  <2> QED
    BY <1>0, <2>1, ReservationStays, CapturedStays
<1>2. ASSUME NEW o \in usage', o \notin usage
      PROVE  /\ op'[o].reservation = op[o].reservation /\ op[o].reservation \in WakeOps
             /\ reservation[op[o].reservation] = "active"
             /\ reservation'[op[o].reservation] = "captured"
             /\ usage' = usage \cup {o}
  <2>1. PICK w \in Workers : CaptureUsage(w) /\ o = worker[w].op
    BY <1>0, <1>2, ChargesComeFrom
  <2>2. /\ worker[w].step # "idle" /\ worker[w].seen.reservation # None
        /\ worker[w].seen.reservation \in WakeOps /\ op' = op
        /\ usage' = usage \cup {o}
        /\ reservation[worker[w].seen.reservation] = "active"
        /\ reservation' = [reservation EXCEPT ![worker[w].seen.reservation] = "captured"]
    BY <1>0, <1>2, <2>1, WorkerTypes DEF CaptureUsage
  <2>3. op[o].reservation = worker[w].seen.reservation
    BY <2>1, <2>2 DEF ChargeInv, ReservationIsFaithful
  <2> QED
    BY <1>0, <2>2, <2>3 DEF TypeOK
<1>3. ChargesHoldReservations'
  BY <1>1, <1>2, KeysAssumption DEF ChargesHoldReservations, Ops
<1>4. SessionsAreChargedOnce'
  <2> SUFFICES ASSUME NEW a \in usage', NEW b \in usage',
                      op'[a].reservation = op'[b].reservation
               PROVE  a = b
    BY DEF SessionsAreChargedOnce
  <2>1. CASE a \in usage /\ b \in usage
    BY <1>1, <2>1 DEF ChargeInv, SessionsAreChargedOnce
  <2>2. ASSUME NEW x \in usage, NEW y \in usage', y \notin usage
        PROVE  op'[x].reservation # op'[y].reservation
    BY <1>1, <1>2, <2>2 DEF ChargeInv, ChargesHoldReservations
  <2>3. CASE a \notin usage /\ b \notin usage
    BY <1>2, <2>3
  <2> QED
    BY <2>1, <2>2, <2>3
<1>5. CreditsFollowCharges'
  <2>1. ASSUME NEW o \in guaranteed' PROVE o \in usage
    BY <1>0, <2>1, CreditsComeFrom DEF ChargeInv, CreditsFollowCharges
  <2> QED
    BY <1>0, <2>1 DEF CreditsFollowCharges
<1>6. ASSUME NEW v \in Workers, worker'[v].step # "idle" PROVE ReservationIsFaithful(v)'
  <2>1. CASE /\ worker[v].step # "idle"
             /\ worker'[v].op = worker[v].op /\ worker'[v].seen = worker[v].seen
    <3>1. worker[v].op \in Ops /\ ReservationIsFaithful(v)
      BY <1>0, <2>1 DEF ChargeInv, SnapshotsAreFaithful, OperationIsFaithful
    <3> QED
      BY <1>0, <2>1, <3>1, ReservationStays DEF ReservationIsFaithful
  <2>2. CASE op' = op /\ worker'[v].seen = op[worker'[v].op]
    BY <2>2 DEF ReservationIsFaithful
  <2>3. CASE EffectNext(v)
    BY <1>0, <1>6, <2>1, <2>2, <2>3, EffectHolds, EffectRows
  <2>4. CASE ~EffectNext(v)
    BY <1>0, <1>6, <2>1, <2>4, WorkersRest
  <2> QED
    BY <2>3, <2>4
<1>7. ASSUME NEW v \in Workers, worker'[v].step = "captured" PROVE worker'[v].op \in usage'
  <2>1. CASE worker'[v] = worker[v]
    BY <1>0, <1>7, <2>1 DEF ChargeInv
  <2>2. CASE EffectNext(v) /\ worker'[v] # worker[v]
    <3>1. worker[v].step # "captured"
      BY <1>0, <1>7, <2>2, EffectDone
    <3> QED
      BY <1>0, <1>7, <2>2, <3>1, CapturedIsCharged
  <2> QED
    BY <1>0, <1>7, <2>1, <2>2, WorkersRest
<1> QED
  BY <1>3, <1>4, <1>5, <1>6, <1>7 DEF ChargeInv

\* However workers overlap and retry, the reservation of a session is captured for one
\* operation only, the wake that failed or the sleep that ended it, and the Wake Guarantee
\* credits only a charge that was made.
THEOREM SessionsPayOnce == Spec => [](SessionsAreChargedOnce /\ CreditsFollowCharges)
<1>1. ChargeInv => SessionsAreChargedOnce /\ CreditsFollowCharges
  BY DEF ChargeInv
<1> QED
  BY <1>1, ChargeStarts, ChargeIsKept, LifecycleInvariant, PTL DEF Spec

===============================================================================
