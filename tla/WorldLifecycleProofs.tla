-------------------------- MODULE WorldLifecycleProofs --------------------------
(***************************************************************************)
(* Proofs that the lifecycle keeps its safety invariants for any number of *)
(* operations, workers and requests, and that it implements                *)
(* WorldStateMachine.                                                      *)
(*                                                                         *)
(* The argument: a save succeeds only on the versions its worker read, so  *)
(* a worker that saves holds the operation and the World as they are       *)
(* (SnapshotsAreFaithful), whatever other workers did meanwhile.  What a   *)
(* worker did outside the database before saving is remembered by facts    *)
(* that no other step undoes: archived, backups, usage and guaranteed only *)
(* grow, and a released Runtime stays released.                            *)
(***************************************************************************)
EXTENDS WorldLifecycle, FiniteSetTheorems, TLAPS

\* A row that does not exist holds nothing; one that exists has a version.
RowsExist ==
  \A o \in Ops : /\ op[o].status = "absent" => op[o] = NoOperation
                 /\ op[o].status # "absent" => op[o].version > 0

\* A request that has begun or joined an operation holds an existing one, and only a wake
\* is reserved for, attached and failed in the preflight.
RequestsHoldOperations ==
  \A c \in Clients :
    /\ client[c].step \in {"reserve", "attach", "release_reservation", "fail_preflight"} =>
         client[c].op \in WakeOps /\ op[client[c].op].status # "absent"
    /\ client[c].step = "dispatch" => client[c].op \in Ops

\* What a worker read is what is stored, unless the stored version is newer.
OperationIsFaithful(w) ==
  LET o == worker[w].op IN
    /\ o \in Ops
    /\ worker[w].seen.status \in ActiveStatuses
    /\ worker[w].seen.version > 0
    /\ worker[w].seen.version <= op[o].version
    /\ worker[w].seen.version = op[o].version => worker[w].seen = op[o]
    /\ worker[w].seen.runtime # None => op[o].runtime = worker[w].seen.runtime
WorldIsFaithful(w) ==
  /\ worker[w].world.version <= world.version
  /\ worker[w].world.version = world.version => worker[w].world = world
SnapshotsAreFaithful ==
  \A w \in Workers :
    /\ worker[w].step # "idle" => OperationIsFaithful(w)
    /\ worker[w].step \notin {"idle", "loaded"} => WorldIsFaithful(w)

\* A wake runs on the instance of its own key, and only a released one is charged.
RuntimesAreOwned ==
  \A o \in WakeOps : op[o].runtime # None => op[o].runtime = o
WorkerReleased(w) ==
  /\ worker[w].step \in {"released", "captured"} => worker[w].seen.runtime # None
  /\ worker[w].step \in {"released", "captured", "settled"} /\ worker[w].seen.runtime # None =>
       runtime[worker[w].seen.runtime] = "released"
WorkersReleasedFirst == \A w \in Workers : WorkerReleased(w)

\* A sleep records a state as persisted once it is archived, and goes on to release its
\* Runtime once that state is also backed up.
SleepProgress ==
  /\ \A o \in SleepOps :
       /\ op[o].persisted => o \in archived
       /\ op[o].phase \in {"creating_backup", "releasing_runtime"} => op[o].persisted
       /\ op[o].phase = "releasing_runtime" => o \in backups
  /\ \A w \in Workers :
       worker[w].step = "acted" /\ worker[w].task = "advance" /\ worker[w].op \in SleepOps =>
         /\ worker[w].seen.phase = "persisting_world" /\ worker[w].ok =>
              worker[w].op \in archived
         /\ worker[w].seen.phase = "creating_backup" => worker[w].op \in backups

\* A failed wake that had a Runtime was credited before it was saved as failed.
GuaranteeProgress ==
  /\ \A o \in WakeOps :
       op[o].status = "needs_attention" /\ op[o].runtime # None => o \in guaranteed
  /\ \A w \in Workers :
       worker[w].step = "settled" /\ worker[w].op \in WakeOps /\ worker[w].seen.runtime # None =>
         worker[w].op \in guaranteed

IInv ==
  /\ TypeOK
  /\ RowsExist
  /\ RequestsHoldOperations
  /\ SnapshotsAreFaithful
  /\ OneActiveOperation
  /\ TransitionsAreOwned
  /\ RuntimesAreOwned
  /\ WorkersReleasedFirst
  /\ ChargedOnlyAfterRelease
  /\ SleepProgress
  /\ StoredStateIsRecoverable
  /\ GuaranteeProgress
-------------------------------------------------------------------------------
(* The saves of a worker, whatever phase they end. *)

SaveNext(w) ==
  \/ NextPhase(w) \/ SaveProvisioned(w) \/ SaveConfigured(w) \/ SaveOnline(w)
  \/ SaveFailedWake(w) \/ SaveCancelledSleep(w) \/ SavePersisted(w) \/ SaveBackedUp(w)
  \/ SaveSlept(w) \/ SaveNeedsAttention(w) \/ SaveRecovery(w)

\* What all of them have in common, for the operation o: the rows they write replace the
\* rows the worker read.
SavesRows(w, o) ==
  /\ o = worker[w].op /\ o \in Ops /\ Active(o) /\ worker[w].seen = op[o]
  /\ \E x \in Operation : /\ op' = [op EXCEPT ![o] = x]
                         /\ x.version = op[o].version + 1
                         /\ x.status # "absent"
  /\ world' \in World
  /\ world' = world \/ world'.version = world.version + 1
  /\ exec' # exec => /\ exec' = [exec EXCEPT ![o] = "done"]
                     /\ op'[o].status \in TerminalStatuses
  /\ worker[w].step # "idle"
  /\ worker' = [worker EXCEPT ![w] = IdleWorker]
  /\ UNCHANGED <<client, runtime, storage, billing, aged, edits>>

\* The operation goes on, or ends and sets the status of the World.
SavesStatus(o) ==
  \/ /\ op'[o].status \in ActiveStatuses
     /\ world'.status = world.status /\ world'.stored = world.stored
  \/ /\ op'[o].status \in TerminalStatuses
     /\ world'.status \in {"online", "needs_attention"} /\ world'.stored = world.stored
  \/ /\ o \in RecoverOps /\ op'[o].status = "failed"
     /\ world'.status = "waking" /\ world'.stored = world.stored
  \/ /\ o \in SleepOps /\ op'[o].status \in TerminalStatuses /\ world'.status = "sleeping"
     /\ op[o].phase = "releasing_runtime"
     /\ world'.stored = IF op[o].persisted THEN o ELSE None

SavesProgress(w, o) ==
  /\ op'[o].runtime = op[o].runtime \/ (o \in WakeOps /\ op'[o].runtime = o)
  /\ o \in WakeOps /\ op'[o].status = "needs_attention" =>
       worker[w].step = "settled" /\ op'[o].runtime = op[o].runtime
  /\ o \in SleepOps =>
       /\ op[o].persisted => op'[o].persisted
       /\ op'[o].persisted =>
            \/ op[o].persisted
            \/ /\ worker[w].step = "acted" /\ worker[w].task = "advance" /\ worker[w].ok
               /\ op[o].phase = "persisting_world"
       /\ op'[o].phase = "creating_backup" =>
            op'[o].persisted \/ op[o].phase = "creating_backup"
       /\ op'[o].phase = "releasing_runtime" =>
            \/ op[o].phase = "releasing_runtime"
            \/ /\ worker[w].step = "acted" /\ worker[w].task = "advance"
               /\ op[o].phase = "creating_backup"

\* What the save leaves of the attempt and the reservation, the Runtimes and the outcome: an
\* operation that goes on shares its Runtime with the World or leaves both as they were, only
\* a check that was answered brings the World Online, and a wake that cleans up ends in Needs
\* Attention.
SavesOutcome(w, o) ==
  /\ op'[o].attempt = op[o].attempt /\ op'[o].reservation = op[o].reservation
  /\ op'[o].status \in ActiveStatuses =>
       \/ op'[o].runtime = op[o].runtime /\ world'.runtime = world.runtime
       \/ op'[o].runtime = world'.runtime
  /\ world'.status = "online" =>
       \/ world.status = "online"
       \/ /\ worker[w].step = "acted" /\ worker[w].task = "advance"
          /\ op[o].phase \in {"checking_game_health", "checking_players"}
          /\ world'.runtime = world.runtime
  /\ world'.status = "waking" =>
       op'[o].status \in ActiveStatuses \/ op[o].attempt < MaxAttempts
  /\ o \in WakeOps /\ (worker[w].task = "record_failure" \/ op[o].phase = "releasing_runtime") =>
       op'[o].status = "needs_attention"

Saved(w) ==
  LET o == worker[w].op IN
    SavesRows(w, o) /\ SavesStatus(o) /\ SavesProgress(w, o) /\ SavesOutcome(w, o)

\* A worker that saves holds the operation as it is stored, and an active one.
LEMMA SaverHoldsOperation ==
  ASSUME TypeOK, SnapshotsAreFaithful, NEW w \in Workers, worker[w].step # "idle",
         op[worker[w].op].version = worker[w].seen.version
  PROVE  worker[w].op \in Ops /\ worker[w].seen = op[worker[w].op] /\ Active(worker[w].op)
BY DEF SnapshotsAreFaithful, OperationIsFaithful, Active

LEMMA SaverHoldsWorld ==
  ASSUME TypeOK, SnapshotsAreFaithful, NEW w \in Workers,
         worker[w].step \notin {"idle", "loaded"}, world.version = worker[w].world.version
  PROVE  worker[w].world = world
BY DEF SnapshotsAreFaithful, WorldIsFaithful

\* Saving the operation alone, with a row that differs from the one read where it says.
LEMMA OperationSaved ==
  ASSUME TypeOK, SnapshotsAreFaithful, NEW w \in Workers, NEW x \in Operation,
         worker[w].step \notin {"idle", "loaded"},
         x.version = worker[w].seen.version, x.status \in ActiveStatuses,
         SaveOperation(w, x)
  PROVE  /\ SavesRows(w, worker[w].op) /\ SavesStatus(worker[w].op)
         /\ op'[worker[w].op] = [x EXCEPT !.version = @ + 1]
<1> DEFINE o == worker[w].op
<1>1. o \in Ops /\ worker[w].seen = op[o] /\ Active(o)
  BY SaverHoldsOperation DEF SaveOperation
<1>2. op' = [op EXCEPT ![o] = [x EXCEPT !.version = @ + 1]]
  BY DEF SaveOperation
<1>3. [x EXCEPT !.version = @ + 1] \in Operation
  BY DEF Operation
<1>4. /\ [x EXCEPT !.version = @ + 1].version = op[o].version + 1
      /\ [x EXCEPT !.version = @ + 1].status = x.status
  BY <1>1 DEF Operation
<1>5. op'[o] = [x EXCEPT !.version = @ + 1]
  BY <1>1, <1>2 DEF TypeOK
<1>6. world' = world /\ world \in World
  BY DEF SaveOperation, TypeOK
<1>7. SavesRows(w, o)
  <2>1. \E z \in Operation : /\ op' = [op EXCEPT ![o] = z]
                            /\ z.version = op[o].version + 1
                            /\ z.status # "absent"
    BY <1>2, <1>3, <1>4 DEF ActiveStatuses
  <2> QED
    BY <1>1, <1>6, <2>1 DEF SavesRows, SaveOperation
<1>8. SavesStatus(o)
  BY <1>4, <1>5, <1>6 DEF SavesStatus
<1> QED
  BY <1>5, <1>7, <1>8

\* Saving both rows.
LEMMA BothSaved ==
  ASSUME TypeOK, SnapshotsAreFaithful, NEW w \in Workers,
         NEW x \in Operation, NEW y \in World,
         worker[w].step \notin {"idle", "loaded"},
         x.version = worker[w].seen.version, x.status # "absent",
         y.version = worker[w].world.version,
         SaveBoth(w, x, y)
  PROVE  /\ SavesRows(w, worker[w].op)
         /\ worker[w].world = world
         /\ op'[worker[w].op] = [x EXCEPT !.version = @ + 1]
         /\ world' = [y EXCEPT !.version = @ + 1]
<1> DEFINE o == worker[w].op
<1>1. o \in Ops /\ worker[w].seen = op[o] /\ Active(o)
  BY SaverHoldsOperation DEF SaveBoth
<1>2. worker[w].world = world
  BY SaverHoldsWorld DEF SaveBoth
<1>3. /\ op' = [op EXCEPT ![o] = [x EXCEPT !.version = @ + 1]]
      /\ world' = [y EXCEPT !.version = @ + 1]
  BY DEF SaveBoth
<1>4. [x EXCEPT !.version = @ + 1] \in Operation /\ [y EXCEPT !.version = @ + 1] \in World
  BY DEF Operation, World
<1>5. /\ [x EXCEPT !.version = @ + 1].version = op[o].version + 1
      /\ [x EXCEPT !.version = @ + 1].status = x.status
      /\ [y EXCEPT !.version = @ + 1].version = world.version + 1
  BY <1>1, <1>2 DEF Operation, World
<1>6. op'[o] = [x EXCEPT !.version = @ + 1]
  BY <1>1, <1>3 DEF TypeOK
<1>7. exec' # exec => exec' = [exec EXCEPT ![o] = "done"] /\ op'[o].status \in TerminalStatuses
  BY <1>5, <1>6 DEF SaveBoth
<1>8. \E z \in Operation : /\ op' = [op EXCEPT ![o] = z]
                          /\ z.version = op[o].version + 1
                          /\ z.status # "absent"
  BY <1>3, <1>4, <1>5
<1>9. SavesRows(w, o)
  BY <1>1, <1>3, <1>4, <1>5, <1>7, <1>8 DEF SavesRows, SaveBoth
<1> QED
  BY <1>2, <1>3, <1>6, <1>9

\* Moving to a phase changes nothing else, and a sleep starts its backup and its release
\* elsewhere.
LEMMA PhaseSaved ==
  ASSUME TypeOK, SnapshotsAreFaithful, NEW w \in Workers, NEW p \in Phases,
         worker[w].step \notin {"idle", "loaded"},
         p # "creating_backup", worker[w].op \in SleepOps => p # "releasing_runtime",
         worker[w].task = "advance",
         worker[w].op \in WakeOps => worker[w].seen.phase # "releasing_runtime",
         ToPhase(w, p)
  PROVE  Saved(w)
<1> DEFINE o == worker[w].op
           x == [worker[w].seen EXCEPT !.status = "running", !.phase = p]
<1>1. o \in Ops /\ worker[w].seen = op[o] /\ op[o] \in Operation
  BY SaverHoldsOperation DEF ToPhase, SaveOperation, TypeOK
<1>2. x \in Operation /\ x.version = worker[w].seen.version /\ x.status \in ActiveStatuses
  BY <1>1 DEF Operation, ActiveStatuses
<1>3. SaveOperation(w, x)
  BY DEF ToPhase
<1>4. /\ SavesRows(w, o) /\ SavesStatus(o)
      /\ op'[o] = [x EXCEPT !.version = @ + 1]
  BY <1>2, <1>3, OperationSaved
<1>5. /\ op'[o].runtime = op[o].runtime /\ op'[o].persisted = op[o].persisted
      /\ op'[o].status = "running" /\ op'[o].phase = p /\ op'[o].attempt = op[o].attempt
      /\ op'[o].reservation = op[o].reservation
  BY <1>1, <1>4 DEF Operation
<1>6. SavesProgress(w, o)
  BY <1>5 DEF SavesProgress
<1>7. SavesOutcome(w, o)
  BY <1>1, <1>3, <1>5 DEF SavesOutcome, SaveOperation, ActiveStatuses
<1> QED
  BY <1>4, <1>6, <1>7 DEF Saved

LEMMA NextPhaseSaved ==
  ASSUME TypeOK, SnapshotsAreFaithful, NEW w \in Workers, NextPhase(w)
  PROVE  Saved(w)
<1>1. PICK p \in Phases :
        /\ ToPhase(w, p)
        /\ worker[w].step \notin {"idle", "loaded"}
        /\ p # "creating_backup"
        /\ worker[w].op \in SleepOps => p # "releasing_runtime"
        /\ worker[w].task = "advance"
        /\ worker[w].op \in WakeOps => worker[w].seen.phase # "releasing_runtime"
  BY KeysAssumption DEF NextPhase, At, Phases
<1> QED
  BY <1>1, PhaseSaved

LEMMA SaveProvisionedSaved ==
  ASSUME TypeOK, SnapshotsAreFaithful, NEW w \in Workers, SaveProvisioned(w)
  PROVE  Saved(w)
<1> DEFINE o == worker[w].op
           x == [worker[w].seen EXCEPT !.phase = "restoring_world", !.runtime = worker[w].op,
                                   !.started = TRUE]
           y == [worker[w].world EXCEPT !.runtime = worker[w].op, !.started = TRUE]
<1>1. /\ op[o] \in Operation /\ worker[w].seen = op[o] /\ o \in Ops
      /\ Active(o) /\ worker[w].world \in World
      /\ worker[w].step \notin {"idle", "loaded"}
  BY SaverHoldsOperation DEF SaveProvisioned, SaveBoth, At, CleaningUp, TypeOK, Invocation
<1>2. /\ x \in Operation /\ x.version = worker[w].seen.version /\ x.status # "absent"
      /\ y \in World /\ y.version = worker[w].world.version
  BY <1>1 DEF Operation, World, SaveProvisioned, At, Ops, Active, ActiveStatuses, TerminalStatuses, Phases,
              WorldStatuses
<1>3. SaveBoth(w, x, y)
  BY DEF SaveProvisioned
<1> HIDE DEF x, y
<1>4. /\ SavesRows(w, o) /\ worker[w].world = world
      /\ op'[o] = [x EXCEPT !.version = @ + 1]
      /\ world' = [y EXCEPT !.version = @ + 1]
  BY <1>1, <1>2, <1>3, BothSaved
<1>5. /\ op'[o].status = op[o].status /\ op'[o].runtime = o
      /\ op'[o].persisted = op[o].persisted /\ op'[o].phase = "restoring_world"
      /\ op'[o].attempt = op[o].attempt
      /\ op'[o].reservation = op[o].reservation
  BY <1>1, <1>4 DEF Operation, x
<1>6. world'.status = world.status /\ world'.stored = world.stored
      /\ world'.runtime = o
  BY <1>1, <1>4 DEF World, y
<1>7. SavesStatus(o)
  BY <1>1, <1>5, <1>6 DEF SavesStatus, SaveProvisioned, At, Active, TerminalStatuses, ActiveStatuses
<1>8. SavesProgress(w, o)
  BY <1>1, <1>5, KeysAssumption DEF SavesProgress, SaveProvisioned, At, Active, ActiveStatuses
<1>9. SavesOutcome(w, o)
  BY <1>1, <1>5, <1>6, KeysAssumption
  DEF SavesOutcome, SaveProvisioned, At, Active, ActiveStatuses, TerminalStatuses
<1> QED
  BY <1>4, <1>7, <1>8, <1>9 DEF Saved

LEMMA SaveConfiguredSaved ==
  ASSUME TypeOK, SnapshotsAreFaithful, NEW w \in Workers, SaveConfigured(w)
  PROVE  Saved(w)
<1> DEFINE o == worker[w].op
           x == [worker[w].seen EXCEPT !.status = "running", !.phase = "starting_game"]
           y == [worker[w].world EXCEPT !.pending = FALSE]
<1>1. /\ op[o] \in Operation /\ worker[w].seen = op[o] /\ o \in Ops
      /\ Active(o) /\ worker[w].world \in World
      /\ worker[w].step \notin {"idle", "loaded"}
  BY SaverHoldsOperation DEF SaveConfigured, SaveBoth, At, CleaningUp, TypeOK, Invocation
<1>2. /\ x \in Operation /\ x.version = worker[w].seen.version /\ x.status # "absent"
      /\ y \in World /\ y.version = worker[w].world.version
  BY <1>1 DEF Operation, World, SaveConfigured, At, Ops, Active, ActiveStatuses, TerminalStatuses, Phases,
              WorldStatuses
<1>3. SaveBoth(w, x, y)
  BY DEF SaveConfigured
<1> HIDE DEF x, y
<1>4. /\ SavesRows(w, o) /\ worker[w].world = world
      /\ op'[o] = [x EXCEPT !.version = @ + 1]
      /\ world' = [y EXCEPT !.version = @ + 1]
  BY <1>1, <1>2, <1>3, BothSaved
<1>5. /\ op'[o].status = "running" /\ op'[o].runtime = op[o].runtime
      /\ op'[o].attempt = op[o].attempt /\ op'[o].reservation = op[o].reservation
      /\ op'[o].persisted = op[o].persisted /\ op'[o].phase = "starting_game"
  BY <1>1, <1>4 DEF Operation, x
<1>6. world'.status = world.status /\ world'.stored = world.stored /\ world'.runtime = world.runtime
  BY <1>1, <1>4 DEF World, y
<1>7. SavesStatus(o)
  BY <1>1, <1>5, <1>6 DEF SavesStatus, SaveConfigured, At, Active, TerminalStatuses, ActiveStatuses
<1>8. SavesProgress(w, o)
  BY <1>1, <1>5, KeysAssumption DEF SavesProgress, SaveConfigured, At, Active, ActiveStatuses
<1>9. SavesOutcome(w, o)
  BY <1>1, <1>5, <1>6, KeysAssumption
  DEF SavesOutcome, SaveConfigured, At, Active, ActiveStatuses, TerminalStatuses
<1> QED
  BY <1>4, <1>7, <1>8, <1>9 DEF Saved

LEMMA SaveOnlineSaved ==
  ASSUME TypeOK, SnapshotsAreFaithful, NEW w \in Workers, SaveOnline(w)
  PROVE  Saved(w)
<1> DEFINE o == worker[w].op
           x == [worker[w].seen EXCEPT !.status = "succeeded", !.phase = "complete"]
           y == [worker[w].world EXCEPT !.status = "online"]
<1>1. /\ op[o] \in Operation /\ worker[w].seen = op[o] /\ o \in Ops
      /\ Active(o) /\ worker[w].world \in World
      /\ worker[w].step \notin {"idle", "loaded"}
  BY SaverHoldsOperation DEF SaveOnline, SaveBoth, At, CleaningUp, TypeOK, Invocation
<1>2. /\ x \in Operation /\ x.version = worker[w].seen.version /\ x.status # "absent"
      /\ y \in World /\ y.version = worker[w].world.version
  BY <1>1 DEF Operation, World, SaveOnline, At, Ops, Active, ActiveStatuses, TerminalStatuses, Phases,
              WorldStatuses
<1>3. SaveBoth(w, x, y)
  BY DEF SaveOnline
<1> HIDE DEF x, y
<1>4. /\ SavesRows(w, o) /\ worker[w].world = world
      /\ op'[o] = [x EXCEPT !.version = @ + 1]
      /\ world' = [y EXCEPT !.version = @ + 1]
  BY <1>1, <1>2, <1>3, BothSaved
<1>5. /\ op'[o].status = "succeeded" /\ op'[o].runtime = op[o].runtime
      /\ op'[o].attempt = op[o].attempt /\ op'[o].reservation = op[o].reservation
      /\ op'[o].persisted = op[o].persisted /\ op'[o].phase = "complete"
  BY <1>1, <1>4 DEF Operation, x
<1>6. world'.status = "online" /\ world'.stored = world.stored /\ world'.runtime = world.runtime
  BY <1>1, <1>4 DEF World, y
<1>7. SavesStatus(o)
  BY <1>1, <1>5, <1>6 DEF SavesStatus, SaveOnline, At, Active, TerminalStatuses, ActiveStatuses
<1>8. SavesProgress(w, o)
  BY <1>1, <1>5, KeysAssumption DEF SavesProgress, SaveOnline, At, Active, ActiveStatuses
<1>9. SavesOutcome(w, o)
  BY <1>1, <1>5, <1>6, KeysAssumption
  DEF SavesOutcome, SaveOnline, At, Active, ActiveStatuses, TerminalStatuses
<1> QED
  BY <1>4, <1>7, <1>8, <1>9 DEF Saved

LEMMA SaveFailedWakeSaved ==
  ASSUME TypeOK, SnapshotsAreFaithful, NEW w \in Workers, SaveFailedWake(w)
  PROVE  Saved(w)
<1> DEFINE o == worker[w].op
           x == [worker[w].seen EXCEPT !.status = "needs_attention",
                  !.phase = IF worker[w].task = "advance" THEN "complete" ELSE @]
           y == [worker[w].world EXCEPT !.status = "needs_attention", !.runtime = None,
                                   !.reservation = None, !.started = FALSE]
<1>1. /\ op[o] \in Operation /\ worker[w].seen = op[o] /\ o \in Ops
      /\ Active(o) /\ worker[w].world \in World
      /\ worker[w].step \notin {"idle", "loaded"}
  BY SaverHoldsOperation DEF SaveFailedWake, SaveBoth, At, CleaningUp, TypeOK, Invocation
<1>2. /\ x \in Operation /\ x.version = worker[w].seen.version /\ x.status # "absent"
      /\ y \in World /\ y.version = worker[w].world.version
  BY <1>1 DEF Operation, World, SaveFailedWake, At, Ops, Active, ActiveStatuses, TerminalStatuses, Phases,
              WorldStatuses
<1>3. SaveBoth(w, x, y)
  BY DEF SaveFailedWake
<1> HIDE DEF x, y
<1>4. /\ SavesRows(w, o) /\ worker[w].world = world
      /\ op'[o] = [x EXCEPT !.version = @ + 1]
      /\ world' = [y EXCEPT !.version = @ + 1]
  BY <1>1, <1>2, <1>3, BothSaved
<1>5. /\ op'[o].status = "needs_attention" /\ op'[o].runtime = op[o].runtime
      /\ op'[o].persisted = op[o].persisted /\ op'[o].attempt = op[o].attempt
      /\ op'[o].reservation = op[o].reservation
      /\ op'[o].phase \in {"complete", op[o].phase}
  BY <1>1, <1>4 DEF Operation, x
<1>6. world'.status = "needs_attention" /\ world'.stored = world.stored
  BY <1>1, <1>4 DEF World, y
<1>7. SavesStatus(o)
  BY <1>1, <1>5, <1>6 DEF SavesStatus, SaveFailedWake, At, Active, TerminalStatuses, ActiveStatuses
<1>8. SavesProgress(w, o)
  BY <1>1, <1>5, KeysAssumption DEF SavesProgress, SaveFailedWake, At, Active, ActiveStatuses
<1>9. SavesOutcome(w, o)
  BY <1>1, <1>5, <1>6, KeysAssumption
  DEF SavesOutcome, SaveFailedWake, At, Active, ActiveStatuses, TerminalStatuses
<1> QED
  BY <1>4, <1>7, <1>8, <1>9 DEF Saved

LEMMA SaveCancelledSleepSaved ==
  ASSUME TypeOK, SnapshotsAreFaithful, NEW w \in Workers, SaveCancelledSleep(w)
  PROVE  Saved(w)
<1> DEFINE o == worker[w].op
           x == [worker[w].seen EXCEPT !.status = "cancelled", !.phase = "complete"]
           y == [worker[w].world EXCEPT !.status = "online"]
<1>1. /\ op[o] \in Operation /\ worker[w].seen = op[o] /\ o \in Ops
      /\ Active(o) /\ worker[w].world \in World
      /\ worker[w].step \notin {"idle", "loaded"}
  BY SaverHoldsOperation DEF SaveCancelledSleep, SaveBoth, At, CleaningUp, TypeOK, Invocation
<1>2. /\ x \in Operation /\ x.version = worker[w].seen.version /\ x.status # "absent"
      /\ y \in World /\ y.version = worker[w].world.version
  BY <1>1 DEF Operation, World, SaveCancelledSleep, At, Ops, Active, ActiveStatuses, TerminalStatuses, Phases,
              WorldStatuses
<1>3. SaveBoth(w, x, y)
  BY DEF SaveCancelledSleep
<1> HIDE DEF x, y
<1>4. /\ SavesRows(w, o) /\ worker[w].world = world
      /\ op'[o] = [x EXCEPT !.version = @ + 1]
      /\ world' = [y EXCEPT !.version = @ + 1]
  BY <1>1, <1>2, <1>3, BothSaved
<1>5. /\ op'[o].status = "cancelled" /\ op'[o].runtime = op[o].runtime
      /\ op'[o].attempt = op[o].attempt /\ op'[o].reservation = op[o].reservation
      /\ op'[o].persisted = op[o].persisted /\ op'[o].phase = "complete"
  BY <1>1, <1>4 DEF Operation, x
<1>6. world'.status = "online" /\ world'.stored = world.stored /\ world'.runtime = world.runtime
  BY <1>1, <1>4 DEF World, y
<1>7. SavesStatus(o)
  BY <1>1, <1>5, <1>6 DEF SavesStatus, SaveCancelledSleep, At, Active, TerminalStatuses, ActiveStatuses
<1>8. SavesProgress(w, o)
  BY <1>1, <1>5, KeysAssumption DEF SavesProgress, SaveCancelledSleep, At, Active, ActiveStatuses
<1>9. SavesOutcome(w, o)
  BY <1>1, <1>5, <1>6, KeysAssumption
  DEF SavesOutcome, SaveCancelledSleep, At, Active, ActiveStatuses, TerminalStatuses
<1> QED
  BY <1>4, <1>7, <1>8, <1>9 DEF Saved

LEMMA SaveSleptSaved ==
  ASSUME TypeOK, SnapshotsAreFaithful, NEW w \in Workers, SaveSlept(w)
  PROVE  Saved(w)
<1> DEFINE o == worker[w].op
           x == [worker[w].seen EXCEPT !.status = "succeeded", !.phase = "complete"]
           y == [worker[w].world EXCEPT !.status = "sleeping", !.runtime = None, !.reservation = None,
                   !.started = FALSE, !.stored = IF worker[w].seen.persisted THEN worker[w].op ELSE None]
<1>1. /\ op[o] \in Operation /\ worker[w].seen = op[o] /\ o \in Ops
      /\ Active(o) /\ worker[w].world \in World
      /\ worker[w].step \notin {"idle", "loaded"}
  BY SaverHoldsOperation DEF SaveSlept, SaveBoth, At, CleaningUp, TypeOK, Invocation
<1>2. /\ x \in Operation /\ x.version = worker[w].seen.version /\ x.status # "absent"
      /\ y \in World /\ y.version = worker[w].world.version
  BY <1>1 DEF Operation, World, SaveSlept, At, Ops, Active, ActiveStatuses, TerminalStatuses, Phases,
              WorldStatuses
<1>3. SaveBoth(w, x, y)
  BY DEF SaveSlept
<1> HIDE DEF x, y
<1>4. /\ SavesRows(w, o) /\ worker[w].world = world
      /\ op'[o] = [x EXCEPT !.version = @ + 1]
      /\ world' = [y EXCEPT !.version = @ + 1]
  BY <1>1, <1>2, <1>3, BothSaved
<1>5. /\ op'[o].status = "succeeded" /\ op'[o].runtime = op[o].runtime
      /\ op'[o].attempt = op[o].attempt /\ op'[o].reservation = op[o].reservation
      /\ op'[o].persisted = op[o].persisted /\ op'[o].phase = "complete"
  BY <1>1, <1>4 DEF Operation, x
<1>6. /\ world'.status = "sleeping"
      /\ world'.stored = IF op[o].persisted THEN o ELSE None
  BY <1>1, <1>4 DEF World, y
<1>7. SavesStatus(o)
  BY <1>1, <1>5, <1>6 DEF SavesStatus, SaveSlept, At, Active, TerminalStatuses, ActiveStatuses
<1>8. SavesProgress(w, o)
  BY <1>1, <1>5, KeysAssumption DEF SavesProgress, SaveSlept, At, Active, ActiveStatuses
<1>9. SavesOutcome(w, o)
  BY <1>1, <1>5, <1>6, KeysAssumption
  DEF SavesOutcome, SaveSlept, At, Active, ActiveStatuses, TerminalStatuses
<1> QED
  BY <1>4, <1>7, <1>8, <1>9 DEF Saved

LEMMA SaveNeedsAttentionSaved ==
  ASSUME TypeOK, SnapshotsAreFaithful, NEW w \in Workers, SaveNeedsAttention(w)
  PROVE  Saved(w)
<1> DEFINE o == worker[w].op
           x == [worker[w].seen EXCEPT !.status = "needs_attention"]
           y == [worker[w].world EXCEPT !.status = "needs_attention"]
<1>1. /\ op[o] \in Operation /\ worker[w].seen = op[o] /\ o \in Ops
      /\ Active(o) /\ worker[w].world \in World
      /\ worker[w].step \notin {"idle", "loaded"}
  BY SaverHoldsOperation DEF SaveNeedsAttention, SaveBoth, At, CleaningUp, TypeOK, Invocation
<1>2. /\ x \in Operation /\ x.version = worker[w].seen.version /\ x.status # "absent"
      /\ y \in World /\ y.version = worker[w].world.version
  BY <1>1 DEF Operation, World, SaveNeedsAttention, At, Ops, Active, ActiveStatuses, TerminalStatuses, Phases,
              WorldStatuses
<1>3. SaveBoth(w, x, y)
  BY DEF SaveNeedsAttention
<1> HIDE DEF x, y
<1>4. /\ SavesRows(w, o) /\ worker[w].world = world
      /\ op'[o] = [x EXCEPT !.version = @ + 1]
      /\ world' = [y EXCEPT !.version = @ + 1]
  BY <1>1, <1>2, <1>3, BothSaved
<1>5. /\ op'[o].status = "needs_attention" /\ op'[o].runtime = op[o].runtime
      /\ op'[o].attempt = op[o].attempt /\ op'[o].reservation = op[o].reservation
      /\ op'[o].persisted = op[o].persisted /\ op'[o].phase = op[o].phase
  BY <1>1, <1>4 DEF Operation, x
<1>6. /\ world'.status = "needs_attention" /\ world'.stored = world.stored
      /\ world'.runtime = world.runtime
  BY <1>1, <1>4 DEF World, y
<1>7. SavesStatus(o)
  BY <1>1, <1>5, <1>6 DEF SavesStatus, SaveNeedsAttention, At, Active, TerminalStatuses, ActiveStatuses
<1>8. SavesProgress(w, o)
  BY <1>1, <1>5, KeysAssumption DEF SavesProgress, SaveNeedsAttention, At, Active, ActiveStatuses
<1>9. SavesOutcome(w, o)
  BY <1>1, <1>5, <1>6, KeysAssumption
  DEF SavesOutcome, SaveNeedsAttention, At, Active, ActiveStatuses, TerminalStatuses
<1> QED
  BY <1>4, <1>7, <1>8, <1>9 DEF Saved


LEMMA SaveRecoverySaved ==
  ASSUME TypeOK, SnapshotsAreFaithful, NEW w \in Workers, SaveRecovery(w)
  PROVE  Saved(w)
<1> DEFINE o == worker[w].op
<1>1. /\ op[o] \in Operation /\ worker[w].seen = op[o] /\ o \in RecoverOps
      /\ worker[w].world \in World /\ worker[w].step \notin {"idle", "loaded"}
  BY SaverHoldsOperation DEF SaveRecovery, SaveBoth, At, TypeOK, Invocation
<1>2. PICK a \in {"succeeded", "needs_attention", "failed"},
           b \in {"online", "needs_attention", "waking"} :
        /\ b = "waking" => a = "failed" /\ worker[w].seen.attempt < MaxAttempts
        /\ SaveBoth(w, [worker[w].seen EXCEPT !.status = a, !.phase = "complete"],
                       [worker[w].world EXCEPT !.status = b])
  <2>1. CASE worker[w].ok
    BY <2>1 DEF SaveRecovery
  <2>2. CASE ~worker[w].ok /\ worker[w].seen.attempt >= MaxAttempts
    BY <2>2 DEF SaveRecovery
  <2>3. CASE ~worker[w].ok /\ ~(worker[w].seen.attempt >= MaxAttempts)
    <3>1. worker[w].seen.attempt < MaxAttempts
      BY <1>1, <2>3 DEF Operation, MaxAttempts
    <3>2. SaveBoth(w, [worker[w].seen EXCEPT !.status = "failed", !.phase = "complete"],
                      [worker[w].world EXCEPT !.status = "waking"])
      BY <2>3 DEF SaveRecovery
    <3> QED
      BY <3>1, <3>2
  <2> QED
    BY <2>1, <2>2, <2>3
<1> DEFINE x == [worker[w].seen EXCEPT !.status = a, !.phase = "complete"]
           y == [worker[w].world EXCEPT !.status = b]
<1>3. /\ x \in Operation /\ x.version = worker[w].seen.version /\ x.status # "absent"
      /\ y \in World /\ y.version = worker[w].world.version
  <2>1. a \in TerminalStatuses /\ a # "absent" /\ b \in WorldStatuses /\ "complete" \in Phases
    BY DEF TerminalStatuses, WorldStatuses, Phases
  <2> QED
    BY <1>1, <2>1 DEF Operation, World
<1>31. SaveBoth(w, x, y)
  BY <1>2
<1> HIDE DEF x, y
<1>4. /\ SavesRows(w, o) /\ worker[w].world = world
      /\ op'[o] = [x EXCEPT !.version = @ + 1]
      /\ world' = [y EXCEPT !.version = @ + 1]
  BY <1>1, <1>3, <1>31, BothSaved
<1>5. /\ op'[o].status = a /\ op'[o].runtime = op[o].runtime
      /\ op'[o].attempt = op[o].attempt /\ op'[o].reservation = op[o].reservation
  BY <1>1, <1>4 DEF Operation, x
<1>6. world'.status = b /\ world'.stored = world.stored /\ world'.runtime = world.runtime
  BY <1>1, <1>4 DEF World, y
<1>7. SavesStatus(o)
  BY <1>1, <1>2, <1>5, <1>6 DEF SavesStatus, TerminalStatuses
<1>8. SavesProgress(w, o)
  BY <1>1, <1>5, KeysAssumption DEF SavesProgress
<1>9. /\ o \notin WakeOps /\ worker[w].step = "acted" /\ worker[w].task = "advance"
      /\ op[o].phase = "checking_game_health"
  BY <1>1, KeysAssumption DEF SaveRecovery, At
<1>10. SavesOutcome(w, o)
  BY <1>1, <1>2, <1>5, <1>6, <1>9 DEF SavesOutcome, ActiveStatuses
<1> QED
  BY <1>4, <1>7, <1>8, <1>10 DEF Saved

LEMMA SavePersistedSaved ==
  ASSUME TypeOK, SnapshotsAreFaithful, NEW w \in Workers, SavePersisted(w)
  PROVE  Saved(w)
<1> DEFINE o == worker[w].op
           x == [worker[w].seen EXCEPT !.phase = "creating_backup", !.persisted = TRUE]
<1>1. /\ op[o] \in Operation /\ worker[w].seen = op[o] /\ o \in SleepOps /\ Active(o)
      /\ worker[w].step = "acted" /\ worker[w].task = "advance"
      /\ op[o].phase = "persisting_world" /\ worker[w].ok
  BY SaverHoldsOperation DEF SavePersisted, SaveOperation, At, TypeOK
<1>2. x \in Operation /\ x.version = worker[w].seen.version /\ x.status \in ActiveStatuses
  BY <1>1 DEF Operation, Active, Phases
<1>3. /\ SavesRows(w, o) /\ SavesStatus(o)
      /\ op'[o] = [x EXCEPT !.version = @ + 1]
  BY <1>1, <1>2, OperationSaved DEF SavePersisted
<1>4. /\ op'[o].runtime = op[o].runtime /\ op'[o].persisted
      /\ op'[o].phase = "creating_backup" /\ op'[o].attempt = op[o].attempt
      /\ op'[o].reservation = op[o].reservation
  BY <1>1, <1>3 DEF Operation
<1>5. SavesProgress(w, o)
  BY <1>1, <1>4, KeysAssumption DEF SavesProgress
<1>6. world' = world /\ op'[o].status = op[o].status
  BY <1>1, <1>3 DEF SavePersisted, SaveOperation, Operation
<1>7. SavesOutcome(w, o)
  BY <1>1, <1>4, <1>6, KeysAssumption DEF SavesOutcome, Active
<1> QED
  BY <1>3, <1>5, <1>7 DEF Saved

LEMMA SaveBackedUpSaved ==
  ASSUME TypeOK, SnapshotsAreFaithful, NEW w \in Workers, SaveBackedUp(w)
  PROVE  Saved(w)
<1> DEFINE o == worker[w].op
           x == [worker[w].seen EXCEPT !.phase = "releasing_runtime"]
<1>1. /\ op[o] \in Operation /\ worker[w].seen = op[o] /\ o \in SleepOps /\ Active(o)
      /\ worker[w].step = "acted" /\ worker[w].task = "advance"
      /\ op[o].phase = "creating_backup"
  BY SaverHoldsOperation DEF SaveBackedUp, SaveOperation, At, TypeOK
<1>2. x \in Operation /\ x.version = worker[w].seen.version /\ x.status \in ActiveStatuses
  BY <1>1 DEF Operation, Active, Phases
<1>3. /\ SavesRows(w, o) /\ SavesStatus(o)
      /\ op'[o] = [x EXCEPT !.version = @ + 1]
  BY <1>1, <1>2, OperationSaved DEF SaveBackedUp
<1>4. /\ op'[o].runtime = op[o].runtime /\ op'[o].persisted = op[o].persisted
      /\ op'[o].phase = "releasing_runtime" /\ op'[o].attempt = op[o].attempt
      /\ op'[o].reservation = op[o].reservation
  BY <1>1, <1>3 DEF Operation
<1>5. SavesProgress(w, o)
  BY <1>1, <1>4, KeysAssumption DEF SavesProgress
<1>6. world' = world /\ op'[o].status = op[o].status
  BY <1>1, <1>3 DEF SaveBackedUp, SaveOperation, Operation
<1>7. SavesOutcome(w, o)
  BY <1>1, <1>4, <1>6, KeysAssumption DEF SavesOutcome, Active
<1> QED
  BY <1>3, <1>5, <1>7 DEF Saved

LEMMA SaveEffect ==
  ASSUME TypeOK, SnapshotsAreFaithful, NEW w \in Workers, SaveNext(w)
  PROVE  Saved(w)
BY NextPhaseSaved, SaveProvisionedSaved, SaveConfiguredSaved, SaveOnlineSaved,
   SaveFailedWakeSaved, SaveCancelledSleepSaved, SavePersistedSaved, SaveBackedUpSaved,
   SaveSleptSaved, SaveNeedsAttentionSaved, SaveRecoverySaved DEF SaveNext

-------------------------------------------------------------------------------
(* Type correctness, action by action. *)

EffectNext(w) ==
  \/ \E o \in Ops : LoadOperation(w, o)
  \/ LoadWorld(w) \/ InvocationFails(w)
  \/ Provision(w) \/ RunHostCommand(w) \/ PersistState(w) \/ CreateBackup(w)
  \/ ReleaseRuntime(w) \/ CaptureUsage(w) \/ ApplyWakeGuarantee(w) \/ CancelReservation(w)

LEMMA WorkerNextSplits ==
  ASSUME NEW w \in Workers, WorkerNext(w)
  PROVE  EffectNext(w) \/ SaveNext(w)
BY DEF WorkerNext, EffectNext, SaveNext

LEMMA RowTypes ==
  /\ NoOperation \in Operation /\ NewOperation \in Operation /\ NewWorld \in World
  /\ NewOperation.status = "pending" /\ NewOperation.runtime = None /\ ~NewOperation.persisted
  /\ NewOperation.phase = "requested" /\ NewOperation.version = 1
BY DEF NoOperation, NewOperation, NewWorld, Operation, World, ActiveStatuses, TerminalStatuses,
       Phases, WorldStatuses

\* Beginning an operation of this type, and of any other.
LEMMA BeginTypes ==
  ASSUME TypeOK, NEW k \in Ops, NEW s \in WorldStatuses, NEW x \in Operation,
         BeginOperation(k, s, x)
  PROVE  /\ op' \in [Ops -> Operation] /\ world' \in World
         /\ op' = [op EXCEPT ![k] = x]
         /\ world'.status = s /\ world'.version = world.version + 1
         /\ world'.stored = world.stored /\ world'.runtime = world.runtime
<1>1. op' = [op EXCEPT ![k] = x] /\ world' = [world EXCEPT !.status = s, !.version = @ + 1]
  BY DEF BeginOperation
<1>2. op' \in [Ops -> Operation]
  BY <1>1 DEF TypeOK
<1>3. world \in World
  BY DEF TypeOK
<1>4. [world EXCEPT !.status = s, !.version = @ + 1] \in World
  <2>1. ASSUME NEW r \in World, NEW v \in Nat
        PROVE  [r EXCEPT !.status = s, !.version = v] \in World
    BY DEF World
  <2>2. world.version + 1 \in Nat
    BY <1>3 DEF World
  <2> QED
    BY <1>3, <2>1, <2>2
<1>5. /\ world'.status = s /\ world'.version = world.version + 1
      /\ world'.stored = world.stored /\ world'.runtime = world.runtime
  BY <1>1, <1>3 DEF World
<1> QED
  BY <1>1, <1>2, <1>4, <1>5

\* A worker or a request that goes on to another step.
WorkerSteps == {"idle", "loaded", "ready", "acted", "released", "captured", "settled"}
RequestSteps ==
  {"idle", "reserve", "attach", "release_reservation", "fail_preflight", "dispatch"}

LEMMA WorkerTypes ==
  ASSUME TypeOK, NEW w \in Workers
  PROVE  /\ worker[w] \in Invocation
         /\ worker[w].seen \in Operation /\ worker[w].world \in World
         /\ worker[w].seen.runtime \in WakeOps \cup {None}
         /\ worker[w].seen.reservation \in WakeOps \cup {None}
         /\ worker[w].op \in Ops \cup {None} /\ worker[w].ok \in BOOLEAN
         /\ IdleWorker \in Invocation
BY RowTypes DEF TypeOK, Invocation, Operation, IdleWorker

LEMMA WorkerMoves ==
  ASSUME TypeOK, NEW w \in Workers, NEW i \in Invocation, worker' = [worker EXCEPT ![w] = i]
  PROVE  worker' \in [Workers -> Invocation]
BY DEF TypeOK

LEMMA ActedTypes ==
  ASSUME TypeOK, NEW w \in Workers, NEW s \in WorkerSteps, Acted(w, s)
  PROVE  worker' \in [Workers -> Invocation]
<1>1. [worker[w] EXCEPT !.step = s] \in Invocation
  BY WorkerTypes DEF Invocation, WorkerSteps
<1>2. worker' = [worker EXCEPT ![w] = [worker[w] EXCEPT !.step = s]]
  BY DEF Acted
<1> HIDE DEF Acted
<1> QED
  BY <1>1, <1>2, WorkerMoves

LEMMA AnsweredTypes ==
  ASSUME TypeOK, NEW w \in Workers, NEW b \in BOOLEAN,
         worker' = [worker EXCEPT ![w].step = "acted", ![w].ok = b]
  PROVE  worker' \in [Workers -> Invocation]
<1>1. [worker[w] EXCEPT !.step = "acted", !.ok = b] \in Invocation
  BY WorkerTypes DEF Invocation
<1>2. worker' = [worker EXCEPT ![w] = [worker[w] EXCEPT !.step = "acted", !.ok = b]]
  OBVIOUS
<1> QED
  BY <1>1, <1>2, WorkerMoves

LEMMA MoveTypes ==
  ASSUME TypeOK, NEW c \in Clients, NEW s \in RequestSteps, NEW o \in Ops \cup {None},
         Move(c, s, o)
  PROVE  client' \in [Clients -> Request]
BY DEF TypeOK, Move, Request, RequestSteps

LEMMA IdleTypes ==
  ASSUME TypeOK, NEW c \in Clients, client' = [client EXCEPT ![c] = IdleClient]
  PROVE  client' \in [Clients -> Request]
BY DEF TypeOK, IdleClient, Request

LEMMA ReadyTypes ==
  ASSUME NEW i \in Invocation, NEW x \in World
  PROVE  [i EXCEPT !.step = "ready", !.world = x] \in Invocation
BY DEF Invocation

LEMMA EffectTypes ==
  ASSUME TypeOK, SnapshotsAreFaithful, NEW w \in Workers, EffectNext(w)
  PROVE  TypeOK'
<1> USE DEF TypeOK, storage, billing
<1>0. worker[w].step # "idle" => worker[w].op \in Ops
  BY DEF SnapshotsAreFaithful, OperationIsFaithful
<1>1. CASE \E o \in Ops : LoadOperation(w, o)
  <2>1. PICK o \in Ops : LoadOperation(w, o)
    BY <1>1
  <2>2. ASSUME NEW t \in {"advance", "record_failure"}
        PROVE  [IdleWorker EXCEPT !.step = "loaded", !.op = o, !.seen = op[o], !.task = t]
                 \in Invocation
    BY RowTypes DEF IdleWorker, Invocation
  <2>3. worker' \in [Workers -> Invocation]
    BY <2>1, <2>2 DEF LoadOperation
  <2> QED
    BY <2>1, <2>3 DEF LoadOperation
<1>2. CASE LoadWorld(w)
  <2>0. worker[w] \in Invocation /\ world \in World
    OBVIOUS
  <2>1. [worker[w] EXCEPT !.step = "ready", !.world = world] \in Invocation
    BY <2>0, ReadyTypes
  <2>2. worker' = [worker EXCEPT ![w] = [worker[w] EXCEPT !.step = "ready", !.world = world]]
    BY <1>2 DEF LoadWorld
  <2> QED
    BY <1>2, <2>1, <2>2 DEF LoadWorld
<1>3. CASE InvocationFails(w)
  <2>1. worker[w].op \in Ops
    BY <1>0, <1>3 DEF InvocationFails
  <2>2. exec' \in [Ops -> {"none", "advancing", "recording", "failed", "done"}]
    BY <1>3, <2>1 DEF InvocationFails
  <2> QED
    BY <1>3, <2>2, WorkerTypes DEF InvocationFails
<1>4. CASE Provision(w)
  <2>1. worker' \in [Workers -> Invocation]
    BY <1>4, ActedTypes DEF Provision, WorkerSteps
  <2> QED
    BY <1>4, <2>1 DEF Provision, At
<1>5. CASE RunHostCommand(w)
  <2>1. worker' \in [Workers -> Invocation]
    BY <1>5, AnsweredTypes DEF RunHostCommand
  <2> QED
    BY <1>5, <2>1 DEF RunHostCommand
<1>6. CASE PersistState(w)
  <2>1. worker' \in [Workers -> Invocation]
    BY <1>6, AnsweredTypes DEF PersistState
  <2> QED
    BY <1>6, <2>1 DEF PersistState, At
<1>7. CASE CreateBackup(w)
  <2>1. worker' \in [Workers -> Invocation]
    BY <1>7, ActedTypes DEF CreateBackup, WorkerSteps
  <2> QED
    BY <1>7, <2>1 DEF CreateBackup, At
<1>8. CASE ReleaseRuntime(w)
  <2>1. worker' \in [Workers -> Invocation]
    BY <1>8, ActedTypes DEF ReleaseRuntime, WorkerSteps
  <2> QED
    BY <1>8, <2>1 DEF ReleaseRuntime
<1>9. CASE CaptureUsage(w)
  <2>1. worker' \in [Workers -> Invocation]
    BY <1>9, ActedTypes DEF CaptureUsage, WorkerSteps
  <2>2. worker[w].op \in Ops
    BY <1>0, <1>9 DEF CaptureUsage
  <2>3. /\ usage' \subseteq Ops
        /\ reservation' \in [WakeOps -> {"none", "active", "captured", "released"}]
    BY <1>9, <2>2 DEF CaptureUsage
  <2> QED
    BY <1>9, <2>1, <2>3 DEF CaptureUsage
<1>10. CASE ApplyWakeGuarantee(w)
  <2>1. worker' \in [Workers -> Invocation]
    BY <1>10, ActedTypes DEF ApplyWakeGuarantee, WorkerSteps
  <2>2. worker[w].op \in Ops
    BY <1>0, <1>10 DEF ApplyWakeGuarantee
  <2> QED
    BY <1>10, <2>1, <2>2 DEF ApplyWakeGuarantee
<1>11. CASE CancelReservation(w)
  <2>1. worker' \in [Workers -> Invocation]
    BY <1>11, ActedTypes DEF CancelReservation, WorkerSteps
  <2>2. reservation' \in [WakeOps -> {"none", "active", "captured", "released"}]
    BY <1>11 DEF CancelReservation
  <2> QED
    BY <1>11, <2>1, <2>2 DEF CancelReservation
<1> QED
  BY <1>1, <1>2, <1>3, <1>4, <1>5, <1>6, <1>7, <1>8, <1>9, <1>10, <1>11 DEF EffectNext

LEMMA SaveTypes ==
  ASSUME TypeOK, SnapshotsAreFaithful, NEW w \in Workers, SaveNext(w)
  PROVE  TypeOK'
<1>1. SavesRows(w, worker[w].op)
  BY SaveEffect DEF Saved
<1>2. op' \in [Ops -> Operation]
  BY <1>1 DEF SavesRows, TypeOK
<1>3. exec' \in [Ops -> {"none", "advancing", "recording", "failed", "done"}]
  BY <1>1 DEF SavesRows, TypeOK
<1> QED
  BY <1>1, <1>2, <1>3, WorkerTypes DEF SavesRows, TypeOK, storage, billing

\* What a wake request holds when it has not begun an operation itself.
LEMMA JoinedIsKnown ==
  ASSUME TypeOK, NEW k \in Ops, NEW o \in Joined(k)
  PROVE  o \in Ops /\ op[o].status # "absent"
BY DEF Joined, Active, ActiveStatuses

LEMMA RequestTypes ==
  ASSUME TypeOK, RequestsHoldOperations, NEW c \in Clients, ClientNext(c)
  PROVE  TypeOK'
<1> USE DEF TypeOK, storage, billing
<1>1. ASSUME NEW k \in WakeOps, RequestWake(c, k) PROVE TypeOK'
  <2>1. k \in Ops /\ "waking" \in WorldStatuses
    BY DEF Ops, WorldStatuses
  <2>2. op' \in [Ops -> Operation] /\ world' \in World
    BY <1>1, <2>1, RowTypes, BeginTypes DEF RequestWake
  <2>3. PICK s \in RequestSteps, o \in Ops : Move(c, s, o)
    BY <1>1, <2>1, JoinedIsKnown DEF RequestWake, RequestSteps
  <2>4. client' \in [Clients -> Request]
    BY <2>3, MoveTypes
  <2> QED
    BY <1>1, <2>2, <2>4 DEF RequestWake
<1>2. CASE Reserve(c)
  <2>1. client[c].op \in WakeOps /\ client[c].op \in Ops
    BY <1>2 DEF Reserve, RequestsHoldOperations, Ops
  <2>2. client' \in [Clients -> Request]
    BY <1>2, <2>1, MoveTypes DEF Reserve, RequestSteps
  <2> QED
    BY <1>2, <2>1, <2>2 DEF Reserve
<1>3. CASE ReserveFails(c)
  <2>1. client[c].op \in Ops
    BY <1>3 DEF ReserveFails, RequestsHoldOperations, Ops
  <2>2. client' \in [Clients -> Request]
    BY <1>3, <2>1, MoveTypes DEF ReserveFails, RequestSteps
  <2> QED
    BY <1>3, <2>2 DEF ReserveFails
<1>4. CASE AttachBillingSession(c)
  <2>1. client[c].op \in WakeOps /\ client[c].op \in Ops
    BY <1>4 DEF AttachBillingSession, RequestsHoldOperations, Ops
  <2>2. op' \in [Ops -> Operation] /\ world' \in World
    BY <1>4, <2>1 DEF AttachBillingSession, Operation, World
  <2>3. client' \in [Clients -> Request]
    BY <1>4, <2>1, MoveTypes DEF AttachBillingSession, RequestSteps
  <2> QED
    BY <1>4, <2>2, <2>3 DEF AttachBillingSession
<1>5. CASE AttachFails(c)
  <2>1. client[c].op \in Ops
    BY <1>5 DEF AttachFails, RequestsHoldOperations, Ops
  <2>2. client' \in [Clients -> Request]
    BY <1>5, <2>1, MoveTypes DEF AttachFails, RequestSteps
  <2> QED
    BY <1>5, <2>2 DEF AttachFails
<1>6. CASE ReleaseReservation(c)
  <2>1. client[c].op \in WakeOps /\ client[c].op \in Ops
    BY <1>6 DEF ReleaseReservation, RequestsHoldOperations, Ops
  <2>2. client' \in [Clients -> Request]
    BY <1>6, <2>1, MoveTypes DEF ReleaseReservation, RequestSteps
  <2> QED
    BY <1>6, <2>1, <2>2 DEF ReleaseReservation
<1>7. CASE FailWakePreflight(c)
  <2>1. client[c].op \in Ops
    BY <1>7 DEF FailWakePreflight, RequestsHoldOperations, Ops
  <2>2. op' \in [Ops -> Operation] /\ world' \in World
    BY <1>7, <2>1 DEF FailWakePreflight, Operation, World, TerminalStatuses, WorldStatuses, Phases
  <2>3. client' \in [Clients -> Request]
    BY <1>7, IdleTypes DEF FailWakePreflight
  <2> QED
    BY <1>7, <2>2, <2>3 DEF FailWakePreflight
<1>8. CASE Dispatch(c)
  <2>1. exec' \in [Ops -> {"none", "advancing", "recording", "failed", "done"}]
    BY <1>8 DEF Dispatch, StartExecution, RequestsHoldOperations
  <2>2. client' \in [Clients -> Request]
    BY <1>8, IdleTypes DEF Dispatch
  <2> QED
    BY <1>8, <2>1, <2>2 DEF Dispatch
<1>9. CASE RequestEnds(c)
  <2>1. client' \in [Clients -> Request]
    BY <1>9, IdleTypes DEF RequestEnds
  <2> QED
    BY <1>9, <2>1 DEF RequestEnds
<1>10. ASSUME NEW k \in SleepOps, NEW force \in BOOLEAN, RequestSleep(c, k, force) PROVE TypeOK'
  <2>1. k \in Ops /\ "going_to_sleep" \in WorldStatuses
    BY DEF Ops, WorldStatuses
  <2>2. [NewOperation EXCEPT !.runtime = world.runtime, !.reservation = world.reservation,
                             !.started = world.started, !.force = force] \in Operation
    BY RowTypes DEF Operation, World
  <2>3. op' \in [Ops -> Operation] /\ world' \in World
    BY <1>10, <2>1, <2>2, BeginTypes DEF RequestSleep
  <2>4. PICK o \in Ops : Move(c, "dispatch", o)
    BY <1>10, <2>1, JoinedIsKnown DEF RequestSleep
  <2>5. client' \in [Clients -> Request]
    BY <2>4, MoveTypes DEF RequestSteps
  <2> QED
    BY <1>10, <2>3, <2>5 DEF RequestSleep
<1> QED
  BY <1>1, <1>2, <1>3, <1>4, <1>5, <1>6, <1>7, <1>8, <1>9, <1>10 DEF ClientNext

LEMMA RecoveriesAreCounted ==
  ASSUME TypeOK
  PROVE  Cardinality(RecentRecoveries) \in Nat
<1>1. RecentRecoveries \subseteq RecoverOps
  BY DEF RecentRecoveries
<1>2. IsFiniteSet(RecentRecoveries)
  BY <1>1, FinitelyManyRecoveries, FS_Subset
<1> QED
  BY <1>2, FS_CardinalityType

LEMMA RecoveryTypes ==
  ASSUME TypeOK, NEW k \in RecoverOps, RequestAutomaticRecovery(k)
  PROVE  /\ [NewOperation EXCEPT !.runtime = world.runtime,
                                 !.attempt = Cardinality(RecentRecoveries) + 1] \in Operation
         /\ TypeOK'
<1> DEFINE x == [NewOperation EXCEPT !.runtime = world.runtime,
                                     !.attempt = Cardinality(RecentRecoveries) + 1]
<1>1. k \in Ops /\ "waking" \in WorldStatuses
  BY DEF Ops, WorldStatuses
<1>2. x \in Operation
  <2>1. world.runtime \in WakeOps \cup {None} /\ Cardinality(RecentRecoveries) + 1 \in Nat
    BY RecoveriesAreCounted DEF TypeOK, World
  <2> QED
    BY <2>1, RowTypes DEF Operation
<1>3. BeginOperation(k, "waking", x)
  BY DEF RequestAutomaticRecovery
<1> HIDE DEF x
<1>4. op' \in [Ops -> Operation] /\ world' \in World
  BY <1>1, <1>2, <1>3, BeginTypes
<1>5. TypeOK'
  BY <1>4 DEF RequestAutomaticRecovery, TypeOK, storage, billing
<1> QED
  BY <1>2, <1>5 DEF x

LEMMA EnvironmentTypes ==
  ASSUME TypeOK,
         EditWorld \/ (\E o \in Ops : Reconcile(o)) \/ (\E o \in RecoverOps : RecoveryAges(o))
  PROVE  TypeOK'
<1> USE DEF TypeOK, storage, billing
<1>1. CASE EditWorld
  <2>1. PICK pending \in BOOLEAN :
          world' = [world EXCEPT !.pending = pending, !.version = world.version + 1]
    BY <1>1 DEF EditWorld, World
  <2>2. ASSUME NEW r \in World, NEW v \in Nat
        PROVE  [r EXCEPT !.pending = pending, !.version = v] \in World
    BY DEF World
  <2>3. world' \in World
    <3>1. world \in World /\ world.version + 1 \in Nat
      BY DEF World
    <3> QED
      BY <2>1, <2>2, <3>1
  <2> QED
    BY <1>1, <2>3 DEF EditWorld
<1>2. CASE \E o \in Ops : Reconcile(o)
  BY <1>2 DEF Reconcile
<1>3. CASE \E o \in RecoverOps : RecoveryAges(o)
  BY <1>3 DEF RecoveryAges
<1> QED
  BY <1>1, <1>2, <1>3

LEMMA TypeStep ==
  ASSUME TypeOK, RequestsHoldOperations, SnapshotsAreFaithful, [Next]_vars
  PROVE  TypeOK'
<1>1. CASE UNCHANGED vars
  BY <1>1 DEF TypeOK, vars, storage, billing
<1>2. CASE Next
  BY <1>2, RequestTypes, WorkerNextSplits, EffectTypes, SaveTypes, RecoveryTypes,
     EnvironmentTypes DEF Next
<1> QED
  BY <1>1, <1>2

-------------------------------------------------------------------------------
(* How a step that is not a worker's changes the rows. *)

\* The rows a worker compares keep growing versions.
WorldMoves == world' = world \/ world'.version = world.version + 1

WorkersUntouched == UNCHANGED <<worker, runtime, storage, usage, guaranteed>>

\* No operation changes, nor the status of the World or its Runtime.
Quiet ==
  /\ op' = op /\ world'.status = world.status
  /\ world'.stored = world.stored /\ world'.runtime = world.runtime
  /\ WorldMoves /\ WorkersUntouched

\* An operation that did not exist begins while no other is active.
Begins(k) ==
  /\ op[k].status = "absent" /\ \A o \in Ops : ~Active(o)
  /\ \E x \in Operation :
       /\ op' = [op EXCEPT ![k] = x]
       /\ x.status = "pending" /\ x.version = 1 /\ ~x.persisted /\ x.phase = "requested"
       /\ x.runtime \in {None, world.runtime}
       /\ k \in WakeOps => x.runtime = None
  /\ world'.status = IF k \in SleepOps THEN "going_to_sleep" ELSE "waking"
  /\ k \in SleepOps => world.status = "online"
  /\ k \in RecoverOps => world.status \in {"online", "waking"}
  /\ world'.stored = world.stored /\ world'.runtime = world.runtime
  /\ WorldMoves /\ WorkersUntouched

\* A wake gets its reservation.
Attaches(k) ==
  /\ op[k].status # "absent" /\ op[k].reservation = None
  /\ op' = [op EXCEPT ![k].reservation = k, ![k].version = @ + 1]
  /\ world'.status = world.status
  /\ world'.stored = world.stored /\ world'.runtime = world.runtime
  /\ WorldMoves /\ WorkersUntouched

\* A wake fails in its preflight.
FailsPreflight(k) ==
  /\ Active(k)
  /\ op' = [op EXCEPT ![k].status = "failed", ![k].phase = "complete", ![k].version = @ + 1]
  /\ world'.status = "sleeping"
  /\ world'.stored = world.stored /\ world'.runtime = world.runtime
  /\ WorldMoves /\ WorkersUntouched

RowsStep ==
  \/ Quiet
  \/ \E k \in Ops : Begins(k)
  \/ \E k \in WakeOps : Attaches(k) \/ FailsPreflight(k)
  \/ \E w \in Workers : EffectNext(w) \/ Saved(w)

LEMMA RequestRows ==
  ASSUME TypeOK, RequestsHoldOperations, NEW c \in Clients, ClientNext(c)
  PROVE  Quiet \/ (\E k \in Ops : Begins(k)) \/ (\E k \in WakeOps : Attaches(k) \/ FailsPreflight(k))
<1> USE DEF storage, billing, WorldMoves, WorkersUntouched
<1>1. ASSUME NEW k \in WakeOps, RequestWake(c, k)
      PROVE  Quiet \/ Begins(k)
  <2>1. k \in Ops /\ k \notin SleepOps /\ k \notin RecoverOps /\ "waking" \in WorldStatuses
    BY KeysAssumption DEF Ops, WorldStatuses
  <2>2. CASE BeginOperation(k, "waking", NewOperation)
    <3>1. Begins(k)
      BY <1>1, <2>1, <2>2, RowTypes, BeginTypes DEF RequestWake, Begins, BeginOperation
    <3> QED
      BY <3>1
  <2>3. CASE UNCHANGED <<world, op>>
    BY <1>1, <2>3 DEF RequestWake, Quiet
  <2> QED
    BY <1>1, <2>2, <2>3 DEF RequestWake
<1>2. CASE Reserve(c) \/ ReserveFails(c) \/ AttachFails(c) \/ ReleaseReservation(c)
           \/ Dispatch(c) \/ RequestEnds(c)
  BY <1>2 DEF Quiet, Reserve, ReserveFails, AttachFails, ReleaseReservation, Dispatch, RequestEnds
<1>3. CASE AttachBillingSession(c)
  <2>1. client[c].op \in WakeOps /\ op[client[c].op].status # "absent"
    BY <1>3 DEF AttachBillingSession, RequestsHoldOperations
  <2>2. CASE UNCHANGED <<world, op>>
    BY <1>3, <2>2 DEF AttachBillingSession, Quiet
  <2>3. CASE ~UNCHANGED <<world, op>>
    <3>1. world' = [world EXCEPT !.reservation = client[c].op, !.version = @ + 1]
      BY <1>3, <2>3 DEF AttachBillingSession
    <3>2. /\ world'.status = world.status /\ world'.stored = world.stored
          /\ world'.version = world.version + 1 /\ world'.runtime = world.runtime
      BY <3>1 DEF TypeOK, World
    <3>3. Attaches(client[c].op)
      BY <1>3, <2>1, <2>3, <3>2 DEF AttachBillingSession, Attaches
    <3> QED
      BY <2>1, <3>3
  <2> QED
    BY <2>2, <2>3
<1>4. CASE FailWakePreflight(c)
  <2>1. client[c].op \in WakeOps
    BY <1>4 DEF FailWakePreflight, RequestsHoldOperations
  <2>2. CASE Active(client[c].op)
    <3>1. world' = [world EXCEPT !.status = "sleeping", !.reservation = None,
                                 !.started = FALSE, !.version = @ + 1]
      BY <1>4, <2>2 DEF FailWakePreflight
    <3>2. /\ world'.status = "sleeping" /\ world'.stored = world.stored
          /\ world'.version = world.version + 1 /\ world'.runtime = world.runtime
      BY <3>1 DEF TypeOK, World
    <3>3. FailsPreflight(client[c].op)
      BY <1>4, <2>2, <3>2 DEF FailWakePreflight, FailsPreflight
    <3> QED
      BY <2>1, <3>3
  <2>3. CASE ~Active(client[c].op)
    BY <1>4, <2>3 DEF FailWakePreflight, Quiet
  <2> QED
    BY <2>2, <2>3
<1>5. ASSUME NEW k \in SleepOps, NEW force \in BOOLEAN, RequestSleep(c, k, force)
      PROVE  Quiet \/ Begins(k)
  <2> DEFINE x == [NewOperation EXCEPT !.runtime = world.runtime,
                     !.reservation = world.reservation, !.started = world.started,
                     !.force = force]
  <2>1. k \in Ops /\ k \notin WakeOps /\ k \notin RecoverOps /\ "going_to_sleep" \in WorldStatuses
    BY KeysAssumption DEF Ops, WorldStatuses
  <2>2. /\ x \in Operation /\ x.status = "pending" /\ x.version = 1 /\ ~x.persisted
        /\ x.phase = "requested" /\ x.runtime = world.runtime
    BY RowTypes DEF Operation, TypeOK, World
  <2>3. CASE BeginOperation(k, "going_to_sleep", x)
    <3> HIDE DEF x
    <3>1. Begins(k)
      BY <1>5, <2>1, <2>2, <2>3, BeginTypes DEF RequestSleep, Begins, BeginOperation
    <3> QED
      BY <3>1
  <2>4. CASE UNCHANGED <<world, op>>
    BY <1>5, <2>4 DEF RequestSleep, Quiet
  <2> QED
    BY <1>5, <2>3, <2>4 DEF RequestSleep
<1> QED
  BY <1>1, <1>2, <1>3, <1>4, <1>5 DEF ClientNext, Ops

LEMMA RecoveryRows ==
  ASSUME TypeOK, NEW k \in RecoverOps, RequestAutomaticRecovery(k)
  PROVE  k \in Ops /\ Begins(k)
<1> DEFINE x == [NewOperation EXCEPT !.runtime = world.runtime,
                                     !.attempt = Cardinality(RecentRecoveries) + 1]
<1>1. k \in Ops /\ k \notin WakeOps /\ k \notin SleepOps /\ "waking" \in WorldStatuses
  BY KeysAssumption DEF Ops, WorldStatuses
<1>2. x \in Operation
  BY RecoveryTypes
<1>3. /\ x.status = "pending" /\ x.version = 1 /\ ~x.persisted /\ x.phase = "requested"
      /\ x.runtime = world.runtime
  BY RowTypes DEF Operation
<1>4. BeginOperation(k, "waking", x) /\ world.status \in {"online", "waking"}
  BY DEF RequestAutomaticRecovery
<1> HIDE DEF x
<1>5. /\ op' = [op EXCEPT ![k] = x] /\ world'.status = "waking"
      /\ world'.stored = world.stored /\ world'.runtime = world.runtime
      /\ world'.version = world.version + 1
  BY <1>1, <1>2, <1>4, BeginTypes
<1> QED
  BY <1>1, <1>2, <1>3, <1>4, <1>5
  DEF Begins, BeginOperation, RequestAutomaticRecovery, WorldMoves, WorkersUntouched, storage,
      billing

LEMMA EnvironmentRows ==
  ASSUME TypeOK,
         EditWorld \/ (\E o \in Ops : Reconcile(o)) \/ (\E o \in RecoverOps : RecoveryAges(o))
  PROVE  Quiet
<1> USE DEF storage, billing, WorldMoves, WorkersUntouched, Quiet
<1>1. CASE EditWorld
  <2>1. PICK pending \in BOOLEAN :
          world' = [world EXCEPT !.pending = pending, !.version = world.version + 1]
    BY <1>1 DEF EditWorld, TypeOK, World
  <2>2. /\ world'.status = world.status /\ world'.stored = world.stored
        /\ world'.version = world.version + 1 /\ world'.runtime = world.runtime
    BY <2>1 DEF TypeOK, World
  <2> QED
    BY <1>1, <2>2 DEF EditWorld
<1>2. CASE (\E o \in Ops : Reconcile(o)) \/ (\E o \in RecoverOps : RecoveryAges(o))
  BY <1>2 DEF Reconcile, RecoveryAges
<1> QED
  BY <1>1, <1>2

LEMMA NextRows ==
  ASSUME TypeOK, RequestsHoldOperations, SnapshotsAreFaithful, [Next]_vars
  PROVE  RowsStep
<1>1. CASE UNCHANGED vars
  BY <1>1 DEF vars, storage, billing, RowsStep, Quiet, WorldMoves, WorkersUntouched
<1>2. ASSUME NEW c \in Clients, ClientNext(c) PROVE RowsStep
  BY <1>2, RequestRows DEF RowsStep
<1>3. ASSUME NEW w \in Workers, WorkerNext(w) PROVE RowsStep
  BY <1>3, WorkerNextSplits, SaveEffect DEF RowsStep
<1>4. ASSUME NEW k \in RecoverOps, RequestAutomaticRecovery(k) PROVE RowsStep
  BY <1>4, RecoveryRows DEF RowsStep
<1>5. ASSUME EditWorld \/ (\E o \in Ops : Reconcile(o)) \/ (\E o \in RecoverOps : RecoveryAges(o))
      PROVE  RowsStep
  BY <1>5, EnvironmentRows DEF RowsStep
<1> QED
  BY <1>1, <1>2, <1>3, <1>4, <1>5 DEF Next

-------------------------------------------------------------------------------
(* The inductive invariant, part by part.  Each part is preserved by each kind of row *)
(* step; an effect of a worker changes no row.                                         *)

LEMMA EffectRows ==
  ASSUME NEW w \in Workers, EffectNext(w)
  PROVE  UNCHANGED <<world, op, client>>
BY DEF EffectNext, LoadOperation, LoadWorld, InvocationFails, Provision, RunHostCommand,
       PersistState, CreateBackup, ReleaseRuntime, CaptureUsage, ApplyWakeGuarantee,
       CancelReservation

LEMMA OperationTypes ==
  ASSUME TypeOK, NEW o \in Ops
  PROVE  /\ op[o] \in Operation
         /\ op[o].version \in Nat /\ op[o].persisted \in BOOLEAN /\ op[o].phase \in Phases
         /\ op[o].status \in ActiveStatuses \cup TerminalStatuses \cup {"absent"}
BY DEF TypeOK, Operation

\* What a save does to each row.
LEMMA SavedRows ==
  ASSUME TypeOK, NEW w \in Workers, Saved(w)
  PROVE  LET o == worker[w].op IN
           /\ o \in Ops /\ Active(o) /\ worker[w].seen = op[o]
           /\ op'[o].version = op[o].version + 1 /\ op'[o].status # "absent"
           /\ \A p \in Ops \ {o} : op'[p] = op[p]
           /\ worker[w].step # "idle"
           /\ worker' = [worker EXCEPT ![w] = IdleWorker]
BY DEF Saved, SavesRows, TypeOK

\* What a reservation attached or a failed preflight does to each row.
LEMMA PreflightRows ==
  ASSUME TypeOK, NEW k \in WakeOps, Attaches(k) \/ FailsPreflight(k)
  PROVE  /\ k \in Ops
         /\ op'[k].version = op[k].version + 1
         /\ op'[k].runtime = op[k].runtime /\ op'[k].persisted = op[k].persisted
         /\ op'[k].status # "absent" /\ op[k].status # "absent"
         /\ op'[k].status \in {op[k].status, "failed"}
         /\ \A o \in Ops \ {k} : op'[o] = op[o]
         /\ WorkersUntouched
<1>1. k \in Ops
  BY DEF Ops
<1>2. op[k] \in Operation
  BY <1>1, OperationTypes
<1> QED
  BY <1>1, <1>2 DEF TypeOK, Operation, Attaches, FailsPreflight, Active, ActiveStatuses

LEMMA BegunRows ==
  ASSUME TypeOK, NEW k \in Ops, Begins(k)
  PROVE  /\ op[k].status = "absent" /\ op'[k].status = "pending" /\ op'[k].version = 1
         /\ ~op'[k].persisted /\ op'[k].phase = "requested"
         /\ k \in WakeOps => op'[k].runtime = None
         /\ \A o \in Ops \ {k} : op'[o] = op[o]
         /\ \A o \in Ops : ~Active(o)
         /\ WorkersUntouched
BY DEF TypeOK, Begins

LEMMA RowsExistStep ==
  ASSUME TypeOK, RowsExist, RowsStep
  PROVE  RowsExist'
<1> SUFFICES ASSUME NEW o \in Ops
             PROVE  /\ op'[o].status = "absent" => op'[o] = NoOperation
                    /\ op'[o].status # "absent" => op'[o].version > 0
  BY DEF RowsExist
<1> USE DEF RowsExist
<1>1. CASE Quiet \/ \E w \in Workers : EffectNext(w)
  BY <1>1, EffectRows DEF Quiet
<1>2. ASSUME NEW k \in Ops, Begins(k)
      PROVE  (op'[o].status # "absent" /\ op'[o].version > 0) \/ op'[o] = op[o]
  BY <1>2, BegunRows
<1>3. ASSUME NEW k \in WakeOps, Attaches(k) \/ FailsPreflight(k)
      PROVE  (op'[o].status # "absent" /\ op'[o].version > 0) \/ op'[o] = op[o]
  BY <1>3, PreflightRows, OperationTypes
<1>4. ASSUME NEW w \in Workers, Saved(w)
      PROVE  (op'[o].status # "absent" /\ op'[o].version > 0) \/ op'[o] = op[o]
  BY <1>4, SavedRows, OperationTypes
<1> QED
  BY <1>1, <1>2, <1>3, <1>4 DEF RowsStep

\* Once an operation exists its row never disappears.
LEMMA RowsRemain ==
  ASSUME TypeOK, RowsStep, NEW o \in Ops, op[o].status # "absent"
  PROVE  op'[o].status # "absent"
<1>1. CASE Quiet \/ \E w \in Workers : EffectNext(w)
  BY <1>1, EffectRows DEF Quiet
<1>2. ASSUME NEW k \in Ops, Begins(k) PROVE op'[o].status # "absent"
  BY <1>2, BegunRows
<1>3. ASSUME NEW k \in WakeOps, Attaches(k) \/ FailsPreflight(k) PROVE op'[o].status # "absent"
  BY <1>3, PreflightRows
<1>4. ASSUME NEW w \in Workers, Saved(w) PROVE op'[o].status # "absent"
  BY <1>4, SavedRows
<1> QED
  BY <1>1, <1>2, <1>3, <1>4 DEF RowsStep

LEMMA OneActiveStep ==
  ASSUME TypeOK, OneActiveOperation, RowsStep
  PROVE  OneActiveOperation'
<1> SUFFICES ASSUME NEW a \in Ops, NEW b \in Ops, Active(a)', Active(b)'
             PROVE  a = b
  BY DEF OneActiveOperation
<1> USE DEF OneActiveOperation, Active
<1>1. CASE Quiet \/ \E w \in Workers : EffectNext(w)
  BY <1>1, EffectRows DEF Quiet
<1>2. ASSUME NEW k \in Ops, Begins(k) PROVE a = b
  BY <1>2, BegunRows
<1>3. ASSUME NEW k \in WakeOps, Attaches(k) \/ FailsPreflight(k) PROVE a = b
  BY <1>3, PreflightRows DEF ActiveStatuses
<1>4. ASSUME NEW w \in Workers, Saved(w) PROVE a = b
  BY <1>4, SavedRows
<1> QED
  BY <1>1, <1>2, <1>3, <1>4 DEF RowsStep

LEMMA RuntimesAreOwnedStep ==
  ASSUME TypeOK, RuntimesAreOwned, RowsStep
  PROVE  RuntimesAreOwned'
<1> SUFFICES ASSUME NEW o \in WakeOps, op'[o].runtime # None
             PROVE  op'[o].runtime = o
  BY DEF RuntimesAreOwned
<1> USE DEF RuntimesAreOwned
<1>0. o \in Ops
  BY DEF Ops
<1>1. CASE Quiet \/ \E w \in Workers : EffectNext(w)
  BY <1>1, EffectRows DEF Quiet
<1>2. ASSUME NEW k \in Ops, Begins(k) PROVE op'[o].runtime = o
  BY <1>0, <1>2, BegunRows
<1>3. ASSUME NEW k \in WakeOps, Attaches(k) \/ FailsPreflight(k) PROVE op'[o].runtime = o
  BY <1>0, <1>3, PreflightRows
<1>4. ASSUME NEW w \in Workers, Saved(w) PROVE op'[o].runtime = o
  BY <1>0, <1>4, SavedRows DEF Saved, SavesProgress
<1> QED
  BY <1>1, <1>2, <1>3, <1>4 DEF RowsStep

\* The World follows its operations: by kinds of step as above.
LEMMA TransitionsStep ==
  ASSUME TypeOK, OneActiveOperation, TransitionsAreOwned, RowsStep
  PROVE  TransitionsAreOwned'
<1> USE DEF Active
<1>1. CASE Quiet \/ \E w \in Workers : EffectNext(w)
  BY <1>1, EffectRows DEF Quiet, TransitionsAreOwned
<1>2. ASSUME NEW k \in Ops, Begins(k) PROVE TransitionsAreOwned'
  <2>1. /\ world'.status = IF k \in SleepOps THEN "going_to_sleep" ELSE "waking"
        /\ op'[k].status \in ActiveStatuses
        /\ \A o \in Ops \ {k} : op'[o].status \notin ActiveStatuses
    BY <1>2, BegunRows DEF Begins, ActiveStatuses
  <2> QED
    BY <2>1, KeysAssumption DEF TransitionsAreOwned, Ops
<1>3. ASSUME NEW k \in WakeOps, Attaches(k) PROVE TransitionsAreOwned'
  <2>1. /\ world'.status = world.status
        /\ \A o \in Ops : op'[o].status = op[o].status
    BY <1>3 DEF Attaches, TypeOK, Operation
  <2> QED
    BY <2>1 DEF TransitionsAreOwned, Ops
<1>4. ASSUME NEW k \in WakeOps, FailsPreflight(k) PROVE TransitionsAreOwned'
  <2>1. /\ world'.status = "sleeping" /\ k \in Ops
        /\ \A o \in Ops : op'[o].status \notin ActiveStatuses
    BY <1>4 DEF FailsPreflight, TypeOK, Operation, OneActiveOperation, ActiveStatuses, Ops
  <2> QED
    BY <2>1 DEF TransitionsAreOwned, Ops
<1>5. ASSUME NEW w \in Workers, Saved(w) PROVE TransitionsAreOwned'
  <2> DEFINE o == worker[w].op
  <2>1. /\ o \in Ops /\ op[o].status \in ActiveStatuses
        /\ \A p \in Ops \ {o} : op'[p] = op[p] /\ op[p].status \notin ActiveStatuses
    BY <1>5, SavedRows DEF OneActiveOperation
  <2>2. SavesStatus(o)
    BY <1>5 DEF Saved
  <2> HIDE DEF o
  <2>3. CASE op'[o].status \in ActiveStatuses /\ world'.status = world.status
    BY <2>1, <2>3, KeysAssumption DEF TransitionsAreOwned, Ops, ActiveStatuses
  <2>4. CASE /\ op'[o].status \in TerminalStatuses
             /\ world'.status \in {"online", "needs_attention", "sleeping"}
    BY <2>1, <2>4 DEF TransitionsAreOwned, Ops, ActiveStatuses, TerminalStatuses
  <2>5. CASE o \in RecoverOps /\ op'[o].status = "failed" /\ world'.status = "waking"
    BY <2>1, <2>5 DEF TransitionsAreOwned, Ops, ActiveStatuses
  <2> QED
    BY <2>2, <2>3, <2>4, <2>5 DEF SavesStatus
<1> QED
  BY <1>1, <1>2, <1>3, <1>4, <1>5 DEF RowsStep

\* A request holds an operation that exists, and never loses it.
LEMMA RequestsStep ==
  ASSUME TypeOK, RequestsHoldOperations, SnapshotsAreFaithful, RowsStep, [Next]_vars
  PROVE  RequestsHoldOperations'
<1> DEFINE Holds(x) ==
      /\ x.step \in {"reserve", "attach", "release_reservation", "fail_preflight"} =>
           x.op \in WakeOps /\ op'[x.op].status # "absent"
      /\ x.step = "dispatch" => x.op \in Ops
<1>1. \A c \in Clients : Holds(client[c])
  BY RowsRemain DEF RequestsHoldOperations, Ops
<1>2. CASE UNCHANGED client
  BY <1>1, <1>2 DEF RequestsHoldOperations
<1>3. ASSUME NEW c \in Clients, ClientNext(c)
      PROVE  \E x : Holds(x) /\ client' = [client EXCEPT ![c] = x]
  <2>1. ASSUME NEW k \in WakeOps, RequestWake(c, k)
        PROVE  \E x : Holds(x) /\ client' = [client EXCEPT ![c] = x]
    <3>1. k \in Ops
      BY DEF Ops
    <3>2. CASE BeginOperation(k, "waking", NewOperation) /\ Move(c, "reserve", k)
      <4>1. op'[k].status # "absent"
        BY <3>1, <3>2, RowTypes DEF BeginOperation, TypeOK
      <4> QED
        BY <3>2, <4>1 DEF Move
    <3>3. CASE \E o \in Joined(k) :
                 /\ o = k \/ op[o].reservation # None
                 /\ Move(c, IF op[o].reservation = None THEN "reserve" ELSE "dispatch", o)
      <4>1. PICK o \in Joined(k) :
                 /\ o = k \/ op[o].reservation # None
                 /\ Move(c, IF op[o].reservation = None THEN "reserve" ELSE "dispatch", o)
        BY <3>3
      <4>2. o \in Ops /\ op'[o].status # "absent"
        BY <3>1, JoinedIsKnown, RowsRemain
      <4>3. CASE op[o].reservation = None
        <5>1. client' = [client EXCEPT ![c] = [step |-> "reserve", op |-> k]] /\ o = k
          BY <4>1, <4>3 DEF Move
        <5> QED
          BY <4>2, <5>1
      <4>4. CASE op[o].reservation # None
        <5>1. client' = [client EXCEPT ![c] = [step |-> "dispatch", op |-> o]]
          BY <4>1, <4>4 DEF Move
        <5> QED
          BY <4>2, <5>1
      <4> QED
        BY <4>3, <4>4
    <3> QED
      BY <2>1, <3>2, <3>3 DEF RequestWake
  <2>2. CASE Reserve(c) \/ ReserveFails(c) \/ AttachBillingSession(c) \/ AttachFails(c)
             \/ ReleaseReservation(c)
    <3>1. /\ client[c].op \in WakeOps /\ op'[client[c].op].status # "absent"
          /\ client[c].op \in Ops
      BY <1>1, <2>2 DEF Reserve, ReserveFails, AttachBillingSession, AttachFails,
                        ReleaseReservation, Ops
    <3> QED
      BY <2>2, <3>1 DEF Reserve, ReserveFails, AttachBillingSession, AttachFails,
                        ReleaseReservation, Move
  <2>3. CASE FailWakePreflight(c) \/ Dispatch(c) \/ RequestEnds(c)
    BY <2>3 DEF FailWakePreflight, Dispatch, RequestEnds, IdleClient
  <2>4. ASSUME NEW k \in SleepOps, NEW force \in BOOLEAN, RequestSleep(c, k, force)
        PROVE  \E x : Holds(x) /\ client' = [client EXCEPT ![c] = x]
    <3>1. PICK o \in Ops : Move(c, "dispatch", o)
      BY <2>4, JoinedIsKnown DEF RequestSleep, Ops
    <3> QED
      BY <3>1 DEF Move
  <2> QED
    BY <1>3, <2>1, <2>2, <2>3, <2>4 DEF ClientNext
<1>4. ASSUME NEW c \in Clients, ClientNext(c) PROVE RequestsHoldOperations'
  <2>1. PICK x : Holds(x) /\ client' = [client EXCEPT ![c] = x]
    BY <1>3, <1>4
  <2>2. \A d \in Clients : client'[d] = IF d = c THEN x ELSE client[d]
    BY <2>1 DEF TypeOK
  <2> QED
    BY <1>1, <2>1, <2>2 DEF RequestsHoldOperations
<1>5. ASSUME NEW w \in Workers, WorkerNext(w) PROVE UNCHANGED client
  BY <1>5, WorkerNextSplits, EffectRows, SaveEffect DEF Saved, SavesRows
<1>6. CASE \/ \E o \in RecoverOps : RequestAutomaticRecovery(o) \/ RecoveryAges(o)
           \/ \E o \in Ops : Reconcile(o)
           \/ EditWorld
           \/ UNCHANGED vars
  BY <1>2, <1>6 DEF RequestAutomaticRecovery, RecoveryAges, Reconcile, EditWorld, vars
<1> QED
  BY <1>2, <1>4, <1>5, <1>6 DEF Next

\* What an effect does to the worker that performs it.
LEMMA EffectWorker ==
  ASSUME TypeOK, NEW w \in Workers, EffectNext(w)
  PROVE  /\ \A v \in Workers \ {w} : worker'[v] = worker[v]
         /\ \/ worker'[w] = worker[w]
            \/ worker'[w].step = "idle"
            \/ /\ worker'[w].step = "loaded" /\ worker'[w].op \in Ops
               /\ Active(worker'[w].op) /\ worker'[w].seen = op[worker'[w].op]
            \/ /\ worker[w].step # "idle" /\ worker'[w].op = worker[w].op
               /\ worker'[w].seen = worker[w].seen
               /\ \/ worker'[w].step = "ready" /\ worker'[w].world = world
                  \/ /\ worker[w].step # "loaded"
                     /\ worker'[w].step \in {"acted", "released", "captured", "settled"}
                     /\ worker'[w].world = worker[w].world
<1> USE DEF TypeOK
<1>1. CASE \E o \in Ops : LoadOperation(w, o)
  <2>1. PICK o \in Ops : LoadOperation(w, o)
    BY <1>1
  <2>2. CASE UNCHANGED worker
    BY <2>2
  <2>3. CASE Active(o) /\ ~UNCHANGED worker
    <3>1. PICK t : worker' = [worker EXCEPT ![w] =
                 [IdleWorker EXCEPT !.step = "loaded", !.op = o, !.seen = op[o], !.task = t]]
      BY <2>1, <2>3 DEF LoadOperation
    <3>2. worker'[w] = [IdleWorker EXCEPT !.step = "loaded", !.op = o, !.seen = op[o], !.task = t]
      BY <3>1
    <3>3. worker'[w].step = "loaded" /\ worker'[w].op = o /\ worker'[w].seen = op[o]
      BY <3>2 DEF IdleWorker
    <3> QED
      BY <2>3, <3>1, <3>3
  <2> QED
    BY <2>1, <2>2, <2>3 DEF LoadOperation
<1>2. CASE LoadWorld(w)
  BY <1>2, WorkerTypes DEF LoadWorld, Invocation
<1>3. CASE InvocationFails(w)
  BY <1>3 DEF InvocationFails, IdleWorker
<1>4. CASE Provision(w) \/ CreateBackup(w)
  BY <1>4, WorkerTypes DEF Provision, CreateBackup, At, Acted, Invocation
<1>5. CASE RunHostCommand(w)
  BY <1>5, WorkerTypes DEF RunHostCommand, At, Invocation
<1>6. CASE PersistState(w)
  BY <1>6, WorkerTypes DEF PersistState, At, Invocation
<1>7. CASE ReleaseRuntime(w)
  BY <1>7, WorkerTypes DEF ReleaseRuntime, At, CleaningUp, Acted, Invocation
<1>8. CASE CaptureUsage(w)
  BY <1>8, WorkerTypes DEF CaptureUsage, Acted, Invocation
<1>9. CASE ApplyWakeGuarantee(w)
  BY <1>9, WorkerTypes DEF ApplyWakeGuarantee, Acted, Invocation
<1>10. CASE CancelReservation(w)
  BY <1>10, WorkerTypes DEF CancelReservation, CleaningUp, Acted, Invocation
<1> QED
  BY <1>1, <1>2, <1>3, <1>4, <1>5, <1>6, <1>7, <1>8, <1>9, <1>10 DEF EffectNext

LEMMA SnapshotsStep ==
  ASSUME TypeOK, TypeOK', RowsExist, RuntimesAreOwned, SnapshotsAreFaithful, RowsStep
  PROVE  SnapshotsAreFaithful'
<1>1. ASSUME NEW v \in Workers, worker'[v].op = worker[v].op, worker'[v].seen = worker[v].seen,
             OperationIsFaithful(v), ~\E w \in Workers : EffectNext(w),
             \A w \in Workers : Saved(w) => v # w
      PROVE  OperationIsFaithful(v)'
  <2> DEFINE o == worker[v].op
  <2>1. o \in Ops
    BY <1>1 DEF OperationIsFaithful
  <2>2. \/ op'[o] = op[o]
        \/ op'[o].version > op[o].version /\ op'[o].runtime \in {op[o].runtime, o}
                                          /\ (op'[o].runtime # op[o].runtime => o \in WakeOps)
        \/ op[o].status = "absent"
    <3>1. CASE Quiet
      BY <3>1 DEF Quiet
    <3>2. CASE \E k \in Ops : Begins(k)
      BY <2>1, <3>2, BegunRows
    <3>3. CASE \E k \in WakeOps : Attaches(k) \/ FailsPreflight(k)
      BY <2>1, <3>3, PreflightRows, OperationTypes
    <3>4. CASE \E w \in Workers : Saved(w)
      BY <2>1, <3>4, SavedRows, OperationTypes DEF Saved, SavesProgress
    <3> QED
      BY <1>1, <3>1, <3>2, <3>3, <3>4 DEF RowsStep
  <2>3. op'[o].version \in Nat /\ op[o].version \in Nat /\ worker[v].seen.version \in Nat
    BY <2>1, OperationTypes, WorkerTypes DEF TypeOK, Operation
  <2>4. op[o].status # "absent"
    <3>1. worker[v].seen.version > 0 /\ worker[v].seen.version <= op[o].version
      BY <1>1 DEF OperationIsFaithful
    <3>2. op[o].status = "absent" => op[o].version = 0
      BY <2>1 DEF RowsExist, NoOperation
    <3> QED
      BY <2>3, <3>1, <3>2
  <2> QED
    BY <1>1, <2>1, <2>2, <2>3, <2>4 DEF OperationIsFaithful, RuntimesAreOwned
<1>2. ASSUME NEW v \in Workers, worker'[v].world = worker[v].world, WorldIsFaithful(v),
             WorldMoves
      PROVE  WorldIsFaithful(v)'
  <2>1. world.version \in Nat /\ worker[v].world.version \in Nat
    BY WorkerTypes DEF TypeOK, World
  <2> QED
    BY <1>2, <2>1 DEF WorldIsFaithful, WorldMoves
<1>3. ASSUME NEW w \in Workers, EffectNext(w) PROVE SnapshotsAreFaithful'
  <2> SUFFICES ASSUME NEW v \in Workers
               PROVE  /\ worker'[v].step # "idle" => OperationIsFaithful(v)'
                      /\ worker'[v].step \notin {"idle", "loaded"} => WorldIsFaithful(v)'
    BY DEF SnapshotsAreFaithful
  <2>1. UNCHANGED <<op, world>>
    BY <1>3, EffectRows
  <2>2. CASE worker'[v] = worker[v]
    BY <2>1, <2>2 DEF SnapshotsAreFaithful, OperationIsFaithful, WorldIsFaithful
  <2>3. CASE v = w
    <3>1. CASE /\ worker'[w].step = "loaded" /\ worker'[w].op \in Ops
               /\ Active(worker'[w].op) /\ worker'[w].seen = op[worker'[w].op]
      <4>1. op[worker'[w].op].version > 0 /\ op[worker'[w].op].version \in Nat
        BY <3>1, OperationTypes DEF RowsExist, Active, ActiveStatuses
      <4> QED
        BY <2>1, <2>3, <3>1, <4>1 DEF OperationIsFaithful, Active
    <3>2. CASE /\ worker[w].step # "idle" /\ worker'[w].op = worker[w].op
               /\ worker'[w].seen = worker[w].seen
               /\ worker'[w].step = "ready" /\ worker'[w].world = world
      <4>1. world.version \in Nat
        BY DEF TypeOK, World
      <4> QED
        BY <2>1, <2>3, <3>2, <4>1 DEF SnapshotsAreFaithful, OperationIsFaithful, WorldIsFaithful
    <3>3. CASE /\ worker[w].step # "idle" /\ worker'[w].op = worker[w].op
               /\ worker'[w].seen = worker[w].seen
               /\ worker[w].step # "loaded" /\ worker'[w].world = worker[w].world
      BY <2>1, <2>3, <3>3 DEF SnapshotsAreFaithful, OperationIsFaithful, WorldIsFaithful
    <3>4. CASE worker'[w].step = "idle"
      BY <2>3, <3>4
    <3> QED
      BY <1>3, <2>2, <2>3, <3>1, <3>2, <3>3, <3>4, EffectWorker
  <2> QED
    BY <1>3, <2>2, <2>3, EffectWorker
<1>4. CASE (~\E w \in Workers : EffectNext(w)) /\ ~\E w \in Workers : Saved(w)
  <2>1. UNCHANGED worker /\ WorldMoves
    BY <1>4, BegunRows, PreflightRows
    DEF RowsStep, Quiet, WorkersUntouched, Begins, Attaches, FailsPreflight
  <2>2. ASSUME NEW v \in Workers
        PROVE  /\ worker'[v].step # "idle" => OperationIsFaithful(v)'
               /\ worker'[v].step \notin {"idle", "loaded"} => WorldIsFaithful(v)'
    BY <1>1, <1>2, <1>4, <2>1 DEF SnapshotsAreFaithful
  <2> QED
    BY <2>2 DEF SnapshotsAreFaithful
<1>5. ASSUME NEW w \in Workers, Saved(w), ~\E v \in Workers : EffectNext(v)
      PROVE  SnapshotsAreFaithful'
  <2>1. /\ worker' = [worker EXCEPT ![w] = IdleWorker] /\ WorldMoves
        /\ \A v \in Workers : Saved(v) => worker'[v] = IdleWorker
    BY <1>5 DEF Saved, SavesRows, WorldMoves, TypeOK
  <2>2. ASSUME NEW v \in Workers
        PROVE  /\ worker'[v].step # "idle" => OperationIsFaithful(v)'
               /\ worker'[v].step \notin {"idle", "loaded"} => WorldIsFaithful(v)'
    <3>1. CASE worker'[v] = IdleWorker
      BY <3>1 DEF IdleWorker
    <3>2. CASE worker'[v] # IdleWorker
      <4>1. worker'[v] = worker[v] /\ \A u \in Workers : Saved(u) => v # u
        BY <2>1, <3>2 DEF TypeOK
      <4> QED
        BY <1>1, <1>2, <1>5, <2>1, <4>1 DEF SnapshotsAreFaithful
    <3> QED
      BY <3>1, <3>2
  <2> QED
    BY <2>2 DEF SnapshotsAreFaithful
<1> QED
  BY <1>3, <1>4, <1>5

\* What was done outside the database is not undone.
LEMMA EffectsRemain ==
  ASSUME TypeOK, RowsStep
  PROVE  /\ archived \subseteq archived' /\ backups \subseteq backups'
         /\ guaranteed \subseteq guaranteed' /\ usage \subseteq usage'
         /\ \A r \in WakeOps : runtime[r] = "released" => runtime'[r] = "released"
<1> USE DEF TypeOK, storage, billing
<1>1. ASSUME NEW w \in Workers, EffectNext(w)
      PROVE  /\ archived \subseteq archived' /\ backups \subseteq backups'
             /\ guaranteed \subseteq guaranteed' /\ usage \subseteq usage'
             /\ \A r \in WakeOps : runtime[r] = "released" => runtime'[r] = "released"
  <2>1. CASE (\E o \in Ops : LoadOperation(w, o)) \/ LoadWorld(w) \/ InvocationFails(w)
             \/ RunHostCommand(w) \/ CancelReservation(w)
    BY <2>1 DEF LoadOperation, LoadWorld, InvocationFails, RunHostCommand, CancelReservation
  <2>2. CASE PersistState(w) \/ CreateBackup(w) \/ CaptureUsage(w) \/ ApplyWakeGuarantee(w)
    BY <2>2 DEF PersistState, CreateBackup, CaptureUsage, ApplyWakeGuarantee
  <2>3. CASE Provision(w) \/ ReleaseRuntime(w)
    BY <2>3 DEF Provision, ReleaseRuntime
  <2> QED
    BY <1>1, <2>1, <2>2, <2>3 DEF EffectNext
<1>2. CASE ~\E w \in Workers : EffectNext(w)
  BY <1>2, BegunRows, PreflightRows
  DEF RowsStep, Quiet, WorkersUntouched, Saved, SavesRows, Begins, Attaches, FailsPreflight
<1> QED
  BY <1>1, <1>2

\* What a step leaves of a worker that does not perform an effect.
LEMMA WorkersRest ==
  ASSUME TypeOK, RowsStep, NEW v \in Workers, ~EffectNext(v), worker'[v].step # "idle"
  PROVE  worker'[v] = worker[v]
<1>1. ASSUME NEW w \in Workers, EffectNext(w) PROVE worker'[v] = worker[v]
  BY <1>1, EffectWorker
<1>2. ASSUME NEW w \in Workers, Saved(w) PROVE worker'[v] = worker[v]
  <2>1. worker' = [worker EXCEPT ![w] = IdleWorker]
    BY <1>2, SavedRows
  <2> QED
    BY <2>1 DEF TypeOK, IdleWorker
<1>3. CASE Quiet \/ (\E k \in Ops : Begins(k))
           \/ \E k \in WakeOps : Attaches(k) \/ FailsPreflight(k)
  BY <1>3 DEF Quiet, Begins, Attaches, FailsPreflight, WorkersUntouched
<1> QED
  BY <1>1, <1>2, <1>3 DEF RowsStep

\* The step an effect takes its worker to, and what it has done by then.
LEMMA EffectDone ==
  ASSUME TypeOK, NEW w \in Workers, EffectNext(w)
  PROVE  /\ worker'[w].step = "acted" /\ worker'[w].task = "advance"
                /\ worker'[w].op \in SleepOps =>
              /\ worker'[w].seen.phase = "persisting_world" /\ worker'[w].ok =>
                   worker'[w].op \in archived'
              /\ worker'[w].seen.phase = "creating_backup" => worker'[w].op \in backups'
         /\ worker'[w].step = "released" =>
              /\ worker'[w].seen.runtime # None
              /\ runtime'[worker'[w].seen.runtime] = "released"
         /\ worker'[w].step = "captured" =>
              /\ worker[w].step = "released" /\ worker'[w].seen = worker[w].seen
              /\ UNCHANGED runtime
         /\ worker'[w].step = "settled" =>
              /\ worker'[w].seen = worker[w].seen /\ worker'[w].op = worker[w].op
              /\ UNCHANGED runtime
              /\ \/ worker[w].step = "released" /\ worker[w].op \notin WakeOps
                 \/ worker[w].step = "captured" /\ worker[w].op \in guaranteed'
                 \/ worker[w].seen.runtime = None
<1> USE DEF TypeOK
<1>0. ASSUME NEW s \in WorkerSteps, Acted(w, s)
      PROVE  /\ worker'[w].step = s /\ worker'[w].seen = worker[w].seen
             /\ worker'[w].op = worker[w].op /\ worker'[w].task = worker[w].task
             /\ worker'[w].ok = worker[w].ok
  BY <1>0, WorkerTypes DEF Acted, Invocation
<1>1. CASE (\E o \in Ops : LoadOperation(w, o)) \/ LoadWorld(w) \/ InvocationFails(w)
  <2>1. ASSUME NEW o \in Ops, LoadOperation(w, o) PROVE worker'[w].step \in {"idle", "loaded"}
    <3>1. CASE UNCHANGED worker
      BY <2>1, <3>1 DEF LoadOperation
    <3>2. CASE ~UNCHANGED worker
      <4>1. PICK t : worker' = [worker EXCEPT ![w] =
              [IdleWorker EXCEPT !.step = "loaded", !.op = o, !.seen = op[o], !.task = t]]
        BY <2>1, <3>2 DEF LoadOperation
      <4>2. worker'[w] =
              [IdleWorker EXCEPT !.step = "loaded", !.op = o, !.seen = op[o], !.task = t]
        BY <4>1
      <4> QED
        BY <4>2 DEF IdleWorker
    <3> QED
      BY <3>1, <3>2
  <2>2. ASSUME LoadWorld(w) PROVE worker'[w].step = "ready"
    BY <2>2, WorkerTypes DEF LoadWorld, Invocation
  <2>3. ASSUME InvocationFails(w) PROVE worker'[w].step = "idle"
    BY <2>3 DEF InvocationFails, IdleWorker
  <2>4. worker'[w].step \in {"idle", "loaded", "ready"}
    BY <1>1, <2>1, <2>2, <2>3
  <2> QED
    BY <2>4
<1>2. CASE Provision(w)
  <2>1. worker'[w].step = "acted" /\ worker'[w].op \in WakeOps
    BY <1>0, <1>2 DEF Provision, At, WorkerSteps
  <2> QED
    BY <2>1, KeysAssumption
<1>3. CASE RunHostCommand(w)
  <2>1. /\ worker'[w].step = "acted" /\ worker'[w].seen = worker[w].seen
        /\ worker'[w].op = worker[w].op
    BY <1>3, WorkerTypes DEF RunHostCommand, Invocation
  <2>2. worker[w].op \in SleepOps =>
          worker[w].seen.phase \in {"checking_players", "saving_game", "stopping_game"}
    BY <1>3, KeysAssumption DEF RunHostCommand, At
  <2> QED
    BY <2>1, <2>2
<1>4. CASE PersistState(w)
  <2>1. PICK validated \in BOOLEAN :
          /\ worker' = [worker EXCEPT ![w].step = "acted", ![w].ok = validated]
          /\ archived' = IF validated THEN archived \cup {worker[w].op} ELSE archived
    BY <1>4 DEF PersistState
  <2>2. /\ worker'[w].step = "acted" /\ worker'[w].seen = worker[w].seen
        /\ worker'[w].op = worker[w].op /\ worker'[w].ok = validated
    BY <2>1, WorkerTypes DEF Invocation
  <2>3. worker[w].seen.phase = "persisting_world"
    BY <1>4 DEF PersistState, At
  <2> QED
    BY <2>1, <2>2, <2>3
<1>5. CASE CreateBackup(w)
  <2>1. /\ worker'[w].step = "acted" /\ worker'[w].seen = worker[w].seen
        /\ worker'[w].op = worker[w].op
    BY <1>0, <1>5 DEF CreateBackup, WorkerSteps
  <2>2. worker[w].seen.phase = "creating_backup" /\ worker[w].op \in backups'
    BY <1>5 DEF CreateBackup, At
  <2> QED
    BY <2>1, <2>2
<1>6. CASE ReleaseRuntime(w)
  <2>1. worker'[w].step = "released" /\ worker'[w].seen = worker[w].seen
    BY <1>0, <1>6 DEF ReleaseRuntime, WorkerSteps
  <2>2. /\ worker[w].seen.runtime # None /\ worker[w].seen.runtime \in WakeOps
        /\ runtime' = [runtime EXCEPT ![worker[w].seen.runtime] = "released"]
    BY <1>6, WorkerTypes DEF ReleaseRuntime
  <2> QED
    BY <2>1, <2>2
<1>7. CASE CaptureUsage(w)
  <2>1. /\ worker'[w].step = IF worker[w].op \in WakeOps THEN "captured" ELSE "settled"
        /\ worker'[w].seen = worker[w].seen /\ worker'[w].op = worker[w].op
    BY <1>0, <1>7 DEF CaptureUsage, WorkerSteps
  <2>2. worker[w].step = "released" /\ UNCHANGED runtime
    BY <1>7 DEF CaptureUsage
  <2> QED
    BY <2>1, <2>2
<1>8. CASE ApplyWakeGuarantee(w)
  <2>1. /\ worker'[w].step = "settled"
        /\ worker'[w].seen = worker[w].seen /\ worker'[w].op = worker[w].op
    BY <1>0, <1>8 DEF ApplyWakeGuarantee, WorkerSteps
  <2>2. worker[w].step = "captured" /\ UNCHANGED runtime /\ worker[w].op \in guaranteed'
    BY <1>8 DEF ApplyWakeGuarantee
  <2> QED
    BY <2>1, <2>2
<1>9. CASE CancelReservation(w)
  <2>1. /\ worker'[w].step = "settled"
        /\ worker'[w].seen = worker[w].seen /\ worker'[w].op = worker[w].op
    BY <1>0, <1>9 DEF CancelReservation, WorkerSteps
  <2>2. UNCHANGED runtime /\ worker[w].seen.runtime = None
    BY <1>9 DEF CancelReservation
  <2> QED
    BY <2>1, <2>2
<1> QED
  BY <1>1, <1>2, <1>3, <1>4, <1>5, <1>6, <1>7, <1>8, <1>9 DEF EffectNext

LEMMA ReleasedStep ==
  ASSUME TypeOK, WorkersReleasedFirst, RowsStep
  PROVE  WorkersReleasedFirst'
<1> SUFFICES ASSUME NEW v \in Workers PROVE WorkerReleased(v)'
  BY DEF WorkersReleasedFirst
<1>0. WorkerReleased(v) /\ worker[v].seen.runtime \in WakeOps \cup {None}
  BY WorkerTypes DEF WorkersReleasedFirst
<1>1. CASE worker'[v].step \notin {"released", "captured", "settled"}
  BY <1>1 DEF WorkerReleased
<1>2. CASE worker'[v] = worker[v]
  BY <1>0, <1>2, EffectsRemain DEF WorkerReleased
<1>3. CASE EffectNext(v) /\ worker'[v].step = "released"
  BY <1>3, EffectDone DEF WorkerReleased
<1>4. CASE EffectNext(v) /\ worker'[v].step = "captured"
  BY <1>0, <1>4, EffectDone DEF WorkerReleased
<1>5. CASE EffectNext(v) /\ worker'[v].step = "settled"
  BY <1>0, <1>5, EffectDone DEF WorkerReleased
<1> QED
  BY <1>1, <1>2, <1>3, <1>4, <1>5, WorkersRest

LEMMA ChargedStep ==
  ASSUME TypeOK, RowsExist, SnapshotsAreFaithful, RuntimesAreOwned, WorkersReleasedFirst,
         ChargedOnlyAfterRelease, RowsStep
  PROVE  ChargedOnlyAfterRelease'
<1>1. ASSUME NEW o \in usage, NEW r \in WakeOps, op[o].runtime = r, runtime[r] = "released"
      PROVE  op'[o].runtime = r /\ runtime'[r] = "released"
  <2>1. o \in Ops /\ r # None /\ op[o].status # "absent"
    BY <1>1, KeysAssumption DEF TypeOK, Ops, RowsExist, NoOperation
  <2>2. op'[o].runtime = r
    <3>1. CASE Quiet \/ \E w \in Workers : EffectNext(w)
      BY <1>1, <3>1, EffectRows DEF Quiet
    <3>2. CASE \E k \in Ops : Begins(k)
      BY <1>1, <2>1, <3>2, BegunRows
    <3>3. CASE \E k \in WakeOps : Attaches(k) \/ FailsPreflight(k)
      BY <1>1, <2>1, <3>3, PreflightRows
    <3>4. CASE \E w \in Workers : Saved(w)
      BY <1>1, <2>1, <3>4, SavedRows DEF Saved, SavesProgress, RuntimesAreOwned
    <3> QED
      BY <3>1, <3>2, <3>3, <3>4 DEF RowsStep
  <2> QED
    BY <1>1, <2>2, EffectsRemain
<1>2. ASSUME NEW o \in usage
      PROVE  op'[o].runtime # None /\ runtime'[op'[o].runtime] = "released"
  <2>1. /\ op[o].runtime # None /\ runtime[op[o].runtime] = "released"
        /\ op[o].runtime \in WakeOps
    BY DEF ChargedOnlyAfterRelease, TypeOK, Operation
  <2> QED
    BY <1>1, <2>1, KeysAssumption DEF Ops
<1>3. ASSUME NEW o \in usage', o \notin usage
      PROVE  op'[o].runtime # None /\ runtime'[op'[o].runtime] = "released"
  <2>1. PICK w \in Workers : EffectNext(w) /\ CaptureUsage(w) /\ o = worker[w].op
    BY <1>3 DEF RowsStep, Quiet, Begins, Attaches, FailsPreflight, Saved, SavesRows, billing,
       WorkersUntouched, EffectNext, LoadOperation, LoadWorld, InvocationFails, Provision,
       RunHostCommand, PersistState, CreateBackup, ReleaseRuntime, CaptureUsage,
       ApplyWakeGuarantee, CancelReservation
  <2>2. worker[w].step = "released" /\ UNCHANGED <<op, runtime>>
    BY <2>1 DEF CaptureUsage
  <2>3. /\ worker[w].seen.runtime # None /\ runtime[worker[w].seen.runtime] = "released"
        /\ op[o].runtime = worker[w].seen.runtime
    BY <2>1, <2>2 DEF WorkersReleasedFirst, WorkerReleased, SnapshotsAreFaithful,
                      OperationIsFaithful
  <2> QED
    BY <2>2, <2>3
<1> QED
  BY <1>2, <1>3 DEF ChargedOnlyAfterRelease

LEMMA SleepStep ==
  ASSUME TypeOK, TypeOK', SleepProgress, RowsStep
  PROVE  SleepProgress'
<1>1. ASSUME NEW o \in SleepOps
      PROVE  /\ op'[o].persisted => o \in archived'
             /\ op'[o].phase \in {"creating_backup", "releasing_runtime"} => op'[o].persisted
             /\ op'[o].phase = "releasing_runtime" => o \in backups'
  <2>0. o \in Ops /\ o \notin WakeOps
    BY KeysAssumption DEF Ops
  <2>1. CASE op'[o] = op[o]
    BY <2>1, EffectsRemain DEF SleepProgress
  <2>2. CASE \E k \in Ops : Begins(k)
    BY <2>0, <2>1, <2>2, BegunRows
  <2>3. CASE \E k \in WakeOps : Attaches(k) \/ FailsPreflight(k)
    BY <2>0, <2>1, <2>3, PreflightRows
  <2>4. ASSUME NEW w \in Workers, Saved(w), o = worker[w].op
        PROVE  /\ op'[o].persisted => o \in archived'
               /\ op'[o].phase \in {"creating_backup", "releasing_runtime"} => op'[o].persisted
               /\ op'[o].phase = "releasing_runtime" => o \in backups'
    <3>1. worker[w].seen = op[o] /\ SavesProgress(w, o)
      BY <2>4 DEF Saved, SavesRows
    <3> QED
      BY <2>4, <3>1, EffectsRemain DEF SavesProgress, SleepProgress
  <2>5. CASE \E w \in Workers : Saved(w)
    BY <2>0, <2>1, <2>4, <2>5, SavedRows
  <2>6. CASE Quiet \/ \E w \in Workers : EffectNext(w)
    BY <2>1, <2>6, EffectRows DEF Quiet
  <2> QED
    BY <2>2, <2>3, <2>5, <2>6 DEF RowsStep
<1>2. ASSUME NEW v \in Workers, worker'[v].step = "acted", worker'[v].task = "advance",
             worker'[v].op \in SleepOps
      PROVE  /\ worker'[v].seen.phase = "persisting_world" /\ worker'[v].ok =>
                  worker'[v].op \in archived'
             /\ worker'[v].seen.phase = "creating_backup" => worker'[v].op \in backups'
  <2>1. CASE EffectNext(v)
    BY <1>2, <2>1, EffectDone
  <2>2. CASE ~EffectNext(v)
    <3>1. worker'[v] = worker[v]
      BY <1>2, <2>2, WorkersRest
    <3> QED
      BY <1>2, <3>1, EffectsRemain DEF SleepProgress
  <2> QED
    BY <2>1, <2>2
<1> QED
  BY <1>1, <1>2 DEF SleepProgress

LEMMA StoredStep ==
  ASSUME TypeOK, SleepProgress, StoredStateIsRecoverable, RowsStep
  PROVE  StoredStateIsRecoverable'
<1>1. CASE world'.stored = world.stored
  BY <1>1, EffectsRemain DEF StoredStateIsRecoverable
<1>2. CASE \E w \in Workers : Saved(w)
  <2>1. PICK w \in Workers : Saved(w)
    BY <1>2
  <2>2. SavesStatus(worker[w].op)
    BY <2>1 DEF Saved
  <2> QED
    BY <1>1, <2>2, EffectsRemain DEF SavesStatus, SleepProgress, StoredStateIsRecoverable
<1>3. CASE ~\E w \in Workers : Saved(w)
  BY <1>1, <1>3, EffectRows DEF RowsStep, Quiet, Begins, Attaches, FailsPreflight
<1> QED
  BY <1>2, <1>3

LEMMA GuaranteeStep ==
  ASSUME TypeOK, GuaranteeProgress, WorkersReleasedFirst, RowsStep
  PROVE  GuaranteeProgress'
<1>1. ASSUME NEW o \in WakeOps, op'[o].status = "needs_attention", op'[o].runtime # None
      PROVE  o \in guaranteed'
  <2>0. o \in Ops
    BY DEF Ops
  <2>1. CASE op'[o] = op[o]
    BY <1>1, <2>1, EffectsRemain DEF GuaranteeProgress
  <2>2. CASE \E k \in Ops : Begins(k)
    BY <1>1, <2>0, <2>1, <2>2, BegunRows
  <2>3. CASE \E k \in WakeOps : Attaches(k) \/ FailsPreflight(k)
    <3>1. PICK k \in WakeOps : Attaches(k) \/ FailsPreflight(k)
      BY <2>3
    <3>2. op[o].status = "needs_attention" /\ op[o].runtime = op'[o].runtime
      BY <1>1, <2>0, <3>1, PreflightRows
    <3> QED
      BY <1>1, <3>2, EffectsRemain DEF GuaranteeProgress
  <2>4. CASE \E w \in Workers : Saved(w)
    <3>1. PICK w \in Workers : Saved(w)
      BY <2>4
    <3>2. CASE o = worker[w].op
      <4>1. /\ worker[w].step = "settled" /\ worker[w].seen = op[o]
            /\ op'[o].runtime = op[o].runtime
        BY <1>1, <3>1, <3>2 DEF Saved, SavesRows, SavesProgress
      <4> QED
        BY <1>1, <3>2, <4>1, EffectsRemain DEF GuaranteeProgress
    <3> QED
      BY <2>0, <2>1, <3>1, <3>2, SavedRows
  <2>5. CASE Quiet \/ \E w \in Workers : EffectNext(w)
    BY <2>1, <2>5, EffectRows DEF Quiet
  <2> QED
    BY <2>2, <2>3, <2>4, <2>5 DEF RowsStep
<1>2. ASSUME NEW v \in Workers, worker'[v].step = "settled", worker'[v].op \in WakeOps,
             worker'[v].seen.runtime # None
      PROVE  worker'[v].op \in guaranteed'
  <2>1. CASE EffectNext(v)
    BY <1>2, <2>1, EffectDone
  <2>2. CASE ~EffectNext(v)
    <3>1. worker'[v] = worker[v]
      BY <1>2, <2>2, WorkersRest
    <3> QED
      BY <1>2, <3>1, EffectsRemain DEF GuaranteeProgress
  <2> QED
    BY <2>1, <2>2
<1> QED
  BY <1>1, <1>2 DEF GuaranteeProgress

-------------------------------------------------------------------------------
LEMMA InvariantHoldsFirst == Init => IInv
<1> SUFFICES ASSUME Init PROVE IInv
  OBVIOUS
<1>1. TypeOK
  BY RowTypes DEF Init, TypeOK, Invocation, Request, IdleWorker, IdleClient
<1>2. \A o \in Ops : op[o] = NoOperation /\ ~Active(o)
  BY DEF Init, NoOperation, Active, ActiveStatuses
<1>3. \A w \in Workers : worker[w].step = "idle"
  BY DEF Init, IdleWorker
<1>4. \A c \in Clients : client[c].step = "idle"
  BY DEF Init, IdleClient
<1>5. RowsExist /\ RuntimesAreOwned
  <2>1. NoOperation.status = "absent" /\ NoOperation.runtime = None
    BY DEF NoOperation
  <2>2. \A o \in Ops : op[o].status = "absent" /\ op[o].runtime = None
    BY <1>2, <2>1
  <2> QED
    BY <1>2, <2>2 DEF RowsExist, RuntimesAreOwned, Ops
<1>6. RequestsHoldOperations /\ SnapshotsAreFaithful /\ WorkersReleasedFirst
  BY <1>3, <1>4 DEF RequestsHoldOperations, SnapshotsAreFaithful, WorkersReleasedFirst,
                    WorkerReleased
<1>7. OneActiveOperation /\ TransitionsAreOwned
  BY <1>2 DEF OneActiveOperation, TransitionsAreOwned, Init, NewWorld, Ops
<1>8. SleepProgress /\ GuaranteeProgress
  BY <1>2, <1>3 DEF SleepProgress, GuaranteeProgress, NoOperation, Ops
<1>9. ChargedOnlyAfterRelease /\ StoredStateIsRecoverable
  BY DEF Init, NewWorld, ChargedOnlyAfterRelease, StoredStateIsRecoverable
<1> QED
  BY <1>1, <1>5, <1>6, <1>7, <1>8, <1>9 DEF IInv

LEMMA InvariantIsKept == IInv /\ [Next]_vars => IInv'
<1> SUFFICES ASSUME IInv, [Next]_vars PROVE IInv'
  OBVIOUS
<1>1. TypeOK' /\ RowsStep
  BY TypeStep, NextRows DEF IInv
<1>2. RowsExist' /\ RequestsHoldOperations' /\ SnapshotsAreFaithful'
  BY <1>1, RowsExistStep, RequestsStep, SnapshotsStep DEF IInv
<1>3. OneActiveOperation' /\ TransitionsAreOwned'
  BY <1>1, OneActiveStep, TransitionsStep DEF IInv
<1>4. RuntimesAreOwned' /\ WorkersReleasedFirst' /\ ChargedOnlyAfterRelease'
  BY <1>1, RuntimesAreOwnedStep, ReleasedStep, ChargedStep DEF IInv
<1>5. SleepProgress' /\ StoredStateIsRecoverable' /\ GuaranteeProgress'
  BY <1>1, SleepStep, StoredStep, GuaranteeStep DEF IInv
<1> QED
  BY <1>1, <1>2, <1>3, <1>4, <1>5 DEF IInv

\* In every reachable state of the lifecycle, for any sets of operations, workers and
\* requests, the rows, the snapshots and the external effects fit together.
THEOREM LifecycleInvariant == Spec => []IInv
BY InvariantHoldsFirst, InvariantIsKept, PTL DEF Spec

\* Every value the lifecycle stores has its type.
THEOREM TypesAreCorrect == Spec => []TypeOK
<1>1. IInv => TypeOK
  BY DEF IInv
<1> QED
  BY <1>1, LifecycleInvariant, PTL

\* Operations of a World never overlap: begin_operation and the versioned saves let at most
\* one be active, and the World shows a transition exactly while one of its kind is.
THEOREM OperationsAreExclusive == Spec => [](OneActiveOperation /\ TransitionsAreOwned)
<1>1. IInv => OneActiveOperation /\ TransitionsAreOwned
  BY DEF IInv
<1> QED
  BY <1>1, LifecycleInvariant, PTL

\* A World never shows a transition that no operation is there to finish, whatever stale
\* saves, failed requests and lost answers did before.
THEOREM TransitionsHaveOwners == Spec => []TransitionsAreOwned
<1>1. IInv => TransitionsAreOwned
  BY DEF IInv
<1> QED
  BY <1>1, LifecycleInvariant, PTL

\* The state the next wake restores is always one that a sleep archived, validated and
\* backed up.
THEOREM LastCopyIsRecoverable == Spec => []StoredStateIsRecoverable
<1>1. IInv => StoredStateIsRecoverable
  BY DEF IInv
<1> QED
  BY <1>1, LifecycleInvariant, PTL

\* No operation is charged while its Runtime runs.
THEOREM ChargesFollowRelease == Spec => []ChargedOnlyAfterRelease
<1>1. IInv => ChargedOnlyAfterRelease
  BY DEF IInv
<1> QED
  BY <1>1, LifecycleInvariant, PTL

\* A wake saved as Needs Attention keeps no charge, whichever invocations of the worker
\* raced to clean it up.
THEOREM FailedWakesAreCompensated == Spec => []FailedWakeIsCompensated
<1>1. IInv => FailedWakeIsCompensated
  BY DEF IInv, GuaranteeProgress, ChargedOnlyAfterRelease, FailedWakeIsCompensated
<1> QED
  BY <1>1, LifecycleInvariant, PTL

-------------------------------------------------------------------------------
(* The lifecycle implements the public state machine of a World. *)

running == {o \in Ops : Active(o)}
finished == {o \in Ops : op[o].status \in TerminalStatuses}

LEMMA MachineStarts == Init => StateMachine!Init
<1> SUFFICES ASSUME Init PROVE StateMachine!Init
  OBVIOUS
<1>1. \A o \in Ops : op[o].status = "absent"
  BY DEF Init, NoOperation
<1>2. running = {} /\ finished = {}
  BY <1>1 DEF running, finished, Active, ActiveStatuses, TerminalStatuses
<1>3. world.status = "sleeping" /\ world.stored = None
  BY DEF Init, NewWorld
<1> QED
  BY <1>2, <1>3 DEF StateMachine!Init, running, finished

\* What the operations show to the state machine when one row changes.
LEMMA OneRowChanges ==
  ASSUME TypeOK, NEW k \in Ops, \A o \in Ops \ {k} : op'[o] = op[o]
  PROVE  /\ running' = (running \ {k}) \cup (IF Active(k)' THEN {k} ELSE {})
         /\ finished' = (finished \ {k}) \cup
                         (IF op'[k].status \in TerminalStatuses THEN {k} ELSE {})
BY DEF running, finished, Active

\* An operation that ends is a step of the state machine.
LEMMA MachineEnds ==
  ASSUME NEW o,
         \/ o \in WakeOps /\ StateMachine!EndWake(o)
         \/ o \in SleepOps /\ StateMachine!EndSleep(o)
         \/ o \in RecoverOps /\ StateMachine!EndRecover(o)
  PROVE  StateMachine!Next
BY DEF StateMachine!Next

LEMMA MachineStep ==
  ASSUME IInv, IInv', RowsStep
  PROVE  StateMachine!Next \/ UNCHANGED <<world.status, world.stored, running, finished>>
<1> USE DEF IInv
<1>1. CASE Quiet \/ \E w \in Workers : EffectNext(w)
  BY <1>1, EffectRows DEF Quiet, running, finished, Active
<1>2. ASSUME NEW k \in Ops, Begins(k)
      PROVE  StateMachine!Next
  <2>1. /\ op[k].status = "absent" /\ op'[k].status = "pending"
        /\ \A o \in Ops \ {k} : op'[o] = op[o]
        /\ \A o \in Ops : ~Active(o)
    BY <1>2, BegunRows
  <2>2. running = {} /\ k \notin finished
    BY <2>1 DEF running, finished, TerminalStatuses
  <2>3. running' = {k} /\ finished' = finished
    BY <2>1, <2>2, OneRowChanges DEF Active, ActiveStatuses, TerminalStatuses
  <2>4. /\ world'.status = IF k \in SleepOps THEN "going_to_sleep" ELSE "waking"
        /\ k \in SleepOps => world.status = "online"
        /\ k \in RecoverOps => world.status \in {"online", "waking"}
        /\ world'.stored = world.stored
    BY <1>2 DEF Begins
  <2>5. CASE k \in WakeOps
    <3>1. StateMachine!Wake(k)
      BY <2>2, <2>3, <2>4, <2>5, KeysAssumption
      DEF StateMachine!Wake, StateMachine!Begin, running, finished
    <3> QED
      BY <2>5, <3>1 DEF StateMachine!Next
  <2>6. CASE k \in SleepOps
    <3>1. StateMachine!Sleep(k)
      BY <2>2, <2>3, <2>4, <2>6 DEF StateMachine!Sleep, StateMachine!Begin, running, finished
    <3> QED
      BY <2>6, <3>1 DEF StateMachine!Next
  <2>7. CASE k \in RecoverOps
    <3>1. StateMachine!Recover(k)
      BY <2>2, <2>3, <2>4, <2>7, KeysAssumption
      DEF StateMachine!Recover, StateMachine!Begin, running, finished
    <3> QED
      BY <2>7, <3>1 DEF StateMachine!Next
  <2> QED
    BY <2>5, <2>6, <2>7 DEF Ops
<1>3. ASSUME NEW k \in WakeOps, Attaches(k)
      PROVE  UNCHANGED <<world.status, world.stored, running, finished>>
  <2>1. \A o \in Ops : op'[o].status = op[o].status
    BY <1>3 DEF Attaches, TypeOK, Operation
  <2> QED
    BY <1>3, <2>1 DEF Attaches, running, finished, Active
<1>4. ASSUME NEW o \in Ops, Active(o), \A p \in Ops \ {o} : op'[p] = op[p],
             op'[o].status \in TerminalStatuses
      PROVE  running = {o} /\ running' = {} /\ finished' = finished \cup {o}
  <2>1. running = {o}
    BY <1>4 DEF running, OneActiveOperation
  <2>2. o \notin finished /\ ~Active(o)'
    BY <1>4 DEF finished, Active, ActiveStatuses, TerminalStatuses
  <2> QED
    BY <1>4, <2>1, <2>2, OneRowChanges
<1>5. ASSUME NEW k \in WakeOps, FailsPreflight(k)
      PROVE  StateMachine!Next
  <2>1. k \in Ops /\ Active(k) /\ \A p \in Ops \ {k} : op'[p] = op[p]
    BY <1>5, PreflightRows DEF FailsPreflight
  <2>2. op'[k].status = "failed"
    BY <1>5, <2>1 DEF FailsPreflight, TypeOK, Operation
  <2>3. running = {k} /\ running' = {} /\ finished' = finished \cup {k}
    BY <1>4, <2>1, <2>2 DEF TerminalStatuses
  <2>4. world'.status = "sleeping" /\ world'.stored = world.stored
    BY <1>5 DEF FailsPreflight
  <2>5. StateMachine!EndWake(k)
    BY <2>3, <2>4 DEF StateMachine!EndWake, StateMachine!End, running, finished
  <2> QED
    BY <2>5 DEF StateMachine!Next
<1>6. ASSUME NEW w \in Workers, Saved(w)
      PROVE  StateMachine!Next \/ UNCHANGED <<world.status, world.stored, running, finished>>
  <2>0. PICK o \in Ops : o = worker[w].op
    BY <1>6, SavedRows
  <2>1. o \in Ops /\ Active(o) /\ \A p \in Ops \ {o} : op'[p] = op[p]
    BY <1>6, <2>0, SavedRows
  <2>2. SavesStatus(o)
    BY <1>6, <2>0 DEF Saved
  <2>3. op[o].persisted \/ op[o].phase # "releasing_runtime" \/ o \notin SleepOps
    BY DEF SleepProgress
  <2>4. CASE /\ op'[o].status \in ActiveStatuses
             /\ world'.status = world.status /\ world'.stored = world.stored
    <3>1. running' = running /\ finished' = finished
      BY <2>1, <2>4, OneRowChanges
      DEF running, finished, Active, ActiveStatuses, TerminalStatuses
    <3> QED
      BY <2>4, <3>1
  <2>5. CASE op'[o].status \in TerminalStatuses
    <3>1. running = {o} /\ running' = {} /\ finished' = finished \cup {o}
      BY <1>4, <2>1, <2>5
    <3>2. CASE world'.status \in {"online", "needs_attention"} /\ world'.stored = world.stored
      <4>1. /\ o \in WakeOps => StateMachine!EndWake(o)
            /\ o \in SleepOps => StateMachine!EndSleep(o)
            /\ o \in RecoverOps => StateMachine!EndRecover(o)
        BY <3>1, <3>2 DEF StateMachine!EndWake, StateMachine!EndSleep, StateMachine!EndRecover,
                          StateMachine!End, running, finished
      <4>2. \/ o \in WakeOps /\ StateMachine!EndWake(o)
            \/ o \in SleepOps /\ StateMachine!EndSleep(o)
            \/ o \in RecoverOps /\ StateMachine!EndRecover(o)
        BY <2>1, <4>1 DEF Ops
      <4>3. StateMachine!Next
        BY <4>2, MachineEnds
      <4> QED
        BY <4>3
    <3>3. CASE o \in RecoverOps /\ world'.status = "waking" /\ world'.stored = world.stored
      <4>1. StateMachine!EndRecover(o)
        BY <3>1, <3>3 DEF StateMachine!EndRecover, StateMachine!End, running, finished
      <4> QED
        BY <3>3, <4>1, MachineEnds
    <3>4. CASE /\ o \in SleepOps /\ world'.status = "sleeping"
               /\ world'.stored = o
      <4>1. StateMachine!EndSleep(o)
        BY <3>1, <3>4 DEF StateMachine!EndSleep, StateMachine!End, running, finished
      <4>2. StateMachine!Next
        BY <3>4, <4>1, MachineEnds
      <4> QED
        BY <4>2
    <3> QED
      BY <2>2, <2>3, <2>5, <3>2, <3>3, <3>4
      DEF SavesStatus, ActiveStatuses, TerminalStatuses
  <2> QED
    BY <2>2, <2>4, <2>5 DEF SavesStatus, TerminalStatuses
<1> QED
  BY <1>1, <1>2, <1>3, <1>5, <1>6 DEF RowsStep

\* Every behaviour of the lifecycle is a behaviour of the public state machine: each step of
\* a request, a worker or the orchestrator begins or ends one operation, or shows nothing.
THEOREM LifecycleFollowsStateMachine == Spec => FollowsStateMachine
<1>1. IInv /\ IInv' /\ [Next]_vars => [StateMachine!Next]_(StateMachine!vars)
  <2> SUFFICES ASSUME IInv, IInv', [Next]_vars
               PROVE  [StateMachine!Next]_(StateMachine!vars)
    OBVIOUS
  <2>1. RowsStep
    BY NextRows DEF IInv
  <2> QED
    BY <2>1, MachineStep DEF StateMachine!vars, running, finished
<1> QED
  BY <1>1, LifecycleInvariant, MachineStarts, PTL
  DEF Spec, FollowsStateMachine, StateMachine!Spec
===============================================================================
