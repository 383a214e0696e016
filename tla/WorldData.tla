------------------------------- MODULE WorldData -------------------------------
(***************************************************************************)
(* The data of one World: its stored states and Backups, the requests that *)
(* restore, back up and delete them, and the daily maintenance that purges *)
(* what is due, measures the storage of the account and prunes it.         *)
(*                                                                         *)
(* Requests overlap; each reads the World's row, works on the archive and  *)
(* saves the row if its version is still the one it read.  The archive and *)
(* the status of the storage have no versions.  A request or a maintenance *)
(* may stop between any two steps; the maintenance is retried the same     *)
(* day, or runs again the next.                                            *)
(*                                                                         *)
(* The account has this World only, and one unit of storage is one stored  *)
(* state or Backup.  Versions appear as whether a snapshot is current.     *)
(* What a session does between a wake and a safe sleep is in               *)
(* WorldLifecycle; of it, this module has what touches the data.  Whether  *)
(* the Wallet can pay for storage is decided in Wallet, and open here.     *)
(* Permissions, confirmations and exports are left out.                    *)
(***************************************************************************)
EXTENDS Naturals, Sequences, SequencesExt

CONSTANTS
  States,        \* contents of a World that a session may leave behind
  Keys,          \* idempotency keys of requests
  Calls,         \* slots for the requests in flight at the same time
  Allowance,     \* units of storage that cost nothing
  GraceDays,     \* days of the Storage Grace Period
  DeletionDays,  \* days of the Pending Deletion
  MaxBackups,    \* bound: no session and no request makes more Backups than this
  None           \* the absent value

ASSUME WorldDataAssumption ==
  /\ Allowance \in Nat /\ MaxBackups \in Nat
  /\ GraceDays \in Nat \ {0} /\ DeletionDays \in Nat \ {0}
  /\ None \notin States /\ None \notin Keys /\ None \notin Nat

VARIABLES
  world,      \* the row of the World
  objects,    \* the states in the archive
  backups,    \* the Backups in the archive that nothing prunes
  automatic,  \* the states in the automatic Backups, oldest first
  session,    \* what the safe sleep of the current session has done
  grace,      \* days left of the Storage Grace Period, None outside it
  storage,    \* the storage status that gates requests
  maint,      \* the data maintenance
  expired,    \* the Pending Deletion has come to its end once (history)
  call        \* the requests in flight

archive == <<objects, backups, automatic>>
policy == <<grace, storage, maint, expired>>
vars == <<world, archive, session, policy, call>>

\* The Backup of a kind and a key is one, whatever its state.
Backup == [kind: {"manual", "restore_point", "final"}, key: Keys, state: States]
World == [status: {"sleeping", "awake", "pending", "gone"}, state: States \cup {None},
          applied: Seq(Keys), due: 0..DeletionDays \cup {None}]
NewWorld == [status |-> "sleeping", state |-> None, applied |-> <<>>, due |-> None]
Operations == {"manual", "restore", "delete"}
Call == [step: {"idle", "gated", "read", "protected"}, op: Operations \cup {None},
         key: Keys \cup {None},
         seen: States \cup {None},    \* the state of the World that it read
         current: BOOLEAN,            \* the row still has the version that it read
         target: States \cup {None},  \* the state that a restore goes back to
         fresh: BOOLEAN]              \* its restore point or final Backup is its own
Idle == [step |-> "idle", op |-> None, key |-> None, seen |-> None, current |-> FALSE,
         target |-> None, fresh |-> FALSE]
\* "read" is a request with a snapshot, "protected" one that has saved the current state too.

-------------------------------------------------------------------------------
(* The archive. *)

Room == Cardinality(backups) + Len(automatic) < MaxBackups

Existing(kind, key) == {b \in backups : b.kind = kind /\ b.key = key}

\* A copy of a state in the archive.
CreateAutomatic(state) ==
  /\ state \in objects /\ Room
  /\ automatic' = Append(automatic, state)
  /\ UNCHANGED backups
\* A retry of a request finds the Backup of its first attempt.
CreateBackup(kind, key, state) ==
  /\ state \in objects
  /\ IF Existing(kind, key) # {} THEN UNCHANGED backups
     ELSE Room /\ backups' = backups \cup {[kind |-> kind, key |-> key, state |-> state]}
  /\ UNCHANGED automatic

Lesser(m, n) == IF m < n THEN m ELSE n

\* What the World stores if this is its state, and how much of it is beyond the allowance.
StorageUsage(state) ==
  Cardinality(backups) + Len(automatic) + (IF state \in objects THEN 1 ELSE 0)
Beyond(used) == IF used > Allowance THEN used - Allowance ELSE 0

\* Nothing of a World that is pending deletion counts.
Active == world.status \in {"sleeping", "awake"}
StorageExcess == IF Active THEN Beyond(StorageUsage(world.state)) ELSE 0

-------------------------------------------------------------------------------
(* Requests. *)

\* Mutant: a save that leaves the version as it was.
VersionKept(request) == request
\* The row has a new version.  A request with nothing left to do but save the row fails.
Outdated(request) ==
  IF request.step = "protected" THEN Idle ELSE [request EXCEPT !.current = FALSE]

\* Everything that writes the row changes its version.
Write(row) == /\ world' = row
              /\ call' = [k \in Calls |-> Outdated(call[k])]

\* The request c saves the row, whose version is the one it read, and ends.
Save(c, row) == /\ world' = row
                /\ call' = [k \in Calls |-> IF k = c THEN Idle ELSE Outdated(call[k])]

CallEnds(c) ==
  /\ call[c].step # "idle"
  /\ call' = [call EXCEPT ![c] = Idle]
  /\ UNCHANGED <<world, archive, session, policy>>

\* Mutant: a restore does not look its key up.
AppliesAgain(op, key) == world.status = "sleeping"
\* The World has the status the operation requires, and a restore was not applied already.
Admits(op, key) ==
  /\ world.status = "sleeping"
  /\ op = "restore" => key \notin ToSet(world.applied)

\* A manual Backup asks the storage status before it reads the World.
PassGate(c, key) ==
  /\ call[c].step = "idle"
  /\ ~storage.blocked
  /\ call' = [call EXCEPT ![c] = [Idle EXCEPT !.step = "gated", !.op = "manual", !.key = key]]
  /\ UNCHANGED <<world, archive, session, policy>>

\* A request that is refused, or that finds its work done, does no more than this.
Snapshot(c, op, key) ==
  /\ Admits(op, key)
  /\ call' = [call EXCEPT ![c] = [Idle EXCEPT !.step = "read", !.op = op, !.key = key,
                                              !.seen = world.state, !.current = TRUE]]
  /\ UNCHANGED <<world, archive, session, policy>>
ReadGated(c) == call[c].step = "gated" /\ Snapshot(c, call[c].op, call[c].key)
Read(c, op, key) == call[c].step = "idle" /\ Snapshot(c, op, key)

At(c, step, op) == call[c].step = step /\ call[c].op = op

CreateManualBackup(c) ==
  /\ At(c, "read", "manual")
  /\ CreateBackup("manual", call[c].key, call[c].seen)
  /\ call' = [call EXCEPT ![c] = Idle]
  /\ UNCHANGED <<world, objects, session, policy>>

\* The request c saves the state it saw in a Backup that nothing prunes.
Protect(c, kind, target) ==
  /\ CreateBackup(kind, call[c].key, call[c].seen)
  /\ call' = [call EXCEPT ![c] =
       IF ~@.current THEN Idle
       ELSE [@ EXCEPT !.step = "protected", !.target = target,
                      !.fresh = Existing(kind, call[c].key) = {}]]
  /\ UNCHANGED <<world, objects, session, policy>>

CreateRestorePoint(c) ==
  /\ At(c, "read", "restore")
  /\ \E s \in {b.state : b \in backups} \cup ToSet(automatic) : Protect(c, "restore_point", s)

\* What is restored is the state itself, which has to be in the archive.
RestoreBackup(c) ==
  /\ At(c, "protected", "restore")
  /\ call[c].target \in objects
  /\ Save(c, [world EXCEPT !.state = call[c].target, !.applied = Append(@, call[c].key)])
  /\ UNCHANGED <<archive, session, policy>>

CreateFinalBackup(c) ==
  /\ At(c, "read", "delete")
  /\ Protect(c, "final", None)

\* Mutant: the deletion is due a day late.
ScheduleDeletionLate(c) ==
  /\ At(c, "protected", "delete")
  /\ Save(c, [world EXCEPT !.status = "pending", !.due = DeletionDays + 1])
  /\ UNCHANGED <<archive, session, policy>>
ScheduleDeletion(c) ==
  /\ At(c, "protected", "delete")
  /\ Save(c, [world EXCEPT !.status = "pending", !.due = DeletionDays])
  /\ UNCHANGED <<archive, session, policy>>

\* A cancellation and a wake do nothing between their read of the row and their save: what they
\* save is as of one moment.  Also a deletion that is due is cancelled, until the row is gone.
CancelDeletion ==
  /\ world.status = "pending"
  /\ Write([world EXCEPT !.status = "sleeping", !.due = None])
  /\ UNCHANGED <<archive, session, policy>>

\* A wake asks for no status: also a World that is pending deletion wakes, and keeps its date.
WakeWorld ==
  /\ ~storage.wakeBlocked
  /\ world.status # "gone"
  /\ Write([world EXCEPT !.status = "awake"])
  /\ session' = [step |-> "awake", state |-> None]
  /\ UNCHANGED <<archive, policy>>

-------------------------------------------------------------------------------
(* Sessions. *)

\* A safe sleep stores what was played.  Its name is its content: it may be stored already.
PersistState(s) ==
  /\ world.status = "awake" /\ session.step = "awake"
  /\ objects' = objects \cup {s}
  /\ session' = [step |-> "persisted", state |-> s]
  /\ UNCHANGED <<world, backups, automatic, policy, call>>

CreateAutomaticBackup ==
  /\ world.status = "awake" /\ session.step = "persisted"
  /\ CreateAutomatic(session.state)
  /\ session' = [session EXCEPT !.step = "backed_up"]
  /\ UNCHANGED <<world, objects, policy, call>>

FallAsleep ==
  /\ world.status = "awake" /\ session.step = "backed_up"
  /\ Write([world EXCEPT !.status = "sleeping", !.state = session.state])
  /\ session' = [step |-> "none", state |-> None]
  /\ UNCHANGED <<archive, policy>>

\* A wake that nobody could pay is called off.  Other failures leave the World awake here, until
\* a wake starts over with the state it had.
FailWakePreflight ==
  /\ world.status = "awake" /\ session.step = "awake"
  /\ Write([world EXCEPT !.status = "sleeping"])
  /\ session' = [step |-> "none", state |-> None]
  /\ UNCHANGED <<archive, policy>>

-------------------------------------------------------------------------------
(* The data maintenance: first the deletions that are due, then the storage. *)

MaintGoTo(step) == maint' = [maint EXCEPT !.step = step]
AtRest ==
  [step |-> "idle", state |-> None, excess |-> 0, toPrune |-> 0, funded |-> FALSE]
MaintenanceEnds == maint' = AtRest

Sooner(days) == IF days \in {0, None} THEN days ELSE days - 1
\* The maintenance of the next day, or one more of the same day, for the minute it starts in.
MaintainData(days) ==
  /\ maint.step \in {"idle", "stopped"}
  /\ MaintGoTo(IF world.status = "pending" THEN "purge" ELSE "measure")
  /\ IF days = 0 THEN UNCHANGED <<world, grace, expired>>
     ELSE /\ world' = [world EXCEPT !.due = Sooner(@)]
          /\ grace' = Sooner(grace)
          /\ expired' = (expired \/ Sooner(world.due) = 0)
  /\ UNCHANGED <<archive, session, storage, call>>

\* Mutant: the date is not compared.
FindPending ==
  /\ maint.step = "purge"
  /\ MaintGoTo(IF world.status = "pending" THEN "delete" ELSE "measure")
  /\ UNCHANGED <<world, archive, session, grace, storage, expired, call>>
\* The World is read again, this time with its date.
FindDue ==
  /\ maint.step = "purge"
  /\ MaintGoTo(IF world.status = "pending" /\ world.due = 0 THEN "delete" ELSE "measure")
  /\ UNCHANGED <<world, archive, session, grace, storage, expired, call>>

\* delete_world_data
DeleteWorldData ==
  /\ maint.step = "delete"
  /\ objects' = {} /\ backups' = {} /\ automatic' = <<>>
  /\ MaintGoTo("row")
  /\ UNCHANGED <<world, session, grace, storage, expired, call>>

\* The row goes whatever its version and its status are by now.
DeleteRow ==
  /\ maint.step = "row"
  /\ Write([NewWorld EXCEPT !.status = "gone"])
  /\ MaintGoTo("measure")
  /\ UNCHANGED <<archive, session, grace, storage, expired>>

\* StoragePolicyService.evaluate lists the Worlds and measures them.
Measure ==
  /\ maint.step = "measure"
  /\ maint' = [maint EXCEPT !.step = "settle", !.state = world.state, !.excess = StorageExcess]
  /\ UNCHANGED <<world, archive, session, grace, storage, expired, call>>

Relieved == maint.excess = 0 \/ maint.funded

\* Mutant: storage that fits needs no further evaluation.
LeaveGrace ==
  /\ maint.step = "settle" /\ Relieved
  /\ MaintenanceEnds
  /\ UNCHANGED <<world, archive, session, grace, storage, expired, call>>
EndGrace ==
  /\ maint.step = "settle" /\ Relieved
  /\ grace' = None
  /\ MaintGoTo("report")
  /\ UNCHANGED <<world, archive, session, storage, expired, call>>

\* The period starts if it has not, and runs while days are left of it.
RunGrace ==
  /\ maint.step = "settle" /\ ~Relieved
  /\ grace # 0
  /\ grace' = IF grace = None THEN GraceDays ELSE grace
  /\ MaintGoTo("report")
  /\ UNCHANGED <<world, archive, session, storage, expired, call>>

\* Mutant: also what was pruned in full leaves one Backup more to go.
OneMoreToPrune(candidates) == Lesser(maint.excess + 1, candidates)
\* How many Backups free the excess, if there are as many automatic ones.
BackupsToPrune(candidates) == Lesser(maint.excess, candidates)

\* The Worlds are those that were listed; their Backups are listed now.
ChoosePruned ==
  /\ maint.step = "settle" /\ ~Relieved
  /\ grace = 0
  /\ maint' = [maint EXCEPT !.step = "prune",
                            !.toPrune = BackupsToPrune(Len(automatic))]
  /\ UNCHANGED <<world, archive, session, grace, storage, expired, call>>

\* One call to the archive for each.
PruneOldestAutomatic ==
  /\ maint.step = "prune" /\ maint.toPrune > 0
  /\ automatic' = Tail(automatic)
  /\ maint' = [maint EXCEPT !.toPrune = @ - 1]
  /\ UNCHANGED <<world, objects, backups, session, grace, storage, expired, call>>

\* Mutant: pruning ends the period, also when excess remains.
MeasureAndForgive ==
  /\ maint.step = "prune" /\ maint.toPrune = 0
  /\ maint' = [maint EXCEPT !.step = "report", !.excess = Beyond(StorageUsage(maint.state))]
  /\ grace' = None
  /\ UNCHANGED <<world, archive, session, storage, expired, call>>
\* evaluate measures again, the Worlds as it listed them.
MeasurePruned ==
  /\ maint.step = "prune" /\ maint.toPrune = 0
  /\ LET excess == Beyond(StorageUsage(maint.state))
     IN  /\ maint' = [maint EXCEPT !.step = "report", !.excess = excess]
         /\ grace' = IF excess = 0 THEN None ELSE grace
  /\ UNCHANGED <<world, archive, session, storage, expired, call>>

\* save_status, over whatever status was there.
Report ==
  /\ maint.step = "report"
  /\ storage' = [blocked |-> grace # None, wakeBlocked |-> grace = 0]
  /\ IF Relieved THEN MaintenanceEnds
     ELSE maint' = [AtRest EXCEPT !.step = "charge"]
  /\ UNCHANGED <<world, archive, session, grace, expired, call>>

\* The Wallet pays for the excess of the month, or paid before; the storage is evaluated again.
ChargeStorage ==
  /\ maint.step = "charge"
  /\ maint' = [AtRest EXCEPT !.step = "measure", !.funded = TRUE]
  /\ UNCHANGED <<world, archive, session, grace, storage, expired, call>>

\* The Wallet has not enough.
LeaveUnfunded ==
  /\ maint.step = "charge"
  /\ MaintenanceEnds
  /\ UNCHANGED <<world, archive, session, grace, storage, expired, call>>

MaintenanceStops ==
  /\ maint.step \notin {"idle", "stopped"}
  /\ maint' = [AtRest EXCEPT !.step = "stopped"]
  /\ UNCHANGED <<world, archive, session, grace, storage, expired, call>>

-------------------------------------------------------------------------------
Init ==
  /\ world = NewWorld
  /\ objects = {} /\ backups = {} /\ automatic = <<>>
  /\ session = [step |-> "none", state |-> None]
  /\ grace = None /\ storage = [blocked |-> FALSE, wakeBlocked |-> FALSE]
  /\ maint = AtRest
  /\ expired = FALSE
  /\ call = [c \in Calls |-> Idle]

RequestsNext ==
  \/ \E c \in Calls :
       \/ \E key \in Keys : PassGate(c, key) \/ Read(c, "restore", key) \/ Read(c, "delete", key)
       \/ ReadGated(c) \/ CreateManualBackup(c)
       \/ CreateRestorePoint(c) \/ RestoreBackup(c)
       \/ CreateFinalBackup(c) \/ ScheduleDeletion(c) \/ CallEnds(c)
  \/ CancelDeletion \/ WakeWorld
SessionNext ==
  (\E s \in States : PersistState(s)) \/ CreateAutomaticBackup \/ FallAsleep \/ FailWakePreflight
MaintenanceNext ==
  \/ MaintainData(0) \/ MaintainData(1)
  \/ FindDue \/ DeleteWorldData \/ DeleteRow
  \/ Measure \/ EndGrace \/ RunGrace
  \/ ChoosePruned \/ PruneOldestAutomatic \/ MeasurePruned \/ Report
  \/ ChargeStorage \/ LeaveUnfunded
Next == RequestsNext \/ SessionNext \/ MaintenanceNext \/ MaintenanceStops

\* A maintenance goes on unless it stops, and is scheduled every day.
Spec ==
  Init /\ [][Next]_vars /\ WF_vars(MaintenanceNext) /\ SF_vars(MaintainData(1))

-------------------------------------------------------------------------------
(* What is checked. *)

Maintenance ==
  [step: {"idle", "stopped", "purge", "delete", "row", "measure", "settle", "prune", "report",
          "charge"},
   state: States \cup {None}, excess: Nat, toPrune: Nat, funded: BOOLEAN]

\* The type invariant.  The days of a Pending Deletion and of a Storage Grace Period stay in
\* their range, and an awake World is one with a session.
TypeOK ==
  /\ world \in World
  /\ objects \subseteq States
  /\ backups \subseteq Backup
  /\ automatic \in Seq(States)
  /\ session \in [step: {"none", "awake", "persisted", "backed_up"}, state: States \cup {None}]
  /\ session.step \in {"persisted", "backed_up"} => session.state \in States
  /\ world.status = "awake" => session.step # "none"
  /\ grace \in 0..GraceDays \cup {None}
  /\ storage \in [blocked: BOOLEAN, wakeBlocked: BOOLEAN]
  /\ maint \in Maintenance
  /\ expired \in BOOLEAN
  /\ call \in [Calls -> Call]

\* ADR 0006: GameWake never destroys the last recoverable copy of a World.  Sessions, restores
\* with snapshots of any age, pruning, and deletions that are cancelled or not due yet leave the
\* current state in the archive.
LastCopyIsKept == ~expired => world.state \in objects \cup {None}

\* A restore is applied once, whatever retries of it overlap with it or follow it (data.py:91).
RestoresApplyOnce ==
  \A i, j \in DOMAIN world.applied : world.applied[i] = world.applied[j] => i = j

\* A restore or a deletion takes effect only when the very state it gives up, whatever sessions
\* and prunings came between, is in a Backup that nothing prunes.  Not so for the retry of an
\* attempt that got as far as its Backup, which is kept as it was (s3_archive.py:238).
ProtectedFirst ==
  [][\A c \in Calls :
       call[c].step = "protected" /\ call[c].fresh /\ call'[c].step = "idle"
         /\ world' # world /\ ~expired
       => \E b \in backups : b.kind \in {"restore_point", "final"} /\ b.state = world.state]_vars

\* ADR 0022: before a deletion is due, only pruning takes Backups away, only once a whole
\* Storage Grace Period has passed, only automatic ones with the oldest first, and only until
\* usage falls to the allowance, although requests change the archive while it measures.
PruningIsBounded ==
  [][~expired' /\ ~(backups \subseteq backups' /\ Len(automatic) <= Len(automatic')) =>
       /\ grace = 0
       /\ backups' = backups /\ automatic' = Tail(automatic)
       /\ Active => StorageUsage(world.state)' >= Allowance]_vars

NoMoreStops == <>[](maint.step # "stopped")
\* Whatever the maintenance did before it stopped half way, and whatever status it left: once
\* the storage fits for good, what was blocked for it is allowed again.
BlocksAreLifted ==
  NoMoreStops /\ <>[](StorageExcess = 0)
    => <>[](~storage.blocked /\ ~storage.wakeBlocked)

\* Storage that nobody pays for does not stay beyond the allowance for ever: it is brought to
\* it, or the World cannot wake.
UnpaidExcessEnds ==
  NoMoreStops /\ <>[][~ChargeStorage]_vars
    => []<>(StorageExcess = 0 \/ storage.wakeBlocked)
===============================================================================
