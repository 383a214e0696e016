---------------------------- MODULE WorldLifecycle ----------------------------
(***************************************************************************)
(* The lifecycle of one World: the wake, sleep and recovery operations     *)
(* that move it between Sleeping and Online, the worker that advances an   *)
(* operation one durable phase at a time, the API requests that begin the  *)
(* operations and reserve credit for them, and the Step Functions          *)
(* execution that drives each operation.                                   *)
(*                                                                         *)
(* Every database transaction is one action.  A worker reads the           *)
(* operation, reads the World, performs its external effect and saves in   *)
(* four separate steps, so other workers and requests run in between; the  *)
(* save is a compare-and-swap on the versions it read.  A worker or a      *)
(* request may fail between any two of its steps.                          *)
(*                                                                         *)
(* An operation is identified by its idempotency key.  A Runtime and a     *)
(* Usage Reservation (with its Session Quote) are identified by the wake   *)
(* operation they were created for, and a stored state and its backup by   *)
(* the sleep operation, because those are the idempotency keys the code    *)
(* derives for them.                                                       *)
(***************************************************************************)
EXTENDS Naturals, FiniteSets

CONSTANTS
  WakeOps, SleepOps, RecoverOps,  \* idempotency keys, by the command that uses them
  Workers,    \* worker invocations that may be in flight at the same time
  Clients,    \* API request handlers that may be in flight at the same time
  WakeFrom,   \* the World statuses in which somebody asks for a new wake
  MaxEdits,   \* bound on the settings and configuration edits of the World
  None        \* the absent value

Ops == WakeOps \cup SleepOps \cup RecoverOps

ActiveStatuses   == {"pending", "running"}
TerminalStatuses == {"succeeded", "cancelled", "failed", "needs_attention"}
WorldStatuses    == {"sleeping", "waking", "online", "going_to_sleep", "needs_attention"}
Phases == {"requested", "provisioning_runtime", "restoring_world", "applying_configuration",
           "starting_game", "checking_game_health", "checking_players", "saving_game",
           "stopping_game", "persisting_world", "creating_backup", "releasing_runtime",
           "complete"}
MaxAttempts == 3  \* automatic recoveries allowed within fifteen minutes

ASSUME KeysAssumption ==
  /\ WakeOps \cap SleepOps = {}
  /\ WakeOps \cap RecoverOps = {}
  /\ SleepOps \cap RecoverOps = {}
  /\ None \notin Ops
ASSUME EnvironmentAssumption ==
  /\ WakeFrom \subseteq WorldStatuses
  /\ MaxEdits \in Nat
ASSUME FinitelyManyRecoveries == IsFiniteSet(RecoverOps)

VARIABLES
  world,        \* the row of the World
  op,           \* the rows of its operations, by idempotency key
  worker,       \* the worker invocations in flight: what each has read and done
  client,       \* the API requests in flight
  exec,         \* the Step Functions execution of each operation
  runtime,      \* the EC2 instance provisioned for each wake
  archived,     \* sleeps whose state was stored outside the Runtime and validated
  backups,      \* sleeps whose automatic backup exists
  reservation,  \* the Usage Reservation created for each wake
  usage,        \* operations whose Runtime Usage was captured
  guaranteed,   \* wakes whose charge the Wake Guarantee has credited back
  aged,         \* recoveries begun more than fifteen minutes ago
  edits         \* edits made so far, at most MaxEdits

billing == <<reservation, usage, guaranteed>>
storage == <<archived, backups>>
vars == <<world, op, worker, client, exec, runtime, storage, billing, aged, edits>>

World == [status: WorldStatuses, runtime: WakeOps \cup {None}, reservation: WakeOps \cup {None},
          started: BOOLEAN, stored: SleepOps \cup {None}, pending: BOOLEAN, version: Nat]
Operation == [status: ActiveStatuses \cup TerminalStatuses \cup {"absent"}, phase: Phases,
              runtime: WakeOps \cup {None}, reservation: WakeOps \cup {None},
              started: BOOLEAN, persisted: BOOLEAN, force: BOOLEAN, attempt: Nat, version: Nat]
\* What a worker invocation has read, and how far it is; and what an API request holds.
Invocation == [step: {"idle", "loaded", "ready", "acted", "released", "captured", "settled"},
               task: {"advance", "record_failure"}, op: Ops \cup {None}, seen: Operation,
               world: World, ok: BOOLEAN]
Request == [step: {"idle", "reserve", "attach", "release_reservation", "fail_preflight",
                   "dispatch"}, op: Ops \cup {None}]

\* An operation row before its first field is set; version 0 marks a row that does not exist.
NoOperation == [status |-> "absent", phase |-> "requested", runtime |-> None,
                reservation |-> None, started |-> FALSE, persisted |-> FALSE, force |-> FALSE,
                attempt |-> 0, version |-> 0]
NewOperation == [NoOperation EXCEPT !.status = "pending", !.version = 1]
NewWorld == [status |-> "sleeping", runtime |-> None, reservation |-> None, started |-> FALSE,
             stored |-> None, pending |-> FALSE, version |-> 1]

IdleWorker == [step |-> "idle", task |-> "advance", op |-> None, seen |-> NoOperation,
               world |-> NewWorld, ok |-> TRUE]
IdleClient == [step |-> "idle", op |-> None]

Active(o) == op[o].status \in ActiveStatuses

Init ==
  /\ world = NewWorld
  /\ op = [o \in Ops |-> NoOperation]
  /\ worker = [w \in Workers |-> IdleWorker]
  /\ client = [c \in Clients |-> IdleClient]
  /\ exec = [o \in Ops |-> "none"]
  /\ runtime = [o \in WakeOps |-> "absent"]
  /\ archived = {} /\ backups = {}
  /\ reservation = [o \in WakeOps |-> "none"]
  /\ usage = {} /\ guaranteed = {}
  /\ aged = {} /\ edits = 0

-------------------------------------------------------------------------------
(* Requests: one client per API call, which may stop after any step. *)

\* A new operation is inserted only when its key is unused and no other is active.
BeginOperation(k, status, operation) ==
  /\ op[k].status = "absent"
  /\ \A o \in Ops : ~Active(o)
  /\ op' = [op EXCEPT ![k] = operation]
  /\ world' = [world EXCEPT !.status = status, !.version = @ + 1]

\* Otherwise the caller gets the operation of that key, else the active one.
Joined(k) == IF op[k].status # "absent" THEN {k} ELSE {o \in Ops : Active(o)}

Move(c, step, o) == client' = [client EXCEPT ![c] = [step |-> step, op |-> o]]

\* The wake request: begin or join; only the key's own unreserved wake is reserved for,
\* and a joined operation is dispatched again only when it has its reservation.
RequestWake(c, k) ==
  /\ client[c].step = "idle"
  /\ \/ /\ world.status \in WakeFrom
        /\ BeginOperation(k, "waking", NewOperation)
        /\ Move(c, "reserve", k)
     \/ /\ \E o \in Joined(k) :
             /\ o = k \/ op[o].reservation # None
             /\ Move(c, IF op[o].reservation = None THEN "reserve" ELSE "dispatch", o)
        /\ UNCHANGED <<world, op>>
  /\ UNCHANGED <<worker, exec, runtime, storage, billing, aged, edits>>

\* Quote and reservation are idempotent by key: an existing one is returned as it is.
Reserve(c) ==
  /\ client[c].step = "reserve"
  /\ LET k == client[c].op IN
       /\ reservation' = [reservation EXCEPT ![k] = IF @ = "none" THEN "active" ELSE @]
       /\ Move(c, "attach", k)
  /\ UNCHANGED <<world, op, worker, exec, runtime, storage, usage, guaranteed, aged, edits>>

\* Insufficient credit or budget, or any other error before a reservation was returned.
ReserveFails(c) ==
  /\ client[c].step = "reserve"
  /\ Move(c, "fail_preflight", client[c].op)
  /\ UNCHANGED <<world, op, worker, exec, runtime, storage, billing, aged, edits>>

AttachBillingSession(c) ==
  /\ client[c].step = "attach"
  /\ LET k == client[c].op IN
       /\ \/ /\ op[k].reservation # None      \* attached already: return it
             /\ UNCHANGED <<world, op>>
          \/ /\ op[k].reservation = None
             /\ op[k].phase = "requested"
             /\ op' = [op EXCEPT ![k].reservation = k, ![k].version = @ + 1]
             /\ world' = [world EXCEPT !.reservation = k, !.version = @ + 1]
       /\ Move(c, "dispatch", k)
  /\ UNCHANGED <<worker, exec, runtime, storage, billing, aged, edits>>

\* The phase is past "requested", a version changed under the save, or the database failed.
AttachFails(c) ==
  /\ client[c].step = "attach"
  /\ Move(c, "release_reservation", client[c].op)
  /\ UNCHANGED <<world, op, worker, exec, runtime, storage, billing, aged, edits>>

\* A captured reservation cannot be released: the call raises (RequestEnds).
ReleaseReservation(c) ==
  /\ client[c].step = "release_reservation"
  /\ LET k == client[c].op IN
       /\ reservation[k] \in {"active", "released"}
       /\ reservation' = [reservation EXCEPT ![k] = "released"]
       /\ Move(c, "fail_preflight", k)
  /\ UNCHANGED <<world, op, worker, exec, runtime, storage, usage, guaranteed, aged, edits>>

\* Mutant: fails the wake without reading whether it is still in progress.
FailWakePreflightUnchecked(c) ==
  /\ client[c].step = "fail_preflight"
  /\ LET k == client[c].op IN
       op' = [op EXCEPT ![k].status = "failed", ![k].phase = "complete", ![k].version = @ + 1]
  /\ world' = [world EXCEPT !.status = "sleeping", !.reservation = None, !.started = FALSE,
                            !.version = @ + 1]
  /\ client' = [client EXCEPT ![c] = IdleClient]
  /\ UNCHANGED <<worker, exec, runtime, storage, billing, aged, edits>>

FailWakePreflight(c) ==
  /\ client[c].step = "fail_preflight"
  /\ LET k == client[c].op IN
       IF Active(k)
       THEN /\ op' = [op EXCEPT ![k].status = "failed", ![k].phase = "complete",
                                ![k].version = @ + 1]
            /\ world' = [world EXCEPT !.status = "sleeping", !.reservation = None,
                                      !.started = FALSE, !.version = @ + 1]
       ELSE UNCHANGED <<world, op>>
  /\ client' = [client EXCEPT ![c] = IdleClient]
  /\ UNCHANGED <<worker, exec, runtime, storage, billing, aged, edits>>

\* Starting an execution is idempotent by its name, which derives from the operation.
StartExecution(o) == exec' = [exec EXCEPT ![o] = IF @ = "none" THEN "advancing" ELSE @]

Dispatch(c) ==
  /\ client[c].step = "dispatch"
  /\ StartExecution(client[c].op)
  /\ client' = [client EXCEPT ![c] = IdleClient]
  /\ UNCHANGED <<world, op, worker, runtime, storage, billing, aged, edits>>

\* The request raises or its process stops: the rest of its steps never happen.
RequestEnds(c) ==
  /\ client[c].step # "idle"
  /\ client' = [client EXCEPT ![c] = IdleClient]
  /\ UNCHANGED <<world, op, worker, exec, runtime, storage, billing, aged, edits>>

\* The sleep request of a player, or of the session monitor when the World is idle or
\* (with force) when its balance no longer covers the session.
RequestSleep(c, k, force) ==
  /\ client[c].step = "idle"
  /\ world.status = "online"
  /\ \/ /\ BeginOperation(k, "going_to_sleep",
             [NewOperation EXCEPT !.runtime = world.runtime, !.reservation = world.reservation,
                                  !.started = world.started, !.force = force])
        /\ Move(c, "dispatch", k)
     \/ /\ \E o \in Joined(k) : Move(c, "dispatch", o)
        /\ UNCHANGED <<world, op>>
  /\ UNCHANGED <<worker, exec, runtime, storage, billing, aged, edits>>

RecentRecoveries == {o \in RecoverOps : op[o].status # "absent" /\ o \notin aged}

\* Mutant: numbers the attempts from zero.
RequestRecoveryFromZero(k) ==
  /\ Cardinality(RecentRecoveries) < MaxAttempts
  /\ world.status \in {"online", "waking"}
  /\ BeginOperation(k, "waking",
       [NewOperation EXCEPT !.runtime = world.runtime,
                            !.attempt = Cardinality(RecentRecoveries)])
  /\ UNCHANGED <<worker, client, exec, runtime, storage, billing, aged, edits>>

RequestAutomaticRecovery(k) ==
  /\ Cardinality(RecentRecoveries) < MaxAttempts
  /\ world.status \in {"online", "waking"}
  /\ BeginOperation(k, "waking",
       [NewOperation EXCEPT !.runtime = world.runtime,
                            !.attempt = Cardinality(RecentRecoveries) + 1])
  /\ UNCHANGED <<worker, client, exec, runtime, storage, billing, aged, edits>>

\* Fifteen minutes pass after a recovery was requested.
RecoveryAges(o) ==
  /\ op[o].status # "absent" /\ o \notin aged
  /\ aged' = aged \cup {o}
  /\ UNCHANGED <<world, op, worker, client, exec, runtime, storage, billing, edits>>

\* A settings edit, or the monitor noting since when the World is empty, saves the World;
\* a configuration edit also leaves a revision pending for the next wake.
EditWorld ==
  /\ edits < MaxEdits
  /\ \E pending \in {world.pending, TRUE} :
       world' = [world EXCEPT !.pending = pending, !.version = @ + 1]
  /\ edits' = edits + 1
  /\ UNCHANGED <<op, worker, client, exec, runtime, storage, billing, aged>>

-------------------------------------------------------------------------------
(* The Step Functions execution of an operation. *)

\* Reconciliation starts the execution of an active operation, or redrives a failed one.
Reconcile(o) ==
  /\ Active(o)
  /\ exec[o] \in {"none", "failed"}
  /\ exec' = [exec EXCEPT ![o] = IF @ = "none" THEN "advancing" ELSE "recording"]
  /\ UNCHANGED <<world, op, worker, client, runtime, storage, billing, aged, edits>>

\* The execution invokes the worker, which first reads the operation.  The task has
\* retries, so an earlier invocation whose answer was lost may still be in flight.
LoadOperation(w, o) ==
  /\ worker[w].step = "idle"
  /\ exec[o] \in {"advancing", "recording"}
  /\ \/ /\ Active(o)
        /\ worker' = [worker EXCEPT ![w] =
             [IdleWorker EXCEPT !.step = "loaded", !.op = o, !.seen = op[o],
                !.task = IF exec[o] = "advancing" THEN "advance" ELSE "record_failure"]]
        /\ UNCHANGED exec
     \/ /\ ~Active(o)
        /\ exec' = [exec EXCEPT ![o] = "done"]
        /\ UNCHANGED worker
  /\ UNCHANGED <<world, op, client, runtime, storage, billing, aged, edits>>

LoadWorld(w) ==
  /\ worker[w].step = "loaded"
  /\ worker' = [worker EXCEPT ![w].step = "ready", ![w].world = world]
  /\ UNCHANGED <<world, op, client, exec, runtime, storage, billing, aged, edits>>

\* The invocation raises, times out or loses its save to a newer version.  The task is
\* retried or caught; a failed RecordFailure task fails the execution.
InvocationFails(w) ==
  /\ worker[w].step # "idle"
  /\ worker' = [worker EXCEPT ![w] = IdleWorker]
  /\ LET o == worker[w].op IN
       \E next \in CASE exec[o] = "advancing" -> {"advancing", "recording"}
                     [] exec[o] = "recording" -> {"recording", "failed"}
                     [] OTHER -> {exec[o]} :
         exec' = [exec EXCEPT ![o] = next]
  /\ UNCHANGED <<world, op, client, runtime, storage, billing, aged, edits>>

-------------------------------------------------------------------------------
(* The worker's external effects, each idempotent by a key of the operation. *)

At(w, step, ops, phases) ==
  /\ worker[w].step = step
  /\ worker[w].task = "advance"
  /\ worker[w].op \in ops
  /\ worker[w].seen.phase \in phases

Acted(w, step) == worker' = [worker EXCEPT ![w].step = step]

\* EC2 returns the instance of the operation's client token, terminated or not.
Provision(w) ==
  /\ At(w, "ready", WakeOps, {"provisioning_runtime"})
  /\ runtime' = [runtime EXCEPT ![worker[w].op] = IF @ = "absent" THEN "live" ELSE @]
  /\ Acted(w, "acted")
  /\ UNCHANGED <<world, op, client, exec, storage, billing, aged, edits>>

Reachable(w) ==
  /\ worker[w].seen.runtime # None
  /\ runtime[worker[w].seen.runtime] = "live"

\* Commands on the host: restore, configure, start, save, stop, and the two that answer,
\* the health check and the player count (ok: healthy, or nobody is playing).
RunHostCommand(w) ==
  /\ \/ At(w, "ready", WakeOps, {"restoring_world", "applying_configuration", "starting_game",
                                 "checking_game_health", "stopping_game"})
     \/ At(w, "ready", SleepOps, {"checking_players", "saving_game", "stopping_game"})
     \/ At(w, "ready", RecoverOps, {"starting_game", "checking_game_health"})
  /\ Reachable(w)
  /\ \E ok \in BOOLEAN :
       /\ ~ok => worker[w].seen.phase \in {"checking_game_health", "checking_players"}
       /\ worker' = [worker EXCEPT ![w].step = "acted", ![w].ok = ok]
  /\ UNCHANGED <<world, op, client, exec, runtime, storage, billing, aged, edits>>

PersistState(w) ==
  /\ At(w, "ready", SleepOps, {"persisting_world"})
  /\ Reachable(w)
  /\ \E validated \in BOOLEAN :
       /\ worker' = [worker EXCEPT ![w].step = "acted", ![w].ok = validated]
       /\ archived' = IF validated THEN archived \cup {worker[w].op} ELSE archived
  /\ UNCHANGED <<world, op, client, exec, runtime, backups, billing, aged, edits>>

CreateBackup(w) ==
  /\ At(w, "ready", SleepOps, {"creating_backup"})
  /\ worker[w].seen.persisted
  /\ backups' = backups \cup {worker[w].op}
  /\ Acted(w, "acted")
  /\ UNCHANGED <<world, op, client, exec, runtime, archived, billing, aged, edits>>

\* Mutant: cleans up after any operation, a failed sleep included.
CleaningUpAny(w) == worker[w].task = "record_failure"

\* A recorded failure of a wake cleans up the Runtime the operation knows of, if any.
CleaningUp(w) == worker[w].task = "record_failure" /\ worker[w].op \in WakeOps

ReleaseRuntime(w) ==
  /\ \/ At(w, "ready", WakeOps \cup SleepOps, {"releasing_runtime"})
     \/ CleaningUp(w) /\ worker[w].step = "ready"
  /\ worker[w].seen.runtime # None
  /\ runtime' = [runtime EXCEPT ![worker[w].seen.runtime] = "released"]
  /\ Acted(w, "released")
  /\ UNCHANGED <<world, op, client, exec, storage, billing, aged, edits>>

\* Mutant: charges a failed wake before its Runtime is released.
CaptureUsageFirst(w) ==
  /\ worker[w].step \in {"ready", "released"}
  /\ worker[w].seen.reservation # None /\ worker[w].seen.started
  /\ worker[w].seen.runtime # None
  /\ worker[w].op \notin usage
  /\ usage' = usage \cup {worker[w].op}
  /\ Acted(w, IF worker[w].step = "ready" THEN "ready" ELSE "captured")
  /\ UNCHANGED <<world, op, client, exec, runtime, storage, reservation, guaranteed, aged, edits>>

\* Mutant: captures the usage of a failed wake and forgets the Wake Guarantee.
CaptureUsageOnly(w) ==
  /\ worker[w].step = "released"
  /\ worker[w].seen.reservation # None /\ worker[w].seen.started
  /\ usage' = usage \cup {worker[w].op}
  /\ Acted(w, "settled")
  /\ UNCHANGED <<world, op, client, exec, runtime, storage, reservation, guaranteed, aged, edits>>

\* Mutant: credits the usage of every operation back, as if none had reached Online.
CaptureUsageAndCredit(w) ==
  /\ worker[w].step = "released"
  /\ worker[w].seen.reservation # None /\ worker[w].seen.started
  /\ worker[w].op \notin usage /\ reservation[worker[w].seen.reservation] = "active"
  /\ usage' = usage \cup {worker[w].op}
  /\ reservation' = [reservation EXCEPT ![worker[w].seen.reservation] = "captured"]
  /\ Acted(w, "captured")
  /\ UNCHANGED <<world, op, client, exec, runtime, storage, guaranteed, aged, edits>>

\* Usage is captured once per operation, from a reservation that is still active and
\* covers it; without a complete billing session, or otherwise, the call raises.
CaptureUsage(w) ==
  /\ worker[w].step = "released"
  /\ worker[w].seen.reservation # None /\ worker[w].seen.started
  /\ LET o == worker[w].op
         r == worker[w].seen.reservation IN
       \/ o \in usage /\ UNCHANGED <<usage, reservation>>
       \/ /\ o \notin usage /\ reservation[r] = "active"
          /\ usage' = usage \cup {o}
          /\ reservation' = [reservation EXCEPT ![r] = "captured"]
  /\ Acted(w, IF worker[w].op \in WakeOps THEN "captured" ELSE "settled")
  /\ UNCHANGED <<world, op, client, exec, runtime, storage, guaranteed, aged, edits>>

ApplyWakeGuarantee(w) ==
  /\ worker[w].step = "captured"
  /\ guaranteed' = guaranteed \cup {worker[w].op}
  /\ Acted(w, "settled")
  /\ UNCHANGED <<world, op, client, exec, runtime, storage, reservation, usage, aged, edits>>

\* A wake that recorded no Runtime has its reservation, if any, released instead.
CancelReservation(w) ==
  /\ CleaningUp(w) /\ worker[w].step = "ready"
  /\ worker[w].seen.runtime = None
  /\ LET r == worker[w].seen.reservation IN
       \/ r = None /\ UNCHANGED reservation
       \/ /\ r # None /\ reservation[r] \in {"active", "released"}
          /\ reservation' = [reservation EXCEPT ![r] = "released"]
  /\ Acted(w, "settled")
  /\ UNCHANGED <<world, op, client, exec, runtime, storage, usage, guaranteed, aged, edits>>

-------------------------------------------------------------------------------
(* The worker's saves: each compares the versions the worker read. *)

SaveOperation(w, operation) ==
  /\ op[worker[w].op].version = worker[w].seen.version
  /\ op' = [op EXCEPT ![worker[w].op] = [operation EXCEPT !.version = @ + 1]]
  /\ worker' = [worker EXCEPT ![w] = IdleWorker]
  /\ UNCHANGED <<world, client, exec, runtime, storage, billing, aged, edits>>

\* Mutant: saves without comparing versions, so that the last write wins.
SaveBothUnchecked(w, operation, newWorld) ==
  /\ op' = [op EXCEPT ![worker[w].op] = [operation EXCEPT !.version = @ + 1]]
  /\ world' = [newWorld EXCEPT !.version = @ + 1]
  /\ exec' = [exec EXCEPT ![worker[w].op] = "done"]
  /\ worker' = [worker EXCEPT ![w] = IdleWorker]
  /\ UNCHANGED <<client, runtime, storage, billing, aged, edits>>

SaveBoth(w, operation, newWorld) ==
  /\ op[worker[w].op].version = worker[w].seen.version
  /\ world.version = worker[w].world.version
  /\ op' = [op EXCEPT ![worker[w].op] = [operation EXCEPT !.version = @ + 1]]
  /\ world' = [newWorld EXCEPT !.version = @ + 1]
  /\ exec' = IF operation.status \in TerminalStatuses
             THEN [exec EXCEPT ![worker[w].op] = "done"] ELSE exec
  /\ worker' = [worker EXCEPT ![w] = IdleWorker]
  /\ UNCHANGED <<client, runtime, storage, billing, aged, edits>>

ToPhase(w, phase) ==
  SaveOperation(w, [worker[w].seen EXCEPT !.status = "running", !.phase = phase])

\* The phase a completed phase leads to, when nothing but the operation changes.
NextPhase(w) ==
  \/ At(w, "ready", WakeOps, {"requested"}) /\ ToPhase(w, "provisioning_runtime")
  \/ At(w, "acted", WakeOps, {"restoring_world"}) /\ ToPhase(w, "applying_configuration")
  \/ /\ At(w, "acted", WakeOps, {"applying_configuration"})
     /\ ~worker[w].world.pending
     /\ ToPhase(w, "starting_game")
  \/ At(w, "acted", WakeOps, {"starting_game"}) /\ ToPhase(w, "checking_game_health")
  \/ /\ At(w, "acted", WakeOps, {"checking_game_health"})
     /\ ~worker[w].ok
     /\ ToPhase(w, "stopping_game")
  \/ At(w, "acted", WakeOps, {"stopping_game"}) /\ ToPhase(w, "releasing_runtime")
  \/ /\ At(w, "ready", SleepOps, {"requested"}) /\ worker[w].seen.runtime # None
     /\ ToPhase(w, "checking_players")
  \/ /\ At(w, "acted", SleepOps, {"checking_players"})
     /\ worker[w].ok \/ worker[w].seen.force
     /\ ToPhase(w, "saving_game")
  \/ At(w, "acted", SleepOps, {"saving_game"}) /\ ToPhase(w, "stopping_game")
  \/ At(w, "acted", SleepOps, {"stopping_game"}) /\ ToPhase(w, "persisting_world")
  \/ /\ At(w, "ready", RecoverOps, {"requested"}) /\ worker[w].seen.runtime # None
     /\ ToPhase(w, "starting_game")
  \/ At(w, "acted", RecoverOps, {"starting_game"}) /\ ToPhase(w, "checking_game_health")

\* Mutant: records the Runtime in the operation and not in the World.
SaveProvisionedInOperation(w) ==
  /\ At(w, "acted", WakeOps, {"provisioning_runtime"})
  /\ SaveOperation(w, [worker[w].seen EXCEPT !.phase = "restoring_world",
                         !.runtime = worker[w].op, !.started = TRUE])

SaveProvisioned(w) ==
  /\ At(w, "acted", WakeOps, {"provisioning_runtime"})
  /\ SaveBoth(w,
       [worker[w].seen EXCEPT !.phase = "restoring_world", !.runtime = worker[w].op,
                              !.started = TRUE],
       [worker[w].world EXCEPT !.runtime = worker[w].op, !.started = TRUE])

SaveConfigured(w) ==
  /\ At(w, "acted", WakeOps, {"applying_configuration"})
  /\ worker[w].world.pending
  /\ SaveBoth(w, [worker[w].seen EXCEPT !.status = "running", !.phase = "starting_game"],
                 [worker[w].world EXCEPT !.pending = FALSE])

SaveOnline(w) ==
  /\ At(w, "acted", WakeOps, {"checking_game_health"})
  /\ worker[w].ok
  /\ SaveBoth(w, [worker[w].seen EXCEPT !.status = "succeeded", !.phase = "complete"],
                 [worker[w].world EXCEPT !.status = "online"])

\* A failed wake whose Runtime and reservation are settled.
SaveFailedWake(w) ==
  /\ worker[w].step = "settled"
  /\ worker[w].op \in WakeOps
  /\ SaveBoth(w,
       [worker[w].seen EXCEPT !.status = "needs_attention",
          !.phase = IF worker[w].task = "advance" THEN "complete" ELSE @],
       [worker[w].world EXCEPT !.status = "needs_attention", !.runtime = None,
                               !.reservation = None, !.started = FALSE])

\* Somebody plays and nobody forces the sleep.
SaveCancelledSleep(w) ==
  /\ At(w, "acted", SleepOps, {"checking_players"})
  /\ ~worker[w].ok /\ ~worker[w].seen.force
  /\ SaveBoth(w, [worker[w].seen EXCEPT !.status = "cancelled", !.phase = "complete"],
                 [worker[w].world EXCEPT !.status = "online"])

\* Mutant: releases the Runtime without making the automatic backup.
SavePersistedWithoutBackup(w) ==
  /\ At(w, "acted", SleepOps, {"persisting_world"})
  /\ worker[w].ok
  /\ SaveOperation(w, [worker[w].seen EXCEPT !.phase = "releasing_runtime", !.persisted = TRUE])

SavePersisted(w) ==
  /\ At(w, "acted", SleepOps, {"persisting_world"})
  /\ worker[w].ok
  /\ SaveOperation(w, [worker[w].seen EXCEPT !.phase = "creating_backup", !.persisted = TRUE])

SaveBackedUp(w) ==
  /\ At(w, "acted", SleepOps, {"creating_backup"})
  /\ SaveOperation(w, [worker[w].seen EXCEPT !.phase = "releasing_runtime"])

\* Mutant: points the World at the Runtime it released instead of at the stored state.
SaveSleptMisplaced(w) ==
  /\ At(w, "settled", SleepOps, {"releasing_runtime"})
  /\ SaveBoth(w, [worker[w].seen EXCEPT !.status = "succeeded", !.phase = "complete"],
       [worker[w].world EXCEPT !.status = "sleeping", !.runtime = None, !.reservation = None,
          !.started = FALSE, !.stored = worker[w].seen.runtime])

SaveSlept(w) ==
  /\ At(w, "settled", SleepOps, {"releasing_runtime"})
  /\ SaveBoth(w, [worker[w].seen EXCEPT !.status = "succeeded", !.phase = "complete"],
       [worker[w].world EXCEPT !.status = "sleeping", !.runtime = None, !.reservation = None,
          !.started = FALSE, !.stored = IF worker[w].seen.persisted THEN worker[w].op ELSE None])

\* A state that was not validated, or a recorded failure of a sleep or a recovery:
\* the World keeps its Runtime and its reservation.
SaveNeedsAttention(w) ==
  /\ \/ At(w, "acted", SleepOps, {"persisting_world"}) /\ ~worker[w].ok
     \/ /\ worker[w].task = "record_failure" /\ worker[w].step = "ready"
        /\ worker[w].op \in SleepOps \cup RecoverOps
  /\ SaveBoth(w, [worker[w].seen EXCEPT !.status = "needs_attention"],
                 [worker[w].world EXCEPT !.status = "needs_attention"])

SaveRecovery(w) ==
  /\ At(w, "acted", RecoverOps, {"checking_game_health"})
  /\ LET exhausted == worker[w].seen.attempt >= MaxAttempts
         result == CASE worker[w].ok -> <<"succeeded", "online">>
                     [] ~worker[w].ok /\ exhausted -> <<"needs_attention", "needs_attention">>
                     [] OTHER -> <<"failed", "waking">> IN
       SaveBoth(w, [worker[w].seen EXCEPT !.status = result[1], !.phase = "complete"],
                   [worker[w].world EXCEPT !.status = result[2]])

-------------------------------------------------------------------------------
ClientNext(c) ==
  \/ \E k \in WakeOps : RequestWake(c, k)
  \/ Reserve(c) \/ ReserveFails(c)
  \/ AttachBillingSession(c) \/ AttachFails(c)
  \/ ReleaseReservation(c) \/ FailWakePreflight(c)
  \/ Dispatch(c) \/ RequestEnds(c)
  \/ \E k \in SleepOps, force \in BOOLEAN : RequestSleep(c, k, force)

WorkerNext(w) ==
  \/ \E o \in Ops : LoadOperation(w, o)
  \/ LoadWorld(w) \/ InvocationFails(w)
  \/ Provision(w) \/ RunHostCommand(w) \/ PersistState(w) \/ CreateBackup(w)
  \/ ReleaseRuntime(w) \/ CaptureUsage(w) \/ ApplyWakeGuarantee(w) \/ CancelReservation(w)
  \/ NextPhase(w) \/ SaveProvisioned(w) \/ SaveConfigured(w) \/ SaveOnline(w)
  \/ SaveFailedWake(w) \/ SaveCancelledSleep(w) \/ SavePersisted(w) \/ SaveBackedUp(w)
  \/ SaveSlept(w) \/ SaveNeedsAttention(w) \/ SaveRecovery(w)

Next ==
  \/ \E c \in Clients : ClientNext(c)
  \/ \E w \in Workers : WorkerNext(w)
  \/ \E o \in RecoverOps : RequestAutomaticRecovery(o) \/ RecoveryAges(o)
  \/ \E o \in Ops : Reconcile(o)
  \/ EditWorld

Spec == Init /\ [][Next]_vars

-------------------------------------------------------------------------------
(* Properties *)

\* The variables hold the values the code can store.
TypeOK ==
  /\ world \in World
  /\ op \in [Ops -> Operation]
  /\ worker \in [Workers -> Invocation]
  /\ client \in [Clients -> Request]
  /\ exec \in [Ops -> {"none", "advancing", "recording", "failed", "done"}]
  /\ runtime \in [WakeOps -> {"absent", "live", "released"}]
  /\ archived \subseteq SleepOps /\ backups \subseteq SleepOps
  /\ reservation \in [WakeOps -> {"none", "active", "captured", "released"}]
  /\ usage \subseteq Ops /\ guaranteed \subseteq Ops
  /\ aged \subseteq RecoverOps
  /\ edits \in Nat

\* At most one lifecycle operation of the World is pending or running (ADR 0018), however
\* requests, retries and failed wakes interleave.
OneActiveOperation == \A a, b \in Ops : Active(a) /\ Active(b) => a = b

\* The World shows a transition exactly while an operation of that kind is active: a stale
\* save or a request never leaves it waking or going to sleep with nothing to finish it,
\* except after an automatic recovery that failed and may be tried again.
TransitionsAreOwned ==
  /\ \A o \in WakeOps \cup RecoverOps : Active(o) => world.status = "waking"
  /\ \A o \in SleepOps : Active(o) => world.status = "going_to_sleep"
  /\ world.status = "going_to_sleep" => \E o \in SleepOps : Active(o)
  /\ world.status = "waking" => \/ \E o \in WakeOps \cup RecoverOps : Active(o)
                                \/ \E o \in RecoverOps : op[o].status = "failed"

\* The state the next wake restores was stored outside the Runtime, validated and backed up
\* before the World pointed at it (the Recovery Guarantee, ADR 0006).
StoredStateIsRecoverable == world.stored # None => world.stored \in archived \cap backups

\* A session is charged only after its Runtime was released: a captured usage never belongs
\* to an instance that still runs.
ChargedOnlyAfterRelease ==
  \A o \in usage : op[o].runtime # None /\ runtime[op[o].runtime] = "released"

\* A wake that ends in Needs Attention never keeps a charge: if its usage was captured, by
\* whichever invocation, the Wake Guarantee credited it before the operation ended (ADR 0007).
FailedWakeIsCompensated ==
  \A o \in WakeOps \cap usage : op[o].status = "needs_attention" => o \in guaranteed

\* A wake that reached Online is never credited back, and its World keeps its Runtime until
\* a sleep, even when a recorded failure and a late health check concern the same operation.
GuaranteeOnlyForFailedWakes == \A o \in guaranteed : op[o].status # "succeeded"

\* An Online World has the instance it says it has.
OnlineRuntimeIsLive ==
  world.status = "online" => world.runtime # None /\ runtime[world.runtime] = "live"

\* A Runtime whose wake reached Online is released only by a sleep that has archived and
\* backed up its state (the Recovery Guarantee, ADR 0006).
PlayedRuntimeReleasedSafely ==
  [][\A r \in WakeOps :
       runtime[r] = "live" /\ runtime'[r] = "released" /\ op[r].status = "succeeded" =>
         \E s \in archived \cap backups : op[s].runtime = r]_vars

\* Automatic recovery is tried at most three times within fifteen minutes, and a World it
\* leaves waking with nothing in progress always has an attempt left: the attempt that uses
\* up the allowance ends in Needs Attention instead (ADR 0019).
RecoveryIsBounded ==
  /\ Cardinality(RecentRecoveries) <= MaxAttempts
  /\ world.status = "waking" /\ (\A o \in Ops : ~Active(o)) =>
       Cardinality(RecentRecoveries) < MaxAttempts

\* The lifecycle implements the public state machine of a World: however its workers and
\* requests overlap or fail, operations run one at a time and at most once, statuses follow
\* the documented transitions, and only a completed sleep replaces the stored state.
StateMachine == INSTANCE WorldStateMachine WITH
  status <- world.status,
  stored <- world.stored,
  running <- {o \in Ops : Active(o)},
  finished <- {o \in Ops : op[o].status \in TerminalStatuses}
FollowsStateMachine == StateMachine!Spec

-------------------------------------------------------------------------------
(* What the documents say of the lifecycle and the code does not keep: TLC finds the
   behaviour that breaks it. *)

\* No orphan Runtime: an instance that runs belongs to an operation in progress or is the
\* one the World records (MVP_AUDIT, incident runbook).
LiveRuntimeIsRecorded ==
  \A o \in WakeOps : runtime[o] = "live" => Active(o) \/ world.runtime = o
===============================================================================
