----------------------------- MODULE HostOperations -----------------------------
(***************************************************************************)
(* The commands that the worker runs on the instance of a World, and what  *)
(* they do to the data that was played there.                              *)
(*                                                                         *)
(* A command has a marker, made of its operation and its effect.  The host *)
(* runs one command of a marker at a time, keeps the output of the first   *)
(* that ends, and answers later ones with it.  The worker repeats an       *)
(* effect whose answer it did not get: commands of one marker may be under *)
(* way several times, arrive late or never, and be killed half way.        *)
(*                                                                         *)
(* What was played is a number that grows: a state with a larger one       *)
(* contains the states with smaller ones.  Configuration, quotas of        *)
(* retries and everything the lifecycle does outside the instance are in   *)
(* other modules.  An instance that a wake leaves behind is not followed.  *)
(***************************************************************************)
EXTENDS Naturals

CONSTANTS
  MaxOps,       \* bound: operations of one Runtime
  MaxSends,     \* bound: commands of one marker that have not begun
  MaxProgress,  \* bound: what is played of a World
  Partial,      \* a directory that is half removed or half extracted
  None          \* the absent value

ASSUME HostAssumption ==
  /\ MaxOps \in Nat \ {0} /\ MaxSends \in Nat \ {0} /\ MaxProgress \in Nat
  /\ None \notin Nat /\ Partial \notin Nat /\ Partial # None

VARIABLES
  world,    \* its status and the progress of its stored state
  op,       \* the last operation of the World: its number on this Runtime, kind and phase
  host,     \* the instance: its disk and its game
  command,  \* the commands of each marker
  kept      \* the progress that the sleep under way may not lose (history)

vars == <<world, op, host, command, kept>>

Effects == {"restore", "start", "failed-wake-stop", "restart", "save", "stop", "persist"}
Markers == (1..MaxOps) \X Effects
Marker(effect) == <<op.number, effect>>

Progress == 0..MaxProgress
\* The directory of the World.
Disk == Progress \cup {None, Partial}
Game == {"stopped", "running", "crashed"}

PhasesOf(kind) ==
  CASE kind = "wake" -> {"restore", "start", "health", "failed-wake-stop", "over"}
    [] kind = "recover" -> {"restart", "health", "over"}
    [] kind = "sleep" -> {"players", "save", "stop", "persist", "over"}

\* A marker without a command, without a process and without a result.
Unused == [sent |-> 0, step |-> "none", output |-> None, result |-> None]
FreshHost == [ready |-> FALSE, disk |-> None, game |-> "stopped", memory |-> 0]

-------------------------------------------------------------------------------
(* The worker. *)

Over == op.phase = "over"
GoTo(phase) == op' = [op EXCEPT !.phase = phase]
End(status) == GoTo("over") /\ world' = [world EXCEPT !.status = status]

\* A wake gets an instance of its own.
RequestWake ==
  /\ Over
  /\ world' = [world EXCEPT !.status = "waking"]
  /\ op' = [number |-> 1, kind |-> "wake", phase |-> "restore"]
  /\ host' = FreshHost
  /\ command' = [m \in Markers |-> Unused]
  /\ kept' = world.stored

Request(kind, phase, status) ==
  /\ Over /\ op.number < MaxOps
  /\ world' = [world EXCEPT !.status = status]
  /\ op' = [number |-> op.number + 1, kind |-> kind, phase |-> phase]
  /\ UNCHANGED <<host, command, kept>>
RequestSleep == world.status = "online" /\ Request("sleep", "players", "going_to_sleep")
RequestRecovery == world.status \in {"online", "waking"} /\ Request("recover", "restart", "waking")

\* SsmCommandRunner.run, for the first time or once more.
SendCommand ==
  /\ op.phase \in Effects
  /\ command[Marker(op.phase)].sent < MaxSends
  /\ command' = [command EXCEPT ![Marker(op.phase)].sent = @ + 1]
  /\ UNCHANGED <<world, op, host, kept>>

\* The command for an effect has ended well.
Answered(effect) == op.phase = effect /\ command[Marker(effect)].result # None

EffectAnswers ==
  /\ \/ Answered("restore") /\ GoTo("start")
     \/ (Answered("start") \/ Answered("restart")) /\ GoTo("health")
     \/ Answered("save") /\ GoTo("stop")
     \/ Answered("stop") /\ GoTo("persist")
  /\ UNCHANGED <<world, host, command, kept>>

\* What the command reported becomes the stored state, once the Runtime is released.
PersistAnswers ==
  /\ Answered("persist")
  /\ GoTo("over")
  /\ world' = [status |-> "sleeping", stored |-> command[Marker("persist")].result]
  /\ UNCHANGED <<host, command, kept>>

FailedWakeStops ==
  /\ Answered("failed-wake-stop")
  /\ End("needs_attention")
  /\ UNCHANGED <<host, command, kept>>

\* Health is observed, never remembered.  A game that is still starting is asked again.
Healthy ==
  /\ op.phase = "health" /\ host.ready /\ host.game = "running"
  /\ End("online")
  /\ UNCHANGED <<host, command, kept>>

\* Mutant: a recovery that failed is cleaned up like a wake.
StopUnhealthy ==
  /\ op.phase = "health" /\ host.ready /\ host.game # "running"
  /\ GoTo("failed-wake-stop") /\ UNCHANGED world
  /\ UNCHANGED <<host, command, kept>>
\* A recovery leaves the instance as it is, for another attempt or for attention.
Unhealthy ==
  /\ op.phase = "health" /\ host.ready /\ host.game # "running"
  /\ \/ op.kind = "wake" /\ GoTo("failed-wake-stop") /\ UNCHANGED world
     \/ op.kind = "recover" /\ \E status \in {"waking", "needs_attention"} : End(status)
  /\ UNCHANGED <<host, command, kept>>

\* A sleep goes on without players, or by force; from here it may not lose what was played.
PlayersChecked ==
  /\ op.phase = "players" /\ host.ready /\ host.game = "running"
  /\ \/ GoTo("save") /\ kept' = host.memory /\ UNCHANGED world
     \/ End("online") /\ UNCHANGED kept
  /\ UNCHANGED <<host, command>>

\* RecordFailure, after an error that is not retried or was retried often enough.
RecordFailure ==
  /\ ~Over
  /\ End("needs_attention")
  /\ UNCHANGED <<host, command, kept>>

-------------------------------------------------------------------------------
(* The host. *)

BootstrapEnds ==
  /\ ~host.ready
  /\ host' = [host EXCEPT !.ready = TRUE]
  /\ UNCHANGED <<world, op, command, kept>>

\* A command expires or is lost, is refused before the bootstrap has ended, or finds a result.
CommandIsSpent(m) ==
  /\ command[m].sent > 0
  /\ command' = [command EXCEPT ![m].sent = @ - 1]
  /\ UNCHANGED <<world, op, host, kept>>

\* Mutant: the result of the marker is not looked up.
BeginAgain(m) ==
  /\ host.ready /\ command[m].sent > 0
  /\ command[m].step = "none"
  /\ command' = [command EXCEPT ![m].sent = @ - 1, ![m].step = "working"]
  /\ UNCHANGED <<world, op, host, kept>>
\* It has the lock of its marker, and no command of the marker has ended before.
Begin(m) ==
  /\ host.ready /\ command[m].sent > 0
  /\ command[m].step = "none" /\ command[m].result = None
  /\ command' = [command EXCEPT ![m].sent = @ - 1, ![m].step = "working"]
  /\ UNCHANGED <<world, op, host, kept>>

Works(m, effects) == command[m].step = "working" /\ m[2] \in effects
\* The effect is complete and the output written, but not yet in its place.
Done(m, output) ==
  /\ command' = [command EXCEPT ![m] = [@ EXCEPT !.step = "done", !.output = output]]
  /\ UNCHANGED <<world, op, kept>>

\* restore-state has checked what it downloaded, and removes what was there ...
RemoveState(m) ==
  /\ Works(m, {"restore"}) /\ world.stored > 0
  /\ host' = [host EXCEPT !.disk = Partial]
  /\ command' = [command EXCEPT ![m].step = "extracting"]
  /\ UNCHANGED <<world, op, kept>>
\* ... before it extracts the state.  A World that has stored none begins with an empty one.
RestoreState(m) ==
  /\ \/ command[m].step = "extracting"
     \/ Works(m, {"restore"}) /\ world.stored = 0
  /\ host' = [host EXCEPT !.disk = world.stored]
  /\ Done(m, 0)

Run(game) == [game EXCEPT !.game = "running", !.memory = game.disk]

Start(m) ==
  /\ Works(m, {"start", "restart"})
  /\ host' = IF host.game = "running" THEN host ELSE Run(host)
  /\ Done(m, 0)

\* save: the REST interface of the game answers only while the game runs.
SaveGame(m) ==
  /\ Works(m, {"save"}) /\ host.game = "running"
  /\ host' = [host EXCEPT !.disk = host.memory]
  /\ Done(m, 0)

\* stop-palworld.sh asks for another save, and stops the game also when that failed.
Stop(m) ==
  /\ Works(m, {"stop", "failed-wake-stop"})
  /\ \E last \in {host.disk} \cup (IF host.game = "running" THEN {host.memory} ELSE {}) :
       host' = [host EXCEPT !.disk = last, !.game = "stopped"]
  /\ Done(m, 0)

Persist(m) ==
  /\ Works(m, {"persist"}) /\ host.disk \in Progress
  /\ Done(m, host.disk)
  /\ UNCHANGED host

Memoize(m) ==
  /\ command[m].step = "done"
  /\ command' = [command EXCEPT ![m] =
       [@ EXCEPT !.step = "none", !.output = None, !.result = command[m].output]]
  /\ UNCHANGED <<world, op, host, kept>>

\* Mutant: the output goes straight to where results are looked up.
DieWithResult(m) ==
  /\ command[m].step # "none"
  /\ command' = [command EXCEPT ![m] = [@ EXCEPT !.step = "none", !.output = None, !.result = 0]]
  /\ UNCHANGED <<world, op, host, kept>>
\* The command fails or is killed at any point: what it did stays, its output does not count.
Die(m) ==
  /\ command[m].step # "none"
  /\ command' = [command EXCEPT ![m] = [@ EXCEPT !.step = "none", !.output = None]]
  /\ UNCHANGED <<world, op, host, kept>>

-------------------------------------------------------------------------------
(* The game. *)

Play ==
  /\ host.game = "running" /\ host.memory \in Progress /\ host.memory < MaxProgress
  /\ host' = [host EXCEPT !.memory = @ + 1]
  /\ UNCHANGED <<world, op, command, kept>>

Autosave ==
  /\ host.game = "running"
  /\ host' = [host EXCEPT !.disk = host.memory]
  /\ UNCHANGED <<world, op, command, kept>>

\* What was not on the disk is gone, and nobody is to blame.
Crash ==
  /\ host.game = "running"
  /\ host' = [host EXCEPT !.game = "crashed"]
  /\ kept' = IF host.disk \in Progress /\ host.disk < kept THEN host.disk ELSE kept
  /\ UNCHANGED <<world, op, command>>

\* Restart=on-failure in palworld.service.
RestartOnFailure ==
  /\ host.game = "crashed"
  /\ host' = Run(host)
  /\ UNCHANGED <<world, op, command, kept>>

-------------------------------------------------------------------------------
Init ==
  /\ world = [status |-> "sleeping", stored |-> 0]
  /\ op = [number |-> MaxOps, kind |-> "sleep", phase |-> "over"]
  /\ host = FreshHost
  /\ command = [m \in Markers |-> Unused]
  /\ kept = 0

WorkerNext ==
  \/ RequestWake \/ RequestSleep \/ RequestRecovery
  \/ SendCommand \/ EffectAnswers \/ PersistAnswers \/ FailedWakeStops
  \/ Healthy \/ Unhealthy \/ PlayersChecked \/ RecordFailure
HostNext ==
  \/ BootstrapEnds
  \/ \E m \in Markers :
       \/ CommandIsSpent(m) \/ Begin(m)
       \/ RemoveState(m) \/ RestoreState(m) \/ Start(m) \/ SaveGame(m) \/ Stop(m) \/ Persist(m)
       \/ Memoize(m) \/ Die(m)
GameNext == Play \/ Autosave \/ Crash \/ RestartOnFailure
Next == WorkerNext \/ HostNext \/ GameNext

Spec == Init /\ [][Next]_vars

-------------------------------------------------------------------------------
(* What is checked. *)

Command ==
  [sent: 0..MaxSends, step: {"none", "working", "extracting", "done"},
   output: Progress \cup {None}, result: Progress \cup {None}]

\* The type invariant.  An operation is in a phase of its kind, and only a restore extracts.
TypeOK ==
  /\ world \in [status: {"sleeping", "waking", "online", "going_to_sleep", "needs_attention"},
                stored: Progress]
  /\ op \in [number: 1..MaxOps, kind: {"wake", "recover", "sleep"},
             phase: Effects \cup {"health", "players", "over"}]
  /\ op.phase \in PhasesOf(op.kind)
  /\ host \in [ready: BOOLEAN, disk: Disk, game: Game, memory: Disk]
  /\ command \in [Markers -> Command]
  /\ \A m \in Markers : command[m].step = "extracting" => m[2] = "restore"
  /\ kept \in Progress

\* The game never runs on a state that is absent, half extracted or older than the one its wake
\* restored: no command that is repeated, late or killed half way puts one there.
PlaysOnWholeState ==
  host.game = "running" => host.disk \in Progress /\ host.disk >= world.stored

\* The state that a sleep stores for the next wake has everything that was played when it saved
\* the game, unless the game crashed first, and everything the World had before; also when the
\* output that it reads is that of an attempt nobody waited for.
WhatWasPlayedIsStored ==
  [][world'.stored # world.stored => world'.stored >= kept /\ world'.stored >= world.stored]_vars
===============================================================================
