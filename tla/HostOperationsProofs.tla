-------------------------- MODULE HostOperationsProofs --------------------------
(***************************************************************************)
(* Proofs about HostOperations, for any numbers of operations, commands    *)
(* and any progress.                                                       *)
(***************************************************************************)
EXTENDS HostOperations, TLAPS

\* The marker of the restore of this Runtime.
R == <<1, "restore">>
Used(m) == command[m] # Unused
Restored == command[R].result # None

\* Markers are used in their operation, in their phase or after it.
MarkerInv ==
  /\ op.kind = "wake" => op.number = 1
  /\ \A m \in Markers : m[1] > op.number => ~Used(m)
  /\ \A m \in Markers : m[2] = "restore" /\ m # R => ~Used(m)
  /\ Used(Marker("save")) => op.phase \in {"save", "stop", "persist", "over"}
  /\ Used(Marker("persist")) => op.phase \in {"persist", "over"}
  /\ \A m \in Markers : m[2] \in {"stop", "failed-wake-stop"} /\ Used(m) =>
       \/ op.phase \in {"stop", "persist", "failed-wake-stop"}
       \/ op.phase = "over" /\ world.status \in {"sleeping", "needs_attention"}
  /\ \A m \in Markers : command[m].step # "none" => command[m].result = None

\* Nothing happens on the instance before its restore has ended well, and nothing touches its
\* directory like a restore afterwards.
RestoreInv ==
  /\ \A m \in Markers : m[2] # "restore" /\ Used(m) => Restored
  /\ \/ op.phase \notin {"restore", "over"}
     \/ op.phase = "over" /\ world.status \in {"online", "waking"}
     => Restored
  /\ Restored \/ command[R].step = "done" => host.disk \in Progress /\ host.disk >= world.stored

GameInv ==
  /\ host.game # "stopped" => Restored
  /\ host.game = "running" => host.memory \in Progress /\ host.memory >= host.disk

\* What a sleep may not lose: in memory before the save, on the disk after it, in the output.
SleepInv ==
  /\ op.phase = "save" => IF host.game = "running" THEN kept <= host.memory ELSE kept <= host.disk
  /\ /\ op.phase = "save"
     /\ command[Marker("save")].step = "done" \/ command[Marker("save")].result # None
     => kept <= host.disk
  /\ op.phase \in {"stop", "persist"} => kept <= host.disk
  /\ op.phase = "persist" =>
       \A x \in {command[Marker("persist")].output, command[Marker("persist")].result} \ {None} :
         kept <= x /\ world.stored <= x /\ x <= host.disk

IInv == TypeOK /\ MarkerInv /\ RestoreInv /\ GameInv /\ SleepInv

-------------------------------------------------------------------------------
(* The invariant is inductive: one lemma for each step. *)

\* What a step of one command does to the others.
LEMMA OneCommand ==
  ASSUME TypeOK, NEW m \in Markers, NEW c \in Command, Used(m),
         command' = [command EXCEPT ![m] = c]
  PROVE  /\ command' \in [Markers -> Command]
         /\ command'[m] = c
         /\ \A k \in Markers : k # m => command'[k] = command[k]
         /\ \A k \in Markers : Used(k)' => Used(k)
  BY DEF TypeOK, Used

LEMMA ZeroIsProgress == 0 \in Progress
  BY HostAssumption DEF Progress

\* The markers that the invariant names.
LEMMA NamedMarkers ==
  ASSUME TypeOK
  PROVE  /\ R \in Markers
         /\ \A effect \in Effects : Marker(effect) \in Markers
  BY HostAssumption DEF TypeOK, R, Markers, Marker, Effects

LEMMA RequestWakeKeeps ==
  ASSUME IInv, RequestWake
  PROVE  IInv'
<1> USE HostAssumption
   DEF Over, Marker, TypeOK, Command, Markers, Progress, Disk, Game, PhasesOf, Effects, Unused
<1>1. TypeOK'
  BY DEF IInv, TypeOK, RequestWake, FreshHost
<1>2. MarkerInv'
  BY DEF IInv, MarkerInv, Used, RequestWake, FreshHost
<1>3. RestoreInv'
  BY DEF IInv, RestoreInv, Restored, R, Used, MarkerInv, RequestWake, FreshHost
<1>4. GameInv'
  BY DEF IInv, GameInv, RequestWake, FreshHost
<1>5. SleepInv'
  BY DEF IInv, SleepInv, RequestWake, FreshHost
<1>6. QED
  BY <1>1, <1>2, <1>3, <1>4, <1>5 DEF IInv

LEMMA RequestSleepKeeps ==
  ASSUME IInv, RequestSleep
  PROVE  IInv'
<1> USE HostAssumption
   DEF Over, Marker, TypeOK, Command, Markers, Progress, Disk, Game, PhasesOf, Effects, Unused
<1>1. TypeOK'
  BY DEF IInv, TypeOK, RequestSleep, Request
<1>2. MarkerInv'
  BY DEF IInv, MarkerInv, Used, RequestSleep, Request
<1>3. RestoreInv'
  BY DEF IInv, RestoreInv, Restored, RequestSleep, Request
<1>4. GameInv'
  BY DEF IInv, GameInv, Restored, RequestSleep, Request
<1>5. SleepInv'
  BY DEF IInv, SleepInv, RequestSleep, Request
<1>6. QED
  BY <1>1, <1>2, <1>3, <1>4, <1>5 DEF IInv

LEMMA RequestRecoveryKeeps ==
  ASSUME IInv, RequestRecovery
  PROVE  IInv'
<1> USE HostAssumption
   DEF Over, Marker, TypeOK, Command, Markers, Progress, Disk, Game, PhasesOf, Effects, Unused
<1>1. TypeOK'
  BY DEF IInv, TypeOK, RequestRecovery, Request
<1>2. MarkerInv'
  BY DEF IInv, MarkerInv, Used, RequestRecovery, Request
<1>3. RestoreInv'
  BY DEF IInv, RestoreInv, Restored, RequestRecovery, Request
<1>4. GameInv'
  BY DEF IInv, GameInv, Restored, RequestRecovery, Request
<1>5. SleepInv'
  BY DEF IInv, SleepInv, RequestRecovery, Request
<1>6. QED
  BY <1>1, <1>2, <1>3, <1>4, <1>5 DEF IInv

LEMMA EffectAnswersKeeps ==
  ASSUME IInv, EffectAnswers
  PROVE  IInv'
<1> USE HostAssumption
   DEF Over, Marker, TypeOK, Command, Markers, Progress, Disk, Game, PhasesOf, Effects, Unused
<1>1. TypeOK'
  BY DEF IInv, TypeOK, EffectAnswers, Answered, GoTo
<1>2. MarkerInv'
  BY DEF IInv, MarkerInv, Used, EffectAnswers, Answered, GoTo
<1>3. RestoreInv'
  BY DEF IInv, RestoreInv, Restored, R, Used, MarkerInv, EffectAnswers, Answered, GoTo
<1>4. GameInv'
  BY DEF IInv, GameInv, Restored, EffectAnswers, Answered, GoTo
<1>5. SleepInv'
  <2>1. UNCHANGED <<host, command, kept, world>> /\ op'.number = op.number
    BY DEF IInv, EffectAnswers, GoTo
  <2>2. CASE Answered("save") /\ GoTo("stop")
    BY <2>1, <2>2 DEF IInv, SleepInv, Answered, GoTo
  <2>3. CASE Answered("stop") /\ GoTo("persist")
    <3>1. command[Marker("persist")] = Unused
      BY <2>3 DEF IInv, MarkerInv, Used, Answered
    <3>2. QED
      BY <2>1, <2>3, <3>1 DEF IInv, SleepInv, Answered, GoTo
  <2>4. CASE op'.phase \in {"start", "health"}
    BY <2>4 DEF SleepInv
  <2>5. QED
    BY <2>2, <2>3, <2>4 DEF EffectAnswers, GoTo, IInv
<1>6. QED
  BY <1>1, <1>2, <1>3, <1>4, <1>5 DEF IInv

LEMMA PersistAnswersKeeps ==
  ASSUME IInv, PersistAnswers
  PROVE  IInv'
<1> USE HostAssumption
   DEF Over, Marker, TypeOK, Command, Markers, Progress, Disk, Game, PhasesOf, Effects, Unused
<1>1. TypeOK'
  BY DEF IInv, TypeOK, PersistAnswers, Answered, GoTo
<1>2. MarkerInv'
  BY DEF IInv, MarkerInv, Used, PersistAnswers, Answered, GoTo
<1>3. RestoreInv'
  BY DEF IInv, MarkerInv, RestoreInv, GameInv, SleepInv, R, Used, Restored, PersistAnswers,
         Answered, GoTo
<1>4. GameInv'
  BY DEF IInv, GameInv, Restored, PersistAnswers, Answered, GoTo
<1>5. SleepInv'
  BY DEF IInv, SleepInv, PersistAnswers, Answered, GoTo
<1>6. QED
  BY <1>1, <1>2, <1>3, <1>4, <1>5 DEF IInv

LEMMA FailedWakeStopsKeeps ==
  ASSUME IInv, FailedWakeStops
  PROVE  IInv'
<1> USE HostAssumption
   DEF Over, Marker, TypeOK, Command, Markers, Progress, Disk, Game, PhasesOf, Effects, Unused
<1>1. TypeOK'
  BY DEF IInv, TypeOK, FailedWakeStops, Answered, End, GoTo
<1>2. MarkerInv'
  BY DEF IInv, MarkerInv, Used, FailedWakeStops, Answered, End, GoTo
<1>3. RestoreInv'
  BY DEF IInv, RestoreInv, Restored, FailedWakeStops, Answered, End, GoTo
<1>4. GameInv'
  BY DEF IInv, GameInv, Restored, FailedWakeStops, Answered, End, GoTo
<1>5. SleepInv'
  BY DEF IInv, SleepInv, FailedWakeStops, Answered, End, GoTo
<1>6. QED
  BY <1>1, <1>2, <1>3, <1>4, <1>5 DEF IInv

LEMMA HealthyKeeps ==
  ASSUME IInv, Healthy
  PROVE  IInv'
<1> USE HostAssumption
   DEF Over, Marker, TypeOK, Command, Markers, Progress, Disk, Game, PhasesOf, Effects, Unused
<1>1. TypeOK'
  BY DEF IInv, TypeOK, Healthy, End, GoTo
<1>2. MarkerInv'
  BY DEF IInv, MarkerInv, Used, Healthy, End, GoTo
<1>3. RestoreInv'
  BY DEF IInv, RestoreInv, Restored, Healthy, End, GoTo
<1>4. GameInv'
  BY DEF IInv, GameInv, Restored, Healthy, End, GoTo
<1>5. SleepInv'
  BY DEF IInv, SleepInv, Healthy, End, GoTo
<1>6. QED
  BY <1>1, <1>2, <1>3, <1>4, <1>5 DEF IInv

LEMMA UnhealthyKeeps ==
  ASSUME IInv, Unhealthy
  PROVE  IInv'
<1> USE HostAssumption
   DEF Over, Marker, TypeOK, Command, Markers, Progress, Disk, Game, PhasesOf, Effects, Unused
<1>1. TypeOK'
  BY DEF IInv, TypeOK, Unhealthy, End, GoTo
<1>2. MarkerInv'
  BY DEF IInv, MarkerInv, Used, Unhealthy, End, GoTo
<1>3. RestoreInv'
  BY DEF IInv, RestoreInv, Restored, Unhealthy, End, GoTo
<1>4. GameInv'
  BY DEF IInv, GameInv, Restored, Unhealthy, End, GoTo
<1>5. SleepInv'
  BY DEF IInv, SleepInv, Unhealthy, End, GoTo
<1>6. QED
  BY <1>1, <1>2, <1>3, <1>4, <1>5 DEF IInv

LEMMA PlayersCheckedKeeps ==
  ASSUME IInv, PlayersChecked
  PROVE  IInv'
<1> USE HostAssumption
   DEF Over, Marker, TypeOK, Command, Markers, Progress, Disk, Game, PhasesOf, Effects, Unused
<1>1. TypeOK'
  BY DEF IInv, TypeOK, R, Restored, RestoreInv, GameInv, PlayersChecked, End, GoTo
<1>2. MarkerInv'
  BY DEF IInv, MarkerInv, Used, PlayersChecked, End, GoTo
<1>3. RestoreInv'
  BY DEF IInv, RestoreInv, Restored, PlayersChecked, End, GoTo
<1>4. GameInv'
  BY DEF IInv, GameInv, Restored, PlayersChecked, End, GoTo
<1>5. SleepInv'
  BY DEF IInv, MarkerInv, RestoreInv, GameInv, SleepInv, R, Used, Restored, PlayersChecked,
         End, GoTo
<1>6. QED
  BY <1>1, <1>2, <1>3, <1>4, <1>5 DEF IInv

LEMMA RecordFailureKeeps ==
  ASSUME IInv, RecordFailure
  PROVE  IInv'
<1> USE HostAssumption
   DEF Over, Marker, TypeOK, Command, Markers, Progress, Disk, Game, PhasesOf, Effects, Unused
<1>1. TypeOK'
  BY DEF IInv, TypeOK, RecordFailure, End, GoTo
<1>2. MarkerInv'
  BY DEF IInv, MarkerInv, Used, RecordFailure, End, GoTo
<1>3. RestoreInv'
  BY DEF IInv, RestoreInv, Restored, R, Used, MarkerInv, RecordFailure, End, GoTo
<1>4. GameInv'
  BY DEF IInv, GameInv, Restored, RecordFailure, End, GoTo
<1>5. SleepInv'
  BY DEF IInv, SleepInv, RecordFailure, End, GoTo
<1>6. QED
  BY <1>1, <1>2, <1>3, <1>4, <1>5 DEF IInv

LEMMA BootstrapEndsKeeps ==
  ASSUME IInv, BootstrapEnds
  PROVE  IInv'
<1> USE HostAssumption
   DEF Over, Marker, TypeOK, Command, Markers, Progress, Disk, Game, PhasesOf, Effects, Unused
<1>1. TypeOK'
  BY DEF IInv, TypeOK, BootstrapEnds
<1>2. MarkerInv'
  BY DEF IInv, MarkerInv, Used, BootstrapEnds
<1>3. RestoreInv'
  BY DEF IInv, RestoreInv, Restored, R, Used, MarkerInv, BootstrapEnds
<1>4. GameInv'
  BY DEF IInv, GameInv, Restored, BootstrapEnds
<1>5. SleepInv'
  BY DEF IInv, SleepInv, BootstrapEnds
<1>6. QED
  BY <1>1, <1>2, <1>3, <1>4, <1>5 DEF IInv

LEMMA AutosaveKeeps ==
  ASSUME IInv, Autosave
  PROVE  IInv'
<1> USE HostAssumption
   DEF Over, Marker, TypeOK, Command, Markers, Progress, Disk, Game, PhasesOf, Effects, Unused
<1>1. TypeOK'
  BY DEF IInv, TypeOK, Autosave
<1>2. MarkerInv'
  BY DEF IInv, MarkerInv, Used, Autosave
<1>3. RestoreInv'
  BY DEF IInv, RestoreInv, Restored, R, GameInv, Autosave
<1>4. GameInv'
  BY DEF IInv, GameInv, Restored, Autosave
<1>5. SleepInv'
  BY DEF IInv, MarkerInv, RestoreInv, GameInv, SleepInv, R, Used, Restored, Autosave
<1>6. QED
  BY <1>1, <1>2, <1>3, <1>4, <1>5 DEF IInv

LEMMA CrashKeeps ==
  ASSUME IInv, Crash
  PROVE  IInv'
<1> USE HostAssumption
   DEF Over, Marker, TypeOK, Command, Markers, Progress, Disk, Game, PhasesOf, Effects, Unused
<1>1. TypeOK'
  BY DEF IInv, TypeOK, Crash
<1>2. MarkerInv'
  BY DEF IInv, MarkerInv, Used, Crash
<1>3. RestoreInv'
  BY DEF IInv, RestoreInv, Restored, R, Used, MarkerInv, Crash
<1>4. GameInv'
  BY DEF IInv, GameInv, Restored, Crash
<1>5. SleepInv'
  <2>1. /\ kept \in Nat /\ kept' \in Nat /\ kept' <= kept
        /\ op.phase \in {"save", "stop", "persist"} => host.disk \in Nat /\ kept' <= host.disk
    BY DEF IInv, RestoreInv, GameInv, SleepInv, Restored, R, Crash
  <2>2. host'.disk = host.disk /\ host'.game = "crashed" /\ UNCHANGED <<world, op, command>>
    BY DEF IInv, Crash
  <2>3. \A x \in {command[Marker("persist")].output, command[Marker("persist")].result} \ {None} :
          x \in Nat
    BY NamedMarkers DEF IInv
  <2>4. QED
    BY <2>1, <2>2, <2>3 DEF IInv, SleepInv
<1>6. QED
  BY <1>1, <1>2, <1>3, <1>4, <1>5 DEF IInv

LEMMA RestartOnFailureKeeps ==
  ASSUME IInv, RestartOnFailure
  PROVE  IInv'
<1> USE HostAssumption
   DEF Over, Marker, TypeOK, Command, Markers, Progress, Disk, Game, PhasesOf, Effects, Unused
<1>1. TypeOK'
  BY DEF IInv, MarkerInv, RestoreInv, GameInv, SleepInv, R, Used, Restored, RestartOnFailure, Run
<1>2. MarkerInv'
  BY DEF IInv, MarkerInv, Used, RestartOnFailure
<1>3. RestoreInv'
  BY DEF IInv, MarkerInv, RestoreInv, GameInv, SleepInv, R, Used, Restored, RestartOnFailure, Run
<1>4. GameInv'
  BY DEF IInv, MarkerInv, RestoreInv, GameInv, SleepInv, R, Used, Restored, RestartOnFailure, Run
<1>5. SleepInv'
  BY DEF IInv, MarkerInv, RestoreInv, GameInv, SleepInv, R, Used, Restored, RestartOnFailure, Run
<1>6. QED
  BY <1>1, <1>2, <1>3, <1>4, <1>5 DEF IInv

LEMMA PlayKeeps ==
  ASSUME IInv, Play
  PROVE  IInv'
<1> USE HostAssumption
   DEF Over, Marker, TypeOK, Command, Markers, Progress, Disk, Game, PhasesOf, Effects, Unused
<1>1. TypeOK'
  BY DEF IInv, TypeOK, Play
<1>2. MarkerInv'
  BY DEF IInv, MarkerInv, Used, Play
<1>3. RestoreInv'
  BY DEF IInv, RestoreInv, Restored, R, Used, MarkerInv, Play
<1>4. GameInv'
  BY DEF IInv, GameInv, Restored, R, RestoreInv, Play
<1>5. SleepInv'
  BY DEF IInv, SleepInv, Play
<1>6. QED
  BY <1>1, <1>2, <1>3, <1>4, <1>5 DEF IInv

LEMMA SendCommandKeeps ==
  ASSUME IInv, SendCommand
  PROVE  IInv'
<1> DEFINE m == Marker(op.phase)
<1>1. /\ R \in Markers /\ \A effect \in Effects : Marker(effect) \in Markers
      /\ m \in Markers /\ m[1] = op.number /\ m[2] = op.phase
      /\ op.phase \in Effects
  BY NamedMarkers DEF IInv, SendCommand, Marker
<1>2. /\ command' \in [Markers -> Command]
      /\ \A k \in Markers : k # m => command'[k] = command[k]
      /\ \A k \in Markers : /\ command'[k].step = command[k].step
                            /\ command'[k].output = command[k].output
                            /\ command'[k].result = command[k].result
  <2>1. command[m].sent + 1 \in 0..MaxSends
    BY <1>1, HostAssumption DEF IInv, TypeOK, Command, SendCommand
  <2>2. command' = [command EXCEPT ![m].sent = command[m].sent + 1]
    BY DEF SendCommand
  <2>3. command \in [Markers -> Command]
    BY DEF IInv, TypeOK
  <2>4. [command[m] EXCEPT !.sent = command[m].sent + 1] \in Command
    BY <1>1, <2>1, <2>3 DEF Command
  <2>5. QED
    BY <1>1, <2>2, <2>3, <2>4
<1>3. UNCHANGED <<world, op, host, kept>>
  BY DEF SendCommand
<1> HIDE DEF m
<1>4. TypeOK'
  BY <1>2, <1>3 DEF IInv, TypeOK, R
<1>5. \A k \in Markers : k # m /\ Used(k)' => Used(k)
  BY <1>2 DEF Used
<1>6. MarkerInv'
  <2>1. Marker("save")' = Marker("save") /\ Marker("persist")' = Marker("persist")
    BY <1>3 DEF Marker
  <2>2. /\ m = Marker("save") => op.phase = "save"
        /\ m = Marker("persist") => op.phase = "persist"
        /\ m[2] = "restore" => m = R
        /\ ~(m[1] > op.number)
    <3>1. op.phase = "restore" => op.number = 1
      BY DEF IInv, TypeOK, PhasesOf, MarkerInv
    <3>2. m = <<m[1], m[2]>> /\ op.number \in Nat
      BY <1>1, HostAssumption DEF Markers, IInv, TypeOK
    <3>3. /\ m = Marker("save") => m[2] = "save"
          /\ m = Marker("persist") => m[2] = "persist"
      BY DEF Marker
    <3>4. QED
      BY <1>1, <3>1, <3>2, <3>3 DEF R
  <2>3. QED
    BY <1>1, <1>2, <1>3, <1>5, <2>1, <2>2 DEF IInv, MarkerInv, Effects
<1>7. RestoreInv'
  BY <1>1, <1>2, <1>3, <1>5 DEF IInv, RestoreInv, Restored, R, Effects
<1>8. GameInv'
  BY <1>1, <1>2, <1>3 DEF IInv, GameInv, Restored, R
<1>9. SleepInv'
  BY <1>1, <1>2, <1>3 DEF IInv, SleepInv, R, Effects, Marker
<1>10. QED
  BY <1>4, <1>6, <1>7, <1>8, <1>9 DEF IInv

LEMMA CommandIsSpentKeeps ==
  ASSUME NEW m \in Markers, IInv, CommandIsSpent(m)
  PROVE  IInv'
<1> DEFINE c == [command[m] EXCEPT !.sent = @ - 1]
<1>1. command[m] \in Command
  BY DEF IInv, TypeOK
<1>2. /\ Used(m)
      /\ c \in Command
      /\ command' = [command EXCEPT ![m] = c]
  <2>1. Used(m)
    BY <1>1 DEF Used, Unused, CommandIsSpent
  <2>2. c \in Command
    BY <1>1, HostAssumption DEF Command, CommandIsSpent
  <2>3. command' = [command EXCEPT ![m] = c]
    BY DEF CommandIsSpent
  <2>4. QED
    BY <2>1, <2>2, <2>3
<1>3. /\ c.sent \in Nat
      /\ c.step = command[m].step
      /\ c.output = command[m].output
      /\ c.result = command[m].result
  BY <1>1, HostAssumption DEF Command, CommandIsSpent
<1>4. /\ host' = host
      /\ UNCHANGED <<world, op, kept>>
  BY DEF IInv, TypeOK, CommandIsSpent
<1> HIDE DEF c
<1>5. /\ command' \in [Markers -> Command]
      /\ command'[m] = c
      /\ \A k \in Markers : k # m => command'[k] = command[k]
      /\ \A k \in Markers : Used(k)' => Used(k)
  BY <1>2, OneCommand DEF IInv
<1>6. R \in Markers /\ \A effect \in Effects : Marker(effect) \in Markers
  BY NamedMarkers DEF IInv
<1>7. TypeOK'
  BY <1>3, <1>4, <1>5, <1>6 DEF IInv, TypeOK
<1>8. MarkerInv'
  BY <1>3, <1>4, <1>5, <1>6 DEF IInv, MarkerInv, Used, R, Effects, Marker
<1>9. RestoreInv'
  BY <1>3, <1>4, <1>5, <1>6 DEF IInv, RestoreInv, Restored
<1>10. GameInv'
  BY <1>3, <1>4, <1>5, <1>6 DEF IInv, GameInv, Restored
<1>11. SleepInv'
  BY <1>3, <1>4, <1>5, <1>6 DEF IInv, SleepInv, R, Effects, Marker
<1>12. QED
  BY <1>7, <1>8, <1>9, <1>10, <1>11 DEF IInv

LEMMA BeginKeeps ==
  ASSUME NEW m \in Markers, IInv, Begin(m)
  PROVE  IInv'
<1> DEFINE c == [command[m] EXCEPT !.sent = @ - 1, !.step = "working"]
<1>1. command[m] \in Command
  BY DEF IInv, TypeOK
<1>2. /\ Used(m)
      /\ c \in Command
      /\ command' = [command EXCEPT ![m] = c]
  <2>1. Used(m)
    BY <1>1 DEF Used, Unused, Begin
  <2>2. c \in Command
    <3>1. command[m].sent - 1 \in 0..MaxSends
      BY <1>1, HostAssumption DEF Command, Begin
    <3>2. QED
      BY <1>1, <3>1 DEF Command
  <2>3. command' = [command EXCEPT ![m] = c]
    BY DEF Begin
  <2>4. QED
    BY <2>1, <2>2, <2>3
<1>3. /\ c.sent \in Nat
      /\ c.step = "working"
      /\ c.output = command[m].output
      /\ c.result = command[m].result
  BY <1>1, HostAssumption DEF Command, Begin
<1>4. /\ host' = host /\ command[m].step = "none" /\ command[m].result = None
      /\ UNCHANGED <<world, op, kept>>
  BY DEF IInv, TypeOK, Begin
<1> HIDE DEF c
<1>5. /\ command' \in [Markers -> Command]
      /\ command'[m] = c
      /\ \A k \in Markers : k # m => command'[k] = command[k]
      /\ \A k \in Markers : Used(k)' => Used(k)
  BY <1>2, OneCommand DEF IInv
<1>6. R \in Markers /\ \A effect \in Effects : Marker(effect) \in Markers
  BY NamedMarkers DEF IInv
<1>7. TypeOK'
  BY <1>3, <1>4, <1>5, <1>6 DEF IInv, TypeOK
<1>8. MarkerInv'
  BY <1>3, <1>4, <1>5, <1>6 DEF IInv, MarkerInv, Used, R, Effects, Marker
<1>9. RestoreInv'
  BY <1>3, <1>4, <1>5, <1>6 DEF IInv, RestoreInv, Restored
<1>10. GameInv'
  BY <1>2, <1>4, <1>5 DEF IInv, GameInv, Restored
<1>11. SleepInv'
  BY <1>3, <1>4, <1>5, <1>6 DEF IInv, SleepInv, R, Effects, Marker
<1>12. QED
  BY <1>7, <1>8, <1>9, <1>10, <1>11 DEF IInv

LEMMA RemoveStateKeeps ==
  ASSUME NEW m \in Markers, IInv, RemoveState(m)
  PROVE  IInv'
<1> DEFINE c == [command[m] EXCEPT !.step = "extracting"]
<1>1. command[m] \in Command
  BY DEF IInv, TypeOK
<1>2. /\ Used(m)
      /\ c \in Command
      /\ command' = [command EXCEPT ![m] = c]
  <2>1. Used(m)
    BY <1>1 DEF Used, Unused, RemoveState, Works
  <2>2. c \in Command
    BY <1>1, HostAssumption DEF Command, RemoveState, Works
  <2>3. command' = [command EXCEPT ![m] = c]
    BY DEF RemoveState, Works
  <2>4. QED
    BY <2>1, <2>2, <2>3
<1>3. /\ c.sent \in Nat
      /\ c.step = "extracting"
      /\ c.output = command[m].output
      /\ c.result = command[m].result
  BY <1>1, HostAssumption DEF Command, RemoveState, Works
<1>4. /\ host' = [host EXCEPT !.disk = Partial] /\ m[2] = "restore" /\ command[m].step = "working"
      /\ UNCHANGED <<world, op, kept>>
  BY DEF IInv, TypeOK, RemoveState, Works
<1> HIDE DEF c
<1>5. /\ command' \in [Markers -> Command]
      /\ command'[m] = c
      /\ \A k \in Markers : k # m => command'[k] = command[k]
      /\ \A k \in Markers : Used(k)' => Used(k)
  BY <1>2, OneCommand DEF IInv
<1>6. R \in Markers /\ \A effect \in Effects : Marker(effect) \in Markers
  BY NamedMarkers DEF IInv
<1>7. TypeOK'
  BY <1>2, <1>3, <1>4, <1>5, <1>6 DEF IInv, TypeOK, Run, Disk
<1>8. MarkerInv'
  BY <1>3, <1>4, <1>5, <1>6 DEF IInv, MarkerInv, Used, R, Effects, Marker
<1>9. RestoreInv'
  BY <1>2, <1>3, <1>4, <1>5, <1>6 DEF IInv, RestoreInv, Restored, R, Effects, MarkerInv
<1>10. GameInv'
  BY <1>2, <1>3, <1>4, <1>5, <1>6 DEF IInv, GameInv, Restored, R, Effects, MarkerInv, RestoreInv
<1>11. SleepInv'
  BY <1>2, <1>3, <1>4, <1>5, <1>6, HostAssumption
     DEF IInv, TypeOK, MarkerInv, RestoreInv, GameInv, SleepInv, Restored, R, Run, Progress,
         Disk, Effects, Marker, Used
<1>12. QED
  BY <1>7, <1>8, <1>9, <1>10, <1>11 DEF IInv

LEMMA RestoreStateKeeps ==
  ASSUME NEW m \in Markers, IInv, RestoreState(m)
  PROVE  IInv'
<1> DEFINE c == [command[m] EXCEPT !.step = "done", !.output = 0]
<1>1. command[m] \in Command
  BY DEF IInv, TypeOK
<1>2. /\ Used(m)
      /\ c \in Command
      /\ command' = [command EXCEPT ![m] = c]
  <2>1. Used(m)
    BY <1>1 DEF Used, Unused, RestoreState, Works, Done
  <2>2. c \in Command
    BY <1>1, ZeroIsProgress DEF Command, RestoreState, Works, Done
  <2>3. command' = [command EXCEPT ![m] = c]
    BY DEF RestoreState, Works, Done
  <2>4. QED
    BY <2>1, <2>2, <2>3
<1>3. /\ c.sent \in Nat
      /\ c.step = "done"
      /\ c.output = 0
      /\ c.result = command[m].result
  BY <1>1, HostAssumption DEF Command, RestoreState, Works, Done
<1>4. /\ host' = [host EXCEPT !.disk = world.stored]
      /\ m[2] = "restore"
      /\ command[m].step # "none"
      /\ UNCHANGED <<world, op, kept>>
  BY DEF IInv, TypeOK, RestoreState, Works, Done
<1> HIDE DEF c
<1>5. /\ command' \in [Markers -> Command]
      /\ command'[m] = c
      /\ \A k \in Markers : k # m => command'[k] = command[k]
      /\ \A k \in Markers : Used(k)' => Used(k)
  BY <1>2, OneCommand DEF IInv
<1>6. R \in Markers /\ \A effect \in Effects : Marker(effect) \in Markers
  BY NamedMarkers DEF IInv
<1>7. TypeOK'
  BY <1>2, <1>3, <1>4, <1>5, <1>6 DEF IInv, TypeOK, Run, Disk
<1>8. MarkerInv'
  BY <1>3, <1>4, <1>5, <1>6 DEF IInv, MarkerInv, Used, R, Effects, Marker
<1>9. RestoreInv'
  BY <1>2, <1>3, <1>4, <1>5, <1>6, HostAssumption
     DEF IInv, RestoreInv, Restored, TypeOK, Run, Progress, Disk
<1>10. GameInv'
  BY <1>2, <1>3, <1>4, <1>5, <1>6 DEF IInv, GameInv, Restored, R, Effects, MarkerInv, RestoreInv
<1>11. SleepInv'
  BY <1>2, <1>3, <1>4, <1>5, <1>6, HostAssumption
     DEF IInv, TypeOK, MarkerInv, RestoreInv, GameInv, SleepInv, Restored, R, Run, Progress,
         Disk, Effects, Marker, Used
<1>12. QED
  BY <1>7, <1>8, <1>9, <1>10, <1>11 DEF IInv

LEMMA StartKeeps ==
  ASSUME NEW m \in Markers, IInv, Start(m)
  PROVE  IInv'
<1> DEFINE c == [command[m] EXCEPT !.step = "done", !.output = 0]
<1>1. command[m] \in Command
  BY DEF IInv, TypeOK
<1>2. /\ Used(m)
      /\ c \in Command
      /\ command' = [command EXCEPT ![m] = c]
  <2>1. Used(m)
    BY <1>1 DEF Used, Unused, Start, Works, Done
  <2>2. c \in Command
    BY <1>1, ZeroIsProgress DEF Command, Start, Works, Done
  <2>3. command' = [command EXCEPT ![m] = c]
    BY DEF Start, Works, Done
  <2>4. QED
    BY <2>1, <2>2, <2>3
<1>3. /\ c.sent \in Nat
      /\ c.step = "done"
      /\ c.output = 0
      /\ c.result = command[m].result
  BY <1>1, HostAssumption DEF Command, Start, Works, Done
<1>4. /\ host' = (IF host.game = "running" THEN host ELSE Run(host))
      /\ m[2] \in {"start", "restart"}
      /\ command[m].step # "none"
      /\ UNCHANGED <<world, op, kept>>
  BY DEF IInv, TypeOK, Start, Works, Done
<1> HIDE DEF c
<1>5. /\ command' \in [Markers -> Command]
      /\ command'[m] = c
      /\ \A k \in Markers : k # m => command'[k] = command[k]
      /\ \A k \in Markers : Used(k)' => Used(k)
  BY <1>2, OneCommand DEF IInv
<1>6. R \in Markers /\ \A effect \in Effects : Marker(effect) \in Markers
  BY NamedMarkers DEF IInv
<1>7. TypeOK'
  BY <1>2, <1>3, <1>4, <1>5, <1>6
     DEF IInv, TypeOK, MarkerInv, RestoreInv, GameInv, Restored, Run, Disk, Game
<1>8. MarkerInv'
  BY <1>3, <1>4, <1>5, <1>6 DEF IInv, MarkerInv, Used, R, Effects, Marker
<1>9. RestoreInv'
  BY <1>2, <1>3, <1>4, <1>5, <1>6, HostAssumption
     DEF IInv, RestoreInv, Restored, TypeOK, Run, Progress, Disk
<1>10. GameInv'
  BY <1>2, <1>3, <1>4, <1>5, <1>6, HostAssumption
     DEF IInv, GameInv, Restored, TypeOK, Run, Progress, Disk, Effects, R, RestoreInv
<1>11. SleepInv'
  BY <1>2, <1>3, <1>4, <1>5, <1>6, HostAssumption
     DEF IInv, TypeOK, MarkerInv, RestoreInv, GameInv, SleepInv, Restored, R, Run, Progress,
         Disk, Effects, Marker, Used
<1>12. QED
  BY <1>7, <1>8, <1>9, <1>10, <1>11 DEF IInv

LEMMA SaveGameKeeps ==
  ASSUME NEW m \in Markers, IInv, SaveGame(m)
  PROVE  IInv'
<1> DEFINE c == [command[m] EXCEPT !.step = "done", !.output = 0]
<1>1. command[m] \in Command
  BY DEF IInv, TypeOK
<1>2. /\ Used(m)
      /\ c \in Command
      /\ command' = [command EXCEPT ![m] = c]
  <2>1. Used(m)
    BY <1>1 DEF Used, Unused, SaveGame, Works, Done
  <2>2. c \in Command
    BY <1>1, ZeroIsProgress DEF Command, SaveGame, Works, Done
  <2>3. command' = [command EXCEPT ![m] = c]
    BY DEF SaveGame, Works, Done
  <2>4. QED
    BY <2>1, <2>2, <2>3
<1>3. /\ c.sent \in Nat
      /\ c.step = "done"
      /\ c.output = 0
      /\ c.result = command[m].result
  BY <1>1, HostAssumption DEF Command, SaveGame, Works, Done
<1>4. /\ host' = [host EXCEPT !.disk = host.memory]
      /\ host.game = "running"
      /\ m[2] = "save"
      /\ command[m].step # "none"
      /\ UNCHANGED <<world, op, kept>>
  BY DEF IInv, TypeOK, SaveGame, Works, Done
<1> HIDE DEF c
<1>5. /\ command' \in [Markers -> Command]
      /\ command'[m] = c
      /\ \A k \in Markers : k # m => command'[k] = command[k]
      /\ \A k \in Markers : Used(k)' => Used(k)
  BY <1>2, OneCommand DEF IInv
<1>6. R \in Markers /\ \A effect \in Effects : Marker(effect) \in Markers
  BY NamedMarkers DEF IInv
<1>7. TypeOK'
  BY <1>3, <1>4, <1>5, <1>6 DEF IInv, TypeOK
<1>8. MarkerInv'
  BY <1>3, <1>4, <1>5, <1>6 DEF IInv, MarkerInv, Used, R, Effects, Marker
<1>9. RestoreInv'
  BY <1>2, <1>3, <1>4, <1>5, <1>6, HostAssumption
     DEF IInv, RestoreInv, Restored, TypeOK, Run, Progress, Disk, Effects, R, GameInv
<1>10. GameInv'
  BY <1>2, <1>3, <1>4, <1>5, <1>6, HostAssumption
     DEF IInv, GameInv, Restored, TypeOK, Run, Progress, Disk
<1>11. SleepInv'
  <2>1. /\ kept \in Nat /\ kept' = kept
        /\ Restored => host.disk \in Nat
        /\ host.game = "running" => Restored /\ host.memory \in Nat /\ host.disk <= host.memory
        /\ op.phase \in {"save", "stop", "persist"} => Restored
    BY <1>4, HostAssumption DEF IInv, TypeOK, RestoreInv, GameInv, Progress
  <2>2. /\ host'.disk = host.memory /\ host'.memory = host.memory /\ host'.game = host.game
        /\ op' = op /\ world' = world
    BY <1>4 DEF IInv, TypeOK
  <2>3. m # Marker("persist") /\ command'[Marker("persist")] = command[Marker("persist")]
    BY <1>4, <1>5, <1>6 DEF Marker, Effects
  <2>4. /\ op.phase = "save" => kept <= host.memory
        /\ op.phase \in {"stop", "persist"} => kept <= host.disk
    BY <1>4 DEF IInv, SleepInv
  <2>5. op.phase = "persist" =>
          \A x \in {command[Marker("persist")].output, command[Marker("persist")].result} \ {None} :
            kept <= x /\ world.stored <= x /\ x <= host.disk /\ x \in Nat
    BY <1>6, HostAssumption DEF IInv, SleepInv, TypeOK, Command, Progress, Effects
  <2>6. Marker("save")' = Marker("save") /\ Marker("persist")' = Marker("persist")
    BY <2>2 DEF Marker
  <2>7. host.memory \in Nat /\ host.disk \in Nat /\ host.disk <= host.memory
    BY <1>4, <2>1
  <2>8. op.phase = "persist" =>
          \A x \in {command'[Marker("persist")].output,
                    command'[Marker("persist")].result} \ {None} :
            kept <= x /\ world.stored <= x /\ x <= host.memory
    BY <2>3, <2>5, <2>7
  <2>9. QED
    BY <2>1, <2>2, <2>4, <2>6, <2>7, <2>8 DEF SleepInv
<1>12. QED
  BY <1>7, <1>8, <1>9, <1>10, <1>11 DEF IInv

LEMMA StopKeeps ==
  ASSUME NEW m \in Markers, IInv, Stop(m)
  PROVE  IInv'
<1> DEFINE c == [command[m] EXCEPT !.step = "done", !.output = 0]
<1>1. command[m] \in Command
  BY DEF IInv, TypeOK
<1>2. /\ Used(m)
      /\ c \in Command
      /\ command' = [command EXCEPT ![m] = c]
  <2>1. Used(m)
    BY <1>1 DEF Used, Unused, Stop, Works, Done
  <2>2. c \in Command
    BY <1>1, ZeroIsProgress DEF Command, Stop, Works, Done
  <2>3. command' = [command EXCEPT ![m] = c]
    BY DEF Stop, Works, Done
  <2>4. QED
    BY <2>1, <2>2, <2>3
<1>3. /\ c.sent \in Nat
      /\ c.step = "done"
      /\ c.output = 0
      /\ c.result = command[m].result
  BY <1>1, HostAssumption DEF Command, Stop, Works, Done
<1>4. /\ (\E last \in {host.disk} \cup (IF host.game = "running" THEN {host.memory} ELSE {}) :
            host' = [host EXCEPT !.disk = last, !.game = "stopped"])
      /\ m[2] \in {"stop", "failed-wake-stop"}
      /\ command[m].step # "none"
      /\ UNCHANGED <<world, op, kept>>
  BY DEF IInv, TypeOK, Stop, Works, Done
<1> HIDE DEF c
<1>5. /\ command' \in [Markers -> Command]
      /\ command'[m] = c
      /\ \A k \in Markers : k # m => command'[k] = command[k]
      /\ \A k \in Markers : Used(k)' => Used(k)
  BY <1>2, OneCommand DEF IInv
<1>6. R \in Markers /\ \A effect \in Effects : Marker(effect) \in Markers
  BY NamedMarkers DEF IInv
<1>7. TypeOK'
  BY <1>2, <1>3, <1>4, <1>5, <1>6
     DEF IInv, TypeOK, MarkerInv, RestoreInv, GameInv, Restored, Run, Disk, Game
<1>8. MarkerInv'
  BY <1>3, <1>4, <1>5, <1>6 DEF IInv, MarkerInv, Used, R, Effects, Marker
<1>9. RestoreInv'
  BY <1>2, <1>3, <1>4, <1>5, <1>6, HostAssumption
     DEF IInv, RestoreInv, Restored, TypeOK, Run, Progress, Disk, Effects, R, GameInv
<1>10. GameInv'
  BY <1>4, <1>5 DEF IInv, GameInv, Restored
<1>11. SleepInv'
  <2>1. /\ kept \in Nat /\ kept' = kept
        /\ Restored => host.disk \in Nat
        /\ host.game = "running" => Restored /\ host.memory \in Nat /\ host.disk <= host.memory
        /\ op.phase \in {"save", "stop", "persist"} => Restored
    BY <1>4, HostAssumption DEF IInv, TypeOK, RestoreInv, GameInv, Progress
  <2>2. /\ (host'.disk = host.disk \/ (host.game = "running" /\ host'.disk = host.memory))
        /\ host'.game = "stopped"
        /\ op' = op /\ world' = world
    BY <1>4 DEF IInv, TypeOK
  <2>3. m # Marker("persist") /\ command'[Marker("persist")] = command[Marker("persist")]
    BY <1>4, <1>5, <1>6 DEF Marker, Effects
  <2>4. op.phase # "save"
    BY <1>2, <1>4 DEF IInv, MarkerInv
  <2>5. op.phase = "persist" =>
          \A x \in {command[Marker("persist")].output, command[Marker("persist")].result} \ {None} :
            kept <= x /\ world.stored <= x /\ x <= host.disk /\ x \in Nat
    BY <1>6, HostAssumption DEF IInv, SleepInv, TypeOK, Command, Progress, Effects
  <2>6. Marker("save")' = Marker("save") /\ Marker("persist")' = Marker("persist")
    BY <2>2 DEF Marker
  <2>7. op.phase \in {"stop", "persist"} => kept <= host'.disk
    BY <2>1, <2>2 DEF IInv, SleepInv
  <2>8. op.phase = "persist" =>
          \A x \in {command'[Marker("persist")].output,
                    command'[Marker("persist")].result} \ {None} :
            kept <= x /\ world.stored <= x /\ x <= host'.disk
    BY <2>1, <2>2, <2>3, <2>5
  <2>9. QED
    BY <2>1, <2>2, <2>4, <2>6, <2>7, <2>8 DEF SleepInv
<1>12. QED
  BY <1>7, <1>8, <1>9, <1>10, <1>11 DEF IInv

LEMMA PersistKeeps ==
  ASSUME NEW m \in Markers, IInv, Persist(m)
  PROVE  IInv'
<1> DEFINE c == [command[m] EXCEPT !.step = "done", !.output = host.disk]
<1>1. command[m] \in Command
  BY DEF IInv, TypeOK
<1>2. /\ Used(m)
      /\ c \in Command
      /\ command' = [command EXCEPT ![m] = c]
  <2>1. Used(m)
    BY <1>1 DEF Used, Unused, Persist, Works, Done
  <2>2. c \in Command
    BY <1>1, HostAssumption DEF Command, Persist, Works, Done
  <2>3. command' = [command EXCEPT ![m] = c]
    BY DEF Persist, Works, Done
  <2>4. QED
    BY <2>1, <2>2, <2>3
<1>3. /\ c.sent \in Nat
      /\ c.step = "done"
      /\ c.output = host.disk
      /\ c.result = command[m].result
  BY <1>1, HostAssumption DEF Command, Persist, Works, Done
<1>4. /\ host' = host /\ host.disk \in Progress /\ m[2] = "persist" /\ command[m].step # "none"
      /\ UNCHANGED <<world, op, kept>>
  BY DEF IInv, TypeOK, Persist, Works, Done
<1> HIDE DEF c
<1>5. /\ command' \in [Markers -> Command]
      /\ command'[m] = c
      /\ \A k \in Markers : k # m => command'[k] = command[k]
      /\ \A k \in Markers : Used(k)' => Used(k)
  BY <1>2, OneCommand DEF IInv
<1>6. R \in Markers /\ \A effect \in Effects : Marker(effect) \in Markers
  BY NamedMarkers DEF IInv
<1>7. TypeOK'
  BY <1>3, <1>4, <1>5, <1>6 DEF IInv, TypeOK
<1>8. MarkerInv'
  BY <1>3, <1>4, <1>5, <1>6 DEF IInv, MarkerInv, Used, R, Effects, Marker
<1>9. RestoreInv'
  BY <1>3, <1>4, <1>5, <1>6 DEF IInv, RestoreInv, Restored, R, Effects
<1>10. GameInv'
  BY <1>3, <1>4, <1>5, <1>6 DEF IInv, GameInv, Restored
<1>11. SleepInv'
  BY <1>2, <1>3, <1>4, <1>5, <1>6, HostAssumption
     DEF IInv, TypeOK, MarkerInv, RestoreInv, GameInv, SleepInv, Restored, R, Run, Progress,
         Disk, Effects, Marker, Used
<1>12. QED
  BY <1>7, <1>8, <1>9, <1>10, <1>11 DEF IInv

LEMMA MemoizeKeeps ==
  ASSUME NEW m \in Markers, IInv, Memoize(m)
  PROVE  IInv'
<1> DEFINE c == [command[m] EXCEPT !.step = "none", !.output = None, !.result = command[m].output]
<1>1. command[m] \in Command
  BY DEF IInv, TypeOK
<1>2. /\ Used(m)
      /\ c \in Command
      /\ command' = [command EXCEPT ![m] = c]
  <2>1. Used(m)
    BY <1>1 DEF Used, Unused, Memoize
  <2>2. c \in Command
    BY <1>1, HostAssumption DEF Command, Memoize
  <2>3. command' = [command EXCEPT ![m] = c]
    BY DEF Memoize
  <2>4. QED
    BY <2>1, <2>2, <2>3
<1>3. /\ c.sent \in Nat
      /\ c.step = "none"
      /\ c.output = None
      /\ c.result = command[m].output
  BY <1>1, HostAssumption DEF Command, Memoize
<1>4. /\ host' = host /\ command[m].step = "done"
      /\ UNCHANGED <<world, op, kept>>
  BY DEF IInv, TypeOK, Memoize
<1> HIDE DEF c
<1>5. /\ command' \in [Markers -> Command]
      /\ command'[m] = c
      /\ \A k \in Markers : k # m => command'[k] = command[k]
      /\ \A k \in Markers : Used(k)' => Used(k)
  BY <1>2, OneCommand DEF IInv
<1>6. R \in Markers /\ \A effect \in Effects : Marker(effect) \in Markers
  BY NamedMarkers DEF IInv
<1>7. TypeOK'
  BY <1>3, <1>4, <1>5, <1>6 DEF IInv, TypeOK
<1>8. MarkerInv'
  BY <1>3, <1>4, <1>5, <1>6 DEF IInv, MarkerInv, Used, R, Effects, Marker
<1>9. RestoreInv'
  BY <1>2, <1>3, <1>4, <1>5, <1>6 DEF IInv, RestoreInv, Restored, R, Effects, MarkerInv
<1>10. GameInv'
  BY <1>2, <1>3, <1>4, <1>5, <1>6 DEF IInv, GameInv, Restored, R, Effects, MarkerInv, RestoreInv
<1>11. SleepInv'
  BY <1>3, <1>4, <1>5, <1>6 DEF IInv, SleepInv, R, Effects, Marker
<1>12. QED
  BY <1>7, <1>8, <1>9, <1>10, <1>11 DEF IInv

LEMMA DieKeeps ==
  ASSUME NEW m \in Markers, IInv, Die(m)
  PROVE  IInv'
<1> DEFINE c == [command[m] EXCEPT !.step = "none", !.output = None]
<1>1. command[m] \in Command
  BY DEF IInv, TypeOK
<1>2. /\ Used(m)
      /\ c \in Command
      /\ command' = [command EXCEPT ![m] = c]
  <2>1. Used(m)
    BY <1>1 DEF Used, Unused, Die
  <2>2. c \in Command
    BY <1>1, HostAssumption DEF Command, Die
  <2>3. command' = [command EXCEPT ![m] = c]
    BY DEF Die
  <2>4. QED
    BY <2>1, <2>2, <2>3
<1>3. /\ c.sent \in Nat
      /\ c.step = "none"
      /\ c.output = None
      /\ c.result = command[m].result
  BY <1>1, HostAssumption DEF Command, Die
<1>4. /\ host' = host
      /\ UNCHANGED <<world, op, kept>>
  BY DEF IInv, TypeOK, Die
<1> HIDE DEF c
<1>5. /\ command' \in [Markers -> Command]
      /\ command'[m] = c
      /\ \A k \in Markers : k # m => command'[k] = command[k]
      /\ \A k \in Markers : Used(k)' => Used(k)
  BY <1>2, OneCommand DEF IInv
<1>6. R \in Markers /\ \A effect \in Effects : Marker(effect) \in Markers
  BY NamedMarkers DEF IInv
<1>7. TypeOK'
  BY <1>3, <1>4, <1>5, <1>6 DEF IInv, TypeOK
<1>8. MarkerInv'
  BY <1>3, <1>4, <1>5, <1>6 DEF IInv, MarkerInv, Used, R, Effects, Marker
<1>9. RestoreInv'
  BY <1>3, <1>4, <1>5, <1>6 DEF IInv, RestoreInv, Restored
<1>10. GameInv'
  BY <1>3, <1>4, <1>5, <1>6 DEF IInv, GameInv, Restored
<1>11. SleepInv'
  BY <1>3, <1>4, <1>5, <1>6 DEF IInv, SleepInv, R, Effects, Marker
<1>12. QED
  BY <1>7, <1>8, <1>9, <1>10, <1>11 DEF IInv

-------------------------------------------------------------------------------
LEMMA InitHolds == Init => IInv
<1> SUFFICES ASSUME Init PROVE IInv
  OBVIOUS
<1>1. TypeOK
  BY HostAssumption DEF Init, TypeOK, FreshHost, Command, Unused, PhasesOf, Progress, Disk, Game
<1>2. /\ \A m \in Markers : command[m] = Unused
      /\ op = [number |-> MaxOps, kind |-> "sleep", phase |-> "over"]
      /\ world.status = "sleeping" /\ host.game = "stopped"
  BY DEF Init, FreshHost
<1>3. R \in Markers /\ \A effect \in Effects : Marker(effect) \in Markers
  BY <1>1, NamedMarkers
<1>4. MarkerInv /\ RestoreInv /\ GameInv /\ SleepInv
  BY <1>2, <1>3 DEF MarkerInv, RestoreInv, GameInv, SleepInv, Used, Restored, Unused, Effects
<1>5. QED
  BY <1>1, <1>4 DEF IInv

LEMMA Inductive == IInv /\ [Next]_vars => IInv'
<1> SUFFICES ASSUME IInv, [Next]_vars PROVE IInv'
  OBVIOUS
<1>1. CASE WorkerNext
  BY <1>1, RequestWakeKeeps, RequestSleepKeeps, RequestRecoveryKeeps, SendCommandKeeps,
     EffectAnswersKeeps, PersistAnswersKeeps, FailedWakeStopsKeeps, HealthyKeeps,
     UnhealthyKeeps, PlayersCheckedKeeps, RecordFailureKeeps
     DEF WorkerNext
<1>2. CASE HostNext
  BY <1>2, BootstrapEndsKeeps, CommandIsSpentKeeps, BeginKeeps, RemoveStateKeeps,
     RestoreStateKeeps, StartKeeps, SaveGameKeeps, StopKeeps, PersistKeeps, MemoizeKeeps,
     DieKeeps
     DEF HostNext
<1>3. CASE GameNext
  BY <1>3, PlayKeeps, AutosaveKeeps, CrashKeeps, RestartOnFailureKeeps DEF GameNext
<1>4. CASE UNCHANGED vars
  BY <1>4 DEF vars, IInv, TypeOK, MarkerInv, RestoreInv, GameInv, SleepInv, Used, Restored, Marker
<1>5. QED
  BY <1>1, <1>2, <1>3, <1>4 DEF Next

THEOREM IInvHolds == Spec => []IInv
<1>1. Init => IInv
  BY InitHolds
<1>2. IInv /\ [Next]_vars => IInv'
  BY Inductive
<1>3. QED
  BY <1>1, <1>2, PTL DEF Spec

\* The types, and that an operation is in a phase of its kind.
THEOREM TypesAreCorrect == Spec => []TypeOK
<1>1. IInv => TypeOK
  BY DEF IInv
<1>2. QED
  BY <1>1, IInvHolds, PTL

\* The game plays on a whole state that is not older than what its wake restored: the restore is
\* answered before anything else is asked of the instance, and what answers once does not run again.
THEOREM PlayedStateIsWhole == Spec => []PlaysOnWholeState
<1>1. IInv => PlaysOnWholeState
  BY DEF IInv, RestoreInv, GameInv, PlaysOnWholeState
<1>2. QED
  BY <1>1, IInvHolds, PTL

\* A sleep stores what it found in the memory of the game, whichever of its commands ran, and
\* never less than the World had.
THEOREM StoredStateHasWhatWasPlayed == Spec => WhatWasPlayedIsStored
<1> DEFINE Kept == world'.stored # world.stored =>
                     world'.stored >= kept /\ world'.stored >= world.stored
<1>1. ASSUME IInv, [Next]_vars PROVE [Kept]_vars
  <2>1. CASE PersistAnswers
    <3>1. command[Marker("persist")].result \in Nat /\ op.phase = "persist"
      BY <1>1, <2>1, NamedMarkers, HostAssumption
         DEF PersistAnswers, Answered, IInv, TypeOK, Command, Progress, Effects
    <3>2. QED
      BY <1>1, <2>1, <3>1, HostAssumption
         DEF PersistAnswers, Answered, IInv, TypeOK, SleepInv, Progress
  <2>2. CASE ~PersistAnswers
    <3>1. world'.stored = world.stored
      BY <1>1, <2>2
         DEF IInv, TypeOK, Next, vars, WorkerNext, HostNext, GameNext, RequestWake, RequestSleep,
             RequestRecovery, Request, SendCommand, EffectAnswers, FailedWakeStops, Healthy,
             Unhealthy, PlayersChecked, RecordFailure, End, BootstrapEnds, CommandIsSpent, Begin,
             RemoveState, RestoreState, Start, SaveGame, Stop, Persist, Done, Memoize, Die, Play,
             Autosave, Crash, RestartOnFailure
    <3>2. QED
      BY <3>1
  <2>3. QED
    BY <2>1, <2>2
<1>2. QED
  BY <1>1, IInvHolds, PTL DEF Spec, WhatWasPlayedIsStored
===============================================================================
