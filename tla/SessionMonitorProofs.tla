------------------------- MODULE SessionMonitorProofs -------------------------
(***************************************************************************)
(* Proofs about SessionMonitor: its types, and that no sleep for idleness  *)
(* is begun before it is due, for any number of monitors, settings and     *)
(* checks.                                                                 *)
(***************************************************************************)
EXTENDS SessionMonitor, TLAPS

-------------------------------------------------------------------------------
(* The inductive invariant. *)

\* The row of the World, its operation and the clocks; an Online World is not stored as
\* empty for longer than it has been quiet.
RowsInv ==
  /\ world \in World
  /\ execution \in {"none", "requested", "running", "failed"}
  /\ forced \in BOOLEAN /\ playing \in BOOLEAN /\ funded \in BOOLEAN
  /\ quiet \in Minutes
  /\ edits \in 0..MaxEdits
  /\ InProgress => execution # "none"
  /\ world.status = "online" /\ world.emptySince # None => world.emptySince <= quiet

\* What the steps of a monitor keep and forget.
Shape(r) ==
  /\ r \in Monitor
  /\ r.checks <= MaxChecks
  /\ r.step # "renewing" => r.checks < MaxChecks
  /\ r.age # None => r.step \in {"read", "counted"}
  /\ r.verdict # "none" => r.step = "counted"

\* A snapshot that is not stale tells what the row of an Online World says, but for the
\* minutes since; and a verdict on it is still right.
Snapshot(r) == r.age # None =>
  /\ world.status = "online"
  /\ world.emptySince = None => r.age <= quiet
  /\ r.step = "read" =>
       /\ r.autoSleep = world.autoSleep
       /\ r.emptySince = None <=> world.emptySince = None
       /\ r.emptySince # None => r.emptySince <= world.emptySince
  /\ r.verdict = "idle" =>
       /\ world.autoSleep # None /\ world.emptySince # None
       /\ world.emptySince >= world.autoSleep

MonitorsInv ==
  /\ monitor = [m \in Monitors |-> monitor[m]]
  /\ \A m \in Monitors : Shape(monitor[m]) /\ Snapshot(monitor[m])

IInv == RowsInv /\ MonitorsInv

-------------------------------------------------------------------------------
(* Lemmas about the helpers. *)

\* A monitor at a step with nothing read has the shape that its step and count allow.
LEMMA AtHasShape ==
  ASSUME NEW step \in {"none", "waiting", "online", "looking", "begun", "renewing"},
         NEW checks \in Nat, checks <= MaxChecks, step # "renewing" => checks < MaxChecks
  PROVE  Shape(At(step, checks)) /\ At(step, checks).age = None
BY DEF Shape, At, Monitor, InFlight, Ages, Verdicts

\* Given the operation, a monitor has a shape, and no snapshot.
LEMMA BegunHasShape ==
  ASSUME NEW checks \in Nat, checks < MaxChecks
  PROVE  /\ Shape([At("begun", checks) EXCEPT !.ours = TRUE])
         /\ [At("begun", checks) EXCEPT !.ours = TRUE].age = None
<1> DEFINE a == At("begun", checks)
<1>1. Shape(a) /\ a.age = None
  BY BoundsAssumption, AtHasShape
<1> HIDE DEF a
<1>2. Shape([a EXCEPT !.ours = TRUE]) /\ [a EXCEPT !.ours = TRUE].age = None
  BY <1>1 DEF Shape, Monitor
<1> QED BY <1>2 DEF a

\* A setting other than off, and an age other than None, is a number of minutes.
LEMMA SettingsAreMinutes ==
  /\ \A a \in AutoSleeps : a # None => a \in Nat
  /\ \A a \in Ages : a # None => a \in Nat
  /\ Minutes \subseteq Nat
<1>1. ASSUME NEW a \in AutoSleeps, a # None PROVE a \in Nat
  <2>1. a \in (1..Horizon) \cup {None} BY HorizonAssumption
  <2>2. a \in 1..Horizon BY <1>1, <2>1
  <2> QED BY <2>2, HorizonAssumption
<1>2. Minutes \subseteq Nat BY HorizonAssumption DEF Minutes
<1> QED BY <1>1, <1>2 DEF Ages

\* A minute later an age is an age, no smaller, and in the same order to others.
LEMMA MinutesPass ==
  /\ \A a \in Ages : MinuteAfter(a) \in Ages /\ (MinuteAfter(a) = None <=> a = None)
  /\ \A a \in Minutes : MinuteAfter(a) \in Minutes /\ a <= MinuteAfter(a)
  /\ \A a, b \in Minutes : a <= b => MinuteAfter(a) <= MinuteAfter(b)
BY HorizonAssumption DEF MinuteAfter, Ages, Minutes

\* Stale monitors keep their shape and have no snapshot.
LEMMA StaleKeepsShape ==
  ASSUME NEW f, \A m \in Monitors : Shape(f[m])
  PROVE  \A m \in Monitors : Shape(Stale(f)[m]) /\ Stale(f)[m].age = None
                             /\ Stale(f)[m].step = f[m].step /\ Stale(f)[m].checks = f[m].checks
BY DEF Stale, Shape, Monitor, Ages

\* The answers of a check leave a monitor with a shape and no snapshot.
LEMMA AnswersHaveShape ==
  ASSUME NEW m \in Monitors, Shape(monitor[m]), monitor[m].step # "renewing"
  PROVE  /\ \A r \in LastCheck(m) : Shape(r) /\ r.age = None
         /\ \A r \in NextCheck(m) : Shape(r) /\ r.age = None
<1>1. /\ monitor[m].checks \in Nat /\ monitor[m].checks < MaxChecks /\ MaxChecks \in Nat
      /\ monitor[m].checks + 1 \in Nat /\ monitor[m].checks + 1 <= MaxChecks
  BY BoundsAssumption DEF Shape, Monitor
<1>2. Shape(At("waiting", monitor[m].checks)) /\ At("waiting", monitor[m].checks).age = None
  BY <1>1, AtHasShape
<1>3. Shape(At("none", 0)) /\ At("none", 0).age = None
  BY BoundsAssumption, AtHasShape
<1>4. Shape(At("renewing", monitor[m].checks + 1)) /\ At("renewing", monitor[m].checks + 1).age = None
  BY <1>1, AtHasShape
<1>5. ~(monitor[m].checks + 1 >= MaxChecks) =>
        Shape(At("waiting", monitor[m].checks + 1)) /\ At("waiting", monitor[m].checks + 1).age = None
  BY <1>1, AtHasShape
<1> QED BY <1>2, <1>3, <1>4, <1>5 DEF LastCheck, NextCheck

-------------------------------------------------------------------------------
(* The two ways in which a step changes the monitors. *)

\* One monitor moves and the row of the World stays.
LEMMA OneMonitorMoves ==
  ASSUME IInv, NEW m \in Monitors, NEW r, Shape(r), Snapshot(r),
         monitor' = [monitor EXCEPT ![m] = r], UNCHANGED <<world, quiet>>
  PROVE  MonitorsInv'
BY DEF IInv, MonitorsInv, Snapshot

\* The World is saved: no monitor has a snapshot any longer.
LEMMA WorldIsSaved ==
  ASSUME monitor' = [m \in Monitors |-> monitor'[m]],
         \A m \in Monitors : Shape(monitor'[m]) /\ monitor'[m].age = None
  PROVE  MonitorsInv'
BY DEF MonitorsInv, Snapshot

-------------------------------------------------------------------------------
(* Every step keeps the invariant. *)

\* An operation ends: the World and all snapshots with it.
LEMMA OperationEnds ==
  ASSUME IInv, NEW saved, NEW f, EndOperation(saved, f), \A m \in Monitors : Shape(f[m])
  PROVE  MonitorsInv'
<1>1. \A m \in Monitors : /\ Shape(Stale(f)[m]) /\ Stale(f)[m].age = None
  BY StaleKeepsShape
<1>2. \A m \in Monitors : monitor'[m] = [Stale(f)[m] EXCEPT !.ours = FALSE]
  BY DEF EndOperation
<1>3. \A m \in Monitors : Shape(monitor'[m]) /\ monitor'[m].age = None
  <2> TAKE m \in Monitors
  <2> DEFINE r == Stale(f)[m]
  <2>1. Shape(r) /\ r.age = None /\ monitor'[m] = [r EXCEPT !.ours = FALSE]
    BY <1>1, <1>2
  <2> HIDE DEF r
  <2> QED BY <2>1 DEF Shape, Monitor
<1>4. monitor' = [m \in Monitors |-> monitor'[m]]
  BY DEF EndOperation
<1> QED BY <1>3, <1>4, WorldIsSaved

\* A save of the World that does nothing else to the monitors.
LEMMA SaveEndsSnapshots ==
  ASSUME IInv, NEW saved, SaveWorld(saved)
  PROVE  MonitorsInv'
<1>1. \A m \in Monitors : Shape(Stale(monitor)[m]) /\ Stale(monitor)[m].age = None
  BY StaleKeepsShape DEF IInv, MonitorsInv
<1>2. monitor' = Stale(monitor)
  BY DEF SaveWorld
<1>3. monitor' = [m \in Monitors |-> monitor'[m]]
  BY <1>2 DEF Stale
<1> QED BY <1>1, <1>2, <1>3, WorldIsSaved

\* An answer of monitor m's check, the World unchanged.
LEMMA AnswerKeepsMonitors ==
  ASSUME IInv, NEW m \in Monitors, monitor[m].step # "renewing", UNCHANGED <<world, quiet>>,
         Answers(monitor, m, LastCheck(m)) \/ Answers(monitor, m, NextCheck(m))
  PROVE  MonitorsInv'
<1>1. PICK r \in LastCheck(m) \cup NextCheck(m) : monitor' = [monitor EXCEPT ![m] = r]
  BY DEF Answers
<1>2. Shape(r) /\ r.age = None
  BY <1>1, AnswersHaveShape DEF IInv, MonitorsInv
<1> QED BY <1>1, <1>2, OneMonitorMoves DEF Snapshot

\* Monitor m goes to a step that needs nothing of what was read.
LEMMA MoveKeepsMonitors ==
  ASSUME IInv, NEW m \in Monitors, monitor[m].step # "renewing", UNCHANGED <<world, quiet>>,
         NEW step \in {"waiting", "online", "looking", "begun"}, GoTo(m, step)
  PROVE  MonitorsInv'
<1>1. monitor[m].checks \in Nat /\ monitor[m].checks < MaxChecks /\ monitor[m].checks <= MaxChecks
  BY BoundsAssumption DEF IInv, MonitorsInv, Shape, Monitor
<1>2. Shape(At(step, monitor[m].checks)) /\ At(step, monitor[m].checks).age = None
  BY <1>1, AtHasShape
<1>3. monitor' = [monitor EXCEPT ![m] = At(step, monitor[m].checks)]
  BY DEF GoTo
<1> QED BY <1>2, <1>3, OneMonitorMoves DEF Snapshot

\* Monitor m is given the operation in progress, the World unchanged.
LEMMA GivenKeepsMonitors ==
  ASSUME IInv, NEW m \in Monitors, monitor[m].step # "renewing", UNCHANGED <<world, quiet>>,
         monitor' = Given(monitor, m)
  PROVE  MonitorsInv'
<1>1. monitor[m].checks \in Nat /\ monitor[m].checks < MaxChecks
  BY BoundsAssumption DEF IInv, MonitorsInv, Shape, Monitor
<1> DEFINE r == [At("begun", monitor[m].checks) EXCEPT !.ours = TRUE]
<1>2. Shape(r) /\ r.age = None
  BY <1>1, BegunHasShape
<1>3. monitor' = [monitor EXCEPT ![m] = r]
  BY DEF Given
<1> HIDE DEF r
<1> QED BY <1>2, <1>3, OneMonitorMoves DEF Snapshot

\* Requests, dispatches, executions and the ends of operations.
LEMMA OperationsKeepInvariant == IInv /\ Operations => IInv'
<1> SUFFICES ASSUME IInv, Operations PROVE IInv'
  OBVIOUS
<1> USE DEF IInv
<1>0. 0 \in Minutes /\ (\A m \in Monitors : Shape(monitor[m]))
  BY HorizonAssumption DEF Minutes, MonitorsInv
<1>1. CASE RequestWake
  <2>1. RowsInv' BY <1>1 DEF RequestWake, SaveWorld, RowsInv, World, InProgress, session
  <2> QED BY <1>1, <2>1, SaveEndsSnapshots DEF RequestWake
<1>2. ASSUME NEW force \in BOOLEAN, RequestSleep(force) PROVE IInv'
  <2>1. RowsInv' BY <1>2 DEF RequestSleep, SaveWorld, RowsInv, World, InProgress, session
  <2> QED BY <1>2, <2>1, SaveEndsSnapshots DEF RequestSleep
<1>3. CASE Dispatch \/ ExecutionFails \/ Reconcile
  <2>1. RowsInv' BY <1>3 DEF Dispatch, ExecutionFails, Reconcile, EnsureRunning, RowsInv, InProgress, session
  <2>2. UNCHANGED <<world, monitor, quiet>> BY <1>3 DEF Dispatch, ExecutionFails, Reconcile
  <2> QED BY <2>1, <2>2 DEF MonitorsInv, Snapshot
<1>4. ASSUME NEW f, OpenSession(f), \A m \in Monitors : Shape(f[m]) PROVE IInv'
  <2>1. RowsInv'
    BY <1>0, <1>4 DEF OpenSession, EndOperation, RowsInv, World, InProgress, session, Ages
  <2> QED BY <1>4, <2>1, OperationEnds DEF OpenSession
<1>5. CASE WakeAnswerIsLost
  BY <1>0, <1>4, <1>5 DEF WakeAnswerIsLost
<1>6. ASSUME NEW m \in Monitors, WakeReachesOnline(m) PROVE IInv'
  <2>1. Shape(At("waiting", 0)) BY BoundsAssumption, AtHasShape
  <2>2. \A k \in Monitors : Shape([monitor EXCEPT ![m] = At("waiting", 0)][k])
    BY <1>0, <2>1 DEF MonitorsInv
  <2> QED BY <1>4, <1>6, <2>2 DEF WakeReachesOnline
<1>7. CASE WakeFails
  <2>1. RowsInv' BY <1>7 DEF WakeFails, EndOperation, RowsInv, World, InProgress, session
  <2> QED BY <1>0, <1>7, <2>1, OperationEnds DEF WakeFails
<1>8. CASE SleepIsCancelled
  <2>1. RowsInv'
    BY <1>0, <1>8 DEF SleepIsCancelled, EndOperation, RowsInv, World, InProgress, session, Ages
  <2> QED BY <1>0, <1>8, <2>1, OperationEnds DEF SleepIsCancelled
<1>9. CASE SleepEnds
  <2>1. RowsInv' BY <1>0, <1>9 DEF SleepEnds, EndOperation, RowsInv, World, InProgress
  <2> QED BY <1>0, <1>9, <2>1, OperationEnds DEF SleepEnds
<1>10. ASSUME NEW a \in AutoSleeps, UpdateRuntimeSettings(a) PROVE IInv'
  <2>1. RowsInv'
    BY <1>10, BoundsAssumption DEF UpdateRuntimeSettings, SaveWorld, RowsInv, World, InProgress, session
  <2> QED BY <1>10, <2>1, SaveEndsSnapshots DEF UpdateRuntimeSettings
<1> QED BY <1>1, <1>2, <1>3, <1>5, <1>6, <1>7, <1>8, <1>9, <1>10 DEF Operations

\* Players, credit and time.
LEMMA EnvironmentKeepsInvariant == IInv /\ Environment => IInv'
<1> SUFFICES ASSUME IInv, Environment PROVE IInv'
  OBVIOUS
<1> USE DEF IInv
<1>1. CASE PlayersComeOrGo \/ CreditRunsOutOrComes
  <2>1. RowsInv' BY <1>1 DEF PlayersComeOrGo, CreditRunsOutOrComes, RowsInv, InProgress
  <2>2. UNCHANGED <<world, monitor, quiet>> BY <1>1 DEF PlayersComeOrGo, CreditRunsOutOrComes
  <2> QED BY <2>1, <2>2 DEF MonitorsInv, Snapshot
<1>2. CASE Tick
  <2>1. /\ world' = [world EXCEPT !.emptySince = MinuteAfter(@)]
        /\ quiet' = MinuteAfter(quiet)
        /\ monitor' = [m \in Monitors |-> [monitor[m] EXCEPT !.age = MinuteAfter(@)]]
        /\ UNCHANGED <<execution, forced, playing, funded, edits>>
    BY <1>2 DEF Tick, session
  <2>2. /\ world \in World /\ quiet \in Minutes /\ world.emptySince \in Ages
        /\ world'.emptySince = MinuteAfter(world.emptySince)
        /\ world'.status = world.status /\ world'.autoSleep = world.autoSleep
    BY <2>1 DEF RowsInv, World
  <2>3. world' \in World /\ quiet' \in Minutes /\ quiet <= quiet'
    BY <2>1, <2>2, MinutesPass DEF World
  <2>4. world'.emptySince = None <=> world.emptySince = None
    BY <2>2, MinutesPass
  <2>5. world.emptySince # None => /\ world.emptySince \in Minutes /\ world'.emptySince \in Minutes
                                   /\ world.emptySince <= world'.emptySince
    BY <2>2, MinutesPass DEF Ages
  <2>6. world.emptySince # None /\ world.emptySince <= quiet => world'.emptySince <= quiet'
    BY <2>1, <2>2, <2>5, MinutesPass
  <2>7. RowsInv'
    BY <2>1, <2>2, <2>3, <2>4, <2>6 DEF RowsInv, InProgress
  <2>8. ASSUME NEW m \in Monitors PROVE Shape(monitor'[m]) /\ Snapshot(monitor[m])'
    <3>1. Shape(monitor[m]) /\ Snapshot(monitor[m]) /\ monitor[m] \in Monitor /\ monitor[m].age \in Ages
      BY DEF MonitorsInv, Shape, Monitor
    <3>2. monitor'[m] = [monitor[m] EXCEPT !.age = MinuteAfter(monitor[m].age)]
      BY <2>1
    <3>3. MinuteAfter(monitor[m].age) \in Ages /\ (MinuteAfter(monitor[m].age) = None <=> monitor[m].age = None)
      BY <3>1, MinutesPass
    <3>4. Shape(monitor'[m])
      BY <3>1, <3>2, <3>3 DEF Shape, Monitor
    <3>5. /\ monitor'[m].step = monitor[m].step /\ monitor'[m].autoSleep = monitor[m].autoSleep
          /\ monitor'[m].emptySince = monitor[m].emptySince
          /\ monitor'[m].verdict = monitor[m].verdict
          /\ monitor'[m].age = MinuteAfter(monitor[m].age)
      BY <3>1, <3>2 DEF Monitor
    <3>6. monitor[m].age # None /\ monitor[m].age <= quiet => monitor'[m].age <= quiet'
      BY <2>1, <2>2, <3>1, <3>5, MinutesPass DEF Ages
    <3>7. /\ monitor[m].emptySince \in Ages
          /\ world.autoSleep # None => world.autoSleep \in Nat
      <4>1. monitor[m].emptySince \in Ages BY <3>1 DEF Monitor
      <4>2. world.autoSleep \in AutoSleeps BY <2>2 DEF World
      <4> QED BY <4>1, <4>2, SettingsAreMinutes
    <3>8. Snapshot(monitor[m])'
      BY <2>2, <2>4, <2>5, <3>1, <3>3, <3>5, <3>6, <3>7, HorizonAssumption
      DEF Snapshot, Minutes, Ages
    <3> QED BY <3>4, <3>8
  <2>9. monitor' = [m \in Monitors |-> monitor'[m]] BY <2>1
  <2> QED BY <2>7, <2>8, <2>9 DEF MonitorsInv
<1> QED BY <1>1, <1>2 DEF Environment

\* Every step of a check.
LEMMA CheckKeepsInvariant ==
  ASSUME IInv, NEW m \in Monitors, Check(m)
  PROVE  IInv'
<1> USE DEF IInv
<1>0. /\ Shape(monitor[m]) /\ Snapshot(monitor[m]) /\ monitor[m] \in Monitor
      /\ monitor[m].checks \in Nat /\ monitor[m].checks <= MaxChecks
      /\ \A k \in Monitors : Shape(monitor[k])
      /\ monitor = [k \in Monitors |-> monitor[k]]
  BY DEF MonitorsInv, Shape, Monitor
<1>rows. ASSUME UNCHANGED <<world, execution, forced, session, quiet, edits>> PROVE RowsInv'
  BY <1>rows DEF RowsInv, InProgress, session
<1>1. CASE ReadStatus(m)
  <2>1. \/ \E step \in {"online", "looking"} : GoTo(m, step)
        \/ Answers(monitor, m, LastCheck(m))
    BY <1>1 DEF ReadStatus
  <2>2. MonitorsInv'
    BY <1>1, <2>1, MoveKeepsMonitors, AnswerKeepsMonitors DEF ReadStatus
  <2> QED BY <1>1, <1>rows, <2>2 DEF ReadStatus
<1>2. CASE LookForSleep(m)
  <2>1. MonitorsInv'
    BY <1>2, GivenKeepsMonitors, AnswerKeepsMonitors DEF LookForSleep
  <2> QED BY <1>2, <1>rows, <2>1 DEF LookForSleep
<1>3. CASE ReadWorld(m)
  <2>1. RowsInv' BY <1>3, <1>rows DEF ReadWorld
  <2>2. CASE world.status # "online"
    BY <1>3, <2>1, <2>2, AnswerKeepsMonitors DEF ReadWorld
  <2>3. CASE world.status = "online"
    <3> DEFINE r == [At("read", monitor[m].checks) EXCEPT
                       !.age = 0, !.emptySince = world.emptySince, !.autoSleep = world.autoSleep]
    <3>1. monitor' = [monitor EXCEPT ![m] = r]
      BY <1>3, <2>3 DEF ReadWorld
    <3>2. At("read", monitor[m].checks) \in Monitor
      BY <1>0 DEF At, Monitor, InFlight, Ages, Verdicts
    <3>3. /\ At("read", monitor[m].checks).step = "read" /\ At("read", monitor[m].checks).verdict = "none"
          /\ At("read", monitor[m].checks).checks = monitor[m].checks
      BY DEF At
    <3>4. /\ r.step = "read" /\ r.verdict = "none" /\ r.checks = monitor[m].checks
          /\ r.age = 0 /\ r.emptySince = world.emptySince /\ r.autoSleep = world.autoSleep
      BY <3>2, <3>3 DEF Monitor
    <3>5. 0 \in Ages /\ world.emptySince \in Ages /\ world.autoSleep \in AutoSleeps
      BY HorizonAssumption DEF Ages, Minutes, RowsInv, World
    <3>6. r \in Monitor
      BY <3>2, <3>5 DEF Monitor
    <3> HIDE DEF r
    <3>7. monitor[m].checks < MaxChecks
      BY <1>0, <1>3 DEF ReadWorld, Shape
    <3>8. Shape(r)
      BY <1>0, <3>4, <3>6, <3>7 DEF Shape
    <3>9. Snapshot(r)
      BY <2>3, <3>4, HorizonAssumption DEF Snapshot, RowsInv, Minutes, World, Ages
    <3> QED BY <1>3, <2>1, <3>1, <3>8, <3>9, OneMonitorMoves DEF ReadWorld
  <2> QED BY <2>2, <2>3
<1>4. CASE Observe(m)
  <2>1. RowsInv' BY <1>4, <1>rows DEF Observe
  <2>2. CASE Answers(monitor, m, NextCheck(m))
    BY <1>4, <2>1, <2>2, AnswerKeepsMonitors DEF Observe
  <2>3. ASSUME NEW v \in {"save", "idle", "balance"}, v = "idle" => Idle(m), Decided(m, v)
        PROVE IInv'
    <3> DEFINE r == [At("counted", monitor[m].checks) EXCEPT
                       !.age = monitor[m].age, !.empty = ~playing, !.verdict = v]
    <3>1. monitor' = [monitor EXCEPT ![m] = r]
      BY <2>3 DEF Decided
    <3>2. At("counted", monitor[m].checks) \in Monitor
      BY <1>0 DEF At, Monitor, InFlight, Ages, Verdicts
    <3>3. /\ At("counted", monitor[m].checks).step = "counted"
          /\ At("counted", monitor[m].checks).checks = monitor[m].checks
      BY DEF At
    <3>4. r.step = "counted" /\ r.verdict = v /\ r.checks = monitor[m].checks /\ r.age = monitor[m].age
      BY <3>2, <3>3 DEF Monitor
    <3>5. monitor[m].age \in Ages /\ v \in Verdicts /\ (~playing) \in BOOLEAN
      BY <1>0 DEF Monitor, Verdicts
    <3>6. r \in Monitor
      BY <3>2, <3>5 DEF Monitor
    <3> HIDE DEF r
    <3>7. monitor[m].checks < MaxChecks
      BY <1>0, <1>4 DEF Observe, Shape
    <3>8. Shape(r)
      BY <1>0, <3>4, <3>6, <3>7 DEF Shape
    <3>9. Snapshot(r)
      <4>1. monitor[m].step = "read" BY <1>4 DEF Observe
      <4>2. CASE v # "idle"
        BY <1>0, <3>4, <4>2 DEF Snapshot
      <4>3. CASE v = "idle" /\ monitor[m].age # None
        <5>1. /\ monitor[m].autoSleep # None /\ monitor[m].emptySince # None
              /\ monitor[m].emptySince >= monitor[m].autoSleep
          BY <2>3, <4>3 DEF Idle
        <5>2. /\ monitor[m].autoSleep = world.autoSleep /\ world.emptySince # None
              /\ monitor[m].emptySince <= world.emptySince
          BY <1>0, <4>1, <4>3, <5>1 DEF Snapshot
        <5>3. /\ monitor[m].emptySince \in Nat /\ world.emptySince \in Nat
              /\ world.autoSleep \in Nat
          <6>1. monitor[m].emptySince \in Ages /\ world.emptySince \in Ages /\ world.autoSleep \in AutoSleeps
            BY <1>0 DEF Monitor, RowsInv, World
          <6> QED BY <5>1, <5>2, <6>1, SettingsAreMinutes
        <5>4. world.emptySince >= world.autoSleep
          BY <5>1, <5>2, <5>3
        <5> QED BY <1>0, <3>4, <4>3, <5>1, <5>2, <5>4 DEF Snapshot
      <4>4. CASE monitor[m].age = None
        BY <3>4, <4>4 DEF Snapshot
      <4> QED BY <4>2, <4>3, <4>4
    <3> QED BY <1>4, <2>1, <3>1, <3>8, <3>9, OneMonitorMoves DEF Observe
  <2> QED BY <1>4, <2>2, <2>3 DEF Observe
<1>5. CASE BeginSleep(m)
  <2>1. /\ world.status = "online" /\ monitor[m].age # None /\ monitor[m].age \in Ages
    BY <1>0, <1>5 DEF BeginSleep, Snapshot, Monitor
  <2>2. NewEmptySince(m) \in Ages
    BY <2>1 DEF NewEmptySince, RowsInv, World, Ages
  <2>3. RowsInv'
    BY <1>5, <2>2 DEF BeginSleep, RowsInv, World, InProgress, session
  <2>4. \A k \in Monitors : Shape(Stale(monitor)[k]) /\ Stale(monitor)[k].age = None
                             /\ Stale(monitor)[k].checks = monitor[k].checks
    BY <1>0, StaleKeepsShape
  <2>5. monitor[m].checks < MaxChecks
    BY <1>0, <1>5 DEF BeginSleep, Shape
  <2> DEFINE r == [At("begun", monitor[m].checks) EXCEPT !.ours = TRUE]
  <2>6. Shape(r) /\ r.age = None
    BY <1>0, <2>5, BegunHasShape
  <2>7. monitor' = [Stale(monitor) EXCEPT ![m] = r]
    BY <1>5, <2>4 DEF BeginSleep, Given
  <2> HIDE DEF r
  <2>8. /\ \A k \in Monitors : Shape(monitor'[k]) /\ monitor'[k].age = None
        /\ monitor' = [k \in Monitors |-> monitor'[k]]
    BY <2>4, <2>6, <2>7 DEF Stale
  <2> QED BY <2>3, <2>8, WorldIsSaved
<1>6. CASE JoinOperation(m)
  <2>1. MonitorsInv' BY <1>6, GivenKeepsMonitors DEF JoinOperation
  <2> QED BY <1>6, <1>rows, <2>1 DEF JoinOperation
<1>7. CASE RepeatSleep(m)
  <2>1. MonitorsInv' BY <1>7, MoveKeepsMonitors DEF RepeatSleep
  <2> QED BY <1>7, <1>rows, <2>1 DEF RepeatSleep
<1>8. CASE SaveEmptySince(m)
  <2>1. /\ world.status = "online" /\ monitor[m].age # None /\ monitor[m].age \in Ages
        /\ world.emptySince = None => monitor[m].age <= quiet
    BY <1>0, <1>8 DEF SaveEmptySince, Snapshot, Monitor
  <2>2. NewEmptySince(m) \in Ages
    BY <2>1 DEF NewEmptySince, RowsInv, World, Ages
  <2>3. RowsInv'
    <3>1. NewEmptySince(m) # None => monitor[m].empty /\ NewEmptySince(m) <= quiet
      BY <2>1 DEF NewEmptySince, RowsInv
    <3>2. quiet' \in Minutes /\ (monitor[m].empty => quiet' = quiet)
      BY <1>8, HorizonAssumption DEF SaveEmptySince, RowsInv, Minutes
    <3> QED BY <1>8, <2>1, <2>2, <3>1, <3>2 DEF SaveEmptySince, RowsInv, World, InProgress, session
  <2>4. \A k \in Monitors : Shape(Stale(monitor)[k]) /\ Stale(monitor)[k].age = None
    BY <1>0, StaleKeepsShape
  <2>5. PICK r \in NextCheck(m) : monitor' = [Stale(monitor) EXCEPT ![m] = r]
    BY <1>8 DEF SaveEmptySince, Answers
  <2>6. Shape(r) /\ r.age = None
    BY <1>0, <1>8, <2>5, AnswersHaveShape DEF SaveEmptySince
  <2>7. /\ \A k \in Monitors : Shape(monitor'[k]) /\ monitor'[k].age = None
        /\ monitor' = [k \in Monitors |-> monitor'[k]]
    BY <2>4, <2>5, <2>6 DEF Stale
  <2> QED BY <2>3, <2>7, WorldIsSaved
<1>9. CASE EnsureOperation(m)
  <2>1. MonitorsInv' BY <1>9, AnswerKeepsMonitors DEF EnsureOperation
  <2>2. RowsInv' BY <1>9 DEF EnsureOperation, EnsureRunning, RowsInv, InProgress, session
  <2> QED BY <2>1, <2>2
<1>10. CASE CheckFails(m)
  <2>1. MonitorsInv' BY <1>10, MoveKeepsMonitors DEF CheckFails, InFlight
  <2> QED BY <1>10, <1>rows, <2>1 DEF CheckFails
<1>11. CASE Renew(m) \/ RenewFails(m)
  <2>1. PICK step \in {"waiting", "none"} : monitor' = [monitor EXCEPT ![m] = At(step, 0)]
    BY <1>11 DEF Renew, RenewFails
  <2>2. Shape(At(step, 0)) /\ At(step, 0).age = None
    BY BoundsAssumption, AtHasShape
  <2>3. UNCHANGED <<world, execution, forced, session, quiet, edits>>
    BY <1>11 DEF Renew, RenewFails
  <2>4. MonitorsInv'
    BY <2>1, <2>2, <2>3, OneMonitorMoves DEF Snapshot
  <2> QED BY <1>rows, <2>3, <2>4
<1> QED BY <1>1, <1>2, <1>3, <1>4, <1>5, <1>6, <1>7, <1>8, <1>9, <1>10, <1>11 DEF Check

-------------------------------------------------------------------------------
(* Theorems. *)

\* The invariant holds in every behaviour of the monitors.
THEOREM MonitorInvariant == Spec => []IInv
<1>1. Init => IInv
  <2> SUFFICES ASSUME Init PROVE IInv
    OBVIOUS
  <2>1. PICK a \in AutoSleeps :
          world = [status |-> "sleeping", emptySince |-> None, autoSleep |-> a]
    BY DEF Init
  <2>4. RowsInv
    <3>1. world \in World /\ world.status = "sleeping"
      BY <2>1 DEF World, Ages
    <3>2. quiet \in Minutes /\ edits \in 0..MaxEdits
      BY HorizonAssumption, BoundsAssumption DEF Init, Minutes
    <3> QED BY <3>1, <3>2 DEF Init, RowsInv, InProgress
  <2>2. Shape(At("none", 0)) /\ At("none", 0).age = None
    BY BoundsAssumption, AtHasShape
  <2>3. MonitorsInv
    BY <2>2 DEF Init, MonitorsInv, Snapshot
  <2> QED BY <2>3, <2>4 DEF IInv
<1>2. IInv /\ [Next]_vars => IInv'
  <2>1. IInv /\ UNCHANGED vars => IInv'
    BY DEF IInv, RowsInv, MonitorsInv, Snapshot, InProgress, vars, session
  <2> QED BY <2>1, CheckKeepsInvariant, OperationsKeepInvariant, EnvironmentKeepsInvariant DEF Next
<1> QED BY <1>1, <1>2, PTL DEF Spec

\* The variables keep the values that the code can store, and no monitor makes more checks
\* than its execution has room for before it renews itself (worker.monitor_session and the
\* monitor states of world-operation.asl.json).
THEOREM TypesAreCorrect == Spec => []TypeOK
<1>1. IInv => TypeOK
  BY DEF IInv, RowsInv, MonitorsInv, Shape, TypeOK
<1> QED BY <1>1, MonitorInvariant, PTL

\* However many monitors check a World at once, and whatever is saved between the read and the
\* decision of a check, a sleep for idleness begins only after the auto-sleep time that the
\* World stores at that moment, counted within its session (worker.monitor_session).
THEOREM IdleSleepIsEarned == Spec => AutoSleepIsEarned
<1> DEFINE Earned == \A m \in Monitors :
     (/\ monitor[m].verdict = "idle" /\ monitor'[m].step = "begun"
      /\ world.status # "going_to_sleep" /\ world'.status = "going_to_sleep")
       => world.autoSleep # None /\ quiet >= world.autoSleep
<1>1. IInv /\ [Next]_vars => [Earned]_vars
  <2> SUFFICES ASSUME IInv, Next, NEW m \in Monitors,
                      monitor[m].verdict = "idle", monitor'[m].step = "begun",
                      world.status # "going_to_sleep", world'.status = "going_to_sleep"
               PROVE  world.autoSleep # None /\ quiet >= world.autoSleep
    BY DEF vars
  <2>1. /\ monitor[m].step = "counted"
        /\ Shape(monitor[m]) /\ Snapshot(monitor[m])
        /\ monitor = [k \in Monitors |-> monitor[k]]
    BY DEF IInv, RowsInv, MonitorsInv, Shape
  <2>2. monitor[m].age # None => world.autoSleep # None /\ quiet >= world.autoSleep
    <3> SUFFICES ASSUME monitor[m].age # None
                 PROVE  world.autoSleep # None /\ quiet >= world.autoSleep
      OBVIOUS
    <3>1. /\ world.status = "online" /\ world.autoSleep # None /\ world.emptySince # None
          /\ world.emptySince >= world.autoSleep
      BY <2>1 DEF Snapshot
    <3>2. world.emptySince <= quiet /\ quiet \in Nat /\ world.emptySince \in Nat /\ world.autoSleep \in Nat
      <4>1. world.emptySince \in Ages /\ world.autoSleep \in AutoSleeps /\ quiet \in Minutes
        BY DEF IInv, RowsInv, World
      <4> QED BY <3>1, <4>1, SettingsAreMinutes DEF IInv, RowsInv
    <3> QED BY <3>1, <3>2
  <2>3. monitor[m].age # None
    <3>1. CASE Operations
      <4>1. \A k \in Monitors : Stale(monitor)[k].step = monitor[k].step
        BY StaleKeepsShape DEF IInv, MonitorsInv
      <4>2. world \in World
        BY DEF IInv, RowsInv
      <4>3. \A f, e : ~EndOperation([world EXCEPT !.status = "online", !.emptySince = e], f)
                       /\ ~EndOperation([world EXCEPT !.status = "sleeping"], f)
        BY <4>2 DEF EndOperation, World
      <4>4. ~OpenSession(monitor) /\ \A k \in Monitors : ~WakeReachesOnline(k)
        BY <4>3 DEF OpenSession, WakeReachesOnline
      <4>5. ~WakeFails /\ ~SleepIsCancelled /\ ~SleepEnds
        BY <4>3 DEF WakeFails, SleepIsCancelled, SleepEnds
      <4>6. \A s : ~SaveWorld(s)
        BY <2>1, <4>1 DEF SaveWorld
      <4> QED
        BY <3>1, <4>4, <4>5, <4>6
        DEF Operations, RequestWake, RequestSleep, Dispatch, WakeAnswerIsLost, ExecutionFails,
            Reconcile, UpdateRuntimeSettings
    <3>2. CASE Environment
      <4>1. CASE Tick
        <5>1. monitor'[m] = [monitor[m] EXCEPT !.age = MinuteAfter(monitor[m].age)]
          BY <4>1 DEF Tick
        <5> QED BY <2>1, <5>1 DEF Shape, Monitor
      <4> QED BY <2>1, <3>2, <4>1 DEF Environment, PlayersComeOrGo, CreditRunsOutOrComes
    <3>3. ASSUME NEW k \in Monitors, Check(k), k # m PROVE FALSE
      <4>1. Stale(monitor)[m].step = "counted"
        BY <2>1, StaleKeepsShape DEF IInv, MonitorsInv
      <4>2. \A r, g : g = [monitor EXCEPT ![k] = r] => g[m] = monitor[m]
        BY <2>1, <3>3
      <4>3. \A r, g : g = [Stale(monitor) EXCEPT ![k] = r] => g[m] = Stale(monitor)[m]
        BY <2>1, <3>3 DEF Stale
      <4>4. monitor'[m] \in {monitor[m], Stale(monitor)[m]}
        BY <3>3, <4>2, <4>3
        DEF Check, ReadStatus, LookForSleep, ReadWorld, Observe, BeginSleep, JoinOperation,
            RepeatSleep, SaveEmptySince, EnsureOperation, CheckFails, Renew, RenewFails, GoTo, Answers, Given, Decided
      <4> QED BY <2>1, <4>1, <4>4
    <3>4. CASE Check(m)
      <4>1. BeginSleep(m) \/ JoinOperation(m) \/ RepeatSleep(m) \/ CheckFails(m)
        BY <2>1, <3>4
        DEF Check, ReadStatus, LookForSleep, ReadWorld, Observe, SaveEmptySince, EnsureOperation, Renew, RenewFails
      <4>2. world' # world
        OBVIOUS
      <4> QED BY <4>1, <4>2 DEF BeginSleep, JoinOperation, RepeatSleep, CheckFails
    <3> QED BY <3>1, <3>2, <3>3, <3>4 DEF Next
  <2> QED BY <2>2, <2>3
<1> QED BY <1>1, MonitorInvariant, PTL DEF Spec, AutoSleepIsEarned
=============================================================================
