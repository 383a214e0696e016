--------------------------- MODULE SessionMonitor ---------------------------
(***************************************************************************)
(* The monitors of one World's sessions.  The execution of a successful    *)
(* wake goes on as a monitor: every minute it invokes the worker Lambda,   *)
(* which counts the players, asks the Balance Guard whether the session    *)
(* can go on, and begins a sleep when the World has been empty for its     *)
(* auto-sleep time or its credit is used up.  A monitor of an earlier      *)
(* session may still be waiting when the World is Online again.            *)
(*                                                                         *)
(* Time is counted in minutes up to Horizon, past which nothing changes.   *)
(* The 60 s wait and the 300 s backoff of the execution are both step      *)
(* "waiting".  Versions appear only as the age of a monitor's snapshot,    *)
(* which ends when the World is saved: a save of a stale snapshot fails.   *)
(* Of the operations only the one in progress is kept (WorldLifecycle      *)
(* shows that there is one at most), with the state of its execution.      *)
(* Status "sleeping" stands for Needs Attention too, which the monitors    *)
(* treat alike.  A host that does not answer is a check that fails.        *)
(***************************************************************************)
EXTENDS Naturals

CONSTANTS
  Monitors,      \* slots for the monitor executions alive at the same time
  AutoSleeps,    \* auto-sleep settings a User may choose, None for off
  Horizon,       \* the longest time told apart from a longer one
  MaxChecks,     \* checks before a monitor renews itself (600 in the code)
  MaxEdits,      \* bound on the changes of the settings
  LossesAllowed, \* whether an execution may fail where nothing retries it
  None           \* the absent value

ASSUME HorizonAssumption ==
  /\ Horizon \in Nat
  /\ None \notin Nat
  /\ AutoSleeps \subseteq (1..Horizon) \cup {None}
ASSUME BoundsAssumption ==
  /\ MaxChecks \in Nat \ {0}
  /\ MaxEdits \in Nat
  /\ LossesAllowed \in BOOLEAN

VARIABLES
  world,      \* the row of the World: status, empty_since as its age, auto_sleep_minutes
  execution,  \* the execution of the operation in progress, "none" without one
  forced,     \* a sleep is in progress that ends the session of whoever plays
  monitor,    \* the monitor executions and the checks they have in flight
  playing,    \* somebody plays
  funded,     \* the Balance Guard can extend the reservation
  quiet,      \* minutes since the session began or went on, or players were recorded
  edits       \* changes of the settings so far, at most MaxEdits

session == <<playing, funded>>
vars == <<world, execution, forced, monitor, session, quiet, edits>>

Minutes == 0..Horizon
Ages == Minutes \cup {None}
World == [status: {"sleeping", "waking", "online", "going_to_sleep"},
          emptySince: Ages, autoSleep: AutoSleeps]
\* "none" is a slot without an execution, "online" to "begun" a check in flight.
InFlight == {"online", "looking", "read", "counted", "begun"}
Verdicts == {"none", "save", "idle", "balance"}
Monitor == [step: InFlight \cup {"none", "waiting", "renewing"}, checks: Nat,
            age: Ages,   \* of the snapshot, None without one or once it is stale
            emptySince: Ages, autoSleep: AutoSleeps \cup {None},  \* as read
            verdict: Verdicts, empty: BOOLEAN,  \* what the worker decided and observed
            ours: BOOLEAN]   \* the operation to ensure is still in progress

InSession == world.status \in {"online", "going_to_sleep"}
InProgress == world.status \in {"waking", "going_to_sleep"}
Monitored == \E m \in Monitors : monitor[m].step # "none"

\* A monitor at a step, with nothing read.
At(step, checks) ==
  [step |-> step, checks |-> checks, age |-> None, emptySince |-> None, autoSleep |-> None,
   verdict |-> "none", empty |-> FALSE, ours |-> FALSE]
\* Monitor m goes to a step that needs nothing of what its check has read.
GoTo(m, step) == monitor' = [monitor EXCEPT ![m] = At(step, @.checks)]
\* The check of monitor m answers that it is the last one; or the answer is lost, and the
\* execution checks again.
LastCheck(m) == {At("none", 0), At("waiting", monitor[m].checks)}
\* Mutant: the count that is compared is the one before the check.
NextCheckUncounted(m) ==
  {IF monitor[m].checks > MaxChecks THEN At("renewing", monitor[m].checks + 1)
   ELSE At("waiting", monitor[m].checks + 1)}
\* It answers that the World is to be checked again: the execution counts the check and waits,
\* or renews itself before its history is full. Or the answer is lost.
NextCheck(m) ==
  LET checks == monitor[m].checks + 1
  IN  {IF checks >= MaxChecks THEN At("renewing", checks) ELSE At("waiting", checks),
       At("waiting", monitor[m].checks)}
Answers(monitors, m, answers) == \E a \in answers : monitor' = [monitors EXCEPT ![m] = a]

MinuteAfter(age) == IF age = None \/ age = Horizon THEN age ELSE age + 1

Init ==
  /\ world \in {[status |-> "sleeping", emptySince |-> None, autoSleep |-> a] : a \in AutoSleeps}
  /\ execution = "none"
  /\ forced = FALSE
  /\ monitor = [m \in Monitors |-> At("none", 0)]
  /\ playing = FALSE /\ funded = TRUE
  /\ quiet = 0
  /\ edits = 0

-------------------------------------------------------------------------------
(* Saves of the World. *)

\* Every save of the World makes the snapshots in flight stale.
Stale(monitors) == [m \in Monitors |-> [monitors[m] EXCEPT !.age = None]]
SaveWorld(saved) ==
  /\ world' = saved
  /\ monitor' = Stale(monitor)

\* The operation ends in the transaction that saves the World.
EndOperation(saved, monitors) ==
  /\ world' = saved
  /\ monitor' = [m \in Monitors |-> [Stale(monitors)[m] EXCEPT !.ours = FALSE]]
  /\ execution' = "none"
  /\ forced' = FALSE

-------------------------------------------------------------------------------
(* Wakes, sleeps asked for by Users, and the executions of both. *)

RequestWake ==
  /\ world.status = "sleeping"
  /\ SaveWorld([world EXCEPT !.status = "waking"])
  /\ execution' = "requested"
  /\ UNCHANGED <<forced, session, quiet, edits>>

RequestSleep(force) ==
  /\ world.status = "online"
  /\ SaveWorld([world EXCEPT !.status = "going_to_sleep"])
  /\ execution' = "requested"
  /\ forced' = force
  /\ UNCHANGED <<session, quiet, edits>>

\* The request that began the operation starts its execution, if it does not stop before.
Dispatch ==
  /\ execution = "requested"
  /\ execution' = "running"
  /\ UNCHANGED <<world, forced, monitor, session, quiet, edits>>

\* Mutant: the World is Online with the empty_since of its last session.
OpenSessionKeepingAge(monitors) ==
  /\ world.status = "waking"
  /\ execution = "running"
  /\ EndOperation([world EXCEPT !.status = "online"], monitors)
  /\ quiet' = 0
  /\ UNCHANGED <<session, edits>>

\* A session begins: the check that found the game healthy saves the World Online.
OpenSession(monitors) ==
  /\ world.status = "waking"
  /\ execution = "running"
  /\ EndOperation([world EXCEPT !.status = "online", !.emptySince = None], monitors)
  /\ quiet' = 0
  /\ UNCHANGED <<session, edits>>

\* The execution of the wake goes on as a monitor; Monitors bounds how many are alive.
WakeReachesOnline(m) ==
  /\ monitor[m].step = "none"
  /\ OpenSession([monitor EXCEPT ![m] = At("waiting", 0)])

\* The answer that the wake succeeded is lost more often than it is retried: the failure
\* recorded instead finds the operation terminal, and the execution ends.
WakeAnswerIsLost ==
  /\ LossesAllowed
  /\ OpenSession(monitor)

\* The wake fails: in its preflight before it is dispatched, or in its execution.
WakeFails ==
  /\ world.status = "waking"
  /\ execution \in {"requested", "running"}
  /\ EndOperation([world EXCEPT !.status = "sleeping"], monitor)
  /\ UNCHANGED <<session, quiet, edits>>

\* A sleep that nobody forced finds players and gives the session back.
SleepIsCancelled ==
  /\ world.status = "going_to_sleep"
  /\ execution = "running"
  /\ playing
  /\ ~forced
  /\ EndOperation([world EXCEPT !.status = "online", !.emptySince = None], monitor)
  /\ quiet' = 0
  /\ UNCHANGED <<session, edits>>

\* The sleep succeeds, or its failure is recorded.
SleepEnds ==
  /\ world.status = "going_to_sleep"
  /\ execution = "running"
  /\ EndOperation([world EXCEPT !.status = "sleeping"], monitor)
  /\ playing' = FALSE /\ quiet' = 0
  /\ UNCHANGED <<funded, edits>>

\* The recording of a failure fails too.
ExecutionFails ==
  /\ execution = "running"
  /\ execution' = "failed"
  /\ UNCHANGED <<world, forced, monitor, session, quiet, edits>>

\* ensure_running: starts an execution that was never started, redrives one that failed.
EnsureRunning ==
  execution' = IF execution \in {"requested", "failed"} THEN "running" ELSE execution

\* An operator runs the reconciliation, which no schedule does.
Reconcile ==
  /\ execution \in {"requested", "failed"}
  /\ EnsureRunning
  /\ UNCHANGED <<world, forced, monitor, session, quiet, edits>>

UpdateRuntimeSettings(autoSleep) ==
  /\ edits < MaxEdits
  /\ SaveWorld([world EXCEPT !.autoSleep = autoSleep])
  /\ edits' = edits + 1
  /\ UNCHANGED <<execution, forced, session, quiet>>

-------------------------------------------------------------------------------
(* One check of a monitor. *)

\* Mutant: a World going to sleep has nothing left to monitor.
ReadStatusOnlineOnly(m) ==
  /\ monitor[m].step = "waiting"
  /\ IF world.status = "online" THEN GoTo(m, "online") ELSE Answers(monitor, m, LastCheck(m))
  /\ UNCHANGED <<world, execution, forced, session, quiet, edits>>

\* The handler reads the status of the World and chooses what to do.
ReadStatus(m) ==
  /\ monitor[m].step = "waiting"
  /\ CASE world.status = "online"         -> GoTo(m, "online")
       [] world.status = "going_to_sleep" -> GoTo(m, "looking")
       [] OTHER                           -> Answers(monitor, m, LastCheck(m))
  /\ UNCHANGED <<world, execution, forced, session, quiet, edits>>

\* Monitor m is given the operation in progress.
Given(monitors, m) == [monitors EXCEPT ![m] = [At("begun", @.checks) EXCEPT !.ours = TRUE]]

\* A World going to sleep: the handler looks for the sleep in progress, to ensure it runs.
LookForSleep(m) ==
  /\ monitor[m].step = "looking"
  /\ IF world.status = "going_to_sleep" THEN monitor' = Given(monitor, m)
     ELSE Answers(monitor, m, LastCheck(m))
  /\ UNCHANGED <<world, execution, forced, session, quiet, edits>>

\* The worker reads the World again, and has nothing to do unless it is Online still.
ReadWorld(m) ==
  /\ monitor[m].step = "online"
  /\ IF world.status = "online"
     THEN monitor' = [monitor EXCEPT ![m] =
            [At("read", @.checks) EXCEPT !.age = 0, !.emptySince = world.emptySince,
                                         !.autoSleep = world.autoSleep]]
     ELSE Answers(monitor, m, NextCheck(m))
  /\ UNCHANGED <<world, execution, forced, session, quiet, edits>>

\* Empty for the auto-sleep time when the World was read, which is the time of the check.
Idle(m) ==
  /\ ~playing
  /\ monitor[m].autoSleep # None /\ monitor[m].emptySince # None
  /\ monitor[m].emptySince >= monitor[m].autoSleep
\* The World was empty, or was not, since another time than it stores.
EmptinessChanged(m) == (monitor[m].emptySince = None) = ~playing

\* The worker has decided, on the World it read and the players it counted.
Decided(m, verdict) ==
  monitor' = [monitor EXCEPT ![m] =
    [At("counted", @.checks) EXCEPT !.age = monitor[m].age, !.empty = ~playing, !.verdict = verdict]]

\* Mutant: the Balance Guard is not asked while somebody plays.
ObserveUnguarded(m) ==
  /\ monitor[m].step = "read"
  /\ \/ ~funded /\ ~playing /\ Decided(m, "balance")
     \/ (funded \/ playing) /\ Idle(m) /\ Decided(m, "idle")
     \/ (funded \/ playing) /\ ~Idle(m) /\ EmptinessChanged(m) /\ Decided(m, "save")
     \/ (funded \/ playing) /\ ~Idle(m) /\ ~EmptinessChanged(m) /\ Answers(monitor, m, NextCheck(m))
  /\ UNCHANGED <<world, execution, forced, session, quiet, edits>>

\* The worker counts the players on the host, asks the Balance Guard, and decides.
Observe(m) ==
  /\ monitor[m].step = "read"
  /\ \/ ~funded /\ Decided(m, "balance")
     \/ funded /\ Idle(m) /\ Decided(m, "idle")
     \/ funded /\ ~Idle(m) /\ EmptinessChanged(m) /\ Decided(m, "save")
     \/ funded /\ ~Idle(m) /\ ~EmptinessChanged(m) /\ Answers(monitor, m, NextCheck(m))
  /\ UNCHANGED <<world, execution, forced, session, quiet, edits>>

\* The empty_since to save: since the check if the World was not empty before.
NewEmptySince(m) ==
  IF ~monitor[m].empty THEN None
  ELSE IF world.emptySince = None THEN monitor[m].age ELSE world.emptySince

\* The worker begins a sleep, forced when the credit is used up.
BeginSleep(m) ==
  /\ monitor[m].step = "counted" /\ monitor[m].verdict \in {"idle", "balance"}
  /\ ~InProgress
  /\ monitor[m].age # None
  /\ world' = [world EXCEPT !.status = "going_to_sleep", !.emptySince = NewEmptySince(m)]
  /\ monitor' = Given(Stale(monitor), m)
  /\ execution' = "requested"
  /\ forced' = (monitor[m].verdict = "balance")
  /\ UNCHANGED <<session, quiet, edits>>

\* Another operation is in progress: the worker is given that one, whatever it read.
JoinOperation(m) ==
  /\ monitor[m].step = "counted" /\ monitor[m].verdict \in {"idle", "balance"}
  /\ InProgress
  /\ monitor' = Given(monitor, m)
  /\ UNCHANGED <<world, execution, forced, session, quiet, edits>>

\* The key of a sleep is its reason and the minute of the check: the sleep that another check
\* has begun since, if it was in the same minute, is the one given, also once it has ended.
RepeatSleep(m) ==
  /\ monitor[m].step = "counted" /\ monitor[m].verdict \in {"idle", "balance"}
  /\ monitor[m].age = None /\ Monitors # {m}
  /\ GoTo(m, "begun")
  /\ UNCHANGED <<world, execution, forced, session, quiet, edits>>

\* Mutant: the age of an empty World is forgotten between two checks.
SaveNothing(m) ==
  /\ monitor[m].step = "counted" /\ monitor[m].verdict = "save"
  /\ Answers(monitor, m, NextCheck(m))
  /\ UNCHANGED <<world, execution, forced, session, quiet, edits>>

\* No sleep is needed: the worker saves since when the World is empty, as that changed.
SaveEmptySince(m) ==
  /\ monitor[m].step = "counted" /\ monitor[m].verdict = "save"
  /\ monitor[m].age # None
  /\ world' = [world EXCEPT !.emptySince = NewEmptySince(m)]
  /\ Answers(Stale(monitor), m, NextCheck(m))
  /\ quiet' = IF monitor[m].empty THEN quiet ELSE 0
  /\ UNCHANGED <<execution, forced, session, edits>>

\* The handler ensures that the operation it was given runs; one that ended is left alone.
EnsureOperation(m) ==
  /\ monitor[m].step = "begun"
  /\ IF monitor[m].ours THEN EnsureRunning ELSE UNCHANGED execution
  /\ Answers(monitor, m, LastCheck(m))
  /\ UNCHANGED <<world, forced, session, quiet, edits>>

\* An error, a lost comparison of versions, or a timeout.
CheckFails(m) ==
  /\ monitor[m].step \in InFlight
  /\ GoTo(m, "waiting")
  /\ UNCHANGED <<world, execution, forced, session, quiet, edits>>

\* A new execution takes the place of the old one.
Renew(m) ==
  /\ monitor[m].step = "renewing"
  /\ monitor' = [monitor EXCEPT ![m] = At("waiting", 0)]
  /\ UNCHANGED <<world, execution, forced, session, quiet, edits>>

\* Nothing retries the start of the new execution, and nothing catches its error.
RenewFails(m) ==
  /\ LossesAllowed
  /\ monitor[m].step = "renewing"
  /\ monitor' = [monitor EXCEPT ![m] = At("none", 0)]
  /\ UNCHANGED <<world, execution, forced, session, quiet, edits>>

-------------------------------------------------------------------------------
(* The environment: players, the Wallet and time, during a session. *)

PlayersComeOrGo ==
  /\ InSession
  /\ playing' = ~playing
  /\ UNCHANGED <<world, execution, forced, monitor, funded, quiet, edits>>

CreditRunsOutOrComes ==
  /\ InSession
  /\ funded' = ~funded
  /\ UNCHANGED <<world, execution, forced, monitor, playing, quiet, edits>>

Tick ==
  /\ InSession
  /\ world' = [world EXCEPT !.emptySince = MinuteAfter(@)]
  /\ quiet' = MinuteAfter(quiet)
  /\ monitor' = [m \in Monitors |-> [monitor[m] EXCEPT !.age = MinuteAfter(@)]]
  /\ UNCHANGED <<execution, forced, session, edits>>

Check(m) ==
  \/ ReadStatus(m) \/ LookForSleep(m) \/ ReadWorld(m) \/ Observe(m)
  \/ BeginSleep(m) \/ JoinOperation(m) \/ RepeatSleep(m) \/ SaveEmptySince(m)
  \/ EnsureOperation(m) \/ CheckFails(m) \/ Renew(m) \/ RenewFails(m)

Operations ==
  \/ RequestWake \/ Dispatch \/ WakeAnswerIsLost \/ WakeFails
  \/ \E m \in Monitors : WakeReachesOnline(m)
  \/ \E force \in BOOLEAN : RequestSleep(force)
  \/ SleepIsCancelled \/ SleepEnds \/ ExecutionFails \/ Reconcile
  \/ \E a \in AutoSleeps : UpdateRuntimeSettings(a)

Environment == PlayersComeOrGo \/ CreditRunsOutOrComes \/ Tick

Next == (\E m \in Monitors : Check(m)) \/ Operations \/ Environment

(***************************************************************************)
(* Step Functions schedules every state of a monitor's execution and goes  *)
(* on after a failed check, so none of the first actions is put off for    *)
(* ever.  A check that is stuck fails: no invocation outlives its timeout. *)
(* And a stage of the check that is tried again and again succeeds at      *)
(* last, which for one of them needs a host that answers.  Nothing is      *)
(* assumed of requests, of operations, or of the environment but that time *)
(* passes.                                                                 *)
(***************************************************************************)
Prepare(m) == LookForSleep(m) \/ ReadWorld(m)
Reach(m) == Observe(m) \/ EnsureOperation(m)
Decide(m) == BeginSleep(m) \/ JoinOperation(m) \/ RepeatSleep(m) \/ SaveEmptySince(m)

Fairness ==
  /\ WF_vars(Tick)
  /\ \A m \in Monitors :
       /\ WF_vars(ReadStatus(m)) /\ WF_vars(CheckFails(m)) /\ WF_vars(Renew(m))
       /\ SF_vars(Prepare(m)) /\ SF_vars(Reach(m)) /\ SF_vars(Decide(m))

Spec == Init /\ [][Next]_vars /\ Fairness

-------------------------------------------------------------------------------
(* Properties. *)

\* Every variable keeps a value the code can store, and a monitor renews itself in time.
TypeOK ==
  /\ world \in World
  /\ execution \in {"none", "requested", "running", "failed"}
  /\ forced \in BOOLEAN
  /\ monitor \in [Monitors -> Monitor]
  /\ \A m \in Monitors : monitor[m].checks <= MaxChecks
  /\ playing \in BOOLEAN /\ funded \in BOOLEAN
  /\ quiet \in Minutes
  /\ edits \in 0..MaxEdits

\* A sleep for idleness begins only when the World has been Online, with no players recorded,
\* for the auto-sleep minutes it stores at that moment: worker.monitor_session decides on a
\* snapshot, which settings, other monitors and a cancelled sleep may have overtaken.
AutoSleepIsEarned ==
  [][\A m \in Monitors :
       (/\ monitor[m].verdict = "idle" /\ monitor'[m].step = "begun"
        /\ world.status # "going_to_sleep" /\ world'.status = "going_to_sleep")
         => world.autoSleep # None /\ quiet >= world.autoSleep]_vars

\* An Online World with auto-sleep that is monitored does not stay empty for ever:
\* whatever checks fail, renew or overtake each other, one begins its sleep.
IdleWorldSleeps ==
  ~<>[](world.status = "online" /\ Monitored /\ ~playing /\ world.autoSleep # None)

\* A monitored session does not go on for ever once its credit is used up,
\* whether anybody plays or not: the Balance Guard ends it.
UnfundedSessionEnds ==
  ~<>[](world.status = "online" /\ Monitored /\ ~funded)

\* A sleep that a monitor began, or found, is started, also when its check fails between the
\* transaction that begins the sleep and ensure_running: a later check finds the sleep.
BegunSleepIsDispatched ==
  (/\ world.status = "going_to_sleep" /\ execution = "requested"
   /\ \E m \in Monitors : monitor[m].step = "begun" /\ monitor[m].ours)
    ~> execution # "requested"
=============================================================================
