# GameWake: a TLA+ verification project

GameWake wakes a game World on a cloud instance when players want it, puts it to sleep
when nobody plays, keeps its state recoverable and charges a prepaid Wallet for the time
in between. This directory holds TLA+ models of the parts of the control plane whose
correctness depends on concurrency, retries, crashes and money, the TLC configurations
that check them on small instances, and TLAPS proofs for every value of the constants.

## 1. The system

| Component | State | Operations | Talks to |
|---|---|---|---|
| Worlds service (`gamewake/worlds/service.py`) | World row, operation rows, configuration revisions | create, settings, configuration, `request_wake`, `attach_billing_session`, `fail_wake_preflight`, `request_sleep`, `request_automatic_recovery` | repositories; called by the application |
| Worker (`gamewake/worlds/worker.py`) | none of its own: reads and compare-and-swaps World and operation | `advance` (one phase per call), `mark_needs_attention`, `monitor_session` | EC2, the host over SSM, S3, Billing |
| Orchestration (`orchestration/`, `lambda/gamewake_worker.py`, `terraform/state-machines`) | one Step Functions execution per operation | start, wait and advance, retry, record failure, monitor, reconcile, redrive | worker Lambda |
| Persistence (`persistence/postgres.py`) | tables with a version per row | transactions that compare versions | everything |
| Application (`control_plane/application.py`) | none | wake with its billing preflight, sleep, and delegation | all services |
| Billing (`billing/service.py`, `billing/runtime.py`) | Wallet snapshot: ledger, reservations, quotes, usages, contributions, budgets | contributions and payment events, reserve, extend, capture, release, credits, storage charge | payment provider, worker, webhook |
| World data (`worlds/data.py`) | deletion schedule, backups, applied data operations | schedule, cancel and purge a deletion, restore, export | S3 |
| Storage policy (`worlds/storage.py`) | grace state, storage status | evaluate, gates | Billing, S3 |
| Accounts (`accounts/`) | one account row: memberships, Roles, invitations, Guild; users, identities, recovery codes | define and assign Roles, invite, accept, remove, link a Guild, sign in, recover | everything authorises with it |
| AWS adapters (`aws/`) | instances, objects, secrets | provision and release by client token, memoized host commands, validated archive | AWS |
| Host scripts (`server/`) | the disk of the instance, the game process, a result file per command | restore, start, save, stop, persist; health and players | SSM, S3, the game |
| Auth, Experience, Game catalog, web console, Terraform, scripts | see `PROJECT.json` | | |

How they interact. An API request commits the operation row and a transitional World status
in one transaction, then reserves credit in other transactions, then starts a Step Functions
execution named after the operation. The execution calls the worker Lambda once per phase; the
worker reads the operation, reads the World, performs one external effect under an idempotency
key of the operation and saves with the versions it read. A raised error is retried by the
execution, then caught and recorded as Needs Attention; a failed recording fails the execution,
which a reconciliation redrives. Nothing locks: all safety rests on version comparisons and
idempotency keys.

What is hard here: two invocations of one operation in flight after a lost answer; requests that
stop after any commit; effects that outlive the transaction that should record them; a preflight
that fails late; a charge, its release and its compensation in separate steps; a balance that
several sessions, refunds and disputes change at once; an archive without versions under requests, sessions
and a maintenance that overlap; permissions read in one version and used in another; and commands on a host that
run late, twice or half.

What makes each part correct: one active operation per World and a transition always owned by one;
the last copy of a World always recoverable; a charge only after a release, once, and credited when
the wake failed; the lifecycle an implementation of the documented state machine; a Wallet that is
never negative and that credits and reverses a payment once; a session monitor that eventually puts an
idle or unfunded World to sleep; data that go only when a deletion is due, and Backups only as the storage policy
allows; an account that always has an Owner and whose changes are authorized; a game that plays on a whole state, and
a sleep that stores what was played.

## 2. Modules

| Module | Models |
|---|---|
| `WorldStateMachine` | abstract: operations one at a time, each once, statuses and stored state change only when one begins or ends |
| `WorldLifecycle` | the detailed lifecycle of one World (below) and its properties |
| `WorldLifecycleProofs` | the inductive invariant, the safety theorems and the refinement |
| `LifecycleOutcomesProofs` | how often a World is recovered, what it is Online with, which wakes are credited, when a Runtime is released |
| `PrepaidWallet` | abstract: a balance, the part of it that is held, and whether funding is under review |
| `Wallet` | the Wallet of one Account: payments, sessions, credits, storage and budgets (below) |
| `WalletProofs` | sums, the safety theorems and the refinement |
| `WalletLimitsProofs` | what reversals take back, that they are final, and what sessions commit of a budget |
| `SessionMonitor` | the monitors of one World's sessions: idle sleep and the Balance Guard, with time and fairness (below) |
| `SessionMonitorProofs` | the inductive invariant and the safety theorems of the monitors |
| `Accounts` | one account: Roles, members, invitations, integrations, identities and recovery (below) |
| `AccountsProofs` | the inductive invariant and the safety theorems of accounts |
| `WorldData` | the archive of one World: Backups, restores, deletions, and the daily data maintenance with the storage policy (below) |
| `WorldDataProofs` | the inductive invariant and the safety theorems of the archive |
| `HostOperations` | the commands of the worker on the instance and what they do to disk and game (below) |
| `HostOperationsProofs` | the inductive invariant and the safety theorems of the host |
| `MCLifecycle`, `MCWallet`, `MCMonitor`, `MCAccounts`, `MCWorldData`, `MCHostOperations` | bounds and symmetry for TLC |

`WorldLifecycle`, `Wallet` and `SessionMonitor` are not composed: the lifecycle calls Billing in its own transactions, and what it
needs of them (a reservation that is active, captured or released once, a guarantee given once) is part of
`WorldLifecycle`; `Wallet` takes those calls in any order. `SessionMonitor` keeps of the lifecycle the status of the
World, the one operation in progress and whether its execution runs, and of the Wallet one bit: whether the
Balance Guard can extend the reservation. `WorldData` composes World data, the storage policy and the maintenance
that runs both, and keeps of a session the three steps that touch the archive; whether the Wallet pays for storage is
open in it. `HostOperations` opens what is one step of a worker in `WorldLifecycle`, an effect on the host, and
keeps of the lifecycle the phases of the operation in progress. `Accounts` shares nothing with the others: they ask it
for a permission before they begin.

### WorldLifecycle

State: `world` (the World row: status, Runtime, reservation, whether `runtime_started_at` is set,
stored state, pending configuration, version), `op` (operation rows by idempotency key), `worker`
(invocations in flight with what they read), `client` (API requests in flight), `exec` (executions),
`runtime` (EC2 instances), `archived` and `backups` (S3), `reservation`, `usage`, `guaranteed`
(Billing), `aged` and `edits` (environment).

Every transaction of the code is one action. The worker's four steps are separate actions:
`LoadOperation`, `LoadWorld`, one of the effects (`Provision`, `RunHostCommand`, `PersistState`,
`CreateBackup`, `ReleaseRuntime`, `CaptureUsage`, `ApplyWakeGuarantee`, `CancelReservation`) and one of
the `Save...` actions, all of which go through `SaveOperation` or `SaveBoth`, the two forms of
`PostgresWorldRepository.save_operation`. `InvocationFails` may happen after any of them and stands for
an exception, a timeout, a lost answer and a lost compare-and-swap. The request's five transactions are
`RequestWake`, `Reserve`, `AttachBillingSession`, `ReleaseReservation`, `FailWakePreflight`, then
`Dispatch`; `RequestEnds` stops it anywhere. A service call that reads rows and saves them with the
versions it read, without an external effect in between, is one action: if the versions moved, the
call raises and changes nothing (`AttachFails`, `RequestEnds`).

Identity is the idempotency key: an operation is its key, a Runtime is the wake whose client token
created it, a reservation and its quote are the wake they were made for, a stored state and its backup
are the sleep that made them. That is how the code derives them, so a repeated effect finds what
the first one made. Amounts do not appear here; a capture that finds the reservation inactive,
or too small, is `InvocationFails`.

The dispatch of a sleep that another request began between the caller's read and its insert is not a
step of its own: it only starts an execution that exists or that `Reconcile` can start.
`RequestAutomaticRecovery` is an operation of the service that nothing deployed calls: only `lifecycle_cycle`
has recovery keys.

### Wallet

State: `contribution` (status by idempotency key), `events` (processed payment events), `ledger` (a set of
entries, each identified by type, reference and source, the parts of its idempotency key), `reservation`,
`usage`, `budget`: together the `WalletSnapshot`; `checkout` (the provider's side), `month` (the clock) and
`caller` (calls to the provider in flight).

Billing reads a whole snapshot, computes the next one and saves it if the version is unchanged, up to a
hundred times. A call without an outside effect is therefore one action on the current snapshot. Three calls
talk to the provider between their transactions and have several steps: `CreateContribution`,
`CreateCheckout`, `AttachCheckout`; `RequestRefund`, `RefundCheckout`, `RecordRefund`; `ReadCheckout`,
`Reconcile`. `CallEnds` stops them anywhere. The provider's events arrive through `ReceiveWebhook` in any
order, any time after what they tell of, or never; `Reconcile` processes the same news under an id of its own.

Sums. `get_wallet` and `_available_balance` add up entries. A sum is here the number of its units
(`Total`), a cardinality, which needs no recursion and is what the proofs count. Amounts are naturals up to
`MaxAmount` in a smallest unit; rates, quotes and rounding only choose the amount, which is any.

What is left out: the alerts of the balance guard and of budgets, payers and payment methods, and
signatures. `credit_wallet` and `capture_reservation` have no deployed caller; they share `CreditWallet` and
the capture with the calls that have one. A disputed checkout is assumed to be reported neither as paid nor as
refunded by the provider's search, which is the only status the code would act on.

### SessionMonitor

When a wake succeeds its execution goes on as a monitor: it waits a minute, invokes the worker Lambda in monitor
mode, and waits again, backs off, renews itself or ends, according to the answer. State: `world` (status,
`empty_since` as its age in minutes, `auto_sleep_minutes`), `execution` (of the operation in progress), `forced`,
`monitor` (each execution with the check it has in flight), `playing`, `funded` (players and Wallet), `quiet` (a
clock for the properties) and `edits`.

A check is six steps: `ReadStatus` (the handler reads the World), then either `LookForSleep` (a World going to
sleep) or `ReadWorld`, `Observe` (players are counted on the host, the Balance Guard is asked), and one of
`BeginSleep`, `JoinOperation`, `RepeatSleep` and `SaveEmptySince`, then `EnsureOperation` when there is an operation to
start or redrive. `CheckFails` may come between any two of them, and the answer of the last one may be lost
(`LastCheck`, `NextCheck` contain the lost answer). `Renew` replaces an execution whose history is nearly full.

Two abstractions keep it small. Versions: a save succeeds if the World was not saved since it was read, so
instead of comparing numbers every save makes the other snapshots stale, and a snapshot that is not stale has an
age, from which the `empty_since` the worker computes at its read follows. Keys: a sleep is
named by its reason and the minute of its check, so a check overtaken by another one's sleep of the same minute is given
that sleep, ended or not; `RepeatSleep` allows it after any save since the read, more often than the code does. Needs Attention: monitors treat it as they
treat Sleeping, so both are "sleeping" here. A host that cannot be reached makes the count raise, which
is a failing check. With `LossesAllowed` a monitor may also be lost where the execution neither retries nor catches:
the start of its renewal, and the answer that its wake succeeded.

### Accounts

State: `account` (the row with its members, assignments, Custom Roles, invitations and Guild), `elsewhere` (Guilds of
other accounts), `users`, `links` (identities), `codes` and `spent` (recovery codes), `call` (requests in flight).

`PostgresAccountRepository` loads and saves an account as one row with a version, so a request is: read the snapshot,
authorize, save if the version is still the one it read. Authorization reads the account again: the Role requests
(`CreateCustomRole`, `AssignRole`, `RemoveRoleAssignment`) authorize before they read what they save over,
those about members, invitations and integrations afterwards, and the steps of the module keep these orders. A save makes
every other snapshot stale, which stands for the versions. What has no version has its own steps:
sign-in (`SignInFindsNobody`, `CreateUser`), recovery codes (`PutRecoveryCodes`, `ConsumeCode`), the replacement of an
identity and the event that tells of it (`ReplaceIdentity`, `RecordRecovery`), and the look-up of a Guild
(`FindGuild`, `LinkGuild`, with `LinkElsewhere` and `UnlinkElsewhere` for other accounts, which the unique key of
the table arbitrates). Any request may end between two steps.

A membership may hold several assignments of the additive model that came before single Roles (`Legacy`); the
effective one is chosen as `effective_role_assignment` does.

### WorldData

State: `world` (the row: status, stored state, applied data operations, days until a deletion is due), `objects`,
`backups` and `automatic` (the archive in S3), `session`, `grace` and `storage` (the storage policy's rows), `maint` (the
maintenance), `expired` (a clock for the properties) and `call` (requests).

A manual Backup, a restore and a scheduled deletion read the row, write to the archive and, but for the first, save
the row if its version is the one they read: `Read` (or `PassGate` and `ReadGated`, since the storage gate is asked
before), `CreateRestorePoint`, `RestoreBackup` and so on. A Backup is named by its kind and key, so a
retry finds the first attempt's. A cancellation and a wake do nothing in between and are one action each. A session is
`WakeWorld`, `PersistState`, `CreateAutomaticBackup`, `FallAsleep`.

The maintenance of the Lambda is a process of its own, each of whose steps is one call to a store:
`FindDue`, `DeleteWorldData`, `DeleteRow` for a deletion, then `StoragePolicyService.evaluate` from `Measure` to
`Report`, with a call for every pruned Backup, then the charge and a second evaluation.
`MaintenanceStops` may come between any two steps; `MaintainData(0)` is its retry on the same day, `MaintainData(1)`
the next day's, which moves both periods by a day. One unit of storage is one object; the account has this one World.

### HostOperations

State: `world` (status and the progress that is stored), `op` (the last operation: number, kind, phase), `host`
(whether the bootstrap has ended, disk, game and the game's memory), `command` (per marker: commands sent, the
step of the one that runs, its output, the result file) and `kept` (what the sleep under way may not lose, for the
properties).

What was played is a number that only grows, so "not older" is an inequality. A marker is an operation and an effect,
as in `_effect_key`. `SendCommand` may be taken again before any answer; `CommandIsSpent` loses or expires a command;
`Begin` is `flock` and the look for a result file; the effects are actions of the host, a restore in two of them
since `rm -rf` comes before `tar`; `Memoize` is the `mv` of the result; `Die` kills the command at any
point. The game plays, saves by itself, crashes and is restarted by systemd. `RecordFailure` may end any
operation at any phase, with commands still under way.

A wake gets an instance of its own and the one before it is not followed: whether it is released is what
`WorldLifecycle` is about.

## 3. Runs

| Run | Instance | Shows |
|---|---|---|
| `lifecycle_overlap` | 1 wake, 1 sleep, 2 workers, 1 request | types, ownership of transitions, recoverability, charge and compensation with overlapping invocations |
| `lifecycle_cycle` | 1 worker; a wake, its sleep and a later wake, or a wake, 4 recoveries and 1 edit | refinement of `WorldStateMachine`, safe release, compensation only for failed wakes, Online has its Runtime, at most three recoveries per window |
| `wallet_payments` | 1 contribution, 2 calls to the provider, 2 support credits, amounts to 2 | reversals are covered and final, in any order of events and calls |
| `wallet_funding` | 1 contribution, 2 sessions, 1 call, amounts to 2 | types, never overdrawn, refinement of `PrepaidWallet` |
| `wallet_budgets` | 2 sessions of a World, 1 outage, 1 ticket, amounts to 3, 2 months | commitments never grow beyond the budget |
| `session_monitor` | 2 monitors, minutes 0 and 1, renewal at every check, 1 edit, losses | an idle sleep is earned, an idle or unfunded monitored session ends, a sleep begun is started |
| `accounts_membership` | 2 Users, 1 Custom Role, 2 invitations, 2 requests, old assignments | an Owner stays, Roles resolve, changes are authorized, admissions use up invitations |
| `owner_recovery` | 3 Users and identities, 2 codes, 1 Guild, 3 requests | identities, codes and Guilds stay unique |
| `world_data` | 2 states, 1 key, 1 request, allowance 2, periods of 1 day, up to 2 Backups made | the last copy, protected and single restores, bounded pruning, blocks that are lifted, unpaid excess that ends |
| `host_operations` | 3 operations of a Runtime, 1 waiting command per marker, 2 steps of play | a whole state to play on, and what was played is stored |
| `claim_live_runtime_is_recorded`, `claim_credited_once` | as small as possible | behaviours that contradict a document (section 6) |

Bounds. The constants are sets of keys, so the number of operations is bounded by the instance, and
with it every version; `MaxEdits` bounds the edits. Two invocations are enough to race a stale
snapshot against every other step; one World suffices because Worlds share nothing in this module but
the Wallet. `WakesAfterSleep` keeps a second wake for after a session, where it can differ from the first;
instances with two unconstrained wakes (7 million states) hold too and are too slow to keep. `RecoveriesApart` keeps the
recoveries to sessions without a sleep, and an edit to one of them: `RequestAutomaticRecovery` has no deployed
caller, and four attempts fill the window. Deadlock
is not checked: when all keys are used and nothing is in flight the system rests.

In `Wallet` two units tell apart a partly spent credit and three a budget partly used by each of two sessions;
one contribution meets itself through its events, the two calls and the reconciliation, and other money comes
from support credits. `NoBudgets` leaves the budgets out of the runs about payments and funding: a budget only
refuses more.

In `SessionMonitor` the time is counted up to `Horizon` = 1 and the auto-sleep time is one minute or off: what
decides is whether the time has passed, and with one minute it passes between any two steps. Two monitors are a current one
and one left from an earlier session, which is what can race. `MaxChecks` = 1 stands for the 600 checks of the code
and makes every counted check renew the execution; a lost answer is a check that is not counted, so both ways
on exist. One edit of the settings is enough to overtake a snapshot.

In `Accounts` two Users are the least that can take each other's place, and the third of `owner_recovery` is one who
signs in first; two requests are one and the one that overtakes it, three where a look-up, a save and a sign-in
race. Permissions are those that guard these operations. In `WorldData` the allowance of two
leaves room for the current state and a Backup, so the third unit starts a grace period; `MaxBackups` bounds the Backups in the archive,
enough to exceed the allowance by one. With one request in flight, sessions,
cancellations and the maintenance already overtake it at every step; the theorems are for any number.
In `HostOperations` a wake, a recovery and a sleep are three operations; one waiting command beside one that
runs is a repetition; two steps of play are what a save has and what is played after it.

One at a time matters: `GuaranteeOnlyForFailedWakes`, `OnlineRuntimeIsLive` and
`PlayedRuntimeReleasedSafely` are checked with one worker invocation at a time, and proved under that condition
(`WorkersTakeTurns`, section 5). They do not hold with two, not even with one wake and one sleep: after a lost answer, a
recorded failure of a wake may release its Runtime while an earlier invocation still waits for the health check, and
whichever saves first wins. The retries of the execution make that possible but only after a Lambda outlives its own
task. The other properties hold for any number of invocations in flight and are proved so.

## 4. Fairness

`WorldLifecycle`, `Wallet`, `Accounts` and `HostOperations` are safety only: no fairness is assumed, so every process
may stop at any step.

`WorldData` assumes weak fairness of `MaintenanceNext`, since a Lambda that was started goes on unless it
stops, and strong fairness of `MaintainData(1)`, since the schedule (`gamewake-schedules.tf`) starts one every day. The
maintenance may still stop at every step, on any day; `BlocksAreLifted` and `UnpaidExcessEnds` have as a condition that
it does not stop for ever (`NoMoreStops`), and nothing is assumed of requests and sessions.

`SessionMonitor` assumes of each monitor what its execution guarantees, and that time passes:

* weak fairness of `ReadStatus` and `Renew`: Step Functions schedules the next state of an execution;
* weak fairness of `CheckFails`: a check that gets no further ends by the timeout of its Lambda;
* strong fairness of the stages of a check (`Prepare`: reads; `Reach`: the host and Step Functions;
  `Decide`: saves): the execution tries again after every failure, and a stage that is reached again and again
  succeeds at last. A host that answers no check at all is outside this assumption, and then the code does not
  put its World to sleep;
* weak fairness of `Tick`.

Nothing is assumed of requests, of operations, of players or of credit: a wake or a sleep may stop for ever, which the
liveness properties must then not depend on. `IdleWorldSleeps` and `UnfundedSessionEnds` have `Monitored` as a
condition, since the code does lose monitors (`LossesAllowed`, and section 6), and none of them says more than that the World does not stay Online: whether the sleep then ends is not claimed.

## 5. Proofs

`WorldLifecycleProofs` proves, for any sets of operations, workers and requests (recoveries finite, so that
they can be counted):

* `TypesAreCorrect`: `Spec => []TypeOK`
* `LifecycleInvariant`: `Spec => []IInv`
* `OperationsAreExclusive`, `LastCopyIsRecoverable`, `ChargesFollowRelease`, `FailedWakesAreCompensated`:
  `OneActiveOperation` (what `begin_operation` promises, ADR 0018) and the properties of `lifecycle_overlap`
* `TransitionsHaveOwners`: `Spec => []TransitionsAreOwned`
* `LifecycleFollowsStateMachine`: `Spec => FollowsStateMachine`

The argument. None of the properties is inductive: a save writes what a worker read minutes ago.
`SnapshotsAreFaithful` says that a snapshot whose version is still the stored one equals the stored row,
so a save that succeeds is a change of the current row; all the other parts then speak of rows only.
`RowsExist` and `RequestsHoldOperations` tie workers and requests to existing rows. `RuntimesAreOwned` and
`WorkersReleasedFirst` say that a worker past its release step has released the instance its
operation names, which gives `ChargedOnlyAfterRelease`; `GuaranteeProgress` says that a wake
worker past its capture has its guarantee before it can save, which gives `FailedWakeIsCompensated`;
`SleepProgress` says that a sleep past persisting is archived and past its backup is backed up, which gives
`StoredStateIsRecoverable`. The proof goes action by action; the row changes
of all actions are first reduced to six forms (`RowsStep`), for which the row parts are proved once.
The refinement adds that every one of these forms is a step or a stutter of `WorldStateMachine`.

Assumptions: the kinds of keys are disjoint, `None` is not a key, `MaxEdits` is a number, recoveries are
finite. TLC evaluates them in every run.

`LifecycleOutcomesProofs` goes on from there. Without further conditions, however workers overlap:

* `RecoveryStaysBounded`: `Spec => []RecoveryIsBounded`
* `SleepsReleaseSafely`: a live Runtime is released only by a sleep that archived and backed up its state, or by an
  invocation for the very wake that provisioned it
* `SessionsPayOnce`: `Spec => [](SessionsAreChargedOnce /\ CreditsFollowCharges)`, a reservation pays for one operation,
  and only a charge that was made is credited back

and, under `Spec /\ []WorkersTakeTurns`:

* `TurnsInvariant`: `[]TurnsInv`
* `OnlyFailedWakesAreCredited`, `OnlineWorldsRun`, `PlayedRuntimesAreKept`: the three properties of `lifecycle_cycle`
  about compensation, the Runtime of an Online World and safe release

The condition. `WorkersTakeTurns` says that at most one invocation is between its start and its end. The execution of an
operation invokes its worker again only after the last invocation answered or was given up, and a World has one active
operation, so it is broken only by an invocation that outlives the answer its execution waited for. Every behaviour
with one worker meets it (`LoneWorkersTakeTurns`), among them those of `lifecycle_cycle`; invocations still fail, are lost
and repeated, after every step. It is needed: with two overlapping workers TLC breaks each of the three.

The argument. `AttemptsCount` says that the number of the recovery in progress is at least the count of the recent ones; the
attempt that uses up the allowance fails into Needs Attention, and ageing only takes recoveries out of the window. `TurnsInv` says that a
busy worker drives the active operation in the phase it read (`BusyWorkersHold`), so nobody else saves it meanwhile; that a
health check or count that was answered names a live instance (`HostsAnswered`), which the World then records
(`WorldFollowsRuntime`) and, since an Online World has no invocation in flight (`OnlineWorldIsQuiet`), keeps; and that a wake
that was credited, or whose clean-up has begun to release, can no longer succeed (`GuaranteedAreDoomed`): its phase only goes to
failure, or its execution is recording one. `PlayedRuntimesAreKept` combines this with `SleepProgress`: a Runtime that was
played on belongs to a wake that succeeded, so only a sleep releases it. `ChargeInv` follows a reservation from the
operation that attached it, which keeps it for good, to its capture, which finds it active and therefore only once.

`WalletProofs` proves, for any sets of contributions, worlds and callers and finitely many sessions:

* `TypesAreCorrect`: `Spec => []TypeOK`
* `WalletFollowsPrepaidWallet`: `Spec => FollowsPrepaidWallet`
* `WalletIsNeverOverdrawn`: `Spec => []NeverOverdrawn`

The argument. `TotalSplits` takes one summand out of a sum; from it, `EntryMovesBalance` and
`ReservationMovesHeld` say how a step moves the balance and the held credit. Every action is then one step of
`PrepaidWallet`: an event deposits, or withdraws what is available when nothing is under review; an
extension holds more or returns some; a capture settles a held amount by a charge it covers. The inductive
invariant is small (`TInv`: types, and a call in flight is about a contribution), because every guard
reads the snapshot it changes. `NeverOverdrawn` is then proved of `PrepaidWallet` and carried over.

`WalletLimitsProofs` proves for the same constants:

* `ReversalsTakeOnlyCredits`: `Spec => []ReversalsAreCovered`
* `ReversedStaysReversed`: `Spec => ReversalIsFinal`
* `CommitmentsStayInBudget`: `Spec => BudgetBoundsCommitments`

The argument. `ReversalsAreCovered` needs two facts that are not in it: a contribution whose status still allows a reversal has
been credited more often than reversed (`ReversibleIsCredited`), and every credit stands beside the processed event
that made it (`CreditsHaveEvents`), so an event that is not yet processed makes a new entry and the count grows. The
finality of a reversal is a matter of each action's guard on the snapshot, except for `AttachCheckout`, which writes a status
without looking: the property has that exception. What a World has committed is the sum of its active
reservations and its charges of the month, less its credits; each action changes at most one summand of each, a capture moves an amount
from the first sum to the second and returns the rest (`CaptureStaysWithinBudget`), and only a reservation or
an extension, which the code compares with the budget, makes the sum grow while there is a budget. A new month drops what earlier ones used (`UsageIsPast`).

`SessionMonitorProofs` proves, for any monitors, settings, horizon and number of checks:

* `MonitorInvariant`: `Spec => []IInv`
* `TypesAreCorrect`: `Spec => []TypeOK`
* `IdleSleepIsEarned`: `Spec => AutoSleepIsEarned`

The argument. A verdict is reached on a snapshot that is old when the sleep begins. `Snapshot`, part of `MonitorsInv`,
says that a snapshot with an age belongs to an Online World whose settings and emptiness it still tells,
up to the minutes that passed, and that an idle verdict on it is still right; `RowsInv` adds that an Online World is
never stored as empty for longer than it has been quiet. Every save ends all other snapshots, so each action
either keeps the row or leaves nothing to show; `Tick` moves both sides alike up to the horizon. The
properties under fairness are out of the prover's reach.

Assumptions: the settings are `None` or between 1 and `Horizon`; `MaxChecks` is positive.

`AccountsProofs` proves, for any sets of Users, identities, Roles, invitations, codes, Guilds and requests, the nine
properties of both runs: `TypesAreCorrect`, `OwnersStay`, `RolesResolve`, `GuildsAreUnique`, `IdentitiesAreUnique`,
`ChangesHavePermission`, `AdmissionsNeedInvitations`, `ChangedRolesAreSingle` and `CodesAreFresh`.

The argument. A request that is about to save holds facts about a snapshot that may be old. `RequestsOK` says them only
of a snapshot that is current, which equals the row, and says of the other requests what their reads without a version
still guarantee: a code that was consumed is spent, a User who was found exists. `AccountInv` is then kept by each
new row because the check (`PreservesOwner`, the look for uses of a Role, the permission) was made
on the very row it replaces. `CodesAreDistinct` says that no code is with two Users or both usable and spent.

`WorldDataProofs` proves, for any sets of states, keys and requests and any allowance, days and bound:

* `TypesAreCorrect`, `LastCopyStays`, `EachRestoreAppliesOnce`: the invariants of `world_data`
* `GivenUpIsProtected`: `Spec => ProtectedFirst`, and `PruningStaysBounded`: `Spec => PruningIsBounded`

The argument. `CallInv` says of a request with a current snapshot that it saw the state the World has, and of one that
has protected it that the Backup is there; every write of the row ends what it says, and pruning takes only automatic
Backups. `ArchiveInv` says that before a deletion is due the current state and the one a sleep is about to store
are in the archive and that no purge has begun. `PruneInv` says that what was measured is still in the archive:
before a deletion is due only the maintenance itself takes storage away.

`HostOperationsProofs` proves, for any number of operations, waiting commands and steps of play: `TypesAreCorrect`,
`PlayedStateIsWhole` and `StoredStateHasWhatWasPlayed`.

The argument. `MarkerInv` says which markers can have a command at each phase: a command of an effect that the
operation has not reached was never sent. `RestoreInv` says that the disk is whole once the restore has a
result, which no later command of that marker undoes, and that nothing else was begun before. `GameInv` follows the
game from the disk to its memory, and `SleepInv` follows what the sleep must keep: in the memory until the save, on the disk
after it, and in the output of every persist, also of an attempt nobody waited for.

Only model-checked: the liveness properties `IdleWorldSleeps`, `UnfundedSessionEnds`, `BegunSleepIsDispatched`,
`BlocksAreLifted` and `UnpaidExcessEnds`, because fairness and ENABLED are out of the prover's reach. Every other property of a
passing run is proved for all values of the constants, three of them under `WorkersTakeTurns`. The two claims of section 6
are false and have a counterexample each.

## 6. Findings

With a run that shows the behaviour:

* `LiveRuntimeIsRecorded`: a crash between `run_instances` and its save, then a recorded failure, orphans
  the instance (MVP audit).
* `CreditedOnce`: a credited payment whose reversal could not be compensated is under review, and the next
  completed event, under another id, credits it again (payment-reconciliation runbook, ROADMAP gate).

Seen while modelling, in the models, without a run of their own:

* a wake from Needs Attention after a failed sleep provisions a second Runtime (GAMEWAKE_FOUNDATION:100); when its
  preflight refuses it instead, the World with its unsaved session is put to Sleeping (ADR 0006);
* the next reversal event of a payment under review marks it refunded or disputed without an entry and ends the review
  (payment-reconciliation runbook);
* `create_contribution` sets a contribution back to pending that a reconciliation attached and credited meanwhile,
  after which the next completed event credits it again;
* the credit of a requested refund stays available until the refund is confirmed (GAMEWAKE_FOUNDATION:178);
* the reconciliation can start a wake before its credit is reserved (ADR 0015);
* when attaching a reservation fails and releasing it fails too, the reservation of an ended wake stays active and holds
  credit (application.py:560);
* a monitor ends as soon as a sleep has begun, also one a User asked for; when that sleep finds players and gives the
  session back, nothing monitors it any more (unit economics research); and a session whose host never
  answers is not ended when its credit runs out (MVP audit);
* a purge deletes the data and then the row, whatever became of the World since it was found due: a deletion cancelled
  in between, or after a purge that stopped between the two, leaves a Sleeping World without its data
  (`LastCopyIsKept` has `~expired` for that);
* `request_wake` asks for no status, so a World that is pending deletion wakes and keeps its date;
* automatic Backups are pruned before the Wallet is asked for the month's storage (ADR 0022);
* a restore that is retried with its key after its answer was lost, when another state is current, keeps the restore
  point of its first attempt and protects the current state no further (`ProtectedFirst` has `fresh` for that);
* the Role requests authorize in one transaction and read the account in the next, so a permission lost in between
  still counts (`ChangesAreAuthorized` leaves them out); a recovery code is used up also when the identity
  is then refused;
* a sleep that failed after its game was played leaves what was played on the instance, where no later operation
  looks for it: the next wake restores the last stored state (`kept` begins anew with a wake).

## 7. Not modelled, and the plan

Done: all the modules of section 2 and their proofs. Next, in this order:

1. `ConfigurationRevisions`: the base revision checks of concurrent edits, applied by the next wake, with the password
   rotation of `SsmWorldPasswordManager`.
2. Exports: manifests and documents under one key, beside restores and deletions.
3. A reboot of the instance: `palworld.service` is enabled and starts on whatever the disk holds, the bootstrap runs
   again.
4. Wakes and sleeps with the amounts of their reservation and time: that an operation eventually ends, or which
   captures can never succeed.
5. Proofs of the safety part of the liveness arguments (`SessionMonitor`: that a monitored session keeps its monitor until a
   sleep has begun; `WorldData`: that a block is only left over by an evaluation that stopped), and of what still holds of an
   Online World when invocations overlap.

Left out for good: parsing, formatting, HTTP and Discord adapters, token cryptography, the web console, the rendering
and installation scripts of the host, Terraform and deployment scripts: they keep no state these properties speak of.
