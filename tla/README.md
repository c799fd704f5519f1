# AgencyOS in TLA+

TLA+ models of the concurrent core of AgencyOS, the TLC runs that check them on
small instances, and theorems that TLAPS checks for every instance. Paths are
relative to `src/backend/app/` unless they begin with `docs/`.

    tlc -config queue_safety.cfg ExecutionQueueMC     one run
    tlapm ExecutionQueueProofs.tla                    proofs of one module

`PROJECT.json` lists every run, the lines of code each definition stands for,
the hazards of the code and the properties that watch them.

## The system

AgencyOS is a FastAPI application over Postgres. API processes and worker
processes share nothing but the database. Isolation is READ COMMITTED: what a
session has read may be stale when it writes, and what keeps the processes apart
is guarded `UPDATE .. WHERE .. RETURNING` statements, row locks and commits.
Worker sessions keep what they have read (`expire_on_commit=False`,
`core/database.py`), so a phase acts on a snapshot of the rows it listed.
Workers poll. None of them is elected: any number of instances of each may run.

### Inventory

| Part | State | Operations | Interacts with | Hard behaviour | What makes it correct |
| --- | --- | --- | --- | --- | --- |
| Execution queue (`services/workflow_execution_service.py`, `repositories/workflow_execution.py`) | row per execution: status, attempts, cancel flag, retry time, start time | queue, start, complete, fail, retry, cancel, timeout | API, execution worker, gate worker, dispatcher, events | any two of them on one row | one runner per attempt; no row stuck; a cancelled run is never a success |
| Execution worker (`workers/execution_worker.py`) | sweep phase, listed rows, the run it is in | sweep = retries, queued, timeouts, schedule tick | queue, kill switch | crashes, stale listings, late adapters | every run ends; pause quiesces; retries stay in budget |
| Kill switch (`services/automation_control_service.py`) | one setting | pause, resume | queue, worker, dispatcher, events | read once, used later | nothing starts once sweeps under way are over |
| Approvals (`services/approval_service.py`, `services/approval_gate_service.py`) | request status, expiry, gate stamp | create, decide, gate sweep | executions, kill switch | decisions racing, sweep aborted by one gate | a decision is applied once, and a denial stops the execution |
| Delivery outbox (`workers/delivery_worker.py`, `repositories/delivery.py`) | row per delivery, inbox | enqueue, claim, send, land, cancel, retry, recover | providers, notifications | one transaction around the send | one inbox row per delivery; every delivery settles |
| Agent runs (`services/agent_service.py`, `agents/runtime.py`, `workers/agent_worker.py`) | row per run, cancel flag | create, execute, cancel, reconcile | AI switch, brain | cancel and reconcile against a live run; a lost race ends the sweep | a cancel wins; every run ends |
| Schedule dispatcher (`services/schedule_dispatcher.py`, `services/schedule_cron.py`) | last fired tick per trigger | scan, reserve, queue | queue, kill switch | two dispatchers, refusals after the reservation | a tick is queued once and used up only by an execution |
| Workflow events (`services/workflow_event_service.py`) | event, consumed flag | publish | queue, triggers | commit per trigger, a rollback that takes the event | no execution without its event; consumed iff something was queued |
| Founder actions (`services/founder_action_service.py`) | proposal, approval, task | propose, decide, expire | approvals, tasks | three commits, unguarded writes, verdicts from elsewhere | the action is done once and only behind its approval, unless a decision was written over another |
| Credentials (`services/credential_service.py`, `workers/credential_worker.py`) | secret, key version, keys of each process | create, rotate, rekey, retire | adapters | rekey stops half way; processes with different keys | every secret stays readable |
| Retention and memory (`workers/retention_worker.py`, `workers/memory_worker.py`) | rows by age | batch deletes | members, other instances | deadlocks, early ends of a loop | expired rows go |
| Signals (`services/intelligence/intelligence_triage_service.py`) | live signals by hash | sweep, decide | sources | two sweeps without a unique index in the ORM | the feed settles on what the sources emit |
| Sessions (`services/auth_service.py`, `repositories/refresh_token.py`) | refresh tokens, families, token version | login, refresh, logout, reset | every request | two rotations of one token | one live token per family |
| One-time secrets (`services/account_security_service.py`, `services/mfa_service.py`) | links, resets, recovery codes | issue, reissue, claim | sessions | two claims; a reissue racing a claim | good for one effect |
| Team (`services/team_service.py`, `services/user_service.py`) | users, invites | invite, accept, revoke, role, status | permissions | check, then unguarded write | an owner remains (it does not, see below) |
| Imports (`services/import_service.py`, `workers/import_worker.py`) | job, rows, leads | create, cancel, process | leads | background task lost; cancel against completion | the counters account for the leads |
| Pipeline, assignment, tasks | stages, owners, tasks | move, edit stages, assign, complete | leads, users | read, modify, write | board agrees with status; even shares; a closed task says when |
| Language model runs (`ai/brain.py`, `llm/service.py`) | usage, trace | chat, tools, budget | providers, tools | check before the call, usage after | overspend is bounded; every tool call is logged |
| Step engine (`services/builtin_execution.py`) | definition, step events | validate, run | workflow row, adapter | what validation accepts and what a run meets | an accepted definition stays within its limits |
| Cron evaluator (`services/schedule_cron.py`) | none | validate, previous fire | dispatcher | leap years, ranges, both day fields | the latest matching minute |
| API requests (`api/`, `core/tenant_context.py`, `core/database.py`) | pool, tenant setting, session | begin, commit, rollback | every service | a connection used by one organization after another | a transaction is set to its request's organization, and shows its rows only where the login lets the policies apply |
| Research, growth, dashboard, exports, frontend, schema, deployment | - | - | - | none modelled | see `PROJECT.json` for the reason of each |

## Plan

| # | Modules | Composes | State of the work |
| --- | --- | --- | --- |
| 1 | `ExecutionLifecycle`, `ExecutionRow`, `ExecutionQueue` | the queue implements the lifecycle | done, with proofs |
| 2 | `ApprovalContract`, `ApprovalGate` | `ExecutionRow` with approvals, gate worker, kill switch | done, with proofs |
| 3 | `DeliveryOutbox` | workers, API, provider, inbox | done, with proofs |
| 4 | `AgentRuns`, `ModelRuns` | runs, workers, cancel, reconcile; what a run does with models and tools | done, with proofs |
| 5 | `ScheduleDispatch`, `CronTime`, `EventFanout` | triggers with the queue's admission | done, with proofs |
| 6 | `FounderActions`, `CredentialKeys`, `DataRetention`, `SignalTriage` | the other workers | done; actions and credentials with proofs, the rest with its types |
| 7 | `AccountSessions`, `AccountTokens`, `TeamMembership` | calls of one user, of one organization | done; sessions and secrets with proofs, the team with its types |
| 8 | `LeadImports`, `LeadPipeline`, `LeadAssignment`, `TaskBoard` | leads and tasks under concurrent edits | done, with proofs |
| 9 | `StepEngine` | workflow row, validation, run | done, with proofs |
| 10 | `ApiRoutes`, `ApiRequests` | every route over the pool | done, with proofs |
| 11 | `AutomationProofs`, `ServicesProofs` | the components of the two compositions, and the compositions | done |
| 12 | several organizations in one sweep: order and starvation; an abstract outbox; research | | open |

## The execution queue

`ExecutionRow` is one row of `workflow_executions` and its guarded transitions:
`CanX(r)` is the WHERE of an UPDATE, `XRow(r)` the row it leaves. The payloads,
error texts, time stamps other than `next_retry_at` and `started_at`, the
activity log, the timeline and the metrics are left out: nothing reads them back.

`ExecutionQueue` is one organization: its rows, the API handlers, the kill
switch, the workflow's ACTIVE flag and any number of workers. An action is a
handler, or the part of one between two points where others can act:

| Code | Actions |
| --- | --- |
| `queue()`: checks, then insert | `AdmitQueue`, `InsertQueued` |
| `retry()`: checks, then UPDATE | `AdmitRetry`, `FinishRetry` |
| `cancel()`, `/start`, `/complete`, `/fail` | `Cancel`, `ApiStart`, `ApiComplete`, `ApiFail` |
| `pause()`, `resume()`; workflow status | `Pause`, `Resume`, `ToggleWorkflow` |
| `sweep()`: the switch, then `process_retries` | `BeginSweep`, `RequeueDue`, `EndRetries` |
| `process_queued` | `FailQueued`, `Start`, `SkipClaimed`, `Complete`, `RefuseOutput`, `Fail`, `HardTimeout`, `EndQueued` |
| `timeout_stuck` | `Reap`, `EndSweep` |
| process death, `_safe_phase`, a failed check | `Crash`, `PhaseFails`, `BlindSweep` |
| clocks | `RetryDelayElapses`, `TimeoutElapses` |

Entering a phase lists its rows; `batch`, `snap` and `wfSeen` are what the
session then remembers. `job.seen` is the attempts `fail()` will compare, and
`job.run` the attempt that `start()` really opened: the code has no such field,
it is there for the properties to talk about. A 409 in a phase rolls back the
worker's session and expires what it has listed; touching an expired object in
an async session raises, so `Visit` and `Land` let the phase go on or end. An
output that is too large (`RefuseOutput`) is a 413 that the worker logs: the run is
over and its row stays RUNNING until a reaper times it out.

Steps taken as one: the two UPDATEs with which complete, fail and timeout end
(the comment in `ExecutionRow` says why no outcome is lost by that), and
`cancel()`, whose status read and UPDATE are apart in the code. A cancel that
misses its row because the row moved between the two is a call that changes
nothing, which the model includes as a cancel that is not made.

`ExecutionLifecycle` is what callers rely on: an execution waits, is opened for
one attempt at a time, and is won, lost or put back. `LifeOf` maps a row to it.

### Runs

| Run | Instance | Properties |
| --- | --- | --- |
| `queue_safety` | 1 execution, 2 workers, 2 faults | `TypeOK`, `PendingRowsDrainable`, `OneRunnerPerAttempt`, `ImplementsLifecycle` |
| `queue_unattended` | 1 execution, 3 workers, nobody settles or retries by hand | `SoleRunner`, `RunnerHoldsRow` |
| `queue_one_worker` | 2 executions, 1 worker, unattended | `RetryWithinBudget`, `TimedOutOnlyOverdue` |
| `queue_liveness` | 1 execution, 2 workers, fairness | `RunsSettle`, `CancelTakesEffect`, `PauseQuiesces`, `PendingDrains` |

Bounds. `MaxAttempts` 2 gives a first attempt, a retry and an exhausted budget.
`AttemptBound` stops retries by hand (and retries asked for over `/fail`) at 3
attempts, one past the budget; the workers' own retries are not bounded by it.
`MaxFaults` 2 lets a fault hit a worker that is recovering from another. Rows of
different executions meet only in a worker's batch and in the pending cap, so
one execution is enough where a property is about one row, and two where it is
about a batch or the cap. The liveness run has one row: it shows that a later
sweep finds what a failed phase did not reach, and says nothing of the order in
which the rest of a longer batch comes. Two workers make every race between two sessions,
three leave one to interfere with a race of two; workers are symmetric.

One run shows where the code does not do what its documentation says:
`queue_stray_outcome` (`OutcomeLandsOnOwnAttempt`): a worker whose run was reaped
settles the attempt of the worker that runs it after a manual retry.

`RetryWithinBudget` and `TimedOutOnlyOverdue` hold with one worker
(`queue_one_worker`), where what a session remembers of a row cannot be
overtaken. With two they need not, which places the fault in the
sharing of rows: `fail()` trusts attempts it read before another worker counted
one, and retries once too often; the reaper acts on its listing, and can end a
run that was started after it. Two more divergences are plain in the code and
have no run: `mark_requeued` keeps `attempts`, though
`docs/api/endpoints/workflow-executions.md` speaks of a fresh budget, and
`queue()` counts the pending executions apart from its insert while `retry()`
and `requeue_due()` do not count them at all.

Fairness. Every worker goes on taking steps (`run_loop` catches everything but
cancellation and never stops sweeping, and `wait_for` bounds an adapter call),
and delays and timeouts pass. Nothing obliges a user to act. Crashes and failing
phases are bounded by `MaxFaults`, so a run in which every sweep fails is not
considered.

### Proofs

`ExecutionQueueProofs`, for any executions, workers, caps and bounds:

| Theorem | States |
| --- | --- |
| `TypeCorrect` | `Spec => []TypeOK` |
| `Drainable` | `Spec => []PendingRowsDrainable` |
| `OneRunner` | `Spec => []OneRunnerPerAttempt` |
| `UnattendedRunners`, `RunnersHoldRows` | `UnattendedSpec => [](SoleRunner /\ RunnerHoldsRow)` |
| `RetriesWithinBudget`, `OverdueTimeouts` | with one worker, `UnattendedSpec => []RetryWithinBudget` and `UnattendedSpec => TimedOutOnlyOverdue` |
| `QueueImplementsLifecycle` | `Spec => ImplementsLifecycle` |

From `ConstantsAssumption` alone. The argument has two layers. `Edge` lists the
ways one row can change; `StepIsEdge` shows that every step of the queue changes
at most one row, along an edge. Types (`EdgeType`), the invariant of a row by
itself (`RowInv`, `EdgeRowInv`) and the refinement (`EdgeLife`) are then shown
on edges. The first two are in `ExecutionRowProofs`, which the gate's proofs
share. What relates rows to workers is shown from `OnlyStartRuns`: no step but
`Start` brings a worker into an adapter call. `OneRunnerPerAttempt` is inductive
with the types and `RowsInv`, since attempts never decrease. `SoleRunner` is not
inductive: `RunnersInv` adds that the row of a run is RUNNING in the worker's
own attempt, or parked in a state only a retry by hand leaves, which is why the
theorem is about `UnattendedSpec`. With one worker (`OneWorkerAlone`) what the
session remembers of the row it runs is the row: the attempts `fail()` compares
are those of the row, and a run is timed out on its own account.

Liveness is only model-checked: it rests on fairness, which is outside the
prover's reach.

## The approval gate

A request may name an execution. When it has been decided, a gate worker applies
the decision to the execution and stamps the request in the same transaction:
an approval requeues an execution that has ended, any other decision cancels one
that has not. `ApprovalGate` has the requests with their decisions in flight,
any number of gate workers, and the rows of the executions, which everybody else
moves along the transitions of `ExecutionRow` at any time.

| Code | Actions |
| --- | --- |
| `create_request()` | `CreateRequest` |
| `decide()`: the check, then the assignment | `CheckDecision`, `WriteDecision` |
| `decide()` of a lapsed request: `mark_expired`, 409 | `ExpireOnDecide` |
| `sweep()`: `list_unhandled_gates` | `BeginSweep` |
| `_process_gate`: the execution is read, then `claim_gate` | `ReadExecution`, `Claim` |
| a moot decision: stamp and commit | `StampMoot` |
| `retry()`: kill switch, then `mark_requeued` and commit | `CheckEnabled`, `Requeue` |
| `cancel()`: by the status the session holds, then commit | `CancelPending`, `MissPending`, `CancelRunning` |
| an exception, or the process dies | `Abandon` (a part of actions), `GateFails` |
| workers, users, clocks | `Start`, `Finish`, `RetryDelayElapses`, `RequeueDue`, `FailQueued`, `CancelByHand`, `RetryByHand`, `ToggleAutomation`, `ExpiryPasses` |

`order` is what `list_unhandled_gates` would return, oldest decision first.
`seen` is the status of the execution as the gate's session holds it: `cancel()`
reads the row again, but the session answers with the object it already has. The
row lock that `claim_gate` takes is the place of the worker that holds it
(`Claiming`, `Locked`): another claim, or the write of a second decision, waits
for the commit. `applied` and `halted` are histories for the properties.

Steps taken as one: the stamp with the commit, since nobody sees it before; and
`mark_cancelled_if_pending`, or the read of the row that follows a miss, with the
commit that follows it. A request created lapsed, or expired by a decision that
loses to another one, changes nothing the model does not reach otherwise.

`ApprovalContract` is what a requester relies on: a request is asked, settled
once, and the verdict it shows is applied once.

| Run | Instance | Properties |
| --- | --- | --- |
| `gate_safety` | 2 requests about 1 execution, 2 gate workers, 2 decisions in flight, 1 fault, executions retried by workers and by hand | `TypeOK`, `AppliedOnce` |
| `gate_unretried` | 2 requests, 2 gate workers, 1 decision in flight, 1 fault, nothing retried, fairness | `DenialStops`, `DecisionsApplied`, `ImplementsContract` |

Bounds. Gates meet in a request (two workers), in an execution (two requests
about one) and in a batch (two requests, `Limit` 2); one decision in flight
races with none, two with each other. `Retries` and `MaxDeciding` are parameters
because the properties depend on them: `DenialStops` fails with retries
(`gate_lost_cancel`), and `ImplementsContract` with two decisions in flight, of
which the later write wins; the theorem asks for one as well. `AttemptBound` and
`MaxHandRetries` stop the executions, not the gates. In `gate_safety` the two
gate workers are symmetric and so are the two requests.

Fairness: gate workers go on sweeping (`run_loop` survives every exception), a
decision under way is written, time passes. Nobody is obliged to decide, and
the executions need not move. `DecisionsApplied` asks that automation stays
enabled, for `retry()` refuses during a pause.

One run shows a divergence: `gate_lost_cancel` (`DenialStops`, with retries): an
execution read RUNNING fails and waits for its retry; `cancel()` asks a running
execution to stop, matches nothing, and the gate is stamped.

Four more are plain in the code and have no run. Workers start executions whose
request is pending (`exists_pending_gate` has no caller). During a pause the 409
of the oldest approval ends every sweep before the denials behind it. `decide()`
checks PENDING on the object it has loaded and writes by primary key, so that of
two concurrent decisions both succeed, where `docs/api/endpoints/approvals.md`
promises the second a 409. And `list_pending_expired` has no caller for these
requests: one that nobody tries to decide never expires.

Proofs (`ApprovalGateProofs`), from `GateAssumption`, for any requests,
executions, gate workers and bounds:

| Theorem | States |
| --- | --- |
| `GateTypeCorrect` | `Spec => []TypeOK` |
| `DecisionAppliedOnce` | `Spec => []AppliedOnce` |
| `GateImplementsContract` | `MaxDeciding = 1` implies `Spec => ImplementsContract` |
| `DenialHolds` | `~Retries` and `MaxDeciding = 1` imply `Spec => []DenialStops` |

Types need `OrderDecided`: what is listed has a verdict. `AppliedOnce` is
inductive only with the lock: `LockInv` says that no two workers are between
claim and commit of one request, and that such a request has no stamp.
`StepKinds` sorts the steps by what they do to claims and stamps, so that both
invariants are shown on four kinds of step instead of twenty actions. The
refinement adds `SerialInv`: the decision in flight is about a request still
open, and every listed verdict is the one its request shows, which is what fails
with two decisions in flight. A stamp then maps to `Apply`, a decision to
`Settle`, and everything else to a stutter (`StepIsContractStep`). 
`DenialStops` rests on the order in which gates work. `OrderInv` says that the
listing is a queue of the decided requests without a stamp; `NoOvertaking` that
whatever is in the queue before a request a sweep has listed, the sweep has
listed before it. A worker that is about to flag an execution as running
therefore has no approval ahead of it that could put the execution back to the
queue meanwhile (`FlagsStarted`). Both hypotheses are needed: with retries a
denial is lost (`gate_lost_cancel`), and with `MaxDeciding = 2` TLC finds a denial
undone even without them, for the second of two decisions changes a verdict that
a sweep has listed already.

`DecisionsApplied` is model-checked only: it rests on fairness.

## The other components

The remaining modules are components that share no state with each other: an
organization's agent runs and its refresh tokens meet nowhere. Each is one
module with its own variables (`agentVars`, `sessionVars`, ...), `XInit`, `XNext`
and, where a property needs it, `XFairness`. Two modules check them:

- `AutomationMC` (run `automation`): what workers drive.
- `ServicesMC` (run `services`): what requests drive, with the outbox.

Both have a variable `focus`, chosen in the initial state, that says which
component a behaviour is about. The others stay in their initial state, so the
states add up instead of multiplying, and every property is about the one
component it names. The specification restates the fairness of a component under
its focus, since a weakly fair action of a component that stands still would
rule the behaviour out. The modules' own `XSpec` are what the theorems are about.
Components whose inputs are chosen at the start (cron expressions, definitions,
ages of rows) have one input when they are not in focus.

Deadlock is not checked in these two runs and in `api_kept`: components end when
their edits, faults or rows are used up (an import list that is done, a cron walk
that has answered), which is not an error of the code.

### Workers (`AutomationMC`)

`automation` reaches about 203,000 states, every property of a component within
its focus.

| Module | Code | Actions | Property |
| --- | --- | --- | --- |
| `AgentRuns` | `create_run`, `cancel_run`; AI switch | `CreateRun`, `CancelRun`, `SwitchAI` | `CancelWins`: a running run that was asked to stop ends CANCELLED, whichever of executor, cancel phase and stuck phase comes first |
| | `process_queued`, `execute_run`, `_finish` | `BeginQueued`, `CheckRun`, `StartRun`, `FinishRun` | `RunsEnd`: no run is left queued or RUNNING |
| | `process_cancels`, `reconcile_stuck`; a lost race or a crash | `BeginCancels`, `ApplyCancel`, `BeginStuck`, `FailStuck`, `AgentFails` | |
| `ScheduleDispatch` | `dispatch_due`: clock and listing, reservation, `queue()` | `BeginDispatch`, `Reserve`, `CheckDispatch`, `QueueTick`, `DispatchFails` | `TickQueuedOnce`: `last_fired_at` and the executions move together |
| | enable, disable, update; workflow status; kill switch | `SetEnabled`, `UpdateCron`, `MoveWorkflow`, `UpdateWorkflow`, `SwitchDispatching` | `DueTriggersFire` |
| `EventFanout` | `publish()`: event, triggers, one commit each | `Publish`, `QueueNext`, `QueueRefused`, `FinishPublish`, `PublisherDies`, `ToggleEvents` | `EventAccounted` |
| `FounderActions` | `propose`, `decide_proposal` with its three commits, `expire_due_all` | `ProposeRequest`, `Propose`, `DecideProposal`, `DecideRequest`, `WriteRequest`, `WriteProposal`, `ExecuteAction`, `ActionFails`, `DecisionDies`, `TimeBoxEnds`, `ExpireDue` | `TaskBehindApproval`, of proposals whose request had no decision written over another |
| | `ApprovalService.decide` behind the approvals endpoint: read, later write | `ReadElsewhere`, `WriteElsewhere`, `ElsewhereDies` | |
| `CredentialKeys` | `create`, `rotate`: read, write; `rekey_tick`; keys of a process | `CreateCredential`, `ReadForRotation`, `WriteRotation`, `ListStale`, `Rekey`, `RetirePrevious`, `RekeyDies`, `RestartServers`, `RestartWorker` | `SecretsReadable`, `RekeyCompletes`, with `Rolling = FALSE` |
| `DataRetention` | `cleanup_tick`, `retention_tick`, members deleting | `BeginMemoryTick`, `ListBatch`, `NothingExpired`, `DeleteBatch`, `CommitTick`, `TickFails`, `TickDeadlocked`, `BeginTelemetryTick`, `DeleteMemory`, `RowsAge` | `ExpiredRowsGo` |
| `SignalTriage` | `run_sweep_for_org`, `_sync_once`, `supersede_stale`, `update_status` | `BeginSweep`, `RefreshSignal`, `MissSignal`, `InsertSignal`, `SupersedeStale`, `CommitSweep`, `SweepDeadlocks`, `DecideSignal`, `MarkingEnds`, `SourceChanges` | `FeedSettles` |

Bounds. Two rows, two workers and one fault per component: races are between two
sessions about one row, and a second row makes a batch. `RekeyBatch` and
`SweepBatch` 1 leave rows to a later batch; `DispatchBatch` 2 holds every trigger, so
that the limit of the dispatcher's listing, and what it may starve, is not exercised.
Two founders and two callers of the approvals endpoint give every race between two
decisions of one request, with `MaxDecisions` 3 a founder who decides again. Three
key versions give a retirement and a key that was retired while in use.
`MaxEmissions` 3, `MaxEventToggles` 2, `MaxTriggerEdits` 1, `MaxDecisions` 3 and
`MaxSwitches` 1 bound what users and sources do.

Fairness. Every worker has a `run_loop` (or a tick called by one) that catches
what a sweep raises and goes on, and bounds the executor by `wait_for`: weak
fairness of each worker's next step. Time passes. Two assumptions are strong: a
rekey tick and a triage sweep go through if they can again and again, because
requests may stop the tick or take the row each time, and the code retries
without limit but promises nothing about the schedule. A restart of the processes
that was begun is finished. No user is obliged to act, and faults are bounded.

The listing of the dispatcher is modelled as the two sets the code's loop keeps
apart, the rows it has yet to visit and those it has, in the order of the query.
A third retention sweep can deadlock with the other two, which `TickDeadlocked`
allows for.

Proofs (`AutomationProofs`), for any number of rows, workers, keys and bounds:

| Theorem | States | From |
| --- | --- | --- |
| `CancelAlwaysWins` | `AgentSpec => []AgentTypeOK /\ CancelWins` | |
| `TicksQueuedOnce` | `ScheduleSpec => []ScheduleTypeOK /\ TickQueuedOnce` | |
| `EventsAccounted` | `FanoutSpec => [](FanoutTypeOK /\ EventAccounted)` | |
| `TaskOnlyBehindApproval` | `FounderSpec => [](FounderTypeOK /\ TaskBehindApproval)` | |
| `SecretsStayReadable` | `KeySpec => [](KeyTypeOK /\ SecretsReadable)` | `~Rolling` |
| `AutomationTypes` | `Spec => [](AutomationTypesOK /\ EventAccounted /\ TaskBehindApproval)` | |

- `CancelWins` is shown step by step: whichever phase a step belongs to, a flagged
  row that is RUNNING stays so or becomes CANCELLED (`Honours`).
- `TickQueuedOnce` needs that a reserved tick is still to fire and that nobody else
  has reserved the trigger (`ReservedOnce`): the reservation holds the row lock
  until the tick is queued or given up, and a sweep that holds one agrees with the
  row it has read (`SweepSound`).
- `TaskBehindApproval` is about the proposals outside `overwritten`: `decide()` reads
  the request PENDING and writes by its primary key, so that a verdict of the
  endpoint may be written over a founder's, also after the task was created. For the
  others one call at most carries the decision, and what it has established at each
  of its commits (`CarrierInv`) makes the invariant inductive (`DecidedOnce`), with
  any number of calls in flight.
- `EventAccounted` holds by the order of the commits: an execution commits its event,
  and a roll-back takes an event only while it has no execution.
- `SecretsReadable` needs that processes and worker are at most one key apart and
  the next key is used only when the older one is retired (`KeysInStep`), that an
  envelope and its column agree on a key some process reads (`SealsInStep`), and
  that what a rotation or a listing has read is not older than that
  (`StaleInStep`). `LastKey` is at least 1 and there is at least one process.
- The types hold conditions a sweep relies on: no two retention ticks delete one
  row, no two triage sweeps supersede one signal.

### Requests (`ServicesMC`)

`services` reaches about 820,000 states. The theorems below state its safety
properties for every instance.

| Module | Code | Actions | Property |
| --- | --- | --- | --- |
| `DeliveryOutbox` | `enqueue`, `cancel`: read, write; `retry` | `Enqueue`, `CancelReads`, `CancelWrites`, `RetryDelivery` | `SentOnce` |
| | `sweep_once`: recovery, listing, claim, `_attempt`, on the rows as they were loaded | `Promote`, `ListDue`, `Claim`, `Attempt`, `EndDrain`, `SenderFails` | `DeliveriesSettle` |
| `AccountSessions` | `login`, `refresh` with `mark_replaced`, reuse; `logout`, `revoke_all_for_user` | `BeginLogin`, `FinishLogin`, `BeginRefresh`, `Rotate`, `FinishRefresh`, `BeginEnd`, `Revoke`, `FinishRevoke`, `DropCall` | `OneLivePerFamily` |
| `AccountTokens` | `claim`, `mark_used`, `_create_token`, `EmailResendCooldown` | `ReadSecret`, `ClaimSecret`, `SpendSecret`, `ReserveResend`, `CooldownEnds`, `RequestReset`, `Invalidate`, `IssueSecret`, `ClientDies` | `ConsumedOnce` |
| `TeamMembership` | invites, roles and status: check, write | `ChangeRole`, `ChangeStatus`, `CreateUser`, `CreateInvite`, `RevokeInvite`, `LookupInvite`, `InviteLapses`, `WriteMember`, `WriteInvite`, `WriteUser` | `OwnerRemains` (violated) |
| `LeadImports` | upload, `create`, `cancel`; `_run` row by row; leads typed and deleted | `CheckUpload`, `CreateImport`, `CancelReadsJob`, `CancelWritesJob`, `ClaimJob`, `RejectedRow`, `LookAtRow`, `InsertLead`, `CompleteImport`, `RunBreaks`, `MarkImportFailed`, `RunnerDies`, `TypeLead`, `SaveLead`, `DropLead`, `SoftDelete` | `ImportsAccounted` |
| `LeadPipeline` | `move`, `update` with `reconcile`; stages | `CreateCard`, `ReadsCard`, `WritesCard`, `CreateStage`, `RenameStage`, `DeleteReads`, `DeleteCommits` | `BoardAgrees` (column and timestamps of every lead, close reason of an open one), with one request at the lead at a time |
| `LeadAssignment` | rule, `assign`, `auto_assign`, `assign_unassigned` | `UpsertRule`, `Deactivate`, `SetOwner`, `CreateUnassigned`, `AutoAssign`, `Sweep`, `CommitAssign`, `AssignDies` | `EvenShares`, with one request applying the rule at a time |
| `TaskBoard` | `create`, `complete`, `update` with `_advance_recurrence` | `CreateTask`, `CompleteTask`, `UpdateTask`, `CommitEdit` | `CompletedHasTime` (in `ServiceTypesOK`) |
| `ModelRuns` | `Brain.run`, `LLMService`, tools | `StartBrain`, `BeginStep`, `StepsExhausted`, `ProviderFails`, `ProviderAnswers`, `AfterAnswer`, `RecordUsage`, `RecordFails`, `InvokeTool`, `BrainDies` | `OverspendBounded`, `TraceComplete` |
| `StepEngine` | validation, two PATCHes of one workflow, `_run_steps` | `UpdateWorkflowRow`, `CommitPatch`, `BeginAdapter`, `TriggerWebhook`, `SkipStep`, `PlainStep`, `StepFails`, `StepBreaks`, `TooDeep`, `TakeBranch`, `EndCondition`, `OverBudget`, `ProduceResult` | `AcceptedRuns` |
| `CronTime` | `validate_cron`, `previous_fire` | `StartWalk`, `WalkToday`, `WalkDay` | `FiresLatest` |
| `ApiRequests` | the life of a request over the pool | `VerifyRuntimeRoles`, `ServerStops`, `Arrives`, `BeginTransaction`, `ActivateOrg`, `Statement`, `Commit`, `RollBack`, `Refuse`, `Answer`, `Leaves` | `TenantScoped`: the setting of every transaction; the rows seen, under a login the policies are for |

`ApiRoutes` has no state: it lists every route of `api/v1` with the permission it
asks for, whether its handler changes rows and whether it commits. `ApiRequests`
draws its requests from it (`OpenTo`), which is why a single table of routes
decides what can be answered and lost (`api_kept`).

The conversions are modelled by what they do where a property is about them:
`Landed` (an outcome and a row to the row an attempt ends in), `Reconciled` (a
status and a stage to a board), `AdvanceTime` (months of different length),
`Coerced`, `ItemValues` and `Allowed` (an item of a cron field to the values it
stands for), `Accepted` (a definition to whether it is stored), and the commit of
the columns a session has changed, over a row others may have changed meanwhile
(`Column`, `Edited`, `Patched`). `FiresLatest` compares the backward walk of the
evaluator, day by day, with the definition of a match, for every expression of a
small set of fields over a calendar with hours of two minutes, days of two hours,
weeks of three days, months of four, and a leap year in two: every overflow of a
field occurs. `Lookback` is 16 for a cycle of 15 days, as the code's 1462 is for
1461.

Bounds. Two requests and two workers race; three refresh tokens give a rotation
of a rotated token; three links a reissue that races a resend; two rows an import
with a duplicate; two attempts a retry and an exhausted budget; one connection
and two requests force a connection from one organization to another. An outbox begins with one
row that an earlier version has left PROCESSING, or empty. `Movers`,
`Assigners` and `Schedulers` are one on purpose: with two the properties of those
modules do not hold, because the code reads, decides and writes without a guard
(see below): with `Movers = {w1, w2}` TLC finds a lead that contradicts its column,
with `Assigners = {g1, g2}` a user two leads ahead.

Fairness is needed for `DeliveriesSettle` alone: senders go on sweeping
(`run_loop`), an attempt is cut off by its timeout, and delays pass.

### Divergences

| Run | Property | What happens |
| --- | --- | --- |
| `queue_stray_outcome` | `OutcomeLandsOnOwnAttempt` | see above |
| `gate_lost_cancel` | `DenialStops` | see above |
| `team_last_owner` | `OwnerRemains` | two requests each take away one of two owners; each has counted two (deadlock is not checked: requests end at `MaxTeamCalls`) |
| `api_kept` | `AnsweredIsKept` | seven handlers answer with success and commit nothing, and `get_db` closes the session: assign a lead, delete a credential, a conversation, a trigger (two routes), update a signal, and the status of automation, which inserts the switch when it is missing |

Met while modelling, with no run of their own (the models do what the code does):

- Outbox: `enqueue()` builds its timeline event before the flush that gives the
  delivery its id, so that every call is answered 409. Rows come from elsewhere
  (`RowAppears`, `LeftoverMail`). A provider failure in the database takes the count
  of the attempt with it, and such a row is first again in the next sweep. A worker
  decides on the attempts and the cancel flag it loaded with its listing, so that
  a row may be sent once more for each worker that has listed it: `max_attempts` is
  exceeded by up to one for each, and a flag it has not loaded is passed over.
- Sweeps that end early: an agent run that another session has moved raises
  `MissingGreenlet` in the loop that listed it; `supersede_stale` and two memory
  ticks can deadlock; a batch loop stops at the first batch that a concurrent
  delete has shortened.
- Dispatcher: `list_enabled_schedules` has a limit and an order that a refused
  trigger does not leave. `mark_consumed` has no caller.
- Founder actions: a crash after APPROVED leaves the proposal there for ever; two
  concurrent approvals execute twice; a denial at the approvals endpoint that read
  the request PENDING is written over the approval, with the task already there.
- Events: when the INSERT of an execution is refused in a fan-out (its workflow was
  deleted), `queue()` rolls back an event that is only flushed; if the trigger was
  the last, the caller is answered with an event that is not stored, and otherwise
  the loop raises at the next trigger.
- Executions: complete()'s limit on the output (413) leaves the row RUNNING until it
  is reaped as timed out, though the run has succeeded.
- Keys: in a rolling restart (`Rolling = TRUE`) a key is shown as retired while an
  old process still seals under it. Rows that cannot be decrypted stay at the
  head of `list_stale_key`. The worker overwrites a rotation it has not seen.
- Sessions: a rotation that commits while a revocation waits leaves a live
  successor; `token_version` is read and written back. Two concurrent resets
  leave two usable reset tokens. Acceptance and revocation of an invite can both
  succeed; there is no unique index on pending invites.
- Imports: one duplicate aborts the whole import, because the object is in the
  session before the savepoint begins (`workers/import_worker.py:4-5` says the
  row is skipped). A lost task leaves its job PENDING, which blocks the next
  import. A cancel can overwrite COMPLETED, and `_mark_failed` CANCELLED.
- Pipeline: a lead created won or lost has no `won_at` or `lost_at`; a lead moved from
  lost to won keeps the reason of its loss (`services/pipeline_service.py:348-351`),
  which `reconcile()` refuses when it is given (369-374), and `BoardAgrees` does not
  speak of the reason of a closed lead; renamed defaults leave two marked stages
  and deleted ones come back; two concurrent writers can contradict each other.
- Assignment: two requests applying the rule at a time give unevenly, and a sweep
  overwrites an owner set meanwhile. `create` and `update` of a lead set an owner
  without a log entry.
- Tasks: a monthly recurrence can leave a reminder after its due date; two
  completions of a recurring task advance it once and log twice; cancelling a
  completed task is refused by a CHECK; a recurrence cannot be removed.
- Signals: the order and limit of `candidate_orgs` starve newer organizations.
- Brain: the message with the tool calls is not kept, and denied calls get no
  answer message; failed attempts are not recorded as usage; the day is local in
  one place and UTC in another. `embeddings()` records usage without a look at the
  budget, and is outside `ModelRuns`.
- Step engine: a `contains` guard must have a list to be stored and a string to
  succeed; a `condition` without `then` is stored and raises at run time without a
  failed event; two concurrent PATCHes can store a definition nobody validated.
- Cron: `5-7` is refused though 7 is Sunday; `n/step` ignores its step; the
  lookback of about four years misses 29 February around 2100.
- API: the check of the database roles asks for membership in `agencyos_app` and
  refuses superusers; an owner of the tables, or a login with BYPASSRLS, that is
  granted the group passes it, and row level security is not forced
  (`core/db_roles.py`; `docs/security.md` leaves it to the operator).
  Listing stages, close reasons, the board and invites writes and commits on a GET;
  `GET /workflows/active` is shadowed by `/workflows/{workflow_id}`.

### Proofs

For any number of rows, tokens, connections, requests and workers, each from the
assumptions on its constants and from what the third column adds:

| Theorem | States | From |
| --- | --- | --- |
| `OutboxTypeCorrect`, `MailSentOnce` (`DeliveryOutboxProofs`) | `OutboxSpec => []OutboxTypeOK`, `[]SentOnce` | |
| `SessionTypeCorrect`, `OneLiveToken` (`AccountProofs`) | `SessionSpec => []SessionTypeOK`, `[]OneLivePerFamily` | |
| `SecretTypeCorrect`, `SecretConsumedOnce` (`AccountProofs`) | `SecretSpec => []SecretTypeOK`, `[]ConsumedOnce` | |
| `ApiTypeCorrect`, `TenantsApart` (`ApiRequestsProofs`) | `ApiSpec => []ApiTypeOK`, `[]TenantScoped` | |
| `ImportsStayAccounted` (from here on `ServicesProofs`) | `ImportSpec => [](ImportTypeOK /\ ImportsAccounted)` | |
| `BoardStaysInAgreement` | `PipelineSpec => [](PipelineTypeOK /\ BoardAgrees)` | one request at the lead at a time |
| `SharesStayEven` | `AssignSpec => [](AssignTypeOK /\ EvenShares)` | one request applying the rule at a time |
| `ClosedTasksSayWhen` | `TaskSpec => []TaskTypeOK /\ []CompletedHasTime` | |
| `OverspendStaysBounded` | `ModelSpec => [](ModelTypeOK /\ OverspendBounded /\ TraceComplete)` | |
| `AcceptedDefinitionsRun` | `EngineSpec => [](EngineTypeOK /\ AcceptedRuns)` | |
| `LatestFireFound` | the walk answers the last match of its window | |
| `LatestFireAnswered` | `CronSpec => [](CronTypeOK /\ FiresLatest)` | `CycleDays <= Lookback` |
| `ServicesHold` | `Spec => []` of `ServiceTypesOK` and the promises that need no hypothesis | |

Sets that are counted are assumed finite (leads, users, runs, tools, contacts),
budgets and limits positive; the calendar has a leap year in more than one, and
no month is shorter than a week.

- `SentOnce` is not inductive: an attempt on a row that is already delivered would
  break it. `ClaimInv` says that a claimed row is committed as queued and claimed
  once, which the row lock gives. The bound on the attempts, `max_attempts` and one
  for each sender, needs the senders whose next attempt may leave the row to be sent
  again because of what they have loaded (`Risky`): `AttemptsInv` bounds the attempts
  of a live row and their number together, and each of them is used up by its
  attempt. All steps
  but the attempt move rows between states without an inbox row (`Moved`), and are
  shown at once (`QuietStep`, `RowStep`).
- `OneLivePerFamily` needs that what a call has claimed is live and claimed once
  (`ClaimedInv`), that a token to be issued is absent and reserved once
  (`ReservedInv`), and that the first token of a family was issued
  (`FoundedInv`), so that a login does not join a family. `UncommittedStep` and
  `CommitStep` reduce eight actions to two kinds.
- `ConsumedOnce` needs the exclusive claim (`SpendingInv`), and for the one
  outstanding link that one call holds the resend key and has found every link
  that is outstanding (`ResendInv`): this is where the cooldown is used.
- `TenantScoped` needs that a request has read nothing before its organization is
  known (`FreshInv`), and that a server in production runs under a member of
  `agencyos_app`. That the role is one the policies are for is a hypothesis of its
  first half (`~server.role.escapes`), since nothing in the code ensures it.
  A request's own connection is used by nobody else (`OwnConnection`), so that the
  argument is about one request at a time (`Moves`, `Scoped`).
- `ImportsAccounted`: the counters of a job and its leads are committed together,
  so the argument is about the run before that: it holds its pending job alone
  (`RunnersApart`), and what it has inserted is a key that neither a committed lead
  nor one being typed has (`RunnerSound`), which is how many successes it counts.
- `BoardAgrees`: `reconcile()` makes a lead whose columns agree, whatever is asked
  (`ReconciledAgrees`). A request commits only the columns it has changed, so what
  it leaves must be what it has read (`MoveSound`), through renamed and deleted
  stages; this fails with two requests. `StagesInv` holds with any number: the lead
  is in a stage that exists, and a deleted stage hands its leads to another of its
  lifecycle.
- `EvenShares` is not inductive: that nobody is two leads ahead says nothing of who
  is next. `Even` adds that nobody has more than who has the later turn, counted
  from the cursor (`Due`). Of `m` leads given in turn to `n` candidates the one `p`
  turns from now gets `m \div n`, and one more if `p < m % n` (`TurnsCounted`), and
  is then as many turns nearer (`DueAfter`); so the shares stay even (`StillEven`).
  The leads of a sweep are given in the order of some ranking, and the count is by
  a bijection with the turns (`GivenInTurn`). Between the read and the commit
  nobody else moves the cursor (`InOrder`), which fails with two requests.
- `CompletedHasTime`: a request that completes a task sets its time in the same
  commit, and one that takes the time back opens the task (`EditSound`), so that
  any two edits merge into a consistent row.
- `OverspendBounded`: usage and what the runs in flight may still use together stay
  below the limit (`Budgeted`), which the check before a call and the record after
  it keep; a step asks for each tool once at most (`LoopSound`).
- `AcceptedRuns`: validation counts the steps of both branches, so the run's budget
  never exceeds the steps behind it (`RunningSound`); a step in hand is open or
  shown as completed, and the open conditions are nested.
- `FiresLatest`: the walk has passed no match (`WalkInv`), so what it answers is
  the last of its window, on any calendar. That None means never needs the window
  to be a cycle: a cycle later a day is the same day of the same month
  (`NextCycle`), and every month has a day of each weekday (`SameWeekday`), so that
  an expression that matches before the window matches in it (`DaysRepeat`). The
  calendar repeats after `LeapCycle` years without exception; the eight years
  around 2100, without 29 February, are outside the theorem as they are outside
  the model.
- `ServicesHold`: a behaviour of the composition is a behaviour of every component's
  specification (`ComponentsRun`), so that the theorems above apply to it.

## What is proved and what is only checked

Proved for every instance: the types of every component, both refinements, every
safety invariant of the passing runs, and the action properties
`TimedOutOnlyOverdue`, `CancelWins` and `TickQueuedOnce`. Hypotheses beyond the
assumptions on constants are stated in the tables: one worker, one decision in
flight, one request at a time, no retries, no rolling restart. They are where the
code's promise ends, and the passing runs are under the same conditions.

Only model-checked: liveness, which rests on fairness and is out of the prover's
reach (`RunsSettle`, `CancelTakesEffect`, `PauseQuiesces`, `PendingDrains`,
`DecisionsApplied`, `RunsEnd`, `DueTriggersFire`, `RekeyCompletes`,
`ExpiredRowsGo`, `FeedSettles`, `DeliveriesSettle`). The runs that expect a
violation are about a single instance by their nature.

No proof is by induction over data. Recursive definitions (validation of nested
steps, the months of a recurrence) appear in the models as functions over bounded
sets or as state that a run builds step by step, so that the invariant of the run
does the induction.

## Not modelled

Each part without a module is listed in `PROJECT.json` with the reason. In short:

- Several organizations at once: the rows of one never affect those of another,
  except for the order in which a worker visits them.
- Of the queue: deletion of a workflow with its executions. Of the approvals:
  requests without an execution, which the gate worker only stamps, the logs, and
  the status CANCELLED, which no code writes.
- Of sessions: the lockout of failed logins, the time steps of one-time passwords,
  cookies. Of founder actions: proposals that are not tasks.
- Notes, outreach, conversations and lead sources beyond their routes: they are
  reads and writes of single rows. `capture_memory` and `promote_to_knowledge`,
  which have no caller.
- Growth analytics, dashboard, monitoring and exports: they only report.
  Configuration, rate limits, metrics and logs: settings are constants here, and
  the counters change nothing they are about.
- Prompts, providers and streaming; scores of signals: data.
- The schema and its policies, except for the constraints the code relies on; the
  frontend; packaging.
