--------------------------- MODULE ExecutionQueue ---------------------------
(***************************************************************************)
(* The workflow execution queue of one organization: the rows of           *)
(* workflow_executions, the API handlers of WorkflowExecutionService, the  *)
(* automation kill switch, and any number of ExecutionWorker processes,    *)
(* each looping over sweep() = retries, queued, timeouts.                  *)
(*                                                                         *)
(* A worker session is opened per phase and never refreshes the objects it *)
(* has listed (expire_on_commit=False, core/database.py), so what a phase  *)
(* listed is a snapshot: batch and snap hold it until it is used.          *)
(***************************************************************************)
EXTENDS ExecutionRow, FiniteSets

CONSTANTS
    Execs,          \* executions; an element stands for its idempotency key
    Workers,        \* execution worker processes
    NoExec,         \* the job of a worker that runs nothing
    MaxAttempts,    \* max_attempts of the executions
    BatchSize,      \* EXECUTION_BATCH_SIZE
    PendingCap,     \* EXECUTION_MAX_PENDING_PER_ORG
    Managers,       \* whether callers may hold EXECUTION_MANAGE
    MaxFaults,      \* bound of the model: crashes, failed phases and checks
    AttemptBound    \* bound of the model: no retry asked for by hand
                    \* once an execution has had this many attempts

ASSUME ConstantsAssumption ==
    /\ NoExec \notin Execs
    /\ MaxAttempts \in Nat \ {0}
    /\ {BatchSize, PendingCap, MaxFaults, AttemptBound} \subseteq Nat
    /\ Managers \in BOOLEAN

VARIABLES
    rows,       \* rows[e]: the committed row of e
    enabled,    \* system_settings automation.enabled
    active,     \* the workflow is ACTIVE
    admitted,   \* executions for which a queue() or retry() call has passed
                \* its checks and not yet written
    phase,      \* phase[w]: where the sweep of worker w is
    batch,      \* batch[w]: what the phase listed and has not visited
    snap,       \* snap[w][e]: attempts of e as w's session read it
    wfSeen,     \* wfSeen[w]: the workflow was ACTIVE when w listed
    job,        \* job[w]: the run worker w is in
    faults      \* faults so far

api == <<enabled, active, admitted>>
sweeps == <<phase, batch, snap, wfSeen, job>>
vars == <<rows, api, sweeps, faults>>

Phases == {"idle", "retries", "queued", "running", "timeouts"}

\* exec: the execution; seen: its attempts as the session holds it, which is
\* what fail() compares; run: its attempts in the database when it started
NoJob == [exec |-> NoExec, seen |-> 0, run |-> 0]
Job == [exec : Execs \cup {NoExec}, seen : Nat, run : Nat]

NoSnap == [e \in Execs |-> 0]

RowsOK == rows \in [Execs -> Row]

ApiOK ==
    /\ enabled \in BOOLEAN /\ active \in BOOLEAN
    /\ admitted \in SUBSET Execs
    /\ faults \in Nat

SweepsOK ==
    /\ phase \in [Workers -> Phases]
    /\ batch \in [Workers -> SUBSET Execs]
    /\ snap \in [Workers -> [Execs -> Nat]]
    /\ wfSeen \in [Workers -> BOOLEAN]
    /\ job \in [Workers -> Job]
    /\ \A w \in Workers : (phase[w] = "running") <=> (job[w].exec # NoExec)

TypeOK == RowsOK /\ ApiOK /\ SweepsOK

Init ==
    /\ rows = [e \in Execs |-> NoRow]
    /\ enabled = TRUE /\ active = TRUE
    /\ admitted = {}
    /\ phase = [w \in Workers |-> "idle"]
    /\ batch = [w \in Workers |-> {}]
    /\ snap = [w \in Workers |-> NoSnap]
    /\ wfSeen = [w \in Workers |-> FALSE]
    /\ job = [w \in Workers |-> NoJob]
    /\ faults = 0

InStatus(S) == {e \in Execs : rows[e].status \in S}

-----------------------------------------------------------------------------
(* API handlers.  queue() and retry() check the kill switch (and the cap)  *)
(* in one statement and write in a later one; the others are one step.     *)

\* queue(): not paused, workflow ACTIVE, fewer than the cap pending
AdmitQueue(e) ==
    /\ rows[e].status = "absent" /\ e \notin admitted
    /\ enabled /\ active
    /\ Managers \/ Cardinality(InStatus(Pending)) < PendingCap
    /\ admitted' = admitted \cup {e}
    /\ UNCHANGED <<rows, enabled, active, sweeps, faults>>

\* queue(): the insert; a second insert with the same key is a 409
InsertQueued(e) ==
    /\ e \in admitted /\ rows[e].status = "absent"
    /\ admitted' = admitted \ {e}
    /\ rows' = [rows EXCEPT ![e] = QueuedRow]
    /\ UNCHANGED <<enabled, active, sweeps, faults>>

\* retry(): not paused, and a status that can be retried
AdmitRetry(e) ==
    /\ CanRequeue(rows[e]) /\ e \notin admitted
    /\ enabled
    /\ rows[e].attempts < AttemptBound
    /\ admitted' = admitted \cup {e}
    /\ UNCHANGED <<rows, enabled, active, sweeps, faults>>

\* retry(): the guarded UPDATE, or 409 when the row has moved on
FinishRetry(e) ==
    /\ e \in admitted /\ rows[e].status # "absent"
    /\ admitted' = admitted \ {e}
    /\ rows' = IF CanRequeue(rows[e])
               THEN [rows EXCEPT ![e] = RequeuedRow(@)] ELSE rows
    /\ UNCHANGED <<enabled, active, sweeps, faults>>

Cancel(e) ==
    /\ CanCancel(rows[e])
    /\ rows' = [rows EXCEPT ![e] = CancelledRow(@)]
    /\ UNCHANGED <<api, sweeps, faults>>

\* POST /{id}/start, /complete and /fail: the caller is the runner.  fail()
\* has read attempts before its UPDATE, possibly that of an earlier attempt;
\* again: schedule_retry was asked for and the attempts read leave room.
ApiStart(e) ==
    /\ CanStart(rows[e])
    /\ rows' = [rows EXCEPT ![e] = StartedRow(@)]
    /\ UNCHANGED <<api, sweeps, faults>>

ApiComplete(e) ==
    /\ Settles(rows[e])
    /\ rows' = [rows EXCEPT ![e] = Settled(@, SucceededRow(@))]
    /\ UNCHANGED <<api, sweeps, faults>>

ApiFail(e) ==
    /\ Settles(rows[e])
    /\ \E again \in BOOLEAN, seen \in 1..rows[e].attempts :
          /\ again => seen < MaxAttempts /\ rows[e].attempts < AttemptBound
          /\ rows' = [rows EXCEPT ![e] = Settled(@, FailedRow(@, again))]
    /\ UNCHANGED <<api, sweeps, faults>>

\* AutomationControlService.pause() and resume()
Pause ==
    /\ enabled
    /\ enabled' = FALSE
    /\ UNCHANGED <<rows, active, admitted, sweeps, faults>>

Resume ==
    /\ ~enabled
    /\ enabled' = TRUE
    /\ UNCHANGED <<rows, active, admitted, sweeps, faults>>

\* the workflow is activated, paused or archived (WorkflowService)
ToggleWorkflow ==
    /\ active' = ~active
    /\ UNCHANGED <<rows, enabled, admitted, sweeps, faults>>

-----------------------------------------------------------------------------
(* Time.  next_retry_at and the timeout of a run pass at any moment.       *)

RetryDelayElapses(e) ==
    /\ rows[e].status = "retrying" /\ rows[e].retryAt = "future"
    /\ rows' = [rows EXCEPT ![e].retryAt = "past"]
    /\ UNCHANGED <<api, sweeps, faults>>

TimeoutElapses(e) ==
    /\ rows[e].status = "running" /\ ~rows[e].overdue
    /\ rows' = [rows EXCEPT ![e].overdue = TRUE]
    /\ UNCHANGED <<api, sweeps, faults>>

-----------------------------------------------------------------------------
(* The worker.  A phase lists its rows in the step that enters it.         *)

ListRetries(w) ==
    /\ phase' = [phase EXCEPT ![w] = "retries"]
    /\ batch' = [batch EXCEPT ![w] = {e \in Execs : CanRequeueDue(rows[e])}]
    /\ UNCHANGED <<rows, api, snap, wfSeen, job>>

\* the oldest BatchSize QUEUED rows (which ones are the oldest is left open)
ListQueued(w) ==
    /\ phase' = [phase EXCEPT ![w] = "queued"]
    /\ \E listed \in SUBSET InStatus({"queued"}) :
          /\ \/ listed = InStatus({"queued"})
             \/ Cardinality(listed) = BatchSize
          /\ Cardinality(listed) <= BatchSize
          /\ batch' = [batch EXCEPT ![w] = listed]
          /\ snap' = [snap EXCEPT ![w] =
                        [e \in Execs |-> IF e \in listed THEN rows[e].attempts ELSE 0]]
    /\ wfSeen' = [wfSeen EXCEPT ![w] = active]
    /\ UNCHANGED <<rows, api, job>>

ListStuck_AnyRunning(w) ==
    /\ phase' = [phase EXCEPT ![w] = "timeouts"]
    /\ batch' = [batch EXCEPT ![w] = InStatus({"running"})]
    /\ snap' = [snap EXCEPT ![w] = NoSnap]
    /\ wfSeen' = [wfSeen EXCEPT ![w] = FALSE]
    /\ job' = [job EXCEPT ![w] = NoJob]
    /\ UNCHANGED <<rows, api>>

\* get_stuck_running
ListStuck(w) ==
    /\ phase' = [phase EXCEPT ![w] = "timeouts"]
    /\ batch' = [batch EXCEPT ![w] =
                   {e \in Execs : rows[e].status = "running" /\ rows[e].overdue}]
    /\ snap' = [snap EXCEPT ![w] = NoSnap]
    /\ wfSeen' = [wfSeen EXCEPT ![w] = FALSE]
    /\ job' = [job EXCEPT ![w] = NoJob]
    /\ UNCHANGED <<rows, api>>

BeginSweep_Unchecked(w) ==
    /\ phase[w] = "idle"
    /\ ListRetries(w)
    /\ UNCHANGED faults

BeginSweep_PausedIdles(w) ==
    /\ phase[w] = "idle" /\ enabled
    /\ ListRetries(w)
    /\ UNCHANGED faults

\* sweep(): the kill switch is read once, before the phases
BeginSweep(w) ==
    /\ phase[w] = "idle"
    /\ IF enabled THEN ListRetries(w) ELSE ListStuck(w)
    /\ UNCHANGED faults

\* process_retries
RequeueDue(w, e) ==
    /\ phase[w] = "retries" /\ e \in batch[w]
    /\ rows' = IF CanRequeueDue(rows[e])
               THEN [rows EXCEPT ![e] = RequeuedDueRow(@)] ELSE rows
    /\ batch' = [batch EXCEPT ![w] = @ \ {e}]
    /\ UNCHANGED <<api, phase, snap, wfSeen, job, faults>>

EndRetries(w) ==
    /\ phase[w] = "retries" /\ batch[w] = {}
    /\ ListQueued(w)
    /\ UNCHANGED faults

\* A 409 rolls the session back and expires what it has listed: the phase
\* goes on with the rest of its batch, or fails on the first expired row.
Visit(w, e, matched) ==
    IF matched THEN batch' = [batch EXCEPT ![w] = @ \ {e}]
    ELSE \E rest \in {batch[w] \ {e}, {}} : batch' = [batch EXCEPT ![w] = rest]

\* process_queued, the workflow was not ACTIVE when listed: fail_queued()
FailQueued(w, e) ==
    /\ phase[w] = "queued" /\ e \in batch[w] /\ ~wfSeen[w]
    /\ rows' = IF CanFailQueued(rows[e])
               THEN [rows EXCEPT ![e] = FailedQueuedRow(@)] ELSE rows
    /\ Visit(w, e, CanFailQueued(rows[e]))
    /\ UNCHANGED <<api, phase, snap, wfSeen, job, faults>>

\* process_queued: start() wins the row, and the adapter is called
Start(w, e) ==
    /\ phase[w] = "queued" /\ e \in batch[w] /\ wfSeen[w]
    /\ CanStart(rows[e])
    /\ rows' = [rows EXCEPT ![e] = StartedRow(@)]
    /\ phase' = [phase EXCEPT ![w] = "running"]
    /\ job' = [job EXCEPT ![w] = [exec |-> e, seen |-> snap[w][e] + 1,
                                  run |-> rows[e].attempts + 1]]
    /\ batch' = [batch EXCEPT ![w] = @ \ {e}]
    /\ UNCHANGED <<api, snap, wfSeen, faults>>

\* process_queued: start() raises 409
SkipClaimed(w, e) ==
    /\ phase[w] = "queued" /\ e \in batch[w] /\ wfSeen[w]
    /\ ~CanStart(rows[e])
    /\ Visit(w, e, FALSE)
    /\ UNCHANGED <<rows, api, phase, snap, wfSeen, job, faults>>

Land_KeepsJob(w, finished) ==
    LET e == job[w].exec IN
    /\ rows' = [rows EXCEPT ![e] = Settled(@, finished)]
    /\ phase' = [phase EXCEPT ![w] = "queued"]
    /\ UNCHANGED <<api, batch, snap, wfSeen, job, faults>>

\* The adapter call is over and the outcome lands on the row as it now is.
Land(w, finished) ==
    LET e == job[w].exec IN
    /\ rows' = [rows EXCEPT ![e] = Settled(@, finished)]
    /\ phase' = [phase EXCEPT ![w] = "queued"]
    /\ job' = [job EXCEPT ![w] = NoJob]
    /\ \E rest \in {batch[w]} \cup (IF Settles(rows[e]) THEN {} ELSE {{}}) :
          batch' = [batch EXCEPT ![w] = rest]
    /\ UNCHANGED <<api, snap, wfSeen, faults>>

\* the adapter returned: complete()
Complete(w) ==
    /\ phase[w] = "running"
    /\ Land(w, SucceededRow(rows[job[w].exec]))

\* complete() refuses an output above the size cap before it reads the row: the
\* worker logs the 413 and goes on, and the row stays RUNNING for the reaper.
RefuseOutput(w) ==
    /\ phase[w] = "running"
    /\ phase' = [phase EXCEPT ![w] = "queued"]
    /\ job' = [job EXCEPT ![w] = NoJob]
    /\ UNCHANGED <<rows, api, batch, snap, wfSeen, faults>>

Fail_OffByOne(w) ==
    /\ phase[w] = "running"
    /\ Land(w, FailedRow(rows[job[w].exec], job[w].seen <= MaxAttempts))

\* the adapter raised: fail() with the attempts the session remembers
Fail(w) ==
    /\ phase[w] = "running"
    /\ Land(w, FailedRow(rows[job[w].exec], job[w].seen < MaxAttempts))

\* wait_for expired: timeout().  It measures the same delay as started_at,
\* from a later start, so by now the run it belongs to is overdue.
HardTimeout(w) ==
    /\ phase[w] = "running"
    /\ job[w].run = rows[job[w].exec].attempts => rows[job[w].exec].overdue
    /\ Land(w, TimedOutRow(rows[job[w].exec]))

EndQueued(w) ==
    /\ phase[w] = "queued" /\ batch[w] = {}
    /\ ListStuck(w)
    /\ UNCHANGED faults

\* timeout_stuck: the row was overdue when listed; timeout() asks only that
\* it is still RUNNING
Reap(w, e) ==
    /\ phase[w] = "timeouts" /\ e \in batch[w]
    /\ rows' = [rows EXCEPT ![e] = Settled(@, TimedOutRow(@))]
    /\ Visit(w, e, Settles(rows[e]))
    /\ UNCHANGED <<api, phase, snap, wfSeen, job, faults>>

EndSweep(w) ==
    /\ phase[w] = "timeouts" /\ batch[w] = {}
    /\ phase' = [phase EXCEPT ![w] = "idle"]
    /\ UNCHANGED <<rows, api, batch, snap, wfSeen, job, faults>>

-----------------------------------------------------------------------------
(* Faults, at most MaxFaults of them.                                      *)

\* the process dies; a run it was in stays RUNNING
Crash(w) ==
    /\ phase[w] # "idle" /\ faults < MaxFaults
    /\ faults' = faults + 1
    /\ phase' = [phase EXCEPT ![w] = "idle"]
    /\ batch' = [batch EXCEPT ![w] = {}]
    /\ snap' = [snap EXCEPT ![w] = NoSnap]
    /\ wfSeen' = [wfSeen EXCEPT ![w] = FALSE]
    /\ job' = [job EXCEPT ![w] = NoJob]
    /\ UNCHANGED <<rows, api>>

\* _safe_phase: a phase that raises is abandoned for the next one; in
\* "running" that is an unknown execution_mode or a failed commit
PhaseFails(w) ==
    /\ faults < MaxFaults
    /\ faults' = faults + 1
    /\ \/ phase[w] = "retries" /\ ListQueued(w)
       \/ phase[w] \in {"queued", "running"} /\ ListStuck(w)
       \/ /\ phase[w] = "timeouts"
          /\ phase' = [phase EXCEPT ![w] = "idle"]
          /\ batch' = [batch EXCEPT ![w] = {}]
          /\ UNCHANGED <<rows, api, snap, wfSeen, job>>

\* _automation_enabled: a check that fails counts as paused
BlindSweep(w) ==
    /\ phase[w] = "idle" /\ faults < MaxFaults
    /\ faults' = faults + 1
    /\ ListStuck(w)

-----------------------------------------------------------------------------

WorkerStep(w) ==
    \/ BeginSweep(w) \/ EndRetries(w) \/ EndQueued(w) \/ EndSweep(w)
    \/ Complete(w) \/ RefuseOutput(w) \/ Fail(w) \/ HardTimeout(w)
    \/ \E e \in Execs : \/ RequeueDue(w, e) \/ FailQueued(w, e)
                        \/ Start(w, e) \/ SkipClaimed(w, e) \/ Reap(w, e)

Fault(w) == Crash(w) \/ PhaseFails(w) \/ BlindSweep(w)

Elapse(e) == RetryDelayElapses(e) \/ TimeoutElapses(e)

\* What happens when nobody settles or restarts an execution by hand.
Unattended ==
    \/ \E w \in Workers : WorkerStep(w) \/ Fault(w)
    \/ \E e \in Execs : AdmitQueue(e) \/ InsertQueued(e) \/ Cancel(e) \/ Elapse(e)
    \/ Pause \/ Resume \/ ToggleWorkflow

\* The calls by which a user takes an execution out of the workers' hands.
ByHand ==
    \E e \in Execs : \/ AdmitRetry(e) \/ FinishRetry(e)
                     \/ ApiStart(e) \/ ApiComplete(e) \/ ApiFail(e)

Next == Unattended \/ ByHand

Spec == Init /\ [][Next]_vars

UnattendedSpec == Init /\ [][Unattended]_vars

\* run_loop never stops sweeping, an adapter call is bounded by wait_for,
\* and clocks advance; nothing obliges a user to do anything.
Fairness ==
    /\ \A w \in Workers : WF_vars(WorkerStep(w))
    /\ \A e \in Execs : WF_vars(Elapse(e))

FairSpec == Spec /\ Fairness

-----------------------------------------------------------------------------
(* Properties.                                                             *)

\* No row can get stuck where nothing picks it up: mark_started and
\* mark_cancelled_if_pending both skip a pending row that carries a cancel
\* flag, and the retry sweep skips a RETRYING row without next_retry_at.
PendingRowsDrainable ==
    \A e \in Execs :
        /\ rows[e].cancel => rows[e].status \in {"running", "cancelled"}
        /\ rows[e].status = "retrying" => rows[e].retryAt # "null"

\* Whatever is retried, reaped or completed by hand meanwhile, two workers
\* are never in the same attempt of an execution, and no worker is in an
\* attempt the row has not counted.
OneRunnerPerAttempt ==
    \A v, w \in Workers :
        /\ phase[v] = "running" => job[v].run \in 1..rows[job[v].exec].attempts
        /\ /\ v # w /\ phase[v] = "running" /\ phase[w] = "running"
           /\ job[v].exec = job[w].exec
           => job[v].run # job[w].run

\* The queue keeps the contract of ExecutionLifecycle: an attempt is opened
\* only while none is open, a cancelled attempt is never won or repeated, a
\* success is final.
LifeOf(r) ==
    [stage |-> CASE r.status = "absent" -> "new"
                 [] r.status \in Pending -> "waiting"
                 [] r.status = "running" -> "open"
                 [] r.status = "succeeded" -> "won"
                 [] OTHER -> "lost",
     attempts |-> r.attempts,
     cancelling |-> r.status = "running" /\ r.cancel]

Lifecycle == INSTANCE ExecutionLifecycle
                 WITH life <- [e \in Execs |-> LifeOf(rows[e])]

ImplementsLifecycle == Lifecycle!Spec

\* As long as nobody retries or settles an execution by hand, it is never
\* run by two workers at once, not even when the reaper takes away a run
\* whose worker is still in the adapter.
SoleRunner ==
    \A v, w \in Workers :
        phase[v] = "running" /\ phase[w] = "running" /\ v # w
            => job[v].exec # job[w].exec

\* As long as nobody retries or settles an execution by hand, a worker that
\* finds the row RUNNING when its adapter returns finds its own attempt.
RunnerHoldsRow ==
    \A w \in Workers :
        phase[w] = "running" /\ rows[job[w].exec].status = "running"
            => job[w].run = rows[job[w].exec].attempts

\* "Concurrent workers and cancels can never clobber each other"
\* (workflow_execution_service.py): the outcome a worker brings home settles
\* the attempt it belongs to.
OutcomeLandsOnOwnAttempt ==
    [][\A w \in Workers :
         phase[w] = "running" /\ phase'[w] = "queued" /\ rows' # rows
             => job[w].run = rows[job[w].exec].attempts]_vars

\* fail() schedules a retry only while attempts are left: "failed executions
\* schedule retries through `retrying` until `max_attempts` is exhausted".
RetryWithinBudget ==
    \A e \in Execs :
        rows[e].status = "retrying" => rows[e].attempts < MaxAttempts

\* A run is timed out only when it has itself exceeded the timeout.
TimedOutOnlyOverdue ==
    [][\A e \in Execs :
         rows[e].status = "running" /\ rows'[e].status = "timed_out"
             => rows[e].overdue]_vars

\* Every run ends, also when its worker died in it, when it was started over
\* the API and never completed, and while automation is paused.
RunsSettle ==
    \A e \in Execs : rows[e].status = "running" ~> rows[e].status # "running"

\* A run that was asked to cancel ends as cancelled.
CancelTakesEffect ==
    \A e \in Execs :
        rows[e].status = "running" /\ rows[e].cancel
            ~> rows[e].status = "cancelled"

\* After a pause the workers come to rest: sweeps already under way finish,
\* and from then on no worker requeues or runs anything.
PauseQuiesces ==
    <>[]~enabled =>
        <>[](\A w \in Workers : phase[w] \in {"idle", "timeouts"})

\* While automation stays enabled, pending work does not wait forever.
PendingDrains ==
    <>[]enabled =>
        \A e \in Execs : /\ rows[e].status = "queued" ~> rows[e].status # "queued"
                         /\ rows[e].status = "retrying" ~> rows[e].status # "retrying"
=============================================================================
