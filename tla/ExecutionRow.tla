---------------------------- MODULE ExecutionRow ----------------------------
(***************************************************************************)
(* One row of workflow_executions and the guarded transitions on it        *)
(* (repositories/workflow_execution.py).  Every transition is a single     *)
(* UPDATE .. WHERE guard RETURNING: CanX(r) is its WHERE, XRow(r) the row  *)
(* it leaves.  Postgres evaluates the guard on the latest committed row,   *)
(* so a guard and its effect are one atomic step wherever they are used.   *)
(***************************************************************************)
EXTENDS Naturals

\* execution status, with "absent" for an execution not yet inserted
Statuses == {"absent", "queued", "running", "succeeded", "failed",
             "retrying", "cancelled", "timed_out"}

Pending == {"queued", "retrying"}
Retryable == {"failed", "cancelled", "timed_out"}

\* cancel  : cancel_requested_at IS NOT NULL
\* retryAt : next_retry_at is NULL, in the future, or has passed
\* overdue : started_at lies further back than EXECUTION_TIMEOUT_SECONDS
Row == [status : Statuses, cancel : BOOLEAN, attempts : Nat,
        retryAt : {"null", "future", "past"}, overdue : BOOLEAN]

NoRow == [status |-> "absent", cancel |-> FALSE, attempts |-> 0,
          retryAt |-> "null", overdue |-> FALSE]

\* the row queue() inserts
QueuedRow == [NoRow EXCEPT !.status = "queued"]

-----------------------------------------------------------------------------
(* The transitions.  A definition named X_Slip, here and in the modules    *)
(* that use these rows, is not the code: it is X with one slip a           *)
(* programmer could make, kept to check that a property notices it.        *)

CanStart_AnyStatus(r) == r.status \in {"queued", "running"} /\ ~r.cancel
StartedRow_NoCount(r) == [r EXCEPT !.status = "running", !.overdue = FALSE]

\* mark_started
CanStart(r) == r.status = "queued" /\ ~r.cancel
StartedRow(r) ==
    [r EXCEPT !.status = "running", !.attempts = @ + 1, !.overdue = FALSE]

CanFinish_Flagged(r) == r.status = "running"

\* The WHERE shared by mark_succeeded, mark_failed, mark_timed_out and
\* mark_cancel_requested: RUNNING and nobody has asked to cancel.
CanFinish(r) == r.status = "running" /\ ~r.cancel

\* mark_succeeded
SucceededRow(r) == [r EXCEPT !.status = "succeeded"]

FailedRow_NoDelay(r, again) ==
    [r EXCEPT !.status = IF again THEN "retrying" ELSE "failed"]

\* mark_failed, as fail() calls it: RETRYING while the budget lasts
FailedRow(r, again) ==
    [r EXCEPT !.status = IF again THEN "retrying" ELSE "failed",
              !.retryAt = IF again THEN "future" ELSE "null"]

TimedOutRow_Requeued(r) == [r EXCEPT !.status = "queued"]

\* mark_timed_out
TimedOutRow(r) == [r EXCEPT !.status = "timed_out"]

\* mark_cancel_requested
FlaggedRow(r) == [r EXCEPT !.cancel = TRUE]

CanCancelAfterRun_Late(r) == r.status = "cancelled" /\ r.cancel

\* mark_cancelled_after_run
CanCancelAfterRun(r) == r.status = "running" /\ r.cancel
CancelledAfterRunRow(r) == [r EXCEPT !.status = "cancelled"]

\* mark_cancelled_if_pending: next_retry_at stays as it is
CanCancelPending(r) == r.status \in Pending /\ ~r.cancel
CancelledPendingRow(r) == [r EXCEPT !.status = "cancelled", !.cancel = TRUE]

\* mark_failed_if_queued
CanFailQueued(r) == r.status = "queued"
FailedQueuedRow(r) == [r EXCEPT !.status = "failed", !.retryAt = "null"]

RequeuedRow_KeepsFlag(r) == [r EXCEPT !.status = "queued", !.retryAt = "null"]

\* mark_requeued: the cancel flag is cleared, attempts is not
CanRequeue(r) == r.status \in Retryable
RequeuedRow(r) ==
    [r EXCEPT !.status = "queued", !.retryAt = "null", !.cancel = FALSE]

\* mark_requeued_due
CanRequeueDue(r) == r.status = "retrying" /\ r.retryAt = "past"
RequeuedDueRow(r) == [r EXCEPT !.status = "queued", !.retryAt = "null"]

-----------------------------------------------------------------------------
(* complete(), fail() and timeout() end the same way: the guarded UPDATE,  *)
(* and when it matches no row mark_cancelled_after_run, and when that one  *)
(* matches no row either, rollback and 409.  The two UPDATEs can be seen   *)
(* as one step: when the second matches, the first could not have matched  *)
(* at that same instant; when both miss, the row was at some instant       *)
(* between them not RUNNING, because only mark_requeued clears the flag.   *)

Settles(r) == CanFinish(r) \/ CanCancelAfterRun(r)

Settled(r, finished) ==
    IF CanFinish(r) THEN finished
    ELSE IF CanCancelAfterRun(r) THEN CancelledAfterRunRow(r)
    ELSE r

\* cancel(): a pending row is cancelled, a running one flagged
CanCancel(r) == CanCancelPending(r) \/ CanFinish(r)
CancelledRow(r) ==
    IF CanCancelPending(r) THEN CancelledPendingRow(r) ELSE FlaggedRow(r)
=============================================================================
