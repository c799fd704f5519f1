---------------------------- MODULE ApprovalGate ----------------------------
(***************************************************************************)
(* Approval requests linked to workflow executions: the decision handler   *)
(* (ApprovalService), the gate workers that apply decisions to executions  *)
(* (ApprovalGateService, one transaction per gate) and, as environment,    *)
(* everything else that moves the execution rows: the steps ExecutionQueue *)
(* takes on one row, whoever takes them.                                   *)
(*                                                                         *)
(* Requests without an execution never reach the gate worker and are left  *)
(* out.  No code ever writes the status CANCELLED.                         *)
(***************************************************************************)
EXTENDS ExecutionRow, Sequences, SequencesExt, FiniteSets

CONSTANTS
    Requests,       \* approval requests
    Execs,          \* gated executions
    Gates,          \* approval gate worker processes
    MaxDeciding,    \* how many decide() calls are in flight at a time
    Limit,          \* rows one sweep lists
    Retries,        \* whether executions are retried, by fail() or by hand
    MaxHandRetries, \* bound of the model: retries by hand
    AttemptBound,   \* bound of the model: attempts of an execution
    MaxFaults       \* bound of the model: crashes and failed transactions

ASSUME GateAssumption ==
    /\ Limit \in Nat \ {0} /\ MaxDeciding \in Nat \ {0}
    /\ Retries \in BOOLEAN
    /\ {MaxHandRetries, AttemptBound, MaxFaults} \subseteq Nat

VARIABLES
    rows,       \* rows[e]: the execution row
    enabled,    \* system_settings automation.enabled
    reqs,       \* reqs[r]: the approval_requests row
    order,      \* the decided requests without a stamp, by decided_at
    deciding,   \* the decisions that have found their request PENDING and are
                \* not written yet
    at,         \* at[g]: where the sweep of gate worker g is
    todo,       \* todo[g]: the listed requests not yet processed, as listed
    seen,       \* seen[g]: the execution's status as g's session holds it
    applied,    \* history: the verdicts applied to each request, in order
    halted,     \* history: a gate has cancelled e and nothing requeued it since
    handRetries, faults

execution == <<rows, enabled, handRetries>>
requests == <<reqs, order, deciding>>
sweep == <<at, todo, seen>>
history == <<applied, halted>>
vars == <<execution, requests, sweep, history, faults>>

Verdicts == {"approved", "denied", "expired"}

\* none: not created;  lapsed: PENDING, and expires_at has passed
Open == {"pending", "lapsed"}

\* handled: gate_handled_at is set
Request == [status : Verdicts \cup Open \cup {"none"}, exec : Execs,
            handled : BOOLEAN]

Listed == [req : Requests, verdict : Verdicts]

Decision == [req : Requests, verdict : {"approved", "denied"}]

\* next    : between two gates of the batch
\* read    : the execution has been read
\* claimed : claim_gate has matched; the request's row is locked by g
\* requeue : retry() has found automation enabled
\* flag    : cancel() is about to ask a running execution to stop
Places == {"idle", "next", "read", "claimed", "requeue", "flag"}
Claiming == {"claimed", "requeue", "flag"}

ExecutionOK ==
    /\ rows \in [Execs -> Row]
    /\ enabled \in BOOLEAN
    /\ handRetries \in Nat /\ faults \in Nat

RequestsOK ==
    /\ reqs \in [Requests -> Request]
    /\ order \in Seq(Requests)
    /\ deciding \in SUBSET Decision

SweepOK ==
    /\ at \in [Gates -> Places]
    /\ todo \in [Gates -> Seq(Listed)]
    /\ seen \in [Gates -> Statuses]
    /\ \A g \in Gates : at[g] = "idle" <=> todo[g] = <<>>

HistoryOK ==
    /\ applied \in [Requests -> Seq(Verdicts)]
    /\ halted \in [Execs -> BOOLEAN]

TypeOK == ExecutionOK /\ RequestsOK /\ SweepOK /\ HistoryOK

Init ==
    /\ rows = [e \in Execs |-> QueuedRow]
    /\ enabled = TRUE
    /\ reqs \in [Requests -> {[status |-> "none", exec |-> e, handled |-> FALSE] :
                              e \in Execs}]
    /\ order = <<>>
    /\ deciding = {}
    /\ at = [g \in Gates |-> "idle"]
    /\ todo = [g \in Gates |-> <<>>]
    /\ seen = [g \in Gates |-> "absent"]
    /\ applied = [r \in Requests |-> <<>>]
    /\ halted = [e \in Execs |-> FALSE]
    /\ handRetries = 0 /\ faults = 0

-----------------------------------------------------------------------------
(* The executions, moved by workers and users.                             *)

Becomes(e, row) == rows' = [rows EXCEPT ![e] = row]

Requeues(e) ==
    /\ Becomes(e, RequeuedRow(rows[e]))
    /\ halted' = [halted EXCEPT ![e] = FALSE]

Start(e) ==
    /\ CanStart(rows[e]) /\ rows[e].attempts < AttemptBound
    /\ Becomes(e, StartedRow(rows[e]))
    /\ UNCHANGED <<enabled, handRetries, requests, sweep, history, faults>>

Finish(e) ==
    /\ Settles(rows[e])
    /\ \/ Becomes(e, Settled(rows[e], SucceededRow(rows[e])))
       \/ Becomes(e, Settled(rows[e], TimedOutRow(rows[e])))
       \/ \E again \in BOOLEAN :
             /\ again => Retries
             /\ Becomes(e, Settled(rows[e], FailedRow(rows[e], again)))
    /\ UNCHANGED <<enabled, handRetries, requests, sweep, history, faults>>

RetryDelayElapses(e) ==
    /\ rows[e].status = "retrying" /\ rows[e].retryAt = "future"
    /\ rows' = [rows EXCEPT ![e].retryAt = "past"]
    /\ UNCHANGED <<enabled, handRetries, requests, sweep, history, faults>>

RequeueDue(e) ==
    /\ CanRequeueDue(rows[e])
    /\ Becomes(e, RequeuedDueRow(rows[e]))
    /\ UNCHANGED <<enabled, handRetries, requests, sweep, history, faults>>

FailQueued(e) ==
    /\ CanFailQueued(rows[e])
    /\ Becomes(e, FailedQueuedRow(rows[e]))
    /\ UNCHANGED <<enabled, handRetries, requests, sweep, history, faults>>

CancelByHand(e) ==
    /\ CanCancel(rows[e])
    /\ Becomes(e, CancelledRow(rows[e]))
    /\ UNCHANGED <<enabled, handRetries, requests, sweep, history, faults>>

RetryByHand(e) ==
    /\ CanRequeue(rows[e]) /\ Retries /\ handRetries < MaxHandRetries
    /\ Requeues(e)
    /\ handRetries' = handRetries + 1
    /\ UNCHANGED <<enabled, requests, sweep, applied, faults>>

ToggleAutomation ==
    /\ enabled' = ~enabled
    /\ UNCHANGED <<rows, handRetries, requests, sweep, history, faults>>

-----------------------------------------------------------------------------
(* Requests and decisions.                                                 *)

CreateRequest(r) ==
    /\ reqs[r].status = "none"
    /\ reqs' = [reqs EXCEPT ![r].status = "pending"]
    /\ UNCHANGED <<execution, order, deciding, sweep, history, faults>>

ExpiryPasses(r) ==
    /\ reqs[r].status = "pending"
    /\ reqs' = [reqs EXCEPT ![r].status = "lapsed"]
    /\ UNCHANGED <<execution, order, deciding, sweep, history, faults>>

\* what is listed once a request is stamped
Without(r) ==
    IF \E i \in DOMAIN order : order[i] = r
    THEN RemoveAt(order, CHOOSE i \in DOMAIN order : order[i] = r)
    ELSE order

\* a second decision sets decided_at again
Decided(r) == IF reqs[r].handled THEN order ELSE Append(Without(r), r)

CheckDecision_NoStatusCheck(r) ==
    /\ Cardinality(deciding) < MaxDeciding /\ reqs[r].status # "none"
    /\ \E v \in {"approved", "denied"} :
          deciding' = deciding \cup {[req |-> r, verdict |-> v]}
    /\ UNCHANGED <<execution, reqs, order, sweep, history, faults>>

\* decide(): the request is PENDING and has not expired
CheckDecision(r) ==
    /\ Cardinality(deciding) < MaxDeciding
    /\ reqs[r].status = "pending"
    /\ \E v \in {"approved", "denied"} :
          deciding' = deciding \cup {[req |-> r, verdict |-> v]}
    /\ UNCHANGED <<execution, reqs, order, sweep, history, faults>>

\* decide(): it has expired; mark_expired and 409
ExpireOnDecide(r) ==
    /\ Cardinality(deciding) < MaxDeciding
    /\ reqs[r].status = "lapsed"
    /\ reqs' = [reqs EXCEPT ![r].status = "expired"]
    /\ order' = Decided(r)
    /\ UNCHANGED <<execution, deciding, sweep, history, faults>>

Locked(r) == \E g \in Gates : at[g] \in Claiming /\ Head(todo[g]).req = r

\* decide(): the assignment, an UPDATE by primary key, waits for the row lock
WriteDecision(d) ==
    /\ d \in deciding /\ ~Locked(d.req)
    /\ deciding' = deciding \ {d}
    /\ reqs' = [reqs EXCEPT ![d.req].status = d.verdict]
    /\ order' = Decided(d.req)
    /\ UNCHANGED <<execution, sweep, history, faults>>

-----------------------------------------------------------------------------
(* The gate worker.                                                        *)

Unhandled_NoExpired ==
    LET open == SelectSeq(order, LAMBDA r : reqs[r].status # "expired")
    IN  [i \in 1..Len(open) |-> [req |-> open[i], verdict |-> reqs[open[i]].status]]

\* list_unhandled_gates
Unhandled ==
    [i \in 1..Len(order) |-> [req |-> order[i], verdict |-> reqs[order[i]].status]]

\* sweep(): one listing, one session
BeginSweep(g) ==
    /\ at[g] = "idle" /\ Unhandled # <<>>
    /\ todo' = [todo EXCEPT ![g] =
                  IF Len(Unhandled) > Limit THEN SubSeq(Unhandled, 1, Limit)
                  ELSE Unhandled]
    /\ at' = [at EXCEPT ![g] = "next"]
    /\ UNCHANGED <<execution, requests, seen, history, faults>>

Gate(g) == Head(todo[g])
ExecOf(g) == reqs[Gate(g).req].exec

ReadExecution(g) ==
    /\ at[g] = "next"
    /\ seen' = [seen EXCEPT ![g] = rows[ExecOf(g)].status]
    /\ at' = [at EXCEPT ![g] = "read"]
    /\ UNCHANGED <<execution, requests, todo, history, faults>>

\* the next gate of the batch, or the end of the sweep
Advance(g) ==
    /\ todo' = [todo EXCEPT ![g] = Tail(@)]
    /\ at' = [at EXCEPT ![g] = IF Len(todo[g]) = 1 THEN "idle" ELSE "next"]
    /\ seen' = [seen EXCEPT ![g] = "absent"]

Claim_Unguarded(g) ==
    /\ at[g] = "read" /\ ~Locked(Gate(g).req)
    /\ at' = [at EXCEPT ![g] = "claimed"]
    /\ UNCHANGED <<execution, requests, todo, seen, history, faults>>

\* claim_gate: waits for a transaction that holds the request, and matches
\* unless that one has stamped it
Claim(g) ==
    /\ at[g] = "read" /\ ~Locked(Gate(g).req)
    /\ IF reqs[Gate(g).req].handled THEN Advance(g)
       ELSE at' = [at EXCEPT ![g] = "claimed"] /\ UNCHANGED <<todo, seen>>
    /\ UNCHANGED <<execution, requests, history, faults>>

\* the execution has settled on its own, or the decision asks nothing of it
GateAction(g) ==
    IF Gate(g).verdict = "approved"
    THEN IF seen[g] \in Retryable THEN "retry" ELSE "none"
    ELSE IF seen[g] \in Pending \cup {"running"} THEN "cancel" ELSE "none"

\* the commit that makes the stamp and the operation visible together
Stamp(g) ==
    /\ reqs' = [reqs EXCEPT ![Gate(g).req].handled = TRUE]
    /\ applied' = [applied EXCEPT ![Gate(g).req] = Append(@, Gate(g).verdict)]
    /\ order' = Without(Gate(g).req)
    /\ Advance(g)
    /\ UNCHANGED deciding

\* rollback; the exception ends the sweep
Abandon_KeepsBatch(g) ==
    /\ at' = [at EXCEPT ![g] = "idle"]
    /\ seen' = [seen EXCEPT ![g] = "absent"]
    /\ UNCHANGED <<execution, requests, todo, history>>

Abandon(g) ==
    /\ todo' = [todo EXCEPT ![g] = <<>>]
    /\ at' = [at EXCEPT ![g] = "idle"]
    /\ seen' = [seen EXCEPT ![g] = "absent"]
    /\ UNCHANGED <<execution, requests, history>>

StampMoot(g) ==
    /\ at[g] = "claimed" /\ GateAction(g) = "none"
    /\ Stamp(g)
    /\ UNCHANGED <<execution, halted, faults>>

\* retry(): the kill switch, then mark_requeued; either may raise 409
CheckEnabled(g) ==
    /\ at[g] = "claimed" /\ GateAction(g) = "retry"
    /\ IF enabled
       THEN /\ at' = [at EXCEPT ![g] = "requeue"]
            /\ UNCHANGED <<execution, requests, todo, seen, history>>
       ELSE Abandon(g)
    /\ UNCHANGED faults

Requeue(g) ==
    /\ at[g] = "requeue"
    /\ IF CanRequeue(rows[ExecOf(g)])
       THEN /\ Requeues(ExecOf(g))
            /\ Stamp(g)
            /\ UNCHANGED <<enabled, handRetries>>
       ELSE Abandon(g)
    /\ UNCHANGED faults

Halts(g) == halted' = [halted EXCEPT ![ExecOf(g)] = TRUE]

\* cancel() of an execution that was waiting when it was read
CancelPending(g) ==
    /\ at[g] = "claimed" /\ GateAction(g) = "cancel" /\ seen[g] \in Pending
    /\ CanCancelPending(rows[ExecOf(g)])
    /\ Becomes(ExecOf(g), CancelledPendingRow(rows[ExecOf(g)]))
    /\ Halts(g)
    /\ Stamp(g)
    /\ UNCHANGED <<enabled, handRetries, faults>>

MissPending_GivesUp(g) ==
    /\ at[g] = "claimed" /\ GateAction(g) = "cancel"
    /\ seen[g] \in Pending /\ ~CanCancelPending(rows[ExecOf(g)])
    /\ Halts(g)
    /\ Stamp(g)
    /\ UNCHANGED <<execution, faults>>

\* mark_cancelled_if_pending matched no row
MissPending(g) ==
    /\ at[g] = "claimed" /\ GateAction(g) = "cancel"
    /\ seen[g] \in Pending /\ ~CanCancelPending(rows[ExecOf(g)])
    /\ at' = [at EXCEPT ![g] = "flag"]
    /\ UNCHANGED <<execution, requests, todo, seen, history, faults>>

\* cancel() of a running execution: mark_cancel_requested, and success even
\* when it matches no row
CancelRunning(g) ==
    /\ \/ at[g] = "flag"
       \/ at[g] = "claimed" /\ GateAction(g) = "cancel" /\ seen[g] = "running"
    /\ rows' = IF CanFinish(rows[ExecOf(g)])
               THEN [rows EXCEPT ![ExecOf(g)] = FlaggedRow(@)] ELSE rows
    /\ Halts(g)
    /\ Stamp(g)
    /\ UNCHANGED <<enabled, handRetries, faults>>

\* the process dies or the transaction fails: nothing of it is committed
GateFails(g) ==
    /\ at[g] # "idle" /\ faults < MaxFaults
    /\ Abandon(g)
    /\ faults' = faults + 1

-----------------------------------------------------------------------------

ExecutionStep(e) ==
    \/ Start(e) \/ Finish(e) \/ RetryDelayElapses(e) \/ RequeueDue(e)
    \/ FailQueued(e) \/ CancelByHand(e) \/ RetryByHand(e)

RequestStep(r) ==
    \/ CreateRequest(r) \/ ExpiryPasses(r) \/ ExpireOnDecide(r)
    \/ CheckDecision(r)

GateStep(g) ==
    \/ BeginSweep(g) \/ ReadExecution(g) \/ Claim(g) \/ StampMoot(g)
    \/ CheckEnabled(g) \/ Requeue(g)
    \/ CancelPending(g) \/ MissPending(g) \/ CancelRunning(g)

Next ==
    \/ \E e \in Execs : ExecutionStep(e)
    \/ \E r \in Requests : RequestStep(r)
    \/ \E d \in Decision : WriteDecision(d)
    \/ \E g \in Gates : GateStep(g) \/ GateFails(g)
    \/ ToggleAutomation

Spec == Init /\ [][Next]_vars

\* run_loop sweeps for ever, calls under way end, and expiries pass; nobody
\* is obliged to decide.
Fairness ==
    /\ \A g \in Gates : WF_vars(GateStep(g))
    /\ \A d \in Decision : WF_vars(WriteDecision(d))
    /\ \A r \in Requests : WF_vars(ExpiryPasses(r))

FairSpec == Spec /\ Fairness

-----------------------------------------------------------------------------
(* Properties.                                                             *)

\* "Stamped in the same transaction as the execution op, which makes
\* processing idempotent" (approval_gate_service.py): whatever workers sweep
\* the same gate, and wherever they crash, its decision is applied once if it
\* is stamped and not at all if it is not.
AppliedOnce ==
    \A r \in Requests : Len(applied[r]) = IF reqs[r].handled THEN 1 ELSE 0

\* With decisions made one at a time, a request is decided once, and what the
\* gate does to the execution is what the request says was decided.
ContractView ==
    [r \in Requests |->
        [decision |-> IF reqs[r].status \in Open THEN "pending" ELSE reqs[r].status,
         applied |-> IF applied[r] = <<>> THEN "none" ELSE Last(applied[r])]]

Contract == INSTANCE ApprovalContract WITH gate <- ContractView

ImplementsContract == Contract!Spec

\* Once a gate has cancelled an execution, the execution is settled or on its
\* way to be cancelled, until somebody asks for it to run again.
DenialStops ==
    \A e \in Execs :
        halted[e] => \/ rows[e].status \notin Pending \cup {"running"}
                     \/ rows[e].status = "running" /\ rows[e].cancel

\* While automation stays enabled every decision is applied in the end.
DecisionsApplied ==
    <>[]enabled =>
        \A r \in Requests : reqs[r].status \in Verdicts ~> reqs[r].handled
=============================================================================
