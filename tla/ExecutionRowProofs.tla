------------------------- MODULE ExecutionRowProofs -------------------------
(***************************************************************************)
(* What the transitions of ExecutionRow do to a single row.  Edge lists    *)
(* them as a relation, which the proofs of the modules that use rows share. *)
(***************************************************************************)
EXTENDS ExecutionRow, TLAPS

\* The transitions of ExecutionRow, and the passing of time, as a relation.
Edge(r, s) ==
    \/ r.status = "absent" /\ s = QueuedRow
    \/ CanRequeue(r) /\ s = RequeuedRow(r)
    \/ CanCancel(r) /\ s = CancelledRow(r)
    \/ CanStart(r) /\ s = StartedRow(r)
    \/ Settles(r) /\ s = Settled(r, SucceededRow(r))
    \/ Settles(r) /\ s = Settled(r, TimedOutRow(r))
    \/ Settles(r) /\ \E again \in BOOLEAN : s = Settled(r, FailedRow(r, again))
    \/ CanFailQueued(r) /\ s = FailedQueuedRow(r)
    \/ CanRequeueDue(r) /\ s = RequeuedDueRow(r)
    \/ r.status = "retrying" /\ s = [r EXCEPT !.retryAt = "past"]
    \/ r.status = "running" /\ s = [r EXCEPT !.overdue = TRUE]

\* What holds of every row by itself.
RowInv(r) ==
    /\ r.status = "absent" => r = NoRow
    /\ r.cancel => r.status \in {"running", "cancelled"}
    /\ r.status = "retrying" => r.retryAt # "null"

USE DEF Statuses, Pending, Retryable

\* An edge leads from a row to a row.
LEMMA EdgeType ==
    ASSUME NEW r \in Row, NEW s, Edge(r, s)
    PROVE  s \in Row
<1> USE DEF Row
<1>1. CASE r.status = "absent" /\ s = QueuedRow
  BY <1>1 DEF QueuedRow, NoRow
<1>2. CASE CanRequeue(r) /\ s = RequeuedRow(r)
  BY <1>2 DEF CanRequeue, RequeuedRow
<1>3. CASE CanCancel(r) /\ s = CancelledRow(r)
  BY <1>3 DEF CanCancel, CanCancelPending, CanFinish, CancelledRow,
              CancelledPendingRow, FlaggedRow
<1>4. CASE CanStart(r) /\ s = StartedRow(r)
  <2>1. r.attempts + 1 \in Nat
    OBVIOUS
  <2>2. QED
    BY <1>4, <2>1 DEF StartedRow
<1>5. CASE Settles(r) /\ s = Settled(r, SucceededRow(r))
  BY <1>5 DEF Settles, Settled, CanFinish, CanCancelAfterRun,
              CancelledAfterRunRow, SucceededRow
<1>6. CASE Settles(r) /\ s = Settled(r, TimedOutRow(r))
  BY <1>6 DEF Settles, Settled, CanFinish, CanCancelAfterRun,
              CancelledAfterRunRow, TimedOutRow
<1>7. CASE Settles(r) /\ \E again \in BOOLEAN : s = Settled(r, FailedRow(r, again))
  <2>1. PICK again \in BOOLEAN : s = Settled(r, FailedRow(r, again))
    BY <1>7
  <2>2. FailedRow(r, again) \in Row /\ CancelledAfterRunRow(r) \in Row
    BY DEF FailedRow, CancelledAfterRunRow
  <2>3. QED
    BY <2>1, <2>2 DEF Settled
<1>8. CASE CanFailQueued(r) /\ s = FailedQueuedRow(r)
  BY <1>8 DEF CanFailQueued, FailedQueuedRow
<1>9. CASE CanRequeueDue(r) /\ s = RequeuedDueRow(r)
  BY <1>9 DEF CanRequeueDue, RequeuedDueRow
<1>10. CASE r.status = "retrying" /\ s = [r EXCEPT !.retryAt = "past"]
  BY <1>10
<1>11. CASE r.status = "running" /\ s = [r EXCEPT !.overdue = TRUE]
  BY <1>11
<1>12. QED
  BY <1>1, <1>2, <1>3, <1>4, <1>5, <1>6, <1>7, <1>8, <1>9, <1>10, <1>11 DEF Edge

\* An edge keeps the row invariant, and never lowers attempts.
LEMMA EdgeRowInv ==
    ASSUME NEW r \in Row, NEW s, Edge(r, s), RowInv(r)
    PROVE  RowInv(s) /\ s.attempts >= r.attempts
<1> USE DEF Row, RowInv
<1>1. CASE r.status = "absent" /\ s = QueuedRow
  BY <1>1 DEF QueuedRow, NoRow
<1>2. CASE CanRequeue(r) /\ s = RequeuedRow(r)
  BY <1>2 DEF CanRequeue, RequeuedRow
<1>3. CASE CanCancel(r) /\ s = CancelledRow(r)
  BY <1>3 DEF CanCancel, CanCancelPending, CanFinish, CancelledRow,
              CancelledPendingRow, FlaggedRow
<1>4. CASE CanStart(r) /\ s = StartedRow(r)
  BY <1>4 DEF CanStart, StartedRow
<1>5. CASE Settles(r) /\ s = Settled(r, SucceededRow(r))
  BY <1>5 DEF Settles, Settled, CanFinish, CanCancelAfterRun,
              CancelledAfterRunRow, SucceededRow
<1>6. CASE Settles(r) /\ s = Settled(r, TimedOutRow(r))
  BY <1>6 DEF Settles, Settled, CanFinish, CanCancelAfterRun,
              CancelledAfterRunRow, TimedOutRow
<1>7. CASE Settles(r) /\ \E again \in BOOLEAN : s = Settled(r, FailedRow(r, again))
  BY <1>7 DEF Settles, Settled, CanFinish, CanCancelAfterRun,
              CancelledAfterRunRow, FailedRow
<1>8. CASE CanFailQueued(r) /\ s = FailedQueuedRow(r)
  BY <1>8 DEF CanFailQueued, FailedQueuedRow
<1>9. CASE CanRequeueDue(r) /\ s = RequeuedDueRow(r)
  BY <1>9 DEF CanRequeueDue, RequeuedDueRow
<1>10. CASE r.status = "retrying" /\ s = [r EXCEPT !.retryAt = "past"]
  BY <1>10
<1>11. CASE r.status = "running" /\ s = [r EXCEPT !.overdue = TRUE]
  BY <1>11
<1>12. QED
  BY <1>1, <1>2, <1>3, <1>4, <1>5, <1>6, <1>7, <1>8, <1>9, <1>10, <1>11 DEF Edge
=============================================================================
