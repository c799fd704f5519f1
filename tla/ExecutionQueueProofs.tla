------------------------ MODULE ExecutionQueueProofs ------------------------
(***************************************************************************)
(* Proofs about ExecutionQueue, for any executions, workers and bounds.    *)
(*                                                                         *)
(* The argument is in two layers.  Edge (ExecutionRowProofs) lists how one *)
(* row may change; StepIsEdge shows that every step of the queue changes   *)
(* at most one row, along an edge.  What holds of single rows is then      *)
(* shown on edges, and only what relates rows to workers is shown action   *)
(* by action.                                                              *)
(***************************************************************************)
EXTENDS ExecutionQueue, ExecutionRowProofs

\* A step changes no row, or one row along an edge.
RowStep ==
    \/ rows' = rows
    \/ \E e \in Execs : \E s : /\ Edge(rows[e], s)
                               /\ rows' = [rows EXCEPT ![e] = s]

\* RowInv, of every row.
RowsInv == \A e \in Execs : RowInv(rows[e])

USE DEF Statuses, Pending, Retryable

\* Settling a row is an edge, or leaves the row alone (the 409 case).
LEMMA SettleIsEdge ==
    ASSUME TypeOK, NEW e \in Execs, NEW f,
           \/ f = SucceededRow(rows[e]) \/ f = TimedOutRow(rows[e])
           \/ \E again \in BOOLEAN : f = FailedRow(rows[e], again),
           rows' = [rows EXCEPT ![e] = Settled(@, f)]
    PROVE  RowStep
<1>1. CASE Settles(rows[e])
  BY <1>1 DEF RowStep, Edge
<1>2. CASE ~Settles(rows[e])
  <2>1. Settled(rows[e], f) = rows[e]
    BY <1>2 DEF Settles, Settled
  <2>2. QED
    BY <2>1 DEF TypeOK, RowsOK, RowStep
<1>3. QED
  BY <1>1, <1>2

\* Every step of the queue changes at most one row, along an edge.
LEMMA StepIsEdge ==
    ASSUME TypeOK, [Next]_vars
    PROVE  RowStep
<1>1. CASE UNCHANGED vars
  BY <1>1 DEF vars, RowStep
<1>2. ASSUME NEW w \in Workers, WorkerStep(w)
      PROVE  RowStep
  <2>1. CASE BeginSweep(w) \/ EndRetries(w) \/ EndQueued(w) \/ EndSweep(w)
    <3>1. ListRetries(w) \/ ListQueued(w) \/ ListStuck(w) => rows' = rows
      BY DEF ListRetries, ListQueued, ListStuck
    <3>2. EndSweep(w) => rows' = rows
      BY DEF EndSweep
    <3>3. QED
      BY <2>1, <3>1, <3>2 DEF BeginSweep, EndRetries, EndQueued, RowStep
  <2>2. CASE Complete(w)
    BY <2>2, SettleIsEdge DEF Complete, Land, TypeOK, SweepsOK, Job
  <2>3. CASE Fail(w)
    <3> DEFINE r == rows[job[w].exec]
               again == job[w].seen < MaxAttempts
    <3>1. Land(w, FailedRow(r, again))
      BY <2>3 DEF Fail
    <3>2. \E b \in BOOLEAN : FailedRow(r, again) = FailedRow(r, b)
      <4>1. CASE again
        <5>1. again = TRUE
          BY <4>1
        <5>2. QED
          BY <5>1
      <4>2. CASE ~again
        <5>1. again = FALSE
          BY <4>2
        <5>2. QED
          BY <5>1
      <4>3. QED
        BY <4>1, <4>2
    <3>3. job[w].exec \in Execs
      BY <2>3 DEF Fail, TypeOK, SweepsOK, Job
    <3>4. QED
      BY <3>1, <3>2, <3>3, SettleIsEdge DEF Land
  <2>4. CASE HardTimeout(w)
    BY <2>4, SettleIsEdge DEF HardTimeout, Land, TypeOK, SweepsOK, Job
  <2>5. ASSUME NEW e \in Execs, RequeueDue(w, e) PROVE RowStep
    BY <2>5 DEF RequeueDue, RowStep, Edge
  <2>6. ASSUME NEW e \in Execs, FailQueued(w, e) PROVE RowStep
    BY <2>6 DEF FailQueued, RowStep, Edge
  <2>7. ASSUME NEW e \in Execs, Start(w, e) PROVE RowStep
    BY <2>7 DEF Start, RowStep, Edge
  <2>8. ASSUME NEW e \in Execs, SkipClaimed(w, e) PROVE RowStep
    BY <2>8 DEF SkipClaimed, RowStep
  <2>9. ASSUME NEW e \in Execs, Reap(w, e) PROVE RowStep
    BY <2>9, SettleIsEdge DEF Reap
  <2>10. CASE RefuseOutput(w)
    BY <2>10 DEF RefuseOutput, RowStep
  <2>11. QED
    BY <1>2, <2>1, <2>2, <2>3, <2>4, <2>5, <2>6, <2>7, <2>8, <2>9, <2>10 DEF WorkerStep
<1>3. ASSUME NEW w \in Workers, Fault(w)
      PROVE  RowStep
  BY <1>3 DEF Fault, Crash, PhaseFails, BlindSweep, ListQueued, ListStuck, RowStep
<1>4. ASSUME NEW e \in Execs,
             AdmitQueue(e) \/ InsertQueued(e) \/ Cancel(e) \/ Elapse(e)
      PROVE  RowStep
  BY <1>4 DEF AdmitQueue, InsertQueued, Cancel, Elapse, RetryDelayElapses,
              TimeoutElapses, RowStep, Edge, TypeOK, RowsOK
<1>5. ASSUME Pause \/ Resume \/ ToggleWorkflow
      PROVE  RowStep
  BY <1>5 DEF Pause, Resume, ToggleWorkflow, RowStep
<1>6. ASSUME NEW e \in Execs,
             \/ AdmitRetry(e) \/ FinishRetry(e)
             \/ ApiStart(e) \/ ApiComplete(e) \/ ApiFail(e)
      PROVE  RowStep
  BY <1>6 DEF AdmitRetry, FinishRetry, ApiStart, ApiComplete, ApiFail, RowStep,
              Edge, TypeOK, RowsOK
<1>7. QED
  BY <1>1, <1>2, <1>3, <1>4, <1>5, <1>6 DEF Next, Unattended, ByHand

-----------------------------------------------------------------------------
(* Type correctness.                                                       *)

\* No step takes the rows out of their type.
LEMMA RowsTypeStep ==
    ASSUME TypeOK, [Next]_vars
    PROVE  RowsOK'
<1>1. CASE rows' = rows
  BY <1>1 DEF TypeOK, RowsOK
<1>2. ASSUME NEW e \in Execs, NEW s, Edge(rows[e], s), rows' = [rows EXCEPT ![e] = s]
      PROVE  RowsOK'
  <2>1. s \in Row
    BY <1>2, EdgeType DEF TypeOK, RowsOK
  <2>2. QED
    BY <1>2, <2>1 DEF TypeOK, RowsOK
<1>3. QED
  BY <1>1, <1>2, StepIsEdge DEF RowStep

\* No step takes the API's variables out of their type.
LEMMA ApiTypeStep ==
    ASSUME TypeOK, [Next]_vars
    PROVE  ApiOK'
<1> USE DEF TypeOK, ApiOK
<1>1. CASE UNCHANGED vars
  BY <1>1 DEF vars, api
<1>2. ASSUME NEW w \in Workers, WorkerStep(w)
      PROVE  ApiOK'
  BY <1>2 DEF WorkerStep, BeginSweep, EndRetries, EndQueued, EndSweep, Complete,
              RefuseOutput, Fail, HardTimeout, RequeueDue, FailQueued, Start, SkipClaimed,
              Reap, Land, ListRetries, ListQueued, ListStuck, api
<1>3. ASSUME NEW w \in Workers, Fault(w)
      PROVE  ApiOK'
  BY <1>3 DEF Fault, Crash, PhaseFails, BlindSweep, ListQueued, ListStuck, api
<1>4. ASSUME NEW e \in Execs,
             \/ AdmitQueue(e) \/ InsertQueued(e) \/ Cancel(e) \/ Elapse(e)
             \/ AdmitRetry(e) \/ FinishRetry(e)
             \/ ApiStart(e) \/ ApiComplete(e) \/ ApiFail(e)
      PROVE  ApiOK'
  BY <1>4 DEF AdmitQueue, InsertQueued, Cancel, Elapse, RetryDelayElapses,
              TimeoutElapses, AdmitRetry, FinishRetry, ApiStart, ApiComplete,
              ApiFail, api
<1>5. ASSUME Pause \/ Resume \/ ToggleWorkflow
      PROVE  ApiOK'
  BY <1>5 DEF Pause, Resume, ToggleWorkflow
<1>6. QED
  BY <1>1, <1>2, <1>3, <1>4, <1>5 DEF Next, Unattended, ByHand

\* No step takes the workers' sweeps out of their type.
LEMMA SweepsTypeStep ==
    ASSUME TypeOK, [Next]_vars
    PROVE  SweepsOK'
<1> USE DEF TypeOK, SweepsOK, Phases
<1>1. CASE UNCHANGED <<phase, batch, snap, wfSeen, job>>
  BY <1>1
<1>2. ASSUME NEW w \in Workers, ListRetries(w), phase[w] # "running"
      PROVE  SweepsOK'
  BY <1>2 DEF ListRetries
<1>3. ASSUME NEW w \in Workers, ListQueued(w), phase[w] # "running"
      PROVE  SweepsOK'
  BY <1>3 DEF ListQueued, InStatus, ApiOK, RowsOK, Row
<1>4. ASSUME NEW w \in Workers, ListStuck(w)
      PROVE  SweepsOK'
  BY <1>4, ConstantsAssumption DEF ListStuck, NoSnap, NoJob, Job
<1>5. ASSUME NEW w \in Workers, WorkerStep(w)
      PROVE  SweepsOK'
  <2>1. CASE BeginSweep(w)
    BY <2>1, <1>2, <1>4 DEF BeginSweep
  <2>2. CASE EndRetries(w)
    BY <2>2, <1>3 DEF EndRetries
  <2>3. CASE EndQueued(w)
    BY <2>3, <1>4 DEF EndQueued
  <2>4. CASE EndSweep(w)
    BY <2>4 DEF EndSweep
  <2>5. ASSUME NEW f, Land(w, f), phase[w] = "running"
        PROVE  SweepsOK'
    BY <2>5, ConstantsAssumption DEF Land, NoJob, Job
  <2>6. CASE Complete(w) \/ Fail(w) \/ HardTimeout(w)
    <3>1. CASE Complete(w)
      BY <3>1, <2>5 DEF Complete
    <3>2. CASE Fail(w)
      BY <3>2, <2>5 DEF Fail
    <3>3. CASE HardTimeout(w)
      BY <3>3, <2>5 DEF HardTimeout
    <3>4. QED
      BY <2>6, <3>1, <3>2, <3>3
  <2>7. ASSUME NEW e \in Execs, Start(w, e)
        PROVE  SweepsOK'
    <3>1. /\ snap[w][e] + 1 \in Nat
          /\ rows[e].attempts + 1 \in Nat
      BY DEF RowsOK, Row
    <3>2. QED
      BY <2>7, <3>1, ConstantsAssumption DEF Start, Job
  <2>8. ASSUME NEW e \in Execs, NEW matched, Visit(w, e, matched),
               UNCHANGED <<phase, snap, wfSeen, job>>
        PROVE  SweepsOK'
    <3>1. PICK rest \in SUBSET batch[w] : batch' = [batch EXCEPT ![w] = rest]
      BY <2>8 DEF Visit
    <3>2. QED
      BY <2>8, <3>1
  <2>9. ASSUME NEW e \in Execs, RequeueDue(w, e)
         PROVE  SweepsOK'
    BY <2>9 DEF RequeueDue
  <2>10. ASSUME NEW e \in Execs, FailQueued(w, e)
         PROVE  SweepsOK'
    BY <2>10, <2>8 DEF FailQueued
  <2>11. ASSUME NEW e \in Execs, SkipClaimed(w, e)
         PROVE  SweepsOK'
    BY <2>11, <2>8 DEF SkipClaimed
  <2>12. ASSUME NEW e \in Execs, Reap(w, e)
         PROVE  SweepsOK'
    BY <2>12, <2>8 DEF Reap
  <2>13. CASE RefuseOutput(w)
    BY <2>13, ConstantsAssumption DEF RefuseOutput, NoJob, Job
  <2>14. QED
    BY <1>5, <2>1, <2>2, <2>3, <2>4, <2>6, <2>7, <2>9, <2>10, <2>11, <2>12, <2>13
       DEF WorkerStep
<1>6. ASSUME NEW w \in Workers, Fault(w)
      PROVE  SweepsOK'
  <2>1. CASE Crash(w)
    BY <2>1, ConstantsAssumption DEF Crash, NoSnap, NoJob, Job
  <2>2. CASE PhaseFails(w)
    BY <2>2, <1>3, <1>4 DEF PhaseFails
  <2>3. CASE BlindSweep(w)
    BY <2>3, <1>4 DEF BlindSweep
  <2>4. QED
    BY <1>6, <2>1, <2>2, <2>3 DEF Fault
<1>7. ASSUME NEW e \in Execs,
             \/ AdmitQueue(e) \/ InsertQueued(e) \/ Cancel(e) \/ Elapse(e)
             \/ AdmitRetry(e) \/ FinishRetry(e)
             \/ ApiStart(e) \/ ApiComplete(e) \/ ApiFail(e)
      PROVE  SweepsOK'
  BY <1>7, <1>1 DEF AdmitQueue, InsertQueued, Cancel, Elapse, RetryDelayElapses,
              TimeoutElapses, AdmitRetry, FinishRetry, ApiStart, ApiComplete,
              ApiFail, sweeps
<1>8. CASE Pause \/ Resume \/ ToggleWorkflow
  BY <1>8, <1>1 DEF Pause, Resume, ToggleWorkflow, sweeps
<1>9. CASE UNCHANGED vars
  BY <1>9, <1>1 DEF vars, sweeps
<1>10. QED
  BY <1>5, <1>6, <1>7, <1>8, <1>9 DEF Next, Unattended, ByHand

\* Every variable keeps its type, and a worker has a job exactly while it is
\* inside an adapter call.
THEOREM TypeCorrect == Spec => []TypeOK
<1>1. Init => TypeOK
  BY ConstantsAssumption DEF Init, TypeOK, RowsOK, ApiOK, SweepsOK, Row, NoRow,
     Phases, NoSnap, NoJob, Job
<1>2. TypeOK /\ [Next]_vars => TypeOK'
  BY RowsTypeStep, ApiTypeStep, SweepsTypeStep DEF TypeOK
<1>3. QED
  BY <1>1, <1>2, PTL DEF Spec

-----------------------------------------------------------------------------
(* Rows.                                                                   *)

\* What holds of every row by itself is kept by every step.
LEMMA RowsInvStep ==
    ASSUME TypeOK, RowsInv, [Next]_vars
    PROVE  /\ RowsInv'
           /\ \A e \in Execs : rows'[e].attempts >= rows[e].attempts
<1>1. \A e \in Execs : rows[e] \in Row /\ rows[e].attempts \in Nat
  BY DEF TypeOK, RowsOK, Row
<1>2. CASE rows' = rows
  BY <1>1, <1>2 DEF RowsInv
<1>3. ASSUME NEW e \in Execs, NEW s, Edge(rows[e], s), rows' = [rows EXCEPT ![e] = s]
      PROVE  /\ RowsInv'
             /\ \A f \in Execs : rows'[f].attempts >= rows[f].attempts
  <2>1. RowInv(s) /\ s.attempts >= rows[e].attempts
    BY <1>1, <1>3, EdgeRowInv DEF RowsInv
  <2>2. \A f \in Execs : rows'[f] = IF f = e THEN s ELSE rows[f]
    BY <1>3 DEF TypeOK, RowsOK
  <2>3. QED
    BY <1>1, <2>1, <2>2 DEF RowsInv
<1>4. QED
  BY <1>2, <1>3, StepIsEdge DEF RowStep

\* Type correctness and the row invariant, together an inductive invariant.
LEMMA RowsCorrect == Spec => [](TypeOK /\ RowsInv)
<1>1. Init => RowsInv
  BY DEF Init, RowsInv, RowInv, NoRow
<1>2. TypeOK /\ RowsInv /\ [Next]_vars => RowsInv'
  BY RowsInvStep
<1>3. QED
  BY <1>1, <1>2, TypeCorrect, PTL DEF Spec

\* mark_started and mark_cancelled_if_pending can always take a pending row,
\* and the retry sweep can always take a RETRYING one once its delay is over:
\* no sequence of API calls, worker steps and crashes strands a row.
THEOREM Drainable == Spec => []PendingRowsDrainable
<1>1. RowsInv => PendingRowsDrainable
  BY DEF RowsInv, RowInv, PendingRowsDrainable
<1>2. QED
  BY <1>1, RowsCorrect, PTL

-----------------------------------------------------------------------------
(* Workers.                                                                *)

\* Nobody enters an adapter call, or changes the job of one it is in.
NoNewRunner ==
    \A w \in Workers :
        phase'[w] = "running" => phase[w] = "running" /\ job'[w] = job[w]

\* Only Start puts a worker into an adapter call.
LEMMA OnlyStartRuns ==
    ASSUME TypeOK, [Next]_vars
    PROVE  NoNewRunner \/ \E w \in Workers, e \in Execs : Start(w, e)
<1> USE DEF NoNewRunner
<1>1. CASE UNCHANGED sweeps
  BY <1>1 DEF sweeps
<1>2. ASSUME NEW w \in Workers, NEW p \in Phases \ {"running"},
             phase' = [phase EXCEPT ![w] = p],
             \A v \in Workers \ {w} : job'[v] = job[v]
      PROVE  NoNewRunner
  BY <1>2 DEF TypeOK, SweepsOK
<1>3. ASSUME NEW w \in Workers, ListRetries(w) \/ ListQueued(w) \/ ListStuck(w)
      PROVE  NoNewRunner
  <2>1. CASE ListRetries(w)
    BY <2>1, <1>2 DEF ListRetries, Phases
  <2>2. CASE ListQueued(w)
    BY <2>2, <1>2 DEF ListQueued, Phases
  <2>3. CASE ListStuck(w)
    <3>1. \A v \in Workers \ {w} : job'[v] = job[v]
      BY <2>3 DEF ListStuck, TypeOK, SweepsOK
    <3>2. QED
      BY <2>3, <3>1, <1>2 DEF ListStuck, Phases
  <2>4. QED
    BY <1>3, <2>1, <2>2, <2>3
<1>4. ASSUME NEW w \in Workers, NEW f, Land(w, f)
      PROVE  NoNewRunner
  <2>1. \A v \in Workers \ {w} : job'[v] = job[v]
    BY <1>4 DEF Land, TypeOK, SweepsOK
  <2>2. QED
    BY <1>4, <2>1, <1>2 DEF Land, Phases
<1>5. ASSUME NEW w \in Workers, EndSweep(w)
      PROVE  NoNewRunner
  BY <1>5, <1>2 DEF EndSweep, Phases
<1>6. ASSUME NEW w \in Workers, NEW e \in Execs,
             RequeueDue(w, e) \/ FailQueued(w, e) \/ SkipClaimed(w, e) \/ Reap(w, e)
      PROVE  NoNewRunner
  BY <1>6 DEF RequeueDue, FailQueued, SkipClaimed, Reap
<1>7. ASSUME NEW w \in Workers, Fault(w)
      PROVE  NoNewRunner
  <2>1. CASE Crash(w)
    <3>1. \A v \in Workers \ {w} : job'[v] = job[v]
      BY <2>1 DEF Crash, TypeOK, SweepsOK
    <3>2. QED
      BY <2>1, <3>1, <1>2 DEF Crash, Phases
  <2>2. CASE PhaseFails(w)
    BY <2>2, <1>2, <1>3 DEF PhaseFails, Phases
  <2>3. CASE BlindSweep(w)
    BY <2>3, <1>3 DEF BlindSweep
  <2>4. QED
    BY <1>7, <2>1, <2>2, <2>3 DEF Fault
<1>8. ASSUME NEW w \in Workers, WorkerStep(w),
             ~ \E e \in Execs : Start(w, e)
      PROVE  NoNewRunner
  <2>1. CASE BeginSweep(w) \/ EndRetries(w) \/ EndQueued(w)
    BY <2>1, <1>3 DEF BeginSweep, EndRetries, EndQueued
  <2>2. CASE Complete(w)
    BY <2>2, <1>4 DEF Complete
  <2>3. CASE Fail(w)
    BY <2>3, <1>4 DEF Fail
  <2>4. CASE HardTimeout(w)
    BY <2>4, <1>4 DEF HardTimeout
  <2>5. CASE EndSweep(w)
    BY <2>5, <1>5
  <2>6. CASE \E e \in Execs : \/ RequeueDue(w, e) \/ FailQueued(w, e)
                              \/ SkipClaimed(w, e) \/ Reap(w, e)
    BY <2>6, <1>6
  <2>7. CASE RefuseOutput(w)
    <3>1. \A v \in Workers \ {w} : job'[v] = job[v]
      BY <2>7 DEF RefuseOutput, TypeOK, SweepsOK
    <3>2. QED
      BY <2>7, <3>1, <1>2 DEF RefuseOutput, Phases
  <2>8. QED
    BY <1>8, <2>1, <2>2, <2>3, <2>4, <2>5, <2>6, <2>7 DEF WorkerStep
<1>9. ASSUME NEW e \in Execs,
             \/ AdmitQueue(e) \/ InsertQueued(e) \/ Cancel(e) \/ Elapse(e)
             \/ AdmitRetry(e) \/ FinishRetry(e)
             \/ ApiStart(e) \/ ApiComplete(e) \/ ApiFail(e)
      PROVE  NoNewRunner
  BY <1>9, <1>1 DEF AdmitQueue, InsertQueued, Cancel, Elapse, RetryDelayElapses,
              TimeoutElapses, AdmitRetry, FinishRetry, ApiStart, ApiComplete,
              ApiFail, sweeps
<1>10. CASE Pause \/ Resume \/ ToggleWorkflow
  BY <1>10, <1>1 DEF Pause, Resume, ToggleWorkflow, sweeps
<1>11. CASE UNCHANGED vars
  BY <1>11, <1>1 DEF vars, sweeps
<1>12. QED
  BY <1>7, <1>8, <1>9, <1>10, <1>11 DEF Next, Unattended, ByHand

\* start() counts the attempt in the UPDATE that claims it, so the runs of two
\* workers never carry the same number.
LEMMA OneRunnerStep ==
    ASSUME TypeOK, RowsInv, [Next]_vars, OneRunnerPerAttempt
    PROVE  OneRunnerPerAttempt'
<1> USE DEF OneRunnerPerAttempt
<1>1. \A e \in Execs : /\ rows[e].attempts \in Nat /\ rows'[e].attempts \in Nat
                       /\ rows'[e].attempts >= rows[e].attempts
  BY RowsTypeStep, RowsInvStep DEF TypeOK, RowsOK, Row
<1>2. \A w \in Workers : phase[w] = "running" =>
          job[w].exec \in Execs /\ job[w].run \in Nat
  BY DEF TypeOK, SweepsOK, Job
<1>3. CASE NoNewRunner
  BY <1>1, <1>2, <1>3 DEF NoNewRunner
<1>4. ASSUME NEW w \in Workers, NEW e \in Execs, Start(w, e)
      PROVE  OneRunnerPerAttempt'
  <2>1. /\ phase'[w] = "running" /\ job'[w].exec = e
        /\ job'[w].run = rows[e].attempts + 1
        /\ rows'[e].attempts = rows[e].attempts + 1
    BY <1>4 DEF Start, StartedRow, TypeOK, RowsOK, SweepsOK, Row
  <2>2. \A v \in Workers \ {w} : phase'[v] = phase[v] /\ job'[v] = job[v]
    BY <1>4 DEF Start, TypeOK, SweepsOK
  <2>3. \A v \in Workers \ {w} : phase'[v] = "running" =>
            /\ job'[v].run \in 1..rows[job[v].exec].attempts
            /\ job'[v].run \in 1..rows'[job'[v].exec].attempts
    BY <1>1, <1>2, <2>2
  <2>4. job'[w].run \in 1..rows'[job'[w].exec].attempts
    BY <1>1, <2>1
  <2>5. \A v \in Workers \ {w} :
            phase'[v] = "running" /\ job'[v].exec = e => job'[v].run # job'[w].run
    BY <1>1, <2>1, <2>2, <2>3
  <2>6. \A u, v \in Workers \ {w} :
            /\ u # v /\ phase'[u] = "running" /\ phase'[v] = "running"
            /\ job'[u].exec = job'[v].exec
            => job'[u].run # job'[v].run
    BY <2>2
  <2>7. QED
    BY <2>1, <2>3, <2>4, <2>5, <2>6
<1>5. QED
  BY <1>3, <1>4, OnlyStartRuns

\* Two workers are never in the same attempt of an execution.
THEOREM OneRunner == Spec => []OneRunnerPerAttempt
<1>1. Init => OneRunnerPerAttempt
  BY DEF Init, OneRunnerPerAttempt
<1>2. TypeOK /\ RowsInv /\ OneRunnerPerAttempt /\ [Next]_vars => OneRunnerPerAttempt'
  BY OneRunnerStep
<1>3. QED
  BY <1>1, <1>2, RowsCorrect, PTL DEF Spec

-----------------------------------------------------------------------------
(* Workers left to themselves.                                             *)

\* The statuses no worker leaves.
Parked == {"succeeded", "failed", "cancelled", "timed_out"}

\* The inductive invariant: the row of an execution that a worker is in is
\* still RUNNING in that worker's attempt, or parked where only a retry by
\* hand would take it back to the queue.
HoldsRow(w) ==
    /\ rows[job[w].exec].status \in Parked \cup {"running"}
    /\ rows[job[w].exec].status = "running" =>
           job[w].run = rows[job[w].exec].attempts

RunnersInv ==
    /\ \A w \in Workers : phase[w] = "running" => HoldsRow(w)
    /\ SoleRunner

InRun(w, e) == phase[w] = "running" /\ job[w].exec = e

\* A change to the row of e that parks it, leaves it running in the same
\* attempt or finds nobody in e does not disturb the runners.
LEMMA RunnersKept ==
    ASSUME TypeOK, RunnersInv, NoNewRunner, NEW e \in Execs, NEW s,
           rows' = [rows EXCEPT ![e] = s],
           \/ s = rows[e]
           \/ s.status \in Parked
           \/ s.status = "running" /\ rows[e].status = "running"
              /\ s.attempts = rows[e].attempts
           \/ \A w \in Workers : ~InRun(w, e)'
    PROVE  RunnersInv'
<1> USE DEF RunnersInv, NoNewRunner, HoldsRow, Parked
<1>1. \A f \in Execs : rows'[f] = IF f = e THEN s ELSE rows[f]
  BY DEF TypeOK, RowsOK
<1>2. \A w \in Workers : phase'[w] = "running" => job[w].exec \in Execs
  BY DEF TypeOK, SweepsOK, Job
<1>3. ASSUME NEW w \in Workers, phase'[w] = "running"
      PROVE  HoldsRow(w)'
  <2>1. phase[w] = "running" /\ job'[w] = job[w] /\ HoldsRow(w)
    BY <1>3
  <2>2. CASE job[w].exec # e
    BY <1>1, <1>2, <1>3, <2>1, <2>2
  <2>3. CASE job[w].exec = e
    <3>1. rows'[job'[w].exec] = s
      BY <1>1, <2>1, <2>3
    <3>2. InRun(w, e)'
      BY <1>3, <2>1, <2>3 DEF InRun
    <3>3. QED
      BY <2>1, <2>3, <3>1, <3>2
  <2>4. QED
    BY <2>2, <2>3
<1>4. SoleRunner'
  BY DEF SoleRunner
<1>5. QED
  BY <1>3, <1>4

\* The outcome of one worker does not disturb the others.
LEMMA LandKeepsRunners ==
    ASSUME TypeOK, RunnersInv, NoNewRunner, NEW w \in Workers, NEW f,
           phase[w] = "running", Land(w, f)
    PROVE  RunnersInv'
<1>1. PICK e \in Execs : e = job[w].exec
  BY DEF TypeOK, SweepsOK, Job
<1>2. \A v \in Workers : ~InRun(v, e)'
  <2>1. phase'[w] = "queued"
    BY DEF Land, TypeOK, SweepsOK
  <2>2. \A v \in Workers \ {w} : phase'[v] = "running" => job'[v].exec # e
    BY <1>1 DEF NoNewRunner, RunnersInv, SoleRunner
  <2>3. QED
    BY <2>1, <2>2 DEF InRun
<1>3. rows' = [rows EXCEPT ![e] = Settled(rows[e], f)]
  BY <1>1 DEF Land
<1>4. QED
  BY <1>2, <1>3, RunnersKept

\* Nobody is in an execution that waits or is not there yet.
LEMMA WaitingIsFree ==
    ASSUME TypeOK, RunnersInv, NoNewRunner, NEW e \in Execs,
           rows[e].status \in {"absent", "queued", "retrying"}
    PROVE  \A w \in Workers : ~InRun(w, e) /\ ~InRun(w, e)'
BY DEF RunnersInv, HoldsRow, Parked, NoNewRunner, InRun

\* No step but those taken by hand disturbs the runners.
LEMMA RunnersStep ==
    ASSUME TypeOK, RunnersInv, [Unattended]_vars
    PROVE  RunnersInv'
<1>1. [Next]_vars
  BY DEF Next
<1>2. CASE NoNewRunner
  <2>1. ASSUME rows' = rows
        PROVE  RunnersInv'
    BY <1>2, <2>1 DEF NoNewRunner, RunnersInv, HoldsRow, SoleRunner
  <2>2. ASSUME NEW w \in Workers,
               \/ BeginSweep(w) \/ EndRetries(w) \/ EndQueued(w) \/ EndSweep(w)
               \/ RefuseOutput(w)
        PROVE  RunnersInv'
    BY <2>1, <2>2 DEF BeginSweep, EndRetries, EndQueued, EndSweep, RefuseOutput,
                      ListRetries, ListQueued, ListStuck
  <2>3. ASSUME NEW w \in Workers, Complete(w) \/ Fail(w) \/ HardTimeout(w)
        PROVE  RunnersInv'
    <3>1. CASE Complete(w)
      BY <1>2, <3>1, LandKeepsRunners DEF Complete
    <3>2. CASE Fail(w)
      BY <1>2, <3>2, LandKeepsRunners DEF Fail
    <3>3. CASE HardTimeout(w)
      BY <1>2, <3>3, LandKeepsRunners DEF HardTimeout
    <3>4. QED
      BY <2>3, <3>1, <3>2, <3>3
  <2>4. ASSUME NEW w \in Workers, NEW e \in Execs, RequeueDue(w, e)
        PROVE  RunnersInv'
    <3>1. CASE CanRequeueDue(rows[e])
      <4>1. \A v \in Workers : ~InRun(v, e)'
        BY <1>2, <3>1, WaitingIsFree DEF CanRequeueDue
      <4>2. QED
        BY <1>2, <2>4, <3>1, <4>1, RunnersKept DEF RequeueDue
    <3>2. CASE ~CanRequeueDue(rows[e])
      BY <2>1, <2>4, <3>2 DEF RequeueDue
    <3>3. QED
      BY <3>1, <3>2
  <2>5. ASSUME NEW w \in Workers, NEW e \in Execs, FailQueued(w, e)
        PROVE  RunnersInv'
    <3>1. CASE CanFailQueued(rows[e])
      <4>1. FailedQueuedRow(rows[e]).status \in Parked
        BY DEF FailedQueuedRow, Parked, TypeOK, RowsOK, Row
      <4>2. QED
        BY <1>2, <2>5, <3>1, <4>1, RunnersKept DEF FailQueued
    <3>2. CASE ~CanFailQueued(rows[e])
      BY <2>1, <2>5, <3>2 DEF FailQueued
    <3>3. QED
      BY <3>1, <3>2
  <2>6. ASSUME NEW w \in Workers, NEW e \in Execs, SkipClaimed(w, e)
        PROVE  RunnersInv'
    BY <2>1, <2>6 DEF SkipClaimed
  <2>7. ASSUME NEW w \in Workers, NEW e \in Execs, Reap(w, e)
        PROVE  RunnersInv'
    <3> DEFINE s == Settled(rows[e], TimedOutRow(rows[e]))
    <3>1. s = rows[e] \/ s.status \in Parked
      BY DEF Settled, TimedOutRow, CancelledAfterRunRow, Parked, TypeOK, RowsOK, Row
    <3>2. QED
      BY <1>2, <2>7, <3>1, RunnersKept DEF Reap
  <2>8. ASSUME NEW w \in Workers, NEW e \in Execs, Start(w, e)
        PROVE  RunnersInv'
    BY <1>2, <2>8, WaitingIsFree
       DEF Start, CanStart, NoNewRunner, TypeOK, SweepsOK, Phases
  <2>9. ASSUME NEW w \in Workers, Fault(w)
        PROVE  RunnersInv'
    BY <2>1, <2>9 DEF Fault, Crash, PhaseFails, BlindSweep, ListQueued, ListStuck
  <2>10. ASSUME NEW e \in Execs, AdmitQueue(e)
         PROVE  RunnersInv'
    BY <2>1, <2>10 DEF AdmitQueue
  <2>11. ASSUME NEW e \in Execs, InsertQueued(e)
         PROVE  RunnersInv'
    BY <1>2, <2>11, WaitingIsFree, RunnersKept DEF InsertQueued
  <2>12. ASSUME NEW e \in Execs, Cancel(e)
         PROVE  RunnersInv'
    <3> DEFINE s == CancelledRow(rows[e])
    <3>1. \/ s.status \in Parked
          \/ s.status = "running" /\ rows[e].status = "running"
             /\ s.attempts = rows[e].attempts
      BY <2>12 DEF Cancel, CanCancel, CanCancelPending, CanFinish, CancelledRow,
                   CancelledPendingRow, FlaggedRow, Parked, TypeOK, RowsOK, Row
    <3>2. QED
      BY <1>2, <2>12, <3>1, RunnersKept DEF Cancel
  <2>13. ASSUME NEW e \in Execs, RetryDelayElapses(e)
         PROVE  RunnersInv'
    BY <1>2, <2>13, WaitingIsFree, RunnersKept DEF RetryDelayElapses
  <2>14. ASSUME NEW e \in Execs, TimeoutElapses(e)
         PROVE  RunnersInv'
    <3> DEFINE s == [rows[e] EXCEPT !.overdue = TRUE]
    <3>1. s.status = "running" /\ s.attempts = rows[e].attempts
      BY <2>14 DEF TimeoutElapses, TypeOK, RowsOK, Row
    <3>2. rows' = [rows EXCEPT ![e] = s] /\ rows[e].status = "running"
      BY <2>14 DEF TimeoutElapses
    <3>3. QED
      BY <1>2, <3>1, <3>2, RunnersKept
  <2>15. ASSUME Pause \/ Resume \/ ToggleWorkflow
         PROVE  RunnersInv'
    BY <2>1, <2>15 DEF Pause, Resume, ToggleWorkflow
  <2>16. CASE UNCHANGED vars
    BY <2>1, <2>16 DEF vars
  <2>17. ASSUME NEW w \in Workers, WorkerStep(w)
         PROVE  RunnersInv'
    BY <2>17, <2>2, <2>3, <2>4, <2>5, <2>6, <2>7, <2>8 DEF WorkerStep
  <2>18. QED
    BY <2>9, <2>10, <2>11, <2>12, <2>13, <2>14, <2>15, <2>16, <2>17
       DEF Unattended, Elapse
<1>3. ASSUME NEW w \in Workers, NEW e \in Execs, Start(w, e)
      PROVE  RunnersInv'
  <2>1. /\ phase'[w] = "running" /\ job'[w].exec = e
        /\ job'[w].run = rows'[e].attempts
        /\ rows'[e].status = "running" /\ rows[e].status = "queued"
    BY <1>3 DEF Start, CanStart, StartedRow, TypeOK, RowsOK, SweepsOK, Row
  <2>2. \A v \in Workers \ {w} : phase'[v] = phase[v] /\ job'[v] = job[v]
    BY <1>3 DEF Start, TypeOK, SweepsOK
  <2>3. \A v \in Workers : phase[v] = "running" =>
            job[v].exec \in Execs /\ job[v].exec # e
    BY <2>1 DEF RunnersInv, HoldsRow, Parked, TypeOK, SweepsOK, Job
  <2>4. \A f \in Execs \ {e} : rows'[f] = rows[f]
    BY <1>3 DEF Start, TypeOK, RowsOK
  <2>5. \A v \in Workers : phase'[v] = "running" => HoldsRow(v)'
    <3>1. HoldsRow(w)'
      BY <2>1 DEF HoldsRow
    <3>2. ASSUME NEW v \in Workers \ {w}, phase'[v] = "running"
          PROVE  HoldsRow(v)'
      BY <3>2, <2>2, <2>3, <2>4 DEF RunnersInv, HoldsRow
    <3>3. QED
      BY <3>1, <3>2
  <2>6. SoleRunner'
    BY <2>1, <2>2, <2>3 DEF RunnersInv, SoleRunner
  <2>7. QED
    BY <2>5, <2>6 DEF RunnersInv
<1>4. QED
  BY <1>1, <1>2, <1>3, OnlyStartRuns

\* As long as nobody retries or settles an execution by hand, two workers are
\* never in the same execution, and a row found RUNNING is in the attempt of
\* the worker that finds it: through any crashes, cancels, pauses and reaps.
THEOREM UnattendedRunners == UnattendedSpec => [](SoleRunner /\ RunnerHoldsRow)
<1>1. UnattendedSpec => Spec
  <2>1. [Unattended]_vars => [Next]_vars
    BY DEF Next
  <2>2. QED
    BY <2>1, PTL DEF UnattendedSpec, Spec
<1>2. Init => RunnersInv
  BY DEF Init, RunnersInv, SoleRunner
<1>3. TypeOK /\ RunnersInv /\ [Unattended]_vars => RunnersInv'
  BY RunnersStep
<1>4. RunnersInv => SoleRunner /\ RunnerHoldsRow
  BY DEF RunnersInv, HoldsRow, RunnerHoldsRow
<1>5. QED
  BY <1>1, <1>2, <1>3, <1>4, TypeCorrect, PTL DEF UnattendedSpec

\* The worker's half of it: a row that is RUNNING in the attempt a worker has
\* started is that worker's to settle.
THEOREM RunnersHoldRows == UnattendedSpec => []RunnerHoldsRow
  BY UnattendedRunners, PTL

-----------------------------------------------------------------------------
(* One worker, left to itself.                                             *)

\* What everything but a start does to a row: it counts no attempt, and a row
\* found RUNNING was so before, and no less overdue.
SameAttempt(r, s) ==
    /\ s.attempts = r.attempts
    /\ s.status = "running" => r.status = "running" /\ (r.overdue => s.overdue)

\* A worker is about to report a failure of e with attempts left.
MayRetry(w, e) ==
    phase[w] = "running" /\ job[w].exec = e /\ job[w].seen < MaxAttempts

\* A worker is about to time e out, after waiting for it or when reaping.
MayTimeOut(w, e) ==
    \/ /\ phase[w] = "running" /\ job[w].exec = e
       /\ job[w].run = rows[e].attempts => rows[e].overdue
    \/ phase[w] = "timeouts" /\ e \in batch[w]

\* What an unattended step that does not start e does to its row r.
QuietChange(e, r, s) ==
    /\ SameAttempt(r, s)
    /\ s.status = "retrying" => r.status = "retrying" \/ \E w \in Workers : MayRetry(w, e)
    /\ s.status = "timed_out" => r.status = "timed_out" \/ \E w \in Workers : MayTimeOut(w, e)

\* An outcome that a worker brings home, or a reaper decides.
LEMMA SettledQuietly ==
    ASSUME NEW r \in Row, NEW f \in Row, f.attempts = r.attempts,
           f.status \in {"succeeded", "failed", "timed_out", "retrying"}
    PROVE  /\ SameAttempt(r, Settled(r, f))
           /\ Settled(r, f).status \in {r.status, "cancelled", f.status}
  BY DEF SameAttempt, Settled, CancelledAfterRunRow, Row

\* Without a start, every row changes quietly.
LEMMA QuietRows ==
    ASSUME TypeOK, RowsInv, [Unattended]_vars, NEW e \in Execs
    PROVE  \/ \E w \in Workers : Start(w, e)
           \/ QuietChange(e, rows[e], rows'[e])
<1> DEFINE r == rows[e]
           Goal == QuietChange(e, r, rows'[e])
<1> USE DEF QuietChange
<1>0. r \in Row /\ RowInv(r)
  BY DEF TypeOK, RowsOK, RowsInv
<1>1. ASSUME rows'[e] = r
      PROVE  Goal
  BY <1>0, <1>1 DEF SameAttempt, Row
<1>2. ASSUME NEW d \in Execs, NEW s, rows' = [rows EXCEPT ![d] = s],
             d = e => /\ SameAttempt(r, s)
                      /\ s.status \in {"retrying", "timed_out"} => s.status = r.status
      PROVE  Goal
  <2>1. rows'[e] = IF d = e THEN s ELSE r
    BY <1>2 DEF TypeOK, RowsOK
  <2>2. CASE d # e
    BY <1>1, <2>1, <2>2
  <2>3. CASE d = e
    BY <1>2, <2>1, <2>3
  <2> QED
    BY <2>2, <2>3
<1>3. ASSUME NEW w \in Workers, WorkerStep(w), ~ \E d \in Execs : Start(w, d)
      PROVE  Goal
  <2>1. CASE \/ BeginSweep(w) \/ EndRetries(w) \/ EndQueued(w) \/ EndSweep(w)
             \/ RefuseOutput(w)
    BY <1>1, <2>1 DEF BeginSweep, EndRetries, EndQueued, EndSweep, RefuseOutput,
                      ListRetries, ListQueued, ListStuck
  <2>2. ASSUME NEW f, Land(w, f), job[w].exec = e, phase[w] = "running",
               f \in Row, f.attempts = r.attempts,
               f.status \in {"succeeded", "failed", "timed_out", "retrying"},
               f.status = "retrying" => MayRetry(w, e),
               f.status = "timed_out" => MayTimeOut(w, e)
        PROVE  Goal
    <3>1. rows'[e] = Settled(r, f)
      BY <2>2 DEF Land, TypeOK, RowsOK
    <3> QED
      BY <1>0, <2>2, <3>1, SettledQuietly
  <2>3. ASSUME NEW f, Land(w, f), job[w].exec # e
        PROVE  Goal
    <3>1. rows'[e] = r
      BY <2>3 DEF Land, TypeOK, RowsOK
    <3> QED
      BY <1>1, <3>1
  <2>4. CASE Complete(w)
    <3>1. SucceededRow(r) \in Row /\ SucceededRow(r).attempts = r.attempts
          /\ SucceededRow(r).status = "succeeded"
      BY <1>0 DEF SucceededRow, Row
    <3> QED
      BY <2>2, <2>3, <2>4, <3>1 DEF Complete
  <2>5. CASE Fail(w)
    <3> DEFINE again == job[w].seen < MaxAttempts
               f == FailedRow(r, again)
    <3>1. /\ f \in Row /\ f.attempts = r.attempts
          /\ f.status \in {"failed", "retrying"}
          /\ f.status = "retrying" => again
      BY <1>0 DEF FailedRow, Row
    <3>2. phase[w] = "running" /\ (job[w].exec = e => Land(w, f))
      BY <2>5 DEF Fail
    <3>3. CASE job[w].exec = e
      <4> HIDE DEF f
      <4>1. f.status = "retrying" => MayRetry(w, e)
        BY <3>1, <3>2, <3>3 DEF MayRetry
      <4>2. f.status # "timed_out" /\ f.status \in {"succeeded", "failed", "timed_out", "retrying"}
        BY <3>1
      <4> QED
        BY <2>2, <3>1, <3>2, <3>3, <4>1, <4>2
    <3>4. CASE job[w].exec # e
      BY <2>3, <2>5, <3>4 DEF Fail
    <3> QED
      BY <3>3, <3>4
  <2>6. CASE HardTimeout(w)
    <3>1. TimedOutRow(r) \in Row /\ TimedOutRow(r).attempts = r.attempts
          /\ TimedOutRow(r).status = "timed_out"
      BY <1>0 DEF TimedOutRow, Row
    <3>2. job[w].exec = e => MayTimeOut(w, e)
      BY <2>6 DEF HardTimeout, MayTimeOut
    <3> QED
      BY <2>2, <2>3, <2>6, <3>1, <3>2 DEF HardTimeout
  <2>7. ASSUME NEW d \in Execs, RequeueDue(w, d)
        PROVE  Goal
    BY <1>0, <1>1, <1>2, <2>7 DEF RequeueDue, RequeuedDueRow, SameAttempt, Row
  <2>8. ASSUME NEW d \in Execs, FailQueued(w, d)
        PROVE  Goal
    BY <1>0, <1>1, <1>2, <2>8 DEF FailQueued, FailedQueuedRow, SameAttempt, Row
  <2>9. ASSUME NEW d \in Execs, SkipClaimed(w, d)
        PROVE  Goal
    BY <1>1, <2>9 DEF SkipClaimed
  <2>10. ASSUME NEW d \in Execs, Reap(w, d)
         PROVE  Goal
    <3>1. TimedOutRow(r) \in Row /\ TimedOutRow(r).attempts = r.attempts
          /\ TimedOutRow(r).status = "timed_out"
      BY <1>0 DEF TimedOutRow, Row
    <3>2. CASE d = e
      <4>1. rows'[e] = Settled(r, TimedOutRow(r)) /\ MayTimeOut(w, e)
        BY <2>10, <3>2 DEF Reap, MayTimeOut, TypeOK, RowsOK
      <4> QED
        BY <1>0, <3>1, <4>1, SettledQuietly
    <3>3. CASE d # e
      BY <1>1, <2>10, <3>3 DEF Reap, TypeOK, RowsOK
    <3> QED
      BY <3>2, <3>3
  <2> QED
    BY <1>3, <2>1, <2>4, <2>5, <2>6, <2>7, <2>8, <2>9, <2>10 DEF WorkerStep
<1>4. ASSUME NEW w \in Workers, Fault(w)
      PROVE  Goal
  BY <1>1, <1>4 DEF Fault, Crash, PhaseFails, BlindSweep, ListQueued, ListStuck
<1>5. ASSUME NEW d \in Execs, AdmitQueue(d) \/ InsertQueued(d) \/ Cancel(d) \/ Elapse(d)
      PROVE  Goal
  <2>1. CASE AdmitQueue(d)
    BY <1>1, <2>1 DEF AdmitQueue
  <2>2. CASE InsertQueued(d)
    <3>1. d = e => SameAttempt(r, QueuedRow) /\ QueuedRow.status = "queued"
      BY <1>0, <2>2 DEF InsertQueued, QueuedRow, NoRow, SameAttempt, RowInv, Row
    <3> QED
      BY <1>2, <2>2, <3>1 DEF InsertQueued
  <2>3. CASE Cancel(d)
    <3>1. d = e => SameAttempt(r, CancelledRow(r))
                   /\ CancelledRow(r).status \in {"cancelled", r.status}
      BY <1>0 DEF CancelledRow, CancelledPendingRow, FlaggedRow, SameAttempt, Row
    <3> QED
      BY <1>2, <2>3, <3>1 DEF Cancel
  <2>4. CASE RetryDelayElapses(d)
    <3>1. d = e => SameAttempt(r, [r EXCEPT !.retryAt = "past"])
                   /\ [r EXCEPT !.retryAt = "past"].status = r.status
      BY <1>0 DEF SameAttempt, Row
    <3>2. rows' = [rows EXCEPT ![d] = [rows[d] EXCEPT !.retryAt = "past"]]
      BY <2>4 DEF RetryDelayElapses
    <3> QED
      BY <1>2, <3>1, <3>2
  <2>5. CASE TimeoutElapses(d)
    <3>1. d = e => SameAttempt(r, [r EXCEPT !.overdue = TRUE])
                   /\ [r EXCEPT !.overdue = TRUE].status = r.status
      BY <1>0 DEF SameAttempt, Row
    <3>2. rows' = [rows EXCEPT ![d] = [rows[d] EXCEPT !.overdue = TRUE]]
      BY <2>5 DEF TimeoutElapses
    <3> QED
      BY <1>2, <3>1, <3>2
  <2> QED
    BY <1>5, <2>1, <2>2, <2>3, <2>4, <2>5 DEF Elapse
<1>6. CASE Pause \/ Resume \/ ToggleWorkflow
  BY <1>1, <1>6 DEF Pause, Resume, ToggleWorkflow
<1>7. CASE UNCHANGED vars
  BY <1>1, <1>7 DEF vars
<1>8. ASSUME NEW w \in Workers, NEW d \in Execs, Start(w, d), d # e
      PROVE  Goal
  BY <1>1, <1>8 DEF Start, TypeOK, RowsOK
<1> QED
  BY <1>3, <1>4, <1>5, <1>6, <1>7, <1>8 DEF Unattended

\* What the phases of the only worker rely on: a row listed as queued has still
\* the attempts the session remembers, the worker's run is the attempt fail()
\* will compare, and a row listed as overdue is still in that run if in any.
AloneInv(w) ==
    /\ phase[w] \in {"queued", "running"} =>
           \A e \in batch[w] : snap[w][e] = rows[e].attempts
    /\ phase[w] = "running" => job[w].seen = job[w].run /\ job[w].exec \notin batch[w]
    /\ phase[w] = "timeouts" =>
           \A e \in batch[w] : rows[e].status = "running" => rows[e].overdue

\* The worker goes on with what it has listed, or with less.
LEMMA NarrowedBatch ==
    ASSUME TypeOK, NEW w \in Workers, AloneInv(w),
           \A e \in Execs : SameAttempt(rows[e], rows'[e]),
           batch'[w] \subseteq batch[w], snap'[w] = snap[w],
           \/ phase'[w] = phase[w] /\ job'[w] = job[w]
           \/ phase[w] = "running" /\ phase'[w] = "queued"
    PROVE  AloneInv(w)'
  BY DEF AloneInv, SameAttempt, TypeOK, SweepsOK

\* The worker lists rows, or rests.
LEMMA ListedBatch ==
    ASSUME TypeOK, NEW w \in Workers,
           \/ ListRetries(w) \/ ListQueued(w) \/ ListStuck(w)
           \/ rows' = rows /\ phase'[w] = "idle"
    PROVE  AloneInv(w)'
<1>1. CASE ListQueued(w)
  <2>1. PICK listed \in SUBSET Execs :
            /\ batch' = [batch EXCEPT ![w] = listed]
            /\ snap' = [snap EXCEPT ![w] =
                          [e \in Execs |-> IF e \in listed THEN rows[e].attempts ELSE 0]]
    BY <1>1 DEF ListQueued, InStatus
  <2>2. batch'[w] = listed /\ \A e \in listed : snap'[w][e] = rows[e].attempts
    BY <2>1 DEF TypeOK, SweepsOK
  <2>3. phase'[w] = "queued" /\ rows' = rows
    BY <1>1 DEF ListQueued, TypeOK, SweepsOK
  <2> QED
    BY <2>2, <2>3 DEF AloneInv
<1>2. CASE ListRetries(w) \/ ListStuck(w) \/ (rows' = rows /\ phase'[w] = "idle")
  BY <1>2 DEF ListRetries, ListStuck, AloneInv, TypeOK, SweepsOK
<1> QED
  BY <1>1, <1>2

\* The invariant of the only worker.
LEMMA AloneStep ==
    ASSUME NEW w, Workers = {w}, TypeOK, RowsInv, AloneInv(w), [Unattended]_vars
    PROVE  AloneInv(w)'
<1>1. ASSUME NEW e \in Execs, Start(w, e)
      PROVE  AloneInv(w)'
  <2>1. /\ phase'[w] = "running" /\ batch'[w] = batch[w] \ {e} /\ snap'[w] = snap[w]
        /\ job'[w] = [exec |-> e, seen |-> snap[w][e] + 1, run |-> rows[e].attempts + 1]
        /\ \A d \in batch[w] \ {e} : rows'[d] = rows[d]
    BY <1>1 DEF Start, TypeOK, RowsOK, SweepsOK
  <2>2. phase[w] = "queued" /\ e \in batch[w]
    BY <1>1 DEF Start
  <2> QED
    BY <2>1, <2>2 DEF AloneInv
<1>2. ASSUME ~ \E e \in Execs : Start(w, e)
      PROVE  AloneInv(w)'
  <2>0. \A e \in Execs : SameAttempt(rows[e], rows'[e])
    BY <1>2, QuietRows DEF QuietChange
  <2>1. CASE BeginSweep(w) \/ EndRetries(w) \/ EndQueued(w)
    BY <2>1, ListedBatch DEF BeginSweep, EndRetries, EndQueued
  <2>2. CASE EndSweep(w)
    BY <2>2, ListedBatch DEF EndSweep, TypeOK, SweepsOK
  <2>3. ASSUME NEW f, phase[w] = "running", Land(w, f)
        PROVE  AloneInv(w)'
    <3>1. batch'[w] \subseteq batch[w] /\ snap'[w] = snap[w] /\ phase'[w] = "queued"
      BY <2>3 DEF Land, TypeOK, SweepsOK
    <3> QED
      BY <2>0, <2>3, <3>1, NarrowedBatch
  <2>4. CASE Complete(w) \/ Fail(w) \/ HardTimeout(w)
    BY <2>3, <2>4 DEF Complete, Fail, HardTimeout
  <2>5. ASSUME NEW e \in Execs, \/ RequeueDue(w, e) \/ FailQueued(w, e)
                                \/ SkipClaimed(w, e) \/ Reap(w, e)
        PROVE  AloneInv(w)'
    <3>1. UNCHANGED <<phase, job, snap>>
      BY <2>5 DEF RequeueDue, FailQueued, SkipClaimed, Reap
    <3>2. batch'[w] \subseteq batch[w]
      BY <2>5 DEF RequeueDue, FailQueued, SkipClaimed, Reap, Visit, TypeOK, SweepsOK
    <3> QED
      BY <2>0, <3>1, <3>2, NarrowedBatch
  <2>6. CASE WorkerStep(w)
    <3>1. CASE RefuseOutput(w)
      <4>1. batch'[w] \subseteq batch[w] /\ snap'[w] = snap[w] /\ phase'[w] = "queued"
        BY <3>1 DEF RefuseOutput, TypeOK, SweepsOK
      <4> QED
        BY <2>0, <3>1, <4>1, NarrowedBatch DEF RefuseOutput
    <3> QED
      BY <1>2, <2>1, <2>2, <2>4, <2>5, <2>6, <3>1 DEF WorkerStep
  <2>7. CASE Fault(w)
    <3>1. CASE Crash(w)
      BY <3>1, ListedBatch DEF Crash, TypeOK, SweepsOK
    <3>2. CASE PhaseFails(w)
      BY <3>2, ListedBatch DEF PhaseFails, TypeOK, SweepsOK
    <3>3. CASE BlindSweep(w)
      BY <3>3, ListedBatch DEF BlindSweep
    <3> QED
      BY <2>7, <3>1, <3>2, <3>3 DEF Fault
  <2>8. ASSUME UNCHANGED sweeps
        PROVE  AloneInv(w)'
    BY <2>0, <2>8, NarrowedBatch DEF sweeps
  <2>9. ASSUME NEW e \in Execs,
               AdmitQueue(e) \/ InsertQueued(e) \/ Cancel(e) \/ Elapse(e)
        PROVE  AloneInv(w)'
    BY <2>8, <2>9 DEF AdmitQueue, InsertQueued, Cancel, Elapse, RetryDelayElapses,
                      TimeoutElapses, sweeps
  <2>10. CASE Pause \/ Resume \/ ToggleWorkflow \/ UNCHANGED vars
    BY <2>8, <2>10 DEF Pause, Resume, ToggleWorkflow, sweeps, vars
  <2> QED
    BY <2>6, <2>7, <2>9, <2>10 DEF Unattended
<1> QED
  BY <1>1, <1>2

\* What one worker alone never does.
LEMMA BudgetStep ==
    ASSUME NEW w, Workers = {w}, TypeOK, RowsInv, RunnersInv, AloneInv(w), [Unattended]_vars,
           RetryWithinBudget
    PROVE  /\ RetryWithinBudget'
           /\ \A e \in Execs : rows[e].status = "running" /\ rows'[e].status = "timed_out"
                                  => rows[e].overdue
<1> SUFFICES ASSUME NEW e \in Execs
             PROVE  /\ rows'[e].status = "retrying" => rows'[e].attempts < MaxAttempts
                    /\ rows[e].status = "running" /\ rows'[e].status = "timed_out"
                          => rows[e].overdue
  BY DEF RetryWithinBudget
<1>1. CASE Start(w, e)
  BY <1>1 DEF Start, StartedRow, TypeOK, RowsOK, Row
<1>2. CASE ~Start(w, e)
  <2>1. QuietChange(e, rows[e], rows'[e])
    BY <1>2, QuietRows
  <2>2. ASSUME rows'[e].status = "retrying", rows[e].status # "retrying"
        PROVE  rows'[e].attempts < MaxAttempts
    <3>1. MayRetry(w, e) /\ rows'[e].attempts = rows[e].attempts
      BY <2>1, <2>2 DEF QuietChange, SameAttempt
    <3>2. rows[e].status = "running"
      <4>1. rows[e].status \in Parked => rows'[e].status # "retrying"
        <5>1. \/ rows'[e] = rows[e]
              \/ Edge(rows[e], rows'[e])
          <6>1. [Next]_vars
            BY DEF Next
          <6> QED
            BY <6>1, StepIsEdge DEF RowStep, TypeOK, RowsOK
        <5>2. rows[e].status \in Parked => ~CanFinish(rows[e])
          BY DEF Parked, CanFinish
        <5> QED
          BY <5>1, <5>2 DEF Edge, Parked, QueuedRow, NoRow, CanRequeue, RequeuedRow, CanCancel,
             CanCancelPending, CancelledRow, CanStart, Settles, CanCancelAfterRun, CanFailQueued,
             CanRequeueDue, RequeuedDueRow, TypeOK, RowsOK, Row
      <4> QED
        BY <2>2, <3>1, <4>1 DEF MayRetry, RunnersInv, HoldsRow
    <3> QED
      BY <3>1, <3>2 DEF MayRetry, RunnersInv, HoldsRow, AloneInv
  <2>3. ASSUME rows[e].status = "running", rows'[e].status = "timed_out"
        PROVE  rows[e].overdue
    <3>1. MayTimeOut(w, e)
      BY <2>1, <2>3 DEF QuietChange
    <3> QED
      BY <2>3, <3>1 DEF MayTimeOut, RunnersInv, HoldsRow, AloneInv
  <2> QED
    BY <2>1, <2>2, <2>3 DEF QuietChange, SameAttempt, RetryWithinBudget
<1> QED
  BY <1>1, <1>2

\* What holds while one worker is alone: its invariant, and the budget.
LEMMA OneWorkerAlone ==
    ASSUME NEW CONSTANT w, Workers = {w}
    PROVE  UnattendedSpec => /\ [](TypeOK /\ RowsInv /\ RunnersInv /\ AloneInv(w))
                             /\ []RetryWithinBudget /\ TimedOutOnlyOverdue
<1>1. UnattendedSpec => Spec
  <2>1. [Unattended]_vars => [Next]_vars
    BY DEF Next
  <2> QED
    BY <2>1, PTL DEF UnattendedSpec, Spec
<1>2. Init => RunnersInv /\ AloneInv(w) /\ RetryWithinBudget
  BY DEF Init, RunnersInv, SoleRunner, AloneInv, RetryWithinBudget, NoRow
<1>3. TypeOK /\ RunnersInv /\ [Unattended]_vars => RunnersInv'
  BY RunnersStep
<1>4. TypeOK /\ RowsInv /\ AloneInv(w) /\ [Unattended]_vars => AloneInv(w)'
  BY AloneStep
<1> DEFINE Timed == \A e \in Execs :
                        rows[e].status = "running" /\ rows'[e].status = "timed_out"
                            => rows[e].overdue
<1>5. TypeOK /\ RowsInv /\ RunnersInv /\ AloneInv(w) /\ RetryWithinBudget /\ [Unattended]_vars
          => RetryWithinBudget' /\ Timed
  BY BudgetStep
<1>6. TypeOK /\ RowsInv /\ RunnersInv /\ AloneInv(w) /\ RetryWithinBudget /\ [Unattended]_vars
          => [Timed]_vars
  BY <1>5
<1> QED
  BY <1>1, <1>2, <1>3, <1>4, <1>5, <1>6, RowsCorrect, PTL DEF UnattendedSpec, TimedOutOnlyOverdue

\* fail() compares the attempts its session remembers, and with one worker those
\* are the row's: whatever is cancelled, paused, reaped or lost in a crash, the
\* budget of automatic retries is kept.
THEOREM RetriesWithinBudget ==
    ASSUME NEW CONSTANT w, Workers = {w}
    PROVE  UnattendedSpec => []RetryWithinBudget
  BY OneWorkerAlone

\* With one worker a run is timed out, by its own limit or by the reaper, only
\* when it is itself overdue.
THEOREM OverdueTimeouts ==
    ASSUME NEW CONSTANT w, Workers = {w}
    PROVE  UnattendedSpec => TimedOutOnlyOverdue
  BY OneWorkerAlone

-----------------------------------------------------------------------------
(* The queue implements the lifecycle.                                     *)

\* The steps of ExecutionLifecycle on one execution.
LifeEdge(a, b) ==
    \/ a.stage = "new" /\ b = [a EXCEPT !.stage = "waiting"]
    \/ a.stage = "waiting" /\ b = [a EXCEPT !.stage = "open", !.attempts = @ + 1]
    \/ a.stage = "waiting" /\ b = [a EXCEPT !.stage = "lost"]
    \/ a.stage = "open" /\ b = [a EXCEPT !.cancelling = TRUE]
    \/ a.stage = "open" /\ ~a.cancelling /\ b = [a EXCEPT !.stage = "won"]
    \/ a.stage = "open" /\ ~a.cancelling /\ b = [a EXCEPT !.stage = "waiting"]
    \/ a.stage = "open" /\ b = [a EXCEPT !.stage = "lost", !.cancelling = FALSE]
    \/ a.stage = "lost" /\ b = [a EXCEPT !.stage = "waiting"]

\* The life a of a row r, by the status of r.
LifeByStatus(r, a) ==
    /\ a \in Lifecycle!Life
    /\ a.attempts = r.attempts
    /\ r.status = "absent" => a.stage = "new"
    /\ r.status \in Pending => a.stage = "waiting"
    /\ r.status = "running" => a.stage = "open"
    /\ r.status = "succeeded" => a.stage = "won"
    /\ r.status \in Retryable => a.stage = "lost"
    /\ r.status = "running" => a.cancelling = r.cancel
    /\ r.status # "running" => a.cancelling = FALSE

\* What LifeOf makes of each status.
LEMMA LifeOfRow ==
    ASSUME NEW r \in Row
    PROVE  LifeByStatus(r, LifeOf(r))
<1> USE DEF Row, LifeOf, LifeByStatus, Lifecycle!Life, Lifecycle!Stages
<1>1. CASE r.status = "running"
  <2>1. (r.status = "running" /\ r.cancel) = r.cancel
    <3>1. CASE r.cancel = TRUE
      BY <1>1, <3>1
    <3>2. CASE r.cancel = FALSE
      BY <3>2
    <3>3. QED
      BY <3>1, <3>2
  <2>2. LifeOf(r) \in Lifecycle!Life
    BY <1>1, <2>1
  <2>3. QED
    BY <1>1, <2>1, <2>2
<1>2. CASE r.status # "running"
  <2>1. (r.status = "running" /\ r.cancel) = FALSE
    BY <1>2
  <2>2. LifeOf(r) \in Lifecycle!Life
    BY <1>2, <2>1
  <2>3. QED
    BY <1>2, <2>1, <2>2
<1>3. QED
  BY <1>1, <1>2

\* An edge of a row is a step of its life, or leaves its life as it is.
LEMMA EdgeLife ==
    ASSUME NEW r \in Row, NEW s, Edge(r, s), RowInv(r)
    PROVE  LifeOf(r) = LifeOf(s) \/ LifeEdge(LifeOf(r), LifeOf(s))
<1>0. /\ s \in Row /\ r.attempts \in Nat /\ r.cancel \in BOOLEAN
      /\ r.status = "absent" => r.attempts = 0
      /\ r.status # "running" /\ r.status # "cancelled" => r.cancel = FALSE
  BY EdgeType DEF Row, RowInv, NoRow
<1> SUFFICES ASSUME NEW a, NEW b, LifeByStatus(r, a), LifeByStatus(s, b)
             PROVE  a = b \/ LifeEdge(a, b)
  BY <1>0, LifeOfRow
<1> USE <1>0 DEF LifeByStatus, LifeEdge, Lifecycle!Life
<1>1. CASE r.status = "absent" /\ s = QueuedRow
  BY <1>1 DEF QueuedRow, NoRow
<1>2. CASE CanRequeue(r) /\ s = RequeuedRow(r)
  <2>1. r.status \in Retryable /\ s.status \in Pending /\ s.attempts = r.attempts
    BY <1>2 DEF CanRequeue, RequeuedRow, Row
  <2>2. QED
    BY <2>1
<1>3. CASE CanCancel(r) /\ s = CancelledRow(r)
  <2>1. CASE CanCancelPending(r)
    <3>1. r.status \in Pending /\ s.status \in Retryable /\ s.attempts = r.attempts
      BY <1>3, <2>1 DEF CanCancelPending, CancelledRow, CancelledPendingRow, Row
    <3>2. QED
      BY <3>1
  <2>2. CASE ~CanCancelPending(r)
    <3>1. /\ r.status = "running" /\ s.status = "running"
          /\ s.attempts = r.attempts /\ s.cancel = TRUE
      BY <1>3, <2>2 DEF CanCancel, CanFinish, CancelledRow, FlaggedRow, Row
    <3>2. QED
      BY <3>1
  <2>3. QED
    BY <2>1, <2>2
<1>4. CASE CanStart(r) /\ s = StartedRow(r)
  <2>1. /\ r.status \in Pending /\ s.status = "running"
        /\ s.attempts = r.attempts + 1 /\ s.cancel = FALSE
    BY <1>4 DEF CanStart, StartedRow, Row
  <2>2. b = [a EXCEPT !.stage = "open", !.attempts = @ + 1]
    BY <2>1
  <2>3. QED
    BY <2>1, <2>2
<1>5. CASE Settles(r) /\ \/ s = Settled(r, SucceededRow(r))
                         \/ s = Settled(r, TimedOutRow(r))
                         \/ \E again \in BOOLEAN : s = Settled(r, FailedRow(r, again))
  <2>1. CASE CanFinish(r)
    <3>1. /\ r.status = "running" /\ r.cancel = FALSE /\ s.attempts = r.attempts
          /\ s.status \in {"succeeded", "timed_out", "failed", "retrying"}
      BY <1>5, <2>1 DEF CanFinish, Settled, SucceededRow, TimedOutRow, FailedRow, Row
    <3>2. CASE s.status = "succeeded"
      BY <3>1, <3>2
    <3>3. CASE s.status = "retrying"
      BY <3>1, <3>3
    <3>4. CASE s.status \in {"timed_out", "failed"}
      <4>1. b = [a EXCEPT !.stage = "lost", !.cancelling = FALSE]
        BY <3>1, <3>4
      <4>2. QED
        BY <3>1, <4>1
    <3>5. QED
      BY <3>1, <3>2, <3>3, <3>4
  <2>2. CASE ~CanFinish(r)
    <3>1. /\ r.status = "running" /\ s.attempts = r.attempts /\ s.status \in Retryable
      BY <1>5, <2>2 DEF Settles, Settled, CanCancelAfterRun, CancelledAfterRunRow, Row
    <3>2. b = [a EXCEPT !.stage = "lost", !.cancelling = FALSE]
      BY <3>1
    <3>3. QED
      BY <3>1, <3>2
  <2>3. QED
    BY <2>1, <2>2
<1>6. CASE CanFailQueued(r) /\ s = FailedQueuedRow(r)
  <2>1. r.status \in Pending /\ s.status \in Retryable /\ s.attempts = r.attempts
    BY <1>6 DEF CanFailQueued, FailedQueuedRow, Row
  <2>2. QED
    BY <2>1
<1>7. CASE CanRequeueDue(r) /\ s = RequeuedDueRow(r)
  <2>1. r.status \in Pending /\ s.status \in Pending /\ s.attempts = r.attempts
    BY <1>7 DEF CanRequeueDue, RequeuedDueRow, Row
  <2>2. QED
    BY <2>1
<1>8. CASE r.status = "retrying" /\ s = [r EXCEPT !.retryAt = "past"]
  BY <1>8 DEF Row
<1>9. CASE r.status = "running" /\ s = [r EXCEPT !.overdue = TRUE]
  BY <1>9 DEF Row
<1>10. QED
  BY <1>1, <1>2, <1>3, <1>4, <1>5, <1>6, <1>7, <1>8, <1>9 DEF Edge

\* What the rows show of every execution.
LifeNow == [e \in Execs |-> LifeOf(rows[e])]

\* Every step of the queue is a step of ExecutionLifecycle or a stutter of it.
LEMMA StepIsLifecycleStep ==
    ASSUME TypeOK, RowsInv, [Next]_vars
    PROVE  Lifecycle!Next \/ LifeNow' = LifeNow
<1>1. CASE rows' = rows
  BY <1>1 DEF LifeNow
<1>2. ASSUME NEW e \in Execs, NEW s, Edge(rows[e], s), rows' = [rows EXCEPT ![e] = s]
      PROVE  Lifecycle!Next \/ LifeNow' = LifeNow
  <2> DEFINE a == LifeOf(rows[e])
             b == LifeOf(s)
  <2>1. a = b \/ LifeEdge(a, b)
    BY <1>2, EdgeLife DEF RowsInv, TypeOK, RowsOK
  <2>2. LifeNow' = [LifeNow EXCEPT ![e] = b] /\ LifeNow[e] = a
    BY <1>2 DEF LifeNow, TypeOK, RowsOK
  <2>3. CASE a = b
    BY <2>2, <2>3 DEF LifeNow
  <2>4. CASE LifeEdge(a, b)
    <3> HIDE DEF a, b
    <3>1. \/ Lifecycle!Submit(e) \/ Lifecycle!Open(e) \/ Lifecycle!Withdraw(e)
          \/ Lifecycle!AskCancel(e) \/ Lifecycle!Win(e) \/ Lifecycle!Again(e)
          \/ Lifecycle!Lose(e) \/ Lifecycle!Resubmit(e)
      BY <2>2, <2>4
         DEF LifeEdge, Lifecycle!Submit, Lifecycle!Open, Lifecycle!Withdraw,
             Lifecycle!AskCancel, Lifecycle!Win, Lifecycle!Again,
             Lifecycle!Lose, Lifecycle!Resubmit, LifeNow
    <3>2. QED
      BY <3>1 DEF Lifecycle!Next
  <2>5. QED
    BY <2>1, <2>3, <2>4
<1>3. QED
  BY <1>1, <1>2, StepIsEdge DEF RowStep

\* The queue, with its workers, snapshots, timers and crashes, implements the
\* lifecycle its callers rely on.
THEOREM QueueImplementsLifecycle == Spec => ImplementsLifecycle
<1>1. Init => Lifecycle!Init
  <2>1. NoRow \in Row /\ NoRow.status = "absent" /\ NoRow.attempts = 0
    BY DEF NoRow, Row
  <2>2. LifeOf(NoRow) = Lifecycle!Unborn
    BY <2>1, LifeOfRow DEF LifeByStatus, Lifecycle!Life, Lifecycle!Unborn
  <2>3. QED
    BY <2>2 DEF Init, Lifecycle!Init
<1>2. TypeOK /\ RowsInv /\ [Next]_vars => [Lifecycle!Next]_LifeNow
  BY StepIsLifecycleStep
<1>3. QED
  BY <1>1, <1>2, RowsCorrect, PTL DEF Spec, ImplementsLifecycle, Lifecycle!Spec, LifeNow
=============================================================================
