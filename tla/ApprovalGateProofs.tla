------------------------- MODULE ApprovalGateProofs -------------------------
(***************************************************************************)
(* Proofs about ApprovalGate, for any requests, executions, gate workers   *)
(* and bounds.                                                             *)
(***************************************************************************)
EXTENDS ApprovalGate, ExecutionRowProofs, SequenceTheorems, FiniteSetTheorems

USE DEF Statuses, Pending, Retryable

\* Only decided requests are listed, and so every listed verdict is one.
OrderDecided == \A i \in DOMAIN order : reqs[order[i]].status \in Verdicts

IInv == TypeOK /\ OrderDecided

-----------------------------------------------------------------------------
(* The executions.                                                         *)

\* Whoever moves an execution row moves it along an edge.
LEMMA ExecutionStepIsEdge ==
    ASSUME ExecutionOK, NEW e \in Execs, ExecutionStep(e)
    PROVE  \E s : Edge(rows[e], s) /\ rows' = [rows EXCEPT ![e] = s]
<1>1. CASE Start(e)
  BY <1>1 DEF Start, Becomes, Edge
<1>2. CASE Finish(e)
  BY <1>2 DEF Finish, Becomes, Edge
<1>3. CASE RetryDelayElapses(e)
  <2>1. Edge(rows[e], [rows[e] EXCEPT !.retryAt = "past"])
    BY <1>3 DEF RetryDelayElapses, Edge
  <2>2. rows' = [rows EXCEPT ![e] = [rows[e] EXCEPT !.retryAt = "past"]]
    BY <1>3 DEF RetryDelayElapses, ExecutionOK
  <2>3. QED
    BY <2>1, <2>2
<1>4. CASE RequeueDue(e)
  BY <1>4 DEF RequeueDue, Becomes, Edge
<1>5. CASE FailQueued(e)
  BY <1>5 DEF FailQueued, Becomes, Edge
<1>6. CASE CancelByHand(e)
  BY <1>6 DEF CancelByHand, Becomes, Edge
<1>7. CASE RetryByHand(e)
  BY <1>7 DEF RetryByHand, Requeues, Becomes, Edge
<1>8. QED
  BY <1>1, <1>2, <1>3, <1>4, <1>5, <1>6, <1>7 DEF ExecutionStep

-----------------------------------------------------------------------------
(* The list of unhandled gates.                                            *)

\* Without(r) lists requests, and only requests that were listed before.
LEMMA WithoutType ==
    ASSUME NEW r \in Requests, order \in Seq(Requests)
    PROVE  /\ Without(r) \in Seq(Requests)
           /\ \A j \in DOMAIN Without(r) :
                 \E i \in DOMAIN order : Without(r)[j] = order[i]
<1>1. CASE \E i \in DOMAIN order : order[i] = r
  <2> DEFINE k == CHOOSE i \in DOMAIN order : order[i] = r
             s == SubSeq(order, 1, k - 1)
             t == SubSeq(order, k + 1, Len(order))
  <2>1. k \in DOMAIN order
    BY <1>1
  <2>2. k \in 1..Len(order) /\ Without(r) = s \o t
    <3>1. Without(r) = RemoveAt(order, k)
      BY <1>1 DEF Without
    <3>2. QED
      BY <2>1, <3>1, LenProperties DEF RemoveAt
  <2> HIDE DEF k
  <2>3. /\ s \in Seq(Requests) /\ t \in Seq(Requests)
        /\ Len(s) = k - 1 /\ Len(t) = Len(order) - k
    BY <2>2, SubSeqProperties
  <2>4. \A j \in DOMAIN s : s[j] = order[j] /\ j \in DOMAIN order
    BY <2>2, <2>3, SubSeqProperties
  <2>5. \A j \in DOMAIN t : t[j] = order[k + j] /\ k + j \in DOMAIN order
    BY <2>2, <2>3, SubSeqProperties
  <2> HIDE DEF s, t
  <2>6. /\ s \o t \in Seq(Requests)
        /\ Len(s \o t) = Len(s) + Len(t)
        /\ DOMAIN (s \o t) = 1..(Len(s) + Len(t))
        /\ DOMAIN s = 1..Len(s) /\ DOMAIN t = 1..Len(t)
        /\ Len(s) \in Nat /\ Len(t) \in Nat
        /\ \A j \in 1..(Len(s) + Len(t)) :
               (s \o t)[j] = IF j <= Len(s) THEN s[j] ELSE t[j - Len(s)]
    <3>1. Len(s) \in Nat /\ Len(t) \in Nat
      BY <2>3, LenProperties
    <3>2. s \o t \in Seq(Requests) /\ Len(s \o t) = Len(s) + Len(t)
      BY <2>3, ConcatProperties
    <3>3. QED
      BY <2>3, <3>1, <3>2, ConcatProperties, LenProperties
  <2>7. \A j \in DOMAIN (s \o t) : \E i \in DOMAIN order : (s \o t)[j] = order[i]
    <3> SUFFICES ASSUME NEW j \in 1..(Len(s) + Len(t))
                 PROVE  \E i \in DOMAIN order : (s \o t)[j] = order[i]
      BY <2>6
    <3>1. CASE j <= Len(s)
      BY <3>1, <2>6, <2>4
    <3>2. CASE j > Len(s)
      <4>1. (s \o t)[j] = t[j - Len(s)] /\ j - Len(s) \in 1..Len(t)
        BY <3>2, <2>6
      <4>2. QED
        BY <4>1, <2>6, <2>5
    <3>3. QED
      BY <3>1, <3>2, <2>6
  <2>8. QED
    BY <2>2, <2>6, <2>7
<1>2. CASE ~\E i \in DOMAIN order : order[i] = r
  BY <1>2 DEF Without
<1>3. QED
  BY <1>1, <1>2

\* The same of Decided(r), which may list r itself.
LEMMA DecidedType ==
    ASSUME NEW r \in Requests, order \in Seq(Requests)
    PROVE  /\ Decided(r) \in Seq(Requests)
           /\ \A j \in DOMAIN Decided(r) :
                 \/ Decided(r)[j] = r
                 \/ \E i \in DOMAIN order : Decided(r)[j] = order[i]
<1>1. CASE reqs[r].handled
  BY <1>1 DEF Decided
<1>2. CASE ~reqs[r].handled
  <2>1. Decided(r) = Append(Without(r), r)
    BY <1>2 DEF Decided
  <2>2. /\ Append(Without(r), r) \in Seq(Requests)
        /\ Len(Append(Without(r), r)) = Len(Without(r)) + 1
        /\ \A j \in 1..Len(Without(r)) : Append(Without(r), r)[j] = Without(r)[j]
        /\ Append(Without(r), r)[Len(Without(r)) + 1] = r
    BY WithoutType, AppendProperties
  <2>3. QED
    BY <2>1, <2>2, WithoutType
<1>3. QED
  BY <1>1, <1>2

\* What a sweep lists are requests with their decisions.
LEMMA UnhandledType ==
    ASSUME RequestsOK, OrderDecided
    PROVE  /\ Unhandled \in Seq(Listed)
           /\ \A i \in 1..Len(Unhandled) :
                 Unhandled[i].verdict = reqs[Unhandled[i].req].status
<1>1. \A i \in 1..Len(order) :
        [req |-> order[i], verdict |-> reqs[order[i]].status] \in Listed
  BY DEF RequestsOK, OrderDecided, Listed
<1>2. Len(order) \in Nat
  BY DEF RequestsOK
<1>3. Unhandled \in Seq(Listed) /\ Len(Unhandled) = Len(order)
  BY <1>1, <1>2, IsASeq DEF Unhandled
<1>4. QED
  BY <1>3 DEF Unhandled

-----------------------------------------------------------------------------
(* The sweep of one gate worker.                                           *)

\* A worker that is in a sweep is at a listed request.
LEMMA GateListed ==
    ASSUME RequestsOK, SweepOK, NEW g \in Gates, at[g] # "idle"
    PROVE  /\ Gate(g) \in Listed /\ Len(todo[g]) \in Nat \ {0}
           /\ Gate(g).req \in Requests /\ Gate(g).verdict \in Verdicts
           /\ ExecOf(g) \in Execs
<1>1. todo[g] \in Seq(Listed) /\ todo[g] # <<>>
  BY DEF SweepOK
<1>2. Gate(g) \in Listed /\ Len(todo[g]) \in Nat \ {0}
  BY <1>1, HeadTailProperties, EmptySeq DEF Gate
<1>3. QED
  BY <1>2 DEF ExecOf, Listed, RequestsOK, Request

LEMMA AdvanceType ==
    ASSUME RequestsOK, SweepOK, NEW g \in Gates, at[g] # "idle", Advance(g)
    PROVE  SweepOK'
<1>1. /\ todo[g] \in Seq(Listed) /\ Tail(todo[g]) \in Seq(Listed)
      /\ Len(Tail(todo[g])) = Len(todo[g]) - 1 /\ Len(todo[g]) \in Nat \ {0}
  BY GateListed, HeadTailProperties, EmptySeq DEF SweepOK
<1>2. Tail(todo[g]) = <<>> <=> Len(todo[g]) = 1
  <2>1. Tail(todo[g]) = <<>> => Len(Tail(todo[g])) = 0
    BY EmptySeq
  <2>2. Tail(todo[g]) # <<>> => Len(Tail(todo[g])) \in Nat \ {0}
    BY <1>1, EmptySeq
  <2>3. QED
    BY <1>1, <2>1, <2>2
<1>3. at' \in [Gates -> Places] /\ seen' \in [Gates -> Statuses]
  BY DEF Advance, SweepOK, Places
<1>4. todo' \in [Gates -> Seq(Listed)]
  BY <1>1 DEF Advance, SweepOK
<1>5. \A h \in Gates : at'[h] = "idle" <=> todo'[h] = <<>>
  BY <1>2 DEF Advance, SweepOK
<1>6. QED
  BY <1>3, <1>4, <1>5 DEF SweepOK

LEMMA AbandonType ==
    ASSUME SweepOK, NEW g \in Gates, Abandon(g)
    PROVE  SweepOK'
<1>1. at' \in [Gates -> Places] /\ seen' \in [Gates -> Statuses]
  BY DEF Abandon, SweepOK, Places
<1>2. todo' \in [Gates -> Seq(Listed)]
  BY EmptySeq DEF Abandon, SweepOK
<1>3. \A h \in Gates : at'[h] = "idle" <=> todo'[h] = <<>>
  BY DEF Abandon, SweepOK
<1>4. QED
  BY <1>1, <1>2, <1>3 DEF SweepOK

\* A worker that goes on with the same gate keeps its batch.
LEMMA MoveType ==
    ASSUME SweepOK, NEW g \in Gates, NEW p \in Places \ {"idle"}, at[g] # "idle",
           at' = [at EXCEPT ![g] = p], UNCHANGED <<todo, seen>>
    PROVE  SweepOK'
BY DEF SweepOK

LEMMA StampType ==
    ASSUME IInv, NEW g \in Gates, at[g] # "idle", Stamp(g)
    PROVE  /\ RequestsOK' /\ OrderDecided' /\ SweepOK'
           /\ applied' \in [Requests -> Seq(Verdicts)]
<1> DEFINE r == Gate(g).req
<1>1. r \in Requests /\ Gate(g).verdict \in Verdicts
  BY GateListed DEF IInv, TypeOK
<1>2. SweepOK'
  BY AdvanceType DEF Stamp, IInv, TypeOK
<1>3. reqs' \in [Requests -> Request] /\ \A q \in Requests : reqs'[q].status = reqs[q].status
  BY <1>1 DEF Stamp, IInv, TypeOK, RequestsOK, Request
<1>4. order' = Without(r)
  BY DEF Stamp
<1>5. order' \in Seq(Requests)
  BY <1>1, <1>4, WithoutType DEF IInv, TypeOK, RequestsOK
<1>6. OrderDecided'
  <2> SUFFICES ASSUME NEW j \in DOMAIN Without(r)
               PROVE  reqs'[Without(r)[j]].status \in Verdicts
    BY <1>4 DEF OrderDecided
  <2>1. PICK i \in DOMAIN order : Without(r)[j] = order[i]
    BY <1>1, WithoutType DEF IInv, TypeOK, RequestsOK
  <2>2. order[i] \in Requests
    BY DEF IInv, TypeOK, RequestsOK
  <2>3. QED
    BY <2>1, <2>2, <1>3 DEF IInv, OrderDecided
<1>7. applied' \in [Requests -> Seq(Verdicts)]
  <2>1. applied[r] \in Seq(Verdicts)
    BY <1>1 DEF IInv, TypeOK, HistoryOK
  <2>2. Append(applied[r], Gate(g).verdict) \in Seq(Verdicts)
    BY <1>1, <2>1, AppendProperties
  <2>3. QED
    BY <1>1, <2>2 DEF Stamp, IInv, TypeOK, HistoryOK
<1>8. QED
  BY <1>2, <1>3, <1>5, <1>6, <1>7 DEF Stamp, IInv, TypeOK, RequestsOK

-----------------------------------------------------------------------------
(* Every step.                                                             *)

\* The gate workers, too, move execution rows only along edges.
LEMMA StepIsEdge ==
    ASSUME IInv, [Next]_vars
    PROVE  \/ rows' = rows
           \/ \E e \in Execs : \E s : /\ Edge(rows[e], s)
                                      /\ rows' = [rows EXCEPT ![e] = s]
<1>1. CASE UNCHANGED vars
  BY <1>1 DEF vars, execution
<1>2. ASSUME NEW e \in Execs, ExecutionStep(e)
      PROVE  \E s : Edge(rows[e], s) /\ rows' = [rows EXCEPT ![e] = s]
  BY <1>2, ExecutionStepIsEdge DEF IInv, TypeOK
<1>3. ASSUME NEW r \in Requests, RequestStep(r)
      PROVE  rows' = rows
  BY <1>3 DEF RequestStep, CreateRequest, ExpiryPasses, ExpireOnDecide,
              CheckDecision, execution
<1>4. ASSUME NEW d \in Decision, WriteDecision(d)
      PROVE  rows' = rows
  BY <1>4 DEF WriteDecision, execution
<1>5. ASSUME NEW g \in Gates, GateStep(g)
      PROVE  \/ rows' = rows
             \/ \E e \in Execs : \E s : /\ Edge(rows[e], s)
                                        /\ rows' = [rows EXCEPT ![e] = s]
  <2>1. CASE \/ BeginSweep(g) \/ ReadExecution(g) \/ Claim(g) \/ StampMoot(g)
             \/ CheckEnabled(g) \/ MissPending(g)
    BY <2>1 DEF BeginSweep, ReadExecution, Claim, StampMoot, CheckEnabled,
                MissPending, Abandon, execution
  <2>2. CASE Requeue(g)
    <3>1. CASE CanRequeue(rows[ExecOf(g)])
      <4>1. ExecOf(g) \in Execs
        BY <2>2, GateListed DEF Requeue, IInv, TypeOK
      <4>2. QED
        BY <2>2, <3>1, <4>1 DEF Requeue, Requeues, Becomes, Edge
    <3>2. CASE ~CanRequeue(rows[ExecOf(g)])
      BY <2>2, <3>2 DEF Requeue, Abandon, execution
    <3>3. QED
      BY <3>1, <3>2
  <2>3. CASE CancelPending(g)
    <3>1. ExecOf(g) \in Execs
      BY <2>3, GateListed DEF CancelPending, IInv, TypeOK
    <3>2. QED
      BY <2>3, <3>1 DEF CancelPending, Becomes, Edge, CanCancel, CancelledRow
  <2>4. CASE CancelRunning(g)
    <3>1. ExecOf(g) \in Execs
      BY <2>4, GateListed DEF CancelRunning, IInv, TypeOK
    <3>2. CASE CanFinish(rows[ExecOf(g)])
      <4>1. Edge(rows[ExecOf(g)], FlaggedRow(rows[ExecOf(g)]))
        BY <3>2 DEF Edge, CanCancel, CanFinish, CancelledRow, CanCancelPending
      <4>2. rows' = [rows EXCEPT ![ExecOf(g)] = FlaggedRow(rows[ExecOf(g)])]
        BY <2>4, <3>1, <3>2 DEF CancelRunning, IInv, TypeOK, ExecutionOK
      <4>3. QED
        BY <3>1, <4>1, <4>2
    <3>3. CASE ~CanFinish(rows[ExecOf(g)])
      BY <2>4, <3>3 DEF CancelRunning
    <3>4. QED
      BY <3>2, <3>3
  <2>5. QED
    BY <1>5, <2>1, <2>2, <2>3, <2>4 DEF GateStep
<1>6. ASSUME NEW g \in Gates, GateFails(g)
      PROVE  rows' = rows
  BY <1>6 DEF GateFails, Abandon, execution
<1>7. CASE ToggleAutomation
  BY <1>7 DEF ToggleAutomation
<1>8. QED
  BY <1>1, <1>2, <1>3, <1>4, <1>5, <1>6, <1>7 DEF Next

LEMMA ExecutionTypeStep ==
    ASSUME IInv, [Next]_vars
    PROVE  ExecutionOK'
<1> USE DEF IInv, TypeOK, ExecutionOK
<1>1. rows' \in [Execs -> Row]
  BY StepIsEdge, EdgeType
<1>2. /\ enabled' \in BOOLEAN
      /\ handRetries' \in {handRetries, handRetries + 1}
      /\ faults' \in {faults, faults + 1}
  <2>1. CASE UNCHANGED vars
    BY <2>1 DEF vars, execution
  <2>2. ASSUME NEW e \in Execs, ExecutionStep(e) PROVE  /\ enabled' \in BOOLEAN
             /\ handRetries' \in {handRetries, handRetries + 1}
             /\ faults' \in {faults, faults + 1}
    BY <2>2 DEF ExecutionStep, Start, Finish, RetryDelayElapses, RequeueDue,
                FailQueued, CancelByHand, RetryByHand
  <2>3. ASSUME NEW r \in Requests, RequestStep(r) PROVE  /\ enabled' \in BOOLEAN
             /\ handRetries' \in {handRetries, handRetries + 1}
             /\ faults' \in {faults, faults + 1}
    BY <2>3 DEF RequestStep, CreateRequest, ExpiryPasses, ExpireOnDecide,
                CheckDecision, execution
  <2>4. ASSUME NEW d \in Decision, WriteDecision(d) PROVE  /\ enabled' \in BOOLEAN
             /\ handRetries' \in {handRetries, handRetries + 1}
             /\ faults' \in {faults, faults + 1}
    BY <2>4 DEF WriteDecision, execution
  <2>5. ASSUME NEW g \in Gates, GateStep(g) PROVE  /\ enabled' \in BOOLEAN
             /\ handRetries' \in {handRetries, handRetries + 1}
             /\ faults' \in {faults, faults + 1}
    BY <2>5 DEF GateStep, BeginSweep, ReadExecution, Claim, StampMoot,
                CheckEnabled, Requeue, CancelPending, MissPending,
                CancelRunning, Abandon, execution
  <2>6. ASSUME NEW g \in Gates, GateFails(g) PROVE  /\ enabled' \in BOOLEAN
             /\ handRetries' \in {handRetries, handRetries + 1}
             /\ faults' \in {faults, faults + 1}
    BY <2>6 DEF GateFails, Abandon, execution
  <2>7. CASE ToggleAutomation
    BY <2>7 DEF ToggleAutomation
  <2>8. QED
    BY <2>1, <2>2, <2>3, <2>4, <2>5, <2>6, <2>7 DEF Next
<1>3. QED
  BY <1>1, <1>2

\* A decision written to r keeps the listed requests decided.
LEMMA DecidedKeepsOrder ==
    ASSUME RequestsOK, OrderDecided, NEW r \in Requests, NEW v \in Verdicts,
           reqs' = [reqs EXCEPT ![r].status = v], order' = Decided(r)
    PROVE  /\ reqs' \in [Requests -> Request] /\ order' \in Seq(Requests)
           /\ OrderDecided'
<1>1. reqs' \in [Requests -> Request]
  BY DEF RequestsOK, Request
<1>2. order' \in Seq(Requests)
  BY DecidedType DEF RequestsOK
<1>3. ASSUME NEW j \in DOMAIN Decided(r)
      PROVE  reqs'[Decided(r)[j]].status \in Verdicts
  <2>1. CASE Decided(r)[j] = r
    BY <2>1 DEF RequestsOK
  <2>2. CASE \E i \in DOMAIN order : Decided(r)[j] = order[i]
    <3>1. PICK i \in DOMAIN order : Decided(r)[j] = order[i]
      BY <2>2
    <3>2. order[i] \in Requests /\ reqs[order[i]].status \in Verdicts
      BY DEF RequestsOK, OrderDecided
    <3>3. QED
      BY <3>1, <3>2 DEF RequestsOK
  <2>3. QED
    BY <2>1, <2>2, DecidedType DEF RequestsOK
<1>4. QED
  BY <1>1, <1>2, <1>3 DEF OrderDecided

\* Moving a request that is not decided keeps the listed requests decided.
LEMMA OpenKeepsOrder ==
    ASSUME RequestsOK, OrderDecided, NEW r \in Requests, NEW v \in Open,
           reqs[r].status \notin Verdicts,
           reqs' = [reqs EXCEPT ![r].status = v], UNCHANGED <<order, deciding>>
    PROVE  RequestsOK' /\ OrderDecided'
<1>1. reqs' \in [Requests -> Request]
  BY DEF RequestsOK, Request
<1>2. ASSUME NEW i \in DOMAIN order
      PROVE  reqs'[order[i]].status \in Verdicts
  <2>1. order[i] \in Requests /\ order[i] # r
    BY DEF RequestsOK, OrderDecided
  <2>2. QED
    BY <2>1 DEF RequestsOK, OrderDecided
<1>3. QED
  BY <1>1, <1>2 DEF RequestsOK, OrderDecided

LEMMA RequestsTypeStep ==
    ASSUME IInv, [Next]_vars
    PROVE  RequestsOK' /\ OrderDecided'
<1>0. RequestsOK /\ OrderDecided /\ SweepOK
  BY DEF IInv, TypeOK
<1>1. ASSUME UNCHANGED requests
      PROVE  RequestsOK' /\ OrderDecided'
  BY <1>0, <1>1 DEF requests, RequestsOK, OrderDecided
<1>2. CASE UNCHANGED vars
  BY <1>1, <1>2 DEF vars
<1>3. ASSUME NEW e \in Execs, ExecutionStep(e)
      PROVE  RequestsOK' /\ OrderDecided'
  BY <1>1, <1>3 DEF ExecutionStep, Start, Finish, RetryDelayElapses, RequeueDue,
                    FailQueued, CancelByHand, RetryByHand
<1>4. ASSUME NEW r \in Requests, RequestStep(r)
      PROVE  RequestsOK' /\ OrderDecided'
  <2>1. CASE CreateRequest(r)
    BY <2>1, <1>0, OpenKeepsOrder DEF CreateRequest, Open, Verdicts
  <2>2. CASE ExpiryPasses(r)
    BY <2>2, <1>0, OpenKeepsOrder DEF ExpiryPasses, Open, Verdicts
  <2>3. CASE ExpireOnDecide(r)
    BY <2>3, <1>0, DecidedKeepsOrder DEF ExpireOnDecide, Verdicts, RequestsOK
  <2>4. CASE CheckDecision(r)
    BY <2>4, <1>0 DEF CheckDecision, RequestsOK, OrderDecided, Decision
  <2>5. QED
    BY <1>4, <2>1, <2>2, <2>3, <2>4 DEF RequestStep
<1>5. ASSUME NEW d \in Decision, WriteDecision(d)
      PROVE  RequestsOK' /\ OrderDecided'
  <2>1. d.req \in Requests /\ d.verdict \in Verdicts
    BY DEF Decision, Verdicts
  <2>2. QED
    BY <1>5, <2>1, <1>0, DecidedKeepsOrder DEF WriteDecision, RequestsOK
<1>6. ASSUME NEW g \in Gates, GateStep(g) \/ GateFails(g)
      PROVE  RequestsOK' /\ OrderDecided'
  <2>1. CASE UNCHANGED requests
    BY <1>1, <2>1
  <2>2. CASE Stamp(g) /\ at[g] # "idle"
    BY <2>2, StampType
  <2>3. CASE BeginSweep(g) \/ ReadExecution(g) \/ Claim(g) \/ CheckEnabled(g)
             \/ MissPending(g) \/ GateFails(g)
    BY <2>3, <2>1 DEF BeginSweep, ReadExecution, Claim, CheckEnabled,
                      MissPending, GateFails, Abandon
  <2>4. CASE StampMoot(g) \/ CancelPending(g) \/ CancelRunning(g)
    BY <2>4, <2>2 DEF StampMoot, CancelPending, CancelRunning
  <2>5. CASE Requeue(g)
    BY <2>5, <2>1, <2>2 DEF Requeue, Abandon
  <2>6. QED
    BY <1>6, <2>3, <2>4, <2>5 DEF GateStep
<1>7. CASE ToggleAutomation
  BY <1>1, <1>7 DEF ToggleAutomation
<1>8. QED
  BY <1>2, <1>3, <1>4, <1>5, <1>6, <1>7 DEF Next

LEMMA SweepTypeStep ==
    ASSUME IInv, [Next]_vars
    PROVE  SweepOK'
<1>0. RequestsOK /\ OrderDecided /\ SweepOK
  BY DEF IInv, TypeOK
<1>1. ASSUME UNCHANGED sweep
      PROVE  SweepOK'
  BY <1>0, <1>1 DEF sweep, SweepOK
<1>2. CASE UNCHANGED vars
  BY <1>1, <1>2 DEF vars
<1>3. ASSUME NEW e \in Execs, ExecutionStep(e)
      PROVE  SweepOK'
  BY <1>1, <1>3 DEF ExecutionStep, Start, Finish, RetryDelayElapses, RequeueDue,
                    FailQueued, CancelByHand, RetryByHand
<1>4. ASSUME NEW r \in Requests, RequestStep(r)
      PROVE  SweepOK'
  BY <1>1, <1>4 DEF RequestStep, CreateRequest, ExpiryPasses, ExpireOnDecide,
                    CheckDecision
<1>5. ASSUME NEW d \in Decision, WriteDecision(d)
      PROVE  SweepOK'
  BY <1>1, <1>5 DEF WriteDecision
<1>6. ASSUME NEW g \in Gates, GateStep(g) \/ GateFails(g)
      PROVE  SweepOK'
  <2>1. CASE BeginSweep(g)
    <3> DEFINE some == IF Len(Unhandled) > Limit THEN SubSeq(Unhandled, 1, Limit)
                       ELSE Unhandled
    <3>1. Unhandled \in Seq(Listed) /\ Unhandled # <<>>
      BY <2>1, <1>0, UnhandledType DEF BeginSweep
    <3>2. Limit \in Nat \ {0} /\ Len(Unhandled) \in Nat
      BY <3>1, GateAssumption, LenProperties
    <3>3. CASE Len(Unhandled) > Limit
      <4>1. \A i \in 1..Limit : Unhandled[i] \in Listed
        BY <3>1, <3>2, <3>3, ElementOfSeq
      <4>2. /\ SubSeq(Unhandled, 1, Limit) \in Seq(Listed)
            /\ Len(SubSeq(Unhandled, 1, Limit)) = Limit
        BY <3>1, <3>2, <3>3, SubSeqProperties
      <4>3. SubSeq(Unhandled, 1, Limit) # <<>>
        BY <4>2, <3>2, EmptySeq
      <4>4. QED
        BY <3>3, <4>2, <4>3, <2>1, <1>0 DEF BeginSweep, SweepOK, Places
    <3>4. CASE ~(Len(Unhandled) > Limit)
      BY <3>4, <3>1, <2>1, <1>0 DEF BeginSweep, SweepOK, Places
    <3>5. QED
      BY <3>3, <3>4
  <2>2. CASE ReadExecution(g)
    <3>1. ExecOf(g) \in Execs
      BY <2>2, <1>0, GateListed DEF ReadExecution
    <3>2. rows[ExecOf(g)].status \in Statuses
      BY <3>1 DEF IInv, TypeOK, ExecutionOK, Row
    <3>3. QED
      BY <3>2, <2>2, <1>0 DEF ReadExecution, SweepOK, Places
  <2>3. CASE Claim(g)
    BY <2>3, <1>0, AdvanceType, MoveType DEF Claim, Places
  <2>4. CASE Stamp(g) /\ at[g] # "idle"
    BY <2>4, StampType
  <2>5. CASE StampMoot(g) \/ CancelPending(g) \/ CancelRunning(g)
    BY <2>5, <2>4 DEF StampMoot, CancelPending, CancelRunning
  <2>6. CASE CheckEnabled(g)
    BY <2>6, <1>0, AbandonType, MoveType DEF CheckEnabled, Places
  <2>7. CASE Requeue(g)
    BY <2>7, <2>4, <1>0, AbandonType DEF Requeue
  <2>8. CASE MissPending(g)
    BY <2>8, <1>0, MoveType DEF MissPending, Places
  <2>9. CASE GateFails(g)
    BY <2>9, <1>0, AbandonType DEF GateFails
  <2>10. QED
    BY <1>6, <2>1, <2>2, <2>3, <2>5, <2>6, <2>7, <2>8, <2>9 DEF GateStep
<1>7. CASE ToggleAutomation
  BY <1>1, <1>7 DEF ToggleAutomation
<1>8. QED
  BY <1>2, <1>3, <1>4, <1>5, <1>6, <1>7 DEF Next

LEMMA HistoryTypeStep ==
    ASSUME IInv, [Next]_vars
    PROVE  HistoryOK'
<1>0. HistoryOK
  BY DEF IInv, TypeOK
<1>1. ASSUME UNCHANGED history
      PROVE  HistoryOK'
  BY <1>0, <1>1 DEF history, HistoryOK
<1>2. CASE UNCHANGED vars
  BY <1>1, <1>2 DEF vars
<1>3. ASSUME NEW e \in Execs, ExecutionStep(e)
      PROVE  HistoryOK'
  <2>1. CASE RetryByHand(e)
    BY <2>1, <1>0 DEF RetryByHand, Requeues, HistoryOK
  <2>2. CASE ~RetryByHand(e)
    BY <2>2, <1>1, <1>3 DEF ExecutionStep, Start, Finish, RetryDelayElapses,
                            RequeueDue, FailQueued, CancelByHand
  <2>3. QED
    BY <2>1, <2>2
<1>4. ASSUME NEW r \in Requests, RequestStep(r)
      PROVE  HistoryOK'
  BY <1>1, <1>4 DEF RequestStep, CreateRequest, ExpiryPasses, ExpireOnDecide,
                    CheckDecision
<1>5. ASSUME NEW d \in Decision, WriteDecision(d)
      PROVE  HistoryOK'
  BY <1>1, <1>5 DEF WriteDecision
<1>6. ASSUME NEW g \in Gates, GateStep(g) \/ GateFails(g)
      PROVE  HistoryOK'
  <2>1. ASSUME Stamp(g), at[g] # "idle",
               UNCHANGED halted \/ \E b \in BOOLEAN : halted' = [halted EXCEPT ![ExecOf(g)] = b]
        PROVE  HistoryOK'
    BY <2>1, <1>0, StampType DEF HistoryOK
  <2>2. CASE BeginSweep(g) \/ ReadExecution(g) \/ Claim(g) \/ CheckEnabled(g)
             \/ MissPending(g) \/ GateFails(g)
    BY <2>2, <1>1 DEF BeginSweep, ReadExecution, Claim, CheckEnabled,
                      MissPending, GateFails, Abandon
  <2>3. CASE StampMoot(g)
    BY <2>3, <2>1 DEF StampMoot
  <2>4. CASE CancelPending(g) \/ CancelRunning(g)
    BY <2>4, <2>1 DEF CancelPending, CancelRunning, Halts
  <2>5. CASE Requeue(g)
    BY <2>5, <2>1, <1>1 DEF Requeue, Requeues, Abandon
  <2>6. QED
    BY <1>6, <2>2, <2>3, <2>4, <2>5 DEF GateStep
<1>7. CASE ToggleAutomation
  BY <1>1, <1>7 DEF ToggleAutomation
<1>8. QED
  BY <1>2, <1>3, <1>4, <1>5, <1>6, <1>7 DEF Next

LEMMA InitIInv == Init => IInv
<1> SUFFICES ASSUME Init PROVE IInv
  OBVIOUS
<1>1. ExecutionOK
  BY DEF Init, ExecutionOK, Row, QueuedRow, NoRow
<1>2. RequestsOK /\ OrderDecided
  <2>1. \A r \in Requests : reqs[r] \in Request
    <3> TAKE r \in Requests
    <3>1. PICK e \in Execs : reqs[r] = [status |-> "none", exec |-> e, handled |-> FALSE]
      BY DEF Init
    <3>2. QED
      BY <3>1 DEF Request
  <2>2. reqs \in [Requests -> Request]
    BY <2>1 DEF Init
  <2>3. order \in Seq(Requests) /\ DOMAIN order = {}
    BY EmptySeq, LenProperties DEF Init
  <2>4. QED
    BY <2>2, <2>3 DEF Init, RequestsOK, OrderDecided
<1>3. SweepOK
  BY EmptySeq DEF Init, SweepOK, Places
<1>4. HistoryOK
  BY EmptySeq DEF Init, HistoryOK
<1>5. QED
  BY <1>1, <1>2, <1>3, <1>4 DEF IInv, TypeOK

LEMMA IInvStep == IInv /\ [Next]_vars => IInv'
BY ExecutionTypeStep, RequestsTypeStep, SweepTypeStep, HistoryTypeStep DEF IInv, TypeOK

\* Every variable keeps its type: in particular a gate worker is in a sweep
\* exactly while it has listed gates left, and what it has listed is decided.
THEOREM GateTypeCorrect == Spec => []TypeOK
<1>1. IInv => TypeOK
  BY DEF IInv
<1>2. QED
  BY InitIInv, IInvStep, <1>1, PTL DEF Spec

-----------------------------------------------------------------------------
(* A decision is applied once.                                             *)

\* The row lock, and what it guards: two workers never hold the same
\* request, and a request that is held has no stamp.
LockInv ==
    \A g \in Gates :
        at[g] \in Claiming =>
            /\ ~reqs[Gate(g).req].handled
            /\ \A h \in Gates :
                  h # g /\ at[h] \in Claiming => Gate(h).req # Gate(g).req

\* What a step can do to sweeps and stamps.
NoStamp == /\ applied' = applied
           /\ \A r \in Requests : reqs'[r].handled = reqs[r].handled

OthersStay(g) == \A h \in Gates \ {g} : at'[h] = at[h] /\ todo'[h] = todo[h]

Leaves(g) == NoStamp /\ OthersStay(g) /\ at'[g] \notin Claiming

GoesOn(g) ==
    /\ NoStamp /\ OthersStay(g)
    /\ at[g] \in Claiming /\ todo'[g] = todo[g]

Claims(g) ==
    /\ NoStamp /\ OthersStay(g)
    /\ at[g] # "idle" /\ todo'[g] = todo[g]
    /\ ~Locked(Gate(g).req) /\ ~reqs[Gate(g).req].handled

Stamps(g) == at[g] \in Claiming /\ Stamp(g)

LEMMA StepKinds ==
    ASSUME IInv, [Next]_vars
    PROVE  \/ NoStamp /\ UNCHANGED <<at, todo>>
           \/ \E g \in Gates : Leaves(g) \/ GoesOn(g) \/ Claims(g) \/ Stamps(g)
<1>0. RequestsOK /\ SweepOK
  BY DEF IInv, TypeOK
<1>1. CASE UNCHANGED vars
  BY <1>1 DEF vars, NoStamp, requests, history, sweep
<1>2. ASSUME NEW e \in Execs, ExecutionStep(e)
      PROVE  NoStamp /\ UNCHANGED <<at, todo>>
  BY <1>2 DEF ExecutionStep, Start, Finish, RetryDelayElapses, RequeueDue,
              FailQueued, CancelByHand, RetryByHand, NoStamp, requests, history, sweep
<1>3. ASSUME NEW r \in Requests, RequestStep(r)
      PROVE  NoStamp /\ UNCHANGED <<at, todo>>
  BY <1>3, <1>0 DEF RequestStep, CreateRequest, ExpiryPasses, ExpireOnDecide,
              CheckDecision, NoStamp, history, sweep, RequestsOK, Request
<1>4. ASSUME NEW d \in Decision, WriteDecision(d)
      PROVE  NoStamp /\ UNCHANGED <<at, todo>>
  BY <1>4, <1>0 DEF WriteDecision, NoStamp, history, sweep, RequestsOK, Request, Decision
<1>5. ASSUME NEW g \in Gates, GateStep(g) \/ GateFails(g)
      PROVE  Leaves(g) \/ GoesOn(g) \/ Claims(g) \/ Stamps(g)
  <2> USE <1>0 DEF SweepOK, NoStamp, OthersStay
  <2>1. ASSUME Abandon(g) PROVE Leaves(g)
    BY <2>1 DEF Abandon, Leaves, Claiming, requests, history
  <2>2. CASE BeginSweep(g) \/ ReadExecution(g)
    BY <2>2 DEF BeginSweep, ReadExecution, Leaves, Claiming, requests, history
  <2>3. CASE Claim(g)
    <3>1. CASE reqs[Gate(g).req].handled
      BY <2>3, <3>1 DEF Claim, Advance, Leaves, Claiming, requests, history
    <3>2. CASE ~reqs[Gate(g).req].handled
      BY <2>3, <3>2 DEF Claim, Claims, requests, history
    <3>3. QED
      BY <3>1, <3>2
  <2>4. CASE StampMoot(g) \/ CancelPending(g) \/ CancelRunning(g)
    BY <2>4 DEF StampMoot, CancelPending, CancelRunning, Stamps, Claiming
  <2>5. CASE CheckEnabled(g) \/ MissPending(g)
    BY <2>5, <2>1 DEF CheckEnabled, MissPending, GoesOn, Claiming, requests, history
  <2>6. CASE Requeue(g)
    BY <2>6, <2>1 DEF Requeue, Stamps, Claiming
  <2>7. CASE GateFails(g)
    BY <2>7, <2>1 DEF GateFails
  <2>8. QED
    BY <1>5, <2>2, <2>3, <2>4, <2>5, <2>6, <2>7 DEF GateStep
<1>6. CASE ToggleAutomation
  BY <1>6 DEF ToggleAutomation, NoStamp, requests, history, sweep
<1>7. QED
  BY <1>1, <1>2, <1>3, <1>4, <1>5, <1>6 DEF Next

LEMMA LockStep ==
    ASSUME IInv, LockInv, [Next]_vars
    PROVE  LockInv'
<1>0. SweepOK /\ RequestsOK
  BY DEF IInv, TypeOK
<1> USE DEF LockInv, Gate
<1>1. CASE NoStamp /\ UNCHANGED <<at, todo>>
  <2>1. \A g \in Gates : at[g] \in Claiming => Gate(g).req \in Requests
    BY <1>0, GateListed DEF Claiming
  <2>2. QED
    BY <1>1, <2>1 DEF NoStamp
<1>2. ASSUME NEW g \in Gates, Leaves(g) \/ GoesOn(g) \/ Claims(g) \/ Stamps(g)
      PROVE  LockInv'
  <2>1. \A h \in Gates : at[h] \in Claiming => Gate(h).req \in Requests
    BY <1>0, GateListed DEF Claiming
  <2>2. CASE Leaves(g)
    BY <2>1, <2>2 DEF Leaves, OthersStay, NoStamp
  <2>3. CASE GoesOn(g)
    BY <2>1, <2>3 DEF GoesOn, OthersStay, NoStamp
  <2>4. CASE Claims(g)
    <3>1. Gate(g).req \in Requests
      BY <2>4, <1>0, GateListed DEF Claims
    <3>2. \A h \in Gates : at[h] \in Claiming => Gate(h).req # Gate(g).req
      BY <2>4 DEF Claims, Locked
    <3>3. QED
      BY <2>1, <2>4, <3>1, <3>2 DEF Claims, OthersStay, NoStamp
  <2>5. CASE Stamps(g)
    <3>1. at'[g] \notin Claiming
      BY <2>5, <1>0 DEF Stamps, Stamp, Advance, SweepOK, Claiming
    <3>2. \A h \in Gates \ {g} : at'[h] = at[h] /\ todo'[h] = todo[h]
      BY <2>5, <1>0 DEF Stamps, Stamp, Advance, SweepOK
    <3>3. \A r \in Requests \ {Gate(g).req} : reqs'[r] = reqs[r]
      BY <2>5, <1>0 DEF Stamps, Stamp, RequestsOK
    <3>4. \A h \in Gates \ {g} : at[h] \in Claiming => Gate(h).req # Gate(g).req
      BY <2>5 DEF Stamps
    <3>5. QED
      BY <2>1, <3>1, <3>2, <3>3, <3>4
  <2>6. QED
    BY <1>2, <2>2, <2>3, <2>4, <2>5
<1>3. QED
  BY <1>1, <1>2, StepKinds

LEMMA AppliedStep ==
    ASSUME IInv, LockInv, AppliedOnce, [Next]_vars
    PROVE  AppliedOnce'
<1>0. SweepOK /\ RequestsOK /\ HistoryOK
  BY DEF IInv, TypeOK
<1>1. CASE NoStamp
  BY <1>1 DEF NoStamp, AppliedOnce
<1>2. ASSUME NEW g \in Gates, Stamps(g)
      PROVE  AppliedOnce'
  <2> DEFINE r == Gate(g).req
  <2>1. r \in Requests /\ Gate(g).verdict \in Verdicts
    BY <1>0, <1>2, GateListed DEF Stamps, Claiming
  <2>2. applied[r] \in Seq(Verdicts) /\ Len(applied[r]) = 0
    BY <1>0, <1>2, <2>1 DEF Stamps, LockInv, AppliedOnce, HistoryOK
  <2>3. Len(applied'[r]) = 1 /\ reqs'[r].handled
    <3>1. Len(Append(applied[r], Gate(g).verdict)) = 1
      BY <2>1, <2>2, AppendProperties
    <3>2. QED
      BY <1>0, <1>2, <2>1, <3>1 DEF Stamps, Stamp, HistoryOK, RequestsOK, Request
  <2>4. \A q \in Requests \ {r} : applied'[q] = applied[q] /\ reqs'[q] = reqs[q]
    BY <1>0, <1>2, <2>1 DEF Stamps, Stamp, HistoryOK, RequestsOK
  <2>5. QED
    BY <2>3, <2>4 DEF AppliedOnce
<1>3. QED
  BY <1>1, <1>2, StepKinds DEF Leaves, GoesOn, Claims

\* However many gate workers sweep, and wherever they crash, the decision of
\* a request is applied once if the request is stamped, and otherwise not at
\* all.
THEOREM DecisionAppliedOnce == Spec => []AppliedOnce
<1>1. Init => LockInv /\ AppliedOnce
  <2> SUFFICES ASSUME Init PROVE LockInv /\ AppliedOnce
    OBVIOUS
  <2>1. LockInv
    BY DEF Init, LockInv, Claiming
  <2>2. AppliedOnce
    BY EmptySeq DEF Init, AppliedOnce
  <2>3. QED
    BY <2>1, <2>2
<1>2. IInv /\ LockInv /\ AppliedOnce /\ [Next]_vars => (LockInv /\ AppliedOnce)'
  BY LockStep, AppliedStep
<1>3. QED
  BY InitIInv, IInvStep, <1>1, <1>2, PTL DEF Spec

-----------------------------------------------------------------------------
(* Decisions made one at a time.                                           *)

\* Nobody can overwrite a decision: the only decision in flight is about a
\* request that is still open, and what the sweeps have listed is what the
\* requests say.
OneInFlight == deciding = {} \/ \E d \in Decision : deciding = {d}

InFlightOpen == \A d \in deciding : reqs[d.req].status \in Open

ListedCurrent ==
    \A g \in Gates : \A i \in DOMAIN todo[g] :
        todo[g][i].verdict = reqs[todo[g][i].req].status

SerialInv == OneInFlight /\ InFlightOpen /\ ListedCurrent

\* While a decision is in flight nobody else enters decide().
LEMMA NoneInFlight ==
    ASSUME OneInFlight, MaxDeciding = 1, Cardinality(deciding) < MaxDeciding
    PROVE  deciding = {}
<1> SUFFICES ASSUME NEW d \in Decision, deciding = {d}
             PROVE  FALSE
  BY DEF OneInFlight
<1>1. Cardinality(deciding) = 1
  BY FS_Singleton
<1>2. QED
  BY <1>1

StatusStays == \A r \in Requests : reqs'[r].status = reqs[r].status

ListingsShrink ==
    \A g \in Gates : \/ todo'[g] = todo[g] \/ todo'[g] = <<>>
                     \/ todo[g] # <<>> /\ todo'[g] = Tail(todo[g])

\* A listing that is carried on, shortened or dropped stays current.
LEMMA ShorterStaysCurrent ==
    ASSUME RequestsOK, SweepOK, ListedCurrent, StatusStays, ListingsShrink
    PROVE  ListedCurrent'
<1> SUFFICES ASSUME NEW g \in Gates, NEW i \in DOMAIN todo'[g]
             PROVE  todo'[g][i].verdict = reqs'[todo'[g][i].req].status
  BY DEF ListedCurrent
<1>1. ASSUME NEW j \in DOMAIN todo[g]
      PROVE  todo[g][j].verdict = reqs'[todo[g][j].req].status
  <2>1. todo[g] \in Seq(Listed)
    BY DEF SweepOK
  <2>2. todo[g][j] \in Listed
    BY <2>1, LenProperties, ElementOfSeq
  <2>3. QED
    BY <2>2 DEF ListedCurrent, StatusStays, Listed
<1>2. CASE todo'[g] = todo[g]
  BY <1>1, <1>2
<1>3. CASE todo'[g] = <<>>
  BY <1>3
<1>4. CASE todo[g] # <<>> /\ todo'[g] = Tail(todo[g])
  <2>1. todo[g] \in Seq(Listed) /\ todo[g] # <<>>
    BY <1>4 DEF SweepOK
  <2>2. /\ Tail(todo[g]) \in Seq(Listed) /\ Len(todo[g]) \in Nat \ {0}
        /\ Len(Tail(todo[g])) = Len(todo[g]) - 1
        /\ \A j \in 1..Len(Tail(todo[g])) : Tail(todo[g])[j] = todo[g][j + 1]
    BY <2>1, HeadTailProperties, EmptySeq
  <2>3. i \in 1..Len(Tail(todo[g])) /\ DOMAIN todo[g] = 1..Len(todo[g])
    BY <1>4, <2>1, <2>2, LenProperties
  <2>4. i + 1 \in DOMAIN todo[g] /\ todo'[g][i] = todo[g][i + 1]
    BY <1>4, <2>2, <2>3
  <2>5. QED
    BY <1>1, <2>4
<1>5. QED
  BY <1>2, <1>3, <1>4 DEF ListingsShrink

\* An open request is in no listing, so moving it leaves them current.
LEMMA OpenIsUnlisted ==
    ASSUME RequestsOK, SweepOK, ListedCurrent, NEW r \in Requests, NEW v,
           reqs[r].status \notin Verdicts,
           reqs' = [reqs EXCEPT ![r].status = v], todo' = todo
    PROVE  ListedCurrent'
<1> SUFFICES ASSUME NEW g \in Gates, NEW i \in DOMAIN todo[g]
             PROVE  todo[g][i].verdict = reqs'[todo[g][i].req].status
  BY DEF ListedCurrent
<1>1. todo[g] \in Seq(Listed)
  BY DEF SweepOK
<1>2. todo[g][i] \in Listed
  BY <1>1, LenProperties, ElementOfSeq
<1>3. todo[g][i].req \in Requests /\ todo[g][i].req # r
  BY <1>2 DEF ListedCurrent, Listed
<1>4. QED
  BY <1>3 DEF ListedCurrent, RequestsOK

LEMMA BeginSweepCurrent ==
    ASSUME IInv, ListedCurrent, NEW g \in Gates, BeginSweep(g)
    PROVE  ListedCurrent'
<1> SUFFICES ASSUME NEW h \in Gates, NEW i \in DOMAIN todo'[h]
             PROVE  todo'[h][i].verdict = reqs[todo'[h][i].req].status
  BY ZenonT(40) DEF ListedCurrent, BeginSweep, requests
<1>1. CASE h # g
  BY <1>1 DEF BeginSweep, ListedCurrent, IInv, TypeOK, SweepOK
<1>2. CASE h = g
  <2>1. /\ Unhandled \in Seq(Listed)
        /\ \A j \in 1..Len(Unhandled) : Unhandled[j].verdict = reqs[Unhandled[j].req].status
    BY UnhandledType DEF IInv, TypeOK
  <2>2. Limit \in Nat \ {0} /\ Len(Unhandled) \in Nat
    BY <2>1, GateAssumption, LenProperties
  <2>3. CASE Len(Unhandled) > Limit
    <3>1. todo'[h] = SubSeq(Unhandled, 1, Limit)
      BY <1>2, <2>3 DEF BeginSweep, IInv, TypeOK, SweepOK
    <3>2. \A j \in 1..Limit : Unhandled[j] \in Listed
      BY <2>1, <2>2, <2>3, ElementOfSeq
    <3>3. /\ SubSeq(Unhandled, 1, Limit) \in Seq(Listed)
          /\ Len(SubSeq(Unhandled, 1, Limit)) = Limit
          /\ \A j \in 1..Limit : SubSeq(Unhandled, 1, Limit)[j] = Unhandled[j]
      BY <2>1, <2>2, <2>3, SubSeqProperties
    <3>4. i \in 1..Limit
      BY <3>1, <3>3, LenProperties
    <3>5. QED
      BY <3>1, <3>3, <3>4, <2>1, <2>2, <2>3
  <2>4. CASE ~(Len(Unhandled) > Limit)
    <3>1. todo'[h] = Unhandled
      BY <1>2, <2>4 DEF BeginSweep, IInv, TypeOK, SweepOK
    <3>2. QED
      BY <3>1, <2>1, LenProperties
  <2>5. QED
    BY <2>3, <2>4
<1>3. QED
  BY <1>1, <1>2

\* What the gate workers do to listings and requests.
LEMMA GateStepShortens ==
    ASSUME IInv, NEW g \in Gates, GateStep(g) \/ GateFails(g), ~BeginSweep(g)
    PROVE  deciding' = deciding /\ StatusStays /\ ListingsShrink
<1>0. SweepOK /\ RequestsOK
  BY DEF IInv, TypeOK
<1>1. ASSUME Abandon(g) PROVE deciding' = deciding /\ StatusStays /\ ListingsShrink
  BY <1>0, <1>1 DEF Abandon, requests, StatusStays, SweepOK, ListingsShrink
<1>2. ASSUME Advance(g), at[g] # "idle" PROVE ListingsShrink
  BY <1>0, <1>2 DEF ListingsShrink, Advance, SweepOK
<1>3. ASSUME Stamp(g), at[g] # "idle"
      PROVE  deciding' = deciding /\ StatusStays /\ ListingsShrink
  <2>1. StatusStays
    BY <1>0, <1>3, GateListed DEF Stamp, StatusStays, RequestsOK, Request
  <2>2. QED
    BY <1>2, <1>3, <2>1 DEF Stamp
<1>4. CASE ReadExecution(g) \/ MissPending(g)
  BY <1>4 DEF ReadExecution, MissPending, requests, StatusStays, ListingsShrink
<1>5. CASE Claim(g)
  <2>1. deciding' = deciding /\ StatusStays
    BY <1>5 DEF Claim, requests, StatusStays
  <2>2. CASE reqs[Gate(g).req].handled
    BY <1>5, <1>2, <2>1, <2>2 DEF Claim
  <2>3. CASE ~reqs[Gate(g).req].handled
    BY <1>5, <2>1, <2>3 DEF Claim, ListingsShrink
  <2>4. QED
    BY <2>2, <2>3
<1>6. CASE StampMoot(g) \/ CancelPending(g) \/ CancelRunning(g)
  BY <1>6, <1>3 DEF StampMoot, CancelPending, CancelRunning
<1>7. CASE CheckEnabled(g)
  BY <1>7, <1>1 DEF CheckEnabled, requests, StatusStays, ListingsShrink
<1>8. CASE Requeue(g)
  BY <1>8, <1>1, <1>3 DEF Requeue
<1>9. CASE GateFails(g)
  BY <1>9, <1>1 DEF GateFails
<1>10. QED
  BY <1>4, <1>5, <1>6, <1>7, <1>8, <1>9 DEF GateStep

LEMMA SerialStep ==
    ASSUME IInv, SerialInv, MaxDeciding = 1, [Next]_vars
    PROVE  SerialInv'
<1>0. SweepOK /\ RequestsOK /\ OneInFlight /\ InFlightOpen /\ ListedCurrent
  BY DEF IInv, TypeOK, SerialInv
<1>1. ASSUME UNCHANGED <<reqs, deciding, todo>>
      PROVE  SerialInv'
  BY <1>0, <1>1 DEF SerialInv, OneInFlight, InFlightOpen, ListedCurrent
<1>2. CASE UNCHANGED vars
  BY <1>1, <1>2 DEF vars, requests, sweep
<1>3. ASSUME NEW e \in Execs, ExecutionStep(e)
      PROVE  SerialInv'
  BY <1>1, <1>3 DEF ExecutionStep, Start, Finish, RetryDelayElapses, RequeueDue,
                    FailQueued, CancelByHand, RetryByHand, requests, sweep
<1>4. ASSUME NEW r \in Requests, RequestStep(r)
      PROVE  SerialInv'
  <2>1. ASSUME NEW v \in Open, reqs[r].status \notin Verdicts,
               reqs' = [reqs EXCEPT ![r].status = v], UNCHANGED <<deciding, todo>>
        PROVE  SerialInv'
    <3>1. ListedCurrent'
      BY <1>0, <2>1, OpenIsUnlisted
    <3>2. QED
      BY <1>0, <2>1, <3>1 DEF SerialInv, OneInFlight, InFlightOpen, RequestsOK,
                              Decision
  <2>2. CASE CreateRequest(r)
    BY <2>1, <2>2 DEF CreateRequest, Open, Verdicts, sweep
  <2>3. CASE ExpiryPasses(r)
    BY <2>1, <2>3 DEF ExpiryPasses, Open, Verdicts, sweep
  <2>4. CASE ExpireOnDecide(r)
    <3>1. deciding = {}
      BY <1>0, <2>4, NoneInFlight DEF ExpireOnDecide
    <3>2. ListedCurrent'
      BY <1>0, <2>4, OpenIsUnlisted DEF ExpireOnDecide, Verdicts, sweep
    <3>3. QED
      BY <2>4, <3>1, <3>2 DEF ExpireOnDecide, SerialInv, OneInFlight, InFlightOpen
  <2>5. CASE CheckDecision(r)
    <3>1. deciding = {}
      BY <1>0, <2>5, NoneInFlight DEF CheckDecision
    <3>2. PICK v \in {"approved", "denied"} :
              deciding' = {[req |-> r, verdict |-> v]}
      BY <2>5, <3>1 DEF CheckDecision
    <3>3. [req |-> r, verdict |-> v] \in Decision
      BY DEF Decision
    <3>4. OneInFlight'
      BY <3>2, <3>3 DEF OneInFlight
    <3>5. InFlightOpen'
      BY <2>5, <3>2 DEF CheckDecision, InFlightOpen, Open
    <3>6. QED
      BY <1>0, <2>5, <3>4, <3>5 DEF CheckDecision, SerialInv, ListedCurrent, sweep
  <2>6. QED
    BY <1>4, <2>2, <2>3, <2>4, <2>5 DEF RequestStep
<1>5. ASSUME NEW d \in Decision, WriteDecision(d)
      PROVE  SerialInv'
  <2>1. d.req \in Requests /\ reqs[d.req].status \in Open /\ deciding' = {}
    BY <1>0, <1>5 DEF WriteDecision, OneInFlight, InFlightOpen, Decision
  <2>2. ListedCurrent'
    BY <1>0, <1>5, <2>1, OpenIsUnlisted DEF WriteDecision, Open, Verdicts, sweep
  <2>3. QED
    BY <2>1, <2>2 DEF SerialInv, OneInFlight, InFlightOpen
<1>6. ASSUME NEW g \in Gates, GateStep(g) \/ GateFails(g)
      PROVE  SerialInv'
  <2>1. CASE BeginSweep(g)
    <3>1. ListedCurrent'
      BY <1>0, <2>1, BeginSweepCurrent
    <3>2. QED
      BY <1>0, <2>1, <3>1 DEF BeginSweep, SerialInv, OneInFlight, InFlightOpen, requests
  <2>2. CASE ~BeginSweep(g)
    <3>1. deciding' = deciding /\ StatusStays
      BY <1>6, <2>2, GateStepShortens
    <3>2. ListedCurrent'
      BY <1>0, <1>6, <2>2, GateStepShortens, ShorterStaysCurrent
    <3>3. InFlightOpen'
      BY <1>0, <3>1 DEF InFlightOpen, StatusStays, RequestsOK, Decision
    <3>4. QED
      BY <1>0, <3>1, <3>2, <3>3 DEF SerialInv, OneInFlight
  <2>3. QED
    BY <2>1, <2>2
<1>7. CASE ToggleAutomation
  BY <1>1, <1>7 DEF ToggleAutomation, requests, sweep
<1>8. QED
  BY <1>2, <1>3, <1>4, <1>5, <1>6, <1>7 DEF Next

-----------------------------------------------------------------------------
(* The gate implements its contract.                                       *)

Shown(v) == IF v \in Open THEN "pending" ELSE v

AppliedTo(r) == IF applied[r] = <<>> THEN "none" ELSE Last(applied[r])

LEMMA ViewOf ==
    /\ ContractView =
           [r \in Requests |->
               [decision |-> Shown(reqs[r].status), applied |-> AppliedTo(r)]]
    /\ ContractView' =
           [r \in Requests |->
               [decision |-> Shown(reqs'[r].status), applied |-> AppliedTo(r)']]
BY DEF ContractView, Shown, AppliedTo

LEMMA ViewStays ==
    ASSUME applied' = applied,
           \A q \in Requests : Shown(reqs'[q].status) = Shown(reqs[q].status)
    PROVE  ContractView' = ContractView
BY ViewOf DEF AppliedTo

LEMMA DecisionShows ==
    ASSUME NEW r \in Requests, applied' = applied,
           \A q \in Requests \ {r} : reqs'[q].status = reqs[q].status
    PROVE  ContractView' = [ContractView EXCEPT ![r].decision = Shown(reqs'[r].status)]
BY ViewOf DEF AppliedTo

\* An open request that gets a verdict settles.
LEMMA VerdictSettles ==
    ASSUME NEW r \in Requests, reqs[r].status \in Open, reqs'[r].status \in Verdicts,
           applied' = applied,
           \A q \in Requests \ {r} : reqs'[q].status = reqs[q].status
    PROVE  Contract!Settle(r)
<1>1. Shown(reqs'[r].status) = reqs'[r].status /\ Shown(reqs[r].status) = "pending"
  BY DEF Shown, Open, Verdicts
<1>2. ContractView[r].decision = "pending"
  BY <1>1, ViewOf
<1>3. ContractView' = [ContractView EXCEPT ![r].decision = reqs'[r].status]
  BY <1>1, DecisionShows
<1>4. QED
  BY <1>2, <1>3 DEF Contract!Settle, Contract!Verdicts, Verdicts

\* The stamp applies what the request shows, to a request nobody stamped.
LEMMA StampApplies ==
    ASSUME IInv, LockInv, AppliedOnce, ListedCurrent, StatusStays,
           NEW g \in Gates, Stamps(g)
    PROVE  \E r \in Requests : Contract!Apply(r)
<1>0. SweepOK /\ RequestsOK /\ HistoryOK
  BY DEF IInv, TypeOK
<1>1. PICK r \in Requests, v \in Verdicts : r = Gate(g).req /\ v = Gate(g).verdict
  BY <1>0, GateListed DEF Stamps, Claiming
<1>2. reqs[r].status = v
  <2>1. todo[g] \in Seq(Listed) /\ todo[g] # <<>>
    BY <1>0 DEF SweepOK, Stamps, Claiming
  <2>2. 1 \in DOMAIN todo[g] /\ Gate(g) = todo[g][1]
    BY <2>1, EmptySeq, LenProperties, HeadTailProperties DEF Gate
  <2>3. QED
    BY <1>1, <2>2 DEF ListedCurrent
<1>3. applied[r] \in Seq(Verdicts) /\ applied[r] = <<>>
  <2>1. applied[r] \in Seq(Verdicts) /\ Len(applied[r]) = 0
    BY <1>0, <1>1 DEF Stamps, LockInv, AppliedOnce, HistoryOK
  <2>2. QED
    BY <2>1, EmptySeq
<1>4. applied' = [applied EXCEPT ![r] = Append(applied[r], v)]
  BY <1>1 DEF Stamps, Stamp
<1>5. applied'[r] # <<>> /\ Last(applied'[r]) = v
  <2>1. Len(applied[r]) = 0
    BY <1>3, EmptySeq
  <2>2. /\ Append(applied[r], v) # <<>>
        /\ Len(Append(applied[r], v)) = 1
        /\ Append(applied[r], v)[1] = v
    BY <1>1, <1>3, <2>1, AppendProperties
  <2>3. applied'[r] = Append(applied[r], v)
    BY <1>0, <1>1, <1>4 DEF HistoryOK
  <2>4. QED
    BY <2>2, <2>3 DEF Last
<1>6. \A q \in Requests \ {r} : applied'[q] = applied[q]
  BY <1>0, <1>4 DEF HistoryOK
<1>7. ContractView[r].decision = v /\ ContractView[r].applied = "none"
  BY <1>1, <1>2, <1>3, ViewOf DEF Shown, AppliedTo, Open, Verdicts
<1>8. ContractView' = [ContractView EXCEPT ![r].applied = v]
  <2>1. \A q \in Requests : Shown(reqs'[q].status) = Shown(reqs[q].status)
    BY DEF StatusStays
  <2>2. AppliedTo(r)' = v /\ \A q \in Requests \ {r} : AppliedTo(q)' = AppliedTo(q)
    BY <1>5, <1>6 DEF AppliedTo
  <2>3. QED
    BY <1>1, <2>1, <2>2, ViewOf
<1>9. QED
  BY <1>1, <1>7, <1>8 DEF Contract!Apply, Contract!Verdicts, Verdicts

LEMMA StepIsContractStep ==
    ASSUME IInv, LockInv, AppliedOnce, SerialInv, [Next]_vars
    PROVE  [Contract!Next]_ContractView
<1>0. RequestsOK /\ InFlightOpen /\ ListedCurrent
  BY DEF IInv, TypeOK, SerialInv
<1>1. ASSUME NoStamp, StatusStays
      PROVE  ContractView' = ContractView
  BY <1>1, ViewStays DEF NoStamp, StatusStays
<1>2. CASE UNCHANGED vars
  BY <1>1, <1>2 DEF vars, requests, history, NoStamp, StatusStays
<1>3. ASSUME NEW e \in Execs, ExecutionStep(e)
      PROVE  ContractView' = ContractView
  BY <1>1, <1>3 DEF ExecutionStep, Start, Finish, RetryDelayElapses, RequeueDue,
              FailQueued, CancelByHand, RetryByHand, requests, history, NoStamp, StatusStays
<1>4. ASSUME NEW r \in Requests, RequestStep(r)
      PROVE  Contract!Ask(r) \/ Contract!Settle(r) \/ ContractView' = ContractView
  <2>1. CASE CreateRequest(r)
    <3>1. /\ applied' = applied /\ reqs'[r].status = "pending"
          /\ \A q \in Requests \ {r} : reqs'[q].status = reqs[q].status
      BY <1>0, <2>1 DEF CreateRequest, history, RequestsOK, Request
    <3>2. ContractView' = [ContractView EXCEPT ![r].decision = "pending"]
      BY <3>1, DecisionShows DEF Shown, Open
    <3>3. ContractView[r].decision = "none"
      BY <2>1, ViewOf DEF CreateRequest, Shown, Open
    <3>4. QED
      BY <3>2, <3>3 DEF Contract!Ask
  <2>2. CASE ExpiryPasses(r)
    <3>1. applied' = applied
      BY <2>2 DEF ExpiryPasses, history
    <3>2. \A q \in Requests : Shown(reqs'[q].status) = Shown(reqs[q].status)
      BY <1>0, <2>2 DEF ExpiryPasses, Shown, Open, RequestsOK, Request
    <3>3. QED
      BY <3>1, <3>2, ViewStays
  <2>3. CASE ExpireOnDecide(r)
    <3>1. /\ applied' = applied /\ reqs[r].status \in Open /\ reqs'[r].status \in Verdicts
          /\ \A q \in Requests \ {r} : reqs'[q].status = reqs[q].status
      BY <1>0, <2>3 DEF ExpireOnDecide, history, Open, Verdicts, RequestsOK, Request
    <3>2. QED
      BY <3>1, VerdictSettles
  <2>4. CASE CheckDecision(r)
    BY <2>4, <1>1 DEF CheckDecision, history, NoStamp, StatusStays
  <2>5. QED
    BY <1>4, <2>1, <2>2, <2>3, <2>4 DEF RequestStep
<1>5. ASSUME NEW d \in Decision, WriteDecision(d)
      PROVE  Contract!Settle(d.req)
  <2>1. d.req \in Requests /\ d.verdict \in Verdicts /\ reqs[d.req].status \in Open
    BY <1>0, <1>5 DEF WriteDecision, Decision, Verdicts, InFlightOpen
  <2>2. /\ applied' = applied /\ reqs'[d.req].status \in Verdicts
        /\ \A q \in Requests \ {d.req} : reqs'[q].status = reqs[q].status
    BY <1>0, <1>5, <2>1 DEF WriteDecision, history, RequestsOK, Request
  <2>3. QED
    BY <2>1, <2>2, VerdictSettles
<1>6. ASSUME NEW g \in Gates, GateStep(g) \/ GateFails(g)
      PROVE  (\E r \in Requests : Contract!Apply(r)) \/ ContractView' = ContractView
  <2>1. StatusStays
    BY <1>6, GateStepShortens DEF BeginSweep, requests, StatusStays
  <2>2. CASE NoStamp
    BY <1>1, <2>1, <2>2
  <2>3. CASE \E h \in Gates : Stamps(h)
    BY <1>0, <2>1, <2>3, StampApplies
  <2>4. QED
    BY <2>2, <2>3, StepKinds DEF Leaves, GoesOn, Claims
<1>7. CASE ToggleAutomation
  BY <1>1, <1>7 DEF ToggleAutomation, requests, history, NoStamp, StatusStays
<1>8. QED
  <2>1. CASE \E r \in Requests : Contract!Ask(r) \/ Contract!Settle(r) \/ Contract!Apply(r)
    BY <2>1 DEF Contract!Next
  <2>2. \A d \in Decision : d.req \in Requests
    BY DEF Decision
  <2>3. QED
    BY <1>2, <1>3, <1>4, <1>5, <1>6, <1>7, <2>1, <2>2 DEF Next

\* When decisions are made one at a time, every request is decided once and
\* what is applied to its execution, once, is what the request shows.
THEOREM GateImplementsContract ==
    ASSUME MaxDeciding = 1
    PROVE  Spec => ImplementsContract
<1>1. Init => LockInv /\ AppliedOnce /\ SerialInv
  <2> SUFFICES ASSUME Init PROVE LockInv /\ AppliedOnce /\ SerialInv
    OBVIOUS
  <2>1. LockInv
    BY DEF Init, LockInv, Claiming
  <2>2. AppliedOnce
    BY EmptySeq DEF Init, AppliedOnce
  <2>3. SerialInv
    BY EmptySeq DEF Init, SerialInv, OneInFlight, InFlightOpen, ListedCurrent
  <2>4. QED
    BY <2>1, <2>2, <2>3
<1>2. Init => Contract!Init
  <2> SUFFICES ASSUME Init PROVE Contract!Init
    OBVIOUS
  <2>1. \A r \in Requests : Shown(reqs[r].status) = "none" /\ AppliedTo(r) = "none"
    BY DEF Init, Shown, Open, AppliedTo
  <2>2. QED
    BY <2>1, ViewOf DEF Contract!Init
<1>3. IInv /\ LockInv /\ AppliedOnce /\ SerialInv /\ [Next]_vars
          => (LockInv /\ AppliedOnce /\ SerialInv)'
  BY LockStep, AppliedStep, SerialStep
<1>4. IInv /\ LockInv /\ AppliedOnce /\ SerialInv /\ [Next]_vars
          => [Contract!Next]_ContractView
  BY StepIsContractStep
<1>5. QED
  BY InitIInv, IInvStep, <1>1, <1>2, <1>3, <1>4, PTL
  DEF Spec, ImplementsContract, Contract!Spec, ContractView
-----------------------------------------------------------------------------
(* A denial stops its execution.                                           *)

\* The listing is a queue: it holds the decided requests without a stamp,
\* once each.
OrderInv ==
    /\ \A i, j \in DOMAIN order : order[i] = order[j] => i = j
    /\ \A i \in DOMAIN order : ~reqs[order[i]].handled
    /\ \A r \in Requests :
          reqs[r].status \in Verdicts /\ ~reqs[r].handled =>
              \E i \in DOMAIN order : order[i] = r

\* What is in the queue before a request that a sweep has listed, the sweep
\* has listed before it: nobody's batch overtakes the queue.
NoOvertaking ==
    \A g \in Gates : \A j \in DOMAIN todo[g] : \A i \in DOMAIN order :
        order[i] = todo[g][j].req =>
            \A k \in 1..(i - 1) : \E l \in 1..(j - 1) : todo[g][l].req = order[k]

\* A row of an execution that is never retried.
Plain(r) ==
    /\ r.status # "retrying"
    /\ r.status = "queued" => ~r.cancel

Stopped(r) ==
    \/ r.status \notin Pending \cup {"running"}
    \/ r.status = "running" /\ r.cancel

\* A worker that is about to flag an execution as running finds it started:
\* nobody has put it back to the queue since the worker read it.
FlagsStarted ==
    \A g \in Gates :
        \/ at[g] = "flag"
        \/ /\ at[g] \in {"read", "claimed"} /\ seen[g] = "running"
           /\ ~reqs[Gate(g).req].handled
        => rows[ExecOf(g)].status \notin Pending

DenialInv == FlagsStarted /\ (\A e \in Execs : Plain(rows[e])) /\ DenialStops

\* A row as a step of somebody other than a gate leaves it.
Subsides(r, s) ==
    /\ Plain(s)
    /\ s.status \in Pending => r.status \in Pending
    /\ Stopped(r) => Stopped(s)

LEMMA ExecutionSubsides ==
    ASSUME ExecutionOK, ~Retries, NEW e \in Execs, Plain(rows[e]), ExecutionStep(e)
    PROVE  /\ \E s : Subsides(rows[e], s) /\ rows' = [rows EXCEPT ![e] = s]
           /\ halted' = halted
<1> USE DEF Subsides, Plain, Stopped, Becomes, Row, ExecutionOK
<1>0. rows[e] \in Row /\ rows[e].status \in Statuses
  OBVIOUS
<1>1. CASE Start(e)
  BY <1>0, <1>1 DEF Start, CanStart, StartedRow, history
<1>2. CASE Finish(e)
  <2>1. PICK s : /\ rows' = [rows EXCEPT ![e] = s]
                 /\ \/ s = Settled(rows[e], SucceededRow(rows[e]))
                    \/ s = Settled(rows[e], TimedOutRow(rows[e]))
                    \/ s = Settled(rows[e], FailedRow(rows[e], FALSE))
    BY <1>2 DEF Finish
  <2>2. Subsides(rows[e], s)
    BY <1>0, <1>2, <2>1 DEF Finish, Settles, Settled, CanFinish, CanCancelAfterRun,
       SucceededRow, TimedOutRow, FailedRow, CancelledAfterRunRow
  <2>3. QED
    BY <1>2, <2>1, <2>2 DEF Finish, history
<1>3. CASE RetryDelayElapses(e)
  BY <1>0, <1>3 DEF RetryDelayElapses
<1>4. CASE RequeueDue(e)
  BY <1>0, <1>4 DEF RequeueDue, CanRequeueDue
<1>5. CASE FailQueued(e)
  BY <1>0, <1>5 DEF FailQueued, CanFailQueued, FailedQueuedRow, history
<1>6. CASE CancelByHand(e)
  BY <1>0, <1>6 DEF CancelByHand, CanCancel, CancelledRow, CanCancelPending, CanFinish,
                    CancelledPendingRow, FlaggedRow, history
<1>7. CASE RetryByHand(e)
  BY <1>7 DEF RetryByHand
<1>8. QED
  BY <1>1, <1>2, <1>3, <1>4, <1>5, <1>6, <1>7 DEF ExecutionStep

\* A worker at a request without a stamp is at the head of the queue.
LEMMA AtHead ==
    ASSUME IInv, ListedCurrent, OrderInv, NoOvertaking,
           NEW g \in Gates, at[g] # "idle", ~reqs[Gate(g).req].handled
    PROVE  order # <<>> /\ order[1] = Gate(g).req /\ 1 \in DOMAIN order
<1>0. RequestsOK /\ SweepOK
  BY DEF IInv, TypeOK
<1>1. /\ todo[g] \in Seq(Listed) /\ Len(todo[g]) \in Nat \ {0}
      /\ Gate(g) = todo[g][1] /\ 1 \in DOMAIN todo[g]
      /\ Gate(g).req \in Requests /\ Gate(g).verdict \in Verdicts
  <2>1. todo[g] \in Seq(Listed) /\ todo[g] # <<>>
    BY <1>0 DEF SweepOK
  <2>2. 1 \in DOMAIN todo[g] /\ Gate(g) = todo[g][1]
    BY <2>1, EmptySeq, LenProperties, HeadTailProperties DEF Gate
  <2>3. QED
    BY <1>0, <2>1, <2>2, GateListed
<1>2. reqs[Gate(g).req].status \in Verdicts
  BY <1>1 DEF ListedCurrent
<1>3. PICK i \in DOMAIN order : order[i] = Gate(g).req
  BY <1>1, <1>2 DEF OrderInv
<1>4. order \in Seq(Requests) /\ DOMAIN order = 1..Len(order) /\ Len(order) \in Nat
  BY <1>0, LenProperties DEF RequestsOK
<1>5. i = 1
  <2> SUFFICES ASSUME i # 1 PROVE FALSE
    OBVIOUS
  <2>1. 1 \in 1..(i - 1)
    BY <1>3, <1>4
  <2>2. order[i] = todo[g][1].req
    BY <1>1, <1>3
  <2>3. \E l \in 1..(1 - 1) : todo[g][l].req = order[1]
    BY <1>1, <1>3, <2>1, <2>2 DEF NoOvertaking
  <2>4. QED
    BY <2>3
<1>6. order # <<>>
  BY <1>3, <1>4, EmptySeq
<1>7. QED
  BY <1>3, <1>5, <1>6

\* The request at the head leaves the queue by itself.
LEMMA WithoutHead ==
    ASSUME RequestsOK, OrderInv, 1 \in DOMAIN order, NEW r, r = order[1]
    PROVE  /\ Without(r) \in Seq(Requests)
           /\ Len(Without(r)) = Len(order) - 1
           /\ DOMAIN Without(r) = 1..(Len(order) - 1)
           /\ \A j \in 1..(Len(order) - 1) : Without(r)[j] = order[j + 1]
<1> DEFINE k == CHOOSE i \in DOMAIN order : order[i] = r
<1>1. k \in DOMAIN order /\ order[k] = r
  OBVIOUS
<1>2. k = 1
  BY <1>1 DEF OrderInv
<1>3. order \in Seq(Requests) /\ DOMAIN order = 1..Len(order) /\ Len(order) \in Nat \ {0}
  BY LenProperties DEF RequestsOK
<1>4. Without(r) = RemoveAt(order, k)
  BY DEF Without
<1> HIDE DEF k
<1> DEFINE s == SubSeq(order, 1, 0)
           t == SubSeq(order, 2, Len(order))
<1>5. /\ s \in Seq(Requests) /\ Len(s) = 0 /\ t \in Seq(Requests)
      /\ Len(t) = Len(order) - 1
      /\ \A j \in 1..(Len(order) - 1) : t[j] = order[j + 1]
  BY <1>3, SubSeqProperties
<1>6. Without(r) = s \o t
  BY <1>2, <1>3, <1>4 DEF RemoveAt
<1> HIDE DEF s, t
<1>7. /\ s \o t \in Seq(Requests) /\ Len(s \o t) = Len(order) - 1
      /\ \A j \in 1..(Len(order) - 1) : (s \o t)[j] = t[j]
  <2>1. s \o t \in Seq(Requests) /\ Len(s \o t) = 0 + (Len(order) - 1)
    BY <1>5, ConcatProperties
  <2>2. \A j \in 1..(0 + (Len(order) - 1)) :
            (s \o t)[j] = IF j <= 0 THEN s[j] ELSE t[j - 0]
    BY <1>5, ConcatProperties
  <2>3. QED
    BY <1>3, <2>1, <2>2
<1>8. DOMAIN (s \o t) = 1..Len(s \o t)
  BY <1>7, LenProperties
<1>9. QED
  BY <1>5, <1>6, <1>7, <1>8

\* NoOvertaking of one queue and one batch.
InOrder(q, t) ==
    \A j \in DOMAIN t : \A i \in DOMAIN q :
        q[i] = t[j].req =>
            \A k \in 1..(i - 1) : \E l \in 1..(j - 1) : t[l].req = q[k]

\* The head of the queue may go.
LEMMA DropHead ==
    ASSUME NEW t, NEW q \in Seq(Requests), NEW p \in Seq(Requests), InOrder(q, t),
           Len(p) = Len(q) - 1, \A j \in 1..Len(p) : p[j] = q[j + 1]
    PROVE  InOrder(p, t)
<1> SUFFICES ASSUME NEW j \in DOMAIN t, NEW i \in DOMAIN p, p[i] = t[j].req,
                    NEW k \in 1..(i - 1)
             PROVE  \E l \in 1..(j - 1) : t[l].req = p[k]
  BY DEF InOrder
<1>1. /\ DOMAIN p = 1..Len(p) /\ DOMAIN q = 1..Len(q)
      /\ Len(p) \in Nat /\ Len(q) \in Nat
  BY LenProperties
<1>2. i + 1 \in DOMAIN q /\ q[i + 1] = t[j].req
  BY <1>1
<1>3. k + 1 \in 1..((i + 1) - 1) /\ q[k + 1] = p[k]
  BY <1>1
<1>4. QED
  BY <1>2, <1>3 DEF InOrder

\* A listed request that is not in the queue may be dropped from the batch.
LEMMA DropListed ==
    ASSUME NEW q, NEW t \in Seq(Listed), t # <<>>, InOrder(q, t),
           \A k \in DOMAIN q : q[k] # t[1].req,
           q \in Seq(Requests)
    PROVE  InOrder(q, Tail(t))
<1> DEFINE u == Tail(t)
<1>1. /\ u \in Seq(Listed) /\ Len(u) = Len(t) - 1 /\ Len(t) \in Nat \ {0}
      /\ \A j \in 1..Len(u) : u[j] = t[j + 1]
  BY HeadTailProperties, EmptySeq
<1>2. DOMAIN u = 1..Len(u) /\ DOMAIN t = 1..Len(t) /\ DOMAIN q = 1..Len(q) /\ Len(q) \in Nat
  BY <1>1, LenProperties
<1> HIDE DEF u
<1> SUFFICES ASSUME NEW j \in DOMAIN u, NEW i \in DOMAIN q, q[i] = u[j].req,
                    NEW k \in 1..(i - 1)
             PROVE  \E l \in 1..(j - 1) : u[l].req = q[k]
  BY DEF InOrder, u
<1>3. j + 1 \in DOMAIN t /\ q[i] = t[j + 1].req
  BY <1>1, <1>2
<1>4. PICK l \in 1..((j + 1) - 1) : t[l].req = q[k]
  BY <1>3 DEF InOrder
<1>5. k \in DOMAIN q
  BY <1>2
<1>6. l # 1
  BY <1>4, <1>5
<1>7. l - 1 \in 1..(j - 1) /\ l - 1 \in 1..Len(u) /\ u[l - 1] = t[l]
  BY <1>1, <1>2, <1>4, <1>6
<1>8. QED
  BY <1>4, <1>7

\* A decision joins the queue at its end.
LEMMA JoinKeepsOrder ==
    ASSUME RequestsOK, SweepOK, OrderDecided, ListedCurrent, OrderInv, NoOvertaking,
           NEW r \in Requests, NEW v \in Verdicts, reqs[r].status \notin Verdicts,
           reqs' = [reqs EXCEPT ![r].status = v], order' = Decided(r), todo' = todo
    PROVE  OrderInv' /\ NoOvertaking'
<1>1. /\ order \in Seq(Requests) /\ Len(order) \in Nat /\ DOMAIN order = 1..Len(order)
      /\ \A i \in DOMAIN order : order[i] \in Requests /\ order[i] # r
  BY LenProperties, ElementOfSeq DEF RequestsOK, OrderDecided
<1>2. \A q \in Requests : /\ reqs'[q].handled = reqs[q].handled
                          /\ q # r => reqs'[q].status = reqs[q].status
  BY DEF RequestsOK, Request
<1>3. CASE reqs[r].handled
  <2>1. order' = order
    BY <1>3 DEF Decided
  <2>2. OrderInv'
    BY <1>1, <1>2, <1>3, <2>1 DEF OrderInv
  <2>3. NoOvertaking'
    BY <2>1 DEF NoOvertaking
  <2>4. QED
    BY <2>2, <2>3
<1>4. CASE ~reqs[r].handled
  <2>1. order' = Append(order, r)
    BY <1>1, <1>4 DEF Decided, Without
  <2>2. /\ order' \in Seq(Requests) /\ Len(order') = Len(order) + 1
        /\ \A i \in 1..Len(order) : order'[i] = order[i]
        /\ order'[Len(order) + 1] = r
    BY <1>1, <2>1, AppendProperties
  <2>3. DOMAIN order' = 1..(Len(order) + 1)
    BY <2>2, LenProperties
  <2>4. \A i \in DOMAIN order' : i \in DOMAIN order \/ i = Len(order) + 1
    BY <1>1, <2>3
  <2>5. OrderInv'
    <3>1. \A i, j \in DOMAIN order' : order'[i] = order'[j] => i = j
      BY <1>1, <2>2, <2>4 DEF OrderInv
    <3>2. \A i \in DOMAIN order' : ~reqs'[order'[i]].handled
      BY <1>1, <1>2, <1>4, <2>2, <2>4 DEF OrderInv
    <3>3. ASSUME NEW q \in Requests, reqs'[q].status \in Verdicts, ~reqs'[q].handled
          PROVE  \E i \in DOMAIN order' : order'[i] = q
      <4>1. CASE q = r
        BY <1>1, <2>2, <2>3, <4>1
      <4>2. CASE q # r
        <5>1. PICK i \in DOMAIN order : order[i] = q
          BY <1>2, <3>3, <4>2 DEF OrderInv
        <5>2. QED
          BY <1>1, <2>2, <2>3, <5>1
      <4>3. QED
        BY <4>1, <4>2
    <3>4. QED
      BY <3>1, <3>2, <3>3 DEF OrderInv
  <2>6. NoOvertaking'
    <3> SUFFICES ASSUME NEW g \in Gates, NEW j \in DOMAIN todo[g],
                        NEW i \in DOMAIN order', order'[i] = todo[g][j].req,
                        NEW k \in 1..(i - 1)
                 PROVE  \E l \in 1..(j - 1) : todo[g][l].req = order'[k]
      BY DEF NoOvertaking
    <3>1. todo[g][j].req # r
      <4>1. todo[g] \in Seq(Listed)
        BY DEF SweepOK
      <4>2. todo[g][j] \in Listed
        BY <4>1, LenProperties, ElementOfSeq
      <4>3. QED
        BY <4>2 DEF ListedCurrent, Listed
    <3>2. i \in DOMAIN order /\ order'[i] = order[i]
      BY <1>1, <2>2, <2>4, <3>1
    <3>3. order'[k] = order[k]
      BY <1>1, <2>2, <3>2
    <3>4. order[i] = todo[g][j].req
      BY <3>2
    <3>5. \E l \in 1..(j - 1) : todo[g][l].req = order[k]
      BY <3>2, <3>4 DEF NoOvertaking
    <3>6. QED
      BY <3>3, <3>5
  <2>7. QED
    BY <2>5, <2>6
<1>5. QED
  BY <1>3, <1>4

\* A stamp takes the head of the queue out of it.
LEMMA StampKeepsOrder ==
    ASSUME IInv, LockInv, ListedCurrent, OrderInv, NoOvertaking,
           NEW g \in Gates, Stamps(g)
    PROVE  OrderInv' /\ NoOvertaking'
<1> DEFINE r == Gate(g).req
<1>0. RequestsOK /\ SweepOK
  BY DEF IInv, TypeOK
<1>1. at[g] # "idle" /\ ~reqs[r].handled
  BY DEF Stamps, LockInv, Claiming
<1>2. order[1] = r /\ 1 \in DOMAIN order
  BY <1>1, AtHead
<1>3. r \in Requests
  BY <1>0, <1>1, GateListed
<1>4. /\ order' = Without(r) /\ todo' = [todo EXCEPT ![g] = Tail(todo[g])]
      /\ reqs' = [reqs EXCEPT ![r].handled = TRUE]
  BY DEF Stamps, Stamp, Advance
<1>5. /\ order \in Seq(Requests) /\ Len(order) \in Nat /\ DOMAIN order = 1..Len(order)
      /\ \A i \in DOMAIN order : order[i] \in Requests
  BY <1>0, LenProperties, ElementOfSeq DEF RequestsOK
<1>6. /\ order' \in Seq(Requests) /\ DOMAIN order' = 1..(Len(order) - 1)
      /\ Len(order') = Len(order) - 1
      /\ \A j \in 1..(Len(order) - 1) : order'[j] = order[j + 1]
  BY <1>0, <1>2, <1>4, WithoutHead
<1>8. \A i \in DOMAIN order' : order'[i] # r /\ order'[i] \in Requests
  BY <1>2, <1>5, <1>6, SMTT(30) DEF OrderInv
<1>9. \A q \in Requests : q # r => reqs'[q] = reqs[q]
  BY <1>0, <1>4 DEF RequestsOK
<1>10. reqs'[r].handled
  BY <1>0, <1>3, <1>4 DEF RequestsOK, Request
<1> HIDE DEF r
<1>11. OrderInv'
  <2>1. \A i, j \in DOMAIN order' : order'[i] = order'[j] => i = j
    <3> SUFFICES ASSUME NEW i \in DOMAIN order', NEW j \in DOMAIN order', order'[i] = order'[j]
                 PROVE  i = j
      OBVIOUS
    <3>1. i + 1 \in DOMAIN order /\ j + 1 \in DOMAIN order /\ order[i + 1] = order[j + 1]
      BY <1>5, <1>6
    <3>2. i + 1 = j + 1
      BY <3>1 DEF OrderInv
    <3>3. QED
      BY <1>5, <1>6, <3>2
  <2>2. \A i \in DOMAIN order' : ~reqs'[order'[i]].handled
    <3> TAKE i \in DOMAIN order'
    <3>1. i + 1 \in DOMAIN order /\ order'[i] = order[i + 1]
      BY <1>5, <1>6
    <3>2. QED
      BY <1>8, <1>9, <3>1 DEF OrderInv
  <2>3. ASSUME NEW q \in Requests, reqs'[q].status \in Verdicts, ~reqs'[q].handled
        PROVE  \E i \in DOMAIN order' : order'[i] = q
    <3>1. q # r
      BY <1>10, <2>3
    <3>2. PICK i \in DOMAIN order : order[i] = q
      BY <1>9, <2>3, <3>1 DEF OrderInv
    <3>3. i # 1
      BY <1>2, <3>1, <3>2
    <3>4. i - 1 \in DOMAIN order' /\ order'[i - 1] = order[i]
      BY <1>5, <1>6, <3>2, <3>3
    <3>5. QED
      BY <3>2, <3>4
  <2>4. QED
    BY <2>1, <2>2, <2>3 DEF OrderInv
<1>12. NoOvertaking'
  <2>1. \A h \in Gates : InOrder(order, todo[h])
    BY DEF NoOvertaking, InOrder
  <2>2. \A h \in Gates : InOrder(order', todo[h])
    BY <1>5, <1>6, <2>1, DropHead
  <2>3. todo[g] \in Seq(Listed) /\ todo[g] # <<>> /\ todo[g][1].req = r
    BY <1>0, <1>1, HeadTailProperties DEF SweepOK, Gate, r
  <2>4. InOrder(order', Tail(todo[g]))
    BY <1>6, <1>8, <2>2, <2>3, DropListed
  <2>5. \A h \in Gates : InOrder(order', todo'[h])
    BY <1>0, <1>4, <2>2, <2>4 DEF SweepOK
  <2>6. QED
    BY <2>5 DEF NoOvertaking, InOrder
<1>13. QED
  BY <1>11, <1>12

\* A sweep lists the queue from its head.
LEMMA BeginSweepKeepsOrder ==
    ASSUME IInv, OrderInv, NoOvertaking, NEW g \in Gates, BeginSweep(g)
    PROVE  NoOvertaking'
<1>0. RequestsOK /\ SweepOK /\ OrderDecided
  BY DEF IInv, TypeOK
<1>1. order' = order
  BY DEF BeginSweep, requests
<1>2. Unhandled \in Seq(Listed)
  BY <1>0, UnhandledType
<1>3. \A i \in DOMAIN Unhandled : i \in DOMAIN order /\ Unhandled[i].req = order[i]
  BY <1>0, LenProperties DEF Unhandled, RequestsOK
<1>4. /\ Limit \in Nat \ {0} /\ Len(Unhandled) \in Nat
      /\ DOMAIN Unhandled = 1..Len(Unhandled)
  BY <1>2, GateAssumption, LenProperties
<1>5. ASSUME NEW t, NEW n \in Nat, DOMAIN t = 1..n,
             \A i \in 1..n : i \in DOMAIN order /\ t[i].req = order[i]
      PROVE  InOrder(order, t)
  <2> SUFFICES ASSUME NEW j \in 1..n, NEW i \in DOMAIN order, order[i] = t[j].req,
                      NEW k \in 1..(i - 1)
               PROVE  \E l \in 1..(j - 1) : t[l].req = order[k]
    BY <1>5 DEF InOrder
  <2>1. j \in DOMAIN order /\ order[i] = order[j]
    BY <1>5
  <2>2. i = j
    BY <2>1 DEF OrderInv
  <2>3. k \in 1..(j - 1) /\ k \in 1..n
    BY <2>2
  <2>4. QED
    BY <1>5, <2>3
<1>6. InOrder(order, todo'[g])
  <2>1. CASE Len(Unhandled) > Limit
    <3>1. todo'[g] = SubSeq(Unhandled, 1, Limit)
      BY <1>0, <2>1 DEF BeginSweep, SweepOK
    <3>2. \A j \in 1..Limit : Unhandled[j] \in Listed
      BY <1>2, <1>4, <2>1, ElementOfSeq
    <3>3. /\ SubSeq(Unhandled, 1, Limit) \in Seq(Listed)
          /\ Len(SubSeq(Unhandled, 1, Limit)) = Limit
          /\ \A j \in 1..Limit : SubSeq(Unhandled, 1, Limit)[j] = Unhandled[j]
      BY <1>2, <1>4, <2>1, <3>2, SubSeqProperties
    <3>4. DOMAIN todo'[g] = 1..Limit
      BY <3>1, <3>3, LenProperties
    <3>5. \A i \in 1..Limit : i \in DOMAIN order /\ todo'[g][i].req = order[i]
      BY <1>3, <1>4, <2>1, <3>1, <3>3
    <3>6. QED
      BY <1>4, <1>5, <3>4, <3>5
  <2>2. CASE ~(Len(Unhandled) > Limit)
    <3>1. todo'[g] = Unhandled
      BY <1>0, <2>2 DEF BeginSweep, SweepOK
    <3>2. QED
      BY <1>3, <1>4, <1>5, <3>1
  <2>3. QED
    BY <2>1, <2>2
<1>7. \A h \in Gates \ {g} : InOrder(order, todo'[h])
  BY <1>0 DEF BeginSweep, SweepOK, NoOvertaking, InOrder
<1>8. QED
  BY <1>1, <1>6, <1>7 DEF NoOvertaking, InOrder

LEMMA OrderStep ==
    ASSUME IInv, LockInv, SerialInv, OrderInv, NoOvertaking, [Next]_vars
    PROVE  OrderInv' /\ NoOvertaking'
<1>0. RequestsOK /\ SweepOK /\ OrderDecided /\ InFlightOpen /\ ListedCurrent
  BY DEF IInv, TypeOK, SerialInv
<1>1. ASSUME order' = order,
             \A r \in Requests : /\ reqs'[r].handled = reqs[r].handled
                                 /\ reqs'[r].status \in Verdicts <=> reqs[r].status \in Verdicts
      PROVE  OrderInv'
  <2>1. \A i \in DOMAIN order : order[i] \in Requests
    BY <1>0, LenProperties, ElementOfSeq DEF RequestsOK
  <2>2. QED
    BY <1>1, <2>1 DEF OrderInv
<1>2. ASSUME UNCHANGED requests
      PROVE  OrderInv'
  BY <1>1, <1>2 DEF requests
<1>3. ASSUME order' = order, todo' = todo
      PROVE  NoOvertaking'
  BY <1>3 DEF NoOvertaking
<1>4. CASE UNCHANGED vars
  BY <1>2, <1>3, <1>4 DEF vars, requests, sweep
<1>5. ASSUME NEW e \in Execs, ExecutionStep(e)
      PROVE  OrderInv' /\ NoOvertaking'
  BY <1>2, <1>3, <1>5 DEF ExecutionStep, Start, Finish, RetryDelayElapses, RequeueDue,
                    FailQueued, CancelByHand, RetryByHand, requests, sweep
<1>6. ASSUME NEW r \in Requests, RequestStep(r)
      PROVE  OrderInv' /\ NoOvertaking'
  <2>1. ASSUME NEW v \in Open, reqs[r].status \notin Verdicts,
               reqs' = [reqs EXCEPT ![r].status = v], UNCHANGED <<order, todo>>
        PROVE  OrderInv' /\ NoOvertaking'
    <3>1. \A q \in Requests : /\ reqs'[q].handled = reqs[q].handled
                              /\ reqs'[q].status \in Verdicts <=> reqs[q].status \in Verdicts
      BY <1>0, <2>1 DEF RequestsOK, Request, Open, Verdicts
    <3>2. QED
      BY <1>1, <1>3, <2>1, <3>1
  <2>2. CASE CreateRequest(r)
    BY <2>1, <2>2 DEF CreateRequest, Open, Verdicts, sweep
  <2>3. CASE ExpiryPasses(r)
    BY <2>1, <2>3 DEF ExpiryPasses, Open, Verdicts, sweep
  <2>4. CASE ExpireOnDecide(r)
    BY <1>0, <2>4, JoinKeepsOrder DEF ExpireOnDecide, Verdicts, sweep
  <2>5. CASE CheckDecision(r)
    BY <1>1, <1>3, <2>5 DEF CheckDecision, sweep
  <2>6. QED
    BY <1>6, <2>2, <2>3, <2>4, <2>5 DEF RequestStep
<1>7. ASSUME NEW d \in Decision, WriteDecision(d)
      PROVE  OrderInv' /\ NoOvertaking'
  <2>1. d.req \in Requests /\ d.verdict \in Verdicts /\ reqs[d.req].status \notin Verdicts
    BY <1>0, <1>7 DEF WriteDecision, InFlightOpen, Decision, Open, Verdicts
  <2>2. QED
    BY <1>0, <1>7, <2>1, JoinKeepsOrder DEF WriteDecision, sweep
<1>8. ASSUME NEW g \in Gates, GateStep(g) \/ GateFails(g)
      PROVE  OrderInv' /\ NoOvertaking'
  <2>1. ASSUME Abandon(g) PROVE OrderInv' /\ NoOvertaking'
    <3>1. \A h \in Gates : todo'[h] = <<>> \/ todo'[h] = todo[h]
      BY <1>0, <2>1 DEF Abandon, SweepOK
    <3>2. order' = order
      BY <2>1 DEF Abandon, requests
    <3>3. NoOvertaking'
      <4> SUFFICES ASSUME NEW h \in Gates PROVE InOrder(order, todo'[h])
        BY <3>2 DEF NoOvertaking, InOrder
      <4>1. CASE todo'[h] = todo[h]
        BY <4>1 DEF NoOvertaking, InOrder
      <4>2. CASE todo'[h] = <<>>
        BY <4>2 DEF InOrder
      <4>3. QED
        BY <3>1, <4>1, <4>2
    <3>4. QED
      BY <1>2, <2>1, <3>3 DEF Abandon
  <2>2. CASE BeginSweep(g)
    BY <1>2, <2>2, BeginSweepKeepsOrder DEF BeginSweep
  <2>3. CASE ReadExecution(g) \/ MissPending(g)
    BY <1>2, <1>3, <2>3 DEF ReadExecution, MissPending, requests
  <2>4. CASE Claim(g)
    <3>1. CASE reqs[Gate(g).req].handled
      <4>1. /\ todo' = [todo EXCEPT ![g] = Tail(todo[g])] /\ order' = order
            /\ at[g] # "idle"
        BY <2>4, <3>1 DEF Claim, Advance, requests
      <4>2. todo[g] \in Seq(Listed) /\ todo[g] # <<>> /\ Gate(g) = todo[g][1]
        BY <1>0, <4>1, HeadTailProperties DEF SweepOK, Gate
      <4>3. \A k \in DOMAIN order : order[k] # todo[g][1].req
        BY <3>1, <4>2 DEF OrderInv
      <4>4. InOrder(order, todo[g]) /\ order \in Seq(Requests)
        BY <1>0 DEF NoOvertaking, InOrder, RequestsOK
      <4>5. InOrder(order, Tail(todo[g]))
        BY <4>2, <4>3, <4>4, DropListed
      <4>6. \A h \in Gates : InOrder(order, todo'[h])
        BY <1>0, <4>1, <4>5 DEF SweepOK, NoOvertaking, InOrder
      <4>7. NoOvertaking'
        BY <4>1, <4>6, SMTT(30) DEF NoOvertaking, InOrder
      <4>8. QED
        BY <1>2, <2>4, <4>7 DEF Claim
    <3>2. CASE ~reqs[Gate(g).req].handled
      BY <1>2, <1>3, <2>4, <3>2 DEF Claim, requests
    <3>3. QED
      BY <3>1, <3>2
  <2>5. CASE StampMoot(g) \/ CancelPending(g) \/ CancelRunning(g)
    BY <1>0, <2>5, StampKeepsOrder
    DEF StampMoot, CancelPending, CancelRunning, Stamps, Claiming
  <2>6. CASE CheckEnabled(g)
    BY <1>2, <1>3, <2>1, <2>6 DEF CheckEnabled, requests
  <2>7. CASE Requeue(g)
    BY <1>0, <2>1, <2>7, StampKeepsOrder DEF Requeue, Stamps, Claiming
  <2>8. CASE GateFails(g)
    BY <2>1, <2>8 DEF GateFails
  <2>9. QED
    BY <1>8, <2>2, <2>3, <2>4, <2>5, <2>6, <2>7, <2>8 DEF GateStep
<1>9. CASE ToggleAutomation
  BY <1>2, <1>3, <1>9 DEF ToggleAutomation, requests, sweep
<1>10. QED
  BY <1>4, <1>5, <1>6, <1>7, <1>8, <1>9 DEF Next

\* FlagsStarted of one worker.
FlagStarted(g) ==
    \/ at[g] = "flag"
    \/ /\ at[g] \in {"read", "claimed"} /\ seen[g] = "running"
       /\ ~reqs[Gate(g).req].handled
    => rows[ExecOf(g)].status \notin Pending

\* A worker that stays where it is, while nothing is put back to the queue.
LEMMA FlagStays ==
    ASSUME RequestsOK, SweepOK, NEW g \in Gates, FlagStarted(g), at[g] # "idle",
           at'[g] = at[g], todo'[g] = todo[g], seen'[g] = seen[g],
           \A r \in Requests : /\ reqs'[r].exec = reqs[r].exec
                               /\ reqs[r].handled => reqs'[r].handled,
           \A e \in Execs : rows'[e].status \in Pending => rows[e].status \in Pending
    PROVE  FlagStarted(g)'
<1>1. Gate(g)' = Gate(g) /\ Gate(g).req \in Requests /\ ExecOf(g) \in Execs
  BY GateListed DEF Gate
<1>2. ExecOf(g)' = ExecOf(g)
  BY <1>1 DEF ExecOf
<1>3. QED
  BY <1>1, <1>2 DEF FlagStarted

\* No step rewrites what execution a request is about, or takes a stamp away.
LEMMA RequestsKeep ==
    ASSUME IInv, [Next]_vars
    PROVE  \A r \in Requests : /\ reqs'[r].exec = reqs[r].exec
                               /\ reqs[r].handled => reqs'[r].handled
<1>0. RequestsOK /\ SweepOK
  BY DEF IInv, TypeOK
<1> DEFINE Keep == \A r \in Requests : /\ reqs'[r].exec = reqs[r].exec
                                       /\ reqs[r].handled => reqs'[r].handled
<1>1. CASE UNCHANGED vars
  BY <1>1 DEF vars, requests
<1>2. ASSUME NEW e \in Execs, ExecutionStep(e) PROVE Keep
  BY <1>2 DEF ExecutionStep, Start, Finish, RetryDelayElapses, RequeueDue,
              FailQueued, CancelByHand, RetryByHand, requests
<1>3. ASSUME NEW r \in Requests, RequestStep(r) PROVE Keep
  BY <1>0, <1>3 DEF RequestStep, CreateRequest, ExpiryPasses, ExpireOnDecide,
              CheckDecision, RequestsOK, Request
<1>4. ASSUME NEW d \in Decision, WriteDecision(d) PROVE Keep
  BY <1>0, <1>4 DEF WriteDecision, RequestsOK, Request, Decision
<1>5. ASSUME NEW g \in Gates, GateStep(g) \/ GateFails(g) PROVE Keep
  <2>1. ASSUME Stamp(g) PROVE Keep
    BY <1>0, <2>1 DEF Stamp, RequestsOK, Request
  <2>2. QED
    BY <1>5, <2>1 DEF GateStep, GateFails, BeginSweep, ReadExecution, Claim, StampMoot,
       CheckEnabled, Requeue, CancelPending, MissPending, CancelRunning, Abandon, requests
<1>6. CASE ToggleAutomation
  BY <1>6 DEF ToggleAutomation, requests
<1>7. QED
  BY <1>1, <1>2, <1>3, <1>4, <1>5, <1>6 DEF Next

\* Of the workers at requests without a stamp only one gets past the lock,
\* and the others find the request stamped when it lets go.
LEMMA RequeueIsAlone ==
    ASSUME IInv, LockInv, ListedCurrent, OrderInv, NoOvertaking,
           NEW g \in Gates, Stamps(g), NEW h \in Gates, h # g
    PROVE  /\ at'[h] # "flag"
           /\ at'[h] \in {"read", "claimed"} => reqs'[Gate(h).req].handled
<1>0. RequestsOK /\ SweepOK
  BY DEF IInv, TypeOK
<1>1. at[g] # "idle" /\ ~reqs[Gate(g).req].handled /\ at[g] \in Claiming
  BY DEF Stamps, LockInv, Claiming
<1>2. order[1] = Gate(g).req
  BY <1>1, AtHead
<1>3. at'[h] = at[h]
  BY <1>0 DEF Stamps, Stamp, Advance, SweepOK
<1>4. at[h] # "idle" /\ ~reqs[Gate(h).req].handled => Gate(h).req = Gate(g).req
  BY <1>2, AtHead
<1>5. at[h] \notin Claiming
  <2> SUFFICES ASSUME at[h] \in Claiming PROVE FALSE
    OBVIOUS
  <2>1. ~reqs[Gate(h).req].handled /\ at[h] # "idle" /\ Gate(h).req # Gate(g).req
    BY <1>1 DEF LockInv, Claiming
  <2>2. QED
    BY <1>4, <2>1
<1>6. ASSUME at[h] = "read" PROVE reqs'[Gate(h).req].handled
  <2>1. Gate(h).req \in Requests /\ Gate(g).req \in Requests
    BY <1>0, <1>1, <1>6, GateListed
  <2>2. reqs' = [reqs EXCEPT ![Gate(g).req].handled = TRUE]
    BY DEF Stamps, Stamp
  <2>3. CASE reqs[Gate(h).req].handled
    BY <1>0, <2>1, <2>2, <2>3 DEF RequestsOK, Request
  <2>4. CASE ~reqs[Gate(h).req].handled
    BY <1>0, <1>4, <1>6, <2>1, <2>2, <2>4 DEF RequestsOK, Request
  <2>5. QED
    BY <2>3, <2>4
<1>7. QED
  BY <1>3, <1>5, <1>6 DEF Claiming

LEMMA DenialStep ==
    ASSUME IInv, LockInv, SerialInv, OrderInv, NoOvertaking, DenialInv, ~Retries,
           [Next]_vars
    PROVE  DenialInv'
<1>0. /\ ExecutionOK /\ RequestsOK /\ SweepOK /\ HistoryOK /\ ListedCurrent
      /\ \A g \in Gates : FlagStarted(g)
      /\ \A e \in Execs : Plain(rows[e])
      /\ \A e \in Execs : halted[e] => Stopped(rows[e])
  BY DEF IInv, TypeOK, SerialInv, DenialInv, FlagsStarted, FlagStarted, DenialStops, Stopped
<1>00. \A r \in Requests : /\ reqs'[r].exec = reqs[r].exec
                           /\ reqs[r].handled => reqs'[r].handled
  BY RequestsKeep
<1> SUFFICES /\ \A g \in Gates : FlagStarted(g)'
             /\ \A e \in Execs : Plain(rows'[e])
             /\ \A e \in Execs : halted'[e] => Stopped(rows'[e])
  BY DEF DenialInv, FlagsStarted, FlagStarted, DenialStops, Stopped
<1> DEFINE Goal == /\ \A g \in Gates : FlagStarted(g)'
                   /\ \A e \in Execs : Plain(rows'[e])
                   /\ \A e \in Execs : halted'[e] => Stopped(rows'[e])
<1>1. ASSUME NEW h \in Gates, at'[h] \notin {"flag", "read", "claimed"}
      PROVE  FlagStarted(h)'
  BY <1>1 DEF FlagStarted
<1>2. ASSUME NEW h \in Gates, at'[h] = at[h], todo'[h] = todo[h], seen'[h] = seen[h],
             \A e \in Execs : rows'[e].status \in Pending => rows[e].status \in Pending
      PROVE  FlagStarted(h)'
  <2>1. CASE at[h] = "idle"
    BY <1>1, <1>2, <2>1
  <2>2. CASE at[h] # "idle"
    BY <1>0, <1>00, <1>2, <2>2, FlagStays
  <2>3. QED
    BY <2>1, <2>2
<1>3. ASSUME UNCHANGED <<rows, halted, sweep>>
      PROVE  Goal
  BY <1>0, <1>2, <1>3 DEF sweep
<1>4. CASE UNCHANGED vars
  BY <1>3, <1>4 DEF vars, execution, history
<1>5. ASSUME NEW e \in Execs, ExecutionStep(e)
      PROVE  Goal
  <2>1. UNCHANGED sweep
    BY <1>5 DEF ExecutionStep, Start, Finish, RetryDelayElapses, RequeueDue,
                FailQueued, CancelByHand, RetryByHand
  <2>2. PICK s : Subsides(rows[e], s) /\ rows' = [rows EXCEPT ![e] = s]
    BY <1>0, <1>5, ExecutionSubsides
  <2>3. halted' = halted
    BY <1>0, <1>5, ExecutionSubsides
  <2>4. /\ \A f \in Execs \ {e} : rows'[f] = rows[f]
        /\ rows'[e] = s
    BY <1>0, <2>2 DEF ExecutionOK
  <2>5. QED
    BY <1>0, <1>2, <2>1, <2>2, <2>3, <2>4 DEF Subsides, sweep
<1>6. ASSUME NEW r \in Requests, RequestStep(r)
      PROVE  Goal
  BY <1>3, <1>6 DEF RequestStep, CreateRequest, ExpiryPasses, ExpireOnDecide,
                    CheckDecision, execution, history
<1>7. ASSUME NEW d \in Decision, WriteDecision(d)
      PROVE  Goal
  BY <1>3, <1>7 DEF WriteDecision, execution, history
<1>8. ASSUME NEW g \in Gates, GateStep(g) \/ GateFails(g)
      PROVE  Goal
  <2> DEFINE f == ExecOf(g)
             Rest == \A h \in Gates \ {g} : /\ at'[h] = at[h] /\ todo'[h] = todo[h]
                                            /\ seen'[h] = seen[h]
  <2>1. ASSUME UNCHANGED <<rows, halted>>, Rest, FlagStarted(g)'
        PROVE  Goal
    BY <1>0, <1>2, <2>1
  <2>2. ASSUME Advance(g) PROVE Rest /\ at'[g] \in {"idle", "next"}
    BY <1>0, <2>2 DEF Advance, SweepOK
  <2>3. ASSUME Abandon(g) PROVE Goal
    <3>1. Rest /\ at'[g] = "idle" /\ UNCHANGED <<rows, halted>>
      BY <1>0, <2>3 DEF Abandon, SweepOK, execution, history
    <3>2. QED
      BY <1>1, <2>1, <3>1
  <2>4. CASE BeginSweep(g)
    <3>1. Rest /\ at'[g] = "next" /\ UNCHANGED <<rows, halted>>
      BY <1>0, <2>4 DEF BeginSweep, SweepOK, execution, history
    <3>2. QED
      BY <1>1, <2>1, <3>1
  <2>5. CASE ReadExecution(g)
    <3>1. /\ Rest /\ seen'[g] = rows[f].status /\ UNCHANGED <<rows, halted, todo, reqs>>
          /\ at'[g] = "read"
      BY <1>0, <2>5 DEF ReadExecution, SweepOK, execution, history, requests
    <3>2. FlagStarted(g)'
      BY <3>1 DEF FlagStarted, Gate, ExecOf
    <3>3. QED
      BY <2>1, <3>1, <3>2
  <2>6. CASE Claim(g)
    <3>1. UNCHANGED <<rows, halted, reqs>>
      BY <2>6 DEF Claim, execution, history, requests
    <3>2. CASE reqs[Gate(g).req].handled
      BY <1>1, <2>1, <2>2, <2>6, <3>1, <3>2 DEF Claim
    <3>3. CASE ~reqs[Gate(g).req].handled
      <4>1. /\ Rest /\ at'[g] = "claimed" /\ UNCHANGED <<todo, seen>>
            /\ at[g] = "read"
        BY <1>0, <2>6, <3>3 DEF Claim, SweepOK
      <4>2. FlagStarted(g)'
        BY <1>0, <3>1, <3>3, <4>1 DEF FlagStarted, Gate, ExecOf
      <4>3. QED
        BY <2>1, <3>1, <4>1, <4>2
    <3>4. QED
      BY <3>2, <3>3
  <2>7. CASE StampMoot(g)
    <3>1. Rest /\ at'[g] \in {"idle", "next"} /\ UNCHANGED <<rows, halted>>
      BY <2>2, <2>7 DEF StampMoot, Stamp, execution
    <3>2. QED
      BY <1>1, <2>1, <3>1
  <2>8. CASE CheckEnabled(g)
    <3>1. CASE enabled
      <4>1. Rest /\ at'[g] = "requeue" /\ UNCHANGED <<rows, halted>>
        BY <1>0, <2>8, <3>1 DEF CheckEnabled, SweepOK, execution, history
      <4>2. QED
        BY <1>1, <2>1, <4>1
    <3>2. CASE ~enabled
      BY <2>3, <2>8, <3>2 DEF CheckEnabled
    <3>3. QED
      BY <3>1, <3>2
  <2>9. CASE Requeue(g)
    <3>1. CASE CanRequeue(rows[f])
      <4>1. /\ Stamps(g) /\ rows' = [rows EXCEPT ![f] = RequeuedRow(rows[f])]
            /\ halted' = [halted EXCEPT ![f] = FALSE]
        BY <2>9, <3>1 DEF Requeue, Requeues, Becomes, Stamps, Claiming
      <4>2. f \in Execs
        BY <1>0, <2>9, GateListed DEF Requeue
      <4>3. Rest /\ at'[g] \in {"idle", "next"}
        BY <2>2, <4>1 DEF Stamps, Stamp
      <4>4. \A h \in Gates : FlagStarted(h)'
        <5> SUFFICES ASSUME NEW h \in Gates \ {g} PROVE FlagStarted(h)'
          BY <1>1, <4>3
        <5>1. /\ at'[h] # "flag"
              /\ at'[h] \in {"read", "claimed"} => reqs'[Gate(h).req].handled
          BY <1>0, <4>1, RequeueIsAlone
        <5>2. Gate(h)' = Gate(h)
          BY <4>3 DEF Gate
        <5>3. QED
          BY <5>1, <5>2 DEF FlagStarted
      <4>5. Plain(RequeuedRow(rows[f]))
        BY <1>0, <4>2 DEF Plain, RequeuedRow, ExecutionOK, Row
      <4>6. QED
        BY <1>0, <4>1, <4>2, <4>4, <4>5 DEF ExecutionOK, HistoryOK
    <3>2. CASE ~CanRequeue(rows[f])
      BY <2>3, <2>9, <3>2 DEF Requeue
    <3>3. QED
      BY <3>1, <3>2
  <2>10. CASE CancelPending(g)
    <3>1. /\ rows' = [rows EXCEPT ![f] = CancelledPendingRow(rows[f])]
          /\ halted' = [halted EXCEPT ![f] = TRUE] /\ Stamp(g)
      BY <2>10 DEF CancelPending, Becomes, Halts
    <3>2. f \in Execs
      BY <1>0, <2>10, GateListed DEF CancelPending
    <3>3. Rest /\ at'[g] \in {"idle", "next"}
      BY <2>2, <3>1 DEF Stamp
    <3>4. CancelledPendingRow(rows[f]).status = "cancelled"
      BY <1>0, <3>2 DEF CancelledPendingRow, ExecutionOK, Row
    <3>5. /\ rows'[f].status = "cancelled"
          /\ \A e \in Execs \ {f} : rows'[e] = rows[e] /\ halted'[e] = halted[e]
      BY <1>0, <3>1, <3>2, <3>4 DEF ExecutionOK, HistoryOK
    <3>6. \A h \in Gates : FlagStarted(h)'
      BY <1>1, <1>2, <3>3, <3>5
    <3>7. \A e \in Execs : Plain(rows'[e]) /\ (halted'[e] => Stopped(rows'[e]))
      BY <1>0, <3>5 DEF Plain, Stopped
    <3>8. QED
      BY <3>6, <3>7
  <2>11. CASE MissPending(g)
    <3>1. /\ Rest /\ at'[g] = "flag" /\ UNCHANGED <<rows, halted, todo, reqs>>
          /\ at[g] # "idle" /\ ~CanCancelPending(rows[f])
      BY <1>0, <2>11 DEF MissPending, SweepOK, execution, history, requests
    <3>2. f \in Execs
      BY <1>0, <3>1, GateListed
    <3>3. rows[f].status \notin Pending
      BY <1>0, <3>1, <3>2 DEF Plain, CanCancelPending
    <3>4. FlagStarted(g)'
      BY <3>1, <3>3 DEF FlagStarted, Gate, ExecOf
    <3>5. QED
      BY <2>1, <3>1, <3>4
  <2>12. CASE CancelRunning(g)
    <3>0. /\ CanFinish(rows[f]) => rows' = [rows EXCEPT ![f] = FlaggedRow(rows[f])]
          /\ ~CanFinish(rows[f]) => rows' = rows
      BY <2>12 DEF CancelRunning
    <3>1. /\ halted' = [halted EXCEPT ![f] = TRUE] /\ Stamp(g) /\ at[g] \in Claiming
          /\ \/ at[g] = "flag"
             \/ at[g] = "claimed" /\ seen[g] = "running"
      BY <2>12 DEF CancelRunning, Halts, Claiming
    <3>2. f \in Execs
      BY <1>0, <3>1, GateListed DEF Claiming
    <3>3. Rest /\ at'[g] \in {"idle", "next"}
      BY <2>2, <3>1 DEF Stamp
    <3>4. rows[f].status \notin Pending
      BY <1>0, <3>1 DEF FlagStarted, LockInv
    <3>5. /\ \A e \in Execs \ {f} : rows'[e] = rows[e] /\ halted'[e] = halted[e]
          /\ rows'[f].status = rows[f].status
          /\ rows[f].status = "running" => rows'[f].cancel
      <4>1. rows \in [Execs -> Row] /\ rows[f] \in Row /\ halted \in [Execs -> BOOLEAN]
        BY <1>0, <3>2 DEF ExecutionOK, HistoryOK
      <4>2. /\ FlaggedRow(rows[f]).status = rows[f].status
            /\ FlaggedRow(rows[f]).cancel = TRUE
        BY <4>1 DEF FlaggedRow, Row
      <4>3. rows[f].status = "running" => CanFinish(rows[f]) \/ rows[f].cancel
        BY DEF CanFinish
      <4>4. \A e \in Execs \ {f} : halted'[e] = halted[e]
        BY <3>1, <4>1
      <4>5. CASE CanFinish(rows[f])
        <5>1. rows' = [rows EXCEPT ![f] = FlaggedRow(rows[f])]
          BY <3>0, <4>5
        <5>2. /\ rows'[f] = FlaggedRow(rows[f])
              /\ \A e \in Execs \ {f} : rows'[e] = rows[e]
          BY <3>2, <4>1, <5>1
        <5>3. QED
          BY <4>2, <4>4, <5>2
      <4>6. CASE ~CanFinish(rows[f])
        BY <3>0, <4>3, <4>4, <4>6
      <4>7. QED
        BY <4>5, <4>6
    <3>6. \A h \in Gates : FlagStarted(h)'
      BY <1>1, <1>2, <3>3, <3>5
    <3>7. \A e \in Execs : Plain(rows'[e]) /\ (halted'[e] => Stopped(rows'[e]))
      BY <1>0, <3>4, <3>5 DEF Plain, Stopped
    <3>8. QED
      BY <3>6, <3>7
  <2>13. CASE GateFails(g)
    BY <2>3, <2>13 DEF GateFails
  <2>14. QED
    BY <1>8, <2>4, <2>5, <2>6, <2>7, <2>8, <2>9, <2>10, <2>11, <2>12, <2>13 DEF GateStep
<1>9. CASE ToggleAutomation
  BY <1>3, <1>9 DEF ToggleAutomation, sweep, history
<1>10. QED
  BY <1>4, <1>5, <1>6, <1>7, <1>8, <1>9 DEF Next

\* When executions are not retried and decisions are made one at a time, an
\* execution that a gate has cancelled is settled or flagged, whatever
\* workers, users and other gates do, until a gate puts it back on request.
THEOREM DenialHolds ==
    ASSUME ~Retries, MaxDeciding = 1
    PROVE  Spec => []DenialStops
<1> DEFINE Inv == LockInv /\ SerialInv /\ OrderInv /\ NoOvertaking /\ DenialInv
<1>1. Init => Inv
  <2> SUFFICES ASSUME Init PROVE Inv
    OBVIOUS
  <2>1. LockInv /\ SerialInv
    BY EmptySeq DEF Init, LockInv, Claiming, SerialInv, OneInFlight, InFlightOpen,
                    ListedCurrent
  <2>2. DOMAIN order = {} /\ \A g \in Gates : DOMAIN todo[g] = {}
    BY EmptySeq, LenProperties DEF Init
  <2>3. \A r \in Requests : reqs[r].status = "none"
    <3> TAKE r \in Requests
    <3>1. PICK e \in Execs : reqs[r] = [status |-> "none", exec |-> e, handled |-> FALSE]
      BY DEF Init
    <3>2. QED
      BY <3>1
  <2>4. OrderInv /\ NoOvertaking
    BY <2>2, <2>3 DEF OrderInv, NoOvertaking, Verdicts
  <2>5. DenialInv
    BY DEF Init, DenialInv, FlagsStarted, DenialStops, Plain, QueuedRow, NoRow
  <2>6. QED
    BY <2>1, <2>4, <2>5
<1>2. IInv /\ Inv /\ [Next]_vars => Inv'
  BY LockStep, SerialStep, OrderStep, DenialStep
<1>3. Inv => DenialStops
  BY DEF DenialInv
<1>4. QED
  BY InitIInv, IInvStep, <1>1, <1>2, <1>3, PTL DEF Spec
=============================================================================
