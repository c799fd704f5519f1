----------------------------- MODULE AgentRuns -----------------------------
(***************************************************************************)
(* The agent runs of one organization: the rows of agent_runs,             *)
(* AgentService's handlers, the organization's AI switch, and any number   *)
(* of AgentWorker processes sweeping through queued, cancels and stuck.    *)
(*                                                                         *)
(* A guarded UPDATE that matches nothing is answered by a rollback, which  *)
(* expires every object of the session: the next attribute the phase reads *)
(* of a listed run raises MissingGreenlet, in the loop or in the handler   *)
(* that logs run.id, and the sweep is over (see Visited).                  *)
(***************************************************************************)
EXTENDS Naturals, FiniteSets

CONSTANTS
    Runs,           \* numbers: the order of created_at; an element also
                    \* stands for the idempotency key
    AgentWorkers,   \* agent worker processes
    NoRun,          \* the run of a worker that executes none
    AgentBatch,     \* AGENT_RUN_BATCH_SIZE
    MaxAgentFaults, \* bound of the model: crashes and broken transactions
    MaxSwitches     \* bound of the model: changes of the AI switch

ASSUME AgentAssumption ==
    /\ Runs \subseteq Nat /\ NoRun \notin Runs
    /\ {AgentBatch, MaxAgentFaults, MaxSwitches} \subseteq Nat

VARIABLES
    run,            \* run[r]: the committed row of r
    aiEnabled,      \* not organizations.settings.ai.kill_switch
    agentAt,        \* agentAt[w]: where worker w is
    agentBatch,     \* agentBatch[w]: listed by the phase and not visited
    current,        \* current[w]: the run w has checked or executes
    agentFaults, switches

agentSweeps == <<agentAt, agentBatch, current>>
agentVars == <<run, aiEnabled, agentSweeps, agentFaults, switches>>

RunStatus == {"absent", "queued", "running", "succeeded", "failed", "cancelled"}

\* flag: cancel_requested_at; overdue: started_at is before the cutoff
AgentRow == [status : RunStatus, flag : BOOLEAN, overdue : BOOLEAN]

AgentTypeOK ==
    /\ run \in [Runs -> AgentRow]
    /\ aiEnabled \in BOOLEAN
    /\ agentAt \in [AgentWorkers ->
          {"idle", "queued", "checked", "executing", "cancels", "stuck"}]
    /\ agentBatch \in [AgentWorkers -> SUBSET Runs]
    /\ current \in [AgentWorkers -> Runs \cup {NoRun}]
    /\ \A w \in AgentWorkers :
          (current[w] # NoRun) <=> (agentAt[w] \in {"checked", "executing"})
    /\ agentFaults \in 0..MaxAgentFaults /\ switches \in 0..MaxSwitches

AgentInit ==
    /\ run = [r \in Runs |->
                 [status |-> "absent", flag |-> FALSE, overdue |-> FALSE]]
    /\ aiEnabled = TRUE
    /\ agentAt = [w \in AgentWorkers |-> "idle"]
    /\ agentBatch = [w \in AgentWorkers |-> {}]
    /\ current = [w \in AgentWorkers |-> NoRun]
    /\ agentFaults = 0 /\ switches = 0

\* state_machine._ALLOWED_TRANSITIONS
AllowedTransitions ==
    [s \in RunStatus |->
        CASE s = "absent" -> {"queued"}
          [] s = "queued" -> {"running", "failed", "cancelled"}
          [] s = "running" -> {"succeeded", "failed", "cancelled"}
          [] OTHER -> {}]

RunsIn(s) == {r \in Runs : run[r].status = s}
Earliest(S) == {r \in S : Cardinality({x \in S : x < r}) < AgentBatch}
FirstOf(S) == CHOOSE r \in S : \A x \in S : r <= x

-----------------------------------------------------------------------------
(* The guarded UPDATEs of AgentRunRepository: the row after, or the row    *)
(* itself when nothing matches.                                            *)

RunTo(r, guard, s) == IF guard THEN [run[r] EXCEPT !.status = s] ELSE run[r]

\* mark_started
CanStart(r) == run[r].status = "queued" /\ ~run[r].flag

MarkFailedIfQueued(r) == RunTo(r, run[r].status = "queued", "failed")

MarkCancelledAfterRun(r) ==
    RunTo(r, run[r].status = "running" /\ run[r].flag, "cancelled")

Completed_IgnoresFlag(r) ==
    IF run[r].status = "running" THEN [run[r] EXCEPT !.status = "succeeded"] ELSE run[r]

\* complete_run: mark_succeeded, else mark_cancelled_after_run
Completed(r) ==
    IF run[r].status = "running" /\ ~run[r].flag
    THEN [run[r] EXCEPT !.status = "succeeded"]
    ELSE MarkCancelledAfterRun(r)

\* fail_run: mark_failed, else mark_cancelled_after_run
Failed(r) ==
    IF run[r].status = "running" /\ ~run[r].flag
    THEN [run[r] EXCEPT !.status = "failed"]
    ELSE MarkCancelledAfterRun(r)

\* cancel_run: CANCELLED at once while pending, else a flag for the worker
CancelOf(r) ==
    CASE run[r].status = "queued" /\ ~run[r].flag ->
            [run[r] EXCEPT !.status = "cancelled", !.flag = TRUE]
      [] run[r].status = "running" -> [run[r] EXCEPT !.flag = TRUE]
      [] OTHER -> run[r]

-----------------------------------------------------------------------------
(* AgentService and AIService handlers.                                    *)

\* create_run(): insert; an existing key returns the existing row
CreateRun(r) ==
    /\ run[r].status = "absent"
    /\ run' = [run EXCEPT ![r].status = "queued"]
    /\ UNCHANGED <<aiEnabled, agentSweeps, agentFaults, switches>>

CancelRun(r) ==
    /\ CancelOf(r) # run[r]
    /\ run' = [run EXCEPT ![r] = CancelOf(r)]
    /\ UNCHANGED <<aiEnabled, agentSweeps, agentFaults, switches>>

\* update_ai_settings(kill_switch = ...)
SwitchAI ==
    /\ switches < MaxSwitches
    /\ switches' = switches + 1
    /\ aiEnabled' = ~aiEnabled
    /\ UNCHANGED <<run, agentSweeps, agentFaults>>

\* AGENT_RUN_TIMEOUT_SECONDS after started_at
RunFallsOverdue(r) ==
    /\ run[r].status = "running" /\ ~run[r].overdue
    /\ run' = [run EXCEPT ![r].overdue = TRUE]
    /\ UNCHANGED <<aiEnabled, agentSweeps, agentFaults, switches>>

-----------------------------------------------------------------------------
(* AgentWorker.sweep() and AgentRuntime.execute_run().                     *)

AgentGoes(w, phase, batch, r) ==
    /\ agentAt' = [agentAt EXCEPT ![w] = phase]
    /\ agentBatch' = [agentBatch EXCEPT ![w] = batch]
    /\ current' = [current EXCEPT ![w] = r]

\* the update of r matched: on with the batch; it did not: see above.  The
\* queued phase trips over the next run it reads, the others over their log.
Visited(w, r, row, phase) ==
    /\ run' = [run EXCEPT ![r] = row]
    /\ IF row # run[r] \/ (phase = "queued" /\ agentBatch[w] = {r})
       THEN AgentGoes(w, phase, agentBatch[w] \ {r}, NoRun)
       ELSE AgentGoes(w, "idle", {}, NoRun)

BeginQueued(w) ==
    /\ agentAt[w] = "idle"
    /\ AgentGoes(w, "queued", Earliest(RunsIn("queued")), NoRun)
    /\ UNCHANGED <<run, aiEnabled, agentFaults, switches>>

\* assert_ai_enabled(): with the switch off, or no executor for the agent,
\* the run fails before it is dispatched
CheckRun(w) ==
    /\ agentAt[w] = "queued" /\ agentBatch[w] # {}
    /\ LET r == FirstOf(agentBatch[w])
       IN  \/ aiEnabled /\ AgentGoes(w, "checked", agentBatch[w], r) /\ UNCHANGED run
           \/ Visited(w, r, MarkFailedIfQueued(r), "queued")
    /\ UNCHANGED <<aiEnabled, agentFaults, switches>>

StartRun(w) ==
    /\ agentAt[w] = "checked"
    /\ LET r == current[w]
       IN  IF CanStart(r)
           THEN /\ run' = [run EXCEPT ![r].status = "running"]
                /\ AgentGoes(w, "executing", agentBatch[w], r)
           ELSE Visited(w, r, run[r], "queued")
    /\ UNCHANGED <<aiEnabled, agentFaults, switches>>

\* the executor returned, raised or timed out: _finish()
FinishRun(w) ==
    /\ agentAt[w] = "executing"
    /\ LET r == current[w]
       IN  \/ Visited(w, r, Completed(r), "queued")
           \/ Visited(w, r, Failed(r), "queued")
    /\ UNCHANGED <<aiEnabled, agentFaults, switches>>

BeginCancels(w) ==
    /\ agentAt[w] = "queued" /\ agentBatch[w] = {}
    /\ AgentGoes(w, "cancels", Earliest({r \in RunsIn("running") : run[r].flag}), NoRun)
    /\ UNCHANGED <<run, aiEnabled, agentFaults, switches>>

ApplyCancel(w) ==
    /\ agentAt[w] = "cancels" /\ agentBatch[w] # {}
    /\ LET r == FirstOf(agentBatch[w])
       IN  Visited(w, r, MarkCancelledAfterRun(r), "cancels")
    /\ UNCHANGED <<aiEnabled, agentFaults, switches>>

BeginStuck_OnlyFlagged(w) ==
    /\ agentAt[w] = "cancels" /\ agentBatch[w] = {}
    /\ AgentGoes(w, "stuck", {r \in RunsIn("running") : run[r].overdue /\ run[r].flag}, NoRun)
    /\ UNCHANGED <<run, aiEnabled, agentFaults, switches>>

BeginStuck(w) ==
    /\ agentAt[w] = "cancels" /\ agentBatch[w] = {}
    /\ AgentGoes(w, "stuck", {r \in RunsIn("running") : run[r].overdue}, NoRun)
    /\ UNCHANGED <<run, aiEnabled, agentFaults, switches>>

FailStuck(w) ==
    /\ agentAt[w] = "stuck" /\ agentBatch[w] # {}
    /\ LET r == FirstOf(agentBatch[w])
       IN  Visited(w, r, Failed(r), "stuck")
    /\ UNCHANGED <<aiEnabled, agentFaults, switches>>

EndAgentSweep(w) ==
    /\ agentAt[w] = "stuck" /\ agentBatch[w] = {}
    /\ AgentGoes(w, "idle", {}, NoRun)
    /\ UNCHANGED <<run, aiEnabled, agentFaults, switches>>

AgentFails_KeepsRun(w) ==
    /\ agentAt[w] # "idle" /\ agentFaults < MaxAgentFaults
    /\ agentFaults' = agentFaults + 1
    /\ AgentGoes(w, "idle", {}, current[w])
    /\ UNCHANGED <<run, aiEnabled, switches>>

\* the process dies, or the executor leaves the session in a failed
\* transaction, so that _finish() raises: the run stays RUNNING
AgentFails(w) ==
    /\ agentAt[w] # "idle" /\ agentFaults < MaxAgentFaults
    /\ agentFaults' = agentFaults + 1
    /\ AgentGoes(w, "idle", {}, NoRun)
    /\ UNCHANGED <<run, aiEnabled, switches>>

AgentStep(w) ==
    \/ BeginQueued(w) \/ CheckRun(w) \/ StartRun(w) \/ FinishRun(w)
    \/ BeginCancels(w) \/ ApplyCancel(w)
    \/ BeginStuck(w) \/ FailStuck(w) \/ EndAgentSweep(w)

AgentNext ==
    \/ \E r \in Runs : CreateRun(r) \/ CancelRun(r) \/ RunFallsOverdue(r)
    \/ SwitchAI
    \/ \E w \in AgentWorkers : AgentStep(w) \/ AgentFails(w)

\* run_loop() sweeps for ever; the executor is cut off by wait_for()
AgentFairness ==
    /\ \A w \in AgentWorkers : WF_agentVars(AgentStep(w))
    /\ \A r \in Runs : WF_agentVars(RunFallsOverdue(r))

AgentSpec == AgentInit /\ [][AgentNext]_agentVars /\ AgentFairness

-----------------------------------------------------------------------------
\* cancel_run(): "the worker honours the flag when the executor returns and
\* lands on CANCELLED", whether the executor, another worker's cancel phase or
\* the stuck phase comes first, and whatever the executor returned.
CancelWins ==
    [][\A r \in Runs : run[r].status = "running" /\ run[r].flag
          => run'[r].status \in {"running", "cancelled"}]_agentVars

\* reconcile_stuck(): no run is left queued or RUNNING, though its worker died
\* and though every lost race ends a sweep.
RunsEnd ==
    \A r \in Runs :
        run[r].status \in {"queued", "running"}
            ~> run[r].status \in {"succeeded", "failed", "cancelled"}
=============================================================================
