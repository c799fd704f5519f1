---------------------------- MODULE AutomationMC ----------------------------
(***************************************************************************)
(* Model checking of the components that workers drive, and that share no  *)
(* state: what a behaviour is about is chosen in the initial state, so     *)
(* that TLC explores each of them on its own in one run.                   *)
(***************************************************************************)
EXTENDS AgentRuns, ScheduleDispatch, EventFanout, FounderActions,
        CredentialKeys, DataRetention, SignalTriage

VARIABLE focus

queueVars == <<agentVars, scheduleVars, fanoutVars, founderVars>>
upkeepVars == <<keyVars, retentionVars, triageVars>>
vars == <<focus, queueVars, upkeepVars>>

Init ==
    /\ focus \in {"agents", "schedule", "events", "founder", "keys", "retention", "triage"}
    /\ AgentInit /\ ScheduleInit /\ FanoutInit /\ FounderInit
    /\ KeyInit /\ RetentionInit /\ TriageInit
    /\ focus # "schedule" =>
          \A t \in Triggers : trigger[t].cron = (CHOOSE cron \in Crons : TRUE)
    /\ (stored = {}) = (focus # "retention")

Queues ==
    /\ \/ focus = "agents" /\ AgentNext
          /\ UNCHANGED <<scheduleVars, fanoutVars, founderVars>>
       \/ focus = "schedule" /\ ScheduleNext
          /\ UNCHANGED <<agentVars, fanoutVars, founderVars>>
       \/ focus = "events" /\ FanoutNext
          /\ UNCHANGED <<agentVars, scheduleVars, founderVars>>
       \/ focus = "founder" /\ FounderNext
          /\ UNCHANGED <<agentVars, scheduleVars, fanoutVars>>
    /\ UNCHANGED <<focus, upkeepVars>>

Upkeep ==
    /\ \/ focus = "keys" /\ KeyNext /\ UNCHANGED <<retentionVars, triageVars>>
       \/ focus = "retention" /\ RetentionNext /\ UNCHANGED <<keyVars, triageVars>>
       \/ focus = "triage" /\ TriageNext /\ UNCHANGED <<keyVars, retentionVars>>
    /\ UNCHANGED <<focus, queueVars>>

Next == Queues \/ Upkeep

\* the fairness of the components, each where a behaviour is about it
Fairness ==
    /\ \A w \in AgentWorkers : WF_agentVars(focus = "agents" /\ AgentStep(w))
    /\ \A r \in Runs : WF_agentVars(focus = "agents" /\ RunFallsOverdue(r))
    /\ \A w \in Dispatchers : WF_scheduleVars(focus = "schedule" /\ DispatchStep(w))
    /\ WF_scheduleVars(focus = "schedule" /\ MinutePasses)
    /\ WF_keyVars(focus = "keys" /\ ListStale)
    /\ SF_keyVars(focus = "keys" /\ Rekey) /\ SF_keyVars(focus = "keys" /\ RetirePrevious)
    /\ WF_keyVars(focus = "keys" /\ RestartWorker)
    /\ \A s \in Sweeps : WF_retentionVars(focus = "retention" /\ SweepStep(s))
    /\ \A t \in Triagers : SF_triageVars(focus = "triage" /\ TriageStep(t))
    /\ \A f \in Deciders : WF_triageVars(focus = "triage" /\ MarkingEnds(f))

Spec == Init /\ [][Next]_vars /\ Fairness

\* The rows and processes of every component are what their types and the
\* conditions beside them say, in every state the code can reach.
AutomationTypesOK ==
    /\ AgentTypeOK /\ ScheduleTypeOK /\ FanoutTypeOK /\ FounderTypeOK
    /\ KeyTypeOK /\ RetentionTypeOK /\ TriageTypeOK
=============================================================================
