----------------------------- MODULE ServicesMC -----------------------------
(***************************************************************************)
(* Model checking of components that share no state; see AutomationMC.     *)
(***************************************************************************)
EXTENDS DeliveryOutbox, AccountSessions, AccountTokens, TeamMembership,
        LeadImports, LeadPipeline, LeadAssignment, TaskBoard,
        ModelRuns, StepEngine, CronTime, ApiRequests

VARIABLE focus

accountVars == <<sessionVars, secretVars, teamVars>>
salesVars == <<importVars, pipelineVars, assignVars, taskVars>>
platformVars == <<outboxVars, modelVars, engineVars, cronVars, apiVars>>
vars == <<focus, accountVars, salesVars, platformVars>>

Init ==
    /\ focus \in {"sessions", "tokens", "team", "imports", "pipeline", "assignment", "tasks",
                  "outbox", "models", "workflows", "cron", "api"}
    /\ SessionInit /\ SecretInit /\ TeamInit
    /\ ImportInit /\ PipelineInit /\ AssignInit /\ TaskInit
    /\ OutboxInit /\ ModelInit /\ EngineInit /\ CronInit /\ ApiInit
    /\ \A d \in Deliveries :
          mail[d] # NoMail => focus = "outbox" /\ \A x \in Deliveries : x <= d
    /\ focus # "workflows" => workflow.mode = "builtin" /\ workflow.steps = <<>>
    /\ focus # "cron" => \A f \in DOMAIN cron : cron[f] = {}

Accounts ==
    /\ \/ focus = "sessions" /\ SessionNext /\ UNCHANGED <<secretVars, teamVars>>
       \/ focus = "tokens" /\ SecretNext /\ UNCHANGED <<sessionVars, teamVars>>
       \/ focus = "team" /\ TeamNext /\ UNCHANGED <<sessionVars, secretVars>>
    /\ UNCHANGED <<focus, salesVars, platformVars>>

Sales ==
    /\ \/ focus = "imports" /\ ImportNext /\ UNCHANGED <<pipelineVars, assignVars, taskVars>>
       \/ focus = "pipeline" /\ PipelineNext /\ UNCHANGED <<importVars, assignVars, taskVars>>
       \/ focus = "assignment" /\ AssignNext /\ UNCHANGED <<importVars, pipelineVars, taskVars>>
       \/ focus = "tasks" /\ TaskNext /\ UNCHANGED <<importVars, pipelineVars, assignVars>>
    /\ UNCHANGED <<focus, accountVars, platformVars>>

Platform ==
    /\ \/ focus = "outbox" /\ OutboxNext
          /\ UNCHANGED <<modelVars, engineVars, cronVars, apiVars>>
       \/ focus = "models" /\ ModelNext
          /\ UNCHANGED <<outboxVars, engineVars, cronVars, apiVars>>
       \/ focus = "workflows" /\ EngineNext
          /\ UNCHANGED <<outboxVars, modelVars, cronVars, apiVars>>
       \/ focus = "cron" /\ CronNext
          /\ UNCHANGED <<outboxVars, modelVars, engineVars, apiVars>>
       \/ focus = "api" /\ ApiNext
          /\ UNCHANGED <<outboxVars, modelVars, engineVars, cronVars>>
    /\ UNCHANGED <<focus, accountVars, salesVars>>

Next == Accounts \/ Sales \/ Platform

\* the fairness of the outbox, where a behaviour is about it
Fairness ==
    /\ \A w \in Senders : WF_outboxVars(focus = "outbox" /\ SenderStep(w))
    /\ \A d \in Deliveries : WF_outboxVars(focus = "outbox" /\ MailFallsDue(d))

Spec == Init /\ [][Next]_vars /\ Fairness

\* The rows, sessions and processes of every component are what their types and
\* the conditions beside them say, in every state the code can reach.
ServiceTypesOK ==
    /\ SessionTypeOK /\ SecretTypeOK /\ TeamTypeOK
    /\ ImportTypeOK /\ PipelineTypeOK /\ AssignTypeOK
    /\ TaskTypeOK /\ CompletedHasTime
    /\ OutboxTypeOK /\ ModelTypeOK /\ TraceComplete
    /\ EngineTypeOK /\ CronTypeOK /\ ApiTypeOK
=============================================================================
