------------------------------ MODULE ApiRoutes ------------------------------
(***************************************************************************)
(* The routes of the HTTP API: which handler each serves, the permission   *)
(* its dependencies ask for, whether the handler (with the service calls   *)
(* it makes) changes rows, and whether it commits what it changed.  The    *)
(* session of a request is never committed by anybody else.                *)
(***************************************************************************)
EXTENDS Naturals, FiniteSets

UserRoles == {"owner", "admin", "manager", "member", "sales_agent", "viewer"}

\* _READ, _WRITE, _MANAGE and _ADMIN_ONLY.
Readers == UserRoles
Writers == UserRoles \ {"viewer"}
Managers == {"owner", "admin", "manager"}
Administrators == {"owner", "admin"}

\* PERMISSION_MATRIX by the set each permission is given; "admin" is
\* require_role(OWNER, ADMIN), "any" a route for every user and "public" one
\* without get_current_user.
HasPermission(role, permission) ==
    \/ role = "visitor" /\ permission = "public"
    \/ /\ role \in Readers
       /\ permission \in {"any", "lead_read", "task_read", "note_read", "workflow_read",
                          "execution_read", "automation_read", "memory_read", "approval_read",
                          "notification_read", "agent_read", "delivery_read", "founder_read"}
    \/ /\ role \in Writers
       /\ permission \in {"lead_write", "task_write", "note_write", "workflow_write",
                          "automation_write", "notification_write", "delivery_write", "ai_run"}
    \/ /\ role \in Managers
       /\ permission \in {"lead_delete", "lead_assign", "ai_manage", "task_manage", "export",
                          "workflow_manage", "memory_write", "approval_manage", "growth_read",
                          "founder_manage"}
    \/ /\ role \in Administrators
       /\ permission \in {"admin", "pipeline_manage", "team_manage", "invite_manage",
                          "audit_read", "automation_manage", "automation_control",
                          "credential_manage", "growth_manage", "agent_manage",
                          "delivery_manage"}

\* Handlers that only read; that commit every change they make before they
\* return; and that change a row and return without a commit.
ReadsFor(needs, handlers) ==
    {[handler |-> h, needs |-> needs, writes |-> FALSE, commits |-> FALSE] : h \in handlers}
WritesFor(needs, handlers) ==
    {[handler |-> h, needs |-> needs, writes |-> TRUE, commits |-> TRUE] : h \in handlers}
UnkeptFor(needs, handlers) ==
    {[handler |-> h, needs |-> needs, writes |-> TRUE, commits |-> FALSE] : h \in handlers}

-----------------------------------------------------------------------------
ActivityRoutes == ReadsFor("any", {"list_activity"})

AgentStatesRoutes ==
    ReadsFor("agent_read", {"list_agent_states", "list_agent_runs"})
    \cup WritesFor("agent_manage", {"upsert_agent_state"})

AgentRunCallsRoutes ==
    WritesFor("agent_manage", {"create_agent_run", "cancel_agent_run",
             "update_agent_run"})
    \cup ReadsFor("agent_read", {"get_agent_run"})

AISettingsRoutes ==
    ReadsFor("any", {"get_ai_settings"})
    \cup WritesFor("ai_manage", {"update_ai_settings"})

AICallsRoutes ==
    ReadsFor("any", {"list_tools"})
    \cup WritesFor("ai_run", {"run_brain"})
    \cup ReadsFor("lead_write", {"dispatch"})

ApprovalsRoutes ==
    ReadsFor("approval_read", {"list_approvals", "pending_count", "get_approval",
             "list_approval_logs"})
    \cup WritesFor("approval_manage", {"create_approval", "decide_approval"})

AssignmentRoutes ==
    ReadsFor("any", {"get_rule", "assignment_history"})
    \cup WritesFor("lead_assign", {"put_rule", "assign_unassigned"})
    \cup UnkeptFor("lead_assign", {"assign_lead"})

AuditRoutes == ReadsFor("audit_read", {"list_audit", "entity_audit"})

SessionsRoutes ==
    WritesFor("public", {"register", "login", "refresh"})
    \cup WritesFor("any", {"logout"})

AccountsRoutes ==
    ReadsFor("any", {"me"})
    \cup WritesFor("any", {"change_password"})
    \cup WritesFor("public", {"verify_email", "resend_verification",
             "password_reset_request", "password_reset_confirm"})

SecondFactorRoutes ==
    WritesFor("any", {"mfa_enroll", "mfa_activate", "mfa_disable"})
    \cup WritesFor("public", {"mfa_verify"})

AutomationControlRoutes ==
    UnkeptFor("automation_control", {"get_automation_status"})
    \cup WritesFor("automation_control", {"pause_automation", "resume_automation"})

CommunicationsRoutes ==
    ReadsFor("notification_read", {"communications_summary"})
    \cup ReadsFor("growth_read", {"communications_summary"})
    \cup ReadsFor("approval_read", {"communications_summary"})

ConversationsRoutes ==
    ReadsFor("any", {"list_open", "list_for_lead", "get_conversation",
             "list_messages"})
    \cup WritesFor("any", {"create_conversation", "update_conversation", "add_message"})

CredentialsRoutes ==
    ReadsFor("credential_manage", {"list_credentials", "get_credential"})
    \cup WritesFor("credential_manage", {"create_credential", "update_credential",
             "rotate_credential"})
    \cup UnkeptFor("credential_manage", {"delete_credential"})

DashboardRoutes == ReadsFor("any", {"dashboard_summary"})

DeliveriesRoutes ==
    ReadsFor("delivery_read", {"list_deliveries", "get_delivery",
             "get_delivery_events"})
    \cup ReadsFor("delivery_write", {"create_delivery"})
    \cup WritesFor("delivery_manage", {"retry_delivery", "cancel_delivery"})

ExportsRoutes == ReadsFor("export", {"export_leads"})

BriefingsRoutes ==
    ReadsFor("growth_read", {"list_briefings", "latest_briefing", "get_briefing"})
    \cup WritesFor("growth_manage", {"create_briefing"})

InsightsRoutes ==
    ReadsFor("growth_read", {"list_insights", "insight_counts", "get_insight"})
    \cup WritesFor("growth_manage", {"update_insight", "delete_insight", "create_insight"})

FounderChatRoutes ==
    WritesFor("founder_manage", {"founder_chat", "decide_proposal"})
    \cup ReadsFor("founder_read", {"list_conversations", "get_conversation",
             "list_proposals"})
    \cup UnkeptFor("founder_manage", {"delete_conversation"})

MetricsRoutes ==
    ReadsFor("growth_read", {"list_metrics", "metric_types", "list_forecasts",
             "latest_forecast"})
    \cup WritesFor("growth_manage", {"create_metric"})

ForecastsRoutes ==
    WritesFor("growth_manage", {"create_forecast", "run_analysis",
             "run_all_analyses"})
    \cup ReadsFor("growth_read", {"get_forecast", "get_metric", "list_analyses"})

AnalysesRoutes ==
    ReadsFor("growth_read", {"get_analysis", "list_recommendations",
             "recommendation_counts", "list_scenarios"})
    \cup WritesFor("growth_manage", {"update_recommendation", "create_scenario"})

ScenariosRoutes ==
    ReadsFor("growth_read", {"get_scenario", "get_health_weights"})
    \cup WritesFor("growth_manage", {"delete_scenario", "upsert_health_weights",
             "run_forecast"})

HealthRoutes == ReadsFor("public", {"liveness", "readiness", "health_alias"})

ImportsRoutes ==
    WritesFor("admin", {"create_import", "cancel_import"})
    \cup ReadsFor("any", {"list_imports", "get_import", "get_import_errors"})

IntelligenceRoutes ==
    ReadsFor("founder_read", {"list_signals", "get_signal", "signal_summary"})
    \cup UnkeptFor("founder_manage", {"update_signal"})
    \cup WritesFor("founder_manage", {"run_triage"})

LeadSourcesRoutes ==
    ReadsFor("any", {"list_sources", "get_source"})
    \cup WritesFor("admin", {"create_source", "update_source"})

LeadsRoutes ==
    WritesFor("lead_write", {"create_lead", "update_lead"})
    \cup ReadsFor("lead_read", {"list_leads", "get_lead"})
    \cup ReadsFor("any", {"lead_funnel", "check_duplicates"})
    \cup WritesFor("lead_delete", {"delete_lead"})

MemoriesRoutes ==
    ReadsFor("memory_read", {"list_memories", "list_knowledge", "search_knowledge"})
    \cup WritesFor("memory_write", {"create_memory", "create_knowledge"})

KnowledgeRoutes ==
    ReadsFor("memory_read", {"get_knowledge", "get_memory"})
    \cup WritesFor("memory_write", {"update_knowledge", "delete_knowledge",
             "update_memory", "delete_memory"})

StatisticsRoutes ==
    ReadsFor("automation_manage", {"get_operational_summary",
             "get_delivery_statistics", "get_worker_statistics",
             "get_schedule_statistics", "get_retention_statistics"})
    \cup ReadsFor("automation_read", {"get_execution_statistics"})

MonitoringRoutes ==
    ReadsFor("automation_read", {"get_automation_lifecycle", "get_execution_timeline",
             "get_execution_history", "get_queue_status",
             "get_monitoring_information"})
    \cup ReadsFor("automation_manage", {"get_heartbeat_visibility"})

NotesRoutes ==
    ReadsFor("note_read", {"list_notes", "get_note"})
    \cup WritesFor("note_write", {"create_note", "update_note", "delete_note"})

NotificationsRoutes ==
    ReadsFor("notification_read", {"list_notifications", "unread_count",
             "counts_by_type", "get_notification"})
    \cup WritesFor("notification_write", {"create_notification"})
    \cup WritesFor("notification_read", {"update_notification", "mark_notification_read"})

OutreachMessagesRoutes ==
    ReadsFor("any", {"list_messages", "get_message", "list_lead_attempts"})
    \cup WritesFor("admin", {"create_message", "update_message", "delete_message"})
    \cup WritesFor("lead_write", {"create_attempt"})

OutreachTasksRoutes ==
    WritesFor("lead_write", {"update_attempt", "create_follow_up", "update_follow_up",
             "create_manual_task", "update_manual_task"})
    \cup ReadsFor("any", {"list_lead_follow_ups", "list_manual_tasks", "get_manual_task"})

StagesRoutes ==
    WritesFor("any", {"list_stages"})
    \cup WritesFor("pipeline_manage", {"create_stage", "update_stage", "delete_stage",
             "reorder_stages"})

BoardRoutes ==
    WritesFor("any", {"list_close_reasons", "board", "move_lead"})
    \cup WritesFor("pipeline_manage", {"create_close_reason", "delete_close_reason"})

ProviderUsageRoutes ==
    ReadsFor("any", {"list_usage", "usage_totals"})
    \cup WritesFor("admin", {"record_usage"})

ResearchRoutes ==
    WritesFor("ai_run", {"trigger_research"})
    \cup ReadsFor("lead_read", {"get_research"})
    \cup WritesFor("lead_write", {"update_research", "delete_research"})

SearchRoutes == ReadsFor("lead_read", {"global_search"})

TasksRoutes ==
    ReadsFor("task_read", {"list_tasks", "due_reminders", "get_task"})
    \cup WritesFor("task_write", {"create_task"})

TaskWritesRoutes ==
    WritesFor("task_write", {"update_task", "complete_task"})
    \cup WritesFor("task_manage", {"delete_task"})

TeamsRoutes ==
    WritesFor("invite_manage", {"invite_member", "list_invites", "revoke_invite"})
    \cup WritesFor("public", {"lookup_invite", "accept_invite"})

UsersRoutes ==
    ReadsFor("any", {"list_users", "get_user"})
    \cup WritesFor("team_manage", {"create_user", "update_user"})

WebhooksRoutes == WritesFor("public", {"ingest_lead"})

WorkflowEventsRoutes ==
    ReadsFor("workflow_read", {"list_events"})
    \cup WritesFor("workflow_write", {"publish_event"})

ExecutionReadsRoutes ==
    WritesFor("workflow_write", {"queue_execution"})
    \cup ReadsFor("execution_read", {"list_executions", "get_execution",
             "list_execution_events"})

ExecutionCallsRoutes ==
    WritesFor("workflow_write", {"start_execution", "retry_execution",
             "complete_execution", "fail_execution", "cancel_execution"})

TriggersRoutes ==
    WritesFor("automation_write", {"create_trigger", "update_trigger",
             "enable_trigger", "disable_trigger"})
    \cup ReadsFor("automation_read", {"list_triggers", "get_trigger"})
    \cup UnkeptFor("automation_manage", {"delete_trigger"})

WorkflowsRoutes ==
    ReadsFor("workflow_read", {"list_workflows", "get_workflow",
             "list_active_workflows"})
    \cup WritesFor("workflow_write", {"create_workflow", "update_workflow"})

WorkflowMoveCallsRoutes ==
    WritesFor("workflow_manage", {"activate_workflow", "pause_workflow",
             "archive_workflow", "delete_workflow"})
    \cup ReadsFor("workflow_read", {"list_triggers"})

WorkflowTriggersRoutes ==
    WritesFor("workflow_write", {"create_trigger", "update_trigger"})
    \cup UnkeptFor("workflow_manage", {"delete_trigger"})
    \cup ReadsFor("workflow_read", {"list_workflow_executions"})

Routes ==
    UNION {ActivityRoutes, AgentStatesRoutes, AgentRunCallsRoutes, AISettingsRoutes,
           AICallsRoutes, ApprovalsRoutes, AssignmentRoutes, AuditRoutes,
           SessionsRoutes, AccountsRoutes, SecondFactorRoutes, AutomationControlRoutes,
           CommunicationsRoutes, ConversationsRoutes, CredentialsRoutes,
           DashboardRoutes, DeliveriesRoutes, ExportsRoutes, BriefingsRoutes,
           InsightsRoutes, FounderChatRoutes, MetricsRoutes, ForecastsRoutes,
           AnalysesRoutes, ScenariosRoutes, HealthRoutes, ImportsRoutes,
           IntelligenceRoutes, LeadSourcesRoutes, LeadsRoutes, MemoriesRoutes,
           KnowledgeRoutes, StatisticsRoutes, MonitoringRoutes, NotesRoutes,
           NotificationsRoutes, OutreachMessagesRoutes, OutreachTasksRoutes,
           StagesRoutes, BoardRoutes, ProviderUsageRoutes, ResearchRoutes, SearchRoutes,
           TasksRoutes, TaskWritesRoutes, TeamsRoutes, UsersRoutes, WebhooksRoutes,
           WorkflowEventsRoutes, ExecutionReadsRoutes, ExecutionCallsRoutes,
           TriggersRoutes, WorkflowsRoutes, WorkflowMoveCallsRoutes,
           WorkflowTriggersRoutes}
=============================================================================
