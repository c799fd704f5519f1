------------------------------ MODULE ModelRuns ------------------------------
(***************************************************************************)
(* Agent runs that call a language model and tools, and the budget of      *)
(* their organization: Brain, BrainAgentExecutor, LLMService, the tool     *)
(* registry and the daily rollup of provider usage.                        *)
(***************************************************************************)
EXTENDS Naturals, FiniteSets

CONSTANTS
    BrainRuns,
    Budget,         \* AI_ORG_DAILY_TOKEN_BUDGET, where one is configured
    MaxTokens,      \* tokens of one answer, at most
    MaxSteps,       \* BrainConfig.max_steps
    MaxAttempts,    \* LLM_MAX_RETRIES
    Tools,
    GoalTools,      \* those on the allow-list of the goal
    RoleTools,      \* those the role of the actor may invoke
    LastDay         \* bound of the model

ASSUME ModelAssumption ==
    /\ {Budget, MaxTokens, MaxSteps, MaxAttempts} \subseteq Nat \ {0}
    /\ GoalTools \cup RoleTools \subseteq Tools /\ LastDay \in Nat
    /\ IsFiniteSet(BrainRuns) /\ IsFiniteSet(Tools)

VARIABLES
    usage,          \* usage[d]: the committed tokens of the day d
    today,
    brain,          \* brain[r]: the loop of the run r
    trace           \* trace[r]: tool calls asked for and logged, tools that ran

modelVars == <<usage, today, brain, trace>>

BrainStates == {"idle", "step", "asking", "answered", "tools", "done", "failed", "dead"}
Ended == {"done", "failed", "dead"}

BrainLoop == [at : BrainStates, steps : 0..MaxSteps, attempts : 0..MaxAttempts,
              tokens : 0..MaxTokens, calls : SUBSET Tools]

ModelTypeOK ==
    /\ usage \in [0..LastDay -> Nat] /\ today \in 0..LastDay
    /\ brain \in [BrainRuns -> BrainLoop]
    /\ trace \in [BrainRuns -> [asked : 0..(MaxSteps * Cardinality(Tools)),
                                logged : 0..(MaxSteps * Cardinality(Tools)),
                                ran : SUBSET Tools]]
    /\ \A r \in BrainRuns : brain[r].at = "tools" => brain[r].calls # {}

ModelInit ==
    /\ usage = [d \in 0..LastDay |-> 0] /\ today = 0
    /\ brain = [r \in BrainRuns |-> [at |-> "idle", steps |-> 0, attempts |-> 0,
                                     tokens |-> 0, calls |-> {}]]
    /\ trace = [r \in BrainRuns |-> [asked |-> 0, logged |-> 0, ran |-> {}]]

Goes(r, at) == brain' = [brain EXCEPT ![r].at = at]

\* totals_since(): a rollup by day, so the last 24 hours are two days
UsedTokens_Today == usage[today]
UsedTokens == usage[today] + (IF today > 0 THEN usage[today - 1] ELSE 0)

-----------------------------------------------------------------------------
\* execute(): the kill switch, a model or a lead that is missing fail the run
StartBrain(r) ==
    /\ brain[r].at = "idle"
    /\ Goes(r, "step") \/ Goes(r, "failed")
    /\ UNCHANGED <<usage, today, trace>>

\* the while of run(), and _enforce_budget(): fails closed
BeginStep(r) ==
    /\ brain[r].at = "step" /\ brain[r].steps < MaxSteps
    /\ \/ /\ UsedTokens < Budget
          /\ brain' = [brain EXCEPT ![r].at = "asking", ![r].steps = @ + 1,
                                    ![r].attempts = 0]
       \/ brain' = [brain EXCEPT ![r].at = "failed", ![r].steps = @ + 1]
    /\ UNCHANGED <<usage, today, trace>>

StepsExhausted(r) ==
    /\ brain[r].at = "step" /\ brain[r].steps = MaxSteps
    /\ Goes(r, "failed")
    /\ UNCHANGED <<usage, today, trace>>

\* _with_retry(): stop_after_attempt, only for what is _is_retryable()
MayRetry(attempts) == attempts < MaxAttempts

ProviderFails(r, retryable) ==
    LET attempts == brain[r].attempts + 1
    IN  /\ brain[r].at = "asking"
        /\ brain' = [brain EXCEPT
              ![r].at = IF retryable /\ MayRetry(attempts) THEN @ ELSE "failed",
              ![r].attempts = IF attempts > MaxAttempts THEN @ ELSE attempts]
        /\ UNCHANGED <<usage, today, trace>>

ProviderAnswers(r, tokens, calls) ==
    /\ brain[r].at = "asking" /\ brain[r].attempts < MaxAttempts
    /\ brain' = [brain EXCEPT ![r].at = "answered", ![r].tokens = tokens, ![r].calls = calls]
    /\ UNCHANGED <<usage, today, trace>>

\* no tool calls end the loop
AfterAnswer(r) == IF brain[r].calls = {} THEN "done" ELSE "tools"

\* _record(): the upsert adds to the row of the day, and commits
RecordUsage(r) ==
    /\ brain[r].at = "answered"
    /\ usage' = [usage EXCEPT ![today] = @ + brain[r].tokens]
    /\ brain' = [brain EXCEPT ![r].at = AfterAnswer(r), ![r].tokens = 0]
    /\ trace' = [trace EXCEPT ![r].asked = @ + Cardinality(brain[r].calls)]
    /\ UNCHANGED today

RecordFails(r) ==
    /\ brain[r].at = "answered"
    /\ Goes(r, "failed")
    /\ UNCHANGED <<usage, today, trace>>

\* the allow-list of the goal, then the permission of the manifest
MayInvoke(t) == t \in GoalTools /\ t \in RoleTools

\* one tool call: denied, run, or broken, it is audited
InvokeTool(r, t) ==
    /\ brain[r].at = "tools" /\ t \in brain[r].calls
    /\ brain' = [brain EXCEPT ![r].calls = @ \ {t},
                              ![r].at = IF brain[r].calls = {t} THEN "step" ELSE @]
    /\ trace' = [trace EXCEPT ![r].logged = @ + 1,
                              ![r].ran = IF MayInvoke(t) THEN @ \cup {t} ELSE @]
    /\ UNCHANGED <<usage, today>>

BrainDies(r) ==
    /\ brain[r].at \notin Ended \cup {"idle"}
    /\ Goes(r, "dead")
    /\ UNCHANGED <<usage, today, trace>>

NextModelDay ==
    /\ today < LastDay
    /\ today' = today + 1
    /\ UNCHANGED <<usage, brain, trace>>

BrainStep(r) ==
    \/ BeginStep(r) \/ StepsExhausted(r) \/ RecordUsage(r) \/ RecordFails(r)
    \/ \E retryable \in BOOLEAN : ProviderFails(r, retryable)
    \/ \E tokens \in 1..MaxTokens, calls \in SUBSET Tools : ProviderAnswers(r, tokens, calls)
    \/ \E t \in Tools : InvokeTool(r, t)

ModelNext ==
    \/ \E r \in BrainRuns : StartBrain(r) \/ BrainStep(r) \/ BrainDies(r)
    \/ NextModelDay

ModelSpec == ModelInit /\ [][ModelNext]_modelVars

-----------------------------------------------------------------------------
\* _enforce_budget(): the check comes before the call and the usage after it, so
\* a budget is exceeded by what the runs in flight may still spend, never more,
\* and never by a run that goes on.
OverspendBounded ==
    \A d \in 1..LastDay :
        usage[d - 1] + usage[d] < Budget + Cardinality(BrainRuns) * MaxTokens

\* Brain.run(): "Every tool attempt is recorded in tool_trace for audit": what
\* the model asked for is logged before it is asked again, denied or not.
TraceComplete ==
    \A r \in BrainRuns : /\ brain[r].at \in {"step", "asking", "done"}
                            => trace[r].asked = trace[r].logged
                         /\ trace[r].ran \subseteq GoalTools \cap RoleTools
=============================================================================
