----------------------------- MODULE StepEngine -----------------------------
(***************************************************************************)
(* The row of one workflow under concurrent edits, and the runs of what it *)
(* says: WorkflowService, the adapters and the built-in step engine.       *)
(*                                                                         *)
(* A definition is the sequence of its steps in the order they are         *)
(* written; depth and side give the branch of a condition a step is in.    *)
(***************************************************************************)
EXTENDS Naturals, Sequences, SequencesExt

CONSTANTS
    MaxDefinition,      \* bound of the model: steps of a definition
    StepLimit,          \* BUILTIN_MAX_STEPS
    DepthLimit,         \* BUILTIN_MAX_CONDITION_DEPTH
    Patchers            \* requests that may edit the workflow at a time

ASSUME EngineAssumption == MaxDefinition \in Nat /\ {StepLimit, DepthLimit} \subseteq Nat \ {0}

VARIABLES
    workflow,           \* the committed row
    patch,              \* patch[p]: the columns the request p has changed
    engine              \* one run, and its step events; a retry is a run like it

engineVars == <<workflow, patch, engine>>

\* plain: set, copy, error_if; partial: a condition without "then";
\* malformed: anything _validate_step() refuses by itself
StepOf == [kind : {"plain", "condition", "partial", "malformed"},
           depth : 1..MaxDefinition, side : {"then", "else"}]
Conditions == {"condition", "partial"}

\* a branch starts under a condition, and what is in "else" comes after "then"
Nested(d) ==
    \A i \in DOMAIN d :
        /\ i = 1 => d[i].depth = 1
        /\ i > 1 => d[i].depth <= d[i-1].depth + (IF d[i-1].kind \in Conditions THEN 1 ELSE 0)
        /\ d[i].depth = 1 => d[i].side = "then"
        /\ i > 1 /\ d[i].depth > d[i-1].depth /\ d[i-1].kind = "partial" => d[i].side = "else"
        /\ \A j \in 1..(i-1) :
              /\ d[j].depth = d[i].depth /\ d[j].side = "else"
              /\ \A k \in j..i : d[k].depth >= d[i].depth
              => d[i].side = "else"
Definitions == {d \in BoundedSeq(StepOf, MaxDefinition) : Nested(d)}

NoEngineRun ==
    [at |-> "idle", steps |-> <<>>, next |-> 1, open |-> <<>>, budget |-> 0, events |-> {}]

EngineTypeOK ==
    /\ workflow.mode \in {"builtin", "n8n"} /\ Nested(workflow.steps)
    /\ \A p \in Patchers : DOMAIN patch[p] \subseteq DOMAIN workflow
    /\ engine.at \in {"idle", "running", "webhook", "succeeded", "failed", "limit", "error"}
    /\ engine.budget \in 0..StepLimit
    /\ \A n \in DOMAIN engine.open : engine.steps[engine.open[n].step].kind \in Conditions

-----------------------------------------------------------------------------
(* validate_builtin_definition(), at write time.                           *)

Counted_ThenOnly(d) == Len(SelectSeq(d, LAMBDA s : s.side = "then"))

\* _check_budget(): a step counts in whichever branch it is
Counted(d) == Len(d)

Accepted(d) ==
    /\ Counted(d) <= StepLimit
    /\ \A i \in DOMAIN d : /\ d[i].kind # "malformed"
                           /\ d[i].kind \in Conditions => d[i].depth + 1 <= DepthLimit

\* create(): _validate_builtin() looks at the definition of a builtin one only
EngineInit ==
    /\ workflow \in [mode : {"builtin", "n8n"}, steps : Definitions]
    /\ workflow.mode = "builtin" => Accepted(workflow.steps)
    /\ patch = [p \in Patchers |-> <<>>]
    /\ engine = NoEngineRun

Patched(given) ==
    [c \in DOMAIN workflow |-> IF c \in DOMAIN given THEN given[c] ELSE workflow[c]]

\* update(): the row as read with what the request gives is validated, and
\* what the request gives is written (version is a counter, and left out).
\* A run keeps the definition it was given: what is edited meanwhile is left out.
UpdateWorkflowRow(p, given) ==
    LET row == Patched(given)
    IN  /\ patch[p] = <<>> /\ engine.at = "idle"
        /\ row.mode = "builtin" => Accepted(row.steps)
        /\ patch' = [patch EXCEPT ![p] = given]
        /\ UNCHANGED <<workflow, engine>>

\* the UPDATE, or the request fails
CommitPatch(p) ==
    /\ patch[p] # <<>> /\ engine.at = "idle"
    /\ workflow' \in {Patched(patch[p]), workflow}
    /\ patch' = [patch EXCEPT ![p] = <<>>]
    /\ UNCHANGED engine

-----------------------------------------------------------------------------
(* run_builtin_definition(), on the definition the worker has read.        *)

\* get_adapter(), and execute() up to the first step
BeginAdapter ==
    /\ engine.at = "idle" /\ \A p \in Patchers : patch[p] = <<>>
    /\ engine' = [NoEngineRun EXCEPT !.at = IF workflow.mode = "builtin" THEN "running"
                                      ELSE "webhook",
                               !.steps = IF workflow.mode = "builtin" THEN workflow.steps
                                         ELSE <<>>]
    /\ UNCHANGED <<workflow, patch>>

\* N8nAdapter: any answer below 400; a refusal, no URL and no connection raise
TriggerWebhook ==
    /\ engine.at = "webhook"
    /\ \E at \in {"succeeded", "failed", "error"} : engine' = [engine EXCEPT !.at = at]
    /\ UNCHANGED <<workflow, patch>>

InStep == engine.steps[engine.next]
Inside == engine.open # <<>> /\ engine.next \in DOMAIN engine.steps
          /\ InStep.depth > engine.steps[Last(engine.open).step].depth

\* the branch at hand has a step to run
Runnable ==
    /\ engine.at = "running" /\ engine.next \in DOMAIN engine.steps
    /\ engine.open = <<>> \/ Inside
    /\ engine.open # <<>> => InStep.side = Last(engine.open).side

\* the branch that is not taken, and what is in it
SkipStep ==
    /\ engine.at = "running" /\ Inside
    /\ InStep.side # Last(engine.open).side
    /\ LET beyond == {i \in (engine.next + 1)..Len(engine.steps) :
                         engine.steps[i].depth <= InStep.depth}
       IN  engine' = [engine EXCEPT !.next =
                         IF beyond = {} THEN Len(engine.steps) + 1
                         ELSE CHOOSE i \in beyond : \A j \in beyond : i <= j]
    /\ UNCHANGED <<workflow, patch>>

\* BuiltinExecutionError: the step and the conditions around it have failed
Fails(at, started, budget) ==
    LET failed == {engine.open[n].step : n \in DOMAIN engine.open} \cup started
    IN  [engine EXCEPT !.at = at, !.budget = budget,
                       !.events = @ \cup ({"started"} \X started) \cup ({"failed"} \X failed)]

\* _check_budget(), before the step is started
OverBudget ==
    /\ Runnable /\ engine.budget = StepLimit
    /\ engine' = Fails("limit", {}, StepLimit)
    /\ UNCHANGED <<workflow, patch>>

Begun == Runnable /\ engine.budget < StepLimit

\* a path that is missing, a template that is too long, error_if, or a guard
\* that cannot be evaluated
StepFails ==
    /\ Begun
    /\ InStep.kind \in Conditions => InStep.depth + 1 <= DepthLimit
    /\ engine' = Fails("failed", {engine.next}, engine.budget + 1)
    /\ UNCHANGED <<workflow, patch>>

\* a step of an unknown type, in a definition nobody validated, does nothing
PlainStep ==
    /\ Begun /\ InStep.kind \in {"plain", "malformed"}
    /\ engine' = [engine EXCEPT !.next = @ + 1, !.budget = @ + 1,
                    !.events = @ \cup ({"started", "completed"} \X {engine.next})]
    /\ UNCHANGED <<workflow, patch>>

\* a KeyError, or another exception on_step() is not told of
StepBreaks ==
    /\ Begun /\ InStep.kind = "malformed"
    /\ engine' = [engine EXCEPT !.at = "error", !.budget = @ + 1,
                    !.events = @ \cup {<<"started", engine.next>>}]
    /\ UNCHANGED <<workflow, patch>>

TooDeep ==
    /\ Begun /\ InStep.kind \in Conditions /\ InStep.depth + 1 > DepthLimit
    /\ engine' = Fails("limit", {engine.next}, engine.budget + 1)
    /\ UNCHANGED <<workflow, patch>>

\* step["then"] of a condition that has none is a KeyError, which on_step()
\* is not told of; step.get("else", []) is not
TakeBranch(side) ==
    /\ Begun /\ InStep.kind \in Conditions /\ InStep.depth + 1 <= DepthLimit
    /\ LET begun == [engine EXCEPT !.budget = @ + 1,
                                   !.events = @ \cup {<<"started", engine.next>>}]
       IN  engine' = IF side = "then" /\ InStep.kind = "partial"
                     THEN [begun EXCEPT !.at = "error"]
                     ELSE [begun EXCEPT !.next = @ + 1,
                              !.open = Append(@, [step |-> engine.next, side |-> side])]
    /\ UNCHANGED <<workflow, patch>>

\* a condition whose branch is over
EndCondition ==
    /\ engine.at = "running" /\ engine.open # <<>> /\ ~Inside
    /\ engine' = [engine EXCEPT !.open = Front(@),
                    !.events = @ \cup {<<"completed", Last(engine.open).step>>}]
    /\ UNCHANGED <<workflow, patch>>

\* _check_result_size() and output_key, after the last step
ProduceResult ==
    /\ engine.at = "running" /\ engine.open = <<>> /\ engine.next > Len(engine.steps)
    /\ \E at \in {"succeeded", "failed"} : engine' = [engine EXCEPT !.at = at]
    /\ UNCHANGED <<workflow, patch>>

EngineNext ==
    \/ \E p \in Patchers :
          \/ CommitPatch(p)
          \/ \E mode \in {"builtin", "n8n"}, steps \in {<<>>, workflow.steps} :
                \/ UpdateWorkflowRow(p, [mode |-> mode])
                \/ UpdateWorkflowRow(p, [steps |-> steps])
                \/ UpdateWorkflowRow(p, [mode |-> mode, steps |-> steps])
    \/ BeginAdapter \/ TriggerWebhook \/ SkipStep \/ OverBudget \/ StepFails \/ PlainStep
    \/ StepBreaks \/ TooDeep \/ \E side \in {"then", "else"} : TakeBranch(side)
    \/ EndCondition \/ ProduceResult

EngineSpec == EngineInit /\ [][EngineNext]_engineVars

-----------------------------------------------------------------------------
\* "Structurally validate a builtin definition (fail-fast at write time)": what
\* was accepted never stops at a limit, whatever branches it takes; and when a
\* run ends otherwise than by an unexpected exception, every step that its
\* timeline shows as started it shows as completed or as failed, once.
AcceptedRuns ==
    LET stepsIn(event) == {i \in DOMAIN engine.steps : <<event, i>> \in engine.events}
    IN  /\ Accepted(engine.steps) => engine.at # "limit"
        /\ stepsIn("completed") \cap stepsIn("failed") = {}
        /\ engine.at \in {"succeeded", "failed", "limit"} =>
              stepsIn("started") = stepsIn("completed") \cup stepsIn("failed")
        /\ engine.at = "succeeded" => stepsIn("failed") = {}
=============================================================================
