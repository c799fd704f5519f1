--------------------------- MODULE FounderActions ---------------------------
(***************************************************************************)
(* FounderActionService: proposals of the founder assistant, the approval  *)
(* request behind each, the decisions in flight and the expiry sweep.      *)
(*                                                                         *)
(* decide_proposal() works on the objects it read and commits three times: *)
(* the request, the proposal, the executed action.  Its UPDATEs carry no   *)
(* guard, and neither does the UPDATE of the approvals endpoint, which     *)
(* decides a request without a look at the proposal.                       *)
(***************************************************************************)
EXTENDS Naturals, FiniteSets

CONSTANTS
    Proposals,          \* CREATE_TASK proposals
    Founders,           \* calls of decide_proposal() that may be in flight
    Endpoints,          \* calls of the approvals endpoint that may be in flight
    MaxFounderFaults,   \* bound of the model: crashes and failed actions
    MaxDecisions        \* bound of the model: calls of decide_proposal()

ASSUME FounderAssumption == {MaxFounderFaults, MaxDecisions} \subseteq Nat

VARIABLES
    proposal,       \* proposal[p]: the committed proposal_status
    request,        \* request[p]: the committed status of its approval request
    timeBox,        \* timeBox[p]: expires_at is not past
    tasks,          \* tasks[p]: committed tasks created for p
    deciding,       \* deciding[f]: the call of f
    elsewhere,      \* elsewhere[e]: what e is about to write on which request
    overwritten,    \* history: where a decision was written over a decision
    founderFaults, decisions

founderRows == <<proposal, request, timeBox, tasks>>
founderCalls == <<deciding, elsewhere>>
founderVars == <<founderRows, founderCalls, overwritten, founderFaults, decisions>>

ProposalStatus == {"absent", "proposed", "approved", "denied", "expired",
                   "succeeded", "failed"}
RequestStatus == {"absent", "pending", "approved", "denied", "expired"}

NoDecision == [at |-> "idle"]
Decision == [at : {"checked", "pending", "decided", "executing"},
             on : Proposals, approve : BOOLEAN]
Verdict == [on : Proposals, approve : BOOLEAN]

FounderTypeOK ==
    /\ proposal \in [Proposals -> ProposalStatus]
    /\ request \in [Proposals -> RequestStatus]
    /\ timeBox \in [Proposals -> BOOLEAN]
    /\ tasks \in [Proposals -> Nat]
    /\ deciding \in [Founders -> Decision \cup {NoDecision}]
    /\ elsewhere \in [Endpoints -> Verdict \cup {NoDecision}]
    /\ overwritten \subseteq Proposals
    /\ founderFaults \in 0..MaxFounderFaults /\ decisions \in 0..MaxDecisions

FounderInit ==
    /\ proposal = [p \in Proposals |-> "absent"]
    /\ request = [p \in Proposals |-> "absent"]
    /\ timeBox = [p \in Proposals |-> TRUE]
    /\ tasks = [p \in Proposals |-> 0]
    /\ deciding = [f \in Founders |-> NoDecision]
    /\ elsewhere = [e \in Endpoints |-> NoDecision]
    /\ overwritten = {}
    /\ founderFaults = 0 /\ decisions = 0

\* _PROPOSAL_TRANSITIONS; EXECUTING is never committed
ProposalEdge(from, to) ==
    \/ from = "absent" /\ to = "proposed"
    \/ from = "proposed" /\ to \in {"approved", "denied", "expired"}
    \/ from = "approved" /\ to \in {"succeeded", "failed"}

-----------------------------------------------------------------------------
(* propose(), time, and the sweep.                                         *)

\* ApprovalService.create_request() commits; then the proposal is committed
ProposeRequest(p) ==
    /\ request[p] = "absent"
    /\ request' = [request EXCEPT ![p] = "pending"]
    /\ UNCHANGED <<proposal, timeBox, tasks, founderCalls, overwritten,
                   founderFaults, decisions>>

Propose(p) ==
    /\ request[p] # "absent" /\ proposal[p] = "absent"
    /\ proposal' = [proposal EXCEPT ![p] = "proposed"]
    /\ UNCHANGED <<request, timeBox, tasks, founderCalls, overwritten,
                   founderFaults, decisions>>

TimeBoxEnds(p) ==
    /\ timeBox[p] /\ proposal[p] # "absent"
    /\ timeBox' = [timeBox EXCEPT ![p] = FALSE]
    /\ UNCHANGED <<proposal, request, tasks, founderCalls, overwritten,
                   founderFaults, decisions>>

\* mark_expired() of the two repositories, each guarded by the open status
ExpiredProposal(p) == IF proposal[p] = "proposed" THEN "expired" ELSE proposal[p]
ExpiredRequest(p) == IF request[p] = "pending" THEN "expired" ELSE request[p]

\* expire_due_all(): the due proposals and their requests, in one commit
ExpireDue(p) ==
    /\ proposal[p] = "proposed" /\ ~timeBox[p]
    /\ proposal' = [proposal EXCEPT ![p] = ExpiredProposal(p)]
    /\ request' = [request EXCEPT ![p] = ExpiredRequest(p)]
    /\ UNCHANGED <<timeBox, tasks, founderCalls, overwritten, founderFaults, decisions>>

-----------------------------------------------------------------------------
(* ApprovalService.decide(), behind decide_proposal() and the endpoint: it *)
(* reads the request pending and later writes by its primary key.          *)

WriteVerdict(p, approve) ==
    /\ request' = [request EXCEPT ![p] = IF approve THEN "approved" ELSE "denied"]
    /\ overwritten' = IF request[p] \in {"approved", "denied"}
                      THEN overwritten \cup {p} ELSE overwritten

\* the endpoint leaves the proposal as it is; a late request expires on the spot
ReadElsewhere(e, p, approve) ==
    /\ elsewhere[e] = NoDecision
    /\ request[p] = "pending"
    /\ IF timeBox[p]
       THEN /\ elsewhere' = [elsewhere EXCEPT ![e] = [on |-> p, approve |-> approve]]
            /\ UNCHANGED request
       ELSE /\ request' = [request EXCEPT ![p] = ExpiredRequest(p)]
            /\ UNCHANGED elsewhere
    /\ UNCHANGED <<proposal, timeBox, tasks, deciding, overwritten, founderFaults, decisions>>

WriteElsewhere(e) ==
    /\ elsewhere[e] # NoDecision
    /\ WriteVerdict(elsewhere[e].on, elsewhere[e].approve)
    /\ elsewhere' = [elsewhere EXCEPT ![e] = NoDecision]
    /\ UNCHANGED <<proposal, timeBox, tasks, deciding, founderFaults, decisions>>

ElsewhereDies(e) ==
    /\ elsewhere[e] # NoDecision /\ founderFaults < MaxFounderFaults
    /\ founderFaults' = founderFaults + 1
    /\ elsewhere' = [elsewhere EXCEPT ![e] = NoDecision]
    /\ UNCHANGED <<founderRows, deciding, overwritten, decisions>>

-----------------------------------------------------------------------------
(* decide_proposal().                                                      *)

DecisionGoes(f, at) == deciding' = [deciding EXCEPT ![f].at = at]
DecisionEnds(f) == deciding' = [deciding EXCEPT ![f] = NoDecision]

\* the proposal is read and checked, and expired on the spot when it is late;
\* any other status is a 409
DecideProposal(f, p, approve) ==
    /\ deciding[f] = NoDecision /\ decisions < MaxDecisions
    /\ proposal[p] = "proposed"
    /\ decisions' = decisions + 1
    /\ IF timeBox[p]
       THEN /\ deciding' = [deciding EXCEPT ![f] =
                               [at |-> "checked", on |-> p, approve |-> approve]]
            /\ UNCHANGED proposal
       ELSE /\ proposal' = [proposal EXCEPT ![p] = ExpiredProposal(p)]
            /\ UNCHANGED deciding
    /\ UNCHANGED <<request, timeBox, tasks, elsewhere, overwritten, founderFaults>>

\* ApprovalService.decide(): the request must be pending and not late
DecideRequest(f) ==
    /\ deciding[f].at = "checked"
    /\ LET p == deciding[f].on
       IN  CASE request[p] # "pending" -> DecisionEnds(f) /\ UNCHANGED request
             [] request[p] = "pending" /\ ~timeBox[p] ->
                    DecisionEnds(f) /\ request' = [request EXCEPT ![p] = ExpiredRequest(p)]
             [] OTHER -> DecisionGoes(f, "pending") /\ UNCHANGED request
    /\ UNCHANGED <<proposal, timeBox, tasks, elsewhere, overwritten, founderFaults, decisions>>

WriteRequest(f) ==
    /\ deciding[f].at = "pending"
    /\ WriteVerdict(deciding[f].on, deciding[f].approve)
    /\ DecisionGoes(f, "decided")
    /\ UNCHANGED <<proposal, timeBox, tasks, elsewhere, founderFaults, decisions>>

\* apply_transition() checks the status that was read, PROPOSED
WriteProposal(f) ==
    /\ deciding[f].at = "decided"
    /\ IF deciding[f].approve
       THEN /\ proposal' = [proposal EXCEPT ![deciding[f].on] = "approved"]
            /\ DecisionGoes(f, "executing")
       ELSE /\ proposal' = [proposal EXCEPT ![deciding[f].on] = "denied"]
            /\ DecisionEnds(f)
    /\ UNCHANGED <<request, timeBox, tasks, elsewhere, overwritten, founderFaults, decisions>>

ExecuteAction_TwoCommits(f) ==
    /\ deciding[f].at = "executing"
    /\ tasks' = [tasks EXCEPT ![deciding[f].on] = @ + 1]
    /\ UNCHANGED <<proposal, request, timeBox, founderCalls, overwritten,
                   founderFaults, decisions>>

\* _execute(): the task and SUCCEEDED are committed together
ExecuteAction(f) ==
    /\ deciding[f].at = "executing"
    /\ tasks' = [tasks EXCEPT ![deciding[f].on] = @ + 1]
    /\ proposal' = [proposal EXCEPT ![deciding[f].on] = "succeeded"]
    /\ DecisionEnds(f)
    /\ UNCHANGED <<request, timeBox, elsewhere, overwritten, founderFaults, decisions>>

\* the payload is malformed: FAILED.  Or the INSERT is refused: the flush has
\* ended the transaction and expired the proposal, so that the handler of the
\* failure raises at proposal.id and records nothing.
ActionFails(f) ==
    /\ deciding[f].at = "executing" /\ founderFaults < MaxFounderFaults
    /\ founderFaults' = founderFaults + 1
    /\ \E recorded \in BOOLEAN :
          proposal' = IF recorded THEN [proposal EXCEPT ![deciding[f].on] = "failed"]
                      ELSE proposal
    /\ DecisionEnds(f)
    /\ UNCHANGED <<request, timeBox, tasks, elsewhere, overwritten, decisions>>

DecisionDies(f) ==
    /\ deciding[f] # NoDecision /\ founderFaults < MaxFounderFaults
    /\ founderFaults' = founderFaults + 1
    /\ DecisionEnds(f)
    /\ UNCHANGED <<founderRows, elsewhere, overwritten, decisions>>

FounderNext ==
    \/ \E p \in Proposals :
          ProposeRequest(p) \/ Propose(p) \/ TimeBoxEnds(p) \/ ExpireDue(p)
    \/ \E e \in Endpoints :
          \/ \E p \in Proposals, approve \in BOOLEAN : ReadElsewhere(e, p, approve)
          \/ WriteElsewhere(e) \/ ElsewhereDies(e)
    \/ \E f \in Founders :
          \/ \E p \in Proposals, approve \in BOOLEAN : DecideProposal(f, p, approve)
          \/ DecideRequest(f) \/ WriteRequest(f) \/ WriteProposal(f)
          \/ ExecuteAction(f) \/ ActionFails(f) \/ DecisionDies(f)

FounderSpec == FounderInit /\ [][FounderNext]_founderVars

-----------------------------------------------------------------------------
\* decide_proposal() and ApprovalService.decide(): as long as no decision on
\* its request was written over another one, which the unguarded UPDATE
\* permits, the action of a proposal is done once and exactly when the
\* proposal shows SUCCEEDED, whatever dies, and only behind a request that
\* shows APPROVED.
TaskBehindApproval ==
    \A p \in Proposals \ overwritten :
        /\ tasks[p] = IF proposal[p] = "succeeded" THEN 1 ELSE 0
        /\ tasks[p] > 0 => request[p] = "approved"
=============================================================================
