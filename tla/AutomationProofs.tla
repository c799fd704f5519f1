-------------------------- MODULE AutomationProofs --------------------------
(***************************************************************************)
(* Proofs about the components that workers drive, each for any instance   *)
(* of its own specification, and about their composition in AutomationMC.  *)
(***************************************************************************)
EXTENDS AutomationMC, FiniteSetTheorems, WellFoundedInduction, TLAPS

\* A set of numbers that is not empty has a least element.
LEMMA LeastOf ==
    ASSUME NEW T \in SUBSET Nat, T # {}
    PROVE  \E x \in T : \A y \in T : x <= y
<1> DEFINE R == {ss \in Nat \X Nat : ss[1] < ss[2]}
<1>1. IsWellFoundedOn(R, Nat)
  BY NatLessThanWellFounded DEF OpToRel
<1>2. \E x \in T : \A y \in T : ~(<<y, x>> \in R)
  <2> HIDE DEF R
  <2>1. QED
    BY <1>1, WFMin
<1>3. PICK x \in T : \A y \in T : ~(<<y, x>> \in R)
  BY <1>2
<1>4. \A y \in T : ~(y < x)
  BY <1>3
<1>5. QED
  BY <1>4

-----------------------------------------------------------------------------
(* Event fan-out.                                                          *)

\* The trigger publish() takes next is one of those left.
LEMMA NextIsLeft ==
    ASSUME NEW e, event[e].todo \in SUBSET EventTriggers, event[e].todo # {}
    PROVE  NextTrigger(e) \in event[e].todo
<1>1. event[e].todo \in SUBSET Nat
  BY FanoutAssumption
<1>2. \E x \in event[e].todo : \A y \in event[e].todo : x <= y
  BY <1>1, LeastOf
<1>3. QED
  BY <1>2 DEF NextTrigger

\* One event, as a step of its publisher leaves it.
EventGood(r) ==
    /\ r \in EventOf
    /\ r.queued # {} => r.stored
    /\ r.consumed => r.queued # {}
    /\ r.at = "answered" /\ ~r.consumed => r.queued = {}

LEMMA PublisherStep ==
    ASSUME FanoutTypeOK, NEW e \in Events, EventGood(event[e]),
           \/ Publish(e) \/ QueueNext(e) \/ QueueRefused(e)
           \/ FinishPublish(e) \/ PublisherDies(e)
    PROVE  \E r : EventGood(r) /\ event' = [event EXCEPT ![e] = r]
<1> USE DEF EventGood, EventOf
<1>1. event \in [Events -> EventOf] /\ event[e] \in EventOf
  BY DEF FanoutTypeOK
<1>2. CASE Publish(e)
  <2>1. Matching \in SUBSET EventTriggers
    BY DEF Matching, FanoutTypeOK
  <2>2. CASE queueOpen
    <3> DEFINE r == [event[e] EXCEPT !.at = "loop", !.todo = Matching]
    <3>1. EventGood(r)
      BY <1>1, <2>1
    <3>2. event' = [event EXCEPT ![e] = r]
      BY <1>2, <2>2 DEF Publish
    <3>3. QED
      BY <3>1, <3>2
  <2>3. CASE ~queueOpen
    <3> DEFINE r == [event[e] EXCEPT !.at = "refused"]
    <3>1. EventGood(r)
      BY <1>1
    <3>2. event' = [event EXCEPT ![e] = r]
      BY <1>2, <2>3 DEF Publish
    <3>3. QED
      BY <3>1, <3>2
  <2>4. QED
    BY <2>2, <2>3
<1>3. CASE QueueNext(e)
  <2> DEFINE t == NextTrigger(e)
             queues == queueOpen /\ t \notin deleted
             q == IF queues THEN event[e].queued \cup {t} ELSE event[e].queued
             r == [event[e] EXCEPT !.todo = @ \ {t}, !.queued = q, !.stored = @ \/ queues]
  <2>1. t \in EventTriggers
    BY <1>1, <1>3, NextIsLeft DEF QueueNext
  <2>2. event' = [event EXCEPT ![e] = r]
    BY <1>1, <1>3, ZenonT(40) DEF QueueNext
  <2>3. /\ queues \in BOOLEAN /\ event[e].stored \in BOOLEAN
        /\ q \in SUBSET EventTriggers
        /\ q # {} => event[e].stored \/ queues
        /\ event[e].queued # {} => q # {}
        /\ event[e].todo \ {t} \in SUBSET EventTriggers
    BY <1>1, <2>1 DEF FanoutTypeOK
  <2> HIDE DEF t, q, queues
  <2>4. r \in EventOf
    BY <1>1, <2>3
  <2>5. /\ r.queued = q /\ r.stored = (event[e].stored \/ queues)
        /\ r.consumed = event[e].consumed /\ r.at = event[e].at
    BY <1>1
  <2> HIDE DEF r
  <2>6. event[e].at = "loop"
    BY <1>3 DEF QueueNext
  <2>7. EventGood(r)
    BY <2>3, <2>4, <2>5, <2>6
  <2>8. QED
    BY <2>2, <2>7
<1>4. CASE QueueRefused(e)
  <2> DEFINE a == IF event[e].todo = {NextTrigger(e)} THEN "rolledback" ELSE "died"
             r == [event[e] EXCEPT !.todo = {}, !.at = a]
  <2>1. a \in {"rolledback", "died"}
    OBVIOUS
  <2>2. event' = [event EXCEPT ![e] = r]
    BY <1>1, <1>4, ZenonT(40) DEF QueueRefused
  <2> HIDE DEF a
  <2>3. EventGood(r)
    BY <1>1, <2>1
  <2>4. QED
    BY <2>2, <2>3
<1>5. CASE FinishPublish(e)
  <2> DEFINE h == event[e].at = "loop"
             c == event[e].queued # {}
             r == [event[e] EXCEPT !.at = "answered", !.stored = @ \/ h, !.consumed = c]
  <2>1. h \in BOOLEAN /\ c \in BOOLEAN /\ c = (event[e].queued # {})
    OBVIOUS
  <2>2. event' = [event EXCEPT ![e] = r]
    BY <1>1, <1>5, ZenonT(40) DEF FinishPublish
  <2> HIDE DEF h, c
  <2>3. EventGood(r)
    BY <1>1, <2>1
  <2>4. QED
    BY <2>2, <2>3
<1>6. CASE PublisherDies(e)
  <2> DEFINE r == [event[e] EXCEPT !.at = "died", !.todo = {}]
  <2>1. EventGood(r)
    BY <1>1
  <2>2. event' = [event EXCEPT ![e] = r]
    BY <1>1, <1>6 DEF PublisherDies
  <2>3. QED
    BY <2>1, <2>2
<1>7. QED
  BY <1>2, <1>3, <1>4, <1>5, <1>6

LEMMA FanoutStep ==
    ASSUME FanoutTypeOK, EventAccounted, [FanoutNext]_fanoutVars
    PROVE  FanoutTypeOK' /\ EventAccounted'
<1>1. \A e \in Events : EventGood(event[e])
  BY DEF EventGood, FanoutTypeOK, EventAccounted
<1>2. ASSUME NEW e \in Events,
             \/ Publish(e) \/ QueueNext(e) \/ QueueRefused(e)
             \/ FinishPublish(e) \/ PublisherDies(e)
      PROVE  FanoutTypeOK' /\ EventAccounted'
  <2>1. PICK r : EventGood(r) /\ event' = [event EXCEPT ![e] = r]
    BY <1>1, <1>2, PublisherStep
  <2>2. event' \in [Events -> EventOf] /\ \A f \in Events : EventGood(event'[f])
    BY <1>1, <2>1 DEF FanoutTypeOK, EventGood
  <2>3. /\ enabledFor' \subseteq EventTriggers /\ deleted' \subseteq EventTriggers
        /\ UNCHANGED queueOpen /\ eventToggles' \in 0..MaxEventToggles
    <3>1. CASE Publish(e) \/ QueueNext(e) \/ FinishPublish(e) \/ PublisherDies(e)
      BY <3>1 DEF Publish, QueueNext, FinishPublish, PublisherDies, FanoutTypeOK
    <3>2. CASE QueueRefused(e)
      <4>1. event[e].todo \in SUBSET EventTriggers
        BY <1>1 DEF EventGood, EventOf
      <4>2. NextTrigger(e) \in EventTriggers
        BY <3>2, <4>1, NextIsLeft DEF QueueRefused
      <4>3. QED
        BY <3>2, <4>2, FanoutAssumption DEF QueueRefused, FanoutTypeOK
    <3>3. QED
      BY <1>2, <3>1, <3>2
  <2>4. QED
    BY <2>2, <2>3 DEF FanoutTypeOK, EventAccounted, EventGood
<1>3. CASE ToggleEvents
  <2>1. event' = event /\ eventToggles' \in 0..MaxEventToggles
    BY <1>3, FanoutAssumption DEF ToggleEvents, FanoutTypeOK
  <2>2. enabledFor' \subseteq EventTriggers
    BY <1>3 DEF ToggleEvents, FanoutTypeOK
  <2>3. queueOpen' \in BOOLEAN /\ deleted' \subseteq EventTriggers
    BY <1>3 DEF ToggleEvents, FanoutTypeOK
  <2>4. QED
    BY <2>1, <2>2, <2>3 DEF FanoutTypeOK, EventAccounted
<1>4. CASE UNCHANGED fanoutVars
  BY <1>4 DEF fanoutVars, FanoutTypeOK, EventAccounted
<1>5. QED
  BY <1>2, <1>3, <1>4 DEF FanoutNext

LEMMA FanoutInitially == FanoutInit => FanoutTypeOK /\ EventAccounted
BY FanoutAssumption DEF FanoutInit, FanoutTypeOK, EventAccounted, EventOf

\* publish() with its commit for each trigger: whatever triggers are switched
\* meanwhile, and wherever the publisher dies, an execution finds its event,
\* and an event is shown as consumed exactly when it has started something.
THEOREM EventsAccounted == FanoutSpec => [](FanoutTypeOK /\ EventAccounted)
<1>1. FanoutTypeOK /\ EventAccounted /\ [FanoutNext]_fanoutVars
          => (FanoutTypeOK /\ EventAccounted)'
  BY FanoutStep
<1>2. QED
  BY FanoutInitially, <1>1, PTL DEF FanoutSpec

-----------------------------------------------------------------------------
(* Founder actions.                                                        *)

\* Where a call of decide_proposal() is.
LEMMA DecisionAt ==
    ASSUME FounderTypeOK, NEW f \in Founders
    PROVE  /\ deciding[f] = NoDecision \/ deciding[f] \in Decision
           /\ deciding[f].at = "idle" <=> deciding[f] = NoDecision
           /\ deciding[f].at # "idle" =>
                 /\ deciding[f] \in Decision /\ deciding[f].on \in Proposals
                 /\ deciding[f].approve \in BOOLEAN
BY DEF FounderTypeOK, Decision, NoDecision

\* What a call of the approvals endpoint is about to write.
LEMMA VerdictElsewhere ==
    ASSUME FounderTypeOK, NEW e \in Endpoints, elsewhere[e] # NoDecision
    PROVE  elsewhere[e].on \in Proposals /\ elsewhere[e].approve \in BOOLEAN
BY DEF FounderTypeOK, Verdict

\* What a decision leaves of the requests.
LEMMA VerdictWritten ==
    ASSUME FounderTypeOK, NEW p \in Proposals, NEW approve \in BOOLEAN,
           WriteVerdict(p, approve)
    PROVE  /\ request' \in [Proposals -> RequestStatus] /\ overwritten' \subseteq Proposals
           /\ overwritten \subseteq overwritten'
           /\ request'[p] = IF approve THEN "approved" ELSE "denied"
           /\ \A q \in Proposals \ {p} : request'[q] = request[q]
           /\ p \notin overwritten' => request[p] \notin {"approved", "denied"}
BY DEF WriteVerdict, FounderTypeOK, RequestStatus

\* How the step of a call changes where it is.
LEMMA DecisionMoves ==
    ASSUME FounderTypeOK, NEW f \in Founders
    PROVE  /\ DecisionEnds(f) =>
                 /\ deciding' \in [Founders -> Decision \cup {NoDecision}]
                 /\ deciding'[f] = NoDecision
                 /\ \A g \in Founders \ {f} : deciding'[g] = deciding[g]
           /\ \A a \in {"pending", "decided", "executing"} :
                 DecisionGoes(f, a) /\ deciding[f].at # "idle" =>
                    /\ deciding' \in [Founders -> Decision \cup {NoDecision}]
                    /\ deciding'[f].at = a /\ deciding'[f].on = deciding[f].on
                    /\ deciding'[f].approve = deciding[f].approve
                    /\ \A g \in Founders \ {f} : deciding'[g] = deciding[g]
<1>1. DecisionEnds(f) =>
         /\ deciding' \in [Founders -> Decision \cup {NoDecision}]
         /\ deciding'[f] = NoDecision
         /\ \A g \in Founders \ {f} : deciding'[g] = deciding[g]
  BY DEF DecisionEnds, FounderTypeOK
<1>2. ASSUME NEW a \in {"pending", "decided", "executing"}, DecisionGoes(f, a),
             deciding[f].at # "idle"
      PROVE  /\ deciding' \in [Founders -> Decision \cup {NoDecision}]
             /\ deciding'[f].at = a /\ deciding'[f].on = deciding[f].on
             /\ deciding'[f].approve = deciding[f].approve
             /\ \A g \in Founders \ {f} : deciding'[g] = deciding[g]
  <2> DEFINE d == [deciding[f] EXCEPT !.at = a]
  <2>1. deciding[f] \in Decision
    BY <1>2, DecisionAt
  <2>2. /\ d \in Decision /\ d.at = a /\ d.on = deciding[f].on
        /\ d.approve = deciding[f].approve
    BY <2>1, <1>2 DEF Decision
  <2>3. deciding' = [deciding EXCEPT ![f] = d]
    BY <1>2 DEF DecisionGoes
  <2> HIDE DEF d
  <2>4. QED
    BY <2>2, <2>3 DEF FounderTypeOK
<1>3. QED
  BY <1>1, <1>2

LEMMA FounderTypeStep ==
    ASSUME FounderTypeOK, [FounderNext]_founderVars
    PROVE  FounderTypeOK'
<1> USE FounderAssumption DEF FounderTypeOK, founderRows, founderCalls
<1>1. ASSUME NEW p \in Proposals,
             ProposeRequest(p) \/ Propose(p) \/ TimeBoxEnds(p) \/ ExpireDue(p)
      PROVE  FounderTypeOK'
  BY <1>1 DEF ProposeRequest, Propose, TimeBoxEnds, ExpireDue, ExpiredProposal,
     ExpiredRequest, ProposalStatus, RequestStatus
<1>2. ASSUME NEW f \in Founders, NEW p \in Proposals, NEW approve \in BOOLEAN,
             DecideProposal(f, p, approve)
      PROVE  FounderTypeOK'
  <2>1. [at |-> "checked", on |-> p, approve |-> approve] \in Decision
    BY DEF Decision
  <2>2. decisions' \in 0..MaxDecisions
    BY <1>2 DEF DecideProposal
  <2>3. deciding' \in [Founders -> Decision \cup {NoDecision}]
    BY <1>2, <2>1 DEF DecideProposal
  <2>4. proposal' \in [Proposals -> ProposalStatus]
    BY <1>2 DEF DecideProposal, ExpiredProposal, ProposalStatus
  <2>5. QED
    BY <1>2, <2>2, <2>3, <2>4 DEF DecideProposal
<1>3. ASSUME NEW e \in Endpoints, NEW p \in Proposals, NEW approve \in BOOLEAN,
             ReadElsewhere(e, p, approve)
      PROVE  FounderTypeOK'
  <2>1. [on |-> p, approve |-> approve] \in Verdict
    BY DEF Verdict
  <2>2. elsewhere' \in [Endpoints -> Verdict \cup {NoDecision}]
    BY <1>3, <2>1 DEF ReadElsewhere
  <2>3. request' \in [Proposals -> RequestStatus]
    BY <1>3 DEF ReadElsewhere, ExpiredRequest, RequestStatus
  <2>4. QED
    BY <1>3, <2>2, <2>3 DEF ReadElsewhere
<1>4. ASSUME NEW e \in Endpoints, WriteElsewhere(e)
      PROVE  FounderTypeOK'
  <2>1. /\ request' \in [Proposals -> RequestStatus] /\ overwritten' \subseteq Proposals
    BY <1>4, VerdictElsewhere, VerdictWritten DEF WriteElsewhere
  <2>2. QED
    BY <1>4, <2>1 DEF WriteElsewhere
<1>5. ASSUME NEW e \in Endpoints, ElsewhereDies(e)
      PROVE  FounderTypeOK'
  BY <1>5 DEF ElsewhereDies
<1>6. ASSUME NEW f \in Founders, DecideRequest(f)
      PROVE  FounderTypeOK'
  <2>1. deciding[f].at # "idle" /\ deciding[f].on \in Proposals
    BY <1>6, DecisionAt DEF DecideRequest
  <2>2. deciding' \in [Founders -> Decision \cup {NoDecision}]
    BY <1>6, <2>1, DecisionMoves DEF DecideRequest
  <2>3. request' \in [Proposals -> RequestStatus]
    BY <1>6, <2>1 DEF DecideRequest, ExpiredRequest, RequestStatus
  <2>4. QED
    BY <1>6, <2>2, <2>3 DEF DecideRequest
<1>7. ASSUME NEW f \in Founders, WriteRequest(f)
      PROVE  FounderTypeOK'
  <2>1. /\ deciding[f].at # "idle" /\ deciding[f].on \in Proposals
        /\ deciding[f].approve \in BOOLEAN
    BY <1>7, DecisionAt DEF WriteRequest
  <2>2. deciding' \in [Founders -> Decision \cup {NoDecision}]
    BY <1>7, <2>1, DecisionMoves DEF WriteRequest
  <2>3. /\ request' \in [Proposals -> RequestStatus] /\ overwritten' \subseteq Proposals
    BY <1>7, <2>1, VerdictWritten DEF WriteRequest
  <2>4. QED
    BY <1>7, <2>2, <2>3 DEF WriteRequest
<1>8. ASSUME NEW f \in Founders, WriteProposal(f)
      PROVE  FounderTypeOK'
  <2>1. deciding[f].at # "idle" /\ deciding[f].on \in Proposals
    BY <1>8, DecisionAt DEF WriteProposal
  <2>2. deciding' \in [Founders -> Decision \cup {NoDecision}]
    BY <1>8, <2>1, DecisionMoves DEF WriteProposal
  <2>3. QED
    BY <1>8, <2>1, <2>2 DEF WriteProposal, ProposalStatus
<1>9. ASSUME NEW f \in Founders, ExecuteAction(f)
      PROVE  FounderTypeOK'
  <2>1. deciding[f].on \in Proposals /\ tasks[deciding[f].on] + 1 \in Nat
    BY <1>9, DecisionAt DEF ExecuteAction
  <2>2. QED
    BY <1>9, <2>1, DecisionMoves DEF ExecuteAction, ProposalStatus
<1>10. ASSUME NEW f \in Founders, ActionFails(f) \/ DecisionDies(f)
       PROVE  FounderTypeOK'
  <2>1. deciding[f].on \in Proposals \/ UNCHANGED proposal
    BY <1>10, DecisionAt DEF ActionFails, DecisionDies
  <2>2. QED
    BY <1>10, <2>1, DecisionMoves DEF ActionFails, DecisionDies, ProposalStatus
<1>11. CASE UNCHANGED founderVars
  BY <1>11 DEF founderVars
<1>12. QED
  BY <1>1, <1>2, <1>3, <1>4, <1>5, <1>6, <1>7, <1>8, <1>9, <1>10, <1>11 DEF FounderNext

-----------------------------------------------------------------------------
(* A proposal whose request was decided once.                              *)

OpenProposal == {"absent", "proposed", "expired"}

\* f has written its decision on the request of p.
Carries(f, p) == deciding[f].at \in {"decided", "executing"} /\ deciding[f].on = p

\* The call that carries the decision: the request shows what it decided, the
\* action is not done, and it executes what it has approved.
CarrierInv(f, p) ==
    /\ tasks[p] = 0
    /\ request[p] = IF deciding[f].approve THEN "approved" ELSE "denied"
    /\ deciding[f].at = "decided" => proposal[p] \in OpenProposal
    /\ deciding[f].at = "executing" => deciding[f].approve /\ proposal[p] = "approved"

\* While the request shows no decision none is carried, and the proposal is open.
UndecidedInv(p) ==
    request[p] \notin {"approved", "denied"} =>
        proposal[p] \in OpenProposal /\ \A f \in Founders : ~Carries(f, p)

DoneInv(p) ==
    /\ tasks[p] = IF proposal[p] = "succeeded" THEN 1 ELSE 0
    /\ proposal[p] = "succeeded" => request[p] = "approved"

DecidedOnce(p) ==
    /\ \A f, g \in Founders : Carries(f, p) /\ Carries(g, p) => f = g
    /\ \A f \in Founders : Carries(f, p) => CarrierInv(f, p)
    /\ UndecidedInv(p) /\ DoneInv(p)

FounderInv == FounderTypeOK /\ \A p \in Proposals \ overwritten : DecidedOnce(p)

\* A step after which nobody carries a decision who did not carry it before,
\* and that moves the proposal only among its open states and the request only
\* while it shows no decision.
LEMMA QuietStep ==
    ASSUME NEW p \in Proposals, DecidedOnce(p),
           \A f \in Founders : Carries(f, p)' => Carries(f, p) /\ deciding'[f] = deciding[f],
           tasks'[p] = tasks[p],
           \/ proposal'[p] = proposal[p]
           \/ proposal[p] \in OpenProposal /\ proposal'[p] \in OpenProposal,
           \/ request'[p] = request[p]
           \/ request[p] \notin {"approved", "denied"}
    PROVE  DecidedOnce(p)'
<1>1. ASSUME NEW f \in Founders, Carries(f, p)'
      PROVE  CarrierInv(f, p)'
  <2>1. Carries(f, p) /\ deciding'[f] = deciding[f]
    BY <1>1
  <2>2. request'[p] = request[p]
    BY <2>1 DEF DecidedOnce, UndecidedInv
  <2>3. CarrierInv(f, p)
    BY <2>1 DEF DecidedOnce
  <2>4. QED
    BY <2>1, <2>2, <2>3 DEF CarrierInv, OpenProposal
<1>2. UndecidedInv(p)'
  BY DEF DecidedOnce, UndecidedInv, OpenProposal
<1>3. DoneInv(p)'
  BY DEF DecidedOnce, DoneInv, UndecidedInv, OpenProposal
<1>4. \A f, g \in Founders : Carries(f, p)' /\ Carries(g, p)' => f = g
  BY DEF DecidedOnce
<1>5. QED
  BY <1>1, <1>2, <1>3, <1>4 DEF DecidedOnce

\* The call that carries the decision ends.
LEMMA CarrierEnds ==
    ASSUME NEW p \in Proposals, DecidedOnce(p), NEW f \in Founders, Carries(f, p),
           deciding'[f] = NoDecision,
           \A g \in Founders \ {f} : deciding'[g] = deciding[g],
           request'[p] = request[p], DoneInv(p)'
    PROVE  DecidedOnce(p)'
<1>1. \A g \in Founders : ~Carries(g, p)'
  <2>1. \A g \in Founders \ {f} : ~Carries(g, p)
    BY DEF DecidedOnce
  <2>2. QED
    BY <2>1 DEF Carries, NoDecision
<1>2. request[p] \in {"approved", "denied"}
  BY DEF DecidedOnce, CarrierInv
<1>3. QED
  BY <1>1, <1>2 DEF DecidedOnce, UndecidedInv

LEMMA FounderStep ==
    ASSUME FounderInv, [FounderNext]_founderVars
    PROVE  FounderInv'
<1> USE DEF founderRows, founderCalls
<1>1. FounderTypeOK'
  BY FounderTypeStep DEF FounderInv
<1>2. /\ proposal \in [Proposals -> ProposalStatus] /\ tasks \in [Proposals -> Nat]
      /\ request \in [Proposals -> RequestStatus] /\ deciding \in [Founders -> Decision \cup {NoDecision}]
  BY DEF FounderInv, FounderTypeOK
<1>3. FounderTypeOK
  BY DEF FounderInv
<1>4. overwritten \subseteq overwritten'
  BY DEF FounderNext, founderVars, ProposeRequest, Propose, TimeBoxEnds, ExpireDue,
     ReadElsewhere, WriteElsewhere, ElsewhereDies, DecideProposal, DecideRequest,
     WriteRequest, WriteProposal, ExecuteAction, ActionFails, DecisionDies, WriteVerdict
<1>5. ASSUME NEW p \in Proposals \ overwritten'
      PROVE  DecidedOnce(p)'
  <2>1. p \in Proposals /\ DecidedOnce(p)
    BY <1>4, <1>5 DEF FounderInv
  <2>2. ASSUME NEW q \in Proposals,
               ProposeRequest(q) \/ Propose(q) \/ TimeBoxEnds(q) \/ ExpireDue(q)
        PROVE  DecidedOnce(p)'
    <3>1. /\ deciding' = deciding /\ tasks' = tasks
          /\ \/ proposal'[p] = proposal[p]
             \/ proposal[p] \in OpenProposal /\ proposal'[p] \in OpenProposal
      BY <1>2, <2>1, <2>2 DEF ProposeRequest, Propose, TimeBoxEnds, ExpireDue,
         ExpiredProposal, OpenProposal
    <3>2. request'[p] = request[p] \/ request[p] \notin {"approved", "denied"}
      BY <1>2, <2>1, <2>2 DEF ProposeRequest, Propose, TimeBoxEnds, ExpireDue,
         ExpiredRequest
    <3>3. QED
      BY <2>1, <3>1, <3>2, QuietStep DEF Carries
  <2>3. ASSUME NEW e \in Endpoints, NEW q \in Proposals, NEW approve \in BOOLEAN,
               ReadElsewhere(e, q, approve)
        PROVE  DecidedOnce(p)'
    <3>1. UNCHANGED <<proposal, tasks, deciding>>
      BY <2>3 DEF ReadElsewhere
    <3>2. request'[p] = request[p] \/ request[p] \notin {"approved", "denied"}
      BY <1>2, <2>1, <2>3 DEF ReadElsewhere
    <3>3. QED
      BY <2>1, <3>1, <3>2, QuietStep DEF Carries
  <2>4. ASSUME NEW e \in Endpoints, WriteElsewhere(e) \/ ElsewhereDies(e)
        PROVE  DecidedOnce(p)'
    <3>1. UNCHANGED <<proposal, tasks, deciding>>
      BY <2>4 DEF WriteElsewhere, ElsewhereDies
    <3>2. request'[p] = request[p] \/ request[p] \notin {"approved", "denied"}
      <4>1. CASE WriteElsewhere(e)
        <5>1. /\ elsewhere[e].on \in Proposals /\ elsewhere[e].approve \in BOOLEAN
              /\ WriteVerdict(elsewhere[e].on, elsewhere[e].approve)
          BY <1>3, <4>1, VerdictElsewhere DEF WriteElsewhere
        <5>2. QED
          BY <1>3, <1>5, <2>1, <5>1, VerdictWritten
      <4>2. CASE ElsewhereDies(e)
        BY <4>2 DEF ElsewhereDies
      <4>3. QED
        BY <2>4, <4>1, <4>2
    <3>3. QED
      BY <2>1, <3>1, <3>2, QuietStep DEF Carries
  <2>5. ASSUME NEW f \in Founders, NEW q \in Proposals, NEW approve \in BOOLEAN,
               DecideProposal(f, q, approve)
        PROVE  DecidedOnce(p)'
    <3>1. UNCHANGED <<request, tasks>>
      BY <2>5 DEF DecideProposal
    <3>2. \/ proposal'[p] = proposal[p]
          \/ proposal[p] \in OpenProposal /\ proposal'[p] \in OpenProposal
      BY <1>2, <2>1, <2>5 DEF DecideProposal, ExpiredProposal, OpenProposal
    <3>3. \/ deciding' = deciding
          \/ /\ deciding'[f].at = "checked"
             /\ \A g \in Founders \ {f} : deciding'[g] = deciding[g]
      BY <1>2, <2>5 DEF DecideProposal
    <3>4. QED
      BY <2>1, <3>1, <3>2, <3>3, QuietStep DEF Carries
  <2>6. ASSUME NEW f \in Founders, DecideRequest(f)
        PROVE  DecidedOnce(p)'
    <3>1. UNCHANGED <<proposal, tasks>> /\ deciding[f].at # "idle"
          /\ (DecisionEnds(f) \/ DecisionGoes(f, "pending"))
      BY <2>6 DEF DecideRequest
    <3>2. /\ deciding'[f].at \in {"idle", "pending"}
          /\ \A g \in Founders \ {f} : deciding'[g] = deciding[g]
      BY <1>3, <3>1, DecisionMoves DEF NoDecision
    <3>3. request'[p] = request[p] \/ request[p] \notin {"approved", "denied"}
      BY <1>2, <2>1, <2>6 DEF DecideRequest
    <3>4. QED
      BY <2>1, <3>1, <3>2, <3>3, QuietStep DEF Carries
  <2>7. ASSUME NEW f \in Founders, WriteRequest(f)
        PROVE  DecidedOnce(p)'
    <3> DEFINE q == deciding[f].on
    <3>1. /\ deciding[f].at # "idle" /\ q \in Proposals /\ deciding[f].approve \in BOOLEAN
          /\ UNCHANGED <<proposal, tasks>> /\ DecisionGoes(f, "decided")
          /\ WriteVerdict(q, deciding[f].approve)
      BY <1>3, <2>7, DecisionAt DEF WriteRequest
    <3>2. /\ deciding'[f].at = "decided" /\ deciding'[f].on = q
          /\ deciding'[f].approve = deciding[f].approve
          /\ \A g \in Founders \ {f} : deciding'[g] = deciding[g]
      BY <1>3, <3>1, DecisionMoves
    <3>3. CASE p # q
      <4>1. request'[p] = request[p]
        BY <1>3, <2>1, <3>1, <3>3, VerdictWritten
      <4>2. \A g \in Founders : Carries(g, p)' => Carries(g, p) /\ deciding'[g] = deciding[g]
        BY <3>2, <3>3 DEF Carries
      <4>3. QED
        BY <2>1, <3>1, <4>1, <4>2, QuietStep
    <3>4. CASE p = q
      <4>1. /\ request[p] \notin {"approved", "denied"}
            /\ request'[p] = IF deciding[f].approve THEN "approved" ELSE "denied"
        BY <1>3, <1>5, <2>1, <3>1, <3>4, VerdictWritten
      <4>2. proposal[p] \in OpenProposal /\ \A g \in Founders : ~Carries(g, p)
        BY <2>1, <4>1 DEF DecidedOnce, UndecidedInv
      <4>3. tasks[p] = 0
        BY <2>1, <4>2 DEF DecidedOnce, DoneInv, OpenProposal
      <4>4. \A g \in Founders : Carries(g, p)' => g = f
        BY <3>2, <4>2 DEF Carries
      <4>5. CarrierInv(f, p)'
        BY <3>1, <3>2, <4>1, <4>2, <4>3 DEF CarrierInv
      <4>6. UndecidedInv(p)' /\ DoneInv(p)'
        BY <2>1, <3>1, <4>1, <4>2 DEF DecidedOnce, UndecidedInv, DoneInv, OpenProposal
      <4>7. QED
        BY <4>4, <4>5, <4>6 DEF DecidedOnce
    <3>5. QED
      BY <3>3, <3>4
  <2>8. ASSUME NEW f \in Founders,
               WriteProposal(f) \/ ExecuteAction(f) \/ ActionFails(f) \/ DecisionDies(f)
        PROVE  DecidedOnce(p)'
    <3> DEFINE q == deciding[f].on
    <3>1. deciding[f].at # "idle" /\ q \in Proposals
      BY <1>3, <2>8, DecisionAt DEF WriteProposal, ExecuteAction, ActionFails, DecisionDies
    <3>2. request' = request
      BY <2>8 DEF WriteProposal, ExecuteAction, ActionFails, DecisionDies
    <3>3. DecisionEnds(f) \/ (DecisionGoes(f, "executing") /\ WriteProposal(f))
      BY <2>8 DEF WriteProposal, ExecuteAction, ActionFails, DecisionDies
    <3>4. /\ deciding'[f] = NoDecision \/ (deciding'[f].on = q /\ deciding'[f].at = "executing")
          /\ \A g \in Founders \ {f} : deciding'[g] = deciding[g]
      BY <1>3, <3>1, <3>3, DecisionMoves
    <3>5. CASE p # q
      <4>1. proposal'[p] = proposal[p] /\ tasks'[p] = tasks[p]
        BY <1>2, <2>1, <2>8, <3>5 DEF WriteProposal, ExecuteAction, ActionFails, DecisionDies
      <4>2. \A g \in Founders : Carries(g, p)' => Carries(g, p) /\ deciding'[g] = deciding[g]
        BY <3>4, <3>5 DEF Carries, NoDecision
      <4>3. QED
        BY <2>1, <3>2, <4>1, <4>2, QuietStep
    <3>6. CASE p = q /\ DecisionDies(f)
      <4>1. proposal' = proposal /\ tasks' = tasks /\ DecisionEnds(f)
        BY <3>6 DEF DecisionDies
      <4>2. deciding'[f] = NoDecision
        BY <1>3, <4>1, DecisionMoves
      <4>3. \A g \in Founders : Carries(g, p)' => Carries(g, p) /\ deciding'[g] = deciding[g]
        BY <3>4, <4>2 DEF Carries, NoDecision
      <4>4. QED
        BY <2>1, <3>2, <4>1, <4>3, QuietStep
    <3>7. CASE p = q /\ WriteProposal(f)
      <4>1. Carries(f, p) /\ CarrierInv(f, p) /\ deciding[f].at = "decided"
        BY <2>1, <3>7 DEF WriteProposal, Carries, DecidedOnce
      <4>2. CASE deciding[f].approve
        <5>1. proposal'[p] = "approved" /\ tasks' = tasks /\ DecisionGoes(f, "executing")
          BY <1>2, <2>1, <3>7, <4>2 DEF WriteProposal
        <5>2. /\ deciding'[f].at = "executing" /\ deciding'[f].approve = deciding[f].approve
          BY <1>3, <3>1, <5>1, DecisionMoves
        <5>3. CarrierInv(f, p)'
          BY <3>2, <4>1, <4>2, <5>1, <5>2 DEF CarrierInv
        <5>4. \A g \in Founders : Carries(g, p)' => g = f
          BY <2>1, <3>4, <4>1 DEF DecidedOnce, Carries
        <5>5. UndecidedInv(p)' /\ DoneInv(p)'
          BY <3>2, <4>1, <4>2, <5>1 DEF UndecidedInv, DoneInv, CarrierInv
        <5>6. QED
          BY <5>3, <5>4, <5>5 DEF DecidedOnce
      <4>3. CASE ~deciding[f].approve
        <5>1. proposal'[p] = "denied" /\ tasks' = tasks /\ DecisionEnds(f)
          BY <1>2, <2>1, <3>7, <4>3 DEF WriteProposal
        <5>2. DoneInv(p)' /\ deciding'[f] = NoDecision
          BY <1>3, <4>1, <5>1, DecisionMoves DEF DoneInv, CarrierInv
        <5>3. QED
          BY <2>1, <3>2, <3>4, <4>1, <5>2, CarrierEnds
      <4>4. QED
        BY <4>2, <4>3
    <3>8. CASE p = q /\ (ExecuteAction(f) \/ ActionFails(f))
      <4>1. /\ Carries(f, p) /\ CarrierInv(f, p) /\ deciding[f].at = "executing"
            /\ DecisionEnds(f)
        BY <2>1, <3>8 DEF ExecuteAction, ActionFails, Carries, DecidedOnce
      <4>2. tasks[p] = 0 /\ proposal[p] = "approved" /\ request[p] = "approved"
        BY <4>1 DEF CarrierInv
      <4>3. \/ tasks'[p] = 1 /\ proposal'[p] = "succeeded"
            \/ tasks'[p] = 0 /\ proposal'[p] \in {"approved", "failed"}
        BY <1>2, <2>1, <3>8, <4>2 DEF ExecuteAction, ActionFails
      <4>4. DoneInv(p)' /\ deciding'[f] = NoDecision
        BY <1>3, <3>2, <4>1, <4>2, <4>3, DecisionMoves DEF DoneInv
      <4>5. QED
        BY <2>1, <3>2, <3>4, <4>1, <4>4, CarrierEnds
    <3>9. QED
      BY <2>8, <3>5, <3>6, <3>7, <3>8
  <2>9. CASE UNCHANGED founderVars
    BY <2>1, <2>9 DEF founderVars, DecidedOnce, Carries, CarrierInv, UndecidedInv, DoneInv
  <2>10. QED
    BY <2>2, <2>3, <2>4, <2>5, <2>6, <2>7, <2>8, <2>9 DEF FounderNext
<1>6. QED
  BY <1>1, <1>5 DEF FounderInv

LEMMA FounderInitially == FounderInit => FounderInv
BY FounderAssumption
DEF FounderInit, FounderInv, FounderTypeOK, ProposalStatus, RequestStatus, DecidedOnce,
    DoneInv, UndecidedInv, CarrierInv, Carries, OpenProposal, NoDecision

\* What is inductive gives the property.
LEMMA FounderKeeps == FounderInv => FounderTypeOK /\ TaskBehindApproval
BY DEF FounderInv, TaskBehindApproval, DecidedOnce, DoneInv

\* With any number of decide_proposal() and of decisions at the approvals
\* endpoint in flight, whatever the expiry sweep and crashes do meanwhile: a
\* proposal has its task, one, exactly when it shows SUCCEEDED, and then its
\* request shows APPROVED, unless a decision of its request was overwritten by
\* another one.
THEOREM TaskOnlyBehindApproval == FounderSpec => [](FounderTypeOK /\ TaskBehindApproval)
<1>1. FounderInv /\ [FounderNext]_founderVars => FounderInv'
  BY FounderStep
<1>2. QED
  BY <1>1, FounderInitially, FounderKeeps, PTL DEF FounderSpec

-----------------------------------------------------------------------------
(* Credentials and the rotation of their key.                              *)

\* A rotation works on a row that is stored: credentials are not deleted.
RotationsOfRows ==
    \A p \in Servers : rotating[p] # NoRotation => credential[rotating[p].on] \in Sealed

\* The rows, and what the processes remember of them, keep their types.
LEMMA KeyTypeStep ==
    ASSUME KeyTypeOK, RotationsOfRows, [KeyNext]_keyVars
    PROVE  KeyTypeOK' /\ RotationsOfRows'
<1> USE KeyAssumption
<1>1. CASE UNCHANGED keyVars
  BY <1>1 DEF keyVars, keyRows, KeyTypeOK, RotationsOfRows
<1>2. ASSUME NEW p \in Servers, NEW s \in Credentials, CreateCredential(p, s)
      PROVE  KeyTypeOK' /\ RotationsOfRows'
  <2>1. [seal |-> serverKey[p], label |-> serverKey[p]] \in Sealed
    BY DEF KeyTypeOK, Sealed
  <2>2. KeyTypeOK'
    BY <1>2, <2>1 DEF CreateCredential, KeyTypeOK
  <2>3. QED
    BY <1>2, <2>1, <2>2 DEF CreateCredential, KeyTypeOK, RotationsOfRows
<1>3. ASSUME NEW p \in Servers, NEW s \in Credentials, ReadForRotation(p, s)
      PROVE  KeyTypeOK' /\ RotationsOfRows'
  <2>1. credential[s] \in Sealed
    BY <1>3 DEF ReadForRotation, KeyTypeOK, Stored
  <2>2. QED
    BY <1>3, <2>1 DEF ReadForRotation, KeyTypeOK, RotationsOfRows
<1>4. ASSUME NEW p \in Servers, WriteRotation(p)
      PROVE  KeyTypeOK' /\ RotationsOfRows'
  <2> DEFINE s == rotating[p].on
             row == Resealed(credential[s], rotating[p].read, serverKey[p])
  <2>1. s \in Credentials /\ rotating[p].read \in Sealed /\ credential[s] \in Sealed
    BY <1>4 DEF WriteRotation, KeyTypeOK, RotationsOfRows
  <2>2. /\ credential' = [credential EXCEPT ![s] = row]
        /\ rotating' = [rotating EXCEPT ![p] = NoRotation]
        /\ UNCHANGED <<serverKey, workerKey, retired, rekey>>
    BY <1>4 DEF WriteRotation
  <2>3. row \in Sealed
    BY <2>1 DEF KeyTypeOK, Resealed, Sealed
  <2> HIDE DEF row
  <2>4. KeyTypeOK'
    BY <2>1, <2>2, <2>3 DEF KeyTypeOK
  <2>5. QED
    BY <2>2, <2>3, <2>4 DEF KeyTypeOK, RotationsOfRows
<1>5. CASE RekeyStep \/ RekeyDies
  <2>1. CASE Rekey
    <3>1. [seal |-> workerKey, label |-> workerKey] \in Sealed
      BY DEF KeyTypeOK, Sealed
    <3>2. KeyTypeOK'
      BY <2>1, <3>1 DEF Rekey, KeyTypeOK
    <3>3. QED
      BY <2>1, <3>1, <3>2 DEF Rekey, KeyTypeOK, RotationsOfRows
  <2>2. CASE RetirePrevious
    <3>1. {workerKey - 1} \ {0} \subseteq KeyVersions
      BY DEF KeyTypeOK, KeyVersions
    <3>2. retired' \subseteq KeyVersions
      BY <2>2, <3>1 DEF RetirePrevious, KeyTypeOK
    <3>3. QED
      BY <2>2, <3>2 DEF RetirePrevious, KeyTypeOK, RotationsOfRows
  <2>3. CASE ListStale \/ RekeyDies
    <3>1. UNCHANGED <<credential, retired, serverKey, workerKey, rotating>>
      BY <2>3 DEF ListStale, RekeyDies, keyRows
    <3>2. \E at \in {"idle", "listed"}, batch \in SUBSET Credentials :
             rekey' = [at |-> at, batch |-> batch]
      <4>1. Stale(workerKey) \subseteq Credentials
        BY DEF Stale, Stored
      <4>2. QED
        BY <2>3, <4>1 DEF ListStale, RekeyDies
    <3>3. QED
      BY <3>1, <3>2 DEF KeyTypeOK, RotationsOfRows
  <2>4. QED
    BY <1>5, <2>1, <2>2, <2>3 DEF RekeyStep
<1>6. CASE RestartServers
  <2>1. workerKey + 1 \in KeyVersions
    BY <1>6 DEF RestartServers, Introducible
  <2>2. PICK P \in SUBSET Servers : Restarted(P)
    BY <1>6 DEF RestartServers
  <2>3. QED
    BY <1>6, <2>1, <2>2 DEF RestartServers, Restarted, keyRows, KeyTypeOK, RotationsOfRows
<1>7. CASE RestartWorker
  BY <1>7 DEF RestartWorker, keyRows, KeyTypeOK, RotationsOfRows
<1>8. QED
  BY <1>1, <1>2, <1>3, <1>4, <1>5, <1>6, <1>7 DEF KeyNext

\* When the API processes are restarted together: they run with one key, that
\* of the worker or the next, and the next only when the one before the worker's
\* is retired.
KeysInStep ==
    /\ \A p, q \in Servers : serverKey[p] = serverKey[q]
    /\ \A p \in Servers :
          \/ serverKey[p] = workerKey
          \/ serverKey[p] = workerKey + 1 /\ (workerKey = 1 \/ workerKey - 1 \in retired)
    /\ \A k \in retired : k < workerKey

\* An envelope and its column agree, on a key that some process still reads.
SealsInStep ==
    \A s \in Stored :
        /\ credential[s].label = credential[s].seal
        /\ \/ credential[s].seal = workerKey - 1 /\ workerKey - 1 \notin retired
           \/ credential[s].seal = workerKey
           \/ \E p \in Servers : credential[s].seal = serverKey[p]

\* A row that rotate() has read under its own key has not gone back since, and
\* the worker has listed rows only while they keep the older key in use.
StaleInStep ==
    /\ \A p \in Servers :
          rotating[p] # NoRotation /\ rotating[p].read.label = serverKey[p]
              => credential[rotating[p].on].label = serverKey[p]
    /\ rekey.at = "listed" /\ rekey.batch # {} => workerKey > 1 /\ workerKey - 1 \notin retired
    /\ rekey.batch \subseteq Stored

\* What the rows look like to the processes, in the terms SecretsReadable needs.
LEMMA SealsRead ==
    ASSUME KeyTypeOK, KeysInStep, SealsInStep
    PROVE  SecretsReadable
<1>1. ASSUME NEW s \in Stored
      PROVE  /\ credential[s].seal \notin retired
             /\ \A p \in Servers : Reads(serverKey[p], credential[s].seal)
  <2>1. credential[s].seal \in Nat \ {0} /\ workerKey \in Nat \ {0}
    BY DEF KeyTypeOK, Sealed, Stored, KeyVersions
  <2>2. \A p \in Servers : serverKey[p] \in Nat
    BY DEF KeyTypeOK, KeyVersions
  <2>3. QED
    BY <2>1, <2>2, KeyAssumption DEF KeysInStep, SealsInStep, Reads
<1>2. QED
  BY <1>1 DEF SecretsReadable

LEMMA KeyStep ==
    ASSUME KeyTypeOK, RotationsOfRows, KeysInStep, SealsInStep, StaleInStep, ~Rolling,
           KeyTypeOK', [KeyNext]_keyVars
    PROVE  KeysInStep' /\ SealsInStep' /\ StaleInStep'
<1> USE KeyAssumption
<1> DEFINE Goal == KeysInStep' /\ SealsInStep' /\ StaleInStep'
<1>1. /\ workerKey \in Nat \ {0} /\ \A p \in Servers : serverKey[p] \in Nat \ {0}
      /\ \A s \in Credentials : credential[s] # NoCredential => credential[s] \in Sealed
  BY DEF KeyTypeOK, KeyVersions
<1>2. CASE UNCHANGED keyVars
  BY <1>2 DEF keyVars, keyRows, KeysInStep, SealsInStep, StaleInStep, Stored
<1>3. ASSUME NEW p \in Servers, NEW s \in Credentials, CreateCredential(p, s)
      PROVE  Goal
  <2>1. /\ credential'[s] = [seal |-> serverKey[p], label |-> serverKey[p]]
        /\ \A x \in Credentials \ {s} : credential'[x] = credential[x]
        /\ UNCHANGED <<serverKey, workerKey, retired, rotating, rekey>>
        /\ s \notin Stored
    BY <1>3 DEF CreateCredential, KeyTypeOK
  <2>2. Stored \subseteq Stored' /\ Stored' \subseteq Stored \cup {s}
    BY <2>1 DEF Stored
  <2>3. KeysInStep'
    BY <2>1 DEF KeysInStep
  <2>4. SealsInStep'
    BY <2>1, <2>2 DEF SealsInStep, Stored
  <2>5. StaleInStep'
    <3>1. ASSUME NEW q \in Servers, rotating[q] # NoRotation
          PROVE  rotating[q].on \in Credentials \ {s}
      BY <2>1, <3>1 DEF RotationsOfRows, KeyTypeOK, Stored, Sealed, NoCredential, KeyVersions
    <3>2. QED
      BY <2>1, <2>2, <3>1 DEF StaleInStep
  <2>6. QED
    BY <2>3, <2>4, <2>5
<1>4. ASSUME NEW p \in Servers, NEW s \in Credentials, ReadForRotation(p, s)
      PROVE  Goal
  <2>1. /\ rotating'[p] = [on |-> s, read |-> credential[s]]
        /\ \A q \in Servers \ {p} : rotating'[q] = rotating[q]
        /\ UNCHANGED <<credential, serverKey, workerKey, retired, rekey>>
    BY <1>4 DEF ReadForRotation, KeyTypeOK
  <2>2. QED
    BY <2>1 DEF KeysInStep, SealsInStep, StaleInStep, Stored
<1>5. ASSUME NEW p \in Servers, WriteRotation(p)
      PROVE  Goal
  <2> DEFINE s == rotating[p].on
  <2>1. /\ rotating[p] # NoRotation
        /\ s \in Credentials /\ credential[s] \in Sealed
        /\ credential' = [credential EXCEPT ![s] =
                             Resealed(credential[s], rotating[p].read, serverKey[p])]
        /\ rotating' = [rotating EXCEPT ![p] = NoRotation]
        /\ UNCHANGED <<serverKey, workerKey, retired, rekey>>
    BY <1>5 DEF WriteRotation, RotationsOfRows, KeyTypeOK
  <2>2. credential'[s] = [seal |-> serverKey[p], label |-> serverKey[p]]
    BY <2>1 DEF Resealed, StaleInStep, KeyTypeOK
  <2>3. \A x \in Credentials \ {s} : credential'[x] = credential[x]
    BY <2>1 DEF KeyTypeOK
  <2>4. Stored' = Stored
    BY <1>1, <2>1, <2>2, <2>3 DEF Stored, Sealed, NoCredential, KeyVersions
  <2>5. KeysInStep'
    BY <2>1 DEF KeysInStep
  <2>6. SealsInStep'
    BY <2>1, <2>2, <2>3, <2>4 DEF SealsInStep, Stored
  <2>7. \A q \in Servers : rotating'[q] # NoRotation
             => rotating'[q] = rotating[q] /\ rotating[q].on \in Credentials
    BY <2>1 DEF KeyTypeOK
  <2>8. \A q \in Servers : serverKey[q] = serverKey[p]
    BY DEF KeysInStep
  <2>9. StaleInStep'
    BY <2>1, <2>2, <2>3, <2>4, <2>7, <2>8 DEF StaleInStep
  <2>10. QED
    BY <2>5, <2>6, <2>9
<1>6. CASE ListStale
  <2>1. /\ rekey'.batch \subseteq {s \in Stale(workerKey) : Reads(workerKey, credential[s].seal)}
        /\ UNCHANGED <<credential, retired, serverKey, workerKey, rotating>>
    BY <1>6 DEF ListStale, keyRows
  <2>2. \A s \in rekey'.batch :
           s \in Stored /\ credential[s].label # workerKey
              /\ credential[s].seal \in {workerKey, workerKey - 1}
    BY <2>1 DEF Stale, Reads
  <2>3. \A s \in rekey'.batch : workerKey > 1 /\ workerKey - 1 \notin retired
    <3>1. TAKE s \in rekey'.batch
    <3>2. credential[s].seal = workerKey - 1 /\ s \in Stored /\ credential[s] \in Sealed
      BY <1>1, <2>2 DEF SealsInStep, Stored
    <3>3. credential[s].seal > 0
      BY <3>2 DEF Sealed, KeyVersions
    <3>4. QED
      BY <1>1, <3>2, <3>3 DEF SealsInStep, KeysInStep
  <2>4. QED
    BY <2>1, <2>2, <2>3 DEF KeysInStep, SealsInStep, StaleInStep, Stored
<1>7. CASE Rekey
  <2>1. /\ rekey.at = "listed" /\ rekey'.at = "written" /\ rekey'.batch = rekey.batch
        /\ UNCHANGED <<serverKey, workerKey, retired, rotating>>
        /\ \A s \in rekey.batch : credential'[s] = [seal |-> workerKey, label |-> workerKey]
        /\ \A s \in Credentials \ rekey.batch : credential'[s] = credential[s]
    BY <1>7 DEF Rekey, KeyTypeOK
  <2>2. Stored' = Stored /\ rekey.batch \subseteq Stored
    <3>1. rekey.batch \subseteq Stored
      BY DEF StaleInStep
    <3>2. \A s \in rekey.batch : credential'[s].seal # NoCredential.seal
      BY <1>1, <2>1 DEF NoCredential
    <3>3. \A s \in rekey.batch : credential'[s] # NoCredential
      BY <3>2
    <3>4. QED
      BY <2>1, <3>1, <3>3 DEF Stored
  <2>3. rekey.batch # {} => \A p \in Servers : serverKey[p] = workerKey
    BY <1>1, <2>1 DEF StaleInStep, KeysInStep
  <2>4. KeysInStep'
    BY <2>1 DEF KeysInStep
  <2>5. SealsInStep'
    BY <2>1, <2>2 DEF SealsInStep, Stored
  <2>6. StaleInStep'
    <3>1. \A p \in Servers : rotating[p] # NoRotation => rotating[p].on \in Credentials
      BY DEF KeyTypeOK
    <3>2. QED
      <4>1. ASSUME NEW p \in Servers, rotating[p] # NoRotation,
                   rotating[p].read.label = serverKey[p]
            PROVE  credential'[rotating[p].on].label = serverKey[p]
        <5>1. CASE rotating[p].on \in rekey.batch
          BY <2>1, <2>3, <5>1
        <5>2. CASE rotating[p].on \notin rekey.batch
          BY <2>1, <3>1, <4>1, <5>2 DEF StaleInStep
        <5>3. QED
          BY <5>1, <5>2
      <4>2. QED
        BY <2>1, <2>2, <4>1 DEF StaleInStep
  <2>7. QED
    BY <2>4, <2>5, <2>6
<1>8. CASE RetirePrevious
  <2>1. /\ rekey'.at = "idle" /\ rekey'.batch = {}
        /\ UNCHANGED <<credential, serverKey, workerKey, rotating>>
        /\ retired \subseteq retired' /\ retired' \subseteq retired \cup {workerKey - 1}
        /\ retired' # retired => Stale(workerKey) = {}
    BY <1>8 DEF RetirePrevious
  <2>2. KeysInStep'
    BY <1>1, <2>1 DEF KeysInStep
  <2>3. SealsInStep'
    <3>1. CASE retired' = retired
      BY <2>1, <3>1 DEF SealsInStep, Stored
    <3>2. CASE retired' # retired
      <4>1. \A s \in Stored : credential[s].label = workerKey
        BY <2>1, <3>2 DEF Stale
      <4>2. QED
        BY <2>1, <4>1 DEF SealsInStep, Stored
    <3>3. QED
      BY <3>1, <3>2
  <2>4. StaleInStep'
    BY <2>1 DEF StaleInStep
  <2>5. QED
    BY <2>2, <2>3, <2>4
<1>9. CASE RekeyDies
  <2>1. /\ rekey'.at = "idle" /\ rekey'.batch = {}
        /\ UNCHANGED <<credential, retired, serverKey, workerKey, rotating>>
    BY <1>9 DEF RekeyDies, keyRows
  <2>2. QED
    BY <2>1 DEF KeysInStep, SealsInStep, StaleInStep, Stored
<1>10. CASE RestartServers
  <2> DEFINE old == {p \in Servers : serverKey[p] = workerKey}
  <2>1. /\ workerKey + 1 = 2 \/ workerKey - 1 \in retired
        /\ Restarted(old) /\ old # {}
        /\ UNCHANGED <<credential, retired, workerKey, rekey>>
    BY <1>1, <1>10 DEF RestartServers, Introducible, keyRows
  <2>2. \A p \in Servers : p \in old
    BY <2>1 DEF KeysInStep
  <2>3. \A p \in Servers : serverKey'[p] = workerKey + 1 /\ rotating'[p] = NoRotation
    BY <2>1, <2>2 DEF Restarted
  <2>4. KeysInStep'
    BY <1>1, <2>1, <2>3 DEF KeysInStep
  <2>5. SealsInStep'
    <3>1. \A s \in Stored : \/ credential[s].seal = workerKey - 1 /\ workerKey - 1 \notin retired
                            \/ credential[s].seal = workerKey
      BY <2>2 DEF SealsInStep
    <3>2. QED
      BY <2>1, <3>1 DEF SealsInStep, Stored
  <2>6. StaleInStep'
    BY <2>1, <2>3 DEF StaleInStep, Stored
  <2>7. QED
    BY <2>4, <2>5, <2>6
<1>11. CASE RestartWorker
  <2>1. /\ \A p \in Servers : serverKey[p] = workerKey + 1
        /\ workerKey' = workerKey + 1 /\ rekey'.at = "idle" /\ rekey'.batch = {}
        /\ UNCHANGED <<credential, retired, serverKey, rotating>>
    BY <1>11 DEF RestartWorker, keyRows
  <2>2. workerKey = 1 \/ workerKey - 1 \in retired
    BY <1>1, <2>1 DEF KeysInStep
  <2>3. KeysInStep'
    BY <1>1, <2>1 DEF KeysInStep, KeyTypeOK, KeyVersions
  <2>4. SealsInStep'
    <3>1. \A s \in Stored : credential[s] \in Sealed
      BY <1>1 DEF Stored
    <3>2. \A s \in Stored : credential[s].seal \in {workerKey, workerKey + 1}
      BY <1>1, <2>1, <2>2, <3>1 DEF SealsInStep, Sealed, KeyVersions
    <3>3. workerKey \notin retired
      BY <1>1 DEF KeysInStep
    <3>4. QED
      BY <1>1, <2>1, <3>2, <3>3 DEF SealsInStep, Stored
  <2>5. StaleInStep'
    BY <2>1 DEF StaleInStep
  <2>6. QED
    BY <2>3, <2>4, <2>5
<1>12. QED
  BY <1>2, <1>3, <1>4, <1>5, <1>6, <1>7, <1>8, <1>9, <1>10, <1>11 DEF KeyNext, RekeyStep

LEMMA KeyInitially ==
    KeyInit => /\ KeyTypeOK /\ RotationsOfRows
               /\ KeysInStep /\ SealsInStep /\ StaleInStep
<1> SUFFICES ASSUME KeyInit
             PROVE  /\ KeyTypeOK /\ RotationsOfRows
                    /\ KeysInStep /\ SealsInStep /\ StaleInStep
  OBVIOUS
<1>1. 1 \in KeyVersions
  BY KeyAssumption DEF KeyVersions
<1>2. Stored = {}
  BY DEF KeyInit, Stored
<1>3. KeyTypeOK
  BY <1>1 DEF KeyInit, KeyTypeOK
<1>4. QED
  BY <1>2, <1>3 DEF KeyInit, RotationsOfRows, KeysInStep, SealsInStep, StaleInStep, NoRotation

\* When the API processes are restarted together, whoever rotates meanwhile and
\* wherever a tick of the worker stops: nothing is sealed under a version shown
\* as retired, and the processes read every secret, with any number of keys.
THEOREM SecretsStayReadable ==
    ASSUME ~Rolling
    PROVE  KeySpec => [](KeyTypeOK /\ SecretsReadable)
<1> DEFINE Inv == /\ KeyTypeOK /\ RotationsOfRows
                  /\ KeysInStep /\ SealsInStep /\ StaleInStep
<1>1. KeyInit => Inv
  BY KeyInitially
<1>2. Inv /\ [KeyNext]_keyVars => Inv'
  BY KeyTypeStep, KeyStep
<1>3. Inv => KeyTypeOK /\ SecretsReadable
  BY SealsRead
<1>4. QED
  BY <1>1, <1>2, <1>3, PTL DEF KeySpec

-----------------------------------------------------------------------------
(* Agent runs.                                                             *)

\* The run a phase takes next is one of those it has left.
LEMMA FirstOfBatch ==
    ASSUME NEW S \in SUBSET Runs, S # {}
    PROVE  FirstOf(S) \in S
<1>1. S \in SUBSET Nat
  BY AgentAssumption
<1>2. \E r \in S : \A x \in S : r <= x
  BY <1>1, LeastOf
<1>3. QED
  BY <1>2 DEF FirstOf

\* A flagged run that is RUNNING stays so or is cancelled.
Honours(before, after) ==
    before.status = "running" /\ before.flag => after.status \in {"running", "cancelled"}

\* Every guarded UPDATE of a run honours the flag.
LEMMA UpdatesHonour ==
    ASSUME run \in [Runs -> AgentRow], NEW r \in Runs,
           NEW row \in {MarkFailedIfQueued(r), MarkCancelledAfterRun(r), Completed(r),
                        Failed(r), CancelOf(r), run[r]}
    PROVE  row \in AgentRow /\ Honours(run[r], row)
<1>1. run[r] \in AgentRow
  OBVIOUS
<1>2. run[r].status \in RunStatus /\ run[r].flag \in BOOLEAN /\ run[r].overdue \in BOOLEAN
  BY <1>1 DEF AgentRow
<1>3. /\ \A s \in RunStatus : [run[r] EXCEPT !.status = s] \in AgentRow
      /\ \A s \in RunStatus : [run[r] EXCEPT !.status = s].status = s
      /\ [run[r] EXCEPT !.flag = TRUE] \in AgentRow
      /\ [run[r] EXCEPT !.flag = TRUE].status = run[r].status
      /\ [run[r] EXCEPT !.status = "cancelled", !.flag = TRUE] \in AgentRow
      /\ [run[r] EXCEPT !.status = "cancelled", !.flag = TRUE].status = "cancelled"
  BY <1>1 DEF AgentRow, RunStatus
<1>4. {"succeeded", "failed", "cancelled"} \subseteq RunStatus
  BY DEF RunStatus
<1>5. CASE row = run[r]
  BY <1>1, <1>5 DEF Honours
<1>6. CASE row = MarkFailedIfQueued(r)
  BY <1>1, <1>3, <1>4, <1>6 DEF MarkFailedIfQueued, RunTo, Honours
<1>7. MarkCancelledAfterRun(r) \in AgentRow /\ Honours(run[r], MarkCancelledAfterRun(r))
  BY <1>1, <1>3, <1>4 DEF MarkCancelledAfterRun, RunTo, Honours
<1>8. CASE row = Completed(r)
  BY <1>2, <1>3, <1>4, <1>7, <1>8 DEF Completed, Honours
<1>9. CASE row = Failed(r)
  BY <1>2, <1>3, <1>4, <1>7, <1>9 DEF Failed, Honours
<1>10. CASE row = CancelOf(r)
  <2>1. CASE run[r].status = "queued" /\ ~run[r].flag
    BY <1>3, <1>10, <2>1 DEF CancelOf, Honours
  <2>2. CASE run[r].status = "running"
    BY <1>3, <1>10, <2>2 DEF CancelOf, Honours
  <2>3. CASE ~(run[r].status = "queued" /\ ~run[r].flag) /\ run[r].status # "running"
    BY <1>1, <1>10, <2>3 DEF CancelOf, Honours
  <2>4. QED
    BY <2>1, <2>2, <2>3
<1>11. QED
  BY <1>5, <1>6, <1>7, <1>8, <1>9, <1>10

\* Where a worker may be when it holds a run, and when it does not.
LEMMA WorkerGoes ==
    ASSUME AgentTypeOK, NEW w \in AgentWorkers, NEW batch \in SUBSET Runs,
           NEW phase \in {"idle", "queued", "checked", "executing", "cancels", "stuck"},
           NEW r \in Runs \cup {NoRun},
           (r # NoRun) <=> (phase \in {"checked", "executing"}),
           AgentGoes(w, phase, batch, r), run' \in [Runs -> AgentRow],
           aiEnabled' \in BOOLEAN, agentFaults' \in 0..MaxAgentFaults, UNCHANGED switches
    PROVE  AgentTypeOK'
BY DEF AgentGoes, AgentTypeOK

LEMMA AgentStepHonours ==
    ASSUME AgentTypeOK, [AgentNext]_agentVars
    PROVE  AgentTypeOK' /\ \A r \in Runs : Honours(run[r], run'[r])
<1> USE AgentAssumption
<1> DEFINE Goal == AgentTypeOK' /\ \A r \in Runs : Honours(run[r], run'[r])
<1>1. /\ run \in [Runs -> AgentRow] /\ aiEnabled \in BOOLEAN
      /\ agentFaults \in 0..MaxAgentFaults /\ switches \in 0..MaxSwitches
  BY DEF AgentTypeOK
<1>2. UNCHANGED run => run' \in [Runs -> AgentRow] /\ \A r \in Runs : Honours(run[r], run'[r])
  BY <1>1 DEF Honours
<1>3. ASSUME NEW r \in Runs, NEW row \in AgentRow, Honours(run[r], row),
             run' = [run EXCEPT ![r] = row]
      PROVE  run' \in [Runs -> AgentRow] /\ \A q \in Runs : Honours(run[q], run'[q])
  <2>1. run'[r] = row /\ \A q \in Runs \ {r} : run'[q] = run[q]
    BY <1>1, <1>3
  <2>2. QED
    BY <1>1, <1>3, <2>1 DEF Honours
<1>4. CASE UNCHANGED agentVars
  BY <1>2, <1>4 DEF agentVars, agentSweeps, AgentTypeOK
<1>5. ASSUME NEW r \in Runs, CreateRun(r)
      PROVE  Goal
  <2> DEFINE row == [run[r] EXCEPT !.status = "queued"]
  <2>1. run[r].status = "absent" /\ run' = [run EXCEPT ![r] = row]
        /\ UNCHANGED <<aiEnabled, agentSweeps, agentFaults, switches>>
    BY <1>5 DEF CreateRun
  <2>2. row \in AgentRow /\ Honours(run[r], row)
    BY <1>1, <2>1 DEF AgentRow, RunStatus, Honours
  <2> HIDE DEF row
  <2>3. QED
    BY <1>3, <2>1, <2>2 DEF agentSweeps, AgentTypeOK
<1>6. ASSUME NEW r \in Runs, CancelRun(r)
      PROVE  Goal
  BY <1>1, <1>3, <1>6, UpdatesHonour DEF CancelRun, agentSweeps, AgentTypeOK
<1>7. ASSUME NEW r \in Runs, RunFallsOverdue(r)
      PROVE  Goal
  <2> DEFINE row == [run[r] EXCEPT !.overdue = TRUE]
  <2>1. run[r].status = "running" /\ run' = [run EXCEPT ![r] = row]
        /\ UNCHANGED <<aiEnabled, agentSweeps, agentFaults, switches>>
    BY <1>7 DEF RunFallsOverdue
  <2>2. row \in AgentRow /\ Honours(run[r], row)
    BY <1>1, <2>1 DEF AgentRow, RunStatus, Honours
  <2> HIDE DEF row
  <2>3. QED
    BY <1>3, <2>1, <2>2 DEF agentSweeps, AgentTypeOK
<1>8. CASE SwitchAI
  BY <1>2, <1>8 DEF SwitchAI, agentSweeps, AgentTypeOK
<1>9. ASSUME NEW w \in AgentWorkers, NEW r \in Runs, NEW row \in AgentRow,
             NEW phase \in {"queued", "cancels", "stuck"}, Honours(run[r], row),
             Visited(w, r, row, phase), UNCHANGED <<aiEnabled, agentFaults, switches>>
      PROVE  Goal
  <2>1. run' = [run EXCEPT ![r] = row]
    BY <1>9 DEF Visited
  <2>2. \/ AgentGoes(w, phase, agentBatch[w] \ {r}, NoRun)
        \/ AgentGoes(w, "idle", {}, NoRun)
    BY <1>9 DEF Visited
  <2>3. agentBatch[w] \ {r} \in SUBSET Runs
    BY DEF AgentTypeOK
  <2>4. AgentTypeOK'
    BY <1>1, <1>3, <1>9, <2>1, <2>2, <2>3, WorkerGoes, ZenonT(40)
  <2>5. QED
    BY <1>3, <1>9, <2>1, <2>4
<1>10. ASSUME NEW w \in AgentWorkers, AgentStep(w) \/ AgentFails(w)
       PROVE  Goal
  <2>1. agentBatch[w] \in SUBSET Runs
    BY DEF AgentTypeOK
  <2>2. agentBatch[w] # {} => FirstOf(agentBatch[w]) \in Runs
    BY <2>1, FirstOfBatch
  <2>3. agentAt[w] \in {"checked", "executing"} => current[w] \in Runs
    BY DEF AgentTypeOK
  <2>4. \A S \in SUBSET Runs : Earliest(S) \in SUBSET Runs
    BY DEF Earliest
  <2>5. ASSUME NEW phase \in {"idle", "queued", "cancels", "stuck"}, NEW batch \in SUBSET Runs,
               AgentGoes(w, phase, batch, NoRun), UNCHANGED <<run, aiEnabled, switches>>,
               agentFaults' \in 0..MaxAgentFaults
        PROVE  Goal
    BY <1>1, <1>2, <2>5, WorkerGoes, ZenonT(40)
  <2>6. CASE BeginQueued(w)
    BY <1>1, <2>4, <2>5, <2>6 DEF BeginQueued, RunsIn
  <2>7. CASE CheckRun(w)
    <3> DEFINE r == FirstOf(agentBatch[w])
    <3>1. CASE AgentGoes(w, "checked", agentBatch[w], r) /\ UNCHANGED run
      BY <1>1, <1>2, <2>1, <2>2, <2>7, <3>1, WorkerGoes DEF CheckRun
    <3>2. CASE Visited(w, r, MarkFailedIfQueued(r), "queued")
      BY <1>1, <1>9, <2>2, <2>7, <3>2, UpdatesHonour DEF CheckRun
    <3>3. QED
      BY <2>7, <3>1, <3>2 DEF CheckRun
  <2>8. CASE StartRun(w)
    <3> DEFINE r == current[w]
               row == [run[r] EXCEPT !.status = "running"]
    <3>1. r \in Runs /\ UNCHANGED <<aiEnabled, agentFaults, switches>>
      BY <2>3, <2>8 DEF StartRun
    <3>2. CASE CanStart(r)
      <4>1. run' = [run EXCEPT ![r] = row] /\ AgentGoes(w, "executing", agentBatch[w], r)
        BY <2>8, <3>2 DEF StartRun
      <4>2. row \in AgentRow /\ Honours(run[r], row)
        BY <1>1, <3>1, <3>2 DEF AgentRow, RunStatus, Honours, CanStart
      <4> HIDE DEF row
      <4>3. QED
        BY <1>1, <1>3, <2>1, <3>1, <4>1, <4>2, WorkerGoes
    <3>3. CASE ~CanStart(r)
      BY <1>1, <1>9, <2>8, <3>1, <3>3, UpdatesHonour DEF StartRun
    <3>4. QED
      BY <3>2, <3>3
  <2>9. CASE FinishRun(w)
    BY <1>1, <1>9, <2>3, <2>9, UpdatesHonour DEF FinishRun
  <2>10. CASE BeginCancels(w)
    <3>1. {r \in RunsIn("running") : run[r].flag} \in SUBSET Runs
      BY DEF RunsIn
    <3>2. QED
      BY <1>1, <2>4, <2>5, <2>10, <3>1 DEF BeginCancels
  <2>11. CASE ApplyCancel(w)
    BY <1>1, <1>9, <2>2, <2>11, UpdatesHonour DEF ApplyCancel
  <2>12. CASE BeginStuck(w)
    <3>1. {r \in RunsIn("running") : run[r].overdue} \in SUBSET Runs
      BY DEF RunsIn
    <3>2. QED
      BY <1>1, <2>5, <2>12, <3>1 DEF BeginStuck
  <2>13. CASE FailStuck(w)
    BY <1>1, <1>9, <2>2, <2>13, UpdatesHonour DEF FailStuck
  <2>14. CASE EndAgentSweep(w)
    BY <1>1, <2>5, <2>14 DEF EndAgentSweep
  <2>15. CASE AgentFails(w)
    <3>1. agentFaults + 1 \in 0..MaxAgentFaults
      BY <1>1, <2>15 DEF AgentFails
    <3>2. QED
      BY <1>1, <2>5, <2>15, <3>1 DEF AgentFails
  <2>16. QED
    BY <1>10, <2>6, <2>7, <2>8, <2>9, <2>10, <2>11, <2>12, <2>13, <2>14, <2>15 DEF AgentStep
<1>11. QED
  BY <1>4, <1>5, <1>6, <1>7, <1>8, <1>10 DEF AgentNext

LEMMA AgentInitially == AgentInit => AgentTypeOK
BY AgentAssumption DEF AgentInit, AgentTypeOK, AgentRow, RunStatus

\* cancel_run() against any number of workers: whichever of their phases comes
\* first, and whatever the executor returned, a flagged run that is RUNNING ends
\* cancelled or not at all.
THEOREM CancelAlwaysWins == AgentSpec => []AgentTypeOK /\ CancelWins
<1>1. AgentInit => AgentTypeOK
  BY AgentInitially
<1>2. AgentTypeOK /\ [AgentNext]_agentVars => AgentTypeOK'
  BY AgentStepHonours
<1>3. AgentTypeOK /\ [AgentNext]_agentVars
          => [\A r \in Runs : run[r].status = "running" /\ run[r].flag
                  => run'[r].status \in {"running", "cancelled"}]_agentVars
  BY AgentStepHonours DEF Honours
<1>4. QED
  BY <1>1, <1>2, <1>3, PTL DEF AgentSpec, CancelWins

-----------------------------------------------------------------------------
(* Data retention.                                                         *)

\* RetentionTypeOK says what a tick is field by field; this is its shape.
TickOf == [groups : SUBSET SUBSET OldRows, listed : SUBSET OldRows,
           deleted : SUBSET OldRows, open : BOOLEAN]
TicksOK == tick \in [Sweeps -> TickOf]

\* What delete_many() leaves of the tick of a sweep that no other sweep blocks.
LEMMA DeleteOfBatch ==
    ASSUME RetentionTypeOK, TicksOK, NEW s \in Sweeps, NEW g \in tick[s].groups
    PROVE  /\ AfterDelete(s, g) \in TickOf
           /\ AfterDelete(s, g).groups \subseteq tick[s].groups
           /\ AfterDelete(s, g).listed = {}
           /\ AfterDelete(s, g).deleted = tick[s].deleted \cup (tick[s].listed \cap stored)
           /\ AfterDelete(s, g).open = tick[s].open
BY ZenonT(40) DEF AfterDelete, TicksOK, TickOf, RetentionTypeOK

\* What a step may do to the tick of one sweep.
TickAllowed(s, new) ==
    /\ new \in TickOf /\ (~new.open => new = NoTick)
    /\ \A g \in new.groups : g # {}
    /\ new.deleted \subseteq stored

LEMMA OneTickMoves ==
    ASSUME RetentionTypeOK, TicksOK, NEW s \in Sweeps, NEW new, TickAllowed(s, new),
           \A t \in Sweeps \ {s} : new.deleted \cap tick[t].deleted = {},
           tick' = [tick EXCEPT ![s] = new], UNCHANGED <<stored, aged>>,
           sweepFaults' \in 0..MaxSweepFaults
    PROVE  RetentionTypeOK' /\ TicksOK'
<1>1. tick'[s] = new /\ \A t \in Sweeps \ {s} : tick'[t] = tick[t]
  BY DEF TicksOK
<1>2. TicksOK'
  BY DEF TicksOK, TickAllowed
<1>3. ASSUME NEW t \in Sweeps
      PROVE  /\ \A g \in tick'[t].groups : g # {} /\ g \subseteq OldRows
             /\ tick'[t].listed \subseteq OldRows /\ tick'[t].deleted \subseteq stored
             /\ ~tick'[t].open => tick'[t] = NoTick
  BY <1>1 DEF RetentionTypeOK, TickAllowed, TickOf
<1>4. ASSUME NEW t \in Sweeps, NEW u \in Sweeps \ {t}
      PROVE  tick'[t].deleted \cap tick'[u].deleted = {}
  BY <1>1 DEF RetentionTypeOK
<1>5. QED
  BY <1>2, <1>3, <1>4 DEF RetentionTypeOK

LEMMA NoTickAllowed ==
    ASSUME NEW s \in Sweeps
    PROVE  TickAllowed(s, NoTick) /\ NoTick.deleted = {}
BY DEF TickAllowed, NoTick, TickOf

LEMMA RetentionTypeStep ==
    ASSUME RetentionTypeOK, TicksOK, [RetentionNext]_retentionVars
    PROVE  RetentionTypeOK' /\ TicksOK'
<1> USE RetentionAssumption
<1> DEFINE Goal == RetentionTypeOK' /\ TicksOK'
<1>1. CASE UNCHANGED retentionVars
  BY <1>1 DEF retentionVars, RetentionTypeOK, TicksOK
<1>2. ASSUME NEW r \in OldRows, RowsAge(r)
      PROVE  Goal
  BY <1>2 DEF RowsAge, RetentionTypeOK, TicksOK
<1>3. ASSUME NEW r \in OldRows, DeleteMemory(r)
      PROVE  Goal
  BY <1>3 DEF DeleteMemory, Locked, RetentionTypeOK, TicksOK
<1>4. ASSUME NEW s \in Sweeps, NEW groups \in SUBSET SUBSET OldRows,
             \A g \in groups : g # {}, ~tick[s].open,
             tick' = [tick EXCEPT ![s].open = TRUE, ![s].groups = groups],
             UNCHANGED <<stored, aged, sweepFaults>>
      PROVE  Goal
  <2> DEFINE new == [tick[s] EXCEPT !.open = TRUE, !.groups = groups]
  <2>1. tick' = [tick EXCEPT ![s] = new]
    BY <1>4 DEF TicksOK
  <2>2. new \in TickOf /\ new.open /\ new.groups = groups /\ new.deleted = tick[s].deleted
    <3>1. tick[s] \in TickOf
      BY DEF TicksOK
    <3>2. QED
      BY <3>1 DEF TickOf
  <2> HIDE DEF new
  <2>3. TickAllowed(s, new) /\ \A t \in Sweeps \ {s} : new.deleted \cap tick[t].deleted = {}
    BY <1>4, <2>2 DEF TickAllowed, RetentionTypeOK
  <2>4. QED
    BY <1>4, <2>1, <2>3, OneTickMoves DEF RetentionTypeOK
<1>5. ASSUME NEW s \in Sweeps, BeginMemoryTick(s)
      PROVE  Goal
  <2> DEFINE expired == {g \cap aged : g \in WorkingMemories} \ {{}}
  <2>1. PICK some \in SUBSET expired :
           tick' = [tick EXCEPT ![s].open = TRUE, ![s].groups = some]
    BY <1>5 DEF BeginMemoryTick
  <2>2. \A g \in some : g # {} /\ g \subseteq OldRows
    <3>1. TAKE g \in some
    <3>2. g \in expired
      OBVIOUS
    <3>3. PICK h \in WorkingMemories : g = h \cap aged
      BY <3>2
    <3>4. QED
      BY <3>2, <3>3 DEF RetentionTypeOK
  <2>3. QED
    <3>1. some \in SUBSET SUBSET OldRows
      BY <2>2
    <3>2. QED
      BY <1>4, <1>5, <2>1, <2>2, <3>1 DEF BeginMemoryTick
<1>6. ASSUME NEW s \in Sweeps, BeginTelemetryTick(s)
      PROVE  Goal
  <2> DEFINE expired == {g \cap aged : g \in Telemetry} \ {{}}
  <2>1. \A g \in expired : g # {} /\ g \subseteq OldRows
    BY DEF RetentionTypeOK
  <2>2. QED
    <3>1. expired \in SUBSET SUBSET OldRows
      BY <2>1
    <3>2. QED
      BY <1>4, <1>6, <2>1, <3>1 DEF BeginTelemetryTick
<1>7. ASSUME NEW s \in Sweeps, CommitTick(s)
      PROVE  Goal
  <2>1. /\ stored' = stored \ tick[s].deleted /\ aged' = aged \ tick[s].deleted
        /\ tick' = [tick EXCEPT ![s] = NoTick] /\ UNCHANGED sweepFaults
    BY <1>7 DEF CommitTick
  <2>2. tick'[s] = NoTick /\ \A t \in Sweeps \ {s} : tick'[t] = tick[t]
    BY <2>1 DEF TicksOK
  <2>3. TicksOK'
    BY <2>1 DEF TicksOK, TickOf, NoTick
  <2>4. \A t \in Sweeps : tick'[t].deleted \subseteq stored'
    BY <2>1, <2>2 DEF RetentionTypeOK, NoTick
  <2>5. \A t \in Sweeps : \A u \in Sweeps \ {t} : tick'[t].deleted \cap tick'[u].deleted = {}
    BY <2>2 DEF RetentionTypeOK, NoTick
  <2>6. ASSUME NEW t \in Sweeps
        PROVE  /\ \A g \in tick'[t].groups : g # {} /\ g \subseteq OldRows
               /\ tick'[t].listed \subseteq OldRows
               /\ ~tick'[t].open => tick'[t] = NoTick
    BY <2>2 DEF RetentionTypeOK, NoTick
  <2>7. QED
    BY <2>1, <2>3, <2>4, <2>5, <2>6 DEF RetentionTypeOK
<1>8. ASSUME NEW s \in Sweeps, TickFails(s)
      PROVE  Goal
  <2>1. sweepFaults' \in 0..MaxSweepFaults
    BY <1>8 DEF TickFails, RetentionTypeOK
  <2>2. QED
    BY <1>8, <2>1, NoTickAllowed, OneTickMoves DEF TickFails
<1>9. ASSUME NEW s \in Sweeps, NEW g \in tick[s].groups
      PROVE  tick[s].open
  BY DEF RetentionTypeOK, NoTick
<1>10. ASSUME NEW s \in Sweeps, NEW g \in tick[s].groups, ListBatch(s, g)
       PROVE  Goal
  <2> DEFINE new == [tick[s] EXCEPT !.listed = OldestOf(g \cap Visible(s))]
  <2>1. tick' = [tick EXCEPT ![s] = new]
    BY <1>10 DEF ListBatch, TicksOK
  <2>2. OldestOf(g \cap Visible(s)) \subseteq OldRows
    BY DEF OldestOf, Visible, RetentionTypeOK
  <2>3. /\ new \in TickOf /\ new.open /\ new.groups = tick[s].groups
        /\ new.deleted = tick[s].deleted
    BY <1>9, <2>2 DEF TicksOK, TickOf
  <2> HIDE DEF new
  <2>4. TickAllowed(s, new) /\ \A t \in Sweeps \ {s} : new.deleted \cap tick[t].deleted = {}
    BY <2>3 DEF TickAllowed, RetentionTypeOK
  <2>5. QED
    BY <1>10, <2>1, <2>4, OneTickMoves DEF ListBatch, RetentionTypeOK
<1>11. ASSUME NEW s \in Sweeps, NEW g \in tick[s].groups, NothingExpired(s, g)
       PROVE  Goal
  <2> DEFINE new == [tick[s] EXCEPT !.groups = tick[s].groups \ {g}]
  <2>1. tick' = [tick EXCEPT ![s] = new]
    BY <1>11 DEF NothingExpired, TicksOK
  <2>2. /\ new \in TickOf /\ new.open /\ new.groups = tick[s].groups \ {g}
        /\ new.deleted = tick[s].deleted
    BY <1>9 DEF TicksOK, TickOf
  <2> HIDE DEF new
  <2>3. TickAllowed(s, new) /\ \A t \in Sweeps \ {s} : new.deleted \cap tick[t].deleted = {}
    BY <2>2 DEF TickAllowed, RetentionTypeOK
  <2>4. QED
    BY <1>11, <2>1, <2>3, OneTickMoves DEF NothingExpired, RetentionTypeOK
<1>12. ASSUME NEW s \in Sweeps, NEW g \in tick[s].groups
       PROVE  TickAllowed(s, AfterDelete(s, g))
  BY <1>9, DeleteOfBatch DEF TickAllowed, RetentionTypeOK
<1>13. ASSUME NEW s \in Sweeps, NEW g \in tick[s].groups, DeleteBatch(s, g)
       PROVE  Goal
  <2>1. \A t \in Sweeps \ {s} : AfterDelete(s, g).deleted \cap tick[t].deleted = {}
    BY <1>13, DeleteOfBatch DEF DeleteBatch, RetentionTypeOK
  <2>2. QED
    BY <1>12, <1>13, <2>1, OneTickMoves DEF DeleteBatch, RetentionTypeOK
<1>14. ASSUME NEW s \in Sweeps, NEW t \in Sweeps, TickDeadlocked(s, t)
       PROVE  Goal
  <2> DEFINE held == \E u \in Sweeps \ {s, t} : tick[t].listed \cap tick[u].deleted # {}
  <2>1. PICK g \in tick[t].groups :
           tick' = [tick EXCEPT ![s] = NoTick,
                       ![t] = IF held THEN tick[t] ELSE AfterDelete(t, g)]
    BY <1>14 DEF TickDeadlocked
  <2> DEFINE new == IF held THEN tick[t] ELSE AfterDelete(t, g)
  <2>2. s # t /\ UNCHANGED <<stored, aged, sweepFaults>>
    BY <1>14 DEF TickDeadlocked
  <2>3. /\ tick'[s] = NoTick /\ tick'[t] = new
        /\ \A u \in Sweeps \ {s, t} : tick'[u] = tick[u]
    BY <2>1, <2>2 DEF TicksOK
  <2>4. TickAllowed(t, tick[t])
    BY DEF TickAllowed, RetentionTypeOK, TicksOK
  <2>5. TickAllowed(t, new)
    BY <1>12, <2>4
  <2>6. \A u \in Sweeps \ {s, t} : new.deleted \cap tick[u].deleted = {}
    <3>1. CASE held
      BY <3>1 DEF RetentionTypeOK
    <3>2. CASE ~held
      BY <3>2, DeleteOfBatch DEF RetentionTypeOK
    <3>3. QED
      BY <3>1, <3>2
  <2> HIDE DEF new
  <2>7. TickAllowed(s, NoTick) /\ NoTick.deleted = {}
    BY NoTickAllowed
  <2>8. TicksOK'
    BY <2>1, <2>5, <2>7 DEF TicksOK, TickAllowed, new
  <2>9. \A u \in Sweeps : TickAllowed(u, tick'[u])
    BY <2>3, <2>5, <2>7 DEF TickAllowed, RetentionTypeOK, TicksOK
  <2>10. \A u \in Sweeps : \A v \in Sweeps \ {u} : tick'[u].deleted \cap tick'[v].deleted = {}
    BY <2>3, <2>6, <2>7 DEF RetentionTypeOK
  <2>11. QED
    BY <2>2, <2>8, <2>9, <2>10 DEF RetentionTypeOK, TickAllowed, TickOf
<1>15. QED
  BY <1>1, <1>2, <1>3, <1>5, <1>6, <1>7, <1>8, <1>10, <1>11, <1>13, <1>14
  DEF RetentionNext, SweepStep

LEMMA RetentionInitially == RetentionInit => RetentionTypeOK /\ TicksOK
BY RetentionAssumption DEF RetentionInit, RetentionTypeOK, TicksOK, TickOf, NoTick

-----------------------------------------------------------------------------
(* Signal triage.                                                          *)

\* What a transaction knows, beside what TriageTypeOK says of it.
SweepRecord == [at : {"idle", "sync", "ready"}, live : SUBSET Hashes, todo : SUBSET Hashes,
                missing : SUBSET Hashes, retried : BOOLEAN, updated : SUBSET SignalRows,
                dropped : SUBSET SignalRows, added : SUBSET Hashes]

\* No row is superseded by two open sweeps: the first holds it.
SweepsOK ==
    /\ sweep \in [Triagers -> SweepRecord]
    /\ \A t \in Triagers : sweep[t].at = "idle" => sweep[t] = NoSweep
    /\ \A t \in Triagers : \A u \in Triagers \ {t} :
          sweep[t].dropped \cap sweep[u].dropped = {}

\* What a step may make of one transaction.
SweepAllowed(new) ==
    /\ new \in SweepRecord
    /\ new.at = "idle" => new = NoSweep
    /\ new.todo \cup new.added \subseteq new.live
    /\ new.missing \subseteq new.todo /\ Cardinality(new.missing) <= 1
    /\ \A r \in new.dropped : signals[r] \in Hashes \ new.live

LEMMA OneSweepMoves ==
    ASSUME TriageTypeOK, SweepsOK, NEW t \in Triagers, NEW new, SweepAllowed(new),
           \A u \in Triagers \ {t} : new.dropped \cap sweep[u].dropped = {},
           sweep' = [sweep EXCEPT ![t] = new],
           UNCHANGED <<emitted, emissions, signals, marking>>
    PROVE  TriageTypeOK' /\ SweepsOK'
<1>1. sweep'[t] = new /\ \A u \in Triagers \ {t} : sweep'[u] = sweep[u]
  BY DEF SweepsOK
<1>2. SweepsOK'
  BY <1>1 DEF SweepsOK, SweepAllowed
<1>3. ASSUME NEW u \in Triagers
      PROVE  /\ sweep'[u].at \in {"idle", "sync", "ready"}
             /\ sweep'[u].todo \cup sweep'[u].added \subseteq sweep'[u].live
             /\ sweep'[u].live \subseteq Hashes /\ sweep'[u].retried \in BOOLEAN
             /\ sweep'[u].missing \subseteq sweep'[u].todo
             /\ Cardinality(sweep'[u].missing) <= 1
             /\ \A r \in sweep'[u].dropped : signals'[r] \in Hashes \ sweep'[u].live
  BY <1>1 DEF TriageTypeOK, SweepAllowed, SweepRecord
<1>4. QED
  BY <1>2, <1>3 DEF TriageTypeOK

LEMMA NoSweepFields ==
    /\ NoSweep \in SweepRecord /\ NoSweep.dropped = {} /\ NoSweep.missing = {}
    /\ NoSweep.added = {} /\ NoSweep.todo = {} /\ NoSweep.live = {}
    /\ NoSweep.at = "idle" /\ NoSweep.retried \in BOOLEAN
BY DEF NoSweep, SweepRecord

LEMMA NoSweepAllowed == SweepAllowed(NoSweep) /\ NoSweep.dropped = {}
<1>1. Cardinality({}) = 0
  BY FS_EmptySet
<1>2. QED
  BY <1>1 DEF SweepAllowed, NoSweep, SweepRecord

LEMMA SweepIsAllowed ==
    ASSUME TriageTypeOK, SweepsOK, NEW t \in Triagers
    PROVE  sweep[t] \in SweepRecord /\ SweepAllowed(sweep[t])
BY DEF SweepAllowed, TriageTypeOK, SweepsOK

\* The rows an open sweep will supersede are locked for the others.
LEMMA HeldByOther ==
    ASSUME NEW t, NEW u \in Triagers \ {t}, NEW r \in sweep[u].dropped
    PROVE  r \in OthersHold(t)
<1>1. r \in HeldRows(u)
  BY DEF HeldRows
<1>2. HeldRows(u) \in {HeldRows(v) : v \in Triagers \ {t}}
  OBVIOUS
<1>3. r \in UNION {HeldRows(v) : v \in Triagers \ {t}}
  BY <1>1, <1>2
<1>4. QED
  BY <1>3 DEF OthersHold

LEMMA TriageTypeStep ==
    ASSUME TriageTypeOK, SweepsOK, [TriageNext]_triageVars
    PROVE  TriageTypeOK' /\ SweepsOK'
<1> USE TriageAssumption
<1> DEFINE Goal == TriageTypeOK' /\ SweepsOK'
<1>1. CASE UNCHANGED triageVars
  BY <1>1 DEF triageVars, TriageTypeOK, SweepsOK
<1>2. ASSUME NEW h \in Hashes, SourceChanges(h)
      PROVE  Goal
  BY <1>2 DEF SourceChanges, TriageTypeOK, SweepsOK
<1>3. ASSUME NEW t \in Triagers, BeginSweep(t)
      PROVE  Goal
  <2> DEFINE new == [NoSweep EXCEPT !.at = "sync", !.live = emitted, !.todo = emitted]
  <2>1. sweep[t] = NoSweep /\ emitted \subseteq Hashes
    BY <1>3 DEF BeginSweep, SweepsOK, TriageTypeOK
  <2>2. sweep' = [sweep EXCEPT ![t] = new]
    BY <1>3, <2>1 DEF BeginSweep, SweepsOK
  <2>3. Cardinality({}) = 0
    BY FS_EmptySet
  <2>4. SweepAllowed(new) /\ new.dropped = {}
    <3>1. /\ new \in SweepRecord /\ new.at = "sync" /\ new.live = emitted
          /\ new.todo = emitted /\ new.missing = {} /\ new.added = {} /\ new.dropped = {}
      BY <2>1, NoSweepFields DEF SweepRecord
    <3> HIDE DEF new
    <3>2. QED
      BY <2>3, <3>1 DEF SweepAllowed
  <2> HIDE DEF new
  <2>5. QED
    BY <1>3, <2>2, <2>4, OneSweepMoves DEF BeginSweep
<1>4. ASSUME NEW t \in Triagers, NEW h \in Hashes, RefreshSignal(t, h)
      PROVE  Goal
  <2>1. sweep[t].at = "sync" /\ sweep[t].missing = {} /\ h \in sweep[t].todo
        /\ UNCHANGED <<emitted, emissions, signals, marking>>
    BY <1>4 DEF RefreshSignal, Syncing, NextOf
  <2>2. sweep[t] \in SweepRecord /\ SweepAllowed(sweep[t])
    BY SweepIsAllowed
  <2>3. ASSUME NEW updated \in SUBSET SignalRows,
               sweep' = [sweep EXCEPT ![t].todo = sweep[t].todo \ {h}, ![t].updated = updated]
        PROVE  Goal
    <3> DEFINE new == [sweep[t] EXCEPT !.todo = sweep[t].todo \ {h}, !.updated = updated]
    <3>1. sweep' = [sweep EXCEPT ![t] = new]
      BY <2>3 DEF SweepsOK
    <3>2. /\ new \in SweepRecord /\ new.at = "sync" /\ new.live = sweep[t].live
          /\ new.todo = sweep[t].todo \ {h} /\ new.missing = {} /\ new.added = sweep[t].added
          /\ new.dropped = sweep[t].dropped
      BY <2>1, <2>2 DEF SweepRecord
    <3> HIDE DEF new
    <3>3. Cardinality({}) = 0
      BY FS_EmptySet
    <3>4. SweepAllowed(new)
      BY <2>2, <3>2, <3>3 DEF SweepAllowed
    <3>5. QED
      BY <2>1, <3>1, <3>2, <3>4, OneSweepMoves DEF SweepsOK
  <2>4. PICK r \in SignalRows :
           \/ sweep' = [sweep EXCEPT ![t].todo = @ \ {h}, ![t].updated = @ \cup {r}]
           \/ sweep' = [sweep EXCEPT ![t].todo = @ \ {h}]
    BY <1>4 DEF RefreshSignal
  <2>5. sweep[t].updated \cup {r} \in SUBSET SignalRows
    BY <2>2 DEF SweepRecord
  <2>6. CASE sweep' = [sweep EXCEPT ![t].todo = @ \ {h}, ![t].updated = @ \cup {r}]
    BY <2>3, <2>5, <2>6
  <2>7. CASE sweep' = [sweep EXCEPT ![t].todo = @ \ {h}]
    <3>1. [sweep[t] EXCEPT !.todo = sweep[t].todo \ {h}, !.updated = sweep[t].updated]
              = [sweep[t] EXCEPT !.todo = sweep[t].todo \ {h}]
      BY <2>2 DEF SweepRecord
    <3>2. sweep' = [sweep EXCEPT ![t] = [sweep[t] EXCEPT !.todo = sweep[t].todo \ {h}]]
      BY <2>7 DEF SweepsOK
    <3>3. sweep' = [sweep EXCEPT ![t].todo = sweep[t].todo \ {h}, ![t].updated = sweep[t].updated]
      BY <3>1, <3>2 DEF SweepsOK
    <3>4. sweep[t].updated \in SUBSET SignalRows
      BY <2>2 DEF SweepRecord
    <3>5. QED
      BY <2>3, <3>3, <3>4
  <2>8. QED
    BY <2>4, <2>6, <2>7
<1>5. ASSUME NEW t \in Triagers, NEW h \in Hashes, MissSignal(t, h)
      PROVE  Goal
  <2>1. sweep[t].at = "sync" /\ h \in sweep[t].todo
        /\ sweep' = [sweep EXCEPT ![t].missing = {h}]
        /\ UNCHANGED <<emitted, emissions, signals, marking>>
    BY <1>5 DEF MissSignal, Syncing, NextOf
  <2>2. sweep[t] \in SweepRecord /\ SweepAllowed(sweep[t])
    BY SweepIsAllowed
  <2> DEFINE new == [sweep[t] EXCEPT !.missing = {h}]
  <2>3. sweep' = [sweep EXCEPT ![t] = new]
    BY <2>1 DEF SweepsOK
  <2>4. /\ new \in SweepRecord /\ new.at = "sync" /\ new.live = sweep[t].live
        /\ new.todo = sweep[t].todo /\ new.missing = {h} /\ new.added = sweep[t].added
        /\ new.dropped = sweep[t].dropped
    BY <2>1, <2>2 DEF SweepRecord
  <2> HIDE DEF new
  <2>5. Cardinality({h}) = 1
    BY FS_Singleton
  <2>6. SweepAllowed(new)
    <3>1. new.missing \subseteq new.todo /\ Cardinality(new.missing) <= 1
      BY <2>1, <2>4, <2>5
    <3>2. QED
      BY <2>2, <2>4, <3>1 DEF SweepAllowed
  <2>7. \A u \in Triagers \ {t} : new.dropped \cap sweep[u].dropped = {}
    BY <2>4 DEF SweepsOK
  <2>8. QED
    BY <2>1, <2>3, <2>6, <2>7, OneSweepMoves
<1>6. ASSUME NEW t \in Triagers, NEW h \in Hashes, InsertSignal(t, h)
      PROVE  Goal
  <2>1. h \in sweep[t].missing /\ UNCHANGED <<emitted, emissions, signals, marking>>
    BY <1>6 DEF InsertSignal
  <2>2. sweep[t] \in SweepRecord /\ SweepAllowed(sweep[t])
    BY SweepIsAllowed
  <2>3. h \in sweep[t].todo /\ sweep[t].at # "idle"
    BY <2>1, <2>2 DEF SweepAllowed, NoSweep
  <2>4. Cardinality({}) = 0
    BY FS_EmptySet
  <2>5. CASE ~Live(h)
    <3> DEFINE new == [sweep[t] EXCEPT !.missing = {}, !.todo = sweep[t].todo \ {h},
                                       !.added = sweep[t].added \cup {h}]
    <3>1. sweep' = [sweep EXCEPT ![t] = new]
      BY <1>6, <2>5 DEF InsertSignal, SweepsOK
    <3>2. /\ new \in SweepRecord /\ new.at = sweep[t].at /\ new.live = sweep[t].live
          /\ new.todo = sweep[t].todo \ {h} /\ new.missing = {}
          /\ new.added = sweep[t].added \cup {h} /\ new.dropped = sweep[t].dropped
      BY <2>2 DEF SweepRecord
    <3> HIDE DEF new
    <3>3. SweepAllowed(new)
      BY <2>2, <2>3, <2>4, <3>2 DEF SweepAllowed
    <3>4. QED
      BY <2>1, <3>1, <3>2, <3>3, OneSweepMoves DEF SweepsOK
  <2>6. CASE Live(h) /\ sweep[t].retried
    BY <1>6, <2>1, <2>6, NoSweepAllowed, OneSweepMoves DEF InsertSignal
  <2>7. CASE Live(h) /\ ~sweep[t].retried
    <3> DEFINE new == [NoSweep EXCEPT !.at = "sync", !.live = sweep[t].live,
                                      !.todo = sweep[t].live, !.retried = TRUE]
    <3>1. sweep' = [sweep EXCEPT ![t] = new]
      BY <1>6, <2>7 DEF InsertSignal
    <3>2. sweep[t].live \subseteq Hashes
      BY <2>2 DEF SweepRecord
    <3>3. SweepAllowed(new) /\ new.dropped = {}
      <4>1. /\ new \in SweepRecord /\ new.at = "sync" /\ new.live = sweep[t].live
            /\ new.todo = sweep[t].live /\ new.missing = {} /\ new.added = {}
            /\ new.dropped = {}
        BY <3>2, NoSweepFields DEF SweepRecord
      <4> HIDE DEF new
      <4>2. QED
        BY <2>4, <4>1 DEF SweepAllowed
    <3> HIDE DEF new
    <3>4. QED
      BY <2>1, <3>1, <3>3, OneSweepMoves
  <2>8. QED
    BY <2>5, <2>6, <2>7
<1>7. ASSUME NEW t \in Triagers, SupersedeStale(t)
      PROVE  Goal
  <2>1. /\ sweep' = [sweep EXCEPT ![t].at = "ready", ![t].dropped = StaleRows(t)]
        /\ StaleRows(t) \cap OthersHold(t) = {}
        /\ UNCHANGED <<emitted, emissions, signals, marking>>
    BY <1>7 DEF SupersedeStale
  <2>2. sweep[t] \in SweepRecord /\ SweepAllowed(sweep[t])
    BY SweepIsAllowed
  <2> DEFINE new == [sweep[t] EXCEPT !.at = "ready", !.dropped = StaleRows(t)]
  <2>3. sweep' = [sweep EXCEPT ![t] = new]
    BY <2>1 DEF SweepsOK
  <2>4. StaleRows(t) \subseteq SignalRows
        /\ \A r \in StaleRows(t) : signals[r] \in Hashes \ sweep[t].live
    BY DEF StaleRows
  <2>5. /\ new \in SweepRecord /\ new.at = "ready" /\ new.live = sweep[t].live
        /\ new.todo = sweep[t].todo /\ new.missing = sweep[t].missing
        /\ new.added = sweep[t].added /\ new.dropped = StaleRows(t)
    BY <2>2, <2>4 DEF SweepRecord
  <2> HIDE DEF new
  <2>6. SweepAllowed(new)
    <3>1. \A r \in new.dropped : signals[r] \in Hashes \ new.live
      BY <2>4, <2>5
    <3>2. new.at # "idle"
      BY <2>5
    <3>3. QED
      BY <2>2, <2>5, <3>1, <3>2 DEF SweepAllowed
  <2>7. \A u \in Triagers \ {t} : sweep[u].dropped \subseteq OthersHold(t)
    BY HeldByOther
  <2>8. \A u \in Triagers \ {t} : new.dropped \cap sweep[u].dropped = {}
    BY <2>1, <2>5, <2>7
  <2>9. QED
    BY <2>1, <2>3, <2>6, <2>8, OneSweepMoves
<1>8. ASSUME NEW t \in Triagers, CommitSweep(t)
      PROVE  Goal
  <2> DEFINE s == sweep[t]
             freed == [r \in SignalRows |-> IF r \in s.dropped THEN NoSignal ELSE signals[r]]
  <2>1. /\ sweep' = [sweep EXCEPT ![t] = NoSweep]
        /\ UNCHANGED <<emitted, emissions, marking>>
        /\ signals' \in [SignalRows -> Hashes \cup {NoSignal}]
        /\ \A r \in SignalRows : signals'[r] # freed[r] => r \notin OthersHold(t)
    BY <1>8 DEF CommitSweep
  <2>2. sweep'[t] = NoSweep /\ \A u \in Triagers \ {t} : sweep'[u] = sweep[u]
    BY <2>1 DEF SweepsOK
  <2>3. SweepAllowed(NoSweep) /\ NoSweep.dropped = {}
    BY NoSweepAllowed
  <2>4. SweepsOK'
    BY <2>1, <2>2, <2>3 DEF SweepsOK, SweepAllowed
  <2>5. ASSUME NEW u \in Triagers \ {t}, NEW r \in sweep[u].dropped
        PROVE  signals'[r] = signals[r]
    <3>1. r \in SignalRows /\ r \notin sweep[t].dropped
      BY DEF SweepsOK, SweepRecord
    <3>2. r \in OthersHold(t)
      BY HeldByOther
    <3>3. freed[r] = signals[r]
      BY <3>1
    <3>4. QED
      BY <2>1, <3>1, <3>2, <3>3
  <2>6. ASSUME NEW u \in Triagers
        PROVE  /\ sweep'[u].at \in {"idle", "sync", "ready"}
               /\ sweep'[u].todo \cup sweep'[u].added \subseteq sweep'[u].live
               /\ sweep'[u].live \subseteq Hashes /\ sweep'[u].retried \in BOOLEAN
               /\ sweep'[u].missing \subseteq sweep'[u].todo
               /\ Cardinality(sweep'[u].missing) <= 1
               /\ \A r \in sweep'[u].dropped : signals'[r] \in Hashes \ sweep'[u].live
    <3>1. CASE u = t
      BY <2>2, <2>3, <3>1 DEF SweepAllowed, SweepRecord
    <3>2. CASE u # t
      BY <2>2, <2>5, <3>2 DEF TriageTypeOK
    <3>3. QED
      BY <3>1, <3>2
  <2>7. QED
    BY <2>1, <2>4, <2>6 DEF TriageTypeOK
<1>9. ASSUME NEW t \in Triagers, SweepDeadlocks(t)
      PROVE  Goal
  BY <1>9, NoSweepAllowed, OneSweepMoves DEF SweepDeadlocks
<1>10. ASSUME NEW f \in Deciders, MarkingEnds(f) \/ \E r \in SignalRows : DecideSignal(f, r)
       PROVE  Goal
  BY <1>10, ZenonT(40) DEF MarkingEnds, DecideSignal, TriageTypeOK, SweepsOK
<1>11. QED
  BY <1>1, <1>2, <1>3, <1>4, <1>5, <1>6, <1>7, <1>8, <1>9, <1>10 DEF TriageNext, TriageStep

LEMMA TriageInitially == TriageInit => TriageTypeOK /\ SweepsOK
<1>1. Cardinality({}) = 0
  BY FS_EmptySet
<1>2. SUFFICES ASSUME TriageInit PROVE TriageTypeOK /\ SweepsOK
  OBVIOUS
<1>3. \A t \in Triagers : sweep[t] = NoSweep
  BY <1>2 DEF TriageInit
<1>4. SweepsOK
  BY <1>2, <1>3, NoSweepFields DEF TriageInit, SweepsOK
<1>5. QED
  BY <1>1, <1>2, <1>3, <1>4, NoSweepFields, TriageAssumption DEF TriageInit, TriageTypeOK

-----------------------------------------------------------------------------
(* Schedule dispatch.                                                      *)

\* A set of numbers below a bound that is not empty has a greatest element.
LEMMA GreatestOf ==
    ASSUME NEW n \in Nat, NEW T \in SUBSET (0..n), T # {}
    PROVE  \E x \in T : \A y \in T : y <= x
<1> DEFINE R == {n - x : x \in T}
<1>1. R \in SUBSET Nat /\ R # {}
  <2>1. \A x \in T : n - x \in Nat
    OBVIOUS
  <2>2. QED
    BY <2>1
<1>2. PICK r \in R : \A y \in R : r <= y
  BY <1>1, LeastOf
<1>3. PICK x \in T : r = n - x
  BY <1>2
<1>4. \A y \in T : n - x <= n - y
  BY <1>2, <1>3
<1>5. \A y \in T : y <= x
  BY <1>4
<1>6. QED
  BY <1>5

\* The fire time of a trigger that is due has come.
LEMMA DueHasFired ==
    ASSUME ScheduleTypeOK, NEW t \in Triggers, NEW now \in Minutes, Due(t, now)
    PROVE  /\ PreviousFire(trigger[t].cron, now) \in Minutes
           /\ PreviousFire(trigger[t].cron, now) <= now
<1> DEFINE past == {m \in trigger[t].cron : m <= now}
<1>1. trigger[t].cron \subseteq Minutes /\ trigger[t].lastFired \in Minutes \cup {Never}
  BY ScheduleAssumption DEF ScheduleTypeOK, TriggerRow
<1>2. LastMinute \in Nat
  BY ScheduleAssumption
<1>3. past # {}
  BY <1>1 DEF Due, PreviousFire, Never, Minutes
<1>4. past \in SUBSET (0..LastMinute)
  BY <1>1 DEF Minutes
<1>5. \E m \in past : \A x \in past : x <= m
  BY <1>2, <1>3, <1>4, GreatestOf
<1>6. PreviousFire(trigger[t].cron, now) \in past
  BY <1>3, <1>5 DEF PreviousFire
<1>7. QED
  BY <1>4, <1>6 DEF Minutes

LEMMA HeadAndTail ==
    ASSUME NEW S, NEW todo \in Seq(S), todo # <<>>
    PROVE  /\ Head(todo) \in S /\ 1 \in DOMAIN todo /\ Head(todo) = todo[1]
           /\ Tail(todo) \in Seq(S)
           /\ \A i \in DOMAIN Tail(todo) : i + 1 \in DOMAIN todo /\ Tail(todo)[i] = todo[i + 1]
OBVIOUS

\* A sweep between reserving a tick and queueing it.
Holds(d) == d.at \in {"reserved", "checked"}

SweepSound(d) ==
    /\ d \in SweepOf
    /\ \A i \in DOMAIN d.todo : d.todo[i][2] <= d.now
    /\ Holds(d) => d.todo # <<>>

\* What is reserved is still to fire, and nobody else has reserved it: the row
\* of the trigger is locked.
ReservedOnce ==
    \A w \in Dispatchers : Holds(dispatcher[w]) =>
        /\ trigger[Head(dispatcher[w].todo)[1]].lastFired < Head(dispatcher[w].todo)[2]
        /\ \A v \in Dispatchers \ {w} : Holds(dispatcher[v]) =>
              Head(dispatcher[w].todo)[1] # Head(dispatcher[v].todo)[1]

SweepsSound == \A w \in Dispatchers : SweepSound(dispatcher[w])

ScheduleInv == ScheduleTypeOK /\ SweepsSound /\ ReservedOnce

\* An edit of a trigger or of the workflow, which keeps last_fired_at.
LEMMA EditKeepsReserved ==
    ASSUME ScheduleInv, ScheduleTypeOK', UNCHANGED <<dispatcher, ticks>>,
           \A t \in Triggers : trigger'[t].lastFired = trigger[t].lastFired
    PROVE  ScheduleInv'
<1>1. ASSUME NEW w \in Dispatchers, Holds(dispatcher[w])
      PROVE  Head(dispatcher[w].todo)[1] \in Triggers
  <2>1. dispatcher[w].todo \in Seq(Triggers \X Minutes) /\ dispatcher[w].todo # <<>>
    BY <1>1 DEF ScheduleInv, SweepsSound, SweepSound, SweepOf
  <2>2. Head(dispatcher[w].todo) \in Triggers \X Minutes
    BY <2>1, HeadAndTail
  <2>3. QED
    BY <2>2
<1>2. ReservedOnce'
  BY <1>1 DEF ScheduleInv, ReservedOnce
<1>3. QED
  BY <1>2 DEF ScheduleInv, SweepsSound

\* One sweep moves on without queueing.
LEMMA SweepMoves ==
    ASSUME ScheduleInv, NEW w \in Dispatchers, NEW new, SweepSound(new),
           Holds(new) =>
              /\ trigger[Head(new.todo)[1]].lastFired < Head(new.todo)[2]
              /\ \A v \in Dispatchers \ {w} : Holds(dispatcher[v]) =>
                    Head(new.todo)[1] # Head(dispatcher[v].todo)[1],
           dispatcher' = [dispatcher EXCEPT ![w] = new],
           UNCHANGED <<clock, scheduleRows, ticks>>, dispatchFaults' \in 0..MaxDispatchFaults
    PROVE  ScheduleInv'
<1>1. dispatcher'[w] = new /\ \A v \in Dispatchers \ {w} : dispatcher'[v] = dispatcher[v]
  BY DEF ScheduleInv, ScheduleTypeOK
<1>2. dispatcher' \in [Dispatchers -> SweepOf]
  BY DEF ScheduleInv, ScheduleTypeOK, SweepSound
<1>3. ScheduleTypeOK'
  BY <1>2 DEF ScheduleInv, ScheduleTypeOK, scheduleRows
<1>4. SweepsSound'
  BY <1>1 DEF ScheduleInv, SweepsSound
<1>5. ReservedOnce'
  <2>1. UNCHANGED trigger
    BY DEF scheduleRows
  <2>2. ASSUME NEW v \in Dispatchers, Holds(dispatcher'[v])
        PROVE  /\ trigger[Head(dispatcher'[v].todo)[1]].lastFired < Head(dispatcher'[v].todo)[2]
               /\ \A x \in Dispatchers \ {v} : Holds(dispatcher'[x]) =>
                     Head(dispatcher'[v].todo)[1] # Head(dispatcher'[x].todo)[1]
    <3>1. CASE v = w
      BY <1>1, <2>2, <3>1
    <3>2. CASE v # w
      BY <1>1, <2>2, <3>2 DEF ScheduleInv, ReservedOnce
    <3>3. QED
      BY <3>1, <3>2
  <2>3. QED
    BY <2>1, <2>2 DEF ReservedOnce
<1>6. QED
  BY <1>3, <1>4, <1>5 DEF ScheduleInv

\* The sweep leaves the trigger in hand.
LEMMA SweepSkips ==
    ASSUME NEW d, SweepSound(d), d.todo # <<>>, NEW new,
           new = [d EXCEPT !.at = "loop", !.todo = Tail(d.todo)]
    PROVE  SweepSound(new) /\ ~Holds(new)
<1>1. d \in SweepOf /\ d.todo \in Seq(Triggers \X Minutes)
  BY DEF SweepSound, SweepOf
<1>2. /\ Tail(d.todo) \in Seq(Triggers \X Minutes)
      /\ \A i \in DOMAIN Tail(d.todo) : i + 1 \in DOMAIN d.todo
                                        /\ Tail(d.todo)[i] = d.todo[i + 1]
  BY <1>1, HeadAndTail
<1>3. new \in SweepOf /\ new.at = "loop" /\ new.todo = Tail(d.todo) /\ new.now = d.now
  BY <1>1, <1>2 DEF SweepOf
<1>4. \A i \in DOMAIN new.todo : new.todo[i][2] <= new.now
  BY <1>2, <1>3 DEF SweepSound
<1>5. QED
  BY <1>3, <1>4 DEF SweepSound, Holds

LEMMA RestingSound == SweepSound(Resting) /\ ~Holds(Resting)
<1>1. 0 \in Minutes
  BY ScheduleAssumption DEF Minutes
<1>2. Resting \in SweepOf /\ Resting.at = "idle" /\ Resting.todo = <<>>
  BY <1>1 DEF Resting, SweepOf
<1>3. QED
  BY <1>2 DEF SweepSound, Holds

\* The sweep that dispatch_due() begins.
LEMMA BegunSweep ==
    ASSUME ScheduleInv, NEW due \in Listings({t \in ListedSchedules : Due(t, clock)})
    PROVE  LET new == [at |-> "loop", now |-> clock,
                       todo |-> [i \in DOMAIN due |->
                                    <<due[i], PreviousFire(trigger[due[i]].cron, clock)>>]]
           IN  SweepSound(new) /\ ~Holds(new)
<1> DEFINE S == {t \in ListedSchedules : Due(t, clock)}
           fire(t) == PreviousFire(trigger[t].cron, clock)
           todo == [i \in DOMAIN due |-> <<due[i], fire(due[i])>>]
<1>1. S \subseteq Triggers /\ IsFiniteSet(Triggers)
  BY ScheduleAssumption DEF ListedSchedules, EnabledSchedules
<1>2. Cardinality(S) \in Nat
  BY <1>1, FS_Subset, FS_CardinalityType
<1>3. due \in [1..Cardinality(S) -> S]
  BY DEF Listings
<1>4. clock \in Minutes /\ ScheduleTypeOK
  BY DEF ScheduleInv, ScheduleTypeOK
<1>5. \A t \in S : t \in Triggers /\ fire(t) \in Minutes /\ fire(t) <= clock
  BY <1>1, <1>4, DueHasFired
<1> HIDE DEF S, fire
<1>6. /\ DOMAIN todo = 1..Cardinality(S)
      /\ \A i \in 1..Cardinality(S) : todo[i] \in Triggers \X Minutes /\ todo[i][2] <= clock
  BY <1>3, <1>5
<1>7. todo \in Seq(Triggers \X Minutes)
  <2>1. todo \in [1..Cardinality(S) -> Triggers \X Minutes]
    BY <1>3, <1>6
  <2> HIDE DEF todo
  <2>2. QED
    BY <1>2, <2>1
<1> DEFINE new == [at |-> "loop", now |-> clock, todo |-> todo]
<1>8. new \in SweepOf /\ new.at = "loop" /\ new.todo = todo /\ new.now = clock
  <2> HIDE DEF todo
  <2>1. QED
    BY <1>4, <1>7 DEF SweepOf
<1>9. SweepSound(new) /\ ~Holds(new)
  <2> HIDE DEF new, todo
  <2>1. QED
    BY <1>6, <1>8 DEF SweepSound, Holds
<1>10. QED
  BY <1>9 DEF fire

\* A trigger that fires, or a row that is not touched.
FiresAlone(t) ==
    trigger'[t].lastFired # trigger[t].lastFired \/ ticks'[t] # ticks[t] =>
        \E m \in Minutes : /\ trigger[t].lastFired < m /\ m <= trigger'[t].lastFired
                           /\ ticks'[t] = [ticks[t] EXCEPT ![m] = @ + 1]

LEMMA QueueTickStep ==
    ASSUME ScheduleInv, NEW w \in Dispatchers, QueueTick(w)
    PROVE  ScheduleInv' /\ \A x \in Triggers : FiresAlone(x)
<1> DEFINE d == dispatcher[w]
           t == Head(d.todo)[1]
           m == Head(d.todo)[2]
           new == [d EXCEPT !.at = "loop", !.todo = Tail(d.todo)]
<1>1. SweepSound(d) /\ d \in SweepOf /\ d.at = "checked" /\ d.todo # <<>> /\ Holds(d)
      /\ d.todo \in Seq(Triggers \X Minutes)
  BY DEF QueueTick, ScheduleInv, SweepsSound, SweepSound, SweepOf, Holds
<1>2. Head(d.todo) \in Triggers \X Minutes /\ 1 \in DOMAIN d.todo /\ Head(d.todo) = d.todo[1]
  BY <1>1, HeadAndTail
<1>3. t \in Triggers /\ m \in Minutes /\ d.now \in Minutes /\ m <= d.now
  BY <1>1, <1>2 DEF SweepSound, SweepOf
<1>4. /\ ticks' = [ticks EXCEPT ![t][m] = @ + 1]
      /\ trigger' = [trigger EXCEPT ![t].lastFired = d.now]
      /\ dispatcher' = [dispatcher EXCEPT ![w] = new]
      /\ UNCHANGED <<clock, workflow, dispatching, triggerEdits, dispatchFaults>>
  BY <1>1 DEF QueueTick, Proceeds, ScheduleInv, ScheduleTypeOK
<1>5. trigger[t].lastFired < m
        /\ \A v \in Dispatchers \ {w} : Holds(dispatcher[v]) => t # Head(dispatcher[v].todo)[1]
  BY <1>1 DEF ScheduleInv, ReservedOnce
<1>6. SweepSound(new) /\ ~Holds(new)
  BY <1>1, SweepSkips
<1> HIDE DEF new, t, m, d
<1>7. dispatcher'[w] = new /\ \A v \in Dispatchers \ {w} : dispatcher'[v] = dispatcher[v]
  BY <1>4 DEF ScheduleInv, ScheduleTypeOK
<1>8. /\ trigger' \in [Triggers -> TriggerRow] /\ trigger'[t].lastFired = d.now
      /\ \A x \in Triggers \ {t} : trigger'[x] = trigger[x]
  <2>1. trigger[t] \in TriggerRow /\ trigger \in [Triggers -> TriggerRow]
    BY <1>3 DEF ScheduleInv, ScheduleTypeOK
  <2>2. [trigger[t] EXCEPT !.lastFired = d.now] \in TriggerRow
        /\ [trigger[t] EXCEPT !.lastFired = d.now].lastFired = d.now
    BY <1>3, <2>1 DEF TriggerRow
  <2>3. trigger' = [trigger EXCEPT ![t] = [trigger[t] EXCEPT !.lastFired = d.now]]
    BY <1>3, <1>4, <2>1
  <2>4. QED
    BY <1>3, <2>1, <2>2, <2>3
<1>9. /\ ticks' \in [Triggers -> [Minutes -> Nat]]
      /\ ticks'[t] = [ticks[t] EXCEPT ![m] = @ + 1]
      /\ \A x \in Triggers \ {t} : ticks'[x] = ticks[x]
  <2>1. ticks \in [Triggers -> [Minutes -> Nat]] /\ ticks[t] \in [Minutes -> Nat]
    BY <1>3 DEF ScheduleInv, ScheduleTypeOK
  <2>2. ticks' = [ticks EXCEPT ![t] = [ticks[t] EXCEPT ![m] = @ + 1]]
    BY <1>4
  <2>3. [ticks[t] EXCEPT ![m] = @ + 1] \in [Minutes -> Nat]
    BY <1>3, <2>1
  <2>4. QED
    BY <1>3, <2>1, <2>2, <2>3
<1>10. ScheduleTypeOK'
  <2>1. dispatcher' \in [Dispatchers -> SweepOf]
    BY <1>4, <1>6 DEF ScheduleInv, ScheduleTypeOK, SweepSound
  <2>2. QED
    BY <1>4, <1>8, <1>9, <2>1 DEF ScheduleInv, ScheduleTypeOK
<1>11. SweepsSound'
  BY <1>6, <1>7 DEF ScheduleInv, SweepsSound
<1>12. ReservedOnce'
  <2>1. ASSUME NEW v \in Dispatchers, Holds(dispatcher'[v])
        PROVE  /\ v # w /\ dispatcher'[v] = dispatcher[v] /\ Holds(dispatcher[v])
               /\ Head(dispatcher[v].todo)[1] \in Triggers \ {t}
    <3>1. v # w /\ dispatcher'[v] = dispatcher[v] /\ Holds(dispatcher[v])
      BY <1>6, <1>7, <2>1
    <3>2. dispatcher[v].todo \in Seq(Triggers \X Minutes) /\ dispatcher[v].todo # <<>>
      BY <3>1 DEF ScheduleInv, SweepsSound, SweepSound, SweepOf
    <3>3. Head(dispatcher[v].todo) \in Triggers \X Minutes
      BY <3>2, HeadAndTail
    <3>4. QED
      BY <1>5, <3>1, <3>3
  <2>2. QED
    BY <1>8, <2>1 DEF ScheduleInv, ReservedOnce
<1>13. ASSUME NEW x \in Triggers PROVE FiresAlone(x)
  <2>1. CASE x = t
    BY <1>3, <1>5, <1>8, <1>9, <2>1 DEF FiresAlone
  <2>2. CASE x # t
    BY <1>8, <1>9, <2>2 DEF FiresAlone
  <2>3. QED
    BY <2>1, <2>2
<1>14. QED
  BY <1>10, <1>11, <1>12, <1>13 DEF ScheduleInv

LEMMA ScheduleStep ==
    ASSUME ScheduleInv, [ScheduleNext]_scheduleVars
    PROVE  ScheduleInv' /\ \A t \in Triggers : FiresAlone(t)
<1> USE ScheduleAssumption
<1> DEFINE Goal == ScheduleInv' /\ \A t \in Triggers : FiresAlone(t)
<1>1. ScheduleTypeOK
  BY DEF ScheduleInv
<1>2. UNCHANGED ticks /\ (\A t \in Triggers : trigger'[t].lastFired = trigger[t].lastFired)
          => \A t \in Triggers : FiresAlone(t)
  BY DEF FiresAlone
<1>3. CASE UNCHANGED scheduleVars
  <2>1. ScheduleTypeOK'
    BY <1>1, <1>3 DEF scheduleVars, scheduleRows, ScheduleTypeOK
  <2>2. QED
    BY <1>2, <1>3, <2>1, EditKeepsReserved DEF scheduleVars, scheduleRows
<1>4. ASSUME NEW t \in Triggers, NEW row \in TriggerRow, row.lastFired = trigger[t].lastFired,
             trigger' = [trigger EXCEPT ![t] = row], Edits,
             UNCHANGED <<clock, workflow, dispatching, ticks, dispatcher, dispatchFaults>>
      PROVE  Goal
  <2>1. /\ trigger' \in [Triggers -> TriggerRow]
        /\ \A x \in Triggers : trigger'[x].lastFired = trigger[x].lastFired
    BY <1>1, <1>4 DEF ScheduleTypeOK
  <2>2. ScheduleTypeOK'
    BY <1>1, <1>4, <2>1 DEF ScheduleTypeOK, Edits
  <2>3. QED
    BY <1>2, <1>4, <2>1, <2>2, EditKeepsReserved
<1>5. ASSUME NEW t \in Triggers, NEW on \in BOOLEAN, SetEnabled(t, on)
      PROVE  Goal
  <2> DEFINE row == [trigger[t] EXCEPT !.enabled = on]
  <2>1. trigger' = [trigger EXCEPT ![t] = row]
    BY <1>5 DEF SetEnabled
  <2>2. row \in TriggerRow /\ row.lastFired = trigger[t].lastFired
    <3>1. trigger[t] \in TriggerRow
      BY <1>1 DEF ScheduleTypeOK
    <3>2. QED
      BY <3>1 DEF TriggerRow
  <2> HIDE DEF row
  <2>3. QED
    BY <1>4, <1>5, <2>1, <2>2 DEF SetEnabled
<1>6. ASSUME NEW t \in Triggers, NEW cron \in Crons, UpdateCron(t, cron)
      PROVE  Goal
  <2> DEFINE row == [trigger[t] EXCEPT !.cron = cron]
  <2>1. trigger' = [trigger EXCEPT ![t] = row]
    BY <1>6 DEF UpdateCron
  <2>2. row \in TriggerRow /\ row.lastFired = trigger[t].lastFired
    <3>1. trigger[t] \in TriggerRow
      BY <1>1 DEF ScheduleTypeOK
    <3>2. QED
      BY <3>1 DEF TriggerRow
  <2> HIDE DEF row
  <2>3. QED
    BY <1>4, <1>6, <2>1, <2>2 DEF UpdateCron
<1>7. ASSUME NEW s \in WorkflowStatus, MoveWorkflow(s) \/ UpdateWorkflow(s)
      PROVE  Goal
  <2>1. ScheduleTypeOK' /\ UNCHANGED <<dispatcher, ticks, trigger>>
    BY <1>1, <1>7 DEF MoveWorkflow, UpdateWorkflow, Edits, ScheduleTypeOK
  <2>2. QED
    BY <1>2, <2>1, EditKeepsReserved
<1>8. CASE SwitchDispatching \/ MinutePasses
  <2>1. ScheduleTypeOK' /\ UNCHANGED <<dispatcher, ticks, trigger>>
    <3>1. CASE SwitchDispatching
      <4>1. (~dispatching) \in BOOLEAN
        OBVIOUS
      <4>2. QED
        BY <1>1, <3>1, <4>1 DEF SwitchDispatching, Edits, ScheduleTypeOK
    <3>2. CASE MinutePasses
      <4>1. clock' \in Minutes
        BY <1>1, <3>2 DEF MinutePasses, ScheduleTypeOK, Minutes
      <4>2. QED
        BY <1>1, <3>2, <4>1 DEF MinutePasses, ScheduleTypeOK, scheduleRows
    <3>3. QED
      BY <1>8, <3>1, <3>2
  <2>2. QED
    BY <1>2, <2>1, EditKeepsReserved
<1>9. ASSUME NEW w \in Dispatchers, NEW new, SweepSound(new),
             Holds(new) =>
                /\ trigger[Head(new.todo)[1]].lastFired < Head(new.todo)[2]
                /\ \A v \in Dispatchers \ {w} : Holds(dispatcher[v]) =>
                      Head(new.todo)[1] # Head(dispatcher[v].todo)[1],
             dispatcher' = [dispatcher EXCEPT ![w] = new],
             UNCHANGED <<clock, scheduleRows, ticks>>, dispatchFaults' \in 0..MaxDispatchFaults
      PROVE  Goal
  <2>1. ScheduleInv'
    BY <1>9, SweepMoves
  <2>2. QED
    BY <1>2, <1>9, <2>1 DEF scheduleRows
<1>10. ASSUME NEW w \in Dispatchers, DispatchStep(w) \/ DispatchFails(w)
       PROVE  Goal
  <2> DEFINE d == dispatcher[w]
             skip == [d EXCEPT !.at = "loop", !.todo = Tail(d.todo)]
  <2>1. SweepSound(d) /\ d \in SweepOf /\ d.todo \in Seq(Triggers \X Minutes)
    BY DEF ScheduleInv, SweepsSound, SweepSound, SweepOf
  <2>2. \A at, todo : Proceeds(w, at, todo) =>
            dispatcher' = [dispatcher EXCEPT ![w] = [d EXCEPT !.at = at, !.todo = todo]]
    BY DEF Proceeds, ScheduleInv, ScheduleTypeOK
  <2>3. dispatchFaults \in 0..MaxDispatchFaults
    BY <1>1 DEF ScheduleTypeOK
  <2>4. d.todo # <<>> => SweepSound(skip) /\ ~Holds(skip)
    BY <2>1, SweepSkips
  <2>5. CASE BeginDispatch(w)
    <3>1. PICK due \in Listings({t \in ListedSchedules : Due(t, clock)}) :
             dispatcher' = [dispatcher EXCEPT ![w] =
                 [at |-> "loop", now |-> clock,
                  todo |-> [i \in DOMAIN due |->
                               <<due[i], PreviousFire(trigger[due[i]].cron, clock)>>]]]
      BY <2>5 DEF BeginDispatch
    <3> DEFINE new == [at |-> "loop", now |-> clock,
                       todo |-> [i \in DOMAIN due |->
                                    <<due[i], PreviousFire(trigger[due[i]].cron, clock)>>]]
    <3>2. SweepSound(new) /\ ~Holds(new)
      BY BegunSweep
    <3>3. dispatcher' = [dispatcher EXCEPT ![w] = new]
      BY <3>1
    <3> HIDE DEF new
    <3>4. UNCHANGED <<clock, scheduleRows, ticks, dispatchFaults>>
      BY <2>5 DEF BeginDispatch
    <3>5. QED
      BY <1>9, <2>3, <3>2, <3>3, <3>4
  <2>6. CASE Reserve(w)
    <3>1. /\ d.at = "loop" /\ d.todo # <<>> /\ ~TriggerLocked(Head(d.todo)[1])
          /\ UNCHANGED <<clock, scheduleRows, ticks, dispatchFaults>>
      BY <2>6 DEF Reserve
    <3>2. CASE trigger[Head(d.todo)[1]].lastFired < Head(d.todo)[2]
      <4> DEFINE new == [d EXCEPT !.at = "reserved", !.todo = d.todo]
      <4>1. dispatcher' = [dispatcher EXCEPT ![w] = new]
        BY <2>2, <2>6, <3>2 DEF Reserve
      <4>2. new \in SweepOf /\ new.todo = d.todo /\ new.now = d.now
        BY <2>1 DEF SweepOf
      <4> HIDE DEF new
      <4>3. SweepSound(new)
        BY <2>1, <3>1, <4>2 DEF SweepSound
      <4>4. \A v \in Dispatchers \ {w} : Holds(dispatcher[v]) =>
               Head(new.todo)[1] # Head(dispatcher[v].todo)[1]
        BY <3>1, <4>2 DEF TriggerLocked, Holds
      <4>5. QED
        BY <1>9, <2>3, <3>1, <3>2, <4>1, <4>2, <4>3, <4>4
    <3>3. CASE ~(trigger[Head(d.todo)[1]].lastFired < Head(d.todo)[2])
      <4>1. dispatcher' = [dispatcher EXCEPT ![w] = skip]
        BY <2>2, <2>6, <3>3 DEF Reserve
      <4> HIDE DEF skip
      <4>2. QED
        BY <1>9, <2>3, <2>4, <3>1, <4>1
    <3>4. QED
      BY <3>2, <3>3
  <2>7. CASE CheckDispatch(w)
    <3>1. d.at = "reserved" /\ Holds(d) /\ UNCHANGED <<clock, scheduleRows, ticks, dispatchFaults>>
      BY <2>7 DEF CheckDispatch, Holds
    <3>2. d.todo # <<>>
      BY <2>1, <3>1 DEF SweepSound
    <3>3. CASE dispatching /\ workflow = "active"
      <4> DEFINE new == [d EXCEPT !.at = "checked", !.todo = d.todo]
      <4>1. dispatcher' = [dispatcher EXCEPT ![w] = new]
        BY <2>2, <2>7, <3>3 DEF CheckDispatch
      <4>2. new \in SweepOf /\ new.todo = d.todo /\ new.now = d.now
        BY <2>1 DEF SweepOf
      <4> HIDE DEF new
      <4>3. SweepSound(new)
        BY <2>1, <3>2, <4>2 DEF SweepSound
      <4>4. /\ trigger[Head(new.todo)[1]].lastFired < Head(new.todo)[2]
            /\ \A v \in Dispatchers \ {w} : Holds(dispatcher[v]) =>
                  Head(new.todo)[1] # Head(dispatcher[v].todo)[1]
        BY <3>1, <4>2 DEF ScheduleInv, ReservedOnce
      <4>5. QED
        BY <1>9, <2>3, <3>1, <4>1, <4>3, <4>4
    <3>4. CASE ~(dispatching /\ workflow = "active")
      <4>1. dispatcher' = [dispatcher EXCEPT ![w] = skip]
        BY <2>2, <2>7, <3>4 DEF CheckDispatch
      <4> HIDE DEF skip
      <4>2. QED
        BY <1>9, <2>3, <2>4, <3>1, <3>2, <4>1
    <3>5. QED
      BY <3>3, <3>4
  <2>8. CASE QueueTick(w)
    BY <2>8, QueueTickStep
  <2>9. CASE EndDispatch(w)
    <3>1. dispatcher' = [dispatcher EXCEPT ![w] = Resting]
          /\ UNCHANGED <<clock, scheduleRows, ticks, dispatchFaults>>
      BY <2>9 DEF EndDispatch
    <3>2. QED
      BY <1>9, <2>3, <3>1, RestingSound
  <2>10. CASE DispatchFails(w)
    <3>1. dispatchFaults' \in 0..MaxDispatchFaults /\ UNCHANGED <<clock, scheduleRows, ticks>>
      BY <2>3, <2>10 DEF DispatchFails
    <3>2. CASE d.at = "reserved" /\ Proceeds(w, "loop", Tail(d.todo))
      <4>1. dispatcher' = [dispatcher EXCEPT ![w] = skip]
        BY <2>2, <3>2
      <4>2. d.todo # <<>>
        BY <2>1, <3>2 DEF SweepSound, Holds
      <4> HIDE DEF skip
      <4>3. QED
        BY <1>9, <2>4, <3>1, <4>1, <4>2
    <3>3. CASE dispatcher' = [dispatcher EXCEPT ![w] = Resting]
      BY <1>9, <3>1, <3>3, RestingSound
    <3>4. QED
      BY <2>10, <3>2, <3>3 DEF DispatchFails
  <2>11. QED
    BY <1>10, <2>5, <2>6, <2>7, <2>8, <2>9, <2>10 DEF DispatchStep
<1>11. QED
  BY <1>3, <1>5, <1>6, <1>7, <1>8, <1>10 DEF ScheduleNext

LEMMA ScheduleInitially == ScheduleInit => ScheduleInv
<1> SUFFICES ASSUME ScheduleInit PROVE ScheduleInv
  OBVIOUS
<1>1. 0 \in Minutes
  BY ScheduleAssumption DEF Minutes
<1>2. \A w \in Dispatchers : dispatcher[w] = Resting
  BY DEF ScheduleInit
<1>3. Resting \in SweepOf
  BY RestingSound DEF SweepSound
<1>4. trigger \in [Triggers -> TriggerRow]
  <2>1. [cron : Crons, enabled : {TRUE}, lastFired : {Never}] \subseteq TriggerRow
    BY DEF TriggerRow
  <2>2. QED
    BY <2>1 DEF ScheduleInit
<1>5. ScheduleTypeOK
  BY <1>1, <1>3, <1>4, ScheduleAssumption DEF ScheduleInit, ScheduleTypeOK, WorkflowStatus
<1>6. QED
  BY <1>2, <1>5, RestingSound DEF ScheduleInv, SweepsSound, ReservedOnce

\* reserve_last_fired() with any number of dispatchers, whatever is edited,
\* refused or lost meanwhile: last_fired_at and the executions of a trigger move
\* together, by one execution of a tick later than the last.
THEOREM TicksQueuedOnce == ScheduleSpec => []ScheduleTypeOK /\ TickQueuedOnce
<1>1. ScheduleInit => ScheduleInv
  BY ScheduleInitially
<1>2. ScheduleInv /\ [ScheduleNext]_scheduleVars => ScheduleInv'
  BY ScheduleStep
<1>3. ScheduleInv /\ [ScheduleNext]_scheduleVars
         => [\A t \in Triggers :
               trigger'[t].lastFired # trigger[t].lastFired \/ ticks'[t] # ticks[t] =>
                  \E m \in Minutes : /\ trigger[t].lastFired < m /\ m <= trigger'[t].lastFired
                                     /\ ticks'[t] = [ticks[t] EXCEPT ![m] = @ + 1]]_scheduleVars
  BY ScheduleStep DEF FiresAlone
<1>4. ScheduleInv => ScheduleTypeOK
  BY DEF ScheduleInv
<1>5. QED
  BY <1>1, <1>2, <1>3, <1>4, PTL DEF ScheduleSpec, TickQueuedOnce

-----------------------------------------------------------------------------
(* The components together.                                                *)

\* What is inductive of every component on its own.
ComponentsInv ==
    /\ AgentTypeOK /\ ScheduleInv /\ FanoutTypeOK /\ EventAccounted /\ FounderInv
    /\ KeyTypeOK /\ RotationsOfRows /\ RetentionTypeOK /\ TicksOK
    /\ TriageTypeOK /\ SweepsOK

\* A step of the composition is a step or a stutter of each component.
LEMMA StepsOfComponents ==
    ASSUME [Next]_vars
    PROVE  /\ [AgentNext]_agentVars /\ [ScheduleNext]_scheduleVars /\ [FanoutNext]_fanoutVars
           /\ [FounderNext]_founderVars /\ [KeyNext]_keyVars
           /\ [RetentionNext]_retentionVars /\ [TriageNext]_triageVars
<1>1. CASE UNCHANGED vars
  BY <1>1 DEF vars, queueVars, upkeepVars
<1>2. CASE Queues
  BY <1>2 DEF Queues, upkeepVars
<1>3. CASE Upkeep
  BY <1>3 DEF Upkeep, queueVars
<1>4. QED
  BY <1>1, <1>2, <1>3 DEF Next

\* The types, and the conditions beside them, hold in the composition whatever
\* component a behaviour is about and however many workers each has; so do the
\* account of an event and the tasks behind an approval.
THEOREM AutomationTypes ==
    Spec => [](AutomationTypesOK /\ EventAccounted /\ TaskBehindApproval)
<1>1. Init => ComponentsInv
  BY AgentInitially, ScheduleInitially, FanoutInitially, FounderInitially, KeyInitially,
     RetentionInitially, TriageInitially
  DEF Init, ComponentsInv
<1>2. ComponentsInv /\ [Next]_vars => ComponentsInv'
  BY StepsOfComponents, AgentStepHonours, ScheduleStep, FanoutStep, FounderStep,
     KeyTypeStep, RetentionTypeStep, TriageTypeStep
  DEF ComponentsInv
<1>3. ComponentsInv => AutomationTypesOK /\ EventAccounted /\ TaskBehindApproval
  BY FounderKeeps DEF ComponentsInv, ScheduleInv, AutomationTypesOK
<1>4. QED
  BY <1>1, <1>2, <1>3, PTL DEF Spec
=============================================================================
