---------------------------- MODULE EventFanout ----------------------------
(***************************************************************************)
(* WorkflowEventService.publish(): one event row, and one queue() for each *)
(* enabled event trigger up to EVENT_FANOUT_MAX_TRIGGERS.  queue() commits *)
(* the session, so that the event is committed with its first execution.   *)
(***************************************************************************)
EXTENDS Naturals, FiniteSets

CONSTANTS
    Events,             \* events of one type; an element stands for its publish()
    EventTriggers,      \* numbers: the order of created_at
    MaxFanout,          \* EVENT_FANOUT_MAX_TRIGGERS
    MaxEventToggles     \* bound of the model: changes of triggers and switch

ASSUME FanoutAssumption ==
    /\ EventTriggers \subseteq Nat /\ IsFiniteSet(EventTriggers)
    /\ {MaxFanout, MaxEventToggles} \subseteq Nat

VARIABLES
    event,          \* event[e]: where publish() is and what is committed
    enabledFor,     \* the enabled triggers of the event type
    deleted,        \* the triggers that are gone with their workflow
    queueOpen,      \* queue() is not refused: switch, workflow and cap
    eventToggles

fanoutVars == <<event, enabledFor, deleted, queueOpen, eventToggles>>

\* at: publish() has not begun, is in the loop, has ended it with a rolled back
\* session, has answered or raised, or its process died; stored: the row is
\* committed; queued: triggers with an execution
EventOf == [at : {"new", "loop", "rolledback", "answered", "refused", "died"},
            stored : BOOLEAN, consumed : BOOLEAN,
            todo : SUBSET EventTriggers, queued : SUBSET EventTriggers]

FanoutTypeOK ==
    /\ event \in [Events -> EventOf]
    /\ enabledFor \subseteq EventTriggers /\ deleted \subseteq EventTriggers
    /\ queueOpen \in BOOLEAN
    /\ eventToggles \in 0..MaxEventToggles

FanoutInit ==
    /\ event = [e \in Events |-> [at |-> "new", stored |-> FALSE,
                                  consumed |-> FALSE, todo |-> {}, queued |-> {}]]
    /\ enabledFor = EventTriggers /\ deleted = {}
    /\ queueOpen = TRUE /\ eventToggles = 0

\* get_by_event_type(limit): oldest first, the rest of the fan-out is dropped
Matching == {t \in enabledFor : Cardinality({x \in enabledFor : x < t}) < MaxFanout}

\* the switch is checked before anything is written
Publish(e) ==
    /\ event[e].at = "new"
    /\ event' = [event EXCEPT ![e] =
          IF queueOpen THEN [@ EXCEPT !.at = "loop", !.todo = Matching]
                       ELSE [@ EXCEPT !.at = "refused"]]
    /\ UNCHANGED <<enabledFor, deleted, queueOpen, eventToggles>>

QueueNext_NoCommit(e) ==
    /\ event[e].at = "loop" /\ event[e].todo # {}
    /\ \E t \in event[e].todo :
          event' = [event EXCEPT ![e].todo = @ \ {t},
                        ![e].queued = IF queueOpen THEN @ \cup {t} ELSE @]
    /\ UNCHANGED <<enabledFor, deleted, queueOpen, eventToggles>>

NextTrigger(e) == CHOOSE t \in event[e].todo : \A u \in event[e].todo : t <= u

\* queue() of the next trigger, which is not read again; an AppError is skipped
QueueNext(e) ==
    /\ event[e].at = "loop" /\ event[e].todo # {}
    /\ LET t == NextTrigger(e)
           queues == queueOpen /\ t \notin deleted
       IN  event' = [event EXCEPT ![e].todo = @ \ {t},
                        ![e].queued = IF queues THEN @ \cup {t} ELSE @,
                        ![e].stored = @ \/ queues]
    /\ UNCHANGED <<enabledFor, deleted, queueOpen, eventToggles>>

\* the INSERT is refused, for the workflow that was found active is deleted by
\* then: queue() rolls the session back, with an event that is not committed
\* yet, and the loop raises at the next trigger, an expired object
QueueRefused(e) ==
    /\ event[e].at = "loop" /\ event[e].todo # {}
    /\ queueOpen /\ NextTrigger(e) \notin deleted
    /\ eventToggles < MaxEventToggles /\ eventToggles' = eventToggles + 1
    /\ event' = [event EXCEPT ![e].todo = {},
                  ![e].at = IF event[e].todo = {NextTrigger(e)} THEN "rolledback" ELSE "died"]
    /\ deleted' = deleted \cup {NextTrigger(e)}
    /\ enabledFor' = enabledFor \ {NextTrigger(e)}
    /\ UNCHANGED queueOpen

\* consumed and the last commit, which has no event to store after a roll-back
\* that lost it
FinishPublish(e) ==
    /\ event[e].at \in {"loop", "rolledback"} /\ event[e].todo = {}
    /\ event' = [event EXCEPT ![e].at = "answered",
                              ![e].stored = @ \/ event[e].at = "loop",
                              ![e].consumed = (event[e].queued # {})]
    /\ UNCHANGED <<enabledFor, deleted, queueOpen, eventToggles>>

PublisherDies(e) ==
    /\ event[e].at \in {"loop", "rolledback"}
    /\ event' = [event EXCEPT ![e].at = "died", ![e].todo = {}]
    /\ UNCHANGED <<enabledFor, deleted, queueOpen, eventToggles>>

ToggleEvents ==
    /\ eventToggles < MaxEventToggles
    /\ eventToggles' = eventToggles + 1
    /\ \/ \E t \in EventTriggers \ deleted :
             enabledFor' = (enabledFor \ {t}) \cup ({t} \ enabledFor)
          /\ UNCHANGED <<deleted, queueOpen>>
       \/ \E t \in EventTriggers \ deleted :
             enabledFor' = enabledFor \ {t} /\ deleted' = deleted \cup {t}
          /\ UNCHANGED queueOpen
       \/ queueOpen' = ~queueOpen /\ UNCHANGED <<enabledFor, deleted>>
    /\ UNCHANGED event

FanoutNext ==
    \/ \E e \in Events :
          \/ Publish(e) \/ QueueNext(e) \/ QueueRefused(e)
          \/ FinishPublish(e) \/ PublisherDies(e)
    \/ ToggleEvents

FanoutSpec == FanoutInit /\ [][FanoutNext]_fanoutVars

-----------------------------------------------------------------------------
\* publish(): an execution always finds the event it was queued for, also when
\* the publisher dies or is rolled back in the fan-out; an event shown as
\* consumed has started something, and one answered as not consumed has started
\* nothing.
EventAccounted ==
    \A e \in Events :
        /\ event[e].queued # {} => event[e].stored
        /\ event[e].consumed => event[e].queued # {}
        /\ event[e].at = "answered" /\ ~event[e].consumed => event[e].queued = {}
=============================================================================
