-------------------------- MODULE ScheduleDispatch --------------------------
(***************************************************************************)
(* The schedule triggers of one workflow, the handlers that change them,   *)
(* and the dispatchers that turn cron ticks into queued executions.        *)
(*                                                                         *)
(* Time is counted in minutes and a cron expression is the set of minutes  *)
(* it matches.  A dispatcher reads the clock once, lists the triggers, and *)
(* takes each in a savepoint: reserve the tick, queue.  queue() commits    *)
(* the whole session; an AppError takes the reservation back.              *)
(***************************************************************************)
EXTENDS Integers, FiniteSets, Sequences

CONSTANTS
    Triggers,           \* numbers: the order of created_at
    Dispatchers,        \* processes that run schedule_tick()
    Crons,              \* the cron expressions in use, sets of minutes
    DispatchBatch,      \* SCHEDULE_BATCH_LIMIT
    LastMinute,         \* bound of the model: the clock
    MaxTriggerEdits,    \* bound of the model: handlers that change triggers
                        \* or the workflow
    MaxDispatchFaults   \* bound of the model: crashes, refusals at the cap

Minutes == 0..LastMinute

ASSUME ScheduleAssumption ==
    /\ Triggers \subseteq Nat /\ IsFiniteSet(Triggers)
    /\ {DispatchBatch, LastMinute, MaxTriggerEdits, MaxDispatchFaults} \subseteq Nat
    /\ Crons \subseteq SUBSET Minutes

VARIABLES
    clock,
    trigger,        \* trigger[t]: the committed row of t
    workflow,       \* the status of the workflow of all the triggers
    dispatching,    \* the automation kill switch is open
    ticks,          \* ticks[t][m]: executions queued with scheduled_at = m
    dispatcher,     \* dispatcher[w]: the sweep of w
    triggerEdits, dispatchFaults

scheduleRows == <<trigger, workflow, dispatching, triggerEdits>>
scheduleVars == <<clock, scheduleRows, ticks, dispatcher, dispatchFaults>>

Never == -1     \* last_fired_at IS NULL, and a cron that has not fired

TriggerRow == [cron : Crons, enabled : BOOLEAN, lastFired : Minutes \cup {Never}]
WorkflowStatus == {"draft", "active", "paused", "archived"}

\* at: where in dispatch_due(); now: its clock; todo: the triggers not yet
\* taken with their fire times, first the one in hand
SweepOf == [at : {"idle", "loop", "reserved", "checked"},
            now : Minutes, todo : Seq(Triggers \X Minutes)]

ScheduleTypeOK ==
    /\ clock \in Minutes
    /\ trigger \in [Triggers -> TriggerRow]
    /\ workflow \in WorkflowStatus /\ dispatching \in BOOLEAN
    /\ ticks \in [Triggers -> [Minutes -> Nat]]
    /\ dispatcher \in [Dispatchers -> SweepOf]
    /\ triggerEdits \in 0..MaxTriggerEdits
    /\ dispatchFaults \in 0..MaxDispatchFaults

Resting == [at |-> "idle", now |-> 0, todo |-> <<>>]

ScheduleInit ==
    /\ clock = 0
    /\ trigger \in [Triggers -> [cron : Crons, enabled : {TRUE}, lastFired : {Never}]]
    /\ workflow = "active" /\ dispatching = TRUE
    /\ ticks = [t \in Triggers |-> [m \in Minutes |-> 0]]
    /\ dispatcher = [w \in Dispatchers |-> Resting]
    /\ triggerEdits = 0 /\ dispatchFaults = 0

\* the newest minute of the cron at or before now, if any
PreviousFire(cron, now) ==
    LET past == {m \in cron : m <= now}
    IN  IF past = {} THEN Never ELSE CHOOSE m \in past : \A x \in past : x <= m

\* a cron that never fired is not due: Never is not below itself
Due(t, now) == trigger[t].lastFired < PreviousFire(trigger[t].cron, now)

TriggerLocked(t) ==
    \E w \in Dispatchers :
        dispatcher[w].at \in {"reserved", "checked"} /\ Head(dispatcher[w].todo)[1] = t

EnabledSchedules == {t \in Triggers : workflow = "active" /\ trigger[t].enabled}

\* ORDER BY last_fired_at NULLS FIRST, created_at
Precedes(t, u) ==
    \/ trigger[t].lastFired < trigger[u].lastFired
    \/ trigger[t].lastFired = trigger[u].lastFired /\ t < u

ListedSchedules_FiredOnly == {t \in EnabledSchedules : trigger[t].lastFired # Never}

\* the enabled schedules of an active workflow, the first DispatchBatch of them
ListedSchedules ==
    {t \in EnabledSchedules :
        Cardinality({u \in EnabledSchedules : Precedes(u, t)}) < DispatchBatch}

\* the elements of S in the order of the listing: there is one such sequence
Listings(S) ==
    {listed \in [1..Cardinality(S) -> S] :
        \A i, j \in DOMAIN listed : i < j => Precedes(listed[i], listed[j])}

-----------------------------------------------------------------------------
(* WorkflowTriggerService, WorkflowService and the kill switch.            *)

Edits == triggerEdits < MaxTriggerEdits /\ triggerEdits' = triggerEdits + 1

\* enable(), disable() and update() of the cron, which wait for the row
SetEnabled(t, on) ==
    /\ Edits /\ trigger[t].enabled # on /\ ~TriggerLocked(t)
    /\ trigger' = [trigger EXCEPT ![t].enabled = on]
    /\ UNCHANGED <<clock, workflow, dispatching, ticks, dispatcher, dispatchFaults>>

UpdateCron(t, cron) ==
    /\ Edits /\ trigger[t].cron # cron /\ ~TriggerLocked(t)
    /\ trigger' = [trigger EXCEPT ![t].cron = cron]
    /\ UNCHANGED <<clock, workflow, dispatching, ticks, dispatcher, dispatchFaults>>

\* activate(), pause(), archive(): each checks the status it starts from
WorkflowMoves(from, to) ==
    \/ to = "active" /\ from \notin {"active", "archived"}
    \/ to = "paused" /\ from = "active"
    \/ to = "archived" /\ from # "archived"

MoveWorkflow(s) ==
    /\ Edits /\ WorkflowMoves(workflow, s)
    /\ workflow' = s
    /\ UNCHANGED <<clock, trigger, dispatching, ticks, dispatcher, dispatchFaults>>

\* update(): any status, also out of ARCHIVED
UpdateWorkflow(s) ==
    /\ Edits /\ workflow # s
    /\ workflow' = s
    /\ UNCHANGED <<clock, trigger, dispatching, ticks, dispatcher, dispatchFaults>>

SwitchDispatching ==
    /\ Edits
    /\ dispatching' = ~dispatching
    /\ UNCHANGED <<clock, trigger, workflow, ticks, dispatcher, dispatchFaults>>

MinutePasses ==
    /\ clock < LastMinute
    /\ clock' = clock + 1
    /\ UNCHANGED <<scheduleRows, ticks, dispatcher, dispatchFaults>>

-----------------------------------------------------------------------------
(* ScheduleDispatcher.dispatch_due().                                      *)

Proceeds(w, at, todo) ==
    dispatcher' = [dispatcher EXCEPT ![w].at = at, ![w].todo = todo]

\* The checks of the loop read only what was listed and the clock of the
\* sweep: the triggers that are not due are skipped here.
BeginDispatch(w) ==
    /\ dispatcher[w].at = "idle" /\ dispatching
    /\ \E due \in Listings({t \in ListedSchedules : Due(t, clock)}) :
          dispatcher' = [dispatcher EXCEPT ![w] =
              [at |-> "loop", now |-> clock,
               todo |-> [i \in DOMAIN due |->
                            <<due[i], PreviousFire(trigger[due[i]].cron, clock)>>]]]
    /\ UNCHANGED <<clock, scheduleRows, ticks, dispatchFaults>>

Reserve_Unguarded(w) ==
    /\ dispatcher[w].at = "loop" /\ dispatcher[w].todo # <<>>
    /\ ~TriggerLocked(Head(dispatcher[w].todo)[1])
    /\ Proceeds(w, "reserved", dispatcher[w].todo)
    /\ UNCHANGED <<clock, scheduleRows, ticks, dispatchFaults>>

\* reserve_last_fired(): waits for the row, then matches when the trigger has
\* not fired since the tick, or conflicts
Reserve(w) ==
    /\ dispatcher[w].at = "loop" /\ dispatcher[w].todo # <<>>
    /\ LET t == Head(dispatcher[w].todo)[1]
           m == Head(dispatcher[w].todo)[2]
       IN  /\ ~TriggerLocked(t)
           /\ IF trigger[t].lastFired < m
              THEN Proceeds(w, "reserved", dispatcher[w].todo)
              ELSE Proceeds(w, "loop", Tail(dispatcher[w].todo))
    /\ UNCHANGED <<clock, scheduleRows, ticks, dispatchFaults>>

\* queue() checks the switch and the workflow; its AppError rolls the
\* savepoint back
CheckDispatch(w) ==
    /\ dispatcher[w].at = "reserved"
    /\ IF dispatching /\ workflow = "active"
       THEN Proceeds(w, "checked", dispatcher[w].todo)
       ELSE Proceeds(w, "loop", Tail(dispatcher[w].todo))
    /\ UNCHANGED <<clock, scheduleRows, ticks, dispatchFaults>>

\* queue() commits the execution and the reservation: last_fired_at is now
QueueTick(w) ==
    /\ dispatcher[w].at = "checked"
    /\ LET t == Head(dispatcher[w].todo)[1]
           m == Head(dispatcher[w].todo)[2]
       IN  /\ ticks' = [ticks EXCEPT ![t][m] = @ + 1]
           /\ trigger' = [trigger EXCEPT ![t].lastFired = dispatcher[w].now]
    /\ Proceeds(w, "loop", Tail(dispatcher[w].todo))
    /\ UNCHANGED <<clock, workflow, dispatching, triggerEdits, dispatchFaults>>

EndDispatch(w) ==
    /\ dispatcher[w].at = "loop" /\ dispatcher[w].todo = <<>>
    /\ dispatcher' = [dispatcher EXCEPT ![w] = Resting]
    /\ UNCHANGED <<clock, scheduleRows, ticks, dispatchFaults>>

\* queue() finds the organization at its pending cap, and the loop goes on; or
\* the process dies, and what it has not committed with it
DispatchFails(w) ==
    /\ dispatchFaults < MaxDispatchFaults /\ dispatcher[w].at # "idle"
    /\ dispatchFaults' = dispatchFaults + 1
    /\ \/ dispatcher[w].at = "reserved" /\ Proceeds(w, "loop", Tail(dispatcher[w].todo))
       \/ dispatcher' = [dispatcher EXCEPT ![w] = Resting]
    /\ UNCHANGED <<clock, scheduleRows, ticks>>

DispatchStep(w) ==
    \/ BeginDispatch(w) \/ Reserve(w) \/ CheckDispatch(w)
    \/ QueueTick(w) \/ EndDispatch(w)

ScheduleNext ==
    \/ \E t \in Triggers :
          \/ \E on \in BOOLEAN : SetEnabled(t, on)
          \/ \E cron \in Crons : UpdateCron(t, cron)
    \/ \E s \in WorkflowStatus : MoveWorkflow(s) \/ UpdateWorkflow(s)
    \/ SwitchDispatching \/ MinutePasses
    \/ \E w \in Dispatchers : DispatchStep(w) \/ DispatchFails(w)

\* every worker calls schedule_tick() on its interval for ever
ScheduleFairness ==
    /\ \A w \in Dispatchers : WF_scheduleVars(DispatchStep(w))
    /\ WF_scheduleVars(MinutePasses)

ScheduleSpec == ScheduleInit /\ [][ScheduleNext]_scheduleVars /\ ScheduleFairness

-----------------------------------------------------------------------------
Armed(t) == trigger[t].enabled /\ workflow = "active" /\ dispatching = TRUE

\* list_enabled_schedules(): "a backlog of due triggers is caught up fairly": a
\* due trigger is dispatched, or is no longer allowed to be.
DueTriggersFire ==
    \A t \in Triggers : Due(t, clock) ~> (~Due(t, clock) \/ ~Armed(t))

\* reserve_last_fired(): "a tick can never dispatch twice, even under retries,
\* multiple workers, or process restarts", nor when the cron is edited; and a
\* tick is used up only by an execution.  last_fired_at and the executions of a
\* trigger move together, to a tick later than the last one, never for a
\* refusal, a lost race or a crash.
TickQueuedOnce ==
    [][\A t \in Triggers :
         trigger'[t].lastFired # trigger[t].lastFired \/ ticks'[t] # ticks[t] =>
            \E m \in Minutes : /\ trigger[t].lastFired < m /\ m <= trigger'[t].lastFired
                               /\ ticks'[t] = [ticks[t] EXCEPT ![m] = @ + 1]]_scheduleVars
=============================================================================
