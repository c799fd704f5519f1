---------------------------- MODULE DataRetention ----------------------------
(***************************************************************************)
(* The sweeps that delete old rows: MemoryWorker (expired working          *)
(* memories, one organization after the other) and RetentionWorker         *)
(* (execution events, delivery events, heartbeats of workers that are      *)
(* gone).  A tick is one transaction over many batches, several instances  *)
(* of a worker may run, and members delete memories meanwhile.             *)
(***************************************************************************)
EXTENDS Naturals, FiniteSets

CONSTANTS
    MemorySweeps,       \* instances of MemoryWorker
    TelemetrySweeps,    \* and of RetentionWorker
    WorkingMemories,    \* sets of rows: one set for each organization
    LongTermMemories,
    Telemetry,          \* sets of rows: one set for each table
    SweepBatch,         \* MEMORY_CLEANUP_BATCH_SIZE, EXECUTION_RETENTION_BATCH
    MaxOrgs,            \* _MAX_ORGS_PER_TICK
    MaxSweepFaults      \* bound of the model: ticks that time out or crash

OldRows == UNION (WorkingMemories \cup Telemetry) \cup LongTermMemories
Sweeps == MemorySweeps \cup TelemetrySweeps

ASSUME RetentionAssumption ==
    /\ OldRows \subseteq Nat /\ SweepBatch \in Nat \ {0} /\ MaxOrgs \in Nat \ {0}
    /\ MaxSweepFaults \in Nat /\ MemorySweeps \cap TelemetrySweeps = {}

VARIABLES
    stored,         \* the committed rows
    aged,           \* those past their cutoff
    tick,           \* tick[s]: the expired rows the sweep s has left, by
                    \* organization or table, those it listed, and deleted
    sweepFaults

retentionVars == <<stored, aged, tick, sweepFaults>>

NoTick == [groups |-> {}, listed |-> {}, deleted |-> {}, open |-> FALSE]

RetentionTypeOK ==
    /\ aged \subseteq stored /\ stored \subseteq OldRows
    /\ sweepFaults \in 0..MaxSweepFaults
    /\ \A s \in Sweeps :
          /\ \A g \in tick[s].groups : g # {} /\ g \subseteq OldRows
          /\ tick[s].listed \subseteq OldRows /\ tick[s].deleted \subseteq stored
          /\ ~tick[s].open => tick[s] = NoTick
          \* a deleted row is locked: nobody else can delete it
          /\ \A t \in Sweeps \ {s} : tick[s].deleted \cap tick[t].deleted = {}

\* an empty database, or one in use: its telemetry and long-term memories are
\* old already
RetentionInit ==
    /\ stored \in {{}, OldRows} /\ sweepFaults = 0
    /\ aged = stored \ UNION WorkingMemories
    /\ tick = [s \in Sweeps |-> NoTick]

-----------------------------------------------------------------------------
Locked == UNION {tick[s].deleted : s \in Sweeps}
Visible(s) == stored \ tick[s].deleted

\* the oldest rows first, at most a batch of them
OldestOf(rows) == {r \in rows : Cardinality({q \in rows : q < r}) < SweepBatch}

\* rows are numbered as they were created
RowsAge(r) ==
    /\ r \in stored \ aged
    /\ \A g \in WorkingMemories \cup Telemetry :
          r \in g => \A q \in (g \cap stored) \ aged : r <= q
    /\ aged' = aged \cup {r}
    /\ UNCHANGED <<stored, tick, sweepFaults>>

\* DELETE of a memory by a member waits for the sweep that has deleted it
DeleteMemory(r) ==
    /\ r \in (UNION WorkingMemories \cap stored) \ Locked
    /\ stored' = stored \ {r} /\ aged' = aged \ {r}
    /\ UNCHANGED <<tick, sweepFaults>>

Smaller(m, n) == IF m < n THEN m ELSE n

\* _orgs_with_expired_working(): some of the organizations, in no order; the
\* cutoff is the one of the start of the tick
BeginMemoryTick(s) ==
    /\ s \in MemorySweeps /\ ~tick[s].open
    /\ LET expired == {g \cap aged : g \in WorkingMemories} \ {{}}
       IN  \E some \in SUBSET expired :
              /\ Cardinality(some) = Smaller(Cardinality(expired), MaxOrgs)
              /\ tick' = [tick EXCEPT ![s].open = TRUE, ![s].groups = some]
    /\ UNCHANGED <<stored, aged, sweepFaults>>

BeginTelemetryTick(s) ==
    /\ s \in TelemetrySweeps /\ ~tick[s].open
    /\ tick' = [tick EXCEPT ![s].open = TRUE,
                   ![s].groups = {g \cap aged : g \in Telemetry} \ {{}}]
    /\ UNCHANGED <<stored, aged, sweepFaults>>

\* a batch loop is finished before the next begins, and a retention tick takes
\* the tables in their order
Comes(s, g) ==
    /\ g \in tick[s].groups
    /\ s \in TelemetrySweeps => \A h \in tick[s].groups \ {g} : \E r \in g : \A q \in h : r < q
    /\ \A h \in tick[s].groups \ {g} : h \cap tick[s].deleted = {}

\* list_expired_working(), and the subqueries of the deletes
ListBatch(s, g) ==
    /\ tick[s].listed = {} /\ Comes(s, g) /\ g \cap Visible(s) # {}
    /\ tick' = [tick EXCEPT ![s].listed = OldestOf(g \cap Visible(s))]
    /\ UNCHANGED <<stored, aged, sweepFaults>>

NothingExpired(s, g) ==
    /\ tick[s].listed = {} /\ Comes(s, g) /\ g \cap Visible(s) = {}
    /\ tick' = [tick EXCEPT ![s].groups = @ \ {g}]
    /\ UNCHANGED <<stored, aged, sweepFaults>>

\* delete_many(): fewer rows than a batch end the organization or the table
AfterDelete(s, g) ==
    LET deleted == tick[s].listed \cap stored
    IN  [tick[s] EXCEPT !.deleted = @ \cup deleted, !.listed = {},
            !.groups = IF Cardinality(deleted) < SweepBatch THEN @ \ {g} ELSE @]

\* it waits for the rows another sweep has deleted
DeleteBatch(s, g) ==
    /\ tick[s].listed # {} /\ Comes(s, g) /\ tick[s].listed \subseteq g
    /\ \A t \in Sweeps \ {s} : tick[s].listed \cap tick[t].deleted = {}
    /\ tick' = [tick EXCEPT ![s] = AfterDelete(s, g)]
    /\ UNCHANGED <<stored, aged, sweepFaults>>

CommitTick_Missing(s) ==
    /\ tick[s].open /\ tick[s].groups = {} /\ tick[s].listed = {}
    /\ tick' = [tick EXCEPT ![s] = NoTick]
    /\ UNCHANGED <<stored, aged, sweepFaults>>

\* one commit for the whole tick
CommitTick(s) ==
    /\ tick[s].open /\ tick[s].groups = {} /\ tick[s].listed = {}
    /\ stored' = stored \ tick[s].deleted /\ aged' = aged \ tick[s].deleted
    /\ tick' = [tick EXCEPT ![s] = NoTick]
    /\ UNCHANGED sweepFaults

TickFails(s) ==
    /\ tick[s].open /\ sweepFaults < MaxSweepFaults
    /\ sweepFaults' = sweepFaults + 1
    /\ tick' = [tick EXCEPT ![s] = NoTick]
    /\ UNCHANGED <<stored, aged>>

\* two ticks that took the organizations in different orders: the database
\* ends one of them, and the other gets the rows it waits for, when they are
\* not also held by a third
TickDeadlocked(s, t) ==
    /\ s # t /\ tick[s].listed \cap tick[t].deleted # {}
    /\ tick[t].listed \cap tick[s].deleted # {}
    /\ \E g \in tick[t].groups :
          /\ tick[t].listed \subseteq g
          /\ LET held == \E u \in Sweeps \ {s, t} : tick[t].listed \cap tick[u].deleted # {}
             IN  tick' = [tick EXCEPT ![s] = NoTick,
                             ![t] = IF held THEN tick[t] ELSE AfterDelete(t, g)]
    /\ UNCHANGED <<stored, aged, sweepFaults>>

SweepStep(s) ==
    \/ BeginMemoryTick(s) \/ BeginTelemetryTick(s) \/ CommitTick(s)
    \/ \E g \in tick[s].groups : ListBatch(s, g) \/ NothingExpired(s, g) \/ DeleteBatch(s, g)
    \/ \E t \in Sweeps : TickDeadlocked(s, t)

RetentionNext ==
    \/ \E r \in OldRows : RowsAge(r) \/ DeleteMemory(r)
    \/ \E s \in Sweeps : SweepStep(s) \/ TickFails(s)

\* run_loop(): a worker keeps ticking, whatever a tick raised
RetentionSpec ==
    /\ RetentionInit /\ [][RetentionNext]_retentionVars
    /\ \A s \in Sweeps : WF_retentionVars(SweepStep(s))

-----------------------------------------------------------------------------
\* Batches, an organization limit, row locks and deadlocks delay the cleanup,
\* and an early end of a batch loop leaves rows behind: the next ticks get them
\* (a row does not come back, so that none of them waits for ever).
ExpiredRowsGo == []<>(aged \subseteq LongTermMemories)
=============================================================================
