----------------------------- MODULE SignalTriage -----------------------------
(***************************************************************************)
(* The feed of intelligence signals of one organization: sweeps            *)
(* (IntelligenceTriageWorker, or a member's request) bring the table in     *)
(* line with what the sources emit, one transaction each, while founders    *)
(* acknowledge signals.  Only live rows are kept: a superseded row is never *)
(* read again and its place is free.                                        *)
(***************************************************************************)
EXTENDS Naturals, FiniteSets

CONSTANTS
    Hashes,         \* content hashes of the candidates, numbered by their score
    SignalRows,
    NoSignal,       \* a free row
    Triagers,       \* sweeps in progress
    Deciders,
    MaxEmissions    \* bound of the model: changes of the sources

ASSUME TriageAssumption == Hashes \subseteq Nat /\ MaxEmissions \in Nat

VARIABLES
    emitted,        \* the candidates collect_candidates() would return now
    emissions,
    signals,        \* the committed live rows: signals[r] is a content hash
    sweep,          \* sweep[t]: the transaction of the sweep t
    marking        \* marking[f]: the row an update_status() holds

triageVars == <<emitted, emissions, signals, sweep, marking>>

NoSweep == [at |-> "idle", live |-> {}, todo |-> {}, missing |-> {}, retried |-> FALSE,
            updated |-> {}, dropped |-> {}, added |-> {}]

Live(h) == \E r \in SignalRows : signals[r] = h

TriageTypeOK ==
    /\ emitted \subseteq Hashes /\ emissions \in 0..MaxEmissions
    /\ signals \in [SignalRows -> Hashes \cup {NoSignal}]
    /\ \A t \in Triagers :
          LET s == sweep[t]
          IN  /\ s.at \in {"idle", "sync", "ready"} /\ s.todo \cup s.added \subseteq s.live
              /\ s.live \subseteq Hashes /\ s.retried \in BOOLEAN
              /\ s.missing \subseteq s.todo /\ Cardinality(s.missing) <= 1
              \* what the transaction will supersede has not been superseded since
              /\ \A r \in s.dropped : signals[r] \in Hashes \ s.live
    /\ marking \in [Deciders -> SignalRows \cup {NoSignal}]

TriageInit ==
    /\ emitted = {} /\ emissions = 0
    /\ signals = [r \in SignalRows |-> NoSignal]
    /\ sweep = [t \in Triagers |-> NoSweep]
    /\ marking = [f \in Deciders |-> NoSignal]

-----------------------------------------------------------------------------
\* a row written by an open transaction is locked
HeldRows(t) == sweep[t].updated \cup sweep[t].dropped
OthersHold(t) == UNION {HeldRows(u) : u \in Triagers \ {t}} \cup {marking[f] : f \in Deciders}

\* recommendations, insights, analyses and deals come and go
SourceChanges(h) ==
    /\ emissions < MaxEmissions
    /\ emitted' = IF h \in emitted THEN emitted \ {h} ELSE emitted \cup {h}
    /\ emissions' = emissions + 1
    /\ UNCHANGED <<signals, sweep, marking>>

\* run_sweep_for_org(): collects once, also for the second attempt
BeginSweep(t) ==
    /\ sweep[t].at = "idle"
    /\ sweep' = [sweep EXCEPT ![t].at = "sync", ![t].live = emitted, ![t].todo = emitted]
    /\ UNCHANGED <<emitted, emissions, signals, marking>>

Syncing(t) == sweep[t].at = "sync" /\ sweep[t].missing = {}
NextOf(t, h) == h \in sweep[t].todo /\ \A g \in sweep[t].todo : h <= g

\* _sync_once(): the row of the hash is updated, also one that another sweep is
\* superseding: the UPDATE waits for it and then changes nothing that shows
RefreshSignal(t, h) ==
    /\ Syncing(t) /\ NextOf(t, h)
    /\ \E r \in SignalRows :
          /\ signals[r] = h
          /\ \/ /\ r \notin OthersHold(t)
                /\ sweep' = [sweep EXCEPT ![t].todo = @ \ {h}, ![t].updated = @ \cup {r}]
             \/ /\ \E u \in Triagers \ {t} : r \in sweep[u].dropped
                /\ sweep' = [sweep EXCEPT ![t].todo = @ \ {h}]
    /\ UNCHANGED <<emitted, emissions, signals, marking>>

\* or, if none is seen, one is added
MissSignal(t, h) ==
    /\ Syncing(t) /\ NextOf(t, h) /\ ~Live(h)
    /\ sweep' = [sweep EXCEPT ![t].missing = {h}]
    /\ UNCHANGED <<emitted, emissions, signals, marking>>

\* the flush: the unique index on live rows makes it wait for another open
\* insert, and fails it if there is a row now
InsertSignal(t, h) ==
    /\ h \in sweep[t].missing
    /\ \A u \in Triagers \ {t} : h \notin sweep[u].added
    /\ sweep' =
          IF ~Live(h)
          THEN [sweep EXCEPT ![t].missing = {}, ![t].todo = @ \ {h}, ![t].added = @ \cup {h}]
          ELSE IF sweep[t].retried THEN [sweep EXCEPT ![t] = NoSweep]
          ELSE [sweep EXCEPT ![t] = [NoSweep EXCEPT !.at = "sync", !.live = sweep[t].live,
                                        !.todo = sweep[t].live, !.retried = TRUE]]
    /\ UNCHANGED <<emitted, emissions, signals, marking>>

StaleRows_None(t) == {}

\* the rows supersede_stale() selects
StaleRows(t) == {r \in SignalRows : signals[r] \in Hashes \ sweep[t].live}

\* supersede_stale(), when every candidate is written
SupersedeStale(t) ==
    /\ Syncing(t) /\ sweep[t].todo = {} /\ StaleRows(t) \cap OthersHold(t) = {}
    /\ sweep' = [sweep EXCEPT ![t].at = "ready", ![t].dropped = StaleRows(t)]
    /\ UNCHANGED <<emitted, emissions, signals, marking>>

\* the caller commits: superseded rows are freed, added ones take free rows
CommitSweep(t) ==
    LET s == sweep[t]
        freed == [r \in SignalRows |-> IF r \in s.dropped THEN NoSignal ELSE signals[r]]
    IN  /\ s.at = "ready"
        /\ \E signals1 \in [SignalRows -> Hashes \cup {NoSignal}] :
              /\ \A r \in SignalRows : signals1[r] # freed[r]
                                       => freed[r] = NoSignal /\ signals1[r] \in s.added
                                          /\ r \notin OthersHold(t)
              /\ \A h \in s.added : Cardinality({r \in SignalRows : signals1[r] # freed[r]
                                                                    /\ signals1[r] = h}) = 1
              /\ signals' = signals1
        /\ sweep' = [sweep EXCEPT ![t] = NoSweep]
        /\ UNCHANGED <<emitted, emissions, marking>>

\* the rows or the hash the transaction waits for
WaitsFor(t, u) ==
    \/ \E h \in Hashes : NextOf(t, h) /\ Syncing(t) /\ \E r \in HeldRows(u) : signals[r] = h
    \/ sweep[t].missing \cap sweep[u].added # {}
    \/ sweep[t].todo = {} /\ sweep[t].at = "sync" /\ StaleRows(t) \cap HeldRows(u) # {}

\* a deadlock ends one of the sweeps, as any error does: the next tick repeats it
SweepDeadlocks(t) ==
    /\ \E u \in Triagers \ {t} : WaitsFor(t, u) /\ WaitsFor(u, t)
    /\ sweep' = [sweep EXCEPT ![t] = NoSweep]
    /\ UNCHANGED <<emitted, emissions, signals, marking>>

\* update_status(): set_status() is flushed ...
DecideSignal(f, r) ==
    /\ marking[f] = NoSignal /\ signals[r] # NoSignal
    /\ \A t \in Triagers : r \notin HeldRows(t)
    /\ \A g \in Deciders : marking[g] # r
    /\ marking' = [marking EXCEPT ![f] = r]
    /\ UNCHANGED <<emitted, emissions, signals, sweep>>

\* ... and the request ends without a commit: nothing of it is kept
MarkingEnds(f) ==
    /\ marking[f] # NoSignal
    /\ marking' = [marking EXCEPT ![f] = NoSignal]
    /\ UNCHANGED <<emitted, emissions, signals, sweep>>

TriageStep(t) ==
    \/ BeginSweep(t) \/ SupersedeStale(t) \/ CommitSweep(t) \/ SweepDeadlocks(t)
    \/ \E h \in Hashes : RefreshSignal(t, h) \/ MissSignal(t, h) \/ InsertSignal(t, h)

TriageNext ==
    \/ \E h \in Hashes : SourceChanges(h)
    \/ \E t \in Triagers : TriageStep(t)
    \/ \E f \in Deciders : MarkingEnds(f) \/ \E r \in SignalRows : DecideSignal(f, r)

TriageSpec ==
    /\ TriageInit /\ [][TriageNext]_triageVars
    /\ \A t \in Triagers : SF_triageVars(TriageStep(t))
    /\ \A f \in Deciders : WF_triageVars(MarkingEnds(f))

-----------------------------------------------------------------------------
\* "Concurrent sweeps can never duplicate or lose a signal": once the sources
\* are quiet, which change MaxEmissions times, the feed shows what they emit,
\* once each, although two sweeps may have missed the same hash, or one refreshed
\* a row another was superseding, or gave up after its retry.
FeedSettles ==
    <>[](\A h \in Hashes :
            Cardinality({r \in SignalRows : signals[r] = h}) = IF h \in emitted THEN 1 ELSE 0)
=============================================================================
