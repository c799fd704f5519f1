----------------------------- MODULE LeadImports -----------------------------
(***************************************************************************)
(* CSV imports of one organization and the leads they insert, beside leads *)
(* that are created and deleted by hand: ImportService, ImportWorker,      *)
(* LeadService and the unique indexes of the leads table.                  *)
(*                                                                         *)
(* An import is one transaction: it claims its job under a row lock, and   *)
(* the status PROCESSING is never seen by anybody else.                    *)
(***************************************************************************)
EXTENDS Naturals, Sequences, FiniteSets

CONSTANTS
    Jobs,           \* import_jobs
    Contacts,       \* normalized e-mails, phones and domains: the unique keys
    Typed,          \* those of leads that are also typed in by hand
    NoContact,      \* a row without any of them, or with a malformed e-mail
    NoJob,
    Runners,        \* background tasks
    MaxRows         \* bound of the model: rows of every file

ASSUME ImportAssumption ==
    /\ Typed \subseteq Contacts
    /\ NoContact \notin Contacts /\ NoJob \notin Jobs /\ MaxRows \in Nat

VARIABLES
    job,            \* job[j]: the committed row
    file,           \* file[j]: the rows of its upload
    lead,           \* lead[k]: the committed lead with the key k
    runner,         \* runner[r]: the import r is running
    stopping,     \* jobs cancel() has found pending
    uploading,      \* jobs create() has found no active import for
    typing          \* key of a lead create() has flushed and not committed

importVars == <<job, file, lead, runner, stopping, uploading, typing>>

Files == [1..MaxRows -> Contacts \cup {NoContact}]

JobRow == [status : {"none", "pending", "completed", "failed", "cancelled"},
           processed : 0..MaxRows, failed : 0..MaxRows]

\* by: the import that inserted it; a soft-deleted lead keeps its keys
LeadRow == [status : {"absent", "live", "deleted"}, by : Jobs \cup {NoJob}]

\* row: how many rows are done; fresh: the leads inserted and not committed
Runner == [job : Jobs \cup {NoJob}, at : {"idle", "row", "insert", "broken"},
           row : 0..MaxRows, failed : 0..MaxRows, fresh : SUBSET Contacts]

ImportTypeOK ==
    /\ job \in [Jobs -> JobRow] /\ file \in [Jobs -> Files \cup {<<>>}]
    /\ lead \in [Contacts -> LeadRow]
    /\ runner \in [Runners -> Runner]
    /\ stopping \subseteq Jobs /\ uploading \subseteq Jobs /\ typing \subseteq Contacts
    /\ \A r \in Runners : runner[r].at \in {"row", "insert"}
           => Cardinality(runner[r].fresh) + runner[r].failed = runner[r].row

NoRun == [job |-> NoJob, at |-> "idle", row |-> 0, failed |-> 0, fresh |-> {}]

ImportInit ==
    /\ job = [j \in Jobs |-> [status |-> "none", processed |-> 0, failed |-> 0]]
    /\ file = [j \in Jobs |-> <<>>]
    /\ lead = [k \in Contacts |-> [status |-> "absent", by |-> NoJob]]
    /\ runner = [r \in Runners |-> NoRun]
    /\ stopping = {} /\ uploading = {} /\ typing = {}

ActiveImports == {j \in Jobs : job[j].status = "pending"}
JobLocked(j) == \E r \in Runners : runner[r].job = j /\ runner[r].at \in {"row", "insert"}

Run(r, S) == runner' = [runner EXCEPT ![r] = S]

-----------------------------------------------------------------------------
(* Requests.                                                               *)

\* create() counts the active imports, then commits the job; persist_upload()
CheckUpload(j) ==
    /\ job[j].status = "none" /\ j \notin uploading /\ ActiveImports = {}
    /\ uploading' = uploading \cup {j}
    /\ UNCHANGED <<job, file, lead, runner, stopping, typing>>

CreateImport(j, f) ==
    /\ j \in uploading
    /\ uploading' = uploading \ {j}
    /\ job' = [job EXCEPT ![j].status = "pending"]
    /\ file' = [file EXCEPT ![j] = f]
    /\ UNCHANGED <<lead, runner, stopping, typing>>

\* cancel() reads a pending job, and its UPDATE by primary key waits for the
\* lock of the run
CancelReadsJob(j) ==
    /\ job[j].status = "pending" /\ j \notin stopping
    /\ stopping' = stopping \cup {j}
    /\ UNCHANGED <<job, file, lead, runner, uploading, typing>>

CancelWritesJob(j) ==
    /\ j \in stopping /\ ~JobLocked(j)
    /\ job' = [job EXCEPT ![j].status = "cancelled"]
    /\ stopping' = stopping \ {j}
    /\ UNCHANGED <<file, lead, runner, uploading, typing>>

\* LeadService.create(): the flush takes the key, or is refused with a 409
TypeLead(k) ==
    /\ lead[k].status = "absent" /\ typing = {}
    /\ \A r \in Runners : k \notin runner[r].fresh
    /\ typing' = typing \cup {k}
    /\ UNCHANGED <<job, file, lead, runner, stopping, uploading>>

SaveLead(k) ==
    /\ k \in typing
    /\ typing' = typing \ {k}
    /\ lead' = [lead EXCEPT ![k].status = "live"]
    /\ UNCHANGED <<job, file, runner, stopping, uploading>>

DropLead(k) ==
    /\ k \in typing
    /\ typing' = typing \ {k}
    /\ UNCHANGED <<job, file, lead, runner, stopping, uploading>>

SoftDelete(k) ==
    /\ lead[k].status = "live"
    /\ lead' = [lead EXCEPT ![k].status = "deleted"]
    /\ UNCHANGED <<job, file, runner, stopping, uploading, typing>>

-----------------------------------------------------------------------------
(* ImportWorker.process_job().                                             *)

\* claim(): SELECT ... FOR UPDATE of a job that is still pending
ClaimJob(r, j) ==
    /\ runner[r].at = "idle" /\ job[j].status = "pending" /\ ~JobLocked(j)
    /\ Run(r, [NoRun EXCEPT !.job = j, !.at = "row"])
    /\ UNCHANGED <<job, file, lead, stopping, uploading, typing>>

NextRow(r) == file[runner[r].job][runner[r].row + 1]
RowsLeft_OneShort(r) == runner[r].row + 1 < Len(file[runner[r].job])
RowsLeft(r) == runner[r].row < Len(file[runner[r].job])

\* _parse_row() and find_duplicates(): what is committed or its own, and not
\* deleted
Rejected(r) ==
    NextRow(r) = NoContact \/ lead[NextRow(r)].status = "live"
                           \/ NextRow(r) \in runner[r].fresh

RejectedRow(r) == [runner[r] EXCEPT !.row = @ + 1, !.failed = @ + 1]

LookAtRow(r) ==
    /\ runner[r].at = "row" /\ RowsLeft(r)
    /\ Run(r, IF Rejected(r) THEN RejectedRow(r) ELSE [runner[r] EXCEPT !.at = "insert"])
    /\ UNCHANGED <<job, file, lead, stopping, uploading, typing>>

\* _insert_with_savepoint(): waits for whoever has flushed the key.  The lead
\* was added before begin_nested(), which flushes before the savepoint is set:
\* a key that is taken ends the whole transaction.
InsertLead(r) ==
    /\ runner[r].at = "insert"
    /\ NextRow(r) \notin typing
    /\ \A s \in Runners \ {r} : NextRow(r) \notin runner[s].fresh
    /\ Run(r, IF lead[NextRow(r)].status = "absent"
              THEN [runner[r] EXCEPT !.at = "row", !.row = @ + 1,
                                     !.fresh = @ \cup {NextRow(r)}]
              ELSE [NoRun EXCEPT !.job = runner[r].job, !.at = "broken"])
    /\ UNCHANGED <<job, file, lead, stopping, uploading, typing>>

CompleteImport(r) ==
    /\ runner[r].at = "row" /\ ~RowsLeft(r)
    /\ job' = [job EXCEPT ![runner[r].job] =
                  [status |-> "completed", processed |-> Cardinality(runner[r].fresh),
                   failed |-> runner[r].failed]]
    /\ lead' = [k \in Contacts |-> IF k \in runner[r].fresh
                   THEN [status |-> "live", by |-> runner[r].job] ELSE lead[k]]
    /\ Run(r, NoRun)
    /\ UNCHANGED <<file, stopping, uploading, typing>>

\* any error of the run, also of the database, and the process that dies with
\* nothing committed
RunBreaks(r) ==
    /\ runner[r].at \in {"row", "insert"}
    /\ Run(r, [NoRun EXCEPT !.job = runner[r].job, !.at = "broken"])
    /\ UNCHANGED <<job, file, lead, stopping, uploading, typing>>

RunnerDies(r) ==
    /\ runner[r].at # "idle"
    /\ Run(r, NoRun)
    /\ UNCHANGED <<job, file, lead, stopping, uploading, typing>>

\* _mark_failed(): a session of its own, whatever the job has become
MarkImportFailed(r) ==
    /\ runner[r].at = "broken" /\ ~JobLocked(runner[r].job)
    /\ job' = [job EXCEPT ![runner[r].job].status = "failed"]
    /\ Run(r, NoRun)
    /\ UNCHANGED <<file, lead, stopping, uploading, typing>>

ImportNext ==
    \/ \E j \in Jobs :
          \/ CheckUpload(j) \/ CancelReadsJob(j) \/ CancelWritesJob(j)
          \/ \E f \in Files : CreateImport(j, f)
    \/ \E k \in Typed : TypeLead(k) \/ SaveLead(k) \/ DropLead(k) \/ SoftDelete(k)
    \/ \E r \in Runners :
          \/ \E j \in Jobs : ClaimJob(r, j)
          \/ LookAtRow(r) \/ InsertLead(r) \/ CompleteImport(r)
          \/ RunBreaks(r) \/ RunnerDies(r) \/ MarkImportFailed(r)

ImportSpec == ImportInit /\ [][ImportNext]_importVars

-----------------------------------------------------------------------------
\* claim(): "prevents two runners from importing the same job"; an import is
\* one transaction.  The counters of a job say how many leads came of it, and a
\* completed one has said of every row what became of it, wherever runs stop,
\* and whoever cancels or repeats them.
ImportsAccounted ==
    \A j \in Jobs :
        /\ Cardinality({k \in Contacts : lead[k].by = j}) = job[j].processed
        /\ job[j].status = "completed" => job[j].processed + job[j].failed = Len(file[j])
=============================================================================
