--------------------------- MODULE ServicesProofs ---------------------------
(***************************************************************************)
(* Proofs about the sales components and the components that accounts and  *)
(* workflows are built from, each for any instance of its own              *)
(* specification, and about their composition in ServicesMC.               *)
(***************************************************************************)
EXTENDS ServicesMC, AccountProofs, ApiRequestsProofs, DeliveryOutboxProofs, WellFoundedInduction

-----------------------------------------------------------------------------
(* Lead imports.                                                           *)

Importing(r) == runner[r].at \in {"row", "insert"}

\* A run that imports holds its pending job.  What it has inserted is nobody
\* else's: no committed lead, no lead typed by hand; and a row it is about to
\* insert has a key that it has not inserted.
RunnerSound(r) ==
    /\ Importing(r) =>
          /\ runner[r].job \in Jobs /\ job[runner[r].job].status = "pending"
          /\ IsFiniteSet(runner[r].fresh)
          /\ \A k \in runner[r].fresh : /\ lead[k] = [status |-> "absent", by |-> NoJob]
                                        /\ k \notin typing
    /\ ~Importing(r) => runner[r].fresh = {}
    /\ runner[r].at = "insert" =>
          RowsLeft(r) /\ NextRow(r) \in Contacts \ runner[r].fresh
    /\ runner[r].at = "broken" => runner[r].job \in Jobs /\ job[runner[r].job].status # "none"

\* Two runs have inserted different leads, and never import the same job.
RunnersApart ==
    \A r \in Runners : \A s \in Runners \ {r} :
        /\ runner[r].fresh \cap runner[s].fresh = {}
        /\ Importing(r) /\ Importing(s) => runner[r].job # runner[s].job

\* A job has its file once it is committed, and leads only when it has ended.
JobSound(j) ==
    /\ (job[j].status # "none") => file[j] \in Files
    /\ job[j].status \in {"none", "pending"} =>
          job[j].processed = 0 /\ \A k \in Contacts : lead[k].by # j
    /\ j \in uploading => job[j].status = "none"
    /\ j \in stopping => job[j].status # "none"

LeadsSound == \A k \in Contacts : lead[k].status = "absent" => lead[k].by = NoJob

ImportInv ==
    /\ ImportTypeOK /\ LeadsSound /\ RunnersApart
    /\ \A r \in Runners : RunnerSound(r)
    /\ \A j \in Jobs : JobSound(j)
    /\ ImportsAccounted

LEMMA FileLength ==
    ASSUME NEW f \in Files
    PROVE  Len(f) = MaxRows
BY ImportAssumption DEF Files

\* Nothing of what is committed is touched: one run moves on.
LEMMA RunnerMoves ==
    ASSUME ImportInv, NEW r \in Runners, NEW S \in Runner, Run(r, S),
           UNCHANGED <<job, file, lead, stopping, uploading, typing>>,
           S.at \in {"row", "insert"} => Cardinality(S.fresh) + S.failed = S.row,
           RunnerSound(r)',
           \A s \in Runners \ {r} : S.fresh \cap runner[s].fresh = {},
           S.at \in {"row", "insert"} =>
               \A s \in Runners \ {r} : Importing(s) => S.job # runner[s].job
    PROVE  ImportInv'
<1>1. runner'[r] = S /\ \A s \in Runners \ {r} : runner'[s] = runner[s]
  BY DEF Run, ImportInv, ImportTypeOK
<1>2. runner' \in [Runners -> Runner]
  BY DEF Run, ImportInv, ImportTypeOK
<1>3. ImportTypeOK'
  BY <1>1, <1>2 DEF ImportInv, ImportTypeOK
<1>4. LeadsSound' /\ ImportsAccounted' /\ \A j \in Jobs : JobSound(j)'
  BY DEF ImportInv, LeadsSound, ImportsAccounted, JobSound
<1>5. RunnersApart'
  <2>1. ASSUME NEW a \in Runners, NEW b \in Runners \ {a}
        PROVE  /\ runner'[a].fresh \cap runner'[b].fresh = {}
               /\ Importing(a)' /\ Importing(b)' => runner'[a].job # runner'[b].job
    <3>1. CASE a # r /\ b # r
      BY <1>1, <3>1 DEF ImportInv, RunnersApart, Importing
    <3>2. CASE a = r
      BY <1>1, <3>2 DEF Importing
    <3>3. CASE b = r
      BY <1>1, <3>3 DEF Importing
    <3>4. QED
      BY <3>1, <3>2, <3>3
  <2>2. QED
    BY <2>1 DEF RunnersApart
<1>6. ASSUME NEW s \in Runners PROVE RunnerSound(s)'
  <2>1. CASE s = r
    BY <2>1
  <2>2. CASE s # r
    BY <1>1, <2>2 DEF ImportInv, RunnerSound, Importing, RowsLeft, NextRow
  <2>3. QED
    BY <2>1, <2>2
<1>7. QED
  BY <1>3, <1>4, <1>5, <1>6 DEF ImportInv

\* The rows of jobs and leads change under runs that stay where they are.
LEMMA RowsChange ==
    ASSUME ImportInv, UNCHANGED runner,
           job' \in [Jobs -> JobRow], file' \in [Jobs -> Files \cup {<<>>}],
           lead' \in [Contacts -> LeadRow],
           stopping' \subseteq Jobs, uploading' \subseteq Jobs, typing' \subseteq Contacts,
           LeadsSound', ImportsAccounted', \A j \in Jobs : JobSound(j)',
           \A r \in Runners : Importing(r) =>
              /\ job'[runner[r].job].status = "pending"
              /\ file'[runner[r].job] = file[runner[r].job]
              /\ \A k \in runner[r].fresh : lead'[k] = lead[k] /\ k \notin typing',
           \A j \in Jobs : job[j].status # "none" => job'[j].status # "none"
    PROVE  ImportInv'
<1>1. ImportTypeOK'
  BY DEF ImportInv, ImportTypeOK
<1>2. RunnersApart'
  BY DEF ImportInv, RunnersApart, Importing
<1>3. ASSUME NEW r \in Runners PROVE RunnerSound(r)'
  BY DEF ImportInv, RunnerSound, Importing, RowsLeft, NextRow
<1>4. QED
  BY <1>1, <1>2, <1>3 DEF ImportInv

LEMMA RequestStep ==
    ASSUME ImportInv, NEW j \in Jobs,
           \/ CheckUpload(j) \/ CancelReadsJob(j) \/ CancelWritesJob(j)
           \/ \E f \in Files : CreateImport(j, f)
    PROVE  ImportInv'
<1> DEFINE row(s) == [job[j] EXCEPT !.status = s]
<1>1. /\ job \in [Jobs -> JobRow] /\ job[j] \in JobRow /\ file \in [Jobs -> Files \cup {<<>>}]
      /\ lead \in [Contacts -> LeadRow]
      /\ stopping \subseteq Jobs /\ uploading \subseteq Jobs /\ typing \subseteq Contacts
  BY DEF ImportInv, ImportTypeOK
<1>2. \A s \in {"none", "pending", "completed", "failed", "cancelled"} :
         /\ row(s) \in JobRow /\ row(s).status = s
         /\ row(s).processed = job[j].processed /\ row(s).failed = job[j].failed
  BY <1>1 DEF JobRow
<1> HIDE DEF row
<1>3. LeadsSound /\ ImportsAccounted /\ \A i \in Jobs : JobSound(i)
  BY DEF ImportInv
<1>4. \A r \in Runners : Importing(r) =>
         /\ runner[r].job \in Jobs /\ job[runner[r].job].status = "pending"
         /\ \A k \in runner[r].fresh : k \notin typing
  BY DEF ImportInv, RunnerSound
<1>5. CASE CheckUpload(j)
  <2>1. /\ job[j].status = "none" /\ uploading' = uploading \cup {j}
        /\ UNCHANGED <<job, file, lead, runner, stopping, typing>>
    BY <1>5 DEF CheckUpload
  <2>2. LeadsSound' /\ ImportsAccounted' /\ \A i \in Jobs : JobSound(i)'
    BY <1>3, <2>1 DEF LeadsSound, ImportsAccounted, JobSound
  <2>3. QED
    BY <1>1, <1>4, <2>1, <2>2, RowsChange
<1>6. CASE CancelReadsJob(j)
  <2>1. /\ job[j].status = "pending" /\ stopping' = stopping \cup {j}
        /\ UNCHANGED <<job, file, lead, runner, uploading, typing>>
    BY <1>6 DEF CancelReadsJob
  <2>2. LeadsSound' /\ ImportsAccounted' /\ \A i \in Jobs : JobSound(i)'
    BY <1>3, <2>1 DEF LeadsSound, ImportsAccounted, JobSound
  <2>3. QED
    BY <1>1, <1>4, <2>1, <2>2, RowsChange
<1>7. CASE CancelWritesJob(j)
  <2>1. /\ j \in stopping /\ ~JobLocked(j) /\ stopping' = stopping \ {j}
        /\ UNCHANGED <<file, lead, runner, uploading, typing>>
        /\ job' = [job EXCEPT ![j] = row("cancelled")]
    BY <1>7 DEF CancelWritesJob, row
  <2>2. job[j].status # "none"
    BY <1>3, <2>1 DEF JobSound
  <2>3. /\ job' \in [Jobs -> JobRow] /\ job'[j] = row("cancelled")
        /\ \A i \in Jobs \ {j} : job'[i] = job[i]
    BY <1>1, <1>2, <2>1
  <2>4. \A r \in Runners : Importing(r) => runner[r].job # j
    BY <2>1 DEF JobLocked, Importing
  <2>5. LeadsSound' /\ ImportsAccounted' /\ \A i \in Jobs : JobSound(i)'
    <3>1. /\ \A i \in Jobs : /\ job'[i].processed = job[i].processed
                             /\ job'[i].failed = job[i].failed
          /\ \A i \in Jobs : job'[i].status = "completed" =>
                job[i].status = "completed" /\ file'[i] = file[i]
      BY <1>2, <2>1, <2>3
    <3>2. LeadsSound' /\ ImportsAccounted'
      BY <1>3, <2>1, <3>1 DEF LeadsSound, ImportsAccounted
    <3>3. ASSUME NEW i \in Jobs PROVE JobSound(i)'
      <4>1. CASE i = j
        BY <1>1, <1>2, <1>3, <2>1, <2>2, <2>3, <4>1 DEF JobSound
      <4>2. CASE i # j
        BY <1>1, <1>3, <2>1, <2>3, <4>2 DEF JobSound
      <4>3. QED
        BY <4>1, <4>2
    <3>4. QED
      BY <3>2, <3>3
  <2>6. QED
    BY <1>1, <1>2, <1>4, <2>1, <2>3, <2>4, <2>5, RowsChange
<1>8. ASSUME NEW f \in Files, CreateImport(j, f)
      PROVE  ImportInv'
  <2>1. /\ j \in uploading /\ uploading' = uploading \ {j}
        /\ UNCHANGED <<lead, runner, stopping, typing>>
        /\ job' = [job EXCEPT ![j] = row("pending")] /\ file' = [file EXCEPT ![j] = f]
    BY <1>8 DEF CreateImport, row
  <2>2. job[j].status = "none" /\ j \notin stopping
    BY <1>3, <2>1 DEF JobSound
  <2>3. /\ job' \in [Jobs -> JobRow] /\ job'[j] = row("pending")
        /\ \A i \in Jobs \ {j} : job'[i] = job[i]
        /\ file' \in [Jobs -> Files \cup {<<>>}] /\ file'[j] = f
        /\ \A i \in Jobs \ {j} : file'[i] = file[i]
    BY <1>1, <1>2, <2>1
  <2>4. \A r \in Runners : Importing(r) => runner[r].job \in Jobs \ {j}
    BY <1>4, <2>2
  <2>5. LeadsSound' /\ ImportsAccounted' /\ \A i \in Jobs : JobSound(i)'
    <3>1. /\ \A i \in Jobs : /\ job'[i].processed = job[i].processed
                             /\ job'[i].failed = job[i].failed
          /\ \A i \in Jobs : job'[i].status = "completed" =>
                job[i].status = "completed" /\ file'[i] = file[i]
      BY <1>2, <2>1, <2>3
    <3>2. LeadsSound' /\ ImportsAccounted'
      BY <1>3, <2>1, <3>1 DEF LeadsSound, ImportsAccounted
    <3>3. ASSUME NEW i \in Jobs PROVE JobSound(i)'
      <4>1. CASE i = j
        BY <1>1, <1>2, <1>3, <2>1, <2>2, <2>3, <4>1 DEF JobSound
      <4>2. CASE i # j
        BY <1>1, <1>3, <2>1, <2>3, <4>2 DEF JobSound
      <4>3. QED
        BY <4>1, <4>2
    <3>4. QED
      BY <3>2, <3>3
  <2>6. QED
    BY <1>1, <1>2, <1>4, <2>1, <2>3, <2>4, <2>5, RowsChange
<1>9. QED
  BY <1>5, <1>6, <1>7, <1>8

LEMMA TypedStep ==
    ASSUME ImportInv, NEW k \in Typed,
           TypeLead(k) \/ SaveLead(k) \/ DropLead(k) \/ SoftDelete(k)
    PROVE  ImportInv'
<1>1. /\ job \in [Jobs -> JobRow] /\ file \in [Jobs -> Files \cup {<<>>}]
      /\ lead \in [Contacts -> LeadRow] /\ k \in Contacts
      /\ stopping \subseteq Jobs /\ uploading \subseteq Jobs /\ typing \subseteq Contacts
  BY ImportAssumption DEF ImportInv, ImportTypeOK
<1>2. LeadsSound /\ ImportsAccounted /\ \A i \in Jobs : JobSound(i)
  BY DEF ImportInv
<1>3. \A r \in Runners : Importing(r) =>
         /\ job[runner[r].job].status = "pending"
         /\ \A c \in runner[r].fresh : /\ c \notin typing /\ lead[c].status = "absent"
  BY DEF ImportInv, RunnerSound
<1>4. CASE TypeLead(k) \/ DropLead(k)
  <2>1. /\ UNCHANGED <<job, file, lead, runner, stopping, uploading>>
        /\ typing' \subseteq typing \cup {k}
        /\ \A r \in Runners : \A c \in runner[r].fresh : c \in typing' => c \in typing
    BY <1>4 DEF TypeLead, DropLead
  <2>2. LeadsSound' /\ ImportsAccounted' /\ \A i \in Jobs : JobSound(i)'
    BY <1>2, <2>1 DEF LeadsSound, ImportsAccounted, JobSound
  <2>3. QED
    BY <1>1, <1>3, <2>1, <2>2, RowsChange
<1>5. ASSUME NEW s \in {"live", "deleted"}, lead' = [lead EXCEPT ![k].status = s],
             typing' \subseteq typing, k \in typing \/ lead[k].status = "live",
             UNCHANGED <<job, file, runner, stopping, uploading>>
      PROVE  ImportInv'
  <2>1. /\ lead' \in [Contacts -> LeadRow] /\ lead'[k].status = s /\ lead'[k].by = lead[k].by
        /\ \A c \in Contacts \ {k} : lead'[c] = lead[c]
    <3>1. lead[k] \in LeadRow
      BY <1>1
    <3>2. /\ [lead[k] EXCEPT !.status = s] \in LeadRow
          /\ [lead[k] EXCEPT !.status = s].status = s
          /\ [lead[k] EXCEPT !.status = s].by = lead[k].by
      BY <3>1 DEF LeadRow
    <3>3. QED
      BY <1>1, <1>5, <3>2
  <2>2. \A c \in Contacts : lead'[c].by = lead[c].by
    BY <2>1
  <2>3. \A i \in Jobs : {c \in Contacts : lead'[c].by = i} = {c \in Contacts : lead[c].by = i}
    BY <2>2
  <2>4. LeadsSound'
    BY <1>2, <2>1 DEF LeadsSound
  <2>5. ImportsAccounted'
    BY <1>2, <1>5, <2>3 DEF ImportsAccounted
  <2>6. \A i \in Jobs : JobSound(i)'
    BY <1>2, <1>5, <2>2 DEF JobSound
  <2>7. \A r \in Runners : runner[r].fresh \subseteq Contacts /\ (~Importing(r) => runner[r].fresh = {})
    BY DEF ImportInv, ImportTypeOK, Runner, RunnerSound
  <2>8. \A r \in Runners : Importing(r) => \A c \in runner[r].fresh : c \in Contacts \ {k}
    BY <1>3, <1>5, <2>7
  <2>9. QED
    BY <1>1, <1>3, <1>5, <2>1, <2>4, <2>5, <2>6, <2>8, RowsChange
<1>6. QED
  BY <1>4, <1>5 DEF TypeLead, SaveLead, DropLead, SoftDelete

\* A run that ends without its commit leaves nothing behind.
LEMMA RunStops ==
    ASSUME ImportInv, NEW r \in Runners, NEW S,
           \/ S = NoRun
           \/ Importing(r) /\ S = [NoRun EXCEPT !.job = runner[r].job, !.at = "broken"],
           Run(r, S), UNCHANGED <<job, file, lead, stopping, uploading, typing>>
    PROVE  ImportInv'
<1>1. runner[r].job \in Jobs \cup {NoJob} /\ MaxRows \in Nat
  BY ImportAssumption DEF ImportInv, ImportTypeOK, Runner
<1>2. S \in Runner /\ S.at \in {"idle", "broken"} /\ S.fresh = {}
      /\ (S.at = "broken" => Importing(r) /\ S.job = runner[r].job)
  <2>1. CASE S = NoRun
    BY <1>1, <2>1 DEF NoRun, Runner
  <2>2. CASE Importing(r) /\ S = [NoRun EXCEPT !.job = runner[r].job, !.at = "broken"]
    <3>1. NoRun \in Runner /\ NoRun.fresh = {}
      BY <1>1 DEF NoRun, Runner
    <3>2. QED
      BY <1>1, <2>2, <3>1 DEF Runner
  <2>3. QED
    BY <2>1, <2>2
<1>3. runner'[r] = S
  BY DEF Run, ImportInv, ImportTypeOK
<1>4. RunnerSound(r)'
  BY <1>2, <1>3 DEF RunnerSound, Importing, ImportInv
<1>5. QED
  BY <1>2, <1>4, RunnerMoves

\* The last step of a run, with what it commits of its job and its leads.
LEMMA RunEnds ==
    ASSUME ImportInv, NEW r \in Runners, Run(r, NoRun),
           job' \in [Jobs -> JobRow], lead' \in [Contacts -> LeadRow],
           UNCHANGED <<file, stopping, uploading, typing>>,
           LeadsSound', ImportsAccounted', \A j \in Jobs : JobSound(j)',
           \A s \in Runners \ {r} : Importing(s) =>
              /\ job'[runner[s].job].status = "pending"
              /\ \A k \in runner[s].fresh : lead'[k] = lead[k],
           \A j \in Jobs : job[j].status # "none" => job'[j].status # "none"
    PROVE  ImportInv'
<1>1. runner'[r] = NoRun /\ \A s \in Runners \ {r} : runner'[s] = runner[s]
  BY DEF Run, ImportInv, ImportTypeOK
<1>2. NoRun \in Runner /\ NoRun.at = "idle" /\ NoRun.fresh = {}
  BY ImportAssumption DEF NoRun, Runner
<1>3. runner' \in [Runners -> Runner]
  BY <1>2 DEF Run, ImportInv, ImportTypeOK
<1>4. ImportTypeOK'
  BY <1>1, <1>2, <1>3 DEF ImportInv, ImportTypeOK
<1>5. RunnersApart'
  BY <1>1, <1>2 DEF ImportInv, RunnersApart, Importing
<1>6. ASSUME NEW s \in Runners PROVE RunnerSound(s)'
  <2>1. CASE s = r
    BY <1>1, <1>2, <2>1 DEF RunnerSound, Importing
  <2>2. CASE s # r
    BY <1>1, <2>2 DEF ImportInv, RunnerSound, Importing, RowsLeft, NextRow
  <2>3. QED
    BY <2>1, <2>2
<1>7. QED
  BY <1>4, <1>5, <1>6 DEF ImportInv

\* The row a run looks at, and how far it has come.
LEMMA RowInHand ==
    ASSUME ImportInv, NEW r \in Runners, Importing(r)
    PROVE  /\ runner[r] \in Runner /\ runner[r].job \in Jobs
           /\ Len(file[runner[r].job]) = MaxRows /\ MaxRows \in Nat
           /\ IsFiniteSet(runner[r].fresh) /\ Cardinality(runner[r].fresh) \in Nat
           /\ Cardinality(runner[r].fresh) + runner[r].failed = runner[r].row
           /\ RowsLeft(r) => /\ runner[r].row + 1 \in 0..MaxRows
                             /\ runner[r].failed + 1 \in 0..MaxRows
                             /\ NextRow(r) \in Contacts \cup {NoContact}
<1>1. /\ runner[r] \in Runner /\ runner[r].job \in Jobs
      /\ IsFiniteSet(runner[r].fresh)
      /\ Cardinality(runner[r].fresh) + runner[r].failed = runner[r].row
  BY DEF ImportInv, ImportTypeOK, RunnerSound, Importing
<1>2. file[runner[r].job] \in Files
  BY <1>1 DEF ImportInv, RunnerSound, JobSound
<1>3. Len(file[runner[r].job]) = MaxRows /\ MaxRows \in Nat
  BY <1>2, FileLength, ImportAssumption
<1>4. Cardinality(runner[r].fresh) \in Nat
  BY <1>1, FS_CardinalityType
<1>5. runner[r].row \in 0..MaxRows /\ runner[r].failed \in 0..MaxRows
  BY <1>1 DEF Runner
<1>6. ASSUME RowsLeft(r)
      PROVE  /\ runner[r].row + 1 \in 0..MaxRows /\ runner[r].failed + 1 \in 0..MaxRows
             /\ NextRow(r) \in Contacts \cup {NoContact}
  <2>1. runner[r].row < MaxRows
    BY <1>3, <1>6 DEF RowsLeft
  <2>2. runner[r].row + 1 \in 1..MaxRows /\ runner[r].failed + 1 \in 0..MaxRows
    BY <1>1, <1>3, <1>4, <1>5, <2>1
  <2>3. QED
    <3>1. file[runner[r].job][runner[r].row + 1] \in Contacts \cup {NoContact}
      BY <1>2, <2>2, Zenon DEF Files
    <3>2. QED
      BY <1>3, <2>2, <3>1 DEF NextRow
<1>7. QED
  BY <1>1, <1>3, <1>4, <1>6

LEMMA RunStep ==
    ASSUME ImportInv, NEW r \in Runners,
           \/ \E j \in Jobs : ClaimJob(r, j)
           \/ LookAtRow(r) \/ InsertLead(r)
    PROVE  ImportInv'
<1> DEFINE d == runner[r]
<1>1. ASSUME NEW S PROVE Run(r, S) => runner'[r] = S
  BY DEF Run, ImportInv, ImportTypeOK
<1>2. d \in Runner
  BY DEF ImportInv, ImportTypeOK
<1>3. \A s \in Runners \ {r} :
         /\ d.fresh \cap runner[s].fresh = {}
         /\ Importing(r) /\ Importing(s) => d.job # runner[s].job
  BY DEF ImportInv, RunnersApart
<1>4. ASSUME NEW j \in Jobs, ClaimJob(r, j)
      PROVE  ImportInv'
  <2> DEFINE S == [NoRun EXCEPT !.job = j, !.at = "row"]
  <2>1. /\ job[j].status = "pending" /\ ~JobLocked(j) /\ Run(r, S)
        /\ UNCHANGED <<job, file, lead, stopping, uploading, typing>>
    BY <1>4 DEF ClaimJob
  <2>2. NoRun \in Runner /\ NoRun.fresh = {} /\ NoRun.failed = 0 /\ NoRun.row = 0
    BY ImportAssumption DEF NoRun, Runner
  <2>3. /\ S \in Runner /\ S.at = "row" /\ S.job = j /\ S.fresh = {}
        /\ S.failed = 0 /\ S.row = 0
    BY <2>2 DEF Runner
  <2> HIDE DEF S
  <2>4. Cardinality({}) = 0 /\ IsFiniteSet({})
    BY FS_EmptySet
  <2>5. runner'[r] = S
    BY <1>1, <2>1
  <2>6. RunnerSound(r)'
    BY <2>1, <2>3, <2>4, <2>5 DEF RunnerSound, Importing
  <2>7. \A s \in Runners \ {r} : Importing(s) => S.job # runner[s].job
    BY <2>1, <2>3 DEF JobLocked, Importing
  <2>8. Cardinality(S.fresh) + S.failed = S.row
    BY <2>3, <2>4
  <2>9. \A s \in Runners \ {r} : S.fresh \cap runner[s].fresh = {}
    BY <2>3
  <2>10. QED
    BY <2>1, <2>3, <2>6, <2>7, <2>8, <2>9, RunnerMoves
<1>5. ASSUME LookAtRow(r), Rejected(r)
      PROVE  ImportInv'
  <2> DEFINE S == RejectedRow(r)
  <2>1. /\ Importing(r) /\ d.at = "row" /\ RowsLeft(r) /\ Run(r, S)
        /\ UNCHANGED <<job, file, lead, stopping, uploading, typing>>
    BY <1>5 DEF LookAtRow, Importing
  <2>2. /\ S \in Runner /\ S.at = "row" /\ S.job = d.job /\ S.fresh = d.fresh
        /\ S.failed = d.failed + 1 /\ S.row = d.row + 1
    BY <1>2, <2>1, RowInHand DEF RejectedRow, Runner
  <2> HIDE DEF S
  <2>3. Cardinality(S.fresh) + S.failed = S.row
    <3>1. /\ Cardinality(d.fresh) + d.failed = d.row /\ Cardinality(d.fresh) \in Nat
          /\ d.failed \in Nat /\ d.row \in Nat
      BY <2>1, RowInHand DEF Runner
    <3>2. QED
      BY <2>2, <3>1
  <2>4. runner'[r] = S
    BY <1>1, <2>1
  <2>5. RunnerSound(r)'
    BY <2>1, <2>2, <2>4 DEF ImportInv, RunnerSound, Importing
  <2>6. QED
    BY <1>3, <2>1, <2>2, <2>3, <2>5, RunnerMoves
<1>6. ASSUME LookAtRow(r), ~Rejected(r)
      PROVE  ImportInv'
  <2> DEFINE S == [d EXCEPT !.at = "insert"]
  <2>1. /\ Importing(r) /\ d.at = "row" /\ RowsLeft(r) /\ Run(r, S)
        /\ UNCHANGED <<job, file, lead, stopping, uploading, typing>>
    BY <1>6 DEF LookAtRow, Importing
  <2>2. /\ S \in Runner /\ S.at = "insert" /\ S.job = d.job /\ S.fresh = d.fresh
        /\ S.failed = d.failed /\ S.row = d.row
    BY <1>2 DEF Runner
  <2> HIDE DEF S
  <2>3. Cardinality(S.fresh) + S.failed = S.row
    BY <2>1, <2>2, RowInHand
  <2>4. runner'[r] = S
    BY <1>1, <2>1
  <2>5. NextRow(r) \in Contacts \ d.fresh
    BY <1>6, <2>1, RowInHand DEF Rejected
  <2>6. NextRow(r)' = NextRow(r) /\ (RowsLeft(r)' <=> RowsLeft(r))
    BY <2>1, <2>2, <2>4 DEF NextRow, RowsLeft
  <2>7. RunnerSound(r)'
    BY <2>1, <2>2, <2>4, <2>5, <2>6 DEF ImportInv, RunnerSound, Importing
  <2>8. QED
    BY <1>3, <2>1, <2>2, <2>3, <2>7, RunnerMoves
<1>7. CASE InsertLead(r)
  <2> DEFINE k == NextRow(r)
             S == [d EXCEPT !.at = "row", !.row = @ + 1, !.fresh = @ \cup {k}]
             B == [NoRun EXCEPT !.job = d.job, !.at = "broken"]
  <2>1. /\ Importing(r) /\ d.at = "insert" /\ k \notin typing
        /\ \A s \in Runners \ {r} : k \notin runner[s].fresh
        /\ UNCHANGED <<job, file, lead, stopping, uploading, typing>>
    BY <1>7 DEF InsertLead, Importing
  <2>2. RowsLeft(r) /\ k \in Contacts \ d.fresh
    BY <2>1 DEF ImportInv, RunnerSound
  <2>3. CASE lead[k].status = "absent"
    <3>1. Run(r, S)
      BY <1>7, <2>3 DEF InsertLead
    <3>2. /\ S \in Runner /\ S.at = "row" /\ S.job = d.job /\ S.fresh = d.fresh \cup {k}
          /\ S.failed = d.failed /\ S.row = d.row + 1
      BY <1>2, <2>1, <2>2, RowInHand DEF Runner
    <3> HIDE DEF S
    <3>3. lead[k] = [status |-> "absent", by |-> NoJob]
      <4>1. lead[k] \in LeadRow /\ lead[k].by = NoJob
        BY <2>2, <2>3 DEF ImportInv, ImportTypeOK, LeadsSound
      <4>2. QED
        BY <2>3, <4>1 DEF LeadRow
    <3> HIDE DEF k
    <3>4. /\ IsFiniteSet(S.fresh) /\ Cardinality(S.fresh) = Cardinality(d.fresh) + 1
          /\ Cardinality(d.fresh) \in Nat
      <4>1. IsFiniteSet(d.fresh) /\ Cardinality(d.fresh) \in Nat
        BY <2>1, RowInHand
      <4>2. k \notin d.fresh
        BY <2>2
      <4>3. /\ IsFiniteSet(d.fresh \cup {k})
            /\ Cardinality(d.fresh \cup {k}) =
                 IF k \in d.fresh THEN Cardinality(d.fresh) ELSE Cardinality(d.fresh) + 1
        BY <4>1, FS_AddElement, Zenon
      <4>4. QED
        BY <3>2, <4>1, <4>2, <4>3, Zenon
    <3>5. Cardinality(S.fresh) + S.failed = S.row
      <4>1. Cardinality(d.fresh) + d.failed = d.row /\ d.failed \in Nat /\ d.row \in Nat
        BY <2>1, RowInHand DEF Runner
      <4>2. QED
        BY <3>2, <3>4, <4>1
    <3>6. runner'[r] = S
      BY <1>1, <3>1
    <3>7. RunnerSound(r)'
      BY <2>1, <3>2, <3>3, <3>4, <3>6 DEF ImportInv, RunnerSound, Importing
    <3>8. QED
      BY <1>3, <2>1, <3>1, <3>2, <3>5, <3>7, RunnerMoves
  <2>4. CASE lead[k].status # "absent"
    BY <1>7, <2>1, <2>4, RunStops DEF InsertLead
  <2>5. QED
    BY <2>3, <2>4
<1>8. QED
  BY <1>4, <1>5, <1>6, <1>7

LEMMA CompleteStep ==
    ASSUME ImportInv, NEW r \in Runners, CompleteImport(r)
    PROVE  ImportInv'
<1> DEFINE d == runner[r]
           j == d.job
           done == [status |-> "completed", processed |-> Cardinality(d.fresh),
                    failed |-> d.failed]
           came(i) == {k \in Contacts : lead[k].by = i}
<1>1. /\ Importing(r) /\ ~RowsLeft(r) /\ Run(r, NoRun)
      /\ job' = [job EXCEPT ![j] = done]
      /\ lead' = [k \in Contacts |-> IF k \in d.fresh
                     THEN [status |-> "live", by |-> j] ELSE lead[k]]
      /\ UNCHANGED <<file, stopping, uploading, typing>>
  BY DEF CompleteImport, Importing
<1>2. /\ d \in Runner /\ j \in Jobs /\ Len(file[j]) = MaxRows /\ MaxRows \in Nat
      /\ IsFiniteSet(d.fresh) /\ Cardinality(d.fresh) \in Nat
      /\ Cardinality(d.fresh) + d.failed = d.row
  BY <1>1, RowInHand
<1>3. /\ job[j].status = "pending" /\ d.fresh \subseteq Contacts
      /\ \A k \in d.fresh : lead[k] = [status |-> "absent", by |-> NoJob] /\ k \notin typing
  BY <1>1, <1>2 DEF ImportInv, RunnerSound, Runner
<1>4. /\ job \in [Jobs -> JobRow] /\ lead \in [Contacts -> LeadRow]
      /\ \A i \in Jobs : JobSound(i) /\ Cardinality(came(i)) = job[i].processed
      /\ LeadsSound /\ ImportsAccounted
  BY DEF ImportInv, ImportTypeOK, ImportsAccounted
<1>5. Cardinality(d.fresh) + d.failed = Len(file[j]) /\ done \in JobRow
  <2>1. d.row \in 0..MaxRows /\ d.failed \in 0..MaxRows /\ d.row >= MaxRows
    BY <1>1, <1>2 DEF RowsLeft, Runner
  <2>2. d.row = MaxRows /\ Cardinality(d.fresh) \in 0..MaxRows
    BY <1>2, <2>1
  <2>3. QED
    BY <1>2, <2>1, <2>2 DEF JobRow
<1>6. done.status = "completed" /\ done.processed = Cardinality(d.fresh) /\ done.failed = d.failed
  OBVIOUS
<1> HIDE DEF done
<1>7. /\ job' \in [Jobs -> JobRow] /\ job'[j] = done
      /\ \A i \in Jobs \ {j} : job'[i] = job[i]
  BY <1>1, <1>2, <1>4, <1>5
<1>8. /\ \A k \in d.fresh : lead'[k].status = "live" /\ lead'[k].by = j
      /\ \A k \in Contacts \ d.fresh : lead'[k] = lead[k]
      /\ lead' \in [Contacts -> LeadRow]
  <2>1. [status |-> "live", by |-> j] \in LeadRow
    BY <1>2 DEF LeadRow
  <2>2. QED
    BY <1>1, <1>3, <1>4, <2>1
<1>9. {k \in Contacts : lead'[k].by = j} = d.fresh
  <2>1. \A k \in Contacts : lead[k].by # j
    BY <1>2, <1>3, <1>4 DEF JobSound
  <2>2. QED
    BY <1>3, <1>8, <2>1
<1>10. ASSUME NEW i \in Jobs \ {j}
       PROVE  {k \in Contacts : lead'[k].by = i} = came(i)
  <2>1. \A k \in d.fresh : lead[k].by # i
    BY <1>3, ImportAssumption
  <2>2. QED
    BY <1>3, <1>8, <2>1
<1>11. ImportsAccounted'
  <2>1. ASSUME NEW i \in Jobs
        PROVE  /\ Cardinality({k \in Contacts : lead'[k].by = i}) = job'[i].processed
               /\ job'[i].status = "completed"
                      => job'[i].processed + job'[i].failed = Len(file'[i])
    <3>1. CASE i = j
      BY <1>1, <1>5, <1>6, <1>7, <1>9, <3>1
    <3>2. CASE i # j
      BY <1>1, <1>4, <1>7, <1>10, <3>2 DEF ImportsAccounted
    <3>3. QED
      BY <3>1, <3>2
  <2>2. QED
    BY <2>1 DEF ImportsAccounted
<1>12. LeadsSound'
  BY <1>4, <1>8 DEF LeadsSound
<1>13. ASSUME NEW i \in Jobs PROVE JobSound(i)'
  <2>1. CASE i = j
    BY <1>1, <1>2, <1>3, <1>4, <1>6, <1>7, <2>1 DEF JobSound
  <2>2. CASE i # j
    <3>1. job'[i] = job[i] /\ file'[i] = file[i] /\ JobSound(i)
      BY <1>1, <1>4, <1>7, <2>2
    <3>2. ASSUME NEW k \in Contacts, lead[k].by # i PROVE lead'[k].by # i
      BY <1>8, <2>2, <3>2
    <3>3. (i \in uploading' <=> i \in uploading) /\ (i \in stopping' <=> i \in stopping)
      BY <1>1
    <3>4. QED
      BY <3>1, <3>2, <3>3 DEF JobSound
  <2>3. QED
    BY <2>1, <2>2
<1>14. ASSUME NEW s \in Runners \ {r}, Importing(s)
       PROVE  /\ job'[runner[s].job].status = "pending"
              /\ \A k \in runner[s].fresh : lead'[k] = lead[k]
  <2>1. /\ runner[s].job \in Jobs \ {j} /\ job[runner[s].job].status = "pending"
        /\ runner[s].fresh \subseteq Contacts /\ runner[s].fresh \cap d.fresh = {}
    BY <1>1, <1>14 DEF ImportInv, RunnersApart, RunnerSound, ImportTypeOK, Runner
  <2>2. QED
    BY <1>7, <1>8, <2>1
<1>15. \A i \in Jobs : job[i].status # "none" => job'[i].status # "none"
  BY <1>6, <1>7
<1>16. QED
  BY <1>1, <1>7, <1>8, <1>11, <1>12, <1>13, <1>14, <1>15, RunEnds

LEMMA MarkFailedStep ==
    ASSUME ImportInv, NEW r \in Runners, MarkImportFailed(r)
    PROVE  ImportInv'
<1> DEFINE j == runner[r].job
           row == [job[j] EXCEPT !.status = "failed"]
<1>1. /\ runner[r].at = "broken" /\ ~JobLocked(j) /\ Run(r, NoRun)
      /\ job' = [job EXCEPT ![j] = row]
      /\ UNCHANGED <<file, lead, stopping, uploading, typing>>
  BY DEF MarkImportFailed
<1>2. j \in Jobs /\ job[j].status # "none"
  BY <1>1 DEF ImportInv, RunnerSound
<1>3. /\ job \in [Jobs -> JobRow] /\ lead \in [Contacts -> LeadRow]
      /\ LeadsSound /\ ImportsAccounted /\ \A i \in Jobs : JobSound(i)
  BY DEF ImportInv, ImportTypeOK
<1>4. /\ row \in JobRow /\ row.status = "failed" /\ row.processed = job[j].processed
  BY <1>2, <1>3 DEF JobRow
<1> HIDE DEF row
<1>5. /\ job' \in [Jobs -> JobRow] /\ job'[j] = row
      /\ \A i \in Jobs \ {j} : job'[i] = job[i]
  BY <1>1, <1>2, <1>3, <1>4
<1>6. ImportsAccounted'
  <2>1. \A i \in Jobs : job'[i].processed = job[i].processed
    BY <1>4, <1>5
  <2>2. \A i \in Jobs : job'[i].status = "completed" => job'[i] = job[i]
    BY <1>4, <1>5
  <2>3. QED
    BY <1>1, <1>3, <2>1, <2>2 DEF ImportsAccounted
<1>7. ASSUME NEW i \in Jobs PROVE JobSound(i)'
  <2>1. CASE i = j
    BY <1>1, <1>2, <1>3, <1>4, <1>5, <2>1 DEF JobSound
  <2>2. CASE i # j
    BY <1>1, <1>3, <1>5, <2>2 DEF JobSound
  <2>3. QED
    BY <2>1, <2>2
<1>8. ASSUME NEW s \in Runners \ {r}, Importing(s)
      PROVE  job'[runner[s].job].status = "pending"
  <2>1. runner[s].job \in Jobs \ {j} /\ job[runner[s].job].status = "pending"
    BY <1>1, <1>8 DEF ImportInv, RunnerSound, JobLocked, Importing
  <2>2. QED
    BY <1>5, <2>1
<1>9. LeadsSound' /\ \A i \in Jobs : job[i].status # "none" => job'[i].status # "none"
  BY <1>1, <1>3, <1>4, <1>5 DEF LeadsSound
<1>10. QED
  BY <1>1, <1>3, <1>5, <1>6, <1>7, <1>8, <1>9, RunEnds

LEMMA ImportStep ==
    ASSUME ImportInv, [ImportNext]_importVars
    PROVE  ImportInv'
<1>1. CASE UNCHANGED importVars
  <2>1. UNCHANGED <<job, file, lead, runner, stopping, uploading, typing>>
    BY <1>1 DEF importVars
  <2>2. /\ LeadsSound' /\ ImportsAccounted' /\ \A j \in Jobs : JobSound(j)'
    BY <2>1 DEF ImportInv, LeadsSound, ImportsAccounted, JobSound
  <2>3. \A r \in Runners : Importing(r) =>
           /\ job[runner[r].job].status = "pending"
           /\ \A k \in runner[r].fresh : k \notin typing
    BY DEF ImportInv, RunnerSound
  <2>4. QED
    BY <2>1, <2>2, <2>3, RowsChange DEF ImportInv, ImportTypeOK
<1>2. ASSUME NEW r \in Runners, RunBreaks(r) \/ RunnerDies(r)
      PROVE  ImportInv'
  BY <1>2, RunStops DEF RunBreaks, RunnerDies, Importing
<1>3. QED
  BY <1>1, <1>2, RequestStep, TypedStep, RunStep, CompleteStep, MarkFailedStep DEF ImportNext

LEMMA ImportInitially == ImportInit => ImportInv
<1> SUFFICES ASSUME ImportInit PROVE ImportInv
  OBVIOUS
<1>1. NoRun \in Runner /\ NoRun.at = "idle" /\ NoRun.fresh = {} /\ MaxRows \in Nat
  BY ImportAssumption DEF NoRun, Runner
<1>2. ImportTypeOK
  BY <1>1 DEF ImportInit, ImportTypeOK, JobRow, LeadRow
<1>3. \A j \in Jobs : {k \in Contacts : lead[k].by = j} = {}
  BY ImportAssumption DEF ImportInit
<1>4. ImportsAccounted
  BY <1>3, FS_EmptySet DEF ImportInit, ImportsAccounted
<1>5. QED
  BY <1>1, <1>2, <1>3, <1>4
  DEF ImportInit, ImportInv, LeadsSound, RunnersApart, RunnerSound, JobSound, Importing

\* For any jobs, files, runs and leads: the counters of a job say how many leads
\* came of it, and a completed one has accounted for every row, whoever cancels
\* or repeats a job and wherever its runs stop.
THEOREM ImportsStayAccounted == ImportSpec => [](ImportTypeOK /\ ImportsAccounted)
<1>1. ImportInv => ImportTypeOK /\ ImportsAccounted
  BY DEF ImportInv
<1>2. QED
  BY <1>1, ImportInitially, ImportStep, PTL DEF ImportSpec

-----------------------------------------------------------------------------
(* Model runs and their budget.                                            *)

TraceRow == [asked : 0..(MaxSteps * Cardinality(Tools)),
             logged : 0..(MaxSteps * Cardinality(Tools)), ran : SUBSET Tools]

\* The loop b with the trace t: what is asked for and not yet logged are the
\* calls in hand, and every step has asked for each tool once at most.
LoopSound(b, t) ==
    /\ b.at = "tools" => b.calls # {} /\ t.asked = t.logged + Cardinality(b.calls)
    /\ b.at \in {"idle", "step", "asking", "answered", "done"} => t.asked = t.logged
    /\ t.logged <= t.asked /\ t.asked <= b.steps * Cardinality(Tools)
    /\ b.at \in {"asking", "answered"} =>
          t.asked + Cardinality(Tools) <= b.steps * Cardinality(Tools)
    /\ t.ran \subseteq GoalTools \cap RoleTools

\* Runs that have passed the check of the budget and not recorded their usage.
InFlight == {r \in BrainRuns : brain[r].at \in {"asking", "answered"}}

Limit == Budget + Cardinality(BrainRuns) * MaxTokens

\* What is used with what the runs in flight may still use, below the limit.
Budgeted ==
    /\ UsedTokens + Cardinality(InFlight) * MaxTokens < Limit
    /\ \A d \in 0..LastDay : d > today => usage[d] = 0
    /\ OverspendBounded

LoopsSound == \A r \in BrainRuns : LoopSound(brain[r], trace[r])

ModelInv == ModelTypeOK /\ LoopsSound /\ Budgeted

LEMMA ModelNumbers ==
    /\ MaxTokens \in Nat \ {0} /\ MaxSteps \in Nat \ {0} /\ MaxAttempts \in Nat \ {0}
    /\ Budget \in Nat \ {0} /\ LastDay \in Nat
    /\ Cardinality(Tools) \in Nat /\ Cardinality(BrainRuns) \in Nat
    /\ Cardinality(BrainRuns) * MaxTokens \in Nat /\ Limit \in Nat
<1>1. Cardinality(Tools) \in Nat /\ Cardinality(BrainRuns) \in Nat
  BY ModelAssumption, FS_CardinalityType
<1>2. QED
  BY <1>1, ModelAssumption DEF Limit

\* A factor that grows, and one that grows by one.
LEMMA Products ==
    ASSUME NEW k \in Nat, NEW l \in Nat, NEW m \in Nat
    PROVE  /\ k * m \in Nat /\ (k + 1) * m = k * m + m
           /\ k <= l => k * m <= l * m
BY SMT

LEMMA FlightsCount ==
    /\ IsFiniteSet(InFlight) /\ Cardinality(InFlight) \in Nat
    /\ Cardinality(InFlight) <= Cardinality(BrainRuns)
<1>1. InFlight \in SUBSET BrainRuns
  BY DEF InFlight
<1>2. QED
  BY <1>1, ModelAssumption, FS_Subset, FS_CardinalityType

LEMMA CallsCount ==
    ASSUME NEW calls \in SUBSET Tools
    PROVE  /\ IsFiniteSet(calls) /\ Cardinality(calls) \in Nat
           /\ Cardinality(calls) <= Cardinality(Tools)
BY ModelAssumption, FS_Subset, FS_CardinalityType

\* One loop moves, and stays sound.
LEMMA LoopMoves ==
    ASSUME ModelInv, NEW r \in BrainRuns,
           brain' \in [BrainRuns -> BrainLoop], trace' \in [BrainRuns -> TraceRow],
           usage' \in [0..LastDay -> Nat], today' \in 0..LastDay,
           \A s \in BrainRuns \ {r} : brain'[s] = brain[s] /\ trace'[s] = trace[s],
           LoopSound(brain'[r], trace'[r])
    PROVE  ModelTypeOK' /\ LoopsSound'
<1>1. ASSUME NEW s \in BrainRuns PROVE LoopSound(brain'[s], trace'[s])
  <2>1. CASE s = r
    BY <2>1
  <2>2. CASE s # r
    <3>1. brain'[s] = brain[s] /\ trace'[s] = trace[s] /\ LoopSound(brain[s], trace[s])
      BY <2>2 DEF ModelInv, LoopsSound
    <3>2. QED
      BY <3>1
  <2>3. QED
    BY <2>1, <2>2
<1>2. \A s \in BrainRuns : brain'[s].at = "tools" => brain'[s].calls # {}
  BY <1>1 DEF LoopSound
<1>3. QED
  BY <1>1, <1>2 DEF ModelTypeOK, LoopsSound, TraceRow

\* Nothing is used, and no further run is in flight.
LEMMA NothingUsed ==
    ASSUME ModelInv, UNCHANGED <<usage, today>>, InFlight' \subseteq InFlight
    PROVE  Budgeted'
<1>1. Cardinality(InFlight') \in Nat /\ Cardinality(InFlight') <= Cardinality(InFlight)
  BY FlightsCount, FS_Subset, FS_CardinalityType
<1>2. Cardinality(InFlight') * MaxTokens <= Cardinality(InFlight) * MaxTokens
  BY <1>1, FlightsCount, ModelNumbers, Products
<1>3. /\ Cardinality(InFlight') * MaxTokens \in Nat
      /\ Cardinality(InFlight) * MaxTokens \in Nat
  BY <1>1, FlightsCount, ModelNumbers, Products
<1>4. UsedTokens \in Nat /\ UsedTokens' = UsedTokens
  BY ModelNumbers DEF ModelInv, ModelTypeOK, UsedTokens
<1>5. UsedTokens + Cardinality(InFlight) * MaxTokens < Limit /\ Limit' = Limit
  BY DEF ModelInv, Budgeted, Limit
<1>6. UsedTokens' + Cardinality(InFlight') * MaxTokens < Limit'
  BY <1>2, <1>3, <1>4, <1>5, ModelNumbers
<1>7. QED
  BY <1>6 DEF ModelInv, Budgeted, OverspendBounded

\* A step of the loop that leaves the trace, the tokens used and the day alone.
LEMMA QuietLoop ==
    ASSUME ModelInv, NEW r \in BrainRuns, NEW b \in BrainLoop,
           brain' = [brain EXCEPT ![r] = b], UNCHANGED <<usage, today, trace>>,
           LoopSound(b, trace[r]),
           b.at \in {"asking", "answered"} => brain[r].at \in {"asking", "answered"}
    PROVE  ModelInv'
<1>1. /\ brain \in [BrainRuns -> BrainLoop] /\ trace \in [BrainRuns -> TraceRow]
      /\ usage \in [0..LastDay -> Nat] /\ today \in 0..LastDay
  BY DEF ModelInv, ModelTypeOK, TraceRow
<1>2. /\ brain' \in [BrainRuns -> BrainLoop] /\ brain'[r] = b
      /\ \A s \in BrainRuns \ {r} : brain'[s] = brain[s]
  BY <1>1
<1>3. ModelTypeOK' /\ LoopsSound'
  BY <1>1, <1>2, LoopMoves
<1>4. InFlight' \subseteq InFlight
  BY <1>2 DEF InFlight
<1>5. Budgeted'
  BY <1>4, NothingUsed
<1>6. QED
  BY <1>3, <1>5 DEF ModelInv

\* Only the place of the loop changes.
LEMMA GoesSound ==
    ASSUME ModelInv, NEW r \in BrainRuns, NEW at \in BrainStates,
           Goes(r, at), UNCHANGED <<usage, today, trace>>,
           \/ at \in {"failed", "dead"}
           \/ at = "step" /\ brain[r].at = "idle"
    PROVE  ModelInv'
<1> DEFINE b == [brain[r] EXCEPT !.at = at]
<1>1. brain[r] \in BrainLoop /\ LoopSound(brain[r], trace[r])
  BY DEF ModelInv, ModelTypeOK, LoopsSound
<1>2. /\ b \in BrainLoop /\ b.at = at /\ b.steps = brain[r].steps
  BY <1>1 DEF BrainLoop
<1>3. brain' = [brain EXCEPT ![r] = b]
  BY DEF Goes
<1> HIDE DEF b
<1>4. LoopSound(b, trace[r])
  BY <1>1, <1>2 DEF LoopSound
<1>5. QED
  BY <1>2, <1>3, <1>4, QuietLoop

LEMMA BeginStepSound ==
    ASSUME ModelInv, NEW r \in BrainRuns, BeginStep(r)
    PROVE  ModelInv'
<1> DEFINE fail == [brain[r] EXCEPT !.at = "failed", !.steps = @ + 1]
           ask == [brain[r] EXCEPT !.at = "asking", !.steps = @ + 1, !.attempts = 0]
           n == brain[r].steps
           c == Cardinality(Tools)
<1>1. /\ brain[r] \in BrainLoop /\ LoopSound(brain[r], trace[r]) /\ trace[r] \in TraceRow
      /\ brain[r].at = "step" /\ n \in Nat /\ n < MaxSteps
      /\ UNCHANGED <<usage, today, trace>>
  BY DEF ModelInv, ModelTypeOK, LoopsSound, BeginStep, BrainLoop, TraceRow
<1>2. c \in Nat /\ (n + 1) * c = n * c + c /\ n * c \in Nat /\ n + 1 \in 0..MaxSteps
  <2>1. c \in Nat /\ MaxSteps \in Nat
    BY ModelNumbers
  <2>2. n + 1 \in 0..MaxSteps
    BY <1>1, <2>1
  <2> HIDE DEF c, n
  <2>3. QED
    BY <1>1, <2>1, <2>2, Products DEF n
<1>3. /\ fail \in BrainLoop /\ fail.at = "failed" /\ fail.steps = n + 1
      /\ ask \in BrainLoop /\ ask.at = "asking" /\ ask.steps = n + 1
  <2> DEFINE m == n + 1
  <2>1. m \in 0..MaxSteps /\ 0 \in 0..MaxAttempts /\ {"failed", "asking"} \subseteq BrainStates
    BY <1>2, ModelNumbers DEF BrainStates
  <2> HIDE DEF m
  <2>2. LET x == [brain[r] EXCEPT !.at = "failed", !.steps = m]
            y == [brain[r] EXCEPT !.at = "asking", !.steps = m, !.attempts = 0]
        IN  /\ x \in BrainLoop /\ x.at = "failed" /\ x.steps = m
            /\ y \in BrainLoop /\ y.at = "asking" /\ y.steps = m
    <3>1. "failed" \in BrainStates /\ "asking" \in BrainStates
      BY <2>1
    <3>2. brain[r] \in BrainLoop
      BY <1>1
    <3>3. \A b \in BrainLoop :
             LET x == [b EXCEPT !.at = "failed", !.steps = m]
                 y == [b EXCEPT !.at = "asking", !.steps = m, !.attempts = 0]
             IN  /\ x \in BrainLoop /\ x.at = "failed" /\ x.steps = m
                 /\ y \in BrainLoop /\ y.at = "asking" /\ y.steps = m
      BY <2>1, <3>1 DEF BrainLoop
    <3>4. QED
      BY <3>2, <3>3, Zenon
  <2>3. QED
    BY <2>2 DEF m
<1> HIDE DEF c
<1>4. CASE brain' = [brain EXCEPT ![r].at = "failed", ![r].steps = @ + 1]
  <2>1. brain' = [brain EXCEPT ![r] = fail]
    BY <1>4
  <2> HIDE DEF fail
  <2>2. LoopSound(fail, trace[r])
    BY <1>1, <1>2, <1>3 DEF LoopSound, TraceRow, c
  <2>3. QED
    BY <1>1, <1>3, <2>1, <2>2, QuietLoop
<1>5. CASE /\ UsedTokens < Budget
           /\ brain' = [brain EXCEPT ![r].at = "asking", ![r].steps = @ + 1,
                                     ![r].attempts = 0]
  <2>1. brain' = [brain EXCEPT ![r] = ask]
    BY <1>5
  <2> HIDE DEF ask
  <2>2. LoopSound(ask, trace[r])
    BY <1>1, <1>2, <1>3 DEF LoopSound, TraceRow, c
  <2>3. /\ brain \in [BrainRuns -> BrainLoop] /\ trace \in [BrainRuns -> TraceRow]
        /\ usage \in [0..LastDay -> Nat] /\ today \in 0..LastDay
    BY DEF ModelInv, ModelTypeOK, TraceRow
  <2>4. /\ brain' \in [BrainRuns -> BrainLoop] /\ brain'[r] = ask
        /\ \A s \in BrainRuns \ {r} : brain'[s] = brain[s]
    BY <1>3, <2>1, <2>3
  <2>5. ModelTypeOK' /\ LoopsSound'
    BY <1>1, <2>2, <2>3, <2>4, LoopMoves
  <2>6. InFlight' \in SUBSET BrainRuns
    BY DEF InFlight
  <2>7. /\ Cardinality(InFlight') \in Nat
        /\ Cardinality(InFlight') <= Cardinality(BrainRuns)
    BY <2>6, ModelAssumption, FS_Subset, FS_CardinalityType
  <2>8. /\ Cardinality(InFlight') * MaxTokens <= Cardinality(BrainRuns) * MaxTokens
        /\ Cardinality(InFlight') * MaxTokens \in Nat
    BY <2>7, ModelNumbers, Products
  <2>9. UsedTokens \in Nat /\ UsedTokens' = UsedTokens
    BY <1>1, <2>3, ModelNumbers DEF UsedTokens
  <2>10. UsedTokens' + Cardinality(InFlight') * MaxTokens < Limit'
    BY <1>5, <2>8, <2>9, ModelNumbers DEF Limit
  <2>11. Budgeted'
    BY <1>1, <2>10 DEF ModelInv, Budgeted, OverspendBounded
  <2>12. QED
    BY <2>5, <2>11 DEF ModelInv
<1>6. QED
  BY <1>4, <1>5 DEF BeginStep

LEMMA ProviderFailsSound ==
    ASSUME ModelInv, NEW r \in BrainRuns, NEW retryable \in BOOLEAN, ProviderFails(r, retryable)
    PROVE  ModelInv'
<1>1. /\ brain[r] \in BrainLoop /\ LoopSound(brain[r], trace[r])
      /\ brain[r].at = "asking" /\ UNCHANGED <<usage, today, trace>>
  BY DEF ModelInv, ModelTypeOK, LoopsSound, ProviderFails
<1>2. PICK at \in {"asking", "failed"}, attempts \in 0..MaxAttempts :
         brain' = [brain EXCEPT ![r].at = at, ![r].attempts = attempts]
  <2> DEFINE n == brain[r].attempts + 1
             a == IF retryable /\ MayRetry(n) THEN "asking" ELSE "failed"
             m == IF n > MaxAttempts THEN brain[r].attempts ELSE n
  <2>1. brain[r].attempts \in 0..MaxAttempts /\ MaxAttempts \in Nat
    BY <1>1, ModelNumbers DEF BrainLoop
  <2>2. a \in {"asking", "failed"} /\ m \in 0..MaxAttempts
    BY <2>1
  <2>3. brain' = [brain EXCEPT ![r].at = a, ![r].attempts = m]
    BY <1>1 DEF ProviderFails
  <2>4. QED
    BY <2>2, <2>3
<1> DEFINE b == [brain[r] EXCEPT !.at = at, !.attempts = attempts]
<1>3. b \in BrainLoop /\ b.at = at /\ b.steps = brain[r].steps
  BY <1>1 DEF BrainLoop, BrainStates
<1>4. brain' = [brain EXCEPT ![r] = b]
  BY <1>2
<1> HIDE DEF b
<1>5. LoopSound(b, trace[r])
  BY <1>1, <1>3 DEF LoopSound
<1>6. QED
  BY <1>1, <1>3, <1>4, <1>5, QuietLoop

LEMMA ProviderAnswersSound ==
    ASSUME ModelInv, NEW r \in BrainRuns, NEW tokens \in 1..MaxTokens,
           NEW calls \in SUBSET Tools, ProviderAnswers(r, tokens, calls)
    PROVE  ModelInv'
<1> DEFINE b == [brain[r] EXCEPT !.at = "answered", !.tokens = tokens, !.calls = calls]
<1>1. /\ brain[r] \in BrainLoop /\ LoopSound(brain[r], trace[r])
      /\ brain[r].at = "asking" /\ UNCHANGED <<usage, today, trace>>
  BY DEF ModelInv, ModelTypeOK, LoopsSound, ProviderAnswers
<1>2. b \in BrainLoop /\ b.at = "answered" /\ b.steps = brain[r].steps
  <2>1. tokens \in 0..MaxTokens
    BY ModelNumbers
  <2>2. QED
    BY <1>1, <2>1 DEF BrainLoop, BrainStates
<1>3. brain' = [brain EXCEPT ![r] = b]
  BY DEF ProviderAnswers
<1> HIDE DEF b
<1>4. LoopSound(b, trace[r])
  BY <1>1, <1>2 DEF LoopSound
<1>5. QED
  BY <1>1, <1>2, <1>3, <1>4, QuietLoop

\* The usage of one answer is recorded: what it may use it has used.
LEMMA UsageRecorded ==
    ASSUME ModelInv, NEW r \in BrainRuns, brain[r].at = "answered",
           UNCHANGED today,
           usage' = [usage EXCEPT ![today] = @ + brain[r].tokens],
           InFlight' = InFlight \ {r}
    PROVE  Budgeted' /\ usage' \in [0..LastDay -> Nat]
<1> DEFINE k == brain[r].tokens
           N == Cardinality(InFlight)
<1>1. /\ usage \in [0..LastDay -> Nat] /\ today \in 0..LastDay /\ k \in 0..MaxTokens
  BY DEF ModelInv, ModelTypeOK, BrainLoop
<1>2. /\ UsedTokens + N * MaxTokens < Limit
      /\ \A d \in 0..LastDay : d > today => usage[d] = 0
      /\ \A d \in 1..LastDay : usage[d - 1] + usage[d] < Limit
  BY DEF ModelInv, Budgeted, OverspendBounded, Limit
<1>3. LastDay \in Nat /\ MaxTokens \in Nat /\ Limit \in Nat /\ Limit' = Limit
  BY ModelNumbers DEF Limit
<1>4. r \in InFlight
  BY DEF InFlight
<1>5. N \in Nat /\ Cardinality(InFlight') \in Nat /\ N = Cardinality(InFlight') + 1
  <2>1. /\ IsFiniteSet(InFlight') /\ Cardinality(InFlight') = N - 1
    BY <1>4, FlightsCount, FS_RemoveElement
  <2>2. QED
    BY <2>1, FlightsCount, FS_CardinalityType
<1>6. /\ N * MaxTokens = Cardinality(InFlight') * MaxTokens + MaxTokens
      /\ Cardinality(InFlight') * MaxTokens \in Nat
  BY <1>3, <1>5, Products
<1> HIDE DEF k, N
<1>7. /\ usage' \in [0..LastDay -> Nat]
      /\ usage'[today] = usage[today] + k
      /\ \A d \in 0..LastDay : d # today => usage'[d] = usage[d]
  BY <1>1, <1>3 DEF k
<1>8. UsedTokens \in Nat /\ UsedTokens' = UsedTokens + k
  BY <1>1, <1>3, <1>7 DEF UsedTokens
<1>9. UsedTokens' + Cardinality(InFlight') * MaxTokens < Limit'
  BY <1>1, <1>2, <1>3, <1>6, <1>8
<1>10. UsedTokens' < Limit
  <2>1. UsedTokens' \in Nat
    BY <1>1, <1>3, <1>8
  <2>2. QED
    BY <1>3, <1>6, <1>9, <2>1
<1>11. ASSUME NEW d \in 1..LastDay
       PROVE  usage'[d - 1] + usage'[d] < Limit
  <2>1. d - 1 \in 0..LastDay /\ d \in 0..LastDay
    BY <1>3
  <2>2. CASE d = today
    <3>1. today > 0 /\ UsedTokens' = usage'[d] + usage'[d - 1]
      BY <1>1, <1>3, <2>2 DEF UsedTokens
    <3>2. usage'[d] \in Nat /\ usage'[d - 1] \in Nat
      BY <1>7, <2>1
    <3>3. QED
      BY <1>3, <1>10, <3>1, <3>2
  <2>3. CASE d = today + 1
    <3>1. usage'[d] = 0 /\ usage'[d - 1] = usage'[today]
      BY <1>1, <1>2, <1>3, <1>7, <2>1, <2>3
    <3>2. usage'[today] <= UsedTokens'
      BY <1>1, <1>3, <1>7 DEF UsedTokens
    <3>3. QED
      BY <1>1, <1>3, <1>7, <1>8, <1>10, <3>1, <3>2
  <2>4. CASE d # today /\ d # today + 1
    BY <1>1, <1>2, <1>3, <1>7, <2>1, <2>4
  <2>5. QED
    BY <2>2, <2>3, <2>4
<1>12. \A d \in 0..LastDay : d > today => usage'[d] = 0
  BY <1>1, <1>2, <1>3, <1>7
<1>13. QED
  BY <1>7, <1>9, <1>11, <1>12 DEF Budgeted, OverspendBounded, Limit

LEMMA RecordUsageSound ==
    ASSUME ModelInv, NEW r \in BrainRuns, RecordUsage(r)
    PROVE  ModelInv'
<1> DEFINE at == AfterAnswer(r)
           b == [brain[r] EXCEPT !.at = at, !.tokens = 0]
           t == [trace[r] EXCEPT !.asked = @ + Cardinality(brain[r].calls)]
           c == Cardinality(Tools)
           n == Cardinality(brain[r].calls)
<1>1. /\ brain[r] \in BrainLoop /\ LoopSound(brain[r], trace[r]) /\ trace[r] \in TraceRow
      /\ brain[r].at = "answered" /\ UNCHANGED today
      /\ usage' = [usage EXCEPT ![today] = @ + brain[r].tokens]
  BY DEF ModelInv, ModelTypeOK, LoopsSound, RecordUsage, TraceRow
<1>2. /\ brain' = [brain EXCEPT ![r] = b] /\ trace' = [trace EXCEPT ![r] = t]
  BY DEF RecordUsage
<1>3. /\ c \in Nat /\ n \in Nat /\ n <= c /\ MaxSteps \in Nat /\ brain[r].steps \in 0..MaxSteps
      /\ brain[r].calls # {} => n > 0
  <2>1. brain[r].calls \in SUBSET Tools /\ brain[r].steps \in 0..MaxSteps
    BY <1>1 DEF BrainLoop
  <2>2. QED
    BY <2>1, CallsCount, ModelNumbers, FS_EmptySet
<1>4. at \in {"done", "tools"} /\ (at = "tools" => brain[r].calls # {})
      /\ (at = "done" => brain[r].calls = {})
  BY DEF AfterAnswer
<1> HIDE DEF at
<1>5. /\ b \in BrainLoop /\ b.at = at /\ b.steps = brain[r].steps /\ b.calls = brain[r].calls
  <2>1. at \in BrainStates /\ 0 \in 0..MaxTokens
    BY <1>4, ModelNumbers DEF BrainStates
  <2>2. \A x \in BrainLoop : LET y == [x EXCEPT !.at = at, !.tokens = 0]
                             IN  /\ y \in BrainLoop /\ y.at = at /\ y.steps = x.steps
                                 /\ y.calls = x.calls
    BY <2>1 DEF BrainLoop
  <2>3. QED
    BY <1>1, <2>2, Zenon
<1>6. /\ brain[r].steps * c <= MaxSteps * c /\ MaxSteps * c \in Nat
      /\ brain[r].steps * c \in Nat
  <2>1. brain[r].steps \in Nat /\ brain[r].steps <= MaxSteps
    BY <1>3
  <2>2. QED
    BY <1>3, <2>1, Products
<1> HIDE DEF b, n, c
<1>7. /\ t = [asked |-> trace[r].asked + n, logged |-> trace[r].logged, ran |-> trace[r].ran]
      /\ trace[r].asked \in Nat /\ trace[r].logged \in 0..(MaxSteps * c) /\ trace[r].ran \subseteq Tools
  <2>1. \A x \in TraceRow : /\ [x EXCEPT !.asked = @ + n]
                               = [asked |-> x.asked + n, logged |-> x.logged, ran |-> x.ran]
                            /\ x.asked \in Nat /\ x.logged \in 0..(MaxSteps * c)
                            /\ x.ran \subseteq Tools
    BY <1>6 DEF TraceRow, c
  <2>2. QED
    BY <1>1, <2>1 DEF n
<1> HIDE DEF t
<1>8. /\ t.asked = trace[r].asked + n /\ t.logged = trace[r].logged /\ t.ran = trace[r].ran
  BY <1>7
<1>9. /\ trace[r].asked = trace[r].logged /\ trace[r].asked + c <= brain[r].steps * c
      /\ trace[r].ran \subseteq GoalTools \cap RoleTools
  BY <1>1 DEF LoopSound, c
<1>10. t \in TraceRow
  <2>1. trace[r].asked + n \in 0..(MaxSteps * c)
    BY <1>3, <1>6, <1>7, <1>9
  <2>2. QED
    BY <1>7, <2>1 DEF TraceRow, c
<1>11. LoopSound(b, t)
  <2>1. t.logged <= t.asked /\ t.asked <= brain[r].steps * c
    BY <1>3, <1>6, <1>7, <1>8, <1>9
  <2>2. at = "done" => n = 0
    BY <1>4, FS_EmptySet DEF n
  <2>3. at = "done" => t.asked = t.logged
    BY <1>7, <1>8, <1>9, <2>2
  <2>4. b.calls # {} \/ at = "done"
    BY <1>4, <1>5
  <2>5. t.asked = t.logged + Cardinality(b.calls)
    BY <1>5, <1>8, <1>9 DEF n
  <2>6. QED
    BY <1>4, <1>5, <1>8, <1>9, <2>1, <2>3, <2>4, <2>5 DEF LoopSound, c
<1>12. /\ brain \in [BrainRuns -> BrainLoop] /\ trace \in [BrainRuns -> TraceRow]
       /\ today \in 0..LastDay
  BY DEF ModelInv, ModelTypeOK, TraceRow
<1>13. /\ brain' \in [BrainRuns -> BrainLoop] /\ brain'[r] = b
       /\ trace' \in [BrainRuns -> TraceRow] /\ trace'[r] = t
       /\ \A s \in BrainRuns \ {r} : brain'[s] = brain[s] /\ trace'[s] = trace[s]
  BY <1>2, <1>5, <1>10, <1>12
<1>14. InFlight' = InFlight \ {r}
  BY <1>4, <1>5, <1>13 DEF InFlight
<1>15. Budgeted' /\ usage' \in [0..LastDay -> Nat]
  BY <1>1, <1>14, UsageRecorded
<1>16. ModelTypeOK' /\ LoopsSound'
  BY <1>1, <1>11, <1>12, <1>13, <1>15, LoopMoves
<1>17. QED
  BY <1>15, <1>16 DEF ModelInv

LEMMA InvokeToolSound ==
    ASSUME ModelInv, NEW r \in BrainRuns, NEW t \in Tools, InvokeTool(r, t)
    PROVE  ModelInv'
<1> DEFINE rest == brain[r].calls \ {t}
           at == IF brain[r].calls = {t} THEN "step" ELSE "tools"
           b == [brain[r] EXCEPT !.calls = rest, !.at = at]
           n == Cardinality(brain[r].calls)
           c == Cardinality(Tools)
           ran == IF MayInvoke(t) THEN trace[r].ran \cup {t} ELSE trace[r].ran
           log == [trace[r] EXCEPT !.logged = @ + 1, !.ran = ran]
<1>1. /\ brain[r] \in BrainLoop /\ LoopSound(brain[r], trace[r]) /\ trace[r] \in TraceRow
      /\ brain[r].at = "tools" /\ t \in brain[r].calls /\ UNCHANGED <<usage, today>>
  BY DEF ModelInv, ModelTypeOK, LoopsSound, InvokeTool, TraceRow
<1>2. /\ brain' = [brain EXCEPT ![r] = b] /\ trace' = [trace EXCEPT ![r] = log]
  BY <1>1 DEF InvokeTool
<1>3. /\ n \in Nat /\ n > 0 /\ Cardinality(rest) = n - 1 /\ rest \subseteq Tools
      /\ at = "step" => n = 1
      /\ at = "tools" => rest # {}
  <2>1. brain[r].calls \in SUBSET Tools
    BY <1>1 DEF BrainLoop
  <2>2. IsFiniteSet(brain[r].calls) /\ n \in Nat
    BY <2>1, CallsCount
  <2>3. n # 0 /\ Cardinality(rest) = n - 1
    BY <1>1, <2>2, FS_EmptySet, FS_RemoveElement
  <2>4. at = "step" => n = 1
    BY FS_Singleton
  <2>5. at = "tools" => rest # {}
    BY <1>1
  <2>6. QED
    BY <2>1, <2>2, <2>3, <2>4, <2>5
<1>4. at \in {"step", "tools"}
  OBVIOUS
<1> HIDE DEF at, n, rest
<1>5. b \in BrainLoop /\ b.at = at /\ b.steps = brain[r].steps /\ b.calls = rest
  <2>1. at \in BrainStates
    BY <1>4 DEF BrainStates
  <2>2. \A x \in BrainLoop : LET y == [x EXCEPT !.calls = rest, !.at = at]
                             IN  /\ y \in BrainLoop /\ y.at = at /\ y.steps = x.steps
                                 /\ y.calls = rest
    BY <1>3, <2>1 DEF BrainLoop
  <2>3. QED
    BY <1>1, <2>2, Zenon
<1>6. /\ trace[r].asked = trace[r].logged + n
      /\ trace[r].asked <= brain[r].steps * c /\ trace[r].ran \subseteq GoalTools \cap RoleTools
  BY <1>1 DEF LoopSound, n, c
<1>7. /\ trace[r].asked \in 0..(MaxSteps * c) /\ trace[r].logged \in 0..(MaxSteps * c)
      /\ MaxSteps * c \in Nat
  <2>1. MaxSteps \in Nat /\ c \in Nat
    BY ModelNumbers
  <2> HIDE DEF c
  <2>2. MaxSteps * c \in Nat
    BY <2>1, Products
  <2>3. QED
    BY <1>1, <2>2 DEF TraceRow, c
<1>8. ran \subseteq GoalTools \cap RoleTools
  BY <1>6 DEF MayInvoke
<1>9. trace[r].logged + 1 \in 0..(MaxSteps * c) /\ trace[r].logged + 1 <= trace[r].asked
  <2> HIDE DEF c
  <2>1. trace[r].logged + 1 <= trace[r].asked
    BY <1>3, <1>6, <1>7
  <2>2. QED
    BY <1>7, <2>1
<1> HIDE DEF ran, b, c
<1> DEFINE m == trace[r].logged + 1
<1>10. m \in 0..(MaxSteps * Cardinality(Tools)) /\ ran \in SUBSET Tools
  BY <1>8, <1>9, ModelAssumption DEF c
<1> HIDE DEF m
<1>11. /\ log.asked = trace[r].asked /\ log.logged = trace[r].logged + 1 /\ log.ran = ran
       /\ log \in TraceRow
  <2>1. \A x \in TraceRow : LET y == [x EXCEPT !.logged = m, !.ran = ran]
                            IN  /\ y.asked = x.asked /\ y.logged = m /\ y.ran = ran
                                /\ y \in TraceRow
    BY <1>10 DEF TraceRow
  <2>2. log = [trace[r] EXCEPT !.logged = m, !.ran = ran]
    BY DEF m
  <2> HIDE DEF log
  <2>3. QED
    BY <1>1, <2>1, <2>2 DEF m
<1> HIDE DEF log
<1>12. LoopSound(b, log)
  <2>1. log.asked = log.logged + Cardinality(rest)
    BY <1>3, <1>6, <1>7, <1>11
  <2>2. at = "step" => log.asked = log.logged
    BY <1>3, <1>6, <1>7, <1>11
  <2>3. QED
    BY <1>3, <1>4, <1>5, <1>6, <1>8, <1>9, <1>11, <2>1, <2>2 DEF LoopSound, c
<1>13. /\ brain \in [BrainRuns -> BrainLoop] /\ trace \in [BrainRuns -> TraceRow]
       /\ usage \in [0..LastDay -> Nat] /\ today \in 0..LastDay
  BY DEF ModelInv, ModelTypeOK, TraceRow
<1>14. /\ brain' \in [BrainRuns -> BrainLoop] /\ brain'[r] = b
       /\ trace' \in [BrainRuns -> TraceRow] /\ trace'[r] = log
       /\ \A s \in BrainRuns \ {r} : brain'[s] = brain[s] /\ trace'[s] = trace[s]
  BY <1>2, <1>5, <1>11, <1>13
<1>15. InFlight' \subseteq InFlight
  BY <1>4, <1>5, <1>14 DEF InFlight
<1>16. ModelTypeOK' /\ LoopsSound'
  BY <1>1, <1>12, <1>13, <1>14, LoopMoves
<1>17. QED
  BY <1>1, <1>15, <1>16, NothingUsed DEF ModelInv

LEMMA NextModelDaySound ==
    ASSUME ModelInv, NextModelDay
    PROVE  ModelInv'
<1>1. /\ today \in 0..LastDay /\ today < LastDay /\ today' = today + 1
      /\ UNCHANGED <<usage, brain, trace>> /\ usage \in [0..LastDay -> Nat] /\ LastDay \in Nat
  BY ModelNumbers DEF ModelInv, ModelTypeOK, NextModelDay
<1>2. today' \in 0..LastDay
  BY <1>1
<1>3. ModelTypeOK' /\ LoopsSound'
  BY <1>1, <1>2 DEF ModelInv, ModelTypeOK, LoopsSound
<1>4. /\ usage[today + 1] = 0 /\ InFlight' = InFlight /\ Limit' = Limit
      /\ UsedTokens + Cardinality(InFlight) * MaxTokens < Limit
  BY <1>1 DEF ModelInv, Budgeted, InFlight, Limit
<1>5. UsedTokens' <= UsedTokens /\ UsedTokens' \in Nat /\ UsedTokens \in Nat
  BY <1>1, <1>2, <1>4 DEF UsedTokens
<1>6. Cardinality(InFlight) * MaxTokens \in Nat
  BY FlightsCount, ModelNumbers, Products
<1>7. UsedTokens' + Cardinality(InFlight') * MaxTokens < Limit'
  BY <1>4, <1>5, <1>6, ModelNumbers
<1>8. \A d \in 0..LastDay : d > today' => usage'[d] = 0
  BY <1>1 DEF ModelInv, Budgeted
<1>9. OverspendBounded'
  BY <1>1 DEF ModelInv, Budgeted, OverspendBounded
<1>10. QED
  BY <1>3, <1>7, <1>8, <1>9 DEF ModelInv, Budgeted

LEMMA ModelStep ==
    ASSUME ModelInv, [ModelNext]_modelVars
    PROVE  ModelInv'
<1>1. CASE UNCHANGED modelVars
  BY <1>1 DEF modelVars, ModelInv, ModelTypeOK, LoopsSound, Budgeted, InFlight, UsedTokens,
              Limit, OverspendBounded
<1>2. ASSUME NEW r \in BrainRuns, StartBrain(r) PROVE ModelInv'
  BY <1>2, GoesSound DEF StartBrain, BrainStates
<1>3. ASSUME NEW r \in BrainRuns, StepsExhausted(r) \/ RecordFails(r) \/ BrainDies(r)
      PROVE  ModelInv'
  BY <1>3, GoesSound DEF StepsExhausted, RecordFails, BrainDies, BrainStates
<1>4. ASSUME NEW r \in BrainRuns, BrainStep(r) PROVE ModelInv'
  BY <1>3, <1>4, BeginStepSound, ProviderFailsSound, ProviderAnswersSound, RecordUsageSound,
     InvokeToolSound DEF BrainStep
<1>5. QED
  BY <1>1, <1>2, <1>3, <1>4, NextModelDaySound DEF ModelNext

LEMMA ModelInitially == ModelInit => ModelInv
<1> SUFFICES ASSUME ModelInit PROVE ModelInv
  OBVIOUS
<1> DEFINE b0 == [at |-> "idle", steps |-> 0, attempts |-> 0, tokens |-> 0, calls |-> {}]
           t0 == [asked |-> 0, logged |-> 0, ran |-> {}]
<1>1. 0 \in 0..LastDay /\ 0 \in 0..MaxSteps /\ 0 \in 0..MaxAttempts /\ 0 \in 0..MaxTokens
  BY ModelNumbers
<1>2. b0 \in BrainLoop /\ b0.at = "idle" /\ b0.steps = 0
  BY <1>1 DEF BrainLoop, BrainStates
<1>3. /\ MaxSteps * Cardinality(Tools) \in Nat /\ 0 * Cardinality(Tools) = 0
  BY ModelNumbers, Products
<1>4. t0 \in TraceRow /\ t0.asked = 0 /\ t0.logged = 0 /\ t0.ran = {}
  BY <1>3 DEF TraceRow
<1> HIDE DEF b0, t0
<1>5. LoopSound(b0, t0)
  BY <1>2, <1>3, <1>4 DEF LoopSound
<1>6. \A r \in BrainRuns : brain[r] = b0 /\ trace[r] = t0
  BY DEF ModelInit, b0, t0
<1>7. ModelTypeOK /\ LoopsSound
  BY <1>1, <1>2, <1>4, <1>5, <1>6 DEF ModelInit, ModelTypeOK, LoopsSound, b0, t0, TraceRow
<1>8. InFlight = {}
  BY <1>2, <1>6 DEF InFlight
<1>9. Cardinality(InFlight) = 0 /\ 0 * MaxTokens = 0
  BY <1>8, FS_EmptySet, ModelNumbers
<1>10. UsedTokens = 0 /\ 0 < Limit
  BY <1>1, ModelNumbers DEF ModelInit, UsedTokens, Limit
<1>11. UsedTokens + Cardinality(InFlight) * MaxTokens < Limit
  BY <1>9, <1>10
<1>12. \A d \in 0..LastDay : usage[d] = 0
  BY DEF ModelInit
<1>13. ASSUME NEW d \in 1..LastDay PROVE usage[d - 1] + usage[d] < Limit
  <2>1. d - 1 \in 0..LastDay /\ d \in 0..LastDay
    BY ModelNumbers
  <2>2. QED
    BY <1>10, <1>12, <2>1
<1>14. QED
  BY <1>7, <1>11, <1>12, <1>13 DEF ModelInv, Budgeted, OverspendBounded, Limit

\* ModelInv carries the three: what the runs in flight may still use is counted
\* with what is used, and a call that is asked for is in hand until it is logged.
\* _enforce_budget() checks before the call and _record() adds after it; the
\* daily budget is exceeded by one answer of each run at most, however many runs
\* there are.
THEOREM OverspendStaysBounded ==
    ModelSpec => [](ModelTypeOK /\ OverspendBounded /\ TraceComplete)
<1>1. ModelInv => ModelTypeOK /\ OverspendBounded /\ TraceComplete
  BY DEF ModelInv, Budgeted, LoopsSound, LoopSound, TraceComplete
<1>2. QED
  BY <1>1, ModelInitially, ModelStep, PTL DEF ModelSpec

-----------------------------------------------------------------------------
(* The pipeline board.                                                     *)

\* The part of BoardAgrees that is about the columns of the lead c.
CardAgrees(c) ==
    /\ c.stage # NoStage => c.stage[1] = BucketOf(c.status)
    /\ c.won_at => c.status = "won"
    /\ c.lost_at => c.status = "lost"
    /\ c.status \in OpenStatuses => c.reason = "none"

\* What a request has read is the lead, but for a stage that was deleted since:
\* the columns it writes and those it leaves agree.  If it leaves the lead in a
\* stage that was deleted, the lead is by now in none or in one of that lifecycle.
MoveSound(v) ==
    v.at = "write" =>
       /\ CardAgrees(v.write)
       /\ v.write.stage = NoStage =>
             /\ v.read.stage = NoStage
             /\ card.stage # NoStage => card.stage[1] = BucketOf(v.write.status)
       /\ v.read.status = card.status /\ v.read.reason = card.reason
       /\ v.read.won_at = card.won_at /\ v.read.lost_at = card.lost_at
       /\ v.read.stage \in {card.stage, NoStage}

\* The stage that takes the leads of a deleted one is another of its lifecycle.
RemovalSound ==
    \/ removing = NoRemoval
    \/ /\ removing.stage \in stages
       /\ removing.to \in (stages \ {removing.stage}) \cup {NoStage}
       /\ removing.to # NoStage => removing.to[1] = removing.stage[1]

\* What holds with any number of requests, and what one at a time keeps beside.
StagesInv == PipelineTypeOK /\ RemovalSound
Agreement == CardAgrees(card) /\ \A m \in Movers : MoveSound(mover[m])

LEMMA StageShape ==
    /\ \A s \in StageKeys : s[1] \in Lifecycles
    /\ NoStage \notin StageKeys /\ DefaultStages \subseteq StageKeys
    /\ MarkedStages \subseteq DefaultStages
    /\ \A status \in OpenStatuses : <<"open", status>> \in DefaultStages
<1>1. ASSUME NEW s \in StageKeys PROVE s[1] \in Lifecycles
  <2>1. CASE s \in DefaultStages
    BY <2>1 DEF DefaultStages, BucketOf, LeadStatuses, Lifecycles
  <2>2. CASE s \in CustomLives \X {CustomName}
    BY <2>2, PipelineAssumption
  <2>3. QED
    BY <2>1, <2>2 DEF StageKeys
<1>2. ASSUME NEW status \in LeadStatuses PROVE <<BucketOf(status), status>> \in DefaultStages
  BY DEF DefaultStages
<1>3. /\ <<"open", "new">> \in DefaultStages /\ <<"won", "won">> \in DefaultStages
      /\ <<"lost", "lost">> \in DefaultStages /\ <<"open", "contacted">> \in DefaultStages
  <2>1. /\ BucketOf("new") = "open" /\ BucketOf("contacted") = "open"
        /\ BucketOf("won") = "won" /\ BucketOf("lost") = "lost"
    BY DEF BucketOf, OpenStatuses
  <2>2. {"new", "contacted", "won", "lost"} \subseteq LeadStatuses
    BY DEF LeadStatuses, OpenStatuses
  <2>3. QED
    BY <1>2, <2>1, <2>2
<1>4. QED
  BY <1>1, <1>3, PipelineAssumption DEF StageKeys, MarkedStages, OpenStatuses

\* A stage reconcile() may pick is a stage.
LEMMA PickedStage ==
    ASSUME PipelineTypeOK, NEW c \in Card, NEW status, NEW stage \in StageKeys \cup {NoStage},
           NEW s \in PickStage(c, status, stage)
    PROVE  s \in StageKeys
<1>1. EnsuredMarks \subseteq StageKeys
  BY StageShape DEF EnsuredMarks, PipelineTypeOK
<1>2. CASE stage # NoStage
  BY <1>2 DEF PickStage
<1>3. CASE stage = NoStage /\ s = c.stage /\ c.stage # NoStage
  BY <1>3 DEF Card
<1>4. CASE s \in DefaultStage(c, status)
  <2>1. Ensured \subseteq StageKeys
    BY StageShape DEF Ensured, PipelineTypeOK
  <2>2. QED
    BY <1>1, <1>4, <2>1, StageShape DEF DefaultStage
<1>5. QED
  BY <1>2, <1>3, <1>4 DEF PickStage

LEMMA StampedAgrees ==
    ASSUME NEW c \in Card, NEW s \in StageKeys
    PROVE  LET status == IF s[1] = "open" THEN OpenStatusFor(s, c.status) ELSE s[1]
               w == Stamped(c, status, s)
           IN  /\ w \in Card /\ CardAgrees(w) /\ w.stage = s
               /\ w.status = status /\ (status \in {"won", "lost"} => BucketOf(status) = s[1])
<1> DEFINE status == IF s[1] = "open" THEN OpenStatusFor(s, c.status) ELSE s[1]
<1>1. s[1] \in Lifecycles /\ s # NoStage
  BY StageShape
<1>2. s[1] = "open" => status \in OpenStatuses
  BY DEF OpenStatusFor, OpenStatuses
<1>3. /\ status \in LeadStatuses /\ BucketOf(status) = s[1]
  BY <1>1, <1>2 DEF LeadStatuses, Lifecycles, BucketOf, OpenStatuses
<1> HIDE DEF status
<1> DEFINE won == status = "won" /\ (c.won_at \/ c.status # "won")
           lost == status = "lost" /\ (c.lost_at \/ c.status # "lost")
           reason == IF status \in OpenStatuses THEN "none" ELSE c.reason
<1>4. /\ won \in BOOLEAN /\ lost \in BOOLEAN /\ reason \in {"none", "won", "lost"}
      /\ (won => status = "won") /\ (lost => status = "lost")
      /\ (status \in OpenStatuses => reason = "none")
  BY DEF Card
<1>5. Stamped(c, status, s) = [status |-> status, stage |-> s, won_at |-> won,
                               lost_at |-> lost, reason |-> reason]
  BY DEF Stamped
<1> HIDE DEF won, lost, reason
<1>6. Stamped(c, status, s) \in Card
  BY <1>3, <1>4, <1>5 DEF Card
<1>7. CardAgrees(Stamped(c, status, s))
  BY <1>3, <1>4, <1>5 DEF CardAgrees
<1>8. QED
  BY <1>3, <1>5, <1>6, <1>7 DEF status

\* Whatever is asked, reconcile() makes a lead whose columns agree.
LEMMA ReconciledAgrees ==
    ASSUME PipelineTypeOK, NEW c \in Card, NEW status, NEW stage \in StageKeys \cup {NoStage},
           NEW reason \in {"none", "won", "lost"},
           NEW w \in Reconciled(c, status, stage, reason)
    PROVE  w \in Card /\ CardAgrees(w) /\ w.stage \in StageKeys /\ w.stage # NoStage
<1> DEFINE StatusOf(s) == IF s[1] = "open" THEN OpenStatusFor(s, c.status) ELSE s[1]
           moved == {Stamped(c, StatusOf(s), s) : s \in PickStage(c, status, stage)}
<1>1. ASSUME NEW x \in moved
      PROVE  x \in Card /\ CardAgrees(x) /\ x.stage \in StageKeys
  <2>1. PICK s \in PickStage(c, status, stage) : x = Stamped(c, StatusOf(s), s)
    OBVIOUS
  <2>2. s \in StageKeys
    BY PickedStage
  <2>3. QED
    BY <2>1, <2>2, StampedAgrees
<1>2. CASE reason = "none"
  BY <1>1, <1>2, StageShape DEF Reconciled
<1>3. CASE reason # "none"
  <2>1. PICK x \in moved : x.status = reason /\ w = [x EXCEPT !.reason = reason]
    BY <1>3 DEF Reconciled
  <2> HIDE DEF moved
  <2>2. x \in Card /\ CardAgrees(x) /\ x.stage \in StageKeys
    BY <1>1
  <2>3. /\ w \in Card /\ w.status = x.status /\ w.stage = x.stage /\ w.won_at = x.won_at
        /\ w.lost_at = x.lost_at /\ w.reason = reason
    BY <2>1, <2>2 DEF Card
  <2>4. QED
    BY <1>3, <2>1, <2>2, <2>3, StageShape DEF CardAgrees, OpenStatuses
<1>4. QED
  BY <1>2, <1>3

LEMMA NoMoveTyped ==
    /\ NewCard \in Card /\ NoMove.at = "idle"
    /\ NoMove \in [at : {"idle", "write"}, read : Card, write : Card]
<1>1. NewCard \in Card
  BY DEF NewCard, Card, LeadStatuses, OpenStatuses
<1>2. QED
  BY <1>1 DEF NoMove

LEMMA CreateCardSound ==
    ASSUME StagesInv, NEW status \in LeadStatuses, NEW stage \in StageKeys \cup {NoStage},
           CreateCard(status, stage)
    PROVE  StagesInv' /\ Agreement'
<1> DEFINE c == [NewCard EXCEPT !.status = status]
<1>1. /\ PipelineTypeOK /\ \A m \in Movers : mover[m].at = "idle"
      /\ card' \in Reconciled(c, status, stage, "none")
      /\ stages' = Ensured /\ marked' = EnsuredMarks
      /\ UNCHANGED <<mover, stageEdits, removing>>
  BY DEF CreateCard, StagesInv
<1>2. c \in Card
  <2>1. NewCard \in Card
    BY NoMoveTyped
  <2>2. \A x \in Card : [x EXCEPT !.status = status] \in Card
    BY DEF Card
  <2>3. QED
    BY <2>1, <2>2
<1> HIDE DEF c
<1>3. card' \in Card /\ CardAgrees(card') /\ card'.stage \in StageKeys
  BY <1>1, <1>2, ReconciledAgrees
<1>4. card'.stage \in stages' \cup {NoStage}
  <2>1. ASSUME NEW s \in PickStage(c, status, stage) PROVE s \in Ensured
    <3>1. CASE stage # NoStage
      BY <1>1, <3>1 DEF PickStage, CreateCard, Ensured
    <3>2. c.stage = NoStage
      BY DEF c, NewCard
    <3>3. CASE stage = NoStage
      BY <3>2, <3>3, StageShape DEF PickStage, DefaultStage, Ensured, EnsuredMarks,
                                    StagesInv, PipelineTypeOK
    <3>4. QED
      BY <3>1, <3>3
  <2>2. PICK s \in PickStage(c, status, stage) :
           card' = Stamped(c, IF s[1] = "open" THEN OpenStatusFor(s, c.status) ELSE s[1], s)
    BY <1>1 DEF Reconciled
  <2>3. card'.stage = s
    BY <2>2 DEF Stamped
  <2>4. QED
    BY <1>1, <2>1, <2>3
<1>5. stages' \subseteq StageKeys /\ marked' \subseteq stages' /\ stages \subseteq stages'
  BY <1>1, StageShape DEF Ensured, EnsuredMarks, PipelineTypeOK
<1>6. PipelineTypeOK'
  BY <1>1, <1>3, <1>4, <1>5 DEF PipelineTypeOK
<1>7. RemovalSound'
  BY <1>1, <1>5 DEF StagesInv, RemovalSound
<1>8. \A m \in Movers : MoveSound(mover[m])'
  BY <1>1 DEF MoveSound
<1>9. QED
  BY <1>3, <1>6, <1>7, <1>8 DEF StagesInv, Agreement

LEMMA ReadsCardSound ==
    ASSUME StagesInv, NEW m \in Movers, NEW status, NEW stage \in StageKeys \cup {NoStage},
           NEW reason \in {"none", "won", "lost"}, ReadsCard(m, status, stage, reason)
    PROVE  StagesInv' /\ (Agreement => Agreement')
<1>1. PICK w \in Reconciled(card, status, stage, reason) :
         mover' = [mover EXCEPT ![m] = [at |-> "write", read |-> card, write |-> w]]
  BY DEF ReadsCard
<1>2. UNCHANGED <<stages, marked, card, stageEdits, removing>>
  BY DEF ReadsCard
<1>3. PipelineTypeOK /\ card \in Card
  BY DEF StagesInv, PipelineTypeOK
<1>4. w \in Card /\ CardAgrees(w) /\ w.stage \in StageKeys /\ w.stage # NoStage
  BY <1>3, ReconciledAgrees
<1> DEFINE v == [at |-> "write", read |-> card, write |-> w]
<1>5. /\ v \in [at : {"idle", "write"}, read : Card, write : Card]
      /\ v.read = card /\ v.write = w /\ v.at = "write"
  BY <1>3, <1>4
<1> HIDE DEF v
<1>6. MoveSound(v)
  BY <1>4, <1>5 DEF MoveSound
<1>7. /\ mover' \in [Movers -> [at : {"idle", "write"}, read : Card, write : Card]]
      /\ mover'[m] = v /\ \A n \in Movers \ {m} : mover'[n] = mover[n]
  BY <1>1, <1>3, <1>5 DEF PipelineTypeOK, v
<1>8. PipelineTypeOK'
  BY <1>2, <1>3, <1>7 DEF PipelineTypeOK
<1>9. ASSUME Agreement PROVE Agreement'
  BY <1>2, <1>6, <1>7, <1>9 DEF Agreement, MoveSound
<1>10. QED
  BY <1>2, <1>8, <1>9 DEF StagesInv, RemovalSound

\* With one request at a time, the columns it leaves are those it has read.
LEMMA WritesCardSound ==
    ASSUME StagesInv, NEW m \in Movers, WritesCard(m)
    PROVE  StagesInv' /\ (Agreement /\ Movers = {m} => Agreement')
<1> DEFINE r == mover[m].read
           w == mover[m].write
           status == Column(r.status, w.status, card.status)
           stage == Column(r.stage, w.stage, card.stage)
           won == Column(r.won_at, w.won_at, card.won_at)
           lost == Column(r.lost_at, w.lost_at, card.lost_at)
           reason == Column(r.reason, w.reason, card.reason)
<1>1. /\ PipelineTypeOK /\ card \in Card /\ card.stage \in stages \cup {NoStage}
      /\ mover[m].at = "write" /\ r \in Card /\ w \in Card
      /\ mover' = [mover EXCEPT ![m] = NoMove] /\ UNCHANGED <<stageEdits, removing>>
  BY DEF StagesInv, PipelineTypeOK, WritesCard
<1>2. /\ mover'[m] = NoMove
      /\ mover' \in [Movers -> [at : {"idle", "write"}, read : Card, write : Card]]
  BY <1>1, NoMoveTyped DEF PipelineTypeOK
<1>3. Movers = {m} => \A n \in Movers : MoveSound(mover[n])'
  BY <1>2, NoMoveTyped DEF MoveSound
<1>4. CASE UNCHANGED <<stages, marked, card>>
  <2>1. PipelineTypeOK'
    BY <1>1, <1>2, <1>4 DEF PipelineTypeOK
  <2>2. QED
    BY <1>1, <1>3, <1>4, <2>1 DEF StagesInv, Agreement, RemovalSound
<1>5. CASE /\ w.stage \in Ensured \cup {NoStage}
           /\ card' = [status |-> status, stage |-> stage, won_at |-> won,
                       lost_at |-> lost, reason |-> reason]
           /\ stages' = Ensured /\ marked' = EnsuredMarks
  <2>1. /\ status \in {w.status, card.status} /\ stage \in {w.stage, card.stage}
        /\ won \in {w.won_at, card.won_at} /\ lost \in {w.lost_at, card.lost_at}
        /\ reason \in {w.reason, card.reason}
    BY DEF Column
  <2>2. ASSUME Agreement, Movers = {m} PROVE Agreement'
    <3>1. /\ CardAgrees(w)
          /\ w.stage = NoStage =>
                /\ r.stage = NoStage
                /\ card.stage # NoStage => card.stage[1] = BucketOf(w.status)
          /\ r.status = card.status /\ r.reason = card.reason
          /\ r.won_at = card.won_at /\ r.lost_at = card.lost_at
          /\ r.stage \in {card.stage, NoStage}
      BY <1>1, <2>2 DEF Agreement, MoveSound
    <3>2. /\ status = w.status /\ won = w.won_at /\ lost = w.lost_at /\ reason = w.reason
          /\ stage = w.stage \/ (w.stage = NoStage /\ stage = card.stage)
      BY <3>1 DEF Column
    <3> HIDE DEF status, stage, won, lost, reason
    <3>3. CardAgrees(card')
      BY <1>5, <3>1, <3>2 DEF CardAgrees
    <3>4. QED
      BY <1>3, <2>2, <3>3 DEF Agreement
  <2> HIDE DEF status, stage, won, lost, reason
  <2>3. /\ status \in LeadStatuses /\ stage \in StageKeys \cup {NoStage} /\ won \in BOOLEAN
        /\ lost \in BOOLEAN /\ reason \in {"none", "won", "lost"}
    <3> HIDE DEF w
    <3>1. QED
      BY <1>1, <2>1 DEF Card
  <2>4. card' \in Card /\ card'.stage = stage
    BY <1>5, <2>3 DEF Card
  <2>5. stages' \subseteq StageKeys /\ marked' \subseteq stages' /\ stages \subseteq stages'
    BY <1>1, <1>5, StageShape DEF Ensured, EnsuredMarks, PipelineTypeOK
  <2>6. card'.stage \in stages' \cup {NoStage}
    BY <1>1, <1>5, <2>1, <2>4, <2>5
  <2>7. PipelineTypeOK'
    BY <1>1, <1>2, <2>4, <2>5, <2>6 DEF PipelineTypeOK
  <2>8. RemovalSound'
    BY <1>1, <2>5 DEF StagesInv, RemovalSound
  <2>9. QED
    BY <2>2, <2>7, <2>8 DEF StagesInv
<1>6. QED
  BY <1>4, <1>5 DEF WritesCard

LEMMA CreateStageSound ==
    ASSUME StagesInv, NEW s \in StageKeys, CreateStage(s)
    PROVE  StagesInv' /\ (Agreement => Agreement')
<1>1. /\ stages' = stages \cup {s} /\ stageEdits < MaxStageEdits /\ stageEdits' = stageEdits + 1
      /\ UNCHANGED <<marked, card, mover, removing>>
  BY DEF CreateStage, StageEdit
<1>2. PipelineTypeOK'
  BY <1>1, PipelineAssumption DEF StagesInv, PipelineTypeOK
<1>3. QED
  BY <1>1, <1>2 DEF StagesInv, Agreement, RemovalSound, MoveSound

LEMMA RenamedStage ==
    ASSUME NEW s \in StageKeys, NEW t \in StageKeys, t[1] = s[1],
           NEW x \in StageKeys \cup {NoStage}
    PROVE  /\ Renamed(s, t, x) \in StageKeys \cup {NoStage}
           /\ Renamed(s, t, x) = NoStage <=> x = NoStage
           /\ Renamed(s, t, x)[1] = x[1]
BY StageShape DEF Renamed

MoverRow == [at : {"idle", "write"}, read : Card, write : Card]

\* A lead, and a request, whose stage is renamed.
RenamedCard(s, t, c) == [c EXCEPT !.stage = Renamed(s, t, @)]
RenamedMove(s, t, v) == [v EXCEPT !.read.stage = Renamed(s, t, @),
                                  !.write.stage = Renamed(s, t, @)]

LEMMA RenamedCards ==
    ASSUME NEW s \in StageKeys, NEW t \in StageKeys, t[1] = s[1], NEW c \in Card
    PROVE  LET d == RenamedCard(s, t, c)
           IN  /\ d \in Card /\ d.stage = Renamed(s, t, c.stage)
               /\ d.status = c.status /\ d.reason = c.reason
               /\ d.won_at = c.won_at /\ d.lost_at = c.lost_at
               /\ CardAgrees(c) => CardAgrees(d)
<1> DEFINE x == Renamed(s, t, c.stage)
           d == [c EXCEPT !.stage = x]
<1>1. c.stage \in StageKeys \cup {NoStage}
  BY DEF Card
<1>2. x \in StageKeys \cup {NoStage} /\ (x = NoStage <=> c.stage = NoStage) /\ x[1] = c.stage[1]
  BY <1>1, RenamedStage
<1> HIDE DEF x
<1>3. /\ d \in Card /\ d.stage = x /\ d.status = c.status /\ d.reason = c.reason
      /\ d.won_at = c.won_at /\ d.lost_at = c.lost_at
  BY <1>2 DEF Card
<1> HIDE DEF d
<1>4. CardAgrees(c) => CardAgrees(d)
  BY <1>2, <1>3 DEF CardAgrees
<1>5. QED
  BY <1>3, <1>4 DEF d, x, RenamedCard

LEMMA RenamedMoves ==
    ASSUME NEW s \in StageKeys, NEW t \in StageKeys, t[1] = s[1], NEW v \in MoverRow
    PROVE  LET u == RenamedMove(s, t, v)
           IN  /\ u \in MoverRow /\ u.at = v.at
               /\ u.read = RenamedCard(s, t, v.read) /\ u.write = RenamedCard(s, t, v.write)
<1> DEFINE a == RenamedCard(s, t, v.read)
           b == RenamedCard(s, t, v.write)
           u == [v EXCEPT !.read = a, !.write = b]
<1>1. v.read \in Card /\ v.write \in Card
  BY DEF MoverRow
<1>2. a \in Card /\ b \in Card
  BY <1>1, RenamedCards
<1>3. u = RenamedMove(s, t, v)
  BY DEF MoverRow, RenamedMove, RenamedCard
<1> HIDE DEF a, b
<1>4. u \in MoverRow /\ u.at = v.at /\ u.read = a /\ u.write = b
  BY <1>2 DEF MoverRow
<1> HIDE DEF u
<1>5. QED
  BY <1>3, <1>4 DEF a, b

LEMMA RenameStageSound ==
    ASSUME StagesInv, NEW s \in StageKeys, NEW t \in StageKeys, RenameStage(s, t)
    PROVE  StagesInv' /\ (Agreement => Agreement')
<1>1. /\ s \in stages /\ t \notin stages /\ t[1] = s[1]
      /\ stages' = (stages \ {s}) \cup {t} /\ marked' = {Renamed(s, t, x) : x \in marked}
      /\ card' = RenamedCard(s, t, card)
      /\ mover' = [m \in Movers |-> RenamedMove(s, t, mover[m])]
      /\ removing' = [stage |-> Renamed(s, t, removing.stage),
                      to |-> Renamed(s, t, removing.to)]
      /\ stageEdits < MaxStageEdits /\ stageEdits' = stageEdits + 1
  BY DEF RenameStage, StageEdit, RenamedCard, RenamedMove
<1>2. /\ stages \subseteq StageKeys /\ marked \subseteq stages /\ card \in Card
      /\ card.stage \in stages \cup {NoStage} /\ mover \in [Movers -> MoverRow]
      /\ stageEdits \in 0..MaxStageEdits
      /\ removing \in [stage : StageKeys \cup {NoStage}, to : StageKeys \cup {NoStage}]
  BY DEF StagesInv, PipelineTypeOK, MoverRow
<1>3. /\ card' \in Card /\ card'.stage = Renamed(s, t, card.stage)
      /\ CardAgrees(card) => CardAgrees(card')
      /\ card'.status = card.status /\ card'.reason = card.reason
      /\ card'.won_at = card.won_at /\ card'.lost_at = card.lost_at
  BY <1>1, <1>2, RenamedCards
<1>4. ASSUME NEW x \in stages PROVE Renamed(s, t, x) \in stages'
  BY <1>1 DEF Renamed
<1>5. card'.stage \in stages' \cup {NoStage}
  BY <1>2, <1>3, <1>4, StageShape DEF Renamed
<1>6. stages' \subseteq StageKeys /\ marked' \subseteq stages'
  BY <1>1, <1>2, <1>4
<1>7. ASSUME NEW m \in Movers
      PROVE  mover'[m] \in MoverRow /\ (MoveSound(mover[m]) => MoveSound(mover[m])')
  <2> DEFINE v == mover[m]
             u == mover'[m]
  <2>1. v \in MoverRow /\ v.read \in Card /\ v.write \in Card
    BY <1>2 DEF MoverRow
  <2>2. u = RenamedMove(s, t, v)
    BY <1>1
  <2>3. /\ u \in MoverRow /\ u.at = v.at
        /\ u.read = RenamedCard(s, t, v.read) /\ u.write = RenamedCard(s, t, v.write)
    BY <1>1, <2>1, <2>2, RenamedMoves
  <2> HIDE DEF v, u
  <2>4. /\ u.read.stage = Renamed(s, t, v.read.stage) /\ u.read.status = v.read.status
        /\ u.read.reason = v.read.reason /\ u.read.won_at = v.read.won_at
        /\ u.read.lost_at = v.read.lost_at
    BY <1>1, <2>1, <2>3, RenamedCards
  <2>5. /\ u.write.stage = Renamed(s, t, v.write.stage) /\ u.write.status = v.write.status
        /\ CardAgrees(v.write) => CardAgrees(u.write)
    BY <1>1, <2>1, <2>3, RenamedCards
  <2>6. v.write.stage \in StageKeys \cup {NoStage}
    BY <2>1 DEF Card
  <2>7. v.write.stage # NoStage => u.write.stage # NoStage
    BY <1>1, <2>5, <2>6, RenamedStage
  <2>8. v.read.stage \in {card.stage, NoStage} => u.read.stage \in {card'.stage, NoStage}
    BY <1>3, <2>4, StageShape DEF Renamed
  <2>9. /\ v.read.stage = NoStage => u.read.stage = NoStage
        /\ card'.stage # NoStage => card.stage # NoStage /\ card'.stage[1] = card.stage[1]
    BY <1>1, <1>2, <1>3, <2>4, RenamedStage, StageShape DEF Renamed
  <2>10. MoveSound(v) => MoveSound(v)'
    BY <1>3, <2>3, <2>4, <2>5, <2>7, <2>8, <2>9 DEF MoveSound, u, v
  <2>11. QED
    BY <2>3, <2>10 DEF u, v
<1>8. mover' \in [Movers -> MoverRow]
  BY <1>1, <1>7
<1> DEFINE x == Renamed(s, t, removing.stage)
           y == Renamed(s, t, removing.to)
<1>9. /\ x \in StageKeys \cup {NoStage} /\ y \in StageKeys \cup {NoStage}
      /\ (y = NoStage <=> removing.to = NoStage)
      /\ x[1] = removing.stage[1] /\ y[1] = removing.to[1]
  <2>1. removing.stage \in StageKeys \cup {NoStage} /\ removing.to \in StageKeys \cup {NoStage}
    BY <1>2
  <2>2. QED
    BY <1>1, <2>1, RenamedStage
<1>10. PipelineTypeOK'
  <2>1. removing' \in [stage : StageKeys \cup {NoStage}, to : StageKeys \cup {NoStage}]
    BY <1>1, <1>9
  <2>2. stageEdits' \in 0..MaxStageEdits
    BY <1>1, <1>2, PipelineAssumption
  <2>3. QED
    BY <1>3, <1>5, <1>6, <1>8, <2>1, <2>2 DEF PipelineTypeOK, MoverRow
<1>11. RemovalSound'
  <2>1. CASE removing = NoRemoval
    BY <1>1, <2>1, StageShape DEF RemovalSound, NoRemoval, Renamed
  <2>2. CASE removing # NoRemoval
    <3>1. /\ removing.stage \in stages
          /\ removing.to \in (stages \ {removing.stage}) \cup {NoStage}
          /\ removing.to # NoStage => removing.to[1] = removing.stage[1]
      BY <2>2 DEF StagesInv, RemovalSound
    <3>2. x \in stages' /\ y \in (stages' \ {x}) \cup {NoStage}
      BY <1>1, <1>2, <3>1, StageShape DEF Renamed
    <3>3. y # NoStage => y[1] = x[1]
      BY <1>9, <3>1
    <3>4. removing'.stage = x /\ removing'.to = y
      BY <1>1
    <3> HIDE DEF x, y
    <3>5. QED
      BY <3>2, <3>3, <3>4 DEF RemovalSound
  <2>3. QED
    BY <2>1, <2>2
<1>12. QED
  BY <1>3, <1>7, <1>10, <1>11 DEF StagesInv, Agreement

LEMMA DeleteReadsSound ==
    ASSUME StagesInv, NEW s \in StageKeys, DeleteReads(s)
    PROVE  StagesInv' /\ (Agreement => Agreement')
<1>1. /\ s \in stages /\ stageEdits < MaxStageEdits /\ stageEdits' = stageEdits + 1
      /\ UNCHANGED <<stages, marked, card, mover>>
  BY DEF DeleteReads, StageEdit
<1>2. PICK t \in {x \in stages \ {s} : x[1] = s[1]} \cup {NoStage} :
         removing' = [stage |-> s, to |-> t]
  BY DEF DeleteReads
<1>3. t \in StageKeys \cup {NoStage}
  BY <1>2 DEF StagesInv, PipelineTypeOK
<1>4. PipelineTypeOK'
  BY <1>1, <1>2, <1>3, PipelineAssumption DEF StagesInv, PipelineTypeOK
<1>5. RemovalSound'
  BY <1>1, <1>2 DEF RemovalSound
<1>6. QED
  BY <1>1, <1>4, <1>5 DEF StagesInv, Agreement, MoveSound

\* A request that has read the stage of the lead, and perhaps leaves it there,
\* and no longer finds it.
Gone(s, x) == IF x = s THEN NoStage ELSE x
GoneCard(s, c) == [c EXCEPT !.stage = Gone(s, @)]
GoneMove(s, v) == [v EXCEPT !.read.stage = Gone(s, @), !.write.stage = Gone(s, @)]

LEMMA GoneCards ==
    ASSUME NEW s \in StageKeys, NEW c \in Card
    PROVE  LET d == GoneCard(s, c)
           IN  /\ d \in Card /\ d.stage = Gone(s, c.stage)
               /\ d.status = c.status /\ d.reason = c.reason
               /\ d.won_at = c.won_at /\ d.lost_at = c.lost_at
               /\ CardAgrees(c) => CardAgrees(d)
<1> DEFINE x == Gone(s, c.stage)
           d == [c EXCEPT !.stage = x]
<1>1. x \in StageKeys \cup {NoStage} /\ x \in {c.stage, NoStage}
  BY DEF Card, Gone
<1> HIDE DEF x
<1>2. /\ d \in Card /\ d.stage = x /\ d.status = c.status /\ d.reason = c.reason
      /\ d.won_at = c.won_at /\ d.lost_at = c.lost_at
  BY <1>1 DEF Card
<1> HIDE DEF d
<1>3. CardAgrees(c) => CardAgrees(d)
  BY <1>1, <1>2 DEF CardAgrees
<1>4. QED
  BY <1>2, <1>3 DEF d, x, GoneCard

LEMMA GoneMoves ==
    ASSUME NEW s \in StageKeys, NEW v \in MoverRow
    PROVE  LET u == GoneMove(s, v)
           IN  /\ u \in MoverRow /\ u.at = v.at
               /\ u.read = GoneCard(s, v.read) /\ u.write = GoneCard(s, v.write)
<1> DEFINE a == GoneCard(s, v.read)
           b == GoneCard(s, v.write)
           u == [v EXCEPT !.read = a, !.write = b]
<1>1. v.read \in Card /\ v.write \in Card
  BY DEF MoverRow
<1>2. a \in Card /\ b \in Card
  BY <1>1, GoneCards
<1>3. u = GoneMove(s, v)
  BY DEF MoverRow, GoneMove, GoneCard
<1> HIDE DEF a, b
<1>4. u \in MoverRow /\ u.at = v.at /\ u.read = a /\ u.write = b
  BY <1>2 DEF MoverRow
<1> HIDE DEF u
<1>5. QED
  BY <1>3, <1>4 DEF a, b

\* ON DELETE SET NULL: the lead goes to the alternative, or loses its stage.
LEMMA DeleteCommitsSound ==
    ASSUME StagesInv, DeleteCommits
    PROVE  StagesInv' /\ (Agreement => Agreement')
<1> DEFINE s == removing.stage
           x == IF card.stage = s THEN removing.to ELSE card.stage
<1>1. /\ s \in stages /\ stages' = stages \ {s} /\ marked' = marked \ {s}
      /\ card' = [card EXCEPT !.stage = x]
      /\ mover' = [m \in Movers |->
            IF mover[m].write.stage = s /\ mover[m].read.stage # s THEN NoMove
            ELSE GoneMove(s, mover[m])]
      /\ removing' = NoRemoval /\ UNCHANGED stageEdits
  BY DEF DeleteCommits, GoneMove, Gone
<1>2. /\ stages \subseteq StageKeys /\ marked \subseteq stages /\ card \in Card
      /\ card.stage \in stages \cup {NoStage} /\ mover \in [Movers -> MoverRow]
      /\ stageEdits \in 0..MaxStageEdits /\ RemovalSound
  BY DEF StagesInv, PipelineTypeOK, MoverRow
<1>3. /\ s \in StageKeys /\ s # NoStage
      /\ removing.to \in (stages \ {s}) \cup {NoStage}
      /\ removing.to # NoStage => removing.to[1] = s[1]
  BY <1>1, <1>2, StageShape DEF RemovalSound, NoRemoval
<1>4. /\ x \in (stages \ {s}) \cup {NoStage} /\ x \in StageKeys \cup {NoStage}
      /\ x # NoStage => card.stage # NoStage /\ x[1] = card.stage[1]
  BY <1>2, <1>3
<1>5. /\ card' \in Card /\ card'.stage = x /\ card'.status = card.status
      /\ card'.reason = card.reason /\ card'.won_at = card.won_at /\ card'.lost_at = card.lost_at
  <2> HIDE DEF x
  <2>1. \A c \in Card : LET d == [c EXCEPT !.stage = x]
                        IN  /\ d \in Card /\ d.stage = x /\ d.status = c.status
                            /\ d.reason = c.reason /\ d.won_at = c.won_at
                            /\ d.lost_at = c.lost_at
    BY <1>4 DEF Card
  <2>2. LET d == [card EXCEPT !.stage = x]
        IN  /\ d \in Card /\ d.stage = x /\ d.status = card.status
            /\ d.reason = card.reason /\ d.won_at = card.won_at
            /\ d.lost_at = card.lost_at
    BY <1>2, <2>1, Zenon
  <2>3. QED
    BY <1>1, <2>2, Zenon
<1>6. CardAgrees(card) => CardAgrees(card')
  BY <1>2, <1>4, <1>5 DEF CardAgrees
<1>7. ASSUME NEW m \in Movers
      PROVE  mover'[m] \in MoverRow /\ (MoveSound(mover[m]) => MoveSound(mover[m])')
  <2>1. mover[m] \in MoverRow
    BY <1>2
  <2>2. CASE mover[m].write.stage = s /\ mover[m].read.stage # s
    <3>1. mover'[m] = NoMove
      BY <1>1, <2>2
    <3>2. QED
      BY <3>1, NoMoveTyped DEF MoverRow, MoveSound
  <2>3. CASE ~(mover[m].write.stage = s /\ mover[m].read.stage # s)
    <3> DEFINE v == mover[m]
               u == mover'[m]
    <3>1. u = GoneMove(s, v)
      BY <1>1, <2>3
    <3>2. /\ u \in MoverRow /\ u.at = v.at
          /\ u.read = GoneCard(s, v.read) /\ u.write = GoneCard(s, v.write)
      BY <1>3, <2>1, <3>1, GoneMoves
    <3>3. v.read \in Card /\ v.write \in Card
      BY <2>1 DEF MoverRow
    <3>4. /\ u.read.stage = Gone(s, v.read.stage)
          /\ u.read.status = v.read.status /\ u.read.reason = v.read.reason
          /\ u.read.won_at = v.read.won_at /\ u.read.lost_at = v.read.lost_at
      BY <1>3, <3>2, <3>3, GoneCards
    <3>5. /\ u.write.stage = Gone(s, v.write.stage) /\ u.write.status = v.write.status
          /\ CardAgrees(v.write) => CardAgrees(u.write)
      BY <1>3, <3>2, <3>3, GoneCards
    <3> HIDE DEF u
    <3>6. ASSUME v.at = "write", MoveSound(v)
          PROVE  u.read.stage \in {card'.stage, NoStage}
      BY <1>3, <1>5, <3>4, <3>6 DEF MoveSound, Gone
    <3>7. ASSUME v.at = "write", MoveSound(v), u.write.stage = NoStage
          PROVE  /\ u.read.stage = NoStage
                 /\ card'.stage # NoStage => card'.stage[1] = BucketOf(u.write.status)
      <4>1. CASE v.write.stage = NoStage
        BY <1>3, <1>4, <1>5, <3>4, <3>5, <3>7, <4>1 DEF MoveSound, Gone
      <4>2. CASE v.write.stage = s /\ v.read.stage = s
        <5>1. s[1] = BucketOf(v.write.status) /\ card.stage = s
          BY <1>3, <3>7, <4>2 DEF MoveSound, CardAgrees
        <5>2. QED
          BY <1>4, <1>5, <3>4, <3>5, <4>2, <5>1 DEF Gone
      <4>3. QED
        BY <2>3, <3>5, <3>7, <4>1, <4>2 DEF Gone
    <3>8. MoveSound(v) => MoveSound(v)'
      BY <1>5, <3>2, <3>4, <3>5, <3>6, <3>7 DEF MoveSound, u
    <3>9. QED
      BY <3>2, <3>8 DEF u
  <2>4. QED
    BY <2>2, <2>3
<1>8. mover' \in [Movers -> MoverRow]
  BY <1>1, <1>7
<1>9. PipelineTypeOK'
  <2>1. card'.stage \in stages' \cup {NoStage}
    BY <1>1, <1>4, <1>5
  <2>2. removing' \in [stage : StageKeys \cup {NoStage}, to : StageKeys \cup {NoStage}]
    BY <1>1 DEF NoRemoval
  <2>3. QED
    BY <1>1, <1>2, <1>5, <1>8, <2>1, <2>2 DEF PipelineTypeOK, MoverRow
<1>10. QED
  BY <1>1, <1>6, <1>7, <1>9 DEF StagesInv, Agreement, RemovalSound

LEMMA PipelineInitially == PipelineInit => StagesInv /\ Agreement
<1> SUFFICES ASSUME PipelineInit PROVE StagesInv /\ Agreement
  OBVIOUS
<1>1. PipelineTypeOK
  <2>1. stageEdits \in 0..MaxStageEdits
    BY PipelineAssumption DEF PipelineInit
  <2>2. removing \in [stage : StageKeys \cup {NoStage}, to : StageKeys \cup {NoStage}]
    BY DEF PipelineInit, NoRemoval
  <2>3. QED
    BY <2>1, <2>2, StageShape, NoMoveTyped DEF PipelineInit, PipelineTypeOK, NewCard
<1>2. CardAgrees(card)
  BY DEF PipelineInit, NewCard, CardAgrees
<1>3. QED
  BY <1>1, <1>2, NoMoveTyped
     DEF PipelineInit, StagesInv, Agreement, RemovalSound, MoveSound

LEMMA PipelineStep ==
    ASSUME StagesInv, [PipelineNext]_pipelineVars
    PROVE  /\ StagesInv'
           /\ (\A m, n \in Movers : m = n) /\ Agreement => Agreement'
<1>1. CASE UNCHANGED pipelineVars
  <2>1. StagesInv'
    BY <1>1 DEF pipelineVars, StagesInv, PipelineTypeOK, RemovalSound
  <2>2. Agreement => Agreement'
    BY <1>1 DEF pipelineVars, Agreement, MoveSound, CardAgrees
  <2>3. QED
    BY <2>1, <2>2
<1>2. ASSUME NEW m \in Movers, WritesCard(m)
      PROVE  /\ StagesInv'
             /\ (\A n, k \in Movers : n = k) /\ Agreement => Agreement'
  <2>1. (\A n, k \in Movers : n = k) => Movers = {m}
    OBVIOUS
  <2>2. QED
    BY <1>2, <2>1, WritesCardSound
<1>3. ASSUME NEW m \in Movers, NEW status, NEW stage \in StageKeys \cup {NoStage},
             NEW reason \in {"none", "won", "lost"}, ReadsCard(m, status, stage, reason)
      PROVE  StagesInv' /\ (Agreement => Agreement')
  BY <1>3, ReadsCardSound
<1>4. ASSUME NEW status \in LeadStatuses, NEW stage \in StageKeys \cup {NoStage},
             CreateCard(status, stage)
      PROVE  StagesInv' /\ Agreement'
  BY <1>4, CreateCardSound
<1>5. ASSUME NEW s \in StageKeys,
             CreateStage(s) \/ DeleteReads(s) \/ \E t \in StageKeys : RenameStage(s, t)
      PROVE  StagesInv' /\ (Agreement => Agreement')
  BY <1>5, CreateStageSound, DeleteReadsSound, RenameStageSound
<1>6. CASE DeleteCommits
  BY <1>6, DeleteCommitsSound
<1>7. QED
  BY <1>1, <1>2, <1>3, <1>4, <1>5, <1>6, Zenon DEF PipelineNext

\* A board's rows are of their types however many requests change the lead at a
\* time, and the lead's stage is a stage of the board.
LEMMA PipelineTypes == PipelineSpec => []StagesInv
<1>1. StagesInv /\ [PipelineNext]_pipelineVars => StagesInv'
  BY PipelineStep
<1>2. QED
  BY <1>1, PipelineInitially, PTL DEF PipelineSpec

\* With requests that change the lead one after the other, its columns agree
\* whatever happens to the stages meanwhile: PipelineService decides the status
\* by the stage, and a stage that is renamed, deleted or replaced stays in its
\* lifecycle, in the lead and in what the request has read.  Two requests at a
\* time write the columns each has changed, which need not agree.
THEOREM BoardStaysInAgreement ==
    ASSUME \A m, n \in Movers : m = n
    PROVE  PipelineSpec => [](PipelineTypeOK /\ BoardAgrees)
<1>1. StagesInv /\ Agreement /\ [PipelineNext]_pipelineVars => (StagesInv /\ Agreement)'
  BY PipelineStep
<1>2. StagesInv /\ Agreement => PipelineTypeOK /\ BoardAgrees
  BY DEF StagesInv, Agreement, CardAgrees, BoardAgrees
<1>3. QED
  BY <1>1, <1>2, PipelineInitially, PTL DEF PipelineSpec

-----------------------------------------------------------------------------
(* Team and invites.                                                       *)

\* What a request in flight is about to write.
LEMMA CallsTyped ==
    ASSUME NEW call \in TeamCallOf
    PROVE  /\ call.kind \in {"role", "status", "invite", "revoke", "create", "accept"}
                 => call.on \in People
           /\ call.kind \in {"role", "invite", "create", "accept"} => call.role \in Roles
           /\ call.kind = "status" => call.active \in BOOLEAN
BY DEF TeamCallOf

LEMMA TeamBeginsSound ==
    ASSUME TeamTypeOK, NEW a \in Admins, NEW call \in TeamCallOf, TeamBegins(a, call)
    PROVE  TeamTypeOK'
BY TeamAssumption DEF TeamTypeOK, TeamBegins

LEMMA TeamEndsSound ==
    ASSUME TeamTypeOK, NEW a \in Admins, TeamEnds(a), UNCHANGED teamCalls,
           person' \in [People -> PersonRow],
           \A p \in People : person'[p].joined \/ person'[p] = NoPerson,
           invite' \in [People -> InviteRow]
    PROVE  TeamTypeOK'
<1>1. [kind |-> "idle"] \in TeamCallOf
  BY DEF TeamCallOf
<1>2. QED
  BY <1>1 DEF TeamTypeOK, TeamEnds


\* What a handler has read of its member stays true: nobody leaves.
CallSound(call) == call.kind \in {"role", "status"} => person[call.on].joined

TeamInv == TeamTypeOK /\ \A a \in Admins : CallSound(teamCall[a])

LEMMA TeamCallSound ==
    ASSUME TeamInv, NEW a \in Admins, NEW call \in TeamCallOf, TeamBegins(a, call),
           CallSound(call)
    PROVE  TeamInv'
<1>1. TeamTypeOK'
  BY TeamBeginsSound DEF TeamInv
<1>2. /\ teamCall' = [teamCall EXCEPT ![a] = call] /\ UNCHANGED person
      /\ teamCall \in [Admins -> TeamCallOf]
  BY DEF TeamBegins, TeamInv, TeamTypeOK
<1>3. ASSUME NEW b \in Admins PROVE CallSound(teamCall[b])'
  <2>1. CASE b = a
    BY <1>2, <2>1 DEF CallSound
  <2>2. CASE b # a
    BY <1>2, <2>2 DEF CallSound, TeamInv
  <2>3. QED
    BY <2>1, <2>2
<1>4. QED
  BY <1>1, <1>3 DEF TeamInv

LEMMA TeamWriteSound ==
    ASSUME TeamInv, NEW a \in Admins, TeamEnds(a), UNCHANGED teamCalls,
           person' \in [People -> PersonRow],
           \A p \in People : person'[p].joined \/ person'[p] = NoPerson,
           \A p \in People : person[p].joined => person'[p].joined,
           invite' \in [People -> InviteRow]
    PROVE  TeamInv'
<1>1. TeamTypeOK'
  BY TeamEndsSound DEF TeamInv
<1>2. /\ teamCall' = [teamCall EXCEPT ![a] = [kind |-> "idle"]]
      /\ teamCall \in [Admins -> TeamCallOf]
  BY DEF TeamEnds, TeamInv, TeamTypeOK
<1>3. ASSUME NEW b \in Admins PROVE CallSound(teamCall[b])'
  <2>1. CASE b = a
    BY <1>2, <2>1 DEF CallSound
  <2>2. CASE b # a
    <3>1. teamCall'[b] = teamCall[b] /\ teamCall[b] \in TeamCallOf /\ CallSound(teamCall[b])
      BY <1>2, <2>2 DEF TeamInv
    <3>2. QED
      BY <3>1, CallsTyped DEF CallSound
  <2>3. QED
    BY <2>1, <2>2
<1>4. QED
  BY <1>1, <1>3 DEF TeamInv

LEMMA WriteMemberSound ==
    ASSUME TeamInv, NEW a \in Admins, WriteMember(a)
    PROVE  TeamInv'
<1> DEFINE call == teamCall[a]
           p == call.on
<1>1. /\ call \in TeamCallOf /\ call.kind \in {"role", "status"} /\ person[p].joined
      /\ TeamEnds(a) /\ UNCHANGED <<invite, teamCalls>>
  BY DEF WriteMember, TeamInv, TeamTypeOK, CallSound
<1>2. /\ p \in People
      /\ call.kind = "role" => call.role \in Roles
      /\ call.kind = "status" => call.active \in BOOLEAN
  BY <1>1, CallsTyped
<1> HIDE DEF call
<1>3. /\ person \in [People -> PersonRow] /\ invite \in [People -> InviteRow]
      /\ \A q \in People : person[q].joined \/ person[q] = NoPerson
  BY DEF TeamInv, TeamTypeOK
<1>4. PICK x \in PersonRow : x.joined /\ person' = [person EXCEPT ![p] = x]
  <2>1. CASE call.kind = "role"
    <3>1. \A x \in PersonRow : /\ [x EXCEPT !.role = call.role] \in PersonRow
                               /\ [x EXCEPT !.role = call.role].joined = x.joined
      BY <1>2, <2>1 DEF PersonRow
    <3>2. person' = [person EXCEPT ![p] = [person[p] EXCEPT !.role = call.role]]
      BY <2>1 DEF WriteMember, call
    <3>3. QED
      BY <1>1, <1>2, <1>3, <3>1, <3>2
  <2>2. CASE call.kind = "status"
    <3>1. \A x \in PersonRow : /\ [x EXCEPT !.active = call.active] \in PersonRow
                               /\ [x EXCEPT !.active = call.active].joined = x.joined
      BY <1>2, <2>2 DEF PersonRow
    <3>2. person' = [person EXCEPT ![p] = [person[p] EXCEPT !.active = call.active]]
      BY <2>2 DEF WriteMember, call
    <3>3. QED
      BY <1>1, <1>2, <1>3, <3>1, <3>2
  <2>3. QED
    BY <1>1, <2>1, <2>2
<1>5. /\ person' \in [People -> PersonRow]
      /\ \A q \in People : person'[q].joined \/ person'[q] = NoPerson
      /\ \A q \in People : person[q].joined => person'[q].joined
  BY <1>3, <1>4
<1>6. QED
  BY <1>1, <1>3, <1>5, TeamWriteSound

LEMMA WriteInviteSound ==
    ASSUME TeamInv, NEW a \in Admins, WriteInvite(a)
    PROVE  TeamInv'
<1> DEFINE call == teamCall[a]
           p == call.on
<1>1. /\ call \in TeamCallOf /\ call.kind \in {"invite", "revoke"}
      /\ TeamEnds(a) /\ UNCHANGED <<person, teamCalls>>
  BY DEF WriteInvite, TeamInv, TeamTypeOK
<1>2. p \in People /\ (call.kind = "invite" => call.role \in Roles)
  BY <1>1, CallsTyped
<1> HIDE DEF call
<1>3. /\ person \in [People -> PersonRow] /\ invite \in [People -> InviteRow]
      /\ \A q \in People : person[q].joined \/ person[q] = NoPerson
  BY DEF TeamInv, TeamTypeOK
<1>4. PICK x \in InviteRow : invite' = [invite EXCEPT ![p] = x]
  <2>1. CASE call.kind = "revoke"
    <3>1. \A x \in InviteRow : [x EXCEPT !.status = "revoked"] \in InviteRow
      BY DEF InviteRow
    <3>2. invite' = [invite EXCEPT ![p] = [invite[p] EXCEPT !.status = "revoked"]]
      BY <2>1 DEF WriteInvite, call
    <3>3. QED
      BY <1>2, <1>3, <3>1, <3>2
  <2>2. CASE call.kind = "invite"
    <3>1. [status |-> "pending", role |-> call.role, late |-> FALSE] \in InviteRow
      BY <1>2, <2>2 DEF InviteRow
    <3>2. QED
      BY <2>2, <3>1 DEF WriteInvite, call
  <2>3. QED
    BY <1>1, <2>1, <2>2
<1>5. invite' \in [People -> InviteRow]
  BY <1>3, <1>4
<1>6. QED
  BY <1>1, <1>3, <1>5, TeamWriteSound

LEMMA WriteUserSound ==
    ASSUME TeamInv, NEW a \in Admins, WriteUser(a)
    PROVE  TeamInv'
<1> DEFINE call == teamCall[a]
           p == call.on
           x == [role |-> call.role, active |-> TRUE, joined |-> TRUE]
<1>1. /\ call \in TeamCallOf /\ call.kind \in {"create", "accept"}
      /\ TeamEnds(a) /\ UNCHANGED teamCalls
  BY DEF WriteUser, TeamInv, TeamTypeOK
<1>2. p \in People /\ call.role \in Roles
  BY <1>1, CallsTyped
<1> HIDE DEF call
<1>3. /\ person \in [People -> PersonRow] /\ invite \in [People -> InviteRow]
      /\ \A q \in People : person[q].joined \/ person[q] = NoPerson
  BY DEF TeamInv, TeamTypeOK
<1>4. x \in PersonRow /\ x.joined
  BY <1>2 DEF PersonRow
<1> HIDE DEF x
<1>5. /\ person' \in [People -> PersonRow]
      /\ \A q \in People : person'[q].joined \/ person'[q] = NoPerson
      /\ \A q \in People : person[q].joined => person'[q].joined
  <2>1. person' = person \/ person' = [person EXCEPT ![p] = x]
    BY DEF WriteUser, x, call
  <2>2. QED
    BY <1>2, <1>3, <1>4, <2>1
<1>6. invite' \in [People -> InviteRow]
  <2>1. \A y \in InviteRow : [y EXCEPT !.status = "accepted"] \in InviteRow
    BY DEF InviteRow
  <2>2. \/ invite' = invite
        \/ invite' = [invite EXCEPT ![p] = [invite[p] EXCEPT !.status = "accepted"]]
    BY DEF WriteUser, call
  <2>3. QED
    BY <1>2, <1>3, <2>1, <2>2
<1>7. QED
  BY <1>1, <1>5, <1>6, TeamWriteSound

LEMMA InviteLapsesSound ==
    ASSUME TeamInv, NEW p \in People, InviteLapses(p)
    PROVE  TeamInv'
<1>1. UNCHANGED <<person, teamCall, teamCalls>> /\ invite \in [People -> InviteRow]
  BY DEF InviteLapses, TeamInv, TeamTypeOK
<1>2. \A x \in InviteRow : /\ [x EXCEPT !.late = TRUE] \in InviteRow
                           /\ [x EXCEPT !.status = "expired"] \in InviteRow
                           /\ [x EXCEPT !.status = "revoked"] \in InviteRow
  BY DEF InviteRow
<1>3. \/ invite' = [invite EXCEPT ![p] = [invite[p] EXCEPT !.late = TRUE]]
      \/ invite' = [invite EXCEPT ![p] = [invite[p] EXCEPT !.status = "expired"]]
      \/ invite' = [invite EXCEPT ![p] = [invite[p] EXCEPT !.status = "revoked"]]
  BY DEF InviteLapses
<1>4. invite' \in [People -> InviteRow]
  <2>1. invite[p] \in InviteRow
    BY <1>1
  <2>2. PICK x \in InviteRow : invite' = [invite EXCEPT ![p] = x]
    BY <1>2, <1>3, <2>1, Zenon
  <2>3. QED
    BY <1>1, <2>2
<1>5. QED
  BY <1>1, <1>4 DEF TeamInv, TeamTypeOK, CallSound

LEMMA TeamChecksSound ==
    ASSUME TeamInv, NEW a \in Admins, NEW actor \in People, NEW p \in People,
           \/ \E role \in Roles : \/ ChangeRole(a, actor, p, role)
                                  \/ CreateUser(a, actor, p, role)
                                  \/ CreateInvite(a, actor, p, role)
           \/ ChangeStatus(a, actor, p) \/ RevokeInvite(a, actor, p) \/ LookupInvite(a, p)
    PROVE  TeamInv'
<1>1. person[p].active \in BOOLEAN /\ invite[p].role \in Roles
  BY DEF TeamInv, TeamTypeOK, PersonRow, InviteRow
<1>2. ASSUME NEW role \in Roles
      PROVE  /\ [kind |-> "role", on |-> p, role |-> role] \in TeamCallOf
             /\ [kind |-> "create", on |-> p, role |-> role] \in TeamCallOf
             /\ [kind |-> "accept", on |-> p, role |-> role] \in TeamCallOf
             /\ [kind |-> "invite", on |-> p, role |-> role] \in TeamCallOf
  BY DEF TeamCallOf
<1>3. ASSUME NEW active \in BOOLEAN
      PROVE  /\ [kind |-> "status", on |-> p, active |-> active] \in TeamCallOf
             /\ [kind |-> "revoke", on |-> p] \in TeamCallOf
  BY DEF TeamCallOf
<1>4. ASSUME NEW role \in Roles, ChangeRole(a, actor, p, role) PROVE TeamInv'
  BY <1>2, <1>4, TeamCallSound DEF ChangeRole, CallSound
<1>5. ASSUME NEW role \in Roles, CreateUser(a, actor, p, role) PROVE TeamInv'
  BY <1>2, <1>5, TeamCallSound DEF CreateUser, CallSound
<1>6. ASSUME NEW role \in Roles, CreateInvite(a, actor, p, role) PROVE TeamInv'
  BY <1>2, <1>6, TeamCallSound DEF CreateInvite, CallSound
<1>7. CASE ChangeStatus(a, actor, p)
  <2> DEFINE active == ~person[p].active
  <2>1. active \in BOOLEAN
    BY Zenon
  <2>2. [kind |-> "status", on |-> p, active |-> active] \in TeamCallOf
    BY <1>3, <2>1
  <2>3. QED
    BY <1>7, <2>2, TeamCallSound DEF ChangeStatus, CallSound
<1>8. CASE RevokeInvite(a, actor, p)
  BY <1>3, <1>8, TeamCallSound DEF RevokeInvite, CallSound
<1>9. CASE LookupInvite(a, p)
  <2> DEFINE call == [kind |-> "accept", on |-> p, role |-> invite[p].role]
  <2>1. call \in TeamCallOf /\ call.kind = "accept"
    BY <1>1, <1>2
  <2>2. TeamBegins(a, call)
    BY <1>9 DEF LookupInvite
  <2> HIDE DEF call
  <2>3. QED
    BY <2>1, <2>2, TeamCallSound DEF CallSound
<1>10. QED
  BY <1>4, <1>5, <1>6, <1>7, <1>8, <1>9

LEMMA TeamStep ==
    ASSUME TeamInv, [TeamNext]_teamVars
    PROVE  TeamInv'
<1>1. CASE UNCHANGED teamVars
  BY <1>1 DEF teamVars, TeamInv, TeamTypeOK, CallSound
<1>2. CASE TeamNext
  BY <1>2, TeamChecksSound, WriteMemberSound, WriteInviteSound, WriteUserSound, InviteLapsesSound
     DEF TeamNext
<1>3. QED
  BY <1>1, <1>2

LEMMA TeamInitially == TeamInit => TeamInv
<1> SUFFICES ASSUME TeamInit PROVE TeamInv
  OBVIOUS
<1>1. NoPerson \in PersonRow /\ [role |-> "owner", active |-> TRUE, joined |-> TRUE] \in PersonRow
  BY DEF NoPerson, PersonRow, Roles
<1>2. [status |-> "none", role |-> "viewer", late |-> FALSE] \in InviteRow
  BY DEF InviteRow, Roles
<1>3. [kind |-> "idle"] \in TeamCallOf /\ 0 \in 0..MaxTeamCalls
  BY TeamAssumption DEF TeamCallOf
<1>4. QED
  BY <1>1, <1>2, <1>3 DEF TeamInit, TeamInv, TeamTypeOK, CallSound

-----------------------------------------------------------------------------
(* The task board.                                                         *)

Columns == {"status", "due_at", "reminder_at", "completed_at", "recurs"}

\* What a request has changed has the type of its column.
EditTyped(d) ==
    /\ DOMAIN d \subseteq Columns
    /\ "status" \in DOMAIN d => d["status"] \in OpenTask \cup {"completed", "cancelled"}
    /\ "due_at" \in DOMAIN d => d["due_at"] \in CalendarTimes \cup {NoTime}
    /\ "reminder_at" \in DOMAIN d => d["reminder_at"] \in CalendarTimes \cup {NoTime}
    /\ "completed_at" \in DOMAIN d => d["completed_at"] \in BOOLEAN
    /\ "recurs" \in DOMAIN d => d["recurs"] \in Frequencies \cup {"never"}

\* A request that completes the task also sets the time, and one that takes the
\* time back also opens the task: it has read both from one row.
EditSound(d) ==
    /\ EditTyped(d)
    /\ "status" \in DOMAIN d /\ d["status"] = "completed"
          => "completed_at" \in DOMAIN d /\ d["completed_at"]
    /\ "completed_at" \in DOMAIN d /\ ~d["completed_at"]
          => "status" \in DOMAIN d /\ d["status"] # "completed"

TaskInv ==
    /\ task \in TaskColumns /\ Consistent(task) /\ CompletedHasTime
    /\ DOMAIN edit = Editors /\ \A e \in Editors : EditSound(edit[e])

LEMMA RowColumns ==
    ASSUME NEW row \in TaskColumns
    PROVE  /\ DOMAIN row = Columns
           /\ row["status"] = row.status /\ row["due_at"] = row.due_at
           /\ row["reminder_at"] = row.reminder_at /\ row["recurs"] = row.recurs
           /\ row["completed_at"] = row.completed_at
BY DEF TaskColumns, Columns

\* A row column by column.
LEMMA RowOfColumns ==
    ASSUME NEW row, DOMAIN row = Columns, row = [c \in Columns |-> row[c]],
           row["status"] \in OpenTask \cup {"completed", "cancelled"},
           row["due_at"] \in CalendarTimes \cup {NoTime},
           row["reminder_at"] \in CalendarTimes \cup {NoTime},
           row["completed_at"] \in BOOLEAN, row["recurs"] \in Frequencies \cup {"never"}
    PROVE  row \in TaskColumns
BY DEF TaskColumns, Columns

\* The row a commit would write.
LEMMA EditedRow ==
    ASSUME task \in TaskColumns, NEW d, EditTyped(d)
    PROVE  /\ Edited(d) \in TaskColumns
           /\ \A c \in Columns : Edited(d)[c] = IF c \in DOMAIN d THEN d[c] ELSE task[c]
<1> DEFINE row == [c \in Columns |-> IF c \in DOMAIN d THEN d[c] ELSE task[c]]
<1>1. Edited(d) = row
  BY RowColumns DEF Edited
<1>2. /\ task["status"] \in OpenTask \cup {"completed", "cancelled"}
      /\ task["due_at"] \in CalendarTimes \cup {NoTime}
      /\ task["reminder_at"] \in CalendarTimes \cup {NoTime}
      /\ task["completed_at"] \in BOOLEAN /\ task["recurs"] \in Frequencies \cup {"never"}
  BY DEF TaskColumns
<1>3. /\ DOMAIN row = Columns /\ row = [c \in Columns |-> row[c]]
      /\ \A c \in Columns : row[c] = IF c \in DOMAIN d THEN d[c] ELSE task[c]
  OBVIOUS
<1>4. {"status", "due_at", "reminder_at", "completed_at", "recurs"} \subseteq Columns
  BY DEF Columns
<1> HIDE DEF row
<1>5. /\ row["status"] \in OpenTask \cup {"completed", "cancelled"}
      /\ row["due_at"] \in CalendarTimes \cup {NoTime}
      /\ row["reminder_at"] \in CalendarTimes \cup {NoTime}
      /\ row["completed_at"] \in BOOLEAN /\ row["recurs"] \in Frequencies \cup {"never"}
  BY <1>2, <1>3, <1>4 DEF EditTyped
<1>6. row \in TaskColumns
  BY <1>3, <1>5, RowOfColumns
<1>7. QED
  BY <1>1, <1>3, <1>6

LEMMA BeginsSound ==
    ASSUME TaskInv, NEW e \in Editors, NEW row \in TaskColumns,
           row.status = "completed" => row.completed_at, Begins(e, row)
    PROVE  TaskInv'
<1> DEFINE d == [c \in {x \in DOMAIN task : row[x] # task[x]} |-> row[c]]
<1>1. edit' = [edit EXCEPT ![e] = d] /\ UNCHANGED task
  BY DEF Begins
<1>2. /\ DOMAIN d \subseteq Columns
      /\ \A c \in Columns : c \in DOMAIN d <=> row[c] # task[c]
      /\ \A c \in DOMAIN d : d[c] = row[c]
  BY RowColumns DEF TaskInv
<1> HIDE DEF d
<1>3. /\ row["status"] \in OpenTask \cup {"completed", "cancelled"}
      /\ row["due_at"] \in CalendarTimes \cup {NoTime}
      /\ row["reminder_at"] \in CalendarTimes \cup {NoTime}
      /\ row["completed_at"] \in BOOLEAN /\ row["recurs"] \in Frequencies \cup {"never"}
  BY DEF TaskColumns
<1>4. EditTyped(d)
  BY <1>2, <1>3 DEF EditTyped
<1>5. /\ row["status"] = "completed" => row["completed_at"]
      /\ task["status"] = "completed" <=> task["completed_at"]
      /\ row["completed_at"] \in BOOLEAN /\ task["completed_at"] \in BOOLEAN
  BY <1>3, RowColumns DEF TaskInv, Consistent, CompletedHasTime, TaskColumns
<1>6. "status" \in Columns /\ "completed_at" \in Columns
  BY DEF Columns
<1>7. EditSound(d)
  BY <1>2, <1>4, <1>5, <1>6 DEF EditSound
<1>8. \A x \in Editors : EditSound(edit'[x])
  BY <1>1, <1>7 DEF TaskInv
<1>9. DOMAIN edit' = Editors
  BY <1>1 DEF TaskInv
<1>10. QED
  BY <1>1, <1>8, <1>9 DEF TaskInv, Consistent, CompletedHasTime

LEMMA NoEditSound == EditSound(NoEdit)
<1>1. DOMAIN NoEdit = {}
  BY DEF NoEdit
<1>2. QED
  BY <1>1 DEF EditSound, EditTyped

LEMMA CommitEditSound ==
    ASSUME TaskInv, NEW e \in Editors, CommitEdit(e)
    PROVE  TaskInv'
<1> DEFINE d == edit[e]
           row == Edited(d)
<1>1. /\ edit' = [edit EXCEPT ![e] = NoEdit]
      /\ task' = task \/ (Consistent(row) /\ task' = row)
      /\ EditSound(d) /\ EditTyped(d)
  BY DEF CommitEdit, TaskInv, EditSound
<1> HIDE DEF d
<1>2. DOMAIN edit' = Editors /\ \A x \in Editors : EditSound(edit'[x])
  BY <1>1, NoEditSound DEF TaskInv
<1>3. /\ row \in TaskColumns
      /\ \A c \in Columns : row[c] = IF c \in DOMAIN d THEN d[c] ELSE task[c]
  BY <1>1, EditedRow DEF TaskInv
<1>4. "status" \in Columns /\ "completed_at" \in Columns
  BY DEF Columns
<1> HIDE DEF row
<1>5. row["status"] = "completed" => row["completed_at"]
  <2>1. task["status"] = "completed" => task["completed_at"]
    BY RowColumns DEF TaskInv, CompletedHasTime
  <2>2. QED
    BY <1>1, <1>3, <1>4, <2>1 DEF EditSound
<1>6. row.status = "completed" => row.completed_at
  BY <1>3, <1>5, RowColumns
<1>7. task' \in TaskColumns /\ Consistent(task') /\ CompletedHasTime'
  BY <1>1, <1>3, <1>6 DEF TaskInv, CompletedHasTime, Consistent
<1>8. QED
  BY <1>2, <1>7 DEF TaskInv, Consistent, CompletedHasTime

\* The next occurrence is a time of the calendar.
LEMMA NextTime ==
    ASSUME NEW t \in CalendarTimes \cup {NoTime}, NEW recurs \in Frequencies, Advances(t, recurs)
    PROVE  AdvanceTime(t, recurs) \in CalendarTimes \cup {NoTime}
<1>1. CASE t = NoTime
  BY <1>1 DEF AdvanceTime
<1>2. CASE t # NoTime
  <2>1. /\ t \in {1, 2} \X (1..LongMonth) \X Hours
        /\ t[1] \in {1, 2} /\ t[2] \in 1..LongMonth /\ t[3] \in Hours
        /\ t[2] <= MonthDays[t[1]]
        /\ DOMAIN MonthDays = {1, 2} /\ Len(MonthDays) = 2
        /\ MonthDays[1] = LongMonth /\ MonthDays[2] = ShortMonth
        /\ LongMonth \in Nat /\ ShortMonth \in 1..LongMonth
    BY <1>2, TaskAssumption DEF CalendarTimes, MonthDays
  <2>2. ASSUME NEW m \in {1, 2}, NEW d \in 1..LongMonth, NEW h \in Hours, d <= MonthDays[m]
        PROVE  <<m, d, h>> \in CalendarTimes
    BY <2>1, <2>2 DEF CalendarTimes
  <2>3. t[1] = 1 \/ (recurs = "daily" /\ t[2] < MonthDays[t[1]])
    BY <1>2, <2>1 DEF Advances
  <2>4. CASE recurs = "daily"
    <3>1. CASE t[2] < MonthDays[t[1]]
      <4>1. t[2] + 1 \in 1..LongMonth /\ t[2] + 1 <= MonthDays[t[1]]
        BY <2>1, <3>1
      <4>2. <<t[1], t[2] + 1, t[3]>> \in CalendarTimes
        BY <2>1, <2>2, <4>1
      <4>3. QED
        BY <1>2, <2>4, <3>1, <4>2 DEF AdvanceTime, NextDay
    <3>2. CASE ~(t[2] < MonthDays[t[1]])
      <4>1. t[1] = 1 /\ 1 \in 1..LongMonth /\ 1 <= MonthDays[2]
        BY <2>1, <2>3, <3>2
      <4>2. <<2, 1, t[3]>> \in CalendarTimes
        BY <2>1, <2>2, <4>1
      <4>3. QED
        BY <1>2, <2>4, <3>2, <4>1, <4>2 DEF AdvanceTime, NextDay
    <3>3. QED
      BY <3>1, <3>2
  <2>5. CASE recurs # "daily"
    <3> DEFINE d == IF t[2] <= MonthDays[2] THEN t[2] ELSE MonthDays[2]
    <3>1. t[1] = 1 /\ d \in 1..LongMonth /\ d <= MonthDays[2]
      BY <2>1, <2>3, <2>5
    <3>2. <<2, d, t[3]>> \in CalendarTimes
      BY <2>1, <2>2, <3>1
    <3>3. QED
      BY <1>2, <2>5, <3>1, <3>2 DEF AdvanceTime, NextMonth
  <2>6. QED
    BY <2>4, <2>5
<1>3. QED
  BY <1>1, <1>2

LEMMA FinalizedSound ==
    ASSUME NEW row \in TaskColumns,
           row.recurs # "never" => \A t \in {row.due_at, row.reminder_at} : Advances(t, row.recurs)
    PROVE  /\ Finalized(row) \in TaskColumns
           /\ Finalized(row).status = "completed" => Finalized(row).completed_at
<1>1. CASE row.recurs = "never"
  BY <1>1 DEF Finalized, TaskColumns
<1>2. CASE row.recurs # "never"
  <2> DEFINE due == AdvanceTime(row.due_at, row.recurs)
             reminder == AdvanceTime(row.reminder_at, row.recurs)
  <2>1. /\ row.due_at \in CalendarTimes \cup {NoTime}
        /\ row.reminder_at \in CalendarTimes \cup {NoTime} /\ row.recurs \in Frequencies
    BY <1>2 DEF TaskColumns
  <2>2. due \in CalendarTimes \cup {NoTime} /\ reminder \in CalendarTimes \cup {NoTime}
    BY <1>2, <2>1, NextTime
  <2>3. Finalized(row) = [row EXCEPT !.status = "todo", !.completed_at = FALSE,
                                     !.due_at = due, !.reminder_at = reminder]
    BY <1>2 DEF Finalized, TaskColumns
  <2> HIDE DEF due, reminder
  <2>4. [row EXCEPT !.status = "todo", !.completed_at = FALSE,
                    !.due_at = due, !.reminder_at = reminder] \in TaskColumns
    BY <2>2 DEF TaskColumns, OpenTask
  <2>5. Finalized(row).status = "todo"
    BY <2>3 DEF TaskColumns
  <2>6. QED
    BY <2>3, <2>4, <2>5
<1>3. QED
  BY <1>1, <1>2

LEMMA ReopenedSound ==
    ASSUME NEW row \in TaskColumns, NEW status \in OpenTask \cup {"completed", "cancelled"},
           status = "completed" => row.completed_at
    PROVE  /\ Reopened(row, status) \in TaskColumns
           /\ Reopened(row, status).status = "completed" => Reopened(row, status).completed_at
<1> DEFINE kept == row.completed_at /\ status \notin OpenTask
<1>1. kept \in BOOLEAN /\ (status = "completed" => kept)
  BY DEF TaskColumns, OpenTask
<1>2. Reopened(row, status) = [row EXCEPT !.status = status, !.completed_at = kept]
  BY DEF Reopened, TaskColumns
<1> HIDE DEF kept
<1>3. LET x == [row EXCEPT !.status = status, !.completed_at = kept]
      IN  x \in TaskColumns /\ x.status = status /\ x.completed_at = kept
  BY <1>1 DEF TaskColumns
<1>4. QED
  BY <1>1, <1>2, <1>3

LEMMA CompletesSound ==
    ASSUME TaskInv, NEW e \in Editors, NEW row \in TaskColumns, Completes(e, row)
    PROVE  TaskInv'
<1>1. /\ Finalized(row) \in TaskColumns
      /\ Finalized(row).status = "completed" => Finalized(row).completed_at
  BY FinalizedSound DEF Completes
<1>2. Begins(e, Finalized(row))
  BY DEF Completes
<1>3. QED
  BY <1>1, <1>2, BeginsSound

LEMMA UpdateTaskSound ==
    ASSUME TaskInv, NEW e \in Editors, NEW due \in CalendarTimes \cup {NoTime},
           NEW reminder \in CalendarTimes \cup {NoTime}, NEW recurs \in Frequencies \cup {"never"},
           NEW status \in OpenTask \cup {"completed", "cancelled", "same"},
           UpdateTask(e, due, reminder, recurs, status)
    PROVE  TaskInv'
<1> DEFINE a == IF due = NoTime THEN task.due_at ELSE due
           b == IF reminder = NoTime THEN task.reminder_at ELSE reminder
           c == IF recurs = "never" THEN task.recurs ELSE recurs
           row == [task EXCEPT !.due_at = IF due = NoTime THEN @ ELSE due,
                               !.reminder_at = IF reminder = NoTime THEN @ ELSE reminder,
                               !.recurs = IF recurs = "never" THEN @ ELSE recurs]
<1>1. /\ status = "completed" => Completes(e, row)
      /\ status = "same" => Begins(e, Reopened(row, task.status))
      /\ status \notin {"completed", "same"} => Begins(e, Reopened(row, status))
  BY DEF UpdateTask
<1>2. /\ task \in TaskColumns /\ (task.status = "completed" => task.completed_at)
      /\ task.status \in OpenTask \cup {"completed", "cancelled"}
  BY DEF TaskInv, CompletedHasTime, TaskColumns
<1>3. /\ a \in CalendarTimes \cup {NoTime} /\ b \in CalendarTimes \cup {NoTime}
      /\ c \in Frequencies \cup {"never"}
  BY <1>2 DEF TaskColumns
<1>4. row = [task EXCEPT !.due_at = a, !.reminder_at = b, !.recurs = c]
  BY <1>2 DEF TaskColumns
<1> HIDE DEF a, b, c, row
<1>5. row \in TaskColumns /\ row.completed_at = task.completed_at
  BY <1>2, <1>3, <1>4 DEF TaskColumns
<1>6. CASE status = "completed"
  BY <1>1, <1>5, <1>6, CompletesSound
<1>7. CASE status = "same"
  <2>1. /\ Reopened(row, task.status) \in TaskColumns
        /\ Reopened(row, task.status).status = "completed"
              => Reopened(row, task.status).completed_at
    BY <1>2, <1>5, ReopenedSound
  <2>2. QED
    BY <1>1, <1>7, <2>1, BeginsSound
<1>8. CASE status \notin {"completed", "same"}
  <2>1. /\ Reopened(row, status) \in TaskColumns
        /\ Reopened(row, status).status = "completed" => Reopened(row, status).completed_at
    BY <1>5, <1>8, ReopenedSound
  <2>2. QED
    BY <1>1, <1>8, <2>1, BeginsSound
<1>9. QED
  BY <1>6, <1>7, <1>8

LEMMA NewTaskTyped ==
    ASSUME NEW due \in CalendarTimes \cup {NoTime}, NEW reminder \in CalendarTimes \cup {NoTime}
    PROVE  /\ NewTask(due, reminder) \in TaskColumns
           /\ NewTask(due, reminder).status = "todo" /\ ~NewTask(due, reminder).completed_at
BY DEF NewTask, TaskColumns, OpenTask

LEMMA CreateTaskSound ==
    ASSUME TaskInv, NEW due \in CalendarTimes \cup {NoTime},
           NEW reminder \in CalendarTimes \cup {NoTime}, NEW recurs \in Frequencies \cup {"never"},
           CreateTask(due, reminder, recurs)
    PROVE  TaskInv'
<1> DEFINE new == NewTask(due, reminder)
<1>1. task' = [new EXCEPT !.recurs = recurs] /\ UNCHANGED edit
  BY DEF CreateTask
<1>2. new \in TaskColumns /\ new.status = "todo" /\ ~new.completed_at
  BY NewTaskTyped
<1> HIDE DEF new
<1>3. task' \in TaskColumns /\ task'.status = "todo" /\ ~task'.completed_at
  BY <1>1, <1>2 DEF TaskColumns
<1>4. QED
  BY <1>1, <1>3 DEF TaskInv, Consistent, CompletedHasTime

LEMMA TaskStep ==
    ASSUME TaskInv, [TaskNext]_taskVars
    PROVE  TaskInv'
<1>1. CASE UNCHANGED taskVars
  BY <1>1 DEF taskVars, TaskInv, Consistent, CompletedHasTime
<1>2. ASSUME NEW e \in Editors, CompleteTask(e) PROVE TaskInv'
  BY <1>2, CompletesSound DEF CompleteTask, TaskInv
<1>3. CASE TaskNext
  BY <1>2, <1>3, UpdateTaskSound, CreateTaskSound, CommitEditSound DEF TaskNext
<1>4. QED
  BY <1>1, <1>3

LEMMA TaskInitially == TaskInit => TaskInv
<1> SUFFICES ASSUME TaskInit PROVE TaskInv
  OBVIOUS
<1>1. task \in TaskColumns /\ task.status = "todo" /\ ~task.completed_at
  BY NewTaskTyped DEF TaskInit
<1>2. QED
  BY <1>1, NoEditSound DEF TaskInit, TaskInv, Consistent, CompletedHasTime

LEMMA TaskTypes == TaskInv => TaskTypeOK /\ CompletedHasTime
<1> SUFFICES ASSUME TaskInv PROVE TaskTypeOK /\ CompletedHasTime
  OBVIOUS
<1>1. ASSUME NEW e \in Editors
      PROVE  DOMAIN edit[e] \subseteq DOMAIN task /\ Edited(edit[e]) \in TaskColumns
  BY EditedRow, RowColumns DEF TaskInv, EditSound, EditTyped
<1>2. QED
  BY <1>1 DEF TaskInv, TaskTypeOK

\* Requests of any number of members, each of which commits the columns it has
\* changed of the row it has read: complete() sets the status and the time
\* together, and whoever takes the time back opens the task in the same commit.
THEOREM ClosedTasksSayWhen == TaskSpec => []TaskTypeOK /\ []CompletedHasTime
BY TaskInitially, TaskStep, TaskTypes, PTL DEF TaskSpec

-----------------------------------------------------------------------------
(* Workflow rows and the step engine.                                      *)

\* A set of numbers that is not empty has a least element.
LEMMA LeastNumber ==
    ASSUME NEW T \in SUBSET Nat, T # {}
    PROVE  \E x \in T : \A y \in T : x <= y
<1> DEFINE R == {ss \in Nat \X Nat : ss[1] < ss[2]}
<1>1. IsWellFoundedOn(R, Nat)
  BY NatLessThanWellFounded DEF OpToRel
<1>2. \E x \in T : \A y \in T : ~(<<y, x>> \in R)
  <2> HIDE DEF R
  <2>1. QED
    BY <1>1, WFMin
<1>3. PICK x \in T : \A y \in T : ~(<<y, x>> \in R)
  BY <1>2
<1>4. \A y \in T : ~(y < x)
  BY <1>3
<1>5. QED
  BY <1>4

Steps == {d \in Seq(StepOf) : Nested(d)}

WorkflowRow == [mode : {"builtin", "n8n"}, steps : Steps]

\* What a request gives of the row has the type of its columns.
PatchSound(g) ==
    /\ DOMAIN g \subseteq {"mode", "steps"}
    /\ "mode" \in DOMAIN g => g["mode"] \in {"builtin", "n8n"}
    /\ "steps" \in DOMAIN g => g["steps"] \in Steps

RowsSound ==
    workflow \in WorkflowRow /\ DOMAIN patch = Patchers /\ \A p \in Patchers : PatchSound(patch[p])

LEMMA NoStepsNested == <<>> \in Steps
BY DEF Steps, Nested

LEMMA DefinitionsAreSteps == Definitions \subseteq Steps
BY DEF Definitions, Steps, BoundedSeq, SeqOf

LEMMA RowFields ==
    ASSUME NEW row \in WorkflowRow
    PROVE  /\ DOMAIN row = {"mode", "steps"}
           /\ row["mode"] = row.mode /\ row["steps"] = row.steps
           /\ row.mode \in {"builtin", "n8n"} /\ row.steps \in Steps
BY DEF WorkflowRow

LEMMA RowOfFields ==
    ASSUME NEW row, row = [c \in {"mode", "steps"} |-> row[c]],
           row["mode"] \in {"builtin", "n8n"}, row["steps"] \in Steps
    PROVE  row \in WorkflowRow
BY DEF WorkflowRow

\* The row a commit would write.
LEMMA PatchedRow ==
    ASSUME workflow \in WorkflowRow, NEW g, PatchSound(g)
    PROVE  Patched(g) \in WorkflowRow
<1> DEFINE row == [c \in {"mode", "steps"} |-> IF c \in DOMAIN g THEN g[c] ELSE workflow[c]]
<1>1. Patched(g) = row
  BY RowFields DEF Patched
<1>2. row["mode"] \in {"builtin", "n8n"} /\ row["steps"] \in Steps
  BY RowFields DEF PatchSound
<1>3. row = [c \in {"mode", "steps"} |-> row[c]]
  OBVIOUS
<1> HIDE DEF row
<1>4. QED
  BY <1>1, <1>2, <1>3, RowOfFields

LEMMA UpdateRowSound ==
    ASSUME RowsSound, NEW p \in Patchers, NEW g, PatchSound(g), UpdateWorkflowRow(p, g)
    PROVE  RowsSound'
BY DEF RowsSound, UpdateWorkflowRow, PatchSound

LEMMA CommitPatchSound ==
    ASSUME RowsSound, NEW p \in Patchers, CommitPatch(p)
    PROVE  RowsSound'
<1>1. workflow' \in WorkflowRow
  BY PatchedRow DEF RowsSound, CommitPatch
<1>2. PatchSound(<<>>)
  BY DEF PatchSound
<1>3. QED
  BY <1>1, <1>2 DEF RowsSound, CommitPatch

LEMMA RowsStep ==
    ASSUME RowsSound, [EngineNext]_engineVars
    PROVE  RowsSound'
<1>1. CASE UNCHANGED <<workflow, patch>>
  BY <1>1 DEF RowsSound
<1>2. ASSUME NEW p \in Patchers, NEW mode \in {"builtin", "n8n"}, NEW steps \in {<<>>, workflow.steps},
             \/ UpdateWorkflowRow(p, [mode |-> mode])
             \/ UpdateWorkflowRow(p, [steps |-> steps])
             \/ UpdateWorkflowRow(p, [mode |-> mode, steps |-> steps])
      PROVE  RowsSound'
  <2>1. steps \in Steps
    BY NoStepsNested, RowFields DEF RowsSound
  <2>2. /\ PatchSound([mode |-> mode]) /\ PatchSound([steps |-> steps])
        /\ PatchSound([mode |-> mode, steps |-> steps])
    BY <2>1 DEF PatchSound
  <2>3. QED
    BY <1>2, <2>2, UpdateRowSound
<1>3. ASSUME NEW p \in Patchers, CommitPatch(p) PROVE RowsSound'
  BY <1>3, CommitPatchSound
<1>4. QED
  BY <1>1, <1>2, <1>3 DEF EngineNext, engineVars, BeginAdapter, TriggerWebhook, SkipStep,
     OverBudget, StepFails, PlainStep, StepBreaks, TooDeep, TakeBranch, EndCondition, ProduceResult

Event == {"started", "completed", "failed"} \X (Nat \ {0})

EngineRun == [at : {"idle", "running", "webhook", "succeeded", "failed", "limit", "error"},
              steps : Steps, next : Nat \ {0},
              open : Seq([step : Nat \ {0}, side : {"then", "else"}]),
              budget : 0..StepLimit, events : SUBSET Event]

\* The steps of the run e that its timeline shows with the event, and those
\* that are open conditions.
StepsWith(e, event) == {i \in Nat \ {0} : <<event, i>> \in e.events}
OpenSteps(e) == {e.open[n].step : n \in DOMAIN e.open}

\* A run that goes on has begun each step behind it at most once: the steps it
\* shows as started are those it shows as completed and the open conditions,
\* each inside the one before it.
RunningSound(e) ==
    /\ e.next \in 1..(Len(e.steps) + 1) /\ e.budget <= e.next - 1
    /\ StepsWith(e, "started") = StepsWith(e, "completed") \cup OpenSteps(e)
    /\ StepsWith(e, "failed") = {} /\ StepsWith(e, "completed") \cap OpenSteps(e) = {}
    /\ \A i \in StepsWith(e, "started") : i < e.next
    /\ \A m \in DOMAIN e.open : \A n \in DOMAIN e.open :
          m < n => e.open[m].step < e.open[n].step

EndedSound(e) ==
    /\ Accepted(e.steps) => e.at # "limit"
    /\ StepsWith(e, "completed") \cap StepsWith(e, "failed") = {}
    /\ e.at \in {"succeeded", "failed", "limit"} =>
          StepsWith(e, "started") = StepsWith(e, "completed") \cup StepsWith(e, "failed")
    /\ e.at = "succeeded" => StepsWith(e, "failed") = {}
    /\ \A i \in StepsWith(e, "started") : i \in DOMAIN e.steps

OpenSound(e) ==
    \A n \in DOMAIN e.open : /\ e.open[n].step \in DOMAIN e.steps
                             /\ e.steps[e.open[n].step].kind \in Conditions

RunSound(e) ==
    /\ e \in EngineRun /\ OpenSound(e)
    /\ e.at = "running" => RunningSound(e)
    /\ e.at = "webhook" => e.events = {}
    /\ e.at # "running" => EndedSound(e)

EngineInv == RowsSound /\ RunSound(engine)

\* The step in hand is a step of the definition.
LEMMA StepInHand ==
    ASSUME RunSound(engine), engine.next \in DOMAIN engine.steps
    PROVE  /\ InStep \in StepOf /\ engine.next \in 1..Len(engine.steps)
           /\ Len(engine.steps) \in Nat /\ engine.steps \in Seq(StepOf)
           /\ DOMAIN engine.steps = 1..Len(engine.steps)
BY DEF RunSound, EngineRun, Steps, InStep

\* What Begun says of the run.
LEMMA BegunRun ==
    ASSUME RunSound(engine), Runnable
    PROVE  /\ RunningSound(engine) /\ engine \in EngineRun /\ OpenSound(engine)
           /\ InStep \in StepOf /\ engine.next \in 1..Len(engine.steps)
           /\ Len(engine.steps) \in Nat /\ DOMAIN engine.steps = 1..Len(engine.steps)
           /\ engine.next \in Nat \ {0} /\ engine.budget \in 0..StepLimit /\ StepLimit \in Nat \ {0}
           /\ engine.at = "running"
BY StepInHand, EngineAssumption DEF RunSound, Runnable, EngineRun

\* A run that was accepted has not used its budget up where a step is left.
LEMMA BudgetLeft ==
    ASSUME RunSound(engine), Runnable, Accepted(engine.steps)
    PROVE  engine.budget < StepLimit
<1>1. Len(engine.steps) <= StepLimit
  BY DEF Accepted, Counted
<1>2. QED
  BY <1>1, BegunRun DEF RunningSound

\* The open conditions and the step in hand, if it is started, have failed.
LEMMA FailsSound ==
    ASSUME RunSound(engine), Runnable, NEW at \in {"failed", "limit"},
           NEW started \in {{}, {engine.next}}, NEW budget \in 0..StepLimit,
           at = "limit" => ~Accepted(engine.steps)
    PROVE  RunSound(Fails(at, started, budget))
<1> DEFINE failed == OpenSteps(engine) \cup started
           new == ({"started"} \X started) \cup ({"failed"} \X failed)
           events == engine.events \cup new
           e == Fails(at, started, budget)
<1>1. /\ RunningSound(engine) /\ engine \in EngineRun /\ OpenSound(engine)
      /\ engine.next \in DOMAIN engine.steps /\ engine.next \in Nat \ {0}
      /\ DOMAIN engine.steps = 1..Len(engine.steps) /\ Len(engine.steps) \in Nat
  BY BegunRun
<1>2. OpenSteps(engine) \subseteq Nat \ {0} /\ OpenSteps(engine) \subseteq DOMAIN engine.steps
  BY <1>1 DEF OpenSteps, OpenSound
<1>3. failed \subseteq Nat \ {0} /\ started \subseteq Nat \ {0} /\ started \subseteq DOMAIN engine.steps
  BY <1>1, <1>2
<1>4. events \in SUBSET Event
  BY <1>1, <1>3 DEF EngineRun, Event
<1>5. e = [engine EXCEPT !.at = at, !.budget = budget, !.events = events]
  BY DEF Fails, OpenSteps
<1> HIDE DEF e
<1>6. /\ \A i : <<"started", i>> \in events <=> (<<"started", i>> \in engine.events \/ i \in started)
      /\ \A i : <<"completed", i>> \in events <=> <<"completed", i>> \in engine.events
      /\ \A i : <<"failed", i>> \in events <=> (<<"failed", i>> \in engine.events \/ i \in failed)
  OBVIOUS
<1> HIDE DEF events
<1>7. /\ e \in EngineRun /\ e.at = at /\ e.budget = budget /\ e.events = events
      /\ e.steps = engine.steps /\ e.open = engine.open
  <2>1. \A x \in EngineRun :
           LET y == [x EXCEPT !.at = at, !.budget = budget, !.events = events]
           IN  /\ y \in EngineRun /\ y.at = at /\ y.budget = budget /\ y.events = events
               /\ y.steps = x.steps /\ y.open = x.open
    BY <1>4 DEF EngineRun
  <2>2. LET y == [engine EXCEPT !.at = at, !.budget = budget, !.events = events]
        IN  /\ y \in EngineRun /\ y.at = at /\ y.budget = budget /\ y.events = events
            /\ y.steps = engine.steps /\ y.open = engine.open
    BY <1>1, <2>1, Zenon
  <2>3. QED
    BY <1>5, <2>2, Zenon
<1>8. /\ StepsWith(e, "started") = StepsWith(engine, "started") \cup started
      /\ StepsWith(e, "completed") = StepsWith(engine, "completed")
      /\ StepsWith(e, "failed") = StepsWith(engine, "failed") \cup failed
  BY <1>3, <1>6, <1>7 DEF StepsWith
<1>9. /\ StepsWith(engine, "started") = StepsWith(engine, "completed") \cup OpenSteps(engine)
      /\ StepsWith(engine, "failed") = {}
      /\ StepsWith(engine, "completed") \cap OpenSteps(engine) = {}
      /\ \A i \in StepsWith(engine, "started") : i < engine.next /\ i \in Nat \ {0}
      /\ engine.next <= Len(engine.steps)
  BY <1>1 DEF RunningSound, StepsWith
<1>10. StepsWith(engine, "completed") \cap started = {}
  BY <1>1, <1>9
<1>11. \A i \in StepsWith(e, "started") : i \in DOMAIN e.steps
  BY <1>1, <1>3, <1>7, <1>8, <1>9
<1>12. EndedSound(e)
  BY <1>7, <1>8, <1>9, <1>10, <1>11 DEF EndedSound
<1>13. OpenSound(e)
  BY <1>1, <1>7 DEF OpenSound
<1>14. RunSound(e)
  BY <1>7, <1>12, <1>13 DEF RunSound
<1>15. QED
  BY <1>14 DEF e

\* The run that BeginAdapter starts, on a definition the row holds.
LEMMA BeginSound ==
    ASSUME RowsSound, BeginAdapter
    PROVE  RunSound(engine')
<1> DEFINE at == IF workflow.mode = "builtin" THEN "running" ELSE "webhook"
           steps == IF workflow.mode = "builtin" THEN workflow.steps ELSE <<>>
           e == [NoEngineRun EXCEPT !.at = at, !.steps = steps]
<1>1. steps \in Steps /\ at \in {"running", "webhook"}
  BY NoStepsNested, RowFields DEF RowsSound
<1> HIDE DEF at, steps
<1>2. NoEngineRun \in EngineRun /\ NoEngineRun.next = 1 /\ NoEngineRun.open = <<>>
      /\ NoEngineRun.budget = 0 /\ NoEngineRun.events = {}
  BY NoStepsNested, EngineAssumption DEF NoEngineRun, EngineRun
<1>3. e \in EngineRun /\ e.at = at /\ e.steps = steps /\ e.next = 1 /\ e.open = <<>>
      /\ e.budget = 0 /\ e.events = {}
  <2>1. \A x \in EngineRun :
           LET y == [x EXCEPT !.at = at, !.steps = steps]
           IN  /\ y \in EngineRun /\ y.at = at /\ y.steps = steps /\ y.next = x.next
               /\ y.open = x.open /\ y.budget = x.budget /\ y.events = x.events
    BY <1>1 DEF EngineRun
  <2>2. LET y == [NoEngineRun EXCEPT !.at = at, !.steps = steps]
        IN  /\ y \in EngineRun /\ y.at = at /\ y.steps = steps /\ y.next = NoEngineRun.next
            /\ y.open = NoEngineRun.open /\ y.budget = NoEngineRun.budget
            /\ y.events = NoEngineRun.events
    BY <1>2, <2>1, Zenon
  <2>3. QED
    BY <1>2, <2>2
<1>4. engine' = e
  BY DEF BeginAdapter, at, steps
<1> HIDE DEF e
<1>5. Len(steps) \in Nat
  BY <1>1 DEF Steps
<1>6. /\ OpenSteps(e) = {} /\ StepsWith(e, "started") = {}
      /\ StepsWith(e, "completed") = {} /\ StepsWith(e, "failed") = {}
  BY <1>3 DEF OpenSteps, StepsWith
<1>7. RunningSound(e)
  <2>1. e.next \in 1..(Len(e.steps) + 1) /\ e.budget <= e.next - 1
    BY <1>3, <1>5
  <2>2. DOMAIN e.open = {}
    BY <1>3
  <2>3. QED
    BY <1>6, <2>1, <2>2 DEF RunningSound
<1>8. OpenSound(e) /\ (e.at # "running" => EndedSound(e))
  <2>1. OpenSound(e)
    BY <1>3 DEF OpenSound
  <2>2. ASSUME at = "webhook" PROVE EndedSound(e)
    BY <1>3, <1>6, <2>2 DEF EndedSound
  <2>3. QED
    BY <1>1, <1>3, <2>1, <2>2
<1>9. RunSound(e)
  BY <1>1, <1>3, <1>7, <1>8 DEF RunSound
<1>10. QED
  BY <1>4, <1>9

\* An ending that changes nothing but where the run is.
LEMMA EndsSound ==
    ASSUME NEW x \in EngineRun, NEW at \in {"succeeded", "failed", "error"}
    PROVE  LET y == [x EXCEPT !.at = at]
           IN  /\ y \in EngineRun /\ y.at = at /\ y.steps = x.steps /\ y.next = x.next
               /\ y.open = x.open /\ y.budget = x.budget /\ y.events = x.events
BY DEF EngineRun

LEMMA WebhookSound ==
    ASSUME RunSound(engine), TriggerWebhook
    PROVE  RunSound(engine')
<1>1. PICK at \in {"succeeded", "failed", "error"} : engine' = [engine EXCEPT !.at = at]
  BY DEF TriggerWebhook
<1>2. engine.at = "webhook" /\ engine.events = {} /\ engine \in EngineRun /\ OpenSound(engine)
  BY DEF TriggerWebhook, RunSound
<1>3. /\ engine' \in EngineRun /\ engine'.at = at /\ engine'.steps = engine.steps
      /\ engine'.open = engine.open /\ engine'.events = engine.events
  BY <1>1, <1>2, EndsSound, Zenon
<1>4. EndedSound(engine') /\ OpenSound(engine')
  BY <1>2, <1>3 DEF EndedSound, OpenSound, StepsWith
<1>5. QED
  BY <1>3, <1>4 DEF RunSound

LEMMA ResultSound ==
    ASSUME RunSound(engine), ProduceResult
    PROVE  RunSound(engine')
<1>1. PICK at \in {"succeeded", "failed"} : engine' = [engine EXCEPT !.at = at]
  BY DEF ProduceResult
<1>2. /\ engine.at = "running" /\ engine.open = <<>> /\ engine.next > Len(engine.steps)
      /\ engine \in EngineRun /\ OpenSound(engine) /\ RunningSound(engine)
  BY DEF ProduceResult, RunSound
<1>3. /\ engine' \in EngineRun /\ engine'.at = at /\ engine'.steps = engine.steps
      /\ engine'.open = engine.open /\ engine'.events = engine.events
  <2>1. at \in {"succeeded", "failed", "error"}
    OBVIOUS
  <2>2. QED
    BY <1>1, <1>2, <2>1, EndsSound, Zenon
<1>4. OpenSteps(engine) = {}
  BY <1>2 DEF OpenSteps
<1>5. /\ StepsWith(engine, "started") = StepsWith(engine, "completed")
      /\ StepsWith(engine, "failed") = {}
      /\ \A i \in StepsWith(engine, "started") : i < engine.next
      /\ engine.next \in 1..(Len(engine.steps) + 1)
  BY <1>2, <1>4 DEF RunningSound
<1>6. \A i \in StepsWith(engine, "started") : i \in DOMAIN engine.steps
  BY <1>2, <1>5 DEF EngineRun, Steps, StepsWith
<1>7. \A event : StepsWith(engine', event) = StepsWith(engine, event)
  BY <1>3 DEF StepsWith
<1>8. EndedSound(engine') /\ OpenSound(engine')
  BY <1>2, <1>3, <1>5, <1>6, <1>7 DEF EndedSound, OpenSound
<1>9. QED
  BY <1>3, <1>8 DEF RunSound

LEMMA SkipSound ==
    ASSUME RunSound(engine), SkipStep
    PROVE  RunSound(engine')
<1> DEFINE beyond == {i \in (engine.next + 1)..Len(engine.steps) :
                         engine.steps[i].depth <= InStep.depth}
           next == IF beyond = {} THEN Len(engine.steps) + 1
                   ELSE CHOOSE i \in beyond : \A j \in beyond : i <= j
<1>1. /\ engine.at = "running" /\ engine.next \in DOMAIN engine.steps
      /\ engine \in EngineRun /\ OpenSound(engine) /\ RunningSound(engine)
  BY DEF SkipStep, Inside, RunSound
<1>2. engine.next \in 1..Len(engine.steps) /\ Len(engine.steps) \in Nat
  BY <1>1 DEF EngineRun, Steps
<1>3. next \in (engine.next + 1)..(Len(engine.steps) + 1)
  <2>1. CASE beyond = {}
    BY <1>2, <2>1
  <2>2. CASE beyond # {}
    <3>1. beyond \in SUBSET Nat
      BY <1>2
    <3>2. \E i \in beyond : \A j \in beyond : i <= j
      <4> HIDE DEF beyond
      <4>1. QED
        BY <2>2, <3>1, LeastNumber
    <3>3. next \in beyond
      BY <2>2, <3>2
    <3>4. beyond \subseteq (engine.next + 1)..(Len(engine.steps) + 1)
      BY <1>2
    <3>5. QED
      BY <3>3, <3>4, Zenon
  <2>3. QED
    BY <2>1, <2>2
<1>4. engine' = [engine EXCEPT !.next = next]
  BY DEF SkipStep
<1> HIDE DEF next
<1>5. /\ engine' \in EngineRun /\ engine'.at = "running" /\ engine'.steps = engine.steps
      /\ engine'.next = next /\ engine'.budget = engine.budget
      /\ engine'.open = engine.open /\ engine'.events = engine.events
  <2>1. next \in Nat \ {0}
    BY <1>2, <1>3
  <2>2. \A x \in EngineRun :
           LET y == [x EXCEPT !.next = next]
           IN  /\ y \in EngineRun /\ y.at = x.at /\ y.steps = x.steps /\ y.next = next
               /\ y.budget = x.budget /\ y.open = x.open /\ y.events = x.events
    BY <2>1 DEF EngineRun
  <2>3. LET y == [engine EXCEPT !.next = next]
        IN  /\ y \in EngineRun /\ y.at = engine.at /\ y.steps = engine.steps
            /\ y.next = next /\ y.budget = engine.budget /\ y.open = engine.open
            /\ y.events = engine.events
    BY <1>1, <2>2, Zenon
  <2>4. QED
    BY <1>1, <1>4, <2>3
<1>6. OpenSteps(engine') = OpenSteps(engine)
  BY <1>5 DEF OpenSteps
<1>7. \A event : StepsWith(engine', event) = StepsWith(engine, event)
  BY <1>5 DEF StepsWith
<1>8. engine'.budget <= next - 1
  BY <1>1, <1>2, <1>3, <1>5 DEF RunningSound, EngineRun
<1>9. \A i \in StepsWith(engine, "started") : i < next
  BY <1>1, <1>2, <1>3 DEF RunningSound, StepsWith
<1>10. RunningSound(engine')
  <2>1. next \in 1..(Len(engine.steps) + 1)
    BY <1>2, <1>3
  <2>2. QED
    BY <1>1, <1>5, <1>6, <1>7, <1>8, <1>9, <2>1 DEF RunningSound
<1>11. OpenSound(engine')
  BY <1>1, <1>5 DEF OpenSound
<1>12. QED
  BY <1>5, <1>10, <1>11 DEF RunSound

LEMMA PlainSound ==
    ASSUME RunSound(engine), PlainStep
    PROVE  RunSound(engine')
<1> DEFINE here == engine.next
           events == engine.events \cup ({"started", "completed"} \X {here})
           next == engine.next + 1
           budget == engine.budget + 1
<1>1. /\ RunningSound(engine) /\ engine \in EngineRun /\ OpenSound(engine)
      /\ here \in 1..Len(engine.steps) /\ Len(engine.steps) \in Nat
      /\ here \in Nat \ {0} /\ engine.budget \in 0..StepLimit /\ StepLimit \in Nat \ {0}
      /\ engine.budget < StepLimit /\ engine.at = "running"
  BY BegunRun DEF PlainStep, Begun
<1>2. events \in SUBSET Event
  BY <1>1 DEF EngineRun, Event
<1>3. /\ \A i : <<"started", i>> \in events <=> (<<"started", i>> \in engine.events \/ i = here)
      /\ \A i : <<"completed", i>> \in events
            <=> (<<"completed", i>> \in engine.events \/ i = here)
      /\ \A i : <<"failed", i>> \in events <=> <<"failed", i>> \in engine.events
  OBVIOUS
<1>4. /\ engine' = [engine EXCEPT !.next = next, !.budget = budget, !.events = events]
      /\ next \in Nat \ {0} /\ budget \in 0..StepLimit
  BY <1>1 DEF PlainStep
<1> HIDE DEF events, next, budget
<1>5. /\ engine' \in EngineRun /\ engine'.at = "running" /\ engine'.steps = engine.steps
      /\ engine'.next = here + 1 /\ engine'.budget = engine.budget + 1
      /\ engine'.open = engine.open /\ engine'.events = events
  <2>1. \A x \in EngineRun :
           LET y == [x EXCEPT !.next = next, !.budget = budget, !.events = events]
           IN  /\ y \in EngineRun /\ y.at = x.at /\ y.steps = x.steps /\ y.next = next
               /\ y.budget = budget /\ y.open = x.open /\ y.events = events
    BY <1>2, <1>4 DEF EngineRun
  <2>2. LET y == [engine EXCEPT !.next = next, !.budget = budget, !.events = events]
        IN  /\ y \in EngineRun /\ y.at = engine.at /\ y.steps = engine.steps
            /\ y.next = next /\ y.budget = budget
            /\ y.open = engine.open /\ y.events = events
    BY <1>1, <2>1, Zenon
  <2>3. QED
    BY <1>1, <1>4, <2>2 DEF next, budget
<1>6. /\ StepsWith(engine', "started") = StepsWith(engine, "started") \cup {here}
      /\ StepsWith(engine', "completed") = StepsWith(engine, "completed") \cup {here}
      /\ StepsWith(engine', "failed") = StepsWith(engine, "failed")
      /\ OpenSteps(engine') = OpenSteps(engine)
  BY <1>1, <1>3, <1>5 DEF StepsWith, OpenSteps
<1>7. /\ StepsWith(engine, "started") = StepsWith(engine, "completed") \cup OpenSteps(engine)
      /\ \A i \in StepsWith(engine, "started") : i < here /\ i \in Nat
  BY <1>1 DEF RunningSound, StepsWith
<1>8. here \notin OpenSteps(engine)
  BY <1>1, <1>7
<1>9. RunningSound(engine')
  <2>1. engine'.next \in 1..(Len(engine'.steps) + 1) /\ engine'.budget <= engine'.next - 1
    BY <1>1, <1>5 DEF RunningSound
  <2>2. \A i \in StepsWith(engine', "started") : i < engine'.next
    BY <1>1, <1>5, <1>6, <1>7
  <2>3. QED
    BY <1>1, <1>5, <1>6, <1>8, <2>1, <2>2 DEF RunningSound
<1>10. OpenSound(engine')
  BY <1>1, <1>5 DEF OpenSound
<1>11. QED
  BY <1>5, <1>9, <1>10 DEF RunSound

\* The step in hand is started, and the run is as it was or at its error.
LEMMA StartedRun ==
    ASSUME RunSound(engine), Begun
    PROVE  LET events == engine.events \cup {<<"started", engine.next>>}
               begun == [engine EXCEPT !.budget = @ + 1, !.events = events]
           IN  /\ begun \in EngineRun /\ begun.at = "running" /\ begun.steps = engine.steps
               /\ begun.next = engine.next /\ begun.open = engine.open
               /\ begun.budget = engine.budget + 1 /\ begun.events = events
<1> DEFINE events == engine.events \cup {<<"started", engine.next>>}
           budget == engine.budget + 1
<1>1. /\ engine \in EngineRun /\ engine.next \in Nat \ {0} /\ engine.at = "running"
      /\ engine.budget \in 0..StepLimit /\ engine.budget < StepLimit /\ StepLimit \in Nat
  BY BegunRun DEF Begun
<1>2. events \in SUBSET Event /\ budget \in 0..StepLimit
  BY <1>1 DEF EngineRun, Event
<1> HIDE DEF events, budget
<1>3. \A x \in EngineRun :
         LET y == [x EXCEPT !.budget = budget, !.events = events]
         IN  /\ y \in EngineRun /\ y.at = x.at /\ y.steps = x.steps /\ y.next = x.next
             /\ y.open = x.open /\ y.budget = budget /\ y.events = events
  BY <1>2 DEF EngineRun
<1>4. LET y == [engine EXCEPT !.budget = budget, !.events = events]
      IN  /\ y \in EngineRun /\ y.at = engine.at /\ y.steps = engine.steps
          /\ y.next = engine.next /\ y.open = engine.open
          /\ y.budget = budget /\ y.events = events
  BY <1>1, <1>3, Zenon
<1>5. LET y == [engine EXCEPT !.budget = budget, !.events = events]
      IN  /\ y \in EngineRun /\ y.at = "running" /\ y.steps = engine.steps
          /\ y.next = engine.next /\ y.open = engine.open
          /\ y.budget = budget /\ y.events = events
  BY <1>1, <1>4
<1>6. QED
  BY <1>5 DEF events, budget

\* A run that ends at an error, its step started and nothing else said.
LEMMA ErrorSound ==
    ASSUME RunSound(engine), Runnable, NEW e \in EngineRun, e.at = "error",
           e.steps = engine.steps, e.open = engine.open,
           e.events = engine.events \cup {<<"started", engine.next>>}
    PROVE  RunSound(e)
<1>1. /\ RunningSound(engine) /\ OpenSound(engine) /\ engine.next \in 1..Len(engine.steps)
      /\ DOMAIN engine.steps = 1..Len(engine.steps) /\ Len(engine.steps) \in Nat
  BY BegunRun
<1>2. /\ StepsWith(e, "started") = StepsWith(engine, "started") \cup {engine.next}
      /\ StepsWith(e, "completed") = StepsWith(engine, "completed")
      /\ StepsWith(e, "failed") = StepsWith(engine, "failed")
  BY <1>1 DEF StepsWith
<1>3. \A i \in StepsWith(engine, "started") : i < engine.next /\ i \in Nat \ {0}
  BY <1>1 DEF RunningSound, StepsWith
<1>4. \A i \in StepsWith(e, "started") : i \in DOMAIN e.steps
  BY <1>1, <1>2, <1>3
<1>5. StepsWith(e, "failed") = {}
  BY <1>1, <1>2 DEF RunningSound
<1>6. EndedSound(e)
  BY <1>4, <1>5 DEF EndedSound
<1>7. OpenSound(e)
  BY <1>1 DEF OpenSound
<1>8. QED
  BY <1>6, <1>7 DEF RunSound

LEMMA BreaksSound ==
    ASSUME RunSound(engine), StepBreaks
    PROVE  RunSound(engine')
<1> DEFINE events == engine.events \cup {<<"started", engine.next>>}
           budget == engine.budget + 1
<1>1. /\ engine \in EngineRun /\ engine.next \in Nat \ {0} /\ Runnable
      /\ engine.budget \in 0..StepLimit /\ engine.budget < StepLimit /\ StepLimit \in Nat
      /\ engine' = [engine EXCEPT !.at = "error", !.budget = budget, !.events = events]
  BY BegunRun DEF StepBreaks, Begun
<1>2. events \in SUBSET Event /\ budget \in 0..StepLimit
  BY <1>1 DEF EngineRun, Event
<1> HIDE DEF events, budget
<1>3. \A x \in EngineRun :
         LET y == [x EXCEPT !.at = "error", !.budget = budget, !.events = events]
         IN  /\ y \in EngineRun /\ y.at = "error" /\ y.steps = x.steps
             /\ y.open = x.open /\ y.events = events
  BY <1>2 DEF EngineRun
<1>4. LET y == [engine EXCEPT !.at = "error", !.budget = budget, !.events = events]
      IN  /\ y \in EngineRun /\ y.at = "error" /\ y.steps = engine.steps
          /\ y.open = engine.open /\ y.events = events
  BY <1>1, <1>3, Zenon
<1>5. /\ engine' \in EngineRun /\ engine'.at = "error" /\ engine'.steps = engine.steps
      /\ engine'.open = engine.open /\ engine'.events = events
  BY <1>1, <1>4
<1>6. QED
  BY <1>1, <1>5, ErrorSound DEF events

LEMMA BranchSound ==
    ASSUME RunSound(engine), NEW side \in {"then", "else"}, TakeBranch(side)
    PROVE  RunSound(engine')
<1> DEFINE events == engine.events \cup {<<"started", engine.next>>}
           begun == [engine EXCEPT !.budget = @ + 1, !.events = events]
           here == engine.next
           last == [step |-> here, side |-> side]
           open == Append(engine.open, last)
           next == here + 1
<1>1. /\ RunningSound(engine) /\ engine \in EngineRun /\ OpenSound(engine) /\ Runnable /\ Begun
      /\ here \in 1..Len(engine.steps) /\ Len(engine.steps) \in Nat
      /\ here \in Nat \ {0} /\ engine.budget \in 0..StepLimit
      /\ DOMAIN engine.steps = 1..Len(engine.steps) /\ InStep.kind \in Conditions
  BY BegunRun DEF TakeBranch, Begun
<1>2. /\ begun \in EngineRun /\ begun.at = "running" /\ begun.steps = engine.steps
      /\ begun.next = here /\ begun.open = engine.open
      /\ begun.budget = engine.budget + 1 /\ begun.events = events
  BY <1>1, StartedRun
<1>3. engine' = IF side = "then" /\ InStep.kind = "partial"
                THEN [begun EXCEPT !.at = "error"]
                ELSE [begun EXCEPT !.next = @ + 1, !.open = Append(@, last)]
  BY DEF TakeBranch
<1> HIDE DEF begun
<1>4. CASE engine' = [begun EXCEPT !.at = "error"]
  <2>1. /\ engine' \in EngineRun /\ engine'.at = "error" /\ engine'.steps = engine.steps
        /\ engine'.open = engine.open /\ engine'.events = events
    BY <1>2, <1>4, EndsSound, Zenon
  <2>2. QED
    BY <1>1, <2>1, ErrorSound
<1>5. CASE engine' = [begun EXCEPT !.next = @ + 1, !.open = Append(@, last)]
  <2>1. /\ last \in [step : Nat \ {0}, side : {"then", "else"}]
        /\ last.step = here /\ next \in Nat \ {0}
    BY <1>1
  <2>2. engine.open \in Seq([step : Nat \ {0}, side : {"then", "else"}])
    BY <1>1 DEF EngineRun
  <2> HIDE DEF last
  <2>3. /\ open \in Seq([step : Nat \ {0}, side : {"then", "else"}])
        /\ Len(open) = Len(engine.open) + 1 /\ Len(engine.open) \in Nat
        /\ DOMAIN open = 1..Len(open) /\ DOMAIN engine.open = 1..Len(engine.open)
        /\ open[Len(open)] = last
        /\ \A n \in DOMAIN engine.open : open[n] = engine.open[n]
    BY <2>1, <2>2
  <2>4. engine' = [begun EXCEPT !.next = next, !.open = open]
    BY <1>2, <1>5
  <2> HIDE DEF open, next
  <2>5. /\ engine' \in EngineRun /\ engine'.at = "running" /\ engine'.steps = engine.steps
        /\ engine'.next = next /\ engine'.budget = engine.budget + 1
        /\ engine'.open = open /\ engine'.events = events
    <3>1. \A x \in EngineRun :
             LET y == [x EXCEPT !.next = next, !.open = open]
             IN  /\ y \in EngineRun /\ y.at = x.at /\ y.steps = x.steps /\ y.next = next
                 /\ y.budget = x.budget /\ y.open = open /\ y.events = x.events
      BY <2>1, <2>3 DEF EngineRun
    <3>2. LET y == [begun EXCEPT !.next = next, !.open = open]
          IN  /\ y \in EngineRun /\ y.at = begun.at /\ y.steps = begun.steps /\ y.next = next
              /\ y.budget = begun.budget /\ y.open = open /\ y.events = begun.events
      BY <1>2, <3>1, Zenon
    <3>3. QED
      BY <1>2, <2>4, <3>2
  <2>6. /\ StepsWith(engine', "started") = StepsWith(engine, "started") \cup {here}
        /\ StepsWith(engine', "completed") = StepsWith(engine, "completed")
        /\ StepsWith(engine', "failed") = StepsWith(engine, "failed")
    BY <1>1, <2>5 DEF StepsWith
  <2>7. OpenSteps(engine') = OpenSteps(engine) \cup {here}
    <3>1. DOMAIN open = DOMAIN engine.open \cup {Len(open)}
      BY <2>3
    <3>2. open[Len(open)].step = here
      BY <2>1, <2>3
    <3>3. OpenSteps(engine) \cup {here} \subseteq {open[n].step : n \in DOMAIN open}
      BY <2>3, <3>1, <3>2 DEF OpenSteps
    <3>4. ASSUME NEW n \in DOMAIN open PROVE open[n].step \in OpenSteps(engine) \cup {here}
      BY <2>3, <3>1, <3>2, <3>4 DEF OpenSteps
    <3>5. OpenSteps(engine') = {open[n].step : n \in DOMAIN open}
      BY <2>5, Zenon DEF OpenSteps
    <3>6. {open[n].step : n \in DOMAIN open} \subseteq OpenSteps(engine) \cup {here}
      BY <3>4
    <3>7. QED
      BY <3>3, <3>5, <3>6, Zenon
  <2>8. /\ StepsWith(engine, "started") = StepsWith(engine, "completed") \cup OpenSteps(engine)
        /\ \A i \in StepsWith(engine, "started") : i < here /\ i \in Nat
    BY <1>1 DEF RunningSound, StepsWith
  <2>9. here \notin StepsWith(engine, "completed")
    BY <1>1, <2>8
  <2>10. \A n \in DOMAIN engine.open : engine.open[n].step < here
    BY <2>8 DEF OpenSteps
  <2>11. \A m \in DOMAIN open : \A n \in DOMAIN open :
            m < n => open[m].step < open[n].step
    <3>1. SUFFICES ASSUME NEW m \in DOMAIN open, NEW n \in DOMAIN open, m < n
                   PROVE  open[m].step < open[n].step
      OBVIOUS
    <3>2. m \in DOMAIN engine.open /\ open[m] = engine.open[m]
      BY <2>3, <3>1
    <3>3. CASE n = Len(open)
      BY <2>1, <2>3, <2>10, <3>2, <3>3
    <3>4. CASE n # Len(open)
      <4>1. n \in DOMAIN engine.open /\ open[n] = engine.open[n]
        BY <2>3, <3>1, <3>4
      <4>2. QED
        BY <1>1, <3>1, <3>2, <4>1 DEF RunningSound
    <3>5. QED
      BY <3>3, <3>4
  <2>12. engine'.next \in 1..(Len(engine'.steps) + 1) /\ engine'.budget <= engine'.next - 1
    BY <1>1, <2>5 DEF RunningSound, next
  <2>13. \A i \in StepsWith(engine', "started") : i < engine'.next
    BY <1>1, <2>5, <2>6, <2>8 DEF next
  <2>14. RunningSound(engine')
    <3>1. /\ StepsWith(engine', "started")
                 = StepsWith(engine', "completed") \cup OpenSteps(engine')
          /\ StepsWith(engine', "failed") = {}
          /\ StepsWith(engine', "completed") \cap OpenSteps(engine') = {}
      BY <1>1, <2>6, <2>7, <2>9 DEF RunningSound
    <3>2. QED
      BY <2>5, <2>11, <2>12, <2>13, <3>1 DEF RunningSound
  <2>15. OpenSound(engine')
    <3>1. SUFFICES ASSUME NEW n \in DOMAIN open
                   PROVE  /\ open[n].step \in DOMAIN engine.steps
                          /\ engine.steps[open[n].step].kind \in Conditions
      BY <2>5 DEF OpenSound
    <3>2. CASE n = Len(open)
      BY <1>1, <2>1, <2>3, <3>2 DEF InStep
    <3>3. CASE n # Len(open)
      <4>1. n \in DOMAIN engine.open /\ open[n] = engine.open[n]
        BY <2>3, <3>1, <3>3
      <4>2. QED
        BY <1>1, <4>1 DEF OpenSound
    <3>4. QED
      BY <3>2, <3>3
  <2>16. QED
    BY <2>5, <2>14, <2>15 DEF RunSound
<1>6. QED
  BY <1>3, <1>4, <1>5

\* What Front leaves, and Last takes.
LEMMA FrontAndLast ==
    ASSUME NEW S, NEW s \in Seq(S), s # <<>>
    PROVE  /\ Len(s) \in Nat \ {0} /\ DOMAIN s = 1..Len(s)
           /\ Last(s) = s[Len(s)] /\ Last(s) \in S
           /\ Front(s) \in Seq(S) /\ Len(Front(s)) = Len(s) - 1
           /\ DOMAIN Front(s) = 1..(Len(s) - 1)
           /\ \A n \in DOMAIN Front(s) : Front(s)[n] = s[n] /\ s[n] \in S
<1>1. Len(s) \in Nat \ {0} /\ DOMAIN s = 1..Len(s) /\ \A n \in 1..Len(s) : s[n] \in S
  OBVIOUS
<1>2. Last(s) = s[Len(s)] /\ Last(s) \in S
  BY <1>1 DEF Last
<1>3. Front(s) = [n \in 1..(Len(s) - 1) |-> s[n]]
  BY <1>1 DEF Front
<1>4. Front(s) \in Seq(S) /\ Len(Front(s)) = Len(s) - 1
  BY <1>1, <1>3 DEF Front
<1>5. QED
  BY <1>1, <1>2, <1>3, <1>4

LEMMA EndConditionSound ==
    ASSUME RunSound(engine), EndCondition
    PROVE  RunSound(engine')
<1> DEFINE last == Last(engine.open).step
           open == Front(engine.open)
           events == engine.events \cup {<<"completed", last>>}
<1>1. /\ RunningSound(engine) /\ engine \in EngineRun /\ OpenSound(engine)
      /\ engine.at = "running" /\ engine.open # <<>>
      /\ engine' = [engine EXCEPT !.open = open, !.events = events]
  BY DEF EndCondition, RunSound
<1>2. engine.open \in Seq([step : Nat \ {0}, side : {"then", "else"}])
  BY <1>1 DEF EngineRun
<1>3. /\ open \in Seq([step : Nat \ {0}, side : {"then", "else"}])
      /\ Len(engine.open) \in Nat \ {0} /\ Len(open) = Len(engine.open) - 1
      /\ DOMAIN open = 1..Len(open) /\ DOMAIN engine.open = 1..Len(engine.open)
      /\ last = engine.open[Len(engine.open)].step
      /\ \A n \in DOMAIN open :
            /\ open[n] = engine.open[n]
            /\ open[n] \in [step : Nat \ {0}, side : {"then", "else"}]
  <2> DEFINE S == [step : Nat \ {0}, side : {"then", "else"}]
             s == engine.open
  <2>1. s \in Seq(S) /\ s # <<>>
    BY <1>1, <1>2
  <2> HIDE DEF S, s
  <2>2. /\ Len(s) \in Nat \ {0} /\ DOMAIN s = 1..Len(s) /\ Last(s) = s[Len(s)]
        /\ Front(s) \in Seq(S) /\ Len(Front(s)) = Len(s) - 1
        /\ DOMAIN Front(s) = 1..(Len(s) - 1)
        /\ \A n \in DOMAIN Front(s) : Front(s)[n] = s[n] /\ s[n] \in S
    BY <2>1, FrontAndLast
  <2>3. /\ Front(s) \in Seq(S) /\ Len(s) \in Nat \ {0} /\ Len(Front(s)) = Len(s) - 1
        /\ DOMAIN Front(s) = 1..Len(Front(s)) /\ DOMAIN s = 1..Len(s)
        /\ Last(s).step = s[Len(s)].step
        /\ \A n \in DOMAIN Front(s) : Front(s)[n] = s[n] /\ Front(s)[n] \in S
    BY <2>2
  <2>4. QED
    BY <2>3 DEF S, s
<1>4. last \in Nat \ {0}
  <2>1. Last(engine.open) \in [step : Nat \ {0}, side : {"then", "else"}]
    BY <1>1, <1>2, FrontAndLast
  <2>2. QED
    BY <2>1
<1>5. events \in SUBSET Event
  BY <1>1, <1>4 DEF EngineRun, Event
<1>6. /\ \A i : <<"started", i>> \in events <=> <<"started", i>> \in engine.events
      /\ \A i : <<"completed", i>> \in events
            <=> (<<"completed", i>> \in engine.events \/ i = last)
      /\ \A i : <<"failed", i>> \in events <=> <<"failed", i>> \in engine.events
  OBVIOUS
<1> HIDE DEF open, last, events
<1>7. /\ engine' \in EngineRun /\ engine'.at = "running" /\ engine'.steps = engine.steps
      /\ engine'.next = engine.next /\ engine'.budget = engine.budget
      /\ engine'.open = open /\ engine'.events = events
  <2>1. \A x \in EngineRun :
           LET y == [x EXCEPT !.open = open, !.events = events]
           IN  /\ y \in EngineRun /\ y.at = x.at /\ y.steps = x.steps /\ y.next = x.next
               /\ y.budget = x.budget /\ y.open = open /\ y.events = events
    BY <1>3, <1>5 DEF EngineRun
  <2>2. LET y == [engine EXCEPT !.open = open, !.events = events]
        IN  /\ y \in EngineRun /\ y.at = engine.at /\ y.steps = engine.steps
            /\ y.next = engine.next /\ y.budget = engine.budget /\ y.open = open
            /\ y.events = events
    BY <1>1, <2>1, Zenon
  <2>3. QED
    BY <1>1, <2>2
<1>8. /\ StepsWith(engine', "started") = StepsWith(engine, "started")
      /\ StepsWith(engine', "completed") = StepsWith(engine, "completed") \cup {last}
      /\ StepsWith(engine', "failed") = StepsWith(engine, "failed")
  BY <1>4, <1>6, <1>7 DEF StepsWith
<1>9. \A m \in DOMAIN engine.open : \A n \in DOMAIN engine.open :
         m < n => engine.open[m].step < engine.open[n].step
  BY <1>1 DEF RunningSound
<1>10. \A n \in DOMAIN open : /\ n \in DOMAIN engine.open /\ open[n] = engine.open[n]
                              /\ n < Len(engine.open)
  BY <1>3
<1>11. \A n \in DOMAIN open : open[n].step # last
  <2>1. SUFFICES ASSUME NEW n \in DOMAIN open PROVE open[n].step # last
    OBVIOUS
  <2>2. open[n].step < last
    <3>1. /\ n \in DOMAIN engine.open /\ n < Len(engine.open)
          /\ Len(engine.open) \in DOMAIN engine.open
      BY <1>3, <1>10
    <3>2. engine.open[n].step < engine.open[Len(engine.open)].step
      BY <1>9, <3>1
    <3>3. engine.open[n].step < last
      BY <1>3, <3>2, Zenon
    <3>4. QED
      BY <1>10, <3>3, Zenon
  <2>3. open[n] \in [step : Nat \ {0}, side : {"then", "else"}]
    BY <1>3
  <2>4. open[n].step \in Nat
    BY <2>3
  <2>5. QED
    BY <1>4, <2>2, <2>4
<1>12. OpenSteps(engine) = OpenSteps(engine') \cup {last} /\ last \notin OpenSteps(engine')
  <2>1. OpenSteps(engine') \cup {last} \subseteq OpenSteps(engine)
    <3>1. ASSUME NEW n \in DOMAIN open PROVE open[n].step \in OpenSteps(engine)
      <4>1. n \in DOMAIN engine.open /\ open[n] = engine.open[n]
        BY <1>10
      <4>2. QED
        BY <4>1, Zenon DEF OpenSteps
    <3>2. last \in OpenSteps(engine)
      <4>1. Len(engine.open) \in DOMAIN engine.open
        BY <1>3
      <4>2. QED
        BY <1>3, <4>1, Zenon DEF OpenSteps
    <3>3. QED
      BY <1>7, <3>1, <3>2, Zenon DEF OpenSteps
  <2>2. ASSUME NEW n \in DOMAIN engine.open
        PROVE  engine.open[n].step \in OpenSteps(engine') \cup {last}
    <3>1. n = Len(engine.open) \/ n \in DOMAIN open
      BY <1>3
    <3>2. QED
      BY <1>3, <1>7, <3>1 DEF OpenSteps
  <2>3. last \notin OpenSteps(engine')
    BY <1>7, <1>11 DEF OpenSteps
  <2>4. QED
    BY <2>1, <2>2, <2>3 DEF OpenSteps
<1>13. RunningSound(engine')
  <2>1. /\ StepsWith(engine', "started")
               = StepsWith(engine', "completed") \cup OpenSteps(engine')
        /\ StepsWith(engine', "failed") = {}
        /\ StepsWith(engine', "completed") \cap OpenSteps(engine') = {}
    BY <1>1, <1>8, <1>12 DEF RunningSound
  <2>2. \A m \in DOMAIN open : \A n \in DOMAIN open : m < n => open[m].step < open[n].step
    BY <1>9, <1>10
  <2>3. \A i \in StepsWith(engine', "started") : i < engine'.next
    BY <1>1, <1>7, <1>8 DEF RunningSound
  <2>4. engine'.next \in 1..(Len(engine'.steps) + 1) /\ engine'.budget <= engine'.next - 1
    BY <1>1, <1>7 DEF RunningSound
  <2>5. QED
    BY <1>7, <2>1, <2>2, <2>3, <2>4 DEF RunningSound
<1>14. OpenSound(engine')
  BY <1>1, <1>7, <1>10 DEF OpenSound
<1>15. QED
  BY <1>7, <1>13, <1>14 DEF RunSound

\* Where a branch has a step to run, no limit stops a definition that was
\* accepted.
LEMMA LimitSound ==
    ASSUME RunSound(engine), OverBudget \/ TooDeep \/ StepFails
    PROVE  RunSound(engine')
<1>1. engine.next \in Nat \ {0} /\ engine.budget \in 0..StepLimit /\ StepLimit \in Nat \ {0}
      /\ Runnable /\ InStep \in StepOf /\ engine.next \in DOMAIN engine.steps
  BY BegunRun DEF OverBudget, TooDeep, StepFails, Begun
<1>2. CASE OverBudget
  <2>1. engine' = Fails("limit", {}, StepLimit) /\ engine.budget = StepLimit
    BY <1>2 DEF OverBudget
  <2>2. ~Accepted(engine.steps)
    BY <1>1, <2>1, BudgetLeft
  <2>3. QED
    BY <1>1, <2>1, <2>2, FailsSound
<1>3. CASE TooDeep
  <2>1. /\ engine' = Fails("limit", {engine.next}, engine.budget + 1)
        /\ engine.budget < StepLimit
        /\ InStep.kind \in Conditions /\ ~(InStep.depth + 1 <= DepthLimit)
    BY <1>1, <1>3, EngineAssumption DEF TooDeep, Begun, StepOf
  <2>2. ~Accepted(engine.steps)
    BY <1>1, <2>1 DEF Accepted, InStep
  <2>3. engine.budget + 1 \in 0..StepLimit
    BY <1>1, <2>1
  <2>4. QED
    BY <1>1, <2>1, <2>2, <2>3, FailsSound
<1>4. CASE StepFails
  <2>1. /\ engine' = Fails("failed", {engine.next}, engine.budget + 1)
        /\ engine.budget < StepLimit
    BY <1>4 DEF StepFails, Begun
  <2>2. engine.budget + 1 \in 0..StepLimit
    BY <1>1, <2>1
  <2>3. QED
    BY <1>1, <2>1, <2>2, FailsSound
<1>5. QED
  BY <1>2, <1>3, <1>4

LEMMA EngineInitially == EngineInit => EngineInv
<1>1. SUFFICES ASSUME EngineInit PROVE EngineInv
  OBVIOUS
<1>2. workflow \in [mode : {"builtin", "n8n"}, steps : Definitions]
      /\ patch = [p \in Patchers |-> <<>>] /\ engine = NoEngineRun
  BY <1>1, Zenon DEF EngineInit
<1>3. RowsSound
  <2>1. workflow \in WorkflowRow
    BY <1>2, DefinitionsAreSteps DEF WorkflowRow
  <2>2. PatchSound(<<>>)
    BY DEF PatchSound
  <2>3. QED
    BY <1>2, <2>1, <2>2 DEF RowsSound
<1>4. /\ engine \in EngineRun /\ engine.at = "idle" /\ engine.open = <<>> /\ engine.events = {}
  <2>1. /\ NoEngineRun \in EngineRun /\ NoEngineRun.at = "idle" /\ NoEngineRun.open = <<>>
        /\ NoEngineRun.events = {}
    BY NoStepsNested, EngineAssumption DEF NoEngineRun, EngineRun
  <2>2. QED
    BY <1>2, <2>1, Zenon
<1>5. EndedSound(engine) /\ OpenSound(engine)
  BY <1>4 DEF EndedSound, OpenSound, StepsWith
<1>6. QED
  BY <1>3, <1>4, <1>5 DEF EngineInv, RunSound

LEMMA EngineStep ==
    ASSUME EngineInv, [EngineNext]_engineVars
    PROVE  EngineInv'
<1>1. RowsSound /\ RunSound(engine) /\ RowsSound'
  BY RowsStep DEF EngineInv
<1>2. RunSound(engine')
  <2>1. CASE UNCHANGED engine
    BY <1>1, <2>1
  <2>2. CASE BeginAdapter
    BY <1>1, <2>2, BeginSound
  <2>3. CASE TriggerWebhook
    BY <1>1, <2>3, WebhookSound
  <2>4. CASE SkipStep
    BY <1>1, <2>4, SkipSound
  <2>5. CASE OverBudget \/ TooDeep \/ StepFails
    BY <1>1, <2>5, LimitSound
  <2>6. CASE PlainStep
    BY <1>1, <2>6, PlainSound
  <2>7. CASE StepBreaks
    BY <1>1, <2>7, BreaksSound
  <2>8. ASSUME NEW side \in {"then", "else"}, TakeBranch(side) PROVE RunSound(engine')
    BY <1>1, <2>8, BranchSound
  <2>9. CASE EndCondition
    BY <1>1, <2>9, EndConditionSound
  <2>10. CASE ProduceResult
    BY <1>1, <2>10, ResultSound
  <2>11. QED
    BY <2>1, <2>2, <2>3, <2>4, <2>5, <2>6, <2>7, <2>8, <2>9, <2>10
    DEF EngineNext, engineVars, UpdateWorkflowRow, CommitPatch
<1>3. QED
  BY <1>1, <1>2 DEF EngineInv

LEMMA EngineTypes == ASSUME EngineInv PROVE EngineTypeOK
<1>1. /\ workflow.mode \in {"builtin", "n8n"} /\ Nested(workflow.steps)
      /\ DOMAIN workflow = {"mode", "steps"}
  BY RowFields DEF EngineInv, RowsSound, Steps
<1>2. \A p \in Patchers : DOMAIN patch[p] \subseteq DOMAIN workflow
  BY <1>1 DEF EngineInv, RowsSound, PatchSound
<1>3. /\ engine.at \in {"idle", "running", "webhook", "succeeded", "failed", "limit", "error"}
      /\ engine.budget \in 0..StepLimit
  BY DEF EngineInv, RunSound, EngineRun
<1>4. \A n \in DOMAIN engine.open : engine.steps[engine.open[n].step].kind \in Conditions
  BY DEF EngineInv, RunSound, OpenSound
<1>5. QED
  BY <1>1, <1>2, <1>3, <1>4 DEF EngineTypeOK

\* What a run of a definition says of it.
LEMMA RunsAsAccepted == ASSUME EngineInv PROVE AcceptedRuns
<1> DEFINE stepsIn(event) == {i \in DOMAIN engine.steps : <<event, i>> \in engine.events}
<1>1. RunSound(engine) /\ engine \in EngineRun
  BY DEF EngineInv, RunSound
<1>2. DOMAIN engine.steps \subseteq Nat \ {0} /\ DOMAIN engine.steps = 1..Len(engine.steps)
      /\ Len(engine.steps) \in Nat
  BY <1>1 DEF EngineRun, Steps
<1>3. \A event : stepsIn(event) = StepsWith(engine, event) \cap DOMAIN engine.steps
  BY <1>2 DEF StepsWith
<1>4. CASE engine.at = "running"
  BY <1>1, <1>3, <1>4 DEF RunSound, RunningSound, AcceptedRuns
<1>5. CASE engine.at # "running"
  <2>1. EndedSound(engine)
    BY <1>1, <1>5 DEF RunSound
  <2>2. QED
    BY <1>3, <2>1 DEF EndedSound, AcceptedRuns
<1>6. QED
  BY <1>4, <1>5

\* WorkflowService's promise at write time: a definition that
\* validate_builtin_definition() accepted never stops at the step budget nor at
\* the nesting limit, whatever branches its run takes; and the timeline of a
\* run that ended shows each step it started as completed or failed, once.
THEOREM AcceptedDefinitionsRun == EngineSpec => [](EngineTypeOK /\ AcceptedRuns)
<1>1. EngineInit => EngineInv
  BY EngineInitially
<1>2. EngineInv /\ [EngineNext]_engineVars => EngineInv'
  BY EngineStep
<1>3. EngineInv => EngineTypeOK /\ AcceptedRuns
  BY EngineTypes, RunsAsAccepted
<1>4. QED
  BY <1>1, <1>2, <1>3, PTL DEF EngineSpec

-----------------------------------------------------------------------------
(* The backward walk of previous_fire().                                   *)

LEMMA Division ==
    ASSUME NEW n \in Nat \ {0}, NEW t \in Int
    PROVE  t \div n \in Int /\ t % n \in 0..(n - 1) /\ t = n * (t \div n) + (t % n)
OBVIOUS

\* A number between two multiples has the quotient of the lower one.
LEMMA Quotient ==
    ASSUME NEW n \in Nat \ {0}, NEW q \in Int, NEW t \in (q * n)..((q + 1) * n - 1)
    PROVE  t \div n = q
<1> DEFINE p == t \div n
<1>1. p \in Int /\ n * p <= t /\ t < n * p + n
  BY Division
<1>2. q * n <= t /\ t < q * n + n
  OBVIOUS
<1> HIDE DEF p
<1>3. CASE p < q
  <2>1. p + 1 <= q
    BY <1>1, <1>3
  <2>2. n * (p + 1) <= n * q
    BY <1>1, <2>1
  <2>3. QED
    BY <1>1, <1>2, <2>2
<1>4. CASE q < p
  <2>1. q + 1 <= p
    BY <1>1, <1>4
  <2>2. n * (q + 1) <= n * p
    BY <1>1, <2>1
  <2>3. QED
    BY <1>1, <1>2, <2>2
<1>5. QED
  BY <1>1, <1>3, <1>4 DEF p

LEMMA Multiple ==
    ASSUME NEW n \in Nat \ {0}, NEW q \in Int
    PROVE  (q * n) % n = 0
<1> DEFINE t == q * n
<1>1. t \in Int /\ t \in (q * n)..((q + 1) * n - 1)
  OBVIOUS
<1>2. t \div n = q
  BY <1>1, Quotient
<1>3. t % n \in Int /\ t = n * (t \div n) + (t % n)
  BY <1>1, Division
<1>4. QED
  BY <1>2, <1>3

\* The days of the calendar have minutes, the first of a day being a multiple.
LEMMA DaysAndMinutes ==
    /\ DayMinutes \in Nat \ {0} /\ Lookback \in Nat \ {0} /\ Minutes \subseteq Nat
    /\ \A t \in Int : /\ DayOf(t) \in Int /\ DayOf(t) * DayMinutes <= t
                      /\ t < (DayOf(t) + 1) * DayMinutes
                      /\ t % DayMinutes = 0 => t = DayOf(t) * DayMinutes
    /\ \A day \in Int : \A t \in (day * DayMinutes)..((day + 1) * DayMinutes - 1) :
          DayOf(t) = day
<1>1. /\ HoursInDay \in Nat \ {0} /\ MinutesInHour \in Nat \ {0} /\ LeapCycle \in Nat \ {0}
      /\ MonthLength \in Nat \ {0} /\ Lookback \in Nat \ {0}
  BY CronAssumption
<1>2. DayMinutes \in Nat \ {0}
  BY <1>1 DEF DayMinutes
<1>3. Minutes \subseteq Nat
  <2>1. YearDays \in Nat
    BY <1>1 DEF YearDays
  <2>2. CycleDays \in Nat
    BY <1>1, <2>1 DEF CycleDays
  <2>3. CycleDays * DayMinutes \in Nat
    BY <1>2, <2>2
  <2>4. QED
    BY <2>3 DEF Minutes
<1>4. ASSUME NEW t \in Int
      PROVE  /\ DayOf(t) \in Int /\ DayOf(t) * DayMinutes <= t
             /\ t < (DayOf(t) + 1) * DayMinutes
             /\ t % DayMinutes = 0 => t = DayOf(t) * DayMinutes
  <2> DEFINE q == t \div DayMinutes
             r == t % DayMinutes
  <2>1. q \in Int /\ r \in 0..(DayMinutes - 1) /\ t = DayMinutes * q + r
    BY <1>2, Division
  <2>2. DayOf(t) = q
    BY DEF DayOf
  <2> HIDE DEF q
  <2>3. QED
    BY <1>2, <2>1, <2>2
<1>5. ASSUME NEW day \in Int, NEW t \in (day * DayMinutes)..((day + 1) * DayMinutes - 1)
      PROVE  DayOf(t) = day
  BY <1>2, Quotient DEF DayOf
<1>6. QED
  BY <1>1, <1>2, <1>3, <1>4, <1>5

Fires(t) == MatchesMinute(cron, t) /\ DayMatches(cron, DayOf(t))
FirstMinute(day) == day * DayMinutes
FirstDayBack == DayOf(walk.now) - Lookback

\* The walk has passed every minute behind it, and none of them fires; what it
\* has not found is in no day it looked back at.
WalkInv ==
    /\ walk \in [at : {"idle", "today", "days", "done"}, now : Nat, cursor : Int, found : Int]
    /\ walk.at # "idle" => ValidCron(cron)
    /\ walk.at = "today" =>
          /\ walk.cursor \in FirstMinute(DayOf(walk.now))..walk.now
          /\ \A t \in (walk.cursor + 1)..walk.now : ~Fires(t)
    /\ walk.at = "days" =>
          /\ walk.cursor \in (FirstDayBack - 1)..(DayOf(walk.now) - 1)
          /\ \A t \in FirstMinute(walk.cursor + 1)..walk.now : ~Fires(t)
    /\ walk.at # "done" => walk.found = -1
    /\ walk.at = "done" /\ walk.found # -1 =>
          walk.found \in FirstMinute(FirstDayBack)..walk.now /\ Fires(walk.found)
    /\ walk.at = "done" =>
          \A t \in FirstMinute(FirstDayBack)..walk.now : t > walk.found => ~Fires(t)

LEMMA DaysInOrder ==
    ASSUME NEW d \in Int, NEW e \in Int, d <= e
    PROVE  FirstMinute(d) \in Int /\ FirstMinute(e) \in Int /\ FirstMinute(d) <= FirstMinute(e)
BY DaysAndMinutes DEF FirstMinute

LEMMA WalkStarts ==
    ASSUME WalkInv, NEW now \in Minutes, StartWalk(now)
    PROVE  WalkInv'
<1>1. walk' = [at |-> "today", now |-> now, cursor |-> now, found |-> -1]
      /\ cron' = cron /\ ValidCron(cron) /\ now \in Nat
  BY DaysAndMinutes DEF StartWalk, NoWalk
<1>2. now \in FirstMinute(DayOf(now))..now
  <2>1. /\ DayOf(now) \in Int /\ DayOf(now) * DayMinutes <= now /\ DayMinutes \in Nat
    BY <1>1, DaysAndMinutes
  <2>2. QED
    BY <1>1, <2>1 DEF FirstMinute
<1>3. (now + 1)..now = {}
  BY <1>1
<1>4. QED
  BY <1>1, <1>2, <1>3 DEF WalkInv

LEMMA WalksToday ==
    ASSUME WalkInv, WalkToday
    PROVE  WalkInv'
<1> DEFINE now == walk.now
           cursor == walk.cursor
           thisDay == DayOf(now)
<1>1. /\ walk \in [at : {"idle", "today", "days", "done"}, now : Nat, cursor : Int, found : Int]
      /\ ValidCron(cron) /\ walk.at = "today" /\ walk.found = -1
      /\ cursor \in FirstMinute(thisDay)..now /\ \A t \in (cursor + 1)..now : ~Fires(t)
      /\ now \in Nat /\ cursor \in Int /\ cron' = cron
  BY DEF WalkInv, WalkToday
<1>2. /\ DayMinutes \in Nat \ {0} /\ thisDay \in Int /\ DayOf(cursor) \in Int
      /\ FirstMinute(thisDay) \in Int /\ Lookback \in Nat \ {0}
      /\ FirstMinute(DayOf(cursor)) <= cursor /\ cursor < FirstMinute(DayOf(cursor) + 1)
      /\ cursor % DayMinutes = 0 => cursor = FirstMinute(DayOf(cursor))
      /\ now < FirstMinute(thisDay + 1) /\ FirstMinute(thisDay + 1) \in Int
  <2>1. /\ DayMinutes \in Nat \ {0} /\ Lookback \in Nat \ {0}
        /\ thisDay \in Int /\ now < (thisDay + 1) * DayMinutes
    BY <1>1, DaysAndMinutes
  <2>2. /\ DayOf(cursor) \in Int /\ DayOf(cursor) * DayMinutes <= cursor
        /\ cursor < (DayOf(cursor) + 1) * DayMinutes
        /\ cursor % DayMinutes = 0 => cursor = DayOf(cursor) * DayMinutes
    BY <1>1, DaysAndMinutes
  <2> HIDE DEF thisDay, cursor, now
  <2>3. QED
    BY <2>1, <2>2 DEF FirstMinute
<1>3. DayOf(cursor) = thisDay
  <2>1. cursor \in (thisDay * DayMinutes)..((thisDay + 1) * DayMinutes - 1)
    BY <1>1, <1>2 DEF FirstMinute
  <2>2. QED
    BY <1>2, <2>1, DaysAndMinutes
<1>4. CASE Fires(cursor)
  <2>1. walk' = [walk EXCEPT !.at = "done", !.found = cursor]
    BY <1>4 DEF WalkToday, Fires
  <2>2. /\ walk' \in [at : {"idle", "today", "days", "done"}, now : Nat, cursor : Int, found : Int]
        /\ walk'.at = "done" /\ walk'.now = now /\ walk'.found = cursor
    BY <1>1, <2>1
  <2>3. \A t \in FirstMinute(thisDay - Lookback)..now : t > cursor => ~Fires(t)
    <3>1. \A t \in FirstMinute(thisDay - Lookback)..now : t > cursor => t \in (cursor + 1)..now
      <4>1. FirstMinute(thisDay - Lookback) \in Int
        BY <1>2 DEF FirstMinute
      <4>2. QED
        BY <1>1, <4>1
    <3>2. QED
      BY <1>1, <3>1
  <2>4. cursor \in FirstMinute(thisDay - Lookback)..now
    <3>1. thisDay - Lookback <= thisDay
      BY <1>2
    <3>2. FirstMinute(thisDay - Lookback) <= FirstMinute(thisDay) /\ FirstMinute(thisDay - Lookback) \in Int
      BY <1>2, <3>1, DaysInOrder
    <3>3. QED
      BY <1>1, <1>2, <3>2
  <2>6. FirstDayBack' = thisDay - Lookback
    BY <2>2 DEF FirstDayBack
  <2>7. QED
    BY <1>1, <1>4, <2>2, <2>3, <2>4, <2>6 DEF WalkInv, Fires, FirstMinute
<1>5. CASE ~Fires(cursor)
  <2>1. \A t \in cursor..now : ~Fires(t)
    <3>1. \A t \in cursor..now : t = cursor \/ t \in (cursor + 1)..now
      BY <1>1
    <3>2. QED
      BY <1>1, <1>5, <3>1
  <2>2. CASE cursor % DayMinutes = 0
    <3>1. walk' = [walk EXCEPT !.at = "days", !.cursor = thisDay - 1]
      BY <1>5, <2>2 DEF WalkToday, Fires
    <3>2. /\ walk' \in [at : {"idle", "today", "days", "done"}, now : Nat, cursor : Int, found : Int]
          /\ walk'.at = "days" /\ walk'.now = now /\ walk'.cursor = thisDay - 1 /\ walk'.found = -1
      <4>1. \A x \in [at : {"idle", "today", "days", "done"}, now : Nat, cursor : Int, found : Int] :
            \A c \in Int :
               LET y == [x EXCEPT !.at = "days", !.cursor = c]
               IN  /\ y \in [at : {"idle", "today", "days", "done"}, now : Nat, cursor : Int, found : Int]
                   /\ y.at = "days" /\ y.now = x.now /\ y.cursor = c /\ y.found = x.found
        OBVIOUS
      <4>2. thisDay - 1 \in Int
        BY <1>2
      <4>3. QED
        BY <1>1, <3>1, <4>1, <4>2
    <3>3. cursor = FirstMinute(thisDay)
      BY <1>2, <1>3, <2>2
    <3>4. FirstMinute(walk'.cursor + 1) = cursor
      <4>1. thisDay - 1 + 1 = thisDay
        BY <1>2
      <4>2. QED
        BY <3>2, <3>3, <4>1
    <3>5. FirstDayBack' = thisDay - Lookback
      BY <3>2 DEF FirstDayBack
    <3>6. thisDay - 1 \in (thisDay - Lookback - 1)..(thisDay - 1)
      BY <1>2
    <3>7. QED
      BY <1>1, <2>1, <3>2, <3>4, <3>5, <3>6 DEF WalkInv, Fires, FirstMinute
  <2>3. CASE cursor % DayMinutes # 0
    <3>1. walk' = [walk EXCEPT !.cursor = @ - 1]
      BY <1>5, <2>3 DEF WalkToday, Fires
    <3>2. /\ walk' \in [at : {"idle", "today", "days", "done"}, now : Nat, cursor : Int, found : Int]
          /\ walk'.at = "today" /\ walk'.now = now /\ walk'.cursor = cursor - 1 /\ walk'.found = -1
      BY <1>1, <3>1
    <3>3. cursor # FirstMinute(thisDay)
      <4>1. ASSUME cursor = FirstMinute(thisDay) PROVE FALSE
        <5>1. cursor = thisDay * DayMinutes
          BY <4>1 DEF FirstMinute
        <5>2. (thisDay * DayMinutes) % DayMinutes = 0
          BY <1>2, Multiple
        <5>3. QED
          BY <2>3, <5>1, <5>2, Zenon
      <4>2. QED
        BY <4>1
    <3>4. cursor - 1 \in FirstMinute(thisDay)..now
      BY <1>1, <1>2, <3>3
    <3>5. (cursor - 1) + 1 = cursor
      BY <1>1
    <3>6. QED
      BY <1>1, <2>1, <3>2, <3>4, <3>5 DEF WalkInv, Fires, FirstMinute
  <2>4. QED
    BY <2>2, <2>3
<1>6. QED
  BY <1>4, <1>5

\* The last member of a set of numbers below a bound.
LEMMA GreatestBelow ==
    ASSUME NEW bound \in Int, NEW T \in SUBSET Int, T # {}, \A t \in T : t <= bound
    PROVE  \E x \in T : \A y \in T : y <= x
<1> DEFINE D == {d \in Nat : \E t \in T : d = bound - t}
<1>1. D \in SUBSET Nat /\ D # {}
  <2>1. PICK t \in T : t <= bound
    OBVIOUS
  <2>2. bound - t \in Nat
    BY <2>1
  <2>3. QED
    BY <2>2
<1>2. \E d \in D : \A e \in D : d <= e
  <2> HIDE DEF D
  <2>1. QED
    BY <1>1, LeastNumber
<1>3. PICK d \in D : \A e \in D : d <= e
  BY <1>2
<1>4. PICK x \in T : d = bound - x
  BY <1>3
<1>5. ASSUME NEW y \in T PROVE y <= x
  <2>1. bound - y \in D
    OBVIOUS
  <2>2. d <= bound - y
    BY <1>3, <2>1
  <2>3. QED
    BY <1>4, <2>2
<1>6. QED
  BY <1>5

LEMMA WalksDays ==
    ASSUME WalkInv, WalkDay
    PROVE  WalkInv'
<1> DEFINE now == walk.now
           cursor == walk.cursor
           thisDay == DayOf(now)
           fires == {t \in (cursor * DayMinutes)..((cursor + 1) * DayMinutes - 1) :
                        DayMatches(cron, cursor) /\ MatchesMinute(cron, t)}
           WalkRow == [at : {"idle", "today", "days", "done"}, now : Nat, cursor : Int, found : Int]
<1>1. /\ walk \in WalkRow
      /\ ValidCron(cron) /\ walk.at = "days" /\ walk.found = -1
      /\ cursor \in (thisDay - Lookback - 1)..(thisDay - 1)
      /\ \A t \in FirstMinute(cursor + 1)..now : ~Fires(t)
      /\ now \in Nat /\ cursor \in Int /\ cron' = cron
  BY DEF WalkInv, WalkDay, FirstDayBack
<1>2. /\ DayMinutes \in Nat \ {0} /\ thisDay \in Int /\ Lookback \in Nat \ {0}
      /\ FirstMinute(thisDay) <= now
  BY <1>1, DaysAndMinutes DEF FirstMinute
<1>3. /\ FirstMinute(cursor) \in Int /\ FirstMinute(cursor + 1) \in Int
      /\ FirstMinute(cursor + 1) = FirstMinute(cursor) + DayMinutes
  BY <1>1, <1>2 DEF FirstMinute
<1>4. \A t \in FirstMinute(cursor)..(FirstMinute(cursor + 1) - 1) : Fires(t) <=> t \in fires
  <2>1. SUFFICES ASSUME NEW t \in FirstMinute(cursor)..(FirstMinute(cursor + 1) - 1)
                 PROVE  Fires(t) <=> t \in fires
    OBVIOUS
  <2>2. t \in (cursor * DayMinutes)..((cursor + 1) * DayMinutes - 1)
    BY DEF FirstMinute
  <2>3. DayOf(t) = cursor
    BY <1>1, <2>2, DaysAndMinutes
  <2>4. QED
    BY <2>2, <2>3 DEF Fires
<1>5. \A t \in fires : t \in FirstMinute(cursor)..(FirstMinute(cursor + 1) - 1) /\ t \in Int
  BY <1>1, <1>2 DEF FirstMinute
<1>6. FirstMinute(cursor + 1) <= now + 1
  <2>1. cursor + 1 <= thisDay
    BY <1>1, <1>2
  <2>2. (cursor + 1) * DayMinutes <= thisDay * DayMinutes
    BY <1>1, <1>2, <2>1
  <2>3. thisDay * DayMinutes <= now /\ (cursor + 1) * DayMinutes \in Int /\ thisDay * DayMinutes \in Int
    BY <1>1, <1>2 DEF FirstMinute
  <2>4. QED
    BY <1>1, <2>2, <2>3 DEF FirstMinute
<1>7. FirstDayBack = thisDay - Lookback
  BY DEF FirstDayBack
<1>8. CASE cursor \notin DaysToWalk(now)
  <2>1. walk' = [walk EXCEPT !.at = "done"]
    BY <1>8 DEF WalkDay
  <2>2. walk' \in WalkRow /\ walk'.at = "done" /\ walk'.now = now /\ walk'.found = -1
    BY <1>1, <2>1
  <2>3. cursor + 1 = thisDay - Lookback
    BY <1>1, <1>2, <1>8 DEF DaysToWalk
  <2>4. FirstDayBack' = thisDay - Lookback
    BY <2>2 DEF FirstDayBack
  <2>5. \A t \in FirstMinute(thisDay - Lookback)..now : ~Fires(t)
    BY <1>1, <2>3
  <2>6. QED
    BY <1>1, <2>2, <2>4, <2>5 DEF WalkInv, Fires, FirstMinute
<1>9. CASE cursor \in DaysToWalk(now) /\ fires = {}
  <2>1. walk' = [walk EXCEPT !.cursor = cursor - 1]
    BY <1>9 DEF WalkDay
  <2>2. /\ walk' \in WalkRow /\ walk'.at = "days" /\ walk'.now = now /\ walk'.found = -1
        /\ walk'.cursor = cursor - 1
    <3>1. cursor - 1 \in Int
      BY <1>1
    <3>2. QED
      BY <1>1, <2>1, <3>1
  <2>3. (cursor - 1) + 1 = cursor
    BY <1>1
  <2>4. \A t \in FirstMinute(cursor)..now : ~Fires(t)
    <3>1. SUFFICES ASSUME NEW t \in FirstMinute(cursor)..now PROVE ~Fires(t)
      OBVIOUS
    <3>2. t \in FirstMinute(cursor)..(FirstMinute(cursor + 1) - 1) \/ t \in FirstMinute(cursor + 1)..now
      BY <1>1, <1>3
    <3>3. QED
      BY <1>1, <1>4, <1>9, <3>2
  <2>5. FirstDayBack' = thisDay - Lookback
    BY <2>2 DEF FirstDayBack
  <2>6. cursor - 1 \in (thisDay - Lookback - 1)..(thisDay - 1)
    BY <1>1, <1>2, <1>9 DEF DaysToWalk
  <2>7. QED
    BY <1>1, <2>2, <2>3, <2>4, <2>5, <2>6 DEF WalkInv, Fires, FirstMinute
<1>10. CASE cursor \in DaysToWalk(now) /\ fires # {}
  <2> DEFINE found == CHOOSE t \in fires : \A u \in fires : u <= t
  <2>1. walk' = [walk EXCEPT !.at = "done", !.found = found]
    BY <1>10 DEF WalkDay
  <2>2. found \in fires /\ \A u \in fires : u <= found
    <3>1. fires \in SUBSET Int /\ \A t \in fires : t <= now
      BY <1>1, <1>3, <1>5, <1>6
    <3>2. \E t \in fires : \A u \in fires : u <= t
      <4>1. now \in Int /\ fires # {}
        BY <1>1, <1>10
      <4> HIDE DEF fires, now
      <4>2. QED
        BY <3>1, <4>1, GreatestBelow
    <3> HIDE DEF fires
    <3>3. QED
      BY <3>2
  <2> HIDE DEF found
  <2>3. found \in Int /\ found \in FirstMinute(cursor)..(FirstMinute(cursor + 1) - 1) /\ found <= now
    BY <1>1, <1>3, <1>5, <1>6, <2>2
  <2>4. walk' \in WalkRow /\ walk'.at = "done" /\ walk'.now = now /\ walk'.found = found
    BY <1>1, <2>1, <2>3
  <2>5. Fires(found)
    BY <1>4, <2>2, <2>3
  <2>6. ASSUME NEW t \in FirstMinute(thisDay - Lookback)..now, t > found PROVE ~Fires(t)
    <3>1. FirstMinute(thisDay - Lookback) \in Int
      BY <1>2 DEF FirstMinute
    <3>2. t \in FirstMinute(cursor)..(FirstMinute(cursor + 1) - 1) \/ t \in FirstMinute(cursor + 1)..now
      BY <1>1, <1>3, <2>3, <2>6, <3>1
    <3>3. t \notin fires
      BY <2>2, <2>3, <2>6, <3>1
    <3>4. QED
      BY <1>1, <1>4, <3>2, <3>3
  <2>7. FirstDayBack' = thisDay - Lookback
    BY <2>4 DEF FirstDayBack
  <2>8. found \in FirstMinute(thisDay - Lookback)..now
    <3>1. thisDay - Lookback <= cursor /\ thisDay - Lookback \in Int
      BY <1>1, <1>2, <1>10 DEF DaysToWalk
    <3>2. /\ FirstMinute(thisDay - Lookback) <= FirstMinute(cursor)
          /\ FirstMinute(thisDay - Lookback) \in Int
      BY <1>1, <3>1, DaysInOrder
    <3>3. QED
      BY <1>1, <1>3, <2>3, <3>2
  <2>9. QED
    BY <1>1, <2>3, <2>4, <2>5, <2>6, <2>7, <2>8 DEF WalkInv, Fires, FirstMinute
<1>11. QED
  BY <1>8, <1>9, <1>10

LEMMA WalkStep ==
    ASSUME WalkInv, [CronNext]_cronVars
    PROVE  WalkInv'
<1>1. CASE UNCHANGED cronVars
  BY <1>1 DEF cronVars, WalkInv, Fires, FirstMinute, FirstDayBack
<1>2. QED
  BY <1>1, WalkStarts, WalksToday, WalksDays DEF CronNext

LEMMA WalkInitially == CronInit => WalkInv
BY DEF CronInit, NoWalk, WalkInv

LEMMA WalkTypes == ASSUME WalkInv PROVE CronTypeOK
BY DEF WalkInv, CronTypeOK

\* previous_fire()'s "most recent fire time at or before now": what the walk
\* answers is a time that matches with no later one, and where it answers None,
\* no minute of the _LOOKBACK_DAYS before the day of now matches, nor of that
\* day; whatever the calendar is.
THEOREM LatestFireFound ==
    CronSpec => [](walk.at = "done" =>
                     /\ \A t \in FirstMinute(FirstDayBack)..walk.now :
                           t > walk.found => ~Fires(t)
                     /\ walk.found # -1 =>
                           walk.found \in FirstMinute(FirstDayBack)..walk.now /\ Fires(walk.found))
<1> DEFINE Answered == walk.at = "done" =>
                     /\ \A t \in FirstMinute(FirstDayBack)..walk.now :
                           t > walk.found => ~Fires(t)
                     /\ walk.found # -1 =>
                           walk.found \in FirstMinute(FirstDayBack)..walk.now /\ Fires(walk.found)
<1>1. CronInit => WalkInv
  BY WalkInitially
<1>2. WalkInv /\ [CronNext]_cronVars => WalkInv'
  BY WalkStep
<1>3. WalkInv => Answered
  BY DEF WalkInv
<1> HIDE DEF Answered
<1>4. CronSpec => []Answered
  BY <1>1, <1>2, <1>3, PTL DEF CronSpec
<1>5. QED
  BY <1>4 DEF Answered

\* The rest and the quotient of a number that is written with them.
LEMMA RestOf ==
    ASSUME NEW n \in Nat \ {0}, NEW q \in Int, NEW r \in 0..(n - 1)
    PROVE  (q * n + r) % n = r /\ (q * n + r) \div n = q
<1> DEFINE t == q * n + r
<1>1. t \in Int /\ t \in (q * n)..((q + 1) * n - 1)
  OBVIOUS
<1>2. t \div n = q
  BY <1>1, Quotient
<1>3. t % n \in Int /\ t = n * (t \div n) + (t % n)
  BY <1>1, Division
<1>4. n * q = q * n /\ n * q \in Int
  OBVIOUS
<1> DEFINE rest == t % n
           base == n * q
<1>5. rest \in Int /\ t = base + rest /\ t = base + r /\ base \in Int
  BY <1>2, <1>3, <1>4
<1> HIDE DEF rest, base, t
<1>6. rest = r
  BY <1>5
<1>7. QED
  BY <1>2, <1>6 DEF rest, t

LEMMA SameRest ==
    ASSUME NEW n \in Nat \ {0}, NEW q \in Int, NEW t \in Int
    PROVE  (t + q * n) % n = t % n
<1> DEFINE p == t \div n
           r == t % n
<1>1. p \in Int /\ r \in 0..(n - 1) /\ t = n * p + r
  BY Division
<1> HIDE DEF p, r
<1>2. t + q * n = (p + q) * n + r /\ p + q \in Int
  BY <1>1
<1>3. ((p + q) * n + r) % n = r
  BY <1>1, <1>2, RestOf
<1>4. QED
  BY <1>2, <1>3 DEF r

\* A year starts at a day that is so many whole years into its cycle.
YearStart(s) == \E a \in 0..(LeapCycle - 1) : s % CycleDays = a * YearDays

LEMMA CalendarNumbers ==
    /\ YearDays \in Nat \ {0} /\ CycleDays \in Nat \ {0} /\ LeapCycle \in Nat \ {0, 1}
    /\ Week \in Nat \ {0} /\ MonthLength \in Nat \ {0} /\ Week < MonthLength
    /\ YearDays = 2 * MonthLength - 1 /\ CycleDays = LeapCycle * YearDays + 1
    /\ 2 * YearDays < CycleDays
<1>1. /\ LeapCycle \in Nat \ {0, 1} /\ Week \in Nat \ {0} /\ MonthLength \in Nat \ {0}
      /\ Week < MonthLength
  BY CronAssumption
<1>2. YearDays \in Nat \ {0} /\ YearDays = 2 * MonthLength - 1
  BY <1>1 DEF YearDays
<1>3. CycleDays = LeapCycle * YearDays + 1
  BY DEF CycleDays
<1>4. LeapCycle * YearDays \in Nat /\ 2 * YearDays <= LeapCycle * YearDays
  BY <1>1, <1>2
<1>5. QED
  BY <1>1, <1>2, <1>3, <1>4

LEMMA DaysOfYear ==
    ASSUME NEW s \in Int, YearStart(s), NEW k \in 0..(YearDays - 1)
    PROVE  YearDay(s + k) = k
<1> DEFINE q == s \div CycleDays
           rest == s % CycleDays
<1>1. /\ YearDays \in Nat \ {0} /\ CycleDays \in Nat \ {0} /\ LeapCycle \in Nat \ {0, 1}
      /\ CycleDays = LeapCycle * YearDays + 1
  BY CalendarNumbers
<1>2. q \in Int /\ rest \in 0..(CycleDays - 1) /\ s = CycleDays * q + rest
  <2>1. CycleDays \in Nat \ {0} /\ s \in Int
    BY <1>1
  <2>2. QED
    BY <2>1, Division
<1>3. PICK a \in 0..(LeapCycle - 1) : rest = a * YearDays
  BY DEF YearStart
<1> HIDE DEF q, rest
<1> DEFINE d == a * YearDays + k
<1>4. d \in 0..(CycleDays - 2)
  <2>1. a * YearDays <= (LeapCycle - 1) * YearDays
    BY <1>1, <1>3
  <2>2. (LeapCycle - 1) * YearDays = LeapCycle * YearDays - YearDays
    BY <1>1
  <2>3. a * YearDays \in Nat /\ LeapCycle * YearDays \in Nat
    BY <1>1, <1>3
  <2>4. QED
    BY <1>1, <2>1, <2>2, <2>3
<1>5. d % YearDays = k
  <2>1. a \in Int
    OBVIOUS
  <2>2. QED
    BY <1>1, <2>1, RestOf
<1>6. s + k = q * CycleDays + d
  BY <1>1, <1>2, <1>3
<1> HIDE DEF d
<1>7. (q * CycleDays + d) % CycleDays = d
  <2>1. d \in 0..(CycleDays - 1)
    BY <1>1, <1>4
  <2>2. QED
    BY <1>1, <1>2, <2>1, RestOf
<1>8. (s + k) % CycleDays = d /\ d # CycleDays - 1
  BY <1>1, <1>4, <1>6, <1>7
<1>9. QED
  BY <1>5, <1>8 DEF YearDay

\* Every day is in a year, which another one follows.
LEMMA YearAfter ==
    ASSUME NEW day \in Int
    PROVE  \E s \in Int : /\ YearStart(s) /\ day < s /\ s <= day + YearDays + 1
<1> DEFINE d == day % CycleDays
           q == day \div CycleDays
<1>1. /\ q \in Int /\ d \in 0..(CycleDays - 1) /\ day = CycleDays * q + d
      /\ CycleDays \in Nat \ {0} /\ YearDays \in Nat \ {0} /\ LeapCycle \in Nat \ {0, 1}
      /\ CycleDays = LeapCycle * YearDays + 1
  BY Division, CalendarNumbers
<1> HIDE DEF d, q
<1> DEFINE a == d \div YearDays
           r == d % YearDays
<1>2. a \in Int /\ r \in 0..(YearDays - 1) /\ d = YearDays * a + r
  BY <1>1, Division
<1> HIDE DEF a, r
<1>3. 0 <= a
  <2>1. ASSUME a <= -1 PROVE FALSE
    <3>1. YearDays * a <= -YearDays
      BY <1>1, <1>2, <2>1
    <3>2. YearDays * a \in Int
      BY <1>1, <1>2
    <3>3. QED
      BY <1>1, <1>2, <3>1, <3>2
  <2>2. QED
    BY <1>2, <2>1
<1>4. CASE a + 1 < LeapCycle
  <2> DEFINE s == q * CycleDays + (a + 1) * YearDays
  <2>1. (a + 1) * YearDays \in 0..(CycleDays - 1)
    <3>1. (a + 1) * YearDays <= LeapCycle * YearDays
      BY <1>1, <1>2, <1>4
    <3>2. (a + 1) * YearDays \in Nat /\ LeapCycle * YearDays \in Nat
      BY <1>1, <1>2, <1>3
    <3>3. QED
      BY <1>1, <3>1, <3>2
  <2>2. s % CycleDays = (a + 1) * YearDays
    BY <1>1, <2>1, RestOf
  <2>3. YearStart(s)
    <3>1. a + 1 \in 0..(LeapCycle - 1)
      BY <1>1, <1>2, <1>3, <1>4
    <3>2. QED
      BY <2>2, <3>1 DEF YearStart
  <2>4. s = day - r + YearDays
    BY <1>1, <1>2
  <2>5. s \in Int /\ day < s /\ s <= day + YearDays + 1
    <3>1. day \in Int
      OBVIOUS
    <3> HIDE DEF s
    <3>2. QED
      BY <1>1, <1>2, <2>4, <3>1
  <2>6. QED
    BY <2>3, <2>5
<1>5. CASE LeapCycle <= a + 1
  <2> DEFINE s == (q + 1) * CycleDays + 0
  <2>1. YearStart(s) /\ s \in Int
    <3>1. s % CycleDays = 0
      <4>1. q + 1 \in Int /\ 0 \in 0..(CycleDays - 1)
        BY <1>1
      <4> DEFINE p == q + 1
      <4> HIDE DEF p
      <4>2. (p * CycleDays + 0) % CycleDays = 0
        BY <1>1, <4>1, RestOf DEF p
      <4>3. QED
        BY <4>2 DEF p
    <3>2. 0 \in 0..(LeapCycle - 1) /\ 0 * YearDays = 0
      BY <1>1
    <3>3. QED
      BY <1>1, <3>1, <3>2 DEF YearStart
  <2>2. s = day - d + CycleDays
    BY <1>1
  <2>3. CycleDays - 1 - YearDays <= d
    <3>1. (LeapCycle - 1) * YearDays <= YearDays * a
      BY <1>1, <1>2, <1>5
    <3>2. (LeapCycle - 1) * YearDays = LeapCycle * YearDays - YearDays
      BY <1>1
    <3>3. LeapCycle * YearDays \in Int /\ YearDays * a \in Int
      BY <1>1, <1>2
    <3>4. QED
      BY <1>1, <1>2, <3>1, <3>2, <3>3
  <2>4. day < s /\ s <= day + YearDays + 1
    <3>1. day \in Int
      OBVIOUS
    <3> HIDE DEF s
    <3>2. QED
      BY <1>1, <2>1, <2>2, <2>3, <3>1
  <2>5. QED
    BY <2>1, <2>4
<1>6. QED
  BY <1>1, <1>2, <1>4, <1>5

\* The same day of the cycle is the same day of the same month.
LEMMA NextCycle ==
    ASSUME NEW day \in Int
    PROVE  MonthOf(day + CycleDays) = MonthOf(day) /\ DayOfMonth(day + CycleDays) = DayOfMonth(day)
<1>1. CycleDays \in Nat \ {0} /\ day + CycleDays = day + 1 * CycleDays
  BY CalendarNumbers
<1>2. (day + 1 * CycleDays) % CycleDays = day % CycleDays
  <2>1. \A q \in Int : (day + q * CycleDays) % CycleDays = day % CycleDays
    BY <1>1, SameRest
  <2>2. 1 \in Int
    OBVIOUS
  <2>3. QED
    BY <2>1, <2>2, Zenon
<1>3. YearDay(day + CycleDays) = YearDay(day)
  <2>1. (day + CycleDays) % CycleDays = day % CycleDays
    BY <1>1, <1>2, Zenon
  <2>2. QED
    BY <2>1 DEF YearDay
<1>4. QED
  BY <1>3 DEF MonthOf, DayOfMonth

\* A month of the next year has a day of every weekday.
LEMMA SameWeekday ==
    ASSUME NEW day \in Int
    PROVE  \E e \in (day + 1)..(day + CycleDays - 1) :
              MonthOf(e) = MonthOf(day) /\ WeekdayOf(e) = WeekdayOf(day)
<1>1. /\ YearDays \in Nat \ {0} /\ CycleDays \in Nat \ {0} /\ Week \in Nat \ {0}
      /\ MonthLength \in Nat \ {0} /\ Week < MonthLength /\ YearDays = 2 * MonthLength - 1
      /\ 2 * YearDays < CycleDays
  BY CalendarNumbers
<1>2. PICK s \in Int : YearStart(s) /\ day < s /\ s <= day + YearDays + 1
  BY YearAfter
<1> DEFINE first == IF MonthOf(day) = 1 THEN 0 ELSE MonthLength
           F == s + first
<1>3. F \in Int /\ first \in {0, MonthLength}
  BY <1>1, <1>2
<1>4. PICK q \in Int, r \in 0..(Week - 1) : day - F = Week * q + r
  <2>1. day - F \in Int
    BY <1>3
  <2>2. /\ (day - F) \div Week \in Int /\ (day - F) % Week \in 0..(Week - 1)
        /\ day - F = Week * ((day - F) \div Week) + ((day - F) % Week)
    BY <1>1, <2>1, Division
  <2>3. QED
    BY <2>2
<1> DEFINE k == first + r
           e == s + k
<1>5. k \in 0..(YearDays - 1) /\ (IF k < MonthLength THEN 1 ELSE 2) = MonthOf(day)
  <2>1. MonthOf(day) \in {1, 2}
    BY DEF MonthOf
  <2>2. QED
    BY <1>1, <1>4, <2>1
<1>6. MonthOf(e) = MonthOf(day)
  <2>1. YearDay(e) = k
    BY <1>2, <1>5, DaysOfYear
  <2>2. QED
    BY <1>5, <2>1 DEF MonthOf
<1> HIDE DEF first
<1>7. e = day + (-q) * Week /\ -q \in Int
  <2>1. (-q) * Week = -(Week * q)
    BY <1>1
  <2>2. Week * q \in Int
    BY <1>1
  <2>3. QED
    BY <1>1, <1>2, <1>3, <1>4, <2>1, <2>2
<1>8. e % Week = day % Week
  <2> HIDE DEF e
  <2>1. Week \in Nat \ {0}
    BY <1>1
  <2>2. (day + (-q) * Week) % Week = day % Week
    BY <1>7, <2>1, SameRest, Zenon
  <2>3. QED
    BY <1>7, <2>2, Zenon
<1>9. e \in (day + 1)..(day + CycleDays - 1)
  <2>1. k \in 0..(YearDays - 1)
    BY <1>5
  <2> HIDE DEF k
  <2>2. QED
    BY <1>1, <1>2, <2>1
<1>10. QED
  BY <1>6, <1>8, <1>9 DEF WeekdayOf

\* Whatever an expression says of the days, it says of another within a cycle.
LEMMA DaysRepeat ==
    ASSUME NEW c, NEW day \in Int, DayMatches(c, day)
    PROVE  \E e \in (day + 1)..(day + CycleDays) : DayMatches(c, e)
<1> DEFINE dom(e) == Allows(c, 3, DayOfMonth(e))
           dow(e) == Allows(c, 5, WeekdayOf(e))
<1>1. /\ Allows(c, 4, MonthOf(day))
      /\ IF c[3] # {} /\ c[5] # {} THEN dom(day) \/ dow(day) ELSE dom(day) /\ dow(day)
  BY DEF DayMatches
<1>2. \A e : (c[3] = {} => dom(e)) /\ (c[5] = {} => dow(e))
  BY DEF Allows
<1>3. CycleDays \in Nat \ {0}
  BY CalendarNumbers
<1>4. CASE dom(day) /\ c[3] # {}
  <2> DEFINE e == day + CycleDays
  <2>1. MonthOf(e) = MonthOf(day) /\ DayOfMonth(e) = DayOfMonth(day)
    BY NextCycle
  <2>2. Allows(c, 4, MonthOf(e)) /\ dom(e)
    BY <1>1, <1>4, <2>1
  <2>3. c[5] # {} \/ dow(e)
    BY <1>2
  <2> HIDE DEF dom, dow
  <2>4. DayMatches(c, e)
    BY <1>4, <2>2, <2>3 DEF DayMatches, dom, dow
  <2>5. e \in (day + 1)..(day + CycleDays)
    BY <1>3
  <2>6. QED
    BY <2>4, <2>5
<1>5. CASE dow(day) /\ (c[3] = {} \/ c[5] # {})
  <2>1. PICK e \in (day + 1)..(day + CycleDays - 1) :
             MonthOf(e) = MonthOf(day) /\ WeekdayOf(e) = WeekdayOf(day)
    BY SameWeekday
  <2>2. Allows(c, 4, MonthOf(e)) /\ dow(e)
    BY <1>1, <1>5, <2>1
  <2>3. c[3] # {} \/ dom(e)
    BY <1>2
  <2> HIDE DEF dom, dow
  <2>4. DayMatches(c, e)
    BY <1>5, <2>2, <2>3 DEF DayMatches, dom, dow
  <2>5. e \in (day + 1)..(day + CycleDays)
    BY <1>3, <2>1
  <2>6. QED
    BY <2>4, <2>5
<1>6. QED
  BY <1>1, <1>2, <1>4, <1>5

\* The same minute of another day.
LEMMA SameMinute ==
    ASSUME NEW t \in Int, NEW day \in Int
    PROVE  \E u \in FirstMinute(day)..(FirstMinute(day + 1) - 1) :
              \A c : MatchesMinute(c, t) => MatchesMinute(c, u)
<1>1. DayMinutes \in Nat \ {0} /\ HoursInDay \in Nat \ {0} /\ MinutesInHour \in Nat \ {0}
      /\ DayMinutes = HoursInDay * MinutesInHour
  BY DaysAndMinutes, CronAssumption DEF DayMinutes
<1> DEFINE p == t \div DayMinutes
           r == t % DayMinutes
           u == day * DayMinutes + r
<1>2. p \in Int /\ r \in 0..(DayMinutes - 1) /\ t = DayMinutes * p + r
  BY <1>1, Division
<1>3. u % DayMinutes = t % DayMinutes
  BY <1>1, <1>2, RestOf
<1> HIDE DEF p, r
<1>4. u = t + ((day - p) * HoursInDay) * MinutesInHour /\ (day - p) * HoursInDay \in Int
  <2>1. /\ DayMinutes * p = (p * HoursInDay) * MinutesInHour
        /\ day * DayMinutes = (day * HoursInDay) * MinutesInHour
        /\ (day - p) * HoursInDay = day * HoursInDay - p * HoursInDay
    BY <1>1, <1>2
  <2>2. /\ p * HoursInDay \in Int /\ day * HoursInDay \in Int
        /\ (p * HoursInDay) * MinutesInHour \in Int /\ (day * HoursInDay) * MinutesInHour \in Int
    BY <1>1, <1>2
  <2>3. (day * HoursInDay - p * HoursInDay) * MinutesInHour
           = (day * HoursInDay) * MinutesInHour - (p * HoursInDay) * MinutesInHour
    BY <1>1, <2>2
  <2>4. QED
    BY <1>2, <2>1, <2>2, <2>3
<1>5. u % MinutesInHour = t % MinutesInHour
  <2> DEFINE q == (day - p) * HoursInDay
  <2>1. MinutesInHour \in Nat \ {0} /\ q \in Int /\ u = t + q * MinutesInHour
    BY <1>1, <1>4, Zenon
  <2> HIDE DEF q, u
  <2>2. (t + q * MinutesInHour) % MinutesInHour = t % MinutesInHour
    BY <2>1, SameRest, Zenon
  <2>3. QED
    BY <2>1, <2>2, Zenon
<1>6. \A c : MatchesMinute(c, t) => MatchesMinute(c, u)
  BY <1>3, <1>5 DEF MatchesMinute, MinuteOf, HourOf
<1>7. u \in FirstMinute(day)..(FirstMinute(day + 1) - 1)
  <2>1. (day + 1) * DayMinutes = day * DayMinutes + DayMinutes /\ day * DayMinutes \in Int
    BY <1>1
  <2>2. QED
    BY <1>1, <1>2, <2>1 DEF FirstMinute
<1>8. QED
  BY <1>6, <1>7

\* Where the walk looks back at a whole cycle, None is an answer for ever.
LEMMA NoneForEver ==
    ASSUME WalkInv, CycleDays <= Lookback, walk.at = "done", walk.found = -1,
           NEW t \in 0..walk.now
    PROVE  ~Fires(t)
<1> DEFINE now == walk.now
           thisDay == DayOf(now)
           T == {d \in Int : d < thisDay - Lookback /\ DayMatches(cron, d)}
<1>1. /\ now \in Nat /\ thisDay \in Int /\ Lookback \in Nat \ {0} /\ DayMinutes \in Nat \ {0}
      /\ FirstMinute(thisDay) <= now /\ FirstMinute(thisDay) \in Int
      /\ \A u \in FirstMinute(thisDay - Lookback)..now : u > -1 => ~Fires(u)
      /\ CycleDays \in Nat \ {0}
  <2>1. /\ now \in Nat /\ \A u \in FirstMinute(thisDay - Lookback)..now : u > -1 => ~Fires(u)
    BY DEF WalkInv, FirstDayBack
  <2>2. /\ thisDay \in Int /\ thisDay * DayMinutes <= now /\ DayMinutes \in Nat \ {0}
        /\ Lookback \in Nat \ {0} /\ CycleDays \in Nat \ {0}
    <3>1. CycleDays \in Nat \ {0}
      BY CalendarNumbers
    <3>2. now \in Int
      BY <2>1
    <3>3. QED
      BY <3>1, <3>2, DaysAndMinutes
  <2> HIDE DEF thisDay, now
  <2>3. FirstMinute(thisDay) <= now /\ FirstMinute(thisDay) \in Int
    BY <2>2 DEF FirstMinute
  <2>4. QED
    BY <2>1, <2>2, <2>3
<1>2. /\ t \in Nat /\ DayOf(t) \in Int /\ DayOf(t) * DayMinutes <= t
      /\ t < (DayOf(t) + 1) * DayMinutes
  <2>1. t \in Nat /\ t \in Int
    OBVIOUS
  <2>2. QED
    BY <2>1, DaysAndMinutes, Zenon
<1>3. 0 <= DayOf(t)
  <2>1. ASSUME DayOf(t) + 1 <= 0 PROVE FALSE
    <3>1. (DayOf(t) + 1) * DayMinutes <= 0
      BY <1>1, <1>2, <2>1
    <3>2. (DayOf(t) + 1) * DayMinutes \in Int
      BY <1>1, <1>2
    <3>3. QED
      BY <1>2, <3>1, <3>2
  <2>2. QED
    BY <1>2, <2>1
<1>4. SUFFICES ASSUME Fires(t) PROVE FALSE
  OBVIOUS
<1>5. DayOf(t) \in T
  <2>1. DayMatches(cron, DayOf(t))
    BY <1>4 DEF Fires
  <2>2. ASSUME thisDay - Lookback <= DayOf(t) PROVE FALSE
    <3>1. /\ FirstMinute(thisDay - Lookback) <= FirstMinute(DayOf(t))
          /\ FirstMinute(thisDay - Lookback) \in Int /\ FirstMinute(DayOf(t)) \in Int
      BY <1>1, <1>2, <2>2, DaysInOrder
    <3>2. FirstMinute(DayOf(t)) <= t
      BY <1>2 DEF FirstMinute
    <3>3. t \in FirstMinute(thisDay - Lookback)..now /\ t > -1
      BY <1>1, <1>2, <3>1, <3>2
    <3>4. QED
      BY <1>1, <1>4, <3>3
  <2>3. QED
    BY <1>1, <1>2, <2>1, <2>2
<1>6. PICK g \in T : \A d \in T : d <= g
  <2>1. T \in SUBSET Int /\ T # {} /\ \A d \in T : d <= thisDay - Lookback
    BY <1>1, <1>5
  <2>2. thisDay - Lookback \in Int
    BY <1>1
  <2> HIDE DEF T
  <2>3. QED
    BY <2>1, <2>2, GreatestBelow
<1>7. g \in Int /\ g < thisDay - Lookback /\ DayMatches(cron, g) /\ DayOf(t) <= g
  BY <1>5, <1>6
<1>8. PICK e \in (g + 1)..(g + CycleDays) : DayMatches(cron, e)
  BY <1>7, DaysRepeat
<1>9. e \in Int /\ g < e /\ e <= thisDay - 1
  BY <1>1, <1>7
<1>10. thisDay - Lookback <= e
  BY <1>1, <1>6, <1>8, <1>9
<1>11. PICK u \in FirstMinute(e)..(FirstMinute(e + 1) - 1) :
            \A c : MatchesMinute(c, t) => MatchesMinute(c, u)
  <2>1. t \in Int /\ e \in Int
    BY <1>2, <1>9
  <2> HIDE DEF FirstMinute
  <2>2. QED
    BY <2>1, SameMinute, Zenon
<1>12. Fires(u)
  <2>1. u \in (e * DayMinutes)..((e + 1) * DayMinutes - 1)
    BY DEF FirstMinute
  <2>2. DayOf(u) = e
    BY <1>9, <2>1, DaysAndMinutes
  <2>3. MatchesMinute(cron, u)
    BY <1>4, <1>11 DEF Fires
  <2>4. QED
    BY <1>8, <2>2, <2>3 DEF Fires
<1>13. u \in FirstMinute(thisDay - Lookback)..now /\ u > -1
  <2>1. /\ FirstMinute(thisDay - Lookback) <= FirstMinute(e) /\ FirstMinute(e + 1) <= FirstMinute(thisDay)
        /\ FirstMinute(0) <= FirstMinute(e) /\ FirstMinute(0) \in Int
        /\ FirstMinute(thisDay - Lookback) \in Int
        /\ FirstMinute(e) \in Int /\ FirstMinute(e + 1) \in Int
    <3>1. thisDay - Lookback \in Int /\ e + 1 \in Int /\ e + 1 <= thisDay /\ 0 <= e
      BY <1>1, <1>2, <1>3, <1>7, <1>9
    <3>2. QED
      BY <1>1, <1>9, <1>10, <3>1, DaysInOrder
  <2>2. FirstMinute(0) = 0
    BY <1>1 DEF FirstMinute
  <2>3. QED
    BY <1>1, <1>11, <2>1, <2>2
<1>14. QED
  BY <1>1, <1>12, <1>13

\* "Covers every Feb-29 cadence within any leap cycle": where _LOOKBACK_DAYS is a
\* whole cycle of the calendar (1462 days, of a cycle of 1461), the answer of
\* previous_fire() is the last time the expression fires at or before now, and
\* None means that it fires at no time before it.
THEOREM LatestFireAnswered ==
    ASSUME CycleDays <= Lookback
    PROVE  CronSpec => [](CronTypeOK /\ FiresLatest)
<1>1. WalkInv => FiresLatest
  <2>1. SUFFICES ASSUME WalkInv, walk.at = "done"
                 PROVE  /\ \A t \in (walk.found + 1)..walk.now : ~Fires(t)
                        /\ walk.found # -1 => walk.found <= walk.now /\ Fires(walk.found)
    BY DEF FiresLatest, Fires
  <2>2. walk.now \in Nat /\ walk.found \in Int
    BY <2>1 DEF WalkInv
  <2>3. FirstMinute(FirstDayBack) \in Int
    <3>1. DayOf(walk.now) \in Int /\ Lookback \in Nat /\ DayMinutes \in Nat
      <4>1. walk.now \in Int
        BY <2>2
      <4>2. QED
        BY <4>1, DaysAndMinutes, Zenon
    <3>2. FirstDayBack \in Int
      BY <3>1 DEF FirstDayBack
    <3>3. QED
      BY <3>1, <3>2 DEF FirstMinute
  <2>4. CASE walk.found # -1
    <3>1. /\ walk.found \in FirstMinute(FirstDayBack)..walk.now /\ Fires(walk.found)
          /\ \A t \in FirstMinute(FirstDayBack)..walk.now : t > walk.found => ~Fires(t)
      BY <2>1, <2>4 DEF WalkInv
    <3>2. \A t \in (walk.found + 1)..walk.now :
             t \in FirstMinute(FirstDayBack)..walk.now /\ t > walk.found
      BY <2>2, <2>3, <3>1
    <3>3. QED
      BY <2>2, <2>3, <3>1, <3>2
  <2>5. CASE walk.found = -1
    <3>1. \A t \in 0..walk.now : ~Fires(t)
      BY <2>1, <2>5, NoneForEver
    <3>2. walk.found + 1 = 0
      BY <2>5
    <3>3. QED
      BY <2>5, <3>1, <3>2
  <2>6. QED
    BY <2>4, <2>5
<1>2. CronInit => WalkInv
  BY WalkInitially
<1>3. WalkInv /\ [CronNext]_cronVars => WalkInv'
  BY WalkStep
<1>4. WalkInv => CronTypeOK
  BY WalkTypes
<1>5. QED
  BY <1>1, <1>2, <1>3, <1>4, PTL DEF CronSpec

-----------------------------------------------------------------------------
(* The assignment rule.                                                    *)

\* The place of a user among the candidates, and who has a place.
Place(C, u) == Cardinality({v \in C : v < u})
AtPlace(C, i) == CHOOSE u \in C : Place(C, u) = i

\* A map that names every member of a set once counts it.
LEMMA CountedBy ==
    ASSUME NEW S, IsFiniteSet(S), NEW T, NEW f \in [S -> T],
           \A x, y \in S : f[x] = f[y] => x = y, \A t \in T : \E x \in S : f[x] = t
    PROVE  IsFiniteSet(T) /\ Cardinality(T) = Cardinality(S)
<1>1. f \in Bijection(S, T)
  BY DEF Bijection, Injection, Surjection, IsInjective
<1>2. ExistsBijection(S, T)
  BY <1>1 DEF ExistsBijection
<1>3. QED
  BY <1>2, FS_Bijection

LEMMA Places ==
    ASSUME NEW C \in SUBSET Nat, IsFiniteSet(C), C # {}
    PROVE  /\ Cardinality(C) \in Nat \ {0}
           /\ \A u \in C : Place(C, u) \in 0..(Cardinality(C) - 1)
           /\ \A u, w \in C : Place(C, u) = Place(C, w) => u = w
           /\ \A i \in 0..(Cardinality(C) - 1) : \E u \in C : Place(C, u) = i
<1> DEFINE n == Cardinality(C)
           below(u) == {v \in C : v < u}
           f == [u \in C |-> Place(C, u)]
<1>1. n \in Nat \ {0}
  BY FS_CardinalityType, FS_EmptySet
<1>2. ASSUME NEW u \in C
      PROVE  Place(C, u) \in 0..(n - 1) /\ Place(C, u) \in Nat /\ IsFiniteSet(below(u))
  <2>1. IsFiniteSet(C \ {u}) /\ Cardinality(C \ {u}) = n - 1
    BY FS_RemoveElement
  <2>2. below(u) \in SUBSET (C \ {u})
    OBVIOUS
  <2>3. /\ IsFiniteSet(below(u)) /\ Cardinality(below(u)) <= n - 1
        /\ Cardinality(below(u)) \in Nat
    BY <2>1, <2>2, FS_Subset, FS_CardinalityType
  <2>4. QED
    BY <1>1, <2>3 DEF Place
<1>3. ASSUME NEW u \in C, NEW w \in C, u < w PROVE Place(C, u) < Place(C, w)
  <2>1. IsFiniteSet(below(u)) /\ IsFiniteSet(below(w)) /\ u \notin below(u)
    BY <1>2
  <2>2. Cardinality(below(u) \cup {u}) = Place(C, u) + 1
    BY <2>1, FS_AddElement DEF Place
  <2>3. below(u) \cup {u} \in SUBSET below(w)
    <3>1. u \in Nat /\ w \in Nat /\ \A v \in C : v \in Nat
      OBVIOUS
    <3>2. \A v \in below(u) : v < w
      BY <1>3, <3>1
    <3>3. QED
      BY <1>3, <3>2
  <2>4. Place(C, u) + 1 <= Place(C, w)
    BY <2>1, <2>2, <2>3, FS_Subset DEF Place
  <2>5. Place(C, u) \in Nat /\ Place(C, w) \in Nat
    BY <1>1, <1>2
  <2>6. QED
    BY <2>4, <2>5
<1>4. \A u, w \in C : Place(C, u) = Place(C, w) => u = w
  <2>1. SUFFICES ASSUME NEW u \in C, NEW w \in C, Place(C, u) = Place(C, w), u # w
                 PROVE  FALSE
    OBVIOUS
  <2>2. u < w \/ w < u
    BY <2>1
  <2>3. Place(C, u) < Place(C, w) \/ Place(C, w) < Place(C, u)
    BY <1>3, <2>2
  <2>4. Place(C, u) \in Nat /\ Place(C, w) \in Nat
    BY <1>1, <1>2
  <2>5. QED
    BY <2>1, <2>3, <2>4
<1>5. f \in Injection(C, 0..(n - 1))
  BY <1>2, <1>4 DEF Injection, IsInjective
<1>6. IsFiniteSet(0..(n - 1)) /\ Cardinality(0..(n - 1)) = n
  BY <1>1, FS_Interval
<1>7. f \in Surjection(C, 0..(n - 1))
  BY <1>5, <1>6, FS_Injection
<1>8. QED
  BY <1>1, <1>2, <1>4, <1>7 DEF Surjection

\* Who has a place.
LEMMA PlaceTaken ==
    ASSUME NEW C \in SUBSET Nat, IsFiniteSet(C), C # {}, NEW i \in 0..(Cardinality(C) - 1)
    PROVE  AtPlace(C, i) \in C /\ Place(C, AtPlace(C, i)) = i
<1>1. \E u \in C : Place(C, u) = i
  BY Places
<1>2. QED
  BY <1>1 DEF AtPlace

\* Of m turns among n, the one p turns from now has every nth.
Turns(n, p, m) == {k \in 1..m : (k - 1) % n = p}

LEMMA TurnsCounted ==
    ASSUME NEW n \in Nat \ {0}, NEW p \in 0..(n - 1), NEW m \in Nat
    PROVE  /\ IsFiniteSet(Turns(n, p, m))
           /\ Cardinality(Turns(n, p, m)) = (m \div n) + (IF p < m % n THEN 1 ELSE 0)
<1> DEFINE Q == m \div n
           R == m % n
           J == Q + (IF p < R THEN 1 ELSE 0)
           T == Turns(n, p, m)
           f == [j \in 0..(J - 1) |-> j * n + (p + 1)]
<1>1. Q \in Int /\ R \in 0..(n - 1) /\ m = n * Q + R
  BY Division
<1> HIDE DEF Q, R
<1>2. Q \in Nat
  <2>1. ASSUME Q <= -1 PROVE FALSE
    <3>1. n * Q <= -n
      BY <1>1, <2>1
    <3>2. n * Q \in Int
      BY <1>1
    <3>3. QED
      BY <1>1, <3>1, <3>2
  <2>2. QED
    BY <1>1, <2>1
<1>3. J \in Nat
  BY <1>1, <1>2
<1>4. ASSUME NEW j \in 0..(J - 1) PROVE j * n + (p + 1) \in T
  <2>1. j \in Nat /\ j * n \in Nat
    BY <1>3
  <2>2. (j * n + p) % n = p
    <3>1. j \in Int
      BY <2>1
    <3> HIDE DEF J
    <3>2. QED
      BY <3>1, RestOf
  <2>3. j * n + (p + 1) <= m
    <3>1. CASE j + 1 <= Q
      <4>1. (j + 1) * n <= Q * n /\ (j + 1) * n = j * n + n /\ Q * n = n * Q /\ Q * n \in Int
        BY <1>1, <2>1, <3>1
      <4>2. QED
        BY <1>1, <2>1, <4>1
    <3>2. CASE j = Q /\ p < R
      <4>1. j * n = n * Q
        BY <1>1, <3>2
      <4>2. QED
        BY <1>1, <2>1, <3>2, <4>1
    <3>3. QED
      BY <1>1, <1>2, <3>1, <3>2
  <2>4. (j * n + (p + 1)) - 1 = j * n + p
    BY <2>1
  <2>5. j * n + (p + 1) \in 1..m
    BY <2>1, <2>3
  <2>6. QED
    BY <2>2, <2>4, <2>5 DEF Turns
<1>5. ASSUME NEW k \in T PROVE \E j \in 0..(J - 1) : f[j] = k
  <2>1. k \in 1..m /\ (k - 1) % n = p
    BY DEF Turns
  <2> DEFINE j == (k - 1) \div n
  <2>2. j \in Int /\ k - 1 = n * j + p
    <3>1. k - 1 \in Int
      BY <2>1
    <3>2. j \in Int /\ k - 1 = n * j + ((k - 1) % n)
      BY <3>1, Division
    <3>3. QED
      BY <2>1, <3>2
  <2> HIDE DEF j
  <2>3. 0 <= j
    <3>1. ASSUME j <= -1 PROVE FALSE
      <4>1. n * j <= -n /\ n * j \in Int
        BY <2>2, <3>1
      <4>2. QED
        BY <2>1, <2>2, <4>1
    <3>2. QED
      BY <2>2, <3>1
  <2>4. j <= Q
    <3>1. ASSUME Q + 1 <= j PROVE FALSE
      <4>1. n * (Q + 1) <= n * j /\ n * (Q + 1) = n * Q + n /\ n * Q \in Int /\ n * j \in Int
        BY <1>1, <2>2, <3>1
      <4>2. QED
        BY <1>1, <2>1, <2>2, <4>1
    <3>2. QED
      BY <1>1, <2>2, <3>1
  <2>5. j = Q => p < R
    <3>1. ASSUME j = Q PROVE p < R
      <4>1. k - 1 = n * Q + p /\ n * Q \in Int
        BY <1>1, <2>2, <3>1
      <4>2. QED
        BY <1>1, <2>1, <4>1
    <3>2. QED
      BY <3>1
  <2>6. j \in 0..(J - 1)
    BY <1>1, <2>2, <2>3, <2>4, <2>5
  <2>7. j * n + (p + 1) = k
    BY <2>1, <2>2
  <2> HIDE DEF J
  <2>8. QED
    BY <2>6, <2>7
<1>6. \A i, j \in 0..(J - 1) : f[i] = f[j] => i = j
  <2>1. SUFFICES ASSUME NEW i \in 0..(J - 1), NEW j \in 0..(J - 1),
                        i * n + (p + 1) = j * n + (p + 1)
                 PROVE  i = j
    OBVIOUS
  <2>2. i \in Int /\ j \in Int /\ (i * n + (p + 1)) - 1 = i * n + p
        /\ (j * n + (p + 1)) - 1 = j * n + p
    BY <1>3
  <2>3. (i * n + p) \div n = i /\ (j * n + p) \div n = j
    BY <2>2, RestOf
  <2>4. i * n + p = j * n + p
    BY <2>1, <2>2
  <2>5. QED
    BY <2>3, <2>4, Zenon
<1> HIDE DEF T, J
<1>7. f \in [0..(J - 1) -> T]
  BY <1>4
<1>8. IsFiniteSet(0..(J - 1)) /\ Cardinality(0..(J - 1)) = J
  BY <1>3, FS_Interval
<1>9. IsFiniteSet(T) /\ Cardinality(T) = J
  <2>1. \A t \in T : \E j \in 0..(J - 1) : f[j] = t
    BY <1>5
  <2> DEFINE S == 0..(J - 1)
  <2> HIDE DEF f
  <2>2. /\ IsFiniteSet(S) /\ Cardinality(S) = J /\ f \in [S -> T]
        /\ \A i, j \in S : f[i] = f[j] => i = j
        /\ \A t \in T : \E j \in S : f[j] = t
    BY <1>6, <1>7, <1>8, <2>1
  <2> HIDE DEF S
  <2>3. QED
    BY <2>2, CountedBy
<1>10. QED
  BY <1>9 DEF Q, R, T, J

\* How many turns there are before that of u, the cursor being at c.
Due(C, c, u) == ((Place(C, u) - c) - 1) % Cardinality(C)

\* The turn k after the cursor c is the one of the place i, and is as far.
Hits(n, c, k, i) == (c + k) % n = i
AsFar(n, c, k, i) == (k - 1) % n = ((i - c) - 1) % n

LEMMA TurnOf ==
    ASSUME NEW n \in Nat \ {0}, NEW i \in 0..(n - 1), NEW c \in Int, NEW k \in Int
    PROVE  Hits(n, c, k, i) <=> AsFar(n, c, k, i)
<1> DEFINE t == c + k
           q == t \div n
           r == t % n
           d == (i - c) - 1
           a == (k - 1) \div n
           ra == (k - 1) % n
           b == d \div n
           rb == d % n
<1>1. t \in Int /\ q \in Int /\ r \in 0..(n - 1) /\ t = n * q + r
  <2>1. t \in Int
    OBVIOUS
  <2> HIDE DEF t
  <2>2. QED
    BY <2>1, Division
<1>2. d \in Int /\ b \in Int /\ rb \in 0..(n - 1) /\ d = n * b + rb
  <2>1. d \in Int
    OBVIOUS
  <2> HIDE DEF d
  <2>2. QED
    BY <2>1, Division
<1>3. k - 1 \in Int /\ a \in Int /\ ra \in 0..(n - 1) /\ k - 1 = n * a + ra
  <2>1. k - 1 \in Int
    OBVIOUS
  <2>2. QED
    BY <2>1, Division
<1>4. t = c + k /\ d = (i - c) - 1
  OBVIOUS
<1> HIDE DEF q, r, a, ra, b, rb, t, d
<1>5. ASSUME r = i PROVE ra = rb
  <2>1. k - 1 = d + q * n
    <3>1. n * q = q * n /\ n * q \in Int
      BY <1>1
    <3>2. QED
      BY <1>1, <1>4, <1>5, <3>1
  <2>2. (d + q * n) % n = d % n
    BY <1>1, <1>2, SameRest
  <2>3. QED
    BY <2>1, <2>2 DEF ra, rb
<1>6. ASSUME ra = rb PROVE r = i
  <2>1. t = (a - b) * n + i /\ a - b \in Int
    <3>1. (a - b) * n = n * a - n * b /\ n * a \in Int /\ n * b \in Int
      BY <1>2, <1>3
    <3>2. QED
      BY <1>2, <1>3, <1>4, <1>6, <3>1
  <2>2. ((a - b) * n + i) % n = i
    BY <2>1, RestOf
  <2>3. QED
    BY <2>1, <2>2 DEF r
<1>7. (r = i) <=> (ra = rb)
  BY <1>5, <1>6
<1>8. QED
  BY <1>7 DEF t, d, r, ra, rb, Hits, AsFar

\* What the rule gives to u, the m leads being taken in some order.
LEMMA GivenInTurn ==
    ASSUME NEW C \in SUBSET Nat, IsFiniteSet(C), C # {}, NEW c \in Int,
           NEW S, IsFiniteSet(S), NEW rank \in [S -> 1..Cardinality(S)],
           \A d, e \in S : rank[d] = rank[e] => d = e, NEW u \in C,
           NEW give, \A d \in S : give[d] = AtPlace(C, (c + rank[d]) % Cardinality(C))
    PROVE  /\ IsFiniteSet({d \in S : give[d] = u})
           /\ Cardinality({d \in S : give[d] = u})
                 = Cardinality(Turns(Cardinality(C), Due(C, c, u), Cardinality(S)))
<1> DEFINE n == Cardinality(C)
           m == Cardinality(S)
           H == {d \in S : give[d] = u}
           T == Turns(n, Due(C, c, u), m)
           f == [d \in H |-> rank[d]]
<1>1. /\ n \in Nat \ {0} /\ Place(C, u) \in 0..(n - 1) /\ m \in Nat
  BY Places, FS_CardinalityType
<1>2. \A i \in 1..m : \E d \in S : rank[d] = i
  <2>1. rank \in Injection(S, 1..m)
    BY DEF Injection, IsInjective
  <2>2. IsFiniteSet(1..m) /\ Cardinality(1..m) = m
    BY <1>1, FS_Interval
  <2>3. rank \in Surjection(S, 1..m)
    BY <2>1, <2>2, FS_Injection
  <2>4. QED
    BY <2>3 DEF Surjection
<1>3. ASSUME NEW d \in S
      PROVE  rank[d] \in 1..m /\ rank[d] \in Int /\ (give[d] = u <=> rank[d] \in T)
  <2> DEFINE k == rank[d]
             i == (c + k) % n
  <2>1. k \in 1..m /\ k \in Int /\ c + k \in Int
    BY <1>1
  <2>2. i \in 0..(n - 1)
    <3> DEFINE t == c + k
    <3>1. t \in Int
      BY <2>1
    <3> HIDE DEF t
    <3>2. t % n \in 0..(n - 1)
      BY <1>1, <3>1, Division
    <3>3. QED
      BY <3>2 DEF t
  <2>3. give[d] = AtPlace(C, i)
    OBVIOUS
  <2> HIDE DEF k, i
  <2>4. give[d] \in C /\ Place(C, give[d]) = i
    BY <2>2, <2>3, PlaceTaken
  <2>5. give[d] = u <=> i = Place(C, u)
    BY <2>4, Places
  <2>6. i = Place(C, u) <=> (k - 1) % n = ((Place(C, u) - c) - 1) % n
    <3> DEFINE place == Place(C, u)
    <3>1. n \in Nat \ {0} /\ place \in 0..(n - 1) /\ k \in Int /\ c \in Int
      BY <1>1, <2>1
    <3> HIDE DEF place, n
    <3>2. Hits(n, c, k, place) <=> AsFar(n, c, k, place)
      BY <3>1, TurnOf
    <3>3. QED
      BY <3>2 DEF i, place, n, Hits, AsFar
  <2>7. QED
    BY <2>1, <2>5, <2>6 DEF Turns, Due, k
<1>4. IsFiniteSet(H)
  BY FS_Subset
<1> HIDE DEF T
<1>5. f \in [H -> T] /\ \A x, y \in H : f[x] = f[y] => x = y
  BY <1>3
<1>6. \A t \in T : \E x \in H : f[x] = t
  <2>1. SUFFICES ASSUME NEW t \in T PROVE \E x \in H : f[x] = t
    OBVIOUS
  <2>2. t \in 1..m
    BY DEF T, Turns
  <2>3. PICK d \in S : rank[d] = t
    BY <1>2, <2>2
  <2>4. d \in H
    BY <1>3, <2>3
  <2>5. QED
    BY <2>3, <2>4
<1> HIDE DEF H, f
<1>7. Cardinality(H) = Cardinality(T)
  BY <1>4, <1>5, <1>6, CountedBy
<1>8. QED
  BY <1>4, <1>7 DEF H, T

\* Whose turn is how far when m leads have been given.
LEMMA DueAfter ==
    ASSUME NEW C \in SUBSET Nat, IsFiniteSet(C), C # {}, NEW c \in Int, NEW m \in Nat, NEW u \in C
    PROVE  LET n == Cardinality(C)
               before == Due(C, c, u)
               R == m % n
           IN  /\ before \in 0..(n - 1) /\ R \in 0..(n - 1)
               /\ Due(C, (c + m) % n, u) = IF before < R THEN before - R + n ELSE before - R
<1> DEFINE n == Cardinality(C)
           place == Place(C, u)
           t == c + m
           q == t \div n
           r == t % n
           x == (place - c) - 1
           b == x \div n
           D == x % n
           Q == m \div n
           R == m % n
           y == (place - r) - 1
<1>1. n \in Nat \ {0} /\ place \in 0..(n - 1)
  BY Places
<1> HIDE DEF n, place
<1>2. t \in Int /\ q \in Int /\ r \in 0..(n - 1) /\ t = n * q + r
  <2>1. t \in Int
    OBVIOUS
  <2> HIDE DEF t
  <2>2. QED
    BY <1>1, <2>1, Division
<1>3. x \in Int /\ b \in Int /\ D \in 0..(n - 1) /\ x = n * b + D
  <2>1. x \in Int
    BY <1>1
  <2> HIDE DEF x
  <2>2. QED
    BY <1>1, <2>1, Division
<1>4. Q \in Int /\ R \in 0..(n - 1) /\ m = n * Q + R
  <2>1. m \in Int
    OBVIOUS
  <2>2. QED
    BY <1>1, <2>1, Division
<1>5. t = c + m /\ x = (place - c) - 1 /\ y = (place - r) - 1
  OBVIOUS
<1> HIDE DEF t, q, r, x, b, D, Q, R, y
<1>6. y = ((b + q) - Q) * n + (D - R)
  <2>1. ((b + q) - Q) * n = (n * b + n * q) - n * Q
    BY <1>1, <1>2, <1>3, <1>4
  <2>2. n * b \in Int /\ n * q \in Int /\ n * Q \in Int
    BY <1>1, <1>2, <1>3, <1>4
  <2>3. QED
    BY <1>1, <1>2, <1>3, <1>4, <1>5, <2>1, <2>2
<1>7. y % n = IF D < R THEN D - R + n ELSE D - R
  <2>1. CASE R <= D
    <3>1. (b + q) - Q \in Int /\ D - R \in 0..(n - 1)
      BY <1>1, <1>2, <1>3, <1>4, <2>1
    <3>2. (((b + q) - Q) * n + (D - R)) % n = D - R
      BY <1>1, <3>1, RestOf
    <3>3. QED
      BY <1>3, <1>4, <1>6, <2>1, <3>2
  <2>2. CASE D < R
    <3>1. ((b + q) - Q) - 1 \in Int /\ D - R + n \in 0..(n - 1)
      BY <1>1, <1>2, <1>3, <1>4, <2>2
    <3>2. ((((b + q) - Q) - 1) * n + (D - R + n)) % n = D - R + n
      BY <1>1, <3>1, RestOf
    <3>3. y = (((b + q) - Q) - 1) * n + (D - R + n)
      <4>1. (((b + q) - Q) - 1) * n = ((b + q) - Q) * n - n /\ ((b + q) - Q) * n \in Int
        BY <1>1, <1>2, <1>3, <1>4
      <4>2. QED
        BY <1>1, <1>3, <1>4, <1>6, <4>1
    <3>4. QED
      BY <1>3, <1>4, <2>2, <3>2, <3>3
  <2>3. QED
    BY <1>3, <1>4, <2>1, <2>2
<1>8. Due(C, c, u) = D /\ Due(C, r, u) = y % n
  BY DEF Due, D, x, y, n, place
<1>9. QED
  BY <1>3, <1>4, <1>7, <1>8 DEF n, r, t, R

\* Nobody is two ahead, and nobody is ahead of who has the later turn.
Even(C, c, got) ==
    \A u, v \in C : /\ got[u] - got[v] <= 1
                    /\ Due(C, c, u) < Due(C, c, v) => got[u] <= got[v]

\* The rule goes on from the cursor, so that what it gives keeps the shares even.
LEMMA StillEven ==
    ASSUME NEW C \in SUBSET Nat, IsFiniteSet(C), C # {}, NEW c \in Int, NEW m \in Nat,
           NEW before, NEW after, \A u \in C : before[u] \in Nat /\ after[u] \in Nat,
           \A u \in C : after[u] = before[u] + Cardinality(Turns(Cardinality(C), Due(C, c, u), m)),
           Even(C, c, before)
    PROVE  Even(C, (c + m) % Cardinality(C), after)
<1> DEFINE n == Cardinality(C)
           Q == m \div n
           R == m % n
           later == (c + m) % n
<1>1. n \in Nat \ {0}
  BY Places
<1>2. Q \in Int /\ R \in 0..(n - 1)
  <2>1. m \in Int
    OBVIOUS
  <2>2. QED
    BY <1>1, <2>1, Division
<1>3. ASSUME NEW u \in C
      PROVE  /\ Due(C, c, u) \in 0..(n - 1)
             /\ Due(C, later, u) = IF Due(C, c, u) < R THEN Due(C, c, u) - R + n
                                   ELSE Due(C, c, u) - R
             /\ after[u] = before[u] + (Q + (IF Due(C, c, u) < R THEN 1 ELSE 0))
  <2>1. /\ Due(C, c, u) \in 0..(n - 1)
        /\ Due(C, later, u) = IF Due(C, c, u) < R THEN Due(C, c, u) - R + n
                              ELSE Due(C, c, u) - R
    BY DueAfter
  <2> DEFINE p == Due(C, c, u)
  <2>2. p \in 0..(n - 1)
    BY <2>1
  <2> HIDE DEF p, n
  <2>3. Cardinality(Turns(n, p, m)) = (m \div n) + (IF p < m % n THEN 1 ELSE 0)
    BY <1>1, <2>2, TurnsCounted
  <2>4. QED
    BY <2>1, <2>3 DEF p, n
<1> HIDE DEF n, Q, R, later
<1>4. ASSUME NEW u \in C, NEW v \in C
      PROVE  /\ after[u] - after[v] <= 1
             /\ Due(C, later, u) < Due(C, later, v) => after[u] <= after[v]
  <2>1. /\ before[u] - before[v] <= 1 /\ before[v] - before[u] <= 1
        /\ Due(C, c, u) < Due(C, c, v) => before[u] <= before[v]
        /\ Due(C, c, v) < Due(C, c, u) => before[v] <= before[u]
        /\ before[u] \in Nat /\ before[v] \in Nat
    BY DEF Even
  <2> DEFINE p == Due(C, c, u)
             q == Due(C, c, v)
  <2>2. /\ p \in 0..(n - 1) /\ q \in 0..(n - 1)
        /\ Due(C, later, u) = IF p < R THEN p - R + n ELSE p - R
        /\ Due(C, later, v) = IF q < R THEN q - R + n ELSE q - R
        /\ after[u] = before[u] + (Q + (IF p < R THEN 1 ELSE 0))
        /\ after[v] = before[v] + (Q + (IF q < R THEN 1 ELSE 0))
    BY <1>3
  <2>3. /\ before[u] - before[v] <= 1 /\ before[v] - before[u] <= 1
        /\ p < q => before[u] <= before[v]
        /\ q < p => before[v] <= before[u]
        /\ before[u] \in Nat /\ before[v] \in Nat
    BY <2>1
  <2> HIDE DEF p, q
  <2>4. CASE p < R /\ q < R
    BY <1>1, <1>2, <2>2, <2>3, <2>4
  <2>5. CASE p < R /\ R <= q
    <3>1. Due(C, later, v) < Due(C, later, u) /\ p < q
      BY <1>1, <1>2, <2>2, <2>5
    <3>2. after[u] = before[u] + (Q + 1) /\ after[v] = before[v] + Q
      BY <1>1, <1>2, <2>2, <2>3, <2>5
    <3>3. Due(C, later, u) \in Int /\ Due(C, later, v) \in Int
      BY <1>1, <1>2, <2>2
    <3>4. QED
      BY <1>2, <2>3, <3>1, <3>2, <3>3
  <2>6. CASE R <= p /\ q < R
    <3>1. q < p /\ after[u] = before[u] + Q /\ after[v] = before[v] + (Q + 1)
      BY <1>1, <1>2, <2>2, <2>3, <2>6
    <3>2. QED
      BY <1>2, <2>3, <3>1
  <2>7. CASE R <= p /\ R <= q
    BY <1>1, <1>2, <2>2, <2>3, <2>7
  <2>8. QED
    BY <1>2, <2>2, <2>4, <2>5, <2>6, <2>7
<1>5. QED
  BY <1>4 DEF Even, later, n

AssignRow ==
    [give : Gifts, cursor : -1..(Cardinality(SalesUsers) - 1), among : SUBSET SalesUsers]

\* A request that is about to give has candidates to give to.
AssignInv ==
    AssignTypeOK /\ \A a \in Assigners : assigner[a] # NoAssign => assigner[a].among # {}

LEMMA SalesFinite ==
    /\ SalesUsers \in SUBSET Nat /\ IsFiniteSet(SalesUsers) /\ Cardinality(SalesUsers) \in Nat
    /\ \A C \in SUBSET SalesUsers : /\ C \in SUBSET Nat /\ IsFiniteSet(C)
                                    /\ Cardinality(C) \in 0..Cardinality(SalesUsers)
<1>1. SalesUsers \in SUBSET Nat /\ IsFiniteSet(SalesUsers) /\ Cardinality(SalesUsers) \in Nat
  BY AssignAssumption, FS_CardinalityType
<1>2. ASSUME NEW C \in SUBSET SalesUsers
      PROVE  /\ C \in SUBSET Nat /\ IsFiniteSet(C)
             /\ Cardinality(C) \in 0..Cardinality(SalesUsers)
  <2>1. C \in SUBSET Nat
    BY <1>1
  <2>2. IsFiniteSet(C) /\ Cardinality(C) <= Cardinality(SalesUsers)
    BY <1>1, FS_Subset
  <2>3. Cardinality(C) \in Nat
    BY <2>2, FS_CardinalityType
  <2>4. QED
    BY <1>1, <2>1, <2>2, <2>3
<1>3. QED
  BY <1>1, <1>2

\* What the rule picks is a candidate, and where it stops is a cursor.
LEMMA PickedInTurn ==
    ASSUME AssignTypeOK, Candidates # {}, NEW k \in Int
    PROVE  LET i == (rule.cursor + k) % Cardinality(Candidates)
           IN  /\ i \in 0..(Cardinality(Candidates) - 1)
               /\ i \in -1..(Cardinality(SalesUsers) - 1)
               /\ NthCandidate(i) = AtPlace(Candidates, i)
               /\ NthCandidate(i) \in Candidates /\ NthCandidate(i) \in SalesUsers
<1> DEFINE n == Cardinality(Candidates)
           t == rule.cursor + k
           i == t % n
<1>1. Candidates \in SUBSET SalesUsers /\ rule.cursor \in Int
  <2>1. rule \in AssignRule /\ activeUsers \subseteq SalesUsers
    BY DEF AssignTypeOK
  <2>2. rule.cursor \in Int
    BY <2>1, SalesFinite DEF AssignRule
  <2>3. QED
    BY <2>1, <2>2 DEF Candidates, CandidatesOf
<1>2. /\ Candidates \in SUBSET Nat /\ IsFiniteSet(Candidates) /\ n \in Nat \ {0}
      /\ n <= Cardinality(SalesUsers) /\ Cardinality(SalesUsers) \in Nat
  <2>1. /\ Candidates \in SUBSET Nat /\ IsFiniteSet(Candidates)
        /\ n \in 0..Cardinality(SalesUsers) /\ Cardinality(SalesUsers) \in Nat
    BY <1>1, SalesFinite
  <2>2. n \in Nat \ {0}
    BY <2>1, Places
  <2>3. QED
    BY <2>1, <2>2
<1>3. i \in 0..(n - 1)
  <2>1. t \in Int
    BY <1>1
  <2> HIDE DEF t, n
  <2>2. QED
    BY <1>2, <2>1, Division
<1> HIDE DEF t
<1>4. i \in -1..(Cardinality(SalesUsers) - 1)
  BY <1>2, <1>3
<1>5. NthCandidate(i) = AtPlace(Candidates, i)
  BY DEF NthCandidate, AtPlace, Place
<1>6. AtPlace(Candidates, i) \in Candidates
  BY <1>2, <1>3, PlaceTaken
<1>7. QED
  BY <1>1, <1>3, <1>4, <1>5, <1>6 DEF t

Got(a) == [u \in SalesUsers |->
             share[u] + Cardinality({d \in DOMAIN assigner[a].give : assigner[a].give[d] = u})]

LEMMA AssignFields ==
    ASSUME AssignTypeOK, NEW a \in Assigners
    PROVE  /\ assigner[a] \in AssignRow /\ assigner[a].give \in Gifts
           /\ assigner[a].cursor \in -1..(Cardinality(SalesUsers) - 1)
           /\ assigner[a].among \subseteq SalesUsers
           /\ DOMAIN assigner[a].give \subseteq Deals /\ IsFiniteSet(DOMAIN assigner[a].give)
           /\ \A d \in DOMAIN assigner[a].give : assigner[a].give[d] \in SalesUsers
<1>1. assigner[a] \in AssignRow
  BY DEF AssignTypeOK, AssignRow
<1>2. /\ assigner[a].give \in Gifts /\ assigner[a].among \subseteq SalesUsers
      /\ assigner[a].cursor \in -1..(Cardinality(SalesUsers) - 1)
  BY <1>1 DEF AssignRow
<1>3. PICK S \in SUBSET Deals : assigner[a].give \in [S -> SalesUsers]
  BY <1>2 DEF Gifts
<1>4. IsFiniteSet(S)
  BY AssignAssumption, FS_Subset
<1>5. DOMAIN assigner[a].give = S
  BY <1>3
<1>6. QED
  BY <1>1, <1>2, <1>3, <1>4, <1>5

\* What everybody has got, and what is left of it when the least is taken off.
LEMMA SharesAfter ==
    ASSUME AssignInv, NEW a \in Assigners, assigner[a] # NoAssign
    PROVE  /\ Got(a) \in [SalesUsers -> Nat]
           /\ NewShare(a) \in [SalesUsers -> Nat]
           /\ assigner[a].among # Candidates => NewShare(a) = [u \in SalesUsers |-> 0]
           /\ assigner[a].among = Candidates =>
                 \E least \in Nat : \A u \in Candidates :
                    least <= Got(a)[u] /\ NewShare(a)[u] = Got(a)[u] - least
<1> DEFINE given(u) == {d \in DOMAIN assigner[a].give : assigner[a].give[d] = u}
           least == Min({Got(a)[u] : u \in Candidates})
           rest == [u \in SalesUsers |-> IF u \in Candidates THEN Got(a)[u] - least ELSE 0]
<1>1. /\ share \in [SalesUsers -> Nat] /\ Candidates \subseteq SalesUsers
      /\ assigner[a].among # {}
  BY DEF AssignInv, AssignTypeOK, Candidates, CandidatesOf
<1>2. ASSUME NEW u \in SalesUsers PROVE Cardinality(given(u)) \in Nat
  <2>1. IsFiniteSet(DOMAIN assigner[a].give)
    BY AssignFields DEF AssignInv
  <2>2. given(u) \in SUBSET DOMAIN assigner[a].give
    OBVIOUS
  <2>3. QED
    BY <2>1, <2>2, FS_Subset, FS_CardinalityType
<1>3. Got(a) \in [SalesUsers -> Nat]
  BY <1>1, <1>2 DEF Got
<1>4. NewShare(a) = IF assigner[a].among # Candidates THEN [u \in SalesUsers |-> 0] ELSE rest
  BY DEF NewShare, Got
<1>5. CASE assigner[a].among # Candidates
  BY <1>3, <1>4, <1>5
<1>6. CASE assigner[a].among = Candidates
  <2> DEFINE T == {Got(a)[u] : u \in Candidates}
  <2>1. T \in SUBSET Nat /\ T # {}
    BY <1>1, <1>3, <1>6
  <2>2. \E x \in T : \A y \in T : x <= y
    <3> HIDE DEF T
    <3>1. QED
      BY <2>1, LeastNumber
  <2>3. least \in T /\ \A y \in T : least <= y
    <3>1. least = CHOOSE x \in T : \A y \in T : x <= y
      BY DEF Min
    <3> HIDE DEF T, least
    <3>2. QED
      BY <2>2, <3>1
  <2>4. least \in Nat /\ \A u \in Candidates : least <= Got(a)[u] /\ Got(a)[u] \in Nat
    BY <1>1, <1>3, <2>1, <2>3
  <2> HIDE DEF least
  <2>5. rest \in [SalesUsers -> Nat] /\ \A u \in Candidates : rest[u] = Got(a)[u] - least
    BY <1>1, <2>4
  <2>6. NewShare(a) = rest
    BY <1>4, <1>6
  <2> HIDE DEF rest
  <2>7. QED
    BY <1>3, <1>6, <2>4, <2>5, <2>6
<1>7. QED
  BY <1>5, <1>6

\* The gifts that one request is about to commit, in the order of the rule.
InOrder(a) ==
    \E rank \in [DOMAIN assigner[a].give -> 1..Cardinality(DOMAIN assigner[a].give)] :
       /\ \A d, e \in DOMAIN assigner[a].give : rank[d] = rank[e] => d = e
       /\ \A d \in DOMAIN assigner[a].give :
             assigner[a].give[d]
                = AtPlace(assigner[a].among,
                          (rule.cursor + rank[d]) % Cardinality(assigner[a].among))
       /\ assigner[a].cursor
             = (rule.cursor + Cardinality(DOMAIN assigner[a].give))
                   % Cardinality(assigner[a].among)

EvenInv ==
    /\ AssignInv /\ Even(Candidates, rule.cursor, share)
    /\ \A a \in Assigners : assigner[a] # NoAssign => InOrder(a)

\* The rows that either way of applying the rule is about to commit.
LEMMA SweepStep ==
    ASSUME AssignInv, NEW a \in Assigners, Sweep(a)
    PROVE  /\ AssignInv' /\ InOrder(a)' /\ assigner' = [assigner EXCEPT ![a] = assigner'[a]]
           /\ UNCHANGED <<ownerOf, known, rule, activeUsers, share>>
<1> DEFINE S == {d \in known : ownerOf[d] = NoOwner}
           m == Cardinality(S)
           n == Cardinality(Candidates)
<1>1. /\ AssignTypeOK /\ Candidates # {} /\ S # {}
      /\ UNCHANGED <<ownerOf, known, rule, activeUsers, share>>
  BY DEF AssignInv, Sweep
<1>2. S \in SUBSET Deals /\ IsFiniteSet(S) /\ m \in Nat
  <2>1. S \in SUBSET Deals
    BY <1>1 DEF AssignTypeOK
  <2>2. QED
    BY <2>1, AssignAssumption, FS_Subset, FS_CardinalityType
<1>3. PICK rank \in [S -> 1..m] :
           /\ \A d, e \in S : rank[d] = rank[e] => d = e
           /\ assigner' = [assigner EXCEPT ![a] =
                 [give |-> [d \in S |-> NthCandidate((rule.cursor + rank[d]) % n)],
                  cursor |-> (rule.cursor + m) % n, among |-> Candidates]]
  BY DEF Sweep
<1> HIDE DEF S
<1> DEFINE give == [d \in S |-> NthCandidate((rule.cursor + rank[d]) % n)]
           stop == (rule.cursor + m) % n
           row == [give |-> give, cursor |-> stop, among |-> Candidates]
<1>4. /\ row.give = give /\ row.cursor = stop /\ row.among = Candidates
      /\ DOMAIN give = S
      /\ \A d \in S : give[d] = NthCandidate((rule.cursor + rank[d]) % n)
  OBVIOUS
<1>5. \A d \in S : /\ give[d] = AtPlace(Candidates, (rule.cursor + rank[d]) % n)
                   /\ give[d] \in SalesUsers
  <2>1. SUFFICES ASSUME NEW d \in S
                 PROVE  /\ give[d] = AtPlace(Candidates, (rule.cursor + rank[d]) % n)
                        /\ give[d] \in SalesUsers
    OBVIOUS
  <2> DEFINE k == rank[d]
  <2>2. k \in Int
    BY <1>2
  <2> HIDE DEF k
  <2>3. LET i == (rule.cursor + k) % n
        IN  NthCandidate(i) = AtPlace(Candidates, i) /\ NthCandidate(i) \in SalesUsers
    BY <1>1, <2>2, PickedInTurn
  <2>4. give[d] = NthCandidate((rule.cursor + k) % n)
    BY DEF k
  <2> HIDE DEF give, n
  <2>5. QED
    BY <2>3, <2>4 DEF k
<1>6. give \in Gifts
  <2>1. give \in [S -> SalesUsers]
    BY <1>5
  <2> HIDE DEF give
  <2>2. QED
    BY <1>2, <2>1 DEF Gifts
<1>7. stop \in -1..(Cardinality(SalesUsers) - 1)
  <2>1. m \in Int
    BY <1>2
  <2> HIDE DEF m
  <2>2. QED
    BY <1>1, <2>1, PickedInTurn
<1>8. Candidates \subseteq SalesUsers
  BY <1>1 DEF AssignTypeOK, Candidates, CandidatesOf
<1> HIDE DEF give, stop, m, n
<1>9. row \in AssignRow
  BY <1>6, <1>7, <1>8 DEF AssignRow
<1>10. assigner \in [Assigners -> AssignRow]
  BY <1>1 DEF AssignTypeOK, AssignRow
<1> HIDE DEF row
<1>11. /\ assigner' = [assigner EXCEPT ![a] = row] /\ assigner'[a] = row
       /\ assigner' \in [Assigners -> AssignRow]
  <2>1. assigner' = [assigner EXCEPT ![a] = row]
    BY <1>3 DEF row, give, stop, m, n
  <2>2. QED
    BY <1>9, <1>10, <2>1
<1>12. AssignInv'
  BY <1>1, <1>4, <1>10, <1>11 DEF AssignInv, AssignTypeOK, AssignRow
<1>13. InOrder(a)'
  <2>1. /\ assigner'[a].give = give /\ assigner'[a].cursor = stop
        /\ assigner'[a].among = Candidates /\ rule' = rule
    BY <1>1, <1>4, <1>11
  <2>2. /\ \A d, e \in S : rank[d] = rank[e] => d = e
        /\ \A d \in S : give[d] = AtPlace(Candidates, (rule.cursor + rank[d]) % n)
        /\ stop = (rule.cursor + m) % n /\ rank \in [S -> 1..m]
    BY <1>3, <1>5 DEF stop
  <2>3. QED
    BY <1>4, <2>1, <2>2 DEF InOrder, m, n
<1>14. QED
  BY <1>1, <1>11, <1>12, <1>13

LEMMA AutoAssignStep ==
    ASSUME AssignInv, NEW a \in Assigners, NEW d \in Deals, AutoAssign(a, d)
    PROVE  /\ AssignInv' /\ InOrder(a)' /\ assigner' = [assigner EXCEPT ![a] = assigner'[a]]
           /\ UNCHANGED <<ownerOf, known, rule, activeUsers, share>>
<1> DEFINE S == {d}
           n == Cardinality(Candidates)
           stop == (rule.cursor + 1) % n
           give == [x \in S |-> NthCandidate(stop)]
           rank == [x \in S |-> 1]
           row == [give |-> give, cursor |-> stop, among |-> Candidates]
<1>1. /\ AssignTypeOK /\ Candidates # {}
      /\ UNCHANGED <<ownerOf, known, rule, activeUsers, share>>
      /\ assigner' = [assigner EXCEPT ![a] = row]
  BY DEF AssignInv, AutoAssign, NextIndex
<1>2. S \in SUBSET Deals /\ IsFiniteSet(S) /\ Cardinality(S) = 1
  BY FS_Singleton
<1>3. LET i == (rule.cursor + 1) % n
      IN  /\ i \in -1..(Cardinality(SalesUsers) - 1)
          /\ NthCandidate(i) = AtPlace(Candidates, i) /\ NthCandidate(i) \in SalesUsers
  <2> DEFINE k == 1
  <2>1. k \in Int
    OBVIOUS
  <2> HIDE DEF k
  <2>2. LET i == (rule.cursor + k) % n
        IN  /\ i \in -1..(Cardinality(SalesUsers) - 1)
            /\ NthCandidate(i) = AtPlace(Candidates, i) /\ NthCandidate(i) \in SalesUsers
    BY <1>1, <2>1, PickedInTurn
  <2>3. QED
    BY <2>2 DEF k
<1>4. /\ stop \in -1..(Cardinality(SalesUsers) - 1)
      /\ NthCandidate(stop) = AtPlace(Candidates, stop) /\ NthCandidate(stop) \in SalesUsers
  BY <1>3
<1>5. /\ row.give = give /\ row.cursor = stop /\ row.among = Candidates
      /\ DOMAIN give = S /\ \A x \in S : give[x] = NthCandidate(stop)
  OBVIOUS
<1>6. give \in Gifts
  <2>1. give \in [S -> SalesUsers]
    BY <1>4
  <2> HIDE DEF give
  <2>2. QED
    BY <1>2, <2>1 DEF Gifts
<1>7. Candidates \subseteq SalesUsers
  BY <1>1 DEF AssignTypeOK, Candidates, CandidatesOf
<1>8. rank \in [S -> 1..Cardinality(S)] /\ \A x \in S : rank[x] = 1
  BY <1>2
<1>9. \A x, y \in S : rank[x] = rank[y] => x = y
  OBVIOUS
<1>10. stop = (rule.cursor + 1) % n
  OBVIOUS
<1> HIDE DEF give, stop, n, rank
<1>11. row \in AssignRow
  BY <1>4, <1>6, <1>7 DEF AssignRow
<1>12. assigner \in [Assigners -> AssignRow]
  BY <1>1 DEF AssignTypeOK, AssignRow
<1> HIDE DEF row
<1>13. assigner'[a] = row /\ assigner' \in [Assigners -> AssignRow]
  BY <1>1, <1>11, <1>12
<1>14. AssignInv'
  BY <1>1, <1>5, <1>12, <1>13 DEF AssignInv, AssignTypeOK, AssignRow
<1>15. InOrder(a)'
  <2>1. /\ assigner'[a].give = give /\ assigner'[a].cursor = stop
        /\ assigner'[a].among = Candidates /\ rule' = rule
    BY <1>1, <1>5, <1>13
  <2> HIDE DEF S
  <2>2. \A x \in S : give[x] = AtPlace(Candidates, (rule.cursor + rank[x]) % n)
    BY <1>4, <1>5, <1>8, <1>10
  <2>3. stop = (rule.cursor + Cardinality(S)) % n
    BY <1>2, <1>10
  <2>4. QED
    BY <1>5, <1>8, <1>9, <2>1, <2>2, <2>3 DEF InOrder, n
<1>16. QED
  BY <1>1, <1>13, <1>14, <1>15

\* The steps that leave what requests are about to commit alone.
LEMMA ByHand ==
    ASSUME AssignInv,
           \/ \E on \in BOOLEAN, targets \in SUBSET SalesUsers : UpsertRule(on, targets)
           \/ \E u \in SalesUsers : Deactivate(u)
           \/ \E d \in Deals, u \in Owners : SetOwner(d, u)
           \/ \E d \in Deals : CreateUnassigned(d)
    PROVE  /\ AssignInv' /\ assigner' = assigner /\ rule'.cursor = rule.cursor
           /\ \/ Candidates' = Candidates /\ share' = share
              \/ share' = [u \in SalesUsers |-> 0]
<1>1. /\ AssignTypeOK /\ rule \in AssignRule /\ share \in [SalesUsers -> Nat]
      /\ activeUsers \subseteq SalesUsers /\ known \subseteq Deals
      /\ ownerOf \in [Deals -> Owners]
  BY DEF AssignInv, AssignTypeOK
<1>2. CASE \E on \in BOOLEAN, targets \in SUBSET SalesUsers : UpsertRule(on, targets)
  <2>1. PICK on \in BOOLEAN, targets \in SUBSET SalesUsers : UpsertRule(on, targets)
    BY <1>2
  <2>2. /\ rule' = [rule EXCEPT !.on = on, !.targets = targets]
        /\ NewShares(rule', activeUsers)
        /\ UNCHANGED <<ownerOf, known, activeUsers, assigner>>
    BY <2>1 DEF UpsertRule
  <2>3. rule' \in AssignRule /\ rule'.cursor = rule.cursor
    BY <1>1, <2>2 DEF AssignRule
  <2>4. \/ Candidates' = Candidates /\ share' = share
        \/ share' = [u \in SalesUsers |-> 0]
    BY <2>2 DEF NewShares, Candidates
  <2>5. share' \in [SalesUsers -> Nat]
    BY <1>1, <2>4
  <2>6. QED
    BY <1>1, <2>2, <2>3, <2>4, <2>5 DEF AssignInv, AssignTypeOK
<1>3. CASE \E u \in SalesUsers : Deactivate(u)
  <2>1. PICK u \in SalesUsers : Deactivate(u)
    BY <1>3
  <2>2. /\ activeUsers' = activeUsers \ {u} /\ NewShares(rule, activeUsers')
        /\ UNCHANGED <<ownerOf, known, rule, assigner>>
    BY <2>1 DEF Deactivate
  <2>3. \/ Candidates' = Candidates /\ share' = share
        \/ share' = [w \in SalesUsers |-> 0]
    BY <2>2 DEF NewShares, Candidates
  <2>4. share' \in [SalesUsers -> Nat]
    BY <1>1, <2>3
  <2>5. QED
    BY <1>1, <2>2, <2>3, <2>4 DEF AssignInv, AssignTypeOK
<1>4. CASE \E d \in Deals, u \in Owners : SetOwner(d, u)
  <2>1. PICK d \in Deals, u \in Owners : SetOwner(d, u)
    BY <1>4
  <2>2. /\ known' = known \cup {d} /\ ownerOf' = [ownerOf EXCEPT ![d] = u]
        /\ UNCHANGED <<rule, activeUsers, assigner, share>>
    BY <2>1 DEF SetOwner
  <2>3. ownerOf' \in [Deals -> Owners] /\ known' \subseteq Deals
    BY <1>1, <2>2
  <2>4. Candidates' = Candidates
    BY <2>2 DEF Candidates
  <2>5. QED
    BY <1>1, <2>2, <2>3, <2>4 DEF AssignInv, AssignTypeOK
<1>5. CASE \E d \in Deals : CreateUnassigned(d)
  <2>1. PICK d \in Deals : CreateUnassigned(d)
    BY <1>5
  <2>2. /\ known' = known \cup {d}
        /\ UNCHANGED <<ownerOf, rule, activeUsers, assigner, share>>
    BY <2>1 DEF CreateUnassigned
  <2>3. Candidates' = Candidates /\ known' \subseteq Deals
    BY <1>1, <2>2 DEF Candidates
  <2>4. QED
    BY <1>1, <2>2, <2>3 DEF AssignInv, AssignTypeOK
<1>6. QED
  BY <1>2, <1>3, <1>4, <1>5

\* A request ends: it gives what it had picked, or nothing.
LEMMA AssignEnds ==
    ASSUME AssignInv, NEW a \in Assigners,
           CommitAssign(a) \/ AssignDies(a)
    PROVE  /\ AssignInv' /\ Candidates' = Candidates
           /\ assigner' = [assigner EXCEPT ![a] = NoAssign]
<1>1. /\ AssignTypeOK /\ rule \in AssignRule /\ activeUsers \subseteq SalesUsers
      /\ known \subseteq Deals /\ ownerOf \in [Deals -> Owners] /\ share \in [SalesUsers -> Nat]
  BY DEF AssignInv, AssignTypeOK
<1>2. assigner' = [assigner EXCEPT ![a] = NoAssign] /\ assigner[a] # NoAssign
  BY DEF CommitAssign, Give, AssignDies
<1>3. /\ assigner' \in [Assigners -> AssignRow]
      /\ \A b \in Assigners : assigner'[b] # NoAssign => assigner'[b].among # {}
  <2>1. [d \in {} |-> NoOwner] \in Gifts
    <3>1. [d \in {} |-> NoOwner] \in [{} -> SalesUsers] /\ {} \in SUBSET Deals
      OBVIOUS
    <3>2. QED
      BY <3>1 DEF Gifts
  <2>2. -1 \in -1..(Cardinality(SalesUsers) - 1)
    BY SalesFinite
  <2>3. NoAssign \in AssignRow
    BY <2>1, <2>2 DEF NoAssign, AssignRow
  <2>4. assigner \in [Assigners -> AssignRow]
    BY <1>1 DEF AssignTypeOK, AssignRow
  <2>5. /\ assigner' \in [Assigners -> AssignRow]
        /\ \A b \in Assigners : assigner'[b] = IF b = a THEN NoAssign ELSE assigner[b]
    BY <1>2, <2>3, <2>4
  <2>6. QED
    BY <2>5, Zenon DEF AssignInv
<1>4. rule' \in AssignRule /\ activeUsers' = activeUsers /\ Candidates' = Candidates
  <2>1. CASE CommitAssign(a)
    <3>1. rule' = [rule EXCEPT !.cursor = assigner[a].cursor] /\ activeUsers' = activeUsers
      BY <2>1 DEF CommitAssign
    <3>2. assigner[a].cursor \in -1..(Cardinality(SalesUsers) - 1)
      BY AssignFields DEF AssignInv
    <3>3. rule' \in AssignRule /\ rule'.targets = rule.targets
      BY <1>1, <3>1, <3>2 DEF AssignRule
    <3>4. QED
      BY <3>1, <3>3 DEF Candidates, CandidatesOf
  <2>2. CASE AssignDies(a)
    <3>1. rule' = rule /\ activeUsers' = activeUsers
      BY <2>2 DEF AssignDies
    <3>2. QED
      BY <1>1, <3>1 DEF Candidates
  <2>3. QED
    BY <2>1, <2>2
<1>5. known' \subseteq Deals /\ ownerOf' \in [Deals -> Owners] /\ share' \in [SalesUsers -> Nat]
  <2>1. CASE Give(a)
    <3>1. /\ known' = known \cup DOMAIN assigner[a].give
          /\ ownerOf' = [d \in Deals |-> IF d \in DOMAIN assigner[a].give
                                         THEN assigner[a].give[d] ELSE ownerOf[d]]
          /\ share' = NewShare(a)
      BY <2>1 DEF Give
    <3>2. /\ DOMAIN assigner[a].give \subseteq Deals
          /\ \A d \in DOMAIN assigner[a].give : assigner[a].give[d] \in SalesUsers
      BY AssignFields DEF AssignInv
    <3>3. NewShare(a) \in [SalesUsers -> Nat]
      BY <1>2, SharesAfter
    <3>4. QED
      BY <1>1, <3>1, <3>2, <3>3 DEF Owners
  <2>2. CASE AssignDies(a)
    BY <1>1, <2>2 DEF AssignDies
  <2>3. QED
    BY <2>1, <2>2 DEF CommitAssign
<1>6. QED
  BY <1>1, <1>2, <1>3, <1>4, <1>5 DEF AssignInv, AssignTypeOK, AssignRow

LEMMA AssignStep == AssignInv /\ [AssignNext]_assignVars => AssignInv'
<1>1. SUFFICES ASSUME AssignInv, [AssignNext]_assignVars PROVE AssignInv'
  OBVIOUS
<1>2. ASSUME NEW a \in Assigners, Sweep(a) PROVE AssignInv'
  BY <1>1, <1>2, SweepStep
<1>3. ASSUME NEW a \in Assigners, NEW d \in Deals, AutoAssign(a, d) PROVE AssignInv'
  BY <1>1, <1>3, AutoAssignStep
<1>4. ASSUME NEW a \in Assigners, CommitAssign(a) \/ AssignDies(a) PROVE AssignInv'
  BY <1>1, <1>4, AssignEnds
<1>5. CASE \/ \E on \in BOOLEAN, targets \in SUBSET SalesUsers : UpsertRule(on, targets)
           \/ \E u \in SalesUsers : Deactivate(u)
           \/ \E d \in Deals, u \in Owners : SetOwner(d, u)
           \/ \E d \in Deals : CreateUnassigned(d)
  BY <1>1, <1>5, ByHand
<1>6. CASE UNCHANGED assignVars
  BY <1>1, <1>6
     DEF assignVars, AssignInv, AssignTypeOK
<1>7. QED
  BY <1>1, <1>2, <1>3, <1>4, <1>5, <1>6 DEF AssignNext

LEMMA AssignInitially == AssignInit => AssignInv
<1>1. SUFFICES ASSUME AssignInit PROVE AssignInv
  OBVIOUS
<1>2. -1 \in -1..(Cardinality(SalesUsers) - 1)
  BY SalesFinite
<1>3. [d \in {} |-> NoOwner] \in Gifts
  <2>1. [d \in {} |-> NoOwner] \in [{} -> SalesUsers] /\ {} \in SUBSET Deals
    OBVIOUS
  <2>2. QED
    BY <2>1 DEF Gifts
<1>4. NoAssign \in AssignRow
  BY <1>2, <1>3 DEF NoAssign, AssignRow
<1>5. rule \in AssignRule
  BY <1>1, <1>2 DEF AssignInit, AssignRule
<1>6. /\ assigner \in [Assigners -> AssignRow]
      /\ \A a \in Assigners : assigner[a] = NoAssign
  <2>1. assigner = [a \in Assigners |-> NoAssign]
    BY <1>1 DEF AssignInit
  <2>2. QED
    BY <1>4, <2>1
<1>7. /\ ownerOf \in [Deals -> Owners] /\ known \subseteq Deals
      /\ activeUsers \subseteq SalesUsers /\ share \in [SalesUsers -> Nat]
  BY <1>1 DEF AssignInit, Owners
<1>8. QED
  BY <1>5, <1>6, <1>7, Zenon DEF AssignInv, AssignTypeOK, AssignRow

\* Nobody has got more than anybody, or everybody has got as much more.
LEMMA ZeroEven == ASSUME NEW C \in SUBSET SalesUsers, NEW c
                  PROVE  Even(C, c, [u \in SalesUsers |-> 0])
<1> DEFINE zero == [u \in SalesUsers |-> 0]
<1>1. \A u \in C : zero[u] = 0
  OBVIOUS
<1> HIDE DEF zero
<1>2. \A u, v \in C : zero[u] - zero[v] <= 1 /\ zero[u] <= zero[v]
  BY <1>1
<1>3. QED
  BY <1>2 DEF Even, zero

LEMMA LessEven ==
    ASSUME NEW C, NEW c, NEW got, NEW left, NEW least \in Nat,
           \A u \in C : got[u] \in Nat /\ least <= got[u] /\ left[u] = got[u] - least,
           Even(C, c, got)
    PROVE  Even(C, c, left)
<1>1. ASSUME NEW u \in C, NEW v \in C
      PROVE  /\ left[u] - left[v] <= 1
             /\ Due(C, c, u) < Due(C, c, v) => left[u] <= left[v]
  <2>1. /\ got[u] - got[v] <= 1
        /\ Due(C, c, u) < Due(C, c, v) => got[u] <= got[v]
    BY DEF Even
  <2>2. /\ got[u] \in Nat /\ left[u] = got[u] - least
        /\ got[v] \in Nat /\ left[v] = got[v] - least
    OBVIOUS
  <2>3. left[u] - left[v] = got[u] - got[v] /\ (got[u] <= got[v] => left[u] <= left[v])
    BY <2>2
  <2>4. QED
    BY <2>1, <2>3
<1>2. QED
  BY <1>1 DEF Even

\* The commit of what the rule gave, the cursor not having moved since.
LEMMA GivenEven ==
    ASSUME EvenInv, NEW a \in Assigners, CommitAssign(a)
    PROVE  Even(Candidates, rule'.cursor, share')
<1> DEFINE C == Candidates
           c == rule.cursor
           give == assigner[a].give
           S == DOMAIN give
           m == Cardinality(S)
           got == Got(a)
<1>1. /\ AssignInv /\ AssignTypeOK /\ assigner[a] # NoAssign /\ InOrder(a)
      /\ rule \in AssignRule /\ share' = NewShare(a)
      /\ rule' = [rule EXCEPT !.cursor = assigner[a].cursor]
  BY DEF EvenInv, AssignInv, AssignTypeOK, CommitAssign, Give
<1>2. C \in SUBSET SalesUsers /\ C \in SUBSET Nat /\ IsFiniteSet(C) /\ c \in Int
  <2>1. C \in SUBSET SalesUsers
    BY <1>1 DEF AssignTypeOK, Candidates, CandidatesOf
  <2>2. C \in SUBSET Nat /\ IsFiniteSet(C)
    BY <2>1, SalesFinite
  <2>3. c \in Int
    BY <1>1, SalesFinite DEF AssignRule
  <2>4. QED
    BY <2>1, <2>2, <2>3
<1>3. rule'.cursor = assigner[a].cursor
  BY <1>1 DEF AssignRule
<1>4. CASE assigner[a].among # C
  <2>1. share' = [u \in SalesUsers |-> 0]
    BY <1>1, <1>4, SharesAfter
  <2> DEFINE zero == [u \in SalesUsers |-> 0]
             after == rule'.cursor
  <2>2. Even(C, after, zero)
    <3> HIDE DEF after, zero, C
    <3>1. QED
      BY <1>2, ZeroEven DEF zero
  <2>3. QED
    BY <2>1, <2>2
<1>5. CASE assigner[a].among = C
  <2>1. C # {} /\ IsFiniteSet(S) /\ m \in Nat
    <3>1. IsFiniteSet(S)
      BY <1>1, AssignFields
    <3>2. QED
      BY <1>1, <1>5, <3>1, FS_CardinalityType DEF AssignInv
  <2>2. PICK rank \in [S -> 1..m] :
           /\ \A d, e \in S : rank[d] = rank[e] => d = e
           /\ \A d \in S : give[d] = AtPlace(C, (c + rank[d]) % Cardinality(C))
           /\ assigner[a].cursor = (c + m) % Cardinality(C)
    BY <1>1, <1>5 DEF InOrder
  <2>3. /\ got \in [SalesUsers -> Nat]
        /\ \A u \in SalesUsers : got[u] = share[u] + Cardinality({d \in S : give[d] = u})
    BY <1>1, SharesAfter DEF Got
  <2>4. \A u \in C : share[u] \in Nat /\ got[u] \in Nat
    BY <1>1, <1>2, <2>3 DEF AssignTypeOK
  <2>5. PICK least \in Nat : \A u \in C : least <= got[u] /\ share'[u] = got[u] - least
    BY <1>1, <1>5, SharesAfter
  <2>6. Even(C, c, share)
    BY DEF EvenInv
  <2> HIDE DEF C, c, give, got
  <2>7. ASSUME NEW u \in C
        PROVE  got[u] = share[u] + Cardinality(Turns(Cardinality(C), Due(C, c, u), m))
    <3>1. Cardinality({d \in S : give[d] = u})
             = Cardinality(Turns(Cardinality(C), Due(C, c, u), m))
      <4> HIDE DEF S
      <4>1. QED
        BY <1>2, <2>1, <2>2, GivenInTurn
    <3>2. QED
      BY <1>2, <2>3, <3>1
  <2>8. Even(C, (c + m) % Cardinality(C), got)
    <3> DEFINE before == share
    <3>1. \A u \in C : before[u] \in Nat /\ got[u] \in Nat
      BY <2>4
    <3>2. \A u \in C : got[u] = before[u] + Cardinality(Turns(Cardinality(C), Due(C, c, u), m))
      BY <2>7
    <3>3. Even(C, c, before)
      BY <2>6
    <3> HIDE DEF before, m
    <3>4. QED
      BY <1>2, <2>1, <3>1, <3>2, <3>3, StillEven
  <2> DEFINE after == rule'.cursor
             left == share'
  <2>9. after = (c + m) % Cardinality(C)
    BY <1>3, <2>2
  <2>10. \A u \in C : got[u] \in Nat /\ least <= got[u] /\ left[u] = got[u] - least
    BY <2>4, <2>5
  <2>11. Even(C, after, got)
    BY <2>8, <2>9
  <2> HIDE DEF after, left
  <2>12. Even(C, after, left)
    BY <2>10, <2>11, LessEven
  <2>13. QED
    BY <2>12 DEF C, after, left
<1>6. QED
  BY <1>4, <1>5

\* One request applies the rule at a time: what it is about to commit is in the
\* order of the rule, and no other one moves the cursor.
LEMMA EvenStep ==
    ASSUME \A a, b \in Assigners : a = b
    PROVE  EvenInv /\ [AssignNext]_assignVars => EvenInv'
<1>1. SUFFICES ASSUME EvenInv, [AssignNext]_assignVars PROVE EvenInv'
  OBVIOUS
<1>2. AssignInv /\ Even(Candidates, rule.cursor, share)
  BY <1>1 DEF EvenInv
<1>3. Candidates \subseteq SalesUsers
  BY <1>2 DEF AssignInv, AssignTypeOK, Candidates, CandidatesOf
<1>4. ASSUME NEW a \in Assigners, Sweep(a) \/ \E d \in Deals : AutoAssign(a, d) PROVE EvenInv'
  <2>1. /\ AssignInv' /\ InOrder(a)'
        /\ UNCHANGED <<ownerOf, known, rule, activeUsers, share>>
    BY <1>2, <1>4, SweepStep, AutoAssignStep
  <2>2. Even(Candidates, rule.cursor, share)'
    <3>1. Candidates' = Candidates /\ rule' = rule /\ share' = share
      BY <2>1 DEF Candidates
    <3>2. QED
      BY <1>2, <3>1
  <2>3. \A b \in Assigners : InOrder(b)'
    <3>1. \A b \in Assigners : b = a
      OBVIOUS
    <3>2. QED
      BY <2>1, <3>1
  <2>4. QED
    BY <2>1, <2>2, <2>3 DEF EvenInv
<1>5. ASSUME NEW a \in Assigners, CommitAssign(a) PROVE EvenInv'
  <2>1. /\ AssignInv' /\ Candidates' = Candidates
        /\ assigner' = [assigner EXCEPT ![a] = NoAssign]
    BY <1>2, <1>5, AssignEnds
  <2>2. Even(Candidates, rule.cursor, share)'
    BY <1>1, <1>5, <2>1, GivenEven
  <2>3. \A b \in Assigners : assigner'[b] = NoAssign
    BY <1>2, <2>1 DEF AssignInv, AssignTypeOK
  <2>4. QED
    BY <2>1, <2>2, <2>3 DEF EvenInv
<1>6. ASSUME NEW a \in Assigners, AssignDies(a) PROVE EvenInv'
  <2>1. /\ AssignInv' /\ Candidates' = Candidates
        /\ assigner' = [assigner EXCEPT ![a] = NoAssign]
    BY <1>2, <1>6, AssignEnds
  <2>2. rule' = rule /\ share' = share
    BY <1>6 DEF AssignDies
  <2>3. \A b \in Assigners : assigner'[b] = NoAssign
    BY <1>2, <2>1 DEF AssignInv, AssignTypeOK
  <2>4. QED
    BY <1>2, <2>1, <2>2, <2>3 DEF EvenInv
<1>7. CASE \/ \E on \in BOOLEAN, targets \in SUBSET SalesUsers : UpsertRule(on, targets)
           \/ \E u \in SalesUsers : Deactivate(u)
           \/ \E d \in Deals, u \in Owners : SetOwner(d, u)
           \/ \E d \in Deals : CreateUnassigned(d)
  <2>1. /\ AssignInv' /\ assigner' = assigner /\ rule'.cursor = rule.cursor
        /\ \/ Candidates' = Candidates /\ share' = share
           \/ share' = [u \in SalesUsers |-> 0]
    BY <1>2, <1>7, ByHand
  <2>2. Even(Candidates, rule.cursor, share)'
    <3>1. CASE Candidates' = Candidates /\ share' = share
      BY <1>2, <2>1, <3>1
    <3>2. CASE share' = [u \in SalesUsers |-> 0]
      <4> DEFINE C == Candidates'
                 after == rule'.cursor
                 zero == [u \in SalesUsers |-> 0]
      <4>1. C \in SUBSET SalesUsers
        BY <2>1 DEF AssignInv, AssignTypeOK, Candidates, CandidatesOf
      <4>2. Even(C, after, zero)
        <5> HIDE DEF C, after, zero
        <5>1. QED
          BY <4>1, ZeroEven DEF zero
      <4>3. QED
        BY <3>2, <4>2
    <3>3. QED
      BY <2>1, <3>1, <3>2
  <2>3. \A a \in Assigners : InOrder(a) => InOrder(a)'
    BY <2>1 DEF InOrder
  <2>4. QED
    BY <1>1, <2>1, <2>2, <2>3 DEF EvenInv
<1>8. CASE UNCHANGED assignVars
  <2>1. assigner' = assigner /\ rule' = rule /\ share' = share /\ Candidates' = Candidates
    BY <1>8 DEF assignVars, Candidates
  <2>2. AssignInv'
    BY <1>2, <1>8, AssignStep
  <2>3. \A a \in Assigners : InOrder(a) => InOrder(a)'
    BY <2>1 DEF InOrder
  <2>4. QED
    BY <1>1, <2>1, <2>2, <2>3 DEF EvenInv
<1>9. QED
  BY <1>1, <1>4, <1>5, <1>6, <1>7, <1>8 DEF AssignNext

\* "distribute new/unassigned leads evenly across assignable users": as long as
\* one request of an organization applies the rule at a time, no candidate is two
\* leads ahead of another, whatever is assigned by hand in between and for any
\* number of users and leads.
THEOREM SharesStayEven ==
    ASSUME \A a, b \in Assigners : a = b
    PROVE  AssignSpec => [](AssignTypeOK /\ EvenShares)
<1>1. AssignInit => EvenInv
  <2>1. SUFFICES ASSUME AssignInit PROVE EvenInv
    OBVIOUS
  <2>2. AssignInv
    BY <2>1, AssignInitially
  <2>3. Candidates \in SUBSET SalesUsers
    BY <2>2 DEF AssignInv, AssignTypeOK, Candidates, CandidatesOf
  <2> DEFINE C == Candidates
             c == rule.cursor
  <2>4. Even(C, c, [u \in SalesUsers |-> 0])
    <3> HIDE DEF C, c
    <3>1. C \in SUBSET SalesUsers
      BY <2>3 DEF C
    <3>2. QED
      BY <3>1, ZeroEven
  <2>5. share = [u \in SalesUsers |-> 0] /\ assigner = [a \in Assigners |-> NoAssign]
    BY <2>1 DEF AssignInit
  <2>6. Even(Candidates, rule.cursor, share)
    BY <2>4, <2>5
  <2>7. \A a \in Assigners : assigner[a] = NoAssign
    BY <2>5
  <2>8. QED
    BY <2>2, <2>6, <2>7 DEF EvenInv
<1>2. EvenInv /\ [AssignNext]_assignVars => EvenInv'
  BY EvenStep
<1>3. EvenInv => AssignTypeOK /\ EvenShares
  <2>1. EvenInv => AssignTypeOK
    BY Zenon DEF EvenInv, AssignInv
  <2>2. EvenInv => EvenShares
    BY DEF EvenInv, Even, EvenShares
  <2>3. QED
    BY <2>1, <2>2
<1>4. QED
  BY <1>1, <1>2, <1>3, PTL DEF AssignSpec

-----------------------------------------------------------------------------
(* The composition: each component runs by its own specification in it.    *)

LEMMA ComponentsBegin ==
    ASSUME Init
    PROVE  /\ SessionInit /\ SecretInit /\ TeamInit
           /\ ImportInit /\ PipelineInit /\ AssignInit /\ TaskInit
           /\ OutboxInit /\ ModelInit /\ EngineInit /\ CronInit /\ ApiInit
BY DEF Init

LEMMA ComponentsMove ==
    ASSUME [Next]_vars
    PROVE  /\ [SessionNext]_sessionVars /\ [SecretNext]_secretVars /\ [TeamNext]_teamVars
           /\ [ImportNext]_importVars /\ [PipelineNext]_pipelineVars
           /\ [AssignNext]_assignVars /\ [TaskNext]_taskVars
           /\ [OutboxNext]_outboxVars /\ [ModelNext]_modelVars /\ [EngineNext]_engineVars
           /\ [CronNext]_cronVars /\ [ApiNext]_apiVars
<1>1. CASE UNCHANGED vars
  BY <1>1 DEF vars, accountVars, salesVars, platformVars
<1>2. CASE Accounts
  BY <1>2 DEF Accounts, salesVars, platformVars
<1>3. CASE Sales
  BY <1>3 DEF Sales, accountVars, platformVars
<1>4. CASE Platform
  BY <1>4 DEF Platform, accountVars, salesVars
<1>5. QED
  BY <1>1, <1>2, <1>3, <1>4 DEF Next

LEMMA ComponentsRun ==
    Spec => /\ SessionSpec /\ SecretSpec /\ TeamSpec
            /\ ImportSpec /\ PipelineSpec /\ AssignSpec /\ TaskSpec
            /\ OutboxInit /\ [][OutboxNext]_outboxVars
            /\ ModelSpec /\ EngineSpec /\ CronSpec /\ ApiSpec
BY ComponentsBegin, ComponentsMove, PTL
DEF Spec, SessionSpec, SecretSpec, TeamSpec, ImportSpec, PipelineSpec, AssignSpec, TaskSpec,
    ModelSpec, EngineSpec, CronSpec, ApiSpec

\* The rows, sessions and processes of every component, and the promises made
\* about them, in the composition that is model-checked: whatever component a
\* behaviour is about, and however many requests and workers each has.
THEOREM ServicesHold ==
    Spec => [](/\ ServiceTypesOK
               /\ SentOnce /\ OneLivePerFamily /\ ConsumedOnce /\ ImportsAccounted
               /\ OverspendBounded /\ AcceptedRuns /\ TenantScoped)
<1>1. Spec => []TeamTypeOK
  BY ComponentsRun, TeamInitially, TeamStep, PTL DEF TeamSpec, TeamInv
<1>2. Spec => []PipelineTypeOK
  BY ComponentsRun, PipelineTypes, PTL DEF StagesInv
<1>3. Spec => []AssignTypeOK
  BY ComponentsRun, AssignInitially, AssignStep, PTL DEF AssignSpec, AssignInv
<1>4. Spec => []CronTypeOK
  BY ComponentsRun, WalkInitially, WalkStep, WalkTypes, PTL DEF CronSpec
<1>5. Spec => [](OutboxTypeOK /\ SentOnce)
  BY ComponentsRun, OutboxAlways, PTL DEF OutboxInv
<1>6. Spec => [](SessionTypeOK /\ OneLivePerFamily) /\ [](SecretTypeOK /\ ConsumedOnce)
  BY ComponentsRun, SessionTypeCorrect, OneLiveToken, SecretTypeCorrect, SecretConsumedOnce, PTL
<1>7. Spec => [](ImportTypeOK /\ ImportsAccounted) /\ []TaskTypeOK /\ []CompletedHasTime
  BY ComponentsRun, ImportsStayAccounted, ClosedTasksSayWhen, PTL
<1>8. Spec => /\ [](ModelTypeOK /\ OverspendBounded /\ TraceComplete)
              /\ [](EngineTypeOK /\ AcceptedRuns) /\ [](ApiTypeOK /\ TenantScoped)
  BY ComponentsRun, OverspendStaysBounded, AcceptedDefinitionsRun, ApiTypeCorrect, TenantsApart,
     PTL
<1>9. QED
  BY <1>1, <1>2, <1>3, <1>4, <1>5, <1>6, <1>7, <1>8, PTL DEF ServiceTypesOK
=============================================================================
