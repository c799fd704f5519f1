---------------------------- MODULE LeadPipeline ----------------------------
(***************************************************************************)
(* One lead on the pipeline board of its organization: PipelineService,    *)
(* the status part of LeadService and their tables.  A stage is known by   *)
(* its lifecycle and name, which are unique; a renamed row takes its leads *)
(* with it.  Two open statuses stand for the five.                         *)
(***************************************************************************)
EXTENDS Naturals, FiniteSets

CONSTANTS
    Movers,         \* requests that change the lead
    CustomName,     \* a stage name that is not a status
    CustomLives,    \* lifecycles an admin creates a stage of that name in
    NoStage,
    MaxStageEdits   \* bound of the model: stages created, renamed or deleted

Lifecycles == {"open", "won", "lost"}
OpenStatuses == {"new", "contacted"}
LeadStatuses == OpenStatuses \cup {"won", "lost"}

\* bucket_of()
BucketOf(status) == IF status \in OpenStatuses THEN "open" ELSE status

\* _DEFAULT_STAGES, and those of them that are marked is_default
DefaultStages == {<<BucketOf(n), n>> : n \in LeadStatuses}
MarkedStages == {<<"open", "new">>, <<"won", "won">>, <<"lost", "lost">>}

StageKeys == DefaultStages \cup (CustomLives \X {CustomName})

ASSUME PipelineAssumption ==
    /\ CustomLives \subseteq Lifecycles /\ MaxStageEdits \in Nat /\ CustomName \notin LeadStatuses
    /\ NoStage \notin StageKeys

VARIABLES
    stages,         \* the committed pipeline_stages
    marked,         \* those of them with is_default
    card,           \* the committed lead
    mover,          \* mover[m]: what the request has read and means to write
    removing,       \* the stage delete_stage() is about to delete
    stageEdits

pipelineVars == <<stages, marked, card, mover, stageEdits, removing>>

\* reason: the lifecycle of its close reason
Card == [status : LeadStatuses, stage : StageKeys \cup {NoStage},
         won_at : BOOLEAN, lost_at : BOOLEAN, reason : {"none", "won", "lost"}]

PipelineTypeOK ==
    /\ stages \subseteq StageKeys /\ marked \subseteq stages
    /\ card \in Card /\ card.stage \in stages \cup {NoStage}
    /\ mover \in [Movers -> [at : {"idle", "write"}, read : Card, write : Card]]
    /\ stageEdits \in 0..MaxStageEdits
    /\ removing \in [stage : StageKeys \cup {NoStage}, to : StageKeys \cup {NoStage}]

NoRemoval == [stage |-> NoStage, to |-> NoStage]
NewCard == [status |-> "new", stage |-> NoStage, won_at |-> FALSE,
            lost_at |-> FALSE, reason |-> "none"]
NoMove == [at |-> "idle", read |-> NewCard, write |-> NewCard]

-----------------------------------------------------------------------------
(* reconcile().                                                            *)

\* _ensure_defaults(): also brings back what was deleted or renamed
Ensured == stages \cup DefaultStages
EnsuredMarks == marked \cup (MarkedStages \ stages)

\* the status a request leaves in place, or asks for
Asked(c, status) == IF status = "same" THEN c.status ELSE status

\* get_default(): the status asked for names an open stage; else a marked one, or
\* any stage of the lifecycle if none is (the position of a stage is free)
DefaultStage(c, status) ==
    LET In(S) == {s \in S : s[1] = BucketOf(Asked(c, status))}
    IN  IF status \in OpenStatuses THEN {<<"open", status>>}
        ELSE IF In(EnsuredMarks) # {} THEN In(EnsuredMarks) ELSE In(Ensured)

\* open_status_for()
OpenStatusFor(stage, previous) ==
    CASE stage[2] \in OpenStatuses -> stage[2]
      [] stage[2] \notin OpenStatuses /\ previous \in OpenStatuses -> previous
      [] OTHER -> "contacted"

\* _pick_stage(): what is asked for, what the lead has, or a default
PickStage(c, status, stage) ==
    IF stage # NoStage THEN {stage}
    ELSE IF c.stage # NoStage /\ (status # "same" => c.stage[1] = BucketOf(status))
         THEN {c.stage}
    ELSE DefaultStage(c, status)

Stamped_Sticky(c, status, stage) ==
    [status |-> status, stage |-> stage,
     won_at |-> c.won_at \/ (status = "won" /\ c.status # "won"),
     lost_at |-> c.lost_at \/ (status = "lost" /\ c.status # "lost"),
     reason |-> c.reason]

\* timestamps and close reason, by the final status
Stamped(c, status, stage) ==
    [status |-> status, stage |-> stage,
     won_at |-> status = "won" /\ (c.won_at \/ c.status # "won"),
     lost_at |-> status = "lost" /\ (c.lost_at \/ c.status # "lost"),
     reason |-> IF status \in OpenStatuses THEN "none" ELSE c.reason]

\* every result of reconcile() for the lead c; a close reason of another
\* lifecycle than the final status is refused
Reconciled(c, status, stage, reason) ==
    LET moved == {Stamped(c, IF s[1] = "open" THEN OpenStatusFor(s, c.status) ELSE s[1], s)
                     : s \in PickStage(c, status, stage)}
    IN  IF reason = "none" THEN moved
        ELSE {[m EXCEPT !.reason = reason] : m \in {x \in moved : x.status = reason}}

-----------------------------------------------------------------------------
\* an imported lead: no stage yet
PipelineInit ==
    /\ stages = DefaultStages /\ marked = MarkedStages
    /\ card = NewCard
    /\ mover = [m \in Movers |-> NoMove]
    /\ removing = NoRemoval /\ stageEdits = 0

\* LeadService.create(): another lead, which has the status before reconcile()
\* sees it
CreateCard(status, stage) ==
    /\ stage \in stages \cup {NoStage}
    /\ \A m \in Movers : mover[m].at = "idle"
    /\ removing = NoRemoval
    /\ card' \in Reconciled([NewCard EXCEPT !.status = status], status, stage, "none")
    /\ stages' = Ensured /\ marked' = EnsuredMarks
    /\ UNCHANGED <<mover, stageEdits, removing>>

\* update() and move(): read the lead, reconcile it
ReadsCard(m, status, stage, reason) ==
    /\ mover[m].at = "idle" /\ stage \in stages \cup {NoStage}
    /\ \E w \in Reconciled(card, status, stage, reason) :
          mover' = [mover EXCEPT ![m] = [at |-> "write", read |-> card, write |-> w]]
    /\ UNCHANGED <<stages, marked, card, stageEdits, removing>>

Column(read, written, now) == IF written # read THEN written ELSE now

\* the commit: the missing defaults, and the columns that have changed.  It is
\* refused if the stage is gone, or if a default came back meanwhile.
WritesCard(m) ==
    LET r == mover[m].read
        w == mover[m].write
    IN  /\ mover[m].at = "write"
        /\ \/ /\ w.stage \in Ensured \cup {NoStage}
              /\ card' = [status |-> Column(r.status, w.status, card.status),
                          stage |-> Column(r.stage, w.stage, card.stage),
                          won_at |-> Column(r.won_at, w.won_at, card.won_at),
                          lost_at |-> Column(r.lost_at, w.lost_at, card.lost_at),
                          reason |-> Column(r.reason, w.reason, card.reason)]
              /\ stages' = Ensured /\ marked' = EnsuredMarks
           \/ UNCHANGED <<stages, marked, card>>
        /\ mover' = [mover EXCEPT ![m] = NoMove]
        /\ UNCHANGED <<stageEdits, removing>>

StageEdit == stageEdits < MaxStageEdits /\ stageEdits' = stageEdits + 1

CreateStage(s) ==
    /\ StageEdit /\ s \in StageKeys \ stages
    /\ stages' = stages \cup {s}
    /\ UNCHANGED <<marked, card, mover, removing>>

\* update_stage() with a name
Renamed(s, t, x) == IF x = s THEN t ELSE x

RenameStage(s, t) ==
    /\ StageEdit /\ s \in stages /\ t \in StageKeys \ stages /\ t[1] = s[1]
    /\ stages' = (stages \ {s}) \cup {t}
    /\ marked' = {Renamed(s, t, x) : x \in marked}
    /\ card' = [card EXCEPT !.stage = Renamed(s, t, @)]
    /\ mover' = [m \in Movers |-> [mover[m] EXCEPT !.read.stage = Renamed(s, t, @),
                                                   !.write.stage = Renamed(s, t, @)]]
    /\ removing' = [stage |-> Renamed(s, t, removing.stage), to |-> Renamed(s, t, removing.to)]

\* delete_stage(): refused while it holds leads and has no alternative
DeleteReads(s) ==
    LET alternatives == {t \in stages \ {s} : t[1] = s[1]}
    IN  /\ removing = NoRemoval /\ s \in stages /\ StageEdit
        /\ card.stage = s => alternatives # {}
        /\ \E t \in IF card.stage = s THEN alternatives ELSE {NoStage} :
              removing' = [stage |-> s, to |-> t]
        /\ UNCHANGED <<stages, marked, card, mover>>

\* a lead that came after the count loses its stage: ON DELETE SET NULL.  The
\* commit of a request that means to write the stage is refused; one that leaves
\* the lead in it does not write the column.
DeleteCommits ==
    LET s == removing.stage
        Gone(x) == IF x = s THEN NoStage ELSE x
    IN  /\ s \in stages
        /\ stages' = stages \ {s} /\ marked' = marked \ {s}
        /\ card' = [card EXCEPT !.stage = IF @ = s THEN removing.to ELSE @]
        /\ mover' = [m \in Movers |->
              IF mover[m].write.stage = s /\ mover[m].read.stage # s THEN NoMove
              ELSE [mover[m] EXCEPT !.read.stage = Gone(@), !.write.stage = Gone(@)]]
        /\ removing' = NoRemoval /\ UNCHANGED stageEdits

PipelineNext ==
    \/ \E m \in Movers :
          \/ \E status \in LeadStatuses \cup {"same"}, stage \in StageKeys \cup {NoStage},
                reason \in {"none", "won", "lost"} :
                ReadsCard(m, status, stage, reason)
          \/ WritesCard(m)
    \/ \E status \in LeadStatuses, stage \in StageKeys \cup {NoStage} : CreateCard(status, stage)
    \/ \E s \in StageKeys :
          \/ CreateStage(s) \/ DeleteReads(s)
          \/ \E t \in StageKeys : RenameStage(s, t)
    \/ DeleteCommits

PipelineSpec == PipelineInit /\ [][PipelineNext]_pipelineVars

-----------------------------------------------------------------------------
\* "moving a lead onto a stage whose lifecycle is won/lost drives leads.status":
\* the column a lead is in and its timestamps never contradict its status, and an
\* open lead has no close reason, whatever the stages are meanwhile renamed to,
\* deleted or created again, and however often the lead is closed and opened.
\* Which reason a closed lead has is not part of it: reconcile() refuses a reason
\* of the other lifecycle, but a lead that goes from lost to won without one keeps
\* the reason of its loss.
BoardAgrees ==
    /\ card.stage # NoStage => card.stage[1] = BucketOf(card.status)
    /\ card.won_at => card.status = "won"
    /\ card.lost_at => card.status = "lost"
    /\ card.status \in OpenStatuses => card.reason = "none"
=============================================================================
