----------------------------- MODULE TaskBoard ------------------------------
(***************************************************************************)
(* One task that members edit and complete: TaskService and the tasks      *)
(* table.  A time is <<month, day, hour>> in a calendar with months of     *)
(* different lengths.  A request reads the row and commits the columns it  *)
(* has changed.                                                            *)
(***************************************************************************)
EXTENDS Naturals, Sequences

CONSTANTS
    Editors,        \* requests in flight
    Schedulers,     \* bound of the model: those of them that give times
    LongMonth,      \* days of the first month of the calendar
    ShortMonth,     \* and of the month after it
    Hours,
    Frequencies,    \* "daily", "monthly": a week is a longer day
    NoTime

ASSUME TaskAssumption ==
    /\ LongMonth \in Nat /\ ShortMonth \in 1..LongMonth /\ Hours \subseteq Nat
    /\ Frequencies \subseteq {"daily", "monthly"}
    /\ Schedulers \subseteq Editors

VARIABLES
    task,           \* the committed row
    edit            \* edit[e]: the columns the request e has changed

taskVars == <<task, edit>>

MonthDays == <<LongMonth, ShortMonth>>
CalendarTimes ==
    {t \in (DOMAIN MonthDays) \X (1..LongMonth) \X Hours : t[2] <= MonthDays[t[1]]}
Before(s, t) ==
    \/ s[1] < t[1]
    \/ s[1] = t[1] /\ s[2] < t[2]
    \/ s[1] = t[1] /\ s[2] = t[2] /\ s[3] < t[3]

OpenTask == {"todo", "in_progress"}
TaskColumns ==
    [status : OpenTask \cup {"completed", "cancelled"},
     due_at : CalendarTimes \cup {NoTime}, reminder_at : CalendarTimes \cup {NoTime},
     completed_at : BOOLEAN, recurs : Frequencies \cup {"never"}]

NoEdit == [c \in {} |-> TRUE]

\* the row with the columns that the request has changed
Edited(changed) == [c \in DOMAIN task |-> IF c \in DOMAIN changed THEN changed[c] ELSE task[c]]

\* the CHECK constraint chk_tasks_completed_at_consistent
Consistent(row) == row.completed_at => row.status = "completed"

TaskTypeOK ==
    /\ task \in TaskColumns /\ Consistent(task)
    /\ \A e \in Editors : DOMAIN edit[e] \subseteq DOMAIN task
                          /\ Edited(edit[e]) \in TaskColumns

-----------------------------------------------------------------------------
\* _validate_schedule()
ScheduleOK(due, reminder) == due # NoTime /\ reminder # NoTime => ~Before(due, reminder)

NewTask(due, reminder) ==
    [status |-> "todo", due_at |-> due, reminder_at |-> reminder, completed_at |-> FALSE,
     recurs |-> "never"]

TaskInit ==
    /\ task = NewTask(NoTime, NoTime)
    /\ edit = [e \in Editors |-> NoEdit]

\* create(): another task
CreateTask(due, reminder, recurs) ==
    /\ ScheduleOK(due, reminder)
    /\ \A e \in Editors : edit[e] = NoEdit
    /\ task' = [NewTask(due, reminder) EXCEPT !.recurs = recurs]
    /\ UNCHANGED edit

NextDay(t) ==
    IF t[2] < MonthDays[t[1]] THEN <<t[1], t[2] + 1, t[3]>> ELSE <<t[1] + 1, 1, t[3]>>

\* the same day of the next month, or its last
NextMonth(t) ==
    LET days == MonthDays[t[1] + 1]
    IN  <<t[1] + 1, IF t[2] <= days THEN t[2] ELSE days, t[3]>>

\* bound of the model: the calendar ends
Advances(t, recurs) ==
    t # NoTime => t[1] < Len(MonthDays) \/ (recurs = "daily" /\ t[2] < MonthDays[t[1]])

\* _advance_time()
AdvanceTime(t, recurs) ==
    IF t = NoTime THEN NoTime ELSE IF recurs = "daily" THEN NextDay(t) ELSE NextMonth(t)

\* _finalize_completion(): a recurring task opens again at its next occurrence
Finalized_NoTime(row) ==
    IF row.recurs = "never" THEN [row EXCEPT !.status = "completed"]
    ELSE [row EXCEPT !.status = "todo", !.completed_at = FALSE,
                     !.due_at = AdvanceTime(@, row.recurs),
                     !.reminder_at = AdvanceTime(@, row.recurs)]

Finalized(row) ==
    IF row.recurs = "never" THEN [row EXCEPT !.status = "completed", !.completed_at = TRUE]
    ELSE [row EXCEPT !.status = "todo", !.completed_at = FALSE,
                     !.due_at = AdvanceTime(@, row.recurs),
                     !.reminder_at = AdvanceTime(@, row.recurs)]

Begins(e, row) ==
    /\ edit[e] = NoEdit /\ row # task
    /\ edit' = [edit EXCEPT ![e] =
                   [c \in {x \in DOMAIN task : row[x] # task[x]} |-> row[c]]]
    /\ UNCHANGED task

\* complete(), and update() with that status: nothing is kept of a request that
\* completes what is completed
Completes(e, row) ==
    /\ task.status # "completed"
    /\ row.recurs # "never" => \A t \in {row.due_at, row.reminder_at} : Advances(t, row.recurs)
    /\ Begins(e, Finalized(row))

\* another status, or none: an open task has no completed_at
Reopened(row, status) ==
    [row EXCEPT !.status = status, !.completed_at = @ /\ status \notin OpenTask]

CompleteTask(e) == Completes(e, task)

\* update(): a column that is not given stays, so that nobody takes back a time
\* or a frequency
UpdateTask(e, due, reminder, recurs, status) ==
    LET row == [task EXCEPT !.due_at = IF due = NoTime THEN @ ELSE due,
                            !.reminder_at = IF reminder = NoTime THEN @ ELSE reminder,
                            !.recurs = IF recurs = "never" THEN @ ELSE recurs]
    IN  /\ ScheduleOK(row.due_at, row.reminder_at)
        /\ {due, reminder} # {NoTime} => e \in Schedulers
        /\ status = "completed" => Completes(e, row)
        /\ status = "same" => Begins(e, Reopened(row, task.status))
        /\ status \notin {"completed", "same"} => Begins(e, Reopened(row, status))

\* the UPDATE of the changed columns, or the request fails
CommitEdit(e) ==
    /\ edit[e] # NoEdit
    /\ (Consistent(Edited(edit[e])) /\ task' = Edited(edit[e])) \/ task' = task
    /\ edit' = [edit EXCEPT ![e] = NoEdit]

TaskNext ==
    \/ \E due, reminder \in CalendarTimes \cup {NoTime}, recurs \in Frequencies \cup {"never"} :
          CreateTask(due, reminder, recurs)
    \/ \E e \in Editors :
        \/ CompleteTask(e) \/ CommitEdit(e)
        \/ \E due, reminder \in CalendarTimes \cup {NoTime}, recurs \in Frequencies \cup {"never"},
              status \in OpenTask \cup {"completed", "cancelled", "same"} :
              UpdateTask(e, due, reminder, recurs, status)

TaskSpec == TaskInit /\ [][TaskNext]_taskVars

-----------------------------------------------------------------------------
\* Completion, reopening, cancelling and editing commit only the columns each
\* has changed: whatever they do to each other, a closed task says when.
CompletedHasTime == task.status = "completed" => task.completed_at
=============================================================================
