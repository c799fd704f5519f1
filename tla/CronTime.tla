------------------------------ MODULE CronTime ------------------------------
(***************************************************************************)
(* The evaluator of five-field cron expressions behind the schedules:      *)
(* validate_cron and the backward walk of previous_fire, over a calendar   *)
(* with short hours, days, weeks and months.  A leap year is the last of   *)
(* every LeapCycle years.                                                  *)
(***************************************************************************)
EXTENDS Integers, Sequences, FiniteSets

CONSTANTS
    HoursInDay, MinutesInHour, Week,
    MonthLength,          \* days of the first month of a year, and of the second when it leaps
    LeapCycle,
    Lookback            \* _LOOKBACK_DAYS

ASSUME CronAssumption ==
    /\ {HoursInDay, MinutesInHour, Week, MonthLength, LeapCycle, Lookback} \subseteq Nat \ {0}
    /\ LeapCycle > 1 /\ Week < MonthLength    \* no month is shorter than a week

VARIABLES cron, walk

cronVars == <<cron, walk>>

-----------------------------------------------------------------------------
(* The calendar.  Days and minutes are counted from the first.             *)

DayMinutes == HoursInDay * MinutesInHour
YearDays == 2 * MonthLength - 1
CycleDays == LeapCycle * YearDays + 1

DayOf(time) == time \div DayMinutes
MinuteOf(time) == time % MinutesInHour
HourOf(time) == (time % DayMinutes) \div MinutesInHour
WeekdayOf(day) == day % Week

\* the day of its year, the last year of a cycle being one day longer
YearDay(day) ==
    LET d == day % CycleDays IN IF d = CycleDays - 1 THEN YearDays ELSE d % YearDays
MonthOf(day) == IF YearDay(day) < MonthLength THEN 1 ELSE 2
DayOfMonth(day) == 1 + (IF MonthOf(day) = 1 THEN YearDay(day) ELSE YearDay(day) - MonthLength)

-----------------------------------------------------------------------------
(* Expressions: a field is a set of items, the empty set being "*" or "?". *)

Fields == <<[low |-> 0, high |-> MinutesInHour - 1], [low |-> 0, high |-> HoursInDay - 1],
            [low |-> 1, high |-> MonthLength], [low |-> 1, high |-> 2],
            [low |-> 0, high |-> Week - 1]>>

\* _coerce_item(): Sunday is also the day after the last
Coerced(f, value) == IF f = 5 /\ value = Week THEN 0 ELSE value

\* _parse_field(): a step means something behind a range or a star only
ItemAccepted(f, item) ==
    /\ item.step >= 1
    /\ item.kind # "star" =>
          \A value \in {item.from, item.to} :
              Coerced(f, value) \in Fields[f].low..Fields[f].high
    /\ item.kind = "range" => Coerced(f, item.from) <= Coerced(f, item.to)

ItemValues(f, item) ==
    LET from == IF item.kind = "star" THEN Fields[f].low ELSE Coerced(f, item.from)
        to == IF item.kind = "star" THEN Fields[f].high ELSE Coerced(f, item.to)
    IN  IF item.kind = "value" THEN {from} ELSE {v \in from..to : (v - from) % item.step = 0}

\* validate_cron()
ValidCron(fields) == \A f \in DOMAIN fields : \A item \in fields[f] : ItemAccepted(f, item)

Allowed(fields, f) == UNION {ItemValues(f, item) : item \in fields[f]}
Allows(fields, f, value) == fields[f] = {} \/ value \in Allowed(fields, f)

MatchesMinute(fields, time) ==
    Allows(fields, 1, MinuteOf(time)) /\ Allows(fields, 2, HourOf(time))

\* _day_matches(): where both are restricted, the day of the month or the weekday
DayMatches(fields, day) ==
    LET dom == Allows(fields, 3, DayOfMonth(day))
        dow == Allows(fields, 5, WeekdayOf(day))
    IN  /\ Allows(fields, 4, MonthOf(day))
        /\ IF fields[3] # {} /\ fields[5] # {} THEN dom \/ dow ELSE dom /\ dow

-----------------------------------------------------------------------------
(* previous_fire(): found is the fire time, or -1.                         *)

NoWalk == [at |-> "idle", now |-> 0, cursor |-> 0, found |-> -1]

\* Bound of the model: the expressions it evaluates.
Value(v) == [kind |-> "value", from |-> v, to |-> v, step |-> 1]
Span(from, to, step) == [kind |-> "range", from |-> from, to |-> to, step |-> step]
EveryNth(step) == [kind |-> "star", from |-> 0, to |-> 0, step |-> step]
Expressions ==
    { <<m, h, dom, mon, dow>> :
        m \in {{}, {Value(1)}, {EveryNth(2)}}, h \in {{}, {Value(0)}},
        dom \in {{}, {Value(MonthLength)}, {Span(1, MonthLength, 2)}, {Span(2, 1, 1)}},
        mon \in {{}, {Value(2)}},
        dow \in {{}, {Value(Week)}, {Value(1), Value(2)}, {Span(1, Week, 1)}} }

CronTypeOK ==
    /\ walk.at \in {"idle", "today", "days", "done"}
    /\ walk.now \in Nat /\ walk.cursor \in Int /\ walk.found \in Int
    /\ walk.at # "idle" => ValidCron(cron)

CronInit == cron \in Expressions /\ walk = NoWalk

StartWalk(now) ==
    /\ walk.at = "idle" /\ ValidCron(cron)
    /\ walk' = [NoWalk EXCEPT !.at = "today", !.now = now, !.cursor = now]
    /\ UNCHANGED cron

\* 1) the current day, minute by minute
WalkToday ==
    /\ walk.at = "today"
    /\ walk' =
         IF MatchesMinute(cron, walk.cursor) /\ DayMatches(cron, DayOf(walk.cursor))
         THEN [walk EXCEPT !.at = "done", !.found = walk.cursor]
         ELSE IF walk.cursor % DayMinutes = 0
         THEN [walk EXCEPT !.at = "days", !.cursor = DayOf(walk.now) - 1]
         ELSE [walk EXCEPT !.cursor = @ - 1]
    /\ UNCHANGED cron

DaysToWalk_OneYear(now) == (DayOf(now) - YearDays)..(DayOf(now) - 1)

\* the days the walk looks back at; the calendar of the code has no first day
DaysToWalk(now) == (DayOf(now) - Lookback)..(DayOf(now) - 1)

\* 2) the days before, each from its last minute
WalkDay ==
    LET fires == {t \in (walk.cursor * DayMinutes)..((walk.cursor + 1) * DayMinutes - 1) :
                     DayMatches(cron, walk.cursor) /\ MatchesMinute(cron, t)}
    IN  /\ walk.at = "days"
        /\ walk' =
             IF walk.cursor \notin DaysToWalk(walk.now) THEN [walk EXCEPT !.at = "done"]
             ELSE IF fires = {} THEN [walk EXCEPT !.cursor = @ - 1]
             ELSE [walk EXCEPT !.at = "done",
                               !.found = CHOOSE t \in fires : \A u \in fires : u <= t]
        /\ UNCHANGED cron

\* Bound of the model: the minutes of one cycle, after a first one.
Minutes == (CycleDays * DayMinutes)..(2 * CycleDays * DayMinutes - 1)

CronNext == (\E now \in Minutes : StartWalk(now)) \/ WalkToday \/ WalkDay

CronSpec == CronInit /\ [][CronNext]_cronVars

-----------------------------------------------------------------------------
\* "Return the most recent fire time ... at or before now": the answer is a time
\* that matches, no later one does, and "None" means that the expression names
\* no day of the whole leap cycle ("~4 years of days: covers every Feb-29
\* cadence within any leap cycle").
FiresLatest ==
    walk.at = "done" =>
        LET fires(t) == MatchesMinute(cron, t) /\ DayMatches(cron, DayOf(t))
        IN  /\ \A t \in (walk.found + 1)..walk.now : ~fires(t)
            /\ walk.found # -1 => walk.found <= walk.now /\ fires(walk.found)
=============================================================================
