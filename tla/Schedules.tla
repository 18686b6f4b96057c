----------------------------- MODULE Schedules -----------------------------
(***************************************************************************)
(* When a task is due (pkg/tasks/schedule.go): once, every so often, or by *)
(* a cron expression read in a time zone, whose clock is set forward or    *)
(* back once.  Time is counted in minutes; the calendar's units are        *)
(* parameters, so that its rules are those of the code on a smaller year.  *)
(***************************************************************************)
EXTENDS Integers, Sequences, FiniteSets

CONSTANTS
    MinutesPerHour, HoursPerDay, DaysPerWeek,
    MonthLengths,      \* days of each month of a year
    CronSearchYears,
    Exprs,             \* cron expressions: five fields, each a sequence of parts
    Zones,             \* offsets before and after the instant the clock is set
    Intervals,         \* of recurring tasks
    StartTimes,        \* instants at which tasks are scheduled
    MaxMinutes         \* bound: minutes a task is watched for

ASSUME SchedulesAssumption ==
    /\ {MinutesPerHour, HoursPerDay, DaysPerWeek} \subseteq Nat \ {0}
    /\ MonthLengths \in Seq(Nat \ {0}) /\ MonthLengths # <<>>
    /\ Intervals \subseteq Nat /\ StartTimes \subseteq Nat /\ MaxMinutes \in Nat

VARIABLES
    schedule,   \* Schedule, with the zone of a cron expression
    due,        \* NextRunAt
    instant,
    anchor,     \* ghost: what due was computed after
    first       \* ghost: the first run

scheduleVars == <<schedule, due, instant, anchor, first>>

NotDue == -1
Later(a, b) == IF a > b THEN a ELSE b
Earliest(set) == CHOOSE t \in set : \A x \in set : t <= x

----------------------------------------------------------------------------
\* The calendar and the zone (external: package time)

MinutesPerDay == MinutesPerHour * HoursPerDay
DaysBefore(m) ==
    LET before[k \in 1 .. Len(MonthLengths) + 1] ==
            IF k = 1 THEN 0 ELSE before[k - 1] + MonthLengths[k - 1]
    IN before[m]
DaysPerYear == DaysBefore(Len(MonthLengths) + 1)

MonthOf(day) ==
    CHOOSE m \in DOMAIN MonthLengths :
        (day % DaysPerYear) \in DaysBefore(m) .. DaysBefore(m + 1) - 1
DayOfMonth(day) == (day % DaysPerYear) - DaysBefore(MonthOf(day)) + 1
Weekday(day) == day % DaysPerWeek

Offset(z, t) == IF t < z.at THEN z.before ELSE z.after
Local(z, t) == t + Offset(z, t)

(* time.Date: the offset at the local time taken for an instant, unless     *)
(* the result is on the other side of the change.                           *)
Date(z, l) ==
    LET t == l - Offset(z, l)
    IN IF (l < z.at) = (t < z.at) THEN t ELSE l - Offset(z, t)

----------------------------------------------------------------------------
\* parseCron

Star == [kind |-> "star"]
EveryNth(n) == [kind |-> "step", step |-> n]
Between(a, b) == [kind |-> "range", from |-> a, to |-> b]
Only(n) == Between(n, n)

PartValues(part, min, max) ==
    CASE part.kind = "star" -> min..max
      [] part.kind = "step" -> {i \in min..max : (i - min) % part.step = 0}
      [] part.kind = "range" -> part.from .. part.to

PartValid(part, min, max) ==
    CASE part.kind = "step" -> part.step > 0
      [] part.kind = "range" -> min <= part.from /\ part.from <= part.to /\ part.to <= max
      [] OTHER -> TRUE

\* the last weekday is the first one's other name
NormalizeWeekdays(values) == {IF v = DaysPerWeek THEN 0 ELSE v : v \in values}

FieldValues(parts, min, max) == UNION {PartValues(parts[k], min, max) : k \in DOMAIN parts}
FieldValid(parts, min, max) ==
    /\ parts # <<>>
    /\ \A k \in DOMAIN parts : PartValid(parts[k], min, max)
    /\ (\E k \in DOMAIN parts : parts[k] = Star) => parts = <<Star>>

LongestMonth == CHOOSE n \in {MonthLengths[m] : m \in DOMAIN MonthLengths} :
                    \A m \in DOMAIN MonthLengths : MonthLengths[m] <= n

CronValid(e) ==
    /\ FieldValid(e.minute, 0, MinutesPerHour - 1) /\ FieldValid(e.hour, 0, HoursPerDay - 1)
    /\ FieldValid(e.dom, 1, LongestMonth) /\ FieldValid(e.month, 1, Len(MonthLengths))
    /\ FieldValid(e.dow, 0, DaysPerWeek)

ParseCron(e) ==
    LET days == FieldValues(e.dom, 1, LongestMonth)
        weekdays == NormalizeWeekdays(FieldValues(e.dow, 0, DaysPerWeek))
    IN [minutes |-> FieldValues(e.minute, 0, MinutesPerHour - 1),
        hours |-> FieldValues(e.hour, 0, HoursPerDay - 1),
        days |-> days, months |-> FieldValues(e.month, 1, Len(MonthLengths)), weekdays |-> weekdays,
        dayOfMonthRestricted |-> Cardinality(days) < LongestMonth,
        dayOfWeekRestricted |-> Cardinality(weekdays) < DaysPerWeek]

----------------------------------------------------------------------------
\* cronSchedule.next

(* Mutant: both have to match when both are restricted. *)
DayMatchesBoth(s, day) ==
    /\ s.dayOfMonthRestricted => DayOfMonth(day) \in s.days
    /\ s.dayOfWeekRestricted => Weekday(day) \in s.weekdays

DayMatches(s, day) ==
    LET dom == DayOfMonth(day) \in s.days
        dow == Weekday(day) \in s.weekdays
    IN IF s.dayOfMonthRestricted /\ s.dayOfWeekRestricted THEN dom \/ dow
       ELSE (s.dayOfMonthRestricted => dom) /\ (s.dayOfWeekRestricted => dow)

(* Days, hours and minutes are tried in the order of the local clock; the   *)
(* first whose instant is not before the candidate is taken.                *)
CronNext(s, z, after) ==
    LET candidate == Date(z, Local(z, after)) + 1
        deadline == candidate + CronSearchYears * DaysPerYear * MinutesPerDay
        startDay == Local(z, candidate) \div MinutesPerDay
        Times(day) ==
            {l \in {day * MinutesPerDay + h * MinutesPerHour + m : h \in s.hours, m \in s.minutes} :
                Date(z, l) \in candidate..deadline}
        Days == {d \in startDay .. startDay + CronSearchYears * DaysPerYear :
                    MonthOf(d) \in s.months /\ DayMatches(s, d) /\ Times(d) # {}}
    IN IF Days = {} THEN NotDue ELSE Date(z, Earliest(Times(Earliest(Days))))

----------------------------------------------------------------------------
\* Schedule

ValidSchedule(s, now) ==
    CASE s.kind = "once" -> TRUE
      [] s.kind = "every" -> s.interval > 0
      [] s.kind = "cron" -> CronValid(s.expr) /\ CronNext(ParseCron(s.expr), s.zone, now) # NotDue

InitialNextRun(s, now) ==
    CASE s.kind = "once" -> s.start
      [] s.kind # "once" /\ s.start # NotDue -> s.start
      [] s.kind = "every" /\ s.start = NotDue -> now + s.interval
      [] s.kind = "cron" /\ s.start = NotDue -> CronNext(ParseCron(s.expr), s.zone, now)

NextAfterRun(s, dueAt, now) ==
    CASE s.kind = "once" -> NotDue
      [] s.kind = "every" ->
            IF dueAt + s.interval > now THEN dueAt + s.interval
            ELSE dueAt + ((now - dueAt) \div s.interval + 1) * s.interval
      [] s.kind = "cron" -> CronNext(ParseCron(s.expr), s.zone, Later(dueAt, now))

----------------------------------------------------------------------------

AllSchedules ==
    [kind : {"once"}, start : StartTimes]
        \cup [kind : {"every"}, interval : Intervals, start : {NotDue} \cup StartTimes]
        \cup [kind : {"cron"}, expr : Exprs, zone : Zones, start : {NotDue} \cup StartTimes]

(* A schedule is refused unless it is valid when the task is added.         *)
Scheduled(s) ==
    /\ schedule = s /\ instant \in StartTimes
    /\ ValidSchedule(schedule, instant) /\ due = InitialNextRun(schedule, instant)
    /\ anchor = instant /\ first = due

SchedulesInit == \E s \in AllSchedules : Scheduled(s)

(* A worker may be late.                                                    *)
MinutePasses ==
    /\ instant < Earliest(StartTimes) + MaxMinutes
    /\ instant' = instant + 1 /\ UNCHANGED <<schedule, due, anchor, first>>

RunIsOver ==
    /\ due # NotDue /\ due <= instant
    /\ due' = NextAfterRun(schedule, due, instant)
    /\ anchor' = Later(due, instant)
    /\ UNCHANGED <<schedule, instant, first>>

SchedulesNext == MinutePasses \/ RunIsOver

SchedulesSpec == SchedulesInit /\ [][SchedulesNext]_scheduleVars

----------------------------------------------------------------------------

(* An expression names an instant by the clock of its zone: all fields      *)
(* match, and of the two day fields one is enough if both leave days out.   *)
Named(e, z, t) ==
    LET s == ParseCron(e)
        l == Local(z, t)
        day == l \div MinutesPerDay
        dom == DayOfMonth(day) \in s.days
        dow == Weekday(day) \in s.weekdays
    IN /\ l % MinutesPerHour \in s.minutes
       /\ (l % MinutesPerDay) \div MinutesPerHour \in s.hours
       /\ MonthOf(day) \in s.months
       /\ IF s.days # 1..LongestMonth /\ s.weekdays # 0 .. DaysPerWeek - 1
          THEN dom \/ dow ELSE dom /\ dow

\* the clock is not set on the days from the one of t to the one of u
Steady(z, t, u) ==
    \/ z.before = z.after
    \/ Later(Local(z, u), u) + MinutesPerDay < z.at
    \/ Local(z, t) - MinutesPerDay > z.at

(* The next run is the first natural one after the last, however late that  *)
(* was: none is left out and none comes twice; an interval keeps its phase, *)
(* a cron expression means the clock of its zone while that is not set.     *)
DueIsNatural ==
    /\ schedule.kind = "every" /\ due # first =>
          /\ due > anchor /\ due - anchor <= schedule.interval
          /\ (due - first) % schedule.interval = 0
    /\ schedule.kind = "cron" /\ (schedule.start = NotDue \/ due # first)
          /\ Steady(schedule.zone, anchor, due) =>
          /\ due > anchor /\ Named(schedule.expr, schedule.zone, due)
          /\ \A t \in anchor + 1 .. due - 1 : ~Named(schedule.expr, schedule.zone, t)

(* A recurring task that was run is next due after that run                 *)
(* (pkg/tasks/README.md:64-66).                                             *)
DueIsAhead == schedule.kind # "once" /\ due # first => due > anchor
=============================================================================
