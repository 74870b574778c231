------------------------------ MODULE Metrics -------------------------------
(****************************************************************************)
(* metrics.service.ts: the days over which the metrics count, and those     *)
(* they are compared with.  getRange takes seven copies of now and sets     *)
(* their day and month one after the other; setDate and setMonth do so in   *)
(* the month and the year that the copy is in.                              *)
(*                                                                          *)
(* Months are numbered from January of a leap year.  That every fourth year *)
(* is one fails in 2100; time zones and their changes are left out.         *)
(****************************************************************************)
EXTENDS Integers

VARIABLES
    today,   \* [month, date] of the server
    weekday  \* getDay: 0 is Sunday

vars == <<today, weekday>>

Options == {"current_week", "last_week", "last_month"}

DaysIn(month) ==
    IF month % 12 = 1 THEN IF month % 48 = 1 THEN 29 ELSE 28
    ELSE IF month % 12 \in {3, 5, 8, 10} THEN 30 ELSE 31

\* The time of a date: 00:00, that of the request, or 23:59:59.999.
Midnight == 0
Now == 1
LastMoment == 2

Date == [month : Int, date : 1 .. 31, time : {Midnight, Now, LastMoment}]

\* The n-th day of a month, for n from -27 to 28 days after its last.
Day(month, n) ==
    IF n < 1 THEN [month |-> month - 1, date |-> n + DaysIn(month - 1)]
    ELSE IF n > DaysIn(month) THEN [month |-> month + 1, date |-> n - DaysIn(month)]
    ELSE [month |-> month, date |-> n]

At(day, time) == [month |-> day.month, date |-> day.date, time |-> time]

Before(d, e) ==
    \/ d.month < e.month
    \/ d.month = e.month /\ d.date < e.date
    \/ d.month = e.month /\ d.date = e.date /\ d.time < e.time

-----------------------------------------------------------------------------
(* getRange.  All of its dates begin as now, so these are of today.         *)

SetDate(n) == Day(today.month, n)

GetMonth(d) == d.month % 12

SetMonth(month, n) == Day(today.month - GetMonth(today) + month, n)

SinceMonday == IF weekday = 0 THEN 6 ELSE weekday - 1

Range(start, end, startPrev, endPrev) ==
    [start |-> At(start, Midnight), end |-> At(end, LastMoment),
     startPrev |-> At(startPrev, Now), endPrev |-> At(endPrev, Now)]

CurrentWeek ==
    LET start     == SetDate(today.date - SinceMonday)
        end       == SetDate(start.date + 6)
        startPrev == SetDate(start.date - 7)
        endPrev   == SetDate(startPrev.date + 7) IN
      Range(start, end, startPrev, endPrev)

LastWeek ==
    LET end       == SetDate(today.date - SinceMonday - 1)
        start     == SetDate(end.date - 6)
        startPrev == SetDate(start.date - 7)
        endPrev   == SetDate(startPrev.date + 7) IN
      Range(start, end, startPrev, endPrev)

LastMonth ==
    LET start     == SetMonth(GetMonth(today) - 1, 1)
        end       == SetMonth(GetMonth(today), 0)
        startPrev == SetMonth(GetMonth(start) - 1, 1)
        endPrev   == SetMonth(GetMonth(startPrev), 0) IN
      Range(start, end, startPrev, endPrev)

GetRange(option) ==
    CASE option = "current_week" -> CurrentWeek
      [] option = "last_week"    -> LastWeek
      [] option = "last_month"   -> LastMonth

\* A row created at d counts (calculateCount, of users, meetings, companies).
Counts(d, start, end) == ~ Before(d, start) /\ ~ Before(end, d)

-----------------------------------------------------------------------------
Init == today = [month |-> 0, date |-> 1] /\ weekday \in 0 .. 6

NextDay ==
    /\ today' = Day(today.month, today.date + 1)
    /\ weekday' = (weekday + 1) % 7

Spec == Init /\ [][NextDay]_vars

-----------------------------------------------------------------------------
(* Properties                                                               *)

TypeOK ==
    /\ today \in [month : Nat, date : 1 .. 31]
    /\ today.date <= DaysIn(today.month)
    /\ weekday \in 0 .. 6

\* The n-th day after the Monday of this week.
WeekDay(n) == Day(today.month, today.date - SinceMonday + n)

\* What the options are called: Monday to Sunday, or the first to the last.
Period(option) ==
    CASE option = "current_week" -> [first |-> WeekDay(0), last |-> WeekDay(6)]
      [] option = "last_week"    -> [first |-> WeekDay(-7), last |-> WeekDay(-1)]
      [] option = "last_month"   ->
           [first |-> Day(today.month - 1, 1),
            last  |-> Day(today.month - 1, DaysIn(today.month - 1))]

IsPeriod(option) ==
    /\ GetRange(option).start = At(Period(option).first, Midnight)
    /\ GetRange(option).end = At(Period(option).last, LastMoment)

\* The metrics are 'for the given period' (metrics.controller.ts:18), on
\* whatever day they are asked for.
GivenPeriod == \A option \in Options : IsPeriod(option)

\* Months are right all the year (setMonth of -1 in January included), and
\* weeks are if the Monday, or for the week before its Sunday, is in today's
\* month: exactly then (getRange, the setDate of one date to the day of another).
RightWithinMonth ==
    /\ IsPeriod("last_month")
    /\ IsPeriod("current_week") <=> WeekDay(0).month = today.month
    /\ IsPeriod("last_week") <=> WeekDay(-1).month = today.month

\* On the other days the week before counts nothing at all: its range starts
\* in today's month and ends in the one before.
LastWeekIsEmpty ==
    WeekDay(-1).month # today.month =>
        \A d \in Date : ~ Counts(d, LastWeek.start, LastWeek.end)

\* The month before last is never what last_month is compared with: its end is
\* taken from the month before its start.
PreviousMonthIsWrong ==
    LastMonth.endPrev # At(Day(today.month - 2, DaysIn(today.month - 2)), Now)
=============================================================================
