------------------------------ MODULE Calendar ------------------------------
(***************************************************************************)
(* The date arithmetic of internal/httpapi/recurring.go and                *)
(* reconciliation.go.  A date is a month, counted from year 0 as           *)
(* 12 * year + (month - 1), and a day of that month.  All of it is pure;   *)
(* modules Schedule and Periods check it on the walks the program takes.   *)
(***************************************************************************)
EXTENDS Integers, FiniteSetsExt

Date(year, month, day) == [month |-> 12 * year + month - 1, day |-> day]

IsLeap(year) == year % 4 = 0 /\ (year % 100 # 0 \/ year % 400 = 0)

MonthLength(month) ==
    LET year == month \div 12
        m    == (month % 12) + 1
    IN  IF m = 2 THEN (IF IsLeap(year) THEN 29 ELSE 28)
        ELSE IF m \in {4, 6, 9, 11} THEN 30 ELSE 31

\* Days of the year before each month of a common year.
DaysBeforeMonth == <<0, 31, 59, 90, 120, 151, 181, 212, 243, 273, 304, 334>>

\* The number of a date, so that dates compare as their numbers do.
DayNumber(date) ==
    LET year == date.month \div 12
        last == year - 1
        m    == (date.month % 12) + 1
    IN  365 * year + (last \div 4) - (last \div 100) + (last \div 400)
        + DaysBeforeMonth[m] + (IF m > 2 /\ IsLeap(year) THEN 1 ELSE 0)
        + date.day

Before(d, e) == DayNumber(d) < DayNumber(e)

(***************************************************************************)
(* Go's time.Date and AddDate: a day outside the month is carried over     *)
(* into the months around it.                                              *)
(***************************************************************************)
GoDate(month, day) ==
    LET number == DayNumber([month |-> month, day |-> 1]) + day - 1
        first(m) == DayNumber([month |-> m, day |-> 1])
        m == CHOOSE m \in month + (day \div 31) - 1 .. month + (day \div 28) + 1 :
                first(m) <= number /\ number < first(m + 1)
    IN  [month |-> m, day |-> number - first(m) + 1]

AddDate(date, months, days) == GoDate(date.month + months, date.day + days)

-----------------------------------------------------------------------------
(***************************************************************************)
(* Recurring schedules.                                                    *)
(***************************************************************************)
\* Mutant: a day that the month lacks is carried into the next month.
AddMonthsCarried(anchor, months) == AddDate(anchor, months, 0)

AddMonthsClamped(anchor, months) ==
    LET first   == AddDate([anchor EXCEPT !.day = 1], months, 0)
        lastDay == GoDate(first.month + 1, 0).day
    IN  GoDate(first.month, IF anchor.day > lastDay THEN lastDay ELSE anchor.day)

\* Mutants: months are added to the current date; the first candidate is taken
\* one period too early.
NextFromCurrent(anchor, current, unit, count) ==
    CASE unit = "DAYS"   -> AddDate(current, 0, count)
      [] unit = "WEEKS"  -> AddDate(current, 0, 7 * count)
      [] unit = "MONTHS" -> AddMonthsClamped(current, count)
      [] unit = "YEARS"  -> AddMonthsClamped(current, 12 * count)

NextOnePeriodEarly(anchor, current, unit, count) ==
    LET step == IF unit = "YEARS" THEN 12 * count ELSE count
    IN  CASE unit = "DAYS"  -> AddDate(current, 0, count)
          [] unit = "WEEKS" -> AddDate(current, 0, 7 * count)
          [] unit \in {"MONTHS", "YEARS"} ->
                AddMonthsClamped(anchor,
                    ((current.month - anchor.month) \div step) * step)

\* The code's loop over index ends at its first or second value: a month later
\* is a date later.
NextRecurringDate(anchor, current, unit, count) ==
    LET step  == IF unit = "YEARS" THEN 12 * count ELSE count
        index == ((current.month - anchor.month) \div step) + 1
        candidate(i) == AddMonthsClamped(anchor, i * step)
    IN  CASE unit = "DAYS"  -> AddDate(current, 0, count)
          [] unit = "WEEKS" -> AddDate(current, 0, 7 * count)
          [] unit \in {"MONTHS", "YEARS"} ->
                candidate(Min({i \in {index, index + 1} :
                                  Before(current, candidate(i))}))

-----------------------------------------------------------------------------
(***************************************************************************)
(* Reconciliation periods.                                                 *)
(***************************************************************************)
MonthEnd(date) == GoDate(date.month + 1, 0)

\* Mutant: the window opens four days before the end.
SuggestedLate(today) ==
    IF today.day > 5 /\ ~Before(today, AddDate(MonthEnd(today), 0, -4))
    THEN MonthEnd(today)
    ELSE MonthEnd(AddDate(today, -1, 0))

SuggestedPeriod(today) ==
    IF today.day > 5 /\ ~Before(today, AddDate(MonthEnd(today), 0, -5))
    THEN MonthEnd(today)
    ELSE MonthEnd(AddDate(today, -1, 0))

PromptStart(period) == AddDate(MonthEnd(period), 0, -5)

PromptEnd(period) == GoDate(AddDate(MonthEnd(period), 0, 1).month, 5)

PromptOpen(today, period) ==
    /\ ~Before(today, PromptStart(period))
    /\ ~Before(PromptEnd(period), today)

ValidReconciliationPeriod(today, period) ==
    /\ period = MonthEnd(period)
    /\ ~Before(MonthEnd(today), period)

\* reconciliationGapMonths: what AUTO mode stores.
ReconciliationGapMonths(previous, period) ==
    LET months == period.month - previous.month
    IN  IF months < 1 THEN 1 ELSE months

\* The same number as the preview query computes it, with PostgreSQL's age():
\* whole months only, so a month is lost when the day of the month is smaller.
PreviewGapMonths(previous, period) ==
    LET age == period.month - previous.month
               - (IF period.day < previous.day THEN 1 ELSE 0)
    IN  IF age < 1 THEN 1 ELSE age

\* gap_start_period_end of a reconciliation that covers more than one month.
GapStart(period, gapMonths) == AddMonthsClamped(period, -(gapMonths - 1))
=============================================================================
