------------------------------ MODULE Schedule ------------------------------
(***************************************************************************)
(* One recurring template walking through the calendar: start_date,        *)
(* interval_unit and interval_count stay, and every generated occurrence   *)
(* moves next_scheduled_date on (GenerateRecurring's inner loop and        *)
(* nextRecurringDate, internal/httpapi/recurring.go).                      *)
(***************************************************************************)
EXTENDS Calendar

CONSTANTS
    AnchorMonths,     \* months a template may start in
    CustomUnits,      \* interval units of custom schedules
    CustomCounts,     \* interval counts of custom schedules
    LastScheduleMonth \* bound: the walk stops after this month

ASSUME ScheduleConstants ==
    /\ AnchorMonths \subseteq Int
    /\ CustomUnits \subseteq {"DAYS", "WEEKS", "MONTHS", "YEARS"}
    /\ CustomCounts \subseteq Nat \ {0}
    /\ LastScheduleMonth \in Int

VARIABLES anchor, frequency, next, generated

scheduleVars == <<anchor, frequency, next, generated>>

\* normalizeRecurringSchedule: weekly, monthly, quarterly, yearly and custom.
Frequencies ==
    {<<"WEEKS", 1>>, <<"MONTHS", 1>>, <<"MONTHS", 3>>, <<"YEARS", 1>>}
        \cup (CustomUnits \X CustomCounts)

ScheduleInit ==
    /\ \E m \in AnchorMonths : \E d \in 1 .. MonthLength(m) :
          anchor = [month |-> m, day |-> d]
    /\ frequency \in Frequencies
    /\ next = anchor
    /\ generated = 0

NextOccurrence ==
    /\ next.month <= LastScheduleMonth
    /\ next' = NextRecurringDate(anchor, next, frequency[1], frequency[2])
    /\ generated' = generated + 1
    /\ UNCHANGED <<anchor, frequency>>

ScheduleSpec == ScheduleInit /\ [][NextOccurrence]_scheduleVars

-----------------------------------------------------------------------------
(***************************************************************************)
(* The schedule a user asked for, stated without the code's arithmetic.    *)
(***************************************************************************)
IsNthDate(date, n) ==
    LET unit == frequency[1]  count == frequency[2]
    IN  CASE unit = "DAYS"  -> DayNumber(date) = DayNumber(anchor) + n * count
          [] unit = "WEEKS" -> DayNumber(date) = DayNumber(anchor) + 7 * n * count
          [] OTHER ->
                /\ date.month = anchor.month
                                + n * count * (IF unit = "YEARS" THEN 12 ELSE 1)
                /\ date.day = Min({anchor.day, MonthLength(date.month)})

\* After n generated occurrences the next one is exactly the n-th date of the
\* schedule: a month that is too short moves one date and not the ones after
\* it, leap days come back, and no period is skipped or hit twice
\* (nextRecurringDate, addMonthsClamped).
OnSchedule == IsNthDate(next, generated)

\* Every step moves the schedule to a later date, so catching up with today
\* takes finitely many occurrences (the loop in GenerateRecurring ends).
MovesForward == [][Before(next, next')]_scheduleVars
=============================================================================
