----------------------------- MODULE MCCalendar -----------------------------
(***************************************************************************)
(* Both walks through the calendar for TLC: a behaviour is either the walk *)
(* of a schedule or that of an account that is reconciled.                 *)
(***************************************************************************)
EXTENDS Schedule, Periods

VARIABLE walk

calendarVars == <<walk, scheduleVars, periodVars>>

CalendarInit ==
    /\ walk \in {"schedule", "periods"}
    /\ ScheduleInit
    /\ walk = "periods" =>
          /\ anchor = [month |-> CHOOSE m \in AnchorMonths : TRUE, day |-> 1]
          /\ frequency = <<"MONTHS", 1>>
    /\ PeriodsInit

CalendarNext ==
    \/ walk = "schedule" /\ NextOccurrence /\ UNCHANGED <<walk, periodVars>>
    \/ walk = "periods" /\ PeriodsNext /\ UNCHANGED <<walk, scheduleVars>>

CalendarSpec == CalendarInit /\ [][CalendarNext]_calendarVars
=============================================================================
