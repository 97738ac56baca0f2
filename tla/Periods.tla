------------------------------- MODULE Periods ------------------------------
(***************************************************************************)
(* The reconciliation calendar of one account: which month the application *)
(* suggests, when it reminds the user, and how it labels a gap of several  *)
(* months (GetReconciliationStatus, PrepareReconciliation and              *)
(* ConfirmReconciliation, internal/httpapi/reconciliation.go).             *)
(***************************************************************************)
EXTENDS Calendar

CONSTANTS
    StartMonth,   \* month in which the account is first reconciled
    LastMonth     \* bound on the calendar

ASSUME PeriodsConstants == StartMonth \in Int /\ LastMonth \in Int

VARIABLES
    today,      \* the date in the user's time zone
    latest,     \* period_end of the latest reconciliation
    previous,   \* period_end of the one before it
    gapMonths,  \* gap_months of the latest reconciliation
    mode        \* mode that the latest reconciliation was made in

periodVars == <<today, latest, previous, gapMonths, mode>>

PeriodsInit ==
    /\ today = [month |-> StartMonth, day |-> 1]
    /\ latest = GoDate(StartMonth, 0)
    /\ previous = latest
    /\ gapMonths = 1
    /\ mode = "AUTO"

DayPasses ==
    /\ today.month <= LastMonth
    /\ today' = AddDate(today, 0, 1)
    /\ UNCHANGED <<latest, previous, gapMonths, mode>>

\* GapMonths of an AUTO reconciliation, and of one that confirms a preview.
GapMonths(m, last, period) ==
    IF m = "AUTO" THEN ReconciliationGapMonths(last, period)
    ELSE PreviewGapMonths(last, period)

\* The user reconciles a month later than the latest one, in either mode.
Reconcile(period, m) ==
    /\ Before(latest, period)
    /\ ValidReconciliationPeriod(today, period)
    /\ latest' = period
    /\ previous' = latest
    /\ gapMonths' = GapMonths(m, latest, period)
    /\ mode' = m
    /\ UNCHANGED today

PeriodsNext ==
    \/ DayPasses
    \/ \E month \in latest.month .. today.month + 1, day \in 28 .. 31,
          m \in {"AUTO", "CONFIRM"} :
          Reconcile([month |-> month, day |-> day], m)

PeriodsSpec == PeriodsInit /\ [][PeriodsNext]_periodVars

-----------------------------------------------------------------------------
(***************************************************************************)
(* Properties.                                                             *)
(***************************************************************************)

\* The reminder is shown from five days before a month's end through the fifth
\* of the next month, for that month, and the suggested month can always be
\* reconciled; outside the window it is the last month that has ended
\* (reconciliationWindow, validateReconciliationPeriod).
ReminderWindow ==
    LET suggested == SuggestedPeriod(today)
        left      == MonthLength(today.month) - today.day
    IN  /\ ValidReconciliationPeriod(today, suggested)
        /\ PromptOpen(today, suggested) <=> (today.day <= 5 \/ left <= 5)
        /\ suggested = [month |-> IF left <= 5 THEN today.month ELSE today.month - 1,
                        day   |-> MonthLength(suggested.month)]

\* The months that a reconciliation says it covers start after the one before
\* it, so none is covered twice; in AUTO mode they start right after it, so none
\* is left out, however long the months are (reconciliationGapMonths, the query
\* of the preview, addMonthsClamped in applyReconciliation).
GapCovered ==
    latest # previous =>
        LET start == GapStart(latest, gapMonths)
        IN  /\ start.month > previous.month
            /\ mode = "AUTO" => start.month = previous.month + 1

\* What ADR 0002 says of every reconciliation, confirmed previews included: a gap
\* of several months is labelled as covering them.
GapIsMonths ==
    latest # previous => gapMonths = latest.month - previous.month
=============================================================================
