----------------------------- MODULE Recurring ------------------------------
(***************************************************************************)
(* Recurring templates and the worker that turns them into transactions    *)
(* (internal/httpapi/recurring.go, cmd/worker/main.go, and the triggers of *)
(* db/migrations/000005_recurring_reconciliation.up.sql), on top of the    *)
(* ledger.                                                                 *)
(*                                                                         *)
(* A schedule is a start date and an interval in days; that month and year *)
(* schedules are as regular is checked in module Calendar.  The generated  *)
(* transaction carries a key derived from template and date, which is also *)
(* the id of its recurring_occurrences row: the journal holds both.        *)
(* pause_reason is shown to the user and decides nothing; it is left out.  *)
(***************************************************************************)
EXTENDS Ledger, SequencesExt

CONSTANTS
    MaxTemplates,   \* bound on the number of templates
    TemplateTypes,  \* types of operation of new templates (bound)
    Intervals,      \* lengths of a schedule's period, in days
    BatchSize,      \* templates, and occurrences, per run of the worker
    LastDay         \* bound on the calendar

ASSUME RecurringConstants ==
    /\ MaxTemplates \in Nat
    /\ TemplateTypes \subseteq TypedOperations \ {"OPENING_BALANCE"}
    /\ Intervals \subseteq Nat \ {0}
    /\ BatchSize \in Nat \ {0}
    /\ LastDay \in Nat \ {0}

\* The keys that the worker derives from template and date are no client's.
ASSUME DerivedOccurrenceKeys ==
    \A t \in 1 .. MaxTemplates, d \in 1 .. LastDay : <<"recurring", t, d>> \notin Keys

VARIABLES
    templates,   \* recurring_templates
    today        \* the current date in the user's time zone

vars == <<ledgerVars, templates, today>>

TemplateIds == 1 .. MaxTemplates

Days == 1 .. LastDay

NoEnd == 0

NoTemplate ==
    [status |-> "absent", archived |-> FALSE, type |-> "NONE",
     account |-> "NONE", counterpart |-> "NONE", amount |-> 0,
     start |-> 0, next |-> 0, end |-> NoEnd, interval |-> 1]

\* validateRecurringDependencies: what a typed operation needs, but never an
\* opening balance.
ValidDependencies(accts, currency, op) ==
    op.type # "OPENING_BALANCE" /\ OperationLoads(accts, currency, op)

(***************************************************************************)
(* The triggers on ledger_accounts and categories: archiving a row pauses  *)
(* the active templates that depend on it.  Mutant: the account only.      *)
(***************************************************************************)
PauseAccountDependents(before, after) ==
    [t \in TemplateIds |->
        IF /\ templates[t].status = "ACTIVE"
           /\ before[templates[t].account].status # "archived"
           /\ after[templates[t].account].status = "archived"
        THEN [templates[t] EXCEPT !.status = "PAUSED"]
        ELSE templates[t]]

PauseDependents(before, after) ==
    [t \in TemplateIds |->
        IF /\ templates[t].status = "ACTIVE"
           /\ ~templates[t].archived
           /\ \E a \in {templates[t].account, templates[t].counterpart} :
                 before[a].status # "archived" /\ after[a].status = "archived"
        THEN [templates[t] EXCEPT !.status = "PAUSED"]
        ELSE templates[t]]

NewTemplate(type, a, counterpart, amount, start, end, interval) ==
    [status |-> "ACTIVE", archived |-> FALSE, type |-> type,
     account |-> a, counterpart |-> counterpart, amount |-> amount,
     start |-> start, next |-> start, end |-> end, interval |-> interval]

(***************************************************************************)
(* GenerateRecurring.  One database transaction under an advisory lock     *)
(* claims the due templates in order of date and id, at most BatchSize of  *)
(* them, and walks through them until BatchSize occurrences are generated. *)
(* A row that a request in progress holds, since it edits, archives or     *)
(* pauses the template, is skipped and left to the next run.  The queue    *)
(* does not look at users: a template of another user has the same place   *)
(* in it as another template of this one.                                  *)
(***************************************************************************)
IsDue(t) ==
    /\ templates[t].status = "ACTIVE"
    /\ ~templates[t].archived
    /\ templates[t].next <= today

Precedes(t, u) ==
    \/ templates[t].next < templates[u].next
    \/ templates[t].next = templates[u].next /\ t < u

\* FOR UPDATE SKIP LOCKED: held is the set of templates whose rows are locked.
Claimable(held) == {t \in TemplateIds \ held : IsDue(t)}

Claimed(held) ==
    {t \in Claimable(held) :
        Cardinality({u \in Claimable(held) : Precedes(u, t)}) < BatchSize}

PastEnd(template, date) == template.end # NoEnd /\ date > template.end

\* Mutant: the end date is not looked at.
OwedForEver(held) ==
    {o \in [template : Claimed(held), date : Days] :
        LET template == templates[o.template]
        IN  /\ o.date \in template.next .. today
            /\ (o.date - template.next) % template.interval = 0}

\* What the claimed templates owe: dates up to today and up to their end.
Owed(held) ==
    {o \in [template : Claimed(held), date : Days] :
        LET template == templates[o.template]
        IN  /\ o.date \in template.next .. today
            /\ (o.date - template.next) % template.interval = 0
            /\ ~PastEnd(template, o.date)}

OwedBefore(held, o) ==
    {p \in Owed(held) : \/ Precedes(p.template, o.template)
                        \/ p.template = o.template /\ p.date < o.date}

\* The first BatchSize of them, in the order in which they are generated.
Batch(held) ==
    LET size == Min({BatchSize, Cardinality(Owed(held))})
    IN  [n \in 1 .. size |->
            CHOOSE o \in Owed(held) : Cardinality(OwedBefore(held, o)) = n - 1]

Occurrence(o) ==
    LET template == templates[o.template]
    IN  [type |-> template.type, account |-> template.account,
         counterpart |-> template.counterpart, amount |-> template.amount,
         date |-> o.date, key |-> <<"recurring", o.template, o.date>>]

\* The walk reaches a claimed template unless the batch is full before it.
Reached(held, t) ==
    /\ t \in Claimed(held)
    /\ Cardinality({o \in Owed(held) : Precedes(o.template, t)}) < BatchSize

\* Mutants: the schedule moves past what the full batch left out; a template
\* that has reached its end stays active.
AdvancedPastBatch(t, batch) ==
    LET template == templates[t]
        count == Cardinality({d \in template.next .. today :
                     /\ (d - template.next) % template.interval = 0
                     /\ ~PastEnd(template, d)})
        next  == template.next + template.interval * count
    IN  [template EXCEPT
            !.next = next,
            !.status = IF PastEnd(template, next) THEN "PAUSED" ELSE @]

AdvancedNeverCompleted(t, batch) ==
    LET template == templates[t]
        count == Cardinality({n \in DOMAIN batch : batch[n].template = t})
    IN  [template EXCEPT !.next = @ + template.interval * count]

Advanced(t, batch) ==
    LET template == templates[t]
        count == Cardinality({n \in DOMAIN batch : batch[n].template = t})
        next  == template.next + template.interval * count
    IN  [template EXCEPT
            !.next = next,
            !.status = IF PastEnd(template, next) THEN "PAUSED" ELSE @]

-----------------------------------------------------------------------------
RecurringInit ==
    /\ Init
    /\ templates = [t \in TemplateIds |-> NoTemplate]
    /\ today = 1

\* A handler of the ledger, with the triggers it sets off.
LedgerStep ==
    /\ Next
    /\ templates' = PauseDependents(accounts, accounts')
    /\ UNCHANGED today

\* Onboarding with a recurring income: materializeOnboardingRecurring.
OnboardWithIncome(t, currency, a, opening, amount, start, interval) ==
    /\ CompleteOnboarding(currency, a, "ASSET", currency, opening, today)
    /\ templates[t].status = "absent"
    /\ start >= today
    /\ \E c \in Categories :
          /\ IsActive(accounts', c) /\ accounts'[c].class = "INCOME"
          /\ templates' = [templates EXCEPT ![t] =
                 NewTemplate("INCOME", a, c, amount, start, NoEnd, interval)]
    /\ UNCHANGED today

CreateRecurringTemplate(t, op, start, end, interval) ==
    /\ templates[t].status = "absent"
    /\ end # NoEnd => end >= start
    /\ \E base \in EnsureLedgerInfrastructure(accounts, functional) :
          /\ ValidDependencies(base, functional, op)
          /\ accounts' = base
    /\ templates' = [templates EXCEPT ![t] =
          NewTemplate(op.type, op.account, op.counterpart, op.amount,
                      start, end, interval)]
    /\ UNCHANGED <<functional, onboarded, journal, today>>

\* Mutant: an archived template keeps its status.
EditedKeepingStatus(template, amount, end, status, archives, stays) ==
    [template EXCEPT !.amount = amount,
                     !.end = IF end = NoEnd THEN @ ELSE end,
                     !.status = IF status = "keep" THEN @ ELSE status,
                     !.archived = archives \/ stays]

\* The UPDATE statement of UpdateRecurringTemplate.
Edited(template, amount, end, status, archives, stays) ==
    [template EXCEPT !.amount = amount,
                     !.end = IF end = NoEnd THEN @ ELSE end,
                     !.status = IF archives THEN "PAUSED"
                                ELSE IF status = "keep" THEN @ ELSE status,
                     !.archived = archives \/ stays]

\* "keep" is a field that the request leaves out; NoEnd leaves the end as it is.
UpdateRecurringTemplate(t, amount, end, status, archived) ==
    LET template == templates[t]
        archives == archived = "yes"
        stays    == template.archived /\ archived # "no"
    IN  /\ template.status # "absent"
        /\ end # NoEnd => end >= template.start
        /\ status = "ACTIVE" =>
              /\ ~archives /\ ~stays
              /\ end # NoEnd => template.next <= end
              /\ ValidDependencies(accounts, functional, template)
        /\ templates' = [templates EXCEPT ![t] =
              Edited(@, amount, end, status, archives, stays)]
        /\ UNCHANGED <<ledgerVars, today>>

Posts(batch) ==
    [n \in DOMAIN batch |->
        TypedOperation(accounts, functional, Occurrence(batch[n]), 0)]

\* One error rolls the whole run back.
GenerateRecurring(held) ==
    /\ Claimed(held) # {}
    /\ UNCHANGED <<functional, onboarded, accounts, today>>
    /\ \E batch \in {Batch(held)} : \E posts \in {Posts(batch)} :
          /\ \A n \in DOMAIN batch :
                /\ OperationLoads(accounts, functional, Occurrence(batch[n]))
                /\ Accepted(journal, accounts, posts[n])
          /\ Len(journal) + Len(posts) <= MaxJournal
          /\ journal' = FoldLeft(PostJournal, journal, posts)
          /\ templates' = [t \in TemplateIds |->
                              IF Reached(held, t) THEN Advanced(t, batch)
                              ELSE templates[t]]

DayPasses ==
    /\ today < LastDay
    /\ today' = today + 1
    /\ UNCHANGED <<ledgerVars, templates>>

RecurringOperations ==
    [type : TemplateTypes,
     account : UserAccounts, counterpart : UserAccounts \cup Categories,
     amount : Amounts]

RecurringNext ==
    \/ LedgerStep
    \/ \E t \in TemplateIds, c \in Currencies, a \in UserAccounts,
          x \in OpeningAmounts, y \in Amounts, d \in Days, n \in Intervals :
          OnboardWithIncome(t, c, a, x, y, d, n)
    \/ \E t \in TemplateIds, op \in RecurringOperations, d \in Days,
          e \in Days \cup {NoEnd}, n \in Intervals :
          CreateRecurringTemplate(t, op, d, e, n)
    \/ \E t \in TemplateIds, x \in Amounts, e \in Days \cup {NoEnd},
          s \in {"keep", "ACTIVE", "PAUSED"}, r \in {"keep", "yes", "no"} :
          UpdateRecurringTemplate(t, x, e, s, r)
    \/ \E held \in SUBSET TemplateIds : GenerateRecurring(held)
    \/ DayPasses

RecurringSpec == RecurringInit /\ [][RecurringNext]_vars

\* The worker's ticker starts a run again and again (cmd/worker/main.go), and a
\* request holds rows for the length of its transaction only, so a run that finds
\* none held and can commit eventually does.
FairRecurringSpec == RecurringSpec /\ WF_vars(GenerateRecurring({}))

\* More than the ticker gives: a run that can commit again and again does.
StronglyFairRecurringSpec == RecurringSpec /\ SF_vars(GenerateRecurring({}))

-----------------------------------------------------------------------------
(***************************************************************************)
(* Properties.                                                             *)
(***************************************************************************)
OccurrenceDates(t) == {d \in Days : KeyUsed(journal, <<"recurring", t, d>>)}

\* Templates are well formed; an archived template is never active.
TemplatesOK ==
    /\ \A t \in TemplateIds :
          /\ templates[t].status \in {"absent", "ACTIVE", "PAUSED"}
          /\ templates[t].archived => templates[t].status = "PAUSED"
    /\ today \in Days

\* The generated occurrences are exactly the dates of the schedule before
\* next_scheduled_date: whatever pauses, edits, archivings and batch limits
\* happened, no date is skipped and none is posted twice (GenerateRecurring).
ScheduleComplete ==
    \A t \in TemplateIds : templates[t].status # "absent" =>
        OccurrenceDates(t) =
            {d \in Days : /\ d >= templates[t].start
                          /\ d < templates[t].next
                          /\ (d - templates[t].start) % templates[t].interval = 0}

\* An active template depends only on accounts and categories that are not
\* archived, so a run of the worker never meets an archived dependency (the
\* two pause triggers, CreateRecurringTemplate and UpdateRecurringTemplate).
ActiveMeansUsable ==
    \A t \in TemplateIds : templates[t].status = "ACTIVE" =>
        /\ IsActive(accounts, templates[t].account)
        /\ IsActive(accounts, templates[t].counterpart)

\* A run never generates an occurrence in the future, after the template's end,
\* or of a template that is paused (GenerateRecurring).
GeneratesOnlyWhatIsDue ==
    [][\A t \in TemplateIds : \A d \in OccurrenceDates(t)' \ OccurrenceDates(t) :
          /\ d <= today
          /\ templates[t].status = "ACTIVE"
          /\ ~PastEnd(templates[t], d)]_vars

Resumes ==
    \E t \in TemplateIds :
        templates[t].status = "PAUSED" /\ templates'[t].status = "ACTIVE"

\* An active template that is due is eventually brought up to date or paused, as
\* long as the user does not go on resuming templates for ever: neither a batch
\* limit nor another template keeps it waiting (GenerateRecurring).  Without the
\* condition a completed template that is resumed after every run can take the
\* last place in each batch although it owes nothing.
DueIsGenerated ==
    <>[][~Resumes]_vars => \A t \in TemplateIds : IsDue(t) ~> ~IsDue(t)
=============================================================================
