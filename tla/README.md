# MyFinance: formal specification

MyFinance is a personal finance application: a Go API and a Go worker on top of
one PostgreSQL database, and a React client. This directory holds TLA+ models
of the parts where the order of events decides whether the user's money is
counted correctly and who may see it, the TLC runs that check them on small
instances, and proofs for instances of every size, checked by TLAPS: of every
safety and action property of the passing runs and of the refinement.

Run everything from this directory:

    tlc -workers 2 -config Ledger.cfg MCLedger
    tlapm Sums.tla
    for m in *Proofs.tla; do tlapm $m; done

`PROJECT.json` lists the runs, the mutants that show that each property can
fail, the source lines behind each definition, the hazards and the findings.

## 1. Inventory

| Component | State | Operations | What must hold |
|---|---|---|---|
| Ledger (`ledger.go`, migration 000004) | accounts, categories, append-only transactions with two entries each | create and update accounts and categories, five typed operations, reverse, replace; infrastructure created on demand by almost every request | postings balance; reversals are exact and single; a corrected amount counts once; nothing new on archived rows; one currency per account and user |
| Onboarding, settings (`onboarding.go`, `profile.go`) | functional currency, onboarding flag, setups to materialize | complete onboarding, change settings | the currency is locked by the first posting |
| Recurring (`recurring.go`, migration 000005) | templates, occurrences | create, edit, pause, resume, archive; pause triggers; batch generation | each scheduled date posted exactly once, none early, none after the end, none missing; every due template served |
| Reconciliation (`reconciliation.go`, migration 000005) | reconciliations, previews, snapshots | prepare (AUTO or CONFIRM), confirm, expire, clean up | the reported balance is reached; one adjustment in force; a confirmation does what was previewed |
| Calendar (pure functions of both) | none | next date, clamped months, month ends, windows, gaps | n-th occurrence is the n-th date; the window and the labels are right |
| Worker (`cmd/worker/main.go`) | none of its own | FX refresh and backfill, expired sessions and challenges, generation, expired previews, on a ticker | each step gets its turn |
| Assets (`assets.go`, 000006) | assets, valuation history, revaluation entries | create with or without a purchase, update, archive, value | a retry makes nothing twice; each valuation is explained by its postings; nothing reaches what is archived |
| Identity (`auth*.go`, `register.go`, `sessions.go`, `second_factor_login.go`, `totp_management.go`, `profile.go`) | users, sessions, challenges, TOTP credentials, recovery codes | register, log in, second factor, log out, revoke, set up, confirm and remove the factor, change the password, delete the account | one use per challenge and code; a change of password or factor and a deletion hold against requests in progress |
| Login limiter (`rate_limit.go`) | failures per client and window, in memory | allowed, failed, succeeded | bound per window, also for concurrent requests |
| FX (`fx.go`, 000007) | rates by date, stale marks, advisory locks | refresh, backfill, retry, mark | one worker per job; a failure shows; the cycle goes on |
| Dashboard (`dashboard.go`) | none | net worth, cash flow, history, conversion | totals agree with the ledger |
| Money, HTTP layer, generated code, web client | none relevant | parsing, routing, display | |

How they interact. The API's handlers and the worker share nothing but the
database. Every handler that writes money runs in one SERIALIZABLE transaction
and locks the rows that it reads, so these handlers interleave as wholes; an error
or a serialization failure rolls back everything. Typed operations, reversals,
reconciliation adjustments, recurring occurrences, opening balances, asset
purchases and revaluations all end in `postJournal`. Two triggers call from the
ledger into recurring templates. A preview and its confirmation are two requests
with anything in between. The worker and the clients do not know of each other.

Identity is different. The limiter, the look-up of the session and the handler's
statements are separate steps, `Login` and `SetupTOTP` run without a transaction,
and other requests get in between. So is the worker's rate job: each statement
commits by itself, on any connection of the pool, with calls of the provider
in between, under an advisory lock that belongs to one connection.

What is hard about the money, then, is not the interleaving inside a handler but
long sequences of legal requests: checks that were true when made and are used later (previews,
currencies, archived rows), retries with idempotency keys, corrections of
corrections, the batch limit, one failing template among many, months of
different lengths. What is hard about identity and rates is the interleaving.
`PROJECT.json` lists these at their source lines.

## 2. Modules

| Module | Models | Used by |
|---|---|---|
| `Ledger` | every writing handler of the ledger, onboarding and currency settings | all but the calendar modules |
| `Book` | the abstract promise: operations that can be edited and deleted in place, with running balances | `LedgerBook` |
| `LedgerBook` | the refinement mapping from `Ledger` to `Book` | `MCLedger` |
| `Sums` | lemmas about sums over finite sets | the proof modules |
| `LedgerProofs` | the theorems about `Ledger` and the refinement | the next three |
| `ReconciliationProofs`, `RecurringProofs`, `AssetsProofs` | the theorems about these modules, the last one also about `Dashboard` | |
| `CalendarProofs` | the theorems about `Schedule` and `Periods` | |
| `FxProofs` | the theorems about `Fx` | |
| `Reconciliation` | reconciliation composed with `Ledger` | `MCReconciliation` |
| `Recurring` | templates, triggers and generation composed with `Ledger` | `MCRecurring` |
| `Calendar` | Go's date arithmetic and the pure date functions | `Schedule`, `Periods` |
| `Schedule` | one template walking through real dates | `MCCalendar` |
| `Periods` | the reconciliation calendar of one account, day by day | `MCCalendar` |
| `Assets` | assets and valuations composed with `Ledger` | `Dashboard` |
| `Dashboard` | the figures of the dashboard over the journal of `Assets` | `MCAssets` |
| `Fx` | the worker's cycle, refresh and backfill of the rates, conversion | `MCFx` |
| `Identity` | users, sessions, second factor, recovery codes and limiter | `MCIdentity` |
| `IdentityProofs` | the theorems about `Identity` | |
| `MC*` | model values, symmetry; `MCCalendar` composes the two calendar walks | |

**State.** `functional` and `onboarded` are columns of `users`; `accounts` maps
each id to its row, where a category and the ledger account created with it are
one row (only the category is ever archived); `journal` is the sequence of posted
transactions, position standing for id and 0 for NULL. `reconciliations`,
`previews` and `templates` are the tables of those names. A generated
transaction's key is the pair (template, date), which in the code is hashed into
both the key and the id of the `recurring_occurrences` row, so that the journal
contains that table. `assets` and `valuations` are tables as well. All these rows
are scoped by `user_id`; one user is modelled.

In `Identity` the tables hold the rows that a request can still find: a revoked,
consumed or expired row is left out, because no statement ever returns it. A
password is a version number, a TOTP secret the number it was drawn with, a TOTP
code the time step it belongs to. `limiter` is the map in the memory of the
server. `requests` says, for each request in progress, what it does next and what
it has read. `confirmed`, `opened`, `seen` of a request, and the `password` of a
session, a challenge and a request, the one that was verified for it, are history
for the properties: no column keeps them. In `Fx`, `rates` is
`fx_rates`, `locks` says which worker's connection has which advisory lock and how
often, and `workers` is the point in the cycle of each process.

**Actions.** One action per handler, with the name of the handler. A refused
request is an action that is not enabled, since it rolls back. Operators in the
models carry the helpers: `PostJournal` is `postJournal` (an existing key returns
the existing transaction, whatever it is), `Accepted` the foreign key and the
unique indexes that an insert must pass, `OperationLoads` and `TypedOperation` the
two halves of `postTypedOperation`, `EnsureLedgerInfrastructure` the function of
that name, with a choice of new category ids. `ApplyReconciliation` follows
`applyReconciliation` step by step. `GenerateRecurring(held)` is one run of the worker:
the claimed templates, without those whose rows a request holds at that moment
(`FOR UPDATE SKIP LOCKED`), the occurrences they owe in the order of the code's loops,
cut off at the batch size, all posted or none. A run is one action because it is
one transaction; that an error leaves no part of it is so by construction here and
shown by no property. The queue does not look at users, so a template of another
user has the place that another template of this one has.

A handler of `Identity` is a process: `LoginArrives` (the limiter), then
`LoginPasswordRight` (the read of user and factor), `CreateLoginSession` or
`CreateLoginChallenge` (the write), `LoginSucceeded` (the limiter again). What runs
in a transaction is one action, `VerifyLoginTOTP` for instance. A request may be
refused or given up at every point (`Refused`). In `Fx` an action is one
statement, one answer of the provider, or one thing that happens to a worker:
its connection is closed, or it is stopped and started again.

**Abstractions.** Amounts are integers in units of 10^-8. Names, descriptions and
subtypes other than "bank or cash" are left out, and with them the requests that
are refused because of them. In `Recurring` a schedule is an interval in days;
that month and year schedules are as regular is what `Schedule` checks and
`CalendarProofs` proves.
`reconciliation_mode` only selects the branch of the next request, so both are
always possible. In `Assets` names, types and places are left out. In `Identity`
hashes, encryption, tokens and audit events are left out, and one client address
stands for all. In `Fx` the provider answers what it likes, with rates from a
small set. Triggers of migration 000004 that re-check what the handlers
checked are left out, and the invariants show that they never would have fired;
those that handlers rely on (foreign keys, unique indexes, the functional-currency
trigger in `CompleteOnboarding`, the snapshot foreign key that pins the currency of
a reconciled account, the trigger against postings on archived accounts in a
valuation) are modelled.

## 3. Runs

Passing:

| Run | Instance | Shows |
|---|---|---|
| `Ledger` | 1 account, 3 categories, 2 currencies, both classes, 2 dates, 3 client keys, journal of 4, of 2 once the third category is in use (`Narrow`) | `Balanced`, `CurrencyLocked`, `ReversalsCancel`, `ReplacedIsReversed`, `ArchivedStaysClosed` and `TypeOK` under every order of onboarding, currency changes, archiving, posting and correcting, and `ImplementsBook`: the append-only journal is an editable book |
| `Reconciliation` | 1 account, 2 months, 2 reconciliation keys, 2 reconciliations, journal of 4, every ledger handler that needs at most one client key in between | `ReportedBalanceReached`, `ConfirmedAsPreviewed`, `OneAdjustmentInForce`, `ReconciliationTypeOK` |
| `Recurring` | 2 templates on 1 account and 2 categories, 2 days, batch of 1, any rows held by requests, weak fairness of generation | `ScheduleComplete`, `GeneratesOnlyWhatIsDue`, `ActiveMeansUsable`, `TemplatesOK`, `DueIsGenerated` |
| `Calendar` | every start day of 6 months around February 2028, 12 frequencies, 5 years; every day of 14 months around it, both modes | `OnSchedule`, `MovesForward`, `ReminderWindow`, `GapCovered` |
| `Identity` | 1 user, 2 concurrent requests, 2 live sessions, 3 challenges and secrets together, 1 recovery code, 2 passwords, 2 time steps, 1 wrong code and 1 failure allowed | `CodesOfLatestConfirmation`, `NoOrphanRows`, `PasswordChangeRevokes`, `LimiterBound`, `ChallengeOnce`, `CodeOnce`, `OnlyStaleLoginSkipsFactor`, `FactorRemoved`, `IdentityTypeOK` |
| `Assets` | 2 assets on 2 accounts, 2 dates, 2 keys, half ownership of an odd value, 2 valuations, journal of 3 | `OneAssetPerRequest`, `ValuationsExplained`, `ShownValueExplained`, `NetWorthBalances`, `ArchivedAssetQuiet`, `AssetsTypeOK` |
| `Fx` | 2 workers, 1 currency, 2 days, 2 requests before a job gives up, rate 3/2 | `OverlapOnlyAfterLoss`, `FailureShown`, `ConversionFair`, `CycleReachesWork`, `FxTypeOK` |

Each of these checks at least one property of several steps and tables; the
mutants in `PROJECT.json` are the slips that each one catches: a reversal that is
dated today, the balance read before instead of after the old adjustment's
reversal, the schedule moved past what a full batch left out, a trigger that
forgets categories, a clamped date used as the next anchor, a challenge that stays
open, recovery codes added to the old ones, a stale mark on the latest rate only,
a half rounded up below zero.

Why the bounds are enough. A violation of the ledger's properties involves an
original, its reversal, its replacement and one thing that went on in between:
four postings. The third category is for one archived while two are active.
Expenses mirror incomes, and transfers are asset purchases under another name: the
runs of the modules built on the ledger use an income and purchases between two
accounts. Currency hazards need two currencies and a posting on each side of a
change. In `Reconciliation` there is one client key between the reconciliations, so
that a transaction or a reversal may come in between but no correction, which needs a
key for each half; with two keys TLC does not end in useful time, and
`ReconciliationProofs` has no such bound. A repeated reconciliation needs two
reconciliations of one month, the second month shows that earlier and later
balances do not disturb each other. A batch of one cuts off both between two
templates and in the middle of one. Two assets show that
neither moves the other's account, and one of them takes a purchase, a valuation
and a correction in three postings. Races in `Identity` need two requests, one
that has read and one that writes in between; with three secrets and challenges
together (`MaxDrawn`) there are two set-ups over each other, or a code that is tried
at two challenges, or at one and at the removal, and with one attempt and one
failure allowed the limits are reached. A lock needs two workers, a late
refresh over a newer backfill two days. The proofs of section 5 remove the
bounds from all of these but the two liveness properties.

Violations, each a place where the code does something else than the project's
documents say (quoted in `PROJECT.json`):

| Run | Trace |
|---|---|
| `Reconciliation_repeat` | reconcile, delete the adjustment in the transaction list, reconcile the same month again: refused for good |
| `Recurring_poison` | create a template, change the functional currency before its first posting: each run of the worker fails and rolls back, also for all other templates in the batch |
| `Calendar_gap` | reconcile December 31, then February 28 with a preview and its confirmation: `age()` counts complete months, and the gap of two months is labelled as one |
| `Fx_timeout` | a rate is stored, the next request fails and the job's time is over: the mark fails on the expired context, and the old rate looks fresh |
| `Dashboard_corrected` | post an income, delete it: the dashboard adds up incomes only, never reversals, and still shows it in its month |

`Recurring_poison` is a liveness counterexample under *strong* fairness of
generation, which is more than the worker's ticker gives; the template is due
for ever and no run can commit.

One limit shows as an assumption instead of a run: with `UniqueKeys = FALSE` a
client may send a replacement whose reversal key it has used before.
`postJournal` answers with the old transaction, nothing is reversed, and the
replacement is posted next to the original. `ReplacedIsReversed` is therefore
stated for clients that draw a fresh key for each request, as the web client does.
The other ledger properties do not need the assumption, as their theorems show.

What the models show besides, where no document is contradicted or a property
says exactly when:

- Choosing another functional currency after the system accounts exist makes
  opening balances fail on the foreign key (`ledger.go:621`); `CurrencyLocked`
  holds because they are refused.
- A preview made in one functional currency and confirmed in another posts in the
  first (`reconciliation.go:326`); the run keeps one currency.
- A set-up of the factor that looked before another was confirmed takes the
  confirmed one away (`totp_management.go:14`), and a login that read the user
  before the confirmation opens a session without it (`auth.go:64`).
  `FactorRemoved` and `OnlyStaleLoginSkipsFactor` say that nothing else does.
- A login that verified the old password may open its session after the change of
  the password, and a challenge opened with the old one is not revoked
  (`profile.go:151`). `PasswordChangeRevokes` says that nothing else gains by the
  old password, and that each such login opens one session.
- n concurrent requests exceed a limiter by up to n - 1 (`LimiterBound`).
- A reversal of a revaluation leaves the asset shown at its valuation while the
  ledger has the balance before it; `ShownValueExplained` says by what they differ.

## 4. Fairness

In `Recurring` only `GenerateRecurring` is fair, and weakly: the worker's ticker
starts a run again and again, each run takes the advisory lock for its transaction
only, and the FX refresh before it has its own deadline and only logs its errors.
What is fair is a run that finds no row held: a request holds a row for the length of
its transaction, so such runs come again. Runs that skip rows happen as they like.
Users and the calendar are never obliged to act. `DueIsGenerated` assumes that the user does
not go on resuming templates for ever: a completed template that is resumed after
each run is due again, takes a place in the batch and owes nothing, and with
enough of these another template never gets its turn.

In `Fx` each worker's next step is weakly fair. The requests and the statements of a
job have a deadline, after which the step that follows an error is taken. The
deferred unlock has none: it runs on `context.Background()` (`fx.go:188`,
`fx.go:233`), so that the fairness of `GiveLockBack` rests on the database
answering or the connection failing, and a database that keeps the
connection and never answers would hold the cycle there. Neither stops nor starts are fair, and
`CycleReachesWork` assumes of the provider and the locks nothing at all.

`Identity` and `Assets` have safety properties only. `CHECK_DEADLOCK FALSE` is
set because journal, calendar and tables are bounded, so the models stop.

## 5. Proofs

Each theorem states a property of a passing run for every value of the constants
that the named assumptions allow. The bounds that keep TLC's instances small
(`MaxJournal`, `MaxTemplates`, `MaxValuations` and the like) are constants of
which the proofs use no more than their type, so that the theorems hold for each
choice of them.

The assumptions, besides types and disjointness of the sets, are these:

| Assumption | Why the code justifies it |
|---|---|
| `FiniteAccounts` | tables are finite; needed only for sums over all accounts |
| `DerivedKeys`, `DerivedReconciliationKeys`, `DerivedOccurrenceKeys` | keys that the server derives are name-based (SHA-1) UUIDs of other names than a client's, which are drawn |
| `UniqueKeys`, where a theorem names it | the web client draws a fresh key for each request; the API does not check it |
| `"NONE" \notin Workers`, `"NONE" \notin Currencies` | `"NONE"` stands for NULL in the models |
| `ShareConstants` | `ownershipSharePattern` and the CHECK of migration 000006 |
| `ScheduleConstants` | `normalizeRecurringSchedule` and the CHECKs of migration 000005 admit these units and positive counts only |

### Ledger

`LedgerProofs.tla`, from `LedgerConstants` and, for the refinement, `FiniteAccounts`:

| Theorem | Statement |
|---|---|
| `Invariance` | `Spec => []IInv` |
| `TypeCorrect` | `Spec => []TypeOK` |
| `JournalBalanced` | `Spec => []Balanced` |
| `ReversalsAreExact` | `Spec => []ReversalsCancel` |
| `CurrenciesAreLocked` | `Spec => []CurrencyLocked` |
| `CorrectionsReverse` | `UniqueKeys => (Spec => []ReplacedIsReversed)` |
| `ClosedAccountsStayClosed` | `Spec => ArchivedStaysClosed` |
| `JournalIsABook` | `Spec => ImplementsBook` |

None of the properties is inductive alone. `CurrencyLocked` needs `Balanced` (an
entry's account exists, so that on-demand infrastructure does not overwrite its
row) and the fact that the functional currency moves only while the journal is
empty; a reversal's balance follows from its original's. The invariant is the
conjunction of the properties, with the classes and kinds of the rows. It is
stated with the journal, the rows, the currencies and the keys as parameters: a
handler passes through intermediate values of the first two, and the modules
built on the ledger reuse it with keys of their own.

The argument separates what a handler does to rows from what it does to the
journal. Every write to the journal is zero, one or two `PostJournal`s; the
lemma on `PostJournal` says that it appends one transaction or nothing, and the
one on appending that a sound transaction keeps the invariant. Soundness is
then shown once for opening balances, typed operations and reversals. Every
write to the rows is one of two kinds: rows are added and existing ones are
untouched (infrastructure, new accounts and categories), or a row is changed
and an account with postings keeps its currency. `NextKeeps` is then one short
step per handler. `HandlerEffect` sums a handler up for the properties of steps:
nothing posted, one transaction, or a reversal and then an operation.

The refinement follows the same three cases. Posting an operation records one in
the book; a reversal takes one out, since what counts loses exactly the
original; a correction does both, and the intermediate journal shows that the
balances move by the difference. That money is conserved is `Balanced`, summed over
the two legs of each transaction.

### Modules built on the ledger

`Sums.tla` says what `MapThenSumSet` computes: it is an integer, it does not
depend on the order of the elements, adds up over disjoint sets and may be
exchanged with another sum. The library's induction theorems cannot be instantiated
here; instead each lemma takes a smallest subset on which it could fail, which exists
because cardinalities are numbers, and removes one element from it.

`RecurringProofs.tla`, from the assumptions of `Recurring`:

| Theorem | Statement |
|---|---|
| `RecurringInvariance` | `RecurringSpec => []GInv` |
| `TemplatesTypeCorrect` | `RecurringSpec => []TemplatesOK` |
| `SchedulesAreComplete` | `RecurringSpec => []ScheduleComplete` |
| `ActiveTemplatesAreUsable` | `RecurringSpec => []ActiveMeansUsable` |
| `OnlyDueIsGenerated` | `RecurringSpec => GeneratesOnlyWhatIsDue` |
| `RecurringKeepsLedgerSound` | `RecurringSpec => [](Balanced /\ ReversalsCancel /\ CurrencyLocked)` |

`ScheduleComplete` needs two things to be inductive: the next date is itself on the
template's schedule (`TemplatesSound`), and no key of a template that does not exist
yet is in the journal (`OccurredIn`, the property key by key). With these the
key of an owed date is unused; a run that met a used one would post nothing and
move the schedule on all the same. `GenerateRecurring` posts a batch with a fold over its numbers, which is
unfolded as in `Sums`; the proof then shows that what the batch leaves out of a template
is the end of what it owes, so that the schedule moves to the first date left
out. `DependenciesActive` needs the trigger that pauses templates, in the same step
as the archiving.

`ReconciliationProofs.tla`, from the assumptions of `Reconciliation`, each theorem
under `UniqueKeys`:

| Theorem | Statement |
|---|---|
| `ReconciliationInvariance` | `ReconciliationSpec => []RInv` |
| `ReconciliationTypeCorrect` | `ReconciliationSpec => []ReconciliationTypeOK` |
| `AdjustmentsAreExclusive` | `ReconciliationSpec => []OneAdjustmentInForce` |
| `ReportedBalanceIsReached` | `ReconciliationSpec => ReportedBalanceReached` |
| `ConfirmationsMoveAsPreviewed` | `ReconciliationSpec => ConfirmedAsPreviewed` |
| `ReconciliationKeepsLedgerSound` | `ReconciliationSpec => [](Balanced /\ ReversalsCancel)` |

`RInv` ties the tables together: the transaction of a reconciliation is an
adjustment (`AdjustmentsIn`), one that counts belongs to a reconciliation in force
(`LiveIn`), and a key in the journal to a recorded request (`KeysIn`), so that `postJournal` does post the
adjustment and the reversal. `UniqueKeys` is what makes this true: with a key
that the ledger has seen, nothing is posted and the balance is missed. The
journal is sound in all currencies instead of the functional one because
`ConfirmReconciliation` does not check the functional currency again;
`CurrencyLocked` is therefore not among the theorems.

`AssetsProofs.tla`, from the assumptions of `Assets`:

| Theorem | Statement |
|---|---|
| `AssetsInvariance` | `AssetsSpec => []AInv` |
| `AssetsTypeCorrect` | `AssetsSpec => []AssetsTypeOK` |
| `OneAssetForEachRequest` | `AssetsSpec => []OneAssetPerRequest` |
| `ValuationsAreExplained` | `AssetsSpec => []ValuationsExplained` |
| `ShownValueIsExplained` | `AssetsSpec => []ShownValueExplained` |
| `NetWorthIsBalanced` | `AssetsSpec => []NetWorthBalances` |
| `ArchivedAssetsAreQuiet` | `AssetsSpec => ArchivedAssetQuiet` |
| `AssetsKeepLedgerSound` | `AssetsSpec => [](Balanced /\ ReversalsCancel /\ CurrencyLocked)` |

`ValuesIn` says of each valuation, not the latest one only, that the owned value
and what was posted since, at or before its date, add up to the balance at its date;
an operation posted now adds the same to both sides. `NetWorthBalances` exchanges the sum over
accounts with the sum over transactions, each of which is zero.

### Calendar and exchange rates

`CalendarProofs.tla`, from `ScheduleConstants` and `PeriodsConstants`, for every
year of Go's proleptic calendar, before and after zero:

| Theorem | Statement |
|---|---|
| `SchedulesStayOnCourse` | `ScheduleSpec => []OnSchedule` |
| `SchedulesAdvance` | `ScheduleSpec => MovesForward` |
| `RemindersAreInWindow` | `PeriodsSpec => []ReminderWindow` |
| `GapsAreCovered` | `PeriodsSpec => []GapCovered` |

Months have 28 to 31 days and the number of the first day of a month grows by
that length; from this follows that a number lies in one month only. `GoDate`
normalizes a day outside its month by going through that number; lemmas give its value for
days from -31 on, which covers every call in the code, day 0 for the end of the
month before included. The walk of a schedule is then by frequency:
days and weeks add numbers, months and years clamp the anchor and not the last
date, which is why short months leave no trace. `GapCovered` needs that the months
`age()` counts are never more than the difference of the months, and no less than
that difference in `reconciliationGapMonths`.

`FxProofs.tla`, from `FxConstants`:

| Theorem | Statement |
|---|---|
| `FxInvariance` | `FxSpec => []FInv` |
| `FxTypeCorrect` | `FxSpec => []FxTypeOK` |
| `JobsAreExclusive` | `FxSpec => []OverlapOnlyAfterLoss` |
| `FailuresAreShown` | `FxSpec => []FailureShown` |
| `ConversionsAreFair` | `FxSpec => []ConversionFair` |

A worker that is inside a job and has not lost its connection owns the lock
(`WorkersOK`); an unlock that comes late, or on another connection, gives up only
what that connection holds. All rates of an unanswered currency are marked, not the latest only
(`RatesOK`): else an older one would be shown after a change of the date. A
conversion rounds a quotient half away from zero; the lemmas bound what that adds
by half a unit, and doubled numbers keep the argument in the integers.

### Identity

`IdentityProofs.tla` proves, for any sets of users, addresses, sessions and
recovery codes, any finite set of concurrent requests, any number of attempts,
failures and window length, from the assumption `IdentityConstants` alone:

| Theorem | Statement |
|---|---|
| `IdentityInvariance` | `IdentitySpec => []Inv` |
| `IdentityTypeCorrect` | `IdentitySpec => []IdentityTypeOK` |
| `NoOrphans` | `IdentitySpec => []NoOrphanRows` |
| `PasswordChangesRevoke` | `IdentitySpec => PasswordChangeRevokes` |
| `CodesAreLatest` | `IdentitySpec => []CodesOfLatestConfirmation` |
| `LimiterIsBounded` | `IdentitySpec => []LimiterBound` |
| `ChallengesOpenOnce` | `IdentitySpec => ChallengeOnce` |
| `CodesOpenOnce` | `IdentitySpec => CodeOnce` |
| `StaleLoginsOnly` | `IdentitySpec => OnlyStaleLoginSkipsFactor` |
| `FactorsStay` | `IdentitySpec => FactorRemoved` |

The invariant has four parts. Sessions: each belongs to a registered user, and the
challenges are finitely many, so that what an old password left can be counted. Factor: each secret is drawn for one
user, and while it waits for its confirmation no other user, recovery code or
request knows it (`SecretsFresh`, `SeenFresh`); the accepted steps of a secret
are those up to `lastUsed`, the accepted recovery codes are the used ones, and a
challenge that is still open has opened nothing. With this an accepted code is new
to `opened`, which is what `ChallengeOnce` and `CodeOnce` say; the step that removes
a factor is in `opened` too. Requests: one that
is about to write without a factor has seen the last confirmation only if no factor
is enabled (`StaleOnly`); `SeenFresh` is what carries this over a confirmation.
Limiter: the failures counted and the requests let through that may still count
one are together at most the maximum and the number of requests less one, by
the cardinality theorems of the library; that is why the set of requests has to be
finite.

`PasswordChangeRevokes` is about what outdated passwords left of a user: sessions,
challenges, and requests that have verified and go on to write (`OldLogins`). A step that is not
a change of the password adds nothing to it unless it takes something out: a login's
request becomes a session or a challenge, a challenge becomes a session. `OldLoginsShrink` shows, action by action, that at most
one member is new, in the place of one that is gone; the cardinality theorems do the rest.

The lemmas first say what each kind of step leaves alone (the steps of a
request that touch only the limiter, those that write sessions, those that write
the factor), so that each part of the invariant is shown against the few
actions that can disturb it.

### Only model-checked

`DueIsGenerated` and `CycleReachesWork`: liveness under fairness is out of the
prover's reach. The five violations are counterexamples and have no theorem;
`PriorAdjustmentReversible`, `CashflowIsLive`, `GapIsMonths` and `FailedRefreshMarks`
do not hold, nor does `DueIsGenerated` with two currencies, as `Recurring_poison`
shows.

## 6. Not modelled, and the plan

Not modelled, and why:

- Money parsing: decimals of arbitrary precision without state; the models use
  integers in units of the last place.
- The HTTP layer, generated code, generated queries, configuration and the web
  client: no state and no control flow of their own. What a query does is
  modelled in the handler that calls it.
- Names, paging, time zones as data, audit events.
- Of the dashboard: cash and exposure (the same sums by subtype and currency) and
  the savings rate (a quotient of two modelled sums). The headline net worth counts
  entries dated in the future, the history does not; both are modelled, and no
  document says which is meant.
- The limiter's eviction above 1024 clients, which forgets windows that are over.
- A second e-mail address: the run has one address and one user, so that changes of
  address and their unique index are in the module but not exercised beyond a
  refused registration. `UpdateProfile` looks twice whether the address changes, against
  the one read with the session and the one in its transaction. If only the second
  differs (`profile.go:55`), a request that supplied the password goes on, and is in the
  model; one that did not ends in a nil dereference, and is a refused request.
- The setups that `LedgerReady` does not look at (`ledger.go:575`): onboarding
  materializes them in its own transaction, so they are never pending.
- A valuation key used before for another asset is answered with the other asset's
  valuation (`assets.go:402`): in the model `RepeatedRequest` changes nothing,
  and the answer is left out.
- Serialization failures and row-lock deadlocks (generation locks templates and
  then accounts, archiving the other way round) appear as refused requests, since
  PostgreSQL rolls one of them back.
- Several users in one batch of generation: templates of one user compete for it in
  the same way.
- An error of one job of the worker skips the jobs after it in that cycle
  (`main.go:68`); the next cycle starts over.

The order of work from here:

1. Proofs: that `CurrencyLocked` holds with reconciliations as long as the
   functional currency stays between a preview and its confirmation; that `Reconciliation`, `Recurring` and `Assets`
   implement `Book` as well; what an income deleted or edited leaves in the
   cash flow, for the months that have no corrections.
2. `RowLocks`: the order in which handlers lock users, templates and accounts.
3. The rest of the worker's cycle as a composition of `Fx` with `Recurring`.
4. Cash and exposure of the dashboard.
