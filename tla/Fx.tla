--------------------------------- MODULE Fx ---------------------------------
(***************************************************************************)
(* Exchange rates: the worker's cycle (cmd/worker/main.go), the refresh    *)
(* and the backfill of fx_rates (internal/fx/fx.go), and the conversions   *)
(* of the dashboard (internal/httpapi/dashboard.go).                       *)
(*                                                                         *)
(* Several workers may run, and each may be stopped and started again at   *)
(* any time.  Nothing here is a transaction: every statement commits by    *)
(* itself and the provider is asked in between, so a step is one statement *)
(* or one answer of the provider.                                          *)
(*                                                                         *)
(* An advisory lock belongs to the connection that took it, and the pool   *)
(* chooses a connection for each statement.  The lock goes with its        *)
(* connection, and pg_advisory_unlock on another connection does nothing.  *)
(* A connection that has the lock takes it again, and gives it back as     *)
(* often as it took it.                                                    *)
(*                                                                         *)
(* All rates are against the base currency "USD".                          *)
(***************************************************************************)
EXTENDS Integers, FiniteSets

CONSTANTS
    Workers,       \* worker processes
    Quotes,        \* supported currencies other than USD
    Days,          \* dates of rates; the model's clock runs through them
    RateValues,    \* rates the provider may quote, in units of 1 / Unit
    Unit,          \* units in a rate of one
    Amounts,       \* amounts that are converted, in the smallest unit
    Attempts,      \* requests to the provider before a job gives up (three)
    MaxHeld        \* bound on how often a connection holds a lock

ASSUME FxConstants ==
    /\ "USD" \notin Quotes
    /\ Days \subseteq Nat \ {0}
    /\ Days # {}
    /\ RateValues \subseteq Nat \ {0}
    /\ Unit \in Nat \ {0}
    /\ Amounts \subseteq Int
    /\ {Attempts, MaxHeld} \subseteq Nat \ {0}
    /\ "NONE" \notin Workers

Currencies == Quotes \cup {"USD"}

Jobs == {"refresh", "backfill"}

VARIABLES
    rates,      \* fx_rates: [rate, stale] by quote currency and date
    today,      \* the date
    locks,      \* the advisory lock of each job: its worker, how often it is held
    workers,    \* what each worker does next
    unanswered  \* currencies whose last recorded answer was a failure (history)

fxVars == <<rates, today, locks, workers, unanswered>>

NoRate == [rate |-> 0, stale |-> FALSE]

FreeLock == [worker |-> "NONE", held |-> 0]

Idle ==
    [at |-> "idle", job |-> "NONE", todo |-> {}, quote |-> "NONE", attempt |-> 0,
     pending |-> {}, lost |-> FALSE]

Is(w, point) == workers[w].at = point

Becomes(w, state) == workers' = [workers EXCEPT ![w] = state]

\* The current currency is done with, or given up.
Leaves(w, point) ==
    Becomes(w, [Idle EXCEPT !.at = point, !.job = workers[w].job,
                            !.todo = IF point = "next" THEN workers[w].todo ELSE {},
                            !.lost = workers[w].lost])

Goes(w, point) == Becomes(w, [workers[w] EXCEPT !.at = point])

\* The points between taking a lock and giving it back.
Working(w, job) ==
    /\ workers[w].job = job
    /\ workers[w].at \in {"currencies", "next", "fetch", "mark", "store", "unlock"}

-----------------------------------------------------------------------------
(***************************************************************************)
(* fx_rates.                                                               *)
(***************************************************************************)
Dated(q) == {d \in Days : rates[q][d] # NoRate}

\* Mutant: only the latest row is marked.
LatestMarked(q) ==
    [rates EXCEPT ![q] = [d \in Days |->
        IF d \in Dated(q) /\ \A e \in Dated(q) : e <= d
        THEN [rates[q][d] EXCEPT !.stale = TRUE] ELSE rates[q][d]]]

\* UPDATE fx_rates SET stale_at: every row of the pair.
MarkedStale(q) ==
    [rates EXCEPT ![q] = [d \in Days |->
        IF d \in Dated(q) THEN [rates[q][d] EXCEPT !.stale = TRUE]
        ELSE NoRate]]

\* INSERT ... ON CONFLICT ... DO UPDATE: the row of that date.
Upserted(q, d, rate) ==
    [rates EXCEPT ![q][d] = [rate |-> rate, stale |-> FALSE]]

(***************************************************************************)
(* The advisory locks.                                                     *)
(***************************************************************************)
\* Mutants: the lock is taken from whoever has it; it is given back once too
\* rarely.
UnlockAnybody(w, job) == {FreeLock}

UnlockKeepsOwner(w, job) ==
    LET lock == locks[job]
    IN  IF lock.worker # w THEN {lock} ELSE {lock, [lock EXCEPT !.held = @ - 1]}

\* pg_advisory_unlock, on the connection with the lock or on another one.
Unlock(w, job) ==
    LET lock == locks[job]
    IN  IF lock.worker # w THEN {lock}
        ELSE {lock, IF lock.held = 1 THEN FreeLock ELSE [lock EXCEPT !.held = @ - 1]}

\* The backfill follows the refresh, and the rest of the cycle the backfill.
After(job) ==
    IF job = "refresh" THEN [Idle EXCEPT !.at = "ask", !.job = "backfill"]
    ELSE [Idle EXCEPT !.at = "sessions"]

-----------------------------------------------------------------------------
(***************************************************************************)
(* The cycle of a worker, on start and on every tick.                      *)
(***************************************************************************)
CycleStarts(w) ==
    /\ workers[w].at \in {"idle", "stopped"}
    /\ Becomes(w, [Idle EXCEPT !.at = "ask", !.job = "refresh"])
    /\ UNCHANGED <<rates, today, locks, unanswered>>

\* pg_try_advisory_lock.
TakeLock(w, job) ==
    LET lock == locks[job]
    IN  /\ Is(w, "ask")
        /\ workers[w].job = job
        /\ \/ lock = FreeLock
           \/ lock.worker = w /\ lock.held < MaxHeld
        /\ locks' = [locks EXCEPT ![job] =
                        [worker |-> w, held |-> IF lock = FreeLock THEN 1
                                                ELSE lock.held + 1]]
        /\ \/ /\ job = "refresh"
              /\ Becomes(w, [workers[w] EXCEPT !.at = "next", !.todo = Quotes])
           \/ /\ job = "backfill"
              /\ Goes(w, "currencies")
        /\ UNCHANGED <<rates, today, unanswered>>

\* A lock that another connection has: the job is left out.
LockTaken(w, job) ==
    /\ Is(w, "ask")
    /\ workers[w].job = job
    /\ locks[job] # FreeLock
    /\ Becomes(w, After(job))
    /\ UNCHANGED <<rates, today, locks, unanswered>>

\* BackfillHistory asks for the currencies of users and accounts.
ReadCurrencies(w) ==
    /\ Is(w, "currencies")
    /\ \E used \in SUBSET Quotes :
          Becomes(w, [workers[w] EXCEPT !.at = "next", !.todo = used])
    /\ UNCHANGED <<rates, today, locks, unanswered>>

NextCurrency(w) ==
    /\ Is(w, "next")
    /\ \E q \in workers[w].todo :
          Becomes(w, [workers[w] EXCEPT !.at = "fetch", !.quote = q, !.attempt = 1,
                                        !.todo = @ \ {q}])
    /\ UNCHANGED <<rates, today, locks, unanswered>>

AllCurrencies(w) ==
    /\ Is(w, "next")
    /\ workers[w].todo = {}
    /\ Goes(w, "unlock")
    /\ UNCHANGED <<rates, today, locks, unanswered>>

\* fetchWithRetry and fetchHistoryWithRetry: a failed request is repeated, but
\* for the last one and for ErrUnavailable.
FetchAgain(w) ==
    /\ Is(w, "fetch")
    /\ workers[w].attempt < Attempts
    /\ Becomes(w, [workers[w] EXCEPT !.attempt = @ + 1])
    /\ UNCHANGED <<rates, today, locks, unanswered>>

FetchFails(w) ==
    /\ Is(w, "fetch")
    /\ Becomes(w, [workers[w] EXCEPT !.at = "mark", !.attempt = 0])
    /\ UNCHANGED <<rates, today, locks, unanswered>>

\* The provider answers with one usable close, or with several.
FetchSucceeds(w) ==
    /\ Is(w, "fetch")
    /\ \E dates \in SUBSET {d \in Days : d <= today} :
          /\ dates # {}
          /\ workers[w].job = "refresh" => Cardinality(dates) = 1
          /\ Becomes(w, [workers[w] EXCEPT !.at = "store", !.attempt = 0,
                                           !.pending = dates])
    /\ UNCHANGED <<rates, today, locks, unanswered>>

StoreRate(w, d, rate) ==
    /\ Is(w, "store")
    /\ d \in workers[w].pending
    /\ rates' = Upserted(workers[w].quote, d, rate)
    /\ unanswered' = unanswered \ {workers[w].quote}
    /\ IF workers[w].pending = {d} THEN Leaves(w, "next")
       ELSE Becomes(w, [workers[w] EXCEPT !.pending = @ \ {d}])
    /\ UNCHANGED <<today, locks>>

MarkStale(w) ==
    /\ Is(w, "mark")
    /\ rates' = MarkedStale(workers[w].quote)
    /\ unanswered' = unanswered \cup {workers[w].quote}
    /\ Leaves(w, "next")
    /\ UNCHANGED <<today, locks>>

\* A statement of the job fails, or its 45 seconds are over: what is still to be
\* stored or marked is dropped, and the deferred unlock runs.
JobFails(w) ==
    /\ workers[w].at \in {"currencies", "mark", "store"}
    /\ Leaves(w, "unlock")
    /\ UNCHANGED <<rates, today, locks, unanswered>>

GiveLockBack(w, job) ==
    /\ Is(w, "unlock")
    /\ workers[w].job = job
    /\ \E lock \in Unlock(w, job) : locks' = [locks EXCEPT ![job] = lock]
    /\ Becomes(w, After(job))
    /\ UNCHANGED <<rates, today, unanswered>>

\* Mutant: an error of a job ends the cycle.
AskFailsForGood(w) ==
    /\ Is(w, "ask")
    /\ Becomes(w, Idle)
    /\ UNCHANGED <<rates, today, locks, unanswered>>

\* The statement with pg_try_advisory_lock fails: a warning, and the cycle goes on.
AskFails(w) ==
    /\ Is(w, "ask")
    /\ Becomes(w, After(workers[w].job))
    /\ UNCHANGED <<rates, today, locks, unanswered>>

\* The clean-up of sessions, the recurring operations and the clean-up of
\* previews, done or given up at the first error: nothing of it is modelled here.
RestOfCycle(w) ==
    /\ Is(w, "sessions")
    /\ Becomes(w, Idle)
    /\ UNCHANGED <<rates, today, locks, unanswered>>

(***************************************************************************)
(* The surroundings.                                                       *)
(***************************************************************************)
ConnectionCloses(job) ==
    LET w == locks[job].worker
    IN  /\ locks[job] # FreeLock
        /\ locks' = [locks EXCEPT ![job] = FreeLock]
        /\ IF Working(w, job) THEN Becomes(w, [workers[w] EXCEPT !.lost = TRUE])
           ELSE UNCHANGED workers
        /\ UNCHANGED <<rates, today, unanswered>>

WorkerStops(w) ==
    /\ ~Is(w, "stopped")
    /\ Becomes(w, [Idle EXCEPT !.at = "stopped"])
    /\ locks' = [job \in Jobs |-> IF locks[job].worker = w THEN FreeLock ELSE locks[job]]
    /\ UNCHANGED <<rates, today, unanswered>>

DayPasses ==
    /\ today + 1 \in Days
    /\ today' = today + 1
    /\ UNCHANGED <<rates, locks, workers, unanswered>>

FxInit ==
    /\ rates = [q \in Quotes |-> [d \in Days |-> NoRate]]
    /\ today = CHOOSE d \in Days : \A e \in Days : d <= e
    /\ locks = [job \in Jobs |-> FreeLock]
    /\ workers = [w \in Workers |-> Idle]
    /\ unanswered = {}

WorkerNext(w) ==
    \/ \E job \in Jobs : TakeLock(w, job) \/ LockTaken(w, job) \/ GiveLockBack(w, job)
    \/ AskFails(w)
    \/ ReadCurrencies(w)
    \/ NextCurrency(w)
    \/ AllCurrencies(w)
    \/ FetchAgain(w)
    \/ FetchFails(w)
    \/ FetchSucceeds(w)
    \/ \E d \in Days, rate \in RateValues : StoreRate(w, d, rate)
    \/ MarkStale(w)
    \/ JobFails(w)
    \/ RestOfCycle(w)

FxNext ==
    \/ \E w \in Workers : CycleStarts(w) \/ WorkerNext(w) \/ WorkerStops(w)
    \/ \E job \in Jobs : ConnectionCloses(job)
    \/ DayPasses

\* The requests and statements of a cycle have a deadline, but for the deferred
\* unlock: it runs on context.Background(), so GiveLockBack goes on because the
\* database answers or the connection fails.
FxSpec == FxInit /\ [][FxNext]_fxVars /\ \A w \in Workers : WF_fxVars(WorkerNext(w))

-----------------------------------------------------------------------------
(***************************************************************************)
(* Conversions of the dashboard.                                           *)
(***************************************************************************)
\* lookup: the latest rate at or before a date.
Known(q, date) == {d \in Dated(q) : d <= date}

Available(q, date) == q = "USD" \/ Known(q, date) # {}

RateDate(q, date) == CHOOSE d \in Known(q, date) : \A e \in Known(q, date) : e <= d

Rate(q, date) == IF q = "USD" THEN Unit ELSE rates[q][RateDate(q, date)].rate

\* Mutant: halves are rounded up, also below zero.
RoundedUp(numerator, denominator) ==
    (2 * numerator + denominator) \div (2 * denominator)

\* round: halves away from zero.
Rounded(numerator, denominator) ==
    IF numerator >= 0 THEN (2 * numerator + denominator) \div (2 * denominator)
    ELSE -((denominator - 2 * numerator) \div (2 * denominator))

Convert(amount, from, to, date) ==
    IF from = to THEN amount
    ELSE Rounded(amount * Rate(to, date), Rate(from, date))

\* What convert leaves out, and what the dashboard's status says of it: "from"
\* is looked up first, and "to" only when there is a rate for "from".
MissingFor(from, to, date) ==
    IF from = to THEN {}
    ELSE IF ~Available(from, date) THEN {from}
    ELSE {q \in {to} : ~Available(q, date)}

StaleFor(from, to, date) ==
    {q \in ({from, to} \cap Quotes) \ MissingFor(from, to, date) :
        /\ from # to
        /\ Available(from, date)
        /\ rates[q][RateDate(q, date)].stale}

Status(from, to, date) ==
    IF MissingFor(from, to, date) # {} THEN "INCOMPLETE"
    ELSE IF StaleFor(from, to, date) # {} THEN "STALE" ELSE "COMPLETE"

-----------------------------------------------------------------------------
(***************************************************************************)
(* Properties.                                                             *)
(***************************************************************************)
\* Rates, locks and workers keep their types; a lock that is held is held once
\* or more by a worker.
FxTypeOK ==
    /\ \A q \in Quotes, d \in Days :
          rates[q][d] \in {NoRate} \cup [rate : RateValues, stale : BOOLEAN]
    /\ today \in Days
    /\ locks \in [Jobs -> {FreeLock} \cup [worker : Workers, held : 1 .. MaxHeld]]
    /\ \A w \in Workers :
          /\ workers[w].job \in Jobs \cup {"NONE"}
          /\ workers[w].todo \subseteq Quotes
          /\ workers[w].attempt \in 0 .. Attempts
    /\ unanswered \subseteq Quotes

\* Two workers are at the same job only if one of them lost the connection that
\* had the lock, however unlocks of stopped, late or repeated jobs fall
\* (Refresh and BackfillHistory).
OverlapOnlyAfterLoss ==
    \A job \in Jobs : \A v, w \in Workers :
        v # w /\ Working(v, job) /\ Working(w, job) =>
            workers[v].lost \/ workers[w].lost

\* When the last answer recorded for a currency is a failure, no conversion from
\* or to it is shown as complete, at any date: a backfill and a refresh of two
\* workers may write in any order, with old and new dates.
FailureShown ==
    \A q \in unanswered, c \in Currencies : \A d \in Days :
        q # c => Status(q, c, d) # "COMPLETE" /\ Status(c, q, d) # "COMPLETE"

\* A refresh or a backfill that got no rate for a currency marks the rates it
\* has before it leaves the currency, unless the worker is stopped.
FailedRefreshMarks ==
    [][\A w \in Workers :
          LET q == workers[w].quote
          IN  Is(w, "mark") /\ workers'[w].at \notin {"mark", "stopped"} =>
                  \A d \in Dated(q) : rates'[q][d].stale]_fxVars

\* What is owed converts to the negative of what is owned, and converting a sum
\* or its parts differs by one smallest unit at most, so net worth is assets
\* less liabilities in every display currency (Convert, round).
ConversionFair ==
    \A from, to \in Currencies : \A d \in Days :
        MissingFor(from, to, d) = {} =>
            \A x, y \in Amounts :
                LET sum == Convert(x, from, to, d) + Convert(y, from, to, d)
                IN  /\ Convert(-x, from, to, d) = -Convert(x, from, to, d)
                    /\ Convert(x + y, from, to, d) \in sum - 1 .. sum + 1

\* A cycle that has got as far as asking for rates comes to the rest of its work
\* unless the worker is stopped, whatever the provider and the locks do.
CycleReachesWork ==
    \A w \in Workers : Is(w, "ask") ~> (Is(w, "sessions") \/ Is(w, "stopped"))
=============================================================================
