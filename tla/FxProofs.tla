------------------------------ MODULE FxProofs ------------------------------
(***************************************************************************)
(* Proofs about the exchange rates, for any workers, currencies, dates,    *)
(* rates and amounts: the exclusion of the jobs, the marks of what the     *)
(* provider did not answer, and the arithmetic of the conversions.         *)
(***************************************************************************)
EXTENDS Fx, Sums

Points ==
    {"idle", "stopped", "ask", "currencies", "next", "fetch", "mark", "store",
     "unlock", "sessions"}

WorkerStates ==
    [at : Points, job : Jobs \cup {"NONE"}, todo : SUBSET Quotes,
     quote : Quotes \cup {"NONE"}, attempt : 0 .. Attempts, pending : SUBSET Days,
     lost : BOOLEAN]

RateRows == {NoRate} \cup [rate : RateValues, stale : BOOLEAN]

Locks == {FreeLock} \cup [worker : Workers, held : 1 .. MaxHeld]

(***************************************************************************)
(* The inductive invariant.                                                *)
(***************************************************************************)
\* Working, of a state of a worker.
Works(state, job) ==
    /\ state.job = job
    /\ state.at \in {"currencies", "next", "fetch", "mark", "store", "unlock"}

\* A currency is being asked for.
HasQuote(state) == state.at \in {"fetch", "mark", "store"} => state.quote \in Quotes

\* A worker that is at a job and did not lose the connection has the lock.
WorkersOK(ws, lks) ==
    /\ ws \in [Workers -> WorkerStates]
    /\ lks \in [Jobs -> Locks]
    /\ \A w \in Workers : HasQuote(ws[w])
    /\ \A w \in Workers : \A job \in Jobs :
          Works(ws[w], job) /\ ~ws[w].lost => lks[job].worker = w

\* Every rate of a currency without an answer is marked.
RatesOK(rs, un) ==
    /\ rs \in [Quotes -> [Days -> RateRows]]
    /\ un \subseteq Quotes
    /\ \A q \in un : \A d \in Days : rs[q][d] # NoRate => rs[q][d].stale

FInv ==
    /\ WorkersOK(workers, locks)
    /\ RatesOK(rates, unanswered)
    /\ today \in Days

-----------------------------------------------------------------------------
(***************************************************************************)
(* The workers and the locks.                                              *)
(***************************************************************************)

LEMMA EmptyIn == \A S : {} \in SUBSET S
OBVIOUS

LEMMA IdleState ==
    /\ Idle \in WorkerStates /\ Idle.at = "idle" /\ Idle.todo = {} /\ ~Idle.lost
    /\ FreeLock \in Locks /\ FreeLock.worker = "NONE"
<1>1. Attempts \in Nat
    BY FxConstants
<1> QED BY <1>1 DEF Idle, WorkerStates, Points, FreeLock, Locks

\* A worker that takes up no job goes on.
LEMMA WorkerMoves ==
    ASSUME WorkersOK(workers, locks), NEW w \in Workers,
           NEW state, state \in WorkerStates, HasQuote(state),
           \A job \in Jobs : Works(state, job) /\ ~state.lost =>
                               Works(workers[w], job) /\ ~workers[w].lost,
           Becomes(w, state), locks' = locks
    PROVE  WorkersOK(workers', locks')
<1>1. /\ workers' \in [Workers -> WorkerStates] /\ workers'[w] = state
      /\ \A v \in Workers : v # w => workers'[v] = workers[v]
    BY DEF WorkersOK, Becomes
<1>2. ASSUME NEW v \in Workers PROVE HasQuote(workers'[v])
    BY <1>1 DEF WorkersOK
<1>3. ASSUME NEW v \in Workers, NEW job \in Jobs, Works(workers'[v], job), ~workers'[v].lost
      PROVE  locks[job].worker = v
    BY <1>1, <1>3 DEF WorkersOK
<1> QED BY <1>1, <1>2, <1>3 DEF WorkersOK

\* The lock of one job passes: to a worker, or from it to nobody.
LEMMA LockMoves ==
    ASSUME WorkersOK(workers, locks), NEW w \in Workers, NEW job \in Jobs,
           NEW state, state \in WorkerStates, HasQuote(state),
           NEW lock, lock \in Locks,
           lock # locks[job] => locks[job].worker = w \/ locks[job] = FreeLock,
           \A k \in Jobs : Works(state, k) /\ ~state.lost =>
                               IF k = job THEN lock.worker = w ELSE locks[k].worker = w,
           Becomes(w, state), locks' = [locks EXCEPT ![job] = lock]
    PROVE  WorkersOK(workers', locks')
<1>1. /\ workers' \in [Workers -> WorkerStates] /\ workers'[w] = state
      /\ \A v \in Workers : v # w => workers'[v] = workers[v]
      /\ locks' \in [Jobs -> Locks] /\ locks'[job] = lock
      /\ \A k \in Jobs : k # job => locks'[k] = locks[k]
    BY DEF WorkersOK, Becomes
<1>2. ASSUME NEW v \in Workers PROVE HasQuote(workers'[v])
    BY <1>1 DEF WorkersOK
<1>3. ASSUME NEW v \in Workers, NEW k \in Jobs, Works(workers'[v], k), ~workers'[v].lost
      PROVE  locks'[k].worker = v
  <2>1. CASE v = w
      BY <1>1, <1>3, <2>1
  <2>2. CASE v # w
    <3>1. locks[k].worker = v
        BY <1>1, <1>3, <2>2 DEF WorkersOK
    <3>2. locks'[k] = locks[k]
        BY <1>1, <2>2, <3>1, IdleState, FxConstants
    <3> QED BY <3>1, <3>2
  <2> QED BY <2>1, <2>2
<1> QED BY <1>1, <1>2, <1>3 DEF WorkersOK

\* What becomes of a worker that leaves its currency or its job.
LEMMA LeavingState ==
    ASSUME NEW old \in WorkerStates, NEW point \in {"next", "unlock"},
           NEW state, state = [Idle EXCEPT !.at = point, !.job = old.job,
                                           !.todo = IF point = "next" THEN old.todo ELSE {},
                                           !.lost = old.lost]
    PROVE  /\ state \in WorkerStates /\ HasQuote(state)
           /\ \A job : Works(state, job) => old.job = job
           /\ state.lost = old.lost
<1>1. old.job \in Jobs \cup {"NONE"} /\ old.todo \subseteq Quotes /\ old.lost \in BOOLEAN
    BY DEF WorkerStates
<1>2. 0 \in 0 .. Attempts
    BY FxConstants
<1> DEFINE todo == IF point = "next" THEN old.todo ELSE {}
<1>3. state = [at |-> point, job |-> old.job, todo |-> todo, quote |-> "NONE",
               attempt |-> 0, pending |-> {}, lost |-> old.lost]
    BY DEF Idle
<1>4. point \in Points /\ todo \in SUBSET Quotes
    BY <1>1 DEF Points
<1> HIDE DEF todo
<1>5. state \in WorkerStates
    BY <1>1, <1>2, <1>3, <1>4, EmptyIn DEF WorkerStates
<1> QED BY <1>3, <1>5 DEF HasQuote, Works

LEMMA AfterState ==
    ASSUME NEW job
    PROVE  /\ After(job) \in WorkerStates /\ HasQuote(After(job))
           /\ \A k : ~Works(After(job), k)
<1>1. 0 \in 0 .. Attempts
    BY FxConstants
<1>2. \E k \in Jobs \cup {"NONE"}, point \in {"ask", "sessions"} :
        After(job) = [at |-> point, job |-> k, todo |-> {}, quote |-> "NONE",
                      attempt |-> 0, pending |-> {}, lost |-> FALSE]
    BY DEF After, Idle, Jobs
<1>3. After(job) \in WorkerStates
    BY <1>1, <1>2, EmptyIn DEF WorkerStates, Points
<1> QED BY <1>2, <1>3 DEF HasQuote, Works

LEMMA LeavesKeeps ==
    ASSUME WorkersOK(workers, locks), NEW w \in Workers,
           workers[w].at \in {"currencies", "next", "fetch", "mark", "store", "unlock"},
           NEW point \in {"next", "unlock"}, Leaves(w, point), locks' = locks
    PROVE  WorkersOK(workers', locks')
<1> DEFINE old == workers[w]
           state == [Idle EXCEPT !.at = point, !.job = old.job,
                                 !.todo = IF point = "next" THEN old.todo ELSE {},
                                 !.lost = old.lost]
<1>1. Becomes(w, state)
    BY DEF Leaves
<1>2. old \in WorkerStates
    BY DEF WorkersOK
<1> HIDE DEF old
<1>3. /\ state \in WorkerStates /\ HasQuote(state)
      /\ \A job : Works(state, job) => old.job = job
      /\ state.lost = old.lost
    BY <1>2, LeavingState
<1> HIDE DEF state
<1> USE DEF old
<1>4. \A job \in Jobs : Works(state, job) /\ ~state.lost =>
                          Works(workers[w], job) /\ ~workers[w].lost
    BY <1>3 DEF Works
<1> QED BY <1>1, <1>3, <1>4, WorkerMoves


\* A worker between two jobs.
LEMMA BetweenJobs ==
    ASSUME NEW point \in {"idle", "stopped", "ask", "sessions"},
           NEW job \in Jobs \cup {"NONE"},
           NEW state, state = [Idle EXCEPT !.at = point, !.job = job]
    PROVE  state \in WorkerStates /\ HasQuote(state) /\ \A k : ~Works(state, k)
<1>1. 0 \in 0 .. Attempts
    BY FxConstants
<1>2. state = [at |-> point, job |-> job, todo |-> {}, quote |-> "NONE",
               attempt |-> 0, pending |-> {}, lost |-> FALSE]
    BY DEF Idle
<1>3. point \in Points
    BY DEF Points
<1> DEFINE none == "NONE"
           no == FALSE
<1>4. none \in Quotes \cup {"NONE"} /\ no \in BOOLEAN
    OBVIOUS
<1>5. state = [at |-> point, job |-> job, todo |-> {}, quote |-> none,
               attempt |-> 0, pending |-> {}, lost |-> no]
    BY <1>2
<1> HIDE DEF none, no
<1>6. state \in WorkerStates
    BY <1>1, <1>3, <1>4, <1>5, EmptyIn DEF WorkerStates
<1> QED BY <1>2, <1>6 DEF HasQuote, Works

\* What the worker does next at its job.
LEMMA AtTheJob ==
    ASSUME NEW old \in WorkerStates, NEW state \in WorkerStates,
           old.at \in {"currencies", "next", "fetch", "mark", "store", "unlock"},
           state.job = old.job, state.lost = old.lost
    PROVE  \A job : Works(state, job) /\ ~state.lost => Works(old, job) /\ ~old.lost
BY DEF Works

\* Steps of one worker that touch neither locks nor rates.
LEMMA WorkerKeeps ==
    ASSUME WorkersOK(workers, locks), today \in Days, NEW w \in Workers,
           \/ CycleStarts(w) \/ AskFails(w) \/ ReadCurrencies(w) \/ NextCurrency(w)
           \/ AllCurrencies(w) \/ FetchAgain(w) \/ FetchFails(w) \/ FetchSucceeds(w)
           \/ JobFails(w) \/ RestOfCycle(w)
           \/ \E job \in Jobs : LockTaken(w, job)
    PROVE  WorkersOK(workers', locks') /\ UNCHANGED <<rates, today, unanswered>>
<1> DEFINE old == workers[w]
<1>1. old \in WorkerStates /\ HasQuote(old)
    BY DEF WorkersOK
<1>2. /\ Attempts \in Nat /\ 1 \in 0 .. Attempts /\ 0 \in 0 .. Attempts
      /\ Days \subseteq Nat
    BY FxConstants
<1>3. UNCHANGED <<rates, today, locks, unanswered>>
    BY DEF CycleStarts, AskFails, ReadCurrencies, NextCurrency, AllCurrencies, FetchAgain,
       FetchFails, FetchSucceeds, JobFails, RestOfCycle, LockTaken
<1>4. CASE CycleStarts(w)
  <2> DEFINE job == "refresh"
             point == "ask"
             state == [Idle EXCEPT !.at = point, !.job = job]
  <2>1. Becomes(w, state) /\ job \in Jobs \cup {"NONE"}
      BY <1>4 DEF CycleStarts, Jobs
  <2>2. state \in WorkerStates /\ HasQuote(state) /\ \A k : ~Works(state, k)
    <3>1. point \in {"idle", "stopped", "ask", "sessions"}
        OBVIOUS
    <3> HIDE DEF point, job
    <3> QED BY <2>1, <3>1, BetweenJobs
  <2> HIDE DEF state
  <2> QED BY <1>3, <2>1, <2>2, WorkerMoves
<1>5. CASE AskFails(w) \/ \E job \in Jobs : LockTaken(w, job)
  <2>1. PICK job : Becomes(w, After(job))
      BY <1>5 DEF AskFails, LockTaken
  <2> DEFINE state == After(job)
  <2>2. state \in WorkerStates /\ HasQuote(state) /\ \A k : ~Works(state, k)
      BY AfterState
  <2>3. Becomes(w, state)
      BY <2>1
  <2> HIDE DEF state
  <2> QED BY <1>3, <2>2, <2>3, WorkerMoves
<1>6. CASE ReadCurrencies(w)
  <2>1. PICK used \in SUBSET Quotes : Becomes(w, [old EXCEPT !.at = "next", !.todo = used])
      BY <1>6 DEF ReadCurrencies
  <2> DEFINE state == [old EXCEPT !.at = "next", !.todo = used]
  <2>2. old.at = "currencies"
      BY <1>6 DEF ReadCurrencies, Is
  <2>3. Becomes(w, state)
      BY <2>1
  <2> HIDE DEF old
  <2>4. state \in WorkerStates /\ HasQuote(state) /\ state.job = old.job /\ state.lost = old.lost
      BY <1>1 DEF WorkerStates, Points, HasQuote
  <2> HIDE DEF state
  <2>5. \A job : Works(state, job) /\ ~state.lost => Works(old, job) /\ ~old.lost
      BY <1>1, <2>2, <2>4, AtTheJob
  <2> QED BY <1>3, <2>3, <2>4, <2>5, WorkerMoves DEF old
<1>7. CASE NextCurrency(w)
  <2>1. PICK q \in old.todo :
            Becomes(w, [old EXCEPT !.at = "fetch", !.quote = q, !.attempt = 1, !.todo = @ \ {q}])
      BY <1>7 DEF NextCurrency
  <2> DEFINE rest == old.todo \ {q}
             state == [old EXCEPT !.at = "fetch", !.quote = q, !.attempt = 1, !.todo = rest]
  <2>2. old.at = "next"
      BY <1>7 DEF NextCurrency, Is
  <2>3. Becomes(w, state)
      BY <2>1
  <2>4. rest \in SUBSET Quotes /\ q \in Quotes
      BY <1>1 DEF WorkerStates
  <2> HIDE DEF old, rest
  <2>5. state \in WorkerStates /\ HasQuote(state) /\ state.job = old.job /\ state.lost = old.lost
      BY <1>1, <1>2, <2>4 DEF WorkerStates, Points, HasQuote
  <2> HIDE DEF state
  <2>6. \A job : Works(state, job) /\ ~state.lost => Works(old, job) /\ ~old.lost
      BY <1>1, <2>2, <2>5, AtTheJob
  <2> QED BY <1>3, <2>3, <2>5, <2>6, WorkerMoves DEF old
<1>8. CASE AllCurrencies(w)
  <2> DEFINE state == [old EXCEPT !.at = "unlock"]
  <2>1. old.at = "next" /\ Becomes(w, state)
      BY <1>8 DEF AllCurrencies, Is, Goes
  <2> HIDE DEF old
  <2>2. state \in WorkerStates /\ HasQuote(state) /\ state.job = old.job /\ state.lost = old.lost
      BY <1>1 DEF WorkerStates, Points, HasQuote
  <2> HIDE DEF state
  <2>3. \A job : Works(state, job) /\ ~state.lost => Works(old, job) /\ ~old.lost
      BY <1>1, <2>1, <2>2, AtTheJob
  <2> QED BY <1>3, <2>1, <2>2, <2>3, WorkerMoves DEF old
<1>9. CASE FetchAgain(w)
  <2> DEFINE state == [old EXCEPT !.attempt = old.attempt + 1]
  <2>1. old.at = "fetch" /\ old.attempt < Attempts /\ Becomes(w, state)
      BY <1>9 DEF FetchAgain, Is
  <2> HIDE DEF old
  <2>2. state \in WorkerStates /\ HasQuote(state) /\ state.job = old.job /\ state.lost = old.lost
    <3>1. old.attempt + 1 \in 0 .. Attempts
        BY <1>1, <1>2, <2>1 DEF WorkerStates
    <3> QED BY <1>1, <2>1, <3>1 DEF WorkerStates, Points, HasQuote
  <2> HIDE DEF state
  <2>3. \A job : Works(state, job) /\ ~state.lost => Works(old, job) /\ ~old.lost
      BY <1>1, <2>1, <2>2, AtTheJob
  <2> QED BY <1>3, <2>1, <2>2, <2>3, WorkerMoves DEF old
<1>10. CASE FetchFails(w)
  <2> DEFINE state == [old EXCEPT !.at = "mark", !.attempt = 0]
  <2>1. old.at = "fetch" /\ Becomes(w, state)
      BY <1>10 DEF FetchFails, Is
  <2> HIDE DEF old
  <2>2. state \in WorkerStates /\ HasQuote(state) /\ state.job = old.job /\ state.lost = old.lost
      BY <1>1, <1>2, <2>1 DEF WorkerStates, Points, HasQuote
  <2> HIDE DEF state
  <2>3. \A job : Works(state, job) /\ ~state.lost => Works(old, job) /\ ~old.lost
      BY <1>1, <2>1, <2>2, AtTheJob
  <2> QED BY <1>3, <2>1, <2>2, <2>3, WorkerMoves DEF old
<1>11. CASE FetchSucceeds(w)
  <2>1. PICK dates \in SUBSET Days :
            Becomes(w, [old EXCEPT !.at = "store", !.attempt = 0, !.pending = dates])
      BY <1>11 DEF FetchSucceeds
  <2> DEFINE state == [old EXCEPT !.at = "store", !.attempt = 0, !.pending = dates]
  <2>2. old.at = "fetch"
      BY <1>11 DEF FetchSucceeds, Is
  <2>3. Becomes(w, state)
      BY <2>1
  <2> HIDE DEF old
  <2>4. state \in WorkerStates /\ HasQuote(state) /\ state.job = old.job /\ state.lost = old.lost
      BY <1>1, <1>2, <2>2 DEF WorkerStates, Points, HasQuote
  <2> HIDE DEF state
  <2>5. \A job : Works(state, job) /\ ~state.lost => Works(old, job) /\ ~old.lost
      BY <1>1, <2>2, <2>4, AtTheJob
  <2> QED BY <1>3, <2>3, <2>4, <2>5, WorkerMoves DEF old
<1>12. CASE JobFails(w)
  <2> DEFINE point == "unlock"
  <2>1. /\ old.at \in {"currencies", "next", "fetch", "mark", "store", "unlock"}
        /\ Leaves(w, point) /\ point \in {"next", "unlock"}
      BY <1>12 DEF JobFails
  <2> HIDE DEF point
  <2> QED BY <1>3, <2>1, LeavesKeeps
<1>13. CASE RestOfCycle(w)
  <2>1. Becomes(w, Idle) /\ Idle \in WorkerStates /\ Idle.at = "idle"
      BY <1>13, IdleState DEF RestOfCycle
  <2>2. HasQuote(Idle) /\ \A k : ~Works(Idle, k)
      BY <2>1 DEF HasQuote, Works
  <2> DEFINE state == Idle
  <2> HIDE DEF state
  <2>3. state = Idle
      BY DEF state
  <2> QED BY <1>3, <2>1, <2>2, <2>3, WorkerMoves
<1> QED BY <1>3, <1>4, <1>5, <1>6, <1>7, <1>8, <1>9, <1>10, <1>11, <1>12, <1>13

\* pg_try_advisory_lock gives the lock to a worker.
LEMMA TakeLockKeeps ==
    ASSUME WorkersOK(workers, locks), NEW w \in Workers, NEW job \in Jobs, TakeLock(w, job)
    PROVE  WorkersOK(workers', locks')
<1> DEFINE old == workers[w]
           was == locks[job]
           lock == [worker |-> w, held |-> IF was = FreeLock THEN 1 ELSE was.held + 1]
           refreshed == [old EXCEPT !.at = "next", !.todo = Quotes]
           asked == [old EXCEPT !.at = "currencies"]
<1>1. /\ old \in WorkerStates /\ was \in Locks
      /\ old.at = "ask" /\ old.job = job
      /\ was = FreeLock \/ (was.worker = w /\ was.held < MaxHeld)
      /\ locks' = [locks EXCEPT ![job] = lock]
      /\ Becomes(w, refreshed) \/ Becomes(w, asked)
  <2>1. old \in WorkerStates /\ was \in Locks
      BY DEF WorkersOK
  <2>2. old.at = "ask" /\ old.job = job
      BY DEF TakeLock, Is
  <2>5. was = FreeLock \/ (was.worker = w /\ was.held < MaxHeld)
      BY DEF TakeLock
  <2>3. locks' = [locks EXCEPT ![job] = lock]
      BY DEF TakeLock
  <2>4. Becomes(w, refreshed) \/ Becomes(w, asked)
      BY DEF TakeLock, Goes
  <2> QED BY <2>1, <2>2, <2>3, <2>4, <2>5
<1> HIDE DEF old, was
<1>2. lock \in Locks /\ lock.worker = w
  <2>1. MaxHeld \in Nat \ {0} /\ "NONE" \notin Workers
      BY FxConstants
  <2>2. was = FreeLock \/ was.held \in Nat
      BY <1>1 DEF Locks
  <2> QED BY <1>1, <2>1, <2>2 DEF Locks, FreeLock
<1> HIDE DEF lock
<1>3. PICK state \in {refreshed, asked} : Becomes(w, state)
    BY <1>1
<1>4. state \in WorkerStates /\ HasQuote(state) /\ state.job = job
    BY <1>1, <1>3 DEF WorkerStates, Points, HasQuote
<1>5. \A k \in Jobs : Works(state, k) /\ ~state.lost =>
                          IF k = job THEN lock.worker = w ELSE locks[k].worker = w
    BY <1>2, <1>4 DEF Works
<1>6. lock # locks[job] => locks[job].worker = w \/ locks[job] = FreeLock
    BY <1>1 DEF was
<1> HIDE DEF refreshed, asked
<1>7. Becomes(w, state) /\ locks' = [locks EXCEPT ![job] = lock]
    BY <1>1, <1>3
<1> QED
  <2> DEFINE s == state
  <2>1. s \in WorkerStates /\ HasQuote(s) /\ Becomes(w, s)
      BY <1>4, <1>7
  <2>2. \A k \in Jobs : Works(s, k) /\ ~s.lost =>
                            IF k = job THEN lock.worker = w ELSE locks[k].worker = w
      BY <1>5
  <2> HIDE DEF s
  <2> QED BY <1>2, <1>6, <1>7, <2>1, <2>2, LockMoves

\* pg_advisory_unlock.
LEMMA GiveLockBackKeeps ==
    ASSUME WorkersOK(workers, locks), NEW w \in Workers, NEW job \in Jobs,
           GiveLockBack(w, job)
    PROVE  WorkersOK(workers', locks')
<1> DEFINE was == locks[job]
           state == After(job)
<1>1. PICK lock \in Unlock(w, job) : locks' = [locks EXCEPT ![job] = lock]
    BY DEF GiveLockBack
<1>2. Becomes(w, state) /\ was \in Locks
    BY DEF GiveLockBack, WorkersOK
<1>3. state \in WorkerStates /\ HasQuote(state) /\ \A k : ~Works(state, k)
    BY AfterState
<1> HIDE DEF was, state
<1>4. lock = was \/ lock = FreeLock \/ (was.held # 1 /\ lock = [was EXCEPT !.held = was.held - 1])
    BY <1>1 DEF Unlock, was
<1>5. lock # was => was.worker = w
    BY <1>1 DEF Unlock, was
<1>6. lock \in Locks
  <2>1. MaxHeld \in Nat /\ "NONE" \notin Workers
      BY FxConstants
  <2>2. CASE was = FreeLock
      BY <1>2, <1>4, <1>5, <2>1, <2>2, IdleState
  <2>3. CASE was # FreeLock
    <3>1. was \in [worker : Workers, held : 1 .. MaxHeld]
        BY <1>2, <2>3 DEF Locks
    <3> QED BY <1>4, <2>1, <3>1 DEF Locks
  <2> QED BY <2>2, <2>3
<1>7. lock # locks[job] => locks[job].worker = w \/ locks[job] = FreeLock
    BY <1>5 DEF was
<1> QED BY <1>1, <1>2, <1>3, <1>6, <1>7, LockMoves

\* A connection closes, and its lock is free.
LEMMA ConnectionClosesKeeps ==
    ASSUME WorkersOK(workers, locks), NEW job \in Jobs, ConnectionCloses(job)
    PROVE  WorkersOK(workers', locks')
<1> DEFINE w == locks[job].worker
           old == workers[w]
           dropped == [old EXCEPT !.lost = TRUE]
           lock == FreeLock
<1>1. locks[job] # FreeLock /\ locks[job] \in Locks
    BY DEF ConnectionCloses, WorkersOK
<1>2. w \in Workers
    BY <1>1 DEF Locks
<1>3. /\ old \in WorkerStates /\ HasQuote(old)
      /\ locks' = [locks EXCEPT ![job] = lock] /\ lock \in Locks
    BY <1>2, IdleState DEF WorkersOK, ConnectionCloses
<1>4. \/ Becomes(w, dropped)
      \/ Becomes(w, old) /\ ~Works(old, job)
  <2>1. CASE Working(w, job)
      BY <2>1 DEF ConnectionCloses
  <2>2. CASE ~Working(w, job)
    <3>1. UNCHANGED workers /\ ~Works(old, job)
        BY <2>2 DEF ConnectionCloses, Working, Works
    <3>2. workers' = [workers EXCEPT ![w] = old]
        BY <1>2, <3>1 DEF WorkersOK
    <3> QED BY <3>1, <3>2 DEF Becomes
  <2> QED BY <2>1, <2>2
<1>5. PICK state \in {old, dropped} :
        Becomes(w, state) /\ (state = dropped \/ ~Works(old, job))
    BY <1>4
<1>6. state \in WorkerStates /\ HasQuote(state)
    BY <1>3, <1>5 DEF WorkerStates, HasQuote
<1>7. dropped.lost
    BY <1>3 DEF WorkerStates
<1>8. ASSUME NEW k \in Jobs, Works(state, k), ~state.lost
      PROVE  IF k = job THEN lock.worker = w ELSE locks[k].worker = w
  <2>1. state = old
      BY <1>5, <1>7, <1>8
  <2>2. k # job
      BY <1>5, <1>7, <1>8, <2>1
  <2> QED BY <1>2, <1>8, <2>1, <2>2 DEF WorkersOK
<1>9. locks[job].worker = w
    OBVIOUS
<1>10. Becomes(w, state) /\ locks' = [locks EXCEPT ![job] = lock] /\ lock \in Locks
    BY <1>3, <1>5
<1>11. \A k \in Jobs : Works(state, k) /\ ~state.lost =>
           IF k = job THEN lock.worker = w ELSE locks[k].worker = w
    BY <1>8
<1> HIDE DEF w, lock, old, dropped
<1> QED BY <1>2, <1>6, <1>9, <1>10, <1>11, LockMoves

LEMMA StoppedState ==
    ASSUME NEW point
    PROVE  [Idle EXCEPT !.at = point, !.job = "NONE"] = [Idle EXCEPT !.at = point]
<1> DEFINE fields == {"at", "job", "todo", "quote", "attempt", "pending", "lost"}
           stopped == [Idle EXCEPT !.at = point]
<1>1. DOMAIN stopped = fields /\ stopped = [f \in fields |-> stopped[f]]
    BY DEF Idle
<1>2. stopped.job = "NONE"
    BY DEF Idle
<1>3. [stopped EXCEPT !["job"] = "NONE"] = stopped
  <2> HIDE DEF stopped, fields
  <2> QED BY <1>1, <1>2
<1> QED BY <1>3

\* A worker stops, and its locks are free.
LEMMA WorkerStopsKeeps ==
    ASSUME WorkersOK(workers, locks), NEW w \in Workers, WorkerStops(w)
    PROVE  WorkersOK(workers', locks')
<1> DEFINE point == "stopped"
           job == "NONE"
           state == [Idle EXCEPT !.at = point, !.job = job]
<1>1. /\ point \in {"idle", "stopped", "ask", "sessions"}
      /\ job \in Jobs \cup {"NONE"}
    OBVIOUS
<1>2. Becomes(w, state)
  <2>1. state = [Idle EXCEPT !.at = point]
      BY StoppedState
  <2>2. Becomes(w, [Idle EXCEPT !.at = point])
      BY DEF WorkerStops
  <2> QED BY <2>1, <2>2
<1> HIDE DEF point, job
<1>3. state \in WorkerStates /\ HasQuote(state) /\ \A k : ~Works(state, k)
    BY <1>1, BetweenJobs
<1> HIDE DEF state
<1>4. /\ workers' \in [Workers -> WorkerStates] /\ workers'[w] = state
      /\ \A v \in Workers : v # w => workers'[v] = workers[v]
    BY <1>2, <1>3 DEF WorkersOK, Becomes
<1>5. /\ locks' = [k \in Jobs |-> IF locks[k].worker = w THEN FreeLock ELSE locks[k]]
      /\ FreeLock \in Locks
    BY IdleState DEF WorkerStops
<1>6. locks' \in [Jobs -> Locks]
    BY <1>5 DEF WorkersOK
<1>7. ASSUME NEW v \in Workers, NEW k \in Jobs, Works(workers'[v], k), ~workers'[v].lost
      PROVE  locks'[k].worker = v
    BY <1>3, <1>4, <1>5, <1>7 DEF WorkersOK
<1>8. ASSUME NEW v \in Workers PROVE HasQuote(workers'[v])
    BY <1>3, <1>4 DEF WorkersOK
<1> QED BY <1>4, <1>6, <1>7, <1>8 DEF WorkersOK

-----------------------------------------------------------------------------
(***************************************************************************)
(* The rates.                                                              *)
(***************************************************************************)

\* A row of fx_rates.
LEMMA RateRow ==
    ASSUME RatesOK(rates, unanswered), NEW q \in Quotes, NEW d \in Days
    PROVE  /\ rates[q][d] \in RateRows
           /\ rates[q][d] # NoRate => rates[q][d] \in [rate : RateValues, stale : BOOLEAN]
           /\ d \in Dated(q) <=> rates[q][d] # NoRate
BY DEF RatesOK, RateRows, Dated

\* The provider did not answer: every row of the currency is marked.
LEMMA MarkStaleKeeps ==
    ASSUME WorkersOK(workers, locks), RatesOK(rates, unanswered), NEW w \in Workers,
           MarkStale(w)
    PROVE  WorkersOK(workers', locks') /\ RatesOK(rates', unanswered')
<1> DEFINE q == workers[w].quote
           point == "next"
           marked == [d \in Days |-> IF d \in Dated(q) THEN [rates[q][d] EXCEPT !.stale = TRUE]
                                     ELSE NoRate]
<1>1. /\ workers[w].at = "mark" /\ q \in Quotes
      /\ rates' = [rates EXCEPT ![q] = marked] /\ unanswered' = unanswered \cup {q}
      /\ Leaves(w, point) /\ locks' = locks
    BY DEF MarkStale, Is, MarkedStale, WorkersOK, HasQuote
<1>2. WorkersOK(workers', locks')
  <2>1. point \in {"next", "unlock"}
      OBVIOUS
  <2> HIDE DEF point
  <2> QED BY <1>1, <2>1, LeavesKeeps
<1> HIDE DEF q
<1>3. ASSUME NEW d \in Days
      PROVE  marked[d] \in RateRows /\ (marked[d] # NoRate => marked[d].stale)
    BY <1>1, RateRow DEF RateRows, Dated
<1>4. marked \in [Days -> RateRows]
    BY <1>3
<1> HIDE DEF marked
<1>5. /\ rates' \in [Quotes -> [Days -> RateRows]] /\ rates'[q] = marked
      /\ \A c \in Quotes : c # q => rates'[c] = rates[c]
    BY <1>1, <1>4 DEF RatesOK
<1>6. unanswered' \subseteq Quotes
    BY <1>1 DEF RatesOK
<1>7. ASSUME NEW c \in unanswered', NEW d \in Days, rates'[c][d] # NoRate
      PROVE  rates'[c][d].stale
    BY <1>1, <1>3, <1>5, <1>6, <1>7 DEF RatesOK
<1> QED BY <1>2, <1>5, <1>6, <1>7 DEF RatesOK

\* An answer is stored.
LEMMA StoreRateKeeps ==
    ASSUME WorkersOK(workers, locks), RatesOK(rates, unanswered), NEW w \in Workers,
           NEW d \in Days, NEW rate \in RateValues, StoreRate(w, d, rate)
    PROVE  WorkersOK(workers', locks') /\ RatesOK(rates', unanswered')
<1> DEFINE old == workers[w]
           q == old.quote
           row == [rate |-> rate, stale |-> FALSE]
           point == "next"
           left == old.pending \ {d}
           state == [old EXCEPT !.pending = left]
<1>1. /\ old.at = "store" /\ q \in Quotes /\ old \in WorkerStates /\ HasQuote(old)
      /\ rates' = [rates EXCEPT ![q] = [rates[q] EXCEPT ![d] = row]]
      /\ unanswered' = unanswered \ {q}
      /\ Leaves(w, point) \/ Becomes(w, state)
      /\ locks' = locks
    BY DEF StoreRate, Is, Upserted, WorkersOK, HasQuote
<1>2. WorkersOK(workers', locks')
  <2>1. CASE Leaves(w, point)
    <3>1. point \in {"next", "unlock"}
        OBVIOUS
    <3> HIDE DEF point
    <3> QED BY <1>1, <2>1, <3>1, LeavesKeeps
  <2>2. CASE Becomes(w, state)
    <3>1. left \in SUBSET Days
        BY <1>1 DEF WorkerStates
    <3> HIDE DEF old, left
    <3>2. state \in WorkerStates /\ HasQuote(state) /\ state.job = old.job /\ state.lost = old.lost
        BY <1>1, <3>1 DEF WorkerStates, HasQuote
    <3> HIDE DEF state
    <3>3. \A job : Works(state, job) /\ ~state.lost => Works(old, job) /\ ~old.lost
        BY <1>1, <3>2, AtTheJob
    <3> QED BY <1>1, <2>2, <3>2, <3>3, WorkerMoves DEF old
  <2> QED BY <1>1, <2>1, <2>2
<1> HIDE DEF q
<1>3. row \in RateRows
    BY DEF RateRows
<1> HIDE DEF row
<1> DEFINE dates == [rates[q] EXCEPT ![d] = row]
<1>4. dates \in [Days -> RateRows]
    BY <1>1, <1>3 DEF RatesOK
<1> HIDE DEF dates
<1>5. /\ rates' \in [Quotes -> [Days -> RateRows]]
      /\ \A c \in Quotes : c # q => rates'[c] = rates[c]
    BY <1>1, <1>4 DEF RatesOK, dates
<1> QED BY <1>1, <1>2, <1>5 DEF RatesOK

-----------------------------------------------------------------------------
(***************************************************************************)
(* The theorems.                                                           *)
(***************************************************************************)

LEMMA FxInitEstablishes == FxInit => FInv
<1> SUFFICES ASSUME FxInit PROVE FInv
    OBVIOUS
<1>1. Idle \in WorkerStates /\ Idle.at = "idle" /\ FreeLock \in Locks
    BY IdleState
<1>2. WorkersOK(workers, locks)
    BY <1>1 DEF FxInit, WorkersOK, HasQuote, Works
<1>3. RatesOK(rates, unanswered)
    BY DEF FxInit, RatesOK, RateRows
<1>4. today \in Days
  <2>1. \E d \in Days : \A e \in Days : d <= e
      BY FxConstants, LeastNatural
  <2>2. today = CHOOSE d \in Days : \A e \in Days : d <= e
      BY DEF FxInit
  <2> QED BY <2>1, <2>2
<1> QED BY <1>2, <1>3, <1>4 DEF FInv

LEMMA FxNextKeeps == FInv /\ [FxNext]_fxVars => FInv'
<1> SUFFICES ASSUME FInv, [FxNext]_fxVars PROVE FInv'
    OBVIOUS
<1> USE DEF FInv
<1>1. ASSUME NEW w \in Workers,
             \/ CycleStarts(w) \/ AskFails(w) \/ ReadCurrencies(w) \/ NextCurrency(w)
             \/ AllCurrencies(w) \/ FetchAgain(w) \/ FetchFails(w) \/ FetchSucceeds(w)
             \/ JobFails(w) \/ RestOfCycle(w)
             \/ \E job \in Jobs : LockTaken(w, job)
      PROVE  FInv'
    BY <1>1, WorkerKeeps
<1>2. ASSUME NEW w \in Workers, NEW job \in Jobs, TakeLock(w, job) PROVE FInv'
    BY <1>2, TakeLockKeeps DEF TakeLock
<1>3. ASSUME NEW w \in Workers, NEW job \in Jobs, GiveLockBack(w, job) PROVE FInv'
    BY <1>3, GiveLockBackKeeps DEF GiveLockBack
<1>4. ASSUME NEW w \in Workers, NEW d \in Days, NEW rate \in RateValues, StoreRate(w, d, rate)
      PROVE  FInv'
    BY <1>4, StoreRateKeeps DEF StoreRate
<1>5. ASSUME NEW w \in Workers, MarkStale(w) PROVE FInv'
    BY <1>5, MarkStaleKeeps DEF MarkStale
<1>6. ASSUME NEW w \in Workers, WorkerStops(w) PROVE FInv'
    BY <1>6, WorkerStopsKeeps DEF WorkerStops
<1>7. ASSUME NEW job \in Jobs, ConnectionCloses(job) PROVE FInv'
    BY <1>7, ConnectionClosesKeeps DEF ConnectionCloses
<1>8. CASE DayPasses
    BY <1>8 DEF DayPasses
<1>9. CASE UNCHANGED fxVars
    BY <1>9 DEF fxVars
<1> QED BY <1>1, <1>2, <1>3, <1>4, <1>5, <1>6, <1>7, <1>8, <1>9 DEF FxNext, WorkerNext

\* The inductive invariant holds whatever the workers, the connections and the
\* provider do.
THEOREM FxInvariance == FxSpec => []FInv
BY FxInitEstablishes, FxNextKeeps, PTL DEF FxSpec

\* Rates, locks and workers keep their types.
THEOREM FxTypeCorrect == FxSpec => []FxTypeOK
<1>1. FInv => FxTypeOK
  <2> SUFFICES ASSUME FInv PROVE FxTypeOK
      OBVIOUS
  <2>1. ASSUME NEW w \in Workers
        PROVE  /\ workers[w].job \in Jobs \cup {"NONE"}
               /\ workers[w].todo \subseteq Quotes
               /\ workers[w].attempt \in 0 .. Attempts
    <3>1. workers[w] \in WorkerStates
        BY DEF FInv, WorkersOK
    <3> QED BY <3>1 DEF WorkerStates
  <2> QED BY <2>1 DEF FInv, FxTypeOK, WorkersOK, RatesOK, RateRows, Locks
<1> QED BY <1>1, FxInvariance, PTL

\* Two workers are at the same job only after a connection was lost.
THEOREM JobsAreExclusive == FxSpec => []OverlapOnlyAfterLoss
<1>1. FInv => OverlapOnlyAfterLoss
  <2> SUFFICES ASSUME FInv, NEW job \in Jobs, NEW v \in Workers, NEW w \in Workers,
                      v # w, Working(v, job), Working(w, job)
               PROVE  workers[v].lost \/ workers[w].lost
      BY DEF OverlapOnlyAfterLoss
  <2>1. Works(workers[v], job) /\ Works(workers[w], job)
      BY DEF Works, Working
  <2> QED BY <2>1 DEF FInv, WorkersOK
<1> QED BY <1>1, FxInvariance, PTL

-----------------------------------------------------------------------------
(***************************************************************************)
(* What the dashboard shows of a failure.                                  *)
(***************************************************************************)

\* The rate that a conversion uses is the latest one that is known.
LEMMA RateDateIs ==
    ASSUME NEW q \in Quotes, NEW date \in Days, Known(q, date) # {}
    PROVE  RateDate(q, date) \in Days /\ RateDate(q, date) \in Dated(q)
<1> DEFINE K == Known(q, date)
<1>1. K \subseteq 1 .. date /\ date \in Nat /\ K # {}
  <2>1. \A e \in Days : e \in Nat \ {0}
      BY FxConstants
  <2>2. \A e \in K : e \in Days /\ e <= date
      BY DEF Known, Dated
  <2> HIDE DEF K
  <2>3. \A e \in K : e \in 1 .. date
      BY <2>1, <2>2
  <2> QED BY <2>1, <2>3 DEF K
<1>2. K \subseteq Dated(q) /\ Dated(q) \subseteq Days
    BY DEF Known, Dated
<1>3. RateDate(q, date) = CHOOSE d \in K : \A e \in K : e <= d
    BY DEF RateDate
<1> HIDE DEF K
<1>4. \E d \in K : \A e \in K : e <= d
    BY <1>1, LargestNatural
<1> QED BY <1>2, <1>3, <1>4

\* No conversion between currencies that involves one without an answer is
\* complete, at any date and in whatever order workers write.
THEOREM FailuresAreShown == FxSpec => []FailureShown
<1>1. FInv => FailureShown
  <2> SUFFICES ASSUME FInv, NEW q \in unanswered, NEW c \in Currencies, NEW d \in Days, q # c
               PROVE  Status(q, c, d) # "COMPLETE" /\ Status(c, q, d) # "COMPLETE"
      BY DEF FailureShown
  <2>1. q \in Quotes /\ q # "USD"
      BY FxConstants DEF FInv, RatesOK
  <2>2. Available(q, d) => rates[q][RateDate(q, d)].stale
    <3>1. CASE Available(q, d)
      <4>1. RateDate(q, d) \in Days /\ RateDate(q, d) \in Dated(q)
          BY <2>1, <3>1, RateDateIs DEF Available
      <4>2. rates[q][RateDate(q, d)] # NoRate
          BY <4>1 DEF Dated
      <4> QED BY <4>1, <4>2 DEF FInv, RatesOK
    <3> QED BY <3>1
  <2>3. Status(q, c, d) # "COMPLETE"
    <3>1. ASSUME MissingFor(q, c, d) = {} PROVE q \in StaleFor(q, c, d)
      <4>1. Available(q, d)
          BY <3>1 DEF MissingFor
      <4> QED BY <2>1, <2>2, <3>1, <4>1 DEF StaleFor
    <3> QED BY <3>1 DEF Status
  <2>4. Status(c, q, d) # "COMPLETE"
    <3>1. ASSUME MissingFor(c, q, d) = {} PROVE q \in StaleFor(c, q, d)
      <4>1. Available(c, d) /\ Available(q, d)
          BY <3>1 DEF MissingFor
      <4> QED BY <2>1, <2>2, <3>1, <4>1 DEF StaleFor
    <3> QED BY <3>1 DEF Status
  <2> QED BY <2>3, <2>4
<1> QED BY <1>1, FxInvariance, PTL

-----------------------------------------------------------------------------
(***************************************************************************)
(* Conversions.                                                            *)
(***************************************************************************)

LEMMA Quotient ==
    ASSUME NEW n \in Int, NEW d \in Nat \ {0}
    PROVE  /\ n \div d \in Int
           /\ d * (n \div d) <= n
           /\ n < d * (n \div d) + d
OBVIOUS

\* A rounded quotient is at most half a unit away from the exact one.
LEMMA RoundedIsNear ==
    ASSUME NEW n \in Int, NEW r \in Nat \ {0}, NEW k, k = Rounded(n, r)
    PROVE  k \in Int /\ 2 * n - r <= (2 * r) * k /\ (2 * r) * k <= 2 * n + r
<1> DEFINE d == 2 * r
<1>1. d \in Nat \ {0}
    OBVIOUS
<1>2. CASE n >= 0
  <2> DEFINE m == 2 * n + r
  <2>1. m \in Int /\ k = m \div d
      BY <1>2 DEF Rounded
  <2> HIDE DEF m, d
  <2>2. k \in Int /\ d * k <= m /\ m < d * k + d
      BY <1>1, <2>1, Quotient
  <2>3. d * k \in Int
      BY <1>1, <2>2
  <2> DEFINE p == d * k
  <2> HIDE DEF p
  <2>4. p \in Int /\ p <= m /\ m < p + d
      BY <2>2, <2>3 DEF p
  <2>5. 2 * n - r <= p /\ p <= 2 * n + r
      BY <2>4 DEF m, d
  <2> QED BY <2>2, <2>5 DEF p, d
<1>3. CASE n < 0
  <2> DEFINE m == r - 2 * n
             j == m \div d
  <2>1. m \in Int /\ k = -j
      BY <1>3 DEF Rounded
  <2> HIDE DEF m, d
  <2>2. j \in Int /\ d * j <= m /\ m < d * j + d
      BY <1>1, <2>1, Quotient
  <2> HIDE DEF j
  <2>3. d * j \in Int /\ d * k = -(d * j) /\ k \in Int
      BY <1>1, <2>1, <2>2
  <2> DEFINE p == d * j
  <2>4. p \in Int /\ p <= m /\ m < p + d /\ d * k = -p
      BY <2>2, <2>3
  <2> HIDE DEF p
  <2>5. 2 * n - r <= -p /\ -p <= 2 * n + r
      BY <2>4 DEF m, d
  <2> QED BY <2>3, <2>4, <2>5 DEF d
<1> QED BY <1>2, <1>3

\* Halves away from zero: a sign passes through.
LEMMA RoundedIsOdd ==
    ASSUME NEW n \in Int, NEW r \in Nat \ {0}
    PROVE  Rounded(-n, r) = -Rounded(n, r)
<1>1. r \div (2 * r) = 0
    OBVIOUS
<1> QED BY <1>1 DEF Rounded

\* The rounded quotient of a sum is one away from that of its parts at most.
LEMMA RoundedIsAdditive ==
    ASSUME NEW n \in Int, NEW m \in Int, NEW r \in Nat \ {0},
           NEW a, a = Rounded(n, r), NEW b, b = Rounded(m, r), NEW sum, sum = a + b
    PROVE  /\ a \in Int /\ b \in Int
           /\ Rounded(n + m, r) \in sum - 1 .. sum + 1
<1> DEFINE c == Rounded(n + m, r)
           d == 2 * r
<1>1. n + m \in Int
    OBVIOUS
<1>2. /\ a \in Int /\ 2 * n - r <= d * a /\ d * a <= 2 * n + r
      /\ b \in Int /\ 2 * m - r <= d * b /\ d * b <= 2 * m + r
    BY RoundedIsNear
<1>3. c \in Int /\ 2 * (n + m) - r <= d * c /\ d * c <= 2 * (n + m) + r
    BY <1>1, RoundedIsNear
<1> DEFINE k == c - (a + b)
<1> HIDE DEF c
<1>4. k \in Int /\ d * k = d * c - (d * a + d * b)
    BY <1>2, <1>3
<1>5. -(3 * r) <= d * k /\ d * k <= 3 * r
  <2>1. d * a \in Int /\ d * b \in Int /\ d * c \in Int
      BY <1>2, <1>3
  <2> QED BY <1>2, <1>3, <1>4, <2>1
<1> HIDE DEF k
<1>6. k <= 1 /\ -1 <= k
    BY <1>4, <1>5
<1>7. c \in sum - 1 .. sum + 1
    BY <1>2, <1>3, <1>6 DEF k
<1> QED BY <1>2, <1>7 DEF c

\* Whatever the rates are, a conversion keeps signs, and differs by one smallest
\* unit at most for a sum and its parts.
THEOREM ConversionsAreFair == FxSpec => []ConversionFair
<1>1. FInv => ConversionFair
  <2> SUFFICES ASSUME FInv, NEW from \in Currencies, NEW to \in Currencies, NEW d \in Days,
                      MissingFor(from, to, d) = {}, NEW x \in Amounts, NEW y \in Amounts
               PROVE  LET sum == Convert(x, from, to, d) + Convert(y, from, to, d)
                      IN  /\ Convert(-x, from, to, d) = -Convert(x, from, to, d)
                          /\ Convert(x + y, from, to, d) \in sum - 1 .. sum + 1
      BY Zenon DEF ConversionFair
  <2>1. x \in Int /\ y \in Int
      BY FxConstants
  <2>2. CASE from = to
      BY <2>1, <2>2 DEF Convert
  <2>3. CASE from # to
    <3>1. Available(from, d) /\ Available(to, d)
        BY <2>3 DEF MissingFor
    <3>2. ASSUME NEW q \in Currencies, Available(q, d) PROVE Rate(q, d) \in Nat \ {0}
      <4>1. CASE q = "USD"
          BY <4>1, FxConstants DEF Rate
      <4>2. CASE q # "USD"
        <5>1. q \in Quotes /\ Known(q, d) # {}
            BY <3>2, <4>2 DEF Currencies, Available
        <5>2. RateDate(q, d) \in Days /\ RateDate(q, d) \in Dated(q)
            BY <5>1, RateDateIs
        <5>3. rates[q][RateDate(q, d)] \in [rate : RateValues, stale : BOOLEAN]
            BY <5>1, <5>2, RateRow DEF FInv
        <5> QED BY <4>2, <5>3, FxConstants DEF Rate
      <4> QED BY <4>1, <4>2
    <3> DEFINE p == Rate(to, d)
               r == Rate(from, d)
    <3>3. p \in Nat \ {0} /\ r \in Nat \ {0}
        BY <3>1, <3>2
    <3>4. \A z : Convert(z, from, to, d) = Rounded(z * p, r)
        BY <2>3 DEF Convert
    <3> HIDE DEF p, r
    <3> DEFINE n == x * p
               m == y * p
    <3>5. n \in Int /\ m \in Int /\ (-x) * p = -n /\ (x + y) * p = n + m
        BY <2>1, <3>3
    <3> HIDE DEF n, m
    <3> DEFINE u == Rounded(n, r)
               v == Rounded(m, r)
               sum == u + v
    <3>6. /\ Convert(x, from, to, d) = u /\ Convert(y, from, to, d) = v
          /\ Convert(-x, from, to, d) = Rounded(-n, r)
          /\ Convert(x + y, from, to, d) = Rounded(n + m, r)
        BY <3>4, <3>5 DEF n, m
    <3>7. Rounded(-n, r) = -u
        BY <3>3, <3>5, RoundedIsOdd
    <3>8. u = Rounded(n, r) /\ v = Rounded(m, r) /\ sum = u + v
        OBVIOUS
    <3> HIDE DEF u, v, sum
    <3>9. u \in Int /\ v \in Int /\ Rounded(n + m, r) \in sum - 1 .. sum + 1
        BY <3>3, <3>5, <3>8, RoundedIsAdditive
    <3> QED BY <3>6, <3>7, <3>8, <3>9
  <2> QED BY <2>2, <2>3
<1> QED BY <1>1, FxInvariance, PTL
=============================================================================
