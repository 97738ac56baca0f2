-------------------------- MODULE RecurringProofs --------------------------
(***************************************************************************)
(* Proofs about recurring templates and the runs of the worker, for any    *)
(* accounts, templates, intervals, batch sizes and journals.               *)
(***************************************************************************)
EXTENDS Recurring, LedgerProofs

-----------------------------------------------------------------------------
(***************************************************************************)
(* Posting a batch, one transaction after the other.                       *)
(***************************************************************************)

\* g is what the fold computes, for every subset of 1 .. m.
Folds(g, j, posts, m) ==
    g = [s \in SUBSET (1 .. m) |->
            IF s = {} THEN j ELSE PostJournal(g[s \ {Max(s)}], posts[Max(s)])]

LEMMA MaxIs ==
    ASSUME NEW m \in Nat, NEW s \in SUBSET (1 .. m)
    PROVE  /\ s # {} => /\ Max(s) \in s
                         /\ \A x \in s : x <= Max(s)
           /\ m \in s => Max(s) = m
<1>1. ASSUME s # {} PROVE Max(s) \in s /\ \A x \in s : Max(s) >= x
  <2>1. \E x \in s : \A y \in s : x >= y
      BY <1>1, LargestNatural
  <2> QED BY <2>1 DEF Max
<1>2. ASSUME s # {} PROVE \A x \in s : x <= Max(s)
    BY <1>1, <1>2
<1>3. ASSUME m \in s PROVE Max(s) = m
  <2> DEFINE x == Max(s)
  <2>1. x \in s /\ x >= m
      BY <1>1, <1>3
  <2> HIDE DEF x
  <2>2. x = m
      BY <2>1
  <2> QED BY <2>2 DEF x
<1> QED BY <1>1, <1>2, <1>3

\* There is such a function for every length of the batch.
LEMMA FoldExists ==
    ASSUME NEW m \in Nat, NEW j, NEW posts
    PROVE  \E g : Folds(g, j, posts, m)
<1> DEFINE T == {n \in Nat : ~\E g : Folds(g, j, posts, n)}
<1>1. SUFFICES ASSUME T # {} PROVE FALSE
    OBVIOUS
<1>2. PICK n \in T : \A k \in T : n <= k
  <2> HIDE DEF T
  <2>1. T \subseteq Nat
      BY DEF T
  <2> QED BY <1>1, <2>1, LeastNatural
<1>3. n # 0
  <2>1. \A s \in SUBSET (1 .. 0) : s = {}
      OBVIOUS
  <2> DEFINE g == [s \in SUBSET (1 .. 0) |-> j]
             b(s) == IF s = {} THEN j ELSE PostJournal(g[s \ {Max(s)}], posts[Max(s)])
  <2>2. \A s \in SUBSET (1 .. 0) : b(s) = j
    <3> HIDE DEF g
    <3> QED BY <2>1
  <2>3. g = [s \in SUBSET (1 .. 0) |-> b(s)]
    <3> HIDE DEF b
    <3> QED BY <2>2
  <2>4. Folds(g, j, posts, 0)
    <3> HIDE DEF g
    <3> QED BY <2>3 DEF Folds
  <2> QED BY <2>4
<1> DEFINE m1 == n - 1
<1>4. m1 \in Nat /\ n = m1 + 1 /\ ~(m1 \in T)
    BY <1>2, <1>3
<1> HIDE DEF m1
<1>5. PICK g : Folds(g, j, posts, m1)
    BY <1>4
<1> DEFINE rest(s) == PostJournal(g[s \ {Max(s)}], posts[Max(s)])
           v(s) == IF n \in s THEN rest(s) ELSE g[s]
           h == [s \in SUBSET (1 .. n) |-> v(s)]
           b(s) == IF s = {} THEN j ELSE PostJournal(h[s \ {Max(s)}], posts[Max(s)])
<1>6. \A s \in SUBSET (1 .. m1) : h[s] = g[s]
  <2>1. \A s \in SUBSET (1 .. m1) : s \in SUBSET (1 .. n) /\ n \notin s
      BY <1>4
  <2> QED BY <2>1
<1>7. \A s \in SUBSET (1 .. m1) :
          g[s] = IF s = {} THEN j ELSE PostJournal(g[s \ {Max(s)}], posts[Max(s)])
    BY <1>5 DEF Folds
<1>8. ASSUME NEW s \in SUBSET (1 .. n) PROVE v(s) = b(s)
  <2>1. CASE n \in s
    <3>1. Max(s) = n
        BY <2>1, MaxIs
    <3>2. s \ {Max(s)} \in SUBSET (1 .. m1)
        BY <1>4, <3>1
    <3>3. h[s \ {Max(s)}] = g[s \ {Max(s)}]
        BY <1>6, <3>2
    <3> HIDE DEF h
    <3> QED BY <2>1, <3>3
  <2>2. CASE n \notin s
    <3>1. s \in SUBSET (1 .. m1)
        BY <1>4, <2>2
    <3>2. s \ {Max(s)} \in SUBSET (1 .. m1)
        BY <3>1
    <3>3. h[s \ {Max(s)}] = g[s \ {Max(s)}]
        BY <1>6, <3>2
    <3>4. v(s) = g[s]
        BY <2>2
    <3> HIDE DEF h, v
    <3> QED BY <1>7, <3>1, <3>3, <3>4
  <2> QED BY <2>1, <2>2
<1>9. h = [s \in SUBSET (1 .. n) |-> b(s)]
  <2> HIDE DEF b, v
  <2>1. \A s \in SUBSET (1 .. n) : v(s) = b(s)
      BY <1>8
  <2> QED BY <2>1
<1>10. Folds(h, j, posts, n)
  <2> HIDE DEF h
  <2> QED BY <1>9 DEF Folds
<1> QED BY <1>2, <1>10

\* The function that FoldLeft takes its value from.
Fold(j, posts, m) == CHOOSE g : Folds(g, j, posts, m)

\* The journals that the batch passes through: w[n] after n transactions.
LEMMA FoldWalks ==
    ASSUME NEW m \in Nat, NEW j, NEW posts
    PROVE  \E w : /\ w[0] = j
                  /\ \A n \in 1 .. m : w[n] = PostJournal(w[n - 1], posts[n])
                  /\ w[m] = Fold(j, posts, m)[1 .. m]
<1> DEFINE g == Fold(j, posts, m)
           w == [n \in 0 .. m |-> g[1 .. n]]
<1>1. Folds(g, j, posts, m)
    BY FoldExists DEF Fold
<1> HIDE DEF g
<1>3. \A s \in SUBSET (1 .. m) :
          g[s] = IF s = {} THEN j ELSE PostJournal(g[s \ {Max(s)}], posts[Max(s)])
    BY <1>1 DEF Folds
<1>4. w[0] = j
  <2>1. 1 .. 0 = {}
      OBVIOUS
  <2>2. g[{}] = j
      BY <1>3
  <2> QED BY <2>1, <2>2
<1>5. ASSUME NEW n \in 1 .. m PROVE w[n] = PostJournal(w[n - 1], posts[n])
  <2> DEFINE s == 1 .. n
  <2>1. n \in Nat /\ n >= 1 /\ n <= m
      OBVIOUS
  <2>2. \A i \in s : i \in 1 .. m
      BY <2>1
  <2>3. s \in SUBSET (1 .. m) /\ n \in s /\ s \in SUBSET (1 .. n)
      BY <2>1, <2>2
  <2>4. Max(s) = n
    <3> HIDE DEF s
    <3> QED BY <2>1, <2>3, MaxIs
  <2>5. g[s] = PostJournal(g[s \ {n}], posts[n])
    <3> HIDE DEF s
    <3> QED BY <1>3, <2>3, <2>4
  <2>6. s \ {n} = 1 .. n - 1
      BY <2>1
  <2>7. n - 1 \in 0 .. m /\ n \in 0 .. m
      BY <2>1
  <2>8. w[n - 1] = g[1 .. n - 1] /\ w[n] = g[s]
      BY <2>7
  <2> HIDE DEF w, s
  <2> QED BY <2>5, <2>6, <2>8
<1>6. w[m] = g[1 .. m]
    OBVIOUS
<1>7. w[m] = Fold(j, posts, m)[1 .. m]
    BY <1>6 DEF g
<1> HIDE DEF w
<1> QED BY <1>4, <1>5, <1>7
-----------------------------------------------------------------------------
(***************************************************************************)
(* Ranks and dates.                                                        *)
(***************************************************************************)

\* In a finite set under a strict total order, given by the elements B[x] that
\* come before x, the numbers of predecessors are 0, 1, 2 and so on.
LEMMA Ranks ==
    ASSUME NEW S, IsFiniteSet(S), NEW B,
           \A x \in S : B[x] \subseteq S /\ x \notin B[x],
           \A x, y \in S : x # y => x \in B[y] \/ y \in B[x],
           \A x, y \in S : x \in B[y] => B[x] \subseteq B[y]
    PROVE  /\ \A x \in S : Cardinality(B[x]) \in 0 .. Cardinality(S) - 1
           /\ \A x, y \in S : x \in B[y] => Cardinality(B[x]) < Cardinality(B[y])
           /\ \A x, y \in S : Cardinality(B[x]) = Cardinality(B[y]) => x = y
           /\ \A n \in 0 .. Cardinality(S) - 1 : \E x \in S : Cardinality(B[x]) = n
<1> DEFINE c(x) == Cardinality(B[x])
           size == Cardinality(S)
           N == 0 .. size - 1
           f == [x \in S |-> c(x)]
<1>1. size \in Nat
    BY FS_CardinalityType
<1>2. ASSUME NEW x \in S PROVE IsFiniteSet(B[x]) /\ c(x) \in Nat /\ c(x) < size
  <2>1. IsFiniteSet(B[x]) /\ c(x) \in Nat
      BY FS_Subset, FS_CardinalityType
  <2>2. c(x) <= size /\ (c(x) = size => B[x] = S)
      BY FS_Subset
  <2>3. c(x) # size
      BY <2>2
  <2> HIDE DEF c, size
  <2> QED BY <1>1, <2>1, <2>2, <2>3
<1>3. ASSUME NEW x \in S, NEW y \in S, x \in B[y] PROVE c(x) < c(y)
  <2>1. B[x] \in SUBSET B[y] /\ B[x] # B[y]
      BY <1>3
  <2>2. c(x) <= c(y) /\ (c(y) = c(x) => B[y] = B[x])
      BY <1>2, <2>1, FS_Subset
  <2>3. c(x) \in Nat /\ c(y) \in Nat /\ c(x) # c(y)
      BY <1>2, <2>1, <2>2
  <2> HIDE DEF c
  <2> QED BY <2>2, <2>3
<1>4. ASSUME NEW x \in S, NEW y \in S, c(x) = c(y) PROVE x = y
  <2>1. c(x) \in Nat /\ c(y) \in Nat
      BY <1>2
  <2>2. ~(c(x) < c(y)) /\ ~(c(y) < c(x))
    <3> HIDE DEF c
    <3> QED BY <1>4, <2>1
  <2> QED BY <1>3, <2>2
<1>5. \A x \in S : c(x) \in N
  <2> HIDE DEF c, size
  <2> QED BY <1>1, <1>2
<1>6. IsFiniteSet(N) /\ Cardinality(N) = size
  <2> HIDE DEF size
  <2>1. size - 1 \in Int /\ 0 \in Int
      BY <1>1
  <2>2. IsFiniteSet(N) /\ Cardinality(N) = IF 0 > size - 1 THEN 0 ELSE size - 1 - 0 + 1
      BY <2>1, FS_Interval
  <2> QED BY <1>1, <2>2
<1>7. f \in Injection(S, N)
  <2> HIDE DEF c, N
  <2> QED BY <1>4, <1>5 DEF Injection, IsInjective
<1>8. f \in Surjection(S, N)
  <2>1. Cardinality(S) = Cardinality(N)
      BY <1>6
  <2> HIDE DEF f, N
  <2> QED BY <1>6, <1>7, <2>1, FS_Injection
<1>9. \A n \in N : \E x \in S : c(x) = n
  <2> HIDE DEF c, N
  <2> QED BY <1>8 DEF Surjection
<1> QED BY <1>3, <1>4, <1>5, <1>9

\* A finite set of natural numbers without gaps.
LEMMA Initial ==
    ASSUME NEW S, S \subseteq Nat, NEW b \in Nat, \A k \in S : k < b,
           \A k \in S : \A i \in 0 .. k : i \in S
    PROVE  /\ IsFiniteSet(S) /\ Cardinality(S) \in Nat
           /\ \A k \in Nat : k \in S <=> k < Cardinality(S)
<1> DEFINE T == Nat \ S
<1>1. b \in T
    BY DEF T
<1>2. PICK m \in T : \A k \in T : m <= k
  <2>1. T \subseteq Nat /\ T # {}
      BY <1>1
  <2> HIDE DEF T
  <2> QED BY <2>1, LeastNatural
<1>3. m \in Nat /\ m \notin S
    BY <1>2
<1>4. \A k \in Nat : k \in S <=> k < m
  <2>1. ASSUME NEW k \in Nat, k \in S PROVE k < m
    <3>1. ~(m \in 0 .. k)
        BY <1>3, <2>1
    <3> QED BY <1>3, <3>1
  <2>2. ASSUME NEW k \in Nat, k < m PROVE k \in S
    <3>1. ~(m <= k)
        BY <1>3, <2>2
    <3> QED BY <1>2, <3>1
  <2> QED BY <2>1, <2>2
<1>5. S = 0 .. m - 1
  <2>1. \A k : k \in 0 .. m - 1 <=> k \in Nat /\ k < m
      BY <1>3
  <2> QED BY <1>4, <2>1
<1>6. m - 1 \in Int /\ 0 \in Int
    BY <1>3
<1>7. IsFiniteSet(0 .. m - 1) /\ Cardinality(0 .. m - 1) = IF 0 > m - 1 THEN 0 ELSE m - 1 - 0 + 1
    BY <1>6, FS_Interval
<1>8. IsFiniteSet(S) /\ Cardinality(S) = m
    BY <1>3, <1>5, <1>7
<1> QED BY <1>3, <1>4, <1>8

\* The k-th date after date d in a schedule with that interval.
Step(d, interval, k) == d + interval * k

LEMMA Products ==
    ASSUME NEW n \in Nat \ {0}, NEW i \in Int, NEW k \in Int
    PROVE  /\ n * i \in Int
           /\ n * (i + k) = n * i + n * k
           /\ n * i < n * k <=> i < k
           /\ n * i = n * k <=> i = k
           /\ i \in Nat => n * i \in Nat
           /\ n * i \in Nat => i \in Nat
<1>1. n * i \in Int /\ n * k \in Int /\ n * (i + k) = n * i + n * k
    OBVIOUS
<1>2. ASSUME NEW x \in Int, NEW y \in Int, x < y PROVE n * x < n * y
    BY <1>2
<1>3. n * 0 = 0
    OBVIOUS
<1>4. n * i < n * k <=> i < k
  <2>1. i < k => n * i < n * k
      BY <1>2
  <2>2. k < i => n * k < n * i
      BY <1>2
  <2>3. i = k => n * i = n * k
      OBVIOUS
  <2> DEFINE p == n * i
             q == n * k
  <2>4. p \in Int /\ q \in Int
      BY <1>1
  <2>5. (i < k => p < q) /\ (k < i => q < p) /\ (i = k => p = q)
      BY <2>1, <2>2, <2>3
  <2> HIDE DEF p, q
  <2>6. p < q <=> i < k
      BY <2>4, <2>5
  <2> QED BY <2>6 DEF p, q
<1>5. n * i = n * k <=> i = k
  <2>1. i < k => n * i < n * k
      BY <1>2
  <2>2. k < i => n * k < n * i
      BY <1>2
  <2> QED BY <1>1, <2>1, <2>2
<1>6. /\ 0 < i => 0 < n * i
      /\ i < 0 => n * i < 0
      /\ i = 0 => n * i = 0
    BY <1>2, <1>3
<1> DEFINE p == n * i
<1>7. (0 < i => 0 < p) /\ (i < 0 => p < 0) /\ (i = 0 => p = 0) /\ p \in Int
    BY <1>1, <1>6
<1> HIDE DEF p
<1>8. i \in Nat <=> p \in Nat
    BY <1>7
<1> QED BY <1>1, <1>4, <1>5, <1>8 DEF p

\* The remainder of a division.
LEMMA Remainder ==
    ASSUME NEW n \in Nat \ {0}, NEW y \in Nat
    PROVE  /\ (n * y) % n = 0
           /\ y % n = 0 => y = n * (y \div n)
           /\ y \div n \in Int
<1>1. (n * y) % n = 0
    OBVIOUS
<1>2. y % n = y - n * (y \div n) /\ y \div n \in Int
    OBVIOUS
<1>3. y % n = 0 => y = n * (y \div n)
    OBVIOUS
<1> QED BY <1>1, <1>2, <1>3

\* A date is on a schedule when it is a whole number of intervals after one that is.
LEMMA OnStep ==
    ASSUME NEW n \in Nat \ {0}, NEW x \in Nat, NEW d \in Nat, x <= d
    PROVE  (d - x) % n = 0 <=> \E k \in Nat : d = Step(x, n, k)
<1> DEFINE y == d - x
<1>1. y \in Nat /\ d = x + y
    OBVIOUS
<1> HIDE DEF y
<1>2. ASSUME y % n = 0 PROVE \E k \in Nat : d = Step(x, n, k)
  <2> DEFINE q == y \div n
  <2>1. y = n * q /\ q \in Int
      BY <1>1, <1>2, Remainder
  <2> HIDE DEF q
  <2>2. q \in Nat
      BY <1>1, <2>1, Products
  <2> QED BY <1>1, <2>1, <2>2 DEF Step
<1>3. ASSUME NEW k \in Nat, d = Step(x, n, k) PROVE y % n = 0
  <2> DEFINE p == n * k
  <2>1. p \in Nat /\ d = x + p
      BY <1>3, Products DEF Step
  <2>2. p % n = 0
      BY Remainder
  <2> HIDE DEF p
  <2>3. y = p
      BY <1>1, <2>1
  <2> QED BY <2>2, <2>3
<1> QED BY <1>2, <1>3 DEF y
-----------------------------------------------------------------------------
(***************************************************************************)
(* The inductive invariant.  The rows of the templates and the dates that  *)
(* were generated are stated with the journal, the templates and the rows  *)
(* as parameters.                                                          *)
(***************************************************************************)
OccurrenceKey(t, d) == <<"recurring", t, d>>

\* The keys that transactions have.
RecurringKeys ==
    AllKeys \cup {OccurrenceKey(t, d) : t \in TemplateIds, d \in Days}

TemplateRows ==
    {NoTemplate} \cup
    [status : {"ACTIVE", "PAUSED"}, archived : BOOLEAN,
     type : TypedOperations \ {"OPENING_BALANCE"},
     account : UserAccounts, counterpart : UserAccounts \cup Categories,
     amount : Amounts, start : Days, next : Nat, end : Nat, interval : Nat \ {0}]

Created(r) == r.status # "absent"

Scheduled(r, d) == \E k \in Nat : d = Step(r.start, r.interval, k)

TemplatesSound(ts) ==
    /\ ts \in [TemplateIds -> TemplateRows]
    /\ \A t \in TemplateIds : /\ ts[t].archived => ts[t].status = "PAUSED"
                              /\ Created(ts[t]) => Scheduled(ts[t], ts[t].next)

DependenciesActive(r, accts) ==
    r.status = "ACTIVE" => IsActive(accts, r.account) /\ IsActive(accts, r.counterpart)

\* The occurrences are the dates of the schedule before the next one.
OccurredIn(j, ts) ==
    \A t \in TemplateIds, d \in Days :
        KeyUsed(j, OccurrenceKey(t, d))
            <=> Created(ts[t]) /\ Scheduled(ts[t], d) /\ d < ts[t].next

GInv ==
    /\ LedgerInv(RecurringKeys)
    /\ today \in Days
    /\ TemplatesSound(templates)
    /\ \A t \in TemplateIds : DependenciesActive(templates[t], accounts)
    /\ OccurredIn(journal, templates)

-----------------------------------------------------------------------------
(***************************************************************************)
(* Keys and rows.                                                          *)
(***************************************************************************)

\* A key that the worker derives is none of a handler's.
LEMMA OccurrenceKeys ==
    /\ AllKeys \subseteq RecurringKeys
    /\ \A t \in TemplateIds, d \in Days :
          OccurrenceKey(t, d) \in RecurringKeys /\ OccurrenceKey(t, d) \notin AllKeys
    /\ \A t, u, d, e : OccurrenceKey(t, d) = OccurrenceKey(u, e) => t = u /\ d = e
<1>1. \A t, u, d, e : OccurrenceKey(t, d) = OccurrenceKey(u, e) => t = u /\ d = e
    BY DEF OccurrenceKey
<1>2. \A t, d : OccurrenceKey(t, d) \notin {"setup", "fresh"} \X UserAccounts
    BY DEF OccurrenceKey
<1>3. \A t \in TemplateIds, d \in Days : OccurrenceKey(t, d) \notin Keys
    BY DerivedOccurrenceKeys DEF OccurrenceKey, TemplateIds, Days
<1> QED BY <1>1, <1>2, <1>3 DEF RecurringKeys, AllKeys

\* No handler of the ledger generates an occurrence.
LEMMA HandlersGenerateNothing ==
    ASSUME NEW C, HandlerEffect(C, RecurringKeys)
    PROVE  \A t \in TemplateIds, d \in Days :
               KeyUsed(journal', OccurrenceKey(t, d)) <=> KeyUsed(journal, OccurrenceKey(t, d))
<1> SUFFICES ASSUME NEW t \in TemplateIds, NEW d \in Days
             PROVE  KeyUsed(journal', OccurrenceKey(t, d))
                        <=> KeyUsed(journal, OccurrenceKey(t, d))
    OBVIOUS
<1> DEFINE key == OccurrenceKey(t, d)
           K == RecurringKeys
<1>1. AllKeys \subseteq K /\ key \notin AllKeys
    BY OccurrenceKeys
<1> HIDE DEF key, K
<1>2. /\ DOMAIN journal \subseteq DOMAIN journal'
      /\ \A i \in DOMAIN journal : journal'[i] = journal[i]
      /\ \A i \in DOMAIN journal' \ DOMAIN journal : journal'[i] \in LedgerPostings(accounts')
    BY <1>1, HandlerExtends DEF K
<1>3. \A x \in LedgerPostings(accounts') : x.key \in AllKeys
    BY DEF LedgerPostings, TransactionsWith
<1>4. \A i \in DOMAIN journal' \ DOMAIN journal : journal'[i].key # key
    BY <1>1, <1>2, <1>3
<1> QED BY <1>2, <1>4 DEF KeyUsed, key

\* The row of a template that was created.
LEMMA RowOfTemplate ==
    ASSUME NEW r \in TemplateRows, Created(r)
    PROVE  /\ r \in [status : {"ACTIVE", "PAUSED"}, archived : BOOLEAN,
                     type : TypedOperations \ {"OPENING_BALANCE"},
                     account : UserAccounts, counterpart : UserAccounts \cup Categories,
                     amount : Amounts, start : Days, next : Nat, end : Nat,
                     interval : Nat \ {0}]
           /\ r.status \in {"ACTIVE", "PAUSED"} /\ r.archived \in BOOLEAN
           /\ r.type \in TypedOperations \ {"OPENING_BALANCE"}
           /\ r.account \in UserAccounts /\ r.counterpart \in UserAccounts \cup Categories
           /\ r.amount \in Amounts /\ r.start \in Days /\ r.start \in Nat /\ r.next \in Nat
           /\ r.end \in Nat /\ r.interval \in Nat \ {0}
<1>1. r # NoTemplate
    BY DEF NoTemplate, Created
<1> QED BY <1>1 DEF TemplateRows, Days

\* Changes that leave the schedules of the created templates alone, and add
\* templates that have generated nothing.
LEMMA SchedulesKept ==
    ASSUME NEW us, us \in [TemplateIds -> TemplateRows],
           TemplatesSound(templates), OccurredIn(journal, templates),
           NEW j, \A t \in TemplateIds, d \in Days :
               KeyUsed(j, OccurrenceKey(t, d)) <=> KeyUsed(journal, OccurrenceKey(t, d)),
           \A t \in TemplateIds : us[t].archived => us[t].status = "PAUSED",
           \A t \in TemplateIds :
               \/ us[t] = templates[t]
               \/ /\ Created(templates[t]) /\ Created(us[t])
                  /\ us[t].start = templates[t].start /\ us[t].next = templates[t].next
                  /\ us[t].interval = templates[t].interval
               \/ /\ ~Created(templates[t]) /\ Created(us[t])
                  /\ us[t].next = us[t].start
    PROVE  TemplatesSound(us) /\ OccurredIn(j, us)
<1>1. ASSUME NEW t \in TemplateIds, Created(us[t])
      PROVE  Scheduled(us[t], us[t].next)
  <2>1. CASE us[t] = templates[t]
      BY <1>1, <2>1 DEF TemplatesSound
  <2>2. CASE /\ Created(templates[t]) /\ Created(us[t])
             /\ us[t].start = templates[t].start /\ us[t].next = templates[t].next
             /\ us[t].interval = templates[t].interval
      BY <2>2 DEF TemplatesSound, Scheduled
  <2>3. CASE ~Created(templates[t]) /\ Created(us[t]) /\ us[t].next = us[t].start
    <3>1. us[t].start \in Nat /\ us[t].interval \in Nat \ {0}
        BY <2>3, RowOfTemplate
    <3> DEFINE n == us[t].interval
    <3>2. n * 0 = 0
        BY <3>1
    <3>3. us[t].next = Step(us[t].start, n, 0)
        BY <2>3, <3>1, <3>2 DEF Step
    <3> QED BY <3>3 DEF Scheduled
  <2> QED BY <2>1, <2>2, <2>3
<1>2. ASSUME NEW t \in TemplateIds, NEW d \in Days
      PROVE  KeyUsed(j, OccurrenceKey(t, d))
                 <=> Created(us[t]) /\ Scheduled(us[t], d) /\ d < us[t].next
  <2> DEFINE used == KeyUsed(journal, OccurrenceKey(t, d))
  <2>1. used <=> Created(templates[t]) /\ Scheduled(templates[t], d) /\ d < templates[t].next
      BY DEF OccurredIn
  <2>2. KeyUsed(j, OccurrenceKey(t, d)) <=> used
      OBVIOUS
  <2> HIDE DEF used
  <2>3. CASE us[t] = templates[t]
      BY <2>1, <2>2, <2>3
  <2>4. CASE /\ Created(templates[t]) /\ Created(us[t])
             /\ us[t].start = templates[t].start /\ us[t].next = templates[t].next
             /\ us[t].interval = templates[t].interval
      BY <2>1, <2>2, <2>4 DEF Scheduled
  <2>5. CASE ~Created(templates[t]) /\ Created(us[t]) /\ us[t].next = us[t].start
    <3>1. us[t].start \in Nat /\ us[t].interval \in Nat \ {0}
        BY <2>5, RowOfTemplate
    <3>2. ASSUME NEW k \in Nat, d = Step(us[t].start, us[t].interval, k) PROVE ~(d < us[t].next)
      <4> DEFINE p == us[t].interval * k
      <4>1. p \in Nat /\ d = us[t].start + p
          BY <3>1, <3>2, Products DEF Step
      <4> HIDE DEF p
      <4> QED BY <2>5, <3>1, <4>1
    <3> QED BY <2>1, <2>2, <2>5, <3>2 DEF Scheduled
  <2> QED BY <2>3, <2>4, <2>5
<1> QED BY <1>1, <1>2 DEF TemplatesSound, OccurredIn

\* What a template needs to be active (validateRecurringDependencies).
LEMMA ValidIsActive ==
    ASSUME NEW accts, NEW currency, NEW op, ValidDependencies(accts, currency, op)
    PROVE  IsActive(accts, op.account) /\ IsActive(accts, op.counterpart)
BY DEF ValidDependencies, OperationLoads, LoadAccount, LoadCategory

\* A new template is a row.
LEMMA NewRow ==
    ASSUME NEW type \in TypedOperations \ {"OPENING_BALANCE"}, NEW a \in UserAccounts,
           NEW c \in UserAccounts \cup Categories, NEW amount \in Amounts, NEW start \in Days,
           NEW end \in Days \cup {NoEnd}, NEW n \in Intervals,
           NEW r, r = NewTemplate(type, a, c, amount, start, end, n)
    PROVE  /\ r \in TemplateRows /\ Created(r) /\ ~r.archived /\ r.next = r.start
           /\ r.account = a /\ r.counterpart = c
<1>1. start \in Nat /\ end \in Nat /\ n \in Nat \ {0} /\ FALSE \in BOOLEAN
    BY RecurringConstants DEF Days, NoEnd
<1>2. r = [status |-> "ACTIVE", archived |-> FALSE, type |-> type, account |-> a,
           counterpart |-> c, amount |-> amount, start |-> start, next |-> start,
           end |-> end, interval |-> n]
    BY DEF NewTemplate
<1>3. r \in TemplateRows
    BY <1>1, <1>2 DEF TemplateRows
<1> QED BY <1>2, <1>3 DEF Created
-----------------------------------------------------------------------------
(***************************************************************************)
(* The steps that generate nothing.                                        *)
(***************************************************************************)

LEMMA InitEstablishesGInv ==
    ASSUME RecurringInit
    PROVE  GInv
<1>1. LedgerInv(RecurringKeys)
    BY InitEstablishes DEF RecurringInit, LedgerInv
<1>2. today \in Days
    BY RecurringConstants DEF RecurringInit, Days
<1>3. /\ templates = [t \in TemplateIds |-> NoTemplate]
      /\ \A t \in TemplateIds : /\ ~Created(templates[t])
                                /\ templates[t].status = "absent"
                                /\ ~templates[t].archived
    BY DEF RecurringInit, NoTemplate, Created
<1>4. TemplatesSound(templates)
    BY <1>3 DEF TemplatesSound, TemplateRows
<1>5. \A key : ~KeyUsed(journal, key)
    BY DEF RecurringInit, Init, KeyUsed
<1>6. OccurredIn(journal, templates)
    BY <1>3, <1>5 DEF OccurredIn
<1>7. \A t \in TemplateIds : DependenciesActive(templates[t], accounts)
    BY <1>3 DEF DependenciesActive
<1> QED BY <1>1, <1>2, <1>4, <1>6, <1>7 DEF GInv

\* A row that is paused keeps everything else.
LEMMA Paused ==
    ASSUME NEW r \in TemplateRows, Created(r),
           NEW p, p = [r EXCEPT !.status = "PAUSED"]
    PROVE  /\ p \in TemplateRows /\ p.status = "PAUSED" /\ Created(p)
           /\ p.start = r.start /\ p.next = r.next /\ p.interval = r.interval
<1>1. /\ r \in [status : {"ACTIVE", "PAUSED"}, archived : BOOLEAN,
               type : TypedOperations \ {"OPENING_BALANCE"},
               account : UserAccounts, counterpart : UserAccounts \cup Categories,
               amount : Amounts, start : Days, next : Nat, end : Nat,
               interval : Nat \ {0}]
    BY RowOfTemplate
<1> QED BY <1>1 DEF TemplateRows, Created

\* The triggers pause every template that loses an account or a category.
LEMMA LedgerStepKeeps ==
    ASSUME GInv, LedgerStep
    PROVE  GInv'
<1> DEFINE K == RecurringKeys
           C == {functional'}
<1>1. LedgerInv(K) /\ AllKeys \subseteq K /\ Next
    BY OccurrenceKeys DEF GInv, LedgerStep
<1> HIDE DEF K
<1>2. LedgerInv(K)' /\ HandlerEffect(C, K)
    BY <1>1, NextKeepsLedger DEF C
<1> HIDE DEF C
<1>3. accounts' \in AccountRows /\ RowsKept(accounts, accounts')
    BY <1>2 DEF HandlerEffect
<1>4. ASSUME NEW t \in TemplateIds
      PROVE  /\ templates'[t] \in TemplateRows
             /\ templates'[t].archived => templates'[t].status = "PAUSED"
             /\ \/ templates'[t] = templates[t]
                \/ /\ Created(templates[t]) /\ Created(templates'[t])
                   /\ templates'[t].start = templates[t].start
                   /\ templates'[t].next = templates[t].next
                   /\ templates'[t].interval = templates[t].interval
             /\ DependenciesActive(templates'[t], accounts')
  <2> DEFINE r == templates[t]
             p == [r EXCEPT !.status = "PAUSED"]
             Pausing == /\ r.status = "ACTIVE" /\ ~r.archived
                        /\ \E a \in {r.account, r.counterpart} :
                              accounts[a].status # "archived" /\ accounts'[a].status = "archived"
  <2>1. /\ r \in TemplateRows /\ (r.archived => r.status = "PAUSED")
        /\ DependenciesActive(r, accounts)
      BY DEF GInv, TemplatesSound
  <2>2. templates'[t] = IF Pausing THEN p ELSE r
      BY DEF LedgerStep, PauseDependents
  <2>3. CASE Pausing
    <3>1. Created(r)
        BY <2>3 DEF Created
    <3>2. /\ p \in TemplateRows /\ p.status = "PAUSED" /\ Created(p)
          /\ p.start = r.start /\ p.next = r.next /\ p.interval = r.interval
        BY <2>1, <3>1, Paused
    <3> HIDE DEF p
    <3> QED BY <2>2, <2>3, <3>1, <3>2 DEF DependenciesActive
  <2>4. CASE ~Pausing
    <3>1. templates'[t] = r
        BY <2>2, <2>4
    <3>2. ASSUME r.status = "ACTIVE"
          PROVE  IsActive(accounts', r.account) /\ IsActive(accounts', r.counterpart)
      <4>1. IsActive(accounts, r.account) /\ IsActive(accounts, r.counterpart)
          BY <2>1, <3>2 DEF DependenciesActive
      <4>2. ~r.archived
          BY <2>1, <3>2
      <4>3. r.account \in LedgerAccounts /\ r.counterpart \in LedgerAccounts
        <5>1. Created(r)
            BY <3>2 DEF Created
        <5>2. r.account \in UserAccounts /\ r.counterpart \in UserAccounts \cup Categories
            BY <2>1, <5>1, RowOfTemplate
        <5> QED BY <5>2 DEF LedgerAccounts
      <4>4. ASSUME NEW a \in {r.account, r.counterpart} PROVE IsActive(accounts', a)
        <5>1. accounts[a].status = "active" /\ a \in LedgerAccounts
            BY <4>1, <4>3 DEF IsActive
        <5>2. accounts'[a].status # "archived"
            BY <2>4, <3>2, <4>2, <5>1
        <5>3. accounts'[a].status # "absent"
            BY <1>3, <5>1 DEF RowsKept
        <5>4. accounts'[a] \in Rows
            BY <1>3, <5>1 DEF AccountRows
        <5> QED BY <5>2, <5>3, <5>4 DEF Rows, Absent, IsActive
      <4> QED BY <4>4
    <3> HIDE DEF r
    <3> QED BY <2>1, <3>1, <3>2 DEF DependenciesActive, r
  <2> QED BY <2>3, <2>4
<1>5. DOMAIN templates' = TemplateIds /\ templates' = [t \in TemplateIds |-> templates'[t]]
    BY DEF LedgerStep, PauseDependents
<1>6. templates' \in [TemplateIds -> TemplateRows]
    BY <1>4, <1>5
<1>7. \A t \in TemplateIds, d \in Days :
          KeyUsed(journal', OccurrenceKey(t, d)) <=> KeyUsed(journal, OccurrenceKey(t, d))
    BY <1>2, HandlersGenerateNothing DEF K
<1>8. TemplatesSound(templates') /\ OccurredIn(journal', templates')
    BY <1>4, <1>6, <1>7, SchedulesKept DEF GInv
<1>9. today' \in Days
    BY DEF GInv, LedgerStep
<1> QED BY <1>2, <1>4, <1>8, <1>9 DEF GInv, K

\* A template is put in whose account and counterpart are active.
LEMMA TemplatePut ==
    ASSUME TemplatesSound(templates), OccurredIn(journal, templates),
           \A u \in TemplateIds : DependenciesActive(templates[u], accounts),
           \A t \in TemplateIds, d \in Days :
               KeyUsed(journal', OccurrenceKey(t, d)) <=> KeyUsed(journal, OccurrenceKey(t, d)),
           \A a \in LedgerAccounts : IsActive(accounts, a) => IsActive(accounts', a),
           NEW t \in TemplateIds, NEW r \in TemplateRows, Created(r),
           r.archived => r.status = "PAUSED",
           DependenciesActive(r, accounts'),
           \/ /\ Created(templates[t]) /\ r.start = templates[t].start
              /\ r.next = templates[t].next /\ r.interval = templates[t].interval
           \/ ~Created(templates[t]) /\ r.next = r.start,
           templates' = [templates EXCEPT ![t] = r]
    PROVE  /\ TemplatesSound(templates') /\ OccurredIn(journal', templates')
           /\ \A u \in TemplateIds : DependenciesActive(templates'[u], accounts')
<1>1. templates \in [TemplateIds -> TemplateRows]
    BY DEF TemplatesSound
<1>2. /\ templates' \in [TemplateIds -> TemplateRows]
      /\ templates'[t] = r
      /\ \A u \in TemplateIds : u # t => templates'[u] = templates[u]
    BY <1>1
<1>3. \A u \in TemplateIds : templates[u].archived => templates[u].status = "PAUSED"
    BY DEF TemplatesSound
<1>4. \A u \in TemplateIds : templates'[u].archived => templates'[u].status = "PAUSED"
    BY <1>2, <1>3
<1>5. \A u \in TemplateIds :
               \/ templates'[u] = templates[u]
               \/ /\ Created(templates[u]) /\ Created(templates'[u])
                  /\ templates'[u].start = templates[u].start
                  /\ templates'[u].next = templates[u].next
                  /\ templates'[u].interval = templates[u].interval
               \/ /\ ~Created(templates[u]) /\ Created(templates'[u])
                  /\ templates'[u].next = templates'[u].start
    BY <1>2
<1>6. TemplatesSound(templates') /\ OccurredIn(journal', templates')
    BY <1>2, <1>4, <1>5, SchedulesKept
<1>7. ASSUME NEW u \in TemplateIds PROVE DependenciesActive(templates'[u], accounts')
  <2>1. CASE u = t
      BY <1>2, <2>1
  <2>2. CASE u # t
    <3> DEFINE q == templates[u]
    <3>1. templates'[u] = q /\ q \in TemplateRows /\ DependenciesActive(q, accounts)
        BY <1>1, <1>2, <2>2
    <3>2. ASSUME q.status = "ACTIVE"
          PROVE  q.account \in LedgerAccounts /\ q.counterpart \in LedgerAccounts
      <4>1. q.account \in UserAccounts /\ q.counterpart \in UserAccounts \cup Categories
        <5>1. Created(q)
            BY <3>2 DEF Created
        <5> HIDE DEF q
        <5> QED BY <3>1, <5>1, RowOfTemplate
      <4> QED BY <4>1 DEF LedgerAccounts
    <3> HIDE DEF q
    <3> QED BY <3>1, <3>2 DEF DependenciesActive
  <2> QED BY <2>1, <2>2
<1> QED BY <1>6, <1>7

\* A template of the onboarding depends on the account that is opened with it.
LEMMA OnboardKeeps ==
    ASSUME GInv, NEW t \in TemplateIds, NEW currency \in Currencies, NEW a \in UserAccounts,
           NEW opening \in OpeningAmounts, NEW amount \in Amounts, NEW start \in Days,
           NEW n \in Intervals,
           OnboardWithIncome(t, currency, a, opening, amount, start, n)
    PROVE  GInv'
<1> DEFINE K == RecurringKeys
           C == {functional'}
           key == <<"setup", a>>
<1>1. /\ LedgerInv(K) /\ AllKeys \subseteq K /\ key \in AllKeys
      /\ CompleteOnboarding(currency, a, "ASSET", currency, opening, today)
    BY OccurrenceKeys DEF GInv, OnboardWithIncome, AllKeys
<1>2. /\ functional' = currency
      /\ currency # functional => journal = <<>>
    BY <1>1 DEF CompleteOnboarding
<1>3. PICK base \in EnsureLedgerInfrastructure(accounts, currency) :
          OpenAccount(base, a, "ASSET", currency, opening, today, key, currency)
    BY <1>1 DEF CompleteOnboarding
<1>4. currency \in C /\ today \in Nat /\ accounts \in AccountRows
    BY <1>1, <1>2 DEF GInv, Days, LedgerInv
<1> HIDE DEF K, key
<1>5. JournalOK(journal, accounts, C, K)
    BY <1>1, <1>2, JournalInNewCurrency DEF LedgerInv
<1> HIDE DEF C
<1>6. /\ HandlerEffect(C, K)
      /\ \A b \in LedgerAccounts : accounts[b].status # "absent" => accounts'[b] = accounts[b]
    BY <1>1, <1>3, <1>4, <1>5, OpenAccountEffect
<1>7. LedgerInv(K)'
  <2>1. JournalOK(journal', accounts', C, K)
      BY <1>1, <1>6, HandlerKeepsJournal
  <2> QED BY <1>2, <1>6, <2>1 DEF LedgerInv, HandlerEffect, C
<1>8. IsActive(accounts', a)
  <2>1. accounts' = With(base, a, Row("ASSET", currency)) /\ base \in AccountRows
      BY <1>3, <1>4, InfrastructureOnlyAdds DEF OpenAccount, With
  <2>2. accounts'[a] = Row("ASSET", currency)
      BY <2>1 DEF With, AccountRows, LedgerAccounts
  <2> QED BY <2>2 DEF IsActive, Row
<1>9. PICK c \in Categories :
          /\ IsActive(accounts', c)
          /\ templates' = [templates EXCEPT ![t] =
                 NewTemplate("INCOME", a, c, amount, start, NoEnd, n)]
    BY DEF OnboardWithIncome
<1> DEFINE r == NewTemplate("INCOME", a, c, amount, start, NoEnd, n)
<1>10. /\ r \in TemplateRows /\ Created(r) /\ ~r.archived /\ r.next = r.start
       /\ r.account = a /\ r.counterpart = c
  <2> DEFINE type == "INCOME"
             other == c
             end == NoEnd
  <2>1. /\ type \in TypedOperations \ {"OPENING_BALANCE"}
        /\ other \in UserAccounts \cup Categories /\ end \in Days \cup {NoEnd}
      BY DEF TypedOperations
  <2>2. r = NewTemplate(type, a, other, amount, start, end, n)
      OBVIOUS
  <2> HIDE DEF type, other, end, r
  <2> QED BY <2>1, <2>2, NewRow DEF other
<1>11. DependenciesActive(r, accounts')
  <2> HIDE DEF r
  <2> QED BY <1>8, <1>9, <1>10 DEF DependenciesActive
<1>12. \A u \in TemplateIds, d \in Days :
          KeyUsed(journal', OccurrenceKey(u, d)) <=> KeyUsed(journal, OccurrenceKey(u, d))
    BY <1>6, HandlersGenerateNothing DEF K
<1>13. \A b \in LedgerAccounts : IsActive(accounts, b) => IsActive(accounts', b)
    BY <1>6 DEF IsActive
<1>14. ~Created(templates[t]) /\ templates' = [templates EXCEPT ![t] = r]
    BY <1>9 DEF OnboardWithIncome, Created
<1> HIDE DEF r
<1>15. /\ TemplatesSound(templates') /\ OccurredIn(journal', templates')
       /\ \A u \in TemplateIds : DependenciesActive(templates'[u], accounts')
    BY <1>10, <1>11, <1>12, <1>13, <1>14, TemplatePut DEF GInv
<1>16. today' \in Days
    BY DEF GInv, OnboardWithIncome
<1> QED BY <1>7, <1>15, <1>16 DEF GInv, K

LEMMA CreateTemplateKeeps ==
    ASSUME GInv, NEW t \in TemplateIds, NEW op \in RecurringOperations, NEW start \in Days,
           NEW end \in Days \cup {NoEnd}, NEW n \in Intervals,
           CreateRecurringTemplate(t, op, start, end, n)
    PROVE  GInv'
<1> DEFINE K == RecurringKeys
           r == NewTemplate(op.type, op.account, op.counterpart, op.amount, start, end, n)
<1>1. accounts \in AccountRows /\ functional \in Currencies /\ LedgerInv(K)
    BY DEF GInv, LedgerInv
<1>2. /\ accounts' \in EnsureLedgerInfrastructure(accounts, functional)
      /\ ValidDependencies(accounts', functional, op)
      /\ ~Created(templates[t]) /\ templates' = [templates EXCEPT ![t] = r]
      /\ UNCHANGED <<functional, journal, today>>
    BY DEF CreateRecurringTemplate, Created
<1>3. /\ accounts' \in AccountRows
      /\ \A b \in LedgerAccounts : accounts[b].status # "absent" => accounts'[b] = accounts[b]
    BY <1>1, <1>2, InfrastructureOnlyAdds
<1> HIDE DEF K
<1>4. LedgerInv(K)'
  <2> DEFINE C == {functional}
  <2>1. JournalOK(journal, accounts, C, K)
      BY <1>1 DEF LedgerInv
  <2>2. \A b \in LedgerAccounts : accounts[b].status # "absent" =>
            /\ accounts'[b].status # "absent"
            /\ accounts'[b].currency = accounts[b].currency
      BY <1>3
  <2> HIDE DEF C
  <2>3. JournalOK(journal, accounts', C, K)
      BY <2>1, <2>2, RowsAreAdded
  <2> QED BY <1>1, <1>2, <1>3, <2>3 DEF LedgerInv, C
<1>5. /\ r \in TemplateRows /\ Created(r) /\ ~r.archived /\ r.next = r.start
      /\ r.account = op.account /\ r.counterpart = op.counterpart
  <2> DEFINE type == op.type
             a == op.account
             c == op.counterpart
             amount == op.amount
             until == end
  <2>1. /\ type \in TypedOperations \ {"OPENING_BALANCE"} /\ a \in UserAccounts
        /\ c \in UserAccounts \cup Categories /\ amount \in Amounts
        /\ until \in Days \cup {NoEnd}
      BY RecurringConstants DEF RecurringOperations
  <2>2. r = NewTemplate(type, a, c, amount, start, until, n)
      OBVIOUS
  <2> HIDE DEF type, a, c, amount, until, r
  <2>3. /\ r \in TemplateRows /\ Created(r) /\ ~r.archived /\ r.next = r.start
        /\ r.account = a /\ r.counterpart = c
      BY <2>1, <2>2, NewRow
  <2> QED BY <2>3 DEF a, c
<1> HIDE DEF r
<1>6. DependenciesActive(r, accounts')
    BY <1>2, <1>5, ValidIsActive DEF DependenciesActive
<1>7. \A u \in TemplateIds, d \in Days :
          KeyUsed(journal', OccurrenceKey(u, d)) <=> KeyUsed(journal, OccurrenceKey(u, d))
    BY <1>2
<1>8. \A b \in LedgerAccounts : IsActive(accounts, b) => IsActive(accounts', b)
    BY <1>3 DEF IsActive
<1>9. /\ TemplatesSound(templates') /\ OccurredIn(journal', templates')
      /\ \A u \in TemplateIds : DependenciesActive(templates'[u], accounts')
    BY <1>2, <1>5, <1>6, <1>7, <1>8, TemplatePut DEF GInv
<1> QED BY <1>2, <1>4, <1>9 DEF GInv, K

LEMMA UpdateTemplateKeeps ==
    ASSUME GInv, NEW t \in TemplateIds, NEW amount \in Amounts, NEW end \in Days \cup {NoEnd},
           NEW status \in {"keep", "ACTIVE", "PAUSED"}, NEW archived \in {"keep", "yes", "no"},
           UpdateRecurringTemplate(t, amount, end, status, archived)
    PROVE  GInv'
<1> DEFINE q == templates[t]
           archives == archived = "yes"
           stays == q.archived /\ archived # "no"
           r == Edited(q, amount, end, status, archives, stays)
<1>1. /\ Created(q)
      /\ status = "ACTIVE" => ~archives /\ ~stays /\ ValidDependencies(accounts, functional, q)
      /\ templates' = [templates EXCEPT ![t] = r]
      /\ UNCHANGED <<functional, onboarded, accounts, journal, today>>
    BY DEF UpdateRecurringTemplate, Created, ledgerVars, GInv, TemplatesSound
<1>2. /\ q \in TemplateRows /\ (q.archived => q.status = "PAUSED")
      /\ DependenciesActive(q, accounts)
    BY DEF GInv, TemplatesSound
<1>3. /\ q \in [status : {"ACTIVE", "PAUSED"}, archived : BOOLEAN,
               type : TypedOperations \ {"OPENING_BALANCE"},
               account : UserAccounts, counterpart : UserAccounts \cup Categories,
               amount : Amounts, start : Days, next : Nat, end : Nat,
               interval : Nat \ {0}]
      /\ q.end \in Nat /\ q.archived \in BOOLEAN
    BY <1>1, <1>2, RowOfTemplate
<1> DEFINE flag == archives \/ stays
           e == IF end = NoEnd THEN q.end ELSE end
           s == IF archives THEN "PAUSED" ELSE IF status = "keep" THEN q.status ELSE status
<1>4. e \in Nat /\ flag \in BOOLEAN
    BY <1>3 DEF Days
<1>5. /\ s \in {"ACTIVE", "PAUSED"} /\ (flag => s = "PAUSED")
      /\ s = "ACTIVE" => \/ q.status = "ACTIVE"
                         \/ ValidDependencies(accounts, functional, q)
    BY <1>1, <1>2, <1>3
<1>6. r = [q EXCEPT !.amount = amount, !.end = e, !.status = s, !.archived = flag]
    BY DEF Edited
<1> HIDE DEF q, e, flag, s, r
<1>7. /\ r \in TemplateRows /\ r.status = s /\ r.archived = flag
      /\ r.account = q.account /\ r.counterpart = q.counterpart
      /\ r.start = q.start /\ r.next = q.next /\ r.interval = q.interval
    BY <1>3, <1>4, <1>5, <1>6 DEF TemplateRows
<1>8. Created(r) /\ (r.archived => r.status = "PAUSED")
    BY <1>5, <1>7 DEF Created
<1>9. DependenciesActive(r, accounts')
    BY <1>1, <1>2, <1>5, <1>7, ValidIsActive DEF DependenciesActive
<1>10. /\ TemplatesSound(templates') /\ OccurredIn(journal', templates')
       /\ \A u \in TemplateIds : DependenciesActive(templates'[u], accounts')
  <2>1. \A u \in TemplateIds, d \in Days :
            KeyUsed(journal', OccurrenceKey(u, d)) <=> KeyUsed(journal, OccurrenceKey(u, d))
      BY <1>1
  <2>2. \A b \in LedgerAccounts : IsActive(accounts, b) => IsActive(accounts', b)
      BY <1>1
  <2> QED BY <1>1, <1>7, <1>8, <1>9, <2>1, <2>2, TemplatePut DEF GInv, q
<1>11. LedgerInv(RecurringKeys)' /\ today' \in Days
    BY <1>1 DEF GInv, LedgerInv
<1> QED BY <1>10, <1>11 DEF GInv

LEMMA DayKeeps ==
    ASSUME GInv, DayPasses
    PROVE  GInv'
<1>1. today' \in Days
    BY RecurringConstants DEF GInv, DayPasses, Days
<1>2. UNCHANGED <<functional, accounts, journal, templates>>
    BY DEF DayPasses, ledgerVars
<1>3. LedgerInv(RecurringKeys)'
    BY <1>2 DEF GInv, LedgerInv
<1> QED BY <1>1, <1>2, <1>3 DEF GInv
-----------------------------------------------------------------------------
(***************************************************************************)
(* What is owed, and the batch.                                            *)
(***************************************************************************)
Occurs(t, d) == [template |-> t, date |-> d]

\* What the claimed templates owe are dates of their schedules.
LEMMA OwedDates ==
    ASSUME NEW held, TemplatesSound(templates), today \in Days
    PROVE  /\ \A o \in Owed(held) : /\ o = Occurs(o.template, o.date)
                              /\ o.template \in TemplateIds /\ o.date \in Days
           /\ \A t \in TemplateIds, d \in Days : Occurs(t, d) \in Owed(held) <=>
                 /\ t \in Claimed(held) /\ d <= today /\ ~PastEnd(templates[t], d)
                 /\ \E k \in Nat : d = Step(templates[t].next, templates[t].interval, k)
<1>1. ASSUME NEW o \in Owed(held)
      PROVE  o = Occurs(o.template, o.date) /\ o.template \in TemplateIds /\ o.date \in Days
    BY DEF Owed, Claimed, Claimable, Occurs
<1>2. ASSUME NEW t \in TemplateIds, NEW d \in Days
      PROVE  Occurs(t, d) \in Owed(held) <=>
                 /\ t \in Claimed(held) /\ d <= today /\ ~PastEnd(templates[t], d)
                 /\ \E k \in Nat : d = Step(templates[t].next, templates[t].interval, k)
  <2> DEFINE o == Occurs(t, d)
             x == templates[t].next
             n == templates[t].interval
  <2>1. o.template = t /\ o.date = d
      BY DEF Occurs
  <2>2. o \in Owed(held) <=> /\ t \in Claimed(held) /\ d \in x .. today /\ (d - x) % n = 0
                       /\ ~PastEnd(templates[t], d)
      BY <2>1 DEF Owed, Occurs
  <2>3. today \in Nat /\ d \in Nat
      BY DEF Days
  <2>4. CASE t \in Claimed(held)
    <3>1. Created(templates[t]) /\ templates[t] \in TemplateRows
        BY <2>4 DEF Claimed, Claimable, IsDue, Created, TemplatesSound
    <3>2. x \in Nat /\ n \in Nat \ {0}
        BY <3>1, RowOfTemplate
    <3> HIDE DEF o, x, n
    <3>3. CASE x <= d
      <4>1. (d - x) % n = 0 <=> \E k \in Nat : d = Step(x, n, k)
          BY <2>3, <3>2, <3>3, OnStep
      <4>2. d \in x .. today <=> d <= today
          BY <2>3, <3>2, <3>3
      <4> QED BY <2>2, <4>1, <4>2 DEF o, x, n
    <3>4. CASE ~(x <= d)
      <4>1. d \notin x .. today
          BY <3>4
      <4>2. ASSUME NEW k \in Nat PROVE d # Step(x, n, k)
        <5> DEFINE p == n * k
        <5>1. p \in Nat
            BY <3>2, Products
        <5> HIDE DEF p
        <5>2. d # x + p
            BY <2>3, <3>2, <3>4, <5>1
        <5> QED BY <5>2 DEF Step, p
      <4> QED BY <2>2, <4>1, <4>2 DEF o, x, n
    <3> QED BY <3>3, <3>4
  <2>5. CASE t \notin Claimed(held)
    <3> HIDE DEF o
    <3> QED BY <2>2, <2>5 DEF o
  <2> QED BY <2>4, <2>5
<1> QED BY <1>1, <1>2

\* Occurrences are generated in the order of their templates and dates.
Predecessors(held) == [o \in Owed(held) |-> OwedBefore(held, o)]

LEMMA ClaimedDue ==
    ASSUME TemplatesSound(templates), NEW held, NEW t \in Claimed(held)
    PROVE  /\ t \in TemplateIds /\ t \in Nat /\ IsDue(t) /\ Created(templates[t])
           /\ templates[t] \in TemplateRows /\ templates[t].next \in Nat
<1>1. t \in TemplateIds /\ IsDue(t)
    BY DEF Claimed, Claimable
<1>2. Created(templates[t]) /\ templates[t] \in TemplateRows
    BY <1>1 DEF IsDue, Created, TemplatesSound
<1>3. templates[t].next \in Nat
    BY <1>2, RowOfTemplate
<1>4. t \in Nat
    BY <1>1, RecurringConstants DEF TemplateIds
<1> QED BY <1>1, <1>2, <1>3, <1>4

LEMMA PrecedesOrders ==
    ASSUME TemplatesSound(templates), NEW held, NEW t \in Claimed(held), NEW u \in Claimed(held)
    PROVE  /\ ~Precedes(t, t)
           /\ Precedes(t, u) => ~Precedes(u, t)
           /\ t # u => Precedes(t, u) \/ Precedes(u, t)
           /\ \A w \in Claimed(held) : Precedes(t, u) /\ Precedes(u, w) => Precedes(t, w)
<1>1. ASSUME NEW w \in Claimed(held) PROVE w \in Nat /\ templates[w].next \in Nat
    BY ClaimedDue
<1> QED BY <1>1 DEF Precedes

LEMMA OwedOrdered ==
    ASSUME NEW held, TemplatesSound(templates), today \in Days
    PROVE  /\ IsFiniteSet(Owed(held))
           /\ \A o \in Owed(held) : /\ Predecessors(held)[o] \subseteq Owed(held)
                                    /\ o \notin Predecessors(held)[o]
           /\ \A o, p \in Owed(held) : o # p =>
                 o \in Predecessors(held)[p] \/ p \in Predecessors(held)[o]
           /\ \A o, p \in Owed(held) : o \in Predecessors(held)[p] =>
                 Predecessors(held)[o] \subseteq Predecessors(held)[p]
<1>1. ASSUME NEW o \in Owed(held)
      PROVE  /\ o.template \in Claimed(held) /\ o.date \in Nat /\ o.template \in TemplateIds
             /\ o.date \in Days /\ o = Occurs(o.template, o.date)
  <2>1. o.template \in TemplateIds /\ o.date \in Days /\ o = Occurs(o.template, o.date)
      BY OwedDates
  <2> QED BY <2>1 DEF Owed, Days
<1>2. ASSUME NEW o \in Owed(held), NEW p \in Owed(held)
      PROVE  o \in Predecessors(held)[p] <=>
                 \/ Precedes(o.template, p.template)
                 \/ o.template = p.template /\ o.date < p.date
    BY DEF Predecessors, OwedBefore
<1>3. \A o \in Owed(held) : Predecessors(held)[o] \subseteq Owed(held)
    BY DEF Predecessors, OwedBefore
<1>4. ASSUME NEW o \in Owed(held) PROVE o \notin Predecessors(held)[o]
    BY <1>1, <1>2, PrecedesOrders
<1>5. ASSUME NEW o \in Owed(held), NEW p \in Owed(held), o # p
      PROVE  o \in Predecessors(held)[p] \/ p \in Predecessors(held)[o]
  <2>1. o.template # p.template \/ o.date # p.date
      BY <1>1, <1>5
  <2>2. o.template # p.template =>
            Precedes(o.template, p.template) \/ Precedes(p.template, o.template)
      BY <1>1, PrecedesOrders
  <2>3. o.date # p.date => o.date < p.date \/ p.date < o.date
      BY <1>1
  <2> QED BY <1>2, <2>1, <2>2, <2>3
<1>6. ASSUME NEW o \in Owed(held), NEW p \in Owed(held), o \in Predecessors(held)[p],
             NEW q \in Predecessors(held)[o]
      PROVE  q \in Predecessors(held)[p]
  <2>1. q \in Owed(held)
      BY <1>3
  <2>2. /\ q.template \in Claimed(held) /\ q.date \in Nat
        /\ o.template \in Claimed(held) /\ o.date \in Nat
        /\ p.template \in Claimed(held) /\ p.date \in Nat
      BY <1>1, <2>1
  <2>3. /\ \/ Precedes(o.template, p.template)
           \/ o.template = p.template /\ o.date < p.date
        /\ \/ Precedes(q.template, o.template)
           \/ q.template = o.template /\ q.date < o.date
      BY <1>2, <1>6, <2>1
  <2>4. Precedes(q.template, o.template) /\ Precedes(o.template, p.template)
            => Precedes(q.template, p.template)
      BY <2>2, PrecedesOrders
  <2>5. q.date < o.date /\ o.date < p.date => q.date < p.date
      BY <2>2
  <2> QED BY <1>2, <2>1, <2>3, <2>4, <2>5
<1>7. IsFiniteSet(Owed(held))
  <2> DEFINE P == TemplateIds \X Days
             f == [o \in Owed(held) |-> <<o.template, o.date>>]
  <2>1. IsFiniteSet(TemplateIds) /\ IsFiniteSet(Days)
      BY RecurringConstants, FS_Interval DEF TemplateIds, Days
  <2>2. IsFiniteSet(P)
      BY <2>1, FS_Product
  <2>3. f \in Injection(Owed(held), P)
      BY <1>1 DEF Injection, IsInjective
  <2> QED BY <2>2, <2>3, FS_Injection
<1> QED BY <1>3, <1>4, <1>5, <1>6, <1>7

Rank(held, o) == Cardinality(OwedBefore(held, o))

\* The batch is the first BatchSize occurrences that are owed.
LEMMA BatchIsFirst ==
    ASSUME NEW held, TemplatesSound(templates), today \in Days
    PROVE  \E size \in Nat :
               /\ DOMAIN Batch(held) = 1 .. size
               /\ size <= BatchSize
               /\ \A n \in 1 .. size : Batch(held)[n] \in Owed(held)
               /\ \A n, m \in 1 .. size : Batch(held)[n] = Batch(held)[m] => n = m
               /\ \A o \in Owed(held) : Rank(held, o) < size =>
                     \E n \in 1 .. size : Batch(held)[n] = o
               /\ \A n \in 1 .. size : \A o \in Owed(held) :
                     o \in OwedBefore(held, Batch(held)[n]) =>
                         \E m \in 1 .. size : Batch(held)[m] = o
               /\ \A n \in 1 .. size : Rank(held, Batch(held)[n]) < BatchSize
<1> DEFINE total == Cardinality(Owed(held))
           bounds == {BatchSize, total}
           size == Min(bounds)
           N == 0 .. total - 1
<1>1. /\ \A o \in Owed(held) : Rank(held, o) \in N
      /\ \A o, p \in Owed(held) : o \in OwedBefore(held, p) => Rank(held, o) < Rank(held, p)
      /\ \A o, p \in Owed(held) : Rank(held, o) = Rank(held, p) => o = p
      /\ \A n \in N : \E o \in Owed(held) : Rank(held, o) = n
  <2> DEFINE B == Predecessors(held)
  <2>1. \A o \in Owed(held) : B[o] = OwedBefore(held, o)
      BY DEF Predecessors
  <2>2. /\ IsFiniteSet(Owed(held))
        /\ \A o \in Owed(held) : B[o] \subseteq Owed(held) /\ o \notin B[o]
        /\ \A o, p \in Owed(held) : o # p => o \in B[p] \/ p \in B[o]
        /\ \A o, p \in Owed(held) : o \in B[p] => B[o] \subseteq B[p]
      BY OwedOrdered
  <2> HIDE DEF B
  <2>3. /\ \A o \in Owed(held) : Cardinality(B[o]) \in N
        /\ \A o, p \in Owed(held) : o \in B[p] => Cardinality(B[o]) < Cardinality(B[p])
        /\ \A o, p \in Owed(held) : Cardinality(B[o]) = Cardinality(B[p]) => o = p
        /\ \A n \in N : \E o \in Owed(held) : Cardinality(B[o]) = n
    <3> DEFINE S == Owed(held)
    <3> HIDE DEF S
    <3> QED BY <2>2, Ranks DEF S
  <2> HIDE DEF N
  <2> QED BY <2>1, <2>3 DEF Rank
<1>2. total \in Nat
    BY OwedOrdered, FS_CardinalityType
<1>3. /\ size \in Nat /\ size <= BatchSize /\ size <= total
  <2> DEFINE a == BatchSize
             b == total
  <2>1. a \in Nat /\ b \in Nat
      BY <1>2, RecurringConstants
  <2> HIDE DEF a, b
  <2>2. \E x \in {a, b} : \A y \in {a, b} : x =< y
      BY <2>1
  <2>3. Min({a, b}) \in {a, b} /\ \A y \in {a, b} : Min({a, b}) =< y
      BY <2>2 DEF Min
  <2>4. Min({a, b}) \in Nat /\ Min({a, b}) <= a /\ Min({a, b}) <= b
      BY <2>1, <2>3
  <2> QED BY <2>4 DEF a, b
<1>4. Batch(held) = [n \in 1 .. size |-> CHOOSE o \in Owed(held) : Rank(held, o) = n - 1]
    BY DEF Batch, Rank
<1> HIDE DEF size, total
<1>5. ASSUME NEW n \in 1 .. size
      PROVE  Batch(held)[n] \in Owed(held) /\ Rank(held, Batch(held)[n]) = n - 1
  <2>1. n - 1 \in N
      BY <1>2, <1>3
  <2>2. \E o \in Owed(held) : Rank(held, o) = n - 1
      BY <1>1, <2>1
  <2>3. Batch(held)[n] = CHOOSE o \in Owed(held) : Rank(held, o) = n - 1
      BY <1>4
  <2> QED BY <2>2, <2>3
<1>6. DOMAIN Batch(held) = 1 .. size
    BY <1>4
<1>7. ASSUME NEW n \in 1 .. size, NEW m \in 1 .. size, Batch(held)[n] = Batch(held)[m] PROVE n = m
  <2>1. n - 1 = m - 1
      BY <1>5, <1>7
  <2> QED BY <2>1
<1>8. ASSUME NEW o \in Owed(held), Rank(held, o) < size
      PROVE  \E n \in 1 .. size : Batch(held)[n] = o
  <2> DEFINE r == Rank(held, o)
  <2>1. r \in Nat /\ r < size
      BY <1>1, <1>2, <1>8
  <2>2. r + 1 \in 1 .. size /\ (r + 1) - 1 = r
      BY <1>3, <2>1
  <2>3. Rank(held, Batch(held)[r + 1]) = r /\ Batch(held)[r + 1] \in Owed(held)
      BY <1>5, <2>2
  <2>4. Batch(held)[r + 1] = o
      BY <1>1, <2>3
  <2> QED BY <2>2, <2>4
<1>9. ASSUME NEW n \in 1 .. size, NEW o \in Owed(held), o \in OwedBefore(held, Batch(held)[n])
      PROVE  \E m \in 1 .. size : Batch(held)[m] = o
  <2>1. Batch(held)[n] \in Owed(held) /\ Rank(held, Batch(held)[n]) = n - 1
      BY <1>5
  <2>2. Rank(held, o) < n - 1 /\ Rank(held, o) \in N
      BY <1>1, <1>9, <2>1
  <2>3. Rank(held, o) < size
      BY <1>2, <1>3, <2>2
  <2> QED BY <1>8, <2>3
<1>10. ASSUME NEW n \in 1 .. size PROVE Rank(held, Batch(held)[n]) < BatchSize
  <2>1. Rank(held, Batch(held)[n]) = n - 1
      BY <1>5
  <2>2. n - 1 < BatchSize
      BY <1>3, RecurringConstants
  <2> QED BY <2>1, <2>2
<1> QED BY <1>3, <1>5, <1>6, <1>7, <1>8, <1>9, <1>10
-----------------------------------------------------------------------------
(***************************************************************************)
(* What the batch has of one template.                                     *)
(***************************************************************************)

Generated(held, t) == {n \in DOMAIN Batch(held) : Batch(held)[n].template = t}

Count(held, t) == Cardinality(Generated(held, t))

\* A template's part of the batch is the next dates of its schedule, without a
\* gap, and nothing when the walk does not reach it.
LEMMA BatchDates ==
    ASSUME NEW held, TemplatesSound(templates), today \in Days, NEW t \in TemplateIds,
           Created(templates[t])
    PROVE  /\ Count(held, t) \in Nat
           /\ ~Reached(held, t) => Count(held, t) = 0
           /\ \A d \in Days : (\E n \in DOMAIN Batch(held) : Batch(held)[n] = Occurs(t, d))
                 <=> \E k \in Nat : /\ k < Count(held, t)
                                    /\ d = Step(templates[t].next, templates[t].interval, k)
           /\ \A k \in Nat : k < Count(held, t) =>
                 Step(templates[t].next, templates[t].interval, k) \in Days
<1> DEFINE x == templates[t].next
           n == templates[t].interval
           InBatch(o) == \E i \in DOMAIN Batch(held) : Batch(held)[i] = o
           date(k) == Step(x, n, k)
           Ks == {k \in Nat : date(k) \in Days /\ InBatch(Occurs(t, date(k)))}
           I == Generated(held, t)
<1>1. x \in Nat /\ n \in Nat \ {0}
    BY RowOfTemplate DEF TemplatesSound
<1>2. PICK size \in Nat :
               /\ DOMAIN Batch(held) = 1 .. size
               /\ size <= BatchSize
               /\ \A i \in 1 .. size : Batch(held)[i] \in Owed(held)
               /\ \A i, m \in 1 .. size : Batch(held)[i] = Batch(held)[m] => i = m
               /\ \A i \in 1 .. size : \A o \in Owed(held) :
                     o \in OwedBefore(held, Batch(held)[i]) =>
                         \E m \in 1 .. size : Batch(held)[m] = o
               /\ \A i \in 1 .. size : Rank(held, Batch(held)[i]) < BatchSize
    BY BatchIsFirst
<1>3. \A o : InBatch(o) => o \in Owed(held)
    BY <1>2
<1>4. /\ \A o \in Owed(held) : /\ o = Occurs(o.template, o.date)
                         /\ o.template \in TemplateIds /\ o.date \in Days
      /\ \A d \in Days : Occurs(t, d) \in Owed(held) <=>
            /\ t \in Claimed(held) /\ d <= today /\ ~PastEnd(templates[t], d)
            /\ \E k \in Nat : d = date(k)
    BY OwedDates
<1>5. ASSUME NEW i \in Nat, NEW k \in Nat
      PROVE  /\ date(k) \in Nat /\ (i < k <=> date(i) < date(k)) /\ (date(i) = date(k) => i = k)
             /\ k <= date(k) /\ x <= date(k)
  <2> DEFINE p == n * i
             q == n * k
  <2>1. p \in Nat /\ q \in Nat /\ (p < q <=> i < k) /\ (p = q <=> i = k)
    <3> HIDE DEF n
    <3>1. i \in Int /\ k \in Int
        OBVIOUS
    <3>2. n * i \in Nat /\ n * k \in Nat /\ (n * i < n * k <=> i < k) /\ (n * i = n * k <=> i = k)
        BY <1>1, <3>1, Products
    <3> QED BY <3>2
  <2>2. k <= q
    <3>1. n - 1 \in Nat
        BY <1>1
    <3>2. (n - 1) * k \in Nat /\ n * k = (n - 1) * k + k
        BY <1>1, <3>1
    <3> QED BY <3>2
  <2>3. date(i) = x + p /\ date(k) = x + q
      BY DEF Step
  <2> HIDE DEF p, q, date, x, n
  <2> QED BY <1>1, <2>1, <2>2, <2>3
\* Earlier dates of the schedule are owed before later ones.
<1>6. \A k \in Ks : \A i \in 0 .. k : i \in Ks
  <2> SUFFICES ASSUME NEW k \in Ks, NEW i \in 0 .. k, i # k PROVE i \in Ks
      OBVIOUS
  <2> DEFINE d == date(k)
             e == date(i)
             o == Occurs(t, d)
             p == Occurs(t, e)
  <2>1. k \in Nat /\ i \in Nat /\ i < k /\ d \in Days /\ InBatch(o)
      BY DEF Ks
  <2>2. e \in Nat /\ e < d /\ d \in Nat /\ x <= e
      BY <1>5, <2>1
  <2>3. o \in Owed(held)
      BY <1>3, <2>1
  <2>4. t \in Claimed(held) /\ d <= today /\ ~PastEnd(templates[t], d)
    <3> HIDE DEF d, date, o
    <3> QED BY <1>4, <2>1, <2>3 DEF o
  <2>5. e >= 1
    <3>1. i = 0 => e = x
      <4>1. n * 0 = 0
          BY <1>1
      <4> QED BY <1>1, <4>1 DEF Step
    <3>2. x >= 1
      <4>1. templates[t].start \in Days /\ templates[t].start \in Nat
          BY RowOfTemplate DEF TemplatesSound
      <4>2. PICK m \in Nat : x = Step(templates[t].start, n, m)
          BY DEF TemplatesSound, Scheduled
      <4> DEFINE w == n * m
      <4>3. w \in Nat /\ x = templates[t].start + w
          BY <1>1, <4>2, Products DEF Step
      <4>4. templates[t].start >= 1
          BY <4>1 DEF Days
      <4> HIDE DEF w, x
      <4> QED BY <4>1, <4>3, <4>4
    <3> HIDE DEF e, x
    <3> QED BY <1>1, <2>2, <3>2
  <2>6. e \in Days /\ e <= today
    <3> HIDE DEF d, e
    <3> QED BY <2>1, <2>2, <2>4, <2>5, RecurringConstants DEF Days
  <2>7. ~PastEnd(templates[t], e)
    <3>1. templates[t].end \in Nat
        BY RowOfTemplate DEF TemplatesSound
    <3> HIDE DEF d, e
    <3> QED BY <2>2, <2>4, <3>1 DEF PastEnd
  <2>8. p \in Owed(held)
    <3> HIDE DEF d, o
    <3> QED BY <1>4, <2>1, <2>4, <2>6, <2>7
  <2>9. p \in OwedBefore(held, o)
    <3> HIDE DEF d, e
    <3>1. p.template = t /\ o.template = t /\ p.date = e /\ o.date = d
        BY DEF Occurs
    <3> HIDE DEF p, o
    <3> QED BY <2>2, <2>8, <3>1 DEF OwedBefore
  <2>10. InBatch(p)
    <3> HIDE DEF p, o
    <3> QED BY <1>2, <2>1, <2>8, <2>9
  <2> QED BY <2>1, <2>6, <2>10
<1>7. Ks \subseteq Nat /\ \A k \in Ks : k < LastDay + 1
  <2>1. ASSUME NEW k \in Ks PROVE k < LastDay + 1
    <3> DEFINE d == date(k)
    <3>1. k \in Nat /\ d \in Days
        BY DEF Ks
    <3>2. k <= d /\ d \in Nat
        BY <1>5, <3>1
    <3> HIDE DEF d
    <3> QED BY <3>1, <3>2, RecurringConstants DEF Days
  <2> QED BY <2>1 DEF Ks
<1>8. /\ IsFiniteSet(Ks) /\ Cardinality(Ks) \in Nat
      /\ \A k \in Nat : k \in Ks <=> k < Cardinality(Ks)
  <2> DEFINE b == LastDay + 1
  <2>1. b \in Nat
      BY RecurringConstants
  <2>2. \A k \in Ks : k < b
      BY <1>7
  <2> HIDE DEF b, Ks
  <2> QED BY <1>6, <1>7, <2>1, <2>2, Initial
\* One index of the batch for each of them.
<1>9. Cardinality(Ks) = Count(held, t)
  <2> DEFINE index(k) == CHOOSE i \in DOMAIN Batch(held) : Batch(held)[i] = Occurs(t, date(k))
             f == [k \in Ks |-> index(k)]
  <2>1. ASSUME NEW k \in Ks
        PROVE  index(k) \in I /\ Batch(held)[index(k)] = Occurs(t, date(k))
    <3>1. InBatch(Occurs(t, date(k)))
        BY DEF Ks
    <3>2. index(k) \in DOMAIN Batch(held) /\ Batch(held)[index(k)] = Occurs(t, date(k))
        BY <3>1
    <3> HIDE DEF index
    <3> QED BY <3>2 DEF Generated, Occurs
  <2>2. ASSUME NEW k \in Ks, NEW l \in Ks, index(k) = index(l) PROVE k = l
    <3>1. Occurs(t, date(k)) = Occurs(t, date(l))
      <4> HIDE DEF index, date, Ks
      <4> QED BY <2>1, <2>2
    <3>2. date(k) = date(l)
      <4> HIDE DEF date
      <4> QED BY <3>1 DEF Occurs
    <3>3. k \in Nat /\ l \in Nat
        BY DEF Ks
    <3> HIDE DEF date
    <3> QED BY <1>5, <3>2, <3>3
  <2>3. ASSUME NEW i \in I PROVE \E k \in Ks : index(k) = i
    <3> DEFINE o == Batch(held)[i]
               d == o.date
    <3>1. i \in 1 .. size /\ i \in DOMAIN Batch(held) /\ o \in Owed(held) /\ o.template = t
        BY <1>2 DEF Generated
    <3>2. o = Occurs(t, d) /\ d \in Days
      <4> HIDE DEF o
      <4> QED BY <1>4, <3>1
    <3>3. PICK k \in Nat : d = date(k)
      <4> HIDE DEF d, date
      <4>1. Occurs(t, d) \in Owed(held)
          BY <3>1, <3>2
      <4> QED BY <1>4, <3>2, <4>1
    <3>4. InBatch(Occurs(t, date(k))) /\ date(k) \in Days
      <4> HIDE DEF date, d
      <4> QED BY <3>1, <3>2, <3>3
    <3>5. k \in Ks
        BY <3>4
    <3>6. Batch(held)[index(k)] = Batch(held)[i] /\ index(k) \in DOMAIN Batch(held)
      <4> HIDE DEF index, Ks, date, d
      <4>1. Batch(held)[index(k)] = Occurs(t, date(k)) /\ index(k) \in I
          BY <2>1, <3>5
      <4> QED BY <3>2, <3>3, <4>1 DEF Generated
    <3> HIDE DEF index, Ks
    <3>7. index(k) = i
        BY <1>2, <3>1, <3>6
    <3> QED BY <3>5, <3>7
  <2> HIDE DEF index, Ks, I
  <2>4. f \in Bijection(Ks, I)
    <3>1. f \in [Ks -> I]
        BY <2>1
    <3>2. f \in Injection(Ks, I)
        BY <2>2, <3>1 DEF Injection, IsInjective
    <3>3. f \in Surjection(Ks, I)
        BY <2>3, <3>1 DEF Surjection
    <3> QED BY <3>2, <3>3 DEF Bijection
  <2>5. ExistsBijection(Ks, I)
    <3> HIDE DEF f
    <3> QED BY <2>4 DEF ExistsBijection
  <2>6. Cardinality(I) = Cardinality(Ks)
      BY <1>8, <2>5, FS_Bijection
  <2> QED BY <2>6 DEF Count, I
<1>10. ASSUME ~Reached(held, t), NEW k \in Ks PROVE FALSE
  <2> DEFINE o == Occurs(t, date(k))
             Before == {p \in Owed(held) : Precedes(p.template, t)}
  <2>1. InBatch(o) /\ date(k) \in Days
      BY DEF Ks
  <2>2. o \in Owed(held)
      BY <1>3, <2>1
  <2>3. t \in Claimed(held)
    <3> HIDE DEF date
    <3> QED BY <1>4, <2>1, <2>2
  <2>4. o.template = t
      BY DEF Occurs
  <2>5. Rank(held, o) < BatchSize
    <3> HIDE DEF o
    <3> QED BY <1>2, <2>1
  <2> HIDE DEF o
  <2>6. Before \in SUBSET OwedBefore(held, o) /\ OwedBefore(held, o) \in SUBSET Owed(held)
      BY <2>4 DEF OwedBefore
  <2>7. IsFiniteSet(OwedBefore(held, o)) /\ IsFiniteSet(Before)
      BY <2>6, OwedOrdered, FS_Subset
  <2>8. /\ Cardinality(Before) <= Cardinality(OwedBefore(held, o))
        /\ Cardinality(Before) \in Nat /\ Cardinality(OwedBefore(held, o)) \in Nat
    <3> HIDE DEF Before
    <3> QED BY <2>6, <2>7, FS_Subset, FS_CardinalityType
  <2>9. Cardinality(Before) < BatchSize
    <3> HIDE DEF Before
    <3> QED BY <2>5, <2>8, RecurringConstants DEF Rank
  <2> QED BY <1>10, <2>3, <2>9 DEF Reached
<1>11. ~Reached(held, t) => Count(held, t) = 0
  <2> HIDE DEF Ks
  <2>1. ASSUME ~Reached(held, t) PROVE Ks = {}
      BY <1>10, <2>1
  <2> QED BY <1>9, <2>1, FS_EmptySet
<1>12. ASSUME NEW d \in Days
       PROVE  InBatch(Occurs(t, d)) <=> \E k \in Nat : k < Count(held, t) /\ d = date(k)
  <2>1. ASSUME InBatch(Occurs(t, d)) PROVE \E k \in Nat : k < Count(held, t) /\ d = date(k)
    <3>1. Occurs(t, d) \in Owed(held)
        BY <1>3, <2>1
    <3>2. PICK k \in Nat : d = date(k)
      <4> HIDE DEF date
      <4> QED BY <1>4, <3>1
    <3>3. k \in Ks
      <4> HIDE DEF date
      <4> QED BY <2>1, <3>2
    <3> HIDE DEF Ks
    <3> QED BY <1>8, <1>9, <3>2, <3>3
  <2>2. ASSUME NEW k \in Nat, k < Count(held, t), d = date(k) PROVE InBatch(Occurs(t, d))
    <3>1. k \in Ks
      <4> HIDE DEF Ks
      <4> QED BY <1>8, <1>9, <2>2
    <3> HIDE DEF date
    <3> QED BY <2>2, <3>1
  <2> QED BY <2>1, <2>2
<1>13. \A k \in Nat : k < Count(held, t) => date(k) \in Days
  <2> TAKE k \in Nat
  <2>1. k \in Ks => date(k) \in Days
      BY DEF Ks
  <2> HIDE DEF Ks
  <2> QED BY <1>8, <1>9, <2>1
<1> QED BY <1>8, <1>9, <1>11, <1>12, <1>13

InSchedule(start, n, d) == \E k \in Nat : d = Step(start, n, k)

AmongFirst(count, next, n, d) == \E k \in Nat : k < count /\ d = Step(next, n, k)

\* A schedule that moves on by that many dates.
LEMMA ScheduleMoves ==
    ASSUME NEW n \in Nat \ {0}, NEW start \in Nat, NEW m \in Nat, NEW next,
           next = Step(start, n, m), NEW count \in Nat
    PROVE  /\ Step(next, n, count) = Step(start, n, m + count)
           /\ next \in Nat /\ Step(next, n, count) \in Nat
           /\ \A d \in Nat :
                 InSchedule(start, n, d) /\ d < Step(next, n, count)
                     <=> \/ InSchedule(start, n, d) /\ d < next
                         \/ AmongFirst(count, next, n, d)
<1>1. ASSUME NEW k \in Nat
      PROVE  /\ Step(next, n, k) = Step(start, n, m + k) /\ Step(start, n, k) \in Nat
  <2>1. n * (m + k) = n * m + n * k /\ n * m \in Nat /\ n * k \in Nat
      BY Products
  <2> QED BY <2>1 DEF Step
<1>2. ASSUME NEW i \in Nat, NEW k \in Nat
      PROVE  Step(start, n, i) < Step(start, n, k) <=> i < k
  <2> DEFINE p == n * i
             q == n * k
  <2>1. p \in Nat /\ q \in Nat /\ (p < q <=> i < k)
      BY Products
  <2>2. Step(start, n, i) = start + p /\ Step(start, n, k) = start + q
      BY DEF Step
  <2> HIDE DEF p, q
  <2> QED BY <2>1, <2>2
<1> DEFINE s(k) == Step(start, n, k)
<1>3. /\ \A k \in Nat : Step(next, n, k) = s(m + k) /\ s(k) \in Nat
      /\ \A i, k \in Nat : s(i) < s(k) <=> i < k
      /\ next = s(m)
    BY <1>1, <1>2
<1> HIDE DEF s
<1>4. ASSUME NEW d \in Nat
      PROVE  (\E k \in Nat : d = s(k)) /\ d < Step(next, n, count)
                 <=> \/ (\E k \in Nat : d = s(k)) /\ d < next
                     \/ \E k \in Nat : k < count /\ d = Step(next, n, k)
  <2>1. m + count \in Nat
      OBVIOUS
  <2>2. ASSUME NEW k \in Nat, d = s(k), d < s(m + count), ~(d < next)
        PROVE  \E i \in Nat : i < count /\ d = s(m + i)
    <3>1. k < m + count /\ ~(k < m)
        BY <1>3, <2>1, <2>2
    <3>2. k - m \in Nat /\ k - m < count /\ m + (k - m) = k
        BY <3>1
    <3> QED BY <2>2, <3>2
  <2>3. ASSUME NEW k \in Nat, k < count, d = s(m + k)
        PROVE  (\E i \in Nat : d = s(i)) /\ d < s(m + count)
    <3>1. m + k \in Nat /\ m + k < m + count
        BY <2>3
    <3> QED BY <1>3, <2>1, <2>3, <3>1
  <2>4. ASSUME d < next PROVE d < s(m + count)
    <3>1. s(m) <= s(m + count) /\ s(m) \in Nat /\ s(m + count) \in Nat
      <4>1. ~(m + count < m)
          OBVIOUS
      <4> QED BY <1>3, <2>1, <4>1
    <3> QED BY <1>3, <2>4, <3>1
  <2> QED BY <1>3, <2>2, <2>3, <2>4
<1> QED BY <1>3, <1>4 DEF s, InSchedule, AmongFirst
-----------------------------------------------------------------------------
(***************************************************************************)
(* A run of the worker.                                                    *)
(***************************************************************************)

LEMMA KeyUsedGrows ==
    ASSUME NEW S, NEW j \in Seq(S), NEW x \in S, NEW key
    PROVE  KeyUsed(Append(j, x), key) <=> KeyUsed(j, key) \/ x.key = key
<1> DEFINE k == Append(j, x)
           m == Len(j) + 1
<1>1. /\ Len(j) \in Nat /\ DOMAIN j = 1 .. Len(j) /\ DOMAIN k = 1 .. m
      /\ \A i \in 1 .. Len(j) : k[i] = j[i]
      /\ k[m] = x
    BY Appended
<1> HIDE DEF k
<1>2. m \in 1 .. m /\ \A i \in 1 .. m : i = m \/ i \in 1 .. Len(j)
    BY <1>1
<1>3. \A i \in 1 .. Len(j) : i \in 1 .. m
    BY <1>1
<1> HIDE DEF m
<1> QED BY <1>1, <1>2, <1>3 DEF KeyUsed, k

\* A transaction of a template, which links to no other one.
Plain(x) == x.type # "REVERSAL" /\ x.reverses = 0 /\ x.replaces = 0

\* A batch of sound transactions leaves a sound journal, in which the keys of
\* the batch are used (postJournal in a loop).
LEMMA BatchPosted ==
    ASSUME NEW j, NEW accts, NEW C, NEW K, JournalOK(j, accts, C, K),
           NEW m \in Nat, NEW posts, DOMAIN posts = 1 .. m,
           \A n \in 1 .. m : ~KeyUsed(j, posts[n].key) =>
               /\ posts[n] \in TransactionsWith(K)
               /\ SoundTransaction(posts[n], accts, C) /\ Plain(posts[n]),
           NEW k, k = FoldLeft(PostJournal, j, posts)
    PROVE  /\ JournalOK(k, accts, C, K)
           /\ \A key : KeyUsed(k, key) <=>
                 KeyUsed(j, key) \/ \E n \in 1 .. m : posts[n].key = key
<1>1. PICK w : /\ w[0] = j
               /\ \A n \in 1 .. m : w[n] = PostJournal(w[n - 1], posts[n])
               /\ k = w[m]
  <2>1. FoldLeft(PostJournal, j, posts) = Fold(j, posts, m)[1 .. m]
      BY Zenon DEF FoldLeft, MapThenFoldSet, Folds, Fold
  <2>2. PICK w : /\ w[0] = j
                 /\ \A n \in 1 .. m : w[n] = PostJournal(w[n - 1], posts[n])
                 /\ w[m] = Fold(j, posts, m)[1 .. m]
      BY FoldWalks
  <2> QED BY <2>1, <2>2
<1> DEFINE Good(n) == /\ JournalOK(w[n], accts, C, K)
                      /\ \A key : KeyUsed(w[n], key) <=>
                            KeyUsed(j, key) \/ \E i \in 1 .. n : posts[i].key = key
           Bad == {n \in 0 .. m : ~Good(n)}
<1>2. Good(0)
    BY <1>1
<1>3. ASSUME NEW n \in 1 .. m, Good(n - 1) PROVE Good(n)
  <2> DEFINE v == w[n - 1]
             x == posts[n]
             u == w[n]
  <2>1. u = PostJournal(v, x)
      BY <1>1
  <2>2. /\ JournalOK(v, accts, C, K) /\ v \in Seq(TransactionsWith(K))
        /\ \A key : KeyUsed(v, key) <=>
              KeyUsed(j, key) \/ \E i \in 1 .. n - 1 : posts[i].key = key
      BY <1>3 DEF JournalOK
  <2>3. /\ \A i \in 1 .. n : i = n \/ i \in 1 .. n - 1
        /\ \A i \in 1 .. n - 1 : i \in 1 .. n
        /\ n \in 1 .. n
      OBVIOUS
  <2>4. JournalOK(u, accts, C, K) /\ \A key : KeyUsed(u, key) <=> KeyUsed(v, key) \/ x.key = key
    <3> HIDE DEF v, x, u
    <3>1. CASE KeyUsed(v, x.key)
      <4>1. u = v
          BY <2>1, <3>1 DEF PostJournal
      <4> QED BY <2>2, <3>1, <4>1
    <3>2. CASE ~KeyUsed(v, x.key)
      <4>1. u = Append(v, x)
          BY <2>1, <3>2 DEF PostJournal
      <4>2. ~KeyUsed(j, x.key)
          BY <2>2, <3>2
      <4>3. x \in TransactionsWith(K) /\ SoundTransaction(x, accts, C) /\ Plain(x)
          BY <4>2 DEF x
      <4>4. MayFollow(x, v, accts, C)
          BY <4>3 DEF MayFollow, MayReplace, Plain
      <4>5. JournalOK(u, accts, C, K)
          BY <2>2, <4>1, <4>3, <4>4, JournalGrows
      <4> QED BY <2>2, <4>1, <4>3, <4>5, KeyUsedGrows
    <3> QED BY <3>1, <3>2
  <2>5. ASSUME NEW key
        PROVE  KeyUsed(u, key) <=> KeyUsed(j, key) \/ \E i \in 1 .. n : posts[i].key = key
    <3>1. KeyUsed(u, key) <=> KeyUsed(v, key) \/ x.key = key
      <4> HIDE DEF u, v, x
      <4> QED BY <2>4
    <3>2. KeyUsed(v, key) <=> KeyUsed(j, key) \/ \E i \in 1 .. n - 1 : posts[i].key = key
      <4> HIDE DEF v
      <4> QED BY <2>2
    <3> HIDE DEF u, v
    <3> QED BY <2>3, <3>1, <3>2
  <2> QED BY <2>4, <2>5
<1> HIDE DEF Good
<1>4. \A n \in 0 .. m : Good(n)
  <2> SUFFICES ASSUME Bad # {} PROVE FALSE
      OBVIOUS
  <2>1. PICK n \in Bad : \A i \in Bad : n <= i
    <3>1. Bad \subseteq Nat
        OBVIOUS
    <3> HIDE DEF Bad
    <3> QED BY <3>1, LeastNatural
  <2>2. n # 0 /\ n \in 0 .. m /\ ~Good(n)
      BY <1>2, <2>1
  <2>3. n \in 1 .. m /\ n - 1 \in 0 .. m /\ ~(n <= n - 1)
      BY <2>2
  <2>4. Good(n - 1)
      BY <2>1, <2>3
  <2> QED BY <1>3, <2>2, <2>3, <2>4
<1>5. Good(m)
    BY <1>4
<1> QED BY <1>1, <1>5 DEF Good

\* The transaction of an occurrence: posted by a template whose dependencies
\* load, it is sound.
LEMMA OccurrencePosts ==
    ASSUME GInv, NEW held, NEW o \in Owed(held), NEW x,
           x = TypedOperation(accounts, functional, Occurrence(o), 0)
    PROVE  /\ x.key = OccurrenceKey(o.template, o.date)
           /\ /\ OperationLoads(accounts, functional, Occurrence(o))
              /\ Accepted(journal, accounts, x)
              /\ ~KeyUsed(journal, x.key)
              => /\ x \in TransactionsWith(RecurringKeys)
                 /\ SoundTransaction(x, accounts, {functional}) /\ Plain(x)
<1> DEFINE op == Occurrence(o)
           C == {functional}
           K == RecurringKeys
           r == templates[o.template]
<1>1. TemplatesSound(templates) /\ today \in Days
    BY DEF GInv
<1>2. o.template \in TemplateIds /\ o.date \in Days /\ o.template \in Claimed(held)
    BY <1>1, OwedDates DEF Owed
<1>3. r \in TemplateRows /\ Created(r)
    BY <1>1, <1>2, ClaimedDue
<1>4. /\ r.type \in TypedOperations \ {"OPENING_BALANCE"} /\ r.account \in UserAccounts
      /\ r.counterpart \in UserAccounts \cup Categories /\ r.amount \in Amounts
  <2> HIDE DEF r
  <2> QED BY <1>3, RowOfTemplate
<1>5. /\ op.type = r.type /\ op.account = r.account /\ op.counterpart = r.counterpart
      /\ op.amount = r.amount /\ op.date = o.date
      /\ op.key = OccurrenceKey(o.template, o.date)
    BY DEF Occurrence, OccurrenceKey
<1>6. WellFormedOperation(op) /\ op.key \in K
  <2> HIDE DEF op, r, K
  <2>1. o.date \in Nat
      BY <1>2 DEF Days
  <2>2. op.key \in K
      BY <1>2, <1>5, OccurrenceKeys DEF K
  <2> QED BY <1>4, <1>5, <2>1, <2>2 DEF WellFormedOperation
<1>7. x.key = op.key /\ x.type = op.type /\ x.reverses = 0 /\ x.replaces = 0
    BY DEF TypedOperation, JournalSpec
<1>8. ASSUME OperationLoads(accounts, functional, op), Accepted(journal, accounts, x),
             ~KeyUsed(journal, x.key)
      PROVE  x \in TransactionsWith(K) /\ SoundTransaction(x, accounts, C) /\ Plain(x)
  <2>1. functional \in Currencies /\ functional \in C /\ accounts \in AccountRows /\ 0 \in Nat
      BY DEF GInv, LedgerInv
  <2>2. MayReplace(journal, 0)
      BY DEF MayReplace
  <2>3. x = TypedOperation(accounts, functional, op, 0)
      OBVIOUS
  <2> HIDE DEF op, C, K, r
  <2>4. MayFollow(x, journal, accounts, C) /\ WellFormed(x)
    <3> DEFINE none == 0
    <3>1. none \in Nat /\ MayReplace(journal, none)
          /\ x = TypedOperation(accounts, functional, op, none)
        BY <2>1, <2>2, <2>3
    <3> HIDE DEF none
    <3>2. ~KeyUsed(journal, op.key)
        BY <1>7, <1>8
    <3> QED BY <1>6, <1>8, <2>1, <3>1, <3>2, OperationMayFollow
  <2>5. x \in TransactionsWith(K)
      BY <1>6, <1>7, <2>4, KeyedBy
  <2>6. x.type # "REVERSAL"
      BY <1>4, <1>5, <1>7 DEF TypedOperations
  <2> QED BY <1>7, <2>4, <2>5, <2>6 DEF MayFollow, Plain
<1> QED BY <1>5, <1>7, <1>8

\* What a run does: it posts the batch, and the keys that are used afterwards are
\* those of the batch besides those that were.
LEMMA RunPosts ==
    ASSUME GInv, NEW held, GenerateRecurring(held)
    PROVE  /\ JournalOK(journal', accounts, {functional}, RecurringKeys)
           /\ \A t \in TemplateIds, d \in Days :
                 KeyUsed(journal', OccurrenceKey(t, d)) <=>
                     \/ KeyUsed(journal, OccurrenceKey(t, d))
                     \/ \E n \in DOMAIN Batch(held) : Batch(held)[n] = Occurs(t, d)
           /\ templates' = [t \in TemplateIds |->
                               IF Reached(held, t) THEN Advanced(t, Batch(held)) ELSE templates[t]]
           /\ UNCHANGED <<functional, onboarded, accounts, today>>
<1> DEFINE C == {functional}
           K == RecurringKeys
           posts == Posts(Batch(held))
<1>1. /\ \A n \in DOMAIN Batch(held) :
            /\ OperationLoads(accounts, functional, Occurrence(Batch(held)[n]))
            /\ Accepted(journal, accounts, posts[n])
      /\ journal' = FoldLeft(PostJournal, journal, posts)
      /\ templates' = [t \in TemplateIds |->
                          IF Reached(held, t) THEN Advanced(t, Batch(held)) ELSE templates[t]]
      /\ UNCHANGED <<functional, onboarded, accounts, today>>
    BY DEF GenerateRecurring
<1>2. TemplatesSound(templates) /\ today \in Days /\ JournalOK(journal, accounts, C, K)
    BY DEF GInv, LedgerInv
<1>3. PICK size \in Nat : /\ DOMAIN Batch(held) = 1 .. size
                          /\ \A n \in 1 .. size : Batch(held)[n] \in Owed(held)
    BY <1>2, BatchIsFirst
<1>4. /\ DOMAIN posts = 1 .. size
      /\ \A n \in 1 .. size :
            posts[n] = TypedOperation(accounts, functional, Occurrence(Batch(held)[n]), 0)
    BY <1>3 DEF Posts
<1> HIDE DEF posts, C, K
<1>5. ASSUME NEW n \in 1 .. size
      PROVE  /\ posts[n].key = OccurrenceKey(Batch(held)[n].template, Batch(held)[n].date)
             /\ ~KeyUsed(journal, posts[n].key) =>
                   /\ posts[n] \in TransactionsWith(K)
                   /\ SoundTransaction(posts[n], accounts, C) /\ Plain(posts[n])
  <2> DEFINE o == Batch(held)[n]
             x == posts[n]
  <2>1. /\ o \in Owed(held) /\ x = TypedOperation(accounts, functional, Occurrence(o), 0)
        /\ OperationLoads(accounts, functional, Occurrence(o))
        /\ Accepted(journal, accounts, x)
      BY <1>1, <1>3, <1>4
  <2> HIDE DEF o, x
  <2>2. /\ x.key = OccurrenceKey(o.template, o.date)
        /\ ~KeyUsed(journal, x.key) =>
              /\ x \in TransactionsWith(K)
              /\ SoundTransaction(x, accounts, C) /\ Plain(x)
      BY <2>1, OccurrencePosts DEF C, K
  <2> QED BY <2>2 DEF o, x
<1>6. /\ JournalOK(journal', accounts, C, K)
      /\ \A key : KeyUsed(journal', key) <=>
            KeyUsed(journal, key) \/ \E n \in 1 .. size : posts[n].key = key
  <2> DEFINE k == journal'
  <2>1. k = FoldLeft(PostJournal, journal, posts)
      BY <1>1
  <2> HIDE DEF k
  <2>2. /\ JournalOK(k, accounts, C, K)
        /\ \A key : KeyUsed(k, key) <=>
              KeyUsed(journal, key) \/ \E n \in 1 .. size : posts[n].key = key
      BY <1>2, <1>4, <1>5, <2>1, BatchPosted
  <2> QED BY <2>2 DEF k
<1>7. ASSUME NEW t \in TemplateIds, NEW d \in Days
      PROVE  (\E n \in 1 .. size : posts[n].key = OccurrenceKey(t, d))
                 <=> \E n \in DOMAIN Batch(held) : Batch(held)[n] = Occurs(t, d)
  <2>1. ASSUME NEW n \in 1 .. size
        PROVE  posts[n].key = OccurrenceKey(t, d) <=> Batch(held)[n] = Occurs(t, d)
    <3> DEFINE o == Batch(held)[n]
    <3>1. o = Occurs(o.template, o.date)
        BY <1>2, <1>3, OwedDates
    <3>2. posts[n].key = OccurrenceKey(o.template, o.date)
        BY <1>5
    <3>3. o.template = t /\ o.date = d <=> o = Occurs(t, d)
      <4> HIDE DEF o
      <4> QED BY <3>1 DEF Occurs
    <3> HIDE DEF o
    <3> QED BY <3>2, <3>3, OccurrenceKeys DEF o
  <2> QED BY <1>3, <2>1
<1> QED BY <1>1, <1>6, <1>7 DEF C, K

\* The row of a template after a run.
LEMMA AdvancedRow ==
    ASSUME GInv, NEW held, GenerateRecurring(held), NEW t \in TemplateIds, Created(templates[t])
    PROVE  /\ templates'[t] \in TemplateRows /\ Created(templates'[t])
           /\ templates'[t].archived => templates'[t].status = "PAUSED"
           /\ DependenciesActive(templates'[t], accounts)
           /\ templates'[t].start = templates[t].start
           /\ templates'[t].interval = templates[t].interval
           /\ templates'[t].next = Step(templates[t].next, templates[t].interval, Count(held, t))
<1> DEFINE q == templates[t]
           n == q.interval
           next == Step(q.next, n, Count(held, t))
           s == IF PastEnd(q, next) THEN "PAUSED" ELSE q.status
           r == templates'[t]
<1>1. /\ q \in TemplateRows /\ (q.archived => q.status = "PAUSED")
      /\ DependenciesActive(q, accounts)
      /\ TemplatesSound(templates) /\ today \in Days
    BY DEF GInv, TemplatesSound
<1>2. /\ q \in [status : {"ACTIVE", "PAUSED"}, archived : BOOLEAN,
               type : TypedOperations \ {"OPENING_BALANCE"},
               account : UserAccounts, counterpart : UserAccounts \cup Categories,
               amount : Amounts, start : Days, next : Nat, end : Nat,
               interval : Nat \ {0}]
      /\ q.next \in Nat /\ n \in Nat \ {0} /\ q.status \in {"ACTIVE", "PAUSED"}
  <2>1. Created(q)
      OBVIOUS
  <2> HIDE DEF q
  <2> QED BY <1>1, <2>1, RowOfTemplate
<1>3. Count(held, t) \in Nat /\ (~Reached(held, t) => Count(held, t) = 0)
    BY <1>1, BatchDates
<1>4. next \in Nat
  <2> DEFINE k == Count(held, t)
             p == n * k
  <2>1. p \in Nat /\ next = q.next + p
    <3>1. k \in Nat
        BY <1>3
    <3>2. next = q.next + p
        BY DEF Step
    <3> HIDE DEF k, n
    <3> QED BY <1>2, <3>1, <3>2, Products
  <2> HIDE DEF p, next
  <2> QED BY <1>2, <2>1
<1>5. r = IF Reached(held, t) THEN Advanced(t, Batch(held)) ELSE q
    BY RunPosts
<1>6. CASE Reached(held, t)
  <2>1. Advanced(t, Batch(held)) = [q EXCEPT !.next = next, !.status = s]
      BY DEF Advanced, Step, Count, Generated
  <2>2. s \in {"ACTIVE", "PAUSED"} /\ (s = "ACTIVE" => q.status = "ACTIVE")
      BY <1>2
  <2>3. r = [q EXCEPT !.next = next, !.status = s]
      BY <1>5, <1>6, <2>1
  <2> HIDE DEF q, s, next, r
  <2>4. /\ r \in TemplateRows /\ r.status = s /\ r.archived = q.archived
        /\ r.account = q.account /\ r.counterpart = q.counterpart
        /\ r.start = q.start /\ r.next = next /\ r.interval = q.interval
      BY <1>2, <1>4, <2>2, <2>3 DEF TemplateRows
  <2>5. Created(r) /\ DependenciesActive(r, accounts)
      BY <1>1, <2>2, <2>4 DEF Created, DependenciesActive
  <2>6. r.archived => r.status = "PAUSED"
      BY <1>1, <2>2, <2>4
  <2> QED BY <2>4, <2>5, <2>6 DEF q, r, next, n
<1>7. CASE ~Reached(held, t)
  <2>1. next = q.next
    <3>1. n * 0 = 0
        BY <1>2
    <3> HIDE DEF q, n
    <3> QED BY <1>2, <1>3, <1>7, <3>1 DEF Step
  <2> QED BY <1>1, <1>5, <1>7, <2>1
<1> QED BY <1>6, <1>7

LEMMA GenerateKeeps ==
    ASSUME GInv, NEW held, GenerateRecurring(held)
    PROVE  GInv'
<1>1. /\ JournalOK(journal', accounts, {functional}, RecurringKeys)
      /\ \A t \in TemplateIds, d \in Days :
            KeyUsed(journal', OccurrenceKey(t, d)) <=>
                \/ KeyUsed(journal, OccurrenceKey(t, d))
                \/ \E n \in DOMAIN Batch(held) : Batch(held)[n] = Occurs(t, d)
      /\ templates' = [t \in TemplateIds |->
                          IF Reached(held, t) THEN Advanced(t, Batch(held)) ELSE templates[t]]
      /\ UNCHANGED <<functional, onboarded, accounts, today>>
    BY RunPosts
<1>2. TemplatesSound(templates) /\ OccurredIn(journal, templates) /\ today \in Days
    BY DEF GInv
<1>3. ASSUME NEW t \in TemplateIds, ~Created(templates[t])
      PROVE  /\ templates'[t] = templates[t]
             /\ \A d \in Days : ~\E n \in DOMAIN Batch(held) : Batch(held)[n] = Occurs(t, d)
  <2>1. t \notin Claimed(held)
      BY <1>3 DEF Claimed, Claimable, IsDue, Created
  <2>2. templates'[t] = templates[t]
      BY <1>1, <2>1 DEF Reached
  <2>3. ASSUME NEW d \in Days, NEW n \in DOMAIN Batch(held), Batch(held)[n] = Occurs(t, d)
        PROVE  FALSE
    <3>1. Batch(held)[n] \in Owed(held)
        BY <1>2, BatchIsFirst
    <3>2. Occurs(t, d) \in Owed(held)
        BY <2>3, <3>1
    <3> QED BY <1>2, <2>1, <3>2, OwedDates
  <2> QED BY <2>2, <2>3
<1>4. ASSUME NEW t \in TemplateIds, Created(templates[t])
      PROVE  /\ Scheduled(templates'[t], templates'[t].next)
             /\ \A d \in Days : KeyUsed(journal', OccurrenceKey(t, d)) <=>
                   Scheduled(templates'[t], d) /\ d < templates'[t].next
  <2> DEFINE q == templates[t]
             r == templates'[t]
             n == q.interval
             start == q.start
             next == q.next
             count == Count(held, t)
  <2>1. start \in Nat /\ n \in Nat \ {0}
      BY <1>2, <1>4, RowOfTemplate DEF TemplatesSound
  <2>2. r.start = start /\ r.interval = n /\ r.next = Step(next, n, count)
      BY <1>4, AdvancedRow
  <2>3. /\ count \in Nat
        /\ \A d \in Days : (\E i \in DOMAIN Batch(held) : Batch(held)[i] = Occurs(t, d))
              <=> \E k \in Nat : k < count /\ d = Step(next, n, k)
      BY <1>2, <1>4, BatchDates
  <2>4. PICK m \in Nat : next = Step(start, n, m)
      BY <1>2, <1>4 DEF TemplatesSound, Scheduled
  <2>5. \A d \in Days : KeyUsed(journal, OccurrenceKey(t, d))
            <=> (\E k \in Nat : d = Step(start, n, k)) /\ d < next
      BY <1>2, <1>4 DEF OccurredIn, Scheduled
  <2> HIDE DEF q, r, n, start, next, count
  <2>6. /\ Step(next, n, count) = Step(start, n, m + count)
        /\ \A d \in Nat :
              InSchedule(start, n, d) /\ d < Step(next, n, count)
                  <=> \/ InSchedule(start, n, d) /\ d < next
                      \/ AmongFirst(count, next, n, d)
    <3>1. count \in Nat /\ next = Step(start, n, m) /\ m \in Nat
        BY <2>3, <2>4
    <3>2. Step(next, n, count) = Step(start, n, m + count)
        BY ONLY <2>1, <3>1, ScheduleMoves
    <3>3. \A d \in Nat :
              InSchedule(start, n, d) /\ d < Step(next, n, count)
                  <=> \/ InSchedule(start, n, d) /\ d < next
                      \/ AmongFirst(count, next, n, d)
        BY ONLY <2>1, <3>1, ScheduleMoves
    <3> QED BY <3>2, <3>3
  <2>7. Scheduled(r, r.next)
    <3>1. m + count \in Nat
        BY <2>3
    <3> QED BY <2>2, <2>6, <3>1 DEF Scheduled
  <2>8. ASSUME NEW d \in Days
        PROVE  KeyUsed(journal', OccurrenceKey(t, d)) <=> Scheduled(r, d) /\ d < r.next
    <3>1. d \in Nat
        BY DEF Days
    <3>2. Scheduled(r, d) <=> InSchedule(start, n, d)
        BY <2>2 DEF Scheduled, InSchedule
    <3>3. KeyUsed(journal', OccurrenceKey(t, d))
              <=> (InSchedule(start, n, d) /\ d < next) \/ AmongFirst(count, next, n, d)
        BY <1>1, <2>3, <2>5 DEF InSchedule, AmongFirst
    <3> QED BY <2>2, <2>6, <3>1, <3>2, <3>3
  <2> QED BY <2>7, <2>8 DEF r
<1>5. ASSUME NEW t \in TemplateIds
      PROVE  /\ templates'[t] \in TemplateRows
             /\ templates'[t].archived => templates'[t].status = "PAUSED"
             /\ DependenciesActive(templates'[t], accounts)
             /\ Created(templates'[t]) <=> Created(templates[t])
  <2>1. /\ templates[t] \in TemplateRows
        /\ templates[t].archived => templates[t].status = "PAUSED"
        /\ DependenciesActive(templates[t], accounts)
      BY DEF GInv, TemplatesSound
  <2> QED BY <1>3, <2>1, AdvancedRow
<1>6. templates' = [t \in TemplateIds |-> templates'[t]]
    BY <1>1
<1>7. templates' \in [TemplateIds -> TemplateRows]
    BY <1>5, <1>6
<1>8. TemplatesSound(templates')
    BY <1>4, <1>5, <1>7 DEF TemplatesSound
<1>9. OccurredIn(journal', templates')
  <2> SUFFICES ASSUME NEW t \in TemplateIds, NEW d \in Days
               PROVE  KeyUsed(journal', OccurrenceKey(t, d)) <=>
                          /\ Created(templates'[t])
                          /\ Scheduled(templates'[t], d) /\ d < templates'[t].next
      BY DEF OccurredIn
  <2>1. CASE Created(templates[t])
      BY <1>4, <1>5, <2>1
  <2>2. CASE ~Created(templates[t])
    <3>1. ~KeyUsed(journal, OccurrenceKey(t, d))
        BY <1>2, <2>2 DEF OccurredIn
    <3> QED BY <1>1, <1>3, <1>5, <2>2, <3>1
  <2> QED BY <2>1, <2>2
<1>10. LedgerInv(RecurringKeys)'
    BY <1>1 DEF GInv, LedgerInv
<1>11. today' \in Days /\ \A t \in TemplateIds : DependenciesActive(templates'[t], accounts')
    BY <1>1, <1>2, <1>5
<1> QED BY <1>8, <1>9, <1>10, <1>11 DEF GInv
-----------------------------------------------------------------------------
(***************************************************************************)
(* Theorems.                                                               *)
(***************************************************************************)

LEMMA RecurringKeeps == GInv /\ [RecurringNext]_vars => GInv'
<1>1. ASSUME GInv, RecurringNext PROVE GInv'
  <2>1. CASE LedgerStep
      BY <1>1, <2>1, LedgerStepKeeps
  <2>2. CASE \E t \in TemplateIds, c \in Currencies, a \in UserAccounts,
                x \in OpeningAmounts, y \in Amounts, d \in Days, n \in Intervals :
                    OnboardWithIncome(t, c, a, x, y, d, n)
      BY <1>1, <2>2, OnboardKeeps
  <2>3. CASE \E t \in TemplateIds, op \in RecurringOperations, d \in Days,
                e \in Days \cup {NoEnd}, n \in Intervals :
                    CreateRecurringTemplate(t, op, d, e, n)
      BY <1>1, <2>3, CreateTemplateKeeps
  <2>4. CASE \E t \in TemplateIds, x \in Amounts, e \in Days \cup {NoEnd},
                s \in {"keep", "ACTIVE", "PAUSED"}, r \in {"keep", "yes", "no"} :
                    UpdateRecurringTemplate(t, x, e, s, r)
      BY <1>1, <2>4, UpdateTemplateKeeps
  <2>5. CASE \E held \in SUBSET TemplateIds : GenerateRecurring(held)
      BY <1>1, <2>5, GenerateKeeps
  <2>6. CASE DayPasses
      BY <1>1, <2>6, DayKeeps
  <2> QED BY ONLY <1>1, <2>1, <2>2, <2>3, <2>4, <2>5, <2>6 DEF RecurringNext
<1>2. ASSUME GInv, UNCHANGED vars PROVE GInv'
  <2>1. UNCHANGED <<functional, accounts, journal, templates, today>>
      BY <1>2 DEF vars, ledgerVars
  <2>2. LedgerInv(RecurringKeys)'
      BY <1>2, <2>1 DEF GInv, LedgerInv
  <2> QED BY <1>2, <2>1, <2>2 DEF GInv
<1> QED BY <1>1, <1>2

\* The inductive invariant holds in every reachable state.
THEOREM RecurringInvariance == RecurringSpec => []GInv
BY InitEstablishesGInv, RecurringKeeps, PTL DEF RecurringSpec

\* The generated occurrences of a template are the dates of its schedule.
LEMMA OccurrencesComplete ==
    ASSUME GInv, NEW t \in TemplateIds, templates[t].status # "absent"
    PROVE  OccurrenceDates(t) =
               {d \in Days : /\ d >= templates[t].start
                             /\ d < templates[t].next
                             /\ (d - templates[t].start) % templates[t].interval = 0}
<1> DEFINE start == templates[t].start
           n == templates[t].interval
           next == templates[t].next
<1>1. start \in Nat /\ n \in Nat \ {0}
    BY RowOfTemplate DEF GInv, TemplatesSound, Created
<1>2. ASSUME NEW d \in Days
      PROVE  KeyUsed(journal, <<"recurring", t, d>>) <=>
                 d >= start /\ d < next /\ (d - start) % n = 0
  <2>1. KeyUsed(journal, <<"recurring", t, d>>) <=>
            (\E k \in Nat : d = Step(start, n, k)) /\ d < next
      BY DEF GInv, OccurredIn, OccurrenceKey, Created, Scheduled
  <2>2. d \in Nat
      BY DEF Days
  <2> HIDE DEF start, n, next
  <2>3. ASSUME NEW k \in Nat, d = Step(start, n, k) PROVE start <= d
    <3> DEFINE p == n * k
    <3>1. p \in Nat /\ d = start + p
        BY <1>1, <2>3, Products DEF Step
    <3> HIDE DEF p
    <3> QED BY <1>1, <3>1
  <2>4. CASE start <= d
    <3>1. (d - start) % n = 0 <=> \E k \in Nat : d = Step(start, n, k)
        BY <1>1, <2>2, <2>4, OnStep
    <3>2. d >= start
        BY <1>1, <2>2, <2>4
    <3> QED BY <2>1, <3>1, <3>2
  <2>5. CASE ~(start <= d)
    <3>1. ~(d >= start)
        BY <1>1, <2>2, <2>5
    <3> QED BY <2>1, <2>3, <2>5, <3>1
  <2> QED BY <2>4, <2>5
<1> QED BY <1>2 DEF OccurrenceDates

\* What the inductive invariant says of the templates and of the ledger.
LEMMA GInvImplies ==
    GInv => /\ TemplatesOK /\ ScheduleComplete /\ ActiveMeansUsable
            /\ Balanced /\ ReversalsCancel /\ CurrencyLocked
<1> SUFFICES ASSUME GInv
             PROVE  /\ TemplatesOK /\ ScheduleComplete /\ ActiveMeansUsable
                    /\ Balanced /\ ReversalsCancel /\ CurrencyLocked
    OBVIOUS
<1>1. TemplatesOK
  <2>1. ASSUME NEW t \in TemplateIds
        PROVE  templates[t].status \in {"absent", "ACTIVE", "PAUSED"}
      BY RowOfTemplate DEF GInv, TemplatesSound, Created
  <2> QED BY <2>1 DEF GInv, TemplatesSound, TemplatesOK
<1>2. ScheduleComplete
    BY OccurrencesComplete DEF ScheduleComplete
<1>3. ActiveMeansUsable
    BY DEF GInv, DependenciesActive, ActiveMeansUsable
<1>4. Balanced /\ ReversalsCancel
  <2> DEFINE C == {functional}
  <2>1. JournalOK(journal, accounts, C, RecurringKeys)
      BY DEF GInv, LedgerInv
  <2> HIDE DEF C
  <2> QED BY <2>1, SoundJournal
<1>5. CurrencyLocked
    BY SoundCurrencies DEF GInv
<1> QED BY <1>1, <1>2, <1>3, <1>4, <1>5

\* Templates stay well formed, and an archived one is never active.
THEOREM TemplatesTypeCorrect == RecurringSpec => []TemplatesOK
BY RecurringInvariance, GInvImplies, PTL

\* No date of a schedule is skipped and none is posted twice, whatever pauses,
\* edits, archivings and batch limits happened.
THEOREM SchedulesAreComplete == RecurringSpec => []ScheduleComplete
BY RecurringInvariance, GInvImplies, PTL

\* A run of the worker never meets an archived account or category.
THEOREM ActiveTemplatesAreUsable == RecurringSpec => []ActiveMeansUsable
BY RecurringInvariance, GInvImplies, PTL

\* The worker, the templates and the triggers keep the ledger sound.
THEOREM RecurringKeepsLedgerSound ==
    RecurringSpec => [](Balanced /\ ReversalsCancel /\ CurrencyLocked)
<1>1. GInv => Balanced /\ ReversalsCancel /\ CurrencyLocked
    BY GInvImplies
<1> QED BY <1>1, RecurringInvariance, PTL

\* No step but a run of the worker generates an occurrence.
LEMMA OthersGenerateNothing ==
    ASSUME GInv, GInv', [RecurringNext]_vars,
           \A held \in SUBSET TemplateIds : ~GenerateRecurring(held),
           NEW t \in TemplateIds, NEW d \in OccurrenceDates(t)' \ OccurrenceDates(t)
    PROVE  FALSE
<1>1. /\ d \in Days /\ KeyUsed(journal', OccurrenceKey(t, d))
      /\ ~KeyUsed(journal, OccurrenceKey(t, d))
    BY DEF OccurrenceDates, OccurrenceKey
<1>2. CASE LedgerStep
  <2> DEFINE C == {functional'}
             K == RecurringKeys
  <2>1. LedgerInv(K) /\ AllKeys \subseteq K /\ Next
      BY <1>2, OccurrenceKeys DEF GInv, LedgerStep
  <2> HIDE DEF K
  <2>2. HandlerEffect(C, K)
      BY <2>1, NextKeepsLedger
  <2> HIDE DEF C
  <2> QED BY <1>1, <2>2, HandlersGenerateNothing DEF K
<1>3. ASSUME NEW u \in TemplateIds, NEW c \in Currencies, NEW a \in UserAccounts,
             NEW x \in OpeningAmounts, NEW y \in Amounts, NEW e \in Days, NEW n \in Intervals,
             OnboardWithIncome(u, c, a, x, y, e, n)
      PROVE  FALSE
  <2>1. PICK base \in EnsureLedgerInfrastructure(accounts, c) :
            OpenAccount(base, a, "ASSET", c, x, today, <<"setup", a>>, c)
      BY <1>3 DEF OnboardWithIncome, CompleteOnboarding
  <2> DEFINE s == OpeningBalance(a, "ASSET", c, x, today, <<"setup", a>>)
             key == OccurrenceKey(t, d)
  <2>2. journal' = journal \/ journal' = PostJournal(journal, s)
      BY <2>1 DEF OpenAccount
  <2>3. s.key = <<"setup", a>>
      BY DEF OpeningBalance, JournalSpec
  <2>4. s.key # key
      BY <2>3 DEF OccurrenceKey
  <2> HIDE DEF s
  <2>5. journal' = Append(journal, s)
      BY <1>1, <2>2 DEF PostJournal
  <2>6. PICK S : journal \in Seq(S)
      BY DEF GInv, LedgerInv, JournalOK
  <2> DEFINE T == S \cup {s}
  <2>7. journal \in Seq(T) /\ s \in T
    <3>1. S \subseteq T
        OBVIOUS
    <3> HIDE DEF T
    <3>2. journal \in Seq(T)
        BY <2>6, <3>1, SeqWider
    <3> QED BY <3>2 DEF T
  <2> HIDE DEF T, key
  <2>8. KeyUsed(Append(journal, s), key) <=> KeyUsed(journal, key) \/ s.key = key
      BY <2>7, KeyUsedGrows
  <2> QED BY <1>1, <2>4, <2>5, <2>8 DEF key
<1>4. CASE UNCHANGED journal
    BY <1>1, <1>4
<1>5. CASE UNCHANGED vars
    BY <1>4, <1>5 DEF vars, ledgerVars
<1>6. CASE RecurringNext
  <2>1. ASSUME NEW u \in TemplateIds, NEW op \in RecurringOperations, NEW e \in Days,
               NEW end \in Days \cup {NoEnd}, NEW n \in Intervals,
               CreateRecurringTemplate(u, op, e, end, n)
        PROVE  UNCHANGED journal
      BY <2>1 DEF CreateRecurringTemplate
  <2>2. ASSUME NEW u \in TemplateIds, NEW x \in Amounts, NEW end \in Days \cup {NoEnd},
               NEW s \in {"keep", "ACTIVE", "PAUSED"}, NEW r \in {"keep", "yes", "no"},
               UpdateRecurringTemplate(u, x, end, s, r)
        PROVE  UNCHANGED journal
      BY <2>2 DEF UpdateRecurringTemplate, ledgerVars
  <2>3. ASSUME DayPasses PROVE UNCHANGED journal
      BY <2>3 DEF DayPasses, ledgerVars
  <2>4. CASE \E u \in TemplateIds, op \in RecurringOperations, e \in Days,
                end \in Days \cup {NoEnd}, n \in Intervals :
                    CreateRecurringTemplate(u, op, e, end, n)
      BY <1>4, <2>1, <2>4
  <2>5. CASE \E u \in TemplateIds, x \in Amounts, end \in Days \cup {NoEnd},
                s \in {"keep", "ACTIVE", "PAUSED"}, r \in {"keep", "yes", "no"} :
                    UpdateRecurringTemplate(u, x, end, s, r)
      BY <1>4, <2>2, <2>5
  <2> QED BY ONLY <1>2, <1>3, <1>4, <1>6, <2>3, <2>4, <2>5,
                  \A held \in SUBSET TemplateIds : ~GenerateRecurring(held)
          DEF RecurringNext
<1> QED BY <1>5, <1>6

\* A run generates no occurrence in the future, none after the end of its
\* template and none of a template that is paused.
THEOREM OnlyDueIsGenerated == RecurringSpec => GeneratesOnlyWhatIsDue
<1>1. ASSUME GInv, GInv', [RecurringNext]_vars
      PROVE  [\A t \in TemplateIds : \A d \in OccurrenceDates(t)' \ OccurrenceDates(t) :
                 /\ d <= today
                 /\ templates[t].status = "ACTIVE"
                 /\ ~PastEnd(templates[t], d)]_vars
  <2> SUFFICES ASSUME NEW t \in TemplateIds,
                      NEW d \in OccurrenceDates(t)' \ OccurrenceDates(t)
               PROVE  /\ d <= today
                      /\ templates[t].status = "ACTIVE"
                      /\ ~PastEnd(templates[t], d)
      OBVIOUS
  <2>1. PICK held \in SUBSET TemplateIds : GenerateRecurring(held)
      BY <1>1, OthersGenerateNothing
  <2>2. /\ d \in Days /\ KeyUsed(journal', OccurrenceKey(t, d))
        /\ ~KeyUsed(journal, OccurrenceKey(t, d))
      BY DEF OccurrenceDates, OccurrenceKey
  <2>3. PICK n \in DOMAIN Batch(held) : Batch(held)[n] = Occurs(t, d)
      BY <1>1, <2>1, <2>2, RunPosts
  <2>4. TemplatesSound(templates) /\ today \in Days
      BY <1>1 DEF GInv
  <2>5. Occurs(t, d) \in Owed(held)
      BY <2>3, <2>4, BatchIsFirst
  <2>6. t \in Claimed(held) /\ d <= today /\ ~PastEnd(templates[t], d)
      BY <2>2, <2>4, <2>5, OwedDates
  <2> QED BY <2>6 DEF Claimed, Claimable, IsDue
<1> QED BY <1>1, RecurringInvariance, PTL DEF RecurringSpec, GeneratesOnlyWhatIsDue
=============================================================================
