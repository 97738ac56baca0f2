------------------------ MODULE ReconciliationProofs ------------------------
(***************************************************************************)
(* Proofs about reconciliation, for any accounts, months, balances and     *)
(* journals, provided that no client uses one key for two requests.  The   *)
(* currency of an adjustment is that of its account and need not be the    *)
(* functional one, which ConfirmReconciliation does not check again: the   *)
(* journal is sound in Currencies, not in {functional}.                    *)
(***************************************************************************)
EXTENDS Reconciliation, LedgerProofs

ReversalKeys == {ReversalKey(c, k) : c \in 1 .. MaxReconciliations, k \in ReconciliationKeys}

\* The keys that transactions have.
JournalKeys == AllKeys \cup ReconciliationKeys \cup ReversalKeys

ReconciliationRows ==
    [account : CashAccounts, period : MonthEnds, reported : ReportedBalances,
     key : ReconciliationKeys, supersedes : Nat, superseded : BOOLEAN, transaction : Nat]

PreviewRows ==
    {NoPreview} \cup
    [status : {"open", "expired", "confirmed"}, account : CashAccounts,
     period : MonthEnds, reported : ReportedBalances, ledger : Int, difference : Int,
     current : Nat]

(***************************************************************************)
(* The inductive invariant.                                                *)
(***************************************************************************)
KnownKey(recs, k) == \E r \in DOMAIN recs : recs[r].key = k

\* At most one reconciliation of an account and month is not superseded.
ReconciliationsOK(recs) ==
    /\ recs \in Seq(ReconciliationRows)
    /\ Len(recs) <= MaxReconciliations
    /\ \A r \in DOMAIN recs : recs[r].supersedes \in 0 .. r - 1
    /\ \A r, s \in DOMAIN recs :
          /\ recs[r].account = recs[s].account /\ recs[r].period = recs[s].period
          /\ ~recs[r].superseded /\ ~recs[s].superseded
          => r = s

\* What the reconciliations say of the journal.
AdjustmentsIn(j, recs) ==
    \A r \in DOMAIN recs :
        /\ recs[r].transaction \in 0 .. Len(j)
        /\ recs[r].transaction # 0 => j[recs[r].transaction].type = "RECONCILIATION"

\* What the journal says of the reconciliations.
LiveIn(j, recs) ==
    \A i \in Live(j) : j[i].type = "RECONCILIATION" =>
        \E r \in DOMAIN recs : recs[r].transaction = i /\ ~recs[r].superseded

\* A key that is used in the journal belongs to a reconciliation.
KeysIn(j, recs) ==
    \A i \in DOMAIN j : \A k \in ReconciliationKeys :
        \/ j[i].key = k
        \/ \E c \in 1 .. MaxReconciliations : j[i].key = ReversalKey(c, k)
        => KnownKey(recs, k)

PreviewsOK(prevs, recs) ==
    /\ prevs \in [ReconciliationKeys -> PreviewRows]
    /\ \A k \in ReconciliationKeys :
          /\ prevs[k].status = "open" => prevs[k].difference = prevs[k].reported - prevs[k].ledger
          /\ prevs[k].status \in {"open", "expired"} => ~KnownKey(recs, k)

RInv ==
    /\ functional \in Currencies
    /\ accounts \in AccountRows
    /\ JournalOK(journal, accounts, Currencies, JournalKeys)
    /\ ReconciliationsOK(reconciliations)
    /\ AdjustmentsIn(journal, reconciliations)
    /\ LiveIn(journal, reconciliations)
    /\ KeysIn(journal, reconciliations)
    /\ PreviewsOK(previews, reconciliations)
    /\ thisMonth \in MonthEnds

-----------------------------------------------------------------------------
(***************************************************************************)
(* Keys.                                                                   *)
(***************************************************************************)

\* The three kinds of keys have nothing in common.
LEMMA KindsOfKeys ==
    ASSUME UniqueKeys
    PROVE  /\ AllKeys \subseteq JournalKeys
           /\ ReconciliationKeys \subseteq JournalKeys
           /\ ReversalKeys \subseteq JournalKeys
           /\ ReconciliationKeys \cap AllKeys = {}
           /\ ReconciliationKeys \cap ReversalKeys = {}
           /\ ReversalKeys \cap AllKeys = {}
           /\ \A c, d, k, l : ReversalKey(c, k) = ReversalKey(d, l) => k = l
<1>1. \A c, d, k, l : ReversalKey(c, k) = ReversalKey(d, l) => k = l
    BY DEF ReversalKey
<1>2. ReconciliationKeys \cap AllKeys = {}
    BY ReconciliationConstants, DerivedReconciliationKeys DEF AllKeys
<1>3. ReconciliationKeys \cap ReversalKeys = {}
    BY DerivedReconciliationKeys DEF ReversalKeys, ReversalKey
<1>4. ReversalKeys \cap AllKeys = {}
  <2>1. \A c, k : ReversalKey(c, k) \notin {"setup", "fresh"} \X UserAccounts
      BY DEF ReversalKey
  <2>2. \A c \in 1 .. MaxReconciliations, k \in ReconciliationKeys : ReversalKey(c, k) \notin Keys
      BY DerivedReconciliationKeys DEF ReversalKey
  <2> QED BY <2>1, <2>2 DEF ReversalKeys, AllKeys
<1> QED BY <1>1, <1>2, <1>3, <1>4 DEF JournalKeys

-----------------------------------------------------------------------------
(***************************************************************************)
(* Postings of the ledger.                                                 *)
(***************************************************************************)

\* A posting that is no adjustment, with a key of a client of the ledger.
LEMMA PostedKeepsAdjustments ==
    ASSUME UniqueKeys, NEW j, NEW k, NEW accts, NEW C, NEW K, JournalOK(j, accts, C, K),
           NEW P, P \subseteq TransactionsWith(K), Posted(j, k, accts, C, P),
           \A x \in P : x.type # "RECONCILIATION" /\ x.key \in AllKeys,
           NEW recs, AdjustmentsIn(j, recs), LiveIn(j, recs), KeysIn(j, recs)
    PROVE  AdjustmentsIn(k, recs) /\ LiveIn(k, recs) /\ KeysIn(k, recs)
<1>1. j \in Seq(TransactionsWith(K))
    BY DEF JournalOK
<1>2. /\ k \in Seq(TransactionsWith(K))
      /\ DOMAIN j \subseteq DOMAIN k
      /\ \A i \in DOMAIN j : k[i] = j[i]
      /\ \A i \in DOMAIN k \ DOMAIN j : k[i] \in P
      /\ Live(k) \cap DOMAIN j \subseteq Live(j)
    BY <1>1, PostedExtends
<1>3. /\ DOMAIN j = 1 .. Len(j) /\ DOMAIN k = 1 .. Len(k)
      /\ Len(j) \in Nat /\ Len(k) \in Nat
    BY <1>1, <1>2
<1>4. AdjustmentsIn(k, recs)
  <2>1. 0 .. Len(j) \subseteq 0 .. Len(k)
      BY <1>2, <1>3
  <2>2. \A t \in 0 .. Len(j) : t # 0 => k[t] = j[t]
      BY <1>2, <1>3
  <2> QED BY <2>1, <2>2 DEF AdjustmentsIn
<1>5. LiveIn(k, recs)
  <2> SUFFICES ASSUME NEW i \in Live(k), k[i].type = "RECONCILIATION"
               PROVE  \E r \in DOMAIN recs : recs[r].transaction = i /\ ~recs[r].superseded
      BY DEF LiveIn
  <2>1. i \in DOMAIN j
      BY <1>2 DEF Live
  <2>2. i \in Live(j) /\ j[i].type = "RECONCILIATION"
      BY <1>2, <2>1
  <2> QED BY <2>2 DEF LiveIn
<1>6. KeysIn(k, recs)
  <2> SUFFICES ASSUME NEW i \in DOMAIN k, NEW key \in ReconciliationKeys,
                      \/ k[i].key = key
                      \/ \E c \in 1 .. MaxReconciliations : k[i].key = ReversalKey(c, key)
               PROVE  KnownKey(recs, key)
      BY DEF KeysIn
  <2>1. i \in DOMAIN j
    <3>1. k[i].key \notin AllKeys
        BY KindsOfKeys DEF ReversalKeys
    <3> QED BY <1>2, <3>1
  <2> QED BY <1>2, <2>1 DEF KeysIn
<1> QED BY <1>4, <1>5, <1>6

\* A handler of the ledger leaves reconciliations as they are.
LEMMA LedgerStepKeeps ==
    ASSUME UniqueKeys, RInv, LedgerStep
    PROVE  RInv'
<1> DEFINE C == Currencies
           K == JournalKeys
           P == LedgerPostings(accounts')
<1>1. Next /\ reconciliations' = reconciliations /\ previews' = previews /\ thisMonth' = thisMonth
    BY DEF LedgerStep, reconciliationVars
<1>2. functional \in Currencies /\ functional' \in C /\ functional' \in Currencies
    BY <1>1, CurrencyMoves DEF RInv
<1>3. accounts \in AccountRows /\ JournalOK(journal, accounts, C, K) /\ AllKeys \subseteq K
    BY KindsOfKeys DEF RInv
<1> HIDE DEF C, K, P
<1>4. HandlerEffect(C, K)
    BY <1>1, <1>2, <1>3, NextEffect
<1>5. JournalOK(journal', accounts', C, K)
    BY <1>3, <1>4, HandlerKeepsJournal
<1>6. accounts' \in AccountRows /\ JournalOK(journal, accounts', C, K)
    BY <1>4 DEF HandlerEffect
<1>7. PICK m : Posted(journal, m, accounts', C, P) /\ Posted(m, journal', accounts', C, P)
    BY <1>4 DEF HandlerEffect, P
<1>8. /\ P \subseteq TransactionsWith(K)
      /\ \A x \in P : x.type # "RECONCILIATION" /\ x.key \in AllKeys
  <2>1. P \subseteq TransactionsWith(K)
      BY <1>3, LedgerPostingsTyped DEF P
  <2>2. \A x \in P : x.key \in AllKeys
      BY DEF P, LedgerPostings, TransactionsWith
  <2>3. \A x \in P : x.type # "RECONCILIATION"
      BY DEF P, LedgerPostings, TypedOperations
  <2> QED BY <2>1, <2>2, <2>3
<1>9. JournalOK(m, accounts', C, K)
    BY <1>6, <1>7, <1>8, PostedKeepsJournal
<1> DEFINE recs == reconciliations
<1>10. AdjustmentsIn(journal, recs) /\ LiveIn(journal, recs) /\ KeysIn(journal, recs)
    BY DEF RInv
<1> HIDE DEF recs
<1>11. AdjustmentsIn(m, recs) /\ LiveIn(m, recs) /\ KeysIn(m, recs)
    BY <1>6, <1>7, <1>8, <1>10, PostedKeepsAdjustments
<1>12. AdjustmentsIn(journal', recs) /\ LiveIn(journal', recs) /\ KeysIn(journal', recs)
    BY <1>7, <1>8, <1>9, <1>11, PostedKeepsAdjustments
<1> QED BY <1>1, <1>2, <1>5, <1>6, <1>12 DEF RInv, C, K, recs
-----------------------------------------------------------------------------
(***************************************************************************)
(* A reconciliation is applied.                                            *)
(***************************************************************************)

\* The row that is not superseded is the only one of its account and month.
LEMMA ActiveIs ==
    ASSUME NEW recs, ReconciliationsOK(recs), NEW a, NEW p,
           NEW current, current = ActiveReconciliation(recs, a, p)
    PROVE  /\ current = 0 \/ current \in DOMAIN recs
           /\ DOMAIN recs = 1 .. Len(recs) /\ Len(recs) \in Nat
           /\ \A r \in DOMAIN recs :
                 recs[r].account = a /\ recs[r].period = p /\ ~recs[r].superseded
                 => r = current
<1> DEFINE active == ActiveReconciliations(recs, a, p)
<1>1. DOMAIN recs = 1 .. Len(recs) /\ Len(recs) \in Nat
    BY DEF ReconciliationsOK
<1>2. \A r, s \in active : r = s
    BY DEF ActiveReconciliations, ReconciliationsOK
<1>3. active \subseteq DOMAIN recs
    BY DEF ActiveReconciliations
<1>4. current = IF active = {} THEN 0 ELSE CHOOSE r \in active : TRUE
    BY DEF ActiveReconciliation
<1>5. \A r \in DOMAIN recs :
        recs[r].account = a /\ recs[r].period = p /\ ~recs[r].superseded => r \in active
    BY DEF ActiveReconciliations
<1> HIDE DEF active
<1>6. active # {} => current \in active
    BY <1>4
<1> QED BY <1>1, <1>2, <1>3, <1>4, <1>5, <1>6

\* The adjustment may be posted, in the currency of its account.
LEMMA AdjustmentMayFollow ==
    ASSUME accounts \in AccountRows, NEW j, NEW a \in CashAccounts, IsActive(accounts, a),
           NEW period \in MonthEnds, NEW amount \in Int, amount # 0,
           NEW key \in ReconciliationKeys, NEW x, x = Adjustment(a, period, amount, key),
           Accepted(j, accounts, x), ~KeyUsed(j, key)
    PROVE  /\ MayFollow(x, j, accounts, Currencies) /\ x \in TransactionsWith(JournalKeys)
           /\ x.key = key /\ x.type = "RECONCILIATION" /\ x.date = period
           /\ Delta(x, a) = amount
<1> DEFINE type == "RECONCILIATION"
           b == IF amount > 0 THEN "OTHER_INCOME" ELSE "OTHER_EXPENSE"
           currency == accounts[a].currency
           C == Currencies
<1>1. x = JournalSpec(type, period, key, 0, 0,
              <<Entry(a, amount, currency), Entry(b, -amount, currency)>>)
    BY DEF Adjustment
<1>2. x.type = type /\ x.key = key /\ x.reverses = 0 /\ x.replaces = 0 /\ x.date = period
    BY <1>1 DEF JournalSpec
<1>3. a \in LedgerAccounts /\ b \in LedgerAccounts /\ a # b
    BY LedgerConstants, ReconciliationConstants DEF LedgerAccounts, SystemAccounts
<1>4. currency \in Currencies
  <2>1. accounts[a] \in Rows /\ accounts[a].status = "active"
      BY <1>3 DEF AccountRows, IsActive
  <2>2. accounts[a] # Absent
      BY <2>1 DEF Absent
  <2> QED BY <2>1, <2>2 DEF Rows
<1>5. type \in TransactionTypes /\ type # "REVERSAL" /\ period \in Nat
    BY LedgerConstants, ReconciliationConstants DEF TransactionTypes, TypedOperations
<1>6. currency \in C
    BY <1>4
<1> HIDE DEF type, b, currency, C
<1>7. /\ WellFormed(x) /\ SoundTransaction(x, accounts, C)
      /\ x.entries[1].account = a /\ x.entries[1].amount = amount
    BY <1>1, <1>3, <1>4, <1>5, <1>6, AcceptedIsSound
<1>8. x \in TransactionsWith(JournalKeys)
  <2>1. key \in JournalKeys
      BY DEF JournalKeys
  <2> QED BY <1>2, <1>7, <2>1, KeyedBy
<1>9. MayFollow(x, j, accounts, C)
    BY <1>2, <1>5, <1>7 DEF MayFollow, MayReplace
<1>10. Delta(x, a) = amount
  <2>1. a = x.entries[1].account => Delta(x, a) = x.entries[1].amount
      BY <1>7, <1>8, DeltaIs
  <2> QED BY <1>7, <2>1
<1> QED BY <1>2, <1>8, <1>9, <1>10 DEF C, type

\* What applyReconciliation does: at most one reversal, of the adjustment old of
\* the reconciliation in force, then at most one adjustment, then the new row.
Applied(current, old, a, period, reported, key, cleared, reversal, x, row) ==
    /\ old = 0 => cleared = journal
    /\ old # 0 => /\ cleared = Append(journal, reversal)
                  /\ MayFollow(reversal, journal, accounts, Currencies)
                  /\ reversal \in TransactionsWith(JournalKeys)
                  /\ reversal.type = "REVERSAL" /\ reversal.reverses = old
                  /\ reversal.key = ReversalKey(current, key)
                  /\ current \in 1 .. MaxReconciliations
    /\ \/ journal' = cleared /\ row.transaction = 0
       \/ /\ journal' = Append(cleared, x)
          /\ MayFollow(x, cleared, accounts, Currencies)
          /\ x \in TransactionsWith(JournalKeys)
          /\ x.key = key /\ x.type = "RECONCILIATION"
          /\ row.transaction = Len(cleared) + 1
    /\ JournalOK(cleared, accounts, Currencies, JournalKeys)
    /\ JournalOK(journal', accounts, Currencies, JournalKeys)
    /\ BalanceAt(journal', a, period) = reported
    /\ row \in ReconciliationRows
    /\ row.account = a /\ row.period = period /\ row.reported = reported
    /\ row.key = key /\ row.supersedes = current /\ row.superseded = FALSE
    /\ Len(reconciliations) < MaxReconciliations
    /\ reconciliations' =
          Append([r \in DOMAIN reconciliations |->
                    [reconciliations[r] EXCEPT !.superseded = @ \/ r = current]], row)

\* applyReconciliation with a key that is not reconciled yet does so, and the
\* balance is the reported one afterwards.
LEMMA ApplyPosts ==
    ASSUME UniqueKeys, RInv, UNCHANGED accounts,
           NEW a \in CashAccounts, IsActive(accounts, a), NEW period \in MonthEnds,
           NEW reported \in ReportedBalances, NEW key \in ReconciliationKeys,
           ~ReconciledWith(key), ApplyReconciliation(a, period, reported, key),
           NEW current, current = ActiveReconciliation(reconciliations, a, period),
           NEW old, old = IF current = 0 THEN 0 ELSE reconciliations[current].transaction
    PROVE  \E cleared, reversal, x, row :
               Applied(current, old, a, period, reported, key, cleared, reversal, x, row)
<1> DEFINE K == JournalKeys
           C == Currencies
           reversal == ReversalOf(journal, old, ReversalKey(current, key))
           cleared == WithoutAdjustment(old, reversal)
           amount == AdjustmentAmount(cleared, a, period, reported)
           x == Adjustment(a, period, amount, key)
           posted == IF amount = 0 THEN cleared ELSE PostJournal(cleared, x)
           transaction == IF amount = 0 THEN 0 ELSE TransactionWithKey(posted, key)
           row == [account |-> a, period |-> period, reported |-> reported,
                   key |-> key, supersedes |-> current, superseded |-> FALSE,
                   transaction |-> transaction]
<1>1. /\ accounts \in AccountRows
      /\ JournalOK(journal, accounts, C, K)
      /\ ReconciliationsOK(reconciliations)
      /\ KeysIn(journal, reconciliations)
    BY DEF RInv
<1>2. /\ Len(reconciliations) < MaxReconciliations
      /\ old # 0 => Reversible(journal, old) /\ Accepted(journal, accounts, reversal)
      /\ amount # 0 => Accepted(cleared, accounts, x)
      /\ journal' = posted
      /\ reconciliations' =
             Append([r \in DOMAIN reconciliations |->
                       [reconciliations[r] EXCEPT
                           !.superseded = @ \/ r = current]], row)
    BY DEF ApplyReconciliation
<1>3. ~KnownKey(reconciliations, key)
    BY DEF ReconciledWith, KnownKey
<1>4. old # 0 => current \in 1 .. MaxReconciliations
  <2>1. current = 0 \/ current \in 1 .. Len(reconciliations)
      BY <1>1, ActiveIs
  <2>2. Len(reconciliations) \in Nat /\ MaxReconciliations \in Nat
      BY <1>1, ReconciliationConstants DEF ReconciliationsOK
  <2> QED BY <1>2, <2>1, <2>2
<1> DEFINE reversalKey == ReversalKey(current, key)
<1>5. /\ old # 0 => reversalKey \in K /\ ~KeyUsed(journal, reversalKey) /\ reversalKey # key
      /\ ~KeyUsed(journal, key)
  <2>1. ~KeyUsed(journal, key)
      BY <1>1, <1>3 DEF KeysIn, KeyUsed
  <2>2. ASSUME old # 0 PROVE ~KeyUsed(journal, reversalKey)
      BY <1>1, <1>3, <1>4, <2>2 DEF KeysIn, KeyUsed
  <2>3. ASSUME old # 0 PROVE reversalKey \in ReversalKeys
      BY <1>4, <2>3 DEF ReversalKeys
  <2> QED BY <2>1, <2>2, <2>3, KindsOfKeys
<1>6. reversal.key = reversalKey /\ reversal.reverses = old
    BY DEF ReversalOf, JournalSpec
<1> HIDE DEF reversalKey, K, C
<1>7. old # 0 => /\ MayFollow(reversal, journal, accounts, C)
                 /\ reversal \in TransactionsWith(K) /\ reversal.type = "REVERSAL"
  <2>1. CASE old # 0
    <3>1. /\ MayFollow(ReversalOf(journal, old, reversalKey), journal, accounts, C)
          /\ ReversalOf(journal, old, reversalKey) \in TransactionsWith(K)
          /\ ReversalOf(journal, old, reversalKey).type = "REVERSAL"
        BY <1>1, <1>2, <1>5, <2>1, ReversalMayFollow
    <3> QED BY <3>1 DEF reversalKey
  <2> QED BY <2>1
<1> HIDE DEF reversal
<1>8. cleared = IF old = 0 THEN journal ELSE Append(journal, reversal)
    BY <1>5, <1>6 DEF WithoutAdjustment, PostJournal
<1> HIDE DEF cleared
<1>9. JournalOK(cleared, accounts, C, K)
    BY <1>1, <1>7, <1>8, JournalGrows
<1>10. ~KeyUsed(cleared, key)
  <2>1. CASE old = 0
      BY <1>5, <1>8, <2>1
  <2>2. CASE old # 0
    <3>1. journal \in Seq(TransactionsWith(K)) /\ reversal \in TransactionsWith(K)
        BY <1>1, <1>7, <2>2 DEF JournalOK
    <3>2. /\ DOMAIN cleared = 1 .. Len(journal) + 1
          /\ DOMAIN journal = 1 .. Len(journal) /\ Len(journal) \in Nat
          /\ \A i \in DOMAIN journal : cleared[i] = journal[i]
          /\ cleared[Len(journal) + 1] = reversal
        BY <1>8, <2>2, <3>1, Appended
    <3> QED BY <1>5, <1>6, <2>2, <3>2 DEF KeyUsed
  <2> QED BY <2>1, <2>2
<1>11. /\ cleared \in Seq(TransactionsWith(K)) /\ DeltasOf(cleared, a)
       /\ BalanceAt(cleared, a, period) \in Int
  <2>1. cleared \in Seq(TransactionsWith(K)) /\ DeltasOf(cleared, a)
      BY <1>9, SoundDeltas DEF JournalOK
  <2>2. UpTo(cleared, period) \subseteq DOMAIN cleared
      BY DEF UpTo
  <2>3. Moved(cleared, a, UpTo(cleared, period)) \in Int
      BY <2>1, <2>2, MovedType
  <2> QED BY <2>1, <2>3 DEF BalanceAt, Moved, UpTo
<1>12. amount \in Int /\ BalanceAt(cleared, a, period) + amount = reported
    BY <1>11, ReconciliationConstants DEF AdjustmentAmount
<1> HIDE DEF amount
<1>13. x = Adjustment(a, period, amount, key)
    OBVIOUS
<1> HIDE DEF x
<1>14. amount # 0 =>
         /\ MayFollow(x, cleared, accounts, C) /\ x \in TransactionsWith(K)
         /\ x.key = key /\ x.type = "RECONCILIATION" /\ x.date = period
         /\ Delta(x, a) = amount
  <2>1. CASE amount # 0
    <3>1. Accepted(cleared, accounts, x)
        BY <1>2, <2>1
    <3> QED BY <1>1, <1>10, <1>12, <1>13, <2>1, <3>1, AdjustmentMayFollow DEF C, K
  <2> QED BY <2>1
<1>15. posted = IF amount = 0 THEN cleared ELSE Append(cleared, x)
    BY <1>10, <1>14 DEF PostJournal
<1> HIDE DEF posted
<1>16. JournalOK(posted, accounts, C, K)
    BY <1>9, <1>14, <1>15, JournalGrows
<1>17. amount # 0 => /\ DOMAIN posted = 1 .. Len(cleared) + 1
                     /\ DOMAIN cleared = 1 .. Len(cleared) /\ Len(cleared) \in Nat
                     /\ \A i \in DOMAIN cleared : posted[i] = cleared[i]
                     /\ posted[Len(cleared) + 1] = x
    BY <1>11, <1>14, <1>15, Appended
<1>18. transaction = IF amount = 0 THEN 0 ELSE Len(cleared) + 1
  <2>1. CASE amount = 0
      BY <2>1
  <2>2. CASE amount # 0
    <3>1. \A i \in DOMAIN posted : posted[i].key = key <=> i = Len(cleared) + 1
        BY <1>10, <1>14, <1>17, <2>2 DEF KeyUsed
    <3>2. TransactionWithKey(posted, key) = Len(cleared) + 1
        BY <1>17, <2>2, <3>1 DEF TransactionWithKey
    <3> QED BY <2>2, <3>2
  <2> QED BY <2>1, <2>2
<1> HIDE DEF transaction
<1>19. BalanceAt(posted, a, period) = reported
  <2>1. CASE amount = 0
      BY <1>11, <1>12, <1>15, <2>1
  <2>2. CASE amount # 0
    <3>1. BalanceAt(Append(cleared, x), a, period) =
            BalanceAt(cleared, a, period) + IF x.date <= period THEN Delta(x, a) ELSE 0
        BY <1>11, <1>12, <1>14, <2>2, BalanceGrows
    <3>2. period \in Nat
        BY LedgerConstants, ReconciliationConstants
    <3> QED BY <1>12, <1>14, <1>15, <2>2, <3>1, <3>2
  <2> QED BY <2>1, <2>2
<1>20. /\ row.account = a /\ row.period = period /\ row.reported = reported
       /\ row.key = key /\ row.supersedes = current /\ row.superseded = FALSE
       /\ row.transaction = IF amount = 0 THEN 0 ELSE Len(cleared) + 1
    BY <1>18
<1>21. row \in ReconciliationRows
  <2>1. current \in Nat /\ Len(cleared) \in Nat
      BY <1>1, <1>11, ActiveIs
  <2>2. transaction \in Nat
      BY <1>18, <2>1
  <2> QED BY <2>1, <2>2 DEF ReconciliationRows
<1> HIDE DEF row
<1>22. /\ old = 0 => cleared = journal
       /\ old # 0 => /\ cleared = Append(journal, reversal)
                     /\ MayFollow(reversal, journal, accounts, Currencies)
                     /\ reversal \in TransactionsWith(JournalKeys)
                     /\ reversal.type = "REVERSAL" /\ reversal.reverses = old
                     /\ reversal.key = ReversalKey(current, key)
                     /\ current \in 1 .. MaxReconciliations
    BY <1>4, <1>6, <1>7, <1>8 DEF C, K, reversalKey
<1>23. \/ journal' = cleared /\ row.transaction = 0
       \/ /\ journal' = Append(cleared, x)
          /\ MayFollow(x, cleared, accounts, Currencies)
          /\ x \in TransactionsWith(JournalKeys)
          /\ x.key = key /\ x.type = "RECONCILIATION"
          /\ row.transaction = Len(cleared) + 1
    BY <1>2, <1>14, <1>15, <1>20 DEF C, K
<1>24. Applied(current, old, a, period, reported, key, cleared, reversal, x, row)
    BY <1>2, <1>9, <1>16, <1>19, <1>20, <1>22, <1>23, <1>21 DEF Applied, C, K
<1> QED BY <1>24

\* Recording it keeps the invariant of the tables, makes its key a known one,
\* and reaches the reported balance.
LEMMA ApplyKeeps ==
    ASSUME UniqueKeys, RInv, UNCHANGED accounts,
           NEW a \in CashAccounts, IsActive(accounts, a), NEW period \in MonthEnds,
           NEW reported \in ReportedBalances, NEW key \in ReconciliationKeys,
           ~ReconciledWith(key), ApplyReconciliation(a, period, reported, key)
    PROVE  /\ JournalOK(journal', accounts, Currencies, JournalKeys)
           /\ ReconciliationsOK(reconciliations')
           /\ AdjustmentsIn(journal', reconciliations')
           /\ LiveIn(journal', reconciliations')
           /\ KeysIn(journal', reconciliations')
           /\ \A k : KnownKey(reconciliations', k) => KnownKey(reconciliations, k) \/ k = key
           /\ BalanceAt(journal', a, period) = reported
           /\ \A r \in DOMAIN reconciliations' \ DOMAIN reconciliations :
                 /\ reconciliations'[r].account = a /\ reconciliations'[r].period = period
                 /\ reconciliations'[r].reported = reported
<1> DEFINE C == Currencies
           K == JournalKeys
           recs == reconciliations
           current == ActiveReconciliation(recs, a, period)
           old == IF current = 0 THEN 0 ELSE recs[current].transaction
           marked == [r \in DOMAIN recs |->
                         [recs[r] EXCEPT !.superseded = @ \/ r = current]]
           after == reconciliations'
           n == Len(recs) + 1
<1>0. /\ current = ActiveReconciliation(recs, a, period)
      /\ old = IF current = 0 THEN 0 ELSE recs[current].transaction
    OBVIOUS
<1> HIDE DEF current, old
<1>1. PICK cleared, reversal, x, row :
        Applied(current, old, a, period, reported, key, cleared, reversal, x, row)
    BY <1>0, ApplyPosts
<1>2. /\ ReconciliationsOK(recs) /\ recs \in Seq(ReconciliationRows)
      /\ AdjustmentsIn(journal, recs) /\ LiveIn(journal, recs) /\ KeysIn(journal, recs)
      /\ JournalOK(journal, accounts, C, K)
    BY DEF RInv, ReconciliationsOK
<1>3. /\ current = 0 \/ current \in DOMAIN recs
      /\ DOMAIN recs = 1 .. Len(recs) /\ Len(recs) \in Nat
      /\ \A r \in DOMAIN recs :
            recs[r].account = a /\ recs[r].period = period /\ ~recs[r].superseded
            => r = current
    BY <1>0, <1>2, ActiveIs
<1>4. \A r \in DOMAIN recs : recs[r] \in ReconciliationRows
    BY <1>2
<1>5. \A r \in DOMAIN recs :
        /\ marked[r] \in ReconciliationRows
        /\ marked[r].account = recs[r].account /\ marked[r].period = recs[r].period
        /\ marked[r].reported = recs[r].reported /\ marked[r].key = recs[r].key
        /\ marked[r].supersedes = recs[r].supersedes
        /\ marked[r].transaction = recs[r].transaction
        /\ marked[r].superseded <=> recs[r].superseded \/ r = current
    BY <1>4 DEF ReconciliationRows
<1>6. marked \in Seq(ReconciliationRows) /\ Len(marked) = Len(recs)
  <2>1. marked \in [1 .. Len(recs) -> ReconciliationRows]
      BY <1>3, <1>5
  <2> HIDE DEF marked
  <2> QED BY <1>3, <2>1
<1>7. row \in ReconciliationRows /\ after = Append(marked, row) /\ n - 1 < MaxReconciliations
    BY <1>1, <1>3 DEF Applied
<1> HIDE DEF marked
<1>8. /\ after \in Seq(ReconciliationRows) /\ Len(after) = n
      /\ DOMAIN after = 1 .. n /\ DOMAIN recs = 1 .. n - 1 /\ n \in Nat
      /\ n \in DOMAIN after
      /\ \A r \in DOMAIN recs : after[r] = marked[r]
      /\ after[n] = row
    BY <1>3, <1>6, <1>7, Appended
<1>9. /\ row.account = a /\ row.period = period /\ row.reported = reported
      /\ row.key = key /\ row.supersedes = current /\ ~row.superseded
    BY <1>1 DEF Applied
<1> HIDE DEF after, n
<1>10. ReconciliationsOK(after)
  <2>1. n <= MaxReconciliations
      BY <1>7, <1>8, ReconciliationConstants
  <2>2. ASSUME NEW r \in DOMAIN after PROVE after[r].supersedes \in 0 .. r - 1
    <3>1. CASE r = n
        BY <1>3, <1>8, <1>9, <3>1
    <3>2. CASE r \in DOMAIN recs
        BY <1>2, <1>5, <1>8, <3>2 DEF ReconciliationsOK
    <3> QED BY <1>8, <3>1, <3>2
  <2>3. ASSUME NEW r \in DOMAIN after, NEW s \in DOMAIN after,
               after[r].account = after[s].account, after[r].period = after[s].period,
               ~after[r].superseded, ~after[s].superseded
        PROVE  r = s
    <3>1. CASE r = n /\ s = n
        BY <3>1
    <3>2. CASE r \in DOMAIN recs /\ s \in DOMAIN recs
        BY <1>2, <1>5, <1>8, <2>3, <3>2 DEF ReconciliationsOK
    <3>3. CASE r = n /\ s \in DOMAIN recs
        BY <1>3, <1>5, <1>8, <1>9, <2>3, <3>3
    <3>4. CASE r \in DOMAIN recs /\ s = n
        BY <1>3, <1>5, <1>8, <1>9, <2>3, <3>4
    <3> QED BY <1>8, <3>1, <3>2, <3>3, <3>4
  <2> QED BY <1>8, <2>1, <2>2, <2>3 DEF ReconciliationsOK
<1>11. \A k : KnownKey(recs, k) => KnownKey(after, k)
    BY <1>5, <1>8 DEF KnownKey
<1>12. KnownKey(after, key)
  <2>1. n \in DOMAIN after /\ after[n].key = key
      BY <1>8, <1>9
  <2> QED BY <2>1 DEF KnownKey
<1>13. \A k : KnownKey(after, k) => KnownKey(recs, k) \/ k = key
  <2> SUFFICES ASSUME NEW k, NEW r \in DOMAIN after, after[r].key = k, k # key
               PROVE  KnownKey(recs, k)
      BY DEF KnownKey
  <2>1. r \in DOMAIN recs
      BY <1>8, <1>9
  <2> QED BY <1>5, <1>8, <2>1 DEF KnownKey
<1>14. \A r \in DOMAIN after \ DOMAIN recs :
         after[r].account = a /\ after[r].period = period /\ after[r].reported = reported
    BY <1>8, <1>9
<1>15. /\ journal \in Seq(TransactionsWith(K)) /\ cleared \in Seq(TransactionsWith(K))
       /\ DOMAIN journal = 1 .. Len(journal) /\ Len(journal) \in Nat
       /\ DOMAIN cleared = 1 .. Len(cleared) /\ Len(cleared) \in Nat
    BY <1>1, <1>2 DEF JournalOK, Applied
<1>16. /\ \A i \in DOMAIN journal : i \in DOMAIN cleared /\ cleared[i] = journal[i]
       /\ \A i \in DOMAIN cleared \ DOMAIN journal :
             /\ cleared[i] = reversal /\ old # 0 /\ reversal.type = "REVERSAL"
             /\ reversal.key = ReversalKey(current, key)
       /\ old # 0 => /\ Len(journal) + 1 \in DOMAIN cleared
                     /\ cleared[Len(journal) + 1] = reversal /\ reversal.reverses = old
       /\ Len(journal) <= Len(cleared)
  <2>1. CASE old = 0
      BY <1>1, <1>15, <2>1 DEF Applied
  <2>2. CASE old # 0
    <3>1. /\ cleared = Append(journal, reversal) /\ reversal \in TransactionsWith(K)
          /\ reversal.type = "REVERSAL" /\ reversal.reverses = old
          /\ reversal.key = ReversalKey(current, key)
        BY <1>1, <2>2 DEF Applied
    <3> QED BY <1>15, <2>2, <3>1, Appended
  <2> QED BY <2>1, <2>2
<1>17. /\ \A i \in DOMAIN cleared : i \in DOMAIN journal' /\ journal'[i] = cleared[i]
       /\ \A i \in DOMAIN journal' \ DOMAIN cleared :
             /\ i = row.transaction /\ journal'[i].type = "RECONCILIATION"
             /\ journal'[i].key = key
       /\ row.transaction \in 0 .. Len(journal')
       /\ row.transaction # 0 => journal'[row.transaction].type = "RECONCILIATION"
       /\ Len(cleared) <= Len(journal') /\ Len(journal') \in Nat
  <2>1. CASE journal' = cleared /\ row.transaction = 0
      BY <1>15, <2>1
  <2>2. CASE /\ journal' = Append(cleared, x) /\ x \in TransactionsWith(K)
             /\ x.key = key /\ x.type = "RECONCILIATION"
             /\ row.transaction = Len(cleared) + 1
    <3>1. /\ Len(journal') = Len(cleared) + 1
          /\ DOMAIN journal' = 1 .. Len(cleared) + 1
          /\ \A i \in 1 .. Len(cleared) : journal'[i] = cleared[i]
          /\ journal'[Len(cleared) + 1] = x
        BY <1>15, <2>2, Appended
    <3> QED BY <1>15, <2>2, <3>1
  <2> QED BY <1>1, <2>1, <2>2 DEF Applied
<1>18. AdjustmentsIn(journal', after)
  <2> SUFFICES ASSUME NEW r \in DOMAIN after
               PROVE  /\ after[r].transaction \in 0 .. Len(journal')
                      /\ after[r].transaction # 0 =>
                            journal'[after[r].transaction].type = "RECONCILIATION"
      BY DEF AdjustmentsIn
  <2>1. CASE r = n
      BY <1>8, <1>17, <2>1
  <2>2. CASE r \in DOMAIN recs
    <3> DEFINE t == recs[r].transaction
    <3>1. t \in 0 .. Len(journal) /\ (t # 0 => journal[t].type = "RECONCILIATION")
        BY <1>2, <2>2 DEF AdjustmentsIn
    <3>2. after[r].transaction = t
        BY <1>5, <1>8, <2>2
    <3> HIDE DEF t
    <3>3. t \in 0 .. Len(journal')
        BY <1>15, <1>16, <1>17, <3>1
    <3>4. t # 0 => journal'[t] = journal[t]
        BY <1>15, <1>16, <1>17, <3>1
    <3> QED BY <3>1, <3>2, <3>3, <3>4
  <2> QED BY <1>8, <2>1, <2>2
<1>19. LiveIn(journal', after)
  <2> SUFFICES ASSUME NEW i \in Live(journal'), journal'[i].type = "RECONCILIATION"
               PROVE  \E r \in DOMAIN after : after[r].transaction = i /\ ~after[r].superseded
      BY DEF LiveIn
  <2>1. /\ i \in DOMAIN journal'
        /\ \A m \in DOMAIN journal' : journal'[m].reverses # i
      BY DEF Live, ReversedBy
  <2>2. CASE i \notin DOMAIN cleared
    <3>1. row.transaction = i
        BY <1>17, <2>1, <2>2
    <3>2. n \in DOMAIN after /\ after[n].transaction = i /\ ~after[n].superseded
        BY <1>8, <1>9, <3>1
    <3> QED BY <3>2
  <2>3. CASE i \in DOMAIN cleared
    <3>1. cleared[i].type = "RECONCILIATION"
        BY <1>17, <2>3
    <3>2. i \in DOMAIN journal /\ journal[i].type = "RECONCILIATION"
        BY <1>16, <2>3, <3>1
    <3>3. \A m \in DOMAIN journal : journal[m].reverses # i
        BY <1>16, <1>17, <2>1
    <3>4. i \in Live(journal)
        BY <3>2, <3>3 DEF Live, ReversedBy
    <3>5. PICK r \in DOMAIN recs : recs[r].transaction = i /\ ~recs[r].superseded
        BY <1>2, <3>2, <3>4 DEF LiveIn
    <3>6. r # current
      <4> SUFFICES ASSUME r = current PROVE FALSE
          OBVIOUS
      <4>1. current # 0 /\ i # 0
          BY <1>3, <1>15, <3>2, <3>5
      <4>2. old = i /\ old # 0
          BY <1>0, <3>5, <4>1
      <4> QED BY <1>16, <1>17, <2>1, <4>2
    <3>7. after[r].transaction = i /\ ~after[r].superseded /\ r \in DOMAIN after
        BY <1>5, <1>8, <3>5, <3>6
    <3> QED BY <3>7
  <2> QED BY <2>2, <2>3
<1>20. KeysIn(journal', after)
  <2> SUFFICES ASSUME NEW i \in DOMAIN journal', NEW k \in ReconciliationKeys,
                      \/ journal'[i].key = k
                      \/ \E c \in 1 .. MaxReconciliations : journal'[i].key = ReversalKey(c, k)
               PROVE  KnownKey(after, k)
      BY DEF KeysIn
  <2>1. CASE i \in DOMAIN journal
    <3>1. KnownKey(recs, k)
        BY <1>2, <1>16, <1>17, <2>1 DEF KeysIn
    <3> QED BY <1>11, <3>1
  <2>2. CASE i \in DOMAIN cleared \ DOMAIN journal
    <3>1. journal'[i].key = ReversalKey(current, key) /\ old # 0
        BY <1>16, <1>17, <2>2
    <3>2. current \in 1 .. MaxReconciliations
        BY <1>1, <3>1 DEF Applied
    <3>3. k = key
        BY <3>1, <3>2, KindsOfKeys DEF ReversalKeys
    <3> QED BY <1>12, <3>3
  <2>3. CASE i \notin DOMAIN cleared
    <3>1. journal'[i].key = key
        BY <1>17, <2>3
    <3>2. k = key
        BY <3>1, KindsOfKeys DEF ReversalKeys
    <3> QED BY <1>12, <3>2
  <2> QED BY <2>1, <2>2, <2>3
<1>21. /\ JournalOK(journal', accounts, Currencies, JournalKeys)
       /\ BalanceAt(journal', a, period) = reported
    BY <1>1 DEF Applied
<1> QED BY <1>10, <1>13, <1>14, <1>18, <1>19, <1>20, <1>21 DEF after

-----------------------------------------------------------------------------
(***************************************************************************)
(* Every step keeps the invariant and the two promises about balances.     *)
(***************************************************************************)

\* What the action properties say of a step.
Reached ==
    \A r \in DOMAIN reconciliations' \ DOMAIN reconciliations :
        BalanceAt(journal', reconciliations'[r].account, reconciliations'[r].period)
        = reconciliations'[r].reported

AsPreviewed ==
    \A k \in ReconciliationKeys :
        previews[k].status = "open" /\ previews'[k].status = "confirmed" =>
           BalanceAt(journal', previews[k].account, previews[k].period)
           - BalanceAt(journal, previews[k].account, previews[k].period)
           = previews[k].difference

Kept == RInv' /\ Reached /\ AsPreviewed

\* A key with an open preview keeps the accounts, months and balances it had.
LEMMA OpenPreview ==
    ASSUME NEW prevs, NEW recs, PreviewsOK(prevs, recs),
           NEW k \in ReconciliationKeys, prevs[k].status # "none"
    PROVE  /\ prevs[k] \in [status : {"open", "expired", "confirmed"}, account : CashAccounts,
                            period : MonthEnds, reported : ReportedBalances, ledger : Int,
                            difference : Int, current : Nat]
<1>1. prevs[k] \in PreviewRows
    BY DEF PreviewsOK
<1>2. prevs[k] # NoPreview
    BY DEF NoPreview
<1> QED BY <1>1, <1>2 DEF PreviewRows

\* PrepareReconciliation in AUTO mode.
LEMMA PrepareAutoKeeps ==
    ASSUME UniqueKeys, RInv, NEW a \in CashAccounts, NEW period \in MonthEnds,
           NEW reported \in ReportedBalances, NEW key \in ReconciliationKeys,
           PrepareAuto(a, period, reported, key)
    PROVE  Kept
<1>1. /\ ~ReconciledWith(key) /\ previews[key].status = "none" /\ IsActive(accounts, a)
      /\ ApplyReconciliation(a, period, reported, key)
      /\ UNCHANGED <<functional, onboarded, accounts, previews, thisMonth>>
    BY DEF PrepareAuto, CanPrepare, LockReconciliationAccount
<1>2. /\ JournalOK(journal', accounts, Currencies, JournalKeys)
      /\ ReconciliationsOK(reconciliations')
      /\ AdjustmentsIn(journal', reconciliations')
      /\ LiveIn(journal', reconciliations')
      /\ KeysIn(journal', reconciliations')
      /\ \A k : KnownKey(reconciliations', k) => KnownKey(reconciliations, k) \/ k = key
      /\ BalanceAt(journal', a, period) = reported
      /\ \A r \in DOMAIN reconciliations' \ DOMAIN reconciliations :
            /\ reconciliations'[r].account = a /\ reconciliations'[r].period = period
            /\ reconciliations'[r].reported = reported
    BY <1>1, ApplyKeeps
<1>3. PreviewsOK(previews', reconciliations')
    BY <1>1, <1>2 DEF RInv, PreviewsOK
<1>4. Reached
    BY <1>2 DEF Reached
<1>5. AsPreviewed
    BY <1>1 DEF AsPreviewed
<1> QED BY <1>1, <1>2, <1>3, <1>4, <1>5 DEF RInv, Kept

\* PrepareReconciliation in CONFIRM mode.
LEMMA PreparePreviewKeeps ==
    ASSUME UniqueKeys, RInv, NEW a \in CashAccounts, NEW period \in MonthEnds,
           NEW reported \in ReportedBalances, NEW key \in ReconciliationKeys,
           PreparePreview(a, period, reported, key)
    PROVE  Kept
<1> DEFINE balance == BalanceAt(journal, a, period)
           current == ActiveReconciliation(reconciliations, a, period)
           row == [status |-> "open", account |-> a, period |-> period,
                   reported |-> reported, ledger |-> balance,
                   difference |-> reported - balance, current |-> current]
<1>1. /\ ~ReconciledWith(key)
      /\ previews' = [previews EXCEPT ![key] = row]
      /\ UNCHANGED <<functional, onboarded, accounts, journal>>
      /\ UNCHANGED <<reconciliations, thisMonth>>
    BY DEF PreparePreview, CanPrepare, ledgerVars
<1>2. /\ JournalOK(journal, accounts, Currencies, JournalKeys)
      /\ ReconciliationsOK(reconciliations) /\ PreviewsOK(previews, reconciliations)
    BY DEF RInv
<1>3. current \in Nat
    BY <1>2, ActiveIs
<1>4. balance \in Int
  <2>1. journal \in Seq(TransactionsWith(JournalKeys)) /\ DeltasOf(journal, a)
      BY <1>2, SoundDeltas DEF JournalOK
  <2>2. UpTo(journal, period) \subseteq DOMAIN journal
      BY DEF UpTo
  <2>3. Moved(journal, a, UpTo(journal, period)) \in Int
      BY <2>1, <2>2, MovedType
  <2> QED BY <2>1, <2>3 DEF BalanceAt, Moved, UpTo
<1> HIDE DEF balance, current
<1>5. row \in PreviewRows /\ row.status = "open" /\ row.difference = row.reported - row.ledger
    BY <1>3, <1>4, ReconciliationConstants DEF PreviewRows
<1> HIDE DEF row
<1>6. /\ previews' \in [ReconciliationKeys -> PreviewRows] /\ previews'[key] = row
      /\ \A k \in ReconciliationKeys : k # key => previews'[k] = previews[k]
    BY <1>1, <1>2, <1>5 DEF PreviewsOK
<1>7. PreviewsOK(previews', reconciliations')
  <2>1. ~KnownKey(reconciliations, key)
      BY <1>1 DEF ReconciledWith, KnownKey
  <2>2. ASSUME NEW k \in ReconciliationKeys
        PROVE  /\ previews'[k].status = "open" =>
                     previews'[k].difference = previews'[k].reported - previews'[k].ledger
               /\ previews'[k].status \in {"open", "expired"} => ~KnownKey(reconciliations, k)
    <3>1. CASE k = key
        BY <1>5, <1>6, <2>1, <3>1
    <3>2. CASE k # key
        BY <1>2, <1>6, <3>2 DEF PreviewsOK
    <3> QED BY <3>1, <3>2
  <2> QED BY <1>1, <1>6, <2>2 DEF PreviewsOK
<1>8. Reached
    BY <1>1 DEF Reached
<1>9. AsPreviewed
    BY <1>5, <1>6 DEF AsPreviewed
<1> QED BY <1>1, <1>7, <1>8, <1>9 DEF RInv, Kept

\* ConfirmReconciliation.
LEMMA ConfirmKeeps ==
    ASSUME UniqueKeys, RInv, NEW key \in ReconciliationKeys, ConfirmReconciliation(key)
    PROVE  Kept
<1> DEFINE a == previews[key].account
           period == previews[key].period
           reported == previews[key].reported
<1>1. /\ previews[key].status = "open" /\ IsActive(accounts, a)
      /\ BalanceAt(journal, a, period) = previews[key].ledger
      /\ ApplyReconciliation(a, period, reported, key)
      /\ previews' = [previews EXCEPT ![key].status = "confirmed"]
      /\ UNCHANGED <<functional, onboarded, accounts, thisMonth>>
    BY DEF ConfirmReconciliation, PreviewIsCurrent, LockReconciliationAccount
<1>2. PreviewsOK(previews, reconciliations)
    BY DEF RInv
<1>3. /\ a \in CashAccounts /\ period \in MonthEnds /\ reported \in ReportedBalances
      /\ previews[key].ledger \in Int
    BY <1>1, <1>2, OpenPreview
<1>4. ~ReconciledWith(key) /\ previews[key].difference = reported - previews[key].ledger
    BY <1>1, <1>2 DEF PreviewsOK, ReconciledWith, KnownKey
<1>5. /\ \A k \in ReconciliationKeys : k # key => previews'[k] = previews[k]
      /\ previews'[key].status = "confirmed"
      /\ previews' \in [ReconciliationKeys -> PreviewRows]
  <2>1. previews \in [ReconciliationKeys -> PreviewRows]
      BY <1>2 DEF PreviewsOK
  <2>2. previews' = [previews EXCEPT ![key] = [previews[key] EXCEPT !.status = "confirmed"]]
      BY <1>1
  <2> DEFINE row == [previews[key] EXCEPT !.status = "confirmed"]
  <2>3. row \in PreviewRows /\ row.status = "confirmed"
      BY <1>1, <1>2, OpenPreview DEF PreviewRows
  <2> HIDE DEF row
  <2> QED BY <2>1, <2>2, <2>3 DEF row
<1> HIDE DEF a, period, reported
<1>6. /\ JournalOK(journal', accounts, Currencies, JournalKeys)
      /\ ReconciliationsOK(reconciliations')
      /\ AdjustmentsIn(journal', reconciliations')
      /\ LiveIn(journal', reconciliations')
      /\ KeysIn(journal', reconciliations')
      /\ \A k : KnownKey(reconciliations', k) => KnownKey(reconciliations, k) \/ k = key
      /\ BalanceAt(journal', a, period) = reported
      /\ \A r \in DOMAIN reconciliations' \ DOMAIN reconciliations :
            /\ reconciliations'[r].account = a /\ reconciliations'[r].period = period
            /\ reconciliations'[r].reported = reported
    BY <1>1, <1>3, <1>4, ApplyKeeps
<1>7. PreviewsOK(previews', reconciliations')
  <2>1. ASSUME NEW k \in ReconciliationKeys
        PROVE  /\ previews'[k].status = "open" =>
                     previews'[k].difference = previews'[k].reported - previews'[k].ledger
               /\ previews'[k].status \in {"open", "expired"} => ~KnownKey(reconciliations', k)
    <3>1. CASE k = key
        BY <1>5, <3>1
    <3>2. CASE k # key
        BY <1>2, <1>5, <1>6, <3>2 DEF PreviewsOK
    <3> QED BY <3>1, <3>2
  <2> QED BY <1>5, <2>1 DEF PreviewsOK
<1>8. Reached
    BY <1>6 DEF Reached
<1>9. AsPreviewed
  <2> SUFFICES ASSUME NEW k \in ReconciliationKeys,
                      previews[k].status = "open", previews'[k].status = "confirmed"
               PROVE  BalanceAt(journal', previews[k].account, previews[k].period)
                      - BalanceAt(journal, previews[k].account, previews[k].period)
                      = previews[k].difference
      BY DEF AsPreviewed
  <2>1. k = key
      BY <1>5
  <2>2. BalanceAt(journal', a, period) - BalanceAt(journal, a, period) = previews[key].difference
      BY <1>1, <1>4, <1>6
  <2> QED BY <2>1, <2>2 DEF a, period
<1> QED BY <1>1, <1>6, <1>7, <1>8, <1>9 DEF RInv, Kept

\* Previews expire and are deleted.
LEMMA PreviewsGoKeeps ==
    ASSUME RInv,
           \/ \E k \in ReconciliationKeys : ExpirePreview(k)
           \/ DeleteExpiredPreviews
    PROVE  Kept
<1>1. /\ UNCHANGED <<functional, onboarded, accounts, journal>>
      /\ UNCHANGED <<reconciliations, thisMonth>>
    BY DEF ExpirePreview, DeleteExpiredPreviews, ledgerVars
<1>2. PreviewsOK(previews, reconciliations)
    BY DEF RInv
<1>3. /\ previews' \in [ReconciliationKeys -> PreviewRows]
      /\ \A k \in ReconciliationKeys :
            \/ previews'[k] = previews[k]
            \/ previews[k].status = "open" /\ previews'[k].status = "expired"
            \/ previews'[k].status = "none"
  <2>1. CASE DeleteExpiredPreviews
    <3>1. NoPreview \in PreviewRows /\ NoPreview.status = "none"
        BY DEF PreviewRows, NoPreview
    <3> QED BY <1>2, <2>1, <3>1 DEF DeleteExpiredPreviews, PreviewsOK
  <2>2. CASE \E k \in ReconciliationKeys : ExpirePreview(k)
    <3>1. PICK key \in ReconciliationKeys : ExpirePreview(key)
        BY <2>2
    <3> DEFINE row == [previews[key] EXCEPT !.status = "expired"]
    <3>2. previews' = [previews EXCEPT ![key] = row] /\ previews[key].status = "open"
        BY <3>1 DEF ExpirePreview
    <3>3. row \in PreviewRows /\ row.status = "expired"
        BY <1>2, <3>2, OpenPreview DEF PreviewRows
    <3> HIDE DEF row
    <3>4. previews \in [ReconciliationKeys -> PreviewRows]
        BY <1>2 DEF PreviewsOK
    <3> QED BY <3>2, <3>3, <3>4
  <2> QED BY <2>1, <2>2
<1>4. PreviewsOK(previews', reconciliations')
  <2>1. ASSUME NEW k \in ReconciliationKeys
        PROVE  /\ previews'[k].status = "open" =>
                     previews'[k].difference = previews'[k].reported - previews'[k].ledger
               /\ previews'[k].status \in {"open", "expired"} => ~KnownKey(reconciliations, k)
    <3>1. CASE previews'[k] = previews[k]
        BY <1>2, <3>1 DEF PreviewsOK
    <3>2. CASE previews[k].status = "open" /\ previews'[k].status = "expired"
        BY <1>2, <3>2 DEF PreviewsOK
    <3>3. CASE previews'[k].status = "none"
        BY <3>3
    <3> QED BY <1>3, <3>1, <3>2, <3>3
  <2> QED BY <1>1, <1>3, <2>1 DEF PreviewsOK
<1>5. Reached /\ AsPreviewed
    BY <1>1, <1>3 DEF Reached, AsPreviewed
<1> QED BY <1>1, <1>4, <1>5 DEF RInv, Kept

LEMMA StepKeeps ==
    ASSUME UniqueKeys, RInv, [ReconciliationNext]_vars
    PROVE  Kept
<1>1. CASE LedgerStep
  <2>1. reconciliations' = reconciliations /\ previews' = previews
      BY <1>1 DEF LedgerStep, reconciliationVars
  <2>2. Reached /\ AsPreviewed
      BY <2>1 DEF Reached, AsPreviewed
  <2> QED BY <1>1, <2>2, LedgerStepKeeps DEF Kept
<1>2. CASE \E a \in CashAccounts, p \in MonthEnds, x \in ReportedBalances,
              k \in ReconciliationKeys : PrepareAuto(a, p, x, k)
    BY <1>2, PrepareAutoKeeps
<1>3. CASE \E a \in CashAccounts, p \in MonthEnds, x \in ReportedBalances,
              k \in ReconciliationKeys : PreparePreview(a, p, x, k)
    BY <1>3, PreparePreviewKeeps
<1>4. CASE \E k \in ReconciliationKeys : ConfirmReconciliation(k)
    BY <1>4, ConfirmKeeps
<1>5. CASE (\E k \in ReconciliationKeys : ExpirePreview(k)) \/ DeleteExpiredPreviews
    BY <1>5, PreviewsGoKeeps
<1>6. CASE MonthPasses
  <2>1. /\ UNCHANGED <<functional, onboarded, accounts, journal>>
        /\ UNCHANGED <<reconciliations, previews>> /\ thisMonth' \in MonthEnds
      BY <1>6 DEF MonthPasses, ledgerVars
  <2> QED BY <2>1 DEF Kept, RInv, Reached, AsPreviewed
<1>7. CASE UNCHANGED vars
  <2>1. /\ UNCHANGED <<functional, onboarded, accounts, journal>>
        /\ UNCHANGED <<reconciliations, previews, thisMonth>>
      BY <1>7 DEF vars, ledgerVars, reconciliationVars
  <2> QED BY <2>1 DEF Kept, RInv, Reached, AsPreviewed
<1> QED BY <1>1, <1>2, <1>3, <1>4, <1>5, <1>6, <1>7 DEF ReconciliationNext

LEMMA RInvInit ==
    ASSUME UniqueKeys, ReconciliationInit
    PROVE  RInv
<1>1. /\ Init /\ reconciliations = <<>> /\ thisMonth \in MonthEnds
      /\ previews = [k \in ReconciliationKeys |-> NoPreview]
    BY DEF ReconciliationInit
<1>2. functional \in Currencies /\ accounts \in AccountRows /\ journal = <<>>
    BY <1>1, InitEstablishes DEF Init
<1>3. JournalOK(journal, accounts, Currencies, JournalKeys)
    BY <1>2, EmptyJournal
<1>4. ReconciliationsOK(reconciliations) /\ DOMAIN reconciliations = {}
  <2>1. MaxReconciliations \in Nat
      BY ReconciliationConstants
  <2> QED BY <1>1, <2>1 DEF ReconciliationsOK
<1>5. DOMAIN journal = {}
    BY <1>2
<1>6. PreviewsOK(previews, reconciliations)
    BY <1>1 DEF PreviewsOK, PreviewRows, NoPreview
<1> QED BY <1>1, <1>2, <1>3, <1>4, <1>5, <1>6
        DEF RInv, AdjustmentsIn, LiveIn, KeysIn, Live

-----------------------------------------------------------------------------
(***************************************************************************)
(* The theorems.                                                           *)
(***************************************************************************)

\* The inductive invariant holds whatever the ledger, the worker and both modes
\* of reconciliation do, in any order.
THEOREM ReconciliationInvariance == UniqueKeys => (ReconciliationSpec => []RInv)
<1>1. ASSUME UniqueKeys PROVE ReconciliationSpec => []RInv
  <2>1. ReconciliationInit => RInv
      BY <1>1, RInvInit
  <2>2. RInv /\ [ReconciliationNext]_vars => RInv'
      BY <1>1, StepKeeps DEF Kept
  <2> QED BY <2>1, <2>2, PTL DEF ReconciliationSpec
<1> QED BY <1>1

\* The parts of it that the run checks.
LEMMA ReconciliationInvariantImplies ==
    RInv => ReconciliationTypeOK /\ OneAdjustmentInForce /\ Balanced /\ ReversalsCancel
<1> SUFFICES ASSUME RInv
             PROVE  ReconciliationTypeOK /\ OneAdjustmentInForce /\ Balanced /\ ReversalsCancel
    OBVIOUS
<1>1. /\ ReconciliationsOK(reconciliations) /\ AdjustmentsIn(journal, reconciliations)
      /\ LiveIn(journal, reconciliations) /\ PreviewsOK(previews, reconciliations)
      /\ thisMonth \in MonthEnds
      /\ JournalOK(journal, accounts, Currencies, JournalKeys)
    BY DEF RInv
<1>2. ReconciliationTypeOK
  <2>1. ASSUME NEW r \in DOMAIN reconciliations
        PROVE  /\ reconciliations[r].account \in CashAccounts
               /\ reconciliations[r].period \in MonthEnds
               /\ reconciliations[r].supersedes \in 0 .. r - 1
    <3>1. reconciliations[r] \in ReconciliationRows
        BY <1>1 DEF ReconciliationsOK
    <3> QED BY <1>1, <3>1 DEF ReconciliationRows, ReconciliationsOK
  <2>2. ASSUME NEW k \in ReconciliationKeys
        PROVE  previews[k].status \in {"none", "open", "expired", "confirmed"}
    <3>1. previews[k] \in PreviewRows
        BY <1>1 DEF PreviewsOK
    <3> QED BY <3>1 DEF PreviewRows, NoPreview
  <2> QED BY <1>1, <2>1, <2>2 DEF ReconciliationTypeOK, AdjustmentsIn
<1>3. OneAdjustmentInForce
  <2>1. ASSUME NEW a \in CashAccounts, NEW p \in MonthEnds
        PROVE  Cardinality(ActiveReconciliations(reconciliations, a, p)) <= 1
    <3> DEFINE active == ActiveReconciliations(reconciliations, a, p)
    <3>1. \A r, s \in active : r = s
        BY <1>1 DEF ActiveReconciliations, ReconciliationsOK
    <3> HIDE DEF active
    <3>2. ASSUME active = {} PROVE Cardinality(active) <= 1
        BY <3>2, FS_EmptySet
    <3>3. ASSUME active # {} PROVE Cardinality(active) <= 1
      <4>1. PICK r \in active : TRUE
          BY <3>3
      <4>2. active = {r}
          BY <3>1, <4>1
      <4>3. Cardinality({r}) = 1
          BY FS_Singleton
      <4> QED BY <4>2, <4>3
    <3> QED BY <3>2, <3>3 DEF active
  <2> QED BY <1>1, <2>1 DEF OneAdjustmentInForce, LiveIn
<1>4. Balanced /\ ReversalsCancel
  <2> DEFINE C == Currencies
             K == JournalKeys
  <2>1. JournalOK(journal, accounts, C, K)
      BY <1>1
  <2> HIDE DEF C, K
  <2> QED BY <2>1, SoundJournal
<1> QED BY <1>2, <1>3, <1>4

\* The tables are well formed.
THEOREM ReconciliationTypeCorrect ==
    UniqueKeys => (ReconciliationSpec => []ReconciliationTypeOK)
<1>1. ASSUME UniqueKeys PROVE ReconciliationSpec => []ReconciliationTypeOK
    BY <1>1, ReconciliationInvariance, ReconciliationInvariantImplies, PTL
<1> QED BY <1>1

\* An account and month never has two reconciliations, and an adjustment that
\* counts is that of the reconciliation in force.
THEOREM AdjustmentsAreExclusive ==
    UniqueKeys => (ReconciliationSpec => []OneAdjustmentInForce)
<1>1. ASSUME UniqueKeys PROVE ReconciliationSpec => []OneAdjustmentInForce
    BY <1>1, ReconciliationInvariance, ReconciliationInvariantImplies, PTL
<1> QED BY <1>1

\* Adjustments and their reversals keep every transaction balanced and every
\* reversal exact, and nothing is reversed twice.
THEOREM ReconciliationKeepsLedgerSound ==
    UniqueKeys => (ReconciliationSpec => [](Balanced /\ ReversalsCancel))
<1>1. ASSUME UniqueKeys PROVE ReconciliationSpec => [](Balanced /\ ReversalsCancel)
    BY <1>1, ReconciliationInvariance, ReconciliationInvariantImplies, PTL
<1> QED BY <1>1

\* Recording a reconciliation makes the balance at that month end the reported
\* one, for every journal and whatever it replaces.
THEOREM ReportedBalanceIsReached == UniqueKeys => (ReconciliationSpec => ReportedBalanceReached)
<1>1. ASSUME UniqueKeys PROVE ReconciliationSpec => ReportedBalanceReached
  <2> DEFINE Promise == \A r \in DOMAIN reconciliations' \ DOMAIN reconciliations :
                          LET row == reconciliations'[r]
                          IN  BalanceAt(journal', row.account, row.period) = row.reported
  <2>1. RInv /\ [ReconciliationNext]_vars => Promise
      BY <1>1, StepKeeps DEF Kept, Reached
  <2> HIDE DEF Promise
  <2>2. ReconciliationSpec => [][Promise]_vars
      BY <1>1, <2>1, ReconciliationInvariance, PTL DEF ReconciliationSpec
  <2> QED BY <2>2 DEF ReportedBalanceReached, Promise
<1> QED BY <1>1

\* A confirmation moves the balance by the difference that the preview showed.
THEOREM ConfirmationsMoveAsPreviewed ==
    UniqueKeys => (ReconciliationSpec => ConfirmedAsPreviewed)
<1>1. ASSUME UniqueKeys PROVE ReconciliationSpec => ConfirmedAsPreviewed
  <2> DEFINE Promise == \A k \in ReconciliationKeys :
                          previews[k].status = "open" /\ previews'[k].status = "confirmed" =>
                             BalanceAt(journal', previews[k].account, previews[k].period)
                             - BalanceAt(journal, previews[k].account, previews[k].period)
                             = previews[k].difference
  <2>1. RInv /\ [ReconciliationNext]_vars => Promise
      BY <1>1, StepKeeps DEF Kept, AsPreviewed
  <2> HIDE DEF Promise
  <2>2. ReconciliationSpec => [][Promise]_vars
      BY <1>1, <2>1, ReconciliationInvariance, PTL DEF ReconciliationSpec
  <2> QED BY <2>2 DEF ConfirmedAsPreviewed, Promise
<1> QED BY <1>1
=============================================================================
