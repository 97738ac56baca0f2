---------------------------- MODULE AssetsProofs ----------------------------
(***************************************************************************)
(* Proofs about assets, their valuations and the figures shown for them,   *)
(* for any accounts, assets, amounts, dates and journals.  Everything that *)
(* a valuation says of the journal is stated with the journal as a         *)
(* parameter, because a correction posts twice in one transaction.         *)
(***************************************************************************)
EXTENDS Dashboard, LedgerProofs

PurchaseKey(x) == <<"asset-purchase", x>>

RevaluationKey(x, k) == <<"asset-revaluation", x, k>>

\* The keys that transactions have.
AssetKeys ==
    AllKeys \cup {PurchaseKey(x) : x \in AssetIds}
            \cup {RevaluationKey(x, k) : x \in AssetIds, k \in Keys}

AssetRows ==
    {NoAsset} \cup
    [status : {"active", "archived"}, account : UserAccounts, currency : Currencies,
     share : Shares, key : Keys, purchase : Nat]

ValuationRows ==
    [asset : AssetIds, date : Nat, market : Nat, owned : Nat, before : Int,
     adjustment : Int, key : Keys, transaction : Nat, seen : Nat]

(***************************************************************************)
(* The inductive invariant.                                                *)
(***************************************************************************)
Exists(as, x) == as[x].status # "absent"

AssetsOK(as, accts) ==
    /\ as \in [AssetIds -> AssetRows]
    /\ \A x \in AssetIds : Exists(as, x) => accts[as[x].account].status # "absent"
    /\ \A x, y \in AssetIds : Exists(as, x) /\ Exists(as, y) /\ x # y =>
           as[x].key # as[y].key /\ as[x].account # as[y].account

\* The valuations by themselves, oldest first.
ValuationsOK(as, vs) ==
    /\ vs \in Seq(ValuationRows)
    /\ \A n \in DOMAIN vs :
          /\ Exists(as, vs[n].asset)
          /\ vs[n].owned <= vs[n].market
          /\ vs[n].before + vs[n].adjustment = vs[n].owned
          /\ vs[n].transaction = 0 <=> vs[n].adjustment = 0
    /\ \A n \in DOMAIN vs : \A k \in 1 .. n - 1 :
          /\ vs[k].transaction # 0 => vs[k].transaction # vs[n].transaction
          /\ vs[k].asset = vs[n].asset => vs[k].date <= vs[n].date

\* The purchase of an asset is the one transaction with its key.
PurchasesIn(j, as) ==
    \A x \in AssetIds :
        /\ as[x].purchase \in 0 .. Len(j)
        /\ {i \in DOMAIN j : j[i].key = PurchaseKey(x)} = {as[x].purchase} \ {0}

\* The revaluation of a valuation moves its difference.
RevaluationIn(j, a, v) ==
    /\ v.transaction \in 0 .. Len(j)
    /\ v.seen \in 0 .. Len(j)
    /\ v.transaction # 0 =>
          /\ j[v.transaction].type = "REVALUATION"
          /\ j[v.transaction].date = v.date
          /\ Delta(j[v.transaction], a) = v.adjustment

\* What was posted after a valuation, at or before its date.
LateFor(j, v) == {i \in DOMAIN j : i > v.seen /\ j[i].date <= v.date}

ValueIn(j, a, v) == v.owned + Moved(j, a, LateFor(j, v)) = BalanceAt(j, a, v.date)

ValuesIn(j, as, vs) ==
    \A n \in DOMAIN vs : /\ RevaluationIn(j, as[vs[n].asset].account, vs[n])
                         /\ ValueIn(j, as[vs[n].asset].account, vs[n])

\* A revaluation that is posted has a valuation with its key.
KeysIn(j, vs) ==
    \A i \in DOMAIN j : \A x \in AssetIds, k \in Keys :
        j[i].key = RevaluationKey(x, k) => \E n \in DOMAIN vs : vs[n].key = k

AInv ==
    /\ LedgerInv(AssetKeys)
    /\ AssetsOK(assets, accounts)
    /\ ValuationsOK(assets, valuations)
    /\ PurchasesIn(journal, assets)
    /\ ValuesIn(journal, assets, valuations)
    /\ KeysIn(journal, valuations)

-----------------------------------------------------------------------------
(***************************************************************************)
(* Keys.                                                                   *)
(***************************************************************************)

\* The keys that the server derives differ from each other and from every key
\* of a client.
LEMMA KeysDiffer ==
    /\ \A x \in AssetIds : PurchaseKey(x) \in AssetKeys /\ PurchaseKey(x) \notin AllKeys
    /\ \A x \in AssetIds, k \in Keys :
          RevaluationKey(x, k) \in AssetKeys /\ RevaluationKey(x, k) \notin AllKeys
    /\ \A x, y : PurchaseKey(x) = PurchaseKey(y) => x = y
    /\ \A x, y, k : PurchaseKey(x) # RevaluationKey(y, k)
    /\ \A x, y, k, m : RevaluationKey(x, k) = RevaluationKey(y, m) => k = m
    /\ AllKeys \subseteq AssetKeys
<1>1. \A x, y : PurchaseKey(x) = PurchaseKey(y) => x = y
    BY DEF PurchaseKey
<1>2. \A x, y, k : PurchaseKey(x) # RevaluationKey(y, k)
    BY DEF PurchaseKey, RevaluationKey
<1>3. \A x, y, k, m : RevaluationKey(x, k) = RevaluationKey(y, m) => k = m
    BY DEF RevaluationKey
<1>4. \A x : PurchaseKey(x) \notin {"setup", "fresh"} \X UserAccounts
    BY DEF PurchaseKey
<1>5. \A x, k : RevaluationKey(x, k) \notin {"setup", "fresh"} \X UserAccounts
    BY DEF RevaluationKey
<1>6. \A x \in AssetIds :
        PurchaseKey(x) \notin Keys /\ \A k \in Keys : RevaluationKey(x, k) \notin Keys
    BY DerivedKeys DEF PurchaseKey, RevaluationKey
<1> QED BY <1>1, <1>2, <1>3, <1>4, <1>5, <1>6 DEF AssetKeys, AllKeys

\* The row of an asset that exists.
LEMMA RowOfAsset ==
    ASSUME NEW r \in AssetRows, r.status # "absent"
    PROVE  /\ r.status \in {"active", "archived"} /\ r.account \in UserAccounts
           /\ r.currency \in Currencies /\ r.share \in Shares /\ r.key \in Keys
           /\ r.purchase \in Nat
<1>1. r # NoAsset
    BY DEF NoAsset
<1> QED BY <1>1 DEF AssetRows

-----------------------------------------------------------------------------
(***************************************************************************)
(* A transaction is appended.                                              *)
(***************************************************************************)

\* The new transaction is late for every valuation of its date or a later one.
LEMMA LateGrows ==
    ASSUME NEW S, NEW j \in Seq(S), NEW x \in S, NEW v, v.seen \in 0 .. Len(j)
    PROVE  /\ LateFor(j, v) \subseteq DOMAIN j
           /\ LateFor(Append(j, x), v) =
                 IF x.date <= v.date THEN LateFor(j, v) \cup {Len(j) + 1} ELSE LateFor(j, v)
<1> DEFINE k == Append(j, x)
<1>1. /\ DOMAIN j = 1 .. Len(j) /\ Len(j) \in Nat
      /\ DOMAIN k = 1 .. Len(j) + 1
      /\ \A i \in DOMAIN j : k[i] = j[i]
      /\ k[Len(j) + 1] = x
    BY Appended
<1> HIDE DEF k
<1>2. LateFor(k, v) =
        IF x.date <= v.date THEN LateFor(j, v) \cup {Len(j) + 1} ELSE LateFor(j, v)
    BY <1>1 DEF LateFor
<1> QED BY <1>2 DEF LateFor, k

\* Whatever is posted, what a valuation explains stays explained.
LEMMA ValuesGrow ==
    ASSUME NEW S, NEW j \in Seq(S), NEW x \in S, \A a : DeltasOf(j, a),
           \A a : Delta(x, a) \in Int,
           NEW as, NEW vs \in Seq(ValuationRows), ValuesIn(j, as, vs)
    PROVE  ValuesIn(Append(j, x), as, vs)
<1> DEFINE k == Append(j, x)
<1> SUFFICES ASSUME NEW n \in DOMAIN vs
             PROVE  /\ RevaluationIn(k, as[vs[n].asset].account, vs[n])
                    /\ ValueIn(k, as[vs[n].asset].account, vs[n])
    BY DEF ValuesIn
<1> DEFINE v == vs[n]
           a == as[v.asset].account
           I == LateFor(j, v)
           N == LateFor(k, v)
           date == v.date
<1>1. v \in ValuationRows
    OBVIOUS
<1>2. /\ DOMAIN j = 1 .. Len(j) /\ Len(j) \in Nat
      /\ Len(k) = Len(j) + 1
      /\ \A i \in DOMAIN j : k[i] = j[i]
    BY Appended
<1>3. RevaluationIn(j, a, v) /\ ValueIn(j, a, v)
    BY DEF ValuesIn
<1> HIDE DEF v, a
<1>4. RevaluationIn(k, a, v)
  <2> HIDE DEF k
  <2> QED BY <1>2, <1>3 DEF RevaluationIn
<1>5. I \subseteq DOMAIN j
      /\ N = IF x.date <= v.date THEN I \cup {Len(j) + 1} ELSE I
    BY <1>3, LateGrows DEF RevaluationIn
<1> HIDE DEF I, N
<1>6. /\ Moved(k, a, I) = Moved(j, a, I)
      /\ Moved(k, a, I \cup {Len(j) + 1}) = Moved(j, a, I) + Delta(x, a)
      /\ Moved(j, a, I) \in Int
  <2>1. DeltasOf(j, a) /\ Delta(x, a) \in Int
      OBVIOUS
  <2>2. Moved(j, a, I) \in Int
      BY <1>5, <2>1, MovedType
  <2> QED BY <1>5, <2>1, <2>2, MovedGrows
<1>7. /\ BalanceAt(j, a, date) \in Int
      /\ BalanceAt(k, a, date) =
            BalanceAt(j, a, date) + IF x.date <= date THEN Delta(x, a) ELSE 0
    BY BalanceGrows
<1>8. ValueIn(k, a, v)
  <2>1. v.owned + Moved(j, a, I) = BalanceAt(j, a, date)
      BY <1>3 DEF ValueIn, I
  <2>2. Delta(x, a) \in Int /\ v.owned \in Int
      BY <1>1 DEF ValuationRows
  <2> HIDE DEF k
  <2>3. v.owned + Moved(k, a, N) = BalanceAt(k, a, date)
    <3>1. CASE x.date <= v.date
        BY <1>5, <1>6, <1>7, <2>1, <2>2, <3>1
    <3>2. CASE ~(x.date <= v.date)
        BY <1>5, <1>6, <1>7, <2>1, <2>2, <3>2
    <3> QED BY <3>1, <3>2
  <2> QED BY <2>3 DEF ValueIn, N
<1> QED BY <1>4, <1>8 DEF v, a, k

\* A transaction with a key of another kind is no purchase of an asset.
LEMMA PurchasesGrow ==
    ASSUME NEW S, NEW j \in Seq(S), NEW x \in S, NEW as \in [AssetIds -> AssetRows],
           PurchasesIn(j, as), \A y \in AssetIds : x.key # PurchaseKey(y)
    PROVE  PurchasesIn(Append(j, x), as)
<1> DEFINE k == Append(j, x)
<1>1. /\ DOMAIN j = 1 .. Len(j) /\ Len(j) \in Nat
      /\ DOMAIN k = 1 .. Len(j) + 1 /\ Len(k) = Len(j) + 1
      /\ \A i \in DOMAIN j : k[i] = j[i]
      /\ k[Len(j) + 1] = x
    BY Appended
<1> HIDE DEF k
<1>2. ASSUME NEW y \in AssetIds
      PROVE  /\ as[y].purchase \in 0 .. Len(k)
             /\ {i \in DOMAIN k : k[i].key = PurchaseKey(y)} = {as[y].purchase} \ {0}
  <2>1. {i \in DOMAIN k : k[i].key = PurchaseKey(y)}
           = {i \in DOMAIN j : j[i].key = PurchaseKey(y)}
      BY <1>1
  <2>2. /\ as[y].purchase \in 0 .. Len(j)
        /\ {i \in DOMAIN j : j[i].key = PurchaseKey(y)} = {as[y].purchase} \ {0}
      BY DEF PurchasesIn
  <2>3. 0 .. Len(j) \subseteq 0 .. Len(k)
      BY <1>1
  <2> QED BY <2>1, <2>2, <2>3
<1> QED BY <1>2 DEF PurchasesIn, k

\* A transaction with a key of another kind is no revaluation.
LEMMA KeysGrow ==
    ASSUME NEW S, NEW j \in Seq(S), NEW x \in S, NEW vs, KeysIn(j, vs),
           \A y \in AssetIds, k \in Keys :
               x.key = RevaluationKey(y, k) => \E n \in DOMAIN vs : vs[n].key = k
    PROVE  KeysIn(Append(j, x), vs)
<1> DEFINE m == Append(j, x)
<1>1. /\ DOMAIN j = 1 .. Len(j) /\ Len(j) \in Nat
      /\ DOMAIN m = 1 .. Len(j) + 1
      /\ \A i \in DOMAIN j : m[i] = j[i]
      /\ m[Len(j) + 1] = x
    BY Appended
<1> HIDE DEF m
<1>2. KeysIn(m, vs)
  <2> SUFFICES ASSUME NEW i \in DOMAIN m, NEW y \in AssetIds, NEW k \in Keys,
                      m[i].key = RevaluationKey(y, k)
               PROVE  \E n \in DOMAIN vs : vs[n].key = k
      BY DEF KeysIn
  <2>1. CASE i \in DOMAIN j
      BY <1>1, <2>1 DEF KeysIn
  <2>2. CASE i = Len(j) + 1
      BY <1>1, <2>2
  <2> QED BY <1>1, <2>1, <2>2
<1> QED BY <1>2 DEF m

\* Only the accounts of the assets that have valuations matter to these.
LEMMA AccountsStay ==
    ASSUME NEW j, NEW as, NEW bs, NEW vs, ValuesIn(j, as, vs),
           \A n \in DOMAIN vs : bs[vs[n].asset].account = as[vs[n].asset].account
    PROVE  ValuesIn(j, bs, vs)
BY DEF ValuesIn

\* One posting, of any transaction that may follow.
LEMMA PostedKeepsValues ==
    ASSUME NEW j, NEW k, NEW accts, NEW C, NEW K, JournalOK(j, accts, C, K),
           NEW P, P \subseteq TransactionsWith(K), Posted(j, k, accts, C, P),
           NEW as, NEW vs \in Seq(ValuationRows), ValuesIn(j, as, vs)
    PROVE  ValuesIn(k, as, vs)
<1>1. CASE k = j
    BY <1>1
<1>2. ASSUME NEW x \in P, MayFollow(x, j, accts, C), k = Append(j, x)
      PROVE  ValuesIn(k, as, vs)
  <2>1. \A a : DeltasOf(j, a)
      BY SoundDeltas
  <2>2. x \in TransactionsWith(K) /\ SoundTransaction(x, accts, C)
      BY <1>2 DEF MayFollow
  <2>3. \A a : Delta(x, a) \in Int
      BY <2>2, DeltaIs
  <2>4. j \in Seq(TransactionsWith(K))
      BY DEF JournalOK
  <2> QED BY <1>2, <2>1, <2>2, <2>3, <2>4, ValuesGrow
<1> QED BY <1>1, <1>2 DEF Posted

\* One posting of a handler of the ledger, whose keys are of other kinds.
LEMMA PostedKeepsKeys ==
    ASSUME NEW j, NEW k, NEW accts, NEW C, NEW K, j \in Seq(TransactionsWith(K)),
           AllKeys \subseteq K,
           NEW P, P \subseteq TransactionsWith(AllKeys), Posted(j, k, accts, C, P),
           NEW as \in [AssetIds -> AssetRows], NEW vs,
           PurchasesIn(j, as), KeysIn(j, vs)
    PROVE  PurchasesIn(k, as) /\ KeysIn(k, vs)
<1>1. CASE k = j
    BY <1>1
<1>2. ASSUME NEW x \in P, k = Append(j, x)
      PROVE  PurchasesIn(k, as) /\ KeysIn(k, vs)
  <2>1. x \in TransactionsWith(K) /\ x.key \in AllKeys
      BY DEF TransactionsWith
  <2>2. \A y \in AssetIds : x.key # PurchaseKey(y)
      BY <2>1, KeysDiffer
  <2>3. \A y \in AssetIds, m \in Keys : x.key # RevaluationKey(y, m)
      BY <2>1, KeysDiffer
  <2>4. PurchasesIn(Append(j, x), as)
      BY <2>1, <2>2, PurchasesGrow
  <2>5. KeysIn(Append(j, x), vs)
      BY <2>1, <2>3, KeysGrow
  <2> QED BY <1>2, <2>4, <2>5
<1> QED BY <1>1, <1>2 DEF Posted

-----------------------------------------------------------------------------
(***************************************************************************)
(* The handlers of the ledger.                                             *)
(***************************************************************************)

\* The effect of every handler of the ledger that runs beside the assets.
LEMMA LedgerStepEffect ==
    ASSUME LedgerInv(AssetKeys), LedgerStep
    PROVE  LedgerInv(AssetKeys)' /\ HandlerEffect({functional'}, AssetKeys)
<1> DEFINE C == {functional'}
           K == AssetKeys
<1>1. functional' \in Currencies /\ (functional' = functional \/ journal = <<>>)
    BY DEF LedgerStep, LedgerInv, CreateAccount, UpdateAccount, EnsureLedger, CreateTransaction,
           ReverseTransaction, ReplaceTransaction, UpdateUserSettings
<1>2. JournalOK(journal, accounts, C, K)
    BY <1>1, JournalInNewCurrency DEF LedgerInv
<1>3. /\ accounts \in AccountRows /\ functional \in Currencies
      /\ functional' \in C
      /\ AllKeys \subseteq K
    BY KeysDiffer DEF LedgerInv
<1> HIDE DEF C, K
<1>4. HandlerEffect(C, K)
  <2>1. ASSUME NEW a \in UserAccounts, NEW class \in AccountClasses,
               CreateAccount(a, class, functional, 0, 0, <<"fresh", a>>)
        PROVE  HandlerEffect(C, K)
    <3>1. PICK base \in EnsureLedgerInfrastructure(accounts, functional) :
            OpenAccount(base, a, class, functional, 0, 0, <<"fresh", a>>, functional)
        BY <2>1 DEF CreateAccount
    <3>2. functional \in C
        BY <1>3, <2>1 DEF CreateAccount
    <3>3. <<"fresh", a>> \in AllKeys /\ 0 \in OpeningAmounts
        BY DEF AllKeys, OpeningAmounts
    <3> DEFINE key == <<"fresh", a>>
    <3> HIDE DEF key
    <3> QED BY <1>2, <1>3, <3>1, <3>2, <3>3, OpenAccountEffect DEF key
  <2>2. ASSUME NEW a \in UserAccounts, NEW c \in Currencies,
               NEW s \in {"active", "archived"}, UpdateAccount(a, c, s)
        PROVE  HandlerEffect(C, K)
      BY <1>2, <1>3, <2>2, UpdateAccountEffect
  <2>3. CASE EnsureLedger
      BY <1>2, <1>3, <2>3, EnsureLedgerEffect
  <2>4. ASSUME NEW op \in Operations, CreateTransaction(op)
        PROVE  HandlerEffect(C, K)
    <3>1. functional \in C
        BY <1>3, <2>4 DEF CreateTransaction
    <3> QED BY <1>2, <1>3, <2>4, <3>1, CreateTransactionEffect
  <2>5. ASSUME NEW t, NEW k \in Keys, ReverseTransaction(t, k)
        PROVE  HandlerEffect(C, K)
      BY <1>2, <1>3, <2>5, ReverseTransactionEffect
  <2>6. ASSUME NEW t, NEW k \in Keys, NEW op \in Operations, ReplaceTransaction(t, k, op)
        PROVE  HandlerEffect(C, K)
    <3>1. functional \in C
        BY <1>3, <2>6 DEF ReplaceTransaction
    <3> QED BY <1>2, <1>3, <2>6, <3>1, ReplaceTransactionEffect
  <2>7. ASSUME NEW c \in Currencies, UpdateUserSettings(c)
        PROVE  HandlerEffect(C, K)
    <3>1. accounts' = accounts /\ journal' = journal
        BY <2>7 DEF UpdateUserSettings
    <3>2. JournalOK(journal, accounts', C, K)
        BY <1>2, <3>1
    <3> QED BY <1>3, <3>1, <3>2, NoPosting DEF RowsKept
  <2> QED BY <2>1, <2>2, <2>3, <2>4, <2>5, <2>6, <2>7 DEF LedgerStep
<1>5. JournalOK(journal', accounts', C, K)
    BY <1>3, <1>4, HandlerKeepsJournal
<1>6. accounts' \in AccountRows
    BY <1>4 DEF HandlerEffect
<1> QED BY <1>1, <1>4, <1>5, <1>6 DEF LedgerInv, C, K

\* A handler of the ledger keeps what the assets and the valuations say of the
\* journal.
LEMMA HandlerKeepsParts ==
    ASSUME NEW C, HandlerEffect(C, AssetKeys),
           NEW as, AssetsOK(as, accounts), NEW vs \in Seq(ValuationRows),
           PurchasesIn(journal, as), ValuesIn(journal, as, vs), KeysIn(journal, vs)
    PROVE  /\ AssetsOK(as, accounts')
           /\ PurchasesIn(journal', as) /\ ValuesIn(journal', as, vs)
           /\ KeysIn(journal', vs)
<1> DEFINE K == AssetKeys
           P == LedgerPostings(accounts')
<1>1. /\ RowsKept(accounts, accounts')
      /\ JournalOK(journal, accounts', C, K)
      /\ as \in [AssetIds -> AssetRows]
      /\ AllKeys \subseteq K
    BY KeysDiffer DEF HandlerEffect, AssetsOK
<1>2. PICK m : Posted(journal, m, accounts', C, P) /\ Posted(m, journal', accounts', C, P)
    BY DEF HandlerEffect
<1>3. P \subseteq TransactionsWith(AllKeys) /\ P \subseteq TransactionsWith(K)
    BY <1>1, LedgerPostingsTyped
<1> HIDE DEF K, P
<1>4. JournalOK(m, accounts', C, K)
    BY <1>1, <1>2, <1>3, PostedKeepsJournal
<1>5. journal \in Seq(TransactionsWith(K)) /\ m \in Seq(TransactionsWith(K))
    BY <1>1, <1>4 DEF JournalOK
<1>6. PurchasesIn(m, as) /\ KeysIn(m, vs)
    BY <1>1, <1>2, <1>3, <1>5, PostedKeepsKeys
<1>7. PurchasesIn(journal', as) /\ KeysIn(journal', vs)
    BY <1>1, <1>2, <1>3, <1>5, <1>6, PostedKeepsKeys
<1>8. ValuesIn(m, as, vs)
    BY <1>1, <1>2, <1>3, PostedKeepsValues
<1>9. ValuesIn(journal', as, vs)
    BY <1>2, <1>3, <1>4, <1>8, PostedKeepsValues
<1>10. AssetsOK(as, accounts')
  <2>1. \A x \in AssetIds : Exists(as, x) => as[x].account \in LedgerAccounts
      BY <1>1, RowOfAsset DEF Exists, LedgerAccounts
  <2> QED BY <1>1, <2>1 DEF AssetsOK, RowsKept
<1> QED BY <1>7, <1>9, <1>10

\* The handlers of the ledger keep the invariant.
LEMMA LedgerStepKeeps ==
    ASSUME AInv, LedgerStep
    PROVE  AInv'
<1> DEFINE C == {functional'}
<1>1. LedgerInv(AssetKeys)' /\ HandlerEffect(C, AssetKeys)
    BY LedgerStepEffect DEF AInv
<1>2. assets' = assets /\ valuations' = valuations
    BY DEF LedgerStep
<1>3. AssetsOK(assets, accounts) /\ valuations \in Seq(ValuationRows)
    BY DEF AInv, ValuationsOK
<1> HIDE DEF C
<1>4. /\ AssetsOK(assets, accounts')
      /\ PurchasesIn(journal', assets) /\ ValuesIn(journal', assets, valuations)
      /\ KeysIn(journal', valuations)
    BY <1>1, <1>3, HandlerKeepsParts DEF AInv
<1> QED BY <1>1, <1>2, <1>4 DEF AInv
-----------------------------------------------------------------------------
(***************************************************************************)
(* The handlers of the assets.                                             *)
(***************************************************************************)

\* Rows that are added leave the ledger's part of the invariant.
LEMMA RowsAdded ==
    ASSUME LedgerInv(AssetKeys), NEW accts \in AccountRows,
           \A a \in LedgerAccounts : accounts[a].status # "absent" =>
               accts[a].status # "absent" /\ accts[a].currency = accounts[a].currency
    PROVE  JournalOK(journal, accts, {functional}, AssetKeys)
<1> DEFINE C == {functional}
<1>1. JournalOK(journal, accounts, C, AssetKeys)
    BY DEF LedgerInv
<1> HIDE DEF C
<1> QED BY <1>1, RowsAreAdded DEF C

\* A repeated request at most makes the ledger infrastructure.
LEMMA RepeatedRequestKeeps ==
    ASSUME AInv, NEW key, RepeatedRequest(key)
    PROVE  AInv'
<1> DEFINE C == {functional}
<1>1. /\ accounts \in AccountRows /\ functional \in Currencies
      /\ accounts' \in EnsureLedgerInfrastructure(accounts, functional)
      /\ functional' = functional /\ journal' = journal
      /\ assets' = assets /\ valuations' = valuations
    BY DEF AInv, LedgerInv, RepeatedRequest
<1>2. /\ accounts' \in AccountRows
      /\ \A a \in LedgerAccounts : accounts[a].status # "absent" => accounts'[a] = accounts[a]
    BY <1>1, InfrastructureOnlyAdds
<1>3. JournalOK(journal, accounts', C, AssetKeys)
    BY <1>2, RowsAdded DEF AInv
<1>4. AssetsOK(assets, accounts) /\ valuations \in Seq(ValuationRows)
    BY DEF AInv, ValuationsOK
<1> HIDE DEF C
<1>5. HandlerEffect(C, AssetKeys)
    BY <1>1, <1>2, <1>3, NoPosting DEF RowsKept
<1>6. AssetsOK(assets, accounts')
    BY <1>4, <1>5, HandlerKeepsParts DEF AInv
<1>7. LedgerInv(AssetKeys)'
    BY <1>1, <1>2, <1>3 DEF LedgerInv, C
<1> QED BY <1>1, <1>6, <1>7 DEF AInv

\* Archiving and restoring an asset with its account.
LEMMA UpdateAssetKeeps ==
    ASSUME AInv, NEW x \in AssetIds, NEW status \in {"active", "archived"},
           UpdateAsset(x, status)
    PROVE  AInv'
<1> DEFINE a == assets[x].account
           row == [accounts[a] EXCEPT !.status = status]
           C == {functional}
<1>1. /\ accounts \in AccountRows /\ functional \in Currencies
      /\ AssetsOK(assets, accounts)
      /\ assets \in [AssetIds -> AssetRows]
      /\ Exists(assets, x) /\ assets[x].status # "absent"
      /\ accounts' = [accounts EXCEPT ![a].status = status]
      /\ assets' = [assets EXCEPT ![x].status = status]
      /\ functional' = functional /\ journal' = journal /\ valuations' = valuations
    BY DEF AInv, LedgerInv, AssetsOK, UpdateAsset, AssetExists, Exists
<1>2. assets[x] \in AssetRows /\ a \in UserAccounts /\ accounts[a].status # "absent"
    BY <1>1, RowOfAsset DEF AssetsOK
<1>3. a \in LedgerAccounts /\ a \notin SystemAccounts
    BY <1>2, OwnRows
<1>4. accounts[a] \in Rows /\ accounts[a] # Absent
    BY <1>1, <1>2, <1>3 DEF AccountRows, Absent
<1>5. row \in Rows /\ row.status = status /\ row.currency = accounts[a].currency
    BY <1>4 DEF Rows
<1>6. accounts' = With(accounts, a, row)
    BY <1>1, <1>3 DEF With, AccountRows
<1> HIDE DEF a, row
<1>7. /\ accounts' \in AccountRows /\ accounts'[a] = row
      /\ \A b \in LedgerAccounts : b # a => accounts'[b] = accounts[b]
  <2>1. accounts \in AccountRows
      BY <1>1
  <2> QED BY <1>3, <1>5, <1>6, <2>1, RowReplaced
<1>8. \A b \in LedgerAccounts : accounts[b].status # "absent" =>
          accounts'[b].status # "absent" /\ accounts'[b].currency = accounts[b].currency
    BY <1>5, <1>7
<1>9. JournalOK(journal, accounts', C, AssetKeys)
    BY <1>7, <1>8, RowsAdded DEF AInv
<1>10. AssetsOK(assets, accounts')
  <2>1. \A y \in AssetIds : Exists(assets, y) => assets[y].account \in LedgerAccounts
      BY <1>1, RowOfAsset DEF Exists, LedgerAccounts
  <2> QED BY <1>1, <1>8, <2>1 DEF AssetsOK
<1>11. /\ assets' \in [AssetIds -> AssetRows]
       /\ \A y \in AssetIds : /\ Exists(assets', y) <=> Exists(assets, y)
                              /\ assets'[y].account = assets[y].account
                              /\ assets'[y].key = assets[y].key
                              /\ assets'[y].purchase = assets[y].purchase
  <2>1. assets[x] # NoAsset
      BY <1>1 DEF NoAsset
  <2>2. [assets[x] EXCEPT !.status = status] \in AssetRows
      BY <1>2, <2>1 DEF AssetRows
  <2> QED BY <1>1, <1>2, <2>1, <2>2 DEF Exists, AssetRows
<1>12. AssetsOK(assets', accounts')
    BY <1>10, <1>11 DEF AssetsOK
<1>13. PurchasesIn(journal', assets')
    BY <1>1, <1>11 DEF AInv, PurchasesIn
<1>14. \A n \in DOMAIN valuations : valuations[n].asset \in AssetIds
  <2>1. valuations \in Seq(ValuationRows)
      BY DEF AInv, ValuationsOK
  <2>2. \A n \in DOMAIN valuations : valuations[n] \in ValuationRows
      BY <2>1
  <2> QED BY <2>2 DEF ValuationRows
<1>15. ValuesIn(journal', assets', valuations')
    BY <1>1, <1>11, <1>14, AccountsStay DEF AInv
<1>16. ValuationsOK(assets', valuations')
  <2>1. ValuationsOK(assets, valuations)
      BY DEF AInv
  <2>2. \A n \in DOMAIN valuations : Exists(assets', valuations[n].asset)
      BY <1>11, <1>14, <2>1 DEF ValuationsOK
  <2>3. ValuationsOK(assets', valuations)
      BY <2>1, <2>2 DEF ValuationsOK
  <2> QED BY <1>1, <2>3
<1>17. KeysIn(journal', valuations')
    BY <1>1 DEF AInv
<1>18. LedgerInv(AssetKeys)'
    BY <1>1, <1>7, <1>9 DEF LedgerInv
<1> QED BY <1>12, <1>13, <1>15, <1>16, <1>17, <1>18 DEF AInv
\* The account of a new asset is active, and no other row is changed.
LEMMA AccountForAssetRows ==
    ASSUME NEW base, accounts \in AccountRows, functional \in Currencies,
           base \in EnsureLedgerInfrastructure(accounts, functional),
           NEW a \in UserAccounts, AccountForAsset(base, a)
    PROVE  /\ accounts' \in AccountRows /\ IsActive(accounts', a)
           /\ \A b \in LedgerAccounts :
                 accounts[b].status # "absent" => accounts'[b] = accounts[b]
<1> DEFINE row == Row("ASSET", functional)
<1>1. /\ base \in AccountRows
      /\ \A b \in LedgerAccounts : accounts[b].status # "absent" => base[b] = accounts[b]
    BY InfrastructureOnlyAdds
<1>2. a \in LedgerAccounts /\ a \notin SystemAccounts
    BY OwnRows
<1>3. row \in Rows /\ row.status = "active"
    BY DEF Row, Rows
<1>4. CASE base[a].status = "absent" /\ accounts' = [base EXCEPT ![a] = row]
  <2>1. accounts' = With(base, a, row)
      BY <1>4 DEF With
  <2> HIDE DEF row
  <2>2. /\ accounts' \in AccountRows /\ accounts'[a] = row
        /\ \A b \in LedgerAccounts : b # a => accounts'[b] = base[b]
      BY <1>1, <1>2, <1>3, <2>1, RowReplaced
  <2>3. ASSUME NEW b \in LedgerAccounts, accounts[b].status # "absent"
        PROVE  accounts'[b] = accounts[b]
    <3>1. base[b] = accounts[b]
        BY <1>1, <2>3
    <3>2. b # a
        BY <1>4, <2>3, <3>1
    <3> QED BY <2>2, <3>1, <3>2
  <2> QED BY <1>3, <2>2, <2>3 DEF IsActive
<1>5. CASE IsActive(base, a) /\ accounts' = base
    BY <1>1, <1>5
<1> QED BY <1>4, <1>5 DEF AccountForAsset

\* The purchase of a new asset may be posted.
LEMMA PurchaseMayFollow ==
    ASSUME NEW j, NEW accts \in AccountRows, functional \in Currencies,
           NEW C, functional \in C,
           NEW x \in AssetIds, NEW a \in UserAccounts, NEW purchase \in Purchases,
           purchase.source # "NONE", SourceLoads(accts, purchase.source, a),
           Accepted(j, accts, PurchaseOf(x, purchase.source, a, purchase)),
           ~KeyUsed(j, PurchaseKey(x))
    PROVE  /\ MayFollow(PurchaseOf(x, purchase.source, a, purchase), j, accts, C)
           /\ PurchaseOf(x, purchase.source, a, purchase) \in TransactionsWith(AssetKeys)
           /\ PurchaseOf(x, purchase.source, a, purchase).key = PurchaseKey(x)
           /\ PurchaseOf(x, purchase.source, a, purchase).entries[1].account
                  = purchase.source
           /\ PurchaseOf(x, purchase.source, a, purchase).entries[2].account = a
<1> DEFINE type == "ASSET_PURCHASE"
           date == purchase.date
           amount == -purchase.amount
           source == purchase.source
           key == PurchaseKey(x)
           p == PurchaseOf(x, purchase.source, a, purchase)
<1>1. source \in UserAccounts /\ source # a
    BY DEF SourceLoads, LoadAccount
<1>2. purchase \in [source : UserAccounts, amount : Amounts, date : Dates]
    BY DEF Purchases
<1>3. date \in Nat /\ amount \in Int /\ amount # 0 /\ -amount = purchase.amount
  <2>1. purchase.amount \in Amounts /\ purchase.date \in Dates
      BY <1>2
  <2>2. purchase.amount \in Nat /\ purchase.amount # 0 /\ purchase.date \in Nat
      BY <2>1, LedgerConstants
  <2> QED BY <2>2
<1>4. p = JournalSpec(type, date, key, 0, 0,
              <<Entry(source, amount, functional), Entry(a, -amount, functional)>>)
    BY <1>3 DEF PurchaseOf, PurchaseKey
<1>5. p.type = type /\ p.key = key /\ p.reverses = 0 /\ p.replaces = 0
    BY <1>4 DEF JournalSpec
<1>6. source \in LedgerAccounts /\ a \in LedgerAccounts
    BY <1>1 DEF LedgerAccounts
<1>7. type \in TransactionTypes /\ type # "REVERSAL"
    BY DEF TransactionTypes, TypedOperations
<1> HIDE DEF type, date, amount, source, key, p
<1>8. Accepted(j, accts, p) /\ ~KeyUsed(j, key)
    BY DEF p, key
<1>9. /\ WellFormed(p) /\ SoundTransaction(p, accts, C)
      /\ p.entries[1].account = source /\ p.entries[2].account = a
    BY <1>1, <1>3, <1>4, <1>6, <1>7, <1>8, AcceptedIsSound
<1>10. p \in TransactionsWith(AssetKeys)
  <2>1. key \in AssetKeys
      BY KeysDiffer DEF key
  <2> QED BY <1>5, <1>9, <2>1, KeyedBy
<1>11. MayFollow(p, j, accts, C)
    BY <1>5, <1>7, <1>9 DEF MayFollow, MayReplace
<1> QED BY <1>5, <1>9, <1>10, <1>11 DEF p, key, source
\* Creating an asset, with or without its purchase, keeps the invariant.
LEMMA CreateAssetKeeps ==
    ASSUME AInv, NEW x \in AssetIds, NEW a \in UserAccounts, NEW share \in Shares,
           NEW key \in Keys, NEW purchase \in Purchases,
           CreateAsset(x, a, share, key, purchase)
    PROVE  AInv'
<1> DEFINE C == {functional}
           K == AssetKeys
           p == PurchaseOf(x, purchase.source, a, purchase)
           bought == purchase.source # "NONE"
           row == [status |-> "active", account |-> a, currency |-> functional,
                   share |-> share, key |-> key,
                   purchase |-> IF bought THEN Len(journal') ELSE 0]
<1>1. /\ accounts \in AccountRows /\ functional \in Currencies
      /\ AssetsOK(assets, accounts)
      /\ assets \in [AssetIds -> AssetRows]
      /\ PurchasesIn(journal, assets)
      /\ valuations \in Seq(ValuationRows)
      /\ \A n \in DOMAIN valuations : Exists(assets, valuations[n].asset)
    BY DEF AInv, LedgerInv, AssetsOK, ValuationsOK
<1>2. /\ assets[x].status = "absent"
      /\ FreshAssetKey(key) /\ AccountFree(a)
      /\ bought => SourceLoads(accounts', purchase.source, a) /\ Accepted(journal, accounts', p)
      /\ journal' = IF bought THEN PostJournal(journal, p) ELSE journal
      /\ assets' = [assets EXCEPT ![x] = row]
      /\ functional' = functional /\ valuations' = valuations
    BY DEF CreateAsset
<1>3. /\ accounts' \in AccountRows /\ IsActive(accounts', a)
      /\ \A b \in LedgerAccounts : accounts[b].status # "absent" => accounts'[b] = accounts[b]
    BY <1>1, AccountForAssetRows DEF CreateAsset
<1>4. JournalOK(journal, accounts', C, K)
    BY <1>3, RowsAdded DEF AInv
<1>5. journal \in Seq(TransactionsWith(K)) /\ functional \in C
    BY <1>4 DEF JournalOK
<1>6. assets[x].purchase = 0 /\ ~KeyUsed(journal, PurchaseKey(x))
  <2>1. assets[x] = NoAsset
      BY <1>1, <1>2 DEF AssetRows
  <2>2. {i \in DOMAIN journal : journal[i].key = PurchaseKey(x)} = {}
      BY <1>1, <2>1 DEF PurchasesIn, NoAsset
  <2> QED BY <2>1, <2>2 DEF NoAsset, KeyUsed
<1> HIDE DEF C, K, p
<1>7. bought => /\ MayFollow(p, journal, accounts', C) /\ p \in TransactionsWith(K)
                /\ p.key = PurchaseKey(x)
    BY <1>1, <1>2, <1>3, <1>5, <1>6, PurchaseMayFollow DEF p, K
<1>8. journal' = IF bought THEN Append(journal, p) ELSE journal
    BY <1>2, <1>6, <1>7 DEF PostJournal
<1>9. Posted(journal, journal', accounts', C, TransactionsWith(K))
    BY <1>6, <1>7, <1>8 DEF Posted
<1>10. JournalOK(journal', accounts', C, K)
  <2>1. TransactionsWith(K) \subseteq TransactionsWith(K)
      OBVIOUS
  <2> QED BY <1>4, <1>9, <2>1, PostedKeepsJournal
<1>11. ValuesIn(journal', assets, valuations)
  <2>1. TransactionsWith(K) \subseteq TransactionsWith(K)
      OBVIOUS
  <2> QED BY <1>1, <1>4, <1>9, <2>1, PostedKeepsValues DEF AInv
<1>12. /\ Len(journal) \in Nat /\ DOMAIN journal = 1 .. Len(journal)
       /\ bought => /\ Len(journal') = Len(journal) + 1
                    /\ DOMAIN journal' = 1 .. Len(journal) + 1
                    /\ journal'[Len(journal) + 1] = p
                    /\ \A i \in DOMAIN journal : journal'[i] = journal[i]
  <2>1. CASE bought
      BY <1>5, <1>7, <1>8, <2>1, Appended
  <2>2. CASE ~bought
      BY <1>5, <2>2
  <2> QED BY <2>1, <2>2
<1>13. row \in AssetRows /\ row.status = "active" /\ row.account = a /\ row.key = key
       /\ row.purchase = IF bought THEN Len(journal) + 1 ELSE 0
    BY <1>1, <1>12 DEF AssetRows
<1>14. /\ assets' \in [AssetIds -> AssetRows] /\ assets'[x] = row
       /\ \A y \in AssetIds : y # x => assets'[y] = assets[y]
    BY <1>1, <1>2, <1>13
<1> HIDE DEF row, bought
<1>15. \A n \in DOMAIN valuations : /\ valuations[n].asset \in AssetIds
                                    /\ valuations[n].asset # x
  <2>1. \A n \in DOMAIN valuations : valuations[n] \in ValuationRows
      BY <1>1
  <2> QED BY <1>1, <1>2, <2>1 DEF ValuationRows, Exists
<1>16. AssetsOK(assets', accounts')
  <2>1. \A y \in AssetIds : Exists(assets, y) => assets[y].account \in LedgerAccounts
      BY <1>1, RowOfAsset DEF Exists, LedgerAccounts
  <2>2. \A y \in AssetIds : y # x =>
          /\ Exists(assets', y) <=> Exists(assets, y)
          /\ Exists(assets, y) => assets[y].key # key /\ assets[y].account # a
      BY <1>2, <1>14 DEF FreshAssetKey, AssetKeyUsed, AssetExists, AccountFree, Exists
  <2>3. ASSUME NEW y \in AssetIds, Exists(assets', y)
        PROVE  accounts'[assets'[y].account].status # "absent"
    <3>1. CASE y = x
        BY <1>3, <1>13, <1>14, <3>1 DEF IsActive
    <3>2. CASE y # x
        BY <1>1, <1>3, <1>14, <2>1, <2>2, <2>3, <3>2 DEF AssetsOK
    <3> QED BY <3>1, <3>2
  <2>4. ASSUME NEW y \in AssetIds, NEW z \in AssetIds,
               Exists(assets', y), Exists(assets', z), y # z
        PROVE  assets'[y].key # assets'[z].key /\ assets'[y].account # assets'[z].account
      BY <1>1, <1>13, <1>14, <2>2, <2>4 DEF AssetsOK
  <2> QED BY <1>14, <2>3, <2>4 DEF AssetsOK
<1>17. PurchasesIn(journal', assets')
  <2> SUFFICES ASSUME NEW y \in AssetIds
               PROVE  /\ assets'[y].purchase \in 0 .. Len(journal')
                      /\ {i \in DOMAIN journal' : journal'[i].key = PurchaseKey(y)}
                            = {assets'[y].purchase} \ {0}
      BY DEF PurchasesIn
  <2>1. /\ assets[y].purchase \in 0 .. Len(journal)
        /\ {i \in DOMAIN journal : journal[i].key = PurchaseKey(y)}
              = {assets[y].purchase} \ {0}
      BY <1>1 DEF PurchasesIn
  <2>2. CASE ~bought
      BY <1>6, <1>8, <1>12, <1>13, <1>14, <2>1, <2>2
  <2>3. CASE bought /\ y # x
    <3>1. p.key # PurchaseKey(y)
        BY <1>7, <2>3, KeysDiffer
    <3>2. {i \in DOMAIN journal' : journal'[i].key = PurchaseKey(y)}
             = {i \in DOMAIN journal : journal[i].key = PurchaseKey(y)}
        BY <1>12, <2>3, <3>1
    <3>3. assets'[y] = assets[y] /\ 0 .. Len(journal) \subseteq 0 .. Len(journal')
        BY <1>12, <1>14, <2>3
    <3> QED BY <2>1, <3>2, <3>3
  <2>4. CASE bought /\ y = x
    <3>1. \A i \in DOMAIN journal : journal[i].key # PurchaseKey(x)
        BY <1>6 DEF KeyUsed
    <3>2. {i \in DOMAIN journal' : journal'[i].key = PurchaseKey(y)} = {Len(journal) + 1}
        BY <1>7, <1>12, <2>4, <3>1
    <3>3. assets'[y].purchase = Len(journal) + 1 /\ Len(journal') = Len(journal) + 1
        BY <1>12, <1>13, <1>14, <2>4
    <3> QED BY <1>12, <3>2, <3>3
  <2> QED BY <2>2, <2>3, <2>4
<1>18. ValuesIn(journal', assets', valuations')
    BY <1>2, <1>11, <1>14, <1>15, AccountsStay
<1>19. ValuationsOK(assets', valuations')
  <2>1. \A n \in DOMAIN valuations : Exists(assets', valuations[n].asset)
      BY <1>1, <1>14, <1>15 DEF Exists
  <2> QED BY <1>2, <2>1 DEF AInv, ValuationsOK
<1>20. KeysIn(journal', valuations')
  <2>1. CASE ~bought
      BY <1>2, <1>8, <2>1 DEF AInv
  <2>2. CASE bought
    <3>1. \A y \in AssetIds, k \in Keys : p.key # RevaluationKey(y, k)
        BY <1>7, <2>2, KeysDiffer
    <3>2. KeysIn(journal, valuations)
        BY DEF AInv
    <3>3. KeysIn(Append(journal, p), valuations)
      <4>1. p \in TransactionsWith(K)
          BY <1>7, <2>2
      <4> QED BY <1>5, <3>1, <3>2, <4>1, KeysGrow
    <3> QED BY <1>2, <1>8, <2>2, <3>3
  <2> QED BY <2>1, <2>2
<1>21. LedgerInv(AssetKeys)'
    BY <1>1, <1>2, <1>3, <1>10 DEF LedgerInv, C, K
<1> QED BY <1>16, <1>17, <1>18, <1>19, <1>20, <1>21 DEF AInv
\* The owned part of a value is no more than the value (the rounding of half a
\* unit included).
LEMMA OwnedIsPart ==
    ASSUME NEW market \in Nat, NEW share \in Shares
    PROVE  OwnedValue(market, share) \in Nat /\ OwnedValue(market, share) <= market
<1> DEFINE product == market * share
           n == product + 5000
           q == n \div 10000
<1>1. product \in Nat /\ product <= market * 10000
  <2>0. share \in 1 .. 10000
      BY ShareConstants
  <2>1. market * (10000 - share) \in Nat
      BY <2>0
  <2>2. market * 10000 = market * share + market * (10000 - share)
      BY <2>0
  <2>3. market * share \in Nat
      BY <2>0
  <2> QED BY <2>1, <2>2, <2>3
<1> HIDE DEF product
<1>2. n \in Nat /\ n < 10000 * (market + 1)
    BY <1>1
<1> HIDE DEF n
<1>3. q \in Nat /\ 10000 * q <= n
    BY <1>2
<1> HIDE DEF q
<1>4. q <= market
    BY <1>2, <1>3
<1>5. OwnedValue(market, share) = q
    BY DEF OwnedValue, q, n, product
<1> QED BY <1>3, <1>4, <1>5

\* The latest valuation of an asset is the one recorded last, and no other has a
\* later date.
LEMMA LatestIs ==
    ASSUME ValuationsOK(assets, valuations), NEW x \in AssetIds, Valued(x)
    PROVE  /\ LatestValuation(x) \in ValuationsOf(x)
           /\ \A k \in ValuationsOf(x) :
                 valuations[k].date <= valuations[LatestValuation(x)].date
<1>1. /\ DOMAIN valuations = 1 .. Len(valuations) /\ Len(valuations) \in Nat
      /\ \A n \in DOMAIN valuations : valuations[n].date \in Nat
  <2>1. valuations \in Seq(ValuationRows)
      BY DEF ValuationsOK
  <2>2. \A n \in DOMAIN valuations : valuations[n] \in ValuationRows
      BY <2>1
  <2> QED BY <2>1, <2>2 DEF ValuationRows
<1> DEFINE V == ValuationsOf(x)
<1>2. V \subseteq 1 .. Len(valuations) /\ V # {}
    BY <1>1 DEF ValuationsOf, Valued
<1> HIDE DEF V
<1>3. PICK i \in V : \A k \in V : k <= i
    BY <1>1, <1>2, LargestNatural
<1>4. \A k \in V : valuations[k].date <= valuations[i].date
  <2> SUFFICES ASSUME NEW k \in V
               PROVE  valuations[k].date <= valuations[i].date
      OBVIOUS
  <2>1. CASE k = i
      BY <1>1, <1>2, <2>1
  <2>2. CASE k # i
    <3>1. k \in 1 .. i - 1 /\ i \in DOMAIN valuations
        BY <1>1, <1>2, <1>3, <2>2
    <3>2. valuations[k].asset = valuations[i].asset
        BY DEF V, ValuationsOf
    <3> QED BY <3>1, <3>2 DEF ValuationsOK
  <2> QED BY <2>1, <2>2
<1>5. \A k \in V : \/ valuations[k].date < valuations[i].date
                   \/ valuations[k].date = valuations[i].date /\ k <= i
    BY <1>1, <1>2, <1>3, <1>4
<1>6. \E n \in V : \A k \in V : \/ valuations[k].date < valuations[n].date
                                \/ valuations[k].date = valuations[n].date /\ k <= n
    BY <1>5
<1>7. /\ LatestValuation(x) \in V
      /\ \A k \in V : \/ valuations[k].date < valuations[LatestValuation(x)].date
                      \/ valuations[k].date = valuations[LatestValuation(x)].date
    BY <1>6 DEF LatestValuation, V
<1> QED BY <1>1, <1>2, <1>7 DEF V

\* The revaluation of an asset may be posted and moves the asset's account by
\* the difference.
LEMMA RevaluationMayFollow ==
    ASSUME NEW j, NEW accts \in AccountRows, functional \in Currencies,
           NEW C, functional \in C,
           NEW x \in AssetIds, assets[x].account \in UserAccounts,
           NEW key \in Keys, NEW date \in Nat, NEW adjustment \in Int, adjustment # 0,
           NEW r, r = Revaluation(x, key, date, adjustment),
           Accepted(j, accts, r), ~KeyUsed(j, RevaluationKey(x, key))
    PROVE  /\ MayFollow(r, j, accts, C) /\ r \in TransactionsWith(AssetKeys)
           /\ r.key = RevaluationKey(x, key) /\ r.type = "REVALUATION" /\ r.date = date
           /\ Delta(r, assets[x].account) = adjustment
           /\ \A c : Delta(r, c) \in Int
<1> DEFINE type == "REVALUATION"
           a == assets[x].account
           b == "UNREALIZED_GAIN_LOSS"
           k == RevaluationKey(x, key)
<1>1. r = JournalSpec(type, date, k, 0, 0,
              <<Entry(a, adjustment, functional), Entry(b, -adjustment, functional)>>)
    BY DEF Revaluation, RevaluationKey
<1>2. r.type = type /\ r.key = k /\ r.reverses = 0 /\ r.replaces = 0 /\ r.date = date
    BY <1>1 DEF JournalSpec
<1>3. a \in LedgerAccounts /\ b \in LedgerAccounts /\ a # b
    BY LedgerConstants DEF LedgerAccounts, SystemAccounts
<1>4. type \in TransactionTypes /\ type # "REVERSAL"
    BY DEF TransactionTypes, TypedOperations
<1> HIDE DEF type, a, b, k
<1>5. Accepted(j, accts, r) /\ ~KeyUsed(j, k)
    BY DEF k
<1>6. /\ WellFormed(r) /\ SoundTransaction(r, accts, C)
      /\ r.entries[1].account = a /\ r.entries[1].amount = adjustment
    BY <1>1, <1>3, <1>4, <1>5, AcceptedIsSound
<1>7. r \in TransactionsWith(AssetKeys)
  <2>1. k \in AssetKeys
      BY KeysDiffer DEF k
  <2> QED BY <1>2, <1>6, <2>1, KeyedBy
<1>8. MayFollow(r, j, accts, C)
    BY <1>2, <1>4, <1>6 DEF MayFollow, MayReplace
<1>9. \A c : Delta(r, c) \in Int /\ (c = a => Delta(r, c) = adjustment)
    BY <1>6, <1>7, DeltaIs
<1> QED BY <1>2, <1>7, <1>8, <1>9 DEF k, a, type

\* What clients report are natural numbers.
LEMMA NaturalInputs ==
    /\ \A market \in MarketValues : market \in Nat
    /\ \A date \in Dates : date \in Nat
<1>1. MarketValues \subseteq Nat
    BY AssetConstants
<1>2. Dates \subseteq Nat
    BY LedgerConstants
<1> QED BY <1>1, <1>2

\* Recording a valuation, with or without a revaluation, keeps the invariant.
LEMMA CreateAssetValuationKeeps ==
    ASSUME AInv, NEW x \in AssetIds, NEW market \in MarketValues, NEW date \in Dates,
           NEW key \in Keys, CreateAssetValuation(x, market, date, key)
    PROVE  AInv'
<1> DEFINE C == {functional}
           K == AssetKeys
           a == assets[x].account
           owned == OwnedValue(market, assets[x].share)
           before == BalanceAt(journal, a, date)
           adjustment == owned - before
           r == Revaluation(x, key, date, adjustment)
           v == [asset |-> x, date |-> date, market |-> market, owned |-> owned,
                 before |-> before, adjustment |-> adjustment, key |-> key,
                 transaction |-> IF adjustment = 0 THEN 0 ELSE Len(journal'),
                 seen |-> Len(journal')]
<1>1. /\ accounts \in AccountRows /\ functional \in Currencies
      /\ AssetsOK(assets, accounts)
      /\ assets \in [AssetIds -> AssetRows]
      /\ PurchasesIn(journal, assets)
      /\ ValuationsOK(assets, valuations)
      /\ valuations \in Seq(ValuationRows)
      /\ ValuesIn(journal, assets, valuations)
      /\ KeysIn(journal, valuations)
    BY DEF AInv, LedgerInv, AssetsOK, ValuationsOK
<1>2. /\ assets[x].status = "active"
      /\ ~ValuationKeyUsed(key) /\ NotBeforeLatest(x, date)
      /\ accounts' \in EnsureLedgerInfrastructure(accounts, functional)
      /\ \/ adjustment = 0 /\ journal' = journal
         \/ /\ adjustment # 0
            /\ Accepted(journal, accounts', r)
            /\ journal' = PostJournal(journal, r)
      /\ valuations' = Append(valuations, v)
      /\ functional' = functional /\ assets' = assets
    BY DEF CreateAssetValuation, AccountBalanceAt
<1>3. /\ accounts' \in AccountRows
      /\ \A b \in LedgerAccounts : accounts[b].status # "absent" => accounts'[b] = accounts[b]
    BY <1>1, <1>2, InfrastructureOnlyAdds
<1>4. JournalOK(journal, accounts', C, K)
    BY <1>3, RowsAdded DEF AInv
<1>5. journal \in Seq(TransactionsWith(K)) /\ functional \in C
    BY <1>4 DEF JournalOK
<1> HIDE DEF C, K
<1>6. \A c : DeltasOf(journal, c)
    BY <1>4, SoundDeltas
<1>7. assets[x].share \in Shares /\ a \in UserAccounts
    BY <1>1, <1>2, RowOfAsset
<1>8. market \in Nat /\ date \in Nat
    BY NaturalInputs
<1>9. before \in Int
  <2>1. UpTo(journal, date) \subseteq DOMAIN journal
      BY DEF UpTo
  <2>2. Moved(journal, a, UpTo(journal, date)) \in Int
      BY <1>5, <1>6, <2>1, MovedType
  <2> QED BY <2>2 DEF BalanceAt, Moved, UpTo
<1>10. owned \in Nat /\ owned <= market
  <2> DEFINE share == assets[x].share
  <2>1. share \in Shares
      BY <1>7
  <2> HIDE DEF share
  <2>2. OwnedValue(market, share) \in Nat /\ OwnedValue(market, share) <= market
      BY <1>8, <2>1, OwnedIsPart
  <2> QED BY <2>2 DEF share
<1> HIDE DEF owned, before
<1>11. adjustment \in Int /\ before + adjustment = owned
    BY <1>9, <1>10
<1> HIDE DEF adjustment
<1>12. ~KeyUsed(journal, RevaluationKey(x, key))
    BY <1>1, <1>2 DEF KeysIn, KeyUsed, ValuationKeyUsed
<1> HIDE DEF r
<1>13. adjustment # 0 =>
         /\ MayFollow(r, journal, accounts', C) /\ r \in TransactionsWith(K)
         /\ r.key = RevaluationKey(x, key) /\ r.type = "REVALUATION" /\ r.date = date
         /\ Delta(r, a) = adjustment /\ \A c : Delta(r, c) \in Int
  <2>1. adjustment # 0 => Accepted(journal, accounts', r)
      BY <1>2
  <2>2. functional \in Currencies /\ date \in Nat /\ assets[x].account \in UserAccounts
      BY <1>1, <1>7, <1>8
  <2>3. CASE adjustment # 0
    <3>1. /\ MayFollow(r, journal, accounts', C) /\ r \in TransactionsWith(AssetKeys)
          /\ r.key = RevaluationKey(x, key) /\ r.type = "REVALUATION" /\ r.date = date
          /\ Delta(r, assets[x].account) = adjustment /\ \A c : Delta(r, c) \in Int
      <4> HIDE DEF a, v
      <4>1. /\ accounts' \in AccountRows /\ functional \in Currencies /\ functional \in C
            /\ assets[x].account \in UserAccounts /\ date \in Nat
            /\ adjustment \in Int /\ adjustment # 0
            /\ Accepted(journal, accounts', r) /\ ~KeyUsed(journal, RevaluationKey(x, key))
          BY <1>3, <1>5, <1>11, <1>12, <2>1, <2>2, <2>3
      <4>2. r = Revaluation(x, key, date, adjustment)
          BY DEF r
      <4> QED BY <4>1, <4>2, RevaluationMayFollow
    <3> QED BY <3>1 DEF K
  <2> QED BY <2>3
<1>14. journal' = IF adjustment # 0 THEN Append(journal, r) ELSE journal
    BY <1>2, <1>12, <1>13 DEF PostJournal
<1>15. Posted(journal, journal', accounts', C, TransactionsWith(K))
    BY <1>12, <1>13, <1>14 DEF Posted
<1>16. JournalOK(journal', accounts', C, K) /\ ValuesIn(journal', assets, valuations)
  <2>1. TransactionsWith(K) \subseteq TransactionsWith(K)
      OBVIOUS
  <2> QED BY <1>1, <1>4, <1>15, <2>1, PostedKeepsJournal, PostedKeepsValues
<1>17. /\ Len(journal) \in Nat /\ DOMAIN journal = 1 .. Len(journal)
       /\ adjustment # 0 => /\ Len(journal') = Len(journal) + 1
                            /\ DOMAIN journal' = 1 .. Len(journal) + 1
                            /\ journal'[Len(journal) + 1] = r
                            /\ \A i \in DOMAIN journal : journal'[i] = journal[i]
       /\ Len(journal') \in Nat /\ DOMAIN journal' = 1 .. Len(journal')
  <2>1. CASE adjustment # 0
      BY <1>5, <1>13, <1>14, <2>1, Appended
  <2>2. CASE adjustment = 0
      BY <1>5, <1>14, <2>2
  <2> QED BY <2>1, <2>2
<1>18. /\ v \in ValuationRows
       /\ v.asset = x /\ v.date = date /\ v.market = market /\ v.owned = owned
       /\ v.before = before /\ v.adjustment = adjustment /\ v.key = key
       /\ v.seen = Len(journal')
       /\ v.transaction = IF adjustment = 0 THEN 0 ELSE Len(journal')
  <2> DEFINE length == Len(journal')
             t == IF adjustment = 0 THEN 0 ELSE length
  <2>1. length \in Nat /\ t \in Nat /\ t = IF adjustment = 0 THEN 0 ELSE length
      BY <1>17
  <2> HIDE DEF t, length
  <2>2. v = [asset |-> x, date |-> date, market |-> market, owned |-> owned,
             before |-> before, adjustment |-> adjustment, key |-> key,
             transaction |-> t, seen |-> length]
      BY DEF t, length
  <2>3. market \in Nat /\ date \in Nat /\ before \in Int /\ owned \in Nat /\ adjustment \in Int
      BY <1>8, <1>9, <1>10, <1>11
  <2> HIDE DEF v
  <2> QED BY <2>1, <2>2, <2>3 DEF ValuationRows, length
<1> HIDE DEF v
<1>19. /\ valuations' \in Seq(ValuationRows)
       /\ DOMAIN valuations = 1 .. Len(valuations) /\ Len(valuations) \in Nat
       /\ DOMAIN valuations' = 1 .. Len(valuations) + 1
       /\ \A n \in 1 .. Len(valuations) : valuations'[n] = valuations[n]
       /\ valuations'[Len(valuations) + 1] = v
    BY <1>1, <1>2, <1>18, Appended
<1>20. RevaluationIn(journal', a, v)
  <2>1. v.transaction \in 0 .. Len(journal') /\ v.seen \in 0 .. Len(journal')
    <3>1. Len(journal') \in Nat
        BY <1>17
    <3> QED BY <1>18, <3>1
  <2>2. CASE adjustment = 0
      BY <1>18, <2>1, <2>2 DEF RevaluationIn
  <2>3. CASE adjustment # 0
    <3>1. journal'[v.transaction] = r
        BY <1>17, <1>18, <2>3
    <3> QED BY <1>13, <1>18, <2>1, <2>3, <3>1 DEF RevaluationIn
  <2> QED BY <2>2, <2>3
<1>21. ValueIn(journal', a, v)
  <2>1. LateFor(journal', v) = {}
    <3>1. \A i \in DOMAIN journal' : ~(i > Len(journal'))
      <4> DEFINE length == Len(journal')
      <4>1. DOMAIN journal' = 1 .. length /\ length \in Nat
          BY <1>17
      <4> HIDE DEF length
      <4>2. \A i \in 1 .. length : ~(i > length)
          BY <4>1
      <4> QED BY <4>1, <4>2 DEF length
    <3>2. v.seen = Len(journal')
        BY <1>18
    <3> QED BY <3>1, <3>2 DEF LateFor
  <2>2. Moved(journal', a, LateFor(journal', v)) = 0
    <3> DEFINE I == LateFor(journal', v)
    <3>1. JournalOK(journal', accounts', C, K)
        BY <1>16
    <3>2. journal' \in Seq(TransactionsWith(K)) /\ DeltasOf(journal', a)
        BY <3>1, SoundDeltas DEF JournalOK
    <3>3. I = {} /\ I \subseteq DOMAIN journal'
        BY <2>1
    <3> HIDE DEF I
    <3>4. Moved(journal', a, I) = 0
        BY <3>2, <3>3, MovedType
    <3> QED BY <3>4 DEF I
  <2>3. BalanceAt(journal', a, date) = owned
    <3>1. CASE adjustment = 0
        BY <1>9, <1>10, <1>11, <1>14, <3>1 DEF before
    <3>2. CASE adjustment # 0
      <4>1. BalanceAt(Append(journal, r), a, date) = BalanceAt(journal, a, date) + Delta(r, a)
        <5>1. DeltasOf(journal, a) /\ Delta(r, a) \in Int /\ r \in TransactionsWith(K)
            BY <1>6, <1>13, <3>2
        <5>2. BalanceAt(Append(journal, r), a, date) =
                BalanceAt(journal, a, date) + IF r.date <= date THEN Delta(r, a) ELSE 0
            BY <1>5, <5>1, BalanceGrows
        <5>3. r.date = date /\ date \in Nat /\ Delta(r, a) \in Int
            BY <1>8, <1>13, <3>2
        <5> QED BY <5>2, <5>3
      <4> QED BY <1>11, <1>13, <1>14, <3>2, <4>1 DEF before
    <3> QED BY <3>1, <3>2
  <2> QED BY <1>10, <1>18, <2>2, <2>3 DEF ValueIn
<1>22. ValuesIn(journal', assets', valuations')
  <2> SUFFICES ASSUME NEW n \in DOMAIN valuations'
               PROVE  /\ RevaluationIn(journal', assets[valuations'[n].asset].account,
                                       valuations'[n])
                      /\ ValueIn(journal', assets[valuations'[n].asset].account,
                                 valuations'[n])
      BY <1>2 DEF ValuesIn
  <2>1. CASE n = Len(valuations) + 1
      BY <1>18, <1>19, <1>20, <1>21, <2>1 DEF a
  <2>2. CASE n \in DOMAIN valuations
    <3>1. valuations'[n] = valuations[n]
        BY <1>19, <2>2
    <3> QED BY <1>16, <2>2, <3>1 DEF ValuesIn
  <2> QED BY <1>19, <2>1, <2>2
<1>23. \A n \in DOMAIN valuations : valuations[n].asset = x => valuations[n].date <= date
  <2> SUFFICES ASSUME NEW n \in DOMAIN valuations, valuations[n].asset = x
               PROVE  valuations[n].date <= date
      OBVIOUS
  <2>1. n \in ValuationsOf(x) /\ Valued(x)
      BY DEF ValuationsOf, Valued
  <2>2. /\ LatestValuation(x) \in ValuationsOf(x)
        /\ valuations[n].date <= valuations[LatestValuation(x)].date
      BY <1>1, <2>1, LatestIs
  <2>3. valuations[LatestValuation(x)].date <= date
      BY <1>2, <2>1 DEF NotBeforeLatest
  <2>4. \A i \in DOMAIN valuations : valuations[i].date \in Nat
    <3>1. \A i \in DOMAIN valuations : valuations[i] \in ValuationRows
        BY <1>1
    <3> QED BY <3>1 DEF ValuationRows
  <2>5. /\ valuations[LatestValuation(x)].date \in Nat
        /\ valuations[n].date \in Nat /\ date \in Nat
      BY <1>8, <2>2, <2>4 DEF ValuationsOf
  <2> HIDE DEF a
  <2> QED BY <2>2, <2>3, <2>5
<1>24. \A n \in DOMAIN valuations : valuations[n].transaction \in 0 .. Len(journal)
    BY <1>1 DEF ValuesIn, RevaluationIn
<1>25. ValuationsOK(assets', valuations')
  <2>1. ASSUME NEW n \in DOMAIN valuations'
        PROVE  /\ Exists(assets, valuations'[n].asset)
               /\ valuations'[n].owned <= valuations'[n].market
               /\ valuations'[n].before + valuations'[n].adjustment = valuations'[n].owned
               /\ valuations'[n].transaction = 0 <=> valuations'[n].adjustment = 0
    <3>1. CASE n = Len(valuations) + 1
      <4>1. adjustment # 0 => Len(journal') # 0
          BY <1>17
      <4>2. v.transaction = 0 <=> v.adjustment = 0
          BY <1>18, <4>1
      <4> QED BY <1>2, <1>10, <1>11, <1>18, <1>19, <3>1, <4>2 DEF Exists
    <3>2. CASE n \in DOMAIN valuations
        BY <1>1, <1>19, <3>2 DEF ValuationsOK
    <3> QED BY <1>19, <3>1, <3>2
  <2>2. ASSUME NEW n \in DOMAIN valuations', NEW k \in 1 .. n - 1
        PROVE  /\ valuations'[k].transaction # 0 =>
                     valuations'[k].transaction # valuations'[n].transaction
               /\ valuations'[k].asset = valuations'[n].asset =>
                     valuations'[k].date <= valuations'[n].date
    <3>1. CASE n = Len(valuations) + 1
      <4>1. k \in DOMAIN valuations /\ valuations'[k] = valuations[k]
          BY <1>19, <2>2, <3>1
      <4>2. valuations[k].transaction \in 0 .. Len(journal)
          BY <1>24, <4>1
      <4>3. v.transaction = 0 \/ v.transaction = Len(journal) + 1
          BY <1>17, <1>18
      <4>4. valuations[k].transaction # 0 => valuations[k].transaction # v.transaction
        <5>1. Len(journal) \in Nat
            BY <1>17
        <5> QED BY <4>2, <4>3, <5>1
      <4> QED BY <1>18, <1>19, <1>23, <3>1, <4>1, <4>4
    <3>2. CASE n \in DOMAIN valuations
      <4>1. k \in DOMAIN valuations
          BY <1>19, <2>2, <3>2
      <4>2. valuations'[k] = valuations[k] /\ valuations'[n] = valuations[n]
          BY <1>19, <3>2, <4>1
      <4> QED BY <1>1, <2>2, <3>2, <4>2 DEF ValuationsOK
    <3> QED BY <1>19, <3>1, <3>2
  <2> QED BY <1>2, <1>19, <2>1, <2>2 DEF ValuationsOK
<1>26. PurchasesIn(journal', assets')
  <2>1. CASE adjustment = 0
      BY <1>1, <1>2, <1>14, <2>1
  <2>2. CASE adjustment # 0
    <3>1. \A y \in AssetIds : r.key # PurchaseKey(y)
        BY <1>13, <2>2, KeysDiffer
    <3>2. r \in TransactionsWith(K)
        BY <1>13, <2>2
    <3>3. PurchasesIn(Append(journal, r), assets)
        BY <1>1, <1>5, <3>1, <3>2, PurchasesGrow
    <3> QED BY <1>2, <1>14, <2>2, <3>3
  <2> QED BY <2>1, <2>2
<1>27. KeysIn(journal', valuations')
  <2>1. valuations'[Len(valuations) + 1].key = key
        /\ Len(valuations) + 1 \in DOMAIN valuations'
      BY <1>18, <1>19
  <2>2. KeysIn(journal, valuations')
    <3> SUFFICES ASSUME NEW i \in DOMAIN journal, NEW y \in AssetIds, NEW k \in Keys,
                        journal[i].key = RevaluationKey(y, k)
                 PROVE  \E n \in DOMAIN valuations' : valuations'[n].key = k
        BY DEF KeysIn
    <3>1. PICK n \in DOMAIN valuations : valuations[n].key = k
        BY <1>1 DEF KeysIn
    <3>2. n \in DOMAIN valuations' /\ valuations'[n].key = k
        BY <1>19, <3>1
    <3> QED BY <3>2
  <2>3. CASE adjustment = 0
      BY <1>14, <2>2, <2>3
  <2>4. CASE adjustment # 0
    <3>1. \A y \in AssetIds, k \in Keys :
             r.key = RevaluationKey(y, k) => \E n \in DOMAIN valuations' : valuations'[n].key = k
      <4> SUFFICES ASSUME NEW y \in AssetIds, NEW k \in Keys, r.key = RevaluationKey(y, k)
                   PROVE  \E n \in DOMAIN valuations' : valuations'[n].key = k
          OBVIOUS
      <4>1. k = key
          BY <1>13, <2>4, KeysDiffer
      <4> QED BY <2>1, <4>1
    <3>2. r \in TransactionsWith(K)
        BY <1>13, <2>4
    <3>3. KeysIn(Append(journal, r), valuations')
        BY <1>5, <2>2, <3>1, <3>2, KeysGrow
    <3> QED BY <1>14, <2>4, <3>3
  <2> QED BY <2>3, <2>4
<1>28. AssetsOK(assets', accounts')
  <2>1. \A y \in AssetIds : Exists(assets, y) => assets[y].account \in LedgerAccounts
      BY <1>1, RowOfAsset DEF Exists, LedgerAccounts
  <2>2. \A y \in AssetIds : Exists(assets, y) => accounts'[assets[y].account].status # "absent"
      BY <1>1, <1>3, <2>1 DEF AssetsOK
  <2> QED BY <1>1, <1>2, <2>2 DEF AssetsOK
<1>29. LedgerInv(AssetKeys)'
    BY <1>1, <1>2, <1>3, <1>16 DEF LedgerInv, C, K
<1> QED BY <1>22, <1>25, <1>26, <1>27, <1>28, <1>29 DEF AInv
-----------------------------------------------------------------------------
(***************************************************************************)
(* Invariance.                                                             *)
(***************************************************************************)

\* A user begins without assets.
LEMMA AssetsInitEstablishes ==
    ASSUME AssetsInit
    PROVE  AInv
<1>1. Init
    BY DEF AssetsInit
<1>2. LedgerInv(AssetKeys)
  <2> DEFINE C == {functional}
  <2>1. JournalOK(journal, accounts, C, AssetKeys) /\ accounts \in AccountRows
        /\ functional \in Currencies
      BY <1>1, InitEstablishes
  <2> QED BY <2>1 DEF LedgerInv
<1>3. journal = <<>> /\ valuations = <<>> /\ assets = [x \in AssetIds |-> NoAsset]
    BY <1>1 DEF AssetsInit, Init
<1>4. DOMAIN journal = {} /\ Len(journal) = 0 /\ DOMAIN valuations = {}
      /\ valuations \in Seq(ValuationRows)
    BY <1>3
<1>5. /\ assets \in [AssetIds -> AssetRows]
      /\ \A x \in AssetIds : ~Exists(assets, x) /\ assets[x].purchase = 0
    BY <1>3 DEF AssetRows, NoAsset, Exists
<1>6. AssetsOK(assets, accounts)
    BY <1>5 DEF AssetsOK
<1>7. ValuationsOK(assets, valuations) /\ ValuesIn(journal, assets, valuations)
    BY <1>4 DEF ValuationsOK, ValuesIn
<1>8. PurchasesIn(journal, assets)
    BY <1>4, <1>5 DEF PurchasesIn
<1>9. KeysIn(journal, valuations)
    BY <1>4 DEF KeysIn
<1> QED BY <1>2, <1>6, <1>7, <1>8, <1>9 DEF AInv

\* Every handler, of the assets or of the ledger, keeps the invariant.
LEMMA AssetsNextKeeps == AInv /\ [AssetsNext]_assetVars => AInv'
<1> SUFFICES ASSUME AInv, [AssetsNext]_assetVars PROVE AInv'
    OBVIOUS
<1>1. ASSUME NEW x \in AssetIds, NEW a \in UserAccounts, NEW share \in Shares,
             NEW key \in Keys, NEW purchase \in Purchases,
             CreateAsset(x, a, share, key, purchase)
      PROVE  AInv'
    BY <1>1, CreateAssetKeeps
<1>2. ASSUME NEW key \in Keys, RepeatedRequest(key) PROVE AInv'
    BY <1>2, RepeatedRequestKeeps
<1>3. ASSUME NEW x \in AssetIds, NEW status \in {"active", "archived"},
             UpdateAsset(x, status)
      PROVE  AInv'
    BY <1>3, UpdateAssetKeeps
<1>4. ASSUME NEW x \in AssetIds, NEW market \in MarketValues, NEW date \in Dates,
             NEW key \in Keys, CreateAssetValuation(x, market, date, key)
      PROVE  AInv'
    BY <1>4, CreateAssetValuationKeeps
<1>5. CASE LedgerStep
    BY <1>5, LedgerStepKeeps
<1>6. CASE UNCHANGED assetVars
    BY <1>6 DEF AInv, LedgerInv, assetVars
<1> QED BY <1>1, <1>2, <1>3, <1>4, <1>5, <1>6 DEF AssetsNext

\* The inductive invariant holds in every reachable state.
THEOREM AssetsInvariance == AssetsSpec => []AInv
BY AssetsInitEstablishes, AssetsNextKeeps, PTL DEF AssetsSpec

\* The parts of it that the run checks.
LEMMA AssetsInvariantImplies ==
    AInv => AssetsTypeOK /\ OneAssetPerRequest /\ ValuationsExplained
<1> SUFFICES ASSUME AInv
             PROVE  AssetsTypeOK /\ OneAssetPerRequest /\ ValuationsExplained
    OBVIOUS
<1>1. /\ AssetsOK(assets, accounts) /\ ValuationsOK(assets, valuations)
      /\ PurchasesIn(journal, assets) /\ ValuesIn(journal, assets, valuations)
      /\ assets \in [AssetIds -> AssetRows]
      /\ valuations \in Seq(ValuationRows)
    BY DEF AInv, AssetsOK, ValuationsOK
<1>2. \A n \in DOMAIN valuations :
        /\ valuations[n] \in ValuationRows
        /\ RevaluationIn(journal, assets[valuations[n].asset].account, valuations[n])
    BY <1>1 DEF ValuesIn
<1>3. AssetsTypeOK
  <2>1. ASSUME NEW x \in AssetIds, AssetExists(x)
        PROVE  /\ assets[x].status \in {"active", "archived"}
               /\ assets[x].account \in UserAccounts
               /\ assets[x].share \in Shares
               /\ assets[x].purchase \in 0 .. Len(journal)
      BY <1>1, <2>1, RowOfAsset DEF AssetExists, PurchasesIn
  <2>2. ASSUME NEW n \in DOMAIN valuations
        PROVE  /\ AssetExists(valuations[n].asset)
               /\ valuations[n].owned \in 0 .. valuations[n].market
               /\ valuations[n].transaction \in 0 .. Len(journal)
    <3>1. valuations[n].owned \in Nat /\ valuations[n].market \in Nat
        BY <1>2 DEF ValuationRows
    <3>2. Exists(assets, valuations[n].asset) /\ valuations[n].owned <= valuations[n].market
        BY <1>1 DEF ValuationsOK
    <3>3. valuations[n].transaction \in 0 .. Len(journal)
        BY <1>2 DEF RevaluationIn
    <3> QED BY <3>1, <3>2, <3>3 DEF Exists, AssetExists
  <2> QED BY <2>1, <2>2 DEF AssetsTypeOK
<1>4. OneAssetPerRequest
    BY <1>1 DEF OneAssetPerRequest, AssetsOK, PurchasesIn, PurchaseKey, Exists, AssetExists
<1>5. ValuationsExplained
  <2> SUFFICES ASSUME NEW i \in DOMAIN valuations
               PROVE  LET v == valuations[i]
                      IN  /\ v.before + v.adjustment = v.owned
                          /\ v.transaction = 0 <=> v.adjustment = 0
                          /\ v.transaction # 0 =>
                                /\ journal[v.transaction].type = "REVALUATION"
                                /\ journal[v.transaction].date = v.date
                                /\ Delta(journal[v.transaction], assets[v.asset].account)
                                       = v.adjustment
                          /\ \A k \in 1 .. i - 1 :
                                /\ valuations[k].transaction # 0 =>
                                       valuations[k].transaction # v.transaction
                                /\ valuations[k].asset = v.asset =>
                                       valuations[k].date <= v.date
      BY DEF ValuationsExplained
  <2> QED BY <1>1, <1>2 DEF ValuationsOK, RevaluationIn
<1> QED BY <1>3, <1>4, <1>5

\* Assets and valuations stay well formed, and what is owned is never more than
\* the market value.
THEOREM AssetsTypeCorrect == AssetsSpec => []AssetsTypeOK
BY AssetsInvariance, AssetsInvariantImplies, PTL

\* One asset and one purchase for each request, and one asset for each account,
\* however requests are repeated and whatever the ledger does between them.
THEOREM OneAssetForEachRequest == AssetsSpec => []OneAssetPerRequest
BY AssetsInvariance, AssetsInvariantImplies, PTL

\* The valuations of an asset are in order, and each difference has a
\* revaluation of its own.
THEOREM ValuationsAreExplained == AssetsSpec => []ValuationsExplained
BY AssetsInvariance, AssetsInvariantImplies, PTL

\* Purchases and revaluations keep the ledger sound: the assets post only what
\* the handlers of the ledger rely on.
THEOREM AssetsKeepLedgerSound ==
    AssetsSpec => [](Balanced /\ ReversalsCancel /\ CurrencyLocked)
<1>1. AInv => Balanced /\ ReversalsCancel /\ CurrencyLocked
  <2> SUFFICES ASSUME AInv PROVE Balanced /\ ReversalsCancel /\ CurrencyLocked
      OBVIOUS
  <2> DEFINE C == {functional}
  <2>1. LedgerInv(AssetKeys)
      BY DEF AInv
  <2>2. JournalOK(journal, accounts, C, AssetKeys)
      BY <2>1 DEF LedgerInv
  <2> HIDE DEF C
  <2> QED BY <2>1, <2>2, SoundJournal, SoundCurrencies
<1> QED BY <1>1, AssetsInvariance, PTL

\* The value shown for an asset is explained by what was posted since its
\* latest valuation.
THEOREM ShownValueIsExplained == AssetsSpec => []ShownValueExplained
<1>1. AInv => ShownValueExplained
  <2> SUFFICES ASSUME AInv, NEW x \in AssetIds, Valued(x)
               PROVE  LET v == valuations[LatestValuation(x)]
                          a == assets[x].account
                          late == {i \in DOMAIN journal :
                                      i > v.seen /\ journal[i].date <= v.date}
                      IN  CurrentOwnedValue(x)
                              + MapThenSumSet(LAMBDA i : Delta(journal[i], a), late)
                              = BalanceAt(journal, a, v.date)
      BY DEF ShownValueExplained
  <2> DEFINE n == LatestValuation(x)
             v == valuations[n]
             a == assets[x].account
  <2>1. n \in ValuationsOf(x)
      BY LatestIs DEF AInv
  <2>2. n \in DOMAIN valuations /\ v.asset = x
      BY <2>1 DEF ValuationsOf
  <2>3. ValueIn(journal, a, v)
      BY <2>2 DEF AInv, ValuesIn
  <2>4. CurrentOwnedValue(x) = v.owned
      BY DEF CurrentOwnedValue
  <2> QED BY <2>3, <2>4 DEF ValueIn, LateFor, Moved
<1> QED BY <1>1, AssetsInvariance, PTL
-----------------------------------------------------------------------------
(***************************************************************************)
(* Archived assets.                                                        *)
(***************************************************************************)

\* What postJournal adds is the transaction that it is given.
LEMMA PostJournalAdds ==
    ASSUME NEW S, NEW j \in Seq(S), NEW x, NEW k, k = PostJournal(j, x),
           NEW i \in DOMAIN k \ DOMAIN j
    PROVE  k[i] = x
<1> DEFINE T == S \cup {x}
<1>1. j \in Seq(T) /\ x \in T
    BY SeqWider
<1> HIDE DEF T
<1>2. /\ DOMAIN j = 1 .. Len(j) /\ Len(j) \in Nat
      /\ DOMAIN Append(j, x) = 1 .. Len(j) + 1
      /\ Append(j, x)[Len(j) + 1] = x
    BY <1>1, Appended
<1> QED BY <1>2 DEF PostJournal

\* A purchase reaches no archived account.
LEMMA PurchaseIsQuiet ==
    ASSUME AInv, NEW x \in AssetIds, NEW a \in UserAccounts, NEW share \in Shares,
           NEW key \in Keys, NEW purchase \in Purchases,
           CreateAsset(x, a, share, key, purchase),
           NEW b \in LedgerAccounts, accounts[b].status = "archived",
           NEW i \in DOMAIN journal' \ DOMAIN journal
    PROVE  ~Touches(journal'[i], b)
<1> DEFINE p == PurchaseOf(x, purchase.source, a, purchase)
           source == purchase.source
<1>1. accounts \in AccountRows /\ functional \in Currencies
    BY DEF AInv, LedgerInv
<1>2. /\ IsActive(accounts', a)
      /\ \A c \in LedgerAccounts : accounts[c].status # "absent" => accounts'[c] = accounts[c]
    BY <1>1, AccountForAssetRows DEF CreateAsset
<1>3. accounts'[b].status = "archived"
    BY <1>2
<1>4. journal' = PostJournal(journal, p) /\ SourceLoads(accounts', source, a)
    BY DEF CreateAsset
<1>5. IsActive(accounts', source)
    BY <1>4 DEF SourceLoads, LoadAccount
<1>6. journal'[i] = p
  <2>1. journal \in Seq(TransactionsWith(AssetKeys))
      BY DEF AInv, LedgerInv, JournalOK
  <2> HIDE DEF p
  <2> QED BY <1>4, <2>1, PostJournalAdds
<1>7. a # b /\ source # b
    BY <1>2, <1>3, <1>5 DEF IsActive
<1>8. ~Touches(p, b)
    BY <1>7 DEF Touches, PurchaseOf, JournalSpec, Entry
<1> QED BY <1>6, <1>8

\* Nor does a revaluation, because of the trigger.
LEMMA RevaluationIsQuiet ==
    ASSUME AInv, NEW x \in AssetIds, NEW market, NEW date, NEW key,
           CreateAssetValuation(x, market, date, key),
           NEW b \in LedgerAccounts, accounts[b].status = "archived",
           NEW i \in DOMAIN journal' \ DOMAIN journal
    PROVE  ~Touches(journal'[i], b)
<1> DEFINE adjustment == OwnedValue(market, assets[x].share)
                             - AccountBalanceAt(journal, assets[x].account, date)
           r == Revaluation(x, key, date, adjustment)
<1>1. accounts \in AccountRows /\ functional \in Currencies
    BY DEF AInv, LedgerInv
<1>2. \A c \in LedgerAccounts : accounts[c].status # "absent" => accounts'[c] = accounts[c]
    BY <1>1, InfrastructureOnlyAdds DEF CreateAssetValuation
<1>3. accounts'[b].status = "archived"
    BY <1>2
<1>4. ActiveDependencies(accounts', r) /\ journal' = PostJournal(journal, r)
    BY DEF CreateAssetValuation
<1> HIDE DEF r
<1>5. journal'[i] = r
  <2>1. journal \in Seq(TransactionsWith(AssetKeys))
      BY DEF AInv, LedgerInv, JournalOK
  <2> QED BY <1>4, <2>1, PostJournalAdds
<1>6. ~Touches(r, b)
    BY <1>3, <1>4 DEF Touches, ActiveDependencies
<1> QED BY <1>5, <1>6

\* The ledger's handlers post on it only to reverse.
LEMMA LedgerStepIsQuiet ==
    ASSUME AInv, LedgerStep,
           NEW b \in LedgerAccounts, accounts[b].status = "archived",
           NEW i \in DOMAIN journal' \ DOMAIN journal, Touches(journal'[i], b)
    PROVE  journal'[i].type = "REVERSAL"
<1> DEFINE C == {functional'}
<1>1. HandlerEffect(C, AssetKeys) /\ AllKeys \subseteq AssetKeys
    BY LedgerStepEffect, KeysDiffer DEF AInv
<1> HIDE DEF C
<1>2. accounts'[b] = accounts[b]
    BY <1>1 DEF HandlerEffect
<1>3. ~IsActive(accounts', b)
    BY <1>2 DEF IsActive
<1>4. /\ journal'[i] \in LedgerPostings(accounts')
      /\ \E m : MayFollow(journal'[i], m, accounts', C)
    BY <1>1, HandlerExtends
<1> QED BY <1>3, <1>4, PostingOnArchived

\* An archived account of an archived asset is reached by reversals only, though
\* recording a valuation looks at the asset alone.
THEOREM ArchivedAssetsAreQuiet == AssetsSpec => ArchivedAssetQuiet
<1> DEFINE Quiet == \A x \in AssetIds :
                      LET a == assets[x].account
                      IN  AssetExists(x) /\ accounts[a].status = "archived" =>
                              \A i \in DOMAIN journal' \ DOMAIN journal :
                                  Touches(journal'[i], a) => journal'[i].type = "REVERSAL"
<1>1. AInv /\ [AssetsNext]_assetVars => Quiet
  <2> SUFFICES ASSUME AInv, [AssetsNext]_assetVars,
                      NEW y \in AssetIds, AssetExists(y),
                      accounts[assets[y].account].status = "archived",
                      NEW i \in DOMAIN journal' \ DOMAIN journal,
                      Touches(journal'[i], assets[y].account)
               PROVE  journal'[i].type = "REVERSAL"
      OBVIOUS
  <2> DEFINE b == assets[y].account
  <2>1. b \in LedgerAccounts
      BY RowOfAsset DEF AInv, AssetsOK, AssetExists, LedgerAccounts
  <2>2. accounts[b].status = "archived" /\ Touches(journal'[i], b)
      OBVIOUS
  <2> HIDE DEF b
  <2>3. ASSUME NEW x \in AssetIds, NEW a \in UserAccounts, NEW share \in Shares,
               NEW key \in Keys, NEW purchase \in Purchases,
               CreateAsset(x, a, share, key, purchase)
        PROVE  FALSE
      BY <2>1, <2>2, <2>3, PurchaseIsQuiet
  <2>4. ASSUME NEW key \in Keys, RepeatedRequest(key) PROVE FALSE
      BY <2>4 DEF RepeatedRequest
  <2>5. ASSUME NEW x \in AssetIds, NEW status \in {"active", "archived"},
               UpdateAsset(x, status)
        PROVE  FALSE
      BY <2>5 DEF UpdateAsset
  <2>6. ASSUME NEW x \in AssetIds, NEW market \in MarketValues, NEW date \in Dates,
               NEW key \in Keys, CreateAssetValuation(x, market, date, key)
        PROVE  FALSE
      BY <2>1, <2>2, <2>6, RevaluationIsQuiet
  <2>7. CASE LedgerStep
      BY <2>1, <2>2, <2>7, LedgerStepIsQuiet
  <2>8. CASE UNCHANGED assetVars
      BY <2>8 DEF assetVars
  <2> QED BY <2>3, <2>4, <2>5, <2>6, <2>7, <2>8 DEF AssetsNext
<1>2. AInv /\ [AssetsNext]_assetVars => [Quiet]_assetVars
    BY <1>1
<1> QED BY <1>2, AssetsInvariance, PTL DEF AssetsSpec, ArchivedAssetQuiet

-----------------------------------------------------------------------------
(***************************************************************************)
(* The net worth.                                                          *)
(***************************************************************************)

\* One transaction more or less among those that count.
LEMMA MovedSplits ==
    ASSUME NEW S, NEW j \in Seq(S), NEW a, DeltasOf(j, a),
           NEW I, I \subseteq DOMAIN j, NEW i \in I, NEW J, J = I \ {i}
    PROVE  Moved(j, a, I) = Delta(j[i], a) + Moved(j, a, J)
<1> DEFINE f == [n \in I |-> Delta(j[n], a)]
<1>1. IsFiniteSet(I) /\ IsFiniteSet(J)
    BY PositionsFinite
<1>2. /\ \A n \in I : f[n] = Delta(j[n], a)
      /\ \A n \in J : f[n] = Delta(j[n], a)
      /\ IntegersOn(f, I) /\ IntegersOn(f, J)
      /\ f[i] = Delta(j[i], a)
    BY DEF IntegersOn, DeltasOf
<1> HIDE DEF f
<1>3. Sum(f, I) = f[i] + Sum(f, J)
    BY <1>1, <1>2, SumWithout
<1>4. Moved(j, a, I) = Sum(f, I) /\ Moved(j, a, J) = Sum(f, J)
    BY <1>1, <1>2, MovedIsSum
<1> QED BY <1>2, <1>3, <1>4

\* What a sound transaction moves on all accounts together is nothing.
LEMMA TransactionCancels ==
    ASSUME NEW accts, NEW C, NEW K, NEW x \in TransactionsWith(K),
           SoundTransaction(x, accts, C), NEW S, IsFiniteSet(S), LedgerAccounts = S,
           NEW f, \A a \in S : f[a] = Delta(x, a)
    PROVE  Sum(f, S) = 0
<1> DEFINE a == x.entries[1].account
           b == x.entries[2].account
           R == S \ {a}
<1>1. a \in S /\ b \in R
    BY LegsCancel
<1>2. /\ x.entries[1].amount + x.entries[2].amount = 0
      /\ x.entries[1].amount \in Int /\ x.entries[2].amount \in Int
    BY LegsCancel
<1>3. /\ \A c : Delta(x, c) \in Int
      /\ Delta(x, a) = x.entries[1].amount /\ Delta(x, b) = x.entries[2].amount
      /\ \A c : c # a /\ c # b => Delta(x, c) = 0
    BY DeltaIs
<1>4. IntegersOn(f, S)
    BY <1>3 DEF IntegersOn
<1> HIDE DEF a, b
<1>5. Sum(f, S) = f[a] + Sum(f, R)
    BY <1>1, <1>4, SumWithout
<1>6. /\ f[b] \in Int
      /\ \A c \in R : c # b => f[c] = 0
    BY <1>1, <1>3
<1>7. IsFiniteSet(R)
    BY FS_RemoveElement
<1> HIDE DEF R
<1>8. Sum(f, R) = f[b]
    BY <1>1, <1>6, <1>7, SumOfOne
<1>9. f[a] = Delta(x, a) /\ f[b] = Delta(x, b)
    BY <1>1 DEF R
<1> QED BY <1>2, <1>3, <1>5, <1>8, <1>9

\* What any transactions of a sound journal move on all accounts together is
\* nothing.
LEMMA JournalCancels ==
    ASSUME NEW j, NEW accts, NEW C, NEW K, JournalOK(j, accts, C, K),
           NEW S, IsFiniteSet(S), LedgerAccounts = S,
           NEW I, I \subseteq DOMAIN j,
           NEW f, \A a \in S : f[a] = Moved(j, a, I)
    PROVE  Sum(f, S) = 0
<1> DEFINE F(U) == [a \in S |-> Moved(j, a, U)]
           T == {U \in SUBSET I : Sum(F(U), S) # 0}
<1>1. j \in Seq(TransactionsWith(K)) /\ \A a : DeltasOf(j, a)
    BY SoundDeltas DEF JournalOK
<1>2. IsFiniteSet(I)
    BY <1>1, PositionsFinite
<1>3. T = {}
  <2> SUFFICES ASSUME T # {} PROVE FALSE
      OBVIOUS
  <2>1. PICK U \in T : \A V \in T : ~(V \subseteq U /\ V # U)
    <3> HIDE DEF T
    <3>1. T \in SUBSET (SUBSET I)
        BY DEF T
    <3> QED BY <1>2, <3>1, SmallestSubset
  <2>2. U \subseteq I /\ U \subseteq DOMAIN j /\ Sum(F(U), S) # 0
      OBVIOUS
  <2>3. \A a \in S : F(U)[a] = Moved(j, a, U)
      OBVIOUS
  <2>4. CASE U = {}
    <3> DEFINE g == F(U)
    <3>1. \A a \in S : g[a] = 0
      <4>1. \A a : Moved(j, a, U) = 0
          BY <1>1, <2>2, <2>4, MovedType
      <4> QED BY <2>3, <4>1
    <3> HIDE DEF g
    <3>2. Sum(g, S) = 0
        BY <3>1, SumOfZeros
    <3> QED BY <2>2, <3>2 DEF g
  <2>5. CASE U # {}
    <3>1. PICK i \in U : TRUE
        BY <2>5
    <3> DEFINE V == U \ {i}
               g == F(V)
               h == F(U)
               d == [a \in S |-> Delta(j[i], a)]
    <3>2. V \subseteq U /\ V # U /\ V \subseteq I /\ V \subseteq DOMAIN j
        BY <2>2, <3>1
    <3>3. Sum(g, S) = 0
        BY <2>1, <3>2
    <3>4. j[i] \in TransactionsWith(K) /\ SoundTransaction(j[i], accts, C)
        BY <1>1, <2>2, <3>1 DEF JournalOK
    <3>5. \A a \in S : /\ g[a] = Moved(j, a, V) /\ h[a] = Moved(j, a, U)
                       /\ d[a] = Delta(j[i], a)
        OBVIOUS
    <3> HIDE DEF d, g, h
    <3>6. Sum(d, S) = 0
        BY <3>4, <3>5, TransactionCancels
    <3>7. \A a \in S : h[a] = d[a] + g[a]
      <4>1. \A a : DeltasOf(j, a)
          BY <1>1
      <4>2. i \in U /\ U \subseteq DOMAIN j /\ j \in Seq(TransactionsWith(K))
          BY <1>1, <2>2, <3>1
      <4>3. V = U \ {i}
          OBVIOUS
      <4> HIDE DEF V, T
      <4>4. ASSUME NEW a PROVE Moved(j, a, U) = Delta(j[i], a) + Moved(j, a, V)
        <5>1. DeltasOf(j, a)
            BY <4>1
        <5> QED BY <4>2, <4>3, <5>1, MovedSplits
      <4> QED BY <3>5, <4>4
    <3>8. IntegersOn(d, S) /\ IntegersOn(g, S)
      <4>1. \A a : Delta(j[i], a) \in Int
          BY <3>4, DeltaIs
      <4> HIDE DEF V
      <4>2. \A a : Moved(j, a, V) \in Int
          BY <1>1, <3>2, MovedType
      <4> QED BY <3>5, <4>1, <4>2 DEF IntegersOn
    <3>9. Sum(h, S) = Sum(d, S) + Sum(g, S)
        BY <3>7, <3>8, SumOfSums
    <3> QED BY <2>2, <3>3, <3>6, <3>9 DEF h
  <2> QED BY <2>4, <2>5
<1>4. Sum(F(I), S) = 0
    BY <1>3
<1> DEFINE h == F(I)
<1>5. \A a \in S : h[a] = Moved(j, a, I) /\ Moved(j, a, I) \in Int
    BY <1>1, MovedType
<1> HIDE DEF h
<1>6. IntegersOn(f, S) /\ \A a \in S : f[a] = h[a]
    BY <1>5 DEF IntegersOn
<1>7. Sum(f, S) = Sum(h, S)
    BY <1>6, SumAgrees
<1> QED BY <1>4, <1>7 DEF h

\* What the transactions at the positions I move on the accounts in S together.
AllMoved(j, I, S) == MapThenSumSet(LAMBDA a : Moved(j, a, I), S)

\* The terms of AllMoved, as a function.
LEMMA MovedOnAccounts ==
    ASSUME NEW j, NEW I, NEW S, IsFiniteSet(S), NEW f,
           \A a \in S : f[a] = Moved(j, a, I), IntegersOn(f, S)
    PROVE  AllMoved(j, I, S) = Sum(f, S)
<1> DEFINE P(g) == g = [s \in SUBSET S |->
                          IF s = {} THEN 0
                          ELSE Moved(j, Chosen(s), I) + g[s \ {Chosen(s)}]]
           h == CHOOSE g : P(g)
<1>1. AllMoved(j, I, S) = h[S]
    BY DEF AllMoved, MapThenSumSet, MapThenFoldSet, Chosen
<1>2. ASSUME NEW g PROVE P(g) <=> Adds(g, f, S)
  <2>1. \A s \in SUBSET S : s # {} => Moved(j, Chosen(s), I) = f[Chosen(s)]
      BY DEF Chosen
  <2>2. [s \in SUBSET S |-> IF s = {} THEN 0
                          ELSE Moved(j, Chosen(s), I) + g[s \ {Chosen(s)}]]
      = [s \in SUBSET S |-> IF s = {} THEN 0
                          ELSE f[Chosen(s)] + g[s \ {Chosen(s)}]]
      BY <2>1
  <2> QED BY <2>2 DEF Adds
<1> HIDE DEF P
<1>3. \E g : P(g)
    BY <1>2, AddsExists
<1>4. Adds(h, f, S)
    BY <1>2, <1>3
<1> HIDE DEF h
<1>5. Sum(f, S) = h[S]
    BY <1>4, SumIs
<1> QED BY <1>1, <1>5

\* The accounts of the user balance the others, for any transactions.
LEMMA SidesBalance ==
    ASSUME NEW j, NEW accts, NEW C, NEW K, JournalOK(j, accts, C, K),
           NEW I, I \subseteq DOMAIN j
    PROVE  AllMoved(j, I, UserAccounts) + AllMoved(j, I, LedgerAccounts \ UserAccounts) = 0
<1> DEFINE U == UserAccounts
           R == LedgerAccounts \ UserAccounts
           S == LedgerAccounts
           W == U \cup R
           f == [a \in S |-> Moved(j, a, I)]
<1>1. IsFiniteSet(SystemAccounts)
  <2> DEFINE A == {"OPENING_EQUITY"}
             B == A \cup {"UNREALIZED_GAIN_LOSS"}
             D == B \cup {"OTHER_INCOME"}
  <2>1. SystemAccounts = D \cup {"OTHER_EXPENSE"}
      BY DEF SystemAccounts
  <2>2. IsFiniteSet(A)
      BY FS_Singleton
  <2> HIDE DEF A
  <2>3. IsFiniteSet(B)
      BY <2>2, FS_AddElement
  <2> HIDE DEF B
  <2>4. IsFiniteSet(D)
      BY <2>3, FS_AddElement
  <2> HIDE DEF D
  <2> QED BY <2>1, <2>4, FS_AddElement
<1>2. IsFiniteSet(U) /\ IsFiniteSet(Categories)
    BY FiniteAccounts
<1>3. IsFiniteSet(S)
  <2>1. IsFiniteSet(UserAccounts \cup Categories)
      BY <1>2, FS_Union
  <2> QED BY <1>1, <2>1, FS_Union DEF LedgerAccounts
<1>4. IsFiniteSet(R) /\ U \cap R = {} /\ W = S
    BY <1>3, FS_Subset DEF LedgerAccounts
<1>5. \A a : Moved(j, a, I) \in Int
  <2>1. j \in Seq(TransactionsWith(K)) /\ \A a : DeltasOf(j, a)
      BY SoundDeltas DEF JournalOK
  <2> QED BY <2>1, MovedType
<1>6. \A a \in S : f[a] = Moved(j, a, I)
    OBVIOUS
<1> HIDE DEF f
<1>7. /\ IntegersOn(f, U) /\ IntegersOn(f, R) /\ IntegersOn(f, W)
      /\ \A a \in U : f[a] = Moved(j, a, I)
      /\ \A a \in R : f[a] = Moved(j, a, I)
    BY <1>4, <1>5, <1>6 DEF IntegersOn
<1>8. LedgerAccounts = S
    OBVIOUS
<1> HIDE DEF S, R, U
<1>9. Sum(f, S) = 0
    BY <1>3, <1>6, <1>8, JournalCancels
<1>10. Sum(f, W) = Sum(f, U) + Sum(f, R)
    BY <1>2, <1>4, <1>7, SumOfUnion
<1>11. AllMoved(j, I, U) = Sum(f, U) /\ AllMoved(j, I, R) = Sum(f, R)
    BY <1>2, <1>4, <1>7, MovedOnAccounts
<1> QED BY <1>4, <1>9, <1>10, <1>11 DEF U, R

\* The net worth, now and at the end of every month, is what the system accounts
\* and the categories balance.
THEOREM NetWorthIsBalanced == AssetsSpec => []NetWorthBalances
<1>1. AInv => NetWorthBalances
  <2> SUFFICES ASSUME AInv PROVE NetWorthBalances
      OBVIOUS
  <2> DEFINE C == {functional}
  <2>1. JournalOK(journal, accounts, C, AssetKeys)
      BY DEF AInv, LedgerInv
  <2> HIDE DEF C
  <2>2. NetWorth + MapThenSumSet(LAMBDA a : TotalBalance(journal, a),
                                 LedgerAccounts \ UserAccounts) = 0
    <3> DEFINE I == DOMAIN journal
               f == UserBalances
    <3>1. AllMoved(journal, I, UserAccounts)
              + AllMoved(journal, I, LedgerAccounts \ UserAccounts) = 0
        BY <2>1, SidesBalance
    <3>2. \A a : TotalBalance(journal, a) = Moved(journal, a, I)
        BY DEF TotalBalance, Moved
    <3>3. \A a \in UserAccounts : f[a] = Moved(journal, a, I)
        BY <3>2 DEF UserBalances
    <3>4. IntegersOn(f, UserAccounts)
      <4>1. journal \in Seq(TransactionsWith(AssetKeys)) /\ \A a : DeltasOf(journal, a)
          BY <2>1, SoundDeltas DEF JournalOK
      <4>2. \A a : Moved(journal, a, I) \in Int
          BY <4>1, MovedType
      <4> QED BY <3>3, <4>2 DEF IntegersOn
    <3>5. NetWorth = Sum(f, UserAccounts)
        BY DEF NetWorth, Sum, MapThenSumSet, MapThenFoldSet
    <3> HIDE DEF f
    <3>6. AllMoved(journal, I, UserAccounts) = Sum(f, UserAccounts)
        BY <3>3, <3>4, FiniteAccounts, MovedOnAccounts
    <3>7. MapThenSumSet(LAMBDA a : TotalBalance(journal, a), LedgerAccounts \ UserAccounts)
            = AllMoved(journal, I, LedgerAccounts \ UserAccounts)
        BY DEF AllMoved, TotalBalance, Moved, MapThenSumSet, MapThenFoldSet
    <3> QED BY <3>1, <3>5, <3>6, <3>7
  <2>3. ASSUME NEW d \in Dates
        PROVE  NetWorthAt(d) + MapThenSumSet(LAMBDA a : BalanceAt(journal, a, d),
                                             LedgerAccounts \ UserAccounts) = 0
    <3> DEFINE I == UpTo(journal, d)
    <3>1. I \subseteq DOMAIN journal
        BY DEF UpTo
    <3>2. AllMoved(journal, I, UserAccounts)
              + AllMoved(journal, I, LedgerAccounts \ UserAccounts) = 0
      <4> HIDE DEF I
      <4> QED BY <2>1, <3>1, SidesBalance
    <3>3. NetWorthAt(d) = AllMoved(journal, I, UserAccounts)
        BY DEF NetWorthAt, AllMoved, BalanceAt, Moved, UpTo, MapThenSumSet, MapThenFoldSet
    <3>4. MapThenSumSet(LAMBDA a : BalanceAt(journal, a, d), LedgerAccounts \ UserAccounts)
            = AllMoved(journal, I, LedgerAccounts \ UserAccounts)
        BY DEF AllMoved, BalanceAt, Moved, UpTo, MapThenSumSet, MapThenFoldSet
    <3> QED BY <3>2, <3>3, <3>4
  <2> QED BY <2>2, <2>3 DEF NetWorthBalances
<1> QED BY <1>1, AssetsInvariance, PTL
=============================================================================
