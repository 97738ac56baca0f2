---------------------------- MODULE LedgerProofs ----------------------------
(***************************************************************************)
(* Proofs about the ledger, for any accounts, currencies, amounts and      *)
(* journals.  The inductive invariant is stated with the journal, the      *)
(* account rows and the currency as parameters, because handlers pass      *)
(* through intermediate values of them inside one database transaction.    *)
(***************************************************************************)
EXTENDS LedgerBook, Sums

\* Well-formed transactions with keys out of K: the modules built on the ledger
\* draw further keys of their own.
TransactionsWith(K) ==
    [type : TransactionTypes, date : Nat, key : K,
     reverses : Nat, replaces : Nat, entries : Seq(Entries)]

WellFormed(x) == x \in TransactionsWith({x.key})

\* What one posted transaction must be, whatever the rest of the journal is. C
\* are the currencies it may be in.
SoundTransaction(x, accts, C) ==
    LET e == x.entries
    IN  /\ Len(e) = 2
        /\ e[1].amount # 0
        /\ e[1].amount + e[2].amount = 0
        /\ e[1].account # e[2].account
        /\ \A n \in 1 .. 2 : /\ accts[e[n].account].status # "absent"
                             /\ accts[e[n].account].currency = e[n].currency
                             /\ e[n].currency \in C

\* Transaction i is the reversal of an earlier transaction of j.
ReversesEarlier(j, i) ==
    LET t == j[i].reverses
    IN  /\ t \in 1 .. i - 1
        /\ j[t].type # "REVERSAL"
        /\ j[i].date = j[t].date
        /\ j[i].entries = Negated(j[t].entries)

ReversalsCancelIn(j) ==
    /\ \A i \in DOMAIN j : /\ j[i].type = "REVERSAL" <=> j[i].reverses # 0
                           /\ j[i].type = "REVERSAL" => ReversesEarlier(j, i)
    /\ \A i, k \in DOMAIN j : j[i].reverses = j[k].reverses /\ j[i].reverses # 0
                              => i = k

ReplacedIn(j) ==
    \A i \in DOMAIN j : j[i].replaces # 0 => ReversedBy(j, j[i].replaces) # {}

JournalOK(j, accts, C, K) ==
    /\ j \in Seq(TransactionsWith(K))
    /\ \A i \in DOMAIN j : SoundTransaction(j[i], accts, C)
    /\ ReversalsCancelIn(j)
    /\ UniqueKeys => ReplacedIn(j)

\* No handler archives a system account.
AccountRows ==
    {accts \in [LedgerAccounts -> Rows] :
        \A a \in SystemAccounts : accts[a].status # "archived"}

IInv ==
    /\ functional \in Currencies
    /\ onboarded \in BOOLEAN
    /\ accounts \in AccountRows
    /\ JournalOK(journal, accounts, {functional}, AllKeys)

\* Only what is reversed may be replaced.
MayReplace(j, t) == UniqueKeys => (t # 0 => ReversedBy(j, t) # {})

\* The condition under which x may be appended to j.
MayFollow(x, j, accts, C) ==
    /\ SoundTransaction(x, accts, C)
    /\ x.type = "REVERSAL" <=> x.reverses # 0
    /\ x.type = "REVERSAL" =>
          /\ x.reverses \in DOMAIN j
          /\ j[x.reverses].type # "REVERSAL"
          /\ x.date = j[x.reverses].date
          /\ x.entries = Negated(j[x.reverses].entries)
          /\ ReversedBy(j, x.reverses) = {}
    /\ MayReplace(j, x.replaces)

\* An operation whose fields are what a client or a template may give.
WellFormedOperation(op) ==
    /\ op.type \in TypedOperations
    /\ op.account \in UserAccounts
    /\ op.counterpart \in UserAccounts \cup Categories \cup {"OPENING_EQUITY"}
    /\ op.amount \in Amounts
    /\ op.date \in Nat

OnActiveAccounts(x, accts) == \A n \in 1 .. 2 : IsActive(accts, x.entries[n].account)

\* What a handler of the ledger may post once the rows are accts: a reversal, or
\* a typed operation on two active accounts.
LedgerPostings(accts) ==
    {x \in TransactionsWith(AllKeys) :
        \/ x.type = "REVERSAL"
        \/ /\ x.type \in TypedOperations
           /\ OnActiveAccounts(x, accts)}

\* k is j, or j with one more transaction, out of P.
Posted(j, k, accts, C, P) ==
    \/ k = j
    \/ \E x \in P : /\ MayFollow(x, j, accts, C)
                    /\ ~KeyUsed(j, x.key)
                    /\ k = Append(j, x)

RowsKept(before, after) ==
    \A a \in LedgerAccounts : before[a].status # "absent" => after[a].status # "absent"

\* A handler that posts twice, by way of journal m, posts a reversal and then an
\* operation.
CorrectsBy(j, m, k) ==
    m # j => /\ \A i \in DOMAIN m \ DOMAIN j : m[i].type = "REVERSAL"
             /\ \A i \in DOMAIN k \ DOMAIN m : k[i].type # "REVERSAL"

\* What a handler of the ledger does, when the journal may be in currencies C
\* and have keys K: two postings at most, and no change of a row together with
\* them.
HandlerEffect(C, K) ==
    /\ accounts' \in AccountRows
    /\ RowsKept(accounts, accounts')
    /\ JournalOK(journal, accounts', C, K)
    /\ \E m : /\ Posted(journal, m, accounts', C, LedgerPostings(accounts'))
              /\ Posted(m, journal', accounts', C, LedgerPostings(accounts'))
              /\ CorrectsBy(journal, m, journal')
    /\ journal' # journal =>
          \A a \in LedgerAccounts : accounts[a].status # "absent" => accounts'[a] = accounts[a]

-----------------------------------------------------------------------------
(***************************************************************************)
(* The journal.                                                            *)
(***************************************************************************)

\* Appending a transaction leaves the earlier ones where they are.
LEMMA Appended ==
    ASSUME NEW S, NEW j \in Seq(S), NEW x \in S
    PROVE  /\ Append(j, x) \in Seq(S)
           /\ Len(j) \in Nat
           /\ DOMAIN j = 1 .. Len(j)
           /\ Len(Append(j, x)) = Len(j) + 1
           /\ DOMAIN Append(j, x) = 1 .. Len(j) + 1
           /\ \A i \in 1 .. Len(j) : Append(j, x)[i] = j[i]
           /\ Append(j, x)[Len(j) + 1] = x
    OBVIOUS

\* A sequence over a set is one over any larger set.
LEMMA SeqWider ==
    ASSUME NEW S, NEW T, S \subseteq T, NEW j \in Seq(S)
    PROVE  j \in Seq(T)
    OBVIOUS

\* The invariant of the journal survives a transaction that may follow
\* (postJournal).
LEMMA JournalGrows ==
    ASSUME NEW j, NEW accts, NEW C, NEW K, NEW x \in TransactionsWith(K),
           JournalOK(j, accts, C, K), MayFollow(x, j, accts, C)
    PROVE  JournalOK(Append(j, x), accts, C, K)
<1> DEFINE k == Append(j, x)
           m == Len(j) + 1
<1>0. j \in Seq(TransactionsWith(K))
    BY DEF JournalOK
<1>1. /\ k \in Seq(TransactionsWith(K))
      /\ Len(j) \in Nat
      /\ DOMAIN j = 1 .. Len(j)
      /\ DOMAIN k = 1 .. m
      /\ \A i \in 1 .. Len(j) : k[i] = j[i]
      /\ k[m] = x
    BY <1>0, Appended
<1>2. \A i \in DOMAIN k : SoundTransaction(k[i], accts, C)
    BY <1>1 DEF JournalOK, MayFollow
<1>3. ReversalsCancelIn(k)
  <2>1. ASSUME NEW i \in DOMAIN k
        PROVE  /\ k[i].type = "REVERSAL" <=> k[i].reverses # 0
               /\ k[i].type = "REVERSAL" => ReversesEarlier(k, i)
    <3>1. CASE i \in DOMAIN j
        BY <1>1, <3>1 DEF JournalOK, ReversalsCancelIn, ReversesEarlier
    <3>2. CASE i = m
        BY <1>1, <3>2 DEF MayFollow, ReversesEarlier
    <3> QED BY <1>1, <3>1, <3>2
  <2>2. ASSUME NEW i \in DOMAIN k, NEW h \in DOMAIN k,
               k[i].reverses = k[h].reverses, k[i].reverses # 0
        PROVE  i = h
    <3>1. CASE i \in DOMAIN j /\ h \in DOMAIN j
        BY <1>1, <2>2, <3>1 DEF JournalOK, ReversalsCancelIn
    <3>2. CASE i \in DOMAIN j /\ h = m
        BY <1>1, <2>2, <3>2 DEF MayFollow, ReversedBy
    <3>3. CASE i = m /\ h \in DOMAIN j
        BY <1>1, <2>2, <3>3 DEF MayFollow, ReversedBy
    <3> QED BY <1>1, <3>1, <3>2, <3>3
  <2> QED BY <2>1, <2>2 DEF ReversalsCancelIn
<1>4. ASSUME UniqueKeys PROVE ReplacedIn(k)
  <2>1. \A t : ReversedBy(j, t) # {} => ReversedBy(k, t) # {}
      BY <1>1 DEF ReversedBy
  <2>2. ASSUME NEW i \in DOMAIN k, k[i].replaces # 0
        PROVE  ReversedBy(j, k[i].replaces) # {}
      BY <1>1, <1>4, <2>2 DEF JournalOK, ReplacedIn, MayFollow, MayReplace
  <2> QED BY <2>1, <2>2 DEF ReplacedIn
<1> QED BY <1>1, <1>2, <1>3, <1>4 DEF JournalOK

\* One posting keeps the invariant of the journal.
LEMMA PostedKeepsJournal ==
    ASSUME NEW j, NEW k, NEW accts, NEW C, NEW K, NEW P, P \subseteq TransactionsWith(K),
           JournalOK(j, accts, C, K), Posted(j, k, accts, C, P)
    PROVE  JournalOK(k, accts, C, K)
BY JournalGrows DEF Posted

\* postJournal either returns the transaction that has the key or appends.
LEMMA PostJournalPosts ==
    ASSUME NEW j, NEW accts, NEW C, NEW P, NEW x,
           ~KeyUsed(j, x.key) => MayFollow(x, j, accts, C) /\ x \in P
    PROVE  Posted(j, PostJournal(j, x), accts, C, P)
BY DEF PostJournal, Posted

\* The handlers of the ledger draw their keys from AllKeys.
LEMMA LedgerPostingsTyped ==
    ASSUME NEW accts, NEW K, AllKeys \subseteq K
    PROVE  LedgerPostings(accts) \subseteq TransactionsWith(K)
BY DEF LedgerPostings, TransactionsWith

\* After a handler of the ledger the journal is sound again.
LEMMA HandlerKeepsJournal ==
    ASSUME NEW C, NEW K, AllKeys \subseteq K, HandlerEffect(C, K)
    PROVE  JournalOK(journal', accounts', C, K)
<1> DEFINE P == LedgerPostings(accounts')
<1>1. JournalOK(journal, accounts', C, K)
    BY DEF HandlerEffect
<1>2. PICK m : Posted(journal, m, accounts', C, P) /\ Posted(m, journal', accounts', C, P)
    BY DEF HandlerEffect
<1>3. P \subseteq TransactionsWith(K)
    BY LedgerPostingsTyped
<1> HIDE DEF P
<1>4. JournalOK(m, accounts', C, K)
    BY <1>1, <1>2, <1>3, PostedKeepsJournal
<1> QED BY <1>2, <1>3, <1>4, PostedKeepsJournal

\* The legs of a sound transaction.
LEMMA TwoLegs ==
    ASSUME NEW accts, NEW C, NEW K, NEW x \in TransactionsWith(K),
           SoundTransaction(x, accts, C)
    PROVE  /\ DOMAIN x.entries = 1 .. 2
           /\ \A n \in 1 .. 2 : x.entries[n] \in Entries
<1>1. x.entries \in Seq(Entries)
    BY DEF TransactionsWith
<1> QED BY <1>1 DEF SoundTransaction

LEMMA LegsCancel ==
    ASSUME NEW accts, NEW C, NEW K, NEW x \in TransactionsWith(K),
           SoundTransaction(x, accts, C)
    PROVE  /\ \A n \in 1 .. 2 : /\ x.entries[n].account \in LedgerAccounts
                                /\ x.entries[n].amount \in Int
           /\ x.entries[1].account \in LedgerAccounts /\ x.entries[1].amount \in Int
           /\ x.entries[2].account \in LedgerAccounts /\ x.entries[2].amount \in Int
           /\ x.entries[1].account # x.entries[2].account
           /\ x.entries[1].amount + x.entries[2].amount = 0
<1>1. \A n \in 1 .. 2 : x.entries[n] \in Entries
    BY TwoLegs
<1>2. \A n \in 1 .. 2 : /\ x.entries[n].account \in LedgerAccounts
                        /\ x.entries[n].amount \in Int
    BY ONLY <1>1 DEF Entries
<1>3. /\ x.entries[1].account # x.entries[2].account
      /\ x.entries[1].amount + x.entries[2].amount = 0
    BY DEF SoundTransaction
<1>4. 1 \in 1 .. 2 /\ 2 \in 1 .. 2
    OBVIOUS
<1> QED BY <1>2, <1>3, <1>4

\* The journal stays sound when the accounts it posts to keep existing in the
\* same currency (the foreign key on (account, currency)).
LEMMA RowsMayChange ==
    ASSUME NEW j, NEW accts, NEW after, NEW C, NEW K,
           JournalOK(j, accts, C, K),
           \A a : HasPostings(j, a) => /\ after[a].status # "absent"
                                       /\ after[a].currency = accts[a].currency
    PROVE  JournalOK(j, after, C, K)
<1>1. ASSUME NEW i \in DOMAIN j
      PROVE  SoundTransaction(j[i], after, C)
  <2>1. SoundTransaction(j[i], accts, C) /\ j[i] \in TransactionsWith(K)
      BY DEF JournalOK
  <2>2. DOMAIN j[i].entries = 1 .. 2
      BY <2>1, TwoLegs
  <2>3. ASSUME NEW n \in 1 .. 2
        PROVE  HasPostings(j, j[i].entries[n].account)
      BY <2>2 DEF HasPostings
  <2> QED BY <2>1, <2>3 DEF SoundTransaction
<1> QED BY <1>1 DEF JournalOK

\* Every account that a sound journal posts to exists.
LEMMA PostedAccountsExist ==
    ASSUME NEW j, NEW accts, NEW C, NEW K, JournalOK(j, accts, C, K),
           NEW a, HasPostings(j, a)
    PROVE  a \in LedgerAccounts /\ accts[a].status # "absent"
<1>1. PICK i \in DOMAIN j : \E n \in DOMAIN j[i].entries : j[i].entries[n].account = a
    BY DEF HasPostings
<1>2. SoundTransaction(j[i], accts, C) /\ j[i] \in TransactionsWith(K)
    BY DEF JournalOK
<1>3. DOMAIN j[i].entries = 1 .. 2 /\ \A n \in 1 .. 2 : j[i].entries[n] \in Entries
    BY <1>2, TwoLegs
<1> QED BY <1>1, <1>2, <1>3 DEF SoundTransaction, Entries

\* Rows that are only added, and existing rows that keep their currency, leave
\* the journal sound.
LEMMA RowsAreAdded ==
    ASSUME NEW j, NEW accts, NEW after, NEW C, NEW K, JournalOK(j, accts, C, K),
           \A a \in LedgerAccounts : accts[a].status # "absent" =>
               /\ after[a].status # "absent"
               /\ after[a].currency = accts[a].currency
    PROVE  JournalOK(j, after, C, K)
BY PostedAccountsExist, RowsMayChange

\* An empty journal is sound in any currency (the functional currency may change
\* until the first posting).
LEMMA EmptyJournal ==
    ASSUME NEW accts, NEW C, NEW K
    PROVE  JournalOK(<<>>, accts, C, K)
<1>1. <<>> \in Seq(TransactionsWith(K)) /\ DOMAIN <<>> = {}
    OBVIOUS
<1> QED BY <1>1 DEF JournalOK, ReversalsCancelIn, ReplacedIn

-----------------------------------------------------------------------------
(***************************************************************************)
(* The rows.                                                               *)
(***************************************************************************)

\* The ledger infrastructure only adds rows, and afterwards every system account
\* exists (ensureLedgerInfrastructure).
LEMMA InfrastructureOnlyAdds ==
    ASSUME NEW accts \in AccountRows, NEW currency \in Currencies,
           NEW base \in EnsureLedgerInfrastructure(accts, currency)
    PROVE  /\ base \in AccountRows
           /\ \A a \in LedgerAccounts : accts[a].status # "absent" => base[a] = accts[a]
<1> USE DEF AccountRows
<1>1. CASE LedgerReady(accts)
    BY <1>1 DEF EnsureLedgerInfrastructure
<1>2. CASE ~LedgerReady(accts)
  <2> DEFINE lacking == Lacking(accts)
             unused  == {c \in Categories : accts[c].status = "absent"}
  <2>1. PICK seed \in [lacking -> unused] :
            base = [a \in LedgerAccounts |->
                       IF a \in SystemAccounts /\ accts[a].status = "absent"
                       THEN Row(SystemClass(a), currency)
                       ELSE IF \E d \in lacking : seed[d] = a
                            THEN Row(CHOOSE d \in lacking : seed[d] = a, currency)
                            ELSE accts[a]]
      BY <1>2 DEF EnsureLedgerInfrastructure
  <2>2. ASSUME NEW a \in LedgerAccounts
        PROVE  /\ base[a] \in Rows
               /\ accts[a].status # "absent" => base[a] = accts[a]
               /\ base[a] = accts[a] \/ base[a].status = "active"
    <3>1. CASE a \in SystemAccounts /\ accts[a].status = "absent"
        BY <2>1, <3>1 DEF Rows, Row, SystemClass
    <3>2. CASE /\ ~(a \in SystemAccounts /\ accts[a].status = "absent")
               /\ \E d \in lacking : seed[d] = a
      <4>1. (CHOOSE d \in lacking : seed[d] = a) \in {"INCOME", "EXPENSE"}
          BY <3>2 DEF Lacking, Directions
      <4>2. base[a] = Row(CHOOSE d \in lacking : seed[d] = a, currency)
          BY <2>1, <3>2
      <4>3. accts[a].status = "absent"
          BY <3>2
      <4> QED BY <4>1, <4>2, <4>3 DEF Rows, Row
    <3>3. CASE /\ ~(a \in SystemAccounts /\ accts[a].status = "absent")
               /\ ~(\E d \in lacking : seed[d] = a)
      <4>1. base[a] = accts[a]
          BY <2>1, <3>3
      <4> QED BY <4>1
    <3> QED BY <3>1, <3>2, <3>3
  <2>3. base = [a \in LedgerAccounts |-> base[a]]
      BY <2>1
  <2>4. \A a \in SystemAccounts : base[a].status # "archived"
      BY <2>2 DEF LedgerAccounts
  <2> QED BY <2>2, <2>3, <2>4
<1> QED BY <1>1, <1>2

\* A row in a currency of the application exists.
LEMMA HasCurrencyExists ==
    ASSUME NEW accts \in AccountRows, NEW a \in LedgerAccounts,
           accts[a].currency \in Currencies
    PROVE  accts[a].status # "absent"
BY LedgerConstants DEF AccountRows, Rows, Absent

With(accts, a, row) == [accts EXCEPT ![a] = row]

\* A row that is put in for a user account or a category.
LEMMA RowReplaced ==
    ASSUME NEW accts \in AccountRows, NEW a \in LedgerAccounts, a \notin SystemAccounts,
           NEW row \in Rows
    PROVE  /\ With(accts, a, row) \in AccountRows
           /\ With(accts, a, row)[a] = row
           /\ \A b \in LedgerAccounts : b # a => With(accts, a, row)[b] = accts[b]
<1> DEFINE after == With(accts, a, row)
<1>1. accts \in [LedgerAccounts -> Rows] /\ after = [accts EXCEPT ![a] = row]
    BY DEF AccountRows, With
<1>2. after \in [LedgerAccounts -> Rows] /\ after[a] = row
    BY <1>1
<1>3. \A b \in LedgerAccounts : b # a => after[b] = accts[b]
    BY <1>1
<1>4. \A b \in SystemAccounts : after[b].status # "archived"
    BY <1>3 DEF AccountRows, LedgerAccounts
<1> HIDE DEF after
<1>5. after \in AccountRows
    BY <1>2, <1>4 DEF AccountRows
<1> QED BY <1>2, <1>3, <1>5 DEF after

\* The rows that users own are no system accounts.
LEMMA OwnRows ==
    ASSUME NEW a, a \in UserAccounts \/ a \in Categories
    PROVE  a \in LedgerAccounts /\ a \notin SystemAccounts
BY LedgerConstants DEF LedgerAccounts

-----------------------------------------------------------------------------
(***************************************************************************)
(* The transactions that handlers post.                                    *)
(***************************************************************************)

\* A two-legged transaction that the foreign key accepts is sound.
LEMMA AcceptedIsSound ==
    ASSUME NEW j, NEW accts \in AccountRows, NEW currency \in Currencies, NEW C, currency \in C,
           NEW type \in TransactionTypes, NEW date \in Nat, NEW key,
           NEW reverses \in Nat, NEW replaces \in Nat,
           NEW a \in LedgerAccounts, NEW b \in LedgerAccounts, a # b,
           NEW amount \in Int, amount # 0,
           NEW x,
           x = JournalSpec(type, date, key, reverses, replaces,
                           <<Entry(a, amount, currency), Entry(b, -amount, currency)>>),
           Accepted(j, accts, x), ~KeyUsed(j, key)
    PROVE  /\ WellFormed(x) /\ SoundTransaction(x, accts, C)
           /\ x.entries[1].account = a /\ x.entries[2].account = b
           /\ x.entries[1].amount = amount
<1> DEFINE e == <<Entry(a, amount, currency), Entry(b, -amount, currency)>>
<1>1. Entry(a, amount, currency) \in Entries /\ Entry(b, -amount, currency) \in Entries
    BY DEF Entry, Entries
<1>2. e \in Seq(Entries) /\ Len(e) = 2 /\ DOMAIN e = 1 .. 2
    BY <1>1
<1>3. /\ e[1].account = a /\ e[1].amount = amount  /\ e[1].currency = currency
      /\ e[2].account = b /\ e[2].amount = -amount /\ e[2].currency = currency
    BY DEF Entry
<1>4. x = [type |-> type, date |-> date, key |-> key, reverses |-> reverses,
           replaces |-> replaces, entries |-> e]
    BY DEF JournalSpec
<1> HIDE DEF e
<1>5. WellFormed(x) /\ x.entries = e /\ x.key = key
    BY <1>2, <1>4 DEF TransactionsWith, WellFormed
<1>6. \A n \in 1 .. 2 : accts[e[n].account].currency = e[n].currency
    BY <1>2, <1>5 DEF Accepted
<1>7. accts[a].currency = currency /\ accts[b].currency = currency
    BY <1>3, <1>6
<1>8. \A n \in 1 .. 2 : accts[e[n].account].status # "absent" /\ e[n].currency = currency
    BY <1>3, <1>7, HasCurrencyExists
<1>9. e[1].amount + e[2].amount = 0
    BY <1>3
<1> QED BY <1>2, <1>3, <1>5, <1>6, <1>8, <1>9 DEF SoundTransaction

\* A well-formed transaction has a key out of any set its key is in.
LEMMA KeyedBy ==
    ASSUME NEW x, WellFormed(x), NEW K, x.key \in K
    PROVE  x \in TransactionsWith(K)
BY DEF WellFormed, TransactionsWith

\* An account that exists and is not archived is active.
LEMMA SystemAccountActive ==
    ASSUME NEW accts \in AccountRows, NEW a \in SystemAccounts,
           accts[a].status # "absent"
    PROVE  IsActive(accts, a)
BY DEF AccountRows, Rows, LedgerAccounts, IsActive, Absent

\* The opening balance of an account that is just being inserted may be posted.
LEMMA OpeningMayFollow ==
    ASSUME NEW j, NEW accts \in AccountRows, NEW currency \in Currencies, NEW C, currency \in C,
           NEW a \in UserAccounts, NEW class, NEW amount \in OpeningAmounts \ {0},
           NEW date \in Nat, NEW key \in AllKeys, IsActive(accts, a),
           Accepted(j, accts, OpeningBalance(a, class, currency, amount, date, key)),
           ~KeyUsed(j, key)
    PROVE  /\ MayFollow(OpeningBalance(a, class, currency, amount, date, key), j, accts, C)
           /\ OpeningBalance(a, class, currency, amount, date, key) \in LedgerPostings(accts)
<1> DEFINE x == OpeningBalance(a, class, currency, amount, date, key)
           signed == IF class = "LIABILITY" THEN -amount ELSE amount
<1>1. signed \in Int /\ signed # 0
  <2>1. amount \in Int /\ amount # 0
      BY LedgerConstants DEF OpeningAmounts
  <2> QED BY <2>1
<1>2. /\ a \in LedgerAccounts /\ "OPENING_EQUITY" \in LedgerAccounts
      /\ a # "OPENING_EQUITY" /\ "OPENING_EQUITY" \in SystemAccounts
      /\ "OPENING_BALANCE" \in TransactionTypes
      /\ date \in Nat
    BY LedgerConstants
    DEF LedgerAccounts, SystemAccounts, TransactionTypes, TypedOperations
<1> HIDE DEF signed
<1>3. x = JournalSpec("OPENING_BALANCE", date, key, 0, 0,
            <<Entry(a, signed, currency), Entry("OPENING_EQUITY", -signed, currency)>>)
    BY DEF OpeningBalance, signed
<1> HIDE DEF x
<1>4. /\ WellFormed(x) /\ SoundTransaction(x, accts, C)
      /\ x.entries[1].account = a /\ x.entries[2].account = "OPENING_EQUITY"
    BY <1>1, <1>2, <1>3, AcceptedIsSound DEF x
<1>5. x.type = "OPENING_BALANCE" /\ x.reverses = 0 /\ x.replaces = 0 /\ x.key = key
    BY <1>3 DEF JournalSpec
<1>6. MayFollow(x, j, accts, C)
    BY <1>4, <1>5 DEF MayFollow, MayReplace
<1>7. x \in LedgerPostings(accts)
  <2>1. IsActive(accts, "OPENING_EQUITY")
      BY <1>2, <1>4, SystemAccountActive DEF SoundTransaction
  <2>2. x \in TransactionsWith(AllKeys)
      BY <1>4, <1>5, KeyedBy
  <2> QED BY <1>4, <1>5, <2>1, <2>2 DEF LedgerPostings, OnActiveAccounts, TypedOperations
<1> QED BY <1>6, <1>7 DEF x

\* A typed operation whose accounts load may be posted; as a correction, once
\* the transaction that it replaces is reversed (postTypedOperation).
LEMMA OperationMayFollow ==
    ASSUME NEW j, NEW accts \in AccountRows, NEW currency \in Currencies, NEW C, currency \in C,
           NEW op, WellFormedOperation(op),
           NEW replaces \in Nat,
           OperationLoads(accts, currency, op),
           Accepted(j, accts, TypedOperation(accts, currency, op, replaces)),
           ~KeyUsed(j, op.key),
           MayReplace(j, replaces)
    PROVE  /\ MayFollow(TypedOperation(accts, currency, op, replaces), j, accts, C)
           /\ WellFormed(TypedOperation(accts, currency, op, replaces))
           /\ TypedOperation(accts, currency, op, replaces).type = op.type
           /\ OnActiveAccounts(TypedOperation(accts, currency, op, replaces), accts)
<1> DEFINE x == TypedOperation(accts, currency, op, replaces)
           amount == OperationAmount(accts, op)
<1>1. op.counterpart \in LedgerAccounts /\ op.account \in LedgerAccounts /\ op.date \in Nat
    BY DEF WellFormedOperation, LedgerAccounts, SystemAccounts
<1>2. amount \in Int /\ amount # 0
  <2>1. op.amount \in Nat /\ op.amount # 0
      BY LedgerConstants DEF WellFormedOperation
  <2>2. amount = op.amount \/ amount = -op.amount
      BY DEF OperationAmount
  <2> HIDE DEF amount
  <2> QED BY <2>1, <2>2
<1>3. op.account # op.counterpart
    BY LedgerConstants
    DEF WellFormedOperation, OperationLoads, LoadAccount, LoadCategory, SystemAccounts
<1>4. op.type \in TransactionTypes /\ op.type # "REVERSAL"
    BY DEF WellFormedOperation, TransactionTypes, TypedOperations
<1> HIDE DEF amount
<1>5. x = JournalSpec(op.type, op.date, op.key, 0, replaces,
            <<Entry(op.account, amount, currency),
              Entry(op.counterpart, -amount, currency)>>)
    BY DEF TypedOperation, amount
<1> HIDE DEF x
<1>6. /\ WellFormed(x) /\ SoundTransaction(x, accts, C)
      /\ x.entries[1].account = op.account /\ x.entries[2].account = op.counterpart
  <2>1. Accepted(j, accts, x)
      BY DEF x
  <2> DEFINE type == op.type
             date == op.date
             key  == op.key
             a    == op.account
             b    == op.counterpart
  <2>2. /\ x = JournalSpec(type, date, key, 0, replaces,
                  <<Entry(a, amount, currency), Entry(b, -amount, currency)>>)
        /\ type \in TransactionTypes /\ date \in Nat /\ 0 \in Nat
        /\ a \in LedgerAccounts /\ b \in LedgerAccounts /\ a # b
        /\ ~KeyUsed(j, key)
      BY <1>1, <1>3, <1>4, <1>5
  <2> HIDE DEF type, date, key, a, b
  <2>3. /\ WellFormed(x) /\ SoundTransaction(x, accts, C)
        /\ x.entries[1].account = a /\ x.entries[2].account = b
      BY <1>2, <2>1, <2>2, AcceptedIsSound
  <2> QED BY <2>3 DEF a, b
<1>7. x.type = op.type /\ x.reverses = 0 /\ x.replaces = replaces
    BY <1>5 DEF JournalSpec
<1>8. MayFollow(x, j, accts, C)
    BY <1>4, <1>6, <1>7 DEF MayFollow
<1>9. IsActive(accts, op.account) /\ IsActive(accts, op.counterpart)
  <2>1. op.counterpart = "OPENING_EQUITY" => IsActive(accts, op.counterpart)
      BY <1>6, SystemAccountActive DEF SoundTransaction, SystemAccounts
  <2> QED BY <2>1 DEF OperationLoads, LoadAccount, LoadCategory
<1>10. OnActiveAccounts(x, accts)
    BY <1>6, <1>9 DEF OnActiveAccounts
<1> QED BY <1>6, <1>7, <1>8, <1>10 DEF x

\* The same for the operations that a client sends.
LEMMA ClientOperationPosts ==
    ASSUME NEW j, NEW accts \in AccountRows, NEW currency \in Currencies,
           NEW C, currency \in C, NEW op \in Operations, NEW replaces \in Nat,
           OperationLoads(accts, currency, op),
           Accepted(j, accts, TypedOperation(accts, currency, op, replaces)),
           MayReplace(j, replaces)
    PROVE  Posted(j, PostJournal(j, TypedOperation(accts, currency, op, replaces)),
                  accts, C, LedgerPostings(accts))
<1> DEFINE x == TypedOperation(accts, currency, op, replaces)
<1>1. x.key = op.key
    BY DEF TypedOperation, JournalSpec
<1>2. WellFormedOperation(op) /\ op.type \in TypedOperations /\ op.key \in AllKeys
    BY LedgerConstants DEF WellFormedOperation, Operations, AllKeys
<1>3. ASSUME ~KeyUsed(j, op.key)
      PROVE  MayFollow(x, j, accts, C) /\ x \in LedgerPostings(accts)
  <2>1. /\ MayFollow(x, j, accts, C) /\ WellFormed(x)
        /\ x.type = op.type
        /\ OnActiveAccounts(x, accts)
      BY <1>2, <1>3, OperationMayFollow
  <2>2. x \in TransactionsWith(AllKeys)
      BY <1>1, <1>2, <2>1, KeyedBy
  <2> HIDE DEF x
  <2> QED BY <1>2, <2>1, <2>2 DEF LedgerPostings
<1> HIDE DEF x
<1>4. Posted(j, PostJournal(j, x), accts, C, LedgerPostings(accts))
    BY <1>1, <1>3, PostJournalPosts
<1> QED BY <1>4 DEF x

\* The reversal of a transaction that is not reversed yet may be posted
\* (postReversal), whatever has become of its accounts since.
LEMMA ReversalMayFollow ==
    ASSUME NEW j, NEW accts, NEW C, NEW K, JournalOK(j, accts, C, K),
           NEW t, Reversible(j, t), NEW L, NEW key \in L
    PROVE  /\ MayFollow(ReversalOf(j, t, key), j, accts, C)
           /\ ReversalOf(j, t, key) \in TransactionsWith(L)
           /\ ReversalOf(j, t, key).type = "REVERSAL"
<1> DEFINE x == ReversalOf(j, t, key)
           e == j[t].entries
           neg == Negated(e)
<1>1. t \in DOMAIN j /\ j \in Seq(TransactionsWith(K)) /\ j[t] \in TransactionsWith(K)
    BY DEF Reversible, JournalOK
<1>2. SoundTransaction(j[t], accts, C)
    BY <1>1 DEF JournalOK
<1>3. DOMAIN e = 1 .. 2 /\ \A n \in 1 .. 2 : e[n] \in Entries
    BY <1>1, <1>2, TwoLegs
<1> HIDE DEF e
<1>4. neg = <<[e[1] EXCEPT !.amount = -@], [e[2] EXCEPT !.amount = -@]>>
    BY <1>3 DEF Negated
<1>5. \A n \in 1 .. 2 : /\ neg[n] \in Entries
                         /\ neg[n].account = e[n].account
                         /\ neg[n].currency = e[n].currency
                         /\ neg[n].amount = -e[n].amount
    BY <1>3 DEF Negated, Entries
<1>6. neg \in Seq(Entries) /\ Len(neg) = 2
    BY <1>4, <1>5
<1> HIDE DEF neg
<1>7. x = [type |-> "REVERSAL", date |-> j[t].date, key |-> key,
           reverses |-> t, replaces |-> 0, entries |-> neg]
    BY DEF ReversalOf, JournalSpec, neg, e
<1> HIDE DEF x
<1>8. x \in TransactionsWith(L)
  <2>1. t \in Nat /\ j[t].date \in Nat
      BY <1>1 DEF TransactionsWith
  <2> QED BY <1>6, <1>7, <2>1 DEF TransactionsWith, TransactionTypes
<1>9. SoundTransaction(x, accts, C)
  <2>1. /\ e[1].amount # 0 /\ e[1].amount + e[2].amount = 0
        /\ e[1].account # e[2].account
        /\ \A n \in 1 .. 2 : /\ accts[e[n].account].status # "absent"
                             /\ accts[e[n].account].currency = e[n].currency
                             /\ e[n].currency \in C
      BY <1>2 DEF SoundTransaction, e
  <2>2. e[1].amount \in Int /\ e[2].amount \in Int
      BY <1>3 DEF Entries
  <2>3. neg[1].amount # 0 /\ neg[1].amount + neg[2].amount = 0
    <3>1. neg[1].amount = -e[1].amount /\ neg[2].amount = -e[2].amount
        BY <1>5
    <3> HIDE DEF neg
    <3> QED BY <2>1, <2>2, <3>1
  <2>4. x.entries = neg
      BY <1>7
  <2> QED BY <1>5, <1>6, <2>1, <2>3, <2>4 DEF SoundTransaction
<1>10. MayFollow(x, j, accts, C)
  <2>1. x.entries = Negated(j[t].entries)
      BY <1>7 DEF neg, e
  <2> QED BY <1>1, <1>7, <1>9, <2>1 DEF MayFollow, MayReplace, Reversible
<1>11. x.type = "REVERSAL"
    BY <1>7
<1> QED BY <1>8, <1>10, <1>11 DEF x

\* The same for the reversals that a client asks for.
LEMMA ClientReversalPosts ==
    ASSUME NEW j, NEW accts, NEW C, NEW K, JournalOK(j, accts, C, K),
           NEW t, Reversible(j, t), NEW key \in Keys
    PROVE  Posted(j, PostJournal(j, ReversalOf(j, t, key)), accts, C, LedgerPostings(accts))
<1> DEFINE x == ReversalOf(j, t, key)
<1>1. key \in AllKeys
    BY DEF AllKeys
<1>2. MayFollow(x, j, accts, C) /\ x \in TransactionsWith(AllKeys) /\ x.type = "REVERSAL"
    BY <1>1, ReversalMayFollow
<1> HIDE DEF x
<1>3. x \in LedgerPostings(accts)
    BY <1>2 DEF LedgerPostings
<1>4. Posted(j, PostJournal(j, x), accts, C, LedgerPostings(accts))
    BY <1>2, <1>3, PostJournalPosts
<1> QED BY <1>4 DEF x
-----------------------------------------------------------------------------
(***************************************************************************)
(* The handlers.                                                           *)
(***************************************************************************)

\* A handler that only adds rows and makes one posting at most.
LEMMA OnePosting ==
    ASSUME NEW C, NEW K, JournalOK(journal, accounts, C, K),
           accounts' \in AccountRows,
           \A a \in LedgerAccounts :
               accounts[a].status # "absent" => accounts'[a] = accounts[a],
           Posted(journal, journal', accounts', C, LedgerPostings(accounts'))
    PROVE  HandlerEffect(C, K)
<1>1. RowsKept(accounts, accounts')
    BY DEF RowsKept
<1>2. JournalOK(journal, accounts', C, K)
    BY RowsAreAdded
<1>3. /\ Posted(journal, journal, accounts', C, LedgerPostings(accounts'))
      /\ CorrectsBy(journal, journal, journal')
    BY DEF Posted, CorrectsBy
<1> QED BY <1>1, <1>2, <1>3 DEF HandlerEffect

\* A handler that changes rows and posts nothing.
LEMMA NoPosting ==
    ASSUME NEW C, NEW K, UNCHANGED journal, accounts' \in AccountRows,
           RowsKept(accounts, accounts'), JournalOK(journal, accounts', C, K)
    PROVE  HandlerEffect(C, K)
BY DEF HandlerEffect, Posted, CorrectsBy

\* Inserting an account and posting its opening balance, the common part of
\* CompleteOnboarding and CreateAccount.
LEMMA OpenAccountEffect ==
    ASSUME NEW C, NEW K, NEW currency \in Currencies, currency \in C,
           accounts \in AccountRows, JournalOK(journal, accounts, C, K),
           NEW base \in EnsureLedgerInfrastructure(accounts, currency),
           NEW a \in UserAccounts, NEW class \in AccountClasses \cup {"ASSET"},
           NEW c \in Currencies,
           NEW amount \in OpeningAmounts, NEW date, amount # 0 => date \in Nat,
           NEW key \in AllKeys,
           OpenAccount(base, a, class, c, amount, date, key, currency)
    PROVE  /\ HandlerEffect(C, K)
           /\ \A b \in LedgerAccounts : accounts[b].status # "absent" => accounts'[b] = accounts[b]
<1> DEFINE row == Row(class, c)
           opened == With(base, a, row)
           x == OpeningBalance(a, class, c, amount, date, key)
<1>1. /\ base \in AccountRows
      /\ \A b \in LedgerAccounts : accounts[b].status # "absent" => base[b] = accounts[b]
    BY InfrastructureOnlyAdds
<1>2. row \in Rows /\ row.status = "active"
    BY LedgerConstants DEF Row, Rows
<1>3. accounts' = opened /\ base[a].status = "absent" /\ a \in LedgerAccounts
    BY DEF OpenAccount, LedgerAccounts, With
<1> HIDE DEF row
<1>4. /\ opened \in AccountRows /\ opened[a] = row
      /\ \A b \in LedgerAccounts : b # a => opened[b] = base[b]
    BY <1>1, <1>2, <1>3, OwnRows, RowReplaced
<1>5. \A b \in LedgerAccounts : accounts[b].status # "absent" => accounts'[b] = accounts[b]
  <2> HIDE DEF opened
  <2> QED BY <1>1, <1>3, <1>4
<1>6. CASE UNCHANGED journal
    BY <1>3, <1>4, <1>5, <1>6, OnePosting DEF Posted
<1>7. CASE /\ amount # 0 /\ c = currency
           /\ Accepted(journal, opened, x)
           /\ journal' = PostJournal(journal, x)
  <2>1. x.key = key
      BY DEF OpeningBalance, JournalSpec
  <2>2. IsActive(opened, a)
      BY <1>2, <1>4 DEF IsActive
  <2> HIDE DEF opened
  <2>3. ~KeyUsed(journal, key) => MayFollow(x, journal, opened, C) /\ x \in LedgerPostings(opened)
      BY <1>4, <1>7, <2>2, OpeningMayFollow
  <2> HIDE DEF x
  <2>4. Posted(journal, journal', accounts', C, LedgerPostings(accounts'))
      BY <1>3, <1>7, <2>1, <2>3, PostJournalPosts
  <2> QED BY <1>3, <1>4, <1>5, <2>4, OnePosting
<1> QED BY <1>5, <1>6, <1>7 DEF OpenAccount, row, With

\* The effect of UpdateAccount.
LEMMA UpdateAccountEffect ==
    ASSUME NEW C, NEW K, accounts \in AccountRows, JournalOK(journal, accounts, C, K),
           NEW a \in UserAccounts, NEW c \in Currencies,
           NEW s \in {"active", "archived"}, UpdateAccount(a, c, s)
    PROVE  HandlerEffect(C, K)
<1>1. a \in LedgerAccounts /\ accounts[a].status # "absent"
    BY DEF UpdateAccount, LedgerAccounts
<1> DEFINE row == [status |-> s, class |-> accounts[a].class, currency |-> c]
<1>2. row \in Rows /\ row.status # "absent" /\ row.currency = c
  <2>1. accounts[a].class \in {"ASSET", "LIABILITY", "EQUITY", "INCOME", "EXPENSE"}
      BY <1>1 DEF AccountRows, Rows, Absent
  <2> QED BY <2>1 DEF Rows
<1>3. accounts' = With(accounts, a, row) /\ UNCHANGED journal
    BY DEF UpdateAccount, With
<1> HIDE DEF row
<1>4. /\ accounts' \in AccountRows
      /\ accounts'[a].status # "absent" /\ accounts'[a].currency = c
      /\ \A b \in LedgerAccounts : b # a => accounts'[b] = accounts[b]
    BY <1>2, <1>3, OwnRows, RowReplaced
<1>5. ASSUME NEW b, HasPostings(journal, b)
      PROVE  accounts'[b].status # "absent" /\ accounts'[b].currency = accounts[b].currency
  <2>1. b \in LedgerAccounts /\ accounts[b].status # "absent"
      BY <1>5, PostedAccountsExist
  <2>2. b = a => c = accounts[a].currency
      BY <1>5 DEF UpdateAccount
  <2> QED BY <1>4, <2>1, <2>2
<1>6. JournalOK(journal, accounts', C, K)
    BY <1>5, RowsMayChange
<1>7. RowsKept(accounts, accounts')
    BY <1>4 DEF RowsKept
<1> QED BY <1>3, <1>4, <1>6, <1>7, NoPosting

\* The effect of CreateCategory.
LEMMA CreateCategoryEffect ==
    ASSUME NEW C, NEW K, functional \in Currencies, accounts \in AccountRows,
           JournalOK(journal, accounts, C, K),
           NEW c \in Categories, NEW d \in Directions, CreateCategory(c, d)
    PROVE  HandlerEffect(C, K)
<1> DEFINE row == Row(d, functional)
<1>1. PICK base \in EnsureLedgerInfrastructure(accounts, functional) :
          /\ base[c].status = "absent"
          /\ accounts' = With(base, c, row)
    BY DEF CreateCategory, With
<1>2. /\ base \in AccountRows
      /\ \A b \in LedgerAccounts : accounts[b].status # "absent" => base[b] = accounts[b]
    BY InfrastructureOnlyAdds
<1>3. c \in LedgerAccounts /\ row \in Rows
    BY DEF LedgerAccounts, Row, Rows, Directions
<1> HIDE DEF row
<1>4. /\ accounts' \in AccountRows
      /\ \A b \in LedgerAccounts : accounts[b].status # "absent" => accounts'[b] = accounts[b]
    BY <1>1, <1>2, <1>3, OwnRows, RowReplaced
<1>5. UNCHANGED journal
    BY DEF CreateCategory
<1> QED BY <1>4, <1>5, OnePosting DEF Posted

\* The effect of UpdateCategory.
LEMMA UpdateCategoryEffect ==
    ASSUME NEW C, NEW K, accounts \in AccountRows, JournalOK(journal, accounts, C, K),
           NEW c \in Categories, NEW s \in {"active", "archived"}, UpdateCategory(c, s)
    PROVE  HandlerEffect(C, K)
<1>1. c \in LedgerAccounts /\ accounts[c].status # "absent"
    BY DEF UpdateCategory, LedgerAccounts
<1> DEFINE row == [accounts[c] EXCEPT !.status = s]
<1>2. row \in Rows /\ row.status # "absent" /\ row.currency = accounts[c].currency
  <2>1. /\ accounts[c] = [status |-> accounts[c].status, class |-> accounts[c].class,
                          currency |-> accounts[c].currency]
        /\ accounts[c].class \in {"ASSET", "LIABILITY", "EQUITY", "INCOME", "EXPENSE"}
        /\ accounts[c].currency \in Currencies
      BY <1>1 DEF AccountRows, Rows, Absent
  <2>2. row = [status |-> s, class |-> accounts[c].class,
               currency |-> accounts[c].currency]
      BY <2>1
  <2> QED BY <2>1, <2>2 DEF Rows
<1>3. accounts' = With(accounts, c, row) /\ UNCHANGED journal
    BY DEF UpdateCategory, With
<1> HIDE DEF row
<1>4. /\ accounts' \in AccountRows
      /\ \A b \in LedgerAccounts : accounts[b].status # "absent" =>
            /\ accounts'[b].status # "absent"
            /\ accounts'[b].currency = accounts[b].currency
    BY <1>1, <1>2, <1>3, OwnRows, RowReplaced
<1>5. JournalOK(journal, accounts', C, K)
    BY <1>4, RowsAreAdded
<1>6. RowsKept(accounts, accounts')
    BY <1>4 DEF RowsKept
<1> QED BY <1>3, <1>4, <1>5, <1>6, NoPosting

\* The effect of the ensureLedger of a read.
LEMMA EnsureLedgerEffect ==
    ASSUME NEW C, NEW K, functional \in Currencies, accounts \in AccountRows,
           JournalOK(journal, accounts, C, K), EnsureLedger
    PROVE  HandlerEffect(C, K)
<1>1. /\ accounts' \in AccountRows
      /\ \A b \in LedgerAccounts : accounts[b].status # "absent" => accounts'[b] = accounts[b]
    BY InfrastructureOnlyAdds DEF EnsureLedger
<1>2. UNCHANGED journal
    BY DEF EnsureLedger
<1> QED BY <1>1, <1>2, OnePosting DEF Posted

\* The effect of CreateTransaction.
LEMMA CreateTransactionEffect ==
    ASSUME NEW C, NEW K, functional \in Currencies, functional \in C,
           accounts \in AccountRows, JournalOK(journal, accounts, C, K),
           NEW op \in Operations, CreateTransaction(op)
    PROVE  HandlerEffect(C, K)
<1>1. PICK base \in EnsureLedgerInfrastructure(accounts, functional) :
          LET x == TypedOperation(base, functional, op, 0)
          IN  /\ OperationLoads(base, functional, op)
              /\ Accepted(journal, base, x)
              /\ accounts' = base
              /\ journal' = PostJournal(journal, x)
    BY DEF CreateTransaction
<1>2. /\ base \in AccountRows
      /\ \A b \in LedgerAccounts : accounts[b].status # "absent" => base[b] = accounts[b]
    BY InfrastructureOnlyAdds
<1>3. MayReplace(journal, 0)
    BY DEF MayReplace
<1>4. 0 \in Nat
    OBVIOUS
<1>5. Posted(journal, journal', base, C, LedgerPostings(base))
    BY <1>1, <1>2, <1>3, <1>4, ClientOperationPosts
<1> QED BY <1>1, <1>2, <1>5, OnePosting

\* The effect of ReverseTransaction.
LEMMA ReverseTransactionEffect ==
    ASSUME NEW C, NEW K, accounts \in AccountRows, JournalOK(journal, accounts, C, K),
           NEW t, NEW k \in Keys, ReverseTransaction(t, k)
    PROVE  HandlerEffect(C, K)
<1>1. /\ Reversible(journal, t) /\ UNCHANGED accounts
      /\ journal' = PostJournal(journal, ReversalOf(journal, t, k))
    BY DEF ReverseTransaction
<1>2. Posted(journal, journal', accounts, C, LedgerPostings(accounts))
    BY <1>1, ClientReversalPosts
<1> QED BY <1>1, <1>2, OnePosting

\* The effect of ReplaceTransaction: the reversal, then the replacement.
LEMMA ReplaceTransactionEffect ==
    ASSUME NEW C, NEW K, functional \in Currencies, functional \in C,
           accounts \in AccountRows, JournalOK(journal, accounts, C, K),
           NEW t, NEW k \in Keys, NEW op \in Operations, ReplaceTransaction(t, k, op)
    PROVE  HandlerEffect(C, K)
<1> DEFINE x == ReversalOf(journal, t, k)
           reversed == PostJournal(journal, x)
           y == TypedOperation(accounts, functional, op, t)
<1>1. /\ Reversible(journal, t)
      /\ OperationLoads(accounts, functional, op)
      /\ Accepted(reversed, accounts, y)
      /\ journal' = PostJournal(reversed, y)
      /\ UNCHANGED accounts
      /\ UniqueKeys => ~KeyUsed(journal, k)
    BY DEF ReplaceTransaction
<1>2. Posted(journal, reversed, accounts, C, LedgerPostings(accounts))
    BY <1>1, ClientReversalPosts
<1>3. journal \in Seq(TransactionsWith(K)) /\ t \in Nat
    BY <1>1 DEF JournalOK, Reversible
<1> DEFINE L == K \cup Keys
<1>4. /\ journal \in Seq(TransactionsWith(L)) /\ x \in TransactionsWith(L)
      /\ x.type = "REVERSAL" /\ x.reverses = t /\ x.key = k
  <2>1. TransactionsWith(K) \subseteq TransactionsWith(L)
      BY DEF TransactionsWith
  <2>2. k \in L
      OBVIOUS
  <2> HIDE DEF L
  <2>3. x \in TransactionsWith(L)
      BY <1>1, <2>2, ReversalMayFollow
  <2> QED BY <1>3, <2>1, <2>3, SeqWider DEF ReversalOf, JournalSpec
<1> HIDE DEF x, L
<1>5. MayReplace(reversed, t)
  <2>1. UniqueKeys => reversed = Append(journal, x)
      BY <1>1, <1>4 DEF PostJournal
  <2>2. UniqueKeys => /\ Len(journal) + 1 \in DOMAIN reversed
                      /\ reversed[Len(journal) + 1].reverses = t
      BY <1>4, <2>1, Appended
  <2> QED BY <2>2 DEF MayReplace, ReversedBy
<1>6. \A i \in DOMAIN reversed \ DOMAIN journal : reversed[i].type = "REVERSAL"
    BY <1>4, Appended DEF PostJournal
<1>7. reversed \in Seq(TransactionsWith(L))
    BY <1>4, Appended DEF PostJournal
<1> HIDE DEF reversed
<1>8. Posted(reversed, journal', accounts, C, LedgerPostings(accounts))
    BY <1>1, <1>3, <1>5, ClientOperationPosts
<1>9. \A i \in DOMAIN journal' \ DOMAIN reversed : journal'[i].type # "REVERSAL"
  <2>1. y.type = op.type /\ y.key = op.key
      BY DEF TypedOperation, JournalSpec
  <2>2. op.type # "REVERSAL" /\ op.key \in Keys /\ WellFormedOperation(op)
      BY LedgerConstants DEF Operations, TypedOperations, WellFormedOperation
  <2>3. ASSUME ~KeyUsed(reversed, op.key) PROVE y \in TransactionsWith(L)
    <3>1. WellFormed(y)
        BY <1>1, <1>3, <1>5, <2>2, <2>3, OperationMayFollow
    <3> HIDE DEF y
    <3> QED BY <2>1, <2>2, <3>1 DEF WellFormed, TransactionsWith, L
  <2> HIDE DEF y
  <2> QED BY <1>1, <1>7, <2>1, <2>2, <2>3, Appended DEF PostJournal
<1>10. RowsKept(accounts, accounts') /\ CorrectsBy(journal, reversed, journal')
    BY <1>1, <1>6, <1>9 DEF RowsKept, CorrectsBy
<1> HIDE DEF y
<1> QED BY <1>1, <1>2, <1>8, <1>10 DEF HandlerEffect

\* The functional currency changes only while nothing is posted, or not at all.
LEMMA CurrencyMoves ==
    ASSUME functional \in Currencies, Next
    PROVE  functional' \in Currencies /\ (functional' = functional \/ journal = <<>>)
BY DEF Next, CompleteOnboarding, CreateAccount, UpdateAccount, CreateCategory,
       UpdateCategory, EnsureLedger, CreateTransaction, ReverseTransaction,
       ReplaceTransaction, UpdateUserSettings

\* The effect of every handler of the ledger.
LEMMA NextEffect ==
    ASSUME NEW C, NEW K, functional \in Currencies, functional' \in C,
           accounts \in AccountRows, JournalOK(journal, accounts, C, K), Next
    PROVE  HandlerEffect(C, K)
<1>1. ASSUME NEW cur \in Currencies, NEW c \in Currencies, NEW a \in UserAccounts,
             NEW class \in AccountClasses, NEW x \in OpeningAmounts, NEW d \in Dates,
             CompleteOnboarding(cur, a, class, c, x, d)
      PROVE  HandlerEffect(C, K)
  <2> DEFINE key == <<"setup", a>>
  <2>1. key \in AllKeys
      BY DEF AllKeys
  <2>2. PICK base \in EnsureLedgerInfrastructure(accounts, cur) :
            OpenAccount(base, a, class, c, x, d, key, cur)
      BY <1>1 DEF CompleteOnboarding
  <2>3. cur \in C
      BY <1>1 DEF CompleteOnboarding
  <2>4. d \in Nat
      BY LedgerConstants
  <2> HIDE DEF key
  <2> QED BY <2>1, <2>2, <2>3, <2>4, OpenAccountEffect
<1>2. ASSUME NEW a \in UserAccounts, NEW class \in AccountClasses, NEW c \in Currencies,
             NEW x \in OpeningAmounts, NEW d \in Dates,
             NEW k \in Keys \cup {<<"fresh", a>>},
             CreateAccount(a, class, c, x, d, k)
      PROVE  HandlerEffect(C, K)
  <2>1. PICK base \in EnsureLedgerInfrastructure(accounts, functional) :
            OpenAccount(base, a, class, c, x, d, k, functional)
      BY <1>2 DEF CreateAccount
  <2>2. k \in AllKeys /\ functional \in C /\ d \in Nat
      BY <1>2, LedgerConstants DEF AllKeys, CreateAccount
  <2> QED BY <2>1, <2>2, OpenAccountEffect
<1>3. ASSUME NEW a \in UserAccounts, NEW c \in Currencies,
             NEW s \in {"active", "archived"}, UpdateAccount(a, c, s)
      PROVE  HandlerEffect(C, K)
    BY <1>3, UpdateAccountEffect
<1>4. ASSUME NEW c \in Categories, NEW d \in Directions, CreateCategory(c, d)
      PROVE  HandlerEffect(C, K)
    BY <1>4, CreateCategoryEffect
<1>5. ASSUME NEW c \in Categories, NEW s \in {"active", "archived"}, UpdateCategory(c, s)
      PROVE  HandlerEffect(C, K)
    BY <1>5, UpdateCategoryEffect
<1>6. CASE EnsureLedger
    BY <1>6, EnsureLedgerEffect
<1>7. ASSUME NEW op \in Operations, CreateTransaction(op)
      PROVE  HandlerEffect(C, K)
  <2>1. functional \in C
      BY <1>7 DEF CreateTransaction
  <2> QED BY <1>7, <2>1, CreateTransactionEffect
<1>8. ASSUME NEW t \in DOMAIN journal, NEW k \in Keys, ReverseTransaction(t, k)
      PROVE  HandlerEffect(C, K)
    BY <1>8, ReverseTransactionEffect
<1>9. ASSUME NEW t \in DOMAIN journal, NEW k \in Keys, NEW op \in Operations,
             ReplaceTransaction(t, k, op)
      PROVE  HandlerEffect(C, K)
  <2>1. functional \in C
      BY <1>9 DEF ReplaceTransaction
  <2> QED BY <1>9, <2>1, ReplaceTransactionEffect
<1>10. ASSUME NEW c \in Currencies, UpdateUserSettings(c)
       PROVE  HandlerEffect(C, K)
  <2>1. UNCHANGED <<accounts, journal>>
      BY <1>10 DEF UpdateUserSettings
  <2> QED BY <2>1, OnePosting DEF Posted
<1> QED BY <1>1, <1>2, <1>3, <1>4, <1>5, <1>6, <1>7, <1>8, <1>9, <1>10 DEF Next

-----------------------------------------------------------------------------
(***************************************************************************)
(* Invariance.                                                             *)
(***************************************************************************)

\* Nothing is posted yet when a fresh user registers.
LEMMA InitEstablishes ==
    ASSUME Init
    PROVE  /\ IInv
           /\ accounts \in AccountRows /\ functional \in Currencies
           /\ \A C, K : JournalOK(journal, accounts, C, K)
<1>1. accounts \in AccountRows
    BY DEF Init, AccountRows, Rows, LedgerAccounts, Absent
<1>2. \A C, K : JournalOK(journal, accounts, C, K)
    BY EmptyJournal DEF Init
<1>3. functional \in Currencies /\ onboarded \in BOOLEAN
    BY LedgerConstants DEF Init
<1> QED BY <1>1, <1>2, <1>3 DEF IInv

\* A journal in the functional currency is in the new one when it may change.
LEMMA JournalInNewCurrency ==
    ASSUME NEW K, JournalOK(journal, accounts, {functional}, K),
           functional' = functional \/ journal = <<>>
    PROVE  JournalOK(journal, accounts, {functional'}, K)
<1>1. CASE functional' = functional
  <2> DEFINE C == {functional}
             D == {functional'}
  <2>1. C = D
      BY <1>1
  <2>2. JournalOK(journal, accounts, C, K)
      OBVIOUS
  <2> HIDE DEF C, D
  <2>3. JournalOK(journal, accounts, D, K)
      BY <2>1, <2>2
  <2> QED BY <2>3 DEF D
<1>2. CASE journal = <<>>
    BY <1>2, EmptyJournal
<1> QED BY <1>1, <1>2

\* The part of the invariant that other modules rely on, with keys K of theirs.
LedgerInv(K) ==
    /\ functional \in Currencies
    /\ accounts \in AccountRows
    /\ JournalOK(journal, accounts, {functional}, K)

\* Every handler keeps it, and its postings are in the functional currency.
LEMMA NextKeepsLedger ==
    ASSUME NEW K, AllKeys \subseteq K, LedgerInv(K), Next
    PROVE  LedgerInv(K)' /\ HandlerEffect({functional'}, K)
<1> DEFINE C == {functional'}
<1>1. functional' \in Currencies /\ (functional' = functional \/ journal = <<>>)
    BY CurrencyMoves DEF LedgerInv
<1>2. JournalOK(journal, accounts, C, K)
    BY <1>1, JournalInNewCurrency DEF LedgerInv
<1>3. functional' \in C
    OBVIOUS
<1> HIDE DEF C
<1>4. HandlerEffect(C, K)
    BY <1>2, <1>3, NextEffect DEF LedgerInv
<1>5. JournalOK(journal', accounts', C, K)
    BY <1>4, HandlerKeepsJournal
<1>6. accounts' \in AccountRows
    BY <1>4 DEF HandlerEffect
<1> QED BY <1>1, <1>4, <1>5, <1>6 DEF LedgerInv, C

\* Every handler keeps the inductive invariant.
LEMMA NextKeeps == IInv /\ [Next]_ledgerVars => IInv'
<1>1. ASSUME IInv, Next PROVE IInv'
  <2>1. LedgerInv(AllKeys)
      BY <1>1 DEF IInv, LedgerInv
  <2>2. LedgerInv(AllKeys)'
      BY <1>1, <2>1, NextKeepsLedger
  <2>3. onboarded' \in BOOLEAN
      BY <1>1 DEF IInv, Next, CompleteOnboarding, CreateAccount, UpdateAccount,
         CreateCategory, UpdateCategory, EnsureLedger, CreateTransaction,
         ReverseTransaction, ReplaceTransaction, UpdateUserSettings
  <2> QED BY <2>2, <2>3 DEF IInv, LedgerInv
<1>2. ASSUME IInv, UNCHANGED ledgerVars PROVE IInv'
    BY <1>2 DEF IInv, ledgerVars
<1> QED BY <1>1, <1>2

-----------------------------------------------------------------------------
(***************************************************************************)
(* The theorems.                                                           *)
(***************************************************************************)

\* The inductive invariant holds in every reachable state of the ledger, for
\* every handler in any order.
THEOREM Invariance == Spec => []IInv
BY InitEstablishes, NextKeeps, PTL DEF Spec

\* What a sound journal says of the transactions, in any module that posts.
LEMMA SoundJournal ==
    ASSUME NEW C, NEW K, JournalOK(journal, accounts, C, K)
    PROVE  /\ Balanced /\ ReversalsCancel
           /\ UniqueKeys => ReplacedIsReversed
<1>1. ASSUME NEW i \in DOMAIN journal
      PROVE  SoundTransaction(journal[i], accounts, C)
    BY DEF JournalOK
<1>2. Balanced
    BY <1>1 DEF Balanced, SoundTransaction
<1>3. ReversalsCancel
    BY DEF JournalOK, ReversalsCancelIn, ReversalsCancel, ReversesEarlier
<1>4. UniqueKeys => ReplacedIsReversed
    BY DEF JournalOK, ReplacedIn, ReplacedIsReversed
<1> QED BY <1>2, <1>3, <1>4

\* Entries in the functional currency and in that of their accounts.
LEMMA SoundCurrencies ==
    ASSUME NEW K, LedgerInv(K)
    PROVE  CurrencyLocked
<1> SUFFICES ASSUME NEW i \in DOMAIN journal, NEW n \in DOMAIN journal[i].entries
             PROVE  LET e == journal[i].entries[n]
                    IN  e.currency = functional /\ e.currency = accounts[e.account].currency
    BY DEF CurrencyLocked
<1> DEFINE C == {functional}
<1>1. JournalOK(journal, accounts, C, K)
    BY DEF LedgerInv
<1> HIDE DEF C
<1>2. SoundTransaction(journal[i], accounts, C) /\ journal[i] \in TransactionsWith(K)
    BY <1>1 DEF JournalOK
<1>3. n \in 1 .. 2
    BY <1>2, TwoLegs
<1> QED BY <1>2, <1>3 DEF SoundTransaction, C

\* The parts of the invariant that the runs check.
LEMMA InvariantImplies ==
    IInv => /\ TypeOK /\ Balanced /\ ReversalsCancel /\ CurrencyLocked
            /\ UniqueKeys => ReplacedIsReversed
<1> SUFFICES ASSUME IInv
             PROVE  /\ TypeOK /\ Balanced /\ ReversalsCancel /\ CurrencyLocked
                    /\ UniqueKeys => ReplacedIsReversed
    OBVIOUS
<1>1. TypeOK
    BY DEF IInv, TypeOK, AccountRows, JournalOK, TransactionsWith, Transactions
<1>2. CurrencyLocked
  <2>1. LedgerInv(AllKeys)
      BY DEF IInv, LedgerInv
  <2> QED BY <2>1, SoundCurrencies
<1>3. /\ Balanced /\ ReversalsCancel
      /\ UniqueKeys => ReplacedIsReversed
  <2> DEFINE C == {functional}
  <2>1. JournalOK(journal, accounts, C, AllKeys)
      BY DEF IInv
  <2> HIDE DEF C
  <2> QED BY <2>1, SoundJournal
<1> QED BY <1>1, <1>2, <1>3

\* Rows, entries and journal are well formed after every handler.
THEOREM TypeCorrect == Spec => []TypeOK
BY Invariance, InvariantImplies, PTL

\* Every posted transaction balances over existing accounts, whatever is edited,
\* archived or corrected afterwards.
THEOREM JournalBalanced == Spec => []Balanced
BY Invariance, InvariantImplies, PTL

\* A reversal always cancels exactly one earlier transaction, and no transaction
\* is reversed twice.
THEOREM ReversalsAreExact == Spec => []ReversalsCancel
BY Invariance, InvariantImplies, PTL

\* No handler of the ledger lets a posted entry drift from the currency of its
\* account or from the functional currency.
THEOREM CurrenciesAreLocked == Spec => []CurrencyLocked
BY Invariance, InvariantImplies, PTL

\* A corrected transaction is reversed, provided clients never reuse a key.
THEOREM CorrectionsReverse == UniqueKeys => (Spec => []ReplacedIsReversed)
<1> SUFFICES ASSUME UniqueKeys PROVE Spec => []ReplacedIsReversed
    OBVIOUS
<1>1. IInv => ReplacedIsReversed
    BY InvariantImplies
<1> QED BY <1>1, Invariance, PTL

-----------------------------------------------------------------------------
(***************************************************************************)
(* Archived accounts.                                                      *)
(***************************************************************************)

\* A posting leaves what is posted where it is, and the only transaction that
\* can begin to count is the new one, if it is no reversal.
LEMMA PostedExtends ==
    ASSUME NEW j, NEW k, NEW accts, NEW C, NEW K, NEW P, P \subseteq TransactionsWith(K),
           j \in Seq(TransactionsWith(K)), Posted(j, k, accts, C, P)
    PROVE  /\ k \in Seq(TransactionsWith(K))
           /\ DOMAIN j \subseteq DOMAIN k
           /\ \A i \in DOMAIN j : k[i] = j[i]
           /\ \A i \in DOMAIN k \ DOMAIN j : k[i] \in P /\ MayFollow(k[i], j, accts, C)
           /\ Live(k) \cap DOMAIN j \subseteq Live(j)
<1>1. CASE k = j
    BY <1>1 DEF Live
<1>2. ASSUME NEW x \in P, MayFollow(x, j, accts, C), k = Append(j, x)
      PROVE  /\ k \in Seq(TransactionsWith(K))
             /\ DOMAIN j \subseteq DOMAIN k
             /\ \A i \in DOMAIN j : k[i] = j[i]
             /\ \A i \in DOMAIN k \ DOMAIN j : k[i] \in P /\ MayFollow(k[i], j, accts, C)
             /\ Live(k) \cap DOMAIN j \subseteq Live(j)
  <2>1. /\ k \in Seq(TransactionsWith(K)) /\ Len(j) \in Nat
        /\ DOMAIN j = 1 .. Len(j) /\ DOMAIN k = 1 .. Len(j) + 1
        /\ \A i \in 1 .. Len(j) : k[i] = j[i]
        /\ k[Len(j) + 1] = x
      BY <1>2, Appended
  <2>2. \A i \in DOMAIN k \ DOMAIN j : i = Len(j) + 1
      BY <2>1
  <2>3. \A t : ReversedBy(j, t) # {} => ReversedBy(k, t) # {}
      BY <2>1 DEF ReversedBy
  <2>4. Live(k) \cap DOMAIN j \subseteq Live(j)
      BY <2>1, <2>3 DEF Live
  <2> QED BY <1>2, <2>1, <2>2, <2>4
<1> QED BY <1>1, <1>2 DEF Posted

\* What a handler may have posted on an archived account is a reversal.
LEMMA PostingOnArchived ==
    ASSUME NEW accts, NEW C, NEW j, NEW x \in LedgerPostings(accts),
           MayFollow(x, j, accts, C), NEW a, Touches(x, a), ~IsActive(accts, a)
    PROVE  x.type = "REVERSAL"
<1>1. SoundTransaction(x, accts, C) /\ x \in TransactionsWith(AllKeys)
    BY DEF MayFollow, LedgerPostings
<1>2. PICK n \in 1 .. 2 : x.entries[n].account = a
    BY <1>1, TwoLegs DEF Touches
<1> QED BY <1>2 DEF LedgerPostings, OnActiveAccounts

\* What a handler adds to the journal is out of LedgerPostings, and only what
\* it adds can begin to count.
LEMMA HandlerExtends ==
    ASSUME NEW C, NEW K, AllKeys \subseteq K, HandlerEffect(C, K)
    PROVE  /\ DOMAIN journal \subseteq DOMAIN journal'
           /\ \A i \in DOMAIN journal : journal'[i] = journal[i]
           /\ \A i \in DOMAIN journal' \ DOMAIN journal :
                 /\ journal'[i] \in LedgerPostings(accounts')
                 /\ \E m : MayFollow(journal'[i], m, accounts', C)
           /\ Live(journal') \cap DOMAIN journal \subseteq Live(journal)
<1> DEFINE P == LedgerPostings(accounts')
<1>1. journal \in Seq(TransactionsWith(K))
    BY DEF HandlerEffect, JournalOK
<1>2. PICK m : Posted(journal, m, accounts', C, P) /\ Posted(m, journal', accounts', C, P)
    BY DEF HandlerEffect
<1>3. P \subseteq TransactionsWith(K)
    BY LedgerPostingsTyped
<1> HIDE DEF P
<1>4. /\ m \in Seq(TransactionsWith(K))
      /\ DOMAIN journal \subseteq DOMAIN m
      /\ \A i \in DOMAIN journal : m[i] = journal[i]
      /\ \A i \in DOMAIN m \ DOMAIN journal :
            m[i] \in P /\ MayFollow(m[i], journal, accounts', C)
      /\ Live(m) \cap DOMAIN journal \subseteq Live(journal)
    BY <1>1, <1>2, <1>3, PostedExtends
<1>5. /\ DOMAIN m \subseteq DOMAIN journal'
      /\ \A i \in DOMAIN m : journal'[i] = m[i]
      /\ \A i \in DOMAIN journal' \ DOMAIN m :
            journal'[i] \in P /\ MayFollow(journal'[i], m, accounts', C)
      /\ Live(journal') \cap DOMAIN m \subseteq Live(m)
    BY <1>2, <1>3, <1>4, PostedExtends
<1>6. \A i \in DOMAIN journal' \ DOMAIN journal :
          journal'[i] \in P /\ \E h : MayFollow(journal'[i], h, accounts', C)
    BY <1>4, <1>5
<1> QED BY <1>4, <1>5, <1>6 DEF P

\* A handler lets no transaction begin to count on an archived account.
LEMMA HandlerKeepsClosed ==
    ASSUME NEW C, NEW K, AllKeys \subseteq K, HandlerEffect(C, K),
           NEW a \in LedgerAccounts, accounts[a].status = "archived",
           NEW i \in Live(journal') \ Live(journal)
    PROVE  ~Touches(journal'[i], a)
<1>1. i \in DOMAIN journal' /\ journal'[i].type # "REVERSAL"
    BY DEF Live
<1>2. i \notin DOMAIN journal
    BY HandlerExtends
<1>3. /\ journal'[i] \in LedgerPostings(accounts')
      /\ \E m : MayFollow(journal'[i], m, accounts', C)
    BY <1>1, <1>2, HandlerExtends
<1>4. ~IsActive(accounts', a)
    BY <1>1, <1>2 DEF HandlerEffect, IsActive
<1> QED BY <1>1, <1>3, <1>4, PostingOnArchived

\* An archived account or category takes no new transaction that counts: not
\* by a correction, not by a retried key, not by an account opened meanwhile.
THEOREM ClosedAccountsStayClosed == Spec => ArchivedStaysClosed
<1>1. ASSUME IInv, Next
      PROVE  \A a \in LedgerAccounts : accounts[a].status = "archived" =>
                 \A i \in Live(journal') \ Live(journal) : ~Touches(journal'[i], a)
  <2> DEFINE C == {functional'}
             K == AllKeys
  <2>1. HandlerEffect(C, K)
      BY <1>1, NextKeepsLedger DEF IInv, LedgerInv
  <2> HIDE DEF C
  <2> QED BY <2>1, HandlerKeepsClosed
<1>2. ASSUME UNCHANGED ledgerVars
      PROVE  Live(journal') = Live(journal)
    BY <1>2 DEF ledgerVars
<1>3. IInv /\ [Next]_ledgerVars =>
          [\A a \in LedgerAccounts : accounts[a].status = "archived" =>
               \A i \in Live(journal') \ Live(journal) : ~Touches(journal'[i], a)
          ]_ledgerVars
    BY <1>1
<1> QED BY <1>3, Invariance, PTL DEF Spec, ArchivedStaysClosed

-----------------------------------------------------------------------------
(***************************************************************************)
(* Balances.                                                               *)
(***************************************************************************)

\* What the transactions at the positions I move on account a.
Moved(j, a, I) == MapThenSumSet(LAMBDA i : Delta(j[i], a), I)

UpTo(j, date) == {i \in DOMAIN j : j[i].date <= date}

\* The terms of Delta, as a function.
LEMMA DeltaIsSum ==
    ASSUME NEW x, NEW a, NEW I, I = {n \in DOMAIN x.entries : x.entries[n].account = a},
           IsFiniteSet(I), NEW f, \A n \in I : f[n] = x.entries[n].amount, IntegersOn(f, I)
    PROVE  Delta(x, a) = Sum(f, I)
<1> DEFINE P(g) == g = [s \in SUBSET I |->
                          IF s = {} THEN 0
                          ELSE x.entries[Chosen(s)].amount + g[s \ {Chosen(s)}]]
           h == CHOOSE g : P(g)
<1>1. Delta(x, a) = h[I]
    BY DEF Delta, MapThenSumSet, MapThenFoldSet, Chosen
<1>2. ASSUME NEW g PROVE P(g) <=> Adds(g, f, I)
  <2>1. \A s \in SUBSET I : s # {} => x.entries[Chosen(s)].amount = f[Chosen(s)]
      BY DEF Chosen
  <2>2. [s \in SUBSET I |-> IF s = {} THEN 0
                          ELSE x.entries[Chosen(s)].amount + g[s \ {Chosen(s)}]]
      = [s \in SUBSET I |-> IF s = {} THEN 0
                          ELSE f[Chosen(s)] + g[s \ {Chosen(s)}]]
      BY <2>1
  <2> QED BY <2>2 DEF Adds
<1> HIDE DEF P
<1>3. \E g : P(g)
    BY <1>2, AddsExists
<1>4. Adds(h, f, I)
    BY <1>2, <1>3
<1> HIDE DEF h
<1>5. Sum(f, I) = h[I]
    BY <1>4, SumIs
<1> QED BY <1>1, <1>5

\* A sound transaction moves the amounts of its legs, on their accounts.
LEMMA DeltaIs ==
    ASSUME NEW accts, NEW C, NEW K, NEW x \in TransactionsWith(K),
           SoundTransaction(x, accts, C), NEW a
    PROVE  /\ Delta(x, a) \in Int
           /\ a = x.entries[1].account => Delta(x, a) = x.entries[1].amount
           /\ a = x.entries[2].account => Delta(x, a) = x.entries[2].amount
           /\ a # x.entries[1].account /\ a # x.entries[2].account => Delta(x, a) = 0
<1> DEFINE e == x.entries
           I == {n \in DOMAIN x.entries : x.entries[n].account = a}
           f == [n \in 1 .. 2 |-> e[n].amount]
<1>1. DOMAIN e = 1 .. 2 /\ \A n \in 1 .. 2 : e[n].amount \in Int
    BY TwoLegs DEF Entries
<1>2. e[1].account # e[2].account
    BY DEF SoundTransaction
<1>3. I \subseteq 1 .. 2
    BY <1>1
<1>4. IsFiniteSet(1 .. 2)
  <2>1. 1 \in Int /\ 2 \in Int
      OBVIOUS
  <2> QED BY <2>1, FS_Interval
<1>5. IsFiniteSet(I)
  <2> HIDE DEF I
  <2> QED BY <1>3, <1>4, FS_Subset
<1>6. \A n \in I : f[n] = x.entries[n].amount /\ f[n] \in Int
    BY <1>1, <1>3
<1>7. f[1] = e[1].amount /\ f[2] = e[2].amount
    OBVIOUS
<1> HIDE DEF f
<1>8. Delta(x, a) = Sum(f, I)
  <2>1. IntegersOn(f, I)
      BY <1>6 DEF IntegersOn
  <2>2. I = {n \in DOMAIN x.entries : x.entries[n].account = a}
      OBVIOUS
  <2> HIDE DEF I
  <2> QED BY <1>5, <1>6, <2>1, <2>2, DeltaIsSum
<1>9. CASE a = e[1].account
  <2>1. 1 \in I /\ \A n \in I : n = 1
      BY <1>1, <1>2, <1>9
  <2> HIDE DEF I
  <2>2. Sum(f, I) = f[1]
      BY <1>5, <1>6, <2>1, SumOfOne
  <2> HIDE DEF e
  <2>3. Delta(x, a) = e[1].amount /\ e[1].amount \in Int
      BY <1>1, <1>7, <1>8, <2>2
  <2> QED BY <1>2, <1>9, <2>3 DEF e
<1>10. CASE a = e[2].account
  <2>1. 2 \in I /\ \A n \in I : n = 2
      BY <1>1, <1>2, <1>10
  <2> HIDE DEF I
  <2>2. Sum(f, I) = f[2]
      BY <1>5, <1>6, <2>1, SumOfOne
  <2> HIDE DEF e
  <2>3. Delta(x, a) = e[2].amount /\ e[2].amount \in Int
      BY <1>1, <1>7, <1>8, <2>2
  <2> QED BY <1>2, <1>10, <2>3 DEF e
<1>11. CASE a # e[1].account /\ a # e[2].account
  <2>1. \A n \in I : FALSE
      BY <1>1, <1>11
  <2> HIDE DEF I
  <2>2. Sum(f, I) = 0
      BY <1>5, <2>1, SumOfZeros
  <2> QED BY <1>8, <1>11, <2>2
<1> QED BY <1>9, <1>10, <1>11

\* The terms of Moved, as a function.
LEMMA MovedIsSum ==
    ASSUME NEW j, NEW a, NEW I, IsFiniteSet(I), NEW f,
           \A i \in I : f[i] = Delta(j[i], a), IntegersOn(f, I)
    PROVE  Moved(j, a, I) = Sum(f, I)
<1> DEFINE P(g) == g = [s \in SUBSET I |->
                          IF s = {} THEN 0
                          ELSE Delta(j[Chosen(s)], a) + g[s \ {Chosen(s)}]]
           h == CHOOSE g : P(g)
<1>1. Moved(j, a, I) = h[I]
    BY DEF Moved, MapThenSumSet, MapThenFoldSet, Chosen
<1>2. ASSUME NEW g PROVE P(g) <=> Adds(g, f, I)
  <2>1. \A s \in SUBSET I : s # {} => Delta(j[Chosen(s)], a) = f[Chosen(s)]
      BY DEF Chosen
  <2>2. [s \in SUBSET I |-> IF s = {} THEN 0
                          ELSE Delta(j[Chosen(s)], a) + g[s \ {Chosen(s)}]]
      = [s \in SUBSET I |-> IF s = {} THEN 0
                          ELSE f[Chosen(s)] + g[s \ {Chosen(s)}]]
      BY <2>1
  <2> QED BY <2>2 DEF Adds
<1> HIDE DEF P
<1>3. \E g : P(g)
    BY <1>2, AddsExists
<1>4. Adds(h, f, I)
    BY <1>2, <1>3
<1> HIDE DEF h
<1>5. Sum(f, I) = h[I]
    BY <1>4, SumIs
<1> QED BY <1>1, <1>5

\* Every transaction of a sound journal moves an integer on every account.
DeltasOf(j, a) == \A i \in DOMAIN j : Delta(j[i], a) \in Int

LEMMA SoundDeltas ==
    ASSUME NEW j, NEW accts, NEW C, NEW K, JournalOK(j, accts, C, K), NEW a
    PROVE  DeltasOf(j, a)
<1>1. \A i \in DOMAIN j : j[i] \in TransactionsWith(K) /\ SoundTransaction(j[i], accts, C)
    BY DEF JournalOK
<1> QED BY <1>1, DeltaIs DEF DeltasOf

\* The positions of a journal are finitely many.
LEMMA PositionsFinite ==
    ASSUME NEW S, NEW j \in Seq(S), NEW I, I \subseteq DOMAIN j
    PROVE  IsFiniteSet(I)
<1>1. DOMAIN j = 1 .. Len(j) /\ Len(j) \in Nat
    OBVIOUS
<1>2. IsFiniteSet(1 .. Len(j))
    BY <1>1, FS_Interval
<1> QED BY <1>1, <1>2, FS_Subset

\* What the transactions of a sound journal move is an integer; nothing, if
\* there are none.
LEMMA MovedType ==
    ASSUME NEW S, NEW j \in Seq(S), NEW a, DeltasOf(j, a), NEW I, I \subseteq DOMAIN j
    PROVE  Moved(j, a, I) \in Int /\ (I = {} => Moved(j, a, I) = 0)
<1> DEFINE f == [i \in I |-> Delta(j[i], a)]
<1>1. IsFiniteSet(I)
    BY PositionsFinite
<1>2. /\ \A i \in I : f[i] = Delta(j[i], a)
      /\ IntegersOn(f, I)
    BY DEF IntegersOn, DeltasOf
<1> HIDE DEF f
<1>3. Moved(j, a, I) = Sum(f, I)
    BY <1>1, <1>2, MovedIsSum
<1> QED BY <1>1, <1>2, <1>3, SumType

\* A new transaction changes nothing of what the earlier ones move, and adds
\* what it moves itself where it is counted.
LEMMA MovedGrows ==
    ASSUME NEW S, NEW j \in Seq(S), NEW x \in S, NEW a, DeltasOf(j, a),
           Delta(x, a) \in Int, NEW I, I \subseteq DOMAIN j
    PROVE  /\ Moved(Append(j, x), a, I) = Moved(j, a, I)
           /\ Moved(Append(j, x), a, I \cup {Len(j) + 1}) = Moved(j, a, I) + Delta(x, a)
<1> DEFINE k == Append(j, x)
           m == Len(j) + 1
           f == [i \in I \cup {m} |-> Delta(k[i], a)]
<1>1. /\ DOMAIN j = 1 .. Len(j) /\ Len(j) \in Nat
      /\ \A i \in DOMAIN j : k[i] = j[i]
      /\ k[m] = x
    BY Appended
<1> HIDE DEF k
<1>2. m \notin I /\ IsFiniteSet(I)
    BY <1>1, PositionsFinite
<1> DEFINE M == I \cup {m}
<1>3. IsFiniteSet(M)
    BY <1>2, FS_AddElement
<1>4. /\ \A i \in M : f[i] = Delta(k[i], a)
      /\ \A i \in I : f[i] = Delta(j[i], a)
      /\ f[m] = Delta(x, a)
      /\ IntegersOn(f, M) /\ IntegersOn(f, I)
    BY <1>1 DEF IntegersOn, DeltasOf
<1> HIDE DEF f
<1>5. Sum(f, M) = f[m] + Sum(f, I)
    BY <1>2, <1>4, SumWith
<1>6. Moved(j, a, I) = Sum(f, I)
    BY <1>2, <1>4, MovedIsSum
<1>7. Moved(k, a, I) = Sum(f, I)
    BY <1>1, <1>2, <1>4, MovedIsSum
<1>8. Moved(k, a, M) = Sum(f, M)
  <2> HIDE DEF M
  <2> QED BY <1>3, <1>4, MovedIsSum
<1>9. Sum(f, I) \in Int
    BY <1>2, <1>4, SumType
<1>10. Moved(k, a, M) = Moved(j, a, I) + Delta(x, a)
  <2> HIDE DEF M
  <2> QED BY <1>4, <1>5, <1>6, <1>8, <1>9
<1> QED BY <1>6, <1>7, <1>10 DEF k, M

\* A new transaction counts in the balances of its date and later.
LEMMA BalanceGrows ==
    ASSUME NEW S, NEW j \in Seq(S), NEW x \in S, NEW a, DeltasOf(j, a),
           Delta(x, a) \in Int, NEW date
    PROVE  /\ BalanceAt(j, a, date) \in Int
           /\ BalanceAt(Append(j, x), a, date) =
                  BalanceAt(j, a, date) + IF x.date <= date THEN Delta(x, a) ELSE 0
<1> DEFINE k == Append(j, x)
           m == Len(j) + 1
           I == UpTo(j, date)
           N == UpTo(k, date)
           M == I \cup {m}
<1>1. BalanceAt(j, a, date) = Moved(j, a, I) /\ BalanceAt(k, a, date) = Moved(k, a, N)
    BY DEF BalanceAt, Moved, UpTo
<1>2. /\ DOMAIN j = 1 .. Len(j) /\ Len(j) \in Nat
      /\ DOMAIN k = 1 .. m
      /\ \A i \in DOMAIN j : k[i] = j[i]
      /\ k[m] = x
    BY Appended
<1>3. I \subseteq DOMAIN j
    BY DEF UpTo
<1> HIDE DEF I
<1>4. /\ Moved(j, a, I) \in Int
      /\ Moved(k, a, I) = Moved(j, a, I)
      /\ Moved(k, a, M) = Moved(j, a, I) + Delta(x, a)
    BY <1>3, MovedGrows, MovedType
<1> HIDE DEF k
<1>5. IF x.date <= date THEN N = M ELSE N = I
    BY <1>2 DEF UpTo, I
<1> HIDE DEF N, M
<1>6. Moved(k, a, N) = Moved(j, a, I) + IF x.date <= date THEN Delta(x, a) ELSE 0
    BY <1>4, <1>5
<1> QED BY <1>1, <1>4, <1>6 DEF k

-----------------------------------------------------------------------------
(***************************************************************************)
(* The book.  OperationAt, BookOperations and Balances are the refinement  *)
(* mapping of LedgerBook with the journal as a parameter, for the journal  *)
(* between the two postings of a correction.                               *)
(***************************************************************************)
OperationAt(j, i) ==
    [id |-> i, date |-> j[i].date,
     movement |-> [a \in LedgerAccounts |-> Delta(j[i], a)]]

BookOperations(j) == {OperationAt(j, i) : i \in Live(j)}

Balances(j) == [a \in LedgerAccounts |-> [d \in Dates |-> BalanceAt(j, a, d)]]

\* What x moves on account a at the end of date d.
Counted(x, a, d) == IF x.date <= d THEN Delta(x, a) ELSE 0

\* There are finitely many accounts to sum over.
LEMMA AccountsFinite == IsFiniteSet(LedgerAccounts)
<1>1. IsFiniteSet(SystemAccounts)
  <2>1. IsFiniteSet({})
      BY FS_EmptySet
  <2> DEFINE A == {"OPENING_EQUITY"}
             B == {"OPENING_EQUITY", "UNREALIZED_GAIN_LOSS"}
             D == {"OPENING_EQUITY", "UNREALIZED_GAIN_LOSS", "OTHER_INCOME"}
  <2>2. /\ A = {} \cup {"OPENING_EQUITY"} /\ B = A \cup {"UNREALIZED_GAIN_LOSS"}
        /\ D = B \cup {"OTHER_INCOME"} /\ SystemAccounts = D \cup {"OTHER_EXPENSE"}
      BY DEF SystemAccounts
  <2>3. IsFiniteSet(A)
      BY <2>1, <2>2, FS_AddElement
  <2> HIDE DEF A
  <2>4. IsFiniteSet(B)
      BY <2>2, <2>3, FS_AddElement
  <2> HIDE DEF B
  <2>5. IsFiniteSet(D)
      BY <2>2, <2>4, FS_AddElement
  <2> HIDE DEF D
  <2> QED BY <2>2, <2>5, FS_AddElement
<1>2. IsFiniteSet(UserAccounts \cup Categories)
    BY FiniteAccounts, FS_Union
<1> QED BY <1>1, <1>2, FS_Union DEF LedgerAccounts

\* A sound transaction creates and destroys no money, whatever it is part of.
LEMMA MovementsConserve ==
    ASSUME NEW accts, NEW C, NEW K, NEW x \in TransactionsWith(K),
           SoundTransaction(x, accts, C), NEW op,
           op.movement = [a \in LedgerAccounts |-> Delta(x, a)]
    PROVE  TheBook!Conserves(op)
<1> DEFINE f == [a \in LedgerAccounts |-> Delta(x, a)]
           S == LedgerAccounts
           e == x.entries
           a1 == e[1].account
           a2 == e[2].account
<1>1. /\ a1 \in S /\ a2 \in S /\ a1 # a2
      /\ e[1].amount + e[2].amount = 0
      /\ e[1].amount \in Int /\ e[2].amount \in Int
    BY LegsCancel
<1>2. /\ IntegersOn(f, S)
      /\ f[a1] = e[1].amount /\ f[a2] = e[2].amount
      /\ \A a \in S : a # a1 /\ a # a2 => f[a] = 0
    BY <1>1, DeltaIs DEF IntegersOn
<1>3. op.movement = f
    OBVIOUS
<1> HIDE DEF f, a1, a2, e, S
<1>4. IsFiniteSet(S)
    BY AccountsFinite DEF S
<1> DEFINE T == S \ {a1}
<1>5. Sum(f, S) = f[a1] + Sum(f, T)
    BY <1>1, <1>2, <1>4, SumWithout
<1>6. IsFiniteSet(T) /\ a2 \in T /\ f[a2] \in Int /\ \A a \in T : a # a2 => f[a] = 0
    BY <1>1, <1>2, <1>4, FS_Subset
<1> HIDE DEF T
<1>7. Sum(f, T) = f[a2]
    BY <1>6, SumOfOne
<1>8. Sum(f, S) = 0
    BY <1>1, <1>2, <1>5, <1>7
<1>9. TheBook!Conserves(op) <=> Sum(op.movement, LedgerAccounts) = 0
    BY Zenon DEF TheBook!Conserves, TheBook!MapThenSumSet, TheBook!MapThenFoldSet,
                 Sum, MapThenSumSet, MapThenFoldSet
<1> QED BY <1>3, <1>8, <1>9 DEF S

\* A sound transaction's operation begins to count with it.
LEMMA OperationCounts ==
    ASSUME NEW accts, NEW C, NEW K, NEW j, NEW x \in TransactionsWith(K),
           JournalOK(j, accts, C, K), MayFollow(x, j, accts, C), x.type # "REVERSAL"
    PROVE  /\ Live(Append(j, x)) = Live(j) \cup {Len(j) + 1}
           /\ Len(j) + 1 \notin Live(j)
<1> DEFINE k == Append(j, x)
           m == Len(j) + 1
<1>1. j \in Seq(TransactionsWith(K)) /\ ReversalsCancelIn(j)
    BY DEF JournalOK
<1>2. /\ Len(j) \in Nat /\ DOMAIN j = 1 .. Len(j) /\ DOMAIN k = 1 .. m
      /\ \A i \in DOMAIN j : k[i] = j[i]
      /\ k[m] = x
    BY <1>1, Appended
<1>3. x.reverses = 0
    BY DEF MayFollow
<1>4. \A i \in DOMAIN j : j[i].reverses = 0 \/ j[i].reverses < i
    BY <1>1, <1>2 DEF ReversalsCancelIn, ReversesEarlier
<1> HIDE DEF k
<1>5. \A i \in DOMAIN j : ReversedBy(k, i) = ReversedBy(j, i)
    BY <1>2, <1>3 DEF ReversedBy
<1>6. ReversedBy(k, m) = {}
    BY <1>2, <1>3, <1>4 DEF ReversedBy
<1> QED BY <1>2, <1>5, <1>6 DEF Live, k

\* A reversal takes the operation of its original out, and counts for nothing
\* itself.
LEMMA ReversalUncounts ==
    ASSUME NEW accts, NEW C, NEW K, NEW j, NEW x \in TransactionsWith(K),
           JournalOK(j, accts, C, K), MayFollow(x, j, accts, C), x.type = "REVERSAL"
    PROVE  /\ Live(Append(j, x)) = Live(j) \ {x.reverses}
           /\ x.reverses \in Live(j)
<1> DEFINE k == Append(j, x)
           m == Len(j) + 1
           t == x.reverses
<1>1. j \in Seq(TransactionsWith(K))
    BY DEF JournalOK
<1>2. /\ Len(j) \in Nat /\ DOMAIN j = 1 .. Len(j) /\ DOMAIN k = 1 .. m
      /\ \A i \in DOMAIN j : k[i] = j[i]
      /\ k[m] = x
    BY <1>1, Appended
<1>3. t \in DOMAIN j /\ j[t].type # "REVERSAL" /\ ReversedBy(j, t) = {}
    BY DEF MayFollow
<1> HIDE DEF k
<1>4. \A i \in DOMAIN j : i # t => ReversedBy(k, i) = ReversedBy(j, i)
    BY <1>2 DEF ReversedBy
<1>5. m \in ReversedBy(k, t)
    BY <1>2 DEF ReversedBy
<1>6. Live(k) = Live(j) \ {t}
  <2>1. m \notin Live(k) /\ t \notin Live(k)
      BY <1>2, <1>5 DEF Live
  <2>2. \A i \in DOMAIN j : i # t => (i \in Live(k) <=> i \in Live(j))
      BY <1>2, <1>4 DEF Live
  <2>3. Live(k) \subseteq DOMAIN j \cup {m} /\ Live(j) \subseteq DOMAIN j
      BY <1>2 DEF Live
  <2> QED BY <1>2, <2>1, <2>2, <2>3
<1> QED BY <1>3, <1>6 DEF Live, k

\* A reversal moves the opposite of its original, at the same date.
LEMMA ReversalMovesBack ==
    ASSUME NEW accts, NEW C, NEW K, NEW j, NEW x \in TransactionsWith(K),
           JournalOK(j, accts, C, K), MayFollow(x, j, accts, C), x.type = "REVERSAL",
           NEW a
    PROVE  /\ x.date = j[x.reverses].date
           /\ Delta(x, a) \in Int /\ Delta(j[x.reverses], a) \in Int
           /\ Delta(x, a) = -Delta(j[x.reverses], a)
<1> DEFINE y == j[x.reverses]
<1>1. /\ y \in TransactionsWith(K) /\ SoundTransaction(y, accts, C)
      /\ x.date = y.date /\ x.entries = Negated(y.entries)
      /\ SoundTransaction(x, accts, C)
    BY DEF JournalOK, MayFollow
<1> HIDE DEF y
<1>2. DOMAIN y.entries = 1 .. 2 /\ \A n \in 1 .. 2 : y.entries[n] \in Entries
    BY <1>1, TwoLegs
<1>3. \A n \in 1 .. 2 : /\ x.entries[n].account = y.entries[n].account
                        /\ x.entries[n].amount = -y.entries[n].amount
    BY <1>1, <1>2 DEF Negated, Entries
<1>4. /\ Delta(x, a) \in Int
      /\ a = x.entries[1].account => Delta(x, a) = x.entries[1].amount
      /\ a = x.entries[2].account => Delta(x, a) = x.entries[2].amount
      /\ a # x.entries[1].account /\ a # x.entries[2].account => Delta(x, a) = 0
    BY <1>1, DeltaIs
<1>5. /\ Delta(y, a) \in Int
      /\ a = y.entries[1].account => Delta(y, a) = y.entries[1].amount
      /\ a = y.entries[2].account => Delta(y, a) = y.entries[2].amount
      /\ a # y.entries[1].account /\ a # y.entries[2].account => Delta(y, a) = 0
    BY <1>1, DeltaIs
<1> QED BY <1>1, <1>3, <1>4, <1>5 DEF y

\* What a sound journal extended by one transaction has in common with it.
LEMMA OperationsStay ==
    ASSUME NEW S, NEW j \in Seq(S), NEW x \in S, NEW i \in DOMAIN j
    PROVE  OperationAt(Append(j, x), i) = OperationAt(j, i)
<1>1. Append(j, x)[i] = j[i]
    BY Appended
<1> QED BY <1>1 DEF OperationAt

\* An operation that counts is new to the book, and the book gains it only.
LEMMA BookGains ==
    ASSUME NEW accts, NEW C, NEW K, NEW j, NEW x \in TransactionsWith(K),
           JournalOK(j, accts, C, K), MayFollow(x, j, accts, C), x.type # "REVERSAL"
    PROVE  LET op == OperationAt(Append(j, x), Len(j) + 1)
           IN  /\ op \notin BookOperations(j)
               /\ BookOperations(Append(j, x)) = BookOperations(j) \cup {op}
<1> DEFINE k == Append(j, x)
           m == Len(j) + 1
<1>1. Live(k) = Live(j) \cup {m} /\ m \notin Live(j)
    BY OperationCounts
<1>2. j \in Seq(TransactionsWith(K)) /\ Live(j) \subseteq DOMAIN j
    BY DEF JournalOK, Live
<1>3. \A i \in Live(j) : OperationAt(k, i) = OperationAt(j, i)
    BY <1>2, OperationsStay
<1>4. \A i \in Live(j) : OperationAt(k, m) # OperationAt(j, i)
    BY <1>1 DEF OperationAt
<1> HIDE DEF k, m
<1> QED BY <1>1, <1>3, <1>4 DEF BookOperations, k, m

\* A reversal takes one operation out of the book, and no other.
LEMMA BookLoses ==
    ASSUME NEW accts, NEW C, NEW K, NEW j, NEW x \in TransactionsWith(K),
           JournalOK(j, accts, C, K), MayFollow(x, j, accts, C), x.type = "REVERSAL"
    PROVE  LET op == OperationAt(j, x.reverses)
           IN  /\ op \in BookOperations(j)
               /\ BookOperations(Append(j, x)) = BookOperations(j) \ {op}
<1> DEFINE k == Append(j, x)
           t == x.reverses
<1>1. Live(k) = Live(j) \ {t} /\ t \in Live(j)
    BY ReversalUncounts
<1>2. j \in Seq(TransactionsWith(K)) /\ Live(j) \subseteq DOMAIN j
    BY DEF JournalOK, Live
<1>3. \A i \in Live(j) : OperationAt(k, i) = OperationAt(j, i)
    BY <1>2, OperationsStay
<1>4. \A i \in Live(j) : i # t => OperationAt(j, t) # OperationAt(j, i)
    BY DEF OperationAt
<1> HIDE DEF k, t
<1> QED BY <1>1, <1>3, <1>4 DEF BookOperations, k, t

\* The balances at every date move by what a posted transaction counts there.
LEMMA BalancesMove ==
    ASSUME NEW accts, NEW C, NEW K, NEW j, NEW x \in TransactionsWith(K),
           JournalOK(j, accts, C, K), MayFollow(x, j, accts, C),
           NEW a \in LedgerAccounts, NEW d \in Dates
    PROVE  /\ Balances(j)[a][d] \in Int /\ Counted(x, a, d) \in Int
           /\ Balances(Append(j, x))[a][d] = Balances(j)[a][d] + Counted(x, a, d)
<1>1. j \in Seq(TransactionsWith(K)) /\ DeltasOf(j, a)
    BY SoundDeltas DEF JournalOK
<1>2. Delta(x, a) \in Int
    BY DeltaIs DEF MayFollow
<1>3. /\ BalanceAt(j, a, d) \in Int
      /\ BalanceAt(Append(j, x), a, d) =
             BalanceAt(j, a, d) + IF x.date <= d THEN Delta(x, a) ELSE 0
    BY <1>1, <1>2, BalanceGrows
<1> QED BY <1>2, <1>3 DEF Balances, Counted

\* The effect of an operation in the book is what its transaction counts.
LEMMA EffectIs ==
    ASSUME NEW j, NEW i, NEW a \in LedgerAccounts, NEW d
    PROVE  TheBook!Effect(OperationAt(j, i), a, d) = Counted(j[i], a, d)
BY DEF TheBook!Effect, OperationAt, Counted

\* A reversal counts the opposite of its original at every date.
LEMMA CountedBack ==
    ASSUME NEW accts, NEW C, NEW K, NEW j, NEW x \in TransactionsWith(K),
           JournalOK(j, accts, C, K), MayFollow(x, j, accts, C), x.type = "REVERSAL",
           NEW a, NEW d
    PROVE  /\ Counted(x, a, d) = -Counted(j[x.reverses], a, d)
           /\ Counted(j[x.reverses], a, d) \in Int
BY ReversalMovesBack DEF Counted

\* The state of the book, and what its actions say of the next one.
LEMMA BookState ==
    /\ {BookOperation(i) : i \in Live(journal)} = BookOperations(journal)
    /\ [a \in LedgerAccounts |-> [d \in Dates |-> BalanceAt(journal, a, d)]]
           = Balances(journal)
BY DEF BookOperations, BookOperation, OperationAt, Balances

\* Posting an operation records it in the book.
LEMMA PostingRecords ==
    ASSUME NEW accts, NEW C, NEW K, NEW x \in TransactionsWith(K),
           JournalOK(journal, accts, C, K), MayFollow(x, journal, accts, C),
           x.type # "REVERSAL", journal' = Append(journal, x)
    PROVE  TheBook!BookNext
<1> DEFINE op == OperationAt(journal', Len(journal) + 1)
<1>1. /\ op \notin BookOperations(journal)
      /\ BookOperations(journal') = BookOperations(journal) \cup {op}
    BY BookGains
<1>2. journal'[Len(journal) + 1] = x
    BY Appended DEF JournalOK
<1>3. TheBook!Conserves(op)
  <2>1. SoundTransaction(x, accts, C)
      BY DEF MayFollow
  <2>2. op.movement = [a \in LedgerAccounts |-> Delta(x, a)]
      BY <1>2 DEF OperationAt
  <2> HIDE DEF op
  <2> QED BY <2>1, <2>2, MovementsConserve
<1>4. Balances(journal') = [a \in LedgerAccounts |-> [d \in Dates |->
                               Balances(journal)[a][d] + TheBook!Effect(op, a, d)]]
  <2>1. ASSUME NEW a \in LedgerAccounts, NEW d \in Dates
        PROVE  BalanceAt(journal', a, d) =
                   Balances(journal)[a][d] + TheBook!Effect(op, a, d)
    <3>1. Balances(journal')[a][d] = Balances(journal)[a][d] + Counted(x, a, d)
        BY BalancesMove
    <3>2. TheBook!Effect(OperationAt(journal', Len(journal) + 1), a, d)
              = Counted(journal'[Len(journal) + 1], a, d)
        BY ONLY EffectIs, a \in LedgerAccounts
    <3> QED BY <1>2, <3>1, <3>2 DEF Balances
  <2> HIDE DEF op
  <2> QED BY <2>1 DEF Balances
<1>5. TheBook!Record(op)
  <2> HIDE DEF op
  <2> QED BY <1>1, <1>3, <1>4, BookState
          DEF TheBook!Record, BookOperations, BookOperation, OperationAt, Balances
<1> HIDE DEF op
<1>6. op \in BookOperations(journal') \ BookOperations(journal)
    BY <1>1
<1>7. BookOperations(journal') = {BookOperation(i) : i \in Live(journal)}'
    BY DEF BookOperations, BookOperation, OperationAt
<1>8. \E o \in {BookOperation(i) : i \in Live(journal)}' \ {BookOperation(i) : i \in Live(journal)} :
          TheBook!Record(o)
    BY <1>5, <1>6, <1>7, BookState
<1> QED BY <1>8 DEF TheBook!BookNext

\* Posting a reversal deletes the original's operation from the book.
LEMMA ReversalDeletes ==
    ASSUME NEW accts, NEW C, NEW K, NEW x \in TransactionsWith(K),
           JournalOK(journal, accts, C, K), MayFollow(x, journal, accts, C),
           x.type = "REVERSAL", journal' = Append(journal, x)
    PROVE  TheBook!BookNext
<1> DEFINE t == x.reverses
           op == OperationAt(journal, t)
<1>1. /\ op \in BookOperations(journal)
      /\ BookOperations(journal') = BookOperations(journal) \ {op}
    BY BookLoses
<1>2. Balances(journal') = [a \in LedgerAccounts |-> [d \in Dates |->
                               Balances(journal)[a][d] - TheBook!Effect(op, a, d)]]
  <2>1. ASSUME NEW a \in LedgerAccounts, NEW d \in Dates
        PROVE  BalanceAt(journal', a, d) =
                   Balances(journal)[a][d] - TheBook!Effect(op, a, d)
    <3>1. /\ Balances(journal)[a][d] \in Int
          /\ Balances(journal')[a][d] = Balances(journal)[a][d] + Counted(x, a, d)
        BY BalancesMove
    <3>2. TheBook!Effect(op, a, d) = Counted(journal[t], a, d)
        BY EffectIs
    <3>3. /\ Counted(x, a, d) = -Counted(journal[t], a, d)
          /\ Counted(journal[t], a, d) \in Int
        BY CountedBack
    <3>4. Balances(journal')[a][d] = BalanceAt(journal', a, d)
        BY DEF Balances
    <3> HIDE DEF op, t
    <3> QED BY <3>1, <3>2, <3>3, <3>4
  <2> HIDE DEF op
  <2> QED BY <2>1 DEF Balances
<1> HIDE DEF op
<1>3. BookOperations(journal') = {BookOperation(i) : i \in Live(journal)}'
    BY DEF BookOperations, BookOperation, OperationAt
<1>4. TheBook!Delete(op)
    BY <1>1, <1>2, BookState
    DEF TheBook!Delete, BookOperations, BookOperation, OperationAt, Balances
<1>5. op \in BookOperations(journal) \ BookOperations(journal')
    BY <1>1
<1>6. \E o \in {BookOperation(i) : i \in Live(journal)} \ {BookOperation(i) : i \in Live(journal)}' :
          TheBook!Delete(o)
    BY <1>3, <1>4, <1>5, BookState
<1> QED BY <1>6 DEF TheBook!BookNext

\* Posting a reversal and then an operation, which no reader sees apart, edits
\* the original's operation.
LEMMA CorrectionEdits ==
    ASSUME NEW accts, NEW C, NEW K, NEW x \in TransactionsWith(K),
           NEW y \in TransactionsWith(K), NEW m,
           JournalOK(journal, accts, C, K), MayFollow(x, journal, accts, C),
           x.type = "REVERSAL", m = Append(journal, x),
           MayFollow(y, m, accts, C), y.type # "REVERSAL", journal' = Append(m, y)
    PROVE  TheBook!BookNext
<1> DEFINE t == x.reverses
           old == OperationAt(journal, t)
           new == OperationAt(journal', Len(m) + 1)
<1>1. /\ old \in BookOperations(journal)
      /\ BookOperations(m) = BookOperations(journal) \ {old}
    BY BookLoses
<1>2. JournalOK(m, accts, C, K)
    BY JournalGrows
<1>3. /\ new \notin BookOperations(m)
      /\ BookOperations(journal') = BookOperations(m) \cup {new}
    BY <1>2, BookGains
<1>4. /\ journal'[Len(m) + 1] = y
      /\ Len(m) = Len(journal) + 1 /\ DOMAIN journal = 1 .. Len(journal)
      /\ Len(journal) \in Nat
    BY <1>2, Appended DEF JournalOK
<1>5. new \notin BookOperations(journal)
  <2>1. \A i \in Live(journal) : i # Len(m) + 1
      BY <1>4 DEF Live
  <2> QED BY <2>1 DEF BookOperations, OperationAt
<1>6. TheBook!Conserves(new)
  <2>1. SoundTransaction(y, accts, C)
      BY DEF MayFollow
  <2>2. new.movement = [a \in LedgerAccounts |-> Delta(y, a)]
      BY <1>4 DEF OperationAt
  <2> HIDE DEF new
  <2> QED BY <2>1, <2>2, MovementsConserve
<1>7. Balances(journal') = [a \in LedgerAccounts |-> [d \in Dates |->
          Balances(journal)[a][d] - TheBook!Effect(old, a, d) + TheBook!Effect(new, a, d)]]
  <2>1. ASSUME NEW a \in LedgerAccounts, NEW d \in Dates
        PROVE  BalanceAt(journal', a, d) = Balances(journal)[a][d]
                   - TheBook!Effect(old, a, d) + TheBook!Effect(new, a, d)
    <3>1. /\ Balances(journal)[a][d] \in Int
          /\ Balances(m)[a][d] = Balances(journal)[a][d] + Counted(x, a, d)
        BY BalancesMove
    <3>2. /\ Counted(y, a, d) \in Int
          /\ Balances(journal')[a][d] = Balances(m)[a][d] + Counted(y, a, d)
        BY <1>2, BalancesMove
    <3>3. TheBook!Effect(old, a, d) = Counted(journal[t], a, d)
        BY EffectIs
    <3>4. TheBook!Effect(new, a, d) = Counted(y, a, d)
      <4>1. TheBook!Effect(new, a, d) = Counted(journal'[Len(m) + 1], a, d)
          BY DEF TheBook!Effect, OperationAt, Counted
      <4> QED BY <1>4, <4>1
    <3>5. /\ Counted(x, a, d) = -Counted(journal[t], a, d)
          /\ Counted(journal[t], a, d) \in Int
        BY CountedBack
    <3>6. Balances(journal')[a][d] = BalanceAt(journal', a, d)
        BY DEF Balances
    <3> HIDE DEF old, new, t
    <3> QED BY <3>1, <3>2, <3>3, <3>4, <3>5, <3>6
  <2> HIDE DEF old, new
  <2> QED BY <2>1 DEF Balances
<1> HIDE DEF old, new
<1>8. BookOperations(journal') = {BookOperation(i) : i \in Live(journal)}'
    BY DEF BookOperations, BookOperation, OperationAt
<1>9. BookOperations(journal') = (BookOperations(journal) \ {old}) \cup {new}
    BY <1>1, <1>3
<1>10. TheBook!Edit(old, new)
    BY <1>1, <1>5, <1>6, <1>7, <1>9, BookState
    DEF TheBook!Edit, BookOperations, BookOperation, OperationAt, Balances
<1>11. /\ old \in BookOperations(journal) \ BookOperations(journal')
       /\ new \in BookOperations(journal') \ BookOperations(journal)
    BY <1>1, <1>3, <1>5, <1>9
<1>12. \E o \in {BookOperation(i) : i \in Live(journal)} \ {BookOperation(i) : i \in Live(journal)}',
          n \in {BookOperation(i) : i \in Live(journal)}' \ {BookOperation(i) : i \in Live(journal)} :
          TheBook!Edit(o, n)
    BY <1>8, <1>10, <1>11, BookState
<1> QED BY <1>12 DEF TheBook!BookNext

\* What a step leaves of the journal is what it leaves of the book.
LEMMA BookStays ==
    ASSUME UNCHANGED journal
    PROVE  UNCHANGED TheBook!bookVars
<1>1. {BookOperation(i) : i \in Live(journal)}' = {BookOperation(i) : i \in Live(journal)}
    BY DEF BookOperation
<1>2. [a \in LedgerAccounts |-> [d \in Dates |-> BalanceAt(journal, a, d)]]'
      = [a \in LedgerAccounts |-> [d \in Dates |-> BalanceAt(journal, a, d)]]
    OBVIOUS
<1> QED BY <1>1, <1>2 DEF TheBook!bookVars

\* One posting records or deletes an operation, or changes nothing.
LEMMA OnePostingInBook ==
    ASSUME NEW accts, NEW C, NEW K, NEW P, P \subseteq TransactionsWith(K),
           JournalOK(journal, accts, C, K), Posted(journal, journal', accts, C, P)
    PROVE  [TheBook!BookNext]_(TheBook!bookVars)
<1>1. ASSUME NEW x \in P, MayFollow(x, journal, accts, C), journal' = Append(journal, x)
      PROVE  TheBook!BookNext
    BY <1>1, PostingRecords, ReversalDeletes
<1> QED BY <1>1, BookStays DEF Posted

\* Every handler makes at most one step of the book.
LEMMA HandlerStepsInBook ==
    ASSUME NEW C, NEW K, AllKeys \subseteq K, HandlerEffect(C, K)
    PROVE  [TheBook!BookNext]_(TheBook!bookVars)
<1> DEFINE P == LedgerPostings(accounts')
<1>1. JournalOK(journal, accounts', C, K) /\ P \subseteq TransactionsWith(K)
    BY LedgerPostingsTyped DEF HandlerEffect
<1>2. PICK m : /\ Posted(journal, m, accounts', C, P)
               /\ Posted(m, journal', accounts', C, P)
               /\ CorrectsBy(journal, m, journal')
    BY DEF HandlerEffect
<1> HIDE DEF P
<1>3. CASE m = journal \/ journal' = m
    BY <1>1, <1>2, <1>3, OnePostingInBook
<1>4. CASE m # journal /\ journal' # m
  <2>1. PICK x \in P : MayFollow(x, journal, accounts', C) /\ m = Append(journal, x)
      BY <1>2, <1>4 DEF Posted
  <2>2. PICK y \in P : MayFollow(y, m, accounts', C) /\ journal' = Append(m, y)
      BY <1>2, <1>4 DEF Posted
  <2>3. JournalOK(m, accounts', C, K)
      BY <1>1, <1>2, PostedKeepsJournal
  <2>4. x.type = "REVERSAL"
    <3>1. /\ m[Len(journal) + 1] = x
          /\ Len(journal) + 1 \in DOMAIN m \ DOMAIN journal
        BY <1>1, <2>1, Appended DEF JournalOK
    <3> QED BY <1>2, <1>4, <3>1 DEF CorrectsBy
  <2>5. y.type # "REVERSAL"
    <3>1. /\ journal'[Len(m) + 1] = y
          /\ Len(m) + 1 \in DOMAIN journal' \ DOMAIN m
        BY <1>1, <2>2, <2>3, Appended DEF JournalOK
    <3> QED BY <1>2, <1>4, <3>1 DEF CorrectsBy
  <2> QED BY <1>1, <2>1, <2>2, <2>4, <2>5, CorrectionEdits
<1> QED BY <1>3, <1>4

\* A fresh user's journal is an empty book.
LEMMA BookStartsEmpty == Init => TheBook!BookInit
<1> SUFFICES ASSUME journal = <<>> PROVE TheBook!BookInit
    BY DEF Init
<1>1. {BookOperation(i) : i \in Live(journal)} = {}
    BY DEF Live
<1>2. \A a \in LedgerAccounts, d \in Dates : BalanceAt(journal, a, d) = 0
  <2> SUFFICES ASSUME NEW a \in LedgerAccounts, NEW d \in Dates
               PROVE  BalanceAt(journal, a, d) = 0
      OBVIOUS
  <2> DEFINE I == UpTo(journal, d)
  <2>1. BalanceAt(journal, a, d) = Moved(journal, a, I)
      BY DEF BalanceAt, Moved, UpTo
  <2>2. I = {} /\ I \subseteq DOMAIN journal
      BY DEF UpTo
  <2>3. journal \in Seq({}) /\ DeltasOf(journal, a)
      BY DEF DeltasOf
  <2> HIDE DEF I
  <2> QED BY <2>1, <2>2, <2>3, MovedType
<1> QED BY <1>1, <1>2 DEF TheBook!BookInit

\* The append-only journal implements the book of module Book for any accounts,
\* currencies, dates and keys: each handler, whatever keys it is sent, records,
\* deletes or edits at most one operation, conserves money, and moves every
\* balance at every date by exactly that change.
THEOREM JournalIsABook == Spec => ImplementsBook
<1>1. ASSUME IInv, Next
      PROVE  [TheBook!BookNext]_(TheBook!bookVars)
  <2> DEFINE C == {functional'}
  <2>1. HandlerEffect(C, AllKeys)
      BY <1>1, NextKeepsLedger DEF IInv, LedgerInv
  <2> HIDE DEF C
  <2> QED BY <2>1, HandlerStepsInBook
<1>2. ASSUME UNCHANGED ledgerVars
      PROVE  UNCHANGED TheBook!bookVars
    BY <1>2, BookStays DEF ledgerVars
<1>3. IInv /\ [Next]_ledgerVars => [TheBook!BookNext]_(TheBook!bookVars)
    BY <1>1, <1>2
<1> QED BY <1>3, BookStartsEmpty, Invariance, PTL DEF Spec, ImplementsBook, TheBook!BookSpec
=============================================================================
