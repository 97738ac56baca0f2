------------------------------- MODULE Ledger -------------------------------
(***************************************************************************)
(* The immutable double-entry ledger of one user: accounts, categories,    *)
(* the posted journal and the handlers that write to them                  *)
(* (internal/httpapi/ledger.go, onboarding.go, profile.go, and the         *)
(* constraints of db/migrations/000004_ledger_cashflow.up.sql).            *)
(*                                                                         *)
(* Every handler runs in one SERIALIZABLE PostgreSQL transaction, so one   *)
(* handler is one action.  An error path rolls the transaction back and    *)
(* leaves the state as it was: a refused request is an action that is not  *)
(* enabled.  All rows are filtered by user_id, and idempotency keys are    *)
(* unique per user, so one user is the whole state.                        *)
(*                                                                         *)
(* Backstops left out on purpose: the triggers that re-check the balance   *)
(* of a transaction (204-273), its archived dependencies (297-330) and the *)
(* two currency locks (332-371).  The handlers check the same things       *)
(* themselves, and the invariants below show that this is enough. Modelled *)
(* because handlers do rely on them: the foreign key on (account,          *)
(* currency), the unique indexes, and the functional-currency trigger in   *)
(* CompleteOnboarding, which checks nothing of the kind itself.            *)
(***************************************************************************)
EXTENDS Integers, Sequences, FiniteSets, FiniteSetsExt

CONSTANTS
    UserAccounts,     \* ids of ledger_accounts rows with role USER
    Categories,       \* ids of categories; a category owns one ledger account
    Currencies,       \* supported currencies
    DefaultCurrency,  \* functional currency of a freshly registered user
    Amounts,          \* positive amounts, in units of 10^-8
    Dates,            \* event dates, as day numbers
    Keys,             \* idempotency keys a client may send
    AccountClasses,   \* classes a client may give a new account (bound)
    OperationTypes,   \* types of typed operation a client sends (bound)
    UniqueKeys,       \* TRUE: no client uses one key for two requests
    MaxJournal        \* bound on the length of the journal

SystemAccounts ==
    {"OPENING_EQUITY", "UNREALIZED_GAIN_LOSS", "OTHER_INCOME", "OTHER_EXPENSE"}

LedgerAccounts == UserAccounts \cup Categories \cup SystemAccounts

Directions == {"INCOME", "EXPENSE"}

TypedOperations ==
    {"OPENING_BALANCE", "INCOME", "EXPENSE", "TRANSFER", "ASSET_PURCHASE"}

TransactionTypes ==
    TypedOperations \cup {"RECONCILIATION", "REVALUATION", "REVERSAL"}

ASSUME LedgerConstants ==
    /\ UserAccounts \cap Categories = {}
    /\ UserAccounts \cap SystemAccounts = {}
    /\ Categories \cap SystemAccounts = {}
    /\ DefaultCurrency \in Currencies
    /\ "NONE" \notin Currencies
    /\ Amounts \subseteq Nat \ {0}
    /\ Dates \subseteq Nat
    /\ AccountClasses \subseteq {"ASSET", "LIABILITY"}
    /\ OperationTypes \subseteq TypedOperations
    /\ UniqueKeys \in BOOLEAN
    /\ MaxJournal \in Nat

\* The tables that sums run over are finite.
ASSUME FiniteAccounts == IsFiniteSet(UserAccounts) /\ IsFiniteSet(Categories)

VARIABLES
    functional,   \* users.functional_currency
    onboarded,    \* users.onboarding_completed
    accounts,     \* ledger_accounts, joined with categories
    journal       \* posted ledger_transactions with their ledger_entries

ledgerVars == <<functional, onboarded, accounts, journal>>

(***************************************************************************)
(* Rows.  An id that was never inserted is Absent.  A category and its     *)
(* ledger account are inserted together and only the category is ever      *)
(* archived, so one row stands for both.  Names are left out: a clash of   *)
(* names only refuses a request.                                           *)
(***************************************************************************)
Absent == [status |-> "absent", class |-> "NONE", currency |-> "NONE"]

\* Mutant: the currency is forgotten.
RowWithoutCurrency(class, currency) ==
    [status |-> "active", class |-> class, currency |-> "NONE"]

Row(class, currency) ==
    [status |-> "active", class |-> class, currency |-> currency]

SystemClass(code) ==
    CASE code = "OTHER_INCOME"  -> "INCOME"
      [] code = "OTHER_EXPENSE" -> "EXPENSE"
      [] OTHER                  -> "EQUITY"

IsActive(accts, a) == accts[a].status = "active"

(***************************************************************************)
(* The journal.  A transaction's id is its position; 0 is SQL NULL in      *)
(* reverses and replaces.  Keys the server draws itself are tuples, which  *)
(* no client key equals.                                                   *)
(***************************************************************************)
Entry(a, amount, currency) ==
    [account |-> a, amount |-> amount, currency |-> currency]

JournalSpec(type, date, key, reverses, replaces, entries) ==
    [type |-> type, date |-> date, key |-> key,
     reverses |-> reverses, replaces |-> replaces, entries |-> entries]

KeyUsed(j, key) == \E i \in DOMAIN j : j[i].key = key

HasPostings(j, a) ==
    \E i \in DOMAIN j : \E n \in DOMAIN j[i].entries :
        j[i].entries[n].account = a

ReversedBy(j, t) == {i \in DOMAIN j : j[i].reverses = t}

\* What a transaction moves on account a.
Delta(transaction, a) ==
    MapThenSumSet(LAMBDA n : transaction.entries[n].amount,
                  {n \in DOMAIN transaction.entries :
                      transaction.entries[n].account = a})

\* SUM(functional_amount) of the postings on a up to and including a date.
BalanceAt(j, a, date) ==
    MapThenSumSet(LAMBDA i : Delta(j[i], a),
                  {i \in DOMAIN j : j[i].date <= date})

(***************************************************************************)
(* postJournal.  An existing key returns the transaction that has it,      *)
(* whatever that transaction is; otherwise the insert passes the foreign   *)
(* key on (account, currency) and the unique indexes, or fails.            *)
(***************************************************************************)
Accepted(j, accts, spec) ==
    \/ KeyUsed(j, spec.key)
    \/ /\ Len(j) < MaxJournal
       /\ \A n \in DOMAIN spec.entries :
             accts[spec.entries[n].account].currency = spec.entries[n].currency
       /\ spec.reverses # 0 => ReversedBy(j, spec.reverses) = {}
       /\ spec.replaces # 0 =>
             \A i \in DOMAIN j : j[i].replaces # spec.replaces

PostJournal(j, spec) == IF KeyUsed(j, spec.key) THEN j ELSE Append(j, spec)

(***************************************************************************)
(* ensureLedgerInfrastructure: the system accounts are upserted (a row     *)
(* that exists keeps its currency), and a General category is created for  *)
(* each direction without an active one.  The value is the set of possible *)
(* results, one per choice of new category ids.                            *)
(***************************************************************************)
Lacking(accts) ==
    {d \in Directions :
        \A c \in Categories : IsActive(accts, c) => accts[c].class # d}

\* The test ensureLedger makes before it opens a transaction.  Its other two
\* conditions, no set-up of an account or an income that is not yet posted, always
\* hold: CompleteOnboarding stores and posts the set-ups in one transaction, and
\* only rows older than migration 000004 could be waiting.
LedgerReady(accts) ==
    accts["OPENING_EQUITY"].status # "absent" /\ Lacking(accts) = {}

EnsureLedgerInfrastructure(accts, currency) ==
    LET lacking == Lacking(accts)
        unused  == {c \in Categories : accts[c].status = "absent"}
        seeds   == {s \in [lacking -> unused] :
                       \A d, e \in lacking : s[d] = s[e] => d = e}
    IN  IF LedgerReady(accts) THEN {accts} ELSE
        {[a \in LedgerAccounts |->
            IF a \in SystemAccounts /\ accts[a].status = "absent"
            THEN Row(SystemClass(a), currency)
            ELSE IF \E d \in lacking : seed[d] = a
                 THEN Row(CHOOSE d \in lacking : seed[d] = a, currency)
                 ELSE accts[a]] : seed \in seeds}

\* Mutant: only the account's leg of a liability is negated.
OpeningBalanceOneSided(a, class, currency, amount, date, key) ==
    LET signed == IF class = "LIABILITY" THEN -amount ELSE amount
    IN  JournalSpec("OPENING_BALANCE", date, key, 0, 0,
            <<Entry(a, signed, currency),
              Entry("OPENING_EQUITY", -amount, currency)>>)

\* An opening balance is signed; a liability is stored negated.
OpeningBalance(a, class, currency, amount, date, key) ==
    LET signed == IF class = "LIABILITY" THEN -amount ELSE amount
    IN  JournalSpec("OPENING_BALANCE", date, key, 0, 0,
            <<Entry(a, signed, currency),
              Entry("OPENING_EQUITY", -signed, currency)>>)

(***************************************************************************)
(* postTypedOperation.  An operation names its account (or source) and the *)
(* counterpart: the category, the destination, or the opening equity.      *)
(***************************************************************************)
LoadAccount(accts, currency, a) ==
    /\ a \in UserAccounts
    /\ IsActive(accts, a)
    /\ accts[a].currency = currency

\* Mutant: an archived category is accepted.
LoadArchivedCategory(accts, c, direction) ==
    /\ c \in Categories
    /\ accts[c].class = direction

LoadCategory(accts, c, direction) ==
    /\ c \in Categories
    /\ IsActive(accts, c)
    /\ accts[c].class = direction

OperationLoads(accts, currency, op) ==
    /\ LoadAccount(accts, currency, op.account)
    /\ \/ /\ op.type = "OPENING_BALANCE"
          /\ op.counterpart = "OPENING_EQUITY"
       \/ /\ op.type \in Directions
          /\ accts[op.account].class = "ASSET"
          /\ LoadCategory(accts, op.counterpart, op.type)
       \/ /\ op.type \in {"TRANSFER", "ASSET_PURCHASE"}
          /\ LoadAccount(accts, currency, op.counterpart)
          /\ op.account # op.counterpart
          /\ accts[op.account].class = "ASSET"
          /\ accts[op.counterpart].class = "ASSET"

OperationAmount(accts, op) ==
    IF \/ op.type \in {"EXPENSE", "TRANSFER", "ASSET_PURCHASE"}
       \/ op.type = "OPENING_BALANCE" /\ accts[op.account].class = "LIABILITY"
    THEN -op.amount
    ELSE op.amount

TypedOperation(accts, currency, op, replaces) ==
    LET amount == OperationAmount(accts, op)
    IN  JournalSpec(op.type, op.date, op.key, 0, replaces,
            <<Entry(op.account, amount, currency),
              Entry(op.counterpart, -amount, currency)>>)

Operations ==
    [type : OperationTypes, account : UserAccounts,
     counterpart : UserAccounts \cup Categories \cup {"OPENING_EQUITY"},
     amount : Amounts, date : Dates, key : Keys]

(***************************************************************************)
(* postReversal.                                                           *)
(***************************************************************************)
\* Mutant: a reversal can be reversed.
AlsoReversible(j, t) == t \in DOMAIN j /\ ReversedBy(j, t) = {}

Reversible(j, t) ==
    /\ t \in DOMAIN j
    /\ j[t].type # "REVERSAL"
    /\ ReversedBy(j, t) = {}

Negated(entries) ==
    [n \in DOMAIN entries |-> [entries[n] EXCEPT !.amount = -@]]

\* Mutants: the link to the original is lost; the reversal is dated later.
UnlinkedReversal(j, t, key) ==
    JournalSpec("REVERSAL", j[t].date, key, 0, 0, Negated(j[t].entries))

LateReversal(j, t, key) ==
    JournalSpec("REVERSAL", Max(Dates), key, t, 0, Negated(j[t].entries))

ReversalOf(j, t, key) ==
    JournalSpec("REVERSAL", j[t].date, key, t, 0, Negated(j[t].entries))

-----------------------------------------------------------------------------
(***************************************************************************)
(* Handlers.                                                               *)
(***************************************************************************)
Init ==
    /\ functional = DefaultCurrency
    /\ onboarded = FALSE
    /\ accounts = [a \in LedgerAccounts |-> Absent]
    /\ journal = <<>>

OpeningAmounts == {0} \cup Amounts \cup {-x : x \in Amounts}

\* Inserts account a into base and posts its opening balance, if it has one.
OpenAccount(base, a, class, currency, amount, date, key, functionalCurrency) ==
    LET opened == [base EXCEPT ![a] = Row(class, currency)]
        spec   == OpeningBalance(a, class, currency, amount, date, key)
    IN  /\ base[a].status = "absent"
        /\ accounts' = opened
        /\ \/ amount = 0 /\ UNCHANGED journal
           \/ /\ amount # 0
              /\ currency = functionalCurrency
              /\ Accepted(journal, opened, spec)
              /\ journal' = PostJournal(journal, spec)

\* setupID, the key of the onboarding opening balance, is a fresh uuid.
CompleteOnboarding(newCurrency, a, class, currency, amount, date) ==
    /\ ~onboarded
    /\ newCurrency # functional => journal = <<>>
    /\ onboarded' = TRUE
    /\ functional' = newCurrency
    /\ \E base \in EnsureLedgerInfrastructure(accounts, newCurrency) :
          OpenAccount(base, a, class, currency, amount, date,
                      <<"setup", a>>, newCurrency)

\* Without a key in the request the server draws a fresh one.
CreateAccount(a, class, currency, amount, date, key) ==
    /\ \E base \in EnsureLedgerInfrastructure(accounts, functional) :
          OpenAccount(base, a, class, currency, amount, date, key, functional)
    /\ UNCHANGED <<functional, onboarded>>

\* Mutant: the currency lock is missing.
UpdateAccountUnlocked(a, currency, status) ==
    /\ accounts[a].status # "absent"
    /\ accounts' = [accounts EXCEPT
          ![a] = [status |-> status, class |-> @.class, currency |-> currency]]
    /\ UNCHANGED <<functional, onboarded, journal>>

\* A field that the request leaves out keeps its value.
UpdateAccount(a, currency, status) ==
    /\ accounts[a].status # "absent"
    /\ currency # accounts[a].currency => ~HasPostings(journal, a)
    /\ accounts' = [accounts EXCEPT
          ![a] = [status |-> status, class |-> @.class, currency |-> currency]]
    /\ UNCHANGED <<functional, onboarded, journal>>

CreateCategory(c, direction) ==
    /\ \E base \in EnsureLedgerInfrastructure(accounts, functional) :
          /\ base[c].status = "absent"
          /\ accounts' = [base EXCEPT ![c] = Row(direction, functional)]
    /\ UNCHANGED <<functional, onboarded, journal>>

UpdateCategory(c, status) ==
    /\ accounts[c].status # "absent"
    /\ accounts' = [accounts EXCEPT ![c].status = status]
    /\ UNCHANGED <<functional, onboarded, journal>>

\* The reads that call ensureLedger first: accounts, categories, transactions,
\* templates, reconciliation status, assets and the dashboard.
EnsureLedger ==
    /\ ~LedgerReady(accounts)
    /\ accounts' \in EnsureLedgerInfrastructure(accounts, functional)
    /\ UNCHANGED <<functional, onboarded, journal>>

CreateTransaction(op) ==
    /\ \E base \in EnsureLedgerInfrastructure(accounts, functional) :
          LET spec == TypedOperation(base, functional, op, 0)
          IN  /\ OperationLoads(base, functional, op)
              /\ Accepted(journal, base, spec)
              /\ accounts' = base
              /\ journal' = PostJournal(journal, spec)
    /\ UNCHANGED <<functional, onboarded>>

ReverseTransaction(t, key) ==
    /\ Reversible(journal, t)
    /\ Accepted(journal, accounts, ReversalOf(journal, t, key))
    /\ journal' = PostJournal(journal, ReversalOf(journal, t, key))
    /\ UNCHANGED <<functional, onboarded, accounts>>

\* The reversal and the replacement are posted in one database transaction.
\* With UniqueKeys no request carries a key that another request has used.
ReplaceTransaction(t, reversalKey, op) ==
    LET reversal    == ReversalOf(journal, t, reversalKey)
        reversed    == PostJournal(journal, reversal)
        replacement == TypedOperation(accounts, functional, op, t)
    IN  /\ Reversible(journal, t)
        /\ UniqueKeys => /\ ~KeyUsed(journal, reversalKey)
                         /\ ~KeyUsed(journal, op.key)
                         /\ reversalKey # op.key
        /\ Accepted(journal, accounts, reversal)
        /\ OperationLoads(accounts, functional, op)
        /\ Accepted(reversed, accounts, replacement)
        /\ journal' = PostJournal(reversed, replacement)
        /\ UNCHANGED <<functional, onboarded, accounts>>

UpdateUserSettings(currency) ==
    /\ currency # functional => journal = <<>>
    /\ functional' = currency
    /\ UNCHANGED <<onboarded, accounts, journal>>

Next ==
    \/ \E cur, c \in Currencies, a \in UserAccounts, class \in AccountClasses,
          x \in OpeningAmounts, d \in Dates :
          CompleteOnboarding(cur, a, class, c, x, d)
    \/ \E a \in UserAccounts, class \in AccountClasses, c \in Currencies,
          x \in OpeningAmounts, d \in Dates :
          \E k \in Keys \cup {<<"fresh", a>>} : CreateAccount(a, class, c, x, d, k)
    \/ \E a \in UserAccounts, c \in Currencies, s \in {"active", "archived"} :
          UpdateAccount(a, c, s)
    \/ \E c \in Categories, d \in Directions : CreateCategory(c, d)
    \/ \E c \in Categories, s \in {"active", "archived"} : UpdateCategory(c, s)
    \/ EnsureLedger
    \/ \E op \in Operations : CreateTransaction(op)
    \/ \E t \in DOMAIN journal, k \in Keys : ReverseTransaction(t, k)
    \/ \E t \in DOMAIN journal, k \in Keys, op \in Operations :
          ReplaceTransaction(t, k, op)
    \/ \E c \in Currencies : UpdateUserSettings(c)

Spec == Init /\ [][Next]_ledgerVars

-----------------------------------------------------------------------------
(***************************************************************************)
(* Properties.                                                             *)
(***************************************************************************)
AllKeys == Keys \cup ({"setup", "fresh"} \X UserAccounts)

Rows ==
    {Absent} \cup
    [status : {"active", "archived"},
     class : {"ASSET", "LIABILITY", "EQUITY", "INCOME", "EXPENSE"},
     currency : Currencies]

Entries == [account : LedgerAccounts, amount : Int, currency : Currencies]

Transactions ==
    [type : TransactionTypes, date : Nat, key : AllKeys,
     reverses : Nat, replaces : Nat, entries : Seq(Entries)]

\* Every variable keeps its type: rows, entries and journal are well formed
\* after every handler of ledger.go, onboarding.go and profile.go.
TypeOK ==
    /\ functional \in Currencies
    /\ onboarded \in BOOLEAN
    /\ accounts \in [LedgerAccounts -> Rows]
    /\ journal \in Seq(Transactions)

\* Every posted transaction has two non-zero legs on two different existing
\* accounts that cancel, so the deferred trigger verify_ledger_transaction_row
\* never has anything to reject.
Balanced ==
    \A i \in DOMAIN journal :
        LET e == journal[i].entries
        IN  /\ Len(e) = 2
            /\ e[1].amount # 0
            /\ e[1].amount + e[2].amount = 0
            /\ e[1].account # e[2].account
            /\ \A n \in {1, 2} : accounts[e[n].account].status # "absent"

\* Exactly the transactions of type REVERSAL point at an original; the original
\* is an earlier transaction that is no reversal itself, no other reversal
\* points at it, and the reversal carries its date and its negated entries
\* (postReversal).  The reversal is thus invisible at every balance date.
ReversalsCancel ==
    /\ \A i \in DOMAIN journal :
          /\ journal[i].type = "REVERSAL" <=> journal[i].reverses # 0
          /\ journal[i].type = "REVERSAL" =>
                LET t == journal[i].reverses
                IN  /\ t \in 1 .. i - 1
                    /\ journal[t].type # "REVERSAL"
                    /\ journal[i].date = journal[t].date
                    /\ journal[i].entries = Negated(journal[t].entries)
    /\ \A i, k \in DOMAIN journal :
          journal[i].reverses = journal[k].reverses /\ journal[i].reverses # 0
          => i = k

\* A transaction that a correction replaces no longer counts: it has been
\* reversed (ReplaceTransaction), so the corrected amount is never counted
\* together with the wrong one.
ReplacedIsReversed ==
    \A i \in DOMAIN journal :
        journal[i].replaces # 0 => ReversedBy(journal, journal[i].replaces) # {}

\* Every entry ever posted is still in the currency of its account and in the
\* functional currency, whatever the user has changed since: the sums over
\* functional_amount that the application shows never mix currencies
\* (UpdateAccount, UpdateUserSettings and CompleteOnboarding).
CurrencyLocked ==
    \A i \in DOMAIN journal : \A n \in DOMAIN journal[i].entries :
        LET e == journal[i].entries[n]
        IN  e.currency = functional /\ e.currency = accounts[e.account].currency

\* Transactions that count: neither a reversal nor reversed.
Live(j) == {i \in DOMAIN j : j[i].type # "REVERSAL" /\ ReversedBy(j, i) = {}}

Touches(transaction, a) ==
    \E n \in DOMAIN transaction.entries : transaction.entries[n].account = a

\* No step lets a new transaction count on an account or category that is
\* archived; what is already posted there can only be reversed away
\* (postTypedOperation's loadAccount and loadCategory, also in a correction).
ArchivedStaysClosed ==
    [][\A a \in LedgerAccounts : accounts[a].status = "archived" =>
          \A i \in Live(journal') \ Live(journal) : ~Touches(journal'[i], a)
      ]_ledgerVars
=============================================================================
