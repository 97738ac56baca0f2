------------------------------- MODULE Assets -------------------------------
(***************************************************************************)
(* Manually valued assets (internal/httpapi/assets.go and                  *)
(* db/migrations/000006_assets_valuations.up.sql).                         *)
(*                                                                         *)
(* An asset owns one ledger account.  A valuation states what the asset is *)
(* worth at a date; the difference to the ledger balance at that date is   *)
(* posted as a REVALUATION.  Both handlers that write are one SERIALIZABLE *)
(* transaction.  The ledger account remains an ordinary account: every     *)
(* handler of the ledger may post to it, correct what is posted, archive   *)
(* it or restore it.                                                       *)
(*                                                                         *)
(* CreateAssetValuation does not look at the account's archived_at, so the *)
(* trigger that keeps entries off archived accounts is modelled here.      *)
(* Names, types, places and notes are left out.                            *)
(***************************************************************************)
EXTENDS Ledger

CONSTANTS
    AssetIds,        \* ids of assets rows
    MarketValues,    \* market values a client reports, in units of 10^-8
    Shares,          \* ownership shares, in hundredths of a percent
    MaxValuations    \* bound on the valuations ever recorded

ASSUME AssetConstants ==
    /\ MarketValues \subseteq Nat
    /\ MaxValuations \in Nat

\* More than nothing and not more than the whole (ownershipSharePattern, CHECK).
ASSUME ShareConstants == Shares \subseteq 1 .. 10000

\* The keys that the server derives from the id of an asset are no client's.
ASSUME DerivedKeys ==
    \A x \in AssetIds :
        /\ <<"asset-purchase", x>> \notin Keys
        /\ \A k \in Keys : <<"asset-revaluation", x, k>> \notin Keys

VARIABLES
    assets,       \* assets
    valuations    \* asset_valuations, in order of creation

assetVars == <<functional, onboarded, accounts, journal, assets, valuations>>

(***************************************************************************)
(* Rows.  0 is SQL NULL in purchase and transaction.                       *)
(***************************************************************************)
NoAsset ==
    [status |-> "absent", account |-> "NONE", currency |-> "NONE", share |-> 0,
     key |-> "NONE", purchase |-> 0]

AssetExists(x) == assets[x].status # "absent"

\* The unique index on ledger_account_id.
AccountFree(a) == \A x \in AssetIds : assets[x].account # a

AssetKeyUsed(key) == \E x \in AssetIds : AssetExists(x) /\ assets[x].key = key

ValuationKeyUsed(key) == \E i \in DOMAIN valuations : valuations[i].key = key

ValuationsOf(x) == {i \in DOMAIN valuations : valuations[i].asset = x}

\* ORDER BY valuation_date DESC, created_at DESC LIMIT 1.
LatestValuation(x) ==
    CHOOSE i \in ValuationsOf(x) : \A k \in ValuationsOf(x) :
        \/ valuations[k].date < valuations[i].date
        \/ valuations[k].date = valuations[i].date /\ k <= i

Valued(x) == ValuationsOf(x) # {}

\* Mutant: the share is taken for a percentage.
OwnedByPercentage(market, share) == (market * share + 50) \div 100

\* round(market * share / 100, 8): halves are rounded away from zero, and no
\* value is negative.
OwnedValue(market, share) == (market * share + 5000) \div 10000

(***************************************************************************)
(* The trigger prevent_archived_ledger_dependencies.                       *)
(***************************************************************************)
\* Mutant: the trigger is not there.
NoDependencies(accts, spec) == TRUE

ActiveDependencies(accts, spec) ==
    \A n \in DOMAIN spec.entries : accts[spec.entries[n].account].status # "archived"

\* SUM(original_amount) of all postings on an account.
TotalBalance(j, a) == MapThenSumSet(LAMBDA i : Delta(j[i], a), DOMAIN j)

\* Mutant: the date is left out.
CurrentBalance(j, a, date) == TotalBalance(j, a)

\* accountBalanceAt.
AccountBalanceAt(j, a, date) == BalanceAt(j, a, date)

-----------------------------------------------------------------------------
(***************************************************************************)
(* Handlers.                                                               *)
(***************************************************************************)
AssetsInit ==
    /\ Init
    /\ assets = [x \in AssetIds |-> NoAsset]
    /\ valuations = <<>>

\* The account of a new asset: an active asset account in the functional
\* currency that the client names, or a new one.
AccountForAsset(base, a) ==
    \/ /\ base[a].status = "absent"
       /\ accounts' = [base EXCEPT ![a] = Row("ASSET", functional)]
    \/ /\ IsActive(base, a)
       /\ base[a].class = "ASSET"
       /\ base[a].currency = functional
       /\ accounts' = base

\* Mutant: the money leaves the source and does not arrive.
LostPurchase(x, source, a, purchase) ==
    JournalSpec("ASSET_PURCHASE", purchase.date, <<"asset-purchase", x>>, 0, 0,
        <<Entry(source, -purchase.amount, functional)>>)

PurchaseOf(x, source, a, purchase) ==
    JournalSpec("ASSET_PURCHASE", purchase.date, <<"asset-purchase", x>>, 0, 0,
        <<Entry(source, -purchase.amount, functional),
          Entry(a, purchase.amount, functional)>>)

SourceLoads(accts, source, a) ==
    /\ LoadAccount(accts, functional, source)
    /\ source # a
    /\ accts[source].class = "ASSET"

\* Mutant: a retried request makes another asset.
AnyAssetKey(key) == TRUE

FreshAssetKey(key) == ~AssetKeyUsed(key)

\* purchase.source is "NONE" in a request without a purchase.
CreateAsset(x, a, share, key, purchase) ==
    /\ assets[x].status = "absent"
    /\ FreshAssetKey(key)
    /\ AccountFree(a)
    /\ \E base \in EnsureLedgerInfrastructure(accounts, functional) :
          AccountForAsset(base, a)
    /\ LET bought == purchase.source # "NONE"
           spec   == PurchaseOf(x, purchase.source, a, purchase)
       IN  /\ bought => /\ SourceLoads(accounts', purchase.source, a)
                        /\ Accepted(journal, accounts', spec)
           /\ journal' = IF bought THEN PostJournal(journal, spec) ELSE journal
           /\ assets' = [assets EXCEPT ![x] =
                 [status |-> "active", account |-> a, currency |-> functional,
                  share |-> share, key |-> key,
                  purchase |-> IF bought THEN Len(journal') ELSE 0]]
    /\ UNCHANGED <<functional, onboarded, valuations>>

\* A repeated request returns what the first one made; it may still have made
\* the ledger infrastructure.
RepeatedRequest(key) ==
    /\ \/ AssetKeyUsed(key)
       \/ /\ ValuationKeyUsed(key)
          /\ \E x \in AssetIds :
                assets[x].status = "active" /\ assets[x].currency = functional
    /\ accounts' \in EnsureLedgerInfrastructure(accounts, functional)
    /\ UNCHANGED <<functional, onboarded, journal, assets, valuations>>

\* UpdateAsset with the archived field; the account follows.
UpdateAsset(x, status) ==
    /\ AssetExists(x)
    /\ assets' = [assets EXCEPT ![x].status = status]
    /\ accounts' = [accounts EXCEPT ![assets[x].account].status = status]
    /\ UNCHANGED <<functional, onboarded, journal, valuations>>

\* Mutant: an earlier date is accepted.
AnyDate(x, date) == TRUE

NotBeforeLatest(x, date) ==
    Valued(x) => date >= valuations[LatestValuation(x)].date

Revaluation(x, key, date, adjustment) ==
    JournalSpec("REVALUATION", date, <<"asset-revaluation", x, key>>, 0, 0,
        <<Entry(assets[x].account, adjustment, functional),
          Entry("UNREALIZED_GAIN_LOSS", -adjustment, functional)>>)

CreateAssetValuation(x, market, date, key) ==
    LET a          == assets[x].account
        owned      == OwnedValue(market, assets[x].share)
        before     == AccountBalanceAt(journal, a, date)
        adjustment == owned - before
        spec       == Revaluation(x, key, date, adjustment)
    IN  /\ assets[x].status = "active"
        /\ assets[x].currency = functional
        /\ ~ValuationKeyUsed(key)
        /\ NotBeforeLatest(x, date)
        /\ Len(valuations) < MaxValuations
        /\ accounts' \in EnsureLedgerInfrastructure(accounts, functional)
        /\ \/ adjustment = 0 /\ UNCHANGED journal
           \/ /\ adjustment # 0
              /\ ActiveDependencies(accounts', spec)
              /\ Accepted(journal, accounts', spec)
              /\ journal' = PostJournal(journal, spec)
        /\ valuations' = Append(valuations,
              [asset |-> x, date |-> date, market |-> market, owned |-> owned,
               before |-> before, adjustment |-> adjustment, key |-> key,
               transaction |-> IF adjustment = 0 THEN 0 ELSE Len(journal'),
               seen |-> Len(journal')])
        /\ UNCHANGED <<functional, onboarded, assets>>

\* The handlers of the ledger know nothing of assets.  Onboarding, the handlers
\* of categories, opening balances and retried creations of accounts are left to
\* the ledger's own runs.
LedgerStep ==
    /\ \/ \E a \in UserAccounts, class \in AccountClasses :
             CreateAccount(a, class, functional, 0, 0, <<"fresh", a>>)
       \/ \E a \in UserAccounts, c \in Currencies, s \in {"active", "archived"} :
             UpdateAccount(a, c, s)
       \/ EnsureLedger
       \/ \E op \in Operations : CreateTransaction(op)
       \/ \E t \in DOMAIN journal, k \in Keys : ReverseTransaction(t, k)
       \/ \E t \in DOMAIN journal, k \in Keys, op \in Operations :
             ReplaceTransaction(t, k, op)
       \/ \E c \in Currencies : UpdateUserSettings(c)
    /\ UNCHANGED <<assets, valuations>>

Purchases == [source : UserAccounts, amount : Amounts, date : Dates]
                 \cup {[source |-> "NONE", amount |-> 0, date |-> 0]}

AssetsNext ==
    \/ \E x \in AssetIds, a \in UserAccounts, share \in Shares, key \in Keys,
          purchase \in Purchases : CreateAsset(x, a, share, key, purchase)
    \/ \E key \in Keys : RepeatedRequest(key)
    \/ \E x \in AssetIds, status \in {"active", "archived"} : UpdateAsset(x, status)
    \/ \E x \in AssetIds, market \in MarketValues, date \in Dates, key \in Keys :
          CreateAssetValuation(x, market, date, key)
    \/ LedgerStep

AssetsSpec == AssetsInit /\ [][AssetsNext]_assetVars

-----------------------------------------------------------------------------
(***************************************************************************)
(* Properties.                                                             *)
(***************************************************************************)
\* Assets and valuations are well formed, what they refer to exists, and the
\* owned value is never more than the market value.
AssetsTypeOK ==
    /\ \A x \in AssetIds : AssetExists(x) =>
          /\ assets[x].status \in {"active", "archived"}
          /\ assets[x].account \in UserAccounts
          /\ assets[x].share \in Shares
          /\ assets[x].purchase \in 0 .. Len(journal)
    /\ \A i \in DOMAIN valuations :
          /\ AssetExists(valuations[i].asset)
          /\ valuations[i].owned \in 0 .. valuations[i].market
          /\ valuations[i].transaction \in 0 .. Len(journal)

\* However often a creation is retried, there is one asset and one purchase for
\* it, and no two assets share a ledger account, whatever the ledger has posted
\* or archived meanwhile (CreateAsset).
OneAssetPerRequest ==
    /\ \A x, y \in AssetIds :
          AssetExists(x) /\ AssetExists(y) /\ x # y =>
              assets[x].key # assets[y].key /\ assets[x].account # assets[y].account
    /\ \A x \in AssetIds :
          {i \in DOMAIN journal : journal[i].key = <<"asset-purchase", x>>}
              = {assets[x].purchase} \ {0}

\* The valuations of an asset are in order of their dates, and each one with a
\* difference has a revaluation of its own that moves the asset's account by
\* exactly this difference at that date (CreateAssetValuation).
ValuationsExplained ==
    \A i \in DOMAIN valuations :
        LET v == valuations[i]
        IN  /\ v.before + v.adjustment = v.owned
            /\ v.transaction = 0 <=> v.adjustment = 0
            /\ v.transaction # 0 =>
                  /\ journal[v.transaction].type = "REVALUATION"
                  /\ journal[v.transaction].date = v.date
                  /\ Delta(journal[v.transaction], assets[v.asset].account)
                         = v.adjustment
            /\ \A k \in 1 .. i - 1 :
                  /\ valuations[k].transaction # 0 =>
                         valuations[k].transaction # v.transaction
                  /\ valuations[k].asset = v.asset => valuations[k].date <= v.date

\* No posting but a reversal reaches the account of an archived asset while the
\* account is archived too, though a valuation looks at the asset only.
ArchivedAssetQuiet ==
    [][\A x \in AssetIds :
          LET a == assets[x].account
          IN  AssetExists(x) /\ accounts[a].status = "archived" =>
                  \A i \in DOMAIN journal' \ DOMAIN journal :
                      Touches(journal'[i], a) => journal'[i].type = "REVERSAL"
      ]_assetVars
=============================================================================
