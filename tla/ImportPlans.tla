----------------------------- MODULE ImportPlans ----------------------------
(* How the rows of a file are set against the ledger (import/core/plan.rs,     *)
(* the conviction guard of import/core/conviction_guard.rs and api/import.rs,  *)
(* and the choice of instruments of import/core/writer.rs): operators only.    *)
(*                                                                             *)
(* `instruments` maps ids to [exchange, symbol, isin, currency, conviction],   *)
(* `entries` ids to [instrument, date, kind, quantity, price, perShare,        *)
(* currency, fx, fee, batch]; both are what the database holds.  `outcomes`    *)
(* is what BrokerFiles makes of the file, and a row is an index into it.       *)
(* Upper and lower case are not told apart, and counts and notes of the        *)
(* preview are left out.                                                       *)
EXTENDS BrokerFiles

\* Derivation of a ledger, as LedgerRows has it.
Derived == INSTANCE LedgerRows WITH Instrument <- {}, NoBatch <- Blank, ProspectiveId <- 0

Conflict == 0         \* no instrument has this id

-----------------------------------------------------------------------------
(* Instruments.                                                                *)

FaultMatches(instrument, key) ==     \* Fault: the ISIN is not looked at.
    instrument.exchange = key.exchange /\ instrument.symbol = key.symbol

\* ExistingInstrument::matches
Matches(instrument, key) ==
    IF instrument.isin # Blank /\ key.isin # Blank THEN instrument.isin = key.isin
    ELSE instrument.exchange = key.exchange /\ instrument.symbol = key.symbol

\* The first match in the order of the listing, by exchange and symbol; none is Conflict.
FirstMatch(instruments, key) ==
    LET found == {i \in DOMAIN instruments : Matches(instruments[i], key)}
        before(i, j) == \/ instruments[i].exchange = "AVANZA" /\ instruments[j].exchange # "AVANZA"
                        \/ instruments[i].exchange = instruments[j].exchange /\ i < j
    IN  IF found = {} THEN Conflict
        ELSE CHOOSE i \in found : \A j \in found \ {i} : before(i, j)

ByIsin(instruments, key) ==
    {i \in DOMAIN instruments : key.isin # Blank /\ instruments[i].isin = key.isin}
BySymbol(instruments, key) ==
    {i \in DOMAIN instruments : /\ instruments[i].exchange = key.exchange
                                /\ instruments[i].symbol = key.symbol}

\* upsert_in_tx and resolve_existing, as far as an import comes to it: the id of the
\* instrument with this symbol, `next` for a new one, or a conflict of identities.
ResolveExisting(instruments, key, next) ==
    LET bySymbol == BySymbol(instruments, key)  i == Least(bySymbol) IN
    CASE bySymbol = {} -> next
      [] bySymbol # {} /\ key.isin # Blank /\ instruments[i].isin # Blank -> Conflict
      [] OTHER -> i

\* resolve_buy_sell_instrument: the ISIN goes before the symbol, and both must not
\* name different instruments.
ResolveTrade(instruments, key, next) ==
    LET byIsin == ByIsin(instruments, key)  bySymbol == BySymbol(instruments, key) IN
    CASE byIsin = {} -> ResolveExisting(instruments, key, next)
      [] byIsin # {} /\ bySymbol \subseteq byIsin -> Least(byIsin)
      [] OTHER -> Conflict

\* resolve_split_instrument for an asset without other rows: it never creates one.
ResolveSplit(instruments, key) ==
    LET found == IF key.isin # Blank THEN ByIsin(instruments, key)
                 ELSE BySymbol(instruments, key)
    IN  IF found = {} THEN Conflict ELSE Least(found)

\* resolve_instruments_for_mapped_rows: the instrument of each asset of `rows`.
Resolution(instruments, outcomes, rows) ==
    LET assets == {outcomes[k].asset : k \in rows}
        traded(a) == {k \in rows : outcomes[k].asset = a /\ outcomes[k].tx.kind # "Split"}
        key(k) == outcomes[k].instrument
        isNew(a) == traded(a) # {} /\
                    ResolveTrade(instruments, key(Least(traded(a))), -1) = -1
        next(a) == Cardinality(DOMAIN instruments)
                   + Cardinality({b \in assets : isNew(b) /\ Least(traded(b)) <= Least(traded(a))})
    IN  [a \in assets |->
            IF traded(a) = {}
            THEN ResolveSplit(instruments, key(Least({k \in rows : outcomes[k].asset = a})))
            ELSE LET k == Least(traded(a)) IN
                 ResolveTrade(instruments, key(k), IF isNew(a) THEN next(a) ELSE -1)]

\* What the resolution leaves behind: an ISIN filled in, new instruments without
\* conviction.
AfterResolution(instruments, outcomes, rows, idOf) ==
    LET firstOf(i) == outcomes[Least({k \in rows : idOf[outcomes[k].asset] = i
                                                   /\ outcomes[k].tx.kind # "Split"})].instrument
        touched == {idOf[outcomes[k].asset] : k \in {j \in rows : outcomes[j].tx.kind # "Split"}}
    IN  [i \in DOMAIN instruments \cup touched |->
            CASE i \notin DOMAIN instruments ->
                    [exchange |-> firstOf(i).exchange, symbol |-> firstOf(i).symbol,
                     isin |-> firstOf(i).isin, currency |-> firstOf(i).currency,
                     conviction |-> "OTHER"]
              [] i \in DOMAIN instruments /\ i \in touched /\ instruments[i].isin = Blank ->
                    [instruments[i] EXCEPT !.isin = firstOf(i).isin]
              [] OTHER -> instruments[i]]

-----------------------------------------------------------------------------
(* Rows.                                                                       *)

\* domain::validate
ValidTransaction(tx) ==
    CASE tx.kind = "Split" -> tx.quantity # 0
      [] tx.kind = "Dividend" -> tx.quantity > 0 /\ Positive(tx.perShare) /\ tx.currency # ""
      [] OTHER -> /\ tx.quantity > 0 /\ Positive(tx.price) /\ tx.currency # ""
                  /\ tx.fee # Blank => tx.fee[1] >= 0

SharesSigned(tx) == IF tx.kind = "Sell" THEN -tx.quantity ELSE tx.quantity

FaultStoredShares(tx) ==        \* Fault: a dividend stores its effect on the position.
    IF tx.kind = "Dividend" THEN 0 ELSE SharesSigned(tx)

\* A dividend stores the shares it was paid for.
StoredShares(tx) == SharesSigned(tx)

StoredRow(instrument, tx, batch) ==
    [instrument |-> instrument, date |-> tx.date, kind |-> tx.kind,
     quantity |-> StoredShares(tx), price |-> tx.price, perShare |-> tx.perShare,
     currency |-> tx.currency, fx |-> tx.fx, fee |-> tx.fee, batch |-> batch]

\* canonical_from_db, canonical_from_mapped.
CanonicalRow(row) == [row EXCEPT !.batch = Blank]

\* TxFingerprint beside its instrument, of a stored row and of a proposed one.
TxFingerprint(instrument, tx, quantity) ==
    [instrument |-> instrument, date |-> tx.date, kind |-> tx.kind, quantity |-> quantity,
     price |-> tx.price, perShare |-> tx.perShare]
LedgerFingerprint(row) == TxFingerprint(row.instrument, row, row.quantity)
ProposedFingerprint(instrument, tx) == TxFingerprint(instrument, tx, SharesSigned(tx))

\* exclude_assets: the mapped rows left, and whether an error is among the rest.
KeptRows(outcomes, exclude) ==
    {k \in DOMAIN outcomes : outcomes[k].is = "mapped" /\ outcomes[k].asset \notin exclude}
ErrorsIn(outcomes, exclude) ==
    \E k \in DOMAIN outcomes : outcomes[k].is = "error" /\ outcomes[k].asset \notin exclude

\* known_asset_keys, beside the rows that carry none.
KnownAssets(outcomes) == {outcomes[k].asset : k \in DOMAIN outcomes} \ {Blank}

\* build_plan: the rows of `kept` the ledger holds already, matched one to one.
AlreadyImported(instruments, entries, outcomes, kept) ==
    LET fingerprint == [k \in kept |->
            ProposedFingerprint(FirstMatch(instruments, outcomes[k].instrument),
                                outcomes[k].tx)]
        stored == [n \in DOMAIN entries |-> LedgerFingerprint(entries[n])]
    IN  {k \in kept : /\ fingerprint[k].instrument # Conflict
                      /\ Cardinality({j \in kept : j <= k /\ fingerprint[j] = fingerprint[k]})
                           <= Cardinality({n \in DOMAIN stored : stored[n] = fingerprint[k]})}

\* process_mapped and ledger_errors: each asset's ledger with its new rows behind the
\* stored ones of their day.
LedgerDerives(instruments, entries, outcomes, new, asset) ==
    LET own == {k \in new : outcomes[k].asset = asset}
        i == FirstMatch(instruments, outcomes[Least(own)].instrument)
        base == IF DOMAIN entries = {} THEN 0
                ELSE CHOOSE n \in DOMAIN entries : \A m \in DOMAIN entries : m <= n
    IN  Derived!Derivable(
            Derived!LedgerFor(entries, i)
            \cup {Derived!Entry(base + k, StoredRow(i, outcomes[k].tx, Blank)) : k \in own})

PlanErrors(instruments, entries, outcomes, exclude, new) ==
    \/ ErrorsIn(outcomes, exclude)
    \/ \E k \in new :
          LET i == FirstMatch(instruments, outcomes[k].instrument)
              currency == outcomes[k].instrument.currency
          IN  \/ i # Conflict /\ currency # "" /\ instruments[i].currency # currency
              \/ ~ValidTransaction(outcomes[k].tx)
    \/ \E asset \in {outcomes[k].asset : k \in new} :
          ~LedgerDerives(instruments, entries, outcomes, new, asset)

\* already_imported_assets: nothing new, nothing left out.
AlreadyImportedAssets(outcomes, kept, new) ==
    {outcomes[k].asset : k \in kept \ new}
    \ {outcomes[k].asset : k \in {j \in DOMAIN outcomes : outcomes[j].is # "mapped" \/ j \in new}}

-----------------------------------------------------------------------------
(* The guard of convictions.                                                   *)

Shares(entries, some) ==      \* net_quantity
    SumFunctionOnSet([n \in DOMAIN entries |-> entries[n].quantity],
                     {n \in some : entries[n].kind # "Dividend"})

RowsFor(entries, i) == {n \in DOMAIN entries : entries[n].instrument = i}

\* compute_refresh_protected_instrument_ids
ProtectedIds(instruments, outcomes, stored) ==
    {i \in DOMAIN instruments : AssetKey(instruments[i]) \in {outcomes[k].asset : k \in stored}}

\* closing_convicted_positions
ClosesPosition(instrument, current, predicted) ==
    instrument.conviction # "OTHER" /\ current > 0 /\ predicted <= 0

\* What the new rows add to an instrument: mapped_row_quantity.
Contribution(instrument, outcomes, new) ==
    SumFunctionOnSet([k \in new |-> SharesSigned(outcomes[k].tx)],
                     {k \in new : /\ Matches(instrument, outcomes[k].instrument)
                                  /\ outcomes[k].tx.kind # "Dividend"})

\* predicted_quantity_append
PredictedAppend(current, contribution) == current + contribution

FaultPredictedReplace(current, net, contribution, protected) ==
    current + contribution          \* Fault: the rows of the batch count as staying.

\* predicted_quantity_replace
PredictedReplace(current, net, contribution, protected) ==
    current - (IF protected THEN 0 ELSE net) + contribution

\* closing_convicted: the convicted open positions that the import would close.
ClosingConvicted(instruments, entries, outcomes, new, replaced, protected) ==
    LET current(i) == Shares(entries, RowsFor(entries, i))
        ofBatch(i) == {n \in RowsFor(entries, i) : entries[n].batch = replaced}
        added(i) == Contribution(instruments[i], outcomes, new)
        predicted(i) ==
            IF replaced = Blank THEN PredictedAppend(current(i), added(i))
            ELSE PredictedReplace(current(i), Shares(entries, ofBatch(i)), added(i),
                                  i \in protected)
    IN  {i \in DOMAIN instruments : ClosesPosition(instruments[i], current(i), predicted(i))}

\* resolve_conviction_choices
ChoicesCover(instruments, closing, keep, clear) ==
    LET required == {AssetKey(instruments[i]) : i \in closing} IN
    required \subseteq keep \cup clear /\ keep \cap clear \cap required = {}

=============================================================================
