----------------------------- MODULE LedgerRows -----------------------------
(* The transaction ledger of backend/src/db/transactions.rs and the fold that  *)
(* derives a position from it (backend/src/domain/position.rs): operators      *)
(* only, no state.                                                             *)
(*                                                                             *)
(* A stored row is a record [instrument, date, kind, quantity, detail, batch]; *)
(* the table is a function from row ids to rows.  `quantity` is the signed     *)
(* effect on the position (Buy > 0, Sell < 0, Split a delta), except that a    *)
(* Dividend keeps its eligible share count.  Prices decide no write and are    *)
(* left out; `detail` stands for the columns that never identify a trade (fee, *)
(* exchange rate, note, source value); `batch` is the import batch or NoBatch. *)
EXTENDS Integers, FiniteSets

CONSTANTS Instrument,   \* instrument ids
          NoBatch       \* the NULL of transactions.import_batch_id

Kind == {"Buy", "Sell", "Split", "Dividend"}

\* The columns derivation reads: an enumeration, a day and a number of shares.
HasColumns(row) == row.kind \in Kind /\ row.date \in Int /\ row.quantity \in Int

\* PROSPECTIVE_TRANSACTION_ID is i64::MAX: a row that has no id yet sorts after
\* every stored row of its date.  Any number above every stored id will do.
CONSTANT ProspectiveId
ASSUME ProspectiveIdAssumption == ProspectiveId \in Nat

-----------------------------------------------------------------------------
\* domain::validate for the fields that reach the ledger: a Buy, a Sell and a
\* Dividend carry a positive number of shares, a Split a non-zero delta.
Validates(body) ==
    IF body.kind = "Split" THEN body.quantity # 0 ELSE body.quantity > 0

\* The quantity a validated body stores (new_transaction, canonical_from_mapped).
StoredQuantity(body) ==
    IF body.kind = "Sell" THEN -body.quantity ELSE body.quantity

RowOf(body, batch) ==
    [instrument |-> body.instrument, date |-> body.date, kind |-> body.kind,
     quantity |-> StoredQuantity(body), detail |-> body.detail, batch |-> batch]

-----------------------------------------------------------------------------
\* A ledger entry as derivation sees it, and the (trade_date, id) order.
Entry(id, row) ==
    [id |-> id, date |-> row.date, kind |-> row.kind, quantity |-> row.quantity]

Before(t, u) == t.date < u.date \/ (t.date = u.date /\ t.id < u.id)

LedgerFor(rows, i) ==
    {Entry(id, rows[id]) : id \in {n \in DOMAIN rows : rows[n].instrument = i}}

\* The outcome of a fold that met an invalid step.
Broken == -1

Apply(held, t) ==
    IF held = Broken THEN Broken
    ELSE CASE t.kind = "Buy"      -> held + t.quantity
           [] t.kind = "Sell"     -> IF -t.quantity > held THEN Broken ELSE held + t.quantity
           [] t.kind = "Split"    -> IF held = 0 \/ held + t.quantity <= 0
                                     THEN Broken ELSE held + t.quantity
           [] t.kind = "Dividend" -> held

\* The entry of a ledger that derivation takes last.
LastOf(ledger) == CHOOSE t \in ledger : \A u \in ledger \ {t} : Before(u, t)

\* derive_position: the fold, in order, of one instrument's entries.
DerivePosition(ledger) ==
    LET held[S \in SUBSET ledger] ==
            IF S = {} THEN 0 ELSE Apply(held[S \ {LastOf(S)}], LastOf(S))
    IN  held[ledger]

Derivable(ledger) == DerivePosition(ledger) # Broken

\* assert_ledger_valid: the instrument's ledger with one row left out and the
\* proposed entries added.
LedgerStaysValid(rows, i, excluded, extra) ==
    Derivable({t \in LedgerFor(rows, i) : t.id \notin excluded} \cup extra)

=============================================================================
