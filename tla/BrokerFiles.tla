---------------------------- MODULE BrokerFiles -----------------------------
(* What the importer makes of a file of one of the two brokers                 *)
(* (backend/src/import/avanza, backend/src/import/sharesight,                  *)
(* import/core/outcome.rs): operators only.                                    *)
(*                                                                             *)
(* A file is a sequence of lines; the place of a line is its row number.  A    *)
(* line is a heading, a title, empty, or a trade whose cells are read already: *)
(* a number is an exact fraction, a cell that is no number or date is Bad, an  *)
(* empty one is Blank.  Texts, notes, warnings and the value a broker states   *)
(* for a trade are left out, and so is the overflow of a share count.          *)
EXTENDS ExactAmounts

CONSTANTS Blank, Bad

Least(S) == CHOOSE k \in S : \A j \in S : k <= j

-----------------------------------------------------------------------------
(* Parsing.  The first line that cannot be read fails the whole file.          *)

\* avanza parse_row: date and quantity must be there, four cells may be empty.
AvanzaReads(line) ==
    /\ line.is = "trade"
    /\ {line.date, line.quantity} \cap {Blank, Bad} = {}
    /\ Bad \notin {line.price, line.amount, line.fee, line.fx}

\* sharesight parse_row: only the exchange rate may be empty, and the kinds are three.
SharesightReads(line) ==
    /\ line.is = "trade"
    /\ line.kind \in {"Buy", "Sell", "Split"}
    /\ {line.date, line.quantity, line.price, line.amount, line.fee} \cap {Blank, Bad} = {}
    /\ line.fx # Bad

InOrder(rows) ==
    [n \in 1..Cardinality(rows) |-> CHOOSE k \in rows : Cardinality({j \in rows : j <= k}) = n]

\* avanza parse_report: the first line is the heading.
AvanzaRows(lines) ==
    LET data == {k \in DOMAIN lines : k > 1 /\ lines[k].is # "empty"} IN
    IF /\ lines # <<>> /\ lines[1].is = "heading"
       /\ \A k \in data : AvanzaReads(lines[k])
    THEN InOrder(data) ELSE Bad

\* sharesight parse_report: the heading is the first line that looks like one, and
\* somewhere stands the title.
SharesightRows(lines) ==
    LET headings == {k \in DOMAIN lines : lines[k].is = "heading"}
        data == {k \in DOMAIN lines : k > Least(headings) /\ lines[k].is # "empty"}
    IN  IF /\ headings # {}
           /\ \E k \in DOMAIN lines : lines[k].is = "title"
           /\ \A k \in data : SharesightReads(lines[k])
        THEN InOrder(data) ELSE Bad

\* The rows of a file, in order, or Bad.
TradeRows(broker, lines) ==
    IF broker = "AVANZA" THEN AvanzaRows(lines) ELSE SharesightRows(lines)

-----------------------------------------------------------------------------
(* Outcomes of rows.  An asset key is <<ISIN>>, or <<exchange, symbol>>.       *)

InstrumentKey(exchange, symbol, isin, currency) ==
    [exchange |-> exchange, symbol |-> symbol, isin |-> isin, currency |-> currency]

AssetKey(instrument) ==
    IF instrument.isin # Blank THEN <<instrument.isin>>
    ELSE <<instrument.exchange, instrument.symbol>>

Mapped(row, instrument, tx) ==
    [is |-> "mapped", row |-> row, asset |-> AssetKey(instrument),
     instrument |-> instrument, tx |-> tx]

\* Skipped with a warning, excluded as a fund, or refused.
NotMapped(is, asset) == [is |-> is, asset |-> asset]

Transaction(kind, date, quantity, price, perShare, currency, fx, fee) ==
    [kind |-> kind, date |-> date, quantity |-> quantity, price |-> price,
     perShare |-> perShare, currency |-> currency, fx |-> fx, fee |-> fee]

Positive(cell) == cell # Blank /\ cell[1] > 0
Unsigned(q) == <<IF q[1] < 0 THEN -q[1] ELSE q[1], q[2]>>
IsWhole(q) == q[2] = 1
Whole64(q) == IF q[1] < 0 THEN -((-q[1]) \div q[2]) ELSE q[1] \div q[2]     \* to_i64

-----------------------------------------------------------------------------
(* Avanza.  `lines` is the file, `rows` the row numbers of its trades.         *)

IsinKey(isin) == IF isin = "" THEN Blank ELSE <<isin>>
AvanzaInstrument(line) == InstrumentKey("AVANZA", line.asset, line.asset, line.currency)

OfKind(lines, trades, kinds, isin) ==
    {k \in trades : lines[k].kind \in kinds /\ lines[k].asset = isin}

\* The instrument the file's first buy or sell of an ISIN describes.
InstrumentOf(lines, trades, isin, currency) ==
    LET traded == OfKind(lines, trades, {"Buy", "Sell"}, isin) IN
    IF traded = {} THEN InstrumentKey("AVANZA", isin, isin, currency)
    ELSE AvanzaInstrument(lines[Least(traded)])

SplitNet(lines, group) == SumOver([k \in group |-> lines[k].quantity], group)

SplitGroup(lines, trades, isin, date) ==
    {k \in OfKind(lines, trades, {"Split"}, isin) : lines[k].date = date}

\* build_position_events: what each row, and each group of split rows, adds.
PositionEvents(lines, trades, isin) ==
    LET event(k, delta) == [date |-> lines[k].date, row |-> k, delta |-> delta]
        groups == {SplitGroup(lines, trades, isin, lines[k].date) :
                      k \in OfKind(lines, trades, {"Split"}, isin)}
    IN  {e \in {event(k, Whole64(lines[k].quantity)) :
                   k \in OfKind(lines, trades, {"Buy"}, isin)} : e.delta > 0}
        \cup {e \in {event(k, -Whole64(Unsigned(lines[k].quantity))) :
                   k \in OfKind(lines, trades, {"Sell"}, isin)} : e.delta < 0}
        \cup {e \in {event(Least(g), Whole64(SplitNet(lines, g))) : g \in groups} :
                   e.delta # 0}

FaultEligibleQuantityAt(lines, trades, k) ==     \* Fault: a later row of the day counts.
    LET events == PositionEvents(lines, trades, lines[k].asset) IN
    SumFunctionOnSet([e \in events |-> e.delta], {e \in events : e.date <= lines[k].date})

\* eligible_quantity_at
EligibleQuantityAt(lines, trades, k) ==
    LET events == PositionEvents(lines, trades, lines[k].asset) IN
    SumFunctionOnSet([e \in events |-> e.delta],
                     {e \in events : \/ e.date < lines[k].date
                                     \/ e.date = lines[k].date /\ e.row <= k})

\* map_buy_sell
MapBuySell(lines, k) ==
    LET line == lines[k]
        fx == CASE Positive(line.fx) -> line.fx
                [] ~Positive(line.fx) /\ line.currency = "SEK" -> One
                [] OTHER -> Blank
        fee == IF Positive(line.fee) THEN line.fee ELSE Blank
    IN  IF ~IsWhole(line.quantity) THEN NotMapped("excluded", IsinKey(line.asset))
        ELSE Mapped(k, AvanzaInstrument(line),
                    Transaction(line.kind, line.date, Whole64(Unsigned(line.quantity)),
                                line.price, Blank, line.currency, fx, fee))

\* derive_dividend_fx_from_source: the rate at which the cash paid the dividend.
FxFromCash(line, shares, price) ==
    IF line.paidIn = "SEK" /\ shares > 0 /\ Positive(price) /\ line.amount # Zero
    THEN Unsigned(line.amount) // (Amount(shares) ** price) ELSE Blank

\* dividend_fx_rate
DividendFx(line, shares, perShare) ==
    CASE Positive(line.fx) -> line.fx
      [] ~Positive(line.fx) /\ line.currency = "SEK" -> One
      [] OTHER -> FxFromCash(line, shares, IF perShare # Blank THEN perShare ELSE line.price)

\* The native amount per share: the price cell, or derive_dividend_per_share.
PerShare(line, shares) ==
    LET fx == DividendFx(line, shares, Blank) IN
    IF Positive(line.price) THEN line.price
    ELSE IF fx = Blank THEN Blank
         ELSE (Unsigned(line.amount) // fx) // Amount(shares)

\* map_dividend
MapDividend(lines, trades, k) ==
    LET line == lines[k]
        stated == line.quantity[1] > 0
        shares == IF stated THEN Whole64(line.quantity)
                  ELSE EligibleQuantityAt(lines, trades, k)
        perShare == PerShare(line, shares)
        skip == NotMapped("skip", IsinKey(line.asset))
    IN  CASE \/ line.asset = "" \/ line.amount = Blank \/ line.currency = ""
             \/ stated /\ ~IsWhole(line.quantity)                    -> skip
          [] OTHER ->
             IF shares <= 0 \/ ~Positive(perShare) THEN skip
             ELSE Mapped(k, InstrumentOf(lines, trades, line.asset, line.currency),
                         Transaction("Dividend", line.date, shares, Blank, perShare,
                                     line.currency, DividendFx(line, shares, perShare), Blank))

\* map_split: the rows of one ISIN and day are one split.
MapSplit(lines, trades, group) ==
    LET k == Least(group)  net == SplitNet(lines, group)  isin == lines[k].asset IN
    IF net = Zero \/ ~IsWhole(net) THEN NotMapped("skip", IsinKey(isin))
    ELSE Mapped(k, InstrumentOf(lines, trades, isin, ""),
                Transaction("Split", lines[k].date, Whole64(net), Blank, Blank, Blank, Blank,
                            Blank))

\* map_row, for a row that is no split.
MapRow(lines, trades, k) ==
    CASE lines[k].kind \in {"Buy", "Sell"} -> MapBuySell(lines, k)
      [] lines[k].kind = "Dividend" -> MapDividend(lines, trades, k)
      [] OTHER -> NotMapped("skip", IsinKey(lines[k].asset))

SplitRows(lines, trades) == {k \in trades : lines[k].kind = "Split" /\ lines[k].asset # ""}
SplitGroups(lines, trades) ==
    {SplitGroup(lines, trades, lines[k].asset, lines[k].date) : k \in SplitRows(lines, trades)}

\* By day; two ISINs that split on one day follow in the order of their texts, here of
\* their rows.
SplitsInOrder(lines, groups) ==
    LET upTo(g) == {h \in groups : \/ lines[Least(h)].date < lines[Least(g)].date
                                   \/ /\ lines[Least(h)].date = lines[Least(g)].date
                                      /\ Least(h) <= Least(g)}
    IN  [n \in 1..Cardinality(groups) |-> CHOOSE g \in groups : Cardinality(upTo(g)) = n]

\* avanza to_prepared: row by row, and after them the splits.
AvanzaOutcomes(lines, rows) ==
    LET trades == {rows[n] : n \in DOMAIN rows}
        single == InOrder(trades \ SplitRows(lines, trades))
        splits == SplitsInOrder(lines, SplitGroups(lines, trades))
    IN  [n \in DOMAIN single |-> MapRow(lines, trades, single[n])]
        \o [n \in DOMAIN splits |-> MapSplit(lines, trades, splits[n])]

-----------------------------------------------------------------------------
(* Sharesight: map_row and to_prepared.                                        *)

SharesightOutcome(line, k) ==
    LET instrument == InstrumentKey("XSTO", line.asset, Blank, line.currency)
        \* Exchange Rate is the price of a krona: invert_fx.
        fx == IF Positive(line.fx) THEN One // line.fx ELSE Blank
        fee == IF line.fee = Zero THEN Blank ELSE line.fee
    IN  CASE \/ ~IsWhole(line.quantity)
             \/ line.kind # "Split" /\ line.fee # Zero /\ line.feeIn # "SEK" ->
                NotMapped("error", AssetKey(instrument))
          [] line.kind = "Split" ->
                Mapped(k, instrument, Transaction("Split", line.date, Whole64(line.quantity),
                                                  Blank, Blank, Blank, Blank, Blank))
          [] OTHER ->
                Mapped(k, instrument,
                       Transaction(line.kind, line.date, Whole64(Unsigned(line.quantity)),
                                   line.price, Blank, line.currency, fx, fee))

Outcomes(broker, lines) ==
    LET rows == TradeRows(broker, lines) IN
    IF broker = "AVANZA" THEN AvanzaOutcomes(lines, rows)
    ELSE [n \in DOMAIN rows |-> SharesightOutcome(lines[rows[n]], rows[n])]

=============================================================================
