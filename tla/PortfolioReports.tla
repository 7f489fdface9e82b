-------------------------- MODULE PortfolioReports --------------------------
(* What the reports of the program answer about a stored book: the gains       *)
(* report (backend/src/api/gains.rs and gains/), the holdings and opportunity  *)
(* lists (api/valued_holdings.rs, api/opportunities.rs) and the value history  *)
(* (api/portfolio.rs).  Trades are recorded one at a time, in date order; the  *)
(* stored prices, rates and mappings of a book are chosen at the start, for a  *)
(* report reads them and does not care in which order they were written.       *)
(*                                                                             *)
(* There are two instruments: Home is traded in kronor and has one source,     *)
(* Foreign is not and has the sources of Precedence.                           *)
EXTENDS HoldingValues

CONSTANTS Home, Foreign,
          HomeSource,            \* the source of Home's prices
          HomeCloses,            \* Home's rows, a function from days
          Closes,                \* closes that Foreign's rows may hold
          RateRows,              \* the rates that a book may have
          Bodies,                \* [instrument -> trades that may be recorded]
          TradedBooks,           \* the books in which trades are recorded
          MaxTrades,
          Conviction             \* [instrument -> level]

\* domain::validate: a trade that is recorded has the sign of its kind.
Kinds == {"Buy", "Sell", "Split", "Dividend"}
IsPositive(a) == IsBelow(Zero, a)
ASSUME BodyAssumption ==
    \A i \in {Home, Foreign} : \A body \in Bodies[i] :
        /\ body.kind \in Kinds /\ body.quantity \in Int
        /\ body.kind \in {"Buy", "Dividend"} => body.quantity > 0
        /\ body.kind = "Sell" => body.quantity < 0
        /\ {body.price, body.brokerage} \subseteq Exact /\ ~IsBelow(body.brokerage, Zero)
        /\ body.kind # "Split" => IsPositive(body.price)
        /\ body.fx # None => body.fx \in Exact /\ IsPositive(body.fx)
ASSUME ConvictionAssumption ==
    \A i \in {Home, Foreign} : Conviction[i] \in {"LOW", "MEDIUM", "HIGH", "OTHER"}
\* Prices and rates are amounts; None is neither of them, nor a row.
ASSUME PriceAssumption ==
    /\ Closes \subseteq Exact /\ HomeCloses \in [Day -> Exact \cup {None}]
    /\ RateRows \subseteq [Day -> Exact \cup {None}]
    /\ None \notin [date : Day, close : Exact] /\ None \notin Exact
    /\ None \notin [date : Day, close : Exact, source : Source]

VARIABLES ledger,        \* [Instrument -> sequence of trades]
          enabled,       \* Foreign's enabled sources
          rows,          \* Foreign's price rows, by source and day
          rates          \* the rates of Foreign's currency

book == <<enabled, rows, rates>>
reportVars == <<ledger, book>>

Instrument == {Foreign, Home}         \* instruments::list
IsHome(i) == i = Home

Trades == Len(ledger[Home]) + Len(ledger[Foreign])

ReportInit == /\ ledger = [i \in Instrument |-> <<>>]
              /\ enabled \in SUBSET Source
              /\ rows \in [Source -> [Day -> Closes \cup {None}]]
              /\ rates \in RateRows

LastDate(i) == IF ledger[i] = <<>> THEN 1 ELSE ledger[i][Len(ledger[i])].date

\* A trade is recorded if its ledger still derives (LedgerWrites).
Derives(i, body) ==
    LET held == PositionOf(ledger[i]).quantity
    IN  CASE body.kind = "Sell"  -> -body.quantity <= held
          [] body.kind = "Split" -> held > 0 /\ held + body.quantity > 0
          [] OTHER -> TRUE

Record(i, body, d) ==
    /\ Trades < MaxTrades
    /\ book \in TradedBooks
    /\ d >= LastDate(i)
    /\ Derives(i, body)
    /\ ledger' = [ledger EXCEPT ![i] =
                    Append(@, [id |-> Trades + 1, date |-> d, kind |-> body.kind,
                               quantity |-> body.quantity, price |-> body.price,
                               fx |-> body.fx, brokerage |-> body.brokerage])]
    /\ UNCHANGED book

ReportNext == \E i \in Instrument, d \in Day : \E body \in Bodies[i] : Record(i, body, d)

ReportSpec == ReportInit /\ [][ReportNext]_reportVars

-----------------------------------------------------------------------------
(* What a report reads.                                                        *)

RowsOf(i) ==
    IF ~IsHome(i) THEN rows
    ELSE [s \in Source |-> IF s = HomeSource THEN HomeCloses ELSE [d \in Day |-> None]]
EnabledOf(i) == IF IsHome(i) THEN {HomeSource} ELSE enabled

PriceAt(i, d) == EffectiveLatest(RowsOf(i), EnabledOf(i), d)
RateAt(i, d) == IF IsHome(i) THEN None ELSE LatestOnOrBefore(rates, d)
CloseAt(i, d) == IF PriceAt(i, d) = None THEN None ELSE PriceAt(i, d).close
FxAt(i, d) == IF RateAt(i, d) = None THEN None ELSE RateAt(i, d).close

\* load_valuation_inputs and value_position: the previous rows are those before
\* the latest ones.
Valued(i, p, d) ==
    LET price == PriceAt(i, d)
        rate == RateAt(i, d)
    IN  ValuePosition(p, IsHome(i), d, price,
            IF price = None THEN None
            ELSE EffectivePrevious(RowsOf(i), EnabledOf(i), price.date),
            rate,
            IF rate = None THEN None ELSE PreviousBefore(rates, rate.date))

-----------------------------------------------------------------------------
(* The gains report from one day to another; from None is since the first      *)
(* trade.  Trades after the end count only for the splits among them.          *)

Until(i, to) == Dated(ledger[i], 0, to)

ReportStart(from, to) ==
    LET days == UNION {TradeDays(Until(i, to)) : i \in Instrument}
    IN  IF from # None THEN from
        ELSE IF days = {} THEN to ELSE CHOOSE d \in days : \A e \in days : d <= e

Exposed(period) == \/ period.opening.quantity > 0
                   \/ period.closing.quantity > 0
                   \/ period.trades # <<>>

\* load_period_inputs and compute_period_amounts.
PeriodAmounts(i, period, start, to) ==
    ComputePeriodAmounts(period, CloseAt(i, start), CloseAt(i, to),
                         FxAt(i, start), FxAt(i, to), IsHome(i))

\* What gains::list computes of an instrument before it makes a row of it.
WithAmounts(l, amounts) ==
    [instrument |-> l.instrument, exposed |-> l.exposed, open |-> l.done.position.quantity > 0,
     period |-> l.period, done |-> l.done, held |-> l.held, amounts |-> amounts,
     flows |-> PeriodCashFlows(l.period, IsHome(l.instrument)),
     actual |-> ActualPeriodCashFlows(l.period, IsHome(l.instrument)),
     income |-> IF l.exposed THEN amounts.income ELSE Known(Zero)]

LineOf(i, done, period, start, to) ==
    WithAmounts([instrument |-> i, done |-> done, period |-> period,
                 exposed |-> Exposed(period), held |-> Valued(i, done.position, to)],
                PeriodAmounts(i, period, start, to))

\* The instruments that were traded by the end of the report.
Lines(start, to) ==
    [i \in {j \in Instrument : Until(j, to) # <<>>} |->
        LineOf(i, PositionPerformance(Until(i, to)),
               ReconstructPeriod(ledger[i], start, to, Beyond), start, to)]

\* base_amount_availability: a row names no trade.
Shown(figure) == IF figure.known THEN figure ELSE Unknown({"missing_fx"})

\* open_gain_row: what is held and what was realized, together.
OpenGainRow(l) ==
    [total |-> Both(Both(l.held.gain, Shown(l.done.realized.gain)), l.income),
     cost  |-> Both(l.held.cost, Shown(l.done.realized.cost)),
     price |-> Both(l.held.price, Shown(l.done.realized.price)),
     fx    |-> Both(l.held.fx, Shown(l.done.realized.fx))]

\* closed_gain_row: income that is not known leaves the gain alone.
ClosedGainRow(l) ==
    LET gain == Shown(l.done.realized.gain)
    IN  [total |-> IF gain.known /\ l.income.known THEN Both(gain, l.income) ELSE gain,
         cost  |-> Shown(l.done.realized.cost),
         price |-> Shown(l.done.realized.price),
         fx    |-> Shown(l.done.realized.fx)]

\* A closed position has a row if something of it was sold.
HasRow(l) == l.open \/ l.done.realized.sold > 0
GainRow(l) == IF l.open THEN OpenGainRow(l) ELSE ClosedGainRow(l)

-----------------------------------------------------------------------------
(* Totals: PerformanceAccumulator and PortfolioWaterfallAccumulator.           *)

\* PerformanceAccumulator::add takes a line whole or not at all.
Accumulates(l) == l.exposed /\ l.amounts.total.known /\ l.flows.known /\ l.actual.known
Accumulated(lines) == {i \in DOMAIN lines : Accumulates(lines[i])}

PerformanceTotal(lines, figure) ==
    TotalAt(LAMBDA l : l.amounts[figure].value, lines, Accumulated(lines))

\* into_percents, the simple method: against what was there and what was put in.
Inflow(f) == IF IsBelow(Zero, f.amount) THEN f.amount ELSE Zero
SimplePercent(lines) ==
    LET invested == PerformanceTotal(lines, "begin")
                      ++ TotalAt(LAMBDA l : Total(Inflow, l.actual.value),
                                 lines, Accumulated(lines))
    IN  IF Accumulated(lines) = {} \/ ~IsBelow(Zero, invested) THEN Unknown({})
        ELSE Known(PerformanceTotal(lines, "total") // invested)

\* into_percents, the modified Dietz method, before it is annualised.
ModifiedDietzPercent(lines, start, to) ==
    LET weighted == TotalAt(LAMBDA l : Weighted(l.flows.value, start, to),
                            lines, Accumulated(lines))
        denominator == ModifiedDietzDenominator(PerformanceTotal(lines, "begin"), weighted,
                                                start, to)
    IN  IF Accumulated(lines) = {} \/ ~denominator.known THEN Unknown({})
        ELSE Known(PerformanceTotal(lines, "total") // denominator.value)

\* What add_open and add_closed require of a line.
HasWaterfall(l) ==
    /\ \A part \in {"gain", "fee", "cost"} : l.done.realized[part].known
    /\ l.income.known
    /\ l.open => \A part \in {"cost", "fee", "price", "fx", "market", "gain"} : l.held[part].known

WaterfallTotal(lines) ==
    TotalAt(LAMBDA l : (IF l.open THEN l.held.gain.value ELSE Zero)
                         ++ l.done.realized.gain.value ++ l.income.value,
            lines, {i \in DOMAIN lines : HasWaterfall(lines[i])})

\* The summary above the rows.
Summary(lines) ==
    SummarizeHoldings([i \in {j \in DOMAIN lines : lines[j].open} |-> lines[i].held])

-----------------------------------------------------------------------------
(* Holdings, opportunities and the value history.                              *)

\* load_valued_holdings: every instrument, with no valuation without a source.
HasValuation(i) == HasPriceCoverage(EnabledOf(i))
Holding(i, today) == Valued(i, PositionOf(ledger[i]), today)

TargetInputs(today) ==
    [i \in Instrument |->
        [weight   |-> ConvictionWeight(Conviction[i]),
         market   |-> IF HasValuation(i) THEN Holding(i, today).market ELSE None,
         quantity |-> PositionOf(ledger[i]).quantity,
         priced   |-> HasValuation(i) /\ PriceAt(i, today) # None]]

\* api/opportunities.rs: the change since the start of a window, and the
\* average cost beside the close.
Opportunity(i, today, window) ==
    LET end == PriceAt(i, today)
        start == IF end # None /\ end.date > today - window
                 THEN PriceAt(i, today - window) ELSE None
        splits == {ledger[i][n].date : n \in {m \in DOMAIN ledger[i] :
                                                ledger[i][m].kind = "Split"}}
    IN  [change  |-> IF HasValuation(i)
                     THEN RecentPriceChange(today - window, end, start, splits)
                     ELSE Unknown({"no_price_source"}),
         average |-> PriceVersusAverage(end, AverageCostNative(PositionOf(ledger[i])))]

HistoryInputs ==
    [i \in {j \in Instrument : ledger[j] # <<>>} |->
        [ledger |-> ledger[i], home |-> IsHome(i),
         series |-> EffectiveSeries(RowsOf(i), EnabledOf(i), 1, LastDay),
         rates  |-> rates]]

History == ValueHistory(HistoryInputs)

=============================================================================
