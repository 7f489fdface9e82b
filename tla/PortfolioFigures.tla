-------------------------- MODULE PortfolioFigures --------------------------
(* What the figures of the reports have to do with each other and with the     *)
(* trades they come from.                                                      *)
EXTENDS PortfolioReports

Booked == {i \in Instrument : ledger[i] # <<>>}

\* Reports of a book, from the first trade and from each day, to each day.
Reports == IF Booked = {} THEN {}
           ELSE {r \in (Day \cup {None}) \X Day : r[1] # None => r[1] <= r[2]}

\* The money an instrument returned up to a day, less the money put in.
MoneyBack(i, to) ==
    LET trades == Until(i, to)
    IN  TotalAt(LAMBDA t : Zero -- (Gross(t) ** t.fx ++ t.brokerage), trades,
                {n \in DOMAIN trades : Invests(trades[n])})
PaidIn(i, to) ==
    LET trades == Until(i, to)
    IN  TotalAt(LAMBDA t : Gross(t) ** t.fx ++ t.brokerage, trades,
                {n \in DOMAIN trades : trades[n].kind = "Buy"})

\* What is held is worth now, or nothing, and what came back.
Money(l, to) == (IF l.open THEN l.held.market.value ELSE Zero) ++ MoneyBack(l.instrument, to)

NoLaterSplit(i, to) ==
    \A n \in DOMAIN ledger[i] : ledger[i][n].kind = "Split" => ledger[i][n].date <= to

RowIsMoney(l, row, to) ==
    /\ row.total.known /\ l.income.known => row.total.value = Money(l, to) ++ l.income.value
    /\ row.price.known /\ row.fx.known => row.price.value ++ row.fx.value = Money(l, to)

\* Kronor are worth themselves.
InKronor(i, to) ==
    \A n \in DOMAIN Until(i, to) :
        IsHome(i) /\ Invests(Until(i, to)[n]) => Until(i, to)[n].fx = One

\* Moreover, no sale costs more than it brings in.
Ordinary(i, to) ==
    /\ InKronor(i, to)
    /\ \A n \in DOMAIN Until(i, to) :
          LET t == Until(i, to)[n]
          IN  t.kind = "Sell" => ~IsPositive(Gross(t) ** t.fx ++ t.brokerage)

WholeReportIsMoney(lines, to) ==
    LET earned == WaterfallTotal(lines)
        paid == SumOver([i \in DOMAIN lines |-> PaidIn(i, to)], DOMAIN lines)
    IN  /\ earned = PerformanceTotal(lines, "total")
        /\ IsBelow(Zero, paid) => SimplePercent(lines) = Known(earned // paid)

\* The gain that the waterfall, the totals and the rows show is money: what the
\* holdings are worth and what sales and dividends brought in, less what was paid
\* in, fees included.  Whatever sales and splits took place between, the averaged
\* cost basis, the price effect and the currency effect only divide that money up.
\* The waterfall and the totals are computed along two ways (gains/waterfall.rs,
\* period_amounts.rs) and agree on a report from the first trade; its simple
\* percentage is of the money paid in.
ReturnsAreMoney ==
    \A r \in Reports :
        \A start \in {ReportStart(r[1], r[2])} : \A lines \in {Lines(start, r[2])} :
            /\ \A i \in DOMAIN lines :
                  HasRow(lines[i]) => RowIsMoney(lines[i], GainRow(lines[i]), r[2])
            /\ WaterfallTotal(lines)
                  = TotalAt(LAMBDA l : Money(l, r[2]) ++ l.income.value,
                            lines, {i \in DOMAIN lines : HasWaterfall(lines[i])})
            /\ /\ r[1] = None
               /\ \A i \in DOMAIN lines : /\ HasWaterfall(lines[i]) /\ Accumulates(lines[i])
                                          /\ NoLaterSplit(i, r[2]) /\ Ordinary(i, r[2])
               => WholeReportIsMoney(lines, r[2])

-----------------------------------------------------------------------------
\* The trades since shares were last held by nobody, up to trade n.
SinceFlat(trades, n) ==
    {m \in 1..n : \A k \in m..(n - 1) : PositionsAfter(trades)[k].quantity > 0}

RatedBuys(trades, S) == \A m \in S : trades[m].kind = "Buy" => trades[m].fx # None

\* A figure is shown exactly when everything that it is computed from is known: the
\* cost basis when every purchase since the position was last closed has a rate,
\* and a gain when moreover every sale has one and every purchase behind a sale.
\* A rate that is missing is neither forgotten by a later sale nor remembered after
\* the position is closed (position.rs:300, 341), and never counted as zero.
KnownFromKnown ==
    \A i \in Booked :
        LET trades == ledger[i]
            sales == {n \in DOMAIN trades : trades[n].kind = "Sell"}
            p == PositionPerformance(trades)
            basisRated == RatedBuys(trades, IF p.position.quantity = 0 THEN {}
                                            ELSE SinceFlat(trades, Len(trades)))
            salesRated == \A n \in sales : trades[n].fx # None
            boughtRated == \A n \in sales : RatedBuys(trades, SinceFlat(trades, n))
        IN  /\ p.position.base.known <=> basisRated
            /\ p.realized.proceeds.known <=> salesRated
            /\ \A part \in {"cost", "price", "fx", "gain", "fee"} :
                  p.realized[part].known <=> salesRated /\ boughtRated
            /\ HasValuation(i) =>
                  (Holding(i, LastDay).gain.known <=>
                      basisRated /\ PriceAt(i, LastDay) # None
                        /\ (IsHome(i) \/ RateAt(i, LastDay) # None))

-----------------------------------------------------------------------------
\* What the shares of a day have become, by the splits that were recorded.
GrownBy(i, d) ==
    LET held == PositionsAfter(ledger[i])
        part(n) == Amount(held[n].quantity) // Amount(held[n - 1].quantity)
        grown[n \in 0..Len(ledger[i])] ==
            CASE n = 0 -> One
              [] n > 0 /\ ledger[i][n].kind = "Split" /\ ledger[i][n].date > d ->
                     grown[n - 1] ** part(n)
              [] OTHER -> grown[n - 1]
    IN  grown[Len(ledger[i])]

SharesOn(i, d) == Amount(PositionOf(Until(i, d)).quantity) ** GrownBy(i, d)
ValueOn(i, d) ==
    IF PriceAt(i, d) = None \/ (~IsHome(i) /\ RateAt(i, d) = None) THEN Unknown({})
    ELSE Known(SharesOn(i, d) ** CloseAt(i, d) ** (IF IsHome(i) THEN One ELSE FxAt(i, d)))

HeldOn(d) == {i \in Instrument : PositionOf(Until(i, d)).quantity > 0}

PointAgrees(d, point, valued) ==
    /\ point.value = SumOver([i \in valued |-> ValueOn(i, d).value], valued)
    /\ point.excluded = Cardinality(HeldOn(d) \ valued)
    /\ d = LastDay =>
          point.value = SumOver([i \in valued |-> Holding(i, d).market.value], valued)
    /\ point.invested # None /\ (\A i \in Instrument : InKronor(i, d)) =>
          point.invested = Zero -- SumOver([i \in Instrument |-> MoneyBack(i, d)], Instrument)

HistoryAgrees ==
    \A history \in {History} : \A d \in DOMAIN history :
        PointAgrees(d, history[d], {i \in HeldOn(d) : ValueOn(i, d).known})

PriceChartAgrees(i) ==
    LET chart == PriceHistory(EffectiveSeries(RowsOf(i), EnabledOf(i), 1, LastDay),
                              IsHome(i), rates)
    IN  \A d \in DOMAIN chart :
            /\ chart[d].base.known <=> ValueOn(i, d).known
            /\ chart[d].base.known => ValueOn(i, d).value = SharesOn(i, d) ** chart[d].base.value

AverageAgrees(i, open, closed) ==
    LET compared == Opportunity(i, LastDay, 1).average
    IN  /\ StepDays(ledger[i]) = DOMAIN open \cup UNION {DOMAIN s.steps : s \in closed}
        /\ \A s, u \in closed \cup {[steps |-> open, closedOn |-> Beyond]} :
              s # u => DOMAIN s.steps \cap DOMAIN u.steps = {}
        /\ i \in HeldOn(LastDay) =>
              /\ open[Latest(DOMAIN open)] = AverageCostNative(PositionOf(ledger[i]))
              /\ compared.known =>
                    (compared.value.below <=>
                        IsBelow(Holding(i, LastDay).native.value, PositionOf(ledger[i]).native))

TargetsShareOut ==
    \A targets \in {DeriveTargets(TargetInputs(LastDay))} :
        TotalAt(LAMBDA t : t.gap, targets, {i \in DOMAIN targets : targets[i].target.known}) = Zero

\* The chart, the holdings list, the opportunity list and the targets are computed
\* from different queries, and tell one story.  A point of the value history is
\* what the shares of its day, grown by the splits since, are worth at the prices
\* of the day, and a price chart shows what one of them is worth; the last point is
\* the sum of the holdings.  Every purchase is a step of one segment of the average
\* cost; the average that the chart ends with is the one the opportunity list
\* compares with, and a close below it is an unrealized loss.  The targets of the
\* pool share out its value.
FiguresAgree ==
    Booked # {} =>
       /\ HistoryAgrees
       /\ \A i \in Booked :
             /\ PriceChartAgrees(i)
             /\ AverageAgrees(i, OpenSegment(ledger[i], Beyond), ClosedSegments(ledger[i], Beyond))
       /\ TargetsShareOut

-----------------------------------------------------------------------------
\* The lookups of a single day and the series of a chart are separate queries, one
\* over the newest row of each source and one over all rows (effective_prices.rs:57
\* and 82): they agree on every day, on its price, on its source and on the close
\* before it, and neither uses a source that is not enabled.
PriceLookupsAgree ==
    LET series == EffectiveSeries(rows, enabled, 1, LastDay)
        upTo(d) == {e \in DOMAIN series : e <= d}
        found(days) == IF days = {} THEN None ELSE series[Latest(days)]
    IN  /\ \A d \in Day :
              /\ EffectiveLatest(rows, enabled, d) = found(upTo(d))
              /\ EffectivePrevious(rows, enabled, d) = found(upTo(d - 1))
              /\ d \in DOMAIN series => series[d].source \in enabled
        /\ \A from, to \in Day :
              LET chart == EffectiveSeries(rows, enabled, from, to)
              IN  \A d \in DOMAIN chart : chart[d] = series[d]

-----------------------------------------------------------------------------
\* "Apply post_period_split_factor to match compute_period_amounts"
\* (cash_flow.rs:87): the flows that weigh in the denominator are those that the
\* total return is reduced by.
FlowsMatchAmounts ==
    \A r \in Reports : \A start \in {ReportStart(r[1], r[2])} :
        \A lines \in {Lines(start, r[2])} : \A k \in DOMAIN lines :
            LET l == lines[k]
            IN  l.amounts.total.known =>
                  l.amounts.total.value
                      = l.amounts.end.value -- l.amounts.begin.value -- NetFlow(l.flows.value)

=============================================================================
