--------------------------- MODULE PeriodReturns ----------------------------
(* What an instrument returned in a period: period reconstruction, amounts and *)
(* cash flows (backend/src/domain/performance.rs, period_amounts.rs,           *)
(* cash_flow.rs), the denominator of the modified Dietz return                 *)
(* (holding_period_return.rs) and the running average cost                     *)
(* (running_average_cost.rs).  Operators only.  Roots of powers, the solved    *)
(* money-weighted rate and the annualised rate, are left out.                  *)
EXTENDS CostBasis, SequencesExt

\* split_factor: what the splits of these trades make of one share held before.
SplitFactor(trades, opening) ==
    LET after[n \in 0..Len(trades)] ==
            IF n = 0 THEN [quantity |-> opening, factor |-> One]
            ELSE LET was == after[n - 1]
                     t == trades[n]
                     moved == [was EXCEPT !.quantity = @ + t.quantity]
                 IN  CASE t.kind \in {"Buy", "Sell"} -> moved
                       [] t.kind = "Split" /\ was.quantity > 0 ->
                            [moved EXCEPT !.factor =
                                @ ** (Amount(moved.quantity) // Amount(was.quantity))]
                       [] OTHER -> was
    IN  after[Len(trades)].factor

\* Ledgers are in date order, so the trades of some days follow each other.
CountUntil(ledger, d) == Cardinality({n \in DOMAIN ledger : ledger[n].date <= d})
Dated(ledger, from, to) ==
    SubSeq(ledger, CountUntil(ledger, from - 1) + 1, CountUntil(ledger, to))

\* reconstruct_period.  Day 0 is before every trade and `beyond` after.
ReconstructPeriod(ledger, from, to, beyond) ==
    LET opening == PositionOf(Dated(ledger, 0, from - 1))
        closing == PositionOf(Dated(ledger, 0, to))
    IN  [opening |-> opening,
         trades  |-> Dated(ledger, from, to),
         closing |-> closing,
         within  |-> SplitFactor(Dated(ledger, from, to), opening.quantity),
         later   |-> SplitFactor(Dated(ledger, to + 1, beyond), closing.quantity)]

-----------------------------------------------------------------------------
(* Cash flows: positive into the instrument.  A krona instrument needs no rate. *)

Rate(t, home) == IF home THEN One ELSE t.fx

Unrated(period, home) ==
    {n \in DOMAIN period.trades :
        period.trades[n].kind # "Split" /\ Rate(period.trades[n], home) = None}

\* A trade's flow at a rate, with its shares scaled by a factor.
Flow(t, rate, factor) ==
    CASE t.kind \in {"Buy", "Sell"} ->
             Gross(t) ** factor ** rate ++ t.brokerage
      [] t.kind = "Dividend" -> Zero -- Gross(t) ** rate
      [] t.kind = "Split"    -> Zero

FlowsBy(period, home, factor) ==
    IF Unrated(period, home) # {} THEN Unknown({"missing_transaction_fx"})
    ELSE Known([n \in DOMAIN period.trades |->
                   [date |-> period.trades[n].date,
                    amount |-> Flow(period.trades[n], Rate(period.trades[n], home),
                                    factor)]])

PeriodCashFlows(period, home) == FlowsBy(period, home, period.later)
ActualPeriodCashFlows(period, home) == FlowsBy(period, home, One)

NetFlow(flows) == Total(LAMBDA f : f.amount, flows)

-----------------------------------------------------------------------------
(* Amounts.                                                                    *)

AllUnknown(reason) ==
    LET none == Unknown({reason})
    IN  [begin |-> none, end |-> none, capital |-> none, currency |-> none,
         income |-> none, total |-> none]

\* Only a bought quantity is scaled by the splits after the period.
FlowFactor(t, period) == IF t.kind = "Buy" THEN period.later ELSE One

\* The part that moves capital, at the rate of the end of the period.
CapitalFlow(t, endRate, period) ==
    IF t.kind \in {"Buy", "Sell"} THEN Flow(t, endRate, FlowFactor(t, period)) ELSE Zero

\* What an available computation adds up.
AmountsOf(period, home, startPrice, endPrice, startRate, endRate) ==
    LET opened == Amount(period.opening.quantity) ** period.within ** period.later
        closed == Amount(period.closing.quantity) ** period.later
        begin == opened ** startPrice ** startRate
        end == closed ** endPrice ** endRate
        flows == Total(LAMBDA t : Flow(t, Rate(t, home), FlowFactor(t, period)),
                       period.trades)
        income == TotalAt(LAMBDA t : Zero -- Flow(t, Rate(t, home), One), period.trades,
                          {n \in DOMAIN period.trades : period.trades[n].kind = "Dividend"})
        total == end -- begin -- flows
        capital == (closed ** endPrice -- opened ** startPrice) ** endRate
                     -- Total(LAMBDA t : CapitalFlow(t, endRate, period), period.trades)
    IN  [begin |-> Known(begin), end |-> Known(end), capital |-> Known(capital),
         currency |-> Known(total -- capital -- income), income |-> Known(income),
         total |-> Known(total)]

\* What compute_period_amounts may lack, in the order in which it looks.
Lacking(period, startPrice, endPrice, startFx, endFx, home) ==
    LET opens == period.opening.quantity > 0
        closes == period.closing.quantity > 0
    IN  <<[lacks |-> ~home /\ endFx = None, reason |-> "missing_end_fx"],
          [lacks |-> ~home /\ opens /\ startFx = None, reason |-> "missing_start_fx"],
          [lacks |-> closes /\ endPrice = None, reason |-> "missing_end_price"],
          [lacks |-> opens /\ startPrice = None, reason |-> "missing_start_price"],
          [lacks |-> Unrated(period, home) # {}, reason |-> "missing_transaction_fx"]>>

\* compute_period_amounts.  Without opening shares no start rate is needed.
ComputePeriodAmounts(period, startPrice, endPrice, startFx, endFx, home) ==
    LET lacking == Lacking(period, startPrice, endPrice, startFx, endFx, home)
        lacks == {n \in DOMAIN lacking : lacking[n].lacks}
        opens == period.opening.quantity > 0
    IN  IF lacks # {}
        THEN AllUnknown(lacking[CHOOSE n \in lacks : \A m \in lacks : n <= m].reason)
        ELSE AmountsOf(period, home,
                       IF opens THEN startPrice ELSE Zero,
                       IF period.closing.quantity > 0 THEN endPrice ELSE Zero,
                       IF home THEN One ELSE IF opens THEN startFx ELSE endFx,
                       IF home THEN One ELSE endFx)

\* compute_modified_dietz_denominator over the flows of a report, weighted.
Weighted(flows, from, to) ==
    Total(LAMBDA f : (Amount(to - f.date) // Amount(to - from)) ** f.amount, flows)
ModifiedDietzDenominator(begin, weighted, from, to) ==
    IF to <= from \/ ~IsBelow(Zero, begin ++ weighted)
    THEN Unknown({"zero_or_invalid_performance_denominator"})
    ELSE Known(begin ++ weighted)

-----------------------------------------------------------------------------
(* The running average cost, at the end of each trading day.                   *)

TradeDays(ledger) == {ledger[n].date : n \in DOMAIN ledger}
BuyDays(ledger) == {ledger[n].date : n \in {m \in DOMAIN ledger : ledger[m].kind = "Buy"}}

HeldAfter(ledger, d) == PositionOf(Dated(ledger, 0, d))

\* Days with a purchase that end with shares held, and days that end flat.
StepDays(ledger) ==
    {d \in BuyDays(ledger) : HeldAfter(ledger, d).quantity > 0}
FlatDays(ledger) == {d \in TradeDays(ledger) : HeldAfter(ledger, d).quantity = 0}

\* A step shows its day's average in shares of today.
AverageStep(ledger, d, beyond) ==
    AverageCostNative(HeldAfter(ledger, d))
        // SplitFactor(Dated(ledger, d + 1, beyond), HeldAfter(ledger, d).quantity)

\* A held period: its steps, and the flat day that ends it unless it is open.
\* The last step of the open one is the position's average itself.
StepsBetween(ledger, after, until) ==
    {d \in StepDays(ledger) : after < d /\ d < until}
LastFlat(ledger, d) ==
    CHOOSE f \in FlatDays(ledger) \cup {0} :
        f < d /\ \A g \in FlatDays(ledger) : g < d => g <= f
ClosedSegments(ledger, beyond) ==
    {[steps |-> [d \in StepsBetween(ledger, LastFlat(ledger, f), f) |->
                    AverageStep(ledger, d, beyond)],
      closedOn |-> f] :
        f \in {g \in FlatDays(ledger) :
                  StepsBetween(ledger, LastFlat(ledger, g), g) # {}}}
OpenSegment(ledger, beyond) ==
    LET days == StepsBetween(ledger, LastFlat(ledger, beyond), beyond)
    IN  [d \in days |-> IF \A e \in days : e <= d
                        THEN AverageCostNative(PositionOf(ledger))
                        ELSE AverageStep(ledger, d, beyond)]

=============================================================================
