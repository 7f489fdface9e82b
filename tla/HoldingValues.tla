--------------------------- MODULE HoldingValues ----------------------------
(* What a position is worth: backend/src/domain/valuation.rs, attribution.rs,  *)
(* day_change.rs and valuation_summary.rs, the value history of                *)
(* value_history.rs, and the conviction targets of conviction.rs.  Operators   *)
(* only.                                                                       *)
EXTENDS PriceSeries

\* value_position's two halves of an unknown basis carry one reason.
BasisPart(base, part) ==
    IF base.known THEN Known(base.value[part]) ELSE Unknown({"base_cost_basis_unavailable"})

Times(f, g) == IF f.known /\ g.known THEN Known(f.value ** g.value)
               ELSE Unknown(f.why \cup g.why)
Less(f, g) == Both(f, IF g.known THEN Known(Zero -- g.value) ELSE g)

RateOf(fx) == IF fx.known THEN Known(fx.value.rate) ELSE fx
CloseOf(price) == IF price.known THEN Known(price.value.close) ELSE price

-----------------------------------------------------------------------------
\* attribution::compute.  A position whose shares cost nothing has no effects.
Effects(p, native, fx) ==
    LET cost == BasisPart(p.base, "cost")
        reasons == native.why \cup cost.why \cup fx.why
                     \cup (IF p.native = Zero THEN {"zero_cost_basis"} ELSE {})
        gross == cost.value -- BasisPart(p.base, "fee").value
    IN  IF reasons # {} THEN [price |-> Unknown(reasons), fx |-> Unknown(reasons)]
        ELSE [price |-> Known((native.value -- p.native) ** RateOf(fx).value
                                -- BasisPart(p.base, "fee").value),
              fx    |-> Known(p.native ** RateOf(fx).value -- gross)]

\* day_change::compute: a previous close of another source is no comparison.
PreviousPrice(latest, previous) ==
    CASE previous = None -> Unknown({"missing_previous_close"})
      [] previous # None /\ latest # None /\ latest.source # previous.source ->
            Unknown({"previous_close_source_mismatch"})
      [] OTHER -> Known(previous)

DayChange(quantity, latest, previous, latestFx, previousFx) ==
    LET before == Times(CloseOf(previous), RateOf(previousFx))
        now == Times(CloseOf(latest), RateOf(latestFx))
        worth == Times(before, Known(Amount(quantity)))
        change == Times(Less(now, before), Known(Amount(quantity)))
    IN  [base |-> change,
         percent |-> Percent(change, worth, "zero_previous_market_value",
                             "missing_previous_close")]

\* value_position, with the candidates that load_valuation_inputs found.
ValuePosition(p, home, today, latest, previous, latestRate, previousRate) ==
    LET price == IF latest = None THEN Unknown({"missing_price"}) ELSE Known(latest)
        fx == FxSnapshot(home, today, latestRate, "missing_fx")
        day == DayChange(p.quantity, price, PreviousPrice(latest, previous), fx,
                         FxSnapshot(home, today, previousRate, "missing_previous_fx"))
        native == Times(CloseOf(price), Known(Amount(p.quantity)))
        market == Times(native, RateOf(fx))
        cost == BasisPart(p.base, "cost")
        gain == Less(market, cost)
        effects == Effects(p, native, fx)
        percent == Percent(gain, cost, "zero_cost_basis", "missing_price")
    IN  [quantity |-> p.quantity, costNative |-> p.native, latest |-> latest,
         cost |-> cost, fee |-> BasisPart(p.base, "fee"),
         price |-> effects.price, fx |-> effects.fx,
         native |-> native, market |-> market, gain |-> gain, percent |-> percent,
         dayChange |-> day.base, dayPercent |-> day.percent,
         reasons |-> SnapshotReasons(price, today, "stale_price")
                       \cup SnapshotReasons(fx, today, "stale_fx")
                       \cup UNION {f.why : f \in {native, market, gain, percent, cost,
                                       effects.price, effects.fx, day.base, day.percent}}]

-----------------------------------------------------------------------------
\* summarize_holdings over the valued rows.
Sum(rows, some, figure) == TotalAt(LAMBDA r : r[figure].value, rows, some)
IfAny(rows, some, figure) ==
    IF some = {} THEN Unknown({}) ELSE Known(Sum(rows, some, figure))

SummarizeHoldings(rows) ==
    LET included == {k \in DOMAIN rows : rows[k].market.known /\ rows[k].cost.known}
        explained == {k \in included : rows[k].price.known /\ rows[k].fx.known}
        moved == {k \in included : rows[k].dayChange.known}
        market == IfAny(rows, included, "market")
        cost == IfAny(rows, included, "cost")
    IN  [market |-> market, cost |-> cost,
         price |-> IfAny(rows, explained, "price"), fx |-> IfAny(rows, explained, "fx"),
         gain |-> Less(market, cost),
         dayChange |-> IfAny(rows, moved, "dayChange"),
         excluded |-> Cardinality(DOMAIN rows \ included)]

-----------------------------------------------------------------------------
(* Value history.  An instrument is [ledger, home, series, rates].             *)

\* invested_cash_flows: dividends and splits are no cash in or out here.
Invests(t) == t.kind \in {"Buy", "Sell"}
InvestedBy(inst, d) ==
    TotalAt(LAMBDA t : Flow(t, Rate(t, inst.home), One), inst.ledger,
            {n \in DOMAIN inst.ledger :
                LET t == inst.ledger[n]
                IN  Invests(t) /\ t.date <= d /\ Rate(t, inst.home) # None})
InvestedUnknown(insts, d) ==
    \E k \in DOMAIN insts : \E n \in DOMAIN insts[k].ledger :
        LET t == insts[k].ledger[n]
        IN  Invests(t) /\ Rate(t, insts[k].home) = None /\ t.date <= d

FaultAdjusted(inst, d) ==   \* Fault: a past quantity is not scaled by later splits.
    Amount(HeldAfter(inst.ledger, d).quantity)

\* The shares held on a day, in shares of today, as the price history is.
Adjusted(inst, d) ==
    Amount(HeldAfter(inst.ledger, d).quantity)
        ** SplitFactor(Dated(inst.ledger, d + 1, Beyond), HeldAfter(inst.ledger, d).quantity)

\* The close and the rate carried forward to a day.
CarriedValue(inst, d) ==
    LET closes == {e \in DOMAIN inst.series : e <= d}
        found == LatestOnOrBefore(inst.rates, d)
    IN  IF closes = {} \/ (~inst.home /\ found = None) THEN Unknown({})
        ELSE Known(Adjusted(inst, d) ** inst.series[Latest(closes)].close
                      ** (IF inst.home THEN One ELSE found.close))

\* The days of the chart, from the first purchase on.
SpineDays(insts) ==
    LET bought == UNION {BuyDays(insts[k].ledger) : k \in DOMAIN insts}
        stored == UNION {DOMAIN insts[k].series
                           \cup (IF insts[k].home THEN {} ELSE StoredDays(insts[k].rates)) :
                         k \in DOMAIN insts}
    IN  {d \in stored : \E b \in bought : b <= d}

\* build_value_history: a day of which nothing can be valued is left out.
ValueHistory(insts) ==
    LET held(d) == {k \in DOMAIN insts : HeldAfter(insts[k].ledger, d).quantity > 0}
        valued(d) == {k \in held(d) : CarriedValue(insts[k], d).known}
    IN  [d \in {e \in SpineDays(insts) : valued(e) # {}} |->
            [value    |-> TotalAt(LAMBDA i : CarriedValue(i, d).value, insts, valued(d)),
             invested |-> IF InvestedUnknown(insts, d) THEN None
                          ELSE Total(LAMBDA i : InvestedBy(i, d), insts),
             excluded |-> Cardinality(held(d) \ valued(d))]]

-----------------------------------------------------------------------------
(* Conviction targets.  An input is [weight, market, quantity, price]: weight 0 *)
(* is OTHER, market None an instrument without an enabled source, price whether *)
(* there is one.                                                               *)

ConvictionWeight(level) == CASE level = "LOW" -> 1 [] level = "MEDIUM" -> 2
                             [] level = "HIGH" -> 4 [] level = "OTHER" -> 0

\* pool_membership: what is held and worth something, or watched and priced.
InPool(in) ==
    /\ in.weight > 0 /\ in.market # None /\ in.market.known
    /\ IsBelow(Zero, in.market.value)
          \/ (in.market.value = Zero /\ in.quantity = 0 /\ in.priced)

ExclusionReason(in) ==
    CASE in.weight = 0 -> "no_target"
      [] in.weight > 0 /\ in.market = None -> "price_mapping_disabled"
      [] in.weight > 0 /\ in.market # None /\ ~in.market.known -> "valuation_unavailable"
      [] OTHER -> IF in.priced THEN "current_value_collapsed_to_zero" ELSE "no_usable_price"

\* gap_band_status.
Band(percent) == CASE IsBelow(percent, Amount(-5)) -> "below"
                   [] IsBelow(Amount(5), percent) -> "above"
                   [] OTHER -> "on_target"

\* derive_targets, derive_one.  A pool of watched instruments alone has no value.
DeriveTargets(inputs) ==
    LET pool == {k \in DOMAIN inputs : InPool(inputs[k])}
        value == TotalAt(LAMBDA in : in.market.value, inputs, pool)
        weight == TotalAt(LAMBDA in : Amount(in.weight), inputs, pool)
        target(in) == (value ** Amount(in.weight)) // weight
        gap(in) == in.market.value -- target(in)
    IN  [k \in DOMAIN inputs |->
            LET in == inputs[k]
            IN  IF ~InPool(in) \/ value = Zero
                THEN [status |-> "none", target |-> Unknown(
                        {IF InPool(in) THEN "target_pool_zero" ELSE ExclusionReason(in)})]
                ELSE [target |-> Known(target(in)), gap |-> gap(in),
                      status |-> Band((gap(in) // target(in)) ** Amount(100))]]

=============================================================================
