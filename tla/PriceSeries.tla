---------------------------- MODULE PriceSeries -----------------------------
(* Which stored price and rate a report uses: the lookups of                   *)
(* backend/src/db/prices.rs and fx_rates.rs, the choice among an instrument's  *)
(* sources (market_data/effective_prices.rs, domain/price_resolution.rs), the  *)
(* age of what was found (domain/market_snapshot.rs) and the price history     *)
(* (domain/price_history.rs).  Operators only.                                 *)
(*                                                                             *)
(* A day is a number.  A source's rows and the rates of a currency are         *)
(* functions from days to amounts, or None.  Rows are in the instrument's      *)
(* currency (ProviderSymbols).                                                 *)
EXTENDS PeriodReturns

CONSTANTS Day,             \* the days of the model, 1..n
          Weekend,         \* those that are Saturdays and Sundays
          Precedence       \* PRICE_PROVIDER_PRECEDENCE, a sequence of sources
ASSUME DayAssumption == /\ Day = 1..Cardinality(Day) /\ IsFiniteSet(Day) /\ Day # {}
                        /\ Weekend \subseteq Day

LastDay == CHOOSE d \in Day : \A e \in Day : e <= d
Beyond == LastDay + 1
Source == {Precedence[n] : n \in DOMAIN Precedence}
ASSUME PrecedenceAssumption == Precedence \in Seq(Source)

StoredDays(row) == {d \in Day : row[d] # None}

\* find_latest_on_or_before and find_previous_before, of prices and of rates.
Latest(days) == CHOOSE d \in days : \A e \in days : e <= d
LatestOnOrBefore(row, d) ==
    LET days == {e \in StoredDays(row) : e <= d}
    IN  IF days = {} THEN None ELSE [date |-> Latest(days), close |-> row[Latest(days)]]
PreviousBefore(row, d) == LatestOnOrBefore(row, d - 1)

-----------------------------------------------------------------------------
(* Effective prices.  `rows` are an instrument's rows by source, `enabled` its *)
(* enabled mappings.                                                           *)

\* By their places in the order of precedence.
EnabledSources(enabled) == {n \in DOMAIN Precedence : Precedence[n] \in enabled}
HasPriceCoverage(enabled) == EnabledSources(enabled) # {}

FromSource(candidate, s) ==
    IF candidate = None THEN None
    ELSE [date |-> candidate.date, close |-> candidate.close, source |-> s]

FaultPickLatest(candidates) ==  \* Fault: the first source with a price, not the newest.
    LET found == {n \in DOMAIN candidates : candidates[n] # None}
    IN  IF found = {} THEN None ELSE candidates[CHOOSE n \in found : \A m \in found : n <= m]

\* pick_latest_on_or_before: the newest; on a tie the source that precedes.
PickLatest(candidates) ==
    LET found == {n \in DOMAIN candidates : candidates[n] # None}
        newest == {n \in found : \A m \in found : candidates[m].date <= candidates[n].date}
    IN  IF found = {} THEN None
        ELSE candidates[CHOOSE n \in newest : \A m \in newest : n <= m]

EffectiveLatest(rows, enabled, d) ==
    PickLatest([n \in EnabledSources(enabled) |->
                   FromSource(LatestOnOrBefore(rows[Precedence[n]], d), Precedence[n])])

EffectivePrevious(rows, enabled, d) ==
    PickLatest([n \in EnabledSources(enabled) |->
                   FromSource(PreviousBefore(rows[Precedence[n]], d), Precedence[n])])

\* effective_series, resolve_price_series: the first source that has a day
\* supplies it.
EffectiveSeries(rows, enabled, from, to) ==
    LET having(d) == {n \in EnabledSources(enabled) : rows[Precedence[n]][d] # None}
        days == {d \in Day : from <= d /\ d <= to /\ having(d) # {}}
        first(d) == Precedence[CHOOSE n \in having(d) : \A m \in having(d) : n <= m]
    IN  [d \in days |-> [date |-> d, close |-> rows[first(d)][d], source |-> first(d)]]

-----------------------------------------------------------------------------
(* Rates and freshness.                                                        *)

\* fx_snapshot: kronor are worth themselves, today.
FxSnapshot(home, today, candidate, reason) ==
    CASE home -> Known([date |-> today, rate |-> One])
      [] ~home /\ candidate = None -> Unknown({reason})
      [] OTHER -> Known([date |-> candidate.date, rate |-> candidate.close])

\* trading_days_stale: the weekdays after the row's day.
TradingDaysStale(today, d) == Cardinality({e \in Day \ Weekend : d < e /\ e <= today})

\* append_snapshot_reasons, append_fx_reasons.
SnapshotReasons(snapshot, today, stale) ==
    CASE ~snapshot.known -> snapshot.why
      [] snapshot.known /\ TradingDaysStale(today, snapshot.value.date) = 0 -> {}
      [] OTHER -> {stale}

\* build_price_history: each day's close with the last rate up to it.
PriceHistory(series, home, rates) ==
    [d \in DOMAIN series |->
        [close |-> series[d].close,
         base  |-> CASE home -> Known(series[d].close)
                     [] ~home /\ LatestOnOrBefore(rates, d) = None -> Unknown({"missing_fx"})
                     [] OTHER -> Known(series[d].close ** LatestOnOrBefore(rates, d).close)]]

-----------------------------------------------------------------------------
(* The recent price change (domain/recent_price_change.rs).                    *)

StartCloseMaxAge == 3

\* recent_price_change: what stands in the way, in the order of the checks.
ChangeObstacles(periodStart, end, start, splitDays) ==
    SelectSeq(<<[bars |-> end = None, reason |-> "missing_latest_close"],
                [bars |-> end # None /\ end.date <= periodStart,
                 reason |-> "no_close_since_period_start"],
                [bars |-> start = None, reason |-> "missing_start_close"],
                [bars |-> start # None /\
                          TradingDaysStale(periodStart, start.date) > StartCloseMaxAge,
                 reason |-> "start_close_too_old"],
                [bars |-> start # None /\ end # None /\ start.source # end.source,
                 reason |-> "start_close_source_mismatch"],
                [bars |-> start # None /\ end # None /\
                          \E d \in splitDays : start.date < d /\ d <= end.date,
                 reason |-> "split_in_period"]>>,
              LAMBDA c : c.bars)

RecentPriceChange(periodStart, end, start, splitDays) ==
    LET obstacles == ChangeObstacles(periodStart, end, start, splitDays)
    IN  IF obstacles # <<>> THEN Unknown({obstacles[1].reason})
        ELSE Known(((end.close -- start.close) // start.close) ** Amount(100))

\* price_versus_average.  Prices here are positive, so no average is zero.
PriceVersusAverage(latest, average) ==
    IF latest = None THEN Unknown({"missing_latest_close"})
    ELSE Known([percent |-> ((latest.close -- average) // average) ** Amount(100),
                below   |-> IsBelow(latest.close, average)])

=============================================================================
