----------------------------- MODULE RungReports ----------------------------
(* What is said of a rung once it is built: the report at the end of           *)
(* build_rung, as GET /api/rebalance answers it (api/rebalance.rs) and the     *)
(* page shows it (components/rebalanceViewModel.ts).  Gaps are in the units of *)
(* RebalanceRungs; how amounts and instruments are written, and how old prices *)
(* are, is left out.                                                           *)
EXTENDS RebalanceRungs

-----------------------------------------------------------------------------
(* The report.                                                                 *)

TradedNet(i) == quantity[i] * pool[i].price * Unit

\* The display gap is the value less the target, the opposite of a delta.
GapBefore(i) == -delta[i]
GapAfter(i) == GapBefore(i) + TradedNet(i)

\* gap_band_status: within five percent of a target counts as on it.
GapBand(gap, target) == CASE target <= 0 -> "unavailable"
                          [] target > 0 /\ 20 * gap < -target -> "below"
                          [] target > 0 /\ 20 * gap > target -> "above"
                          [] OTHER -> "on_target"

CandidateBalance(i) == [before |-> GapBefore(i), after |-> GapAfter(i),
                        statusBefore |-> GapBand(GapBefore(i), Target(i)),
                        statusAfter |-> GapBand(GapAfter(i), Target(i)),
                        isNew |-> pool[i].held = 0]

TotalGapBefore == SumFunctionOnSet([i \in Cand |-> Magnitude(delta[i])], Cand)
TotalGapAfter == SumFunctionOnSet([i \in Cand |-> Magnitude(TradedNet(i) - delta[i])], Cand)

\* The part of all gaps that the trades close, if there was any: <<part, whole>>.
Coverage == IF TotalGapBefore = 0 THEN {}
            ELSE {<<TotalGapBefore - TotalGapAfter, TotalGapBefore>>}

Traded == {i \in Cand : quantity[i] # 0}
Untraded == selected \ Traded

PlannedTrade(i) == [side |-> IF quantity[i] > 0 THEN "buy" ELSE "sell",
                    shares |-> Magnitude(quantity[i]),
                    amount |-> Magnitude(quantity[i]) * pool[i].price]

UntradedReason(i) == CASE delta[i] = 0 -> "on_target"
                       [] delta[i] # 0 /\ i \in clamped -> "clamped"
                       [] OTHER -> "too_small"

Report == [selectedCount |-> count,
           trades |-> [i \in Traded |-> PlannedTrade(i)],
           untraded |-> [i \in Untraded |-> UntradedReason(i)],
           balance |-> [i \in Cand |-> CandidateBalance(i)],
           effectiveTrades |-> Cardinality(Traded),
           net |-> Net(quantity), residual |-> offset - Net(quantity),
           coverage |-> Coverage]

-----------------------------------------------------------------------------
(* The page.                                                                   *)

\* The row of a candidate: its trade, why there is none, or that it was not selected.
ActionKind(i) == CASE i \in DOMAIN Report.trades -> Report.trades[i].side
                   [] i \in DOMAIN Report.untraded -> Report.untraded[i]
                   [] OTHER -> "unselected"

FlipsSide(i) == LET row == Report.balance[i] IN
                \/ row.statusBefore = "below" /\ row.statusAfter = "above"
                \/ row.statusBefore = "above" /\ row.statusAfter = "below"

\* What stands for the trades when there are none.
EmptyMessage == IF /\ DOMAIN Report.untraded # {}
                   /\ \A i \in DOMAIN Report.untraded : Report.untraded[i] = "on_target"
                THEN "on_target" ELSE "too_small"
TradeRowsMessage == IF DOMAIN Report.trades = {} THEN EmptyMessage ELSE "none"

-----------------------------------------------------------------------------
(* Properties.                                                                 *)

\* The gaps after a rung's trades add up to minus the residual, that which is reported
\* and that which the repair worked off (the test
\* balance_gap_after_sums_to_minus_residual_at_every_rung).
ReportAddsUp ==
    stage = "done" =>
        /\ Report.residual = residual
        /\ SumFunctionOnSet([i \in Cand |-> Report.balance[i].after], Cand) = -residual * Unit

\* In percent mode trades close gaps and open none: the coverage is between 0 and 100
\* percent (the test percent_coverage_stays_within_bounds_at_every_rung), and nobody
\* comes out on the other side of the target.
CoverageWithinBounds ==
    stage = "done" /\ rankBy = "percent" =>
        /\ \A part \in Report.coverage : 0 <= part[1] /\ part[1] <= part[2]
        /\ \A i \in Cand : ~FlipsSide(i)

\* Reasons are true of the rung they are given for (DecisionLog, 2026-07-07: they stay
\* meaningful across fallback and clamped rungs).  Who is clamped got nothing because
\* others got something; who is too small, unless a repair took its trade, was to
\* trade less than a share; and if all is on target at this granularity, it is so with
\* the whole pool, those who were not selected included.
ReasonsAreTrue ==
    stage = "done" =>
        \A i \in Cand :
           /\ ActionKind(i) = "clamped" =>
                 share[i] = 0 /\ \E j \in selected : share[j] # 0
           /\ ActionKind(i) = "too_small" /\ repairs = 0 =>
                 Magnitude(share[i]) < pool[i].price * Unit * scale
           /\ TradeRowsMessage = "on_target" => delta[i] = 0

\* Whatever the passes and the repair did before, what is said of the rung is so
\* (build_rung, buildAvailableViewModel).
ReportIsTrue == ReportAddsUp /\ CoverageWithinBounds /\ ReasonsAreTrue

=============================================================================
