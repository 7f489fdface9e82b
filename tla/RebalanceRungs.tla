--------------------------- MODULE RebalanceRungs ---------------------------
(* One rung of the rebalance ladder (backend/src/domain/rebalance.rs): which   *)
(* candidates are selected, how the offset is shared among them, and how the   *)
(* shares become whole quantities.  Each loop of the code takes a step per     *)
(* pass.  Rungs do not depend on each other, so a behaviour builds one.        *)
(*                                                                             *)
(* Amounts are exact.  Targets and deltas are counted in units of the total    *)
(* weight, a share moreover in units of `scale`, the weight it was divided by. *)
EXTENDS Integers, FiniteSets, FiniteSetsExt

CONSTANTS Size, Levels, Prices, MaxHeld, Offsets       \* bounds of the input

ASSUME RungAssumption == /\ Size \in Nat \ {0} /\ MaxHeld \in Nat
                         /\ Levels \subseteq {"LOW", "MEDIUM", "HIGH"}
                         /\ Prices \subseteq Nat \ {0} /\ Offsets \subseteq Int

VARIABLES pool,         \* [Cand -> [level, price, held]]
          offset,       \* amount to invest, or to raise if negative
          rankBy,
          count,        \* how many candidates the rung selects
          delta,        \* [Cand -> amount that would meet the target]
          stage,
          selected,
          free,         \* selected candidates whose share is not fixed
          share, scale, \* shares, and the weight they are divided by
          clamped,      \* shares that were fixed to zero
          fallback,     \* all shares were zero and became the deltas
          quantity, residual,
          firstResidual, passes, repairs      \* what bounds the loops

question == <<pool, offset, rankBy, count, delta>>
sharing == <<free, share, scale, clamped, fallback, passes>>
rounding == <<quantity, residual, firstResidual, repairs>>
vars == <<question, stage, selected, sharing, rounding>>

Cand == 1..Size

-----------------------------------------------------------------------------
(* Targets.                                                                    *)

Magnitude(x) == IF x < 0 THEN -x ELSE x

\* The weight of a conviction; OTHER has none and is not in the pool.
LevelWeight == [LOW |-> 1, MEDIUM |-> 2, HIGH |-> 4]
Weight(i) == LevelWeight[pool[i].level]

Value(i) == pool[i].held * pool[i].price

WeightOf(S) == SumFunctionOnSet([i \in Cand |-> Weight(i)], S)
PoolValue == SumFunctionOnSet([i \in Cand |-> Value(i)], Cand)
Unit == WeightOf(Cand)

Target(i) == (PoolValue + offset) * Weight(i)
IdealDelta(i) == Target(i) - Value(i) * Unit

\* What build_ladder refuses.
OffsetExceedsPool == offset <= -PoolValue

Init == /\ pool \in [Cand -> [level : Levels, price : Prices, held : 0..MaxHeld]]
        /\ offset \in Offsets /\ ~OffsetExceedsPool
        /\ rankBy \in {"sek", "percent"}
        /\ count \in Cand
        /\ delta = [i \in Cand |-> IdealDelta(i)]
        /\ stage = "select" /\ selected = {}
        /\ free = {} /\ clamped = {} /\ fallback = FALSE /\ passes = 0
        /\ share = [i \in Cand |-> 0] /\ scale = 1
        /\ quantity = [i \in Cand |-> 0]
        /\ residual = 0 /\ firstResidual = 0 /\ repairs = 0

Buys == {i \in Cand : delta[i] > 0}
Sells == {i \in Cand : delta[i] < 0}

-----------------------------------------------------------------------------
(* Selection.                                                                  *)

BeforeBySek(i, j) == LET a == Magnitude(delta[i])
                         b == Magnitude(delta[j])
                     IN a > b \/ (a = b /\ i < j)

\* Distance relative to the target, then weight.  Targets are positive and in
\* proportion to the weights.
BeforeByPercent(i, j) ==
    LET a == Magnitude(delta[i]) * Weight(j)
        b == Magnitude(delta[j]) * Weight(i)
    IN \/ a > b
       \/ a = b /\ Weight(i) > Weight(j)
       \/ a = b /\ Weight(i) = Weight(j) /\ BeforeBySek(i, j)

Before(i, j) == IF rankBy = "sek" THEN BeforeBySek(i, j) ELSE BeforeByPercent(i, j)

FirstRanked(S) == CHOOSE i \in S : \A j \in S \ {i} : Before(i, j)
LastRanked(S) == CHOOSE i \in S : \A j \in S \ {i} : Before(j, i)

Top == {i \in Cand : Cardinality({j \in Cand \ {i} : Before(j, i)}) < count}

\* The side of which a rung must select somebody.
WantedSide == CASE offset > 0 -> Buys
                [] offset < 0 -> Sells
                [] offset = 0 /\ count >= 2 /\ Top \cap Buys # {} -> Sells
                [] offset = 0 /\ count >= 2 /\ Top \cap Buys = {} /\ Top \cap Sells # {} -> Buys
                [] OTHER -> {}

FaultSelect ==              \* Fault: the candidates that rank first, whatever side.
    /\ stage = "select"
    /\ selected' = Top /\ stage' = "raise"
    /\ UNCHANGED <<question, sharing, rounding>>

Select == /\ stage = "select"
          /\ selected' = IF WantedSide = {} \/ Top \cap WantedSide # {} THEN Top
                         ELSE (Top \ {LastRanked(Top)}) \cup {FirstRanked(WantedSide)}
          /\ stage' = "raise"
          /\ UNCHANGED <<question, sharing, rounding>>

\* What the selected sells can raise.
Capacity == LET Raised(i) == IF rankBy = "sek" THEN Value(i) * Unit ELSE -delta[i]
            IN SumFunctionOnSet([i \in Cand |-> Raised(i)], selected \cap Sells)

MoreSells == /\ offset < 0 /\ Capacity < -offset * Unit
             /\ selected \ Sells # {} /\ Sells \ selected # {}

\* A further sell takes the place of a candidate that is not one.
RaiseMore == /\ stage = "raise" /\ MoreSells
             /\ selected' = (selected \ {LastRanked(selected \ Sells)}) \cup {FirstRanked(Sells \ selected)}
             /\ UNCHANGED <<question, stage, sharing, rounding>>

StartSharing == /\ stage = "raise" /\ ~MoreSells
                /\ stage' = "share"
                /\ free' = selected \cap (Buys \cup Sells)
                /\ UNCHANGED <<question, selected, share, scale, clamped, fallback, passes,
                               rounding>>

-----------------------------------------------------------------------------
(* Sharing the offset.  Shares that are fixed are whole units; those that are  *)
(* free are counted in 1/WeightOf(free).                                       *)

FaultLeftToShare ==         \* Fault: forgets what the fixed candidates take.
    offset * Unit - SumFunctionOnSet(delta, free)

LeftToShare == offset * Unit - SumFunctionOnSet(share, selected \ free)
                             - SumFunctionOnSet(delta, free)

Spread(i) == delta[i] * WeightOf(free) + LeftToShare * Weight(i)

WrongWay == {i \in free : (delta[i] > 0 /\ Spread(i) < 0) \/ (delta[i] < 0 /\ Spread(i) > 0)}

\* How far a share may go: a sell to nothing, or any to its target.
Limit(i) == IF rankBy = "sek" THEN -Value(i) * Unit ELSE delta[i]

TooFar == {i \in free :
              \/ delta[i] < 0 /\ Spread(i) < Limit(i) * WeightOf(free)
              \/ rankBy = "percent" /\ delta[i] > 0 /\ Spread(i) > Limit(i) * WeightOf(free)}

FaultFixViolators ==        \* Fault: marks those that got as much as they may, too.
    /\ stage = "share" /\ WrongWay \cup TooFar # {}
    /\ share' = [i \in Cand |-> IF i \in TooFar THEN Limit(i) ELSE share[i]]
    /\ free' = free \ (WrongWay \cup TooFar)
    /\ clamped' = clamped \cup WrongWay \cup TooFar
    /\ passes' = passes + 1
    /\ UNCHANGED <<question, stage, selected, scale, fallback, rounding>>

FixViolators ==
    /\ stage = "share" /\ WrongWay \cup TooFar # {}
    /\ share' = [i \in Cand |-> IF i \in TooFar THEN Limit(i) ELSE share[i]]
    /\ free' = free \ (WrongWay \cup TooFar)
    /\ clamped' = clamped \cup WrongWay
    /\ passes' = passes + 1
    /\ UNCHANGED <<question, stage, selected, scale, fallback, rounding>>

\* All shares, in 1/SettledScale.
SettledScale == IF free = {} THEN 1 ELSE WeightOf(free)

Settled == [i \in Cand |-> IF i \in free THEN Spread(i) ELSE share[i] * SettledScale]

\* Nothing would be traded although something is off its target.
NothingShared == /\ selected \cap (Buys \cup Sells) # {}
                 /\ \A i \in selected : Settled[i] = 0

EndSharing == /\ stage = "share" /\ WrongWay \cup TooFar = {}
              /\ stage' = "round"
              /\ fallback' = NothingShared
              /\ share' = IF NothingShared
                          THEN [i \in Cand |-> IF i \in selected THEN delta[i] ELSE 0]
                          ELSE Settled
              /\ scale' = IF NothingShared THEN 1 ELSE SettledScale
              /\ clamped' = IF NothingShared THEN {} ELSE clamped
              /\ UNCHANGED <<question, selected, free, passes, rounding>>

-----------------------------------------------------------------------------
(* Whole quantities.                                                           *)

Signed(x, magnitude) == IF x < 0 THEN -magnitude ELSE magnitude

ToZero(n, d) == Signed(n, Magnitude(n) \div d)
ToNearest(n, d) == Signed(n, (2 * Magnitude(n) + d) \div (2 * d))

FaultRounded(i) ==          \* Fault: one rounding for both modes.
    ToNearest(share[i], Unit * scale * pool[i].price)

Rounded(i) == LET d == Unit * scale * pool[i].price
              IN IF rankBy = "percent" THEN ToZero(share[i], d) ELSE ToNearest(share[i], d)

\* Shares already keep their direction and their limit, so the caps only guard
\* against amounts that are not what is held at the price.
Whole(i) == CASE delta[i] > 0 /\ Rounded(i) < 0 -> 0
              [] delta[i] < 0 /\ Rounded(i) > 0 -> 0
              [] delta[i] < 0 /\ Rounded(i) < -pool[i].held -> -pool[i].held
              [] OTHER -> Rounded(i)

Net(q) == SumFunctionOnSet([i \in Cand |-> q[i] * pool[i].price], Cand)

Round == /\ stage = "round"
         /\ quantity' = [i \in Cand |-> IF i \in selected THEN Whole(i) ELSE 0]
         /\ residual' = offset - Net(quantity')
         /\ firstResidual' = residual'
         /\ stage' = IF fallback THEN "done" ELSE "repair"
         /\ UNCHANGED <<question, selected, sharing, repairs>>

\* One share more or less of i, in the direction of the residual.
Nudge == IF residual > 0 THEN 1 ELSE -1

\* The trade may shrink to nothing, or grow: a sell up to what is held, and in
\* percent mode any trade up to the target.
MayShrink(i) == Nudge * delta[i] < 0 /\ quantity[i] # 0

MayGrow(i) ==
    /\ Nudge * delta[i] > 0
    /\ delta[i] < 0 => quantity[i] > -pool[i].held
    /\ rankBy = "percent" =>
          Magnitude(quantity[i] + Nudge) * pool[i].price * Unit <= Magnitude(delta[i])

MayNudge(i) == MayShrink(i) \/ MayGrow(i)

\* A share that costs twice the residual or more would not bring it down.
Repairable == {i \in selected : /\ residual # 0 /\ MayNudge(i)
                                /\ pool[i].price < 2 * Magnitude(residual)}

Cheapest == CHOOSE i \in Repairable :
               \A j \in Repairable \ {i} : \/ pool[i].price < pool[j].price
                                           \/ pool[i].price = pool[j].price /\ i < j

Repair == /\ stage = "repair" /\ Repairable # {}
          /\ quantity' = [quantity EXCEPT ![Cheapest] = @ + Nudge]
          /\ residual' = residual - Nudge * pool[Cheapest].price
          /\ repairs' = repairs + 1
          /\ UNCHANGED <<question, stage, selected, sharing, firstResidual>>

FaultStop ==                \* Fault: goes on until nothing is left over.
    /\ stage = "repair" /\ residual = 0
    /\ stage' = "done"
    /\ UNCHANGED <<question, selected, sharing, rounding>>

Stop == /\ stage = "repair" /\ Repairable = {}
        /\ stage' = "done"
        /\ UNCHANGED <<question, selected, sharing, rounding>>

-----------------------------------------------------------------------------
Next == \/ Select \/ RaiseMore \/ StartSharing
        \/ FixViolators \/ EndSharing
        \/ Round \/ Repair \/ Stop

Spec == Init /\ [][Next]_vars /\ WF_vars(Next)

-----------------------------------------------------------------------------
(* Properties.                                                                 *)

\* Swaps keep the number of selected candidates, and leave one that can take the
\* offset; without an offset a rung of two or more can move money between sides.
SelectionServesOffset ==
    stage \notin {"select", "raise"} =>
        /\ Cardinality(selected) = count
        /\ offset > 0 => selected \cap Buys # {}
        /\ offset < 0 => selected \cap Sells # {}
        /\ offset = 0 /\ count >= 2 /\ Buys # {} =>
              selected \cap Buys # {} /\ selected \cap Sells # {}

\* If a share was left free, the shares add up to the offset.
SharesAddUp ==
    stage = "round" /\ ~fallback /\ free # {} =>
        SumFunctionOnSet(share, Cand) = offset * Unit * scale

\* The rung that falls back is one candidate picked without an offset, whose target
\* cannot be met by shares that add up to nothing (DecisionLog, 2026-07-07: the rung
\* for C = 0, N = 1).  In every other rung somebody off target is left a share,
\* whoever the passes fixed.
OnlySignalsFallBack == fallback => offset = 0 /\ count = 1 /\ clamped = {}

\* What redistribute_selected ends with serves the offset, except where nothing can.
SharesMeetOffset == SharesAddUp /\ OnlySignalsFallBack

\* Every planned trade goes toward its target and sells only what is held, and in
\* percent mode none crosses its target (DecisionLog, 2026-07-08): neither by
\* rounding nor by the repair.
TradesStopAtTargets ==
    \A i \in Cand :
        /\ quantity[i] > 0 => i \in selected \cap Buys
        /\ quantity[i] < 0 => i \in selected \cap Sells
        /\ quantity[i] >= -pool[i].held
        /\ rankBy = "percent" =>
              Magnitude(quantity[i]) * pool[i].price * Unit <= Magnitude(delta[i])

\* The assertions on the two loops: each pass fixes somebody, and repairs are
\* bounded by what the cheapest share makes of the residual.
LoopsWithinBounds ==
    /\ passes <= Cardinality(selected \cap (Buys \cup Sells))
    /\ repairs > 0 =>
          LET least == Min({pool[i].price : i \in selected})
          IN repairs <= (Magnitude(firstResidual) + least - 1) \div least + Size

\* Every rung is built, and never does an assertion on a loop fail.
RungEnds == <>(stage = "done") /\ []LoopsWithinBounds

=============================================================================
