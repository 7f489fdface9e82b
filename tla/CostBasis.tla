----------------------------- MODULE CostBasis ------------------------------
(* What an instrument's trades cost and what its sales gained: the folds of    *)
(* backend/src/domain/position.rs.  Operators only.                            *)
(*                                                                             *)
(* A trade is [id, date, kind, quantity, price, fx, brokerage]: quantity has   *)
(* the stored sign, price is per share (per eligible share of a Dividend), fx  *)
(* may be missing, brokerage is in SEK.  LedgerRows models which ledgers       *)
(* derive; here every ledger does, so the folds have no error to return.       *)
EXTENDS ExactAmounts

CONSTANT None          \* a column or a lookup that holds nothing

\* Position::empty.  The SEK cost basis and the fees inside it are known or
\* unknown together; the reasons are the trades without a rate.
EmptyPosition == [quantity |-> 0, native |-> Zero,
                  base |-> Known([cost |-> Zero, fee |-> Zero])]

Gross(t) == t.price ** Amount(t.quantity)

FaultApplyBuy(p, t) ==      \* Fault: a purchase without a rate costs its fee alone.
    [quantity |-> p.quantity + t.quantity,
     native   |-> p.native ++ Gross(t),
     base     |-> LET rate == IF t.fx = None THEN Zero ELSE t.fx
                  IN  IF ~p.base.known THEN p.base
                      ELSE Known(
                        [cost |-> p.base.value.cost ++ (Gross(t) ** rate ++ t.brokerage),
                         fee  |-> p.base.value.fee ++ t.brokerage])]

ApplyBuy(p, t) ==
    [quantity |-> p.quantity + t.quantity,
     native   |-> p.native ++ Gross(t),
     base     |-> CASE t.fx = None -> Mark(p.base, {t.id})
                    [] t.fx # None /\ ~p.base.known -> p.base
                    [] OTHER -> Known(
                        [cost |-> p.base.value.cost ++ (Gross(t) ** t.fx ++ t.brokerage),
                         fee  |-> p.base.value.fee ++ t.brokerage])]

\* A sale that leaves shares scales the basis; one that leaves none forgets it,
\* and with it that a rate was missing.
Kept(p, t) == Amount(p.quantity + t.quantity) // Amount(p.quantity)

FaultApplySell(p, t) ==     \* Fault: the basis in kronor is not scaled.
    IF p.quantity + t.quantity = 0 THEN EmptyPosition
    ELSE [p EXCEPT !.quantity = @ + t.quantity, !.native = @ ** Kept(p, t)]

ApplySell(p, t) ==
    IF p.quantity + t.quantity = 0 THEN EmptyPosition
    ELSE [quantity |-> p.quantity + t.quantity,
          native   |-> p.native ** Kept(p, t),
          base     |-> IF ~p.base.known THEN p.base
                       ELSE Known([cost |-> p.base.value.cost ** Kept(p, t),
                                   fee  |-> p.base.value.fee ** Kept(p, t)])]

ApplySplit(p, t) == [p EXCEPT !.quantity = @ + t.quantity]

ApplyTrade(p, t) ==
    CASE t.kind = "Buy"      -> ApplyBuy(p, t)
      [] t.kind = "Sell"     -> ApplySell(p, t)
      [] t.kind = "Split"    -> ApplySplit(p, t)
      [] t.kind = "Dividend" -> p

\* fold_positions: the position after each trade of a (date, id) ordered ledger.
PositionsAfter(ledger) ==
    LET at[n \in 0..Len(ledger)] ==
            IF n = 0 THEN EmptyPosition ELSE ApplyTrade(at[n - 1], ledger[n])
    IN  at

PositionOf(ledger) == PositionsAfter(ledger)[Len(ledger)]

AverageCostNative(p) ==
    IF p.quantity > 0 THEN p.native // Amount(p.quantity) ELSE None

-----------------------------------------------------------------------------
(* Realized gains.                                                             *)

NothingRealized ==
    [sold |-> 0, proceedsNative |-> Zero, costNative |-> Zero, brokerage |-> Zero,
     proceeds |-> Known(Zero), cost |-> Known(Zero), price |-> Known(Zero),
     fx |-> Known(Zero), gain |-> Known(Zero), fee |-> Known(Zero)]

\* The share of the position that a sale takes.
Taken(p, t) == Amount(-t.quantity) // Amount(p.quantity)

Mismarked(r, reasons) ==
    [r EXCEPT !.cost = Mark(@, reasons), !.price = Mark(@, reasons),
              !.fx = Mark(@, reasons), !.gain = Mark(@, reasons),
              !.fee = Mark(@, reasons)]

\* accumulate_realized_gain, with the position before the sale.
AccumulateRealizedGain(r, p, t) ==
    LET proceedsNative == t.price ** Amount(-t.quantity)
        costNative     == p.native ** Taken(p, t)
        counted == [r EXCEPT !.sold = @ - t.quantity,
                             !.proceedsNative = @ ++ proceedsNative,
                             !.costNative = @ ++ costNative,
                             !.brokerage = @ ++ t.brokerage]
    IN  IF t.fx = None
        THEN [Mismarked(counted, {t.id}) EXCEPT !.proceeds = Mark(@, {t.id})]
        ELSE LET proceeds == proceedsNative ** t.fx -- t.brokerage
                 cost == p.base.value.cost ** Taken(p, t)
                 fee  == p.base.value.fee ** Taken(p, t)
                 paid == [counted EXCEPT !.proceeds = Add(@, proceeds)]
             IN  IF ~p.base.known THEN Mismarked(paid, p.base.why)
                 ELSE [paid EXCEPT
                        !.cost  = Add(@, cost),
                        !.price = Add(@, (proceedsNative -- costNative) ** t.fx
                                           -- fee -- t.brokerage),
                        !.fx    = Add(@, costNative ** t.fx -- (cost -- fee)),
                        !.gain  = Add(@, proceeds -- cost),
                        !.fee   = Add(@, fee ++ t.brokerage)]

\* derive_position_performance.
RealizedAfter(ledger) ==
    LET before == PositionsAfter(ledger)
        at[n \in 0..Len(ledger)] ==
            CASE n = 0 -> NothingRealized
              [] n > 0 /\ ledger[n].kind = "Sell" ->
                     AccumulateRealizedGain(at[n - 1], before[n - 1], ledger[n])
              [] OTHER -> at[n - 1]
    IN  at

PositionPerformance(ledger) ==
    [position  |-> PositionOf(ledger),
     realized  |-> RealizedAfter(ledger)[Len(ledger)],
     brokerage |-> Total(LAMBDA t : t.brokerage, ledger)]

=============================================================================
