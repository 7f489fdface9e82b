---------------------------- MODULE ExactAmounts ----------------------------
(* Money and rates, and figures that may be unknown: operators only.           *)
(*                                                                             *)
(* An amount is an exact fraction <<numerator, denominator>> in lowest terms.  *)
(* rust_decimal carries 28 digits; its rounding is left out.  A figure is the  *)
(* Availability of backend/src/domain/availability.rs: a known value, or the   *)
(* set of reasons why there is none.  The order of reasons is left out.        *)
EXTENDS Integers, Sequences, FiniteSets, Folds, Functions

Fraction == Int \X (Nat \ {0})

gcd[p \in Nat \X Nat] == IF p[2] = 0 THEN p[1] ELSE gcd[<<p[2], p[1] % p[2]>>]

lowest == [p \in Int \X Int |->
              LET sign == IF p[2] < 0 THEN -1 ELSE 1
                  g == gcd[<<IF p[1] < 0 THEN -p[1] ELSE p[1], sign * p[2]>>]
              IN  <<(sign * p[1]) \div g, (sign * p[2]) \div g>>]

plus == [p \in Fraction \X Fraction |->
           lowest[<<p[1][1] * p[2][2] + p[2][1] * p[1][2], p[1][2] * p[2][2]>>]]
times == [p \in Fraction \X Fraction |-> lowest[<<p[1][1] * p[2][1], p[1][2] * p[2][2]>>]]

Amount(n) == <<n, 1>>
Zero == Amount(0)
One == Amount(1)

a ++ b == plus[<<a, b>>]
a -- b == plus[<<a, <<-b[1], b[2]>>>>]
a ** b == times[<<a, b>>]
a // b == lowest[<<a[1] * b[2], a[2] * b[1]>>]

\* The amounts: fractions in lowest terms.
Exact == {q \in Fraction : lowest[q] = q}

IsBelow(a, b) == a[1] * b[2] < b[1] * a[2]

\* The sum of the amounts f[x] of the elements x of a set.
SumOver(f, S) ==
    MapThenFoldSet(LAMBDA a, b : a ++ b, Zero, LAMBDA x : f[x],
                   LAMBDA T : CHOOSE x \in T : TRUE, S)

\* The sum of op(x) over the elements x of a sequence, or over those at some places.
TotalAt(op(_), seq, places) == SumOver([n \in places |-> op(seq[n])], places)
Total(op(_), seq) == TotalAt(op, seq, DOMAIN seq)

-----------------------------------------------------------------------------
Known(v) == [known |-> TRUE, value |-> v, why |-> {}]
Unknown(reasons) == [known |-> FALSE, value |-> Zero, why |-> reasons]

\* merge_reasons, merge_many_reasons, unavailable_or_first: never without one.
Because(reasons, fallback) ==
    Unknown(IF reasons = {} THEN {fallback} ELSE reasons)

\* BaseAmount::add and mark_unavailable: once unknown, a running amount stays
\* unknown and collects reasons.
Add(figure, v) == IF figure.known THEN Known(figure.value ++ v) ELSE figure
Mark(figure, reasons) == Unknown(figure.why \cup reasons)

\* combine_availability with +.
Both(f, g) == IF f.known /\ g.known THEN Known(f.value ++ g.value)
              ELSE Unknown(f.why \cup g.why)

\* A figure as a percentage of another: unavailable for its own reason when the
\* other is zero.
Percent(f, g, ifZero, fallback) ==
    CASE ~(f.known /\ g.known) -> Because(f.why \cup g.why, fallback)
      [] f.known /\ g.known /\ g.value = Zero -> Unknown({ifZero})
      [] OTHER -> Known((f.value // g.value) ** Amount(100))

=============================================================================
