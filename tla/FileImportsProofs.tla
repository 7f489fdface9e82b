------------------------- MODULE FileImportsProofs --------------------------
(* What holds of imports, for files of any lines and any length, and any       *)
(* ledger to import them into.                                                 *)
EXTENDS FileImports, SetsAndAmounts, SequenceTheorems

-----------------------------------------------------------------------------
(* Rows in order.                                                              *)

\* Row numbers.
Rows(S) == S \in SUBSET Nat /\ IsFiniteSet(S)

LEMMA LeastIs ==
  ASSUME NEW S \in SUBSET Nat, S # {}
  PROVE  Least(S) \in S /\ \A j \in S : Least(S) <= j
  BY SmallestOf DEF Least

LEMMA RowsAreNumbers ==
  ASSUME NEW S, Rows(S)
  PROVE  Numbers(S) /\ Cardinality(S) \in Nat
         /\ \A T \in SUBSET S : Rows(T)
<1>1. S \in SUBSET Int /\ IsFiniteSet(S)
  BY DEF Rows
<1>2. Cardinality(S) \in Nat
  BY <1>1, FS_CardinalityType
<1>3. ASSUME NEW T \in SUBSET S  PROVE Rows(T)
  BY <1>1, FS_Subset DEF Rows
<1>. QED  BY <1>1, <1>2, <1>3 DEF Numbers

\* A listing of rows goes up and leaves none out.
LEMMA InOrderIs ==
  ASSUME NEW S, Rows(S)
  PROVE  /\ DOMAIN InOrder(S) = 1..Cardinality(S) /\ Cardinality(S) \in Nat
         /\ \A n \in 1..Cardinality(S) : InOrder(S)[n] \in S /\ Rank(S, InOrder(S)[n]) = n
         /\ \A k \in S : /\ Rank(S, k) \in 1..Cardinality(S)
                         /\ InOrder(S)[Rank(S, k)] = k
         /\ \A j, k \in S : j < k <=> Rank(S, j) < Rank(S, k)
<1>1. /\ S \in SUBSET Int /\ IsFiniteSet(S) /\ Cardinality(S) \in Nat
      /\ \A k \in S : Rank(S, k) \in 1..Cardinality(S)
      /\ \A j, k \in S : j < k => Rank(S, j) < Rank(S, k)
  BY Ranks DEF Rows
<1>2. InOrder(S) = [n \in 1..Cardinality(S) |-> CHOOSE k \in S : Rank(S, k) = n]
  BY DEF InOrder, Rank
<1>3. \A n \in 1..Cardinality(S) : InOrder(S)[n] \in S /\ Rank(S, InOrder(S)[n]) = n
  <2> SUFFICES ASSUME NEW n \in 1..Cardinality(S)
               PROVE  InOrder(S)[n] \in S /\ Rank(S, InOrder(S)[n]) = n
    OBVIOUS
  <2>1. \E k \in S : Rank(S, k) = n
    BY <1>1, RankReached
  <2>. QED  BY <1>2, <2>1
<1>4. \A k \in S : InOrder(S)[Rank(S, k)] = k
  <2> SUFFICES ASSUME NEW k \in S  PROVE InOrder(S)[Rank(S, k)] = k
    OBVIOUS
  <2>1. PICK j : j = InOrder(S)[Rank(S, k)]
    OBVIOUS
  <2>2. j \in S /\ Rank(S, j) = Rank(S, k)
    BY <1>1, <1>3, <2>1
  <2>. QED  BY <1>1, <2>1, <2>2, RankInjective
<1>5. \A j, k \in S : Rank(S, j) < Rank(S, k) => j < k
  <2> SUFFICES ASSUME NEW j \in S, NEW k \in S, Rank(S, j) < Rank(S, k), ~(j < k)
               PROVE  FALSE
    OBVIOUS
  <2>1. j = k \/ k < j
    BY <1>1
  <2>. QED  BY <1>1, <2>1
<1>. QED  BY <1>1, <1>2, <1>3, <1>4, <1>5

-----------------------------------------------------------------------------
(* Cells and lines.                                                            *)

LinesFit(lines) ==
    /\ Len(lines) \in Nat /\ DOMAIN lines = 1..Len(lines)
    /\ \A k \in DOMAIN lines : LineFits(lines[k])

\* A line that was read for Avanza.
IsRead(line) ==
    /\ line.is = "trade"
    /\ line.date \in Int /\ line.asset # Blank /\ line.quantity \in Exact
    /\ \A cell \in {line.price, line.amount, line.fee, line.fx} : cell \in Exact \cup {Blank}

LEMMA AvanzaLineRead ==
  ASSUME NEW line, LineFits(line), AvanzaReads(line)
  PROVE  IsRead(line)
  BY DEF LineFits, AvanzaReads, IsRead

LEMMA ExactParts ==
  ASSUME NEW q \in Exact
  PROVE  /\ q[1] \in Int /\ q[2] \in Nat \ {0} /\ q = <<q[1], q[2]>>
         /\ Whole64(q) \in Int
         /\ Unsigned(q) \in Exact /\ Unsigned(q)[1] \in Nat
         /\ Whole64(Unsigned(q)) \in Nat
         /\ q[1] >= 0 => Unsigned(q) = q
         /\ IsWhole(q) => q = Amount(q[1]) /\ Whole64(q) = q[1]
<1>1. q[1] \in Int /\ q[2] \in Nat \ {0} /\ q = <<q[1], q[2]>>
  BY DEF Exact, Fraction
<1>2. PICK n \in Int, d \in Nat \ {0} : q = <<n, d>>
  BY <1>1
<1>3. Whole64(q) \in Int
  <2>1. (-n) \div d \in Int /\ n \div d \in Int
    BY Division
  <2>. QED  BY <1>2, <2>1 DEF Whole64
<1>5. <<-n, d>> \in Exact
  BY <1>2, NegatedExact
<1>6. Unsigned(q) = <<IF n < 0 THEN -n ELSE n, d>>
  BY <1>2 DEF Unsigned
<1>7. Unsigned(q) \in Exact /\ Unsigned(q)[1] \in Nat
  BY <1>2, <1>5, <1>6
<1>8. Whole64(Unsigned(q)) \in Nat
  <2>1. PICK m \in Nat : m = IF n < 0 THEN -n ELSE n
    OBVIOUS
  <2>2. m \div d \in Nat
    BY Division
  <2>. QED  BY <1>6, <2>1, <2>2 DEF Whole64
<1>9. IsWhole(q) => q = Amount(q[1]) /\ Whole64(q) = q[1]
  <2> SUFFICES ASSUME IsWhole(q)  PROVE q = Amount(q[1]) /\ Whole64(q) = q[1]
    OBVIOUS
  <2>1. d = 1
    BY <1>2 DEF IsWhole
  <2>2. \A m \in Int : m \div 1 = m
    OBVIOUS
  <2>3. -n \in Int /\ -(-n) = n
    OBVIOUS
  <2>4. (-n) \div 1 = -n /\ n \div 1 = n
    BY <2>2, <2>3
  <2>. QED  BY <1>2, <2>1, <2>3, <2>4 DEF Amount, Whole64
<1>10. q[1] >= 0 => Unsigned(q) = q
  BY <1>2, <1>6
<1>. QED  BY <1>1, <1>3, <1>7, <1>8, <1>9, <1>10

-----------------------------------------------------------------------------
(* Ledgers: derivation goes entry by entry.                                    *)

IsEntry(t) == t.id \in Int /\ Derived!HasColumns(t)

IsLedger(L) == /\ IsFiniteSet(L)
               /\ \A t \in L : IsEntry(t)
               /\ \A t, u \in L : t.id = u.id => t = u

LEMMA Ordered ==
  ASSUME NEW L, IsLedger(L)
  PROVE  /\ \A t \in L : ~Derived!Before(t, t)
         /\ \A t, u \in L : t # u => Derived!Before(t, u) \/ Derived!Before(u, t)
         /\ \A t, u, v \in L : Derived!Before(t, u) /\ Derived!Before(u, v) => Derived!Before(t, v)
  BY DEF IsLedger, IsEntry, Derived!HasColumns, Derived!Before

LEMMA SubLedger ==
  ASSUME NEW L, IsLedger(L), NEW S \in SUBSET L
  PROVE  IsLedger(S)
  BY FS_Subset DEF IsLedger

LEMMA LastIsLast ==
  ASSUME NEW L, IsLedger(L), L # {}
  PROVE  Derived!LastOf(L) \in L 
         /\ \A u \in L \ {Derived!LastOf(L)} : Derived!Before(u, Derived!LastOf(L))
<1> DEFINE HasLast(S) == \E t \in S : \A u \in S \ {t} : Derived!Before(u, t)
           Failing == {S \in SUBSET L : S # {} /\ ~HasLast(S)}
<1>1. Failing = {}
  <2> SUFFICES ASSUME Failing # {}  PROVE FALSE
    OBVIOUS
  <2>1. Failing \in SUBSET (SUBSET L) /\ IsFiniteSet(L)
    BY DEF IsLedger
  <2>2. PICK S \in Failing : \A T \in SUBSET S : T # S => T \notin Failing
    <3>. HIDE DEF Failing
    <3>. QED  BY <2>1, SmallestBad
  <2>3. PICK x : x \in S
    BY <2>2
  <2>4. S \ {x} # {}
    BY <2>2, <2>3
  <2>5. HasLast(S \ {x})
    <3>1. S \ {x} \in SUBSET L /\ S \ {x} \notin Failing
      BY <2>2, <2>3
    <3>. HIDE DEF HasLast
    <3>. QED  BY <2>4, <3>1
  <2>6. PICK t \in S \ {x} : \A u \in (S \ {x}) \ {t} : Derived!Before(u, t)
    BY <2>5
  <2>7. S \subseteq L
    BY <2>2
  <2>8. CASE Derived!Before(x, t)
    <3>1. \A u \in S \ {t} : Derived!Before(u, t)
      BY <2>6, <2>8
    <3>. QED  BY <2>2, <2>6, <3>1
  <2>9. CASE Derived!Before(t, x)
    <3>1. \A u \in S \ {x} : Derived!Before(u, x)
      BY <2>3, <2>6, <2>7, <2>9, Ordered
    <3>. QED  BY <2>2, <2>3, <3>1
  <2>. QED  BY <2>3, <2>6, <2>7, <2>8, <2>9, Ordered
<1>2. HasLast(L)
  BY <1>1
<1>. QED  BY <1>2 DEF Derived!LastOf

LEMMA OnlyLast ==
  ASSUME NEW L, IsLedger(L), NEW t \in L, \A u \in L \ {t} : Derived!Before(u, t)
  PROVE  Derived!LastOf(L) = t
  BY LastIsLast, Ordered

FoldStep(h, S) == IF S = {} THEN 0 ELSE Derived!Apply(h[S \ {Derived!LastOf(S)}], Derived!LastOf(S))

Folds(L, h) == h = [S \in SUBSET L |-> FoldStep(h, S)]

LEMMA FoldExists ==
  ASSUME NEW L, IsLedger(L)
  PROVE  \E h : Folds(L, h)
<1> DEFINE Failing == {S \in SUBSET L : ~\E h : Folds(S, h)}
<1>1. Failing = {}
  <2> SUFFICES ASSUME Failing # {}  PROVE FALSE
    OBVIOUS
  <2>1. Failing \in SUBSET (SUBSET L) /\ IsFiniteSet(L)
    BY DEF IsLedger
  <2>2. PICK S \in Failing : \A T \in SUBSET S : T # S => T \notin Failing
    <3>. HIDE DEF Failing
    <3>. QED  BY <2>1, SmallestBad
  <2>3. S \in SUBSET L /\ IsLedger(S)
    BY <2>2, SubLedger
  <2>4. CASE S = {}
    <3> DEFINE h == [T \in SUBSET {} |-> 0]
    <3>1. h = [T \in SUBSET {} |-> FoldStep(h, T)]
      BY DEF FoldStep
    <3>. QED  BY <2>2, <2>4, <3>1 DEF Folds
  <2>5. CASE S # {}
    <3> DEFINE x == Derived!LastOf(S)
               R == S \ {x}
    <3>1. x \in S /\ \A u \in R : Derived!Before(u, x)
      BY <2>3, <2>5, LastIsLast
    <3>2. PICK h : Folds(R, h)
      BY <2>2, <3>1
    <3> DEFINE g == [T \in SUBSET S |-> FoldStep(h, T)]
    <3>3. \A T \in SUBSET R : g[T] = h[T]
      BY <3>2 DEF Folds
    <3>4. ASSUME NEW T \in SUBSET S, T # {}
          PROVE  T \ {Derived!LastOf(T)} \in SUBSET R
      <4>1. CASE x \in T
        <5>1. Derived!LastOf(T) = x
          BY <2>3, <3>1, <4>1, SubLedger, OnlyLast
        <5>. QED  BY <5>1
      <4>2. CASE x \notin T
        BY <4>2
      <4>. QED  BY <4>1, <4>2
    <3>5. \A T \in SUBSET S : FoldStep(g, T) = FoldStep(h, T)
      <4>. HIDE DEF g, R
      <4>. QED  BY <3>3, <3>4 DEF FoldStep
    <3>6. g = [T \in SUBSET S |-> FoldStep(g, T)]
      BY <3>5
    <3>. QED  BY <2>2, <3>6 DEF Folds
  <2>. QED  BY <2>4, <2>5
<1>. QED  BY <1>1

LEMMA DeriveIsFold ==
  ASSUME NEW L, IsLedger(L)
  PROVE  \E h : Folds(L, h) /\ Derived!DerivePosition(L) = h[L]
<1> DEFINE F == CHOOSE h : h = [S \in SUBSET L |->
                  IF S = {} THEN 0
                  ELSE Derived!Apply(h[S \ {Derived!LastOf(S)}], Derived!LastOf(S))]
<1>1. Derived!DerivePosition(L) = F[L]
  BY DEF Derived!DerivePosition
<1>2. \E h : h = [S \in SUBSET L |->
                  IF S = {} THEN 0
                  ELSE Derived!Apply(h[S \ {Derived!LastOf(S)}], Derived!LastOf(S))]
  BY FoldExists DEF Folds, FoldStep
<1>3. F = [S \in SUBSET L |->
                  IF S = {} THEN 0
                  ELSE Derived!Apply(F[S \ {Derived!LastOf(S)}], Derived!LastOf(S))]
  BY <1>2
<1>4. Folds(L, F)
  BY <1>3 DEF Folds, FoldStep
<1>. QED  BY <1>1, <1>4

LEMMA SameFold ==
  ASSUME NEW L, NEW M, NEW h, NEW g, Folds(L, h), Folds(M, g), IsLedger(L),
         NEW S \in SUBSET (L \cap M)
  PROVE  h[S] = g[S]
<1> DEFINE Failing == {T \in SUBSET (L \cap M) : h[T] # g[T]}
<1>1. Failing = {}
  <2> SUFFICES ASSUME Failing # {}  PROVE FALSE
    OBVIOUS
  <2>1. Failing \in SUBSET (SUBSET L) /\ IsFiniteSet(L)
    BY DEF IsLedger
  <2>2. PICK T \in Failing : \A U \in SUBSET T : U # T => U \notin Failing
    <3>. HIDE DEF Failing
    <3>. QED  BY <2>1, SmallestBad
  <2>3. T \in SUBSET L /\ T \in SUBSET M /\ h[T] # g[T]
    BY <2>2
  <2>4. h[T] = FoldStep(h, T) /\ g[T] = FoldStep(g, T)
    BY <2>3 DEF Folds
  <2>5. T # {}
    BY <2>3, <2>4 DEF FoldStep
  <2>6. IsLedger(T) /\ Derived!LastOf(T) \in T
    BY <2>3, <2>5, SubLedger, LastIsLast
  <2>7. h[T \ {Derived!LastOf(T)}] = g[T \ {Derived!LastOf(T)}]
    BY <2>2, <2>3, <2>6
  <2>. QED  BY <2>3, <2>4, <2>7 DEF FoldStep
<1>. QED  BY <1>1

LEMMA DeriveStep ==
  ASSUME NEW L, IsLedger(L)
  PROVE  Derived!DerivePosition(L) =
           IF L = {} THEN 0
           ELSE Derived!Apply(Derived!DerivePosition(L \ {Derived!LastOf(L)}), Derived!LastOf(L))
<1>1. PICK h : Folds(L, h) /\ Derived!DerivePosition(L) = h[L]
  BY DeriveIsFold
<1>2. h[L] = FoldStep(h, L)
  BY <1>1 DEF Folds
<1>3. CASE L # {}
  <2> DEFINE R == L \ {Derived!LastOf(L)}
  <2>1. IsLedger(R) /\ R \in SUBSET (L \cap R)
    BY SubLedger
  <2>2. PICK g : Folds(R, g) /\ Derived!DerivePosition(R) = g[R]
    BY <2>1, DeriveIsFold
  <2>3. h[R] = g[R]
    BY <1>1, <2>1, <2>2, SameFold
  <2>. QED  BY <1>1, <1>2, <1>3, <2>2, <2>3 DEF FoldStep
<1>. QED  BY <1>1, <1>2, <1>3 DEF FoldStep

\* Derivation sees the order of the entries, their kinds and quantities, and no ids.
LEMMA SameOrder ==
  ASSUME NEW L, NEW M, IsLedger(L), IsLedger(M), NEW f \in [L -> M],
         \A t \in L : f[t].kind = t.kind /\ f[t].quantity = t.quantity,
         \A t, u \in L : Derived!Before(t, u) => Derived!Before(f[t], f[u])
  PROVE  Derived!DerivePosition({f[t] : t \in L}) = Derived!DerivePosition(L)
<1> DEFINE Image(S) == {f[t] : t \in S}
           Failing == {S \in SUBSET L : Derived!DerivePosition(Image(S)) # Derived!DerivePosition(S)}
<1>1. Failing = {}
  <2> SUFFICES ASSUME Failing # {}  PROVE FALSE
    OBVIOUS
  <2>1. Failing \in SUBSET (SUBSET L) /\ IsFiniteSet(L)
    BY DEF IsLedger
  <2>2. PICK S \in Failing : \A T \in SUBSET S : T # S => T \notin Failing
    <3>. HIDE DEF Failing
    <3>. QED  BY <2>1, SmallestBad
  <2>3. S \in SUBSET L /\ Derived!DerivePosition(Image(S)) # Derived!DerivePosition(S)
    BY <2>2
  <2>4. S # {}
    BY <2>3
  <2> DEFINE x == Derived!LastOf(S)
  <2>5. IsLedger(S) /\ x \in S /\ \A u \in S \ {x} : Derived!Before(u, x)
    BY <2>3, <2>4, SubLedger, LastIsLast
  <2>6. IsLedger(Image(S)) /\ f[x] \in Image(S)
    BY <2>3, <2>5, SubLedger
  <2>7. \A u \in S \ {x} : Derived!Before(f[u], f[x]) /\ f[u] # f[x]
    BY <2>3, <2>5, Ordered
  <2>8. Derived!LastOf(Image(S)) = f[x]
    <3>1. \A y \in Image(S) \ {f[x]} : Derived!Before(y, f[x])
      BY <2>7
    <3>. HIDE DEF Image, x
    <3>. QED  BY <2>6, <3>1, OnlyLast
  <2>9. Image(S) \ {f[x]} = Image(S \ {x})
    BY <2>5, <2>7
  <2>10. Derived!DerivePosition(Image(S \ {x})) = Derived!DerivePosition(S \ {x})
    <3>1. S \ {x} \in SUBSET L /\ S \ {x} \notin Failing
      BY <2>2, <2>3, <2>5
    <3>. HIDE DEF Image, x
    <3>. QED  BY <3>1
  <2>11. Derived!DerivePosition(Image(S))
           = Derived!Apply(Derived!DerivePosition(Image(S \ {x})), f[x])
    <3>1. Image(S) # {}
      BY <2>6
    <3>. HIDE DEF Image, x
    <3>. QED  BY <2>6, <2>8, <2>9, <3>1, DeriveStep
  <2>12. Derived!DerivePosition(S) = Derived!Apply(Derived!DerivePosition(S \ {x}), x)
    BY <2>4, <2>5, DeriveStep
  <2>13. f[x].kind = x.kind /\ f[x].quantity = x.quantity /\ x.kind \in Derived!Kind
    BY <2>3, <2>5 DEF IsLedger, IsEntry, Derived!HasColumns
  <2>14. \A held : Derived!Apply(held, f[x]) = Derived!Apply(held, x)
    <3>. HIDE DEF x
    <3>. QED  BY <2>13 DEF Derived!Apply, Derived!Kind
  <2>. HIDE DEF Image, x
  <2>. QED  BY <2>3, <2>10, <2>11, <2>12, <2>14
<1>. QED  BY <1>1

UpTo(L, n) == {t \in L : t = n \/ Derived!Before(t, n)}

\* What breaks a fold early breaks it for good.
LEMMA BeginningsDerive ==
  ASSUME NEW L, IsLedger(L), Derived!Derivable(L), NEW n \in L
  PROVE  Derived!Derivable(UpTo(L, n))
<1> DEFINE Failing == {S \in SUBSET L : /\ n \in S /\ Derived!Derivable(S)
                                        /\ ~Derived!Derivable(UpTo(S, n))}
<1>1. Failing = {}
  <2> SUFFICES ASSUME Failing # {}  PROVE FALSE
    OBVIOUS
  <2>1. Failing \in SUBSET (SUBSET L) /\ IsFiniteSet(L)
    BY DEF IsLedger
  <2>2. PICK S \in Failing : \A T \in SUBSET S : T # S => T \notin Failing
    <3>. HIDE DEF Failing
    <3>. QED  BY <2>1, SmallestBad
  <2>3. S \in SUBSET L /\ n \in S /\ Derived!Derivable(S) /\ ~Derived!Derivable(UpTo(S, n))
    BY <2>2
  <2>4. IsLedger(S)
    BY <2>3, SubLedger
  <2> DEFINE x == Derived!LastOf(S)
  <2>5. x \in S /\ \A u \in S \ {x} : Derived!Before(u, x)
    BY <2>3, <2>4, LastIsLast
  <2>6. Derived!DerivePosition(S) = Derived!Apply(Derived!DerivePosition(S \ {x}), x)
    BY <2>3, <2>4, DeriveStep
  <2>. HIDE DEF x
  <2>7. Derived!Derivable(S \ {x})
    BY <2>3, <2>6 DEF Derived!Derivable, Derived!Apply
  <2>8. x # n
    <3>1. x = n => UpTo(S, n) = S
      BY <2>3, <2>5 DEF UpTo
    <3>. QED  BY <2>3, <3>1
  <2>9. UpTo(S \ {x}, n) = UpTo(S, n)
    <3>1. ~Derived!Before(x, n)
      BY <2>3, <2>4, <2>5, <2>8, Ordered
    <3>. QED  BY <2>8, <3>1 DEF UpTo
  <2>. QED  BY <2>2, <2>3, <2>5, <2>7, <2>8, <2>9
<1>. QED  BY <1>1

\* What is held before an entry derives with the whole.
Earlier(L, x) == {e \in L : Derived!Before(e, x)}

LEMMA EarlierDerives ==
  ASSUME NEW L, IsLedger(L), Derived!Derivable(L), NEW x \in L
  PROVE  IsLedger(Earlier(L, x)) /\ Derived!Derivable(Earlier(L, x))
<1> DEFINE U == UpTo(L, x)
<1>1. Derived!Derivable(U) /\ IsLedger(U) /\ x \in U
  BY BeginningsDerive, SubLedger DEF UpTo
<1>2. \A u \in U \ {x} : Derived!Before(u, x)
  BY DEF UpTo
<1>3. Derived!LastOf(U) = x
  <2>. HIDE DEF U
  <2>. QED  BY <1>1, <1>2, OnlyLast
<1>4. U \ {x} = Earlier(L, x)
  BY Ordered DEF UpTo, Earlier
<1>5. Derived!DerivePosition(U) = Derived!Apply(Derived!DerivePosition(Earlier(L, x)), x)
  <2>. HIDE DEF U
  <2>. QED  BY <1>1, <1>3, <1>4, DeriveStep
<1>6. IsLedger(Earlier(L, x))
  BY SubLedger DEF Earlier
<1>. HIDE DEF U
<1>. QED  BY <1>1, <1>5, <1>6 DEF Derived!Derivable, Derived!Apply

\* What derives is the sum of its trades, and never below zero.
Traded(L) == {t \in L : t.kind # "Dividend"}

LEMMA HeldIsSum ==
  ASSUME NEW L, IsLedger(L), \A t \in L : t.kind = "Buy" => t.quantity > 0,
         NEW q, \A t \in L : q[t] = t.quantity, Derived!Derivable(L)
  PROVE  Derived!DerivePosition(L) = SumFunctionOnSet(q, Traded(L))
<1> DEFINE Good(S) == /\ Derived!DerivePosition(S) = SumFunctionOnSet(q, Traded(S))
                      /\ Derived!DerivePosition(S) \in Nat
           Failing == {S \in SUBSET L : Derived!Derivable(S) /\ ~Good(S)}
<1>1. Failing = {}
  <2> SUFFICES ASSUME Failing # {}  PROVE FALSE
    OBVIOUS
  <2>1. Failing \in SUBSET (SUBSET L) /\ IsFiniteSet(L)
    BY DEF IsLedger
  <2>2. PICK S \in Failing : \A T \in SUBSET S : T # S => T \notin Failing
    <3>. HIDE DEF Failing
    <3>. QED  BY <2>1, SmallestBad
  <2>3. S \in SUBSET L /\ Derived!Derivable(S) /\ ~Good(S)
    BY <2>2
  <2>4. IsLedger(S)
    BY <2>3, SubLedger
  <2>5. S # {}
    <3> SUFFICES ASSUME S = {}  PROVE FALSE
      OBVIOUS
    <3>1. Derived!DerivePosition({}) = 0
      BY <2>4, DeriveStep
    <3>2. Traded({}) = {}
      BY DEF Traded
    <3>. QED  BY <2>3, <3>1, <3>2, SumOfNone
  <2> DEFINE x == Derived!LastOf(S)
             R == S \ {x}
             held == Derived!DerivePosition(R)
  <2>6. x \in S /\ Derived!DerivePosition(S) = Derived!Apply(held, x)
    BY <2>4, <2>5, LastIsLast, DeriveStep
  <2>7. /\ x.quantity \in Int /\ x.kind \in Derived!Kind /\ q[x] = x.quantity
        /\ x.kind = "Buy" => x.quantity > 0
    <3>. HIDE DEF x
    <3>. QED  BY <2>3, <2>6 DEF IsLedger, IsEntry, Derived!HasColumns
  <2>8. held # Derived!Broken
    BY <2>3, <2>6 DEF Derived!Apply, Derived!Derivable
  <2>9. Good(R)
    <3>1. R \in SUBSET L /\ R \in SUBSET S /\ R # S
      BY <2>3, <2>6
    <3>. HIDE DEF R, Good
    <3>. QED  BY <2>2, <2>8, <3>1 DEF Derived!Derivable
  <2>10. Adds(q, Traded(S))
    <3>1. IsFiniteSet(Traded(S))
      BY <2>4, FS_Subset DEF Traded, IsLedger
    <3>2. \A t \in S : q[t] = t.quantity /\ t.quantity \in Int
      BY <2>3 DEF IsLedger, IsEntry, Derived!HasColumns
    <3>. QED  BY <3>1, <3>2 DEF Adds, Traded
  <2>11. SumFunctionOnSet(q, Traded(S))
           = IF x.kind = "Dividend" THEN held ELSE x.quantity + held
    <3>1. Traded(R) = IF x.kind = "Dividend" THEN Traded(S) ELSE Traded(S) \ {x}
      BY <2>6 DEF Traded
    <3>2. x.kind # "Dividend" => x \in Traded(S)
      BY <2>6 DEF Traded
    <3>3. held = SumFunctionOnSet(q, Traded(R))
      BY <2>9
    <3>. HIDE DEF x, R, held
    <3>4. CASE x.kind = "Dividend"
      BY <3>1, <3>3, <3>4
    <3>5. CASE x.kind # "Dividend"
      BY <2>7, <2>10, <3>1, <3>2, <3>3, <3>5, SumOfOne
    <3>. QED  BY <3>4, <3>5
  <2>12. Derived!Apply(held, x) # Derived!Broken
    BY <2>3, <2>6 DEF Derived!Derivable
  <2>13. held \in Nat
    BY <2>9
  <2>. HIDE DEF x, R, held
  <2>14. Derived!Apply(held, x) = (IF x.kind = "Dividend" THEN held ELSE held + x.quantity)
         /\ Derived!Apply(held, x) \in Nat
    BY <2>7, <2>8, <2>12, <2>13 DEF Derived!Apply, Derived!Kind, Derived!Broken
  <2>. QED  BY <2>3, <2>6, <2>7, <2>11, <2>13, <2>14
<1>2. L \in SUBSET L
  OBVIOUS
<1>. HIDE DEF Good
<1>3. Good(L)
  BY <1>1, <1>2
<1>. QED  BY <1>3 DEF Good

-----------------------------------------------------------------------------
(* What Avanza's lines become: the rows one by one, and after them the splits. *)

FileRows(lines) == {k \in DOMAIN lines : k > 1 /\ lines[k].is # "empty"}

LEMMA AvanzaTrades ==
  ASSUME NEW lines, LinesFit(lines), AvanzaRows(lines) # Bad
  PROVE  /\ Rows(FileRows(lines))
         /\ \A k \in FileRows(lines) : IsRead(lines[k])
         /\ LET rows == AvanzaRows(lines) IN {rows[n] : n \in DOMAIN rows} = FileRows(lines)
         /\ {k \in DOMAIN lines : lines[k].is = "trade"} = FileRows(lines)
<1>1. /\ lines # <<>> /\ lines[1].is = "heading"
      /\ \A k \in FileRows(lines) : AvanzaReads(lines[k])
      /\ AvanzaRows(lines) = InOrder(FileRows(lines))
  BY DEF AvanzaRows, FileRows
<1>2. Rows(FileRows(lines))
  <2>1. FileRows(lines) \subseteq 1..Len(lines) /\ Len(lines) \in Nat
    BY DEF FileRows, LinesFit
  <2>2. IsFiniteSet(1..Len(lines))
    BY <2>1, FS_Interval
  <2>. QED  BY <2>1, <2>2, FS_Subset DEF Rows
<1>3. \A k \in FileRows(lines) : IsRead(lines[k])
  <2> SUFFICES ASSUME NEW k \in FileRows(lines)  PROVE IsRead(lines[k])
    OBVIOUS
  <2>1. LineFits(lines[k]) /\ AvanzaReads(lines[k])
    BY <1>1 DEF LinesFit, FileRows
  <2>. QED  BY <2>1, AvanzaLineRead
<1>4. LET rows == AvanzaRows(lines) IN {rows[n] : n \in DOMAIN rows} = FileRows(lines)
  <2> DEFINE S == FileRows(lines)
             listed == InOrder(S)
  <2>. HIDE DEF S
  <2>1. /\ DOMAIN listed = 1..Cardinality(S)
        /\ \A n \in 1..Cardinality(S) : listed[n] \in S
        /\ \A k \in S : Rank(S, k) \in 1..Cardinality(S) /\ listed[Rank(S, k)] = k
    BY <1>2, InOrderIs DEF S
  <2>. HIDE DEF listed
  <2>2. {listed[n] : n \in DOMAIN listed} = S
    BY <2>1
  <2>. QED  BY <1>1, <2>2 DEF listed, S
<1>5. {k \in DOMAIN lines : lines[k].is = "trade"} = FileRows(lines)
  <2>1. \A k \in FileRows(lines) : lines[k].is = "trade" /\ k \in DOMAIN lines
    BY <1>1 DEF AvanzaReads, FileRows
  <2>2. \A k \in DOMAIN lines : lines[k].is = "trade" => k > 1 /\ lines[k].is # "empty"
    BY <1>1 DEF LinesFit
  <2>. QED  BY <2>1, <2>2 DEF FileRows
<1>. QED  BY <1>2, <1>3, <1>4, <1>5

\* The rows of a file that was read.
AreRead(lines, trades) == Rows(trades) /\ \A k \in trades : IsRead(lines[k])

\* A group of splits, with its first row k, is all there is of its ISIN on its day.
GroupFits(lines, trades, g, k) ==
    /\ g \in SUBSET trades /\ k \in g /\ k \in trades
    /\ lines[k].kind = "Split" /\ lines[k].asset # ""
    /\ g = SplitGroup(lines, trades, lines[k].asset, lines[k].date)

LEMMA SplitGroupsAre ==
  ASSUME NEW lines, NEW trades, AreRead(lines, trades)
  PROVE  /\ IsFiniteSet(SplitGroups(lines, trades))
         /\ Cardinality(SplitGroups(lines, trades)) \in Nat
         /\ \A g \in SplitGroups(lines, trades) : GroupFits(lines, trades, g, Least(g))
<1> DEFINE D == SplitRows(lines, trades)
           f == [k \in D |-> SplitGroup(lines, trades, lines[k].asset, lines[k].date)]
<1>1. D \in SUBSET trades /\ IsFiniteSet(D)
  BY FS_Subset DEF AreRead, Rows, SplitRows
<1>2. IsFiniteSet({f[k] : k \in D})
  <2>1. f \in [D -> {f[k] : k \in D}] /\ \A y \in {f[k] : k \in D} : \E x \in D : f[x] = y
    OBVIOUS
  <2>2. f \in Surjection(D, {f[k] : k \in D})
    <3>. HIDE DEF f, D
    <3>. QED  BY <2>1 DEF Surjection
  <2>. HIDE DEF f, D
  <2>. QED  BY <1>1, <2>2, FS_Surjection
<1>3. SplitGroups(lines, trades) = {f[k] : k \in D}
  BY DEF SplitGroups
<1>4. ASSUME NEW g \in SplitGroups(lines, trades)
      PROVE  GroupFits(lines, trades, g, Least(g))
  <2>1. PICK j \in D : g = SplitGroup(lines, trades, lines[j].asset, lines[j].date)
    BY DEF SplitGroups
  <2>2. j \in g /\ g \subseteq trades
    BY <2>1 DEF SplitGroup, OfKind, SplitRows
  <2>3. g \in SUBSET Nat /\ g # {}
    BY <2>2 DEF AreRead, Rows
  <2>4. PICK k : k = Least(g)
    OBVIOUS
  <2>5. k \in g
    BY <2>3, <2>4, LeastIs
  <2>6. lines[k].kind = "Split" /\ lines[k].asset = lines[j].asset /\ lines[k].date = lines[j].date
    BY <2>1, <2>5 DEF SplitGroup, OfKind
  <2>7. lines[j].asset # ""
    BY <2>1 DEF SplitRows
  <2>. QED  BY <2>1, <2>2, <2>4, <2>5, <2>6, <2>7 DEF GroupFits
<1>. HIDE DEF f, D
<1>. QED  BY <1>2, <1>3, <1>4, FS_CardinalityType

\* They follow each other by day and row.
SplitOrder(lines, groups) ==
    {p \in groups \X groups :
        \/ lines[Least(p[1])].date < lines[Least(p[2])].date
        \/ /\ lines[Least(p[1])].date = lines[Least(p[2])].date
           /\ Least(p[1]) < Least(p[2])}
SplitPlace(lines, groups, g) == PlaceIn(groups, SplitOrder(lines, groups), g)

SplitList(lines, trades) == SplitsInOrder(lines, SplitGroups(lines, trades))

LEMMA SplitsAre ==
  ASSUME NEW lines, NEW trades, AreRead(lines, trades)
  PROVE  /\ DOMAIN SplitList(lines, trades) = 1..Cardinality(SplitGroups(lines, trades))
         /\ \A g \in SplitGroups(lines, trades) :
               /\ SplitPlace(lines, SplitGroups(lines, trades), g)
                    \in 1..Cardinality(SplitGroups(lines, trades))
               /\ SplitList(lines, trades)[SplitPlace(lines, SplitGroups(lines, trades), g)] = g
         /\ \A n \in 1..Cardinality(SplitGroups(lines, trades)) :
               \E g \in SplitGroups(lines, trades) :
                  SplitPlace(lines, SplitGroups(lines, trades), g) = n
<1> DEFINE groups == SplitGroups(lines, trades)
           R == SplitOrder(lines, groups)
           place(g) == PlaceIn(groups, R, g)
           date(g) == lines[Least(g)].date
<1>1. IsFiniteSet(groups)
  BY SplitGroupsAre
<1>2. \A g \in groups : date(g) \in Int /\ Least(g) \in Nat
  BY SplitGroupsAre DEF AreRead, Rows, IsRead, GroupFits
<1>3. \A g, h \in groups : Least(g) = Least(h) => g = h
  <2> SUFFICES ASSUME NEW g \in groups, NEW h \in groups, Least(g) = Least(h)
               PROVE  g = h
    OBVIOUS
  <2>1. PICK k : k = Least(g) /\ k = Least(h)
    OBVIOUS
  <2>2. GroupFits(lines, trades, g, k) /\ GroupFits(lines, trades, h, k)
    BY <2>1, SplitGroupsAre
  <2>. QED  BY <2>2 DEF GroupFits
<1>4. \A g, h \in groups : <<g, h>> \in R <=> \/ date(g) < date(h)
                                              \/ date(g) = date(h) /\ Least(g) < Least(h)
  BY DEF SplitOrder
<1>. HIDE DEF date, R
<1>5. Orders(R, groups)
  BY <1>2, <1>3, <1>4 DEF Orders
<1>6. /\ Cardinality(groups) \in Nat
      /\ \A g \in groups : place(g) \in 1..Cardinality(groups)
      /\ \A g, h \in groups : place(g) = place(h) => g = h
      /\ \A n \in 1..Cardinality(groups) : \E g \in groups : place(g) = n
  BY <1>1, <1>5, Places
<1> DEFINE upTo(g) == {h \in groups : \/ lines[Least(h)].date < lines[Least(g)].date
                                      \/ /\ lines[Least(h)].date = lines[Least(g)].date
                                         /\ Least(h) <= Least(g)}
<1>7. \A g \in groups : Cardinality(upTo(g)) = place(g)
  <2> SUFFICES ASSUME NEW g \in groups  PROVE upTo(g) = {h \in groups : h = g \/ <<h, g>> \in R}
    BY DEF PlaceIn
  <2>1. \A h \in groups : (\/ date(h) < date(g)
                           \/ date(h) = date(g) /\ Least(h) <= Least(g))
                          <=> h = g \/ <<h, g>> \in R
    BY <1>2, <1>3, <1>4
  <2>. QED  BY <2>1 DEF date
<1>8. SplitsInOrder(lines, groups)
        = [n \in 1..Cardinality(groups) |-> CHOOSE g \in groups : Cardinality(upTo(g)) = n]
  BY DEF SplitsInOrder
<1>. HIDE DEF upTo, place
<1>9. \A n \in 1..Cardinality(groups) :
         LET g == SplitsInOrder(lines, groups)[n] IN g \in groups /\ place(g) = n
  BY <1>6, <1>7, <1>8
<1>10. \A g \in groups : SplitsInOrder(lines, groups)[place(g)] = g
  BY <1>6, <1>9
<1>11. \A g : place(g) = SplitPlace(lines, groups, g)
  BY DEF place, SplitPlace, R
<1>. QED  BY <1>6, <1>8, <1>10, <1>11 DEF SplitList

\* One list behind the other.
LEMMA Joined ==
  ASSUME NEW n \in Nat, NEW m \in Nat, NEW S, NEW f \in [1..n -> S], NEW g \in [1..m -> S]
  PROVE  /\ DOMAIN (f \o g) = 1..(n + m)
         /\ \A i \in 1..n : (f \o g)[i] = f[i]
         /\ \A i \in 1..m : (f \o g)[n + i] = g[i]
<1>1. f \in Seq(S) /\ g \in Seq(S)
  BY SeqDef
<1>2. Len(f) = n /\ Len(g) = m
  BY <1>1, LenProperties
<1>3. /\ f \o g \in Seq(S) /\ Len(f \o g) = n + m
      /\ \A i \in 1..(n + m) : (f \o g)[i] = IF i <= n THEN f[i] ELSE g[i - n]
  BY <1>1, <1>2, ConcatProperties
<1>4. DOMAIN (f \o g) = 1..(n + m)
  BY <1>3, LenProperties
<1>5. \A i \in 1..n : (f \o g)[i] = f[i]
  BY <1>3
<1>6. \A i \in 1..m : n + i \in 1..(n + m) /\ ~(n + i <= n) /\ (n + i) - n = i
  OBVIOUS
<1>7. \A i \in 1..m : (f \o g)[n + i] = g[i]
  BY <1>3, <1>6
<1>. QED  BY <1>4, <1>5, <1>7

\* The rows that stand alone, and where a row or a group of splits is in the list.
Singles(lines, trades) == trades \ SplitRows(lines, trades)
RowPlace(lines, trades, k) == Rank(Singles(lines, trades), k)
GroupPlace(lines, trades, g) == Cardinality(Singles(lines, trades))
                                + SplitPlace(lines, SplitGroups(lines, trades), g)

\* The outcomes of the rows that were read.
AreOutcomes(lines, trades, out) ==
    \E rows : {rows[n] : n \in DOMAIN rows} = trades /\ out = AvanzaOutcomes(lines, rows)

LEMMA OutcomesAre ==
  ASSUME NEW lines, NEW trades, AreRead(lines, trades),
         NEW out, AreOutcomes(lines, trades, out)
  PROVE  /\ \A k \in Singles(lines, trades) :
               /\ RowPlace(lines, trades, k) \in DOMAIN out
               /\ out[RowPlace(lines, trades, k)] = MapRow(lines, trades, k)
         /\ \A g \in SplitGroups(lines, trades) :
               /\ GroupPlace(lines, trades, g) \in DOMAIN out
               /\ out[GroupPlace(lines, trades, g)] = MapSplit(lines, trades, g)
         /\ \A n \in DOMAIN out :
               \/ \E k \in Singles(lines, trades) : n = RowPlace(lines, trades, k)
               \/ \E g \in SplitGroups(lines, trades) : n = GroupPlace(lines, trades, g)
         /\ DOMAIN out \in SUBSET Nat /\ IsFiniteSet(DOMAIN out)
         /\ \A j, k \in Singles(lines, trades) :
               j < k <=> RowPlace(lines, trades, j) < RowPlace(lines, trades, k)
<1> DEFINE S == Singles(lines, trades)
           G == SplitGroups(lines, trades)
           single == InOrder(S)
           splits == SplitList(lines, trades)
           first == [n \in DOMAIN single |-> MapRow(lines, trades, single[n])]
           second == [n \in DOMAIN splits |-> MapSplit(lines, trades, splits[n])]
           T == {first[n] : n \in DOMAIN single} \cup {second[n] : n \in DOMAIN splits}
           place(g) == SplitPlace(lines, G, g)
<1>2. out = first \o second
  BY DEF AvanzaOutcomes, AreOutcomes, Singles, SplitList
<1>3. Rows(S)
  BY RowsAreNumbers DEF AreRead, Singles
<1>. HIDE DEF S
<1>4. /\ DOMAIN single = 1..Cardinality(S) /\ Cardinality(S) \in Nat
      /\ \A n \in 1..Cardinality(S) : single[n] \in S /\ Rank(S, single[n]) = n
      /\ \A k \in S : Rank(S, k) \in 1..Cardinality(S) /\ single[Rank(S, k)] = k
      /\ \A j, k \in S : j < k <=> Rank(S, j) < Rank(S, k)
  BY <1>3, InOrderIs
<1>5. /\ DOMAIN splits = 1..Cardinality(G)
      /\ \A g \in G : place(g) \in 1..Cardinality(G) /\ splits[place(g)] = g
      /\ \A n \in 1..Cardinality(G) : \E g \in G : place(g) = n
      /\ Cardinality(G) \in Nat
  <2>1. DOMAIN splits = 1..Cardinality(G)
    BY SplitsAre
  <2>2. \A g \in G : place(g) \in 1..Cardinality(G) /\ splits[place(g)] = g
    BY SplitsAre
  <2>3. \A n \in 1..Cardinality(G) : \E g \in G : place(g) = n
    BY SplitsAre
  <2>4. Cardinality(G) \in Nat
    BY SplitGroupsAre
  <2>. QED  BY <2>1, <2>2, <2>3, <2>4
<1>. HIDE DEF single, G, splits, place
<1>6. first \in [1..Cardinality(S) -> T] /\ second \in [1..Cardinality(G) -> T]
  BY <1>4, <1>5
<1>7. /\ \A n \in 1..Cardinality(S) : first[n] = MapRow(lines, trades, single[n])
      /\ \A n \in 1..Cardinality(G) : second[n] = MapSplit(lines, trades, splits[n])
  BY <1>4, <1>5
<1>. HIDE DEF first, second, T
<1>8. /\ DOMAIN out = 1..(Cardinality(S) + Cardinality(G))
      /\ \A n \in 1..Cardinality(S) : out[n] = first[n]
      /\ \A n \in 1..Cardinality(G) : out[Cardinality(S) + n] = second[n]
  BY <1>2, <1>4, <1>5, <1>6, Joined
<1>9. \A k \in S : Rank(S, k) \in DOMAIN out /\ out[Rank(S, k)] = MapRow(lines, trades, k)
  BY <1>4, <1>5, <1>7, <1>8
<1>10. \A g \in G : /\ Cardinality(S) + place(g) \in DOMAIN out
                    /\ out[Cardinality(S) + place(g)] = MapSplit(lines, trades, g)
  BY <1>4, <1>5, <1>7, <1>8
<1>11. \A n \in DOMAIN out : \/ \E k \in S : n = Rank(S, k)
                             \/ \E g \in G : n = Cardinality(S) + place(g)
  <2> SUFFICES ASSUME NEW n \in DOMAIN out
               PROVE  \/ \E k \in S : n = Rank(S, k)
                      \/ \E g \in G : n = Cardinality(S) + place(g)
    OBVIOUS
  <2>1. CASE n <= Cardinality(S)
    <3>1. n \in 1..Cardinality(S)
      BY <1>4, <1>5, <1>8, <2>1
    <3>2. single[n] \in S /\ n = Rank(S, single[n])
      BY <1>4, <3>1
    <3>. QED  BY <3>2
  <2>2. CASE n > Cardinality(S)
    <3>1. PICK m \in 1..Cardinality(G) : n = Cardinality(S) + m
      <4>1. n - Cardinality(S) \in 1..Cardinality(G)
            /\ n = Cardinality(S) + (n - Cardinality(S))
        BY <1>4, <1>5, <1>8, <2>2
      <4>. QED  BY <4>1
    <3>. QED  BY <1>5, <3>1
  <2>. QED  BY <1>4, <1>5, <1>8, <2>1, <2>2
<1>12. DOMAIN out \in SUBSET Nat /\ IsFiniteSet(DOMAIN out)
  <2>1. Cardinality(S) + Cardinality(G) \in Nat
    BY <1>4, <1>5
  <2>. QED  BY <1>8, <2>1, FS_Interval
<1>13. \A k : RowPlace(lines, trades, k) = Rank(S, k)
  BY DEF RowPlace, S
<1>14. \A g : GroupPlace(lines, trades, g) = Cardinality(S) + place(g)
  BY DEF GroupPlace, S, place, G
<1>. QED  BY <1>4, <1>9, <1>10, <1>11, <1>12, <1>13, <1>14 DEF S, G

LEMMA ImageIsFinite ==
  ASSUME NEW S, IsFiniteSet(S), NEW f
  PROVE  IsFiniteSet({f[x] : x \in S})
<1> DEFINE g == [x \in S |-> f[x]]
           T == {f[x] : x \in S}
<1>1. g \in [S -> T] /\ \A y \in T : \E x \in S : g[x] = y
  OBVIOUS
<1>. HIDE DEF g, T
<1>2. g \in Surjection(S, T)
  BY <1>1 DEF Surjection
<1>3. IsFiniteSet(T)
  BY <1>2, FS_Surjection
<1>. QED  BY <1>3 DEF T

\* The shares of a group of splits.
LEMMA SplitNetIs ==
  ASSUME NEW lines, NEW trades, AreRead(lines, trades), NEW g \in SUBSET trades
  PROVE  SplitNet(lines, g) \in Exact
<1> DEFINE f == [k \in g |-> lines[k].quantity]
<1>1. IsFiniteSet(g) /\ \A k \in g : f[k] \in Exact
  BY FS_Subset DEF AreRead, Rows, IsRead
<1>2. Amounts(f, g)
  BY <1>1 DEF Amounts
<1>3. SumOver(f, g) \in Exact
  <2>. HIDE DEF f
  <2>. QED  BY <1>2, SumOverExact
<1>. QED  BY <1>3 DEF SplitNet

\* What adds to a position: a row that trades shares, or a group of splits.
TradeEvent(lines, k) ==
    [date |-> lines[k].date, row |-> k,
     delta |-> IF lines[k].kind = "Buy" THEN Whole64(lines[k].quantity)
               ELSE -Whole64(Unsigned(lines[k].quantity))]
GroupEvent(lines, g) ==
    [date |-> lines[Least(g)].date, row |-> Least(g), delta |-> Whole64(SplitNet(lines, g))]
GroupsOf(lines, trades, isin) ==
    {SplitGroup(lines, trades, isin, lines[k].date) : k \in OfKind(lines, trades, {"Split"}, isin)}

LEMMA EventsAre ==
  ASSUME NEW lines, NEW trades, AreRead(lines, trades), NEW isin
  PROVE  LET events == PositionEvents(lines, trades, isin) IN
         /\ IsFiniteSet(events) /\ \A e \in events : e.delta \in Int
         /\ \A e : e \in events <=>
               \/ \E k \in OfKind(lines, trades, {"Buy"}, isin) :
                     e = TradeEvent(lines, k) /\ e.delta > 0
               \/ \E k \in OfKind(lines, trades, {"Sell"}, isin) :
                     e = TradeEvent(lines, k) /\ e.delta < 0
               \/ \E g \in GroupsOf(lines, trades, isin) :
                     e = GroupEvent(lines, g) /\ e.delta # 0
<1> DEFINE events == PositionEvents(lines, trades, isin)
           buys == OfKind(lines, trades, {"Buy"}, isin)
           sells == OfKind(lines, trades, {"Sell"}, isin)
           groups == GroupsOf(lines, trades, isin)
<1>1. /\ \A k \in buys : TradeEvent(lines, k) = [date |-> lines[k].date, row |-> k,
                                                 delta |-> Whole64(lines[k].quantity)]
      /\ \A k \in sells : TradeEvent(lines, k) = [date |-> lines[k].date, row |-> k,
                                                  delta |-> -Whole64(Unsigned(lines[k].quantity))]
  BY DEF TradeEvent, OfKind
<1>2. events = {e \in {TradeEvent(lines, k) : k \in buys} : e.delta > 0}
               \cup {e \in {TradeEvent(lines, k) : k \in sells} : e.delta < 0}
               \cup {e \in {GroupEvent(lines, g) : g \in groups} : e.delta # 0}
  BY <1>1 DEF PositionEvents, GroupEvent, GroupsOf
<1>3. /\ buys \in SUBSET trades /\ sells \in SUBSET trades /\ groups \in SUBSET (SUBSET trades)
      /\ IsFiniteSet(trades)
  BY DEF OfKind, GroupsOf, SplitGroup, AreRead, Rows
<1>4. IsFiniteSet(buys) /\ IsFiniteSet(sells) /\ IsFiniteSet(SUBSET trades)
  BY <1>3, FS_Subset, FS_SUBSET
<1>5. IsFiniteSet(groups)
  BY <1>3, <1>4, FS_Subset
<1>. HIDE DEF events, buys, sells, groups
<1>6. IsFiniteSet(events)
  <2> DEFINE f == [k \in buys \cup sells |-> TradeEvent(lines, k)]
             h == [g \in groups |-> GroupEvent(lines, g)]
  <2>1. IsFiniteSet(buys \cup sells)
    BY <1>4, FS_Union
  <2>2. IsFiniteSet({f[k] : k \in buys \cup sells}) /\ IsFiniteSet({h[g] : g \in groups})
    <3>. HIDE DEF f, h
    <3>. QED  BY <1>5, <2>1, ImageIsFinite
  <2>3. IsFiniteSet({f[k] : k \in buys \cup sells} \cup {h[g] : g \in groups})
    <3>. HIDE DEF f, h
    <3>. QED  BY <2>2, FS_Union
  <2>4. events \subseteq {f[k] : k \in buys \cup sells} \cup {h[g] : g \in groups}
    BY <1>2
  <2>. HIDE DEF f, h
  <2>. QED  BY <2>3, <2>4, FS_Subset
<1>7. \A k \in trades : Whole64(lines[k].quantity) \in Int /\ Whole64(Unsigned(lines[k].quantity)) \in Int
  BY ExactParts DEF AreRead, IsRead
<1>8. \A g \in groups : Whole64(SplitNet(lines, g)) \in Int
  BY <1>3, SplitNetIs, ExactParts
<1>9. \A e \in events : e.delta \in Int
  BY <1>2, <1>3, <1>7, <1>8 DEF TradeEvent, GroupEvent
<1>. QED  BY <1>2, <1>6, <1>9 DEF events, buys, sells, groups

\* What a dividend counts.
Counted(lines, trades, k) ==
    {e \in PositionEvents(lines, trades, lines[k].asset) :
        \/ e.date < lines[k].date
        \/ e.date = lines[k].date /\ e.row <= k}

LEMMA EligibleIs ==
  ASSUME NEW lines, NEW trades, AreRead(lines, trades), NEW k, NEW d,
         d = [e \in PositionEvents(lines, trades, lines[k].asset) |-> e.delta]
  PROVE  /\ EligibleQuantityAt(lines, trades, k) = SumFunctionOnSet(d, Counted(lines, trades, k))
         /\ EligibleQuantityAt(lines, trades, k) \in Int
         /\ Adds(d, Counted(lines, trades, k))
<1> DEFINE C == Counted(lines, trades, k)
           events == PositionEvents(lines, trades, lines[k].asset)
<1>1. EligibleQuantityAt(lines, trades, k) = SumFunctionOnSet(d, C)
  BY DEF EligibleQuantityAt, Counted
<1>2. IsFiniteSet(events) /\ \A e \in events : e.delta \in Int
  BY EventsAre
<1>3. C \in SUBSET events
  BY DEF Counted
<1>. HIDE DEF C
<1>4. Adds(d, C)
  BY <1>2, <1>3, FS_Subset DEF Adds
<1>. QED  BY <1>1, <1>4, SumIsInt DEF C

\* The instrument that the rows of an ISIN describe.
LEMMA InstrumentOfIsin ==
  ASSUME NEW lines, NEW trades, AreRead(lines, trades), NEW isin, isin # Blank, NEW currency
  PROVE  AssetKey(InstrumentOf(lines, trades, isin, currency)) = <<isin>>
<1> DEFINE traded == OfKind(lines, trades, {"Buy", "Sell"}, isin)
<1>1. traded # {} => lines[Least(traded)].asset = isin
  <2> SUFFICES ASSUME traded # {}  PROVE lines[Least(traded)].asset = isin
    OBVIOUS
  <2>1. traded \in SUBSET Nat
    BY DEF OfKind, AreRead, Rows
  <2>2. Least(traded) \in traded
    <3>. HIDE DEF traded
    <3>. QED  BY <2>1, LeastIs
  <2>3. PICK k : k = Least(traded)
    OBVIOUS
  <2>. QED  BY <2>2, <2>3 DEF OfKind
<1>2. InstrumentOf(lines, trades, isin, currency).isin = isin
  BY <1>1 DEF InstrumentOf, InstrumentKey, AvanzaInstrument
<1>. QED  BY <1>2 DEF AssetKey

\* A dividend is skipped, or is for the shares it states or counts.
SharesPaid(lines, trades, k) ==
    IF lines[k].quantity[1] > 0 THEN Whole64(lines[k].quantity)
    ELSE EligibleQuantityAt(lines, trades, k)
DividendOf(line, shares) ==
    Transaction("Dividend", line.date, shares, Blank, PerShare(line, shares), line.currency,
                DividendFx(line, shares, PerShare(line, shares)), Blank)

LEMMA DividendMaps ==
  ASSUME NEW lines, NEW trades, AreRead(lines, trades), NEW k \in trades,
         NEW o, o = MapDividend(lines, trades, k)
  PROVE  \/ o.is = "skip"
         \/ LET shares == SharesPaid(lines, trades, k) IN
            /\ o = Mapped(k, InstrumentOf(lines, trades, lines[k].asset, lines[k].currency),
                          DividendOf(lines[k], shares))
            /\ lines[k].asset # "" /\ lines[k].amount # Blank /\ shares > 0
            /\ Positive(PerShare(lines[k], shares))
<1> DEFINE line == lines[k]
           shares == SharesPaid(lines, trades, k)
           inst == InstrumentOf(lines, trades, line.asset, line.currency)
           mapped == Mapped(k, inst, DividendOf(line, shares))
           early == \/ line.asset = "" \/ line.amount = Blank \/ line.currency = ""
                    \/ line.quantity[1] > 0 /\ ~IsWhole(line.quantity)
           late == ~(shares > 0) \/ ~Positive(PerShare(line, shares))
<1>1. CASE early
  BY <1>1 DEF MapDividend, NotMapped
<1>2. CASE ~early /\ late
  <2>1. IsRead(line)
    BY DEF AreRead
  <2>2. shares \in Int
    BY <2>1, ExactParts, EligibleIs DEF SharesPaid, IsRead
  <2>3. \A n \in Int : ~(n > 0) => n <= 0
    OBVIOUS
  <2>. HIDE DEF shares, line
  <2>4. shares <= 0 \/ ~Positive(PerShare(line, shares))
    BY <1>2, <2>2, <2>3
  <2>. QED  BY <1>2, <2>4 DEF line, shares, MapDividend, NotMapped, SharesPaid
<1>3. CASE ~early /\ ~late
  BY <1>3 DEF MapDividend, NotMapped, SharesPaid, DividendOf
<1>. QED  BY <1>1, <1>2, <1>3

\* What becomes of a row that stands alone.
RowOutcome(lines, trades, k, o) ==
    /\ o.is = "mapped" =>
          /\ o.row = k /\ o.asset = <<lines[k].asset>> /\ o.tx.date = lines[k].date
          /\ o.tx.kind = lines[k].kind /\ o.tx.quantity \in Int
          /\ o.tx.kind \in {"Buy", "Sell", "Dividend"}
    /\ lines[k].kind \in {"Buy", "Sell"} =>
          /\ o.is = "mapped" <=> IsWhole(lines[k].quantity)
          /\ o.is = "mapped" => o.tx.quantity = Whole64(Unsigned(lines[k].quantity))
    /\ o.is = "mapped" /\ lines[k].kind = "Dividend" => o = MapDividend(lines, trades, k)

LEMMA RowMaps ==
  ASSUME NEW lines, NEW trades, AreRead(lines, trades), NEW k \in trades,
         NEW o, o = MapRow(lines, trades, k)
  PROVE  RowOutcome(lines, trades, k, o)
<1> DEFINE line == lines[k]
<1>1. IsRead(line) /\ line.asset # Blank
  BY DEF AreRead, IsRead
<1>2. Whole64(line.quantity) \in Int /\ Whole64(Unsigned(line.quantity)) \in Int
  BY <1>1, ExactParts DEF IsRead
<1>3. CASE line.kind \in {"Buy", "Sell"}
  <2>1. o = MapBuySell(lines, k)
    BY <1>3 DEF MapRow
  <2>2. AssetKey(AvanzaInstrument(line)) = <<line.asset>>
    BY <1>1 DEF AssetKey, AvanzaInstrument, InstrumentKey
  <2>3. CASE ~IsWhole(line.quantity)
    BY <1>3, <2>1, <2>3 DEF MapBuySell, NotMapped, RowOutcome
  <2>4. CASE IsWhole(line.quantity)
    <3>1. PICK t : /\ o = Mapped(k, AvanzaInstrument(line), t)
                   /\ t.kind = line.kind /\ t.date = line.date
                   /\ t.quantity = Whole64(Unsigned(line.quantity))
      BY <2>1, <2>4 DEF MapBuySell, Transaction
    <3>. QED  BY <1>2, <1>3, <2>2, <2>4, <3>1 DEF Mapped, RowOutcome
  <2>. QED  BY <2>3, <2>4
<1>4. CASE line.kind = "Dividend"
  <2>1. o = MapDividend(lines, trades, k)
    BY <1>4 DEF MapRow
  <2> DEFINE shares == SharesPaid(lines, trades, k)
             inst == InstrumentOf(lines, trades, line.asset, line.currency)
  <2>2. shares \in Int
    BY <1>2, EligibleIs DEF SharesPaid
  <2>3. o.is = "skip" \/ o = Mapped(k, inst, DividendOf(line, shares))
    BY <2>1, DividendMaps
  <2>4. AssetKey(inst) = <<line.asset>>
    BY <1>1, InstrumentOfIsin
  <2>5. LET t == DividendOf(line, shares) IN
        t.kind = "Dividend" /\ t.date = line.date /\ t.quantity = shares
    BY DEF DividendOf, Transaction
  <2>. HIDE DEF shares, inst
  <2>. QED  BY <1>4, <2>1, <2>2, <2>3, <2>4, <2>5 DEF Mapped, RowOutcome
<1>5. CASE line.kind \notin {"Buy", "Sell", "Dividend"}
  BY <1>5 DEF MapRow, NotMapped, RowOutcome
<1>. QED  BY <1>3, <1>4, <1>5

\* What becomes of a group of splits with its first row k.
SplitOutcome(lines, g, k, o) ==
    /\ o.is = "mapped" <=> SplitNet(lines, g) # Zero /\ IsWhole(SplitNet(lines, g))
    /\ o.is = "mapped" =>
          /\ o.row = k /\ o.asset = <<lines[k].asset>> /\ o.tx.date = lines[k].date
          /\ o.tx.kind = "Split" /\ o.tx.quantity = Whole64(SplitNet(lines, g))
          /\ o.tx.quantity \in Int

LEMMA SplitMaps ==
  ASSUME NEW lines, NEW trades, AreRead(lines, trades),
         NEW g \in SplitGroups(lines, trades), NEW o, o = MapSplit(lines, trades, g)
  PROVE  SplitOutcome(lines, g, Least(g), o)
<1> DEFINE k == Least(g)  net == SplitNet(lines, g)
<1>1. k \in trades /\ g \in SUBSET trades
  BY SplitGroupsAre DEF GroupFits
<1>2. lines[k].asset # Blank
  BY <1>1 DEF AreRead, IsRead
<1>3. Whole64(net) \in Int
  BY <1>1, SplitNetIs, ExactParts
<1>4. AssetKey(InstrumentOf(lines, trades, lines[k].asset, "")) = <<lines[k].asset>>
  BY <1>2, InstrumentOfIsin
<1>5. CASE net = Zero \/ ~IsWhole(net)
  BY <1>5 DEF MapSplit, NotMapped, SplitOutcome
<1>6. CASE ~(net = Zero \/ ~IsWhole(net))
  <2> DEFINE t == Transaction("Split", lines[k].date, Whole64(net), Blank, Blank, Blank, Blank,
                              Blank)
             inst == InstrumentOf(lines, trades, lines[k].asset, "")
  <2>1. o = Mapped(k, inst, t)
    BY <1>6 DEF MapSplit
  <2>2. t.kind = "Split" /\ t.date = lines[k].date /\ t.quantity = Whole64(net)
    BY DEF Transaction
  <2>. HIDE DEF t, inst
  <2>3. /\ o.is = "mapped" /\ o.row = k /\ o.asset = AssetKey(inst)
        /\ o.tx = t
    BY <2>1 DEF Mapped
  <2>. HIDE DEF k, net
  <2>4. /\ o.is = "mapped" /\ o.row = k /\ o.asset = <<lines[k].asset>>
        /\ o.tx.date = lines[k].date /\ o.tx.kind = "Split"
        /\ o.tx.quantity = Whole64(net) /\ o.tx.quantity \in Int
    BY <1>3, <1>4, <2>2, <2>3 DEF inst
  <2>. QED  BY <1>6, <2>4 DEF k, net, SplitOutcome
<1>. QED  BY <1>5, <1>6

\* Where the outcome of a row stands.
PlaceOf(lines, trades, row) ==
    IF row \in Singles(lines, trades) THEN RowPlace(lines, trades, row)
    ELSE GroupPlace(lines, trades,
                    SplitGroup(lines, trades, lines[row].asset, lines[row].date))

LEMMA MappedIs ==
  ASSUME NEW lines, NEW trades, AreRead(lines, trades),
         NEW out, AreOutcomes(lines, trades, out), NEW j \in DOMAIN out, out[j].is = "mapped"
  PROVE  /\ out[j].row \in trades /\ j = PlaceOf(lines, trades, out[j].row)
         /\ out[j].asset = <<lines[out[j].row].asset>>
         /\ out[j].tx.date = lines[out[j].row].date /\ out[j].tx.kind = lines[out[j].row].kind
         /\ out[j].tx.date \in Int /\ out[j].tx.quantity \in Int
         /\ \/ /\ out[j].row \in Singles(lines, trades)
               /\ out[j].tx.kind \in {"Buy", "Sell", "Dividend"}
               /\ out[j] = MapRow(lines, trades, out[j].row)
            \/ \E g \in SplitGroups(lines, trades) :
               /\ out[j].row = Least(g) /\ out[j].row \notin Singles(lines, trades)
               /\ out[j].tx.kind = "Split" /\ out[j] = MapSplit(lines, trades, g)
<1>1. \A k \in trades : lines[k].date \in Int
  BY DEF AreRead, IsRead
<1>2. CASE \E k \in Singles(lines, trades) : j = RowPlace(lines, trades, k)
  <2>1. PICK k \in Singles(lines, trades) : j = RowPlace(lines, trades, k)
    BY <1>2
  <2>2. k \in trades /\ out[j] = MapRow(lines, trades, k)
    BY <2>1, OutcomesAre DEF Singles
  <2>3. /\ out[j].row = k /\ out[j].asset = <<lines[k].asset>>
        /\ out[j].tx.date = lines[k].date /\ out[j].tx.kind = lines[k].kind
        /\ out[j].tx.quantity \in Int /\ out[j].tx.kind \in {"Buy", "Sell", "Dividend"}
    BY <2>2, RowMaps DEF RowOutcome
  <2>. QED  BY <1>1, <2>1, <2>2, <2>3 DEF PlaceOf
<1>3. CASE \E g \in SplitGroups(lines, trades) : j = GroupPlace(lines, trades, g)
  <2>1. PICK g \in SplitGroups(lines, trades) : j = GroupPlace(lines, trades, g)
    BY <1>3
  <2>2. out[j] = MapSplit(lines, trades, g)
    BY <2>1, OutcomesAre
  <2>3. PICK k : k = Least(g)
    OBVIOUS
  <2>4. /\ out[j].row = k /\ out[j].asset = <<lines[k].asset>>
        /\ out[j].tx.date = lines[k].date /\ out[j].tx.kind = "Split"
        /\ out[j].tx.quantity \in Int
    BY <2>2, <2>3, SplitMaps DEF SplitOutcome
  <2>5. GroupFits(lines, trades, g, k)
    BY <2>3, SplitGroupsAre
  <2>6. k \notin Singles(lines, trades)
    BY <2>5 DEF Singles, SplitRows, GroupFits
  <2>7. j = PlaceOf(lines, trades, k) /\ k \in trades /\ lines[k].kind = "Split"
    BY <2>1, <2>5, <2>6 DEF PlaceOf, GroupFits
  <2>. QED  BY <1>1, <2>2, <2>3, <2>4, <2>6, <2>7
<1>4. \/ \E k \in Singles(lines, trades) : j = RowPlace(lines, trades, k)
      \/ \E g \in SplitGroups(lines, trades) : j = GroupPlace(lines, trades, g)
  BY OutcomesAre
<1>. QED  BY <1>2, <1>3, <1>4

-----------------------------------------------------------------------------
(* The shares a dividend counts are those that the ledger holds.               *)

WholeRows(lines, trades, isin) ==
    /\ \A k \in OfKind(lines, trades, {"Buy", "Sell"}, isin) : IsWhole(lines[k].quantity)
    /\ \A k \in OfKind(lines, trades, {"Buy"}, isin) : lines[k].quantity[1] > 0
    /\ \A k \in OfKind(lines, trades, {"Split"}, isin) :
          IsWhole(SplitNet(lines, SplitGroup(lines, trades, isin, lines[k].date)))

\* The entry of an outcome, and what it is as an event.
EntryFits(e, j, tx) ==
    /\ e.id = j /\ e.date = tx.date /\ e.kind = tx.kind
    /\ e.quantity = IF tx.kind = "Sell" THEN -tx.quantity ELSE tx.quantity

LEMMA FileEntryIs ==
  ASSUME NEW out, NEW j
  PROVE  EntryFits(FileEntry(out, j), j, out[j].tx)
  BY DEF EntryFits, FileEntry, Derived!Entry, StoredRow, StoredShares, SharesSigned

EventFor(out, e) == [date |-> e.date, row |-> out[e.id].row, delta |-> e.quantity]

\* Whole shares.
LEMMA WholeShares ==
  ASSUME NEW q \in Exact, IsWhole(q)
  PROVE  /\ Whole64(q) = q[1] /\ q[1] \in Int /\ Whole64(Unsigned(q)) \in Nat
         /\ q[1] > 0 => Whole64(Unsigned(q)) = q[1]
         /\ q[1] # 0 <=> q # Zero
<1>1. q = Amount(q[1]) /\ Whole64(q) = q[1] /\ q[1] \in Int
  BY ExactParts
<1>2. Whole64(Unsigned(q)) \in Nat /\ (q[1] > 0 => Unsigned(q) = q)
  BY <1>1, ExactParts
<1>3. q[1] # 0 <=> q # Zero
  BY <1>1 DEF Amount, Zero
<1>. QED  BY <1>1, <1>2, <1>3

LEMMA EntryIsEvent ==
  ASSUME NEW lines, NEW trades, AreRead(lines, trades),
         NEW out, AreOutcomes(lines, trades, out),
         NEW j \in DOMAIN out, out[j].is = "mapped", out[j].tx.kind # "Dividend",
         NEW isin, out[j].asset = <<isin>>, WholeRows(lines, trades, isin),
         NEW e, e = FileEntry(out, j), e.quantity # 0
  PROVE  EventFor(out, e) \in PositionEvents(lines, trades, isin)
<1> DEFINE events == PositionEvents(lines, trades, isin)
<1>1. PICK k : k = out[j].row
  OBVIOUS
<1>2. /\ k \in trades /\ lines[k].asset = isin
      /\ out[j].tx.date = lines[k].date /\ out[j].tx.kind = lines[k].kind
      /\ \/ /\ out[j].tx.kind \in {"Buy", "Sell", "Dividend"}
            /\ out[j] = MapRow(lines, trades, k)
         \/ \E g \in SplitGroups(lines, trades) :
               /\ k = Least(g) /\ out[j].tx.kind = "Split"
               /\ out[j] = MapSplit(lines, trades, g)
  <2>1. out[j].asset = <<lines[k].asset>>
    BY <1>1, MappedIs
  <2>2. lines[k].asset = isin
    BY <2>1
  <2>. QED  BY <1>1, <2>2, MappedIs
<1>3. /\ e.id = j /\ e.date = lines[k].date /\ e.kind = lines[k].kind
      /\ e.quantity = IF lines[k].kind = "Sell" THEN -out[j].tx.quantity ELSE out[j].tx.quantity
  BY <1>2, FileEntryIs DEF EntryFits
<1>4. EventFor(out, e) = [date |-> lines[k].date, row |-> k, delta |-> e.quantity]
  BY <1>1, <1>3 DEF EventFor
<1>5. lines[k].quantity \in Exact
  BY <1>2 DEF AreRead, IsRead
<1>6. CASE lines[k].kind \in {"Buy", "Sell"}
  <2>1. out[j].tx.quantity = Whole64(Unsigned(lines[k].quantity)) /\ IsWhole(lines[k].quantity)
    BY <1>2, <1>6, RowMaps DEF RowOutcome
  <2>2. Whole64(Unsigned(lines[k].quantity)) \in Nat
    BY <1>5, <2>1, WholeShares
  <2>3. CASE lines[k].kind = "Buy"
    <3>1. k \in OfKind(lines, trades, {"Buy"}, isin)
      BY <1>2, <2>3 DEF OfKind
    <3>2. lines[k].quantity[1] > 0
      BY <3>1 DEF WholeRows
    <3>3. e.quantity = Whole64(lines[k].quantity) /\ e.quantity > 0
      BY <1>3, <1>5, <2>1, <2>3, <3>2, WholeShares
    <3>4. EventFor(out, e) = TradeEvent(lines, k)
      BY <1>4, <2>3, <3>3 DEF TradeEvent
    <3>5. EventFor(out, e).delta > 0
      BY <1>4, <3>3
    <3>. QED  BY <3>1, <3>4, <3>5, EventsAre
  <2>4. CASE lines[k].kind = "Sell"
    <3>1. k \in OfKind(lines, trades, {"Sell"}, isin)
      BY <1>2, <2>4 DEF OfKind
    <3>2. e.quantity = -Whole64(Unsigned(lines[k].quantity)) /\ e.quantity < 0
      BY <1>3, <2>1, <2>2, <2>4
    <3>3. EventFor(out, e) = TradeEvent(lines, k)
      BY <1>4, <2>4, <3>2 DEF TradeEvent
    <3>4. EventFor(out, e).delta < 0
      BY <1>4, <3>2
    <3>. QED  BY <3>1, <3>3, <3>4, EventsAre
  <2>. QED  BY <1>6, <2>3, <2>4
<1>7. CASE lines[k].kind \notin {"Buy", "Sell"}
  <2>1. PICK g \in SplitGroups(lines, trades) :
           k = Least(g) /\ out[j].tx.kind = "Split" /\ out[j] = MapSplit(lines, trades, g)
    BY <1>2, <1>7
  <2>2. out[j].tx.quantity = Whole64(SplitNet(lines, g))
    BY <2>1, SplitMaps DEF SplitOutcome
  <2>3. e.quantity = Whole64(SplitNet(lines, g))
    BY <1>2, <1>3, <2>1, <2>2
  <2>4. EventFor(out, e) = GroupEvent(lines, g) /\ EventFor(out, e).delta # 0
    BY <1>4, <2>1, <2>3 DEF GroupEvent
  <2>5. GroupFits(lines, trades, g, k)
    BY <2>1, SplitGroupsAre
  <2>6. g \in GroupsOf(lines, trades, isin)
    BY <1>2, <2>5 DEF GroupFits, GroupsOf, OfKind
  <2>. QED  BY <2>4, <2>6, EventsAre
<1>. QED  BY <1>6, <1>7

HasText(cell) == cell # ""

LEMMA EventIsEntry ==
  ASSUME NEW lines, NEW trades, AreRead(lines, trades),
         NEW out, AreOutcomes(lines, trades, out),
         NEW isin, HasText(isin), WholeRows(lines, trades, isin),
         NEW ev \in PositionEvents(lines, trades, isin)
  PROVE  \E j \in DOMAIN out :
            /\ out[j].is = "mapped" /\ out[j].asset = <<isin>>
            /\ FileEntry(out, j).kind \in {"Buy", "Sell", "Split"}
            /\ FileEntry(out, j).quantity # 0
            /\ EventFor(out, FileEntry(out, j)) = ev
<1>1. CASE \E k \in OfKind(lines, trades, {"Buy", "Sell"}, isin) :
              ev = TradeEvent(lines, k) /\ ev.delta # 0
  <2>1. PICK k \in OfKind(lines, trades, {"Buy", "Sell"}, isin) :
           ev = TradeEvent(lines, k) /\ ev.delta # 0
    BY <1>1
  <2>2. k \in trades /\ lines[k].kind \in {"Buy", "Sell"} /\ lines[k].asset = isin
    BY <2>1 DEF OfKind
  <2>3. k \in Singles(lines, trades)
    BY <2>2 DEF Singles, SplitRows
  <2>4. PICK j : j = RowPlace(lines, trades, k)
    OBVIOUS
  <2>5. j \in DOMAIN out /\ out[j] = MapRow(lines, trades, k)
    BY <2>3, <2>4, OutcomesAre
  <2>6. IsWhole(lines[k].quantity) /\ lines[k].quantity \in Exact
    BY <2>1, <2>2 DEF WholeRows, AreRead, IsRead
  <2>7. out[j].is = "mapped" /\ out[j].tx.quantity = Whole64(Unsigned(lines[k].quantity))
    BY <2>2, <2>5, <2>6, RowMaps DEF RowOutcome
  <2>8. /\ out[j].row = k /\ out[j].asset = <<isin>>
        /\ out[j].tx.date = lines[k].date /\ out[j].tx.kind = lines[k].kind
    BY <2>2, <2>5, <2>7, RowMaps DEF RowOutcome
  <2>9. lines[k].kind = "Buy" => Whole64(Unsigned(lines[k].quantity)) = Whole64(lines[k].quantity)
    <3> SUFFICES ASSUME lines[k].kind = "Buy"
                 PROVE  Whole64(Unsigned(lines[k].quantity)) = Whole64(lines[k].quantity)
      OBVIOUS
    <3>1. k \in OfKind(lines, trades, {"Buy"}, isin)
      BY <2>2 DEF OfKind
    <3>2. lines[k].quantity[1] > 0
      BY <3>1 DEF WholeRows
    <3>. QED  BY <2>6, <3>2, WholeShares
  <2> DEFINE e == FileEntry(out, j)
  <2>10. /\ e.id = j /\ e.date = lines[k].date /\ e.kind = lines[k].kind
         /\ e.quantity = IF lines[k].kind = "Buy" THEN Whole64(lines[k].quantity)
                         ELSE -Whole64(Unsigned(lines[k].quantity))
    BY <2>2, <2>7, <2>8, <2>9, FileEntryIs DEF EntryFits
  <2>. HIDE DEF e
  <2>11. EventFor(out, e) = ev
    BY <2>1, <2>8, <2>10 DEF EventFor, TradeEvent
  <2>12. e.quantity # 0 /\ e.kind \in {"Buy", "Sell", "Split"}
    BY <2>1, <2>2, <2>10 DEF TradeEvent
  <2>. QED  BY <2>5, <2>7, <2>8, <2>11, <2>12 DEF e
<1>2. CASE \E g \in GroupsOf(lines, trades, isin) : ev = GroupEvent(lines, g) /\ ev.delta # 0
  <2>1. PICK g \in GroupsOf(lines, trades, isin) : ev = GroupEvent(lines, g) /\ ev.delta # 0
    BY <1>2
  <2>2. PICK i \in OfKind(lines, trades, {"Split"}, isin) :
           g = SplitGroup(lines, trades, isin, lines[i].date)
    BY <2>1 DEF GroupsOf
  <2>3. IsWhole(SplitNet(lines, g))
    BY <2>2 DEF WholeRows
  <2>4. i \in trades /\ lines[i].kind = "Split" /\ lines[i].asset = isin
    BY <2>2 DEF OfKind
  <2>5. g \in SplitGroups(lines, trades)
    BY <2>2, <2>4 DEF SplitGroups, SplitRows, HasText
  <2>6. PICK k : k = Least(g)
    OBVIOUS
  <2>7. GroupFits(lines, trades, g, k)
    BY <2>5, <2>6, SplitGroupsAre
  <2>8. lines[k].asset = isin
    BY <2>2, <2>7 DEF GroupFits, SplitGroup, OfKind
  <2>9. SplitNet(lines, g) \in Exact
    BY <2>7, SplitNetIs DEF GroupFits
  <2>10. ev = [date |-> lines[k].date, row |-> k, delta |-> Whole64(SplitNet(lines, g))]
         /\ Whole64(SplitNet(lines, g)) # 0
    BY <2>1, <2>6 DEF GroupEvent
  <2>11. SplitNet(lines, g) # Zero
    BY <2>3, <2>9, <2>10, WholeShares
  <2>12. PICK j : j = GroupPlace(lines, trades, g)
    OBVIOUS
  <2>13. j \in DOMAIN out /\ out[j] = MapSplit(lines, trades, g)
    BY <2>5, <2>12, OutcomesAre
  <2>14. /\ out[j].is = "mapped" /\ out[j].row = k /\ out[j].asset = <<lines[k].asset>>
         /\ out[j].tx.date = lines[k].date /\ out[j].tx.kind = "Split"
         /\ out[j].tx.quantity = Whole64(SplitNet(lines, g))
    BY <2>3, <2>5, <2>6, <2>11, <2>13, SplitMaps DEF SplitOutcome
  <2> DEFINE e == FileEntry(out, j)
  <2>15. /\ e.id = j /\ e.date = lines[k].date /\ e.kind = "Split"
         /\ e.quantity = Whole64(SplitNet(lines, g))
    BY <2>14, FileEntryIs DEF EntryFits
  <2>. HIDE DEF e
  <2>16. EventFor(out, e) = ev /\ e.quantity # 0
    BY <2>10, <2>14, <2>15 DEF EventFor
  <2>. QED  BY <2>8, <2>13, <2>14, <2>15, <2>16 DEF e
<1>3. \/ \E k \in OfKind(lines, trades, {"Buy", "Sell"}, isin) :
            ev = TradeEvent(lines, k) /\ ev.delta # 0
      \/ \E g \in GroupsOf(lines, trades, isin) : ev = GroupEvent(lines, g) /\ ev.delta # 0
  <2>1. \/ \E k \in OfKind(lines, trades, {"Buy"}, isin) : ev = TradeEvent(lines, k) /\ ev.delta > 0
        \/ \E k \in OfKind(lines, trades, {"Sell"}, isin) : ev = TradeEvent(lines, k) /\ ev.delta < 0
        \/ \E g \in GroupsOf(lines, trades, isin) : ev = GroupEvent(lines, g) /\ ev.delta # 0
    BY EventsAre
  <2>2. \A kind \in {"Buy", "Sell"} : \A k \in OfKind(lines, trades, {kind}, isin) :
           k \in OfKind(lines, trades, {"Buy", "Sell"}, isin)
    BY DEF OfKind
  <2>3. ev.delta \in Int /\ \A n \in Int : (n > 0 \/ n < 0) => n # 0
    BY EventsAre
  <2>. QED  BY <2>1, <2>2, <2>3
<1>. QED  BY <1>1, <1>2, <1>3

\* A dividend's file ledger is a ledger.
LEMMA FileLedgerIs ==
  ASSUME NEW lines, NEW trades, AreRead(lines, trades),
         NEW out, AreOutcomes(lines, trades, out), NEW asset
  PROVE  /\ IsLedger(FileLedger(out, asset))
         /\ \A e \in FileLedger(out, asset) :
               /\ e.id \in DOMAIN out /\ out[e.id].is = "mapped" /\ out[e.id].asset = asset
               /\ e = FileEntry(out, e.id) /\ EntryFits(e, e.id, out[e.id].tx)
<1> DEFINE J == {j \in DOMAIN out : out[j].is = "mapped" /\ out[j].asset = asset}
           f == [j \in J |-> FileEntry(out, j)]
           L == FileLedger(out, asset)
<1>1. L = {f[j] : j \in J}
  BY DEF FileLedger
<1>2. DOMAIN out \in SUBSET Nat /\ IsFiniteSet(DOMAIN out)
  BY OutcomesAre
<1>3. IsFiniteSet(J)
  BY <1>2, FS_Subset
<1>4. IsFiniteSet(L)
  <2>. HIDE DEF f, J, L
  <2>. QED  BY <1>1, <1>3, ImageIsFinite
<1>5. \A e \in L : /\ e.id \in J /\ e = FileEntry(out, e.id)
                   /\ EntryFits(e, e.id, out[e.id].tx)
  <2> SUFFICES ASSUME NEW e \in L
               PROVE  /\ e.id \in J /\ e = FileEntry(out, e.id)
                      /\ EntryFits(e, e.id, out[e.id].tx)
    OBVIOUS
  <2>1. PICK j \in J : e = FileEntry(out, j)
    BY <1>1
  <2>2. EntryFits(e, j, out[j].tx)
    BY <2>1, FileEntryIs
  <2>3. e.id = j
    BY <2>2 DEF EntryFits
  <2>. QED  BY <2>1, <2>2, <2>3
<1>6. \A j \in J : /\ j \in Int /\ out[j].tx.date \in Int /\ out[j].tx.quantity \in Int
                   /\ out[j].tx.kind \in {"Buy", "Sell", "Split", "Dividend"}
  <2> SUFFICES ASSUME NEW j \in J
               PROVE  /\ j \in Int /\ out[j].tx.date \in Int /\ out[j].tx.quantity \in Int
                      /\ out[j].tx.kind \in {"Buy", "Sell", "Split", "Dividend"}
    OBVIOUS
  <2>1. j \in DOMAIN out /\ out[j].is = "mapped" /\ j \in Int
    BY <1>2
  <2>. QED  BY <2>1, MappedIs
<1>. HIDE DEF J, L
<1>7. \A e \in L : IsEntry(e)
  BY <1>5, <1>6 DEF EntryFits, IsEntry, Derived!HasColumns, Derived!Kind
<1>8. \A e, d \in L : e.id = d.id => e = d
  BY <1>5
<1>. QED  BY <1>4, <1>5, <1>7, <1>8 DEF IsLedger, J, L

\* Of two outcomes, where one is a row that stands alone or not of the same day, the
\* rows and the entries are in the same order.
LEMMA OutcomesInOrder ==
  ASSUME NEW lines, NEW trades, AreRead(lines, trades),
         NEW out, AreOutcomes(lines, trades, out),
         NEW j \in DOMAIN out, out[j].is = "mapped",
         NEW x \in DOMAIN out, out[x].is = "mapped",
         out[j].row \in Singles(lines, trades), out[x].row \in Singles(lines, trades)
  PROVE  j < x <=> out[j].row < out[x].row
<1>1. PICK k, r : k = out[j].row /\ r = out[x].row
  OBVIOUS
<1>2. j = RowPlace(lines, trades, k) /\ x = RowPlace(lines, trades, r)
  BY <1>1, MappedIs DEF PlaceOf
<1>3. k < r <=> RowPlace(lines, trades, k) < RowPlace(lines, trades, r)
  BY <1>1, OutcomesAre
<1>. QED  BY <1>1, <1>2, <1>3

\* Rows are numbers.
LEMMA TradesAreNumbers ==
  ASSUME NEW lines, NEW trades, AreRead(lines, trades)
  PROVE  \A n \in trades : n \in Int
<1>1. trades \in SUBSET Nat
  BY DEF AreRead, Rows
<1>2. \A n \in trades : n \in Nat
  BY <1>1
<1>3. Nat \subseteq Int
  OBVIOUS
<1>. QED  BY <1>2, <1>3

LEMMA CountedIsHeld ==
  ASSUME NEW lines, NEW trades, AreRead(lines, trades),
         NEW out, AreOutcomes(lines, trades, out),
         NEW x \in DOMAIN out, out[x].is = "mapped", out[x].tx.kind = "Dividend",
         NEW r, r = out[x].row, NEW isin, isin = lines[r].asset, HasText(isin),
         WholeRows(lines, trades, isin),
         NEW L, L = FileLedger(out, out[x].asset),
         \A e \in L : e.kind = "Split" => e.date # out[x].tx.date,
         NEW q, \A e \in L : q[e] = e.quantity
  PROVE  SumFunctionOnSet(q, Traded(Earlier(L, FileEntry(out, x))))
           = EligibleQuantityAt(lines, trades, r)
<1> DEFINE entry == FileEntry(out, x)
           E == Traded(Earlier(L, entry))
           S == {e \in E : e.quantity # 0}
           C == Counted(lines, trades, r)
           d == [ev \in PositionEvents(lines, trades, isin) |-> ev.delta]
           p == [e \in S |-> EventFor(out, e)]
<1>0. \A n \in trades : n \in Int
  <2>. HIDE DEF entry, E, S, C, d, p
  <2>. QED  BY TradesAreNumbers
<1>1. /\ r \in Singles(lines, trades) /\ r \in trades /\ lines[r].kind = "Dividend"
      /\ out[x].asset = <<isin>> /\ out[x].tx.date = lines[r].date /\ lines[r].date \in Int
  BY MappedIs
<1>2. entry.id = x /\ entry.date = lines[r].date /\ entry \in L /\ x \in Nat
  <2>1. EntryFits(entry, x, out[x].tx)
    BY FileEntryIs
  <2>2. x \in Nat
    BY OutcomesAre
  <2>. QED  BY <1>1, <2>1, <2>2 DEF EntryFits, FileLedger
<1>3. /\ IsLedger(L)
      /\ \A e \in L : /\ e.id \in DOMAIN out /\ out[e.id].is = "mapped" /\ out[e.id].asset = <<isin>>
                      /\ e = FileEntry(out, e.id) /\ EntryFits(e, e.id, out[e.id].tx)
  BY <1>1, FileLedgerIs
<1>. HIDE DEF entry
<1>4. \A e \in E : e \in L /\ e.kind # "Dividend" /\ Derived!Before(e, entry)
  BY DEF Traded, Earlier
<1>5. \A e \in S : p[e] \in C
  <2> SUFFICES ASSUME NEW e \in S  PROVE EventFor(out, e) \in C
    OBVIOUS
  <2>1. PICK j : j = e.id
    OBVIOUS
  <2>2. /\ e \in L /\ e.kind # "Dividend" /\ Derived!Before(e, entry) /\ e.quantity # 0
        /\ j \in DOMAIN out /\ out[j].is = "mapped" /\ out[j].asset = <<isin>>
        /\ e = FileEntry(out, j) /\ EntryFits(e, j, out[j].tx)
    BY <1>3, <1>4, <2>1
  <2>3. e.kind = out[j].tx.kind /\ e.date = out[j].tx.date
    BY <2>2 DEF EntryFits
  <2>4. EventFor(out, e) \in PositionEvents(lines, trades, isin)
    BY <2>2, <2>3, EntryIsEvent
  <2>5. EventFor(out, e).date = e.date /\ EventFor(out, e).row = out[j].row
    BY <2>1 DEF EventFor
  <2>6. e.date < lines[r].date \/ (e.date = lines[r].date /\ j < x)
    BY <1>2, <2>1, <2>2 DEF Derived!Before
  <2>7. CASE e.date < lines[r].date
    BY <2>4, <2>5, <2>7 DEF Counted
  <2>8. CASE e.date = lines[r].date /\ j < x
    <3>1. e.kind # "Split"
      BY <1>1, <2>2, <2>8
    <3>2. out[j].row \in Singles(lines, trades) /\ out[j].row \in trades
      BY <2>2, <2>3, <3>1, MappedIs
    <3>3. out[j].row < r
      BY <1>1, <2>2, <2>8, <3>2, OutcomesInOrder
    <3>4. out[j].row <= r
      <4>1. PICK k : k = out[j].row
        OBVIOUS
      <4>2. k \in Int /\ r \in Int
        BY <1>0, <1>1, <3>2, <4>1
      <4>. QED  BY <3>3, <4>1, <4>2
    <3>. QED  BY <2>4, <2>5, <2>8, <3>4 DEF Counted
  <2>. QED  BY <2>6, <2>7, <2>8
<1>6. \A e, f \in S : p[e] = p[f] => e = f
  <2> SUFFICES ASSUME NEW e \in S, NEW f \in S, EventFor(out, e) = EventFor(out, f)
               PROVE  e = f
    OBVIOUS
  <2>1. e \in L /\ f \in L
    BY <1>4
  <2>2. PICK j, k : j = e.id /\ k = f.id
    OBVIOUS
  <2>3. /\ j \in DOMAIN out /\ out[j].is = "mapped" /\ e = FileEntry(out, j)
        /\ k \in DOMAIN out /\ out[k].is = "mapped" /\ f = FileEntry(out, k)
    BY <1>3, <2>1, <2>2
  <2>4. out[j].row = out[k].row
    BY <2>2 DEF EventFor
  <2>5. j = PlaceOf(lines, trades, out[j].row) /\ k = PlaceOf(lines, trades, out[k].row)
    BY <2>3, MappedIs
  <2>. QED  BY <2>3, <2>4, <2>5
<1>7. \A ev \in C : \E e \in S : p[e] = ev
  <2> SUFFICES ASSUME NEW ev \in C  PROVE \E e \in S : EventFor(out, e) = ev
    OBVIOUS
  <2>1. /\ ev \in PositionEvents(lines, trades, isin)
        /\ \/ ev.date < lines[r].date
           \/ ev.date = lines[r].date /\ ev.row <= r
    BY DEF Counted
  <2>2. PICK j \in DOMAIN out :
           /\ out[j].is = "mapped" /\ out[j].asset = <<isin>>
           /\ FileEntry(out, j).kind \in {"Buy", "Sell", "Split"}
           /\ FileEntry(out, j).quantity # 0
           /\ EventFor(out, FileEntry(out, j)) = ev
    BY <2>1, EventIsEntry
  <2>3. PICK e : e = FileEntry(out, j)
    OBVIOUS
  <2>4. EntryFits(e, j, out[j].tx)
    BY <2>3, FileEntryIs
  <2>5. e.id = j /\ e.date = out[j].tx.date /\ e.kind = out[j].tx.kind
    BY <2>4 DEF EntryFits
  <2>6. ev.date = e.date /\ ev.row = out[j].row
    BY <2>2, <2>3, <2>5 DEF EventFor
  <2>7. e \in L
    BY <1>1, <2>2, <2>3 DEF FileLedger
  <2>8. Derived!Before(e, entry)
    <3>1. CASE ev.date < lines[r].date
      BY <1>2, <2>6, <3>1 DEF Derived!Before
    <3>2. CASE ev.date = lines[r].date /\ ev.row <= r
      <4>1. e.kind # "Split"
        BY <1>1, <2>6, <2>7, <3>2
      <4>2. out[j].row \in Singles(lines, trades) /\ out[j].row \in trades
            /\ lines[out[j].row].kind = e.kind
        BY <2>2, <2>5, <4>1, MappedIs
      <4>3. out[j].row # r
        BY <1>1, <2>2, <2>3, <4>2
      <4>4. out[j].row < r
        BY <1>1, <2>6, <3>2, <4>2, <4>3 DEF AreRead, Rows
      <4>5. j < x
        BY <1>1, <2>2, <4>2, <4>4, OutcomesInOrder
      <4>. QED  BY <1>2, <2>5, <2>6, <3>2, <4>5 DEF Derived!Before
    <3>. QED  BY <2>1, <3>1, <3>2
  <2>9. e \in S
    BY <2>2, <2>3, <2>7, <2>8 DEF Traded, Earlier
  <2>. QED  BY <2>2, <2>3, <2>9
<1>8. p \in Bijection(S, C)
  <2>1. p \in [S -> C]
    BY <1>5
  <2>. HIDE DEF p, S, C
  <2>. QED  BY <1>6, <1>7, <2>1 DEF Bijection, Injection, Surjection, IsInjective
<1>9. Adds(q, E)
  <2>1. E \in SUBSET L
    BY <1>4
  <2>2. \A e \in L : q[e] \in Int
    BY <1>3 DEF IsLedger, IsEntry, Derived!HasColumns
  <2>3. IsFiniteSet(E)
    <3>. HIDE DEF E
    <3>. QED  BY <1>3, <2>1, FS_Subset DEF IsLedger
  <2>. QED  BY <2>1, <2>2, <2>3 DEF Adds
<1>10. SumFunctionOnSet(q, E) = SumFunctionOnSet(q, S)
  <2>1. S \in SUBSET E /\ \A e \in E \ S : q[e] = 0
    BY <1>4
  <2>. HIDE DEF E, S
  <2>. QED  BY <1>9, <2>1, SumWithoutZeros
<1>11. \A e \in S : d[p[e]] = q[e]
  <2>1. \A e \in S : p[e] \in PositionEvents(lines, trades, isin) /\ p[e].delta = e.quantity
    BY <1>5 DEF Counted, EventFor
  <2>2. \A e \in S : q[e] = e.quantity
    BY <1>4
  <2>. HIDE DEF p, S
  <2>. QED  BY <2>1, <2>2
<1>12. Adds(q, S)
  <2>1. S \in SUBSET E
    OBVIOUS
  <2>. HIDE DEF E, S
  <2>. QED  BY <1>9, <2>1, FS_Subset DEF Adds
<1>13. SumFunctionOnSet(d, C) = SumFunctionOnSet(q, S)
  <2>. HIDE DEF p, S, C, d
  <2>. QED  BY <1>8, <1>11, <1>12, SumMoved
<1>14. EligibleQuantityAt(lines, trades, r) = SumFunctionOnSet(d, C)
  <2>1. PICK g : g = [ev \in PositionEvents(lines, trades, lines[r].asset) |-> ev.delta]
    OBVIOUS
  <2>2. EligibleQuantityAt(lines, trades, r) = SumFunctionOnSet(g, Counted(lines, trades, r))
    BY <2>1, EligibleIs
  <2>3. g = d
    BY <2>1
  <2>. HIDE DEF d
  <2>. QED  BY <2>2, <2>3
<1>. QED  BY <1>10, <1>13, <1>14 DEF entry

-----------------------------------------------------------------------------
(* A dividend's cash.                                                          *)

\* Positive amounts have a positive product.
LEMMA ProductIsPositive ==
  ASSUME NEW a \in Exact, NEW b \in Exact, a[1] > 0, b[1] > 0
  PROVE  (a ** b)[1] > 0 /\ a ** b \in Exact
<1>1. Is(a, a[1], a[2]) /\ Is(b, b[1], b[2])
  BY IsItself
<1>2. PICK n \in Int, d \in Nat \ {0}, m \in Int, e \in Nat \ {0} :
         n = a[1] /\ d = a[2] /\ m = b[1] /\ e = b[2]
  BY IsItself
<1>3. Is(a ** b, n * m, d * e)
  BY <1>1, <1>2, ProductIs
<1>4. PICK x \in Int, y \in Nat \ {0} : x = (a ** b)[1] /\ y = (a ** b)[2]
  BY <1>3, IsItself DEF Is
<1>5. x * (d * e) = (n * m) * y
  BY <1>3, <1>4 DEF Is
<1>6. PICK k \in Nat \ {0} : k = d * e
  OBVIOUS
<1>7. PICK u \in Int : u = n * m /\ u > 0
  BY <1>2
<1>8. u * y > 0
  BY <1>7
<1>9. 0 * k < x * k
  BY <1>5, <1>6, <1>7, <1>8
<1>10. 0 < x
  BY <1>9, CancelFactor
<1>. QED  BY <1>3, <1>4, <1>10 DEF Is

\* A rate worked out from the cash, and an amount per share worked out from it.
LEMMA RateFromCash ==
  ASSUME NEW u \in Exact, NEW s \in Int, s > 0, NEW price \in Exact, price[1] > 0
  PROVE  (Amount(s) ** price) ** (u // (Amount(s) ** price)) = u
<1>1. Amount(s) \in Exact /\ Amount(s)[1] > 0
  BY WholeIsExact DEF Amount
<1>. QED  BY <1>1, ProductIsPositive, DividedAndBack

LEMMA AmountFromCash ==
  ASSUME NEW u \in Exact, NEW s \in Int, s > 0, NEW f \in Exact, f[1] > 0
  PROVE  (Amount(s) ** ((u // f) // Amount(s))) ** f = u
<1>1. Amount(s) \in Exact /\ Amount(s)[1] > 0
  BY WholeIsExact DEF Amount
<1>2. f ** (u // f) = u /\ u // f \in Exact
  BY DividedAndBack
<1>3. Amount(s) ** ((u // f) // Amount(s)) = u // f
  BY <1>1, <1>2, DividedAndBack
<1>. QED  BY <1>2, <1>3, TimesLaws

LEMMA CashIsPaid ==
  ASSUME NEW line, IsRead(line), NEW shares \in Int, shares > 0, line.amount # Blank,
         Positive(PerShare(line, shares)),
         NEW tx, tx = DividendOf(line, shares)
  PROVE  \/ Positive(line.price) /\ Positive(line.fx)
         \/ tx.fx = Blank
         \/ Positive(line.price) /\ line.currency = "SEK"
         \/ (Amount(tx.quantity) ** tx.perShare) ** tx.fx = Unsigned(line.amount)
<1> DEFINE u == Unsigned(line.amount)
           per == PerShare(line, shares)
<1>1. /\ line.amount \in Exact /\ line.price \in Exact \cup {Blank} /\ line.fx \in Exact \cup {Blank}
      /\ u \in Exact
  BY ExactParts DEF IsRead
<1>2. /\ tx.quantity = shares /\ tx.perShare = per
      /\ tx.fx = DividendFx(line, shares, per)
  BY DEF DividendOf, Transaction
<1>. HIDE DEF u
<1>3. CASE Positive(line.price)
  <2>1. per = line.price /\ line.price \in Exact /\ line.price[1] > 0 /\ line.price # Blank
    BY <1>1, <1>3 DEF PerShare, Positive
  <2>. HIDE DEF per
  <2>2. CASE Positive(line.fx)
    BY <1>3, <2>2
  <2>3. CASE ~Positive(line.fx) /\ line.currency = "SEK"
    BY <1>3, <2>3
  <2>4. CASE ~Positive(line.fx) /\ line.currency # "SEK"
    <3>1. tx.fx = FxFromCash(line, shares, line.price)
      BY <1>2, <2>1, <2>4 DEF DividendFx
    <3>2. tx.fx = Blank \/ tx.fx = u // (Amount(shares) ** line.price)
      BY <3>1 DEF FxFromCash, u
    <3>. QED  BY <1>1, <1>2, <2>1, <3>2, RateFromCash DEF u
  <2>. QED  BY <2>2, <2>3, <2>4
<1>4. CASE ~Positive(line.price)
  <2> DEFINE fx == DividendFx(line, shares, Blank)
  <2>1. fx # Blank /\ per = (u // fx) // Amount(shares)
    <3>1. per # Blank
      BY DEF Positive
    <3>. HIDE DEF fx
    <3>2. per = IF fx = Blank THEN Blank ELSE (u // fx) // Amount(shares)
      BY <1>4 DEF PerShare, u, fx
    <3>. HIDE DEF per
    <3>. QED  BY <3>1, <3>2
  <2>2. CASE Positive(line.fx)
    <3>1. fx = line.fx /\ tx.fx = line.fx /\ line.fx \in Exact /\ line.fx[1] > 0
      BY <1>1, <1>2, <2>2 DEF DividendFx, Positive
    <3>. HIDE DEF fx, per
    <3>. QED  BY <1>1, <1>2, <2>1, <3>1, AmountFromCash DEF u
  <2>3. CASE ~Positive(line.fx) /\ line.currency = "SEK"
    <3>1. fx = One /\ tx.fx = One
      BY <1>2, <2>3 DEF DividendFx
    <3>2. One \in Exact /\ One[1] > 0
      BY WholeIsExact DEF One, Amount
    <3>. HIDE DEF fx, per
    <3>. QED  BY <1>1, <1>2, <2>1, <3>1, <3>2, AmountFromCash DEF u
  <2>4. CASE ~Positive(line.fx) /\ line.currency # "SEK"
    <3>1. fx = FxFromCash(line, shares, line.price)
      BY <2>4 DEF DividendFx
    <3>2. fx = Blank
      BY <1>4, <3>1 DEF FxFromCash
    <3>. QED  BY <2>1, <3>2
  <2>. QED  BY <2>2, <2>3, <2>4
<1>. QED  BY <1>3, <1>4

\* A buy of whole shares adds to the position.
LEMMA BuysAdd ==
  ASSUME NEW lines, NEW trades, AreRead(lines, trades),
         NEW out, AreOutcomes(lines, trades, out), NEW isin, WholeRows(lines, trades, isin),
         NEW e \in FileLedger(out, <<isin>>), e.kind = "Buy"
  PROVE  e.quantity > 0
<1>1. PICK j : j = e.id
  OBVIOUS
<1>2. /\ j \in DOMAIN out /\ out[j].is = "mapped" /\ out[j].asset = <<isin>>
      /\ EntryFits(e, j, out[j].tx)
  BY <1>1, FileLedgerIs
<1>3. e.kind = out[j].tx.kind /\ e.quantity = out[j].tx.quantity
  BY <1>2 DEF EntryFits
<1>4. PICK k : k = out[j].row
  OBVIOUS
<1>5. /\ k \in trades /\ out[j] = MapRow(lines, trades, k) /\ lines[k].kind = "Buy"
      /\ out[j].asset = <<lines[k].asset>>
  BY <1>2, <1>3, <1>4, MappedIs
<1>6. lines[k].asset = isin
  BY <1>2, <1>5
<1>7. k \in OfKind(lines, trades, {"Buy"}, isin)
  BY <1>5, <1>6 DEF OfKind
<1>8. lines[k].quantity \in Exact /\ lines[k].quantity[1] > 0
  BY <1>5, <1>7 DEF WholeRows, AreRead, IsRead
<1>9. IsWhole(lines[k].quantity) /\ e.quantity = Whole64(Unsigned(lines[k].quantity))
  BY <1>2, <1>3, <1>5, RowMaps DEF RowOutcome
<1>. QED  BY <1>8, <1>9, WholeShares

\* What one mapped dividend must match.
DividendMatches(lines, outcomes, k) ==
    LET line == lines[outcomes[k].row]
        held == FileLedger(outcomes, outcomes[k].asset)
        tx == outcomes[k].tx
    IN  /\ \/ line.quantity[1] > 0
           \/ ~TradesWhole(lines, line.asset)
           \/ ~Derived!Derivable(held)
           \/ \E e \in held : e.kind = "Split" /\ e.date = tx.date
           \/ tx.quantity = Derived!DerivePosition(
                               {e \in held : Derived!Before(e, FileEntry(outcomes, k))})
        /\ \/ Positive(line.price) /\ Positive(line.fx)
           \/ tx.fx = Blank
           \/ Positive(line.price) /\ line.currency = "SEK"
           \/ (Amount(tx.quantity) ** tx.perShare) ** tx.fx = Unsigned(line.amount)

LEMMA DividendMatchesAlways ==
  ASSUME NEW lines, LinesFit(lines), AvanzaRows(lines) # Bad,
         NEW out, out = Outcomes("AVANZA", lines),
         NEW x \in DOMAIN out, out[x].is = "mapped", out[x].tx.kind = "Dividend"
  PROVE  DividendMatches(lines, out, x)
<1>1. PICK trades, r : trades = FileRows(lines) /\ r = out[x].row
  OBVIOUS
<1>2. AreRead(lines, trades)
  BY <1>1, AvanzaTrades DEF AreRead
<1>3. AreOutcomes(lines, trades, out)
  <2>1. out = AvanzaOutcomes(lines, AvanzaRows(lines))
    BY DEF Outcomes, TradeRows
  <2>. QED  BY <1>1, <2>1, AvanzaTrades DEF AreOutcomes
<1>4. /\ r \in trades /\ out[x] = MapRow(lines, trades, r) /\ lines[r].kind = "Dividend"
      /\ out[x].asset = <<lines[r].asset>>
  BY <1>1, <1>2, <1>3, MappedIs
<1>5. IsRead(lines[r])
  BY <1>2, <1>4 DEF AreRead
<1>6. out[x] = MapDividend(lines, trades, r)
  BY <1>2, <1>4, RowMaps DEF RowOutcome
<1>7. PICK shares : shares = SharesPaid(lines, trades, r)
  OBVIOUS
<1>8. /\ out[x] = Mapped(r, InstrumentOf(lines, trades, lines[r].asset, lines[r].currency),
                         DividendOf(lines[r], shares))
      /\ HasText(lines[r].asset) /\ lines[r].amount # Blank /\ shares > 0
      /\ Positive(PerShare(lines[r], shares))
  BY <1>2, <1>4, <1>6, <1>7, DividendMaps DEF HasText
<1>9. out[x].tx = DividendOf(lines[r], shares)
  BY <1>8 DEF Mapped
<1>10. out[x].tx.quantity = shares /\ shares \in Int
  <2>1. out[x].tx.quantity = shares
    BY <1>9 DEF DividendOf, Transaction
  <2>. QED  BY <1>2, <1>3, <2>1, MappedIs
<1>11. LET line == lines[r]  tx == out[x].tx IN
       \/ Positive(line.price) /\ Positive(line.fx)
       \/ tx.fx = Blank
       \/ Positive(line.price) /\ line.currency = "SEK"
       \/ (Amount(tx.quantity) ** tx.perShare) ** tx.fx = Unsigned(line.amount)
  BY <1>5, <1>8, <1>9, <1>10, CashIsPaid
<1> DEFINE isin == lines[r].asset
           L == FileLedger(out, out[x].asset)
           entry == FileEntry(out, x)
<1>12. ASSUME ~(lines[r].quantity[1] > 0), TradesWhole(lines, isin), Derived!Derivable(L),
              ~\E e \in L : e.kind = "Split" /\ e.date = out[x].tx.date
       PROVE  out[x].tx.quantity = Derived!DerivePosition(Earlier(L, entry))
  <2>1. WholeRows(lines, trades, isin)
    <3>1. {k \in DOMAIN lines : lines[k].is = "trade"} = trades
      BY <1>1, AvanzaTrades
    <3>. QED  BY <1>12, <3>1 DEF TradesWhole, WholeRows
  <2>2. IsLedger(L) /\ L = FileLedger(out, <<isin>>)
    BY <1>2, <1>3, <1>4, FileLedgerIs
  <2>3. entry \in L
    BY DEF FileLedger
  <2>. HIDE DEF isin, L, entry
  <2>4. IsLedger(Earlier(L, entry)) /\ Derived!Derivable(Earlier(L, entry))
    BY <1>12, <2>2, <2>3, EarlierDerives
  <2>5. \A e \in Earlier(L, entry) : e \in L /\ (e.kind = "Buy" => e.quantity > 0)
    BY <1>2, <1>3, <2>1, <2>2, BuysAdd DEF Earlier
  <2>6. PICK q : q = [e \in L |-> e.quantity]
    OBVIOUS
  <2>7. \A e \in L : q[e] = e.quantity
    BY <2>6
  <2>8. Derived!DerivePosition(Earlier(L, entry)) = SumFunctionOnSet(q, Traded(Earlier(L, entry)))
    BY <2>4, <2>5, <2>7, HeldIsSum
  <2>9. SumFunctionOnSet(q, Traded(Earlier(L, entry))) = EligibleQuantityAt(lines, trades, r)
    BY <1>1, <1>2, <1>3, <1>8, <1>12, <2>1, <2>7, CountedIsHeld DEF isin, L, entry
  <2>10. shares = EligibleQuantityAt(lines, trades, r)
    BY <1>7, <1>12 DEF SharesPaid
  <2>. QED  BY <1>10, <2>8, <2>9, <2>10
<1>. QED  BY <1>1, <1>11, <1>12 DEF DividendMatches, Earlier

-----------------------------------------------------------------------------
(* The files that users import.                                                *)

\* A file is of one of the brokers, and its trades have the cells of a trade.
IsSequence(lines) == lines = [k \in DOMAIN lines |-> lines[k]]

UploadFits ==
    /\ upload = [broker |-> upload.broker, lines |-> upload.lines]
    /\ upload.broker \in Broker /\ LinesFit(upload.lines) /\ IsSequence(upload.lines)

LEMMA LongerFits ==
  ASSUME NEW lines, LinesFit(lines), IsSequence(lines), NEW line, LineFits(line)
  PROVE  LinesFit(Append(lines, line)) /\ IsSequence(Append(lines, line))
<1>1. PICK n \in Nat : n = Len(lines) /\ DOMAIN lines = 1..n
  BY DEF LinesFit
<1> DEFINE S == {lines[k] : k \in 1..n} \cup {line}
<1>2. lines \in Seq(S)
  <2>1. \A k \in 1..n : lines[k] \in S
    OBVIOUS
  <2>2. lines = [k \in 1..n |-> lines[k]]
    BY <1>1 DEF IsSequence
  <2>3. lines \in [1..n -> S]
    BY <2>1, <2>2
  <2>. QED  BY <2>3, SeqDef
<1>3. line \in S
  OBVIOUS
<1>4. \A x \in S : LineFits(x)
  BY <1>1 DEF LinesFit
<1> HIDE DEF S
<1>5. /\ Append(lines, line) \in Seq(S)
      /\ Len(Append(lines, line)) = n + 1
      /\ \A k \in 1..(n + 1) : Append(lines, line)[k] \in S
  <2>1. /\ Append(lines, line) \in Seq(S)
        /\ Len(Append(lines, line)) = Len(lines) + 1
    BY <1>2, <1>3, AppendProperties
  <2>2. \A k \in 1..Len(Append(lines, line)) : Append(lines, line)[k] \in S
    BY <2>1, ElementOfSeq
  <2>. QED  BY <1>1, <2>1, <2>2
<1>6. /\ DOMAIN Append(lines, line) = 1..Len(Append(lines, line))
      /\ Append(lines, line) \in [1..Len(Append(lines, line)) -> S]
  BY <1>5, LenProperties
<1>7. IsSequence(Append(lines, line))
  BY <1>6 DEF IsSequence
<1>. QED  BY <1>4, <1>5, <1>6, <1>7 DEF LinesFit

LEMMA UploadFitsAlways == FileSpec => []UploadFits
<1>1. FileInit => UploadFits
  <2> SUFFICES ASSUME FileInit  PROVE UploadFits
    OBVIOUS
  <2>1. PICK b \in Broker : upload = [broker |-> b, lines |-> FileStarts[b]]
    BY DEF FileInit
  <2>2. /\ FileStarts[b] \in Seq(Range(FileStarts[b]))
        /\ \A line \in Range(FileStarts[b]) : LineFits(line)
    BY FileAssumption
  <2>3. LinesFit(FileStarts[b])
    <3>1. /\ Len(FileStarts[b]) \in Nat /\ DOMAIN FileStarts[b] = 1..Len(FileStarts[b])
      BY <2>2, LenProperties
    <3>2. \A k \in DOMAIN FileStarts[b] : FileStarts[b][k] \in Range(FileStarts[b])
      BY DEF Range
    <3>. QED  BY <2>2, <3>1, <3>2 DEF LinesFit
  <2>4. IsSequence(FileStarts[b])
    BY <2>2 DEF IsSequence
  <2>. QED  BY <2>1, <2>3, <2>4 DEF UploadFits
<1>2. UploadFits /\ [FileNext]_fileVars => UploadFits'
  <2> SUFFICES ASSUME UploadFits, [FileNext]_fileVars  PROVE UploadFits'
    OBVIOUS
  <2>1. CASE Grow
    <3>1. PICK line \in FileLines[upload.broker] :
             upload' = [upload EXCEPT !.lines = Append(@, line)]
      BY <2>1 DEF Grow
    <3>2. LineFits(line)
      BY <3>1, FileAssumption DEF UploadFits
    <3>3. upload' = [broker |-> upload.broker, lines |-> Append(upload.lines, line)]
      BY <3>1 DEF UploadFits
    <3>4. LinesFit(Append(upload.lines, line)) /\ IsSequence(Append(upload.lines, line))
      BY <3>2, LongerFits DEF UploadFits
    <3>. QED  BY <3>3, <3>4 DEF UploadFits
  <2>2. CASE upload' = upload
    BY <2>2 DEF UploadFits
  <2>3. StartCommit => upload' = upload
    BY DEF StartCommit, PlanCommit
  <2>4. WriteNewRows => upload' = upload
    BY DEF WriteNewRows, Refuse, Store
  <2>5. RefreshRows => upload' = upload
    BY DEF RefreshRows, Refuse, Store
  <2>6. (\E i \in DOMAIN instruments : \E c \in {"OTHER", "HIGH"} : SetConviction(i, c))
           => upload' = upload
    BY DEF SetConviction
  <2>7. (\E n \in DOMAIN entries : DeleteRow(n)) => upload' = upload
    BY DEF DeleteRow
  <2>8. UNCHANGED fileVars => upload' = upload
    BY DEF fileVars
  <2>. QED  BY <2>1, <2>2, <2>3, <2>4, <2>5, <2>6, <2>7, <2>8 DEF FileNext
<1>. QED  BY <1>1, <1>2, PTL DEF FileSpec

\* See FileImports: mapper.rs counts the shares a dividend was paid for as the ledger
\* will, for every file.
THEOREM DividendsMatchTheLedgerAlways == FileSpec => []DividendsMatchTheLedger
<1>1. UploadFits => DividendsMatchTheLedger
  <2> SUFFICES ASSUME UploadFits, answer = "none", job = Blank, upload.broker = "AVANZA",
                      UploadReads,
                      NEW k \in {j \in DOMAIN Uploaded : /\ Uploaded[j].is = "mapped"
                                                        /\ Uploaded[j].tx.kind = "Dividend"}
               PROVE  DividendMatches(upload.lines, Uploaded, k)
    BY DEF DividendsMatchTheLedger, DividendMatches
  <2>1. LinesFit(upload.lines) /\ AvanzaRows(upload.lines) # Bad
    BY DEF UploadFits, UploadReads, TradeRows
  <2>2. Uploaded = Outcomes("AVANZA", upload.lines)
    BY DEF Uploaded
  <2>. QED  BY <2>1, <2>2, DividendMatchesAlways
<1>. QED  BY <1>1, UploadFitsAlways, PTL

=============================================================================
