--------------------------- MODULE SetsAndAmounts ---------------------------
(* Facts about finite sets, sums over them, orders and ranks, and about exact  *)
(* fractions, that the proofs about the calculations and the imports use.      *)
EXTENDS ExactAmounts, Functions, FiniteSetTheorems, WellFoundedInduction, TLAPS

-----------------------------------------------------------------------------
(* Sums over a finite set.  What a set lacks, a smallest one of its subsets    *)
(* lacks.                                                                      *)

\* A family of subsets of a finite set has a smallest member.
LEMMA SmallestBad ==
  ASSUME NEW L, IsFiniteSet(L), NEW Bad \in SUBSET (SUBSET L), Bad # {}
  PROVE  \E S \in Bad : \A T \in SUBSET S : T # S => T \notin Bad
<1>1. \A S \in SUBSET L : IsFiniteSet(S)
  BY FS_Subset
<1>2. IsWellFoundedOn(StrictSubsetOrdering(L), FiniteSubsetsOf(L))
  BY FS_StrictSubsetOrderingWellFounded
<1>3. Bad \subseteq FiniteSubsetsOf(L)
  BY <1>1 DEF FiniteSubsetsOf
<1>4. PICK S \in Bad : \A T \in Bad : ~(<<T, S>> \in StrictSubsetOrdering(L))
  BY <1>2, <1>3, WFMin
<1>5. ASSUME NEW T \in SUBSET S, T # S, T \in Bad
      PROVE  FALSE
  <2>1. <<T, S>> \in StrictSubsetOrdering(L)
    BY <1>5 DEF StrictSubsetOrdering
  <2>. QED  BY <1>4, <1>5, <2>1
<1>. QED  BY <1>5

OneOf(S) == CHOOSE x \in S : TRUE

SumStep(f, h, S) == IF S = {} THEN 0 ELSE f[OneOf(S)] + h[S \ {OneOf(S)}]

\* h holds the sum of f over each subset of S.
Sums(f, S, h) == h = [T \in SUBSET S |-> SumStep(f, h, T)]

\* There is only one such h.
LEMMA SameSums ==
  ASSUME NEW f, NEW L, NEW M, NEW h, NEW g, Sums(f, L, h), Sums(f, M, g), IsFiniteSet(L),
         NEW S \in SUBSET (L \cap M)
  PROVE  h[S] = g[S]
<1> DEFINE Bad == {T \in SUBSET (L \cap M) : h[T] # g[T]}
<1>1. Bad = {}
  <2> SUFFICES ASSUME Bad # {}  PROVE FALSE
    OBVIOUS
  <2>1. Bad \in SUBSET (SUBSET L)
    OBVIOUS
  <2>2. PICK T \in Bad : \A U \in SUBSET T : U # T => U \notin Bad
    <3>. HIDE DEF Bad
    <3>. QED  BY <2>1, SmallestBad
  <2>3. T \in SUBSET L /\ T \in SUBSET M /\ h[T] # g[T]
    BY <2>2
  <2>4. h[T] = SumStep(f, h, T) /\ g[T] = SumStep(f, g, T)
    BY <2>3 DEF Sums
  <2>5. T # {}
    BY <2>3, <2>4 DEF SumStep
  <2>6. OneOf(T) \in T
    BY <2>5 DEF OneOf
  <2>7. h[T \ {OneOf(T)}] = g[T \ {OneOf(T)}]
    BY <2>2, <2>3, <2>6
  <2>. QED  BY <2>3, <2>4, <2>7 DEF SumStep
<1>. QED  BY <1>1

\* For every finite set there is such an h, adding member by member.
LEMMA SumsExist ==
  ASSUME NEW f, NEW L, IsFiniteSet(L)
  PROVE  \E h : Sums(f, L, h)
<1> DEFINE Bad == {S \in SUBSET L : ~\E h : Sums(f, S, h)}
<1>1. Bad = {}
  <2> SUFFICES ASSUME Bad # {}  PROVE FALSE
    OBVIOUS
  <2>1. Bad \in SUBSET (SUBSET L)
    OBVIOUS
  <2>2. PICK S \in Bad : \A T \in SUBSET S : T # S => T \notin Bad
    <3>. HIDE DEF Bad
    <3>. QED  BY <2>1, SmallestBad
  <2>3. S \in SUBSET L
    BY <2>2
  <2> DEFINE H(U) == CHOOSE h : Sums(f, U, h)
             g == [T \in SUBSET S |-> IF T = {} THEN 0
                                      ELSE f[OneOf(T)] + H(T \ {OneOf(T)})[T \ {OneOf(T)}]]
  <2>4. ASSUME NEW U \in SUBSET S, U # S
        PROVE  Sums(f, U, H(U)) /\ IsFiniteSet(U)
    <3>1. U \in SUBSET L /\ U \notin Bad
      BY <2>2, <2>3, <2>4
    <3>. QED  BY <3>1, FS_Subset
  <2>5. ASSUME NEW U \in SUBSET S, U # S
        PROVE  g[U] = H(U)[U]
    <3>1. Sums(f, U, H(U)) /\ IsFiniteSet(U)
      BY <2>4, <2>5
    <3>2. H(U)[U] = SumStep(f, H(U), U)
      <4>. HIDE DEF H
      <4>. QED  BY <3>1 DEF Sums
    <3>3. CASE U # {}
      <4> DEFINE R == U \ {OneOf(U)}
      <4>1. R \in SUBSET S /\ R # S /\ R \in SUBSET (U \cap R)
        BY <2>5, <3>3 DEF OneOf
      <4>2. Sums(f, R, H(R))
        BY <2>4, <4>1
      <4>3. H(U)[R] = H(R)[R]
        <5>. HIDE DEF H, R
        <5>. QED  BY <3>1, <4>1, <4>2, SameSums
      <4>4. g[U] = f[OneOf(U)] + H(R)[R]
        <5>. HIDE DEF H
        <5>. QED  BY <3>3
      <4>. HIDE DEF H, g
      <4>. QED  BY <3>2, <3>3, <4>3, <4>4 DEF SumStep
    <3>4. CASE U = {}
      <4>. HIDE DEF H
      <4>. QED  BY <3>2, <3>4 DEF SumStep
    <3>. QED  BY <3>3, <3>4
  <2>6. \A T \in SUBSET S : T # {} => T \ {OneOf(T)} \in SUBSET S /\ T \ {OneOf(T)} # S
    BY DEF OneOf
  <2>7. \A T \in SUBSET S : g[T] = SumStep(f, g, T)
    <3> SUFFICES ASSUME NEW T \in SUBSET S  PROVE g[T] = SumStep(f, g, T)
      OBVIOUS
    <3>1. CASE T = {}
      <4>. HIDE DEF H
      <4>. QED  BY <3>1 DEF SumStep
    <3>2. CASE T # {}
      <4>1. g[T \ {OneOf(T)}] = H(T \ {OneOf(T)})[T \ {OneOf(T)}]
        BY <2>5, <2>6, <3>2
      <4>2. g[T] = f[OneOf(T)] + H(T \ {OneOf(T)})[T \ {OneOf(T)}]
        <5>. HIDE DEF H
        <5>. QED  BY <3>2
      <4>. HIDE DEF H, g
      <4>. QED  BY <3>2, <4>1, <4>2 DEF SumStep
    <3>. QED  BY <3>1, <3>2
  <2>8. DOMAIN g = SUBSET S /\ g = [T \in DOMAIN g |-> g[T]]
    <3>. HIDE DEF H
    <3>. QED  OBVIOUS
  <2>9. Sums(f, S, g)
    <3>. HIDE DEF g
    <3>. QED  BY <2>7, <2>8 DEF Sums
  <2>. HIDE DEF g, H
  <2>. QED  BY <2>2, <2>9
<1>. QED  BY <1>1

\* The library's fold over a set is what h gives.
LEMMA SumIsFold ==
  ASSUME NEW f, NEW S, IsFiniteSet(S)
  PROVE  \E h : Sums(f, S, h) /\ SumFunctionOnSet(f, S) = h[S]
<1> DEFINE F == CHOOSE h : h = [s \in SUBSET S |->
                  IF s = {} THEN 0
                  ELSE f[CHOOSE x \in s : TRUE] + h[s \ {CHOOSE x \in s : TRUE}]]
<1>1. SumFunctionOnSet(f, S) = F[S]
  BY DEF SumFunctionOnSet, FoldFunctionOnSet, MapThenFoldSet
<1>2. PICK h : Sums(f, S, h)
  BY SumsExist
<1>3. Sums(f, S, F)
  <2>1. h = [s \in SUBSET S |->
               IF s = {} THEN 0
               ELSE f[CHOOSE x \in s : TRUE] + h[s \ {CHOOSE x \in s : TRUE}]]
    BY <1>2 DEF Sums, SumStep, OneOf
  <2>2. F = [s \in SUBSET S |->
               IF s = {} THEN 0
               ELSE f[CHOOSE x \in s : TRUE] + F[s \ {CHOOSE x \in s : TRUE}]]
    BY <2>1
  <2>. HIDE DEF F
  <2>. QED  BY <2>2 DEF Sums, SumStep, OneOf
<1>. HIDE DEF F
<1>. QED  BY <1>1, <1>3

\* A sum is the summand that is chosen first and the sum of the others.
LEMMA SumOfAny ==
  ASSUME NEW f, NEW S, IsFiniteSet(S), S # {}
  PROVE  SumFunctionOnSet(f, S) = f[OneOf(S)] + SumFunctionOnSet(f, S \ {OneOf(S)})
<1> DEFINE R == S \ {OneOf(S)}
<1>1. IsFiniteSet(R) /\ R \in SUBSET S /\ R \in SUBSET (S \cap R)
  BY FS_Subset
<1>2. PICK h : Sums(f, S, h) /\ SumFunctionOnSet(f, S) = h[S]
  BY SumIsFold
<1>3. PICK g : Sums(f, R, g) /\ SumFunctionOnSet(f, R) = g[R]
  BY <1>1, SumIsFold
<1>4. h[R] = g[R]
  <2>. HIDE DEF R
  <2>. QED  BY <1>1, <1>2, <1>3, SameSums
<1>5. h[S] = SumStep(f, h, S)
  BY <1>2 DEF Sums
<1>6. h[S] = f[OneOf(S)] + h[R]
  BY <1>5 DEF SumStep
<1>. HIDE DEF R
<1>. QED  BY <1>2, <1>3, <1>4, <1>6 DEF R

\* Nothing adds up to 0.
LEMMA SumOfNone ==
  ASSUME NEW f
  PROVE  SumFunctionOnSet(f, {}) = 0
<1>1. PICK h : Sums(f, {}, h) /\ SumFunctionOnSet(f, {}) = h[{}]
  BY SumIsFold, FS_EmptySet
<1>2. h[{}] = SumStep(f, h, {})
  BY <1>1 DEF Sums
<1>. QED  BY <1>1, <1>2 DEF SumStep

\* What is summed are integers.
Adds(f, S) == IsFiniteSet(S) /\ \A i \in S : f[i] \in Int

\* Whole summands have a whole sum.
LEMMA SumIsInt ==
  ASSUME NEW f, NEW L, Adds(f, L)
  PROVE  SumFunctionOnSet(f, L) \in Int
<1> DEFINE Bad == {S \in SUBSET L : SumFunctionOnSet(f, S) \notin Int}
<1>1. Bad = {}
  <2> SUFFICES ASSUME Bad # {}  PROVE FALSE
    OBVIOUS
  <2>1. Bad \in SUBSET (SUBSET L) /\ IsFiniteSet(L)
    BY DEF Adds
  <2>2. PICK S \in Bad : \A T \in SUBSET S : T # S => T \notin Bad
    <3>. HIDE DEF Bad
    <3>. QED  BY <2>1, SmallestBad
  <2>3. S \in SUBSET L /\ SumFunctionOnSet(f, S) \notin Int
    BY <2>2
  <2>4. S # {}
    BY <2>3, SumOfNone
  <2>5. OneOf(S) \in S
    BY <2>4 DEF OneOf
  <2>6. S \ {OneOf(S)} \in SUBSET S /\ S \ {OneOf(S)} # S
    BY <2>5
  <2>7. SumFunctionOnSet(f, S \ {OneOf(S)}) \in Int
    BY <2>2, <2>3, <2>6
  <2>8. f[OneOf(S)] \in Int /\ IsFiniteSet(S)
    BY <2>1, <2>3, <2>5, FS_Subset DEF Adds
  <2>9. SumFunctionOnSet(f, S) = f[OneOf(S)] + SumFunctionOnSet(f, S \ {OneOf(S)})
    BY <2>4, <2>8, SumOfAny
  <2>. QED  BY <2>3, <2>7, <2>8, <2>9
<1>. QED  BY <1>1

\* Whatever the order of the summands.
LEMMA SumOfOne ==
  ASSUME NEW f, NEW L, Adds(f, L), NEW x \in L
  PROVE  SumFunctionOnSet(f, L) = f[x] + SumFunctionOnSet(f, L \ {x})
<1> DEFINE Splits(S) == \A y \in S : SumFunctionOnSet(f, S) = f[y] + SumFunctionOnSet(f, S \ {y})
           Bad == {S \in SUBSET L : ~Splits(S)}
<1>1. Bad = {}
  <2> SUFFICES ASSUME Bad # {}  PROVE FALSE
    OBVIOUS
  <2>1. Bad \in SUBSET (SUBSET L) /\ IsFiniteSet(L)
    BY DEF Adds
  <2>2. PICK S \in Bad : \A T \in SUBSET S : T # S => T \notin Bad
    <3>. HIDE DEF Bad
    <3>. QED  BY <2>1, SmallestBad
  <2>3. S \in SUBSET L /\ ~Splits(S)
    BY <2>2
  <2>4. PICK y \in S : SumFunctionOnSet(f, S) # f[y] + SumFunctionOnSet(f, S \ {y})
    BY <2>3
  <2>5. PICK c : c = OneOf(S) /\ c \in S
    BY <2>4 DEF OneOf
  <2>6. IsFiniteSet(S)
    BY <2>1, <2>3, FS_Subset
  <2>7. SumFunctionOnSet(f, S) = f[c] + SumFunctionOnSet(f, S \ {c})
    BY <2>4, <2>5, <2>6, SumOfAny
  <2>8. y # c
    BY <2>4, <2>7
  <2>9. Splits(S \ {c}) /\ Splits(S \ {y})
    <3>1. /\ S \ {c} \in SUBSET S /\ S \ {c} # S /\ S \ {c} \in SUBSET L
          /\ S \ {y} \in SUBSET S /\ S \ {y} # S /\ S \ {y} \in SUBSET L
      BY <2>3, <2>4, <2>5
    <3>. HIDE DEF Splits
    <3>. QED  BY <2>2, <3>1
  <2>10. PICK R : R = (S \ {c}) \ {y} /\ R = (S \ {y}) \ {c}
    OBVIOUS
  <2>11. /\ SumFunctionOnSet(f, S \ {c}) = f[y] + SumFunctionOnSet(f, R)
         /\ SumFunctionOnSet(f, S \ {y}) = f[c] + SumFunctionOnSet(f, R)
    <3>1. y \in S \ {c} /\ c \in S \ {y}
      BY <2>4, <2>5, <2>8
    <3>. QED  BY <2>9, <2>10, <3>1
  <2>12. f[c] \in Int /\ f[y] \in Int /\ SumFunctionOnSet(f, R) \in Int
    <3>1. Adds(f, R)
      BY <2>1, <2>3, <2>10, FS_Subset DEF Adds
    <3>2. SumFunctionOnSet(f, R) \in Int
      BY <3>1, SumIsInt
    <3>. QED  BY <2>3, <2>4, <2>5, <3>2 DEF Adds
  <2>. QED  BY <2>4, <2>7, <2>11, <2>12
<1>2. Splits(L)
  BY <1>1
<1>. QED  BY <1>2

\* A finite set is made element by element.
LEMMA ByElements ==
  ASSUME NEW L, IsFiniteSet(L), NEW Good, {} \in Good,
         \A S \in SUBSET L : \A x \in L \ S : S \in Good => S \cup {x} \in Good
  PROVE  L \in Good
<1> DEFINE Bad == {S \in SUBSET L : S \notin Good}
<1>1. Bad = {}
  <2> SUFFICES ASSUME Bad # {}  PROVE FALSE
    OBVIOUS
  <2>1. PICK S \in Bad : \A T \in SUBSET S : T # S => T \notin Bad
    <3>1. Bad \in SUBSET (SUBSET L)
      OBVIOUS
    <3>. HIDE DEF Bad
    <3>. QED  BY <3>1, SmallestBad
  <2>2. PICK x : x \in S
    BY <2>1
  <2>3. S \ {x} \in Good /\ S \ {x} \in SUBSET L /\ x \in L \ (S \ {x})
    BY <2>1, <2>2
  <2>4. (S \ {x}) \cup {x} = S
    BY <2>2
  <2>. QED  BY <2>1, <2>3, <2>4
<1>. QED  BY <1>1

\* A further member adds its summand.
LEMMA SumAdded ==
  ASSUME NEW f, NEW L, Adds(f, L), NEW S \in SUBSET L, NEW x \in L \ S
  PROVE  /\ SumFunctionOnSet(f, S \cup {x}) = f[x] + SumFunctionOnSet(f, S)
         /\ SumFunctionOnSet(f, S) \in Int /\ f[x] \in Int
<1>1. Adds(f, S) /\ Adds(f, S \cup {x}) /\ f[x] \in Int
  BY FS_Subset DEF Adds
<1>2. (S \cup {x}) \ {x} = S /\ x \in S \cup {x}
  OBVIOUS
<1>3. SumFunctionOnSet(f, S \cup {x}) = f[x] + SumFunctionOnSet(f, (S \cup {x}) \ {x})
  BY <1>1, <1>2, SumOfOne
<1>. QED  BY <1>1, <1>2, <1>3, SumIsInt

\* The sum over two sets with nothing in common.
LEMMA SumOfBoth ==
  ASSUME NEW f, NEW R, NEW L, Adds(f, R \cup L), R \cap L = {}
  PROVE  SumFunctionOnSet(f, R \cup L) = SumFunctionOnSet(f, R) + SumFunctionOnSet(f, L)
<1> DEFINE Good == {S \in SUBSET L : SumFunctionOnSet(f, R \cup S)
                                       = SumFunctionOnSet(f, R) + SumFunctionOnSet(f, S)}
<1>1. IsFiniteSet(L) /\ Adds(f, L) /\ Adds(f, R)
  BY FS_Subset DEF Adds
<1>2. {} \in Good
  <2>1. R \cup {} = R
    OBVIOUS
  <2>. QED  BY <1>1, <2>1, SumOfNone, SumIsInt
<1>3. ASSUME NEW S \in SUBSET L, NEW x \in L \ S, S \in Good
      PROVE  S \cup {x} \in Good
  <2>1. SumFunctionOnSet(f, S \cup {x}) = f[x] + SumFunctionOnSet(f, S)
        /\ SumFunctionOnSet(f, S) \in Int /\ f[x] \in Int
    BY <1>1, SumAdded
  <2> DEFINE T == R \cup S
             M == R \cup L
  <2>2. T \in SUBSET M /\ x \in M \ T /\ R \cup (S \cup {x}) = T \cup {x} /\ Adds(f, M)
    OBVIOUS
  <2>. HIDE DEF T, M
  <2>3. SumFunctionOnSet(f, T \cup {x}) = f[x] + SumFunctionOnSet(f, T)
        /\ SumFunctionOnSet(f, T) \in Int
    BY <2>2, SumAdded
  <2>4. SumFunctionOnSet(f, R) \in Int
    BY <1>1, SumIsInt
  <2>5. SumFunctionOnSet(f, T) = SumFunctionOnSet(f, R) + SumFunctionOnSet(f, S)
    BY <1>3 DEF T
  <2>6. SumFunctionOnSet(f, T \cup {x})
          = SumFunctionOnSet(f, R) + SumFunctionOnSet(f, S \cup {x})
    BY <2>1, <2>3, <2>4, <2>5
  <2>7. R \cup (S \cup {x}) = T \cup {x}
    BY <2>2
  <2>8. SumFunctionOnSet(f, R \cup (S \cup {x}))
          = SumFunctionOnSet(f, R) + SumFunctionOnSet(f, S \cup {x})
    BY <2>6, <2>7, Zenon
  <2>. QED  BY <2>8
<1>4. L \in Good
  <2>. HIDE DEF Good
  <2>. QED  BY <1>1, <1>2, <1>3, ByElements
<1>. QED  BY <1>4

\* h is a times f and b times g, on L.
Combines(h, a, f, b, g, L) == \A i \in L : h[i] = a * f[i] + b * g[i]

\* The sum of what is made of two summands.
LEMMA SumIsLinear ==
  ASSUME NEW L, NEW f, NEW g, NEW h, Adds(f, L), Adds(g, L), NEW a \in Int, NEW b \in Int,
         Combines(h, a, f, b, g, L)
  PROVE  SumFunctionOnSet(h, L) = a * SumFunctionOnSet(f, L) + b * SumFunctionOnSet(g, L)
<1> DEFINE Good == {S \in SUBSET L : SumFunctionOnSet(h, S)
                       = a * SumFunctionOnSet(f, S) + b * SumFunctionOnSet(g, S)}
<1>1. IsFiniteSet(L) /\ Adds(h, L)
  BY DEF Adds, Combines
<1>2. {} \in Good
  BY SumOfNone
<1>3. ASSUME NEW S \in SUBSET L, NEW x \in L \ S, S \in Good
      PROVE  S \cup {x} \in Good
  <2>1. SumFunctionOnSet(f, S \cup {x}) = f[x] + SumFunctionOnSet(f, S)
        /\ SumFunctionOnSet(f, S) \in Int /\ f[x] \in Int
    BY SumAdded
  <2>2. SumFunctionOnSet(g, S \cup {x}) = g[x] + SumFunctionOnSet(g, S)
        /\ SumFunctionOnSet(g, S) \in Int /\ g[x] \in Int
    BY SumAdded
  <2>3. SumFunctionOnSet(h, S \cup {x}) = h[x] + SumFunctionOnSet(h, S)
    BY <1>1, SumAdded
  <2>4. h[x] = a * f[x] + b * g[x]
    BY DEF Combines
  <2>5. SumFunctionOnSet(h, S) = a * SumFunctionOnSet(f, S) + b * SumFunctionOnSet(g, S)
    BY <1>3
  <2>6. \A p, q, s, t \in Int :
           (a * p + b * q) + (a * s + b * t) = a * (p + s) + b * (q + t)
    OBVIOUS
  <2>7. SumFunctionOnSet(h, S \cup {x})
          = a * SumFunctionOnSet(f, S \cup {x}) + b * SumFunctionOnSet(g, S \cup {x})
    BY <2>1, <2>2, <2>3, <2>4, <2>5, <2>6
  <2>. QED  BY <2>7
<1>4. L \in Good
  <2>. HIDE DEF Good
  <2>. QED  BY <1>1, <1>2, <1>3, ByElements
<1>. QED  BY <1>4

\* A sum of multiples is the multiple of the sum.
LEMMA SumIsScaled ==
  ASSUME NEW L, NEW f, NEW h, Adds(f, L), NEW a \in Int, \A i \in L : h[i] = a * f[i]
  PROVE  SumFunctionOnSet(h, L) = a * SumFunctionOnSet(f, L)
<1>1. PICK b, g : b \in Int /\ b = 0 /\ g = f
  OBVIOUS
<1>2. Combines(h, a, f, b, g, L)
  BY <1>1 DEF Adds, Combines
<1>3. Adds(g, L)
  BY <1>1
<1>4. SumFunctionOnSet(h, L) = a * SumFunctionOnSet(f, L) + b * SumFunctionOnSet(g, L)
  BY <1>1, <1>2, <1>3, SumIsLinear
<1>5. PICK s \in Int, t \in Int : s = SumFunctionOnSet(f, L) /\ t = SumFunctionOnSet(g, L)
  BY <1>3, SumIsInt
<1>. QED  BY <1>1, <1>4, <1>5

\* Functions that agree on a set have the same sum over it.
LEMMA SameSummands ==
  ASSUME NEW L, NEW f, NEW h, Adds(f, L), \A i \in L : h[i] = f[i]
  PROVE  SumFunctionOnSet(h, L) = SumFunctionOnSet(f, L)
<1>1. PICK a \in Int : a = 1
  OBVIOUS
<1>2. \A i \in L : h[i] = a * f[i]
  BY <1>1 DEF Adds
<1>3. SumFunctionOnSet(h, L) = a * SumFunctionOnSet(f, L)
  BY <1>2, SumIsScaled
<1>. QED  BY <1>1, <1>3, SumIsInt

\* The sum of the opposites is the opposite of the sum.
LEMMA SumNegated ==
  ASSUME NEW L, NEW f, NEW h, Adds(f, L), \A i \in L : h[i] = -f[i]
  PROVE  SumFunctionOnSet(h, L) = -SumFunctionOnSet(f, L)
<1> DEFINE Good == {S \in SUBSET L : SumFunctionOnSet(h, S) = -SumFunctionOnSet(f, S)}
<1>1. IsFiniteSet(L) /\ Adds(h, L)
  BY DEF Adds
<1>2. {} \in Good
  BY SumOfNone
<1>3. ASSUME NEW S \in SUBSET L, NEW x \in L \ S, S \in Good
      PROVE  S \cup {x} \in Good
  <2>1. SumFunctionOnSet(f, S \cup {x}) = f[x] + SumFunctionOnSet(f, S)
        /\ SumFunctionOnSet(f, S) \in Int /\ f[x] \in Int
    BY SumAdded
  <2>2. SumFunctionOnSet(h, S \cup {x}) = h[x] + SumFunctionOnSet(h, S)
    BY <1>1, SumAdded
  <2>. QED  BY <1>3, <2>1, <2>2
<1>4. L \in Good
  <2>. HIDE DEF Good
  <2>. QED  BY <1>1, <1>2, <1>3, ByElements
<1>. QED  BY <1>4

\* Zeros add up to 0.
LEMMA SumOfZeros ==
  ASSUME NEW L, NEW f, IsFiniteSet(L), \A i \in L : f[i] = 0
  PROVE  SumFunctionOnSet(f, L) = 0
<1>1. PICK a \in Int : a = 0
  OBVIOUS
<1>2. Adds(f, L) /\ \A i \in L : f[i] = a * f[i]
  BY <1>1 DEF Adds
<1>3. SumFunctionOnSet(f, L) = a * SumFunctionOnSet(f, L)
  BY <1>2, SumIsScaled
<1>. QED  BY <1>1, <1>2, <1>3, SumIsInt

\* A sum of what is not negative is not, and is positive if a summand is.
LEMMA SumIsPositive ==
  ASSUME NEW L, NEW f, Adds(f, L), \A i \in L : f[i] >= 0
  PROVE  /\ SumFunctionOnSet(f, L) \in Nat
         /\ (\E i \in L : f[i] > 0) => SumFunctionOnSet(f, L) > 0
<1> DEFINE Good == {S \in SUBSET L : SumFunctionOnSet(f, S) \in Nat}
<1>1. IsFiniteSet(L)
  BY DEF Adds
<1>2. {} \in Good
  BY SumOfNone
<1>3. ASSUME NEW S \in SUBSET L, NEW x \in L \ S, S \in Good
      PROVE  S \cup {x} \in Good
  <2>1. SumFunctionOnSet(f, S \cup {x}) = f[x] + SumFunctionOnSet(f, S)
        /\ SumFunctionOnSet(f, S) \in Int /\ f[x] \in Int
    BY SumAdded
  <2>. QED  BY <1>3, <2>1
<1>4. L \in Good
  <2>. HIDE DEF Good
  <2>. QED  BY <1>1, <1>2, <1>3, ByElements
<1>5. ASSUME NEW i \in L, f[i] > 0
      PROVE  SumFunctionOnSet(f, L) > 0
  <2>1. SumFunctionOnSet(f, L) = f[i] + SumFunctionOnSet(f, L \ {i})
    BY SumOfOne
  <2>2. Adds(f, L \ {i}) /\ L \ {i} \in SUBSET L
    BY FS_Subset DEF Adds
  <2> DEFINE Rest == {S \in SUBSET (L \ {i}) : SumFunctionOnSet(f, S) \in Nat}
  <2>3. {} \in Rest
    BY SumOfNone
  <2>4. ASSUME NEW S \in SUBSET (L \ {i}), NEW x \in (L \ {i}) \ S, S \in Rest
        PROVE  S \cup {x} \in Rest
    <3>1. SumFunctionOnSet(f, S \cup {x}) = f[x] + SumFunctionOnSet(f, S)
          /\ SumFunctionOnSet(f, S) \in Int /\ f[x] \in Int
      BY <2>2, SumAdded
    <3>. QED  BY <2>4, <3>1
  <2>5. L \ {i} \in Rest
    <3>. HIDE DEF Rest
    <3>. QED  BY <2>2, <2>3, <2>4, ByElements DEF Adds
  <2>. QED  BY <1>5, <2>1, <2>5 DEF Adds
<1>. QED  BY <1>4, <1>5

-----------------------------------------------------------------------------
(* Orders on a finite set: R is a set of pairs, the first of which precedes.   *)

Orders(R, L) ==
    /\ \A x \in L : <<x, x>> \notin R
    /\ \A x, y \in L : x # y => <<x, y>> \in R \/ <<y, x>> \in R
    /\ \A x, y, z \in L : <<x, y>> \in R /\ <<y, z>> \in R => <<x, z>> \in R

\* A finite, ordered set has a first member.
LEMMA FirstExists ==
  ASSUME NEW L, IsFiniteSet(L), L # {}, NEW R, Orders(R, L)
  PROVE  \E x \in L : \A y \in L \ {x} : <<x, y>> \in R
<1> DEFINE HasFirst(S) == \E x \in S : \A y \in S \ {x} : <<x, y>> \in R
           Good == {S \in SUBSET L : S = {} \/ HasFirst(S)}
<1>1. {} \in Good
  OBVIOUS
<1>2. ASSUME NEW S \in SUBSET L, NEW z \in L \ S, S \in Good
      PROVE  S \cup {z} \in Good
  <2>1. CASE S = {}
    <3>1. \A y \in (S \cup {z}) \ {z} : <<z, y>> \in R
      BY <2>1
    <3>. QED  BY <3>1
  <2>2. CASE S # {}
    <3>1. PICK x \in S : \A y \in S \ {x} : <<x, y>> \in R
      BY <1>2, <2>2
    <3>2. CASE <<x, z>> \in R
      <4>1. \A y \in (S \cup {z}) \ {x} : <<x, y>> \in R
        BY <3>1, <3>2
      <4>. QED  BY <4>1
    <3>3. CASE <<z, x>> \in R
      <4>1. \A y \in S : <<z, y>> \in R
        BY <3>1, <3>3 DEF Orders
      <4>2. \A y \in (S \cup {z}) \ {z} : <<z, y>> \in R
        BY <4>1
      <4>. QED  BY <4>2
    <3>4. x # z
      BY <3>1
    <3>. QED  BY <3>2, <3>3, <3>4 DEF Orders
  <2>. QED  BY <2>1, <2>2
<1>3. L \in Good
  <2>. HIDE DEF Good
  <2>. QED  BY <1>1, <1>2, ByElements
<1>. QED  BY <1>3

\* There are n numbers below n.
LEMMA FromZero ==
  ASSUME NEW n \in Nat
  PROVE  IsFiniteSet(0..(n - 1)) /\ Cardinality(0..(n - 1)) = n
<1>1. PICK a \in Int, b \in Int : a = 0 /\ b = n - 1
  OBVIOUS
<1>2. IsFiniteSet(a..b) /\ Cardinality(a..b) = IF a > b THEN 0 ELSE b - a + 1
  BY FS_Interval
<1>. QED  BY <1>1, <1>2

\* The members of an ordered set with fewer than m before them.
Leading(L, R, m) == {x \in L : Cardinality({y \in L \ {x} : <<y, x>> \in R}) < m}

\* There are m of them.
LEMMA FirstMembers ==
  ASSUME NEW L, IsFiniteSet(L), NEW R, Orders(R, L), NEW m \in 0..Cardinality(L)
  PROVE  Cardinality(Leading(L, R, m)) = m
<1> DEFINE Low(x) == {y \in L \ {x} : <<y, x>> \in R}
           top == {x \in L : Cardinality(Low(x)) < m}
           T == 0..(Cardinality(L) - 1)
           f == [x \in L |-> Cardinality(Low(x))]
           g == [x \in top |-> Cardinality(Low(x))]
           U == 0..(m - 1)
<1>1. Cardinality(L) \in Nat /\ m \in Nat /\ m <= Cardinality(L)
  BY FS_CardinalityType
<1>2. ASSUME NEW x \in L
      PROVE  IsFiniteSet(Low(x)) /\ Cardinality(Low(x)) \in T
  <2>1. Low(x) \in SUBSET L /\ x \in L /\ x \notin Low(x)
    OBVIOUS
  <2>. HIDE DEF Low
  <2>2. IsFiniteSet(Low(x)) /\ Cardinality(Low(x)) <= Cardinality(L)
        /\ Cardinality(Low(x)) # Cardinality(L)
    BY <2>1, FS_Subset
  <2>. QED  BY <1>1, <2>2, FS_CardinalityType
<1>3. ASSUME NEW x \in L, NEW y \in L, <<x, y>> \in R
      PROVE  Cardinality(Low(x)) < Cardinality(Low(y))
  <2>1. x # y
    BY <1>3 DEF Orders
  <2>2. x \in Low(y) /\ x \notin Low(x)
    BY <1>3, <2>1
  <2>3. \A z \in Low(x) : z \in Low(y)
    <3> SUFFICES ASSUME NEW z \in L, z # x, <<z, x>> \in R  PROVE z \in L \ {y} /\ <<z, y>> \in R
      OBVIOUS
    <3>1. <<z, y>> \in R
      BY <1>3 DEF Orders
    <3>. QED  BY <3>1 DEF Orders
  <2>4. Low(x) \in SUBSET Low(y)
    BY <2>3
  <2>. HIDE DEF Low
  <2>5. /\ Cardinality(Low(x)) <= Cardinality(Low(y))
        /\ Cardinality(Low(x)) # Cardinality(Low(y))
    BY <1>2, <2>2, <2>4, FS_Subset
  <2>. QED  BY <1>2, <2>5
<1>4. \A x, y \in L : Cardinality(Low(x)) = Cardinality(Low(y)) => x = y
  <2> SUFFICES ASSUME NEW x \in L, NEW y \in L, Cardinality(Low(x)) = Cardinality(Low(y)), x # y
               PROVE  FALSE
    OBVIOUS
  <2>1. Cardinality(Low(x)) \in T
    BY <1>2
  <2>2. ~(<<x, y>> \in R) /\ ~(<<y, x>> \in R)
    <3>. HIDE DEF Low
    <3>. QED  BY <1>1, <1>3, <2>1
  <2>. QED  BY <2>2 DEF Orders
<1>5. f \in Injection(L, T)
  <2>1. f \in [L -> T]
    <3>. HIDE DEF Low, T
    <3>. QED  BY <1>2
  <2>2. \A x, y \in L : f[x] = f[y] => x = y
    <3>. HIDE DEF Low
    <3>. QED  BY <1>4
  <2>. HIDE DEF f
  <2>. QED  BY <2>1, <2>2 DEF Injection, IsInjective
<1>6. IsFiniteSet(T) /\ Cardinality(T) = Cardinality(L)
  BY <1>1, FromZero
<1>7. f \in Surjection(L, T)
  <2>. HIDE DEF f, T
  <2>. QED  BY <1>5, <1>6, FS_Injection
<1>8. IsFiniteSet(U) /\ Cardinality(U) = m
  BY <1>1, FromZero
<1>9. g \in Injection(top, U)
  <2>1. \A x \in top : Cardinality(Low(x)) \in U
    <3> SUFFICES ASSUME NEW x \in top  PROVE Cardinality(Low(x)) \in U
      OBVIOUS
    <3>1. x \in L /\ Cardinality(Low(x)) < m
      OBVIOUS
    <3>2. Cardinality(Low(x)) \in T
      BY <1>2, <3>1
    <3>. HIDE DEF Low
    <3>. QED  BY <1>1, <3>1, <3>2
  <2>2. g \in [top -> U]
    <3>. HIDE DEF Low, U, top
    <3>. QED  BY <2>1
  <2>3. \A x, y \in top : g[x] = g[y] => x = y
    <3>. HIDE DEF Low
    <3>. QED  BY <1>4
  <2>. HIDE DEF g, top
  <2>. QED  BY <2>2, <2>3 DEF Injection, IsInjective
<1>10. g \in Surjection(top, U)
  <2>1. \A r \in U : \E x \in top : g[x] = r
    <3> SUFFICES ASSUME NEW r \in U  PROVE \E x \in top : g[x] = r
      OBVIOUS
    <3>1. r \in T /\ r < m
      BY <1>1
    <3>2. PICK x \in L : f[x] = r
      <4>. HIDE DEF f, T
      <4>. QED  BY <1>7, <3>1 DEF Surjection
    <3>3. Cardinality(Low(x)) = r
      <4>. HIDE DEF Low
      <4>. QED  BY <3>2
    <3>4. x \in top
      <4>. HIDE DEF Low
      <4>. QED  BY <3>1, <3>3
    <3>. HIDE DEF Low, top
    <3>. QED  BY <3>3, <3>4
  <2>2. g \in [top -> U]
    BY <1>9 DEF Injection
  <2>. HIDE DEF g, top, U
  <2>. QED  BY <2>1, <2>2 DEF Surjection
<1>11. Cardinality(top) = Cardinality(U)
  <2>. HIDE DEF g, top, U
  <2>. QED  BY <1>8, <1>9, <1>10, FS_Injection
<1>12. Leading(L, R, m) = top
  BY DEF Leading
<1>. QED  BY <1>8, <1>11, <1>12

-----------------------------------------------------------------------------
(* Ranks in a finite set of numbers.                                           *)

Rank(S, k) == Cardinality({j \in S : j <= k})

LEMMA Ranks ==
  ASSUME NEW S \in SUBSET Int, IsFiniteSet(S)
  PROVE  /\ Cardinality(S) \in Nat
         /\ \A k \in S : Rank(S, k) \in 1..Cardinality(S)
         /\ \A j, k \in S : j < k => Rank(S, j) < Rank(S, k)
<1> DEFINE Low(k) == {j \in S : j <= k}
<1>1. Cardinality(S) \in Nat
  BY FS_CardinalityType
<1>2. ASSUME NEW k \in S
      PROVE  /\ IsFiniteSet(Low(k)) /\ Cardinality(Low(k)) \in Nat
             /\ Cardinality(Low(k)) <= Cardinality(S) /\ Cardinality(Low(k)) # 0
  <2>1. Low(k) \in SUBSET S /\ k \in Low(k)
    OBVIOUS
  <2>. HIDE DEF Low
  <2>2. IsFiniteSet(Low(k)) /\ Cardinality(Low(k)) <= Cardinality(S)
    BY <2>1, FS_Subset
  <2>. QED  BY <2>1, <2>2, FS_CardinalityType, FS_EmptySet
<1>3. ASSUME NEW j \in S, NEW k \in S, j < k
      PROVE  Cardinality(Low(j)) < Cardinality(Low(k))
  <2>1. Low(j) \in SUBSET Low(k) /\ k \in Low(k) /\ k \notin Low(j)
    <3>1. j \in Int /\ k \in Int /\ j < k /\ \A i \in S : i \in Int
      BY <1>3
    <3>2. \A i \in Low(j) : i \in Low(k)
      BY <3>1
    <3>3. k \in Low(k) /\ k \notin Low(j)
      BY <3>1
    <3>. HIDE DEF Low
    <3>. QED  BY <3>2, <3>3
  <2>. HIDE DEF Low
  <2>2. Cardinality(Low(j)) <= Cardinality(Low(k)) /\ Cardinality(Low(j)) # Cardinality(Low(k))
    BY <1>2, <2>1, FS_Subset
  <2>. QED  BY <1>2, <2>2
<1>. QED  BY <1>1, <1>2, <1>3 DEF Rank

LEMMA RankInjective ==
  ASSUME NEW S \in SUBSET Int, IsFiniteSet(S), NEW j \in S, NEW k \in S,
         Rank(S, j) = Rank(S, k)
  PROVE  j = k
<1>1. Rank(S, j) \in Int /\ Rank(S, k) \in Int
  BY Ranks
<1>2. ~(j < k) /\ ~(k < j)
  BY <1>1, Ranks
<1>. QED  BY <1>2

LEMMA RankReached ==
  ASSUME NEW S \in SUBSET Int, IsFiniteSet(S), NEW r \in 1..Cardinality(S)
  PROVE  \E k \in S : Rank(S, k) = r
<1> DEFINE f == [k \in S |-> Rank(S, k)]
           T == 1..Cardinality(S)
<1>1. f \in Injection(S, T)
  <2>1. f \in [S -> T]
    BY Ranks
  <2>2. \A j, k \in S : f[j] = f[k] => j = k
    BY RankInjective
  <2>. QED  BY <2>1, <2>2 DEF Injection, IsInjective
<1>2. IsFiniteSet(T) /\ Cardinality(T) = Cardinality(S)
  <2>1. Cardinality(S) \in Nat
    BY FS_CardinalityType
  <2>. QED  BY <2>1, FS_Interval
<1>3. f \in Surjection(S, T)
  <2>. HIDE DEF f, T
  <2>. QED  BY <1>1, <1>2, FS_Injection
<1>. QED  BY <1>3 DEF Surjection

\* Of a set's first m elements there are m, or all.
LEMMA FirstOnes ==
  ASSUME NEW S \in SUBSET Int, IsFiniteSet(S), NEW m \in Nat
  PROVE  Cardinality({k \in S : Rank(S, k) <= m})
           = IF m < Cardinality(S) THEN m ELSE Cardinality(S)
<1> DEFINE low == {k \in S : Rank(S, k) <= m}
           n == IF m < Cardinality(S) THEN m ELSE Cardinality(S)
           T == 1..n
           f == [k \in low |-> Rank(S, k)]
<1>1. /\ Cardinality(S) \in Nat /\ n \in Nat
      /\ \A k \in S : Rank(S, k) \in 1..Cardinality(S)
  BY Ranks
<1>2. f \in Injection(low, T)
  <2>1. f \in [low -> T]
    <3>1. \A k \in low : Rank(S, k) \in T
      <4> SUFFICES ASSUME NEW k \in low  PROVE Rank(S, k) \in T
        OBVIOUS
      <4>1. Rank(S, k) \in 1..Cardinality(S) /\ Rank(S, k) <= m
        BY <1>1
      <4>. QED  BY <1>1, <4>1
    <3>. HIDE DEF low, T
    <3>. QED  BY <3>1
  <2>2. \A j, k \in low : f[j] = f[k] => j = k
    BY RankInjective
  <2>. QED  BY <2>1, <2>2 DEF Injection, IsInjective
<1>3. IsFiniteSet(T) /\ Cardinality(T) = n
  <2>. HIDE DEF n
  <2>. QED  BY <1>1, FS_Interval
<1>4. f \in Surjection(low, T)
  <2>1. \A r \in T : \E k \in low : f[k] = r
    <3> SUFFICES ASSUME NEW r \in T  PROVE \E k \in low : f[k] = r
      OBVIOUS
    <3>1. r \in 1..Cardinality(S) /\ r <= m
      BY <1>1
    <3>2. PICK k \in S : Rank(S, k) = r
      BY <3>1, RankReached
    <3>. QED  BY <3>1, <3>2
  <2>2. f \in [low -> T]
    BY <1>2 DEF Injection
  <2>. HIDE DEF f, low, T
  <2>. QED  BY <2>1, <2>2 DEF Surjection
<1>5. Cardinality(low) = Cardinality(T)
  <2>. HIDE DEF f, low, T, n
  <2>. QED  BY <1>2, <1>3, <1>4, FS_Injection
<1>. QED  BY <1>3, <1>5

-----------------------------------------------------------------------------
(* Summands and sets told apart by a bijection.                                *)

\* A sum is not changed when its summands move to another set.
LEMMA SumMoved ==
  ASSUME NEW S, NEW T, NEW f, NEW g, NEW p \in Bijection(S, T), Adds(f, S),
         \A x \in S : g[p[x]] = f[x]
  PROVE  /\ Adds(g, T)
         /\ SumFunctionOnSet(g, T) = SumFunctionOnSet(f, S)
<1> DEFINE Image(R) == {p[x] : x \in R}
           Good == {R \in SUBSET S : SumFunctionOnSet(g, Image(R)) = SumFunctionOnSet(f, R)}
<1>1. /\ p \in [S -> T] /\ \A x, y \in S : p[x] = p[y] => x = y
      /\ \A t \in T : \E x \in S : p[x] = t
  BY DEF Bijection, Injection, Surjection, IsInjective
<1>2. Image(S) = T
  BY <1>1
<1>3. IsFiniteSet(T)
  <2>1. p \in Surjection(S, T) /\ IsFiniteSet(S)
    BY DEF Bijection, Adds
  <2>. QED  BY <2>1, FS_Surjection
<1>4. Adds(g, T)
  <2>1. \A t \in T : g[t] \in Int
    BY <1>1 DEF Adds
  <2>. QED  BY <1>3, <2>1 DEF Adds
<1>5. {} \in Good
  <2>1. Image({}) = {}
    OBVIOUS
  <2>. HIDE DEF Image
  <2>. QED  BY <2>1, SumOfNone
<1>6. ASSUME NEW R \in SUBSET S, NEW x \in S \ R, R \in Good
      PROVE  R \cup {x} \in Good
  <2>1. Image(R \cup {x}) = Image(R) \cup {p[x]}
    OBVIOUS
  <2>2. Image(R) \in SUBSET T /\ p[x] \in T \ Image(R)
    BY <1>1
  <2>3. SumFunctionOnSet(g, Image(R)) = SumFunctionOnSet(f, R)
    BY <1>6
  <2>4. g[p[x]] = f[x]
    OBVIOUS
  <2>. HIDE DEF Image
  <2>5. SumFunctionOnSet(g, Image(R) \cup {p[x]}) = g[p[x]] + SumFunctionOnSet(g, Image(R))
    BY <1>4, <2>2, SumAdded
  <2>6. SumFunctionOnSet(f, R \cup {x}) = f[x] + SumFunctionOnSet(f, R)
    BY SumAdded
  <2>7. SumFunctionOnSet(g, Image(R \cup {x})) = SumFunctionOnSet(f, R \cup {x})
    BY <2>1, <2>3, <2>4, <2>5, <2>6
  <2>. QED  BY <2>7
<1>7. S \in Good
  <2>. HIDE DEF Good
  <2>. QED  BY <1>5, <1>6, ByElements DEF Adds
<1>. HIDE DEF Image
<1>. QED  BY <1>2, <1>4, <1>7

\* Elements that add nothing may be left out.
LEMMA SumWithoutZeros ==
  ASSUME NEW f, NEW S, NEW T \in SUBSET S, Adds(f, S), \A x \in S \ T : f[x] = 0
  PROVE  SumFunctionOnSet(f, S) = SumFunctionOnSet(f, T)
<1>1. S = T \cup (S \ T) /\ T \cap (S \ T) = {}
  OBVIOUS
<1>2. SumFunctionOnSet(f, S) = SumFunctionOnSet(f, T) + SumFunctionOnSet(f, S \ T)
  BY <1>1, SumOfBoth
<1>3. IsFiniteSet(S \ T)
  BY FS_Difference DEF Adds
<1>4. SumFunctionOnSet(f, S \ T) = 0
  BY <1>3, SumOfZeros
<1>5. Adds(f, T)
  BY FS_Subset DEF Adds
<1>6. SumFunctionOnSet(f, T) \in Int
  BY <1>5, SumIsInt
<1>. QED  BY <1>2, <1>4, <1>6

\* A map that is one to one on a finite set loses no element of it.
LEMMA OneToOne ==
  ASSUME NEW S, NEW T, IsFiniteSet(T), NEW p \in [S -> T],
         \A x, y \in S : p[x] = p[y] => x = y
  PROVE  /\ IsFiniteSet(S) /\ Cardinality(S) \in Nat /\ Cardinality(T) \in Nat
         /\ Cardinality(S) <= Cardinality(T)
         /\ Cardinality(T) <= Cardinality(S) => p \in Bijection(S, T)
<1>1. p \in Injection(S, T)
  BY DEF Injection, IsInjective
<1>2. /\ IsFiniteSet(S) /\ Cardinality(S) <= Cardinality(T)
      /\ Cardinality(S) = Cardinality(T) <=> p \in Surjection(S, T)
  BY <1>1, FS_Injection
<1>3. Cardinality(S) \in Nat /\ Cardinality(T) \in Nat
  BY <1>2, FS_CardinalityType
<1>. QED  BY <1>1, <1>2, <1>3 DEF Bijection

-----------------------------------------------------------------------------
(* Two finite sets of numbers matched one to one within equal values.          *)

Alike(S, f, v) == {x \in S : f[x] = v}

Matched(S, f, T, g) ==
    {x \in S : Rank(Alike(S, f, f[x]), x) <= Cardinality(Alike(T, g, f[x]))}

Partner(S, f, T, g, x) ==
    CHOOSE y \in Alike(T, g, f[x]) : Rank(Alike(T, g, f[x]), y) = Rank(Alike(S, f, f[x]), x)

Pairs(S, f, T, g) == [x \in Matched(S, f, T, g) |-> Partner(S, f, T, g, x)]

Numbers(S) == S \in SUBSET Int /\ IsFiniteSet(S)

LEMMA AlikeRanks ==
  ASSUME NEW S, Numbers(S), NEW f, NEW v
  PROVE  /\ Numbers(Alike(S, f, v)) /\ Cardinality(Alike(S, f, v)) \in Nat
         /\ \A x \in Alike(S, f, v) :
               Rank(Alike(S, f, v), x) \in 1..Cardinality(Alike(S, f, v))
<1>1. Alike(S, f, v) \in SUBSET S
  BY DEF Alike
<1>2. Numbers(Alike(S, f, v))
  BY <1>1, FS_Subset DEF Numbers
<1>. QED  BY <1>2, Ranks DEF Numbers

LEMMA PartnerOf ==
  ASSUME NEW S, NEW f, NEW T, NEW g, Numbers(S), Numbers(T),
         NEW x \in Matched(S, f, T, g)
  PROVE  LET y == Partner(S, f, T, g, x) IN
         /\ x \in S /\ y \in T /\ g[y] = f[x]
         /\ Rank(Alike(T, g, f[x]), y) = Rank(Alike(S, f, f[x]), x)
         /\ y \in Matched(T, g, S, f)
<1> DEFINE y == Partner(S, f, T, g, x)
           A == Alike(S, f, f[x])
           B == Alike(T, g, f[x])
<1>1. x \in S /\ x \in A /\ Rank(A, x) <= Cardinality(B)
  BY DEF Matched, Alike
<1>2. /\ Rank(A, x) \in 1..Cardinality(A) /\ Cardinality(A) \in Nat
      /\ Cardinality(B) \in Nat /\ B \in SUBSET Int /\ IsFiniteSet(B)
  BY <1>1, AlikeRanks DEF Numbers
<1>3. \E z \in B : Rank(B, z) = Rank(A, x)
  <2>. HIDE DEF A, B
  <2>1. Rank(A, x) \in 1..Cardinality(B)
    BY <1>1, <1>2
  <2>. QED  BY <1>2, <2>1, RankReached
<1>4. y \in B /\ Rank(B, y) = Rank(A, x)
  BY <1>3 DEF Partner
<1>5. y \in T /\ g[y] = f[x]
  BY <1>4 DEF Alike
<1>6. y \in Matched(T, g, S, f)
  <2>1. Rank(Alike(T, g, g[y]), y) <= Cardinality(Alike(S, f, g[y]))
    <3>. HIDE DEF y
    <3>. QED  BY <1>2, <1>4, <1>5
  <2>. QED  BY <1>5, <2>1 DEF Matched
<1>. QED  BY <1>1, <1>4, <1>5, <1>6

\* Rows matched so have each a partner of their own, and leave none out.
LEMMA Pairing ==
  ASSUME NEW S, NEW f, NEW T, NEW g, Numbers(S), Numbers(T)
  PROVE  /\ Pairs(S, f, T, g) \in Bijection(Matched(S, f, T, g), Matched(T, g, S, f))
         /\ \A x \in Matched(S, f, T, g) : g[Pairs(S, f, T, g)[x]] = f[x]
<1> DEFINE A == Matched(S, f, T, g)
           B == Matched(T, g, S, f)
           p == Pairs(S, f, T, g)
<1>1. ASSUME NEW x \in A
      PROVE  /\ p[x] = Partner(S, f, T, g, x) /\ x \in S /\ p[x] \in T /\ p[x] \in B
             /\ g[p[x]] = f[x]
             /\ Rank(Alike(T, g, f[x]), p[x]) = Rank(Alike(S, f, f[x]), x)
  BY <1>1, PartnerOf DEF Pairs
<1>2. p \in [A -> B]
  <2>. HIDE DEF B
  <2>. QED  BY <1>1 DEF Pairs
<1>3. ASSUME NEW x \in A, NEW z \in A, p[x] = p[z]
      PROVE  x = z
  <2>1. f[x] = f[z]
    <3>. HIDE DEF A, p
    <3>. QED  BY <1>1, <1>3
  <2> DEFINE C == Alike(S, f, f[x])
  <2>2. x \in C /\ z \in C /\ Rank(C, x) = Rank(C, z)
    <3>1. x \in S /\ z \in S /\ Rank(C, x) = Rank(C, z)
      <4>. HIDE DEF A, p
      <4>. QED  BY <1>1, <1>3, <2>1
    <3>. QED  BY <2>1, <3>1 DEF Alike
  <2>3. C \in SUBSET Int /\ IsFiniteSet(C)
    BY AlikeRanks DEF Numbers
  <2>. HIDE DEF C
  <2>. QED  BY <2>2, <2>3, RankInjective
<1>4. ASSUME NEW y \in B
      PROVE  \E x \in A : p[x] = y
  <2> DEFINE x == Partner(T, g, S, f, y)
             C == Alike(T, g, g[y])
  <2>1. /\ x \in A /\ f[x] = g[y] /\ y \in T
        /\ Rank(Alike(S, f, g[y]), x) = Rank(C, y)
    BY PartnerOf
  <2>. HIDE DEF x
  <2>2. p[x] \in T /\ g[p[x]] = f[x] /\ Rank(C, p[x]) = Rank(Alike(S, f, f[x]), x)
    BY <1>1, <2>1
  <2>3. p[x] \in C /\ y \in C /\ Rank(C, p[x]) = Rank(C, y)
    BY <2>1, <2>2 DEF Alike
  <2>4. C \in SUBSET Int /\ IsFiniteSet(C)
    BY AlikeRanks DEF Numbers
  <2>5. PICK z : z = p[x]
    OBVIOUS
  <2>. HIDE DEF C, A, p
  <2>6. z \in C /\ Rank(C, z) = Rank(C, y)
    BY <2>3, <2>5
  <2>7. z = y
    BY <2>3, <2>4, <2>6, RankInjective
  <2>. QED  BY <2>1, <2>5, <2>7
<1>5. p \in Bijection(A, B)
  <2>. HIDE DEF A, B, p
  <2>. QED  BY <1>2, <1>3, <1>4 DEF Bijection, Injection, Surjection, IsInjective
<1>. QED  BY <1>1, <1>5

-----------------------------------------------------------------------------
(* Places in an order.                                                         *)

PlaceIn(L, R, x) == Cardinality({y \in L : y = x \/ <<y, x>> \in R})

\* Each place is taken once, and who precedes has the lower one.
LEMMA Places ==
  ASSUME NEW L, IsFiniteSet(L), NEW R, Orders(R, L)
  PROVE  /\ Cardinality(L) \in Nat
         /\ \A x \in L : PlaceIn(L, R, x) \in 1..Cardinality(L)
         /\ \A x, y \in L : <<x, y>> \in R => PlaceIn(L, R, x) < PlaceIn(L, R, y)
         /\ \A x, y \in L : PlaceIn(L, R, x) = PlaceIn(L, R, y) => x = y
         /\ \A n \in 1..Cardinality(L) : \E x \in L : PlaceIn(L, R, x) = n
<1> DEFINE Low(x) == {y \in L : y = x \/ <<y, x>> \in R}
           T == 1..Cardinality(L)
           p == [x \in L |-> Cardinality(Low(x))]
<1>1. Cardinality(L) \in Nat
  BY FS_CardinalityType
<1>2. ASSUME NEW x \in L
      PROVE  IsFiniteSet(Low(x)) /\ Cardinality(Low(x)) \in T
  <2>1. Low(x) \in SUBSET L /\ x \in Low(x)
    OBVIOUS
  <2>. HIDE DEF Low
  <2>2. IsFiniteSet(Low(x)) /\ Cardinality(Low(x)) <= Cardinality(L)
        /\ Cardinality(Low(x)) # 0
    BY <2>1, FS_Subset, FS_EmptySet
  <2>. QED  BY <1>1, <2>2, FS_CardinalityType
<1>3. ASSUME NEW x \in L, NEW y \in L, <<x, y>> \in R
      PROVE  Cardinality(Low(x)) < Cardinality(Low(y))
  <2>1. x # y /\ ~(<<y, x>> \in R)
    BY <1>3 DEF Orders
  <2>2. y \in Low(y) /\ y \notin Low(x)
    BY <2>1
  <2>3. \A z \in Low(x) : z \in Low(y)
    BY <1>3 DEF Orders
  <2>4. Low(x) \in SUBSET Low(y)
    BY <2>3
  <2>. HIDE DEF Low
  <2>5. /\ Cardinality(Low(x)) <= Cardinality(Low(y))
        /\ Cardinality(Low(x)) # Cardinality(Low(y))
    BY <1>2, <2>2, <2>4, FS_Subset
  <2>. QED  BY <1>1, <1>2, <2>5
<1>4. \A x, y \in L : Cardinality(Low(x)) = Cardinality(Low(y)) => x = y
  <2> SUFFICES ASSUME NEW x \in L, NEW y \in L, Cardinality(Low(x)) = Cardinality(Low(y)), x # y
               PROVE  FALSE
    OBVIOUS
  <2>1. Cardinality(Low(x)) \in T
    BY <1>2
  <2>2. ~(<<x, y>> \in R) /\ ~(<<y, x>> \in R)
    <3>. HIDE DEF Low
    <3>. QED  BY <1>1, <1>3, <2>1
  <2>. QED  BY <2>2 DEF Orders
<1>5. p \in [L -> T] /\ \A x, y \in L : p[x] = p[y] => x = y
  <2>. HIDE DEF Low, T
  <2>. QED  BY <1>2, <1>4
<1>6. IsFiniteSet(T) /\ Cardinality(T) = Cardinality(L)
  BY <1>1, FS_Interval
<1>7. p \in Bijection(L, T)
  <2>. HIDE DEF p, T
  <2>. QED  BY <1>1, <1>5, <1>6, OneToOne
<1>8. \A n \in T : \E x \in L : p[x] = n
  BY <1>7 DEF Bijection, Surjection
<1>9. \A x \in L : PlaceIn(L, R, x) = Cardinality(Low(x)) /\ p[x] = Cardinality(Low(x))
  BY DEF PlaceIn
<1>. HIDE DEF Low, T, p
<1>. QED  BY <1>1, <1>2, <1>3, <1>4, <1>8, <1>9 DEF T

-----------------------------------------------------------------------------
(* Exact fractions.                                                            *)

LEMMA SmallestOf ==
  ASSUME NEW T \in SUBSET Nat, T # {}
  PROVE  \E n \in T : \A m \in T : n <= m
<1>1. PICK n \in T : \A m \in T : ~(<<m, n>> \in OpToRel(<, Nat))
  BY NatLessThanWellFounded, WFMin
<1>2. \A m \in T : ~(m < n)
  BY <1>1 DEF OpToRel
<1>. QED  BY <1>2

\* Of two products with the same positive factor.
LEMMA CancelFactor ==
  ASSUME NEW x \in Int, NEW y \in Int, NEW k \in Nat \ {0}
  PROVE  /\ x * k = y * k => x = y
         /\ x * k < y * k <=> x < y
<1>1. ASSUME NEW u \in Int, NEW v \in Int, u > v
      PROVE  u * k > v * k
  <2>1. PICK d \in Nat : u = v + d /\ d >= 1
    <3>1. u - v \in Nat /\ u = v + (u - v) /\ u - v >= 1
      BY <1>1
    <3>. QED  BY <3>1
  <2>2. (v + d) * k = v * k + d * k
    OBVIOUS
  <2>3. d * k >= 1
    BY <2>1
  <2>. QED  BY <2>1, <2>2, <2>3
<1>2. x * k \in Int /\ y * k \in Int
  OBVIOUS
<1>. QED  BY <1>1, <1>2

\* Whole division with a rest.
LEMMA Division ==
  ASSUME NEW a \in Int, NEW b \in Nat \ {0}
  PROVE  /\ a \div b \in Int /\ a % b \in 0..(b - 1)
         /\ a = (a \div b) * b + (a % b)
         /\ a \in Nat => a \div b \in Nat
<1>1. a \div b \in Int /\ (a \div b) * b <= a /\ a < (a \div b) * b + b
  OBVIOUS
<1>2. a % b \in Int /\ a = (a \div b) * b + (a % b)
  OBVIOUS
<1>3. PICK q \in Int, r \in Int : q = a \div b /\ r = a % b
  BY <1>1, <1>2
<1>4. PICK m \in Int : m = q * b
  OBVIOUS
<1>5. r \in 0..(b - 1)
  BY <1>1, <1>2, <1>3, <1>4
<1>6. ASSUME a \in Nat, q < 0 PROVE FALSE
  <2>1. PICK k \in Nat : q = -1 - k
    <3>1. -1 - q \in Nat /\ q = -1 - (-1 - q)
      BY <1>6
    <3>. QED  BY <3>1
  <2>2. q * b + b = -(k * b) /\ k * b \in Nat
    BY <2>1
  <2>. QED  BY <1>1, <1>3, <1>6, <2>2
<1>. QED  BY <1>2, <1>3, <1>5, <1>6

\* There is one quotient and one rest.
LEMMA DivisionIsUnique ==
  ASSUME NEW b \in Nat \ {0}, NEW q \in Int, NEW r \in 0..(b - 1)
  PROVE  (q * b + r) \div b = q /\ (q * b + r) % b = r
<1>1. PICK a \in Int : a = q * b + r
  OBVIOUS
<1>2. PICK p \in Int, s \in 0..(b - 1) : p = a \div b /\ s = a % b /\ a = p * b + s
  BY Division
<1>3. q * b \in Int /\ p * b \in Int /\ (q + 1) * b = q * b + b /\ (p + 1) * b = p * b + b
  OBVIOUS
<1>4. q * b < (p + 1) * b /\ p * b < (q + 1) * b
  BY <1>1, <1>2, <1>3
<1>5. q < p + 1 /\ p < q + 1
  BY <1>4, CancelFactor
<1>6. p = q
  BY <1>5
<1>. QED  BY <1>1, <1>2, <1>3, <1>6

\* A multiple divided by its factor.
LEMMA ExactDivision ==
  ASSUME NEW b \in Nat \ {0}, NEW q \in Int
  PROVE  (q * b) \div b = q
<1>1. 0 \in 0..(b - 1) /\ q * b + 0 = q * b
  OBVIOUS
<1>. QED  BY <1>1, DivisionIsUnique

\* The rest grows with both numbers.
LEMMA RestScales ==
  ASSUME NEW a \in Nat, NEW b \in Nat \ {0}, NEW k \in Nat \ {0}
  PROVE  (a * k) % (b * k) = (a % b) * k
<1>1. PICK q \in Int, r \in 0..(b - 1) : q = a \div b /\ r = a % b /\ a = q * b + r
  BY Division
<1>2. a * k = q * (b * k) + r * k
  <2>1. (q * b + r) * k = q * (b * k) + r * k
    OBVIOUS
  <2>. QED  BY <1>1, <2>1
<1>3. b * k \in Nat \ {0} /\ r * k \in Nat
  OBVIOUS
<1>4. r * k < b * k
  BY CancelFactor
<1>5. r * k \in 0..(b * k - 1)
  <2>1. PICK m \in Int, n \in Int : m = r * k /\ n = b * k
    OBVIOUS
  <2>. QED  BY <1>3, <1>4, <2>1
<1>6. PICK c \in Nat \ {0}, s \in Int : c = b * k /\ s = r * k
  BY <1>3
<1>7. (q * c + s) % c = s
  BY <1>5, <1>6, DivisionIsUnique
<1>. QED  BY <1>1, <1>2, <1>6, <1>7

-----------------------------------------------------------------------------
\* gcd, of pairs whose second number is bounded.
GcdUpTo(n, g) ==
    g = [p \in Nat \X (0..n) |-> IF p[2] = 0 THEN p[1] ELSE g[<<p[2], p[1] % p[2]>>]]

LEMMA NothingIsBad ==
  ASSUME NEW T \in SUBSET Nat, \A n \in T : \E m \in T : m < n
  PROVE  T = {}
<1>. SUFFICES ASSUME T # {} PROVE FALSE
  OBVIOUS
<1>1. PICK n \in T : \A m \in T : n <= m
  BY SmallestOf
<1>2. PICK m \in T : m < n
  BY <1>1
<1>. QED  BY <1>1, <1>2

LEMMA RestIsSmaller ==
  ASSUME NEW a \in Nat, NEW b \in Nat, b # 0
  PROVE  a % b \in Nat /\ a % b < b
<1>1. a % b \in 0..(b - 1)
  BY Division
<1>2. PICK r \in 0..(b - 1) : r = a % b
  BY <1>1
<1>. QED  BY <1>2

LEMMA GcdsAgree ==
  ASSUME NEW m \in Nat, NEW n \in Nat, NEW g, NEW h, GcdUpTo(m, g), GcdUpTo(n, h),
         NEW a \in Nat, NEW b \in Nat, b <= m, b <= n
  PROVE  g[<<a, b>>] = h[<<a, b>>]
<1> DEFINE Bad == {c \in Nat : c <= m /\ c <= n /\ \E d \in Nat : g[<<d, c>>] # h[<<d, c>>]}
<1>1. ASSUME NEW c \in Bad  PROVE \E e \in Bad : e < c
  <2>1. c \in Nat /\ c \in 0..m /\ c \in 0..n
    BY <1>1
  <2>2. PICK d \in Nat : g[<<d, c>>] # h[<<d, c>>]
    BY <1>1
  <2>3. <<d, c>> \in Nat \X (0..m) /\ <<d, c>> \in Nat \X (0..n)
    BY <2>1
  <2>4. /\ g[<<d, c>>] = IF c = 0 THEN d ELSE g[<<c, d % c>>]
        /\ h[<<d, c>>] = IF c = 0 THEN d ELSE h[<<c, d % c>>]
    <3>1. g[<<d, c>>] = IF c = 0 THEN d ELSE g[<<c, d % c>>]
      BY <2>3 DEF GcdUpTo
    <3>2. h[<<d, c>>] = IF c = 0 THEN d ELSE h[<<c, d % c>>]
      BY <2>3 DEF GcdUpTo
    <3>. QED  BY <3>1, <3>2
  <2>5. c # 0 /\ g[<<c, d % c>>] # h[<<c, d % c>>]
    BY <2>2, <2>4
  <2>6. PICK e \in Nat : e = d % c /\ e < c
    BY <2>1, <2>5, RestIsSmaller
  <2>7. e \in Bad
    BY <2>1, <2>5, <2>6
  <2>. QED  BY <2>6, <2>7
<1>2. Bad = {}
  <2>1. Bad \in SUBSET Nat
    OBVIOUS
  <2>. HIDE DEF Bad
  <2>. QED  BY <1>1, <2>1, NothingIsBad
<1>. QED  BY <1>2

LEMMA GcdsExist ==
  ASSUME NEW n \in Nat
  PROVE  \E g : GcdUpTo(n, g)
<1> DEFINE Bad == {m \in Nat : ~\E g : GcdUpTo(m, g)}
<1>1. ASSUME NEW m \in Bad  PROVE \E k \in Bad : k < m
  <2>. SUFFICES ASSUME \A k \in Bad : ~(k < m)  PROVE FALSE
    OBVIOUS
  <2>1. CASE m = 0
    <3> DEFINE g == [p \in Nat \X (0..0) |-> p[1]]
    <3>1. g = [p \in Nat \X (0..0) |-> IF p[2] = 0 THEN p[1] ELSE g[<<p[2], p[1] % p[2]>>]]
      OBVIOUS
    <3>. HIDE DEF g
    <3>2. GcdUpTo(m, g)
      BY <2>1, <3>1 DEF GcdUpTo
    <3>. QED  BY <1>1, <3>2
  <2>2. CASE m # 0
    <3>1. m - 1 \in Nat /\ m \in Nat /\ m - 1 < m
      BY <2>2
    <3>2. PICK f : GcdUpTo(m - 1, f)
      BY <3>1
    <3> DEFINE g == [p \in Nat \X (0..m) |->
                        IF p[2] = 0 THEN p[1] ELSE f[<<p[2], p[1] % p[2]>>]]
    <3>3. ASSUME NEW p \in Nat \X (0..m), p[2] # 0
          PROVE  f[<<p[2], p[1] % p[2]>>] = g[<<p[2], p[1] % p[2]>>]
      <4>1. p[1] \in Nat /\ p[2] \in Nat /\ p[2] <= m
        BY <3>1
      <4>2. PICK r \in Nat : r = p[1] % p[2] /\ r < p[2]
        BY <3>3, <4>1, RestIsSmaller
      <4>3. <<p[2], r>> \in Nat \X (0..m) /\ <<p[2], r>> \in Nat \X (0..(m - 1))
        BY <3>1, <4>1, <4>2
      <4>4. f[<<p[2], r>>] = IF r = 0 THEN p[2] ELSE f[<<r, p[2] % r>>]
        BY <3>2, <4>3 DEF GcdUpTo
      <4>5. g[<<p[2], r>>] = IF r = 0 THEN p[2] ELSE f[<<r, p[2] % r>>]
        BY <4>3
      <4>. QED  BY <4>2, <4>4, <4>5
    <3>4. g = [p \in Nat \X (0..m) |-> IF p[2] = 0 THEN p[1] ELSE g[<<p[2], p[1] % p[2]>>]]
      <4> DEFINE v(p) == IF p[2] = 0 THEN p[1] ELSE f[<<p[2], p[1] % p[2]>>]
                 w(p) == IF p[2] = 0 THEN p[1] ELSE g[<<p[2], p[1] % p[2]>>]
      <4>1. \A p \in Nat \X (0..m) : v(p) = w(p)
        BY <3>3
      <4>2. g = [p \in Nat \X (0..m) |-> v(p)]
        OBVIOUS
      <4>. HIDE DEF v, w, g
      <4>3. g = [p \in Nat \X (0..m) |-> w(p)]
        BY <4>1, <4>2
      <4>. QED  BY <4>3 DEF w
    <3>. HIDE DEF g
    <3>5. GcdUpTo(m, g)
      BY <3>4 DEF GcdUpTo
    <3>. QED  BY <1>1, <3>5
  <2>. QED  BY <2>1, <2>2
<1>2. Bad = {}
  <2>1. Bad \in SUBSET Nat
    OBVIOUS
  <2>. HIDE DEF Bad
  <2>. QED  BY <1>1, <2>1, NothingIsBad
<1>. QED  BY <1>2

\* The greatest common divisor is computed as it is defined.
GcdStep(g, p) == IF p[2] = 0 THEN p[1] ELSE g[<<p[2], p[1] % p[2]>>]

LEMMA GcdRecursion ==
  ASSUME NEW a \in Nat, NEW b \in Nat
  PROVE  /\ gcd[<<a, 0>>] = a
         /\ b # 0 => gcd[<<a, b>>] = gcd[<<b, a % b>>]
<1> DEFINE of(n) == CHOOSE g : GcdUpTo(n, g)
           all == [p \in Nat \X Nat |-> of(p[2])[p]]
<1>1. \A n \in Nat : GcdUpTo(n, of(n))
  BY GcdsExist
<1>. HIDE DEF of
<1>2. ASSUME NEW p \in Nat \X Nat
      PROVE  of(p[2])[p] = GcdStep(all, p)
  <2>1. PICK c \in Nat, d \in Nat : p = <<c, d>>
    OBVIOUS
  <2>2. of(d)[<<c, d>>] = IF d = 0 THEN c ELSE of(d)[<<d, c % d>>]
    <3>1. <<c, d>> \in Nat \X (0..d)
      OBVIOUS
    <3>2. GcdUpTo(d, of(d))
      BY <1>1
    <3>. QED  BY <3>1, <3>2 DEF GcdUpTo
  <2>3. CASE d = 0
    BY <2>1, <2>2, <2>3 DEF GcdStep
  <2>4. CASE d # 0
    <3>1. PICK r \in Nat : r = c % d /\ r < d
      BY <2>4, RestIsSmaller
    <3>2. of(d)[<<d, r>>] = of(r)[<<d, r>>]
      <4>1. GcdUpTo(d, of(d)) /\ GcdUpTo(r, of(r)) /\ r <= d /\ r <= r
        BY <1>1, <3>1
      <4>. QED  BY <4>1, GcdsAgree
    <3>3. all[<<d, r>>] = of(r)[<<d, r>>]
      OBVIOUS
    <3>. HIDE DEF all
    <3>. QED  BY <2>1, <2>2, <2>4, <3>1, <3>2, <3>3 DEF GcdStep
  <2>. QED  BY <2>3, <2>4
<1>3. all = [p \in Nat \X Nat |-> GcdStep(all, p)]
  <2>1. all = [p \in Nat \X Nat |-> of(p[2])[p]]
    OBVIOUS
  <2>. HIDE DEF all
  <2>. QED  BY <1>2, <2>1
<1>. HIDE DEF all
<1>4. \E g : g = [p \in Nat \X Nat |-> GcdStep(g, p)]
  BY <1>3
<1>5. gcd = [p \in Nat \X Nat |-> GcdStep(gcd, p)]
  <2>1. gcd = CHOOSE g : g = [p \in Nat \X Nat |-> GcdStep(g, p)]
    BY DEF gcd, GcdStep
  <2>. QED  BY <1>4, <2>1
<1>6. \A p \in Nat \X Nat : gcd[p] = GcdStep(gcd, p)
  BY <1>5
<1>7. <<a, 0>> \in Nat \X Nat /\ <<a, b>> \in Nat \X Nat
  OBVIOUS
<1>. QED  BY <1>6, <1>7 DEF GcdStep

\* It divides both numbers.
DividesBoth(g, a, b) == \E x \in Nat, y \in Nat : a = x * g /\ b = y * g

LEMMA GcdDivides ==
  ASSUME NEW a \in Nat, NEW b \in Nat
  PROVE  /\ gcd[<<a, b>>] \in Nat
         /\ DividesBoth(gcd[<<a, b>>], a, b)
<1> DEFINE good(c, d) == gcd[<<c, d>>] \in Nat /\ DividesBoth(gcd[<<c, d>>], c, d)
           Bad == {d \in Nat : \E c \in Nat : ~good(c, d)}
<1>1. ASSUME NEW d \in Bad  PROVE \E r \in Bad : r < d
  <2>. PICK c \in Nat : ~good(c, d)
    OBVIOUS
  <2>0. d \in Nat
    OBVIOUS
  <2>1. ASSUME d = 0  PROVE FALSE
    <3>1. gcd[<<c, d>>] = c
      BY <2>1, GcdRecursion
    <3>2. c = 1 * c /\ d = 0 * c
      BY <2>1
    <3>. QED  BY <3>1, <3>2 DEF DividesBoth
  <2>2. gcd[<<c, d>>] = gcd[<<d, c % d>>]
    BY <2>0, <2>1, GcdRecursion
  <2>3. PICK r \in Nat : r = c % d /\ r < d
    BY <2>0, <2>1, RestIsSmaller
  <2>4. ASSUME good(d, r)  PROVE FALSE
    <3>1. PICK g \in Nat : g = gcd[<<d, r>>]
      BY <2>4
    <3>2. PICK x \in Nat, y \in Nat : d = x * g /\ r = y * g
      BY <2>4, <3>1 DEF DividesBoth
    <3>3. PICK q \in Nat : c = q * d + r
      <4>1. d \in Nat \ {0} /\ c \in Int
        BY <2>0, <2>1
      <4>2. c \div d \in Nat /\ c = (c \div d) * d + (c % d)
        BY <4>1, Division
      <4>. QED  BY <2>3, <4>2
    <3>4. q * (x * g) + y * g = (q * x + y) * g /\ q * x + y \in Nat
      OBVIOUS
    <3>5. c = (q * x + y) * g
      BY <3>2, <3>3, <3>4
    <3>6. gcd[<<c, d>>] = g
      BY <2>2, <2>3, <3>1
    <3>7. DividesBoth(g, c, d)
      BY <3>2, <3>4, <3>5 DEF DividesBoth
    <3>. QED  BY <3>6, <3>7
  <2>5. r \in Bad
    BY <2>0, <2>4
  <2>. QED  BY <2>3, <2>5
<1>2. Bad = {}
  <2>1. Bad \in SUBSET Nat
    OBVIOUS
  <2>. HIDE DEF Bad
  <2>. QED  BY <1>1, <2>1, NothingIsBad
<1>. QED  BY <1>2

\* It grows with both numbers.
LEMMA GcdScales ==
  ASSUME NEW a \in Nat, NEW b \in Nat, NEW k \in Nat \ {0}
  PROVE  gcd[<<a * k, b * k>>] = gcd[<<a, b>>] * k
<1> DEFINE good(c, d) == gcd[<<c * k, d * k>>] = gcd[<<c, d>>] * k
           Bad == {d \in Nat : \E c \in Nat : ~good(c, d)}
<1>1. ASSUME NEW d \in Bad  PROVE \E r \in Bad : r < d
  <2>. PICK c \in Nat : ~good(c, d)
    OBVIOUS
  <2>0. d \in Nat /\ c * k \in Nat /\ d * k \in Nat
    OBVIOUS
  <2>1. ASSUME d = 0  PROVE FALSE
    <3>1. gcd[<<c, d>>] = c /\ d * k = 0
      <4>1. d * k = 0
        BY <2>1
      <4>. QED  BY <2>1, <4>1, GcdRecursion
    <3>2. gcd[<<c * k, 0>>] = c * k
      BY <2>0, GcdRecursion
    <3>. QED  BY <3>1, <3>2
  <2>2. gcd[<<c, d>>] = gcd[<<d, c % d>>]
    BY <2>0, <2>1, GcdRecursion
  <2>3. PICK r \in Nat : r = c % d /\ r < d
    BY <2>0, <2>1, RestIsSmaller
  <2>4. (c * k) % (d * k) = r * k /\ d * k # 0
    <3>1. d \in Nat \ {0}
      BY <2>0, <2>1
    <3>2. (c * k) % (d * k) = (c % d) * k
      BY <3>1, RestScales
    <3>. QED  BY <2>3, <3>1, <3>2
  <2>5. gcd[<<c * k, d * k>>] = gcd[<<d * k, r * k>>]
    <3>1. PICK m \in Nat, n \in Nat : m = c * k /\ n = d * k
      BY <2>0
    <3>2. gcd[<<m, n>>] = gcd[<<n, m % n>>]
      BY <2>4, <3>1, GcdRecursion
    <3>. QED  BY <2>4, <3>1, <3>2
  <2>6. ~good(d, r)
    BY <2>2, <2>3, <2>5
  <2>7. r \in Bad
    BY <2>0, <2>6
  <2>. QED  BY <2>3, <2>7
<1>2. Bad = {}
  <2>1. Bad \in SUBSET Nat
    OBVIOUS
  <2>. HIDE DEF Bad
  <2>. QED  BY <1>1, <2>1, NothingIsBad
<1>. QED  BY <1>2

-----------------------------------------------------------------------------
(* Amounts.                                                                    *)

\* A fraction whose denominator is positive is divided by the greatest common divisor.
SizeOf(n) == IF n < 0 THEN -n ELSE n

LEMMA LowestByGcd ==
  ASSUME NEW n \in Int, NEW d \in Nat \ {0}
  PROVE  \E g \in Nat \ {0}, x \in Int, y \in Nat \ {0} :
            /\ g = gcd[<<SizeOf(n), d>>]
            /\ n = x * g /\ d = y * g
            /\ lowest[<<n, d>>] = <<x, y>>
<1>1. PICK m \in Nat : m = SizeOf(n)
  BY DEF SizeOf
<1>2. PICK g \in Nat : g = gcd[<<m, d>>]
  BY GcdDivides
<1>3. PICK a \in Nat, y \in Nat : m = a * g /\ d = y * g
  BY <1>2, GcdDivides DEF DividesBoth
<1>4. g # 0 /\ y # 0
  BY <1>3
<1>5. \E x \in Int : n = x * g
  <2>1. n = m \/ n = -m
    BY <1>1 DEF SizeOf
  <2>2. (-a) * g = -(a * g) /\ -a \in Int /\ a \in Int
    OBVIOUS
  <2>3. n = a * g \/ n = (-a) * g
    BY <1>3, <2>1, <2>2
  <2>. QED  BY <2>2, <2>3
<1>8. PICK x \in Int : n = x * g
  BY <1>5
<1>6. n \div g = x /\ d \div g = y
  BY <1>3, <1>4, <1>8, ExactDivision
<1>7. lowest[<<n, d>>] = <<n \div g, d \div g>>
  <2>1. <<n, d>> \in Int \X Int /\ ~(d < 0) /\ 1 * n = n /\ 1 * d = d
    OBVIOUS
  <2>. QED  BY <1>1, <1>2, <2>1 DEF lowest, SizeOf
<1>. QED  BY <1>1, <1>2, <1>3, <1>4, <1>6, <1>7, <1>8

\* One with a negative denominator is turned round first.
LEMMA LowestTurned ==
  ASSUME NEW n \in Int, NEW d \in Nat \ {0}
  PROVE  lowest[<<n, -d>>] = lowest[<<-n, d>>]
<1>1. <<n, -d>> \in Int \X Int /\ <<-n, d>> \in Int \X Int
  OBVIOUS
<1>2. /\ -d < 0 /\ ~(d < 0) /\ (-1) * (-d) = d /\ (-1) * n = -n
      /\ 1 * (-n) = -n /\ 1 * d = d
  OBVIOUS
<1>3. gcd[<<IF n < 0 THEN -n ELSE n, d>>] = gcd[<<IF -n < 0 THEN -(-n) ELSE -n, d>>]
  <2>1. (IF n < 0 THEN -n ELSE n) = (IF -n < 0 THEN -(-n) ELSE -n)
    OBVIOUS
  <2>. QED  BY <2>1
<1>. QED  BY <1>1, <1>2, <1>3 DEF lowest

\* Equal fractions have the same lowest terms.
LEMMA LowestOfEqual ==
  ASSUME NEW n \in Int, NEW d \in Nat \ {0}, NEW m \in Int, NEW e \in Nat \ {0},
         n * e = m * d
  PROVE  lowest[<<n, d>>] = lowest[<<m, e>>]
<1>1. PICK g \in Nat \ {0}, x \in Int, y \in Nat \ {0} :
         /\ g = gcd[<<SizeOf(n), d>>]
         /\ n = x * g /\ d = y * g
         /\ lowest[<<n, d>>] = <<x, y>>
  BY LowestByGcd
<1>2. PICK h \in Nat \ {0}, u \in Int, v \in Nat \ {0} :
         /\ h = gcd[<<SizeOf(m), e>>]
         /\ m = u * h /\ e = v * h
         /\ lowest[<<m, e>>] = <<u, v>>
  BY LowestByGcd
<1>3. g * e = h * d
  <2>1. PICK a \in Nat, b \in Nat : a = SizeOf(n) /\ b = SizeOf(m)
    BY DEF SizeOf
  <2>2. a * e = b * d
    <3>1. /\ n < 0 <=> n * e < 0
          /\ m < 0 <=> m * d < 0
      <4>1. 0 * e = 0 /\ 0 * d = 0
        OBVIOUS
      <4>. QED  BY <4>1, CancelFactor
    <3>2. (-n) * e = -(n * e) /\ (-m) * d = -(m * d)
      OBVIOUS
    <3>3. n < 0 <=> m < 0
      BY <3>1
    <3>. QED  BY <2>1, <3>2, <3>3 DEF SizeOf
  <2>3. gcd[<<a, d>>] = g /\ gcd[<<b, e>>] = h
    BY <1>1, <1>2, <2>1
  <2>7. d \in Nat /\ e \in Nat
    OBVIOUS
  <2>8. gcd[<<a * e, d * e>>] = gcd[<<a, d>>] * e
    BY <2>7, GcdScales
  <2>9. gcd[<<b * d, e * d>>] = gcd[<<b, e>>] * d
    BY <2>7, GcdScales
  <2>5. gcd[<<a * e, d * e>>] = g * e
    BY <2>3, <2>8
  <2>6. gcd[<<b * d, e * d>>] = h * d
    BY <2>3, <2>9
  <2>4. d * e = e * d
    OBVIOUS
  <2>. QED  BY <2>2, <2>4, <2>5, <2>6
<1>4. /\ d * e = y * (g * e) /\ d * e = v * (h * d)
      /\ n * e = x * (g * e) /\ m * d = u * (h * d)
  <2>1. /\ (y * g) * e = y * (g * e) /\ d * (v * h) = v * (h * d)
        /\ (x * g) * e = x * (g * e) /\ (u * h) * d = u * (h * d)
    OBVIOUS
  <2>. QED  BY <1>1, <1>2, <2>1
<1>5. PICK k \in Nat \ {0} : k = h * d
  OBVIOUS
<1>6. y * k = v * k /\ x * k = u * k
  BY <1>3, <1>4, <1>5
<1>7. y = v /\ x = u
  BY <1>6, CancelFactor
<1>. QED  BY <1>1, <1>2, <1>7

\* The amounts: fractions in lowest terms.
\* f is the amount n / d.
Is(f, n, d) == f \in Exact /\ n \in Int /\ d \in Nat \ {0} /\ f[1] * d = n * f[2]

LEMMA LowestIs ==
  ASSUME NEW n \in Int, NEW d \in Nat \ {0}
  PROVE  Is(lowest[<<n, d>>], n, d)
<1>1. PICK g \in Nat \ {0}, x \in Int, y \in Nat \ {0} :
         /\ g = gcd[<<SizeOf(n), d>>]
         /\ n = x * g /\ d = y * g
         /\ lowest[<<n, d>>] = <<x, y>>
  BY LowestByGcd
<1>2. x * d = n * y
  <2>1. x * (y * g) = (x * g) * y
    OBVIOUS
  <2>. QED  BY <1>1, <2>1
<1>3. lowest[<<x, y>>] = lowest[<<n, d>>]
  BY <1>2, LowestOfEqual
<1>4. <<x, y>> \in Fraction
  BY DEF Fraction
<1>. QED  BY <1>1, <1>2, <1>3, <1>4 DEF Is, Exact

LEMMA IsSame ==
  ASSUME NEW f, NEW g, NEW n, NEW d, Is(f, n, d), Is(g, n, d)
  PROVE  f = g
<1>1. /\ f \in Int \X (Nat \ {0}) /\ g \in Int \X (Nat \ {0}) /\ lowest[f] = f /\ lowest[g] = g
      /\ n \in Int /\ d \in Nat \ {0} /\ f[1] * d = n * f[2] /\ g[1] * d = n * g[2]
  BY DEF Is, Exact, Fraction
<1>2. PICK a \in Int, b \in Nat \ {0}, c \in Int, e \in Nat \ {0} : f = <<a, b>> /\ g = <<c, e>>
  BY <1>1
<1>3. a * d = n * b /\ c * d = n * e
  BY <1>1, <1>2
<1>4. (a * e) * d = (c * b) * d
  <2>1. (a * e) * d = (a * d) * e /\ (c * b) * d = (c * d) * b /\ (n * b) * e = (n * e) * b
    BY <1>1
  <2>. QED  BY <1>3, <2>1
<1>5. a * e = c * b
  <2>1. PICK p \in Int, q \in Int : p = a * e /\ q = c * b
    OBVIOUS
  <2>2. d \in Nat \ {0} /\ p * d = q * d
    BY <1>1, <1>4, <2>1
  <2>3. p = q
    BY <2>2, CancelFactor
  <2>. QED  BY <2>1, <2>3
<1>6. lowest[<<a, b>>] = lowest[<<c, e>>]
  BY <1>5, LowestOfEqual
<1>. QED  BY <1>1, <1>2, <1>6

LEMMA IsItself ==
  ASSUME NEW f \in Exact
  PROVE  Is(f, f[1], f[2]) /\ f[1] \in Int /\ f[2] \in Nat \ {0} /\ f = <<f[1], f[2]>>
BY DEF Is, Exact, Fraction

LEMMA IsExpanded ==
  ASSUME NEW f, NEW n, NEW d, Is(f, n, d), NEW k \in Nat \ {0}
  PROVE  Is(f, n * k, d * k)
<1>1. PICK a \in Int, b \in Nat \ {0} : a = f[1] /\ b = f[2]
  BY IsItself DEF Is
<1>2. n \in Int /\ d \in Nat \ {0} /\ a * d = n * b
  BY <1>1 DEF Is
<1>3. n * k \in Int /\ d * k \in Nat \ {0} /\ a * (d * k) = (n * k) * b
  <2>1. a * (d * k) = (a * d) * k /\ (n * k) * b = (n * b) * k
    BY <1>2
  <2>. QED  BY <1>2, <2>1
<1>. QED  BY <1>1, <1>3 DEF Is

LEMMA IsReduced ==
  ASSUME NEW f, NEW n \in Int, NEW d \in Nat \ {0}, NEW k \in Nat \ {0}, Is(f, n * k, d * k)
  PROVE  Is(f, n, d)
<1>1. Is(lowest[<<n, d>>], n, d)
  BY LowestIs
<1>2. Is(lowest[<<n, d>>], n * k, d * k)
  BY <1>1, IsExpanded
<1>. QED  BY <1>1, <1>2, IsSame

\* Sums and products, of what they are computed from.
LEMMA SumIs ==
  ASSUME NEW f, NEW g, NEW n, NEW m, NEW d, NEW e, Is(f, n, d), Is(g, m, e)
  PROVE  Is(f ++ g, n * e + m * d, d * e)
<1>1. PICK a \in Int, b \in Nat \ {0} : a = f[1] /\ b = f[2] /\ f = <<a, b>> /\ a * d = n * b
  BY IsItself DEF Is
<1>2. PICK p \in Int, q \in Nat \ {0} : p = g[1] /\ q = g[2] /\ g = <<p, q>> /\ p * e = m * q
  BY IsItself DEF Is
<1>3. n \in Int /\ m \in Int /\ d \in Nat \ {0} /\ e \in Nat \ {0}
  BY DEF Is
<1>4. <<f, g>> \in Fraction \X Fraction
  BY <1>1, <1>2 DEF Fraction
<1>5. f ++ g = lowest[<<a * q + p * b, b * q>>]
  BY <1>1, <1>2, <1>4 DEF ++, plus
<1>6. Is(f ++ g, a * q + p * b, b * q)
  <2>1. a * q + p * b \in Int /\ b * q \in Nat \ {0}
    BY <1>1, <1>2
  <2>. QED  BY <1>5, <2>1, LowestIs
<1>7. Is(f ++ g, (a * q + p * b) * (d * e), (b * q) * (d * e))
  <2>1. d * e \in Nat \ {0}
    BY <1>3
  <2>. QED  BY <1>6, <2>1, IsExpanded
<1>8. /\ (a * q + p * b) * (d * e) = (n * e + m * d) * (b * q)
      /\ (b * q) * (d * e) = (d * e) * (b * q)
  <2>1. /\ (a * q + p * b) * (d * e) = (a * d) * (q * e) + (p * e) * (b * d)
        /\ (n * e + m * d) * (b * q) = (n * b) * (q * e) + (m * q) * (b * d)
    BY <1>3
  <2>2. (b * q) * (d * e) = (d * e) * (b * q)
    BY <1>3
  <2>. QED  BY <1>1, <1>2, <2>1, <2>2
<1>9. Is(f ++ g, (n * e + m * d) * (b * q), (d * e) * (b * q))
  BY <1>7, <1>8
<1>10. n * e + m * d \in Int /\ d * e \in Nat \ {0} /\ b * q \in Nat \ {0}
  BY <1>3
<1>. QED  BY <1>9, <1>10, IsReduced

LEMMA ProductIs ==
  ASSUME NEW f, NEW g, NEW n, NEW m, NEW d, NEW e, Is(f, n, d), Is(g, m, e)
  PROVE  Is(f ** g, n * m, d * e)
<1>1. PICK a \in Int, b \in Nat \ {0} : a = f[1] /\ b = f[2] /\ f = <<a, b>> /\ a * d = n * b
  BY IsItself DEF Is
<1>2. PICK p \in Int, q \in Nat \ {0} : p = g[1] /\ q = g[2] /\ g = <<p, q>> /\ p * e = m * q
  BY IsItself DEF Is
<1>3. n \in Int /\ m \in Int /\ d \in Nat \ {0} /\ e \in Nat \ {0}
  BY DEF Is
<1>4. <<f, g>> \in Fraction \X Fraction
  BY <1>1, <1>2 DEF Fraction
<1>5. f ** g = lowest[<<a * p, b * q>>]
  BY <1>1, <1>2, <1>4 DEF **, times
<1>6. Is(f ** g, a * p, b * q)
  <2>1. a * p \in Int /\ b * q \in Nat \ {0}
    BY <1>1, <1>2
  <2>. QED  BY <1>5, <2>1, LowestIs
<1>7. Is(f ** g, (a * p) * (d * e), (b * q) * (d * e))
  <2>1. d * e \in Nat \ {0}
    BY <1>3
  <2>. QED  BY <1>6, <2>1, IsExpanded
<1>8. /\ (a * p) * (d * e) = (n * m) * (b * q)
      /\ (b * q) * (d * e) = (d * e) * (b * q)
  <2>1. /\ (a * p) * (d * e) = (a * d) * (p * e)
        /\ (n * m) * (b * q) = (n * b) * (m * q)
    BY <1>3
  <2>2. (b * q) * (d * e) = (d * e) * (b * q)
    BY <1>3
  <2>. QED  BY <1>1, <1>2, <2>1, <2>2
<1>9. Is(f ** g, (n * m) * (b * q), (d * e) * (b * q))
  BY <1>7, <1>8
<1>10. n * m \in Int /\ d * e \in Nat \ {0} /\ b * q \in Nat \ {0}
  BY <1>3
<1>. QED  BY <1>9, <1>10, IsReduced

-----------------------------------------------------------------------------
(* Sums of exact amounts.                                                      *)

AmountStep(f, h, S) == IF S = {} THEN Zero ELSE f[OneOf(S)] ++ h[S \ {OneOf(S)}]

\* h holds the sum of the amounts f over each subset of S.
AmountSums(f, S, h) == h = [T \in SUBSET S |-> AmountStep(f, h, T)]

\* There is only one such h.
LEMMA SameAmounts ==
  ASSUME NEW f, NEW L, NEW M, NEW h, NEW g, AmountSums(f, L, h), AmountSums(f, M, g), IsFiniteSet(L),
         NEW S \in SUBSET (L \cap M)
  PROVE  h[S] = g[S]
<1> DEFINE Bad == {T \in SUBSET (L \cap M) : h[T] # g[T]}
<1>1. Bad = {}
  <2> SUFFICES ASSUME Bad # {}  PROVE FALSE
    OBVIOUS
  <2>1. Bad \in SUBSET (SUBSET L)
    OBVIOUS
  <2>2. PICK T \in Bad : \A U \in SUBSET T : U # T => U \notin Bad
    <3>. HIDE DEF Bad
    <3>. QED  BY <2>1, SmallestBad
  <2>3. T \in SUBSET L /\ T \in SUBSET M /\ h[T] # g[T]
    BY <2>2
  <2>4. h[T] = AmountStep(f, h, T) /\ g[T] = AmountStep(f, g, T)
    BY <2>3 DEF AmountSums
  <2>5. T # {}
    BY <2>3, <2>4 DEF AmountStep
  <2>6. OneOf(T) \in T
    BY <2>5 DEF OneOf
  <2>7. h[T \ {OneOf(T)}] = g[T \ {OneOf(T)}]
    BY <2>2, <2>3, <2>6
  <2>. QED  BY <2>3, <2>4, <2>7 DEF AmountStep
<1>. QED  BY <1>1

\* For every finite set there is such an h, adding member by member.
LEMMA AmountsExist ==
  ASSUME NEW f, NEW L, IsFiniteSet(L)
  PROVE  \E h : AmountSums(f, L, h)
<1> DEFINE Bad == {S \in SUBSET L : ~\E h : AmountSums(f, S, h)}
<1>1. Bad = {}
  <2> SUFFICES ASSUME Bad # {}  PROVE FALSE
    OBVIOUS
  <2>1. Bad \in SUBSET (SUBSET L)
    OBVIOUS
  <2>2. PICK S \in Bad : \A T \in SUBSET S : T # S => T \notin Bad
    <3>. HIDE DEF Bad
    <3>. QED  BY <2>1, SmallestBad
  <2>3. S \in SUBSET L
    BY <2>2
  <2> DEFINE H(U) == CHOOSE h : AmountSums(f, U, h)
             g == [T \in SUBSET S |-> IF T = {} THEN Zero
                                      ELSE f[OneOf(T)] ++ H(T \ {OneOf(T)})[T \ {OneOf(T)}]]
  <2>4. ASSUME NEW U \in SUBSET S, U # S
        PROVE  AmountSums(f, U, H(U)) /\ IsFiniteSet(U)
    <3>1. U \in SUBSET L /\ U \notin Bad
      BY <2>2, <2>3, <2>4
    <3>. QED  BY <3>1, FS_Subset
  <2>5. ASSUME NEW U \in SUBSET S, U # S
        PROVE  g[U] = H(U)[U]
    <3>1. AmountSums(f, U, H(U)) /\ IsFiniteSet(U)
      BY <2>4, <2>5
    <3>2. H(U)[U] = AmountStep(f, H(U), U)
      <4>. HIDE DEF H
      <4>. QED  BY <3>1 DEF AmountSums
    <3>3. CASE U # {}
      <4> DEFINE R == U \ {OneOf(U)}
      <4>1. R \in SUBSET S /\ R # S /\ R \in SUBSET (U \cap R)
        BY <2>5, <3>3 DEF OneOf
      <4>2. AmountSums(f, R, H(R))
        BY <2>4, <4>1
      <4>3. H(U)[R] = H(R)[R]
        <5>. HIDE DEF H, R
        <5>. QED  BY <3>1, <4>1, <4>2, SameAmounts
      <4>4. g[U] = f[OneOf(U)] ++ H(R)[R]
        <5>. HIDE DEF H
        <5>. QED  BY <3>3
      <4>. HIDE DEF H, g
      <4>. QED  BY <3>2, <3>3, <4>3, <4>4 DEF AmountStep
    <3>4. CASE U = {}
      <4>. HIDE DEF H
      <4>. QED  BY <3>2, <3>4 DEF AmountStep
    <3>. QED  BY <3>3, <3>4
  <2>6. \A T \in SUBSET S : T # {} => T \ {OneOf(T)} \in SUBSET S /\ T \ {OneOf(T)} # S
    BY DEF OneOf
  <2>7. \A T \in SUBSET S : g[T] = AmountStep(f, g, T)
    <3> SUFFICES ASSUME NEW T \in SUBSET S  PROVE g[T] = AmountStep(f, g, T)
      OBVIOUS
    <3>1. CASE T = {}
      <4>. HIDE DEF H
      <4>. QED  BY <3>1 DEF AmountStep
    <3>2. CASE T # {}
      <4>1. g[T \ {OneOf(T)}] = H(T \ {OneOf(T)})[T \ {OneOf(T)}]
        BY <2>5, <2>6, <3>2
      <4>2. g[T] = f[OneOf(T)] ++ H(T \ {OneOf(T)})[T \ {OneOf(T)}]
        <5>. HIDE DEF H
        <5>. QED  BY <3>2
      <4>. HIDE DEF H, g
      <4>. QED  BY <3>2, <4>1, <4>2 DEF AmountStep
    <3>. QED  BY <3>1, <3>2
  <2>8. DOMAIN g = SUBSET S /\ g = [T \in DOMAIN g |-> g[T]]
    <3>. HIDE DEF H
    <3>. QED  OBVIOUS
  <2>9. AmountSums(f, S, g)
    <3>. HIDE DEF g
    <3>. QED  BY <2>7, <2>8 DEF AmountSums
  <2>. HIDE DEF g, H
  <2>. QED  BY <2>2, <2>9
<1>. QED  BY <1>1

\* The library's fold over a set is what h gives.
LEMMA SumOverIsFold ==
  ASSUME NEW f, NEW S, IsFiniteSet(S)
  PROVE  \E h : AmountSums(f, S, h) /\ SumOver(f, S) = h[S]
<1> DEFINE F == CHOOSE h : h = [s \in SUBSET S |->
                  IF s = {} THEN Zero
                  ELSE f[CHOOSE x \in s : TRUE] ++ h[s \ {CHOOSE x \in s : TRUE}]]
<1>1. SumOver(f, S) = F[S]
  BY DEF SumOver, MapThenFoldSet
<1>2. PICK h : AmountSums(f, S, h)
  BY AmountsExist
<1>3. AmountSums(f, S, F)
  <2>1. h = [s \in SUBSET S |->
               IF s = {} THEN Zero
               ELSE f[CHOOSE x \in s : TRUE] ++ h[s \ {CHOOSE x \in s : TRUE}]]
    BY <1>2 DEF AmountSums, AmountStep, OneOf
  <2>2. F = [s \in SUBSET S |->
               IF s = {} THEN Zero
               ELSE f[CHOOSE x \in s : TRUE] ++ F[s \ {CHOOSE x \in s : TRUE}]]
    BY <2>1
  <2>. HIDE DEF F
  <2>. QED  BY <2>2 DEF AmountSums, AmountStep, OneOf
<1>. HIDE DEF F
<1>. QED  BY <1>1, <1>3

\* A sum is the summand that is chosen first and the sum of the others.
LEMMA SumOverAny ==
  ASSUME NEW f, NEW S, IsFiniteSet(S), S # {}
  PROVE  SumOver(f, S) = f[OneOf(S)] ++ SumOver(f, S \ {OneOf(S)})
<1> DEFINE R == S \ {OneOf(S)}
<1>1. IsFiniteSet(R) /\ R \in SUBSET S /\ R \in SUBSET (S \cap R)
  BY FS_Subset
<1>2. PICK h : AmountSums(f, S, h) /\ SumOver(f, S) = h[S]
  BY SumOverIsFold
<1>3. PICK g : AmountSums(f, R, g) /\ SumOver(f, R) = g[R]
  BY <1>1, SumOverIsFold
<1>4. h[R] = g[R]
  <2>. HIDE DEF R
  <2>. QED  BY <1>1, <1>2, <1>3, SameAmounts
<1>5. h[S] = AmountStep(f, h, S)
  BY <1>2 DEF AmountSums
<1>6. h[S] = f[OneOf(S)] ++ h[R]
  BY <1>5 DEF AmountStep
<1>. HIDE DEF R
<1>. QED  BY <1>2, <1>3, <1>4, <1>6 DEF R

\* No amounts add up to zero.
LEMMA SumOverNone ==
  ASSUME NEW f
  PROVE  SumOver(f, {}) = Zero
<1>1. PICK h : AmountSums(f, {}, h) /\ SumOver(f, {}) = h[{}]
  BY SumOverIsFold, FS_EmptySet
<1>2. h[{}] = AmountStep(f, h, {})
  BY <1>1 DEF AmountSums
<1>. QED  BY <1>1, <1>2 DEF AmountStep


\* The laws of adding.
LEMMA PlusLaws ==
  ASSUME NEW a \in Exact, NEW b \in Exact, NEW c \in Exact
  PROVE  /\ a ++ b \in Exact /\ a ++ b = b ++ a
         /\ (a ++ b) ++ c = a ++ (b ++ c)
<1>1. PICK k \in Int, m \in Nat \ {0} : Is(a, k, m)
  BY IsItself
<1>2. PICK l \in Int, n \in Nat \ {0} : Is(b, l, n)
  BY IsItself
<1>3. PICK i \in Int, o \in Nat \ {0} : Is(c, i, o)
  BY IsItself
<1>4. Is(a ++ b, k * n + l * m, m * n) /\ Is(b ++ a, l * m + k * n, n * m)
  BY <1>1, <1>2, SumIs
<1>5. Is(b ++ c, l * o + i * n, n * o)
  BY <1>2, <1>3, SumIs
<1>6. Is((a ++ b) ++ c, (k * n + l * m) * o + i * (m * n), (m * n) * o)
  BY <1>3, <1>4, SumIs
<1>7. Is(a ++ (b ++ c), k * (n * o) + (l * o + i * n) * m, m * (n * o))
  BY <1>1, <1>5, SumIs
<1>8. l * m + k * n = k * n + l * m /\ n * m = m * n
  OBVIOUS
<1>9. (k * n + l * m) * o + i * (m * n) = k * (n * o) + (l * o + i * n) * m
      /\ (m * n) * o = m * (n * o)
  OBVIOUS
<1>10. a ++ b = b ++ a
  BY <1>4, <1>8, IsSame
<1>11. (a ++ b) ++ c = a ++ (b ++ c)
  BY <1>6, <1>7, <1>9, IsSame
<1>. QED  BY <1>4, <1>10, <1>11 DEF Is

\* The laws of multiplying.
LEMMA TimesLaws ==
  ASSUME NEW a \in Exact, NEW b \in Exact, NEW c \in Exact
  PROVE  /\ a ** b \in Exact /\ a ** b = b ** a
         /\ (a ** b) ** c = a ** (b ** c)
<1>1. PICK k \in Int, m \in Nat \ {0} : Is(a, k, m)
  BY IsItself
<1>2. PICK l \in Int, n \in Nat \ {0} : Is(b, l, n)
  BY IsItself
<1>3. PICK i \in Int, o \in Nat \ {0} : Is(c, i, o)
  BY IsItself
<1>4. Is(a ** b, k * l, m * n) /\ Is(b ** a, l * k, n * m)
  BY <1>1, <1>2, ProductIs
<1>5. Is(b ** c, l * i, n * o)
  BY <1>2, <1>3, ProductIs
<1>6. Is((a ** b) ** c, (k * l) * i, (m * n) * o)
  BY <1>3, <1>4, ProductIs
<1>7. Is(a ** (b ** c), k * (l * i), m * (n * o))
  BY <1>1, <1>5, ProductIs
<1>8. l * k = k * l /\ n * m = m * n
  OBVIOUS
<1>9. (k * l) * i = k * (l * i) /\ (m * n) * o = m * (n * o)
  OBVIOUS
<1>10. a ** b = b ** a
  BY <1>4, <1>8, IsSame
<1>11. (a ** b) ** c = a ** (b ** c)
  BY <1>6, <1>7, <1>9, IsSame
<1>. QED  BY <1>4, <1>10, <1>11 DEF Is

\* What is divided by a positive amount and multiplied by it again is unchanged.
LEMMA QuotientIs ==
  ASSUME NEW f, NEW g, NEW n, NEW m, NEW d, NEW e, Is(f, n, d), Is(g, m, e), m > 0
  PROVE  Is(f // g, n * e, d * m)
<1>1. /\ n \in Int /\ d \in Nat \ {0} /\ m \in Nat \ {0} /\ e \in Nat \ {0}
      /\ f \in Exact /\ g \in Exact /\ f[1] * d = n * f[2] /\ g[1] * e = m * g[2]
  BY DEF Is
<1>2. f[1] \in Int /\ f[2] \in Nat \ {0} /\ g[1] \in Int /\ g[2] \in Nat \ {0}
  BY <1>1, IsItself
<1>3. PICK x \in Int, y \in Nat \ {0}, u \in Int, v \in Nat \ {0} :
         x = f[1] /\ y = f[2] /\ u = g[1] /\ v = g[2]
  BY <1>2
<1>4. x * d = n * y /\ u * e = m * v
  BY <1>1, <1>3
<1>5. u > 0
  <2>1. m * v > 0
    BY <1>1
  <2>2. ASSUME u <= 0  PROVE FALSE
    <3>1. PICK w \in Nat : u = -w
      BY <2>2
    <3>2. w * e >= 0 /\ u * e = -(w * e)
      BY <1>1, <3>1
    <3>. QED  BY <1>1, <1>4, <2>1, <3>2
  <2>. QED  BY <2>2
<1>6. y * u \in Nat \ {0} /\ x * v \in Int /\ d * m \in Nat \ {0} /\ n * e \in Int
  BY <1>1, <1>5
<1>7. (x * v) * (d * m) = (n * e) * (y * u)
  <2>1. (x * v) * (d * m) = (x * d) * (m * v)
    BY <1>1
  <2>2. (n * e) * (y * u) = (n * y) * (u * e)
    BY <1>1
  <2>. QED  BY <1>4, <2>1, <2>2
<1>8. lowest[<<x * v, y * u>>] = lowest[<<n * e, d * m>>]
  BY <1>6, <1>7, LowestOfEqual
<1>9. f // g = lowest[<<n * e, d * m>>]
  <2>1. g[1] * f[2] = y * u
    BY <1>3
  <2>2. f // g = lowest[<<x * v, u * y>>] \/ f // g = lowest[<<x * v, y * u>>]
    BY <1>3 DEF //
  <2>3. u * y = y * u
    OBVIOUS
  <2>. QED  BY <1>8, <2>2, <2>3
<1>. QED  BY <1>6, <1>9, LowestIs

LEMMA DividedAndBack ==
  ASSUME NEW f \in Exact, NEW g \in Exact, g[1] > 0
  PROVE  g ** (f // g) = f /\ f // g \in Exact
<1>1. PICK n \in Int, d \in Nat \ {0} : Is(f, n, d)
  BY IsItself
<1>2. PICK m \in Int, e \in Nat \ {0} : Is(g, m, e) /\ m > 0
  BY IsItself
<1>3. Is(f // g, n * e, d * m)
  BY <1>1, <1>2, QuotientIs
<1>4. Is(g ** (f // g), m * (n * e), e * (d * m))
  BY <1>2, <1>3, ProductIs
<1>5. PICK k \in Nat \ {0} : k = m * e
  BY <1>2
<1>6. m * (n * e) = n * k /\ e * (d * m) = d * k
  BY <1>5
<1>7. Is(g ** (f // g), n, d)
  BY <1>4, <1>6, IsReduced
<1>. QED  BY <1>1, <1>3, <1>7, IsSame DEF Is

\* Amounts have an amount as their sum.
Amounts(f, S) == IsFiniteSet(S) /\ \A x \in S : f[x] \in Exact

LEMMA WholeIsExact ==
  ASSUME NEW n \in Int
  PROVE  Amount(n) \in Exact /\ Is(Amount(n), n, 1)
<1>0. PICK d \in Nat \ {0} : d = 1
  OBVIOUS
<1>1. PICK g \in Nat \ {0}, x \in Int, y \in Nat \ {0} :
         n = x * g /\ 1 = y * g /\ lowest[<<n, 1>>] = <<x, y>>
  <2>1. PICK g \in Nat \ {0}, x \in Int, y \in Nat \ {0} :
           /\ g = gcd[<<SizeOf(n), d>>]
           /\ n = x * g /\ d = y * g
           /\ lowest[<<n, d>>] = <<x, y>>
    BY LowestByGcd
  <2>. QED  BY <1>0, <2>1
<1>2. g = 1
  BY <1>1
<1>3. y = 1 /\ x = n
  BY <1>1, <1>2
<1>4. lowest[<<n, 1>>] = <<n, 1>>
  BY <1>1, <1>3
<1>5. Amount(n) \in Exact
  BY <1>4 DEF Amount, Exact, Fraction
<1>. QED  BY <1>5 DEF Amount, Is

LEMMA SumOverExact ==
  ASSUME NEW f, NEW S, Amounts(f, S)
  PROVE  SumOver(f, S) \in Exact
<1> DEFINE Bad == {T \in SUBSET S : SumOver(f, T) \notin Exact}
<1>1. Bad = {}
  <2> SUFFICES ASSUME Bad # {}  PROVE FALSE
    OBVIOUS
  <2>1. Bad \in SUBSET (SUBSET S) /\ IsFiniteSet(S)
    BY DEF Amounts
  <2>2. PICK T \in Bad : \A U \in SUBSET T : U # T => U \notin Bad
    <3>. HIDE DEF Bad
    <3>. QED  BY <2>1, SmallestBad
  <2>3. T \in SUBSET S /\ SumOver(f, T) \notin Exact
    BY <2>2
  <2>4. T # {}
    BY <2>3, SumOverNone, WholeIsExact DEF Zero
  <2>5. OneOf(T) \in T
    BY <2>4 DEF OneOf
  <2>6. SumOver(f, T \ {OneOf(T)}) \in Exact
    BY <2>2, <2>3, <2>5
  <2>7. f[OneOf(T)] \in Exact /\ IsFiniteSet(T)
    BY <2>1, <2>3, <2>5, FS_Subset DEF Amounts
  <2>8. SumOver(f, T) = f[OneOf(T)] ++ SumOver(f, T \ {OneOf(T)})
    BY <2>4, <2>7, SumOverAny
  <2>9. f[OneOf(T)] ++ SumOver(f, T \ {OneOf(T)}) \in Exact
    BY <2>6, <2>7, PlusLaws
  <2>. QED  BY <2>3, <2>8, <2>9
<1>. QED  BY <1>1

\* The opposite of an amount.
LEMMA NegatedExact ==
  ASSUME NEW n \in Int, NEW d \in Nat \ {0}, <<n, d>> \in Exact
  PROVE  <<-n, d>> \in Exact
<1>0. lowest[<<n, d>>] = <<n, d>>
  BY DEF Exact
<1>1. PICK g \in Nat \ {0}, x \in Int, y \in Nat \ {0} :
         /\ g = gcd[<<SizeOf(n), d>>]
         /\ n = x * g /\ d = y * g
         /\ lowest[<<n, d>>] = <<x, y>>
  BY LowestByGcd
<1>2. PICK m \in Int : m = -n
  OBVIOUS
<1>3. PICK h \in Nat \ {0}, u \in Int, v \in Nat \ {0} :
         /\ h = gcd[<<SizeOf(m), d>>]
         /\ m = u * h /\ d = v * h
         /\ lowest[<<m, d>>] = <<u, v>>
  BY LowestByGcd
<1>4. SizeOf(m) = SizeOf(n)
  BY <1>2 DEF SizeOf
<1>5. y = d /\ x = n /\ h = g
  BY <1>0, <1>1, <1>3, <1>4
<1>6. v * h = d * h /\ u * h = m
  BY <1>1, <1>3, <1>5
<1>7. v = d
  BY <1>6, CancelFactor
<1>8. n * h = n /\ (-n) * h = -(n * h)
  BY <1>1, <1>3, <1>5
<1>9. u = -n
  <2>1. -n \in Int /\ (-n) * h = u * h
    BY <1>2, <1>6, <1>8
  <2>. QED  BY <2>1, CancelFactor
<1>10. lowest[<<-n, d>>] = <<-n, d>>
  BY <1>2, <1>3, <1>7, <1>9
<1>. QED  BY <1>10 DEF Exact, Fraction

-----------------------------------------------------------------------------
(* Amounts over one denominator, so that sums of amounts are sums of integers. *)

\* Some denominator has the amount, with this numerator.
Over(a, d) == \E n \in Int : Is(a, n, d)
Num(a, d) == CHOOSE n \in Int : Is(a, n, d)

LEMMA NumIs ==
  ASSUME NEW a, NEW d, Over(a, d)
  PROVE  Is(a, Num(a, d), d) /\ Num(a, d) \in Int
BY DEF Over, Num

LEMMA NumOf ==
  ASSUME NEW a, NEW n, NEW d, Is(a, n, d)
  PROVE  Over(a, d) /\ Num(a, d) = n
<1>1. Over(a, d)
  BY DEF Over, Is
<1>2. PICK m \in Int : m = Num(a, d) /\ Is(a, m, d)
  BY <1>1, NumIs
<1>3. PICK x \in Int, y \in Nat \ {0}, z \in Nat \ {0}, k \in Int :
         x = a[1] /\ y = a[2] /\ z = d /\ k = n
  BY IsItself DEF Is
<1>4. x * z = m * y /\ x * z = k * y
  BY <1>2, <1>3 DEF Is
<1>5. m = k
  BY <1>4, CancelFactor
<1>. QED  BY <1>1, <1>2, <1>3, <1>5

\* An amount is what its numerator says.
LEMMA SameNum ==
  ASSUME NEW a, NEW b, NEW d, Over(a, d), Over(b, d), Num(a, d) = Num(b, d)
  PROVE  a = b
<1>1. Is(a, Num(a, d), d) /\ Is(b, Num(a, d), d)
  BY NumIs
<1>. QED  BY <1>1, IsSame

LEMMA PlusOver ==
  ASSUME NEW a, NEW b, NEW d, Over(a, d), Over(b, d)
  PROVE  Over(a ++ b, d) /\ Num(a ++ b, d) = Num(a, d) + Num(b, d)
<1>1. PICK n \in Int, m \in Int : n = Num(a, d) /\ m = Num(b, d) /\ Is(a, n, d) /\ Is(b, m, d)
  BY NumIs
<1>2. PICK e \in Nat \ {0} : e = d
  BY <1>1 DEF Is
<1>3. Is(a ++ b, n * e + m * e, e * e)
  BY <1>1, <1>2, SumIs
<1>4. n * e + m * e = (n + m) * e /\ n + m \in Int
  OBVIOUS
<1>5. Is(a ++ b, n + m, e)
  BY <1>3, <1>4, IsReduced
<1>. QED  BY <1>1, <1>2, <1>5, NumOf

LEMMA MinusOver ==
  ASSUME NEW a, NEW b, NEW d, Over(a, d), Over(b, d)
  PROVE  Over(a -- b, d) /\ Num(a -- b, d) = Num(a, d) - Num(b, d)
<1>1. PICK n \in Int, m \in Int : n = Num(a, d) /\ m = Num(b, d) /\ Is(a, n, d) /\ Is(b, m, d)
  BY NumIs
<1>2. PICK e \in Nat \ {0} : e = d
  BY <1>1 DEF Is
<1>3. PICK x \in Int, y \in Nat \ {0} : b = <<x, y>> /\ x * e = m * y
  <2>1. b \in Exact /\ b[1] * e = m * b[2]
    BY <1>1, <1>2 DEF Is
  <2>. QED  BY <2>1, IsItself
<1>4. PICK c : c = <<-x, y>>
  OBVIOUS
<1>5. c \in Exact
  <2>1. <<x, y>> \in Exact
    BY <1>1, <1>3 DEF Is
  <2>. QED  BY <1>4, <2>1, NegatedExact
<1>6. Is(c, -m, e)
  <2>1. (-x) * e = -(x * e) /\ (-m) * y = -(m * y)
    OBVIOUS
  <2>2. c[1] = -x /\ c[2] = y
    BY <1>4
  <2>. QED  BY <1>3, <1>5, <2>1, <2>2 DEF Is
<1>7. a -- b = a ++ c
  BY <1>3, <1>4 DEF --, ++
<1>8. Over(c, e) /\ Num(c, e) = -m
  BY <1>6, NumOf
<1>. QED  BY <1>1, <1>2, <1>7, <1>8, PlusOver

LEMMA ZeroOver ==
  ASSUME NEW d \in Nat \ {0}
  PROVE  Over(Zero, d) /\ Num(Zero, d) = 0
<1>1. PICK n \in Int : n = 0
  OBVIOUS
<1>2. Is(Amount(n), n, 1)
  BY WholeIsExact
<1>3. Is(Amount(n), n * d, 1 * d)
  BY <1>2, IsExpanded
<1>4. n * d = 0 /\ 1 * d = d
  BY <1>1
<1>5. Is(Zero, 0, d)
  BY <1>1, <1>3, <1>4 DEF Zero
<1>. QED  BY <1>5, NumOf

\* Finitely many amounts have a denominator in common.
LEMMA CommonOver ==
  ASSUME NEW S, IsFiniteSet(S), S \subseteq Exact
  PROVE  \E d \in Nat \ {0} : \A a \in S : Over(a, d)
<1> DEFINE Good == {T \in SUBSET S : \E d \in Nat \ {0} : \A a \in T : Over(a, d)}
<1>1. {} \in Good
  <2>1. 1 \in Nat \ {0}
    OBVIOUS
  <2>. QED  BY <2>1
<1>2. ASSUME NEW T \in SUBSET S, NEW b \in S \ T, T \in Good
      PROVE  T \cup {b} \in Good
  <2>1. PICK d \in Nat \ {0} : \A a \in T : Over(a, d)
    BY <1>2
  <2>2. PICK m \in Int, e \in Nat \ {0} : Is(b, m, e)
    BY IsItself
  <2>3. PICK k \in Nat \ {0} : k = d * e
    OBVIOUS
  <2>4. ASSUME NEW a \in T  PROVE Over(a, k)
    <3>1. PICK n \in Int : Is(a, n, d)
      BY <2>1 DEF Over
    <3>2. Is(a, n * e, d * e)
      BY <3>1, IsExpanded
    <3>. QED  BY <2>3, <3>2, NumOf
  <2>5. Over(b, k)
    <3>1. Is(b, m * d, e * d)
      BY <2>2, IsExpanded
    <3>2. e * d = k
      BY <2>3
    <3>. QED  BY <3>1, <3>2, NumOf
  <2>6. \A a \in T \cup {b} : Over(a, k)
    BY <2>4, <2>5
  <2>7. T \cup {b} \in SUBSET S
    OBVIOUS
  <2>. QED  BY <2>6, <2>7
<1>3. S \in Good
  <2>. HIDE DEF Good
  <2>. QED  BY <1>1, <1>2, ByElements
<1>. QED  BY <1>3

\* So do a handful.
LEMMA HandfulOver ==
  ASSUME NEW a \in Exact, NEW b \in Exact, NEW c \in Exact, NEW e \in Exact, NEW f \in Exact,
         NEW g \in Exact
  PROVE  \E d \in Nat \ {0} : /\ Over(a, d) /\ Over(b, d) /\ Over(c, d)
                              /\ Over(e, d) /\ Over(f, d) /\ Over(g, d)
<1> DEFINE S == {a, b, c, e, f, g}
<1>1. IsFiniteSet({a}) /\ IsFiniteSet({b}) /\ IsFiniteSet({c})
      /\ IsFiniteSet({e}) /\ IsFiniteSet({f}) /\ IsFiniteSet({g})
  BY FS_Singleton
<1>2. S = {a} \cup ({b} \cup ({c} \cup ({e} \cup ({f} \cup {g}))))
  OBVIOUS
<1>. HIDE DEF S
<1>3. IsFiniteSet(S)
  BY <1>1, <1>2, FS_Union
<1>4. S \subseteq Exact
  BY DEF S
<1>5. PICK d \in Nat \ {0} : \A x \in S : Over(x, d)
  BY <1>3, <1>4, CommonOver
<1>. QED  BY <1>5 DEF S

\* Zero, one and opposites.
LEMMA ZeroLaws ==
  ASSUME NEW a \in Exact
  PROVE  /\ Zero \in Exact /\ One \in Exact
         /\ a ++ Zero = a /\ Zero ++ a = a /\ a ** One = a /\ One ** a = a
         /\ a ** Zero = Zero /\ Zero ** a = Zero
         /\ Zero -- a \in Exact /\ a -- Zero = a /\ a -- a = Zero
<1>1. Zero \in Exact /\ One \in Exact /\ Is(Zero, 0, 1) /\ Is(One, 1, 1)
  <2>1. PICK n \in Int, m \in Int : n = 0 /\ m = 1
    OBVIOUS
  <2>. QED  BY <2>1, WholeIsExact DEF Zero, One
<1>2. PICK n \in Int, d \in Nat \ {0} : Is(a, n, d)
  BY IsItself
<1>3. PICK e \in Nat \ {0} : Over(a, e) /\ Over(Zero, e)
  BY <1>1, HandfulOver
<1>4. Num(Zero, e) = 0 /\ Num(a, e) \in Int
  BY <1>3, ZeroOver, NumIs
<1>5. /\ Over(a ++ Zero, e) /\ Num(a ++ Zero, e) = Num(a, e) + 0
      /\ Over(Zero ++ a, e) /\ Num(Zero ++ a, e) = 0 + Num(a, e)
      /\ Over(a -- Zero, e) /\ Num(a -- Zero, e) = Num(a, e) - 0
      /\ Over(Zero -- a, e) /\ Over(a -- a, e) /\ Num(a -- a, e) = Num(a, e) - Num(a, e)
  BY <1>3, <1>4, PlusOver, MinusOver
<1>6. a ++ Zero = a /\ Zero ++ a = a /\ a -- Zero = a /\ a -- a = Zero
  BY <1>3, <1>4, <1>5, SameNum
<1>7. Zero -- a \in Exact
  BY <1>5 DEF Over, Is
<1>8. /\ Is(a ** One, n * 1, d * 1) /\ Is(One ** a, 1 * n, 1 * d)
      /\ Is(a ** Zero, n * 0, d * 1) /\ Is(Zero ** a, 0 * n, 1 * d)
  BY <1>1, <1>2, ProductIs
<1>9. n * 1 = n /\ d * 1 = d /\ 1 * n = n /\ 1 * d = d /\ n * 0 = 0 /\ 0 * n = 0
  OBVIOUS
<1>10. a ** One = a /\ One ** a = a
  BY <1>2, <1>8, <1>9, IsSame
<1>11. Is(Zero, 0, d)
  <2>1. Is(Zero, 0 * d, 1 * d)
    BY <1>1, IsExpanded
  <2>2. 0 * d = 0
    OBVIOUS
  <2>. QED  BY <1>9, <2>1, <2>2
<1>12. a ** Zero = Zero /\ Zero ** a = Zero
  BY <1>8, <1>9, <1>11, IsSame
<1>. QED  BY <1>1, <1>6, <1>7, <1>10, <1>12

LEMMA PlusExact ==
  ASSUME NEW a \in Exact, NEW b \in Exact
  PROVE  a ++ b \in Exact
BY PlusLaws

LEMMA TimesExact ==
  ASSUME NEW a \in Exact, NEW b \in Exact
  PROVE  a ** b \in Exact
BY TimesLaws

LEMMA MinusExact ==
  ASSUME NEW a \in Exact, NEW b \in Exact
  PROVE  a -- b \in Exact
<1>1. PICK d \in Nat \ {0} : Over(a, d) /\ Over(b, d)
  BY HandfulOver
<1>2. Over(a -- b, d)
  BY <1>1, MinusOver
<1>. QED  BY <1>2 DEF Over, Is

\* A product with an amount over d is over a multiple of d.
LEMMA TimesOver ==
  ASSUME NEW a, NEW d, Over(a, d), NEW c, NEW m \in Int, NEW e \in Nat \ {0}, Is(c, m, e)
  PROVE  Over(a ** c, d * e) /\ Num(a ** c, d * e) = Num(a, d) * m
<1>1. Is(a, Num(a, d), d)
  BY NumIs
<1>2. Is(a ** c, Num(a, d) * m, d * e)
  BY <1>1, ProductIs
<1>. QED  BY <1>2, NumOf

\* Products distribute over sums.
LEMMA Distributive ==
  ASSUME NEW a \in Exact, NEW b \in Exact, NEW c \in Exact
  PROVE  /\ (a ++ b) ** c = (a ** c) ++ (b ** c)
         /\ (a -- b) ** c = (a ** c) -- (b ** c)
         /\ c ** (a ++ b) = (c ** a) ++ (c ** b)
<1>1. PICK d \in Nat \ {0} : Over(a, d) /\ Over(b, d)
  BY HandfulOver
<1>2. PICK m \in Int, e \in Nat \ {0} : Is(c, m, e)
  BY IsItself
<1>3. PICK k \in Nat \ {0} : k = d * e
  OBVIOUS
<1>4. PICK x \in Int, y \in Int : x = Num(a, d) /\ y = Num(b, d)
  BY <1>1, NumIs
<1>5. /\ Over(a ++ b, d) /\ Num(a ++ b, d) = x + y
      /\ Over(a -- b, d) /\ Num(a -- b, d) = x - y
  BY <1>1, <1>4, PlusOver, MinusOver
<1>6. /\ Over(a ** c, k) /\ Num(a ** c, k) = x * m
      /\ Over(b ** c, k) /\ Num(b ** c, k) = y * m
  BY <1>1, <1>2, <1>3, <1>4, TimesOver
<1>7. /\ Over((a ++ b) ** c, k) /\ Num((a ++ b) ** c, k) = (x + y) * m
      /\ Over((a -- b) ** c, k) /\ Num((a -- b) ** c, k) = (x - y) * m
  BY <1>2, <1>3, <1>5, TimesOver
<1>8. /\ Over((a ** c) ++ (b ** c), k)
      /\ Num((a ** c) ++ (b ** c), k) = x * m + y * m
      /\ Over((a ** c) -- (b ** c), k)
      /\ Num((a ** c) -- (b ** c), k) = x * m - y * m
  BY <1>6, PlusOver, MinusOver
<1>9. (x + y) * m = x * m + y * m /\ (x - y) * m = x * m - y * m
  OBVIOUS
<1>10. (a ++ b) ** c = (a ** c) ++ (b ** c) /\ (a -- b) ** c = (a ** c) -- (b ** c)
  BY <1>7, <1>8, <1>9, SameNum
<1>11. c ** (a ++ b) = (a ++ b) ** c /\ c ** a = a ** c /\ c ** b = b ** c
  <2>1. a ++ b \in Exact
    BY PlusLaws
  <2>. QED  BY <2>1, TimesLaws
<1>. QED  BY <1>10, <1>11

\* Sums and opposites of whole amounts.
LEMMA WholeSums ==
  ASSUME NEW n \in Int, NEW m \in Int
  PROVE  /\ Amount(n) ++ Amount(m) = Amount(n + m) /\ Amount(n) -- Amount(m) = Amount(n - m)
         /\ Zero -- Amount(n) = Amount(-n)
<1>1. PICK d \in Nat \ {0} : d = 1
  OBVIOUS
<1>2. \A k \in Int : Over(Amount(k), d) /\ Num(Amount(k), d) = k
  BY <1>1, WholeIsExact, NumOf
<1>3. n + m \in Int /\ n - m \in Int /\ -n \in Int /\ 0 \in Int
  OBVIOUS
<1>4. /\ Over(Amount(n) ++ Amount(m), d) /\ Num(Amount(n) ++ Amount(m), d) = n + m
      /\ Over(Amount(n) -- Amount(m), d) /\ Num(Amount(n) -- Amount(m), d) = n - m
      /\ Over(Zero -- Amount(n), d) /\ Num(Zero -- Amount(n), d) = 0 - n
  BY <1>2, <1>3, PlusOver, MinusOver DEF Zero
<1>5. 0 - n = -n
  OBVIOUS
<1>. QED  BY <1>2, <1>3, <1>4, <1>5, SameNum

\* Two parts of a whole, m and k of n, are the whole.
LEMMA PartsOfWhole ==
  ASSUME NEW a \in Exact, NEW n \in Nat \ {0}, NEW m \in Int, NEW k \in Int, m + k = n
  PROVE  /\ Amount(m) // Amount(n) \in Exact /\ Amount(k) // Amount(n) \in Exact
         /\ (a ** (Amount(m) // Amount(n))) ++ (a ** (Amount(k) // Amount(n))) = a
<1>1. Is(Amount(n), n, 1) /\ Is(Amount(m), m, 1) /\ Is(Amount(k), k, 1) /\ n > 0
  BY WholeIsExact
<1>2. /\ Is(Amount(m) // Amount(n), m * 1, 1 * n) /\ Is(Amount(k) // Amount(n), k * 1, 1 * n)
  BY <1>1, QuotientIs
<1>3. m * 1 = m /\ k * 1 = k /\ 1 * n = n
  OBVIOUS
<1> DEFINE f == Amount(m) // Amount(n)
           g == Amount(k) // Amount(n)
<1>4. Is(f, m, n) /\ Is(g, k, n)
  BY <1>2, <1>3
<1>. HIDE DEF f, g
<1>5. f \in Exact /\ g \in Exact
  BY <1>4 DEF Is
<1>6. f ++ g = One
  <2>1. Over(f, n) /\ Num(f, n) = m /\ Over(g, n) /\ Num(g, n) = k
    BY <1>4, NumOf
  <2>2. Over(f ++ g, n) /\ Num(f ++ g, n) = n
    BY <2>1, PlusOver
  <2>3. Over(One, n) /\ Num(One, n) = n
    <3>1. PICK e \in Int : e = 1
      OBVIOUS
    <3>2. Is(One, e, 1)
      BY <3>1, WholeIsExact DEF One
    <3>3. Is(One, e * n, 1 * n)
      BY <3>2, IsExpanded
    <3>4. e * n = n
      BY <3>1
    <3>. QED  BY <1>3, <3>3, <3>4, NumOf
  <2>. QED  BY <2>2, <2>3, SameNum
<1>7. (a ** f) ++ (a ** g) = a ** (f ++ g)
  BY <1>5, Distributive
<1>8. (a ** f) ++ (a ** g) = a
  BY <1>6, <1>7, ZeroLaws
<1>. QED  BY <1>5, <1>8 DEF f, g


-----------------------------------------------------------------------------
(* Sums of amounts.                                                            *)

\* Equal amounts have equal sums.
LEMMA SameSumOver ==
  ASSUME NEW S, IsFiniteSet(S), NEW f, NEW g, \A x \in S : f[x] = g[x]
  PROVE  SumOver(f, S) = SumOver(g, S)
<1> DEFINE Bad == {T \in SUBSET S : SumOver(f, T) # SumOver(g, T)}
<1>1. ASSUME Bad # {}  PROVE FALSE
  <2>1. Bad \in SUBSET (SUBSET S)
    OBVIOUS
  <2>2. PICK T \in Bad : \A U \in SUBSET T : U # T => U \notin Bad
    <3>. HIDE DEF Bad
    <3>. QED  BY <1>1, <2>1, SmallestBad
  <2>3. T \in SUBSET S /\ SumOver(f, T) # SumOver(g, T)
    BY <2>2
  <2>4. T # {}
    BY <2>3, SumOverNone
  <2>5. OneOf(T) \in T /\ IsFiniteSet(T)
    BY <2>3, <2>4, FS_Subset DEF OneOf
  <2>6. SumOver(f, T \ {OneOf(T)}) = SumOver(g, T \ {OneOf(T)})
    BY <2>2, <2>3, <2>5
  <2>7. /\ SumOver(f, T) = f[OneOf(T)] ++ SumOver(f, T \ {OneOf(T)})
        /\ SumOver(g, T) = g[OneOf(T)] ++ SumOver(g, T \ {OneOf(T)})
    BY <2>4, <2>5, SumOverAny
  <2>8. f[OneOf(T)] = g[OneOf(T)]
    BY <2>3, <2>5
  <2>. QED  BY <2>3, <2>6, <2>7, <2>8
<1>. QED  BY <1>1

\* The amounts over d, and their numerators.
AllOver(f, S, d, nums) ==
    /\ IsFiniteSet(S) /\ d \in Nat \ {0}
    /\ \A x \in S : Over(f[x], d) /\ nums[x] = Num(f[x], d)

LEMMA AllOverExists ==
  ASSUME NEW f, NEW S, Amounts(f, S)
  PROVE  \E d \in Nat \ {0} : AllOver(f, S, d, [x \in S |-> Num(f[x], d)])
<1> DEFINE image == {f[x] : x \in S}
<1>1. IsFiniteSet(image)
  <2> DEFINE onto == [x \in S |-> f[x]]
  <2>1. onto \in Surjection(S, image)
    BY DEF Surjection
  <2>. HIDE DEF onto, image
  <2>. QED  BY <2>1, FS_Surjection DEF Amounts
<1>2. image \subseteq Exact
  BY DEF Amounts
<1>3. PICK d \in Nat \ {0} : \A a \in image : Over(a, d)
  <2>. HIDE DEF image
  <2>. QED  BY <1>1, <1>2, CommonOver
<1>4. \A x \in S : Over(f[x], d)
  BY <1>3
<1>. QED  BY <1>4 DEF AllOver, Amounts

\* The numerator of a sum is the sum of the numerators.
LEMMA SumOverIs ==
  ASSUME NEW f, NEW S, NEW d, NEW nums, AllOver(f, S, d, nums)
  PROVE  /\ Adds(nums, S)
         /\ Over(SumOver(f, S), d) /\ Num(SumOver(f, S), d) = SumFunctionOnSet(nums, S)
<1> DEFINE Good(T) == /\ Over(SumOver(f, T), d)
                      /\ Num(SumOver(f, T), d) = SumFunctionOnSet(nums, T)
           Bad == {T \in SUBSET S : ~Good(T)}
<1>0. IsFiniteSet(S) /\ d \in Nat \ {0} /\ \A x \in S : Over(f[x], d) /\ nums[x] = Num(f[x], d)
  BY DEF AllOver
<1>1. ASSUME Bad # {}  PROVE FALSE
  <2>1. Bad \in SUBSET (SUBSET S)
    OBVIOUS
  <2>2. PICK T \in Bad : \A U \in SUBSET T : U # T => U \notin Bad
    <3>. HIDE DEF Bad
    <3>. QED  BY <1>0, <1>1, <2>1, SmallestBad
  <2>3. T \in SUBSET S /\ ~Good(T)
    BY <2>2
  <2>4. T # {}
    BY <1>0, <2>3, SumOverNone, SumOfNone, ZeroOver
  <2>5. OneOf(T) \in T /\ IsFiniteSet(T)
    BY <1>0, <2>3, <2>4, FS_Subset DEF OneOf
  <2>6. Good(T \ {OneOf(T)})
    BY <2>2, <2>3, <2>5
  <2>7. /\ SumOver(f, T) = f[OneOf(T)] ++ SumOver(f, T \ {OneOf(T)})
        /\ SumFunctionOnSet(nums, T)
              = nums[OneOf(T)] + SumFunctionOnSet(nums, T \ {OneOf(T)})
    BY <2>4, <2>5, SumOverAny, SumOfAny
  <2>8. Over(f[OneOf(T)], d) /\ nums[OneOf(T)] = Num(f[OneOf(T)], d)
    BY <1>0, <2>3, <2>5
  <2>. QED  BY <2>3, <2>6, <2>7, <2>8, PlusOver
<1>2. Good(S)
  BY <1>1
<1>3. \A x \in S : nums[x] \in Int
  BY <1>0, NumIs
<1>. QED  BY <1>0, <1>2, <1>3 DEF Adds

\* Sums over two sets without a common element.
LEMMA SumOverBoth ==
  ASSUME NEW f, NEW R, NEW L, Amounts(f, R \cup L), R \cap L = {}
  PROVE  SumOver(f, R \cup L) = SumOver(f, R) ++ SumOver(f, L)
<1> DEFINE nums(d) == [x \in R \cup L |-> Num(f[x], d)]
<1>1. PICK d \in Nat \ {0} : AllOver(f, R \cup L, d, nums(d))
  BY AllOverExists
<1>2. PICK n : n = nums(d)
  OBVIOUS
<1>3. AllOver(f, R \cup L, d, n)
  BY <1>1, <1>2
<1>4. IsFiniteSet(R) /\ IsFiniteSet(L)
  BY FS_Subset DEF Amounts
<1>5. AllOver(f, R, d, n) /\ AllOver(f, L, d, n)
  BY <1>3, <1>4 DEF AllOver
<1>6. /\ Adds(n, R \cup L)
      /\ Over(SumOver(f, R \cup L), d)
      /\ Num(SumOver(f, R \cup L), d) = SumFunctionOnSet(n, R \cup L)
  BY <1>3, SumOverIs
<1>7. /\ Over(SumOver(f, R), d) /\ Num(SumOver(f, R), d) = SumFunctionOnSet(n, R)
      /\ Over(SumOver(f, L), d) /\ Num(SumOver(f, L), d) = SumFunctionOnSet(n, L)
  BY <1>5, SumOverIs
<1>8. SumFunctionOnSet(n, R \cup L) = SumFunctionOnSet(n, R) + SumFunctionOnSet(n, L)
  BY <1>6, SumOfBoth
<1>. QED  BY <1>6, <1>7, <1>8, PlusOver, SameNum

\* A sum is one summand and the sum of the others.
LEMMA SumOverAdded ==
  ASSUME NEW f, NEW S, NEW x, x \notin S, Amounts(f, S \cup {x})
  PROVE  SumOver(f, S \cup {x}) = SumOver(f, S) ++ f[x]
<1>1. SumOver(f, S \cup {x}) = SumOver(f, S) ++ SumOver(f, {x})
  BY SumOverBoth
<1>2. IsFiniteSet({x}) /\ {x} # {} /\ OneOf({x}) = x /\ {x} \ {OneOf({x})} = {}
  BY FS_Singleton DEF OneOf
<1>3. SumOver(f, {x}) = f[x] ++ Zero
  BY <1>2, SumOverAny, SumOverNone
<1>4. f[x] \in Exact
  BY DEF Amounts
<1>. QED  BY <1>1, <1>3, <1>4, ZeroLaws

\* A sum of opposites is the opposite of the sum.
LEMMA SumOverNegated ==
  ASSUME NEW f, NEW h, NEW S, Amounts(f, S), \A x \in S : h[x] = Zero -- f[x]
  PROVE  SumOver(h, S) = Zero -- SumOver(f, S)
<1> DEFINE nums(d) == [x \in S |-> Num(f[x], d)]
           opposite(d) == [x \in S |-> Num(h[x], d)]
<1>1. PICK d \in Nat \ {0} : AllOver(f, S, d, nums(d))
  BY AllOverExists
<1>2. PICK n, m : n = nums(d) /\ m = opposite(d)
  OBVIOUS
<1>3. Over(Zero, d) /\ Num(Zero, d) = 0
  BY ZeroOver
<1>4. \A x \in S : Over(h[x], d) /\ m[x] = 0 - n[x]
  <2>. SUFFICES ASSUME NEW x \in S  PROVE Over(h[x], d) /\ m[x] = 0 - n[x]
    OBVIOUS
  <2>1. Over(f[x], d) /\ n[x] = Num(f[x], d) /\ m[x] = Num(h[x], d)
    BY <1>1, <1>2 DEF AllOver
  <2>2. h[x] = Zero -- f[x]
    OBVIOUS
  <2>. QED  BY <1>3, <2>1, <2>2, MinusOver
<1>5. AllOver(f, S, d, n) /\ AllOver(h, S, d, m)
  BY <1>1, <1>2, <1>4 DEF AllOver
<1>6. /\ Adds(n, S)
      /\ Over(SumOver(f, S), d) /\ Num(SumOver(f, S), d) = SumFunctionOnSet(n, S)
  BY <1>5, SumOverIs
<1>7. Over(SumOver(h, S), d) /\ Num(SumOver(h, S), d) = SumFunctionOnSet(m, S)
  BY <1>5, SumOverIs
<1>8. \A x \in S : m[x] = -n[x]
  BY <1>4, <1>6 DEF Adds
<1>9. SumFunctionOnSet(m, S) = -SumFunctionOnSet(n, S)
  BY <1>6, <1>8, SumNegated
<1>10. SumFunctionOnSet(n, S) \in Int
  BY <1>6, SumIsInt
<1>11. /\ Over(Zero -- SumOver(f, S), d)
       /\ Num(Zero -- SumOver(f, S), d) = 0 - SumFunctionOnSet(n, S)
  BY <1>3, <1>6, MinusOver
<1>12. 0 - SumFunctionOnSet(n, S) = -SumFunctionOnSet(n, S)
  BY <1>10
<1>. QED  BY <1>7, <1>9, <1>11, <1>12, SameNum

\* What is zero may be left out of a sum.
LEMMA SumOverZeros ==
  ASSUME NEW f, NEW S, IsFiniteSet(S), \A x \in S : f[x] = Zero
  PROVE  SumOver(f, S) = Zero
<1> DEFINE Bad == {T \in SUBSET S : SumOver(f, T) # Zero}
<1>1. ASSUME Bad # {}  PROVE FALSE
  <2>1. Bad \in SUBSET (SUBSET S)
    OBVIOUS
  <2>2. PICK T \in Bad : \A U \in SUBSET T : U # T => U \notin Bad
    <3>. HIDE DEF Bad
    <3>. QED  BY <1>1, <2>1, SmallestBad
  <2>3. T \in SUBSET S /\ SumOver(f, T) # Zero
    BY <2>2
  <2>4. T # {}
    BY <2>3, SumOverNone
  <2>5. OneOf(T) \in T /\ IsFiniteSet(T)
    BY <2>3, <2>4, FS_Subset DEF OneOf
  <2>6. SumOver(f, T \ {OneOf(T)}) = Zero
    BY <2>2, <2>3, <2>5
  <2>7. SumOver(f, T) = f[OneOf(T)] ++ SumOver(f, T \ {OneOf(T)})
    BY <2>4, <2>5, SumOverAny
  <2>8. f[OneOf(T)] = Zero
    BY <2>3, <2>5
  <2>9. Zero \in Exact
    BY WholeIsExact DEF Zero
  <2>. QED  BY <2>3, <2>6, <2>7, <2>8, <2>9, ZeroLaws
<1>. QED  BY <1>1

LEMMA SumOverWithoutZeros ==
  ASSUME NEW f, NEW S, NEW T \in SUBSET S, Amounts(f, S), \A x \in S \ T : f[x] = Zero
  PROVE  SumOver(f, S) = SumOver(f, T)
<1>1. S = T \cup (S \ T) /\ T \cap (S \ T) = {}
  OBVIOUS
<1>2. SumOver(f, S) = SumOver(f, T) ++ SumOver(f, S \ T)
  BY <1>1, SumOverBoth
<1>3. IsFiniteSet(S \ T)
  BY FS_Subset DEF Amounts
<1>4. SumOver(f, S \ T) = Zero
  BY <1>3, SumOverZeros
<1>5. Amounts(f, T)
  BY FS_Subset DEF Amounts
<1>6. SumOver(f, T) \in Exact
  BY <1>5, SumOverExact
<1>. QED  BY <1>2, <1>4, <1>6, ZeroLaws

-----------------------------------------------------------------------------
(* Signs.                                                                      *)

LEMMA SignIs ==
  ASSUME NEW f, NEW n, NEW d, Is(f, n, d)
  PROVE  IsBelow(Zero, f) <=> n > 0
<1>1. PICK x \in Int, y \in Nat \ {0}, e \in Nat \ {0}, m \in Int :
         x = f[1] /\ y = f[2] /\ e = d /\ m = n /\ x * e = m * y
  BY IsItself DEF Is
<1>2. IsBelow(Zero, f) <=> 0 * y < x * 1
  BY <1>1 DEF IsBelow, Zero, Amount
<1>3. 0 * y = 0 /\ x * 1 = x
  OBVIOUS
<1>4. PICK z \in Int : z = 0 /\ z * e = 0 /\ z * y = 0
  OBVIOUS
<1>5. (z < x <=> z * e < x * e) /\ (z < m <=> z * y < m * y)
  BY CancelFactor
<1>. QED  BY <1>1, <1>2, <1>3, <1>4, <1>5

LEMMA SignOver ==
  ASSUME NEW f, NEW d, Over(f, d)
  PROVE  (IsBelow(Zero, f) <=> Num(f, d) > 0) /\ (IsBelow(f, Zero) <=> Num(f, d) < 0)
<1>1. Is(f, Num(f, d), d)
  BY NumIs
<1>2. PICK x \in Int, y \in Nat \ {0}, e \in Nat \ {0}, m \in Int :
         x = f[1] /\ y = f[2] /\ e = d /\ m = Num(f, d) /\ x * e = m * y
  BY <1>1, IsItself DEF Is
<1>3. IsBelow(f, Zero) <=> x * 1 < 0 * y
  BY <1>2 DEF IsBelow, Zero, Amount
<1>4. 0 * y = 0 /\ x * 1 = x
  OBVIOUS
<1>5. PICK z \in Int : z = 0 /\ z * e = 0 /\ z * y = 0
  OBVIOUS
<1>6. (x < z <=> x * e < z * e) /\ (m < z <=> m * y < z * y)
  BY CancelFactor
<1>7. IsBelow(Zero, f) <=> Num(f, d) > 0
  BY <1>1, SignIs
<1>. QED  BY <1>2, <1>3, <1>4, <1>5, <1>6, <1>7

\* A product of positive amounts is positive.
LEMMA ProductPositive ==
  ASSUME NEW a \in Exact, NEW b \in Exact, IsBelow(Zero, a), IsBelow(Zero, b)
  PROVE  IsBelow(Zero, a ** b)
<1>1. PICK n \in Int, d \in Nat \ {0}, m \in Int, e \in Nat \ {0} : Is(a, n, d) /\ Is(b, m, e)
  BY IsItself
<1>2. n > 0 /\ m > 0
  BY <1>1, SignIs
<1>3. n * m > 0
  <2>1. PICK k \in Nat \ {0}, j \in Nat \ {0} : k = n /\ j = m
    BY <1>2
  <2>2. k * j \in Nat \ {0}
    OBVIOUS
  <2>. QED  BY <2>1, <2>2
<1>4. Is(a ** b, n * m, d * e)
  BY <1>1, ProductIs
<1>. QED  BY <1>3, <1>4, SignIs

\* A positive amount and one that is not negative; an amount and its opposite.
LEMMA SumPositive ==
  ASSUME NEW a \in Exact, NEW b \in Exact, IsBelow(Zero, a)
  PROVE  /\ ~IsBelow(b, Zero) => IsBelow(Zero, a ++ b)
         /\ ~IsBelow(Zero, Zero -- a) /\ ~IsBelow(Zero, Zero)
<1>1. PICK d \in Nat \ {0} : Over(a, d) /\ Over(b, d)
  BY HandfulOver
<1>2. Over(Zero, d) /\ Num(Zero, d) = 0
  BY ZeroOver
<1>3. Num(a, d) \in Int /\ Num(b, d) \in Int
  BY <1>1, NumIs
<1>4. /\ Over(a ++ b, d) /\ Num(a ++ b, d) = Num(a, d) + Num(b, d)
      /\ Over(Zero -- a, d) /\ Num(Zero -- a, d) = 0 - Num(a, d)
  BY <1>1, <1>2, PlusOver, MinusOver
<1>5. Num(a, d) > 0 /\ (~IsBelow(b, Zero) => Num(b, d) >= 0)
  BY <1>1, <1>3, SignOver
<1>. QED  BY <1>2, <1>3, <1>4, <1>5, SignOver


-----------------------------------------------------------------------------
(* Identities.                                                                 *)

\* What is added to one side and taken from the other.
LEMMA MovedOver ==
  ASSUME NEW a \in Exact, NEW b \in Exact, NEW x \in Exact
  PROVE  /\ a ++ b = (a ++ (Zero -- x)) ++ (b ++ x)
         /\ (x -- b) ++ (a ++ b) = x ++ a
<1>1. PICK d \in Nat \ {0} : Over(a, d) /\ Over(b, d) /\ Over(x, d)
  BY HandfulOver
<1>2. Over(Zero, d) /\ Num(Zero, d) = 0
  BY ZeroOver
<1>3. PICK i \in Int, j \in Int, k \in Int : i = Num(a, d) /\ j = Num(b, d) /\ k = Num(x, d)
  BY <1>1, NumIs
<1>4. /\ Over(Zero -- x, d) /\ Num(Zero -- x, d) = 0 - k
      /\ Over(x -- b, d) /\ Num(x -- b, d) = k - j
      /\ Over(b ++ x, d) /\ Num(b ++ x, d) = j + k
      /\ Over(a ++ b, d) /\ Num(a ++ b, d) = i + j
      /\ Over(x ++ a, d) /\ Num(x ++ a, d) = k + i
  BY <1>1, <1>2, <1>3, PlusOver, MinusOver
<1>5. Over(a ++ (Zero -- x), d) /\ Num(a ++ (Zero -- x), d) = i + (0 - k)
  BY <1>1, <1>3, <1>4, PlusOver
<1>6. /\ Over((a ++ (Zero -- x)) ++ (b ++ x), d)
      /\ Num((a ++ (Zero -- x)) ++ (b ++ x), d) = (i + (0 - k)) + (j + k)
      /\ Over((x -- b) ++ (a ++ b), d)
      /\ Num((x -- b) ++ (a ++ b), d) = (k - j) + (i + j)
  BY <1>4, <1>5, PlusOver
<1>7. (i + (0 - k)) + (j + k) = i + j /\ (k - j) + (i + j) = k + i
  OBVIOUS
<1>. QED  BY <1>4, <1>6, <1>7, SameNum

\* Proceeds less a fee and less the part of a cost that is sold.
LEMMA SoldPart ==
  ASSUME NEW a \in Exact, NEW taken \in Exact, NEW kept \in Exact, NEW q \in Exact,
         NEW b \in Exact
  PROVE  (a ++ (taken ++ kept)) ++ (((Zero -- q) -- b) -- taken)
            = (a ++ (Zero -- (q ++ b))) ++ kept
<1>1. PICK d \in Nat \ {0} : /\ Over(a, d) /\ Over(taken, d) /\ Over(kept, d)
                             /\ Over(q, d) /\ Over(b, d)
  BY HandfulOver
<1>2. Over(Zero, d) /\ Num(Zero, d) = 0
  BY ZeroOver
<1>3. PICK i \in Int, j \in Int, k \in Int, m \in Int, n \in Int :
         /\ i = Num(a, d) /\ j = Num(taken, d) /\ k = Num(kept, d) /\ m = Num(q, d)
         /\ n = Num(b, d)
  BY <1>1, NumIs
<1>4. /\ Over(taken ++ kept, d) /\ Num(taken ++ kept, d) = j + k
      /\ Over(Zero -- q, d) /\ Num(Zero -- q, d) = 0 - m
      /\ Over(q ++ b, d) /\ Num(q ++ b, d) = m + n
  BY <1>1, <1>2, <1>3, PlusOver, MinusOver
<1>5. /\ Over(a ++ (taken ++ kept), d) /\ Num(a ++ (taken ++ kept), d) = i + (j + k)
      /\ Over((Zero -- q) -- b, d) /\ Num((Zero -- q) -- b, d) = (0 - m) - n
      /\ Over(Zero -- (q ++ b), d) /\ Num(Zero -- (q ++ b), d) = 0 - (m + n)
  BY <1>1, <1>2, <1>3, <1>4, PlusOver, MinusOver
<1>6. /\ Over(((Zero -- q) -- b) -- taken, d)
      /\ Num(((Zero -- q) -- b) -- taken, d) = ((0 - m) - n) - j
      /\ Over(a ++ (Zero -- (q ++ b)), d)
      /\ Num(a ++ (Zero -- (q ++ b)), d) = i + (0 - (m + n))
  BY <1>1, <1>3, <1>5, PlusOver, MinusOver
<1>7. /\ Over((a ++ (taken ++ kept)) ++ (((Zero -- q) -- b) -- taken), d)
      /\ Num((a ++ (taken ++ kept)) ++ (((Zero -- q) -- b) -- taken), d)
            = (i + (j + k)) + (((0 - m) - n) - j)
      /\ Over((a ++ (Zero -- (q ++ b))) ++ kept, d)
      /\ Num((a ++ (Zero -- (q ++ b))) ++ kept, d) = (i + (0 - (m + n))) + k
  BY <1>1, <1>3, <1>5, <1>6, PlusOver
<1>8. (i + (j + k)) + (((0 - m) - n) - j) = (i + (0 - (m + n))) + k
  OBVIOUS
<1>. QED  BY <1>7, <1>8, SameNum

\* Taking away is adding the opposite.
LEMMA MinusIsPlus ==
  ASSUME NEW a \in Exact, NEW b \in Exact
  PROVE  a -- b = a ++ (Zero -- b)
<1>1. PICK d \in Nat \ {0} : Over(a, d) /\ Over(b, d)
  BY HandfulOver
<1>2. Over(Zero, d) /\ Num(Zero, d) = 0
  BY ZeroOver
<1>3. PICK i \in Int, j \in Int : i = Num(a, d) /\ j = Num(b, d)
  BY <1>1, NumIs
<1>4. /\ Over(Zero -- b, d) /\ Num(Zero -- b, d) = 0 - j
      /\ Over(a -- b, d) /\ Num(a -- b, d) = i - j
  BY <1>1, <1>2, <1>3, MinusOver
<1>5. Over(a ++ (Zero -- b), d) /\ Num(a ++ (Zero -- b), d) = i + (0 - j)
  BY <1>1, <1>3, <1>4, PlusOver
<1>6. i - j = i + (0 - j)
  OBVIOUS
<1>. QED  BY <1>4, <1>5, <1>6, SameNum

\* Two effects that share a part make a difference.
LEMMA TwoEffects ==
  ASSUME NEW n \in Exact, NEW c \in Exact, NEW fee \in Exact, NEW cost \in Exact,
         NEW b \in Exact
  PROVE  /\ ((n -- c) -- fee) ++ (c -- (cost -- fee)) = n -- cost
         /\ (((n -- c) -- fee) -- b) ++ (c -- (cost -- fee)) = (n -- b) -- cost
<1>1. PICK d \in Nat \ {0} : /\ Over(n, d) /\ Over(c, d) /\ Over(fee, d)
                             /\ Over(cost, d) /\ Over(b, d)
  BY HandfulOver
<1>3. PICK i \in Int, j \in Int, k \in Int, m \in Int, o \in Int :
         /\ i = Num(n, d) /\ j = Num(c, d) /\ k = Num(fee, d) /\ m = Num(cost, d)
         /\ o = Num(b, d)
  BY <1>1, NumIs
<1>4. /\ Over(n -- c, d) /\ Num(n -- c, d) = i - j
      /\ Over(cost -- fee, d) /\ Num(cost -- fee, d) = m - k
      /\ Over(n -- b, d) /\ Num(n -- b, d) = i - o
      /\ Over(n -- cost, d) /\ Num(n -- cost, d) = i - m
  BY <1>1, <1>3, MinusOver
<1>5. /\ Over((n -- c) -- fee, d) /\ Num((n -- c) -- fee, d) = (i - j) - k
      /\ Over(c -- (cost -- fee), d) /\ Num(c -- (cost -- fee), d) = j - (m - k)
      /\ Over((n -- b) -- cost, d) /\ Num((n -- b) -- cost, d) = (i - o) - m
  BY <1>1, <1>3, <1>4, MinusOver
<1>6. Over(((n -- c) -- fee) -- b, d) /\ Num(((n -- c) -- fee) -- b, d) = ((i - j) - k) - o
  BY <1>1, <1>3, <1>5, MinusOver
<1>7. /\ Over(((n -- c) -- fee) ++ (c -- (cost -- fee)), d)
      /\ Num(((n -- c) -- fee) ++ (c -- (cost -- fee)), d) = ((i - j) - k) + (j - (m - k))
      /\ Over((((n -- c) -- fee) -- b) ++ (c -- (cost -- fee)), d)
      /\ Num((((n -- c) -- fee) -- b) ++ (c -- (cost -- fee)), d)
            = (((i - j) - k) - o) + (j - (m - k))
  BY <1>5, <1>6, PlusOver
<1>8. /\ ((i - j) - k) + (j - (m - k)) = i - m
      /\ (((i - j) - k) - o) + (j - (m - k)) = (i - o) - m
  OBVIOUS
<1>. QED  BY <1>4, <1>5, <1>7, <1>8, SameNum

\* Sums of sums.
LEMMA Regrouped ==
  ASSUME NEW a \in Exact, NEW b \in Exact, NEW c \in Exact, NEW x \in Exact
  PROVE  (a ++ b) ++ (c ++ x) = (a ++ c) ++ (b ++ x)
<1>1. a ++ b \in Exact /\ c ++ x \in Exact /\ a ++ c \in Exact /\ b ++ x \in Exact
  BY PlusLaws
<1>2. (a ++ b) ++ (c ++ x) = a ++ (b ++ (c ++ x))
  BY <1>1, PlusLaws
<1>3. b ++ (c ++ x) = (b ++ c) ++ x /\ b ++ c = c ++ b /\ (c ++ b) ++ x = c ++ (b ++ x)
  BY PlusLaws
<1>4. a ++ (c ++ (b ++ x)) = (a ++ c) ++ (b ++ x)
  BY <1>1, PlusLaws
<1>. QED  BY <1>2, <1>3, <1>4

\* What is worth at the end less the flows, invested or not.
LEMMA LessFlows ==
  ASSUME NEW end \in Exact, NEW invested \in Exact, NEW other \in Exact
  PROVE  (end -- Zero) -- (invested ++ other)
            = (end ++ (Zero -- invested)) ++ (Zero -- other)
<1>1. PICK d \in Nat \ {0} : Over(end, d) /\ Over(invested, d) /\ Over(other, d)
  BY HandfulOver
<1>2. Over(Zero, d) /\ Num(Zero, d) = 0
  BY ZeroOver
<1>3. PICK i \in Int, j \in Int, k \in Int :
         i = Num(end, d) /\ j = Num(invested, d) /\ k = Num(other, d)
  BY <1>1, NumIs
<1>4. /\ Over(end -- Zero, d) /\ Num(end -- Zero, d) = i - 0
      /\ Over(invested ++ other, d) /\ Num(invested ++ other, d) = j + k
      /\ Over(Zero -- invested, d) /\ Num(Zero -- invested, d) = 0 - j
      /\ Over(Zero -- other, d) /\ Num(Zero -- other, d) = 0 - k
  BY <1>1, <1>2, <1>3, PlusOver, MinusOver
<1>5. /\ Over(end ++ (Zero -- invested), d)
      /\ Num(end ++ (Zero -- invested), d) = i + (0 - j)
  BY <1>1, <1>3, <1>4, PlusOver
<1>6. /\ Over((end -- Zero) -- (invested ++ other), d)
      /\ Num((end -- Zero) -- (invested ++ other), d) = (i - 0) - (j + k)
      /\ Over((end ++ (Zero -- invested)) ++ (Zero -- other), d)
      /\ Num((end ++ (Zero -- invested)) ++ (Zero -- other), d) = (i + (0 - j)) + (0 - k)
  BY <1>4, <1>5, PlusOver, MinusOver
<1>7. (i - 0) - (j + k) = (i + (0 - j)) + (0 - k)
  OBVIOUS
<1>. QED  BY <1>6, <1>7, SameNum

\* Less than nothing, twice.
LEMMA TurnedTwice ==
  ASSUME NEW a \in Exact
  PROVE  Zero -- (Zero -- a) = a
<1>1. PICK d \in Nat \ {0} : Over(a, d)
  BY HandfulOver
<1>2. Over(Zero, d) /\ Num(Zero, d) = 0
  BY ZeroOver
<1>3. Over(Zero -- a, d) /\ Num(Zero -- a, d) = 0 - Num(a, d)
  BY <1>1, <1>2, MinusOver
<1>4. Over(Zero -- (Zero -- a), d) /\ Num(Zero -- (Zero -- a), d) = 0 - Num(Zero -- a, d)
  BY <1>2, <1>3, MinusOver
<1>5. Num(a, d) \in Int
  BY <1>1, NumIs
<1>. QED  BY <1>1, <1>3, <1>4, <1>5, SameNum

\* Fractions compare as whichever numbers they are the fractions of.
LEMMA BelowIs ==
  ASSUME NEW f, NEW g, NEW n, NEW m, NEW d, NEW e, Is(f, n, d), Is(g, m, e)
  PROVE  IsBelow(f, g) <=> n * e < m * d
<1>1. PICK a \in Int, x \in Nat \ {0} : f = <<a, x>>
  BY IsItself DEF Is
<1>2. PICK b \in Int, y \in Nat \ {0} : g = <<b, y>>
  BY IsItself DEF Is
<1>3. /\ n \in Int /\ m \in Int /\ d \in Nat \ {0} /\ e \in Nat \ {0}
      /\ a * d = n * x /\ b * e = m * y
  BY <1>1, <1>2 DEF Is
<1>4. PICK k \in Nat \ {0}, j \in Nat \ {0} : k = d * e /\ j = x * y
  BY <1>1, <1>2, <1>3
<1>5. (a * y) * k = (n * e) * j
  <2>1. (a * y) * k = (a * d) * (y * e)
    BY <1>1, <1>2, <1>3, <1>4
  <2>2. (n * e) * j = (n * x) * (y * e)
    BY <1>1, <1>2, <1>3, <1>4
  <2>. QED  BY <1>3, <2>1, <2>2
<1>6. (b * x) * k = (m * d) * j
  <2>1. (b * x) * k = (b * e) * (x * d)
    BY <1>1, <1>2, <1>3, <1>4
  <2>2. (m * d) * j = (m * y) * (x * d)
    BY <1>1, <1>2, <1>3, <1>4
  <2>. QED  BY <1>3, <2>1, <2>2
<1>7. PICK p \in Int, q \in Int, r \in Int, s \in Int :
         p = a * y /\ q = b * x /\ r = n * e /\ s = m * d
  BY <1>1, <1>2, <1>3
<1>8. p * k < q * k <=> p < q
  BY CancelFactor
<1>9. r * j < s * j <=> r < s
  BY CancelFactor
<1>10. p * k = r * j /\ q * k = s * j
  BY <1>5, <1>6, <1>7
<1>11. p < q <=> r < s
  BY <1>8, <1>9, <1>10
<1>12. IsBelow(f, g) <=> p < q
  BY <1>1, <1>2, <1>7 DEF IsBelow
<1>. QED  BY <1>7, <1>11, <1>12

\* A close is below the average price of shares when they are worth less than they cost.
LEMMA BelowAverage ==
  ASSUME NEW a \in Exact, NEW b \in Exact, NEW q \in Nat \ {0}
  PROVE  IsBelow(a, b // Amount(q)) <=> IsBelow(a ** Amount(q), b)
<1>1. PICK n \in Int, d \in Nat \ {0} : Is(a, n, d)
  BY IsItself
<1>2. PICK m \in Int, e \in Nat \ {0} : Is(b, m, e)
  BY IsItself
<1>3. PICK w : w = Amount(q) /\ Is(w, q, 1)
  BY WholeIsExact
<1>4. Is(b // w, m * 1, e * q)
  <2>1. q > 0
    OBVIOUS
  <2>. QED  BY <1>2, <1>3, <2>1, QuotientIs
<1>5. Is(a ** w, n * q, d * 1)
  BY <1>1, <1>3, ProductIs
<1>6. IsBelow(a, b // w) <=> n * (e * q) < (m * 1) * d
  BY <1>1, <1>4, BelowIs
<1>7. IsBelow(a ** w, b) <=> (n * q) * e < m * (d * 1)
  BY <1>2, <1>5, BelowIs
<1>8. n * (e * q) = (n * q) * e /\ (m * 1) * d = m * (d * 1)
  BY <1>1, <1>2
<1>. QED  BY <1>3, <1>6, <1>7, <1>8

\* Amounts less their total, shared out by weights, leave nothing.
LEMMA ShareOut ==
  ASSUME NEW S, S # {}, NEW f, Amounts(f, S), NEW w, \A x \in S : w[x] \in Nat \ {0},
         NEW V, V = SumOver(f, S), NEW W, W = SumOver([x \in S |-> Amount(w[x])], S),
         NEW h, \A x \in S : h[x] = f[x] -- ((V ** Amount(w[x])) // W)
  PROVE  SumOver(h, S) = Zero
<1> DEFINE ws == [x \in S |-> Amount(w[x])]
<1>1. PICK d \in Nat \ {0} : \E nums : AllOver(f, S, d, nums)
  BY AllOverExists
<1>2. PICK nums : AllOver(f, S, d, nums)
  BY <1>1
<1>3. Adds(nums, S) /\ Over(V, d) /\ Num(V, d) = SumFunctionOnSet(nums, S)
  BY <1>2, SumOverIs
<1>4. IsFiniteSet(S)
  BY DEF Amounts
<1>5. AllOver(ws, S, 1, w)
  <2>1. \A x \in S : Is(ws[x], w[x], 1)
    BY WholeIsExact
  <2>. HIDE DEF ws
  <2>2. \A x \in S : Over(ws[x], 1) /\ w[x] = Num(ws[x], 1)
    BY <2>1, NumOf
  <2>. QED  BY <1>4, <2>2 DEF AllOver
<1>6. Adds(w, S) /\ Over(W, 1) /\ Num(W, 1) = SumFunctionOnSet(w, S)
  <2>. HIDE DEF ws
  <2>1. W = SumOver(ws, S)
    BY DEF ws
  <2>. QED  BY <1>5, <2>1, SumOverIs
<1>7. PICK P \in Int : P = SumFunctionOnSet(nums, S) /\ Is(V, P, d)
  BY <1>3, NumIs
<1>8. SumFunctionOnSet(w, S) \in Nat \ {0}
  <2>1. (\A x \in S : w[x] >= 0) /\ \E x \in S : w[x] > 0
    OBVIOUS
  <2>2. SumFunctionOnSet(w, S) \in Nat /\ SumFunctionOnSet(w, S) > 0
    BY <1>6, <2>1, SumIsPositive
  <2>. QED  BY <2>2
<1>9. PICK N \in Nat \ {0} : N = SumFunctionOnSet(w, S) /\ Is(W, N, 1)
  BY <1>6, <1>8, NumIs
<1>10. N > 0 /\ d * N \in Nat \ {0} /\ -P \in Int
  BY <1>7, <1>9
<1> DEFINE k == d * N
           left == [x \in S |-> N * nums[x] + (-P) * w[x]]
<1>11. ASSUME NEW x \in S
       PROVE  Over(h[x], k) /\ left[x] = Num(h[x], k)
  <2>1. PICK n \in Int, m \in Nat \ {0} : n = nums[x] /\ m = w[x]
    BY <1>3 DEF Adds
  <2>2. PICK c : c = Amount(m) /\ Is(c, m, 1)
    BY WholeIsExact
  <2>3. Is(V ** c, P * m, d * 1)
    BY <1>7, <2>2, ProductIs
  <2>4. Is((V ** c) // W, (P * m) * 1, (d * 1) * N)
    BY <1>9, <1>10, <2>3, QuotientIs
  <2>5. Is(f[x], n, d)
    BY <1>2, <2>1, NumIs DEF AllOver
  <2>6. Is(f[x], n * N, d * N)
    BY <1>9, <2>5, IsExpanded
  <2>7. (P * m) * 1 = P * m /\ (d * 1) * N = d * N /\ n * N - P * m = N * n + (-P) * m
    BY <1>7, <1>9, <2>1
  <2>8. PICK y : y = (V ** c) // W /\ Is(y, P * m, k)
    BY <2>4, <2>7
  <2>9. Over(f[x], k) /\ Num(f[x], k) = n * N /\ Over(y, k) /\ Num(y, k) = P * m
    BY <2>6, <2>8, NumOf
  <2>10. Over(f[x] -- y, k) /\ Num(f[x] -- y, k) = n * N - P * m
    BY <2>9, MinusOver
  <2>11. h[x] = f[x] -- y
    BY <2>1, <2>2, <2>8
  <2>12. left[x] = N * n + (-P) * m
    BY <2>1
  <2>. QED  BY <2>7, <2>10, <2>11, <2>12
<1>12. SumFunctionOnSet(left, S) = 0
  <2>1. Combines(left, N, nums, -P, w, S)
    BY DEF Combines
  <2>. HIDE DEF left
  <2>2. SumFunctionOnSet(left, S)
          = N * SumFunctionOnSet(nums, S) + (-P) * SumFunctionOnSet(w, S)
    BY <1>3, <1>6, <1>10, <2>1, SumIsLinear
  <2>3. SumFunctionOnSet(left, S) = N * P + (-P) * N
    BY <1>7, <1>9, <2>2
  <2>4. N * P + (-P) * N = 0
    BY <1>7, <1>9
  <2>. QED  BY <2>3, <2>4
<1>. HIDE DEF left, k
<1>13. k \in Nat \ {0}
  BY <1>10 DEF k
<1>14. AllOver(h, S, k, left)
  BY <1>4, <1>11, <1>13 DEF AllOver
<1>15. Over(SumOver(h, S), k) /\ Num(SumOver(h, S), k) = 0
  BY <1>12, <1>14, SumOverIs
<1>16. Over(Zero, k) /\ Num(Zero, k) = 0
  BY <1>13, ZeroOver
<1>. QED  BY <1>15, <1>16, SameNum

=============================================================================
