-------------------------- MODULE CalculationProofs -------------------------
(* Proofs about what is calculated from the stored rows: about                 *)
(* PortfolioFigures, for trades, prices, rates and sources of any number and   *)
(* size, that the lookups of a price agree, that a figure is known exactly     *)
(* when what it is computed from is, that the gains that are shown are money,  *)
(* and that the charts and lists agree; about RebalanceRungs and RungReports,  *)
(* for pools of any size, any prices, holdings and offsets; and about the page *)
(* that shows the rungs, for any amounts, ladders and answers.                 *)
EXTENDS PortfolioFigures, RungReports, RebalancePage, SetsAndAmounts

-----------------------------------------------------------------------------
(* Numbers.                                                                    *)

\* What the days of the model are.
LEMMA Days == /\ LastDay \in Nat \ {0} /\ Day = 1..LastDay /\ Day \in SUBSET Nat
<1>1. PICK n : n = Cardinality(Day)
  OBVIOUS
<1>2. n \in Nat /\ Day = 1..n /\ Day # {}
  BY <1>1, DayAssumption, FS_CardinalityType
<1>3. n \in Day /\ \A e \in Day : e <= n
  BY <1>2
<1>4. LastDay \in Day /\ \A e \in Day : e <= LastDay
  BY <1>3 DEF LastDay
<1>5. LastDay = n
  BY <1>2, <1>3, <1>4
<1>. QED  BY <1>2, <1>3, <1>5

\* Some days have a latest one.
LEMMA LatestIsLast ==
  ASSUME NEW T \in SUBSET Day, T # {}
  PROVE  Latest(T) \in T /\ \A e \in T : e <= Latest(T)
<1> DEFINE before == {LastDay - e : e \in T}
<1>1. LastDay \in Nat /\ \A e \in Day : e \in Nat /\ e <= LastDay
  BY Days
<1>2. before \in SUBSET Nat /\ before # {}
  BY <1>1
<1>3. PICK n \in before : \A m \in before : n <= m
  BY <1>2, SmallestOf
<1>4. PICK d \in T : n = LastDay - d
  BY <1>3
<1>5. \A e \in T : e <= d
  BY <1>1, <1>3, <1>4
<1>. QED  BY <1>5 DEF Latest

-----------------------------------------------------------------------------
(* Prices.                                                                     *)

\* The rows of an instrument, by source and day; on are its enabled sources.
IsBook(stored) == stored \in [Source -> [Day -> Exact \cup {None}]]

Row(stored, n) == stored[Precedence[n]]

\* The places of the enabled sources that have a price on a day, or one up to it.
Having(stored, on, d) == {n \in EnabledSources(on) : Row(stored, n)[d] # None}
HavingUpTo(stored, on, d) ==
    {n \in EnabledSources(on) : \E e \in Day : e <= d /\ Row(stored, n)[e] # None}

Least(S) == CHOOSE n \in S : \A m \in S : n <= m

\* Places are numbers, and each of them has a source with rows.
LEMMA SourcePlaces ==
  ASSUME NEW stored, IsBook(stored), NEW on
  PROVE  /\ EnabledSources(on) \in SUBSET Nat
         /\ \A n \in EnabledSources(on) :
               /\ Precedence[n] \in Source /\ Precedence[n] \in on
               /\ Row(stored, n) \in [Day -> Exact \cup {None}]
<1>1. DOMAIN Precedence \in SUBSET Nat
  BY PrecedenceAssumption
<1>2. \A n \in DOMAIN Precedence : Precedence[n] \in Source
  BY DEF Source
<1>. QED  BY <1>1, <1>2 DEF IsBook, EnabledSources, Row

\* Some enabled sources have one that precedes the others.
LEMMA LeastIsFirst ==
  ASSUME NEW stored, IsBook(stored), NEW on, NEW S \in SUBSET EnabledSources(on), S # {}
  PROVE  Least(S) \in S
<1>1. \E n \in S : \A m \in S : n <= m
  BY SourcePlaces, SmallestOf
<1>. QED  BY <1>1 DEF Least

\* The newest row of one source.
LEMMA NewestOfSource ==
  ASSUME NEW stored, IsBook(stored), NEW on, NEW n \in EnabledSources(on), NEW d \in Int
  PROVE  LET found == FromSource(LatestOnOrBefore(Row(stored, n), d), Precedence[n]) IN
         IF n \in HavingUpTo(stored, on, d)
         THEN \E e \in Day :
                 /\ e <= d /\ Row(stored, n)[e] # None
                 /\ \A f \in Day : f <= d /\ Row(stored, n)[f] # None => f <= e
                 /\ found = [date |-> e, close |-> Row(stored, n)[e], source |-> Precedence[n]]
                 /\ found # None
         ELSE found = None
<1> DEFINE days == {e \in StoredDays(Row(stored, n)) : e <= d}
           at == Latest(days)
           found == FromSource(LatestOnOrBefore(Row(stored, n), d), Precedence[n])
<1>1. days \in SUBSET Day /\ \A e \in Day : e \in days <=> e <= d /\ Row(stored, n)[e] # None
  BY DEF StoredDays
<1>2. n \in HavingUpTo(stored, on, d) <=> days # {}
  BY <1>1 DEF HavingUpTo
<1>3. CASE days = {}
  <2>1. LatestOnOrBefore(Row(stored, n), d) = None
    BY <1>3 DEF LatestOnOrBefore
  <2>. QED  BY <1>2, <1>3, <2>1 DEF FromSource
<1>4. CASE days # {}
  <2>1. at \in days /\ \A e \in days : e <= at
    <3>. HIDE DEF days
    <3>. QED  BY <1>1, <1>4, LatestIsLast
  <2>2. LatestOnOrBefore(Row(stored, n), d) = [date |-> at, close |-> Row(stored, n)[at]]
    BY <1>4 DEF LatestOnOrBefore
  <2>3. at \in Day /\ at <= d /\ Row(stored, n)[at] # None
    BY <1>1, <2>1
  <2>4. Row(stored, n)[at] \in Exact /\ Precedence[n] \in Source
    BY <2>3, SourcePlaces
  <2>. HIDE DEF days, at
  <2>5. /\ [date |-> at, close |-> Row(stored, n)[at]] \in [date : Day, close : Exact]
        /\ [date |-> at, close |-> Row(stored, n)[at], source |-> Precedence[n]]
              \in [date : Day, close : Exact, source : Source]
    BY <2>3, <2>4
  <2>6. /\ [date |-> at, close |-> Row(stored, n)[at]] # None
        /\ [date |-> at, close |-> Row(stored, n)[at], source |-> Precedence[n]] # None
    BY <2>5, PriceAssumption
  <2>7. found = [date |-> at, close |-> Row(stored, n)[at], source |-> Precedence[n]]
    BY <2>2, <2>6 DEF FromSource
  <2>8. \A f \in Day : f <= d /\ Row(stored, n)[f] # None => f <= at
    BY <1>1, <2>1
  <2>. QED  BY <1>2, <1>4, <2>3, <2>6, <2>7, <2>8
<1>. QED  BY <1>3, <1>4

\* What the first source that has a day says of it, and the days that some has.
PriceOn(stored, on, d) == [date   |-> d,
               close  |-> stored[Precedence[Least(Having(stored, on, d))]][d],
               source |-> Precedence[Least(Having(stored, on, d))]]
DaysUpTo(stored, on, d) == {e \in Day : e <= d /\ Having(stored, on, e) # {}}

\* A series is the days within it that some enabled source has.
LEMMA SeriesByDay ==
  ASSUME NEW stored, NEW on, NEW from \in Int, NEW to \in Int
  PROVE  LET series == EffectiveSeries(stored, on, from, to) IN
         /\ DOMAIN series = {d \in Day : from <= d /\ d <= to /\ Having(stored, on, d) # {}}
         /\ \A d \in DOMAIN series : series[d] = PriceOn(stored, on, d)
<1>1. EffectiveSeries(stored, on, from, to)
         = [d \in {e \in Day : from <= e /\ e <= to /\ Having(stored, on, e) # {}} |-> PriceOn(stored, on, d)]
  BY DEF EffectiveSeries, Having, Row, PriceOn, Least
<1>. QED  BY <1>1

\* The latest price is the price of the latest day that some source has.
LEMMA LatestByDay ==
  ASSUME NEW stored, IsBook(stored), NEW on, NEW d \in Int
  PROVE  EffectiveLatest(stored, on, d)
            = IF DaysUpTo(stored, on, d) = {} THEN None ELSE PriceOn(stored, on, Latest(DaysUpTo(stored, on, d)))
<1> DEFINE some == EnabledSources(on)
           cand(n) == FromSource(LatestOnOrBefore(Row(stored, n), d), Precedence[n])
           c == [n \in some |-> cand(n)]
           found == {n \in DOMAIN c : c[n] # None}
           newest == {n \in found : \A m \in found : c[m].date <= c[n].date}
           D == Latest(DaysUpTo(stored, on, d))
<1>1. EffectiveLatest(stored, on, d)
         = IF found = {} THEN None ELSE c[CHOOSE n \in newest : \A m \in newest : n <= m]
  BY DEF EffectiveLatest, PickLatest, Row
<1>2. DOMAIN c = some /\ \A n \in some : c[n] = cand(n)
  OBVIOUS
<1>3. \A n \in some : n \notin HavingUpTo(stored, on, d) => c[n] = None
  BY <1>2, NewestOfSource
<1>4. \A n \in HavingUpTo(stored, on, d) :
        /\ n \in some /\ c[n] # None
        /\ \E e \in DaysUpTo(stored, on, d) :
              /\ n \in Having(stored, on, e)
              /\ \A f \in Day : f <= d /\ n \in Having(stored, on, f) => f <= e
              /\ c[n] = [date |-> e, close |-> Row(stored, n)[e], source |-> Precedence[n]]
              /\ c[n].date = e
  <2>. SUFFICES ASSUME NEW n \in HavingUpTo(stored, on, d)
                PROVE  /\ n \in some /\ c[n] # None
                       /\ \E e \in DaysUpTo(stored, on, d) :
                            /\ n \in Having(stored, on, e)
                            /\ \A f \in Day : f <= d /\ n \in Having(stored, on, f) => f <= e
                            /\ c[n] = [date |-> e, close |-> Row(stored, n)[e],
                                       source |-> Precedence[n]]
                            /\ c[n].date = e
    OBVIOUS
  <2>1. n \in some
    BY DEF HavingUpTo
  <2>2. PICK e \in Day : /\ e <= d /\ Row(stored, n)[e] # None
                         /\ \A f \in Day : f <= d /\ Row(stored, n)[f] # None => f <= e
                         /\ cand(n) = [date |-> e, close |-> Row(stored, n)[e],
                                       source |-> Precedence[n]]
                         /\ cand(n) # None
    BY <2>1, NewestOfSource
  <2>3. n \in Having(stored, on, e) /\ e \in DaysUpTo(stored, on, d)
    BY <2>1, <2>2 DEF Having, DaysUpTo
  <2>4. \A f \in Day : f <= d /\ n \in Having(stored, on, f) => f <= e
    BY <2>2 DEF Having
  <2>5. c[n] = [date |-> e, close |-> Row(stored, n)[e], source |-> Precedence[n]] /\ c[n] # None
    BY <1>2, <2>1, <2>2
  <2>. HIDE DEF c
  <2>6. c[n].date = e
    BY <2>5
  <2>. QED  BY <2>1, <2>3, <2>4, <2>5, <2>6
<1>5. \A e \in DaysUpTo(stored, on, d) : \A n \in Having(stored, on, e) : n \in HavingUpTo(stored, on, d)
  BY DEF DaysUpTo, Having, HavingUpTo
<1>6. found = HavingUpTo(stored, on, d)
  <2>1. HavingUpTo(stored, on, d) \subseteq some
    BY DEF HavingUpTo
  <2>. HIDE DEF c
  <2>. QED  BY <1>2, <1>3, <1>4, <2>1
<1>7. found = {} <=> DaysUpTo(stored, on, d) = {}
  <2>1. \A e \in DaysUpTo(stored, on, d) : Having(stored, on, e) # {}
    BY DEF DaysUpTo
  <2>. HIDE DEF c, found
  <2>. QED  BY <1>4, <1>5, <1>6, <2>1
<1>8. CASE DaysUpTo(stored, on, d) # {}
  <2>1. DaysUpTo(stored, on, d) \in SUBSET Day
    BY DEF DaysUpTo
  <2>2. D \in DaysUpTo(stored, on, d) /\ \A e \in DaysUpTo(stored, on, d) : e <= D
    BY <1>8, <2>1, LatestIsLast
  <2>3. D \in Day /\ D <= d /\ Having(stored, on, D) # {}
    BY <2>2 DEF DaysUpTo
  <2>4. \A n \in Day : n \in Nat
    BY Days
  <2>. HIDE DEF c, found, D
  <2>5. \A n \in found : c[n].date \in DaysUpTo(stored, on, d) /\ n \in Having(stored, on, c[n].date)
    BY <1>4, <1>6
  <2>6. \A n \in Having(stored, on, D) :
           /\ n \in found
           /\ c[n] = [date |-> D, close |-> Row(stored, n)[D], source |-> Precedence[n]]
           /\ c[n].date = D
    <3>. SUFFICES ASSUME NEW n \in Having(stored, on, D)
                  PROVE  /\ n \in found
                         /\ c[n] = [date |-> D, close |-> Row(stored, n)[D],
                                    source |-> Precedence[n]]
                         /\ c[n].date = D
      OBVIOUS
    <3>1. n \in HavingUpTo(stored, on, d)
      BY <1>5, <2>2
    <3>2. PICK e \in DaysUpTo(stored, on, d) :
              /\ \A f \in Day : f <= d /\ n \in Having(stored, on, f) => f <= e
              /\ c[n] = [date |-> e, close |-> Row(stored, n)[e], source |-> Precedence[n]]
              /\ c[n].date = e
      BY <1>4, <3>1
    <3>3. D <= e /\ e <= D /\ e \in Day
      BY <2>1, <2>2, <2>3, <3>2
    <3>4. e = D
      BY <2>3, <2>4, <3>3
    <3>. QED  BY <1>6, <3>1, <3>2, <3>4
  <2>7. \A n \in Having(stored, on, D) : n \in newest
    <3>. SUFFICES ASSUME NEW n \in Having(stored, on, D)
                  PROVE  n \in newest
      OBVIOUS
    <3>1. n \in found /\ c[n].date = D
      BY <2>6
    <3>2. \A m \in found : c[m].date <= c[n].date
      BY <2>2, <2>5, <3>1
    <3>. QED  BY <3>1, <3>2
  <2>8. \A n \in newest : n \in Having(stored, on, D)
    <3>. SUFFICES ASSUME NEW n \in found, \A m \in found : c[m].date <= c[n].date
                  PROVE  n \in Having(stored, on, D)
      OBVIOUS
    <3>1. PICK k \in Having(stored, on, D) : TRUE
      BY <2>3
    <3>2. k \in found /\ c[k].date = D
      BY <2>6
    <3>3. c[n].date \in Day /\ D <= c[n].date /\ c[n].date <= D
      BY <2>1, <2>2, <2>5, <3>2
    <3>4. c[n].date = D
      BY <2>3, <2>4, <3>3
    <3>. QED  BY <2>5, <3>4
  <2>9. newest = Having(stored, on, D)
    <3>. HIDE DEF newest
    <3>. QED  BY <2>7, <2>8
  <2>10. (CHOOSE n \in newest : \A m \in newest : n <= m) = Least(Having(stored, on, D))
    <3>. HIDE DEF newest
    <3>. QED  BY <2>9 DEF Least
  <2>11. Least(Having(stored, on, D)) \in Having(stored, on, D)
    <3>1. Having(stored, on, D) \in SUBSET EnabledSources(on)
      BY DEF Having
    <3>. QED  BY <2>3, <3>1, LeastIsFirst
  <2>12. c[Least(Having(stored, on, D))] = PriceOn(stored, on, D)
    BY <2>6, <2>11 DEF PriceOn, Row
  <2>13. found # {}
    BY <1>7, <1>8
  <2>. HIDE DEF newest
  <2>. QED  BY <1>1, <1>8, <2>10, <2>12, <2>13 DEF D
<1>. QED
  <2>. HIDE DEF c, found, newest, D
  <2>. QED  BY <1>1, <1>7, <1>8

-----------------------------------------------------------------------------
(* The lookups.                                                                *)

BookTypes == rows \in [Source -> [Day -> Closes \cup {None}]]

\* The stored book has its shape; the lookups of a book with that shape agree.
LEMMA LookupsOfABook == BookTypes => PriceLookupsAgree
<1> DEFINE series == EffectiveSeries(rows, enabled, 1, LastDay)
           upTo(d) == {e \in DOMAIN series : e <= d}
           found(days) == IF days = {} THEN None ELSE series[Latest(days)]
<1>. SUFFICES ASSUME BookTypes PROVE PriceLookupsAgree
  OBVIOUS
<1>. IsBook(rows)
  BY PriceAssumption DEF BookTypes, IsBook
<1>1. /\ \A d \in Day : d \in Nat /\ 1 <= d /\ d <= LastDay
      /\ LastDay \in Int
  BY Days
<1>2. /\ DOMAIN series = {e \in Day : Having(rows, enabled, e) # {}}
      /\ \A d \in DOMAIN series : series[d] = PriceOn(rows, enabled, d)
  <2>1. PICK first \in Int : first = 1
    OBVIOUS
  <2>2. series = EffectiveSeries(rows, enabled, first, LastDay)
    BY <2>1
  <2>. HIDE DEF series
  <2>0. LET chart == EffectiveSeries(rows, enabled, first, LastDay) IN
        /\ DOMAIN chart = {d \in Day : first <= d /\ d <= LastDay /\ Having(rows, enabled, d) # {}}
        /\ \A d \in DOMAIN chart : chart[d] = PriceOn(rows, enabled, d)
    BY <1>1, SeriesByDay
  <2>3. /\ DOMAIN series = {d \in Day : first <= d /\ d <= LastDay /\ Having(rows, enabled, d) # {}}
        /\ \A d \in DOMAIN series : series[d] = PriceOn(rows, enabled, d)
    BY <2>0, <2>2
  <2>. QED  BY <1>1, <2>1, <2>3
<1>. HIDE DEF series
<1>3. \A d : upTo(d) = DaysUpTo(rows, enabled, d)
  BY <1>2 DEF DaysUpTo
<1>. HIDE DEF upTo
<1>4. \A d \in Int : EffectiveLatest(rows, enabled, d) = found(upTo(d))
  <2>. SUFFICES ASSUME NEW d \in Int
                PROVE  EffectiveLatest(rows, enabled, d) = found(upTo(d))
    OBVIOUS
  <2>1. CASE DaysUpTo(rows, enabled, d) = {}
    BY <1>3, <2>1, LatestByDay
  <2>2. CASE DaysUpTo(rows, enabled, d) # {}
    <3>1. DaysUpTo(rows, enabled, d) \in SUBSET Day
      BY DEF DaysUpTo
    <3>2. Latest(DaysUpTo(rows, enabled, d)) \in DaysUpTo(rows, enabled, d)
      BY <2>2, <3>1, LatestIsLast
    <3>3. Latest(DaysUpTo(rows, enabled, d)) \in DOMAIN series
      BY <1>2, <3>2 DEF DaysUpTo
    <3>. QED  BY <1>2, <1>3, <2>2, <3>3, LatestByDay
  <2>. QED  BY <2>1, <2>2
<1>5. \A d \in Day : EffectivePrevious(rows, enabled, d) = found(upTo(d - 1))
  <2>. SUFFICES ASSUME NEW d \in Day
                PROVE  EffectivePrevious(rows, enabled, d) = found(upTo(d - 1))
    OBVIOUS
  <2>1. d - 1 \in Int
    BY <1>1
  <2>2. EffectivePrevious(rows, enabled, d) = EffectiveLatest(rows, enabled, d - 1)
    BY DEF EffectivePrevious, EffectiveLatest, PreviousBefore
  <2>. QED  BY <1>4, <2>1, <2>2
<1>6. \A d \in Day : d \in DOMAIN series => series[d].source \in enabled
  <2>. SUFFICES ASSUME NEW d \in Day, d \in DOMAIN series
                PROVE  series[d].source \in enabled
    OBVIOUS
  <2>1. Having(rows, enabled, d) # {} /\ Having(rows, enabled, d) \in SUBSET EnabledSources(enabled)
    BY <1>2 DEF Having
  <2>2. Least(Having(rows, enabled, d)) \in EnabledSources(enabled)
    BY <2>1, LeastIsFirst
  <2>3. PriceOn(rows, enabled, d).source = Precedence[Least(Having(rows, enabled, d))]
    BY DEF PriceOn
  <2>. QED  BY <1>2, <2>2, <2>3, SourcePlaces
<1>7. \A from, to \in Day : \A d \in DOMAIN EffectiveSeries(rows, enabled, from, to) :
         EffectiveSeries(rows, enabled, from, to)[d] = series[d]
  <2>. SUFFICES ASSUME NEW from \in Day, NEW to \in Day,
                       NEW d \in DOMAIN EffectiveSeries(rows, enabled, from, to)
                PROVE  EffectiveSeries(rows, enabled, from, to)[d] = series[d]
    OBVIOUS
  <2> DEFINE chart == EffectiveSeries(rows, enabled, from, to)
  <2>. from \in Int /\ to \in Int
    BY <1>1
  <2>1. /\ DOMAIN chart = {e \in Day : from <= e /\ e <= to /\ Having(rows, enabled, e) # {}}
        /\ \A e \in DOMAIN chart : chart[e] = PriceOn(rows, enabled, e)
    BY SeriesByDay
  <2>2. d \in DOMAIN chart
    OBVIOUS
  <2>. HIDE DEF chart
  <2>3. d \in DOMAIN series /\ chart[d] = series[d]
    BY <1>2, <2>1, <2>2
  <2>. QED  BY <2>3 DEF chart
<1>8. \A d \in Day : d \in Int
  BY <1>1
<1>. QED  BY <1>4, <1>5, <1>6, <1>7, <1>8 DEF PriceLookupsAgree, series, upTo

\* What the latest price, the price before it and every chart say of a day is the
\* same in every book that can be stored, whatever its days, closes and sources
\* (effective_prices.rs).
THEOREM LookupsAgree == ReportSpec => []PriceLookupsAgree
<1>1. ReportInit => BookTypes
  BY DEF ReportInit, BookTypes
<1>2. BookTypes /\ [ReportNext]_reportVars => BookTypes'
  BY DEF BookTypes, ReportNext, Record, reportVars, book
<1>. QED  BY <1>1, <1>2, LookupsOfABook, PTL DEF ReportSpec

-----------------------------------------------------------------------------
(* Positions and gains, trade by trade.  Both are recursive functions over the *)
(* places of a ledger.  That there is such a function, and that two ledgers    *)
(* that begin alike have positions that do, is shown by taking the first place *)
(* without it.                                                                 *)

\* What is true of 0, and of a place when of the one before, is true of all.
LEMMA EveryPlace ==
  ASSUME NEW T \in SUBSET Nat, 0 \notin T, \A n \in T : n - 1 \in T
  PROVE  T = {}
<1>. SUFFICES ASSUME T # {} PROVE FALSE
  OBVIOUS
<1>1. PICK n \in T : \A m \in T : n <= m
  BY SmallestOf
<1>2. n - 1 \in T /\ n \in Nat
  BY <1>1
<1>. QED  BY <1>1, <1>2

PositionsUpTo(trades, n, at) ==
    at = [m \in 0..n |-> IF m = 0 THEN EmptyPosition ELSE ApplyTrade(at[m - 1], trades[m])]

\* The positions after the trades up to any place exist.
LEMMA PositionsExist ==
  ASSUME NEW trades, NEW n \in Nat
  PROVE  \E at : PositionsUpTo(trades, n, at)
<1> DEFINE Bad == {m \in Nat : ~\E at : PositionsUpTo(trades, m, at)}
<1>1. 0 \notin Bad
  <2> DEFINE none == [m \in 0..0 |-> EmptyPosition]
  <2>1. none = [m \in 0..0 |-> IF m = 0 THEN EmptyPosition
                               ELSE ApplyTrade(none[m - 1], trades[m])]
    OBVIOUS
  <2>. HIDE DEF none
  <2>2. PositionsUpTo(trades, 0, none)
    BY <2>1 DEF PositionsUpTo
  <2>. QED  BY <2>2
<1>2. ASSUME NEW k \in Bad, k - 1 \notin Bad
      PROVE  FALSE
  <2>1. k \in Nat /\ k # 0 /\ k - 1 \in Nat
    BY <1>1
  <2>2. PICK was : PositionsUpTo(trades, k - 1, was)
    BY <1>2, <2>1
  <2> DEFINE at == [m \in 0..k |-> IF m = k THEN ApplyTrade(was[k - 1], trades[k])
                                   ELSE was[m]]
  <2>3. was = [m \in 0..(k - 1) |-> IF m = 0 THEN EmptyPosition
                                    ELSE ApplyTrade(was[m - 1], trades[m])]
    BY <2>2 DEF PositionsUpTo
  <2>4. \A m \in 0..k : at[m] = IF m = 0 THEN EmptyPosition
                                ELSE ApplyTrade(at[m - 1], trades[m])
    <3>. SUFFICES ASSUME NEW m \in 0..k
                  PROVE  at[m] = IF m = 0 THEN EmptyPosition
                                 ELSE ApplyTrade(at[m - 1], trades[m])
      OBVIOUS
    <3>1. CASE m = k
      <4>1. m # 0 /\ at[m - 1] = was[k - 1] /\ at[m] = ApplyTrade(was[k - 1], trades[k])
        BY <2>1, <3>1
      <4>. QED  BY <3>1, <4>1
    <3>2. CASE m # k /\ m # 0
      <4>1. /\ m \in 0..(k - 1) /\ m - 1 \in 0..k /\ m - 1 # k
        BY <2>1, <3>2
      <4>2. at[m] = was[m] /\ at[m - 1] = was[m - 1]
        BY <3>2, <4>1
      <4>3. was[m] = ApplyTrade(was[m - 1], trades[m])
        BY <2>3, <3>2, <4>1
      <4>. QED  BY <3>2, <4>2, <4>3
    <3>3. CASE m = 0
      <4>1. m # k /\ m \in 0..(k - 1)
        BY <2>1, <3>3
      <4>2. was[m] = EmptyPosition
        BY <2>3, <3>3, <4>1
      <4>. QED  BY <3>3, <4>1, <4>2
    <3>. QED  BY <3>1, <3>2, <3>3
  <2>5. at = [m \in 0..k |-> at[m]]
    OBVIOUS
  <2>. HIDE DEF at
  <2>6. at = [m \in 0..k |-> IF m = 0 THEN EmptyPosition
                             ELSE ApplyTrade(at[m - 1], trades[m])]
    BY <2>4, <2>5
  <2>7. PositionsUpTo(trades, k, at)
    BY <2>6 DEF PositionsUpTo
  <2>. QED  BY <2>7
<1>3. Bad \in SUBSET Nat
  OBVIOUS
<1>. HIDE DEF Bad
<1>4. Bad = {}
  BY <1>1, <1>2, <1>3, EveryPlace
<1>. QED  BY <1>4 DEF Bad

\* So the positions of a ledger are as defined: empty, then trade by trade.
LEMMA PositionsFold ==
  ASSUME NEW trades, Len(trades) \in Nat
  PROVE  /\ PositionsAfter(trades)[0] = EmptyPosition
         /\ \A m \in 1..Len(trades) :
               PositionsAfter(trades)[m]
                  = ApplyTrade(PositionsAfter(trades)[m - 1], trades[m])
<1> DEFINE all == PositionsAfter(trades)
<1>1. PICK n \in Nat : n = Len(trades)
  OBVIOUS
<1>2. all = CHOOSE at : PositionsUpTo(trades, n, at)
  BY <1>1 DEF PositionsAfter, PositionsUpTo
<1>3. \E at : PositionsUpTo(trades, n, at)
  BY PositionsExist
<1>. HIDE DEF all
<1>4. PositionsUpTo(trades, n, all)
  BY <1>2, <1>3
<1>5. \A m \in 0..n : all[m] = IF m = 0 THEN EmptyPosition
                               ELSE ApplyTrade(all[m - 1], trades[m])
  BY <1>4 DEF PositionsUpTo
<1>6. all[0] = EmptyPosition
  BY <1>5
<1>7. \A m \in 1..n : all[m] = ApplyTrade(all[m - 1], trades[m])
  BY <1>5
<1>. QED  BY <1>1, <1>6, <1>7 DEF all

\* A ledger that begins like another begins with the same positions.
LEMMA SamePositions ==
  ASSUME NEW trades, NEW others, Len(trades) \in Nat, Len(others) \in Nat,
         Len(trades) <= Len(others), \A m \in 1..Len(trades) : trades[m] = others[m]
  PROVE  \A m \in 0..Len(trades) : PositionsAfter(others)[m] = PositionsAfter(trades)[m]
<1> DEFINE these == PositionsAfter(trades)
           those == PositionsAfter(others)
<1>1. PICK n \in Nat : n = Len(trades)
  OBVIOUS
<1>2. /\ these[0] = EmptyPosition /\ those[0] = EmptyPosition
      /\ \A m \in 1..n : /\ these[m] = ApplyTrade(these[m - 1], trades[m])
                         /\ those[m] = ApplyTrade(those[m - 1], trades[m])
  <2>1. \A m \in 1..n : m \in 1..Len(trades) /\ m \in 1..Len(others)
    BY <1>1
  <2>. HIDE DEF these, those
  <2>2. /\ these[0] = EmptyPosition
        /\ \A m \in 1..Len(trades) : these[m] = ApplyTrade(these[m - 1], trades[m])
    BY PositionsFold DEF these
  <2>3. /\ those[0] = EmptyPosition
        /\ \A m \in 1..Len(others) : those[m] = ApplyTrade(those[m - 1], others[m])
    BY PositionsFold DEF those
  <2>. QED  BY <2>1, <2>2, <2>3
<1> DEFINE Bad == {m \in 0..n : those[m] # these[m]}
<1>. HIDE DEF these, those
<1>3. Bad \in SUBSET Nat /\ 0 \notin Bad
  BY <1>2
<1>4. ASSUME NEW m \in Bad, m - 1 \notin Bad
      PROVE  FALSE
  <2>1. m \in 1..n /\ m - 1 \in 0..n
    BY <1>2, <1>4
  <2>2. those[m - 1] = these[m - 1]
    BY <1>4, <2>1
  <2>. QED  BY <1>2, <1>4, <2>1, <2>2
<1>. HIDE DEF Bad
<1>5. Bad = {}
  BY <1>3, <1>4, EveryPlace
<1>. QED  BY <1>1, <1>5 DEF Bad, these, those

\* The realized gains after one more trade.
NextGains(r, p, t) == IF t.kind = "Sell" THEN AccumulateRealizedGain(r, p, t) ELSE r

RealizedUpTo(trades, before, n, at) ==
    at = [m \in 0..n |-> IF m = 0 THEN NothingRealized
                         ELSE NextGains(at[m - 1], before[m - 1], trades[m])]

\* The gains of the trades up to any place exist.
LEMMA GainsExist ==
  ASSUME NEW trades, NEW before, NEW n \in Nat
  PROVE  \E at : RealizedUpTo(trades, before, n, at)
<1> DEFINE Bad == {m \in Nat : ~\E at : RealizedUpTo(trades, before, m, at)}
<1>1. 0 \notin Bad
  <2> DEFINE none == [m \in 0..0 |-> NothingRealized]
  <2>1. none = [m \in 0..0 |-> IF m = 0 THEN NothingRealized
                               ELSE NextGains(none[m - 1], before[m - 1], trades[m])]
    OBVIOUS
  <2>. HIDE DEF none
  <2>2. RealizedUpTo(trades, before, 0, none)
    BY <2>1 DEF RealizedUpTo
  <2>. QED  BY <2>2
<1>2. ASSUME NEW k \in Bad, k - 1 \notin Bad
      PROVE  FALSE
  <2>1. k \in Nat /\ k # 0 /\ k - 1 \in Nat
    BY <1>1
  <2>2. PICK was : RealizedUpTo(trades, before, k - 1, was)
    BY <1>2, <2>1
  <2> DEFINE at == [m \in 0..k |-> IF m = k THEN NextGains(was[k - 1], before[k - 1], trades[k])
                                   ELSE was[m]]
  <2>3. was = [m \in 0..(k - 1) |-> IF m = 0 THEN NothingRealized
                                    ELSE NextGains(was[m - 1], before[m - 1], trades[m])]
    BY <2>2 DEF RealizedUpTo
  <2>4. \A m \in 0..k : at[m] = IF m = 0 THEN NothingRealized
                                ELSE NextGains(at[m - 1], before[m - 1], trades[m])
    <3>. SUFFICES ASSUME NEW m \in 0..k
                  PROVE  at[m] = IF m = 0 THEN NothingRealized
                                 ELSE NextGains(at[m - 1], before[m - 1], trades[m])
      OBVIOUS
    <3>1. CASE m = k
      <4>1. /\ m # 0 /\ at[m - 1] = was[k - 1]
            /\ at[m] = NextGains(was[k - 1], before[k - 1], trades[k])
        BY <2>1, <3>1
      <4>. QED  BY <3>1, <4>1
    <3>2. CASE m # k /\ m # 0
      <4>1. /\ m \in 0..(k - 1) /\ m - 1 \in 0..k /\ m - 1 # k
        BY <2>1, <3>2
      <4>2. at[m] = was[m] /\ at[m - 1] = was[m - 1]
        BY <3>2, <4>1
      <4>3. was[m] = NextGains(was[m - 1], before[m - 1], trades[m])
        BY <2>3, <3>2, <4>1
      <4>. QED  BY <3>2, <4>2, <4>3
    <3>3. CASE m = 0
      <4>1. m # k /\ m \in 0..(k - 1)
        BY <2>1, <3>3
      <4>2. was[m] = NothingRealized
        BY <2>3, <3>3, <4>1
      <4>. QED  BY <3>3, <4>1, <4>2
    <3>. QED  BY <3>1, <3>2, <3>3
  <2>5. at = [m \in 0..k |-> at[m]]
    OBVIOUS
  <2>. HIDE DEF at
  <2>6. at = [m \in 0..k |-> IF m = 0 THEN NothingRealized
                             ELSE NextGains(at[m - 1], before[m - 1], trades[m])]
    BY <2>4, <2>5
  <2>7. RealizedUpTo(trades, before, k, at)
    BY <2>6 DEF RealizedUpTo
  <2>. QED  BY <2>7
<1>3. Bad \in SUBSET Nat
  OBVIOUS
<1>. HIDE DEF Bad
<1>4. Bad = {}
  BY <1>1, <1>2, <1>3, EveryPlace
<1>. QED  BY <1>4 DEF Bad

\* RealizedUpTo as RealizedAfter writes it.
GainsBy(trades, before, n, at) ==
    at = [m \in 0..n |->
            CASE m = 0 -> NothingRealized
              [] m > 0 /\ trades[m].kind = "Sell" ->
                     AccumulateRealizedGain(at[m - 1], before[m - 1], trades[m])
              [] OTHER -> at[m - 1]]

\* So the gains of a ledger are as defined: nothing, then sale by sale.
LEMMA GainsFold ==
  ASSUME NEW trades, Len(trades) \in Nat
  PROVE  /\ RealizedAfter(trades)[0] = NothingRealized
         /\ \A m \in 1..Len(trades) :
               RealizedAfter(trades)[m]
                  = NextGains(RealizedAfter(trades)[m - 1], PositionsAfter(trades)[m - 1],
                              trades[m])
<1> DEFINE all == RealizedAfter(trades)
           before == PositionsAfter(trades)
<1>1. PICK n \in Nat : n = Len(trades)
  OBVIOUS
<1>2. all = CHOOSE at : GainsBy(trades, before, n, at)
  BY <1>1 DEF RealizedAfter, GainsBy
<1>. HIDE DEF all, before
<1>3. PICK at : RealizedUpTo(trades, before, n, at)
  BY GainsExist
<1>4. \A m \in 0..n : at[m] = IF m = 0 THEN NothingRealized
                              ELSE NextGains(at[m - 1], before[m - 1], trades[m])
  BY <1>3 DEF RealizedUpTo
<1>5. GainsBy(trades, before, n, at)
  <2>1. \A m \in 0..n : m # 0 <=> m > 0
    OBVIOUS
  <2>2. at = [m \in 0..n |-> at[m]]
    BY <1>3 DEF RealizedUpTo
  <2>. QED  BY <1>4, <2>1, <2>2 DEF NextGains, GainsBy
<1>6. GainsBy(trades, before, n, all)
  BY <1>2, <1>5
<1>7. all[0] = NothingRealized
  BY <1>6 DEF GainsBy
<1>8. \A m \in 1..n : all[m] = NextGains(all[m - 1], before[m - 1], trades[m])
  <2>1. \A m \in 1..n : m \in 0..n /\ m # 0 /\ m > 0
    OBVIOUS
  <2>. QED  BY <1>6, <2>1 DEF NextGains, GainsBy
<1>. QED  BY <1>1, <1>7, <1>8 DEF all, before

\* A ledger that begins like another begins with the same gains.
LEMMA SameGains ==
  ASSUME NEW trades, NEW others, Len(trades) \in Nat, Len(others) \in Nat,
         Len(trades) <= Len(others), \A m \in 1..Len(trades) : trades[m] = others[m]
  PROVE  \A m \in 0..Len(trades) : RealizedAfter(others)[m] = RealizedAfter(trades)[m]
<1> DEFINE these == RealizedAfter(trades)
           those == RealizedAfter(others)
           before == PositionsAfter(trades)
           after == PositionsAfter(others)
<1>1. PICK n \in Nat : n = Len(trades)
  OBVIOUS
<1>2. /\ these[0] = NothingRealized /\ those[0] = NothingRealized
      /\ \A m \in 1..n : /\ these[m] = NextGains(these[m - 1], before[m - 1], trades[m])
                         /\ those[m] = NextGains(those[m - 1], before[m - 1], trades[m])
  <2>1. \A m \in 1..n : /\ m \in 1..Len(trades) /\ m \in 1..Len(others)
                        /\ m - 1 \in 0..Len(trades)
    BY <1>1
  <2>. HIDE DEF these, those, before, after
  <2>2. /\ these[0] = NothingRealized
        /\ \A m \in 1..Len(trades) :
              these[m] = NextGains(these[m - 1], before[m - 1], trades[m])
    BY GainsFold DEF these, before
  <2>3. /\ those[0] = NothingRealized
        /\ \A m \in 1..Len(others) :
              those[m] = NextGains(those[m - 1], after[m - 1], others[m])
    BY GainsFold DEF those, after
  <2>4. \A m \in 0..Len(trades) : after[m] = before[m]
    BY SamePositions DEF before, after
  <2>. QED  BY <2>1, <2>2, <2>3, <2>4
<1> DEFINE Bad == {m \in 0..n : those[m] # these[m]}
<1>. HIDE DEF these, those, before, after
<1>3. Bad \in SUBSET Nat /\ 0 \notin Bad
  BY <1>2
<1>4. ASSUME NEW m \in Bad, m - 1 \notin Bad
      PROVE  FALSE
  <2>1. m \in 1..n /\ m - 1 \in 0..n
    BY <1>2, <1>4
  <2>2. those[m - 1] = these[m - 1]
    BY <1>4, <2>1
  <2>. QED  BY <1>2, <1>4, <2>1, <2>2
<1>. HIDE DEF Bad
<1>5. Bad = {}
  BY <1>3, <1>4, EveryPlace
<1>. QED  BY <1>1, <1>5 DEF Bad, these, those

-----------------------------------------------------------------------------
(* What is known.  One trade at a time, from the position and the gains before *)
(* it.                                                                         *)

Recorded == UNION {Bodies[i] : i \in Instrument}
Entry == {t \in [id : Nat, date : Day, kind : Kinds, quantity : Int,
                 price : {body.price : body \in Recorded},
                 fx : {body.fx : body \in Recorded},
                 brokerage : {body.brokerage : body \in Recorded}] :
            /\ t.kind = "Buy" => t.quantity > 0
            /\ t.kind = "Sell" => t.quantity < 0}

IsPosition(p) == /\ p = [quantity |-> p.quantity, native |-> p.native, base |-> p.base]
                 /\ p.quantity \in Nat

\* A trade that derives (LedgerWrites).
Fits(p, t) == /\ t.kind = "Sell" => -t.quantity <= p.quantity
              /\ t.kind = "Split" => p.quantity > 0 /\ p.quantity + t.quantity > 0

\* What a trade does to a position: to its shares, and to whether its cost is known.
LEMMA PositionStep ==
  ASSUME NEW p, IsPosition(p), NEW t \in Entry, Fits(p, t)
  PROVE  LET q == ApplyTrade(p, t) IN
         /\ IsPosition(q)
         /\ q.quantity = IF t.kind = "Dividend" THEN p.quantity ELSE p.quantity + t.quantity
         /\ t.kind = "Buy" => (q.base.known <=> p.base.known /\ t.fx # None)
         /\ t.kind = "Sell" => (q.base.known <=> q.quantity = 0 \/ p.base.known)
         /\ t.kind \in {"Split", "Dividend"} => q.base = p.base
<1>. t.kind \in Kinds /\ t.quantity \in Int /\ p.quantity \in Nat
  BY DEF Entry, IsPosition
<1>1. CASE t.kind = "Buy"
  <2>1. t.quantity > 0
    BY <1>1 DEF Entry
  <2> DEFINE q == ApplyBuy(p, t)
             cost == p.base.value.cost ++ (Gross(t) ** t.fx ++ t.brokerage)
             fee == p.base.value.fee ++ t.brokerage
  <2>. HIDE DEF cost, fee
  <2>2. q = [quantity |-> p.quantity + t.quantity, native |-> p.native ++ Gross(t),
             base |-> CASE t.fx = None -> Mark(p.base, {t.id})
                        [] t.fx # None /\ ~p.base.known -> p.base
                        [] OTHER -> Known([cost |-> cost, fee |-> fee])]
    BY DEF ApplyBuy, cost, fee
  <2>. HIDE DEF q
  <2>3. q.quantity = p.quantity + t.quantity /\ IsPosition(q)
    BY <2>1, <2>2 DEF IsPosition
  <2>4. q.base.known <=> p.base.known /\ t.fx # None
    BY <2>2 DEF Mark, Known, Unknown
  <2>5. ApplyTrade(p, t) = q
    BY <1>1 DEF ApplyTrade, q
  <2>. QED  BY <1>1, <2>3, <2>4, <2>5
<1>2. CASE t.kind = "Sell"
  <2>1. t.quantity < 0 /\ p.quantity + t.quantity \in Nat
    BY <1>2 DEF Entry, Fits
  <2> DEFINE q == ApplySell(p, t)
             cost == p.base.value.cost ** Kept(p, t)
             fee == p.base.value.fee ** Kept(p, t)
             native == p.native ** Kept(p, t)
  <2>. HIDE DEF cost, fee, native
  <2>2. q = IF p.quantity + t.quantity = 0 THEN EmptyPosition
            ELSE [quantity |-> p.quantity + t.quantity, native |-> native,
                  base |-> IF ~p.base.known THEN p.base
                           ELSE Known([cost |-> cost, fee |-> fee])]
    BY DEF ApplySell, cost, fee, native
  <2>. HIDE DEF q
  <2>3. q.quantity = p.quantity + t.quantity /\ IsPosition(q)
    BY <2>1, <2>2 DEF IsPosition, EmptyPosition
  <2>4. q.base.known <=> q.quantity = 0 \/ p.base.known
    BY <2>2, <2>3 DEF EmptyPosition, Known
  <2>5. ApplyTrade(p, t) = q
    BY <1>2 DEF ApplyTrade, q
  <2>. QED  BY <1>2, <2>3, <2>4, <2>5
<1>3. CASE t.kind = "Split"
  <2>1. p.quantity + t.quantity \in Nat
    BY <1>3 DEF Fits
  <2>2. ApplyTrade(p, t) = [quantity |-> p.quantity + t.quantity, native |-> p.native,
                            base |-> p.base]
    BY <1>3 DEF ApplyTrade, ApplySplit, IsPosition
  <2>. QED  BY <1>3, <2>1, <2>2 DEF IsPosition
<1>4. CASE t.kind = "Dividend"
  <2>1. ApplyTrade(p, t) = p
    BY <1>4 DEF ApplyTrade
  <2>. QED  BY <1>4, <2>1
<1>. QED  BY <1>1, <1>2, <1>3, <1>4 DEF Kinds

GainFigures == {"sold", "proceedsNative", "costNative", "brokerage", "proceeds", "cost",
                "price", "fx", "gain", "fee"}
IsGains(r) == DOMAIN r = GainFigures /\ r = [figure \in GainFigures |-> r[figure]]

\* The figures of the gains that need a cost.
CostsKnown(r, known) ==
    /\ r.cost.known <=> known
    /\ r.price.known <=> known
    /\ r.fx.known <=> known
    /\ r.gain.known <=> known
    /\ r.fee.known <=> known

\* What a sale does to whether its gains are known.
LEMMA GainStep ==
  ASSUME NEW r, IsGains(r), NEW p, NEW t, NEW known \in BOOLEAN, CostsKnown(r, known)
  PROVE  LET s == AccumulateRealizedGain(r, p, t) IN
         /\ IsGains(s)
         /\ s.proceeds.known <=> r.proceeds.known /\ t.fx # None
         /\ CostsKnown(s, known /\ t.fx # None /\ p.base.known)
<1> DEFINE proceedsNative == t.price ** Amount(-t.quantity)
           costNative == p.native ** Taken(p, t)
           proceeds == proceedsNative ** t.fx -- t.brokerage
           cost == p.base.value.cost ** Taken(p, t)
           fee == p.base.value.fee ** Taken(p, t)
           price == (proceedsNative -- costNative) ** t.fx -- fee -- t.brokerage
           rate == costNative ** t.fx -- (cost -- fee)
           gain == proceeds -- cost
           paid == fee ++ t.brokerage
           counted == [r EXCEPT !.sold = @ - t.quantity,
                                !.proceedsNative = @ ++ proceedsNative,
                                !.costNative = @ ++ costNative,
                                !.brokerage = @ ++ t.brokerage]
           s == AccumulateRealizedGain(r, p, t)
<1>1. /\ IsGains(counted)
      /\ counted.proceeds = r.proceeds /\ counted.cost = r.cost /\ counted.price = r.price
      /\ counted.fx = r.fx /\ counted.gain = r.gain /\ counted.fee = r.fee
  <2>. HIDE DEF proceedsNative, costNative
  <2>. QED  BY DEF IsGains, GainFigures
<1>2. s = IF t.fx = None
          THEN [Mismarked(counted, {t.id}) EXCEPT !.proceeds = Mark(@, {t.id})]
          ELSE LET added == [counted EXCEPT !.proceeds = Add(@, proceeds)]
               IN  IF ~p.base.known THEN Mismarked(added, p.base.why)
                   ELSE [added EXCEPT !.cost = Add(@, cost), !.price = Add(@, price),
                                     !.fx = Add(@, rate), !.gain = Add(@, gain),
                                     !.fee = Add(@, paid)]
  BY DEF AccumulateRealizedGain
<1>. HIDE DEF proceedsNative, costNative, proceeds, cost, fee, price, rate, gain, paid,
              counted, s
<1>3. CASE t.fx = None
  <2>1. /\ IsGains(s) /\ s.proceeds = Mark(r.proceeds, {t.id})
        /\ s.cost = Mark(r.cost, {t.id}) /\ s.price = Mark(r.price, {t.id})
        /\ s.fx = Mark(r.fx, {t.id}) /\ s.gain = Mark(r.gain, {t.id})
        /\ s.fee = Mark(r.fee, {t.id})
    BY <1>1, <1>2, <1>3 DEF Mismarked, IsGains, GainFigures
  <2>2. ~s.proceeds.known /\ CostsKnown(s, FALSE)
    BY <2>1 DEF CostsKnown, Mark, Unknown
  <2>. QED  BY <1>3, <2>1, <2>2 DEF s, CostsKnown
<1>4. CASE t.fx # None /\ ~p.base.known
  <2>1. /\ IsGains(s) /\ s.proceeds = Add(r.proceeds, proceeds)
        /\ s.cost = Mark(r.cost, p.base.why) /\ s.price = Mark(r.price, p.base.why)
        /\ s.fx = Mark(r.fx, p.base.why) /\ s.gain = Mark(r.gain, p.base.why)
        /\ s.fee = Mark(r.fee, p.base.why)
    BY <1>1, <1>2, <1>4 DEF Mismarked, IsGains, GainFigures
  <2>2. CostsKnown(s, FALSE)
    BY <2>1 DEF CostsKnown, Mark, Unknown
  <2>3. s.proceeds.known <=> r.proceeds.known
    BY <2>1 DEF Add, Known
  <2>. QED  BY <1>4, <2>1, <2>2, <2>3 DEF s, CostsKnown
<1>5. CASE t.fx # None /\ p.base.known
  <2>1. /\ IsGains(s) /\ s.proceeds = Add(r.proceeds, proceeds)
        /\ s.cost = Add(r.cost, cost) /\ s.price = Add(r.price, price)
        /\ s.fx = Add(r.fx, rate) /\ s.gain = Add(r.gain, gain) /\ s.fee = Add(r.fee, paid)
    BY <1>1, <1>2, <1>5 DEF IsGains, GainFigures
  <2>2. CostsKnown(s, known)
    BY <2>1 DEF CostsKnown, Add, Known
  <2>3. s.proceeds.known <=> r.proceeds.known
    BY <2>1 DEF Add, Known
  <2>. QED  BY <1>5, <2>1, <2>2, <2>3 DEF s, CostsKnown
<1>. QED  BY <1>3, <1>4, <1>5 DEF s

-----------------------------------------------------------------------------
(* The invariant: of each ledger, after its last trade.                        *)

Sales(trades) == {n \in DOMAIN trades : trades[n].kind = "Sell"}
SalesRated(trades) == \A n \in Sales(trades) : trades[n].fx # None
BoughtRated(trades) == \A n \in Sales(trades) : RatedBuys(trades, SinceFlat(trades, n))
BasisRated(trades) ==
    PositionOf(trades).quantity = 0 \/ RatedBuys(trades, SinceFlat(trades, Len(trades)))
Gains(trades) == RealizedAfter(trades)[Len(trades)]

KnownSoFar(trades) ==
    /\ IsPosition(PositionOf(trades)) /\ IsGains(Gains(trades))
    /\ PositionOf(trades).base.known <=> BasisRated(trades)
    /\ Gains(trades).proceeds.known <=> SalesRated(trades)
    /\ CostsKnown(Gains(trades), SalesRated(trades) /\ BoughtRated(trades))

BooksKnown == /\ ledger \in [Instrument -> Seq(Entry)]
              /\ \A i \in Instrument : KnownSoFar(ledger[i])

\* The trades since shares were last held by nobody, after one more trade.
LEMMA FlatStep ==
  ASSUME NEW l \in Seq(Entry), NEW t \in Entry
  PROVE  LET more == Append(l, t)
             n == Len(l) IN
         /\ \A m \in 1..n : SinceFlat(more, m) = SinceFlat(l, m)
         /\ SinceFlat(more, n + 1)
               = {n + 1} \cup {m \in SinceFlat(l, n) : PositionOf(l).quantity > 0}
         /\ PositionOf(more) = ApplyTrade(PositionOf(l), t)
         /\ Gains(more) = NextGains(Gains(l), PositionOf(l), t)
<1> DEFINE more == Append(l, t)
           n == Len(l)
           was == PositionsAfter(l)
           now == PositionsAfter(more)
<1>1. /\ n \in Nat /\ Len(more) = n + 1 /\ Len(more) \in Nat /\ more[n + 1] = t
      /\ \A m \in 1..n : l[m] = more[m]
  OBVIOUS
<1>. HIDE DEF more, n, was, now
<1>2. \A m \in 0..n : now[m] = was[m]
  BY <1>1, SamePositions DEF n, was, now
<1>3. \A m \in 0..n : RealizedAfter(more)[m] = RealizedAfter(l)[m]
  BY <1>1, SameGains DEF n
<1>4. n + 1 \in 1..Len(more) /\ (n + 1) - 1 = n /\ n \in 0..n
  BY <1>1
<1>5. now[n + 1] = ApplyTrade(now[(n + 1) - 1], more[n + 1])
  BY <1>1, <1>4, PositionsFold DEF now
<1>6. PositionOf(more) = ApplyTrade(PositionOf(l), t)
  BY <1>1, <1>2, <1>4, <1>5 DEF PositionOf, now, was, n
<1>7. RealizedAfter(more)[n + 1]
         = NextGains(RealizedAfter(more)[(n + 1) - 1], now[(n + 1) - 1], more[n + 1])
  BY <1>1, <1>4, GainsFold DEF now
<1>8. Gains(more) = NextGains(Gains(l), PositionOf(l), t)
  BY <1>1, <1>2, <1>3, <1>4, <1>7 DEF Gains, PositionOf, was, n
<1>9. ASSUME NEW m \in 1..n
      PROVE  SinceFlat(more, m) = SinceFlat(l, m)
  <2>1. \A k \in 1..m : \A j \in k..(m - 1) : now[j] = was[j]
    BY <1>1, <1>2
  <2>. QED  BY <2>1 DEF SinceFlat, now, was
<1>10. ASSUME NEW m \in 1..n
       PROVE  m \in SinceFlat(more, n + 1) <=> m \in SinceFlat(l, n) /\ was[n].quantity > 0
  <2>1. m..((n + 1) - 1) = (m..(n - 1)) \cup {n}
    BY <1>1
  <2>2. \A j \in m..n : now[j] = was[j]
    BY <1>1, <1>2
  <2>3. m \in 1..(n + 1)
    BY <1>1
  <2>4. m \in SinceFlat(more, n + 1)
          <=> \A k \in (m..(n - 1)) \cup {n} : now[k].quantity > 0
    BY <2>1, <2>3 DEF SinceFlat, now
  <2>5. m \in SinceFlat(l, n) <=> \A k \in m..(n - 1) : was[k].quantity > 0
    BY DEF SinceFlat, was
  <2>6. \A k \in (m..(n - 1)) \cup {n} : now[k] = was[k]
    BY <1>1, <2>2
  <2>. QED  BY <2>4, <2>5, <2>6
<1>11. n + 1 \in SinceFlat(more, n + 1)
  <2>1. (n + 1)..((n + 1) - 1) = {} /\ n + 1 \in 1..(n + 1)
    BY <1>1
  <2>. QED  BY <2>1 DEF SinceFlat
<1>12. /\ SinceFlat(more, n + 1) \subseteq (1..n) \cup {n + 1}
       /\ SinceFlat(l, n) \subseteq 1..n
       /\ n + 1 \notin 1..n
  BY <1>1 DEF SinceFlat
<1>13. PositionOf(l) = was[n]
  BY DEF PositionOf, was, n
<1>14. SinceFlat(more, n + 1)
          = {n + 1} \cup {m \in SinceFlat(l, n) : PositionOf(l).quantity > 0}
  BY <1>10, <1>11, <1>12, <1>13
<1>. QED  BY <1>6, <1>8, <1>9, <1>14 DEF more, n

\* One more trade that derives.
LEMMA KnownStep ==
  ASSUME NEW l \in Seq(Entry), NEW t \in Entry, KnownSoFar(l), Fits(PositionOf(l), t)
  PROVE  KnownSoFar(Append(l, t))
<1> DEFINE more == Append(l, t)
           n == Len(l)
           p == PositionOf(l)
           q == PositionOf(more)
           r == Gains(l)
           s == Gains(more)
<1>1. /\ n \in Nat /\ Len(more) = n + 1 /\ more[n + 1] = t
      /\ DOMAIN l = 1..n /\ DOMAIN more = 1..(n + 1)
      /\ \A m \in 1..n : l[m] = more[m]
  OBVIOUS
<1>2. /\ \A m \in 1..n : SinceFlat(more, m) = SinceFlat(l, m)
      /\ SinceFlat(more, n + 1) = {n + 1} \cup {m \in SinceFlat(l, n) : p.quantity > 0}
      /\ q = ApplyTrade(p, t) /\ s = NextGains(r, p, t)
  BY FlatStep
<1>3. /\ IsPosition(p) /\ IsGains(r)
      /\ p.base.known <=> BasisRated(l)
      /\ r.proceeds.known <=> SalesRated(l)
      /\ CostsKnown(r, SalesRated(l) /\ BoughtRated(l))
  BY DEF KnownSoFar
<1>4. p.quantity \in Nat /\ t.kind \in Kinds /\ t.quantity \in Int
  BY <1>3 DEF IsPosition, Entry
<1>. HIDE DEF more, n, p, q, r, s
<1>5. /\ IsPosition(q)
      /\ q.quantity = IF t.kind = "Dividend" THEN p.quantity ELSE p.quantity + t.quantity
      /\ t.kind = "Buy" => (q.base.known <=> p.base.known /\ t.fx # None)
      /\ t.kind = "Sell" => (q.base.known <=> q.quantity = 0 \/ p.base.known)
      /\ t.kind \in {"Split", "Dividend"} => q.base = p.base
  BY <1>2, <1>3, PositionStep DEF p
<1>6. \A S \in SUBSET (1..n) : RatedBuys(more, S) <=> RatedBuys(l, S)
  BY <1>1 DEF RatedBuys
<1>7. /\ SinceFlat(l, n) \in SUBSET (1..n)
      /\ \A m \in 1..n : SinceFlat(l, m) \in SUBSET (1..n)
  BY <1>1 DEF SinceFlat
<1>8. RatedBuys(more, SinceFlat(more, n + 1))
        <=> /\ t.kind = "Buy" => t.fx # None
            /\ p.quantity > 0 => RatedBuys(l, SinceFlat(l, n))
  <2>1. n + 1 \notin 1..n
    BY <1>1
  <2>2. RatedBuys(more, SinceFlat(more, n + 1))
          <=> /\ t.kind = "Buy" => t.fx # None
              /\ p.quantity > 0 => RatedBuys(more, SinceFlat(l, n))
    BY <1>1, <1>2 DEF RatedBuys
  <2>. QED  BY <1>6, <1>7, <2>2
<1>9. p.base.known <=> p.quantity = 0 \/ RatedBuys(l, SinceFlat(l, n))
  BY <1>3 DEF BasisRated, p, n
<1>10. q.base.known <=> q.quantity = 0 \/ RatedBuys(more, SinceFlat(more, n + 1))
  <2>1. CASE t.kind = "Buy"
    <3>1. q.quantity > 0
      BY <1>4, <1>5, <2>1 DEF Entry
    <3>. QED  BY <1>4, <1>5, <1>8, <1>9, <2>1, <3>1
  <2>2. CASE t.kind = "Sell"
    <3>1. p.quantity > 0
      BY <1>4, <2>2 DEF Entry, Fits, p
    <3>. QED  BY <1>5, <1>8, <1>9, <2>2, <3>1
  <2>3. CASE t.kind = "Split"
    <3>1. p.quantity > 0 /\ q.quantity > 0
      BY <1>4, <1>5, <2>3 DEF Fits, p
    <3>. QED  BY <1>5, <1>8, <1>9, <2>3, <3>1
  <2>4. CASE t.kind = "Dividend"
    <3>1. q.quantity = p.quantity /\ q.base = p.base
      BY <1>5, <2>4
    <3>. QED  BY <1>4, <1>8, <1>9, <2>4, <3>1
  <2>. QED  BY <1>4, <2>1, <2>2, <2>3, <2>4 DEF Kinds
<1>11. BasisRated(more) <=> q.quantity = 0 \/ RatedBuys(more, SinceFlat(more, n + 1))
  BY <1>1 DEF BasisRated, q
<1>12. Sales(more) = Sales(l) \cup {m \in {n + 1} : t.kind = "Sell"}
  BY <1>1 DEF Sales
<1>13. Sales(l) \in SUBSET (1..n)
  BY <1>1 DEF Sales
<1>14. SalesRated(more) <=> SalesRated(l) /\ (t.kind = "Sell" => t.fx # None)
  <2>1. \A m \in Sales(l) : more[m].fx = l[m].fx
    BY <1>1, <1>13
  <2>. QED  BY <1>1, <1>12, <2>1 DEF SalesRated
<1>15. BoughtRated(more)
         <=> BoughtRated(l) /\ (t.kind = "Sell" => RatedBuys(more, SinceFlat(more, n + 1)))
  <2>1. \A m \in Sales(l) :
           RatedBuys(more, SinceFlat(more, m)) <=> RatedBuys(l, SinceFlat(l, m))
    BY <1>2, <1>6, <1>7, <1>13
  <2>. QED  BY <1>12, <2>1 DEF BoughtRated
<1>16. CASE t.kind = "Sell"
  <2> DEFINE known == SalesRated(l) /\ BoughtRated(l)
  <2>1. p.quantity > 0
    BY <1>4, <1>16 DEF Entry, Fits, p
  <2>2. s = AccumulateRealizedGain(r, p, t)
    BY <1>2, <1>16 DEF NextGains
  <2>3. known \in BOOLEAN /\ CostsKnown(r, known) /\ IsGains(r)
    BY <1>3
  <2>4. SalesRated(more) /\ BoughtRated(more) <=> known /\ t.fx # None /\ p.base.known
    BY <1>8, <1>9, <1>14, <1>15, <1>16, <2>1
  <2>. HIDE DEF known
  <2>5. /\ IsGains(s)
        /\ s.proceeds.known <=> r.proceeds.known /\ t.fx # None
        /\ CostsKnown(s, known /\ t.fx # None /\ p.base.known)
    BY <2>2, <2>3, GainStep
  <2>6. s.proceeds.known <=> SalesRated(more)
    BY <1>3, <1>14, <1>16, <2>5
  <2>7. CostsKnown(s, SalesRated(more) /\ BoughtRated(more))
    BY <2>4, <2>5 DEF CostsKnown
  <2>. QED  BY <1>5, <1>10, <1>11, <2>5, <2>6, <2>7 DEF KnownSoFar, q, s, more
<1>17. CASE t.kind # "Sell"
  <2>1. s = r /\ (SalesRated(more) <=> SalesRated(l)) /\ (BoughtRated(more) <=> BoughtRated(l))
    BY <1>2, <1>14, <1>15, <1>17 DEF NextGains
  <2>2. CostsKnown(s, SalesRated(more) /\ BoughtRated(more))
    BY <1>3, <2>1 DEF CostsKnown
  <2>3. IsGains(s) /\ (s.proceeds.known <=> SalesRated(more))
    BY <1>3, <2>1
  <2>. QED  BY <1>5, <1>10, <1>11, <2>2, <2>3 DEF KnownSoFar, q, s, more
<1>. QED  BY <1>16, <1>17 DEF more

-----------------------------------------------------------------------------
(* The theorem.                                                                *)

\* When the gain of a holding is known.
LEMMA HeldGain ==
  ASSUME NEW p, NEW home \in BOOLEAN, NEW today, NEW latest, NEW previous,
         NEW latestRate, NEW previousRate
  PROVE  ValuePosition(p, home, today, latest, previous, latestRate, previousRate).gain.known
            <=> p.base.known /\ latest # None /\ (home \/ latestRate # None)
<1> DEFINE price == IF latest = None THEN Unknown({"missing_price"}) ELSE Known(latest)
           fx == FxSnapshot(home, today, latestRate, "missing_fx")
           native == Times(CloseOf(price), Known(Amount(p.quantity)))
           market == Times(native, RateOf(fx))
           cost == BasisPart(p.base, "cost")
           gain == Less(market, cost)
<1>1. ValuePosition(p, home, today, latest, previous, latestRate, previousRate).gain = gain
  BY DEF ValuePosition
<1>2. CloseOf(price).known <=> latest # None
  BY DEF CloseOf, Known, Unknown
<1>3. RateOf(fx).known <=> home \/ latestRate # None
  <2>1. fx.known <=> home \/ latestRate # None
    BY DEF FxSnapshot, Known, Unknown
  <2>. HIDE DEF fx
  <2>. QED  BY <2>1 DEF RateOf, Known
<1>4. cost.known <=> p.base.known
  BY DEF BasisPart, Known, Unknown
<1>. HIDE DEF price, fx, cost
<1>5. native.known <=> latest # None
  BY <1>2 DEF Times, Known, Unknown
<1>. HIDE DEF native
<1>6. market.known <=> latest # None /\ (home \/ latestRate # None)
  BY <1>3, <1>5 DEF Times, Known, Unknown
<1>. HIDE DEF market
<1>7. gain.known <=> market.known /\ cost.known
  BY DEF Less, Both, Known, Unknown
<1>. HIDE DEF gain
<1>. QED  BY <1>1, <1>4, <1>6, <1>7

\* Of empty ledgers everything is known.
LEMMA BooksKnownInit == ReportInit => BooksKnown
<1>. SUFFICES ASSUME ReportInit PROVE BooksKnown
  OBVIOUS
<1>1. ledger = [i \in Instrument |-> <<>>]
  BY DEF ReportInit
<1>2. Len(<<>>) = 0 /\ DOMAIN <<>> = {}
  OBVIOUS
<1>3. PositionOf(<<>>) = EmptyPosition
  BY <1>2, PositionsFold DEF PositionOf
<1>4. Gains(<<>>) = NothingRealized
  BY <1>2, GainsFold DEF Gains
<1>5. KnownSoFar(<<>>)
  <2>1. IsPosition(EmptyPosition) /\ EmptyPosition.quantity = 0 /\ EmptyPosition.base.known
    BY DEF IsPosition, EmptyPosition, Known
  <2>2. IsGains(NothingRealized)
    BY DEF IsGains, GainFigures, NothingRealized
  <2>3. NothingRealized.proceeds.known /\ CostsKnown(NothingRealized, TRUE)
    BY DEF NothingRealized, CostsKnown, Known
  <2>4. Sales(<<>>) = {}
    BY <1>2 DEF Sales
  <2>5. SalesRated(<<>>) /\ BoughtRated(<<>>) /\ BasisRated(<<>>)
    BY <1>3, <2>1, <2>4 DEF SalesRated, BoughtRated, BasisRated
  <2>. QED  BY <1>3, <1>4, <2>1, <2>2, <2>3, <2>5 DEF KnownSoFar, CostsKnown
<1>6. <<>> \in Seq(Entry)
  OBVIOUS
<1>. QED  BY <1>1, <1>5, <1>6 DEF BooksKnown

\* Every trade that is recorded derives and so keeps the invariant.
LEMMA BooksKnownNext == BooksKnown /\ [ReportNext]_reportVars => BooksKnown'
<1>. SUFFICES ASSUME BooksKnown, [ReportNext]_reportVars PROVE BooksKnown'
  OBVIOUS
<1>1. CASE ledger' = ledger
  BY <1>1 DEF BooksKnown
<1>2. ASSUME NEW i \in Instrument, NEW d \in Day, NEW body \in Bodies[i], Record(i, body, d)
      PROVE  BooksKnown'
  <2> DEFINE t == [id |-> Trades + 1, date |-> d, kind |-> body.kind,
                   quantity |-> body.quantity, price |-> body.price,
                   fx |-> body.fx, brokerage |-> body.brokerage]
  <2>1. ledger' = [ledger EXCEPT ![i] = Append(@, t)]
    BY <1>2 DEF Record
  <2>2. ledger[i] \in Seq(Entry) /\ KnownSoFar(ledger[i])
    BY DEF BooksKnown
  <2>3. t \in Entry
    <3>1. Home \in Instrument /\ Foreign \in Instrument
      BY DEF Instrument
    <3>2. Trades + 1 \in Nat
      <4>1. ledger[Home] \in Seq(Entry) /\ ledger[Foreign] \in Seq(Entry)
        BY <3>1 DEF BooksKnown
      <4>2. Len(ledger[Home]) \in Nat /\ Len(ledger[Foreign]) \in Nat
        BY <4>1
      <4>3. PICK h \in Nat, f \in Nat : h = Len(ledger[Home]) /\ f = Len(ledger[Foreign])
        BY <4>2
      <4>4. Trades = h + f
        BY <4>3 DEF Trades
      <4>. QED  BY <4>4
    <3>3. body \in Recorded
      BY DEF Recorded
    <3>4. /\ body.kind \in Kinds /\ body.quantity \in Int
          /\ body.kind = "Buy" => body.quantity > 0
          /\ body.kind = "Sell" => body.quantity < 0
      BY BodyAssumption DEF Instrument
    <3>. QED  BY <3>2, <3>3, <3>4 DEF Entry
  <2>4. Fits(PositionOf(ledger[i]), t)
    <3>1. Derives(i, body)
      BY <1>2 DEF Record
    <3>. QED  BY <3>1 DEF Derives, Fits
  <2>. HIDE DEF t
  <2>5. KnownSoFar(Append(ledger[i], t))
    BY <2>2, <2>3, <2>4, KnownStep
  <2>6. ledger' \in [Instrument -> Seq(Entry)]
    BY <2>1, <2>2, <2>3 DEF BooksKnown
  <2>7. \A j \in Instrument :
           ledger'[j] = IF j = i THEN Append(ledger[i], t) ELSE ledger[j]
    BY <2>1 DEF BooksKnown
  <2>8. \A j \in Instrument : KnownSoFar(ledger'[j])
    BY <2>5, <2>7 DEF BooksKnown
  <2>. QED  BY <2>6, <2>8 DEF BooksKnown
<1>. QED  BY <1>1, <1>2 DEF ReportNext, reportVars

\* What the invariant says of a ledger is what the figures say.
LEMMA FiguresFollow == BooksKnown => KnownFromKnown
<1>. SUFFICES ASSUME BooksKnown PROVE KnownFromKnown
  OBVIOUS
<1>. SUFFICES ASSUME NEW i \in Booked
     PROVE  LET trades == ledger[i]
                sales == {n \in DOMAIN trades : trades[n].kind = "Sell"}
                p == PositionPerformance(trades)
                basisRated == RatedBuys(trades, IF p.position.quantity = 0 THEN {}
                                                ELSE SinceFlat(trades, Len(trades)))
                salesRated == \A n \in sales : trades[n].fx # None
                boughtRated == \A n \in sales : RatedBuys(trades, SinceFlat(trades, n))
            IN  /\ p.position.base.known <=> basisRated
                /\ p.realized.proceeds.known <=> salesRated
                /\ \A part \in {"cost", "price", "fx", "gain", "fee"} :
                      p.realized[part].known <=> salesRated /\ boughtRated
                /\ HasValuation(i) =>
                      (Holding(i, LastDay).gain.known <=>
                          basisRated /\ PriceAt(i, LastDay) # None
                            /\ (IsHome(i) \/ RateAt(i, LastDay) # None))
  BY DEF KnownFromKnown
<1> DEFINE l == ledger[i]
           p == PositionPerformance(l)
           basisRated == RatedBuys(l, IF p.position.quantity = 0 THEN {}
                                      ELSE SinceFlat(l, Len(l)))
<1>1. KnownSoFar(l)
  BY DEF BooksKnown, Booked
<1>2. p.position = PositionOf(l) /\ p.realized = Gains(l)
  BY DEF PositionPerformance, Gains
<1>. HIDE DEF p
<1>3. basisRated <=> BasisRated(l)
  BY <1>2 DEF BasisRated, RatedBuys
<1>. HIDE DEF l
<1>4. p.position.base.known <=> basisRated
  BY <1>1, <1>2, <1>3 DEF KnownSoFar
<1>5. p.realized.proceeds.known <=> SalesRated(l)
  BY <1>1, <1>2 DEF KnownSoFar
<1>6. \A part \in {"cost", "price", "fx", "gain", "fee"} :
         p.realized[part].known <=> SalesRated(l) /\ BoughtRated(l)
  BY <1>1, <1>2 DEF KnownSoFar, CostsKnown
<1>7. Holding(i, LastDay).gain.known
         <=> /\ PositionOf(l).base.known /\ PriceAt(i, LastDay) # None
             /\ IsHome(i) \/ RateAt(i, LastDay) # None
  <2>1. IsHome(i) \in BOOLEAN
    BY DEF IsHome
  <2>. QED  BY <2>1, HeldGain DEF Holding, Valued, l
<1>. HIDE DEF basisRated
<1>. QED  BY <1>2, <1>4, <1>5, <1>6, <1>7 DEF SalesRated, BoughtRated, Sales, l, p, basisRated

\* For trades of any number, sizes and rates: a cost basis is known exactly when
\* every purchase since the position was last closed has a rate, and a realized gain
\* when moreover every sale has one and every purchase behind a sale (position.rs).
THEOREM KnownWhenRated == ReportSpec => []KnownFromKnown
BY BooksKnownInit, BooksKnownNext, FiguresFollow, PTL DEF ReportSpec

-----------------------------------------------------------------------------
(* The question a rung answers: its pool, its targets and their ranking.       *)

QuestionTypes ==
    /\ pool \in [Cand -> [level : Levels, price : Prices, held : 0..MaxHeld]]
    /\ offset \in Offsets /\ ~OffsetExceedsPool
    /\ rankBy \in {"sek", "percent"} /\ count \in Cand
    /\ delta = [i \in Cand |-> IdealDelta(i)]

\* The pool is finite, and not empty.
LEMMA CandIsFinite == IsFiniteSet(Cand) /\ Cardinality(Cand) = Size /\ Size \in Nat \ {0}
<1>1. PICK a \in Int, b \in Int : a = 1 /\ b = Size
  BY RungAssumption
<1>2. IsFiniteSet(a..b) /\ Cardinality(a..b) = IF a > b THEN 0 ELSE b - a + 1
  BY FS_Interval
<1>. QED  BY <1>1, <1>2, RungAssumption DEF Cand

\* Weights and prices are positive; nobody holds less than nothing.
LEMMA Members ==
  ASSUME QuestionTypes, NEW i \in Cand
  PROVE  /\ Weight(i) \in Nat \ {0}
         /\ pool[i].price \in Nat \ {0} /\ pool[i].held \in Nat
         /\ Value(i) \in Nat
<1>1. pool[i].level \in Levels /\ pool[i].price \in Prices /\ pool[i].held \in 0..MaxHeld
  BY DEF QuestionTypes
<1>2. pool[i].level \in {"LOW", "MEDIUM", "HIGH"}
  BY <1>1, RungAssumption
<1>3. Weight(i) \in {1, 2, 4}
  <2>1. PICK level : level = pool[i].level
    OBVIOUS
  <2>2. Weight(i) = LevelWeight[level]
    BY <2>1 DEF Weight
  <2>3. /\ LevelWeight["LOW"] = 1 /\ LevelWeight["MEDIUM"] = 2 /\ LevelWeight["HIGH"] = 4
    BY DEF LevelWeight
  <2>4. level = "LOW" \/ level = "MEDIUM" \/ level = "HIGH"
    BY <1>2, <2>1
  <2>. QED  BY <2>2, <2>3, <2>4
<1>4. pool[i].price \in Nat \ {0} /\ pool[i].held \in Nat
  <2>1. pool[i].price \in Nat \ {0}
    BY <1>1, RungAssumption
  <2>2. PICK h \in 0..MaxHeld : h = pool[i].held
    BY <1>1
  <2>3. h \in Nat
    BY RungAssumption
  <2>. QED  BY <2>1, <2>2, <2>3
<1>5. \A h, c \in Nat : h * c \in Nat
  OBVIOUS
<1>. QED  BY <1>3, <1>4, <1>5 DEF Value

\* Weights can be added, and some weight is a positive one.
LEMMA WeightsAdd ==
  ASSUME QuestionTypes, NEW S \in SUBSET Cand
  PROVE  /\ Adds([i \in Cand |-> Weight(i)], S)
         /\ WeightOf(S) \in Nat
         /\ S # {} => WeightOf(S) \in Nat \ {0}
<1> DEFINE w == [i \in Cand |-> Weight(i)]
<1>1. \A i \in S : w[i] = Weight(i) /\ w[i] \in Nat \ {0}
  BY Members
<1>2. IsFiniteSet(S)
  BY CandIsFinite, FS_Subset
<1>3. Adds(w, S) /\ \A i \in S : w[i] >= 0 /\ w[i] > 0
  <2>. HIDE DEF w
  <2>. QED  BY <1>1, <1>2 DEF Adds
<1>4. SumFunctionOnSet(w, S) \in Nat
  <2>. HIDE DEF w
  <2>. QED  BY <1>3, SumIsPositive
<1>5. S # {} => SumFunctionOnSet(w, S) > 0
  <2> SUFFICES ASSUME S # {}  PROVE SumFunctionOnSet(w, S) > 0
    OBVIOUS
  <2>1. \E i \in S : w[i] > 0
    <3>. HIDE DEF w
    <3>. QED  BY <1>3
  <2>. HIDE DEF w
  <2>. QED  BY <1>3, <2>1, SumIsPositive
<1>6. WeightOf(S) = SumFunctionOnSet(w, S)
  BY DEF WeightOf
<1>. HIDE DEF w
<1>. QED  BY <1>3, <1>4, <1>5, <1>6 DEF w

\* The pool has a value, and with the offset it is worth something.
LEMMA ValuesAdd ==
  ASSUME QuestionTypes
  PROVE  /\ Adds([i \in Cand |-> Value(i)], Cand)
         /\ PoolValue \in Nat /\ Unit \in Nat \ {0}
         /\ offset \in Int /\ PoolValue + offset > 0
<1> DEFINE v == [i \in Cand |-> Value(i)]
<1>1. \A i \in Cand : v[i] = Value(i) /\ v[i] \in Nat
  BY Members
<1>2. Adds(v, Cand) /\ \A i \in Cand : v[i] >= 0
  <2>. HIDE DEF v
  <2>. QED  BY <1>1, CandIsFinite DEF Adds
<1>3. SumFunctionOnSet(v, Cand) \in Nat
  <2>. HIDE DEF v
  <2>. QED  BY <1>2, SumIsPositive
<1>4. PoolValue \in Nat
  BY <1>3 DEF PoolValue
<1>5. Unit \in Nat \ {0}
  <2>1. Cand # {}
    BY CandIsFinite, FS_EmptySet
  <2>. QED  BY <2>1, WeightsAdd DEF Unit
<1>6. offset \in Int /\ ~(offset <= -PoolValue)
  BY RungAssumption DEF QuestionTypes, OffsetExceedsPool
<1>7. PoolValue + offset > 0
  BY <1>4, <1>6
<1>. QED  BY <1>2, <1>4, <1>5, <1>6, <1>7

\* What meets all targets costs the offset: nothing is left over.
LEMMA DeltasAdd ==
  ASSUME QuestionTypes
  PROVE  /\ delta \in [Cand -> Int] /\ Adds(delta, Cand)
         /\ SumFunctionOnSet(delta, Cand) = offset * Unit
<1> DEFINE w == [i \in Cand |-> Weight(i)]
           v == [i \in Cand |-> Value(i)]
<1>1. /\ PoolValue \in Nat /\ Unit \in Nat \ {0} /\ offset \in Int
      /\ Adds(v, Cand) /\ Adds(w, Cand)
  BY ValuesAdd, WeightsAdd
<1>2. PICK a \in Int, b \in Int : a = PoolValue + offset /\ b = -Unit
  BY <1>1
<1>3. \A i \in Cand : w[i] \in Int /\ v[i] \in Int /\ w[i] = Weight(i) /\ v[i] = Value(i)
  BY Members
<1>4. \A i \in Cand : delta[i] = IdealDelta(i)
  BY DEF QuestionTypes
<1>5. \A i \in Cand : IdealDelta(i) = (PoolValue + offset) * Weight(i) - Value(i) * Unit
  BY DEF IdealDelta, Target
<1>6. \A i \in Cand : delta[i] = a * w[i] + b * v[i]
  <2> SUFFICES ASSUME NEW i \in Cand  PROVE delta[i] = a * w[i] + b * v[i]
    OBVIOUS
  <2>1. PICK x \in Int, y \in Int, u \in Int : x = w[i] /\ y = v[i] /\ u = Unit
    BY <1>1, <1>3
  <2>2. delta[i] = a * x - y * u
    <3>. HIDE DEF w, v
    <3>. QED  BY <1>2, <1>3, <1>4, <1>5, <2>1
  <2>3. b = -u
    BY <1>2, <2>1
  <2>. HIDE DEF w, v
  <2>. QED  BY <2>1, <2>2, <2>3
<1>7. delta \in [Cand -> Int]
  <2>1. \A i \in Cand : delta[i] \in Int
    <3>. HIDE DEF w, v
    <3>. QED  BY <1>3, <1>6
  <2>2. delta = [i \in Cand |-> delta[i]]
    BY DEF QuestionTypes
  <2>. QED  BY <2>1, <2>2
<1>8. Adds(delta, Cand)
  BY <1>7, CandIsFinite DEF Adds
<1>9. SumFunctionOnSet(delta, Cand)
        = a * SumFunctionOnSet(w, Cand) + b * SumFunctionOnSet(v, Cand)
  <2>. HIDE DEF w, v
  <2>1. Combines(delta, a, w, b, v, Cand)
    BY <1>6 DEF Combines
  <2>. QED  BY <1>1, <2>1, SumIsLinear
<1>10. SumFunctionOnSet(w, Cand) = Unit /\ SumFunctionOnSet(v, Cand) = PoolValue
  BY DEF Unit, WeightOf, PoolValue
<1>11. \A p, o, u \in Int : (p + o) * u + (-u) * p = o * u
  OBVIOUS
<1>12. a * Unit + b * PoolValue = offset * Unit
  BY <1>1, <1>2, <1>11
<1>. QED  BY <1>7, <1>8, <1>9, <1>10, <1>12

\* Where there is something to invest somebody is below the target, where there is
\* something to raise somebody is above, and without an offset both or neither.
LEMMA SomebodyServes ==
  ASSUME QuestionTypes
  PROVE  /\ offset > 0 => Buys # {}
         /\ offset < 0 => Sells # {}
         /\ offset = 0 => (Buys = {} <=> Sells = {})
<1>1. /\ delta \in [Cand -> Int] /\ Adds(delta, Cand) /\ Unit \in Nat \ {0} /\ offset \in Int
      /\ SumFunctionOnSet(delta, Cand) = offset * Unit
  BY DeltasAdd, ValuesAdd
<1>2. /\ offset > 0 => SumFunctionOnSet(delta, Cand) > 0
      /\ offset < 0 => SumFunctionOnSet(delta, Cand) < 0
      /\ offset = 0 => SumFunctionOnSet(delta, Cand) = 0
  <2>1. PICK u \in Nat \ {0} : u = Unit
    BY <1>1
  <2>2. /\ offset > 0 => offset * u > 0
        /\ offset < 0 => offset * u < 0
        /\ offset = 0 => offset * u = 0
    BY <1>1
  <2>. QED  BY <1>1, <2>1, <2>2
<1>3. Sells = {} => /\ SumFunctionOnSet(delta, Cand) >= 0
                    /\ Buys # {} => SumFunctionOnSet(delta, Cand) > 0
  <2> SUFFICES ASSUME Sells = {}
               PROVE  /\ SumFunctionOnSet(delta, Cand) >= 0
                      /\ Buys # {} => SumFunctionOnSet(delta, Cand) > 0
    OBVIOUS
  <2>1. \A i \in Cand : delta[i] >= 0
    BY <1>1 DEF Sells
  <2>2. SumFunctionOnSet(delta, Cand) \in Nat
    BY <1>1, <2>1, SumIsPositive
  <2>3. ASSUME Buys # {}  PROVE SumFunctionOnSet(delta, Cand) > 0
    <3>1. \E i \in Cand : delta[i] > 0
      BY <2>3 DEF Buys
    <3>. QED  BY <1>1, <2>1, <3>1, SumIsPositive
  <2>. QED  BY <2>2, <2>3
<1>4. Buys = {} => /\ SumFunctionOnSet(delta, Cand) <= 0
                   /\ Sells # {} => SumFunctionOnSet(delta, Cand) < 0
  <2> SUFFICES ASSUME Buys = {}
               PROVE  /\ SumFunctionOnSet(delta, Cand) <= 0
                      /\ Sells # {} => SumFunctionOnSet(delta, Cand) < 0
    OBVIOUS
  <2> DEFINE n == [i \in Cand |-> -delta[i]]
  <2>1. \A i \in Cand : n[i] = -delta[i] /\ n[i] \in Int
    BY <1>1
  <2>2. Adds(n, Cand)
    <3>. HIDE DEF n
    <3>. QED  BY <2>1, CandIsFinite DEF Adds
  <2>6. SumFunctionOnSet(delta, Cand) \in Int
    BY <1>1, SumIsInt
  <2>7. SumFunctionOnSet(n, Cand) = -SumFunctionOnSet(delta, Cand)
    <3>. HIDE DEF n
    <3>. QED  BY <1>1, <2>1, SumNegated
  <2>8. \A i \in Cand : n[i] >= 0
    <3>1. \A i \in Cand : delta[i] <= 0
      BY <1>1 DEF Buys
    <3>. HIDE DEF n
    <3>. QED  BY <1>1, <2>1, <3>1
  <2>9. SumFunctionOnSet(n, Cand) \in Nat
    <3>. HIDE DEF n
    <3>. QED  BY <2>2, <2>8, SumIsPositive
  <2>10. ASSUME Sells # {}  PROVE SumFunctionOnSet(n, Cand) > 0
    <3>1. \E i \in Cand : n[i] > 0
      <4>1. PICK i \in Cand : delta[i] < 0
        BY <2>10 DEF Sells
      <4>2. delta[i] \in Int /\ n[i] = -delta[i]
        BY <1>1, <2>1
      <4>3. n[i] > 0
        <5>. HIDE DEF n
        <5>. QED  BY <4>1, <4>2
      <4>. QED  BY <4>3
    <3>. HIDE DEF n
    <3>. QED  BY <2>2, <2>8, <3>1, SumIsPositive
  <2>. HIDE DEF n
  <2>. QED  BY <2>6, <2>7, <2>9, <2>10
<1>5. SumFunctionOnSet(delta, Cand) \in Int
  BY <1>1, SumIsInt
<1>. QED  BY <1>1, <1>2, <1>3, <1>4, <1>5

-----------------------------------------------------------------------------
(* The ranking is a strict order, and so is that of prices: whatever is first  *)
(* or last, or cheapest, is one of those it is chosen from.                    *)

\* A positive factor on both sides makes no difference.
LEMMA Cancels ==
  ASSUME NEW x \in Int, NEW y \in Int, NEW k \in Nat \ {0}
  PROVE  /\ x * k >= y * k <=> x >= y
         /\ x * k > y * k <=> x > y
<1>1. ASSUME NEW u \in Int, NEW v \in Int, u > v
      PROVE  u * k > v * k
  <2>1. PICK d \in Nat : u = v + d /\ d >= 1
    <3>1. u - v \in Nat /\ u = v + (u - v) /\ u - v >= 1
      BY <1>1
    <3>. QED  BY <3>1
  <2>2. (v + d) * k = v * k + d * k
    OBVIOUS
  <2>3. d * k >= 1
    BY <2>1
  <2>. QED  BY <2>1, <2>2, <2>3
<1>2. x * k \in Int /\ y * k \in Int
  OBVIOUS
<1>. QED  BY <1>1, <1>2

\* Ratios a/p, b/q, c/r are compared by cross products.
LEMMA Ratios ==
  ASSUME NEW a \in Nat, NEW b \in Nat, NEW c \in Nat,
         NEW p \in Nat \ {0}, NEW q \in Nat \ {0}, NEW r \in Nat \ {0},
         a * q >= b * p, b * r >= c * q
  PROVE  /\ a * r >= c * p
         /\ a * q > b * p \/ b * r > c * q => a * r > c * p
<1>1. /\ a * q \in Int /\ b * p \in Int /\ b * r \in Int /\ c * q \in Int
      /\ a * r \in Int /\ c * p \in Int
  OBVIOUS
<1>2. (a * q) * r >= (b * p) * r /\ (a * q > b * p => (a * q) * r > (b * p) * r)
  BY <1>1, Cancels
<1>3. (b * r) * p >= (c * q) * p /\ (b * r > c * q => (b * r) * p > (c * q) * p)
  BY <1>1, Cancels
<1>4. /\ (a * q) * r = (a * r) * q /\ (b * p) * r = (b * r) * p
      /\ (c * q) * p = (c * p) * q
  OBVIOUS
<1>5. /\ (a * r) * q >= (c * p) * q
      /\ a * q > b * p \/ b * r > c * q => (a * r) * q > (c * p) * q
  <2>1. PICK x \in Int, y \in Int, z \in Int :
            x = (a * r) * q /\ y = (b * r) * p /\ z = (c * p) * q
    BY <1>1
  <2>. QED  BY <1>2, <1>3, <1>4, <2>1
<1>. QED  BY <1>1, <1>5, Cancels

\* Distances in money rank any two candidates, the same way round.
LEMMA RankedBySek ==
  ASSUME QuestionTypes
  PROVE  /\ \A i \in Cand : ~BeforeBySek(i, i)
         /\ \A i, j \in Cand : i # j => BeforeBySek(i, j) \/ BeforeBySek(j, i)
         /\ \A i, j, k \in Cand : BeforeBySek(i, j) /\ BeforeBySek(j, k) => BeforeBySek(i, k)
         /\ \A i \in Cand : /\ Magnitude(delta[i]) \in Nat
                            /\ Magnitude(delta[i]) = 0 <=> delta[i] = 0
<1>1. \A i \in Cand : i \in Int /\ delta[i] \in Int
  BY DeltasAdd, CandIsFinite DEF Cand
<1>2. \A i \in Cand : Magnitude(delta[i]) \in Nat /\ (Magnitude(delta[i]) = 0 <=> delta[i] = 0)
  BY <1>1 DEF Magnitude
<1>. QED  BY <1>1, <1>2 DEF BeforeBySek

\* So do distances relative to the target.
LEMMA RankedByPercent ==
  ASSUME QuestionTypes
  PROVE  /\ \A i \in Cand : ~BeforeByPercent(i, i)
         /\ \A i, j \in Cand : i # j => BeforeByPercent(i, j) \/ BeforeByPercent(j, i)
         /\ \A i, j, k \in Cand :
               BeforeByPercent(i, j) /\ BeforeByPercent(j, k) => BeforeByPercent(i, k)
<1> DEFINE m(i) == Magnitude(delta[i])
           w(i) == Weight(i)
           above(i, j) == m(i) * w(j) > m(j) * w(i)
           level(i, j) == m(i) * w(j) = m(j) * w(i)
<1>1. \A i \in Cand : m(i) \in Nat /\ w(i) \in Nat \ {0}
  BY RankedBySek, Members
<1>2. \A i, j \in Cand : m(i) * w(j) \in Nat
  <2>1. \A x \in Nat, y \in Nat \ {0} : x * y \in Nat
    OBVIOUS
  <2>. HIDE DEF m, w
  <2>. QED  BY <1>1, <2>1
<1>3. \A i, j, k \in Cand :
         /\ above(i, j) /\ above(j, k) => above(i, k)
         /\ above(i, j) /\ level(j, k) => above(i, k)
         /\ level(i, j) /\ above(j, k) => above(i, k)
         /\ level(i, j) /\ level(j, k) => level(i, k)
  <2> SUFFICES ASSUME NEW i \in Cand, NEW j \in Cand, NEW k \in Cand
               PROVE  /\ above(i, j) /\ above(j, k) => above(i, k)
                      /\ above(i, j) /\ level(j, k) => above(i, k)
                      /\ level(i, j) /\ above(j, k) => above(i, k)
                      /\ level(i, j) /\ level(j, k) => level(i, k)
    OBVIOUS
  <2>1. PICK a \in Nat, b \in Nat, c \in Nat : a = m(i) /\ b = m(j) /\ c = m(k)
    BY <1>1
  <2>2. PICK p \in Nat \ {0}, q \in Nat \ {0}, r \in Nat \ {0} :
           p = w(i) /\ q = w(j) /\ r = w(k)
    BY <1>1
  <2>3. /\ a * q \in Nat /\ b * p \in Nat /\ b * r \in Nat /\ c * q \in Nat
        /\ a * r \in Nat /\ c * p \in Nat
    OBVIOUS
  <2>4. a * q >= b * p /\ b * r >= c * q =>
           /\ a * r >= c * p
           /\ a * q > b * p \/ b * r > c * q => a * r > c * p
    BY Ratios
  <2>5. c * q >= b * r /\ b * p >= a * q => c * p >= a * r
    BY Ratios
  <2>6. /\ a * q > b * p /\ b * r > c * q => a * r > c * p
        /\ a * q > b * p /\ b * r = c * q => a * r > c * p
        /\ a * q = b * p /\ b * r > c * q => a * r > c * p
        /\ a * q = b * p /\ b * r = c * q => a * r = c * p
    <3>1. PICK x1 \in Nat, x2 \in Nat, x3 \in Nat, x4 \in Nat, x5 \in Nat, x6 \in Nat :
             /\ x1 = a * q /\ x2 = b * p /\ x3 = b * r /\ x4 = c * q
             /\ x5 = a * r /\ x6 = c * p
      BY <2>3
    <3>. QED  BY <2>4, <2>5, <3>1
  <2>. HIDE DEF m, w
  <2>. QED  BY <2>1, <2>2, <2>6
<1>4. \A i, j \in Cand : /\ above(i, j) \/ level(i, j) \/ above(j, i)
                         /\ level(i, j) <=> level(j, i)
                         /\ ~above(i, i)
  <2>. HIDE DEF m, w
  <2>. QED  BY <1>2
<1>5. \A i, j \in Cand :
         BeforeByPercent(i, j) <=> \/ above(i, j)
                                   \/ level(i, j) /\ w(i) > w(j)
                                   \/ level(i, j) /\ w(i) = w(j) /\ BeforeBySek(i, j)
  BY DEF BeforeByPercent
<1>. HIDE DEF m, w, above, level
<1>6. \A i \in Cand : ~BeforeByPercent(i, i)
  BY <1>1, <1>4, <1>5, RankedBySek
<1>7. \A i, j \in Cand : i # j => BeforeByPercent(i, j) \/ BeforeByPercent(j, i)
  <2> SUFFICES ASSUME NEW i \in Cand, NEW j \in Cand, i # j
               PROVE  BeforeByPercent(i, j) \/ BeforeByPercent(j, i)
    OBVIOUS
  <2>1. above(i, j) \/ level(i, j) \/ above(j, i)
    BY <1>4
  <2>2. level(i, j) <=> level(j, i)
    BY <1>4
  <2>3. w(i) > w(j) \/ w(j) > w(i) \/ w(i) = w(j)
    BY <1>1
  <2>4. BeforeBySek(i, j) \/ BeforeBySek(j, i)
    BY RankedBySek
  <2>. QED  BY <1>5, <2>1, <2>2, <2>3, <2>4
<1>8. \A i, j, k \in Cand :
         BeforeByPercent(i, j) /\ BeforeByPercent(j, k) => BeforeByPercent(i, k)
  <2> SUFFICES ASSUME NEW i \in Cand, NEW j \in Cand, NEW k \in Cand,
                      BeforeByPercent(i, j), BeforeByPercent(j, k)
               PROVE  BeforeByPercent(i, k)
    OBVIOUS
  <2>1. \/ above(i, j)
        \/ level(i, j) /\ w(i) > w(j)
        \/ level(i, j) /\ w(i) = w(j) /\ BeforeBySek(i, j)
    BY <1>5
  <2>2. \/ above(j, k)
        \/ level(j, k) /\ w(j) > w(k)
        \/ level(j, k) /\ w(j) = w(k) /\ BeforeBySek(j, k)
    BY <1>5
  <2>3. /\ above(i, j) /\ above(j, k) => above(i, k)
        /\ above(i, j) /\ level(j, k) => above(i, k)
        /\ level(i, j) /\ above(j, k) => above(i, k)
        /\ level(i, j) /\ level(j, k) => level(i, k)
    BY <1>3
  <2>4. w(i) \in Nat /\ w(j) \in Nat /\ w(k) \in Nat
    BY <1>1
  <2>5. BeforeBySek(i, j) /\ BeforeBySek(j, k) => BeforeBySek(i, k)
    BY RankedBySek
  <2>6. \/ above(i, k)
        \/ level(i, k) /\ w(i) > w(k)
        \/ level(i, k) /\ w(i) = w(k) /\ BeforeBySek(i, k)
    BY <2>1, <2>2, <2>3, <2>4, <2>5
  <2>. QED  BY <1>5, <2>6
<1>. QED  BY <1>6, <1>7, <1>8

\* The pairs in the order of the ranking, and in the reverse order.
Ranking == {p \in Cand \X Cand : Before(p[1], p[2])}
Backwards == {p \in Cand \X Cand : Before(p[2], p[1])}

\* Either ranking is a strict order, and so is its reverse.
LEMMA RankedInOrder ==
  ASSUME QuestionTypes, NEW S \in SUBSET Cand
  PROVE  Orders(Ranking, S) /\ Orders(Backwards, S)
<1>1. /\ \A i \in Cand : ~Before(i, i)
      /\ \A i, j \in Cand : i # j => Before(i, j) \/ Before(j, i)
      /\ \A i, j, k \in Cand : Before(i, j) /\ Before(j, k) => Before(i, k)
  <2>1. CASE rankBy = "sek"
    BY <2>1, RankedBySek DEF Before
  <2>2. CASE rankBy # "sek"
    BY <2>2, RankedByPercent DEF Before
  <2>. QED  BY <2>1, <2>2
<1>2. \A i, j \in Cand : /\ <<i, j>> \in Ranking <=> Before(i, j)
                         /\ <<i, j>> \in Backwards <=> Before(j, i)
  BY DEF Ranking, Backwards
<1>. QED  BY <1>1, <1>2 DEF Orders

\* Among any candidates one ranks first, and one last.
LEMMA FirstAndLast ==
  ASSUME QuestionTypes, NEW S \in SUBSET Cand, S # {}
  PROVE  /\ FirstRanked(S) \in S /\ LastRanked(S) \in S
         /\ \A j \in S \ {FirstRanked(S)} : Before(FirstRanked(S), j)
         /\ \A j \in S \ {LastRanked(S)} : Before(j, LastRanked(S))
<1>1. IsFiniteSet(S)
  BY CandIsFinite, FS_Subset
<1>2. Orders(Ranking, S) /\ Orders(Backwards, S)
  BY RankedInOrder
<1>3. \E x \in S : \A y \in S \ {x} : <<x, y>> \in Ranking
  BY <1>1, <1>2, FirstExists
<1>4. \E x \in S : \A y \in S \ {x} : <<x, y>> \in Backwards
  BY <1>1, <1>2, FirstExists
<1>5. \E x \in S : \A y \in S \ {x} : Before(x, y)
  BY <1>3 DEF Ranking
<1>6. \E x \in S : \A y \in S \ {x} : Before(y, x)
  BY <1>4 DEF Backwards
<1>. QED  BY <1>5, <1>6 DEF FirstRanked, LastRanked

\* Whoever is on target ranks after whoever is not.
LEMMA OnTargetLast ==
  ASSUME QuestionTypes, NEW i \in Cand, NEW j \in Cand, Before(i, j), delta[j] # 0
  PROVE  delta[i] # 0
<1> SUFFICES ASSUME delta[i] = 0  PROVE FALSE
  OBVIOUS
<1>1. Magnitude(delta[i]) = 0 /\ Magnitude(delta[j]) \in Nat \ {0}
  BY RankedBySek
<1>2. ~BeforeBySek(i, j)
  BY <1>1 DEF BeforeBySek
<1>3. ~BeforeByPercent(i, j)
  <2>1. Weight(i) \in Nat \ {0} /\ Weight(j) \in Nat \ {0}
    BY Members
  <2>2. PICK b \in Nat \ {0}, p \in Nat \ {0}, q \in Nat \ {0} :
            b = Magnitude(delta[j]) /\ p = Weight(i) /\ q = Weight(j)
    BY <1>1, <2>1
  <2>3. b * p > 0 * q
    OBVIOUS
  <2>4. 0 * q < b * p /\ 0 * q # b * p /\ ~(0 * q > b * p)
    <3>1. b * p \in Int
      OBVIOUS
    <3>. QED  BY <2>3, <3>1
  <2>. QED  BY <1>1, <2>2, <2>4 DEF BeforeByPercent
<1>. QED  BY <1>2, <1>3 DEF Before

\* As many candidates rank first as the rung asks for.
LEMMA TopIsFull ==
  ASSUME QuestionTypes
  PROVE  Top \in SUBSET Cand /\ Cardinality(Top) = count /\ IsFiniteSet(Top) /\ Top # {}
<1>1. count \in 0..Cardinality(Cand) /\ count \in Nat \ {0}
  BY CandIsFinite DEF QuestionTypes, Cand
<1>2. Orders(Ranking, Cand)
  BY RankedInOrder
<1>3. Cardinality(Leading(Cand, Ranking, count)) = count
  BY <1>1, <1>2, CandIsFinite, FirstMembers
<1>4. Leading(Cand, Ranking, count) = Top
  <2>1. \A x \in Cand : {y \in Cand \ {x} : <<y, x>> \in Ranking}
                          = {y \in Cand \ {x} : Before(y, x)}
    BY DEF Ranking
  <2>. QED  BY <2>1 DEF Leading, Top
<1>5. Cardinality(Top) = count
  BY <1>3, <1>4
<1>6. Top \in SUBSET Cand
  BY DEF Top
<1>7. IsFiniteSet(Top)
  BY <1>6, CandIsFinite, FS_Subset
<1>. QED  BY <1>1, <1>5, <1>6, <1>7, FS_EmptySet

-----------------------------------------------------------------------------
(* The invariant.                                                              *)

RungTypes ==
    /\ stage \in {"select", "raise", "share", "round", "repair", "done"}
    /\ selected \in SUBSET Cand /\ free \in SUBSET Cand
    /\ share \in [Cand -> Int] /\ scale \in Nat \ {0} /\ fallback \in BOOLEAN
    /\ quantity \in [Cand -> Int] /\ residual \in Int

\* Can these candidates take the offset?
Serve(S) == /\ Cardinality(S) = count
            /\ offset > 0 => S \cap Buys # {}
            /\ offset < 0 => S \cap Sells # {}
            /\ offset = 0 /\ count >= 2 /\ Buys # {} => S \cap Buys # {} /\ S \cap Sells # {}

\* Only who is selected and off target has a share, which in percent mode stays
\* within the target.
Bounded(i) == /\ i \notin selected \/ delta[i] = 0 => share[i] = 0
              /\ rankBy = "percent" => Magnitude(share[i]) <= Magnitude(delta[i]) * scale

Sharing ==
    /\ \A i \in Cand : Bounded(i)
    /\ stage \in {"select", "raise"} => free = {} /\ \A i \in Cand : share[i] = 0
    /\ stage \in {"select", "raise", "share"} => scale = 1
    /\ stage = "share" => /\ free \subseteq selected \cap (Buys \cup Sells)
                          /\ \A i \in free : share[i] = 0

\* Does the trade of i go toward its target, sell what is held, and stop there?
Stops(i) == /\ quantity[i] > 0 => i \in selected \cap Buys
            /\ quantity[i] < 0 => i \in selected \cap Sells
            /\ quantity[i] >= -pool[i].held
            /\ rankBy = "percent" =>
                  Magnitude(quantity[i]) * pool[i].price * Unit <= Magnitude(delta[i])

Trading == /\ stage \notin {"repair", "done"} => \A i \in Cand : quantity[i] = 0
           /\ \A i \in Cand : Stops(i)

RungInv == /\ QuestionTypes /\ RungTypes /\ Sharing /\ Trading
           /\ stage # "select" => Serve(selected)
           /\ SharesAddUp

\* What a magnitude is.
LEMMA Magnitudes ==
  ASSUME NEW x \in Int
  PROVE  /\ Magnitude(x) \in Nat
         /\ x >= 0 => Magnitude(x) = x
         /\ x <= 0 => Magnitude(x) = -x
         /\ Magnitude(x) = 0 <=> x = 0
BY DEF Magnitude

\* A rung starts within all bounds, as nothing is selected or shared.
LEMMA InitSatisfiesInv == Init => RungInv
<1> SUFFICES ASSUME Init  PROVE RungInv
  OBVIOUS
<1>1. QuestionTypes
  BY DEF Init, QuestionTypes
<1>2. RungTypes
  <2>1. /\ stage = "select" /\ selected = {} /\ free = {} /\ fallback = FALSE
        /\ scale = 1 /\ residual = 0
    BY DEF Init
  <2>2. share \in [Cand -> Int] /\ quantity \in [Cand -> Int]
    BY DEF Init
  <2>3. stage \in {"select", "raise", "share", "round", "repair", "done"} /\ fallback \in BOOLEAN
    BY <2>1
  <2>4. selected \in SUBSET Cand /\ free \in SUBSET Cand
    BY <2>1
  <2>5. scale \in Nat \ {0} /\ residual \in Int
    BY <2>1
  <2>. QED  BY <2>2, <2>3, <2>4, <2>5 DEF RungTypes
<1>3. delta \in [Cand -> Int] /\ Unit \in Nat \ {0}
  BY <1>1, DeltasAdd, ValuesAdd
<1>4. stage = "select" /\ free = {} /\ scale = 1
      /\ \A i \in Cand : share[i] = 0 /\ quantity[i] = 0
  BY DEF Init
<1>5. ASSUME NEW i \in Cand  PROVE Bounded(i) /\ Stops(i)
  <2>1. delta[i] \in Int /\ pool[i].price \in Nat \ {0} /\ pool[i].held \in Nat
    BY <1>1, <1>3, Members
  <2>2. Magnitude(delta[i]) \in Nat /\ Magnitude(0) = 0
    BY <2>1, Magnitudes
  <2>3. 0 * pool[i].price * Unit = 0 /\ Magnitude(delta[i]) * 1 = Magnitude(delta[i])
    BY <1>3, <2>1, <2>2
  <2>. QED  BY <1>4, <2>1, <2>2, <2>3 DEF Bounded, Stops
<1>6. Sharing
  BY <1>4, <1>5 DEF Sharing
<1>7. Trading
  BY <1>4, <1>5 DEF Trading
<1>. QED  BY <1>1, <1>2, <1>4, <1>6, <1>7 DEF RungInv, SharesAddUp

\* Nothing that is computed from the question changes with the other variables.
LEMMA QuestionStays ==
  ASSUME QuestionTypes, UNCHANGED question
  PROVE  /\ QuestionTypes'
         /\ Unit' = Unit /\ Buys' = Buys /\ Sells' = Sells
BY DEF question, QuestionTypes, Unit, WeightOf, Weight, Buys, Sells, OffsetExceedsPool,
       PoolValue, Value, IdealDelta, Target

-----------------------------------------------------------------------------
(* Sharing.                                                                    *)

\* All amounts of a pass are whole, and what they are divided by is positive.
LEMMA AmountsToShare ==
  ASSUME QuestionTypes, RungTypes
  PROVE  /\ LeftToShare \in Int /\ SettledScale \in Nat \ {0}
         /\ free # {} => SettledScale = WeightOf(free)
         /\ \A i \in Cand : Spread(i) \in Int /\ Limit(i) \in Int
         /\ Settled \in [Cand -> Int]
         /\ Adds(share, Cand) /\ Adds(delta, Cand)
         /\ SumFunctionOnSet(share, selected \ free) \in Int
         /\ SumFunctionOnSet(delta, free) \in Int
<1>1. /\ delta \in [Cand -> Int] /\ Adds(delta, Cand)
      /\ Unit \in Nat \ {0} /\ offset \in Int
  BY DeltasAdd, ValuesAdd
<1>2. /\ free \in SUBSET Cand /\ selected \in SUBSET Cand /\ share \in [Cand -> Int]
  BY DEF RungTypes
<1>3. Adds(share, Cand)
  BY <1>2, CandIsFinite DEF Adds
<1>4. Adds(delta, free) /\ Adds(share, selected \ free)
  BY <1>1, <1>2, <1>3, FS_Subset DEF Adds
<1>5. SumFunctionOnSet(delta, free) \in Int /\ SumFunctionOnSet(share, selected \ free) \in Int
  BY <1>4, SumIsInt
<1>6. LeftToShare \in Int
  <2>1. offset * Unit \in Int
    BY <1>1
  <2>. QED  BY <1>5, <2>1 DEF LeftToShare
<1>7. WeightOf(free) \in Nat /\ (free # {} => WeightOf(free) \in Nat \ {0})
  BY <1>2, WeightsAdd
<1>8. SettledScale \in Nat \ {0} /\ (free # {} => SettledScale = WeightOf(free))
  BY <1>7 DEF SettledScale
<1>9. ASSUME NEW i \in Cand  PROVE Spread(i) \in Int /\ Limit(i) \in Int
  <2>1. Weight(i) \in Nat /\ Value(i) \in Nat /\ delta[i] \in Int
    BY <1>1, Members
  <2>2. delta[i] * WeightOf(free) \in Int /\ LeftToShare * Weight(i) \in Int
    BY <1>6, <1>7, <2>1
  <2>3. -Value(i) * Unit \in Int
    BY <1>1, <2>1
  <2>. QED  BY <2>1, <2>2, <2>3 DEF Spread, Limit
<1>10. ASSUME NEW i \in Cand  PROVE share[i] * SettledScale \in Int
  BY <1>2, <1>8
<1>11. Settled \in [Cand -> Int]
  BY <1>9, <1>10 DEF Settled
<1>. QED  BY <1>1, <1>3, <1>5, <1>6, <1>8, <1>9, <1>11

\* Scaling keeps the order of magnitudes.
LEMMA MagnitudeScaled ==
  ASSUME NEW x \in Int, NEW y \in Int, NEW k \in Nat \ {0}, Magnitude(x) <= Magnitude(y)
  PROVE  Magnitude(x * k) <= Magnitude(y) * k
<1>1. Magnitude(x) \in Int /\ Magnitude(y) \in Int
  BY Magnitudes
<1>2. Magnitude(x * k) = Magnitude(x) * k
  <2>1. CASE x < 0
    <3>1. 0 * k > x * k
      BY <2>1, Cancels
    <3>2. x * k < 0 /\ x * k \in Int
      BY <3>1
    <3>. QED  BY <2>1, <3>2 DEF Magnitude
  <2>2. CASE x >= 0
    <3>1. x * k >= 0 * k
      BY <2>2, Cancels
    <3>2. x * k >= 0 /\ x * k \in Int
      BY <3>1
    <3>. QED  BY <2>2, <3>2 DEF Magnitude
  <2>. QED  BY <2>1, <2>2
<1>3. Magnitude(y) * k >= Magnitude(x) * k
  BY <1>1, Cancels
<1>. QED  BY <1>1, <1>2, <1>3

\* When no candidate is a violator any more, all shares are within bounds.
LEMMA SettledIsBounded ==
  ASSUME QuestionTypes, RungTypes, Sharing, stage = "share", WrongWay \cup TooFar = {},
         NEW i \in Cand
  PROVE  /\ i \notin selected \/ delta[i] = 0 => Settled[i] = 0
         /\ rankBy = "percent" =>
               Magnitude(Settled[i]) <= Magnitude(delta[i]) * SettledScale
<1>1. /\ delta[i] \in Int /\ share[i] \in Int /\ Spread(i) \in Int /\ SettledScale \in Nat \ {0}
      /\ (free # {} => SettledScale = WeightOf(free))
  BY AmountsToShare, DeltasAdd DEF RungTypes
<1>2. CASE i \in free
  <2>1. Settled[i] = Spread(i) /\ SettledScale = WeightOf(free)
    BY <1>1, <1>2 DEF Settled
  <2>2. i \in selected /\ delta[i] # 0
    BY <1>1, <1>2 DEF Sharing, Buys, Sells
  <2>3. i \notin WrongWay /\ i \notin TooFar
    OBVIOUS
  <2>4. ASSUME rankBy = "percent"
        PROVE  Magnitude(Spread(i)) <= Magnitude(delta[i]) * SettledScale
    <3>1. Limit(i) = delta[i]
      BY <2>4 DEF Limit
    <3>2. PICK d \in Int, s \in Int, w \in Nat \ {0} :
              d = delta[i] /\ s = Spread(i) /\ w = SettledScale
      BY <1>1
    <3>3. d * w \in Int /\ (-d) * w = -(d * w)
      OBVIOUS
    <3>4. CASE d > 0
      <4>1. s >= 0 /\ s <= d * w
        <5>1. ~(s < 0)
          BY <1>2, <2>3, <3>2, <3>4 DEF WrongWay
        <5>2. ~(s > d * w)
          BY <1>2, <2>1, <2>3, <2>4, <3>1, <3>2, <3>4 DEF TooFar
        <5>. QED  BY <3>3, <5>1, <5>2
      <4>2. Magnitude(s) = s /\ Magnitude(d) = d
        BY <3>4, <4>1, Magnitudes
      <4>. QED  BY <3>2, <4>1, <4>2
    <3>5. CASE d < 0
      <4>1. s <= 0 /\ s >= d * w
        <5>1. ~(s > 0)
          BY <1>2, <2>3, <3>2, <3>5 DEF WrongWay
        <5>2. ~(s < d * w)
          BY <1>2, <2>1, <2>3, <3>1, <3>2, <3>5 DEF TooFar
        <5>. QED  BY <3>3, <5>1, <5>2
      <4>2. Magnitude(s) = -s /\ Magnitude(d) = -d
        BY <3>5, <4>1, Magnitudes
      <4>3. -s <= (-d) * w
        BY <3>3, <4>1
      <4>. QED  BY <3>2, <4>2, <4>3
    <3>. QED  BY <2>2, <3>2, <3>4, <3>5
  <2>. QED  BY <2>1, <2>2, <2>4
<1>3. CASE i \notin free
  <2>1. Settled[i] = share[i] * SettledScale
    BY <1>3 DEF Settled
  <2>2. Bounded(i) /\ scale = 1
    BY <1>3 DEF Sharing
  <2>3. i \notin selected \/ delta[i] = 0 => Settled[i] = 0
    <3>1. 0 * SettledScale = 0
      BY <1>1
    <3>. QED  BY <2>1, <2>2, <3>1 DEF Bounded
  <2>4. ASSUME rankBy = "percent"
        PROVE  Magnitude(Settled[i]) <= Magnitude(delta[i]) * SettledScale
    <3>1. Magnitude(share[i]) <= Magnitude(delta[i])
      <4>1. Magnitude(delta[i]) * 1 = Magnitude(delta[i])
        BY <1>1, Magnitudes
      <4>. QED  BY <2>2, <2>4, <4>1 DEF Bounded
    <3>. QED  BY <1>1, <2>1, <3>1, MagnitudeScaled
  <2>. QED  BY <2>3, <2>4
<1>. QED  BY <1>2, <1>3

\* What the free shares get and what is fixed, together.
LEMMA Distributes ==
  ASSUME NEW w \in Int, NEW d \in Int, NEW a \in Int, NEW o \in Int
  PROVE  w * d + (o - a - d) * w + w * a = o * w
OBVIOUS

\* While some share is free, the shares add up to the offset.
LEMMA SettledMeetsOffset ==
  ASSUME QuestionTypes, RungTypes, Sharing, stage = "share", free # {}
  PROVE  SumFunctionOnSet(Settled, Cand) = offset * Unit * SettledScale
<1> DEFINE w == [i \in Cand |-> Weight(i)]
           rest == Cand \ free
           fixed == selected \ free
<1>1. /\ free \in SUBSET Cand /\ selected \in SUBSET Cand /\ share \in [Cand -> Int]
      /\ IsFiniteSet(Cand)
  BY CandIsFinite DEF RungTypes
<1>2. /\ LeftToShare \in Int /\ SettledScale \in Nat \ {0} /\ SettledScale = WeightOf(free)
      /\ Settled \in [Cand -> Int] /\ Adds(share, Cand) /\ Adds(delta, Cand)
      /\ SumFunctionOnSet(share, fixed) \in Int /\ SumFunctionOnSet(delta, free) \in Int
  BY AmountsToShare
<1>3. Adds(Settled, Cand)
  BY <1>1, <1>2 DEF Adds
<1>4. SumFunctionOnSet(Settled, Cand)
        = SumFunctionOnSet(Settled, free) + SumFunctionOnSet(Settled, rest)
  <2>1. free \cup rest = Cand /\ free \cap rest = {}
    BY <1>1
  <2>. HIDE DEF rest
  <2>. QED  BY <1>3, <2>1, SumOfBoth
<1>5. SumFunctionOnSet(Settled, free)
        = SettledScale * SumFunctionOnSet(delta, free) + LeftToShare * SettledScale
  <2>1. \A i \in free : Settled[i] = SettledScale * delta[i] + LeftToShare * w[i]
    <3> SUFFICES ASSUME NEW i \in free
                 PROVE  Settled[i] = SettledScale * delta[i] + LeftToShare * w[i]
      OBVIOUS
    <3>1. i \in Cand /\ delta[i] \in Int
      BY <1>1, DeltasAdd
    <3>2. Settled[i] = delta[i] * SettledScale + LeftToShare * w[i]
      BY <1>2, <3>1 DEF Settled, Spread
    <3>. QED  BY <1>2, <3>1, <3>2
  <2>2. Adds(w, free) /\ SumFunctionOnSet(w, free) = SettledScale
    BY <1>1, <1>2, WeightsAdd DEF WeightOf
  <2>3. Adds(delta, free)
    BY <1>1, <1>2, FS_Subset DEF Adds
  <2>4. PICK a \in Int, b \in Int : a = SettledScale /\ b = LeftToShare
    BY <1>2
  <2>5. Combines(Settled, a, delta, b, w, free)
    BY <2>1, <2>4 DEF Combines
  <2>. HIDE DEF w
  <2>6. SumFunctionOnSet(Settled, free)
          = a * SumFunctionOnSet(delta, free) + b * SumFunctionOnSet(w, free)
    BY <2>2, <2>3, <2>5, SumIsLinear
  <2>. QED  BY <2>2, <2>4, <2>6
<1>6. SumFunctionOnSet(Settled, rest) = SettledScale * SumFunctionOnSet(share, fixed)
  <2>1. SumFunctionOnSet(share, rest) = SumFunctionOnSet(share, fixed)
    <3> DEFINE others == rest \ selected
    <3>1. fixed \cup others = rest /\ fixed \cap others = {}
      BY <1>1
    <3>2. Adds(share, rest)
      BY <1>1, <1>2, FS_Subset DEF Adds
    <3>3. \A i \in others : share[i] = 0
      BY DEF Sharing, Bounded
    <3>4. SumFunctionOnSet(share, others) = 0
      <4>1. IsFiniteSet(others)
        BY <1>1, FS_Subset
      <4>. HIDE DEF others
      <4>. QED  BY <3>3, <4>1, SumOfZeros
    <3>5. SumFunctionOnSet(share, rest)
            = SumFunctionOnSet(share, fixed) + SumFunctionOnSet(share, others)
      <4>. HIDE DEF rest, fixed, others
      <4>. QED  BY <3>1, <3>2, SumOfBoth
    <3>. HIDE DEF rest, fixed, others
    <3>. QED  BY <1>2, <3>4, <3>5
  <2>2. \A i \in rest : Settled[i] = SettledScale * share[i]
    BY <1>1, <1>2 DEF Settled
  <2>3. Adds(share, rest)
    BY <1>1, <1>2, FS_Subset DEF Adds
  <2>. HIDE DEF rest, fixed
  <2>4. SumFunctionOnSet(Settled, rest) = SettledScale * SumFunctionOnSet(share, rest)
    BY <1>2, <2>2, <2>3, SumIsScaled
  <2>. QED  BY <2>1, <2>4
<1>7. LeftToShare = offset * Unit - SumFunctionOnSet(share, fixed) - SumFunctionOnSet(delta, free)
  BY DEF LeftToShare
<1>8. PICK s \in Int, d \in Int, a \in Int, o \in Int :
          /\ s = SettledScale /\ d = SumFunctionOnSet(delta, free)
          /\ a = SumFunctionOnSet(share, fixed) /\ o = offset * Unit
  BY <1>2, ValuesAdd
<1>9. SumFunctionOnSet(Settled, Cand) = s * d + (o - a - d) * s + s * a
  <2>. HIDE DEF rest, fixed
  <2>. QED  BY <1>4, <1>5, <1>6, <1>7, <1>8
<1>. QED  BY <1>8, <1>9, Distributes

-----------------------------------------------------------------------------
(* Whole quantities.                                                           *)

\* What whole division gives.
LEMMA Divides ==
  ASSUME NEW m \in Nat, NEW d \in Nat \ {0}
  PROVE  /\ m \div d \in Nat
         /\ (m \div d) * d <= m
         /\ m < d => m \div d = 0
<1>1. m \div d \in Int /\ (m \div d) * d <= m /\ m < (m \div d) * d + d
  OBVIOUS
<1>2. PICK q \in Int : q = m \div d
  BY <1>1
<1>3. q * d <= m /\ m < q * d + d
  BY <1>1, <1>2
<1>4. ASSUME q < 0  PROVE FALSE
  <2>1. PICK k \in Nat : q = -1 - k
    <3>1. -1 - q \in Nat /\ q = -1 - (-1 - q)
      BY <1>4
    <3>. QED  BY <3>1
  <2>2. q * d + d = -(k * d) /\ k * d \in Nat
    BY <2>1
  <2>. QED  BY <1>3, <2>2
<1>5. ASSUME m < d, q > 0  PROVE FALSE
  <2>1. PICK k \in Nat : q = 1 + k
    <3>1. q - 1 \in Nat /\ q = 1 + (q - 1)
      BY <1>5
    <3>. QED  BY <3>1
  <2>2. q * d = d + k * d /\ k * d \in Nat
    BY <2>1
  <2>. QED  BY <1>3, <1>5, <2>2
<1>. QED  BY <1>1, <1>2, <1>4, <1>5

\* Rounding toward zero does not exceed the amount; nothing rounds to nothing.
LEMMA Rounds ==
  ASSUME NEW x \in Int, NEW d \in Nat \ {0}
  PROVE  /\ ToZero(x, d) \in Int /\ ToNearest(x, d) \in Int
         /\ Magnitude(ToZero(x, d)) * d <= Magnitude(x)
         /\ x = 0 => ToZero(x, d) = 0 /\ ToNearest(x, d) = 0
<1>1. PICK m \in Nat : m = Magnitude(x)
  BY Magnitudes
<1>2. m \div d \in Nat /\ (m \div d) * d <= m /\ (m < d => m \div d = 0)
  BY Divides
<1>3. 2 * m + d \in Nat /\ 2 * d \in Nat \ {0} /\ (m = 0 => 2 * m + d < 2 * d)
  OBVIOUS
<1>4. PICK n \in Nat, e \in Nat \ {0} : n = 2 * m + d /\ e = 2 * d
  BY <1>3
<1>5. n \div e \in Nat /\ (m = 0 => n \div e = 0)
  <2>1. n \div e \in Nat /\ (n < e => n \div e = 0)
    BY Divides
  <2>. QED  BY <1>3, <1>4, <2>1
<1>6. ASSUME NEW k \in Nat
      PROVE  Signed(x, k) \in Int /\ Magnitude(Signed(x, k)) = k /\ (k = 0 => Signed(x, k) = 0)
  BY DEF Signed, Magnitude
<1>7. ToZero(x, d) = Signed(x, m \div d) /\ ToNearest(x, d) = Signed(x, n \div e)
  BY <1>1, <1>4 DEF ToZero, ToNearest
<1>8. /\ Signed(x, m \div d) \in Int /\ Magnitude(Signed(x, m \div d)) = m \div d
      /\ (m \div d = 0 => Signed(x, m \div d) = 0)
  BY <1>2, <1>6
<1>9. Signed(x, n \div e) \in Int /\ (n \div e = 0 => Signed(x, n \div e) = 0)
  BY <1>5, <1>6
<1>10. x = 0 => m = 0
  BY <1>1, Magnitudes
<1>11. m = 0 => m \div d = 0
  BY <1>2
<1>. QED  BY <1>1, <1>2, <1>5, <1>7, <1>8, <1>9, <1>10, <1>11

\* In percent mode a rounded share stays within the target.
LEMMA RoundedIsBounded ==
  ASSUME QuestionTypes, RungTypes, NEW i \in Cand, Bounded(i)
  PROVE  /\ Rounded(i) \in Int
         /\ delta[i] = 0 => Rounded(i) = 0
         /\ rankBy = "percent" =>
               Magnitude(Rounded(i)) * pool[i].price * Unit <= Magnitude(delta[i])
<1>1. /\ Unit \in Nat \ {0} /\ pool[i].price \in Nat \ {0} /\ delta[i] \in Int
      /\ scale \in Nat \ {0} /\ share[i] \in Int
  BY Members, ValuesAdd, DeltasAdd DEF RungTypes
<1>2. PICK u \in Nat \ {0}, p \in Nat \ {0}, s \in Nat \ {0}, x \in Int :
          u = Unit /\ p = pool[i].price /\ s = scale /\ x = share[i]
  BY <1>1
<1>3. u * s * p \in Nat \ {0}
  <2>1. PICK t \in Nat \ {0} : t = u * s
    <3>1. u * s \in Nat \ {0}
      OBVIOUS
    <3>. QED  BY <3>1
  <2>2. t * p \in Nat \ {0}
    OBVIOUS
  <2>. QED  BY <2>1, <2>2
<1>4. PICK d \in Nat \ {0} : d = u * s * p
  BY <1>3
<1>5. Rounded(i) = IF rankBy = "percent" THEN ToZero(x, d) ELSE ToNearest(x, d)
  BY <1>2, <1>4 DEF Rounded
<1>6. /\ ToZero(x, d) \in Int /\ ToNearest(x, d) \in Int
      /\ Magnitude(ToZero(x, d)) * d <= Magnitude(x)
      /\ x = 0 => ToZero(x, d) = 0 /\ ToNearest(x, d) = 0
  BY Rounds
<1>7. ASSUME rankBy = "percent"
      PROVE  Magnitude(Rounded(i)) * pool[i].price * Unit <= Magnitude(delta[i])
  <2>1. PICK r \in Nat, m \in Nat, a \in Nat :
            r = Magnitude(Rounded(i)) /\ m = Magnitude(x) /\ a = Magnitude(delta[i])
    BY <1>1, <1>5, <1>6, Magnitudes
  <2>2. r * d <= m /\ m <= a * s
    BY <1>2, <1>5, <1>6, <1>7, <2>1 DEF Bounded
  <2>3. r * d = (r * p * u) * s
    BY <1>4
  <2>4. PICK y \in Int : y = r * p * u
    OBVIOUS
  <2>5. a * s >= y * s
    <3>1. a * s \in Int /\ y * s \in Int /\ r * d \in Int
      OBVIOUS
    <3>. QED  BY <2>2, <2>3, <2>4, <3>1
  <2>6. a >= y
    BY <2>5, Cancels
  <2>. QED  BY <1>2, <2>1, <2>4, <2>6
<1>8. delta[i] = 0 => Rounded(i) = 0
  BY <1>2, <1>5, <1>6 DEF Bounded
<1>. QED  BY <1>5, <1>6, <1>7, <1>8

\* A quantity no larger than another costs no more.
LEMMA CostsNoMore ==
  ASSUME NEW q \in Int, NEW r \in Int, NEW p \in Nat \ {0}, NEW u \in Nat \ {0},
         Magnitude(q) <= Magnitude(r)
  PROVE  Magnitude(q) * p * u <= Magnitude(r) * p * u
<1>1. PICK a \in Nat, b \in Nat : a = Magnitude(q) /\ b = Magnitude(r) /\ b >= a
  BY Magnitudes
<1>2. b * p >= a * p
  BY <1>1, Cancels
<1>3. PICK c \in Int, d \in Int : c = a * p /\ d = b * p /\ d >= c
  BY <1>2
<1>4. d * u >= c * u
  BY <1>3, Cancels
<1>5. c * u \in Int /\ d * u \in Int
  OBVIOUS
<1>. QED  BY <1>1, <1>3, <1>4, <1>5

\* The quantity of a selected candidate is on its side, held, and not past the target.
LEMMA WholeStops ==
  ASSUME QuestionTypes, RungTypes, NEW i \in Cand, Bounded(i)
  PROVE  /\ Whole(i) \in Int
         /\ Whole(i) > 0 => i \in Buys
         /\ Whole(i) < 0 => i \in Sells
         /\ Whole(i) >= -pool[i].held
         /\ rankBy = "percent" =>
               Magnitude(Whole(i)) * pool[i].price * Unit <= Magnitude(delta[i])
<1>1. /\ Unit \in Nat \ {0} /\ pool[i].price \in Nat \ {0} /\ pool[i].held \in Nat
      /\ delta[i] \in Int
  BY Members, ValuesAdd, DeltasAdd
<1>2. /\ Rounded(i) \in Int
      /\ delta[i] = 0 => Rounded(i) = 0
      /\ rankBy = "percent" =>
            Magnitude(Rounded(i)) * pool[i].price * Unit <= Magnitude(delta[i])
  BY RoundedIsBounded
<1>3. PICK r \in Int, h \in Nat, a \in Int : r = Rounded(i) /\ h = pool[i].held /\ a = delta[i]
  BY <1>1, <1>2
<1>4. Whole(i) = CASE a > 0 /\ r < 0 -> 0
                   [] a < 0 /\ r > 0 -> 0
                   [] a < 0 /\ r < -h -> -h
                   [] OTHER -> r
  BY <1>3 DEF Whole
<1>5. PICK q : q = Whole(i)
  OBVIOUS
<1>6. /\ q \in Int
      /\ (q > 0 => a > 0 /\ r >= q) /\ (q < 0 => a < 0 /\ r <= q)
      /\ q >= -h
  <2>1. CASE a > 0 /\ r < 0
    BY <1>4, <1>5, <2>1
  <2>2. CASE a < 0 /\ r > 0
    BY <1>4, <1>5, <2>2
  <2>3. CASE a < 0 /\ r < -h
    <3>1. q = -h
      BY <1>4, <1>5, <2>3
    <3>. QED  BY <2>3, <3>1
  <2>4. CASE ~(a > 0 /\ r < 0) /\ ~(a < 0 /\ r > 0) /\ ~(a < 0 /\ r < -h)
    <3>1. q = r
      BY <1>4, <1>5, <2>4
    <3>2. a = 0 => r = 0
      BY <1>2, <1>3
    <3>. QED  BY <2>4, <3>1, <3>2
  <2>. QED  BY <2>1, <2>2, <2>3, <2>4
<1>7. Magnitude(q) <= Magnitude(r)
  BY <1>6 DEF Magnitude
<1>8. rankBy = "percent" => Magnitude(q) * pool[i].price * Unit <= Magnitude(delta[i])
  <2>1. Magnitude(q) * pool[i].price * Unit <= Magnitude(r) * pool[i].price * Unit
    BY <1>1, <1>6, <1>7, CostsNoMore
  <2>2. /\ Magnitude(q) * pool[i].price * Unit \in Int /\ Magnitude(r) * pool[i].price * Unit \in Int
        /\ Magnitude(delta[i]) \in Int
    <3>1. Magnitude(q) \in Nat /\ Magnitude(r) \in Nat /\ Magnitude(delta[i]) \in Nat
      BY <1>1, <1>6, Magnitudes
    <3>. QED  BY <1>1, <3>1
  <2>. QED  BY <1>2, <1>3, <2>1, <2>2
<1>9. (q > 0 => i \in Buys) /\ (q < 0 => i \in Sells)
  BY <1>3, <1>6 DEF Buys, Sells
<1>. QED  BY <1>3, <1>5, <1>6, <1>8, <1>9

\* One share more or less leaves a trade within its bounds.
LEMMA NudgeStops ==
  ASSUME QuestionTypes, RungTypes, NEW i \in selected, Stops(i), MayNudge(i)
  PROVE  LET q == quantity[i] + Nudge
         IN /\ q \in Int
            /\ q > 0 => i \in selected \cap Buys
            /\ q < 0 => i \in selected \cap Sells
            /\ q >= -pool[i].held
            /\ rankBy = "percent" => Magnitude(q) * pool[i].price * Unit <= Magnitude(delta[i])
<1>1. i \in Cand /\ quantity[i] \in Int
  BY DEF RungTypes
<1>2. /\ Unit \in Nat \ {0} /\ pool[i].price \in Nat \ {0} /\ pool[i].held \in Nat
      /\ delta[i] \in Int
  BY <1>1, Members, ValuesAdd, DeltasAdd
<1>3. PICK h \in Nat, a \in Int, r \in Int : h = pool[i].held /\ a = delta[i] /\ r = quantity[i]
  BY <1>1, <1>2
<1>4. PICK n \in Int : n = Nudge /\ (n = 1 \/ n = -1)
  BY DEF Nudge
<1>5. /\ r > 0 => a > 0
      /\ r < 0 => a < 0
      /\ r >= -h
  BY <1>1, <1>3 DEF Stops, Buys, Sells
<1>6. n * a = IF n = 1 THEN a ELSE -a
  <2>1. CASE n = 1
    BY <2>1
  <2>2. CASE n = -1
    BY <2>2
  <2>. QED  BY <1>4, <2>1, <2>2
<1>7. PICK q \in Int : q = r + n
  OBVIOUS
<1>8. CASE MayShrink(i)
  <2>1. n * a < 0 /\ r # 0
    BY <1>3, <1>4, <1>8 DEF MayShrink
  <2>2. (q > 0 => r > 0 /\ a > 0) /\ (q < 0 => r < 0 /\ a < 0) /\ q >= -h
    BY <1>4, <1>5, <1>6, <1>7, <2>1
  <2>3. Magnitude(q) <= Magnitude(r)
    BY <1>4, <1>5, <1>6, <1>7, <2>1 DEF Magnitude
  <2>4. Magnitude(q) * pool[i].price * Unit <= Magnitude(r) * pool[i].price * Unit
    BY <1>2, <2>3, CostsNoMore
  <2>5. rankBy = "percent" => Magnitude(q) * pool[i].price * Unit <= Magnitude(delta[i])
    <3>1. Magnitude(q) \in Nat /\ Magnitude(r) \in Nat /\ Magnitude(delta[i]) \in Nat
      BY <1>2, Magnitudes
    <3>2. /\ Magnitude(q) * pool[i].price * Unit \in Int
          /\ Magnitude(r) * pool[i].price * Unit \in Int
      BY <1>2, <3>1
    <3>3. rankBy = "percent" => Magnitude(r) * pool[i].price * Unit <= Magnitude(delta[i])
      BY <1>3 DEF Stops
    <3>. QED  BY <2>4, <3>1, <3>2, <3>3
  <2>6. (q > 0 => i \in Buys) /\ (q < 0 => i \in Sells)
    BY <1>1, <1>3, <2>2 DEF Buys, Sells
  <2>. QED  BY <1>3, <1>4, <1>7, <2>2, <2>5, <2>6
<1>9. CASE MayGrow(i)
  <2>1. n * a > 0 /\ (a < 0 => r > -h)
    BY <1>3, <1>4, <1>9 DEF MayGrow
  <2>2. (q > 0 => a > 0) /\ (q < 0 => a < 0) /\ q >= -h
    BY <1>4, <1>5, <1>6, <1>7, <2>1
  <2>3. rankBy = "percent" => Magnitude(q) * pool[i].price * Unit <= Magnitude(delta[i])
    BY <1>3, <1>4, <1>7, <1>9 DEF MayGrow
  <2>4. (q > 0 => i \in Buys) /\ (q < 0 => i \in Sells)
    BY <1>1, <1>3, <2>2 DEF Buys, Sells
  <2>. QED  BY <1>3, <1>4, <1>7, <2>2, <2>3, <2>4
<1>. QED  BY <1>8, <1>9 DEF MayNudge

\* There is a cheapest share to repair with.
LEMMA CheapestExists ==
  ASSUME QuestionTypes, RungTypes, Repairable # {}
  PROVE  Cheapest \in Repairable
<1> DEFINE Cheaper(i, j) == \/ pool[i].price < pool[j].price
                            \/ pool[i].price = pool[j].price /\ i < j
           R == {e \in Cand \X Cand : Cheaper(e[1], e[2])}
<1>1. Repairable \in SUBSET Cand /\ IsFiniteSet(Repairable)
  BY CandIsFinite, FS_Subset DEF Repairable, RungTypes
<1>2. \A i \in Cand : pool[i].price \in Int /\ i \in Int
  BY Members DEF Cand
<1>3. Orders(R, Repairable)
  <2>1. \A i, j \in Cand : <<i, j>> \in R <=> Cheaper(i, j)
    OBVIOUS
  <2>2. \A i, j \in Cand : i # j => (Cheaper(i, j) <=> ~Cheaper(j, i))
    BY <1>2
  <2>3. \A i \in Cand : ~Cheaper(i, i)
    BY <1>2
  <2>4. \A i, j, k \in Cand : Cheaper(i, j) /\ Cheaper(j, k) => Cheaper(i, k)
    BY <1>2
  <2>. HIDE DEF R, Cheaper
  <2>. QED  BY <1>1, <2>1, <2>2, <2>3, <2>4 DEF Orders
<1>4. \E i \in Repairable : \A j \in Repairable \ {i} : <<i, j>> \in R
  <2>. HIDE DEF R
  <2>. QED  BY <1>1, <1>3, FirstExists
<1>5. \E i \in Repairable : \A j \in Repairable \ {i} : Cheaper(i, j)
  BY <1>1, <1>4
<1>. QED  BY <1>5 DEF Cheapest

-----------------------------------------------------------------------------
(* Selection.                                                                  *)

\* Taking one in for another leaves the number as it is.
LEMMA Swapped ==
  ASSUME NEW S, IsFiniteSet(S), NEW x \in S, NEW y, y \notin S
  PROVE  Cardinality((S \ {x}) \cup {y}) = Cardinality(S)
<1>1. IsFiniteSet(S \ {x}) /\ Cardinality(S \ {x}) = Cardinality(S) - 1
  BY FS_RemoveElement
<1>2. Cardinality((S \ {x}) \cup {y}) = Cardinality(S \ {x}) + 1
  BY <1>1, FS_AddElement
<1>3. Cardinality(S) \in Nat
  BY FS_CardinalityType
<1>. QED  BY <1>1, <1>2, <1>3

\* Two in a set of at least two members.
LEMMA AnotherOne ==
  ASSUME NEW S, IsFiniteSet(S), Cardinality(S) >= 2, NEW x \in S
  PROVE  S \ {x} # {}
<1>1. Cardinality(S \ {x}) = Cardinality(S) - 1 /\ Cardinality(S) \in Nat
  BY FS_RemoveElement, FS_CardinalityType
<1>2. S \ {x} = {} => Cardinality(S \ {x}) = 0
  BY FS_EmptySet
<1>. QED  BY <1>1, <1>2

\* If all that rank first are on target, all are.
LEMMA TopOffTarget ==
  ASSUME QuestionTypes, \A i \in Top : delta[i] = 0
  PROVE  \A i \in Cand : delta[i] = 0
<1> SUFFICES ASSUME NEW b \in Cand, delta[b] # 0  PROVE FALSE
  OBVIOUS
<1>1. Top \in SUBSET Cand /\ Top # {} /\ b \notin Top
  BY TopIsFull
<1>2. PICK t \in Top : t \in Cand
  BY <1>1
<1>3. ~Before(t, b)
  BY <1>2, OnTargetLast
<1>4. Orders(Ranking, Cand)
  BY RankedInOrder
<1>5. \A i, j \in Cand : <<i, j>> \in Ranking <=> Before(i, j)
  BY DEF Ranking
<1>6. Before(b, t)
  BY <1>1, <1>2, <1>3, <1>4, <1>5 DEF Orders
<1>7. \A y \in Cand \ {b} : Before(y, b) => y \in Cand \ {t} /\ Before(y, t)
  BY <1>2, <1>3, <1>4, <1>5, <1>6 DEF Orders
<1> DEFINE Above(x) == {y \in Cand \ {x} : Before(y, x)}
<1>8. Above(b) \in SUBSET Above(t) /\ Above(t) \in SUBSET Cand
  BY <1>7
<1>9. Cardinality(Above(t)) < count /\ ~(Cardinality(Above(b)) < count)
  BY <1>1, <1>2 DEF Top
<1>10. count \in Int
  BY CandIsFinite DEF QuestionTypes, Cand
<1>. HIDE DEF Above
<1>11. /\ IsFiniteSet(Above(t)) /\ IsFiniteSet(Above(b))
       /\ Cardinality(Above(b)) <= Cardinality(Above(t))
  BY <1>8, CandIsFinite, FS_Subset
<1>12. Cardinality(Above(b)) \in Nat /\ Cardinality(Above(t)) \in Nat
  BY <1>11, FS_CardinalityType
<1>. QED  BY <1>9, <1>10, <1>11, <1>12

\* The swap for the missing side takes nobody away that the other side needs.
LEMMA SelectServes ==
  ASSUME QuestionTypes, Select
  PROVE  selected' \in SUBSET Cand /\ Serve(selected')
<1> DEFINE last == LastRanked(Top)
           first == FirstRanked(WantedSide)
           wanted == WantedSide
           swapped == (Top \ {last}) \cup {first}
<1>1. /\ Top \in SUBSET Cand /\ Cardinality(Top) = count /\ IsFiniteSet(Top) /\ Top # {}
      /\ last \in Top /\ \A j \in Top \ {last} : Before(j, last)
  BY TopIsFull, FirstAndLast
<1>2. WantedSide \in SUBSET Cand
  BY DEF WantedSide, Buys, Sells
<1>3. WantedSide # {} => first \in WantedSide
  BY <1>2, FirstAndLast
<1>4. selected' = IF WantedSide = {} \/ Top \cap WantedSide # {} THEN Top ELSE swapped
  BY DEF Select
<1>5. selected' \in SUBSET Cand /\ Cardinality(selected') = count
  <2>1. CASE WantedSide = {} \/ Top \cap WantedSide # {}
    BY <1>1, <1>4, <2>1
  <2>2. CASE WantedSide # {} /\ Top \cap WantedSide = {}
    <3>1. first \notin Top /\ first \in Cand
      BY <1>2, <1>3, <2>2
    <3>2. selected' = swapped
      BY <1>4, <2>2
    <3>3. Cardinality(swapped) = Cardinality(Top)
      <4>. HIDE DEF last, first
      <4>. QED  BY <1>1, <3>1, Swapped
    <3>. QED  BY <1>1, <3>1, <3>2, <3>3
  <2>. QED  BY <2>1, <2>2
<1>6. WantedSide # {} => selected' \cap WantedSide # {}
  BY <1>3, <1>4
<1>7. delta \in [Cand -> Int] /\ offset \in Int /\ count \in Nat
  BY DeltasAdd, ValuesAdd, CandIsFinite DEF QuestionTypes, Cand
<1>8. offset > 0 => selected' \cap Buys # {}
  BY <1>6, <1>7, SomebodyServes DEF WantedSide
<1>9. offset < 0 => selected' \cap Sells # {}
  BY <1>6, <1>7, SomebodyServes DEF WantedSide
<1>10. ASSUME offset = 0, count >= 2, Buys # {}
       PROVE  selected' \cap Buys # {} /\ selected' \cap Sells # {}
  <2>1. Sells # {}
    BY <1>10, SomebodyServes
  <2>2. \A i \in Cand : delta[i] # 0 <=> i \in Buys \/ i \in Sells
    BY <1>7 DEF Buys, Sells
  <2>3. Top \cap Buys # {} \/ Top \cap Sells # {}
    <3> SUFFICES ASSUME Top \cap Buys = {}, Top \cap Sells = {}  PROVE FALSE
      OBVIOUS
    <3>1. \A i \in Top : delta[i] = 0
      BY <1>1, <2>2
    <3>2. \A i \in Cand : delta[i] = 0
      BY <3>1, TopOffTarget
    <3>3. Buys \in SUBSET Cand
      BY DEF Buys
    <3>. QED  BY <1>10, <2>2, <3>2, <3>3
  <2>4. PICK other \in Top \ {last} : TRUE
    BY <1>1, <1>10, AnotherOne
  <2>5. delta[last] # 0 => delta[other] # 0
    BY <1>1, <2>4, OnTargetLast
  <2>6. CASE Top \cap Buys # {}
    <3>1. WantedSide = Sells
      BY <1>7, <1>10, <2>6 DEF WantedSide
    <3>2. CASE Top \cap Sells # {}
      BY <1>4, <2>6, <3>1, <3>2
    <3>3. CASE Top \cap Sells = {}
      <4>1. selected' = swapped
        BY <1>4, <2>1, <3>1, <3>3
      <4>2. last \in Buys => other \in Buys
        <5>1. other \in Cand /\ last \in Cand /\ other \notin Sells
          BY <1>1, <2>4, <3>3
        <5>. QED  BY <2>2, <2>5, <5>1
      <4>3. \E i \in Top : i # last /\ i \in Buys
        BY <2>4, <2>6, <4>2
      <4>. QED  BY <1>6, <2>1, <3>1, <4>1, <4>3
    <3>. QED  BY <3>2, <3>3
  <2>7. CASE Top \cap Buys = {}
    <3>1. WantedSide = Buys
      BY <1>7, <1>10, <2>3, <2>7 DEF WantedSide
    <3>2. selected' = swapped
      BY <1>4, <1>10, <2>7, <3>1
    <3>3. last \in Sells => other \in Sells
      <4>1. other \in Cand /\ last \in Cand /\ other \notin Buys
        BY <1>1, <2>4, <2>7
      <4>. QED  BY <2>2, <2>5, <4>1
    <3>4. \E i \in Top : i # last /\ i \in Sells
      BY <2>3, <2>4, <2>7, <3>3
    <3>. QED  BY <1>6, <1>10, <3>1, <3>2, <3>4
  <2>. QED  BY <2>6, <2>7
<1>. QED  BY <1>5, <1>8, <1>9, <1>10 DEF Serve

\* A further sell leaves the rung as many candidates, and a sell.
LEMMA RaiseServes ==
  ASSUME QuestionTypes, RungTypes, Serve(selected), RaiseMore
  PROVE  selected' \in SUBSET Cand /\ Serve(selected')
<1> DEFINE last == LastRanked(selected \ Sells)
           first == FirstRanked(Sells \ selected)
<1>1. /\ selected \in SUBSET Cand /\ Sells \in SUBSET Cand /\ IsFiniteSet(selected)
  BY CandIsFinite, FS_Subset DEF RungTypes, Sells
<1>2. /\ offset < 0 /\ offset \in Int
      /\ selected \ Sells # {} /\ Sells \ selected # {}
      /\ selected' = (selected \ {last}) \cup {first}
  BY ValuesAdd DEF RaiseMore, MoreSells
<1>3. last \in selected \ Sells /\ first \in Sells \ selected
  <2>1. selected \ Sells \in SUBSET Cand /\ Sells \ selected \in SUBSET Cand
    BY <1>1
  <2>. QED  BY <1>2, <2>1, FirstAndLast
<1>4. Cardinality(selected') = Cardinality(selected)
  <2>. HIDE DEF last, first
  <2>. QED  BY <1>1, <1>2, <1>3, Swapped
<1>5. selected' \cap Sells # {}
  BY <1>2, <1>3
<1>6. ~(offset > 0) /\ offset # 0
  BY <1>2
<1>7. selected' \in SUBSET Cand
  BY <1>1, <1>2, <1>3
<1>. QED  BY <1>4, <1>5, <1>6, <1>7 DEF Serve

-----------------------------------------------------------------------------
(* The steps.                                                                  *)

\* What has no share, and no quantity, is within all bounds.
LEMMA NothingFits ==
  ASSUME QuestionTypes, NEW i \in Cand
  PROVE  /\ 0 >= -pool[i].held
         /\ Magnitude(0) * pool[i].price * Unit <= Magnitude(delta[i])
         /\ Magnitude(0) <= Magnitude(delta[i]) * 1
<1>1. pool[i].price \in Nat /\ pool[i].held \in Nat /\ Unit \in Nat /\ delta[i] \in Int
  BY Members, ValuesAdd, DeltasAdd
<1>2. Magnitude(0) = 0 /\ Magnitude(delta[i]) \in Nat
  BY <1>1, Magnitudes
<1>3. 0 * pool[i].price * Unit = 0 /\ Magnitude(delta[i]) * 1 = Magnitude(delta[i])
  BY <1>1, <1>2
<1>. QED  BY <1>1, <1>2, <1>3

\* Steps that select, before anything is shared.
LEMMA SelectingKeepsInv ==
  ASSUME RungInv, stage \in {"select", "raise"},
         \/ stage' \in {"select", "raise"}
         \/ stage' = "share" /\ free' \subseteq selected' \cap (Buys \cup Sells),
         stage' \in {"select", "raise"} => free' = free, free' \in SUBSET Cand,
         selected' \in SUBSET Cand, Serve(selected'),
         UNCHANGED <<question, share, scale, fallback, rounding>>
  PROVE  RungInv'
<1>1. QuestionTypes /\ RungTypes /\ Sharing /\ Trading
  BY DEF RungInv
<1>2. /\ QuestionTypes' /\ Unit' = Unit /\ Buys' = Buys /\ Sells' = Sells
      /\ pool' = pool /\ offset' = offset /\ rankBy' = rankBy /\ count' = count /\ delta' = delta
  BY <1>1, QuestionStays DEF question
<1>3. /\ share' = share /\ scale' = scale /\ fallback' = fallback
      /\ quantity' = quantity /\ residual' = residual
  BY DEF rounding
<1>4. stage' \in {"select", "raise", "share"}
  OBVIOUS
<1>5. RungTypes'
  <2>1. stage' \in {"select", "raise", "share", "round", "repair", "done"}
    BY <1>4
  <2>. QED  BY <1>1, <1>2, <1>3, <2>1 DEF RungTypes, Cand
<1>6. /\ scale = 1 /\ free = {} /\ \A i \in Cand : share[i] = 0 /\ quantity[i] = 0
  BY <1>1 DEF Sharing, Trading
<1>7. Cand' = Cand
  BY DEF Cand
<1>8. ASSUME NEW i \in Cand  PROVE Bounded(i)' /\ Stops(i)'
  BY <1>1, <1>2, <1>3, <1>6, NothingFits DEF Bounded, Stops
<1>9. Sharing'
  BY <1>2, <1>3, <1>4, <1>6, <1>7, <1>8 DEF Sharing
<1>10. Trading'
  BY <1>3, <1>4, <1>6, <1>7, <1>8 DEF Trading
<1>11. Serve(selected)'
  BY <1>2 DEF Serve
<1>12. SharesAddUp'
  BY <1>4 DEF SharesAddUp
<1>. QED  BY <1>2, <1>5, <1>9, <1>10, <1>11, <1>12 DEF RungInv

\* The three steps that select.
LEMMA SelectKeepsInv == RungInv /\ (Select \/ RaiseMore \/ StartSharing) => RungInv'
<1> SUFFICES ASSUME RungInv, Select \/ RaiseMore \/ StartSharing  PROVE RungInv'
  OBVIOUS
<1>1. QuestionTypes /\ RungTypes /\ (stage # "select" => Serve(selected))
  BY DEF RungInv
<1>2. CASE Select
  <2>1. selected' \in SUBSET Cand /\ Serve(selected')
    BY <1>1, <1>2, SelectServes
  <2>2. stage = "select" /\ stage' = "raise" /\ UNCHANGED <<question, sharing, rounding>>
    BY <1>2 DEF Select
  <2>. QED  BY <1>1, <2>1, <2>2, SelectingKeepsInv DEF sharing, RungTypes
<1>3. CASE RaiseMore
  <2>1. stage = "raise" /\ stage' = "raise" /\ UNCHANGED <<question, sharing, rounding>>
    BY <1>3 DEF RaiseMore
  <2>2. selected' \in SUBSET Cand /\ Serve(selected')
    BY <1>1, <1>3, <2>1, RaiseServes
  <2>. QED  BY <1>1, <2>1, <2>2, SelectingKeepsInv DEF sharing, RungTypes
<1>4. CASE StartSharing
  <2>1. /\ stage = "raise" /\ stage' = "share" /\ free' = selected \cap (Buys \cup Sells)
        /\ selected' = selected
        /\ UNCHANGED <<question, share, scale, fallback, rounding>>
    BY <1>4 DEF StartSharing
  <2>2. selected' \in SUBSET Cand /\ free' \in SUBSET Cand /\ Serve(selected')
    BY <1>1, <2>1 DEF RungTypes
  <2>. QED  BY <2>1, <2>2, SelectingKeepsInv
<1>. QED  BY <1>2, <1>3, <1>4

\* A pass fixes shares at nothing or at their limits.
LEMMA FixKeepsInv == RungInv /\ FixViolators => RungInv'
<1> SUFFICES ASSUME RungInv, FixViolators  PROVE RungInv'
  OBVIOUS
<1>1. QuestionTypes /\ RungTypes /\ Sharing /\ Trading /\ Serve(selected)
  BY DEF RungInv, FixViolators
<1>2. UNCHANGED question
  BY DEF FixViolators
<1>3. /\ QuestionTypes' /\ Unit' = Unit /\ Buys' = Buys /\ Sells' = Sells /\ Cand' = Cand
      /\ pool' = pool /\ offset' = offset /\ rankBy' = rankBy /\ count' = count /\ delta' = delta
  BY <1>1, <1>2, QuestionStays DEF question, Cand
<1>4. /\ stage = "share" /\ stage' = "share" /\ selected' = selected
      /\ scale' = scale /\ fallback' = fallback /\ quantity' = quantity /\ residual' = residual
      /\ share' = [i \in Cand |-> IF i \in TooFar THEN Limit(i) ELSE share[i]]
      /\ free' = free \ (WrongWay \cup TooFar)
  BY DEF FixViolators, rounding
<1>5. \A i \in Cand : Limit(i) \in Int /\ share[i] \in Int
  BY <1>1, AmountsToShare DEF RungTypes
<1>6. RungTypes'
  <2>1. share' \in [Cand -> Int]
    BY <1>4, <1>5
  <2>2. free' \in SUBSET Cand
    BY <1>1, <1>4 DEF RungTypes
  <2>. QED  BY <1>1, <1>3, <1>4, <2>1, <2>2 DEF RungTypes
<1>7. scale = 1 /\ free \subseteq selected \cap (Buys \cup Sells)
      /\ (\A i \in Cand : Bounded(i)) /\ \A i \in free : share[i] = 0
  BY <1>1, <1>4 DEF Sharing
<1>8. ASSUME NEW i \in Cand  PROVE Bounded(i)'
  <2>1. delta[i] \in Int
    BY <1>1, DeltasAdd
  <2>2. CASE i \in TooFar
    <3>1. i \in free /\ i \in selected /\ delta[i] # 0
      BY <1>7, <2>1, <2>2 DEF TooFar, Buys, Sells
    <3>2. share'[i] = Limit(i) /\ (rankBy = "percent" => Limit(i) = delta[i])
      BY <1>4, <2>2 DEF Limit
    <3>3. Magnitude(delta[i]) <= Magnitude(delta[i]) * 1
      BY <2>1, Magnitudes
    <3>. QED  BY <1>3, <1>4, <1>7, <3>1, <3>2, <3>3 DEF Bounded
  <2>3. CASE i \notin TooFar
    <3>1. Bounded(i) /\ share'[i] = share[i]
      BY <1>4, <1>7, <2>3
    <3>. QED  BY <1>3, <1>4, <3>1 DEF Bounded
  <2>. QED  BY <2>2, <2>3
<1>9. Sharing'
  <2>1. \A i \in free' : share'[i] = 0
    BY <1>1, <1>4, <1>7 DEF RungTypes
  <2>. QED  BY <1>3, <1>4, <1>7, <1>8, <2>1 DEF Sharing
<1>10. Trading'
  BY <1>1, <1>3, <1>4 DEF Trading, Stops
<1>11. Serve(selected)' /\ SharesAddUp'
  BY <1>1, <1>3, <1>4 DEF Serve, SharesAddUp
<1>. QED  BY <1>3, <1>6, <1>9, <1>10, <1>11 DEF RungInv

\* The last pass settles all shares; or they all were zero and become the deltas.
LEMMA EndKeepsInv == RungInv /\ EndSharing => RungInv'
<1> SUFFICES ASSUME RungInv, EndSharing  PROVE RungInv'
  OBVIOUS
<1>1. QuestionTypes /\ RungTypes /\ Sharing /\ Trading /\ Serve(selected)
  BY DEF RungInv, EndSharing
<1>2. UNCHANGED question
  BY DEF EndSharing
<1>3. /\ QuestionTypes' /\ Unit' = Unit /\ Buys' = Buys /\ Sells' = Sells /\ Cand' = Cand
      /\ pool' = pool /\ offset' = offset /\ rankBy' = rankBy /\ count' = count /\ delta' = delta
  BY <1>1, <1>2, QuestionStays DEF question, Cand
<1>4. /\ stage = "share" /\ WrongWay \cup TooFar = {}
      /\ stage' = "round" /\ fallback' = NothingShared
      /\ share' = IF NothingShared
                  THEN [i \in Cand |-> IF i \in selected THEN delta[i] ELSE 0]
                  ELSE Settled
      /\ scale' = IF NothingShared THEN 1 ELSE SettledScale
      /\ selected' = selected /\ free' = free
      /\ quantity' = quantity /\ residual' = residual
  BY DEF EndSharing, rounding
<1>5. Settled \in [Cand -> Int] /\ SettledScale \in Nat \ {0} /\ delta \in [Cand -> Int]
  BY <1>1, AmountsToShare, DeltasAdd
<1>6. RungTypes'
  <2>1. share' \in [Cand -> Int] /\ scale' \in Nat \ {0}
    BY <1>4, <1>5
  <2>2. fallback' \in BOOLEAN
    BY <1>4 DEF NothingShared
  <2>3. stage' \in {"select", "raise", "share", "round", "repair", "done"}
    BY <1>4
  <2>. QED  BY <1>1, <1>3, <1>4, <2>1, <2>2, <2>3 DEF RungTypes
<1>7. ASSUME NEW i \in Cand  PROVE Bounded(i)'
  <2>1. CASE NothingShared
    <3>1. share'[i] = (IF i \in selected THEN delta[i] ELSE 0) /\ scale' = 1
      BY <1>4, <2>1
    <3>2. /\ Magnitude(delta[i]) <= Magnitude(delta[i]) * 1
          /\ Magnitude(0) <= Magnitude(delta[i]) * 1
      BY <1>1, <1>5, Magnitudes, NothingFits
    <3>. QED  BY <1>3, <1>4, <3>1, <3>2 DEF Bounded
  <2>2. CASE ~NothingShared
    <3>1. share' = Settled /\ scale' = SettledScale
      BY <1>4, <2>2
    <3>2. /\ i \notin selected \/ delta[i] = 0 => Settled[i] = 0
          /\ rankBy = "percent" => Magnitude(Settled[i]) <= Magnitude(delta[i]) * SettledScale
      BY <1>1, <1>4, SettledIsBounded
    <3>. QED  BY <1>3, <1>4, <3>1, <3>2 DEF Bounded
  <2>. QED  BY <2>1, <2>2
<1>8. Sharing'
  BY <1>3, <1>4, <1>7 DEF Sharing
<1>9. Trading'
  BY <1>1, <1>3, <1>4 DEF Trading, Stops
<1>10. Serve(selected)'
  BY <1>1, <1>3, <1>4 DEF Serve
<1>11. SharesAddUp'
  <2> SUFFICES ASSUME ~NothingShared, free # {}
               PROVE  SumFunctionOnSet(share', Cand) = offset * Unit * scale'
    BY <1>3, <1>4 DEF SharesAddUp
  <2>1. share' = Settled /\ scale' = SettledScale
    BY <1>4
  <2>2. SumFunctionOnSet(Settled, Cand) = offset * Unit * SettledScale
    BY <1>1, <1>4, SettledMeetsOffset
  <2>. QED  BY <2>1, <2>2
<1>. QED  BY <1>3, <1>6, <1>8, <1>9, <1>10, <1>11 DEF RungInv

\* Quantities cost whole amounts.
LEMMA NetIsWhole ==
  ASSUME QuestionTypes, NEW q \in [Cand -> Int]
  PROVE  Net(q) \in Int
<1> DEFINE cost == [i \in Cand |-> q[i] * pool[i].price]
<1>1. \A i \in Cand : cost[i] \in Int
  BY Members
<1>2. Adds(cost, Cand)
  BY <1>1, CandIsFinite DEF Adds
<1>. HIDE DEF cost
<1>3. SumFunctionOnSet(cost, Cand) \in Int
  BY <1>2, SumIsInt
<1>. QED  BY <1>3 DEF Net, cost

\* Rounding keeps trades within their bounds.
LEMMA RoundKeepsInv == RungInv /\ Round => RungInv'
<1> SUFFICES ASSUME RungInv, Round  PROVE RungInv'
  OBVIOUS
<1>1. QuestionTypes /\ RungTypes /\ Sharing /\ Serve(selected)
  BY DEF RungInv, Round
<1>2. UNCHANGED question
  BY DEF Round
<1>3. /\ QuestionTypes' /\ Unit' = Unit /\ Buys' = Buys /\ Sells' = Sells /\ Cand' = Cand
      /\ pool' = pool /\ offset' = offset /\ rankBy' = rankBy /\ count' = count /\ delta' = delta
  BY <1>1, <1>2, QuestionStays DEF question, Cand
<1>4. /\ stage = "round" /\ stage' \in {"repair", "done"}
      /\ quantity' = [i \in Cand |-> IF i \in selected THEN Whole(i) ELSE 0]
      /\ residual' = offset - Net(quantity')
      /\ selected' = selected /\ free' = free /\ share' = share /\ scale' = scale
      /\ fallback' = fallback
  BY DEF Round, sharing
<1>5. ASSUME NEW i \in Cand
      PROVE  /\ Bounded(i) /\ Whole(i) \in Int
             /\ Whole(i) > 0 => i \in Buys
             /\ Whole(i) < 0 => i \in Sells
             /\ Whole(i) >= -pool[i].held
             /\ rankBy = "percent" =>
                   Magnitude(Whole(i)) * pool[i].price * Unit <= Magnitude(delta[i])
  <2>1. Bounded(i)
    BY <1>1 DEF Sharing
  <2>. QED  BY <1>1, <2>1, WholeStops
<1>6. quantity' \in [Cand -> Int]
  BY <1>4, <1>5
<1>7. RungTypes'
  <2>1. Net(quantity') \in Int
    BY <1>1, <1>6, NetIsWhole
  <2>2. residual' \in Int
    BY <1>1, <1>4, <2>1, ValuesAdd
  <2>3. stage' \in {"select", "raise", "share", "round", "repair", "done"}
    BY <1>4
  <2>. QED  BY <1>1, <1>3, <1>4, <1>6, <2>2, <2>3 DEF RungTypes
<1>8. Sharing'
  <2>1. \A i \in Cand : Bounded(i)'
    BY <1>3, <1>4, <1>5 DEF Bounded
  <2>. QED  BY <1>3, <1>4, <2>1 DEF Sharing
<1>9. Trading'
  <2>1. ASSUME NEW i \in Cand  PROVE Stops(i)'
    <3>1. CASE i \in selected
      <4>1. quantity'[i] = Whole(i)
        BY <1>4, <3>1
      <4>. QED  BY <1>3, <1>4, <1>5, <3>1, <4>1 DEF Stops
    <3>2. CASE i \notin selected
      <4>1. quantity'[i] = 0
        BY <1>4, <3>2
      <4>. QED  BY <1>1, <1>3, <1>4, <4>1, NothingFits DEF Stops
    <3>. QED  BY <3>1, <3>2
  <2>. QED  BY <1>3, <1>4, <2>1 DEF Trading
<1>10. Serve(selected)' /\ SharesAddUp'
  BY <1>1, <1>3, <1>4 DEF Serve, SharesAddUp
<1>. QED  BY <1>3, <1>7, <1>8, <1>9, <1>10 DEF RungInv

\* Each repair does.
LEMMA RepairKeepsInv == RungInv /\ Repair => RungInv'
<1> SUFFICES ASSUME RungInv, Repair  PROVE RungInv'
  OBVIOUS
<1>1. QuestionTypes /\ RungTypes /\ Sharing /\ Trading /\ Serve(selected)
  BY DEF RungInv, Repair
<1>2. UNCHANGED question
  BY DEF Repair
<1>3. /\ QuestionTypes' /\ Unit' = Unit /\ Buys' = Buys /\ Sells' = Sells /\ Cand' = Cand
      /\ pool' = pool /\ offset' = offset /\ rankBy' = rankBy /\ count' = count /\ delta' = delta
  BY <1>1, <1>2, QuestionStays DEF question, Cand
<1>4. /\ stage = "repair" /\ stage' = "repair" /\ Repairable # {}
      /\ quantity' = [quantity EXCEPT ![Cheapest] = @ + Nudge]
      /\ residual' = residual - Nudge * pool[Cheapest].price
      /\ selected' = selected /\ free' = free /\ share' = share /\ scale' = scale
      /\ fallback' = fallback
  BY DEF Repair, sharing
<1>5. PICK c \in selected : c = Cheapest /\ MayNudge(c) /\ c \in Cand
  BY <1>1, <1>4, CheapestExists DEF Repairable, RungTypes
<1>6. PICK q : q = quantity[c] + Nudge
  OBVIOUS
<1>7. /\ q \in Int
      /\ q > 0 => c \in selected \cap Buys
      /\ q < 0 => c \in selected \cap Sells
      /\ q >= -pool[c].held
      /\ rankBy = "percent" => Magnitude(q) * pool[c].price * Unit <= Magnitude(delta[c])
  <2>1. Stops(c)
    BY <1>1, <1>5 DEF Trading
  <2>. QED  BY <1>1, <1>5, <1>6, <2>1, NudgeStops
<1>8. quantity' = [quantity EXCEPT ![c] = q] /\ quantity \in [Cand -> Int]
  BY <1>1, <1>4, <1>5, <1>6 DEF RungTypes
<1>9. RungTypes'
  <2>1. quantity' \in [Cand -> Int]
    BY <1>7, <1>8
  <2>2. residual' \in Int
    <3>1. pool[c].price \in Int /\ Nudge \in Int /\ residual \in Int
      BY <1>1, <1>5, Members DEF RungTypes, Nudge
    <3>. QED  BY <1>4, <1>5, <3>1
  <2>. QED  BY <1>1, <1>3, <1>4, <2>1, <2>2 DEF RungTypes
<1>10. Sharing'
  BY <1>1, <1>3, <1>4 DEF Sharing, Bounded
<1>11. Trading'
  <2>1. ASSUME NEW i \in Cand  PROVE Stops(i)'
    <3>1. CASE i = c
      <4>1. quantity'[i] = q
        BY <1>5, <1>8, <3>1
      <4>. QED  BY <1>3, <1>4, <1>7, <3>1, <4>1 DEF Stops
    <3>2. CASE i # c
      <4>1. quantity'[i] = quantity[i] /\ Stops(i)
        BY <1>1, <1>8, <3>2 DEF Trading
      <4>. QED  BY <1>3, <1>4, <4>1 DEF Stops
    <3>. QED  BY <3>1, <3>2
  <2>. QED  BY <1>3, <1>4, <2>1 DEF Trading
<1>12. Serve(selected)' /\ SharesAddUp'
  BY <1>1, <1>3, <1>4 DEF Serve, SharesAddUp
<1>. QED  BY <1>3, <1>9, <1>10, <1>11, <1>12 DEF RungInv

\* Neither the end of the repair nor a stutter disturbs anything.
LEMMA StopKeepsInv == RungInv /\ (Stop \/ UNCHANGED vars) => RungInv'
<1> SUFFICES ASSUME RungInv, Stop \/ UNCHANGED vars  PROVE RungInv'
  OBVIOUS
<1>1. QuestionTypes /\ RungTypes /\ Sharing /\ Trading /\ SharesAddUp
      /\ (stage # "select" => Serve(selected))
  BY DEF RungInv
<1>2. /\ UNCHANGED question
      /\ stage' = stage \/ (stage = "repair" /\ stage' = "done")
      /\ selected' = selected /\ free' = free /\ share' = share /\ scale' = scale
      /\ fallback' = fallback /\ quantity' = quantity /\ residual' = residual
  BY DEF Stop, vars, sharing, rounding
<1>3. /\ QuestionTypes' /\ Unit' = Unit /\ Buys' = Buys /\ Sells' = Sells /\ Cand' = Cand
      /\ pool' = pool /\ offset' = offset /\ rankBy' = rankBy /\ count' = count /\ delta' = delta
  BY <1>1, <1>2, QuestionStays DEF question, Cand
<1>4. RungTypes'
  <2>1. stage' \in {"select", "raise", "share", "round", "repair", "done"}
    BY <1>1, <1>2 DEF RungTypes
  <2>. QED  BY <1>1, <1>2, <1>3, <2>1 DEF RungTypes
<1>5. Sharing' /\ Trading'
  BY <1>1, <1>2, <1>3 DEF Sharing, Bounded, Trading, Stops
<1>6. (stage # "select" => Serve(selected))'
  BY <1>1, <1>2, <1>3 DEF Serve
<1>7. SharesAddUp'
  BY <1>1, <1>2, <1>3 DEF SharesAddUp
<1>. QED  BY <1>3, <1>4, <1>5, <1>6, <1>7 DEF RungInv

-----------------------------------------------------------------------------
(* The theorems.                                                               *)

\* The invariant holds of every rung.
LEMMA RungInvHolds == Spec => []RungInv
<1>1. RungInv /\ [Next]_vars => RungInv'
  BY SelectKeepsInv, FixKeepsInv, EndKeepsInv, RoundKeepsInv, RepairKeepsInv, StopKeepsInv
     DEF Next
<1>. QED  BY InitSatisfiesInv, <1>1, PTL DEF Spec

\* Whatever the pool and the offset, the selected candidates are as many as the
\* rung asks for, and some of them can take the offset: select_indices_for_rung
\* swaps in a missing side, and further sells, without losing the other side.
THEOREM SelectionsServe == Spec => []SelectionServesOffset
<1>1. RungInv => SelectionServesOffset
  BY DEF RungInv, Serve, SelectionServesOffset
<1>. QED  BY RungInvHolds, <1>1, PTL

\* No trade that resolve_quantities plans goes the wrong way or sells what is not
\* held, and in percent mode none crosses its target, however it was rounded and
\* repaired.
THEOREM TradesStop == Spec => []TradesStopAtTargets
<1>1. RungInv => TradesStopAtTargets
  BY DEF RungInv, Trading, Stops, TradesStopAtTargets
<1>. QED  BY RungInvHolds, <1>1, PTL

-----------------------------------------------------------------------------
(* What a rung reports: who is left a share, and what is drawn from it.  The   *)
(* second invariant rests on the first.                                        *)

\* Nothing is to be shared: one candidate without an offset, or all on target.
AtRest == offset = 0 /\ (count = 1 \/ Buys = {})

\* Somebody here can take the offset, or the money that the other side gives.
Takes(S) == /\ offset >= 0 => S \cap Buys # {}
            /\ offset <= 0 => S \cap Sells # {}

SomeShare == \E i \in selected : share[i] # 0

Directed(i) == /\ delta[i] > 0 => share[i] >= 0
               /\ delta[i] < 0 => share[i] <= 0

Clamps == /\ \A i \in clamped : /\ i \in selected /\ i \in Buys \cup Sells /\ i \notin free
                                /\ share[i] = 0
          /\ stage \in {"select", "raise"} \/ AtRest => clamped = {}
          /\ stage \in {"round", "repair", "done"} /\ clamped # {} => SomeShare

Given == /\ stage \in {"select", "raise", "share"} => ~fallback
         /\ stage = "share" /\ AtRest => /\ free = selected \cap (Buys \cup Sells)
                                         /\ \A i \in Cand : share[i] = 0
         /\ stage = "share" /\ ~AtRest => SomeShare \/ Takes(free)
         /\ fallback => offset = 0 /\ count = 1 /\ clamped = {}

Drawn == stage \in {"repair", "done"} =>
            /\ residual = offset - Net(quantity)
            /\ repairs = 0 => \A i \in selected : quantity[i] = Whole(i)

OffTarget(S) == \E i \in S : delta[i] # 0

ReportInv == /\ clamped \in SUBSET Cand /\ repairs \in Nat
             /\ \A i \in Cand : Directed(i)
             /\ Clamps /\ Given /\ Drawn
             /\ stage # "select" /\ OffTarget(Cand) => OffTarget(selected)

\* Whoever is off target as the rest to share is, moves that way.
LEMMA SpreadSigns ==
  ASSUME QuestionTypes, RungTypes, NEW i \in free
  PROVE  /\ Spread(i) \in Int /\ delta[i] \in Int /\ i \in Cand
         /\ delta[i] > 0 /\ LeftToShare >= 0 => Spread(i) > 0
         /\ delta[i] < 0 /\ LeftToShare <= 0 => Spread(i) < 0
<1>1. i \in Cand /\ free \in SUBSET Cand
  BY DEF RungTypes
<1>2. /\ LeftToShare \in Int /\ delta[i] \in Int /\ Weight(i) \in Nat \ {0}
      /\ WeightOf(free) \in Nat \ {0}
  BY <1>1, AmountsToShare, DeltasAdd, Members, WeightsAdd
<1>3. \A d, l \in Int : \A v, w \in Nat \ {0} :
         /\ d * w + l * v \in Int
         /\ d > 0 /\ l >= 0 => d * w + l * v > 0
         /\ d < 0 /\ l <= 0 => d * w + l * v < 0
  <2> SUFFICES ASSUME NEW d \in Int, NEW l \in Int, NEW v \in Nat \ {0}, NEW w \in Nat \ {0}
               PROVE  /\ d * w + l * v \in Int
                      /\ d > 0 /\ l >= 0 => d * w + l * v > 0
                      /\ d < 0 /\ l <= 0 => d * w + l * v < 0
    OBVIOUS
  <2>1. d * w \in Int /\ l * v \in Int
    OBVIOUS
  <2>2. (d > 0 => d * w > 0 * w) /\ (d < 0 => 0 * w > d * w)
    BY Cancels
  <2>3. (l >= 0 => l * v >= 0 * v) /\ (l <= 0 => 0 * v >= l * v)
    BY Cancels
  <2>4. 0 * w = 0 /\ 0 * v = 0
    OBVIOUS
  <2>. QED  BY <2>1, <2>2, <2>3, <2>4
<1>. QED  BY <1>1, <1>2, <1>3 DEF Spread

\* A sum of what is not positive is not, and is negative if a summand is.
LEMMA SumIsNegative ==
  ASSUME NEW L, NEW f, Adds(f, L), \A i \in L : f[i] <= 0
  PROVE  /\ SumFunctionOnSet(f, L) \in Int /\ SumFunctionOnSet(f, L) <= 0
         /\ (\E i \in L : f[i] < 0) => SumFunctionOnSet(f, L) < 0
<1> DEFINE h == [i \in L |-> -f[i]]
<1>1. \A i \in L : h[i] = -f[i] /\ f[i] \in Int
  BY DEF Adds
<1>2. Adds(h, L) /\ \A i \in L : h[i] >= 0 /\ (f[i] < 0 => h[i] > 0)
  BY <1>1 DEF Adds
<1>. HIDE DEF h
<1>3. SumFunctionOnSet(h, L) = -SumFunctionOnSet(f, L) /\ SumFunctionOnSet(f, L) \in Int
  BY <1>1, SumNegated, SumIsInt
<1>4. SumFunctionOnSet(h, L) \in Nat /\ ((\E i \in L : h[i] > 0) => SumFunctionOnSet(h, L) > 0)
  BY <1>2, SumIsPositive
<1>. QED  BY <1>2, <1>3, <1>4

\* As long as nobody has a share, those who can take the offset, or each other's
\* money, are not all fixed to nothing.
LEMMA TakersStay ==
  ASSUME QuestionTypes, RungTypes, Sharing, stage = "share", Takes(free),
         \A i \in Cand : share[i] = 0
  PROVE  /\ offset >= 0 => \E i \in free \cap Buys : Spread(i) > 0
         /\ offset <= 0 => \E i \in free \cap Sells : Spread(i) < 0
<1>1. /\ offset \in Int /\ Unit \in Nat \ {0} /\ LeftToShare \in Int
      /\ SettledScale \in Nat \ {0} /\ Adds(Settled, Cand)
  BY ValuesAdd, AmountsToShare, CandIsFinite DEF Adds
<1>2. free \in SUBSET Cand /\ free \subseteq selected \cap (Buys \cup Sells) /\ free # {}
  BY <1>1 DEF Sharing, RungTypes, Takes
<1>3. SumFunctionOnSet(Settled, Cand) = offset * Unit * SettledScale
  BY <1>2, SettledMeetsOffset
<1>4. /\ offset * Unit * SettledScale \in Int
      /\ offset > 0 => offset * Unit * SettledScale > 0
      /\ offset < 0 => offset * Unit * SettledScale < 0
      /\ offset = 0 => offset * Unit * SettledScale = 0
  <2>1. \A o \in Int : \A k \in Nat \ {0} :
           o * k \in Int /\ (o > 0 => o * k > 0) /\ (o < 0 => o * k < 0) /\ (o = 0 => o * k = 0)
    <3> SUFFICES ASSUME NEW o \in Int, NEW k \in Nat \ {0}
                 PROVE  o * k \in Int /\ (o > 0 => o * k > 0) /\ (o < 0 => o * k < 0)
                        /\ (o = 0 => o * k = 0)
      OBVIOUS
    <3>1. 0 * k = 0 /\ o * k \in Int
      OBVIOUS
    <3>2. (o > 0 => o * k > 0 * k) /\ (o < 0 => 0 * k > o * k)
      BY Cancels
    <3>. QED  BY <3>1, <3>2
  <2>2. PICK n \in Int : n = offset * Unit
    BY <1>1
  <2>3. (offset > 0 => n > 0) /\ (offset < 0 => n < 0) /\ (offset = 0 => n = 0)
    BY <1>1, <2>1, <2>2
  <2>. QED  BY <1>1, <2>1, <2>2, <2>3
<1>5. \A i \in Cand : Settled[i] = (IF i \in free THEN Spread(i) ELSE 0)
  <2>1. \A i \in Cand : share[i] * SettledScale = 0
    BY <1>1
  <2>. QED  BY <2>1 DEF Settled
<1>6. \A i \in free : /\ i \in Cand /\ Spread(i) \in Int /\ delta[i] \in Int
                      /\ delta[i] > 0 /\ LeftToShare >= 0 => Spread(i) > 0
                      /\ delta[i] < 0 /\ LeftToShare <= 0 => Spread(i) < 0
  BY SpreadSigns
<1>7. /\ \A i \in free : i \in Buys \/ i \in Sells
      /\ \A i \in Buys : delta[i] > 0
      /\ \A i \in Sells : delta[i] < 0
  BY <1>2 DEF Buys, Sells
<1>8. ASSUME offset >= 0, \A i \in free \cap Buys : ~(Spread(i) > 0)
      PROVE  FALSE
  <2>1. PICK b \in free \cap Buys : TRUE
    BY <1>8 DEF Takes
  <2>2. LeftToShare <= 0
    BY <1>1, <1>6, <1>7, <1>8, <2>1
  <2>3. \A i \in free : Spread(i) <= 0 /\ (i \in Sells => Spread(i) < 0)
    BY <1>6, <1>7, <1>8, <2>2
  <2>4. \A i \in Cand : Settled[i] <= 0 /\ (i \in free \cap Sells => Settled[i] < 0)
    BY <1>5, <2>3
  <2>5. /\ SumFunctionOnSet(Settled, Cand) <= 0
        /\ (\E i \in Cand : Settled[i] < 0) => SumFunctionOnSet(Settled, Cand) < 0
    BY <1>1, <2>4, SumIsNegative
  <2>6. offset = 0
    BY <1>1, <1>3, <1>4, <1>8, <2>5
  <2>7. PICK a \in free \cap Sells : a \in Cand
    BY <1>2, <2>6 DEF Takes
  <2>. QED  BY <1>3, <1>4, <2>4, <2>5, <2>6, <2>7
<1>9. ASSUME offset <= 0, \A i \in free \cap Sells : ~(Spread(i) < 0)
      PROVE  FALSE
  <2>1. PICK a \in free \cap Sells : TRUE
    BY <1>9 DEF Takes
  <2>2. LeftToShare >= 0
    BY <1>1, <1>6, <1>7, <1>9, <2>1
  <2>3. \A i \in free : Spread(i) >= 0 /\ (i \in Buys => Spread(i) > 0)
    BY <1>6, <1>7, <1>9, <2>2
  <2>4. \A i \in Cand : Settled[i] >= 0 /\ (i \in free \cap Buys => Settled[i] > 0)
    BY <1>5, <2>3
  <2>5. /\ SumFunctionOnSet(Settled, Cand) \in Nat
        /\ (\E i \in Cand : Settled[i] > 0) => SumFunctionOnSet(Settled, Cand) > 0
    BY <1>1, <2>4, SumIsPositive
  <2>6. offset = 0
    BY <1>1, <1>3, <1>4, <1>9, <2>5
  <2>7. PICK b \in free \cap Buys : b \in Cand
    BY <1>2, <2>6 DEF Takes
  <2>. QED  BY <1>3, <1>4, <2>4, <2>5, <2>6, <2>7
<1>. QED  BY <1>8, <1>9

\* A single summand.
LEMMA SumOfSingle ==
  ASSUME NEW f, NEW x, f[x] \in Int
  PROVE  SumFunctionOnSet(f, {x}) = f[x]
<1>1. Adds(f, {x}) /\ {} \in SUBSET {x} /\ x \in {x} \ {} /\ {} \cup {x} = {x}
  BY FS_Singleton DEF Adds
<1>2. SumFunctionOnSet(f, {} \cup {x}) = f[x] + SumFunctionOnSet(f, {})
  BY <1>1, SumAdded
<1>. QED  BY <1>1, <1>2, SumOfNone

\* Who is above the target holds something.
LEMMA SellsAreHeld ==
  ASSUME QuestionTypes, NEW i \in Cand, delta[i] < 0
  PROVE  Value(i) > 0 /\ pool[i].held > 0 /\ Value(i) \in Nat
<1>1. /\ Weight(i) \in Nat \ {0} /\ Value(i) \in Nat /\ Unit \in Nat \ {0}
      /\ pool[i].held \in Nat /\ pool[i].price \in Nat \ {0}
      /\ PoolValue + offset \in Int /\ PoolValue + offset > 0
  BY Members, ValuesAdd
<1>2. delta[i] = (PoolValue + offset) * Weight(i) - Value(i) * Unit
  BY DEF QuestionTypes, IdealDelta, Target
<1>3. (PoolValue + offset) * Weight(i) > 0
  <2>1. (PoolValue + offset) * Weight(i) > 0 * Weight(i)
    BY <1>1, Cancels
  <2>. QED  BY <1>1, <2>1
<1>4. Value(i) # 0
  <2> SUFFICES ASSUME Value(i) = 0  PROVE FALSE
    OBVIOUS
  <2>1. Value(i) * Unit = 0
    BY <1>1
  <2>. QED  BY <1>1, <1>2, <1>3, <2>1
<1>5. pool[i].held # 0
  BY <1>1, <1>4 DEF Value
<1>. QED  BY <1>1, <1>4, <1>5

\* A limit is on the side of its candidate, and it is something.
LEMMA LimitSigns ==
  ASSUME QuestionTypes, RungTypes, NEW i \in TooFar
  PROVE  /\ i \in free /\ i \in Cand /\ Limit(i) \in Int /\ delta[i] \in Int
         /\ delta[i] > 0 => Limit(i) > 0
         /\ delta[i] < 0 => Limit(i) < 0
         /\ Limit(i) # 0
<1>1. i \in free /\ i \in Cand /\ delta[i] # 0 /\ (delta[i] > 0 => rankBy = "percent")
  <2>1. i \in free /\ i \in Cand /\ delta[i] \in Int
    BY DeltasAdd DEF TooFar, RungTypes
  <2>. QED  BY <2>1 DEF TooFar
<1>2. /\ Limit(i) \in Int /\ delta[i] \in Int
      /\ Limit(i) = IF rankBy = "sek" THEN -Value(i) * Unit ELSE delta[i]
  BY <1>1, AmountsToShare, DeltasAdd DEF Limit
<1>3. ASSUME delta[i] < 0, rankBy = "sek"  PROVE Limit(i) < 0
  <2>1. PICK v \in Nat \ {0}, u \in Nat \ {0} : v = Value(i) /\ u = Unit
    BY <1>1, <1>3, SellsAreHeld, ValuesAdd
  <2>2. v * u > 0 * u
    BY Cancels
  <2>3. Limit(i) = -v * u
    BY <1>2, <1>3, <2>1
  <2>4. -v * u = -(v * u) /\ 0 * u = 0 /\ v * u \in Int
    OBVIOUS
  <2>. QED  BY <2>2, <2>3, <2>4
<1>. QED  BY <1>1, <1>2, <1>3 DEF QuestionTypes

\* Where nothing is to be shared there are no violators, and all shares are zero.
LEMMA RestIsStill ==
  ASSUME QuestionTypes, RungTypes, Serve(selected), AtRest,
         free = selected \cap (Buys \cup Sells), \A i \in Cand : share[i] = 0
  PROVE  WrongWay \cup TooFar = {} /\ \A i \in free : Spread(i) = 0
<1>1. ASSUME NEW i \in free  PROVE Spread(i) = 0
  <2>1. i \in Cand /\ i \in selected /\ selected \in SUBSET Cand /\ IsFiniteSet(selected)
    BY CandIsFinite, FS_Subset DEF RungTypes
  <2>2. Buys # {}
    BY SomebodyServes DEF AtRest
  <2>3. count = 1 /\ offset = 0
    BY <2>2 DEF AtRest
  <2>4. Cardinality(selected) = 1
    BY <2>3 DEF Serve
  <2>5. selected \ {i} = {}
    <3>1. Cardinality(selected \ {i}) = Cardinality(selected) - 1 /\ IsFiniteSet(selected \ {i})
      BY <2>1, FS_RemoveElement
    <3>2. Cardinality(selected \ {i}) = 0
      BY <2>4, <3>1
    <3>. QED  BY <3>1, <3>2, FS_EmptySet
  <2>6. free = {i} /\ selected \ free = {}
    BY <2>1, <2>5
  <2>7. PICK w \in Int, d \in Int, u \in Int : w = Weight(i) /\ d = delta[i] /\ u = Unit
    BY <2>1, Members, DeltasAdd, ValuesAdd
  <2>8. WeightOf(free) = w /\ SumFunctionOnSet(delta, free) = d
    <3> DEFINE f == [j \in Cand |-> Weight(j)]
    <3>1. f[i] = w
      BY <2>1, <2>7
    <3>2. SumFunctionOnSet(f, {i}) = w
      <4>. HIDE DEF f
      <4>. QED  BY <3>1, SumOfSingle
    <3>3. WeightOf(free) = SumFunctionOnSet(f, {i})
      BY <2>6 DEF WeightOf
    <3>. QED  BY <2>6, <2>7, <3>2, <3>3, SumOfSingle
  <2>9. SumFunctionOnSet(share, selected \ free) = 0
    BY <2>6, SumOfNone
  <2>10. LeftToShare = 0 * u - 0 - d
    BY <2>3, <2>7, <2>8, <2>9 DEF LeftToShare
  <2>11. d * w + (0 * u - 0 - d) * w = 0
    OBVIOUS
  <2>. QED  BY <2>7, <2>8, <2>10, <2>11 DEF Spread
<1>2. ASSUME NEW i \in free  PROVE i \notin WrongWay
  <2>1. Spread(i) = 0
    BY <1>1
  <2>. QED  BY <2>1 DEF WrongWay
<1>3. ASSUME NEW i \in TooFar  PROVE FALSE
  <2>1. /\ i \in free /\ i \in Cand /\ Limit(i) \in Int /\ delta[i] \in Int
        /\ (delta[i] > 0 => Limit(i) > 0) /\ (delta[i] < 0 => Limit(i) < 0)
    BY LimitSigns
  <2>2. WeightOf(free) \in Nat \ {0} /\ Spread(i) = 0
    BY <1>1, <2>1, WeightsAdd DEF RungTypes
  <2>3. PICK l \in Int, k \in Nat \ {0} : l = Limit(i) /\ k = WeightOf(free)
    BY <2>1, <2>2
  <2>4. (l > 0 => l * k > 0 * k) /\ (l < 0 => 0 * k > l * k) /\ 0 * k = 0 /\ l * k \in Int
    BY Cancels
  <2>5. \/ delta[i] < 0 /\ 0 < l * k
        \/ delta[i] > 0 /\ 0 > l * k
    BY <2>2, <2>3 DEF TooFar
  <2>. QED  BY <2>1, <2>3, <2>4, <2>5
<1>4. WrongWay \subseteq free
  BY DEF WrongWay
<1>. QED  BY <1>1, <1>2, <1>3, <1>4

\* Who is off target is to buy or to sell.
LEMMA Sides ==
  ASSUME QuestionTypes, NEW i \in Cand
  PROVE  /\ delta[i] \in Int
         /\ delta[i] # 0 <=> i \in Buys \cup Sells
         /\ i \in Buys <=> delta[i] > 0
         /\ i \in Sells <=> delta[i] < 0
BY DeltasAdd DEF Buys, Sells

\* Nothing is clamped, shared or drawn at the start.
LEMMA InitSatisfiesReport == Init => ReportInv
<1> SUFFICES ASSUME Init  PROVE ReportInv
  OBVIOUS
<1>1. /\ stage = "select" /\ clamped = {} /\ fallback = FALSE /\ repairs = 0
      /\ share = [i \in Cand |-> 0]
  BY DEF Init
<1>2. \A i \in Cand : Directed(i)
  BY <1>1 DEF Directed
<1>. QED  BY <1>1, <1>2 DEF ReportInv, Clamps, Given, Drawn

\* A selection that can serve has somebody off target, if there is anybody.
LEMMA ServersAreOff ==
  ASSUME QuestionTypes, NEW S \in SUBSET Cand, Serve(S), offset # 0 \/ count # 1,
         OffTarget(Cand)
  PROVE  OffTarget(S)
<1>1. PICK b \in Cand : delta[b] # 0
  BY DEF OffTarget
<1>2. offset \in Int /\ count \in Nat \ {0}
  BY ValuesAdd DEF QuestionTypes, Cand
<1>3. S \cap (Buys \cup Sells) # {}
  <2>1. CASE offset # 0
    BY <1>2, <2>1 DEF Serve
  <2>2. CASE offset = 0
    <3>1. count >= 2
      BY <1>2, <2>2
    <3>2. Buys # {}
      BY <1>1, <2>2, Sides, SomebodyServes
    <3>. QED  BY <2>2, <3>1, <3>2 DEF Serve
  <2>. QED  BY <2>1, <2>2
<1>. QED  BY <1>3, Sides DEF OffTarget

\* While candidates are selected nothing is clamped, and somebody selected is off
\* target if anybody is.
LEMMA SelectingKeepsReport ==
  RungInv /\ RungInv' /\ ReportInv /\ (Select \/ RaiseMore \/ StartSharing) => ReportInv'
<1> SUFFICES ASSUME RungInv, RungInv', ReportInv, Select \/ RaiseMore \/ StartSharing
             PROVE  ReportInv'
  OBVIOUS
<1>1. QuestionTypes /\ RungTypes /\ Sharing
  BY DEF RungInv
<1>2. /\ UNCHANGED question /\ stage \in {"select", "raise"} /\ stage' \in {"raise", "share"}
      /\ share' = share /\ clamped' = clamped /\ fallback' = fallback /\ repairs' = repairs
  BY DEF Select, RaiseMore, StartSharing, sharing, rounding
<1>3. /\ Buys' = Buys /\ Sells' = Sells /\ Cand' = Cand
      /\ offset' = offset /\ count' = count /\ delta' = delta
  BY <1>1, <1>2, QuestionStays DEF question, Cand
<1>4. clamped = {} /\ ~fallback /\ \A i \in Cand : share[i] = 0
  BY <1>1, <1>2 DEF ReportInv, Clamps, Given, Sharing
<1>5. /\ Serve(selected)' /\ selected' \in SUBSET Cand
      /\ offset \in Int /\ count \in Nat \ {0}
  <2>1. Serve(selected)' /\ RungTypes'
    BY <1>2 DEF RungInv
  <2>. QED  BY <1>1, <1>3, <2>1, ValuesAdd DEF RungTypes, QuestionTypes, Cand
<1>6. Serve(selected')
  BY <1>3, <1>5 DEF Serve
<1>7. ASSUME OffTarget(Cand)  PROVE OffTarget(selected')
  <2>1. CASE offset # 0 \/ count # 1
    BY <1>1, <1>5, <1>6, <1>7, <2>1, ServersAreOff
  <2>2. CASE Select /\ offset = 0 /\ count = 1
    <3>1. WantedSide = {}
      BY <2>2 DEF WantedSide
    <3>2. selected' = Top
      BY <2>2, <3>1 DEF Select
    <3>. QED  BY <1>1, <1>7, <3>2, TopOffTarget DEF OffTarget
  <2>3. CASE RaiseMore /\ offset = 0
    BY <2>3 DEF RaiseMore, MoreSells
  <2>4. CASE StartSharing
    <3>1. stage # "select" /\ selected' = selected
      BY <2>4 DEF StartSharing
    <3>. QED  BY <1>7, <3>1 DEF ReportInv
  <2>. QED  BY <2>1, <2>2, <2>3, <2>4
<1>8. (OffTarget(Cand) => OffTarget(selected))'
  BY <1>3, <1>7 DEF OffTarget
<1>9. Clamps'
  BY <1>2, <1>4 DEF Clamps
<1>10. Given'
  <2>1. CASE StartSharing
    <3>1. free' = selected' \cap (Buys \cup Sells)
      BY <2>1 DEF StartSharing
    <3>2. ASSUME ~AtRest  PROVE Takes(free')
      <4>1. offset = 0 => count >= 2 /\ Buys # {}
        BY <1>5, <3>2 DEF AtRest
      <4>2. /\ offset >= 0 => selected' \cap Buys # {}
            /\ offset <= 0 => selected' \cap Sells # {}
        BY <1>5, <1>6, <4>1 DEF Serve
      <4>. QED  BY <3>1, <4>2 DEF Takes
    <3>3. AtRest' = AtRest /\ (Takes(free') => Takes(free)')
      BY <1>3 DEF AtRest, Takes
    <3>. QED  BY <1>2, <1>3, <1>4, <3>1, <3>2, <3>3 DEF Given
  <2>2. CASE Select \/ RaiseMore
    <3>1. stage' = "raise"
      BY <2>2 DEF Select, RaiseMore
    <3>. QED  BY <1>2, <1>4, <3>1 DEF Given
  <2>. QED  BY <2>1, <2>2
<1>11. (\A i \in Cand : Directed(i))'
  BY <1>2, <1>3, <1>4 DEF Directed
<1>. QED  BY <1>2, <1>3, <1>8, <1>9, <1>10, <1>11 DEF ReportInv, Drawn

\* Each pass leaves somebody a share, or to be given one.
LEMMA FixKeepsReport == RungInv /\ ReportInv /\ FixViolators => ReportInv'
<1> SUFFICES ASSUME RungInv, ReportInv, FixViolators  PROVE ReportInv'
  OBVIOUS
<1>1. QuestionTypes /\ RungTypes /\ Sharing /\ Serve(selected)
  BY DEF RungInv, FixViolators
<1>2. /\ UNCHANGED question /\ stage = "share" /\ stage' = "share"
      /\ WrongWay \cup TooFar # {}
      /\ share' = [i \in Cand |-> IF i \in TooFar THEN Limit(i) ELSE share[i]]
      /\ free' = free \ (WrongWay \cup TooFar) /\ clamped' = clamped \cup WrongWay
      /\ selected' = selected /\ fallback' = fallback /\ repairs' = repairs
  BY DEF FixViolators, rounding
<1>3. /\ Buys' = Buys /\ Sells' = Sells /\ Cand' = Cand
      /\ offset' = offset /\ count' = count /\ delta' = delta /\ (AtRest <=> AtRest')
  BY <1>1, <1>2, QuestionStays DEF question, Cand, AtRest
<1>4. /\ free \in SUBSET Cand /\ free \subseteq selected \cap (Buys \cup Sells)
      /\ (\A i \in free : share[i] = 0) /\ share \in [Cand -> Int] /\ selected \in SUBSET Cand
  BY <1>1, <1>2 DEF Sharing, RungTypes
<1>5. ~AtRest
  <2> SUFFICES ASSUME AtRest  PROVE FALSE
    OBVIOUS
  <2>1. free = selected \cap (Buys \cup Sells) /\ \A i \in Cand : share[i] = 0
    BY <1>2 DEF ReportInv, Given
  <2>. QED  BY <1>1, <1>2, <2>1, RestIsStill
<1>6. \A i \in TooFar : /\ i \in free /\ i \in Cand /\ delta[i] \in Int /\ Limit(i) \in Int
                        /\ (delta[i] > 0 => Limit(i) > 0) /\ (delta[i] < 0 => Limit(i) < 0)
                        /\ Limit(i) # 0
  BY <1>1, LimitSigns
<1>7. WrongWay \subseteq free
  BY DEF WrongWay
<1>8. ASSUME NEW i \in WrongWay \cap TooFar  PROVE FALSE
  <2>1. /\ i \in free /\ i \in Cand /\ delta[i] \in Int /\ Limit(i) \in Int
        /\ (delta[i] > 0 => Limit(i) > 0) /\ (delta[i] < 0 => Limit(i) < 0)
    BY <1>6
  <2>2. PICK l \in Int, k \in Nat \ {0}, x \in Int : l = Limit(i) /\ k = WeightOf(free) /\ x = Spread(i)
    BY <1>1, <1>4, <2>1, WeightsAdd, SpreadSigns
  <2>3. (l > 0 => l * k > 0 * k) /\ (l < 0 => 0 * k > l * k) /\ 0 * k = 0 /\ l * k \in Int
    BY Cancels
  <2>4. \/ delta[i] < 0 /\ x < l * k
        \/ delta[i] > 0 /\ x > l * k
    BY <2>2 DEF TooFar
  <2>5. (delta[i] > 0 /\ x < 0) \/ (delta[i] < 0 /\ x > 0)
    BY <2>2 DEF WrongWay
  <2>. QED  BY <2>1, <2>2, <2>3, <2>4, <2>5
<1>9. SomeShare' \/ Takes(free)'
  <2>1. CASE TooFar # {}
    <3>1. PICK j \in TooFar : share'[j] # 0 /\ j \in selected
      BY <1>2, <1>4, <1>6, <2>1
    <3>. QED  BY <1>2, <3>1 DEF SomeShare
  <2>2. CASE SomeShare
    <3>1. PICK j \in selected : share[j] # 0
      BY <2>2 DEF SomeShare
    <3>2. share'[j] # 0
      BY <1>2, <1>4, <1>6, <3>1
    <3>. QED  BY <1>2, <3>1, <3>2 DEF SomeShare
  <2>3. CASE TooFar = {} /\ ~SomeShare
    <3>1. Takes(free)
      BY <1>2, <1>5, <2>3 DEF ReportInv, Given
    <3>2. \A i \in Cand : share[i] = 0
      BY <1>1, <2>3 DEF Sharing, Bounded, SomeShare
    <3>3. /\ offset >= 0 => \E i \in free \cap Buys : Spread(i) > 0
          /\ offset <= 0 => \E i \in free \cap Sells : Spread(i) < 0
      BY <1>1, <1>2, <3>1, <3>2, TakersStay
    <3>4. \A i \in free : /\ i \in Cand /\ Spread(i) \in Int /\ delta[i] \in Int
                          /\ i \in Buys => delta[i] > 0
                          /\ i \in Sells => delta[i] < 0
      BY <1>1, SpreadSigns DEF Buys, Sells
    <3>5. \A i \in free : /\ i \in Buys /\ Spread(i) > 0 => i \notin WrongWay
                          /\ i \in Sells /\ Spread(i) < 0 => i \notin WrongWay
      BY <3>4 DEF WrongWay
    <3>6. /\ offset >= 0 => free' \cap Buys # {}
          /\ offset <= 0 => free' \cap Sells # {}
      BY <1>2, <2>3, <3>3, <3>5
    <3>. QED  BY <1>3, <3>6 DEF Takes
  <2>. QED  BY <2>1, <2>2, <2>3
<1>10. Clamps'
  <2>1. \A i \in clamped' : /\ i \in selected /\ i \in Buys \cup Sells /\ i \notin free'
                            /\ share'[i] = 0
    <3> SUFFICES ASSUME NEW i \in clamped'
                 PROVE  i \in selected /\ i \in Buys \cup Sells /\ i \notin free' /\ share'[i] = 0
      OBVIOUS
    <3>1. CASE i \in clamped
      <4>1. i \in selected /\ i \in Buys \cup Sells /\ i \notin free /\ share[i] = 0
        BY <3>1 DEF ReportInv, Clamps
      <4>. QED  BY <1>2, <1>4, <1>6, <4>1
    <3>2. CASE i \in WrongWay
      <4>1. i \notin TooFar
        BY <1>8, <3>2
      <4>. QED  BY <1>2, <1>4, <1>7, <3>2, <4>1
    <3>. QED  BY <1>2, <3>1, <3>2
  <2>. QED  BY <1>2, <1>3, <1>5, <2>1 DEF Clamps
<1>11. Given'
  <2>1. ~fallback
    BY <1>2 DEF ReportInv, Given
  <2>. QED  BY <1>2, <1>3, <1>5, <1>9, <2>1 DEF Given
<1>12. (\A i \in Cand : Directed(i))'
  <2>1. ASSUME NEW i \in Cand  PROVE Directed(i)'
    <3>1. Directed(i)
      BY DEF ReportInv
    <3>. QED  BY <1>2, <1>3, <1>6, <3>1 DEF Directed
  <2>. QED  BY <1>3, <2>1
<1>13. clamped' \in SUBSET Cand
  BY <1>2, <1>4, <1>7 DEF ReportInv
<1>14. repairs' \in Nat /\ (OffTarget(Cand)' => OffTarget(selected)')
  BY <1>2, <1>3 DEF ReportInv, OffTarget
<1>. QED  BY <1>2, <1>3, <1>10, <1>11, <1>12, <1>13, <1>14 DEF ReportInv, Drawn

\* The last pass leaves somebody off target a share, unless there is nothing to share.
LEMMA EndKeepsReport == RungInv /\ ReportInv /\ EndSharing => ReportInv'
<1> SUFFICES ASSUME RungInv, ReportInv, EndSharing  PROVE ReportInv'
  OBVIOUS
<1>1. QuestionTypes /\ RungTypes /\ Sharing /\ Serve(selected)
  BY DEF RungInv, EndSharing
<1>2. /\ UNCHANGED question /\ stage = "share" /\ stage' = "round"
      /\ WrongWay \cup TooFar = {} /\ fallback' = NothingShared
      /\ share' = IF NothingShared THEN [i \in Cand |-> IF i \in selected THEN delta[i] ELSE 0]
                  ELSE Settled
      /\ clamped' = IF NothingShared THEN {} ELSE clamped
      /\ selected' = selected /\ free' = free /\ repairs' = repairs
  BY DEF EndSharing, rounding
<1>3. /\ Buys' = Buys /\ Sells' = Sells /\ Cand' = Cand
      /\ offset' = offset /\ count' = count /\ delta' = delta /\ (AtRest <=> AtRest')
  BY <1>1, <1>2, QuestionStays DEF question, Cand, AtRest
<1>4. /\ free \in SUBSET Cand /\ free \subseteq selected \cap (Buys \cup Sells)
      /\ (\A i \in free : share[i] = 0) /\ share \in [Cand -> Int] /\ selected \in SUBSET Cand
  BY <1>1, <1>2 DEF Sharing, RungTypes
<1>5. SettledScale \in Nat \ {0} /\ Settled \in [Cand -> Int]
  BY <1>1, AmountsToShare
<1>6. \A i \in Cand : Settled[i] = IF i \in free THEN Spread(i) ELSE share[i] * SettledScale
  BY DEF Settled
<1>7. \A x \in Int : \A k \in Nat \ {0} : /\ x # 0 => x * k # 0
                                          /\ x >= 0 => x * k >= 0
                                          /\ x <= 0 => x * k <= 0
                                          /\ x = 0 => x * k = 0
  <2> SUFFICES ASSUME NEW x \in Int, NEW k \in Nat \ {0}
               PROVE  /\ x # 0 => x * k # 0
                      /\ x >= 0 => x * k >= 0
                      /\ x <= 0 => x * k <= 0
                      /\ x = 0 => x * k = 0
    OBVIOUS
  <2>1. /\ x >= 0 <=> x * k >= 0 * k
        /\ x > 0 <=> x * k > 0 * k
    BY Cancels
  <2>2. 0 * k = 0 /\ x * k \in Int
    OBVIOUS
  <2>. QED  BY <2>1, <2>2
<1>8. ASSUME NothingShared  PROVE offset = 0 /\ count = 1
  <2>1. /\ selected \cap (Buys \cup Sells) # {}
        /\ \A i \in selected : Settled[i] = 0
    BY <1>8 DEF NothingShared
  <2>2. ASSUME SomeShare  PROVE FALSE
    <3>1. PICK j \in selected : share[j] # 0 /\ j \in Cand /\ share[j] \in Int
      BY <1>4, <2>2 DEF SomeShare
    <3>2. Settled[j] = share[j] * SettledScale
      BY <1>4, <1>6, <3>1
    <3>. QED  BY <1>5, <1>7, <2>1, <3>1, <3>2
  <2>3. ASSUME ~SomeShare, Takes(free)  PROVE FALSE
    <3>1. \A i \in Cand : share[i] = 0
      BY <1>1, <2>3 DEF Sharing, Bounded, SomeShare
    <3>2. /\ offset >= 0 => \E i \in free \cap Buys : Spread(i) > 0
          /\ offset <= 0 => \E i \in free \cap Sells : Spread(i) < 0
      BY <1>1, <1>2, <2>3, <3>1, TakersStay
    <3>3. \A i \in free : Spread(i) = 0
      BY <1>4, <1>6, <2>1
    <3>. QED  BY <1>1, <3>2, <3>3, ValuesAdd
  <2>4. AtRest
    BY <1>2, <2>2, <2>3 DEF ReportInv, Given
  <2>5. Buys # {}
    BY <2>1, <2>4, <1>1, SomebodyServes DEF AtRest
  <2>. QED  BY <2>4, <2>5 DEF AtRest
<1>9. \A i \in clamped : /\ i \in selected /\ i \in Buys \cup Sells /\ i \notin free
                         /\ share[i] = 0 /\ i \in Cand
  BY <1>4 DEF ReportInv, Clamps
<1>10. Clamps'
  <2>1. CASE NothingShared
    BY <1>2, <2>1 DEF Clamps
  <2>2. CASE ~NothingShared
    <3>1. \A i \in clamped : share'[i] = 0
      BY <1>2, <1>5, <1>6, <1>7, <1>9, <2>2
    <3>2. clamped # {} => SomeShare'
      <4> SUFFICES ASSUME clamped # {}  PROVE SomeShare'
        OBVIOUS
      <4>1. selected \cap (Buys \cup Sells) # {}
        BY <1>9
      <4>2. \E i \in selected : Settled[i] # 0
        BY <2>2, <4>1 DEF NothingShared
      <4>. QED  BY <1>2, <2>2, <4>2 DEF SomeShare
    <3>3. AtRest => clamped = {}
      BY DEF ReportInv, Clamps
    <3>. QED  BY <1>2, <1>3, <1>9, <2>2, <3>1, <3>2, <3>3 DEF Clamps
  <2>. QED  BY <2>1, <2>2
<1>11. Given'
  BY <1>2, <1>3, <1>8 DEF Given
<1>12. ASSUME NEW i \in Cand  PROVE Directed(i)'
  <2>1. delta[i] \in Int /\ Directed(i) /\ share[i] \in Int
    BY <1>1, <1>4, Sides DEF ReportInv
  <2>2. CASE NothingShared
    <3>1. share'[i] = IF i \in selected THEN delta[i] ELSE 0
      BY <1>2, <2>2
    <3>. QED  BY <1>3, <2>1, <3>1 DEF Directed
  <2>3. CASE ~NothingShared /\ i \in free
    <3>1. share'[i] = Spread(i) /\ i \notin WrongWay /\ Spread(i) \in Int
      BY <1>1, <1>2, <1>6, <2>3, SpreadSigns
    <3>. QED  BY <1>3, <2>1, <2>3, <3>1 DEF Directed, WrongWay
  <2>4. CASE ~NothingShared /\ i \notin free
    <3>1. share'[i] = share[i] * SettledScale
      BY <1>2, <1>6, <2>4
    <3>. QED  BY <1>3, <1>5, <1>7, <2>1, <3>1 DEF Directed
  <2>. QED  BY <2>2, <2>3, <2>4
<1>13. clamped' \in SUBSET Cand /\ repairs' \in Nat /\ (OffTarget(Cand)' => OffTarget(selected)')
  BY <1>2, <1>3 DEF ReportInv, OffTarget
<1>. QED  BY <1>2, <1>3, <1>10, <1>11, <1>12, <1>13 DEF ReportInv, Drawn

\* What is shared and clamped stays as it is while it is drawn.
LEMMA DrawingKeepsShares ==
  ASSUME RungInv, ReportInv, UNCHANGED <<question, selected, sharing>>, repairs' \in Nat,
         stage' \in {"repair", "done"}, stage \in {"round", "repair", "done"}, Drawn'
  PROVE  ReportInv'
<1>1. QuestionTypes
  BY DEF RungInv
<1>2. /\ Buys' = Buys /\ Sells' = Sells /\ Cand' = Cand
      /\ offset' = offset /\ count' = count /\ delta' = delta /\ (AtRest <=> AtRest')
      /\ share' = share /\ clamped' = clamped /\ fallback' = fallback /\ free' = free
      /\ selected' = selected
  BY <1>1, QuestionStays DEF question, Cand, AtRest, sharing
<1>3. Clamps' /\ Given'
  BY <1>2 DEF ReportInv, Clamps, Given, SomeShare
<1>4. (\A i \in Cand : Directed(i))'
  BY <1>2 DEF ReportInv, Directed
<1>5. clamped' \in SUBSET Cand /\ (OffTarget(Cand)' => OffTarget(selected)')
  BY <1>2 DEF ReportInv, OffTarget
<1>. QED  BY <1>3, <1>4, <1>5 DEF ReportInv

\* What rounding makes of a share depends on the question and the shares alone.
LEMMA WholeStays ==
  ASSUME QuestionTypes, UNCHANGED <<question, sharing>>, NEW i
  PROVE  Whole(i)' = Whole(i)
<1>1. Unit' = Unit /\ pool' = pool /\ rankBy' = rankBy /\ delta' = delta
      /\ share' = share /\ scale' = scale
  BY QuestionStays DEF question, sharing
<1>. QED  BY <1>1 DEF Whole, Rounded

\* Rounding draws what the shares say, and the residual is what that leaves.
LEMMA RoundKeepsReport == RungInv /\ ReportInv /\ Round => ReportInv'
<1> SUFFICES ASSUME RungInv, ReportInv, Round  PROVE ReportInv'
  OBVIOUS
<1>1. QuestionTypes /\ RungTypes
  BY DEF RungInv
<1>2. /\ UNCHANGED <<question, selected, sharing>> /\ stage = "round"
      /\ stage' \in {"repair", "done"} /\ repairs' = repairs
      /\ quantity' = [i \in Cand |-> IF i \in selected THEN Whole(i) ELSE 0]
      /\ residual' = offset - Net(quantity')
  BY DEF Round
<1>3. selected' = selected /\ selected \in SUBSET Cand /\ offset' = offset
      /\ pool' = pool /\ Cand' = Cand
  BY <1>1, <1>2 DEF RungTypes, question, Cand
<1>4. residual' = offset' - Net(quantity)'
  BY <1>2, <1>3 DEF Net
<1>5. \A i \in selected : quantity'[i] = Whole(i)'
  BY <1>1, <1>2, <1>3, WholeStays
<1>6. Drawn'
  BY <1>3, <1>4, <1>5 DEF Drawn
<1>. QED  BY <1>2, <1>6, DrawingKeepsShares DEF ReportInv

\* A repair moves the residual by what it moves the trades.
LEMMA RepairKeepsReport == RungInv /\ ReportInv /\ Repair => ReportInv'
<1> SUFFICES ASSUME RungInv, ReportInv, Repair  PROVE ReportInv'
  OBVIOUS
<1>1. QuestionTypes /\ RungTypes
  BY DEF RungInv
<1>2. /\ UNCHANGED <<question, selected, sharing>> /\ stage = "repair" /\ stage' = "repair"
      /\ Repairable # {} /\ repairs' = repairs + 1
      /\ quantity' = [quantity EXCEPT ![Cheapest] = @ + Nudge]
      /\ residual' = residual - Nudge * pool[Cheapest].price
  BY DEF Repair
<1>3. selected' = selected /\ offset' = offset /\ pool' = pool /\ Cand' = Cand
      /\ residual = offset - Net(quantity) /\ repairs \in Nat
      /\ quantity \in [Cand -> Int] /\ residual \in Int /\ offset \in Int
  BY <1>1, <1>2, ValuesAdd DEF RungTypes, question, Cand, ReportInv, Drawn
<1>4. PICK c \in Cand : c = Cheapest
  BY <1>1, <1>2, CheapestExists DEF Repairable, RungTypes
<1>5. PICK n \in Int, p \in Int : n = Nudge /\ p = pool[c].price
  BY <1>1, Members DEF Nudge
<1> DEFINE f == [i \in Cand |-> quantity[i] * pool[i].price]
           h == [i \in Cand |-> quantity'[i] * pool[i].price]
<1>6. /\ h[c] = f[c] + n * p
      /\ \A i \in Cand \ {c} : h[i] = f[i]
      /\ \A i \in Cand : f[i] \in Int /\ h[i] \in Int
  <2>1. quantity'[c] = quantity[c] + n /\ quantity[c] \in Int
    BY <1>2, <1>3, <1>4, <1>5
  <2>2. PICK q \in Int : q = quantity[c]
    BY <2>1
  <2>3. (q + n) * p = q * p + n * p
    OBVIOUS
  <2>4. \A i \in Cand : quantity[i] \in Int /\ quantity'[i] \in Int /\ pool[i].price \in Int
    BY <1>1, <1>2, <1>3, <1>4, <1>5, Members
  <2>. QED  BY <1>2, <1>3, <1>4, <1>5, <2>1, <2>2, <2>3, <2>4
<1>7. Adds(f, Cand) /\ Adds(h, Cand) /\ Adds(f, Cand \ {c})
  <2>. HIDE DEF f, h
  <2>. QED  BY <1>6, CandIsFinite, FS_Subset DEF Adds
<1>8. SumFunctionOnSet(h, Cand) = SumFunctionOnSet(f, Cand) + n * p
  <2>. HIDE DEF f, h
  <2>1. /\ SumFunctionOnSet(f, Cand) = f[c] + SumFunctionOnSet(f, Cand \ {c})
        /\ SumFunctionOnSet(h, Cand) = h[c] + SumFunctionOnSet(h, Cand \ {c})
    BY <1>7, SumOfOne
  <2>2. SumFunctionOnSet(h, Cand \ {c}) = SumFunctionOnSet(f, Cand \ {c})
    BY <1>6, <1>7, SameSummands
  <2>3. SumFunctionOnSet(f, Cand \ {c}) \in Int
    BY <1>7, SumIsInt
  <2>. QED  BY <1>5, <1>6, <2>1, <2>2, <2>3
<1>9. Net(quantity) = SumFunctionOnSet(f, Cand) /\ Net(quantity)' = SumFunctionOnSet(h, Cand)
  BY <1>3 DEF Net
<1>10. residual' = offset' - Net(quantity)'
  <2>1. SumFunctionOnSet(f, Cand) \in Int
    BY <1>7, SumIsInt
  <2>. HIDE DEF f, h
  <2>. QED  BY <1>2, <1>3, <1>4, <1>5, <1>8, <1>9, <2>1
<1>11. Drawn' /\ repairs' \in Nat
  BY <1>2, <1>3, <1>10 DEF Drawn
<1>. QED  BY <1>2, <1>11, DrawingKeepsShares

\* The end of the repair, and a stutter.
LEMMA StopKeepsReport == RungInv /\ ReportInv /\ (Stop \/ UNCHANGED vars) => ReportInv'
<1> SUFFICES ASSUME RungInv, ReportInv, Stop \/ UNCHANGED vars  PROVE ReportInv'
  OBVIOUS
<1>1. QuestionTypes /\ RungTypes
  BY DEF RungInv
<1>2. /\ UNCHANGED <<question, selected, sharing>>
      /\ stage' = stage \/ (stage = "repair" /\ stage' = "done")
      /\ quantity' = quantity /\ residual' = residual /\ repairs' = repairs
  BY DEF Stop, vars, rounding
<1>3. /\ offset' = offset /\ pool' = pool /\ Cand' = Cand /\ selected' = selected
      /\ Buys' = Buys /\ Sells' = Sells /\ count' = count /\ delta' = delta
      /\ (AtRest <=> AtRest') /\ share' = share /\ clamped' = clamped
      /\ fallback' = fallback /\ free' = free
  BY <1>1, <1>2, QuestionStays DEF question, Cand, AtRest, sharing
<1>4. Drawn'
  <2>1. Net(quantity)' = Net(quantity) /\ \A i \in selected : Whole(i)' = Whole(i)
    BY <1>1, <1>2, <1>3, WholeStays DEF Net
  <2>. QED  BY <1>2, <1>3, <2>1 DEF ReportInv, Drawn
<1>5. Clamps'
  BY <1>2, <1>3 DEF ReportInv, Clamps, SomeShare
<1>6. Given'
  BY <1>2, <1>3 DEF ReportInv, Given, SomeShare, Takes
<1>7. (\A i \in Cand : Directed(i))'
  BY <1>3 DEF ReportInv, Directed
<1>8. clamped' \in SUBSET Cand /\ repairs' \in Nat
      /\ (stage # "select" /\ OffTarget(Cand) => OffTarget(selected))'
  BY <1>2, <1>3 DEF ReportInv, OffTarget
<1>. QED  BY <1>4, <1>5, <1>6, <1>7, <1>8 DEF ReportInv

\* Both invariants hold of every rung.
LEMMA ReportInvHolds == Spec => [](RungInv /\ ReportInv)
<1>1. Init => RungInv /\ ReportInv
  BY InitSatisfiesInv, InitSatisfiesReport
<1>2. RungInv /\ [Next]_vars => RungInv'
  BY SelectKeepsInv, FixKeepsInv, EndKeepsInv, RoundKeepsInv, RepairKeepsInv, StopKeepsInv
     DEF Next
<1>3. RungInv /\ RungInv' /\ ReportInv /\ [Next]_vars => ReportInv'
  BY SelectingKeepsReport, FixKeepsReport, EndKeepsReport, RoundKeepsReport,
     RepairKeepsReport, StopKeepsReport DEF Next
<1>. QED  BY <1>1, <1>2, <1>3, PTL DEF Spec
-----------------------------------------------------------------------------
(* What the report says is true.                                               *)

\* A rung gives up its shares, and shows what would be ideal, only for one candidate
\* without an offset: whatever the passes of redistribute_selected fix, and however
\* many, in any other rung somebody off target is left a share.
THEOREM SignalsFallBack == Spec => []OnlySignalsFallBack
<1>1. ReportInv => OnlySignalsFallBack
  BY DEF ReportInv, Given, OnlySignalsFallBack
<1>. QED  BY ReportInvHolds, <1>1, PTL

\* The shares of every rung that can have them add up to its offset, exactly, whichever
\* of them the passes fixed.
THEOREM SharesAreComplete == Spec => []SharesMeetOffset
<1>1. RungInv => SharesAddUp
  BY DEF RungInv
<1>. QED  BY RungInvHolds, SignalsFallBack, <1>1, PTL DEF SharesMeetOffset

\* What is traded changes gaps by what it costs.
LEMMA TradesCost ==
  ASSUME QuestionTypes, RungTypes
  PROVE  LET cost == [i \in Cand |-> quantity[i] * pool[i].price]
         IN /\ Adds(cost, Cand) /\ Net(quantity) = SumFunctionOnSet(cost, Cand)
            /\ \A i \in Cand : /\ cost[i] \in Int /\ TradedNet(i) = cost[i] * Unit
                               /\ TradedNet(i) \in Int
<1> DEFINE cost == [i \in Cand |-> quantity[i] * pool[i].price]
<1>1. \A i \in Cand : quantity[i] \in Int /\ pool[i].price \in Nat /\ Unit \in Nat
  BY Members, ValuesAdd DEF RungTypes
<1>2. \A i \in Cand : cost[i] = quantity[i] * pool[i].price /\ cost[i] \in Int
  BY <1>1
<1>3. \A i \in Cand : TradedNet(i) = cost[i] * Unit /\ TradedNet(i) \in Int
  BY <1>1, <1>2 DEF TradedNet
<1>4. Adds(cost, Cand)
  <2>. HIDE DEF cost
  <2>. QED  BY <1>2, CandIsFinite DEF Adds
<1>. QED  BY <1>2, <1>3, <1>4 DEF Net

\* The gaps that build_rung reports after the trades add up to minus the residual it
\* reports, and that is the residual its repair worked off, in every rung.
THEOREM ReportsAddUp == Spec => []ReportAddsUp
<1>1. RungInv /\ ReportInv => ReportAddsUp
  <2> SUFFICES ASSUME RungInv, ReportInv, stage = "done"
               PROVE  /\ Report.residual = residual
                      /\ SumFunctionOnSet([i \in Cand |-> Report.balance[i].after], Cand)
                            = -residual * Unit
    BY DEF ReportAddsUp
  <2>1. QuestionTypes /\ RungTypes
    BY DEF RungInv
  <2>2. residual = offset - Net(quantity)
    BY DEF ReportInv, Drawn
  <2>3. Report.residual = residual
    BY <2>2 DEF Report
  <2> DEFINE cost == [i \in Cand |-> quantity[i] * pool[i].price]
             after == [i \in Cand |-> Report.balance[i].after]
  <2>4. /\ Adds(cost, Cand) /\ Net(quantity) = SumFunctionOnSet(cost, Cand)
        /\ \A i \in Cand : cost[i] \in Int /\ TradedNet(i) = cost[i] * Unit
    BY <2>1, TradesCost
  <2>5. /\ Adds(delta, Cand) /\ SumFunctionOnSet(delta, Cand) = offset * Unit
        /\ delta \in [Cand -> Int]
    BY <2>1, DeltasAdd
  <2>6. PICK a \in Int, u \in Int : a = -1 /\ u = Unit
    BY <2>1, ValuesAdd
  <2>7. \A i \in Cand : after[i] = -delta[i] + TradedNet(i)
    BY DEF Report, CandidateBalance, GapAfter, GapBefore
  <2>. HIDE DEF cost, after
  <2>8. \A i \in Cand : after[i] = a * delta[i] + u * cost[i]
    BY <2>4, <2>5, <2>6, <2>7
  <2>9. SumFunctionOnSet(after, Cand)
          = a * SumFunctionOnSet(delta, Cand) + u * SumFunctionOnSet(cost, Cand)
    <3>1. PICK d, f, h : d = delta /\ f = cost /\ h = after
      OBVIOUS
    <3>2. Adds(d, Cand)
      BY <2>5, <3>1
    <3>3. Adds(f, Cand)
      BY <2>4, <3>1
    <3>4. Combines(h, a, d, u, f, Cand)
      BY <2>8, <3>1 DEF Combines
    <3>5. a \in Int /\ u \in Int
      OBVIOUS
    <3>6. SumFunctionOnSet(h, Cand) = a * SumFunctionOnSet(d, Cand) + u * SumFunctionOnSet(f, Cand)
      BY <3>2, <3>3, <3>4, SumIsLinear
    <3>. QED  BY <3>1, <3>6
  <2>10. PICK o \in Int, n \in Int : o = offset /\ n = Net(quantity)
    BY <2>1, ValuesAdd, NetIsWhole DEF RungTypes
  <2>11. a * (o * u) + u * n = -(o - n) * u
    BY <2>6
  <2>12. SumFunctionOnSet(after, Cand) = -residual * Unit
    BY <2>2, <2>4, <2>5, <2>6, <2>9, <2>10, <2>11
  <2>. QED  BY <2>3, <2>12 DEF after
<1>. QED  BY ReportInvHolds, <1>1, PTL

\* In percent mode a trade is between nothing and the delta.
LEMMA NetWithin ==
  ASSUME QuestionTypes, RungTypes, NEW i \in Cand, Stops(i), rankBy = "percent"
  PROVE  /\ TradedNet(i) \in Int /\ delta[i] \in Int
         /\ delta[i] >= 0 => 0 <= TradedNet(i) /\ TradedNet(i) <= delta[i]
         /\ delta[i] <= 0 => delta[i] <= TradedNet(i) /\ TradedNet(i) <= 0
<1>1. PICK q \in Int, p \in Nat \ {0}, u \in Nat \ {0}, d \in Int :
          q = quantity[i] /\ p = pool[i].price /\ u = Unit /\ d = delta[i]
  BY Members, ValuesAdd, DeltasAdd DEF RungTypes
<1>2. PICK m \in Nat : m = Magnitude(q)
  BY Magnitudes
<1>3. /\ q > 0 => d > 0
      /\ q < 0 => d < 0
      /\ m * p * u <= Magnitude(d)
  BY <1>1, <1>2 DEF Stops, Buys, Sells
<1>4. PICK c \in Nat : c = m * p * u
  <2>1. m * p \in Nat
    OBVIOUS
  <2>2. m * p * u \in Nat
    BY <2>1
  <2>. QED  BY <2>2
<1>5. TradedNet(i) = q * p * u
  BY <1>1 DEF TradedNet
<1>6. q * p * u = IF q < 0 THEN -c ELSE c
  <2>1. CASE q < 0
    <3>1. q = -m
      BY <1>2, <2>1 DEF Magnitude
    <3>2. (-m) * p * u = -(m * p * u)
      OBVIOUS
    <3>. QED  BY <1>4, <2>1, <3>1, <3>2
  <2>2. CASE q >= 0
    <3>1. q = m
      BY <1>2, <2>2 DEF Magnitude
    <3>. QED  BY <1>4, <2>2, <3>1
  <2>. QED  BY <2>1, <2>2
<1>7. q = 0 => c = 0
  <2>1. q = 0 => m = 0
    BY <1>2 DEF Magnitude
  <2>2. 0 * p * u = 0
    OBVIOUS
  <2>. QED  BY <1>4, <2>1, <2>2
<1>8. c <= Magnitude(d) /\ Magnitude(d) = IF d < 0 THEN -d ELSE d
  BY <1>3, <1>4 DEF Magnitude
<1>. QED  BY <1>1, <1>3, <1>5, <1>6, <1>7, <1>8

\* Whoever is below or above a target has a gap on that side.
LEMMA Bands ==
  ASSUME NEW gap \in Int, NEW target \in Int
  PROVE  /\ GapBand(gap, target) = "below" => gap < 0
         /\ GapBand(gap, target) = "above" => gap > 0
BY DEF GapBand

\* Targets are positive: a pool that the offset would leave nothing of is refused.
LEMMA TargetsArePositive ==
  ASSUME QuestionTypes, NEW i \in Cand
  PROVE  Target(i) \in Int /\ Target(i) > 0
<1>1. PICK v \in Int, w \in Nat \ {0} : v = PoolValue + offset /\ w = Weight(i) /\ v > 0
  BY Members, ValuesAdd
<1>2. v * w > 0 * w
  BY <1>1, Cancels
<1>3. v * w \in Int /\ 0 * w = 0
  OBVIOUS
<1>. QED  BY <1>1, <1>2, <1>3 DEF Target

\* In percent mode the trades of a rung, repairs included, never widen a gap, so the
\* coverage of the gaps is between none and all; and no candidate is brought from one
\* side of the band around its target to the other.
THEOREM CoverageStays == Spec => []CoverageWithinBounds
<1>1. RungInv => CoverageWithinBounds
  <2> SUFFICES ASSUME RungInv, stage = "done", rankBy = "percent"
               PROVE  /\ \A part \in Report.coverage : 0 <= part[1] /\ part[1] <= part[2]
                      /\ \A i \in Cand : ~FlipsSide(i)
    BY DEF CoverageWithinBounds
  <2>1. QuestionTypes /\ RungTypes /\ \A i \in Cand : Stops(i)
    BY DEF RungInv, Trading
  <2>2. \A i \in Cand : /\ TradedNet(i) \in Int /\ delta[i] \in Int
                        /\ delta[i] >= 0 => 0 <= TradedNet(i) /\ TradedNet(i) <= delta[i]
                        /\ delta[i] <= 0 => delta[i] <= TradedNet(i) /\ TradedNet(i) <= 0
    BY <2>1, NetWithin
  <2> DEFINE before == [i \in Cand |-> Magnitude(delta[i])]
             after == [i \in Cand |-> Magnitude(TradedNet(i) - delta[i])]
             closed == [i \in Cand |-> before[i] - after[i]]
  <2>3. \A i \in Cand : /\ before[i] \in Int /\ after[i] \in Int /\ after[i] >= 0
                        /\ closed[i] \in Int /\ closed[i] >= 0
                        /\ closed[i] = before[i] - after[i]
    BY <2>2 DEF Magnitude
  <2>4. TotalGapBefore = SumFunctionOnSet(before, Cand)
        /\ TotalGapAfter = SumFunctionOnSet(after, Cand)
    BY DEF TotalGapBefore, TotalGapAfter
  <2>. HIDE DEF before, after, closed
  <2>5. Adds(before, Cand) /\ Adds(after, Cand) /\ Adds(closed, Cand)
    BY <2>3, CandIsFinite DEF Adds
  <2>6. SumFunctionOnSet(closed, Cand) \in Nat /\ SumFunctionOnSet(after, Cand) \in Nat
    BY <2>3, <2>5, SumIsPositive
  <2>7. SumFunctionOnSet(closed, Cand)
          = 1 * SumFunctionOnSet(before, Cand) + (-1) * SumFunctionOnSet(after, Cand)
    <3>1. PICK a \in Int, b \in Int : a = 1 /\ b = -1
      OBVIOUS
    <3>2. Combines(closed, a, before, b, after, Cand)
      BY <2>3, <3>1 DEF Combines
    <3>3. SumFunctionOnSet(closed, Cand)
            = a * SumFunctionOnSet(before, Cand) + b * SumFunctionOnSet(after, Cand)
      BY <2>5, <3>2, SumIsLinear
    <3>. QED  BY <3>1, <3>3
  <2>8. SumFunctionOnSet(before, Cand) \in Int
    BY <2>5, SumIsInt
  <2>9. 0 <= TotalGapBefore - TotalGapAfter /\ TotalGapBefore - TotalGapAfter <= TotalGapBefore
    BY <2>4, <2>6, <2>7, <2>8
  <2>10. ASSUME NEW part \in Report.coverage
         PROVE  0 <= part[1] /\ part[1] <= part[2]
    <3>1. part \in Coverage
      BY <2>10 DEF Report
    <3>2. part = <<TotalGapBefore - TotalGapAfter, TotalGapBefore>>
      BY <3>1 DEF Coverage
    <3>. QED  BY <2>9, <3>2
  <2>11. ASSUME NEW i \in Cand  PROVE ~FlipsSide(i)
    <3>1. /\ GapBefore(i) \in Int /\ GapAfter(i) \in Int
          /\ GapBefore(i) <= 0 => GapAfter(i) <= 0
          /\ GapBefore(i) >= 0 => GapAfter(i) >= 0
      BY <2>2 DEF GapBefore, GapAfter
    <3>2. /\ Report.balance[i].statusBefore = GapBand(GapBefore(i), Target(i))
          /\ Report.balance[i].statusAfter = GapBand(GapAfter(i), Target(i))
      BY DEF Report, CandidateBalance
    <3>3. Target(i) \in Int
      BY <2>1, TargetsArePositive
    <3>. QED  BY <3>1, <3>2, <3>3, Bands DEF FlipsSide
  <2>. QED  BY <2>10, <2>11
<1>. QED  BY ReportInvHolds, <1>1, PTL

\* Whatever is rounded to nothing was less than one, in the direction it came from.
LEMMA RoundsToNothing ==
  ASSUME NEW x \in Int, NEW d \in Nat \ {0}
  PROVE  /\ x >= 0 => ToZero(x, d) >= 0 /\ ToNearest(x, d) >= 0
         /\ x <= 0 => ToZero(x, d) <= 0 /\ ToNearest(x, d) <= 0
         /\ ToZero(x, d) = 0 \/ ToNearest(x, d) = 0 => Magnitude(x) < d
<1>1. PICK m \in Nat : m = Magnitude(x) /\ (x = 0 => m = 0)
  BY Magnitudes
<1>2. PICK n \in Nat, e \in Nat \ {0} : n = 2 * m + d /\ e = 2 * d
  <2>1. 2 * m + d \in Nat /\ 2 * d \in Nat \ {0}
    OBVIOUS
  <2>. QED  BY <2>1
<1>3. \A a \in Nat : \A b \in Nat \ {0} : a \div b \in Nat /\ (a \div b = 0 => a < b)
  <2> SUFFICES ASSUME NEW a \in Nat, NEW b \in Nat \ {0}
               PROVE  a \div b \in Nat /\ (a \div b = 0 => a < b)
    OBVIOUS
  <2>1. a \div b \in Nat
    BY Divides
  <2>2. a < (a \div b) * b + b
    OBVIOUS
  <2>3. a \div b = 0 => (a \div b) * b = 0
    OBVIOUS
  <2>. QED  BY <2>1, <2>2, <2>3
<1>4. m \div d \in Nat /\ (m \div d = 0 => m < d)
  BY <1>3
<1>5. n \div e \in Nat /\ (n \div e = 0 => n < e)
  BY <1>2, <1>3
<1>6. ToZero(x, d) = Signed(x, m \div d) /\ ToNearest(x, d) = Signed(x, n \div e)
  BY <1>1, <1>2 DEF ToZero, ToNearest
<1>7. x = 0 => ToZero(x, d) = 0 /\ ToNearest(x, d) = 0
  BY Rounds
<1>8. \A k \in Nat : /\ x > 0 => Signed(x, k) >= 0
                     /\ x < 0 => Signed(x, k) <= 0
                     /\ Signed(x, k) = 0 => k = 0
  BY DEF Signed
<1>9. ToZero(x, d) = 0 => m < d
  BY <1>4, <1>6, <1>8
<1>10. ToNearest(x, d) = 0 => m < d
  <2>1. ToNearest(x, d) = 0 => n < e
    BY <1>5, <1>6, <1>8
  <2>. QED  BY <1>2, <2>1
<1>11. /\ x > 0 => ToZero(x, d) >= 0 /\ ToNearest(x, d) >= 0
       /\ x < 0 => ToZero(x, d) <= 0 /\ ToNearest(x, d) <= 0
  BY <1>4, <1>5, <1>6, <1>8
<1>12. (x >= 0 => x > 0 \/ x = 0) /\ (x <= 0 => x < 0 \/ x = 0)
  OBVIOUS
<1>. QED  BY <1>1, <1>7, <1>9, <1>10, <1>11, <1>12

\* Who is off target and gets nothing was to trade less than one share.
LEMMA SmallIsLess ==
  ASSUME QuestionTypes, RungTypes, NEW i \in Cand, Directed(i), delta[i] # 0, Whole(i) = 0
  PROVE  Magnitude(share[i]) < pool[i].price * Unit * scale
<1>1. PICK u \in Nat \ {0}, p \in Nat \ {0}, s \in Nat \ {0}, x \in Int, a \in Int, h \in Nat :
          /\ u = Unit /\ p = pool[i].price /\ s = scale /\ x = share[i]
          /\ a = delta[i] /\ h = pool[i].held
  BY Members, ValuesAdd, DeltasAdd DEF RungTypes
<1>2. PICK d \in Nat \ {0} : d = u * s * p /\ d = p * u * s
  <2>1. PICK t \in Nat \ {0} : t = u * s
    <3>1. u * s \in Nat \ {0}
      OBVIOUS
    <3>. QED  BY <3>1
  <2>2. t * p \in Nat \ {0}
    OBVIOUS
  <2>3. u * s * p = p * u * s
    OBVIOUS
  <2>. QED  BY <2>1, <2>2, <2>3
<1>3. PICK r : r = Rounded(i)
  OBVIOUS
<1>4. r = IF rankBy = "percent" THEN ToZero(x, d) ELSE ToNearest(x, d)
  BY <1>1, <1>2, <1>3 DEF Rounded
<1>5. ToZero(x, d) \in Int /\ ToNearest(x, d) \in Int
  BY Rounds
<1>6. /\ r \in Int /\ (x >= 0 => r >= 0) /\ (x <= 0 => r <= 0)
      /\ r = 0 => Magnitude(x) < d
  BY <1>4, <1>5, RoundsToNothing
<1>7. (a > 0 => x >= 0) /\ (a < 0 => x <= 0) /\ (a < 0 => h > 0)
  BY <1>1, SellsAreHeld DEF Directed
<1>8. Whole(i) = CASE a > 0 /\ r < 0 -> 0
                   [] a < 0 /\ r > 0 -> 0
                   [] a < 0 /\ r < -h -> -h
                   [] OTHER -> r
  BY <1>1, <1>3 DEF Whole
<1>9. r = 0
  <2>1. ~(a > 0 /\ r < 0) /\ ~(a < 0 /\ r > 0)
    BY <1>6, <1>7
  <2>2. CASE a < 0 /\ r < -h
    <3>1. Whole(i) = -h
      BY <1>8, <2>1, <2>2
    <3>. QED  BY <1>7, <2>2, <3>1
  <2>3. CASE ~(a < 0 /\ r < -h)
    <3>1. Whole(i) = r
      BY <1>8, <2>1, <2>3
    <3>. QED  BY <3>1
  <2>. QED  BY <2>2, <2>3
<1>. QED  BY <1>1, <1>2, <1>6, <1>9

\* What a rung says of those who do not trade is so: a clamped candidate lost its
\* share to others, one that is too small was to trade less than a share unless a
\* repair took its trade, and when all is on target the candidates that were not
\* selected are, too.
THEOREM ReasonsHold == Spec => []ReasonsAreTrue
<1>1. RungInv /\ ReportInv => ReasonsAreTrue
  <2> SUFFICES ASSUME RungInv, ReportInv, stage = "done", NEW i \in Cand
               PROVE  /\ ActionKind(i) = "clamped" =>
                            share[i] = 0 /\ \E j \in selected : share[j] # 0
                      /\ ActionKind(i) = "too_small" /\ repairs = 0 =>
                            Magnitude(share[i]) < pool[i].price * Unit * scale
                      /\ TradeRowsMessage = "on_target" => delta[i] = 0
    BY DEF ReasonsAreTrue
  <2>1. QuestionTypes /\ RungTypes /\ Directed(i) /\ Clamps /\ Drawn
    BY DEF RungInv, ReportInv
  <2>2. /\ DOMAIN Report.trades = Traded /\ DOMAIN Report.untraded = Untraded
        /\ \A j \in Traded : Report.trades[j].side \in {"buy", "sell"}
        /\ \A j \in Untraded : Report.untraded[j] = UntradedReason(j)
    BY DEF Report, PlannedTrade
  <2>3. ASSUME ActionKind(i) \in {"clamped", "too_small"}
        PROVE  i \in Untraded /\ UntradedReason(i) = ActionKind(i)
    BY <2>2, <2>3 DEF ActionKind
  <2>4. ASSUME ActionKind(i) = "clamped"
        PROVE  share[i] = 0 /\ \E j \in selected : share[j] # 0
    <3>1. i \in clamped
      BY <2>3, <2>4 DEF UntradedReason
    <3>. QED  BY <2>1, <3>1 DEF Clamps, SomeShare
  <2>5. ASSUME ActionKind(i) = "too_small", repairs = 0
        PROVE  Magnitude(share[i]) < pool[i].price * Unit * scale
    <3>1. i \in Untraded /\ delta[i] # 0
      BY <2>3, <2>5 DEF UntradedReason
    <3>2. i \in selected /\ quantity[i] = 0
      BY <3>1 DEF Untraded, Traded
    <3>3. Whole(i) = 0
      BY <2>1, <2>5, <3>2 DEF Drawn
    <3>. QED  BY <2>1, <3>1, <3>3, SmallIsLess
  <2>6. ASSUME TradeRowsMessage = "on_target"  PROVE delta[i] = 0
    <3>1. Traded = {} /\ \A j \in Untraded : UntradedReason(j) = "on_target"
      BY <2>2, <2>6 DEF TradeRowsMessage, EmptyMessage
    <3>2. \A j \in selected : delta[j] = 0
      BY <3>1 DEF Untraded, UntradedReason
    <3>3. ~OffTarget(Cand)
      BY <3>2 DEF ReportInv, OffTarget
    <3>. QED  BY <3>3 DEF OffTarget
  <2>. QED  BY <2>4, <2>5, <2>6
<1>. QED  BY ReportInvHolds, <1>1, PTL

\* Everything that is reported of a rung is so.
THEOREM ReportsHold == Spec => []ReportIsTrue
BY ReportsAddUp, CoverageStays, ReasonsHold, PTL DEF ReportIsTrue

-----------------------------------------------------------------------------
(* The page.  What is kept agrees with the page because both are measured by   *)
(* the same ladder: the plan that is given is the latest one or none, and the  *)
(* latest ladder is the one the page was measured by.                          *)

\* Was the position kept before, or set by a ladder?
Chosen(p) == p.restored \/ p.rungs # Absent

KeptOf(p) == [amount |-> p.committed, rankBy |-> p.rankBy, position |-> p.position]

Measured(p, n) == n \notin {0, Absent} => p.rungs = n /\ p.position <= n

\* An open page, and what is kept of it.
Follows(p, k) == /\ k # Absent <=> Chosen(p)
                 /\ k # Absent => k.position = p.position
                 /\ k # Absent /\ p.committed # Absent => k = KeptOf(p)

PageInv == /\ PageTypeOK
           /\ plan \in {Absent, lastPlan}
           /\ page # Absent => Measured(page, lastPlan) /\ Follows(page, kept)

\* What a ladder makes of a page.
LEMMA LaddersMeasure ==
  ASSUME NEW p \in PageState, NEW n \in Plan \cup {Absent}
  PROVE  LET q == PlanChanged(p, n)
         IN /\ q \in PageState /\ Measured(q, n)
            /\ q.committed = p.committed /\ q.rankBy = p.rankBy /\ q.restored = p.restored
            /\ n \in {0, Absent} => q = p
            /\ n \notin {0, Absent} => n \in Position /\ q.rungs = n
            /\ Chosen(p) /\ q.position # p.position => q.position = n /\ n < p.position
            /\ ~Chosen(p) /\ n \notin {0, Absent} => q.position = n
            /\ Measured(p, n) => q = p
<1>1. CASE n \in {0, Absent}
  BY <1>1 DEF PlanChanged, Measured, Position
<1>2. CASE n \notin {0, Absent}
  <2>1. n \in Position /\ n # Absent /\ p.position \in Position /\ p.restored \in BOOLEAN
    BY <1>2, PageAssumption DEF Plan, Position, PageState
  <2>2. PICK at : at = IF p.rungs = Absent /\ ~p.restored THEN n ELSE Clamp(p.position, n)
    OBVIOUS
  <2>3. /\ at \in Position /\ at <= n
        /\ Chosen(p) => at = p.position \/ (at = n /\ n < p.position)
        /\ ~Chosen(p) => at = n
        /\ Chosen(p) /\ p.position <= n => at = p.position
    <3>1. CASE Chosen(p)
      <4>1. at = Clamp(p.position, n)
        BY <2>2, <3>1 DEF Chosen
      <4>. QED  BY <2>1, <3>1, <4>1 DEF Clamp, Position
    <3>2. CASE ~Chosen(p)
      BY <2>1, <2>2, <3>2 DEF Chosen, Position
    <3>. QED  BY <3>1, <3>2
  <2>4. PlanChanged(p, n) = [p EXCEPT !.rungs = n, !.position = at]
    BY <1>2, <2>2 DEF PlanChanged
  <2>5. PICK q : q = [p EXCEPT !.rungs = n, !.position = at]
    OBVIOUS
  <2>6. /\ q \in PageState /\ q.rungs = n /\ q.position = at
        /\ q.committed = p.committed /\ q.rankBy = p.rankBy /\ q.restored = p.restored
    BY <2>1, <2>3, <2>5 DEF PageState
  <2>7. Measured(p, n) => q = p
    <3>1. SUFFICES ASSUME Measured(p, n)  PROVE q = p
      OBVIOUS
    <3>2. p.rungs = n /\ at = p.position
      BY <1>2, <2>1, <2>3, <3>1 DEF Measured, Chosen
    <3>. QED  BY <2>5, <3>2 DEF PageState
  <2>. QED  BY <1>2, <2>1, <2>3, <2>4, <2>5, <2>6, <2>7 DEF Measured
<1>. QED  BY <1>1, <1>2

\* A page that is shown leaves what is kept in step with it, and moves the position
\* only as a ladder demands.
LEMMA RenderFollows ==
  ASSUME NEW p \in PageState, NEW n \in Plan \cup {Absent}, kept \in KeptPages \cup {Absent},
         Render(p, n), kept # Absent <=> Chosen(p),
         p.committed = Absent => Follows(p, kept) /\ Measured(p, n)
  PROVE  /\ page' \in PageState /\ kept' \in KeptPages \cup {Absent} /\ plan' = n
         /\ Measured(page', n) /\ Follows(page', kept')
         /\ n \in {0, Absent} => page' = p
         /\ kept = Absent /\ kept' # Absent =>
               page'.committed # Absent /\ n \notin {0, Absent} /\ kept'.position = n
         /\ kept # Absent /\ kept'.position # p.position => kept'.position = n /\ n < p.position
<1>1. PICK q : q = PlanChanged(p, n)
  OBVIOUS
<1>2. page' = q /\ kept' = Save(q) /\ plan' = n
  BY <1>1 DEF Render
<1>3. /\ q \in PageState /\ Measured(q, n)
      /\ q.committed = p.committed /\ q.rankBy = p.rankBy /\ q.restored = p.restored
      /\ n \in {0, Absent} => q = p
      /\ n \notin {0, Absent} => n \in Position /\ q.rungs = n
      /\ Chosen(p) /\ q.position # p.position => q.position = n /\ n < p.position
      /\ ~Chosen(p) /\ n \notin {0, Absent} => q.position = n
      /\ Measured(p, n) => q = p
  BY <1>1, LaddersMeasure
<1>4. Chosen(p) => Chosen(q)
  BY <1>3, PageAssumption DEF Chosen, Position
<1>5. CASE p.committed = Absent
  BY <1>2, <1>3, <1>5 DEF Save, Follows
<1>6. CASE p.committed # Absent /\ ~Chosen(q)
  <2>1. kept' = kept /\ kept = Absent
    BY <1>2, <1>3, <1>4, <1>6 DEF Save, Chosen
  <2>. QED  BY <1>2, <1>3, <1>6, <2>1 DEF Follows
<1>7. CASE p.committed # Absent /\ Chosen(q)
  <2>1. kept' = KeptOf(q)
    BY <1>2, <1>3, <1>7 DEF Save, Chosen, KeptOf
  <2>2. /\ KeptOf(q) \in KeptPages /\ KeptOf(q).position = q.position
    BY <1>3, <1>7 DEF KeptOf, KeptPages, PageState
  <2>3. KeptOf(q) # Absent
    BY <2>2, PageAssumption
  <2>4. kept = Absent => n \notin {0, Absent} /\ q.position = n
    BY <1>3, <1>7
  <2>. QED  BY <1>2, <1>3, <1>7, <2>1, <2>2, <2>3, <2>4 DEF Follows
<1>. QED  BY <1>5, <1>6, <1>7
\* Nothing of an open page's state is Absent.
LEMMA PageTypes ==
  ASSUME PageInv, PageOpen
  PROVE  /\ page \in PageState /\ kept \in KeptPages \cup {Absent} /\ Follows(page, kept)
         /\ Measured(page, lastPlan) /\ plan \in {Absent, lastPlan}
         /\ plan \in Plan \cup {Absent} /\ lastPlan \in Plan \cup {Absent}
         /\ kept # Absent <=> Chosen(page)
         /\ View = "available" =>
               plan = lastPlan /\ plan \notin {0, Absent} /\ page.committed # Absent
BY DEF PageInv, PageTypeOK, PageOpen, Follows, View

\* What each step makes of what is kept: the invariant, and where a position comes from.
StepFollows == PageInv' /\ KeepsWholeFirst /\ MovesByChoice

\* A page in its types that measured what it shows keeps the invariant.
LEMMA RenderStep ==
  ASSUME PageInv, NEW p \in PageState, NEW n \in Plan \cup {Absent}, Render(p, n),
         kept # Absent <=> Chosen(p),
         kept # Absent => kept.position = p.position \/ \E m \in 1..MaxRungs : Slide(m),
         p.committed = Absent => Follows(p, kept) /\ Measured(p, n),
         lastPlan' \in Plan \cup {Absent}, ownPlan' \in BOOLEAN,
         n = lastPlan' \/ (n = Absent /\ Measured(p, lastPlan'))
  PROVE  StepFollows
<1>1. kept \in KeptPages \cup {Absent}
  BY DEF PageInv, PageTypeOK
<1>2. /\ page' \in PageState /\ kept' \in KeptPages \cup {Absent} /\ plan' = n
      /\ Measured(page', n) /\ Follows(page', kept')
      /\ n \in {0, Absent} => page' = p
      /\ kept = Absent /\ kept' # Absent =>
            page'.committed # Absent /\ n \notin {0, Absent} /\ kept'.position = n
      /\ kept # Absent /\ kept'.position # p.position => kept'.position = n /\ n < p.position
  BY <1>1, RenderFollows
<1>3. Measured(page', lastPlan')
  BY <1>2
<1>4. PageTypeOK'
  BY <1>2 DEF PageTypeOK
<1>5. PageInv'
  BY <1>2, <1>3, <1>4 DEF PageInv, Measured, Follows, Chosen, KeptOf
<1>6. kept = Absent /\ kept' # Absent => View' = "available" /\ kept'.position = plan'
  BY <1>2 DEF View
<1>. QED  BY <1>2, <1>5, <1>6 DEF StepFollows, KeepsWholeFirst, MovesByChoice

\* Asking for something else, of a page that keeps its position.
LEMMA AskedAgainStep ==
  ASSUME PageInv, PageOpen, NEW p \in PageState, AskedAgain(p),
         p.position = page.position, p.rungs = page.rungs, p.restored = page.restored
  PROVE  StepFollows
<1>1. /\ kept \in KeptPages \cup {Absent} /\ Follows(page, kept) /\ Measured(page, lastPlan)
      /\ lastPlan \in Plan \cup {Absent} /\ (kept # Absent <=> Chosen(page))
  BY PageTypes
<1>2. /\ kept # Absent <=> Chosen(p)
      /\ kept # Absent => kept.position = p.position
      /\ Measured(p, lastPlan)
      /\ p.committed = Absent => Follows(p, kept)
  BY <1>1 DEF Follows, Chosen, Measured
<1>3. CASE Render(p, lastPlan) /\ ownPlan' = FALSE /\ UNCHANGED lastPlan
  BY <1>1, <1>2, <1>3, RenderStep
<1>4. ASSUME p.committed # Absent, NEW n \in Plan, Render(p, n), ownPlan' = TRUE, lastPlan' = n
      PROVE  StepFollows
  BY <1>1, <1>2, <1>4, RenderStep
<1>. QED  BY <1>3, <1>4 DEF AskedAgain

\* Each step of the page keeps it in step with what is kept.
LEMMA PageStep == PageInv /\ [PageNext]_pageVars => StepFollows
<1> SUFFICES ASSUME PageInv, [PageNext]_pageVars
             PROVE  StepFollows
  OBVIOUS
<1>1. ASSUME NEW a \in PageAmount \cup {Absent}, Type(a)  PROVE StepFollows
  <2>1. PICK p : p = [page EXCEPT !.input = a]
    OBVIOUS
  <2>2. /\ Render(p, plan) /\ PageOpen /\ lastPlan' = lastPlan /\ ownPlan' = ownPlan
    BY <1>1, <2>1 DEF Type
  <2>3. /\ page \in PageState /\ Follows(page, kept) /\ Measured(page, lastPlan)
        /\ plan \in {Absent, lastPlan} /\ plan \in Plan \cup {Absent}
        /\ lastPlan \in Plan \cup {Absent} /\ (kept # Absent <=> Chosen(page))
    BY <2>2, PageTypes
  <2>4. /\ p \in PageState /\ p.committed = page.committed /\ p.rankBy = page.rankBy
        /\ p.position = page.position /\ p.rungs = page.rungs /\ p.restored = page.restored
    BY <2>1, <2>3 DEF PageState
  <2>5. Follows(p, kept) /\ Measured(p, lastPlan) /\ (kept # Absent <=> Chosen(p))
    BY <2>3, <2>4 DEF Follows, Measured, Chosen, KeptOf
  <2>6. Measured(p, plan)
    BY <2>3, <2>5 DEF Measured
  <2>7. ownPlan' \in BOOLEAN /\ (kept # Absent => kept.position = p.position)
    BY <2>2, <2>5 DEF PageInv, PageTypeOK, Follows
  <2>. QED  BY <2>2, <2>3, <2>4, <2>5, <2>6, <2>7, RenderStep
<1>2. ASSUME Commit  PROVE StepFollows
  <2>1. PICK p : p = [page EXCEPT !.committed = page.input]
    OBVIOUS
  <2>2. AskedAgain(p) /\ PageOpen
    BY <1>2, <2>1 DEF Commit
  <2>3. page \in PageState
    BY <2>2, PageTypes
  <2>4. /\ p \in PageState
        /\ p.position = page.position /\ p.rungs = page.rungs /\ p.restored = page.restored
    BY <2>1, <2>3 DEF PageState
  <2>. QED  BY <2>2, <2>4, AskedAgainStep
<1>3. ASSUME NEW r \in RankBy, ChooseRank(r)  PROVE StepFollows
  <2>1. PICK p : p = [page EXCEPT !.rankBy = r]
    OBVIOUS
  <2>2. AskedAgain(p) /\ PageOpen
    BY <1>3, <2>1 DEF ChooseRank
  <2>3. page \in PageState
    BY <2>2, PageTypes
  <2>4. /\ p \in PageState
        /\ p.position = page.position /\ p.rungs = page.rungs /\ p.restored = page.restored
    BY <2>1, <2>3 DEF PageState
  <2>. QED  BY <2>2, <2>4, AskedAgainStep
<1>4. ASSUME NEW n \in 1..MaxRungs, Slide(n)  PROVE StepFollows
  <2>1. PICK at : at = Clamp(n, IF page.rungs = Absent THEN n ELSE page.rungs)
    OBVIOUS
  <2>2. PICK p : p = [page EXCEPT !.position = at]
    OBVIOUS
  <2>3. /\ Render(p, plan) /\ PageOpen /\ lastPlan' = lastPlan /\ ownPlan' = ownPlan
        /\ View = "available"
    BY <1>4, <2>1, <2>2 DEF Slide
  <2>4. /\ page \in PageState /\ Measured(page, lastPlan)
        /\ plan = lastPlan /\ plan \notin {0, Absent} /\ page.committed # Absent
        /\ lastPlan \in Plan \cup {Absent} /\ (kept # Absent <=> Chosen(page))
    BY <2>3, PageTypes
  <2>5. page.rungs = plan /\ plan \in Position /\ n \in Position
    BY <2>4, PageAssumption DEF Measured, Plan, Position
  <2>6. at \in Position /\ at <= plan
    BY <2>1, <2>4, <2>5 DEF Clamp, Position
  <2>7. /\ p \in PageState /\ p.committed = page.committed
        /\ p.rungs = page.rungs /\ p.restored = page.restored
    BY <2>2, <2>4, <2>6 DEF PageState
  <2>8. (kept # Absent <=> Chosen(p)) /\ ownPlan' \in BOOLEAN
    BY <2>3, <2>4, <2>7 DEF Chosen, PageInv, PageTypeOK
  <2>. QED  BY <1>4, <2>3, <2>4, <2>7, <2>8, RenderStep
<1>5. ASSUME Leave  PROVE StepFollows
  BY <1>5 DEF Leave, PageInv, PageTypeOK, StepFollows, KeepsWholeFirst, MovesByChoice
<1>6. ASSUME Enter  PROVE StepFollows
  <2>1. PICK n \in Plan \cup {Absent} : Render(Load, n) /\ lastPlan' = n /\ ownPlan' = (n # Absent)
    BY <1>6 DEF Enter
  <2>2. PICK p : p = Load
    OBVIOUS
  <2>3. kept \in KeptPages \cup {Absent} /\ ZeroAmount \in PageAmount /\ Absent \notin KeptPages
    BY PageAssumption DEF PageInv, PageTypeOK
  <2>4. CASE kept = Absent
    <3>1. p = InitialPage
      BY <2>2, <2>4 DEF Load
    <3>2. p \in PageState /\ ~Chosen(p) /\ p.committed = ZeroAmount
      BY <2>3, <3>1 DEF InitialPage, PageState, Chosen, Position, RankBy
    <3>3. ZeroAmount # Absent
      BY PageAssumption
    <3>. QED  BY <2>1, <2>2, <2>4, <3>2, <3>3, RenderStep
  <2>5. CASE kept # Absent
    <3>1. p = [input |-> kept.amount, committed |-> kept.amount, rankBy |-> kept.rankBy,
               position |-> kept.position, rungs |-> Absent, restored |-> TRUE]
      BY <2>2, <2>5 DEF Load
    <3>2. kept.amount \in PageAmount /\ kept.rankBy \in RankBy /\ kept.position \in Position
      BY <2>3, <2>5 DEF KeptPages
    <3>3. p \in PageState /\ Chosen(p) /\ p.committed # Absent /\ p.position = kept.position
      BY <3>1, <3>2, PageAssumption DEF PageState, Chosen
    <3>. QED  BY <2>1, <2>2, <2>5, <3>3, RenderStep
  <2>. QED  BY <2>4, <2>5
<1>7. ASSUME PageOpen, NEW n \in Plan \cup {Absent}, Render(page, n),
             n = lastPlan' \/ (n = Absent /\ lastPlan' = lastPlan),
             lastPlan' \in Plan \cup {Absent}, ownPlan' \in BOOLEAN,
             page.committed # Absent \/ n = lastPlan
      PROVE  StepFollows
  <2>1. /\ page \in PageState /\ Follows(page, kept) /\ Measured(page, lastPlan)
        /\ (kept # Absent <=> Chosen(page))
    BY <1>7, PageTypes
  <2>2. kept # Absent => kept.position = page.position
    BY <2>1 DEF Follows
  <2>. QED  BY <1>7, <2>1, <2>2, RenderStep
<1>8. ASSUME Answer  PROVE StepFollows
  BY <1>7, <1>8 DEF Answer
<1>9. ASSUME Fail  PROVE StepFollows
  BY <1>7, <1>9 DEF Fail, PageInv, PageTypeOK
<1>10. ASSUME NewSnapshot  PROVE StepFollows
  BY <1>7, <1>10 DEF NewSnapshot, PageInv, PageTypeOK
<1>11. CASE UNCHANGED pageVars
  BY <1>11 DEF pageVars, PageInv, PageTypeOK, Measured, Follows, Chosen, KeptOf, StepFollows,
         KeepsWholeFirst, MovesByChoice
<1>. QED  BY <1>1, <1>2, <1>3, <1>4, <1>5, <1>6, <1>8, <1>9, <1>10, <1>11 DEF PageNext

\* Nothing is kept of a page that was never opened.
LEMMA PageStarts == PageInit => PageInv
BY DEF PageInit, PageInv, PageTypeOK

\* The invariant holds of every page.
LEMMA PageInvHolds == PageSpec => []PageInv
<1>1. PageInv /\ [PageNext]_pageVars => PageInv'
  BY PageStep DEF StepFollows
<1>. QED  BY PageStarts, <1>1, PTL DEF PageSpec

\* However plans come, fail and shrink, and however often it is left, the page is
\* opened again with the amount, the ranking and the rung that it shows
\* (saveRebalancePageState, loadRebalancePageState).
THEOREM ShownStaysKept == PageSpec => []ShownIsKept
<1>1. PageInv => ShownIsKept
  <2> SUFFICES ASSUME PageInv, page # Absent, View = "available"
               PROVE  kept = [amount |-> page.committed, rankBy |-> page.rankBy,
                              position |-> ShownPosition]
    BY DEF ShownIsKept
  <2>1. /\ page \in PageState /\ Follows(page, kept) /\ Measured(page, plan)
        /\ plan \in Plan /\ plan \notin {0, Absent} /\ page.committed # Absent
    BY PageTypes DEF PageOpen
  <2>2. page.rungs = plan /\ page.position <= plan /\ page.position \in Position
        /\ plan \in Position
    BY <2>1, PageAssumption DEF Measured, PageState, Plan, Position
  <2>3. ShownPosition = page.position
    BY <2>2 DEF ShownPosition, Clamp, Position
  <2>4. kept = KeptOf(page)
    BY <2>1, <2>2 DEF Follows, Chosen
  <2>. QED  BY <2>3, <2>4 DEF KeptOf
<1>. QED  BY PageInvHolds, <1>1, PTL

\* A page that kept nothing keeps nothing until it shows a ladder, and then the whole
\* of it: a slider without a range is never taken for a choice.
THEOREM WholeIsKeptFirst == PageSpec => FirstKeptIsWhole
<1>1. PageInv /\ [PageNext]_pageVars => [KeepsWholeFirst]_pageVars
  BY PageStep DEF StepFollows
<1>. QED  BY PageInvHolds, <1>1, PTL DEF PageSpec, FirstKeptIsWhole

\* The position that is kept moves with the slider or to the end of a shorter ladder,
\* for every sequence of amounts, rankings, answers, failures and visits.
THEOREM PositionsAreChosen == PageSpec => PositionIsChosen
<1>1. PageInv /\ [PageNext]_pageVars => [MovesByChoice]_pageVars
  BY PageStep DEF StepFollows
<1>. QED  BY PageInvHolds, <1>1, PTL DEF PageSpec, PositionIsChosen

\* The page keeps what it shows, from the whole ladder on, and moves only what was
\* chosen, in every sequence of visits.
THEOREM PagesAreKept == PageSpec => PageIsKept
<1>1. PageInv /\ [PageNext]_pageVars /\ ShownIsKept' =>
         [ShownIsKept' /\ KeepsWholeFirst /\ MovesByChoice]_pageVars
  BY PageStep DEF StepFollows
<1>. QED  BY PageInvHolds, ShownStaysKept, <1>1, PTL DEF PageSpec, PageIsKept

-----------------------------------------------------------------------------
(* Money.  Every ledger of a book derives at every place, so that what is true *)
(* of the trades up to a place can be shown trade by trade.                    *)

\* The prices of a trade have the signs that it was recorded with.
Priced == {t \in Entry :
             /\ {t.price, t.brokerage} \subseteq Exact /\ ~IsBelow(t.brokerage, Zero)
             /\ t.kind # "Split" => IsPositive(t.price)
             /\ t.fx # None => t.fx \in Exact /\ IsPositive(t.fx)
             /\ t.kind = "Dividend" => t.quantity > 0}

InOrder(l) == \A m, n \in 1..Len(l) : m <= n => l[m].date <= l[n].date
Derived(l) == \A n \in 1..Len(l) : Fits(PositionsAfter(l)[n - 1], l[n])

BooksDerive == /\ ledger \in [Instrument -> Seq(Priced)]
               /\ \A i \in Instrument : InOrder(ledger[i]) /\ Derived(ledger[i])
               /\ enabled \in SUBSET Source
               /\ rows \in [Source -> [Day -> Closes \cup {None}]]
               /\ rates \in RateRows

\* A ledger that goes on as another derives as far as the other does.
LEMMA DerivedAlike ==
  ASSUME NEW l, NEW k, Len(l) \in Nat, Len(k) \in Nat, Len(k) <= Len(l),
         \A n \in 1..Len(k) : k[n] = l[n]
  PROVE  Derived(k) <=> \A n \in 1..Len(k) : Fits(PositionsAfter(l)[n - 1], l[n])
<1>1. \A m \in 0..Len(k) : PositionsAfter(l)[m] = PositionsAfter(k)[m]
  BY SamePositions
<1>2. \A n \in 1..Len(k) : n - 1 \in 0..Len(k)
  OBVIOUS
<1>. QED  BY <1>1, <1>2 DEF Derived

LEMMA DerivedStep ==
  ASSUME NEW l \in Seq(Priced), NEW t \in Priced, InOrder(l), Derived(l),
         Fits(PositionOf(l), t), \A n \in 1..Len(l) : l[n].date <= t.date
  PROVE  InOrder(Append(l, t)) /\ Derived(Append(l, t))
<1> DEFINE more == Append(l, t)
           n == Len(l)
<1>1. n \in Nat /\ Len(more) = n + 1 /\ more[n + 1] = t /\ \A m \in 1..n : l[m] = more[m]
  OBVIOUS
<1>2. \A m \in 1..(n + 1) : m \in 1..n \/ m = n + 1
  BY <1>1
<1>3. t.date \in Nat /\ \A m \in 1..n : l[m].date \in Nat
  BY Days DEF Priced, Entry
<1>. HIDE DEF more
<1>4. InOrder(more)
  <2>. SUFFICES ASSUME NEW j \in 1..(n + 1), NEW k \in 1..(n + 1), j <= k
                PROVE  more[j].date <= more[k].date
    BY <1>1 DEF InOrder
  <2>1. CASE k \in 1..n
    <3>1. j \in 1..n
      BY <1>1, <2>1
    <3>. QED  BY <1>1, <2>1, <3>1 DEF InOrder
  <2>2. CASE k = n + 1 /\ j \in 1..n
    BY <1>1, <2>2
  <2>3. CASE k = n + 1 /\ j = n + 1
    BY <1>1, <1>3, <2>3
  <2>. QED  BY <1>2, <2>1, <2>2, <2>3
<1>5. \A m \in 0..n : PositionsAfter(more)[m] = PositionsAfter(l)[m]
  BY <1>1, SamePositions
<1>6. Derived(more)
  <2>. SUFFICES ASSUME NEW m \in 1..(n + 1)
                PROVE  Fits(PositionsAfter(more)[m - 1], more[m])
    BY <1>1 DEF Derived
  <2>1. m - 1 \in 0..n
    BY <1>1
  <2>2. PositionsAfter(more)[m - 1] = PositionsAfter(l)[m - 1]
    BY <1>5, <2>1
  <2>3. CASE m \in 1..n
    BY <1>1, <2>2, <2>3 DEF Derived
  <2>4. CASE m = n + 1
    <3>1. m - 1 = n
      BY <1>1, <2>4
    <3>. QED  BY <1>1, <2>2, <2>4, <3>1 DEF PositionOf
  <2>. QED  BY <1>2, <2>3, <2>4
<1>. QED  BY <1>4, <1>6 DEF more

LEMMA BooksDeriveInit == ReportInit => BooksDerive
<1>. SUFFICES ASSUME ReportInit PROVE BooksDerive
  OBVIOUS
<1>1. ledger = [i \in Instrument |-> <<>>] /\ Len(<<>>) = 0 /\ <<>> \in Seq(Priced)
  BY DEF ReportInit
<1>2. InOrder(<<>>) /\ Derived(<<>>)
  BY <1>1 DEF InOrder, Derived
<1>. QED  BY <1>1, <1>2 DEF BooksDerive, ReportInit

LEMMA BooksDeriveNext == BooksDerive /\ [ReportNext]_reportVars => BooksDerive'
<1>. SUFFICES ASSUME BooksDerive, [ReportNext]_reportVars PROVE BooksDerive'
  OBVIOUS
<1>1. CASE UNCHANGED reportVars
  BY <1>1 DEF BooksDerive, reportVars, book
<1>2. ASSUME NEW i \in Instrument, NEW d \in Day, NEW body \in Bodies[i], Record(i, body, d)
      PROVE  BooksDerive'
  <2> DEFINE t == [id |-> Trades + 1, date |-> d, kind |-> body.kind,
                   quantity |-> body.quantity, price |-> body.price,
                   fx |-> body.fx, brokerage |-> body.brokerage]
             l == ledger[i]
  <2>1. ledger' = [ledger EXCEPT ![i] = Append(@, t)] /\ UNCHANGED book
    BY <1>2 DEF Record
  <2>2. l \in Seq(Priced) /\ InOrder(l) /\ Derived(l)
    BY DEF BooksDerive
  <2>3. t \in Priced
    <3>1. Home \in Instrument /\ Foreign \in Instrument
      BY DEF Instrument
    <3>2. Trades + 1 \in Nat
      <4>1. ledger[Home] \in Seq(Priced) /\ ledger[Foreign] \in Seq(Priced)
        BY <3>1 DEF BooksDerive
      <4>2. Len(ledger[Home]) \in Nat /\ Len(ledger[Foreign]) \in Nat
        BY <4>1
      <4>3. PICK h \in Nat, f \in Nat : h = Len(ledger[Home]) /\ f = Len(ledger[Foreign])
        BY <4>2
      <4>4. Trades = h + f
        BY <4>3 DEF Trades
      <4>. QED  BY <4>4
    <3>3. body \in Recorded
      BY DEF Recorded
    <3>4. /\ body.kind \in Kinds /\ body.quantity \in Int
          /\ body.kind \in {"Buy", "Dividend"} => body.quantity > 0
          /\ body.kind = "Sell" => body.quantity < 0
          /\ {body.price, body.brokerage} \subseteq Exact /\ ~IsBelow(body.brokerage, Zero)
          /\ body.kind # "Split" => IsPositive(body.price)
          /\ body.fx # None => body.fx \in Exact /\ IsPositive(body.fx)
      BY BodyAssumption DEF Instrument
    <3>5. t \in Entry
      BY <3>2, <3>3, <3>4 DEF Entry
    <3>. QED  BY <3>4, <3>5 DEF Priced
  <2>4. Fits(PositionOf(l), t)
    <3>1. Derives(i, body)
      BY <1>2 DEF Record
    <3>. QED  BY <3>1 DEF Derives, Fits
  <2>5. \A n \in 1..Len(l) : l[n].date <= t.date
    <3>. SUFFICES ASSUME NEW n \in 1..Len(l)  PROVE l[n].date <= d
      OBVIOUS
    <3>1. l # <<>> /\ Len(l) \in 1..Len(l) /\ n <= Len(l)
      BY <2>2
    <3>2. d >= l[Len(l)].date
      BY <1>2, <3>1 DEF Record, LastDate
    <3>3. l[n].date <= l[Len(l)].date
      BY <2>2, <3>1 DEF InOrder
    <3>4. l[n].date \in Nat /\ l[Len(l)].date \in Nat /\ d \in Nat
      BY <2>2, <3>1, Days DEF Priced, Entry
    <3>. QED  BY <3>2, <3>3, <3>4
  <2>. HIDE DEF t
  <2>6. InOrder(Append(l, t)) /\ Derived(Append(l, t)) /\ Append(l, t) \in Seq(Priced)
    BY <2>2, <2>3, <2>4, <2>5, DerivedStep
  <2>7. ledger' \in [Instrument -> Seq(Priced)]
    BY <2>1, <2>6 DEF BooksDerive
  <2>8. \A j \in Instrument : ledger'[j] = IF j = i THEN Append(l, t) ELSE ledger[j]
    BY <2>1 DEF BooksDerive
  <2>9. \A j \in Instrument : InOrder(ledger'[j]) /\ Derived(ledger'[j])
    <3>. HIDE DEF l
    <3>. QED  BY <2>6, <2>8 DEF BooksDerive
  <2>. QED  BY <2>1, <2>7, <2>9 DEF BooksDerive, book
<1>. QED  BY <1>1, <1>2 DEF ReportNext

-----------------------------------------------------------------------------
(* The trades up to a day are the first of a ledger.                           *)

\* A set of places that holds what precedes a member is an interval.
LEMMA FirstPlaces ==
  ASSUME NEW n \in Nat, NEW S \in SUBSET (1..n), \A j \in 1..n : \A k \in S : j <= k => j \in S
  PROVE  Cardinality(S) \in 0..n /\ S = 1..Cardinality(S)
<1> DEFINE outside == {m \in Nat : m > 0 /\ m \notin S}
<1>1. n + 1 \in outside
  OBVIOUS
<1>2. PICK m \in outside : \A k \in outside : m <= k
  <2>. HIDE DEF outside
  <2>1. outside \in SUBSET Nat
    BY DEF outside
  <2>. QED  BY <1>1, <2>1, SmallestOf
<1>3. m \in Nat /\ m > 0 /\ m \notin S /\ m <= n + 1
  BY <1>1, <1>2
<1>4. \A k \in 1..(m - 1) : k \in S
  BY <1>2, <1>3
<1>5. \A k \in S : k \in 1..(m - 1)
  BY <1>3
<1>6. S = 1..(m - 1) /\ m - 1 \in 0..n
  <2>1. m - 1 \in 0..n
    BY <1>3
  <2>2. \A k : k \in S <=> k \in 1..(m - 1)
    BY <1>4, <1>5
  <2>. QED  BY <2>1, <2>2
<1>7. Cardinality(S) = m - 1
  <2>1. PICK k \in Nat : k = m - 1
    BY <1>6
  <2>2. Cardinality(1..k) = k
    <3>1. PICK one \in Int : one = 1
      OBVIOUS
    <3>2. Cardinality(one..k) = IF one > k THEN 0 ELSE k - one + 1
      BY FS_Interval
    <3>. QED  BY <3>1, <3>2
  <2>. QED  BY <1>6, <2>1, <2>2
<1>. QED  BY <1>6, <1>7

LEMMA UntilIsFirst ==
  ASSUME NEW l \in Seq(Priced), InOrder(l), NEW d \in Int
  PROVE  /\ CountUntil(l, d) \in 0..Len(l)
         /\ \A n \in 1..Len(l) : l[n].date <= d <=> n <= CountUntil(l, d)
         /\ d < 1 => CountUntil(l, d) = 0
<1> DEFINE S == {n \in DOMAIN l : l[n].date <= d}
<1>1. DOMAIN l = 1..Len(l) /\ Len(l) \in Nat
  OBVIOUS
<1>2. \A n \in 1..Len(l) : l[n].date \in Day /\ l[n].date \in Nat /\ l[n].date >= 1
  <2>1. \A n \in 1..Len(l) : l[n] \in Priced
    OBVIOUS
  <2>2. \A n \in 1..Len(l) : l[n].date \in Day
    BY <2>1 DEF Priced, Entry
  <2>. QED  BY <2>2, Days
<1>3. \A j \in 1..Len(l) : \A k \in S : j <= k => j \in S
  <2>. SUFFICES ASSUME NEW j \in 1..Len(l), NEW k \in 1..Len(l), l[k].date <= d, j <= k
                PROVE  l[j].date <= d
    BY <1>1
  <2>1. l[j].date <= l[k].date
    BY DEF InOrder
  <2>. QED  BY <1>2, <2>1
<1>4. Cardinality(S) \in 0..Len(l) /\ S = 1..Cardinality(S)
  <2>1. S \in SUBSET (1..Len(l))
    BY <1>1
  <2>. HIDE DEF S
  <2>. QED  BY <1>1, <1>3, <2>1, FirstPlaces
<1>5. CountUntil(l, d) = Cardinality(S)
  BY DEF CountUntil
<1>6. \A n \in 1..Len(l) : l[n].date <= d <=> n \in S
  BY <1>1
<1>7. d < 1 => S = {}
  BY <1>1, <1>2
<1>8. Cardinality({}) = 0
  BY FS_EmptySet
<1>. HIDE DEF S
<1>. QED  BY <1>1, <1>4, <1>5, <1>6, <1>7, <1>8

\* The trades from the first day on, and what is true of them.
LEMMA FirstTrades ==
  ASSUME NEW l \in Seq(Priced), InOrder(l), Derived(l), NEW d \in Int
  PROVE  LET some == Dated(l, 0, d) IN
         /\ some \in Seq(Priced) /\ InOrder(some) /\ Derived(some)
         /\ Len(some) = CountUntil(l, d) /\ Len(some) <= Len(l)
         /\ \A n \in 1..Len(some) : some[n] = l[n] /\ some[n].date <= d
         /\ \A from \in Int : CountUntil(l, from - 1) = 0 => Dated(l, from, d) = some
<1> DEFINE k == CountUntil(l, d)
           some == Dated(l, 0, d)
<1>1. k \in 0..Len(l) /\ \A n \in 1..Len(l) : l[n].date <= d <=> n <= k
  BY UntilIsFirst
<1>2. CountUntil(l, 0 - 1) = 0
  <2>1. PICK e \in Int : e = 0 - 1
    OBVIOUS
  <2>2. CountUntil(l, e) = 0
    BY <2>1, UntilIsFirst
  <2>. QED  BY <2>1, <2>2
<1>. HIDE DEF k
<1>3. some = SubSeq(l, 0 + 1, k)
  BY <1>2 DEF Dated, k
<1>4. some = SubSeq(l, 1, k)
  BY <1>3
<1>5. some \in Seq(Priced) /\ Len(some) = k /\ \A n \in 1..k : some[n] = l[n]
  BY <1>1, <1>4
<1>6. \A from \in Int : CountUntil(l, from - 1) = 0 => Dated(l, from, d) = some
  BY <1>3 DEF Dated, k
<1>. HIDE DEF some
<1>7. InOrder(some)
  <2>. SUFFICES ASSUME NEW m \in 1..k, NEW n \in 1..k, m <= n
                PROVE  l[m].date <= l[n].date
    BY <1>5 DEF InOrder
  <2>. QED  BY <1>1 DEF InOrder
<1>8. Derived(some)
  <2>1. \A n \in 1..k : Fits(PositionsAfter(l)[n - 1], l[n])
    BY <1>1 DEF Derived
  <2>. QED  BY <1>1, <1>5, <2>1, DerivedAlike
<1>9. \A n \in 1..Len(some) : some[n].date <= d
  BY <1>1, <1>5
<1>. QED  BY <1>1, <1>5, <1>6, <1>7, <1>8, <1>9 DEF k, some

-----------------------------------------------------------------------------
(* What the splits make of a share.                                            *)

NextFactor(was, t) ==
    CASE t.kind \in {"Buy", "Sell"} -> [was EXCEPT !.quantity = @ + t.quantity]
      [] t.kind = "Split" /\ was.quantity > 0 ->
            [[was EXCEPT !.quantity = @ + t.quantity] EXCEPT !.factor =
                @ ** (Amount([was EXCEPT !.quantity = @ + t.quantity].quantity)
                        // Amount(was.quantity))]
      [] OTHER -> was

FactorsUpTo(trades, opening, n, at) ==
    at = [m \in 0..n |-> IF m = 0 THEN [quantity |-> opening, factor |-> One]
                         ELSE NextFactor(at[m - 1], trades[m])]
Factors(trades, opening) == CHOOSE at : FactorsUpTo(trades, opening, Len(trades), at)

\* The factors of the trades up to any place exist.
LEMMA FactorsExist ==
  ASSUME NEW trades, NEW opening, NEW n \in Nat
  PROVE  \E at : FactorsUpTo(trades, opening, n, at)
<1> DEFINE first == [quantity |-> opening, factor |-> One]
           Bad == {m \in Nat : ~\E at : FactorsUpTo(trades, opening, m, at)}
<1>0. \A m, at : FactorsUpTo(trades, opening, m, at)
         <=> at = [k \in 0..m |-> IF k = 0 THEN first ELSE NextFactor(at[k - 1], trades[k])]
  BY DEF FactorsUpTo
<1>. HIDE DEF first
<1>1. 0 \notin Bad
  <2> DEFINE none == [m \in 0..0 |-> first]
  <2>1. none = [m \in 0..0 |-> IF m = 0 THEN first ELSE NextFactor(none[m - 1], trades[m])]
    OBVIOUS
  <2>. HIDE DEF none
  <2>2. FactorsUpTo(trades, opening, 0, none)
    BY <1>0, <2>1
  <2>. QED  BY <2>2
<1>2. ASSUME NEW k \in Bad, k - 1 \notin Bad
      PROVE  FALSE
  <2>1. k \in Nat /\ k # 0 /\ k - 1 \in Nat
    BY <1>1
  <2>2. PICK was : FactorsUpTo(trades, opening, k - 1, was)
    BY <1>2, <2>1
  <2> DEFINE at == [m \in 0..k |-> IF m = k THEN NextFactor(was[k - 1], trades[k])
                                   ELSE was[m]]
  <2>3. was = [m \in 0..(k - 1) |-> IF m = 0 THEN first
                                    ELSE NextFactor(was[m - 1], trades[m])]
    BY <1>0, <2>2
  <2>4. \A m \in 0..k : at[m] = IF m = 0 THEN first ELSE NextFactor(at[m - 1], trades[m])
    <3>. SUFFICES ASSUME NEW m \in 0..k
                  PROVE  at[m] = IF m = 0 THEN first ELSE NextFactor(at[m - 1], trades[m])
      OBVIOUS
    <3>1. CASE m = k
      <4>1. m # 0 /\ at[m - 1] = was[k - 1] /\ at[m] = NextFactor(was[k - 1], trades[k])
        BY <2>1, <3>1
      <4>. QED  BY <3>1, <4>1
    <3>2. CASE m # k /\ m # 0
      <4>1. m \in 0..(k - 1) /\ m - 1 \in 0..k /\ m - 1 # k
        BY <2>1, <3>2
      <4>2. at[m] = was[m] /\ at[m - 1] = was[m - 1]
        BY <3>2, <4>1
      <4>3. was[m] = NextFactor(was[m - 1], trades[m])
        BY <2>3, <3>2, <4>1
      <4>. QED  BY <3>2, <4>2, <4>3
    <3>3. CASE m = 0
      <4>1. m # k /\ m \in 0..(k - 1)
        BY <2>1, <3>3
      <4>2. was[m] = first
        BY <2>3, <3>3, <4>1
      <4>. QED  BY <3>3, <4>1, <4>2
    <3>. QED  BY <3>1, <3>2, <3>3
  <2>5. at = [m \in 0..k |-> at[m]]
    OBVIOUS
  <2>. HIDE DEF at
  <2>6. at = [m \in 0..k |-> IF m = 0 THEN first ELSE NextFactor(at[m - 1], trades[m])]
    BY <2>4, <2>5
  <2>7. FactorsUpTo(trades, opening, k, at)
    BY <1>0, <2>6
  <2>. QED  BY <2>7
<1>3. Bad \in SUBSET Nat
  OBVIOUS
<1>. HIDE DEF Bad
<1>4. Bad = {}
  BY <1>1, <1>2, <1>3, EveryPlace
<1>. QED  BY <1>4 DEF Bad

IsFactor(x, plain) ==
    /\ x = [quantity |-> x.quantity, factor |-> x.factor]
    /\ x.quantity \in Int /\ x.factor \in Exact
    /\ plain => x.factor = One

LEMMA FactorStep ==
  ASSUME NEW was, NEW plain \in BOOLEAN, IsFactor(was, plain), NEW t \in Entry,
         plain => t.kind # "Split"
  PROVE  IsFactor(NextFactor(was, t), plain)
<1> DEFINE q == was.quantity + t.quantity
           moved == [was EXCEPT !.quantity = @ + t.quantity]
           grown == [moved EXCEPT !.factor = @ ** (Amount(moved.quantity) // Amount(was.quantity))]
           part == Amount(q) // Amount(was.quantity)
<1>1. /\ was = [quantity |-> was.quantity, factor |-> was.factor]
      /\ was.quantity \in Int /\ was.factor \in Exact
      /\ plain => was.factor = One
  BY DEF IsFactor
<1>2. t.quantity \in Int /\ q \in Int
  BY <1>1 DEF Entry
<1>3. moved = [quantity |-> q, factor |-> was.factor]
  BY <1>1
<1>4. moved.quantity = q /\ moved.factor = was.factor
  BY <1>3
<1>5. grown = [quantity |-> q, factor |-> was.factor ** part]
  <2>. HIDE DEF moved, part
  <2>1. grown = [quantity |-> q, factor |-> was.factor ** (Amount(q) // Amount(was.quantity))]
    BY <1>3, <1>4
  <2>. QED  BY <2>1 DEF part
<1>6. CASE t.kind \in {"Buy", "Sell"}
  <2>1. NextFactor(was, t) = moved
    BY <1>6 DEF NextFactor
  <2>. HIDE DEF q, moved
  <2>. QED  BY <1>1, <1>2, <1>3, <1>4, <2>1 DEF IsFactor
<1>7. CASE t.kind = "Split" /\ was.quantity > 0
  <2>1. NextFactor(was, t) = grown
    BY <1>7 DEF NextFactor
  <2>2. part \in Exact
    <3>1. PICK n \in Int, m \in Int : n = q /\ m = was.quantity /\ m > 0
      BY <1>1, <1>2, <1>7
    <3>2. Is(Amount(n), n, 1) /\ Is(Amount(m), m, 1)
      BY WholeIsExact
    <3>3. Is(Amount(n) // Amount(m), n * 1, 1 * m)
      BY <3>1, <3>2, QuotientIs
    <3>. QED  BY <3>1, <3>3 DEF Is
  <2>3. was.factor ** part \in Exact
    BY <1>1, <2>2, TimesLaws
  <2>4. ~plain
    BY <1>7
  <2>. HIDE DEF q, moved, part, grown
  <2>5. grown.quantity = q /\ grown.factor = was.factor ** part
    BY <1>5
  <2>. QED  BY <1>2, <1>5, <2>1, <2>3, <2>4, <2>5 DEF IsFactor
<1>8. CASE t.kind \notin {"Buy", "Sell"} /\ ~(t.kind = "Split" /\ was.quantity > 0)
  <2>1. NextFactor(was, t) = was
    BY <1>8 DEF NextFactor
  <2>. QED  BY <2>1
<1>. QED  BY <1>6, <1>7, <1>8

\* A split factor is an amount, and one without splits.
LEMMA SplitFactorIs ==
  ASSUME NEW trades \in Seq(Priced), NEW opening \in Int, NEW plain \in BOOLEAN,
         plain => \A n \in 1..Len(trades) : trades[n].kind # "Split"
  PROVE  /\ SplitFactor(trades, opening) \in Exact
         /\ plain => SplitFactor(trades, opening) = One
<1> DEFINE at == Factors(trades, opening)
<1>1. PICK k \in Nat : k = Len(trades)
  OBVIOUS
<1>2. FactorsUpTo(trades, opening, k, at)
  <2>1. \E x : FactorsUpTo(trades, opening, k, x)
    BY FactorsExist
  <2>. QED  BY <1>1, <2>1 DEF Factors
<1>3. SplitFactor(trades, opening) = at[k].factor
  BY <1>1 DEF SplitFactor, Factors, FactorsUpTo, NextFactor
<1>. HIDE DEF at
<1> DEFINE Bad == {m \in 0..k : ~IsFactor(at[m], plain)}
<1>4. 0 \notin Bad
  <2>1. at[0] = [quantity |-> opening, factor |-> One]
    BY <1>1, <1>2 DEF FactorsUpTo
  <2>2. One \in Exact
    BY WholeIsExact DEF One
  <2>. QED  BY <2>1, <2>2 DEF IsFactor
<1>5. ASSUME NEW m \in Bad, m - 1 \notin Bad
      PROVE  FALSE
  <2>1. m \in 1..k /\ m - 1 \in 0..k /\ m \in 0..k /\ m # 0 /\ ~IsFactor(at[m], plain)
    BY <1>4
  <2>2. IsFactor(at[m - 1], plain)
    BY <1>5, <2>1
  <2>3. at[m] = NextFactor(at[m - 1], trades[m])
    BY <1>2, <2>1 DEF FactorsUpTo
  <2>4. trades[m] \in Entry /\ (plain => trades[m].kind # "Split")
    <3>1. trades[m] \in Priced
      BY <1>1, <2>1
    <3>. QED  BY <1>1, <2>1, <3>1 DEF Priced
  <2>. QED  BY <2>1, <2>2, <2>3, <2>4, FactorStep
<1>6. Bad \in SUBSET Nat
  OBVIOUS
<1>7. Bad = {}
  <2>. HIDE DEF Bad
  <2>. QED  BY <1>4, <1>5, <1>6, EveryPlace
<1>8. IsFactor(at[k], plain)
  BY <1>7
<1>. QED  BY <1>3, <1>8 DEF IsFactor

-----------------------------------------------------------------------------
(* What was paid and what came back, trade by trade.                           *)

Cost(p) == p.base.value.cost
Fee(p) == p.base.value.fee

\* The money of a trade, at its rate: in for a purchase, back for a sale.
PaidFor(t) == Gross(t) ** t.fx ++ t.brokerage

LEMMA TradeAmounts ==
  ASSUME NEW t \in Priced
  PROVE  /\ t.price \in Exact /\ t.brokerage \in Exact /\ Amount(t.quantity) \in Exact
         /\ t.quantity \in Int /\ Gross(t) \in Exact
         /\ t.fx # None =>
               /\ t.fx \in Exact /\ PaidFor(t) \in Exact /\ Gross(t) ** t.fx \in Exact
               /\ t.price ** Amount(-t.quantity) \in Exact
               /\ (t.price ** Amount(-t.quantity)) ** t.fx = Zero -- (Gross(t) ** t.fx)
<1>1. /\ t.price \in Exact /\ t.brokerage \in Exact /\ t.quantity \in Int
      /\ t.fx # None => t.fx \in Exact
  BY DEF Priced, Entry
<1>2. PICK n \in Int : n = t.quantity /\ -n \in Int
  BY <1>1
<1>3. Amount(n) \in Exact /\ Amount(-n) \in Exact /\ Zero \in Exact
  BY <1>2, WholeIsExact, ZeroLaws
<1>4. t.price ** Amount(n) \in Exact /\ t.price ** Amount(-n) \in Exact
  BY <1>1, <1>3, TimesLaws
<1>5. Gross(t) = t.price ** Amount(n)
  BY <1>2 DEF Gross
<1>6. t.price ** Amount(-n) = Zero -- (t.price ** Amount(n))
  <2>1. Amount(-n) = Zero -- Amount(n)
    BY WholeSums
  <2>2. t.price ** Amount(-n) = (Zero -- Amount(n)) ** t.price
    BY <1>1, <1>3, <2>1, TimesLaws
  <2>3. (Zero -- Amount(n)) ** t.price = (Zero ** t.price) -- (Amount(n) ** t.price)
    BY <1>1, <1>3, Distributive
  <2>4. Zero ** t.price = Zero /\ Amount(n) ** t.price = t.price ** Amount(n)
    BY <1>1, <1>3, ZeroLaws, TimesLaws
  <2>. QED  BY <2>2, <2>3, <2>4
<1>7. ASSUME t.fx # None
      PROVE  /\ t.fx \in Exact /\ PaidFor(t) \in Exact /\ Gross(t) ** t.fx \in Exact
             /\ (t.price ** Amount(-n)) ** t.fx = Zero -- (Gross(t) ** t.fx)
  <2>1. t.fx \in Exact /\ Gross(t) \in Exact
    BY <1>1, <1>4, <1>5, <1>7
  <2>2. Gross(t) ** t.fx \in Exact /\ (Zero ** t.fx) = Zero
    BY <2>1, TimesLaws, ZeroLaws
  <2>3. PaidFor(t) \in Exact
    BY <1>1, <2>2, PlusLaws DEF PaidFor
  <2>4. (Zero -- Gross(t)) ** t.fx = (Zero ** t.fx) -- (Gross(t) ** t.fx)
    BY <1>3, <2>1, Distributive
  <2>. QED  BY <1>5, <1>6, <2>1, <2>2, <2>3, <2>4
<1>. QED  BY <1>1, <1>2, <1>3, <1>4, <1>5, <1>7

PositionIs(p) ==
    /\ IsPosition(p) /\ p.native \in Exact
    /\ p.base.known => Cost(p) \in Exact /\ Fee(p) \in Exact
    /\ p.quantity = 0 => p.base.known /\ Cost(p) = Zero

\* The parts of a position that a sale takes and keeps.
LEMMA SalePart ==
  ASSUME NEW p, NEW t, p.quantity \in Nat, t.quantity \in Int, t.quantity < 0,
         p.quantity + t.quantity >= 0, NEW a \in Exact
  PROVE  /\ Taken(p, t) \in Exact /\ Kept(p, t) \in Exact
         /\ (a ** Taken(p, t)) ++ (a ** Kept(p, t)) = a
         /\ p.quantity + t.quantity = 0 => a ** Kept(p, t) = Zero
<1>1. PICK n \in Nat \ {0}, m \in Int, k \in Int :
         n = p.quantity /\ m = -t.quantity /\ k = p.quantity + t.quantity /\ m + k = n
  OBVIOUS
<1>2. Taken(p, t) = Amount(m) // Amount(n) /\ Kept(p, t) = Amount(k) // Amount(n)
  BY <1>1 DEF Taken, Kept
<1>3. /\ Taken(p, t) \in Exact /\ Kept(p, t) \in Exact
      /\ (a ** Taken(p, t)) ++ (a ** Kept(p, t)) = a
  BY <1>1, <1>2, PartsOfWhole
<1>4. ASSUME k = 0  PROVE a ** Kept(p, t) = Zero
  <2>1. Is(Amount(k), k, 1) /\ Is(Amount(n), n, 1) /\ n > 0
    BY WholeIsExact
  <2>2. Is(Kept(p, t), k * 1, 1 * n)
    BY <1>2, <2>1, QuotientIs
  <2>3. Is(Kept(p, t), 0, n)
    <3>1. k * 1 = 0 /\ 1 * n = n
      BY <1>4
    <3>. QED  BY <2>2, <3>1
  <2>4. Kept(p, t) = Zero
    BY <2>3, NumOf, ZeroOver, SameNum
  <2>. QED  BY <2>4, ZeroLaws
<1>. QED  BY <1>1, <1>3, <1>4

LEMMA PositionAmounts ==
  ASSUME NEW p, PositionIs(p), NEW t \in Priced, Fits(p, t)
  PROVE  LET q == ApplyTrade(p, t) IN
         /\ PositionIs(q)
         /\ t.kind = "Buy" /\ p.base.known /\ t.fx # None => Cost(q) = Cost(p) ++ PaidFor(t)
         /\ t.kind = "Sell" /\ p.base.known => Cost(q) = Cost(p) ** Kept(p, t)
<1> DEFINE q == ApplyTrade(p, t)
<1>1. /\ IsPosition(p) /\ p.native \in Exact /\ p.quantity \in Nat
      /\ p.base.known => Cost(p) \in Exact /\ Fee(p) \in Exact
      /\ p.quantity = 0 => p.base.known /\ Cost(p) = Zero
  BY DEF PositionIs, IsPosition
<1>2. t \in Entry /\ t.kind \in Kinds
  BY DEF Priced, Entry
<1>3. /\ t.price \in Exact /\ t.brokerage \in Exact /\ t.quantity \in Int /\ Gross(t) \in Exact
      /\ t.fx # None => PaidFor(t) \in Exact
  BY TradeAmounts
<1>4. /\ IsPosition(q)
      /\ q.quantity = IF t.kind = "Dividend" THEN p.quantity ELSE p.quantity + t.quantity
      /\ t.kind = "Buy" => (q.base.known <=> p.base.known /\ t.fx # None)
      /\ t.kind = "Sell" => (q.base.known <=> q.quantity = 0 \/ p.base.known)
      /\ t.kind \in {"Split", "Dividend"} => q.base = p.base
  BY <1>1, <1>2, PositionStep
<1>5. CASE t.kind = "Buy"
  <2> DEFINE cost == p.base.value.cost ++ (Gross(t) ** t.fx ++ t.brokerage)
             fee == p.base.value.fee ++ t.brokerage
  <2>1. q = [quantity |-> p.quantity + t.quantity, native |-> p.native ++ Gross(t),
             base |-> CASE t.fx = None -> Mark(p.base, {t.id})
                        [] t.fx # None /\ ~p.base.known -> p.base
                        [] OTHER -> Known([cost |-> cost, fee |-> fee])]
    BY <1>5 DEF ApplyTrade, ApplyBuy
  <2>2. q.native = p.native ++ Gross(t) /\ q.native \in Exact
    <3>. HIDE DEF cost, fee, q
    <3>1. q.native = p.native ++ Gross(t)
      BY <2>1
    <3>. QED  BY <1>1, <1>3, <3>1, PlusLaws
  <2>3. ASSUME p.base.known, t.fx # None
        PROVE  Cost(q) = Cost(p) ++ PaidFor(t) /\ Cost(q) \in Exact /\ Fee(q) \in Exact
    <3>. HIDE DEF cost, fee, q
    <3>1. q.base = Known([cost |-> cost, fee |-> fee])
      BY <2>1, <2>3
    <3>2. q.base.value = [cost |-> cost, fee |-> fee]
      BY <3>1 DEF Known
    <3>3. Cost(q) = cost /\ Fee(q) = fee
      BY <3>2 DEF Cost, Fee
    <3>4. cost = Cost(p) ++ PaidFor(t) /\ fee = Fee(p) ++ t.brokerage
      BY DEF cost, fee, Cost, Fee, PaidFor
    <3>5. Cost(p) ++ PaidFor(t) \in Exact /\ Fee(p) ++ t.brokerage \in Exact
      BY <1>1, <1>3, <2>3, PlusLaws
    <3>. QED  BY <3>3, <3>4, <3>5
  <2>4. q.quantity # 0
    BY <1>1, <1>2, <1>4, <1>5 DEF Entry
  <2>. HIDE DEF q
  <2>. QED  BY <1>4, <1>5, <2>2, <2>3, <2>4 DEF PositionIs, q
<1>6. CASE t.kind = "Sell"
  <2>0. t.quantity < 0 /\ p.quantity + t.quantity >= 0
    BY <1>1, <1>2, <1>3, <1>6 DEF Entry, Fits
  <2> DEFINE cost == p.base.value.cost ** Kept(p, t)
             fee == p.base.value.fee ** Kept(p, t)
             native == p.native ** Kept(p, t)
  <2>1. q = IF p.quantity + t.quantity = 0 THEN EmptyPosition
            ELSE [quantity |-> p.quantity + t.quantity, native |-> native,
                  base |-> IF ~p.base.known THEN p.base
                           ELSE Known([cost |-> cost, fee |-> fee])]
    BY <1>6 DEF ApplyTrade, ApplySell
  <2>2. Zero \in Exact /\ Kept(p, t) \in Exact
    BY <1>1, <1>3, <2>0, ZeroLaws, SalePart
  <2>3. CASE p.quantity + t.quantity = 0
    <3>1. q = EmptyPosition
      BY <2>1, <2>3
    <3>. HIDE DEF q
    <3>2. q.native = Zero /\ q.base.known /\ Cost(q) = Zero /\ Fee(q) = Zero
      BY <3>1 DEF EmptyPosition, Known, Cost, Fee
    <3>3. p.base.known => Cost(p) ** Kept(p, t) = Zero
      BY <1>1, <1>3, <2>0, <2>3, SalePart
    <3>. QED  BY <1>4, <1>6, <2>2, <3>2, <3>3 DEF PositionIs, q
  <2>4. CASE p.quantity + t.quantity # 0
    <3>. HIDE DEF cost, fee, native, q
    <3>1. q = [quantity |-> p.quantity + t.quantity, native |-> native,
               base |-> IF ~p.base.known THEN p.base ELSE Known([cost |-> cost, fee |-> fee])]
      BY <2>1, <2>4
    <3>2. q.native = native /\ native \in Exact /\ q.quantity # 0
      <4>1. q.native = native /\ q.quantity = p.quantity + t.quantity
        BY <3>1
      <4>2. native \in Exact
        BY <1>1, <2>2, TimesLaws DEF native
      <4>. QED  BY <2>4, <4>1, <4>2
    <3>3. q.base.known => p.base.known
      BY <1>4, <1>6, <3>2 DEF q
    <3>4. ASSUME p.base.known
          PROVE  Cost(q) = Cost(p) ** Kept(p, t) /\ Cost(q) \in Exact /\ Fee(q) \in Exact
      <4>1. q.base = Known([cost |-> cost, fee |-> fee])
        BY <3>1, <3>4
      <4>2. q.base.value = [cost |-> cost, fee |-> fee]
        BY <4>1 DEF Known
      <4>3. Cost(q) = cost /\ Fee(q) = fee
        BY <4>2 DEF Cost, Fee
      <4>4. cost = Cost(p) ** Kept(p, t) /\ fee = Fee(p) ** Kept(p, t)
        BY DEF cost, fee, Cost, Fee
      <4>. QED  BY <1>1, <2>2, <3>4, <4>3, <4>4, TimesLaws
    <3>. QED  BY <1>4, <1>6, <3>2, <3>3, <3>4 DEF PositionIs, q
  <2>. HIDE DEF q
  <2>. QED  BY <2>3, <2>4
<1>7. CASE t.kind = "Split"
  <2>1. q = [quantity |-> p.quantity + t.quantity, native |-> p.native, base |-> p.base]
    BY <1>1, <1>7 DEF ApplyTrade, ApplySplit, IsPosition
  <2>2. q.quantity # 0
    BY <1>1, <1>3, <1>4, <1>7 DEF Fits
  <2>3. q.native = p.native /\ q.base = p.base
    BY <2>1
  <2>. HIDE DEF q
  <2>4. Cost(q) = Cost(p) /\ Fee(q) = Fee(p)
    BY <2>3 DEF Cost, Fee
  <2>. QED  BY <1>1, <1>4, <1>7, <2>2, <2>3, <2>4 DEF PositionIs, q
<1>8. CASE t.kind = "Dividend"
  <2>1. q = p
    BY <1>8 DEF ApplyTrade
  <2>. HIDE DEF q
  <2>. QED  BY <1>8, <2>1 DEF q
<1>. QED  BY <1>2, <1>5, <1>6, <1>7, <1>8 DEF Kinds

\* The figures of a sale whose rate and basis are known.
SaleGain(p, t) ==
    (t.price ** Amount(-t.quantity)) ** t.fx -- t.brokerage -- Cost(p) ** Taken(p, t)
SalePrice(p, t) ==
    (t.price ** Amount(-t.quantity) -- p.native ** Taken(p, t)) ** t.fx
        -- Fee(p) ** Taken(p, t) -- t.brokerage
SaleFx(p, t) ==
    (p.native ** Taken(p, t)) ** t.fx -- (Cost(p) ** Taken(p, t) -- Fee(p) ** Taken(p, t))

LEMMA SaleFigures ==
  ASSUME NEW r, IsGains(r), NEW p, NEW t, t.fx # None, p.base.known
  PROVE  LET s == AccumulateRealizedGain(r, p, t) IN
         /\ s.gain = Add(r.gain, SaleGain(p, t))
         /\ s.price = Add(r.price, SalePrice(p, t))
         /\ s.fx = Add(r.fx, SaleFx(p, t))
<1> DEFINE proceedsNative == t.price ** Amount(-t.quantity)
           costNative == p.native ** Taken(p, t)
           proceeds == proceedsNative ** t.fx -- t.brokerage
           cost == p.base.value.cost ** Taken(p, t)
           fee == p.base.value.fee ** Taken(p, t)
           price == (proceedsNative -- costNative) ** t.fx -- fee -- t.brokerage
           rate == costNative ** t.fx -- (cost -- fee)
           gain == proceeds -- cost
           paid == fee ++ t.brokerage
           counted == [r EXCEPT !.sold = @ - t.quantity,
                                !.proceedsNative = @ ++ proceedsNative,
                                !.costNative = @ ++ costNative,
                                !.brokerage = @ ++ t.brokerage]
           s == AccumulateRealizedGain(r, p, t)
<1>1. /\ IsGains(counted)
      /\ counted.proceeds = r.proceeds /\ counted.cost = r.cost /\ counted.price = r.price
      /\ counted.fx = r.fx /\ counted.gain = r.gain /\ counted.fee = r.fee
  <2>. HIDE DEF proceedsNative, costNative
  <2>. QED  BY DEF IsGains, GainFigures
<1>2. s = [[counted EXCEPT !.proceeds = Add(@, proceeds)] EXCEPT
              !.cost = Add(@, cost), !.price = Add(@, price), !.fx = Add(@, rate),
              !.gain = Add(@, gain), !.fee = Add(@, paid)]
  BY DEF AccumulateRealizedGain
<1>3. gain = SaleGain(p, t) /\ price = SalePrice(p, t) /\ rate = SaleFx(p, t)
  BY DEF SaleGain, SalePrice, SaleFx, Cost, Fee
<1>. HIDE DEF proceedsNative, costNative, proceeds, cost, fee, price, rate, gain, paid,
              counted, s
<1>4. s.price = Add(r.price, price) /\ s.fx = Add(r.fx, rate) /\ s.gain = Add(r.gain, gain)
  BY <1>1, <1>2 DEF IsGains, GainFigures
<1>. QED  BY <1>3, <1>4 DEF s

\* A sale's two effects are its gain; they are amounts.
LEMMA SaleAmounts ==
  ASSUME NEW p, PositionIs(p), p.base.known, NEW t \in Priced, Fits(p, t), t.kind = "Sell",
         t.fx # None
  PROVE  /\ SaleGain(p, t) \in Exact /\ SalePrice(p, t) \in Exact /\ SaleFx(p, t) \in Exact
         /\ SalePrice(p, t) ++ SaleFx(p, t) = SaleGain(p, t)
         /\ \A back \in Exact :
               (back ++ Cost(p)) ++ SaleGain(p, t)
                  = (back ++ (Zero -- PaidFor(t))) ++ (Cost(p) ** Kept(p, t))
<1>1. /\ p.native \in Exact /\ p.quantity \in Nat /\ Cost(p) \in Exact /\ Fee(p) \in Exact
  BY DEF PositionIs, IsPosition
<1>2. /\ t.quantity \in Int /\ t.quantity < 0 /\ p.quantity + t.quantity >= 0
  <2>1. t \in Entry
    BY DEF Priced
  <2>. QED  BY <1>1, <2>1 DEF Entry, Fits
<1>3. /\ t.brokerage \in Exact /\ t.fx \in Exact /\ Gross(t) ** t.fx \in Exact
      /\ t.price ** Amount(-t.quantity) \in Exact
      /\ (t.price ** Amount(-t.quantity)) ** t.fx = Zero -- (Gross(t) ** t.fx)
  BY TradeAmounts
<1>4. PICK pn, cn, taken, rest, cost, fee, back0 :
         /\ pn = t.price ** Amount(-t.quantity) /\ cn = p.native ** Taken(p, t)
         /\ taken = Taken(p, t) /\ rest = Kept(p, t) /\ cost = Cost(p) ** taken
         /\ fee = Fee(p) ** taken /\ back0 = Cost(p) ** rest
  OBVIOUS
<1>5. /\ taken \in Exact /\ rest \in Exact /\ cost \in Exact /\ fee \in Exact
      /\ cn \in Exact /\ pn \in Exact /\ back0 \in Exact
      /\ cost ++ back0 = Cost(p)
  <2>1. Taken(p, t) \in Exact /\ Kept(p, t) \in Exact
    BY <1>1, <1>2, SalePart
  <2>2. (Cost(p) ** Taken(p, t)) ++ (Cost(p) ** Kept(p, t)) = Cost(p)
    BY <1>1, <1>2, SalePart
  <2>. QED  BY <1>1, <1>3, <1>4, <2>1, <2>2, TimesLaws
<1>6. PICK n \in Exact, c \in Exact : n = pn ** t.fx /\ c = cn ** t.fx
  BY <1>3, <1>5, TimesLaws
<1>7. (pn -- cn) ** t.fx = n -- c
  BY <1>3, <1>5, <1>6, Distributive
<1>8. /\ SaleGain(p, t) = (n -- t.brokerage) -- cost
      /\ SalePrice(p, t) = ((n -- c) -- fee) -- t.brokerage
      /\ SaleFx(p, t) = c -- (cost -- fee)
  BY <1>4, <1>6, <1>7 DEF SaleGain, SalePrice, SaleFx
<1>9. SaleGain(p, t) \in Exact /\ SalePrice(p, t) \in Exact /\ SaleFx(p, t) \in Exact
  <2>1. n -- t.brokerage \in Exact /\ n -- c \in Exact /\ cost -- fee \in Exact
    BY <1>3, <1>5, MinusExact
  <2>2. (n -- c) -- fee \in Exact
    BY <1>5, <2>1, MinusExact
  <2>. QED  BY <1>3, <1>5, <1>8, <2>1, <2>2, MinusExact
<1>10. SalePrice(p, t) ++ SaleFx(p, t) = SaleGain(p, t)
  <2>1. PICK b \in Exact : b = t.brokerage
    BY <1>3
  <2>2. (((n -- c) -- fee) -- b) ++ (c -- (cost -- fee)) = (n -- b) -- cost
    BY <1>5, TwoEffects
  <2>. QED  BY <1>8, <2>1, <2>2
<1>11. ASSUME NEW back \in Exact
       PROVE  (back ++ Cost(p)) ++ SaleGain(p, t)
                 = (back ++ (Zero -- PaidFor(t))) ++ (Cost(p) ** Kept(p, t))
  <2>1. PICK q \in Exact, b \in Exact : q = Gross(t) ** t.fx /\ b = t.brokerage
    BY <1>3
  <2>2. (back ++ (cost ++ back0)) ++ (((Zero -- q) -- b) -- cost)
           = (back ++ (Zero -- (q ++ b))) ++ back0
    BY <1>5, SoldPart
  <2>3. SaleGain(p, t) = ((Zero -- q) -- b) -- cost
    BY <1>3, <1>4, <1>6, <1>8, <2>1
  <2>4. PaidFor(t) = q ++ b
    BY <2>1 DEF PaidFor
  <2>. QED  BY <1>4, <1>5, <2>2, <2>3, <2>4
<1>. QED  BY <1>9, <1>10, <1>11

GainsAre(r) ==
    /\ IsGains(r) /\ \E known \in BOOLEAN : CostsKnown(r, known)
    /\ r.gain.known => /\ r.gain.value \in Exact /\ r.price.value \in Exact
                       /\ r.fx.value \in Exact
                       /\ r.price.value ++ r.fx.value = r.gain.value

\* The gain is what came back and what is left of the cost.
Linked(p, r, back) ==
    p.base.known /\ r.gain.known => back \in Exact /\ r.gain.value = back ++ Cost(p)

LEMMA MoneyStep ==
  ASSUME NEW p, PositionIs(p), NEW r, GainsAre(r), NEW t \in Priced, Fits(p, t),
         NEW back, Linked(p, r, back)
  PROVE  LET q == ApplyTrade(p, t)
             s == NextGains(r, p, t) IN
         /\ GainsAre(s)
         /\ q.base.known /\ s.gain.known =>
               p.base.known /\ r.gain.known /\ (Invests(t) => t.fx # None)
         /\ Linked(q, s, IF Invests(t) THEN back ++ (Zero -- PaidFor(t)) ELSE back)
<1> DEFINE q == ApplyTrade(p, t)
           s == NextGains(r, p, t)
<1>1. t \in Entry /\ t.kind \in Kinds /\ IsPosition(p)
  BY DEF Priced, Entry, PositionIs
<1>2. /\ t.kind = "Buy" => (q.base.known <=> p.base.known /\ t.fx # None)
      /\ t.kind = "Sell" => (q.base.known <=> q.quantity = 0 \/ p.base.known)
      /\ t.kind \in {"Split", "Dividend"} => q.base = p.base
  BY <1>1, PositionStep
<1>3. /\ t.kind = "Buy" /\ p.base.known /\ t.fx # None => Cost(q) = Cost(p) ++ PaidFor(t)
      /\ t.kind = "Sell" /\ p.base.known => Cost(q) = Cost(p) ** Kept(p, t)
  BY PositionAmounts
<1>. HIDE DEF q
<1>4. CASE t.kind = "Buy"
  <2>1. s = r /\ Invests(t)
    BY <1>4 DEF NextGains, Invests
  <2>2. ASSUME q.base.known, r.gain.known
        PROVE  /\ p.base.known /\ t.fx # None /\ back ++ (Zero -- PaidFor(t)) \in Exact
               /\ r.gain.value = (back ++ (Zero -- PaidFor(t))) ++ Cost(q)
    <3>1. p.base.known /\ t.fx # None /\ Cost(q) = Cost(p) ++ PaidFor(t)
      BY <1>2, <1>3, <1>4, <2>2
    <3>2. back \in Exact /\ r.gain.value = back ++ Cost(p)
      BY <2>2, <3>1 DEF Linked
    <3>3. Cost(p) \in Exact /\ PaidFor(t) \in Exact
      BY <3>1, TradeAmounts DEF PositionIs
    <3>4. back ++ Cost(p) = (back ++ (Zero -- PaidFor(t))) ++ (Cost(p) ++ PaidFor(t))
      BY <3>2, <3>3, MovedOver
    <3>5. Zero -- PaidFor(t) \in Exact
      BY <3>3, ZeroLaws
    <3>6. back ++ (Zero -- PaidFor(t)) \in Exact
      BY <3>2, <3>5, PlusLaws
    <3>. QED  BY <3>1, <3>2, <3>4, <3>6
  <2>. HIDE DEF s
  <2>. QED  BY <2>1, <2>2 DEF Linked, q, s
<1>5. CASE t.kind = "Sell"
  <2>1. s = AccumulateRealizedGain(r, p, t) /\ Invests(t)
    BY <1>5 DEF NextGains, Invests
  <2>2. PICK known \in BOOLEAN : CostsKnown(r, known)
    BY DEF GainsAre
  <2>3. IsGains(s) /\ CostsKnown(s, known /\ t.fx # None /\ p.base.known)
    BY <2>1, <2>2, GainStep DEF GainsAre
  <2>. HIDE DEF s
  <2>4. s.gain.known <=> r.gain.known /\ t.fx # None /\ p.base.known
    BY <2>2, <2>3 DEF CostsKnown
  <2>5. ASSUME s.gain.known
        PROVE  /\ s.gain.value \in Exact /\ s.price.value \in Exact /\ s.fx.value \in Exact
               /\ s.price.value ++ s.fx.value = s.gain.value
               /\ back ++ (Zero -- PaidFor(t)) \in Exact
               /\ s.gain.value = (back ++ (Zero -- PaidFor(t))) ++ Cost(q)
    <3>1. r.gain.known /\ t.fx # None /\ p.base.known /\ r.price.known /\ r.fx.known
      BY <2>2, <2>4, <2>5 DEF CostsKnown
    <3>2. /\ s.gain = Add(r.gain, SaleGain(p, t)) /\ s.price = Add(r.price, SalePrice(p, t))
          /\ s.fx = Add(r.fx, SaleFx(p, t))
      BY <2>1, <3>1, SaleFigures DEF GainsAre
    <3>3. /\ s.gain.value = r.gain.value ++ SaleGain(p, t)
          /\ s.price.value = r.price.value ++ SalePrice(p, t)
          /\ s.fx.value = r.fx.value ++ SaleFx(p, t)
      BY <3>1, <3>2 DEF Add, Known
    <3>4. /\ SaleGain(p, t) \in Exact /\ SalePrice(p, t) \in Exact /\ SaleFx(p, t) \in Exact
          /\ SalePrice(p, t) ++ SaleFx(p, t) = SaleGain(p, t)
          /\ \A other \in Exact :
                (other ++ Cost(p)) ++ SaleGain(p, t)
                   = (other ++ (Zero -- PaidFor(t))) ++ (Cost(p) ** Kept(p, t))
      BY <1>5, <3>1, SaleAmounts
    <3>5. /\ r.gain.value \in Exact /\ r.price.value \in Exact /\ r.fx.value \in Exact
          /\ r.price.value ++ r.fx.value = r.gain.value
      BY <3>1 DEF GainsAre
    <3>6. /\ s.gain.value \in Exact /\ s.price.value \in Exact /\ s.fx.value \in Exact
      BY <3>3, <3>4, <3>5, PlusExact
    <3>7. s.price.value ++ s.fx.value = s.gain.value
      <4>1. (r.price.value ++ SalePrice(p, t)) ++ (r.fx.value ++ SaleFx(p, t))
              = (r.price.value ++ r.fx.value) ++ (SalePrice(p, t) ++ SaleFx(p, t))
        BY <3>4, <3>5, Regrouped
      <4>. QED  BY <3>3, <3>4, <3>5, <4>1
    <3>8. back \in Exact /\ r.gain.value = back ++ Cost(p)
      BY <3>1 DEF Linked
    <3>9. s.gain.value = (back ++ (Zero -- PaidFor(t))) ++ Cost(q)
      <4>1. Cost(q) = Cost(p) ** Kept(p, t)
        BY <1>3, <1>5, <3>1
      <4>. QED  BY <3>3, <3>4, <3>8, <4>1
    <3>10. back ++ (Zero -- PaidFor(t)) \in Exact
      <4>1. PaidFor(t) \in Exact
        BY <3>1, TradeAmounts
      <4>2. Zero -- PaidFor(t) \in Exact
        BY <4>1, ZeroLaws
      <4>. QED  BY <3>8, <4>2, PlusLaws
    <3>. QED  BY <3>6, <3>7, <3>9, <3>10
  <2>6. GainsAre(s)
    <3>2. \E other \in BOOLEAN : CostsKnown(s, other)
      <4>1. PICK other \in BOOLEAN : other <=> known /\ t.fx # None /\ p.base.known
        OBVIOUS
      <4>. QED  BY <2>3, <4>1 DEF CostsKnown
    <3>. QED  BY <2>3, <2>5, <3>2 DEF GainsAre
  <2>. QED  BY <2>1, <2>4, <2>5, <2>6 DEF Linked, q, s
<1>6. CASE t.kind \in {"Split", "Dividend"}
  <2>1. s = r /\ ~Invests(t) /\ q.base = p.base
    BY <1>2, <1>6 DEF NextGains, Invests
  <2>2. Cost(q) = Cost(p)
    BY <2>1 DEF Cost
  <2>. HIDE DEF s
  <2>. QED  BY <2>1, <2>2 DEF Linked, q, s
<1>. QED  BY <1>1, <1>4, <1>5, <1>6 DEF Kinds

\* What came back of the trades of a ledger, and the places of those that invest.
Back(l) == [n \in 1..Len(l) |-> Zero -- PaidFor(l[n])]
InvestedUpTo(l, n) == {m \in 1..n : Invests(l[m])}

MoneyAt(l, n) ==
    LET p == PositionsAfter(l)[n]
        r == RealizedAfter(l)[n]
    IN  /\ PositionIs(p) /\ GainsAre(r)
        /\ Linked(p, r, SumOver(Back(l), InvestedUpTo(l, n)))
        /\ p.base.known /\ r.gain.known => \A m \in InvestedUpTo(l, n) : l[m].fx # None

LEMMA MoneyAtFirst ==
  ASSUME NEW l \in Seq(Priced)
  PROVE  MoneyAt(l, 0)
<1>1. PositionsAfter(l)[0] = EmptyPosition /\ RealizedAfter(l)[0] = NothingRealized
  BY PositionsFold, GainsFold
<1>2. Zero \in Exact /\ Zero ++ Zero = Zero
  <2>1. Zero \in Exact
    BY WholeIsExact DEF Zero
  <2>. QED  BY <2>1, ZeroLaws
<1>3. PositionIs(EmptyPosition) /\ Cost(EmptyPosition) = Zero
  <2>1. /\ EmptyPosition.quantity = 0 /\ EmptyPosition.native = Zero /\ EmptyPosition.base.known
        /\ Cost(EmptyPosition) = Zero /\ Fee(EmptyPosition) = Zero /\ IsPosition(EmptyPosition)
    BY DEF EmptyPosition, Known, Cost, Fee, IsPosition
  <2>. QED  BY <1>2, <2>1 DEF PositionIs
<1>4. GainsAre(NothingRealized) /\ NothingRealized.gain.value = Zero
  <2>1. IsGains(NothingRealized)
    BY DEF IsGains, GainFigures, NothingRealized
  <2>2. CostsKnown(NothingRealized, TRUE)
    BY DEF NothingRealized, CostsKnown, Known
  <2>3. /\ NothingRealized.gain.value = Zero /\ NothingRealized.price.value = Zero
        /\ NothingRealized.fx.value = Zero
    BY DEF NothingRealized, Known
  <2>. QED  BY <1>2, <2>1, <2>2, <2>3 DEF GainsAre
<1>5. InvestedUpTo(l, 0) = {}
  BY DEF InvestedUpTo
<1>6. SumOver(Back(l), {}) = Zero
  BY SumOverNone
<1>. QED  BY <1>1, <1>2, <1>3, <1>4, <1>5, <1>6 DEF MoneyAt, Linked

LEMMA MoneyAtNext ==
  ASSUME NEW l \in Seq(Priced), Derived(l), NEW n \in 1..Len(l), MoneyAt(l, n - 1)
  PROVE  MoneyAt(l, n)
<1> DEFINE p == PositionsAfter(l)[n - 1]
           r == RealizedAfter(l)[n - 1]
           q == PositionsAfter(l)[n]
           s == RealizedAfter(l)[n]
           t == l[n]
           was == InvestedUpTo(l, n - 1)
           now == InvestedUpTo(l, n)
           back == SumOver(Back(l), was)
           more == IF Invests(t) THEN back ++ (Zero -- PaidFor(t)) ELSE back
<1>1. t \in Priced /\ Len(l) \in Nat /\ n \in Nat /\ Fits(p, t)
  BY DEF Derived
<1>2. q = ApplyTrade(p, t) /\ s = NextGains(r, p, t)
  BY <1>1, PositionsFold, GainsFold
<1>3. /\ PositionIs(p) /\ GainsAre(r) /\ Linked(p, r, back)
      /\ p.base.known /\ r.gain.known => \A m \in was : l[m].fx # None
  BY DEF MoneyAt
<1>. HIDE DEF p, r, q, s
<1>4. /\ GainsAre(s)
      /\ q.base.known /\ s.gain.known =>
            p.base.known /\ r.gain.known /\ (Invests(t) => t.fx # None)
      /\ Linked(q, s, more)
  <2>. HIDE DEF t, back
  <2>. QED  BY <1>1, <1>2, <1>3, MoneyStep
<1>5. PositionIs(q)
  BY <1>1, <1>2, <1>3, PositionAmounts
<1>6. now = IF Invests(t) THEN was \cup {n} ELSE was
  BY <1>1 DEF InvestedUpTo
<1>7. n \notin was /\ was \subseteq 1..Len(l)
  BY <1>1 DEF InvestedUpTo
<1>8. ASSUME q.base.known, s.gain.known
      PROVE  /\ \A m \in now : l[m].fx # None
             /\ SumOver(Back(l), now) = more
  <2>1. \A m \in now : l[m].fx # None
    BY <1>3, <1>4, <1>6, <1>8
  <2>2. now \subseteq 1..Len(l) /\ IsFiniteSet(now)
    <3>1. now \subseteq 1..Len(l) /\ 1..n \subseteq 1..Len(l) /\ now \subseteq 1..n
      BY <1>1, <1>6, <1>7 DEF InvestedUpTo
    <3>2. IsFiniteSet(1..n)
      BY <1>1, FS_Interval
    <3>. QED  BY <3>1, <3>2, FS_Subset
  <2>3. Amounts(Back(l), now)
    <3>. SUFFICES ASSUME NEW m \in now  PROVE Back(l)[m] \in Exact
      BY <2>2 DEF Amounts
    <3>1. l[m] \in Priced /\ l[m].fx # None /\ m \in 1..Len(l)
      BY <2>1, <2>2
    <3>2. PaidFor(l[m]) \in Exact
      BY <3>1, TradeAmounts
    <3>3. Zero -- PaidFor(l[m]) \in Exact
      BY <3>2, ZeroLaws
    <3>. QED  BY <3>1, <3>3 DEF Back
  <2>4. CASE Invests(t)
    <3>1. SumOver(Back(l), was \cup {n}) = SumOver(Back(l), was) ++ Back(l)[n]
      <4>. HIDE DEF was, now
      <4>. QED  BY <1>6, <1>7, <2>3, <2>4, SumOverAdded
    <3>2. Back(l)[n] = Zero -- PaidFor(t)
      BY DEF Back
    <3>. QED  BY <1>6, <2>1, <2>4, <3>1, <3>2
  <2>5. CASE ~Invests(t)
    BY <1>6, <2>1, <2>5
  <2>. QED  BY <2>4, <2>5
<1>9. Linked(q, s, SumOver(Back(l), now))
  <2>. HIDE DEF now, more
  <2>. QED  BY <1>4, <1>8 DEF Linked
<1>. QED  BY <1>4, <1>5, <1>8, <1>9 DEF MoneyAt, q, s

LEMMA MoneyAlong ==
  ASSUME NEW l \in Seq(Priced), Derived(l)
  PROVE  \A n \in 0..Len(l) : MoneyAt(l, n)
<1>1. PICK k \in Nat : k = Len(l)
  OBVIOUS
<1> DEFINE Bad == {n \in 0..k : ~MoneyAt(l, n)}
<1>2. 0 \notin Bad
  BY MoneyAtFirst
<1>3. ASSUME NEW n \in Bad, n - 1 \notin Bad  PROVE FALSE
  <2>1. n \in 1..Len(l) /\ n - 1 \in 0..k /\ ~MoneyAt(l, n)
    BY <1>1, <1>2
  <2>2. MoneyAt(l, n - 1)
    BY <1>3, <2>1
  <2>. QED  BY <2>1, <2>2, MoneyAtNext
<1>4. Bad \in SUBSET Nat
  OBVIOUS
<1>5. Bad = {}
  <2>. HIDE DEF Bad
  <2>. QED  BY <1>2, <1>3, <1>4, EveryPlace
<1>. QED  BY <1>1, <1>5

-----------------------------------------------------------------------------
(* What is held is worth.                                                      *)

\* A price or a rate that was found is an amount.
Found(row) == row # None => row.close \in Exact

LEMMA HeldValues ==
  ASSUME NEW p, PositionIs(p), NEW home \in BOOLEAN, NEW today, NEW latest, NEW previous,
         NEW latestRate, NEW previousRate, Found(latest), Found(latestRate)
  PROVE  LET v == ValuePosition(p, home, today, latest, previous, latestRate, previousRate)
             rate == IF home THEN One ELSE latestRate.close
         IN  /\ v.market.known => /\ latest # None /\ (home \/ latestRate # None)
                                  /\ v.market.value \in Exact
                                  /\ v.market.value = (latest.close ** Amount(p.quantity)) ** rate
             /\ v.gain.known => /\ v.market.known /\ p.base.known
                                /\ v.gain.value = v.market.value ++ (Zero -- Cost(p))
             /\ v.price.known /\ v.fx.known =>
                   /\ v.market.known /\ p.base.known
                   /\ v.price.value \in Exact /\ v.fx.value \in Exact
                   /\ v.price.value ++ v.fx.value = v.market.value ++ (Zero -- Cost(p))
<1> DEFINE price == IF latest = None THEN Unknown({"missing_price"}) ELSE Known(latest)
           fx == FxSnapshot(home, today, latestRate, "missing_fx")
           close == CloseOf(price)
           at == RateOf(fx)
           native == Times(close, Known(Amount(p.quantity)))
           market == Times(native, at)
           cost == BasisPart(p.base, "cost")
           fee == BasisPart(p.base, "fee")
           gain == Less(market, cost)
           effects == Effects(p, native, fx)
           rate == IF home THEN One ELSE latestRate.close
           v == ValuePosition(p, home, today, latest, previous, latestRate, previousRate)
<1>1. v.gain = gain /\ v.market = market /\ v.price = effects.price /\ v.fx = effects.fx
  BY DEF ValuePosition
<1>2. /\ p.native \in Exact /\ p.quantity \in Nat
      /\ p.base.known => Cost(p) \in Exact /\ Fee(p) \in Exact
  BY DEF PositionIs, IsPosition
<1>3. /\ latest # None => close = Known(latest.close) /\ latest.close \in Exact
      /\ latest = None => close = Unknown({"missing_price"})
  BY DEF CloseOf, Known, Unknown, Found
<1>4. /\ home \/ latestRate # None => fx.known /\ at = Known(rate) /\ rate \in Exact
      /\ ~(home \/ latestRate # None) => ~fx.known /\ fx.why = {"missing_fx"} /\ ~at.known
  <2>1. CASE home
    <3>1. fx = Known([date |-> today, rate |-> One])
      BY <2>1 DEF FxSnapshot
    <3>2. One \in Exact
      BY WholeIsExact DEF One
    <3>. HIDE DEF fx
    <3>. QED  BY <2>1, <3>1, <3>2 DEF RateOf, Known
  <2>2. CASE ~home /\ latestRate # None
    <3>1. fx = Known([date |-> latestRate.date, rate |-> latestRate.close])
      BY <2>2 DEF FxSnapshot
    <3>. HIDE DEF fx
    <3>. QED  BY <2>2, <3>1 DEF RateOf, Known, Found
  <2>3. CASE ~home /\ latestRate = None
    <3>1. fx = Unknown({"missing_fx"})
      BY <2>3 DEF FxSnapshot
    <3>. HIDE DEF fx
    <3>. QED  BY <2>3, <3>1 DEF RateOf, Unknown
  <2>. QED  BY <2>1, <2>2, <2>3
<1>5. /\ p.base.known => cost = Known(Cost(p)) /\ fee = Known(Fee(p))
      /\ ~p.base.known => cost = Unknown({"base_cost_basis_unavailable"})
  BY DEF BasisPart, Cost, Fee
<1>6. Amount(p.quantity) \in Exact
  BY <1>2, WholeIsExact
<1>7. Known(Amount(p.quantity)).known /\ Known(Amount(p.quantity)).value = Amount(p.quantity)
      /\ Known(Amount(p.quantity)).why = {}
  BY DEF Known
<1> DEFINE shares == Known(Amount(p.quantity))
<1>. HIDE DEF price, fx, close, at, cost, fee, rate, v, shares
<1>8. /\ latest # None => native = Known(latest.close ** Amount(p.quantity))
      /\ latest = None => ~native.known /\ native.why # {}
  <2>1. native = IF close.known /\ shares.known THEN Known(close.value ** shares.value)
                 ELSE Unknown(close.why \cup shares.why)
    BY DEF Times, shares
  <2>2. shares.known /\ shares.value = Amount(p.quantity)
    BY <1>7 DEF shares
  <2>3. latest # None => close.known /\ close.value = latest.close
    BY <1>3 DEF Known
  <2>4. latest = None => ~close.known /\ "missing_price" \in close.why
    BY <1>3 DEF Unknown
  <2>. HIDE DEF native
  <2>5. latest = None => native = Unknown(close.why \cup shares.why)
    BY <2>1, <2>4
  <2>. QED  BY <2>1, <2>2, <2>3, <2>4, <2>5 DEF Unknown
<1>. HIDE DEF native
<1>9. /\ latest # None /\ (home \/ latestRate # None) =>
            market = Known((latest.close ** Amount(p.quantity)) ** rate)
      /\ ~(latest # None /\ (home \/ latestRate # None)) => ~market.known
  <2>1. market = IF native.known /\ at.known THEN Known(native.value ** at.value)
                 ELSE Unknown(native.why \cup at.why)
    BY DEF Times
  <2>2. latest # None => native.known /\ native.value = latest.close ** Amount(p.quantity)
    BY <1>8 DEF Known
  <2>3. home \/ latestRate # None => at.known /\ at.value = rate
    BY <1>4 DEF Known
  <2>. HIDE DEF market
  <2>4. ~(latest # None /\ (home \/ latestRate # None))
          => market = Unknown(native.why \cup at.why)
    BY <1>4, <1>8, <2>1
  <2>. QED  BY <2>1, <2>2, <2>3, <2>4 DEF Unknown
<1>10. market.known => /\ latest # None /\ (home \/ latestRate # None)
                       /\ market.value = (latest.close ** Amount(p.quantity)) ** rate
                       /\ market.value \in Exact
  <2>. SUFFICES ASSUME market.known
                PROVE  /\ latest # None /\ (home \/ latestRate # None)
                       /\ market.value = (latest.close ** Amount(p.quantity)) ** rate
                       /\ market.value \in Exact
    OBVIOUS
  <2>. HIDE DEF market
  <2>1. latest # None /\ (home \/ latestRate # None)
    BY <1>9
  <2>2. market.value = (latest.close ** Amount(p.quantity)) ** rate
    BY <1>9, <2>1 DEF Known
  <2>3. latest.close ** Amount(p.quantity) \in Exact /\ rate \in Exact
    BY <1>3, <1>4, <1>6, <2>1, TimesExact
  <2>. QED  BY <2>1, <2>2, <2>3, TimesExact
<1>. HIDE DEF market
<1>11. cost.known <=> p.base.known
  BY <1>5 DEF Known, Unknown
<1>12. gain.known => /\ market.known /\ p.base.known
                     /\ gain.value = market.value ++ (Zero -- Cost(p))
  <2>1. p.base.known => cost.known /\ cost.value = Cost(p)
    BY <1>5 DEF Known
  <2>2. gain.known <=> market.known /\ cost.known
    BY DEF Less, Both, Known, Unknown
  <2>3. market.known /\ cost.known => gain.value = market.value ++ (Zero -- cost.value)
    BY DEF Less, Both, Known
  <2>. HIDE DEF gain
  <2>. QED  BY <1>11, <2>1, <2>2, <2>3
<1>13. ASSUME effects.price.known
       PROVE  /\ market.known /\ p.base.known
              /\ effects.price.value = ((native.value -- p.native) ** rate) -- Fee(p)
              /\ effects.fx.value = (p.native ** rate) -- (Cost(p) -- Fee(p))
              /\ market.value = native.value ** rate /\ native.value \in Exact /\ rate \in Exact
  <2> DEFINE reasons == native.why \cup cost.why \cup fx.why
                          \cup (IF p.native = Zero THEN {"zero_cost_basis"} ELSE {})
             one == (native.value -- p.native) ** at.value -- fee.value
             two == p.native ** at.value -- (cost.value -- fee.value)
  <2>1. effects = IF reasons # {} THEN [price |-> Unknown(reasons), fx |-> Unknown(reasons)]
                  ELSE [price |-> Known(one), fx |-> Known(two)]
    BY DEF Effects, at, cost, fee
  <2>. HIDE DEF one, two
  <2>2. reasons = {}
    <3>. HIDE DEF reasons, effects
    <3>. QED  BY <1>13, <2>1 DEF Unknown
  <2>3. native.why = {} /\ cost.why = {} /\ fx.why = {}
    BY <2>2
  <2>4. latest # None
    BY <1>8, <2>3
  <2>5. home \/ latestRate # None
    BY <1>4, <2>3
  <2>6. p.base.known
    BY <1>5, <2>3 DEF Unknown
  <2>7. effects.price = Known(one) /\ effects.fx = Known(two)
    <3>. HIDE DEF reasons, effects
    <3>. QED  BY <2>1, <2>2
  <2>. HIDE DEF effects, reasons
  <2>8. effects.price.value = one /\ effects.fx.value = two
    BY <2>7 DEF Known
  <2>9. at.value = rate /\ cost.value = Cost(p) /\ fee.value = Fee(p) /\ rate \in Exact
    BY <1>4, <1>5, <2>5, <2>6 DEF Known
  <2>10. native.value = latest.close ** Amount(p.quantity) /\ native.value \in Exact
    BY <1>3, <1>6, <1>8, <2>4, TimesExact DEF Known
  <2>11. market = Known((latest.close ** Amount(p.quantity)) ** rate)
    BY <1>9, <2>4, <2>5
  <2>12. market.known /\ market.value = native.value ** rate
    BY <2>10, <2>11 DEF Known
  <2>. QED  BY <2>6, <2>8, <2>9, <2>10, <2>12 DEF one, two
<1>14. ASSUME effects.price.known
       PROVE  /\ market.known /\ p.base.known
              /\ effects.price.value \in Exact /\ effects.fx.value \in Exact
              /\ effects.price.value ++ effects.fx.value = market.value ++ (Zero -- Cost(p))
  <2>. HIDE DEF effects
  <2>1. Cost(p) \in Exact /\ Fee(p) \in Exact
    BY <1>2, <1>13, <1>14
  <2>2. PICK n \in Exact, c \in Exact, cash \in Exact, part \in Exact :
           /\ n = native.value ** rate /\ c = p.native ** rate /\ cash = Cost(p)
           /\ part = Fee(p)
    BY <1>2, <1>13, <1>14, <2>1, TimesExact
  <2>3. (native.value -- p.native) ** rate = n -- c
    BY <1>2, <1>13, <1>14, <2>2, Distributive
  <2>4. effects.price.value = (n -- c) -- part /\ effects.fx.value = c -- (cash -- part)
    BY <1>13, <1>14, <2>2, <2>3
  <2>5. n -- c \in Exact /\ cash -- part \in Exact
    BY <2>2, MinusExact
  <2>6. effects.price.value \in Exact /\ effects.fx.value \in Exact
    BY <2>2, <2>4, <2>5, MinusExact
  <2>7. ((n -- c) -- part) ++ (c -- (cash -- part)) = n -- cash
    BY TwoEffects
  <2>8. n -- cash = n ++ (Zero -- cash)
    BY MinusIsPlus
  <2>9. market.value = n
    BY <1>13, <1>14, <2>2
  <2>. QED  BY <1>13, <1>14, <2>2, <2>4, <2>6, <2>7, <2>8, <2>9
<1>. HIDE DEF gain, effects
<1>. QED  BY <1>1, <1>10, <1>12, <1>14 DEF v, rate

\* Amounts by day, where there are any.
Stored(row) == row \in [Day -> Exact \cup {None}]

LEMMA FoundRow ==
  ASSUME NEW row, Stored(row), NEW d \in Int
  PROVE  LET found == LatestOnOrBefore(row, d) IN
         found # None => found.date \in Day /\ found.close \in Exact
<1> DEFINE days == {e \in StoredDays(row) : e <= d}
           found == LatestOnOrBefore(row, d)
<1>1. days \in SUBSET Day /\ \A e \in days : row[e] \in Exact
  BY DEF Stored, StoredDays
<1>2. CASE days = {}
  BY <1>2 DEF LatestOnOrBefore
<1>3. CASE days # {}
  <2>1. found = [date |-> Latest(days), close |-> row[Latest(days)]]
    BY <1>3 DEF LatestOnOrBefore
  <2>. HIDE DEF days, found
  <2>2. Latest(days) \in days
    BY <1>1, <1>3, LatestIsLast
  <2>3. found.date = Latest(days) /\ found.close = row[Latest(days)]
    BY <2>1
  <2>. QED  BY <1>1, <2>2, <2>3 DEF found
<1>. QED  BY <1>2, <1>3

\* What is picked among candidates is one of them.
LEMMA PickedIsFound ==
  ASSUME NEW c, DOMAIN c \in SUBSET Nat, \A n \in DOMAIN c : c[n] # None => c[n].date \in Day
  PROVE  PickLatest(c) # None => \E n \in DOMAIN c : c[n] # None /\ PickLatest(c) = c[n]
<1> DEFINE found == {n \in DOMAIN c : c[n] # None}
           newest == {n \in found : \A m \in found : c[m].date <= c[n].date}
           dates == {c[n].date : n \in found}
           first == CHOOSE n \in newest : \A m \in newest : n <= m
<1>1. CASE found = {}
  BY <1>1 DEF PickLatest
<1>2. CASE found # {}
  <2>1. dates \in SUBSET Day /\ dates # {}
    BY <1>2
  <2>2. PICK e \in dates : \A f \in dates : f <= e
    <3>. HIDE DEF dates
    <3>1. Latest(dates) \in dates /\ \A f \in dates : f <= Latest(dates)
      BY <2>1, LatestIsLast
    <3>. QED  BY <3>1
  <2>3. PICK n \in found : c[n].date = e
    BY <2>2
  <2>4. \A m \in found : c[m].date \in dates
    OBVIOUS
  <2>5. n \in newest
    BY <2>2, <2>3, <2>4
  <2>6. newest \in SUBSET Nat /\ newest # {}
    BY <2>5
  <2>7. first \in newest
    <3>. HIDE DEF newest
    <3>1. \E k \in newest : \A m \in newest : k <= m
      BY <2>6, SmallestOf
    <3>. QED  BY <3>1
  <2>8. PickLatest(c) = c[first]
    BY <1>2 DEF PickLatest
  <2>9. first \in DOMAIN c /\ c[first] # None
    BY <2>7
  <2>. HIDE DEF first
  <2>. QED  BY <2>8, <2>9
<1>. QED  BY <1>1, <1>2

LEMMA FoundPrices ==
  ASSUME BooksDerive, NEW i \in Instrument, NEW d \in Day
  PROVE  Found(PriceAt(i, d)) /\ Found(RateAt(i, d)) /\ (IsHome(i) => RateAt(i, d) = None)
<1>1. d \in Int
  BY Days
<1>2. \A s \in Source : Stored(RowsOf(i)[s])
  <2>1. CASE IsHome(i)
    <3>1. \A s \in Source : RowsOf(i)[s] = IF s = HomeSource THEN HomeCloses
                                           ELSE [e \in Day |-> None]
      BY <2>1 DEF RowsOf
    <3>2. Stored(HomeCloses) /\ Stored([e \in Day |-> None])
      BY PriceAssumption DEF Stored
    <3>. QED  BY <3>1, <3>2
  <2>2. CASE ~IsHome(i)
    <3>1. RowsOf(i) = rows
      BY <2>2 DEF RowsOf
    <3>2. \A s \in Source : rows[s] \in [Day -> Closes \cup {None}]
      BY DEF BooksDerive
    <3>. QED  BY <3>1, <3>2, PriceAssumption DEF Stored
  <2>. QED  BY <2>1, <2>2
<1>3. Found(RateAt(i, d))
  <2>1. Stored(rates)
    BY PriceAssumption DEF BooksDerive, Stored
  <2>. QED  BY <1>1, <2>1, FoundRow DEF RateAt, Found
<1>4. Found(PriceAt(i, d))
  <2> DEFINE some == EnabledSources(EnabledOf(i))
             row(n) == LatestOnOrBefore(RowsOf(i)[Precedence[n]], d)
             cand(n) == FromSource(row(n), Precedence[n])
             c == [n \in some |-> cand(n)]
  <2>1. some \in SUBSET Nat /\ \A n \in some : Precedence[n] \in Source
    BY PrecedenceAssumption DEF EnabledSources, Source
  <2>2. \A n \in some : row(n) # None => row(n).date \in Day /\ row(n).close \in Exact
    BY <1>1, <1>2, <2>1, FoundRow
  <2>. HIDE DEF row
  <2>3. \A n \in some : cand(n) # None => cand(n).date \in Day /\ cand(n).close \in Exact
    <3>. SUFFICES ASSUME NEW n \in some, cand(n) # None
                  PROVE  cand(n).date \in Day /\ cand(n).close \in Exact
      OBVIOUS
    <3>1. row(n) # None
      BY DEF FromSource
    <3>2. cand(n) = [date |-> row(n).date, close |-> row(n).close, source |-> Precedence[n]]
      BY <3>1 DEF FromSource
    <3>. HIDE DEF cand
    <3>3. cand(n).date = row(n).date /\ cand(n).close = row(n).close
      BY <3>2
    <3>. QED  BY <2>2, <3>1, <3>3
  <2>. HIDE DEF cand
  <2>4. DOMAIN c = some /\ \A n \in some : c[n] = cand(n)
    OBVIOUS
  <2>5. PriceAt(i, d) = PickLatest(c)
    BY DEF PriceAt, EffectiveLatest, row, cand
  <2>. HIDE DEF c, some
  <2>6. PickLatest(c) # None => \E n \in DOMAIN c : c[n] # None /\ PickLatest(c) = c[n]
    BY <2>1, <2>3, <2>4, PickedIsFound
  <2>. QED  BY <2>3, <2>4, <2>5, <2>6 DEF Found
<1>. QED  BY <1>3, <1>4 DEF RateAt

-----------------------------------------------------------------------------
(* What the rows and the waterfall show of a line.                             *)

\* The facts that HeldValues states of what is held.
HeldAre(v, p) ==
    /\ v.market.known => v.market.value \in Exact
    /\ v.gain.known => /\ v.market.known /\ p.base.known
                       /\ v.gain.value = v.market.value ++ (Zero -- Cost(p))
    /\ v.price.known /\ v.fx.known =>
          /\ v.market.known /\ p.base.known
          /\ v.price.value \in Exact /\ v.fx.value \in Exact
          /\ v.price.value ++ v.fx.value = v.market.value ++ (Zero -- Cost(p))

\* A line of the report, and the money that came back on it.
LineIs(l, back) ==
    LET p == l.done.position
        r == l.done.realized
    IN  /\ PositionIs(p) /\ GainsAre(r) /\ Linked(p, r, back) /\ HeldAre(l.held, p)
        /\ l.open <=> p.quantity > 0

Worth(l) == IF l.open THEN l.held.market.value ELSE Zero

LEMMA BothIs ==
  ASSUME NEW f, NEW g, NEW h, h = Both(f, g), h.known
  PROVE  f.known /\ g.known /\ h.value = f.value ++ g.value
BY DEF Both, Known, Unknown

LEMMA ShownIs ==
  ASSUME NEW f
  PROVE  Shown(f).known => f.known /\ Shown(f) = f
BY DEF Shown, Unknown

\* Gains held and realized are what is held is worth and what came back.
LEMMA GainIsMoney ==
  ASSUME NEW l, NEW back, LineIs(l, back), l.done.realized.gain.known,
         l.open => l.held.gain.known
  PROVE  (IF l.open THEN l.held.gain.value ELSE Zero) ++ l.done.realized.gain.value
            = Worth(l) ++ back
<1> DEFINE p == l.done.position
           r == l.done.realized
<1>1. /\ PositionIs(p) /\ GainsAre(r) /\ Linked(p, r, back) /\ HeldAre(l.held, p)
      /\ l.open <=> p.quantity > 0
  BY DEF LineIs
<1>. HIDE DEF p
<1>2. CASE l.open
  <2>1. /\ l.held.market.known /\ p.base.known /\ l.held.market.value \in Exact
        /\ l.held.gain.value = l.held.market.value ++ (Zero -- Cost(p))
    BY <1>1, <1>2 DEF HeldAre
  <2>2. back \in Exact /\ r.gain.value = back ++ Cost(p) /\ Cost(p) \in Exact
    BY <1>1, <2>1 DEF Linked, PositionIs
  <2>3. l.held.market.value -- Cost(p) = l.held.market.value ++ (Zero -- Cost(p))
    BY <2>1, <2>2, MinusIsPlus
  <2>4. (l.held.market.value -- Cost(p)) ++ (back ++ Cost(p)) = l.held.market.value ++ back
    BY <2>1, <2>2, MovedOver
  <2>. QED  BY <1>2, <2>1, <2>2, <2>3, <2>4 DEF Worth
<1>3. CASE ~l.open
  <2>1. p.quantity = 0 /\ p.base.known /\ Cost(p) = Zero
    BY <1>1, <1>3 DEF PositionIs, IsPosition
  <2>2. back \in Exact /\ r.gain.value = back ++ Zero
    BY <1>1, <2>1 DEF Linked
  <2>. QED  BY <1>3, <2>2, ZeroLaws DEF Worth
<1>. QED  BY <1>2, <1>3

LEMMA RowShowsMoney ==
  ASSUME NEW l, NEW back, LineIs(l, back)
  PROVE  LET row == GainRow(l)
         IN  /\ row.total.known /\ l.income.known =>
                   row.total.value = (Worth(l) ++ back) ++ l.income.value
             /\ row.price.known /\ row.fx.known =>
                   row.price.value ++ row.fx.value = Worth(l) ++ back
<1> DEFINE p == l.done.position
           r == l.done.realized
           row == GainRow(l)
           gain == Shown(r.gain)
           price == Shown(r.price)
           fx == Shown(r.fx)
<1>1. /\ PositionIs(p) /\ GainsAre(r) /\ Linked(p, r, back) /\ HeldAre(l.held, p)
      /\ l.open <=> p.quantity > 0
  BY DEF LineIs
<1>2. PICK known \in BOOLEAN : CostsKnown(r, known)
  BY <1>1 DEF GainsAre
<1>3. r.gain.known <=> r.price.known
  BY <1>2 DEF CostsKnown
<1>4. CASE l.open
  <2>1. /\ row.total = Both(Both(l.held.gain, gain), l.income)
        /\ row.price = Both(l.held.price, price) /\ row.fx = Both(l.held.fx, fx)
    BY <1>4 DEF GainRow, OpenGainRow
  <2>. HIDE DEF row, gain, price, fx
  <2>2. ASSUME row.total.known
        PROVE  row.total.value = (Worth(l) ++ back) ++ l.income.value
    <3>1. PICK both : both = Both(l.held.gain, gain)
      OBVIOUS
    <3>2. both.known /\ row.total.value = both.value ++ l.income.value
      BY <2>1, <2>2, <3>1, BothIs
    <3>3. l.held.gain.known /\ gain.known /\ both.value = l.held.gain.value ++ gain.value
      BY <3>1, <3>2, BothIs
    <3>4. r.gain.known /\ gain = r.gain
      BY <3>3, ShownIs DEF gain
    <3>5. l.held.gain.value ++ r.gain.value = Worth(l) ++ back
      BY <1>4, <3>3, <3>4, GainIsMoney
    <3>. QED  BY <3>2, <3>3, <3>4, <3>5
  <2>3. ASSUME row.price.known, row.fx.known
        PROVE  row.price.value ++ row.fx.value = Worth(l) ++ back
    <3>1. /\ l.held.price.known /\ price.known /\ row.price.value = l.held.price.value ++ price.value
          /\ l.held.fx.known /\ fx.known /\ row.fx.value = l.held.fx.value ++ fx.value
      BY <2>1, <2>3, BothIs
    <3>2. r.price.known /\ price = r.price /\ r.fx.known /\ fx = r.fx
      BY <3>1, ShownIs DEF price, fx
    <3>3. /\ l.held.market.known /\ p.base.known /\ l.held.market.value \in Exact
          /\ l.held.price.value \in Exact /\ l.held.fx.value \in Exact
          /\ l.held.price.value ++ l.held.fx.value = l.held.market.value ++ (Zero -- Cost(p))
      BY <1>1, <3>1 DEF HeldAre
    <3>4. /\ r.gain.value = back ++ Cost(p) /\ back \in Exact /\ Cost(p) \in Exact
          /\ r.price.value \in Exact /\ r.fx.value \in Exact
          /\ r.price.value ++ r.fx.value = r.gain.value
      BY <1>1, <1>3, <3>2, <3>3 DEF Linked, GainsAre, PositionIs
    <3>5. (l.held.price.value ++ r.price.value) ++ (l.held.fx.value ++ r.fx.value)
            = (l.held.price.value ++ l.held.fx.value) ++ (r.price.value ++ r.fx.value)
      BY <3>3, <3>4, Regrouped
    <3>6. l.held.market.value -- Cost(p) = l.held.market.value ++ (Zero -- Cost(p))
      BY <3>3, <3>4, MinusIsPlus
    <3>7. (l.held.market.value -- Cost(p)) ++ (back ++ Cost(p)) = l.held.market.value ++ back
      BY <3>3, <3>4, MovedOver
    <3>. QED  BY <1>4, <3>1, <3>2, <3>3, <3>4, <3>5, <3>6, <3>7 DEF Worth
  <2>. QED  BY <2>2, <2>3 DEF row
<1>5. CASE ~l.open
  <2>1. /\ row.total = (IF gain.known /\ l.income.known THEN Both(gain, l.income) ELSE gain)
        /\ row.price = price /\ row.fx = fx
    BY <1>5 DEF GainRow, ClosedGainRow
  <2>2. p.quantity = 0 /\ p.base.known /\ Cost(p) = Zero
    BY <1>1, <1>5 DEF PositionIs, IsPosition
  <2>. HIDE DEF row, gain, price, fx
  <2>3. ASSUME row.total.known, l.income.known
        PROVE  row.total.value = (Worth(l) ++ back) ++ l.income.value
    <3>1. gain.known /\ row.total = Both(gain, l.income)
      BY <2>1, <2>3
    <3>2. row.total.value = gain.value ++ l.income.value
      BY <2>3, <3>1, BothIs
    <3>3. r.gain.known /\ gain = r.gain
      BY <3>1, ShownIs DEF gain
    <3>4. Zero ++ r.gain.value = Worth(l) ++ back
      BY <1>5, <3>3, GainIsMoney
    <3>5. Zero ++ r.gain.value = r.gain.value
      BY <1>1, <3>3, ZeroLaws DEF GainsAre
    <3>. QED  BY <3>2, <3>3, <3>4, <3>5
  <2>4. ASSUME row.price.known, row.fx.known
        PROVE  row.price.value ++ row.fx.value = Worth(l) ++ back
    <3>1. r.price.known /\ price = r.price /\ r.fx.known /\ fx = r.fx
      BY <2>1, <2>4, ShownIs DEF price, fx
    <3>2. r.gain.known /\ r.gain.value \in Exact /\ r.price.value ++ r.fx.value = r.gain.value
      BY <1>1, <1>3, <3>1 DEF GainsAre
    <3>3. Zero ++ r.gain.value = Worth(l) ++ back
      BY <1>5, <3>2, GainIsMoney
    <3>. QED  BY <2>1, <3>1, <3>2, <3>3, ZeroLaws
  <2>. QED  BY <2>3, <2>4 DEF row
<1>. QED  BY <1>4, <1>5

\* The trades of an instrument up to a day, and the money that they brought back.
LEMMA BackIs ==
  ASSUME BooksDerive, NEW i \in Instrument, NEW to \in Day
  PROVE  LET u == Until(i, to)
         IN  /\ u \in Seq(Priced) /\ InOrder(u) /\ Derived(u) /\ Len(u) \in Nat
             /\ MoneyBack(i, to) = SumOver(Back(u), InvestedUpTo(u, Len(u)))
             /\ MoneyAt(u, Len(u))
<1> DEFINE u == Until(i, to)
           k == Len(u)
           places == {n \in DOMAIN u : Invests(u[n])}
           f == [n \in places |-> Zero -- (Gross(u[n]) ** u[n].fx ++ u[n].brokerage)]
<1>1. ledger[i] \in Seq(Priced) /\ InOrder(ledger[i]) /\ Derived(ledger[i]) /\ to \in Int
  BY Days DEF BooksDerive
<1>2. u \in Seq(Priced) /\ InOrder(u) /\ Derived(u)
  BY <1>1, FirstTrades DEF Until
<1>3. MoneyBack(i, to) = SumOver(f, places)
  BY DEF MoneyBack, TotalAt
<1>. HIDE DEF u
<1>4. k \in Nat /\ DOMAIN u = 1..k
  BY <1>2
<1>5. places = InvestedUpTo(u, k)
  BY <1>4 DEF InvestedUpTo
<1>6. IsFiniteSet(places)
  <2>1. IsFiniteSet(1..k) /\ places \subseteq 1..k
    BY <1>4, FS_Interval
  <2>. QED  BY <2>1, FS_Subset
<1>7. \A n \in places : f[n] = Back(u)[n]
  <2>. SUFFICES ASSUME NEW n \in places  PROVE f[n] = Back(u)[n]
    OBVIOUS
  <2>1. n \in 1..k
    BY <1>4
  <2>. QED  BY <2>1 DEF Back, PaidFor
<1>8. SumOver(f, places) = SumOver(Back(u), places)
  <2>. HIDE DEF f, places
  <2>. QED  BY <1>6, <1>7, SameSumOver
<1>9. MoneyAt(u, k)
  <2>1. k \in 0..k
    BY <1>4
  <2>. QED  BY <1>2, <2>1, MoneyAlong
<1>. QED  BY <1>2, <1>3, <1>4, <1>5, <1>8, <1>9 DEF u

LEMMA HeldOfLine ==
  ASSUME BooksDerive, NEW i \in Instrument, NEW to \in Day, NEW p, PositionIs(p)
  PROVE  HeldAre(Valued(i, p, to), p)
<1>1. PICK home \in BOOLEAN : home <=> IsHome(i)
  OBVIOUS
<1>2. PICK price, rate : price = PriceAt(i, to) /\ rate = RateAt(i, to)
  OBVIOUS
<1>3. Found(price) /\ Found(rate)
  BY <1>2, FoundPrices
<1>4. PICK before, rateBefore :
         /\ before = IF price = None THEN None
                     ELSE EffectivePrevious(RowsOf(i), EnabledOf(i), price.date)
         /\ rateBefore = IF rate = None THEN None ELSE PreviousBefore(rates, rate.date)
  OBVIOUS
<1>5. Valued(i, p, to) = ValuePosition(p, home, to, price, before, rate, rateBefore)
  <2>1. home = IsHome(i)
    BY <1>1 DEF IsHome
  <2>. QED  BY <1>2, <1>4, <2>1 DEF Valued
<1>6. HeldAre(ValuePosition(p, home, to, price, before, rate, rateBefore), p)
  BY <1>3, HeldValues DEF HeldAre
<1>. QED  BY <1>5, <1>6

\* A line of the report, part by part.
LEMMA LinesAre ==
  ASSUME BooksDerive, NEW start \in Int, NEW to \in Day, NEW i \in DOMAIN Lines(start, to)
  PROVE  LET l == Lines(start, to)[i]
             done == PositionPerformance(Until(i, to))
             period == ReconstructPeriod(ledger[i], start, to, Beyond)
         IN  /\ i \in Instrument /\ Until(i, to) # <<>>
             /\ l = LineOf(i, done, period, start, to)
             /\ LineIs(l, MoneyBack(i, to))
             /\ l.instrument = i /\ l.exposed = Exposed(period) /\ l.period = period
             /\ l.amounts = PeriodAmounts(i, period, start, to)
             /\ l.flows = PeriodCashFlows(period, IsHome(i))
             /\ l.actual = ActualPeriodCashFlows(period, IsHome(i))
             /\ l.income = IF l.exposed THEN l.amounts.income ELSE Known(Zero)
             /\ l.done = done /\ (l.open <=> done.position.quantity > 0)
             /\ l.held = Valued(i, done.position, to)
<1> DEFINE l == Lines(start, to)[i]
           u == Until(i, to)
           done == PositionPerformance(u)
           period == ReconstructPeriod(ledger[i], start, to, Beyond)
           amounts == PeriodAmounts(i, period, start, to)
           first == [instrument |-> i, done |-> done, period |-> period,
                     exposed |-> Exposed(period), held |-> Valued(i, done.position, to)]
<1>1. i \in Instrument /\ u # <<>> /\ l = LineOf(i, done, period, start, to)
  BY DEF Lines
<1>2. MoneyAt(u, Len(u)) /\ MoneyBack(i, to) = SumOver(Back(u), InvestedUpTo(u, Len(u)))
  BY <1>1, BackIs
<1>3. done.position = PositionsAfter(u)[Len(u)] /\ done.realized = RealizedAfter(u)[Len(u)]
  BY DEF PositionPerformance, PositionOf
<1>4. l = WithAmounts(first, amounts)
  BY <1>1 DEF LineOf
<1>. HIDE DEF l, u, done, period, amounts
<1>5. /\ first.instrument = i /\ first.done = done /\ first.period = period
      /\ first.exposed = Exposed(period) /\ first.held = Valued(i, done.position, to)
  OBVIOUS
<1>. HIDE DEF first
<1>6. /\ l.instrument = i /\ l.exposed = Exposed(period) /\ l.period = period
      /\ l.amounts = amounts /\ l.flows = PeriodCashFlows(period, IsHome(i))
      /\ l.actual = ActualPeriodCashFlows(period, IsHome(i))
      /\ l.income = (IF l.exposed THEN l.amounts.income ELSE Known(Zero))
      /\ l.done = done /\ l.held = Valued(i, done.position, to)
      /\ l.open = (done.position.quantity > 0)
  BY <1>4, <1>5 DEF WithAmounts
<1>7. LineIs(l, MoneyBack(i, to))
  <2>1. /\ PositionIs(done.position) /\ GainsAre(done.realized)
        /\ Linked(done.position, done.realized, MoneyBack(i, to))
    BY <1>2, <1>3 DEF MoneyAt
  <2>2. HeldAre(l.held, done.position)
    BY <1>1, <1>6, <2>1, HeldOfLine
  <2>. QED  BY <1>6, <2>1, <2>2 DEF LineIs
<1>. QED  BY <1>1, <1>6, <1>7 DEF l, u, done, period, amounts

\* The first two parts of ReturnsAreMoney, of the lines of a report.
LEMMA RowsAreMoney ==
  ASSUME BooksDerive, NEW start \in Int, NEW to \in Day
  PROVE  LET lines == Lines(start, to)
         IN  /\ \A i \in DOMAIN lines : HasRow(lines[i]) => RowIsMoney(lines[i], GainRow(lines[i]), to)
             /\ WaterfallTotal(lines)
                   = TotalAt(LAMBDA l : Money(l, to) ++ l.income.value,
                             lines, {i \in DOMAIN lines : HasWaterfall(lines[i])})
<1> DEFINE lines == Lines(start, to)
           places == {i \in DOMAIN lines : HasWaterfall(lines[i])}
           f == [i \in places |-> (IF lines[i].open THEN lines[i].held.gain.value ELSE Zero)
                                    ++ lines[i].done.realized.gain.value
                                    ++ lines[i].income.value]
           g == [i \in places |-> Money(lines[i], to) ++ lines[i].income.value]
<1>1. \A i \in DOMAIN lines : Money(lines[i], to) = Worth(lines[i]) ++ MoneyBack(i, to)
  BY LinesAre DEF Money, Worth
<1>2. \A i \in DOMAIN lines : LineIs(lines[i], MoneyBack(i, to))
  BY LinesAre
<1>3. DOMAIN lines \subseteq Instrument
  BY DEF Lines
<1>4. WaterfallTotal(lines) = SumOver(f, places)
  BY DEF WaterfallTotal, TotalAt
<1>5. SumOver(g, places)
        = TotalAt(LAMBDA l : Money(l, to) ++ l.income.value,
                  lines, {i \in DOMAIN lines : HasWaterfall(lines[i])})
  BY DEF TotalAt
<1>. HIDE DEF lines
<1>6. \A i \in DOMAIN lines : RowIsMoney(lines[i], GainRow(lines[i]), to)
  BY <1>1, <1>2, RowShowsMoney DEF RowIsMoney
<1>7. \A i \in places : f[i] = g[i]
  <2>. SUFFICES ASSUME NEW i \in DOMAIN lines, HasWaterfall(lines[i])
                PROVE  (IF lines[i].open THEN lines[i].held.gain.value ELSE Zero)
                          ++ lines[i].done.realized.gain.value
                          = Money(lines[i], to)
    OBVIOUS
  <2>1. lines[i].done.realized.gain.known /\ (lines[i].open => lines[i].held.gain.known)
    BY DEF HasWaterfall
  <2>. QED  BY <1>1, <1>2, <2>1, GainIsMoney
<1>8. f = g
  BY <1>7
<1>. QED  BY <1>4, <1>5, <1>6, <1>8 DEF lines

-----------------------------------------------------------------------------
(* A report from the first trade on.                                           *)

\* A report starts on a day; without a first day, no trade is before it.
LEMMA StartIs ==
  ASSUME BooksDerive, NEW from \in Day \cup {None}, NEW to \in Day
  PROVE  /\ ReportStart(from, to) \in Day
         /\ from = None => \A i \in Instrument : CountUntil(ledger[i], ReportStart(from, to) - 1) = 0
<1> DEFINE start == ReportStart(from, to)
           days == UNION {TradeDays(Until(i, to)) : i \in Instrument}
<1>1. CASE from # None
  BY <1>1 DEF ReportStart
<1>2. CASE from = None
  <2>1. \A i \in Instrument : /\ ledger[i] \in Seq(Priced) /\ InOrder(ledger[i]) /\ Derived(ledger[i])
                              /\ Until(i, to) \in Seq(Priced)
    BY BackIs DEF BooksDerive
  <2>2. days \in SUBSET Day
    <3>. SUFFICES ASSUME NEW i \in Instrument, NEW n \in DOMAIN Until(i, to)
                  PROVE  Until(i, to)[n].date \in Day
      BY DEF TradeDays
    <3>1. Until(i, to)[n] \in Priced
      BY <2>1
    <3>. QED  BY <3>1 DEF Priced, Entry
  <2>3. start = IF days = {} THEN to ELSE CHOOSE d \in days : \A e \in days : d <= e
    BY <1>2 DEF ReportStart
  <2>4. start \in Day /\ start <= to /\ \A e \in days : start <= e
    <3>1. CASE days = {}
      BY <2>3, <3>1, Days
    <3>2. CASE days # {}
      <4>1. days \in SUBSET Nat
        BY <2>2, Days
      <4>2. PICK d \in days : \A e \in days : d <= e
        <5>. HIDE DEF days
        <5>. QED  BY <3>2, <4>1, SmallestOf
      <4>3. start \in days /\ \A e \in days : start <= e
        <5>. HIDE DEF days
        <5>. QED  BY <2>3, <3>2, <4>2
      <4>4. \A e \in days : e <= to
        <5>. SUFFICES ASSUME NEW i \in Instrument, NEW n \in DOMAIN Until(i, to)
                      PROVE  Until(i, to)[n].date <= to
          BY DEF TradeDays
        <5>1. to \in Int /\ n \in 1..Len(Until(i, to))
          BY <2>1, Days
        <5>. QED  BY <2>1, <5>1, FirstTrades DEF Until
      <4>. QED  BY <2>2, <4>3, <4>4
    <3>. QED  BY <3>1, <3>2
  <2>5. ASSUME NEW i \in Instrument
        PROVE  CountUntil(ledger[i], start - 1) = 0
    <3> DEFINE l == ledger[i]
    <3>1. start \in Int /\ start - 1 \in Int /\ to \in Int
      BY <2>4, Days
    <3>2. CountUntil(l, start - 1) \in 0..Len(l)
          /\ \A n \in 1..Len(l) : l[n].date <= start - 1 <=> n <= CountUntil(l, start - 1)
      BY <2>1, <3>1, UntilIsFirst
    <3>3. /\ CountUntil(l, to) \in 0..Len(l)
          /\ \A n \in 1..Len(l) : l[n].date <= to <=> n <= CountUntil(l, to)
      BY <2>1, <3>1, UntilIsFirst
    <3>4. Len(Until(i, to)) = CountUntil(l, to) /\ \A n \in 1..Len(Until(i, to)) : Until(i, to)[n] = l[n]
      BY <2>1, <3>1, FirstTrades DEF Until
    <3>5. ASSUME CountUntil(l, start - 1) # 0  PROVE FALSE
      <4>1. 1 \in 1..Len(l) /\ l[1].date <= start - 1
        BY <3>2, <3>5
      <4>2. l[1].date \in Nat
        <5>1. l[1] \in Priced
          BY <2>1, <4>1
        <5>. QED  BY <5>1, Days DEF Priced, Entry
      <4>3. l[1].date <= to
        BY <2>4, <3>1, <4>1, <4>2
      <4>4. 1 \in 1..Len(Until(i, to)) /\ Until(i, to)[1] = l[1]
        BY <3>3, <3>4, <4>1, <4>3
      <4>5. l[1].date \in days
        <5>1. 1 \in DOMAIN Until(i, to)
          BY <2>1, <4>4
        <5>. QED  BY <4>4, <5>1 DEF TradeDays
      <4>6. start <= l[1].date
        BY <2>4, <4>5
      <4>. HIDE DEF start, days, l
      <4>. QED  BY <3>1, <4>1, <4>2, <4>6
    <3>. QED  BY <3>5
  <2>. HIDE DEF start
  <2>. QED  BY <2>4, <2>5 DEF start
<1>. QED  BY <1>1, <1>2

\* The period of such a report is the whole ledger up to its end.
LEMMA WholePeriod ==
  ASSUME BooksDerive, NEW i \in Instrument, NEW to \in Day, NEW start \in Int,
         CountUntil(ledger[i], start - 1) = 0, NoLaterSplit(i, to)
  PROVE  LET period == ReconstructPeriod(ledger[i], start, to, Beyond)
         IN  /\ period.opening.quantity = 0 /\ period.trades = Until(i, to)
             /\ period.closing = PositionOf(Until(i, to))
             /\ period.within \in Exact /\ period.later = One
<1> DEFINE l == ledger[i]
           u == Until(i, to)
           before == Dated(l, 0, start - 1)
           after == Dated(l, to + 1, Beyond)
           period == ReconstructPeriod(l, start, to, Beyond)
<1>1. /\ l \in Seq(Priced) /\ InOrder(l) /\ Derived(l) /\ to \in Int /\ start - 1 \in Int
      /\ Beyond \in Int
  BY Days DEF BooksDerive, Beyond
<1>2. Len(before) = 0
  BY <1>1, FirstTrades
<1>3. u \in Seq(Priced) /\ Dated(l, start, to) = u /\ Dated(l, 0, to) = u
  BY <1>1, FirstTrades DEF Until
<1>4. PositionOf(before) = EmptyPosition /\ EmptyPosition.quantity = 0
  BY <1>2, PositionsFold DEF PositionOf, EmptyPosition
<1>5. after \in Seq(Priced) /\ \A n \in 1..Len(after) : after[n].kind # "Split"
  <2>1. PICK k, m : k = CountUntil(l, to) /\ m = CountUntil(l, Beyond)
    OBVIOUS
  <2>2. /\ k \in 0..Len(l) /\ m \in 0..Len(l)
        /\ \A n \in 1..Len(l) : l[n].date <= to <=> n <= k
    BY <1>1, <2>1, UntilIsFirst
  <2>3. (to + 1) - 1 = to
    BY <1>1
  <2>4. after = SubSeq(l, k + 1, m)
    BY <2>1, <2>3 DEF Dated
  <2>5. after \in Seq(Priced) /\ \A n \in 1..Len(after) : k + n \in 1..Len(l) /\ after[n] = l[k + n]
    <3>. HIDE DEF l, after
    <3>. QED  BY <1>1, <2>2, <2>4
  <2>. HIDE DEF after
  <2>6. ASSUME NEW n \in 1..Len(after)  PROVE after[n].kind # "Split"
    <3>1. Len(l) \in Nat /\ DOMAIN l = 1..Len(l)
      BY <1>1
    <3>2. Len(after) \in Nat
      BY <2>5
    <3>3. k + n \in DOMAIN l /\ ~(k + n <= k)
      BY <2>2, <2>5, <3>1, <3>2
    <3>4. ~(l[k + n].date <= to)
      BY <2>2, <3>1, <3>3
    <3>. QED  BY <2>5, <3>3, <3>4 DEF NoLaterSplit
  <2>. QED  BY <2>5, <2>6
<1>6. SplitFactor(u, 0) \in Exact
  <2>1. PICK opening \in Int : opening = 0
    OBVIOUS
  <2>2. PICK plain \in BOOLEAN : ~plain
    OBVIOUS
  <2>3. SplitFactor(u, opening) \in Exact
    BY <1>3, <2>2, SplitFactorIs
  <2>. QED  BY <2>1, <2>3
<1>7. PositionOf(u).quantity \in Int
  <2>1. MoneyAt(u, Len(u))
    BY BackIs
  <2>. QED  BY <2>1 DEF MoneyAt, PositionIs, IsPosition, PositionOf
<1>8. SplitFactor(after, PositionOf(u).quantity) = One
  <2>1. PICK closing \in Int, plain \in BOOLEAN : closing = PositionOf(u).quantity /\ plain
    BY <1>7
  <2>2. SplitFactor(after, closing) = One
    <3>. HIDE DEF after
    <3>. QED  BY <1>5, <2>1, SplitFactorIs
  <2>. QED  BY <2>1, <2>2
<1>9. period = [opening |-> PositionOf(before), trades |-> u, closing |-> PositionOf(u),
                within |-> SplitFactor(u, PositionOf(before).quantity),
                later |-> SplitFactor(after, PositionOf(u).quantity)]
  BY <1>3 DEF ReconstructPeriod
<1>. HIDE DEF before, after, period, u
<1>. QED  BY <1>4, <1>6, <1>8, <1>9 DEF period, u

\* What a trade moves, at its own rate.
LEMMA TradeFlow ==
  ASSUME NEW t \in Priced, NEW home \in BOOLEAN, t.kind # "Split" => Rate(t, home) # None,
         Invests(t) => t.fx # None, home /\ Invests(t) => t.fx = One,
         t.kind = "Sell" => ~IsPositive(PaidFor(t))
  PROVE  LET f == Flow(t, Rate(t, home), One)
         IN  /\ f \in Exact
             /\ Invests(t) => f = PaidFor(t) /\ PaidFor(t) \in Exact
             /\ t.kind = "Split" => f = Zero
             /\ IsPositive(f) <=> t.kind = "Buy"
<1> DEFINE f == Flow(t, Rate(t, home), One)
           rate == Rate(t, home)
<1>1. /\ t.kind \in Kinds /\ t.quantity \in Int /\ t.price \in Exact /\ t.brokerage \in Exact
      /\ ~IsBelow(t.brokerage, Zero) /\ Gross(t) \in Exact
      /\ t.kind # "Split" => IsPositive(t.price)
      /\ t.fx # None => t.fx \in Exact /\ IsPositive(t.fx)
      /\ t.kind \in {"Buy", "Dividend"} => t.quantity > 0
  <2>1. Gross(t) \in Exact
    BY TradeAmounts
  <2>. QED  BY <2>1 DEF Priced, Entry
<1>2. Zero \in Exact /\ One \in Exact /\ ~IsPositive(Zero) /\ IsPositive(One)
  <2>1. Zero \in Exact /\ One \in Exact
    BY WholeIsExact DEF Zero, One
  <2>2. IsBelow(Zero, One) /\ ~IsBelow(Zero, Zero)
    BY DEF IsBelow, Zero, One, Amount
  <2>. QED  BY <2>1, <2>2 DEF IsPositive
<1>3. t.quantity > 0 /\ t.kind # "Split" => IsPositive(Gross(t))
  <2>. SUFFICES ASSUME t.quantity > 0, t.kind # "Split"  PROVE IsPositive(Gross(t))
    OBVIOUS
  <2>1. PICK q \in Int : q = t.quantity
    BY <1>1
  <2>2. Amount(q) \in Exact /\ IsBelow(Zero, Amount(q))
    <3>1. Amount(q) \in Exact
      BY WholeIsExact
    <3>2. IsBelow(Zero, Amount(q))
      BY <2>1 DEF IsBelow, Zero, Amount
    <3>. QED  BY <3>1, <3>2
  <2>3. IsBelow(Zero, t.price ** Amount(q))
    BY <1>1, <2>2, ProductPositive DEF IsPositive
  <2>. QED  BY <2>1, <2>3 DEF Gross, IsPositive
<1>4. CASE Invests(t)
  <2>1. t.kind \in {"Buy", "Sell"} /\ t.fx \in Exact /\ IsPositive(t.fx) /\ rate = t.fx
    BY <1>1, <1>4 DEF Invests, Rate
  <2>2. f = Gross(t) ** One ** rate ++ t.brokerage
    BY <2>1 DEF Flow
  <2>3. f = PaidFor(t)
    BY <1>1, <2>1, <2>2, ZeroLaws DEF PaidFor
  <2>4. Gross(t) ** t.fx \in Exact /\ PaidFor(t) \in Exact
    BY <1>1, <2>1, TimesExact, PlusExact DEF PaidFor
  <2>5. ASSUME t.kind = "Buy"  PROVE IsPositive(PaidFor(t))
    <3>1. IsPositive(Gross(t))
      BY <1>1, <1>3, <2>5
    <3>2. IsBelow(Zero, Gross(t) ** t.fx)
      BY <1>1, <2>1, <3>1, ProductPositive DEF IsPositive
    <3>3. IsBelow(Zero, (Gross(t) ** t.fx) ++ t.brokerage)
      BY <1>1, <2>4, <3>2, SumPositive
    <3>. QED  BY <3>3 DEF PaidFor, IsPositive
  <2>. HIDE DEF f, rate
  <2>. QED  BY <1>4, <2>1, <2>3, <2>4, <2>5 DEF f, rate
<1>5. CASE t.kind = "Split"
  <2>1. f = Zero /\ ~Invests(t)
    BY <1>5 DEF Flow, Invests
  <2>. HIDE DEF f, rate
  <2>. QED  BY <1>2, <1>5, <2>1 DEF f, rate
<1>6. CASE t.kind = "Dividend"
  <2>1. f = Zero -- (Gross(t) ** rate) /\ ~Invests(t)
    BY <1>6 DEF Flow, Invests
  <2>2. rate \in Exact /\ IsPositive(rate)
    BY <1>1, <1>2, <1>6 DEF Rate
  <2>. HIDE DEF f, rate
  <2>3. Gross(t) ** rate \in Exact /\ IsBelow(Zero, Gross(t) ** rate)
    BY <1>1, <1>3, <1>6, <2>2, TimesExact, ProductPositive DEF IsPositive
  <2>4. f \in Exact /\ ~IsPositive(f)
    BY <1>2, <2>1, <2>3, MinusExact, SumPositive DEF IsPositive
  <2>. QED  BY <1>6, <2>1, <2>4 DEF f, rate
<1>. QED  BY <1>1, <1>4, <1>5, <1>6 DEF Invests, Kinds

\* Trades that are rated, and whose krona rates and sales are as Ordinary says.
RatedTrades(u, home) ==
    \A n \in 1..Len(u) :
        /\ u[n].kind # "Split" => Rate(u[n], home) # None
        /\ Invests(u[n]) => u[n].fx # None
        /\ home /\ Invests(u[n]) => u[n].fx = One
        /\ u[n].kind = "Sell" => ~IsPositive(PaidFor(u[n]))

FlowsAt(u, home) == [n \in 1..Len(u) |-> Flow(u[n], Rate(u[n], home), One)]
Divided(u) == {n \in 1..Len(u) : u[n].kind = "Dividend"}
Bought(u) == {n \in 1..Len(u) : u[n].kind = "Buy"}

\* All flows are the money put in, less what came back, less the income.
LEMMA FlowsAreMoney ==
  ASSUME NEW u \in Seq(Priced), NEW home \in BOOLEAN, RatedTrades(u, home)
  PROVE  LET flows == FlowsAt(u, home)
             back == SumOver(Back(u), InvestedUpTo(u, Len(u)))
             income == SumOver([n \in Divided(u) |-> Zero -- flows[n]], Divided(u))
         IN  /\ back \in Exact /\ income \in Exact
             /\ \A end \in Exact :
                   (end -- Zero) -- SumOver(flows, 1..Len(u)) = (end ++ back) ++ income
<1> DEFINE flows == FlowsAt(u, home)
           all == 1..Len(u)
           invested == InvestedUpTo(u, Len(u))
           other == all \ invested
           divided == Divided(u)
           gains == [n \in divided |-> Zero -- flows[n]]
<1>1. Len(u) \in Nat /\ IsFiniteSet(all)
  BY FS_Interval
<1>2. \A n \in all : /\ flows[n] \in Exact
                     /\ Invests(u[n]) => flows[n] = PaidFor(u[n])
                     /\ u[n].kind = "Split" => flows[n] = Zero
  <2>. SUFFICES ASSUME NEW n \in all
                PROVE  /\ flows[n] \in Exact
                       /\ Invests(u[n]) => flows[n] = PaidFor(u[n])
                       /\ u[n].kind = "Split" => flows[n] = Zero
    OBVIOUS
  <2>1. u[n] \in Priced
    BY <1>1
  <2>2. PICK t \in Priced : t = u[n]
    BY <2>1
  <2>3. /\ t.kind # "Split" => Rate(t, home) # None
        /\ Invests(t) => t.fx # None
        /\ home /\ Invests(t) => t.fx = One
        /\ t.kind = "Sell" => ~IsPositive(PaidFor(t))
    BY <2>2 DEF RatedTrades
  <2>4. LET f == Flow(t, Rate(t, home), One)
        IN  /\ f \in Exact /\ (Invests(t) => f = PaidFor(t)) /\ (t.kind = "Split" => f = Zero)
    BY <2>3, TradeFlow
  <2>5. flows[n] = Flow(t, Rate(t, home), One)
    BY <2>2 DEF FlowsAt
  <2>. QED  BY <2>2, <2>4, <2>5
<1>3. Amounts(flows, all)
  BY <1>1, <1>2 DEF Amounts
<1>4. /\ invested \subseteq all /\ divided \subseteq all /\ divided \cap invested = {}
      /\ \A n \in other \ divided : u[n].kind = "Split"
  <2>1. \A n \in all : u[n].kind \in Kinds
    <3>1. \A n \in all : u[n] \in Priced
      BY <1>1
    <3>. QED  BY <3>1 DEF Priced, Entry
  <2>. QED  BY <1>1, <2>1 DEF InvestedUpTo, Divided, Invests, Kinds
<1>. HIDE DEF flows, all, invested, divided
<1>5. Amounts(flows, invested) /\ Amounts(flows, other) /\ Amounts(flows, divided)
  <2>1. IsFiniteSet(invested) /\ IsFiniteSet(other) /\ IsFiniteSet(divided)
    BY <1>1, <1>4, FS_Subset
  <2>. QED  BY <1>2, <1>4, <2>1 DEF Amounts
<1>6. SumOver(flows, all) = SumOver(flows, invested) ++ SumOver(flows, other)
  <2>1. invested \cup other = all /\ invested \cap other = {}
    BY <1>4
  <2>. HIDE DEF other
  <2>. QED  BY <1>3, <2>1, SumOverBoth
<1>7. SumOver(flows, other) = SumOver(flows, divided)
  <2>1. divided \in SUBSET other /\ \A n \in other \ divided : flows[n] = Zero
    BY <1>2, <1>4
  <2>. HIDE DEF other
  <2>. QED  BY <1>5, <2>1, SumOverWithoutZeros
<1>8. SumOver(Back(u), invested) = Zero -- SumOver(flows, invested)
  <2>1. \A n \in invested : Back(u)[n] = Zero -- flows[n]
    <3>. SUFFICES ASSUME NEW n \in invested  PROVE Back(u)[n] = Zero -- flows[n]
      OBVIOUS
    <3>1. n \in all /\ Invests(u[n])
      BY <1>4 DEF invested, InvestedUpTo
    <3>2. Back(u)[n] = Zero -- PaidFor(u[n])
      BY <3>1 DEF Back, all
    <3>. QED  BY <1>2, <3>1, <3>2
  <2>. QED  BY <1>5, <2>1, SumOverNegated
<1>9. SumOver(gains, divided) = Zero -- SumOver(flows, divided)
  <2>1. \A n \in divided : gains[n] = Zero -- flows[n]
    OBVIOUS
  <2>. HIDE DEF gains
  <2>. QED  BY <1>5, <2>1, SumOverNegated
<1>10. PICK in \in Exact, out \in Exact : in = SumOver(flows, invested) /\ out = SumOver(flows, divided)
  BY <1>5, SumOverExact
<1>11. Zero -- in \in Exact /\ Zero -- out \in Exact
  BY ZeroLaws
<1>12. ASSUME NEW end \in Exact
       PROVE  (end -- Zero) -- (in ++ out) = (end ++ (Zero -- in)) ++ (Zero -- out)
  BY LessFlows
<1>. HIDE DEF gains, other
<1>13. /\ SumOver(Back(u), invested) \in Exact /\ SumOver(gains, divided) \in Exact
       /\ \A end \in Exact :
             (end -- Zero) -- SumOver(flows, all)
                = (end ++ SumOver(Back(u), invested)) ++ SumOver(gains, divided)
  BY <1>6, <1>7, <1>8, <1>9, <1>10, <1>11, <1>12
<1>. QED  BY <1>13 DEF flows, all, invested, divided, gains

\* What flows in is what the purchases cost.
LEMMA InflowsArePaidIn ==
  ASSUME NEW u \in Seq(Priced), NEW home \in BOOLEAN, RatedTrades(u, home),
         NEW actual, DOMAIN actual = 1..Len(u),
         \A n \in 1..Len(u) : actual[n].amount = FlowsAt(u, home)[n]
  PROVE  LET paid == [n \in Bought(u) |-> PaidFor(u[n])]
         IN  /\ Total(Inflow, actual) = SumOver(paid, Bought(u))
             /\ SumOver(paid, Bought(u)) \in Exact
<1> DEFINE flows == FlowsAt(u, home)
           all == 1..Len(u)
           bought == Bought(u)
           paid == [n \in bought |-> PaidFor(u[n])]
           inflows == [n \in DOMAIN actual |-> Inflow(actual[n])]
<1>1. Len(u) \in Nat /\ IsFiniteSet(all)
  BY FS_Interval
<1>2. Total(Inflow, actual) = SumOver(inflows, all)
  BY DEF Total, TotalAt
<1>3. Zero \in Exact
  BY WholeIsExact DEF Zero
<1>4. ASSUME NEW n \in all
      PROVE  /\ inflows[n] \in Exact
             /\ u[n].kind = "Buy" => inflows[n] = PaidFor(u[n])
             /\ u[n].kind # "Buy" => inflows[n] = Zero
  <2>1. u[n] \in Priced
    BY <1>1
  <2>2. PICK t \in Priced : t = u[n]
    BY <2>1
  <2>3. /\ t.kind # "Split" => Rate(t, home) # None
        /\ Invests(t) => t.fx # None
        /\ home /\ Invests(t) => t.fx = One
        /\ t.kind = "Sell" => ~IsPositive(PaidFor(t))
    BY <2>2 DEF RatedTrades
  <2>4. LET f == Flow(t, Rate(t, home), One)
        IN  /\ f \in Exact /\ (Invests(t) => f = PaidFor(t)) /\ (IsPositive(f) <=> t.kind = "Buy")
    BY <2>3, TradeFlow
  <2>5. flows[n] = Flow(t, Rate(t, home), One)
    BY <2>2 DEF FlowsAt
  <2>6. inflows[n] = IF IsPositive(actual[n].amount) THEN actual[n].amount ELSE Zero
    BY DEF Inflow, IsPositive
  <2>7. actual[n].amount = flows[n]
    OBVIOUS
  <2>. HIDE DEF inflows, flows
  <2>8. t.kind = "Buy" => Invests(t)
    BY DEF Invests
  <2>. QED  BY <1>3, <2>2, <2>4, <2>5, <2>6, <2>7, <2>8
<1>5. bought \in SUBSET all /\ \A n \in bought : u[n].kind = "Buy"
  BY DEF Bought
<1>6. \A n \in all \ bought : u[n].kind # "Buy"
  BY DEF Bought
<1>. HIDE DEF inflows, all, bought
<1>7. SumOver(inflows, all) = SumOver(inflows, bought)
  <2>1. Amounts(inflows, all)
    BY <1>1, <1>4 DEF Amounts
  <2>2. \A n \in all \ bought : inflows[n] = Zero
    BY <1>4, <1>6
  <2>. QED  BY <1>5, <2>1, <2>2, SumOverWithoutZeros
<1>8. IsFiniteSet(bought)
  BY <1>1, <1>5, FS_Subset
<1>9. \A n \in bought : inflows[n] = paid[n] /\ paid[n] \in Exact
  BY <1>4, <1>5
<1>. HIDE DEF paid
<1>10. SumOver(inflows, bought) = SumOver(paid, bought)
  BY <1>8, <1>9, SameSumOver
<1>11. SumOver(paid, bought) \in Exact
  BY <1>8, <1>9, SumOverExact DEF Amounts
<1>. QED  BY <1>2, <1>7, <1>10, <1>11 DEF paid, bought

\* The conditions of the whole report, of a line of it.
WholeLine(l, i, to) == /\ HasWaterfall(l) /\ Accumulates(l)
                       /\ NoLaterSplit(i, to) /\ Ordinary(i, to)

\* The trades behind such a line are rated.
LEMMA WholeIsRated ==
  ASSUME BooksDerive, NEW i \in Instrument, NEW to \in Day, NEW l, LineIs(l, MoneyBack(i, to)),
         l.done = PositionPerformance(Until(i, to)), WholeLine(l, i, to),
         NEW period, period.trades = Until(i, to), Unrated(period, IsHome(i)) = {},
         NEW home \in BOOLEAN, home = IsHome(i)
  PROVE  RatedTrades(Until(i, to), home)
<1> DEFINE u == Until(i, to)
           k == Len(u)
<1>1. u \in Seq(Priced) /\ k \in Nat /\ DOMAIN u = 1..k /\ MoneyAt(u, k)
  <2>1. u \in Seq(Priced) /\ MoneyAt(u, k)
    BY BackIs
  <2>. HIDE DEF u
  <2>. QED  BY <2>1
<1>2. PICK p, r : p = PositionsAfter(u)[k] /\ r = RealizedAfter(u)[k]
  OBVIOUS
<1>3. l.done.position = p /\ l.done.realized = r
  BY <1>2 DEF PositionPerformance, PositionOf
<1>4. p.base.known /\ r.gain.known
  <2>1. r.gain.known /\ (l.open => l.held.gain.known)
    BY <1>3 DEF WholeLine, HasWaterfall
  <2>2. /\ PositionIs(p) /\ HeldAre(l.held, p) /\ (l.open <=> p.quantity > 0)
    BY <1>3 DEF LineIs
  <2>3. ~(p.quantity > 0) => p.base.known
    BY <2>2 DEF PositionIs, IsPosition
  <2>4. l.open => p.base.known
    BY <2>1, <2>2 DEF HeldAre
  <2>. QED  BY <2>1, <2>2, <2>3, <2>4
<1>5. \A m \in InvestedUpTo(u, k) : u[m].fx # None
  BY <1>1, <1>2, <1>4 DEF MoneyAt
<1>6. ASSUME NEW n \in 1..k
      PROVE  /\ u[n].kind # "Split" => Rate(u[n], home) # None
             /\ Invests(u[n]) => u[n].fx # None
             /\ home /\ Invests(u[n]) => u[n].fx = One
             /\ u[n].kind = "Sell" => ~IsPositive(PaidFor(u[n]))
  <2>1. n \in DOMAIN u
    BY <1>1
  <2>2. u[n].kind # "Split" => Rate(u[n], IsHome(i)) # None
    BY <2>1 DEF Unrated
  <2>3. Invests(u[n]) => u[n].fx # None
    BY <1>5 DEF InvestedUpTo
  <2>4. /\ IsHome(i) /\ Invests(u[n]) => u[n].fx = One
        /\ u[n].kind = "Sell" => ~IsPositive(PaidFor(u[n]))
    BY <2>1 DEF WholeLine, Ordinary, InKronor, PaidFor
  <2>. QED  BY <2>2, <2>3, <2>4
<1>. QED  BY <1>6 DEF RatedTrades

LEMMA MarketOfLine ==
  ASSUME BooksDerive, NEW i \in Instrument, NEW to \in Day, NEW p, PositionIs(p),
         NEW home \in BOOLEAN, home = IsHome(i), Valued(i, p, to).market.known
  PROVE  LET rate == IF home THEN One ELSE FxAt(i, to)
             close == CloseAt(i, to)
         IN  /\ close \in Exact /\ rate \in Exact /\ Amount(p.quantity) \in Exact
             /\ Valued(i, p, to).market.value = (close ** Amount(p.quantity)) ** rate
<1>1. PICK price, row : price = PriceAt(i, to) /\ row = RateAt(i, to)
  OBVIOUS
<1>2. Found(price) /\ Found(row)
  BY <1>1, FoundPrices
<1>3. PICK before, rateBefore :
         /\ before = IF price = None THEN None
                     ELSE EffectivePrevious(RowsOf(i), EnabledOf(i), price.date)
         /\ rateBefore = IF row = None THEN None ELSE PreviousBefore(rates, row.date)
  OBVIOUS
<1>4. Valued(i, p, to) = ValuePosition(p, home, to, price, before, row, rateBefore)
  BY <1>1, <1>3 DEF Valued
<1>5. LET v == ValuePosition(p, home, to, price, before, row, rateBefore)
          rate == IF home THEN One ELSE row.close
      IN  v.market.known => /\ price # None /\ (home \/ row # None) /\ v.market.value \in Exact
                            /\ v.market.value = (price.close ** Amount(p.quantity)) ** rate
  BY <1>2, HeldValues
<1>6. /\ price # None /\ (home \/ row # None)
      /\ Valued(i, p, to).market.value
            = (price.close ** Amount(p.quantity)) ** (IF home THEN One ELSE row.close)
  BY <1>4, <1>5
<1>7. CloseAt(i, to) = price.close /\ (row # None => FxAt(i, to) = row.close)
  BY <1>1, <1>6 DEF CloseAt, FxAt
<1>8. One \in Exact /\ Amount(p.quantity) \in Exact
  <2>1. One \in Exact
    BY WholeIsExact DEF One
  <2>2. p.quantity \in Int
    BY DEF PositionIs, IsPosition
  <2>. QED  BY <2>1, <2>2, WholeIsExact
<1>9. CASE home
  BY <1>2, <1>6, <1>7, <1>8, <1>9 DEF Found
<1>10. CASE ~home
  BY <1>2, <1>6, <1>7, <1>8, <1>10 DEF Found
<1>. QED  BY <1>9, <1>10

\* Amounts that are known lack nothing.
LEMMA NothingLacks ==
  ASSUME NEW period, NEW startPrice, NEW endPrice, NEW startFx, NEW endFx, NEW home \in BOOLEAN,
         period.opening.quantity = 0,
         ComputePeriodAmounts(period, startPrice, endPrice, startFx, endFx, home).total.known
  PROVE  /\ home \/ endFx # None
         /\ period.closing.quantity > 0 => endPrice # None
         /\ Unrated(period, home) = {}
         /\ ComputePeriodAmounts(period, startPrice, endPrice, startFx, endFx, home)
               = AmountsOf(period, home, Zero,
                           IF period.closing.quantity > 0 THEN endPrice ELSE Zero,
                           IF home THEN One ELSE endFx, IF home THEN One ELSE endFx)
<1> DEFINE lacking == Lacking(period, startPrice, endPrice, startFx, endFx, home)
           lacks == {n \in DOMAIN lacking : lacking[n].lacks}
           amounts == ComputePeriodAmounts(period, startPrice, endPrice, startFx, endFx, home)
           reason == lacking[CHOOSE n \in lacks : \A m \in lacks : n <= m].reason
           whole == AmountsOf(period, home, Zero,
                              IF period.closing.quantity > 0 THEN endPrice ELSE Zero,
                              IF home THEN One ELSE endFx, IF home THEN One ELSE endFx)
<1>1. ~(period.opening.quantity > 0)
  OBVIOUS
<1>2. amounts = IF lacks # {} THEN AllUnknown(reason) ELSE whole
  BY <1>1 DEF ComputePeriodAmounts
<1>3. ~AllUnknown(reason).total.known
  <2>. HIDE DEF reason
  <2>. QED  BY DEF AllUnknown, Unknown
<1>4. lacks = {}
  <2>. HIDE DEF lacks, reason, whole, amounts
  <2>. QED  BY <1>2, <1>3 DEF amounts
<1>5. lacking = <<[lacks |-> ~home /\ endFx = None, reason |-> "missing_end_fx"],
                  [lacks |-> ~home /\ period.opening.quantity > 0 /\ startFx = None,
                   reason |-> "missing_start_fx"],
                  [lacks |-> period.closing.quantity > 0 /\ endPrice = None,
                   reason |-> "missing_end_price"],
                  [lacks |-> period.opening.quantity > 0 /\ startPrice = None,
                   reason |-> "missing_start_price"],
                  [lacks |-> Unrated(period, home) # {}, reason |-> "missing_transaction_fx"]>>
  BY DEF Lacking
<1>. HIDE DEF lacking
<1>6. /\ 1 \in DOMAIN lacking /\ 3 \in DOMAIN lacking /\ 5 \in DOMAIN lacking
      /\ lacking[1].lacks = (~home /\ endFx = None)
      /\ lacking[3].lacks = (period.closing.quantity > 0 /\ endPrice = None)
      /\ lacking[5].lacks = (Unrated(period, home) # {})
  BY <1>5
<1>7. ~lacking[1].lacks /\ ~lacking[3].lacks /\ ~lacking[5].lacks
  BY <1>4, <1>6
<1>. QED  BY <1>2, <1>4, <1>6, <1>7

\* What such amounts add up.
LEMMA AmountsAddUp ==
  ASSUME NEW u \in Seq(Priced), NEW home \in BOOLEAN, RatedTrades(u, home),
         NEW period, period.trades = u, period.opening.quantity = 0,
         period.within \in Exact, period.later = One,
         NEW q \in Int, period.closing.quantity = q, Amount(q) \in Exact,
         NEW endPrice \in Exact, NEW rate \in Exact
  PROVE  LET a == AmountsOf(period, home, Zero, endPrice, rate, rate)
             income == SumOver([n \in Divided(u) |-> Zero -- FlowsAt(u, home)[n]], Divided(u))
         IN  /\ a.begin.value = Zero
             /\ a.income.value = income
             /\ a.total.value
                   = ((endPrice ** Amount(q)) ** rate -- Zero)
                        -- SumOver(FlowsAt(u, home), 1..Len(u))
<1> DEFINE a == AmountsOf(period, home, Zero, endPrice, rate, rate)
           opened == Amount(period.opening.quantity) ** period.within ** period.later
           closed == Amount(period.closing.quantity) ** period.later
           begin == opened ** Zero ** rate
           end == closed ** endPrice ** rate
           flows == Total(LAMBDA t : Flow(t, Rate(t, home), FlowFactor(t, period)),
                          period.trades)
           dividends == {n \in DOMAIN period.trades : period.trades[n].kind = "Dividend"}
           income == TotalAt(LAMBDA t : Zero -- Flow(t, Rate(t, home), One), period.trades,
                             dividends)
           total == end -- begin -- flows
           capital == (closed ** endPrice -- opened ** Zero) ** rate
                        -- Total(LAMBDA t : CapitalFlow(t, rate, period), period.trades)
<1>1. a = [begin |-> Known(begin), end |-> Known(end), capital |-> Known(capital),
           currency |-> Known(total -- capital -- income), income |-> Known(income),
           total |-> Known(total)]
  BY DEF AmountsOf
<1>2. begin = Zero
  <2>1. opened = (Zero ** period.within) ** One
    BY DEF Zero
  <2>2. opened = Zero
    BY <2>1, ZeroLaws
  <2>. HIDE DEF opened
  <2>. QED  BY <2>2, ZeroLaws
<1>3. end = (endPrice ** Amount(q)) ** rate
  <2>1. closed = Amount(q)
    BY ZeroLaws
  <2>. HIDE DEF closed
  <2>2. Amount(q) ** endPrice = endPrice ** Amount(q)
    BY TimesLaws
  <2>. QED  BY <2>1, <2>2
<1>4. DOMAIN u = 1..Len(u)
  OBVIOUS
<1>5. \A n \in 1..Len(u) : FlowFactor(u[n], period) = One
  BY DEF FlowFactor
<1>6. flows = SumOver([n \in 1..Len(u) |-> Flow(u[n], Rate(u[n], home), FlowFactor(u[n], period))],
                      1..Len(u))
  BY <1>4 DEF Total, TotalAt
<1>7. flows = SumOver(FlowsAt(u, home), 1..Len(u))
  <2>1. FlowsAt(u, home)
          = [n \in 1..Len(u) |-> Flow(u[n], Rate(u[n], home), FlowFactor(u[n], period))]
    BY <1>5 DEF FlowsAt
  <2>. HIDE DEF flows
  <2>. QED  BY <1>6, <2>1
<1>8. dividends = Divided(u)
  BY <1>4 DEF Divided
<1>9. income = SumOver([n \in dividends |-> Zero -- Flow(u[n], Rate(u[n], home), One)], dividends)
  BY DEF TotalAt
<1>10. income = SumOver([n \in Divided(u) |-> Zero -- FlowsAt(u, home)[n]], Divided(u))
  <2>1. \A n \in Divided(u) : FlowsAt(u, home)[n] = Flow(u[n], Rate(u[n], home), One)
    BY DEF Divided, FlowsAt
  <2>2. [n \in Divided(u) |-> Zero -- FlowsAt(u, home)[n]]
          = [n \in Divided(u) |-> Zero -- Flow(u[n], Rate(u[n], home), One)]
    BY <2>1
  <2>. HIDE DEF income, dividends
  <2>. QED  BY <1>8, <1>9, <2>2
<1>. HIDE DEF a, begin, end, flows, income, total, capital
<1>11. a.begin = Known(begin) /\ a.income = Known(income) /\ a.total = Known(total)
  BY <1>1
<1>12. a.begin.value = begin /\ a.income.value = income /\ a.total.value = total
  BY <1>11 DEF Known
<1>13. total = (end -- begin) -- flows
  BY DEF total
<1>. QED  BY <1>2, <1>3, <1>7, <1>10, <1>12, <1>13 DEF a

\* A line of a whole report: it starts from nothing, its total is the money, and
\* what flowed in is what was paid in.
LEMMA WholeLineIsMoney ==
  ASSUME BooksDerive, NEW start \in Day, NEW to \in Day, NEW i \in DOMAIN Lines(start, to),
         CountUntil(ledger[i], start - 1) = 0, WholeLine(Lines(start, to)[i], i, to)
  PROVE  LET l == Lines(start, to)[i]
         IN  /\ l.amounts.begin.value = Zero
             /\ l.amounts.total.value = Money(l, to) ++ l.income.value
             /\ Total(Inflow, l.actual.value) = PaidIn(i, to)
             /\ PaidIn(i, to) \in Exact
<1> DEFINE l == Lines(start, to)[i]
           u == Until(i, to)
           done == PositionPerformance(u)
           period == ReconstructPeriod(ledger[i], start, to, Beyond)
           back == SumOver(Back(u), InvestedUpTo(u, Len(u)))
           closes == period.closing.quantity > 0
           endPrice == IF closes THEN CloseAt(i, to) ELSE Zero
<1>1. start \in Int /\ to \in Int
  BY Days
<1>2. /\ i \in Instrument /\ LineIs(l, MoneyBack(i, to)) /\ l.instrument = i
      /\ l.exposed = Exposed(period) /\ l.amounts = PeriodAmounts(i, period, start, to)
      /\ l.actual = ActualPeriodCashFlows(period, IsHome(i))
      /\ l.income = (IF l.exposed THEN l.amounts.income ELSE Known(Zero))
      /\ l.done = done /\ (l.open <=> done.position.quantity > 0)
      /\ l.held = Valued(i, done.position, to)
  BY <1>1, LinesAre
<1>3. /\ period.opening.quantity = 0 /\ period.trades = u /\ period.closing = PositionOf(u)
      /\ period.within \in Exact /\ period.later = One
  BY <1>1, <1>2, WholePeriod DEF WholeLine
<1>4. /\ u \in Seq(Priced) /\ DOMAIN u = 1..Len(u)
      /\ MoneyBack(i, to) = back /\ done.position = PositionOf(u)
  <2>1. u \in Seq(Priced) /\ MoneyBack(i, to) = back
    BY <1>2, BackIs
  <2>2. done.position = PositionOf(u)
    BY DEF PositionPerformance
  <2>3. DOMAIN u = 1..Len(u)
    <3>. HIDE DEF u
    <3>. QED  BY <2>1
  <2>. QED  BY <2>1, <2>2, <2>3
<1>5. PICK home \in BOOLEAN : home = IsHome(i)
  BY DEF IsHome
<1>6. PICK startClose, close, startFx, fx :
         /\ startClose = CloseAt(i, start) /\ close = CloseAt(i, to)
         /\ startFx = FxAt(i, start) /\ fx = FxAt(i, to)
  OBVIOUS
<1>. HIDE DEF l, u, done, period
<1>7. l.amounts = ComputePeriodAmounts(period, startClose, close, startFx, fx, home)
  BY <1>2, <1>5, <1>6 DEF PeriodAmounts
<1>8. l.amounts.total.known /\ l.exposed /\ l.done.realized.gain.known
      /\ (l.open => l.held.market.known)
  BY DEF WholeLine, Accumulates, HasWaterfall, l
<1>9. PICK rate : rate = IF home THEN One ELSE fx
  OBVIOUS
<1>10. PICK price : price = IF closes THEN close ELSE Zero
  OBVIOUS
<1>11. /\ home \/ fx # None
       /\ Unrated(period, home) = {}
       /\ l.amounts = AmountsOf(period, home, Zero, price, rate, rate)
  BY <1>3, <1>7, <1>8, <1>9, <1>10, NothingLacks
<1>12. RatedTrades(u, home)
  <2>1. LineIs(l, MoneyBack(i, to)) /\ l.done = PositionPerformance(Until(i, to))
    BY <1>2 DEF done, u
  <2>2. period.trades = Until(i, to) /\ WholeLine(l, i, to) /\ Unrated(period, IsHome(i)) = {}
    BY <1>3, <1>5, <1>11 DEF u, l
  <2>3. RatedTrades(Until(i, to), home)
    BY <1>2, <1>5, <2>1, <2>2, WholeIsRated
  <2>. QED  BY <2>3 DEF u
<1>13. PICK q \in Int : q = period.closing.quantity /\ q = done.position.quantity /\ q >= 0
  BY <1>2, <1>3, <1>4 DEF LineIs, PositionIs, IsPosition
<1>14. Zero \in Exact /\ One \in Exact /\ Amount(q) \in Exact
  BY WholeIsExact DEF Zero, One
<1>15. rate \in Exact
  <2>1. fx # None => fx \in Exact
    BY <1>2, <1>6, FoundPrices DEF FxAt, Found
  <2>. QED  BY <1>9, <1>11, <1>14, <2>1
<1>16. /\ price \in Exact
       /\ (price ** Amount(q)) ** rate = Worth(l) /\ Worth(l) \in Exact
  <2>1. CASE l.open
    <3>1. PositionIs(done.position) /\ Valued(i, done.position, to).market.known
      BY <1>2, <1>8, <2>1 DEF LineIs
    <3>2. LET at == IF home THEN One ELSE FxAt(i, to)
              shown == CloseAt(i, to)
          IN  /\ shown \in Exact /\ at \in Exact /\ Amount(done.position.quantity) \in Exact
              /\ Valued(i, done.position, to).market.value
                    = (shown ** Amount(done.position.quantity)) ** at
      BY <1>2, <1>5, <3>1, MarketOfLine
    <3>3. close \in Exact /\ l.held.market.value = (close ** Amount(q)) ** rate
      BY <1>2, <1>6, <1>9, <1>13, <3>2
    <3>4. price = close
      BY <1>2, <1>10, <1>13, <2>1
    <3>5. (close ** Amount(q)) ** rate \in Exact
      BY <1>14, <1>15, <3>3, TimesExact
    <3>. QED  BY <2>1, <3>3, <3>4, <3>5 DEF Worth
  <2>2. CASE ~l.open
    <3>1. q = 0 /\ price = Zero
      BY <1>2, <1>10, <1>13, <2>2
    <3>2. (Zero ** Amount(q)) ** rate = Zero
      BY <1>14, <1>15, ZeroLaws
    <3>. QED  BY <1>14, <2>2, <3>1, <3>2 DEF Worth
  <2>. QED  BY <2>1, <2>2
<1>17. PICK income : income = SumOver([n \in Divided(u) |-> Zero -- FlowsAt(u, home)[n]], Divided(u))
  OBVIOUS
<1>18. /\ l.amounts.begin.value = Zero /\ l.amounts.income.value = income
       /\ l.amounts.total.value = (Worth(l) -- Zero) -- SumOver(FlowsAt(u, home), 1..Len(u))
  <2>1. LET a == AmountsOf(period, home, Zero, price, rate, rate)
            paid == SumOver([n \in Divided(u) |-> Zero -- FlowsAt(u, home)[n]], Divided(u))
        IN  /\ a.begin.value = Zero
            /\ a.income.value = paid
            /\ a.total.value = ((price ** Amount(q)) ** rate -- Zero)
                                  -- SumOver(FlowsAt(u, home), 1..Len(u))
    BY <1>3, <1>4, <1>12, <1>13, <1>14, <1>15, <1>16, AmountsAddUp
  <2>. QED  BY <1>11, <1>16, <1>17, <2>1
<1>19. (Worth(l) -- Zero) -- SumOver(FlowsAt(u, home), 1..Len(u)) = (Worth(l) ++ back) ++ income
  BY <1>4, <1>12, <1>16, <1>17, FlowsAreMoney
<1>20. Money(l, to) = Worth(l) ++ back /\ l.income.value = l.amounts.income.value
  BY <1>2, <1>4, <1>8 DEF Money, Worth
<1>21. Total(Inflow, l.actual.value) = PaidIn(i, to) /\ PaidIn(i, to) \in Exact
  <2> DEFINE flows == [n \in DOMAIN period.trades |->
                         [date |-> period.trades[n].date,
                          amount |-> Flow(period.trades[n], Rate(period.trades[n], IsHome(i)), One)]]
             paid == [n \in Bought(u) |-> PaidFor(u[n])]
  <2>1. l.actual = Known(flows)
    BY <1>2, <1>5, <1>11 DEF ActualPeriodCashFlows, FlowsBy
  <2>2. DOMAIN flows = 1..Len(u) /\ \A n \in 1..Len(u) : flows[n].amount = FlowsAt(u, home)[n]
    BY <1>3, <1>4, <1>5 DEF FlowsAt
  <2>. HIDE DEF flows
  <2>3. l.actual.value = flows
    BY <2>1 DEF Known
  <2>4. Total(Inflow, flows) = SumOver(paid, Bought(u)) /\ SumOver(paid, Bought(u)) \in Exact
    BY <1>4, <1>12, <2>2, InflowsArePaidIn
  <2>5. Total(Inflow, l.actual.value) = Total(Inflow, flows)
    BY <2>3 DEF Total, TotalAt
  <2>6. PaidIn(i, to) = SumOver(paid, Bought(u))
    <3> DEFINE places == {n \in DOMAIN u : u[n].kind = "Buy"}
    <3>1. places = Bought(u)
      BY <1>4 DEF Bought
    <3>2. PaidIn(i, to) = SumOver([n \in places |-> Gross(u[n]) ** u[n].fx ++ u[n].brokerage], places)
      BY DEF PaidIn, TotalAt, u
    <3>. HIDE DEF places
    <3>. QED  BY <3>1, <3>2 DEF PaidFor
  <2>. QED  BY <2>4, <2>5, <2>6
<1>. QED  BY <1>18, <1>19, <1>20, <1>21 DEF l

\* The third part of ReturnsAreMoney, of a report from the first trade on.
LEMMA WholeReports ==
  ASSUME BooksDerive, NEW start \in Day, NEW to \in Day,
         \A i \in Instrument : CountUntil(ledger[i], start - 1) = 0,
         \A i \in DOMAIN Lines(start, to) : WholeLine(Lines(start, to)[i], i, to)
  PROVE  WholeReportIsMoney(Lines(start, to), to)
<1> DEFINE lines == Lines(start, to)
           all == DOMAIN lines
           paid == [i \in all |-> PaidIn(i, to)]
           begins == [i \in all |-> lines[i].amounts["begin"].value]
           totals == [i \in all |-> lines[i].amounts["total"].value]
           inflows == [i \in all |-> Total(Inflow, lines[i].actual.value)]
           money == [i \in all |-> Money(lines[i], to) ++ lines[i].income.value]
           some == {i \in all : HasWaterfall(lines[i])}
           earned == WaterfallTotal(lines)
           invested == PerformanceTotal(lines, "begin")
                         ++ TotalAt(LAMBDA l : Total(Inflow, l.actual.value),
                                    lines, Accumulated(lines))
<1>1. all \subseteq Instrument
  BY DEF Lines
<1>2. IsFiniteSet(all)
  <2>1. IsFiniteSet({Foreign, Home})
    <3>1. IsFiniteSet({} \cup {Foreign})
      BY FS_EmptySet, FS_AddElement
    <3>2. IsFiniteSet(({} \cup {Foreign}) \cup {Home})
      BY <3>1, FS_AddElement
    <3>3. {Foreign, Home} = ({} \cup {Foreign}) \cup {Home}
      OBVIOUS
    <3>. QED  BY <3>2, <3>3
  <2>. HIDE DEF all
  <2>. QED  BY <1>1, <2>1, FS_Subset DEF Instrument
<1>3. \A i \in all : /\ begins[i] = Zero /\ totals[i] = money[i] /\ inflows[i] = paid[i]
                     /\ paid[i] \in Exact
  <2>. SUFFICES ASSUME NEW i \in all
                PROVE  /\ begins[i] = Zero /\ totals[i] = money[i] /\ inflows[i] = paid[i]
                       /\ paid[i] \in Exact
    OBVIOUS
  <2>1. CountUntil(ledger[i], start - 1) = 0 /\ WholeLine(lines[i], i, to)
    BY <1>1
  <2>2. LET l == lines[i]
        IN  /\ l.amounts.begin.value = Zero
            /\ l.amounts.total.value = Money(l, to) ++ l.income.value
            /\ Total(Inflow, l.actual.value) = PaidIn(i, to)
            /\ PaidIn(i, to) \in Exact
    BY <2>1, WholeLineIsMoney
  <2>. HIDE DEF lines
  <2>. QED  BY <2>2
<1>4. Accumulated(lines) = all /\ some = all
  BY DEF WholeLine, Accumulated
<1>5. earned = SumOver(money, all)
  <2>1. start \in Int
    BY Days
  <2>2. WaterfallTotal(lines) = TotalAt(LAMBDA l : Money(l, to) ++ l.income.value, lines, some)
    BY <2>1, RowsAreMoney
  <2>3. TotalAt(LAMBDA l : Money(l, to) ++ l.income.value, lines, some)
          = SumOver([i \in some |-> Money(lines[i], to) ++ lines[i].income.value], some)
    BY DEF TotalAt
  <2>. HIDE DEF lines, some, all
  <2>. QED  BY <1>4, <2>2, <2>3
<1>6. /\ PerformanceTotal(lines, "begin")
            = SumOver([i \in Accumulated(lines) |-> lines[i].amounts["begin"].value], Accumulated(lines))
      /\ PerformanceTotal(lines, "total")
            = SumOver([i \in Accumulated(lines) |-> lines[i].amounts["total"].value], Accumulated(lines))
      /\ TotalAt(LAMBDA l : Total(Inflow, l.actual.value), lines, Accumulated(lines))
            = SumOver([i \in Accumulated(lines) |-> Total(Inflow, lines[i].actual.value)],
                      Accumulated(lines))
  BY DEF PerformanceTotal, TotalAt
<1>. HIDE DEF lines, earned
<1>7. PerformanceTotal(lines, "total") = earned
  <2>1. PerformanceTotal(lines, "total") = SumOver(totals, all)
    BY <1>4, <1>6
  <2>2. totals = money
    BY <1>3
  <2>. QED  BY <1>5, <2>1, <2>2
<1>8. PerformanceTotal(lines, "begin") = Zero
  <2>1. PerformanceTotal(lines, "begin") = SumOver(begins, all)
    BY <1>4, <1>6
  <2>. HIDE DEF begins, all
  <2>. QED  BY <1>2, <1>3, <2>1, SumOverZeros
<1>9. TotalAt(LAMBDA l : Total(Inflow, l.actual.value), lines, Accumulated(lines))
        = SumOver(paid, all)
  <2>1. inflows = paid
    BY <1>3
  <2>. QED  BY <1>4, <1>6, <2>1
<1>10. SumOver(paid, all) \in Exact
  <2>. HIDE DEF paid, all
  <2>. QED  BY <1>2, <1>3, SumOverExact DEF Amounts
<1>11. invested = SumOver(paid, all)
  BY <1>8, <1>9, <1>10, ZeroLaws
<1>12. ASSUME IsBelow(Zero, SumOver(paid, all))
       PROVE  SimplePercent(lines) = Known(earned // SumOver(paid, all))
  <2>1. all # {}
    <3>1. SumOver(paid, {}) = Zero /\ ~IsBelow(Zero, Zero)
      BY SumOverNone DEF IsBelow, Zero, Amount
    <3>. HIDE DEF paid
    <3>. QED  BY <1>12, <3>1
  <2>2. SimplePercent(lines)
          = IF Accumulated(lines) = {} \/ ~IsBelow(Zero, invested) THEN Unknown({})
            ELSE Known(PerformanceTotal(lines, "total") // invested)
    BY DEF SimplePercent
  <2>. HIDE DEF invested, paid, all
  <2>. QED  BY <1>4, <1>7, <1>11, <1>12, <2>1, <2>2
<1>. QED  BY <1>7, <1>12 DEF WholeReportIsMoney, earned, lines

LEMMA ReturnsOfBooks == BooksDerive => ReturnsAreMoney
<1>. SUFFICES ASSUME BooksDerive, NEW r \in Reports
              PROVE  LET start == ReportStart(r[1], r[2])
                         lines == Lines(start, r[2])
                     IN  /\ \A i \in DOMAIN lines :
                               HasRow(lines[i]) => RowIsMoney(lines[i], GainRow(lines[i]), r[2])
                         /\ WaterfallTotal(lines)
                               = TotalAt(LAMBDA l : Money(l, r[2]) ++ l.income.value,
                                         lines, {i \in DOMAIN lines : HasWaterfall(lines[i])})
                         /\ /\ r[1] = None
                            /\ \A i \in DOMAIN lines :
                                  /\ HasWaterfall(lines[i]) /\ Accumulates(lines[i])
                                  /\ NoLaterSplit(i, r[2]) /\ Ordinary(i, r[2])
                            => WholeReportIsMoney(lines, r[2])
  BY DEF ReturnsAreMoney
<1> DEFINE from == r[1]
           to == r[2]
           start == ReportStart(from, to)
           lines == Lines(start, to)
<1>1. from \in Day \cup {None} /\ to \in Day
  BY DEF Reports
<1>. HIDE DEF from, to
<1>2. /\ start \in Day /\ start \in Int
      /\ from = None => \A i \in Instrument : CountUntil(ledger[i], start - 1) = 0
  <2>1. PICK f \in Day \cup {None}, t \in Day : f = from /\ t = to
    BY <1>1
  <2>2. /\ ReportStart(f, t) \in Day
        /\ f = None => \A i \in Instrument : CountUntil(ledger[i], ReportStart(f, t) - 1) = 0
    BY StartIs
  <2>3. ReportStart(f, t) \in Int
    BY <2>2, Days
  <2>. QED  BY <2>1, <2>2, <2>3
<1>. HIDE DEF start
<1>3. /\ \A i \in DOMAIN lines : HasRow(lines[i]) => RowIsMoney(lines[i], GainRow(lines[i]), to)
      /\ WaterfallTotal(lines)
            = TotalAt(LAMBDA l : Money(l, to) ++ l.income.value,
                      lines, {i \in DOMAIN lines : HasWaterfall(lines[i])})
  BY <1>1, <1>2, RowsAreMoney
<1>4. ASSUME from = None,
             \A i \in DOMAIN lines : /\ HasWaterfall(lines[i]) /\ Accumulates(lines[i])
                                     /\ NoLaterSplit(i, to) /\ Ordinary(i, to)
      PROVE  WholeReportIsMoney(lines, to)
  BY <1>1, <1>2, <1>4, WholeReports DEF WholeLine
<1>. QED  BY <1>3, <1>4 DEF from, to, start

\* The gain that the reports show is the money: what is held is worth, and what came
\* back, less what was paid in, for trades, prices and rates of any number and size
\* (gains/waterfall.rs, period_amounts.rs).
THEOREM MoneyAlways == ReportSpec => []ReturnsAreMoney
<1>. QED  BY BooksDeriveInit, BooksDeriveNext, ReturnsOfBooks, PTL DEF ReportSpec

-----------------------------------------------------------------------------
(* The prices of an instrument, by day and as a series.                        *)

SeriesOf(i) == EffectiveSeries(RowsOf(i), EnabledOf(i), 1, LastDay)
ClosesTo(i, d) == {e \in DOMAIN SeriesOf(i) : e <= d}

LEMMA BookOf ==
  ASSUME BooksDerive, NEW i \in Instrument
  PROVE  IsBook(RowsOf(i))
<1>1. CASE IsHome(i)
  <2>1. RowsOf(i) = [s \in Source |-> IF s = HomeSource THEN HomeCloses ELSE [d \in Day |-> None]]
    BY <1>1 DEF RowsOf
  <2>2. HomeCloses \in [Day -> Exact \cup {None}]
        /\ [d \in Day |-> None] \in [Day -> Exact \cup {None}]
    BY PriceAssumption
  <2>. QED  BY <2>1, <2>2 DEF IsBook
<1>2. CASE ~IsHome(i)
  <2>1. RowsOf(i) = rows
    BY <1>2 DEF RowsOf
  <2>2. rows \in [Source -> [Day -> Closes \cup {None}]]
    BY DEF BooksDerive
  <2>. QED  BY <2>1, <2>2, PriceAssumption DEF IsBook
<1>. QED  BY <1>1, <1>2

\* The last price up to a day is the last of the series up to that day.
LEMMA PricesOfSeries ==
  ASSUME BooksDerive, NEW i \in Instrument
  PROVE  /\ DOMAIN SeriesOf(i) \in SUBSET Day
         /\ \A d \in DOMAIN SeriesOf(i) : /\ SeriesOf(i)[d] # None /\ SeriesOf(i)[d].date = d
                                          /\ SeriesOf(i)[d].close \in Exact
         /\ \A d \in Day : PriceAt(i, d) = IF ClosesTo(i, d) = {} THEN None
                                           ELSE SeriesOf(i)[Latest(ClosesTo(i, d))]
<1>1. PICK stored, on : stored = RowsOf(i) /\ on = EnabledOf(i)
  OBVIOUS
<1>2. IsBook(stored)
  BY <1>1, BookOf
<1>3. PICK first \in Int : first = 1
  OBVIOUS
<1>4. LastDay \in Int /\ \A d \in Day : d \in Int /\ 1 <= d /\ d <= LastDay
  BY Days
<1>5. SeriesOf(i) = EffectiveSeries(stored, on, first, LastDay)
  BY <1>1, <1>3 DEF SeriesOf
<1>6. /\ DOMAIN SeriesOf(i) = {d \in Day : first <= d /\ d <= LastDay /\ Having(stored, on, d) # {}}
      /\ \A d \in DOMAIN SeriesOf(i) : SeriesOf(i)[d] = PriceOn(stored, on, d)
  <2>1. LET series == EffectiveSeries(stored, on, first, LastDay)
        IN  /\ DOMAIN series = {d \in Day : first <= d /\ d <= LastDay /\ Having(stored, on, d) # {}}
            /\ \A d \in DOMAIN series : series[d] = PriceOn(stored, on, d)
    BY <1>4, SeriesByDay
  <2>. QED  BY <1>5, <2>1
<1>7. DOMAIN SeriesOf(i) = {d \in Day : Having(stored, on, d) # {}}
  BY <1>3, <1>4, <1>6
<1>8. ASSUME NEW d \in DOMAIN SeriesOf(i)
      PROVE  /\ SeriesOf(i)[d] # None /\ SeriesOf(i)[d].date = d /\ SeriesOf(i)[d].close \in Exact
  <2> DEFINE n == Least(Having(stored, on, d))
             x == PriceOn(stored, on, d)
  <2>1. /\ d \in Day /\ Having(stored, on, d) # {}
        /\ Having(stored, on, d) \in SUBSET EnabledSources(on)
    BY <1>7 DEF Having
  <2>2. n \in Having(stored, on, d)
    BY <1>2, <2>1, LeastIsFirst
  <2>3. n \in EnabledSources(on) /\ stored[Precedence[n]][d] # None
    BY <2>2 DEF Having, Row
  <2>4. Precedence[n] \in Source /\ stored[Precedence[n]] \in [Day -> Exact \cup {None}]
    BY <1>2, <2>3, SourcePlaces DEF Row
  <2>5. stored[Precedence[n]][d] \in Exact
    BY <2>1, <2>3, <2>4
  <2>6. x = [date |-> d, close |-> stored[Precedence[n]][d], source |-> Precedence[n]]
    BY DEF PriceOn
  <2>. HIDE DEF n, x
  <2>7. x \in [date : Day, close : Exact, source : Source]
    BY <2>1, <2>4, <2>5, <2>6
  <2>8. x # None /\ x.date = d /\ x.close \in Exact
    BY <2>5, <2>6, <2>7, PriceAssumption
  <2>. QED  BY <1>6, <2>8 DEF x
<1>9. ASSUME NEW d \in Day
      PROVE  PriceAt(i, d) = IF ClosesTo(i, d) = {} THEN None
                             ELSE SeriesOf(i)[Latest(ClosesTo(i, d))]
  <2>1. ClosesTo(i, d) = DaysUpTo(stored, on, d)
    BY <1>7 DEF ClosesTo, DaysUpTo
  <2>2. PriceAt(i, d) = IF ClosesTo(i, d) = {} THEN None
                        ELSE PriceOn(stored, on, Latest(ClosesTo(i, d)))
    BY <1>1, <1>2, <1>4, <2>1, LatestByDay DEF PriceAt
  <2>3. CASE ClosesTo(i, d) # {}
    <3>1. ClosesTo(i, d) \in SUBSET Day
      BY <1>7 DEF ClosesTo
    <3>2. Latest(ClosesTo(i, d)) \in ClosesTo(i, d)
      BY <2>3, <3>1, LatestIsLast
    <3>3. Latest(ClosesTo(i, d)) \in DOMAIN SeriesOf(i)
      BY <3>2 DEF ClosesTo
    <3>. QED  BY <1>6, <2>2, <3>3
  <2>. QED  BY <2>2, <2>3
<1>10. DOMAIN SeriesOf(i) \in SUBSET Day
  BY <1>7
<1>. QED  BY <1>8, <1>9, <1>10

-----------------------------------------------------------------------------
(* What a share has become.                                                    *)

LEMMA FactorNext ==
  ASSUME NEW was, NEW plain, IsFactor(was, plain), NEW t \in Entry, NEW held \in Nat,
         was.quantity = held, t.kind = "Split" => held > 0
  PROVE  LET x == NextFactor(was, t)
         IN  /\ x.quantity = IF t.kind = "Dividend" THEN held ELSE held + t.quantity
             /\ x.factor = IF t.kind = "Split"
                           THEN was.factor ** (Amount(held + t.quantity) // Amount(held))
                           ELSE was.factor
<1> DEFINE moved == [was EXCEPT !.quantity = @ + t.quantity]
           grown == [moved EXCEPT !.factor = @ ** (Amount(moved.quantity) // Amount(was.quantity))]
           part == Amount(held + t.quantity) // Amount(held)
<1>1. was = [quantity |-> held, factor |-> was.factor]
  BY DEF IsFactor
<1>2. t.kind \in Kinds
  BY DEF Entry
<1>3. moved = [quantity |-> held + t.quantity, factor |-> was.factor]
  BY <1>1
<1>4. moved.quantity = held + t.quantity /\ moved.factor = was.factor
  BY <1>3
<1>5. grown = [quantity |-> held + t.quantity, factor |-> was.factor ** part]
  <2>. HIDE DEF moved, part
  <2>. QED  BY <1>3, <1>4 DEF part
<1>6. grown.quantity = held + t.quantity /\ grown.factor = was.factor ** part
  <2>. HIDE DEF grown, part
  <2>. QED  BY <1>5
<1>7. CASE t.kind \in {"Buy", "Sell"}
  <2>1. NextFactor(was, t) = moved
    BY <1>7 DEF NextFactor
  <2>. HIDE DEF moved, grown, part
  <2>. QED  BY <1>4, <1>7, <2>1
<1>8. CASE t.kind = "Split"
  <2>1. NextFactor(was, t) = grown
    BY <1>8 DEF NextFactor
  <2>. HIDE DEF moved, grown
  <2>. QED  BY <1>6, <1>8, <2>1
<1>9. CASE t.kind = "Dividend"
  <2>1. NextFactor(was, t) = was
    BY <1>9 DEF NextFactor
  <2>. QED  BY <1>9, <2>1
<1>. QED  BY <1>2, <1>7, <1>8, <1>9 DEF Kinds

\* What is held after each trade of a ledger that derives.
LEMMA HeldAlong ==
  ASSUME NEW l \in Seq(Priced), Derived(l)
  PROVE  LET held == PositionsAfter(l)
         IN  /\ \A n \in 0..Len(l) : PositionIs(held[n]) /\ held[n].quantity \in Nat
             /\ \A n \in 1..Len(l) :
                   /\ l[n].kind = "Split" => held[n - 1].quantity > 0
                   /\ held[n].quantity = IF l[n].kind = "Dividend" THEN held[n - 1].quantity
                                         ELSE held[n - 1].quantity + l[n].quantity
<1> DEFINE held == PositionsAfter(l)
<1>1. \A n \in 0..Len(l) : PositionIs(held[n]) /\ IsPosition(held[n]) /\ held[n].quantity \in Nat
  <2>1. \A n \in 0..Len(l) : MoneyAt(l, n)
    BY MoneyAlong
  <2>. QED  BY <2>1 DEF MoneyAt, PositionIs, IsPosition
<1>2. ASSUME NEW n \in 1..Len(l)
      PROVE  /\ l[n].kind = "Split" => held[n - 1].quantity > 0
             /\ held[n].quantity = IF l[n].kind = "Dividend" THEN held[n - 1].quantity
                                   ELSE held[n - 1].quantity + l[n].quantity
  <2>1. n - 1 \in 0..Len(l) /\ Len(l) \in Nat /\ l[n] \in Priced
    OBVIOUS
  <2>2. Fits(held[n - 1], l[n]) /\ l[n] \in Entry
    BY <2>1 DEF Derived, Priced
  <2>3. held[n] = ApplyTrade(held[n - 1], l[n])
    BY <2>1, PositionsFold
  <2>4. PICK p, t : p = held[n - 1] /\ t = l[n]
    OBVIOUS
  <2>5. IsPosition(p)
    BY <1>1, <2>1, <2>4
  <2>. HIDE DEF held
  <2>6. t \in Entry /\ Fits(p, t) /\ held[n] = ApplyTrade(p, t)
    BY <2>2, <2>3, <2>4
  <2>7. ApplyTrade(p, t).quantity = IF t.kind = "Dividend" THEN p.quantity ELSE p.quantity + t.quantity
    BY <2>5, <2>6, PositionStep
  <2>8. t.kind = "Split" => p.quantity > 0
    BY <2>6 DEF Fits
  <2>. QED  BY <2>4, <2>6, <2>7, <2>8
<1>. QED  BY <1>1, <1>2

\* The trades after a day.
LEMMA LaterTrades ==
  ASSUME NEW l \in Seq(Priced), InOrder(l), Derived(l), NEW d \in Day
  PROVE  LET c == CountUntil(l, d)
             later == Dated(l, d + 1, Beyond)
         IN  /\ c \in 0..Len(l) /\ \A n \in 1..Len(l) : l[n].date <= d <=> n <= c
             /\ later \in Seq(Priced) /\ Len(later) = Len(l) - c
             /\ \A m \in 1..Len(later) : later[m] = l[c + m]
             /\ HeldAfter(l, d) = PositionsAfter(l)[c]
<1> DEFINE c == CountUntil(l, d)
           later == Dated(l, d + 1, Beyond)
           some == Dated(l, 0, d)
<1>1. d \in Int /\ Beyond \in Int /\ \A e \in Day : e <= Beyond
  BY Days DEF Beyond
<1>2. c \in 0..Len(l) /\ \A n \in 1..Len(l) : l[n].date <= d <=> n <= c
  BY <1>1, UntilIsFirst
<1>3. CountUntil(l, Beyond) = Len(l)
  <2>1. /\ CountUntil(l, Beyond) \in 0..Len(l)
        /\ \A n \in 1..Len(l) : l[n].date <= Beyond <=> n <= CountUntil(l, Beyond)
    BY <1>1, UntilIsFirst
  <2>2. \A n \in 1..Len(l) : l[n].date <= Beyond
    <3>1. \A n \in 1..Len(l) : l[n] \in Priced
      OBVIOUS
    <3>. QED  BY <1>1, <3>1 DEF Priced, Entry
  <2>3. CASE Len(l) = 0
    BY <2>1, <2>3
  <2>4. CASE Len(l) # 0
    <3>1. Len(l) \in 1..Len(l)
      BY <2>4
    <3>. QED  BY <2>1, <2>2, <3>1
  <2>. QED  BY <2>3, <2>4
<1>4. later = SubSeq(l, c + 1, Len(l))
  <2>1. (d + 1) - 1 = d
    BY <1>1
  <2>. QED  BY <1>3, <2>1 DEF Dated
<1>. HIDE DEF c, later
<1>5. later \in Seq(Priced) /\ Len(later) = Len(l) - c /\ \A m \in 1..Len(later) : later[m] = l[c + m]
  BY <1>2, <1>4
<1>6. HeldAfter(l, d) = PositionsAfter(l)[c]
  <2>1. Len(some) = c /\ \A n \in 1..Len(some) : some[n] = l[n]
    BY <1>1, FirstTrades DEF c
  <2>2. PositionOf(some) = PositionsAfter(some)[c]
    BY <2>1 DEF PositionOf
  <2>3. PositionsAfter(l)[c] = PositionsAfter(some)[c]
    <3>. HIDE DEF some
    <3>. QED  BY <1>2, <2>1, SamePositions
  <2>. QED  BY <2>2, <2>3 DEF HeldAfter
<1>. QED  BY <1>2, <1>5, <1>6 DEF c, later

\* What the splits after the first trades make of a share, up to each trade.
LEMMA LaterFactors ==
  ASSUME NEW l \in Seq(Priced), InOrder(l), Derived(l), NEW d \in Day
  PROVE  LET c == CountUntil(l, d)
             later == Dated(l, d + 1, Beyond)
             opening == HeldAfter(l, d).quantity
             at == Factors(later, opening)
             held == PositionsAfter(l)
         IN  /\ at[0].factor = One
             /\ SplitFactor(later, opening) = at[Len(l) - c].factor
             /\ \A m \in 0..(Len(l) - c) : at[m].factor \in Exact
             /\ \A n \in (c + 1)..Len(l) :
                   at[n - c].factor
                      = IF l[n].kind = "Split"
                        THEN at[(n - 1) - c].factor
                               ** (Amount(held[n].quantity) // Amount(held[n - 1].quantity))
                        ELSE at[(n - 1) - c].factor
<1> DEFINE held == PositionsAfter(l)
<1>1. PICK c, later, opening : /\ c = CountUntil(l, d) /\ later = Dated(l, d + 1, Beyond)
                               /\ opening = HeldAfter(l, d).quantity
  OBVIOUS
<1>2. /\ c \in 0..Len(l) /\ Len(l) \in Nat /\ later \in Seq(Priced) /\ Len(later) = Len(l) - c
      /\ \A m \in 1..Len(later) : later[m] = l[c + m]
      /\ opening = held[c].quantity
  <2>1. LET x == CountUntil(l, d)
            y == Dated(l, d + 1, Beyond)
        IN  /\ x \in 0..Len(l) /\ y \in Seq(Priced) /\ Len(y) = Len(l) - x
            /\ \A m \in 1..Len(y) : y[m] = l[x + m]
            /\ HeldAfter(l, d) = held[x]
    BY LaterTrades
  <2>2. Len(l) \in Nat
    OBVIOUS
  <2>. HIDE DEF held
  <2>. QED  BY <1>1, <2>1, <2>2
<1>3. /\ \A n \in 0..Len(l) : held[n].quantity \in Nat
      /\ \A n \in 1..Len(l) :
            /\ l[n].kind = "Split" => held[n - 1].quantity > 0
            /\ held[n].quantity = IF l[n].kind = "Dividend" THEN held[n - 1].quantity
                                  ELSE held[n - 1].quantity + l[n].quantity
  BY HeldAlong
<1>. HIDE DEF held
<1>4. PICK k \in Nat : k = Len(l) - c /\ k = Len(later)
  <2>1. Len(l) - c \in Nat
    BY <1>2
  <2>. QED  BY <1>2, <2>1
<1>5. PICK at : at = Factors(later, opening)
  OBVIOUS
<1>6. FactorsUpTo(later, opening, k, at)
  <2>1. \E x : FactorsUpTo(later, opening, k, x)
    BY FactorsExist
  <2>. QED  BY <1>4, <1>5, <2>1 DEF Factors
<1>7. SplitFactor(later, opening) = at[k].factor
  BY <1>4, <1>5 DEF SplitFactor, Factors, FactorsUpTo, NextFactor
<1>8. /\ at[0] = [quantity |-> opening, factor |-> One]
      /\ \A m \in 1..k : at[m] = NextFactor(at[m - 1], later[m])
  BY <1>6 DEF FactorsUpTo
<1> DEFINE Good(m) == IsFactor(at[m], FALSE) /\ at[m].quantity = held[c + m].quantity
           Next1(m) == at[m].factor = IF l[c + m].kind = "Split"
                         THEN at[m - 1].factor
                                ** (Amount(held[c + m].quantity) // Amount(held[(c + m) - 1].quantity))
                         ELSE at[m - 1].factor
           Bad == {m \in 0..k : ~Good(m)}
<1>9. Good(0)
  <2>1. One \in Exact
    BY WholeIsExact DEF One
  <2>2. opening \in Int /\ c + 0 = c
    BY <1>2, <1>3
  <2>. QED  BY <1>2, <1>8, <2>1, <2>2 DEF IsFactor
<1>10. ASSUME NEW m \in 1..k, Good(m - 1)
       PROVE  Good(m) /\ Next1(m)
  <2>0. c + m \in Nat
    BY <1>2
  <2>1. PICK was, t, n : was = at[m - 1] /\ t = later[m] /\ n = c + m /\ n \in Nat
    BY <2>0
  <2>2. n \in 1..Len(l) /\ n - 1 \in 0..Len(l) /\ c + (m - 1) = n - 1 /\ t = l[n]
    BY <1>2, <1>4, <2>1
  <2>3. t \in Entry
    <3>1. t \in Priced
      BY <2>2
    <3>. QED  BY <3>1 DEF Priced
  <2>4. PICK q \in Nat : q = held[n - 1].quantity
    BY <1>3, <2>2
  <2>5. IsFactor(was, FALSE) /\ was.quantity = q
    BY <1>10, <2>1, <2>2, <2>4
  <2>6. /\ t.kind = "Split" => q > 0
        /\ held[n].quantity = IF t.kind = "Dividend" THEN q ELSE q + t.quantity
    BY <1>3, <2>2, <2>4
  <2>7. /\ NextFactor(was, t).quantity = IF t.kind = "Dividend" THEN q ELSE q + t.quantity
        /\ NextFactor(was, t).factor = IF t.kind = "Split"
                                       THEN was.factor ** (Amount(q + t.quantity) // Amount(q))
                                       ELSE was.factor
    BY <2>3, <2>5, <2>6, FactorNext
  <2>8. IsFactor(NextFactor(was, t), FALSE)
    BY <2>3, <2>5, FactorStep
  <2>9. at[m] = NextFactor(was, t)
    BY <1>8, <2>1
  <2>10. Good(m)
    BY <2>1, <2>6, <2>7, <2>8, <2>9
  <2>11. t.kind = "Split" => held[n].quantity = q + t.quantity
    BY <2>6
  <2>12. Next1(m)
    BY <2>1, <2>2, <2>4, <2>7, <2>9, <2>11
  <2>. QED  BY <2>10, <2>12
<1>11. Bad = {}
  <2>. HIDE DEF Good, Next1
  <2>1. 0 \notin Bad
    BY <1>9
  <2>2. ASSUME NEW m \in Bad, m - 1 \notin Bad  PROVE FALSE
    <3>1. m \in 1..k /\ m - 1 \in 0..k
      BY <2>1
    <3>. QED  BY <1>10, <2>2, <3>1
  <2>3. Bad \in SUBSET Nat
    OBVIOUS
  <2>. HIDE DEF Bad
  <2>. QED  BY <2>1, <2>2, <2>3, EveryPlace
<1>12. \A m \in 0..k : Good(m)
  BY <1>11
<1>13. \A m \in 1..k : Next1(m)
  <2>. HIDE DEF Good, Next1
  <2>1. \A m \in 1..k : m - 1 \in 0..k
    OBVIOUS
  <2>. QED  BY <1>10, <1>12, <2>1
<1>14. at[0].factor = One /\ \A m \in 0..k : at[m].factor \in Exact
  <2>1. \A m \in 0..k : IsFactor(at[m], FALSE)
    BY <1>12
  <2>2. \A x : IsFactor(x, FALSE) => x.factor \in Exact
    BY DEF IsFactor
  <2>3. at[0].factor = One
    BY <1>8
  <2>. QED  BY <2>1, <2>2, <2>3
<1>15. ASSUME NEW n \in (c + 1)..Len(l)
       PROVE  at[n - c].factor
                = IF l[n].kind = "Split"
                  THEN at[(n - 1) - c].factor
                         ** (Amount(held[n].quantity) // Amount(held[n - 1].quantity))
                  ELSE at[(n - 1) - c].factor
  <2>1. PICK m \in 1..k : m = n - c
    BY <1>2, <1>4
  <2>2. c + m = n /\ (n - 1) - c = m - 1 /\ (c + m) - 1 = n - 1
    BY <1>2, <2>1
  <2>3. Next1(m)
    BY <1>13
  <2>. QED  BY <2>1, <2>2, <2>3
<1>. QED  BY <1>1, <1>4, <1>5, <1>7, <1>14, <1>15 DEF held

\* What the splits after a day have made of a share is the factor of the trades
\* after it.
LEMMA GrowthIsFactor ==
  ASSUME BooksDerive, NEW i \in Instrument, NEW d \in Day
  PROVE  /\ GrownBy(i, d) = SplitFactor(Dated(ledger[i], d + 1, Beyond),
                                        HeldAfter(ledger[i], d).quantity)
         /\ GrownBy(i, d) \in Exact
<1> DEFINE held == PositionsAfter(ledger[i])
           part(n) == Amount(held[n].quantity) // Amount(held[n - 1].quantity)
           grows(n) == ledger[i][n].kind = "Split" /\ ledger[i][n].date > d
           Grown(g) == g = [n \in 0..Len(ledger[i]) |->
                              CASE n = 0 -> One
                                [] n > 0 /\ ledger[i][n].kind = "Split" /\ ledger[i][n].date > d ->
                                       g[n - 1] ** part(n)
                                [] OTHER -> g[n - 1]]
<1>1. GrownBy(i, d) = (CHOOSE g : Grown(g))[Len(ledger[i])]
  BY DEF GrownBy
<1>2. PICK l : l = ledger[i]
  OBVIOUS
<1>3. /\ l \in Seq(Priced) /\ InOrder(l) /\ Derived(l) /\ Len(l) \in Nat
      /\ \A n \in 1..Len(l) : l[n].date \in Int
  <2>1. l \in Seq(Priced) /\ InOrder(l) /\ Derived(l)
    BY <1>2 DEF BooksDerive
  <2>2. \A n \in 1..Len(l) : l[n] \in Priced
    BY <2>1
  <2>. QED  BY <2>1, <2>2, Days DEF Priced, Entry
<1>4. PICK c, at, k : /\ c = CountUntil(l, d) /\ k = Len(l)
                      /\ at = Factors(Dated(l, d + 1, Beyond), HeldAfter(l, d).quantity)
  OBVIOUS
<1>5. c \in 0..k /\ k \in Nat /\ \A n \in 1..k : l[n].date <= d <=> n <= c
  BY <1>3, <1>4, LaterTrades
<1>6. /\ at[0].factor = One
      /\ SplitFactor(Dated(l, d + 1, Beyond), HeldAfter(l, d).quantity) = at[k - c].factor
      /\ \A m \in 0..(k - c) : at[m].factor \in Exact
      /\ \A n \in (c + 1)..k :
            at[n - c].factor = IF l[n].kind = "Split" THEN at[(n - 1) - c].factor ** part(n)
                               ELSE at[(n - 1) - c].factor
  <2>. HIDE DEF held
  <2>1. LET x == CountUntil(l, d)
            later == Dated(l, d + 1, Beyond)
            opening == HeldAfter(l, d).quantity
            f == Factors(later, opening)
            h == PositionsAfter(l)
        IN  /\ f[0].factor = One
            /\ SplitFactor(later, opening) = f[Len(l) - x].factor
            /\ \A m \in 0..(Len(l) - x) : f[m].factor \in Exact
            /\ \A n \in (x + 1)..Len(l) :
                  f[n - x].factor
                     = IF l[n].kind = "Split"
                       THEN f[(n - 1) - x].factor
                              ** (Amount(h[n].quantity) // Amount(h[n - 1].quantity))
                       ELSE f[(n - 1) - x].factor
    BY <1>3, LaterFactors
  <2>2. PositionsAfter(l) = held
    BY <1>2 DEF held
  <2>. QED  BY <1>4, <2>1, <2>2
<1>. HIDE DEF part
<1> DEFINE mine == [n \in 0..k |-> IF n <= c THEN One ELSE at[n - c].factor]
<1>7. \A n \in 0..k : mine[n] = IF n <= c THEN One ELSE at[n - c].factor
  OBVIOUS
<1>8. mine[0] = One
  BY <1>5, <1>7
<1>9. ASSUME NEW n \in 1..k
      PROVE  mine[n] = IF grows(n) THEN mine[n - 1] ** part(n) ELSE mine[n - 1]
  <2>. HIDE DEF mine
  <2>1. n - 1 \in 0..k /\ n \in 0..k /\ n \in Nat /\ d \in Int
    BY <1>5, Days
  <2>2. CASE n <= c
    <3>1. ~grows(n) /\ n - 1 <= c
      BY <1>2, <1>3, <1>4, <1>5, <2>1, <2>2
    <3>. QED  BY <1>7, <2>1, <2>2, <3>1
  <2>3. CASE ~(n <= c)
    <3>1. grows(n) <=> l[n].kind = "Split"
      BY <1>2, <1>3, <1>4, <1>5, <2>1, <2>3
    <3>2. mine[n - 1] = at[(n - 1) - c].factor
      <4>1. CASE n - 1 <= c
        <5>1. (n - 1) - c = 0
          BY <1>5, <2>1, <2>3, <4>1
        <5>. QED  BY <1>6, <1>7, <2>1, <4>1, <5>1
      <4>2. CASE ~(n - 1 <= c)
        BY <1>7, <2>1, <4>2
      <4>. QED  BY <4>1, <4>2
    <3>3. n \in (c + 1)..k
      BY <1>5, <2>1, <2>3
    <3>4. mine[n] = at[n - c].factor
      BY <1>7, <2>1, <2>3
    <3>. HIDE DEF grows
    <3>. QED  BY <1>6, <3>1, <3>2, <3>3, <3>4
  <2>. QED  BY <2>2, <2>3
<1>10. Grown(mine)
  <2>1. mine = [n \in 0..k |-> mine[n]]
    OBVIOUS
  <2>. HIDE DEF mine
  <2>2. \A n \in 0..k : mine[n] = CASE n = 0 -> One
                                    [] n > 0 /\ ledger[i][n].kind = "Split" /\ ledger[i][n].date > d ->
                                           mine[n - 1] ** part(n)
                                    [] OTHER -> mine[n - 1]
    BY <1>5, <1>8, <1>9
  <2>. QED  BY <1>2, <1>4, <2>1, <2>2
<1>11. PICK g : g = (CHOOSE x : Grown(x)) /\ Grown(g)
  <2>. HIDE DEF Grown, mine
  <2>. QED  BY <1>10
<1>12. g[0] = One /\ \A n \in 1..k : g[n] = IF grows(n) THEN g[n - 1] ** part(n) ELSE g[n - 1]
  BY <1>2, <1>4, <1>5, <1>11
<1>13. \A n \in 0..k : g[n] = mine[n]
  <2>. HIDE DEF mine, grows, Grown
  <2> DEFINE Bad == {n \in 0..k : g[n] # mine[n]}
  <2>1. 0 \notin Bad
    BY <1>8, <1>12
  <2>2. ASSUME NEW n \in Bad, n - 1 \notin Bad  PROVE FALSE
    <3>1. n \in 1..k /\ n - 1 \in 0..k
      BY <1>5, <2>1
    <3>2. g[n - 1] = mine[n - 1]
      BY <2>2, <3>1
    <3>. QED  BY <1>9, <1>12, <2>2, <3>1, <3>2
  <2>3. Bad \in SUBSET Nat
    BY <1>5
  <2>4. Bad = {}
    <3>. HIDE DEF Bad
    <3>. QED  BY <2>1, <2>2, <2>3, EveryPlace
  <2>. QED  BY <2>4
<1>14. mine[k] = at[k - c].factor
  <2>1. k \in 0..k
    BY <1>5
  <2>2. CASE k <= c
    <3>1. k - c = 0
      BY <1>5, <2>2
    <3>. QED  BY <1>6, <1>7, <2>1, <2>2, <3>1
  <2>3. CASE ~(k <= c)
    BY <1>7, <2>1, <2>3
  <2>. QED  BY <2>2, <2>3
<1>15. g[k] = at[k - c].factor /\ at[k - c].factor \in Exact
  <2>1. k \in 0..k /\ k - c \in 0..(k - c)
    BY <1>5
  <2>. QED  BY <1>6, <1>13, <1>14, <2>1
<1>. QED
  <2>. HIDE DEF Grown, mine, held
  <2>. QED  BY <1>1, <1>2, <1>4, <1>6, <1>11, <1>15

-----------------------------------------------------------------------------
(* What the shares of a day are worth.                                         *)

LEMMA SharesAre ==
  ASSUME BooksDerive, NEW i \in Instrument, NEW d \in Day
  PROVE  LET p == PositionOf(Until(i, d))
         IN  /\ HeldAfter(ledger[i], d) = p /\ PositionIs(p) /\ p.quantity \in Nat
             /\ SharesOn(i, d) = Amount(p.quantity) ** GrownBy(i, d)
             /\ SharesOn(i, d) \in Exact
             /\ \A inst : inst.ledger = ledger[i] => Adjusted(inst, d) = SharesOn(i, d)
<1>1. PICK p : p = PositionOf(Until(i, d))
  OBVIOUS
<1>2. HeldAfter(ledger[i], d) = p
  BY <1>1 DEF HeldAfter, Until
<1>3. PositionIs(p) /\ p.quantity \in Nat
  <2>1. MoneyAt(Until(i, d), Len(Until(i, d)))
    BY BackIs
  <2>2. PositionIs(p)
    BY <1>1, <2>1 DEF MoneyAt, PositionOf
  <2>. QED  BY <2>2 DEF PositionIs, IsPosition
<1>4. SharesOn(i, d) = Amount(p.quantity) ** GrownBy(i, d)
  BY <1>1 DEF SharesOn
<1>5. GrownBy(i, d) \in Exact
      /\ GrownBy(i, d) = SplitFactor(Dated(ledger[i], d + 1, Beyond), p.quantity)
  BY <1>2, GrowthIsFactor
<1>6. SharesOn(i, d) \in Exact
  <2>1. PICK n \in Int : n = p.quantity
    BY <1>3
  <2>2. Amount(n) \in Exact
    BY WholeIsExact
  <2>. QED  BY <1>4, <1>5, <2>1, <2>2, TimesExact
<1>7. ASSUME NEW inst, inst.ledger = ledger[i]
      PROVE  Adjusted(inst, d) = SharesOn(i, d)
  BY <1>2, <1>4, <1>5, <1>7 DEF Adjusted
<1>. QED  BY <1>1, <1>2, <1>3, <1>4, <1>6, <1>7

\* The rate of a day, if there is one.
Rated(i, d) == IsHome(i) \/ RateAt(i, d) # None
RateOn(i, d) == IF IsHome(i) THEN One ELSE FxAt(i, d)

LEMMA RatesAre ==
  ASSUME BooksDerive, NEW i \in Instrument, NEW d \in Day
  PROVE  /\ Rated(i, d) => RateOn(i, d) \in Exact
         /\ ~IsHome(i) => RateAt(i, d) = LatestOnOrBefore(rates, d)
         /\ PriceAt(i, d) # None => CloseAt(i, d) = PriceAt(i, d).close /\ CloseAt(i, d) \in Exact
<1>1. Found(PriceAt(i, d)) /\ Found(RateAt(i, d))
  BY FoundPrices
<1>2. One \in Exact
  BY WholeIsExact DEF One
<1>. QED  BY <1>1, <1>2 DEF Rated, RateOn, RateAt, FxAt, CloseAt, Found

LEMMA ValueIs ==
  ASSUME BooksDerive, NEW i \in Instrument, NEW d \in Day
  PROVE  IF PriceAt(i, d) # None /\ Rated(i, d)
         THEN /\ ValueOn(i, d) = Known((SharesOn(i, d) ** CloseAt(i, d)) ** RateOn(i, d))
              /\ ValueOn(i, d).known /\ ValueOn(i, d).value \in Exact
              /\ ValueOn(i, d).value = (SharesOn(i, d) ** CloseAt(i, d)) ** RateOn(i, d)
         ELSE ValueOn(i, d) = Unknown({}) /\ ~ValueOn(i, d).known
<1>1. CASE PriceAt(i, d) # None /\ Rated(i, d)
  <2>1. ValueOn(i, d) = Known((SharesOn(i, d) ** CloseAt(i, d)) ** RateOn(i, d))
    BY <1>1 DEF ValueOn, Rated, RateOn
  <2>2. (SharesOn(i, d) ** CloseAt(i, d)) ** RateOn(i, d) \in Exact
    <3>1. SharesOn(i, d) \in Exact /\ CloseAt(i, d) \in Exact /\ RateOn(i, d) \in Exact
      BY <1>1, SharesAre, RatesAre
    <3>2. SharesOn(i, d) ** CloseAt(i, d) \in Exact
      BY <3>1, TimesExact
    <3>. QED  BY <3>1, <3>2, TimesExact
  <2>. QED  BY <1>1, <2>1, <2>2 DEF Known
<1>2. CASE ~(PriceAt(i, d) # None /\ Rated(i, d))
  <2>1. ValueOn(i, d) = Unknown({})
    BY <1>2 DEF ValueOn, Rated
  <2>. QED  BY <1>2, <2>1 DEF Unknown
<1>. QED  BY <1>1, <1>2

\* The value history reads an instrument as the report does.
LEMMA CarriedIs ==
  ASSUME BooksDerive, NEW i \in Instrument, ledger[i] # <<>>, NEW d \in Day
  PROVE  /\ i \in DOMAIN HistoryInputs
         /\ LET inst == HistoryInputs[i]
            IN  /\ inst.ledger = ledger[i] /\ (inst.home <=> IsHome(i)) /\ inst.home \in BOOLEAN
                /\ inst.series = SeriesOf(i) /\ inst.rates = rates
                /\ CarriedValue(inst, d) = ValueOn(i, d)
<1>1. PICK inst : inst = HistoryInputs[i]
  OBVIOUS
<1>2. inst = [ledger |-> ledger[i], home |-> IsHome(i), series |-> SeriesOf(i), rates |-> rates]
  BY <1>1 DEF HistoryInputs, SeriesOf
<1>3. /\ inst.ledger = ledger[i] /\ inst.home = IsHome(i) /\ inst.home \in BOOLEAN
      /\ inst.series = SeriesOf(i) /\ inst.rates = rates
  BY <1>2 DEF IsHome
<1>4. Adjusted(inst, d) = SharesOn(i, d)
  BY <1>3, SharesAre
<1> DEFINE closes == {e \in DOMAIN inst.series : e <= d}
           found == LatestOnOrBefore(inst.rates, d)
<1>5. closes = ClosesTo(i, d)
  BY <1>3 DEF ClosesTo
<1>6. PriceAt(i, d) = IF closes = {} THEN None ELSE SeriesOf(i)[Latest(closes)]
  BY <1>5, PricesOfSeries
<1>7. closes # {} => PriceAt(i, d) # None /\ CloseAt(i, d) = inst.series[Latest(closes)].close
  <2>. SUFFICES ASSUME closes # {}
                PROVE  PriceAt(i, d) # None /\ CloseAt(i, d) = inst.series[Latest(closes)].close
    OBVIOUS
  <2>1. closes \in SUBSET DOMAIN SeriesOf(i) /\ closes \in SUBSET Day
    BY <1>3, PricesOfSeries
  <2>2. Latest(closes) \in DOMAIN SeriesOf(i)
    <3>. HIDE DEF closes
    <3>. QED  BY <2>1, LatestIsLast
  <2>. HIDE DEF closes
  <2>. QED  BY <1>3, <1>6, <2>2, PricesOfSeries DEF CloseAt
<1>8. CarriedValue(inst, d)
        = IF closes = {} \/ (~inst.home /\ found = None) THEN Unknown({})
          ELSE Known((Adjusted(inst, d) ** inst.series[Latest(closes)].close)
                        ** (IF inst.home THEN One ELSE found.close))
  BY DEF CarriedValue
<1>9. ~IsHome(i) => RateAt(i, d) = found /\ (found # None => FxAt(i, d) = found.close)
  BY <1>3 DEF RateAt, FxAt
<1>10. ValueOn(i, d)
        = IF PriceAt(i, d) = None \/ (~IsHome(i) /\ RateAt(i, d) = None) THEN Unknown({})
          ELSE Known((SharesOn(i, d) ** CloseAt(i, d)) ** (IF IsHome(i) THEN One ELSE FxAt(i, d)))
  BY DEF ValueOn
<1>11. CarriedValue(inst, d) = ValueOn(i, d)
  <2>. HIDE DEF closes, found
  <2>1. CASE closes = {} \/ (~inst.home /\ found = None)
    BY <1>3, <1>6, <1>8, <1>9, <1>10, <2>1
  <2>2. CASE closes # {} /\ inst.home
    BY <1>3, <1>4, <1>7, <1>8, <1>10, <2>2
  <2>3. CASE closes # {} /\ ~inst.home /\ found # None
    BY <1>3, <1>4, <1>7, <1>8, <1>9, <1>10, <2>3
  <2>. QED  BY <1>3, <2>1, <2>2, <2>3
<1>12. i \in DOMAIN HistoryInputs
  BY DEF HistoryInputs
<1>. QED  BY <1>1, <1>3, <1>11, <1>12

\* What the holdings list shows of a position that has a price.
LEMMA HeldMarket ==
  ASSUME NEW p, p.quantity \in Int, NEW home \in BOOLEAN, NEW today, NEW latest, NEW previous,
         NEW latestRate, NEW previousRate, latest # None
  PROVE  LET v == ValuePosition(p, home, today, latest, previous, latestRate, previousRate)
         IN  /\ v.native.known /\ v.native.value = latest.close ** Amount(p.quantity)
             /\ home \/ latestRate # None => v.market.known
<1> DEFINE v == ValuePosition(p, home, today, latest, previous, latestRate, previousRate)
           price == Known(latest)
           fx == FxSnapshot(home, today, latestRate, "missing_fx")
           native == Times(CloseOf(price), Known(Amount(p.quantity)))
           market == Times(native, RateOf(fx))
<1>1. v.native = native /\ v.market = market
  BY DEF ValuePosition
<1>2. CloseOf(price) = Known(latest.close)
  BY DEF CloseOf, Known
<1>3. native = Known(latest.close ** Amount(p.quantity))
  <2>1. PICK f, g : f = Known(latest.close) /\ g = Known(Amount(p.quantity))
    OBVIOUS
  <2>2. f.known /\ g.known /\ f.value = latest.close /\ g.value = Amount(p.quantity)
    BY <2>1 DEF Known
  <2>3. Times(f, g) = Known(f.value ** g.value)
    BY <2>2 DEF Times
  <2>. QED  BY <1>2, <2>1, <2>2, <2>3
<1>4. native.known /\ native.value = latest.close ** Amount(p.quantity)
  BY <1>3 DEF Known
<1>5. ASSUME home \/ latestRate # None  PROVE RateOf(fx).known
  <2>1. CASE home
    <3>1. fx = Known([date |-> today, rate |-> One])
      BY <2>1 DEF FxSnapshot
    <3>. HIDE DEF fx
    <3>. QED  BY <3>1 DEF RateOf, Known
  <2>2. CASE ~home
    <3>1. fx = Known([date |-> latestRate.date, rate |-> latestRate.close])
      BY <1>5, <2>2 DEF FxSnapshot
    <3>. HIDE DEF fx
    <3>. QED  BY <3>1 DEF RateOf, Known
  <2>. QED  BY <2>1, <2>2
<1>. HIDE DEF native, fx, v
<1>6. native.known /\ RateOf(fx).known => market.known
  BY DEF Times, Known
<1>. HIDE DEF market
<1>. QED  BY <1>1, <1>4, <1>5, <1>6 DEF v

\* No trade is later than the last day.
LEMMA LastShares ==
  ASSUME BooksDerive, NEW i \in Instrument
  PROVE  /\ LastDay \in Day
         /\ PositionOf(Until(i, LastDay)) = PositionOf(ledger[i])
         /\ GrownBy(i, LastDay) = One
<1>1. LastDay \in Day
  BY Days
<1>2. PICK l, d, c, later : /\ l = ledger[i] /\ d = LastDay /\ c = CountUntil(l, d)
                            /\ later = Dated(l, d + 1, Beyond)
  OBVIOUS
<1>3. l \in Seq(Priced) /\ InOrder(l) /\ Derived(l) /\ Len(l) \in Nat /\ d \in Day
  BY <1>1, <1>2 DEF BooksDerive
<1>4. /\ c \in 0..Len(l) /\ \A n \in 1..Len(l) : l[n].date <= d <=> n <= c
      /\ later \in Seq(Priced) /\ Len(later) = Len(l) - c
      /\ HeldAfter(l, d) = PositionsAfter(l)[c]
  <2>1. LET x == CountUntil(l, d)
            y == Dated(l, d + 1, Beyond)
        IN  /\ x \in 0..Len(l) /\ \A n \in 1..Len(l) : l[n].date <= d <=> n <= x
            /\ y \in Seq(Priced) /\ Len(y) = Len(l) - x
            /\ HeldAfter(l, d) = PositionsAfter(l)[x]
    BY <1>3, LaterTrades
  <2>. QED  BY <1>2, <2>1
<1>5. c = Len(l)
  <2>1. \A n \in 1..Len(l) : l[n].date <= d
    <3>1. \A n \in 1..Len(l) : l[n] \in Priced
      BY <1>3
    <3>. QED  BY <1>2, <3>1, Days DEF Priced, Entry
  <2>2. CASE Len(l) = 0
    BY <1>4, <2>2
  <2>3. CASE Len(l) # 0
    <3>1. Len(l) \in 1..Len(l)
      BY <1>3, <2>3
    <3>. QED  BY <1>4, <2>1, <3>1
  <2>. QED  BY <2>2, <2>3
<1>6. HeldAfter(l, d) = PositionOf(l)
  BY <1>4, <1>5 DEF PositionOf
<1>7. HeldAfter(l, d) = PositionOf(Until(i, d))
  BY <1>2 DEF HeldAfter, Until
<1>8. GrownBy(i, d) = One
  <2>1. PICK opening \in Int, plain \in BOOLEAN : opening = HeldAfter(l, d).quantity /\ plain
    <3>1. HeldAfter(l, d).quantity \in Int
      BY <1>2, <1>3, SharesAre
    <3>. QED  BY <3>1
  <2>2. Len(later) = 0
    BY <1>3, <1>4, <1>5
  <2>3. SplitFactor(later, opening) = One
    <3>1. later \in Seq(Priced) /\ \A n \in 1..Len(later) : later[n].kind # "Split"
      BY <1>4, <2>2
    <3>. QED  BY <2>1, <3>1, SplitFactorIs
  <2>. QED  BY <1>2, <1>3, <2>1, <2>3, GrowthIsFactor
<1>. QED  BY <1>1, <1>2, <1>6, <1>7, <1>8

\* What a holding is worth is what its shares are worth on the last day.
LEMMA HoldingIs ==
  ASSUME BooksDerive, NEW i \in Instrument, PriceAt(i, LastDay) # None
  PROVE  LET p == PositionOf(ledger[i])
             v == Holding(i, LastDay)
         IN  /\ PositionIs(p) /\ p.quantity \in Nat /\ CloseAt(i, LastDay) \in Exact
             /\ v.native.known /\ v.native.value = CloseAt(i, LastDay) ** Amount(p.quantity)
             /\ Rated(i, LastDay) => v.market.known /\ v.market.value = ValueOn(i, LastDay).value
<1>1. PICK p : p = PositionOf(ledger[i])
  OBVIOUS
<1>2. /\ PositionIs(p) /\ p.quantity \in Nat /\ LastDay \in Day
      /\ SharesOn(i, LastDay) = Amount(p.quantity) ** One
  BY <1>1, LastShares, SharesAre
<1>3. PICK home \in BOOLEAN : home = IsHome(i)
  BY DEF IsHome
<1>4. PICK latest, row : latest = PriceAt(i, LastDay) /\ row = RateAt(i, LastDay)
  OBVIOUS
<1>5. PICK before, rateBefore :
         /\ before = IF latest = None THEN None
                     ELSE EffectivePrevious(RowsOf(i), EnabledOf(i), latest.date)
         /\ rateBefore = IF row = None THEN None ELSE PreviousBefore(rates, row.date)
  OBVIOUS
<1>6. PICK v : v = Holding(i, LastDay)
  OBVIOUS
<1>7. v = ValuePosition(p, home, LastDay, latest, before, row, rateBefore)
  BY <1>1, <1>3, <1>4, <1>5, <1>6 DEF Holding, Valued
<1>8. /\ v.native.known /\ v.native.value = latest.close ** Amount(p.quantity)
      /\ home \/ row # None => v.market.known
  <2>1. p.quantity \in Int /\ latest # None
    BY <1>2, <1>4
  <2>. QED  BY <1>7, <2>1, HeldMarket
<1>9. CloseAt(i, LastDay) = latest.close /\ CloseAt(i, LastDay) \in Exact
  BY <1>2, <1>4, RatesAre
<1>10. ASSUME Rated(i, LastDay)
       PROVE  v.market.known /\ v.market.value = ValueOn(i, LastDay).value
  <2>1. v.market.known
    BY <1>3, <1>4, <1>8, <1>10 DEF Rated
  <2>2. /\ Amount(p.quantity) \in Exact
        /\ v.market.value = (CloseAt(i, LastDay) ** Amount(p.quantity)) ** RateOn(i, LastDay)
    <3>1. Valued(i, p, LastDay) = v
      BY <1>1, <1>6 DEF Holding
    <3>2. LET rate == IF home THEN One ELSE FxAt(i, LastDay)
              close == CloseAt(i, LastDay)
          IN  /\ close \in Exact /\ rate \in Exact /\ Amount(p.quantity) \in Exact
              /\ Valued(i, p, LastDay).market.value = (close ** Amount(p.quantity)) ** rate
      BY <1>2, <1>3, <2>1, <3>1, MarketOfLine
    <3>. QED  BY <1>3, <3>1, <3>2 DEF RateOn
  <2>3. ValueOn(i, LastDay).value
          = (SharesOn(i, LastDay) ** CloseAt(i, LastDay)) ** RateOn(i, LastDay)
    BY <1>2, <1>10, ValueIs
  <2>4. SharesOn(i, LastDay) = Amount(p.quantity)
    BY <1>2, <2>2, ZeroLaws
  <2>5. Amount(p.quantity) ** CloseAt(i, LastDay) = CloseAt(i, LastDay) ** Amount(p.quantity)
    BY <1>9, <2>2, TimesLaws
  <2>. QED  BY <2>1, <2>2, <2>3, <2>4, <2>5
<1>. QED  BY <1>1, <1>2, <1>6, <1>8, <1>9, <1>10

-----------------------------------------------------------------------------
(* What was invested.                                                          *)

\* What was invested up to a day is the money that did not come back.
LEMMA InvestedIs ==
  ASSUME BooksDerive, NEW i \in Instrument, NEW d \in Day, InKronor(i, d),
         NEW inst, inst.ledger = ledger[i], inst.home = IsHome(i),
         \A n \in DOMAIN ledger[i] :
            Invests(ledger[i][n]) /\ ledger[i][n].date <= d => Rate(ledger[i][n], inst.home) # None
  PROVE  InvestedBy(inst, d) = Zero -- MoneyBack(i, d) /\ MoneyBack(i, d) \in Exact
<1>1. PICK l, u, c, home : /\ l = ledger[i] /\ u = Until(i, d) /\ c = CountUntil(l, d)
                           /\ home = inst.home
  OBVIOUS
<1>2. l \in Seq(Priced) /\ InOrder(l) /\ Derived(l) /\ Len(l) \in Nat /\ DOMAIN l = 1..Len(l)
      /\ d \in Int
  BY <1>1, Days DEF BooksDerive
<1>3. /\ c \in 0..Len(l) /\ \A n \in 1..Len(l) : l[n].date <= d <=> n <= c
      /\ u \in Seq(Priced) /\ Len(u) = c /\ \A n \in 1..c : u[n] = l[n]
      /\ DOMAIN u = 1..c
  <2>1. c \in 0..Len(l) /\ \A n \in 1..Len(l) : l[n].date <= d <=> n <= c
    BY <1>1, <1>2, UntilIsFirst
  <2>2. Dated(l, 0, d) = u
    BY <1>1 DEF Until
  <2>3. u \in Seq(Priced) /\ Len(u) = c /\ \A n \in 1..Len(u) : u[n] = l[n]
    BY <1>1, <1>2, <2>2, FirstTrades
  <2>. QED  BY <2>1, <2>3
<1>4. MoneyBack(i, d) = SumOver(Back(u), InvestedUpTo(u, c))
  BY <1>1, <1>3, BackIs
<1> DEFINE S == {n \in DOMAIN l : Invests(l[n]) /\ l[n].date <= d /\ Rate(l[n], home) # None}
           f == [n \in S |-> Flow(l[n], Rate(l[n], home), One)]
<1>5. S = InvestedUpTo(u, c)
  BY <1>1, <1>2, <1>3 DEF InvestedUpTo
<1>6. InvestedBy(inst, d) = SumOver(f, S)
  BY <1>1 DEF InvestedBy, TotalAt
<1>7. IsFiniteSet(S)
  <2>. HIDE DEF S
  <2>1. S \in SUBSET (1..c)
    BY <1>5 DEF InvestedUpTo
  <2>2. c \in Int
    BY <1>2, <1>3
  <2>3. IsFiniteSet(1..c)
    BY <2>2, FS_Interval
  <2>. QED  BY <2>1, <2>3, FS_Subset
<1>8. ASSUME NEW n \in S
      PROVE  Back(u)[n] \in Exact /\ f[n] = Zero -- Back(u)[n]
  <2>1. PICK t : t = l[n]
    OBVIOUS
  <2>2. /\ n \in 1..c /\ u[n] = t /\ t \in Priced /\ Invests(t) /\ Rate(t, home) # None
        /\ f[n] = Flow(t, Rate(t, home), One)
    BY <1>1, <1>2, <1>3, <2>1
  <2>3. t.fx # None /\ Rate(t, home) = t.fx
    <3>1. IsHome(i) => t.fx = One
      BY <1>1, <1>3, <2>2 DEF InKronor
    <3>2. CASE home
      <4>1. Rate(t, home) = One
        BY <3>2 DEF Rate
      <4>. QED  BY <1>1, <2>2, <3>1, <3>2, <4>1
    <3>3. CASE ~home
      <4>1. Rate(t, home) = t.fx
        BY <3>3 DEF Rate
      <4>. QED  BY <2>2, <4>1
    <3>. QED  BY <3>2, <3>3
  <2>4. Gross(t) \in Exact /\ PaidFor(t) \in Exact
    BY <2>2, <2>3, TradeAmounts
  <2>5. f[n] = PaidFor(t)
    <3>1. Gross(t) ** One = Gross(t)
      BY <2>4, ZeroLaws
    <3>2. f[n] = (Gross(t) ** One) ** t.fx ++ t.brokerage
      BY <2>2, <2>3 DEF Flow, Invests
    <3>. QED  BY <3>1, <3>2 DEF PaidFor
  <2>6. Back(u)[n] = Zero -- PaidFor(t)
    BY <1>3, <2>2 DEF Back
  <2>. HIDE DEF f
  <2>7. Zero -- PaidFor(t) \in Exact
    BY <2>4, ZeroLaws
  <2>. QED  BY <2>4, <2>5, <2>6, <2>7, TurnedTwice
<1>. HIDE DEF S, f
<1>9. Amounts(Back(u), S)
  BY <1>7, <1>8 DEF Amounts
<1>10. SumOver(f, S) = Zero -- SumOver(Back(u), S) /\ SumOver(Back(u), S) \in Exact
  BY <1>8, <1>9, SumOverNegated, SumOverExact
<1>. QED  BY <1>4, <1>5, <1>6, <1>10

\* A history's instruments are those with trades; nothing came back of others.
LEMMA AllInvestedIs ==
  ASSUME BooksDerive, NEW d \in Day, \A i \in Instrument : InKronor(i, d),
         ~InvestedUnknown(HistoryInputs, d)
  PROVE  Total(LAMBDA inst : InvestedBy(inst, d), HistoryInputs)
            = Zero -- SumOver([i \in Instrument |-> MoneyBack(i, d)], Instrument)
<1> DEFINE S == DOMAIN HistoryInputs
           f == [i \in S |-> InvestedBy(HistoryInputs[i], d)]
           g == [i \in Instrument |-> MoneyBack(i, d)]
<1>1. Total(LAMBDA inst : InvestedBy(inst, d), HistoryInputs) = SumOver(f, S)
  BY DEF Total, TotalAt
<1>2. S = {i \in Instrument : ledger[i] # <<>>}
  BY DEF HistoryInputs
<1>3. IsFiniteSet(Instrument) /\ IsFiniteSet(S)
  <2>1. IsFiniteSet({} \cup {Home}) /\ IsFiniteSet(({} \cup {Home}) \cup {Foreign})
    BY FS_EmptySet, FS_AddElement
  <2>2. Instrument = ({} \cup {Home}) \cup {Foreign}
    BY DEF Instrument
  <2>3. IsFiniteSet(Instrument)
    BY <2>1, <2>2
  <2>. QED  BY <1>2, <2>3, FS_Subset
<1>4. ASSUME NEW i \in S
      PROVE  f[i] = Zero -- g[i] /\ g[i] \in Exact
  <2>1. i \in Instrument /\ ledger[i] # <<>>
    BY <1>2
  <2>2. PICK inst : inst = HistoryInputs[i]
    OBVIOUS
  <2>3. inst.ledger = ledger[i] /\ inst.home = IsHome(i)
    BY <1>2, <2>2 DEF HistoryInputs
  <2>4. \A n \in DOMAIN ledger[i] :
           Invests(ledger[i][n]) /\ ledger[i][n].date <= d => Rate(ledger[i][n], inst.home) # None
    BY <2>2, <2>3 DEF InvestedUnknown
  <2>5. InvestedBy(inst, d) = Zero -- MoneyBack(i, d) /\ MoneyBack(i, d) \in Exact
    BY <2>1, <2>3, <2>4, InvestedIs
  <2>. QED  BY <2>1, <2>2, <2>5
<1>5. ASSUME NEW i \in Instrument \ S
      PROVE  g[i] = Zero
  <2>1. ledger[i] = <<>> /\ i \in Instrument
    BY <1>2
  <2>2. PICK u : u = Until(i, d)
    OBVIOUS
  <2>3. Len(u) = 0
    <3>1. PICK l \in Seq(Priced) : l = ledger[i] /\ InOrder(l) /\ Derived(l)
      BY <2>1 DEF BooksDerive
    <3>2. d \in Int
      BY Days
    <3>3. Len(Dated(l, 0, d)) <= Len(l) /\ Dated(l, 0, d) \in Seq(Priced)
      BY <3>1, <3>2, FirstTrades
    <3>4. Len(l) = 0
      BY <2>1, <3>1
    <3>. QED  BY <2>2, <3>1, <3>3, <3>4 DEF Until
  <2>4. InvestedUpTo(u, Len(u)) = {}
    BY <2>3 DEF InvestedUpTo
  <2>5. MoneyBack(i, d) = SumOver(Back(u), {})
    BY <2>1, <2>2, <2>4, BackIs
  <2>. QED  BY <2>1, <2>5, SumOverNone
<1>. HIDE DEF S, f, g
<1>6. S \in SUBSET Instrument
  BY <1>2
<1>7. Amounts(g, Instrument)
  <2>1. Zero \in Exact
    BY WholeIsExact DEF Zero
  <2>. QED  BY <1>3, <1>4, <1>5, <2>1 DEF Amounts
<1>8. SumOver(g, Instrument) = SumOver(g, S)
  BY <1>5, <1>6, <1>7, SumOverWithoutZeros
<1>9. Amounts(g, S)
  BY <1>3, <1>4 DEF Amounts
<1>10. SumOver(f, S) = Zero -- SumOver(g, S)
  BY <1>4, <1>9, SumOverNegated
<1>. QED  BY <1>1, <1>8, <1>10 DEF g

-----------------------------------------------------------------------------
(* The value history.                                                          *)

ValuedOn(d) == {i \in HeldOn(d) : ValueOn(i, d).known}

LEMMA HistoryIs ==
  ASSUME BooksDerive, NEW d \in DOMAIN History
  PROVE  /\ d \in Day
         /\ History[d].value = SumOver([i \in ValuedOn(d) |-> ValueOn(i, d).value], ValuedOn(d))
         /\ History[d].invested
               = IF InvestedUnknown(HistoryInputs, d) THEN None
                 ELSE Total(LAMBDA inst : InvestedBy(inst, d), HistoryInputs)
         /\ History[d].excluded = Cardinality(HeldOn(d) \ ValuedOn(d))
<1> DEFINE insts == HistoryInputs
           held(e) == {k \in DOMAIN insts : HeldAfter(insts[k].ledger, e).quantity > 0}
           valued(e) == {k \in held(e) : CarriedValue(insts[k], e).known}
           point(e) == [value    |-> TotalAt(LAMBDA i : CarriedValue(i, e).value, insts, valued(e)),
                        invested |-> IF InvestedUnknown(insts, e) THEN None
                                     ELSE Total(LAMBDA i : InvestedBy(i, e), insts),
                        excluded |-> Cardinality(held(e) \ valued(e))]
           shown == {e \in SpineDays(insts) : valued(e) # {}}
<1>1. History = [e \in shown |-> point(e)]
  BY DEF History, ValueHistory
<1>2. d \in SpineDays(insts) /\ History[d] = point(d)
  <2>. HIDE DEF insts, valued, point
  <2>. QED  BY <1>1
<1>3. DOMAIN insts = {i \in Instrument : ledger[i] # <<>>}
  BY DEF HistoryInputs
<1>4. \A i \in DOMAIN insts : insts[i].series = SeriesOf(i)
  BY DEF HistoryInputs, SeriesOf
<1>5. d \in Day
  <2>1. \A i \in DOMAIN insts : DOMAIN insts[i].series \in SUBSET Day
    BY <1>3, <1>4, PricesOfSeries
  <2>. HIDE DEF insts
  <2>2. \A row : StoredDays(row) \in SUBSET Day
    BY DEF StoredDays
  <2>3. \E i \in DOMAIN insts : d \in DOMAIN insts[i].series \/ d \in StoredDays(insts[i].rates)
    BY <1>2 DEF SpineDays
  <2>. QED  BY <2>1, <2>2, <2>3
<1>6. ASSUME NEW i \in DOMAIN insts
      PROVE  /\ i \in Instrument
             /\ CarriedValue(insts[i], d) = ValueOn(i, d)
             /\ HeldAfter(insts[i].ledger, d) = PositionOf(Until(i, d))
  <2>1. i \in Instrument /\ ledger[i] # <<>>
    BY <1>3
  <2>2. CarriedValue(insts[i], d) = ValueOn(i, d) /\ insts[i].ledger = ledger[i]
    BY <1>5, <2>1, CarriedIs
  <2>. QED  BY <1>5, <2>1, <2>2, SharesAre
<1>7. ASSUME NEW i \in HeldOn(d)
      PROVE  i \in DOMAIN insts
  <2>1. i \in Instrument /\ PositionOf(Until(i, d)).quantity > 0
    BY DEF HeldOn
  <2>2. ASSUME ledger[i] = <<>>  PROVE FALSE
    <3>1. PICK l \in Seq(Priced) : l = ledger[i] /\ InOrder(l) /\ Derived(l) /\ Len(l) = 0
      BY <2>1, <2>2 DEF BooksDerive
    <3>2. CountUntil(l, d) \in 0..Len(l) /\ HeldAfter(l, d) = PositionsAfter(l)[CountUntil(l, d)]
      BY <1>5, <3>1, LaterTrades
    <3>3. HeldAfter(l, d) = EmptyPosition
      BY <3>1, <3>2, PositionsFold
    <3>4. PositionOf(Until(i, d)) = EmptyPosition
      BY <1>5, <2>1, <3>1, <3>3, SharesAre
    <3>. QED  BY <2>1, <3>4 DEF EmptyPosition
  <2>. QED  BY <1>3, <2>1, <2>2
<1>. HIDE DEF insts
<1>8. held(d) = HeldOn(d)
  BY <1>6, <1>7 DEF HeldOn
<1>9. valued(d) = ValuedOn(d)
  <2>1. held(d) \in SUBSET DOMAIN insts
    OBVIOUS
  <2>. HIDE DEF held
  <2>. QED  BY <1>6, <1>8, <2>1 DEF ValuedOn
<1> DEFINE f == [i \in ValuedOn(d) |-> CarriedValue(insts[i], d).value]
           g == [i \in ValuedOn(d) |-> ValueOn(i, d).value]
<1>10. TotalAt(LAMBDA i : CarriedValue(i, d).value, insts, valued(d)) = SumOver(f, ValuedOn(d))
  BY <1>9 DEF TotalAt
<1>11. f = g
  <2>1. \A i \in ValuedOn(d) : CarriedValue(insts[i], d) = ValueOn(i, d)
    BY <1>6, <1>7 DEF ValuedOn
  <2>. QED  BY <2>1
<1>. HIDE DEF f, g
<1>12. /\ History[d].value = TotalAt(LAMBDA i : CarriedValue(i, d).value, insts, valued(d))
       /\ History[d].invested = IF InvestedUnknown(insts, d) THEN None
                                ELSE Total(LAMBDA i : InvestedBy(i, d), insts)
       /\ History[d].excluded = Cardinality(held(d) \ valued(d))
  <2>. HIDE DEF held, valued
  <2>. QED  BY <1>2
<1>. HIDE DEF held, valued
<1>. QED  BY <1>5, <1>8, <1>9, <1>10, <1>11, <1>12 DEF g, insts

LEMMA HistoriesAgree == BooksDerive => HistoryAgrees
<1> SUFFICES ASSUME BooksDerive, NEW d \in DOMAIN History
             PROVE  PointAgrees(d, History[d], ValuedOn(d))
  BY DEF HistoryAgrees, ValuedOn
<1>1. /\ d \in Day
      /\ History[d].value = SumOver([i \in ValuedOn(d) |-> ValueOn(i, d).value], ValuedOn(d))
      /\ History[d].invested
            = IF InvestedUnknown(HistoryInputs, d) THEN None
              ELSE Total(LAMBDA inst : InvestedBy(inst, d), HistoryInputs)
      /\ History[d].excluded = Cardinality(HeldOn(d) \ ValuedOn(d))
  BY HistoryIs
<1>2. ASSUME d = LastDay
      PROVE  History[d].value
               = SumOver([i \in ValuedOn(d) |-> Holding(i, d).market.value], ValuedOn(d))
  <2>1. ASSUME NEW i \in ValuedOn(d)
        PROVE  Holding(i, d).market.value = ValueOn(i, d).value
    <3>1. i \in Instrument /\ ValueOn(i, d).known
      BY DEF ValuedOn, HeldOn
    <3>2. PriceAt(i, d) # None /\ Rated(i, d)
      BY <1>1, <3>1, ValueIs
    <3>. QED  BY <1>2, <3>1, <3>2, HoldingIs
  <2>2. [i \in ValuedOn(d) |-> Holding(i, d).market.value]
          = [i \in ValuedOn(d) |-> ValueOn(i, d).value]
    BY <2>1
  <2>. QED  BY <1>1, <2>2
<1>3. ASSUME History[d].invested # None, \A i \in Instrument : InKronor(i, d)
      PROVE  History[d].invested
               = Zero -- SumOver([i \in Instrument |-> MoneyBack(i, d)], Instrument)
  <2>1. ~InvestedUnknown(HistoryInputs, d)
    BY <1>1, <1>3
  <2>2. Total(LAMBDA inst : InvestedBy(inst, d), HistoryInputs)
          = Zero -- SumOver([i \in Instrument |-> MoneyBack(i, d)], Instrument)
    BY <1>1, <1>3, <2>1, AllInvestedIs
  <2>. QED  BY <1>1, <2>1, <2>2
<1>4. d = LastDay =>
         History[d].value
            = SumOver([i \in ValuedOn(d) |-> Holding(i, LastDay).market.value], ValuedOn(d))
  BY <1>2
<1>. QED  BY <1>1, <1>3, <1>4 DEF PointAgrees

-----------------------------------------------------------------------------
(* The price chart.                                                            *)

LEMMA ChartsAgree ==
  ASSUME BooksDerive, NEW i \in Instrument
  PROVE  PriceChartAgrees(i)
<1> DEFINE chart == PriceHistory(SeriesOf(i), IsHome(i), rates)
<1>1. ASSUME NEW d \in DOMAIN chart
      PROVE  /\ chart[d].base.known <=> ValueOn(i, d).known
             /\ chart[d].base.known =>
                   ValueOn(i, d).value = SharesOn(i, d) ** chart[d].base.value
  <2> DEFINE found == LatestOnOrBefore(rates, d)
             base == CASE IsHome(i) -> Known(SeriesOf(i)[d].close)
                       [] ~IsHome(i) /\ found = None -> Unknown({"missing_fx"})
                       [] OTHER -> Known(SeriesOf(i)[d].close ** found.close)
  <2>1. d \in DOMAIN SeriesOf(i) /\ chart[d].base = base
    BY DEF PriceHistory
  <2>2. d \in Day /\ SeriesOf(i)[d] # None
    BY <2>1, PricesOfSeries
  <2>3. PriceAt(i, d) = SeriesOf(i)[d]
    <3>1. d \in ClosesTo(i, d) /\ ClosesTo(i, d) \in SUBSET Day
          /\ \A e \in ClosesTo(i, d) : e <= d
      BY <2>1, <2>2, PricesOfSeries, Days DEF ClosesTo
    <3>2. Latest(ClosesTo(i, d)) \in ClosesTo(i, d) /\ \A e \in ClosesTo(i, d) : e <= Latest(ClosesTo(i, d))
      BY <3>1, LatestIsLast
    <3>3. d \in Int /\ Latest(ClosesTo(i, d)) \in Int
      BY <2>2, <3>1, <3>2, Days
    <3>4. Latest(ClosesTo(i, d)) = d
      BY <3>1, <3>2, <3>3
    <3>. QED  BY <2>2, <3>1, <3>4, PricesOfSeries
  <2>4. CloseAt(i, d) = SeriesOf(i)[d].close /\ CloseAt(i, d) \in Exact /\ PriceAt(i, d) # None
    BY <2>2, <2>3, RatesAre
  <2>5. SharesOn(i, d) \in Exact
    BY <2>2, SharesAre
  <2>. HIDE DEF chart
  <2>6. CASE IsHome(i)
    <3>1. base = Known(CloseAt(i, d))
      BY <2>4, <2>6
    <3>2. base.known /\ base.value = CloseAt(i, d)
      BY <3>1 DEF Known
    <3>3. /\ ValueOn(i, d).known
          /\ ValueOn(i, d).value = (SharesOn(i, d) ** CloseAt(i, d)) ** One
      <4>1. Rated(i, d) /\ RateOn(i, d) = One
        BY <2>6 DEF Rated, RateOn
      <4>. QED  BY <2>2, <2>4, <4>1, ValueIs
    <3>4. (SharesOn(i, d) ** CloseAt(i, d)) ** One = SharesOn(i, d) ** CloseAt(i, d)
      BY <2>4, <2>5, TimesExact, ZeroLaws
    <3>. HIDE DEF base
    <3>. QED  BY <2>1, <3>2, <3>3, <3>4
  <2>7. CASE ~IsHome(i) /\ found = None
    <3>1. base = Unknown({"missing_fx"})
      BY <2>7
    <3>2. ~base.known
      BY <3>1 DEF Unknown
    <3>3. ~Rated(i, d)
      BY <2>2, <2>7, RatesAre DEF Rated
    <3>4. ~ValueOn(i, d).known
      BY <2>2, <3>3, ValueIs
    <3>. HIDE DEF base
    <3>. QED  BY <2>1, <3>2, <3>4
  <2>8. CASE ~IsHome(i) /\ found # None
    <3>1. RateAt(i, d) = found
      BY <2>2, <2>8, RatesAre
    <3>2. Rated(i, d) /\ RateOn(i, d) = found.close
      BY <2>8, <3>1 DEF Rated, RateOn, FxAt
    <3>3. found.close \in Exact
      BY <2>2, <3>2, RatesAre
    <3>4. base = Known(CloseAt(i, d) ** found.close)
      BY <2>4, <2>8
    <3>5. base.known /\ base.value = CloseAt(i, d) ** found.close
      BY <3>4 DEF Known
    <3>6. /\ ValueOn(i, d).known
          /\ ValueOn(i, d).value = (SharesOn(i, d) ** CloseAt(i, d)) ** found.close
      BY <2>2, <2>4, <3>2, ValueIs
    <3>7. (SharesOn(i, d) ** CloseAt(i, d)) ** found.close
            = SharesOn(i, d) ** (CloseAt(i, d) ** found.close)
      BY <2>4, <2>5, <3>3, TimesLaws
    <3>. HIDE DEF base
    <3>. QED  BY <2>1, <3>5, <3>6, <3>7
  <2>. QED  BY <2>6, <2>7, <2>8
<1>. HIDE DEF chart
<1>. QED  BY <1>1 DEF PriceChartAgrees, chart, SeriesOf

-----------------------------------------------------------------------------
(* The segments of the average cost.                                           *)

\* Where a segment may end.
Ends(l) == FlatDays(l) \cup {Beyond}

LEMMA StepsAndFlats ==
  ASSUME NEW l \in Seq(Priced)
  PROVE  /\ FlatDays(l) \in SUBSET Day /\ StepDays(l) \in SUBSET Day
         /\ \A d \in Day : d \in Int /\ 0 < d /\ d < Beyond
         /\ \A d \in StepDays(l) : d \notin FlatDays(l)
         /\ \A d \in Ends(l) : d \in Int
<1>1. \A n \in DOMAIN l : l[n].date \in Day
  <2>1. \A n \in DOMAIN l : l[n] \in Priced
    OBVIOUS
  <2>. QED  BY <2>1 DEF Priced, Entry
<1>2. FlatDays(l) \in SUBSET Day /\ StepDays(l) \in SUBSET Day
  BY <1>1 DEF FlatDays, StepDays, BuyDays, TradeDays
<1>3. (\A d \in Day : d \in Int /\ 0 < d /\ d < Beyond) /\ Beyond \in Int
  BY Days DEF Beyond
<1>4. \A d \in StepDays(l) : d \notin FlatDays(l)
  <2>. SUFFICES ASSUME NEW d \in StepDays(l), d \in FlatDays(l)  PROVE FALSE
    OBVIOUS
  <2>1. HeldAfter(l, d).quantity > 0 /\ HeldAfter(l, d).quantity = 0
    BY DEF StepDays, FlatDays
  <2>. QED  BY <2>1
<1>. QED  BY <1>2, <1>3, <1>4 DEF Ends

LEMMA LastFlatIs ==
  ASSUME NEW l \in Seq(Priced), NEW d \in Ends(l)
  PROVE  LET f == LastFlat(l, d)
         IN  /\ f \in FlatDays(l) \cup {0} /\ f \in Int /\ f < d
             /\ \A g \in FlatDays(l) : g < d => g <= f
<1> DEFINE Is1(f) == f < d /\ \A g \in FlatDays(l) : g < d => g <= f
           before == {g \in FlatDays(l) : g < d}
<1>1. /\ FlatDays(l) \in SUBSET Day /\ d \in Int /\ \A e \in Day : e \in Int /\ 0 < e
      /\ 0 < d
  <2>1. 0 < Beyond
    BY Days DEF Beyond
  <2>. QED  BY <2>1, StepsAndFlats DEF Ends
<1>2. \E f \in FlatDays(l) \cup {0} : Is1(f)
  <2>1. CASE before = {}
    BY <1>1, <2>1
  <2>2. CASE before # {}
    <3>1. before \in SUBSET Day
      BY <1>1
    <3>2. Latest(before) \in before /\ \A g \in before : g <= Latest(before)
      <4>. HIDE DEF before
      <4>. QED  BY <2>2, <3>1, LatestIsLast
    <3>. QED  BY <3>2
  <2>. QED  BY <2>1, <2>2
<1>3. LastFlat(l, d) = CHOOSE f \in FlatDays(l) \cup {0} : Is1(f)
  BY DEF LastFlat
<1>. HIDE DEF Is1
<1>4. LastFlat(l, d) \in FlatDays(l) \cup {0} /\ Is1(LastFlat(l, d))
  BY <1>2, <1>3
<1>. QED  BY <1>1, <1>4 DEF Is1

\* The days of the segment that ends at f.
SegmentOf(l, f) == StepsBetween(l, LastFlat(l, f), f)

\* Every step is in a segment.
LEMMA StepsAreShared ==
  ASSUME NEW l \in Seq(Priced)
  PROVE  /\ \A f \in Ends(l) : SegmentOf(l, f) \in SUBSET StepDays(l)
         /\ \A d \in StepDays(l) : \E f \in Ends(l) : d \in SegmentOf(l, f)
         /\ \A f, g \in Ends(l) : f # g => SegmentOf(l, f) \cap SegmentOf(l, g) = {}
<1>1. \A f \in Ends(l) : SegmentOf(l, f) \in SUBSET StepDays(l)
  BY DEF SegmentOf, StepsBetween
<1>2. ASSUME NEW d \in StepDays(l)
      PROVE  \E f \in Ends(l) : d \in SegmentOf(l, f)
  <2> DEFINE after == {f \in Ends(l) : d < f}
  <2>1. /\ d \in Int /\ 0 < d /\ d < Beyond /\ d \notin FlatDays(l)
        /\ FlatDays(l) \in SUBSET Int
    BY StepsAndFlats
  <2>2. after \in SUBSET Nat /\ after # {}
    BY <2>1, StepsAndFlats DEF Ends
  <2>3. PICK f \in after : \A g \in after : f <= g
    <3>. HIDE DEF after
    <3>. QED  BY <2>2, SmallestOf
  <2>4. PICK e : e = LastFlat(l, f) /\ e \in FlatDays(l) \cup {0} /\ e \in Int /\ e < f
    BY LastFlatIs
  <2>5. e < d
    <3>1. CASE e \in FlatDays(l) /\ d < e
      <4>1. e \in after
        BY <3>1 DEF Ends
      <4>. QED  BY <2>2, <2>3, <2>4, <4>1
    <3>2. CASE e \in FlatDays(l) /\ ~(d < e)
      BY <2>1, <2>4, <3>2
    <3>3. CASE e = 0
      BY <2>1, <3>3
    <3>. QED  BY <2>4, <3>1, <3>2, <3>3
  <2>6. d \in SegmentOf(l, f)
    BY <2>4, <2>5 DEF SegmentOf, StepsBetween
  <2>. QED  BY <2>6
<1>3. ASSUME NEW f \in Ends(l), NEW g \in Ends(l), f < g
      PROVE  SegmentOf(l, f) \cap SegmentOf(l, g) = {}
  <2>1. f \in FlatDays(l) /\ f \in Int
    BY <1>3, StepsAndFlats DEF Ends
  <2>2. LastFlat(l, g) \in Int /\ f <= LastFlat(l, g)
    BY <1>3, <2>1, LastFlatIs
  <2>3. \A d \in SegmentOf(l, f) : d \in Int /\ d < f
    BY StepsAndFlats DEF SegmentOf, StepsBetween
  <2>4. \A d \in SegmentOf(l, g) : LastFlat(l, g) < d
    BY DEF SegmentOf, StepsBetween
  <2>. QED  BY <2>1, <2>2, <2>3, <2>4
<1>4. \A f, g \in Ends(l) : f # g => SegmentOf(l, f) \cap SegmentOf(l, g) = {}
  <2>. SUFFICES ASSUME NEW f \in Ends(l), NEW g \in Ends(l), f # g
                PROVE  SegmentOf(l, f) \cap SegmentOf(l, g) = {}
    OBVIOUS
  <2>1. f \in Int /\ g \in Int
    BY StepsAndFlats
  <2>2. f < g \/ g < f
    BY <2>1
  <2>3. CASE f < g
    BY <1>3, <2>3
  <2>4. CASE g < f
    <3>1. SegmentOf(l, g) \cap SegmentOf(l, f) = {}
      BY <1>3, <2>4
    <3>. QED  BY <3>1
  <2>. QED  BY <2>2, <2>3, <2>4
<1>. QED  BY <1>1, <1>2, <1>4

\* What the closed segments and the open one are, and that none shares a day with another.
LEMMA SegmentsShare ==
  ASSUME NEW l \in Seq(Priced)
  PROVE  LET open == OpenSegment(l, Beyond)
             closed == ClosedSegments(l, Beyond)
         IN  /\ DOMAIN open = SegmentOf(l, Beyond)
             /\ StepDays(l) = DOMAIN open \cup UNION {DOMAIN s.steps : s \in closed}
             /\ \A s, u \in closed \cup {[steps |-> open, closedOn |-> Beyond]} :
                   s # u => DOMAIN s.steps \cap DOMAIN u.steps = {}
<1> DEFINE open == OpenSegment(l, Beyond)
           closed == ClosedSegments(l, Beyond)
           last == [steps |-> open, closedOn |-> Beyond]
           shown(f) == [steps |-> [d \in SegmentOf(l, f) |-> AverageStep(l, d, Beyond)],
                        closedOn |-> f]
           ended == {f \in FlatDays(l) : SegmentOf(l, f) # {}}
<1>1. DOMAIN open = SegmentOf(l, Beyond)
  BY DEF OpenSegment, SegmentOf
<1>2. closed = {shown(f) : f \in ended}
  BY DEF ClosedSegments, SegmentOf
<1>3. \A f : DOMAIN (shown(f).steps) = SegmentOf(l, f) /\ shown(f).closedOn = f
  OBVIOUS
<1>4. last.steps = open /\ last.closedOn = Beyond
  OBVIOUS
<1>. HIDE DEF open, closed, shown, ended, last
<1>5. \A s \in closed \cup {last} : s.closedOn \in Ends(l) /\ DOMAIN (s.steps) = SegmentOf(l, s.closedOn)
  <2>1. \A f \in ended : f \in Ends(l)
    BY DEF ended, Ends
  <2>2. Beyond \in Ends(l)
    BY DEF Ends
  <2>. QED  BY <1>1, <1>2, <1>3, <1>4, <2>1, <2>2
<1>6. \A s, u \in closed \cup {last} : s.closedOn = u.closedOn => s = u
  <2>1. Beyond \notin FlatDays(l)
    BY StepsAndFlats
  <2>2. \A s \in closed : s.closedOn \in FlatDays(l) /\ s = shown(s.closedOn)
    BY <1>2, <1>3 DEF ended
  <2>. QED  BY <1>4, <2>1, <2>2
<1>7. \A s, u \in closed \cup {last} : s # u => DOMAIN (s.steps) \cap DOMAIN (u.steps) = {}
  BY <1>5, <1>6, StepsAreShared
<1>8. StepDays(l) = DOMAIN open \cup UNION {DOMAIN (s.steps) : s \in closed}
  <2>1. \A s \in closed : DOMAIN (s.steps) \in SUBSET StepDays(l)
    BY <1>5, StepsAreShared
  <2>2. DOMAIN open \in SUBSET StepDays(l)
    BY <1>1, StepsAreShared DEF Ends
  <2>3. ASSUME NEW d \in StepDays(l)
        PROVE  d \in DOMAIN open \/ \E s \in closed : d \in DOMAIN (s.steps)
    <3>1. PICK f \in Ends(l) : d \in SegmentOf(l, f)
      BY StepsAreShared
    <3>2. CASE f = Beyond
      BY <1>1, <3>1, <3>2
    <3>3. CASE f \in FlatDays(l)
      <4>1. shown(f) \in closed
        BY <1>2, <3>1, <3>3 DEF ended
      <4>. QED  BY <1>3, <3>1, <4>1
    <3>. QED  BY <3>2, <3>3 DEF Ends
  <2>. QED  BY <2>1, <2>2, <2>3
<1>. QED  BY <1>1, <1>7, <1>8 DEF open, closed, last

\* Nobody comes to hold shares without a purchase.
LEMMA NothingFromNothing ==
  ASSUME NEW l \in Seq(Priced), Derived(l), NEW c \in 0..Len(l),
         PositionsAfter(l)[c].quantity = 0, \A n \in (c + 1)..Len(l) : l[n].kind # "Buy"
  PROVE  \A n \in c..Len(l) : PositionsAfter(l)[n].quantity = 0
<1> DEFINE held == PositionsAfter(l)
           bad == {n \in c..Len(l) : held[n].quantity # 0}
<1>1. Len(l) \in Nat /\ c \in Nat
  OBVIOUS
<1>2. /\ \A n \in 0..Len(l) : held[n].quantity \in Nat
      /\ \A n \in 1..Len(l) :
            /\ l[n].kind = "Split" => held[n - 1].quantity > 0
            /\ held[n].quantity = IF l[n].kind = "Dividend" THEN held[n - 1].quantity
                                  ELSE held[n - 1].quantity + l[n].quantity
  BY HeldAlong
<1>3. bad \in SUBSET Nat
  BY <1>1
<1>4. ASSUME NEW n \in bad
      PROVE  \E m \in bad : m < n
  <2>1. n \in c..Len(l) /\ held[n].quantity # 0 /\ n # c
    OBVIOUS
  <2>2. n \in 1..Len(l) /\ n \in (c + 1)..Len(l) /\ n - 1 \in 0..Len(l) /\ n - 1 \in c..Len(l)
    BY <1>1, <2>1
  <2>3. l[n] \in Priced
    BY <2>2
  <2>4. /\ l[n].kind \in {"Buy", "Sell", "Split", "Dividend"} /\ l[n].kind # "Buy"
        /\ l[n].quantity \in Int /\ (l[n].kind = "Sell" => l[n].quantity < 0)
    BY <2>2, <2>3 DEF Priced, Entry, Kinds
  <2>5. held[n].quantity \in Nat /\ held[n - 1].quantity \in Nat
    BY <1>2, <2>2
  <2>. HIDE DEF held, bad
  <2>6. held[n - 1].quantity # 0
    BY <1>2, <2>1, <2>2, <2>4, <2>5
  <2>7. n - 1 \in bad
    BY <2>2, <2>6 DEF bad
  <2>. QED  BY <1>1, <2>2, <2>7
<1>5. bad = {}
  <2>. HIDE DEF bad
  <2>. QED  BY <1>3, <1>4, NothingIsBad
<1>. QED  BY <1>5

\* Who holds shares in the end bought some in the open segment.
LEMMA OpenHasSteps ==
  ASSUME NEW l \in Seq(Priced), InOrder(l), Derived(l), PositionOf(l).quantity > 0
  PROVE  SegmentOf(l, Beyond) # {}
<1> DEFINE held == PositionsAfter(l)
           f == LastFlat(l, Beyond)
           c == CountUntil(l, f)
<1>1. /\ f \in FlatDays(l) \cup {0} /\ f \in Int /\ f < Beyond
      /\ \A g \in FlatDays(l) : g < Beyond => g <= f
  <2>1. Beyond \in Ends(l)
    BY DEF Ends
  <2>. QED  BY <2>1, LastFlatIs
<1>2. /\ FlatDays(l) \in SUBSET Day /\ \A d \in Day : d \in Int /\ 0 < d /\ d < Beyond
  BY StepsAndFlats
<1>3. c \in 0..Len(l) /\ \A n \in 1..Len(l) : l[n].date <= f <=> n <= c
  BY <1>1, UntilIsFirst
<1>. HIDE DEF f
<1>4. held[c].quantity = 0
  <2>1. CASE f = 0
    <3>1. c = 0
      BY <2>1, UntilIsFirst
    <3>2. held[0] = EmptyPosition
      BY PositionsFold
    <3>. QED  BY <3>1, <3>2 DEF EmptyPosition
  <2>2. CASE f \in FlatDays(l)
    <3>1. f \in Day /\ HeldAfter(l, f).quantity = 0
      BY <1>2, <2>2 DEF FlatDays
    <3>. QED  BY <3>1, LaterTrades
  <2>. QED  BY <1>1, <2>1, <2>2
<1>5. PICK n \in (c + 1)..Len(l) : l[n].kind = "Buy"
  <2>. HIDE DEF held, c
  <2>1. SUFFICES ASSUME \A n \in (c + 1)..Len(l) : l[n].kind # "Buy"  PROVE FALSE
    OBVIOUS
  <2>2. \A n \in c..Len(l) : held[n].quantity = 0
    BY <1>3, <1>4, <2>1, NothingFromNothing DEF held
  <2>3. held[Len(l)].quantity = 0
    BY <1>3, <2>2
  <2>. QED  BY <2>3 DEF held, PositionOf
<1>6. n \in 1..Len(l) /\ ~(n <= c)
  BY <1>3
<1>. HIDE DEF c
<1>7. l[n] \in Priced
  BY <1>6
<1>8. l[n].date \in Day
  BY <1>7 DEF Priced, Entry
<1> DEFINE d == l[n].date
<1>9. f < d /\ d < Beyond /\ d \in BuyDays(l) /\ d \in TradeDays(l)
  BY <1>1, <1>2, <1>3, <1>5, <1>6, <1>8 DEF BuyDays, TradeDays
<1>. HIDE DEF d
<1>10. HeldAfter(l, d).quantity > 0
  <2>1. d \notin FlatDays(l)
    BY <1>1, <1>2, <1>8, <1>9
  <2>2. HeldAfter(l, d).quantity # 0
    BY <1>9, <2>1 DEF FlatDays
  <2>3. HeldAfter(l, d) = PositionsAfter(l)[CountUntil(l, d)] /\ CountUntil(l, d) \in 0..Len(l)
    BY <1>8, LaterTrades DEF d
  <2>4. PositionsAfter(l)[CountUntil(l, d)].quantity \in Nat
    BY <2>3, HeldAlong
  <2>. QED  BY <2>2, <2>3, <2>4
<1>11. d \in SegmentOf(l, Beyond)
  BY <1>9, <1>10 DEF SegmentOf, StepsBetween, StepDays, f
<1>. QED  BY <1>11

\* A close that is compared with the average is below it when there is a loss.
LEMMA AveragesAgree ==
  ASSUME BooksDerive, NEW i \in Instrument
  PROVE  AverageAgrees(i, OpenSegment(ledger[i], Beyond), ClosedSegments(ledger[i], Beyond))
<1> DEFINE l == ledger[i]
           open == OpenSegment(l, Beyond)
           p == PositionOf(l)
           price == PriceAt(i, LastDay)
           compared == Opportunity(i, LastDay, 1).average
<1>1. l \in Seq(Priced) /\ InOrder(l) /\ Derived(l)
  BY DEF BooksDerive
<1>2. /\ DOMAIN open = SegmentOf(l, Beyond)
      /\ StepDays(l) = DOMAIN open \cup UNION {DOMAIN s.steps : s \in ClosedSegments(l, Beyond)}
      /\ \A s, u \in ClosedSegments(l, Beyond) \cup {[steps |-> open, closedOn |-> Beyond]} :
            s # u => DOMAIN s.steps \cap DOMAIN u.steps = {}
  BY <1>1, SegmentsShare
<1>3. i \in HeldOn(LastDay) => p.quantity > 0
  BY LastShares DEF HeldOn
<1>4. ASSUME p.quantity > 0
      PROVE  open[Latest(DOMAIN open)] = AverageCostNative(p)
  <2> DEFINE days == SegmentOf(l, Beyond)
  <2>1. days # {}
    BY <1>1, <1>4, OpenHasSteps
  <2>2. days \in SUBSET Day
    BY <1>1, StepsAndFlats, StepsAreShared DEF Ends
  <2>3. Latest(days) \in days /\ \A e \in days : e <= Latest(days)
    <3>. HIDE DEF days
    <3>. QED  BY <2>1, <2>2, LatestIsLast
  <2>4. open = [d \in days |-> IF \A e \in days : e <= d THEN AverageCostNative(p)
                               ELSE AverageStep(l, d, Beyond)]
    BY DEF OpenSegment, SegmentOf
  <2>. HIDE DEF days, open, p
  <2>5. DOMAIN open = days
    BY <2>4
  <2>6. open[Latest(days)] = AverageCostNative(p)
    BY <2>3, <2>4
  <2>. QED  BY <2>5, <2>6
<1>5. ASSUME p.quantity > 0, compared.known
      PROVE  compared.value.below <=> IsBelow(Holding(i, LastDay).native.value, p.native)
  <2>1. compared = PriceVersusAverage(price, AverageCostNative(p))
    BY DEF Opportunity
  <2>2. price # None
    BY <1>5, <2>1 DEF PriceVersusAverage, Unknown
  <2>3. compared.value.below <=> IsBelow(price.close, AverageCostNative(p))
    BY <2>1, <2>2 DEF PriceVersusAverage, Known
  <2>4. /\ PositionIs(p) /\ CloseAt(i, LastDay) \in Exact
        /\ Holding(i, LastDay).native.value = CloseAt(i, LastDay) ** Amount(p.quantity)
    BY <2>2, HoldingIs
  <2>5. price.close = CloseAt(i, LastDay) /\ p.native \in Exact /\ p.quantity \in Nat \ {0}
    BY <1>5, <2>2, <2>4 DEF CloseAt, PositionIs, IsPosition
  <2>6. AverageCostNative(p) = p.native // Amount(p.quantity)
    BY <1>5 DEF AverageCostNative
  <2>. HIDE DEF p, price, compared
  <2>7. IsBelow(price.close, p.native // Amount(p.quantity))
          <=> IsBelow(price.close ** Amount(p.quantity), p.native)
    BY <2>4, <2>5, BelowAverage
  <2>. QED  BY <2>3, <2>4, <2>5, <2>6, <2>7
<1>. HIDE DEF compared
<1>6. i \in HeldOn(LastDay) =>
        /\ open[Latest(DOMAIN open)] = AverageCostNative(p)
        /\ compared.known =>
             (compared.value.below <=> IsBelow(Holding(i, LastDay).native.value, p.native))
  BY <1>3, <1>4, <1>5
<1>. QED  BY <1>2, <1>6 DEF AverageAgrees, compared

-----------------------------------------------------------------------------
(* The targets.                                                                *)

PoolOf(inputs) == {k \in DOMAIN inputs : InPool(inputs[k])}
PoolWorth(inputs) == SumOver([k \in PoolOf(inputs) |-> inputs[k].market.value], PoolOf(inputs))
PoolWeight(inputs) == SumOver([k \in PoolOf(inputs) |-> Amount(inputs[k].weight)], PoolOf(inputs))

LEMMA TargetsAre ==
  ASSUME NEW inputs
  PROVE  LET targets == DeriveTargets(inputs)
         IN  /\ DOMAIN targets = DOMAIN inputs
             /\ {k \in DOMAIN targets : targets[k].target.known}
                   = IF PoolWorth(inputs) = Zero THEN {} ELSE PoolOf(inputs)
             /\ PoolWorth(inputs) # Zero =>
                   \A k \in PoolOf(inputs) :
                      targets[k].gap = inputs[k].market.value
                         -- ((PoolWorth(inputs) ** Amount(inputs[k].weight)) // PoolWeight(inputs))
<1> DEFINE targets == DeriveTargets(inputs)
           part(k) == (PoolWorth(inputs) ** Amount(inputs[k].weight)) // PoolWeight(inputs)
           gap(k) == inputs[k].market.value -- part(k)
           none(k) == [status |-> "none", target |-> Unknown(
                         {IF InPool(inputs[k]) THEN "target_pool_zero"
                          ELSE ExclusionReason(inputs[k])})]
           some(k) == [target |-> Known(part(k)), gap |-> gap(k),
                       status |-> Band((gap(k) // part(k)) ** Amount(100))]
<1>1. targets = [k \in DOMAIN inputs |->
                   IF ~InPool(inputs[k]) \/ PoolWorth(inputs) = Zero THEN none(k) ELSE some(k)]
  BY DEF DeriveTargets, TotalAt, PoolOf, PoolWorth, PoolWeight
<1>2. \A k : ~none(k).target.known
  BY DEF Unknown
<1>3. \A k : some(k).target.known /\ some(k).gap = gap(k)
  BY DEF Known
<1>. HIDE DEF targets, none, some
<1>4. DOMAIN targets = DOMAIN inputs
  BY <1>1
<1>5. \A k \in DOMAIN inputs :
         targets[k] = IF k \notin PoolOf(inputs) \/ PoolWorth(inputs) = Zero THEN none(k) ELSE some(k)
  BY <1>1 DEF PoolOf
<1>6. PoolOf(inputs) \subseteq DOMAIN inputs
  BY DEF PoolOf
<1>. HIDE DEF gap
<1>7. {k \in DOMAIN targets : targets[k].target.known}
         = IF PoolWorth(inputs) = Zero THEN {} ELSE PoolOf(inputs)
  BY <1>2, <1>3, <1>4, <1>5, <1>6
<1>8. PoolWorth(inputs) # Zero => \A k \in PoolOf(inputs) : targets[k].gap = gap(k)
  BY <1>3, <1>5, <1>6
<1>. QED  BY <1>4, <1>7, <1>8 DEF targets, gap

\* What is in the pool has a weight and a worth.
LEMMA PoolIs ==
  ASSUME BooksDerive
  PROVE  LET inputs == TargetInputs(LastDay)
         IN  /\ IsFiniteSet(PoolOf(inputs))
             /\ \A k \in PoolOf(inputs) : /\ inputs[k].weight \in Nat \ {0}
                                          /\ inputs[k].market.value \in Exact
<1> DEFINE inputs == TargetInputs(LastDay)
<1>1. DOMAIN inputs = Instrument
  BY DEF TargetInputs
<1>2. IsFiniteSet(Instrument)
  <2>1. IsFiniteSet({} \cup {Home}) /\ IsFiniteSet(({} \cup {Home}) \cup {Foreign})
    BY FS_EmptySet, FS_AddElement
  <2>2. Instrument = ({} \cup {Home}) \cup {Foreign}
    BY DEF Instrument
  <2>. QED  BY <2>1, <2>2
<1>3. IsFiniteSet(PoolOf(inputs))
  <2>1. PoolOf(inputs) \in SUBSET Instrument
    BY <1>1 DEF PoolOf
  <2>. QED  BY <1>2, <2>1, FS_Subset
<1>4. ASSUME NEW k \in PoolOf(inputs)
      PROVE  inputs[k].weight \in Nat \ {0} /\ inputs[k].market.value \in Exact
  <2>1. k \in Instrument /\ InPool(inputs[k])
    BY <1>1 DEF PoolOf
  <2>2. /\ inputs[k].weight = ConvictionWeight(Conviction[k])
        /\ inputs[k].market = IF HasValuation(k) THEN Holding(k, LastDay).market ELSE None
    BY <2>1 DEF TargetInputs
  <2>3. Conviction[k] \in {"LOW", "MEDIUM", "HIGH", "OTHER"}
    BY <2>1, ConvictionAssumption DEF Instrument
  <2>4. ConvictionWeight(Conviction[k]) \in Nat
    BY <2>3 DEF ConvictionWeight
  <2>. HIDE DEF inputs
  <2>5. inputs[k].weight > 0 /\ inputs[k].market # None /\ inputs[k].market.known
    BY <2>1 DEF InPool
  <2>6. inputs[k].market = Holding(k, LastDay).market
    BY <2>2, <2>5
  <2>7. HeldAre(Holding(k, LastDay), PositionOf(ledger[k]))
    <3>1. PositionIs(PositionOf(ledger[k])) /\ LastDay \in Day
      BY <2>1, LastShares, SharesAre
    <3>. QED  BY <2>1, <3>1, HeldOfLine DEF Holding
  <2>8. Holding(k, LastDay).market.value \in Exact
    BY <2>5, <2>6, <2>7 DEF HeldAre
  <2>. QED  BY <2>2, <2>4, <2>5, <2>6, <2>8
<1>. QED  BY <1>3, <1>4

LEMMA TargetsAgree == BooksDerive => TargetsShareOut
<1>. SUFFICES ASSUME BooksDerive
              PROVE  LET targets == DeriveTargets(TargetInputs(LastDay))
                     IN  TotalAt(LAMBDA t : t.gap, targets,
                                 {i \in DOMAIN targets : targets[i].target.known}) = Zero
  BY DEF TargetsShareOut
<1> DEFINE inputs == TargetInputs(LastDay)
           targets == DeriveTargets(inputs)
           shown == {i \in DOMAIN targets : targets[i].target.known}
           gaps == [i \in shown |-> targets[i].gap]
           inPool == PoolOf(inputs)
           f == [i \in inPool |-> inputs[i].market.value]
           w == [i \in inPool |-> inputs[i].weight]
<1>1. TotalAt(LAMBDA t : t.gap, targets, shown) = SumOver(gaps, shown)
  BY DEF TotalAt
<1>2. /\ shown = IF PoolWorth(inputs) = Zero THEN {} ELSE inPool
      /\ PoolWorth(inputs) # Zero =>
            \A k \in inPool :
               targets[k].gap = inputs[k].market.value
                  -- ((PoolWorth(inputs) ** Amount(inputs[k].weight)) // PoolWeight(inputs))
  BY TargetsAre
<1>3. /\ IsFiniteSet(inPool)
      /\ \A k \in inPool : inputs[k].weight \in Nat \ {0} /\ inputs[k].market.value \in Exact
  BY BooksDerive, PoolIs
<1>. HIDE DEF inputs, targets, shown, inPool
<1>4. ASSUME PoolWorth(inputs) = Zero
      PROVE  SumOver(gaps, shown) = Zero
  <2>1. shown = {}
    BY <1>2, <1>4
  <2>. QED  BY <2>1, SumOverNone
<1>5. ASSUME PoolWorth(inputs) # Zero
      PROVE  SumOver(gaps, shown) = Zero
  <2>1. shown = inPool
    BY <1>2, <1>5
  <2>2. \A k \in inPool : f[k] = inputs[k].market.value /\ w[k] = inputs[k].weight
    OBVIOUS
  <2>3. PoolWorth(inputs) = SumOver(f, inPool)
    BY DEF PoolWorth, inPool
  <2>4. PoolWeight(inputs) = SumOver([k \in inPool |-> Amount(w[k])], inPool)
    <3>1. [k \in inPool |-> Amount(w[k])] = [k \in inPool |-> Amount(inputs[k].weight)]
      BY <2>2
    <3>. QED  BY <3>1 DEF PoolWeight, inPool
  <2>5. \A k \in inPool :
          gaps[k] = f[k] -- ((PoolWorth(inputs) ** Amount(w[k])) // PoolWeight(inputs))
    <3>1. \A k \in inPool : gaps[k] = targets[k].gap
      BY <2>1
    <3>. HIDE DEF gaps, f, w
    <3>. QED  BY <1>2, <1>5, <2>2, <3>1
  <2>6. inPool # {}
    BY <1>5, <2>3, SumOverNone
  <2>7. Amounts(f, inPool) /\ \A k \in inPool : w[k] \in Nat \ {0}
    BY <1>3, <2>2 DEF Amounts
  <2>. HIDE DEF gaps, f, w
  <2>8. SumOver(gaps, inPool) = Zero
    BY <2>3, <2>4, <2>5, <2>6, <2>7, ShareOut
  <2>. QED  BY <2>1, <2>8
<1>6. SumOver(gaps, shown) = Zero
  BY <1>4, <1>5
<1>. QED  BY <1>1, <1>6 DEF inputs, targets, shown

LEMMA FiguresOfBooks == BooksDerive => FiguresAgree
<1>1. Booked \subseteq Instrument
  BY DEF Booked
<1>. QED  BY <1>1, HistoriesAgree, ChartsAgree, AveragesAgree, TargetsAgree DEF FiguresAgree

\* The chart, the holdings, the opportunities and the targets tell one story, for
\* trades, prices, rates and splits of any number and size (domain/value_history.rs,
\* valuation.rs, position.rs, conviction.rs).
THEOREM FiguresAlways == ReportSpec => []FiguresAgree
<1>. QED  BY BooksDeriveInit, BooksDeriveNext, FiguresOfBooks, PTL DEF ReportSpec

=============================================================================
