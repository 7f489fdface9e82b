------------------------ MODULE ProviderSymbolsProofs -----------------------
(* Proofs about ProviderSymbols, for every number of refreshes, every instrument *)
(* and whatever the providers answer.                                            *)
EXTENDS ProviderSymbols, TLAPS

(* What a refresh is at work on, by its own record alone.                        *)

\* A source that was read: its mapping was there, and on.
IsSource(s, p) == /\ s = [provider |-> p, row |-> s.row]
                  /\ IsRow(s.row) /\ s.row # None /\ s.row.enabled

One(q, p) == Len(q) = 1 /\ q = <<q[1]>> /\ IsSource(q[1], p)
Both(q) == /\ Len(q) = 2 /\ q = <<q[1], q[2]>>
           /\ IsSource(q[1], "YAHOO") /\ IsSource(q[2], "NASDAQ_NORDIC")

\* The sources in order of precedence.
AreSources(q) == q = <<>> \/ (\E p \in Provider : One(q, p)) \/ Both(q)

IsJob(j) == /\ j = [at |-> j.at, yahooOn |-> j.yahooOn, seed |-> j.seed,
                    several |-> j.several, read |-> j.read, sources |-> j.sources,
                    fetched |-> j.fetched, items |-> j.items]
            /\ j.items = [p \in Provider \cup {"FX"} |-> j.items[p]]

Seeding == {"claim", "look", "search", "seed", "lookNasdaq", "searchNasdaq", "seedNasdaq",
            "done"}
Asking == {"fetch", "recover", "disable", "store"}
Holding == {"recover", "disable", "store"}      \* closes were fetched
Rating == {"rates", "storeRates", "over"}

AreCloses(rows) == rows # {} /\ \A x \in rows : x.date \in Dates /\ x.currency # None

\* Nothing is reported of a source before it has been asked.
Unasked(j) == j.sources # <<>> => /\ j.items[j.sources[1].provider] = None
                                  /\ Both(j.sources) => j.items["NASDAQ_NORDIC"] = None

Reads(j) == \/ j.read = <<>> /\ j.sources = <<>>
            \/ j.read = <<"YAHOO">> /\ (j.sources = <<>> \/ One(j.sources, "YAHOO"))

JobFits(j, inst) ==
    /\ IsJob(j)
    /\ j.at \in Seeding \cup {"read"} \cup Asking \cup Rating
    /\ AreSources(j.sources)
    /\ j.at \in Seeding \cup {"read"} => \A p \in Provider : j.items[p] = None
    /\ j.at \in Seeding => j.read = <<>> /\ j.sources = <<>>
    /\ j.at = "seed" /\ j.seed.enabled => j.yahooOn
    /\ j.at = "read" => Reads(j)
    /\ j.at \in Asking => j.sources # <<>> /\ Unasked(j)
    /\ j.at \in Holding => /\ j.fetched = [symbol |-> j.fetched.symbol, rows |-> j.fetched.rows]
                           /\ AreCloses(j.fetched.rows)
    /\ j.at = "recover" => /\ j.sources[1].provider = "YAHOO"
                           /\ j.fetched.symbol # j.sources[1].row.symbol
    /\ j.at = "store" => ~Mismatch(inst, j.fetched.rows)
    /\ j.at = "storeRates" => j.fetched # {}

JobsFit == \A r \in Refresh : JobFits(job[r], listing)

Shape == /\ job = [r \in Refresh |-> job[r]]
         /\ mapping = [p \in Provider |-> mapping[p]]
         /\ \A p \in Provider : mapping[p] = None \/ IsRow(mapping[p])
         /\ put # None => put.provider \in Provider /\ IsRow(put.row)
         /\ prices = [p \in Provider |-> [d \in Dates |-> prices[p][d]]]
         /\ edited \in [Refresh -> SUBSET Provider]

-----------------------------------------------------------------------------
(* What the mappings still are, for the refresh that holds the lease, where the  *)
(* user has not stored them since it looked.                                     *)

Off(row) == row = None \/ ~row.enabled

SeedsFit(r) ==
    LET j == job[r] IN
    /\ "YAHOO" \notin edited[r] =>
          /\ j.at = "search" => mapping["YAHOO"] = None
          /\ j.at = "seed" => \/ mapping["YAHOO"] = None
                              \/ Off(mapping["YAHOO"]) /\ KnownIsin(listing)
          /\ j.at \in {"lookNasdaq", "searchNasdaq", "seedNasdaq"} => Off(mapping["YAHOO"])
    /\ "NASDAQ_NORDIC" \notin edited[r] /\ j.at \in {"searchNasdaq", "seedNasdaq"} =>
          mapping["NASDAQ_NORDIC"] = None

\* The mapping of a source is the one that was read; that of the source whose closes
\* are at hand may have been given their symbol.
Kept(r, s) == s.provider \notin edited[r] => mapping[s.provider] = s.row
Renewed(r, s) == s.provider \notin edited[r] =>
                    LET row == mapping[s.provider] IN
                    /\ IsRow(row) /\ row.enabled /\ row.cls = s.row.cls
                    /\ row.symbol = job[r].fetched.symbol

SourcesFit(r) ==
    LET j == job[r] IN
    j.at \in {"read"} \cup Asking /\ j.sources # <<>> =>
       /\ IF j.at \in {"disable", "store"} THEN Renewed(r, j.sources[1]) ELSE Kept(r, j.sources[1])
       /\ Both(j.sources) => Kept(r, j.sources[2])

\* What is reported as fetched has closes and is still connected by that symbol.
ItemsFit(r) ==
    LET j == job[r] IN
    /\ \A p \in Provider : j.items[p] # None /\ j.items[p].status = "Fetched" =>
          /\ \E d \in Dates : prices[p][d] # None
          /\ p \notin edited[r] => /\ IsRow(mapping[p]) /\ mapping[p].enabled
                                   /\ mapping[p].symbol = j.items[p].symbol
    /\ j.at = "over" /\ listing.currency # "SEK" /\ j.items["FX"].status = "Fetched" =>
          rates # {}

Fits(r) == SeedsFit(r) /\ SourcesFit(r) /\ ItemsFit(r)

HolderFits == \A r \in Refresh : holder = r /\ exists => Fits(r)

SymbolInv == Shape /\ JobsFit /\ PricesInInstrumentCurrency /\ HolderFits

-----------------------------------------------------------------------------
(* Answers: a success has closes, dated and in some currency; a refusal has a     *)
(* reason that is not reported as a success.                                      *)

LEMMA StatusesHaveReasons == \A status : StatusReason(status) \in Reasons
BY DEF StatusReason, Reasons

LEMMA RefusalsAreNoSuccess == ASSUME NEW reason \in Reasons PROVE ErrorStatus(reason) # "Fetched"
BY DEF Reasons, ErrorStatus

LEMMA ChartsAnswer ==
  ASSUME NEW h \in Histories
  PROVE  /\ h.reason = None => AreCloses(h.rows)
         /\ h.reason # None => h.reason \in Reasons
         /\ \A x \in h.rows : x.date \in Dates /\ x.currency # None
<1>1. PICK answer \in Charts : h = YahooHistory(answer)  BY DEF Histories
<1>2. CASE \E why \in Reasons : h = Failed(why)
  BY <1>2, AnswersAreDated DEF Failed
<1>3. CASE ~\E why \in Reasons : h = Failed(why)
  <2> DEFINE rows == {[date |-> c[1], currency |-> answer.currency] :
                        c \in {x \in answer.closes : x[2] # None}}
  <2>1. \A phrases : ChartErrorReason(phrases) \in Reasons  BY DEF ChartErrorReason, Reasons
  <2>2. {"ProviderUnavailable", "ProviderError", "NoDataInRange"} \subseteq Reasons
    BY DEF Reasons
  <2>3. answer.currency # None /\ h = NonEmpty(rows)
    BY <1>1, <1>3, <2>1, <2>2, StatusesHaveReasons DEF YahooHistory
  <2>4. rows # {} /\ h = Ok(rows)  BY <1>3, <2>2, <2>3 DEF NonEmpty
  <2>5. \A x \in rows : x.currency # None  BY <2>3
  <2>6. h.reason = None /\ h.rows = rows  BY <2>4 DEF Ok
  <2> QED BY <2>4, <2>5, <2>6, AnswersAreDated DEF AreCloses
<1> QED BY <1>2, <1>3

LEMMA YahooAnswers ==
  ASSUME NEW inst, NEW mapped, NEW got \in YahooFetches(inst, mapped)
  PROVE  /\ got.reason = None => AreCloses(got.rows)
         /\ got.reason # None => got.reason \in Reasons /\ got.symbol = mapped
<1>1. CASE \E first \in Histories :
             got = [reason |-> first.reason, symbol |-> mapped, rows |-> first.rows]
  BY <1>1, ChartsAnswer
<1> DEFINE found == {Candidates(inst, mapped, hits) : hits \in Finds(inst)}
<1>2. CASE \E first \in Histories, s \in found :
             \E c \in Recoveries(inst, s, Histories, first.rows) :
                got = [reason |-> None, symbol |-> c.symbol, rows |-> Merged(first.rows, c.rows)]
  <2>1. PICK first \in Histories, s \in found :
             \E c \in Recoveries(inst, s, Histories, first.rows) :
                got = [reason |-> None, symbol |-> c.symbol, rows |-> Merged(first.rows, c.rows)]
    BY <1>2
  <2>2. PICK c \in Recoveries(inst, s, Histories, first.rows) :
                got = [reason |-> None, symbol |-> c.symbol, rows |-> Merged(first.rows, c.rows)]
    BY <2>1
  <2>3. \E h \in Histories : c.rows = h.rows /\ h.rows # {}
    BY <2>2 DEF Recoveries, Viable
  <2>4. AreCloses(c.rows)  BY <2>3, ChartsAnswer DEF AreCloses
  <2>5. AreCloses(Merged(first.rows, c.rows))  BY <2>4, ChartsAnswer DEF AreCloses, Merged
  <2> QED BY <2>2, <2>5
<1> QED BY <1>1, <1>2 DEF YahooFetches

LEMMA NasdaqAnswers ==
  ASSUME NEW answer \in Closings, NEW cls, NEW currency
  PROVE  LET got == NasdaqHistory(answer, cls, currency)
         IN  /\ got.reason = None => AreCloses(got.rows)
             /\ got.reason # None => got.reason \in Reasons
<1> DEFINE rows == {[date |-> c[1], currency |-> currency] :
                      c \in {x \in answer.closes : x[2] # None}}
           got == NasdaqHistory(answer, cls, currency)
<1>1. {"ProviderUnavailable", "ProviderError", "NoDataInRange", "NotListed"} \subseteq Reasons
  BY DEF Reasons
<1>2. NasdaqRefusal(answer) # None => NasdaqRefusal(answer) \in Reasons
  BY <1>1, StatusesHaveReasons DEF NasdaqRefusal, EnvelopeReason
<1>3. \/ \E why \in Reasons : got = Failed(why)
      \/ /\ currency # None /\ NasdaqRefusal(answer) = None /\ answer.closes # None
         /\ rows # {} /\ got = Ok(rows)
  BY <1>1, <1>2 DEF NasdaqHistory, NonEmpty
<1>4. CASE \E why \in Reasons : got = Failed(why)
  BY <1>4, AnswersAreDated DEF Failed
<1>5. CASE /\ currency # None /\ NasdaqRefusal(answer) = None /\ answer.closes # None
           /\ rows # {} /\ got = Ok(rows)
  <2>1. \A x \in rows : x.currency # None /\ x.date \in Dates
    BY <1>5, AnswersAreDated
  <2>2. got.reason = None /\ got.rows = rows  BY <1>5 DEF Ok
  <2> QED BY <1>5, <2>1, <2>2 DEF AreCloses
<1> QED BY <1>3, <1>4, <1>5

LEMMA RatesAnswer ==
  ASSUME NEW answer
  PROVE  /\ FxHistory(answer).reason = None => FxHistory(answer).rows # {}
         /\ FxHistory(answer).reason # None => FxHistory(answer).reason \in Reasons
<1> DEFINE rows == {[date |-> d] : d \in answer.dates}
<1>1. {"ProviderUnavailable", "ProviderError", "NoDataInRange"} \subseteq Reasons
  BY DEF Reasons
<1>2. \/ \E why \in Reasons : FxHistory(answer) = Failed(why)
      \/ rows # {} /\ FxHistory(answer) = Ok(rows)
  BY <1>1, StatusesHaveReasons DEF FxHistory, NonEmpty
<1> QED BY <1>2, AnswersAreDated DEF Failed, Ok

-----------------------------------------------------------------------------
(* A step of one refresh: what has to be shown of it.                            *)

LEMMA RecordsFit == JobFits(Start, listing)
BY DEF JobFits, IsJob, Start, NoItems, AreSources, Seeding, Asking, Holding, Rating

LEMMA DoneFits ==
  ASSUME NEW j, j = [Start EXCEPT !.at = "done"]
  PROVE  JobFits(j, listing) /\ j.at = "done" /\ \A p \in Provider : j.items[p] = None
BY DEF JobFits, IsJob, Start, NoItems, AreSources, Seeding, Asking, Holding, Rating

LEMMA InitFits == Init => SymbolInv
<1> SUFFICES ASSUME Init PROVE SymbolInv  OBVIOUS
<1>1. Shape  BY SymbolBounds DEF Init, Shape, Provider
<1>2. JobsFit  BY RecordsFit DEF Init, JobsFit
<1>3. PricesInInstrumentCurrency  BY DEF Init, PricesInInstrumentCurrency
<1>4. HolderFits
  BY DEF Init, HolderFits, Fits, SeedsFit, SourcesFit, ItemsFit, Start, NoItems, Asking
<1> QED BY <1>1, <1>2, <1>3, <1>4 DEF SymbolInv

\* What one refresh does to its own record is nothing to the others.
LEMMA OthersFit ==
  ASSUME SymbolInv, NEW r \in Refresh, NEW q \in Refresh \ {r}, NEW j,
         holder' = q, exists', exists, holder = q,
         listing' = listing, mapping' = mapping, rates' = rates, prices' = prices,
         job' = [job EXCEPT ![r] = j], edited'[q] = edited[q]
  PROVE  Fits(q)'
<1>1. job'[q] = job[q]  BY DEF SymbolInv, Shape
<1> QED BY <1>1 DEF SymbolInv, HolderFits, Fits, SeedsFit, SourcesFit, ItemsFit, Renewed, Kept

LEMMA MoveKeeps ==
  ASSUME SymbolInv, NEW r \in Refresh, NEW j, Move(r, j), JobFits(j, listing),
         holder = r /\ exists => Fits(r)'
  PROVE  SymbolInv'
<1> USE DEF Move
<1>1. Shape'  BY DEF SymbolInv, Shape
<1>2. JobsFit'  BY DEF SymbolInv, Shape, JobsFit
<1>3. PricesInInstrumentCurrency'  BY DEF SymbolInv, PricesInInstrumentCurrency
<1>4. HolderFits'  BY OthersFit DEF HolderFits
<1> QED BY <1>1, <1>2, <1>3, <1>4 DEF SymbolInv

LEMMA LookKeeps ==
  ASSUME SymbolInv, NEW r \in Refresh, NEW p \in Provider, NEW j, Look(r, p, j),
         JobFits(j, listing), holder = r /\ exists => Fits(r)'
  PROVE  SymbolInv'
<1> USE DEF Look
<1>1. Shape'  BY DEF SymbolInv, Shape
<1>2. JobsFit'  BY DEF SymbolInv, Shape, JobsFit
<1>3. PricesInInstrumentCurrency'  BY DEF SymbolInv, PricesInInstrumentCurrency
<1>4. HolderFits'  BY OthersFit DEF HolderFits, SymbolInv, Shape
<1> QED BY <1>1, <1>2, <1>3, <1>4 DEF SymbolInv

LEMMA EndKeeps ==
  ASSUME SymbolInv, NEW r \in Refresh, End(r)
  PROVE  SymbolInv'
<1> DEFINE done == [Start EXCEPT !.at = "done"]
<1> USE DEF End
<1>1. Shape'  BY DEF SymbolInv, Shape
<1>2. JobFits(done, listing)  BY DoneFits
<1>3. JobsFit'  BY <1>2 DEF SymbolInv, Shape, JobsFit
<1>4. PricesInInstrumentCurrency'  BY DEF SymbolInv, PricesInInstrumentCurrency
<1>5. Fits(r)'
  <2>1. job'[r] = done  BY DEF SymbolInv, Shape
  <2>2. done.at = "done" /\ \A p \in Provider : done.items[p] = None  BY DoneFits
  <2> QED BY <2>1, <2>2 DEF Fits, SeedsFit, SourcesFit, ItemsFit, Asking
<1>6. ASSUME NEW q \in Refresh \ {r}, holder' = q, exists' PROVE Fits(q)'
  <2>1. CASE holder = q  BY <2>1, <1>6, OthersFit DEF SymbolInv, Shape
  <2>2. CASE holder # q
    BY <2>2, <1>6, SymbolBounds
  <2> QED BY <2>1, <2>2
<1>7. HolderFits'  BY <1>5, <1>6 DEF HolderFits
<1> QED BY <1>1, <1>3, <1>4, <1>7 DEF SymbolInv

\* A mapping is only written by the refresh that holds the lease.
LEMMA StoreKeeps ==
  ASSUME SymbolInv, NEW r \in Refresh, NEW p \in Provider, NEW row, NEW j,
         StoreMapping(r, p, row, j), IsRow(row),
         JobFits(j, listing),
         holder = r /\ exists /\ ~End(r) => Fits(r)'
  PROVE  SymbolInv'
<1>1. CASE End(r)  BY <1>1, EndKeeps
<1>2. CASE ~End(r)
  <2> USE <1>2 DEF StoreMapping
  <2>1. Shape'  BY DEF SymbolInv, Shape
  <2>2. JobsFit'  BY DEF SymbolInv, Shape, JobsFit
  <2>3. PricesInInstrumentCurrency'  BY DEF SymbolInv, PricesInInstrumentCurrency
  <2>4. HolderFits'  BY DEF HolderFits
  <2> QED BY <2>1, <2>2, <2>3, <2>4 DEF SymbolInv
<1> QED BY <1>1, <1>2

-----------------------------------------------------------------------------
(* Claiming and seeding.                                                         *)

LEMMA ClaimKeeps == ASSUME SymbolInv, NEW r \in Refresh, Claim(r) PROVE SymbolInv'
<1>1. PICK j : j = [job[r] EXCEPT !.at = "look"]  OBVIOUS
<1>2. job' = [job EXCEPT ![r] = j]  BY <1>1 DEF Claim, SymbolInv, Shape
<1>3. JobFits(job[r], listing) /\ job[r].at = "claim"
  BY DEF Claim, Doing, SymbolInv, JobsFit
<1>4. JobFits(j, listing) /\ j.at = "look" /\ \A p \in Provider : j.items[p] = None
  BY <1>1, <1>3 DEF JobFits, IsJob, Seeding, Asking, Holding, Rating
<1> USE DEF Claim
<1>5. Shape'  BY <1>2 DEF SymbolInv, Shape
<1>6. JobsFit'  BY <1>2, <1>4 DEF SymbolInv, Shape, JobsFit
<1>7. PricesInInstrumentCurrency'  BY DEF SymbolInv, PricesInInstrumentCurrency
<1>8. job'[r] = j  BY <1>2 DEF SymbolInv, Shape
<1>9. Fits(r)'
  BY <1>4, <1>8 DEF Fits, SeedsFit, SourcesFit, ItemsFit, Asking
<1>10. HolderFits'  BY <1>9 DEF HolderFits
<1> QED BY <1>5, <1>6, <1>7, <1>10 DEF SymbolInv

LEMMA LookForYahooKeeps == ASSUME SymbolInv, NEW r \in Refresh, LookForYahoo(r) PROVE SymbolInv'
<1> DEFINE row == mapping["YAHOO"]
           seed == SeedFor(listing, row)
           on == IF seed # None THEN seed.enabled ELSE row # None /\ row.enabled
           at == IF seed # None THEN "seed"
                 ELSE IF row = None /\ SearchesYahoo(listing) THEN "search"
                 ELSE IF on THEN "read" ELSE "lookNasdaq"
<1>1. PICK j : j = [job[r] EXCEPT !.at = at, !.seed = seed, !.yahooOn = on]  OBVIOUS
<1>2. Look(r, "YAHOO", j) /\ job[r].at = "look"  BY <1>1 DEF LookForYahoo, Doing
<1>3. JobFits(job[r], listing)  BY DEF SymbolInv, JobsFit
<1>4. /\ IsJob(j) /\ j.at = at /\ j.seed = seed /\ j.yahooOn = on
      /\ j.read = <<>> /\ j.sources = <<>> /\ \A p \in Provider : j.items[p] = None
  BY <1>1, <1>2, <1>3 DEF JobFits, IsJob, Seeding
<1>5. at = "seed" => seed # None /\ (row = None \/ (Off(row) /\ KnownIsin(listing)))
  BY DEF SeedFor, KnownSeed, Off
<1>6. at = "lookNasdaq" => Off(row)  BY DEF Off
<1>7. at = "search" => row = None  OBVIOUS
<1>8. at \in {"seed", "search", "read", "lookNasdaq"}  OBVIOUS
<1>9. at = "seed" /\ seed.enabled => on  BY <1>5
<1> HIDE DEF at, on, seed
<1>10. JobFits(j, listing)
  BY <1>4, <1>8, <1>9 DEF JobFits, AreSources, Reads, Seeding, Asking, Holding, Rating
<1>11. job'[r] = j  BY <1>2 DEF Look, SymbolInv, Shape
<1>12. Fits(r)'
  BY <1>2, <1>4, <1>5, <1>6, <1>7, <1>8, <1>11
     DEF Look, Fits, SeedsFit, SourcesFit, ItemsFit, Asking
<1> QED BY <1>2, <1>10, <1>12, LookKeeps DEF Provider

LEMMA SearchYahooKeeps == ASSUME SymbolInv, NEW r \in Refresh, SearchYahoo(r) PROVE SymbolInv'
<1>1. PICK answer \in Quotes :
        LET seed == SearchSeed(listing, YahooHits(answer))
        IN  Move(r, [job[r] EXCEPT !.seed = seed, !.yahooOn = seed # None,
                                   !.at = IF seed = None THEN "lookNasdaq" ELSE "seed"])
  BY DEF SearchYahoo
<1> DEFINE seed == SearchSeed(listing, YahooHits(answer))
<1> HIDE DEF seed
<1>2. PICK j : j = [job[r] EXCEPT !.seed = seed, !.yahooOn = seed # None,
                                  !.at = IF seed = None THEN "lookNasdaq" ELSE "seed"]
  OBVIOUS
<1>3. Move(r, j) /\ job[r].at = "search"  BY <1>1, <1>2 DEF SearchYahoo, Doing, seed
<1>4. JobFits(job[r], listing)  BY DEF SymbolInv, JobsFit
<1>5. /\ IsJob(j) /\ j.at = (IF seed = None THEN "lookNasdaq" ELSE "seed")
      /\ j.yahooOn = (seed # None) /\ j.read = <<>> /\ j.sources = <<>>
      /\ \A p \in Provider : j.items[p] = None
  BY <1>2, <1>3, <1>4 DEF JobFits, IsJob, Seeding
<1>6. j.at = "seed" => j.yahooOn  BY <1>5
<1>7. JobFits(j, listing)
  BY <1>5, <1>6 DEF JobFits, AreSources, Seeding, Asking, Holding, Rating
<1>8. job'[r] = j  BY <1>3 DEF Move, SymbolInv, Shape
<1>9. ASSUME holder = r, exists PROVE Fits(r)'
  <2>1. "YAHOO" \notin edited[r] => mapping["YAHOO"] = None
    BY <1>3, <1>9 DEF SymbolInv, HolderFits, Fits, SeedsFit
  <2> QED BY <1>3, <1>5, <1>8, <2>1
          DEF Move, Fits, SeedsFit, SourcesFit, ItemsFit, Asking, Off
<1> QED BY <1>3, <1>7, <1>9, MoveKeeps

LEMMA SeedYahooKeeps == ASSUME SymbolInv, NEW r \in Refresh, SeedYahoo(r) PROVE SymbolInv'
<1>1. PICK row : row = [symbol |-> job[r].seed.symbol, cls |-> None,
                        currency |-> listing.currency, enabled |-> job[r].seed.enabled]
  OBVIOUS
<1>2. PICK j : j = [job[r] EXCEPT !.at = IF job[r].yahooOn THEN "read" ELSE "lookNasdaq",
                                  !.seed = None]
  OBVIOUS
<1>3. StoreMapping(r, "YAHOO", row, j) /\ job[r].at = "seed"
  BY <1>1, <1>2 DEF SeedYahoo, Doing
<1>4. JobFits(job[r], listing)  BY DEF SymbolInv, JobsFit
<1>5. IsRow(row)  BY <1>1 DEF IsRow
<1>6. /\ IsJob(j) /\ j.at = (IF job[r].yahooOn THEN "read" ELSE "lookNasdaq")
      /\ j.read = <<>> /\ j.sources = <<>> /\ \A p \in Provider : j.items[p] = None
  BY <1>2, <1>3, <1>4 DEF JobFits, IsJob, Seeding
<1>7. JobFits(j, listing)
  BY <1>6 DEF JobFits, AreSources, Reads, Seeding, Asking, Holding, Rating
<1>8. ASSUME holder = r, exists, ~End(r) PROVE Fits(r)'
  <2>1. job'[r] = j /\ mapping'["YAHOO"] = row
    BY <1>3, <1>8 DEF StoreMapping, SymbolInv, Shape, Provider
  <2>2. j.at = "lookNasdaq" => Off(row)
    BY <1>1, <1>3, <1>4, <1>6 DEF JobFits, Off
  <2> QED BY <1>6, <2>1, <2>2 DEF Fits, SeedsFit, SourcesFit, ItemsFit, Asking
<1> QED BY <1>3, <1>5, <1>7, <1>8, StoreKeeps DEF Provider

LEMMA LookForNasdaqKeeps == ASSUME SymbolInv, NEW r \in Refresh, LookForNasdaq(r) PROVE SymbolInv'
<1> DEFINE at == IF mapping["NASDAQ_NORDIC"] # None \/ ~HasIdentifier(listing)
                 THEN "read" ELSE "searchNasdaq"
<1>1. PICK j : j = [job[r] EXCEPT !.at = at]  OBVIOUS
<1>2. Look(r, "NASDAQ_NORDIC", j) /\ job[r].at = "lookNasdaq"
  BY <1>1 DEF LookForNasdaq, Doing
<1>3. JobFits(job[r], listing)  BY DEF SymbolInv, JobsFit
<1>4. /\ IsJob(j) /\ j.at = at /\ j.read = <<>> /\ j.sources = <<>>
      /\ \A p \in Provider : j.items[p] = None
  BY <1>1, <1>2, <1>3 DEF JobFits, IsJob, Seeding
<1>5. JobFits(j, listing)
  BY <1>4 DEF JobFits, AreSources, Reads, Seeding, Asking, Holding, Rating
<1>6. job'[r] = j  BY <1>2 DEF Look, SymbolInv, Shape
<1>7. ASSUME holder = r, exists PROVE Fits(r)'
  <2>1. "YAHOO" \notin edited[r] => Off(mapping["YAHOO"])
    BY <1>2, <1>7 DEF SymbolInv, HolderFits, Fits, SeedsFit
  <2> QED BY <1>2, <1>4, <1>6, <2>1
          DEF Look, Fits, SeedsFit, SourcesFit, ItemsFit, Asking, SymbolInv, Shape
<1> QED BY <1>2, <1>5, <1>7, LookKeeps DEF Provider

LEMMA SearchNasdaqKeeps == ASSUME SymbolInv, NEW r \in Refresh, SearchNasdaq(r) PROVE SymbolInv'
<1>1. PICK answer \in Groups :
        LET found == NasdaqHits(answer)
            hit == UniqueMatch(listing, found.rows)
        IN  IF found.reason # None \/ hit = None
            THEN Move(r, [job[r] EXCEPT !.at = "read",
                             !.several = Ambiguous(listing, found.rows)])
            ELSE Move(r, [job[r] EXCEPT !.at = "seedNasdaq", !.seed = hit])
  BY DEF SearchNasdaq
<1> DEFINE found == NasdaqHits(answer)
           hit == UniqueMatch(listing, found.rows)
           several == Ambiguous(listing, found.rows)
           none == found.reason # None \/ hit = None
           at == IF none THEN "read" ELSE "seedNasdaq"
<1>2. PICK j : /\ \/ j = [job[r] EXCEPT !.at = at, !.several = several]
                  \/ j = [job[r] EXCEPT !.at = at, !.seed = hit]
               /\ Move(r, j)
  <2> HIDE DEF several, hit, none
  <2>1. CASE none  BY <1>1, <2>1 DEF none, several, hit
  <2>2. CASE ~none  BY <1>1, <2>2 DEF none, several, hit
  <2> QED BY <2>1, <2>2
<1> HIDE DEF several, hit, none
<1>3. JobFits(job[r], listing) /\ job[r].at = "searchNasdaq"
  BY DEF SymbolInv, JobsFit, SearchNasdaq, Doing
<1>4. /\ IsJob(j) /\ j.at = at /\ j.read = <<>> /\ j.sources = <<>>
      /\ \A p \in Provider : j.items[p] = None
  BY <1>2, <1>3 DEF JobFits, IsJob, Seeding
<1>5. JobFits(j, listing)
  BY <1>4 DEF JobFits, AreSources, Reads, Seeding, Asking, Holding, Rating
<1>6. job'[r] = j  BY <1>2 DEF Move, SymbolInv, Shape
<1>7. ASSUME holder = r, exists PROVE Fits(r)'
  <2>1. /\ "YAHOO" \notin edited[r] => Off(mapping["YAHOO"])
        /\ "NASDAQ_NORDIC" \notin edited[r] => mapping["NASDAQ_NORDIC"] = None
    BY <1>3, <1>7 DEF SymbolInv, HolderFits, Fits, SeedsFit
  <2> QED BY <1>2, <1>4, <1>6, <2>1 DEF Move, Fits, SeedsFit, SourcesFit, ItemsFit, Asking
<1> QED BY <1>2, <1>5, <1>7, MoveKeeps

LEMMA SeedNasdaqKeeps == ASSUME SymbolInv, NEW r \in Refresh, SeedNasdaq(r) PROVE SymbolInv'
<1>1. PICK row : row = [symbol |-> job[r].seed.symbol, cls |-> job[r].seed.cls,
                        currency |-> job[r].seed.currency, enabled |-> TRUE]
  OBVIOUS
<1>2. PICK j : j = [job[r] EXCEPT !.at = "read", !.seed = None]  OBVIOUS
<1>3. StoreMapping(r, "NASDAQ_NORDIC", row, j) /\ job[r].at = "seedNasdaq"
  BY <1>1, <1>2 DEF SeedNasdaq, Doing
<1>4. JobFits(job[r], listing)  BY DEF SymbolInv, JobsFit
<1>5. IsRow(row)  BY <1>1 DEF IsRow
<1>6. /\ IsJob(j) /\ j.at = "read" /\ j.read = <<>> /\ j.sources = <<>>
      /\ \A p \in Provider : j.items[p] = None
  BY <1>2, <1>3, <1>4 DEF JobFits, IsJob, Seeding
<1>7. JobFits(j, listing)
  BY <1>6 DEF JobFits, AreSources, Reads, Seeding, Asking, Holding, Rating
<1>8. ASSUME holder = r, exists, ~End(r) PROVE Fits(r)'
  <2>1. job'[r] = j  BY <1>3, <1>8 DEF StoreMapping, SymbolInv, Shape
  <2> QED BY <1>6, <2>1 DEF Fits, SeedsFit, SourcesFit, ItemsFit, Asking
<1> QED BY <1>3, <1>5, <1>7, <1>8, StoreKeeps DEF Provider

-----------------------------------------------------------------------------
(* Reading the sources.                                                          *)

LEMMA AppendFirst == ASSUME NEW x PROVE Append(<<>>, x) = <<x>>
OBVIOUS

LEMMA AppendSecond == ASSUME NEW x, NEW y PROVE Append(<<x>>, y) = <<x, y>>
<1>1. Append(<<x>>, y) = [k \in 1..2 |-> IF k = 2 THEN y ELSE x]
  <2>1. <<x>> \in Seq({x, y})  OBVIOUS
  <2> QED BY <2>1
<1>2. <<x, y>> = [k \in 1..2 |-> IF k = 2 THEN y ELSE x]  OBVIOUS
<1> QED BY <1>1, <1>2

LEMMA ReadsInOrder ==
  ASSUME NEW j, JobFits(j, listing), j.at = "read"
  PROVE  LET p == Precedence[Len(j.read) + 1]
             row == mapping[p]
             on == row # None /\ row.enabled
         IN  \/ /\ p = "YAHOO" /\ j.read = <<>> /\ j.sources = <<>>
                /\ Len(Append(j.read, p)) < Len(Precedence)
             \/ /\ p = "NASDAQ_NORDIC" /\ j.read = <<"YAHOO">>
                /\ j.sources = <<>> \/ One(j.sources, "YAHOO")
                /\ ~(Len(Append(j.read, p)) < Len(Precedence))
<1>1. Reads(j)  BY DEF JobFits
<1>2. CASE j.read = <<>>
  <2>1. Len(j.read) + 1 = 1 /\ Precedence[1] = "YAHOO" /\ Len(Precedence) = 2
    BY <1>2 DEF Precedence
  <2>2. Append(j.read, "YAHOO") = <<"YAHOO">>  BY <1>2
  <2>3. Len(Append(j.read, "YAHOO")) = 1  BY <2>2
  <2> QED BY <1>1, <1>2, <2>1, <2>3 DEF Reads
<1>3. CASE j.read = <<"YAHOO">>
  <2>1. Len(j.read) + 1 = 2 /\ Precedence[2] = "NASDAQ_NORDIC" /\ Len(Precedence) = 2
    <3>1. Len(<<"YAHOO">>) = 1  OBVIOUS
    <3> QED BY <1>3, <3>1 DEF Precedence
  <2>2. Append(j.read, "NASDAQ_NORDIC") = <<"YAHOO", "NASDAQ_NORDIC">>  BY <1>3, AppendSecond
  <2>3. Len(Append(j.read, "NASDAQ_NORDIC")) = 2
    <3>1. Len(<<"YAHOO", "NASDAQ_NORDIC">>) = 2  OBVIOUS
    <3> QED BY <2>2, <3>1
  <2> QED BY <1>1, <1>3, <2>1, <2>3 DEF Reads
<1> QED BY <1>1, <1>2, <1>3 DEF Reads

LEMMA FirstSource == ASSUME NEW p, NEW s, IsSource(s, p) PROVE One(<<s>>, p)
<1>1. Len(<<s>>) = 1 /\ <<s>>[1] = s  OBVIOUS
<1> QED BY <1>1 DEF One

LEMMA SecondSource ==
  ASSUME NEW y, NEW s, IsSource(y, "YAHOO"), IsSource(s, "NASDAQ_NORDIC")
  PROVE  Both(<<y, s>>)
<1>1. Len(<<y, s>>) = 2 /\ <<y, s>>[1] = y /\ <<y, s>>[2] = s  OBVIOUS
<1> QED BY <1>1 DEF Both

LEMMA SourcesDiffer ==
  ASSUME NEW q
  PROVE  /\ \A p \in Provider : One(q, p) => ~Both(q) /\ q # <<>> /\ q[1].provider = p
         /\ Both(q) => /\ q # <<>> /\ q[1].provider = "YAHOO"
                       /\ q[2].provider = "NASDAQ_NORDIC"
         /\ q = <<>> => ~Both(q) /\ \A p \in Provider : ~One(q, p)
BY DEF One, Both, IsSource

\* The sources once the mapping of p is read.
Known(q, p, row) == IF row # None /\ row.enabled
                    THEN Append(q, [provider |-> p, row |-> row]) ELSE q

LEMMA KnownSources ==
  ASSUME NEW p \in Provider, NEW row, NEW q,
         row # None /\ row.enabled => IsRow(row),
         q = <<>> \/ (One(q, "YAHOO") /\ p = "NASDAQ_NORDIC")
  PROVE  LET known == Known(q, p, row) IN
         /\ AreSources(known)
         /\ p = "YAHOO" => known = <<>> \/ One(known, "YAHOO")
         /\ known # <<>> => \/ known[1].provider = p /\ known[1].row = row
                            \/ /\ q # <<>> /\ known[1] = q[1] /\ p = "NASDAQ_NORDIC"
                               /\ known[1].provider = "YAHOO"
         /\ Both(known) => known[2].provider = p /\ known[2].row = row
<1> DEFINE known == Known(q, p, row)
<1>1. CASE ~(row # None /\ row.enabled)
  <2>1. known = q  BY <1>1 DEF Known
  <2> QED BY <2>1, SourcesDiffer DEF AreSources, Provider
<1>2. CASE row # None /\ row.enabled
  <2>1. PICK s : s = [provider |-> p, row |-> row]  OBVIOUS
  <2>2. known = Append(q, s)  BY <1>2, <2>1 DEF Known
  <2>3. IsSource(s, p) /\ s.provider = p /\ s.row = row  BY <1>2, <2>1 DEF IsSource
  <2>4. CASE q = <<>>
    <3>1. known = <<s>>  BY <2>2, <2>4, AppendFirst
    <3>2. One(known, p) /\ known[1] = s  BY <2>3, <3>1, FirstSource
    <3> HIDE DEF known
    <3>3. p = "YAHOO" => One(known, "YAHOO")  BY <3>2
    <3>4. AreSources(known) /\ ~Both(known)  BY <3>2, SourcesDiffer DEF AreSources
    <3> QED BY <2>3, <3>2, <3>3, <3>4 DEF known
  <2>5. CASE One(q, "YAHOO") /\ p = "NASDAQ_NORDIC"
    <3>1. PICK y : q = <<y>> /\ q[1] = y /\ IsSource(y, "YAHOO")  BY <2>5 DEF One
    <3>2. known = <<y, s>>  BY <2>2, <3>1, AppendSecond
    <3>3. Both(known) /\ known[1] = y /\ known[2] = s  BY <2>3, <2>5, <3>1, <3>2, SecondSource
    <3>4. q # <<>> /\ y.provider = "YAHOO"  BY <3>1 DEF IsSource
    <3> HIDE DEF known
    <3> QED BY <2>3, <2>5, <3>1, <3>3, <3>4 DEF AreSources, known
  <2> QED BY <2>4, <2>5
<1> QED BY <1>1, <1>2

LEMMA ReadSourceKeeps == ASSUME SymbolInv, NEW r \in Refresh, ReadSource(r) PROVE SymbolInv'
<1>1. JobFits(job[r], listing) /\ job[r].at = "read"
  BY DEF SymbolInv, JobsFit, ReadSource, Doing
<1>2. PICK p : p = Precedence[Len(job[r].read) + 1]  OBVIOUS
<1>3. PICK row : row = mapping[p]  OBVIOUS
<1>4. PICK known : known = Known(job[r].sources, p, row)  OBVIOUS
<1> DEFINE next == [job[r] EXCEPT !.read = Append(@, p), !.sources = known]
           told == [status |-> IF job[r].several THEN "Ambiguous" ELSE "Unmapped",
                    symbol |-> None]
<1>5. /\ p \in Provider
      /\ row # None /\ row.enabled => IsRow(row)
      /\ job[r].sources = <<>> \/ (One(job[r].sources, "YAHOO") /\ p = "NASDAQ_NORDIC")
  BY <1>1, <1>2, <1>3, ReadsInOrder DEF Provider, SymbolInv, Shape
<1>6. /\ AreSources(known)
      /\ p = "YAHOO" => known = <<>> \/ One(known, "YAHOO")
      /\ known # <<>> => \/ known[1].provider = p /\ known[1].row = row
                         \/ /\ job[r].sources # <<>> /\ known[1] = job[r].sources[1]
                            /\ p = "NASDAQ_NORDIC" /\ known[1].provider = "YAHOO"
      /\ Both(known) => known[2].provider = p /\ known[2].row = row
  BY <1>4, <1>5, KnownSources
<1>7. PICK n : n = next  OBVIOUS
<1>8. PICK j : /\ Look(r, p, j)
               /\ \/ j = n /\ p = "YAHOO" /\ j.at = "read" /\ j.read = <<"YAHOO">>
                  \/ /\ j = [n EXCEPT !.at = "fetch"] /\ p = "NASDAQ_NORDIC"
                     /\ known # <<>>
                  \/ /\ j = [n EXCEPT !.at = "rates", !.items["NASDAQ_NORDIC"] = told]
                     /\ known = <<>> /\ p = "NASDAQ_NORDIC"
  <2>1. /\ n.read = Append(job[r].read, p) /\ n.at = "read"
    BY <1>1, <1>7 DEF JobFits, IsJob
  <2>2. p = "YAHOO" => Append(job[r].read, p) = <<"YAHOO">>
    <3>1. p = "YAHOO" => job[r].read = <<>>  BY <1>1, <1>2, ReadsInOrder
    <3> QED BY <3>1, AppendFirst
  <2>3. /\ p = "YAHOO" => Len(n.read) < Len(Precedence)
        /\ p = "NASDAQ_NORDIC" => ~(Len(n.read) < Len(Precedence))
        /\ p \in {"YAHOO", "NASDAQ_NORDIC"}
    BY <1>1, <1>2, <2>1, ReadsInOrder DEF Provider
  <2> HIDE DEF told
  <2>4. \/ Len(n.read) < Len(Precedence) /\ Look(r, p, n)
        \/ /\ ~(Len(n.read) < Len(Precedence)) /\ known # <<>>
           /\ Look(r, p, [n EXCEPT !.at = "fetch"])
        \/ /\ ~(Len(n.read) < Len(Precedence)) /\ known = <<>>
           /\ Look(r, p, [n EXCEPT !.at = "rates", !.items["NASDAQ_NORDIC"] = told])
    BY <1>2, <1>3, <1>4, <1>7 DEF ReadSource, Known, told
  <2> QED BY <2>1, <2>2, <2>3, <2>4
<1>9. /\ IsJob(n) /\ n.sources = known /\ n.at = "read" /\ n.items = job[r].items
      /\ \A z \in Provider : n.items[z] = None
  BY <1>1, <1>7 DEF JobFits, IsJob
<1> HIDE DEF told
<1>10. /\ IsJob(j) /\ j.sources = known
       /\ j.at \in {"read", "fetch"} => \A z \in Provider : j.items[z] = None
       /\ j.at \in {"read", "fetch", "rates"}
       /\ j.items["YAHOO"] = None
       /\ j.at = "read" => p = "YAHOO" /\ j.read = <<"YAHOO">>
       /\ j.at = "fetch" => known # <<>>
       /\ j.at = "rates" => known = <<>> /\ j.items["NASDAQ_NORDIC"] = told
  BY <1>8, <1>9 DEF IsJob, Provider
<1>11. JobFits(j, listing)
  <2>1. AreSources(known)  BY <1>6
  <2>2. j.at = "read" => Reads(j)  BY <1>6, <1>10 DEF Reads
  <2>3. j.at = "fetch" => Unasked(j)
    BY <1>6, <1>10, SourcesDiffer DEF Unasked, AreSources, Provider
  <2> QED BY <1>10, <2>1, <2>2, <2>3 DEF JobFits, Seeding, Asking, Holding, Rating
<1>12. job'[r] = j /\ edited'[r] = edited[r] \ {p} /\ mapping' = mapping
  BY <1>8 DEF Look, SymbolInv, Shape
<1>13. ASSUME holder = r, exists PROVE Fits(r)'
  <2>1. job[r].sources # <<>> => Kept(r, job[r].sources[1])
    BY <1>1, <1>13 DEF SymbolInv, HolderFits, Fits, SourcesFit, Asking
  <2>2. known # <<>> => Kept(r, known[1])'
    BY <1>3, <1>6, <1>12, <2>1 DEF Kept
  <2>3. Both(known) => Kept(r, known[2])'
    BY <1>3, <1>6, <1>12 DEF Kept
  <2>4. SourcesFit(r)'  BY <1>10, <1>12, <2>2, <2>3 DEF SourcesFit, Asking
  <2>5. ItemsFit(r)'
    <3>1. told.status # "Fetched"  BY DEF told
    <3> QED BY <1>10, <1>12, <3>1 DEF ItemsFit, Provider
  <2>6. SeedsFit(r)'  BY <1>10, <1>12 DEF SeedsFit
  <2> QED BY <2>4, <2>5, <2>6 DEF Fits
<1> QED BY <1>5, <1>8, <1>11, <1>13, LookKeeps

-----------------------------------------------------------------------------
(* Asking a source and reporting it.                                             *)

LEMMA FirstAsked ==
  ASSUME NEW j, JobFits(j, listing), j.at \in Asking
  PROVE  /\ IsJob(j) /\ j.sources # <<>> /\ Head(j.sources) = j.sources[1]
         /\ IsSource(j.sources[1], j.sources[1].provider)
         /\ j.sources[1].provider \in Provider
         /\ Both(j.sources) =>
               /\ j.sources[1].provider = "YAHOO"
               /\ IsSource(j.sources[2], "NASDAQ_NORDIC")
               /\ Tail(j.sources) = <<j.sources[2]>>
               /\ j.items["NASDAQ_NORDIC"] = None
         /\ ~Both(j.sources) => Tail(j.sources) = <<>>
<1>1. IsJob(j) /\ AreSources(j.sources) /\ j.sources # <<>> /\ Unasked(j)
  BY DEF JobFits
<1>2. CASE \E p \in Provider : One(j.sources, p)
  <2> PICK p \in Provider : One(j.sources, p)  BY <1>2
  <2>1. PICK s : j.sources = <<s>> /\ j.sources[1] = s /\ IsSource(s, p)
    BY DEF One
  <2>2. Head(<<s>>) = s /\ Tail(<<s>>) = <<>>  OBVIOUS
  <2>3. s.provider = p /\ IsSource(s, s.provider)  BY <2>1 DEF IsSource
  <2>4. ~Both(j.sources)  BY <1>2, SourcesDiffer
  <2> QED BY <1>1, <2>1, <2>2, <2>3, <2>4
<1>3. CASE Both(j.sources)
  <2>1. PICK y, n : /\ j.sources = <<y, n>> /\ j.sources[1] = y /\ j.sources[2] = n
                    /\ IsSource(y, "YAHOO") /\ IsSource(n, "NASDAQ_NORDIC")
    BY <1>3 DEF Both
  <2>2. Head(<<y, n>>) = y /\ Tail(<<y, n>>) = <<n>>  OBVIOUS
  <2>3. y.provider = "YAHOO" /\ IsSource(y, y.provider)  BY <2>1 DEF IsSource
  <2> QED BY <1>1, <1>3, <2>1, <2>2, <2>3 DEF Unasked, Provider
<1> QED BY <1>1, <1>2, <1>3 DEF AreSources

LEMMA ReportFits ==
  ASSUME NEW j, NEW status, JobFits(j, listing), j.at \in Asking,
         NEW k, k = Report(j, status)
  PROVE  /\ JobFits(k, listing) /\ k.at \in {"fetch", "rates"}
         /\ k.items[j.sources[1].provider].status = status
         /\ j.at # "fetch" => k.items[j.sources[1].provider].symbol = j.fetched.symbol
         /\ \A z \in Provider \ {j.sources[1].provider} : k.items[z] = j.items[z]
         /\ k.sources # <<>> => /\ Both(j.sources) /\ ~Both(k.sources)
                                /\ k.sources[1] = j.sources[2]
<1> DEFINE p == j.sources[1].provider
           rest == Tail(j.sources)
           symbol == IF j.at = "fetch" THEN j.sources[1].row.symbol ELSE j.fetched.symbol
           item == [status |-> status, symbol |-> symbol]
<1>1. p \in Provider /\ IsJob(j) /\ Head(j.sources) = j.sources[1]  BY FirstAsked
<1>2. k = [j EXCEPT !.items[p] = item, !.sources = rest, !.fetched = None,
                    !.at = IF rest = <<>> THEN "rates" ELSE "fetch"]
  BY <1>1 DEF Report
<1>3. item.status = status /\ item.symbol = symbol  OBVIOUS
<1> HIDE DEF item, rest, p
<1>4. /\ IsJob(k) /\ k.items[p] = item /\ k.sources = rest
      /\ k.at = (IF rest = <<>> THEN "rates" ELSE "fetch")
      /\ \A z \in Provider \ {p} : k.items[z] = j.items[z]
  BY <1>1, <1>2 DEF IsJob
<1>5. CASE ~Both(j.sources)
  <2>1. rest = <<>>  BY <1>5, FirstAsked DEF rest
  <2>2. JobFits(k, listing)
    BY <1>4, <2>1 DEF JobFits, AreSources, Seeding, Asking, Holding, Rating
  <2> QED BY <1>3, <1>4, <2>1, <2>2 DEF p
<1>6. CASE Both(j.sources)
  <2>1. /\ rest = <<j.sources[2]>> /\ IsSource(j.sources[2], "NASDAQ_NORDIC")
        /\ p = "YAHOO" /\ j.items["NASDAQ_NORDIC"] = None
    BY <1>6, FirstAsked DEF rest, p
  <2>2. One(rest, "NASDAQ_NORDIC")  BY <2>1, FirstSource
  <2>3. /\ rest # <<>> /\ ~Both(rest) /\ rest[1].provider = "NASDAQ_NORDIC"
        /\ rest[1] = j.sources[2]
    BY <2>1, <2>2, SourcesDiffer DEF Provider
  <2>4. Unasked(k) /\ AreSources(k.sources)
    BY <1>4, <2>1, <2>2, <2>3 DEF Unasked, AreSources, Provider
  <2>5. JobFits(k, listing)
    BY <1>4, <2>3, <2>4 DEF JobFits, Seeding, Asking, Holding, Rating
  <2> QED BY <1>3, <1>4, <1>6, <2>3, <2>5 DEF p
<1> QED BY <1>5, <1>6

\* A report is true if that of the first source is.
LEMMA ReportsFit ==
  ASSUME SymbolInv, NEW r \in Refresh, holder = r, exists, job[r].at \in Asking,
         NEW status, NEW k, k = Report(job[r], status), job'[r] = k, edited' = edited,
         \A z \in Provider \ {job[r].sources[1].provider} :
            /\ mapping'[z] = mapping[z]
            /\ \A d \in Dates : prices[z][d] # None => prices'[z][d] # None,
         LET p == job[r].sources[1].provider IN
         status = "Fetched" =>
            /\ \E d \in Dates : prices'[p][d] # None
            /\ p \notin edited[r] => /\ IsRow(mapping'[p]) /\ mapping'[p].enabled
                                     /\ mapping'[p].symbol = k.items[p].symbol
  PROVE  Fits(r)'
<1> DEFINE j == job[r]
           p == j.sources[1].provider
<1>1. JobFits(j, listing) /\ Fits(r)  BY DEF SymbolInv, JobsFit, HolderFits
<1>2. /\ k.at \in {"fetch", "rates"}
      /\ k.items[p].status = status
      /\ \A z \in Provider \ {p} : k.items[z] = j.items[z]
      /\ k.sources # <<>> => /\ Both(j.sources) /\ ~Both(k.sources)
                             /\ k.sources[1] = j.sources[2]
  BY <1>1, ReportFits
<1>3. Both(j.sources) =>
         /\ p = "YAHOO" /\ j.sources[2].provider = "NASDAQ_NORDIC"
         /\ Kept(r, j.sources[2])
  BY <1>1, SourcesDiffer DEF Fits, SourcesFit, Asking
<1>4. PICK s : s = j.sources[2]  OBVIOUS
<1>5. Both(j.sources) => Kept(r, s)'
  BY <1>3, <1>4 DEF Kept, Provider
<1>6. SourcesFit(r)'  BY <1>2, <1>4, <1>5 DEF SourcesFit, Asking
<1>7. SeedsFit(r)'  BY <1>2 DEF SeedsFit
<1>8. ItemsFit(r)'  BY <1>1, <1>2 DEF Fits, ItemsFit
<1> QED BY <1>6, <1>7, <1>8 DEF Fits

LEMMA FetchedKeeps ==
  ASSUME SymbolInv, NEW r \in Refresh, job[r].at = "fetch", NEW symbol, NEW rows,
         AreCloses(rows), Fetched(r, symbol, rows),
         symbol # job[r].sources[1].row.symbol => job[r].sources[1].provider = "YAHOO"
  PROVE  SymbolInv'
<1> DEFINE source == job[r].sources[1]
           at == AfterFetch(listing, source, [symbol |-> symbol, rows |-> rows])
<1>1. JobFits(job[r], listing) /\ job[r].at \in Asking  BY DEF SymbolInv, JobsFit, Asking
<1>2. PICK got : got = [symbol |-> symbol, rows |-> rows]  OBVIOUS
<1>3. got.symbol = symbol /\ got.rows = rows  BY <1>2
<1>4. PICK j : j = [job[r] EXCEPT !.fetched = got, !.at = at]  OBVIOUS
<1>5. Move(r, j)  BY <1>1, <1>2, <1>4, FirstAsked DEF Fetched
<1>6. /\ at \in Holding
      /\ at = "recover" => source.provider = "YAHOO" /\ symbol # source.row.symbol
      /\ at # "recover" => symbol = source.row.symbol
      /\ at = "store" => ~Mismatch(listing, rows)
  BY <1>2, <1>3 DEF AfterFetch, Holding
<1> HIDE DEF at
<1>7. /\ IsJob(j) /\ j.at = at /\ j.fetched = got /\ j.sources = job[r].sources
      /\ j.items = job[r].items
  BY <1>1, <1>4 DEF JobFits, IsJob
<1>8. AreSources(j.sources) /\ j.sources # <<>> /\ Unasked(j)
  BY <1>1, <1>7 DEF JobFits, Unasked
<1>9. JobFits(j, listing)
  BY <1>2, <1>3, <1>6, <1>7, <1>8 DEF JobFits, Seeding, Asking, Holding, Rating
<1>10. ASSUME holder = r, exists PROVE Fits(r)'
  <2>1. job'[r] = j /\ mapping' = mapping /\ edited' = edited /\ prices' = prices
    BY <1>5 DEF Move, SymbolInv, Shape
  <2>2. Fits(r)  BY <1>10 DEF SymbolInv, HolderFits
  <2>3. /\ Kept(r, source)
        /\ Both(job[r].sources) => Kept(r, job[r].sources[2])
    BY <1>8, <1>7, <2>2 DEF Fits, SourcesFit, Asking
  <2>4. PICK s, n : s = source /\ n = job[r].sources[2]  OBVIOUS
  <2>5. Kept(r, s)' /\ (Both(j.sources) => Kept(r, n)')
    BY <1>7, <2>1, <2>3, <2>4 DEF Kept
  <2>6. at # "recover" => Renewed(r, s)'
    BY <1>1, <1>3, <1>6, <1>7, <2>1, <2>4, <2>5, FirstAsked DEF Kept, Renewed, IsSource
  <2>7. SourcesFit(r)'
    BY <1>6, <1>7, <2>1, <2>4, <2>5, <2>6 DEF SourcesFit, Holding
  <2>8. ItemsFit(r)'  BY <1>6, <1>7, <2>1, <2>2 DEF Fits, ItemsFit, Holding
  <2>9. SeedsFit(r)'  BY <1>6, <1>7, <2>1 DEF SeedsFit, Holding
  <2> QED BY <2>7, <2>8, <2>9 DEF Fits
<1> QED BY <1>5, <1>9, <1>10, MoveKeeps

LEMMA RefusedKeeps ==
  ASSUME SymbolInv, NEW r \in Refresh, job[r].at \in Asking, NEW reason \in Reasons,
         Move(r, Report(job[r], ErrorStatus(reason)))
  PROVE  SymbolInv'
<1>1. PICK k : k = Report(job[r], ErrorStatus(reason))  OBVIOUS
<1>2. JobFits(k, listing)  BY <1>1, ReportFits DEF SymbolInv, JobsFit
<1>3. ErrorStatus(reason) # "Fetched"  BY RefusalsAreNoSuccess
<1>4. job'[r] = k /\ edited' = edited /\ mapping' = mapping /\ prices' = prices
  BY <1>1 DEF Move, SymbolInv, Shape
<1>5. ASSUME holder = r, exists PROVE Fits(r)'
  BY <1>1, <1>3, <1>4, <1>5, ReportsFit
<1> QED BY <1>1, <1>2, <1>5, MoveKeeps

LEMMA FetchYahooKeeps == ASSUME SymbolInv, NEW r \in Refresh, FetchYahoo(r) PROVE SymbolInv'
<1>1. JobFits(job[r], listing) /\ job[r].at = "fetch" /\ job[r].at \in Asking
  BY DEF SymbolInv, JobsFit, FetchYahoo, Doing, Asking
<1>2. Head(job[r].sources) = job[r].sources[1]  BY <1>1, FirstAsked
<1>3. job[r].sources[1].provider = "YAHOO"  BY <1>2 DEF FetchYahoo
<1>4. PICK got \in YahooFetches(listing, job[r].sources[1].row.symbol) :
          IF got.reason = None THEN Fetched(r, got.symbol, got.rows)
          ELSE Move(r, Report(job[r], ErrorStatus(got.reason)))
  BY <1>2 DEF FetchYahoo
<1>5. CASE got.reason = None
  BY <1>1, <1>3, <1>4, <1>5, YahooAnswers, FetchedKeeps
<1>6. CASE got.reason # None
  BY <1>1, <1>4, <1>6, YahooAnswers, RefusedKeeps
<1> QED BY <1>5, <1>6

LEMMA FetchNasdaqKeeps == ASSUME SymbolInv, NEW r \in Refresh, FetchNasdaq(r) PROVE SymbolInv'
<1>1. JobFits(job[r], listing) /\ job[r].at = "fetch" /\ job[r].at \in Asking
  BY DEF SymbolInv, JobsFit, FetchNasdaq, Doing, Asking
<1>2. Head(job[r].sources) = job[r].sources[1]  BY <1>1, FirstAsked
<1> DEFINE row == job[r].sources[1].row
<1>3. PICK answer \in Closings :
          LET got == NasdaqHistory(answer, row.cls, row.currency)
          IN  IF got.reason = None THEN Fetched(r, row.symbol, got.rows)
              ELSE Move(r, Report(job[r], ErrorStatus(got.reason)))
  BY <1>2 DEF FetchNasdaq
<1>4. PICK got : got = NasdaqHistory(answer, row.cls, row.currency)  OBVIOUS
<1>5. /\ got.reason = None => AreCloses(got.rows)
      /\ got.reason # None => got.reason \in Reasons
  BY <1>4, NasdaqAnswers
<1>6. CASE got.reason = None
  BY <1>1, <1>3, <1>4, <1>5, <1>6, FetchedKeeps
<1>7. CASE got.reason # None
  BY <1>1, <1>3, <1>4, <1>5, <1>7, RefusedKeeps
<1> QED BY <1>6, <1>7

LEMMA RecoverSymbolKeeps ==
  ASSUME SymbolInv, NEW r \in Refresh, RecoverSymbol(r) PROVE SymbolInv'
<1> DEFINE source == job[r].sources[1]
           fetched == job[r].fetched
           at == IF Mismatch(listing, fetched.rows) THEN "disable" ELSE "store"
<1>1. JobFits(job[r], listing) /\ job[r].at = "recover" /\ job[r].at \in Asking
  BY DEF SymbolInv, JobsFit, RecoverSymbol, Doing, Asking
<1>2. /\ Head(job[r].sources) = source /\ IsSource(source, source.provider)
      /\ source.provider \in Provider
      /\ Both(job[r].sources) => /\ source.provider = "YAHOO"
                                 /\ job[r].sources[2].provider = "NASDAQ_NORDIC"
  BY <1>1, FirstAsked, SourcesDiffer
<1>3. PICK row : row = [source.row EXCEPT !.symbol = fetched.symbol,
                                          !.currency = listing.currency, !.enabled = TRUE]
  OBVIOUS
<1>4. PICK j : j = [job[r] EXCEPT !.at = at]  OBVIOUS
<1>5. StoreMapping(r, source.provider, row, j)
  BY <1>2, <1>3, <1>4 DEF RecoverSymbol
<1>6. /\ IsRow(row) /\ row.symbol = fetched.symbol /\ row.enabled /\ row.cls = source.row.cls
  BY <1>2, <1>3 DEF IsRow, IsSource
<1>7. at \in {"disable", "store"} /\ (at = "store" => ~Mismatch(listing, fetched.rows))
  OBVIOUS
<1> HIDE DEF at
<1>8. /\ IsJob(j) /\ j.at = at /\ j.fetched = fetched /\ j.sources = job[r].sources
      /\ j.items = job[r].items
  BY <1>1, <1>4 DEF JobFits, IsJob
<1>9. AreSources(j.sources) /\ j.sources # <<>> /\ Unasked(j)
  BY <1>1, <1>8 DEF JobFits, Unasked
<1>10. JobFits(j, listing)
  BY <1>1, <1>7, <1>8, <1>9 DEF JobFits, Seeding, Asking, Holding, Rating
<1>11. ASSUME holder = r, exists, ~End(r) PROVE Fits(r)'
  <2>1. PICK s, n : s = source /\ n = job[r].sources[2]  OBVIOUS
  <2>2. /\ job'[r] = j /\ mapping' = [mapping EXCEPT ![s.provider] = row]
        /\ edited' = edited /\ prices' = prices
    BY <1>5, <1>11, <2>1 DEF StoreMapping, SymbolInv, Shape
  <2>3. Fits(r)  BY <1>11 DEF SymbolInv, HolderFits
  <2>4. mapping'[s.provider] = row /\ \A z \in Provider \ {s.provider} : mapping'[z] = mapping[z]
    BY <1>2, <2>1, <2>2 DEF SymbolInv, Shape
  <2>5. Renewed(r, s)'  BY <1>6, <1>8, <2>1, <2>2, <2>4 DEF Renewed
  <2>6. Both(j.sources) => Kept(r, n)
    BY <1>1, <1>8, <1>9, <2>1, <2>3 DEF Fits, SourcesFit, Asking
  <2>7. Both(j.sources) => Kept(r, n)'
    BY <1>2, <1>8, <2>1, <2>2, <2>4, <2>6 DEF Kept, Provider
  <2>8. SourcesFit(r)'  BY <1>7, <1>8, <2>1, <2>2, <2>5, <2>7 DEF SourcesFit
  <2>9. j.items[s.provider] = None  BY <1>8, <1>9, <2>1 DEF Unasked
  <2>10. ItemsFit(r)'
    BY <1>7, <1>8, <2>1, <2>2, <2>3, <2>4, <2>9 DEF Fits, ItemsFit
  <2>11. SeedsFit(r)'  BY <1>7, <1>8, <2>2 DEF SeedsFit
  <2> QED BY <2>8, <2>10, <2>11 DEF Fits
<1> QED BY <1>2, <1>5, <1>6, <1>10, <1>11, StoreKeeps

LEMMA DisableKeeps == ASSUME SymbolInv, NEW r \in Refresh, Disable(r) PROVE SymbolInv'
<1> DEFINE source == job[r].sources[1]
           fetched == job[r].fetched
<1>1. JobFits(job[r], listing) /\ job[r].at = "disable" /\ job[r].at \in Asking
  BY DEF SymbolInv, JobsFit, Disable, Doing, Asking
<1>2. /\ Head(job[r].sources) = source /\ IsSource(source, source.provider)
      /\ source.provider \in Provider
  BY <1>1, FirstAsked
<1>3. PICK row : row = [source.row EXCEPT !.symbol = fetched.symbol, !.enabled = FALSE,
                            !.currency = IF @ = None THEN listing.currency ELSE @]
  OBVIOUS
<1>4. PICK k : k = Report(job[r], "Failed")  OBVIOUS
<1>5. StoreMapping(r, source.provider, row, k)
  BY <1>2, <1>3, <1>4 DEF Disable
<1>6. IsRow(row)  BY <1>2, <1>3 DEF IsRow, IsSource
<1>7. JobFits(k, listing)  BY <1>1, <1>4, ReportFits
<1>8. ASSUME holder = r, exists, ~End(r) PROVE Fits(r)'
  <2>1. /\ job'[r] = k /\ mapping' = [mapping EXCEPT ![source.provider] = row]
        /\ edited' = edited /\ prices' = prices
    BY <1>5, <1>8 DEF StoreMapping, SymbolInv, Shape
  <2>2. \A z \in Provider \ {source.provider} : mapping'[z] = mapping[z]
    BY <1>2, <2>1 DEF SymbolInv, Shape
  <2> QED BY <1>1, <1>4, <1>8, <2>1, <2>2, ReportsFit
<1> QED BY <1>2, <1>5, <1>6, <1>7, <1>8, StoreKeeps

LEMMA StorePricesKeeps == ASSUME SymbolInv, NEW r \in Refresh, StorePrices(r) PROVE SymbolInv'
<1> DEFINE p == job[r].sources[1].provider
           rows == job[r].fetched.rows
<1>1. JobFits(job[r], listing) /\ job[r].at = "store" /\ job[r].at \in Asking
  BY DEF SymbolInv, JobsFit, StorePrices, Doing, Asking
<1>2. Head(job[r].sources) = job[r].sources[1] /\ p \in Provider  BY <1>1, FirstAsked
<1>3. CASE holder # r \/ ~exists  BY <1>3, EndKeeps DEF StorePrices
<1>4. CASE holder = r /\ exists
  <2>1. PICK k : k = Report(job[r], "Fetched")  OBVIOUS
  <2> DEFINE new == [d \in Dates |-> IF \E x \in rows : x.date = d
                                     THEN (CHOOSE x \in rows : x.date = d).currency
                                     ELSE prices[p][d]]
  <2>2. /\ prices' = [prices EXCEPT ![p] = new]
        /\ job' = [job EXCEPT ![r] = k]
        /\ UNCHANGED <<listing, exists, mapping, rates, holder, put, edits, edited>>
    BY <1>2, <1>4, <2>1 DEF StorePrices
  <2>3. JobFits(k, listing) /\ k.items[p].symbol = job[r].fetched.symbol
    BY <1>1, <2>1, ReportFits
  <2>4. /\ prices'[p] = new
        /\ \A z \in Provider \ {p} : prices'[z] = prices[z]
        /\ prices' = [z \in Provider |-> [d \in Dates |-> prices'[z][d]]]
    BY <1>2, <2>2 DEF SymbolInv, Shape
  <2>5. AreCloses(rows) /\ \A x \in rows : x.currency = listing.currency
    BY <1>1 DEF JobFits, Holding, Mismatch
  <2>6. \A d \in Dates : (\E x \in rows : x.date = d) =>
           new[d] = listing.currency /\ new[d] # None
    <3> SUFFICES ASSUME NEW d \in Dates, \E x \in rows : x.date = d
                 PROVE  new[d] = listing.currency /\ new[d] # None
      OBVIOUS
    <3>1. (CHOOSE x \in rows : x.date = d) \in rows  OBVIOUS
    <3> QED BY <2>5, <3>1 DEF AreCloses
  <2>7. \A d \in Dates : (~\E x \in rows : x.date = d) => new[d] = prices[p][d]  OBVIOUS
  <2>8. \E d \in Dates : new[d] # None
    <3>1. PICK x \in rows : x.date \in Dates  BY <2>5 DEF AreCloses
    <3> HIDE DEF new
    <3> QED BY <2>6, <3>1
  <2> HIDE DEF new
  <2>9. PricesInInstrumentCurrency'
    BY <1>2, <1>4, <2>2, <2>4, <2>6, <2>7 DEF SymbolInv, PricesInInstrumentCurrency
  <2>10. Shape'  BY <2>2, <2>4 DEF SymbolInv, Shape
  <2>11. JobsFit'  BY <2>2, <2>3 DEF SymbolInv, Shape, JobsFit
  <2>12. Fits(r)'
    <3>1. job'[r] = k /\ edited' = edited /\ mapping' = mapping
      BY <2>2 DEF SymbolInv, Shape
    <3>2. Renewed(r, job[r].sources[1])
      BY <1>1, <1>4 DEF SymbolInv, HolderFits, Fits, SourcesFit, JobFits
    <3>3. p \notin edited[r] => /\ IsRow(mapping[p]) /\ mapping[p].enabled
                                /\ mapping[p].symbol = k.items[p].symbol
      BY <2>3, <3>2 DEF Renewed
    <3> QED BY <1>1, <1>4, <2>1, <2>4, <2>8, <3>1, <3>3, ReportsFit
  <2>13. HolderFits'  BY <1>4, <2>2, <2>12 DEF HolderFits
  <2> QED BY <2>9, <2>10, <2>11, <2>13 DEF SymbolInv
<1> QED BY <1>3, <1>4

-----------------------------------------------------------------------------
(* Rates, and the user.                                                          *)

LEMMA FetchRatesKeeps == ASSUME SymbolInv, NEW r \in Refresh, FetchRates(r) PROVE SymbolInv'
<1>1. JobFits(job[r], listing) /\ job[r].at = "rates"
  BY DEF SymbolInv, JobsFit, FetchRates, Doing
<1>2. PICK j : /\ Move(r, j)
               /\ \/ j = [job[r] EXCEPT !.at = "over"] /\ listing.currency = "SEK"
                  \/ \E rows : j = [job[r] EXCEPT !.at = "storeRates", !.fetched = rows]
                               /\ rows # {}
                  \/ \E reason \in Reasons :
                        j = [job[r] EXCEPT !.at = "over",
                                !.items["FX"] = [status |-> ErrorStatus(reason)]]
  <2>1. CASE listing.currency = "SEK"  BY <2>1 DEF FetchRates
  <2>2. CASE listing.currency # "SEK"
    <3>1. PICK answer \in Rates :
              LET got == FxHistory(answer) IN
              Move(r, IF got.reason = None
                      THEN [job[r] EXCEPT !.at = "storeRates", !.fetched = got.rows]
                      ELSE [job[r] EXCEPT !.at = "over",
                               !.items["FX"] = [status |-> ErrorStatus(got.reason)]])
      BY <2>2 DEF FetchRates
    <3>2. PICK got : got = FxHistory(answer)  OBVIOUS
    <3>3. /\ got.reason = None => got.rows # {}
          /\ got.reason # None => got.reason \in Reasons
      BY <3>2, RatesAnswer
    <3>4. CASE got.reason = None
      <4>1. Move(r, [job[r] EXCEPT !.at = "storeRates", !.fetched = got.rows])
        BY <3>1, <3>2, <3>4
      <4> QED BY <3>3, <3>4, <4>1
    <3>5. CASE got.reason # None
      <4>1. Move(r, [job[r] EXCEPT !.at = "over",
                               !.items["FX"] = [status |-> ErrorStatus(got.reason)]])
        BY <3>1, <3>2, <3>5
      <4> QED BY <3>3, <3>5, <4>1
    <3> QED BY <3>4, <3>5
  <2> QED BY <2>1, <2>2
<1>3. /\ IsJob(j) /\ j.at \in {"over", "storeRates"} /\ j.sources = job[r].sources
      /\ \A z \in Provider : j.items[z] = job[r].items[z]
      /\ j.at = "storeRates" => j.fetched # {}
      /\ j.at = "over" /\ listing.currency # "SEK" =>
            \E reason \in Reasons : j.items["FX"] = [status |-> ErrorStatus(reason)]
  BY <1>1, <1>2 DEF JobFits, IsJob, Provider
<1>4. JobFits(j, listing)
  BY <1>1, <1>3 DEF JobFits, Seeding, Asking, Holding, Rating
<1>5. ASSUME holder = r, exists PROVE Fits(r)'
  <2>1. job'[r] = j /\ mapping' = mapping /\ edited' = edited /\ prices' = prices
        /\ listing' = listing /\ rates' = rates
    BY <1>2 DEF Move, SymbolInv, Shape
  <2>2. Fits(r)  BY <1>5 DEF SymbolInv, HolderFits
  <2>3. j.at = "over" /\ listing.currency # "SEK" => j.items["FX"].status # "Fetched"
    <3> SUFFICES ASSUME j.at = "over", listing.currency # "SEK"
                 PROVE  j.items["FX"].status # "Fetched"
      OBVIOUS
    <3>1. PICK reason \in Reasons : j.items["FX"] = [status |-> ErrorStatus(reason)]  BY <1>3
    <3>2. j.items["FX"].status = ErrorStatus(reason)  BY <3>1
    <3> QED BY <3>2, RefusalsAreNoSuccess
  <2> QED BY <1>3, <2>1, <2>2, <2>3 DEF Fits, SeedsFit, SourcesFit, ItemsFit, Asking
<1> QED BY <1>2, <1>4, <1>5, MoveKeeps

LEMMA StoreRatesKeeps == ASSUME SymbolInv, NEW r \in Refresh, StoreRates(r) PROVE SymbolInv'
<1>1. JobFits(job[r], listing) /\ job[r].at = "storeRates"
  BY DEF SymbolInv, JobsFit, StoreRates, Doing
<1>2. CASE holder # r  BY <1>2, EndKeeps DEF StoreRates
<1>3. CASE holder = r
  <2>1. PICK j : j = [job[r] EXCEPT !.at = "over", !.fetched = None,
                                    !.items["FX"] = [status |-> "Fetched"]]
    OBVIOUS
  <2>2. /\ rates' = rates \cup {x.date : x \in job[r].fetched}
        /\ job' = [job EXCEPT ![r].at = "over", ![r].fetched = None,
                              ![r].items["FX"] = [status |-> "Fetched"]]
        /\ UNCHANGED <<listing, exists, mapping, prices, holder, put, edits, edited>>
    BY <1>3 DEF StoreRates
  <2>3. job' = [job EXCEPT ![r] = j]
    BY <1>1, <2>1, <2>2 DEF SymbolInv, Shape, JobFits, IsJob
  <2>4. /\ IsJob(j) /\ j.at = "over" /\ j.sources = job[r].sources
        /\ \A z \in Provider : j.items[z] = job[r].items[z]
    BY <1>1, <2>1 DEF JobFits, IsJob, Provider
  <2>5. JobFits(j, listing)
    BY <1>1, <2>4 DEF JobFits, Seeding, Asking, Holding, Rating
  <2>6. rates' # {}  BY <1>1, <2>2 DEF JobFits
  <2>7. Shape'  BY <2>2, <2>3 DEF SymbolInv, Shape
  <2>8. JobsFit'  BY <2>2, <2>3, <2>5 DEF SymbolInv, Shape, JobsFit
  <2>9. PricesInInstrumentCurrency'  BY <2>2 DEF SymbolInv, PricesInInstrumentCurrency
  <2>10. job'[r] = j  BY <2>3 DEF SymbolInv, Shape
  <2>11. ASSUME exists PROVE Fits(r)'
    <3>1. Fits(r)  BY <1>3, <2>11 DEF SymbolInv, HolderFits
    <3> QED BY <2>2, <2>4, <2>6, <2>10, <3>1
            DEF Fits, SeedsFit, SourcesFit, ItemsFit, Asking
  <2>12. HolderFits'  BY <1>3, <2>2, <2>11 DEF HolderFits
  <2> QED BY <2>7, <2>8, <2>9, <2>12 DEF SymbolInv
<1> QED BY <1>2, <1>3

LEMMA PutKeeps ==
  ASSUME SymbolInv, NEW p \in Provider, NEW body \in Body, Put(p, body)
  PROVE  SymbolInv'
<1>1. PICK row : \E cls : row = [body EXCEPT !.cls = cls] /\ put' = [provider |-> p, row |-> row]
  BY DEF Put
<1>2. IsRow(row)  BY <1>1, SymbolBounds DEF IsRow
<1>3. put'.provider \in Provider /\ IsRow(put'.row)
  <2>1. PICK new : new = [provider |-> p, row |-> row]  OBVIOUS
  <2> QED BY <1>1, <1>2, <2>1
<1>4. UNCHANGED <<listing, exists, mapping, prices, rates, holder, job, edited>>  BY DEF Put
<1> QED BY <1>3, <1>4 DEF SymbolInv, Shape, JobsFit, PricesInInstrumentCurrency, HolderFits,
           Fits, SeedsFit, SourcesFit, ItemsFit, Kept, Renewed

LEMMA PutStoresKeeps == ASSUME SymbolInv, PutStores PROVE SymbolInv'
<1>1. UNCHANGED <<listing, exists, prices, rates, holder, job>> /\ put' = None
  BY DEF PutStores
<1>2. CASE ~exists
  BY <1>1, <1>2 DEF PutStores, SymbolInv, Shape, JobsFit, PricesInInstrumentCurrency, HolderFits
<1>3. CASE exists
  <2>1. /\ mapping' = [mapping EXCEPT ![put.provider] = put.row]
        /\ edited' = [r \in Refresh |-> edited[r] \cup {put.provider}]
        /\ put.provider \in Provider /\ IsRow(put.row)
    BY <1>3 DEF PutStores, SymbolInv, Shape
  <2>2. Shape'  BY <1>1, <2>1 DEF SymbolInv, Shape
  <2>3. JobsFit'  BY <1>1 DEF SymbolInv, JobsFit
  <2>4. PricesInInstrumentCurrency'  BY <1>1 DEF SymbolInv, PricesInInstrumentCurrency
  <2>5. ASSUME NEW r \in Refresh, holder = r PROVE Fits(r)'
    <3>1. Fits(r)  BY <1>3, <2>5 DEF SymbolInv, HolderFits
    <3>2. \A p \in Provider : p \notin edited'[r] => p \notin edited[r] /\ mapping'[p] = mapping[p]
      BY <2>1 DEF SymbolInv, Shape
    <3>3. SeedsFit(r)'  BY <1>1, <3>1, <3>2 DEF Fits, SeedsFit, Provider
    <3>4. PICK j : j = job[r] /\ j = job'[r]  BY <1>1
    <3>5. JobFits(j, listing)  BY <3>4 DEF SymbolInv, JobsFit
    <3>6. PICK s, n : s = j.sources[1] /\ n = j.sources[2]  OBVIOUS
    <3>7. j.at \in Asking => /\ s.provider \in Provider
                             /\ Both(j.sources) => n.provider \in Provider
      BY <3>5, <3>6, FirstAsked, SourcesDiffer DEF Provider
    <3>8. j.at = "read" /\ j.sources # <<>> => s.provider \in Provider /\ ~Both(j.sources)
      BY <3>5, <3>6, SourcesDiffer DEF JobFits, Reads, Provider
    <3>9. SourcesFit(r)'
      BY <1>1, <3>1, <3>2, <3>4, <3>6, <3>7, <3>8 DEF Fits, SourcesFit, Kept, Renewed, Asking
    <3>10. ItemsFit(r)'  BY <1>1, <3>1, <3>2 DEF Fits, ItemsFit
    <3> QED BY <3>3, <3>9, <3>10 DEF Fits
  <2>6. HolderFits'  BY <1>1, <2>5 DEF HolderFits
  <2> QED BY <2>2, <2>3, <2>4, <2>6 DEF SymbolInv
<1> QED BY <1>2, <1>3

LEMMA RemoveKeeps == ASSUME SymbolInv, RemoveInstrument PROVE SymbolInv'
<1> USE DEF RemoveInstrument
<1>1. Shape'  BY DEF SymbolInv, Shape
<1>2. JobsFit'  BY DEF SymbolInv, JobsFit
<1>3. PricesInInstrumentCurrency'  BY DEF PricesInInstrumentCurrency
<1>4. HolderFits'  BY DEF HolderFits
<1> QED BY <1>1, <1>2, <1>3, <1>4 DEF SymbolInv

-----------------------------------------------------------------------------
(* The theorems.                                                                 *)

LEMMA StepsKeep == SymbolInv /\ [Next]_vars => SymbolInv'
<1> SUFFICES ASSUME SymbolInv, [Next]_vars PROVE SymbolInv'  OBVIOUS
<1>1. CASE \E r \in Refresh : RefreshStep(r)
  <2>1. PICK r \in Refresh : RefreshStep(r)  BY <1>1
  <2>2. CASE NoticeLost(r) \/ Finish(r) \/ Skip(r)
    BY <2>2, EndKeeps DEF NoticeLost, Finish, Skip
  <2> QED BY <2>1, <2>2, ClaimKeeps, LookForYahooKeeps, SearchYahooKeeps, SeedYahooKeeps,
             LookForNasdaqKeeps, SearchNasdaqKeeps, SeedNasdaqKeeps, ReadSourceKeeps,
             FetchYahooKeeps, FetchNasdaqKeeps, RecoverSymbolKeeps, DisableKeeps,
             StorePricesKeeps, FetchRatesKeeps, StoreRatesKeeps DEF RefreshStep
<1>2. CASE \E p \in Provider : \E body \in Body : Put(p, body)  BY <1>2, PutKeeps
<1>3. CASE PutStores  BY <1>3, PutStoresKeeps
<1>4. CASE RemoveInstrument  BY <1>4, RemoveKeeps
<1>5. CASE UNCHANGED vars
  BY <1>5 DEF vars, SymbolInv, Shape, JobsFit, PricesInInstrumentCurrency, HolderFits,
              Fits, SeedsFit, SourcesFit, ItemsFit, Kept, Renewed
<1> QED BY <1>1, <1>2, <1>3, <1>4, <1>5 DEF Next

\* The invariant behind the three: what a refresh has at hand is what it read, and what
\* it will write over is what it read, unless the user stored it since or the lease is
\* another's.
THEOREM SymbolInvHolds == Spec => []SymbolInv
<1> QED BY InitFits, StepsKeep, PTL DEF Spec

\* No interleaving of refreshes that take the lease over from each other, edits and
\* deletions stores a close in another currency than the instrument's, or leaves one of
\* a deleted instrument (refresh_one_source, delete_by_id).
THEOREM PricesFit == Spec => []PricesInInstrumentCurrency
<1>1. SymbolInv => PricesInInstrumentCurrency  BY DEF SymbolInv
<1> QED BY <1>1, SymbolInvHolds, PTL

\* While the lease is its own, what a refresh reports as fetched has closes (or rates),
\* and the source is connected by the symbol they came from, unless the user edited it
\* meanwhile.  None is a value of its own: it is no mapping.
THEOREM ReportsAreTrue == ASSUME ~IsRow(None) PROVE Spec => []ReportsComeTrue
<1>1. SymbolInv => ReportsComeTrue
  <2> SUFFICES ASSUME SymbolInv, NEW r \in Refresh, holder = r, exists
               PROVE  /\ \A p \in Provider :
                            LET item == job[r].items[p] IN
                            item # None /\ item.status = "Fetched" =>
                               /\ \E d \in Dates : prices[p][d] # None
                               /\ p \notin edited[r] => /\ mapping[p] # None
                                                        /\ mapping[p].enabled
                                                        /\ mapping[p].symbol = item.symbol
                      /\ Doing(r, "over") /\ listing.currency # "SEK" /\ rates = {} =>
                            job[r].items["FX"].status # "Fetched"
    BY DEF ReportsComeTrue
  <2>1. ItemsFit(r)  BY DEF SymbolInv, HolderFits, Fits
  <2> QED BY <2>1 DEF ItemsFit, Doing
<1> QED BY <1>1, SymbolInvHolds, PTL

\* What a step of a refresh may make of a mapping, as RefreshesKeepChoices states it.
Allowed(r, p) ==
    LET old == mapping[p]  new == mapping'[p] IN
    \/ /\ old = None
       /\ p = "NASDAQ_NORDIC" => \/ "YAHOO" \in edited[r]
                                 \/ mapping["YAHOO"] = None
                                 \/ ~mapping["YAHOO"].enabled
    \/ old # None /\ p = "YAHOO" /\ ~old.enabled /\ KnownIsin(listing)
    \/ /\ old # None /\ old.enabled /\ new.cls = old.cls
       /\ new.enabled => p = "YAHOO" /\ new.symbol # old.symbol

\* A mapping that changes is the one that is stored.
LEMMA OneIsStored ==
  ASSUME SymbolInv, NEW r, NEW p, NEW row, NEW j, StoreMapping(r, p, row, j),
         NEW z \in Provider, mapping'[z] # mapping[z]
  PROVE  z = p /\ mapping'[p] = row /\ holder = r /\ exists
BY DEF StoreMapping, End, SymbolInv, Shape

LEMMA SeedsAreAllowed ==
  ASSUME SymbolInv, NEW r \in Refresh, SeedYahoo(r) \/ SeedNasdaq(r),
         NEW p \in Provider, p \notin edited[r], mapping'[p] # mapping[p]
  PROVE  Allowed(r, p)
<1>1. CASE SeedYahoo(r)
  <2>1. p = "YAHOO" /\ holder = r /\ exists  BY <1>1, OneIsStored DEF SeedYahoo
  <2>2. SeedsFit(r) /\ job[r].at = "seed"
    BY <1>1, <2>1 DEF SymbolInv, HolderFits, Fits, SeedYahoo, Doing
  <2> QED BY <2>1, <2>2 DEF SeedsFit, Off, Allowed
<1>2. CASE SeedNasdaq(r)
  <2>1. p = "NASDAQ_NORDIC" /\ holder = r /\ exists  BY <1>2, OneIsStored DEF SeedNasdaq
  <2>2. SeedsFit(r) /\ job[r].at = "seedNasdaq"
    BY <1>2, <2>1 DEF SymbolInv, HolderFits, Fits, SeedNasdaq, Doing
  <2> QED BY <2>1, <2>2 DEF SeedsFit, Off, Allowed
<1> QED BY <1>1, <1>2

LEMMA RewritesAreAllowed ==
  ASSUME ~IsRow(None), SymbolInv, NEW r \in Refresh, RecoverSymbol(r) \/ Disable(r),
         NEW p \in Provider, p \notin edited[r], mapping'[p] # mapping[p]
  PROVE  Allowed(r, p)
<1> DEFINE source == job[r].sources[1]
           fetched == job[r].fetched
<1>1. JobFits(job[r], listing) /\ job[r].at \in {"recover", "disable"} /\ job[r].at \in Asking
  BY DEF SymbolInv, JobsFit, RecoverSymbol, Disable, Doing, Asking
<1>2. /\ Head(job[r].sources) = source /\ IsSource(source, source.provider)
      /\ job[r].sources # <<>>
  BY <1>1, FirstAsked
<1>3. CASE RecoverSymbol(r)
  <2>1. PICK row : row = [source.row EXCEPT !.symbol = fetched.symbol,
                              !.currency = listing.currency, !.enabled = TRUE]
    OBVIOUS
  <2>2. p = source.provider /\ mapping'[p] = row /\ holder = r /\ exists
    BY <1>2, <1>3, <2>1, OneIsStored DEF RecoverSymbol
  <2>3. job[r].at = "recover"  BY <1>3 DEF RecoverSymbol, Doing
  <2>4. mapping[p] = source.row
    BY <1>2, <2>2, <2>3 DEF SymbolInv, HolderFits, Fits, SourcesFit, Asking, Kept
  <2>5. row.cls = source.row.cls /\ row.symbol = fetched.symbol
    BY <1>2, <2>1 DEF IsSource, IsRow
  <2>6. source.provider = "YAHOO" /\ fetched.symbol # source.row.symbol
    BY <1>1, <2>3 DEF JobFits
  <2> QED BY <1>2, <2>2, <2>4, <2>5, <2>6 DEF IsSource, Allowed
<1>4. CASE Disable(r)
  <2>1. PICK row : row = [source.row EXCEPT !.symbol = fetched.symbol, !.enabled = FALSE,
                              !.currency = IF @ = None THEN listing.currency ELSE @]
    OBVIOUS
  <2>2. p = source.provider /\ mapping'[p] = row /\ holder = r /\ exists
    BY <1>2, <1>4, <2>1, OneIsStored DEF Disable
  <2>3. job[r].at = "disable"  BY <1>4 DEF Disable, Doing
  <2>4. IsRow(mapping[p]) /\ mapping[p].enabled /\ mapping[p].cls = source.row.cls
    BY <1>2, <2>2, <2>3 DEF SymbolInv, HolderFits, Fits, SourcesFit, Asking, Renewed
  <2>5. row.cls = source.row.cls /\ ~row.enabled
    BY <1>2, <2>1 DEF IsSource, IsRow
  <2>6. mapping[p] # None  BY <2>4
  <2> QED BY <2>2, <2>4, <2>5, <2>6 DEF Allowed
<1> QED BY <1>3, <1>4

\* Only the steps of a refresh move it, and only four kinds of them write mappings.
LEMMA WritersOfMappings ==
  ASSUME SymbolInv, Next, NEW r \in Refresh, job'[r] # job[r], NEW p \in Provider,
         mapping'[p] # mapping[p]
  PROVE  SeedYahoo(r) \/ SeedNasdaq(r) \/ RecoverSymbol(r) \/ Disable(r)
<1>1. PICK q \in Refresh : RefreshStep(q)
  BY DEF Next, Put, PutStores, RemoveInstrument
<1>2. SeedYahoo(q) \/ SeedNasdaq(q) \/ RecoverSymbol(q) \/ Disable(q)
  BY <1>1 DEF RefreshStep, Claim, NoticeLost, Finish, Skip, End, Move, Look, Fetched,
              LookForYahoo, SearchYahoo, LookForNasdaq, SearchNasdaq, ReadSource,
              FetchYahoo, FetchNasdaq, StorePrices, FetchRates, StoreRates
<1>3. q # r => job'[r] = job[r]
  BY <1>2 DEF SeedYahoo, SeedNasdaq, RecoverSymbol, Disable, StoreMapping, End,
              SymbolInv, Shape
<1> QED BY <1>2, <1>3

\* A refresh overwrites no choice of the user that it has read: it creates a mapping
\* only where there was none, switches on none but the known ISIN's, gives a new symbol
\* only to an enabled Yahoo mapping, and keeps the asset class (seed_provider_symbols,
\* persist_mapping).
THEOREM ChoicesAreKept == ASSUME ~IsRow(None) PROVE Spec => RefreshesKeepChoices
<1>1. SymbolInv /\ [Next]_vars =>
        [\A r \in Refresh : \A p \in Provider \ edited[r] :
            LET old == mapping[p]  new == mapping'[p] IN
            job'[r] # job[r] /\ new # old =>
               \/ /\ old = None
                  /\ p = "NASDAQ_NORDIC" => \/ "YAHOO" \in edited[r]
                                            \/ mapping["YAHOO"] = None
                                            \/ ~mapping["YAHOO"].enabled
               \/ old # None /\ p = "YAHOO" /\ ~old.enabled /\ KnownIsin(listing)
               \/ /\ old # None /\ old.enabled /\ new.cls = old.cls
                  /\ new.enabled => p = "YAHOO" /\ new.symbol # old.symbol]_vars
  <2>1. ASSUME SymbolInv, Next, NEW r \in Refresh, NEW p \in Provider \ edited[r],
               job'[r] # job[r], mapping'[p] # mapping[p]
        PROVE  Allowed(r, p)
    BY <2>1, WritersOfMappings, SeedsAreAllowed, RewritesAreAllowed
  <2> QED BY <2>1 DEF Allowed
<1> QED BY <1>1, SymbolInvHolds, PTL DEF Spec, RefreshesKeepChoices
=============================================================================
