--------------------------- MODULE ProviderSymbols --------------------------
(* The price sources of one instrument: the provider mappings a refresh seeds,   *)
(* fetches through, rewrites and disables (backend/src/market_data), while the   *)
(* user edits them (api/provider_symbols.rs).  A refresh looks a mapping up,     *)
(* asks a provider over the network, and writes back what it made of the answer; *)
(* each write first checks the refresh lease (fenced_write), none checks that    *)
(* the mapping is still the one that was looked up.                              *)
(*                                                                               *)
(* A refresh seeds all instruments before it fetches any; the steps it makes for *)
(* other instruments are time that passes here.  RefreshLease models the lease;  *)
(* here it is the refresh that holds it.                                         *)
EXTENDS SymbolMatching

CONSTANTS Refresh,         \* refreshes, each run once
          Listing,         \* the instruments to choose from
          Stored,          \* [Provider -> mappings it may have before]
          MaxDate,         \* dates are 1..MaxDate; a window ends at MaxDate
          Body,            \* mappings a user may put
          Charts, Closings, Quotes, Groups, Rates,     \* answers of the providers
          MaxEdits         \* bound: edits of the user

\* A mapping: a symbol, Nasdaq's asset class, a currency, and whether it is on.
IsRow(row) == row = [symbol |-> row.symbol, cls |-> row.cls, currency |-> row.currency,
                     enabled |-> row.enabled]

ASSUME SymbolBounds ==
    /\ MaxDate \in Nat \ {0} /\ MaxEdits \in Nat
    /\ \A p \in {"YAHOO", "NASDAQ_NORDIC"} : \A row \in Stored[p] : row = None \/ IsRow(row)
    /\ \A body \in Body : IsRow(body)
    /\ None \notin Refresh

VARIABLES listing,    \* the instrument
          exists,     \* it has not been deleted
          mapping,    \* instrument_provider_symbols: [Provider -> row or None]
          prices,     \* prices: [Provider -> [date -> currency or None]]
          rates,      \* fx_rates: the dates with the instrument's currency in SEK
          holder,     \* the refresh that holds the lease, or None
          job,        \* what each refresh is doing
          put,        \* the user's PUT under way, or None
          edits,
          edited      \* history: [Refresh -> providers the user stored since it looked]

vars == <<listing, exists, mapping, prices, rates, holder, job, put, edits, edited>>

\* PRICE_PROVIDER_PRECEDENCE.
Precedence == <<"YAHOO", "NASDAQ_NORDIC">>
Provider == {"YAHOO", "NASDAQ_NORDIC"}
Dates == 1..MaxDate

NoItems == [p \in Provider \cup {"FX"} |-> None]
Start == [at |-> "claim", yahooOn |-> FALSE, seed |-> None, several |-> FALSE,
          read |-> <<>>, sources |-> <<>>, fetched |-> None, items |-> NoItems]

Init == /\ listing \in Listing /\ exists = TRUE
        /\ mapping \in {m \in [Provider -> UNION {Stored[p] : p \in Provider}] :
                          \A p \in Provider : m[p] \in Stored[p]}
        /\ prices = [p \in Provider |-> [d \in Dates |-> None]]
        /\ rates = {} /\ holder = None /\ job = [r \in Refresh |-> Start]
        /\ put = None /\ edits = 0 /\ edited = [r \in Refresh |-> {}]

-----------------------------------------------------------------------------
(* Steps of a refresh.                                                           *)

Doing(r, at) == job[r].at = at

Move(r, j) == /\ job' = [job EXCEPT ![r] = j]
              /\ UNCHANGED <<listing, exists, mapping, prices, rates, holder, put, edits, edited>>

\* r looks the mapping of p up: from here on edits of it overtake r.
Look(r, p, j) == /\ job' = [job EXCEPT ![r] = j]
                 /\ edited' = [edited EXCEPT ![r] = @ \ {p}]
                 /\ UNCHANGED <<listing, exists, mapping, prices, rates, holder, put, edits>>

\* The run ends; execute_refresh returns and finish_run gives the lease up.
End(r) == /\ job' = [job EXCEPT ![r] = [Start EXCEPT !.at = "done"]]
          /\ edited' = [edited EXCEPT ![r] = {}]
          /\ holder' = IF holder = r THEN None ELSE holder
          /\ UNCHANGED <<listing, exists, mapping, prices, rates, put, edits>>

\* fenced_write of a mapping: refused without the lease, and by the foreign key when
\* the instrument is gone; then the run ends.
StoreMapping(r, p, row, j) ==
    IF holder # r \/ ~exists THEN End(r)
    ELSE /\ mapping' = [mapping EXCEPT ![p] = row]
         /\ job' = [job EXCEPT ![r] = j]
         /\ UNCHANGED <<listing, exists, prices, rates, holder, put, edits, edited>>

\* A refresh starts, if need be by taking a stale lease over, and lists the
\* instruments.
Claim(r) == /\ Doing(r, "claim") /\ exists
            /\ holder' = r
            /\ job' = [job EXCEPT ![r].at = "look"]
            /\ UNCHANGED <<listing, exists, mapping, prices, rates, put, edits, edited>>

\* It notices between two sources that its lease is gone.
NoticeLost(r) == job[r].at \in {"fetch", "rates"} /\ holder # r /\ End(r)

-----------------------------------------------------------------------------
(* Seeding (seed_provider_symbols).                                              *)

FaultSeedFor(inst, row) ==      \* Fault: a disabled mapping counts as none.
    IF row # None /\ row.enabled THEN None
    ELSE IF KnownSeed(inst) # None THEN KnownSeed(inst) ELSE ExchangeSeed(inst)

\* The seed that takes no search.
SeedFor(inst, row) ==
    IF row # None /\ row.enabled THEN None
    ELSE IF KnownSeed(inst) # None \/ row # None THEN KnownSeed(inst)
    ELSE ExchangeSeed(inst)

LookForYahoo(r) ==
    /\ Doing(r, "look")
    /\ LET inst == listing
           row == mapping["YAHOO"]
           seed == SeedFor(inst, row)
           on == IF seed # None THEN seed.enabled ELSE row # None /\ row.enabled
           at == IF seed # None THEN "seed"
                 ELSE IF row = None /\ SearchesYahoo(inst) THEN "search"
                 ELSE IF on THEN "read" ELSE "lookNasdaq"
       IN  Look(r, "YAHOO", [job[r] EXCEPT !.at = at, !.seed = seed, !.yahooOn = on])

SearchYahoo(r) ==
    /\ Doing(r, "search")
    /\ \E answer \in Quotes :
          LET seed == SearchSeed(listing, YahooHits(answer))
          IN  Move(r, [job[r] EXCEPT !.seed = seed, !.yahooOn = seed # None,
                                     !.at = IF seed = None THEN "lookNasdaq" ELSE "seed"])

SeedYahoo(r) ==
    /\ Doing(r, "seed")
    /\ LET j == job[r] IN
       StoreMapping(r, "YAHOO",
          [symbol |-> j.seed.symbol, cls |-> None, currency |-> listing.currency,
           enabled |-> j.seed.enabled],
          [j EXCEPT !.at = IF j.yahooOn THEN "read" ELSE "lookNasdaq", !.seed = None])

LookForNasdaq(r) ==
    /\ Doing(r, "lookNasdaq")
    /\ Look(r, "NASDAQ_NORDIC",
          [job[r] EXCEPT !.at = IF mapping["NASDAQ_NORDIC"] # None \/ ~HasIdentifier(listing)
                                THEN "read" ELSE "searchNasdaq"])

\* An ambiguity is kept for the report; a failed search is not.
SearchNasdaq(r) ==
    /\ Doing(r, "searchNasdaq")
    /\ \E answer \in Groups :
          LET found == NasdaqHits(answer)
              hit == UniqueMatch(listing, found.rows)
          IN  IF found.reason # None \/ hit = None
              THEN Move(r, [job[r] EXCEPT !.at = "read",
                               !.several = Ambiguous(listing, found.rows)])
              ELSE Move(r, [job[r] EXCEPT !.at = "seedNasdaq", !.seed = hit])

SeedNasdaq(r) ==
    /\ Doing(r, "seedNasdaq")
    /\ LET j == job[r] IN
       StoreMapping(r, "NASDAQ_NORDIC",
          [symbol |-> j.seed.symbol, cls |-> j.seed.cls, currency |-> j.seed.currency,
           enabled |-> TRUE],
          [j EXCEPT !.at = "read", !.seed = None])

-----------------------------------------------------------------------------
(* Fetching (execute_refresh, refresh_one_source).                               *)

\* A latest refresh fetches what is held or wanted, a backfill what was ever traded.
Targeted(mode, inst) == IF mode = "Latest" THEN inst.held \/ inst.wanted ELSE inst.traded

Mode == {"Latest", "Backfill"}

\* The instrument is no target of a refresh of its mode.
Skip(r) == /\ Doing(r, "read") /\ job[r].read = <<>>
           /\ \E mode \in Mode : ~Targeted(mode, listing)
           /\ End(r)

\* enabled_price_sources: the mappings of a target one by one, in order of precedence.
ReadSource(r) ==
    /\ Doing(r, "read")
    /\ job[r].read # <<>> \/ \E mode \in Mode : Targeted(mode, listing)
    /\ LET j == job[r]
           p == Precedence[Len(j.read) + 1]
           row == mapping[p]
           known == IF row # None /\ row.enabled
                    THEN Append(j.sources, [provider |-> p, row |-> row]) ELSE j.sources
           next == [j EXCEPT !.read = Append(@, p), !.sources = known]
       IN  IF Len(next.read) < Len(Precedence) THEN Look(r, p, next)
           ELSE IF known # <<>>
           THEN Look(r, p, [next EXCEPT !.at = "fetch"])
           ELSE Look(r, p, [next EXCEPT !.at = "rates",       \* unsourced_item
                               !.items["NASDAQ_NORDIC"] =
                                  [status |-> IF j.several THEN "Ambiguous" ELSE "Unmapped",
                                   symbol |-> None]])

\* provider_error_status.
ErrorStatus(reason) ==
    CASE reason = "SymbolUnmapped" -> "Unmapped"
      [] reason \in {"NoDataInRange", "NotListed", "MarketClosed"} -> "Missing"
      [] reason \in {"RateLimited", "ProviderError"} -> "Failed"
      [] reason = "ProviderUnavailable" -> "Unavailable"

\* The next source, or the end of the run, with the item of this one.
Report(j, status) ==
    LET p == Head(j.sources).provider
        rest == Tail(j.sources)
        symbol == IF j.at = "fetch" THEN Head(j.sources).row.symbol ELSE j.fetched.symbol
    IN  [j EXCEPT !.items[p] = [status |-> status, symbol |-> symbol], !.sources = rest, !.fetched = None,
                  !.at = IF rest = <<>> THEN "rates" ELSE "fetch"]

FaultMismatch(inst, rows) ==      \* Fault: only the newest close is looked at.
    \E x \in rows : x.currency # inst.currency /\ x.date = LatestDate(rows)

Mismatch(inst, rows) == \E x \in rows : x.currency # inst.currency

FaultAfterFetch(inst, source, fetched) ==      \* Fault: a new symbol is not kept.
    IF Mismatch(inst, fetched.rows) THEN "disable" ELSE "store"

AfterFetch(inst, source, fetched) ==
    IF fetched.symbol # source.row.symbol THEN "recover"
    ELSE IF Mismatch(inst, fetched.rows) THEN "disable" ELSE "store"

Fetched(r, symbol, rows) ==
    LET j == job[r]
        fetched == [symbol |-> symbol, rows |-> rows]
    IN  Move(r, [j EXCEPT !.fetched = fetched,
                          !.at = AfterFetch(listing, Head(j.sources), fetched)])

\* What Yahoo may tell: outcomes of a chart, and hits of the searches by ISIN, if there
\* is one, and by name; a search that fails has none.
Histories == {YahooHistory(answer) : answer \in Charts}
Finds(inst) ==
    LET hits == {YahooHits(answer).rows : answer \in Quotes}
    IN  IF inst.isin \in Identifiers /\ inst.isin # inst.name
        THEN {byIsin \o byName : byIsin, byName \in hits}
        ELSE hits

\* Dates are 1..MaxDate in the answers too, and the absence of a reason is none.
ASSUME AnswersAreDated ==
    /\ \A history \in Histories : \A x \in history.rows : x.date \in Dates
    /\ \A answer \in Closings : NasdaqRefusal(answer) = None /\ answer.closes # None =>
          \A c \in answer.closes : c[1] \in Dates
    /\ None \notin Reasons

\* price_history_with_symbol_recovery: the mapped symbol's chart; when it is not up to
\* date, or says that there is no such symbol, a newer symbol if one is found.
YahooFetches(inst, mapped) ==
    LET plain(first) == [reason |-> first.reason, symbol |-> mapped, rows |-> first.rows]
        current(first) == first.rows # {} /\ LatestDate(first.rows) >= MaxDate
        final(first) == first.reason # None /\ ~Recoverable(first.reason)
        found == {Candidates(inst, mapped, hits) : hits \in Finds(inst)}
        renewed(first) ==
            {[reason |-> None, symbol |-> c.symbol, rows |-> Merged(first.rows, c.rows)] :
                c \in UNION {Recoveries(inst, s, Histories, first.rows) : s \in found}}
        stuck == {first \in Histories : ~current(first) /\ ~final(first)}
    IN  {plain(first) : first \in Histories}
        \cup IF Searches(inst) THEN UNION {renewed(first) : first \in stuck} ELSE {}

\* A source without a registered client (the program registers both) is reported like
\* one that cannot be reached.
FetchYahoo(r) ==
    /\ Doing(r, "fetch") /\ Head(job[r].sources).provider = "YAHOO"
    /\ \E got \in YahooFetches(listing, Head(job[r].sources).row.symbol) :
          IF got.reason = None THEN Fetched(r, got.symbol, got.rows)
          ELSE Move(r, Report(job[r], ErrorStatus(got.reason)))

FetchNasdaq(r) ==
    /\ Doing(r, "fetch") /\ Head(job[r].sources).provider = "NASDAQ_NORDIC"
    /\ \E answer \in Closings :
          LET row == Head(job[r].sources).row
              got == NasdaqHistory(answer, row.cls, row.currency)
          IN  IF got.reason = None THEN Fetched(r, row.symbol, got.rows)
              ELSE Move(r, Report(job[r], ErrorStatus(got.reason)))

\* persist_mapping writes back the mapping that was read before the fetch.
RecoverSymbol(r) ==
    /\ Doing(r, "recover")
    /\ LET j == job[r]  source == Head(j.sources) IN
       StoreMapping(r, source.provider,
          [source.row EXCEPT !.symbol = j.fetched.symbol, !.currency = listing.currency,
                             !.enabled = TRUE],
          [j EXCEPT !.at = IF Mismatch(listing, j.fetched.rows) THEN "disable" ELSE "store"])

Disable(r) ==
    /\ Doing(r, "disable")
    /\ LET j == job[r]  source == Head(j.sources) IN
       StoreMapping(r, source.provider,
          [source.row EXCEPT !.symbol = j.fetched.symbol, !.enabled = FALSE,
                             !.currency = IF @ = None THEN listing.currency ELSE @],
          Report(j, "Failed"))

StorePrices(r) ==
    /\ Doing(r, "store")
    /\ LET j == job[r]
           p == Head(j.sources).provider
           rows == j.fetched.rows
       IN  IF holder # r \/ ~exists THEN End(r)
           ELSE /\ prices' = [prices EXCEPT ![p] = [d \in Dates |->
                     IF \E x \in rows : x.date = d
                     THEN (CHOOSE x \in rows : x.date = d).currency ELSE @[d]]]
                /\ job' = [job EXCEPT ![r] = Report(j, "Fetched")]
                /\ UNCHANGED <<listing, exists, mapping, rates, holder, put, edits, edited>>

\* refresh_fx_rates.
FetchRates(r) ==
    /\ Doing(r, "rates")
    /\ IF listing.currency = "SEK" THEN Move(r, [job[r] EXCEPT !.at = "over"])
       ELSE \E answer \in Rates :
              LET got == FxHistory(answer) IN
              Move(r, IF got.reason = None
                      THEN [job[r] EXCEPT !.at = "storeRates", !.fetched = got.rows]
                      ELSE [job[r] EXCEPT !.at = "over",
                               !.items["FX"] = [status |-> ErrorStatus(got.reason)]])

StoreRates(r) ==
    /\ Doing(r, "storeRates")
    /\ IF holder # r THEN End(r)
       ELSE /\ rates' = rates \cup {x.date : x \in job[r].fetched}
            /\ job' = [job EXCEPT ![r].at = "over", ![r].fetched = None,
                                  ![r].items["FX"] = [status |-> "Fetched"]]
            /\ UNCHANGED <<listing, exists, mapping, prices, holder, put, edits, edited>>

\* finish_run, once everything is reported.
Finish(r) == Doing(r, "over") /\ holder = r /\ End(r)

-----------------------------------------------------------------------------
(* The user.                                                                     *)

\* 400 unless a Nasdaq mapping says what makes it fetchable.
PutAccepted(p, body, cls) == p = "NASDAQ_NORDIC" => cls # None /\ body.currency # None

\* PUT .../provider-symbols/p: the instrument is found and the old mapping read, whose
\* asset class stands in for a missing one.
Put(p, body) ==
    /\ put = None /\ edits < MaxEdits /\ exists
    /\ LET cls == IF body.cls # None THEN body.cls
                  ELSE IF mapping[p] # None THEN mapping[p].cls ELSE None
       IN  /\ PutAccepted(p, body, cls)
           /\ put' = [provider |-> p, row |-> [body EXCEPT !.cls = cls]]
    /\ edits' = edits + 1
    /\ UNCHANGED <<listing, exists, mapping, prices, rates, holder, job, edited>>

\* The upsert, which the foreign key refuses when the instrument is gone.
PutStores ==
    /\ put # None
    /\ put' = None
    /\ IF ~exists THEN UNCHANGED <<mapping, edited>>
       ELSE /\ mapping' = [mapping EXCEPT ![put.provider] = put.row]
            /\ edited' = [r \in Refresh |-> edited[r] \cup {put.provider}]
    /\ UNCHANGED <<listing, exists, prices, rates, holder, job, edits>>

\* DELETE /instruments/id, of one without transactions: with its mappings and prices.
RemoveInstrument ==
    /\ exists /\ ~listing.traded
    /\ exists' = FALSE
    /\ mapping' = [p \in Provider |-> None]
    /\ prices' = [p \in Provider |-> [d \in Dates |-> None]]
    /\ UNCHANGED <<listing, rates, holder, job, put, edits, edited>>

-----------------------------------------------------------------------------
RefreshStep(r) ==
    \/ Claim(r) \/ NoticeLost(r) \/ Finish(r)
    \/ LookForYahoo(r) \/ SearchYahoo(r) \/ SeedYahoo(r)
    \/ LookForNasdaq(r) \/ SearchNasdaq(r) \/ SeedNasdaq(r)
    \/ Skip(r) \/ ReadSource(r) \/ FetchYahoo(r) \/ FetchNasdaq(r)
    \/ RecoverSymbol(r) \/ Disable(r) \/ StorePrices(r)
    \/ FetchRates(r) \/ StoreRates(r)

Next == \/ \E r \in Refresh : RefreshStep(r)
        \/ \E p \in Provider : \E body \in Body : Put(p, body)
        \/ PutStores
        \/ RemoveInstrument

Spec == Init /\ [][Next]_vars
-----------------------------------------------------------------------------
(* Properties.                                                                   *)

\* Every stored close is in the instrument's currency, whatever the mapping claimed
\* when it was fetched, was edited to meanwhile, or was recovered to: a reader of the
\* closes only warns of another one (refresh_one_source, effective_prices.rs).
PricesInInstrumentCurrency ==
    \A p \in Provider : \A d \in Dates :
        prices[p][d] # None => exists /\ prices[p][d] = listing.currency

\* What a refresh may do to a mapping that the user has not stored since it looked:
\* create it where there was none, Nasdaq's only beside no enabled Yahoo mapping;
\* switch the Yahoo mapping of a known ISIN back on; give an enabled Yahoo mapping a
\* newer symbol; disable an enabled one.  It never switches another disabled mapping
\* on and never loses the asset class that makes a mapping fetchable.  (A mapping stored
\* after the refresh looked is left out: persist_mapping writes over it.)
RefreshesKeepChoices ==
    [][\A r \in Refresh : \A p \in Provider \ edited[r] :
          LET old == mapping[p]  new == mapping'[p] IN
          job'[r] # job[r] /\ new # old =>
             \/ /\ old = None
                /\ p = "NASDAQ_NORDIC" => \/ "YAHOO" \in edited[r]
                                          \/ mapping["YAHOO"] = None
                                          \/ ~mapping["YAHOO"].enabled
             \/ old # None /\ p = "YAHOO" /\ ~old.enabled /\ KnownIsin(listing)
             \/ /\ old # None /\ old.enabled /\ new.cls = old.cls
                /\ new.enabled => p = "YAHOO" /\ new.symbol # old.symbol
      ]_vars

\* What a refresh reports as fetched is so while the lease is its own: there are
\* closes of the source and, for a foreign currency, rates; and the source stays
\* connected under the symbol the closes came from, unless the user has edited it.
ReportsComeTrue ==
    \A r \in Refresh : holder = r /\ exists =>
        /\ \A p \in Provider :
              LET item == job[r].items[p] IN
              item # None /\ item.status = "Fetched" =>
                 /\ \E d \in Dates : prices[p][d] # None
                 /\ p \notin edited[r] => /\ mapping[p] # None /\ mapping[p].enabled
                                          /\ mapping[p].symbol = item.symbol
        /\ Doing(r, "over") /\ listing.currency # "SEK" /\ rates = {} =>
              job[r].items["FX"].status # "Fetched"
=============================================================================
