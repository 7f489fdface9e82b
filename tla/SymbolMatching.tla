--------------------------- MODULE SymbolMatching ---------------------------
(* From search hits to a mapping (backend/src/market_data/symbol_matching.rs and *)
(* the seeds of symbol_seeding.rs).  An instrument is a record: `isin` and       *)
(* `ticker` say whether the stored text is "isin" (12 alphanumerics), a "known"  *)
(* one, other text, or absent; `us` that the ISIN starts with US.                *)
EXTENDS ProviderAnswers, FiniteSets

Identifiers == {"isin", "known"}          \* is_isin_like

SupportedYahoo(hit) == hit.quote \in {"EQUITY", "ETF", "MUTUALFUND"}

Supported(hit) == hit.provider = "NASDAQ_NORDIC" \/ SupportedYahoo(hit)

PrefersUs(inst) == inst.us /\ inst.currency = "USD"

UsListing(hit) == ~hit.dotted /\ hit.us

\* best_yahoo_search_match: the first hit that will do, or None.
BestYahooMatch(inst, hits) ==
    LET fits(hit) == SupportedYahoo(hit) /\ (PrefersUs(inst) => UsListing(hit))
        fitting == SelectSeq(hits, fits)
    IN  IF fitting = <<>> THEN None ELSE Head(fitting).symbol

PlausibleRecovery(inst, hit) ==
    /\ SupportedYahoo(hit)
    /\ hit.name = inst.name
    /\ PrefersUs(inst) => UsListing(hit)

\* The hits quoted in the instrument's currency; a hit that tells none is dropped.
SameCurrency(inst, hits) ==
    LET same(hit) == Supported(hit) /\ hit.currency = inst.currency
    IN  SelectSeq(hits, same)

Ambiguous(inst, hits) == Len(SameCurrency(inst, hits)) > 1

\* unique_currency_match: the only listing in the instrument's currency, or None.
UniqueMatch(inst, hits) ==
    IF Len(SameCurrency(inst, hits)) # 1 THEN None ELSE Head(SameCurrency(inst, hits))

HasIdentifier(inst) == inst.isin \in Identifiers \/ inst.ticker \in Identifiers

-----------------------------------------------------------------------------
(* Seeds: [symbol, enabled], or None.                                            *)

KnownIsin(inst) == inst.isin = "known" \/ inst.ticker = "known"

KnownSeed(inst) == IF KnownIsin(inst) THEN [symbol |-> "known", enabled |-> TRUE] ELSE None

\* Exchanges whose Yahoo suffix is known get a mapping that is switched off.
ExchangeSeed(inst) ==
    CASE inst.exchange \in {"NASDAQ", "NYSE"} -> [symbol |-> "old", enabled |-> TRUE]
      [] inst.exchange \in {"XETR", "XAMS", "XPAR", "XLON"} ->
            [symbol |-> "suffixed", enabled |-> FALSE]
      [] OTHER -> None

\* yahoo_seed_from_search asks only for instruments of a bank that names no exchange.
SearchesYahoo(inst) == inst.exchange = "AVANZA" /\ HasIdentifier(inst)

SearchSeed(inst, found) ==
    LET best == BestYahooMatch(inst, found.rows)
    IN  IF found.reason # None \/ best = None THEN None
        ELSE [symbol |-> best, enabled |-> TRUE]

-----------------------------------------------------------------------------
(* A changed symbol (recover_changed_yahoo_symbol).                              *)

LatestDate(rows) == CHOOSE d \in {r.date : r \in rows} : \A r \in rows : r.date <= d

Recoverable(reason) == reason \in {"SymbolUnmapped", "NotListed", "NoDataInRange"}

\* Only the assets of a bank that names no exchange are searched for, by ISIN and name.
Searches(inst) == inst.exchange = "AVANZA" /\ inst.name # None

\* The candidates among the hits of both searches, a symbol found twice once (the code
\* probes at most five).
Candidates(inst, mapped, hits) ==
    {hits[k].symbol : k \in {k \in DOMAIN hits : /\ PlausibleRecovery(inst, hits[k])
                                                 /\ hits[k].symbol # mapped}}

\* A candidate must have closes, in the instrument's currency, and newer ones.
Viable(inst, rows, stored) ==
    /\ rows # {}
    /\ \A x \in rows : x.currency = inst.currency
    /\ stored # {} => LatestDate(rows) > LatestDate(stored)

\* The candidate with the newest close, for all that their charts may say; none when
\* two are equally new.
Recoveries(inst, candidates, histories, stored) ==
    LET chosen(charts) ==
            LET viable == {s \in DOMAIN charts : Viable(inst, charts[s].rows, stored)}
            IN  {s \in viable : \A z \in viable \ {s} :
                    LatestDate(charts[z].rows) < LatestDate(charts[s].rows)}
    IN  UNION {{[symbol |-> s, rows |-> charts[s].rows] : s \in chosen(charts)} :
                  charts \in [candidates -> histories]}

\* The mapped symbol's rows, with those of the recovered one over them.
Merged(rows, newer) == {r \in rows : \A n \in newer : n.date # r.date} \cup newer
=============================================================================
