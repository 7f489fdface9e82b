-------------------------- MODULE ProviderAnswers ---------------------------
(* What the market-data clients make of an HTTP answer (backend/src/providers):  *)
(* closes, search hits or rates, or the reason there are none.  The wire formats *)
(* are reduced to what decides between those outcomes.                           *)
EXTENDS Integers, Sequences, SequencesExt

CONSTANT None      \* an absent field; also the reason of a success

\* ProviderMissingReason: why there are no rows.
Reasons == {"SymbolUnmapped", "NoDataInRange", "NotListed", "MarketClosed", "RateLimited",
            "ProviderUnavailable", "ProviderError"}

\* An answer that never came is [status |-> 0]; `readable` says the body parses.
Reached(answer) == answer.status # 0
Success(answer) == answer.status \in 200..299

Ok(rows) == [reason |-> None, rows |-> rows]
Failed(reason) == [reason |-> reason, rows |-> {}]

\* status_to_reason.
StatusReason(status) ==
    CASE status = 404 -> "NotListed"
      [] status = 429 -> "RateLimited"
      [] status \in 500..599 -> "ProviderUnavailable"
      [] OTHER -> "ProviderError"

NonEmpty(rows) == IF rows = {} THEN Failed("NoDataInRange") ELSE Ok(rows)

-----------------------------------------------------------------------------
(* Yahoo.                                                                        *)

\* map_chart_error: the first phrase that the description contains decides.
ChartErrorReason(phrases) ==
    IF "rate limit" \in phrases THEN "RateLimited"
    ELSE IF "no data" \in phrases THEN "NoDataInRange"
    ELSE IF phrases \cap {"not found", "invalid symbol"} # {} THEN "NotListed"
    ELSE IF "market closed" \in phrases THEN "MarketClosed" ELSE "ProviderError"

\* A chart: `closes` pairs dates with a close or None; the currency is the chart's.
YahooHistory(answer) ==
    IF ~Reached(answer) THEN Failed("ProviderUnavailable")
    ELSE IF ~Success(answer) THEN Failed(StatusReason(answer.status))
    ELSE IF ~answer.readable THEN Failed("ProviderError")
    ELSE IF answer.error # None THEN Failed(ChartErrorReason(answer.error))
    ELSE IF ~answer.result THEN Failed("NoDataInRange")
    ELSE IF answer.currency = None THEN Failed("ProviderError")
    ELSE NonEmpty({[date |-> c[1], currency |-> answer.currency] :
                     c \in {x \in answer.closes : x[2] # None}})

\* A search: quotes without a symbol are dropped; Yahoo tells neither currency nor
\* asset class.
YahooHits(answer) ==
    LET hit(q) == [provider |-> "YAHOO", symbol |-> q.symbol, quote |-> q.quote,
                   dotted |-> q.dotted, us |-> q.us, name |-> q.name,
                   cls |-> None, currency |-> None]
        named(q) == q.symbol # None
    IN  IF ~Reached(answer) THEN [reason |-> "ProviderUnavailable", rows |-> <<>>]
        ELSE IF ~Success(answer) THEN [reason |-> StatusReason(answer.status), rows |-> <<>>]
        ELSE IF ~answer.readable THEN [reason |-> "ProviderError", rows |-> <<>>]
        ELSE LET quotes == SelectSeq(answer.quotes, named)
             IN  [reason |-> None, rows |-> [k \in DOMAIN quotes |-> hit(quotes[k])]]

-----------------------------------------------------------------------------
(* Nasdaq Nordic.                                                                *)

\* NasdaqStatus::error_for: the envelope's own status, None if it reports nothing.
EnvelopeReason(answer) ==
    IF answer.code < 400 /\ answer.message = None THEN None
    ELSE IF answer.message = "instrument not found" THEN "NotListed"
    ELSE "ProviderError"

\* What parse_envelope and map_http_or_envelope_error refuse, before the data is used.
NasdaqRefusal(answer) ==
    IF ~Reached(answer) THEN "ProviderUnavailable"
    ELSE IF ~answer.readable THEN "ProviderError"
    ELSE IF EnvelopeReason(answer) # None THEN EnvelopeReason(answer)
    ELSE IF ~Success(answer) THEN StatusReason(answer.status)
    ELSE None

\* A price history for a mapping's asset class and currency: without either nothing is
\* asked, and the currency of the mapping is what the rows are stamped with.
NasdaqHistory(answer, cls, currency) ==
    IF currency = None \/ cls = None THEN Failed("ProviderError")
    ELSE IF NasdaqRefusal(answer) # None THEN Failed(NasdaqRefusal(answer))
    ELSE IF answer.closes = None THEN Failed("NoDataInRange")
    ELSE NonEmpty({[date |-> c[1], currency |-> currency] :
                     c \in {x \in answer.closes : x[2] # None}})

\* A search: the listings of every group.
NasdaqHits(answer) ==
    LET hit(l) == [provider |-> "NASDAQ_NORDIC", symbol |-> l.symbol, quote |-> None,
                   dotted |-> FALSE, us |-> FALSE, name |-> l.name,
                   cls |-> l.cls, currency |-> l.currency]
        listings == FlattenSeq(answer.groups)
    IN  IF NasdaqRefusal(answer) # None
        THEN [reason |-> NasdaqRefusal(answer), rows |-> <<>>]
        ELSE [reason |-> None, rows |-> [k \in DOMAIN listings |-> hit(listings[k])]]

-----------------------------------------------------------------------------
(* Frankfurter: the rates of a currency in SEK, by date.                         *)

FxHistory(answer) ==
    IF ~Reached(answer) THEN Failed("ProviderUnavailable")
    ELSE IF ~Success(answer) THEN Failed(StatusReason(answer.status))
    ELSE IF ~answer.readable THEN Failed("ProviderError")
    ELSE NonEmpty({[date |-> d] : d \in answer.dates})

=============================================================================
