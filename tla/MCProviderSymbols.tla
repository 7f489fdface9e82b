------------------------- MODULE MCProviderSymbols -------------------------
(* A small instance for TLC: the sources of one instrument, with answers of    *)
(* providers and edits, or the rebalance page.  They have no state in common,  *)
(* so one stays as it began while the other runs.                              *)
EXTENDS ProviderSymbols, RebalancePage, TLC

CONSTANTS r1, r2, Some, Other

\* The amount a page starts with, and two others.
MCAmount == {ZeroAmount, Some, Other}

\* Held, sold again, or only wanted.
Inst(exchange, isin, us, currency, stake) ==
    [exchange |-> exchange, isin |-> isin, ticker |-> "text", us |-> us,
     currency |-> currency, name |-> "acme", held |-> stake = "held",
     traded |-> stake # "wanted", wanted |-> stake = "wanted"]

\* A bank's asset found by its ISIN, one with a known ISIN, one listed in New York,
\* one on an exchange whose seed is switched off.
MCListing == { Inst("AVANZA", "isin", FALSE, "SEK", "held"),
               Inst("AVANZA", "known", FALSE, "SEK", "wanted"),
               Inst("NYSE", None, FALSE, "SEK", "held"),
               Inst("XETR", "isin", TRUE, "USD", "sold") }

Row(symbol, cls, currency, enabled) ==
    [symbol |-> symbol, cls |-> cls, currency |-> currency, enabled |-> enabled]

\* Switched off, switched on by hand, with a currency that may be wrong, and without.
MCBody == { Row("old", None, None, FALSE), Row("own", "SHARES", "EUR", TRUE),
            Row("own", "BONDS", None, TRUE) }

MCStored == [YAHOO |-> {None, Row("old", None, "SEK", TRUE), Row("old", None, "SEK", FALSE)},
             NASDAQ_NORDIC |-> {None, Row("tx1", "SHARES", "EUR", TRUE)}]

Chart(error, currency, closes) ==
    [status |-> 200, readable |-> TRUE, error |-> error, result |-> TRUE,
     currency |-> currency, closes |-> closes]

\* Unreachable, throttled, not found, unlisted, without a currency, a null close,
\* closes up to yesterday in two currencies, and up to today.
MCCharts == { [status |-> 0], [status |-> 503], [status |-> 404],
              Chart({"not found"}, None, {}), Chart({"rate limit", "no data"}, None, {}),
              Chart(None, None, {<<2, 1>>}), Chart(None, "SEK", {<<2, None>>}),
              Chart(None, "SEK", {<<1, 1>>}), Chart(None, "EUR", {<<1, 1>>}),
              Chart(None, "SEK", {<<2, 1>>}) }

Closing(status, message, closes) ==
    [status |-> status, readable |-> TRUE, code |-> 200, message |-> message,
     closes |-> closes]

MCClosings == { [status |-> 0], Closing(400, "instrument not found", None),
                Closing(200, None, None), Closing(200, None, {<<1, None>>}),
                Closing(200, None, {<<2, 1>>}) }

Quote(symbol, quote, dotted, us) ==
    [symbol |-> symbol, quote |-> quote, dotted |-> dotted, us |-> us, name |-> "acme"]

Hits(quotes) == [status |-> 200, readable |-> TRUE, quotes |-> quotes]

\* No hit, an unsupported one before a supported one, one without a symbol before
\* another; a second search adds its own, so two symbols may be found.
MCQuotes == { [status |-> 429], Hits(<<>>),
              Hits(<<Quote("opt", "OPTION", FALSE, TRUE), Quote("old", "EQUITY", TRUE, FALSE)>>),
              Hits(<<Quote(None, "EQUITY", FALSE, TRUE), Quote("new", "ETF", FALSE, TRUE)>>) }

Listed(symbol, cls, currency) ==
    [symbol |-> symbol, name |-> "acme", cls |-> cls, currency |-> currency]
Group(groups) == [status |-> 200, readable |-> TRUE, code |-> 0, message |-> None,
                  groups |-> groups]

\* Unreadable, none, one listing in the instrument's currency, two, one untold.
MCGroups == { [status |-> 500, readable |-> FALSE], Group(<<>>),
              Group(<<<<Listed("tx1", "SHARES", "SEK")>>, <<Listed("tx2", "SHARES", "EUR")>>>>),
              Group(<<<<Listed("tx1", "SHARES", "SEK"), Listed("tx3", "ETF", "SEK")>>>>),
              Group(<<<<Listed("tx4", None, None), Listed("tx5", None, "USD")>>>>) }

\* Unreachable, refused, unreadable, none, two days.
MCRates == { [status |-> 0], [status |-> 429], [status |-> 200, readable |-> FALSE],
             [status |-> 200, readable |-> TRUE, dates |-> {}],
             [status |-> 200, readable |-> TRUE, dates |-> {1, 2}] }

RefreshSymmetry == Permutations(Refresh)

-----------------------------------------------------------------------------
VARIABLE part      \* what this behaviour is about

MCInit == /\ Init /\ PageInit
          /\ \/ part = "sources"
             \/ part = "page" /\ listing.exchange = "NYSE" /\ \A p \in Provider : mapping[p] = None

MCNext == /\ UNCHANGED part
          /\ \/ part = "sources" /\ Next /\ UNCHANGED pageVars
             \/ part = "page" /\ PageNext /\ UNCHANGED vars

MCSpec == MCInit /\ [][MCNext]_<<vars, pageVars, part>>
=============================================================================
