--------------------------- MODULE MCCalculations ---------------------------
(* A small instance for TLC of the program's calculations: a rung of the       *)
(* rebalance ladder for a pool, the reports of a book, or what a broker's file *)
(* becomes.  They have no state in common, so the others stay as they began    *)
(* while one runs.                                                             *)
EXTENDS RungReports, PortfolioFigures, FileImports

CONSTANTS A, B

-----------------------------------------------------------------------------
(* Pools: MCOffsets invest, raise and neither.                                 *)

MCOffsets == {-7, -1, 0, 5, 12}

-----------------------------------------------------------------------------
(* Books: a weekend day in the middle, days without rows or rates, a source    *)
(* that is not enabled.                                                        *)

MCDay == 1..3
MCPrecedence == <<A, B>>
MCHomeCloses == <<Amount(3), None, Amount(5)>>
MCCloses == {Amount(2), Amount(3)}
MCRateRows == {<<Amount(2), Amount(3), Amount(2)>>, <<None, Amount(2), None>>}

Stored(a, b, on, at) ==
    <<on, [s \in {A, B} |-> IF s = A THEN a ELSE b], at>>

MCTradedBooks ==
    {Stored(<<Amount(2), None, Amount(3)>>, <<None, Amount(3), None>>, {A, B},
            <<Amount(2), Amount(3), Amount(2)>>),
     Stored(<<Amount(2), None, Amount(3)>>, <<None, Amount(3), None>>, {B},
            <<None, Amount(2), None>>)}

MCTraded(kind, shares, price, fx, fee) ==
    [kind |-> kind, quantity |-> shares, price |-> Amount(price), fx |-> fx,
     brokerage |-> Amount(fee)]

MCBodies ==
    [i \in {Home, Foreign} |->
        IF i = Home
        THEN {MCTraded("Buy", 2, 4, One, 1), MCTraded("Buy", 1, 3, None, 0),
              MCTraded("Sell", -1, 5, One, 1)}
        ELSE {MCTraded("Buy", 2, 3, Amount(2), 1), MCTraded("Buy", 1, 2, None, 0),
              MCTraded("Sell", -1, 4, Amount(3), 1), MCTraded("Sell", -2, 4, None, 0),
              MCTraded("Split", 2, 0, None, 0), MCTraded("Dividend", 2, 1, Amount(3), 0)}]

MCConviction == [i \in {Home, Foreign} |-> IF i = Home THEN "LOW" ELSE "HIGH"]

-----------------------------------------------------------------------------
(* Files: trades of X and Y, of ERIC, and lines that are no trade.  The ledgers *)
(* before are empty, or hold X from an earlier export (with two batches, or a   *)
(* later sell by hand), under another symbol, without its ISIN, or twice.       *)

Is(what) == [is |-> what]

Line(kind, day, asset, shares, price, cash, fee, fx, currency) ==
    [is |-> "trade", kind |-> kind, date |-> day, asset |-> asset,
     quantity |-> shares, price |-> price, amount |-> cash, paidIn |-> "SEK",
     fee |-> fee, feeIn |-> "SEK", fx |-> fx, currency |-> currency]

Two == Amount(2)
BuyX == Line("Buy", 1, "X", Two, Two, Amount(-6), One, Amount(3), "USD")
SellX == Line("Sell", 2, "X", Amount(-2), Two, Amount(6), Blank, Blank, "USD")
SplitX == Line("Split", 1, "X", Amount(3), Blank, Blank, Blank, Blank, "USD")
BuyEric == Line("Buy", 1, "ERIC", Two, Two, Amount(4), Zero, One, "SEK")

MCFileStarts ==
    [b \in Broker |-> IF b = "AVANZA" THEN <<Is("heading")>>
                      ELSE <<Is("title"), Is("heading")>>]

MCFileLines ==
    [b \in Broker |->
        IF b = "AVANZA"
        THEN {BuyX, [BuyX EXCEPT !.quantity = <<1, 2>>], SellX, [SellX EXCEPT !.fee = One],
              Line("Dividend", 2, "X", Zero, One, Amount(6), Blank, Blank, "USD"),
              Line("Dividend", 1, "X", Zero, Blank, Amount(6), Blank, Two, "USD"),
              SplitX, [SplitX EXCEPT !.quantity = Amount(-1)],
              Line("Buy", 1, "Y", One, Two, Amount(-2), Blank, Blank, "SEK"),
              Line("Deposit", 1, "", Zero, Blank, Amount(9), Blank, Blank, ""),
              [BuyX EXCEPT !.date = Bad]}
        ELSE {BuyEric, [BuyEric EXCEPT !.kind = "Sell", !.date = 2, !.quantity = Amount(-2)],
              [BuyEric EXCEPT !.kind = "Split"], [BuyEric EXCEPT !.fee = One, !.feeIn = "USD"],
              [BuyEric EXCEPT !.kind = "Gift"], Is("empty")}]

Held(exchange, symbol, isin, currency, conviction) ==
    [exchange |-> exchange, symbol |-> symbol, isin |-> isin, currency |-> currency,
     conviction |-> conviction]

X == Held("AVANZA", "X", "X", "USD", "HIGH")
Eric == Held("XSTO", "ERIC", Blank, "SEK", "HIGH")

Bought(i, batch) ==
    StoredRow(i, Transaction("Buy", 1, 2, Two, Blank, "USD", Amount(3), One), batch)
Sold(i, batch) ==
    StoredRow(i, Transaction("Sell", 3, 2, Two, Blank, "USD", Blank, Blank), batch)

Export(lines) == [broker |-> "AVANZA", lines |-> <<Is("heading")>> \o lines]

MCLedgersBefore ==
    LET before(some, stored, log) ==
            [instruments |-> some, entries |-> stored, imports |-> log] IN
    {before(<<>>, <<>>, <<>>),
     before(<<X>>, <<Bought(1, 1)>>, <<Export(<<BuyX>>)>>),
     before(<<X>>, <<Bought(1, 1), Sold(1, Blank)>>, <<Export(<<BuyX>>)>>),
     before(<<X>>, <<Bought(1, 2)>>, <<Export(<<>>), Export(<<BuyX>>)>>),
     before(<<[Eric EXCEPT !.isin = "X", !.currency = "USD"]>>, <<Bought(1, Blank)>>, <<>>),
     before(<<[X EXCEPT !.isin = Blank], Eric>>, <<Bought(1, Blank), Bought(2, Blank)>>, <<>>),
     before(<<[X EXCEPT !.isin = Blank], [Eric EXCEPT !.isin = "X"]>>, <<>>, <<Export(<<>>)>>)}

-----------------------------------------------------------------------------
VARIABLE part      \* what this behaviour is about

\* The book, the pool and the file of the other parts.
BookAtRest == /\ ledger = [i \in Instrument |-> <<>>]
              /\ enabled = {} /\ rates = [d \in Day |-> None]
              /\ rows = [s \in Source |-> [d \in Day |-> None]]
PoolAtRest == /\ pool = [i \in Cand |-> [level |-> "LOW", price |-> Min(Prices), held |-> 1]]
              /\ offset = 0 /\ count = 1 /\ rankBy = "sek" /\ Init
FileAtRest == /\ FileInit /\ upload.broker = "AVANZA" /\ entries = <<>> /\ instruments = <<>>

MCInit == \/ part = "rung" /\ BookAtRest /\ FileAtRest /\ Init
          \/ part = "reports" /\ ReportInit /\ PoolAtRest /\ FileAtRest
          \/ part = "files" /\ FileInit /\ PoolAtRest /\ BookAtRest

MCNext == /\ UNCHANGED part
          /\ \/ part = "rung" /\ Next /\ UNCHANGED <<reportVars, fileVars>>
             \/ part = "reports" /\ ReportNext /\ UNCHANGED <<vars, fileVars>>
             \/ part = "files" /\ FileNext /\ UNCHANGED <<vars, reportVars>>

MCSpec == /\ MCInit /\ [][MCNext]_<<vars, reportVars, fileVars, part>>
          /\ WF_vars(Next /\ part = "rung")

\* A rung is built that is asked for.
RungsEnd == part = "rung" => RungEnds
=============================================================================
