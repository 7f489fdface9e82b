\* Every rung of every pool of three; the reports of a book with three trades;
\* what files of up to three lines become in each of the ledgers before.
\* A rung that is built, a book that is full and a file that is imported stay as they are.
CHECK_DEADLOCK FALSE
SPECIFICATION MCSpec
CONSTANTS
  Size = 3
  Levels = {"LOW", "HIGH"}
  Prices = {2, 7}
  MaxHeld = 2
  Offsets <- MCOffsets
  None = None
  Home = Home
  Foreign = Foreign
  A = A
  B = B
  Day <- MCDay
  Weekend = {2}
  Precedence <- MCPrecedence
  HomeSource = A
  HomeCloses <- MCHomeCloses
  Closes <- MCCloses
  RateRows <- MCRateRows
  Bodies <- MCBodies
  TradedBooks <- MCTradedBooks
  MaxTrades = 3
  Conviction <- MCConviction
  Blank = Blank
  Bad = Bad
  FileStarts <- MCFileStarts
  FileLines <- MCFileLines
  LedgersBefore <- MCLedgersBefore
  MaxFileTrades = 3
  MaxSteps = 4
INVARIANTS SelectionServesOffset SharesMeetOffset TradesStopAtTargets ReportIsTrue
INVARIANTS ReturnsAreMoney KnownFromKnown FiguresAgree PriceLookupsAgree
INVARIANT DividendsMatchTheLedger
PROPERTIES RungsEnd PlanForeseesCommit SecondImportIsEmpty ConvictedClosingsAreChosen
