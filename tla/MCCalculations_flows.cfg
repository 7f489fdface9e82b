\* The reports of a book: the flows of a period against its amounts.
\* A book that is full stays as it is.
CHECK_DEADLOCK FALSE
SPECIFICATION MCSpec
CONSTANTS
  Size = 3
  Levels = {"LOW", "HIGH"}
  Prices = {2, 7}
  MaxHeld = 2
  Offsets <- MCOffsets
  None = None
  Home = Home
  Foreign = Foreign
  A = A
  B = B
  Day <- MCDay
  Weekend = {2}
  Precedence <- MCPrecedence
  HomeSource = A
  HomeCloses <- MCHomeCloses
  Closes <- MCCloses
  RateRows <- MCRateRows
  Bodies <- MCBodies
  TradedBooks <- MCTradedBooks
  MaxTrades = 3
  Conviction <- MCConviction
  Blank = Blank
  Bad = Bad
  FileStarts <- MCFileStarts
  FileLines <- MCFileLines
  LedgersBefore <- MCLedgersBefore
  MaxFileTrades = 3
  MaxSteps = 4
INVARIANT FlowsMatchAmounts
