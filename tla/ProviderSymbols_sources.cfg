\* Two refreshes, one taking the other's lease over, beside an edit; the rebalance page,
\* with ladders of up to four rungs.
\* Nothing has to happen: the instance stops when both refreshes are over.
CHECK_DEADLOCK FALSE
SPECIFICATION MCSpec
CONSTANTS
  None = None
  r1 = r1
  r2 = r2
  Refresh = {r1, r2}
  MaxDate = 2
  MaxEdits = 1
  Listing <- MCListing
  Stored <- MCStored
  Body <- MCBody
  Charts <- MCCharts
  Closings <- MCClosings
  Quotes <- MCQuotes
  Groups <- MCGroups
  Rates <- MCRates
  Absent = Absent
  ZeroAmount = ZeroAmount
  Some = Some
  Other = Other
  PageAmount <- MCAmount
  MaxRungs = 4
SYMMETRY RefreshSymmetry
INVARIANTS PricesInInstrumentCurrency ReportsComeTrue
PROPERTIES RefreshesKeepChoices PageIsKept
