\* A refresh leaves every affected ledger derivable, one import at a time.
\* Nothing has to happen: the instance stops when its ids are used up.
CHECK_DEADLOCK FALSE
SPECIFICATION CrewSpec
CONSTANTS
  Instrument = {1, 2}
  Importer = {m1}
  Slot = {}
  m1 = m1
  NoRequest = NoRequest
  NoBatch = NoBatch
  ProspectiveId = 99
  MaxId = 4
  MaxBatch = 2
  Body <- MCEdit
  File <- MCWideFile
  Content <- MCWideContent
  SourceOf <- MCWideSourceOf
INVARIANT LedgersDerivable
