\* Two imports that overlap, and an import beside a hand edit.
\* Nothing has to happen: the instance stops when its ids are used up.
CHECK_DEADLOCK FALSE
SPECIFICATION CrewSpec
CONSTANTS
  Instrument = {1}
  Importer = {m1, m2}
  Slot = {s1}
  s1 = s1
  m1 = m1
  m2 = m2
  NoRequest = NoRequest
  NoBatch = NoBatch
  ProspectiveId = 99
  MaxId = 3
  MaxBatch = 2
  Body <- MCEdit
  File <- MCFile
  Content <- MCContent
  SourceOf <- MCSourceOf
SYMMETRY ImporterSymmetry
INVARIANTS RepeatsAreAllowed OnlyRacesBreakLedgers
PROPERTIES AppendCompletesFile ImportsTouchOnlyTheirBatch RefreshMergesTheFile
