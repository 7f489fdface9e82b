\* Two requests in flight.
\* Nothing has to happen: the instance stops when its ids are used up.
CHECK_DEADLOCK FALSE
SPECIFICATION Spec
CONSTANTS
  Instrument = {1, 2}
  Slot = {s1, s2}
  s1 = s1
  s2 = s2
  NoRequest = NoRequest
  NoBatch = NoBatch
  ProspectiveId = 9
  MaxId = 3
  Body <- MCBody
SYMMETRY SlotSymmetry
INVARIANT LedgersStaySound
