\* Two panels beside one import.
\* Nothing has to happen: the instance stops when its bounds are used up.
CHECK_DEADLOCK FALSE
SPECIFICATION Spec
CONSTANTS
  Writer = {w1}
  w1 = w1
  NoVersion = NoVersion
  Table <- MCTwoTables
  Changes <- MCTwoChanges
  Reads <- MCTwoReads
  Panel <- MCTwoPanels
  Stamped <- MCTwoStamped
  Retries = 0
  MaxCommits = 1
  MaxRevision = 3
  MaxDay = 0
  MaxCrashes = 0
  MaxFetches = 2
INVARIANT PanelsShareOneSnapshot
