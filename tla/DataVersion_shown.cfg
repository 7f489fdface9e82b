\* One panel beside edits, one request at a time, a repeated attempt, a crash and midnight.
\* Nothing has to happen: the instance stops when its bounds are used up.
CHECK_DEADLOCK FALSE
SPECIFICATION LiveSpec
CONSTANTS
  Writer = {w1}
  w1 = w1
  NoVersion = NoVersion
  Table <- MCOneTable
  Changes <- MCOneChanges
  Reads <- MCOneReads
  Panel <- MCOnePanel
  Stamped <- MCOneStamped
  Retries = 1
  MaxCommits = 1
  MaxRevision = 3
  MaxDay = 1
  MaxCrashes = 1
  MaxFetches = 1
INVARIANTS AnswersIncludeTheirVersion StampsBoundAnswers
PROPERTIES VersionsNeverGoBack AnnouncedDataIsShown
