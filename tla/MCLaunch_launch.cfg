\* Two processes and their launches; two processes and their log; one desktop application;
\* one import page.
\* Nothing has to happen: the instance stops when its launches and files are used up.
CHECK_DEADLOCK FALSE
SPECIFICATION MCSpec
CONSTANTS
  Unset = Unset
  p1 = p1
  p2 = p2
  Process = {p1, p2}
  Env <- MCEnv
  Found <- MCFound
  Latest = 2
  CollisionLimit = 2
  MaxNow = 1
  MaxLaunches = 3
  MaxFailures = 1
  DaysPerWeek = 2
  DaysPerMonth = 3
  RecentLaunches = 1
  WeeklyWeeks = 1
  MonthlyMonths = 1
  PreMigrationKept = 2
  FailedKept = 0
  AbandonedAge = 0
  Listed <- MCListed
  Writer <- MCWriter
  Nobody = Nobody
  Kept = 2
  MaxBytes = 3
  Lengths <- MCLengths
  MaxFiles = 4
  MaxLogFailures = 1
  Untold = Untold
  Cases = 2
  MaxRequests = 2
  Upload = {f1, f2}
  Asset = {a1, a2}
  Nothing = Nothing
SYMMETRY ProcessSymmetry
INVARIANTS LedgersStayRecoverable LogKeepsRecords EndsAreTrue PagesAreInStep
PROPERTY RecentSnapshotsStay
