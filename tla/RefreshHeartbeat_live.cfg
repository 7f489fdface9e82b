\* Fair scheduling, storage errors, one crash: orphaned rows and requests end.
CONSTANTS
    p1 = p1
    p2 = p2
    f1 = f1
    f2 = f2
    Process = {p1, p2}
    Flight = {f1, f2}
    Host <- MCHost
    Source = {s1}
    Currency = {}
    StaleAfter = 3
    StepBack = 0
    StorageErrors = TRUE
    MaxRuns = 2
    MaxCrashes = 1
    HeartbeatEvery = 1
    FinishWithin = 1
    None = None
SPECIFICATION PunctualSpec
INVARIANT HealthyHolderKeepsLease
PROPERTIES
    OrphansAreRecovered
    RefreshesEnd
