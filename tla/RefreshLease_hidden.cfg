\* One process, one refresh, no crash and no storage error: only dropped requests.
CONSTANTS
    p1 = p1
    p2 = p2
    f1 = f1
    f2 = f2
    Process = {p1}
    Flight = {f1}
    Host <- MCHost1
    Source = {s1}
    Currency = {usd}
    StaleAfter = 1
    StepBack = 0
    StorageErrors = FALSE
    MaxRuns = 1
    MaxCrashes = 0
    None = None
SPECIFICATION Spec
INVARIANT CancelledRequestsHideNothing
CHECK_DEADLOCK FALSE
