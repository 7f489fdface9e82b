\* Two processes, two runs, a crash, storage errors, a clock set back.
CONSTANTS
    p1 = p1
    p2 = p2
    f1 = f1
    f2 = f2
    Process = {p1, p2}
    Flight = {f1, f2}
    Host <- MCHost
    Source = {s1}
    Currency = {usd}
    StaleAfter = 1
    StepBack = 2
    StorageErrors = TRUE
    MaxRuns = 2
    MaxCrashes = 1
    None = None
SPECIFICATION Spec
INVARIANTS
    AtMostOneRunning
    AnswerMatchesRow
    SucceededMeansStored
PROPERTIES
    NoLateWrites
    ImplementsExclusiveRuns
