--------------------------- MODULE DesktopProofs ----------------------------
(* Proofs about the desktop application, for any number of probe cases and     *)
(* requests, about the import page in its window, for any files, any assets    *)
(* and any server, about its runtime log, for any writers, any number of       *)
(* archives and any sizes, and about how it opens the ledger and keeps its     *)
(* backups (LedgerLaunch), for any number of processes, any migrations, any    *)
(* policy of retention, and any failing calls and crashes.  The four have no   *)
(* state in common.                                                            *)
EXTENDS DesktopShell, ImportView, RuntimeLog, LedgerLaunch, FiniteSetTheorems, TLAPS


-----------------------------------------------------------------------------
(* The desktop application.  That the ledger is closed when the dialog shows   *)
(* holds because of where the main thread was before: the invariant says what  *)
(* is open and what has been told at each of its places.  That a probe which   *)
(* succeeds has a report holds because an outcome that is TRUE is true of the  *)
(* page from then on.                                                          *)

\* What the dialog says is true.
DialogIsTrue ==
    dialog # Untold => /\ dialog.heading = "stopped" <=> looping
                       /\ ~dialog.paths => app = "none"

\* Where the main thread is.
PlaceInv ==
    /\ refresh = "running" => app = "open"
    /\ main \in {"start", "configure", "build"} => app = "none" /\ ~looping
    /\ main \in {"window", "abandoned"} => ~looping /\ app # "none"
    /\ main \in {"set up", "loop", "leaving"} => looping /\ app # "none"
    /\ main = "panicked" => message # Untold
    /\ main \notin {"telling", "failed"} => dialog = Untold
    /\ main = "telling" => dialog # Untold
    /\ main \in {"telling", "failed", "succeeded"} => app \in {"none", "closed"}
    /\ main = "failed" /\ dialog = Untold => probe /\ looping /\ app = "closed"

ShellInv == ShellTypeOK /\ PlaceInv /\ DialogIsTrue

\* The outcome of the probe and its page.
PageInv ==
    /\ page.report # "none" => page.left = 0
    /\ outcome = TRUE => page.left = 0 /\ page.passed /\ "page" \in written
    /\ main = "succeeded" /\ probe => outcome = TRUE

-----------------------------------------------------------------------------
(* The types, in three parts that steps keep for different reasons.            *)

FlagTypes == probe \in BOOLEAN /\ looping \in BOOLEAN
MainTypes ==
    /\ main \in {"start", "configure", "build", "window", "set up", "loop", "leaving",
                "abandoned", "panicked", "telling", "failed", "succeeded"}
    /\ app \in {"none", "open", "closing", "closed"}
    /\ refresh \in {"none", "running", "done", "aborted"}
    /\ message \in {Untold, "main", "request"}
    /\ dialog \in {Untold} \cup [heading : Heading, error : Culprit, paths : BOOLEAN]
TaskTypes ==
    /\ requests \in [open : 0..MaxRequests, made : 0..MaxRequests]
    /\ requests.open <= requests.made
    /\ page \in [left : 0..Cases, passed : BOOLEAN,
                 report : {"none", "posted", "written", "recorded"}]
    /\ watchdog \in {"off", "sleeping", "writing", "done"}
    /\ outcome \in BOOLEAN \cup {Untold}
    /\ written \subseteq {"page", "watchdog"}

LEMMA TypeParts == ShellTypeOK <=> FlagTypes /\ MainTypes /\ TaskTypes
  BY Zenon DEF ShellTypeOK, FlagTypes, MainTypes, TaskTypes

LEMMA TypePartsNext == ShellTypeOK' <=> FlagTypes' /\ MainTypes' /\ TaskTypes'
  BY Zenon DEF ShellTypeOK, FlagTypes, MainTypes, TaskTypes

LEMMA FlagsKept == ASSUME FlagTypes, UNCHANGED <<probe, looping>> PROVE FlagTypes'
  BY Zenon DEF FlagTypes

LEMMA TasksKept == ASSUME TaskTypes, UNCHANGED <<requests, probeVars>> PROVE TaskTypes'
  <1>1. /\ requests' = requests /\ page' = page /\ watchdog' = watchdog
        /\ outcome' = outcome /\ written' = written
    BY DEF probeVars
  <1> QED BY <1>1, Zenon DEF TaskTypes

\* A step of the main thread that is no shutdown.
LEMMA MainMoves ==
  ASSUME ShellTypeOK, NEW at, Main(at)
  PROVE  /\ main' = at /\ probe' = probe /\ looping' = looping
         /\ FlagTypes' /\ TaskTypes'
  <1>1. UNCHANGED <<probe, looping>> /\ UNCHANGED <<requests, probeVars>> /\ main' = at
    BY Zenon DEF Main
  <1> QED BY <1>1, TypeParts, FlagsKept, TasksKept, Zenon

-----------------------------------------------------------------------------
LEMMA ShellInvInit == ASSUME ShellInit PROVE ShellInv
  <1>1. requests \in [open : 0..MaxRequests, made : 0..MaxRequests] /\ requests.open <= requests.made
    BY ShellBounds DEF ShellInit
  <1>2. page \in [left : 0..Cases, passed : BOOLEAN,
                  report : {"none", "posted", "written", "recorded"}]
    BY ShellBounds DEF ShellInit
  <1>3. ShellTypeOK
    BY <1>1, <1>2 DEF ShellInit, ShellTypeOK
  <1>4. PlaceInv /\ DialogIsTrue
    BY DEF ShellInit, PlaceInv, DialogIsTrue
  <1> QED BY <1>3, <1>4 DEF ShellInv

\* The ways to tell: what is then said, and where the main thread goes.
LEMMA FailingTells ==
  ASSUME ShellInv, NEW paths \in BOOLEAN, FailLaunch(paths),
         main \in {"start", "configure", "build", "abandoned"},
         app \in {"none", "closed"}, ~paths => app = "none"
  PROVE  ShellInv'
  <1>1. dialog' \in [heading : Heading, error : Culprit, paths : BOOLEAN]
        /\ dialog'.heading = "not started" /\ dialog'.paths = paths
    BY DEF FailLaunch, Tell, Heading, Culprit
  <1>2. dialog' # Untold
    BY <1>1, UntoldIsNothing
  <1>3. app' = app /\ refresh' = refresh /\ message' = message
    BY DEF FailLaunch, appVars
  <1>4. main' = "telling" /\ (looping' <=> looping) /\ FlagTypes' /\ TaskTypes'
    BY MainMoves DEF FailLaunch, ShellInv
  <1>5. MainTypes'
    BY <1>1, <1>3, <1>4, TypeParts DEF ShellInv, MainTypes
  <1>6. PlaceInv'
    BY <1>2, <1>3, <1>4 DEF ShellInv, PlaceInv
  <1>7. DialogIsTrue'
    BY <1>1, <1>3, <1>4 DEF ShellInv, PlaceInv, DialogIsTrue
  <1> QED BY <1>4, <1>5, <1>6, <1>7, TypePartsNext DEF ShellInv

LEMMA PanicNoted ==
  ASSUME ShellInv, Panic, main \in {"build", "window", "set up", "loop"}
  PROVE  ShellInv'
  <1>1. app' = app /\ refresh' = refresh /\ message' = "main" /\ dialog' = dialog
    BY DEF Panic, appVars
  <1>2. main' = "panicked" /\ (looping' <=> looping) /\ FlagTypes' /\ TaskTypes'
    BY MainMoves DEF Panic, ShellInv
  <1>3. MainTypes'
    BY <1>1, <1>2, TypeParts DEF ShellInv, MainTypes
  <1>4. PlaceInv'
    BY <1>1, <1>2, UntoldIsNothing DEF ShellInv, PlaceInv, Culprit
  <1>5. DialogIsTrue'
    BY <1>1, <1>2 DEF ShellInv, DialogIsTrue
  <1> QED BY <1>2, <1>3, <1>4, <1>5, TypePartsNext DEF ShellInv

LEMMA PanicTold ==
  ASSUME ShellInv, TellPanic
  PROVE  ShellInv'
  <1>1. message \in Culprit /\ looping \in BOOLEAN
    BY TypeParts DEF ShellInv, ShellTypeOK, PlaceInv, TellPanic, Culprit
  <1>2. dialog' = [heading |-> IF looping THEN "stopped" ELSE "not started",
                   error |-> message, paths |-> TRUE]
    BY DEF TellPanic, Tell
  <1>3. dialog' \in [heading : Heading, error : Culprit, paths : BOOLEAN]
    BY <1>1, <1>2 DEF Heading
  <1>4. (dialog'.heading = "stopped" <=> looping) /\ dialog'.paths
    BY <1>2
  <1>5. dialog' # Untold
    BY <1>3, UntoldIsNothing
  <1>6. app' = app /\ refresh' = refresh /\ message' = message /\ app \in {"none", "closed"}
    BY TypeParts DEF TellPanic, appVars, ShutDown, ShellInv, MainTypes
  <1>7. main' = "telling" /\ (looping' <=> looping) /\ FlagTypes' /\ TaskTypes'
    BY MainMoves DEF TellPanic, ShellInv
  <1>8. MainTypes'
    BY <1>3, <1>6, <1>7, TypeParts DEF ShellInv, MainTypes
  <1>9. PlaceInv'
    BY <1>5, <1>6, <1>7 DEF ShellInv, PlaceInv
  <1>10. DialogIsTrue'
    BY <1>4, <1>7 DEF DialogIsTrue
  <1> QED BY <1>7, <1>8, <1>9, <1>10, TypePartsNext DEF ShellInv

\* What a task may do: it finishes the refresh, notes a panic or serves the probe,
\* and leaves the main thread, the application and the dialog alone.
TaskMove ==
    /\ TasksKeep /\ Alive /\ TaskTypes'
    /\ refresh' \in {refresh, "done"}
    /\ message' \in {message, "request"}

LEMMA TaskMoves == ASSUME ShellInv, TaskMove PROVE ShellInv'
  <1>1. main' = main /\ (probe' <=> probe) /\ app' = app /\ (looping' <=> looping)
        /\ dialog' = dialog
    BY DEF TaskMove, TasksKeep
  <1>2. FlagTypes'
    <2>1. UNCHANGED <<probe, looping>>
      BY Zenon DEF TaskMove, TasksKeep
    <2> QED BY <2>1, TypeParts, FlagsKept DEF ShellInv
  <1>3. MainTypes'
    BY <1>1, TypeParts DEF ShellInv, MainTypes, TaskMove
  <1>4. PlaceInv'
    BY <1>1, UntoldIsNothing DEF ShellInv, PlaceInv, TaskMove, Alive, Culprit
  <1>5. DialogIsTrue'
    BY <1>1 DEF ShellInv, DialogIsTrue
  <1> QED BY <1>2, <1>3, <1>4, <1>5, TypePartsNext DEF ShellInv, TaskMove

\* A step of the main thread that tells nothing.
QuietMove == /\ dialog' = dialog /\ message' = message
             /\ dialog # Untold => app' = app

LEMMA QuietMoves ==
  ASSUME ShellInv, NEW at, Main(at), QuietMove, MainTypes', PlaceInv'
  PROVE  ShellInv'
  <1>1. (looping' <=> looping) /\ FlagTypes' /\ TaskTypes'
    BY MainMoves DEF ShellInv
  <1>2. DialogIsTrue'
    BY <1>1 DEF ShellInv, DialogIsTrue, QuietMove
  <1> QED BY <1>1, <1>2, TypePartsNext DEF ShellInv

\* The places between which the main thread moves without touching the application.
LEMMA PlainMoves ==
  ASSUME ShellInv, NEW at, Main(at), UNCHANGED <<appVars, message, dialog>>,
         \/ main = "start" /\ at = "configure"
         \/ main = "configure" /\ at = "build"
         \/ main = "window" /\ at = "abandoned"
         \/ main = "loop" /\ at = "leaving"
         \/ main = "telling" /\ at = "failed"
         \/ main = "leaving" /\ app \in {"none", "closed"} /\ at = "succeeded"
         \/ main = "leaving" /\ app \in {"none", "closed"} /\ at = "failed" /\ probe
  PROVE  ShellInv'
  <1>1. app' = app /\ refresh' = refresh /\ message' = message /\ dialog' = dialog
    BY DEF appVars
  <1>2. main' = at /\ (looping' <=> looping) /\ (probe' <=> probe)
    BY MainMoves DEF ShellInv
  <1>3. MainTypes'
    BY <1>1, <1>2, TypeParts DEF ShellInv, MainTypes
  <1>4. PlaceInv'
    BY <1>1, <1>2 DEF ShellInv, PlaceInv
  <1> QED BY <1>1, <1>3, <1>4, QuietMoves DEF QuietMove

LEMMA ApplicationTaken == ASSUME ShellInv, TakeApplication PROVE ShellInv'
  <1>1. Main(main) /\ main' = main /\ (looping' <=> looping) /\ (probe' <=> probe)
    BY MainMoves DEF TakeApplication, ShellInv
  <1>2. app' = "closing" /\ refresh' \in {refresh, "aborted"} /\ refresh' # "running"
    BY DEF TakeApplication
  <1>3. message' = message /\ dialog' = dialog /\ main \in Leaving
    BY DEF TakeApplication
  <1>4. MainTypes'
    BY <1>1, <1>2, <1>3, TypeParts DEF ShellInv, MainTypes
  <1>5. PlaceInv' /\ QuietMove
    BY <1>1, <1>2, <1>3 DEF ShellInv, PlaceInv, Leaving, QuietMove
  <1> QED BY <1>1, <1>4, <1>5, QuietMoves

LEMMA ApplicationClosed == ASSUME ShellInv, CloseApplication PROVE ShellInv'
  <1>1. Main(main) /\ main' = main /\ (looping' <=> looping) /\ (probe' <=> probe)
    BY MainMoves DEF CloseApplication, ShellInv
  <1>2. app = "closing" /\ app' = "closed" /\ refresh' = refresh
    BY DEF CloseApplication
  <1>3. message' = message /\ dialog' = dialog
    BY DEF CloseApplication
  <1>4. MainTypes'
    BY <1>1, <1>2, <1>3, TypeParts DEF ShellInv, MainTypes
  <1>5. PlaceInv' /\ QuietMove
    BY <1>1, <1>2, <1>3, TypeParts DEF ShellInv, PlaceInv, MainTypes, QuietMove
  <1> QED BY <1>1, <1>4, <1>5, QuietMoves

LEMMA Built == ASSUME ShellInv, Build PROVE ShellInv'
  <1>1. CASE FailLaunch(TRUE)
    BY <1>1, FailingTells DEF Build, ShellInv, PlaceInv
  <1>2. CASE Panic
    BY <1>2, PanicNoted DEF Build
  <1>3. CASE /\ app' = "open" /\ refresh' \in IF probe THEN {"none"} ELSE {"none", "running"}
             /\ UNCHANGED <<message, dialog>> /\ Main("window")
    <2>1. main' = "window" /\ (looping' <=> looping) /\ (probe' <=> probe) /\ main = "build"
      BY <1>3, MainMoves DEF Build, ShellInv
    <2>2. refresh' \in {"none", "running"}
      BY <1>3
    <2>3. MainTypes'
      BY <1>3, <2>1, <2>2, TypeParts DEF ShellInv, MainTypes
    <2>4. PlaceInv' /\ QuietMove
      BY <1>3, <2>1, <2>2 DEF ShellInv, PlaceInv, QuietMove
    <2> QED BY <1>3, <2>3, <2>4, QuietMoves
  <1> QED BY <1>1, <1>2, <1>3 DEF Build

LEMMA WindowBuilt == ASSUME ShellInv, BuildWindow PROVE ShellInv'
  <1>1. CASE UNCHANGED <<appVars, message, dialog>> /\ Main("abandoned")
    BY <1>1, PlainMoves DEF BuildWindow
  <1>2. CASE Panic
    BY <1>2, PanicNoted DEF BuildWindow
  <1>3. CASE /\ main' = "set up" /\ looping' = TRUE
             /\ UNCHANGED <<probe, appVars, message, dialog, requests, probeVars>>
    <2>1. /\ main = "window" /\ app' = app /\ refresh' = refresh /\ message' = message
          /\ dialog' = dialog
      BY <1>3 DEF BuildWindow, appVars
    <2>2. (probe' <=> probe) /\ FlagTypes'
      BY <1>3, TypeParts, Zenon DEF ShellInv, FlagTypes
    <2>3. TaskTypes'
      <3>1. UNCHANGED <<requests, probeVars>>
        BY <1>3
      <3> QED BY <3>1, TasksKept, TypeParts DEF ShellInv
    <2>4. MainTypes'
      BY <1>3, <2>1, TypeParts DEF ShellInv, MainTypes
    <2>5. PlaceInv' /\ DialogIsTrue'
      BY <1>3, <2>1, <2>2 DEF ShellInv, PlaceInv, DialogIsTrue
    <2> QED BY <2>2, <2>3, <2>4, <2>5, TypePartsNext DEF ShellInv
  <1> QED BY <1>1, <1>2, <1>3 DEF BuildWindow

LEMMA SetUpDone == ASSUME ShellInv, SetUp PROVE ShellInv'
  <1>1. CASE Panic
    BY <1>1, PanicNoted DEF SetUp
  <1>2. CASE ~Panic
    <2>1. /\ main = "set up" /\ main' = "loop"
          /\ app' = app /\ refresh' = refresh /\ message' = message /\ dialog' = dialog
          /\ watchdog' \in {"sleeping", "off"}
          /\ requests' = requests /\ page' = page /\ outcome' = outcome /\ written' = written
      BY <1>2 DEF SetUp, appVars
    <2>2. UNCHANGED <<probe, looping>>
      BY <1>2, Zenon DEF SetUp
    <2>3. FlagTypes' /\ (looping' <=> looping) /\ (probe' <=> probe)
      BY <2>2, TypeParts, FlagsKept DEF ShellInv
    <2>4. TaskTypes'
      BY <2>1, TypeParts DEF ShellInv, TaskTypes
    <2>5. MainTypes'
      BY <2>1, TypeParts DEF ShellInv, MainTypes
    <2>6. PlaceInv' /\ DialogIsTrue'
      BY <2>1, <2>3 DEF ShellInv, PlaceInv, DialogIsTrue
    <2> QED BY <2>3, <2>4, <2>5, <2>6, TypePartsNext DEF ShellInv
  <1> QED BY <1>1, <1>2

-----------------------------------------------------------------------------
(* The tasks.                                                                  *)

LEMMA RefreshFinishes == ASSUME ShellInv, FinishRefresh PROVE ShellInv'
  <1>1. UNCHANGED <<requests, probeVars>>
    BY DEF FinishRefresh
  <1>2. TaskTypes'
    BY <1>1, TypeParts, TasksKept DEF ShellInv
  <1> QED BY <1>2, TaskMoves DEF FinishRefresh, TaskMove

LEMMA RequestsMove == ASSUME ShellInv, Request \/ ServeRequest PROVE ShellInv'
  <1>1. TaskTypes'
    <2>1. /\ requests' \in [open : 0..MaxRequests, made : 0..MaxRequests]
          /\ requests'.open <= requests'.made
      BY ShellBounds, TypeParts DEF ShellInv, TaskTypes, Request, ServeRequest
    <2>2. page' = page /\ watchdog' = watchdog /\ outcome' = outcome /\ written' = written
      BY DEF Request, ServeRequest, probeVars
    <2> QED BY <2>1, <2>2, TypeParts DEF ShellInv, TaskTypes
  <1> QED BY <1>1, TaskMoves DEF Request, ServeRequest, TaskMove, Alive

ProbeStep == \/ RunCase \/ PostReport \/ WriteReport \/ RecordReport
             \/ FireWatchdog \/ RecordTimeout

LEMMA ProbeTypes == ASSUME TaskTypes, ProbeStep PROVE TaskTypes'
  <1>1. CASE RunCase
    <2>1. PICK passed \in BOOLEAN :
             page' = [page EXCEPT !.left = @ - 1, !.passed = @ /\ passed]
      BY <1>1 DEF RunCase
    <2>2. page' \in [left : 0..Cases, passed : BOOLEAN,
                     report : {"none", "posted", "written", "recorded"}]
      <3>1. page.left - 1 \in 0..Cases
        BY <1>1, ShellBounds DEF RunCase, TaskTypes
      <3>2. (page.passed /\ passed) \in BOOLEAN
        OBVIOUS
      <3> QED BY <2>1, <3>1, <3>2 DEF TaskTypes
    <2> QED BY <1>1, <2>2 DEF RunCase, TaskTypes
  <1>2. CASE PostReport
    BY <1>2 DEF PostReport, TaskTypes
  <1>3. CASE WriteReport
    BY <1>3 DEF WriteReport, TaskTypes
  <1>4. CASE RecordReport
    <2>1. outcome' \in BOOLEAN
      BY <1>4, Zenon DEF RecordReport, TaskTypes
    <2> QED BY <1>4, <2>1 DEF RecordReport, TaskTypes
  <1>5. CASE FireWatchdog
    BY <1>5 DEF FireWatchdog, TaskTypes
  <1>6. CASE RecordTimeout
    BY <1>6 DEF RecordTimeout, TaskTypes
  <1> QED BY <1>1, <1>2, <1>3, <1>4, <1>5, <1>6 DEF ProbeStep

LEMMA ProbeMoves == ASSUME ShellInv, ProbeStep PROVE ShellInv'
  <1>1. TaskTypes'
    BY TypeParts, ProbeTypes DEF ShellInv
  <1>2. TasksKeep /\ Alive /\ refresh' = refresh /\ message' = message
    BY DEF ProbeStep, RunCase, PostReport, WriteReport, RecordReport, FireWatchdog,
           RecordTimeout, Alive
  <1> QED BY <1>1, <1>2, TaskMoves DEF TaskMove

-----------------------------------------------------------------------------
LEMMA ShellInvNext == ASSUME ShellInv, [ShellNext]_shellVars PROVE ShellInv'
  <1>1. CASE CreateRuntime
    BY <1>1, FailingTells, PlainMoves DEF CreateRuntime, ShellInv, PlaceInv
  <1>2. CASE Configure
    BY <1>2, FailingTells, PlainMoves DEF Configure, ShellInv, PlaceInv
  <1>3. CASE Build
    BY <1>3, Built
  <1>4. CASE BuildWindow
    BY <1>4, WindowBuilt
  <1>5. CASE Abandon
    <2>1. app \in {"none", "closed"}
      BY <1>5, TypeParts DEF Abandon, ShutDown, ShellInv, MainTypes
    <2> QED BY <1>5, <2>1, FailingTells DEF Abandon
  <1>6. CASE SetUp
    BY <1>6, SetUpDone
  <1>7. CASE Loop
    BY <1>7, PanicNoted, PlainMoves DEF Loop
  <1>8. CASE Leave
    <2>1. app \in {"none", "closed"}
      BY <1>8, TypeParts DEF Leave, ShutDown, ShellInv, MainTypes
    <2>2. CASE probe /\ ~Passed
      BY <1>8, <2>1, <2>2, PlainMoves DEF Leave
    <2>3. CASE ~(probe /\ ~Passed)
      BY <1>8, <2>1, <2>3, PlainMoves DEF Leave
    <2> QED BY <2>2, <2>3
  <1>9. CASE TakeApplication \/ CloseApplication
    BY <1>9, ApplicationTaken, ApplicationClosed
  <1>10. CASE TellPanic
    BY <1>10, PanicTold
  <1>11. CASE Dismiss
    BY <1>11, PlainMoves DEF Dismiss
  <1>12. CASE FinishRefresh \/ Request \/ ServeRequest
    BY <1>12, RefreshFinishes, RequestsMove
  <1>13. CASE ProbeStep
    BY <1>13, ProbeMoves
  <1>14. CASE UNCHANGED shellVars
    <2>1. UNCHANGED <<probe, looping>> /\ UNCHANGED <<requests, probeVars>>
      BY <1>14, Zenon DEF shellVars, probeVars
    <2>2. FlagTypes' /\ TaskTypes' /\ (looping' <=> looping) /\ (probe' <=> probe)
      BY <2>1, TypeParts, FlagsKept, TasksKept DEF ShellInv
    <2>3. /\ main' = main /\ app' = app /\ refresh' = refresh /\ message' = message
          /\ dialog' = dialog
      BY <1>14 DEF shellVars
    <2>4. MainTypes'
      BY <2>3, TypeParts DEF ShellInv, MainTypes
    <2>5. PlaceInv' /\ DialogIsTrue'
      BY <2>2, <2>3 DEF ShellInv, PlaceInv, DialogIsTrue
    <2> QED BY <2>2, <2>4, <2>5, TypePartsNext DEF ShellInv
  <1> QED BY <1>1, <1>2, <1>3, <1>4, <1>5, <1>6, <1>7, <1>8, <1>9, <1>10, <1>11, <1>12,
             <1>13, <1>14 DEF ShellNext, ProbeStep

LEMMA ShellInvHolds == ShellSpec => []ShellInv
  BY ShellInvInit, ShellInvNext, PTL DEF ShellSpec

\* Every variable of the shell stays in its range, whatever ends first.
THEOREM ShellTypeCorrect == ShellSpec => []ShellTypeOK
  <1>1. ShellInv => ShellTypeOK
    BY DEF ShellInv
  <1> QED BY <1>1, ShellInvHolds, PTL

-----------------------------------------------------------------------------
(* The probe's outcome.                                                        *)

LEMMA PageInvInit == ASSUME ShellInit PROVE PageInv
  BY UntoldIsNothing DEF ShellInit, PageInv

LEMMA PageInvNext == ASSUME ShellInv, PageInv, [ShellNext]_shellVars PROVE PageInv'
  <1>1. TaskTypes /\ FlagTypes
    BY TypeParts DEF ShellInv
  <1>2. CASE ProbeStep
    <2>1. TasksKeep /\ main # "succeeded"
      BY <1>2 DEF ProbeStep, RunCase, PostReport, WriteReport, RecordReport,
                  FireWatchdog, RecordTimeout, Alive
    <2>8. main' = main /\ (probe' <=> probe)
      BY <2>1 DEF TasksKeep
    <2>2. CASE RunCase
      <3>1. page.left > 0 /\ page.left # 0
        BY <1>1, <2>2, ShellBounds DEF RunCase, TaskTypes
      <3>2. outcome # TRUE /\ page.report = "none"
        BY <3>1 DEF PageInv
      <3>3. outcome' # TRUE
        BY <2>2, <3>2, Zenon DEF RunCase
      <3>4. page'.report = "none"
        BY <1>1, <2>2, <3>2 DEF RunCase, TaskTypes
      <3> QED BY <2>1, <2>8, <3>3, <3>4 DEF PageInv
    <2>3. CASE PostReport
      BY <1>1, <2>1, <2>8, <2>3 DEF PostReport, PageInv, TaskTypes
    <2>4. CASE WriteReport
      BY <1>1, <2>1, <2>8, <2>4 DEF WriteReport, PageInv, TaskTypes
    <2>5. CASE RecordReport
      BY <1>1, <2>1, <2>8, <2>5 DEF RecordReport, PageInv, TaskTypes
    <2>6. CASE FireWatchdog
      BY <1>1, <2>1, <2>8, <2>6 DEF FireWatchdog, PageInv, TaskTypes
    <2>7. CASE RecordTimeout
      BY <1>1, <2>1, <2>8, <2>7 DEF RecordTimeout, PageInv, TaskTypes
    <2> QED BY <1>2, <2>2, <2>3, <2>4, <2>5, <2>6, <2>7 DEF ProbeStep
  <1>3. CASE ~ProbeStep
    <2>1. UNCHANGED <<probe, page, outcome, written>>
      <3>1. CASE \E at : Main(at)
        BY <3>1, Zenon DEF Main, probeVars
      <3>2. CASE FinishRefresh \/ Request \/ ServeRequest
        BY <3>2, Zenon DEF FinishRefresh, Request, ServeRequest, TasksKeep, probeVars
      <3>3. CASE BuildWindow \/ SetUp
        BY <3>3, Zenon DEF BuildWindow, SetUp, Panic, Main, probeVars
      <3>4. CASE UNCHANGED shellVars
        BY <3>4, Zenon DEF shellVars
      <3> QED BY <1>3, <3>1, <3>2, <3>3, <3>4, Zenon
              DEF ShellNext, ProbeStep, CreateRuntime, Configure, Build, Abandon, Loop, Leave,
                  TakeApplication, CloseApplication, TellPanic, Dismiss, FailLaunch, Panic
    <2>2. main' = "succeeded" => main = "succeeded" \/ Leave
      BY <1>3 DEF ProbeStep, ShellNext, shellVars, CreateRuntime, Configure,
              Build, BuildWindow, Abandon, SetUp, Loop, TakeApplication,
              CloseApplication, TellPanic, Dismiss, FinishRefresh, Request, ServeRequest,
              FailLaunch, Panic, Main, TasksKeep, Leaving
    <2>3. Leave /\ main' = "succeeded" /\ probe => outcome = TRUE
      BY DEF Leave, Main, Passed
    <2>4. /\ (page'.report # "none" => page'.left = 0) <=> (page.report # "none" => page.left = 0)
          /\ (outcome' = TRUE => page'.left = 0 /\ page'.passed /\ "page" \in written')
                <=> (outcome = TRUE => page.left = 0 /\ page.passed /\ "page" \in written)
          /\ (probe' <=> probe) /\ (outcome' = TRUE <=> outcome = TRUE)
      BY <2>1, Zenon
    <2> QED BY <2>2, <2>3, <2>4, Zenon DEF PageInv
  <1> QED BY <1>2, <1>3

LEMMA PageInvHolds == ShellSpec => []PageInv
  <1>1. ShellInit => PageInv
    BY PageInvInit
  <1>2. ShellInv /\ PageInv /\ [ShellNext]_shellVars => PageInv'
    BY PageInvNext
  <1> QED BY <1>1, <1>2, ShellInvHolds, PTL DEF ShellSpec

\* However the desktop application ends (launch.rs), its ledger is closed and its
\* refresh over before anybody is told, what is told is true, and a probe succeeds only
\* by the report of its page, for any number of requests and cases.
THEOREM EndsTold == ShellSpec => []EndsAreTrue
  <1>1. ShellInv => ClosedBeforeTold
    <2> SUFFICES ASSUME ShellInv PROVE ClosedBeforeTold
      OBVIOUS
    <2>1. dialog # Untold \/ ~Alive => app \in {"none", "closed"} /\ refresh # "running"
      BY DEF ShellInv, PlaceInv, Alive
    <2>2. dialog # Untold => dialog.error # Untold
      BY TypeParts, UntoldIsNothing DEF ShellInv, MainTypes, Culprit
    <2>3. /\ main = "failed" /\ dialog = Untold => probe /\ looping /\ app = "closed"
          /\ main = "succeeded" => dialog = Untold
      BY DEF ShellInv, PlaceInv
    <2> QED BY <2>1, <2>2, <2>3 DEF ClosedBeforeTold, ShellInv, DialogIsTrue
  <1>2. PageInv => ProbePassesOnReport
    BY DEF PageInv, ProbePassesOnReport
  <1>3. ShellInv /\ PageInv => EndsAreTrue
    BY <1>1, <1>2 DEF EndsAreTrue
  <1> QED BY <1>3, ShellInvHolds, PageInvHolds, PTL

-----------------------------------------------------------------------------
(* The import page.  That a commit sends the file its preview showed holds     *)
(* because a page is busy from the choice of a file to its preview: the        *)
(* invariant says which call each phase waits for, and that a preview is shown *)
(* only with its bytes.                                                        *)

\* Which page each call will find when it comes back.
Awaited(c) ==
    /\ c.call = "read" => phase = "previewing" /\ preview = Nothing /\ c.source = source
    /\ c.call = "preview" => /\ phase = "previewing" /\ preview = Nothing
                             /\ c.source = source /\ c.file = bytes
    /\ c.call = "commit" => phase = "committing"
    /\ c.call = "rollback" => phase = "committed"

CallsAreAwaited == \A c \in pending : Awaited(c)

PreviewIsOfBytes == preview # Nothing => preview.file = bytes /\ preview.source = source

ViewInv == /\ ViewTypeOK /\ CallsAreAwaited /\ PreviewIsOfBytes
           /\ CommitsAreAsShown /\ BusyPagesWait

LEMMA InitInv == ViewInit => ViewInv
  BY NothingIsNoFile DEF ViewInit, ViewInv, ViewTypeOK, CallsAreAwaited, PreviewIsOfBytes,
     CommitsAreAsShown, BusyPagesWait, Phase, Broker, Confirming, Choice, Unchosen

\* A page that is not busy waits for nothing.
LEMMA FreePage == ViewInv /\ ~Busy => pending = {}
  BY DEF ViewInv, ViewTypeOK, CallsAreAwaited, Awaited, Busy, ReadCall

-----------------------------------------------------------------------------
(* Types.                                                                      *)

LEMMA TypeStep == ViewTypeOK /\ [ViewNext]_viewVars => ViewTypeOK'
<1> SUFFICES ASSUME ViewTypeOK, [ViewNext]_viewVars PROVE ViewTypeOK'
  OBVIOUS
<1> USE DEF ViewTypeOK
<1>0. Unchosen \in [Asset -> Choice]
  BY DEF Unchosen, Choice
<1>1. ASSUME NEW s \in Broker, SelectSource(s) PROVE ViewTypeOK'
  BY <1>0, <1>1 DEF SelectSource, Clear, Phase, Confirming
<1>2. ASSUME NEW f \in Upload, ChooseFile(f) PROVE ViewTypeOK'
  BY <1>0, <1>2 DEF ChooseFile, Clear, Phase, Confirming, ReadCall
<1>3. ASSUME NEW a \in Asset, ToggleAsset(a) PROVE ViewTypeOK'
  BY <1>3 DEF ToggleAsset
<1>4. ASSUME NEW a \in Asset, NEW c \in {"keep", "other"}, SetConvictionChoice(a, c)
      PROVE ViewTypeOK'
  BY <1>4 DEF SetConvictionChoice, Choice
<1>5. CASE SetAllAssets
  <2>1. preview \in Preview
    BY <1>5 DEF SetAllAssets, Shown
  <2>2. Selectable \subseteq Asset
    BY <2>1 DEF Selectable, Preview
  <2> QED BY <1>5, <2>2 DEF SetAllAssets
<1>6. ASSUME NEW q \in Confirming, Confirm(q) PROVE ViewTypeOK'
  BY <1>6 DEF Confirm
<1>7. CASE PressCommit
  <2>1. PICK allow \in BOOLEAN, renew \in BOOLEAN : Commit(allow, renew)
    <3>1. preview \in Preview /\ preview.duplicate \in BOOLEAN
      BY <1>7 DEF PressCommit, Ready, Shown, Preview
    <3>2. Duplicate \in BOOLEAN
      BY DEF Duplicate
    <3> QED BY <1>7, <3>1, <3>2 DEF PressCommit
  <2>2. preview \in Preview /\ bytes \in Upload
    BY <2>1 DEF Commit
  <2>3. Closing \subseteq Asset /\ preview.assets \ selected \subseteq Asset
    BY <2>2 DEF Closing, Preview
  <2> DEFINE call == [call |-> "commit", file |-> bytes, source |-> source,
                      allow |-> allow, refresh |-> renew,
                      exclude |-> preview.assets \ selected,
                      keep |-> {a \in Closing : choices[a] = "keep"},
                      other |-> {a \in Closing : choices[a] = "other"},
                      shown |-> preview]
  <2>4. call \in CommitCall
    BY <2>1, <2>2, <2>3 DEF CommitCall
  <2>5. pending' = pending \cup {call} /\ phase' = "committing"
        /\ UNCHANGED <<source, name, preview, confirming, selected, choices, bytes>>
    BY <2>1 DEF Commit
  <2> HIDE DEF call
  <2> QED BY <2>4, <2>5 DEF Phase
<1>8. CASE Undo
  BY <1>8 DEF Undo, shownVars, UndoCall
<1>9. CASE StartAnew
  BY <1>0, <1>9 DEF StartAnew, Reset, Phase, Broker, Confirming
<1>10. CASE LeavePage
  BY <1>0, <1>10 DEF LeavePage, Reset, Phase, Broker, Confirming
<1>11. ASSUME NEW c \in pending, BytesRead(c) PROVE ViewTypeOK'
  BY <1>11 DEF BytesRead, shownVars, ReadCall, PreviewCall, CommitCall, UndoCall
<1>12. ASSUME NEW c \in pending, NEW p \in Preview, PreviewReady(c, p) PROVE ViewTypeOK'
  <2>1. p.assets \ p.locked \subseteq Asset /\ c.file \in Upload
    BY <1>12 DEF Preview, PreviewReady, ReadCall, PreviewCall, CommitCall, UndoCall
  <2> QED BY <1>0, <1>12, <2>1 DEF PreviewReady, Phase, Confirming
<1>13. ASSUME NEW c \in pending, Committed(c) PROVE ViewTypeOK'
  BY <1>0, <1>13 DEF Committed, Phase, Confirming
<1>14. ASSUME NEW c \in pending, RolledBack(c) PROVE ViewTypeOK'
  BY <1>0, <1>14 DEF RolledBack, Reset, Phase, Broker, Confirming
<1>15. ASSUME NEW c \in pending, CallFailed(c) PROVE ViewTypeOK'
  BY <1>15 DEF CallFailed, Failed, Phase, Confirming
<1>16. CASE UNCHANGED viewVars
  BY <1>16 DEF viewVars, shownVars
<1> QED BY <1>1, <1>2, <1>3, <1>4, <1>5, <1>6, <1>7, <1>8, <1>9, <1>10, <1>11, <1>12, <1>13,
           <1>14, <1>15, <1>16 DEF ViewNext

-----------------------------------------------------------------------------
(* Steps.                                                                      *)

\* A click on a free page that leaves the calls alone leaves nothing to wait for.
LEMMA QuietStep ==
  ASSUME ViewInv, pending = {}, pending' = {}, phase' \notin {"previewing", "committing"},
         \/ preview' = Nothing
         \/ preview' = preview /\ bytes' = bytes /\ source' = source
  PROVE  /\ CallsAreAwaited' /\ PreviewIsOfBytes' /\ CommitsAreAsShown' /\ BusyPagesWait'
BY DEF ViewInv, CallsAreAwaited, PreviewIsOfBytes, CommitsAreAsShown, BusyPagesWait

\* What onCommit sends is what the page shows.
LEMMA CommitStep ==
  ASSUME ViewInv, PressCommit
  PROVE  /\ CallsAreAwaited' /\ PreviewIsOfBytes' /\ CommitsAreAsShown' /\ BusyPagesWait'
<1>1. pending = {}
  BY FreePage DEF PressCommit, Ready
<1>2. PICK allow \in BOOLEAN, renew \in BOOLEAN :
         /\ Commit(allow, renew)
         /\ allow => preview.duplicate
         /\ renew => Refreshing
  <2>1. preview \in Preview /\ preview.duplicate \in BOOLEAN
    BY DEF PressCommit, Ready, Shown, Preview, ViewInv, ViewTypeOK
  <2>2. Duplicate \in BOOLEAN /\ (Duplicate => preview.duplicate)
    BY DEF Duplicate
  <2> QED BY <2>1, <2>2 DEF PressCommit
<1> DEFINE call == [call |-> "commit", file |-> bytes, source |-> source,
                    allow |-> allow, refresh |-> renew,
                    exclude |-> preview.assets \ selected,
                    keep |-> {a \in Closing : choices[a] = "keep"},
                    other |-> {a \in Closing : choices[a] = "other"},
                    shown |-> preview]
<1>3. /\ pending' = {call} /\ phase' = "committing"
      /\ UNCHANGED <<source, preview, selected, bytes>>
      /\ preview # Nothing
  BY <1>1, <1>2 DEF Commit
<1>4. /\ call.call = "commit" /\ call.file = bytes /\ call.source = source
      /\ call.shown = preview /\ call.allow = allow /\ call.refresh = renew
      /\ call.exclude = preview.assets \ selected
      /\ call.keep = {a \in Closing : choices[a] = "keep"}
      /\ call.other = {a \in Closing : choices[a] = "other"}
  OBVIOUS
<1> HIDE DEF call
<1>5. preview.file = bytes /\ preview.source = source
  BY <1>3 DEF ViewInv, PreviewIsOfBytes
<1>6. call.shown.errors \subseteq call.exclude /\ ~call.shown.global
  BY <1>3, <1>4 DEF PressCommit, Ready, Blocking, ViewInv, ViewTypeOK, Preview
<1>7. call.shown.closing \ call.exclude = call.keep \cup call.other
  <2>1. \A a \in Closing : a \in Asset /\ choices[a] \in {"keep", "other"}
    BY <1>3 DEF PressCommit, Ready, AllChosen, ViewInv, ViewTypeOK, Closing, Preview, Choice
  <2> QED BY <1>4, <2>1 DEF Closing
<1>8. call.keep \cap call.other = {}
  BY <1>4
<1>9. call.refresh => call.shown.candidate /\ call.source = "avanza"
  BY <1>2, <1>4 DEF Refreshing
<1>10. call.allow => call.shown.duplicate
  BY <1>2, <1>4
<1> QED BY <1>3, <1>4, <1>5, <1>6, <1>7, <1>8, <1>9, <1>10
        DEF ViewInv, CallsAreAwaited, Awaited, PreviewIsOfBytes, CommitsAreAsShown, BusyPagesWait

\* A call that comes back was the only one, and the page is as the call left it.
LEMMA CallStep ==
  ASSUME ViewInv, NEW c \in pending,
         \/ BytesRead(c) \/ Committed(c) \/ RolledBack(c) \/ CallFailed(c)
         \/ \E p \in Preview : PreviewReady(c, p)
  PROVE  /\ CallsAreAwaited' /\ PreviewIsOfBytes' /\ CommitsAreAsShown' /\ BusyPagesWait'
<1> USE DEF CallsAreAwaited, PreviewIsOfBytes, CommitsAreAsShown, BusyPagesWait
<1>1. pending = {c} /\ Awaited(c)
  BY DEF ViewInv
<1>2. CASE BytesRead(c)
  <2> DEFINE next == [call |-> "preview", file |-> c.file, source |-> c.source]
  <2>1. pending' = {next} /\ bytes' = c.file /\ UNCHANGED <<phase, source, preview>>
    BY <1>1, <1>2 DEF BytesRead, shownVars
  <2>2. next.call = "preview" /\ next.file = c.file /\ next.source = c.source
    OBVIOUS
  <2> HIDE DEF next
  <2> QED BY <1>1, <1>2, <2>1, <2>2 DEF BytesRead, Awaited
<1>3. CASE Committed(c)
  BY <1>1, <1>3 DEF Committed
<1>4. CASE RolledBack(c)
  BY <1>1, <1>4 DEF RolledBack, Reset
<1>5. CASE CallFailed(c)
  BY <1>1, <1>5 DEF CallFailed, Failed, ViewInv
<1>6. ASSUME NEW p \in Preview, PreviewReady(c, p)
      PROVE  /\ CallsAreAwaited' /\ PreviewIsOfBytes' /\ CommitsAreAsShown' /\ BusyPagesWait'
  BY <1>1, <1>6 DEF PreviewReady, Awaited
<1> QED BY <1>2, <1>3, <1>4, <1>5, <1>6

LEMMA ViewStep == ViewInv /\ [ViewNext]_viewVars => ViewInv'
<1> SUFFICES ASSUME ViewInv, [ViewNext]_viewVars
             PROVE  /\ CallsAreAwaited' /\ PreviewIsOfBytes'
                    /\ CommitsAreAsShown' /\ BusyPagesWait'
  BY TypeStep DEF ViewInv
<1> DEFINE Goal == /\ CallsAreAwaited' /\ PreviewIsOfBytes'
                   /\ CommitsAreAsShown' /\ BusyPagesWait'
<1>1. ASSUME NEW s \in Broker, SelectSource(s) PROVE Goal
  BY <1>1, FreePage, QuietStep DEF SelectSource, Clear
<1>2. ASSUME NEW f \in Upload, ChooseFile(f) PROVE Goal
  <2>1. pending = {}
    BY <1>2, FreePage DEF ChooseFile
  <2> DEFINE call == [call |-> "read", file |-> f, source |-> source]
  <2>2. /\ pending' = {call} /\ phase' = "previewing"
        /\ preview' = Nothing /\ source' = source
    BY <1>2, <2>1 DEF ChooseFile, Clear
  <2>3. call.call = "read" /\ call.source = source
    OBVIOUS
  <2> HIDE DEF call
  <2> QED BY <2>2, <2>3 DEF CallsAreAwaited, Awaited, PreviewIsOfBytes, CommitsAreAsShown,
             BusyPagesWait
<1>3. ASSUME NEW a \in Asset, ToggleAsset(a) PROVE Goal
  BY <1>3, FreePage, QuietStep DEF ToggleAsset, Busy
<1>4. ASSUME NEW a \in Asset, NEW c \in {"keep", "other"}, SetConvictionChoice(a, c)
      PROVE Goal
  BY <1>4, FreePage, QuietStep DEF SetConvictionChoice, Busy
<1>5. CASE SetAllAssets
  BY <1>5, FreePage, QuietStep DEF SetAllAssets, Busy
<1>6. ASSUME NEW q \in Confirming, Confirm(q) PROVE Goal
  BY <1>6, FreePage, QuietStep DEF Confirm, Ready, Busy
<1>7. CASE PressCommit
  BY <1>7, CommitStep
<1>8. CASE Undo
  <2>1. pending = {}
    BY <1>8 DEF Undo, ViewInv, ViewTypeOK, CallsAreAwaited, Awaited, ReadCall, PreviewCall,
       CommitCall, UndoCall
  <2> DEFINE call == [call |-> "rollback"]
  <2>2. pending' = {call} /\ UNCHANGED <<phase, preview, source, bytes>> /\ phase = "committed"
    BY <1>8, <2>1 DEF Undo, shownVars
  <2>3. call.call = "rollback"
    OBVIOUS
  <2> HIDE DEF call
  <2> QED BY <2>2, <2>3 DEF ViewInv, CallsAreAwaited, Awaited, PreviewIsOfBytes,
             CommitsAreAsShown, BusyPagesWait
<1>9. CASE StartAnew
  <2>1. pending = {}
    BY <1>9, FreePage DEF StartAnew, ViewInv, ViewTypeOK, CallsAreAwaited, Awaited, ReadCall,
       PreviewCall, CommitCall, UndoCall
  <2> QED BY <1>9, <2>1, QuietStep DEF StartAnew, Reset
<1>10. CASE LeavePage
  BY <1>10 DEF LeavePage, Reset, CallsAreAwaited, PreviewIsOfBytes, CommitsAreAsShown,
     BusyPagesWait
<1>11. ASSUME NEW c \in pending,
              \/ BytesRead(c) \/ Committed(c) \/ RolledBack(c) \/ CallFailed(c)
              \/ \E p \in Preview : PreviewReady(c, p)
       PROVE  Goal
  BY <1>11, CallStep
<1>12. CASE UNCHANGED viewVars
  BY <1>12 DEF viewVars, shownVars, ViewInv, CallsAreAwaited, Awaited, PreviewIsOfBytes,
     CommitsAreAsShown, BusyPagesWait
<1> QED BY <1>1, <1>2, <1>3, <1>4, <1>5, <1>6, <1>7, <1>8, <1>9, <1>10, <1>11, <1>12
        DEF ViewNext

-----------------------------------------------------------------------------
\* The page and its calls stay in their types (State, Action in ImportView.tsx).
THEOREM ViewTypeCorrect == ViewSpec => []ViewTypeOK
<1>1. ViewInv => ViewTypeOK
  BY DEF ViewInv
<1> QED BY <1>1, InitInv, ViewStep, PTL DEF ViewSpec

\* A commit sends what the page showed, and a busy page waits for one call
\* (onFileChange, onCommit and isBusy in ImportView.tsx).
THEOREM PagesInStep == ViewSpec => []PagesAreInStep
<1>1. ViewInv => PagesAreInStep
  BY DEF ViewInv, PagesAreInStep
<1> QED BY <1>1, InitInv, ViewStep, PTL DEF ViewSpec

-----------------------------------------------------------------------------
(* The runtime log.  A rotation is several renames that only the lock keeps    *)
(* together, and the lock does not keep others from opening the live file.     *)
(* The invariant says what the one who holds the lock may rely on: the file it *)
(* is about to archive still is the live file, and still is full, until the    *)
(* last rename moves it.                                                       *)

Stage == {"closed", "idle", "follow", "weigh", "lock", "recheck", "drop", "shift", "append"}

WriterState == [at : Stage, file : Nat, len : Nat, k : Nat]

LogTypeOK ==
    /\ slot \in [Slot -> Nat] /\ size \in [File -> Nat]
    /\ made \in 0..MaxFiles /\ gone \subseteq Nat
    /\ writer \in [Writer -> WriterState]
    /\ lock \in Writer \cup {Nobody} /\ faults \in Nat

\* Nothing is held, kept or given up that was not made; an open writer has a file.
MadeFiles ==
    /\ \A s \in Slot : slot[s] <= made
    /\ \A g \in gone : g <= made
    /\ \A w \in Writer : /\ writer[w].file <= made
                         /\ writer[w].at # "closed" => writer[w].file # NoFile

\* A file that some record would not fit into.
Full(f) == \E len \in Lengths : size[f] + len > MaxBytes

Rotating(w) == writer[w].at \in {"recheck", "drop", "shift"}

\* What a writer knows of the rotation it is in.
RotationIsOwn(w) ==
    /\ Rotating(w) => lock = w
    /\ writer[w].at \in {"lock", "recheck", "drop", "shift"} => Full(writer[w].file)
    /\ writer[w].at = "drop" => slot[0] = writer[w].file
    /\ writer[w].at = "shift" =>
          /\ writer[w].k \in 1..(Kept + 1)
          /\ writer[w].k <= Kept => /\ slot[0] = writer[w].file
                                    /\ slot[Kept - writer[w].k + 1] = NoFile
    /\ writer[w].at \notin {"closed", "idle"} => writer[w].len \in Lengths

RotationsAreOwn == \A w \in Writer : RotationIsOwn(w)

NewestFirst == \A s, t \in Slot : s < t /\ slot[s] # NoFile => slot[t] < slot[s]

ArchivesAreFull == \A s \in Slot \ {0} : slot[s] # NoFile => Full(slot[s])

GoneAreOldest == \A s \in Slot, g \in gone : slot[s] # NoFile => g < slot[s]

LogInv == /\ LogTypeOK /\ MadeFiles /\ RotationsAreOwn
          /\ NewestFirst /\ ArchivesAreFull /\ GoneAreOldest

LEMMA LogInvImplies == LogInv => LogKeepsRecords
  BY DEF LogInv, LogKeepsRecords, NewestFirst, ArchivesAreFull, GoneAreOldest, Full

LEMMA LogInitInv == LogInit => LogInv
  BY LogBounds, NobodyIsNoWriter
  DEF LogInit, LogInv, LogTypeOK, MadeFiles, RotationsAreOwn, RotationIsOwn, Rotating, Full,
      NewestFirst, ArchivesAreFull, GoneAreOldest, Closed, NoFile, WriterState, Stage
-----------------------------------------------------------------------------
(* The steps that open the live file.                                          *)

\* Opening it makes a new file at most, which is newer than all others and small.
LEMMA Opens ==
  ASSUME LogInv, NEW w \in Writer, NEW at \in Stage \ {"closed"}, OpenLive(w, at)
  PROVE  /\ slot' \in [Slot -> Nat] /\ made' \in 0..MaxFiles
         /\ writer' \in [Writer -> WriterState]
         /\ slot'[0] # NoFile /\ slot'[0] <= made' /\ made <= made'
         /\ writer' = [writer EXCEPT ![w] = [writer[w] EXCEPT !.at = at, !.file = slot'[0]]]
         /\ slot[0] # NoFile => slot' = slot
         /\ slot[0] = NoFile => slot'[0] = made + 1 /\ made' = made + 1
         /\ \A s \in Slot \ {0} : slot'[s] = slot[s]
<1> USE LogBounds DEF LogInv, LogTypeOK, MadeFiles, NoFile, Slot
<1>1. slot' \in [Slot -> Nat] /\ made' \in 0..MaxFiles
      /\ slot'[0] # NoFile /\ slot'[0] <= made' /\ made <= made'
  BY DEF OpenLive
<1>2. writer' = [writer EXCEPT ![w] = [writer[w] EXCEPT !.at = at, !.file = slot'[0]]]
  BY DEF OpenLive, Becomes
<1>3. writer' \in [Writer -> WriterState]
  <2>1. slot'[0] \in Nat
    BY <1>1
  <2> QED BY <1>2, <2>1 DEF WriterState
<1> QED BY <1>1, <1>2, <1>3 DEF OpenLive

\* And so no rule of the invariant is broken: who rotates has not lost its live file,
\* unless the last rename already moved it.
LEMMA OpensSafely ==
  ASSUME LogInv, NEW w \in Writer, NEW at \in {"idle", "weigh", "append"}, OpenLive(w, at),
         at # "idle" => writer[w].len \in Lengths,
         \/ lock' = lock /\ ~Rotating(w)
         \/ Release(w) /\ lock = w
  PROVE  LogInv'
<1> USE LogBounds, NobodyIsNoWriter
<1>1. at \in Stage \ {"closed"}
  BY DEF Stage
<1> DEFINE mine == [writer[w] EXCEPT !.at = at, !.file = slot'[0]]
<1>2. /\ slot' \in [Slot -> Nat] /\ made' \in 0..MaxFiles
      /\ writer' \in [Writer -> WriterState]
      /\ slot'[0] # NoFile /\ slot'[0] <= made' /\ made <= made'
      /\ writer' = [writer EXCEPT ![w] = mine]
      /\ slot[0] # NoFile => slot' = slot
      /\ slot[0] = NoFile => slot'[0] = made + 1 /\ made' = made + 1
      /\ \A s \in Slot \ {0} : slot'[s] = slot[s]
  BY <1>1, Opens
<1>3. UNCHANGED <<size, gone, faults>>
  BY DEF OpenLive
<1>4. \A f : Full(f)' <=> Full(f)
  BY <1>3 DEF Full
<1>5. writer'[w].at = at /\ writer'[w].file = slot'[0] /\ writer'[w].len = writer[w].len
  BY <1>2 DEF LogInv, LogTypeOK, WriterState
<1>6. \A v \in Writer \ {w} : writer'[v] = writer[v]
  BY <1>2 DEF LogInv, LogTypeOK
<1>7. LogTypeOK'
  BY <1>2, <1>3 DEF LogInv, LogTypeOK, Release
<1>8. MadeFiles'
  <2>1. \A s \in Slot : slot'[s] <= made'
    BY <1>2 DEF LogInv, LogTypeOK, MadeFiles, Slot
  <2>2. \A g \in gone' : g <= made'
    BY <1>2, <1>3 DEF LogInv, LogTypeOK, MadeFiles
  <2>3. \A v \in Writer : /\ writer'[v].file <= made'
                          /\ writer'[v].at # "closed" => writer'[v].file # NoFile
    BY <1>2, <1>5, <1>6 DEF LogInv, LogTypeOK, MadeFiles, WriterState
  <2> QED BY <2>1, <2>2, <2>3 DEF MadeFiles
<1>9. RotationsAreOwn'
  <2>1. RotationIsOwn(w)'
    BY <1>5 DEF RotationIsOwn, Rotating
  <2>2. ASSUME NEW v \in Writer \ {w} PROVE RotationIsOwn(v)'
    <3>1. RotationIsOwn(v) /\ RotationIsOwn(w) /\ writer'[v] = writer[v]
      BY <1>6 DEF LogInv, RotationsAreOwn
    <3>2. Rotating(v) => lock' = v
      BY <3>1, NobodyIsNoWriter DEF RotationIsOwn, Release
    <3>3. writer[v].at = "drop" => slot'[0] = writer[v].file
      <4>1. writer[v].at = "drop" => slot[0] = writer[v].file /\ writer[v].file # NoFile
        BY <3>1 DEF RotationIsOwn, LogInv, MadeFiles
      <4> QED BY <4>1, <1>2
    <3>4. ASSUME writer[v].at = "shift", writer[v].k <= Kept
          PROVE  slot'[0] = writer[v].file /\ slot'[Kept - writer[v].k + 1] = NoFile
      <4>1. slot[0] = writer[v].file /\ writer[v].file # NoFile
            /\ slot[Kept - writer[v].k + 1] = NoFile
        BY <3>1, <3>4 DEF RotationIsOwn, LogInv, MadeFiles
      <4> QED BY <4>1, <1>2
    <3> QED BY <1>4, <3>1, <3>2, <3>3, <3>4 DEF RotationIsOwn, Rotating
  <2> QED BY <2>1, <2>2 DEF RotationsAreOwn
<1>10. NewestFirst'
  <2> SUFFICES ASSUME NEW s \in Slot, NEW t \in Slot, s < t, slot'[s] # NoFile
               PROVE  slot'[t] < slot'[s]
    BY DEF NewestFirst
  <2>1. t # 0 /\ slot'[t] = slot[t] /\ slot[t] <= made /\ slot[t] \in Nat
    BY <1>2 DEF Slot, LogInv, LogTypeOK, MadeFiles
  <2>2. CASE s = 0 /\ slot[0] = NoFile
    BY <2>1, <2>2, <1>2 DEF LogInv, LogTypeOK
  <2>3. CASE s # 0 \/ slot[0] # NoFile
    <3>1. slot'[s] = slot[s]
      BY <2>3, <1>2 DEF Slot
    <3> QED BY <2>1, <3>1 DEF LogInv, NewestFirst
  <2> QED BY <2>2, <2>3
<1>11. ArchivesAreFull'
  BY <1>2, <1>4 DEF LogInv, ArchivesAreFull
<1>12. GoneAreOldest'
  <2> SUFFICES ASSUME NEW s \in Slot, NEW g \in gone, slot'[s] # NoFile
               PROVE  g < slot'[s]
    BY <1>3 DEF GoneAreOldest
  <2>1. g <= made /\ g \in Nat
    BY DEF LogInv, LogTypeOK, MadeFiles
  <2>2. CASE s = 0 /\ slot[0] = NoFile
    BY <2>1, <2>2, <1>2 DEF LogInv, LogTypeOK
  <2>3. CASE s # 0 \/ slot[0] # NoFile
    <3>1. slot'[s] = slot[s]
      BY <2>3, <1>2 DEF Slot
    <3> QED BY <3>1 DEF LogInv, GoneAreOldest
  <2> QED BY <2>2, <2>3
<1> QED BY <1>7, <1>8, <1>9, <1>10, <1>11, <1>12 DEF LogInv
-----------------------------------------------------------------------------
(* The steps that only move a writer.                                          *)

\* A writer that moves without touching a file or the lock breaks nothing of the others.
LEMMA MovesSafely ==
  ASSUME LogInv, NEW w \in Writer, NEW state \in WriterState, Becomes(w, state),
         state.file <= made, state.at # "closed" => state.file # NoFile,
         UNCHANGED <<slot, size, made, gone>>, faults' \in Nat,
         \/ lock' = lock
         \/ lock' = w /\ lock = Nobody
         \/ Release(w),
         RotationIsOwn(w)'
  PROVE  LogInv'
<1>1. writer' \in [Writer -> WriterState] /\ writer'[w] = state
      /\ \A v \in Writer \ {w} : writer'[v] = writer[v]
  BY DEF LogInv, LogTypeOK, Becomes
<1>2. LogTypeOK'
  BY <1>1 DEF LogInv, LogTypeOK, Release
<1>3. MadeFiles'
  BY <1>1 DEF LogInv, MadeFiles
<1>4. RotationsAreOwn'
  <2>1. ASSUME NEW v \in Writer \ {w} PROVE RotationIsOwn(v)'
    BY <1>1, NobodyIsNoWriter
    DEF LogInv, RotationsAreOwn, RotationIsOwn, Rotating, Full, Release
  <2> QED BY <2>1 DEF RotationsAreOwn
<1> QED BY <1>2, <1>3, <1>4
    DEF LogInv, NewestFirst, ArchivesAreFull, GoneAreOldest, Full

LEMMA OpenStep ==
  ASSUME LogInv, NEW w \in Writer, Open(w)
  PROVE  LogInv'
<1>1. OpenLive(w, "idle") /\ lock' = lock /\ ~Rotating(w)
  BY DEF Open, Doing, Rotating
<1> QED BY <1>1, OpensSafely

LEMMA RecordStep ==
  ASSUME LogInv, NEW w \in Writer, Record(w)
  PROVE  LogInv'
<1>1. PICK len \in Lengths : Becomes(w, [writer[w] EXCEPT !.at = "follow", !.len = len])
  BY DEF Record
<1> DEFINE state == [writer[w] EXCEPT !.at = "follow", !.len = len]
<1>2. state \in WriterState /\ state.file = writer[w].file /\ state.at = "follow"
      /\ state.len = len
  BY LogBounds DEF LogInv, LogTypeOK, WriterState, Stage
<1>3. Becomes(w, state)
  BY <1>1
<1> HIDE DEF state
<1>4. writer'[w] = state
  BY <1>3 DEF Becomes, LogInv, LogTypeOK
<1>5. RotationIsOwn(w)'
  BY <1>2, <1>4 DEF RotationIsOwn, Rotating
<1>6. state.file <= made /\ state.file # NoFile
  BY <1>2 DEF Record, Doing, LogInv, MadeFiles
<1>7. UNCHANGED <<slot, size, made, gone>> /\ faults' \in Nat /\ lock' = lock
  BY DEF Record, LogInv, LogTypeOK
<1> QED BY <1>2, <1>3, <1>5, <1>6, <1>7, MovesSafely

\* A step of `Steps`, that changes nothing but where the writer is.
LEMMA StepsSafely ==
  ASSUME LogInv, NEW w \in Writer, NEW at \in Stage \ {"closed"}, Steps(w, at),
         writer[w].at # "closed",
         UNCHANGED <<slot, size, made, gone>>, faults' \in Nat,
         \/ lock' = lock
         \/ lock' = w /\ lock = Nobody
         \/ Release(w),
         \A state : /\ state.at = at /\ state.file = writer[w].file
                    /\ state.len = writer[w].len /\ writer'[w] = state
                    => RotationIsOwn(w)'
  PROVE  LogInv'
<1> DEFINE state == [writer[w] EXCEPT !.at = at]
<1>1. state \in WriterState /\ state.file = writer[w].file /\ state.at = at
      /\ state.len = writer[w].len
  BY DEF LogInv, LogTypeOK, WriterState
<1>2. Becomes(w, state)
  BY DEF Steps
<1> HIDE DEF state
<1>3. writer'[w] = state
  BY <1>2 DEF Becomes, LogInv, LogTypeOK
<1>4. RotationIsOwn(w)'
  BY <1>1, <1>3
<1>5. state.file <= made /\ state.file # NoFile
  BY <1>1 DEF LogInv, MadeFiles
<1> QED BY <1>1, <1>2, <1>4, <1>5, MovesSafely

LEMMA FollowStep ==
  ASSUME LogInv, NEW w \in Writer, Follow(w)
  PROVE  LogInv'
<1>1. writer[w].at = "follow" /\ lock' = lock
  BY DEF Follow, Doing
<1>2. writer[w].len \in Lengths
  BY <1>1 DEF LogInv, RotationsAreOwn, RotationIsOwn
<1>3. CASE HoldsLive(w)
  <2>1. ASSUME NEW state, state.at = "weigh", state.len = writer[w].len, writer'[w] = state
        PROVE  RotationIsOwn(w)'
    BY <1>2, <2>1 DEF RotationIsOwn, Rotating
  <2>2. Steps(w, "weigh") /\ UNCHANGED <<slot, size, made, gone>> /\ faults' \in Nat
    BY <1>3 DEF Follow, LogInv, LogTypeOK
  <2> QED BY <1>1, <2>1, <2>2, StepsSafely DEF Stage
<1>4. CASE ~HoldsLive(w)
  <2>1. OpenLive(w, "weigh") /\ ~Rotating(w)
    BY <1>1, <1>4 DEF Follow, Rotating
  <2> QED BY <1>1, <1>2, <2>1, OpensSafely
<1> QED BY <1>3, <1>4

LEMMA WeighStep ==
  ASSUME LogInv, NEW w \in Writer, Weigh(w)
  PROVE  LogInv'
<1> DEFINE at == IF Overflows(w) THEN "lock" ELSE "append"
<1>1. writer[w].at = "weigh" /\ lock' = lock /\ Steps(w, at)
      /\ UNCHANGED <<slot, size, made, gone>> /\ faults' \in Nat
  BY DEF Weigh, Doing, LogInv, LogTypeOK
<1>2. writer[w].len \in Lengths
  BY <1>1 DEF LogInv, RotationsAreOwn, RotationIsOwn
<1>3. Overflows(w) => Full(writer[w].file)
  BY <1>2 DEF Overflows, Full
<1>4. ASSUME NEW state, state.at = at, state.file = writer[w].file,
             state.len = writer[w].len, writer'[w] = state
      PROVE  RotationIsOwn(w)'
  BY <1>1, <1>2, <1>3, <1>4 DEF RotationIsOwn, Rotating, Full
<1>5. at \in Stage \ {"closed"}
  BY DEF Stage
<1> HIDE DEF at
<1> QED BY <1>1, <1>4, <1>5, StepsSafely

LEMMA LockStep ==
  ASSUME LogInv, NEW w \in Writer, Lock(w)
  PROVE  LogInv'
<1>1. writer[w].at = "lock" /\ lock = Nobody /\ lock' = w /\ Steps(w, "recheck")
      /\ UNCHANGED <<slot, size, made, gone>> /\ faults' \in Nat
  BY DEF Lock, Doing, LogInv, LogTypeOK
<1>2. writer[w].len \in Lengths /\ Full(writer[w].file)
  BY <1>1 DEF LogInv, RotationsAreOwn, RotationIsOwn
<1>3. ASSUME NEW state, state.at = "recheck", state.file = writer[w].file,
             state.len = writer[w].len, writer'[w] = state
      PROVE  RotationIsOwn(w)'
  BY <1>1, <1>2, <1>3 DEF RotationIsOwn, Rotating, Full
<1> QED BY <1>1, <1>3, StepsSafely DEF Stage

LEMMA RecheckStep ==
  ASSUME LogInv, NEW w \in Writer, Recheck(w)
  PROVE  LogInv'
<1>1. writer[w].at = "recheck"
  BY DEF Recheck, Doing
<1>2. lock = w /\ writer[w].len \in Lengths /\ Full(writer[w].file)
  BY <1>1 DEF LogInv, RotationsAreOwn, RotationIsOwn, Rotating
<1>3. CASE HoldsLive(w)
  <2>1. Steps(w, "drop") /\ UNCHANGED <<slot, size, made, gone, lock>> /\ faults' \in Nat
    BY <1>3 DEF Recheck, LogInv, LogTypeOK
  <2>2. ASSUME NEW state, state.at = "drop", state.file = writer[w].file,
               state.len = writer[w].len, writer'[w] = state
        PROVE  RotationIsOwn(w)'
    BY <1>2, <1>3, <2>1, <2>2 DEF RotationIsOwn, Rotating, Full, HoldsLive
  <2> QED BY <1>1, <2>1, <2>2, StepsSafely DEF Stage
<1>4. CASE ~HoldsLive(w)
  <2>1. OpenLive(w, "append") /\ Release(w)
    BY <1>4 DEF Recheck
  <2> QED BY <1>2, <2>1, OpensSafely
<1> QED BY <1>3, <1>4

LEMMA RotatedStep ==
  ASSUME LogInv, NEW w \in Writer, Rotated(w)
  PROVE  LogInv'
<1>1. writer[w].at = "shift" /\ OpenLive(w, "append") /\ Release(w)
  BY DEF Rotated, Doing
<1>2. lock = w /\ writer[w].len \in Lengths
  BY <1>1 DEF LogInv, RotationsAreOwn, RotationIsOwn, Rotating
<1> QED BY <1>1, <1>2, OpensSafely

LEMMA LogFailsStep ==
  ASSUME LogInv, NEW w \in Writer, LogFails(w)
  PROVE  LogInv'
<1> DEFINE state == Idle(w)
<1>1. state = [at |-> "idle", file |-> writer[w].file, len |-> 0, k |-> 0]
  BY DEF Idle
<1> HIDE DEF state
<1>2. state \in WriterState /\ state.file <= made /\ state.file # NoFile
  BY <1>1 DEF LogFails, Doing, LogInv, LogTypeOK, MadeFiles, WriterState, Stage
<1>3. Becomes(w, state)
  BY DEF LogFails, state
<1>4. writer'[w] = state
  BY <1>3 DEF Becomes, LogInv, LogTypeOK
<1>5. RotationIsOwn(w)'
  BY <1>1, <1>4 DEF RotationIsOwn, Rotating
<1>6. UNCHANGED <<slot, size, made, gone>> /\ faults' \in Nat /\ Release(w)
  BY DEF LogFails, LogInv, LogTypeOK
<1> QED BY <1>2, <1>3, <1>5, <1>6, MovesSafely

LEMMA CrashStep ==
  ASSUME LogInv, NEW w \in Writer, Crash(w)
  PROVE  LogInv'
<1>1. Closed \in WriterState /\ Closed.file <= made /\ Closed.at = "closed"
  BY LogBounds DEF Closed, WriterState, Stage, NoFile, LogInv, LogTypeOK
<1>2. Becomes(w, Closed) /\ UNCHANGED <<slot, size, made, gone>> /\ faults' \in Nat
      /\ Release(w)
  BY DEF Crash, LogInv, LogTypeOK
<1>3. writer'[w] = Closed
  BY <1>2 DEF Becomes, LogInv, LogTypeOK
<1>4. RotationIsOwn(w)'
  BY <1>1, <1>3 DEF RotationIsOwn, Rotating
<1> QED BY <1>1, <1>2, <1>4, MovesSafely
-----------------------------------------------------------------------------
(* The steps that change the files.                                            *)

\* A late record only makes a file larger.
LEMMA AppendStep ==
  ASSUME LogInv, NEW w \in Writer, AppendRecord(w)
  PROVE  LogInv'
<1> USE LogBounds
<1> DEFINE state == Idle(w)
<1>1. state = [at |-> "idle", file |-> writer[w].file, len |-> 0, k |-> 0]
  BY DEF Idle
<1>2. Becomes(w, state) /\ UNCHANGED <<slot, made, gone, lock, faults>>
  BY DEF AppendRecord
<1> HIDE DEF state
<1>3. state \in WriterState /\ state.file <= made /\ state.file # NoFile
      /\ state.at = "idle"
  BY <1>1 DEF AppendRecord, Doing, LogInv, LogTypeOK, MadeFiles, WriterState, Stage
<1>4. writer' \in [Writer -> WriterState] /\ writer'[w] = state
      /\ \A v \in Writer \ {w} : writer'[v] = writer[v]
  BY <1>2, <1>3 DEF LogInv, LogTypeOK, Becomes
<1>5. writer[w].at = "append" /\ writer[w].len \in Lengths /\ writer[w].file \in Nat
  BY DEF AppendRecord, Doing, LogInv, LogTypeOK, WriterState, RotationsAreOwn, RotationIsOwn
<1>6. size' \in [File -> Nat] /\ \A f \in File : size[f] <= size'[f]
  <2>1. size' = [size EXCEPT ![writer[w].file] = size[writer[w].file] + writer[w].len]
    BY DEF AppendRecord
  <2>2. size \in [File -> Nat] /\ writer[w].len \in Nat
    BY <1>5 DEF LogInv, LogTypeOK
  <2>3. ASSUME NEW f \in File PROVE size'[f] \in Nat /\ size[f] <= size'[f]
    BY <2>1, <2>2
  <2> QED BY <2>1, <2>2, <2>3
<1>7. \A f \in File : Full(f) => Full(f)'
  <2>1. ASSUME NEW f \in File, NEW len \in Lengths, size[f] + len > MaxBytes
        PROVE  size'[f] + len > MaxBytes
    <3>1. size[f] \in Nat /\ size'[f] \in Nat /\ size[f] <= size'[f]
      BY <1>6 DEF LogInv, LogTypeOK
    <3>2. len \in Nat /\ MaxBytes \in Nat
      OBVIOUS
    <3> QED BY <2>1, <3>1, <3>2
  <2> QED BY <2>1 DEF Full
<1>8. LogTypeOK'
  BY <1>2, <1>4, <1>6 DEF LogInv, LogTypeOK
<1>9. MadeFiles'
  BY <1>2, <1>3, <1>4 DEF LogInv, MadeFiles
<1>10. RotationsAreOwn'
  <2>1. RotationIsOwn(w)'
    BY <1>3, <1>4 DEF RotationIsOwn, Rotating
  <2>2. ASSUME NEW v \in Writer \ {w} PROVE RotationIsOwn(v)'
    <3>1. writer[v].at # "closed" => writer[v].file \in File
      BY DEF LogInv, LogTypeOK, MadeFiles, WriterState, File, NoFile
    <3>2. Full(writer[v].file) /\ writer[v].at # "closed" => Full(writer[v].file)'
      BY <1>4, <1>7, <3>1 DEF Full
    <3> QED BY <1>2, <1>4, <3>2 DEF LogInv, RotationsAreOwn, RotationIsOwn, Rotating
  <2> QED BY <2>1, <2>2 DEF RotationsAreOwn
<1>11. ArchivesAreFull'
  <2>1. \A s \in Slot : slot[s] # NoFile => slot[s] \in File
    BY DEF LogInv, LogTypeOK, MadeFiles, File, NoFile
  <2>2. \A s \in Slot \ {0} : slot[s] # NoFile => Full(slot[s])'
    BY <1>2, <1>7, <2>1 DEF LogInv, ArchivesAreFull, Full
  <2> QED BY <1>2, <2>2 DEF ArchivesAreFull, Full
<1>12. NewestFirst' /\ GoneAreOldest'
  BY <1>2 DEF LogInv, NewestFirst, GoneAreOldest
<1> QED BY <1>8, <1>9, <1>10, <1>11, <1>12 DEF LogInv

\* The oldest archive is given up; the one who holds the lock knows what is live.
LEMMA DropStep ==
  ASSUME LogInv, NEW w \in Writer, Drop(w)
  PROVE  LogInv'
<1> USE LogBounds DEF NoFile, Slot
<1> DEFINE state == [writer[w] EXCEPT !.at = "shift", !.k = 1]
<1>1. writer[w].at = "drop" /\ Becomes(w, state) /\ UNCHANGED <<size, made, lock, faults>>
      /\ gone' = gone \cup ({slot[Kept]} \ {NoFile})
  BY DEF Drop, Doing
<1>2. state \in WriterState /\ state.at = "shift" /\ state.k = 1
      /\ state.file = writer[w].file /\ state.len = writer[w].len
  BY DEF LogInv, LogTypeOK, WriterState, Stage
<1> HIDE DEF state
<1>3. writer' \in [Writer -> WriterState] /\ writer'[w] = state
      /\ \A v \in Writer \ {w} : writer'[v] = writer[v]
  BY <1>1, <1>2 DEF LogInv, LogTypeOK, Becomes
<1>4. /\ slot' \in [Slot -> Nat] /\ slot'[Kept] = NoFile
      /\ \A s \in Slot \ {Kept} : slot'[s] = slot[s]
  BY DEF Drop, LogInv, LogTypeOK
<1>5. lock = w /\ Full(writer[w].file) /\ slot[0] = writer[w].file
      /\ writer[w].len \in Lengths
  BY <1>1 DEF LogInv, RotationsAreOwn, RotationIsOwn, Rotating
<1>6. LogTypeOK'
  <2>1. gone \subseteq Nat /\ slot[Kept] \in Nat
    BY DEF LogInv, LogTypeOK
  <2>2. gone' \subseteq Nat
    BY <1>1, <2>1
  <2> QED BY <1>1, <1>3, <1>4, <2>2 DEF LogInv, LogTypeOK
<1>7. MadeFiles'
  <2>1. \A v \in Writer : /\ writer'[v].file <= made
                          /\ writer'[v].at # "closed" => writer'[v].file # NoFile
    BY <1>1, <1>2, <1>3 DEF LogInv, MadeFiles
  <2>2. \A s \in Slot : slot'[s] <= made
    BY <1>4 DEF LogInv, LogTypeOK, MadeFiles
  <2>3. \A g \in gone' : g <= made
    BY <1>1 DEF LogInv, MadeFiles
  <2> QED BY <1>1, <2>1, <2>2, <2>3 DEF MadeFiles
<1>8. RotationsAreOwn'
  <2>1. RotationIsOwn(w)'
    <3>1. /\ writer'[w].at = "shift" /\ writer'[w].k = 1
          /\ writer'[w].file = writer[w].file /\ writer'[w].len = writer[w].len
      BY <1>2, <1>3
    <3>2. /\ lock' = w /\ size' = size /\ slot'[0] = slot[0] /\ slot'[Kept] = NoFile
          /\ 1 \in 1..(Kept + 1) /\ Kept - 1 + 1 = Kept
      BY <1>1, <1>4, <1>5
    <3>3. Full(writer[w].file)'
      BY <1>1, <1>5, <3>1 DEF Full
    <3>. QED  BY <1>5, <3>1, <3>2, <3>3 DEF RotationIsOwn, Rotating
  <2>2. ASSUME NEW v \in Writer \ {w} PROVE RotationIsOwn(v)'
    <3>1. ~Rotating(v) /\ RotationIsOwn(v)
      BY <1>5 DEF LogInv, RotationsAreOwn, RotationIsOwn
    <3> QED BY <1>1, <1>3, <3>1 DEF RotationIsOwn, Rotating, Full
  <2> QED BY <2>1, <2>2 DEF RotationsAreOwn
<1>9. NewestFirst'
  BY <1>4 DEF LogInv, LogTypeOK, NewestFirst
<1>10. ArchivesAreFull'
  BY <1>1, <1>4 DEF LogInv, ArchivesAreFull, Full
<1>11. GoneAreOldest'
  <2> SUFFICES ASSUME NEW s \in Slot, NEW g \in gone', slot'[s] # NoFile PROVE g < slot'[s]
    BY DEF GoneAreOldest
  <2>1. s # Kept /\ slot'[s] = slot[s] /\ s < Kept
    BY <1>4
  <2>2. CASE g \in gone
    BY <2>1, <2>2 DEF LogInv, GoneAreOldest
  <2>3. CASE g = slot[Kept]
    BY <2>1, <2>3 DEF LogInv, NewestFirst
  <2> QED BY <1>1, <2>2, <2>3
<1> QED BY <1>6, <1>7, <1>8, <1>9, <1>10, <1>11 DEF LogInv

\* Every rename moves one file into a free place, the live file last.
LEMMA ShiftStep ==
  ASSUME LogInv, NEW w \in Writer, Shift(w)
  PROVE  LogInv'
<1> USE LogBounds DEF NoFile, Slot
<1> DEFINE state == [writer[w] EXCEPT !.k = writer[w].k + 1]
           from == Kept - writer[w].k
<1>1. writer[w].at = "shift" /\ writer[w].k <= Kept
      /\ UNCHANGED <<size, made, lock, faults>>
  BY DEF Shift, Doing
<1>2. writer[w] \in WriterState /\ writer[w].k \in 1..Kept
  BY <1>1 DEF LogInv, LogTypeOK, RotationsAreOwn, RotationIsOwn, WriterState
<1>3. state \in WriterState /\ state.at = "shift" /\ state.k = writer[w].k + 1
      /\ state.file = writer[w].file /\ state.len = writer[w].len
  BY <1>1, <1>2 DEF WriterState
<1>4. writer' = [writer EXCEPT ![w] = state]
  BY DEF Shift, Becomes
<1> HIDE DEF state
<1>5. writer' \in [Writer -> WriterState] /\ writer'[w] = state
      /\ \A v \in Writer \ {w} : writer'[v] = writer[v]
  BY <1>3, <1>4 DEF LogInv, LogTypeOK
<1>6. from \in 0..(Kept - 1) /\ slot \in [Slot -> Nat]
  BY <1>2 DEF LogInv, LogTypeOK
<1>7. lock = w /\ Full(writer[w].file) /\ slot[0] = writer[w].file
      /\ slot[from + 1] = NoFile /\ writer[w].len \in Lengths
  BY <1>1, <1>2 DEF LogInv, RotationsAreOwn, RotationIsOwn, Rotating
<1>8. gone' = gone
  BY <1>7 DEF Shift
<1>9. /\ slot' \in [Slot -> Nat] /\ slot'[from] = NoFile /\ slot'[from + 1] = slot[from]
      /\ \A s \in Slot \ {from, from + 1} : slot'[s] = slot[s]
  <2>1. CASE slot[from] = NoFile
    BY <1>6, <1>7, <2>1 DEF Shift
  <2>2. CASE slot[from] # NoFile
    <3>1. slot' = [slot EXCEPT ![from] = NoFile, ![from + 1] = slot[from]]
      BY <2>2 DEF Shift
    <3>2. from \in Slot /\ from + 1 \in Slot /\ from # from + 1 /\ slot[from] \in Nat
      BY <1>6
    <3> HIDE DEF from
    <3> QED BY <1>6, <3>1, <3>2
  <2> QED BY <2>1, <2>2
<1>10. Kept - writer[w].k = from /\ Kept - (writer[w].k + 1) + 1 = from
       /\ (from = 0 <=> writer[w].k = Kept)
  BY <1>2
<1> HIDE DEF from
<1>11. LogTypeOK'
  BY <1>1, <1>5, <1>8, <1>9 DEF LogInv, LogTypeOK
<1>12. MadeFiles'
  <2>1. \A v \in Writer : /\ writer'[v].file <= made
                          /\ writer'[v].at # "closed" => writer'[v].file # NoFile
    BY <1>1, <1>3, <1>5 DEF LogInv, MadeFiles
  <2>2. \A s \in Slot : slot'[s] <= made
    BY <1>6, <1>9 DEF LogInv, LogTypeOK, MadeFiles
  <2> QED BY <1>1, <1>8, <2>1, <2>2 DEF LogInv, MadeFiles
<1>13. RotationsAreOwn'
  <2>1. RotationIsOwn(w)'
    <3>1. writer'[w].k \in 1..(Kept + 1)
      BY <1>2, <1>3, <1>5
    <3>2. ASSUME writer'[w].k <= Kept
          PROVE  slot'[0] = writer'[w].file /\ slot'[Kept - writer'[w].k + 1] = NoFile
      <4>1. writer[w].k # Kept
        BY <1>2, <1>3, <1>5, <3>2
      <4>2. slot'[0] = slot[0]
        BY <1>6, <1>9, <1>10, <4>1
      <4> QED BY <1>3, <1>5, <1>7, <1>9, <1>10, <4>2
    <3> QED BY <1>1, <1>3, <1>5, <1>7, <3>1, <3>2 DEF RotationIsOwn, Rotating, Full
  <2>2. ASSUME NEW v \in Writer \ {w} PROVE RotationIsOwn(v)'
    <3>1. ~Rotating(v) /\ RotationIsOwn(v)
      BY <1>7 DEF LogInv, RotationsAreOwn, RotationIsOwn
    <3> QED BY <1>1, <1>5, <3>1 DEF RotationIsOwn, Rotating, Full
  <2> QED BY <2>1, <2>2 DEF RotationsAreOwn
<1>14. NewestFirst'
  <2> SUFFICES ASSUME NEW s \in Slot, NEW t \in Slot, s < t, slot'[s] # NoFile
               PROVE  slot'[t] < slot'[s]
    BY DEF NewestFirst
  <2>1. s # from
    BY <1>9
  <2> DEFINE was(r) == IF r = from + 1 THEN from ELSE r
  <2>2. slot'[s] = slot[was(s)] /\ was(s) \in Slot
    BY <1>6, <1>9, <2>1
  <2>3. CASE t = from
    BY <1>9, <2>2, <2>3
  <2>4. CASE t # from
    <3>1. slot'[t] = slot[was(t)] /\ was(t) \in Slot
      BY <1>6, <1>9, <2>4
    <3>2. was(s) < was(t)
      BY <1>6, <2>1, <2>4
    <3> QED BY <2>2, <3>1, <3>2 DEF LogInv, NewestFirst
  <2> QED BY <2>3, <2>4
<1>15. ArchivesAreFull'
  <2> SUFFICES ASSUME NEW s \in Slot \ {0}, slot'[s] # NoFile PROVE Full(slot'[s])
    BY <1>1 DEF ArchivesAreFull, Full
  <2>1. CASE s = from + 1
    <3>1. slot'[s] = slot[from]
      BY <1>9, <2>1
    <3>2. CASE from = 0
      BY <1>7, <3>1, <3>2
    <3>3. CASE from # 0
      BY <1>6, <2>1, <3>1, <3>3 DEF LogInv, ArchivesAreFull
    <3> QED BY <3>2, <3>3
  <2>2. CASE s # from + 1
    BY <1>9, <2>2 DEF LogInv, ArchivesAreFull
  <2> QED BY <2>1, <2>2
<1>16. GoneAreOldest'
  <2> SUFFICES ASSUME NEW s \in Slot, NEW g \in gone, slot'[s] # NoFile PROVE g < slot'[s]
    BY <1>8 DEF GoneAreOldest
  <2>1. CASE s = from + 1
    BY <1>6, <1>9, <2>1 DEF LogInv, GoneAreOldest
  <2>2. CASE s # from + 1
    BY <1>9, <2>2 DEF LogInv, GoneAreOldest
  <2> QED BY <2>1, <2>2
<1> QED BY <1>11, <1>12, <1>13, <1>14, <1>15, <1>16 DEF LogInv
-----------------------------------------------------------------------------
LEMMA LogInvStep == LogInv /\ [LogNext]_logVars => LogInv'
<1> SUFFICES ASSUME LogInv, [LogNext]_logVars PROVE LogInv'
  OBVIOUS
<1>1. CASE UNCHANGED logVars
  BY <1>1 DEF logVars, LogInv, LogTypeOK, MadeFiles, RotationsAreOwn, RotationIsOwn, Rotating,
     Full, NewestFirst, ArchivesAreFull, GoneAreOldest
<1>2. ASSUME NEW w \in Writer,
             \/ Open(w) \/ Record(w) \/ Follow(w) \/ Weigh(w) \/ Lock(w) \/ Recheck(w)
             \/ Drop(w) \/ Shift(w) \/ Rotated(w) \/ AppendRecord(w) \/ LogFails(w) \/ Crash(w)
      PROVE  LogInv'
  BY <1>2, OpenStep, RecordStep, FollowStep, WeighStep, LockStep, RecheckStep, DropStep,
     ShiftStep, RotatedStep, AppendStep, LogFailsStep, CrashStep
<1> QED BY <1>1, <1>2 DEF LogNext

\* The archives of the log are in order, full, and newer than what was given up, for any
\* number of writers that rotate, fail and stop anywhere (engine_logging.rs, rotate).
THEOREM LogIsKept == LogSpec => []LogKeepsRecords
<1>1. LogSpec => []LogInv
  BY LogInitInv, LogInvStep, PTL DEF LogSpec
<1> QED BY <1>1, LogInvImplies, PTL

-----------------------------------------------------------------------------
(* The ledger, opened, copied and migrated.  The invariant has four layers:    *)
(* what a process may conclude from where it is about the ledger, whose the    *)
(* partial copies are, why the copy before a migration is still there, and why *)
(* a list that is out of date dooms no file without a newer one that stands in *)
(* for it.                                                                     *)

Copying == {"reserve", "create", "vacuum", "verify", "failed", "rename"}
Opened == Copying \cup {"pending", "list", "apply", "prune", "delete"}
LaunchStage == Opened \cup {"off", "find", "connect", "assets", "serving"}

FileName == [stamp : Nat, pre : BOOLEAN, n : Nat, ext : {"sqlite", "partial", "failed"}]
Content == {Reserved, Damaged} \cup (0..Latest)
Dirs == {BackupDir(env) : env \in Env} \cup {Unset}

ProcState == [at : LaunchStage, dir : Dirs, backups : BOOLEAN, create : BOOLEAN,
              created : BOOLEAN, applied : Nat, stamp : Nat, pre : BOOLEAN, n : Nat,
              doomed : SUBSET FileName]

TypeOK ==
    /\ {ledger, origin} \subseteq {Unset} \cup (0..Latest)
    /\ Files \subseteq FileName /\ IsFiniteSet(Files)
    /\ \A f \in Files : files[f] \in Content
    /\ now \in Nat /\ proc \in [Process -> ProcState]
    /\ replaced \in BOOLEAN /\ lost \in BOOLEAN

(* The ledger only grows, and a process knows how far from where it is.        *)

\* The rule for a process in state `s`.
LedgerRule(s) ==
    /\ s.at \in Opened => ledger # Unset
    /\ s.at \in {"connect", "pending"} /\ s.created => origin = Unset
    /\ s.at = "apply" => s.applied <= ledger
    /\ s.at \in {"prune", "delete"} => ledger = Latest
    /\ s.at \in Copying /\ ~s.pre => ledger = Latest

LedgerGrows ==
    /\ origin # Unset => ledger # Unset /\ origin <= ledger
    /\ \A p \in Process : LedgerRule(proc[p])

\* Nothing is stamped with a day to come.
StampsArePast == /\ \A f \in Files : f.stamp <= now
                 /\ \A p \in Process : proc[p].stamp <= now

(* Unless it was pruned, the partial file of a process is its own.             *)

Partial(s) == [stamp |-> s.stamp, pre |-> s.pre, n |-> s.n, ext |-> "partial"]
MakingStage == {"vacuum", "verify", "rename", "failed"}

OwnPartial(p) ==
    proc[p].at \in MakingStage =>
        /\ Partial(proc[p]) \in Files
        /\ proc[p].at = "rename" => files[Partial(proc[p])] \in 0..Latest
        /\ \A q \in Process \ {p} : proc[q].at \in MakingStage =>
              Partial(proc[q]) # Partial(proc[p])

CopiesAreOwned == ~lost => /\ \A p \in Process : OwnPartial(p)
                           /\ SnapshotsAreWhole

(* The copy from before a migration.                                           *)

Pre == OfKind(Files, "PreMigration")
Saving(s) == s.at \in Copying /\ s.pre

Undisturbed == origin # Unset /\ ~replaced /\ ~lost
               /\ Cardinality(Process) <= PreMigrationKept

\* Copies before a migration that hold everything already, and launches that may add one.
TooLate == {f \in Pre : files[f] = Latest}
Savers == {p \in Process : Saving(proc[p])}

\* f is an older copy than one that still has something to give back.
Outlived(f) == \E g \in Pre : Precedes(g, f) /\ files[g] # Latest

CopiesAreOfTheLedger ==
    /\ \A f \in Pre : files[f] \in origin..ledger
    /\ \A p \in Process : proc[p].at \in {"verify", "rename"} =>
          files[Partial(proc[p])] \in {Damaged} \cup (origin..ledger)

SavedWhileMigrating ==
    /\ ledger # Latest => \A p \in Process : proc[p].at \in {"list", "apply"} => Pre # {}
    /\ ledger # origin => \E f \in Pre : files[f] # ledger
    /\ ledger = Latest /\ origin # Latest =>
          /\ Cardinality(TooLate) + Cardinality(Savers) < Cardinality(Process)
          /\ \A p \in Process : \A f \in proc[p].doomed :
                Kind(f) = "PreMigration" => Outlived(f)
    /\ ledger # Latest => \A p \in Process : proc[p].doomed = {}

MigrationsAreSaved == Undisturbed => CopiesAreOfTheLedger /\ SavedWhileMigrating

(* What a list dooms, whatever was pruned since.                               *)

LaunchCopies == OfKind(Files, "Launch")
Newer(f) == {g \in LaunchCopies : Precedes(g, f)}

StandIns(f) ==
    /\ Cardinality(Newer(f)) >= RecentLaunches
    /\ Week(f.stamp) \in LastWeeks(now) => \E g \in Newer(f) : Week(g.stamp) = Week(f.stamp)
    /\ Month(f.stamp) \in LastMonths(now) => \E g \in Newer(f) : Month(g.stamp) = Month(f.stamp)

DoomedAreReplaced ==
    \A p \in Process : \A f \in proc[p].doomed :
        f.stamp <= now /\ (Kind(f) = "Launch" => StandIns(f))

LaunchInv == /\ TypeOK /\ LedgerGrows /\ StampsArePast /\ CopiesAreOwned
             /\ MigrationsAreSaved /\ DoomedAreReplaced

-----------------------------------------------------------------------------
(* Files and their names.                                                      *)

LEMMA Constants ==
  /\ Latest \in Nat \ {0} /\ CollisionLimit \in Nat \ {0} /\ IsFiniteSet(Process)
  /\ PreMigrationKept \in Nat \ {0} /\ RecentLaunches \in Nat \ {0}
  /\ DaysPerWeek \in Nat \ {0} /\ DaysPerMonth \in Nat \ {0}
  /\ WeeklyWeeks \in Nat /\ MonthlyMonths \in Nat
  /\ Unset \notin Int /\ Reserved \in Int /\ Damaged \in Int
  /\ Reserved \notin 0..Latest /\ Damaged \notin 0..Latest
  BY LaunchBounds, RetentionPolicy, FoundLedgers DEF Reserved, Damaged

LEMMA PrecedesOrders ==
  ASSUME NEW f \in FileName, NEW g \in FileName, NEW h \in FileName
  PROVE  /\ ~Precedes(f, f)
         /\ Precedes(f, g) /\ Precedes(g, h) => Precedes(f, h)
         /\ Precedes(f, g) => g.stamp <= f.stamp
<1>1. /\ {f.stamp, g.stamp, h.stamp} \subseteq Nat
      /\ \A z \in {f, g, h} : z \in DOMAIN Listed => Listed[z] \in Int
  BY DirectoryOrder DEF FileName
<1>2. /\ ~ListedBefore(f, f)
      /\ ListedBefore(f, g) /\ ListedBefore(g, h) => ListedBefore(f, h)
  <2>1. PICK a, b, c : a = Listed[f] /\ b = Listed[g] /\ c = Listed[h]  OBVIOUS
  <2> QED BY <1>1, <2>1 DEF ListedBefore
<1> QED BY <1>1, <1>2 DEF Precedes

LEMMA KindOfName ==
  ASSUME NEW f \in FileName
  PROVE  /\ Kind(f) = "Launch" <=> f.ext = "sqlite" /\ ~f.pre
         /\ Kind(f) = "PreMigration" <=> f.ext = "sqlite" /\ f.pre
         /\ Kind(f) = "Partial" <=> f.ext = "partial"
         /\ Kind(f) = "Failed" <=> f.ext = "failed"
<1>1. f.ext \in {"sqlite", "partial", "failed"} /\ f.pre \in BOOLEAN
  BY DEF FileName
<1>2. CASE f.ext = "partial"
  <2>1. Kind(f) = "Partial"
    BY <1>2 DEF Kind
  <2> QED BY <1>2, <2>1
<1>3. CASE f.ext = "failed"
  <2>1. Kind(f) = "Failed"
    BY <1>3 DEF Kind
  <2> QED BY <1>3, <2>1
<1>4. CASE f.ext = "sqlite" /\ f.pre
  <2>1. Kind(f) = "PreMigration"
    BY <1>4 DEF Kind
  <2> QED BY <1>4, <2>1
<1>5. CASE f.ext = "sqlite" /\ ~f.pre
  <2>1. Kind(f) = "Launch"
    BY <1>5 DEF Kind
  <2> QED BY <1>5, <2>1
<1> QED BY <1>1, <1>2, <1>3, <1>4, <1>5

\* Who is made for it a name is a name.
LEMMA NamesAreNames ==
  ASSUME NEW p, proc[p] \in ProcState, NEW ext \in {"sqlite", "partial", "failed"}
  PROVE  /\ Name(p, ext) \in FileName /\ Name(p, ext).ext = ext
         /\ Name(p, ext).pre = proc[p].pre /\ Name(p, ext).stamp = proc[p].stamp
         /\ Name(p, "partial") = Partial(proc[p])
  BY DEF Name, FileName, ProcState, Partial

\* A later day has a later week.
LEMMA DivGrows ==
  ASSUME NEW a \in Nat, NEW b \in Nat, NEW d \in Nat \ {0}, a <= b
  PROVE  /\ a \div d \in Int /\ b \div d \in Int
         /\ a \div d <= b \div d
  OBVIOUS

LEMMA WeeksPass ==
  ASSUME NEW day \in Nat, NEW today \in Nat, NEW later \in Nat, day <= today, today <= later
  PROVE  /\ Week(day) \in LastWeeks(later) => Week(day) \in LastWeeks(today)
         /\ Month(day) \in LastMonths(later) => Month(day) \in LastMonths(today)
<1>1. /\ Week(day) \in Int /\ Week(today) \in Int /\ Week(later) \in Int
      /\ Week(day) <= Week(today) /\ Week(today) <= Week(later)
  BY DivGrows, Constants DEF Week
<1>2. /\ Month(day) \in Int /\ Month(today) \in Int /\ Month(later) \in Int
      /\ Month(day) <= Month(today) /\ Month(today) <= Month(later)
  BY DivGrows, Constants DEF Month
<1>3. ASSUME Week(day) \in LastWeeks(later) PROVE Week(day) \in LastWeeks(today)
  <2>1. PICK k \in 0..(WeeklyWeeks - 1) : Week(day) = Week(later) - k
    BY <1>3 DEF LastWeeks
  <2>2. Week(today) - Week(day) \in 0..(WeeklyWeeks - 1)
    BY <1>1, <2>1, Constants
  <2>3. Week(day) = Week(today) - (Week(today) - Week(day))
    BY <1>1
  <2> QED BY <2>2, <2>3 DEF LastWeeks
<1>4. ASSUME Month(day) \in LastMonths(later) PROVE Month(day) \in LastMonths(today)
  <2>1. PICK k \in 0..(MonthlyMonths - 1) : Month(day) = Month(later) - k
    BY <1>4 DEF LastMonths
  <2>2. Month(today) - Month(day) \in 0..(MonthlyMonths - 1)
    BY <1>2, <2>1, Constants
  <2>3. Month(day) = Month(today) - (Month(today) - Month(day))
    BY <1>2
  <2> QED BY <2>2, <2>3 DEF LastMonths
<1> QED BY <1>3, <1>4
-----------------------------------------------------------------------------
(* Quiet steps: a process goes on as `s`, and the ledger and the directory stay. *)

Quiet(p, s) ==
    /\ s \in ProcState /\ proc' = [proc EXCEPT ![p] = s]
    /\ UNCHANGED <<ledger, files, now, origin, replaced, lost>>
    /\ s.stamp <= now /\ LedgerRule(s)
    /\ s.at \in MakingStage =>
          /\ proc[p].at \in MakingStage /\ s.at \in {"rename", "failed"}
          /\ Partial(s) = Partial(proc[p])
          /\ s.at = "rename" => proc[p].at = "verify" /\ files[Partial(s)] \in 0..Latest
    /\ s.at \in {"list", "apply"} =>
          proc[p].at \in {"list", "apply"} \/ ledger = Latest \/ origin = Unset
    /\ Saving(s) => Saving(proc[p]) \/ ledger # Latest
    /\ \/ s.doomed \subseteq proc[p].doomed
       \/ s.doomed = Doomed(Files, now) /\ ledger = Latest

StayVars == <<ledger, files, now, origin, replaced, lost>>

LEMMA StartedState ==
  ASSUME NEW at \in LaunchStage, NEW dir \in Dirs, NEW backups \in BOOLEAN
  PROVE  /\ Started(at, dir, backups) \in ProcState
         /\ Started(at, dir, backups).at = at
         /\ Started(at, dir, backups).stamp = 0
         /\ Started(at, dir, backups).doomed = {}
  BY DEF Started, ProcState

LEMMA OffState ==
  /\ Off \in ProcState /\ Off.at = "off" /\ Off.doomed = {} /\ Off.stamp = 0
<1>1. Unset \in Dirs /\ "off" \in LaunchStage
  BY DEF Dirs, LaunchStage
<1> QED BY <1>1, StartedState DEF Off

LEMMA ProcTyped ==
  ASSUME TypeOK, NEW p \in Process
  PROVE  proc[p] \in ProcState /\ proc[p].dir \in Dirs /\ proc[p].backups \in BOOLEAN
  BY DEF TypeOK, ProcState

\* Turning off is always quiet.
LEMMA TurnsOff ==
  ASSUME TypeOK, NEW p \in Process, proc' = [proc EXCEPT ![p] = Off], UNCHANGED StayVars
  PROVE  Quiet(p, Off)
  BY OffState DEF Quiet, StayVars, LedgerRule, MakingStage, Saving, Copying, Opened, TypeOK

\* So is a stage that needs nothing but what it was started with.
LEMMA StartsQuietly ==
  ASSUME TypeOK, NEW p \in Process,
         NEW at \in {"find", "assets", "serving", "list", "prune"},
         NEW dir \in Dirs, NEW backups \in BOOLEAN,
         proc' = [proc EXCEPT ![p] = Started(at, dir, backups)], UNCHANGED StayVars,
         at \in {"list", "prune"} => ledger # Unset,
         at = "prune" => ledger = Latest,
         at = "list" => ledger = Latest \/ origin = Unset
  PROVE  Quiet(p, Started(at, dir, backups))
<1> DEFINE s == Started(at, dir, backups)
<1>0. at \in LaunchStage
  BY DEF LaunchStage, Opened, Copying
<1>1. /\ s \in ProcState /\ s.at = at /\ s.stamp = 0 /\ s.doomed = {}
  BY <1>0, StartedState
<1> HIDE DEF s
<1>2. s.stamp <= now /\ LedgerRule(s)
  BY <1>1 DEF LedgerRule, Opened, Copying, TypeOK
<1>3. s.at \notin MakingStage /\ ~Saving(s)
  BY <1>1 DEF MakingStage, Saving, Copying
<1>4. proc' = [proc EXCEPT ![p] = s]
  BY DEF s
<1>5. Quiet(p, s)
  BY <1>1, <1>2, <1>3, <1>4 DEF Quiet, StayVars
<1> QED BY <1>5 DEF s

LEMMA GoIs ==
  ASSUME NEW p, NEW s, Go(p, s)
  PROVE  proc' = [proc EXCEPT ![p] = s] /\ UNCHANGED StayVars
  BY DEF Go, StayVars

LEMMA LaunchQuiet ==
  ASSUME TypeOK, NEW p \in Process, NEW env \in Env, Launch(p, env)
  PROVE  \E s : Quiet(p, s)
<1> DEFINE config == Config(env)
           found == Started("find", config.dir, config.backups)
           s == [found EXCEPT !.create = config.create]
<1>1. UNCHANGED StayVars
  BY DEF Launch, StayVars
<1>2. CASE Refused(env) # Unset
  BY <1>1, <1>2, TurnsOff DEF Launch
<1>3. CASE Refused(env) = Unset /\ config.mode = "demo"
  <2>1. proc' = [proc EXCEPT ![p] = Started("assets", Unset, FALSE)]
    BY <1>3 DEF Launch
  <2> QED BY <1>1, <2>1, StartsQuietly DEF Dirs
<1>4. CASE Refused(env) = Unset /\ config.mode # "demo"
  <2>1. proc' = [proc EXCEPT ![p] = s]
    BY <1>4 DEF Launch
  <2>2. config.dir \in Dirs /\ config.create \in BOOLEAN
    BY DEF Config, Dirs
  <2>3. config.backups \in BOOLEAN
    <3>1. config.backups = BackupEnabled(env)
      BY DEF Config
    <3> QED BY <3>1 DEF BackupEnabled
  <2>4. /\ found \in ProcState /\ found.at = "find" /\ found.stamp = 0
        /\ found.doomed = {}
    <3>1. "find" \in LaunchStage
      BY DEF LaunchStage
    <3> QED BY <2>2, <2>3, <3>1, StartedState
  <2> HIDE DEF found, config
  <2>5. /\ s \in ProcState /\ s.at = "find" /\ s.stamp = 0 /\ s.doomed = {}
    BY <2>2, <2>4 DEF ProcState
  <2> HIDE DEF s
  <2>6. Quiet(p, s)
    BY <1>1, <2>1, <2>5
    DEF Quiet, StayVars, LedgerRule, MakingStage, Saving, Opened, Copying, TypeOK
  <2> QED BY <2>6
<1> QED BY <1>2, <1>3, <1>4

LEMMA FindQuiet ==
  ASSUME TypeOK, LedgerGrows, NEW p \in Process, Find(p)
  PROVE  \E s : Quiet(p, s)
<1> DEFINE begun == Onward(p, "connect")
           s == [begun EXCEPT !.created = (ledger = Unset)]
<1>1. CASE ledger = Unset /\ ~proc[p].create
  BY <1>1, TurnsOff, GoIs DEF Find
<1>2. CASE ~(ledger = Unset /\ ~proc[p].create)
  <2>1. proc' = [proc EXCEPT ![p] = s] /\ UNCHANGED StayVars
    BY <1>2, GoIs DEF Find
  <2>2. /\ begun \in ProcState /\ begun.at = "connect" /\ begun.stamp = 0
        /\ begun.doomed = {}
    <3>1. "connect" \in LaunchStage
      BY DEF LaunchStage
    <3> QED BY <3>1, ProcTyped, StartedState DEF Onward
  <2> HIDE DEF begun
  <2>3. /\ s \in ProcState /\ s.at = "connect" /\ s.stamp = 0 /\ s.doomed = {}
        /\ s.created => ledger = Unset
    BY <2>2 DEF ProcState
  <2> HIDE DEF s
  <2>4. Quiet(p, s)
    BY <2>1, <2>3
    DEF Quiet, StayVars, LedgerRule, LedgerGrows, MakingStage, Saving, Opened, Copying, TypeOK
  <2> QED BY <2>4
<1> QED BY <1>1, <1>2

\* take_snapshot begins: before a migration if there is something to migrate.
LEMMA BeginsQuietly ==
  ASSUME TypeOK, NEW p \in Process, NEW pre \in BOOLEAN,
         Go(p, BeginSnapshot(p, pre)), ledger # Unset,
         pre => ledger # Latest, ~pre => ledger = Latest
  PROVE  \E s : Quiet(p, s)
<1> DEFINE begun == Onward(p, "reserve")
           s == [begun EXCEPT !.stamp = now, !.pre = pre]
<1>1. proc' = [proc EXCEPT ![p] = s] /\ UNCHANGED StayVars
  BY GoIs DEF BeginSnapshot
<1>2. begun \in ProcState /\ begun.at = "reserve" /\ begun.doomed = {}
  <2>1. "reserve" \in LaunchStage
    BY DEF LaunchStage, Opened, Copying
  <2> QED BY <2>1, ProcTyped, StartedState DEF Onward
<1> HIDE DEF begun
<1>3. /\ s \in ProcState /\ s.at = "reserve" /\ s.stamp = now /\ s.doomed = {}
      /\ s.pre <=> pre
  BY <1>2 DEF ProcState, TypeOK
<1> HIDE DEF s
<1>4. Quiet(p, s)
  BY <1>1, <1>3
  DEF Quiet, StayVars, LedgerRule, MakingStage, Saving, Opened, Copying, TypeOK
<1> QED BY <1>4

\* A snapshot that is given up: the launch stops, or goes on to prune.
LEMMA UnsavedQuiet ==
  ASSUME TypeOK, LedgerGrows, NEW p \in Process, proc[p].at \in Copying,
         proc' = [proc EXCEPT ![p] = Unsaved(p)], UNCHANGED StayVars
  PROVE  \E s : Quiet(p, s)
<1>1. CASE proc[p].pre
  BY <1>1, TurnsOff DEF Unsaved
<1>2. CASE ~proc[p].pre
  <2>1. ledger = Latest /\ ledger # Unset
    BY <1>2 DEF LedgerGrows, LedgerRule, Opened
  <2>2. proc' = [proc EXCEPT ![p] = Started("prune", proc[p].dir, proc[p].backups)]
    BY <1>2 DEF Unsaved, Onward
  <2> QED BY <2>1, <2>2, ProcTyped, StartsQuietly
<1> QED BY <1>1, <1>2

\* A step within a snapshot that does not make the file yet.
LEMMA NamesQuietly ==
  ASSUME TypeOK, LedgerGrows, StampsArePast, NEW p \in Process, proc[p].at \in Copying,
         NEW s \in ProcState, s.at \in {"reserve", "create"},
         s.pre <=> proc[p].pre, s.stamp = proc[p].stamp, s.doomed = proc[p].doomed,
         proc' = [proc EXCEPT ![p] = s], UNCHANGED StayVars
  PROVE  Quiet(p, s)
<1>1. s.stamp <= now
  BY DEF StampsArePast
<1>2. LedgerRule(s)
  BY DEF LedgerRule, LedgerGrows, Opened, Copying
<1>3. s.at \notin MakingStage /\ (Saving(s) => Saving(proc[p]))
  BY DEF MakingStage, Saving
<1> QED BY <1>1, <1>2, <1>3 DEF Quiet, StayVars

LEMMA NextNameQuiet ==
  ASSUME TypeOK, LedgerGrows, StampsArePast, NEW p \in Process, proc[p].at \in Copying,
         Go(p, NextName(p))
  PROVE  \E s : Quiet(p, s)
<1> DEFINE s == [proc[p] EXCEPT !.n = proc[p].n + 1, !.at = "reserve"]
<1>1. CASE proc[p].n = CollisionLimit
  BY <1>1, UnsavedQuiet, GoIs DEF NextName
<1>2. CASE proc[p].n # CollisionLimit
  <2>1. proc' = [proc EXCEPT ![p] = s] /\ UNCHANGED StayVars
    BY <1>2, GoIs DEF NextName
  <2>2. /\ s \in ProcState /\ s.at = "reserve" /\ s.stamp = proc[p].stamp
        /\ s.doomed = proc[p].doomed /\ (s.pre <=> proc[p].pre)
    <3>1. proc[p] \in ProcState /\ proc[p].n + 1 \in Nat /\ "reserve" \in LaunchStage
      BY ProcTyped DEF ProcState, LaunchStage, Opened, Copying
    <3> DEFINE next == proc[p].n + 1
    <3> HIDE DEF next
    <3>2. s = [proc[p] EXCEPT !.n = next, !.at = "reserve"] /\ next \in Nat
      BY <3>1 DEF next
    <3> QED BY <3>1, <3>2 DEF ProcState
  <2> HIDE DEF s
  <2> QED BY <2>1, <2>2, NamesQuietly
<1> QED BY <1>1, <1>2

LEMMA ReserveQuiet ==
  ASSUME TypeOK, LedgerGrows, StampsArePast, NEW p \in Process, Reserve(p)
  PROVE  \E s : Quiet(p, s)
<1> DEFINE s == [proc[p] EXCEPT !.at = "create"]
<1>1. proc[p].at \in Copying
  BY DEF Reserve, At, Copying
<1>2. CASE Name(p, "sqlite") \in Files
  BY <1>1, <1>2, NextNameQuiet DEF Reserve
<1>3. CASE Name(p, "sqlite") \notin Files
  <2>1. proc' = [proc EXCEPT ![p] = s] /\ UNCHANGED StayVars
    BY <1>3, GoIs DEF Reserve
  <2>2. /\ s \in ProcState /\ s.at = "create" /\ s.stamp = proc[p].stamp
        /\ s.doomed = proc[p].doomed /\ (s.pre <=> proc[p].pre)
    BY ProcTyped DEF ProcState, LaunchStage, Opened, Copying
  <2> HIDE DEF s
  <2> QED BY <1>1, <2>1, <2>2, NamesQuietly
<1> QED BY <1>2, <1>3

LEMMA CreateQuiet ==
  ASSUME TypeOK, LedgerGrows, StampsArePast, NEW p \in Process, Create(p),
         Name(p, "partial") \in Files
  PROVE  \E s : Quiet(p, s)
  BY NextNameQuiet DEF Create, At, Copying

LEMMA VerifyQuiet ==
  ASSUME TypeOK, LedgerGrows, StampsArePast, NEW p \in Process, Verify(p)
  PROVE  \E s : Quiet(p, s)
<1> DEFINE at == IF Sound(Name(p, "partial")) THEN "rename" ELSE "failed"
           s == [proc[p] EXCEPT !.at = at]
<1>1. proc' = [proc EXCEPT ![p] = s] /\ UNCHANGED StayVars
  BY GoIs DEF Verify
<1>2. at \in {"rename", "failed"} /\ (at = "rename" => Sound(Name(p, "partial")))
  OBVIOUS
<1> HIDE DEF at
<1>3. /\ s \in ProcState /\ s.at = at /\ s.stamp = proc[p].stamp /\ s.n = proc[p].n
      /\ s.doomed = proc[p].doomed /\ (s.pre <=> proc[p].pre) /\ s.pre = proc[p].pre
  BY <1>2, ProcTyped DEF ProcState, LaunchStage, Opened, Copying
<1> HIDE DEF s
<1>4. proc[p].at = "verify"
  BY DEF Verify, At
<1>5. Partial(s) = Partial(proc[p])
  BY <1>3 DEF Partial
<1>6. at = "rename" => files[Partial(s)] \in 0..Latest
  BY <1>2, <1>5, ProcTyped, NamesAreNames DEF Sound
<1>7. s.stamp <= now /\ LedgerRule(s)
  BY <1>2, <1>3, <1>4 DEF StampsArePast, LedgerRule, LedgerGrows, Opened, Copying
<1>8. Quiet(p, s)
  BY <1>1, <1>2, <1>3, <1>4, <1>5, <1>6, <1>7
  DEF Quiet, StayVars, MakingStage, Saving, Copying
<1> QED BY <1>8

LEMMA PendingQuiet ==
  ASSUME TypeOK, LedgerGrows, NEW p \in Process, Pending(p)
  PROVE  \E s : Quiet(p, s)
<1>1. proc[p].at = "pending" /\ ledger # Unset /\ ledger \in 0..Latest
      /\ (proc[p].created => origin = Unset)
  BY DEF Pending, At, LedgerGrows, LedgerRule, Opened, TypeOK
<1>2. CASE ~MustSave(ledger, proc[p].created)
  <2>1. ledger = Latest \/ origin = Unset
    BY <1>1, <1>2, Constants DEF MustSave
  <2>2. proc' = [proc EXCEPT ![p] = Started("list", proc[p].dir, proc[p].backups)]
        /\ UNCHANGED StayVars
    BY <1>2, GoIs DEF Pending, Onward
  <2> QED BY <1>1, <2>1, <2>2, ProcTyped, StartsQuietly
<1>3. CASE MustSave(ledger, proc[p].created) /\ proc[p].dir = Unset
  BY <1>3, TurnsOff, GoIs DEF Pending
<1>4. CASE MustSave(ledger, proc[p].created) /\ proc[p].dir # Unset
  <2>1. ledger # Latest
    BY <1>1, <1>4 DEF MustSave
  <2>2. Go(p, BeginSnapshot(p, TRUE))
    BY <1>4 DEF Pending
  <2> QED BY <1>1, <2>1, <2>2, BeginsQuietly
<1> QED BY <1>2, <1>3, <1>4

LEMMA GivesUpQuiet ==
  ASSUME TypeOK, LedgerGrows, NEW p \in Process,
         (Finalize(p) /\ Name(p, "partial") \notin Files) \/ DirectoryFails(p)
  PROVE  \E s : Quiet(p, s)
<1>1. proc[p].at \in Copying
  BY DEF Finalize, DirectoryFails, At, Copying
<1>2. proc' = [proc EXCEPT ![p] = Unsaved(p)] /\ UNCHANGED StayVars
  BY GoIs DEF Finalize, DirectoryFails, StayVars
<1> QED BY <1>1, <1>2, UnsavedQuiet

LEMMA ListAppliedQuiet ==
  ASSUME TypeOK, LedgerGrows, StampsArePast, NEW p \in Process, ListApplied(p)
  PROVE  \E s : Quiet(p, s)
<1> DEFINE s == [proc[p] EXCEPT !.at = "apply", !.applied = ledger]
<1>1. proc' = [proc EXCEPT ![p] = s] /\ UNCHANGED StayVars
  BY GoIs DEF ListApplied
<1>2. proc[p].at = "list" /\ ledger # Unset /\ ledger \in 0..Latest /\ ledger \in Nat
  BY Constants DEF ListApplied, At, LedgerGrows, LedgerRule, Opened, TypeOK
<1>3. /\ s \in ProcState /\ s.at = "apply" /\ s.applied = ledger
      /\ s.stamp = proc[p].stamp /\ s.doomed = proc[p].doomed
  BY <1>2, ProcTyped DEF ProcState, LaunchStage, Opened
<1> HIDE DEF s
<1>4. s.stamp <= now /\ LedgerRule(s)
  BY <1>2, <1>3 DEF StampsArePast, LedgerRule, Copying
<1>5. Quiet(p, s)
  BY <1>1, <1>2, <1>3, <1>4 DEF Quiet, StayVars, MakingStage, Saving, Copying
<1> QED BY <1>5

LEMMA ApplyQuiet ==
  ASSUME TypeOK, NEW p \in Process, Apply(p), ledger # proc[p].applied
  PROVE  \E s : Quiet(p, s)
  BY TurnsOff, GoIs DEF Apply

LEMMA MigratedQuiet ==
  ASSUME TypeOK, LedgerGrows, NEW p \in Process, Migrated(p)
  PROVE  \E s : Quiet(p, s)
<1>1. ledger = Latest /\ ledger # Unset
  BY Constants DEF Migrated, At, LedgerGrows, LedgerRule, Opened, TypeOK
<1>2. CASE proc[p].backups /\ proc[p].dir # Unset
  BY <1>1, <1>2, BeginsQuietly DEF Migrated
<1>3. CASE ~(proc[p].backups /\ proc[p].dir # Unset)
  <2>1. proc' = [proc EXCEPT ![p] = Started("prune", proc[p].dir, proc[p].backups)]
        /\ UNCHANGED StayVars
    BY <1>3, GoIs DEF Migrated, Onward
  <2> QED BY <1>1, <2>1, ProcTyped, StartsQuietly
<1> QED BY <1>2, <1>3

LEMMA DoomedAreFiles == Doomed(Files, now) \subseteq Files
  BY DEF Doomed, OfKind, Abandoned

LEMMA PruneQuiet ==
  ASSUME TypeOK, LedgerGrows, StampsArePast, NEW p \in Process, Prune(p)
  PROVE  \E s : Quiet(p, s)
<1> DEFINE list == IF proc[p].dir = Unset THEN {} ELSE Doomed(Files, now)
           s == [proc[p] EXCEPT !.at = "delete", !.doomed = list]
<1>1. proc' = [proc EXCEPT ![p] = s] /\ UNCHANGED StayVars
  BY GoIs DEF Prune
<1>2. list \subseteq FileName /\ list \in {{}, Doomed(Files, now)}
  BY DoomedAreFiles DEF TypeOK
<1>3. proc[p].at = "prune" /\ ledger = Latest /\ ledger # Unset
  BY DEF Prune, At, LedgerGrows, LedgerRule, Opened
<1> HIDE DEF list
<1>4. /\ s \in ProcState /\ s.at = "delete" /\ s.doomed = list
      /\ s.stamp = proc[p].stamp
  BY <1>2, ProcTyped DEF ProcState, LaunchStage, Opened
<1> HIDE DEF s
<1>5. s.stamp <= now /\ LedgerRule(s)
  BY <1>3, <1>4 DEF StampsArePast, LedgerRule, Copying
<1>6. Quiet(p, s)
  BY <1>1, <1>2, <1>3, <1>4, <1>5 DEF Quiet, StayVars, MakingStage, Saving, Copying
<1> QED BY <1>6

LEMMA ServesQuietly ==
  ASSUME TypeOK, StampsArePast, NEW p \in Process,
         Pruned(p) \/ Serve(p) \/ CannotServe(p) \/ Stop(p)
  PROVE  \E s : Quiet(p, s)
<1>1. CASE Pruned(p)
  BY <1>1, GoIs, StartsQuietly DEF Pruned, Dirs
<1>2. CASE Serve(p)
  <2> DEFINE s == [proc[p] EXCEPT !.at = "serving"]
  <2>1. proc' = [proc EXCEPT ![p] = s] /\ UNCHANGED StayVars
    BY <1>2, GoIs DEF Serve
  <2>2. /\ s \in ProcState /\ s.at = "serving" /\ s.doomed = proc[p].doomed
        /\ s.stamp = proc[p].stamp
    BY ProcTyped DEF ProcState, LaunchStage
  <2> HIDE DEF s
  <2>3. Quiet(p, s)
    BY <2>1, <2>2
    DEF Quiet, StayVars, StampsArePast, LedgerRule, MakingStage, Saving, Opened, Copying
  <2> QED BY <2>3
<1>3. CASE CannotServe(p) \/ Stop(p)
  <2>1. proc' = [proc EXCEPT ![p] = Off] /\ UNCHANGED StayVars
    BY <1>3, GoIs DEF CannotServe, Stop, StayVars
  <2> QED BY <2>1, TurnsOff
<1> QED BY <1>1, <1>2, <1>3
-----------------------------------------------------------------------------
(* Steps that change the directory.                                            *)

\* What all of them do to the process.
Moves(p, s) ==
    /\ s \in ProcState /\ proc' = [proc EXCEPT ![p] = s]
    /\ UNCHANGED <<ledger, now, origin>>
    /\ s.stamp <= now /\ LedgerRule(s)

\* The process writes its partial file.
Writes(p, s, content) ==
    /\ Moves(p, s) /\ UNCHANGED <<replaced, lost>>
    /\ proc[p].at \in {"create", "vacuum"} /\ s.at \in {"vacuum", "verify", "failed"}
    /\ proc[p].at = "create" => Partial(proc[p]) \notin Files /\ s.at = "vacuum"
    /\ Partial(s) = Partial(proc[p]) /\ (s.pre <=> proc[p].pre)
    /\ s.doomed = proc[p].doomed
    /\ content \in Content /\ (s.at = "verify" => content \in {Damaged, ledger})
    /\ files' = Write(Partial(proc[p]), content)

\* It renames that file, to `to`, and is done with it.
Renames(p, s, to) ==
    /\ Moves(p, s) /\ UNCHANGED lost
    /\ proc[p].at \in {"failed", "rename"} /\ s.at \in {"off", "list", "prune"}
    /\ s.doomed = {}
    /\ Partial(proc[p]) \in Files
    /\ to \in FileName /\ to.stamp <= now
    /\ files' = Rename(Partial(proc[p]), to)
    /\ \/ to.ext = "failed" /\ replaced' = replaced /\ s.at # "list"
       \/ /\ to.ext = "sqlite" /\ (to.pre <=> proc[p].pre) /\ proc[p].at = "rename"
          /\ replaced' = (replaced \/ to \in Files)
          /\ s.at = "list" => proc[p].pre

LEMMA WriteIs ==
  ASSUME NEW file, NEW content, files' = Write(file, content)
  PROVE  /\ Files' = Files \cup {file} /\ files'[file] = content
         /\ \A f \in Files \ {file} : files'[f] = files[f]
  BY DEF Write, Files

LEMMA RenameIs ==
  ASSUME NEW from, NEW to, from # to, files' = Rename(from, to)
  PROVE  /\ Files' = (Files \ {from}) \cup {to} /\ files'[to] = files[from]
         /\ \A f \in Files \ {from, to} : files'[f] = files[f]
  BY DEF Rename, Files

LEMMA MakesSteps ==
  ASSUME TypeOK, LedgerGrows, StampsArePast, NEW p \in Process,
         NEW at \in {"vacuum", "verify", "failed"},
         proc[p].at \in {"create", "vacuum"},
         proc' = [proc EXCEPT ![p].at = at], UNCHANGED <<ledger, now, origin>>
  PROVE  LET s == [proc[p] EXCEPT !.at = at] IN
         /\ Moves(p, s) /\ s.at = at /\ Partial(s) = Partial(proc[p])
         /\ (s.pre <=> proc[p].pre) /\ s.doomed = proc[p].doomed
<1> DEFINE s == [proc[p] EXCEPT !.at = at]
<1>1. /\ s \in ProcState /\ s.at = at /\ s.stamp = proc[p].stamp /\ s.n = proc[p].n
      /\ s.doomed = proc[p].doomed /\ s.pre = proc[p].pre
  BY ProcTyped DEF ProcState, LaunchStage, Opened, Copying
<1>2. proc' = [proc EXCEPT ![p] = s]
  OBVIOUS
<1> HIDE DEF s
<1>3. s.stamp <= now /\ LedgerRule(s)
  BY <1>1 DEF StampsArePast, LedgerRule, LedgerGrows, Opened, Copying
<1>4. /\ Moves(p, s) /\ s.at = at /\ Partial(s) = Partial(proc[p])
      /\ (s.pre <=> proc[p].pre) /\ s.doomed = proc[p].doomed
  BY <1>1, <1>2, <1>3 DEF Moves, Partial
<1> QED BY <1>4 DEF s

LEMMA CreateWrites ==
  ASSUME TypeOK, LedgerGrows, StampsArePast, NEW p \in Process, Create(p),
         Name(p, "partial") \notin Files
  PROVE  \E s : Writes(p, s, Reserved)
<1>1. /\ proc[p].at = "create" /\ proc' = [proc EXCEPT ![p].at = "vacuum"]
      /\ files' = Write(Name(p, "partial"), Reserved)
      /\ UNCHANGED <<ledger, now, origin, replaced, lost>>
  BY DEF Create, At
<1>2. Name(p, "partial") = Partial(proc[p]) /\ Reserved \in Content
  BY ProcTyped, NamesAreNames DEF Content
<1> QED BY <1>1, <1>2, MakesSteps DEF Writes

\* Unless the place is taken.
LEMMA VacuumWrites ==
  ASSUME TypeOK, LedgerGrows, StampsArePast, NEW p \in Process, Vacuum(p)
  PROVE  \E s : Quiet(p, s) \/ Writes(p, s, ledger)
<1> DEFINE partial == Name(p, "partial")
<1>1. proc[p].at = "vacuum" /\ UNCHANGED <<ledger, now, origin, replaced, lost>>
  BY DEF Vacuum, At
<1>2. partial = Partial(proc[p])
  BY ProcTyped, NamesAreNames
<1>3. ledger \in 0..Latest /\ ledger \in Content
  BY <1>1 DEF TypeOK, LedgerGrows, LedgerRule, Opened, Copying, Content
<1>4. CASE partial \in Files /\ files[partial] # Reserved
  <2> DEFINE s == [proc[p] EXCEPT !.at = "failed"]
  <2>1. proc' = [proc EXCEPT ![p].at = "failed"] /\ files' = files
    BY <1>4 DEF Vacuum
  <2>2. /\ Moves(p, s) /\ s.at = "failed" /\ Partial(s) = Partial(proc[p])
        /\ (s.pre <=> proc[p].pre) /\ s.doomed = proc[p].doomed
    BY <1>1, <2>1, MakesSteps
  <2> HIDE DEF s
  <2>3. Quiet(p, s)
    BY <1>1, <2>1, <2>2 DEF Moves, Quiet, MakingStage, Saving, Copying
  <2> QED BY <2>3
<1>5. CASE ~(partial \in Files /\ files[partial] # Reserved)
  <2> DEFINE s == [proc[p] EXCEPT !.at = "verify"]
  <2>1. proc' = [proc EXCEPT ![p].at = "verify"] /\ files' = Write(partial, ledger)
    BY <1>5 DEF Vacuum
  <2>2. /\ Moves(p, s) /\ s.at = "verify" /\ Partial(s) = Partial(proc[p])
        /\ (s.pre <=> proc[p].pre) /\ s.doomed = proc[p].doomed
    BY <1>1, <2>1, MakesSteps
  <2> HIDE DEF s, partial
  <2>3. Writes(p, s, ledger)
    BY <1>1, <1>2, <1>3, <2>1, <2>2 DEF Writes
  <2> QED BY <2>3
<1> QED BY <1>4, <1>5

LEMMA BadVacuumWrites ==
  ASSUME TypeOK, LedgerGrows, StampsArePast, NEW p \in Process, BadVacuum(p)
  PROVE  \E s : Writes(p, s, Damaged)
<1>1. proc[p].at = "vacuum" /\ UNCHANGED <<ledger, now, origin, replaced, lost>>
      /\ files' = Write(Name(p, "partial"), Damaged)
  BY DEF BadVacuum, At
<1>2. Name(p, "partial") = Partial(proc[p]) /\ Damaged \in Content
  BY ProcTyped, NamesAreNames DEF Content
<1>3. PICK at \in {"verify", "failed"} : proc' = [proc EXCEPT ![p].at = at]
  BY DEF BadVacuum
<1> DEFINE s == [proc[p] EXCEPT !.at = at]
<1>4. /\ Moves(p, s) /\ s.at = at /\ Partial(s) = Partial(proc[p])
      /\ (s.pre <=> proc[p].pre) /\ s.doomed = proc[p].doomed
  BY <1>1, <1>3, MakesSteps
<1> HIDE DEF s
<1>5. Writes(p, s, Damaged)
  BY <1>1, <1>2, <1>4 DEF Writes
<1> QED BY <1>5

\* A snapshot that is over: the launch stops, or goes on.
LEMMA UnsavedMoves ==
  ASSUME TypeOK, LedgerGrows, NEW p \in Process, proc[p].at \in Copying,
         proc' = [proc EXCEPT ![p] = Unsaved(p)], UNCHANGED <<ledger, now, origin>>
  PROVE  /\ Moves(p, Unsaved(p)) /\ Unsaved(p).doomed = {}
         /\ Unsaved(p).at \in {"off", "prune"}
<1>1. CASE proc[p].pre
  <2>1. Unsaved(p) = Off
    BY <1>1 DEF Unsaved
  <2> HIDE DEF Unsaved
  <2> QED BY <2>1, OffState DEF Moves, LedgerRule, Opened, Copying, TypeOK
<1>2. CASE ~proc[p].pre
  <2>1. ledger = Latest /\ ledger # Unset
    BY <1>2 DEF LedgerGrows, LedgerRule, Opened
  <2>2. Unsaved(p) = Started("prune", proc[p].dir, proc[p].backups)
    BY <1>2 DEF Unsaved, Onward
  <2>3. "prune" \in LaunchStage
    BY DEF LaunchStage, Opened
  <2>4. /\ Unsaved(p) \in ProcState /\ Unsaved(p).at = "prune"
        /\ Unsaved(p).stamp = 0 /\ Unsaved(p).doomed = {}
    BY <2>2, <2>3, ProcTyped, StartedState
  <2> HIDE DEF Unsaved
  <2> QED BY <2>1, <2>4 DEF Moves, LedgerRule, Opened, Copying, TypeOK
<1> QED BY <1>1, <1>2

LEMMA KeepFailedRenames ==
  ASSUME TypeOK, LedgerGrows, StampsArePast, NEW p \in Process, KeepFailed(p)
  PROVE  \E s : Quiet(p, s) \/ Renames(p, s, Name(p, "failed"))
<1>1. /\ proc[p].at = "failed" /\ proc[p].at \in Copying
      /\ proc' = [proc EXCEPT ![p] = Unsaved(p)]
      /\ UNCHANGED <<ledger, now, origin, replaced, lost>>
  BY DEF KeepFailed, At, Copying
<1>2. CASE Name(p, "partial") \notin Files
  <2>1. UNCHANGED StayVars
    BY <1>1, <1>2 DEF KeepFailed, StayVars
  <2> QED BY <1>1, <2>1, UnsavedQuiet
<1>3. CASE Name(p, "partial") \in Files
  <2>1. /\ Name(p, "partial") = Partial(proc[p]) /\ Name(p, "failed") \in FileName
        /\ Name(p, "failed").ext = "failed" /\ Name(p, "failed").stamp <= now
    BY ProcTyped, NamesAreNames DEF StampsArePast
  <2>2. files' = Rename(Partial(proc[p]), Name(p, "failed"))
    BY <1>3, <2>1 DEF KeepFailed
  <2>3. /\ Moves(p, Unsaved(p)) /\ Unsaved(p).doomed = {}
        /\ Unsaved(p).at \in {"off", "prune"}
    BY <1>1, UnsavedMoves
  <2> DEFINE s == Unsaved(p)
             to == Name(p, "failed")
  <2> HIDE DEF s, to
  <2>4. Renames(p, s, to)
    BY <1>1, <1>3, <2>1, <2>2, <2>3 DEF Renames, Copying, s, to
  <2> QED BY <2>4 DEF to
<1> QED BY <1>2, <1>3

LEMMA FinalizeRenames ==
  ASSUME TypeOK, LedgerGrows, StampsArePast, NEW p \in Process, Finalize(p),
         Name(p, "partial") \in Files
  PROVE  \E s : Renames(p, s, Name(p, "sqlite"))
<1> DEFINE at == IF proc[p].pre THEN "list" ELSE "prune"
           s == Started(at, proc[p].dir, proc[p].backups)
           to == Name(p, "sqlite")
<1>1. /\ proc[p].at = "rename" /\ proc' = [proc EXCEPT ![p] = s]
      /\ UNCHANGED <<ledger, now, origin, lost>>
      /\ files' = Rename(Name(p, "partial"), to)
      /\ replaced' = (replaced \/ to \in Files)
  BY DEF Finalize, At, Onward
<1>2. /\ at \in {"list", "prune"} /\ (at = "list" => proc[p].pre)
      /\ (at = "prune" => ~proc[p].pre)
  OBVIOUS
<1> HIDE DEF at
<1>3. at \in LaunchStage
  BY <1>2 DEF LaunchStage, Opened
<1>4. /\ s \in ProcState /\ s.at = at /\ s.stamp = 0 /\ s.doomed = {}
  BY <1>3, ProcTyped, StartedState
<1>5. /\ Name(p, "partial") = Partial(proc[p]) /\ to \in FileName
      /\ to.ext = "sqlite" /\ to.pre = proc[p].pre /\ to.stamp <= now
  BY ProcTyped, NamesAreNames DEF StampsArePast
<1> HIDE DEF s, to
<1>6. LedgerRule(s) /\ s.stamp <= now
  BY <1>1, <1>2, <1>4 DEF LedgerRule, LedgerGrows, Opened, Copying, TypeOK
<1>7. Moves(p, s)
  BY <1>1, <1>4, <1>6 DEF Moves
<1>8. s.at \in {"off", "list", "prune"}
  BY <1>2, <1>4
<1>9. Renames(p, s, to)
  BY <1>1, <1>2, <1>4, <1>5, <1>7, <1>8 DEF Renames
<1> QED BY <1>9 DEF to

\* A file of the list is deleted.
Deletes(p, s, f) ==
    /\ Moves(p, s) /\ replaced' = replaced
    /\ ledger = Latest /\ f \in proc[p].doomed
    /\ s.at = "delete" /\ s.doomed \subseteq proc[p].doomed
    /\ files' = [g \in Files \ {f} |-> files[g]]
    /\ lost' = (lost \/ \E q \in Process : proc[q].at \in MakingStage /\ f = Partial(proc[q]))

LEMMA DeleteDeletes ==
  ASSUME TypeOK, LedgerGrows, StampsArePast, NEW p \in Process, Delete(p)
  PROVE  \E s, f : Deletes(p, s, f)
<1>1. PICK f \in proc[p].doomed :
        /\ files' = [g \in Files \ {f} |-> files[g]]
        /\ proc' = [proc EXCEPT ![p].doomed = @ \ {f}]
        /\ lost' = (lost \/ \E q \in Process : Making(q) /\ f = Name(q, "partial"))
        /\ UNCHANGED <<ledger, now, launches, failures, origin, replaced>>
  BY DEF Delete
<1> DEFINE list == proc[p].doomed \ {f}
           s == [proc[p] EXCEPT !.doomed = list]
<1>2. proc' = [proc EXCEPT ![p] = s]
  BY <1>1
<1>3. proc[p].at = "delete" /\ ledger = Latest /\ ledger # Unset
  BY DEF Delete, At, LedgerGrows, LedgerRule, Opened
<1>4. list \subseteq FileName /\ list \subseteq proc[p].doomed
  BY ProcTyped DEF ProcState
<1> HIDE DEF list
<1>5. s \in ProcState /\ s.at = "delete" /\ s.doomed = list /\ s.stamp = proc[p].stamp
  BY <1>3, <1>4, ProcTyped DEF ProcState
<1> HIDE DEF s
<1>6. Moves(p, s)
  BY <1>1, <1>2, <1>3, <1>5 DEF Moves, StampsArePast, LedgerRule, Copying
<1>7. lost' = (lost \/ \E q \in Process : proc[q].at \in MakingStage /\ f = Partial(proc[q]))
  BY <1>1, ProcTyped, NamesAreNames DEF Making, MakingStage
<1> QED BY <1>1, <1>3, <1>4, <1>5, <1>6, <1>7 DEF Deletes

\* The ledger is made, or migrated once more.
Migrates(p, s) ==
    /\ s \in ProcState /\ proc' = [proc EXCEPT ![p] = s]
    /\ UNCHANGED <<files, now, origin, replaced, lost>>
    /\ s.stamp = proc[p].stamp /\ s.doomed = proc[p].doomed
    /\ ledger # Latest /\ ledger' \in 0..Latest
    /\ \/ /\ ledger = Unset /\ proc[p].at = "connect" /\ s.at = "pending"
          /\ (s.created <=> proc[p].created)
       \/ /\ ledger \in 0..Latest /\ ledger' = ledger + 1
          /\ proc[p].at = "apply" /\ s.at = "apply" /\ s.applied = ledger'

LEMMA ConnectMigrates ==
  ASSUME TypeOK, LedgerGrows, StampsArePast, NEW p \in Process, Connect(p)
  PROVE  \E s : Quiet(p, s) \/ Migrates(p, s)
<1> DEFINE s == [proc[p] EXCEPT !.at = "pending"]
<1>1. /\ proc[p].at = "connect" /\ proc' = [proc EXCEPT ![p] = s]
      /\ ledger' = IF ledger = Unset THEN 0 ELSE ledger
      /\ UNCHANGED <<files, now, origin, replaced, lost>>
  BY DEF Connect, At
<1>2. /\ s \in ProcState /\ s.at = "pending" /\ s.stamp = proc[p].stamp
      /\ s.doomed = proc[p].doomed /\ (s.created <=> proc[p].created)
  BY ProcTyped DEF ProcState, LaunchStage, Opened
<1> HIDE DEF s
<1>3. CASE ledger = Unset
  <2>1. Latest # Unset /\ 0 \in 0..Latest
    BY Constants
  <2> QED BY <1>1, <1>2, <1>3, <2>1 DEF Migrates
<1>4. CASE ledger # Unset
  <2>1. s.stamp <= now /\ LedgerRule(s)
    BY <1>1, <1>2, <1>4 DEF StampsArePast, LedgerRule, LedgerGrows, Copying
  <2>2. Quiet(p, s)
    BY <1>1, <1>2, <1>4, <2>1 DEF Quiet, MakingStage, Saving, Copying
  <2> QED BY <2>2
<1> QED BY <1>3, <1>4

LEMMA ApplyMigrates ==
  ASSUME TypeOK, LedgerGrows, StampsArePast, NEW p \in Process, Apply(p)
  PROVE  \E s : Quiet(p, s) \/ Migrates(p, s)
<1>1. CASE ledger # proc[p].applied
  BY <1>1, ApplyQuiet
<1>2. CASE ledger = proc[p].applied
  <2> DEFINE next == proc[p].applied + 1
             s == [proc[p] EXCEPT !.applied = next]
  <2>1. /\ proc[p].at = "apply" /\ proc[p].applied < Latest
        /\ proc' = [proc EXCEPT ![p] = s] /\ ledger' = next
        /\ UNCHANGED <<files, now, origin, replaced, lost>>
    BY <1>2 DEF Apply, At
  <2>2. ledger \in 0..Latest /\ ledger < Latest /\ ledger' = ledger + 1
    <3>1. ledger # Unset /\ ledger < Latest
      BY <1>2, <2>1 DEF LedgerGrows, LedgerRule, Opened
    <3> QED BY <1>2, <2>1, <3>1 DEF TypeOK
  <2>3. next \in Nat /\ next \in 0..Latest /\ next = ledger'
    BY <1>2, <2>1, <2>2, Constants
  <2> HIDE DEF next
  <2>4. /\ s \in ProcState /\ s.at = "apply" /\ s.stamp = proc[p].stamp
        /\ s.doomed = proc[p].doomed /\ s.applied = next
    BY <2>1, <2>3, ProcTyped DEF ProcState
  <2> HIDE DEF s
  <2>5. Migrates(p, s)
    BY <2>1, <2>2, <2>3, <2>4, Constants DEF Migrates
  <2> QED BY <2>5
<1> QED BY <1>1, <1>2
-----------------------------------------------------------------------------
(* Every step is one of these.                                                 *)

ChangesFiles(p, s) == \/ \E content : Writes(p, s, content)
                      \/ \E to : Renames(p, s, to)
                      \/ \E f : Deletes(p, s, f)

Passes == now' = now + 1 /\ UNCHANGED <<ledger, files, proc, origin, replaced, lost>>

LEMMA EveryStep ==
  ASSUME TypeOK, LedgerGrows, StampsArePast, [Next]_vars
  PROVE  \/ UNCHANGED <<ledger, files, now, proc, origin, replaced, lost>>
         \/ Passes
         \/ \E p \in Process : \E s : Quiet(p, s) \/ ChangesFiles(p, s) \/ Migrates(p, s)
<1>1. CASE UNCHANGED vars
  BY <1>1 DEF vars
<1>2. CASE Tick
  BY <1>2 DEF Tick, Passes
<1>3. ASSUME NEW p \in Process, LaunchStep(p)
      PROVE  \E s : Quiet(p, s) \/ ChangesFiles(p, s) \/ Migrates(p, s)
  <2>1. CASE \E env \in Env : Launch(p, env)
    BY <2>1, LaunchQuiet
  <2>2. CASE Find(p) \/ Pending(p)
    BY <2>2, FindQuiet, PendingQuiet
  <2>3. CASE Connect(p) \/ Apply(p)
    BY <2>3, ConnectMigrates, ApplyMigrates
  <2>4. CASE Reserve(p) \/ Verify(p)
    BY <2>4, ReserveQuiet, VerifyQuiet
  <2>5. CASE Create(p)
    BY <2>5, CreateQuiet, CreateWrites DEF ChangesFiles
  <2>6. CASE Vacuum(p) \/ BadVacuum(p)
    BY <2>6, VacuumWrites, BadVacuumWrites DEF ChangesFiles
  <2>7. CASE KeepFailed(p)
    BY <2>7, KeepFailedRenames DEF ChangesFiles
  <2>8. CASE Finalize(p) \/ DirectoryFails(p)
    BY <2>8, FinalizeRenames, GivesUpQuiet DEF ChangesFiles
  <2>9. CASE ListApplied(p) \/ Migrated(p) \/ Prune(p)
    BY <2>9, ListAppliedQuiet, MigratedQuiet, PruneQuiet
  <2>10. CASE Delete(p)
    BY <2>10, DeleteDeletes DEF ChangesFiles
  <2>11. CASE Pruned(p) \/ Serve(p) \/ CannotServe(p) \/ Stop(p)
    BY <2>11, ServesQuietly
  <2> QED BY <1>3, <2>1, <2>2, <2>3, <2>4, <2>5, <2>6, <2>7, <2>8, <2>9, <2>10, <2>11
          DEF LaunchStep
<1> QED BY <1>1, <1>2, <1>3 DEF Next
-----------------------------------------------------------------------------
(* The first layer: types, the ledger and the days.                            *)

LEMMA ProcGoes ==
  ASSUME proc \in [Process -> ProcState], NEW p \in Process, NEW s \in ProcState,
         proc' = [proc EXCEPT ![p] = s]
  PROVE  /\ proc' \in [Process -> ProcState] /\ proc'[p] = s
         /\ \A q \in Process \ {p} : proc'[q] = proc[q]
  OBVIOUS

\* What a change of the directory does to it.
LEMMA FilesChange ==
  ASSUME TypeOK, NEW p \in Process, NEW s, ChangesFiles(p, s)
  PROVE  /\ Moves(p, s) /\ replaced' \in BOOLEAN /\ lost' \in BOOLEAN
         /\ Files' \subseteq FileName /\ IsFiniteSet(Files')
         /\ \A f \in Files' : files'[f] \in Content
<1> DEFINE partial == Partial(proc[p])
<1>0. partial \in FileName /\ partial.ext = "partial" /\ IsFiniteSet(Files)
  BY ProcTyped DEF Partial, FileName, ProcState, TypeOK
<1>1. ASSUME NEW content, Writes(p, s, content)
      PROVE  /\ Moves(p, s) /\ replaced' \in BOOLEAN /\ lost' \in BOOLEAN
             /\ Files' \subseteq FileName /\ IsFiniteSet(Files')
             /\ \A f \in Files' : files'[f] \in Content
  <2>1. /\ Files' = Files \cup {partial} /\ files'[partial] = content
        /\ \A f \in Files \ {partial} : files'[f] = files[f]
    BY <1>1, WriteIs DEF Writes
  <2>2. IsFiniteSet(Files \cup {partial})
    BY <1>0, FS_AddElement
  <2> QED BY <1>0, <1>1, <2>1, <2>2 DEF Writes, TypeOK
<1>2. ASSUME NEW to, Renames(p, s, to)
      PROVE  /\ Moves(p, s) /\ replaced' \in BOOLEAN /\ lost' \in BOOLEAN
             /\ Files' \subseteq FileName /\ IsFiniteSet(Files')
             /\ \A f \in Files' : files'[f] \in Content
  <2>1. partial # to
    BY <1>0, <1>2 DEF Renames
  <2>2. /\ Files' = (Files \ {partial}) \cup {to} /\ files'[to] = files[partial]
        /\ \A f \in Files \ {partial, to} : files'[f] = files[f]
    BY <1>2, <2>1, RenameIs DEF Renames
  <2>3. IsFiniteSet(Files \ {partial})
    BY <1>0, FS_Subset
  <2>4. IsFiniteSet((Files \ {partial}) \cup {to})
    BY <2>3, FS_AddElement
  <2> QED BY <1>0, <1>2, <2>2, <2>4 DEF Renames, TypeOK
<1>3. ASSUME NEW f, Deletes(p, s, f)
      PROVE  /\ Moves(p, s) /\ replaced' \in BOOLEAN /\ lost' \in BOOLEAN
             /\ Files' \subseteq FileName /\ IsFiniteSet(Files')
             /\ \A g \in Files' : files'[g] \in Content
  <2>1. Files' = Files \ {f} /\ \A g \in Files \ {f} : files'[g] = files[g]
    BY <1>3 DEF Deletes, Files
  <2>2. IsFiniteSet(Files \ {f})
    BY <1>0, FS_Subset
  <2> QED BY <1>3, <2>1, <2>2 DEF Deletes, TypeOK
<1> QED BY <1>1, <1>2, <1>3 DEF ChangesFiles

LEMMA TypesStay ==
  ASSUME TypeOK, NEW p \in Process, NEW s,
         Quiet(p, s) \/ ChangesFiles(p, s) \/ Migrates(p, s)
  PROVE  TypeOK'
<1>1. proc \in [Process -> ProcState]
  BY DEF TypeOK
<1>2. CASE Quiet(p, s)
  BY <1>1, <1>2, ProcGoes DEF Quiet, TypeOK, Files
<1>3. CASE ChangesFiles(p, s)
  <2>1. /\ Moves(p, s) /\ replaced' \in BOOLEAN /\ lost' \in BOOLEAN
        /\ Files' \subseteq FileName /\ IsFiniteSet(Files')
        /\ \A f \in Files' : files'[f] \in Content
    BY <1>3, FilesChange
  <2>2. proc' \in [Process -> ProcState] /\ UNCHANGED <<ledger, now, origin>>
    BY <1>1, <2>1, ProcGoes DEF Moves
  <2> QED BY <2>1, <2>2 DEF TypeOK
<1>4. CASE Migrates(p, s)
  <2>1. s \in ProcState /\ proc' = [proc EXCEPT ![p] = s] /\ ledger' \in 0..Latest
        /\ UNCHANGED <<files, now, origin, replaced, lost>>
    BY <1>4 DEF Migrates
  <2>2. proc' \in [Process -> ProcState]
    BY <1>1, <2>1, ProcGoes
  <2> QED BY <2>1, <2>2 DEF TypeOK, Files
<1> QED BY <1>2, <1>3, <1>4

LEMMA LedgerStaysGrown ==
  ASSUME TypeOK, LedgerGrows, NEW p \in Process, NEW s,
         Quiet(p, s) \/ Moves(p, s) \/ Migrates(p, s)
  PROVE  LedgerGrows'
<1>1. CASE Quiet(p, s) \/ Moves(p, s)
  <2>1. s \in ProcState /\ LedgerRule(s) /\ UNCHANGED <<ledger, origin>>
        /\ proc' = [proc EXCEPT ![p] = s]
    BY <1>1 DEF Quiet, Moves
  <2>2. \A q \in Process : proc'[q] = s \/ proc'[q] = proc[q]
    BY <2>1, ProcGoes DEF TypeOK
  <2> QED BY <2>1, <2>2 DEF LedgerGrows, LedgerRule
<1>2. CASE Migrates(p, s)
  <2>1. /\ s \in ProcState /\ proc' = [proc EXCEPT ![p] = s] /\ origin' = origin
        /\ ledger # Latest /\ ledger' \in 0..Latest
    BY <1>2 DEF Migrates
  <2>2. proc'[p] = s /\ \A q \in Process \ {p} : proc'[q] = proc[q]
    BY <2>1, ProcGoes DEF TypeOK
  <2>3. ledger' # Unset /\ (origin # Unset => origin <= ledger')
        /\ (ledger # Unset => ledger <= ledger')
    BY <1>2, Constants DEF Migrates, LedgerGrows, TypeOK
  <2>4. LedgerRule(proc[p])'
    BY <1>2, <2>2, <2>3 DEF Migrates, LedgerRule, LedgerGrows, Copying, Opened
  <2>5. ASSUME NEW q \in Process \ {p} PROVE LedgerRule(proc[q])'
    <3>1. proc'[q] = proc[q] /\ LedgerRule(proc[q]) /\ proc[q] \in ProcState
      BY <2>2, ProcTyped DEF LedgerGrows
    <3>2. /\ proc[q].at \notin {"prune", "delete"} /\ (proc[q].at \in Copying => proc[q].pre)
          /\ (proc[q].at \in Opened => ledger # Unset)
      BY <2>1, <3>1 DEF LedgerRule
    <3>3. proc[q].at = "apply" => proc[q].applied <= ledger'
      <4>1. SUFFICES ASSUME proc[q].at = "apply" PROVE proc[q].applied <= ledger'
        OBVIOUS
      <4>2. ledger # Unset /\ ledger \in 0..Latest /\ proc[q].applied <= ledger
        BY <3>1, <3>2, <4>1 DEF LedgerRule, Opened, TypeOK
      <4>3. proc[q].applied \in Nat
        BY <3>1 DEF ProcState
      <4> QED BY <2>1, <2>3, <4>2, <4>3, Constants
    <3>4. proc[q].at \in {"connect", "pending"} /\ proc[q].created => origin' = Unset
      BY <2>1, <3>1 DEF LedgerRule
    <3> QED BY <2>3, <3>1, <3>2, <3>3, <3>4 DEF LedgerRule
  <2>6. ASSUME NEW q \in Process PROVE LedgerRule(proc[q])'
    BY <2>4, <2>5
  <2> QED BY <2>1, <2>3, <2>6 DEF LedgerGrows
<1> QED BY <1>1, <1>2

LEMMA StampsStayPast ==
  ASSUME TypeOK, StampsArePast, NEW p \in Process, NEW s,
         Quiet(p, s) \/ ChangesFiles(p, s) \/ Migrates(p, s)
  PROVE  StampsArePast'
<1>1. /\ s \in ProcState /\ proc' = [proc EXCEPT ![p] = s] /\ now' = now
      /\ s.stamp <= now
  BY FilesChange DEF Quiet, Moves, Migrates, StampsArePast
<1>2. \A q \in Process : proc'[q].stamp <= now'
  BY <1>1, ProcGoes DEF TypeOK, StampsArePast
<1>3. Partial(proc[p]).stamp <= now
  BY DEF Partial, StampsArePast
<1>4. \A f \in Files' : f \in Files \/ f.stamp <= now
  <2>1. CASE Quiet(p, s) \/ Migrates(p, s)
    BY <2>1 DEF Quiet, Migrates, Files
  <2>2. ASSUME NEW content, Writes(p, s, content)
        PROVE  \A f \in Files' : f \in Files \/ f.stamp <= now
    BY <1>3, <2>2, WriteIs DEF Writes
  <2>3. ASSUME NEW to, Renames(p, s, to)
        PROVE  \A f \in Files' : f \in Files \/ f.stamp <= now
    BY <2>3 DEF Renames, Rename, Files
  <2>4. ASSUME NEW f, Deletes(p, s, f)
        PROVE  \A g \in Files' : g \in Files \/ g.stamp <= now
    BY <2>4 DEF Deletes, Files
  <2> QED BY <2>1, <2>2, <2>3, <2>4 DEF ChangesFiles
<1> QED BY <1>1, <1>2, <1>4 DEF StampsArePast

LEMMA DayPasses ==
  ASSUME TypeOK, LedgerGrows, StampsArePast, Passes
  PROVE  TypeOK' /\ LedgerGrows' /\ StampsArePast'
<1>1. now \in Nat /\ now' \in Nat /\ now' = now + 1
      /\ UNCHANGED <<ledger, files, proc, origin, replaced, lost>>
  BY DEF Passes, TypeOK
<1>2. TypeOK'
  BY <1>1 DEF TypeOK, Files
<1>3. LedgerGrows'
  BY <1>1 DEF LedgerGrows, LedgerRule
<1>4. \A f \in Files : f.stamp \in Nat
  BY DEF TypeOK, FileName
<1>5. \A q \in Process : proc[q].stamp \in Nat
  BY ProcTyped DEF ProcState
<1>6. StampsArePast'
  BY <1>1, <1>4, <1>5 DEF StampsArePast, Files
<1> QED BY <1>2, <1>3, <1>6
-----------------------------------------------------------------------------
(* The second layer: whose the partial files are.                              *)

LEMMA PartialExt ==
  ASSUME NEW s
  PROVE  Partial(s).ext = "partial"
  BY DEF Partial

\* With the directory as it was, and p no more of a maker than it was.
LEMMA OwnedWithoutFiles ==
  ASSUME TypeOK, CopiesAreOwned, NEW p \in Process, NEW s \in ProcState,
         proc' = [proc EXCEPT ![p] = s], UNCHANGED <<files, lost>>,
         s.at \in MakingStage =>
            /\ proc[p].at \in MakingStage /\ Partial(s) = Partial(proc[p])
            /\ s.at = "rename" => files[Partial(s)] \in 0..Latest
  PROVE  CopiesAreOwned'
<1> SUFFICES ASSUME ~lost' PROVE (\A q \in Process : OwnPartial(q))' /\ SnapshotsAreWhole'
  BY DEF CopiesAreOwned
<1>1. /\ ~lost /\ SnapshotsAreWhole /\ \A q \in Process : OwnPartial(q)
  BY DEF CopiesAreOwned
<1>2. proc'[p] = s /\ \A q \in Process \ {p} : proc'[q] = proc[q]
  BY ProcGoes DEF TypeOK
<1>3. SnapshotsAreWhole'
  BY <1>1 DEF SnapshotsAreWhole, Files
<1>4. Files' = Files
  BY DEF Files
<1>5. \A q \in Process : proc'[q].at \in MakingStage =>
         /\ proc[q].at \in MakingStage /\ Partial(proc'[q]) = Partial(proc[q])
         /\ proc'[q].at = "rename" => files[Partial(proc[q])] \in 0..Latest
  BY <1>1, <1>2 DEF OwnPartial
<1>6. ASSUME NEW q \in Process, proc'[q].at \in MakingStage
      PROVE  /\ Partial(proc'[q]) \in Files
             /\ proc'[q].at = "rename" => files[Partial(proc'[q])] \in 0..Latest
             /\ \A r \in Process \ {q} : proc'[r].at \in MakingStage =>
                   Partial(proc'[r]) # Partial(proc'[q])
  BY <1>1, <1>5, <1>6 DEF OwnPartial
<1> QED BY <1>3, <1>4, <1>6 DEF OwnPartial

LEMMA CopiesStayOwned ==
  ASSUME TypeOK, CopiesAreOwned, NEW p \in Process, NEW s,
         Quiet(p, s) \/ ChangesFiles(p, s) \/ Migrates(p, s)
  PROVE  CopiesAreOwned'
<1>1. CASE Quiet(p, s)
  BY <1>1, OwnedWithoutFiles DEF Quiet
<1>2. CASE Migrates(p, s)
  <2>1. s.at \notin MakingStage
    BY <1>2 DEF Migrates, MakingStage
  <2> QED BY <1>2, <2>1, OwnedWithoutFiles DEF Migrates
<1>3. CASE ChangesFiles(p, s)
  <2> SUFFICES ASSUME ~lost'
               PROVE  (\A q \in Process : OwnPartial(q))' /\ SnapshotsAreWhole'
    BY DEF CopiesAreOwned
  <2>1. ~lost
    BY <1>3 DEF ChangesFiles, Writes, Renames, Deletes
  <2>2. SnapshotsAreWhole /\ \A q \in Process : OwnPartial(q)
    BY <2>1 DEF CopiesAreOwned
  <2>3. proc'[p] = s /\ \A q \in Process \ {p} : proc'[q] = proc[q]
    BY <1>3, FilesChange, ProcGoes DEF Moves, TypeOK
  <2> DEFINE partial == Partial(proc[p])
  <2>4. ASSUME NEW content, Writes(p, s, content)
        PROVE  (\A q \in Process : OwnPartial(q))' /\ SnapshotsAreWhole'
    <3>1. /\ Files' = Files \cup {partial} /\ files'[partial] = content
          /\ \A f \in Files \ {partial} : files'[f] = files[f]
      BY <2>4, WriteIs DEF Writes
    <3>2. s.at # "rename" /\ Partial(s) = partial
      BY <2>4 DEF Writes
    <3>3. \A q \in Process \ {p} : proc[q].at \in MakingStage => Partial(proc[q]) # partial
      <4>1. CASE proc[p].at = "create"
        BY <2>2, <2>4, <4>1 DEF Writes, OwnPartial
      <4>2. CASE proc[p].at = "vacuum"
        BY <2>2, <4>2 DEF OwnPartial, MakingStage
      <4> QED BY <2>4, <4>1, <4>2 DEF Writes
    <3>4. SnapshotsAreWhole'
      BY <2>1, <2>2, <3>1, PartialExt DEF SnapshotsAreWhole
    <3> HIDE DEF partial
    <3>5. ASSUME NEW q \in Process, proc'[q].at \in MakingStage
          PROVE  /\ Partial(proc'[q]) \in Files'
                 /\ proc'[q].at = "rename" => files'[Partial(proc'[q])] \in 0..Latest
                 /\ \A r \in Process \ {q} : proc'[r].at \in MakingStage =>
                       Partial(proc'[r]) # Partial(proc'[q])
      <4>1. CASE q = p
        BY <2>3, <3>1, <3>2, <3>3, <4>1
      <4>2. CASE q # p
        BY <2>2, <2>3, <3>1, <3>2, <3>3, <3>5, <4>2 DEF OwnPartial
      <4> QED BY <4>1, <4>2
    <3> QED BY <3>4, <3>5 DEF OwnPartial
  <2>5. ASSUME NEW to, Renames(p, s, to)
        PROVE  (\A q \in Process : OwnPartial(q))' /\ SnapshotsAreWhole'
    <3>1. /\ to.ext # "partial" /\ s.at \notin MakingStage /\ proc[p].at \in MakingStage
          /\ to.ext = "sqlite" => proc[p].at = "rename"
      BY <2>5 DEF Renames, Copying, MakingStage
    <3>2. /\ Files' = (Files \ {partial}) \cup {to} /\ files'[to] = files[partial]
          /\ \A f \in Files \ {partial, to} : files'[f] = files[f]
      BY <2>5, <3>1, RenameIs, PartialExt DEF Renames
    <3>3. \A q \in Process \ {p} : proc[q].at \in MakingStage =>
             Partial(proc[q]) # partial /\ Partial(proc[q]) # to
      BY <2>2, <3>1, PartialExt DEF OwnPartial
    <3>4. to.ext = "sqlite" => files[partial] \in 0..Latest
      BY <2>2, <3>1 DEF OwnPartial
    <3> HIDE DEF partial
    <3>5. SnapshotsAreWhole'
      BY <2>1, <2>2, <3>2, <3>4 DEF SnapshotsAreWhole
    <3>6. ASSUME NEW q \in Process, proc'[q].at \in MakingStage
          PROVE  /\ Partial(proc'[q]) \in Files'
                 /\ proc'[q].at = "rename" => files'[Partial(proc'[q])] \in 0..Latest
                 /\ \A r \in Process \ {q} : proc'[r].at \in MakingStage =>
                       Partial(proc'[r]) # Partial(proc'[q])
      BY <2>2, <2>3, <3>1, <3>2, <3>3, <3>6 DEF OwnPartial
    <3> QED BY <3>5, <3>6 DEF OwnPartial
  <2>6. ASSUME NEW f, Deletes(p, s, f)
        PROVE  (\A q \in Process : OwnPartial(q))' /\ SnapshotsAreWhole'
    <3>1. Files' = Files \ {f} /\ \A g \in Files \ {f} : files'[g] = files[g]
      BY <2>6 DEF Deletes, Files
    <3>2. \A q \in Process : proc[q].at \in MakingStage => Partial(proc[q]) # f
      BY <2>6 DEF Deletes
    <3>3. s.at \notin MakingStage
      BY <2>6 DEF Deletes, MakingStage
    <3>4. SnapshotsAreWhole'
      BY <2>1, <2>2, <3>1 DEF SnapshotsAreWhole
    <3>5. ASSUME NEW q \in Process, proc'[q].at \in MakingStage
          PROVE  /\ Partial(proc'[q]) \in Files'
                 /\ proc'[q].at = "rename" => files'[Partial(proc'[q])] \in 0..Latest
                 /\ \A r \in Process \ {q} : proc'[r].at \in MakingStage =>
                       Partial(proc'[r]) # Partial(proc'[q])
      BY <2>2, <2>3, <3>1, <3>2, <3>3, <3>5 DEF OwnPartial
    <3> QED BY <3>4, <3>5 DEF OwnPartial
  <2> QED BY <1>3, <2>4, <2>5, <2>6 DEF ChangesFiles
<1> QED BY <1>1, <1>2, <1>3
-----------------------------------------------------------------------------
(* The third layer: the copy from before a migration.                          *)

LEMMA PreFacts ==
  ASSUME TypeOK
  PROVE  /\ Pre = {f \in Files : f.ext = "sqlite" /\ f.pre} /\ IsFiniteSet(Pre)
         /\ TooLate \subseteq Pre /\ IsFiniteSet(TooLate)
         /\ Savers \subseteq Process /\ IsFiniteSet(Savers)
         /\ Cardinality(TooLate) \in Nat /\ Cardinality(Savers) \in Nat
<1>1. Pre = {f \in Files : f.ext = "sqlite" /\ f.pre}
  BY KindOfName DEF Pre, OfKind, TypeOK
<1>2. IsFiniteSet(Pre) /\ TooLate \subseteq Pre
  <2>1. Pre \subseteq Files /\ IsFiniteSet(Files)
    BY <1>1 DEF TypeOK
  <2> QED BY <2>1, FS_Subset DEF TooLate
<1>3. IsFiniteSet(TooLate) /\ Savers \subseteq Process /\ IsFiniteSet(Savers)
  BY <1>2, Constants, FS_Subset DEF Savers
<1> QED BY <1>1, <1>2, <1>3, FS_CardinalityType

\* A copy before a migration that the plan dooms has more newer ones than are too late.
LEMMA DoomedAreOutlived ==
  ASSUME TypeOK, Cardinality(Process) <= PreMigrationKept,
         Cardinality(TooLate) + Cardinality(Savers) < Cardinality(Process),
         NEW f \in Doomed(Files, now), Kind(f) = "PreMigration"
  PROVE  Outlived(f)
<1> DEFINE newer == {g \in Pre : Precedes(g, f)}
<1>1. f \in Pre /\ f \notin Newest(Pre, PreMigrationKept)
  BY DoomedAreFiles DEF Doomed, Pre, OfKind, Abandoned
<1>2. ~(Cardinality(newer) < PreMigrationKept)
  BY <1>1 DEF Newest
<1>3. IsFiniteSet(newer) /\ IsFiniteSet(Pre)
  BY PreFacts, FS_Subset
<1>4. Cardinality(newer) \in Nat /\ Cardinality(Process) \in Nat
  BY <1>3, Constants, FS_CardinalityType
<1>5. Cardinality(TooLate) < Cardinality(newer)
  BY <1>2, <1>4, PreFacts, Constants
<1>6. ASSUME newer \subseteq TooLate PROVE FALSE
  BY <1>5, <1>6, <1>4, PreFacts, FS_Subset
<1>7. PICK g \in newer : g \notin TooLate
  BY <1>6
<1> QED BY <1>7 DEF Outlived, TooLate

\* Nobody gets more to save than before.
LEMMA SaversShrink ==
  ASSUME TypeOK, NEW p \in Process, NEW s \in ProcState, proc' = [proc EXCEPT ![p] = s],
         Saving(s) => Saving(proc[p])
  PROVE  Savers' \subseteq Savers /\ IsFiniteSet(Savers')
         /\ Cardinality(Savers') <= Cardinality(Savers) /\ Cardinality(Savers') \in Nat
<1>1. \A q \in Process : Saving(proc'[q]) => Saving(proc[q])
  BY ProcGoes DEF TypeOK
<1>2. Savers' \subseteq Savers
  BY <1>1 DEF Savers
<1> QED BY <1>2, PreFacts, FS_Subset, FS_CardinalityType

\* The history counts once for all.
LEMMA WasUndisturbed ==
  ASSUME Undisturbed', origin' = origin, replaced => replaced', lost => lost'
  PROVE  Undisturbed /\ ~replaced' /\ ~lost'
  BY DEF Undisturbed

LEMMA SavedWhenQuiet ==
  ASSUME TypeOK, MigrationsAreSaved, NEW p \in Process, NEW s, Quiet(p, s)
  PROVE  MigrationsAreSaved'
<1> SUFFICES ASSUME Undisturbed' PROVE CopiesAreOfTheLedger' /\ SavedWhileMigrating'
  BY DEF MigrationsAreSaved
<1>0. Undisturbed /\ origin # Unset /\ CopiesAreOfTheLedger /\ SavedWhileMigrating
  BY DEF Undisturbed, Quiet, MigrationsAreSaved
<1>1. /\ UNCHANGED <<ledger, files, now, origin, replaced, lost>>
      /\ s \in ProcState /\ proc' = [proc EXCEPT ![p] = s]
  BY DEF Quiet
<1>2. proc'[p] = s /\ \A q \in Process \ {p} : proc'[q] = proc[q]
  BY <1>1, ProcGoes DEF TypeOK
<1>3. Files' = Files /\ Pre' = Pre /\ TooLate' = TooLate
  BY <1>1 DEF Files, Pre, TooLate
<1>4. \A q \in Process : proc'[q].at \in {"verify", "rename"} =>
         /\ proc[q].at \in {"verify", "rename"} /\ Partial(proc'[q]) = Partial(proc[q])
  BY <1>2 DEF Quiet, MakingStage
<1>5. CopiesAreOfTheLedger'
  BY <1>0, <1>1, <1>3, <1>4 DEF CopiesAreOfTheLedger
<1>6. ledger # Latest => \A q \in Process : proc'[q].at \in {"list", "apply"} => Pre # {}
  BY <1>0, <1>2 DEF Quiet, SavedWhileMigrating
<1>7. ledger # origin => \E f \in Pre : files[f] # ledger
  BY <1>0 DEF SavedWhileMigrating
<1>8. ASSUME ledger = Latest, ledger # origin
      PROVE  /\ Cardinality(TooLate) + Cardinality(Savers') < Cardinality(Process)
             /\ \A q \in Process : \A f \in proc'[q].doomed :
                   Kind(f) = "PreMigration" => Outlived(f)
  <2>1. /\ Cardinality(TooLate) + Cardinality(Savers) < Cardinality(Process)
        /\ \A q \in Process : \A f \in proc[q].doomed :
              Kind(f) = "PreMigration" => Outlived(f)
    BY <1>0, <1>8 DEF SavedWhileMigrating
  <2>2. Saving(s) => Saving(proc[p])
    BY <1>8 DEF Quiet
  <2>3. Cardinality(Savers') <= Cardinality(Savers) /\ Cardinality(Savers') \in Nat
    BY <1>1, <2>2, SaversShrink
  <2>4. Cardinality(TooLate) + Cardinality(Savers') < Cardinality(Process)
    BY <2>1, <2>3, PreFacts, Constants, FS_CardinalityType
  <2>5. \A f \in Doomed(Files, now) : Kind(f) = "PreMigration" => Outlived(f)
    BY <1>0, <2>1, DoomedAreOutlived DEF Undisturbed
  <2>6. ASSUME NEW q \in Process, NEW f \in proc'[q].doomed, Kind(f) = "PreMigration"
        PROVE  Outlived(f)
    <3>1. f \in proc[q].doomed \/ f \in Doomed(Files, now)
      BY <1>2, <2>6 DEF Quiet
    <3> QED BY <2>1, <2>5, <2>6, <3>1
  <2> QED BY <2>4, <2>6
<1>9. ledger # Latest => \A q \in Process : proc'[q].doomed = {}
  BY <1>0, <1>2 DEF Quiet, SavedWhileMigrating
<1>10. \A f : Outlived(f)' <=> Outlived(f)
  BY <1>1, <1>3 DEF Outlived
<1>11. SavedWhileMigrating'
  BY <1>1, <1>3, <1>6, <1>7, <1>8, <1>9, <1>10 DEF SavedWhileMigrating
<1> QED BY <1>5, <1>11

\* The copies from before a migration stay, and p does not need one.
LEMMA SavedWithCopies ==
  ASSUME TypeOK, CopiesAreOfTheLedger, SavedWhileMigrating, NEW p \in Process,
         NEW s \in ProcState, proc' = [proc EXCEPT ![p] = s], UNCHANGED <<ledger, origin>>,
         Pre' = Pre, \A f \in Pre : files'[f] = files[f],
         Saving(s) => Saving(proc[p]), s.at \notin {"list", "apply"},
         s.doomed \subseteq proc[p].doomed,
         \A q \in Process : proc'[q].at \in {"verify", "rename"} =>
            files'[Partial(proc'[q])] \in {Damaged} \cup (origin..ledger)
  PROVE  CopiesAreOfTheLedger' /\ SavedWhileMigrating'
<1>1. proc'[p] = s /\ \A q \in Process \ {p} : proc'[q] = proc[q]
  BY ProcGoes DEF TypeOK
<1>2. TooLate' = TooLate
  BY DEF TooLate
<1>3. CopiesAreOfTheLedger'
  BY DEF CopiesAreOfTheLedger
<1>4. ledger # Latest => \A q \in Process : proc'[q].at \in {"list", "apply"} => Pre # {}
  BY <1>1 DEF SavedWhileMigrating
<1>5. ledger # origin => \E f \in Pre : files'[f] # ledger
  BY DEF SavedWhileMigrating
<1>6. \A f : Outlived(f)' <=> Outlived(f)
  BY DEF Outlived
<1>7. ASSUME ledger = Latest, ledger # origin
      PROVE  /\ Cardinality(TooLate) + Cardinality(Savers') < Cardinality(Process)
             /\ \A q \in Process : \A f \in proc'[q].doomed :
                   Kind(f) = "PreMigration" => Outlived(f)
  <2>1. /\ Cardinality(TooLate) + Cardinality(Savers) < Cardinality(Process)
        /\ \A q \in Process : \A f \in proc[q].doomed :
              Kind(f) = "PreMigration" => Outlived(f)
    BY <1>7 DEF SavedWhileMigrating
  <2>2. Cardinality(Savers') <= Cardinality(Savers) /\ Cardinality(Savers') \in Nat
    BY SaversShrink
  <2>3. Cardinality(TooLate) + Cardinality(Savers') < Cardinality(Process)
    BY <2>1, <2>2, PreFacts, Constants, FS_CardinalityType
  <2> QED BY <1>1, <2>1, <2>3
<1>8. ledger # Latest => \A q \in Process : proc'[q].doomed = {}
  BY <1>1 DEF SavedWhileMigrating
<1>9. SavedWhileMigrating'
  BY <1>2, <1>4, <1>5, <1>6, <1>7, <1>8 DEF SavedWhileMigrating
<1> QED BY <1>3, <1>9

LEMMA SavedWhenWritten ==
  ASSUME TypeOK, LedgerGrows, CopiesAreOwned, MigrationsAreSaved,
         NEW p \in Process, NEW s, NEW content, Writes(p, s, content)
  PROVE  MigrationsAreSaved'
<1> SUFFICES ASSUME Undisturbed' PROVE CopiesAreOfTheLedger' /\ SavedWhileMigrating'
  BY DEF MigrationsAreSaved
<1>0. Undisturbed /\ origin # Unset /\ CopiesAreOfTheLedger /\ SavedWhileMigrating
  BY DEF Undisturbed, Writes, Moves, MigrationsAreSaved
<1> DEFINE partial == Partial(proc[p])
<1>1. /\ s \in ProcState /\ proc' = [proc EXCEPT ![p] = s] /\ UNCHANGED <<ledger, origin>>
      /\ s.at \in {"vacuum", "verify", "failed"} /\ Partial(s) = partial
      /\ s.doomed \subseteq proc[p].doomed
      /\ s.at = "verify" => content \in {Damaged, ledger}
  BY DEF Writes, Moves
<1>2. /\ Files' = Files \cup {partial} /\ files'[partial] = content
      /\ \A f \in Files \ {partial} : files'[f] = files[f]
  BY WriteIs DEF Writes
<1>3. proc'[p] = s /\ \A q \in Process \ {p} : proc'[q] = proc[q]
  BY <1>1, ProcGoes DEF TypeOK
<1>4. Kind(partial) # "PreMigration" /\ partial.ext = "partial"
  BY DEF Partial, Kind
<1>5. Pre' = Pre /\ \A f \in Pre : files'[f] = files[f]
  BY <1>2, <1>4 DEF Pre, OfKind
<1>6. Saving(s) => Saving(proc[p])
  BY DEF Writes, Saving, Copying
<1>7. \A q \in Process : OwnPartial(q)
  BY <1>0 DEF CopiesAreOwned, Undisturbed
<1>8. \A q \in Process \ {p} : proc[q].at \in MakingStage =>
         Partial(proc[q]) \in Files /\ Partial(proc[q]) # partial
  <2>1. CASE proc[p].at = "create"
    BY <1>7, <2>1 DEF Writes, OwnPartial
  <2>2. CASE proc[p].at = "vacuum"
    BY <1>7, <2>2 DEF OwnPartial, MakingStage
  <2> QED BY <2>1, <2>2 DEF Writes
<1>9. ledger \in origin..ledger
  <2>1. ledger # Unset /\ origin <= ledger /\ ledger \in Int /\ origin \in Int
    BY <1>0, Constants DEF LedgerGrows, TypeOK
  <2> QED BY <2>1
<1>10. ASSUME NEW q \in Process, proc'[q].at \in {"verify", "rename"}
       PROVE  files'[Partial(proc'[q])] \in {Damaged} \cup (origin..ledger)
  <2>1. CASE q = p
    BY <1>1, <1>2, <1>3, <1>9, <1>10, <2>1
  <2>2. CASE q # p
    <3>1. proc'[q] = proc[q] /\ proc[q].at \in MakingStage
      BY <1>3, <1>10, <2>2 DEF MakingStage
    <3>2. files'[Partial(proc[q])] = files[Partial(proc[q])]
      BY <1>2, <1>8, <2>2, <3>1
    <3> QED BY <1>0, <1>10, <3>1, <3>2 DEF CopiesAreOfTheLedger
  <2> QED BY <2>1, <2>2
<1>11. s.at \notin {"list", "apply"}
  BY <1>1
<1> HIDE DEF partial
<1> QED BY <1>0, <1>1, <1>5, <1>6, <1>10, <1>11, SavedWithCopies

LEMMA SavedWhenRenamed ==
  ASSUME TypeOK, LedgerGrows, CopiesAreOwned, MigrationsAreSaved,
         NEW p \in Process, NEW s, NEW to, Renames(p, s, to)
  PROVE  MigrationsAreSaved'
<1> SUFFICES ASSUME Undisturbed' PROVE CopiesAreOfTheLedger' /\ SavedWhileMigrating'
  BY DEF MigrationsAreSaved
<1>0. /\ Undisturbed /\ ~replaced' /\ origin # Unset /\ CopiesAreOfTheLedger
      /\ SavedWhileMigrating
  <2>1. origin' = origin /\ (replaced => replaced') /\ (lost => lost')
    <3>1. origin' = origin /\ lost' = lost
      BY DEF Renames, Moves
    <3>2. replaced' = replaced \/ replaced' = (replaced \/ to \in Files)
      BY DEF Renames
    <3>3. replaced => replaced'
      BY <3>2, Zenon
    <3> QED BY <3>1, <3>3, Zenon
  <2>2. Undisturbed /\ ~replaced'
    BY <2>1, WasUndisturbed
  <2> QED BY <2>2 DEF Undisturbed, MigrationsAreSaved
<1> DEFINE partial == Partial(proc[p])
<1>1. /\ s \in ProcState /\ proc' = [proc EXCEPT ![p] = s] /\ UNCHANGED <<ledger, origin>>
      /\ s.at \in {"off", "list", "prune"} /\ s.doomed = {}
      /\ proc[p].at \in {"failed", "rename"} /\ partial \in Files /\ to \in FileName
  BY DEF Renames, Moves
<1>2. partial.ext = "partial" /\ to.ext # "partial" /\ partial \in FileName
  BY <1>1 DEF Partial, Renames, TypeOK
<1>3. /\ Files' = (Files \ {partial}) \cup {to} /\ files'[to] = files[partial]
      /\ \A f \in Files \ {partial, to} : files'[f] = files[f]
  BY <1>2, RenameIs DEF Renames
<1>4. proc'[p] = s /\ \A q \in Process \ {p} : proc'[q] = proc[q]
  BY <1>1, ProcGoes DEF TypeOK
<1>5. \A q \in Process : OwnPartial(q)
  BY <1>0 DEF CopiesAreOwned, Undisturbed
<1>6. \A q \in Process \ {p} : proc[q].at \in MakingStage =>
         Partial(proc[q]) \in Files \ {partial, to}
  BY <1>1, <1>2, <1>5, PartialExt DEF OwnPartial, MakingStage
<1>7. s.at \notin Copying /\ ~Saving(s)
  BY <1>1 DEF Saving, Copying
<1>8. ASSUME NEW q \in Process, proc'[q].at \in {"verify", "rename"}
      PROVE  files'[Partial(proc'[q])] \in {Damaged} \cup (origin..ledger)
  <2>1. q # p
    BY <1>1, <1>4, <1>8
  <2>2. proc'[q] = proc[q] /\ proc[q].at \in MakingStage
    BY <1>4, <1>8, <2>1 DEF MakingStage
  <2>3. files'[Partial(proc[q])] = files[Partial(proc[q])]
    BY <1>3, <1>6, <2>1, <2>2
  <2> QED BY <1>0, <1>8, <2>2, <2>3 DEF CopiesAreOfTheLedger
<1> HIDE DEF partial
<1>9. CASE ~(to.ext = "sqlite" /\ to.pre)
  <2>1. Kind(partial) # "PreMigration" /\ Kind(to) # "PreMigration"
    BY <1>1, <1>2, <1>9, KindOfName
  <2>2. Pre' = Pre
    BY <1>1, <1>3, <2>1 DEF Pre, OfKind
  <2>3. \A f \in Pre : files'[f] = files[f]
    BY <1>3, <2>1 DEF Pre, OfKind
  <2>4. s.at \notin {"list", "apply"}
    BY <1>1, <1>9 DEF Renames
  <2>5. s.doomed \subseteq proc[p].doomed
    BY <1>1
  <2> QED BY <1>0, <1>1, <1>7, <1>8, <2>2, <2>3, <2>4, <2>5, SavedWithCopies
<1>10. CASE to.ext = "sqlite" /\ to.pre
  <2>1. /\ proc[p].at = "rename" /\ proc[p].pre /\ to \notin Files
    BY <1>0, <1>10 DEF Renames
  <2>2. Kind(partial) # "PreMigration" /\ Kind(to) = "PreMigration"
    BY <1>1, <1>2, <1>10, KindOfName
  <2>3. Pre' = Pre \cup {to} /\ to \notin Pre /\ \A f \in Pre : files'[f] = files[f]
    BY <1>3, <2>1, <2>2 DEF Pre, OfKind
  <2>4. files'[to] \in origin..ledger
    <3>1. files[partial] \in {Damaged} \cup (origin..ledger)
      BY <1>0, <2>1 DEF CopiesAreOfTheLedger, partial
    <3>2. files[partial] \in 0..Latest
      BY <1>5, <2>1 DEF OwnPartial, MakingStage, partial
    <3> QED BY <1>3, <3>1, <3>2, Constants
  <2>5. CopiesAreOfTheLedger'
    BY <1>0, <1>1, <1>8, <2>3, <2>4 DEF CopiesAreOfTheLedger
  <2>6. ledger # origin => \E f \in Pre' : files'[f] # ledger
    BY <1>0, <2>3 DEF SavedWhileMigrating
  <2>7. \A f : Outlived(f) => Outlived(f)'
    BY <2>3 DEF Outlived
  <2>8. ASSUME ledger = Latest, ledger # origin
        PROVE  /\ Cardinality(TooLate') + Cardinality(Savers') < Cardinality(Process)
               /\ \A q \in Process : \A f \in proc'[q].doomed :
                     Kind(f) = "PreMigration" => Outlived(f)'
    <3>1. /\ Cardinality(TooLate) + Cardinality(Savers) < Cardinality(Process)
          /\ \A q \in Process : \A f \in proc[q].doomed :
                Kind(f) = "PreMigration" => Outlived(f)
      BY <1>0, <2>8 DEF SavedWhileMigrating
    <3>2. /\ Cardinality(TooLate') \in Nat
          /\ Cardinality(TooLate') <= Cardinality(TooLate) + 1
      <4>1. TooLate' \subseteq TooLate \cup {to} /\ to \notin TooLate
        BY <2>3 DEF TooLate
      <4>2. /\ IsFiniteSet(TooLate \cup {to})
            /\ Cardinality(TooLate \cup {to}) = Cardinality(TooLate) + 1
        BY <4>1, PreFacts, FS_AddElement
      <4>3. /\ IsFiniteSet(TooLate')
            /\ Cardinality(TooLate') <= Cardinality(TooLate \cup {to})
        BY <4>1, <4>2, FS_Subset
      <4> QED BY <4>2, <4>3, FS_CardinalityType
    <3>3. Cardinality(Savers') = Cardinality(Savers) - 1 /\ Cardinality(Savers') \in Nat
      <4>1. p \in Savers
        BY <2>1 DEF Savers, Saving, Copying
      <4>2. \A q \in Process : Saving(proc'[q]) <=> q # p /\ Saving(proc[q])
        BY <1>4, <1>7
      <4>3. Savers' = Savers \ {p}
        BY <4>2 DEF Savers
      <4>4. /\ IsFiniteSet(Savers \ {p})
            /\ Cardinality(Savers \ {p}) = Cardinality(Savers) - 1
        BY <4>1, PreFacts, FS_RemoveElement
      <4> QED BY <4>3, <4>4, FS_CardinalityType
    <3>4. Cardinality(TooLate') + Cardinality(Savers') < Cardinality(Process)
      BY <3>1, <3>2, <3>3, PreFacts, Constants, FS_CardinalityType
    <3> QED BY <1>1, <1>4, <2>7, <3>1, <3>4
  <2>9. ledger # Latest => \A q \in Process : proc'[q].doomed = {}
    BY <1>0, <1>1, <1>4 DEF SavedWhileMigrating
  <2>10. Pre' # {}
    BY <2>3
  <2>11. SavedWhileMigrating'
    BY <1>1, <2>6, <2>8, <2>9, <2>10 DEF SavedWhileMigrating
  <2> QED BY <2>5, <2>11
<1> QED BY <1>9, <1>10

LEMMA SavedWhenDeleted ==
  ASSUME TypeOK, LedgerGrows, CopiesAreOwned, MigrationsAreSaved,
         NEW p \in Process, NEW s, NEW f, Deletes(p, s, f)
  PROVE  MigrationsAreSaved'
<1> SUFFICES ASSUME Undisturbed' PROVE CopiesAreOfTheLedger' /\ SavedWhileMigrating'
  BY DEF MigrationsAreSaved
<1>0. /\ Undisturbed /\ ~lost' /\ origin # Unset /\ CopiesAreOfTheLedger
      /\ SavedWhileMigrating
  <2>1. UNCHANGED <<origin, replaced>>
    BY DEF Deletes, Moves
  <2>2. lost => lost'
    <3>1. lost' = (lost \/ \E q \in Process : proc[q].at \in MakingStage
                                                /\ f = Partial(proc[q]))
      BY DEF Deletes
    <3> QED BY <3>1, Zenon
  <2>3. Undisturbed /\ ~lost'
    BY <2>1, <2>2, WasUndisturbed
  <2> QED BY <2>3 DEF Undisturbed, MigrationsAreSaved
<1>1. /\ s \in ProcState /\ proc' = [proc EXCEPT ![p] = s] /\ UNCHANGED <<ledger, origin>>
      /\ s.at = "delete" /\ s.doomed \subseteq proc[p].doomed
      /\ f \in proc[p].doomed /\ ledger = Latest
  BY DEF Deletes, Moves
<1>2. Files' = Files \ {f} /\ \A g \in Files \ {f} : files'[g] = files[g]
  BY DEF Deletes, Files
<1>3. proc'[p] = s /\ \A q \in Process \ {p} : proc'[q] = proc[q]
  BY <1>1, ProcGoes DEF TypeOK
<1>4. Pre' = Pre \ {f} /\ \A g \in Pre \ {f} : files'[g] = files[g]
  BY <1>2 DEF Pre, OfKind
<1>5. \A q \in Process : proc[q].at \in MakingStage => Partial(proc[q]) \in Files \ {f}
  BY <1>0 DEF Deletes, CopiesAreOwned, OwnPartial, Undisturbed
<1>6. CopiesAreOfTheLedger'
  <2>1. ASSUME NEW q \in Process, proc'[q].at \in {"verify", "rename"}
        PROVE  files'[Partial(proc'[q])] \in {Damaged} \cup (origin..ledger)
    <3>1. proc'[q] = proc[q] /\ proc[q].at \in MakingStage
      BY <1>1, <1>3, <2>1 DEF MakingStage
    <3>2. files'[Partial(proc[q])] = files[Partial(proc[q])]
      BY <1>2, <1>5, <3>1
    <3> QED BY <1>0, <2>1, <3>1, <3>2 DEF CopiesAreOfTheLedger
  <2> QED BY <1>0, <1>1, <1>4, <2>1 DEF CopiesAreOfTheLedger
<1>7. SavedWhileMigrating'
  <2> SUFFICES ASSUME ledger # origin
               PROVE  /\ \E g \in Pre' : files'[g] # ledger
                      /\ Cardinality(TooLate') + Cardinality(Savers') < Cardinality(Process)
                      /\ \A q \in Process : \A h \in proc'[q].doomed :
                            Kind(h) = "PreMigration" => Outlived(h)'
    BY <1>1 DEF SavedWhileMigrating
  <2>1. /\ Cardinality(TooLate) + Cardinality(Savers) < Cardinality(Process)
        /\ \A q \in Process : \A h \in proc[q].doomed :
              Kind(h) = "PreMigration" => Outlived(h)
        /\ \E g \in Pre : files[g] # ledger
    BY <1>0, <1>1 DEF SavedWhileMigrating
  <2>2. Pre \subseteq FileName
    BY DEF Pre, OfKind, TypeOK
  <2>3. f \in Pre => Outlived(f)
    BY <1>1, <2>1 DEF Pre, OfKind
  <2>4. \E g \in Pre' : files'[g] # ledger
    <3>1. PICK g \in Pre : files[g] # ledger
      BY <2>1
    <3>2. CASE g # f
      BY <1>4, <3>1, <3>2
    <3>3. CASE g = f
      <4>1. PICK h \in Pre : Precedes(h, f) /\ files[h] # Latest
        BY <2>3, <3>3 DEF Outlived
      <4>2. h # f
        BY <2>2, <3>3, <4>1, PrecedesOrders
      <4> QED BY <1>1, <1>4, <4>1, <4>2
    <3> QED BY <3>2, <3>3
  <2>5. ASSUME NEW h \in FileName, Outlived(h) PROVE Outlived(h)'
    <3>1. PICK g \in Pre : Precedes(g, h) /\ files[g] # Latest
      BY <2>5 DEF Outlived
    <3>2. CASE g # f
      BY <1>4, <3>1, <3>2 DEF Outlived
    <3>3. CASE g = f
      <4>1. PICK k \in Pre : Precedes(k, f) /\ files[k] # Latest
        BY <2>3, <3>3 DEF Outlived
      <4>2. k # f /\ Precedes(k, h)
        BY <2>2, <3>1, <3>3, <4>1, PrecedesOrders
      <4> QED BY <1>4, <4>1, <4>2 DEF Outlived
    <3> QED BY <3>2, <3>3
  <2>6. ASSUME NEW q \in Process, NEW h \in proc'[q].doomed, Kind(h) = "PreMigration"
        PROVE  Outlived(h)'
    <3>1. h \in proc[q].doomed /\ h \in FileName
      BY <1>1, <1>3, ProcTyped DEF ProcState
    <3> QED BY <2>1, <2>5, <2>6, <3>1
  <2>7. Cardinality(TooLate') <= Cardinality(TooLate) /\ Cardinality(TooLate') \in Nat
    <3>1. TooLate' \subseteq TooLate
      BY <1>4 DEF TooLate
    <3> QED BY <3>1, PreFacts, FS_Subset, FS_CardinalityType
  <2>8. Cardinality(Savers') <= Cardinality(Savers) /\ Cardinality(Savers') \in Nat
    <3>1. ~Saving(s)
      BY <1>1 DEF Saving, Copying
    <3> QED BY <1>1, <3>1, SaversShrink
  <2>9. Cardinality(TooLate') + Cardinality(Savers') < Cardinality(Process)
    BY <2>1, <2>7, <2>8, PreFacts, Constants, FS_CardinalityType
  <2> QED BY <2>4, <2>6, <2>9
<1> QED BY <1>6, <1>7

LEMMA SavedWhenMigrated ==
  ASSUME TypeOK, LedgerGrows, MigrationsAreSaved,
         NEW p \in Process, NEW s, Migrates(p, s)
  PROVE  MigrationsAreSaved'
<1> SUFFICES ASSUME Undisturbed' PROVE CopiesAreOfTheLedger' /\ SavedWhileMigrating'
  BY DEF MigrationsAreSaved
<1>0. Undisturbed /\ origin # Unset /\ CopiesAreOfTheLedger /\ SavedWhileMigrating
  BY DEF Undisturbed, Migrates, MigrationsAreSaved
<1>1. /\ s \in ProcState /\ proc' = [proc EXCEPT ![p] = s] /\ UNCHANGED <<files, origin>>
      /\ ledger \in 0..Latest /\ ledger' = ledger + 1 /\ ledger # Latest
      /\ ledger' \in 0..Latest /\ origin \in 0..Latest /\ origin <= ledger
      /\ proc[p].at = "apply" /\ s.at = "apply" /\ s.doomed = proc[p].doomed
  BY <1>0 DEF Migrates, LedgerGrows, TypeOK
<1>2. proc'[p] = s /\ \A q \in Process \ {p} : proc'[q] = proc[q]
  BY <1>1, ProcGoes DEF TypeOK
<1>3. Files' = Files /\ Pre' = Pre
  BY <1>1 DEF Files, Pre
<1>4. \A f \in Pre : files[f] \in origin..ledger /\ files[f] # ledger'
  BY <1>0, <1>1 DEF CopiesAreOfTheLedger
<1>5. CopiesAreOfTheLedger'
  <2>1. origin..ledger \subseteq origin..ledger'
    BY <1>1
  <2>2. \A q \in Process : proc'[q].at \in {"verify", "rename"} => proc'[q] = proc[q]
    BY <1>1, <1>2
  <2> QED BY <1>0, <1>1, <1>3, <2>1, <2>2 DEF CopiesAreOfTheLedger
<1>6. Pre # {}
  BY <1>0, <1>1 DEF SavedWhileMigrating
<1>7. \A q \in Process : proc'[q].doomed = {}
  BY <1>0, <1>1, <1>2 DEF SavedWhileMigrating
<1>8. ledger' # origin
  BY <1>1
<1>9. ASSUME ledger' = Latest
      PROVE  Cardinality(TooLate') + Cardinality(Savers') < Cardinality(Process)
  <2>1. TooLate' = {}
    BY <1>1, <1>3, <1>4, <1>9 DEF TooLate
  <2>2. Savers' \subseteq Process \ {p}
    BY <1>1, <1>2 DEF Savers, Saving, Copying
  <2>3. IsFiniteSet(Process \ {p}) /\ Cardinality(Process \ {p}) = Cardinality(Process) - 1
    BY Constants, FS_RemoveElement
  <2>4. Cardinality(Savers') <= Cardinality(Process \ {p}) /\ Cardinality(Savers') \in Nat
    BY <2>2, <2>3, FS_Subset, FS_CardinalityType
  <2> QED BY <2>1, <2>3, <2>4, Constants, FS_EmptySet, FS_CardinalityType
<1>10. SavedWhileMigrating'
  BY <1>1, <1>3, <1>4, <1>6, <1>7, <1>8, <1>9 DEF SavedWhileMigrating
<1> QED BY <1>5, <1>10

LEMMA MigrationsStaySaved ==
  ASSUME TypeOK, LedgerGrows, CopiesAreOwned, MigrationsAreSaved, NEW p \in Process, NEW s,
         Quiet(p, s) \/ ChangesFiles(p, s) \/ Migrates(p, s)
  PROVE  MigrationsAreSaved'
  BY SavedWhenQuiet, SavedWhenWritten, SavedWhenRenamed, SavedWhenDeleted, SavedWhenMigrated
  DEF ChangesFiles
-----------------------------------------------------------------------------
(* The fourth layer: what stands in for a copy that is doomed.                 *)

LEMMA NewerFacts ==
  ASSUME TypeOK, NEW f
  PROVE  /\ LaunchCopies \subseteq FileName /\ IsFiniteSet(LaunchCopies)
         /\ IsFiniteSet(Newer(f)) /\ Cardinality(Newer(f)) \in Nat
<1>1. LaunchCopies \subseteq Files /\ IsFiniteSet(Files) /\ Files \subseteq FileName
  BY DEF LaunchCopies, OfKind, TypeOK
<1>2. IsFiniteSet(LaunchCopies) /\ Newer(f) \subseteq LaunchCopies
  BY <1>1, FS_Subset DEF Newer
<1> QED BY <1>1, <1>2, FS_Subset, FS_CardinalityType

\* When the plan is made, every copy it dooms has its stand-ins.
LEMMA PlanLeavesStandIns ==
  ASSUME TypeOK, StampsArePast, NEW f \in Doomed(Files, now)
  PROVE  f.stamp <= now /\ (Kind(f) = "Launch" => StandIns(f))
<1>1. f \in Files /\ f.stamp <= now
  BY DoomedAreFiles DEF StampsArePast
<1>2. ASSUME Kind(f) = "Launch" PROVE StandIns(f)
  <2>1. /\ f \in LaunchCopies
        /\ f \notin Newest(LaunchCopies, RecentLaunches)
        /\ f \notin WeeklySurvivors(LaunchCopies, now)
        /\ f \notin MonthlySurvivors(LaunchCopies, now)
    BY <1>1, <1>2 DEF Doomed, LaunchCopies, OfKind, Abandoned
  <2>2. Cardinality(Newer(f)) >= RecentLaunches
    <3>1. ~(Cardinality(Newer(f)) < RecentLaunches)
      BY <2>1 DEF Newest, Newer
    <3> QED BY <3>1, NewerFacts, Constants
  <2>3. Week(f.stamp) \in LastWeeks(now) => \E g \in Newer(f) : Week(g.stamp) = Week(f.stamp)
    BY <2>1 DEF WeeklySurvivors, Newer
  <2>4. Month(f.stamp) \in LastMonths(now) =>
           \E g \in Newer(f) : Month(g.stamp) = Month(f.stamp)
    BY <2>1 DEF MonthlySurvivors, Newer
  <2> QED BY <2>2, <2>3, <2>4 DEF StandIns
<1> QED BY <1>1, <1>2

\* More copies are better.
LEMMA StandInsStay ==
  ASSUME TypeOK', NEW f, StandIns(f), LaunchCopies \subseteq LaunchCopies', now' = now
  PROVE  StandIns(f)'
<1>1. Newer(f) \subseteq Newer(f)'
  BY DEF Newer
<1>2. IsFiniteSet(Newer(f)')
  <2>1. IsFiniteSet(Files') /\ Newer(f)' \subseteq Files'
    BY DEF TypeOK, Newer, LaunchCopies, OfKind
  <2> QED BY <2>1, FS_Subset
<1>3. /\ Cardinality(Newer(f)) <= Cardinality(Newer(f)')
      /\ Cardinality(Newer(f)) \in Nat /\ Cardinality(Newer(f)') \in Nat
  BY <1>1, <1>2, FS_Subset, FS_CardinalityType
<1>4. Cardinality(Newer(f)') >= RecentLaunches
  BY <1>3, Constants DEF StandIns
<1> QED BY <1>1, <1>4 DEF StandIns

\* A doomed copy is deleted: what stood in for it stands in for the others too.
LEMMA StandInsAreDeleted ==
  ASSUME TypeOK, TypeOK', NEW f \in FileName, NEW h \in FileName,
         Kind(f) = "Launch" => StandIns(f), StandIns(h),
         LaunchCopies' = LaunchCopies \ {f}, now' = now
  PROVE  StandIns(h)'
<1>1. CASE f \notin Newer(h)
  <2>1. Newer(h)' = Newer(h)
    BY <1>1 DEF Newer
  <2> QED BY <2>1 DEF StandIns
<1>2. CASE f \in Newer(h)
  <2>1. StandIns(f) /\ Precedes(f, h)
    BY <1>2 DEF Newer, LaunchCopies, OfKind
  <2>2. \A g \in Newer(f) : g \in Newer(h)'
    <3>1. SUFFICES ASSUME NEW g \in LaunchCopies, Precedes(g, f)
                   PROVE  g # f /\ Precedes(g, h)
      BY DEF Newer
    <3>2. g \in FileName
      BY NewerFacts
    <3> QED BY <2>1, <3>1, <3>2, PrecedesOrders
  <2>3. \A g \in Newer(h) \ {f} : g \in Newer(h)'
    BY DEF Newer
  <2>4. IsFiniteSet(Newer(h)')
    <3>1. IsFiniteSet(Files') /\ Newer(h)' \subseteq Files'
      BY DEF TypeOK, Newer, LaunchCopies, OfKind
    <3> QED BY <3>1, FS_Subset
  <2>5. /\ Cardinality(Newer(f)) <= Cardinality(Newer(h)')
        /\ Cardinality(Newer(f)) \in Nat /\ Cardinality(Newer(h)') \in Nat
    <3>1. Newer(f) \subseteq Newer(h)'
      BY <2>2
    <3> QED BY <2>4, <3>1, FS_Subset, FS_CardinalityType
  <2>6. Cardinality(Newer(h)') >= RecentLaunches
    BY <2>1, <2>5, Constants DEF StandIns
  <2>7. Week(h.stamp) \in LastWeeks(now) =>
           \E g \in Newer(h)' : Week(g.stamp) = Week(h.stamp)
    BY <2>1, <2>2, <2>3 DEF StandIns
  <2>8. Month(h.stamp) \in LastMonths(now) =>
           \E g \in Newer(h)' : Month(g.stamp) = Month(h.stamp)
    BY <2>1, <2>2, <2>3 DEF StandIns
  <2> QED BY <2>6, <2>7, <2>8 DEF StandIns
<1> QED BY <1>1, <1>2

LEMMA CopiesOnlyGrow ==
  ASSUME TypeOK, NEW p \in Process, NEW s,
         \/ Quiet(p, s) \/ Migrates(p, s)
         \/ (\E content : Writes(p, s, content)) \/ (\E to : Renames(p, s, to))
  PROVE  LaunchCopies \subseteq LaunchCopies'
<1> DEFINE partial == Partial(proc[p])
<1>1. partial.ext = "partial" /\ Kind(partial) = "Partial"
  BY DEF Partial, Kind
<1>2. CASE Quiet(p, s) \/ Migrates(p, s)
  BY <1>2 DEF Quiet, Migrates, LaunchCopies, OfKind, Files
<1>3. ASSUME NEW content, Writes(p, s, content) PROVE LaunchCopies \subseteq LaunchCopies'
  BY <1>3, WriteIs DEF Writes, LaunchCopies, OfKind
<1>4. ASSUME NEW to, Renames(p, s, to) PROVE LaunchCopies \subseteq LaunchCopies'
  <2>1. Files \ {partial} \subseteq Files'
    BY <1>4 DEF Renames, Rename, Files
  <2> HIDE DEF partial
  <2> QED BY <1>1, <2>1 DEF LaunchCopies, OfKind
<1> QED BY <1>2, <1>3, <1>4

LEMMA DoomedStayReplaced ==
  ASSUME TypeOK, TypeOK', StampsArePast, DoomedAreReplaced, NEW p \in Process, NEW s,
         Quiet(p, s) \/ ChangesFiles(p, s) \/ Migrates(p, s)
  PROVE  DoomedAreReplaced'
<1>1. s \in ProcState /\ proc' = [proc EXCEPT ![p] = s] /\ now' = now
  BY FilesChange DEF Quiet, Moves, Migrates
<1>2. proc'[p] = s /\ \A q \in Process \ {p} : proc'[q] = proc[q]
  BY <1>1, ProcGoes DEF TypeOK
<1>3. \A q \in Process : \A f \in proc[q].doomed :
         f \in FileName /\ f.stamp <= now /\ (Kind(f) = "Launch" => StandIns(f))
  BY ProcTyped DEF DoomedAreReplaced, ProcState
<1>4. \A q \in Process : \A f \in proc'[q].doomed :
         \/ f \in proc[q].doomed
         \/ Quiet(p, s) /\ f \in Doomed(Files, now)
  BY <1>2 DEF Quiet, Migrates, ChangesFiles, Writes, Renames, Deletes
<1>5. CASE LaunchCopies \subseteq LaunchCopies'
  <2>1. ASSUME NEW q \in Process, NEW f \in proc'[q].doomed
        PROVE  f.stamp <= now /\ (Kind(f) = "Launch" => StandIns(f))
    BY <1>3, <1>4, PlanLeavesStandIns
  <2>2. \A f : StandIns(f) => StandIns(f)'
    BY <1>1, <1>5, StandInsStay
  <2> QED BY <1>1, <2>1, <2>2 DEF DoomedAreReplaced
<1>6. ASSUME NEW f, Deletes(p, s, f) PROVE DoomedAreReplaced'
  <2>1. f \in proc[p].doomed /\ Files' = Files \ {f}
    BY <1>6 DEF Deletes, Files
  <2>2. LaunchCopies' = LaunchCopies \ {f} /\ f \in FileName
    BY <1>3, <2>1 DEF LaunchCopies, OfKind
  <2>3. \A q \in Process : \A h \in proc'[q].doomed : h \in proc[q].doomed
    BY <1>2, <1>6 DEF Deletes
  <2>4. ASSUME NEW q \in Process, NEW h \in proc'[q].doomed
        PROVE  h.stamp <= now /\ (Kind(h) = "Launch" => StandIns(h)')
    BY <1>1, <1>3, <2>1, <2>2, <2>3, StandInsAreDeleted
  <2> QED BY <1>1, <2>4 DEF DoomedAreReplaced
<1> QED BY <1>5, <1>6, CopiesOnlyGrow DEF ChangesFiles

LEMMA DoomedStayWithDays ==
  ASSUME TypeOK, DoomedAreReplaced, Passes
  PROVE  DoomedAreReplaced'
<1>1. now \in Nat /\ now' = now + 1 /\ now' \in Nat /\ UNCHANGED <<files, proc>>
  BY DEF Passes, TypeOK
<1>2. \A f : Newer(f)' = Newer(f)
  BY <1>1 DEF Newer, LaunchCopies, Files
<1>3. ASSUME NEW q \in Process, NEW f \in proc[q].doomed
      PROVE  f.stamp <= now' /\ (Kind(f) = "Launch" => StandIns(f)')
  <2>1. f.stamp \in Nat /\ f.stamp <= now /\ (Kind(f) = "Launch" => StandIns(f))
    BY ProcTyped DEF DoomedAreReplaced, ProcState, FileName
  <2>2. /\ Week(f.stamp) \in LastWeeks(now') => Week(f.stamp) \in LastWeeks(now)
        /\ Month(f.stamp) \in LastMonths(now') => Month(f.stamp) \in LastMonths(now)
    BY <1>1, <2>1, WeeksPass
  <2> QED BY <1>1, <1>2, <2>1, <2>2 DEF StandIns
<1> QED BY <1>1, <1>3 DEF DoomedAreReplaced
-----------------------------------------------------------------------------
(* The whole invariant.                                                        *)

LEMMA StartsInLaunchInv == Init => LaunchInv
<1> SUFFICES ASSUME Init PROVE LaunchInv
  OBVIOUS
<1>1. /\ Files = {} /\ now = 0 /\ proc = [p \in Process |-> Off] /\ origin = ledger
      /\ replaced = FALSE /\ lost = FALSE
  BY DEF Init, Files
<1>2. \A p \in Process : /\ proc[p] \in ProcState /\ proc[p].at = "off"
                         /\ proc[p].doomed = {} /\ proc[p].stamp = 0
  BY <1>1, OffState
<1>3. IsFiniteSet(Files) /\ ledger \in {Unset} \cup (0..Latest)
  BY <1>1, FS_EmptySet, FoundLedgers DEF Init
<1>4. TypeOK
  <2>1. proc \in [Process -> ProcState]
    BY <1>1, OffState
  <2> QED BY <1>1, <1>3, <2>1 DEF TypeOK
<1>5. LedgerGrows
  BY <1>1, <1>2, <1>3 DEF LedgerGrows, LedgerRule, Opened, Copying
<1>6. StampsArePast
  BY <1>1, <1>2 DEF StampsArePast
<1>7. CopiesAreOwned
  BY <1>1, <1>2 DEF CopiesAreOwned, OwnPartial, MakingStage, SnapshotsAreWhole
<1>8. MigrationsAreSaved
  BY <1>1, <1>2
  DEF MigrationsAreSaved, CopiesAreOfTheLedger, SavedWhileMigrating, Pre, OfKind
<1>9. DoomedAreReplaced
  BY <1>2 DEF DoomedAreReplaced
<1> QED BY <1>4, <1>5, <1>6, <1>7, <1>8, <1>9 DEF LaunchInv

LEMMA StaysInLaunchInv == LaunchInv /\ [Next]_vars => LaunchInv'
<1> SUFFICES ASSUME LaunchInv, [Next]_vars PROVE LaunchInv'
  OBVIOUS
<1>0. /\ TypeOK /\ LedgerGrows /\ StampsArePast /\ CopiesAreOwned
      /\ MigrationsAreSaved /\ DoomedAreReplaced
  BY DEF LaunchInv
<1>1. CASE UNCHANGED <<ledger, files, now, proc, origin, replaced, lost>>
  <2>1. TypeOK' /\ LedgerGrows' /\ StampsArePast'
    BY <1>0, <1>1 DEF TypeOK, LedgerGrows, LedgerRule, StampsArePast, Files
  <2>2. CopiesAreOwned'
    BY <1>0, <1>1 DEF CopiesAreOwned, OwnPartial, SnapshotsAreWhole, Files
  <2>3. MigrationsAreSaved'
    BY <1>0, <1>1
    DEF MigrationsAreSaved, Undisturbed, CopiesAreOfTheLedger, SavedWhileMigrating,
        Pre, Savers, TooLate, Outlived, Files
  <2>4. DoomedAreReplaced'
    BY <1>0, <1>1 DEF DoomedAreReplaced, StandIns, Newer, LaunchCopies, Files
  <2> QED BY <2>1, <2>2, <2>3, <2>4 DEF LaunchInv
<1>2. CASE Passes
  <2>1. TypeOK' /\ LedgerGrows' /\ StampsArePast' /\ DoomedAreReplaced'
    BY <1>0, <1>2, DayPasses, DoomedStayWithDays
  <2>2. UNCHANGED <<ledger, files, proc, origin, replaced, lost>>
    BY <1>2 DEF Passes
  <2>3. CopiesAreOwned'
    BY <1>0, <2>2 DEF CopiesAreOwned, OwnPartial, SnapshotsAreWhole, Files
  <2>4. MigrationsAreSaved'
    BY <1>0, <2>2
    DEF MigrationsAreSaved, Undisturbed, CopiesAreOfTheLedger, SavedWhileMigrating,
        Pre, Savers, TooLate, Outlived, Files
  <2> QED BY <2>1, <2>3, <2>4 DEF LaunchInv
<1>3. ASSUME NEW p \in Process, NEW s, Quiet(p, s) \/ ChangesFiles(p, s) \/ Migrates(p, s)
      PROVE  LaunchInv'
  <2>1. TypeOK'
    BY <1>0, <1>3, TypesStay
  <2>2. LedgerGrows'
    BY <1>0, <1>3, LedgerStaysGrown, FilesChange
  <2>3. StampsArePast'
    BY <1>0, <1>3, StampsStayPast
  <2>4. CopiesAreOwned'
    BY <1>0, <1>3, CopiesStayOwned
  <2>5. MigrationsAreSaved'
    BY <1>0, <1>3, MigrationsStaySaved
  <2>6. DoomedAreReplaced'
    BY <1>0, <1>3, <2>1, DoomedStayReplaced
  <2> QED BY <2>1, <2>2, <2>3, <2>4, <2>5, <2>6 DEF LaunchInv
<1> QED BY <1>0, <1>1, <1>2, <1>3, EveryStep

\* The types, and all that keeps the copies, hold in every state: for any processes,
\* migrations, crashes and failures (ledger/open.rs, ledger/backup.rs).
THEOREM LaunchInvHolds == Spec => []LaunchInv
  BY StartsInLaunchInv, StaysInLaunchInv, PTL DEF Spec

LEMMA SavedAndWhole == LaunchInv => LedgersStayRecoverable
<1> SUFFICES ASSUME LaunchInv PROVE LedgersStayRecoverable
  OBVIOUS
<1>1. SnapshotsAreWhole
  BY DEF LaunchInv, CopiesAreOwned, SnapshotsAreWhole
<1>2. MigratedLedgersWereSaved
  <2> SUFFICES ASSUME origin # Unset, ledger # origin, ~replaced, ~lost,
                      Cardinality(Process) <= PreMigrationKept
               PROVE  \E f \in OfKind(Files, "PreMigration") :
                         files[f] \in origin..(ledger - 1)
    BY DEF MigratedLedgersWereSaved
  <2>1. CopiesAreOfTheLedger /\ SavedWhileMigrating
    BY DEF LaunchInv, MigrationsAreSaved, Undisturbed
  <2>2. PICK f \in Pre : files[f] # ledger /\ files[f] \in origin..ledger
    BY <2>1 DEF SavedWhileMigrating, CopiesAreOfTheLedger
  <2>3. origin \in Int /\ ledger \in Int
    BY Constants DEF LaunchInv, LedgerGrows, TypeOK
  <2>4. files[f] \in origin..(ledger - 1)
    BY <2>2, <2>3
  <2> QED BY <2>2, <2>4 DEF Pre
<1> QED BY <1>1, <1>2 DEF LedgersStayRecoverable

\* Whatever migrated a ledger that was there, a finished copy of before is in the
\* directory, and every finished copy is whole (take_snapshot, apply_pending): if no
\* stamp is drawn twice, no launch pruned while it copies, and no more launches run at
\* once than copies are kept.
THEOREM RecoverableAlways == Spec => []LedgersStayRecoverable
  BY LaunchInvHolds, SavedAndWhole, PTL

\* A step leaves the newest launch copies, and one of each recent week and month.
LEMMA StepsLeaveRecent ==
  ASSUME LaunchInv, [Next]_vars
  PROVE  [LET old == OfKind(Files, "Launch")
              new == OfKind(DOMAIN files', "Launch")
              asNew(f) == {g \in old : g.stamp >= f.stamp}
          IN  /\ \A f \in old : Cardinality(asNew(f)) <= RecentLaunches => f \in new
              /\ \A f \in old : Week(f.stamp) \in LastWeeks(now) =>
                    \E g \in new : Week(g.stamp) = Week(f.stamp)
              /\ \A f \in old : Month(f.stamp) \in LastMonths(now) =>
                    \E g \in new : Month(g.stamp) = Month(f.stamp)]_vars
<1> DEFINE asNew(f) == {g \in LaunchCopies : g.stamp >= f.stamp}
<1>0. TypeOK /\ LedgerGrows /\ StampsArePast /\ DoomedAreReplaced
  BY DEF LaunchInv
<1>1. LaunchCopies = OfKind(Files, "Launch")
      /\ LaunchCopies' = OfKind(DOMAIN files', "Launch")
  BY DEF LaunchCopies, Files
<1>2. ASSUME NEW p \in Process, NEW s, NEW f, Deletes(p, s, f), NEW h \in LaunchCopies
      PROVE  \/ h \in LaunchCopies'
             \/ /\ ~(Cardinality(asNew(h)) <= RecentLaunches)
                /\ Week(h.stamp) \in LastWeeks(now) =>
                      \E g \in LaunchCopies' : Week(g.stamp) = Week(h.stamp)
                /\ Month(h.stamp) \in LastMonths(now) =>
                      \E g \in LaunchCopies' : Month(g.stamp) = Month(h.stamp)
  <2>1. LaunchCopies' = LaunchCopies \ {f} /\ f \in proc[p].doomed
    BY <1>2 DEF Deletes, LaunchCopies, OfKind, Files
  <2>2. CASE h # f
    BY <2>1, <2>2
  <2>3. CASE h = f
    <3>1. h \in FileName /\ LaunchCopies \subseteq FileName /\ StandIns(h)
      <4>1. LaunchCopies \subseteq FileName /\ Kind(h) = "Launch"
        BY <1>0, NewerFacts DEF LaunchCopies, OfKind
      <4> QED BY <1>0, <2>1, <2>3, <4>1 DEF DoomedAreReplaced
    <3>2. Newer(h) \subseteq LaunchCopies' /\ h \notin Newer(h)
      BY <2>1, <2>3, <3>1, PrecedesOrders DEF Newer
    <3>3. Newer(h) \cup {h} \subseteq asNew(h)
      <4>1. h.stamp \in Nat
        BY <3>1 DEF FileName
      <4>2. \A g \in Newer(h) : g \in LaunchCopies /\ g.stamp \in Nat /\ g.stamp >= h.stamp
        BY <3>1, PrecedesOrders DEF Newer, FileName
      <4> QED BY <4>1, <4>2
    <3>4. /\ IsFiniteSet(Newer(h) \cup {h})
          /\ Cardinality(Newer(h) \cup {h}) = Cardinality(Newer(h)) + 1
          /\ Cardinality(Newer(h)) \in Nat
      BY <1>0, <3>2, NewerFacts, FS_AddElement
    <3>5. IsFiniteSet(asNew(h))
      BY <1>0, NewerFacts, FS_Subset
    <3>6. /\ Cardinality(Newer(h) \cup {h}) <= Cardinality(asNew(h))
          /\ Cardinality(asNew(h)) \in Nat
      BY <3>3, <3>5, FS_Subset, FS_CardinalityType
    <3>7. ~(Cardinality(asNew(h)) <= RecentLaunches)
      BY <3>1, <3>4, <3>6, Constants DEF StandIns
    <3> QED BY <3>1, <3>2, <3>7 DEF StandIns
  <2> QED BY <2>2, <2>3
<1>3. \/ LaunchCopies \subseteq LaunchCopies'
      \/ \E p \in Process : \E s, f : Deletes(p, s, f)
  <2>1. CASE UNCHANGED <<ledger, files, now, proc, origin, replaced, lost>> \/ Passes
    BY <2>1 DEF Passes, LaunchCopies, Files
  <2>2. CASE \E p \in Process : \E s : Quiet(p, s) \/ ChangesFiles(p, s) \/ Migrates(p, s)
    BY <1>0, <2>2, CopiesOnlyGrow DEF ChangesFiles
  <2> QED BY <1>0, <2>1, <2>2, EveryStep
<1>4. /\ \A h \in LaunchCopies : Cardinality(asNew(h)) <= RecentLaunches => h \in LaunchCopies'
      /\ \A h \in LaunchCopies : Week(h.stamp) \in LastWeeks(now) =>
            \E g \in LaunchCopies' : Week(g.stamp) = Week(h.stamp)
      /\ \A h \in LaunchCopies : Month(h.stamp) \in LastMonths(now) =>
            \E g \in LaunchCopies' : Month(g.stamp) = Month(h.stamp)
  <2>1. CASE LaunchCopies \subseteq LaunchCopies'
    BY <2>1
  <2>2. CASE \E p \in Process : \E s, f : Deletes(p, s, f)
    BY <1>2, <2>2
  <2> QED BY <1>3, <2>1, <2>2
<1> QED BY <1>1, <1>4

\* Pruning never takes the newest launch copies, nor the last of a recent week or month,
\* from whatever lists and at whatever moment (plan_retention, prune).
THEOREM RecentStay == Spec => RecentSnapshotsStay
<1>1. LaunchInv /\ [Next]_vars =>
        [LET old == OfKind(Files, "Launch")
             new == OfKind(DOMAIN files', "Launch")
             asNew(f) == {g \in old : g.stamp >= f.stamp}
         IN  /\ \A f \in old : Cardinality(asNew(f)) <= RecentLaunches => f \in new
             /\ \A f \in old : Week(f.stamp) \in LastWeeks(now) =>
                   \E g \in new : Week(g.stamp) = Week(f.stamp)
             /\ \A f \in old : Month(f.stamp) \in LastMonths(now) =>
                   \E g \in new : Month(g.stamp) = Month(f.stamp)]_vars
  BY StepsLeaveRecent
<1> QED BY <1>1, LaunchInvHolds, PTL DEF Spec, RecentSnapshotsStay
=============================================================================
