---------------------------- MODULE DesktopShell -----------------------------
(* The desktop application from its start to its end (desktop/src/launch.rs,    *)
(* application_lifecycle.rs, startup_failure.rs, in_process_http.rs), and the   *)
(* probe of its WebView (webview_probe.rs).                                     *)
(*                                                                              *)
(* The main thread builds, runs the window loop and closes; requests, the       *)
(* launch refresh and the probe's watchdog are tasks of a runtime that go on    *)
(* meanwhile, also while the main thread unwinds or waits for a click.  How the *)
(* ledger is opened is in LedgerLaunch.                                         *)
EXTENDS Naturals

CONSTANTS Untold,       \* no dialog, no outcome
          Cases,        \* cases of the probe
          MaxRequests   \* bound: requests of the window, over all

ASSUME ShellBounds == {Cases, MaxRequests} \subseteq Nat

Heading == {"not started", "stopped"}
Culprit == {"launch", "main", "request"}

ASSUME UntoldIsNothing == /\ Untold \notin BOOLEAN /\ Untold \notin Culprit
                          /\ Untold \notin [heading : Heading, error : Culprit, paths : BOOLEAN]

VARIABLES main,       \* where the main thread is
          probe,      \* launched with --probe-webview
          app,        \* the Application: "none", "open", "closing", "closed"
          refresh,    \* its launch refresh: "none", "running", "done", "aborted"
          looping,    \* PanicReport.window_loop_started
          message,    \* PanicReport.message: whose panic it tells of
          dialog,     \* what the dialog says, or Untold
          requests,   \* [open, made]: requests of the window
          page,       \* the probe's page: cases left, whether all passed, its report
          watchdog,   \* "off", "sleeping", "writing", "done"
          outcome,    \* ProbeState.outcome: whether the probe passed, or Untold
          written     \* whose reports were written to a file

shellVars == <<main, probe, app, refresh, looping, message, dialog,
               requests, page, watchdog, outcome, written>>
probeVars == <<page, watchdog, outcome, written>>
appVars == <<app, refresh>>

ShellInit == /\ main = "start" /\ probe \in BOOLEAN
             /\ app = "none" /\ refresh = "none"
             /\ looping = FALSE /\ message = Untold /\ dialog = Untold
             /\ requests = [open |-> 0, made |-> 0]
             /\ page = [left |-> Cases, passed |-> TRUE, report |-> "none"]
             /\ watchdog = "off" /\ outcome = Untold /\ written = {}

-----------------------------------------------------------------------------
(* The end: the application is closed, then the failure is told.               *)

Main(at) == main' = at /\ UNCHANGED <<probe, looping, requests, probeVars>>

\* ApplicationLifecycle.shutdown takes the application: the refresh is aborted, and
\* the pool closes when its connections are back.  It is called where the main
\* thread leaves, however it leaves; a second call finds nothing.
Leaving == {"leaving", "abandoned", "panicked"}

TakeApplication ==
    /\ main \in Leaving /\ app = "open"
    /\ app' = "closing"
    /\ refresh' = IF refresh = "running" THEN "aborted" ELSE refresh
    /\ UNCHANGED <<message, dialog>> /\ Main(main)

CloseApplication ==
    /\ app = "closing" /\ app' = "closed"
    /\ UNCHANGED <<refresh, message, dialog>> /\ Main(main)

FaultShutDown == TRUE      \* Fault: nobody waits for the shutdown.

ShutDown == app \notin {"open", "closing"}

\* failure_message: the heading, whose error it is, and whether the ledger and the
\* log can be named.
Tell(stopped, error, paths) ==
    dialog' = [heading |-> IF stopped THEN "stopped" ELSE "not started",
               error |-> error, paths |-> paths]

\* LaunchFailure.report with a dialog: nothing had been shown before.
FailLaunch(paths) == /\ Tell(FALSE, "launch", paths)
                     /\ UNCHANGED <<appVars, message>> /\ Main("telling")

\* The user clicks; the process ends with an error, and its tasks with it.
Dismiss == /\ main = "telling"
           /\ UNCHANGED <<appVars, message, dialog>> /\ Main("failed")

\* The hook notes the panic, and the main thread unwinds.
Panic == /\ message' = "main"
         /\ UNCHANGED <<appVars, dialog>> /\ Main("panicked")

\* show_panic: whatever message is there by then.
TellPanic == /\ main = "panicked" /\ ShutDown
             /\ Tell(looping, message, TRUE)
             /\ UNCHANGED <<appVars, message>> /\ Main("telling")

-----------------------------------------------------------------------------
(* The launch.  Between these steps the code clones and takes locks that nobody *)
(* else has had.                                                                *)

CreateRuntime == /\ main = "start"
                 /\ \/ FailLaunch(FALSE)
                    \/ UNCHANGED <<appVars, message, dialog>> /\ Main("configure")

\* The probe's configuration cannot be refused.  Then the log, which may fail
\* without harm, and the panic hook.
Configure == /\ main = "configure"
             /\ \/ ~probe /\ FailLaunch(FALSE)
                \/ UNCHANGED <<appVars, message, dialog>> /\ Main("build")

\* Application::build, which closes what it opened if it fails; then the launch
\* refresh, in no demo and if it is enabled, and record_application.
Build == /\ main = "build"
         /\ \/ FailLaunch(TRUE)
            \/ Panic
            \/ /\ app' = "open"
               /\ refresh' \in IF probe THEN {"none"} ELSE {"none", "running"}
               /\ UNCHANGED <<message, dialog>> /\ Main("window")

\* tauri's build: if it fails, the application is closed before it is told.
BuildWindow ==
    /\ main = "window"
    /\ \/ UNCHANGED <<appVars, message, dialog>> /\ Main("abandoned")
       \/ Panic
       \/ /\ main' = "set up" /\ looping' = TRUE
          /\ UNCHANGED <<probe, appVars, message, dialog, requests, probeVars>>

Abandon == main = "abandoned" /\ ShutDown /\ FailLaunch(TRUE)

\* The hook of setup opens the window, and for a probe starts what will end it;
\* tauri panics when it fails.
SetUp == /\ main = "set up"
         /\ \/ Panic
            \/ /\ main' = "loop"
               /\ watchdog' = IF probe THEN "sleeping" ELSE "off"
               /\ UNCHANGED <<probe, appVars, looping, message, dialog, requests,
                              page, outcome, written>>

\* The user closes the window, the probe asks for its exit, or the loop panics.
Loop == /\ main = "loop"
        /\ \/ UNCHANGED <<appVars, message, dialog>> /\ Main("leaving")
           \/ Panic

\* probe_exit_code, of the outcome that is there when the loop has ended.
Passed == outcome = TRUE

Leave == /\ main = "leaving" /\ ShutDown
         /\ UNCHANGED <<appVars, message, dialog>>
         /\ Main(IF probe /\ ~Passed THEN "failed" ELSE "succeeded")

-----------------------------------------------------------------------------
(* The tasks, while there is a process.                                        *)

Alive == main \notin {"failed", "succeeded"}
TasksKeep == UNCHANGED <<main, probe, app, looping, dialog>>

FinishRefresh == /\ Alive /\ refresh = "running" /\ refresh' = "done"
                 /\ TasksKeep /\ UNCHANGED <<message, requests, probeVars>>

Request == /\ main = "loop" /\ requests.made < MaxRequests
           /\ requests' = [open |-> requests.open + 1, made |-> requests.made + 1]
           /\ TasksKeep /\ UNCHANGED <<refresh, message, probeVars>>

\* serve_request answers, or its task panics and the hook notes that.
ServeRequest == /\ Alive /\ requests.open > 0
                /\ requests' = [requests EXCEPT !.open = @ - 1]
                /\ message' \in {message, "request"}
                /\ TasksKeep /\ UNCHANGED <<refresh, probeVars>>

-----------------------------------------------------------------------------
(* The probe.                                                                   *)

\* A case passes, fails or times out.
RunCase == /\ main = "loop" /\ probe /\ page.left > 0
           /\ \E passed \in BOOLEAN :
                 page' = [page EXCEPT !.left = @ - 1, !.passed = @ /\ passed]
           /\ TasksKeep /\ UNCHANGED <<refresh, message, requests, watchdog,
                                                   outcome, written>>

PostReport == /\ main = "loop" /\ probe /\ page.left = 0 /\ page.report = "none"
              /\ page' = [page EXCEPT !.report = "posted"]
              /\ TasksKeep /\ UNCHANGED <<refresh, message, requests, watchdog,
                                                   outcome, written>>

\* report: the file, which may fail, then the outcome, whatever was there.
WriteReport == /\ Alive /\ page.report = "posted"
               /\ page' = [page EXCEPT !.report = "written"]
               /\ written' \in {written, written \cup {"page"}}
               /\ TasksKeep /\ UNCHANGED <<refresh, message, requests, watchdog, outcome>>

RecordReport == /\ Alive /\ page.report = "written"
                /\ page' = [page EXCEPT !.report = "recorded"]
                /\ outcome' = (page.passed /\ "page" \in written)
                /\ TasksKeep /\ UNCHANGED <<refresh, message, requests, watchdog, written>>

\* watchdog_report: it looks for an outcome, writes its report, and records a failure.
FireWatchdog == /\ Alive /\ watchdog = "sleeping"
                /\ watchdog' = IF outcome = Untold THEN "writing" ELSE "done"
                /\ TasksKeep /\ UNCHANGED <<refresh, message, requests, page, outcome, written>>

RecordTimeout == /\ Alive /\ watchdog = "writing" /\ watchdog' = "done"
                 /\ written' \in {written, written \cup {"watchdog"}}
                 /\ outcome' = FALSE
                 /\ TasksKeep /\ UNCHANGED <<refresh, message, requests, page>>

-----------------------------------------------------------------------------
ShellNext ==
    \/ CreateRuntime \/ Configure \/ Build \/ BuildWindow \/ Abandon
    \/ SetUp \/ Loop \/ Leave
    \/ TakeApplication \/ CloseApplication \/ TellPanic \/ Dismiss
    \/ FinishRefresh \/ Request \/ ServeRequest
    \/ RunCase \/ PostReport \/ WriteReport \/ RecordReport
    \/ FireWatchdog \/ RecordTimeout

ShellSpec == ShellInit /\ [][ShellNext]_shellVars
-----------------------------------------------------------------------------
(* Properties.                                                                  *)

ShellTypeOK ==
    /\ main \in {"start", "configure", "build", "window", "set up", "loop", "leaving",
                "abandoned", "panicked", "telling", "failed", "succeeded"}
    /\ probe \in BOOLEAN /\ looping \in BOOLEAN
    /\ app \in {"none", "open", "closing", "closed"}
    /\ refresh \in {"none", "running", "done", "aborted"}
    /\ message \in {Untold, "main", "request"}
    /\ dialog \in {Untold} \cup [heading : Heading, error : Culprit, paths : BOOLEAN]
    /\ requests \in [open : 0..MaxRequests, made : 0..MaxRequests]
    /\ requests.open <= requests.made
    /\ page \in [left : 0..Cases, passed : BOOLEAN,
                 report : {"none", "posted", "written", "recorded"}]
    /\ watchdog \in {"off", "sleeping", "writing", "done"}
    /\ outcome \in BOOLEAN \cup {Untold}
    /\ written \subseteq {"page", "watchdog"}

\* However the shell ends, nobody waits for a click and no process ends with the
\* ledger open or the launch refresh running; and a failure is told, in the right
\* words, unless it is the probe's verdict, while a success says nothing.
ClosedBeforeTold ==
    /\ dialog # Untold \/ ~Alive => app \in {"none", "closed"} /\ refresh # "running"
    /\ dialog # Untold => /\ dialog.heading = "stopped" <=> looping
                          /\ ~dialog.paths => app = "none"
                          /\ dialog.error # Untold
    /\ main = "failed" /\ dialog = Untold => probe /\ looping /\ app = "closed"
    /\ main = "succeeded" => dialog = Untold

\* A probe succeeds only if its page ran every case, all passed, and the report is in
\* a file, however the report, the watchdog and the end of the window interleave.
ProbePassesOnReport ==
    main = "succeeded" /\ probe =>
        page.left = 0 /\ page.passed /\ "page" \in written

\* Both, of every end.
EndsAreTrue == ClosedBeforeTold /\ ProbePassesOnReport
=============================================================================
