------------------------------ MODULE MCLaunch ------------------------------
(* A small instance for TLC: processes that open a ledger, processes that share *)
(* a log, one desktop application, or the import page in its window.  The four  *)
(* have no state in common, so each stays as it began while another runs.       *)
EXTENDS LedgerLaunch, RuntimeLog, DesktopShell, ImportView, TLC

CONSTANTS p1, p2

Plain == [mode |-> Unset, url |-> Unset, create |-> Unset, backups |-> Unset, host |-> Unset,
          port |-> Unset, hostingPort |-> Unset, logMaxBytes |-> Unset, refresh |-> Unset,
          launchRefresh |-> Unset, staticDir |-> Unset, backupDir |-> Unset,
          logFile |-> Unset,
          oneDrive |-> "onedrive", localAppData |-> "appdata"]

\* As installed, asked to create a ledger, without backups, without OneDrive, the demo,
\* and one that is refused.
MCEnv == { Plain, [Plain EXCEPT !.create = "yes"], [Plain EXCEPT !.backups = "no"],
           [Plain EXCEPT !.oneDrive = Unset], [Plain EXCEPT !.mode = "demo"],
           [Plain EXCEPT !.port = "bad"] }

MCFound == {Unset, 0, 1}

\* The files of the first day are listed in the order they were made, those of the next
\* the other way round.
MCListed ==
    [f \in [stamp : 0..MaxNow, pre : BOOLEAN, n : 1..CollisionLimit,
            ext : {"sqlite", "partial", "failed"}] |->
        LET order == <<"sqlite", "partial", "failed">>
            kind == CHOOSE k \in DOMAIN order : order[k] = f.ext
            place == 6 * f.n + 2 * kind + (IF f.pre THEN 1 ELSE 0)
        IN  IF f.stamp = 0 THEN place ELSE -place]

MCLengths == {1, 2}

\* Two windows of the desktop application write to one log.
MCWriter == {p \in Process : LogFile(Plain, "desktop") # Unset}
ProcessSymmetry == Permutations(Process)

VARIABLE part      \* what this behaviour is about

MCInit == /\ Init /\ LogInit /\ ShellInit /\ ViewInit
          /\ \/ part = "ledger" /\ ~probe
             \/ part = "log" /\ ledger = Unset /\ ~probe
             \/ part = "shell" /\ ledger = Unset
             \/ part = "page" /\ ledger = Unset /\ ~probe

MCNext == /\ UNCHANGED part
          /\ \/ part = "ledger" /\ Next /\ UNCHANGED <<logVars, shellVars, viewVars>>
             \/ part = "log" /\ LogNext /\ UNCHANGED <<vars, shellVars, viewVars>>
             \/ part = "shell" /\ ShellNext /\ UNCHANGED <<vars, logVars, viewVars>>
             \/ part = "page" /\ ViewNext /\ UNCHANGED <<vars, logVars, shellVars>>

MCSpec == MCInit /\ [][MCNext]_<<vars, logVars, shellVars, viewVars, part>>
=============================================================================
