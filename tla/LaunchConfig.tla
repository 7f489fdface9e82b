---------------------------- MODULE LaunchConfig ----------------------------
(* What a process is started with (backend/src/config.rs, ledger/location.rs):   *)
(* the environment decides the mode, the ledger and the backup directory, or     *)
(* that nothing is started.                                                      *)
(*                                                                               *)
(* A variable is absent (Unset), "blank", "bad" (it does not parse), or has one  *)
(* of the values named below.                                                    *)
EXTENDS Naturals

CONSTANT Unset

Blank(value) == value = "blank"

\* PORT is only read when TTTB_PORT is absent.
Strict(env) == {"mode", "create", "backups", "host", "port", "logMaxBytes", "refresh",
                "launchRefresh"}
               \cup IF env.port = Unset THEN {"hostingPort"} ELSE {}

\* read_optional and the parsers refuse the launch: a value without meaning, or none.
Malformed(env) == \/ \E v \in Strict(env) : env[v] \in {"blank", "bad"}
                  \/ \E v \in {"url", "staticDir"} : Blank(env[v])

Mode(env) == IF env.mode = Unset THEN "production" ELSE env.mode

\* A folder of the system that is there and not blank.
Folder(value) == IF Blank(value) THEN Unset ELSE value

\* default_database_url and resolve: a path, the memory of the demo, or an error.
Ledger(env) ==
    IF Mode(env) = "demo" THEN [path |-> "memory", error |-> Unset]
    ELSE IF env.url = Unset
         THEN IF Folder(env.localAppData) = Unset THEN [path |-> Unset, error |-> "Config"]
              ELSE [path |-> Mode(env), error |-> Unset]
    ELSE CASE env.url = "odd" -> [path |-> Unset, error |-> "LedgerUnsupportedUrl"]
           [] env.url = "memory" -> [path |-> Unset, error |-> "LedgerMustBeFileBacked"]
           [] env.url = "relative" -> [path |-> Unset, error |-> "LedgerNotAbsolute"]
           [] env.url = "directory" -> [path |-> Unset, error |-> "LedgerNotAFile"]
           [] OTHER -> [path |-> env.url, error |-> Unset]

\* The variable of one's own must be an absolute path.
Override(value) == IF value \in {"blank", "relative"} THEN Unset ELSE value

\* resolve_backup_dir; an unresolved one is a failure of the backup, not of the launch.
BackupDir(env) ==
    IF Mode(env) = "demo" THEN Unset
    ELSE IF env.backupDir # Unset THEN Override(env.backupDir)
    ELSE Folder(IF Mode(env) = "production" THEN env.oneDrive ELSE env.localAppData)

\* resolve_log_file and desktop_log_file: the desktop ignores the override; without a
\* file only the terminal is logged to.
LogFile(env, shell) ==
    IF shell = "server" /\ env.logFile # Unset THEN Override(env.logFile)
    ELSE IF Folder(env.localAppData) = Unset THEN Unset ELSE <<shell, Mode(env)>>

BackupEnabled(env) == IF env.backups = Unset THEN Mode(env) # "demo" ELSE env.backups = "yes"

\* AppConfig::from_env.
Refused(env) == IF Malformed(env) THEN "Config" ELSE Ledger(env).error

Config(env) == [mode |-> Mode(env), path |-> Ledger(env).path, create |-> env.create = "yes",
                backups |-> BackupEnabled(env), dir |-> BackupDir(env)]
=============================================================================
