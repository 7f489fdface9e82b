---------------------------- MODULE LedgerLaunch ----------------------------
(* Processes start on one ledger (backend/src/ledger/open.rs, ledger/backup.rs,  *)
(* db/pool.rs, app/composition.rs, app/server.rs): each finds the file, takes a  *)
(* snapshot if it will migrate an existing ledger, migrates it one migration at  *)
(* a time, takes the snapshot of the launch, prunes old ones and serves.         *)
(*                                                                               *)
(* Nothing keeps two processes apart but the file system: a name is reserved by  *)
(* creating its .partial, and SQLite serializes the migrations.  A process may   *)
(* stop at any point; every call to the file system may fail.                    *)
EXTENDS LaunchConfig, SnapshotRetention

CONSTANTS Process, Env,
          Latest,          \* the migrations this program has
          Found,           \* the ledgers that may be there: a schema, or Unset
          CollisionLimit,  \* names tried for one stamp
          MaxNow,          \* bound: the last day
          MaxLaunches,     \* bound: launches
          MaxFailures      \* bound: failing calls

\* Every launch that reads a ledger reads this one.
ASSUME OneLedger ==
    Cardinality({Ledger(env).path : env \in {e \in Env : Refused(e) = Unset /\ Mode(e) # "demo"}}) = 1

ASSUME LaunchBounds == /\ IsFiniteSet(Process)
                       /\ {MaxNow, MaxLaunches, MaxFailures} \subseteq Nat
                       /\ {Latest, CollisionLimit} \subseteq Nat \ {0}

ASSUME EveryFileIsListed ==
    [stamp : 0..MaxNow, pre : BOOLEAN, n : 1..CollisionLimit,
     ext : {"sqlite", "partial", "failed"}] \subseteq DOMAIN Listed

ASSUME FoundLedgers == Unset \notin Int /\ Found \subseteq {Unset} \cup (0..Latest)

VARIABLES ledger,     \* migrations applied to the ledger, Unset if there is no file
          files,      \* the backup directory: file -> schema copied, Reserved, Damaged
          now,        \* the day
          proc,       \* what each process is doing
          launches, failures,
          origin,     \* history: what the ledger was at first
          replaced,   \* history: a finished snapshot was replaced
          lost        \* history: a partial one was pruned while it was being made

vars == <<ledger, files, now, proc, launches, failures, origin, replaced, lost>>

\* A process at some step that knows no more than what it was started with.
Started(at, dir, backups) ==
    [at |-> at, dir |-> dir, backups |-> backups, create |-> FALSE, created |-> FALSE,
     applied |-> 0, stamp |-> 0, pre |-> FALSE, n |-> 1, doomed |-> {}]

Off == Started("off", Unset, FALSE)

Init == /\ ledger \in Found /\ origin = ledger
        /\ files = [f \in {} |-> f] /\ now = 0
        /\ proc = [p \in Process |-> Off]
        /\ launches = 0 /\ failures = 0 /\ replaced = FALSE /\ lost = FALSE

-----------------------------------------------------------------------------
Reserved == -1
Damaged == -2

At(p, at) == proc[p].at = at

Files == DOMAIN files
Name(p, ext) == [stamp |-> proc[p].stamp, pre |-> proc[p].pre, n |-> proc[p].n, ext |-> ext]

Write(file, content) == [f \in Files \cup {file} |-> IF f = file THEN content ELSE files[f]]
Rename(from, to) == [f \in (Files \ {from}) \cup {to} |->
                        IF f = to THEN files[from] ELSE files[f]]

\* p goes on, and only needs what it was started with.
Onward(p, at) == Started(at, proc[p].dir, proc[p].backups)

\* p goes on as `q`; the ledger and the directory stay.
Go(p, q) == /\ proc' = [proc EXCEPT ![p] = q]
            /\ UNCHANGED <<ledger, files, now, launches, failures, origin, replaced, lost>>

\* One call to the file system or the database fails.
Fail == failures < MaxFailures /\ failures' = failures + 1

-----------------------------------------------------------------------------
(* Opening (db::open, pending_migrations).                                       *)

Launch(p, env) ==
    /\ At(p, "off") /\ launches < MaxLaunches
    /\ launches' = launches + 1
    /\ LET config == Config(env) IN
       proc' = [proc EXCEPT ![p] =
          IF Refused(env) # Unset THEN Off
          ELSE IF config.mode = "demo" THEN Started("assets", Unset, FALSE)
          ELSE [Started("find", config.dir, config.backups) EXCEPT !.create = config.create]]
    /\ UNCHANGED <<ledger, files, now, failures, origin, replaced, lost>>

\* A missing ledger is only created on request.
Find(p) ==
    /\ At(p, "find")
    /\ IF ledger = Unset /\ ~proc[p].create THEN Go(p, Off)
       ELSE Go(p, [Onward(p, "connect") EXCEPT !.created = ledger = Unset])

Connect(p) ==
    /\ At(p, "connect")
    /\ ledger' = IF ledger = Unset THEN 0 ELSE ledger
    /\ proc' = [proc EXCEPT ![p].at = "pending"]
    /\ UNCHANGED <<files, now, launches, failures, origin, replaced, lost>>

FaultMustSave(schema, created) == FALSE      \* Fault: only launches are saved.

\* Migrations are pending for a ledger that was there before.
MustSave(schema, created) == schema < Latest /\ ~created

\* take_snapshot: the stamp is taken first.
BeginSnapshot(p, pre) == [Onward(p, "reserve") EXCEPT !.stamp = now, !.pre = pre]

Pending(p) ==
    /\ At(p, "pending")
    /\ Go(p, IF ~MustSave(ledger, proc[p].created)
             THEN Onward(p, "list")
             ELSE IF proc[p].dir = Unset THEN Off      \* PreMigrationBackupFailed
             ELSE BeginSnapshot(p, TRUE))

-----------------------------------------------------------------------------
(* A snapshot (take_snapshot, reserve_name).                                     *)

\* A snapshot that fails stops the launch before a migration, and not otherwise.
Unsaved(p) == IF proc[p].pre THEN Off ELSE Onward(p, "prune")

NextName(p) == IF proc[p].n = CollisionLimit THEN Unsaved(p)
               ELSE [proc[p] EXCEPT !.n = @ + 1, !.at = "reserve"]

\* The finished file is looked for, then the partial one is created, if it is new.
Reserve(p) ==
    /\ At(p, "reserve")
    /\ Go(p, IF Name(p, "sqlite") \in Files THEN NextName(p)
             ELSE [proc[p] EXCEPT !.at = "create"])

Create(p) ==
    /\ At(p, "create")
    /\ IF Name(p, "partial") \in Files THEN Go(p, NextName(p))
       ELSE /\ files' = Write(Name(p, "partial"), Reserved)
            /\ proc' = [proc EXCEPT ![p].at = "vacuum"]
            /\ UNCHANGED <<ledger, now, launches, failures, origin, replaced, lost>>

\* p has its name, and works on the partial file.
Making(p) == proc[p].at \in {"vacuum", "verify", "rename", "failed"}

\* VACUUM INTO: the ledger as it is then, into a file that is empty or not there.
Vacuum(p) ==
    /\ At(p, "vacuum")
    /\ LET partial == Name(p, "partial")
           taken == partial \in Files /\ files[partial] # Reserved
       IN  /\ files' = IF taken THEN files ELSE Write(partial, ledger)
           /\ proc' = [proc EXCEPT ![p].at = IF taken THEN "failed" ELSE "verify"]
    /\ UNCHANGED <<ledger, now, launches, failures, origin, replaced, lost>>

\* It fails, or reports nothing and the copy is bad.
BadVacuum(p) ==
    /\ At(p, "vacuum") /\ Fail
    /\ files' = Write(Name(p, "partial"), Damaged)
    /\ \E at \in {"verify", "failed"} : proc' = [proc EXCEPT ![p].at = at]
    /\ UNCHANGED <<ledger, now, launches, origin, replaced, lost>>

Sound(file) == file \in Files /\ files[file] \in 0..Latest

Verify(p) ==
    /\ At(p, "verify")
    /\ Go(p, [proc[p] EXCEPT !.at = IF Sound(Name(p, "partial")) THEN "rename" ELSE "failed"])

\* fail_partial: what is there is kept for a look.
KeepFailed(p) ==
    /\ At(p, "failed")
    /\ files' = IF Name(p, "partial") \in Files
                THEN Rename(Name(p, "partial"), Name(p, "failed")) ELSE files
    /\ proc' = [proc EXCEPT ![p] = Unsaved(p)]
    /\ UNCHANGED <<ledger, now, launches, failures, origin, replaced, lost>>

\* The rename replaces a file of that name, and fails when the partial one is gone.
Finalize(p) ==
    /\ At(p, "rename")
    /\ IF Name(p, "partial") \notin Files THEN Go(p, Unsaved(p))
       ELSE /\ files' = Rename(Name(p, "partial"), Name(p, "sqlite"))
            /\ replaced' = (replaced \/ Name(p, "sqlite") \in Files)
            /\ proc' = [proc EXCEPT ![p] = Onward(p, IF proc[p].pre THEN "list" ELSE "prune")]
            /\ UNCHANGED <<ledger, now, launches, failures, origin, lost>>

\* The directory cannot be created, a name not be reserved or renamed.
DirectoryFails(p) ==
    /\ proc[p].at \in {"reserve", "create", "rename"} /\ Fail
    /\ proc' = [proc EXCEPT ![p] = Unsaved(p)]
    /\ UNCHANGED <<ledger, files, now, launches, origin, replaced, lost>>

-----------------------------------------------------------------------------
(* Migrating: the applied migrations are listed, then each missing one is        *)
(* applied in a transaction, which fails if somebody else has applied it.        *)

ListApplied(p) ==
    /\ At(p, "list")
    /\ Go(p, [proc[p] EXCEPT !.at = "apply", !.applied = ledger])

Apply(p) ==
    /\ At(p, "apply") /\ proc[p].applied < Latest
    /\ IF ledger # proc[p].applied THEN Go(p, Off)      \* MigrationFailed
       ELSE /\ ledger' = ledger + 1
            /\ proc' = [proc EXCEPT ![p].applied = @ + 1]
            /\ UNCHANGED <<files, now, launches, failures, origin, replaced, lost>>

\* The snapshot of the launch, unless switched off or without a directory.
Migrated(p) ==
    /\ At(p, "apply") /\ proc[p].applied = Latest
    /\ Go(p, IF proc[p].backups /\ proc[p].dir # Unset THEN BeginSnapshot(p, FALSE)
             ELSE Onward(p, "prune"))

-----------------------------------------------------------------------------
(* Pruning, and serving.                                                         *)

\* The directory is listed and the plan made; the files go one by one.
Prune(p) ==
    /\ At(p, "prune")
    /\ Go(p, [proc[p] EXCEPT !.at = "delete",
                 !.doomed = IF proc[p].dir = Unset THEN {} ELSE Doomed(Files, now)])

Delete(p) ==
    /\ At(p, "delete")
    /\ \E f \in proc[p].doomed :
          /\ files' = [g \in Files \ {f} |-> files[g]]
          /\ proc' = [proc EXCEPT ![p].doomed = @ \ {f}]
          /\ lost' = (lost \/ \E q \in Process : Making(q) /\ f = Name(q, "partial"))
          /\ UNCHANGED <<ledger, now, launches, failures, origin, replaced>>

Pruned(p) == /\ At(p, "delete") /\ proc[p].doomed = {}
             /\ Go(p, Started("assets", Unset, FALSE))

\* router_for_assets and the listener: a production launch needs the pages, every
\* server its port; otherwise the pool is closed.
Serve(p) == At(p, "assets") /\ Go(p, [proc[p] EXCEPT !.at = "serving"])

CannotServe(p) == /\ At(p, "assets") /\ Fail
                  /\ proc' = [proc EXCEPT ![p] = Off]
                  /\ UNCHANGED <<ledger, files, now, launches, origin, replaced, lost>>

\* Shutdown, or a crash wherever it is.
Stop(p) == ~At(p, "off") /\ Go(p, Off)

Tick == /\ now < MaxNow /\ now' = now + 1
        /\ UNCHANGED <<ledger, files, proc, launches, failures, origin, replaced, lost>>

-----------------------------------------------------------------------------
LaunchStep(p) ==
    \/ \E env \in Env : Launch(p, env)
    \/ Find(p) \/ Connect(p) \/ Pending(p)
    \/ Reserve(p) \/ Create(p) \/ Vacuum(p) \/ BadVacuum(p) \/ Verify(p)
    \/ KeepFailed(p) \/ Finalize(p) \/ DirectoryFails(p)
    \/ ListApplied(p) \/ Apply(p) \/ Migrated(p)
    \/ Prune(p) \/ Delete(p) \/ Pruned(p)
    \/ Serve(p) \/ CannotServe(p) \/ Stop(p)

Next == Tick \/ \E p \in Process : LaunchStep(p)

Spec == Init /\ [][Next]_vars
-----------------------------------------------------------------------------
(* Properties.                                                                   *)

\* Decision log: the snapshot before a migration is mandatory.  Once a ledger that
\* was found has been migrated, a finished copy from before is in the directory, for
\* any crashes and any other launches, one of which may have migrated it between the
\* look and the copy of another.  Three things can undo this: two launches that draw
\* the same stamp (the later one replaces the finished copy of the earlier one), a
\* launch that is pruned while it makes its copy, and more launches at once than copies
\* are kept, of which all but one copied what had been migrated already.
MigratedLedgersWereSaved ==
    origin # Unset /\ ledger # origin
    /\ ~replaced /\ ~lost /\ Cardinality(Process) <= PreMigrationKept =>
        \E f \in OfKind(Files, "PreMigration") : files[f] \in origin..(ledger - 1)

\* Whatever has the name of a finished snapshot is a copy that was read again: also when
\* launches race for a name.  A launch that is so slow that its reservation is pruned as
\* abandoned loses this: a third one may reserve that name again, and the slow one then
\* finishes the empty file.
SnapshotsAreWhole == ~lost => \A f \in Files : f.ext = "sqlite" => files[f] \in 0..Latest

\* What a migration changed can be had back: from a finished copy of before, and every
\* finished copy is whole (ledger/open.rs, ledger/backup.rs).
LedgersStayRecoverable == MigratedLedgersWereSaved /\ SnapshotsAreWhole

\* README: pruning leaves the newest launch snapshots and one of each recent week and
\* month, also when two launches prune at once from lists that are out of date.
RecentSnapshotsStay ==
    [][LET old == OfKind(Files, "Launch")
           new == OfKind(DOMAIN files', "Launch")
           asNew(f) == {g \in old : g.stamp >= f.stamp}
       IN  /\ \A f \in old : Cardinality(asNew(f)) <= RecentLaunches => f \in new
           /\ \A f \in old : Week(f.stamp) \in LastWeeks(now) =>
                 \E g \in new : Week(g.stamp) = Week(f.stamp)
           /\ \A f \in old : Month(f.stamp) \in LastMonths(now) =>
                 \E g \in new : Month(g.stamp) = Month(f.stamp)]_vars
=============================================================================
