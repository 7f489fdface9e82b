-------------------------- MODULE SnapshotRetention -------------------------
(* Which snapshots a launch deletes (backend/src/ledger/retention.rs).           *)
(*                                                                               *)
(* A file is named by [stamp, pre, n, ext]: when it was begun, whether before a  *)
(* migration, which of the files of that stamp, and "sqlite", "partial" or       *)
(* "failed".  Stamps count the days; a week has DaysPerWeek of them.             *)
EXTENDS Integers, FiniteSets

CONSTANTS DaysPerWeek, DaysPerMonth,
          RecentLaunches, WeeklyWeeks, MonthlyMonths, PreMigrationKept, FailedKept,
          AbandonedAge,
          Listed           \* [file -> Int]: where a directory lists a file

ASSUME RetentionPolicy ==
    /\ DaysPerWeek \in Nat \ {0} /\ DaysPerMonth \in Nat \ {0}
    /\ {RecentLaunches, PreMigrationKept} \subseteq Nat \ {0}
    /\ {WeeklyWeeks, MonthlyMonths, FailedKept, AbandonedAge} \subseteq Nat

\* read_dir promises no order.  The place of a file is one that its name decides, as in
\* directories that are sorted or hashed, so that one listing is ordered like another.
ASSUME DirectoryOrder ==
    \A f, g \in DOMAIN Listed :
        Listed[f] \in Int /\ (f.stamp = g.stamp /\ Listed[f] = Listed[g] => f = g)

Week(day) == day \div DaysPerWeek
Month(day) == day \div DaysPerMonth

Kind(file) == CASE file.ext = "partial" -> "Partial"
                [] file.ext = "failed" -> "Failed"
                [] file.ext = "sqlite" /\ file.pre -> "PreMigration"
                [] OTHER -> "Launch"

OfKind(files, kind) == {f \in files : Kind(f) = kind}

ListedBefore(f, g) == {f, g} \subseteq DOMAIN Listed /\ Listed[f] < Listed[g]

\* Fault: sorted by the stamp as it is, the oldest first.
FaultPrecedes(f, g) == f.stamp < g.stamp \/ (f.stamp = g.stamp /\ ListedBefore(f, g))

\* The newest come first; the sort is stable, and leaves files of one stamp as listed.
Precedes(f, g) == f.stamp > g.stamp \/ (f.stamp = g.stamp /\ ListedBefore(f, g))

Newest(files, amount) == {f \in files : Cardinality({g \in files : Precedes(g, f)}) < amount}

LastWeeks(now) == {Week(now) - k : k \in 0..(WeeklyWeeks - 1)}
LastMonths(now) == {Month(now) - k : k \in 0..(MonthlyMonths - 1)}

\* The first launch snapshot seen of every week, and of every month, that counts.
WeeklySurvivors(files, now) ==
    {f \in files : /\ Week(f.stamp) \in LastWeeks(now)
                   /\ \A g \in files : Precedes(g, f) => Week(g.stamp) # Week(f.stamp)}

MonthlySurvivors(files, now) ==
    {f \in files : /\ Month(f.stamp) \in LastMonths(now)
                   /\ \A g \in files : Precedes(g, f) => Month(g.stamp) # Month(f.stamp)}

Abandoned(files, now) == {f \in OfKind(files, "Partial") : now - f.stamp > AbandonedAge}

\* plan_retention.
Doomed(files, now) ==
    LET launch == OfKind(files, "Launch")
        pre == OfKind(files, "PreMigration")
        failed == OfKind(files, "Failed")
    IN  (launch \ (Newest(launch, RecentLaunches) \cup WeeklySurvivors(launch, now)
                     \cup MonthlySurvivors(launch, now)))
        \cup (pre \ Newest(pre, PreMigrationKept))
        \cup (failed \ Newest(failed, FailedKept))
        \cup Abandoned(files, now)
=============================================================================
