--------------------------- MODULE ImportBatches ----------------------------
(* Importing broker files into the ledger (backend/src/api/import.rs,          *)
(* import/core/plan.rs, import/core/writer.rs) beside the hand edits of        *)
(* LedgerWrites, which go on in the same table.                                *)
(*                                                                             *)
(* A commit plans from a ledger it read earlier: rows whose fingerprint is     *)
(* already stored are "already imported", the others are new.  An append then  *)
(* writes the new rows as one more batch; a refresh (Avanza only) turns an     *)
(* existing batch into the file; a rollback deletes a batch.  The writing is   *)
(* one transaction that re-derives the ledgers it affects; the planning, the   *)
(* duplicate check and the first look at the batch come before it.             *)
(*                                                                             *)
(* A file is here the sequence of bodies it maps to, and its instruments       *)
(* exist; how cells become bodies is in BrokerFiles, how instruments are found *)
(* and convicted positions kept in ImportPlans and FileImports.                *)
EXTENDS LedgerWrites, Sequences

CONSTANTS Importer,   \* import requests in flight
          File,       \* the files users hold; raw_file_hash is the file itself
          Content,    \* [File -> Seq(bodies)]: the rows a file maps to
          SourceOf,   \* [File -> {"AVANZA", "SHARESIGHT"}]
          MaxBatch    \* bound: the last batch id handed out

ASSUME ImportBounds == /\ MaxBatch \in Nat
                       /\ \A f \in File : \A k \in DOMAIN Content[f] :
                             /\ Content[f][k].instrument \in Instrument
                             /\ HasColumns(Content[f][k])
ASSUME FilesAreLists ==
    \A f \in File : Len(Content[f]) \in Nat /\ DOMAIN Content[f] = 1..Len(Content[f])

VARIABLES batches,    \* import_batches: id -> [source, file, how]
          lastBatch,  \* its AUTOINCREMENT high-water mark
          job,        \* what each importer is doing
          outdated    \* history: importers whose plan another write has overtaken

importVars == <<batches, lastBatch, job, outdated>>
allVars == <<vars, importVars>>

ImportInit == /\ rows = [n \in {} |-> n] /\ lastId = 0
              /\ instruments = Instrument /\ lastInst = Cardinality(Instrument)
              /\ req = [s \in Slot |-> NoRequest] /\ overtaken = {} /\ raced = {}
              /\ batches = [b \in {} |-> b]
              /\ lastBatch = 0
              /\ job = [s \in Importer |-> NoRequest]
              /\ outdated = {}

-----------------------------------------------------------------------------
(* Matching.  `canonical` is every column but the batch; the fingerprint also  *)
(* ignores the detail columns.                                                 *)

Canonical(row) == [instrument |-> row.instrument, date |-> row.date, kind |-> row.kind,
                   quantity |-> row.quantity, detail |-> row.detail]
Fingerprint(row) == [instrument |-> row.instrument, date |-> row.date,
                     kind |-> row.kind, quantity |-> row.quantity]

Line(f, k) == RowOf(Content[f][k], NoBatch)

\* The lines left when the assets the user deselected are dropped.
Mapped(f, exclude) == {k \in 1..Len(Content[f]) : Content[f][k].instrument \notin exclude}

\* Multiset matching in file order: the k-th line is matched while stored rows
\* with its key are left.
Matched(f, lines, key(_), table) ==
    {k \in lines : Cardinality({j \in lines : j <= k /\ key(Line(f, j)) = key(Line(f, k))})
                     <= Cardinality({n \in DOMAIN table : key(table[n]) = key(Line(f, k))})}

\* build_plan: the lines that are not stored yet.
NewLines(f, lines) == lines \ Matched(f, lines, Fingerprint, rows)

InstrumentsOf(f, lines) == {Content[f][k].instrument : k \in lines}

\* ledger_errors: each asset with new rows, derived with them under provisional
\* ids above every stored one; and field validation.
PlanFails(f, lines) ==
    \/ \E k \in lines : ~Validates(Content[f][k])
    \/ \E i \in InstrumentsOf(f, lines) :
          ~Derivable(LedgerFor(rows, i) \cup
                     {Entry(lastId + k, Line(f, k)) :
                         k \in {j \in lines : Content[f][j].instrument = i}})

\* compute_refresh_protected_instrument_ids: an asset with any line matched.
Protected(f, lines) == InstrumentsOf(f, lines \ NewLines(f, lines))

-----------------------------------------------------------------------------
Doing(s, op, at) == job[s] # NoRequest /\ job[s].op = op /\ job[s].at = at

Continue(s, j) == /\ job' = [job EXCEPT ![s] = j]
                  /\ UNCHANGED <<vars, batches, lastBatch, outdated>>

\* The commit is refused, fails, or its future is dropped: nothing is written.
Refuse(s) == /\ job' = [job EXCEPT ![s] = NoRequest]
             /\ outdated' = outdated \ {s}
             /\ UNCHANGED <<vars, batches, lastBatch>>

Planned == {z \in Importer : job[z] # NoRequest /\ job[z].op # "rollback"}

\* One committed import transaction: the new table, and who it overtakes.
Commit(s, table, last, touched, unchecked) ==
    /\ rows' = table
    /\ lastId' = last
    /\ overtaken' = overtaken \cup {z \in Slot : Checked(z) \cap touched # {}}
    /\ raced' = raced \cup unchecked
    /\ outdated' = (outdated \cup Planned) \ {s}
    /\ job' = [job EXCEPT ![s] = NoRequest]
    /\ UNCHANGED <<instruments, lastInst, req>>

\* Rows appended in file order with the next ids, under one batch id.
Appended(table, f, lines, b) ==
    LET idOf(k) == lastId + Cardinality({j \in lines : j <= k})
    IN  [n \in DOMAIN table \cup {idOf(k) : k \in lines} |->
            IF n \in DOMAIN table THEN table[n]
            ELSE LET k == CHOOSE k \in lines : idOf(k) = n
                 IN  RowOf(Content[f][k], b)]

AllDerive(table, some) == \A i \in some : Derivable(LedgerFor(table, i))

-----------------------------------------------------------------------------
(* Append: POST .../commit.                                                    *)

\* The upload, its parsing and its plan.  `new` is what the plan calls new and
\* `stored` says that some asset is imported already, wholly.
PlanAppend(s, f, exclude, allow) ==
    /\ job[s] = NoRequest
    /\ LET lines == Mapped(f, exclude)  new == NewLines(f, lines) IN
       /\ ~PlanFails(f, new)                       \* else 422, nothing changes
       /\ Continue(s, [op |-> "append", at |-> "dup", file |-> f, lines |-> lines,
                       allow |-> allow, new |-> new,
                       stored |-> (InstrumentsOf(f, lines) \ InstrumentsOf(f, new)) # {}])

FaultCheckDuplicate(s) ==   \* Fault: a repeat is refused only if nothing is new.
    /\ Doing(s, "append", "dup")
    /\ LET j == job[s]  dup == \E b \in DOMAIN batches : batches[b].file = j.file IN
       IF j.new = {} /\ ((dup /\ ~j.allow) \/ (j.stored /\ ~(j.allow /\ dup)))
       THEN Refuse(s) ELSE Continue(s, [j EXCEPT !.at = "write"])

\* duplicate_import unless allowed; nothing_to_import when all rows are stored.
CheckDuplicate(s) ==
    /\ Doing(s, "append", "dup")
    /\ LET j == job[s]  dup == \E b \in DOMAIN batches : batches[b].file = j.file IN
       IF \/ dup /\ ~j.allow
          \/ j.new = {} /\ j.stored /\ ~(j.allow /\ dup)
       THEN Refuse(s) ELSE Continue(s, [j EXCEPT !.at = "write"])

\* write_batch: one transaction.
WriteLines(s, lines) ==
    LET j == job[s]
        b == lastBatch + 1
        table == Appended(rows, j.file, lines, b)
        affected == InstrumentsOf(j.file, lines)
    IN  /\ lastBatch < MaxBatch /\ lastId + Cardinality(lines) <= MaxId
        /\ IF AllDerive(table, affected)
           THEN /\ Commit(s, table, lastId + Cardinality(lines), affected, {})
                /\ batches' = [c \in DOMAIN batches \cup {b} |->
                                 IF c \in DOMAIN batches THEN batches[c]
                                 ELSE [source |-> SourceOf[j.file], file |-> j.file,
                                       how |-> CASE j.allow -> "allowed"
                                                 [] ~j.allow /\ s \in outdated -> "raced"
                                                 [] OTHER -> "append"]]
                /\ lastBatch' = b
           ELSE Refuse(s)

FaultWriteBatch(s) ==       \* Fault: every mapped row is written, stored or not.
    Doing(s, "append", "write") /\ WriteLines(s, job[s].lines)

WriteBatch(s) == Doing(s, "append", "write") /\ WriteLines(s, job[s].new)

-----------------------------------------------------------------------------
(* Refresh: POST /import/avanza/commit?mode=replace&replace_batch_id=b.        *)

PlanRefresh(s, f, exclude, b) ==
    /\ job[s] = NoRequest
    /\ SourceOf[f] = "AVANZA"
    /\ LET lines == Mapped(f, exclude)  new == NewLines(f, lines) IN
       /\ ~PlanFails(f, new)
       /\ Continue(s, [op |-> "refresh", at |-> "look", file |-> f, lines |-> lines,
                       batch |-> b, new |-> new, keep |-> Protected(f, lines)])

Latest(b, source) == /\ b \in DOMAIN batches /\ batches[b].source = source
                     /\ \A c \in DOMAIN batches : batches[c].source = source => c <= b

\* refresh_batch's pre-check, on the pool.
LookForBatch(s) ==
    /\ Doing(s, "refresh", "look")
    /\ IF Latest(job[s].batch, "AVANZA")
       THEN Continue(s, [job[s] EXCEPT !.at = "write"]) ELSE Refuse(s)

BatchRows(b) == {n \in DOMAIN rows : rows[n].batch = b}

\* Old rows that no line of the file matches, oldest ids kept first; the rows of
\* protected instruments stay.
Unmatched(old, f, lines, keep) ==
    {n \in old :
        /\ rows[n].instrument \notin keep
        /\ Cardinality({m \in old : m <= n /\ Canonical(rows[m]) = Canonical(rows[n])})
             > Cardinality({k \in lines : Canonical(Line(f, k)) = Canonical(rows[n])})}

\* refresh_batch's transaction.  The protected instruments are not re-derived;
\* the plan derived them, without the lines it called already imported.
ReplaceRows(s, drop, insert) ==
    LET j == job[s]
        b == j.batch
        kept == [n \in DOMAIN rows \ drop |-> rows[n]]
        table == Appended(kept, j.file, insert, b)
        touched == {rows[n].instrument : n \in BatchRows(b)} \cup InstrumentsOf(j.file, j.lines)
        unplanned == IF s \in outdated THEN insert ELSE insert \ j.new
    IN  /\ lastId + Cardinality(insert) <= MaxId
        /\ IF AllDerive(table, touched \ j.keep)
           THEN /\ Commit(s, table, lastId + Cardinality(insert), touched,
                          InstrumentsOf(j.file, unplanned) \cap j.keep)
                /\ batches' = [batches EXCEPT ![b].file = j.file, ![b].how = "refresh"]
                /\ UNCHANGED lastBatch
           ELSE Refuse(s)

\* The lines no old row of the batch matches.
Missing(b, f, lines) ==
    lines \ Matched(f, lines, Canonical, [n \in BatchRows(b) |-> rows[n]])

FaultRefreshSurplus(s) ==   \* Fault: one old row matches any number of lines.
    /\ Doing(s, "refresh", "write")
    /\ IF Latest(job[s].batch, "AVANZA")
       THEN LET j == job[s]
                have == {Canonical(rows[n]) : n \in BatchRows(j.batch)} IN
            ReplaceRows(s, Unmatched(BatchRows(j.batch), j.file, j.lines, j.keep),
                        {k \in j.lines : Canonical(Line(j.file, k)) \notin have})
       ELSE Refuse(s)

FaultRefreshDrops(s) ==     \* Fault: protected instruments lose unmatched rows.
    /\ Doing(s, "refresh", "write")
    /\ IF Latest(job[s].batch, "AVANZA")
       THEN LET j == job[s] IN
            ReplaceRows(s, Unmatched(BatchRows(j.batch), j.file, j.lines, {}),
                        Missing(j.batch, j.file, j.lines))
       ELSE Refuse(s)

RefreshBatch(s) ==
    /\ Doing(s, "refresh", "write")
    /\ IF Latest(job[s].batch, "AVANZA")
       THEN LET j == job[s] IN
            ReplaceRows(s, Unmatched(BatchRows(j.batch), j.file, j.lines, j.keep),
                        Missing(j.batch, j.file, j.lines))
       ELSE Refuse(s)

-----------------------------------------------------------------------------
(* Rollback: DELETE /import/batches/b.                                         *)

StartRollback(s, b) ==
    /\ job[s] = NoRequest
    /\ b \in DOMAIN batches                      \* import_batches::find, else 404
    /\ Continue(s, [op |-> "rollback", at |-> "write", batch |-> b])

FaultRollback(s) ==         \* Fault: what remains is not re-derived.
    /\ Doing(s, "rollback", "write")
    /\ LET b == job[s].batch
           table == [n \in DOMAIN rows \ BatchRows(b) |-> rows[n]] IN
       IF b \in DOMAIN batches
       THEN /\ Commit(s, table, lastId, {rows[n].instrument : n \in BatchRows(b)}, {})
            /\ batches' = [c \in DOMAIN batches \ {b} |-> batches[c]]
            /\ UNCHANGED lastBatch
       ELSE Refuse(s)

Rollback(s) ==
    /\ Doing(s, "rollback", "write")
    /\ LET b == job[s].batch
           table == [n \in DOMAIN rows \ BatchRows(b) |-> rows[n]]
           affected == {rows[n].instrument : n \in BatchRows(b)} IN
       IF b \in DOMAIN batches /\ AllDerive(table, affected)
       THEN /\ Commit(s, table, lastId, affected, {})
            /\ batches' = [c \in DOMAIN batches \ {b} |-> batches[c]]
            /\ UNCHANGED lastBatch
       ELSE Refuse(s)

DropImport(s) == job[s] # NoRequest /\ Refuse(s)

-----------------------------------------------------------------------------
ImportStep(s) ==
    \/ \E f \in File : \E exclude \in SUBSET InstrumentsOf(f, DOMAIN Content[f]) :
          \/ \E allow \in BOOLEAN : PlanAppend(s, f, exclude, allow)
          \/ \E b \in 1..lastBatch : PlanRefresh(s, f, exclude, b)
    \/ \E b \in 1..lastBatch : StartRollback(s, b)
    \/ CheckDuplicate(s) \/ WriteBatch(s) \/ LookForBatch(s) \/ RefreshBatch(s)
    \/ Rollback(s) \/ DropImport(s)

EditStep(s) == /\ Step(s)
               /\ outdated' = IF rows' = rows THEN outdated ELSE outdated \cup Planned
               /\ UNCHANGED <<batches, lastBatch, job>>

ImportNext == \/ \E s \in Importer : ImportStep(s)
              \/ \E s \in Slot : EditStep(s)

ImportSpec == ImportInit /\ [][ImportNext]_allVars

-----------------------------------------------------------------------------
(* Properties.                                                                 *)

\* The files of two live batches differ unless the user allowed the repeat, a refresh
\* brought it, or another import committed between this one's plan and its write (the
\* promise of duplicate_import).
RepeatsAreAllowed ==
    \A b, c \in DOMAIN batches :
        b < c /\ batches[b].file = batches[c].file => batches[c].how # "append"

Count(table, key(_), value) == Cardinality({n \in DOMAIN table : key(table[n]) = value})
Lines(f, lines, key(_), value) == Cardinality({k \in lines : key(Line(f, k)) = value})

\* s commits its import in this step (a commit that changes nothing is not told
\* from a refusal, and needs no promise).
Commits(s, op) == /\ Doing(s, op, "write") /\ job'[s] = NoRequest
                  /\ rows' # rows \/ batches' # batches

\* An append nobody overtook completes the ledger to the file: of each trade
\* afterwards as many rows as the ledger or the file held, whichever is more.
\* Neither a trade the file repeats is lost nor a stored one written again.
AppendCompletesFile ==
    [][\A s \in Importer \ outdated : Commits(s, "append") =>
          \A k \in job[s].lines :
             LET v == Fingerprint(Line(job[s].file, k))
                 before == Count(rows, Fingerprint, v)
                 wanted == Lines(job[s].file, job[s].lines, Fingerprint, v)
             IN  Count(rows', Fingerprint, v) = IF before > wanted THEN before ELSE wanted
      ]_allVars

\* A refresh merges the file into the batch as multisets of equal rows: of the
\* batch's rows as many stay, under their ids, as the file has (all of them where
\* the instrument is protected), and the rest of the file is added.
RefreshMergesTheFile ==
    [][\A s \in Importer : Commits(s, "refresh") =>
          LET j == job[s]
              own(table) == [n \in {m \in DOMAIN table : table[m].batch = j.batch} |-> table[n]]
              keys == {Canonical(rows[n]) : n \in BatchRows(j.batch)}
                      \cup {Canonical(Line(j.file, k)) : k \in j.lines}
          IN  \A v \in keys :
                LET old == {n \in BatchRows(j.batch) : Canonical(rows[n]) = v}
                    wanted == Lines(j.file, j.lines, Canonical, v)
                    stay == IF v.instrument \in j.keep \/ Cardinality(old) < wanted
                            THEN Cardinality(old) ELSE wanted
                IN  /\ Cardinality(old \cap DOMAIN rows') = stay
                    /\ Count(own(rows'), Canonical, v)
                         = IF wanted < stay THEN stay ELSE wanted
      ]_allVars

\* A stored row changes or goes only by a hand edit or with the batch it belongs
\* to; a refresh never takes a row of an instrument it protects.
ImportsTouchOnlyTheirBatch ==
    [][\A s \in Importer : job'[s] # job[s] =>
          \A n \in DOMAIN rows :
             \/ n \in DOMAIN rows' /\ rows'[n] = rows[n]
             \/ /\ job[s].op \in {"refresh", "rollback"} /\ rows[n].batch = job[s].batch
                /\ job[s].op = "refresh" => rows[n].instrument \notin job[s].keep
      ]_allVars

=============================================================================
