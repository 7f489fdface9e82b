----------------------------- MODULE FileImports ----------------------------
(* A user imports a broker's file that grows from export to export             *)
(* (backend/src/api/import.rs, import/core/writer.rs).  A commit reads, plans  *)
(* and asks for choices, and then writes in one transaction; between the two   *)
(* the user may set a conviction or delete a transaction elsewhere.            *)
(*                                                                             *)
(* ImportBatches has the races of several imports, each reading step by step,  *)
(* over rows that are given; here there is one import at a time, from the      *)
(* cells of the file to the instruments and rows they become.                  *)
EXTENDS ImportPlans

CONSTANTS FileLines,      \* [broker -> the lines a file may grow by]
          FileStarts,     \* [broker -> the lines before the first trade]
          LedgersBefore,  \* ledgers to start from: [instruments, entries]
          MaxFileTrades,      \* bound: trades in a file
          MaxSteps        \* bound: trades in the file and commits started, together

VARIABLES upload,         \* the file: [broker, lines]
          instruments, entries,
          lastEntry,      \* AUTOINCREMENT of transactions
          imports,        \* import_batches: a sequence of [broker, lines], none deleted
          job,            \* the commit between its reads and its transaction, or Blank
          answer,         \* how the last commit ended
          commits         \* how many there were

fileVars == <<upload, instruments, entries, lastEntry, imports, job, answer, commits>>

Broker == {"AVANZA", "SHARESIGHT"}

\* The cells of a trade, as far as they are numbers and days.
LineFits(line) ==
    line.is = "trade" =>
       /\ line.date \in Int \cup {Blank, Bad} /\ line.asset # Blank
       /\ {line.quantity, line.price, line.amount, line.fee, line.fx}
             \subseteq Exact \cup {Blank, Bad}

\* What the schema promises of the tables: their columns, rows that refer to an
\* instrument, and instruments told apart by their symbol and by their ISIN.
InstrumentsFit(table) ==
    /\ \A i \in DOMAIN table :
          table[i] = [exchange |-> table[i].exchange, symbol |-> table[i].symbol,
                      isin |-> table[i].isin, currency |-> table[i].currency,
                      conviction |-> table[i].conviction]
    /\ \A i, j \in DOMAIN table : i # j =>
          /\ ~(table[i].exchange = table[j].exchange /\ table[i].symbol = table[j].symbol)
          /\ table[i].isin # Blank => table[i].isin # table[j].isin
EntriesFit(table, instrumentIds) ==
    \A n \in DOMAIN table :
       LET row == table[n] IN
       /\ row = [StoredRow(row.instrument, row, row.batch) EXCEPT !.quantity = row.quantity]
       /\ row.instrument \in instrumentIds /\ row.kind \in Derived!Kind /\ row.date \in Int
       /\ row.kind # "Dividend" => row.quantity \in Int

ASSUME FileAssumption ==
    /\ \A b \in Broker :
          /\ FileStarts[b] \in Seq(Range(FileStarts[b]))
          /\ \A line \in Range(FileStarts[b]) \cup FileLines[b] : LineFits(line)
    /\ \A before \in LedgersBefore :
          /\ \E n \in {Cardinality(DOMAIN before.instruments)} :
                 n \in Nat /\ DOMAIN before.instruments = 1..n
          /\ \E n \in {Cardinality(DOMAIN before.entries)} :
                 n \in Nat /\ DOMAIN before.entries = 1..n
          /\ InstrumentsFit(before.instruments)
          /\ EntriesFit(before.entries, DOMAIN before.instruments)

FileInit == /\ upload \in {[broker |-> b, lines |-> FileStarts[b]] : b \in Broker}
            /\ \E before \in LedgersBefore :
                  /\ instruments = before.instruments /\ entries = before.entries
                  /\ imports = before.imports
                  /\ lastEntry = Cardinality(DOMAIN before.entries)
            /\ job = Blank /\ answer = "none" /\ commits = 0

-----------------------------------------------------------------------------
TradesInFile == Len(upload.lines) - Len(FileStarts[upload.broker])

\* The export of a later day.
Grow == /\ job = Blank
        /\ TradesInFile < MaxFileTrades /\ TradesInFile + commits < MaxSteps
        /\ \E line \in FileLines[upload.broker] :
              upload' = [upload EXCEPT !.lines = Append(@, line)]
        /\ answer' = "none"
        /\ UNCHANGED <<instruments, entries, lastEntry, imports, job, commits>>

UploadReads == TradeRows(upload.broker, upload.lines) # Bad
Uploaded == Outcomes(upload.broker, upload.lines)

Repeats == \E b \in DOMAIN imports : imports[b] = upload

\* Everything a commit reads, up to its transaction; else it is refused, and nothing
\* has changed.  `replaced` is the batch of a refresh, or Blank.
PlanCommit(outcomes, replaced, exclude, keep, clear, allow) ==
    LET kept == KeptRows(outcomes, exclude)
        stored == AlreadyImported(instruments, entries, outcomes, kept)
        new == kept \ stored
        protected == IF replaced = Blank THEN {} ELSE ProtectedIds(instruments, outcomes, stored)
        closing == ClosingConvicted(instruments, entries, outcomes, new, replaced, protected)
    IN  /\ ~PlanErrors(instruments, entries, outcomes, exclude, new)
        /\ replaced = Blank =>
              /\ Repeats => allow
              /\ ~(/\ new = {} /\ AlreadyImportedAssets(outcomes, kept, new) # {}
                   /\ ~(allow /\ Repeats))
        /\ ChoicesCover(instruments, closing, keep, clear)
        /\ job' = [outcomes |-> outcomes, replaced |-> replaced, kept |-> kept, new |-> new,
                   protected |-> protected,
                   released |-> {i \in closing : AssetKey(instruments[i]) \in clear},
                   chosen |-> closing, edited |-> FALSE]
        /\ answer' = "none" /\ commits' = commits + 1
        /\ UNCHANGED <<upload, instruments, entries, lastEntry, imports>>

\* The keys a user may be asked about.
Convicted == {AssetKey(instruments[i]) :
                 i \in {j \in DOMAIN instruments : instruments[j].conviction # "OTHER"}}

Replaceable == {b \in DOMAIN imports : imports[b].broker = "AVANZA"}

StartCommit ==
    /\ job = Blank /\ UploadReads /\ TradesInFile + commits < MaxSteps
    /\ \E outcomes \in {Uploaded} : \E exclude \in SUBSET KnownAssets(outcomes) :
       \E keep \in SUBSET Convicted : \E clear \in SUBSET Convicted :
       \E allow \in (IF Repeats THEN BOOLEAN ELSE {FALSE}) :
       \E replaced \in {Blank} \cup (IF upload.broker = "AVANZA" THEN Replaceable ELSE {}) :
          PlanCommit(outcomes, replaced, exclude, keep, clear, allow)

-----------------------------------------------------------------------------
(* The transactions.                                                           *)

\* The rows handed to the writer: the new ones, or for a refresh all that are kept.
Written == IF job.replaced = Blank THEN job.new ELSE job.kept

End(how) == job' = Blank /\ answer' = how /\ UNCHANGED commits

Refuse(how) == /\ End(how)
               /\ UNCHANGED <<upload, instruments, entries, lastEntry, imports>>

\* `insert` appended in file order with the next ids.
WithRows(table, outcomes, insert, idOf, batch) ==
    LET id(k) == lastEntry + Cardinality({j \in insert : j <= k}) IN
    [n \in DOMAIN table \cup {id(k) : k \in insert} |->
        IF n \in DOMAIN table THEN table[n]
        ELSE LET k == CHOOSE k \in insert : id(k) = n
             IN  StoredRow(idOf[outcomes[k].asset], outcomes[k].tx, batch)]

\* apply_conviction_to_other
Released(table, some) ==
    [i \in DOMAIN table |-> IF i \in some THEN [table[i] EXCEPT !.conviction = "OTHER"]
                            ELSE table[i]]

Derive(table, some) == \A i \in some : Derived!Derivable(Derived!LedgerFor(table, i))

Store(table, insert, idOf, log) ==
    /\ entries' = table
    /\ lastEntry' = lastEntry + Cardinality(insert)
    /\ instruments' = Released(AfterResolution(instruments, job.outcomes, Written, idOf),
                               job.released)
    /\ imports' = log
    /\ End("stored") /\ UNCHANGED upload

Resolved == Resolution(instruments, job.outcomes, Written)
Resolves(idOf) == \A a \in DOMAIN idOf : idOf[a] # Conflict

\* write_batch
WriteNewRows ==
    /\ job # Blank /\ job.replaced = Blank
    /\ \E idOf \in {Resolved} :
       IF ~Resolves(idOf) THEN Refuse("identity")
       ELSE \E table \in {WithRows(entries, job.outcomes, job.new, idOf, Len(imports) + 1)} :
            IF Derive(table, {idOf[a] : a \in DOMAIN idOf})
            THEN Store(table, job.new, idOf, Append(imports, upload))
            ELSE Refuse("ledger")

\* The lines the batch does not hold, and its rows that the lines do not match.
Surplus(idOf, own) ==
    LET row == [k \in job.kept |->
                   CanonicalRow(StoredRow(idOf[job.outcomes[k].asset], job.outcomes[k].tx, Blank))]
        old == [n \in own |-> CanonicalRow(entries[n])]
    IN  [insert |-> {k \in job.kept :
                        Cardinality({j \in job.kept : j <= k /\ row[j] = row[k]})
                          > Cardinality({n \in own : old[n] = row[k]})},
         drop |-> {n \in own :
                      /\ entries[n].instrument \notin job.protected
                      /\ Cardinality({m \in own : m <= n /\ old[m] = old[n]})
                           > Cardinality({k \in job.kept : row[k] = old[n]})}]

\* refresh_batch; the batch stays the latest, because there is one import at a time.
RefreshRows ==
    /\ job # Blank /\ job.replaced # Blank
    /\ IF \E b \in Replaceable : b > job.replaced THEN Refuse("newer")
       ELSE \E idOf \in {Resolved} :
            IF ~Resolves(idOf) THEN Refuse("identity")
            ELSE \E own \in {{n \in DOMAIN entries : entries[n].batch = job.replaced}} :
                 \E change \in {Surplus(idOf, own)} :
                 \E table \in {WithRows([n \in DOMAIN entries \ change.drop |-> entries[n]],
                                        job.outcomes, change.insert, idOf, job.replaced)} :
                 IF Derive(table, ({entries[n].instrument : n \in own}
                                   \cup {idOf[a] : a \in DOMAIN idOf}) \ job.protected)
                 THEN Store(table, change.insert, idOf, [imports EXCEPT ![job.replaced] = upload])
                 ELSE Refuse("ledger")

-----------------------------------------------------------------------------
(* Meanwhile, elsewhere.                                                       *)

\* PUT of a conviction.
SetConviction(i, conviction) ==
    /\ job # Blank /\ ~job.edited
    /\ instruments[i].conviction # conviction
    /\ instruments' = [instruments EXCEPT ![i].conviction = conviction]
    /\ job' = [job EXCEPT !.edited = TRUE]
    /\ UNCHANGED <<upload, entries, lastEntry, imports, answer, commits>>

\* DELETE of a transaction that leaves a ledger that derives.
DeleteRow(n) ==
    /\ job # Blank /\ ~job.edited
    /\ \E table \in {[m \in DOMAIN entries \ {n} |-> entries[m]]} :
          /\ Derive(table, {entries[n].instrument})
          /\ entries' = table
    /\ job' = [job EXCEPT !.edited = TRUE]
    /\ UNCHANGED <<upload, instruments, lastEntry, imports, answer, commits>>

FileNext ==
    \/ Grow \/ StartCommit \/ WriteNewRows \/ RefreshRows
    \/ \E i \in DOMAIN instruments : \E c \in {"OTHER", "HIGH"} : SetConviction(i, c)
    \/ \E n \in DOMAIN entries : DeleteRow(n)

FileSpec == FileInit /\ [][FileNext]_fileVars

-----------------------------------------------------------------------------
(* Properties.                                                                 *)

\* What an asset's mapped rows make a ledger of.
FileEntry(outcomes, k) == Derived!Entry(k, StoredRow(1, outcomes[k].tx, Blank))
FileLedger(outcomes, asset) ==
    {FileEntry(outcomes, k) : k \in {j \in DOMAIN outcomes : /\ outcomes[j].is = "mapped"
                                                           /\ outcomes[j].asset = asset}}

\* No fraction of a share is traded or split off, and a buy is of some shares.
TradesWhole(lines, isin) ==
    LET trades == {k \in DOMAIN lines : lines[k].is = "trade"} IN
    /\ \A k \in OfKind(lines, trades, {"Buy", "Sell"}, isin) : IsWhole(lines[k].quantity)
    /\ \A k \in OfKind(lines, trades, {"Buy"}, isin) : lines[k].quantity[1] > 0
    /\ \A k \in OfKind(lines, trades, {"Split"}, isin) :
          IsWhole(SplitNet(lines, SplitGroup(lines, trades, isin, lines[k].date)))

\* A dividend of Avanza whose file does not state the shares counts those the stored
\* ledger will hold at its place, for an asset that is imported whole, with no split the
\* same day and a ledger that derives; and where its rate or its amount per share is
\* worked out, the shares times both is the cash that was paid.
DividendsMatchTheLedger ==
    answer = "none" /\ job = Blank /\ upload.broker = "AVANZA" /\ UploadReads =>
    LET outcomes == Uploaded
        line(k) == upload.lines[outcomes[k].row]
        held(k) == FileLedger(outcomes, outcomes[k].asset)
    IN  \A k \in {j \in DOMAIN outcomes : outcomes[j].is = "mapped" /\ outcomes[j].tx.kind = "Dividend"} :
          LET tx == outcomes[k].tx IN
          /\ \/ line(k).quantity[1] > 0
             \/ ~TradesWhole(upload.lines, line(k).asset)
             \/ ~Derived!Derivable(held(k))
             \/ \E e \in held(k) : e.kind = "Split" /\ e.date = tx.date
             \/ tx.quantity = Derived!DerivePosition(
                                 {e \in held(k) : Derived!Before(e, FileEntry(outcomes, k))})
          /\ \/ Positive(line(k).price) /\ Positive(line(k).fx)
             \/ tx.fx = Blank
             \/ Positive(line(k).price) /\ line(k).currency = "SEK"
             \/ (Amount(tx.quantity) ** tx.perShare) ** tx.fx = Unsigned(line(k).amount)

\* The commit of an import that nobody overtook ends in this step.
Ends(how) == job # Blank /\ ~job.edited /\ job' = Blank /\ answer' = how

\* The instruments that a row may mean: one by its ISIN and one by its symbol.
Means(k) == {i \in DOMAIN instruments : Matches(instruments[i], job.outcomes[k].instrument)}
Contested(k) == \E i, j \in Means(k) : i # j

Inserted == DOMAIN entries' \ DOMAIN entries

\* A plan foresees its commit: each new row goes to the instrument it was compared
\* with, or to one that was not there, and never does the database refuse a ledger
\* that the plan derived.
PlanForeseesCommit ==
    [][/\ job # Blank /\ job.replaced = Blank /\ (\A k \in job.new : ~Contested(k)) => ~Ends("ledger")
       /\ Ends("stored") =>
             \A k \in job.new :
                LET i == FirstMatch(instruments, job.outcomes[k].instrument) IN
                \/ Contested(k)
                \/ \E n \in Inserted :
                   /\ \/ entries'[n].instrument = i
                      \/ i = Conflict /\ entries'[n].instrument \notin DOMAIN instruments
                   /\ LedgerFingerprint(entries'[n])
                        = ProposedFingerprint(entries'[n].instrument, job.outcomes[k].tx)
                   /\ job.replaced = Blank =>
                         entries'[n] = StoredRow(entries'[n].instrument, job.outcomes[k].tx,
                                                 entries'[n].batch)
      ]_fileVars

\* After a commit nobody overtook, the same rows of the same file are all stored.
SecondImportIsEmpty ==
    [][Ends("stored") =>
          {k \in job.kept : ~Contested(k)}
             \subseteq AlreadyImported(instruments', entries', job.outcomes, job.kept)]_fileVars

\* A conviction is cleared only by the user's choice; and an import nobody overtook
\* closes a convicted position only where it asked, unless a refresh stores a row more
\* often than its plan took it for new.
ConvictedClosingsAreChosen ==
    [][job # Blank /\ job' = Blank =>
       \A i \in DOMAIN instruments :
          /\ instruments'[i].conviction # instruments[i].conviction => i \in job.released
          /\ \/ job.edited \/ instruments[i].conviction = "OTHER" \/ i \in job.chosen
             \/ Shares(entries, RowsFor(entries, i)) <= 0
             \/ Shares(entries', RowsFor(entries', i)) > 0
             \/ \E k \in job.kept : Contested(k) /\ i \in Means(k)
             \/ job.replaced # Blank /\ instruments[i].isin = Blank
             \/ \E n \in Inserted :
                   /\ entries'[n].instrument = i
                   /\ Cardinality({m \in Inserted : entries'[m] = entries'[n]})
                        > Cardinality({k \in job.new :
                             StoredRow(i, job.outcomes[k].tx, entries'[n].batch) = entries'[n]})
      ]_fileVars

=============================================================================
