# TickerTapeTallyBoard: a TLA+ model

TickerTapeTallyBoard keeps a stock ledger in one SQLite file.  A Rust backend
(`src/backend`) serves it over HTTP, a React frontend (`src/frontend`) shows it, and
a Tauri shell (`src/desktop`) runs both in one window.  Several backend processes may
have the same ledger file open, each serves many requests at once, and any request may
be dropped at an await when its client goes away.  The model is about what that does to
the ledger, to the shared refresh lease, to imports and to what a tab shows.

Everything is translated from the code.  `PROJECT.json` maps each definition to its
lines, lists the components, the hazards, the runs, the mutants and the theorems.

## 1. Inventory

| Part | State it keeps | Operations | Hard behaviour | What makes it correct |
|---|---|---|---|---|
| Refresh lease (`db/market_data_runs.rs`, `market_data/refresh.rs`) | run table, heartbeat, local loss flag | claim, take over, heartbeat, finish, cancel | several processes, crash, dropped request, clock set back | one running row; an ended row stays ended; a superseded run writes nothing |
| Refresh execution (`refresh_execution.rs`, `price_source_refresh.rs`, `fx_refresh.rs`, `symbol_seeding.rs`) | prices, rates, symbol mappings | seed, store a source, store a rate | partial failure, long provider calls | SUCCEEDED means everything was stored |
| Data revision (`data_revision.rs`, the layer in `api/mod.rs`) | one persisted counter | bump after a mutation | a write whose bump never comes | every write is announced |
| Manual writes (`api/transactions.rs`, `db/transactions.rs`) | transactions | create, replace, remove | check and write are separate statements | every ledger derives |
| Position derivation (`domain/position.rs`, `domain/transaction.rs`) | none | validate, fold | same-day order, splits | never oversold |
| Instruments (`api/instruments.rs`) | instruments, ISIN, conviction | upsert, remove, set conviction | removal beside a create | rows have instruments |
| Imports (`api/import.rs`, `import/core`) | batches | preview, append, refresh, rollback | plan and write are apart; two ways to match a row | a file is stored once; a refresh makes a batch the file |
| Data version and stamped reads (`api/data_version.rs` and the read handlers) | none | read revision, date and claim | three reads, three moments | a response is never cached as newer than it is |
| Frontend data layer (`queries.ts`, `dataVersion.ts`) | query cache | heartbeat, versioned fetch | late answers | stale data is refetched |
| Provider symbols (`provider_symbols.rs`, `symbol_seeding.rs`, `price_source_refresh.rs`) | mappings, closes | seed, search, fetch, recover, disable, edit | edit beside a refresh; a write back from an old snapshot | the user's choices stay; closes are in the instrument's currency |
| Rebalance planner (`domain/rebalance.rs`, `conviction.rs`) | none | select, share the offset, round, repair, report | loops that must end, rounding, ties, what earlier passes marked | no sale of what is not held, no trade past its target; gaps, coverage and reasons are true |
| Rebalance page (`RebalancePage.tsx`, `rebalanceViewModel.ts`) | reducer, local storage | type, commit, rank, slide, leave | plans that stand in for others, shrink or fail | it opens with what it showed |
| Price and FX resolution, valuation, performance (`domain`, `market_data/effective_prices.rs`, `api/gains.rs`, ...) | none | pure functions | unknown inputs, splits, several queries for one figure | gains are the money that moved; reports agree |
| Broker files (`import/avanza`, `import/sharesight`) | none | parse, map | missing cells worked out from others | a dividend counts the shares the ledger will hold |
| Ledger open, backup, retention (`ledger`) | snapshot files | open, snapshot, migrate, prune | two launches, crash between steps | no migration without its snapshot |
| Runtime log (`engine_logging.rs`) | log files | append, rotate | two processes, one file | no record lost |
| Desktop shell (`src/desktop`) | lifecycle, panic report, probe | start, request, close, probe | panics in any phase, tasks that go on | the ledger is closed before anybody is told |
| Import page (`ImportView.tsx`) | reducer, file bytes | choose, preview, decide, commit, undo | calls that end late | a commit sends what the page showed |
| HTTP layers, provider wire formats, demo mode, other pages, scripts | none that matters here | translation | none concurrent | tests |

How they interact: every mutating request passes `data_revision_layer`, which bumps the
revision after the handler.  Manual writes and imports share the `transactions` table and
its derivation rule.  A refresh reads instruments and mappings, calls providers outside any
transaction, and writes through `fenced_write`, which looks for its own RUNNING row in the
same transaction.  The frontend polls the data version and drops what is older.

Hazards are in `PROJECT.json`, each at its line with the properties that would catch it.

## 2. Modules

| Module | What it is |
|---|---|
| `RefreshLease` | the run table and the refreshes of several processes, one action per storage transaction or await |
| `ExclusiveRuns` | what the lease promises: exclusive runs, ended once, announced when ended by others |
| `RefreshHeartbeat` | `RefreshLease` with a note of whether every heartbeat and every end was on time |
| `LedgerRows` | rows, validation, order and the fold that derives a position; operators only |
| `LedgerWrites` | create, replace and remove, statement by statement, and instruments |
| `ImportBatches` | append, refresh and rollback, composed with the edits of `LedgerWrites` on one table |
| `BrokerFiles` | what a line of a broker's file becomes; operators only |
| `ImportPlans` | fingerprints, instruments, the conviction guard; operators only |
| `FileImports` | a file that grows from export to export is imported, appended or refreshed |
| `DataVersion` | the revision counter, the handlers that read and stamp, and the versioned queries of a tab |
| `ProviderSymbols` | the price sources of one instrument, two refreshes and the user; with `ProviderAnswers` and `SymbolMatching`, operators only |
| `RebalanceRungs` | one rung of the rebalance ladder, a step per pass of each loop |
| `RungReports` | what is reported of a rung, and what the page says of it; operators only, over the variables of `RebalanceRungs` |
| `RebalancePage` | the page that shows the ladder, and what the browser keeps of it, against any server |
| `ExactAmounts`, `CostBasis`, `PriceSeries`, `PeriodReturns`, `HoldingValues` | fractions, positions, prices and rates, returns, values; operators only |
| `PortfolioReports` | a book is filled trade by trade, and what each report answers about it |
| `PortfolioFigures` | what the reports have to do with the trades and with each other |
| `LedgerLaunch` | processes open, save, migrate and prune one ledger; with `LaunchConfig` and `SnapshotRetention`, operators only |
| `RuntimeLog` | processes append to one log and rotate it |
| `DesktopShell` | the desktop application from its start to its end, and the probe of its WebView |
| `ImportView` | the page a user imports a file with, against any server |
| `RefreshLeaseProofs`, `DataVersionProofs`, `ProviderSymbolsProofs`, `FileImportsProofs` | theorems about the module of the name; the first also about `RefreshHeartbeat` |
| `DesktopProofs` | theorems about `DesktopShell`, `ImportView`, `RuntimeLog` and `LedgerLaunch` |
| `CalculationProofs` | theorems about `PortfolioFigures`, `RebalanceRungs`, `RungReports` and `RebalancePage` |
| `SetsAndAmounts` | lemmas that several proofs need: sums over sets, places in an order, and the arithmetic of fractions in lowest terms |
| `LedgerProofs` | theorems about `LedgerWrites` and `ImportBatches`, and about the fold of `LedgerRows` |
| `MC...` | small instances for TLC; `MCCalculations`, `MCProviderSymbols` and `MCLaunch` hold several parts with no state in common, one of which runs at a time |

### Refresh lease

`status`, `owner` and `age` are the columns of `market_data_refresh_runs`; `price` is the
run whose value each source or currency holds; `unseen` is the set of runs that wrote since
the revision was last bumped.  A *flight* is a place in a process where one refresh can be;
`pc` is the await it stands at.  `Claim` is `try_claim_run`, `Heartbeat` the renewal task,
`StoreItem` and `PersistMapping` are fenced writes.  A refresh ends in three steps: `Conclude`
settles the outcome, `StopHeartbeat` aborts the renewal task and waits for it, and `FinishRun`
ends the row; until the wait is over the task may still renew the row or find it gone.  `Drop`
is the drop of the handler's future, after which the spawned `CancelRun` may run, fail, or
be lost with its process.  `Tick` and `ClockStepsBack` move the wall clock, on which
staleness depends.

Values are abstracted to the run that stored them, and the search that matches symbols and
the choice of dates to whether it changed a mapping or failed.  The code calls a run failed that
wrote no row; here an item that did not fail wrote one, so that is a run whose items all failed.

### Ledger writes

`rows` is the table, `req[s]` what the request in slot `s` has read and passed so far.
`CheckCreate`, `CheckReplace` and `CheckOld` are the calls of `assert_ledger_valid`;
`Insert`, `Update` and `Erase` are single autocommitted statements.  No transaction spans
a check and a write in the code, so none does here.  Prices decide no write and are left
out.  Two history variables say who was overtaken: `overtaken` holds the slots one of whose
checked ledgers was written since, `raced` the instruments such a slot then wrote.

### Imports

A file is a sequence of bodies.  `PlanAppend` and `PlanRefresh` read the ledger and split
its lines into new and already imported, by the *fingerprint*, which ignores fee, rate and
note (`detail`).  `WriteBatch` writes the new lines.  `RefreshBatch` compares the batch with
all lines by the *canonical* key, which does not ignore them; it keeps, deletes and inserts,
and leaves the *protected* instruments out of the deletion and of the re-derivation.
`outdated` holds importers whose plan another write has overtaken.  `how` in a batch is
history: whether the last write of it was an append, an allowed duplicate or a refresh.

The plan reads one ledger per instrument, which is one action here: each instrument is
planned from its own ledger alone, and a write between two of those reads is either before
or after the only ledger it touches.  Transactions of SQLite serialize or fail; a failing
one is `DropImport`.

`BrokerFiles`, `ImportPlans` and `FileImports` add what `ImportBatches` takes as given.  A
file is a sequence of lines whose cells are read already: a number is an exact fraction, a
cell that cannot be read is `Bad`, an empty one `Blank`.  `Outcomes` says what each row
becomes; `FirstMatch` and the other rules of `writer.rs` and `plan.rs` say which instrument
it is for, by ISIN or by listing, and what is created or filled in; the conviction guard says
which positions need a choice.  `Grow` is the export of a later day, `PlanCommit` everything
a commit reads, `Append` and `Refresh` its transaction.  There is one import at a time, and
between its reads and its transaction the user may set a conviction or delete a row.  Left
out: notes, warnings and counts, upper and lower case, the value a broker states for a
trade, and the overflow of a share count.  No input has an Avanza trade without an ISIN:
all of those would share one instrument.

### Data version

`stored[t]` counts the changes of a table, `counter` is `data_revision.counter`, and the
history `announced[r]` is what was stored when revision `r` was bumped.  A mutating request
runs, commits any number of times, and is announced by `data_revision_layer` or not: by a
client error, a bump that failed, a dropped future or a crash.  `Restart` bumps, as
`build_state` does.

A request of a panel is a record in `fetches`: the token it was asked under, the queries of
its handler done so far with what each saw, and the stamp.  `Reads` gives each handler's
queries in order; `HandlerReads` collects them from the code.  Each query is an action,
because each runs on the pool and sees what is committed at its own moment.  `shown[p]` is
the answer a panel shows, which stays while the next is fetched (`keepPreviousData`); the
cache under older tokens is left out, since no version comes back
(`VersionsNeverGoBack`) and so no older key is looked at again.

The query library is external: one request per key, a failed attempt is repeated up to
`Retries` times, an invalidation cancels the request and repeats it, a late answer is kept
under its own key.  `prices_refreshing` chooses only how often the version is polled.  Other
processes on the same ledger act on it as further writers do.  The backend's clock does not
go back here.

### Rebalance rungs

`RebalanceRungs` builds one rung: `Select` and `RaiseMore` are `select_indices_for_rung`,
`FixViolators` a pass of the loop in `redistribute_selected` and `EndSharing` its exit,
`Round` and `Repair` are `resolve_quantities`.  Amounts are integers: everything is counted in
units of the total weight, so a target `pool * weight / total` is exact, and a share in units
of the weight it was last divided by.  Rust's `Decimal` rounds such quotients at 28 digits and
lets the last target absorb the remainder; the model has no such remainder.  Candidates are
what `assemble_candidates` lets through: a conviction level, a price, and a value that is what
is held at that price.  Targets are then positive, so the branches for other targets are left out.

`RungReports` is `build_rung` after the quantities are found: `Report` has the gap of each
candidate before and after its trade, the band of either, coverage, the candidates that are
traded and the reasons for those that are not.  A gap here is the value above the target, as
it is reported, where `IdealDelta` is its negative.  `TradeRowsMessage` is the page's sentence
when there is no trade, and `FlipsSide` its warning.

### Rebalance page

`page` is the reducer's state while the page is open, `kept` what local storage has of it.
`plan` is what the query returns: the number of rungs of a ladder, 0 for one that is
unavailable, or nothing.  React shows a page, runs its effects and shows it again; `Render` is
all of that: the effect that dispatches `planChanged` changes nothing the second time, and the
one that saves ends with the state that is shown.  The query library is external: while the
answer to a new question is awaited, `lastPlan` stands in (`keepPreviousData`), an answer may
be in the cache, and a query that failed without an answer of its own has none.  Which plan
answers which question is left to any server, so every plan may come at every moment.  Storage
is taken to work and to be changed by this page only.

### Provider symbols

One instrument and its mappings; two refreshes, one of which may hold the lease of the other
by then; the user, who puts a mapping or deletes the instrument.  A refresh seeds, searches,
fetches, recovers a renamed symbol, stores closes and disables a source, one action for each
storage transaction or provider answer, and each write is fenced by the lease but not by the
mapping it was decided from.  Whether a refresh is one of the latest closes or a backfill decides
only if the instrument is a target (`Targeted`); one that is none is passed over (`Skip`).
Seeding and recovery search by ISIN and then by name, and the hits of both are matched together
(`Finds`).  The program registers a client for each provider it has a source for, so an unregistered
one is left to the outcome it shares with a provider that cannot be reached.  `ProviderAnswers` reduces an HTTP answer to what decides
between closes, nothing, and each reason for failure.

### Reports

A book is two instruments, their trades, the closes of each source, and rates; days are
numbers.  Amounts are exact fractions, where the code rounds at 28 digits.  A figure is a
value or a set of reasons, as `Availability` is.  Three observations that the operators keep
as the code has them: a trade in kronor without a rate makes a cost basis unknown while the
period amounts take the rate as one; buys of a period are scaled by the splits after it and
sells are not (section 5); a gain of a closed position falls back to the gain alone when its
income is unknown, one of an open position becomes unknown.  Two more bound what the totals of
a report may be compared with, and make the condition `Ordinary` of `ReturnsAreMoney`: the rate
of a trade in kronor counts in cost basis and realized gains (`position.rs`) and is ignored by
the period amounts, so the two differ if one was stored that is not one; and a sale whose fee
exceeds its proceeds is a positive flow, which the simple percentage counts as money put in
(`gains/performance.rs:187`).  Branches that no input reaches
(`IncomeInput::NotTracked`) are left out.

### Launch, log and desktop shell

`LedgerLaunch` has an action per call to the file system or the database; any may fail, and a
process may stop between any two.  A name is reserved by creating its `.partial`, and the check
for the finished file is a step of its own; two launches with the same stamp can therefore still
replace each other's finished copy (`backup.rs:152`), which the history `replaced` notes.  A
launch slow enough that another one prunes its `.partial` as abandoned is noted by `lost`.
Copies of one stamp are ranked as the directory lists them, since the sort is stable
(`retention.rs:119`): `Listed` is any order, with the assumption that two listings agree on it.
`LedgersStayRecoverable` exempts both, and more launches at one time than pre-migration copies
are kept (section 5).  A schema is the number of migrations applied.  `RuntimeLog` has the steps
of a write: look whether the handle is still the live file, weigh, rotate under the lock,
append.  The lock excludes another process only where the platform makes it do so (Windows); a
failed rotation may already have dropped the oldest archive; at least one archive is kept.

`DesktopShell` has the main thread, the requests of its window, the launch refresh, the page
of the probe and its watchdog.  A panic can come from building the application, the window,
the set-up hook and the loop, and closing is taken not to panic.  The set-up hook runs when
the loop starts, as Tauri does it.  The watchdog's time is abstracted: it may wake at any
moment.  Which panic the dialog names is not promised by the code: a later one replaces it.

### Import page

`ImportView` has a variable for each field of the reducer's state that decides anything, the
bytes of the chosen file, and `pending`, the calls that have not come back with what their
closures captured.  `Busy` is `isBusy`; an action is enabled when its control is.  The
server is any server: a preview is any that its types allow, and every call may fail after it
took effect.  Texts and the result of a commit are left out.

### What every module assumes of SQLite

A statement is atomic and sees a committed state; transactions serialize or fail as a whole;
`AUTOINCREMENT` ids are never reused; foreign keys are enforced.

## 3. Runs

| Run | Question |
|---|---|
| `lease_safety` | are rows, answers, stored values and announcements consistent with a crash, storage errors and a clock set back; does a superseded run ever write; does the lease implement `ExclusiveRuns`? |
| `lease_live` | is a refresh whose heartbeats are on time ever taken over; are orphaned rows recovered, and do refreshes end, the wait for the heartbeat task included? |
| `lease_hidden` | violated: can a dropped request hide its writes? |
| `ledger_two` | two requests: is being overtaken the only way to break a ledger or to hold less than nothing; do rows keep their instruments? |
| `imports_crews` | two imports that overlap, or one beside a hand edit: does each touch only its batch, does an append store just what is missing, does a refresh merge its file, are repeats refused, do only overtaken or unplanned writes break a ledger? |
| `imports_underived` | violated: does a refresh leave every ledger derivable? |
| `calculations` | for every small pool: does the selection serve the offset, do shares add up to it, do trades respect targets and holdings, does each loop end within its asserted bound; do the reported gaps add up to the residual, is coverage a percentage, are the reasons true, and who falls back to ideal deltas?  For every small book: are gains the money that moved, is unknown what has unknown inputs, do the reports agree?  For every small file and ledger: does the plan foresee the commit, does a second import add nothing, are dividends counted as the ledger will have it, is a convicted position closed only where asked? |
| `flows` | violated: do the cash flows of a period agree with its amounts? |
| `symbols` | are stored closes in the instrument's currency, do reports come true, do the user's choices stay?  And, beside the sources: does the rebalance page open with what it showed, is what it keeps first the whole ladder, does only the slider or a shorter ladder move the rung that is kept? |
| `launch` | is a migrated ledger saved in a copy that is whole; do recent snapshots stay; does the log keep its records; does every end of the desktop application close the ledger first and tell the truth; does a commit send what the import page showed, and does a busy page wait for one call? |
| `version_shown` | does an answer hold what its version announced, does its stamp bound it, do versions only move on, is announced data shown in the end? |
| `version_panels` | violated: do panels that show one revision show one snapshot? |

`ledger_two` contains every execution with one request at a time; in those nobody is
overtaken, so `LedgersStaySound` says there what the code promises.  `RepeatsAreAllowed`
exempts an import that another one overtook: the check for a duplicate runs before the
transaction, so two commits of one file in flight can both pass it.
`ConvictedClosingsAreChosen` exempts imports overtaken by an edit, and the rows that a
refresh stores although its plan took them for stored ones (section 5, 3).
`RefreshesKeepChoices` exempts a mapping that the user stores after a refresh has looked: the
refresh stores what it found over it (`price_source_refresh.rs:192`), and no comment promises otherwise.

Each property of a passing run has a mutant, a plausible bug written beside the definition
it replaces (`Fault...`, or a name saying what it forgets), under which the run fails.

### Bounds

- Lease: two processes with one refresh each, one price source and at most one currency,
  two runs, one crash.  A row involves its owner and whoever ends it; a third process could
  only do what the second does, and the theorems hold for any number.  `StaleAfter = 1` tick
  suffices where heartbeats may come at any time; in `lease_live`, where they come every tick,
  it is three.
- Ledger: two instruments, because a replace moves a row between two; two days, because
  order matters within and between days; three row ids, which hold a buy, what depends on it
  and what races it.  `ProspectiveId` is above every id, as `i64::MAX` is.
- Imports: two batches, because *latest* needs two; three row ids, because a history of two
  rows refreshed with a correction needs a third (AUTOINCREMENT never reuses one).  The
  files hold a history, one trade twice, and the other broker's; a correction of a fee
  comes from the hand edit or, in `imports_underived`, from a second file.  One instrument
  in the passing runs, as each is planned and derived alone; two in `imports_underived`.

- Data version: one panel in `version_shown`, because panels touch each other only through
  the recheck, which any mutation also causes; one request at a time, because overlapping
  requests add only late answers, which the proofs cover for any number; one table, because
  each is judged by itself.  Three revisions and one crash let an announcement, a commit that
  nobody announced and a restart fall into one request.  `version_panels` needs two panels and
  an import that changes two tables at once.  No request begins, and the process does not
  stop, when no revision is left for it.

- Rebalance: three candidates are the least at which a swap has a choice on both sides and a
  fixed share changes two others.  Prices 2 and 7 have no common divisor and differ by more
  than a factor of two, so residuals cross zero.  The offsets reach from below what can be
  raised to more than the pool; a third price and pools of four were run with the same result.
- Page: ladders of one to four rungs shrink and grow below and above a chosen rung; three
  amounts tell the kept one, the committed one and the typed one apart.
- Reports: three trades are a purchase, what changes its basis and a sale; three days with a
  weekend between them have a day before, within and after a period, and gaps to carry over.
  Two sources, one of which may not be enabled, let the choice among them matter.
- Files: three trades in a file, and four of trades and commits together, so that a file is
  imported, grows and is imported again; three trades with two commits were run with the same
  result.  The ledgers before hold what earlier exports, other listings and hand edits leave.
- Symbols: two refreshes and one edit; a refresh overlaps only with the one that took its
  lease.  Four listings, each with the mappings it can have; instruments that are held, only
  wanted, or sold again.
- Launch: two processes, three launches, one failure, two migrations, two copies of one stamp.
  Copies of the first day are listed in the order they were made, those of the next in reverse.
  Log: two writers, two archives, files of three bytes and records of one or two.
  Shell: two requests, two cases.
  Import page: two files, two assets; there is no bound on how often they are chosen.

`CHECK_DEADLOCK FALSE` is set where nothing has to happen: users stop asking, or the ids of
the instance are used up.

### Fairness

`RefreshLease`, `DataVersion` and `RebalanceRungs` have liveness.  A rung is computed by one
thread that goes on, so all its steps are weakly fair.  In `RefreshLease`, awaits complete:
provider calls have timeouts, storage calls return or fail, and the runtime polls spawned tasks,
so executing, stopping the heartbeat task, finishing, answering and cleaning up are weakly fair;
the wait for an aborted task ends at its next await.  So are the clock and the
restart of a stopped process.  Claims are strongly fair: refreshes keep being asked for, by
users and at each start, and one of them meets a moment at which the stale row may be taken
over, although claims are not enabled all the time.  Heartbeats, drops, crashes and storage
errors have no fairness: a cleanup that keeps failing is covered by the takeover.  Note that the
claim also needs room in the bounded run table, which `OrphansAreRecovered` says.

In `DataVersion` a stopped process is started again, the poll timer fires while the tab is
visible, an enabled query that lacks an answer is asked, and a request goes on: weakly fair.
The steps of a poll are strongly fair, since attempts fail and invalidations cancel them, but
one gets through now and then: attempts do not fail for ever while polls are repeated.
That a tab becomes visible again, and that everything stored is announced, is not assumed
but the premise of `AnnouncedDataIsShown`; a panel whose attempts all failed may say so instead.

## 4. Proofs

**Lease** (`RefreshLeaseProofs`), for any processes, flights, sources, currencies and bounds.
`AtMostOneRunning` alone is not inductive: a claim inserts a row only after ending the row it
saw, so one has to know that the row it saw is the only one.  The strengthening is
`RowsInOrder` (ids are handed out in order; only the newest row may run; nothing refers to a
row that does not exist) with `StoredSoFar` (an item neither left nor failed holds this run's
value).  Each step is first shown to have one of a few footprints: `LedgerMove` on the ledger
file and `FlightMove` on a refresh.  The invariants and the refinement are then proved from
the footprints, not from some thirty actions each.

Proved: `TypeCorrect`, `OneRunning`, `EndedStay`, `LateWritesRefused`, `CleanupsAnnounce`,
`AnswersMatch`, `SucceededStored`, and `Refinement` (`Spec => ImplementsExclusiveRuns`).
They rest on `HostAssumption`, `ItemAssumption`, `BoundAssumption` and `NoneAssumption`.

*Timing*: `HoldersKeep`, for every heartbeat interval and every longest end that together fit
into `StaleAfter` (an assumption of the theorem: 30 s and the two waits of the end, for the
heartbeat task and for the ledger, against the
120 s of `REFRESH_CLAIM_STALE_AFTER`).  The invariant says how old a row can be at each place of
its refresh (`HoldersRenew`), that no two refreshes share a run (`RunsAreOwn`), and that a
cleanup comes only after its refresh is gone (`CleanupsAreLate`).

**Ledger** (`LedgerProofs`), for any slots, bodies, instruments and ids: `LedgerTypeCorrect`,
`RowsKeepInstruments`, `OnlyRacesBreak` and `LedgersSound`.  The types are not inductive alone,
since the instrument a request remembers of a row is an instrument only because rows have one.
That a ledger derives needs to be known before the write: `FindingsHold` says of each request
that nobody overtook that what it checked still derives.  A check is made under
`ProspectiveId`, a write under the next id, so the proof needs that the fold sees only the
order of entries, not their ids.  The fold is a function over sets of rows, which no induction
theorem of the library reaches here; each fact about it is proved by taking a smallest
set of rows without it.  So `DeriveStep` takes off the last entry, `SameOrder` derives equal
ledgers in the same order alike, and `NextIdDerives` joins check and write.  `DerivableIsSound`
relates the fold to the sum that a reader would compute: what derives was never short.  They rest
on `WriteBounds`, `BodyColumns` and `ProspectiveIdAssumption`.

**Imports** (`LedgerProofs`), for any importers and files beside any hand edits:
`OnlyUncheckedBreak`, `AppendsComplete`, `RefreshesMerge`, `BatchesKeepApart` and
`RepeatsNeedLeave`.
The invariant `ImportInv` joins the types of jobs and batches (`ImportTypes`), what hand edits
have found, that only races break ledgers, and `PlansHold`: a plan that nobody overtook would
still leave every ledger it checked derivable.  Each commit is one of `WritesBatch`,
`RefreshesBatch` and `RollsBack`.  A file is appended line by line under consecutive ids while
its plan was checked under provisional ones; `SameOrder` again says that this does not matter
(`PlannedDerives`).  How many rows of a trade a commit leaves is counted by rank: the k-th equal
row answers the k-th equal line (`RankReached`, `FirstOnes`, `LastOnes`), and the lines found
are mapped one to one to stored rows (`FoundLinesAreStored`).  `RepeatsInv` adds that an importer
nobody overtook has seen every batch there is (`ChecksHold`).  They rest on `ImportBounds` and
`FilesAreLists` besides.

**Provider symbols** (`ProviderSymbolsProofs`), for any refreshes, answers and edits:
`SymbolInvHolds`, `PricesFit`, `ReportsAreTrue` and `ChoicesAreKept`.  Closes are stored long
after they were fetched, so `SymbolInv` says of every refresh what it may be holding (`JobsFit`:
closes in the instrument's currency), and of the one with the lease that what it read is what
is stored wherever the user has not edited since (`HolderFits`).  A refresh that lost the lease
satisfies only the first, and the fence keeps it from writing.  They rest on `SymbolBounds` and
`AnswersAreDated`; the last two also on `None` being no mapping.

**Launch** (`DesktopProofs`), for any processes, configurations, migrations, crashes and
failing calls: `LaunchInvHolds`, `RecoverableAlways` and `RecentStay`.  The invariant says who
owns a copy in the making (`CopiesAreOwned`), that a migrating launch has its copy and that this
copy is not among those a pruning takes (`MigrationsAreSaved`), and that what any launch has
doomed is still dispensable when it is deleted, whatever was added and deleted since it listed
the directory (`DoomedAreReplaced`).  Each step has one of six footprints, `Quiet` to `Passes`.
They rest on `OneLedger`, `LaunchBounds`, `FoundLedgers`, `DirectoryOrder` and
`EveryFileIsListed`.

**Log** (`DesktopProofs`), for any writers, archives and lengths: `LogIsKept`.  A rotation
moves archives one by one and may stop between any two, so the invariant `LogInv` has to know
whose rotation is under way and how far it is (`RotationsAreOwn`) to say that archives are
numbered newest first and full, and that what is gone is older than all of them.  It rests on
`LogBounds` and `NobodyIsNoWriter`.

**Data version** (`DataVersionProofs`), for any writers, tables, panels, handlers, retries and
bounds: `VersionTypeCorrect`, `AnswersAreFresh`, `StampsBound` and `VersionsMoveOn`.  What a
panel shows was a request before, and a request's token came from a poll, so the inductive
invariant `VersionInv` adds to the types that no revision announces more than is stored
(`AnnouncedIsStored`) and that requests in flight, like shown answers, include their version
and are bounded by their stamp (`AnswersAreSound`).  The footprint `LedgerMove` (tables,
revisions and days only grow, and a revision announces all that is stored) carries both over
every step.  They rest on `VersionAssumption`.

**Desktop shell** (`DesktopProofs`), for any requests and cases: `ShellTypeCorrect` and
`EndsTold`.  That the ledger is closed when the dialog shows depends on where the main thread
was before, so `PlaceInv` says what is open and what has been told at each of its places; that
a probe succeeds only by a report that passed is `PageInv`, since an outcome that is true is
true of the page from then on.  They rest on `ShellBounds` and `UntoldIsNothing`.

**Import page** (`DesktopProofs`), for any files and assets: `ViewTypeCorrect` and
`PagesInStep`.  That a commit sends the file of its preview is not inductive: bytes and
preview are filled by two calls.  The invariant adds which page each call will find when it
comes back (`CallsAreAwaited`) and that a preview is shown only with its bytes
(`PreviewIsOfBytes`); a page that is not busy then waits for nothing (`FreePage`).  They rest
on `NothingIsNoFile`.

**Rebalance rungs** (`CalculationProofs`), for pools of any size, any prices, holdings and
offset: `SelectionsServe`, `SharesAreComplete` and `TradesStop`.  The invariant `RungInv` follows
the stages.  Of the selection it says what `SelectionServesOffset` says only at its end
(`Serve`): the swap for a missing side takes the candidate that ranks last, and as whoever is on
target ranks last, the other side keeps somebody.  This needs that either ranking is a strict
order (`RankedInOrder`; distances relative to targets are compared by cross products, `Ratios`)
and that the deltas add up to the offset (`DeltasAdd`), so that a side that is needed exists
(`SomebodyServes`).  Of the shares it says who may have one and, in percent mode, how large
(`Bounded`), which survives the last division because no candidate is a violator any more
(`SettledIsBounded`); of the quantities, that each stops (`Stops`).  Sums are those of the
community modules, so their proofs start at the fold: that it has a value (`SumsExist`), that the
order of the summands does not matter (`SumOfOne`), that it is linear (`SumIsLinear`).  They rest
on `RungAssumption`.

*What is reported of a rung*: `SignalsFallBack` (which completes `SharesMeetOffset`), and
`ReportsAddUp`, `CoverageStays` and `ReasonsHold`, together `ReportsHold`.  The report works everything out anew from the quantities, after the passes that
decided them, so a second invariant, `ReportInv`, carries to the end what the passes knew.
Shares go toward their targets (`Directed`).  Whoever was clamped has no share while somebody
selected has one (`Clamps`).  While passes go on, either somebody already has a share or those
left free can take what is left (`Takes`); so nothing is left shared only in the rung of one
candidate without an offset, or with everybody on target (`Given`).  The residual is the offset
less what the quantities cost, also after each repair (`Drawn`).  From there: gaps add up
because deltas do (`TradesCost`); coverage is a percentage because in percent mode each trade
stops at its target (`NetWithin`), so that no gap grows and no band is left for the opposite one
(`Bands`); what rounds to nothing was less than one share (`RoundsToNothing`, `SmallIsLess`).

**Rebalance page** (`CalculationProofs`), for any amounts and ladders: `ShownStaysKept`,
`WholeIsKeptFirst` and `PositionsAreChosen`, together `PagesAreKept`.  That the page is kept as
shown is not inductive, because a plan that fails or is unavailable takes the slider's range with
it and gives it back later.  `PageInv` says that something is kept exactly of a page whose rung was `Chosen`, restored
or measured; that what is kept follows such a page, unless its amount was withdrawn (`Follows`);
and that the latest plan is the one measured (`Measured`), which is the one that can stand in.
Every step but leaving is a `Render` of some page, which `RenderStep` proves once.  They rest on
`PageAssumption`.

**Figures** (`CalculationProofs`), for any days, sources, closes, rates and trades:
`LookupsAgree`, `KnownWhenRated`, `MoneyAlways` and `FiguresAlways`.  Of the prices,
`LatestByDay` says that the newest of each source's newest rows is the row of the first source
that has the latest day (`Having`), which is what `SeriesByDay` says of a series; that there is
a latest day and a first source rests on a least number (`SmallestOf`).  Positions and gains are recursive functions of a ledger.  That
they exist, and that a ledger that begins like another has the positions and gains of the other
so far, is shown by taking the first place without it (`EveryPlace`).  The invariant
`KnownSoFar` then speaks of the last trade only: `PositionStep` and `GainStep` say what a trade
does to whether cost and gains are known, `FlatStep` which purchases are behind it.  They rest on
`DayAssumption`, `PrecedenceAssumption`, `BodyAssumption` (`domain::validate`: buys add shares,
sells take them; prices and rates are positive, fees are not negative), `PriceAssumption`
(`None` is no price) and, for the targets, `ConvictionAssumption` (a conviction is one of the
four).

`MoneyAlways` is about the value of the figures, and its invariant is `BooksDerive`: every
ledger is in date order and derives trade by trade, which `BooksDeriveNext` shows of `Record`.
Trade by trade (`MoneyAlong`, by the first place without it) the realized gain is what came
back plus the cost that is left (`Linked`), and the price and currency effects of the sales are
that gain.  A purchase moves its price from what came back to the cost; a sale moves its part
of the cost the other way (`SoldPart`), whatever splits were between.  What is held is worth its
cost and its unrealized gain (`HeldValues`), so cost cancels in every row (`RowShowsMoney`) and
in the waterfall (`RowsAreMoney`).  A report from the first trade starts with nothing and holds
every trade (`StartIs`, `WholePeriod`); without a later split all factors are one, the flows are
those of the trades (`TradeFlow`) and the amounts of a period are the same money
(`WholeLineIsMoney`), on the other way that the code takes.  The conditions of the last part are
those under which the code keeps it: every figure is known, no split is later, and `Ordinary`.

`FiguresAlways` (`FiguresAgree`) follows from the same invariant, `BooksDerive`, in four parts.
*The history* (`HistoriesAgree`): what the splits after a day make of a share is the product of
the ratios of the quantities around them (`GrownBy`), and the code's split factor, a fold over
the later trades alone that starts from the quantity of the day, is the same (`LaterFactors`
trade by trade, `GrowthIsFactor`); the newest price up to a day is the last of the series up to
it (`PricesOfSeries`); so a point is what its shares are worth (`CarriedIs`), on the last day
what the holdings list says (`HoldingIs`), and the money put in is less what came back
(`AllInvestedIs`).  *The price chart* (`ChartsAgree`) reads the same series.  *The average cost*
(`AveragesAgree`): the day of a purchase that leaves shares is in the segment of the first flat
day after it and in no other (`StepsAreShared`); who holds shares in the end bought some after
the last flat day, because nothing but a purchase makes shares from none
(`NothingFromNothing`, `OpenHasSteps`), so the open segment has a last step and that is the
average of the position; and a close is below an average exactly when the holding is worth less
than its cost (`BelowAverage`, cross-multiplied).  *The targets* (`TargetsAgree`): over one
denominator, the values less their total shared out by weights add up to nothing (`ShareOut`);
there is a weight to divide by because only a positive weight is in the pool (`PoolIs`).

**Files** (`FileImportsProofs`), for any files, amounts and ledgers: `DividendsMatchTheLedgerAlways`.
What a file becomes is a function of it, so the invariant of the specification is only that the
file is one (`LineFits`); the argument is about the functions.  Every row is read or refused on
its own (`AvanzaRows`, a fold), every trade becomes one outcome at the place of its row, and
splits are grouped by day, so the rows the ledger will hold correspond to the lines that
`EligibleQuantityAt` adds up: place by place it is the position that the derivation arrives at
(`HeldIsSum`, `CountedIsHeld`), as long as the ledger derives up to there (`EarlierDerives`).
That shares, amount per share and rate multiply to the cash is arithmetic (`CashIsPaid`).  It
rests on `FileAssumption`: numbers are fractions and rows are complete.

**Lemmas for several modules** (`SetsAndAmounts`): sums over finite sets (`SumIsLinear`,
`SumIsScaled`), induction over sets and places in the only form these provers take, a least
counterexample (`SmallestBad`, `SmallestOf`), and the fractions of `ExactAmounts`.  Those are in
lowest terms by a recursion over the greatest common divisor; `Is(f, n, d)` says that a fraction
is n/d whatever its terms are, and sums, products and quotients of such follow without it.  Sums
of amounts over sets (`SumOver`) are split, negated and freed of zeros by bringing all of them
to one denominator (`AllOver`), where they are sums of integers; so are the identities between
a handful of amounts (`MovedOver`, `TwoEffects`, `LessFlows`).

Model-checked only: the bounds on a rung's loops; of the commits of a file,
`PlanForeseesCommit`, `SecondImportIsEmpty` and `ConvictedClosingsAreChosen`, which follow a plan
and a commit through matching, merging and protection line by line; and all liveness
(`RungsEnd`, `AnnouncedDataIsShown`, `OrphansAreRecovered`, `RefreshesEnd`), which is out of the
provers' reach.

What a commit may do that its plan did not foresee is named in these three properties, because
the code does it.  The plan looks an instrument up by ISIN or by listing at once, the writer by
ISIN first: a row is `Contested` when the two name different instruments.  A refresh matches
rows within its own batch by the canonical key, while the plan matches by the fingerprint with
the whole ledger: a row may be stored more often than the plan took it for new.  And an
instrument without ISIN has another asset key than its rows, and is not protected by them.

## 5. What the runs found

1. *A dropped request can hide its writes* (`lease_hidden`): between the commit of
   `finish_run` and the bump of `data_revision_layer` nobody is left to announce them.
2. *A refresh can commit a ledger that does not derive* (`imports_underived`), one request
   at a time: the fee of a sell is corrected, its instrument is protected and not re-derived,
   and the corrected sell is inserted beside the stored one.  `OnlyRacesBreakLedgers` counts
   such an unplanned insertion as a race, so it says that there is no other way.  By the same
   path a refresh stores again a row that its plan found in another batch, and may close a
   convicted position without asking.
3. *Panels can mix snapshots under one revision* (`version_panels`): a commit is readable
   before its bump, and each handler reads in several queries.  The mixture is transient: the
   bump moves the version, and `AnnouncedDataIsShown` says every panel then catches up.
4. *Flows and amounts of a period differ* (`flows`): a sell is scaled by a later split in the
   one and not in the other.

A few more that no run of their own shows.  A rebalance page that was never kept keeps
nothing until it shows a ladder (`RebalancePage.tsx:97`): an amount committed before, while
the first plan loads or when the pool is empty, is 0 again after a visit to another page,
although `docs/DecisionLog.md:402` has the amount persist.  Overlapping writes can break a ledger, since
check and write are separate; `LedgersStaySound` says exactly when.  Launches: two that draw the
same stamp can replace a finished snapshot; one so slow that its `.partial` is pruned as
abandoned may see the name reserved by a third and then finish that empty file, or migrate
with no copy; and with more launches at one time than `pre_migration_kept` (ten), the copy of
one that is about to migrate can be pruned.  The last two came up as steps the invariant of
section 4 could not carry.  And the import page keeps the question
"Confirm append" open when another file is chosen (`importReducer` resets only the one about
duplicates), so the two-step confirmation of `docs/DecisionLog.md:326` is one step for that
file.

## 6. Not modelled, and what could follow

- Roots of powers (money-weighted and annualised returns) and the rounding of `Decimal`:
  floating point and 28 digits are out of TLC's reach.
- Wire and text formats, routing, body limits, error bodies, static files, layout: translation
  without state.  Demo mode: a database filled once, on which `demo_read_only_layer` refuses
  every mutating request.  Scripts.
- Which dates a refresh asks for.
- Liveness of the probe, of launches and of the log: what they wait for is a user, a
  WebView or the file system, to which the code gives no deadline that a model could rest on.

Next would be proofs about the commits of a file, `ConvictedClosingsAreChosen` first.
