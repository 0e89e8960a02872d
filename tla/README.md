# YuminQuant in TLA+

TLA+ modules, TLC runs and TLAPS proofs for the parts of YuminQuant that keep state, share files or
run threads. The project was written from the source under `src/`: every definition that stands for
code is listed in `PROJECT.json` (`map`) with the lines it models, every property a run checks has a
mutated definition of the model that breaks it (`mutants`), and every hazard of the code that a
property is for is listed at its line (`hazards`).

Tools: `tlc -config X.cfg M` for a run, `tlapm M.tla` for the proofs of a module.

## 1. The system

YuminQuant is a research platform for Chinese stocks and futures. A Rust engine (`factor_engine`)
computes factors and labels from Parquet files, backtests them and simulates strategies; a Python
package (`ml_alpha`) trains models on the factors and writes predictions back as ML factors; Python
scripts (`data_manager`, `scripts`) download data and drive both. All cooperate through files: one
file per trading date and library, rewritten whole and published by a rename.

| Component | State | Operations | Interacts with | What is hard | What makes it correct |
|---|---|---|---|---|---|
| Ordered read-ahead, `factor_engine/src/data/read_ahead.rs` | atomic file counter; budget (bytes used, next to admit, cancelled) behind a mutex and a condition variable; an unbounded channel; reservations released by `Drop` | `visit_tables`, `Budget::acquire`, `cancel`, `release` | the remote adapter's callbacks (prepare, read), the caller's `consume` | threads, condition variable, cancellation from either side, oversize files, callbacks that fail or panic | consumption in list order, budget kept and given back, no lost wake-up, always returns |
| Daily factor files, `data/factor_files.rs`, `storage.rs`, `ml_alpha/output/daily_wide_writer.py`, `file_lock.py` | per date a manual and an ML file, a lock per file, the ownership list | merge and publish, pad (`ensure_output_column`), migrate, remove columns | writers of two languages, readers without locks, old mixed files | read-merge-write races, a crash between publishing and stripping, masking of legacy columns | no cell of another writer is lost; migration is invisible; the two files act as one table |
| Readers, `FactorFiles::read` (Rust), `FactorFiles.read` (Python) | what each step saw | existence tests, schemas, columns | all of the above | several unlocked looks at files that others replace | every column returned is a value the logical table had during the read |
| Intraday raw cache, `IntradayDailyRawStorage` in `storage.rs`, `engine.rs` | a file per date with a column per raw; one version record per raw | missing check, compute and merge, record, complete, load | inline, publishing, owning and prepared-only programs | a record that names a version for all dates; death between writing and recording; overlapping batches | values read are of the reader's version and complete |
| Stock strategy run, `strategy/engine.rs`, `account.rs`, `execution.rs`, `lifecycle.rs`, `corporate_actions.rs` | cash, positions, receivables, locks, pending orders, delisted set | hooks, order filling, marks, dividends, bonus shares, forced exits | a strategy's hooks, market frames | the order of events within a date; dates without frames; overlapping distributions | every yuan explained, holders of record paid, delisted stocks gone, locked shares kept |
| Futures account, `account.rs`, `execution.rs` | cash, signed positions, marks | close and open segments, margin test, marks | orders, bars | reversals, multipliers, the cap after earlier segments | profit is the flow of trades; margin cap respected |
| Factor engine scheduling, `engine.rs`, `data/pool.rs`, `data/loader.rs` | groups, date and provider batches, data pool, disclosure cache, streaming states, write buffer | plan, load, view, compute, retain, write | raw cache, factor files, programs that replace statement files | inputs merged for several providers and narrowed for each; years kept across batches; states kept across dates | a factor sees what it declares; a value is the same however the run is divided; statements are current |
| Factor metadata, `storage.rs`, `output/factor_metadata.py` | three registry files, a lock | merge under the lock, publish one file after another | factor files | a death between two files; old libraries with the combined table only | no registration is lost, no factor has two owners |
| ML pipelines, `pipelines/*.py`, `output/artifacts.py` | saved models, manifests, columns | plan windows, train, resume, predict, grouped prediction | factor files, metadata | labels over boundaries; death between model and manifest; changed configurations; resident models with state | no look-ahead; a value is what an undisturbed run gives; every date answered |
| Incremental update, `scripts/*.py` | none of its own | runs the others in order | all | partial failure of a stage | a stage starts only on complete inputs |
| Data manager, `data_manager/` | date files, writer lock file | download, retry, rate limit | a remote service | retries, a lock left behind | dates complete or absent |
| Storage backends, `storage_io.rs` | block cache | read, write, lock | a remote service | outside the repository | – |
| Factors, labels, operators, risk model, backtest; neural models; analysis | – | floating-point computation | – | numerics | matter for numerical tests |

## 2. Modules

### Ordered read-ahead

* `OrderedVisit` – what `visit_tables` promises: files are consumed once each in list order; the
  result is the error of the first file (in that order) that cannot be consumed; it returns.
* `ReadAhead` – one call, with its worker threads, budget, channel and calling thread. Every critical
  section of the budget's mutex is one step, and so is every atomic operation, send, receive and
  callback. `Claim`, `Prepare`, `Wait`, `Admit`, `GiveUp`, `Read`, `Send` are the worker's loop;
  `Recv`, `Take`, `Consume…`, `ReleaseConsumed` the caller's; `Unwind`, `Cancel`, `NotifyCancelled`,
  `CloseReceiver`, `Discard`, `Join` the way out. `place[i]` says where a file's result and
  reservation are, so that a release is the step that moves a file to "freed", as `Drop` does.
* `ReadAheadProofs` – the theorems.

### Daily factor files

* `LogicalTable` – what the two files mean together: one table column → stock → cell, with
  `WriteManual`, `WriteMl`, `Declare` and `Remove` as its only changes.
* `FactorFiles` – every program that changes a day's files: manual patching (`BeginWrite`, `Merge`,
  `Publish`), ML replacement and padding (`BeginEnsure`, `Ensure`), migration (`PlanMigrate`, `LockMl`,
  `BuildMl`, `PublishMl`, `BuildManual`, `PublishManual`) and removal. A file is read, merged in
  memory and published in separate steps; `Fail` ends any program at any step and releases its locks.
  `View` is the readers' rule (the ML file wins for the columns it has) and the refinement mapping.
* `FactorReads` – the two readers as unlocked multi-step reads beside all of these; a read is made by
  either implementation. `window` collects the values the logical table has had since it began.
* `FactorFilesProofs` – the theorems, about the writers and about the readers beside them.

### Strategy and accounts

* `StockAccount` – the operations of `AccountState` on cash, positions, receivables and locks.
* `StockStrategy` – the event loop: settle, distribute, open the session, frames, pending orders,
  the hooks, marks, exits, end of session. The strategy is any sequence of orders at each hook; the
  market any of the `Bars` for each stock and time, or none. A date on the calendar may have no
  frame at all.
* `FutureAccount` – the same for futures: an order is closed against the opposite position first, and
  what is left opens under the margin test, with the code's rounding to lots.
* `StockStrategyProofs`, `FutureAccountProofs` – the theorems.

### Intraday raw cache

* `RawCache` – programs of four kinds go through their date batches: `ReadRecords`, `ReadFooter` and
  `Checked` decide what is missing, `Write` merges one date, `Record` publishes the versions,
  `Complete` fills an owner's dates with columns of nulls, `Load` reads, `NextBatch` goes on. A value
  is the version that computed it. `Restart` is a death and a new start with nothing but the files.
* `RawCacheProofs` – the theorems.

### ML pipelines and factor metadata

* `TrainingWindows` – `runtime.build_windows` as a function from a configuration and a calendar to the
  windows of its models: static, rolling and expanding segments, sample counts, ratios, delayed
  activation, calendar periods; then cutoffs, purging of labels and the test whether a window is usable.
* `MlProcess` – the files the pipelines share (models, manifests, columns, registry), the identity that a
  manifest records, the one running program, and its death at any step (`Stop`).
* `MlArtifacts` – `factor-run` (with and without `--resume`), `factor-train` of any windows and
  `factor-predict`: window by window `SkipWindow`, `LoadModel` or `Fit`, `OpenModel`, `SaveModel`,
  `SaveManifest`, `PredictWrite` of one date, `EndWindow`; then `Pad` and `Finish`.
* `GroupedPredict` – several models that write their columns with one rewrite per date: tasks
  (`StartGrouped`), waves (`BeginWave`), resident models under a limit (`Infer`), `Flush` of a date
  when all its columns are there.
* `FactorMetadata` – both writers of the registry: what they start from, the collision test, and the
  three publications.
* `MlPrograms` – all of them over one set of files, and the properties. What a model has learned is
  the identity of what it was trained on, so that a value tells which model wrote it.
* `MlProgramsProofs` – the theorems on plans, on values and on the registry.

### Factor engine

* `EnginePlan` – how a run is divided: execution groups by input and lookback, date batches, provider
  batches, warmup windows, what a factor requests in a context, merged requests, disclosure years.
* `DataPool` – what is loaded once per date batch, what each provider batch adds, and the view that one
  provider gets. A table is its dates and columns.
* `DisclosureCache` – the yearly statement tables kept across batches: retention of years and columns,
  the reload test by stamp and columns, the index.
* `FactorEngine` – `Engine::execute` as one step per phase of a batch (`BeginGroup`, `BeginBatch`, `StampYear`,
  `LoadYear`, `LoadShared`, `LoadBatch`, `MakeViews`, `Compute`, `WriteResults`/`KeepResults`/
  `WriteFullBuffer`, `FinishBatch`), with `UpdateFile` of another program between any two. What a formula
  computes is left free: a value is what it was computed from.
* `FactorEngineProofs` – the theorems on statements, on views and on values.

### All

* `NumberLemmas` – the least and greatest element of a set of naturals, induction over the naturals and
  over finite sets, sums of a function over a finite set, integer division. The proofs share them.

`MC*` modules give constants to TLC and nothing else. Operators whose comment begins "Faulty variant"
are not part of any specification: each stands beside the definition it would replace if the code
were wrong in the way the comment says, and shows that some property notices.

## 3. Runs

| Run | Asks | Bounds | Result |
|---|---|---|---|
| `read_ahead` | budget, order, wake-ups, clean return, inductive invariant; implements `OrderedVisit`, and returns | 3 files, 2 workers, 3 sizes around the limit, any callback may fail | holds |
| `factor_files` | writers, padding, migration, removal and deaths over an old mixed library; the two files implement one table | 2 manual and 2 ML writers, one of the columns padded, 1 migration, 1 removal, 3 columns, 1 stock | holds |
| `factor_reads` | a reader of either implementation beside the writers of a mixed library | 1 manual, 1 ML writer, 1 reader, 2 columns | holds |
| `reads_migration` | a reader beside a migration | 1 migration, 1 reader | **violated** |
| `stock_strategy` | books, payments, locks, orders, delisting while held and locked | 1 stock, 2 overlapping distributions, 4 sessions, moving prices, limits, fees, lots | holds |
| `stock_pending` | orders of `on_bar` for a listed stock meet a market frame | 2 stocks, 4 sessions | **violated** |
| `future_account` | books, and the cap of an opening order | 2 contracts, 2 bars, orders of 2 or 3 | holds |
| `ml_pipeline` | windows without look-ahead; values, dates answered, stateful models; the registry | plans of some thousand configurations over 3 calendars of 18 days; 2 programs of the pipelines, or 1 and 2 grouped predictions, or 3 publications; 4 configurations, 2 of one output | holds |
| `raw_prepare` | the documented three steps beside an inline run, with deaths, over a cache of the same or (refreshing) an older version | 5 programs, 3 dates (one without observations), 2 raws, overlapping batches | holds |
| `raw_stale` | the same steps with a new version over an old cache, without the refresh | 4 programs | **violated** |
| `engine` | views as declared, values as if computed alone, statements current | every 2 or 3 of 9 factors × 3 shapes of dates and batches (360 runs), 3 statement years, 1 replaced file | holds |
| `panel_beside_rows` | an input declared panel-only has its panel | a factor that reads rows of the dataset and one that declares it panel-only, 3 shapes of batches | **violated** |

Why these bounds are enough. Two workers are the fewest that can finish out of order and wait for
each other, three files leave one to claim after both have been admitted; with sizes
below, at and above the limit every branch of the admission test is met. In the file runs a second
program of the same kind is what a lock protects against; two columns of different owners, one of
them legacy, and cells that are null, absent or a value are what merging can confuse. Two
distributions whose record, ex and pay dates interleave over four sessions, with days that have none,
are the fewest in which a payment can meet another distribution's ex-date; the stock is delisted on a
day between two sessions, while bonus shares are locked and others are still to come. Two raws and two
dates, one without observations, are what the cache's completion and merging tell apart; batches
overlap in one date as they do by the lookback.

The plans of `ml_pipeline` combine every scheme with refits, lookbacks, validation, label horizons of 0 and 2
days and delayed activation, on months of three days, one calendar with a holiday inside a month, one
without the days around the end, one with every second day: boundaries of months, ranges, calendar
and labels all fall together somewhere. Its programs use four configurations: two of one output (the
second with other settings, and a window that has nothing to train on), one whose model may not be
replayed, and one static model whose dates fill larger batches; two programs after one another are what
a resumed or changed run needs, and a grouped prediction needs a trained library. `MCInteresting` asserts
that the windows without rows and the dates without windows are there. Three publications over a
library of any age are a registration, a death in the middle and a repair.

The nine factors of `engine` cover every kind (daily, raw, minute, streaming), rows and panels of one
dataset, narrowed columns and dates, two statement columns under different windows, and two factors
of one provider; three of them are what it takes for one provider batch to have two providers while
another shares their inputs. The calendar has three dates in each of two years, so windows and
disclosure years cross a year's end.

The initial states of the file, cache, registry and model runs are all the libraries the programs can
have left: any legacy columns, files missing or partial, records present or not, models trained or not.

Fairness. Only `read_ahead` (for `OrderedVisitSpec`) assumes any: weak fairness of each worker thread and of the calling
thread, i.e. the operating system runs a thread that can go on, and callbacks return (with a value,
an error or a panic). Spurious wake-ups of the condition variable are possible and not fair, so no
progress depends on them. All other programs may stop anywhere, and their properties are safety
properties.

Deadlock checking is off only where the programs really end: the strategy after its last session, the
futures account after its last bar, the cache's and the pipelines' programs when all are done, the engine
when its run is written or has failed. `ReadAhead` has an
explicit stuttering step at its end, so that a stuck thread is found as a deadlock.

## 4. What the violations say

Each compares a statement in the repository with what the code does (`findings` in `PROJECT.json`
quotes the lines).

1. `reads_migration`: both readers take several unlocked looks. A migration between two of them moves
   a column from a file not yet read to a file already passed.
2. `stock_pending`: on a date without market data orders wait, unless a delisted stock is held: then
   the bar-less frame inserted for its exit consumes them, those for listed stocks too.
3. `raw_stale`: the version is compared with the raw's record only. Once `raw-metadata` has named the
   new version, old columns count as present, and the prepared run reads them instead of failing.
4. `panel_beside_rows`: when one provider batch of a date batch uses rows of a dataset and another one its
   panel only, the shared inputs hold the rows. `view_for_requests` of the second drops them because nobody
   there asks for rows, before `load_from_batch_inputs` would build a panel from them, and the rows count
   as loaded, so nothing else loads the panel. The factor then fails with "daily panel not loaded",
   although it is computed when run alone. `ViewsAsDeclared` names this one case (`HiddenPanel`) and holds
   everywhere else.

Observations of the same kind that no run states:

* `_ensure_output_column_one` looks for a writer's own column in the ML file only. If the column has an
  unmigrated legacy copy, an ML run that has no prediction for a covered date publishes nulls there,
  and the legacy values are masked. The documents describe nulls on covered dates as intended and
  speak of other writers' columns where they warn of masking, so no run claims a disagreement;
  `PaddingHidesNothing` is checked where the padded column has no legacy copy.
* An inline run without `--refresh-minute-cache` has the mechanism of `raw_stale` within itself: its
  first batch records the new version for all dates, and later batches take old columns as current. The
  developer guide tells to refresh after a version change, so `raw_prepare` checks that this is enough.
* A removal handles the files its listing showed; a migration that publishes the ML file after the
  listing leaves the moved column there. A removal over a mixed file, together with an ML run, can lose
  a column for a reader between its two files as a migration does (`reads_migration`); readers beside a
  removal are in no run.
* The room under the futures margin cap is computed with the old mark of a contract, while the fill marks
  the whole position at the new price; hence `FirstOpenWithinCap` speaks of an account that held nothing.
* The instruments of a provider are compacted per batch, not per provider: within one batch a provider
  sees those that occur only on dates of another one. Instruments are not in the model.
* The disclosure years of a date batch come from its first and last date. A batch that spans November or
  December may load fewer years than those dates would load alone.
* Models and manifests. `model.save` is followed by `save_manifest`; if a retraining dies between them and
  the configuration is then taken back to the former one, the old manifest validates the new model.
  Hence configurations of an output are never taken back in the model (`Uses`), and the proofs about
  values have the hypothesis `NeverBack`: no later configuration returns to what a window was trained on
  before another one of the same output.
* A run that completed with a window without training rows cannot be run again with `--resume`, and
  `factor-predict` and grouped prediction refuse it, for that window has no model.
* With `--resume`, columns an earlier configuration wrote count as done and keep their values; so
  `RunCompletes` promises a run's own values only where it did not resume. A run that does not resume
  leaves older values on dates that none of its windows covers, while grouped prediction overwrites
  them with nulls.

The passing runs next to the violated ones show where the boundary lies: the same properties hold when
nothing migrates (`factor_reads`) and with the refresh (`raw_prepare`); the views of `engine` are as declared in all
other respects.

## 5. Proofs

All theorems hold for every value of the constants that the modules' `ASSUME`s allow: any number of files,
threads, programs, stocks, distributions, models and dates. Hypotheses beyond these stand in the
theorem itself (`ASSUME … PROVE`).

* `ReadAheadProofs`. `Typing`: the variables keep their types. `Inductive`: the invariant `IInv` has four
  parts. `Control` is `Claims` (claimed indices are disjoint and below `next`), `Whereabouts` (a file
  that has a reservation is in exactly one place, and that place is where its worker's program counter
  says), `Progress` (what the caller waits for has not been given up), `Verdict` (the outcome names
  the first bad file), with the order of admission and the wake-ups. `Shutdown` says how the end of a call empties the
  caller's hands, then the channel. The other two are the properties `BudgetExact` and `OversizedAlone`, whose
  steps are about sums over the files that hold a reservation. None of the properties is inductive by
  itself: that a waiting worker has a wake-up due depends on where every other reservation is. From it follow `AdmissionOrder`,
  `EarlyStopImpossible` (the code's own error "projected read workers stopped early" cannot occur),
  `WakeupsDelivered`, `BudgetCounted` (the counter is the sum of what is reserved), `OversizedFilesAlone` (the
  limit is exceeded by a file alone only), `ReturnsClean` (a call that returns, with success or not, has
  given back all of the budget and ended every thread) and `Refinement` (every step is a step of
  `OrderedVisit` or a stutter).
* `FactorFilesProofs`. `FilesTyped`. `FilesInductive`: `FilesInv` is `LocksHeld` (a program between
  reading and publishing holds the lock), `NoLostUpdate` (its buffer is the file as it is now, with its
  update), `MigrationStages` (what a migration has planned is still so), `Ownership` (a writer's
  buffer touches its own columns only) and `Provenance` (an ML column in a manual file is a legacy column,
  a removal takes removable columns only, padding pads declared outputs only). `UpdatesKept` and
  `MigrationsUnseen` follow. `PaddingIsHarmless`: where no padded column has a legacy copy, padding hides no value
  (without the hypothesis nulls may mask one, section 4). `FilesImplementTable`: the two files implement
  `LogicalTable` through `View`, beside any writers, migrations and deaths, and beside removals of columns that
  have no legacy copy. The removal of a column with one takes two publications, and what a reader may see between them
  is the copy in the other file; that case TLC checks (`factor_files`).
* `FactorFilesProofs`, readers. `ReadsAreOfTheTable`: what a reader of either implementation returns for a column is
  what the logical table held at some moment of the read, for any numbers of readers and writers, where
  nothing migrates and nothing is removed (`Migrators = {}`, `Removers = {}`; `reads_migration` shows
  the first hypothesis is needed). The argument: without the two, the ML columns of a manual file never change
  (`LegacyStays`), so a value found there late is one the table had when the ML file did not
  answer for the column. `ReadInv` says, per stage of a read, what the reader may conclude from what it has seen: from a
  file it did not find (`NoManual`, `NoMl`), from an ML schema without the column (`Unanswered`), from
  neither schema having it (`NowhereSeen`).
* `StockStrategyProofs`. `DelistingsEnforced`: a session ends without a delisted stock, for any
  strategy and market, from `PositionShape` (an empty position is `NoPosition`,
  which is what a later sale or distribution must leave) with `ExitPlanned` (between the opening of the
  session and its end, a delisted stock that is held has an exit frame to come). The theorems about money and
  shares rest on `RunInv`. Its `AccountInv` is kept by every operation of `AccountState`: positions are
  sound, cash plus receivables plus the cost of what is held is the initial cash plus the realized result
  (`ProfitsExplained`), cash stays at or above zero (`NeverOverdrawn`: from `AffordableRule`, what `affordable_buy_quantity` allows is
  covered, fee included, by cash) and the locked shares of a stock are among those held (`LockedSharesStay`).
  Its `Registered` relates three moments of a distribution: until the ex-date the registered shares wait to be
  served; from then on they are 0; and the dividends received are the sum over the distributions served. From it
  follow `DividendsReachHolders` (the holders of the record date are paid, once, and nobody else) and,
  with the order of the phases, `EntitlementsSettled`. `WellTyped` gives `TypeOK`.
* `FutureAccountProofs`. `BooksBalance`: the account's cash is the initial cash, less what all
  trades cost, plus the cost of what is open, through partial closes and reversals, for any multipliers and prices, from
  `BookInv` (a position's cost has the sign of its quantity; what a closing segment leaves of an order
  finds no position of the other side). `CapKept`: the lots that `fit` after rounding keep the margin
  under the cap when the account held nothing before.
* `RawCacheProofs`. `CacheIsCurrent` and `DocumentedOrderSuffices`: a run reads values of its own version on every
  date with observations, and no prepared run is refused, for any programs, batches, dates and deaths
  and over any cache. The hypotheses are what the developer guide asks for: one build (`OneVersion`), a
  refresh over a cache of another version (`Refreshed`), prepared runs after the publication and
  after owners of all their dates (`Documented`). The invariant `CacheInv` says for each stage of a program
  what its loop has established (in the footers: missing or present; while writing: current, or
  missing and still to write), that batches behind it are current, and that others only add
  (`Grows`). `raw_stale` shows that `Refreshed` is needed.
* `MlProgramsProofs`, plans. `FutureUnseen` and `NewestServes`: for every configuration that `validate`
  accepts (`WellFormed`) over every calendar, a model's training and validation labels are all realised at its
  cutoff, which lies before every date it predicts; training labels do not reach into the validation dates; a
  date has one window, and no window of a later cutoff could have predicted it. The argument goes scheme
  by scheme (static, rolling and expanding; by dates, counts, ratios and periods): each makes windows with
  `WindowOk` and pairs of them `Apart`; what the common tail of `build_windows` does to them (cutoff,
  purging, delayed activation) turns these into the properties.
* `MlProgramsProofs`, values. `ValuesInductive`, `AsUndisturbed`, `RunsComplete`: any number of
  programs one after another, dying anywhere, over any library, leave in every cell the value of the model that a
  single undisturbed run of the cell's configuration would have used, and a program that completes has answered every date it is asked
  for. `ValueInv` is `ArtifactsOk` (`Made`: a model or manifest
  at a path was made by a configuration of that output that is not newer than the latest one used;
  `Manifested`: a manifest that names a window vouches for the model beside it), `ColumnsOk`, the local states of
  the pipelines (`LocalOk`: which windows are done, and what they have written) and of grouped prediction (`GroupOk`:
  every column of a date is there, or waits for the flush, or is still in a task). The hypothesis is `NeverBack` (section 4);
  `MCNeverBack` has TLC evaluate it for the configurations of the run, so it is satisfied
  with two configurations of one output and windows that share an identity.
* `MlProgramsProofs`, models with a state. `StatesInOrder`: a resident model that may not be replayed has been fed
  all dates of its window's batches up to the last one it was given, for any groups, calendars, batches, task sizes
  and `MaxResident`, without `NeverBack`. `OrderInv` says of a grouped prediction (`OrderOk`) that units
  have been taken in the order of their last dates (`InOrder`), that a configuration has one model
  resident at most, that one with a state was fed exactly the past batches of its window that have rows (`Fed`), and
  that it is resident as long as batches of its window wait (`Loaded`). The last two rest on the order of
  dates: of two batches of a window one is wholly before the other (`PiecesOrdered`), and so are
  the dates of two windows (`InTurn`, proved for every scheme with `PlanOk`). So the model of an earlier window, which
  goes when the next one is loaded, has no batch left. `UsedIs` is what `_Models.get` promises: it drops models
  of the same configuration and of replayable ones only.
* `MlProgramsProofs`, registry. `RegistrationsKept`: what an ML program registered stays registered, the code's
  factors are those last published, and no factor gets two owners, for every set of registrations and
  libraries and with a death between any two files. `RInv` is `RegistryOk` (the ML rows of the combined
  table are among those a writer would start from) and `PublicationOk` (a publication under way drops
  nothing registered, and what it has published is there).
* `FactorEngineProofs`. `SourcesAreCurrent`: the statements a batch computes with cover its years and columns,
  are no older than the files were when it began, and carry an index of that very table; for every
  calendar, registry and run (`YearsAssumption`: file years are numbers). `IInv` adds that a cached
  entry's stamp is no newer than its version and that no newer than the file (`CacheOk`), and, while the
  years are loaded, that those already done are loaded and the stamp of the next one is no older than the
  batch (`Loading`). The order "stamp, then read" is what it rests on: with the opposite one an entry
  could claim a version newer than its content.
* `FactorEngineProofs`, views. `ViewsServeRequests`: a provider's view has exactly the panels, dates and columns it
  declared and the rows it asked for, except for a panel hidden by shared rows, for every
  calendar, registry, run and division into groups and batches. `PlanInv` says that the groups left are made of the run's
  factors (`ExecutionGroupsAre`), that the provider batches are at least one and are made of the group's factors
  (`ProviderBatchesAre`, by following the fold that makes them), that the shared inputs
  are those of the date batch, and that the pool has for each dataset of the batch what its requests cover or hides its
  panel (`PoolFor`). Merging requests loses none of their dates and columns (`Within`, `MergedWithin`); from there
  `OwnPool` and `ReusedPool` say what a batch that loads for itself, or from shared inputs, has, and `ViewIs` what
  a view leaves of it.
* `FactorEngineProofs`, values. `ValuesComputedAlone`: however a run is cut, every value it writes is the one its factor
  computes alone from its own window, and a run that is done has written one per factor and target. The induction is
  over `PlanInv /\ ValueInv`. The groups left never share a streaming provider, and the factors of a group have
  the group's lookback where it matters (`GroupsOk`, from `ExecutionGroupsApart`); the queue is the rest of the group's date
  batches (`PlaceOk`); a loaded pool and its views reach over the window of the batch (`ReachOk`); each
  value held is its factor's own (`ValuesOk`); a value not yet held is still to come: in a later group, date batch or
  provider batch (`AccountOk`). Streams are the hard part, since a state is built up over batches and
  only kept for lookback + 1 dates: `SeenOk` says that a provider of the group has seen exactly the dates the group
  has passed, and one of a later group none. `SeenIsHistory` turns this into the
  factor's history by arithmetic on places in the calendar: a streaming group starts at the calendar's first day or its lookback
  before its first target (`StageDatesAre`), so the last lookback + 1 dates seen are the warmup window of the date at
  hand, also where the calendar is too short for it. `ChunksAre`, `DateBatchesAre` and `ProviderBatchesSeparate` say
  that nothing is lost or done twice where the run is cut.

Sums and cardinalities. A theorem that takes an operator as a parameter cannot be instantiated here, so
`NumberLemmas` proves induction over finite sets for a set of subsets in place of a
predicate (`SetInduction`), and from it what the sums of the models do when one term changes. `SumFunction` is then used through
these facts only.

What the assumptions ask. `AccountAssumption`, `FutureAssumption` and `BarAssumption`: prices, lots, fees and multipliers are
numbers in the ranges the constructors accept. `PlanAssumption`, `ConfigAssumption`: the configurations are ones that `validate`
accepts, and those that run have a plan and a batch size of at least 1 (`config.py:279`). `GroupAssumption`: the models of one grouped
prediction have different outputs. `ValueAssumption`, `LibraryAssumption`: `None` is no value, and a library is what
some of the configurations left. `FactorAssumption`, `RunAssumption`: lookbacks are numbers, only a
factor of kind raw has a raw lookback (`engine.rs:1688` takes it from the factor's intraday raw dependencies, and one
with any is of kind raw; the one streaming factor, `dfzq_high_frequency_beta.rs:47`, has none), and a run has factors of the
registry and batches of at least one (`engine.rs:205,271,275`). `StreamAssumption`: the factors of a
streaming provider all stream, with one lookback. `DataAssumption`: statements are neither a daily panel nor minute bars.

Model-checked only: liveness (`OrderedVisitSpec`); removal of a column with a legacy copy as a step of `LogicalTable`.
The findings (section 4) are counterexamples of TLC.

## 6. Not modelled

* Files: row keys, dtypes and validation of frames; the storage backends behind `storage_io.rs` (its lock
  and its atomic writer are taken as given).
* Strategy: parsing of dividend and delisting tables; audit files and snapshots. Orders placed in
  `on_fill` and `on_start` are discarded (`strategy/engine.rs:334`); they leave no state to state a
  property of.
* Raw cache: raws of several providers in one file and the label engine's use of the cache.
* ML: programs run one at a time and under `YQ_METADATA_MANAGED`, as the scheduler starts them, so the
  registry is written by programs of its own; units of one wave come in any order, with one prediction
  worker; memory budgets are not modelled, nor weekly and yearly frequencies, `report_sentiment`,
  `pipelines/model.py`, `start_from_features`, several models in one process, or `replace_all`. Fitting on no rows is
  an error. What a resumed run owes a model that carries state (`factor.py:102`) is stated nowhere in the
  repository.
* Engine: runs of daily frequency only; index, classification, dividend, main-business, analyst and
  fund inputs; instruments inside a table; slow states of providers. There is one statement dataset, and a
  streaming provider has one lookback (`StreamAssumption`). The write of a batch is one step here:
  its steps are those of `FactorFiles`. A request never asks for an empty set of dates.
* Data manager: the remote service and its limits. Its writer lock is a file created exclusively
  (`fund_downloader.py:73`); a killed downloader leaves it, and the next one refuses to start until
  someone removes it.
* Factors, labels, operators, risk model, backtest and neural models are floating-point computations
  without protocol. These are most of the repository's lines, and the share of it that the models cover is small
  for that reason.
* Everything else marked `not_modelled` in `PROJECT.json`.

## 7. Plan

The order is by what the system stands on: files first, then what is built on them.

1. Done: `OrderedVisit` ← `ReadAhead`; `LogicalTable` ← `FactorFiles` ← `FactorReads`; `StockAccount` ←
   `StockStrategy`; `FutureAccount`; `RawCache`; `TrainingWindows` ← `MlProcess` ← `MlArtifacts` ←
   `GroupedPredict`, with `FactorMetadata` composed in `MlPrograms`; `EnginePlan` ← `DataPool`,
   `DisclosureCache` ← `FactorEngine`; proofs for all eight of them.
2. Model: minute-frequency runs of the engine and the instruments of a table; `IncrementalUpdate` (stages over
   complete inputs); `Download` (writer lock, retries). `RawCache`: raws with different dates of observation and
   programs with different selections.
3. Prove: `OrdersMeetBars` for calendars without delistings.
