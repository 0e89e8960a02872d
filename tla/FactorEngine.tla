---------------------------- MODULE FactorEngine ----------------------------
(***************************************************************************)
(* A run of the factor engine (Engine::execute): group by group, date      *)
(* batch by date batch, provider batch by provider batch, while the files  *)
(* of the statements may be replaced by an update program.  What a factor  *)
(* computes is left free; a value is what it was computed from.            *)
(***************************************************************************)
EXTENDS DataPool, DisclosureCache

CONSTANTS
  Runs,          \* runs: factors in the order of the registry, first and last date, batch sizes
  FileYears,     \* years for which a statement file exists
  MaxUpdates,    \* how many files are replaced during a run
  None

ASSUME YearsAssumption == FileYears \subseteq Nat /\ None \notin Nat

\* execute refuses a run without factors, and takes batches of at least one.
ASSUME RunAssumption ==
  \A r \in Runs : /\ r.factors \in Seq(DOMAIN Factors) /\ r.factors # <<>>
                  /\ r.first \in Nat /\ r.last \in Nat
                  /\ r.dateBatch \in Nat \ {0} /\ r.factorBatch \in Nat \ {0}

VARIABLES
  run,               \* the run
  groups, queue,     \* the groups still to execute, the date batches still to do of the first
  split, work,       \* its provider batches; the requests of the date batch
  turn,              \* which provider batch of the date batch it is
  stage,             \* what comes next in the batch
  files,             \* the version of each statement file
  cache,             \* DisclosureTableCache
  todo, stamp,       \* the years still to load for the batch, the stamp of the next one
  began, sources,    \* the files when the batch began; its FinancialBatchContext
  inputs, pool,      \* tables shared by the provider batches, tables of this one
  views,             \* what each provider was given
  states,            \* the dates each streaming provider has seen
  results, buffer,   \* values of the provider batch, and those kept for a common write
  written            \* values in the factor files

planVars == <<run, groups, queue, split, work, turn>>
batchVars == <<began, sources, inputs, pool, views, results>>
vars == <<planVars, stage, files, cache, todo, stamp, states, buffer, written, batchVars>>

NoValues == [key \in {} |-> None]

Targets == Between(run.first, run.last)

(* A date batch: its context, the merged requests of the group, and its provider batches with *)
(* theirs and with what each provider asks for.                                               *)
ProviderWork(fs, p, context) ==
  [requests |-> RequirementsOf(ProviderFactors(fs, p), context),
   dates |-> ProviderDates(fs, p, context),
   streams |-> \E f \in ProviderFactors(fs, p) : Factors[f].kind = "stream"]
BatchWork(fs, context) ==
  [factors |-> Elements(fs), requests |-> Merged(RequirementsOf(Elements(fs), context)),
   providers |-> [p \in Elements(Providers(fs)) |-> ProviderWork(fs, p, context)]]
DateWork(fs, context) ==
  [context |-> context, requests |-> Merged(RequirementsOf(Elements(fs), context)),
   batches |-> [b \in DOMAIN split |-> BatchWork(split[b], context)]]

Context == work.context
Batch == work.batches[turn]
Provider(p) == Batch.providers[p]
Window(w) == DisclosureWindow(w.requests, Statement, w.context)
Wanted(w) == DisclosureColumns(w.requests, Statement)
SourceYears(w) == IF Statement \in DataOf(w.requests) THEN Window(w) \cap FileYears ELSE {}

Init ==
  /\ run \in Runs
  /\ groups = IF Targets = {} THEN <<>> ELSE ExecutionGroups(run.factors)
  /\ queue = <<>> /\ split = <<>> /\ work = None /\ turn = 1
  /\ stage = IF Targets = {} THEN "done" ELSE "group"
  /\ files = [y \in FileYears |-> 1]
  /\ cache = [y \in {} |-> None]
  /\ todo = {} /\ stamp = None
  /\ began = files /\ sources = [y \in {} |-> None]
  /\ inputs = None /\ pool = EmptyPool /\ views = [p \in {} |-> None]
  /\ states = [p \in {} |-> <<>>]
  /\ results = NoValues /\ buffer = NoValues /\ written = NoValues

\* An update program replaces a statement file.
UpdateFile(y) ==
  /\ stage \notin {"done", "failed"}
  /\ FoldFunction(+, 0, files) < Cardinality(FileYears) + MaxUpdates
  /\ files' = [files EXCEPT ![y] = @ + 1]
  /\ UNCHANGED <<planVars, stage, cache, todo, stamp, states, buffer, written, batchVars>>

\* The next group: its dates and factors are divided.
BeginGroup ==
  /\ stage = "group"
  /\ queue' = DateBatches(Head(groups), Targets, run.dateBatch)
  /\ split' = ProviderBatches(Head(groups).factors, run.factorBatch)
  /\ stage' = "begin"
  /\ UNCHANGED <<run, groups, work, turn, files, cache, todo, stamp, states, buffer, written, batchVars>>

\* The next date batch: the cache keeps the years and columns its group asks for.
BeginBatch ==
  /\ stage = "begin"
  /\ work' = DateWork(Head(groups).factors, BatchContext(Head(groups), Head(queue), Targets))
  /\ turn' = 1
  /\ cache' = RetainedColumns(cache, Window(work'), Wanted(work'))
  /\ todo' = SourceYears(work')
  /\ began' = files
  /\ stage' = "sources"
  /\ UNCHANGED <<run, groups, queue, split, files, stamp, states, buffer, written,
                 sources, inputs, pool, views, results>>

\* The files of the years in order: a stamp is taken, then the file is read if need be.
Due(y) == stage = "sources" /\ y \in todo /\ \A z \in todo : y <= z
StampYear(y) ==
  /\ Due(y) /\ stamp = None
  /\ stamp' = files[y]
  /\ UNCHANGED <<planVars, stage, files, cache, todo, states, buffer, written, batchVars>>

LoadYear(y) ==
  /\ Due(y) /\ stamp # None
  /\ cache' = IF NeedsReload(cache, y, Wanted(work), stamp)
              THEN Reloaded(cache, y, Wanted(work), stamp, files[y]) ELSE cache
  /\ todo' = todo \ {y}
  /\ stamp' = None
  /\ UNCHANGED <<planVars, stage, files, states, buffer, written, batchVars>>

\* The indices are built, and the inputs that several provider batches use are loaded.
LoadShared ==
  /\ stage = "sources" /\ todo = {}
  /\ cache' = Indexed(cache, SourceYears(work))
  /\ sources' = [y \in SourceYears(work) |-> cache'[y]]
  /\ inputs' = IF Len(split) > 1 THEN LoadReused(work.requests, split, Context) ELSE None
  /\ stage' = "load"
  /\ UNCHANGED <<planVars, files, todo, stamp, states, buffer, written, began, pool, views, results>>

RawDates == IF \E f \in Batch.factors : Factors[f].kind = "raw" THEN Context.load ELSE {}

LoadBatch ==
  /\ stage = "load"
  /\ pool' = [(IF inputs = None THEN LoadInputs(Batch.requests, Context, FALSE)
               ELSE LoadFromBatchInputs(inputs, Batch.requests, Context))
              EXCEPT !.raw = RawDates]
  /\ stage' = "view"
  /\ UNCHANGED <<planVars, files, cache, todo, stamp, states, buffer, written,
                 began, sources, inputs, views, results>>

Seen(p) == IF p \in DOMAIN states THEN states[p] ELSE <<>>

\* Each provider gets its view; a streaming one goes on from the dates it has seen.
MakeViews ==
  /\ stage = "view"
  /\ views' = [p \in DOMAIN Batch.providers |->
                 ViewForRequests(pool, Provider(p).requests, Provider(p).dates)]
  /\ states' = Overlaid(states, [p \in {q \in DOMAIN Batch.providers : Provider(q).streams} |->
                  Seen(p) \o Ascending(Provider(p).dates)])
  /\ stage' = "compute"
  /\ UNCHANGED <<planVars, files, cache, todo, stamp, buffer, written, began, sources, inputs, pool, results>>

\* What a factor's value on a date can be made of: its own window of each of its inputs; a
\* streaming factor sees one date at a time and keeps what it has seen of its window.
History(f, date) == Between(WarmupStart(date, CalendarLookback(f)), date)
Daily(f, date) == IF Factors[f].kind = "stream" THEN {date} ELSE History(f, date)
Lasting(f, w, date) == IF w.dates = "window" THEN Daily(f, date) ELSE {date}
Asks(f, data) == \E w \in Factors[f].wants : w.data = data
PanelWants(f) == {w \in Factors[f].wants : w.data \in PanelData}
ValueOf(f, date, view, seen) ==
  [panels |-> {<<w.data, w.cols \cap view.panels[w.data].cols,
                 view.panels[w.data].dates \cap Lasting(f, w, date)>> : w \in PanelWants(f)},
   minute |-> IF Asks(f, "minute") THEN view.minute \cap Daily(f, date) ELSE {},
   raw |-> IF Factors[f].kind = "raw" THEN view.raw \cap History(f, date) ELSE {},
   universe |-> IF Asks(f, Statement) THEN view.universe \cap Daily(f, date) ELSE {},
   seen |-> seen]

\* A factor fails that reads a panel which is not there; any factor may fail.
Unserved(p) == {r \in Provider(p).requests : r.data \in PanelData /\ r.data \notin DOMAIN views[p].panels}
SeenBy(p, f) ==
  LET n == Len(Seen(p))
      kept == Factors[f].lookback + 1
  IN SubSeq(Seen(p), IF n > kept THEN n - kept + 1 ELSE 1, n)
Compute ==
  /\ stage = "compute"
  /\ \A p \in DOMAIN Batch.providers : Unserved(p) = {}
  /\ results' = [key \in Batch.factors \X Context.targets |->
                   ValueOf(key[1], key[2], views[Factors[key[1]].provider],
                           SeenBy(Factors[key[1]].provider, key[1]))]
  /\ stage' = "write"
  /\ UNCHANGED <<planVars, files, cache, todo, stamp, states, buffer, written,
                 began, sources, inputs, pool, views>>

Fail ==
  /\ stage = "compute"
  /\ stage' = "failed"
  /\ UNCHANGED <<planVars, files, cache, todo, stamp, states, buffer, written, batchVars>>

\* After a provider batch: the next one, or the end of the date batch.
Cleared == /\ pool' = EmptyPool /\ views' = [p \in {} |-> None] /\ results' = NoValues
           /\ UNCHANGED <<run, groups, queue, split, work, files, cache, todo, stamp, states, began, sources, inputs>>
NextProviders ==
  IF turn < Len(split) THEN turn' = turn + 1 /\ stage' = "load"
  ELSE stage' = "finish" /\ UNCHANGED turn

WriteResults ==
  /\ stage = "write" /\ Len(split) = 1
  /\ written' = Overlaid(written, results)
  /\ UNCHANGED buffer
  /\ NextProviders /\ Cleared

KeepResults ==
  /\ stage = "write" /\ Len(split) > 1
  /\ buffer' = Overlaid(buffer, results)
  /\ UNCHANGED written
  /\ NextProviders /\ Cleared

WriteFullBuffer ==
  /\ stage = "write" /\ Len(split) > 1
  /\ written' = Overlaid(written, Overlaid(buffer, results))
  /\ buffer' = NoValues
  /\ NextProviders /\ Cleared

\* The rest of the buffer is written; then the next dates, the next group, or the end.
NextDates ==
  IF Len(queue) > 1 THEN queue' = Tail(queue) /\ stage' = "begin" /\ UNCHANGED groups
  ELSE /\ queue' = <<>> /\ groups' = Tail(groups)
       /\ stage' = IF Len(groups) > 1 THEN "group" ELSE "done"

FinishBatch ==
  /\ stage = "finish"
  /\ written' = Overlaid(written, buffer)
  /\ buffer' = NoValues
  /\ cache' = Retained(cache, Window(work))
  /\ inputs' = None
  /\ sources' = [y \in {} |-> None]
  /\ work' = None
  /\ NextDates
  /\ UNCHANGED <<run, split, turn, files, todo, stamp, states, began, pool, views, results>>

Next ==
  \/ \E y \in FileYears : UpdateFile(y) \/ StampYear(y) \/ LoadYear(y)
  \/ BeginGroup \/ BeginBatch \/ LoadShared
  \/ LoadBatch \/ MakeViews \/ Compute \/ Fail
  \/ WriteResults \/ KeepResults \/ WriteFullBuffer \/ FinishBatch

Spec == Init /\ [][Next]_vars

-----------------------------------------------------------------------------
(* Properties. *)

\* The shared inputs hold rows for other batches, and this batch asks for panels only: its
\* view drops the rows before a panel is built from them.
HiddenPanel(p, data) ==
  /\ inputs # None
  /\ data \in (DOMAIN inputs.rows \ DOMAIN inputs.panels) \cap PanelOnly(Batch.requests)
  /\ data \notin DOMAIN views[p].panels
DeclaredPanel(p, data) ==
  /\ data \in DOMAIN views[p].panels
  /\ views[p].panels[data] = TableOf(For(Provider(p).requests, data))
DeclaredRows(p, data) ==
  LET asked == TableOf(RowRequests(Provider(p).requests, data))
  IN RowRequests(Provider(p).requests, data) # {} =>
       /\ data \in DOMAIN views[p].rows
       /\ asked.cols \subseteq views[p].rows[data].cols
       /\ asked.dates \subseteq views[p].rows[data].dates
       /\ views[p].rows[data].dates \subseteq DatesOf(For(Provider(p).requests, data))

\* Whatever is loaded for the date batch and for the providers computed with it, a provider's
\* view has exactly the panels, dates and columns it declared, and the rows it asked for; the
\* one exception is a panel hidden by shared rows, on which its factors fail
\* (view_for_requests, load_from_batch_inputs).
ViewsAsDeclared ==
  \A p \in DOMAIN views :
    /\ DOMAIN views[p].panels \cup DOMAIN views[p].rows \subseteq DataOf(Provider(p).requests)
    /\ \A data \in DataOf(Provider(p).requests) \cap PanelData :
         (DeclaredPanel(p, data) \/ HiddenPanel(p, data)) /\ DeclaredRows(p, data)

\* An input declared panel-only has its panel in the view, shared or built for the batch
\* (load_reused_batch_inputs, load_from_batch_inputs, compute_factor_batch).
PanelsServed ==
  stage = "compute" =>
    \A p \in DOMAIN views : \A r \in Provider(p).requests :
      r.panelOnly /\ r.data \in PanelData => r.data \in DOMAIN views[p].panels

\* Every value written is made of the factor's whole window of each of its inputs, as if it
\* were computed alone for that date: the division into groups, date batches and provider
\* batches, and the dates a streaming provider saw before, leave no trace. A run that ends
\* well has written every factor on every target date, and nothing else (execute).
Alone(f, date) ==
  [panels |-> {<<w.data, w.cols, Lasting(f, w, date)>> : w \in PanelWants(f)},
   minute |-> IF Asks(f, "minute") THEN Daily(f, date) ELSE {},
   raw |-> IF Factors[f].kind = "raw" THEN History(f, date) ELSE {},
   universe |-> IF Asks(f, Statement) THEN Daily(f, date) ELSE {},
   seen |-> IF Factors[f].kind = "stream" THEN Ascending(History(f, date)) ELSE <<>>]
ValuesAsAlone ==
  /\ \A key \in DOMAIN written : written[key] = Alone(key[1], key[2])
  /\ DOMAIN written \subseteq Elements(run.factors) \X Targets
  /\ stage = "done" => DOMAIN written = Elements(run.factors) \X Targets

\* The statements a date batch computes with are those of its whole window, no older than the
\* files were when the batch began although years are kept from batch to batch and files are
\* replaced between a stamp and a read, have every column the group asks for, and come with
\* an index of that very table (DisclosureTableCache).
SourcesCurrent ==
  /\ stage \in {"load", "view", "compute", "write", "finish"} => DOMAIN sources = SourceYears(work)
  /\ \A y \in DOMAIN sources :
       /\ sources[y].version >= began[y]
       /\ Wanted(work) \subseteq sources[y].cols
       /\ sources[y].index = [cols |-> sources[y].cols, version |-> sources[y].version]
=============================================================================
