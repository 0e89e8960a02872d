------------------------------ MODULE DataPool ------------------------------
(***************************************************************************)
(* The tables behind a batch of factors (factor_engine/src/data/pool.rs):  *)
(* what is loaded once for all provider batches of a date batch, what each *)
(* of them adds, and the view one provider gets.  A table is the dates it  *)
(* has rows for and its columns; a pool holds daily panels and row tables  *)
(* by dataset, the dates of the minute tables, of the raw panel and of the *)
(* stock universe.                                                         *)
(***************************************************************************)
EXTENDS EnginePlan, TLC

CONSTANT BarraData     \* panels that are loaded by the rule of Barra exposures

NoTables == [data \in {} |-> [dates |-> {}, cols |-> {}]]
EmptyPool == [panels |-> NoTables, rows |-> NoTables, minute |-> {}, raw |-> {}, universe |-> {}]
TableOf(requests) == [dates |-> DatesOf(requests), cols |-> ColumnsOf(requests)]
Has(tables, r) == r.data \in DOMAIN tables /\ r.cols \subseteq tables[r.data].cols

PanelOnly(requests) ==
  {data \in DataOf(requests) \cap PanelData : \A r \in For(requests, data) : r.panelOnly}
RowRequests(requests, data) == {r \in For(requests, data) : ~r.panelOnly}

\* The row table is smaller than the panel: it keeps only what rows were asked for.
NarrowRows(requests, data) ==
  /\ data \notin BarraData
  /\ \/ Cardinality(DatesOf(RowRequests(requests, data))) < Cardinality(DatesOf(For(requests, data)))
     \/ Cardinality(ColumnsOf(RowRequests(requests, data))) < Cardinality(ColumnsOf(For(requests, data)))

\* Deferred panels are built by each provider batch from the rows.
LoadInputs(requests, context, deferred) ==
  LET daily == DataOf(requests) \cap PanelData
      panelOnly == PanelOnly(requests)
      built == {data \in daily : ~deferred \/ data \in panelOnly \/ NarrowRows(requests, data)}
  IN [panels |-> [data \in built |-> TableOf(For(requests, data))],
      rows |-> [data \in daily \ panelOnly |->
                  TableOf(IF deferred /\ NarrowRows(requests, data)
                          THEN RowRequests(requests, data) ELSE For(requests, data))],
      minute |-> IF "minute" \in DataOf(requests) THEN context.load ELSE {},
      raw |-> {},
      universe |-> IF Statement \in DataOf(requests) THEN context.load ELSE {}]

\* Inputs of a date batch that more than one of its provider batches uses.
LoadReused(requests, batches, context) ==
  LET Users(data) == {i \in DOMAIN batches :
                        \E f \in Elements(batches[i]) : data \in DataOf(Factors[f].wants)}
      reused == {r \in requests : r.data = Statement \/ Cardinality(Users(r.data)) > 1}
  IN LoadInputs({r \in reused : r.data # "minute"}, context, TRUE)

\* Faulty variant: the shared panel keeps the dates of everybody's requests.
ProjectedOnly(table, requests) == [table EXCEPT !.cols = @ \cap ColumnsOf(requests)]

\* The part of a pool that requests speak of; dates is what a stock universe keeps.
Sliced(table, requests) == [dates |-> table.dates \cap DatesOf(requests), cols |-> table.cols]
Projected(table, requests) ==
  [dates |-> table.dates \cap DatesOf(requests), cols |-> table.cols \cap ColumnsOf(requests)]
ViewForRequests(pool, requests, dates) ==
  [panels |-> [data \in DOMAIN pool.panels \cap DataOf(requests) |->
                 Projected(pool.panels[data], For(requests, data))],
   rows |-> [data \in (DOMAIN pool.rows \cap DataOf(requests)) \ PanelOnly(requests) |->
               Sliced(pool.rows[data], For(requests, data))],
   minute |-> pool.minute,
   raw |-> pool.raw,
   universe |-> IF Statement \in DataOf(requests) THEN pool.universe \cap dates ELSE pool.universe]

\* A provider batch: its view of the shared inputs, panels built from shared rows, and a
\* load of its own for the datasets the shared inputs do not have.
Overlaid(tables, others) ==
  [data \in DOMAIN tables \cup DOMAIN others |->
     IF data \in DOMAIN others THEN others[data] ELSE tables[data]]
BuiltPanels(pool, requests) ==
  [data \in DOMAIN pool.rows \ DOMAIN pool.panels |->
     [dates |-> pool.rows[data].dates, cols |-> pool.rows[data].cols \cap ColumnsOf(For(requests, data))]]
Uncached(inputs, requests) ==
  {r \in requests : r.data # Statement /\ ~Has(inputs.rows, r) /\ ~Has(inputs.panels, r)}
LoadFromBatchInputs(inputs, requests, context) ==
  LET view == ViewForRequests(inputs, requests, context.load)
      missing == DataOf(Uncached(inputs, requests))
      own == LoadInputs({r \in requests : r.data \in missing}, context, FALSE)
  IN [panels |-> Overlaid(Overlaid(view.panels, BuiltPanels(view, requests)), own.panels),
      rows |-> Overlaid(view.rows, own.rows),
      minute |-> IF own.minute = {} THEN view.minute ELSE own.minute,
      raw |-> view.raw,
      universe |-> view.universe]
=============================================================================
