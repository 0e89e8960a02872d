--------------------------- MODULE MCFactorEngine ---------------------------
(* Small runs of FactorEngine: every selection of two or three of nine factors. *)
EXTENDS FactorEngine

Want(data, cols, dates, panelOnly) ==
  [data |-> data, cols |-> cols, dates |-> dates, panelOnly |-> panelOnly, quarters |-> 0]
Report(cols, quarters) ==
  [data |-> "income", cols |-> cols, dates |-> "window", panelOnly |-> FALSE, quarters |-> quarters]
Factor(provider, kind, lookback, wants) ==
  [provider |-> provider, kind |-> kind, lookback |-> lookback,
   rawLookback |-> IF kind = "raw" THEN 2 ELSE 0, wants |-> wants]

Registry == <<
  Factor("return", "daily", 2, {Want("pv", {"close"}, "window", FALSE)}),
  Factor("panel", "daily", 1, {Want("pv", {"close"}, "window", TRUE), Want("size", {"SIZE"}, "targets", TRUE)}),
  Factor("volume", "daily", 1, {Want("pv", {"vol"}, "window", FALSE), Want("size", {"SIZE"}, "window", FALSE)}),
  Factor("return", "daily", 0, {Want("pv", {"vol"}, "targets", TRUE)}),
  Factor("profit", "daily", 1, {Report({"profit"}, 8), Want("size", {"SIZE"}, "targets", FALSE)}),
  Factor("sales", "daily", 0, {Report({"sales"}, 0), Want("pv", {"close"}, "targets", TRUE)}),
  Factor("beta", "stream", 2, {Want("minute", {"close"}, "window", FALSE), Want("size", {"SIZE"}, "window", FALSE)}),
  Factor("tail", "minute", 1, {Want("minute", {"close"}, "window", FALSE), Want("pv", {"close"}, "window", FALSE)}),
  Factor("spread", "raw", 1, {Report({"sales"}, 8), Want("size", {"SIZE"}, "targets", TRUE)}) >>

Calendar == {31, 32, 34, 41, 42, 43}
Years == {1, 3, 4}
Selections == {S \in SUBSET (1 .. Len(Registry)) : Cardinality(S) \in {2, 3}}
Shapes == {[first |-> 32, last |-> 40, dateBatch |-> 1, factorBatch |-> 1],
           [first |-> 34, last |-> 42, dateBatch |-> 2, factorBatch |-> 1],
           [first |-> 42, last |-> 43, dateBatch |-> 2, factorBatch |-> 2]}
SmallRuns ==
  {[factors |-> Ascending(S), first |-> shape.first, last |-> shape.last,
    dateBatch |-> shape.dateBatch, factorBatch |-> shape.factorBatch] : S \in Selections, shape \in Shapes}

\* One factor that reads rows beside one that reads the panel only, a provider batch each.
RowsBesidePanel == {r \in SmallRuns : r.factors = <<1, 2>>}
=============================================================================
