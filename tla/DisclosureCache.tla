--------------------------- MODULE DisclosureCache ---------------------------
(***************************************************************************)
(* The yearly tables of financial statements that a run keeps between      *)
(* batches (DisclosureTableCache of factor_engine/src/data/loader.rs).     *)
(* A file's content is its version, and so is its stamp (length and time). *)
(* An entry: the columns loaded, the version read, the stamp taken before  *)
(* the read, and the index, once built, with the columns and version it    *)
(* was built from.                                                         *)
(***************************************************************************)
EXTENDS EnginePlan

NoIndex == [cols |-> {}, version |-> 0]
IndexOf(entry) == [cols |-> entry.cols, version |-> entry.version]

\* Years outside the windows go; columns nobody asks for any more go, and the index with them.
Narrowed(entry, cols) ==
  IF entry.cols \subseteq cols THEN entry
  ELSE [entry EXCEPT !.cols = @ \cap cols, !.index = NoIndex]
Retained(cache, years) == [y \in DOMAIN cache \cap years |-> cache[y]]
RetainedColumns(cache, years, cols) ==
  [y \in DOMAIN Retained(cache, years) |-> Narrowed(cache[y], cols)]

\* Faulty variant: a year that has the columns is never read again.
NeedsReloadByColumns(cache, year, cols, stamp) ==
  year \in DOMAIN cache => ~(cols \subseteq cache[year].cols)

\* A year is read when it is not there, lacks a column, or has another stamp than its file.
NeedsReload(cache, year, cols, stamp) ==
  year \in DOMAIN cache => ~(cols \subseteq cache[year].cols) \/ cache[year].stamp # stamp
Reloaded(cache, year, cols, stamp, version) ==
  LET kept == IF year \in DOMAIN cache THEN cache[year].cols ELSE {}
      entry == [cols |-> kept \cup cols, version |-> version, stamp |-> stamp, index |-> NoIndex]
  IN [y \in DOMAIN cache \cup {year} |-> IF y = year THEN entry ELSE cache[y]]

Indexed(cache, years) ==
  [y \in DOMAIN cache |->
     IF y \in years /\ cache[y].index = NoIndex
     THEN [cache[y] EXCEPT !.index = IndexOf(cache[y])] ELSE cache[y]]
=============================================================================
