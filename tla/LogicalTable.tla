---------------------------- MODULE LogicalTable ----------------------------
(***************************************************************************)
(* What FactorFiles promises to the readers and writers of one trade date   *)
(* (src/ml_alpha/docs/FACTOR_FILE_PARTITIONS.md is its description): one     *)
(* table of factor columns, each a cross-section of stocks. Manual          *)
(* production patches single cells of manual columns, an ML run replaces    *)
(* whole ML columns, a column that never existed may be declared as nulls,  *)
(* and removal takes columns away. Nothing here knows of two files, of a    *)
(* migration between them, of locks or of interrupted writers.              *)
(***************************************************************************)
CONSTANTS Columns, Owner,     \* the columns and who registered each: "manual", "ml", "none"
          Syms, Cells, Null,  \* stocks, cell values, the null cell
          Keep,               \* a cell an update does not mention
          Absent              \* a column that is not in the table

Sections == [Syms -> Cells]

\* Updates: the named columns with their new cells, Absent for the others.
Updates(cs, cells) == [cs -> [Syms -> cells] \union {Absent}]

VARIABLE table

Patched(old, new) ==
  [s \in Syms |-> IF new[s] # Keep THEN new[s] ELSE IF old = Absent THEN Null ELSE old[s]]

\* A table or file with an update applied.
Overlay(t, u) == [c \in Columns |-> IF u[c] = Absent THEN t[c] ELSE Patched(t[c], u[c])]

Owned(o) == {c \in Columns : Owner[c] \in o}

Extend(u) == [c \in Columns |-> IF c \in DOMAIN u THEN u[c] ELSE Absent]

Init == table \in [Columns -> Sections \union {Absent}]

WriteManual ==
  \E u \in Updates(Owned({"manual"}), Cells \union {Keep}) : table' = Overlay(table, Extend(u))

WriteMl ==
  \E u \in Updates(Owned({"ml", "none"}), Cells) : table' = Overlay(table, Extend(u))

\* Declaring a column fills it with nulls only where it did not exist.
Declare ==
  \E c \in Owned({"ml", "none"}) :
    /\ table[c] = Absent
    /\ table' = [table EXCEPT ![c] = [s \in Syms |-> Null]]

Remove ==
  \E cs \in SUBSET Columns :
    table' = [c \in Columns |-> IF c \in cs THEN Absent ELSE table[c]]

Next == WriteManual \/ WriteMl \/ Declare \/ Remove

Spec == Init /\ [][Next]_table
=============================================================================
