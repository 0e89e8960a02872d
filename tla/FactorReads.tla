----------------------------- MODULE FactorReads -----------------------------
(***************************************************************************)
(* FactorFiles composed with its readers, who take no lock: the Rust reader *)
(* (FactorFiles::read, and read_many, which makes all its plans before it   *)
(* opens the first file) and the Python one (FactorFiles.read). A reader    *)
(* touches the two files in several steps; each touch sees one complete     *)
(* published file, and programs may publish between two touches.            *)
(***************************************************************************)
EXTENDS FactorFiles

CONSTANT Readers      \* each of their reads is made by either implementation

VARIABLES
  rpc,       \* per reader: what it does next
  want,      \* per reader: the requested value columns
  found,     \* per reader: the files it saw to exist
  schema,    \* per reader and file: the requested columns it found there
  got,       \* per reader: the columns read so far, finally the result
  window     \* per reader: every value each column of the view had since it began

readVars == <<rpc, want, found, schema, got, window>>

ReaderPcs == {"idle", "statMl", "primary", "finish", "schemaMl", "schemaManual",
              "dataMl", "dataManual", "done", "error"}

AllManual(cs) == \A c \in cs : Owner[c] = "manual"

\* manual_needed: a manual-owned column, or one the ML file did not show.
ManualNeeded(r) == \E c \in want[r] : Owner[c] = "manual" \/ c \notin schema[r]["ml"]

\* The requested columns of cs as file f holds them now, over what is read already.
Fetch(r, f, cs) == [c \in Columns |-> IF c \in cs THEN tab[f][c] ELSE got[r][c]]

\* The step after the existence tests, in Rust and in Python.
FirstLooks == {"primary", "schemaMl"}

Step(r, l) == rpc' = [rpc EXCEPT ![r] = l]

-----------------------------------------------------------------------------
\* read_plan / _paths: does the manual file exist, and then the ML file?
Begin(r) ==
  /\ rpc[r] \in {"idle", "done", "error"}
  /\ \E cs \in (SUBSET Columns) \ {{}} : want' = [want EXCEPT ![r] = cs]
  /\ found' = [found EXCEPT ![r] = {f \in {"manual"} : present[f]}]
  /\ schema' = [schema EXCEPT ![r] = [f \in Parts |-> {}]]
  /\ got' = [got EXCEPT ![r] = Empty]
  /\ window' = [window EXCEPT ![r] = [c \in Columns |-> {View[c]}]]
  /\ Step(r, "statMl")

StatMl(r) ==
  /\ rpc[r] = "statMl"
  /\ found' = [found EXCEPT ![r] = @ \union {f \in {"ml"} : present[f]}]
  /\ IF found'[r] = {} THEN Step(r, "done") ELSE \E l \in FirstLooks : Step(r, l)
  /\ UNCHANGED <<want, schema, got, window>>

\* ReadPlan.primary_ml
PrimaryMl(r) == "ml" \in found[r] /\ ~(AllManual(want[r]) /\ "manual" \in found[r])

\* read_primary: one file, with manual-owned columns excluded from the ML file.
Primary(r) ==
  /\ rpc[r] = "primary"
  /\ LET f  == IF PrimaryMl(r) THEN "ml" ELSE "manual"
         cs == {c \in want[r] \intersect InFile(f) : f = "ml" => Owner[c] # "manual"}
     IN  /\ got' = [got EXCEPT ![r] = Fetch(r, f, cs)]
         /\ schema' = [schema EXCEPT ![r][f] = cs]
  /\ Step(r, "finish")
  /\ UNCHANGED <<want, found, window>>

\* Faulty variant: the manual file's copies win over the ML file's.
FinishOverwrites(r) ==
  /\ rpc[r] = "finish"
  /\ IF PrimaryMl(r) /\ "manual" \in found[r] /\ ManualNeeded(r)
       THEN got' = [got EXCEPT ![r] = Fetch(r, "manual", want[r] \intersect InFile("manual"))]
       ELSE UNCHANGED got
  /\ Step(r, "done")
  /\ UNCHANGED <<want, found, schema, window>>

\* finish_read: the manual file, when the ML file did not answer everything.
Finish(r) ==
  /\ rpc[r] = "finish"
  /\ IF PrimaryMl(r) /\ "manual" \in found[r] /\ ManualNeeded(r)
       THEN got' = [got EXCEPT ![r] = Fetch(r, "manual", want[r] \ schema[r]["ml"])]
       ELSE UNCHANGED got
  /\ Step(r, "done")
  /\ UNCHANGED <<want, found, schema, window>>

-----------------------------------------------------------------------------
(* The Python reader looks at both schemas, then reads both files.          *)

SchemaMl(r) ==
  /\ rpc[r] = "schemaMl"
  /\ schema' = [schema EXCEPT ![r]["ml"] =
       {c \in want[r] \intersect InFile("ml") : ~AllManual(want[r]) /\ "ml" \in found[r]}]
  /\ Step(r, "schemaManual")
  /\ UNCHANGED <<want, found, got, window>>

SchemaManual(r) ==
  /\ rpc[r] = "schemaManual"
  /\ schema' = [schema EXCEPT ![r]["manual"] =
       {c \in want[r] \intersect InFile("manual") : "manual" \in found[r] /\ ManualNeeded(r)}]
  /\ Step(r, "dataMl")
  /\ UNCHANGED <<want, found, got, window>>

\* groups: the file each requested column is to be read from.
Group(r, f) ==
  LET fromMl == {c \in schema[r]["ml"] : Owner[c] # "manual"}
  IN  IF f = "ml" THEN fromMl ELSE schema[r]["manual"] \ fromMl

\* A column that left the file since its schema was read is an error.
Data(r, f, l) ==
  /\ IF Group(r, f) \subseteq InFile(f)
       THEN got' = [got EXCEPT ![r] = Fetch(r, f, Group(r, f))] /\ Step(r, l)
       ELSE Step(r, "error") /\ UNCHANGED got
  /\ UNCHANGED <<want, found, schema, window>>

DataMl(r) == rpc[r] = "dataMl" /\ Data(r, "ml", "dataManual")
DataManual(r) == rpc[r] = "dataManual" /\ Data(r, "manual", "done")

Reader(r) ==
  \/ Begin(r) \/ StatMl(r) \/ Primary(r) \/ Finish(r)
  \/ SchemaMl(r) \/ SchemaManual(r) \/ DataMl(r) \/ DataManual(r)

-----------------------------------------------------------------------------
InitReads ==
  /\ Init
  /\ rpc = [r \in Readers |-> "idle"]
  /\ want = [r \in Readers |-> {}]
  /\ found = [r \in Readers |-> {}]
  /\ schema = [r \in Readers |-> [f \in Parts |-> {}]]
  /\ got = [r \in Readers |-> Empty]
  /\ window = [r \in Readers |-> [c \in Columns |-> {}]]

\* A program's step; readers under way remember what the view becomes.
Publication ==
  /\ Next
  /\ window' = [r \in Readers |-> [c \in Columns |->
       IF rpc[r] \in {"idle", "done", "error"} THEN window[r][c] ELSE window[r][c] \union {View'[c]}]]
  /\ UNCHANGED <<rpc, want, found, schema, got>>

NextReads == Publication \/ \E r \in Readers : Reader(r) /\ UNCHANGED vars

SpecReads == InitReads /\ [][NextReads]_<<vars, readVars>>

-----------------------------------------------------------------------------
\* A column a reader returns - or leaves out - is what the logical table held at
\* some moment of the read: never an ML column masked by its legacy copy, a manual
\* column taken from the ML file, or a column missing that was there throughout.
ReadsLogicalTable ==
  \A r \in Readers : rpc[r] = "done" => \A c \in want[r] : got[r][c] \in window[r][c]
=============================================================================
