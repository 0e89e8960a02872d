----------------------------- MODULE FactorFiles -----------------------------
(***************************************************************************)
(* The daily factor files of one trade date: YYYYMMDD.parquet ("manual")    *)
(* and YYYYMMDD_ml.parquet ("ml"), and every program that writes them:      *)
(*   - the Rust factor engine (storage.rs), which patches manual columns;   *)
(*   - the Python ML writer (daily_wide_writer.py), which replaces whole ML *)
(*     columns and pads its column on dates it has no prediction for;       *)
(*   - migrate-factor-files (factor_files.rs), which moves ML columns out   *)
(*     of an old mixed manual file;                                         *)
(*   - remove-factor-columns (storage.rs, main.rs).                         *)
(* Each holds the file's advisory lock from its read to its publication and *)
(* publishes by renaming a complete file; the lock is the operating         *)
(* system's, so a program that dies releases it and publishes nothing.      *)
(*                                                                          *)
(* A file is a function of its columns, a column a function of the stocks;  *)
(* a stock without a row and a null cell read alike, so rows are not kept.  *)
(***************************************************************************)
EXTENDS FiniteSets

CONSTANTS Columns, Owner, Syms, Cells, Null, Keep, Absent,
          ManualWriters, MlWriters, Migrators, Removers,  \* the running programs
          Free,                   \* the owner of a lock nobody holds
          LegacyColumns,          \* ML columns an old mixed manual file may hold
          Ensured,                \* columns for which an ML run ensures an output column
          Removable               \* columns that a removal may name

ASSUME OwnerAssumption == Owner \in [Columns -> {"manual", "ml", "none"}]
ASSUME CellAssumption  == Null \in Cells /\ Keep \notin Cells
ASSUME AbsentAssumption == Absent \notin [Syms -> Cells \union {Keep}]
ASSUME LegacyAssumption == LegacyColumns \subseteq Columns
ASSUME EnsuredAssumption == \A c \in Ensured : c \in Columns /\ Owner[c] # "manual"
Programs == ManualWriters \union MlWriters \union Migrators \union Removers
ASSUME RemovableAssumption == Removable \subseteq Columns
ASSUME FreeAssumption == Free \notin Programs
ASSUME KindsAssumption ==
  /\ ManualWriters \intersect (MlWriters \union Migrators \union Removers) = {}
  /\ MlWriters \intersect (Migrators \union Removers) = {}
  /\ Migrators \intersect Removers = {}

Parts == {"manual", "ml"}

VARIABLES
  tab,       \* per file: its columns
  present,   \* per file: it exists
  lock,      \* per file: who holds <file>.lock
  pc,        \* per program: what it does next
  part,      \* per program: the file it works on
  upd,       \* per program: the values it was asked to write
  cols,      \* per program: the columns it moves or removes
  todo,      \* per remover: files of its directory listing not yet handled
  buf        \* per program: the complete file it is about to publish

locals == <<part, upd, cols, todo, buf>>
vars   == <<tab, present, lock, pc, part, upd, cols, todo, buf>>

\* The view a reader must see: the logical table of LogicalTable, as read.
View == [c \in Columns |->
  IF Owner[c] # "manual" /\ tab["ml"][c] # Absent THEN tab["ml"][c] ELSE tab["manual"][c]]

LT == INSTANCE LogicalTable WITH table <- View

Sections  == [Syms -> Cells]
Empty     == [c \in Columns |-> Absent]
Tables    == [Columns -> Sections \union {Absent}]
InFile(f) == {c \in Columns : tab[f][c] # Absent}
Owned(o)  == {c \in Columns : Owner[c] \in o}
Nulls     == [s \in Syms |-> Null]

ManualUpdates == {LT!Extend(u) : u \in LT!Updates(Owned({"manual"}), Cells \union {Keep})} \ {Empty}
MlUpdates     == {LT!Extend(u) : u \in LT!Updates(Owned({"ml", "none"}), Cells)} \ {Empty}

Pcs == {"idle", "merge", "publish", "ensure", "pad", "publishPad", "plan", "lockMl", "check", "publishMl",
        "reread", "publishManual", "remove", "strip", "publishRest"}

-----------------------------------------------------------------------------
(* Steps that programs share.                                               *)

Goto(p, l) == pc' = [pc EXCEPT ![p] = l]

\* Faulty variant: the lock is taken whoever holds it.
AcquireAny(p, f) == lock' = [lock EXCEPT ![f] = p]

\* artifact_io::lock / daily_file_lock on file f.
Acquire(p, f) ==
  /\ lock[f] = Free
  /\ lock' = [lock EXCEPT ![f] = p]

Released(p) == [f \in Parts |-> IF lock[f] = p THEN Free ELSE lock[f]]

\* The program's locals go out of scope.
Forget(p) ==
  /\ part' = [part EXCEPT ![p] = "manual"]
  /\ upd' = [upd EXCEPT ![p] = Empty]
  /\ cols' = [cols EXCEPT ![p] = {}]
  /\ todo' = [todo EXCEPT ![p] = {}]
  /\ buf' = [buf EXCEPT ![p] = Empty]

\* An operation ends: locks released, locals gone.
End(p) == Goto(p, "idle") /\ lock' = Released(p) /\ Forget(p)

\* Atomic rename of a complete temporary file.
Rename(p, f) ==
  /\ tab' = [tab EXCEPT ![f] = buf[p]]
  /\ present' = [present EXCEPT ![f] = TRUE]

\* An error or the death of the program: locks released, nothing published.
Fail(p) ==
  /\ pc[p] # "idle"
  /\ End(p)
  /\ UNCHANGED <<tab, present>>

-----------------------------------------------------------------------------
(* Manual production (OutputBatch::write, write_results_with_progress) and  *)
(* ML prediction (_write_columns_one): lock, read and merge, publish.       *)

BeginWrite(p, f, updates) ==
  /\ pc[p] = "idle"
  /\ Acquire(p, f)
  /\ \E u \in updates : upd' = [upd EXCEPT ![p] = u]
  /\ part' = [part EXCEPT ![p] = f]
  /\ Goto(p, "merge")
  /\ UNCHANGED <<tab, present, cols, todo, buf>>

\* Faulty variants: cells the update does not mention keep no value; the columns the
\* update does not mention are dropped.
MergedUnfilled(p) == [c \in Columns |-> IF upd[p][c] = Absent THEN tab[part[p]][c] ELSE upd[p][c]]
MergedAlone(p) == LT!Overlay(Empty, upd[p])

\* merge_factor_columns: explicit nulls overwrite, other columns and cells stay.
\* _write_columns_one: the named columns are dropped, then joined anew.
Merged(p) == LT!Overlay(tab[part[p]], upd[p])

\* _load_base refuses an ML file that holds a manual-owned column.
MlFileForeign == \E c \in InFile("ml") : Owner[c] = "manual"

Merge(p) ==
  /\ pc[p] \in {"merge", "pad"}
  /\ part[p] = "ml" => ~MlFileForeign
  /\ buf' = [buf EXCEPT ![p] = Merged(p)]
  /\ Goto(p, IF pc[p] = "merge" THEN "publish" ELSE "publishPad")
  /\ UNCHANGED <<tab, present, lock, part, upd, cols, todo>>

Publish(p) ==
  /\ pc[p] \in {"publish", "publishPad"}
  /\ Rename(p, part[p])
  /\ End(p)

\* dates_missing_output_column: the unlocked look for a missing own column.
BeginEnsure(p) ==
  /\ pc[p] = "idle"
  /\ \E c \in Ensured \ InFile("ml") :
       upd' = [upd EXCEPT ![p] = [Empty EXCEPT ![c] = Nulls]]
  /\ part' = [part EXCEPT ![p] = "ml"]
  /\ Goto(p, "ensure")
  /\ UNCHANGED <<tab, present, lock, cols, todo, buf>>

\* Faulty variant: the column is padded without a second look.
EnsureBlind(p) ==
  /\ pc[p] = "ensure"
  /\ Acquire(p, "ml") /\ Goto(p, "pad")
  /\ UNCHANGED <<tab, present, locals>>

\* _ensure_output_column_one looks again under the lock before it pads.
Ensure(p) ==
  /\ pc[p] = "ensure"
  /\ lock["ml"] = Free
  /\ IF \E c \in InFile("ml") : upd[p][c] # Absent
       THEN End(p)
       ELSE Acquire(p, "ml") /\ Goto(p, "pad") /\ UNCHANGED locals
  /\ UNCHANGED <<tab, present>>

-----------------------------------------------------------------------------
(* FactorFiles::migrate.                                                    *)

BeginMigrate(p) ==
  /\ pc[p] = "idle" /\ present["manual"]
  /\ Acquire(p, "manual")
  /\ Goto(p, "plan")
  /\ UNCHANGED <<tab, present, locals>>

\* Nothing to move, or a dry run: return; else go for the ML file's lock.
PlanMigrate(p) ==
  /\ pc[p] = "plan"
  /\ LET moving == InFile("manual") \intersect Owned({"ml"}) IN
       \/ End(p)
       \/ /\ moving # {}
          /\ cols' = [cols EXCEPT ![p] = moving]
          /\ Goto(p, "lockMl")
          /\ UNCHANGED <<lock, part, upd, todo, buf>>
  /\ UNCHANGED <<tab, present>>

LockMl(p) ==
  /\ pc[p] = "lockMl"
  /\ Acquire(p, "ml")
  /\ Goto(p, "check")
  /\ UNCHANGED <<tab, present, locals>>

\* Faulty variant: the legacy copy replaces a column the ML file already has.
BuildMlFromLegacy(p) ==
  /\ pc[p] = "check" /\ ~MlFileForeign
  /\ buf' = [buf EXCEPT ![p] = [c \in Columns |->
               IF c \in cols[p] THEN tab["manual"][c] ELSE tab["ml"][c]]]
  /\ Goto(p, "publishMl")
  /\ UNCHANGED <<tab, present, lock, part, upd, cols, todo>>

\* The new ML file: the moved columns and those it already has, as read logically.
BuildMl(p) ==
  /\ pc[p] = "check" /\ ~MlFileForeign
  /\ buf' = [buf EXCEPT ![p] = [c \in Columns |->
               IF c \in cols[p] \union InFile("ml") THEN View[c] ELSE Absent]]
  /\ Goto(p, "publishMl")
  /\ UNCHANGED <<tab, present, lock, part, upd, cols, todo>>

PublishMl(p) ==
  /\ pc[p] = "publishMl"
  /\ Rename(p, "ml")
  /\ Goto(p, "reread")
  /\ UNCHANGED <<lock, locals>>

\* The manual file without the moved columns.
BuildManual(p) ==
  /\ pc[p] = "reread"
  /\ buf' = [buf EXCEPT ![p] = [c \in Columns |->
               IF c \in cols[p] THEN Absent ELSE tab["manual"][c]]]
  /\ Goto(p, "publishManual")
  /\ UNCHANGED <<tab, present, lock, part, upd, cols, todo>>

PublishManual(p) ==
  /\ pc[p] = "publishManual"
  /\ Rename(p, "manual")
  /\ End(p)

-----------------------------------------------------------------------------
(* remove-factor-columns: the listed files of the date, one after another,  *)
(* each under its own lock (FactorStorage::remove_columns).                 *)

BeginRemove(p) ==
  /\ pc[p] = "idle"
  /\ \E cs \in (SUBSET Removable) \ {{}} : cols' = [cols EXCEPT ![p] = cs]
  /\ todo' = [todo EXCEPT ![p] = {f \in Parts : present[f]}]
  /\ Goto(p, "remove")
  /\ UNCHANGED <<tab, present, lock, part, upd, buf>>

\* Faulty variant: the file is rewritten without its lock.
LockRemoveFree(p) ==
  /\ pc[p] = "remove"
  /\ \E f \in todo[p] : part' = [part EXCEPT ![p] = f]
  /\ Goto(p, "strip")
  /\ UNCHANGED <<tab, present, lock, upd, cols, todo, buf>>

LockRemove(p) ==
  /\ pc[p] = "remove"
  /\ \E f \in todo[p] : Acquire(p, f) /\ part' = [part EXCEPT ![p] = f]
  /\ Goto(p, "strip")
  /\ UNCHANGED <<tab, present, upd, cols, todo, buf>>

\* One listed file is done: its lock is released, the rest remains.
NextFile(p) ==
  /\ lock' = Released(p)
  /\ todo' = [todo EXCEPT ![p] = @ \ {part[p]}]
  /\ part' = [part EXCEPT ![p] = "manual"]
  /\ buf' = [buf EXCEPT ![p] = Empty]
  /\ Goto(p, "remove")
  /\ UNCHANGED <<upd, cols>>

Strip(p) ==
  /\ pc[p] = "strip"
  /\ IF cols[p] \intersect InFile(part[p]) = {}
       THEN NextFile(p)
       ELSE /\ buf' = [buf EXCEPT ![p] = [c \in Columns |->
                         IF c \in cols[p] THEN Absent ELSE tab[part[p]][c]]]
            /\ Goto(p, "publishRest")
            /\ UNCHANGED <<lock, part, upd, cols, todo>>
  /\ UNCHANGED <<tab, present>>

PublishRest(p) ==
  /\ pc[p] = "publishRest"
  /\ Rename(p, part[p])
  /\ NextFile(p)

\* The command has been through its listing.
EndRemove(p) ==
  /\ pc[p] = "remove" /\ todo[p] = {}
  /\ End(p)
  /\ UNCHANGED <<tab, present>>

-----------------------------------------------------------------------------
\* An old library: the manual file may be missing, or hold manual columns and
\* legacy ML ones; the ML file may be missing, or hold ML columns.
Init ==
  /\ tab \in [Parts -> Tables]
  /\ present \in [Parts -> BOOLEAN]
  /\ \A f \in Parts : present[f] \/ tab[f] = Empty
  /\ InFile("manual") \subseteq Owned({"manual"}) \union LegacyColumns
  /\ InFile("ml") \subseteq Owned({"ml", "none"})
  /\ lock = [f \in Parts |-> Free]
  /\ pc = [p \in Programs |-> "idle"]
  /\ part = [p \in Programs |-> "manual"]
  /\ upd = [p \in Programs |-> Empty]
  /\ cols = [p \in Programs |-> {}]
  /\ todo = [p \in Programs |-> {}]
  /\ buf = [p \in Programs |-> Empty]

ManualWriter(p) == BeginWrite(p, "manual", ManualUpdates) \/ Merge(p) \/ Publish(p)

MlWriter(p) ==
  \/ BeginWrite(p, "ml", MlUpdates)
  \/ BeginEnsure(p) \/ Ensure(p) \/ Merge(p) \/ Publish(p)

Migrator(p) ==
  \/ BeginMigrate(p) \/ PlanMigrate(p) \/ LockMl(p) \/ BuildMl(p) \/ PublishMl(p)
  \/ BuildManual(p) \/ PublishManual(p)

Remover(p) ==
  BeginRemove(p) \/ LockRemove(p) \/ Strip(p) \/ PublishRest(p) \/ EndRemove(p)

Next ==
  \/ \E p \in ManualWriters : ManualWriter(p)
  \/ \E p \in MlWriters : MlWriter(p)
  \/ \E p \in Migrators : Migrator(p)
  \/ \E p \in Removers : Remover(p)
  \/ \E p \in Programs : Fail(p)

Spec == Init /\ [][Next]_vars

-----------------------------------------------------------------------------
(* Properties.                                                              *)

\* The types of the variables.
TypeOK ==
  /\ tab \in [Parts -> Tables]
  /\ present \in [Parts -> BOOLEAN]
  /\ lock \in [Parts -> Programs \union {Free}]
  /\ pc \in [Programs -> Pcs]
  /\ part \in [Programs -> Parts]
  /\ upd \in [Programs -> [Columns -> [Syms -> Cells \union {Keep}] \union {Absent}]]
  /\ cols \in [Programs -> SUBSET Columns]
  /\ todo \in [Programs -> SUBSET Parts]
  /\ buf \in [Programs -> Tables]

\* What a writer publishes is its update applied to the file as it is at that
\* moment, not as it was at some earlier time: no other writer's cells are lost.
NoLostUpdate ==
  \A p \in Programs : pc[p] \in {"publish", "publishPad"} => buf[p] = Merged(p)

\* A padding writer adds a column and replaces none: the one it is about to publish exists
\* for no reader, neither in the ML file nor as a legacy copy (_ensure_output_column_one).
PaddingHidesNothing ==
  \A p \in MlWriters : pc[p] = "publishPad" =>
    \A c \in Columns : upd[p][c] # Absent => View[c] = Absent

\* Migration is invisible: no step of it, completed or cut short, changes what a
\* column of the logical table holds.
MigrationInvisible == [][\A p \in Migrators : Migrator(p) \/ Fail(p) => View' = View]_vars

\* The two files implement one logical table.
LogicalTableSpec == LT!Spec
-----------------------------------------------------------------------------
(* The inductive invariant behind NoLostUpdate, MigrationInvisible and, as  *)
(* long as nothing padded or removed has a legacy copy, PaddingHidesNothing *)
(* and LogicalTableSpec.                                                    *)

\* The files whose lock a program must hold where it stands.
Held(p) == {f \in Parts :
  \/ f = part[p] /\ pc[p] \in {"merge", "publish", "pad", "publishPad", "strip", "publishRest"}
  \/ f = "manual" /\ pc[p] \in {"plan", "lockMl", "check", "publishMl", "reread", "publishManual"}
  \/ f = "ml" /\ pc[p] \in {"check", "publishMl", "reread", "publishManual"}}

\* A program between its read and its publication owns the files it has read.
LocksHeld ==
  \A p \in Programs :
    /\ \A f \in Held(p) : lock[f] = p
    /\ pc[p] = "ensure" => part[p] = "ml"

\* Each stage of a migration still finds the two files as its plan assumes.
MigrationStages ==
  \A p \in Programs :
    /\ pc[p] \in {"lockMl", "check", "publishMl"} => cols[p] \subseteq InFile("manual")
    /\ pc[p] \in {"lockMl", "check", "publishMl", "reread", "publishManual"} =>
         cols[p] \subseteq Owned({"ml"})
    /\ pc[p] \in {"reread", "publishManual"} => cols[p] \subseteq InFile("ml")
    /\ pc[p] = "publishMl" => buf[p] = [c \in Columns |->
         IF c \in cols[p] \union InFile("ml") THEN View[c] ELSE Absent]
    /\ pc[p] = "publishManual" => buf[p] = [c \in Columns |->
         IF c \in cols[p] THEN Absent ELSE tab["manual"][c]]

\* Writers write to their own file, and only columns it is theirs to write.
Ownership ==
  /\ \A p \in ManualWriters : pc[p] # "idle" =>
       pc[p] \in {"merge", "publish"} /\ part[p] = "manual" /\ upd[p] \in ManualUpdates
  /\ \A p \in MlWriters : pc[p] # "idle" =>
       pc[p] \in {"merge", "publish", "ensure", "pad", "publishPad"} /\ part[p] = "ml" /\ upd[p] \in MlUpdates
  /\ \A p \in Migrators : pc[p] # "idle" =>
       pc[p] \in {"plan", "lockMl", "check", "publishMl", "reread", "publishManual"}

\* What a program may write or take away where: the manual file holds no ML columns but
\* legacy ones, a removal publishes its file less the columns it was given, and a padding
\* run has seen that the ML file lacks the column it ensures.
Provenance ==
  /\ \A c \in InFile("manual") : Owner[c] = "manual" \/ c \in LegacyColumns
  /\ \A p \in Programs :
       /\ pc[p] \in {"remove", "strip", "publishRest"} => cols[p] \subseteq Removable
       /\ pc[p] = "publishRest" => buf[p] = [c \in Columns |->
            IF c \in cols[p] THEN Absent ELSE tab[part[p]][c]]
       /\ pc[p] \in {"ensure", "pad", "publishPad"} =>
            \A c \in Columns : upd[p][c] # Absent => c \in Ensured
       /\ pc[p] \in {"pad", "publishPad"} =>
            part[p] = "ml" /\ \A c \in InFile("ml") : upd[p][c] = Absent

FilesInv == LocksHeld /\ NoLostUpdate /\ MigrationStages /\ Ownership /\ Provenance
=============================================================================
