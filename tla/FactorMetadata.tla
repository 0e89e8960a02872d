---------------------------- MODULE FactorMetadata ----------------------------
(***************************************************************************)
(* The registry of factors: factor_metadata.ml_alpha (the ML factors),      *)
(* factor_metadata.rust (those of the engine's code) and the combined table *)
(* that everyone reads. Both writers hold one lock throughout and replace   *)
(* the three files one after another; a death in between leaves them apart. *)
(* Old libraries have the combined table only. A row is an id and an owner. *)
(***************************************************************************)
EXTENDS MlProcess

CONSTANTS
  Absent,          \* there is no such file
  MlRegistrations, \* sets of factor ids that ML configurations register together
  CodeRegistries   \* sets of factor ids in the engine's code, as it is developed

FactorIds == UNION (MlRegistrations \union CodeRegistries)
AllRows == FactorIds \X {"ml", "code"}

ASSUME AbsentAssumption == \A rows \in SUBSET AllRows : rows # Absent

Rows(ids, owner) == {<<id, owner>> : id \in ids}
Ids(rows) == {r[1] : r \in rows}
OwnedBy(rows, owner) == {r \in rows : r[2] = owner}

\* Faulty variant: the combined table is taken for the source.
MlRowsOfCombined(files) == OwnedBy(files.combined, "ml")

\* A writer's view of the two sources: the file, or the rows of the old combined table.
MlRows(files)   == IF files.source # Absent THEN files.source ELSE OwnedBy(files.combined, "ml")
CodeRows(files) == IF files.native # Absent THEN files.native ELSE OwnedBy(files.combined, "code")

Publication(prog, source, native) == [prog |-> prog, stage |-> "source", source |-> source, native |-> native]

\* _write_metadata_group; no program passes replace_all.
StartMlMetadata(ids) ==
  LET rows == {r \in MlRows(registry) : r[1] \notin ids} \union Rows(ids, "ml") IN
  /\ Ids(rows) \intersect Ids(CodeRows(registry)) = {}
  /\ Start("metadata", Publication("ml", rows, CodeRows(registry)))
  /\ UNCHANGED <<latest, model, manifest, column, registry>>

\* FactorStorage::write_metadata: the code's factors replace the code's factors.
StartCodeMetadata(ids) ==
  /\ ids \intersect Ids(MlRows(registry)) = {}
  /\ Start("metadata", Publication("code", MlRows(registry), Rows(ids, "code")))
  /\ UNCHANGED <<latest, model, manifest, column, registry>>

Publishing(stage) == proc.prog \in {"ml", "code"} /\ proc.stage = stage

PublishSource ==
  /\ Publishing("source")
  /\ registry' = [registry EXCEPT !.source = proc.source]
  /\ proc' = [proc EXCEPT !.stage = "native"]
  /\ UNCHANGED <<session, latest, model, manifest, column>>

PublishNative ==
  /\ Publishing("native")
  /\ registry' = [registry EXCEPT !.native = proc.native]
  /\ proc' = [proc EXCEPT !.stage = "combined"]
  /\ UNCHANGED <<session, latest, model, manifest, column>>

PublishCombined ==
  /\ Publishing("combined")
  /\ registry' = [registry EXCEPT !.combined = proc.native \union proc.source]
  /\ proc' = Idle
  /\ UNCHANGED <<session, latest, model, manifest, column>>

MetadataNext ==
  \/ \E ids \in MlRegistrations : StartMlMetadata(ids)
  \/ \E ids \in CodeRegistries : StartCodeMetadata(ids)
  \/ PublishSource \/ PublishNative \/ PublishCombined
=============================================================================
