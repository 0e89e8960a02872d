-------------------------- MODULE MlProgramsProofs --------------------------
(***************************************************************************)
(* TLAPS proofs about MlPrograms, whatever configurations, registrations,  *)
(* libraries and programs there are: the registry of factors, the windows  *)
(* of every training scheme, the values and columns that runs leave, and   *)
(* the dates that models with a state are given.                           *)
(***************************************************************************)
EXTENDS MlPrograms, NumberLemmas, SequenceTheorems

MlRowSets == SUBSET (FactorIds \X {"ml"})
CodeRowSets == SUBSET (FactorIds \X {"code"})
OneOwner(rows) == \A r, s \in rows : r[1] = s[1] => r = s
Disjoint(source, native) == \A r \in source, s \in native : r[1] # s[1]

RegistryOk ==
  /\ registry = [source |-> registry.source, native |-> registry.native, combined |-> registry.combined]
  /\ registry.source \in MlRowSets \union {Absent}
  /\ registry.native \in CodeRowSets \union {Absent}
  /\ registry.combined \in SUBSET AllRows
  /\ OneOwner(registry.combined)
  /\ OwnedBy(registry.combined, "ml") \subseteq MlRows(registry)

\* What a publication is about to make the registry: nothing registered is dropped, and what
\* it has published is there.
PublicationOk ==
  /\ proc = [prog |-> proc.prog, stage |-> proc.stage, source |-> proc.source, native |-> proc.native]
  /\ proc.stage \in {"source", "native", "combined"}
  /\ proc.source \in MlRowSets /\ proc.native \in CodeRowSets
  /\ Disjoint(proc.source, proc.native)
  /\ MlRows(registry) \subseteq proc.source
  /\ proc.stage \in {"native", "combined"} => registry.source = proc.source
  /\ proc.stage = "combined" => registry.native = proc.native

Publisher == proc.prog \in {"ml", "code"}

RInv ==
  /\ RegistryOk
  /\ "prog" \in DOMAIN proc
  /\ Publisher => PublicationOk

-----------------------------------------------------------------------------
(* What a writer starts from. *)

LEMMA RowSets == ASSUME NEW rows \in MlRowSets \union CodeRowSets PROVE rows # Absent /\ rows \in SUBSET AllRows
<1>1. rows \in SUBSET AllRows
  BY DEF MlRowSets, CodeRowSets, AllRows
<1> QED
  BY <1>1, AbsentAssumption

LEMMA StartingRows ==
  ASSUME RegistryOk
  PROVE  MlRows(registry) \in MlRowSets /\ CodeRows(registry) \in CodeRowSets
BY DEF RegistryOk, MlRows, CodeRows, OwnedBy, MlRowSets, CodeRowSets, AllRows

LEMMA MlStartOk == ASSUME RInv, NEW ids \in MlRegistrations, StartMlMetadata(ids) PROVE RInv'
<1> DEFINE rows == {r \in MlRows(registry) : r[1] \notin ids} \union Rows(ids, "ml")
<1>1. /\ UNCHANGED registry
      /\ proc' = [prog |-> "ml", stage |-> "source", source |-> rows, native |-> CodeRows(registry)]
      /\ Ids(rows) \intersect Ids(CodeRows(registry)) = {}
  BY DEF StartMlMetadata, Start, Publication
<1>2. MlRows(registry) \in MlRowSets /\ CodeRows(registry) \in CodeRowSets
  BY StartingRows DEF RInv
<1>3. ids \subseteq FactorIds
  BY DEF FactorIds
<1>4. Rows(ids, "ml") \in MlRowSets
  BY <1>3 DEF Rows, MlRowSets
<1>5. rows \in MlRowSets
  BY <1>2, <1>4 DEF MlRowSets
<1>6. MlRows(registry) \subseteq rows
  <2> SUFFICES ASSUME NEW r \in MlRows(registry), r[1] \in ids PROVE r \in Rows(ids, "ml")
    OBVIOUS
  <2>1. r = <<r[1], "ml">>
    BY <1>2 DEF MlRowSets
  <2> QED
    BY <2>1 DEF Rows
<1>7. Disjoint(rows, CodeRows(registry))
  <2> SUFFICES ASSUME NEW r \in rows, NEW s \in CodeRows(registry), r[1] = s[1] PROVE FALSE
    BY DEF Disjoint
  <2>1. r[1] \in Ids(rows) /\ s[1] \in Ids(CodeRows(registry))
    BY DEF Ids
  <2> QED
    BY <2>1, <1>1
<1>8. RegistryOk'
  BY <1>1 DEF RInv, RegistryOk, MlRows
<1>9. PublicationOk'
  BY <1>1, <1>2, <1>5, <1>6, <1>7 DEF PublicationOk, MlRows
<1> QED
  BY <1>1, <1>8, <1>9 DEF RInv

LEMMA CodeStartOk == ASSUME RInv, NEW ids \in CodeRegistries, StartCodeMetadata(ids) PROVE RInv'
<1>1. /\ UNCHANGED registry
      /\ proc' = [prog |-> "code", stage |-> "source", source |-> MlRows(registry), native |-> Rows(ids, "code")]
      /\ ids \intersect Ids(MlRows(registry)) = {}
  BY DEF StartCodeMetadata, Start, Publication
<1>2. MlRows(registry) \in MlRowSets
  BY StartingRows DEF RInv
<1>3. Rows(ids, "code") \in CodeRowSets
  <2>1. ids \subseteq FactorIds
    BY DEF FactorIds
  <2> QED
    BY <2>1 DEF Rows, CodeRowSets
<1>4. Disjoint(MlRows(registry), Rows(ids, "code"))
  <2> SUFFICES ASSUME NEW r \in MlRows(registry), NEW s \in Rows(ids, "code"), r[1] = s[1] PROVE FALSE
    BY DEF Disjoint
  <2>1. r[1] \in Ids(MlRows(registry)) /\ s[1] \in ids
    BY DEF Ids, Rows
  <2> QED
    BY <2>1, <1>1
<1>5. RegistryOk'
  BY <1>1 DEF RInv, RegistryOk, MlRows
<1>6. PublicationOk'
  BY <1>1, <1>2, <1>3, <1>4 DEF PublicationOk, MlRows
<1> QED
  BY <1>1, <1>5, <1>6 DEF RInv

-----------------------------------------------------------------------------
(* The three publications. *)

\* What a step may do to the registry.
Kept ==
  /\ registry.source # Absent => registry.source \subseteq registry'.source
  /\ OwnedBy(registry.combined, "ml") \subseteq registry'.combined
  /\ OwnedBy(registry'.combined, "code") \in {OwnedBy(registry.combined, "code"), registry.native}
  /\ OneOwner(registry'.combined)

LEMMA SourceStep == ASSUME RInv, PublishSource PROVE RInv' /\ Kept
<1>1. /\ Publisher /\ PublicationOk /\ RegistryOk /\ proc.stage = "source"
      /\ registry' = [registry EXCEPT !.source = proc.source]
      /\ proc' = [proc EXCEPT !.stage = "native"]
  BY DEF PublishSource, Publishing, Publisher, RInv
<1>2. /\ registry' = [source |-> proc.source, native |-> registry.native, combined |-> registry.combined]
      /\ proc' = [prog |-> proc.prog, stage |-> "native", source |-> proc.source, native |-> proc.native]
  BY <1>1 DEF RegistryOk, PublicationOk
<1>3. proc.source # Absent
  BY <1>1, RowSets DEF PublicationOk
<1>4. MlRows(registry') = proc.source
  BY <1>2, <1>3 DEF MlRows
<1>5. MlRows(registry)' = MlRows(registry')
  BY DEF MlRows
<1>6. OwnedBy(registry.combined, "ml") \subseteq proc.source
  BY <1>1 DEF RegistryOk, PublicationOk
<1>7. RegistryOk'
  BY <1>1, <1>2, <1>4, <1>5, <1>6 DEF RegistryOk, PublicationOk
<1>8. PublicationOk'
  BY <1>1, <1>2, <1>4, <1>5 DEF PublicationOk
<1>9. Kept
  <2>1. registry.source # Absent => registry.source \subseteq proc.source
    BY <1>1 DEF PublicationOk, MlRows
  <2> QED
    BY <1>1, <1>2, <2>1 DEF Kept, OwnedBy, RegistryOk
<1> QED
  BY <1>2, <1>7, <1>8, <1>9 DEF RInv

LEMMA NativeStep == ASSUME RInv, PublishNative PROVE RInv' /\ Kept
<1>1. /\ Publisher /\ PublicationOk /\ RegistryOk /\ proc.stage = "native"
      /\ registry' = [registry EXCEPT !.native = proc.native]
      /\ proc' = [proc EXCEPT !.stage = "combined"]
  BY DEF PublishNative, Publishing, Publisher, RInv
<1>2. /\ registry' = [source |-> registry.source, native |-> proc.native, combined |-> registry.combined]
      /\ proc' = [prog |-> proc.prog, stage |-> "combined", source |-> proc.source, native |-> proc.native]
  BY <1>1 DEF RegistryOk, PublicationOk
<1>3. MlRows(registry)' = MlRows(registry)
  BY <1>2 DEF MlRows
<1>4. RegistryOk'
  BY <1>1, <1>2, <1>3 DEF RegistryOk, PublicationOk
<1>5. PublicationOk'
  BY <1>1, <1>2, <1>3 DEF PublicationOk
<1>6. Kept
  BY <1>1, <1>2 DEF Kept, OwnedBy, RegistryOk
<1> QED
  BY <1>2, <1>4, <1>5, <1>6 DEF RInv

LEMMA CombinedStep == ASSUME RInv, PublishCombined PROVE RInv' /\ Kept
<1>1. /\ Publisher /\ PublicationOk /\ RegistryOk /\ proc.stage = "combined"
      /\ registry' = [registry EXCEPT !.combined = proc.native \union proc.source]
      /\ proc' = [prog |-> "idle"]
  BY DEF PublishCombined, Publishing, Publisher, RInv, Idle
<1> DEFINE combined == proc.native \union proc.source
<1>2. registry' = [source |-> registry.source, native |-> registry.native, combined |-> combined]
  BY <1>1 DEF RegistryOk
<1>3. registry.source = proc.source /\ registry.native = proc.native /\ proc.source # Absent
  BY <1>1, RowSets DEF PublicationOk
<1>4. OneOwner(combined)
  <2> SUFFICES ASSUME NEW r \in combined, NEW s \in combined, r[1] = s[1] PROVE r = s
    BY DEF OneOwner
  <2>1. CASE r \in proc.source /\ s \in proc.source
    BY <2>1, <1>1 DEF PublicationOk, MlRowSets
  <2>2. CASE r \in proc.native /\ s \in proc.native
    BY <2>2, <1>1 DEF PublicationOk, CodeRowSets
  <2>3. CASE r \in proc.source /\ s \in proc.native
    BY <2>3, <1>1 DEF PublicationOk, Disjoint
  <2>4. CASE r \in proc.native /\ s \in proc.source
    BY <2>4, <1>1 DEF PublicationOk, Disjoint
  <2> QED
    BY <2>1, <2>2, <2>3, <2>4
<1>5. OwnedBy(combined, "ml") = proc.source /\ OwnedBy(combined, "code") = proc.native
  <2>1. \A r \in proc.source : r[2] = "ml"
    BY <1>1 DEF PublicationOk, MlRowSets
  <2>2. \A r \in proc.native : r[2] = "code"
    BY <1>1 DEF PublicationOk, CodeRowSets
  <2>3. "ml" # "code"
    OBVIOUS
  <2> QED
    BY <2>1, <2>2, <2>3 DEF OwnedBy
<1>6. combined \in SUBSET AllRows
  BY <1>1, RowSets DEF PublicationOk
<1>7. MlRows(registry)' = proc.source
  BY <1>2, <1>3 DEF MlRows
<1>8. RegistryOk'
  BY <1>1, <1>2, <1>4, <1>5, <1>6, <1>7 DEF RegistryOk
<1>9. Kept
  <2>1. OwnedBy(registry.combined, "ml") \subseteq proc.source
    BY <1>1 DEF RegistryOk, PublicationOk
  <2> QED
    BY <1>2, <1>3, <1>4, <1>5, <2>1 DEF Kept
<1> QED
  BY <1>1, <1>8, <1>9 DEF RInv, Publisher

-----------------------------------------------------------------------------
(* All other programs leave the registry alone; they do not turn into a publication, nor,    *)
(* but for ShowPlan, into a plan.                                                             *)

Silent(p) == "prog" \in DOMAIN p /\ p.prog \notin {"ml", "code"}
Other(p) == "prog" \in DOMAIN p /\ p.prog \notin {"ml", "code", "plan"}

LEMMA StartOther ==
  ASSUME RInv, \/ \E c \in DOMAIN Configs :
                    \/ \E resume \in BOOLEAN : StartRun(c, resume)
                    \/ \E resume \in BOOLEAN, windows \in SUBSET Plan[c] : StartTrain(c, resume, windows)
                    \/ StartPredict(c)
               \/ \E group \in Groups : StartGrouped(group)
               \/ Stop
  PROVE  UNCHANGED registry /\ Other(proc')
<1>1. ASSUME NEW c \in DOMAIN Configs, NEW resume \in BOOLEAN, StartRun(c, resume)
      PROVE  UNCHANGED registry /\ Other(proc')
  BY <1>1 DEF StartRun, Start, Local, Other
<1>2. ASSUME NEW c \in DOMAIN Configs, NEW resume \in BOOLEAN, NEW windows, StartTrain(c, resume, windows)
      PROVE  UNCHANGED registry /\ Other(proc')
  BY <1>2 DEF StartTrain, Start, Local, Other
<1>3. ASSUME NEW c \in DOMAIN Configs, StartPredict(c) PROVE UNCHANGED registry /\ Other(proc')
  BY <1>3 DEF StartPredict, Start, Local, Other
<1>4. ASSUME NEW group \in Groups, StartGrouped(group) PROVE UNCHANGED registry /\ Other(proc')
  BY <1>4 DEF StartGrouped, Start, GroupedTask, Other
<1>5. ASSUME Stop PROVE UNCHANGED registry /\ Other(proc')
  BY <1>5 DEF Stop, Idle, Other
<1> QED
  BY <1>1, <1>2, <1>3, <1>4, <1>5

LEMMA PipelineOther ==
  ASSUME RInv, \/ SkipWindow \/ LoadModel \/ Fit \/ OpenModel \/ SaveModel \/ SaveManifest
               \/ \E d \in OutputDates : PredictWrite(d) \/ Pad(d)
               \/ EndWindow \/ Finish
  PROVE  UNCHANGED registry /\ Other(proc')
<1>1. "prog" \in DOMAIN proc
  BY DEF RInv
<1>2. \A stage : At(stage) => proc.prog \notin {"ml", "code", "plan"}
  BY DEF At
<1>3. NextWindow /\ proc.prog \notin {"ml", "code", "plan"} => Other(proc')
  BY <1>1 DEF NextWindow, Other
<1>4. CASE SkipWindow \/ EndWindow
  BY <1>2, <1>3, <1>4 DEF SkipWindow, EndWindow, AtWindow, OnlyProc
<1>5. CASE LoadModel
  BY <1>1, <1>2, <1>5 DEF LoadModel, AtWindow, OnlyProc, Other
<1>6. CASE Fit
  BY <1>1, <1>2, <1>6 DEF Fit, AtWindow, OnlyProc, Other
<1>7. CASE OpenModel
  BY <1>1, <1>2, <1>7 DEF OpenModel, Other
<1>8. CASE SaveModel
  BY <1>1, <1>2, <1>8 DEF SaveModel, Other
<1>9. CASE SaveManifest
  BY <1>1, <1>2, <1>3, <1>9 DEF SaveManifest, Other
<1>10. CASE \E d \in OutputDates : PredictWrite(d)
  BY <1>1, <1>2, <1>10 DEF PredictWrite, Other
<1>11. CASE \E d \in OutputDates : Pad(d)
  BY <1>1, <1>2, <1>11 DEF Pad, Other
<1>12. CASE Finish
  BY <1>12 DEF Finish, OnlyProc, Other
<1> QED
  BY <1>4, <1>5, <1>6, <1>7, <1>8, <1>9, <1>10, <1>11, <1>12

GroupedStep ==
  \/ BeginWave
  \/ Running("grouped") /\ \E u \in proc.wave : Infer(u)
  \/ \E d \in OutputDates : Flush(d)
  \/ FinishGrouped

LEMMA GroupedOther ==
  ASSUME RInv, GroupedStep
  PROVE  UNCHANGED registry /\ Other(proc')
<1>1. "prog" \in DOMAIN proc
  BY DEF RInv
<1>2. Running("grouped") => proc.prog \notin {"ml", "code", "plan"}
  BY DEF Running
<1>3. CASE BeginWave
  BY <1>1, <1>2, <1>3 DEF BeginWave, OnlyProc, Other
<1>4. CASE \E u \in proc.wave : Infer(u)
  BY <1>1, <1>2, <1>4 DEF Infer, OnlyProc, Other
<1>5. CASE \E d \in OutputDates : Flush(d)
  BY <1>1, <1>2, <1>5 DEF Flush, Other
<1>6. CASE FinishGrouped
  BY <1>6 DEF FinishGrouped, OnlyProc, Other
<1> QED
  BY <1>3, <1>4, <1>5, <1>6 DEF GroupedStep

LEMMA OtherStep == ASSUME RInv, UNCHANGED registry, Silent(proc') PROVE RInv' /\ Kept
<1>1. RegistryOk'
  BY DEF RInv, RegistryOk, MlRows
<1>2. Kept
  BY DEF RInv, RegistryOk, Kept, OwnedBy
<1> QED
  BY <1>1, <1>2 DEF RInv, Silent, Publisher

-----------------------------------------------------------------------------
\* An old library has the combined table only, and one owner for each factor.
LEMMA InitRInv == Init => RInv
<1> SUFFICES ASSUME Init PROVE RInv
  OBVIOUS
<1>1. "prog" \in DOMAIN proc /\ ~Publisher
  BY DEF Init, Idle, Publisher
<1>2. PICK c \in SUBSET AllRows :
        /\ registry = [source |-> Absent, native |-> Absent, combined |-> c]
        /\ OneOwner(c)
  <2>1. CASE registry = [source |-> Absent, native |-> Absent, combined |-> {}]
    BY <2>1 DEF OneOwner
  <2>2. CASE registry \in {r \in Registries :
                 Ids(OwnedBy(r.combined, "code")) \intersect Ids(OwnedBy(r.combined, "ml")) = {}}
    <3>1. PICK code \in CodeRegistries \union {{}}, ml \in MlRegistrations \union {{}} :
            registry = [source |-> Absent, native |-> Absent, combined |-> Rows(code, "code") \union Rows(ml, "ml")]
      BY <2>2 DEF Registries
    <3> DEFINE c == Rows(code, "code") \union Rows(ml, "ml")
    <3>2. code \subseteq FactorIds /\ ml \subseteq FactorIds
      BY DEF FactorIds
    <3>3. c \in SUBSET AllRows
      BY <3>2 DEF Rows, AllRows
    <3>4. \A id \in code \intersect ml : FALSE
      <4> SUFFICES ASSUME NEW id \in code \intersect ml PROVE FALSE
        OBVIOUS
      <4>1. <<id, "code">> \in OwnedBy(c, "code") /\ <<id, "ml">> \in OwnedBy(c, "ml")
        BY DEF Rows, OwnedBy
      <4>2. \A rows, o : <<id, o>> \in rows => id \in Ids(rows)
        BY DEF Ids
      <4>3. id \in Ids(OwnedBy(c, "code")) /\ id \in Ids(OwnedBy(c, "ml"))
        <5> HIDE DEF c
        <5> QED
          BY <4>1, <4>2
      <4> QED
        BY <2>2, <3>1, <4>3
    <3>5. OneOwner(c)
      BY <3>4 DEF Rows, OneOwner
    <3> QED
      BY <3>1, <3>3, <3>5
  <2> QED
    BY <2>1, <2>2 DEF Init
<1>3. RegistryOk
  BY <1>2 DEF RegistryOk, MlRows, OwnedBy
<1> QED
  BY <1>1, <1>3 DEF RInv

LEMMA NextRInv == RInv /\ [Next]_mlVars => RInv' /\ (Kept \/ UNCHANGED mlVars)
<1> SUFFICES ASSUME RInv, [Next]_mlVars PROVE RInv' /\ (Kept \/ UNCHANGED mlVars)
  OBVIOUS
<1>1. CASE UNCHANGED mlVars
  BY <1>1 DEF mlVars, RInv, RegistryOk, PublicationOk, Publisher, MlRows
<1>2. CASE ArtifactsNext
  BY <1>2, StartOther, PipelineOther, OtherStep DEF ArtifactsNext, Other, Silent
<1>3. CASE GroupedNext
  <2>1. CASE \E group \in Groups : StartGrouped(group)
    BY <2>1, StartOther, OtherStep DEF Other, Silent
  <2>2. CASE GroupedStep
    BY <2>2, GroupedOther, OtherStep DEF Other, Silent
  <2> QED
    BY <1>3, <2>1, <2>2 DEF GroupedNext, GroupedStep
<1>4. CASE ShowPlan \/ Stop
  <2>1. ShowPlan => UNCHANGED registry /\ Silent(proc')
    BY DEF ShowPlan, Start, Silent
  <2> QED
    BY <1>4, <2>1, StartOther, OtherStep DEF Other, Silent
<1>5. CASE MetadataNext
  <2>1. ASSUME NEW ids \in MlRegistrations, StartMlMetadata(ids) PROVE RInv' /\ Kept
    <3>1. RInv' /\ UNCHANGED registry
      BY <2>1, MlStartOk DEF StartMlMetadata
    <3> QED
      BY <3>1 DEF RInv, RegistryOk, Kept, OwnedBy
  <2>2. ASSUME NEW ids \in CodeRegistries, StartCodeMetadata(ids) PROVE RInv' /\ Kept
    <3>1. RInv' /\ UNCHANGED registry
      BY <2>2, CodeStartOk DEF StartCodeMetadata
    <3> QED
      BY <3>1 DEF RInv, RegistryOk, Kept, OwnedBy
  <2> QED
    BY <1>5, <2>1, <2>2, SourceStep, NativeStep, CombinedStep DEF MetadataNext
<1> QED
  BY <1>1, <1>2, <1>3, <1>4, <1>5 DEF Next

\* Through every order of publications, refusals and deaths, over new and old libraries: what
\* an ML program registered stays registered, the code's factors are the last published ones,
\* and no factor has two owners.
THEOREM RegistrationsKept == Spec => RegistryKept
<1>1. RInv /\ [Next]_mlVars =>
        [/\ registry.source # Absent => registry.source \subseteq registry'.source
         /\ OwnedBy(registry.combined, "ml") \subseteq registry'.combined
         /\ OwnedBy(registry'.combined, "code") \in {OwnedBy(registry.combined, "code"), registry.native}
         /\ \A r, s \in registry'.combined : r[1] = s[1] => r = s]_mlVars
  BY NextRInv DEF Kept, OneOwner
<1>2. RInv /\ [Next]_mlVars => RInv'
  BY NextRInv
<1> QED
  BY <1>1, <1>2, InitRInv, PTL DEF Spec, RegistryKept
-----------------------------------------------------------------------------
(* Dates.                                                                   *)

LEMMA PositionType == ASSUME NEW c, WellFormed(c), NEW x PROVE Position(c, x) \in Nat
<1> DEFINE T == {d \in c.cal : d < x}
<1>1. IsFiniteSet(T)
  BY FS_Subset DEF WellFormed
<1> QED
  BY <1>1, FS_CardinalityType DEF Position

LEMMA PositionMonotone ==
  ASSUME NEW c, WellFormed(c), NEW x \in Nat, NEW y \in Nat, x <= y
  PROVE  Position(c, x) <= Position(c, y)
<1> DEFINE S == {d \in c.cal : d < x}
           T == {d \in c.cal : d < y}
<1>1. IsFiniteSet(T)
  BY FS_Subset DEF WellFormed
<1>2. S \in SUBSET T
  BY DEF WellFormed
<1>3. Cardinality(S) <= Cardinality(T)
  BY <1>1, <1>2, FS_Subset
<1> QED
  BY <1>3 DEF Position

LEMMA PositionStrict ==
  ASSUME NEW c, WellFormed(c), NEW x \in c.cal, NEW y \in Nat, x < y
  PROVE  Position(c, x) < Position(c, y)
<1> DEFINE S == {d \in c.cal : d < x}
           T == {d \in c.cal : d < y}
<1>1. IsFiniteSet(T) /\ IsFiniteSet(S)
  BY FS_Subset DEF WellFormed
<1>2. S \in SUBSET T /\ S # T
  <2>1. x \in T /\ x \notin S
    BY DEF WellFormed
  <2> QED
    BY <2>1 DEF WellFormed
<1>3. Cardinality(S) <= Cardinality(T) /\ Cardinality(S) # Cardinality(T)
  BY <1>1, <1>2, FS_Subset
<1>4. Cardinality(S) \in Nat /\ Cardinality(T) \in Nat
  BY <1>1, FS_CardinalityType
<1> HIDE DEF S, T
<1>5. Cardinality(S) < Cardinality(T)
  BY <1>3, <1>4
<1> QED
  BY <1>5 DEF Position, S, T

\* The next open date is later, and no open date lies between.
LEMMA NextOpen ==
  ASSUME NEW c, WellFormed(c), NEW d, NEW a, a = Offset(c, d, 1), a # None
  PROVE  d \in c.cal /\ a \in c.cal /\ d < a /\ \A x \in c.cal : x <= d \/ a <= x
<1> DEFINE at == {x \in c.cal : Position(c, x) = Position(c, d) + 1}
<1>1. d \in c.cal /\ at # {} /\ a = Max(at)
  BY DEF Offset
<1>2. at \subseteq Nat /\ IsFiniteSet(at) /\ c.cal \subseteq Nat
  BY FS_Subset DEF WellFormed
<1>3. a \in at
  <2> HIDE DEF at
  <2> QED
    BY <1>1, <1>2, GreatestNatural
<1>4. \A x \in c.cal : Position(c, x) \in Nat
  BY PositionType
<1>5. d < a
  <2>1. CASE a <= d
    <3>1. Position(c, a) <= Position(c, d)
      BY <1>1, <1>2, <1>3, <2>1, PositionMonotone
    <3> QED
      BY <1>1, <1>3, <1>4, <3>1
  <2> QED
    BY <1>1, <1>2, <1>3, <2>1
<1>6. ASSUME NEW x \in c.cal, d < x, x < a PROVE FALSE
  <2>1. Position(c, d) < Position(c, x) /\ Position(c, x) < Position(c, a)
    BY <1>1, <1>2, <1>3, <1>6, PositionStrict
  <2> QED
    BY <1>1, <1>3, <1>4, <2>1
<1> QED
  BY <1>1, <1>2, <1>3, <1>5, <1>6

\* The previous open date is the last one that is earlier.
LEMMA LastOpen ==
  ASSUME NEW c, WellFormed(c), NEW d, NEW p, p = PreviousOpen(c, d), p # None
  PROVE  p \in c.cal /\ p < d /\ \A x \in c.cal : x < d => x <= p
<1> DEFINE before == {x \in c.cal : x < d}
<1>1. before # {} /\ p = Max(before)
  BY DEF PreviousOpen
<1>2. before \subseteq Nat /\ IsFiniteSet(before)
  BY FS_Subset DEF WellFormed
<1>3. p \in before /\ \A m \in before : m <= p
  <2> HIDE DEF before
  <2> QED
    BY <1>1, <1>2, GreatestNatural
<1> QED
  BY <1>3

LEMMA SampleOpen == ASSUME NEW c, NEW range, NEW f PROVE SampleDates(c, range, f) \subseteq c.cal
BY DEF SampleDates, PeriodEnds, Between

LEMMA RefitOpen ==
  ASSUME NEW c, WellFormed(c), NEW dates, dates \subseteq c.cal, NEW f
  PROVE  RefitDates(c, dates, f) \subseteq c.cal
<1>1. CASE dates = {} \/ f = Daily
  BY <1>1 DEF RefitDates
<1>2. CASE dates # {} /\ f # Daily /\ f[1] = "once"
  <2>1. Min(dates) \in dates
    BY <1>2, LeastOf DEF WellFormed
  <2> QED
    BY <1>2, <2>1 DEF RefitDates
<1>3. CASE dates # {} /\ f # Daily /\ f[1] # "once"
  BY <1>3, SampleOpen DEF RefitDates
<1> QED
  BY <1>1, <1>2, <1>3

LEMMA ActualRefitOpen ==
  ASSUME NEW c, WellFormed(c), NEW range, NEW f
  PROVE  ActualRefitDates(c, range, f) \subseteq c.cal
<1> DEFINE upto == {d \in c.cal : d <= range[2]}
<1>1. upto \subseteq c.cal /\ Between(c, range) \subseteq c.cal
  BY DEF Between
<1>2. RefitDates(c, upto, f) \subseteq c.cal /\ RefitDates(c, Between(c, range), f) \subseteq c.cal
  BY <1>1, RefitOpen
<1>3. CASE f = Quarterly
  BY <1>2, <1>3 DEF ActualRefitDates
<1>4. CASE f # Quarterly
  BY <1>2, <1>4 DEF ActualRefitDates
<1> QED
  BY <1>3, <1>4

LEMMA PredictOpen == ASSUME NEW c PROVE PredictDates(c) \subseteq c.cal /\ ValidDates(c) \subseteq c.cal
BY SampleOpen DEF PredictDates, ValidDates

LEMMA SplitWithin ==
  ASSUME NEW c, NEW dates
  PROVE  SplitWindowDates(c, dates).valid \subseteq dates
<1>1. SplitByRatio(c, dates).valid \subseteq dates
  BY DEF SplitByRatio, Newest
<1> QED
  BY <1>1 DEF SplitWindowDates

-----------------------------------------------------------------------------
(* Windows.                                                                 *)

\* A window as the schemes make it: a cutoff that they give lies before its predictions.
WindowOk(c, w) ==
  /\ w = Window(w.id, w.train, w.valid, w.predict, w.cutoff)
  /\ w.valid \subseteq c.cal /\ w.predict \subseteq PredictDates(c)
  /\ w.cutoff # None => \A d \in w.predict : w.cutoff < d

\* One window serves all its dates before the other.
InTurn(v, w) ==
  \/ \A d \in v.predict, e \in w.predict : d < e
  \/ \A d \in v.predict, e \in w.predict : e < d

\* Two windows, the second of which is not a newer choice for the first one's dates.
Apart(c, v, w) ==
  /\ v.id # w.id /\ InTurn(v, w)
  /\ v.predict \intersect w.predict = {}
  /\ Cutoff(c, v) # None /\ Cutoff(c, w) # None =>
       \A d \in v.predict : ~(Cutoff(c, v) < Cutoff(c, w) /\ Cutoff(c, w) < d)

SchemeOk(c, windows) ==
  /\ \A w \in windows : WindowOk(c, w)
  /\ \A v, w \in windows : v # w => Apart(c, v, w)

LEMMA WindowFields ==
  ASSUME NEW c, NEW id, NEW train, NEW valid, NEW predict, NEW cutoff,
         valid \subseteq c.cal, predict \subseteq PredictDates(c),
         cutoff # None => \A d \in predict : cutoff < d
  PROVE  WindowOk(c, Window(id, train, valid, predict, cutoff))
BY DEF WindowOk, Window

LEMMA StaticOk == ASSUME NEW c PROVE SchemeOk(c, StaticWindows(c))
BY PredictOpen, WindowFields DEF SchemeOk, StaticWindows

LEMMA TrainOnlyOk == ASSUME NEW c, WellFormed(c) PROVE SchemeOk(c, TrainOnlyWindows(c))
<1> DEFINE pool == IF c.trainFreq = Monthly THEN ActualRefitDates(c, c.train, Monthly)
                   ELSE SampleDates(c, c.train, c.trainFreq)
           held == IF c.vcount > 0 THEN Newest(pool, c.vcount) ELSE ValidDates(c)
           candidates == IF c.vcount > 0 THEN pool \ Newest(pool, c.vcount) ELSE pool
           split == IF c.ratio # None THEN SplitWindowDates(c, pool)
                    ELSE IF c.count > 0
                    THEN [valid |-> held,
                          train |-> IF Cardinality(pool) < c.count + c.vcount THEN {}
                                    ELSE IF c.scheme = "rolling" THEN Newest(candidates, c.count) ELSE candidates]
                    ELSE [train |-> pool, valid |-> ValidDates(c)]
           only == Window(<<"train_only", Max(split.train)>>, split.train, split.valid, {}, None)
<1>1. pool \subseteq c.cal
  BY SampleOpen, ActualRefitOpen
<1>2. held \subseteq c.cal
  BY <1>1, PredictOpen DEF Newest
<1>3. split.valid \subseteq c.cal
  <2> HIDE DEF pool, held, candidates
  <2>1. SplitWindowDates(c, pool).valid \subseteq c.cal
    BY <1>1, SplitWithin
  <2> QED
    BY <1>2, <2>1, PredictOpen
<1>4. TrainOnlyWindows(c) = IF split.train = {} THEN {} ELSE {only}
  BY DEF TrainOnlyWindows
<1> HIDE DEF split
<1>5. WindowOk(c, only)
  BY <1>3, WindowFields
<1> QED
  BY <1>4, <1>5 DEF SchemeOk

-----------------------------------------------------------------------------
(* The schemes that serve segments.                                         *)

\* A window id of a segment holds its first date.
SegmentWindow(w) ==
  /\ w = Window(w.id, w.train, w.valid, w.predict, w.cutoff)
  /\ w.predict # {} /\ w.id[3] = Min(w.predict)

LEMMA SegmentIds ==
  ASSUME NEW n, NEW dates, NEW id, id = <<"segment", n>> \o Span(dates)
  PROVE  id[3] = Min(dates)
BY DEF Span

LEMMA ApartIds ==
  ASSUME NEW c, WellFormed(c), NEW v, NEW w, SegmentWindow(v), SegmentWindow(w),
         v.predict \subseteq c.cal, w.predict \subseteq c.cal,
         v.predict \intersect w.predict = {}
  PROVE  v.id # w.id
<1>1. Min(v.predict) \in v.predict /\ Min(w.predict) \in w.predict
  BY LeastOf DEF SegmentWindow, WellFormed
<1> QED
  BY <1>1 DEF SegmentWindow

\* Windows with one refit each, that serve the dates after it up to the next.
LEMMA AfterOk ==
  ASSUME NEW c, WellFormed(c), NEW refits, refits \subseteq c.cal, NEW windows,
         \A w \in windows : /\ SegmentWindow(w)
                            /\ w.valid \subseteq c.cal
                            /\ w.cutoff \in refits
                            /\ w.predict = SegmentAfter(c, refits, w.cutoff),
         \A v, w \in windows : v.cutoff = w.cutoff => v = w
  PROVE  SchemeOk(c, windows)
<1>0. refits \subseteq Nat /\ c.cal \subseteq Nat
  BY DEF WellFormed
<1>1. ASSUME NEW w \in windows
      PROVE  /\ WindowOk(c, w)
             /\ w.cutoff \in Nat /\ w.cutoff # None /\ w.predict \subseteq c.cal /\ Cutoff(c, w) = w.cutoff
  <2>1. w.cutoff \in Nat /\ w.cutoff # None
    BY <1>0, PlanAssumption
  <2>2. w.predict \subseteq PredictDates(c) /\ w.predict \subseteq c.cal
    BY PredictOpen DEF SegmentAfter
  <2>3. \A d \in w.predict : w.cutoff < d
    BY <1>0, <2>1, <2>2 DEF SegmentAfter
  <2> QED
    BY <2>1, <2>2, <2>3 DEF WindowOk, SegmentWindow, Cutoff
<1>2. ASSUME NEW v \in windows, NEW w \in windows, v # w PROVE Apart(c, v, w)
  <2>1. v.cutoff # w.cutoff /\ v.cutoff \in Nat /\ w.cutoff \in Nat
    BY <1>1, <1>2
  <2>2. \A d \in v.predict : /\ d \in Nat /\ v.cutoff < d
                             /\ v.cutoff < w.cutoff => d <= w.cutoff
    BY <1>0, <1>1, <2>1 DEF SegmentAfter
  <2>3. \A d \in w.predict : /\ d \in Nat /\ w.cutoff < d
                             /\ w.cutoff < v.cutoff => d <= v.cutoff
    BY <1>0, <1>1, <2>1 DEF SegmentAfter
  <2>4. v.predict \intersect w.predict = {}
    BY <2>1, <2>2, <2>3
  <2>5. \A d \in v.predict : ~(v.cutoff < w.cutoff /\ w.cutoff < d)
    BY <2>1, <2>2
  <2>6. v.id # w.id
    BY <1>1, <2>4, ApartIds
  <2>7. InTurn(v, w)
    BY <2>1, <2>2, <2>3 DEF InTurn
  <2> QED
    BY <1>1, <2>4, <2>5, <2>6, <2>7 DEF Apart
<1> QED
  BY <1>1, <1>2 DEF SchemeOk

LEMMA SampleCountOk == ASSUME NEW c, WellFormed(c) PROVE SchemeOk(c, SampleCountWindows(c))
<1> DEFINE refits == ActualRefitDates(c, c.predict, c.refit)
           segment(r) == SegmentAfter(c, refits, r)
           eligible(r) == SettledDates(c, {d \in SampleDates(c, c.train, c.trainFreq) : d < r}, Min(segment(r)))
           usable == {r \in refits : segment(r) # {} /\ Cardinality(eligible(r)) >= c.count + c.vcount}
           valid(r) == Newest(eligible(r), c.vcount)
           train(r) == IF c.scheme = "rolling" THEN Newest(eligible(r) \ valid(r), c.count) ELSE eligible(r) \ valid(r)
           id(r) == <<"segment", Rank(usable, r) + 1>> \o Span(segment(r))
           window(r) == Window(id(r), train(r), valid(r), segment(r), r)
<1>1. SampleCountWindows(c) = {window(r) : r \in usable}
  BY DEF SampleCountWindows
<1>2. refits \subseteq c.cal
  BY ActualRefitOpen
<1>3. \A r : valid(r) \subseteq c.cal
  BY SampleOpen DEF Newest, SettledDates
<1>4. \A r \in usable : r \in refits /\ segment(r) # {}
  OBVIOUS
<1>5. \A r : id(r)[3] = Min(segment(r))
  <2> HIDE DEF segment, usable
  <2> QED
    BY SegmentIds
<1> HIDE DEF refits, usable, valid, train, id
<1>6. \A w \in {window(r) : r \in usable} :
         /\ SegmentWindow(w) /\ w.valid \subseteq c.cal
         /\ w.cutoff \in refits /\ w.predict = SegmentAfter(c, refits, w.cutoff)
  BY <1>3, <1>4, <1>5 DEF SegmentWindow, Window
<1>7. \A v, w \in {window(r) : r \in usable} : v.cutoff = w.cutoff => v = w
  BY DEF Window
<1> QED
  BY <1>1, <1>2, <1>6, <1>7, AfterOk

LEMMA RatioOk == ASSUME NEW c, WellFormed(c) PROVE SchemeOk(c, RatioWindows(c))
<1> DEFINE refits == ActualRefitDates(c, c.predict, c.refit)
           segment(r) == SegmentAfter(c, refits, r)
           range(r) == TrainRangeForEnd(c, Or(PreviousOpen(c, r), c.train[2]), r)
           settled(r) == SettledDates(c, SampleDates(c, range(r), c.trainFreq), Min(segment(r)))
           split(r) == SplitWindowDates(c, settled(r))
           usable == {r \in refits : segment(r) # {} /\ range(r) # None /\ split(r).train # {}}
           id(r) == <<"segment", Rank(usable, r) + 1>> \o Span(segment(r))
           window(r) == Window(id(r), split(r).train, split(r).valid, segment(r), r)
<1>1. RatioWindows(c) = {window(r) : r \in usable}
  BY DEF RatioWindows
<1>2. refits \subseteq c.cal
  BY ActualRefitOpen
<1>3. \A r : split(r).valid \subseteq c.cal
  <2>1. \A r : settled(r) \subseteq c.cal
    BY SampleOpen DEF SettledDates
  <2> HIDE DEF settled
  <2> QED
    BY <2>1, SplitWithin
<1>4. \A r \in usable : r \in refits /\ segment(r) # {}
  OBVIOUS
<1>5. \A r : id(r)[3] = Min(segment(r))
  <2> HIDE DEF segment, usable
  <2> QED
    BY SegmentIds
<1> HIDE DEF refits, usable, split, id
<1>6. \A w \in {window(r) : r \in usable} :
         /\ SegmentWindow(w) /\ w.valid \subseteq c.cal
         /\ w.cutoff \in refits /\ w.predict = SegmentAfter(c, refits, w.cutoff)
  BY <1>3, <1>4, <1>5 DEF SegmentWindow, Window
<1>7. \A v, w \in {window(r) : r \in usable} : v.cutoff = w.cutoff => v = w
  BY DEF Window
<1> QED
  BY <1>1, <1>2, <1>6, <1>7, AfterOk

LEMMA FromStart ==
  ASSUME NEW c, WellFormed(c), NEW starts, starts \subseteq Nat, NEW s \in starts, NEW t \in starts, s < t
  PROVE  /\ SegmentFrom(c, starts, s) \subseteq c.cal
         /\ \A d \in SegmentFrom(c, starts, s) : d \in Nat /\ d < t
         /\ \A d \in SegmentFrom(c, starts, t) : d \in Nat /\ t <= d
<1>1. PredictDates(c) \subseteq c.cal /\ c.cal \subseteq Nat
  BY PredictOpen DEF WellFormed
<1>2. \A d \in SegmentFrom(c, starts, s) : ~(t <= d)
  BY DEF SegmentFrom
<1>3. \A d \in SegmentFrom(c, starts, t) : d >= t
  BY DEF SegmentFrom
<1>4. SegmentFrom(c, starts, s) \subseteq c.cal /\ SegmentFrom(c, starts, t) \subseteq c.cal
  BY <1>1 DEF SegmentFrom
<1>5. t \in Nat
  OBVIOUS
<1> QED
  BY <1>1, <1>2, <1>3, <1>4, <1>5

\* A model that is fit at its segment's start knows what its predecessor's last date knows.
LEMMA SegmentsApart ==
  ASSUME NEW c, WellFormed(c), NEW starts, starts \subseteq Nat,
         NEW v, NEW w, SegmentWindow(v), SegmentWindow(w),
         v.cutoff = None, w.cutoff = None,
         NEW s \in starts, v.predict = SegmentFrom(c, starts, s),
         NEW t \in starts, w.predict = SegmentFrom(c, starts, t), s # t
  PROVE  Apart(c, v, w)
<1>1. v.predict \subseteq c.cal /\ w.predict \subseteq c.cal /\ c.cal \subseteq Nat
  BY PredictOpen DEF SegmentFrom, WellFormed
<1>2. s \in Nat /\ t \in Nat /\ (s < t \/ t < s)
  OBVIOUS
<1>3. v.predict \intersect w.predict = {} /\ InTurn(v, w)
  <2>1. CASE s < t
    <3>1. \A d \in v.predict : d \in Nat /\ d < t
      BY <2>1, FromStart
    <3>2. \A d \in w.predict : d \in Nat /\ t <= d
      BY <2>1, FromStart
    <3> QED
      BY <1>2, <3>1, <3>2 DEF InTurn
  <2>2. CASE t < s
    <3>1. \A d \in w.predict : d \in Nat /\ d < s
      BY <2>2, FromStart
    <3>2. \A d \in v.predict : d \in Nat /\ s <= d
      BY <2>2, FromStart
    <3> QED
      BY <1>2, <3>1, <3>2 DEF InTurn
  <2> QED
    BY <1>2, <2>1, <2>2
<1>4. v.id # w.id
  BY <1>1, <1>3, ApartIds
<1> DEFINE p == Min(v.predict)
           q == Min(w.predict)
           x == PreviousOpen(c, p)
           y == PreviousOpen(c, q)
<1>5. p \in v.predict /\ q \in w.predict
  BY <1>1, LeastOf DEF SegmentWindow
<1>6. Cutoff(c, v) = x /\ Cutoff(c, w) = y
  BY DEF Cutoff, SegmentWindow
<1>7. ASSUME x # None, y # None, NEW d \in v.predict, x < y, y < d PROVE FALSE
  <2> HIDE DEF p, q
  <2>1. /\ x \in c.cal /\ x < p /\ \A z \in c.cal : z < p => z <= x
        /\ y \in c.cal /\ y < q /\ \A z \in c.cal : z < q => z <= y
    BY <1>7, LastOpen
  <2> HIDE DEF x, y
  <2>2. d \in Nat /\ d \in c.cal /\ x \in Nat /\ y \in Nat /\ p \in Nat /\ q \in Nat
    BY <1>1, <1>5, <2>1
  <2>3. CASE s < t
    <3>1. d < t /\ t <= q
      BY <1>2, <1>5, <2>3, FromStart
    <3>2. d <= y
      BY <1>2, <2>1, <2>2, <3>1
    <3> QED
      BY <1>7, <2>2, <3>2
  <2>4. CASE t < s
    <3>1. q < s /\ s <= p
      BY <1>2, <1>5, <2>4, FromStart
    <3>2. y < p
      BY <1>2, <2>1, <2>2, <3>1
    <3>3. y <= x
      BY <2>1, <3>2
    <3> QED
      BY <1>7, <2>2, <3>3
  <2> QED
    BY <1>2, <2>3, <2>4
<1> QED
  BY <1>3, <1>4, <1>6, <1>7 DEF Apart

LEMMA SegmentOk == ASSUME NEW c, WellFormed(c), PredictDates(c) # {} PROVE SchemeOk(c, SegmentWindows(c))
<1> DEFINE starts == RefitDates(c, PredictDates(c), c.refit) \union {Min(PredictDates(c))}
           segment(s) == SegmentFrom(c, starts, s)
           anchor(s) == Or(PreviousOpen(c, s), c.train[2])
           validStart(s) == Or(Offset(c, anchor(s), 1 - Max({1, c.vdays})), IF c.valid = None THEN None ELSE c.valid[1])
           trainEnd(s) == IF c.valid = None THEN anchor(s) ELSE Or(PreviousOpen(c, validStart(s)), c.train[2])
           range(s) == TrainRangeForEnd(c, trainEnd(s), s)
           usable == {s \in starts : segment(s) # {} /\ range(s) # None
                                       /\ Cardinality(Between(c, range(s))) >= c.minDays}
           id(s) == <<"segment", Rank(starts, s) + 1>> \o Span(segment(s))
           train(s) == SampleDates(c, range(s), c.trainFreq)
           valid(s) == IF c.valid = None THEN {} ELSE SampleDates(c, <<validStart(s), anchor(s)>>, c.trainFreq)
           window(s) == Window(id(s), train(s), valid(s), segment(s), None)
<1>1. SegmentWindows(c) = {window(s) : s \in usable}
  BY DEF SegmentWindows
<1>2. starts \subseteq Nat
  <2>1. PredictDates(c) \subseteq c.cal /\ c.cal \subseteq Nat
    BY PredictOpen DEF WellFormed
  <2>2. RefitDates(c, PredictDates(c), c.refit) \subseteq c.cal
    BY <2>1, RefitOpen
  <2>3. Min(PredictDates(c)) \in c.cal
    BY <2>1, LeastOf
  <2> QED
    BY <2>1, <2>2, <2>3
<1>3. \A s : valid(s) \subseteq c.cal
  BY SampleOpen
<1>4. \A s \in usable : s \in starts /\ segment(s) # {}
  OBVIOUS
<1>5. \A s : id(s)[3] = Min(segment(s)) /\ segment(s) \subseteq PredictDates(c)
  <2>1. \A s : segment(s) \subseteq PredictDates(c)
    BY DEF SegmentFrom
  <2> HIDE DEF segment, starts
  <2> QED
    BY <2>1, SegmentIds
<1> HIDE DEF starts, usable, train, valid, id
<1>6. \A s \in usable : SegmentWindow(window(s)) /\ WindowOk(c, window(s))
  BY <1>3, <1>4, <1>5, WindowFields DEF SegmentWindow, Window
<1>7. \A s \in usable : window(s).cutoff = None /\ window(s).predict = SegmentFrom(c, starts, s)
  BY DEF Window
<1> HIDE DEF window
<1>8. ASSUME NEW s \in usable, NEW t \in usable, window(s) # window(t) PROVE Apart(c, window(s), window(t))
  <2>1. s \in starts /\ t \in starts /\ s # t
    BY <1>4, <1>8
  <2> QED
    BY <1>2, <1>6, <1>7, <2>1, SegmentsApart
<1> QED
  BY <1>1, <1>6, <1>8 DEF SchemeOk

\* A delayed model serves from the open date after its cutoff to the next one's.
LEMMA DelayedOk == ASSUME NEW c, WellFormed(c) PROVE SchemeOk(c, DelayedWindows(c))
<1> DEFINE span == <<c.train[1], Min({c.train[2], Max(PredictDates(c))})>>
           cutoffs == {d \in RefitDates(c, Between(c, span), c.refit) : IsActualPeriodEnd(c, d, c.refit)}
           lower(d) == IF c.scheme = "rolling"
                       THEN LookbackStart(c, (Month(d) + 1) * MonthLen, d, c.lookback) ELSE c.train[1]
           mature(d) == MatureDates(c, SampleDates(c, <<lower(d), d>>, c.trainFreq), d)
           split(d) == SplitWindowDates(c, mature(d))
           active(d) == Offset(c, d, 1)
           usable == {d \in cutoffs :
             /\ lower(d) # None /\ active(d) # None
             /\ lower(d) >= c.train[1] /\ active(d) <= Max(PredictDates(c))
             /\ split(d).train # {} /\ (split(d).valid # {} \/ c.rows)}
           starts == {active(e) : e \in usable}
           segment(d) == SegmentFrom(c, starts, active(d))
           id(d) == <<"cutoff", d, active(d)>>
           window(d) == Window(id(d), split(d).train, split(d).valid, segment(d), d)
           chosen == {e \in usable : segment(e) # {}}
<1>1. DelayedWindows(c) = {window(d) : d \in chosen}
  BY DEF DelayedWindows
<1>2. cutoffs \subseteq c.cal /\ c.cal \subseteq Nat
  <2>1. Between(c, span) \subseteq c.cal
    BY DEF Between
  <2> HIDE DEF span
  <2>2. RefitDates(c, Between(c, span), c.refit) \subseteq c.cal
    BY <2>1, RefitOpen
  <2> QED
    BY <2>2 DEF WellFormed
<1>3. \A d : split(d).valid \subseteq c.cal
  <2>1. \A d : mature(d) \subseteq c.cal
    BY SampleOpen DEF MatureDates
  <2> HIDE DEF mature
  <2> QED
    BY <2>1, SplitWithin
<1>4. \A d \in usable : d \in c.cal /\ d \in Nat /\ active(d) # None
  <2> HIDE DEF split, lower, active
  <2> QED
    BY <1>2
<1>5. ASSUME NEW d \in usable
      PROVE  active(d) \in c.cal /\ active(d) \in Nat /\ d < active(d) /\ \A x \in c.cal : x <= d \/ active(d) <= x
  <2> HIDE DEF usable
  <2> QED
    BY <1>2, <1>4, NextOpen
<1> HIDE DEF usable, split, active
<1>6. starts \subseteq Nat /\ \A d \in usable : active(d) \in starts
  BY <1>5
<1>7. \A d : segment(d) \subseteq PredictDates(c) /\ segment(d) \subseteq c.cal
  BY PredictOpen DEF SegmentFrom
<1>8. \A d \in usable : \A x \in segment(d) : active(d) <= x
  BY DEF SegmentFrom
<1>9. ASSUME NEW d \in usable PROVE WindowOk(c, window(d)) /\ Cutoff(c, window(d)) = d
  <2> HIDE DEF segment
  <2>1. \A x \in segment(d) : d < x
    BY <1>2, <1>4, <1>5, <1>7, <1>8
  <2>2. WindowOk(c, window(d))
    BY <1>3, <1>7, <2>1, WindowFields
  <2>3. window(d).cutoff = d /\ d # None
    BY <1>4, PlanAssumption DEF Window
  <2> QED
    BY <2>2, <2>3 DEF Cutoff
<1>10. \A d : window(d).id = id(d) /\ window(d).predict = segment(d)
  BY DEF Window
<1> HIDE DEF window
<1>11. ASSUME NEW d \in usable, NEW e \in usable, d # e PROVE Apart(c, window(d), window(e))
  <2>1. id(d) # id(e)
    BY <1>11
  <2> HIDE DEF starts
  <2>2. CASE d < e
    <3>1. active(d) < active(e) /\ active(d) \in starts /\ active(e) \in starts
      BY <1>2, <1>4, <1>5, <1>6, <2>2
    <3>2. \A x \in segment(d) : x \in Nat /\ x \in c.cal /\ x < active(e)
      BY <1>6, <1>7, <3>1, FromStart
    <3> HIDE DEF segment
    <3>3. segment(d) \intersect segment(e) = {} /\ \A x \in segment(d), y \in segment(e) : x < y
      <4>1. \A x \in segment(e) : x \in Nat /\ active(e) <= x
        BY <1>2, <1>7, <1>8
      <4>2. active(e) \in Nat
        BY <1>5
      <4> QED
        BY <3>2, <4>1, <4>2
    <3>4. \A x \in segment(d) : ~(e < x)
      <4> SUFFICES ASSUME NEW x \in segment(d), e < x PROVE FALSE
        OBVIOUS
      <4>1. x <= e \/ active(e) <= x
        BY <1>5, <3>2
      <4> QED
        BY <1>4, <1>5, <3>2, <4>1
    <3> QED
      BY <1>9, <1>10, <2>1, <3>3, <3>4 DEF Apart, InTurn
  <2>3. CASE e < d
    <3>1. active(e) < active(d) /\ active(d) \in starts /\ active(e) \in starts
      BY <1>2, <1>4, <1>5, <1>6, <2>3
    <3>2. \A x \in segment(e) : x \in Nat /\ x \in c.cal /\ x < active(d)
      BY <1>6, <1>7, <3>1, FromStart
    <3> HIDE DEF segment
    <3>3. segment(d) \intersect segment(e) = {} /\ \A x \in segment(d), y \in segment(e) : y < x
      <4>1. \A x \in segment(d) : x \in Nat /\ active(d) <= x
        BY <1>2, <1>7, <1>8
      <4>2. active(d) \in Nat
        BY <1>5
      <4> QED
        BY <3>2, <4>1, <4>2
    <3>4. ~(d < e)
      BY <1>4, <2>3
    <3> QED
      BY <1>9, <1>10, <2>1, <3>3, <3>4 DEF Apart, InTurn
  <2> QED
    BY <1>4, <1>11, <2>2, <2>3
<1>12. \A w \in DelayedWindows(c) : \E d \in usable : w = window(d)
  BY <1>1
<1> HIDE DEF chosen
<1> QED
  BY <1>9, <1>11, <1>12 DEF SchemeOk

-----------------------------------------------------------------------------
(* The calendar scheme.                                                     *)

LEMMA PeriodDays ==
  ASSUME NEW d \in Nat, NEW f, f[2] \in Nat \ {0}
  PROVE  LET days == f[2] * MonthLen
             p == Period(f, d)
         IN p \in Int /\ days \in Nat \ {0} /\ p * days < d /\ d <= (p + 1) * days
<1> DEFINE n == f[2]
           L == MonthLen
           m == (d - 1) \div L
           p == m \div n
<1>1. n \in Nat \ {0} /\ L \in Nat \ {0}
  BY CalendarAssumption
<1>2. p = Period(f, d)
  BY DEF Period, Month
<1> HIDE DEF n, L
<1>3. m \in Int /\ m * L <= d - 1 /\ d - 1 < m * L + L
  BY <1>1, DivRule
<1> HIDE DEF m
<1>4. p \in Int /\ p * n <= m /\ m < p * n + n
  BY <1>1, <1>3, DivRule
<1> HIDE DEF p
<1>5. (p * n) * L <= m * L
  <2>1. p * n \in Int
    BY <1>1, <1>4
  <2> QED
    BY <1>1, <1>3, <1>4, <2>1, TimesMonotone
<1>6. (m + 1) * L <= ((p + 1) * n) * L
  <2>1. (p + 1) * n \in Int /\ (p + 1) * n = p * n + n /\ p * n \in Int
    BY <1>1, <1>4
  <2>2. m + 1 <= (p + 1) * n
    <3> DEFINE x == p * n
               y == (p + 1) * n
    <3>1. x \in Int /\ y = x + n /\ m < x + n
      BY <1>4, <2>1
    <3> HIDE DEF x, y
    <3>2. m + 1 <= y
      BY <1>1, <1>3, <3>1
    <3> QED
      BY <3>2 DEF y
  <2> QED
    BY <1>1, <1>3, <2>1, <2>2, TimesMonotone
<1>7. (p * n) * L = p * (n * L) /\ ((p + 1) * n) * L = (p + 1) * (n * L) /\ (m + 1) * L = m * L + L
      /\ n * L \in Nat \ {0} /\ p * (n * L) \in Int /\ (p + 1) * (n * L) \in Int /\ m * L \in Int
  BY <1>1, <1>3, <1>4
<1>8. p * (n * L) < d /\ d <= (p + 1) * (n * L)
  <2> DEFINE a == p * (n * L)
             b == (p + 1) * (n * L)
             e == m * L
  <2>1. a \in Int /\ b \in Int /\ e \in Int /\ a <= e /\ e <= d - 1 /\ d - 1 < e + L /\ e + L <= b
    BY <1>3, <1>5, <1>6, <1>7
  <2> HIDE DEF a, b, e
  <2>2. a < d /\ d <= b
    BY <1>1, <2>1
  <2> QED
    BY <2>2 DEF a, b
<1> QED
  BY <1>2, <1>4, <1>7, <1>8 DEF n, L

LEMMA CalendarOk ==
  ASSUME NEW c, WellFormed(c), c.vlookback # None, CalendarWindows(c) # Failed
  PROVE  SchemeOk(c, CalendarWindows(c))
<1> DEFINE periods == {Period(c.refit, d) : d \in PredictDates(c)}
           days == c.refit[2] * MonthLen
           first(p) == p * days + 1
           cutoff(p) == PreviousOpen(c, first(p))
           lower(p) == LookbackStart(c, p * days, cutoff(p), c.lookback)
           validStart(p) == LookbackStart(c, p * days, cutoff(p), c.vlookback)
           trainEnd(p) == PreviousOpen(c, validStart(p))
           sound(p) ==
             /\ cutoff(p) # None /\ cutoff(p) <= c.train[2]
             /\ lower(p) # None /\ lower(p) < validStart(p)
             /\ c.train[1] <= lower(p) /\ Min(c.cal) <= lower(p)
             /\ Cardinality(Between(c, <<lower(p), trainEnd(p)>>)) >= c.minDays
           id(p) == <<"period", c.refit[2], p>>
           train(p) == SampleDates(c, <<lower(p), trainEnd(p)>>, c.trainFreq)
           valid(p) == SampleDates(c, <<validStart(p), cutoff(p)>>, c.trainFreq)
           predict(p) == {d \in PredictDates(c) : Period(c.refit, d) = p}
           window(p) == Window(id(p), train(p), valid(p), predict(p), cutoff(p))
<1>1. CalendarWindows(c) = IF \E p \in periods : ~sound(p) THEN Failed ELSE {window(p) : p \in periods}
  BY DEF CalendarWindows
<1>2. CalendarWindows(c) = {window(p) : p \in periods} /\ \A p \in periods : sound(p)
  <2> HIDE DEF periods, sound, window
  <2> QED
    BY <1>1
<1>3. \A p \in periods : cutoff(p) # None
  BY <1>2
<1>4. PredictDates(c) \subseteq c.cal /\ c.cal \subseteq Nat /\ c.refit[2] \in Nat \ {0}
  BY PredictOpen DEF WellFormed
<1>5. \A d \in PredictDates(c) : /\ Period(c.refit, d) \in Int /\ days \in Nat \ {0}
                                 /\ Period(c.refit, d) * days < d /\ d <= (Period(c.refit, d) + 1) * days
  BY <1>4, PeriodDays
<1>6. \A p \in periods : p \in Int /\ days \in Nat \ {0}
  BY <1>5
<1>7. \A p \in periods : \A d \in predict(p) : d \in c.cal /\ d \in Nat /\ p * days < d /\ d <= (p + 1) * days
  BY <1>4, <1>5
<1>8. \A p : valid(p) \subseteq c.cal
  BY SampleOpen
<1> HIDE DEF sound, lower, validStart, trainEnd, train, valid, periods, predict, cutoff, days
<1>9. ASSUME NEW p \in periods
      PROVE  /\ cutoff(p) \in c.cal /\ cutoff(p) < p * days + 1
             /\ \A x \in c.cal : x < p * days + 1 => x <= cutoff(p)
  BY <1>3, LastOpen DEF cutoff
<1>10. ASSUME NEW p \in periods PROVE cutoff(p) \in Nat /\ p * days \in Int /\ (p + 1) * days = p * days + days
  BY <1>4, <1>6, <1>9
<1>11. ASSUME NEW p \in periods PROVE WindowOk(c, window(p)) /\ Cutoff(c, window(p)) = cutoff(p)
  <2>1. ASSUME NEW d \in predict(p) PROVE cutoff(p) < d
    <3> DEFINE x == p * days
    <3>1. x \in Int /\ x < d /\ cutoff(p) < x + 1 /\ d \in Nat /\ cutoff(p) \in Nat
      BY <1>7, <1>9, <1>10
    <3> HIDE DEF x
    <3> QED
      BY <3>1
  <2>2. predict(p) \subseteq PredictDates(c)
    BY DEF predict
  <2>3. WindowOk(c, window(p))
    BY <1>8, <2>1, <2>2, WindowFields
  <2>4. window(p).cutoff = cutoff(p) /\ cutoff(p) # None
    BY <1>3 DEF Window
  <2> QED
    BY <2>3, <2>4 DEF Cutoff
<1>12. \A p \in periods : window(p).id[3] = p /\ window(p).predict = predict(p)
  BY DEF Window
<1>13. ASSUME NEW p \in periods, NEW q \in periods, p < q PROVE p * days + days <= q * days
  <2>1. p + 1 <= q /\ p + 1 \in Int /\ q \in Int /\ days \in Nat
    BY <1>6, <1>13
  <2>2. (p + 1) * days <= q * days
    BY <2>1, TimesMonotone
  <2> QED
    BY <1>10, <2>2
<1>14. \A p, q \in periods : p # q => predict(p) \intersect predict(q) = {}
  BY DEF predict
<1>15. ASSUME NEW p \in periods, NEW q \in periods, NEW d \in predict(p), p # q
       PROVE  ~(cutoff(p) < cutoff(q) /\ cutoff(q) < d)
  <2> DEFINE x == p * days
             y == q * days
  <2>1. x \in Int /\ y \in Int /\ cutoff(p) \in Nat /\ cutoff(q) \in Nat /\ d \in Nat /\ days \in Nat \ {0} /\ d \in c.cal
        /\ cutoff(p) \in c.cal /\ cutoff(q) \in c.cal
    BY <1>6, <1>7, <1>9, <1>10
  <2>2. CASE p < q
    <3>1. x + days <= y /\ d <= x + days
      BY <1>7, <1>10, <1>13, <2>2
    <3>2. d < y + 1
      <4> HIDE DEF x, y
      <4> QED
        BY <2>1, <3>1
    <3>3. d <= cutoff(q)
      BY <1>9, <2>1, <3>2
    <3> QED
      BY <2>1, <3>3
  <2>3. CASE q < p
    <3>1. y + days <= x /\ cutoff(q) < y + 1
      BY <1>9, <1>13, <2>3
    <3>2. cutoff(q) < x + 1
      <4> HIDE DEF x, y
      <4> QED
        BY <2>1, <3>1
    <3>3. cutoff(q) <= cutoff(p)
      BY <1>9, <2>1, <3>2
    <3> QED
      BY <2>1, <3>3
  <2> QED
    BY <1>6, <1>15, <2>2, <2>3
<1>15a. ASSUME NEW p \in periods, NEW q \in periods, p < q, NEW d \in predict(p), NEW e \in predict(q)
        PROVE  d < e
  <2> DEFINE x == p * days
             y == q * days
  <2>1. x \in Int /\ y \in Int /\ d \in Nat /\ e \in Nat /\ days \in Nat /\ d <= x + days /\ y < e /\ x + days <= y
    BY <1>6, <1>7, <1>10, <1>13, <1>15a
  <2> HIDE DEF x, y
  <2> QED
    BY <2>1
<1> HIDE DEF window
<1>16. ASSUME NEW p \in periods, NEW q \in periods, p # q PROVE Apart(c, window(p), window(q))
  <2>1. InTurn(window(p), window(q))
    <3>1. p < q \/ q < p
      BY <1>6, <1>16
    <3> QED
      BY <1>12, <1>15a, <3>1 DEF InTurn
  <2> QED
    BY <1>11, <1>12, <1>14, <1>15, <1>16, <2>1 DEF Apart
<1> QED
  BY <1>2, <1>11, <1>16 DEF SchemeOk

-----------------------------------------------------------------------------
(* Every scheme, and what build_windows makes of its windows.               *)

LEMMA SchemesOk ==
  ASSUME NEW c, WellFormed(c), SchemeWindows(c) # Failed
  PROVE  SchemeOk(c, SchemeWindows(c))
<1>1. CASE c.vlookback # None
  BY <1>1, CalendarOk DEF SchemeWindows
<1>2. CASE c.vlookback = None /\ PredictDates(c) = {}
  BY <1>2, TrainOnlyOk DEF SchemeWindows
<1>3. CASE c.vlookback = None /\ PredictDates(c) # {}
  BY <1>3, StaticOk, DelayedOk, RatioOk, SampleCountOk, SegmentOk DEF SchemeWindows
<1> QED
  BY <1>1, <1>2, <1>3

LEMMA HorizonType == ASSUME NEW c, WellFormed(c) PROVE LabelHorizon(c) \in Nat
BY MaxPair DEF WellFormed, LabelHorizon

\* What remains of a window looks at nothing that its cutoff does not know.
LEMMA PurgedKnows ==
  ASSUME NEW c, WellFormed(c), NEW w, WindowOk(c, w), Usable(c, w), NEW x, x = Purged(c, w)
  PROVE  /\ x.id = w.id /\ x.predict = w.predict /\ x.cutoff = Cutoff(c, w)
         /\ x.train # {} /\ Known(c, x.train \union x.valid, x.cutoff)
         /\ \A d \in x.predict : x.cutoff < d
         /\ \A t \in x.train, v \in x.valid : Position(c, t) + LabelHorizon(c) < Position(c, v)
<1> DEFINE cutoff == Cutoff(c, w)
           start == IF w.predict = {} THEN None ELSE Min(w.predict)
           mature == MatureDates(c, w.valid, cutoff)
           valid == Before(c, mature, start)
           boundary == IF valid = {} THEN start ELSE Min(valid)
           train == Before(c, MatureDates(c, w.train, cutoff), boundary)
<1>1. x = [id |-> w.id, train |-> train, valid |-> valid, predict |-> w.predict, cutoff |-> cutoff]
  <2>1. w = [id |-> w.id, train |-> w.train, valid |-> w.valid, predict |-> w.predict, cutoff |-> w.cutoff]
    BY DEF WindowOk, Window
  <2>2. x = [w EXCEPT !.train = train, !.valid = valid, !.cutoff = cutoff]
    BY DEF Purged
  <2> HIDE DEF train, valid, cutoff
  <2> QED
    BY <2>1, <2>2
<1>2. /\ \A d \in mature : d \in w.valid /\ Position(c, d) + LabelHorizon(c) <= Position(c, cutoff)
      /\ valid \subseteq mature
  BY DEF MatureDates, Before, SettledDates
<1>3. \A d \in train : Position(c, d) + LabelHorizon(c) <= Position(c, cutoff)
  BY DEF MatureDates, Before, SettledDates
<1>4. train # {} /\ cutoff # None
  BY <1>1 DEF Usable
<1>5. w.predict \subseteq c.cal /\ w.valid \subseteq c.cal /\ c.cal \subseteq Nat
  BY PredictOpen DEF WindowOk, WellFormed
<1>6. \A d \in w.predict : cutoff < d
  <2>1. CASE w.cutoff # None
    BY <2>1 DEF WindowOk, Cutoff
  <2>2. CASE w.cutoff = None /\ w.predict # {}
    <3>1. Min(w.predict) \in w.predict /\ \A d \in w.predict : Min(w.predict) <= d
      BY <1>5, <2>2, LeastOf
    <3>2. cutoff = PreviousOpen(c, Min(w.predict))
      BY <2>2 DEF Cutoff
    <3>3. cutoff \in c.cal /\ cutoff < Min(w.predict)
      <4> HIDE DEF cutoff
      <4> QED
        BY <1>4, <3>2, LastOpen
    <3> HIDE DEF cutoff
    <3> QED
      BY <1>5, <3>1, <3>3
  <2> QED
    BY <2>1, <2>2
<1>7. ASSUME NEW t \in train, NEW v \in valid PROVE Position(c, t) + LabelHorizon(c) < Position(c, v)
  <2>1. valid \subseteq Nat /\ valid # {}
    BY <1>2, <1>5, <1>7
  <2> HIDE DEF valid
  <2>2. Min(valid) \in valid /\ Min(valid) <= v
    BY <2>1, LeastOf
  <2>3. boundary = Min(valid) /\ boundary # None /\ boundary \in Nat
    BY <2>1, <2>2, PlanAssumption
  <2>4. Position(c, t) + LabelHorizon(c) < Position(c, boundary)
    BY <2>3 DEF Before, SettledDates
  <2>5. Position(c, boundary) <= Position(c, v)
    BY <2>1, <2>2, <2>3, PositionMonotone
  <2> QED
    BY <2>4, <2>5, PositionType, HorizonType
<1>8. cutoff = Cutoff(c, w)
  OBVIOUS
<1> HIDE DEF train, valid, cutoff, mature
<1>9. x.id = w.id /\ x.predict = w.predict /\ x.cutoff = cutoff /\ x.train = train /\ x.valid = valid
  BY <1>1
<1>10. Known(c, train \union valid, cutoff)
  BY <1>2, <1>3 DEF Known
<1> QED
  BY <1>4, <1>6, <1>7, <1>8, <1>9, <1>10

\* The plan of a configuration.
PlanOk(c, windows) ==
  /\ \A w \in windows :
       /\ w.predict \subseteq PredictDates(c)
       /\ w.train # {} /\ Known(c, w.train \union w.valid, w.cutoff)
       /\ \A d \in w.predict : w.cutoff < d
       /\ \A t \in w.train, v \in w.valid : Position(c, t) + LabelHorizon(c) < Position(c, v)
  /\ \A v, w \in windows : v # w =>
       /\ v.id # w.id /\ v.predict \intersect w.predict = {} /\ InTurn(v, w)
       /\ \A d \in v.predict : ~(v.cutoff < w.cutoff /\ w.cutoff < d)

LEMMA PlansOk ==
  ASSUME NEW c, WellFormed(c), BuildWindows(c) # Failed
  PROVE  PlanOk(c, BuildWindows(c))
<1> DEFINE made == SchemeWindows(c)
<1>1. made # Failed /\ (\A w \in made : Usable(c, w)) /\ BuildWindows(c) = {Purged(c, w) : w \in made}
  BY DEF BuildWindows, Settled
<1>2. SchemeOk(c, made)
  BY <1>1, SchemesOk
<1> HIDE DEF made
<1>3. ASSUME NEW x \in BuildWindows(c), NEW w \in made, x = Purged(c, w)
      PROVE  /\ x.id = w.id /\ x.predict = w.predict /\ x.cutoff = Cutoff(c, w) /\ w.predict \subseteq PredictDates(c)
             /\ x.train # {} /\ Known(c, x.train \union x.valid, x.cutoff)
             /\ \A d \in x.predict : x.cutoff < d
             /\ \A t \in x.train, v \in x.valid : Position(c, t) + LabelHorizon(c) < Position(c, v)
  <2>1. WindowOk(c, w) /\ Usable(c, w)
    BY <1>1, <1>2 DEF SchemeOk
  <2> QED
    BY <1>3, <2>1, PurgedKnows DEF WindowOk
<1>4. ASSUME NEW x \in BuildWindows(c), NEW y \in BuildWindows(c), x # y
      PROVE  /\ x.id # y.id /\ x.predict \intersect y.predict = {} /\ InTurn(x, y)
             /\ \A d \in x.predict : ~(x.cutoff < y.cutoff /\ y.cutoff < d)
  <2>1. PICK v \in made, w \in made : x = Purged(c, v) /\ y = Purged(c, w)
    BY <1>1
  <2>2. Apart(c, v, w)
    BY <1>2, <1>4, <2>1 DEF SchemeOk
  <2>3. Cutoff(c, v) # None /\ Cutoff(c, w) # None
    BY <1>1 DEF Usable
  <2>4. x.id = v.id /\ x.predict = v.predict /\ x.cutoff = Cutoff(c, v)
    BY <1>3, <2>1
  <2>5. y.id = w.id /\ y.predict = w.predict /\ y.cutoff = Cutoff(c, w)
    BY <1>3, <2>1
  <2> QED
    BY <2>2, <2>3, <2>4, <2>5 DEF Apart, InTurn
<1> QED
  BY <1>1, <1>3, <1>4 DEF PlanOk

-----------------------------------------------------------------------------
(* The plan that is shown.                                                  *)

Shown == proc.prog = "plan" => proc.config \in PlanConfigs /\ proc.windows = BuildWindows(proc.config)

ShownInv == "prog" \in DOMAIN proc /\ Shown

LEMMA ShowPlanShown == ASSUME ShowPlan PROVE ShownInv'
<1>1. PICK c \in PlanConfigs : proc' = [prog |-> "plan", config |-> c, windows |-> BuildWindows(c)]
  BY DEF ShowPlan, Start
<1> QED
  BY <1>1 DEF ShownInv, Shown

LEMMA MetadataShown == ASSUME ShownInv, MetadataNext PROVE ShownInv'
<1>1. ASSUME NEW ids \in MlRegistrations, StartMlMetadata(ids) PROVE ShownInv'
  BY <1>1 DEF StartMlMetadata, Start, Publication, ShownInv, Shown
<1>2. ASSUME NEW ids \in CodeRegistries, StartCodeMetadata(ids) PROVE ShownInv'
  BY <1>2 DEF StartCodeMetadata, Start, Publication, ShownInv, Shown
<1>3. CASE PublishSource
  BY <1>3 DEF PublishSource, Publishing, ShownInv, Shown
<1>4. CASE PublishNative
  BY <1>4 DEF PublishNative, Publishing, ShownInv, Shown
<1>5. CASE PublishCombined
  BY <1>5 DEF PublishCombined, Idle, ShownInv, Shown
<1> QED
  BY <1>1, <1>2, <1>3, <1>4, <1>5 DEF MetadataNext

LEMMA NextShown == RInv /\ ShownInv /\ [Next]_mlVars => ShownInv'
<1> SUFFICES ASSUME RInv, ShownInv, [Next]_mlVars PROVE ShownInv'
  OBVIOUS
<1>1. Other(proc') => ShownInv'
  BY DEF Other, ShownInv, Shown
<1>2. CASE UNCHANGED mlVars
  BY <1>2 DEF mlVars, ShownInv, Shown
<1>3. CASE ArtifactsNext
  BY <1>1, <1>3, StartOther, PipelineOther DEF ArtifactsNext
<1>4. CASE GroupedNext
  BY <1>1, <1>4, StartOther, GroupedOther DEF GroupedNext, GroupedStep
<1>5. CASE MetadataNext
  BY <1>5, MetadataShown
<1>6. CASE ShowPlan
  BY <1>6, ShowPlanShown
<1>7. CASE Stop
  BY <1>1, <1>7, StartOther
<1> QED
  BY <1>2, <1>3, <1>4, <1>5, <1>6, <1>7 DEF Next

LEMMA PlanShown == Spec => [](ShownInv)
<1>1. Init => ShownInv
  BY DEF Init, Idle, ShownInv, Shown
<1> QED
  BY <1>1, InitRInv, NextRInv, NextShown, PTL DEF Spec

LEMMA WindowsOk == ASSUME ShownInv PROVE Windows = {} \/ PlanOk(proc.config, Windows)
<1>1. CASE Windows # {}
  <2>1. proc.prog = "plan" /\ proc.windows # Failed /\ Windows = proc.windows
    BY <1>1 DEF Windows
  <2>2. proc.config \in PlanConfigs /\ Windows = BuildWindows(proc.config) /\ BuildWindows(proc.config) # Failed
    BY <2>1 DEF ShownInv, Shown
  <2> QED
    BY <2>2, PlanAssumption, PlansOk
<1> QED
  BY <1>1

\* Under every calendar and configuration that is not refused, all seven schemes keep the future
\* out: labels are realised by a window's cutoff, predictions are later than it, and no training
\* label reaches into the validation dates.
THEOREM FutureUnseen == Spec => []NoLookAhead
<1>1. ShownInv => NoLookAhead
  BY WindowsOk DEF PlanOk, NoLookAhead
<1> QED
  BY <1>1, PlanShown, PTL

\* No two windows of a plan share a date or an artifact directory, and a date is predicted by
\* the newest model whose cutoff lies before it.
THEOREM NewestServes == Spec => []NewestModel
<1>1. ShownInv => NewestModel
  BY WindowsOk DEF PlanOk, NewestModel
<1> QED
  BY <1>1, PlanShown, PTL

-----------------------------------------------------------------------------
(* Plans and what an undisturbed run gives.                                 *)

LEMMA TableIs == ASSUME NEW f PROVE Table(f) = f
BY DEF Table

LEMMA PlanFacts ==
  ASSUME NEW c \in DOMAIN Configs
  PROVE  /\ \A w \in Plan[c] : /\ Path(c, w) \in Paths /\ Identity(c, w) \in Identities
                               /\ w.predict \subseteq Predicts[c]
         /\ \A v, w \in Plan[c] : v # w => v.id # w.id /\ v.predict \intersect w.predict = {}
         /\ Predicts[c] \subseteq OutputDates /\ Predicts[c] \subseteq Nat
         /\ Configs[c].out \in Outputs
<1>1. Plan[c] = BuildWindows(Configs[c])
  BY TableIs DEF Plan
<1>2. Predicts[c] = PredictDates(Configs[c])
  BY TableIs DEF Predicts
<1>3. PlanOk(Configs[c], Plan[c])
  BY <1>1, PlansOk, ConfigAssumption
<1>4. Predicts[c] \subseteq Nat
  BY <1>2, PredictOpen, ConfigAssumption DEF WellFormed
<1>5. \A w \in Plan[c] : w.predict \subseteq Predicts[c]
  BY <1>2, <1>3 DEF PlanOk
<1>6. \A v, w \in Plan[c] : v # w => v.id # w.id /\ v.predict \intersect w.predict = {}
  BY <1>3 DEF PlanOk
<1>7. Predicts[c] \subseteq OutputDates
  BY DEF OutputDates
<1>8. \A w \in Plan[c] : Path(c, w) \in Paths
  BY DEF Paths
<1>9. \A w \in Plan[c] : Identity(c, w) \in Identities
  BY DEF Identities
<1> QED
  BY <1>4, <1>5, <1>6, <1>7, <1>8, <1>9 DEF Outputs

LEMMA TrainedIs == \A c \in DOMAIN Configs : Trained[c] = {w \in Plan[c] : HasRows(w.train)}
BY TableIs DEF Trained

\* A trained window's dates get its model's values, other dates get nulls.
LEMMA UndisturbedIs ==
  ASSUME NEW c \in DOMAIN Configs, NEW d \in OutputDates
  PROVE  /\ d \notin DataDates => Undisturbed[<<c, d>>] = None
         /\ (\A w \in Trained[c] : d \notin w.predict) => Undisturbed[<<c, d>>] = None
         /\ \A w \in Trained[c] : d \in w.predict /\ d \in DataDates => Undisturbed[<<c, d>>] = Identity(c, w)
<1> DEFINE own == {w \in Trained[c] : d \in w.predict}
<1>1. Undisturbed[<<c, d>>] = IF own = {} \/ d \notin DataDates THEN None ELSE Identity(c, CHOOSE w \in own : TRUE)
  <2> DEFINE f == [p \in (DOMAIN Configs) \X OutputDates |->
               LET served == {w \in Trained[p[1]] : p[2] \in w.predict} IN
               IF served = {} \/ p[2] \notin DataDates THEN None ELSE Identity(p[1], CHOOSE w \in served : TRUE)]
  <2>1. Undisturbed = f
    BY TableIs DEF Undisturbed
  <2>2. f[<<c, d>>] = IF own = {} \/ d \notin DataDates THEN None ELSE Identity(c, CHOOSE w \in own : TRUE)
    OBVIOUS
  <2> QED
    BY <2>1, <2>2
<1>2. ASSUME NEW w \in Trained[c], d \in w.predict, d \in DataDates PROVE Undisturbed[<<c, d>>] = Identity(c, w)
  <2> DEFINE x == CHOOSE v \in own : TRUE
  <2>1. w \in own /\ x \in own
    BY <1>2
  <2>2. x = w
    <3>1. x \in Plan[c] /\ w \in Plan[c] /\ d \in x.predict /\ d \in w.predict
      BY <2>1, TrainedIs
    <3> HIDE DEF x, own
    <3> QED
      BY <3>1, PlanFacts
  <2> QED
    BY <1>1, <1>2, <2>1, <2>2
<1> QED
  BY <1>1, <1>2

-----------------------------------------------------------------------------
(* Models, manifests and columns.                                           *)

Held == Identities \union {None}
ColumnValues == [by : DOMAIN Configs, model : Held]

\* What an undisturbed run of a configuration leaves on a date.
Right(c, d, x) == x \in ColumnValues /\ x # None /\ x.by = c /\ x.model = Undisturbed[<<c, d>>]

\* A model, or the identity in a manifest, of a window of a configuration used before or now.
Made(p, m) ==
  \E c \in DOMAIN Configs : \E w \in Trained[c] :
    Path(c, w) = p /\ Identity(c, w) = m /\ Configs[c].version <= latest[Configs[c].out]

\* A manifest that names a window of a configuration that may still be used is about the model
\* beside it, unless that is torn.
Manifested(c, w) ==
  Configs[c].version >= latest[Configs[c].out] /\ manifest[Path(c, w)] = Identity(c, w)
  => model[Path(c, w)] \in {Identity(c, w), Torn, None}

ArtifactsOk ==
  /\ latest \in [Outputs -> Nat]
  /\ model \in [Paths -> Identities \union {None, Torn}]
  /\ manifest \in [Paths -> Held]
  /\ \A p \in Paths : /\ model[p] \notin {None, Torn} => Made(p, model[p])
                      /\ manifest[p] # None => Made(p, manifest[p])
  /\ \A c \in DOMAIN Configs : \A w \in Plan[c] : Manifested(c, w)

ColumnsOk ==
  /\ column \in [Outputs -> [OutputDates -> ColumnValues \union {None}]]
  /\ \A o \in Outputs, d \in OutputDates :
       column[o][d] # None => \E c \in DOMAIN Configs : Right(c, d, column[o][d])

LEMMA ValueIs ==
  ASSUME NEW c \in DOMAIN Configs, NEW d \in OutputDates, NEW held \in Held \union {Torn},
         (IF d \in DataDates THEN held ELSE None) = Undisturbed[<<c, d>>],
         d \in DataDates => held \in Held
  PROVE  Right(c, d, Value(c, d, held))
<1> DEFINE m == IF d \in DataDates THEN held ELSE None
<1>1. m \in Identities \union {None} /\ Value(c, d, held) = [by |-> c, model |-> m]
  BY DEF Held, Value
<1> HIDE DEF m
<1>2. [by |-> c, model |-> m] # None
  BY <1>1, ValueAssumption
<1> QED
  BY <1>1, <1>2 DEF Right, ColumnValues, Held, m

\* Nulls are right where no trained window predicts.
LEMMA NullIs ==
  ASSUME NEW c \in DOMAIN Configs, NEW d \in OutputDates, \A w \in Trained[c] : d \notin w.predict
  PROVE  Right(c, d, Value(c, d, None))
BY UndisturbedIs, ValueIs DEF Held

LEMMA ScoreIs ==
  ASSUME NEW c \in DOMAIN Configs, NEW w \in Trained[c], NEW d \in w.predict,
         NEW held \in Held \union {Torn}, d \in DataDates => held = Identity(c, w)
  PROVE  Right(c, d, Value(c, d, held))
<1>1. w \in Plan[c] /\ d \in OutputDates /\ Identity(c, w) \in Held
  BY TrainedIs, PlanFacts DEF Held
<1> QED
  BY <1>1, UndisturbedIs, ValueIs

\* A model that passes the check of its manifest and loads was trained as the window says.
LEMMA ValidModel ==
  ASSUME ArtifactsOk, NEW c \in DOMAIN Configs, NEW w \in Plan[c],
         Configs[c].version = latest[Configs[c].out], Valid(c, w), model[Path(c, w)] # Torn
  PROVE  model[Path(c, w)] = Identity(c, w) /\ w \in Trained[c]
<1> DEFINE p == Path(c, w)
<1>1. p \in Paths /\ model[p] # None /\ manifest[p] = Identity(c, w) /\ Configs[c].version \in Nat
  BY PlanFacts, ConfigAssumption DEF Valid, Exists
<1>2. model[p] = Identity(c, w)
  BY <1>1 DEF ArtifactsOk, Manifested
<1>3. Made(p, model[p])
  BY <1>1 DEF ArtifactsOk
<1>4. PICK b \in DOMAIN Configs : \E v \in Trained[b] : Identity(b, v) = Identity(c, w)
  BY <1>2, <1>3 DEF Made
<1>0. PICK v \in Trained[b] : Identity(b, v) = Identity(c, w)
  BY <1>4
<1>5. v.train = w.train /\ HasRows(v.train)
  BY <1>0, TrainedIs DEF Identity
<1> QED
  BY <1>2, <1>5, TrainedIs

LEMMA MadeStays ==
  ASSUME latest' = latest
  PROVE  \A q, x : Made(q, x)' <=> Made(q, x)
BY DEF Made

LEMMA LatestGrows ==
  ASSUME ArtifactsOk, UNCHANGED <<model, manifest>>, latest' \in [Outputs -> Nat],
         \A o \in Outputs : latest[o] <= latest'[o]
  PROVE  ArtifactsOk'
<1>1. \A c \in DOMAIN Configs : Configs[c].version \in Nat /\ Configs[c].out \in Outputs
  BY ConfigAssumption DEF Outputs
<1>2. ASSUME NEW p, NEW m, Made(p, m) PROVE Made(p, m)'
  <2>0. PICK c \in DOMAIN Configs : \E w \in Trained[c] :
          Path(c, w) = p /\ Identity(c, w) = m /\ Configs[c].version <= latest[Configs[c].out]
    BY <1>2 DEF Made
  <2>1. PICK w \in Trained[c] :
          Path(c, w) = p /\ Identity(c, w) = m /\ Configs[c].version <= latest[Configs[c].out]
    BY <2>0
  <2>2. Configs[c].version <= latest'[Configs[c].out]
    <3>1. latest[Configs[c].out] \in Nat /\ latest'[Configs[c].out] \in Nat
      BY <1>1 DEF ArtifactsOk
    <3> QED
      BY <1>1, <2>1, <3>1
  <2> QED
    BY <2>1, <2>2 DEF Made
<1>3. ASSUME NEW c \in DOMAIN Configs, NEW w \in Plan[c] PROVE Manifested(c, w)'
  <2>1. latest[Configs[c].out] \in Nat /\ latest'[Configs[c].out] \in Nat /\ latest[Configs[c].out] <= latest'[Configs[c].out]
    BY <1>1 DEF ArtifactsOk
  <2>2. Configs[c].version >= latest'[Configs[c].out] => Configs[c].version >= latest[Configs[c].out]
    BY <1>1, <2>1
  <2> QED
    BY <2>2 DEF Manifested, ArtifactsOk
<1> QED
  BY <1>2, <1>3 DEF ArtifactsOk

-----------------------------------------------------------------------------
(* factor-run, factor-train, factor-predict.                                *)

Pipeline == proc.prog \in {"run", "train", "predict"}

\* A date has a column, and of this run unless the run resumed.
Covered(d) == column[Output][d] # None /\ (~proc.resume => column[Output][d].by = proc.cfg)

LocalOk ==
  /\ proc = [prog |-> proc.prog, cfg |-> proc.cfg, resume |-> proc.resume, todo |-> proc.todo,
             stage |-> proc.stage, held |-> proc.held, all |-> proc.all, left |-> proc.left]
  /\ proc.cfg \in DOMAIN Configs /\ proc.todo \subseteq Plan[proc.cfg]
  /\ Configs[proc.cfg].version = latest[Output]
  /\ proc.prog = "predict" => ~proc.resume
  /\ proc.prog # "train" => \A w \in Trained[proc.cfg] \ proc.todo : \A d \in w.predict : Covered(d)
  /\ proc.stage \in {"window", "open", "save", "manifest", "write"}
  /\ proc.stage # "window" =>
       proc.todo # {} /\ proc.held = Identity(proc.cfg, Current) /\ HasRows(Current.train)
  /\ proc.stage = "manifest" => model[Path(proc.cfg, Current)] = proc.held
  /\ proc.stage = "write" =>
       /\ proc.prog # "train" /\ proc.left \subseteq Current.predict
       /\ \A d \in Current.predict \ proc.left : Covered(d)

\* There is a window that none precedes.
LEMMA CurrentIs ==
  ASSUME LocalOk, proc.todo # {}
  PROVE  Current \in proc.todo /\ Current \in Plan[proc.cfg]
<1> DEFINE T == proc.todo
           First(w) == ~ \E v \in T : Precedes(v, w)
<1>1. \A w \in T : w.predict \subseteq Nat
  BY PlanFacts DEF LocalOk
<1>2. \E w \in T : First(w)
  <2>1. CASE \E w \in T : w.predict = {}
    BY <2>1 DEF Precedes
  <2>2. CASE \A w \in T : w.predict # {}
    <3> DEFINE M == {Min(w.predict) : w \in T}
    <3>1. M \subseteq Nat /\ M # {}
      BY <1>1, <2>2, LeastOf
    <3>2. PICK n \in M : \A m \in M : n <= m
      BY <3>1, LeastNatural
    <3>3. PICK w \in T : n = Min(w.predict)
      BY <3>2
    <3>4. ASSUME NEW v \in T, Precedes(v, w) PROVE FALSE
      <4>1. Min(v.predict) \in M /\ Min(v.predict) < n /\ n \in M
        BY <3>3, <3>4 DEF Precedes
      <4>2. n <= Min(v.predict)
        BY <3>2, <4>1
      <4>3. n \in Nat /\ Min(v.predict) \in Nat
        BY <3>1, <4>1
      <4> HIDE DEF M
      <4> QED
        BY <4>1, <4>2, <4>3
    <3> QED
      BY <3>4
  <2> QED
    BY <2>1, <2>2
<1>3. Current \in T
  BY <1>2 DEF Current
<1> QED
  BY <1>3 DEF LocalOk

LEMMA CurrentStays ==
  ASSUME proc'.todo = proc.todo
  PROVE  Current' = Current
BY DEF Current

\* A program begins, with no window behind it or, if some are not its own, only training.
LEMMA LocalStart ==
  ASSUME NEW prog \in {"run", "train", "predict"}, NEW c \in DOMAIN Configs, NEW resume, NEW windows,
         windows \subseteq Plan[c], prog = "train" \/ windows = Plan[c], prog = "predict" => ~resume,
         proc' = Local(prog, c, resume, windows), latest'[Configs[c].out] = Configs[c].version
  PROVE  LocalOk'
<1>1. proc' = [prog |-> prog, cfg |-> c, resume |-> resume, todo |-> windows,
               stage |-> "window", held |-> None, all |-> {}, left |-> {}]
  BY DEF Local
<1>2. Trained[c] \subseteq Plan[c]
  BY TrainedIs
<1>3. proc'.prog # "train" => Trained[c] \ windows = {}
  BY <1>1, <1>2
<1> QED
  BY <1>1, <1>3 DEF LocalOk, Output

LEMMA StartKeeps ==
  ASSUME ArtifactsOk, ColumnsOk, NEW c \in DOMAIN Configs, Uses(c), UNCHANGED <<model, manifest, column>>
  PROVE  ArtifactsOk' /\ ColumnsOk' /\ latest'[Configs[c].out] = Configs[c].version
<1>1. Configs[c].version \in Nat /\ Configs[c].out \in Outputs
  BY ConfigAssumption DEF Outputs
<1>2. /\ latest' = [latest EXCEPT ![Configs[c].out] = Configs[c].version]
      /\ Configs[c].version >= latest[Configs[c].out] /\ latest \in [Outputs -> Nat]
  BY DEF Uses, ArtifactsOk
<1>3. latest' \in [Outputs -> Nat] /\ \A o \in Outputs : latest[o] <= latest'[o]
  BY <1>1, <1>2
<1>4. ColumnsOk'
  BY DEF ColumnsOk
<1> QED
  BY <1>1, <1>2, <1>3, <1>4, LatestGrows

\* The window that is done.
LEMMA NextWindowOk ==
  ASSUME LocalOk, proc.todo # {}, NextWindow, UNCHANGED <<latest, column>>,
         proc.prog # "train" /\ Current \in Trained[proc.cfg] => \A d \in Current.predict : Covered(d)
  PROVE  LocalOk'
<1>1. proc' = [prog |-> proc.prog, cfg |-> proc.cfg, resume |-> proc.resume, todo |-> proc.todo \ {Current},
               stage |-> "window", held |-> None, all |-> {}, left |-> {}]
  BY DEF NextWindow, LocalOk
<1>2. Current \in proc.todo
  BY CurrentIs
<1>3. \A d : Covered(d)' <=> Covered(d)
  BY <1>1 DEF Covered, Output
<1>4. ASSUME proc.prog # "train", NEW w \in Trained[proc.cfg] \ (proc.todo \ {Current}), NEW d \in w.predict
      PROVE  Covered(d)
  <2>1. w = Current \/ w \in Trained[proc.cfg] \ proc.todo
    OBVIOUS
  <2> QED
    BY <1>4, <2>1 DEF LocalOk
<1>5. /\ proc'.prog = proc.prog /\ proc'.cfg = proc.cfg /\ proc'.resume = proc.resume
      /\ proc'.todo = proc.todo \ {Current} /\ proc'.stage = "window"
  BY <1>1
<1>6. proc' = [prog |-> proc'.prog, cfg |-> proc'.cfg, resume |-> proc'.resume, todo |-> proc'.todo,
               stage |-> proc'.stage, held |-> proc'.held, all |-> proc'.all, left |-> proc'.left]
  BY <1>1
<1>7. proc'.prog # "train" => \A w \in Trained[proc'.cfg] \ proc'.todo : \A d \in w.predict : Covered(d)'
  BY <1>3, <1>4, <1>5
<1> QED
  BY <1>5, <1>6, <1>7 DEF LocalOk, Output

\* The window at hand is one of the plan, with a path of its own.
LEMMA AtHand ==
  ASSUME LocalOk, proc.todo # {}
  PROVE  /\ Current \in Plan[proc.cfg] /\ Path(proc.cfg, Current) \in Paths
         /\ Identity(proc.cfg, Current) \in Identities /\ Current.predict \subseteq OutputDates
         /\ Output \in Outputs
<1>1. Current \in Plan[proc.cfg] /\ proc.cfg \in DOMAIN Configs
  BY CurrentIs DEF LocalOk
<1> QED
  BY <1>1, PlanFacts DEF Output

LEMMA SkipWindowOk ==
  ASSUME ArtifactsOk, ColumnsOk, LocalOk, SkipWindow
  PROVE  ArtifactsOk' /\ ColumnsOk' /\ LocalOk'
<1>1. proc.todo # {} /\ NextWindow /\ UNCHANGED <<latest, model, manifest, column>>
  BY DEF SkipWindow, AtWindow, OnlyProc
<1>2. ASSUME proc.prog # "train", Current \in Trained[proc.cfg], NEW d \in Current.predict PROVE Covered(d)
  <2>1. HasRows(Current.train)
    BY <1>2, TrainedIs DEF LocalOk
  <2>2. proc.resume /\ Wanted = {}
    BY <1>2, <2>1 DEF SkipWindow
  <2> QED
    BY <1>2, <2>2 DEF Wanted, Lacking, Covered
<1>3. LocalOk'
  BY <1>1, <1>2, NextWindowOk
<1>4. ArtifactsOk' /\ ColumnsOk'
  BY <1>1 DEF ArtifactsOk, ColumnsOk, Made, Manifested
<1> QED
  BY <1>3, <1>4

LEMMA LoadModelOk ==
  ASSUME ArtifactsOk, ColumnsOk, LocalOk, LoadModel
  PROVE  ArtifactsOk' /\ ColumnsOk' /\ LocalOk'
<1>1. /\ proc.todo # {} /\ proc.prog # "train" /\ Valid(proc.cfg, Current)
      /\ model[Path(proc.cfg, Current)] # Torn /\ UNCHANGED <<latest, model, manifest, column>>
  BY DEF LoadModel, AtWindow, OnlyProc
<1>2. proc' = [prog |-> proc.prog, cfg |-> proc.cfg, resume |-> proc.resume, todo |-> proc.todo, stage |-> "write",
               held |-> model[Path(proc.cfg, Current)], all |-> Wanted, left |-> Wanted]
  BY DEF LoadModel, LocalOk
<1>3. proc.cfg \in DOMAIN Configs /\ Current \in Plan[proc.cfg] /\ Configs[proc.cfg].version = latest[Configs[proc.cfg].out]
  BY <1>1, CurrentIs DEF LocalOk, Output
<1>4. model[Path(proc.cfg, Current)] = Identity(proc.cfg, Current) /\ Current \in Trained[proc.cfg]
  BY <1>1, <1>3, ValidModel
<1>5. HasRows(Current.train)
  BY <1>3, <1>4, TrainedIs
<1>6. Wanted \subseteq Current.predict
  BY DEF Wanted, Lacking
<1>7. ASSUME NEW d \in Current.predict \ Wanted PROVE Covered(d)
  BY <1>7 DEF Wanted, Lacking, Covered
<1>8. /\ proc'.prog = proc.prog /\ proc'.cfg = proc.cfg /\ proc'.resume = proc.resume /\ proc'.todo = proc.todo
      /\ proc'.stage = "write" /\ proc'.held = Identity(proc.cfg, Current) /\ proc'.left = Wanted
  BY <1>2, <1>4
<1>9. /\ Current' = Current
      /\ proc' = [prog |-> proc'.prog, cfg |-> proc'.cfg, resume |-> proc'.resume, todo |-> proc'.todo,
                  stage |-> proc'.stage, held |-> proc'.held, all |-> proc'.all, left |-> proc'.left]
  BY <1>2, <1>8, CurrentStays
<1>10. \A d : Covered(d)' <=> Covered(d)
  BY <1>1, <1>8 DEF Covered, Output
<1>11. \A d \in Current'.predict \ proc'.left : Covered(d)'
  BY <1>7, <1>8, <1>9, <1>10
<1>12. \A w \in Trained[proc'.cfg] \ proc'.todo : \A d \in w.predict : Covered(d)'
  BY <1>1, <1>8, <1>10 DEF LocalOk
<1>13. LocalOk'
  BY <1>1, <1>5, <1>6, <1>8, <1>9, <1>11, <1>12 DEF LocalOk, Output
<1>14. ArtifactsOk' /\ ColumnsOk'
  BY <1>1 DEF ArtifactsOk, ColumnsOk, Made, Manifested
<1> QED
  BY <1>13, <1>14

\* A stage of training: what comes before the predictions.
LEMMA StageOk ==
  ASSUME LocalOk, proc.todo # {}, HasRows(Current.train), UNCHANGED <<latest, column>>,
         NEW stage \in {"open", "save", "manifest"},
         proc' = [proc EXCEPT !.stage = stage, !.held = Identity(proc.cfg, Current)],
         stage = "manifest" => model'[Path(proc.cfg, Current)] = Identity(proc.cfg, Current)
  PROVE  LocalOk'
<1>1. proc' = [prog |-> proc.prog, cfg |-> proc.cfg, resume |-> proc.resume, todo |-> proc.todo, stage |-> stage,
               held |-> Identity(proc.cfg, Current), all |-> proc.all, left |-> proc.left]
  BY DEF LocalOk
<1>2. /\ proc'.prog = proc.prog /\ proc'.cfg = proc.cfg /\ proc'.resume = proc.resume /\ proc'.todo = proc.todo
      /\ proc'.stage = stage /\ proc'.held = Identity(proc.cfg, Current)
  BY <1>1
<1>3. /\ Current' = Current
      /\ proc' = [prog |-> proc'.prog, cfg |-> proc'.cfg, resume |-> proc'.resume, todo |-> proc'.todo,
                  stage |-> proc'.stage, held |-> proc'.held, all |-> proc'.all, left |-> proc'.left]
  BY <1>1, <1>2, CurrentStays
<1>4. \A d : Covered(d)' <=> Covered(d)
  BY <1>2 DEF Covered, Output
<1>5. proc.prog # "train" => \A w \in Trained[proc'.cfg] \ proc'.todo : \A d \in w.predict : Covered(d)'
  BY <1>2, <1>4 DEF LocalOk
<1> QED
  BY <1>2, <1>3, <1>5 DEF LocalOk, Output

LEMMA FitOk ==
  ASSUME ArtifactsOk, ColumnsOk, LocalOk, Fit
  PROVE  ArtifactsOk' /\ ColumnsOk' /\ LocalOk'
<1>1. proc.todo # {} /\ HasRows(Current.train) /\ UNCHANGED <<latest, model, manifest, column>>
  BY DEF Fit, AtWindow, OnlyProc
<1>2. proc' = [proc EXCEPT !.stage = "open", !.held = Identity(proc.cfg, Current)]
  BY DEF Fit
<1>3. LocalOk'
  BY <1>1, <1>2, StageOk
<1>4. ArtifactsOk' /\ ColumnsOk'
  BY <1>1 DEF ArtifactsOk, ColumnsOk, Made, Manifested
<1> QED
  BY <1>3, <1>4

LEMMA OpenModelOk ==
  ASSUME ArtifactsOk, ColumnsOk, LocalOk, OpenModel
  PROVE  ArtifactsOk' /\ ColumnsOk' /\ LocalOk'
<1> DEFINE p == Path(proc.cfg, Current)
<1>1. /\ proc.todo # {} /\ HasRows(Current.train) /\ proc.held = Identity(proc.cfg, Current)
      /\ UNCHANGED <<latest, manifest, column>> /\ model' = [model EXCEPT ![p] = Torn]
  BY DEF OpenModel, At, LocalOk, SetFile
<1>2. proc' = [proc EXCEPT !.stage = "save", !.held = Identity(proc.cfg, Current)]
  BY <1>1 DEF OpenModel, LocalOk
<1>3. LocalOk'
  BY <1>1, <1>2, StageOk
<1>4. p \in Paths /\ model \in [Paths -> Identities \union {None, Torn}]
  BY <1>1, AtHand DEF ArtifactsOk
<1> HIDE DEF p
<1>5. \A q \in Paths : model'[q] = IF q = p THEN Torn ELSE model[q]
  BY <1>1, <1>4
<1>6. model' \in [Paths -> Identities \union {None, Torn}]
  BY <1>1, <1>4
<1>7. \A q \in Paths : /\ model'[q] \notin {None, Torn} => Made(q, model[q])'
                       /\ manifest'[q] # None => Made(q, manifest[q])'
  BY <1>1, <1>5, MadeStays DEF ArtifactsOk
<1>8. ASSUME NEW c \in DOMAIN Configs, NEW w \in Plan[c] PROVE Manifested(c, w)'
  <2>1. Path(c, w) \in Paths
    BY PlanFacts
  <2> QED
    BY <1>1, <1>5, <2>1 DEF Manifested, ArtifactsOk
<1>9. ArtifactsOk'
  BY <1>1, <1>6, <1>7, <1>8 DEF ArtifactsOk
<1>10. ColumnsOk'
  BY <1>1 DEF ColumnsOk
<1> QED
  BY <1>3, <1>9, <1>10

\* The model is there: any manifest beside it that a configuration may still pass names this
\* model, for otherwise that configuration would go back to what was before this one.
LEMMA SaveModelOk ==
  ASSUME NeverBack, ArtifactsOk, ColumnsOk, LocalOk, SaveModel
  PROVE  ArtifactsOk' /\ ColumnsOk' /\ LocalOk'
<1> DEFINE p == Path(proc.cfg, Current)
           m == Identity(proc.cfg, Current)
<1>1. /\ proc.todo # {} /\ HasRows(Current.train) /\ proc.held = m
      /\ UNCHANGED <<latest, manifest, column>> /\ model' = [model EXCEPT ![p] = m]
  BY DEF SaveModel, At, LocalOk, SetFile
<1>2. proc' = [proc EXCEPT !.stage = "manifest", !.held = Identity(proc.cfg, Current)]
  BY <1>1 DEF SaveModel, LocalOk
<1>3. p \in Paths /\ m \in Identities /\ model \in [Paths -> Identities \union {None, Torn}]
  BY <1>1, AtHand DEF ArtifactsOk
<1>4. model'[p] = m
  BY <1>1, <1>3
<1>5. LocalOk'
  BY <1>1, <1>2, <1>4, StageOk
<1>6. /\ proc.cfg \in DOMAIN Configs /\ Current \in Plan[proc.cfg]
      /\ Current \in Trained[proc.cfg] /\ Configs[proc.cfg].version = latest[Configs[proc.cfg].out]
  BY <1>1, CurrentIs, TrainedIs DEF LocalOk, Output
<1>7. Made(p, m)
  <2>1. Configs[proc.cfg].version <= latest[Configs[proc.cfg].out]
    BY <1>6, ConfigAssumption
  <2> QED
    BY <1>6, <2>1 DEF Made
<1>8. ASSUME NEW c \in DOMAIN Configs, NEW w \in Plan[c], Path(c, w) = p,
             Configs[c].version >= latest[Configs[c].out], manifest[p] = Identity(c, w)
      PROVE  Identity(c, w) = m
  <2>1. Identity(c, w) # None
    BY PlanFacts, ValueAssumption
  <2>2. Made(p, manifest[p])
    BY <1>3, <1>8, <2>1 DEF ArtifactsOk
  <2>3. PICK b \in DOMAIN Configs : \E v \in Trained[b] :
          Path(b, v) = p /\ Identity(b, v) = manifest[p] /\ Configs[b].version <= latest[Configs[b].out]
    BY <2>2 DEF Made
  <2>4. PICK v \in Trained[b] :
          Path(b, v) = p /\ Identity(b, v) = manifest[p] /\ Configs[b].version <= latest[Configs[b].out]
    BY <2>3
  <2>5. v \in Plan[b]
    BY <2>4, TrainedIs
  <2>6. /\ Configs[b].out = Configs[proc.cfg].out /\ v.id = Current.id
        /\ Configs[proc.cfg].out = Configs[c].out /\ Current.id = w.id
    BY <1>8, <2>4 DEF Path
  <2>7. Configs[b].version <= Configs[proc.cfg].version /\ Configs[proc.cfg].version <= Configs[c].version
    BY <1>6, <1>8, <2>4, <2>6, ConfigAssumption
  <2>8. Identity(b, v) = Identity(c, w)
    BY <1>8, <2>4
  <2> QED
    BY <1>6, <2>5, <2>6, <2>7, <2>8 DEF NeverBack
<1> HIDE DEF p, m
<1>9. \A q \in Paths : model'[q] = IF q = p THEN m ELSE model[q]
  BY <1>1, <1>3
<1>10. model' \in [Paths -> Identities \union {None, Torn}]
  BY <1>1, <1>3
<1>11. \A q \in Paths : /\ model'[q] \notin {None, Torn} => Made(q, model[q])'
                        /\ manifest'[q] # None => Made(q, manifest[q])'
  BY <1>1, <1>7, <1>9, MadeStays DEF ArtifactsOk
<1>12. ASSUME NEW c \in DOMAIN Configs, NEW w \in Plan[c] PROVE Manifested(c, w)'
  <2>1. Path(c, w) \in Paths
    BY PlanFacts
  <2> QED
    BY <1>1, <1>8, <1>9, <2>1 DEF Manifested, ArtifactsOk
<1>13. ArtifactsOk'
  BY <1>1, <1>10, <1>11, <1>12 DEF ArtifactsOk
<1>14. ColumnsOk'
  BY <1>1 DEF ColumnsOk
<1> QED
  BY <1>5, <1>13, <1>14

\* The manifest names the model beside it, and the window is trained.
LEMMA SaveManifestOk ==
  ASSUME ArtifactsOk, ColumnsOk, LocalOk, SaveManifest
  PROVE  ArtifactsOk' /\ ColumnsOk' /\ LocalOk'
<1> DEFINE p == Path(proc.cfg, Current)
           m == Identity(proc.cfg, Current)
<1>1. /\ proc.todo # {} /\ HasRows(Current.train) /\ proc.held = m /\ model[p] = m
      /\ UNCHANGED <<latest, model, column>> /\ manifest' = [manifest EXCEPT ![p] = m]
  BY DEF SaveManifest, At, LocalOk, SetFile
<1>2. p \in Paths /\ m \in Identities /\ manifest \in [Paths -> Held]
  BY <1>1, AtHand DEF ArtifactsOk
<1>3. /\ proc.cfg \in DOMAIN Configs /\ Current \in Trained[proc.cfg]
      /\ Configs[proc.cfg].version = latest[Configs[proc.cfg].out]
  BY <1>1, CurrentIs, TrainedIs DEF LocalOk, Output
<1>4. Made(p, m)
  <2>1. Configs[proc.cfg].version <= latest[Configs[proc.cfg].out]
    BY <1>3, ConfigAssumption
  <2> QED
    BY <1>3, <2>1 DEF Made
<1>5. LocalOk'
  <2>1. CASE proc.prog = "train"
    <3>1. NextWindow
      BY <2>1 DEF SaveManifest
    <3> QED
      BY <1>1, <2>1, <3>1, NextWindowOk
  <2>2. CASE proc.prog # "train"
    <3>1. proc' = [prog |-> proc.prog, cfg |-> proc.cfg, resume |-> proc.resume, todo |-> proc.todo,
                   stage |-> "write", held |-> proc.held, all |-> Current.predict, left |-> Current.predict]
      BY <2>2 DEF SaveManifest, LocalOk
    <3>2. /\ proc'.prog = proc.prog /\ proc'.cfg = proc.cfg /\ proc'.resume = proc.resume /\ proc'.todo = proc.todo
          /\ proc'.stage = "write" /\ proc'.held = m /\ proc'.left = Current.predict
      BY <1>1, <3>1
    <3>3. /\ Current' = Current
          /\ proc' = [prog |-> proc'.prog, cfg |-> proc'.cfg, resume |-> proc'.resume, todo |-> proc'.todo,
                      stage |-> proc'.stage, held |-> proc'.held, all |-> proc'.all, left |-> proc'.left]
      BY <3>1, <3>2, CurrentStays
    <3>4. \A d : Covered(d)' <=> Covered(d)
      BY <1>1, <3>2 DEF Covered, Output
    <3>5. \A w \in Trained[proc'.cfg] \ proc'.todo : \A d \in w.predict : Covered(d)'
      BY <2>2, <3>2, <3>4 DEF LocalOk
    <3> QED
      BY <1>1, <2>2, <3>2, <3>3, <3>5 DEF LocalOk, Output
  <2> QED
    BY <2>1, <2>2
<1> HIDE DEF p, m
<1>6. \A q \in Paths : manifest'[q] = IF q = p THEN m ELSE manifest[q]
  BY <1>1, <1>2
<1>7. manifest' \in [Paths -> Held]
  BY <1>1, <1>2 DEF Held
<1>8. \A q \in Paths : /\ model'[q] \notin {None, Torn} => Made(q, model[q])'
                       /\ manifest'[q] # None => Made(q, manifest'[q])
  BY <1>1, <1>4, <1>6 DEF ArtifactsOk, Made
<1>9. \A q \in Paths : /\ (model[q] \notin {None, Torn} => Made(q, model[q]))'
                       /\ (manifest[q] # None => Made(q, manifest[q]))'
  BY <1>1, <1>8 DEF Made
<1>10. ASSUME NEW c \in DOMAIN Configs, NEW w \in Plan[c] PROVE Manifested(c, w)'
  <2>1. Path(c, w) \in Paths
    BY PlanFacts
  <2> QED
    BY <1>1, <1>6, <2>1 DEF Manifested, ArtifactsOk
<1>11. ArtifactsOk'
  BY <1>1, <1>7, <1>9, <1>10 DEF ArtifactsOk
<1>12. ColumnsOk'
  BY <1>1 DEF ColumnsOk
<1> QED
  BY <1>5, <1>11, <1>12

\* A date's column is replaced by a right one.
LEMMA ColumnSet ==
  ASSUME ColumnsOk, column' \in [Outputs -> [OutputDates -> ColumnValues \union {None}]],
         \A q \in Outputs, e \in OutputDates :
           column'[q][e] = column[q][e] \/ \E c \in DOMAIN Configs : Right(c, e, column'[q][e])
  PROVE  ColumnsOk'
BY DEF ColumnsOk

LEMMA PredictWriteOk ==
  ASSUME ArtifactsOk, ColumnsOk, LocalOk, NEW d \in OutputDates, PredictWrite(d)
  PROVE  ArtifactsOk' /\ ColumnsOk' /\ LocalOk'
<1> DEFINE x == Value(proc.cfg, d, proc.held)
<1>1. /\ proc.stage = "write" /\ proc.todo # {} /\ HasRows(Current.train) /\ d \in Current.predict
      /\ proc.held = Identity(proc.cfg, Current) /\ proc.prog # "train"
      /\ UNCHANGED <<latest, model, manifest>> /\ column' = [column EXCEPT ![Output][d] = x]
  BY DEF PredictWrite, At, Batch, LocalOk
<1>2. proc' = [prog |-> proc.prog, cfg |-> proc.cfg, resume |-> proc.resume, todo |-> proc.todo,
               stage |-> proc.stage, held |-> proc.held, all |-> proc.all, left |-> proc.left \ {d}]
  BY DEF PredictWrite, LocalOk
<1>3. proc.cfg \in DOMAIN Configs /\ Current \in Trained[proc.cfg] /\ Output \in Outputs /\ proc.held \in Held
  BY <1>1, AtHand, TrainedIs DEF LocalOk, Held
<1>4. Right(proc.cfg, d, x)
  BY <1>1, <1>3, ScoreIs
<1>5. x # None /\ x.by = proc.cfg
  BY <1>4 DEF Right
<1> HIDE DEF x
<1>6. /\ ColumnsOk'
      /\ \A q \in Outputs, e \in OutputDates : column'[q][e] = IF q = Output /\ e = d THEN x ELSE column[q][e]
  <2>1. \A q \in Outputs, e \in OutputDates : column'[q][e] = IF q = Output /\ e = d THEN x ELSE column[q][e]
    BY <1>1, <1>3 DEF ColumnsOk
  <2>2. x \in ColumnValues
    BY <1>4 DEF Right
  <2>3. column' \in [Outputs -> [OutputDates -> ColumnValues \union {None}]]
    BY <1>1, <1>3, <2>2 DEF ColumnsOk
  <2> QED
    BY <1>3, <1>4, <2>1, <2>3, ColumnSet
<1>7. /\ proc'.prog = proc.prog /\ proc'.cfg = proc.cfg /\ proc'.resume = proc.resume /\ proc'.todo = proc.todo
      /\ proc'.stage = "write" /\ proc'.held = proc.held /\ proc'.left = proc.left \ {d}
  BY <1>1, <1>2
<1>8. /\ Current' = Current
      /\ proc' = [prog |-> proc'.prog, cfg |-> proc'.cfg, resume |-> proc'.resume, todo |-> proc'.todo,
                  stage |-> proc'.stage, held |-> proc'.held, all |-> proc'.all, left |-> proc'.left]
  BY <1>2, <1>7, CurrentStays
<1>9. \A e \in OutputDates : (Covered(e) => Covered(e)') /\ (e = d => Covered(e)')
  BY <1>3, <1>5, <1>6, <1>7 DEF Covered, Output
<1>10. \A w \in Trained[proc.cfg] : w.predict \subseteq OutputDates
  BY <1>3, TrainedIs, PlanFacts
<1>11. \A w \in Trained[proc'.cfg] \ proc'.todo : \A e \in w.predict : Covered(e)'
  BY <1>1, <1>7, <1>9, <1>10 DEF LocalOk
<1>12. \A e \in Current'.predict \ proc'.left : Covered(e)'
  <2>1. \A e \in Current.predict \ proc.left : Covered(e)
    BY <1>1 DEF LocalOk
  <2> QED
    BY <1>3, <1>7, <1>8, <1>9, <1>10, <2>1
<1>13. proc'.left \subseteq Current'.predict
  BY <1>1, <1>7, <1>8 DEF LocalOk
<1>14. LocalOk'
  BY <1>1, <1>7, <1>8, <1>11, <1>12, <1>13 DEF LocalOk, Output
<1>15. ArtifactsOk'
  BY <1>1, <1>2 DEF ArtifactsOk, Made, Manifested
<1> QED
  BY <1>6, <1>14, <1>15

LEMMA EndWindowOk ==
  ASSUME ArtifactsOk, ColumnsOk, LocalOk, EndWindow
  PROVE  ArtifactsOk' /\ ColumnsOk' /\ LocalOk'
<1>1. /\ proc.todo # {} /\ NextWindow /\ UNCHANGED <<latest, model, manifest, column>>
      /\ \A d \in Current.predict : Covered(d)
  BY DEF EndWindow, At, OnlyProc, LocalOk
<1>2. LocalOk'
  BY <1>1, NextWindowOk
<1>3. ArtifactsOk' /\ ColumnsOk'
  BY <1>1 DEF ArtifactsOk, ColumnsOk, Made, Manifested
<1> QED
  BY <1>2, <1>3

\* A date that still lacks the column is in no trained window.
LEMMA PadOk ==
  ASSUME ArtifactsOk, ColumnsOk, LocalOk, NEW d \in OutputDates, Pad(d)
  PROVE  ArtifactsOk' /\ ColumnsOk' /\ LocalOk'
<1> DEFINE x == Value(proc.cfg, d, None)
<1>1. /\ proc.stage = "window" /\ proc.todo = {} /\ proc.prog # "train" /\ column[Output][d] = None
      /\ UNCHANGED <<proc, latest, model, manifest>> /\ column' = [column EXCEPT ![Output][d] = x]
  BY DEF Pad, At, Lacking
<1>2. proc.cfg \in DOMAIN Configs /\ Output \in Outputs
  BY PlanFacts DEF LocalOk, Output
<1>3. \A w \in Trained[proc.cfg] : d \notin w.predict
  BY <1>1 DEF LocalOk, Covered
<1>4. Right(proc.cfg, d, x)
  BY <1>2, <1>3, NullIs
<1>5. x # None /\ x.by = proc.cfg
  BY <1>4 DEF Right
<1> HIDE DEF x
<1>6. /\ ColumnsOk'
      /\ \A q \in Outputs, e \in OutputDates : column'[q][e] = IF q = Output /\ e = d THEN x ELSE column[q][e]
  <2>1. \A q \in Outputs, e \in OutputDates : column'[q][e] = IF q = Output /\ e = d THEN x ELSE column[q][e]
    BY <1>1, <1>2 DEF ColumnsOk
  <2>2. x \in ColumnValues
    BY <1>4 DEF Right
  <2>3. column' \in [Outputs -> [OutputDates -> ColumnValues \union {None}]]
    BY <1>1, <1>2, <2>2 DEF ColumnsOk
  <2> QED
    BY <1>2, <1>4, <2>1, <2>3, ColumnSet
<1>7. \A e \in OutputDates : Covered(e) => Covered(e)'
  BY <1>1, <1>2, <1>5, <1>6 DEF Covered, Output
<1>8. \A w \in Trained[proc.cfg] : w.predict \subseteq OutputDates
  BY <1>2, TrainedIs, PlanFacts
<1>9. \A w \in Trained[proc.cfg] \ proc.todo : \A e \in w.predict : Covered(e)'
  BY <1>1, <1>7, <1>8 DEF LocalOk
<1>10. LocalOk'
  BY <1>1, <1>9 DEF LocalOk, Output
<1>11. ArtifactsOk'
  BY <1>1 DEF ArtifactsOk, Made, Manifested
<1> QED
  BY <1>6, <1>10, <1>11

LEMMA FinishOk ==
  ASSUME ArtifactsOk, ColumnsOk, LocalOk, Finish
  PROVE  ArtifactsOk' /\ ColumnsOk' /\ proc'.prog = "done" /\ "prog" \in DOMAIN proc' /\ RunCompletes'
<1>1. /\ proc.todo = {} /\ UNCHANGED <<latest, model, manifest, column>>
      /\ proc' = [prog |-> "done", cfgs |-> IF proc.prog = "train" THEN {} ELSE {proc.cfg},
                  dates |-> Predicts[proc.cfg], resume |-> proc.resume]
  BY DEF Finish, OnlyProc
<1>2. ASSUME NEW c \in proc'.cfgs, NEW d \in Predicts[c]
      PROVE  /\ column[Configs[c].out][d] # None
             /\ ~proc.resume /\ d \in Served[c] => column[Configs[c].out][d].by = c
  <2>1. c = proc.cfg /\ proc.prog # "train" /\ c \in DOMAIN Configs
    BY <1>1 DEF LocalOk
  <2>2. column[Configs[c].out][d] # None
    BY <2>1 DEF Finish, Lacking, Output
  <2>3. ASSUME d \in Served[c], ~proc.resume PROVE column[Configs[c].out][d].by = c
    <3>1. Served[c] = UNION {w.predict : w \in Trained[c]}
      BY <2>1, TableIs DEF Served
    <3>2. PICK w \in Trained[c] : d \in w.predict
      BY <2>3, <3>1
    <3>3. Covered(d)
      BY <1>1, <2>1, <3>2 DEF LocalOk
    <3> QED
      BY <2>1, <2>3, <3>3 DEF Covered, Output
  <2> QED
    BY <2>2, <2>3
<1>3. RunCompletes'
  BY <1>1, <1>2 DEF RunCompletes
<1>4. ArtifactsOk' /\ ColumnsOk'
  BY <1>1 DEF ArtifactsOk, ColumnsOk, Made, Manifested
<1> QED
  BY <1>1, <1>3, <1>4

-----------------------------------------------------------------------------
(* Predictions in groups.                                                   *)

OutOf(i) == Configs[proc.group[i]].out

\* The position's own column is on the date.
Written(i, d) == column[OutOf(i)][d] # None /\ column[OutOf(i)][d].by = proc.group[i]

\* The column is there, waits to be written, or is still to be computed.
Answered(i, d) ==
  \/ <<i, d>> \in DOMAIN proc.pending
  \/ Written(i, d)
  \/ \E u \in proc.units \union proc.wave : u.i = i /\ d \in u.dates

GroupOk ==
  /\ proc = [prog |-> "grouped", group |-> proc.group, dates |-> proc.dates, units |-> proc.units, wave |-> proc.wave,
             resident |-> proc.resident, flush |-> proc.flush, pending |-> proc.pending]
  /\ proc.group \in Groups
  /\ \A i \in DOMAIN proc.group : Configs[proc.group[i]].version = latest[OutOf(i)]
  /\ \A u \in proc.units \union proc.wave :
       u.i \in DOMAIN proc.group /\ u.w \in Plan[proc.group[u.i]] /\ u.dates \subseteq u.w.predict
  /\ \A p \in DOMAIN proc.pending :
       \E i \in DOMAIN proc.group : \E d \in Predicts[proc.group[i]] :
         p = <<i, d>> /\ Right(proc.group[i], d, proc.pending[p])
  /\ \A i \in DOMAIN proc.group : \A d \in Predicts[proc.group[i]] \intersect proc.dates : Answered(i, d)
  /\ proc.flush => proc.wave = {}

LEMMA GroupFacts ==
  ASSUME NEW group \in Groups, NEW i \in DOMAIN group
  PROVE  /\ group[i] \in DOMAIN Configs /\ Configs[group[i]].out \in Outputs /\ Configs[group[i]].version \in Nat
         /\ Predicts[group[i]] \subseteq OutputDates
         /\ \A j \in DOMAIN group : Configs[group[i]].out = Configs[group[j]].out => i = j
BY GroupAssumption, ConfigAssumption, PlanFacts

\* The configurations of a group are in use from then on.
LEMMA GroupUses ==
  ASSUME ArtifactsOk, NEW group \in Groups,
         \A c \in ToSet(group) : Configs[c].version >= latest[Configs[c].out],
         latest' = [o \in Outputs |->
           Max({latest[o]} \union {Configs[c].version : c \in {b \in ToSet(group) : Configs[b].out = o}})]
  PROVE  /\ latest' \in [Outputs -> Nat] /\ \A o \in Outputs : latest[o] <= latest'[o]
         /\ \A i \in DOMAIN group : Configs[group[i]].version = latest'[Configs[group[i]].out]
<1> DEFINE Used0(o) == {Configs[c].version : c \in {b \in ToSet(group) : Configs[b].out = o}}
<1>1. \A o \in Outputs : latest[o] \in Nat /\ latest'[o] = Max({latest[o]} \union Used0(o))
  BY DEF ArtifactsOk
<1>2. \A a \in Int : Max({a, a}) = a
  BY MaxPair
<1>3. ASSUME NEW o \in Outputs, \A i \in DOMAIN group : Configs[group[i]].out # o
      PROVE  latest'[o] = latest[o]
  <2>1. Used0(o) = {}
    BY <1>3 DEF ToSet
  <2>2. {latest[o]} \union Used0(o) = {latest[o], latest[o]}
    BY <2>1
  <2> QED
    BY <1>1, <1>2, <2>2
<1>4. ASSUME NEW i \in DOMAIN group
      PROVE  /\ latest'[Configs[group[i]].out] = Configs[group[i]].version
             /\ Configs[group[i]].version \in Nat /\ latest[Configs[group[i]].out] <= Configs[group[i]].version
  <2> DEFINE o == Configs[group[i]].out
             n == Configs[group[i]].version
  <2>1. o \in Outputs /\ n \in Nat /\ \A j \in DOMAIN group : Configs[group[j]].out = o => j = i
    BY GroupFacts
  <2>2. Used0(o) = {n}
    <3>1. {b \in ToSet(group) : Configs[b].out = o} = {group[i]}
      BY <2>1 DEF ToSet
    <3> QED
      BY <3>1
  <2>3. n >= latest[o]
    BY DEF ToSet
  <2> HIDE DEF o, n, Used0
  <2>4. latest'[o] = Max({latest[o], n}) /\ latest[o] \in Nat
    BY <1>1, <2>1, <2>2
  <2>5. Max({n, latest[o]}) = n
    BY <2>1, <2>3, <2>4, MaxPair
  <2>6. {latest[o], n} = {n, latest[o]}
    OBVIOUS
  <2>7. latest'[o] = n /\ n \in Nat /\ latest[o] <= n
    BY <2>1, <2>3, <2>4, <2>5, <2>6
  <2> QED
    BY <2>7 DEF o, n
<1>5. ASSUME NEW o \in Outputs PROVE latest'[o] \in Nat /\ latest[o] <= latest'[o]
  <2>1. CASE \A i \in DOMAIN group : Configs[group[i]].out # o
    <3>1. latest'[o] = latest[o] /\ latest[o] \in Nat
      BY <1>1, <1>3, <2>1
    <3> QED
      BY <3>1
  <2>2. CASE \E i \in DOMAIN group : Configs[group[i]].out = o
    BY <1>1, <1>4, <2>2
  <2> QED
    BY <2>1, <2>2
<1>6. latest' \in [Outputs -> Nat]
  BY <1>5
<1> QED
  BY <1>4, <1>5, <1>6

\* A date of a window is in one of its batches, and a date of the task then in one of its units.
LEMMA UnitsCover ==
  ASSUME NEW group \in Groups, NEW owned
  PROVE  /\ \A u \in Units(group, owned) :
              u.i \in DOMAIN group /\ u.w \in Plan[group[u.i]] /\ u.dates \subseteq u.w.predict
         /\ \A i \in DOMAIN group : \A w \in Plan[group[i]] : \A d \in w.predict \intersect owned :
              \E u \in Units(group, owned) : u.i = i /\ d \in u.dates
<1>1. ASSUME NEW u \in Units(group, owned)
      PROVE  u.i \in DOMAIN group /\ u.w \in Plan[group[u.i]] /\ u.dates \subseteq u.w.predict
  <2>1. PICK i \in DOMAIN group : \E w \in Plan[group[i]] : \E b \in Pieces(w.predict, Configs[group[i]].batch) :
          u = [i |-> i, w |-> w, dates |-> b]
    BY <1>1 DEF Units
  <2>2. PICK w \in Plan[group[i]] : \E b \in Pieces(w.predict, Configs[group[i]].batch) :
          u = [i |-> i, w |-> w, dates |-> b]
    BY <2>1
  <2>3. PICK b \in Pieces(w.predict, Configs[group[i]].batch) : u = [i |-> i, w |-> w, dates |-> b]
    BY <2>2
  <2>4. b \subseteq w.predict
    BY <2>3 DEF Pieces
  <2> QED
    BY <2>3, <2>4
<1>2. ASSUME NEW i \in DOMAIN group, NEW w \in Plan[group[i]], NEW d \in w.predict \intersect owned
      PROVE  \E u \in Units(group, owned) : u.i = i /\ d \in u.dates
  <2> DEFINE n == Configs[group[i]].batch
             b == {e \in w.predict : Rank(w.predict, e) \div n = Rank(w.predict, d) \div n}
             u == [i |-> i, w |-> w, dates |-> b]
  <2>1. b \in Pieces(w.predict, n) /\ d \in b
    BY DEF Pieces
  <2>2. b \intersect owned # {}
    BY <2>1
  <2>3. u \in Units(group, owned)
    <3> HIDE DEF b
    <3> QED
      BY <2>1, <2>2 DEF Units
  <2> QED
    BY <2>1, <2>3
<1> QED
  BY <1>1, <1>2

LEMMA StartGroupedOk ==
  ASSUME ArtifactsOk, ColumnsOk, NEW group \in Groups, StartGrouped(group)
  PROVE  ArtifactsOk' /\ ColumnsOk' /\ proc'.prog = "grouped" /\ "prog" \in DOMAIN proc' /\ GroupOk'
<1>1. PICK owned \in Shards(group) : proc' = GroupedTask(group, owned, Units(group, owned))
  BY DEF StartGrouped, Start
<1>2. UNCHANGED <<model, manifest, column>>
  BY DEF StartGrouped
<1> DEFINE units == Units(group, owned)
           computed(i) == UNION {u.dates : u \in {v \in units : v.i = i}}
           uncovered == UNION {{<<i, d>> : d \in (Predicts[group[i]] \intersect owned) \ computed(i)} : i \in DOMAIN group}
           pending == [p \in uncovered |-> Value(group[p[1]], p[2], None)]
<1>3. proc' = [prog |-> "grouped", group |-> group, dates |-> owned, units |-> units, wave |-> {},
               resident |-> <<>>, flush |-> units = {}, pending |-> pending]
  BY <1>1 DEF GroupedTask
<1>4. /\ latest' \in [Outputs -> Nat] /\ \A o \in Outputs : latest[o] <= latest'[o]
      /\ \A i \in DOMAIN group : Configs[group[i]].version = latest'[Configs[group[i]].out]
  BY GroupUses DEF StartGrouped
<1>5. ArtifactsOk' /\ ColumnsOk'
  BY <1>2, <1>4, LatestGrows DEF ColumnsOk
<1>6. \A u \in units : u.i \in DOMAIN group /\ u.w \in Plan[group[u.i]] /\ u.dates \subseteq u.w.predict
  BY UnitsCover
<1>7. ASSUME NEW p \in uncovered
      PROVE  \E i \in DOMAIN group : \E d \in Predicts[group[i]] : p = <<i, d>> /\ Right(group[i], d, pending[p])
  <2>1. PICK i \in DOMAIN group : \E d \in (Predicts[group[i]] \intersect owned) \ computed(i) : p = <<i, d>>
    OBVIOUS
  <2>2. PICK d \in (Predicts[group[i]] \intersect owned) \ computed(i) : p = <<i, d>>
    BY <2>1
  <2>3. group[i] \in DOMAIN Configs /\ d \in OutputDates
    BY GroupFacts
  <2>4. ASSUME NEW w \in Trained[group[i]], d \in w.predict PROVE FALSE
    <3>1. w \in Plan[group[i]]
      BY <2>3, TrainedIs
    <3>2. \E u \in units : u.i = i /\ d \in u.dates
      BY <2>4, <3>1, UnitsCover
    <3> HIDE DEF units
    <3> QED
      BY <3>2
  <2>5. Right(group[i], d, Value(group[i], d, None))
    BY <2>3, <2>4, NullIs
  <2>6. pending[p] = Value(group[i], d, None)
    BY <2>2
  <2> QED
    BY <2>2, <2>5, <2>6
<1>8. ASSUME NEW i \in DOMAIN group, NEW d \in Predicts[group[i]] \intersect owned
      PROVE  <<i, d>> \in uncovered \/ \E u \in units : u.i = i /\ d \in u.dates
  <2> HIDE DEF units
  <2> QED
    OBVIOUS
<1>9. DOMAIN pending = uncovered
  OBVIOUS
<1> HIDE DEF units, uncovered, pending
<1>10. /\ proc'.prog = "grouped" /\ "prog" \in DOMAIN proc' /\ proc'.group = group /\ proc'.dates = owned
       /\ proc'.units = units /\ proc'.wave = {} /\ proc'.pending = pending
  BY <1>3
<1>11. proc' = [prog |-> "grouped", group |-> proc'.group, dates |-> proc'.dates, units |-> proc'.units, wave |-> proc'.wave,
                resident |-> proc'.resident, flush |-> proc'.flush, pending |-> proc'.pending]
  BY <1>3
<1>12. \A i \in DOMAIN proc'.group : \A d \in Predicts[proc'.group[i]] \intersect proc'.dates : Answered(i, d)'
  <2>1. ASSUME NEW i \in DOMAIN group, NEW d \in Predicts[group[i]] \intersect owned PROVE Answered(i, d)'
    <3>1. CASE <<i, d>> \in uncovered
      BY <1>9, <1>10, <3>1 DEF Answered
    <3>2. CASE \E u \in units : u.i = i /\ d \in u.dates
      BY <1>10, <3>2 DEF Answered
    <3> QED
      BY <1>8, <2>1, <3>1, <3>2
  <2> QED
    BY <1>10, <2>1
<1>13. \A p \in DOMAIN proc'.pending :
         \E i \in DOMAIN proc'.group : \E d \in Predicts[proc'.group[i]] :
           p = <<i, d>> /\ Right(proc'.group[i], d, proc'.pending[p])
  BY <1>7, <1>9, <1>10
<1>14. GroupOk'
  BY <1>4, <1>6, <1>10, <1>11, <1>12, <1>13 DEF GroupOk, OutOf
<1> QED
  BY <1>5, <1>10, <1>14

LEMMA BeginWaveOk ==
  ASSUME ArtifactsOk, ColumnsOk, GroupOk, BeginWave
  PROVE  ArtifactsOk' /\ ColumnsOk' /\ proc'.prog = "grouped" /\ "prog" \in DOMAIN proc' /\ GroupOk'
<1>1. PICK u \in proc.units :
        proc' = [proc EXCEPT !.wave = {v \in proc.units : v.dates = u.dates},
                             !.units = @ \ {v \in proc.units : v.dates = u.dates}, !.flush = FALSE]
  BY DEF BeginWave
<1> DEFINE wave == {v \in proc.units : v.dates = u.dates}
<1>2. UNCHANGED <<latest, model, manifest, column>>
  BY DEF BeginWave, OnlyProc
<1> DEFINE units == proc.units \ wave
           ready == FALSE
<1>3. proc' = [proc EXCEPT !.wave = wave, !.units = units, !.flush = ready]
  BY <1>1
<1>4. proc.wave = {} /\ proc.units = units \union wave
  BY DEF BeginWave
<1> HIDE DEF wave, units, ready
<1>5. proc' = [prog |-> "grouped", group |-> proc.group, dates |-> proc.dates, units |-> units, wave |-> wave,
               resident |-> proc.resident, flush |-> ready, pending |-> proc.pending]
  <2>1. proc = [prog |-> "grouped", group |-> proc.group, dates |-> proc.dates, units |-> proc.units, wave |-> proc.wave,
                resident |-> proc.resident, flush |-> proc.flush, pending |-> proc.pending]
    BY DEF GroupOk
  <2>2. proc.prog = "grouped"
    BY DEF BeginWave, Running
  <2> QED
    BY <1>3, <2>1, <2>2
<1>6. /\ proc'.prog = "grouped" /\ "prog" \in DOMAIN proc' /\ proc'.group = proc.group /\ proc'.dates = proc.dates
      /\ proc'.units \union proc'.wave = proc.units \union proc.wave /\ proc'.pending = proc.pending /\ ~proc'.flush
  BY <1>4, <1>5 DEF ready
<1>7. proc' = [prog |-> "grouped", group |-> proc'.group, dates |-> proc'.dates, units |-> proc'.units, wave |-> proc'.wave,
               resident |-> proc'.resident, flush |-> proc'.flush, pending |-> proc'.pending]
  BY <1>5
<1>8. \A i, d : Answered(i, d) => Answered(i, d)'
  BY <1>2, <1>6 DEF Answered, Written, OutOf
<1>9. GroupOk'
  BY <1>2, <1>6, <1>7, <1>8 DEF GroupOk, OutOf
<1>10. ArtifactsOk' /\ ColumnsOk'
  BY <1>2 DEF ArtifactsOk, ColumnsOk, Made, Manifested
<1> QED
  BY <1>6, <1>9, <1>10

\* A model that has rows to predict is the window's own; without rows its scores are nulls.
LEMMA InferOk ==
  ASSUME ArtifactsOk, ColumnsOk, GroupOk, Running("grouped"), NEW u \in proc.wave, Infer(u)
  PROVE  ArtifactsOk' /\ ColumnsOk' /\ proc'.prog = "grouped" /\ "prog" \in DOMAIN proc' /\ GroupOk'
<1> DEFINE c == proc.group[u.i]
           held == model[Path(c, u.w)]
           resident == IF HasRows(u.dates) THEN Used(proc.resident, u.i, u.w, u.dates) ELSE proc.resident
           new == {u.i} \X (u.dates \intersect proc.dates)
           scores == [p \in new |-> Value(c, p[2], held)]
           pending == [p \in DOMAIN proc.pending \union new |-> IF p \in new THEN scores[p] ELSE proc.pending[p]]
<1>1. /\ Valid(c, u.w) /\ (HasRows(u.dates) => held # Torn) /\ UNCHANGED <<latest, model, manifest, column>>
      /\ u \in proc.wave
  BY DEF Infer, OnlyProc
<1>2. proc' = [prog |-> "grouped", group |-> proc.group, dates |-> proc.dates, units |-> proc.units,
               wave |-> proc.wave \ {u}, resident |-> resident, flush |-> (proc.wave = {u}), pending |-> pending]
  <2>1. proc' = [proc EXCEPT !.wave = @ \ {u}, !.flush = (proc.wave = {u}), !.resident = resident,
                             !.pending = [p \in DOMAIN @ \union DOMAIN scores |->
                                            IF p \in DOMAIN scores THEN scores[p] ELSE @[p]]]
    BY DEF Infer
  <2>2. DOMAIN scores = new
    OBVIOUS
  <2> HIDE DEF new, scores, resident
  <2>3. proc.prog = "grouped"
    BY DEF Running
  <2>4. proc' = [prog |-> "grouped", group |-> proc.group, dates |-> proc.dates, units |-> proc.units,
                 wave |-> proc.wave \ {u}, resident |-> resident, flush |-> (proc.wave = {u}),
                 pending |-> [p \in DOMAIN proc.pending \union DOMAIN scores |->
                                IF p \in DOMAIN scores THEN scores[p] ELSE proc.pending[p]]]
    BY <2>1, <2>3 DEF GroupOk
  <2> QED
    BY <2>2, <2>4
<1>3. /\ u.i \in DOMAIN proc.group /\ u.w \in Plan[c] /\ u.dates \subseteq u.w.predict /\ proc.group \in Groups
      /\ Configs[c].version = latest[Configs[c].out]
  BY <1>1 DEF GroupOk, OutOf
<1>4. c \in DOMAIN Configs /\ Predicts[c] \subseteq OutputDates /\ u.w.predict \subseteq Predicts[c]
  BY <1>3, GroupFacts, PlanFacts
<1>5. held \in Held \union {Torn}
  <2>1. Path(c, u.w) \in Paths
    BY <1>3, <1>4, PlanFacts
  <2> QED
    BY <2>1 DEF ArtifactsOk, Held
<1>6. ASSUME NEW d \in u.dates PROVE Right(c, d, Value(c, d, held))
  <2>1. d \in OutputDates /\ d \in u.w.predict
    BY <1>3, <1>4
  <2>2. CASE d \in DataDates
    <3>1. held # Torn
      BY <1>1, <2>2 DEF HasRows
    <3>2. held = Identity(c, u.w) /\ u.w \in Trained[c]
      BY <1>1, <1>3, <1>4, <3>1, ValidModel
    <3> HIDE DEF c, held
    <3> QED
      BY <1>4, <1>5, <2>1, <3>2, ScoreIs
  <2>3. CASE d \notin DataDates
    <3>1. Undisturbed[<<c, d>>] = None
      BY <1>4, <2>1, <2>3, UndisturbedIs
    <3> HIDE DEF c, held
    <3> QED
      BY <1>4, <1>5, <2>1, <2>3, <3>1, ValueIs
  <2> QED
    BY <2>2, <2>3
<1>7. ASSUME NEW p \in DOMAIN pending
      PROVE  \E i \in DOMAIN proc.group : \E d \in Predicts[proc.group[i]] :
               p = <<i, d>> /\ Right(proc.group[i], d, pending[p])
  <2>1. CASE p \in new
    <3>1. PICK d \in u.dates \intersect proc.dates : p = <<u.i, d>>
      BY <2>1
    <3>2. pending[p] = Value(c, d, held)
      BY <2>1, <3>1
    <3>3. d \in Predicts[c] /\ Right(c, d, pending[p])
      BY <1>3, <1>4, <1>6, <3>1, <3>2
    <3> HIDE DEF pending
    <3> QED
      BY <1>3, <3>1, <3>3
  <2>2. CASE p \notin new
    <3>1. p \in DOMAIN proc.pending /\ pending[p] = proc.pending[p]
      BY <2>2
    <3> HIDE DEF pending
    <3> QED
      BY <3>1 DEF GroupOk
  <2> QED
    BY <2>1, <2>2
<1>8. DOMAIN pending = DOMAIN proc.pending \union new
  OBVIOUS
<1>9. ASSUME NEW i \in DOMAIN proc.group, NEW d \in Predicts[proc.group[i]] \intersect proc.dates, Answered(i, d)
      PROVE  \/ <<i, d>> \in DOMAIN pending \/ Written(i, d)
             \/ \E v \in proc.units \union (proc.wave \ {u}) : v.i = i /\ d \in v.dates
  <2>1. CASE i = u.i /\ d \in u.dates
    <3>1. <<i, d>> \in new
      BY <2>1
    <3> HIDE DEF pending, new
    <3> QED
      BY <1>8, <3>1
  <2>2. CASE ~(i = u.i /\ d \in u.dates)
    <3> HIDE DEF pending, new
    <3> QED
      BY <1>8, <1>9, <2>2 DEF Answered
  <2> QED
    BY <2>1, <2>2
<1> HIDE DEF c, held, resident, new, scores, pending
<1>10. /\ proc'.prog = "grouped" /\ "prog" \in DOMAIN proc' /\ proc'.group = proc.group /\ proc'.dates = proc.dates
       /\ proc'.units = proc.units /\ proc'.wave = proc.wave \ {u} /\ proc'.pending = pending
       /\ proc'.flush = (proc.wave = {u})
  BY <1>2
<1>11. proc' = [prog |-> "grouped", group |-> proc'.group, dates |-> proc'.dates, units |-> proc'.units, wave |-> proc'.wave,
                resident |-> proc'.resident, flush |-> proc'.flush, pending |-> proc'.pending]
  BY <1>2
<1>12. ASSUME NEW i \in DOMAIN proc.group, NEW d \in Predicts[proc.group[i]] \intersect proc.dates
       PROVE  Answered(i, d)'
  <2>1. Answered(i, d)
    BY DEF GroupOk
  <2>2. Written(i, d)' <=> Written(i, d)
    BY <1>1, <1>10 DEF Written, OutOf
  <2> QED
    BY <1>9, <1>10, <2>1, <2>2 DEF Answered
<1>13. \A i \in DOMAIN proc'.group : \A d \in Predicts[proc'.group[i]] \intersect proc'.dates : Answered(i, d)'
  BY <1>10, <1>12
<1>14. \A p \in DOMAIN proc'.pending :
         \E i \in DOMAIN proc'.group : \E d \in Predicts[proc'.group[i]] :
           p = <<i, d>> /\ Right(proc'.group[i], d, proc'.pending[p])
  BY <1>7, <1>10
<1>15. /\ proc'.group \in Groups /\ (proc'.flush => proc'.wave = {})
       /\ \A i \in DOMAIN proc'.group : Configs[proc'.group[i]].version = latest'[OutOf(i)']
       /\ \A v \in proc'.units \union proc'.wave :
            v.i \in DOMAIN proc'.group /\ v.w \in Plan[proc'.group[v.i]] /\ v.dates \subseteq v.w.predict
  BY <1>1, <1>10 DEF GroupOk, OutOf
<1>16. GroupOk'
  BY <1>11, <1>13, <1>14, <1>15 DEF GroupOk
<1>17. ArtifactsOk' /\ ColumnsOk'
  BY <1>1 DEF ArtifactsOk, ColumnsOk, Made, Manifested
<1> QED
  BY <1>10, <1>16, <1>17

\* All columns of a date are written at once, each by the one position of its output.
LEMMA FlushOk ==
  ASSUME ArtifactsOk, ColumnsOk, GroupOk, NEW d \in OutputDates, Flush(d)
  PROVE  ArtifactsOk' /\ ColumnsOk' /\ proc'.prog = "grouped" /\ "prog" \in DOMAIN proc' /\ GroupOk'
<1> DEFINE outs == {OutOf(i) : i \in Expected(d)}
           chosen(o) == CHOOSE i \in Expected(d) : OutOf(i) = o
           kept == {q \in DOMAIN proc.pending : q[2] # d}
<1>1. /\ proc.flush /\ d \in Ready /\ UNCHANGED <<latest, model, manifest>>
      /\ column' = [o \in Outputs |-> IF o \in outs THEN [column[o] EXCEPT ![d] = proc.pending[<<chosen(o), d>>]]
                                      ELSE column[o]]
  <2> DEFINE byOutput == [o \in outs |-> proc.pending[<<chosen(o), d>>]]
  <2>1. column' = [o \in Outputs |-> IF o \in DOMAIN byOutput THEN [column[o] EXCEPT ![d] = byOutput[o]] ELSE column[o]]
    BY DEF Flush, OutOf
  <2>2. DOMAIN byOutput = outs /\ \A o \in outs : byOutput[o] = proc.pending[<<chosen(o), d>>]
    OBVIOUS
  <2>3. column' = [o \in Outputs |-> IF o \in outs THEN [column[o] EXCEPT ![d] = proc.pending[<<chosen(o), d>>]]
                                     ELSE column[o]]
    <3> HIDE DEF byOutput, outs, chosen
    <3> QED
      BY <2>1, <2>2
  <2> QED
    BY <2>3 DEF Flush
<1>2. proc' = [prog |-> "grouped", group |-> proc.group, dates |-> proc.dates, units |-> proc.units,
               wave |-> proc.wave, resident |-> proc.resident, flush |-> proc.flush,
               pending |-> [p \in kept |-> proc.pending[p]]]
  <2>1. proc' = [proc EXCEPT !.pending = [p \in kept |-> proc.pending[p]]]
    BY DEF Flush
  <2>2. proc = [prog |-> "grouped", group |-> proc.group, dates |-> proc.dates, units |-> proc.units, wave |-> proc.wave,
                resident |-> proc.resident, flush |-> proc.flush, pending |-> proc.pending]
    BY DEF GroupOk
  <2> HIDE DEF kept
  <2> QED
    BY <2>1, <2>2
<1>3. proc.group \in Groups /\ \A i \in Expected(d) : i \in DOMAIN proc.group /\ d \in Predicts[proc.group[i]]
  BY DEF GroupOk, Expected
\* What a position has pending is written to its own output.
<1>3a. ASSUME NEW i \in Expected(d)
       PROVE  /\ <<i, d>> \in DOMAIN proc.pending /\ Right(proc.group[i], d, proc.pending[<<i, d>>])
              /\ proc.group[i] \in DOMAIN Configs
  <2>1. <<i, d>> \in DOMAIN proc.pending
    BY <1>1 DEF Ready
  <2>2. PICK k \in DOMAIN proc.group : \E e \in Predicts[proc.group[k]] :
          <<i, d>> = <<k, e>> /\ Right(proc.group[k], e, proc.pending[<<i, d>>])
    BY <2>1 DEF GroupOk
  <2>3. Right(proc.group[i], d, proc.pending[<<i, d>>])
    BY <2>2
  <2> QED
    BY <1>3, <2>1, <2>3, GroupFacts
<1>4. ASSUME NEW i \in Expected(d)
      PROVE  OutOf(i) \in outs /\ chosen(OutOf(i)) = i
  <2>1. chosen(OutOf(i)) \in Expected(d) /\ OutOf(chosen(OutOf(i))) = OutOf(i) /\ OutOf(i) \in outs
    OBVIOUS
  <2> DEFINE j == chosen(OutOf(i))
  <2>2. j \in DOMAIN proc.group /\ i \in DOMAIN proc.group /\ OutOf(j) = OutOf(i)
    BY <1>3, <2>1
  <2> HIDE DEF j
  <2>3. j = i
    BY <1>3, <2>2, GroupFacts DEF OutOf
  <2> QED
    BY <2>1, <2>3 DEF j
<1>5. ASSUME NEW o \in Outputs, NEW e \in OutputDates
      PROVE  \/ column'[o][e] = column[o][e]
             \/ /\ e = d
                /\ \E i \in Expected(d) : o = OutOf(i) /\ column'[o][e] = proc.pending[<<i, d>>]
  <2>1. column[o] \in [OutputDates -> ColumnValues \union {None}]
    BY DEF ColumnsOk
  <2>2. CASE o \notin outs
    <3> HIDE DEF outs, chosen
    <3> QED
      BY <1>1, <2>2
  <2>3. CASE o \in outs
    <3>1. PICK i \in Expected(d) : o = OutOf(i)
      BY <2>3
    <3>2. chosen(o) = i
      BY <1>4, <3>1
    <3> HIDE DEF outs, chosen
    <3>3. column'[o] = [column[o] EXCEPT ![d] = proc.pending[<<i, d>>]]
      BY <1>1, <2>3, <3>2
    <3> QED
      BY <2>1, <3>1, <3>3
  <2> QED
    BY <2>2, <2>3
<1>6. ASSUME NEW i \in Expected(d)
      PROVE  column'[OutOf(i)][d] = proc.pending[<<i, d>>]
  <2>1. OutOf(i) \in outs /\ chosen(OutOf(i)) = i
    BY <1>4
  <2>2. OutOf(i) \in Outputs
    BY <1>3, GroupFacts DEF OutOf
  <2>3. column[OutOf(i)] \in [OutputDates -> ColumnValues \union {None}]
    BY <2>2 DEF ColumnsOk
  <2> HIDE DEF outs, chosen
  <2>4. column'[OutOf(i)] = [column[OutOf(i)] EXCEPT ![d] = proc.pending[<<i, d>>]]
    BY <1>1, <2>1, <2>2
  <2> QED
    BY <2>3, <2>4
<1>7. ColumnsOk'
  <2>1. \A o \in Outputs, e \in OutputDates :
          column'[o][e] = column[o][e] \/ \E c \in DOMAIN Configs : Right(c, e, column'[o][e])
    <3> SUFFICES ASSUME NEW o \in Outputs, NEW e \in OutputDates, column'[o][e] # column[o][e]
                 PROVE  \E c \in DOMAIN Configs : Right(c, e, column'[o][e])
      OBVIOUS
    <3>1. PICK i \in Expected(d) : e = d /\ column'[o][e] = proc.pending[<<i, d>>]
      BY <1>5
    <3> HIDE DEF outs, chosen, kept
    <3> QED
      BY <1>3a, <3>1
  <2>2. column' \in [Outputs -> [OutputDates -> ColumnValues \union {None}]]
    <3>1. ASSUME NEW o \in Outputs PROVE column'[o] \in [OutputDates -> ColumnValues \union {None}]
      <4>1. column[o] \in [OutputDates -> ColumnValues \union {None}]
        BY DEF ColumnsOk
      <4>2. CASE o \notin outs
        <5> HIDE DEF outs, chosen
        <5> QED
          BY <1>1, <4>1, <4>2
      <4>3. CASE o \in outs
        <5>1. PICK i \in Expected(d) : o = OutOf(i)
          BY <4>3
        <5>2. proc.pending[<<i, d>>] \in ColumnValues
          BY <1>3a DEF Right
        <5>3. chosen(o) = i
          BY <1>4, <5>1
        <5> HIDE DEF outs, chosen
        <5>4. column'[o] = [column[o] EXCEPT ![d] = proc.pending[<<i, d>>]]
          BY <1>1, <4>3, <5>3
        <5> QED
          BY <4>1, <5>2, <5>4
      <4> QED
        BY <4>2, <4>3
    <3>2. column' = [o \in Outputs |-> column'[o]]
      <4> HIDE DEF outs, chosen
      <4> QED
        BY <1>1
    <3> QED
      BY <3>1, <3>2
  <2> QED
    BY <2>1, <2>2, ColumnSet
<1>8. /\ proc'.prog = "grouped" /\ "prog" \in DOMAIN proc' /\ proc'.group = proc.group /\ proc'.dates = proc.dates
      /\ proc'.units = proc.units /\ proc'.wave = proc.wave /\ proc'.flush = proc.flush
      /\ proc'.pending = [p \in kept |-> proc.pending[p]]
  BY <1>2
<1>9. proc' = [prog |-> "grouped", group |-> proc'.group, dates |-> proc'.dates, units |-> proc'.units, wave |-> proc'.wave,
               resident |-> proc'.resident, flush |-> proc'.flush, pending |-> proc'.pending]
  BY <1>2
<1>10. DOMAIN proc'.pending = kept /\ \A p \in kept : proc'.pending[p] = proc.pending[p]
  BY <1>8
<1>11. ASSUME NEW i \in DOMAIN proc.group, NEW e \in Predicts[proc.group[i]] \intersect proc.dates
       PROVE  Answered(i, e)'
  <2>1. Answered(i, e) /\ e \in OutputDates /\ OutOf(i) \in Outputs
    BY <1>3, GroupFacts DEF GroupOk, OutOf
  <2>2. CASE e = d
    <3>1. i \in Expected(d)
      BY <2>2 DEF Expected
    <3>2. column'[OutOf(i)][e] # None /\ column'[OutOf(i)][e].by = proc.group[i]
      BY <1>3a, <1>6, <2>2, <3>1 DEF Right
    <3>3. Written(i, e)'
      BY <1>8, <3>2 DEF Written, OutOf
    <3> QED
      BY <3>3 DEF Answered
  <2>3. CASE e # d
    <3>1. <<i, e>> \in DOMAIN proc.pending => <<i, e>> \in DOMAIN proc'.pending
      BY <1>10, <2>3
    <3>2. column'[OutOf(i)][e] = column[OutOf(i)][e]
      BY <1>5, <2>1, <2>3
    <3>3. Written(i, e) => Written(i, e)'
      BY <1>8, <3>2 DEF Written, OutOf
    <3> QED
      BY <1>8, <2>1, <3>1, <3>3 DEF Answered
  <2> QED
    BY <2>2, <2>3
<1>12. \A i \in DOMAIN proc'.group : \A e \in Predicts[proc'.group[i]] \intersect proc'.dates : Answered(i, e)'
  BY <1>8, <1>11
<1>13. \A p \in DOMAIN proc'.pending :
         \E i \in DOMAIN proc'.group : \E e \in Predicts[proc'.group[i]] :
           p = <<i, e>> /\ Right(proc'.group[i], e, proc'.pending[p])
  BY <1>8, <1>10 DEF GroupOk
<1>14. /\ proc'.group \in Groups /\ (proc'.flush => proc'.wave = {})
       /\ \A i \in DOMAIN proc'.group : Configs[proc'.group[i]].version = latest'[OutOf(i)']
       /\ \A v \in proc'.units \union proc'.wave :
            v.i \in DOMAIN proc'.group /\ v.w \in Plan[proc'.group[v.i]] /\ v.dates \subseteq v.w.predict
  BY <1>1, <1>8 DEF GroupOk, OutOf
<1>15. GroupOk'
  BY <1>9, <1>12, <1>13, <1>14 DEF GroupOk
<1>16. ArtifactsOk'
  BY <1>1 DEF ArtifactsOk, Made, Manifested
<1> QED
  BY <1>7, <1>8, <1>15, <1>16

LEMMA FinishGroupedOk ==
  ASSUME ArtifactsOk, ColumnsOk, GroupOk, FinishGrouped
  PROVE  ArtifactsOk' /\ ColumnsOk' /\ proc'.prog = "done" /\ "prog" \in DOMAIN proc' /\ RunCompletes'
<1>1. /\ proc.units = {} /\ proc.wave = {} /\ DOMAIN proc.pending = {}
      /\ UNCHANGED <<latest, model, manifest, column>>
      /\ proc' = [prog |-> "done", cfgs |-> ToSet(proc.group), dates |-> proc.dates, resume |-> FALSE]
  BY DEF FinishGrouped, OnlyProc, GroupOk
<1>2. ASSUME NEW c \in ToSet(proc.group), NEW d \in Predicts[c] \intersect proc.dates
      PROVE  column[Configs[c].out][d] # None /\ column[Configs[c].out][d].by = c
  <2>1. PICK i \in DOMAIN proc.group : c = proc.group[i]
    BY DEF ToSet
  <2>2. Answered(i, d)
    BY <2>1 DEF GroupOk
  <2> QED
    BY <1>1, <2>1, <2>2 DEF Answered, Written, OutOf
<1>3. RunCompletes'
  BY <1>1, <1>2 DEF RunCompletes
<1>4. ArtifactsOk' /\ ColumnsOk'
  BY <1>1 DEF ArtifactsOk, ColumnsOk, Made, Manifested
<1> QED
  BY <1>1, <1>3, <1>4

-----------------------------------------------------------------------------
(* Whatever the programs do, and whenever they die.                         *)

ValueInv ==
  /\ "prog" \in DOMAIN proc
  /\ ArtifactsOk
  /\ ColumnsOk
  /\ Pipeline => LocalOk
  /\ Running("grouped") => GroupOk
  /\ RunCompletes

\* A library that has been trained.
LEMMA ValueInit == Init => ValueInv
<1> SUFFICES ASSUME Init PROVE ValueInv
  OBVIOUS
<1>1. PICK trained \in SUBSET DOMAIN Configs :
        /\ latest = [o \in Outputs |-> Max({0} \union {Configs[c].version : c \in {b \in trained : Configs[b].out = o}})]
        /\ model = [p \in Paths |->
             LET made == {m \in UNION {{c} \X Trained[c] : c \in trained} : Path(m[1], m[2]) = p} IN
             IF made = {} THEN None ELSE LET m == CHOOSE m \in made : TRUE IN Identity(m[1], m[2])]
        /\ manifest = model
  BY LibraryAssumption DEF Init
<1> DEFINE versions(o) == {Configs[c].version : c \in {b \in trained : Configs[b].out = o}}
           made(p) == {m \in UNION {{c} \X Trained[c] : c \in trained} : Path(m[1], m[2]) = p}
<1>2. ASSUME NEW o \in Outputs PROVE latest[o] \in Nat /\ \A n \in versions(o) : n <= latest[o]
  <2>1. latest[o] = Max({0} \union versions(o))
    BY <1>1
  <2>2. versions(o) \subseteq Nat
    BY ConfigAssumption
  <2>3. IsFiniteSet(versions(o))
    <3>1. IsFiniteSet({b \in trained : Configs[b].out = o})
      <4>1. {b \in trained : Configs[b].out = o} \subseteq DOMAIN Configs
        OBVIOUS
      <4> QED
        BY <4>1, FS_Subset, ConfigAssumption
    <3> DEFINE S == {b \in trained : Configs[b].out = o}
               f == [c \in S |-> Configs[c].version]
    <3>2. f \in Surjection(S, versions(o))
      BY DEF Surjection
    <3> HIDE DEF S, f
    <3>3. IsFiniteSet(S)
      BY <3>1 DEF S
    <3> HIDE DEF versions
    <3> QED
      BY <3>2, <3>3, FS_Surjection
  <2> DEFINE T == {0} \union versions(o)
  <2>4. IsFiniteSet({0})
    BY FS_Singleton
  <2> HIDE DEF versions
  <2>5. T \subseteq Nat /\ T # {} /\ IsFiniteSet(T)
    <3>1. IsFiniteSet(T)
      BY <2>3, <2>4, FS_Union
    <3> QED
      BY <2>2, <3>1
  <2>6. \A n \in versions(o) : n \in T
    OBVIOUS
  <2> HIDE DEF T
  <2>7. Max(T) \in T /\ \A n \in T : n <= Max(T)
    BY <2>5, GreatestNatural
  <2>8. latest[o] = Max(T)
    BY <2>1 DEF T
  <2> QED
    BY <2>5, <2>6, <2>7, <2>8
<1>3. latest \in [Outputs -> Nat]
  <2>1. latest = [o \in Outputs |-> latest[o]]
    BY <1>1
  <2> QED
    BY <1>2, <2>1
<1>4. ASSUME NEW p \in Paths
      PROVE  model[p] = None \/ (model[p] \in Identities /\ Made(p, model[p]))
  <2>1. CASE made(p) = {}
    BY <1>1, <2>1
  <2>2. CASE made(p) # {}
    <3> DEFINE m == CHOOSE x \in made(p) : TRUE
    <3>1. m \in made(p) /\ model[p] = Identity(m[1], m[2])
      BY <1>1, <2>2
    <3>2. PICK c \in trained : m \in {c} \X Trained[c]
      BY <3>1
    <3>3. m[1] = c /\ m[2] \in Trained[c] /\ Path(m[1], m[2]) = p
      BY <3>1, <3>2
    <3> HIDE DEF m, made
    <3>4. PICK w \in Trained[c] : w = m[2]
      BY <3>3
    <3>5. model[p] = Identity(c, w) /\ Path(c, w) = p
      BY <3>1, <3>3, <3>4
    <3>6. Configs[c].out \in Outputs /\ Configs[c].version \in versions(Configs[c].out) /\ c \in DOMAIN Configs
      BY PlanFacts
    <3>7. Configs[c].version <= latest[Configs[c].out]
      <4> HIDE DEF versions
      <4> QED
        BY <1>2, <3>6
    <3>8. w \in Plan[c]
      BY <3>6, TrainedIs
    <3>9. Identity(c, w) \in Identities
      BY <3>6, <3>8, PlanFacts
    <3> QED
      BY <3>5, <3>6, <3>7, <3>9 DEF Made
  <2> QED
    BY <2>1, <2>2
<1>5. model \in [Paths -> Identities \union {None}]
  <2>1. model = [p \in Paths |-> model[p]]
    BY <1>1
  <2> QED
    BY <1>4, <2>1
<1>6. ASSUME NEW c \in DOMAIN Configs, NEW w \in Plan[c] PROVE Manifested(c, w)
  BY <1>1 DEF Manifested
<1>7. ArtifactsOk
  BY <1>1, <1>3, <1>4, <1>5, <1>6 DEF ArtifactsOk, Held
<1>8. ColumnsOk
  BY DEF Init, ColumnsOk
<1>9. proc.prog = "idle" /\ "prog" \in DOMAIN proc
  BY DEF Init, Idle
<1> QED
  BY <1>7, <1>8, <1>9 DEF ValueInv, Pipeline, Running, RunCompletes

\* A program that leaves models and columns alone.
LEMMA LeavesFiles ==
  ASSUME ValueInv, UNCHANGED <<latest, model, manifest, column>>, "prog" \in DOMAIN proc',
         proc'.prog \notin {"run", "train", "predict", "grouped", "done"}
  PROVE  ValueInv'
<1>1. ArtifactsOk' /\ ColumnsOk'
  BY DEF ValueInv, ArtifactsOk, ColumnsOk, Made, Manifested
<1> QED
  BY <1>1 DEF ValueInv, Pipeline, Running, RunCompletes

LEMMA OthersLeave ==
  ASSUME ValueInv, MetadataNext \/ ShowPlan \/ Stop
  PROVE  ValueInv'
<1>1. UNCHANGED <<latest, model, manifest, column>>
  BY DEF MetadataNext, StartMlMetadata, StartCodeMetadata, PublishSource, PublishNative, PublishCombined, ShowPlan, Stop
<1>2. CASE \E ids \in MlRegistrations : StartMlMetadata(ids)
  BY <1>1, <1>2, LeavesFiles DEF StartMlMetadata, Start, Publication
<1>3. CASE \E ids \in CodeRegistries : StartCodeMetadata(ids)
  BY <1>1, <1>3, LeavesFiles DEF StartCodeMetadata, Start, Publication
<1>4. CASE PublishSource \/ PublishNative
  <2>1. proc.prog \in {"ml", "code"} /\ \E s : proc' = [proc EXCEPT !.stage = s]
    BY <1>4 DEF PublishSource, PublishNative, Publishing
  <2>2. "prog" \in DOMAIN proc' /\ proc'.prog = proc.prog
    BY <2>1 DEF ValueInv
  <2> QED
    BY <1>1, <2>1, <2>2, LeavesFiles
<1>5. CASE PublishCombined \/ Stop
  BY <1>1, <1>5, LeavesFiles DEF PublishCombined, Stop, Idle
<1>6. CASE ShowPlan
  BY <1>1, <1>6, LeavesFiles DEF ShowPlan, Start
<1> QED
  BY <1>2, <1>3, <1>4, <1>5, <1>6 DEF MetadataNext

LEMMA PipelineStarts ==
  ASSUME ValueInv, NEW c \in DOMAIN Configs,
         \/ \E resume \in BOOLEAN : StartRun(c, resume)
         \/ \E resume \in BOOLEAN, windows \in SUBSET Plan[c] : StartTrain(c, resume, windows)
         \/ StartPredict(c)
  PROVE  ValueInv'
<1>1. PICK prog \in {"run", "train", "predict"}, resume \in BOOLEAN, windows \in SUBSET Plan[c] :
        /\ proc' = Local(prog, c, resume, windows) /\ Uses(c) /\ UNCHANGED <<model, manifest, column>>
        /\ prog = "train" \/ windows = Plan[c]
        /\ prog = "predict" => ~resume
  BY DEF StartRun, StartTrain, StartPredict, Start
<1>2. prog = "predict" => ~resume
  BY <1>1
<1>3. ArtifactsOk' /\ ColumnsOk' /\ latest'[Configs[c].out] = Configs[c].version
  BY <1>1, StartKeeps DEF ValueInv
<1>4. LocalOk'
  BY <1>1, <1>2, <1>3, LocalStart
<1>5. "prog" \in DOMAIN proc' /\ proc'.prog = prog
  BY <1>1 DEF Local
<1> QED
  BY <1>3, <1>4, <1>5 DEF ValueInv, Running, RunCompletes

\* A step of a pipeline's program is one of that program.
LEMMA PipelineSteps ==
  ASSUME NeverBack, ValueInv,
         \/ SkipWindow \/ LoadModel \/ Fit \/ OpenModel \/ SaveModel \/ SaveManifest
         \/ \E d \in OutputDates : PredictWrite(d) \/ Pad(d)
         \/ EndWindow
  PROVE  ValueInv'
<1>1. Pipeline
  BY DEF SkipWindow, LoadModel, Fit, OpenModel, SaveModel, SaveManifest, PredictWrite, Pad, EndWindow, AtWindow, At, Pipeline
<1>2. ArtifactsOk /\ ColumnsOk /\ LocalOk
  BY <1>1 DEF ValueInv
<1>3. ArtifactsOk' /\ ColumnsOk' /\ LocalOk'
  BY <1>2, SkipWindowOk, LoadModelOk, FitOk, OpenModelOk, SaveModelOk, SaveManifestOk, PredictWriteOk, PadOk, EndWindowOk
<1>4. proc'.prog = proc.prog
  <2>1. proc = [prog |-> proc.prog, cfg |-> proc.cfg, resume |-> proc.resume, todo |-> proc.todo,
                stage |-> proc.stage, held |-> proc.held, all |-> proc.all, left |-> proc.left]
    BY <1>2 DEF LocalOk
  <2> QED
    BY <2>1 DEF SkipWindow, LoadModel, Fit, OpenModel, SaveModel, SaveManifest, PredictWrite, Pad, EndWindow, NextWindow
<1>5. "prog" \in DOMAIN proc'
  <2>1. proc' = [prog |-> proc'.prog, cfg |-> proc'.cfg, resume |-> proc'.resume, todo |-> proc'.todo,
                 stage |-> proc'.stage, held |-> proc'.held, all |-> proc'.all, left |-> proc'.left]
    BY <1>3 DEF LocalOk
  <2> QED
    BY <2>1
<1> QED
  BY <1>1, <1>3, <1>4, <1>5 DEF ValueInv, Pipeline, Running, RunCompletes

LEMMA GroupedSteps ==
  ASSUME ValueInv, GroupedNext
  PROVE  ValueInv'
<1>1. ArtifactsOk /\ ColumnsOk /\ (Running("grouped") => GroupOk)
  BY DEF ValueInv
<1>2. CASE FinishGrouped
  <2>1. GroupOk
    BY <1>1, <1>2 DEF FinishGrouped
  <2>2. ArtifactsOk' /\ ColumnsOk' /\ proc'.prog = "done" /\ "prog" \in DOMAIN proc' /\ RunCompletes'
    BY <1>1, <1>2, <2>1, FinishGroupedOk
  <2> QED
    BY <2>2 DEF ValueInv, Pipeline, Running
<1>3. CASE ~FinishGrouped
  <2>1. ArtifactsOk' /\ ColumnsOk' /\ proc'.prog = "grouped" /\ "prog" \in DOMAIN proc' /\ GroupOk'
    <3>1. CASE \E group \in Groups : StartGrouped(group)
      BY <1>1, <3>1, StartGroupedOk
    <3>2. CASE BeginWave
      BY <1>1, <3>2, BeginWaveOk DEF BeginWave
    <3>3. CASE Running("grouped") /\ \E u \in proc.wave : Infer(u)
      BY <1>1, <3>3, InferOk
    <3>4. CASE \E d \in OutputDates : Flush(d)
      <4>1. Running("grouped")
        BY <3>4 DEF Flush
      <4> QED
        BY <1>1, <3>4, <4>1, FlushOk
    <3> QED
      BY <1>3, <3>1, <3>2, <3>3, <3>4 DEF GroupedNext
  <2> QED
    BY <2>1 DEF ValueInv, Pipeline, Running, RunCompletes
<1> QED
  BY <1>2, <1>3

LEMMA ValueStep ==
  ASSUME NeverBack, ValueInv, [Next]_mlVars
  PROVE  ValueInv'
<1>1. CASE UNCHANGED mlVars
  <2>1. UNCHANGED <<proc, latest, model, manifest, column>>
    BY <1>1 DEF mlVars
  <2>2. ArtifactsOk' /\ ColumnsOk'
    BY <2>1 DEF ValueInv, ArtifactsOk, ColumnsOk, Made, Manifested
  <2>3. Pipeline' => LocalOk'
    BY <2>1, CurrentStays DEF ValueInv, Pipeline, LocalOk, Covered, Output
  <2>4. Running("grouped")' => GroupOk'
    BY <2>1 DEF ValueInv, Running, GroupOk, Answered, Written, OutOf
  <2>5. RunCompletes'
    BY <2>1 DEF ValueInv, RunCompletes, Running
  <2> QED
    BY <2>1, <2>2, <2>3, <2>4, <2>5 DEF ValueInv
<1>2. CASE ArtifactsNext
  <2>1. CASE \E c \in DOMAIN Configs :
               \/ \E resume \in BOOLEAN : StartRun(c, resume)
               \/ \E resume \in BOOLEAN, windows \in SUBSET Plan[c] : StartTrain(c, resume, windows)
               \/ StartPredict(c)
    BY <2>1, PipelineStarts
  <2>2. CASE \/ SkipWindow \/ LoadModel \/ Fit \/ OpenModel \/ SaveModel \/ SaveManifest
             \/ \E d \in OutputDates : PredictWrite(d) \/ Pad(d)
             \/ EndWindow
    BY <2>2, PipelineSteps
  <2>3. CASE Finish
    <3>1. ArtifactsOk /\ ColumnsOk /\ LocalOk
      BY <2>3 DEF Finish, At, ValueInv, Pipeline
    <3>2. ArtifactsOk' /\ ColumnsOk' /\ proc'.prog = "done" /\ "prog" \in DOMAIN proc' /\ RunCompletes'
      BY <2>3, <3>1, FinishOk
    <3> QED
      BY <3>2 DEF ValueInv, Pipeline, Running
  <2> QED
    BY <1>2, <2>1, <2>2, <2>3 DEF ArtifactsNext
<1>3. CASE GroupedNext
  BY <1>3, GroupedSteps
<1>4. CASE MetadataNext \/ ShowPlan \/ Stop
  BY <1>4, OthersLeave
<1> QED
  BY <1>1, <1>2, <1>3, <1>4 DEF Next

\* Models, manifests, columns and the running program stay as ValueInv says.
THEOREM ValuesInductive == ASSUME NeverBack PROVE Spec => []ValueInv
<1>1. Init => ValueInv
  BY ValueInit
<1>2. ValueInv /\ [Next]_mlVars => ValueInv'
  BY ValueStep
<1> QED
  BY <1>1, <1>2, PTL DEF Spec

\* Whatever is killed, resumed, retrained or predicted in groups, a configuration's values are
\* those of an undisturbed run of it: any calendar, windows, batches, groups and deaths.
THEOREM AsUndisturbed == ASSUME NeverBack PROVE Spec => []ValuesFaithful
<1>1. ASSUME ValueInv PROVE ValuesFaithful
  <2> SUFFICES ASSUME NEW o \in Outputs, NEW d \in OutputDates, column[o][d] # None
               PROVE  column[o][d].model = Undisturbed[<<column[o][d].by, d>>]
    BY DEF ValuesFaithful
  <2>1. PICK c \in DOMAIN Configs : Right(c, d, column[o][d])
    BY <1>1 DEF ValueInv, ColumnsOk
  <2> QED
    BY <2>1 DEF Right
<1>2. ValueInv => ValuesFaithful
  BY <1>1
<1> QED
  BY <1>2, ValuesInductive, PTL

\* A program that ends has left a column on every date it answers for, its own where one of its
\* models serves.
THEOREM RunsComplete == ASSUME NeverBack PROVE Spec => []RunCompletes
<1>1. ValueInv => RunCompletes
  BY DEF ValueInv
<1> QED
  BY <1>1, ValuesInductive, PTL

-----------------------------------------------------------------------------
(* Models that carry state.                                                 *)

Stateful(i) == ~Safe(proc.group[i])

\* Units that are still to be predicted, and those that have been.
Waiting == proc.units \union proc.wave
Past == Units(proc.group, proc.dates) \ Waiting

\* The batches with rows that a window's model has been given.
Given(i, w) == {u \in Past : u.i = i /\ u.w = w /\ HasRows(u.dates)}

\* Units are predicted in the order of their last dates.
InOrder ==
  /\ Waiting \subseteq Units(proc.group, proc.dates) /\ proc.units \intersect proc.wave = {}
  /\ \A u \in Past \union proc.wave, v \in Waiting : Max(u.dates) <= Max(v.dates)

Entries(group) == [i : DOMAIN group, w : UNION {Plan[c] : c \in DOMAIN Configs}, fed : SUBSET Nat]

\* No two elements are of one model.
OneEach(s) == \A j, k \in DOMAIN s : s[j].i = s[k].i => j = k

\* A model that carries state has been fed all that it was given, and is resident from its first
\* batch until its last.
Fed(r) == Stateful(r.i) => Given(r.i, r.w) # {} /\ r.fed = UNION {u.dates : u \in Given(r.i, r.w)}
Loaded(v) ==
  Stateful(v.i) /\ Given(v.i, v.w) # {} =>
    \E k \in DOMAIN proc.resident : proc.resident[k].i = v.i /\ proc.resident[k].w = v.w

ResidentsOk ==
  /\ proc.resident \in Seq(Entries(proc.group)) /\ OneEach(proc.resident)
  /\ \A k \in DOMAIN proc.resident : Fed(proc.resident[k])
  /\ \A v \in Waiting : Loaded(v)

OrderOk ==
  /\ proc = [prog |-> "grouped", group |-> proc.group, dates |-> proc.dates, units |-> proc.units, wave |-> proc.wave,
             resident |-> proc.resident, flush |-> proc.flush, pending |-> proc.pending]
  /\ proc.group \in Groups
  /\ (\E i \in DOMAIN proc.group : Stateful(i)) => proc.dates = GroupDates(proc.group)
  /\ InOrder
  /\ ResidentsOk

-----------------------------------------------------------------------------

\* Of two batches of a window, one is wholly before the other.
LEMMA PiecesOrdered ==
  ASSUME NEW S, S \subseteq Nat, IsFiniteSet(S), NEW n \in Nat \ {0},
         NEW a \in Pieces(S, n), NEW b \in Pieces(S, n), a # b
  PROVE  (\A x \in a, y \in b : x < y) \/ (\A x \in a, y \in b : y < x)
<1> DEFINE Part(x) == Rank(S, x) \div n
<1>1. \A x \in S : Part(x) \in Int
  <2> SUFFICES ASSUME NEW x \in S PROVE Part(x) \in Int
    OBVIOUS
  <2>1. Rank(S, x) \in Nat
    <3>1. IsFiniteSet({e \in S : e < x})
      BY FS_Subset
    <3> QED
      BY <3>1, FS_CardinalityType DEF Rank
  <2> QED
    BY <2>1, DivRule
<1>2. ASSUME NEW x \in S, NEW y \in S, x <= y PROVE Part(x) <= Part(y)
  <2> DEFINE X == {e \in S : e < x}
             Y == {e \in S : e < y}
  <2>1. IsFiniteSet(X) /\ IsFiniteSet(Y) /\ X \subseteq Y
    <3>1. IsFiniteSet(X) /\ IsFiniteSet(Y)
      BY FS_Subset
    <3>2. X \subseteq Y
      <4> SUFFICES ASSUME NEW e \in S, e < x PROVE e < y
        OBVIOUS
      <4>1. e \in Nat /\ x \in Nat /\ y \in Nat
        OBVIOUS
      <4> QED
        BY <1>2, <4>1
    <3> QED
      BY <3>1, <3>2
  <2>2. Cardinality(X) <= Cardinality(Y) /\ Cardinality(X) \in Nat /\ Cardinality(Y) \in Nat
    BY <2>1, FS_Subset, FS_CardinalityType
  <2> DEFINE p == Cardinality(X)
             q == Cardinality(Y)
  <2>3. Part(x) = p \div n /\ Part(y) = q \div n
    BY DEF Rank
  <2> HIDE DEF X, Y, Part
  <2>4. p \in Nat /\ q \in Nat /\ p <= q
    BY <2>2
  <2> HIDE DEF p, q
  <2>5. p \div n <= q \div n
    <3> DEFINE s == p \div n
               t == q \div n
    <3>1. s \in Int /\ s * n <= p /\ t \in Int /\ q < t * n + n
      BY <2>4, DivRule
    <3> SUFFICES ASSUME t + 1 <= s PROVE FALSE
      BY <3>1
    <3> HIDE DEF s, t
    <3>2. (t + 1) * n <= s * n
      BY <3>1, TimesMonotone
    <3> QED
      BY <2>4, <3>1, <3>2
  <2> QED
    BY <2>3, <2>5
<1>3. PICK d \in S : a = {x \in S : Part(x) = Part(d)}
  BY DEF Pieces
<1>4. PICK e \in S : b = {x \in S : Part(x) = Part(e)}
  BY DEF Pieces
<1> HIDE DEF Part
<1>5. Part(d) # Part(e)
  BY <1>3, <1>4
<1>6. CASE Part(d) < Part(e)
  <2>1. \A x \in a, y \in b : x < y
    BY <1>1, <1>2, <1>3, <1>4, <1>6
  <2> QED
    BY <2>1
<1>7. CASE Part(e) < Part(d)
  <2>1. \A x \in a, y \in b : y < x
    BY <1>1, <1>2, <1>3, <1>4, <1>7
  <2> QED
    BY <2>1
<1> QED
  BY <1>1, <1>5, <1>6, <1>7

\* What PlanFacts leaves to say of windows: their order, and their finite dates.
LEMMA PlanTurns ==
  ASSUME NEW c \in DOMAIN Configs
  PROVE  /\ \A v, w \in Plan[c] : v # w => InTurn(v, w)
         /\ \A w \in Plan[c] : w.predict \subseteq Nat /\ IsFiniteSet(w.predict)
<1>1. Plan[c] = BuildWindows(Configs[c])
  BY TableIs DEF Plan
<1>2. PlanOk(Configs[c], Plan[c]) /\ WellFormed(Configs[c])
  BY <1>1, PlansOk, ConfigAssumption
<1>3. \A v, w \in Plan[c] : v # w => InTurn(v, w)
  BY <1>2 DEF PlanOk
<1>4. \A w \in Plan[c] : w.predict \subseteq Configs[c].cal
  BY <1>2, PredictOpen DEF PlanOk
<1>5. Configs[c].cal \subseteq Nat /\ IsFiniteSet(Configs[c].cal)
  BY <1>2 DEF WellFormed
<1>6. \A w \in Plan[c] : w.predict \subseteq Nat /\ IsFiniteSet(w.predict)
  BY <1>4, <1>5, FS_Subset
<1> QED
  BY <1>3, <1>6

\* A unit is a batch of one window, with dates of the task.
LEMMA UnitIs ==
  ASSUME NEW group \in Groups, NEW owned, NEW u \in Units(group, owned)
  PROVE  /\ u = [i |-> u.i, w |-> u.w, dates |-> u.dates]
         /\ u.i \in DOMAIN group /\ group[u.i] \in DOMAIN Configs /\ u.w \in Plan[group[u.i]]
         /\ u.dates \in Pieces(u.w.predict, Configs[group[u.i]].batch)
         /\ u.dates \subseteq u.w.predict /\ u.dates \subseteq Nat
         /\ Max(u.dates) \in u.dates /\ \A d \in u.dates : d <= Max(u.dates)
<1>1. PICK i \in DOMAIN group : \E w \in Plan[group[i]] : \E b \in Pieces(w.predict, Configs[group[i]].batch) :
        b \intersect owned # {} /\ u = [i |-> i, w |-> w, dates |-> b]
  BY DEF Units
<1>2. PICK w \in Plan[group[i]] : \E b \in Pieces(w.predict, Configs[group[i]].batch) :
        b \intersect owned # {} /\ u = [i |-> i, w |-> w, dates |-> b]
  BY <1>1
<1>3. PICK b \in Pieces(w.predict, Configs[group[i]].batch) :
        b \intersect owned # {} /\ u = [i |-> i, w |-> w, dates |-> b]
  BY <1>2
<1>4. u.i = i /\ u.w = w /\ u.dates = b /\ u = [i |-> u.i, w |-> u.w, dates |-> u.dates]
  BY <1>3
<1>5. group[i] \in DOMAIN Configs
  BY GroupFacts
<1>6. w.predict \subseteq Nat /\ IsFiniteSet(w.predict)
  BY <1>5, PlanTurns
<1>7. b \subseteq w.predict
  BY DEF Pieces
<1>8. b \subseteq Nat /\ IsFiniteSet(b) /\ b # {}
  <2>1. IsFiniteSet(b)
    BY <1>6, <1>7, FS_Subset
  <2> QED
    BY <1>3, <1>6, <1>7, <2>1
<1>9. Max(b) \in b /\ \A d \in b : d <= Max(b)
  BY <1>8, GreatestNatural
<1> QED
  BY <1>4, <1>5, <1>7, <1>8, <1>9

\* Of two units of a model, one is wholly before the other.
LEMMA UnitsApart ==
  ASSUME NEW group \in Groups, NEW owned, NEW u \in Units(group, owned), NEW v \in Units(group, owned),
         u.i = v.i, u # v
  PROVE  (\A x \in u.dates, y \in v.dates : x < y) \/ (\A x \in u.dates, y \in v.dates : y < x)
<1>1. /\ u = [i |-> u.i, w |-> u.w, dates |-> u.dates]
      /\ u.i \in DOMAIN group /\ group[u.i] \in DOMAIN Configs /\ u.w \in Plan[group[u.i]]
      /\ u.dates \in Pieces(u.w.predict, Configs[group[u.i]].batch) /\ u.dates \subseteq u.w.predict
  BY UnitIs
<1>2. /\ v = [i |-> v.i, w |-> v.w, dates |-> v.dates] /\ v.w \in Plan[group[u.i]]
      /\ v.dates \in Pieces(v.w.predict, Configs[group[u.i]].batch) /\ v.dates \subseteq v.w.predict
  BY UnitIs
<1>3. CASE u.w # v.w
  <2>1. InTurn(u.w, v.w)
    BY <1>1, <1>2, <1>3, PlanTurns
  <2>2. CASE \A d \in u.w.predict, e \in v.w.predict : d < e
    BY <1>1, <1>2, <2>2
  <2>3. CASE \A d \in u.w.predict, e \in v.w.predict : e < d
    BY <1>1, <1>2, <2>3
  <2> QED
    BY <2>1, <2>2, <2>3 DEF InTurn
<1>4. CASE u.w = v.w
  <2>1. u.dates # v.dates
    BY <1>1, <1>2, <1>4
  <2>2. u.w.predict \subseteq Nat /\ IsFiniteSet(u.w.predict)
    BY <1>1, PlanTurns
  <2>3. Configs[group[u.i]].batch \in Nat \ {0}
    BY <1>1, ConfigAssumption
  <2>4. v.dates \in Pieces(u.w.predict, Configs[group[u.i]].batch)
    BY <1>2, <1>4
  <2> QED
    BY <1>1, <2>1, <2>2, <2>3, <2>4, PiecesOrdered
<1> QED
  BY <1>3, <1>4

\* A sequence without its k-th element.
LEMMA RemoveAtIs ==
  ASSUME NEW E, NEW s \in Seq(E), NEW k \in DOMAIN s
  PROVE  /\ RemoveAt(s, k) \in Seq(E)
         /\ \A j \in DOMAIN RemoveAt(s, k) : \E m \in DOMAIN s : m # k /\ m = (IF j < k THEN j ELSE j + 1) /\ RemoveAt(s, k)[j] = s[m]
         /\ \A m \in DOMAIN s : m # k => \E j \in DOMAIN RemoveAt(s, k) : RemoveAt(s, k)[j] = s[m]
<1> DEFINE a == SubSeq(s, 1, k - 1)
           b == SubSeq(s, k + 1, Len(s))
           t == RemoveAt(s, k)
<1>0. k \in 1 .. Len(s) /\ Len(s) \in Nat /\ DOMAIN s = 1 .. Len(s) /\ \A m \in 1 .. Len(s) : s[m] \in E
  BY LenProperties, ElementOfSeq
<1>1. a \in Seq(E) /\ Len(a) = k - 1 /\ \A j \in 1 .. k - 1 : a[j] = s[j]
  BY <1>0, SubSeqProperties
<1>2. b \in Seq(E) /\ Len(b) = Len(s) - k /\ \A j \in 1 .. Len(s) - k : b[j] = s[k + j]
  BY <1>0, SubSeqProperties
<1>3. t = a \o b
  BY DEF RemoveAt
<1> HIDE DEF a, b, t
<1>4. /\ t \in Seq(E) /\ Len(t) = Len(s) - 1
      /\ \A j \in 1 .. Len(s) - 1 : t[j] = IF j <= k - 1 THEN a[j] ELSE b[j - (k - 1)]
  <2>1. /\ a \o b \in Seq(E) /\ Len(a \o b) = Len(a) + Len(b)
        /\ \A j \in 1 .. Len(a) + Len(b) : (a \o b)[j] = IF j <= Len(a) THEN a[j] ELSE b[j - Len(a)]
    BY <1>1, <1>2, ConcatProperties
  <2>2. Len(a) + Len(b) = Len(s) - 1
    BY <1>0, <1>1, <1>2
  <2> QED
    BY <1>1, <1>3, <2>1, <2>2
<1>5. DOMAIN t = 1 .. Len(s) - 1
  BY <1>4, LenProperties
<1>6. \A j \in DOMAIN t : \E m \in DOMAIN s : m # k /\ m = (IF j < k THEN j ELSE j + 1) /\ t[j] = s[m]
  <2> SUFFICES ASSUME NEW j \in 1 .. Len(s) - 1
               PROVE  \E m \in DOMAIN s : m # k /\ m = (IF j < k THEN j ELSE j + 1) /\ t[j] = s[m]
    BY <1>5
  <2>1. CASE j < k
    <3>1. t[j] = s[j] /\ j \in DOMAIN s /\ j # k
      BY <1>0, <1>1, <1>4, <2>1
    <3> QED
      BY <2>1, <3>1
  <2>2. CASE ~(j < k)
    <3>1. j - (k - 1) \in 1 .. Len(s) - k /\ k + (j - (k - 1)) = j + 1 /\ j + 1 \in DOMAIN s /\ j + 1 # k
      BY <1>0, <2>2
    <3>2. t[j] = s[j + 1]
      BY <1>0, <1>2, <1>4, <2>2, <3>1
    <3> QED
      BY <2>2, <3>1, <3>2
  <2> QED
    BY <2>1, <2>2
<1>7. \A m \in DOMAIN s : m # k => \E j \in DOMAIN t : t[j] = s[m]
  <2> SUFFICES ASSUME NEW m \in 1 .. Len(s), m # k PROVE \E j \in DOMAIN t : t[j] = s[m]
    BY <1>0
  <2>1. CASE m < k
    <3>1. m \in DOMAIN t /\ t[m] = s[m]
      BY <1>0, <1>1, <1>4, <1>5, <2>1
    <3> QED
      BY <3>1
  <2>2. CASE ~(m < k)
    <3>1. m - 1 \in 1 .. Len(s) - 1 /\ ~(m - 1 <= k - 1) /\ (m - 1) - (k - 1) \in 1 .. Len(s) - k /\ k + ((m - 1) - (k - 1)) = m
      BY <1>0, <2>2
    <3>2. t[m - 1] = b[(m - 1) - (k - 1)]
      BY <1>4, <3>1
    <3>3. t[m - 1] = s[m]
      BY <1>2, <3>1, <3>2
    <3> QED
      BY <1>5, <3>1, <3>3
  <2> QED
    BY <2>1, <2>2
<1> QED
  BY <1>4, <1>6, <1>7 DEF t

LEMMA RemoveAtApart ==
  ASSUME NEW E, NEW s \in Seq(E), NEW k \in DOMAIN s, OneEach(s)
  PROVE  OneEach(RemoveAt(s, k))
<1> DEFINE t == RemoveAt(s, k)
           from(j) == IF j < k THEN j ELSE j + 1
<1>1. t \in Seq(E) /\ \A j \in DOMAIN t : from(j) \in DOMAIN s /\ t[j] = s[from(j)]
  <2>1. /\ t \in Seq(E)
        /\ \A j \in DOMAIN t : \E m \in DOMAIN s : m # k /\ m = from(j) /\ t[j] = s[m]
    BY RemoveAtIs
  <2> HIDE DEF t, from
  <2> QED
    BY <2>1
<1>2. k \in Nat /\ DOMAIN t = 1 .. Len(t) /\ Len(t) \in Nat
  <2>1. Len(s) \in Nat /\ DOMAIN s = 1 .. Len(s)
    BY LenProperties
  <2>2. DOMAIN t = 1 .. Len(t) /\ Len(t) \in Nat
    BY <1>1, LenProperties
  <2> HIDE DEF t
  <2> QED
    BY <2>1, <2>2
<1> HIDE DEF t
<1>3. ASSUME NEW j \in DOMAIN t, NEW m \in DOMAIN t, t[j].i = t[m].i PROVE j = m
  <2>1. from(j) = from(m)
    BY <1>1, <1>3 DEF OneEach
  <2> QED
    BY <1>2, <2>1
<1> QED
  BY <1>3 DEF OneEach, t

\* A model after a use.
FedBy(s, i, w, dates) == (UNION {s[k].fed : k \in {m \in DOMAIN s : s[m].i = i /\ s[m].w = w}}) \union dates
Entry(s, i, w, dates) == [i |-> i, w |-> w, fed |-> FedBy(s, i, w, dates)]

\* What a use does to the resident models: the model used is there, with its dates; the others are some
\* that were there, with all of them that carry state.
UsedFrom(s, t, i, fresh) ==
  /\ \A j \in DOMAIN t : t[j] = fresh \/ \E m \in DOMAIN s : t[j] = s[m] /\ s[m].i # i
  /\ \A m \in DOMAIN s : s[m].i # i /\ Stateful(s[m].i) => \E j \in DOMAIN t : t[j] = s[m]
  /\ \E j \in DOMAIN t : t[j] = fresh

LEMMA UsedIs ==
  ASSUME NEW E, NEW s \in Seq(E), OneEach(s), NEW i, NEW w, NEW dates, Used(s, i, w, dates) # None,
         Entry(s, i, w, dates) \in E
  PROVE  /\ Used(s, i, w, dates) \in Seq(E) /\ OneEach(Used(s, i, w, dates))
         /\ UsedFrom(s, Used(s, i, w, dates), i, Entry(s, i, w, dates))
<1> DEFINE t == Used(s, i, w, dates)
           fresh == Entry(s, i, w, dates)
<1> DEFINE mine == {k \in DOMAIN s : s[k].i = i}
           hits == {k \in mine : s[k].w = w}
           others == IF mine = {} THEN s ELSE RemoveAt(s, Min(mine))
           evictable == {k \in DOMAIN others : Safe(proc.group[others[k].i])}
           kept == IF Len(others) < MaxResident THEN others ELSE RemoveAt(others, Min(evictable))
           rest == IF hits # {} THEN others ELSE kept
<1>0. Len(s) \in Nat /\ DOMAIN s = 1 .. Len(s)
  BY LenProperties
<1>1. /\ others \in Seq(E) /\ OneEach(others)
      /\ \A j \in DOMAIN others : \E m \in DOMAIN s : others[j] = s[m] /\ s[m].i # i
      /\ \A m \in DOMAIN s : s[m].i # i => \E j \in DOMAIN others : others[j] = s[m]
  <2>1. CASE mine = {}
    BY <2>1
  <2>2. CASE mine # {}
    <3> DEFINE k == Min(mine)
    <3>1. k \in mine
      <4>1. mine \subseteq Nat
        BY <1>0
      <4> QED
        BY <2>2, <4>1, LeastOf
    <3>2. others = RemoveAt(s, k) /\ k \in DOMAIN s /\ s[k].i = i
      BY <2>2, <3>1
    <3> HIDE DEF k, others, mine
    <3>3. \A m \in DOMAIN s : s[m].i # i <=> m # k
      BY <3>2 DEF OneEach
    <3>4. others \in Seq(E) /\ OneEach(others)
      BY <3>2, RemoveAtIs, RemoveAtApart
    <3>5. /\ \A j \in DOMAIN others : \E m \in DOMAIN s : m # k /\ others[j] = s[m]
          /\ \A m \in DOMAIN s : m # k => \E j \in DOMAIN others : others[j] = s[m]
      BY <3>2, RemoveAtIs
    <3> QED
      BY <3>3, <3>4, <3>5
  <2> QED
    BY <2>1, <2>2
<1>2. t = Append(rest, fresh) /\ (hits = {} /\ ~(Len(others) < MaxResident) => evictable # {})
  <2>1. t = IF hits = {} /\ Len(others) >= MaxResident /\ evictable = {} THEN None ELSE Append(rest, fresh)
    <3>1. {m \in DOMAIN s : s[m].i = i /\ s[m].w = w} = hits
      OBVIOUS
    <3>2. fresh = [i |-> i, w |-> w, fed |-> (UNION {s[k].fed : k \in hits}) \union dates]
      BY <3>1 DEF FedBy, Entry
    <3>3. t = IF hits = {} /\ Len(others) >= MaxResident /\ evictable = {} THEN None
              ELSE Append(rest, [i |-> i, w |-> w, fed |-> (UNION {s[k].fed : k \in hits}) \union dates])
      BY DEF Used
    <3> HIDE DEF hits, others, evictable, rest
    <3> QED
      BY <3>2, <3>3
  <2>2. Len(others) \in Nat /\ MaxResident \in Nat
    BY <1>1, LenProperties, GroupAssumption
  <2> HIDE DEF hits, others, evictable, rest
  <2> QED
    BY <2>1, <2>2
<1>3. /\ rest \in Seq(E) /\ OneEach(rest)
      /\ \A j \in DOMAIN rest : \E m \in DOMAIN others : rest[j] = others[m]
      /\ \A m \in DOMAIN others : Stateful(others[m].i) => \E j \in DOMAIN rest : rest[j] = others[m]
  <2>1. CASE rest = others
    <3> HIDE DEF rest, others
    <3> QED
      BY <1>1, <2>1
  <2>2. CASE rest # others
    <3>1. hits = {} /\ ~(Len(others) < MaxResident)
      BY <2>2
    <3> DEFINE k == Min(evictable)
    <3>2. k \in evictable
      <4>1. evictable \subseteq Nat
        <5>1. DOMAIN others = 1 .. Len(others) /\ Len(others) \in Nat
          BY <1>1, LenProperties
        <5> HIDE DEF others
        <5> QED
          BY <5>1
      <4>2. evictable # {}
        BY <1>2, <3>1
      <4> HIDE DEF evictable
      <4> QED
        BY <4>1, <4>2, LeastOf
    <3>3. rest = RemoveAt(others, k)
      BY <3>1
    <3>4. k \in DOMAIN others /\ ~Stateful(others[k].i)
      <4> HIDE DEF k, others
      <4> QED
        BY <3>2 DEF Stateful
    <3> HIDE DEF k, others, rest
    <3>5. rest \in Seq(E) /\ OneEach(rest)
      BY <1>1, <3>3, <3>4, RemoveAtIs, RemoveAtApart
    <3>6. /\ \A j \in DOMAIN rest : \E m \in DOMAIN others : m # k /\ rest[j] = others[m]
          /\ \A m \in DOMAIN others : m # k => \E j \in DOMAIN rest : rest[j] = others[m]
      <4>1. others \in Seq(E) /\ k \in DOMAIN others
        BY <1>1, <3>4
      <4> QED
        BY <3>3, <4>1, RemoveAtIs
    <3> QED
      BY <3>4, <3>5, <3>6
  <2> QED
    BY <2>1, <2>2
<1>3a. fresh.i = i /\ fresh \in E
  BY DEF Entry
<1> HIDE DEF rest, others, t, fresh
<1>4. /\ t \in Seq(E) /\ Len(t) = Len(rest) + 1
      /\ \A j \in 1 .. Len(rest) : t[j] = rest[j]
      /\ t[Len(rest) + 1] = fresh /\ Len(rest) \in Nat /\ DOMAIN rest = 1 .. Len(rest)
  <2> QED
    BY <1>2, <1>3, <1>3a, AppendProperties, LenProperties
<1>5. DOMAIN t = 1 .. Len(rest) + 1
  BY <1>4, LenProperties
<1>6. \A j \in DOMAIN rest : rest[j].i # i /\ \E m \in DOMAIN s : rest[j] = s[m] /\ s[m].i # i
  BY <1>1, <1>3
<1>7. fresh.i = i
  BY <1>3a
<1>8. OneEach(t)
  <2> SUFFICES ASSUME NEW j \in 1 .. Len(rest) + 1, NEW k \in 1 .. Len(rest) + 1, t[j].i = t[k].i PROVE j = k
    BY <1>5 DEF OneEach
  <2>1. CASE j \in 1 .. Len(rest) /\ k \in 1 .. Len(rest)
    BY <1>3, <1>4, <2>1 DEF OneEach
  <2>2. CASE j = Len(rest) + 1 \/ k = Len(rest) + 1
    <3>1. \A m \in 1 .. Len(rest) : t[m].i # i
      BY <1>4, <1>6
    <3>2. t[Len(rest) + 1].i = i
      BY <1>4, <1>7
    <3>3. \A m \in 1 .. Len(rest) + 1 : m # Len(rest) + 1 => m \in 1 .. Len(rest)
      BY <1>4
    <3> QED
      BY <2>2, <3>1, <3>2, <3>3
  <2>3. \A m \in 1 .. Len(rest) + 1 : m # Len(rest) + 1 => m \in 1 .. Len(rest)
    BY <1>4
  <2> QED
    BY <2>1, <2>2, <2>3
<1>9. \A j \in DOMAIN t : t[j] = fresh \/ \E m \in DOMAIN s : t[j] = s[m] /\ s[m].i # i
  <2>1. \A j \in 1 .. Len(rest) + 1 : j # Len(rest) + 1 => j \in 1 .. Len(rest)
    BY <1>4
  <2> QED
    BY <1>4, <1>5, <1>6, <2>1
<1>10. \A m \in DOMAIN s : s[m].i # i /\ Stateful(s[m].i) => \E j \in DOMAIN t : t[j] = s[m]
  <2> SUFFICES ASSUME NEW m \in DOMAIN s, s[m].i # i, Stateful(s[m].i) PROVE \E j \in DOMAIN t : t[j] = s[m]
    OBVIOUS
  <2>1. PICK k \in DOMAIN others : others[k] = s[m]
    BY <1>1
  <2>2. PICK j \in DOMAIN rest : rest[j] = s[m]
    BY <1>3, <2>1
  <2>3. j \in DOMAIN t /\ t[j] = s[m]
    BY <1>4, <1>5, <2>2
  <2> QED
    BY <2>3
<1>11. \E j \in DOMAIN t : t[j] = fresh
  <2>1. Len(rest) + 1 \in DOMAIN t
    BY <1>4, <1>5
  <2> QED
    BY <1>4, <2>1
<1> QED
  BY <1>4, <1>8, <1>9, <1>10, <1>11 DEF UsedFrom, t, fresh

-----------------------------------------------------------------------------
(* The steps of a grouped prediction.                                       *)

\* Without residents, units before or a unit under way there is nothing to say but what is asked.
LEMMA StartInOrder == ASSUME NEW group \in Groups, StartGrouped(group) PROVE OrderOk'
<1>1. PICK owned \in Shards(group) : proc' = GroupedTask(group, owned, Units(group, owned))
  BY DEF StartGrouped, Start
<1> DEFINE units == Units(group, owned)
           computed(i) == UNION {u.dates : u \in {v \in units : v.i = i}}
           uncovered == UNION {{<<i, d>> : d \in (Predicts[group[i]] \intersect owned) \ computed(i)} : i \in DOMAIN group}
           pending == [p \in uncovered |-> Value(group[p[1]], p[2], None)]
<1>2. proc' = [prog |-> "grouped", group |-> group, dates |-> owned, units |-> units, wave |-> {},
               resident |-> <<>>, flush |-> units = {}, pending |-> pending]
  BY <1>1 DEF GroupedTask
<1> HIDE DEF pending
<1>3. /\ proc'.group = group /\ proc'.dates = owned /\ proc'.units = Units(group, owned) /\ proc'.wave = {}
      /\ proc'.resident = <<>>
      /\ proc' = [prog |-> "grouped", group |-> proc'.group, dates |-> proc'.dates, units |-> proc'.units,
                  wave |-> proc'.wave, resident |-> proc'.resident, flush |-> proc'.flush, pending |-> proc'.pending]
  BY <1>2
<1>4. ASSUME NEW i \in DOMAIN group, ~Safe(group[i]) PROVE owned = GroupDates(group)
  <2>1. group[i] \in ToSet(group)
    BY DEF ToSet
  <2> QED
    BY <1>4, <2>1 DEF Shards
<1>5. (\E i \in DOMAIN proc'.group : Stateful(i)') => proc'.dates = GroupDates(proc'.group)
  BY <1>3, <1>4 DEF Stateful
<1>6. Waiting' = Units(group, owned) /\ Past' = {}
  BY <1>3 DEF Waiting, Past
<1>7. InOrder'
  BY <1>3, <1>6 DEF InOrder
<1>8. DOMAIN proc'.resident = {} /\ proc'.resident \in Seq(Entries(proc'.group))
  BY <1>3, EmptySeq
<1>9. \A i, w : Given(i, w)' = {}
  BY <1>6 DEF Given
<1>10. ResidentsOk'
  BY <1>8, <1>9 DEF ResidentsOk, OneEach, Loaded
<1> QED
  BY <1>3, <1>5, <1>7, <1>10 DEF OrderOk

\* Only what is still to predict or to write changes.
LEMMA OrderKept ==
  ASSUME OrderOk, proc'.group = proc.group, proc'.dates = proc.dates, proc'.resident = proc.resident,
         Waiting' = Waiting, InOrder',
         proc' = [prog |-> "grouped", group |-> proc'.group, dates |-> proc'.dates, units |-> proc'.units,
                  wave |-> proc'.wave, resident |-> proc'.resident, flush |-> proc'.flush, pending |-> proc'.pending]
  PROVE  OrderOk'
<1>1. Past' = Past
  BY DEF Past
<1>2. \A i, w : Given(i, w)' = Given(i, w)
  BY <1>1 DEF Given
<1>3. \A i : Stateful(i)' <=> Stateful(i)
  BY DEF Stateful
<1>4. ResidentsOk
  BY DEF OrderOk
<1>5. ResidentsOk'
  <2>1. \A r : Fed(r)' <=> Fed(r)
    BY <1>2, <1>3 DEF Fed
  <2>2. \A v : Loaded(v)' <=> Loaded(v)
    BY <1>2, <1>3 DEF Loaded
  <2> QED
    BY <1>4, <2>1, <2>2 DEF ResidentsOk
<1>6. proc'.group \in Groups /\ ((\E i \in DOMAIN proc'.group : Stateful(i)') => proc'.dates = GroupDates(proc'.group))
  BY <1>3 DEF OrderOk
<1> QED
  BY <1>5, <1>6 DEF OrderOk

LEMMA FlushInOrder == ASSUME OrderOk, NEW d \in OutputDates, Flush(d) PROVE OrderOk'
<1> DEFINE pending == [p \in {q \in DOMAIN proc.pending : q[2] # d} |-> proc.pending[p]]
<1>1. proc' = [proc EXCEPT !.pending = pending]
  BY DEF Flush
<1> HIDE DEF pending
<1>2. proc.prog = "grouped"
  BY DEF Flush, Running
<1>3. proc' = [prog |-> "grouped", group |-> proc.group, dates |-> proc.dates, units |-> proc.units, wave |-> proc.wave,
               resident |-> proc.resident, flush |-> proc.flush, pending |-> pending]
  BY <1>1, <1>2 DEF OrderOk
<1>4. /\ proc'.group = proc.group /\ proc'.dates = proc.dates /\ proc'.resident = proc.resident
      /\ proc'.units = proc.units /\ proc'.wave = proc.wave
      /\ proc' = [prog |-> "grouped", group |-> proc'.group, dates |-> proc'.dates, units |-> proc'.units,
                  wave |-> proc'.wave, resident |-> proc'.resident, flush |-> proc'.flush, pending |-> proc'.pending]
  BY <1>3
<1>5. Waiting' = Waiting /\ Past' = Past
  BY <1>4 DEF Waiting, Past
<1>6. InOrder'
  BY <1>4, <1>5 DEF OrderOk, InOrder
<1> QED
  BY <1>4, <1>5, <1>6, OrderKept

\* A wave is of the units with the earliest last date.
LEMMA BeginWaveInOrder == ASSUME OrderOk, BeginWave PROVE OrderOk'
<1>1. PICK u \in proc.units :
        /\ ~ \E v \in proc.units : Earlier(v, u)
        /\ proc' = [proc EXCEPT !.wave = {v \in proc.units : v.dates = u.dates},
                                !.units = @ \ {v \in proc.units : v.dates = u.dates}, !.flush = FALSE]
  BY DEF BeginWave
<1> DEFINE wave == {v \in proc.units : v.dates = u.dates}
           units == proc.units \ wave
           ready == FALSE
<1>2. proc' = [proc EXCEPT !.wave = wave, !.units = units, !.flush = ready]
  BY <1>1
<1>3. proc.wave = {} /\ proc.units = units \union wave /\ units \intersect wave = {}
  BY DEF BeginWave
<1>4. \A v \in wave : v \in proc.units /\ v.dates = u.dates
  OBVIOUS
<1> HIDE DEF wave, units, ready
<1>5. proc' = [prog |-> "grouped", group |-> proc.group, dates |-> proc.dates, units |-> units, wave |-> wave,
               resident |-> proc.resident, flush |-> ready, pending |-> proc.pending]
  <2>1. proc.prog = "grouped"
    BY DEF BeginWave, Running
  <2> QED
    BY <1>2, <2>1 DEF OrderOk
<1>6. /\ proc'.group = proc.group /\ proc'.dates = proc.dates /\ proc'.resident = proc.resident
      /\ proc'.units = units /\ proc'.wave = wave
      /\ proc' = [prog |-> "grouped", group |-> proc'.group, dates |-> proc'.dates, units |-> proc'.units,
                  wave |-> proc'.wave, resident |-> proc'.resident, flush |-> proc'.flush, pending |-> proc'.pending]
  BY <1>5
<1>7. Waiting' = Waiting /\ Waiting = proc.units
  BY <1>3, <1>6 DEF Waiting
<1>8. Past' = Past
  BY <1>6, <1>7 DEF Past
<1>9. proc.group \in Groups /\ proc.units \subseteq Units(proc.group, proc.dates)
  BY <1>7 DEF OrderOk, InOrder
<1>10. ASSUME NEW v \in proc.units PROVE Max(u.dates) <= Max(v.dates)
  <2>1. ~(Max(v.dates) < Max(u.dates))
    BY <1>1 DEF Earlier
  <2>2. Max(v.dates) \in Nat /\ Max(u.dates) \in Nat
    BY <1>9, UnitIs
  <2> QED
    BY <2>1, <2>2
<1>11. \A x \in Past \union wave, v \in Waiting : Max(x.dates) <= Max(v.dates)
  BY <1>4, <1>7, <1>10 DEF OrderOk, InOrder
<1>12. InOrder'
  BY <1>3, <1>6, <1>7, <1>8, <1>9, <1>11 DEF InOrder
<1> QED
  BY <1>6, <1>7, <1>12, OrderKept

\* A window's model is used for its batches in their order, and when it goes for the model of another
\* window it is not used again.
LEMMA InferInOrder ==
  ASSUME OrderOk, Running("grouped"), NEW u \in proc.wave, Infer(u)
  PROVE  OrderOk'
<1> DEFINE group == proc.group
           c == group[u.i]
           held == model[Path(c, u.w)]
           scores == [p \in {u.i} \X (u.dates \intersect proc.dates) |-> Value(c, p[2], held)]
           pending == [p \in DOMAIN proc.pending \union DOMAIN scores |->
                         IF p \in DOMAIN scores THEN scores[p] ELSE proc.pending[p]]
           next == IF HasRows(u.dates) THEN Used(proc.resident, u.i, u.w, u.dates) ELSE proc.resident
<1>1. proc' = [prog |-> "grouped", group |-> proc.group, dates |-> proc.dates, units |-> proc.units,
               wave |-> proc.wave \ {u}, resident |-> next, flush |-> (proc.wave = {u}), pending |-> pending]
  <2>1. proc' = [proc EXCEPT !.wave = @ \ {u}, !.flush = (proc.wave = {u}), !.resident = next,
                             !.pending = [p \in DOMAIN @ \union DOMAIN scores |->
                                            IF p \in DOMAIN scores THEN scores[p] ELSE @[p]]]
    BY DEF Infer
  <2> HIDE DEF scores, next
  <2>2. proc.prog = "grouped"
    BY DEF Running
  <2> QED
    BY <2>1, <2>2 DEF OrderOk
<1>2. next # None
  BY DEF Infer
<1> HIDE DEF pending, next
<1>3. /\ proc'.group = group /\ proc'.dates = proc.dates /\ proc'.units = proc.units
      /\ proc'.wave = proc.wave \ {u} /\ proc'.resident = next
      /\ proc' = [prog |-> "grouped", group |-> proc'.group, dates |-> proc'.dates, units |-> proc'.units,
                  wave |-> proc'.wave, resident |-> proc'.resident, flush |-> proc'.flush, pending |-> proc'.pending]
  BY <1>1
<1>4. /\ group \in Groups /\ InOrder /\ ResidentsOk
      /\ (\E i \in DOMAIN group : Stateful(i)) => proc.dates = GroupDates(group)
  BY DEF OrderOk
<1> HIDE DEF group
<1>5. u \in Waiting /\ u \in Units(group, proc.dates) /\ Waiting \subseteq Units(group, proc.dates)
  BY <1>4 DEF InOrder, Waiting, group
<1>6. Waiting' = Waiting \ {u}
  BY <1>3, <1>4 DEF InOrder, Waiting
<1>7. Past' = Past \union {u}
  BY <1>3, <1>5, <1>6 DEF Past, group
<1>8. InOrder'
  <2>1. \A x \in Past' \union proc'.wave : x \in Past \union proc.wave
    BY <1>3, <1>7
  <2>2. \A x \in Past' \union proc'.wave, v \in Waiting' : Max(x.dates) <= Max(v.dates)
    BY <1>4, <1>6, <2>1 DEF InOrder
  <2>3. Waiting' \subseteq Units(proc'.group, proc'.dates)
    BY <1>3, <1>5, <1>6
  <2>4. proc'.units \intersect proc'.wave = {}
    BY <1>3, <1>4 DEF InOrder
  <2> QED
    BY <2>2, <2>3, <2>4 DEF InOrder
<1>9. \A i : Stateful(i)' <=> Stateful(i)
  BY <1>3 DEF Stateful, group
<1>10. \A i, w : i # u.i \/ w # u.w \/ ~HasRows(u.dates) => Given(i, w)' = Given(i, w)
  BY <1>7 DEF Given
<1>11. HasRows(u.dates) => Given(u.i, u.w)' = Given(u.i, u.w) \union {u}
  BY <1>7 DEF Given
<1>12. CASE ~HasRows(u.dates)
  <2>1. next = proc.resident
    BY <1>12 DEF next
  <2>2. \A r : Fed(r)' <=> Fed(r)
    BY <1>9, <1>10, <1>12 DEF Fed
  <2>3. \A v : Loaded(v)' <=> Loaded(v)
    BY <1>3, <1>9, <1>10, <1>12, <2>1 DEF Loaded
  <2>4. ResidentsOk'
    BY <1>3, <1>4, <1>6, <2>1, <2>2, <2>3 DEF ResidentsOk, group
  <2> QED
    BY <1>3, <1>4, <1>8, <1>9, <2>4 DEF OrderOk
<1>13. CASE HasRows(u.dates)
  <2> DEFINE s == proc.resident
             t == proc'.resident
             hits == {m \in DOMAIN s : s[m].i = u.i /\ s[m].w = u.w}
             fresh == Entry(s, u.i, u.w, u.dates)
  <2>1. s \in Seq(Entries(group)) /\ OneEach(s) /\ t = Used(s, u.i, u.w, u.dates) /\ t # None
    BY <1>2, <1>3, <1>4, <1>13 DEF ResidentsOk, next, group
  <2>3. /\ u.i \in DOMAIN group /\ group[u.i] \in DOMAIN Configs /\ u.w \in Plan[group[u.i]]
        /\ u.dates \subseteq u.w.predict /\ u.dates \subseteq Nat /\ Max(u.dates) \in u.dates
    BY <1>4, <1>5, UnitIs
  <2>4. \A k \in DOMAIN s : s[k] \in Entries(group)
    <3> HIDE DEF s
    <3> QED
      BY <2>1, ElementOfSeq
  <2>5. fresh \in Entries(group)
    <3>1. FedBy(s, u.i, u.w, u.dates) \in SUBSET Nat
      <4>1. \A k \in hits : s[k].fed \subseteq Nat
        BY <2>4 DEF Entries
      <4>2. FedBy(s, u.i, u.w, u.dates) = (UNION {s[k].fed : k \in hits}) \union u.dates
        BY DEF FedBy
      <4> HIDE DEF s, hits
      <4> QED
        BY <2>3, <4>1, <4>2
    <3> HIDE DEF hits, s
    <3> QED
      BY <2>3, <3>1 DEF Entries, Entry
  <2>6. t \in Seq(Entries(group)) /\ OneEach(t) /\ UsedFrom(s, t, u.i, fresh)
    <3> HIDE DEF s
    <3> QED
      BY <2>1, <2>5, UsedIs
  <2>7. fresh.i = u.i /\ fresh.w = u.w /\ fresh.fed = (UNION {s[k].fed : k \in hits}) \union u.dates
    BY DEF FedBy, Entry
  <2>8. /\ \A k \in DOMAIN s : Fed(s[k])
        /\ \A v \in Waiting : Loaded(v)
    BY <1>4 DEF ResidentsOk
  <2>9. ASSUME Stateful(u.i) PROVE fresh.fed = UNION {x.dates : x \in Given(u.i, u.w)'}
    <3>1. CASE hits = {}
      <4>1. Given(u.i, u.w) = {}
        BY <1>5, <2>8, <2>9, <3>1 DEF Loaded
      <4>2. Given(u.i, u.w)' = {u}
        BY <1>11, <1>13, <4>1
      <4> HIDE DEF fresh, hits
      <4> QED
        BY <2>7, <3>1, <4>2
    <3>2. CASE hits # {}
      <4>1. PICK k \in hits : TRUE
        BY <3>2
      <4>2. hits = {k}
        BY <2>1, <4>1 DEF OneEach
      <4>3. s[k].fed = UNION {x.dates : x \in Given(u.i, u.w)}
        BY <2>8, <2>9, <4>1 DEF Fed
      <4> HIDE DEF fresh, hits, s
      <4>4. fresh.fed = s[k].fed \union u.dates
        BY <2>7, <4>2
      <4> QED
        BY <1>11, <1>13, <4>3, <4>4
    <3> QED
      BY <3>1, <3>2
  <2>10. \A r : r = fresh => Fed(r)'
    <3>1. Given(u.i, u.w)' # {}
      BY <1>11, <1>13
    <3>2. Stateful(u.i) => fresh.fed = UNION {x.dates : x \in Given(u.i, u.w)'}
      BY <2>9
    <3>3. \A r : r.i = u.i /\ r.w = u.w /\ (Stateful(u.i) => r.fed = UNION {x.dates : x \in Given(u.i, u.w)'}) => Fed(r)'
      BY <1>9, <3>1 DEF Fed
    <3> HIDE DEF fresh
    <3> QED
      BY <2>7, <3>2, <3>3
  <2>11. \A r : r.i # u.i /\ Fed(r) => Fed(r)'
    BY <1>9, <1>10 DEF Fed
  <2>12. ASSUME NEW v \in Waiting', Stateful(v.i), Given(v.i, v.w)' # {}
         PROVE  \E j \in DOMAIN t : t[j].i = v.i /\ t[j].w = v.w
    <3> HIDE DEF s, t, fresh, hits
    <3>1. CASE v.i = u.i /\ v.w = u.w
      BY <2>6, <2>7, <3>1 DEF UsedFrom
    <3>2. CASE v.i # u.i
      <4>1. Given(v.i, v.w) # {} /\ v \in Waiting
        BY <1>6, <1>10, <2>12, <3>2
      <4>2. PICK k \in DOMAIN s : s[k].i = v.i /\ s[k].w = v.w
        BY <2>8, <2>12, <4>1 DEF Loaded, s
      <4>3. PICK j \in DOMAIN t : t[j] = s[k]
        BY <2>6, <2>12, <3>2, <4>2 DEF UsedFrom
      <4> QED
        BY <4>2, <4>3
    <3>3. CASE v.i = u.i /\ v.w # u.w
      <4>1. Given(v.i, v.w)' = Given(v.i, v.w) /\ v \in Waiting
        BY <1>6, <1>10, <3>3
      <4>2. PICK x \in Past : x.i = u.i /\ x.w = v.w
        BY <2>12, <3>3, <4>1 DEF Given
      <4>3. x \in Units(group, proc.dates) /\ v \in Units(group, proc.dates)
        BY <1>5, <4>1, <4>2 DEF Past, group
      <4>4. /\ v.w \in Plan[group[u.i]] /\ v.dates \subseteq v.w.predict /\ Max(v.dates) \in v.dates
            /\ v.dates \subseteq Nat
        BY <1>4, <3>3, <4>3, UnitIs
      <4>5. x.dates \subseteq v.w.predict /\ Max(x.dates) \in x.dates /\ x.dates \subseteq Nat
        BY <1>4, <4>2, <4>3, UnitIs
      <4>6. Max(u.dates) <= Max(v.dates) /\ Max(x.dates) <= Max(u.dates)
        BY <1>4, <1>5, <4>1, <4>2 DEF InOrder
      <4>7. InTurn(v.w, u.w)
        BY <2>3, <3>3, <4>4, PlanTurns
      <4>8. Max(v.dates) \in v.w.predict /\ Max(x.dates) \in v.w.predict /\ Max(u.dates) \in u.w.predict
        BY <2>3, <4>4, <4>5
      <4>9. Max(v.dates) < Max(u.dates) \/ Max(u.dates) < Max(x.dates)
        BY <4>7, <4>8 DEF InTurn
      <4>10. Max(v.dates) \in Nat /\ Max(x.dates) \in Nat /\ Max(u.dates) \in Nat
        BY <2>3, <4>4, <4>5
      <4> QED
        BY <4>6, <4>9, <4>10
    <3> QED
      BY <3>1, <3>2, <3>3
  <2>13. \A j \in DOMAIN t : \A r : r = t[j] => Fed(r)'
    <3> SUFFICES ASSUME NEW j \in DOMAIN t, NEW r, r = t[j] PROVE Fed(r)'
      OBVIOUS
    <3>1. CASE r = fresh
      BY <2>10, <3>1
    <3>2. CASE r # fresh
      <4>1. PICK m \in DOMAIN s : r = s[m] /\ s[m].i # u.i
        BY <2>6, <3>2 DEF UsedFrom
      <4>2. Fed(s[m])
        BY <2>8
      <4>3. Fed(r)
        BY <4>1, <4>2
      <4> QED
        BY <2>11, <4>1, <4>3
    <3> QED
      BY <3>1, <3>2
  <2>14. \A v \in Waiting' : Loaded(v)'
    BY <1>9, <2>12 DEF Loaded
  <2>15. ResidentsOk'
    BY <1>3, <2>6, <2>13, <2>14 DEF ResidentsOk
  <2> QED
    BY <1>3, <1>4, <1>8, <1>9, <2>15 DEF OrderOk
<1> QED
  BY <1>12, <1>13

\* A model that carries state has been fed its window's batches up to the last one it was given.
LEMMA FedInOrder == ASSUME OrderOk PROVE StatefulInOrder
<1> SUFFICES ASSUME NEW k \in DOMAIN proc.resident, ~Safe(proc.group[proc.resident[k].i])
             PROVE  proc.resident[k].fed =
                      {d \in UNION {b \in Pieces(proc.resident[k].w.predict, Configs[proc.group[proc.resident[k].i]].batch) : HasRows(b)} :
                         d <= Max(proc.resident[k].fed)}
  BY DEF StatefulInOrder
<1> DEFINE r == proc.resident[k]
           c == proc.group[r.i]
           batches == Pieces(r.w.predict, Configs[c].batch)
           group == proc.group
           fed == r.fed
<1>1. /\ group \in Groups /\ InOrder /\ Fed(r) /\ proc.resident \in Seq(Entries(group))
      /\ (\E i \in DOMAIN group : Stateful(i)) => proc.dates = GroupDates(group)
  BY DEF OrderOk, ResidentsOk
<1>2. r \in Entries(group)
  BY <1>1, ElementOfSeq
<1>3. r.i \in DOMAIN group /\ Stateful(r.i)
  BY <1>2 DEF Entries, Stateful
<1>4. fed = UNION {u.dates : u \in Given(r.i, r.w)} /\ Given(r.i, r.w) # {}
  BY <1>1, <1>3 DEF Fed
<1>5. proc.dates = GroupDates(group) /\ c \in DOMAIN Configs
  BY <1>1, <1>3, GroupFacts
<1> HIDE DEF r, fed, group
<1>6. \A u \in Given(r.i, r.w) : u \in Past /\ u \in Units(group, proc.dates) /\ u.i = r.i /\ u.w = r.w /\ HasRows(u.dates)
  BY DEF Given, Past, group
<1>7. \A u \in Given(r.i, r.w) :
        r.w \in Plan[c] /\ u.dates \in batches /\ u.dates \subseteq r.w.predict /\ Max(u.dates) \in u.dates
  BY <1>1, <1>6, UnitIs DEF group
<1>8. r.w \in Plan[c] /\ r.w.predict \subseteq Nat /\ IsFiniteSet(r.w.predict)
  <2>1. r.w \in Plan[c]
    BY <1>4, <1>7
  <2> QED
    BY <1>5, <2>1, PlanTurns
<1>9. fed \subseteq r.w.predict /\ fed # {}
  BY <1>4, <1>7
<1>10. Max(fed) \in fed /\ \A d \in fed : d <= Max(fed)
  <2>1. fed \subseteq Nat /\ IsFiniteSet(fed)
    BY <1>8, <1>9, FS_Subset
  <2> QED
    BY <1>9, <2>1, GreatestNatural
<1>11. ASSUME NEW d \in fed PROVE d \in UNION {b \in batches : HasRows(b)} /\ d <= Max(fed)
  BY <1>4, <1>6, <1>7, <1>10
<1>12. ASSUME NEW b \in batches, HasRows(b), NEW d \in b, d <= Max(fed) PROVE d \in fed
  <2> DEFINE x == [i |-> r.i, w |-> r.w, dates |-> b]
  <2>1. b \subseteq r.w.predict
    BY DEF Pieces
  <2>2. d \in proc.dates
    <3>1. r.w.predict \subseteq Predicts[c]
      BY <1>5, <1>8, PlanFacts
    <3>2. c \in ToSet(group)
      BY <1>3 DEF ToSet, group
    <3> QED
      BY <1>5, <2>1, <3>1, <3>2 DEF GroupDates
  <2>3. x \in Units(group, proc.dates) /\ x.i = r.i /\ x.w = r.w /\ x.dates = b
    <3>1. b \intersect proc.dates # {}
      BY <1>12, <2>2
    <3>2. x \in {[i |-> r.i, w |-> r.w, dates |-> e] : e \in {e \in Pieces(r.w.predict, Configs[group[r.i]].batch) : e \intersect proc.dates # {}}}
      BY <3>1 DEF group
    <3>3. r.w \in Plan[group[r.i]]
      BY <1>8 DEF group
    <3>4. x \in UNION {{[i |-> r.i, w |-> w, dates |-> e] : e \in {e \in Pieces(w.predict, Configs[group[r.i]].batch) : e \intersect proc.dates # {}}}
                         : w \in Plan[group[r.i]]}
      BY <3>2, <3>3
    <3> HIDE DEF x, batches
    <3>5. x \in Units(group, proc.dates)
      BY <1>3, <3>4 DEF Units
    <3> QED
      BY <3>5 DEF x
  <2> HIDE DEF x
  <2>4. CASE x \in Past
    <3>1. x \in Given(r.i, r.w)
      BY <1>12, <2>3, <2>4 DEF Given
    <3> QED
      BY <1>4, <1>12, <2>3, <3>1
  <2>5. CASE x \notin Past
    <3>1. x \in Waiting
      BY <2>3, <2>5 DEF Past, group
    <3>2. PICK u \in Given(r.i, r.w) : Max(fed) \in u.dates
      BY <1>4, <1>10
    <3>3. Max(u.dates) <= Max(x.dates) /\ u \in Past
      BY <1>1, <1>6, <3>1, <3>2 DEF InOrder
    <3>4. u \in Units(group, proc.dates) /\ u # x /\ u.i = x.i /\ Max(u.dates) \in u.dates
      BY <1>6, <1>7, <2>3, <2>5, <3>2, <3>3
    <3>5. Max(x.dates) \in x.dates /\ x.dates \subseteq Nat /\ u.dates \subseteq Nat
      BY <1>1, <2>3, <3>4, UnitIs
    <3>6. CASE \A e \in u.dates, f \in x.dates : e < f
      <4>1. Max(fed) < d
        BY <1>12, <2>3, <3>2, <3>6
      <4>2. Max(fed) \in Nat /\ d \in Nat
        BY <1>12, <2>3, <3>2, <3>5
      <4> QED
        BY <1>12, <4>1, <4>2
    <3>7. CASE \A e \in u.dates, f \in x.dates : f < e
      <4>1. Max(x.dates) < Max(u.dates)
        BY <3>4, <3>5, <3>7
      <4>2. Max(x.dates) \in Nat /\ Max(u.dates) \in Nat
        BY <3>4, <3>5
      <4> QED
        BY <3>3, <4>1, <4>2
    <3>8. (\A e \in u.dates, f \in x.dates : e < f) \/ (\A e \in u.dates, f \in x.dates : f < e)
      BY <1>1, <2>3, <3>4, UnitsApart
    <3> QED
      BY <3>6, <3>7, <3>8
  <2> QED
    BY <2>4, <2>5
<1>13. fed = {d \in UNION {b \in batches : HasRows(b)} : d <= Max(fed)}
  <2> HIDE DEF batches
  <2> QED
    BY <1>11, <1>12
<1> QED
  BY <1>13 DEF r, fed

OrderInv == Running("grouped") => OrderOk

\* Only a grouped prediction makes one.
LEMMA NotGrouped ==
  ASSUME RInv, ArtifactsNext \/ MetadataNext \/ ShowPlan \/ Stop \/ FinishGrouped
  PROVE  ~Running("grouped")'
<1>1. "prog" \in DOMAIN proc
  BY DEF RInv
<1>2. ASSUME NEW c \in DOMAIN Configs,
             \/ \E resume \in BOOLEAN : StartRun(c, resume)
             \/ \E resume \in BOOLEAN, windows \in SUBSET Plan[c] : StartTrain(c, resume, windows)
             \/ StartPredict(c)
      PROVE  ~Running("grouped")'
  <2>1. PICK prog \in {"run", "train", "predict"} : \E resume, windows : proc' = Local(prog, c, resume, windows)
    BY <1>2 DEF StartRun, StartTrain, StartPredict, Start
  <2> QED
    BY <2>1 DEF Local, Running
<1>3. ASSUME SkipWindow \/ LoadModel \/ Fit \/ OpenModel \/ SaveModel \/ SaveManifest \/ EndWindow
      PROVE  ~Running("grouped")'
  <2>1. proc.prog \in {"run", "train", "predict"}
    BY <1>3 DEF SkipWindow, LoadModel, Fit, OpenModel, SaveModel, SaveManifest, EndWindow, AtWindow, At
  <2>2. proc'.prog = proc.prog
    BY <1>1, <1>3 DEF SkipWindow, LoadModel, Fit, OpenModel, SaveModel, SaveManifest, EndWindow, NextWindow
  <2> QED
    BY <2>1, <2>2 DEF Running
<1>4. ASSUME NEW d \in OutputDates, PredictWrite(d) \/ Pad(d) PROVE ~Running("grouped")'
  <2>1. proc.prog \in {"run", "train", "predict"}
    BY <1>4 DEF PredictWrite, Pad, At
  <2>2. proc'.prog = proc.prog
    BY <1>1, <1>4 DEF PredictWrite, Pad
  <2> QED
    BY <2>1, <2>2 DEF Running
<1>5. CASE Finish \/ FinishGrouped
  BY <1>5 DEF Finish, FinishGrouped, Running
<1>6. CASE ArtifactsNext
  BY <1>2, <1>3, <1>4, <1>5, <1>6 DEF ArtifactsNext
<1>7. ASSUME NEW ids, StartMlMetadata(ids) \/ StartCodeMetadata(ids) PROVE ~Running("grouped")'
  BY <1>7 DEF StartMlMetadata, StartCodeMetadata, Start, Publication, Running
<1>8. CASE PublishSource \/ PublishNative
  <2>1. proc.prog \in {"ml", "code"} /\ proc'.prog = proc.prog
    BY <1>1, <1>8 DEF PublishSource, PublishNative, Publishing
  <2> QED
    BY <2>1 DEF Running
<1>9. CASE PublishCombined \/ Stop
  BY <1>9 DEF PublishCombined, Stop, Idle, Running
<1>10. CASE ShowPlan
  BY <1>10 DEF ShowPlan, Start, Running
<1> QED
  BY <1>5, <1>6, <1>7, <1>8, <1>9, <1>10 DEF MetadataNext

LEMMA NextInOrder == RInv /\ OrderInv /\ [Next]_mlVars => OrderInv'
<1> SUFFICES ASSUME RInv, OrderInv, [Next]_mlVars PROVE OrderInv'
  OBVIOUS
<1>1. CASE UNCHANGED mlVars
  <2>1. proc' = proc
    BY <1>1 DEF mlVars
  <2>2. Running("grouped")' <=> Running("grouped")
    BY <2>1 DEF Running
  <2>3. OrderOk => OrderOk'
    <3> SUFFICES ASSUME OrderOk PROVE OrderOk'
      OBVIOUS
    <3>1. Waiting' = Waiting /\ Past' = Past
      BY <2>1 DEF Waiting, Past
    <3>2. InOrder'
      BY <2>1, <3>1 DEF OrderOk, InOrder
    <3>3. proc' = [prog |-> "grouped", group |-> proc'.group, dates |-> proc'.dates, units |-> proc'.units,
                  wave |-> proc'.wave, resident |-> proc'.resident, flush |-> proc'.flush, pending |-> proc'.pending]
      BY <2>1 DEF OrderOk
    <3> QED
      BY <2>1, <3>1, <3>2, <3>3, OrderKept
  <2> QED
    BY <2>2, <2>3 DEF OrderInv
<1>2. CASE ArtifactsNext \/ MetadataNext \/ ShowPlan \/ Stop \/ FinishGrouped
  BY <1>2, NotGrouped DEF OrderInv
<1>3. ASSUME NEW group \in Groups, StartGrouped(group) PROVE OrderInv'
  BY <1>3, StartInOrder DEF OrderInv
<1>4. CASE BeginWave
  <2>1. OrderOk
    BY <1>4 DEF BeginWave, OrderInv
  <2> QED
    BY <1>4, <2>1, BeginWaveInOrder DEF OrderInv
<1>5. CASE Running("grouped") /\ \E u \in proc.wave : Infer(u)
  <2>1. OrderOk /\ Running("grouped")
    BY <1>5 DEF OrderInv
  <2> QED
    BY <1>5, <2>1, InferInOrder DEF OrderInv
<1>6. ASSUME NEW d \in OutputDates, Flush(d) PROVE OrderInv'
  <2>1. OrderOk
    BY <1>6 DEF Flush, OrderInv
  <2> QED
    BY <1>6, <2>1, FlushInOrder DEF OrderInv
<1> QED
  BY <1>1, <1>2, <1>3, <1>4, <1>5, <1>6 DEF Next, GroupedNext

\* A model that may not be replayed has been fed all the dates of its window up to the last one, in one
\* session and with none left out, whatever is predicted with it and however many models may be resident
\* (plan_tasks, and the units and _Models of grouped_predict.py).
THEOREM StatesInOrder == Spec => []StatefulInOrder
<1>1. Init => OrderInv
  BY DEF Init, Idle, OrderInv, Running
<1>2. OrderInv => StatefulInOrder
  BY FedInOrder DEF OrderInv, StatefulInOrder
<1> QED
  BY <1>1, <1>2, InitRInv, NextRInv, NextInOrder, PTL DEF Spec
=============================================================================
