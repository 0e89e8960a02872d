------------------------------ MODULE MlPrograms ------------------------------
(***************************************************************************)
(* The programs of the ML pipelines together, over one set of files. The    *)
(* pipelines run as the scheduler started them, with YQ_METADATA_MANAGED:    *)
(* the registry is written by programs of its own.                          *)
(***************************************************************************)
EXTENDS GroupedPredict, FactorMetadata

CONSTANTS
  Libraries      \* sets of configurations that have been trained before

ASSUME LibraryAssumption == Libraries \subseteq SUBSET DOMAIN Configs

Registries ==
  {[source |-> Absent, native |-> Absent, combined |-> Rows(code, "code") \union Rows(ml, "ml")] :
     code \in CodeRegistries \union {{}}, ml \in MlRegistrations \union {{}}}

\* The windows of a configuration that have something to train on.
Trained == Table([c \in DOMAIN Configs |-> {w \in Plan[c] : HasRows(w.train)}])

Init ==
  /\ proc = Idle
  /\ session \in Sessions
  /\ \E trained \in IF session["metadata"] > 0 THEN {{}} ELSE Libraries :
       /\ latest = [o \in Outputs |-> Max({0} \union {Configs[c].version : c \in {b \in trained : Configs[b].out = o}})]
       /\ model = [p \in Paths |->
            LET made == {m \in UNION {{c} \X Trained[c] : c \in trained} : Path(m[1], m[2]) = p} IN
            IF made = {} THEN None ELSE LET m == CHOOSE m \in made : TRUE IN Identity(m[1], m[2])]
       /\ manifest = model
  /\ column = [o \in Outputs |-> [d \in OutputDates |-> None]]
  /\ registry \in IF session["metadata"] > 0
                  THEN {r \in Registries : Ids(OwnedBy(r.combined, "code")) \intersect Ids(OwnedBy(r.combined, "ml")) = {}}
                  ELSE {[source |-> Absent, native |-> Absent, combined |-> {}]}

Next == ArtifactsNext \/ GroupedNext \/ MetadataNext \/ ShowPlan \/ Stop

Spec == Init /\ [][Next]_mlVars

-----------------------------------------------------------------------------
(* Properties                                                               *)

Windows == IF proc.prog # "plan" THEN {} ELSE IF proc.windows = Failed THEN {} ELSE proc.windows

Known(c, dates, by) == \A d \in dates : Position(c, d) + LabelHorizon(c) <= Position(c, by)

\* No model sees the future: at its information cutoff every training and validation label, also
\* of auxiliary tasks, has been realised; it predicts only later dates; and no training label
\* reaches into the validation dates (build_windows with all seven schemes).
NoLookAhead ==
  \A w \in Windows :
    /\ w.train # {} /\ Known(proc.config, w.train \union w.valid, w.cutoff)
    /\ \A d \in w.predict : w.cutoff < d
    /\ \A t \in w.train, v \in w.valid : Position(proc.config, t) + LabelHorizon(proc.config) < Position(proc.config, v)

\* A date is predicted by one model only, the newest whose cutoff lies before it, and windows
\* never share an artifact directory.
NewestModel ==
  \A v, w \in Windows : v # w =>
    /\ v.id # w.id /\ v.predict \intersect w.predict = {}
    /\ \A d \in v.predict : ~(v.cutoff < w.cutoff /\ w.cutoff < d)

\* No configuration goes back to what an output's windows were trained on before another one.
NeverBack ==
  \A a, b, c \in DOMAIN Configs :
    /\ Configs[a].out = Configs[b].out /\ Configs[b].out = Configs[c].out
    /\ Configs[a].version <= Configs[b].version /\ Configs[b].version <= Configs[c].version
    => \A u \in Plan[a], v \in Plan[b], w \in Plan[c] :
         u.id = v.id /\ v.id = w.id /\ Identity(a, u) = Identity(c, w) => Identity(b, v) = Identity(a, u)

\* What an undisturbed run of a configuration gives for a date.
Undisturbed == Table([p \in (DOMAIN Configs) \X OutputDates |->
  LET own == {w \in Trained[p[1]] : p[2] \in w.predict} IN
  IF own = {} \/ p[2] \notin DataDates THEN None ELSE Identity(p[1], CHOOSE w \in own : TRUE)])

Served == Table([c \in DOMAIN Configs |-> UNION {w.predict : w \in Trained[c]}])

\* Whatever was killed, resumed, retrained or predicted in groups: values written under a
\* configuration are those an undisturbed run of it would have written, from a model trained on
\* exactly its window and settings (validate_manifest, the order of save and manifest).
ValuesFaithful ==
  \A o \in Outputs, d \in OutputDates :
    column[o][d] # None => column[o][d].model = Undisturbed[<<column[o][d].by, d>>]

\* A program that predicts and ends leaves a column on every date it answers for, and unless it
\* resumed, its own values on every date that one of its models serves.
RunCompletes ==
  Running("done") =>
    \A c \in proc.cfgs : \A d \in Predicts[c] \intersect proc.dates :
      /\ column[Configs[c].out][d] # None
      /\ ~proc.resume /\ d \in Served[c] => column[Configs[c].out][d].by = c

\* A model that may not be replayed gets all of its window's dates, in order and in one session,
\* whatever else is predicted with it and however the dates are divided among tasks.
StatefulInOrder ==
  Running("grouped") =>
    \A k \in DOMAIN proc.resident :
      LET r == proc.resident[k]
          c == proc.group[r.i]
          given == UNION {b \in Pieces(r.w.predict, Configs[c].batch) : HasRows(b)}
      IN ~Safe(c) => r.fed = {d \in given : d <= Max(r.fed)}

\* What an ML program has registered stays registered, in its own file and for the readers of the
\* combined table; the table's code factors are the last ones the engine has published; and no
\* factor ever has two owners: through every order of publications, refusals and deaths.
RegistryKept ==
  [][/\ registry.source # Absent => registry.source \subseteq registry'.source
     /\ OwnedBy(registry.combined, "ml") \subseteq registry'.combined
     /\ OwnedBy(registry'.combined, "code") \in {OwnedBy(registry.combined, "code"), registry.native}
     /\ \A r, s \in registry'.combined : r[1] = s[1] => r = s]_mlVars
=============================================================================
