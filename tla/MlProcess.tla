------------------------------ MODULE MlProcess ------------------------------
(***************************************************************************)
(* The state that the programs of the ML pipelines share: the files of the  *)
(* factors' models, the columns of the daily factor files and the registry  *)
(* of factors. The programs are started by hand or by a scheduler, one      *)
(* after another; proc holds the local state of the one that is running.    *)
(***************************************************************************)
EXTENDS TrainingWindows, TLC, SequencesExt

CONSTANTS
  Configs,       \* the configuration files: a function from their names to records as in
                 \* TrainingWindows, with [out, version, batch, safe] besides: the output's id,
                 \* its place among the output's configurations, predict_batch_size, and
                 \* whether the model class declares prediction_replay_safe
  PlanConfigs,   \* configurations whose plan is shown
  DataDates,     \* the dates that have features
  Torn,          \* a model file that was being written
  Sessions       \* bound: how many programs of each kind a behaviour starts

\* A calendar is a finite list of dates; horizons that are not natural numbers are refused
\* (_label_horizon), and so are refits of a calendar scheme that are not every so many months
\* (_calendar_windows).
WellFormed(c) ==
  /\ c.cal \in SUBSET Nat /\ IsFiniteSet(c.cal)
  /\ c.label \in Nat /\ c.aux \in Nat
  /\ c.vlookback # None => c.refit[2] \in Nat \ {0}

ASSUME PlanAssumption == None \notin Nat /\ \A c \in PlanConfigs : WellFormed(c)

\* A configuration whose plan raises starts nothing.
ASSUME ConfigAssumption ==
  /\ IsFiniteSet(DOMAIN Configs)
  /\ \A c \in DOMAIN Configs :
       /\ WellFormed(Configs[c]) /\ BuildWindows(Configs[c]) # Failed
       /\ Configs[c].version \in Nat /\ Configs[c].batch \in Nat \ {0}

VARIABLES
  proc,          \* the running program
  session,       \* kind -> the number of programs left to start
  latest,        \* output -> the version of the last configuration used for it
  model,         \* path -> the model in model.pkl, None or Torn
  manifest,      \* path -> the identity in model.manifest.json, or None
  column,        \* output -> date -> the column's values in the daily file, or None
  registry       \* the three files of factor metadata

mlVars == <<proc, session, latest, model, manifest, column, registry>>

Outputs == {Configs[c].out : c \in DOMAIN Configs}

\* The same function: comparing it makes TLC compute it once, as a table.
Table(fn) == CHOOSE table \in {fn} : table = fn

Plan == Table([c \in DOMAIN Configs |-> BuildWindows(Configs[c])])

Predicts == Table([c \in DOMAIN Configs |-> PredictDates(Configs[c])])

OutputDates == UNION {Predicts[c] : c \in DOMAIN Configs}

\* window_artifact_path: the artifact directory belongs to the factor.
Path(c, w) == <<Configs[c].out, w.id>>
Paths == UNION {{Path(c, w) : w \in Plan[c]} : c \in DOMAIN Configs}

\* artifact_identity: everything a model depends on, and nothing else.
Identity(c, w) == <<Configs[c].params, w.train, w.valid, w.cutoff>>

\* validate_manifest.
Exists(c, w) == model[Path(c, w)] # None

\* Faulty variant: any model at the path will do.
ValidPresent(c, w) == Exists(c, w)

Valid(c, w) == Exists(c, w) /\ manifest[Path(c, w)] = Identity(c, w)

HasRows(dates) == dates \intersect DataDates # {}

\* What a configuration puts on a date: its name and the model that predicted, or nulls.
Value(c, d, held) == [by |-> c, model |-> IF d \in DataDates THEN held ELSE None]

\* A manifest's identity and a column are not the absence of one.
Identities == UNION {{Identity(c, w) : w \in Plan[c]} : c \in DOMAIN Configs}
ASSUME ValueAssumption ==
  /\ None \notin Identities
  /\ \A c \in DOMAIN Configs, m \in Identities \union {None} : [by |-> c, model |-> m] # None

Running(prog) == proc.prog = prog
Free == proc.prog \in {"idle", "done"}

May(kind) == Free /\ session[kind] > 0

Start(kind, p) ==
  /\ May(kind)
  /\ session' = [session EXCEPT ![kind] = @ - 1]
  /\ proc' = p

Idle == [prog |-> "idle"]

\* A program dies, or raises: on a refused manifest, an unreadable model, a ValueError.
Stop ==
  /\ ~Free
  /\ proc' = Idle
  /\ UNCHANGED <<session, latest, model, manifest, column, registry>>

\* runtime.build_windows is also shown as a plan (training_tasks.training_plan).
ShowPlan ==
  /\ May("plan")
  /\ \E c \in PlanConfigs : Start("plan", [prog |-> "plan", config |-> c, windows |-> BuildWindows(c)])
  /\ UNCHANGED <<latest, model, manifest, column, registry>>
=============================================================================
