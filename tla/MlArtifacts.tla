----------------------------- MODULE MlArtifacts -----------------------------
(***************************************************************************)
(* factor-run, factor-train and factor-predict: pipelines/factor.py with    *)
(* the models and manifests of output/artifacts.py.                         *)
(*                                                                         *)
(* Windows are handled one after another. A step ends with a change of a    *)
(* file, so that a program can die between any two of them: a model file is *)
(* truncated, then complete; its manifest is replaced; a date's file is     *)
(* replaced. The dates of one batch are written by a pool of threads.       *)
(***************************************************************************)
EXTENDS MlProcess

\* The order of the plan.
Precedes(v, w) == v.predict # {} /\ w.predict # {} /\ Min(v.predict) < Min(w.predict)

Local(prog, c, resume, windows) ==
  [prog |-> prog, cfg |-> c, resume |-> resume, todo |-> windows,
   stage |-> "window", held |-> None, all |-> {}, left |-> {}]

\* Configurations of an output are never taken back.
Uses(c) ==
  /\ Configs[c].version >= latest[Configs[c].out]
  /\ latest' = [latest EXCEPT ![Configs[c].out] = Configs[c].version]

StartRun(c, resume) ==
  /\ Start("pipeline", Local("run", c, resume, Plan[c]))
  /\ Uses(c)
  /\ UNCHANGED <<model, manifest, column, registry>>

\* select_windows: some windows, or all.
StartTrain(c, resume, windows) ==
  /\ windows # {}
  /\ Start("pipeline", Local("train", c, resume, windows))
  /\ Uses(c)
  /\ UNCHANGED <<model, manifest, column, registry>>

StartPredict(c) ==
  /\ Configs[c].predict # None
  /\ Start("pipeline", Local("predict", c, FALSE, Plan[c]))
  /\ Uses(c)
  /\ UNCHANGED <<model, manifest, column, registry>>

At(stage) == proc.prog \in {"run", "train", "predict"} /\ proc.stage = stage

Current == CHOOSE w \in proc.todo : ~ \E v \in proc.todo : Precedes(v, w)
Output == Configs[proc.cfg].out

\* dates_missing_output_column.
Lacking(dates) == {d \in dates : column[Output][d] = None}

\* What is left to predict in the window.
Wanted == IF proc.resume THEN Lacking(Current.predict) ELSE Current.predict

\* The program calls validate_manifest on the window, and goes on only if that succeeds.
Checks ==
  \/ proc.prog = "predict"
  \/ proc.resume /\ (Exists(proc.cfg, Current) \/ (proc.prog = "run" /\ Wanted = {}))

AtWindow == At("window") /\ proc.todo # {}
OnlyProc == UNCHANGED <<session, latest, model, manifest, column, registry>>
NextWindow == proc' = [proc EXCEPT !.todo = @ \ {Current}, !.stage = "window", !.held = None, !.all = {}, !.left = {}]

\* Nothing to do: the output or the model is complete, or there is nothing to train on.
SkipWindow ==
  /\ AtWindow
  /\ \/ /\ proc.resume /\ Checks /\ Valid(proc.cfg, Current)
        /\ proc.prog = "train" \/ Wanted = {}
     \/ ~Checks /\ proc.prog = "run" /\ ~HasRows(Current.train)
  /\ NextWindow
  /\ OnlyProc

LoadModel ==
  /\ AtWindow
  /\ proc.prog # "train" /\ Checks /\ Valid(proc.cfg, Current)
  /\ proc.prog = "predict" \/ Wanted # {}
  /\ model[Path(proc.cfg, Current)] # Torn
  /\ proc' = [proc EXCEPT !.stage = "write", !.held = model[Path(proc.cfg, Current)],
                          !.all = Wanted, !.left = Wanted]
  /\ OnlyProc

\* Fitting on no rows raises.
Fit ==
  /\ AtWindow
  /\ ~Checks /\ HasRows(Current.train)
  /\ proc' = [proc EXCEPT !.stage = "open", !.held = Identity(proc.cfg, Current)]
  /\ OnlyProc

SetFile(file, value) == [file EXCEPT ![Path(proc.cfg, Current)] = value]

\* model.save opens the file in place, then fills it.
OpenModel ==
  /\ At("open")
  /\ model' = SetFile(model, Torn)
  /\ proc' = [proc EXCEPT !.stage = "save"]
  /\ UNCHANGED <<session, latest, manifest, column, registry>>

SaveModel ==
  /\ At("save")
  /\ model' = SetFile(model, proc.held)
  /\ proc' = [proc EXCEPT !.stage = "manifest"]
  /\ UNCHANGED <<session, latest, manifest, column, registry>>

SaveManifest ==
  /\ At("manifest")
  /\ manifest' = SetFile(manifest, Identity(proc.cfg, Current))
  /\ IF proc.prog = "train" THEN NextWindow
     ELSE proc' = [proc EXCEPT !.stage = "write", !.all = Current.predict, !.left = Current.predict]
  /\ UNCHANGED <<session, latest, model, column, registry>>

\* The dates of the batch that is being written.
BatchOf(c, all, d) == Rank(all, d) \div Configs[c].batch
Batch == {d \in proc.left : BatchOf(proc.cfg, proc.all, d) = BatchOf(proc.cfg, proc.all, Min(proc.left))}

PredictWrite(d) ==
  /\ At("write") /\ proc.left # {} /\ d \in Batch
  /\ column' = [column EXCEPT ![Output][d] = Value(proc.cfg, d, proc.held)]
  /\ proc' = [proc EXCEPT !.left = @ \ {d}]
  /\ UNCHANGED <<session, latest, model, manifest, registry>>

EndWindow ==
  /\ At("write") /\ proc.left = {}
  /\ NextWindow
  /\ OnlyProc

\* ensure_output_column: a column of nulls where there is none.
Pad(d) ==
  /\ At("window") /\ proc.todo = {} /\ proc.prog # "train"
  /\ d \in Lacking(Predicts[proc.cfg])
  /\ column' = [column EXCEPT ![Output][d] = Value(proc.cfg, d, None)]
  /\ UNCHANGED <<proc, session, latest, model, manifest, registry>>

\* Faulty variant: the run ends with its last window.
FinishUnpadded ==
  /\ At("window") /\ proc.todo = {}
  /\ proc' = [prog |-> "done", cfgs |-> IF proc.prog = "train" THEN {} ELSE {proc.cfg},
              dates |-> Predicts[proc.cfg], resume |-> proc.resume]
  /\ OnlyProc

Finish ==
  /\ At("window") /\ proc.todo = {}
  /\ proc.prog = "train" \/ Lacking(Predicts[proc.cfg]) = {}
  /\ proc' = [prog |-> "done", cfgs |-> IF proc.prog = "train" THEN {} ELSE {proc.cfg},
              dates |-> Predicts[proc.cfg], resume |-> proc.resume]
  /\ OnlyProc

ArtifactsNext ==
  \/ \E c \in DOMAIN Configs :
       \/ \E resume \in BOOLEAN : StartRun(c, resume)
       \/ \E resume \in BOOLEAN, windows \in SUBSET Plan[c] : StartTrain(c, resume, windows)
       \/ StartPredict(c)
  \/ SkipWindow \/ LoadModel \/ Fit \/ OpenModel \/ SaveModel \/ SaveManifest
  \/ \E d \in OutputDates : PredictWrite(d) \/ Pad(d)
  \/ EndWindow \/ Finish
=============================================================================
