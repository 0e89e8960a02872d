---------------------------- MODULE GroupedPredict ----------------------------
(***************************************************************************)
(* Several models write their columns together, one rewrite per date:       *)
(* pipelines/grouped_predict.py with the shards of task_plan.py.            *)
(*                                                                         *)
(* A unit is a batch of one window of one model. Units with the same dates  *)
(* form a wave; within a wave the code goes by shared inputs, here in any   *)
(* order, with model_predict_workers = 1. Models stay resident, least       *)
(* recently used first to go, under max_resident_models; byte budgets are   *)
(* not modelled. fed is the dates a resident model has been given so far.       *)
(***************************************************************************)
EXTENDS MlArtifacts

CONSTANTS
  Groups,        \* sequences of configurations whose columns share the daily files
  MaxResident,   \* max_resident_models
  TaskDays       \* predict_task_days

\* Configurations with one output in a group are refused (plan_tasks).
ASSUME GroupAssumption ==
  /\ MaxResident \in Nat \ {0} /\ TaskDays \in Nat \ {0}
  /\ \A group \in Groups : \A i, j \in DOMAIN group :
       group[i] \in DOMAIN Configs /\ (Configs[group[i]].out = Configs[group[j]].out => i = j)

Safe(c) == Configs[c].safe

\* plan_tasks: dates are only divided among tasks when every model may be replayed.
GroupDates(group) == UNION {Predicts[c] : c \in ToSet(group)}

Pieces(dates, size) == {{d \in dates : Rank(dates, d) \div size = Rank(dates, e) \div size} : e \in dates}

\* Faulty variant: always divided.
AlwaysShards(group) == Pieces(GroupDates(group), TaskDays)

Shards(group) ==
  IF \A c \in ToSet(group) : Safe(c) THEN Pieces(GroupDates(group), TaskDays) ELSE {GroupDates(group)}

\* prediction_units, restricted to the batches that have dates of the task.
Units(group, owned) ==
  UNION {UNION {{[i |-> i, w |-> w, dates |-> b] : b \in {b \in Pieces(w.predict, Configs[group[i]].batch) : b \intersect owned # {}}}
           : w \in Plan[group[i]]} : i \in DOMAIN group}

\* By the last dates, then by the lists of dates.
Earlier(u, v) ==
  \/ Max(u.dates) < Max(v.dates)
  \/ /\ Max(u.dates) = Max(v.dates) /\ u.dates # v.dates
     /\ Min(SymDiff(u.dates, v.dates)) \in u.dates

GroupedTask(group, owned, units) ==
  LET computed(i) == UNION {u.dates : u \in {v \in units : v.i = i}}
      uncovered == UNION {{<<i, d>> : d \in (Predicts[group[i]] \intersect owned) \ computed(i)} : i \in DOMAIN group}
  IN [prog |-> "grouped", group |-> group, dates |-> owned, units |-> units, wave |-> {}, resident |-> <<>>,
      flush |-> units = {}, pending |-> [p \in uncovered |-> Value(group[p[1]], p[2], None)]]

Overlapping(units) == \E u, v \in units : u.i = v.i /\ u # v /\ u.dates \intersect v.dates # {}

StartGrouped(group) ==
  /\ May("grouped")
  /\ \E owned \in Shards(group) :
       /\ ~Overlapping(Units(group, owned))
       /\ Start("grouped", GroupedTask(group, owned, Units(group, owned)))
  /\ \A c \in ToSet(group) : Configs[c].version >= latest[Configs[c].out]
  /\ latest' = [o \in Outputs |-> Max({latest[o]} \union {Configs[c].version : c \in {b \in ToSet(group) : Configs[b].out = o}})]
  /\ UNCHANGED <<model, manifest, column, registry>>

\* Faulty variant: the least recently used goes, whatever it is.
UsedEvictAny(resident, i, w, dates) ==
  LET mine == {k \in DOMAIN resident : resident[k].i = i}
      hits == {k \in mine : resident[k].w = w}
      fed == (UNION {resident[k].fed : k \in hits}) \union dates
      others == IF mine = {} THEN resident ELSE RemoveAt(resident, Min(mine))
  IN Append(IF Len(others) < MaxResident THEN others ELSE Tail(others), [i |-> i, w |-> w, fed |-> fed])

\* _Models.get: the resident models after a use; None if no model may be evicted. A configuration has
\* one model resident at most; that of its earlier window goes first.
Used(resident, i, w, dates) ==
  LET mine == {k \in DOMAIN resident : resident[k].i = i}
      hits == {k \in mine : resident[k].w = w}
      fed == (UNION {resident[k].fed : k \in hits}) \union dates
      others == IF mine = {} THEN resident ELSE RemoveAt(resident, Min(mine))
      evictable == {k \in DOMAIN others : Safe(proc.group[others[k].i])}
      kept == IF Len(others) < MaxResident THEN others ELSE RemoveAt(others, Min(evictable))
  IN IF hits = {} /\ Len(others) >= MaxResident /\ evictable = {} THEN None
     ELSE Append(IF hits # {} THEN others ELSE kept, [i |-> i, w |-> w, fed |-> fed])

\* The dates of which every column is there: flush_ready.
Expected(d) == {i \in DOMAIN proc.group : d \in Predicts[proc.group[i]]}
Ready == {d \in proc.dates : Expected(d) # {} /\ \A i \in Expected(d) : <<i, d>> \in DOMAIN proc.pending}

BeginWave ==
  /\ Running("grouped") /\ proc.wave = {}
  /\ proc.flush => Ready = {}
  /\ \E u \in proc.units :
       LET wave == {v \in proc.units : v.dates = u.dates} IN
       /\ ~ \E v \in proc.units : Earlier(v, u)
       /\ proc' = [proc EXCEPT !.wave = wave, !.units = @ \ wave, !.flush = FALSE]
  /\ OnlyProc

\* Load, or find resident, and predict. Without rows the model is only checked.
Infer(u) ==
  LET c == proc.group[u.i]
      held == model[Path(c, u.w)]
      resident == IF HasRows(u.dates) THEN Used(proc.resident, u.i, u.w, u.dates) ELSE proc.resident
      scores == [p \in {u.i} \X (u.dates \intersect proc.dates) |-> Value(c, p[2], held)]
  IN /\ Running("grouped") /\ u \in proc.wave
     /\ Valid(c, u.w) /\ (HasRows(u.dates) => held # Torn) /\ resident # None
     /\ proc' = [proc EXCEPT !.wave = @ \ {u}, !.flush = (proc.wave = {u}), !.resident = resident,
                             !.pending = [p \in DOMAIN @ \union DOMAIN scores |->
                                            IF p \in DOMAIN scores THEN scores[p] ELSE @[p]]]
     /\ OnlyProc

\* write_many: one rewrite of a date's file with all its columns.
Flush(d) ==
  LET byOutput == [o \in {Configs[proc.group[i]].out : i \in Expected(d)} |->
                     proc.pending[<<CHOOSE i \in Expected(d) : Configs[proc.group[i]].out = o, d>>]]
  IN /\ Running("grouped") /\ proc.flush /\ d \in Ready
     /\ column' = [o \in Outputs |-> IF o \in DOMAIN byOutput THEN [column[o] EXCEPT ![d] = byOutput[o]] ELSE column[o]]
     /\ proc' = [proc EXCEPT !.pending = [p \in {q \in DOMAIN @ : q[2] # d} |-> @[p]]]
     /\ UNCHANGED <<session, latest, model, manifest, registry>>

FinishGrouped ==
  /\ Running("grouped") /\ proc.units = {} /\ proc.flush
  /\ DOMAIN proc.pending = {}
  /\ proc' = [prog |-> "done", cfgs |-> ToSet(proc.group), dates |-> proc.dates, resume |-> FALSE]
  /\ OnlyProc

GroupedNext ==
  \/ \E group \in Groups : StartGrouped(group)
  \/ BeginWave
  \/ Running("grouped") /\ \E u \in proc.wave : Infer(u)
  \/ \E d \in OutputDates : Flush(d)
  \/ FinishGrouped
=============================================================================
