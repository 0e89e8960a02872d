------------------------------ MODULE RawCache ------------------------------
(***************************************************************************)
(* The cache of minute-derived daily raw values: one file per date with a   *)
(* column per raw, and one metadata record per raw that names the version   *)
(* its columns are trusted as (IntradayDailyRawStorage in storage.rs; its   *)
(* users in engine.rs). Four kinds of programs share it:                    *)
(*   "inline"    run: computes what is missing, records it, reads it;       *)
(*   "publish"   raw-metadata: records the current versions, before ...     *)
(*   "owned"     raw-run --owned-target-dates: computes its own dates only; *)
(*   "prepared"  run --prepared-raw-only: reads, and refuses to compute.    *)
(*                                                                         *)
(* A file is rewritten whole under its lock and published by a rename, the  *)
(* metadata file as well: each such critical section is one step. A value   *)
(* is abstracted to the version of the code that computed it. All raws      *)
(* belong to one provider, which computes those it is asked for together.   *)
(* A run goes through its dates in batches, whose dates to load overlap by   *)
(* the lookback; every batch is checked, computed, recorded and read anew.  *)
(***************************************************************************)
EXTENDS Integers, Sequences

CONSTANTS
  Raws, Dates,
  DataDates,                \* the dates with source observations
  OldVersions,              \* what an existing cache may have been computed by
  Absent, Nulls, None,      \* no column; a column of nulls; no record
  Programs, Kind, Version,  \* per program: what it is, its raws' version
  Batches,                  \* per program: the load_dates of its date batches
  Refreshers,               \* those started with --refresh-minute-cache after a change of version
  After                     \* per program: the programs that must succeed before it starts

ASSUME CacheAssumption ==
  /\ Dates \subseteq Nat /\ DataDates \subseteq Dates
  /\ Kind \in [Programs -> {"inline", "publish", "owned", "prepared"}]
  /\ Batches \in [Programs -> Seq((SUBSET Dates) \ {{}}) \ {<<>>}]
  /\ Refreshers \subseteq {p \in Programs : Kind[p] # "prepared"}
  /\ After \in [Programs -> SUBSET Programs]
ASSUME VersionAssumption ==
  {Absent, Nulls, None} \intersect ({Version[p] : p \in Programs} \union OldVersions) = {} /\ Absent # Nulls

VARIABLES
  file,      \* per date and raw: Absent, Nulls, or a version
  meta,      \* per raw: the version its record names, or None
  refresh,   \* per program: its --refresh-minute-cache
  pc,
  batch,     \* per program: the number of the batch it is at
  made,      \* per program: <<raw, date>> it has materialized
  known,     \* per program: the raws whose record matched
  missing,   \* per program: <<raw, date>> it found missing
  todo,      \* per program: dates still to visit in its present loop
  got        \* per program: <<date, raw, value>> it has read

vars == <<file, meta, refresh, pc, batch, made, known, missing, todo, got>>

\* The load_dates of p's present batch.
DatesOf(p) == Batches[p][batch[p]]

\* What provider and merge leave in a file that had `row`: new values where the source
\* has observations, no file otherwise.
Computed(p, d, ids) == [r \in Raws |-> IF r \in ids /\ d \in DataDates THEN Version[p] ELSE file[d][r]]

\* A cache left by complete, partial or interrupted runs of one version.
Init ==
  /\ \E v \in OldVersions :
       /\ file \in {f \in [Dates -> [Raws -> {Absent, Nulls, v}]] :
            \A d \in Dates, r \in Raws : f[d][r] \in {Absent, IF d \in DataDates THEN v ELSE Nulls}}
       /\ meta \in [Raws -> {None, v}]
       /\ refresh = [p \in Programs |-> p \in Refreshers /\ Version[p] # v]
  /\ pc = [p \in Programs |-> "records"]
  /\ batch = [p \in Programs |-> 1]
  /\ made = [p \in Programs |-> {}]
  /\ known = [p \in Programs |-> {}]
  /\ missing = [p \in Programs |-> {}]
  /\ todo = [p \in Programs |-> {}]
  /\ got = [p \in Programs |-> {}]

Goto(p, l) == pc' = [pc EXCEPT ![p] = l]

\* A loop over dates begins, or goes on to the next date.
Loop(p, l, dates) == Goto(p, l) /\ todo' = [todo EXCEPT ![p] = dates]

Visiting(p, l, d) == pc[p] = l /\ d \in todo[p] /\ \A e \in todo[p] : d <= e
Visited(p, l) == pc[p] = l /\ todo[p] = {}
Step(p, d) == todo' = [todo EXCEPT ![p] = @ \ {d}]

MissingIds(p) == {m[1] : m \in missing[p]}
MissingDates(p) == {m[2] : m \in missing[p]}

-----------------------------------------------------------------------------
(* What is missing (missing_dates_many).                                    *)

\* raw-metadata.
Publish(p) ==
  /\ pc[p] = "records" /\ Kind[p] = "publish" /\ \A q \in After[p] : pc[q] = "done"
  /\ meta' = [r \in Raws |-> Version[p]]
  /\ Goto(p, "done")
  /\ UNCHANGED <<file, batch, made, known, missing, todo, got>>

\* Faulty variant: only the first batch is refreshed.
ReadRecordsOnce(p) ==
  /\ pc[p] = "records" /\ Kind[p] # "publish" /\ \A q \in After[p] : pc[q] = "done"
  /\ LET match == IF refresh[p] /\ batch[p] = 1 THEN {} ELSE {r \in Raws : meta[r] = Version[p]} IN
       /\ known' = [known EXCEPT ![p] = match]
       /\ missing' = [missing EXCEPT ![p] = (Raws \ match) \X DatesOf(p)]
  /\ Loop(p, "footers", DatesOf(p))
  /\ UNCHANGED <<file, meta, batch, made, got>>

\* The records are read. A raw without a matching one is missing everywhere.
ReadRecords(p) ==
  /\ pc[p] = "records" /\ Kind[p] # "publish" /\ \A q \in After[p] : pc[q] = "done"
  /\ LET match == IF refresh[p] THEN {} ELSE {r \in Raws : meta[r] = Version[p]} IN
       /\ known' = [known EXCEPT ![p] = match]
       /\ missing' = [missing EXCEPT ![p] = (Raws \ match) \X DatesOf(p)]
  /\ Loop(p, "footers", DatesOf(p))
  /\ UNCHANGED <<file, meta, batch, made, got>>

\* The footer of a date's file.
ReadFooter(p) ==
  /\ \E d \in Dates :
       /\ Visiting(p, "footers", d) /\ Step(p, d)
       /\ missing' = [missing EXCEPT ![p] = @ \union ({r \in known[p] : file[d][r] = Absent} \X {d})]
  /\ UNCHANGED <<file, meta, pc, batch, made, known, got>>

\* A prepared run refuses to go on without a complete cache. The others compute what is
\* missing and what they have not made before.
Checked(p) ==
  /\ Visited(p, "footers")
  /\ missing' = [missing EXCEPT ![p] = @ \ made[p]]
  /\ IF Kind[p] = "prepared"
     THEN IF missing[p] = {} THEN Loop(p, "load", DatesOf(p)) ELSE Loop(p, "refused", {})
     ELSE Loop(p, "write", {m[2] : m \in missing'[p]})
  /\ UNCHANGED <<file, meta, batch, made, known, got>>

-----------------------------------------------------------------------------
(* Computing what is missing (materialize_intraday_raw_table).              *)

\* write_results for one date: every raw of the job, merged into the file.
Write(p) ==
  /\ \E d \in Dates :
       /\ Visiting(p, "write", d) /\ Step(p, d)
       /\ file' = [file EXCEPT ![d] = Computed(p, d, MissingIds(p))]
       /\ made' = [made EXCEPT ![p] = @ \union (MissingIds(p) \X {d})]
  /\ UNCHANGED <<meta, pc, batch, known, missing, got>>

\* Everything is written: an owner completes its dates, the others record their raws.
Written(p) ==
  /\ Visited(p, "write")
  /\ IF Kind[p] = "owned" THEN Loop(p, "complete", DatesOf(p)) ELSE Loop(p, "record", {})
  /\ UNCHANGED <<file, meta, batch, made, known, missing, got>>

\* write_metadata, for the raws that were computed.
Record(p) ==
  /\ pc[p] = "record"
  /\ meta' = [r \in Raws |-> IF r \in MissingIds(p) THEN Version[p] ELSE meta[r]]
  /\ Loop(p, "load", DatesOf(p))
  /\ UNCHANGED <<file, batch, made, known, missing, got>>

\* Faulty variant: a date without a file is left alone.
CompleteExisting(p) ==
  /\ \E d \in Dates :
       /\ Visiting(p, "complete", d) /\ Step(p, d)
       /\ file' = [file EXCEPT ![d] = [r \in Raws |->
            IF file[d][r] = Absent /\ \E s \in Raws : file[d][s] # Absent THEN Nulls ELSE file[d][r]]]
  /\ UNCHANGED <<meta, pc, batch, made, known, missing, got>>

\* complete_prepared_dates: columns nobody computed become columns of nulls.
Complete(p) ==
  /\ \E d \in Dates :
       /\ Visiting(p, "complete", d) /\ Step(p, d)
       /\ file' = [file EXCEPT ![d] = [r \in Raws |-> IF file[d][r] = Absent THEN Nulls ELSE file[d][r]]]
  /\ UNCHANGED <<meta, pc, batch, made, known, missing, got>>

\* load_raw_by_dates. A column that is absent is read as nulls.
Load(p) ==
  /\ \E d \in Dates :
       /\ Visiting(p, "load", d) /\ Step(p, d)
       /\ got' = [got EXCEPT ![p] = @ \union {<<d, r, file[d][r]>> : r \in Raws}]
  /\ UNCHANGED <<file, meta, pc, batch, made, known, missing>>

\* The end of a batch.
NextBatch(p) ==
  /\ Visited(p, "complete") \/ Visited(p, "load")
  /\ IF batch[p] < Len(Batches[p])
     THEN Goto(p, "records") /\ batch' = [batch EXCEPT ![p] = @ + 1]
     ELSE Goto(p, "done") /\ UNCHANGED batch
  /\ UNCHANGED <<file, meta, made, known, missing, todo, got>>

\* The program dies and is started again, with nothing but the files.
Restart(p) ==
  /\ pc[p] # "done"
  /\ Goto(p, "records")
  /\ batch' = [batch EXCEPT ![p] = 1]
  /\ made' = [made EXCEPT ![p] = {}]
  /\ known' = [known EXCEPT ![p] = {}]
  /\ missing' = [missing EXCEPT ![p] = {}]
  /\ todo' = [todo EXCEPT ![p] = {}]
  /\ got' = [got EXCEPT ![p] = {}]
  /\ UNCHANGED <<file, meta>>

Program(p) ==
  \/ Publish(p) \/ ReadRecords(p) \/ ReadFooter(p) \/ Checked(p)
  \/ Write(p) \/ Written(p) \/ Record(p) \/ Complete(p) \/ Load(p)
  \/ NextBatch(p) \/ Restart(p)

Next == (\E p \in Programs : Program(p)) /\ UNCHANGED refresh

Spec == Init /\ [][Next]_vars

-----------------------------------------------------------------------------
(* Properties.                                                              *)

\* Whatever others write, complete or record meanwhile, and whoever died before, a run
\* computes its factors from values of its own version, on every date that has
\* observations: no batch reads what is absent or left by another version.
ReadsCurrent ==
  \A p \in Programs : \A g \in got[p] :
    IF g[1] \in DataDates THEN g[3] = Version[p] ELSE g[3] \in {Absent, Nulls}

\* Once the versions are published and all owners have succeeded, no prepared run is refused.
OrderSuffices == \A p \in Programs : pc[p] # "refused"

\* A prepared run fails on incompatible versions: it never reads values of another one.
PreparedVersionsMatch ==
  \A p \in Programs : Kind[p] = "prepared" =>
    \A g \in got[p] : g[3] \in {Absent, Nulls, Version[p]}
=============================================================================
