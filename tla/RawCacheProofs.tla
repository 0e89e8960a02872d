--------------------------- MODULE RawCacheProofs ---------------------------
(***************************************************************************)
(* TLAPS proofs about RawCache: the documented order of programs, with one *)
(* version and whatever cache was there before, makes every read current   *)
(* and no prepared run refused.                                            *)
(***************************************************************************)
EXTENDS RawCache, TLAPS

Computing(p) == Kind[p] \in {"inline", "owned"}

(* What the developer guide asks for. *)

\* All programs are of one build.
OneVersion == \A p, q \in Programs : Version[p] = Version[q]

\* Over a cache of another version they were started with --refresh-minute-cache.
Refreshed == \A p \in Programs : Computing(p) => p \in Refreshers \/ OldVersions \subseteq {Version[p]}

\* A prepared run comes after the publication and after owners of all its dates.
Documented ==
  \A p \in Programs : Kind[p] = "prepared" =>
    /\ \E q \in After[p] : Kind[q] = "publish"
    /\ \A i \in DOMAIN Batches[p] : \A d \in Batches[p][i] :
         \E q \in After[p] : Kind[q] = "owned" /\ \E j \in DOMAIN Batches[q] : d \in Batches[q][j]

-----------------------------------------------------------------------------
(* The inductive invariant. *)

Pcs == {"records", "footers", "write", "record", "complete", "load", "done", "refused"}
Values == {Absent, Nulls} \union OldVersions \union {Version[p] : p \in Programs}

Typed ==
  /\ file \in [Dates -> [Raws -> Values]]
  /\ meta \in [Raws -> Values \union {None}]
  /\ refresh \in [Programs -> BOOLEAN]
  /\ pc \in [Programs -> Pcs]
  /\ batch \in [Programs -> Nat]
  /\ made \in [Programs -> SUBSET (Raws \X Dates)]
  /\ known \in [Programs -> SUBSET Raws]
  /\ missing \in [Programs -> SUBSET (Raws \X Dates)]
  /\ todo \in [Programs -> SUBSET Dates]
  /\ got \in [Programs -> SUBSET (Dates \X Raws \X Values)]

Present(d, r) == file[d][r] # Absent
Current(p, d, r) == d \in DataDates => file[d][r] = Version[p]

\* Dates without observations have no values. If somebody takes columns as they are, those
\* with observations have values of this version only.
FilesOk ==
  /\ \A d \in Dates \ DataDates, r \in Raws : file[d][r] \in {Absent, Nulls}
  /\ \A p \in Programs : Computing(p) =>
       refresh[p] \/ \A d \in DataDates, r \in Raws : file[d][r] \in {Absent, Version[p]}

\* The dates of the batches that a program has behind it.
Behind(p, d) == \E i \in DOMAIN Batches[p] : (i < batch[p] \/ pc[p] = "done") /\ d \in Batches[p][i]

BatchOk(p) == batch[p] \in DOMAIN Batches[p]
ReadsOk(p) == \A g \in got[p] : IF g[1] \in DataDates THEN g[3] = Version[p] ELSE g[3] \in {Absent, Nulls}

\* Found missing, or there: in the loop over the footers, and in the loop that writes.
Footer(p) ==
  \A d \in DatesOf(p), r \in Raws :
    /\ r \notin known[p] => <<r, d>> \in missing[p]
    /\ r \in known[p] /\ d \notin todo[p] => <<r, d>> \in missing[p] \/ Present(d, r)
Writing(p) == \A d \in DatesOf(p), r \in Raws : Current(p, d, r) \/ (<<r, d>> \in missing[p] /\ d \in todo[p])
AllCurrent(p) == \A d \in DatesOf(p), r \in Raws : Current(p, d, r)

ComputingOk(p) ==
  /\ \A m \in made[p] : Current(p, m[2], m[1])
  /\ \A d \in Dates, r \in Raws : Behind(p, d) => Current(p, d, r) /\ (Kind[p] = "owned" => Present(d, r))
  /\ pc[p] # "refused"
  /\ pc[p] = "footers" => Footer(p) /\ (refresh[p] => known[p] = {})
  /\ pc[p] = "write" => Writing(p)
  /\ pc[p] \in {"record", "complete", "load"} => AllCurrent(p) /\ todo[p] \subseteq DatesOf(p)
  /\ pc[p] \in {"record", "load"} => Kind[p] = "inline"
  /\ pc[p] = "complete" => \A d \in DatesOf(p) \ todo[p], r \in Raws : Present(d, r)

PreparedOk(p) ==
  /\ ~refresh[p]
  /\ pc[p] \in {"records", "footers", "load", "done"}
  /\ pc[p] # "records" => \A q \in After[p] : pc[q] = "done"
  /\ pc[p] = "footers" => known[p] = Raws /\ missing[p] = {}
  /\ pc[p] \in {"footers", "load"} => todo[p] \subseteq DatesOf(p)

PublishOk(p) ==
  /\ pc[p] \in {"records", "done"}
  /\ pc[p] = "done" => \A r \in Raws : meta[r] = Version[p]

ProgramOk(p) ==
  /\ BatchOk(p)
  /\ ReadsOk(p)
  /\ Computing(p) => ComputingOk(p)
  /\ Kind[p] = "prepared" => PreparedOk(p)
  /\ Kind[p] = "publish" => PublishOk(p)

CacheInv == Typed /\ FilesOk /\ \A p \in Programs : ProgramOk(p)

-----------------------------------------------------------------------------
(* What a step of one program may do to the others. *)

\* No column goes away, and no current value.
Grows ==
  \A d \in Dates, r \in Raws :
    /\ Present(d, r) => Present(d, r)'
    /\ \A q \in Programs : Current(q, d, r) => Current(q, d, r)'

RecordsKept ==
  \A q \in Programs : (\A r \in Raws : meta[r] = Version[q]) => \A r \in Raws : meta'[r] = Version[q]

Untouched(q) ==
  /\ pc'[q] = pc[q] /\ batch'[q] = batch[q] /\ made'[q] = made[q] /\ known'[q] = known[q]
  /\ missing'[q] = missing[q] /\ todo'[q] = todo[q] /\ got'[q] = got[q] /\ refresh'[q] = refresh[q]

DoneStays == \A q \in Programs : pc[q] = "done" => pc'[q] = "done"

LEMMA BatchDates ==
  ASSUME NEW p \in Programs, BatchOk(p)
  PROVE  DatesOf(p) \subseteq Dates
BY CacheAssumption DEF BatchOk, DatesOf

LEMMA AfterArePrograms ==
  ASSUME NEW p \in Programs, NEW q \in After[p] PROVE q \in Programs
BY CacheAssumption

LEMMA OthersKept ==
  ASSUME Typed, NEW q \in Programs, ProgramOk(q), Untouched(q), Grows, RecordsKept, DoneStays
  PROVE  ProgramOk(q)'
<1>1. BatchOk(q)' /\ ReadsOk(q)' /\ DatesOf(q)' = DatesOf(q)
  BY DEF ProgramOk, Untouched, BatchOk, ReadsOk, DatesOf
<1>2. DatesOf(q) \subseteq Dates
  BY BatchDates DEF ProgramOk
<1>3. ASSUME Computing(q) PROVE ComputingOk(q)'
  <2> USE <1>3 DEF Untouched
  <2>0. made[q] \subseteq Raws \X Dates
    BY DEF Typed
  <2>1. ComputingOk(q)
    BY DEF ProgramOk
  <2>2. \A m \in made[q] : Current(q, m[2], m[1])'
    BY <2>0, <2>1 DEF ComputingOk, Grows
  <2>3. \A d \in Dates, r \in Raws : Behind(q, d)' => Current(q, d, r)' /\ (Kind[q] = "owned" => Present(d, r)')
    BY <2>1 DEF ComputingOk, Grows, Behind
  <2>4. pc[q] = "footers" => Footer(q)' /\ (refresh'[q] => known'[q] = {})
    BY <1>1, <1>2, <2>1 DEF ComputingOk, Grows, Footer
  <2>5. pc[q] = "write" => Writing(q)'
    BY <1>1, <1>2, <2>1 DEF ComputingOk, Grows, Writing
  <2>6. pc[q] \in {"record", "complete", "load"} => AllCurrent(q)' /\ todo'[q] \subseteq DatesOf(q)'
    BY <1>1, <1>2, <2>1 DEF ComputingOk, Grows, AllCurrent
  <2>7. pc[q] = "complete" => \A d \in DatesOf(q)' \ todo'[q], r \in Raws : Present(d, r)'
    BY <1>1, <1>2, <2>1 DEF ComputingOk, Grows
  <2> QED
    BY <2>1, <2>2, <2>3, <2>4, <2>5, <2>6, <2>7 DEF ComputingOk
<1>4. ASSUME Kind[q] = "prepared" PROVE PreparedOk(q)'
  BY <1>1, <1>4, AfterArePrograms DEF ProgramOk, PreparedOk, Untouched, DoneStays
<1>5. ASSUME Kind[q] = "publish" PROVE PublishOk(q)'
  BY <1>5 DEF ProgramOk, PublishOk, Untouched, RecordsKept
<1> QED
  BY <1>1, <1>3, <1>4, <1>5 DEF ProgramOk

-----------------------------------------------------------------------------
(* The first state. *)

LEMMA InitInv == ASSUME Refreshed, Init PROVE CacheInv
<1>1. PICK v \in OldVersions :
       /\ file \in {f \in [Dates -> [Raws -> {Absent, Nulls, v}]] :
            \A d \in Dates, r \in Raws : f[d][r] \in {Absent, IF d \in DataDates THEN v ELSE Nulls}}
       /\ meta \in [Raws -> {None, v}]
       /\ refresh = [p \in Programs |-> p \in Refreshers /\ Version[p] # v]
  BY DEF Init
<1>2. file \in [Dates -> [Raws -> Values]] /\ meta \in [Raws -> Values \union {None}] /\ refresh \in [Programs -> BOOLEAN]
  <2>1. {Absent, Nulls, v} \subseteq Values
    BY DEF Values
  <2>2. refresh \in [Programs -> BOOLEAN]
    BY <1>1, Zenon
  <2> QED
    BY <1>1, <2>1, <2>2
<1>3. Typed
  BY <1>2 DEF Init, Typed, Pcs
<1>4. FilesOk
  <2>1. \A d \in Dates \ DataDates, r \in Raws : file[d][r] \in {Absent, Nulls}
    BY <1>1
  <2>2. ASSUME NEW p \in Programs, Computing(p)
        PROVE  refresh[p] \/ \A d \in DataDates, r \in Raws : file[d][r] \in {Absent, Version[p]}
    <3>1. CASE Version[p] = v
      BY <1>1, <3>1, CacheAssumption
    <3>2. CASE Version[p] # v
      <4>1. p \in Refreshers
        BY <2>2, <3>2 DEF Refreshed
      <4> QED
        BY <1>1, <3>2, <4>1
    <3> QED
      BY <3>1, <3>2
  <2> QED
    BY <2>1, <2>2 DEF FilesOk
<1>5. ASSUME NEW p \in Programs PROVE ProgramOk(p)
  <2>1. BatchOk(p) /\ ReadsOk(p) /\ batch[p] = 1 /\ pc[p] = "records" /\ made[p] = {}
    BY CacheAssumption DEF Init, BatchOk, ReadsOk
  <2>2. \A d : ~Behind(p, d)
    BY <2>1, CacheAssumption DEF Behind
  <2>3. ComputingOk(p)
    BY <2>1, <2>2 DEF ComputingOk
  <2>4. Kind[p] = "prepared" => ~refresh[p]
    BY <1>1, CacheAssumption
  <2> QED
    BY <2>1, <2>3, <2>4 DEF ProgramOk, PreparedOk, PublishOk
<1> QED
  BY <1>3, <1>4, <1>5 DEF CacheInv

-----------------------------------------------------------------------------
(* The frame of a step. *)

LEMMA StepFrame ==
  ASSUME Typed, NEW p \in Programs, Program(p), UNCHANGED refresh
  PROVE  DoneStays /\ \A q \in Programs \ {p} : Untouched(q)
<1> USE DEF Typed, DoneStays, Untouched, Goto, Loop, Step, Visiting, Visited
<1>1. CASE Publish(p)
  BY <1>1 DEF Publish
<1>2. CASE ReadRecords(p)
  BY <1>2 DEF ReadRecords
<1>3. CASE ReadFooter(p)
  BY <1>3 DEF ReadFooter
<1>4. CASE Checked(p)
  BY <1>4 DEF Checked
<1>5. CASE Write(p)
  BY <1>5 DEF Write
<1>6. CASE Written(p)
  BY <1>6 DEF Written
<1>7. CASE Record(p)
  BY <1>7 DEF Record
<1>8. CASE Complete(p)
  BY <1>8 DEF Complete
<1>9. CASE Load(p)
  BY <1>9 DEF Load
<1>10. CASE NextBatch(p)
  BY <1>10 DEF NextBatch
<1>11. CASE Restart(p)
  BY <1>11 DEF Restart
<1> QED
  BY <1>1, <1>2, <1>3, <1>4, <1>5, <1>6, <1>7, <1>8, <1>9, <1>10, <1>11 DEF Program

LEMMA FilesUntouched ==
  ASSUME FilesOk, UNCHANGED <<file, refresh>> PROVE FilesOk' /\ Grows
BY DEF FilesOk, Grows, Present, Current

LEMMA RecordsUntouched == ASSUME UNCHANGED meta PROVE RecordsKept
BY DEF RecordsKept

-----------------------------------------------------------------------------
(* The steps: the types, the files, the records, and the program's own state. *)

Preserved(p) == Typed' /\ FilesOk' /\ Grows /\ RecordsKept /\ ProgramOk(p)'

LEMMA PublishStep ==
  ASSUME OneVersion, CacheInv, NEW p \in Programs, Publish(p), UNCHANGED refresh PROVE Preserved(p)
<1> USE DEF CacheInv
<1>1. Typed'
  BY DEF Publish, Typed, Goto, Pcs, Values
<1>2. FilesOk' /\ Grows
  BY FilesUntouched DEF Publish
<1>3. RecordsKept
  BY DEF Publish, RecordsKept, OneVersion
<1>4. ProgramOk(p)'
  <2>1. Kind[p] = "publish" /\ ~Computing(p)
    BY DEF Publish, Computing
  <2>2. PublishOk(p)'
    BY <2>1 DEF Publish, PublishOk, Goto, Typed
  <2>3. BatchOk(p)' /\ ReadsOk(p)'
    BY DEF Publish, ProgramOk, BatchOk, ReadsOk
  <2> QED
    BY <2>1, <2>2, <2>3 DEF ProgramOk, Computing
<1> QED
  BY <1>1, <1>2, <1>3, <1>4 DEF Preserved

LEMMA PreparedDates ==
  ASSUME OneVersion, Documented, CacheInv, NEW p \in Programs, Kind[p] = "prepared",
         \A q \in After[p] : pc[q] = "done", BatchOk(p)
  PROVE  /\ \A r \in Raws : meta[r] = Version[p]
         /\ \A d \in DatesOf(p), r \in Raws : Present(d, r) /\ Current(p, d, r)
<1>1. PICK q \in After[p] : Kind[q] = "publish"
  BY DEF Documented
<1>2. \A r \in Raws : meta[r] = Version[p]
  BY <1>1, AfterArePrograms DEF CacheInv, ProgramOk, PublishOk, OneVersion
<1>3. ASSUME NEW d \in DatesOf(p), NEW r \in Raws PROVE Present(d, r) /\ Current(p, d, r)
  <2>1. PICK o \in After[p] : Kind[o] = "owned" /\ \E j \in DOMAIN Batches[o] : d \in Batches[o][j]
    BY DEF Documented, DatesOf, BatchOk
  <2>2. o \in Programs /\ pc[o] = "done" /\ d \in Dates
    BY AfterArePrograms, BatchDates
  <2>3. ComputingOk(o) /\ Behind(o, d)
    BY <2>1, <2>2 DEF CacheInv, ProgramOk, Computing, Behind
  <2>4. Present(d, r) /\ Current(o, d, r)
    BY <2>1, <2>2, <2>3 DEF ComputingOk
  <2> QED
    BY <2>2, <2>4 DEF Current, OneVersion
<1> QED
  BY <1>2, <1>3

LEMMA ReadRecordsStep ==
  ASSUME OneVersion, Documented, CacheInv, NEW p \in Programs, ReadRecords(p), UNCHANGED refresh
  PROVE  Preserved(p)
<1> USE DEF CacheInv
<1> DEFINE match == IF refresh[p] THEN {} ELSE {r \in Raws : meta[r] = Version[p]}
<1>1. /\ pc[p] = "records" /\ Kind[p] # "publish" /\ \A q \in After[p] : pc[q] = "done"
      /\ known' = [known EXCEPT ![p] = match]
      /\ missing' = [missing EXCEPT ![p] = (Raws \ match) \X DatesOf(p)]
      /\ pc' = [pc EXCEPT ![p] = "footers"] /\ todo' = [todo EXCEPT ![p] = DatesOf(p)]
      /\ UNCHANGED <<file, meta, batch, made, got>>
  BY DEF ReadRecords, Loop, Goto
<1>2. DatesOf(p) \subseteq Dates /\ match \subseteq Raws
  BY BatchDates DEF ProgramOk
<1> HIDE DEF match
<1>3. Typed'
  BY <1>1, <1>2 DEF Typed, Pcs
<1>4. FilesOk' /\ Grows /\ RecordsKept
  BY <1>1, FilesUntouched, RecordsUntouched
<1>5. /\ pc'[p] = "footers" /\ known'[p] = match /\ missing'[p] = (Raws \ match) \X DatesOf(p)
      /\ todo'[p] = DatesOf(p) /\ DatesOf(p)' = DatesOf(p)
  BY <1>1 DEF Typed, DatesOf
<1>6. BatchOk(p)' /\ ReadsOk(p)'
  BY <1>1 DEF ProgramOk, BatchOk, ReadsOk
<1>7. ASSUME Computing(p) PROVE ComputingOk(p)'
  <2>1. ComputingOk(p)
    BY <1>7 DEF ProgramOk
  <2>2. \A m \in made'[p] : Current(p, m[2], m[1])'
    BY <1>1, <2>1 DEF ComputingOk, Current
  <2>3. \A d \in Dates, r \in Raws : Behind(p, d)' => Current(p, d, r)' /\ (Kind[p] = "owned" => Present(d, r)')
    BY <1>1, <1>5, <2>1 DEF ComputingOk, Current, Present, Behind
  <2>4. Footer(p)' /\ (refresh'[p] => known'[p] = {})
    BY <1>5 DEF Footer, match
  <2> QED
    BY <1>5, <2>2, <2>3, <2>4 DEF ComputingOk
<1>8. ASSUME Kind[p] = "prepared" PROVE PreparedOk(p)'
  <2>1. ~refresh[p] /\ BatchOk(p)
    BY <1>8 DEF ProgramOk, PreparedOk
  <2>2. match = Raws
    BY <1>1, <1>8, <2>1, PreparedDates DEF match
  <2>3. \A q \in After[p] : pc'[q] = "done"
    BY <1>1, AfterArePrograms DEF Typed
  <2> QED
    BY <1>5, <2>1, <2>2, <2>3 DEF PreparedOk
<1> QED
  BY <1>1, <1>3, <1>4, <1>6, <1>7, <1>8 DEF Preserved, ProgramOk

LEMMA ReadFooterStep ==
  ASSUME OneVersion, Documented, CacheInv, NEW p \in Programs, ReadFooter(p), UNCHANGED refresh
  PROVE  Preserved(p)
<1> USE DEF CacheInv
<1>1. PICK d \in Dates :
        /\ pc[p] = "footers" /\ d \in todo[p] /\ todo' = [todo EXCEPT ![p] = @ \ {d}]
        /\ missing' = [missing EXCEPT ![p] = @ \union ({r \in known[p] : file[d][r] = Absent} \X {d})]
        /\ UNCHANGED <<file, meta, pc, batch, made, known, got>>
  BY DEF ReadFooter, Visiting, Step
<1>2. /\ missing'[p] = missing[p] \union ({r \in known[p] : ~Present(d, r)} \X {d})
      /\ todo'[p] = todo[p] \ {d} /\ DatesOf(p)' = DatesOf(p)
  BY <1>1 DEF Typed, Present, DatesOf
<1>3. Typed'
  <2>1. missing'[p] \subseteq Raws \X Dates
    BY <1>2 DEF Typed
  <2> QED
    BY <1>1, <2>1 DEF Typed
<1>4. FilesOk' /\ Grows /\ RecordsKept
  BY <1>1, FilesUntouched, RecordsUntouched
<1>5. BatchOk(p)' /\ ReadsOk(p)'
  BY <1>1 DEF ProgramOk, BatchOk, ReadsOk
<1>6. ASSUME Computing(p) PROVE ComputingOk(p)'
  <2>1. ComputingOk(p) /\ Footer(p)
    BY <1>1, <1>6 DEF ProgramOk, ComputingOk
  <2>2. \A m \in made'[p] : Current(p, m[2], m[1])'
    BY <1>1, <2>1 DEF ComputingOk, Current
  <2>3. \A e \in Dates, r \in Raws : Behind(p, e)' => Current(p, e, r)' /\ (Kind[p] = "owned" => Present(e, r)')
    BY <1>1, <2>1 DEF ComputingOk, Current, Present, Behind
  <2>4. Footer(p)'
    <3> SUFFICES ASSUME NEW e \in DatesOf(p), NEW r \in Raws
                 PROVE  /\ r \notin known'[p] => <<r, e>> \in missing'[p]
                        /\ r \in known'[p] /\ e \notin todo'[p] => <<r, e>> \in missing'[p] \/ Present(e, r)'
      BY <1>2 DEF Footer
    <3> QED
      BY <1>1, <1>2, <2>1 DEF Footer, Present
  <2>5. refresh'[p] => known'[p] = {}
    BY <1>1, <2>1 DEF ComputingOk
  <2> QED
    BY <1>1, <2>2, <2>3, <2>4, <2>5 DEF ComputingOk
<1>7. ASSUME Kind[p] = "prepared" PROVE PreparedOk(p)'
  <2>1. PreparedOk(p) /\ BatchOk(p)
    BY <1>7 DEF ProgramOk
  <2>2. d \in DatesOf(p) /\ \A q \in After[p] : pc[q] = "done"
    BY <1>1, <2>1 DEF PreparedOk
  <2>3. \A r \in Raws : Present(d, r)
    BY <1>7, <2>1, <2>2, PreparedDates
  <2>4. missing'[p] = {}
    BY <1>1, <1>2, <2>1, <2>3 DEF PreparedOk
  <2> QED
    BY <1>1, <1>2, <2>1, <2>4 DEF PreparedOk
<1>8. ASSUME Kind[p] = "publish" PROVE FALSE
  BY <1>1, <1>8 DEF ProgramOk, PublishOk
<1> QED
  BY <1>3, <1>4, <1>5, <1>6, <1>7, <1>8 DEF Preserved, ProgramOk

LEMMA CheckedStep ==
  ASSUME OneVersion, Documented, CacheInv, NEW p \in Programs, Checked(p), UNCHANGED refresh
  PROVE  Preserved(p)
<1> USE DEF CacheInv
<1> DEFINE left == missing[p] \ made[p]
<1>1. /\ pc[p] = "footers" /\ todo[p] = {}
      /\ missing' = [missing EXCEPT ![p] = left]
      /\ UNCHANGED <<file, meta, batch, made, known, got>>
  BY DEF Checked, Visited
<1>2. missing'[p] = left
  BY <1>1 DEF Typed
<1>3. IF Kind[p] = "prepared"
      THEN IF missing[p] = {} THEN Loop(p, "load", DatesOf(p)) ELSE Loop(p, "refused", {})
      ELSE Loop(p, "write", {m[2] : m \in left})
  BY <1>2 DEF Checked
<1>4. Typed'
  <2>1. {m[2] : m \in left} \subseteq Dates /\ left \subseteq Raws \X Dates /\ DatesOf(p) \subseteq Dates
    BY BatchDates DEF Typed, ProgramOk
  <2> HIDE DEF left
  <2> QED
    BY <1>1, <1>3, <2>1 DEF Typed, Loop, Goto, Pcs
<1>5. FilesOk' /\ Grows /\ RecordsKept
  BY <1>1, FilesUntouched, RecordsUntouched
<1>6. BatchOk(p)' /\ ReadsOk(p)' /\ DatesOf(p)' = DatesOf(p)
  BY <1>1 DEF ProgramOk, BatchOk, ReadsOk, DatesOf
<1>7. ASSUME Computing(p) PROVE ComputingOk(p)'
  <2>1. ComputingOk(p) /\ Footer(p) /\ (refresh[p] => known[p] = {})
    BY <1>1, <1>7 DEF ProgramOk, ComputingOk
  <2>2. pc'[p] = "write" /\ todo'[p] = {m[2] : m \in left}
    BY <1>3, <1>7 DEF Computing, Loop, Goto, Typed
  <2>3. \A m \in made'[p] : Current(p, m[2], m[1])'
    BY <1>1, <2>1 DEF ComputingOk, Current
  <2>4. \A d \in Dates, r \in Raws : Behind(p, d)' => Current(p, d, r)' /\ (Kind[p] = "owned" => Present(d, r)')
    BY <1>1, <2>1, <2>2 DEF ComputingOk, Current, Present, Behind
  <2>5. Writing(p)'
    <3> SUFFICES ASSUME NEW d \in DatesOf(p), NEW r \in Raws
                 PROVE  Current(p, d, r)' \/ (<<r, d>> \in missing'[p] /\ d \in todo'[p])
      BY <1>6 DEF Writing
    <3>1. CASE <<r, d>> \in missing[p]
      <4>1. CASE <<r, d>> \in made[p]
        BY <2>3, <1>1, <4>1
      <4>2. CASE <<r, d>> \notin made[p]
        BY <1>2, <2>2, <3>1, <4>2
      <4> QED
        BY <4>1, <4>2
    <3>2. CASE <<r, d>> \notin missing[p]
      <4>1. r \in known[p] /\ Present(d, r) /\ ~refresh[p]
        BY <1>1, <2>1, <3>2 DEF Footer
      <4>2. Current(p, d, r)
        BY <1>7, <4>1 DEF FilesOk, Current, Present
      <4> QED
        BY <1>1, <4>2 DEF Current
    <3> QED
      BY <3>1, <3>2
  <2> QED
    BY <2>2, <2>3, <2>4, <2>5 DEF ComputingOk
<1>8. ASSUME Kind[p] = "prepared" PROVE PreparedOk(p)'
  <2>1. PreparedOk(p) /\ missing[p] = {}
    BY <1>1, <1>8 DEF ProgramOk, PreparedOk
  <2>2. pc' = [pc EXCEPT ![p] = "load"] /\ todo' = [todo EXCEPT ![p] = DatesOf(p)]
    BY <1>3, <1>8, <2>1 DEF Loop, Goto
  <2>3. \A q \in After[p] : pc'[q] = "done"
    BY <1>1, <2>1, <2>2, AfterArePrograms DEF PreparedOk, Typed
  <2> QED
    BY <1>6, <2>1, <2>2, <2>3 DEF PreparedOk, Typed
<1>9. ASSUME Kind[p] = "publish" PROVE FALSE
  BY <1>1, <1>9 DEF ProgramOk, PublishOk
<1> QED
  BY <1>4, <1>5, <1>6, <1>7, <1>8, <1>9 DEF Preserved, ProgramOk

LEMMA WriteStep ==
  ASSUME OneVersion, CacheInv, NEW p \in Programs, Write(p), UNCHANGED refresh
  PROVE  Preserved(p)
<1> USE DEF CacheInv
<1>1. PICK d \in Dates :
        /\ pc[p] = "write" /\ d \in todo[p] /\ todo' = [todo EXCEPT ![p] = @ \ {d}]
        /\ file' = [file EXCEPT ![d] = Computed(p, d, MissingIds(p))]
        /\ made' = [made EXCEPT ![p] = @ \union (MissingIds(p) \X {d})]
        /\ UNCHANGED <<meta, pc, batch, known, missing, got>>
  BY DEF Write, Visiting, Step
<1>2. Computing(p)
  BY <1>1, CacheAssumption DEF ProgramOk, PreparedOk, PublishOk, Computing
<1>3. ComputingOk(p) /\ Writing(p)
  BY <1>1, <1>2 DEF ProgramOk, ComputingOk
<1>4. MissingIds(p) \subseteq Raws
  BY DEF MissingIds, Typed
<1>5. \A e \in Dates, r \in Raws :
        file'[e][r] = IF e = d /\ r \in MissingIds(p) /\ d \in DataDates THEN Version[p] ELSE file[e][r]
  BY <1>1 DEF Typed, Computed
<1>6. Typed'
  <2>1. Computed(p, d, MissingIds(p)) \in [Raws -> Values]
    BY DEF Typed, Computed, Values
  <2>2. file' \in [Dates -> [Raws -> Values]]
    BY <1>1, <2>1 DEF Typed
  <2>3. made'[p] \subseteq Raws \X Dates /\ made' = [made EXCEPT ![p] = made'[p]]
    BY <1>1, <1>4 DEF Typed
  <2> QED
    BY <1>1, <2>2, <2>3 DEF Typed
<1>7. Version[p] # Absent
  BY VersionAssumption
<1>8. Grows
  BY <1>5, <1>7 DEF Grows, Present, Current, OneVersion
<1>9. FilesOk'
  <2>1. \A e \in Dates \ DataDates, r \in Raws : file'[e][r] \in {Absent, Nulls}
    BY <1>5 DEF FilesOk
  <2>2. \A q \in Programs : Computing(q) =>
          refresh'[q] \/ \A e \in DataDates, r \in Raws : file'[e][r] \in {Absent, Version[q]}
    <3>1. \A q \in Programs : Version[q] = Version[p]
      BY DEF OneVersion
    <3>2. DataDates \subseteq Dates
      BY CacheAssumption
    <3> SUFFICES ASSUME NEW q \in Programs, Computing(q), ~refresh[q], NEW e \in DataDates, NEW r \in Raws
                 PROVE  file'[e][r] \in {Absent, Version[q]}
      OBVIOUS
    <3>3. file[e][r] \in {Absent, Version[q]}
      BY DEF FilesOk
    <3> QED
      BY <1>5, <3>1, <3>2, <3>3
  <2> QED
    BY <2>1, <2>2 DEF FilesOk
<1>10. BatchOk(p)' /\ ReadsOk(p)' /\ DatesOf(p)' = DatesOf(p) /\ DatesOf(p) \subseteq Dates
  BY <1>1, BatchDates DEF ProgramOk, BatchOk, ReadsOk, DatesOf
<1>11. ComputingOk(p)'
  <2>1. \A m \in made'[p] : Current(p, m[2], m[1])'
    <3> SUFFICES ASSUME NEW m \in made'[p] PROVE Current(p, m[2], m[1])'
      OBVIOUS
    <3>1. CASE m \in made[p]
      <4>1. m[1] \in Raws /\ m[2] \in Dates /\ Current(p, m[2], m[1])
        BY <1>3, <3>1 DEF Typed, ComputingOk
      <4> QED
        BY <1>8, <4>1 DEF Grows
    <3>2. CASE m \in MissingIds(p) \X {d}
      BY <1>4, <1>5, <3>2 DEF Current
    <3> QED
      BY <1>1, <3>1, <3>2 DEF Typed
  <2>2. \A e \in Dates, r \in Raws : Behind(p, e)' => Current(p, e, r)' /\ (Kind[p] = "owned" => Present(e, r)')
    BY <1>1, <1>3, <1>8 DEF ComputingOk, Behind, Grows
  <2>3. Writing(p)'
    <3> SUFFICES ASSUME NEW e \in DatesOf(p), NEW r \in Raws
                 PROVE  Current(p, e, r)' \/ (<<r, e>> \in missing'[p] /\ e \in todo'[p])
      BY <1>10 DEF Writing
    <3>1. CASE Current(p, e, r)
      BY <1>8, <1>10, <3>1 DEF Grows
    <3>2. CASE <<r, e>> \in missing[p] /\ e \in todo[p] /\ e = d
      BY <1>5, <3>2 DEF Current, MissingIds
    <3>3. CASE <<r, e>> \in missing[p] /\ e \in todo[p] /\ e # d
      BY <1>1, <3>3 DEF Typed
    <3> QED
      BY <1>3, <3>1, <3>2, <3>3 DEF Writing
  <2> QED
    BY <1>1, <2>1, <2>2, <2>3 DEF ComputingOk
<1> QED
  BY <1>1, <1>2, <1>6, <1>8, <1>9, <1>10, <1>11, RecordsUntouched DEF Preserved, ProgramOk, Computing

LEMMA WrittenStep ==
  ASSUME OneVersion, CacheInv, NEW p \in Programs, Written(p), UNCHANGED refresh
  PROVE  Preserved(p)
<1> USE DEF CacheInv
<1>1. /\ pc[p] = "write" /\ todo[p] = {}
      /\ IF Kind[p] = "owned" THEN Loop(p, "complete", DatesOf(p)) ELSE Loop(p, "record", {})
      /\ UNCHANGED <<file, meta, batch, made, known, missing, got>>
  BY DEF Written, Visited
<1>2. Computing(p)
  BY <1>1, CacheAssumption DEF ProgramOk, PreparedOk, PublishOk, Computing
<1>3. ComputingOk(p) /\ Writing(p)
  BY <1>1, <1>2 DEF ProgramOk, ComputingOk
<1>4. BatchOk(p)' /\ ReadsOk(p)' /\ DatesOf(p)' = DatesOf(p) /\ DatesOf(p) \subseteq Dates
  BY <1>1, BatchDates DEF ProgramOk, BatchOk, ReadsOk, DatesOf
<1>5. Typed'
  BY <1>1, <1>4 DEF Typed, Loop, Goto, Pcs
<1>6. FilesOk' /\ Grows /\ RecordsKept
  BY <1>1, FilesUntouched, RecordsUntouched
<1>7. \/ Kind[p] = "owned" /\ pc'[p] = "complete" /\ todo'[p] = DatesOf(p)
      \/ Kind[p] = "inline" /\ pc'[p] = "record" /\ todo'[p] = {}
  BY <1>1, <1>2 DEF Loop, Goto, Typed, Computing
<1>8. AllCurrent(p)'
  BY <1>1, <1>3, <1>4 DEF Writing, AllCurrent, Current
<1>9. \A m \in made'[p] : Current(p, m[2], m[1])'
  BY <1>1, <1>3 DEF ComputingOk, Current
<1>10. \A d \in Dates, r \in Raws : Behind(p, d)' => Current(p, d, r)' /\ (Kind[p] = "owned" => Present(d, r)')
  BY <1>1, <1>3, <1>7 DEF ComputingOk, Current, Present, Behind
<1>11. ComputingOk(p)'
  BY <1>4, <1>7, <1>8, <1>9, <1>10 DEF ComputingOk
<1> QED
  BY <1>2, <1>4, <1>5, <1>6, <1>11 DEF Preserved, ProgramOk, Computing

LEMMA RecordStep ==
  ASSUME OneVersion, CacheInv, NEW p \in Programs, Record(p), UNCHANGED refresh
  PROVE  Preserved(p)
<1> USE DEF CacheInv
<1>1. /\ pc[p] = "record"
      /\ meta' = [r \in Raws |-> IF r \in MissingIds(p) THEN Version[p] ELSE meta[r]]
      /\ pc' = [pc EXCEPT ![p] = "load"] /\ todo' = [todo EXCEPT ![p] = DatesOf(p)]
      /\ UNCHANGED <<file, batch, made, known, missing, got>>
  BY DEF Record, Loop, Goto
<1>2. Computing(p)
  BY <1>1, CacheAssumption DEF ProgramOk, PreparedOk, PublishOk, Computing
<1>3. ComputingOk(p) /\ AllCurrent(p)
  BY <1>1, <1>2 DEF ProgramOk, ComputingOk
<1>4. BatchOk(p)' /\ ReadsOk(p)' /\ DatesOf(p)' = DatesOf(p) /\ DatesOf(p) \subseteq Dates
  BY <1>1, BatchDates DEF ProgramOk, BatchOk, ReadsOk, DatesOf
<1>5. Typed'
  <2>1. meta' \in [Raws -> Values \union {None}]
    BY <1>1 DEF Typed, Values
  <2> QED
    BY <1>1, <1>4, <2>1 DEF Typed, Pcs
<1>6. FilesOk' /\ Grows
  BY <1>1, FilesUntouched
<1>7. RecordsKept
  BY <1>1 DEF RecordsKept, OneVersion
<1>8. pc'[p] = "load" /\ todo'[p] = DatesOf(p)
  BY <1>1 DEF Typed
<1>9. \A m \in made'[p] : Current(p, m[2], m[1])'
  BY <1>1, <1>3 DEF ComputingOk, Current
<1>10. \A d \in Dates, r \in Raws : Behind(p, d)' => Current(p, d, r)' /\ (Kind[p] = "owned" => Present(d, r)')
  BY <1>1, <1>3, <1>8 DEF ComputingOk, Current, Present, Behind
<1>11. AllCurrent(p)'
  BY <1>1, <1>3, <1>4 DEF AllCurrent, Current
<1>12. ComputingOk(p)'
  BY <1>1, <1>3, <1>4, <1>8, <1>9, <1>10, <1>11 DEF ComputingOk
<1> QED
  BY <1>2, <1>4, <1>5, <1>6, <1>7, <1>12 DEF Preserved, ProgramOk, Computing

LEMMA CompleteStep ==
  ASSUME OneVersion, CacheInv, NEW p \in Programs, Complete(p), UNCHANGED refresh
  PROVE  Preserved(p)
<1> USE DEF CacheInv
<1>1. PICK d \in Dates :
        /\ pc[p] = "complete" /\ d \in todo[p] /\ todo' = [todo EXCEPT ![p] = @ \ {d}]
        /\ file' = [file EXCEPT ![d] = [r \in Raws |-> IF file[d][r] = Absent THEN Nulls ELSE file[d][r]]]
        /\ UNCHANGED <<meta, pc, batch, made, known, missing, got>>
  BY DEF Complete, Visiting, Step
<1>2. Computing(p)
  BY <1>1, CacheAssumption DEF ProgramOk, PreparedOk, PublishOk, Computing
<1>3. ComputingOk(p) /\ AllCurrent(p) /\ d \in DatesOf(p)
  BY <1>1, <1>2 DEF ProgramOk, ComputingOk
<1>4. \A e \in Dates, r \in Raws :
        file'[e][r] = IF e = d /\ file[e][r] = Absent THEN Nulls ELSE file[e][r]
  BY <1>1 DEF Typed
<1>5. Typed'
  <2>1. file' \in [Dates -> [Raws -> Values]]
    BY <1>1 DEF Typed, Values
  <2> QED
    BY <1>1, <2>1 DEF Typed
<1>6. Version[p] # Absent /\ Nulls # Absent /\ \A q \in Programs : Version[q] # Absent
  BY VersionAssumption
<1>7. Grows
  BY <1>4, <1>6 DEF Grows, Present, Current
<1>8. d \in DataDates => \A r \in Raws : file[d][r] # Absent
  BY <1>3, <1>6 DEF AllCurrent, Current
<1>9. FilesOk'
  <2>1. \A e \in Dates \ DataDates, r \in Raws : file'[e][r] \in {Absent, Nulls}
    BY <1>4 DEF FilesOk
  <2>2. \A q \in Programs : Computing(q) =>
          refresh'[q] \/ \A e \in DataDates, r \in Raws : file'[e][r] \in {Absent, Version[q]}
    <3>1. DataDates \subseteq Dates
      BY CacheAssumption
    <3> QED
      BY <1>4, <1>8, <3>1 DEF FilesOk
  <2> QED
    BY <2>1, <2>2 DEF FilesOk
<1>10. BatchOk(p)' /\ ReadsOk(p)' /\ DatesOf(p)' = DatesOf(p) /\ DatesOf(p) \subseteq Dates /\ todo'[p] = todo[p] \ {d}
  BY <1>1, BatchDates DEF ProgramOk, BatchOk, ReadsOk, DatesOf, Typed
<1>11. ComputingOk(p)'
  <2>1. \A m \in made'[p] : Current(p, m[2], m[1])'
    <3>1. \A m \in made[p] : m[1] \in Raws /\ m[2] \in Dates
      BY DEF Typed
    <3> QED
      BY <1>1, <1>3, <1>7, <3>1 DEF ComputingOk, Grows
  <2>2. \A e \in Dates, r \in Raws : Behind(p, e)' => Current(p, e, r)' /\ (Kind[p] = "owned" => Present(e, r)')
    BY <1>1, <1>3, <1>7 DEF ComputingOk, Behind, Grows
  <2>3. AllCurrent(p)'
    BY <1>3, <1>7, <1>10 DEF AllCurrent, Grows
  <2>4. \A e \in DatesOf(p) \ todo'[p], r \in Raws : Present(e, r)'
    BY <1>1, <1>3, <1>4, <1>6, <1>10 DEF ComputingOk, Present
  <2> QED
    BY <1>1, <1>3, <1>10, <2>1, <2>2, <2>3, <2>4 DEF ComputingOk
<1> QED
  BY <1>1, <1>2, <1>5, <1>7, <1>9, <1>10, <1>11, RecordsUntouched DEF Preserved, ProgramOk, Computing

LEMMA LoadStep ==
  ASSUME OneVersion, Documented, CacheInv, NEW p \in Programs, Load(p), UNCHANGED refresh
  PROVE  Preserved(p)
<1> USE DEF CacheInv
<1>1. PICK d \in Dates :
        /\ pc[p] = "load" /\ d \in todo[p] /\ todo' = [todo EXCEPT ![p] = @ \ {d}]
        /\ got' = [got EXCEPT ![p] = @ \union {<<d, r, file[d][r]>> : r \in Raws}]
        /\ UNCHANGED <<file, meta, pc, batch, made, known, missing>>
  BY DEF Load, Visiting, Step
<1>2. /\ got'[p] = got[p] \union {<<d, r, file[d][r]>> : r \in Raws}
      /\ todo'[p] = todo[p] \ {d} /\ DatesOf(p)' = DatesOf(p) /\ BatchOk(p) /\ BatchOk(p)'
  BY <1>1 DEF Typed, DatesOf, ProgramOk, BatchOk
<1>3. Typed'
  <2>1. {<<d, r, file[d][r]>> : r \in Raws} \subseteq Dates \X Raws \X Values
    BY DEF Typed
  <2> QED
    BY <1>1, <2>1 DEF Typed
<1>4. FilesOk' /\ Grows /\ RecordsKept
  BY <1>1, FilesUntouched, RecordsUntouched
<1>5. \A r \in Raws : Current(p, d, r)
  <2>1. CASE Computing(p)
    BY <1>1, <2>1 DEF ProgramOk, ComputingOk, AllCurrent
  <2>2. CASE Kind[p] = "prepared"
    <3>1. d \in DatesOf(p) /\ \A q \in After[p] : pc[q] = "done"
      BY <1>1, <2>2 DEF ProgramOk, PreparedOk
    <3> QED
      BY <1>2, <2>2, <3>1, PreparedDates
  <2>3. CASE Kind[p] = "publish"
    BY <1>1, <2>3 DEF ProgramOk, PublishOk
  <2> QED
    BY <2>1, <2>2, <2>3, CacheAssumption DEF Computing
<1>6. ReadsOk(p)'
  <2>1. \A r \in Raws : IF d \in DataDates THEN file[d][r] = Version[p] ELSE file[d][r] \in {Absent, Nulls}
    BY <1>5 DEF Current, FilesOk
  <2> QED
    BY <1>2, <2>1 DEF ProgramOk, ReadsOk
<1>7. ASSUME Computing(p) PROVE ComputingOk(p)'
  <2>1. ComputingOk(p)
    BY <1>7 DEF ProgramOk
  <2>2. \A m \in made'[p] : Current(p, m[2], m[1])'
    BY <1>1, <2>1 DEF ComputingOk, Current
  <2>3. \A e \in Dates, r \in Raws : Behind(p, e)' => Current(p, e, r)' /\ (Kind[p] = "owned" => Present(e, r)')
    BY <1>1, <2>1 DEF ComputingOk, Current, Present, Behind
  <2>4. AllCurrent(p)'
    BY <1>1, <1>2, <2>1 DEF ComputingOk, AllCurrent, Current
  <2> QED
    BY <1>1, <1>2, <2>1, <2>2, <2>3, <2>4 DEF ComputingOk
<1>8. Kind[p] = "prepared" => PreparedOk(p)'
  BY <1>1, <1>2 DEF ProgramOk, PreparedOk
<1>9. Kind[p] = "publish" => PublishOk(p)'
  BY <1>1 DEF ProgramOk, PublishOk
<1> QED
  BY <1>2, <1>3, <1>4, <1>6, <1>7, <1>8, <1>9 DEF Preserved, ProgramOk

LEMMA NextBatchStep ==
  ASSUME OneVersion, Documented, CacheInv, NEW p \in Programs, NextBatch(p), UNCHANGED refresh
  PROVE  Preserved(p)
<1> USE DEF CacheInv
<1>1. /\ pc[p] \in {"complete", "load"} /\ todo[p] = {}
      /\ \/ batch[p] < Len(Batches[p]) /\ pc' = [pc EXCEPT ![p] = "records"] /\ batch' = [batch EXCEPT ![p] = @ + 1]
         \/ batch[p] >= Len(Batches[p]) /\ pc' = [pc EXCEPT ![p] = "done"] /\ UNCHANGED batch
      /\ UNCHANGED <<file, meta, made, known, missing, todo, got>>
  BY CacheAssumption DEF NextBatch, Visited, Goto, Typed
<1>2. DOMAIN Batches[p] = 1 .. Len(Batches[p]) /\ Len(Batches[p]) \in Nat /\ batch[p] \in DOMAIN Batches[p]
  BY CacheAssumption DEF ProgramOk, BatchOk
<1>3. Typed'
  <2>1. batch' \in [Programs -> Nat] /\ pc' \in [Programs -> Pcs]
    <3>1. batch[p] + 1 \in Nat
      BY DEF Typed
    <3> QED
      BY <1>1, <3>1 DEF Typed, Pcs
  <2> QED
    BY <1>1, <2>1 DEF Typed
<1>4. FilesOk' /\ Grows /\ RecordsKept
  BY <1>1, FilesUntouched, RecordsUntouched
<1>5. BatchOk(p)' /\ ReadsOk(p)'
  BY <1>1, <1>2 DEF ProgramOk, BatchOk, ReadsOk, Typed
<1>6. /\ pc'[p] \in {"records", "done"}
      /\ \A d : Behind(p, d)' => Behind(p, d) \/ d \in DatesOf(p)
  BY <1>1, <1>2 DEF Behind, DatesOf, Typed
<1>7. ASSUME Computing(p) PROVE ComputingOk(p)'
  <2>1. ComputingOk(p)
    BY <1>7 DEF ProgramOk
  <2>2. \A m \in made'[p] : Current(p, m[2], m[1])'
    BY <1>1, <2>1 DEF ComputingOk, Current
  <2>3. \A d \in DatesOf(p), r \in Raws : Current(p, d, r) /\ (Kind[p] = "owned" => Present(d, r))
    BY <1>1, <2>1 DEF ComputingOk, AllCurrent
  <2>4. \A d \in Dates, r \in Raws : Behind(p, d)' => Current(p, d, r)' /\ (Kind[p] = "owned" => Present(d, r)')
    BY <1>1, <1>6, <2>1, <2>3 DEF ComputingOk, Current, Present
  <2> QED
    BY <1>6, <2>2, <2>4 DEF ComputingOk
<1>8. ASSUME Kind[p] = "prepared" PROVE PreparedOk(p)'
  <2>1. PreparedOk(p) /\ \A q \in After[p] : pc[q] = "done"
    BY <1>1, <1>8 DEF ProgramOk, PreparedOk
  <2>2. \A q \in After[p] : pc'[q] = "done"
    BY <1>1, <2>1, AfterArePrograms DEF Typed
  <2> QED
    BY <1>6, <2>1, <2>2 DEF PreparedOk
<1>9. ASSUME Kind[p] = "publish" PROVE FALSE
  BY <1>1, <1>9 DEF ProgramOk, PublishOk
<1> QED
  BY <1>3, <1>4, <1>5, <1>7, <1>8, <1>9 DEF Preserved, ProgramOk

LEMMA RestartStep ==
  ASSUME CacheInv, NEW p \in Programs, Restart(p), UNCHANGED refresh
  PROVE  Preserved(p)
<1> USE DEF CacheInv
<1>1. Typed'
  BY DEF Restart, Goto, Typed, Pcs
<1>2. FilesOk' /\ Grows /\ RecordsKept
  BY FilesUntouched, RecordsUntouched DEF Restart
<1>3. pc'[p] = "records" /\ batch'[p] = 1 /\ made'[p] = {} /\ got'[p] = {}
  BY DEF Restart, Goto, Typed
<1>4. BatchOk(p)' /\ ReadsOk(p)'
  BY <1>3, CacheAssumption DEF BatchOk, ReadsOk
<1>5. \A d : ~Behind(p, d)'
  BY <1>3, CacheAssumption DEF Behind
<1>6. ComputingOk(p)'
  BY <1>3, <1>5 DEF ComputingOk
<1>7. (Kind[p] = "prepared" => PreparedOk(p)') /\ PublishOk(p)'
  BY <1>3 DEF ProgramOk, PreparedOk, PublishOk
<1> QED
  BY <1>1, <1>2, <1>4, <1>6, <1>7 DEF Preserved, ProgramOk

-----------------------------------------------------------------------------
(* The theorems. *)

LEMMA ProgramStep ==
  ASSUME OneVersion, Documented, CacheInv, NEW p \in Programs, Program(p), UNCHANGED refresh
  PROVE  CacheInv'
<1>1. Preserved(p)
  BY PublishStep, ReadRecordsStep, ReadFooterStep, CheckedStep, WriteStep, WrittenStep, RecordStep,
     CompleteStep, LoadStep, NextBatchStep, RestartStep DEF Program
<1>2. DoneStays /\ \A q \in Programs \ {p} : Untouched(q)
  BY StepFrame DEF CacheInv
<1>3. ASSUME NEW q \in Programs \ {p} PROVE ProgramOk(q)'
  BY <1>1, <1>2, OthersKept DEF CacheInv, Preserved
<1> QED
  BY <1>1, <1>3 DEF CacheInv, Preserved

LEMMA CacheInductive ==
  ASSUME OneVersion, Documented PROVE CacheInv /\ [Next]_vars => CacheInv'
<1>1. ASSUME CacheInv, UNCHANGED vars PROVE CacheInv'
  BY <1>1 DEF CacheInv, vars, Typed, FilesOk, ProgramOk, BatchOk, ReadsOk, ComputingOk, PreparedOk, PublishOk,
     Current, Present, Behind, Footer, Writing, AllCurrent, DatesOf
<1> QED
  BY <1>1, ProgramStep DEF Next

\* With one version, a refresh after a change of version, and prepared runs after the
\* publication and the owners of their dates, every value that any program reads is of that
\* version, on every date with observations: for every number of programs and batches, over
\* whatever cache was there, however often any of them dies (missing_dates_many,
\* materialize_intraday_raw_table, load_raw_by_dates).
THEOREM CacheIsCurrent ==
  ASSUME OneVersion, Refreshed, Documented
  PROVE  Spec => []ReadsCurrent
<1>1. CacheInv => ReadsCurrent
  BY DEF CacheInv, ProgramOk, ReadsOk, ReadsCurrent
<1> QED
  BY <1>1, InitInv, CacheInductive, PTL DEF Spec

\* Under the same conditions no prepared run is ever refused.
THEOREM DocumentedOrderSuffices ==
  ASSUME OneVersion, Refreshed, Documented
  PROVE  Spec => []OrderSuffices
<1>1. CacheInv => OrderSuffices
  BY CacheAssumption DEF CacheInv, ProgramOk, Computing, ComputingOk, PreparedOk, PublishOk, OrderSuffices
<1> QED
  BY <1>1, InitInv, CacheInductive, PTL DEF Spec
=============================================================================
