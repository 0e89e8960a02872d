-------------------------- MODULE FactorFilesProofs --------------------------
(***************************************************************************)
(* TLAPS proofs about FactorFiles and FactorReads, for every set of columns,*)
(* stocks, cell values, programs and readers. The first part is about the   *)
(* programs that write the files; the second about readers without locks:   *)
(* where nothing migrates and nothing is removed, they return what the      *)
(* logical table held.                                                      *)
(***************************************************************************)
EXTENDS FactorReads, TLAPS


\* What a writer may be asked to write.
Requests == [Columns -> [Syms -> Cells \union {Keep}] \union {Absent}]

LEMMA RequestType ==
  /\ Empty \in Tables /\ Empty \in Requests
  /\ ManualUpdates \subseteq Requests
  /\ MlUpdates \subseteq Requests
<1>1. Empty \in Tables /\ Empty \in Requests
  BY DEF Empty, Tables, Requests
<1>2. ASSUME NEW cs \in SUBSET Columns, NEW xs \in SUBSET (Cells \union {Keep}),
             NEW u \in LT!Updates(cs, xs)
      PROVE  LT!Extend(u) \in Requests
  BY DEF LT!Updates, LT!Extend, Requests
<1>3. Owned({"manual"}) \subseteq Columns /\ Owned({"ml", "none"}) \subseteq Columns
  BY DEF Owned
<1>4. ManualUpdates \subseteq Requests
  <2> SUFFICES ASSUME NEW v \in ManualUpdates PROVE v \in Requests
    OBVIOUS
  <2>1. PICK u \in LT!Updates(Owned({"manual"}), Cells \union {Keep}) : v = LT!Extend(u)
    BY DEF ManualUpdates
  <2> QED
    BY <2>1, <1>2, <1>3
<1>5. MlUpdates \subseteq Requests
  <2> SUFFICES ASSUME NEW v \in MlUpdates PROVE v \in Requests
    OBVIOUS
  <2>1. PICK u \in LT!Updates(Owned({"ml", "none"}), Cells) : v = LT!Extend(u)
    BY DEF MlUpdates
  <2> QED
    BY <2>1, <1>2, <1>3
<1> QED
  BY <1>1, <1>4, <1>5

\* An update applied to a file is a file.
LEMMA OverlayType ==
  ASSUME NEW t \in Tables,
         NEW u \in Requests
  PROVE  LT!Overlay(t, u) \in Tables
<1>1. ASSUME NEW c \in Columns, u[c] # Absent
      PROVE  LT!Patched(t[c], u[c]) \in Sections
  <2>1. u[c] \in [Syms -> Cells \union {Keep}]
    BY <1>1 DEF Requests
  <2>2. t[c] = Absent \/ t[c] \in [Syms -> Cells]
    BY DEF Tables, Sections
  <2> QED
    BY <2>1, <2>2, CellAssumption DEF LT!Patched, Sections
<1> QED
  BY <1>1 DEF LT!Overlay, Tables

-----------------------------------------------------------------------------
\* A step of program p, whichever it is.
StepOf(p) ==
  \/ p \in ManualWriters /\ ManualWriter(p)
  \/ p \in MlWriters /\ MlWriter(p)
  \/ p \in Migrators /\ Migrator(p)
  \/ p \in Removers /\ Remover(p)
  \/ p \in Programs /\ Fail(p)

LEMMA NextIsAStep == Next => \E p \in Programs : StepOf(p)
BY DEF Next, StepOf, Programs

\* Types, and which program does what with which values.
TypeInv ==
  /\ tab \in [Parts -> Tables]
  /\ present \in [Parts -> BOOLEAN]
  /\ lock \in [Parts -> Programs \union {Free}]
  /\ pc \in [Programs -> Pcs]
  /\ part \in [Programs -> Parts]
  /\ upd \in [Programs -> Requests]
  /\ cols \in [Programs -> SUBSET Columns]
  /\ todo \in [Programs -> SUBSET Parts]
  /\ buf \in [Programs -> Tables]

LEMMA ViewType == ASSUME TypeInv PROVE View \in Tables
BY DEF TypeInv, View, Tables, Parts

\* TypeInv holds initially and every program preserves it.
LEMMA TypeInit == Init => TypeInv
<1> SUFFICES ASSUME Init PROVE TypeInv
  OBVIOUS
<1>1. tab \in [Parts -> Tables] /\ present \in [Parts -> BOOLEAN]
  BY DEF Init
<1>2. lock \in [Parts -> Programs \union {Free}] /\ pc \in [Programs -> Pcs]
  BY DEF Init, Pcs
<1>3. part \in [Programs -> Parts] /\ cols \in [Programs -> SUBSET Columns]
      /\ todo \in [Programs -> SUBSET Parts]
  BY DEF Init, Parts
<1>4. upd \in [Programs -> Requests] /\ buf \in [Programs -> Tables]
  BY RequestType DEF Init
<1> QED
  BY <1>1, <1>2, <1>3, <1>4 DEF TypeInv

LEMMA ForgetType ==
  ASSUME TypeInv, NEW p \in Programs, End(p), tab' \in [Parts -> Tables],
         present' \in [Parts -> BOOLEAN]
  PROVE  TypeInv'
BY RequestType DEF TypeInv, Pcs, End, Goto, Released, Forget, Parts

LEMMA RenameType ==
  ASSUME TypeInv, NEW p \in Programs, NEW f \in Parts, Rename(p, f)
  PROVE  tab' \in [Parts -> Tables] /\ present' \in [Parts -> BOOLEAN]
BY DEF TypeInv, Rename

LEMMA TypeStep ==
  ASSUME TypeInv, NEW p \in Programs, StepOf(p)
  PROVE  TypeInv'
<1> USE DEF Parts, Pcs
<1>1. ASSUME NEW f \in Parts, NEW updates \in SUBSET Requests, BeginWrite(p, f, updates)
      PROVE  TypeInv'
  BY <1>1 DEF TypeInv, BeginWrite, Acquire, Goto
<1>2. CASE Merge(p)
  <2>1. Merged(p) \in Tables
    BY OverlayType DEF TypeInv, Merged
  <2> QED
    BY <1>2, <2>1 DEF TypeInv, Merge, Goto
<1>3. CASE Publish(p)
  <2>1. tab' \in [Parts -> Tables] /\ present' \in [Parts -> BOOLEAN]
    BY <1>3, RenameType DEF Publish, TypeInv
  <2> QED
    BY <1>3, <2>1, ForgetType DEF Publish
<1>4. CASE BeginEnsure(p)
  <2>1. PICK c \in Columns : upd' = [upd EXCEPT ![p] = [Empty EXCEPT ![c] = Nulls]]
    BY <1>4, EnsuredAssumption DEF BeginEnsure
  <2>2. Nulls \in Sections
    BY CellAssumption DEF Nulls, Sections
  <2>3. [Empty EXCEPT ![c] = Nulls] \in Requests
    BY <2>2 DEF Empty, Requests, Sections
  <2> QED
    BY <1>4, <2>1, <2>3 DEF TypeInv, BeginEnsure, Goto
<1>5. CASE Ensure(p)
  <2>1. CASE End(p) /\ UNCHANGED <<tab, present>>
    BY <2>1, ForgetType DEF TypeInv
  <2>2. CASE ~End(p)
    BY <1>5, <2>2 DEF TypeInv, Ensure, Acquire, Goto, locals
  <2> QED
    BY <1>5, <2>1, <2>2 DEF Ensure
<1>6. CASE BeginMigrate(p) \/ LockMl(p)
  BY <1>6 DEF TypeInv, BeginMigrate, LockMl, Acquire, Goto, locals
<1>7. CASE PlanMigrate(p)
  <2>1. CASE End(p) /\ UNCHANGED <<tab, present>>
    BY <2>1, ForgetType DEF TypeInv
  <2>2. CASE ~End(p)
    BY <1>7, <2>2 DEF TypeInv, PlanMigrate, Goto, InFile
  <2> QED
    BY <1>7, <2>1, <2>2 DEF PlanMigrate
<1>8. CASE BuildMl(p)
  <2>1. [c \in Columns |-> IF c \in cols[p] \union InFile("ml") THEN View[c] ELSE Absent] \in Tables
    BY ViewType DEF Tables
  <2> QED
    BY <1>8, <2>1 DEF TypeInv, BuildMl, Goto
<1>9. CASE PublishMl(p)
  BY <1>9, RenameType DEF PublishMl, TypeInv, Goto, locals
<1>10. CASE BuildManual(p)
  <2>1. [c \in Columns |-> IF c \in cols[p] THEN Absent ELSE tab["manual"][c]] \in Tables
    BY DEF Tables, TypeInv
  <2> QED
    BY <1>10, <2>1 DEF TypeInv, BuildManual, Goto
<1>11. CASE PublishManual(p)
  <2>1. tab' \in [Parts -> Tables] /\ present' \in [Parts -> BOOLEAN]
    BY <1>11, RenameType DEF PublishManual
  <2> QED
    BY <1>11, <2>1, ForgetType DEF PublishManual
<1>12. CASE BeginRemove(p) \/ LockRemove(p)
  BY <1>12, RemovableAssumption DEF TypeInv, BeginRemove, LockRemove, Acquire, Goto, locals
<1>13. ASSUME NextFile(p), tab' \in [Parts -> Tables], present' \in [Parts -> BOOLEAN]
       PROVE  TypeInv'
  BY <1>13, RequestType DEF TypeInv, NextFile, Goto, Released
<1>14. CASE Strip(p)
  <2>1. CASE NextFile(p) /\ UNCHANGED <<tab, present>>
    BY <2>1, <1>13 DEF TypeInv
  <2>2. CASE ~NextFile(p)
    <3>1. [c \in Columns |-> IF c \in cols[p] THEN Absent ELSE tab[part[p]][c]] \in Tables
      BY DEF Tables, TypeInv
    <3> QED
      BY <1>14, <2>2, <3>1 DEF TypeInv, Strip, Goto
  <2> QED
    BY <1>14, <2>1, <2>2 DEF Strip
<1>15. CASE PublishRest(p)
  <2>1. tab' \in [Parts -> Tables] /\ present' \in [Parts -> BOOLEAN]
    BY <1>15, RenameType DEF PublishRest, TypeInv
  <2> QED
    BY <1>15, <2>1, <1>13 DEF PublishRest
<1>16. CASE EndRemove(p) \/ Fail(p)
  BY <1>16, ForgetType DEF EndRemove, Fail, TypeInv
<1> QED
  BY <1>1, <1>2, <1>3, <1>4, <1>5, <1>6, <1>7, <1>8, <1>9, <1>10, <1>11, <1>12, <1>14, <1>15,
     <1>16, RequestType DEF StepOf, ManualWriter, MlWriter, Migrator, Remover

\* The variables of FactorFiles keep their types.
THEOREM FilesTyped == Spec => []TypeOK
<1>1. Init => TypeInv
  BY TypeInit
<1>2. TypeInv /\ [Next]_vars => TypeInv'
  <2> SUFFICES ASSUME TypeInv, [Next]_vars PROVE TypeInv'
    OBVIOUS
  <2>1. CASE Next
    BY <2>1, NextIsAStep, TypeStep
  <2>2. CASE UNCHANGED vars
    BY <2>2 DEF vars, TypeInv
  <2> QED
    BY <2>1, <2>2
<1>3. TypeInv => TypeOK
  BY DEF TypeInv, TypeOK, Requests
<1> QED
  BY <1>1, <1>2, <1>3, PTL DEF Spec
-----------------------------------------------------------------------------
(* Locks: what a program has read stays as it is until the program publishes. *)

LEMMA LocksInit == Init => FilesInv
<1> SUFFICES ASSUME Init PROVE FilesInv
  OBVIOUS
<1>1. \A p \in Programs : pc[p] = "idle"
  BY DEF Init
<1>2. LocksHeld
  BY <1>1 DEF LocksHeld, Held
<1>3. NoLostUpdate /\ MigrationStages
  BY <1>1 DEF NoLostUpdate, MigrationStages
<1>4. Ownership
  BY <1>1 DEF Ownership, Programs
<1>5. Provenance
  BY <1>1 DEF Init, Provenance, InFile, Owned
<1> QED
  BY <1>2, <1>3, <1>4, <1>5 DEF FilesInv

\* A program's step leaves every other program alone: its locals, its locks and the
\* files it has locked.
LEMMA StepFrame ==
  ASSUME TypeInv, LocksHeld, NEW q \in Programs, StepOf(q),
         NEW p \in Programs, p # q
  PROVE  /\ pc'[p] = pc[p] /\ part'[p] = part[p] /\ upd'[p] = upd[p]
         /\ cols'[p] = cols[p] /\ buf'[p] = buf[p]
         /\ \A f \in Held(p) : lock'[f] = p /\ tab'[f] = tab[f]
<1> USE DEF Parts
<1>0. /\ \A f \in Held(p) : lock[f] = p /\ f \in Parts
      /\ \A f \in Held(q) : lock[f] = q /\ f \in Parts
  BY DEF LocksHeld, Held, TypeInv
<1>a. ASSUME NEW f \in Parts, Acquire(q, f) PROVE \A g \in Held(p) : lock'[g] = p
  BY <1>a, <1>0, FreeAssumption DEF Acquire, TypeInv
<1>b. ASSUME lock' = Released(q) PROVE \A g \in Held(p) : lock'[g] = p
  BY <1>b, <1>0 DEF Released
<1>c. ASSUME NEW f \in Held(q), Rename(q, f) PROVE \A g \in Held(p) : tab'[g] = tab[g]
  BY <1>c, <1>0 DEF Rename, TypeInv
<1>1. ASSUME NEW f \in Parts, NEW updates, BeginWrite(q, f, updates)
      PROVE  /\ pc'[p] = pc[p] /\ part'[p] = part[p] /\ upd'[p] = upd[p]
             /\ cols'[p] = cols[p] /\ buf'[p] = buf[p]
             /\ \A g \in Held(p) : lock'[g] = p /\ tab'[g] = tab[g]
  BY <1>1, <1>a DEF BeginWrite, TypeInv, Goto
<1>2. CASE Merge(q)
  BY <1>2, <1>0 DEF Merge, TypeInv, Goto
<1>3. CASE Publish(q)
  <2>1. part[q] \in Held(q)
    BY <1>3 DEF Publish, Held, TypeInv
  <2> QED
    BY <1>3, <2>1, <1>b, <1>c DEF Publish, End, Forget, TypeInv, Goto
<1>4. CASE BeginEnsure(q) \/ BeginRemove(q)
  BY <1>4, <1>0 DEF BeginEnsure, BeginRemove, TypeInv, Goto, locals
<1>5. CASE Ensure(q)
  BY <1>5, <1>a, <1>b DEF Ensure, End, Forget, TypeInv, Goto, locals
<1>6. CASE BeginMigrate(q) \/ LockMl(q)
  BY <1>6, <1>a DEF BeginMigrate, LockMl, TypeInv, Goto, locals
<1>7. CASE PlanMigrate(q)
  BY <1>7, <1>0, <1>b DEF PlanMigrate, End, Forget, TypeInv, Goto
<1>8. CASE BuildMl(q) \/ BuildManual(q)
  BY <1>8, <1>0 DEF BuildMl, BuildManual, TypeInv, Goto
<1>9. CASE PublishMl(q)
  <2>1. "ml" \in Held(q)
    BY <1>9 DEF PublishMl, Held
  <2> QED
    BY <1>9, <2>1, <1>0, <1>c DEF PublishMl, TypeInv, Goto, locals
<1>10. CASE PublishManual(q)
  <2>1. "manual" \in Held(q)
    BY <1>10 DEF PublishManual, Held
  <2> QED
    BY <1>10, <2>1, <1>b, <1>c DEF PublishManual, End, Forget, TypeInv, Goto
<1>11. CASE LockRemove(q)
  <2>1. PICK f \in todo[q] : Acquire(q, f) /\ part' = [part EXCEPT ![q] = f]
    BY <1>11 DEF LockRemove
  <2>2. f \in Parts
    BY <2>1 DEF TypeInv
  <2> QED
    BY <1>11, <2>1, <2>2, <1>a DEF LockRemove, TypeInv, Goto
<1>12. CASE Strip(q)
  BY <1>12, <1>0, <1>b DEF Strip, NextFile, TypeInv, Goto
<1>13. CASE PublishRest(q)
  <2>1. part[q] \in Held(q)
    BY <1>13 DEF PublishRest, Held, TypeInv
  <2> QED
    BY <1>13, <2>1, <1>b, <1>c DEF PublishRest, NextFile, TypeInv, Goto
<1>14. CASE EndRemove(q) \/ Fail(q)
  BY <1>14, <1>b DEF EndRemove, Fail, End, Forget, TypeInv, Goto
<1> QED
  BY <1>1, <1>2, <1>3, <1>4, <1>5, <1>6, <1>7, <1>8, <1>9, <1>10, <1>11, <1>12, <1>13, <1>14
     DEF StepOf, ManualWriter, MlWriter, Migrator, Remover
\* The merged file of a program that does not move is the same before and after the
\* step of another one.
LEMMA MergedFrame ==
  ASSUME NEW p \in Programs, part'[p] = part[p], upd'[p] = upd[p], tab'[part[p]] = tab[part[p]]
  PROVE  Merged(p)' = Merged(p)
BY DEF Merged, LT!Overlay, LT!Patched

\* The view depends on the two files alone.
LEMMA ViewFrame == ASSUME tab'["manual"] = tab["manual"], tab'["ml"] = tab["ml"] PROVE View' = View
BY DEF View

LEMMA LocksStep ==
  ASSUME TypeInv, LocksHeld, NEW q \in Programs, StepOf(q)
  PROVE  LocksHeld'
<1> USE DEF Parts
<1>1. ASSUME NEW p \in Programs, p # q
      PROVE  (\A f \in Held(p)' : lock'[f] = p) /\ (pc'[p] = "ensure" => part'[p] = "ml")
  <2>1. Held(p)' = Held(p)
    BY <1>1, StepFrame DEF Held
  <2> QED
    BY <1>1, <2>1, StepFrame DEF LocksHeld
<1>2. (\A f \in Held(q)' : lock'[f] = q) /\ (pc'[q] = "ensure" => part'[q] = "ml")
  <2> USE DEF LocksHeld, Held, TypeInv, Goto
  <2>a. ASSUME End(q) PROVE Held(q)' = {} /\ pc'[q] = "idle"
    BY <2>a DEF End
  <2>1. ASSUME NEW f \in Parts, NEW updates, BeginWrite(q, f, updates)
        PROVE  (\A g \in Held(q)' : lock'[g] = q) /\ pc'[q] # "ensure"
    BY <2>1 DEF BeginWrite, Acquire
  <2>2. CASE Merge(q)
    BY <2>2 DEF Merge
  <2>3. CASE Publish(q)
    BY <2>3, <2>a DEF Publish
  <2>4. CASE BeginEnsure(q) \/ BeginRemove(q)
    BY <2>4 DEF BeginEnsure, BeginRemove, locals
  <2>5. CASE Ensure(q)
    BY <2>5, <2>a DEF Ensure, Acquire, locals
  <2>6. CASE BeginMigrate(q) \/ LockMl(q)
    BY <2>6 DEF BeginMigrate, LockMl, Acquire, locals
  <2>7. CASE PlanMigrate(q)
    BY <2>7, <2>a DEF PlanMigrate
  <2>8. CASE BuildMl(q) \/ PublishMl(q) \/ BuildManual(q)
    BY <2>8 DEF BuildMl, PublishMl, BuildManual, locals
  <2>9. CASE PublishManual(q)
    BY <2>9, <2>a DEF PublishManual
  <2>10. CASE LockRemove(q)
    BY <2>10 DEF LockRemove, Acquire
  <2>11. CASE Strip(q)
    BY <2>11 DEF Strip, NextFile
  <2>12. CASE PublishRest(q)
    BY <2>12 DEF PublishRest, NextFile
  <2>13. CASE EndRemove(q) \/ Fail(q)
    BY <2>13, <2>a DEF EndRemove, Fail
  <2> QED
    BY <2>1, <2>2, <2>3, <2>4, <2>5, <2>6, <2>7, <2>8, <2>9, <2>10, <2>11, <2>12, <2>13
       DEF StepOf, ManualWriter, MlWriter, Migrator, Remover
<1> QED
  BY <1>1, <1>2 DEF LocksHeld

LEMMA UpdateStep ==
  ASSUME TypeInv, LocksHeld, NoLostUpdate, NEW q \in Programs, StepOf(q)
  PROVE  NoLostUpdate'
<1>1. ASSUME NEW p \in Programs, p # q, pc'[p] \in {"publish", "publishPad"}
      PROVE  buf'[p] = Merged(p)'
  <2>1. pc[p] \in {"publish", "publishPad"} /\ part[p] \in Held(p)
    BY <1>1, StepFrame DEF Held, TypeInv
  <2>2. buf[p] = Merged(p) /\ buf'[p] = buf[p]
    BY <1>1, <2>1, StepFrame DEF NoLostUpdate
  <2> QED
    BY <1>1, <2>1, <2>2, StepFrame, MergedFrame
<1>2. ASSUME pc'[q] \in {"publish", "publishPad"}
      PROVE  buf'[q] = Merged(q)'
  <2> USE DEF TypeInv, Goto
  <2>1. CASE Merge(q)
    <3>1. Merged(q)' = Merged(q)
      BY <2>1, MergedFrame DEF Merge
    <3> QED
      BY <2>1, <3>1 DEF Merge
  <2>2. CASE Publish(q) \/ Ensure(q) \/ PlanMigrate(q) \/ PublishManual(q) \/ EndRemove(q) \/ Fail(q)
    BY <1>2, <2>2 DEF Publish, Ensure, PlanMigrate, PublishManual, EndRemove, Fail, End
  <2>3. CASE BeginEnsure(q) \/ BeginMigrate(q) \/ LockMl(q) \/ BuildMl(q) \/ PublishMl(q) \/ BuildManual(q)
    BY <1>2, <2>3 DEF BeginEnsure, BeginMigrate, LockMl, BuildMl, PublishMl, BuildManual
  <2>4. CASE BeginRemove(q) \/ LockRemove(q) \/ Strip(q) \/ PublishRest(q)
    BY <1>2, <2>4 DEF BeginRemove, LockRemove, Strip, PublishRest, NextFile
  <2>5. ASSUME NEW f, NEW updates, BeginWrite(q, f, updates) PROVE FALSE
    BY <1>2, <2>5 DEF BeginWrite
  <2> QED
    BY <2>1, <2>2, <2>3, <2>4, <2>5 DEF StepOf, ManualWriter, MlWriter, Migrator, Remover
<1> QED
  BY <1>1, <1>2 DEF NoLostUpdate
-----------------------------------------------------------------------------
(* Migrations.                                                              *)

\* What MigrationStages says of one program.
Stages(p) ==
  /\ pc[p] \in {"lockMl", "check", "publishMl"} => cols[p] \subseteq InFile("manual")
  /\ pc[p] \in {"lockMl", "check", "publishMl", "reread", "publishManual"} =>
       cols[p] \subseteq Owned({"ml"})
  /\ pc[p] \in {"reread", "publishManual"} => cols[p] \subseteq InFile("ml")
  /\ pc[p] = "publishMl" => buf[p] = [c \in Columns |->
       IF c \in cols[p] \union InFile("ml") THEN View[c] ELSE Absent]
  /\ pc[p] = "publishManual" => buf[p] = [c \in Columns |->
       IF c \in cols[p] THEN Absent ELSE tab["manual"][c]]

\* A moved column reads as something: it is in the manual file.
LEMMA MovedIsSeen ==
  ASSUME NEW c \in Columns, c \in InFile("manual")
  PROVE  View[c] # Absent
BY DEF View, InFile

LEMMA StagesOfOthers ==
  ASSUME TypeInv, LocksHeld, NEW q \in Programs, StepOf(q), NEW p \in Programs, p # q, Stages(p)
  PROVE  Stages(p)'
<1> USE DEF Parts
<1>1. pc'[p] = pc[p] /\ cols'[p] = cols[p] /\ buf'[p] = buf[p]
  BY StepFrame
<1>2. Owned({"ml"})' = Owned({"ml"})
  BY DEF Owned
<1>3. CASE pc[p] \in {"check", "publishMl", "reread", "publishManual"}
  <2>1. tab'["manual"] = tab["manual"] /\ tab'["ml"] = tab["ml"]
    BY <1>3, StepFrame DEF Held
  <2>2. InFile("manual")' = InFile("manual") /\ InFile("ml")' = InFile("ml")
    BY <2>1 DEF InFile
  <2>3. View' = View
    BY <2>1, ViewFrame
  <2> QED
    BY <1>1, <1>2, <2>1, <2>2, <2>3 DEF Stages
<1>4. CASE pc[p] = "lockMl"
  <2>1. tab'["manual"] = tab["manual"]
    BY <1>4, StepFrame DEF Held
  <2>2. InFile("manual")' = InFile("manual")
    BY <2>1 DEF InFile
  <2> QED
    BY <1>1, <1>2, <1>4, <2>2 DEF Stages
<1>5. CASE pc[p] \notin {"lockMl", "check", "publishMl", "reread", "publishManual"}
  BY <1>1, <1>5 DEF Stages
<1> QED
  BY <1>3, <1>4, <1>5

LEMMA StagesOfOwn ==
  ASSUME TypeInv, NEW q \in Programs, StepOf(q), Stages(q)
  PROVE  Stages(q)'
<1> USE DEF Parts, TypeInv, Goto
<1>1. ASSUME pc'[q] \notin {"lockMl", "check", "publishMl", "reread", "publishManual"}
      PROVE  Stages(q)'
  BY <1>1 DEF Stages
<1>2. CASE PlanMigrate(q)
  <2>1. CASE End(q)
    BY <1>1, <2>1 DEF End
  <2>2. CASE ~End(q)
    <3>1. tab' = tab /\ cols'[q] = InFile("manual") \intersect Owned({"ml"}) /\ pc'[q] = "lockMl"
      BY <1>2, <2>2 DEF PlanMigrate
    <3>2. InFile("manual")' = InFile("manual") /\ Owned({"ml"})' = Owned({"ml"})
      BY <3>1 DEF InFile, Owned
    <3> QED
      BY <3>1, <3>2 DEF Stages
  <2> QED
    BY <2>1, <2>2
<1>3. CASE LockMl(q)
  BY <1>3 DEF LockMl, locals, Stages, InFile, Owned
<1>4. CASE BuildMl(q)
  <2>1. tab' = tab /\ cols' = cols /\ pc[q] = "check" /\ pc'[q] = "publishMl"
        /\ buf'[q] = [c \in Columns |-> IF c \in cols[q] \union InFile("ml") THEN View[c] ELSE Absent]
    BY <1>4 DEF BuildMl
  <2>2. View' = View /\ \A f \in Parts : InFile(f)' = InFile(f)
    BY <2>1 DEF View, InFile
  <2> QED
    BY <2>1, <2>2 DEF Stages, Owned
<1>5. CASE PublishMl(q)
  <2>1. /\ pc[q] = "publishMl" /\ pc'[q] = "reread" /\ cols' = cols
        /\ tab'["ml"] = buf[q] /\ tab'["manual"] = tab["manual"]
    BY <1>5 DEF PublishMl, Rename, locals
  <2>2. ASSUME NEW c \in cols[q] PROVE tab'["ml"][c] # Absent
    <3>1. c \in Columns /\ c \in InFile("manual")
      BY <2>1 DEF Stages, InFile
    <3>2. tab'["ml"][c] = View[c]
      BY <2>1, <3>1 DEF Stages
    <3> QED
      BY <3>1, <3>2, MovedIsSeen
  <2>3. cols'[q] \subseteq InFile("ml")'
    BY <2>1, <2>2 DEF InFile
  <2> QED
    BY <2>1, <2>3 DEF Stages, Owned
<1>6. CASE BuildManual(q)
  <2>1. /\ tab' = tab /\ cols' = cols /\ pc[q] = "reread" /\ pc'[q] = "publishManual"
        /\ buf'[q] = [c \in Columns |-> IF c \in cols[q] THEN Absent ELSE tab["manual"][c]]
    BY <1>6 DEF BuildManual
  <2> QED
    BY <2>1 DEF Stages, InFile, Owned
<1>7. CASE Publish(q) \/ Ensure(q) \/ PublishManual(q) \/ EndRemove(q) \/ Fail(q) \/ Merge(q)
  BY <1>1, <1>7 DEF Publish, Ensure, PublishManual, EndRemove, Fail, Merge, End
<1>8. CASE BeginEnsure(q) \/ BeginMigrate(q)
  BY <1>1, <1>8 DEF BeginEnsure, BeginMigrate
<1>9. CASE BeginRemove(q) \/ LockRemove(q) \/ Strip(q) \/ PublishRest(q)
  BY <1>1, <1>9 DEF BeginRemove, LockRemove, Strip, PublishRest, NextFile
<1>10. ASSUME NEW f, NEW updates, BeginWrite(q, f, updates) PROVE Stages(q)'
  BY <1>1, <1>10 DEF BeginWrite
<1> QED
  BY <1>2, <1>3, <1>4, <1>5, <1>6, <1>7, <1>8, <1>9, <1>10
     DEF StepOf, ManualWriter, MlWriter, Migrator, Remover

LEMMA StagesStep ==
  ASSUME TypeInv, LocksHeld, MigrationStages, NEW q \in Programs, StepOf(q)
  PROVE  MigrationStages'
<1>1. ASSUME NEW p \in Programs PROVE Stages(p)'
  <2>1. Stages(p)
    BY DEF MigrationStages, Stages
  <2> QED
    BY <2>1, StagesOfOthers, StagesOfOwn
<1> QED
  BY <1>1 DEF MigrationStages, Stages
-----------------------------------------------------------------------------
(* Ownership.                                                               *)

\* A padding update is one an ML writer may make: a column of nulls.
LEMMA PaddingIsAnUpdate ==
  ASSUME NEW c \in Owned({"ml", "none"})
  PROVE  [Empty EXCEPT ![c] = Nulls] \in MlUpdates
<1> DEFINE u == [d \in Owned({"ml", "none"}) |-> IF d = c THEN Nulls ELSE Absent]
<1>1. Nulls \in [Syms -> Cells] /\ Nulls # Absent
  BY CellAssumption, AbsentAssumption DEF Nulls
<1>2. u \in LT!Updates(Owned({"ml", "none"}), Cells)
  BY <1>1 DEF LT!Updates
<1>3. LT!Extend(u) = [Empty EXCEPT ![c] = Nulls]
  BY DEF LT!Extend, Empty, Owned
<1>4. c \in Columns
  BY DEF Owned
<1>5. [Empty EXCEPT ![c] = Nulls] # Empty
  <2>1. [Empty EXCEPT ![c] = Nulls][c] # Empty[c]
    BY <1>1, <1>4 DEF Empty
  <2> QED
    BY <2>1
<1> QED
  BY <1>2, <1>3, <1>5 DEF MlUpdates

LEMMA OwnershipStep ==
  ASSUME TypeInv, LocksHeld, Ownership, NEW q \in Programs, StepOf(q)
  PROVE  Ownership'
<1> USE DEF TypeInv, Goto
<1>1. ASSUME NEW p \in Programs, p # q
      PROVE  pc'[p] = pc[p] /\ part'[p] = part[p] /\ upd'[p] = upd[p]
  BY <1>1, StepFrame
<1>2. ManualUpdates' = ManualUpdates /\ MlUpdates' = MlUpdates
  BY DEF ManualUpdates, MlUpdates, Owned, LT!Extend, LT!Updates, Empty
<1>3. ASSUME q \in ManualWriters, pc'[q] # "idle"
      PROVE  pc'[q] \in {"merge", "publish"} /\ part'[q] = "manual" /\ upd'[q] \in ManualUpdates
  <2>1. ManualWriter(q)
    BY <1>3, KindsAssumption DEF StepOf, Fail, End
  <2>2. CASE BeginWrite(q, "manual", ManualUpdates)
    BY <2>2 DEF BeginWrite
  <2>3. CASE Merge(q)
    BY <2>3, <1>3 DEF Merge, Ownership
  <2>4. ~Publish(q)
    BY <1>3 DEF Publish, End
  <2> QED
    BY <2>1, <2>2, <2>3, <2>4 DEF ManualWriter
<1>4. ASSUME q \in MlWriters, pc'[q] # "idle"
      PROVE  /\ pc'[q] \in {"merge", "publish", "ensure", "pad", "publishPad"}
             /\ part'[q] = "ml" /\ upd'[q] \in MlUpdates
  <2>1. MlWriter(q)
    BY <1>4, KindsAssumption DEF StepOf, Fail, End
  <2>2. CASE BeginWrite(q, "ml", MlUpdates)
    BY <2>2 DEF BeginWrite
  <2>3. CASE BeginEnsure(q)
    <3>1. PICK c \in Owned({"ml", "none"}) : upd' = [upd EXCEPT ![q] = [Empty EXCEPT ![c] = Nulls]]
      BY <2>3, EnsuredAssumption, OwnerAssumption DEF BeginEnsure, Owned
    <3> QED
      BY <2>3, <3>1, PaddingIsAnUpdate DEF BeginEnsure, Parts
  <2>4. CASE Ensure(q)
    BY <2>4, <1>4 DEF Ensure, Ownership, End, locals
  <2>5. CASE Merge(q)
    BY <2>5, <1>4 DEF Merge, Ownership
  <2>6. ~Publish(q)
    BY <1>4 DEF Publish, End
  <2> QED
    BY <2>1, <2>2, <2>3, <2>4, <2>5, <2>6 DEF MlWriter
<1>5. ASSUME q \in Migrators, pc'[q] # "idle"
      PROVE  pc'[q] \in {"plan", "lockMl", "check", "publishMl", "reread", "publishManual"}
  <2>1. Migrator(q)
    BY <1>5, KindsAssumption DEF StepOf, Fail, End
  <2> QED
    BY <2>1, <1>5 DEF Migrator, BeginMigrate, PlanMigrate, LockMl, BuildMl, PublishMl, BuildManual,
       PublishManual, End
<1>6. \A p \in ManualWriters \union MlWriters \union Migrators : p \in Programs
  BY DEF Programs
<1>7. ASSUME NEW p \in ManualWriters, pc'[p] # "idle"
      PROVE  pc'[p] \in {"merge", "publish"} /\ part'[p] = "manual" /\ upd'[p] \in ManualUpdates
  BY <1>1, <1>3, <1>6, <1>7 DEF Ownership
<1>8. ASSUME NEW p \in MlWriters, pc'[p] # "idle"
      PROVE  /\ pc'[p] \in {"merge", "publish", "ensure", "pad", "publishPad"}
             /\ part'[p] = "ml" /\ upd'[p] \in MlUpdates
  BY <1>1, <1>4, <1>6, <1>8 DEF Ownership
<1>9. ASSUME NEW p \in Migrators, pc'[p] # "idle"
      PROVE  pc'[p] \in {"plan", "lockMl", "check", "publishMl", "reread", "publishManual"}
  BY <1>1, <1>5, <1>6, <1>9 DEF Ownership
<1> QED
  BY <1>2, <1>7, <1>8, <1>9 DEF Ownership

-----------------------------------------------------------------------------
(* Provenance.                                                              *)

\* What Provenance says of one program.
Origin(p) ==
  /\ pc[p] \in {"remove", "strip", "publishRest"} => cols[p] \subseteq Removable
  /\ pc[p] = "publishRest" => buf[p] = [c \in Columns |->
       IF c \in cols[p] THEN Absent ELSE tab[part[p]][c]]
  /\ pc[p] \in {"ensure", "pad", "publishPad"} =>
       \A c \in Columns : upd[p][c] # Absent => c \in Ensured
  /\ pc[p] \in {"pad", "publishPad"} =>
       part[p] = "ml" /\ \A c \in InFile("ml") : upd[p][c] = Absent

LEMMA OriginOfOthers ==
  ASSUME TypeInv, LocksHeld, NEW q \in Programs, StepOf(q), NEW p \in Programs, p # q, Origin(p)
  PROVE  Origin(p)'
<1> USE DEF Parts
<1>1. /\ pc'[p] = pc[p] /\ part'[p] = part[p] /\ upd'[p] = upd[p]
      /\ cols'[p] = cols[p] /\ buf'[p] = buf[p]
  BY StepFrame
<1>2. pc[p] \in {"publishRest", "pad", "publishPad"} => tab'[part[p]] = tab[part[p]]
  BY StepFrame DEF Held, TypeInv
<1>3. CASE pc[p] \in {"pad", "publishPad"}
  <2>1. part[p] = "ml" /\ tab'["ml"] = tab["ml"]
    BY <1>2, <1>3 DEF Origin
  <2>2. InFile("ml")' = InFile("ml")
    BY <2>1 DEF InFile
  <2> QED
    BY <1>1, <1>3, <2>1, <2>2 DEF Origin
<1>4. CASE pc[p] \notin {"pad", "publishPad"}
  BY <1>1, <1>2, <1>4 DEF Origin
<1> QED
  BY <1>3, <1>4

LEMMA OriginOfOwn ==
  ASSUME TypeInv, LocksHeld, Ownership, NEW q \in Programs, StepOf(q), Origin(q)
  PROVE  Origin(q)'
<1> USE DEF Parts, TypeInv, Goto
<1>1. ASSUME pc'[q] \notin {"remove", "strip", "publishRest", "ensure", "pad", "publishPad"}
      PROVE  Origin(q)'
  BY <1>1 DEF Origin
<1>2. CASE BeginEnsure(q)
  <2>1. PICK c \in Ensured : upd' = [upd EXCEPT ![q] = [Empty EXCEPT ![c] = Nulls]]
    BY <1>2 DEF BeginEnsure
  <2>2. \A d \in Columns : upd'[q][d] # Absent => d = c
    BY <2>1 DEF Empty
  <2>3. pc'[q] = "ensure"
    BY <1>2 DEF BeginEnsure
  <2> QED
    BY <2>2, <2>3 DEF Origin
<1>3. CASE Ensure(q)
  <2>1. CASE End(q)
    BY <1>1, <2>1 DEF End
  <2>2. CASE ~End(q)
    <3>1. /\ pc[q] = "ensure" /\ pc'[q] = "pad" /\ part' = part /\ upd' = upd /\ tab' = tab
          /\ \A c \in InFile("ml") : upd[q][c] = Absent
      BY <1>3, <2>2 DEF Ensure, locals
    <3>2. part[q] = "ml"
      BY <3>1 DEF LocksHeld
    <3>3. InFile("ml")' = InFile("ml")
      BY <3>1 DEF InFile
    <3> QED
      BY <3>1, <3>2, <3>3 DEF Origin
  <2> QED
    BY <2>1, <2>2
<1>4. CASE Merge(q)
  <2>1. CASE pc[q] = "merge"
    BY <1>1, <1>4, <2>1 DEF Merge
  <2>2. CASE pc[q] = "pad"
    <3>1. pc'[q] = "publishPad" /\ part' = part /\ upd' = upd /\ tab' = tab
      BY <1>4, <2>2 DEF Merge
    <3>2. InFile("ml")' = InFile("ml")
      BY <3>1 DEF InFile
    <3> QED
      BY <2>2, <3>1, <3>2 DEF Origin
  <2> QED
    BY <1>4, <2>1, <2>2 DEF Merge
<1>5. CASE BeginRemove(q) \/ LockRemove(q)
  BY <1>5 DEF BeginRemove, LockRemove, Origin
<1>6. CASE Strip(q)
  <2>1. CASE NextFile(q)
    BY <1>6, <2>1 DEF Strip, NextFile, Origin
  <2>2. CASE ~NextFile(q)
    BY <1>6, <2>2 DEF Strip, Origin
  <2> QED
    BY <2>1, <2>2
<1>7. CASE PublishRest(q)
  BY <1>7 DEF PublishRest, NextFile, Origin
<1>8. CASE Publish(q) \/ PublishManual(q) \/ EndRemove(q) \/ Fail(q)
  BY <1>1, <1>8 DEF Publish, PublishManual, EndRemove, Fail, End
<1>9. CASE BeginMigrate(q) \/ PlanMigrate(q) \/ LockMl(q) \/ BuildMl(q) \/ PublishMl(q) \/ BuildManual(q)
  BY <1>1, <1>9 DEF BeginMigrate, PlanMigrate, LockMl, BuildMl, PublishMl, BuildManual, End
<1>10. ASSUME NEW f, NEW updates, BeginWrite(q, f, updates) PROVE Origin(q)'
  BY <1>1, <1>10 DEF BeginWrite
<1> QED
  BY <1>2, <1>3, <1>4, <1>5, <1>6, <1>7, <1>8, <1>9, <1>10
     DEF StepOf, ManualWriter, MlWriter, Migrator, Remover

\* A request of manual production touches manual columns only; one of an ML run touches
\* its own and gives every cell of them a value.
LEMMA ManualRequest ==
  ASSUME NEW u \in ManualUpdates
  PROVE  /\ \E v \in LT!Updates(LT!Owned({"manual"}), Cells \union {Keep}) : u = LT!Extend(v)
         /\ \A c \in Columns : u[c] # Absent => Owner[c] = "manual"
<1>1. PICK v \in LT!Updates(Owned({"manual"}), Cells \union {Keep}) : u = LT!Extend(v)
  BY DEF ManualUpdates
<1>2. LT!Owned({"manual"}) = Owned({"manual"})
  BY DEF LT!Owned, Owned
<1>3. DOMAIN v = Owned({"manual"})
  BY DEF LT!Updates
<1> QED
  BY <1>1, <1>2, <1>3 DEF LT!Extend, Owned

LEMMA MlRequest ==
  ASSUME NEW u \in MlUpdates
  PROVE  /\ \E v \in LT!Updates(LT!Owned({"ml", "none"}), Cells) : u = LT!Extend(v)
         /\ \A c \in Columns : u[c] # Absent => Owner[c] # "manual" /\ u[c] \in Sections
<1>1. PICK v \in LT!Updates(Owned({"ml", "none"}), Cells) : u = LT!Extend(v)
  BY DEF MlUpdates
<1>2. LT!Owned({"ml", "none"}) = Owned({"ml", "none"})
  BY DEF LT!Owned, Owned
<1>3. DOMAIN v = Owned({"ml", "none"}) /\ \A c \in DOMAIN v : v[c] \in Sections \union {Absent}
  BY DEF LT!Updates, Sections
<1>4. \A c \in Columns : u[c] = IF c \in DOMAIN v THEN v[c] ELSE Absent
  BY <1>1 DEF LT!Extend
<1> QED
  BY <1>1, <1>2, <1>3, <1>4 DEF Owned

\* The manual file gets no ML column that it did not have.
LEMMA ManualColumnsStep ==
  ASSUME TypeInv, FilesInv, NEW q \in Programs, StepOf(q), NEW c \in Columns,
         tab'["manual"][c] # Absent
  PROVE  Owner[c] = "manual" \/ c \in LegacyColumns
<1> USE DEF Parts, TypeInv, Goto
<1>1. CASE tab["manual"][c] # Absent
  BY <1>1 DEF FilesInv, Provenance, InFile
<1> SUFFICES ASSUME tab["manual"][c] = Absent PROVE Owner[c] = "manual"
  BY <1>1
<1>2. ASSUME q \in ManualWriters, Publish(q) PROVE Owner[c] = "manual"
  <2>1. part[q] = "manual" /\ upd[q] \in ManualUpdates
    BY <1>2 DEF Publish, FilesInv, Ownership
  <2>2. tab'["manual"][c] = LT!Overlay(tab["manual"], upd[q])[c]
    BY <1>2, <2>1 DEF Publish, Rename, FilesInv, NoLostUpdate, Merged
  <2>3. upd[q][c] # Absent
    BY <2>2 DEF LT!Overlay
  <2> QED
    BY <2>1, <2>3, ManualRequest
<1>3. ASSUME q \in MlWriters, Publish(q) PROVE tab'["manual"] = tab["manual"]
  <2>1. part[q] = "ml"
    BY <1>3 DEF Publish, FilesInv, Ownership
  <2> QED
    BY <1>3, <2>1 DEF Publish, Rename
<1>4. ASSUME PublishManual(q) PROVE tab'["manual"][c] = Absent
  <2>1. buf[q] = [d \in Columns |-> IF d \in cols[q] THEN Absent ELSE tab["manual"][d]]
    BY <1>4 DEF PublishManual, FilesInv, MigrationStages
  <2> QED
    BY <1>4, <2>1 DEF PublishManual, Rename
<1>5. ASSUME PublishRest(q) PROVE tab'["manual"][c] = Absent
  <2>1. buf[q] = [d \in Columns |-> IF d \in cols[q] THEN Absent ELSE tab[part[q]][d]]
    BY <1>5 DEF PublishRest, FilesInv, Provenance
  <2> QED
    BY <1>5, <2>1 DEF PublishRest, Rename
<1>6. ASSUME PublishMl(q) PROVE tab'["manual"] = tab["manual"]
  BY <1>6 DEF PublishMl, Rename
<1>7. ASSUME \/ BeginEnsure(q) \/ Ensure(q) \/ Merge(q)
             \/ BeginMigrate(q) \/ PlanMigrate(q) \/ LockMl(q) \/ BuildMl(q) \/ BuildManual(q)
             \/ BeginRemove(q) \/ LockRemove(q) \/ Strip(q) \/ EndRemove(q) \/ Fail(q)
      PROVE  tab' = tab
  BY <1>7 DEF BeginEnsure, Ensure, Merge, BeginMigrate, PlanMigrate, LockMl, BuildMl, BuildManual,
              BeginRemove, LockRemove, Strip, EndRemove, Fail
<1>8. ASSUME NEW f, NEW updates, BeginWrite(q, f, updates) PROVE tab' = tab
  BY <1>8 DEF BeginWrite
<1> QED
  BY <1>2, <1>3, <1>4, <1>5, <1>6, <1>7, <1>8 DEF StepOf, ManualWriter, MlWriter, Migrator, Remover

LEMMA ProvenanceStep ==
  ASSUME TypeInv, FilesInv, NEW q \in Programs, StepOf(q)
  PROVE  Provenance'
<1>1. ASSUME NEW p \in Programs PROVE Origin(p)'
  <2>1. Origin(p)
    BY DEF FilesInv, Provenance, Origin
  <2> QED
    BY <2>1, OriginOfOthers, OriginOfOwn DEF FilesInv
<1>2. \A c \in InFile("manual")' : Owner[c] = "manual" \/ c \in LegacyColumns
  BY ManualColumnsStep DEF InFile
<1> QED
  BY <1>1, <1>2 DEF Provenance, Origin

\* Locks protect every program from its read to its publication, migrations find the
\* files as planned, and writers keep to their own file and columns.
THEOREM FilesInductive == Spec => [](TypeInv /\ FilesInv)
<1>1. Init => TypeInv /\ FilesInv
  BY TypeInit, LocksInit
<1>2. TypeInv /\ FilesInv /\ [Next]_vars => (TypeInv /\ FilesInv)'
  <2> SUFFICES ASSUME TypeInv, FilesInv, [Next]_vars PROVE (TypeInv /\ FilesInv)'
    OBVIOUS
  <2>1. CASE Next
    <3>1. PICK q \in Programs : StepOf(q)
      BY <2>1, NextIsAStep
    <3> QED
      <4>1. TypeInv' /\ LocksHeld' /\ NoLostUpdate'
        BY <3>1, TypeStep, LocksStep, UpdateStep DEF FilesInv
      <4>2. MigrationStages' /\ Ownership'
        BY <3>1, StagesStep, OwnershipStep DEF FilesInv
      <4>3. Provenance'
        BY <3>1, ProvenanceStep
      <4> QED
        BY <4>1, <4>2, <4>3 DEF FilesInv
  <2>2. CASE UNCHANGED vars
    <3>1. TypeInv'
      BY <2>2 DEF vars, TypeInv
    <3>2. LocksHeld' /\ Ownership'
      BY <2>2 DEF FilesInv, vars, LocksHeld, Held, Ownership
    <3>3. NoLostUpdate'
      BY <2>2 DEF FilesInv, vars, NoLostUpdate, Merged
    <3>4. MigrationStages'
      BY <2>2 DEF FilesInv, vars, MigrationStages, InFile, Owned, View
    <3>5. Provenance'
      BY <2>2 DEF FilesInv, vars, Provenance, InFile
    <3> QED
      BY <3>1, <3>2, <3>3, <3>4, <3>5 DEF FilesInv
  <2> QED
    BY <2>1, <2>2
<1> QED
  BY <1>1, <1>2, PTL DEF Spec

\* No program publishes a file merged from an outdated read: no update is lost.
THEOREM UpdatesKept == Spec => []NoLostUpdate
<1>1. FilesInv => NoLostUpdate
  BY DEF FilesInv
<1> QED
  BY <1>1, FilesInductive, PTL

\* Where no ensured column has a legacy copy in a manual file, a padding run never puts
\* nulls over values.
THEOREM PaddingIsHarmless ==
  ASSUME Ensured \intersect LegacyColumns = {}
  PROVE  Spec => []PaddingHidesNothing
<1>1. ASSUME TypeInv, FilesInv PROVE PaddingHidesNothing
  <2> SUFFICES ASSUME NEW p \in MlWriters, pc[p] = "publishPad", NEW c \in Columns, upd[p][c] # Absent
               PROVE  View[c] = Absent
    BY DEF PaddingHidesNothing
  <2>1. p \in Programs
    BY DEF Programs
  <2>2. c \in Ensured /\ tab["ml"][c] = Absent
    BY <1>1, <2>1 DEF FilesInv, Provenance, InFile
  <2>3. tab["manual"][c] = Absent
    BY <1>1, <2>2, EnsuredAssumption DEF FilesInv, Provenance, InFile
  <2> QED
    BY <2>2, <2>3 DEF View
<1> QED
  BY <1>1, FilesInductive, PTL
-----------------------------------------------------------------------------
(* Migration and refinement.                                                *)

\* Publishing either half of a migration leaves the view as it is.
LEMMA MigrationView ==
  ASSUME TypeInv, MigrationStages, NEW p \in Programs, Migrator(p) \/ Fail(p)
  PROVE  View' = View
<1> USE DEF TypeInv, Parts
<1>0. Stages(p)
  BY DEF MigrationStages, Stages
<1>1. CASE PublishMl(p)
  <2>1. /\ tab'["ml"] = [c \in Columns |-> IF c \in cols[p] \union InFile("ml") THEN View[c] ELSE Absent]
        /\ tab'["manual"] = tab["manual"] /\ cols[p] \subseteq InFile("manual")
    BY <1>0, <1>1 DEF PublishMl, Rename, Stages
  <2>2. ASSUME NEW c \in Columns PROVE View'[c] = View[c]
    BY <2>1, MovedIsSeen DEF View, InFile
  <2> QED
    BY <2>2 DEF View
<1>2. CASE PublishManual(p)
  <2>1. /\ tab'["manual"] = [c \in Columns |-> IF c \in cols[p] THEN Absent ELSE tab["manual"][c]]
        /\ tab'["ml"] = tab["ml"] /\ cols[p] \subseteq InFile("ml") /\ cols[p] \subseteq Owned({"ml"})
    BY <1>0, <1>2 DEF PublishManual, Rename, Stages
  <2>2. ASSUME NEW c \in Columns PROVE View'[c] = View[c]
    BY <2>1 DEF View, InFile, Owned
  <2> QED
    BY <2>2 DEF View
<1>3. CASE BeginMigrate(p) \/ PlanMigrate(p) \/ LockMl(p) \/ BuildMl(p) \/ BuildManual(p) \/ Fail(p)
  BY <1>3, ViewFrame DEF BeginMigrate, PlanMigrate, LockMl, BuildMl, BuildManual, Fail
<1> QED
  BY <1>1, <1>2, <1>3 DEF Migrator

\* No step of a migration, finished or cut short anywhere, changes the logical table.
THEOREM MigrationsUnseen == Spec => MigrationInvisible
<1>1. ASSUME TypeInv, FilesInv, [Next]_vars
      PROVE  [\A p \in Migrators : Migrator(p) \/ Fail(p) => View' = View]_vars
  BY <1>1, MigrationView DEF FilesInv, Programs
<1> QED
  BY <1>1, FilesInductive, PTL DEF MigrationInvisible, Spec

LEMMA ManualPublication ==
  ASSUME TypeInv, NoLostUpdate, Ownership, NEW q \in ManualWriters, Publish(q)
  PROVE  LT!WriteManual
<1> USE DEF TypeInv, Parts
<1>1. q \in Programs /\ pc[q] # "idle"
  BY DEF Programs, Publish
<1>2. part[q] = "manual" /\ upd[q] \in ManualUpdates
  BY <1>1 DEF Ownership
<1>3. tab'["manual"] = LT!Overlay(tab["manual"], upd[q]) /\ tab'["ml"] = tab["ml"]
  BY <1>1, <1>2 DEF Publish, Rename, NoLostUpdate, Merged
<1>4. ASSUME NEW c \in Columns PROVE View'[c] = LT!Overlay(View, upd[q])[c]
  BY <1>2, <1>3, ManualRequest DEF View, LT!Overlay
<1>5. View' = LT!Overlay(View, upd[q])
  BY <1>4 DEF View, LT!Overlay
<1> QED
  BY <1>2, <1>5, ManualRequest DEF LT!WriteManual

LEMMA MlPublication ==
  ASSUME TypeInv, NoLostUpdate, Ownership, NEW q \in MlWriters, Publish(q)
  PROVE  LT!WriteMl
<1> USE DEF TypeInv, Parts
<1>1. q \in Programs /\ pc[q] # "idle"
  BY DEF Programs, Publish
<1>2. part[q] = "ml" /\ upd[q] \in MlUpdates
  BY <1>1 DEF Ownership
<1>3. tab'["ml"] = LT!Overlay(tab["ml"], upd[q]) /\ tab'["manual"] = tab["manual"]
  BY <1>1, <1>2 DEF Publish, Rename, NoLostUpdate, Merged
<1>4. ASSUME NEW c \in Columns, upd[q][c] # Absent, NEW old
      PROVE  LT!Patched(old, upd[q][c]) = upd[q][c]
  <2>1. upd[q][c] \in [Syms -> Cells]
    BY <1>2, <1>4, MlRequest DEF Sections
  <2>2. \A s \in Syms : upd[q][c][s] # Keep
    BY <2>1, CellAssumption
  <2> QED
    BY <2>1, <2>2 DEF LT!Patched
<1>5. ASSUME NEW c \in Columns PROVE View'[c] = LT!Overlay(View, upd[q])[c]
  <2>1. CASE upd[q][c] # Absent
    <3>1. Owner[c] # "manual"
      BY <1>2, <2>1, MlRequest
    <3>2. tab'["ml"][c] = upd[q][c]
      BY <1>3, <1>4, <2>1 DEF LT!Overlay
    <3>3. LT!Overlay(View, upd[q])[c] = upd[q][c]
      BY <1>4, <2>1 DEF LT!Overlay
    <3> QED
      BY <2>1, <3>1, <3>2, <3>3 DEF View
  <2>2. CASE upd[q][c] = Absent
    BY <1>3, <2>2 DEF View, LT!Overlay
  <2> QED
    BY <2>1, <2>2
<1>6. View' = LT!Overlay(View, upd[q])
  BY <1>5 DEF View, LT!Overlay
<1> QED
  BY <1>2, <1>6, MlRequest DEF LT!WriteMl

\* A removal publishes a file without the named columns: they leave the table, but for
\* those that the manual file lost and the ML file still answers.
LEMMA RemovalPublication ==
  ASSUME TypeInv, FilesInv, NEW q \in Programs, PublishRest(q),
         Removable \intersect LegacyColumns = {}
  PROVE  LT!Remove
<1> USE DEF TypeInv, Parts
<1> DEFINE gone == {c \in cols[q] : View'[c] = Absent}
<1>1. /\ tab' = [tab EXCEPT ![part[q]] = buf[q]] /\ cols[q] \subseteq Removable
      /\ buf[q] = [c \in Columns |-> IF c \in cols[q] THEN Absent ELSE tab[part[q]][c]]
  BY DEF PublishRest, Rename, FilesInv, Provenance
<1>2. ASSUME NEW c \in Columns PROVE View'[c] = IF c \in gone THEN Absent ELSE View[c]
  <2>1. CASE c \notin cols[q]
    <3>1. tab'["manual"][c] = tab["manual"][c] /\ tab'["ml"][c] = tab["ml"][c]
      BY <1>1, <2>1
    <3> QED
      BY <2>1, <3>1 DEF View
  <2>2. CASE c \in cols[q] /\ part[q] = "manual"
    <3>1. tab'["manual"][c] = Absent /\ tab'["ml"][c] = tab["ml"][c]
      BY <1>1, <2>2
    <3> QED
      BY <2>2, <3>1 DEF View
  <2>3. CASE c \in cols[q] /\ part[q] = "ml"
    <3>1. tab'["ml"][c] = Absent /\ tab'["manual"][c] = tab["manual"][c]
      BY <1>1, <2>3
    <3>2. Owner[c] # "manual" => tab["manual"][c] = Absent
      BY <1>1, <2>3 DEF FilesInv, Provenance, InFile
    <3> QED
      BY <2>3, <3>1, <3>2 DEF View
  <2> QED
    BY <2>1, <2>2, <2>3
<1>3. View' = [c \in Columns |-> IF c \in gone THEN Absent ELSE View[c]]
  <2> HIDE DEF gone
  <2> QED
    BY <1>2 DEF View
<1> QED
  BY <1>3 DEF LT!Remove

\* Where nothing that is removed has a legacy copy, the two files behave as the one
\* logical table: a publication writes its columns or takes them away, every other step
\* leaves the table as it is.
THEOREM FilesImplementTable ==
  ASSUME Removable \intersect LegacyColumns = {} \/ Removers = {}
  PROVE  Spec => LogicalTableSpec
<1>1. Init => LT!Init
  BY TypeInit, ViewType DEF LT!Init, LT!Sections, Tables, Sections
<1>2. ASSUME TypeInv, FilesInv, [Next]_vars
      PROVE  [LT!Next]_View
  <2>1. CASE Next
    <3>1. PICK q \in Programs : StepOf(q)
      BY <2>1, NextIsAStep
    <3>2. CASE q \in ManualWriters /\ Publish(q)
      BY <1>2, <3>2, ManualPublication DEF FilesInv, LT!Next
    <3>3. CASE q \in MlWriters /\ Publish(q)
      BY <1>2, <3>3, MlPublication DEF FilesInv, LT!Next
    <3>4. CASE q \in Migrators /\ Migrator(q)
      BY <1>2, <3>4, MigrationView DEF FilesInv
    <3>5. ASSUME NEW f, NEW updates, BeginWrite(q, f, updates) PROVE View' = View
      BY <3>5, ViewFrame DEF BeginWrite
    <3>6. CASE Merge(q) \/ BeginEnsure(q) \/ Ensure(q) \/ Fail(q)
      BY <3>6, ViewFrame DEF Merge, BeginEnsure, Ensure, Fail
    <3>7. CASE q \in Removers /\ PublishRest(q)
      BY <1>2, <3>7, RemovalPublication DEF LT!Next
    <3>8. CASE BeginRemove(q) \/ LockRemove(q) \/ Strip(q) \/ EndRemove(q)
      BY <3>8, ViewFrame DEF BeginRemove, LockRemove, Strip, EndRemove
    <3> QED
      BY <3>1, <3>2, <3>3, <3>4, <3>5, <3>6, <3>7, <3>8 DEF StepOf, ManualWriter, MlWriter, Remover
  <2>2. CASE UNCHANGED vars
    BY <2>2, ViewFrame DEF vars
  <2> QED
    BY <1>2, <2>1, <2>2
<1> QED
  BY <1>1, <1>2, FilesInductive, PTL DEF LogicalTableSpec, LT!Spec, Spec

-----------------------------------------------------------------------------
(* Readers.                                                                 *)


\* A file that is not there has no columns.
Stand == \A f \in Parts : present[f] \/ tab[f] = Empty

ReadTyped ==
  /\ rpc \in [Readers -> ReaderPcs]
  /\ want \in [Readers -> SUBSET Columns]
  /\ found \in [Readers -> SUBSET Parts]
  /\ schema \in [Readers -> [Parts -> SUBSET Columns]]
  /\ got \in [Readers -> Tables]
  /\ window \in [Readers -> [Columns -> SUBSET (Sections \union {Absent})]]

Active(r) == rpc[r] \notin {"idle", "done", "error"}

\* The value of a column that nobody wrote to the ML file since, or the absence of one.
Legacy(r, c) == tab["manual"][c] \in window[r][c]
Missing(r, c) == Absent \in window[r][c]

\* What a reader may conclude from a file it did not find.
NoManual(r) ==
  \A c \in Columns : IF Owner[c] = "manual" THEN Missing(r, c) ELSE tab["manual"][c] = Absent
NoMl(r) == \A c \in Columns : Owner[c] # "manual" => Legacy(r, c)

\* The columns that the ML file did not answer.
Unanswered(r) == \A c \in want[r] : Owner[c] # "manual" /\ c \notin schema[r]["ml"] => Legacy(r, c)

\* After the first file of the Rust reader.
FirstRead(r) ==
  IF PrimaryMl(r)
  THEN /\ Unanswered(r)
       /\ \A c \in want[r] : IF c \in schema[r]["ml"] THEN got[r][c] \in window[r][c] ELSE got[r][c] = Absent
  ELSE \A c \in want[r] : got[r][c] \in window[r][c]

\* After the two schemas of the Python reader.
NowhereSeen(r) ==
  /\ schema[r]["manual"] \subseteq want[r]
  /\ \A c \in want[r] : c \notin Group(r, "ml") /\ c \notin schema[r]["manual"] => Missing(r, c)
MlRead(r) ==
  \A c \in want[r] : IF c \in Group(r, "ml") THEN got[r][c] \in window[r][c] ELSE got[r][c] = Absent

ReadOk(r) ==
  /\ Active(r) => \A c \in Columns : View[c] \in window[r][c]
  /\ Active(r) /\ "manual" \notin found[r] => NoManual(r)
  /\ Active(r) /\ rpc[r] # "statMl" => found[r] # {} /\ ("ml" \notin found[r] => NoMl(r))
  /\ rpc[r] \in {"statMl", "primary", "schemaMl", "schemaManual", "dataMl"} => got[r] = Empty
  /\ rpc[r] = "finish" => FirstRead(r)
  /\ rpc[r] \in {"schemaManual", "dataMl", "dataManual"} => Unanswered(r)
  /\ rpc[r] \in {"dataMl", "dataManual"} => NowhereSeen(r)
  /\ rpc[r] = "dataManual" => MlRead(r)
  /\ rpc[r] = "done" => \A c \in want[r] : got[r][c] \in window[r][c]

ReadInv == Stand /\ ReadTyped /\ \A r \in Readers : ReadOk(r)

-----------------------------------------------------------------------------
(* What a program's step does to the files. *)

LEMMA RenameStands ==
  ASSUME TypeInv, Stand, NEW p \in Programs, NEW f \in Parts, Rename(p, f) PROVE Stand'
BY DEF Rename, Stand, TypeInv

\* Only migrations and removals touch the old ML columns of a manual file.
LEMMA LegacyStays ==
  ASSUME TypeInv, FilesInv, Stand, Migrators = {}, Removers = {}, [Next]_vars
  PROVE  /\ Stand'
         /\ \A c \in Columns : Owner[c] # "manual" => tab'["manual"][c] = tab["manual"][c]
<1> USE DEF Parts
<1>1. CASE UNCHANGED vars
  BY <1>1 DEF vars, Stand
<1>2. CASE Next
  <2>1. PICK q \in Programs : StepOf(q)
    BY <1>2, NextIsAStep
  <2>2. CASE Publish(q) /\ q \in ManualWriters
    <3>1. part[q] = "manual" /\ upd[q] \in ManualUpdates /\ buf[q] = Merged(q) /\ Rename(q, "manual")
      BY <2>2 DEF FilesInv, Ownership, NoLostUpdate, Publish
    <3>2. tab'["manual"] = LT!Overlay(tab["manual"], upd[q])
      BY <3>1 DEF Rename, Merged, TypeInv
    <3>3. \A c \in Columns : Owner[c] # "manual" => upd[q][c] = Absent
      BY <3>1, ManualRequest
    <3> QED
      BY <3>1, <3>2, <3>3, RenameStands DEF LT!Overlay
  <2>3. CASE Publish(q) /\ q \in MlWriters
    <3>1. part[q] = "ml" /\ Rename(q, "ml")
      BY <2>3 DEF FilesInv, Ownership, Publish
    <3> QED
      BY <2>1, <3>1, RenameStands DEF Rename, TypeInv
  <2>4. ASSUME NEW f, NEW updates, BeginWrite(q, f, updates) PROVE UNCHANGED <<tab, present>>
    BY <2>4 DEF BeginWrite
  <2>5. CASE Merge(q) \/ BeginEnsure(q) \/ Ensure(q) \/ Fail(q)
    BY <2>5 DEF Merge, BeginEnsure, Ensure, Fail, Stand
  <2> QED
    BY <2>1, <2>2, <2>3, <2>4, <2>5 DEF StepOf, ManualWriter, MlWriter, Stand
<1> QED
  BY <1>1, <1>2

LEMMA TypeKept == ASSUME TypeInv, Next PROVE TypeInv'
BY NextIsAStep, TypeStep

LEMMA ViewTypeNext == ASSUME TypeInv' PROVE View' \in Tables
BY DEF TypeInv, View, Tables, Parts

\* A reader under way while a program publishes: it keeps what it has, and learns the new view.
LEMMA PublicationStep ==
  ASSUME TypeInv, FilesInv, ReadInv, Migrators = {}, Removers = {}, Publication
  PROVE  ReadInv'
<1> USE DEF Parts
<1>1. Stand' /\ \A c \in Columns : Owner[c] # "manual" => tab'["manual"][c] = tab["manual"][c]
  BY LegacyStays DEF Publication, ReadInv
<1>2. UNCHANGED <<rpc, want, found, schema, got>>
  BY DEF Publication
<1>3. ASSUME NEW r \in Readers
      PROVE  /\ \A c \in Columns : window[r][c] \subseteq window'[r][c]
             /\ Active(r) => \A c \in Columns : View'[c] \in window'[r][c]
  BY DEF Publication, Active
<1>4. View' \in Tables
  <2>1. TypeInv'
    BY TypeKept DEF Publication
  <2> QED
    BY <2>1, ViewTypeNext
<1>5. ReadTyped'
  <2>1. \A c \in Columns : View'[c] \in Sections \union {Absent}
    BY <1>4 DEF Tables
  <2>2. window' \in [Readers -> [Columns -> SUBSET (Sections \union {Absent})]]
    BY <2>1 DEF Publication, ReadInv, ReadTyped
  <2> QED
    BY <1>2, <2>2 DEF ReadInv, ReadTyped
<1>6. ASSUME NEW r \in Readers PROVE ReadOk(r)'
  <2> USE <1>2
  <2>1. ReadOk(r) /\ want[r] \subseteq Columns
    BY DEF ReadInv, ReadTyped
  <2>2. Active(r)' = Active(r) /\ PrimaryMl(r)' = PrimaryMl(r) /\ Group(r, "ml")' = Group(r, "ml")
    BY DEF Active, PrimaryMl, AllManual, Group
  <2>3. \A c \in Columns : (Missing(r, c) => Missing(r, c)') /\ (Owner[c] # "manual" /\ Legacy(r, c) => Legacy(r, c)')
    BY <1>1, <1>3 DEF Missing, Legacy
  <2>4. (NoManual(r) => NoManual(r)') /\ (NoMl(r) => NoMl(r)') /\ (Unanswered(r) => Unanswered(r)')
    BY <1>1, <2>1, <2>3 DEF NoManual, NoMl, Unanswered
  <2>5. \A c \in want[r] : got[r][c] \in window[r][c] => got'[r][c] \in window'[r][c]
    BY <1>3, <2>1
  <2>6. FirstRead(r) => FirstRead(r)'
    BY <2>2, <2>4, <2>5 DEF FirstRead
  <2>7. (NowhereSeen(r) => NowhereSeen(r)') /\ (MlRead(r) => MlRead(r)')
    BY <2>1, <2>2, <2>3, <2>5 DEF NowhereSeen, MlRead
  <2> QED
    BY <1>3, <2>1, <2>2, <2>4, <2>5, <2>6, <2>7 DEF ReadOk
<1> QED
  BY <1>1, <1>5, <1>6 DEF ReadInv

-----------------------------------------------------------------------------
(* The steps of a reader. *)

Idle(q) ==
  /\ rpc'[q] = rpc[q] /\ want'[q] = want[q] /\ found'[q] = found[q]
  /\ schema'[q] = schema[q] /\ got'[q] = got[q] /\ window'[q] = window[q]

LEMMA IdleReader ==
  ASSUME NEW q \in Readers, ReadOk(q), Idle(q), UNCHANGED tab
  PROVE  ReadOk(q)'
<1>1. View' = View
  BY ViewFrame
<1>2. /\ NoManual(q)' = NoManual(q) /\ NoMl(q)' = NoMl(q) /\ Unanswered(q)' = Unanswered(q)
      /\ Active(q)' = Active(q) /\ PrimaryMl(q)' = PrimaryMl(q) /\ Group(q, "ml")' = Group(q, "ml")
  BY DEF Idle, NoManual, NoMl, Unanswered, Missing, Legacy, Active, PrimaryMl, AllManual, Group
<1>3. FirstRead(q)' = FirstRead(q) /\ NowhereSeen(q)' = NowhereSeen(q) /\ MlRead(q)' = MlRead(q)
  BY <1>2 DEF Idle, FirstRead, NowhereSeen, MlRead, Missing
<1> QED
  BY <1>1, <1>2, <1>3 DEF ReadOk, Idle

LEMMA ReaderFrame ==
  ASSUME ReadTyped, NEW r \in Readers, Reader(r), NEW q \in Readers, q # r
  PROVE  Idle(q)
<1> USE DEF ReadTyped, Idle, Step
<1>1. CASE Begin(r)
  BY <1>1 DEF Begin
<1>2. CASE StatMl(r)
  BY <1>2 DEF StatMl
<1>3. CASE Primary(r)
  BY <1>3 DEF Primary
<1>4. CASE Finish(r)
  BY <1>4 DEF Finish
<1>5. CASE SchemaMl(r) \/ SchemaManual(r)
  BY <1>5 DEF SchemaMl, SchemaManual
<1>6. CASE DataMl(r) \/ DataManual(r)
  BY <1>6 DEF DataMl, DataManual, Data
<1> QED
  BY <1>1, <1>2, <1>3, <1>4, <1>5, <1>6 DEF Reader

LEMMA FetchType ==
  ASSUME TypeInv, ReadTyped, NEW r \in Readers, NEW f \in Parts, NEW cs
  PROVE  Fetch(r, f, cs) \in Tables
BY DEF TypeInv, ReadTyped, Fetch, Tables

\* The rule of the view.
LEMMA ViewRule ==
  ASSUME NEW c \in Columns
  PROVE  /\ Owner[c] = "manual" => View[c] = tab["manual"][c]
         /\ Owner[c] # "manual" /\ tab["ml"][c] # Absent => View[c] = tab["ml"][c]
         /\ Owner[c] # "manual" /\ tab["ml"][c] = Absent => View[c] = tab["manual"][c]
BY DEF View

LEMMA EmptyFile ==
  ASSUME Stand, NEW f \in Parts, ~present[f], NEW c \in Columns PROVE tab[f][c] = Absent
BY DEF Stand, Empty

LEMMA BeginOk ==
  ASSUME TypeInv, ReadInv, NEW r \in Readers, Begin(r), UNCHANGED vars
  PROVE  ReadTyped' /\ ReadOk(r)'
<1> USE DEF Parts
<1>0. UNCHANGED <<tab, present>>
  BY DEF vars
<1>1. ReadTyped'
  <2>1. [c \in Columns |-> {View[c]}] \in [Columns -> SUBSET (Sections \union {Absent})]
    BY ViewType DEF Tables
  <2>2. window' = [window EXCEPT ![r] = [c \in Columns |-> {View[c]}]] /\ got' = [got EXCEPT ![r] = Empty]
    BY DEF Begin
  <2>3. window' \in [Readers -> [Columns -> SUBSET (Sections \union {Absent})]] /\ got' \in [Readers -> Tables]
    BY <2>1, <2>2, RequestType DEF ReadInv, ReadTyped
  <2>4. /\ rpc' \in [Readers -> ReaderPcs] /\ want' \in [Readers -> SUBSET Columns]
        /\ found' \in [Readers -> SUBSET Parts] /\ schema' \in [Readers -> [Parts -> SUBSET Columns]]
    BY DEF Begin, Step, ReadInv, ReadTyped, ReaderPcs
  <2> QED
    BY <2>3, <2>4 DEF ReadTyped
<1>2. /\ rpc'[r] = "statMl" /\ found'[r] = {f \in {"manual"} : present[f]} /\ got'[r] = Empty
      /\ \A c \in Columns : window'[r][c] = {View[c]}
  BY DEF Begin, Step, ReadInv, ReadTyped
<1>3. View' = View
  BY <1>0, ViewFrame
<1>4. "manual" \notin found'[r] => NoManual(r)'
  <2> SUFFICES ASSUME ~present["manual"] PROVE NoManual(r)'
    BY <1>2
  <2>1. \A c \in Columns : tab["manual"][c] = Absent
    BY EmptyFile DEF ReadInv
  <2> QED
    BY <1>0, <1>2, <2>1, ViewRule DEF NoManual, Missing
<1> QED
  BY <1>1, <1>2, <1>3, <1>4 DEF ReadOk

LEMMA StatMlOk ==
  ASSUME TypeInv, ReadInv, NEW r \in Readers, StatMl(r), UNCHANGED vars
  PROVE  ReadTyped' /\ ReadOk(r)'
<1> USE DEF Parts
<1>0. UNCHANGED <<tab, present>> /\ View' = View
  BY ViewFrame DEF vars
<1>1. /\ rpc[r] = "statMl" /\ UNCHANGED <<want, schema, got, window>>
      /\ found'[r] = found[r] \union {f \in {"ml"} : present[f]}
      /\ IF found'[r] = {} THEN rpc' = [rpc EXCEPT ![r] = "done"]
         ELSE \E l \in {"primary", "schemaMl"} : rpc' = [rpc EXCEPT ![r] = l]
  BY DEF StatMl, Step, FirstLooks, ReadInv, ReadTyped
<1>2. rpc'[r] \in {"primary", "schemaMl", "done"} /\ (found'[r] = {} <=> rpc'[r] = "done")
  BY <1>1 DEF ReadInv, ReadTyped
<1>3. ReadTyped'
  <2>1. found' \in [Readers -> SUBSET Parts]
    BY DEF StatMl, ReadInv, ReadTyped
  <2> QED
    BY <1>1, <2>1 DEF ReadInv, ReadTyped, ReaderPcs
<1>4. ReadOk(r) /\ Active(r)
  BY <1>1 DEF ReadInv, Active
<1>5. \A c \in Columns : View'[c] \in window'[r][c]
  BY <1>0, <1>1, <1>4 DEF ReadOk
<1>6. "manual" \notin found'[r] => NoManual(r)'
  BY <1>0, <1>1, <1>4 DEF ReadOk, NoManual, Missing
<1>7. "ml" \notin found'[r] => NoMl(r)'
  <2> SUFFICES ASSUME "ml" \notin found'[r] PROVE NoMl(r)'
    OBVIOUS
  <2>1. \A c \in Columns : tab["ml"][c] = Absent
    BY <1>1, EmptyFile DEF ReadInv
  <2> QED
    BY <1>0, <1>5, <2>1, ViewRule DEF NoMl, Legacy
<1>8. got'[r] = Empty
  BY <1>1, <1>4 DEF ReadOk
<1>9. rpc'[r] = "done" => \A c \in want'[r] : got'[r][c] \in window'[r][c]
  <2> SUFFICES ASSUME rpc'[r] = "done", NEW c \in want'[r] PROVE got'[r][c] \in window'[r][c]
    OBVIOUS
  <2>1. c \in Columns /\ got'[r][c] = Absent
    BY <1>3, <1>8 DEF ReadTyped, Empty
  <2>2. NoManual(r)' /\ NoMl(r)'
    BY <1>2, <1>6, <1>7
  <2> QED
    BY <2>1, <2>2 DEF NoManual, NoMl, Missing, Legacy
<1> QED
  BY <1>2, <1>3, <1>5, <1>6, <1>7, <1>8, <1>9 DEF ReadOk, Active

\* What every step after the existence tests keeps.
Settled(r) ==
  /\ UNCHANGED <<tab, present, want, found, window>>
  /\ View' = View

LEMMA SettledFacts ==
  ASSUME ReadInv, NEW r \in Readers, Active(r), rpc[r] # "statMl", Settled(r), rpc'[r] # "statMl"
  PROVE  /\ \A c \in Columns : View'[c] \in window'[r][c]
         /\ "manual" \notin found'[r] => NoManual(r)'
         /\ found'[r] # {} /\ ("ml" \notin found'[r] => NoMl(r)')
<1>1. ReadOk(r)
  BY DEF ReadInv
<1>2. NoManual(r)' = NoManual(r) /\ NoMl(r)' = NoMl(r)
  BY DEF Settled, NoManual, NoMl, Missing, Legacy
<1> QED
  BY <1>1, <1>2 DEF Settled, ReadOk

LEMMA PrimaryOk ==
  ASSUME TypeInv, ReadInv, NEW r \in Readers, Primary(r), UNCHANGED vars
  PROVE  ReadTyped' /\ ReadOk(r)'
<1> USE DEF Parts
<1> DEFINE f  == IF PrimaryMl(r) THEN "ml" ELSE "manual"
           cs == {c \in want[r] \intersect InFile(f) : f = "ml" => Owner[c] # "manual"}
<1>0. Settled(r)
  BY ViewFrame DEF vars, Settled, Primary
<1>1. /\ rpc[r] = "primary" /\ rpc' = [rpc EXCEPT ![r] = "finish"]
      /\ got' = [got EXCEPT ![r] = Fetch(r, f, cs)]
      /\ schema' = [schema EXCEPT ![r][f] = cs]
  BY DEF Primary, Step
<1>2. f \in Parts /\ want[r] \subseteq Columns /\ cs \subseteq Columns /\ ReadOk(r) /\ Active(r)
  BY <1>1 DEF ReadInv, ReadTyped, Active
<1> HIDE DEF cs, f
<1>3. ReadTyped'
  <2>1. Fetch(r, f, cs) \in Tables
    BY <1>2, FetchType DEF ReadInv
  <2>2. schema' \in [Readers -> [Parts -> SUBSET Columns]]
    BY <1>1, <1>2 DEF ReadInv, ReadTyped
  <2> QED
    BY <1>0, <1>1, <2>1, <2>2 DEF ReadInv, ReadTyped, ReaderPcs, Settled
<1>4. rpc'[r] = "finish" /\ got'[r] = Fetch(r, f, cs) /\ schema'[r][f] = cs
  BY <1>1, <1>2 DEF ReadInv, ReadTyped
<1>5. \A c \in Columns : got[r][c] = Absent
  BY <1>1, <1>2 DEF ReadOk, Empty
<1>6. \A c \in Columns : got'[r][c] = IF c \in cs THEN tab[f][c] ELSE Absent
  BY <1>4, <1>5 DEF Fetch
<1>7. \A c \in Columns : View[c] \in window[r][c]
  BY <1>2 DEF ReadOk
<1>8. FirstRead(r)'
  <2>0. PrimaryMl(r)' = PrimaryMl(r)
    BY <1>0 DEF Settled, PrimaryMl, AllManual
  <2>1. CASE PrimaryMl(r)
    <3>1. f = "ml" /\ cs = {c \in want[r] : tab["ml"][c] # Absent /\ Owner[c] # "manual"}
      BY <1>2, <2>1 DEF f, cs, InFile
    <3>2. \A c \in want[r] : c \in cs => got'[r][c] \in window[r][c]
      BY <1>2, <1>6, <1>7, <3>1, ViewRule
    <3>3. \A c \in want[r] : Owner[c] # "manual" /\ c \notin cs => tab["manual"][c] \in window[r][c]
      BY <1>2, <1>7, <3>1, ViewRule
    <3> QED
      BY <1>0, <1>2, <1>4, <1>6, <2>0, <2>1, <3>1, <3>2, <3>3 DEF FirstRead, Unanswered, Legacy, Settled
  <2>2. CASE ~PrimaryMl(r)
    <3>1. f = "manual" /\ cs = {c \in want[r] : tab["manual"][c] # Absent}
      BY <1>2, <2>2 DEF f, cs, InFile
    <3>2. \A c \in want[r] : got'[r][c] = tab["manual"][c]
      BY <1>2, <1>6, <3>1
    <3>3. AllManual(want[r]) \/ NoMl(r)
      BY <1>1, <1>2, <2>2 DEF PrimaryMl, ReadOk
    <3>4. \A c \in want[r] : got'[r][c] \in window[r][c]
      BY <1>2, <1>7, <3>2, <3>3, ViewRule DEF AllManual, NoMl, Legacy
    <3> QED
      BY <1>0, <2>0, <2>2, <3>4 DEF FirstRead, Settled
  <2> QED
    BY <2>1, <2>2
<1>9. Active(r)' /\ rpc'[r] # "statMl"
  BY <1>4 DEF Active
<1>10. /\ \A c \in Columns : View'[c] \in window'[r][c]
       /\ "manual" \notin found'[r] => NoManual(r)'
       /\ found'[r] # {} /\ ("ml" \notin found'[r] => NoMl(r)')
  BY <1>0, <1>1, <1>2, <1>9, SettledFacts
<1> QED
  BY <1>3, <1>4, <1>8, <1>10 DEF ReadOk

LEMMA FinishOk ==
  ASSUME TypeInv, ReadInv, NEW r \in Readers, Finish(r), UNCHANGED vars
  PROVE  ReadTyped' /\ ReadOk(r)'
<1> USE DEF Parts
<1> DEFINE Second == PrimaryMl(r) /\ "manual" \in found[r] /\ ManualNeeded(r)
           rest == want[r] \ schema[r]["ml"]
<1>0. Settled(r)
  BY ViewFrame DEF vars, Settled, Finish
<1>1. /\ rpc[r] = "finish" /\ rpc' = [rpc EXCEPT ![r] = "done"] /\ UNCHANGED schema
      /\ IF Second THEN got' = [got EXCEPT ![r] = Fetch(r, "manual", rest)] ELSE UNCHANGED got
  BY DEF Finish, Step
<1>2. want[r] \subseteq Columns /\ ReadOk(r) /\ Active(r)
  BY <1>1 DEF ReadInv, ReadTyped, Active
<1>3. ReadTyped'
  <2>1. Fetch(r, "manual", rest) \in Tables
    BY FetchType DEF ReadInv
  <2>2. got' \in [Readers -> Tables]
    BY <1>1, <2>1 DEF ReadInv, ReadTyped
  <2> QED
    BY <1>0, <1>1, <2>2 DEF ReadInv, ReadTyped, ReaderPcs, Settled
<1>4. rpc'[r] = "done"
  BY <1>1 DEF ReadInv, ReadTyped
<1>5. FirstRead(r) /\ (\A c \in Columns : View[c] \in window[r][c]) /\ ("manual" \notin found[r] => NoManual(r))
  BY <1>1, <1>2 DEF ReadOk
<1>6. ASSUME NEW c \in want[r] PROVE got'[r][c] \in window[r][c]
  <2>0. c \in Columns
    BY <1>2
  <2>1. CASE ~PrimaryMl(r)
    BY <1>1, <1>5, <2>1 DEF FirstRead
  <2>2. CASE PrimaryMl(r) /\ c \in schema[r]["ml"]
    <3>1. got[r][c] \in window[r][c]
      BY <1>5, <2>2 DEF FirstRead
    <3>2. got'[r][c] = got[r][c]
      BY <1>1, <2>0, <2>2 DEF Fetch, ReadInv, ReadTyped
    <3> QED
      BY <3>1, <3>2
  <2>3. CASE PrimaryMl(r) /\ c \notin schema[r]["ml"]
    <3>1. ManualNeeded(r) /\ got[r][c] = Absent /\ Unanswered(r)
      BY <1>5, <2>3 DEF ManualNeeded, FirstRead
    <3>2. Owner[c] # "manual" => tab["manual"][c] \in window[r][c]
      BY <2>3, <3>1 DEF Unanswered, Legacy
    <3>3. CASE "manual" \in found[r]
      <4>1. got'[r][c] = tab["manual"][c]
        BY <1>1, <2>0, <2>3, <3>1, <3>3 DEF Fetch, ReadInv, ReadTyped
      <4> QED
        BY <1>5, <2>0, <3>2, <4>1, ViewRule
    <3>4. CASE "manual" \notin found[r]
      <4>1. got'[r][c] = Absent
        BY <1>1, <3>1, <3>4
      <4> QED
        BY <1>5, <2>0, <3>2, <3>4, <4>1 DEF NoManual, Missing
    <3> QED
      BY <3>3, <3>4
  <2> QED
    BY <2>1, <2>2, <2>3
<1>7. ~Active(r)'
  BY <1>4 DEF Active
<1> QED
  BY <1>0, <1>3, <1>4, <1>6, <1>7 DEF ReadOk, Settled

LEMMA SchemaMlOk ==
  ASSUME TypeInv, ReadInv, NEW r \in Readers, SchemaMl(r), UNCHANGED vars
  PROVE  ReadTyped' /\ ReadOk(r)'
<1> USE DEF Parts
<1> DEFINE seen == {c \in want[r] \intersect InFile("ml") : ~AllManual(want[r]) /\ "ml" \in found[r]}
<1>0. Settled(r) /\ UNCHANGED got
  BY ViewFrame DEF vars, Settled, SchemaMl
<1>1. /\ rpc[r] = "schemaMl" /\ rpc' = [rpc EXCEPT ![r] = "schemaManual"]
      /\ schema' = [schema EXCEPT ![r]["ml"] = seen]
  BY DEF SchemaMl, Step
<1>2. want[r] \subseteq Columns /\ ReadOk(r) /\ Active(r)
  BY <1>1 DEF ReadInv, ReadTyped, Active
<1>3. ReadTyped'
  <2>1. seen \subseteq Columns
    BY <1>2
  <2>2. schema' \in [Readers -> [Parts -> SUBSET Columns]]
    BY <1>1, <2>1 DEF ReadInv, ReadTyped
  <2> QED
    BY <1>0, <1>1, <2>2 DEF ReadInv, ReadTyped, ReaderPcs, Settled
<1>4. rpc'[r] = "schemaManual" /\ schema'[r]["ml"] = seen
  BY <1>1 DEF ReadInv, ReadTyped
<1>5. /\ \A c \in Columns : View[c] \in window[r][c]
      /\ "ml" \notin found[r] => NoMl(r)
      /\ got[r] = Empty
  BY <1>1, <1>2 DEF ReadOk
<1>6. ASSUME NEW c \in want[r], Owner[c] # "manual", c \notin seen PROVE Legacy(r, c)
  <2>1. c \in Columns /\ ~AllManual(want[r])
    BY <1>2, <1>6 DEF AllManual
  <2>2. "ml" \in found[r] => tab["ml"][c] = Absent
    BY <1>6, <2>1 DEF InFile
  <2> QED
    BY <1>5, <1>6, <2>1, <2>2, ViewRule DEF NoMl, Legacy
<1>7. Unanswered(r)'
  BY <1>0, <1>4, <1>6 DEF Unanswered, Legacy, Settled
<1>8. Active(r)' /\ rpc'[r] # "statMl"
  BY <1>4 DEF Active
<1>9. /\ \A c \in Columns : View'[c] \in window'[r][c]
      /\ "manual" \notin found'[r] => NoManual(r)'
      /\ found'[r] # {} /\ ("ml" \notin found'[r] => NoMl(r)')
  BY <1>0, <1>1, <1>2, <1>8, SettledFacts
<1> QED
  BY <1>0, <1>3, <1>4, <1>5, <1>7, <1>9 DEF ReadOk

LEMMA SchemaManualOk ==
  ASSUME TypeInv, ReadInv, NEW r \in Readers, SchemaManual(r), UNCHANGED vars
  PROVE  ReadTyped' /\ ReadOk(r)'
<1> USE DEF Parts
<1> DEFINE seen == {c \in want[r] \intersect InFile("manual") : "manual" \in found[r] /\ ManualNeeded(r)}
<1>0. Settled(r) /\ UNCHANGED got
  BY ViewFrame DEF vars, Settled, SchemaManual
<1>1. /\ rpc[r] = "schemaManual" /\ rpc' = [rpc EXCEPT ![r] = "dataMl"]
      /\ schema' = [schema EXCEPT ![r]["manual"] = seen]
  BY DEF SchemaManual, Step
<1>2. want[r] \subseteq Columns /\ ReadOk(r) /\ Active(r)
  BY <1>1 DEF ReadInv, ReadTyped, Active
<1>3. ReadTyped'
  <2>1. seen \subseteq Columns
    BY <1>2
  <2>2. schema' \in [Readers -> [Parts -> SUBSET Columns]]
    BY <1>1, <2>1 DEF ReadInv, ReadTyped
  <2> QED
    BY <1>0, <1>1, <2>2 DEF ReadInv, ReadTyped, ReaderPcs, Settled
<1>4. rpc'[r] = "dataMl" /\ schema'[r]["manual"] = seen /\ schema'[r]["ml"] = schema[r]["ml"]
  BY <1>1 DEF ReadInv, ReadTyped
<1>5. /\ \A c \in Columns : View[c] \in window[r][c]
      /\ "manual" \notin found[r] => NoManual(r)
      /\ Unanswered(r) /\ got[r] = Empty
  BY <1>1, <1>2 DEF ReadOk
<1>6. ASSUME NEW c \in want[r], ~(c \in schema[r]["ml"] /\ Owner[c] # "manual"), c \notin seen
      PROVE  Missing(r, c)
  <2>1. c \in Columns /\ ManualNeeded(r)
    BY <1>2, <1>6 DEF ManualNeeded
  <2>2. Owner[c] # "manual" => Legacy(r, c)
    BY <1>5, <1>6 DEF Unanswered
  <2>3. CASE "manual" \notin found[r]
    BY <1>5, <2>1, <2>2, <2>3 DEF NoManual, Missing, Legacy
  <2>4. CASE "manual" \in found[r]
    <3>1. tab["manual"][c] = Absent
      BY <1>6, <2>1, <2>4 DEF InFile
    <3> QED
      BY <1>5, <2>1, <2>2, <3>1, ViewRule DEF Missing, Legacy
  <2> QED
    BY <2>3, <2>4
<1>7. NowhereSeen(r)' /\ Unanswered(r)'
  <2>1. Group(r, "ml")' = {c \in schema[r]["ml"] : Owner[c] # "manual"}
    BY <1>4 DEF Group
  <2>2. NowhereSeen(r)'
    BY <1>0, <1>4, <1>6, <2>1 DEF NowhereSeen, Missing, Settled
  <2> QED
    BY <1>0, <1>4, <1>5, <2>2 DEF Unanswered, Legacy, Settled
<1>8. Active(r)' /\ rpc'[r] # "statMl"
  BY <1>4 DEF Active
<1>9. /\ \A c \in Columns : View'[c] \in window'[r][c]
      /\ "manual" \notin found'[r] => NoManual(r)'
      /\ found'[r] # {} /\ ("ml" \notin found'[r] => NoMl(r)')
  BY <1>0, <1>1, <1>2, <1>8, SettledFacts
<1> QED
  BY <1>0, <1>3, <1>4, <1>5, <1>7, <1>9 DEF ReadOk

LEMMA DataMlOk ==
  ASSUME TypeInv, ReadInv, NEW r \in Readers, DataMl(r), UNCHANGED vars
  PROVE  ReadTyped' /\ ReadOk(r)'
<1> USE DEF Parts
<1> DEFINE cs == Group(r, "ml")
<1>0. Settled(r) /\ UNCHANGED schema
  BY ViewFrame DEF vars, Settled, DataMl, Data
<1>1. /\ rpc[r] = "dataMl"
      /\ \/ /\ cs \subseteq InFile("ml") /\ got' = [got EXCEPT ![r] = Fetch(r, "ml", cs)]
            /\ rpc' = [rpc EXCEPT ![r] = "dataManual"]
         \/ rpc' = [rpc EXCEPT ![r] = "error"] /\ UNCHANGED got
  BY DEF DataMl, Data, Step
<1>2. want[r] \subseteq Columns /\ ReadOk(r) /\ Active(r)
  BY <1>1 DEF ReadInv, ReadTyped, Active
<1>3. ReadTyped'
  <2>1. Fetch(r, "ml", cs) \in Tables
    BY FetchType DEF ReadInv
  <2>2. got' \in [Readers -> Tables] /\ rpc' \in [Readers -> ReaderPcs]
    BY <1>1, <2>1 DEF ReadInv, ReadTyped, ReaderPcs
  <2> QED
    BY <1>0, <2>2 DEF ReadInv, ReadTyped, Settled
<1>4. CASE rpc' = [rpc EXCEPT ![r] = "error"]
  <2>1. rpc'[r] = "error" /\ ~Active(r)'
    BY <1>4 DEF Active, ReadInv, ReadTyped
  <2> QED
    BY <1>3, <2>1 DEF ReadOk
<1>5. CASE cs \subseteq InFile("ml") /\ got' = [got EXCEPT ![r] = Fetch(r, "ml", cs)]
           /\ rpc' = [rpc EXCEPT ![r] = "dataManual"]
  <2>1. rpc'[r] = "dataManual" /\ got'[r] = Fetch(r, "ml", cs)
    BY <1>5 DEF ReadInv, ReadTyped
  <2>2. /\ \A c \in Columns : View[c] \in window[r][c]
        /\ Unanswered(r) /\ NowhereSeen(r) /\ got[r] = Empty
    BY <1>1, <1>2 DEF ReadOk
  <2>3. ASSUME NEW c \in want[r]
        PROVE  IF c \in cs THEN got'[r][c] \in window[r][c] ELSE got'[r][c] = Absent
    <3>1. c \in Columns /\ got[r][c] = Absent
      BY <1>2, <2>2 DEF Empty
    <3>2. c \in cs => Owner[c] # "manual" /\ tab["ml"][c] # Absent
      BY <1>5 DEF Group, InFile
    <3>3. got'[r][c] = IF c \in cs THEN tab["ml"][c] ELSE Absent
      BY <2>1, <3>1 DEF Fetch
    <3> QED
      BY <2>2, <3>1, <3>2, <3>3, ViewRule
  <2>4. Group(r, "ml")' = cs
    BY <1>0 DEF Group
  <2>5. MlRead(r)' /\ NowhereSeen(r)' /\ Unanswered(r)'
    BY <1>0, <2>2, <2>3, <2>4 DEF MlRead, NowhereSeen, Unanswered, Missing, Legacy, Settled
  <2>6. Active(r)' /\ rpc'[r] # "statMl"
    BY <2>1 DEF Active
  <2>7. /\ \A c \in Columns : View'[c] \in window'[r][c]
        /\ "manual" \notin found'[r] => NoManual(r)'
        /\ found'[r] # {} /\ ("ml" \notin found'[r] => NoMl(r)')
    BY <1>0, <1>1, <1>2, <2>6, SettledFacts
  <2> QED
    BY <1>3, <2>1, <2>5, <2>7 DEF ReadOk
<1> QED
  BY <1>1, <1>4, <1>5

LEMMA DataManualOk ==
  ASSUME TypeInv, ReadInv, NEW r \in Readers, DataManual(r), UNCHANGED vars
  PROVE  ReadTyped' /\ ReadOk(r)'
<1> USE DEF Parts
<1> DEFINE cs == Group(r, "manual")
<1>0. Settled(r) /\ UNCHANGED schema
  BY ViewFrame DEF vars, Settled, DataManual, Data
<1>1. /\ rpc[r] = "dataManual"
      /\ \/ /\ got' = [got EXCEPT ![r] = Fetch(r, "manual", cs)]
            /\ rpc' = [rpc EXCEPT ![r] = "done"]
         \/ rpc' = [rpc EXCEPT ![r] = "error"] /\ UNCHANGED got
  BY DEF DataManual, Data, Step
<1>2. want[r] \subseteq Columns /\ ReadOk(r) /\ Active(r)
  BY <1>1 DEF ReadInv, ReadTyped, Active
<1>3. ReadTyped'
  <2>1. Fetch(r, "manual", cs) \in Tables
    BY FetchType DEF ReadInv
  <2>2. got' \in [Readers -> Tables] /\ rpc' \in [Readers -> ReaderPcs]
    BY <1>1, <2>1 DEF ReadInv, ReadTyped, ReaderPcs
  <2> QED
    BY <1>0, <2>2 DEF ReadInv, ReadTyped, Settled
<1>4. CASE rpc' = [rpc EXCEPT ![r] = "error"]
  <2>1. rpc'[r] = "error" /\ ~Active(r)'
    BY <1>4 DEF Active, ReadInv, ReadTyped
  <2> QED
    BY <1>3, <2>1 DEF ReadOk
<1>5. CASE got' = [got EXCEPT ![r] = Fetch(r, "manual", cs)] /\ rpc' = [rpc EXCEPT ![r] = "done"]
  <2>1. rpc'[r] = "done" /\ got'[r] = Fetch(r, "manual", cs) /\ ~Active(r)'
    BY <1>5 DEF ReadInv, ReadTyped, Active
  <2>2. /\ \A c \in Columns : View[c] \in window[r][c]
        /\ Unanswered(r) /\ NowhereSeen(r) /\ MlRead(r)
    BY <1>1, <1>2 DEF ReadOk
  <2>3. ASSUME NEW c \in want[r] PROVE got'[r][c] \in window[r][c]
    <3>1. c \in Columns
      BY <1>2
    <3>2. c \in Group(r, "ml") <=> c \in schema[r]["ml"] /\ Owner[c] # "manual"
      BY DEF Group
    <3>3. c \in cs <=> c \in schema[r]["manual"] /\ c \notin Group(r, "ml")
      BY DEF Group
    <3>4. got'[r][c] = IF c \in cs THEN tab["manual"][c] ELSE got[r][c]
      BY <2>1, <3>1 DEF Fetch
    <3>5. CASE c \in Group(r, "ml")
      BY <2>2, <3>3, <3>4, <3>5 DEF MlRead
    <3>6. CASE c \in cs
      <4>1. got'[r][c] = tab["manual"][c] /\ c \notin Group(r, "ml")
        BY <3>3, <3>4, <3>6
      <4>2. Owner[c] # "manual" => Legacy(r, c)
        BY <2>2, <3>2, <4>1 DEF Unanswered
      <4> QED
        BY <2>2, <3>1, <4>1, <4>2, ViewRule DEF Legacy
    <3>7. CASE c \notin Group(r, "ml") /\ c \notin cs
      BY <2>2, <3>3, <3>4, <3>7 DEF MlRead, NowhereSeen, Missing
    <3> QED
      BY <3>5, <3>6, <3>7
  <2> QED
    BY <1>0, <1>3, <2>1, <2>3 DEF ReadOk, Settled
<1> QED
  BY <1>1, <1>4, <1>5

-----------------------------------------------------------------------------
LEMMA ReadInit == InitReads => ReadInv
<1> SUFFICES ASSUME InitReads PROVE ReadInv
  OBVIOUS
<1>1. Stand
  BY DEF InitReads, Init, Stand
<1>2. ReadTyped
  <2>1. Empty \in Tables
    BY DEF Empty, Tables
  <2> QED
    BY <2>1 DEF InitReads, ReadTyped, ReaderPcs, Parts
<1>3. \A r \in Readers : ReadOk(r)
  BY DEF InitReads, ReadOk, Active
<1> QED
  BY <1>1, <1>2, <1>3 DEF ReadInv

\* A reader's own step.
LEMMA ReaderStep ==
  ASSUME TypeInv, ReadInv, NEW r \in Readers, Reader(r), UNCHANGED vars
  PROVE  ReadInv'
<1>1. ReadTyped' /\ ReadOk(r)'
  BY BeginOk, StatMlOk, PrimaryOk, FinishOk, SchemaMlOk, SchemaManualOk, DataMlOk, DataManualOk DEF Reader
<1>2. ASSUME NEW q \in Readers, q # r PROVE ReadOk(q)'
  BY <1>2, ReaderFrame, IdleReader DEF ReadInv, vars
<1>3. Stand'
  BY DEF ReadInv, Stand, vars
<1> QED
  BY <1>1, <1>2, <1>3 DEF ReadInv

LEMMA ReadStep ==
  ASSUME TypeInv, FilesInv, ReadInv, Migrators = {}, Removers = {}, [NextReads]_<<vars, readVars>>
  PROVE  ReadInv'
<1>1. CASE Publication
  BY <1>1, PublicationStep
<1>2. ASSUME NEW r \in Readers, Reader(r), UNCHANGED vars PROVE ReadInv'
  BY <1>2, ReaderStep
<1>3. CASE UNCHANGED <<vars, readVars>>
  <2>1. Stand' /\ ReadTyped'
    BY <1>3 DEF vars, readVars, ReadInv, Stand, ReadTyped
  <2>2. ASSUME NEW q \in Readers PROVE ReadOk(q)'
    <3>1. Idle(q) /\ UNCHANGED tab /\ ReadOk(q)
      BY <1>3 DEF vars, readVars, Idle, ReadInv
    <3> QED
      BY <3>1, IdleReader
  <2> QED
    BY <2>1, <2>2 DEF ReadInv
<1> QED
  BY <1>1, <1>2, <1>3 DEF NextReads

\* Where no program migrates and none removes, a reader that holds no lock returns,
\* for every column it asked for, a value (or an absence) that the logical table had
\* at some moment of the read: FactorFiles::read, read_many and FactorFiles.read.
THEOREM ReadsAreOfTheTable ==
  ASSUME Migrators = {}, Removers = {}
  PROVE  SpecReads => []ReadsLogicalTable
<1>1. SpecReads => Spec
  <2>1. InitReads => Init
    BY DEF InitReads
  <2>2. [NextReads]_<<vars, readVars>> => [Next]_vars
    BY DEF NextReads, Publication
  <2> QED
    BY <2>1, <2>2, PTL DEF SpecReads, Spec
<1>2. Spec => [](TypeInv /\ FilesInv)
  BY FilesInductive
<1>3. InitReads => ReadInv
  BY ReadInit
<1>4. TypeInv /\ FilesInv /\ ReadInv /\ [NextReads]_<<vars, readVars>> => ReadInv'
  BY ReadStep
<1>5. ReadInv => ReadsLogicalTable
  BY DEF ReadInv, ReadOk, ReadsLogicalTable
<1> QED
  BY <1>1, <1>2, <1>3, <1>4, <1>5, PTL DEF SpecReads
=============================================================================
