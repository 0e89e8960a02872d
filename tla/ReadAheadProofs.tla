--------------------------- MODULE ReadAheadProofs ---------------------------
(***************************************************************************)
(* TLAPS proofs about ReadAhead, for every number of files, every set of    *)
(* workers, every limit and every set of footer estimates.                  *)
(***************************************************************************)
EXTENDS ReadAhead, NumberLemmas

\* The indices the threads use are files of the list.
InRange ==
  /\ \A w \in Workers : Holding(w) => idx[w] \in Files
  /\ cpc = "consume" => visited \in Files

\* Membership in Files, as arithmetic.
LEMMA FilesDef == \A i : i \in Files <=> i \in Nat /\ i < N
BY FilesAssumption DEF Files

\* The initial state is well typed.
LEMMA InitTyped == Init => TypeOK /\ InRange
<1> USE FilesDef, FilesAssumption
<1> SUFFICES ASSUME Init PROVE TypeOK /\ InRange
  OBVIOUS
<1>1. rxOpen = TRUE \/ rxOpen = FALSE
  BY DEF Init, Start
<1>2. pc \in [Workers -> WorkerPcs] /\ cpc \in CallerPcs
  BY DEF Init, Start, WorkerPcs, CallerPcs
<1>3. est \in [Files -> Nat] /\ place \in [Files -> Places]
  BY DEF Init, Places
<1>4. InRange
  BY DEF Init, Start, InRange, Holding
<1>5. visited \in 0 .. N /\ fault \subseteq Files /\ idx \in [Workers -> Nat]
  BY DEF Init
<1>6. outcome \in {"running", "ok", "failed"} /\ cancelled \in BOOLEAN
  BY DEF Init
<1>7. next \in Nat /\ used \in Nat /\ admitted \in Nat
  BY DEF Init
<1> QED
  BY <1>1, <1>2, <1>3, <1>4, <1>5, <1>6, <1>7 DEF TypeOK

\* The variables keep their types (TypeOK of ReadAhead).
THEOREM Typing == Spec => [](TypeOK /\ InRange)
<1> USE FilesDef, FilesAssumption
<1>1. Init => TypeOK /\ InRange
  BY InitTyped
<1>2. TypeOK /\ InRange /\ [Next]_vars => TypeOK' /\ InRange'
  <2> SUFFICES ASSUME TypeOK, InRange, [Next]_vars PROVE TypeOK' /\ InRange'
    OBVIOUS
  <2> USE DEF TypeOK, workerVars, budgetVars, fileVars, callVars, NotifyAll, Release,
              SatSub, Goto, InRange, Holding, WorkerPcs, CallerPcs, Places, At
  <2>1. ASSUME NEW w \in Workers, Worker(w) \/ SpuriousWake(w) PROVE TypeOK' /\ InRange'
    <3>1. CASE Claim(w)
      BY <3>1 DEF Claim
    <3>2. CASE Prepare(w) 
      <4>1. idx[w] \in Files
        BY <3>2 DEF Prepare
      <4>2. est' \in [Files -> Nat] /\ fault' \subseteq Files
        BY <3>2, <4>1, SizesAssumption DEF Prepare
      <4> QED
        BY <3>2, <4>2 DEF Prepare
    <3>3. CASE Wait(w) \/ SpuriousWake(w) \/ GiveUp(w)
      BY <3>3 DEF Wait, SpuriousWake, GiveUp
    <3>4. CASE Admit(w)
      BY <3>4 DEF Admit, MustWait
    <3>5. CASE Read(w)
      <4>1. fault' \subseteq Files
        BY <3>5 DEF Read
      <4> QED
        BY <3>5, <4>1 DEF Read
    <3>6. CASE Send(w) 
      BY <3>6 DEF Send
    <3>7. CASE SendFails(w)
      BY <3>7 DEF SendFails
    <3> QED
      BY <2>1, <3>1, <3>2, <3>3, <3>4, <3>5, <3>6, <3>7 DEF Worker
  <2>2. CASE Caller
    <3>1. CASE LocalFile \/ LocalReturn
      <4>1. fault' \subseteq Files /\ visited' \in 0 .. N
        BY <3>1 DEF LocalFile, LocalReturn
      <4> QED
        BY <3>1, <4>1 DEF LocalFile, LocalReturn
    <3>2. CASE Recv \/ Take
      BY <3>2 DEF Recv, Take, Disconnected
    <3>3. CASE ConsumeOk \/ ConsumeFails \/ AllConsumed
      <4>1. fault' \subseteq Files /\ visited' \in 0 .. N
        BY <3>3 DEF ConsumeOk, ConsumeFails, AllConsumed
      <4> QED
        BY <3>3, <4>1 DEF ConsumeOk, ConsumeFails, AllConsumed
    <3>4. CASE ReleaseConsumed
      BY <3>4 DEF ReleaseConsumed
    <3>5. CASE Unwind \/ Discard
      <4>1. UnwindNext \subseteq Files
        BY DEF UnwindNext
      <4> QED
        BY <3>5, <4>1 DEF Unwind, Discard
    <3>6. CASE Unwound \/ Cancel \/ NotifyCancelled \/ CloseReceiver \/ Drained \/ Join
      BY <3>6 DEF Unwound, Cancel, NotifyCancelled, CloseReceiver, Drained, Join
    <3> QED
      BY <2>2, <3>1, <3>2, <3>3, <3>4, <3>5, <3>6 DEF Caller
  <2>3. CASE UNCHANGED vars
    BY <2>3 DEF vars
  <2> QED
    BY <2>1, <2>2, <2>3 DEF Next, Returned
<1> QED
  BY <1>1, <1>2, PTL DEF Spec

-----------------------------------------------------------------------------
\* The control part of the inductive invariant holds initially.
LEMMA ControlInit == Init => Control
<1> SUFFICES ASSUME Init PROVE Control
  OBVIOUS
<1>1. TypeOK
  BY InitTyped
<1>2. Claims
  BY FilesDef DEF Init, Start, Claims, Holding
<1>3. Whereabouts /\ AdmitInOrder
  BY FilesDef DEF Init, Start, Whereabouts, AdmitInOrder, Holding
<1>4. Progress
  BY FilesDef, WorkersAssumption DEF Init, Start, Progress, Looping, InHand
<1>5. Verdict /\ NoLostWakeup
  BY DEF Init, Start, Verdict, NoLostWakeup
<1> QED
  BY <1>1, <1>2, <1>3, <1>4, <1>5 DEF Control

\* A step of an IO worker preserves it.
LEMMA ControlWorker ==
  ASSUME Control, TypeOK', NEW w \in Workers, Worker(w) \/ SpuriousWake(w)
  PROVE  Control'
<1> USE FilesDef, FilesAssumption
<1> USE DEF Control, workerVars, budgetVars, fileVars, callVars
<1>1. CASE Claim(w)
  <2> USE DEF TypeOK
  <2>1. Claims'
    BY <1>1 DEF Claim, Claims, Holding
  <2>2. Whereabouts' /\ AdmitInOrder'
    BY <1>1 DEF Claim, Claims, Whereabouts, AdmitInOrder, Holding
  <2>3. Progress'
    BY <1>1 DEF Claim, Progress, Looping, InHand
  <2>4. Verdict' /\ NoLostWakeup'
    BY <1>1 DEF Claim, Verdict, NoLostWakeup, MustWait, SatSub
  <2> QED
    BY <2>1, <2>2, <2>3, <2>4
<1>2. CASE Prepare(w)
  <2>1. Claims'
    BY <1>2 DEF Prepare, Claims, Holding, TypeOK
  <2>2. Whereabouts' /\ AdmitInOrder'
    BY <1>2 DEF Prepare, Claims, Whereabouts, AdmitInOrder, Holding, TypeOK
  <2>3. Progress' /\ Verdict'
    BY <1>2 DEF Prepare, Progress, Looping, InHand, Verdict, TypeOK
  <2>4. NoLostWakeup'
    <3>1. ASSUME NEW v \in Workers, pc'[v] = "wait", cpc # "notify"
          PROVE  ~cancelled /\ (admitted # idx[v] \/ (used # 0 /\ est'[idx[v]] > SatSub(Limit, used)))
      <4>1. v # w /\ pc[v] = "wait" /\ idx[v] # idx[w]
        BY <1>2, <3>1 DEF Prepare, Claims, Holding, TypeOK
      <4>2. est'[idx[v]] = est[idx[v]]
        <5>1. idx[v] \in Files /\ idx[w] \in Files
          BY <1>2, <4>1 DEF Prepare, Claims, Holding
        <5>2. PICK b : est' = [est EXCEPT ![idx[w]] = b]
          BY <1>2 DEF Prepare
        <5> QED
          BY <4>1, <5>1, <5>2 DEF TypeOK
      <4>3. ~cancelled /\ MustWait(idx[v], est[idx[v]])
        BY <3>1, <4>1 DEF NoLostWakeup
      <4> QED
        BY <4>2, <4>3 DEF MustWait
    <3> QED
      BY <1>2, <3>1 DEF Prepare, NoLostWakeup, MustWait
  <2> QED
    BY <2>1, <2>2, <2>3, <2>4
<1>3. CASE Wait(w) \/ SpuriousWake(w)
  <2>1. Claims'
    BY <1>3 DEF Wait, SpuriousWake, Claims, Holding, TypeOK
  <2>2. Whereabouts' /\ AdmitInOrder'
    BY <1>3 DEF Wait, SpuriousWake, Claims, Whereabouts, AdmitInOrder, Holding, TypeOK
  <2>3. Progress' /\ Verdict'
    BY <1>3 DEF Wait, SpuriousWake, Progress, Looping, InHand, Verdict, TypeOK
  <2>4. NoLostWakeup'
    BY <1>3 DEF Wait, SpuriousWake, NoLostWakeup, MustWait, TypeOK
  <2> QED
    BY <2>1, <2>2, <2>3, <2>4
<1>4. CASE Admit(w)
  <2> USE DEF TypeOK, NotifyAll, MustWait
  <2>1. Claims'
    BY <1>4 DEF Admit, Claims, Holding
  <2>2. Whereabouts'
    BY <1>4 DEF Admit, Claims, Whereabouts, Holding
  <2>3. AdmitInOrder'
    BY <1>4 DEF Admit, Claims, AdmitInOrder, Holding
  <2>4. Progress' /\ Verdict'
    BY <1>4 DEF Admit, Claims, Whereabouts, Holding, Progress, Looping, InHand, Verdict
  <2>5. NoLostWakeup'
    BY <1>4 DEF Admit, NoLostWakeup
  <2> QED
    BY <2>1, <2>2, <2>3, <2>4, <2>5
<1>5. CASE GiveUp(w)
  <2>1. Claims'
    BY <1>5 DEF GiveUp, Claims, Holding, TypeOK
  <2>2. Whereabouts' /\ AdmitInOrder'
    BY <1>5 DEF GiveUp, Claims, Whereabouts, AdmitInOrder, Holding, TypeOK
  <2>3. Progress' /\ Verdict'
    BY <1>5 DEF GiveUp, Progress, Looping, InHand, Verdict, TypeOK
  <2>4. NoLostWakeup'
    BY <1>5 DEF GiveUp, NoLostWakeup, MustWait, TypeOK
  <2> QED
    BY <2>1, <2>2, <2>3, <2>4
<1>6. CASE Read(w)
  <2>1. Claims'
    BY <1>6 DEF Read, Claims, Holding, TypeOK
  <2>2. Whereabouts' /\ AdmitInOrder'
    BY <1>6 DEF Read, Claims, Whereabouts, AdmitInOrder, Holding, TypeOK
  <2>3. Progress' /\ Verdict'
    BY <1>6 DEF Read, Progress, Looping, InHand, Verdict, TypeOK
  <2>4. NoLostWakeup'
    BY <1>6 DEF Read, NoLostWakeup, MustWait, TypeOK
  <2> QED
    BY <2>1, <2>2, <2>3, <2>4
<1>7. CASE Send(w)
  <2>1. Claims'
    BY <1>7 DEF Send, Claims, Holding, TypeOK
  <2>2. Whereabouts' /\ AdmitInOrder'
    BY <1>7 DEF Send, Claims, Whereabouts, AdmitInOrder, Holding, TypeOK
  <2>3. Progress' /\ Verdict'
    BY <1>7 DEF Send, Claims, Whereabouts, Holding, Progress, Looping, InHand, Verdict, TypeOK
  <2>4. NoLostWakeup'
    BY <1>7 DEF Send, NoLostWakeup, MustWait, TypeOK
  <2> QED
    BY <2>1, <2>2, <2>3, <2>4
<1>8. CASE SendFails(w)
  <2> USE DEF TypeOK, NotifyAll, Release
  <2>1. Claims'
    BY <1>8 DEF SendFails, Claims, Holding
  <2>2. Whereabouts' /\ AdmitInOrder'
    BY <1>8 DEF SendFails, Claims, Whereabouts, AdmitInOrder, Holding
  <2>3. Progress' /\ Verdict'
    BY <1>8 DEF SendFails, Progress, Looping, InHand, Verdict
  <2>4. NoLostWakeup'
    BY <1>8 DEF SendFails, NoLostWakeup
  <2> QED
    BY <2>1, <2>2, <2>3, <2>4
<1> QED
  BY <1>1, <1>2, <1>3, <1>4, <1>5, <1>6, <1>7, <1>8 DEF Worker

\* A step of the calling thread preserves it.
LEMMA ControlCaller ==
  ASSUME Control, TypeOK', Caller
  PROVE  Control'
<1> USE FilesDef, FilesAssumption
<1> USE DEF Control, workerVars, budgetVars, fileVars, callVars, Goto, TypeOK, At
<1>1. CASE LocalFile \/ LocalReturn
  <2>1. Claims'
    BY <1>1 DEF LocalFile, LocalReturn, Claims, Holding, Progress
  <2>2. Whereabouts' /\ AdmitInOrder'
    BY <1>1 DEF LocalFile, LocalReturn, Whereabouts, AdmitInOrder, Holding
  <2>3. Progress' /\ Verdict'
    BY <1>1 DEF LocalFile, LocalReturn, Progress, Looping, InHand, Verdict
  <2>4. NoLostWakeup'
    BY <1>1 DEF LocalFile, LocalReturn, NoLostWakeup, Progress
  <2> QED
    BY <2>1, <2>2, <2>3, <2>4
<1>2. CASE Recv
  <2>1. ~Disconnected
    <3>1. SUFFICES ASSUME Disconnected PROVE FALSE
      OBVIOUS
    <3>2. PICK w \in Workers : pc[w] = "done"
      BY <3>1, WorkersAssumption DEF Disconnected
    <3>3. visited \in Files /\ visited < next /\ InHand = {} /\ ~cancelled
      BY <1>2, <3>2 DEF Recv, Progress, Looping, InHand
    <3>4. place[visited] \notin {"none", "worker"}
      BY <3>1, <3>3 DEF Disconnected, Whereabouts, Holding
    <3>5. place[visited] \notin {"hand", "freed"}
      BY <1>2, <3>3 DEF Recv, Progress, Looping
    <3> QED
      BY <1>2, <3>1, <3>3, <3>4, <3>5 DEF Recv, Disconnected, Places
  <2>2. PICK i \in At("queue") : place' = [place EXCEPT ![i] = "pending"]
    BY <1>2, <2>1 DEF Recv
  <2>3. UNCHANGED <<workerVars, budgetVars, est, fault, callVars>>
    BY <1>2, <2>1 DEF Recv
  <2>4. Claims' /\ Verdict' /\ NoLostWakeup'
    BY <2>2, <2>3 DEF Claims, Holding, Verdict, NoLostWakeup, MustWait
  <2>5. Whereabouts' /\ AdmitInOrder'
    BY <2>2, <2>3 DEF Whereabouts, Claims, AdmitInOrder, Holding
  <2>6. Progress'
    BY <2>2, <2>3 DEF Progress, Looping, InHand
  <2> QED
    BY <2>4, <2>5, <2>6
<1>3. CASE Take
  <2>1. Claims' /\ Verdict' /\ NoLostWakeup'
    BY <1>3 DEF Take, Claims, Holding, Verdict, NoLostWakeup, MustWait
  <2>2. Whereabouts' /\ AdmitInOrder'
    BY <1>3 DEF Take, Whereabouts, Claims, AdmitInOrder, Holding
  <2>3. Progress'
    BY <1>3 DEF Take, Progress, Looping, InHand
  <2> QED
    BY <2>1, <2>2, <2>3
<1>4. CASE ConsumeOk
  <2>1. visited \in Files /\ place[visited] = "hand"
    BY <1>4 DEF ConsumeOk, Progress, Looping, InHand
  <2>2. visited < next
    BY <2>1 DEF Whereabouts
  <2>3. Claims'
    <3>1. \A w \in Workers : Holding(w) => idx[w] # visited
      BY <2>1 DEF Whereabouts
    <3> QED
      BY <1>4, <2>2, <3>1 DEF ConsumeOk, Claims, Holding
  <2>4. Whereabouts' /\ AdmitInOrder' /\ NoLostWakeup' /\ Verdict'
    BY <1>4 DEF ConsumeOk, Whereabouts, AdmitInOrder, Holding, NoLostWakeup, MustWait, Verdict
  <2>5. Progress'
    BY <1>4, <2>1 DEF ConsumeOk, Progress, Looping, InHand
  <2> QED
    BY <2>3, <2>4, <2>5
<1>5. CASE ConsumeFails
  <2>1. Claims' /\ Whereabouts' /\ AdmitInOrder' /\ NoLostWakeup'
    BY <1>5 DEF ConsumeFails, Claims, Whereabouts, AdmitInOrder, Holding, NoLostWakeup, MustWait
  <2>2. Progress' /\ Verdict'
    BY <1>5 DEF ConsumeFails, Progress, Looping, InHand, Verdict
  <2> QED
    BY <2>1, <2>2
<1>6. CASE ReleaseConsumed
  <2> USE DEF Release, NotifyAll
  <2>1. PICK i \in At("hand") : Release(i, pc)
    BY <1>6 DEF ReleaseConsumed
  <2>2. cpc = "release" /\ cpc' = "recv" /\ UNCHANGED <<idx, next, est, fault, rxOpen, visited, outcome>>
    BY <1>6 DEF ReleaseConsumed
  <2>3. Claims' /\ NoLostWakeup' /\ Verdict'
    BY <2>1, <2>2 DEF Claims, Holding, NoLostWakeup, Verdict
  <2>4. Whereabouts' /\ AdmitInOrder'
    BY <2>1, <2>2 DEF Whereabouts, AdmitInOrder, Holding
  <2>5. Progress'
    BY <2>1, <2>2 DEF Progress, Looping, InHand
  <2> QED
    BY <2>3, <2>4, <2>5
<1>7. CASE AllConsumed
  BY <1>7 DEF AllConsumed, Claims, Whereabouts, AdmitInOrder, Holding, NoLostWakeup, MustWait,
              Progress, Looping, InHand, Verdict
<1>8. CASE Unwind \/ Discard
  <2> USE DEF Release, NotifyAll
  <2>1. PICK i \in Files : place[i] # "none" /\ place[i] # "worker" /\ Release(i, pc)
    BY <1>8 DEF Unwind, Discard, UnwindNext
  <2>2. cpc \in {"unwind", "drain"} /\ UNCHANGED <<idx, next, est, fault, callVars>>
    BY <1>8 DEF Unwind, Discard
  <2>3. Claims' /\ NoLostWakeup' /\ Verdict'
    BY <2>1, <2>2 DEF Claims, Holding, NoLostWakeup, Verdict
  <2>4. Whereabouts' /\ AdmitInOrder'
    BY <2>1, <2>2 DEF Whereabouts, AdmitInOrder, Holding
  <2>5. Progress'
    BY <2>1, <2>2 DEF Progress, Looping, InHand
  <2> QED
    BY <2>3, <2>4, <2>5
<1>9. CASE Unwound \/ Cancel \/ CloseReceiver \/ Drained \/ Join
  <2> USE DEF Unwound, Cancel, CloseReceiver, Drained, Join
  <2>1. Claims' /\ Whereabouts' /\ AdmitInOrder'
    BY <1>9 DEF Claims, Whereabouts, AdmitInOrder, Holding
  <2>2. NoLostWakeup'
    BY <1>9 DEF NoLostWakeup, MustWait
  <2>3. Progress' /\ Verdict'
    BY <1>9 DEF Progress, Looping, InHand, Verdict
  <2> QED
    BY <2>1, <2>2, <2>3
<1>10. CASE NotifyCancelled
  <2> USE DEF NotifyCancelled, NotifyAll
  <2>1. Claims' /\ Whereabouts' /\ AdmitInOrder' /\ NoLostWakeup'
    BY <1>10 DEF Claims, Whereabouts, AdmitInOrder, Holding, NoLostWakeup
  <2>2. Progress' /\ Verdict'
    BY <1>10 DEF Progress, Looping, InHand, Verdict
  <2> QED
    BY <2>1, <2>2
<1> QED
  BY <1>1, <1>2, <1>3, <1>4, <1>5, <1>6, <1>7, <1>8, <1>9, <1>10 DEF Caller

-----------------------------------------------------------------------------
(* The budget's account.                                                    *)

\* The live files are finitely many, and each announces a natural number of bytes.
LEMMA LiveFinite == TypeOK => /\ IsFiniteSet(Live) /\ Live \subseteq Files
                              /\ \A i \in Live : est[i] \in Nat
<1>1. IsFiniteSet(Files)
  BY FilesAssumption, FS_Interval DEF Files
<1> QED
  BY <1>1, FS_Subset DEF Live, TypeOK

\* A step that leaves the live files, their bytes and the counter alone.
LEMMA AccountsKept ==
  ASSUME TypeOK, BudgetExact, OversizedAlone, used' = used, Live' = Live,
         \A i \in Live : est'[i] = est[i]
  PROVE  BudgetExact' /\ OversizedAlone'
<1>1. SumFunctionOnSet(est, Live) = SumFunctionOnSet(est', Live)
  <2>1. \A i \in Live : est[i] = est'[i] /\ est[i] \in Int
    BY LiveFinite
  <2> QED
    BY <2>1, LiveFinite, SumEqual
<1>2. BudgetExact'
  BY <1>1 DEF BudgetExact
<1>3. OversizedAlone'
  BY DEF OversizedAlone
<1> QED
  BY <1>2, <1>3

\* Granting file i its bytes.
LEMMA AccountsGrant ==
  ASSUME TypeOK, BudgetExact, OversizedAlone, NEW i \in Files, place[i] = "none",
         place' = [place EXCEPT ![i] = "worker"], used' = used + est[i], est' = est,
         used = 0 \/ ~ (est[i] > SatSub(Limit, used))
  PROVE  BudgetExact' /\ OversizedAlone'
<1>1. Live' = Live \union {i} /\ i \notin Live
  BY DEF Live, TypeOK
<1>2. IsFiniteSet(Live) /\ (\A j \in Live \union {i} : est[j] \in Nat /\ est[j] \in Int)
  BY LiveFinite DEF TypeOK
<1>3. SumFunctionOnSet(est, Live \union {i}) = SumFunctionOnSet(est, Live) + est[i]
  BY <1>1, <1>2, SumAdd
<1>4. BudgetExact'
  BY <1>1, <1>3 DEF BudgetExact
<1>5. \A j \in Live : est[j] <= used
  BY <1>2, SumBound DEF BudgetExact
<1>6. used \in Nat /\ Limit \in Nat /\ est[i] \in Nat
  BY LimitAssumption DEF TypeOK
<1>7. CASE used = 0
  <2>1. \A j \in Live : est[j] = 0
    BY <1>2, <1>5, <1>7
  <2>2. used' = est[i]
    BY <1>6, <1>7
  <2> QED
    BY <1>1, <1>4, <2>1, <2>2 DEF OversizedAlone
<1>8. CASE used # 0 /\ used <= Limit
  <2>1. used' <= Limit
    BY <1>6, <1>8 DEF SatSub
  <2>2. ~ (used' > Limit)
    BY <1>6, <2>1
  <2> QED
    BY <1>4, <2>2 DEF OversizedAlone
<1>9. CASE used > Limit
  <2>1. est[i] = 0 /\ used' = used
    BY <1>6, <1>9 DEF SatSub
  <2>2. PICK k \in Live : est[k] = used /\ \A j \in Live \ {k} : est[j] = 0
    BY <1>9 DEF OversizedAlone
  <2>3. k \in Live' /\ est'[k] = used' /\ \A j \in Live' \ {k} : est'[j] = 0
    BY <1>1, <2>1, <2>2
  <2> QED
    BY <1>4, <2>3 DEF OversizedAlone
<1> QED
  BY <1>6, <1>7, <1>8, <1>9

\* Dropping the Reservation of a live file i: saturating_sub never saturates.
LEMMA AccountsRelease ==
  ASSUME TypeOK, BudgetExact, OversizedAlone, NEW i \in Live, NEW p, Release(i, p), est' = est
  PROVE  BudgetExact' /\ OversizedAlone'
<1>1. Live' = Live \ {i} /\ i \in Files
  BY DEF Live, TypeOK, Release
<1>2. IsFiniteSet(Live) /\ (\A j \in Live : est[j] \in Nat /\ est[j] \in Int)
  BY LiveFinite
<1>3. SumFunctionOnSet(est, Live) = est[i] + SumFunctionOnSet(est, Live \ {i})
  BY <1>2, SumRemove
<1>4. est[i] <= used
  BY <1>2, SumBound DEF BudgetExact
<1>5. IsFiniteSet(Live \ {i}) /\ \A j \in Live \ {i} : est[j] \in Int
  BY <1>2, FS_RemoveElement
<1>6. SumFunctionOnSet(est, Live \ {i}) \in Int
  BY <1>5, SumType
<1>7. used \in Nat /\ est[i] \in Nat /\ Limit \in Nat
  BY <1>2, LimitAssumption DEF TypeOK
<1>8. used' = used - est[i]
  BY <1>4, <1>7 DEF Release, SatSub
<1>9. used' = SumFunctionOnSet(est, Live \ {i})
  BY <1>3, <1>6, <1>7, <1>8 DEF BudgetExact
<1>10. BudgetExact'
  BY <1>1, <1>9 DEF BudgetExact
<1>11. OversizedAlone'
  <2> SUFFICES ASSUME used' > Limit
               PROVE  \E k \in Live' : est'[k] = used' /\ \A j \in Live' \ {k} : est'[j] = 0
    BY DEF OversizedAlone
  <2>1. used > Limit
    BY <1>7, <1>8
  <2>2. PICK k \in Live : est[k] = used /\ \A j \in Live \ {k} : est[j] = 0
    BY <2>1 DEF OversizedAlone
  <2>3. i # k
    BY <1>7, <1>8, <2>2
  <2>4. used' = used
    BY <1>7, <1>8, <2>2, <2>3
  <2> QED
    BY <1>1, <2>2, <2>3, <2>4
<1> QED
  BY <1>10, <1>11

\* Every step keeps the account.
LEMMA AccountsStep ==
  ASSUME Control, Shutdown, BudgetExact, OversizedAlone, [Next]_vars
  PROVE  BudgetExact' /\ OversizedAlone'
<1> USE DEF Control, workerVars, budgetVars, fileVars, callVars
<1>1. ASSUME NEW w \in Workers, Worker(w) \/ SpuriousWake(w)
      PROVE  BudgetExact' /\ OversizedAlone'
  <2>1. CASE Admit(w)
    <3>1. idx[w] \in Files /\ place[idx[w]] = "none"
      BY <2>1 DEF Admit, Claims, Whereabouts, Holding
    <3>2. /\ place' = [place EXCEPT ![idx[w]] = "worker"]
          /\ used' = used + est[idx[w]] /\ est' = est
          /\ used = 0 \/ ~ (est[idx[w]] > SatSub(Limit, used))
      BY <2>1 DEF Admit, MustWait
    <3> QED
      BY <3>1, <3>2, AccountsGrant
  <2>2. CASE Prepare(w)
    <3>1. idx[w] \in Files /\ place[idx[w]] = "none"
      BY <2>2 DEF Prepare, Claims, Whereabouts, Holding
    <3>2. Live' = Live /\ used' = used /\ idx[w] \notin Live
      BY <2>2, <3>1 DEF Prepare, Live
    <3>3. \A i \in Live : est'[i] = est[i]
      <4>1. PICK b : est' = [est EXCEPT ![idx[w]] = b]
        BY <2>2 DEF Prepare
      <4> QED
        BY <3>2, <4>1 DEF TypeOK, Live
    <3> QED
      BY <3>2, <3>3, AccountsKept
  <2>3. CASE SendFails(w)
    <3>1. idx[w] \in Live /\ est' = est
      BY <2>3 DEF SendFails, Claims, Whereabouts, Holding, Live
    <3>2. Release(idx[w], [pc EXCEPT ![w] = "done"])
      BY <2>3 DEF SendFails
    <3> QED
      BY <3>1, <3>2, AccountsRelease
  <2>4. CASE Send(w)
    <3>1. idx[w] \in Files /\ place[idx[w]] = "worker"
      BY <2>4 DEF Send, Claims, Whereabouts, Holding
    <3>2. Live' = Live /\ used' = used /\ est' = est
      BY <2>4, <3>1 DEF Send, Live, TypeOK
    <3> QED
      BY <3>2, AccountsKept
  <2>5. CASE Claim(w) \/ Wait(w) \/ SpuriousWake(w) \/ GiveUp(w) \/ Read(w)
    <3>1. used' = used /\ est' = est /\ place' = place
      BY <2>5 DEF Claim, Wait, SpuriousWake, GiveUp, Read
    <3> QED
      BY <3>1, AccountsKept DEF Live
  <2> QED
    BY <1>1, <2>1, <2>2, <2>3, <2>4, <2>5 DEF Worker
<1>2. CASE Caller
  <2>1. CASE ReleaseConsumed \/ Unwind \/ Discard
    <3>1. PICK i \in Live : Release(i, pc)
      BY <2>1 DEF ReleaseConsumed, Unwind, Discard, UnwindNext, At, Live
    <3>2. est' = est
      BY <2>1 DEF ReleaseConsumed, Unwind, Discard
    <3> QED
      BY <3>1, <3>2, AccountsRelease
  <2>2. CASE Recv
    <3>1. used' = used /\ est' = est
      BY <2>2 DEF Recv
    <3>2. Live' = Live
      BY <2>2 DEF Recv, Live, At, TypeOK
    <3> QED
      BY <3>1, <3>2, AccountsKept
  <2>3. CASE Take
    <3>1. used' = used /\ est' = est /\ Live' = Live
      BY <2>3 DEF Take, Live, TypeOK
    <3> QED
      BY <3>1, AccountsKept
  <2>4. CASE ~ (ReleaseConsumed \/ Unwind \/ Discard \/ Recv \/ Take)
    <3>1. used' = used /\ est' = est /\ place' = place
      BY <1>2, <2>4 DEF Caller, LocalFile, LocalReturn, ConsumeOk, ConsumeFails, AllConsumed,
         Unwound, Cancel, NotifyCancelled, CloseReceiver, Drained, Join
    <3> QED
      BY <3>1, AccountsKept DEF Live
  <2> QED
    BY <2>1, <2>2, <2>3, <2>4
<1>3. CASE UNCHANGED vars
  BY <1>3, AccountsKept DEF vars, Live
<1> QED
  BY <1>1, <1>2, <1>3 DEF Next, Returned

-----------------------------------------------------------------------------
(* The end of the call.                                                     *)

\* Nothing is left to unwind only when `pending` is empty: its first key exists.
LEMMA UnwoundEmpty ==
  ASSUME UnwindNext = {}
  PROVE  At("hand") = {} /\ At("pending") = {}
<1>1. At("hand") = {} /\ {i \in At("pending") : \A j \in At("pending") : i <= j} = {}
  BY DEF UnwindNext
<1>2. ASSUME At("pending") # {} PROVE FALSE
  <2>1. At("pending") \subseteq Nat
    BY FilesDef DEF At
  <2> QED
    BY <1>1, <1>2, <2>1, LeastNatural
<1> QED
  BY <1>1, <1>2

\* Every step keeps Shutdown.
LEMMA ShutdownStep ==
  ASSUME Control, TypeOK', Shutdown, [Next]_vars
  PROVE  Shutdown'
<1> USE FilesDef, FilesAssumption
<1> USE DEF Control, workerVars, budgetVars, fileVars, callVars, At
<1>1. ASSUME NEW w \in Workers, Worker(w) \/ SpuriousWake(w) PROVE Shutdown'
  <2>1. CASE Claim(w) \/ Prepare(w) \/ Wait(w) \/ SpuriousWake(w) \/ GiveUp(w)
    <3>1. UNCHANGED <<place, callVars>> /\ pc[w] \notin {"read", "send"}
      BY <2>1 DEF Claim, Prepare, Wait, SpuriousWake, GiveUp
    <3>2. \A v \in Workers : v # w => pc'[v] = pc[v] /\ idx'[v] = idx[v]
      BY <2>1 DEF Claim, Prepare, Wait, SpuriousWake, GiveUp, TypeOK
    <3> QED
      BY <3>1, <3>2 DEF Shutdown
  <2>2. CASE Admit(w)
    <3>1. idx[w] \in Files /\ place[idx[w]] = "none" /\ pc[w] = "acquire" /\ UNCHANGED <<idx, callVars>>
      BY <2>2 DEF Admit, Claims, Whereabouts, Holding
    <3>2. place' = [place EXCEPT ![idx[w]] = "worker"] /\ pc' = NotifyAll([pc EXCEPT ![w] = "read"])
      BY <2>2 DEF Admit
    <3>3. /\ pc'[w] = "read"
          /\ \A v \in Workers : v # w /\ pc[v] \in {"read", "send"} => pc'[v] = pc[v]
      BY <3>2 DEF NotifyAll, TypeOK
    <3>4. ASSUME NEW i \in At("worker")'
          PROVE  \E v \in Workers : pc'[v] \in {"read", "send"} /\ idx'[v] = i
      <4>1. CASE i = idx[w]
        BY <3>1, <3>3, <4>1
      <4>2. CASE i # idx[w]
        <5>1. i \in At("worker")
          BY <3>2, <4>2 DEF TypeOK
        <5>2. PICK v \in Workers : pc[v] \in {"read", "send"} /\ idx[v] = i
          BY <5>1 DEF Shutdown
        <5> QED
          BY <3>1, <3>3, <5>2
      <4> QED
        BY <4>1, <4>2
    <3>5. \A p \in {"hand", "pending", "queue"} : At(p)' = At(p)
      BY <3>1, <3>2 DEF TypeOK
    <3> QED
      BY <3>1, <3>4, <3>5 DEF Shutdown
  <2>3. CASE Read(w)
    BY <2>3 DEF Read, Shutdown, TypeOK
  <2>4. CASE Send(w)
    <3>1. /\ idx[w] \in Files /\ place[idx[w]] = "worker" /\ rxOpen /\ UNCHANGED <<idx, callVars>>
          /\ place' = [place EXCEPT ![idx[w]] = "queue"] /\ pc' = [pc EXCEPT ![w] = "claim"]
      BY <2>4 DEF Send, Claims, Whereabouts, Holding
    <3>2. \A i \in At("worker")' : i \in At("worker") /\ i # idx[w]
      BY <3>1 DEF TypeOK
    <3>3. ASSUME NEW i \in At("worker")'
          PROVE  \E v \in Workers : pc'[v] \in {"read", "send"} /\ idx'[v] = i
      <4>1. PICK v \in Workers : pc[v] \in {"read", "send"} /\ idx[v] = i
        BY <3>2 DEF Shutdown
      <4>2. v # w
        BY <3>2, <4>1
      <4> QED
        BY <3>1, <4>1, <4>2 DEF TypeOK
    <3>4. \A p \in {"hand", "pending"} : At(p)' = At(p)
      BY <3>1 DEF TypeOK
    <3> QED
      BY <3>1, <3>3, <3>4 DEF Shutdown
  <2>5. CASE SendFails(w)
    <3>1. /\ idx[w] \in Files /\ place[idx[w]] = "worker" /\ UNCHANGED <<idx, callVars>>
          /\ place' = [place EXCEPT ![idx[w]] = "freed"]
          /\ pc' = NotifyAll([pc EXCEPT ![w] = "done"])
      BY <2>5 DEF SendFails, Claims, Whereabouts, Holding, Release
    <3>2. \A i \in At("worker")' : i \in At("worker") /\ i # idx[w]
      BY <3>1 DEF TypeOK
    <3>3. \A v \in Workers : v # w /\ pc[v] \in {"read", "send"} => pc'[v] = pc[v]
      BY <3>1 DEF NotifyAll, TypeOK
    <3>4. ASSUME NEW i \in At("worker")'
          PROVE  \E v \in Workers : pc'[v] \in {"read", "send"} /\ idx'[v] = i
      <4>1. i \in At("worker") /\ i # idx[w]
        BY <3>2
      <4>2. PICK v \in Workers : pc[v] \in {"read", "send"} /\ idx[v] = i
        BY <4>1 DEF Shutdown
      <4> QED
        BY <3>1, <3>3, <4>1, <4>2
    <3>5. \A p \in {"hand", "pending", "queue"} : At(p)' = At(p)
      BY <3>1 DEF TypeOK
    <3> QED
      BY <3>1, <3>4, <3>5 DEF Shutdown
  <2> QED
    BY <1>1, <2>1, <2>2, <2>3, <2>4, <2>5 DEF Worker
<1>2. CASE Caller
  <2> USE DEF Goto
  <2>1. CASE ReleaseConsumed \/ Unwind \/ Discard
    <3>1. PICK i \in Files : place[i] \in {"hand", "pending", "queue"} /\ Release(i, pc)
      BY <2>1 DEF ReleaseConsumed, Unwind, Discard, UnwindNext
    <3>2. \A p \in {"worker", "hand", "pending", "queue"} : At(p)' \subseteq At(p)
      BY <3>1 DEF Release, TypeOK
    <3>3. /\ UNCHANGED <<idx, rxOpen>> /\ (cpc' = cpc \/ cpc' = "recv")
          /\ \A v \in Workers : pc[v] \in {"read", "send"} => pc'[v] = pc[v]
      BY <2>1, <3>1 DEF ReleaseConsumed, Unwind, Discard, Release, NotifyAll
    <3> QED
      BY <3>2, <3>3 DEF Shutdown
  <2>2. CASE Recv \/ Take
    BY <2>2 DEF Recv, Take, Shutdown, TypeOK
  <2>3. CASE AllConsumed
    <3>1. At("hand") = {} /\ At("pending") = {}
      BY <2>3 DEF AllConsumed, Progress, Looping, InHand
    <3> QED
      BY <2>3, <3>1 DEF AllConsumed, Shutdown
  <2>4. CASE Unwound
    <3>1. At("hand") = {} /\ At("pending") = {}
      BY <2>4, UnwoundEmpty DEF Unwound
    <3> QED
      BY <2>4, <3>1 DEF Unwound, Shutdown
  <2>5. CASE LocalFile \/ LocalReturn \/ ConsumeOk \/ ConsumeFails \/ Cancel \/ CloseReceiver
             \/ Drained \/ Join
    BY <2>5 DEF LocalFile, LocalReturn, ConsumeOk, ConsumeFails, Cancel, CloseReceiver, Drained,
                Join, Shutdown
  <2>6. CASE NotifyCancelled
    BY <2>6 DEF NotifyCancelled, NotifyAll, Shutdown
  <2> QED
    BY <1>2, <2>1, <2>2, <2>3, <2>4, <2>5, <2>6 DEF Caller
<1>3. CASE UNCHANGED vars
  BY <1>3 DEF vars, Shutdown
<1> QED
  BY <1>1, <1>2, <1>3 DEF Next, Returned

-----------------------------------------------------------------------------
\* The whole inductive invariant holds initially.
LEMMA IInvInit == Init => IInv
<1> SUFFICES ASSUME Init PROVE IInv
  OBVIOUS
<1>1. Control
  BY ControlInit
<1>2. Live = {}
  BY DEF Init, Live
<1>3. BudgetExact /\ OversizedAlone
  BY <1>2, SumEmpty, LimitAssumption DEF Init, BudgetExact, OversizedAlone
<1>4. Shutdown
  BY DEF Init, Start, Shutdown, At
<1> QED
  BY <1>1, <1>3, <1>4 DEF IInv

\* IInv is an invariant of every execution.
THEOREM Inductive == Spec => []IInv
<1>1. IInv /\ TypeOK' /\ [Next]_vars => IInv'
  <2> SUFFICES ASSUME Control, Shutdown, BudgetExact, OversizedAlone, TypeOK', [Next]_vars
               PROVE  IInv'
    BY DEF IInv
  <2>1. Control'
    <3>1. CASE \E w \in Workers : Worker(w) \/ SpuriousWake(w)
      BY <3>1, ControlWorker
    <3>2. CASE Caller
      BY <3>2, ControlCaller
    <3>3. CASE UNCHANGED vars
      BY <3>3 DEF vars, workerVars, budgetVars, fileVars, callVars, Control, TypeOK, Claims,
                  Holding, Whereabouts, AdmitInOrder, Progress, Looping, InHand, Verdict,
                  NoLostWakeup, MustWait, SatSub
    <3> QED
      BY <3>1, <3>2, <3>3 DEF Next, Returned
  <2>2. Shutdown'
    BY ShutdownStep
  <2>3. BudgetExact' /\ OversizedAlone'
    BY AccountsStep
  <2> QED
    BY <2>1, <2>2, <2>3 DEF IInv
<1> QED
  BY <1>1, IInvInit, Typing, PTL DEF Spec

-----------------------------------------------------------------------------
\* Results: the properties of ReadAhead, for every instance.

\* Budget::acquire admits the files in list order.
THEOREM AdmissionOrder == Spec => []AdmitInOrder
<1>1. IInv => AdmitInOrder
  BY DEF IInv, Control
<1> QED
  BY <1>1, Inductive, PTL

\* The consumer never finds the channel disconnected.
THEOREM EarlyStopImpossible == Spec => []NoEarlyStop
<1>1. IInv => NoEarlyStop
  <2> SUFFICES ASSUME IInv, cpc = "recv", visited < N,
                      place[visited] \notin {"queue", "pending"},
                      \A w \in Workers : pc[w] = "done"
               PROVE  FALSE
    BY DEF NoEarlyStop
  <2> USE FilesDef, FilesAssumption DEF IInv, Control
  <2>1. visited \in Files /\ next >= N /\ next \in Nat /\ InHand = {} /\ ~cancelled
    BY WorkersAssumption DEF TypeOK, Progress, Looping, InHand
  <2>2. place[visited] \notin {"none", "worker"}
    BY <2>1 DEF TypeOK, Whereabouts, Holding
  <2>3. place[visited] \notin {"hand", "freed"}
    BY <2>1 DEF TypeOK, Progress, Looping
  <2> QED
    BY <2>1, <2>2, <2>3 DEF TypeOK, Places
<1> QED
  BY <1>1, Inductive, PTL

\* No sleeping worker misses the notification it waits for.
THEOREM WakeupsDelivered == Spec => []NoLostWakeup
<1>1. IInv => NoLostWakeup
  BY DEF IInv, Control
<1> QED
  BY <1>1, Inductive, PTL

\* The budget counts exactly the reservations that are alive.
THEOREM BudgetCounted == Spec => []BudgetExact
<1>1. IInv => BudgetExact
  BY DEF IInv
<1> QED
  BY <1>1, Inductive, PTL

\* A file larger than the whole budget is in memory alone.
THEOREM OversizedFilesAlone == Spec => []OversizedAlone
<1>1. IInv => OversizedAlone
  BY DEF IInv
<1> QED
  BY <1>1, Inductive, PTL

\* A call that returns leaves no worker and no reservation behind.
THEOREM ReturnsClean == Spec => []CleanReturn
<1>1. IInv => CleanReturn
  <2> SUFFICES ASSUME IInv, cpc = "done"
               PROVE  used = 0 /\ Live = {} /\ \A w \in Workers : pc[w] = "done"
    BY DEF CleanReturn
  <2>1. \A w \in Workers : pc[w] = "done"
    BY DEF IInv, Control, Progress
  <2>2. \A p \in {"worker", "queue", "pending", "hand"} : At(p) = {}
    BY <2>1 DEF IInv, Shutdown
  <2>3. Live = {}
    BY <2>2 DEF Live, At, IInv, Control, TypeOK, Places
  <2>4. used = 0
    BY <2>3, SumEmpty DEF IInv, BudgetExact
  <2> QED
    BY <2>1, <2>3, <2>4
<1> QED
  BY <1>1, Inductive, PTL

\* visit_tables consumes in list order and reports the first bad file: ReadAhead
\* implements OrderedVisit, step for step.
THEOREM Refinement == Spec => OrderedSafety
<1> USE DEF OV!Init, OV!Next, OV!Discover, OV!Visit, OV!Return, OV!vars, OV!Files
<1>1. Init => OV!Init
  BY FilesAssumption DEF Init, Start
<1>2. IInv /\ IInv' /\ [Next]_vars => [OV!Next]_(OV!vars)
  <2> SUFFICES ASSUME IInv, IInv', [Next]_vars PROVE [OV!Next]_(OV!vars)
    OBVIOUS
  <2> USE FilesDef, FilesAssumption
  <2> USE DEF IInv, Control, TypeOK, workerVars, budgetVars, fileVars, callVars, Goto, Files
  <2>1. ASSUME NEW w \in Workers, Worker(w) \/ SpuriousWake(w)
        PROVE  [OV!Next]_(OV!vars)
    <3>1. CASE Prepare(w) \/ Read(w)
      <4>1. idx[w] \in Files /\ visited <= idx[w]
        BY <3>1 DEF Prepare, Read, Claims, Holding
      <4>2. UNCHANGED <<visited, outcome, cpc>> /\ (UNCHANGED fault \/ fault' = fault \union {idx[w]})
        BY <3>1 DEF Prepare, Read
      <4>3. cpc # "done"
        BY <3>1 DEF Prepare, Read, Progress
      <4> QED
        BY <4>1, <4>2, <4>3
    <3>2. CASE ~(Prepare(w) \/ Read(w))
      <4>1. UNCHANGED <<visited, fault, outcome, cpc>>
        BY <2>1, <3>2 DEF Worker, Claim, Wait, SpuriousWake, Admit, GiveUp, Send, SendFails
      <4> QED
        BY <4>1
    <3> QED
      BY <3>1, <3>2
  <2>2. CASE Caller
    <3>1. CASE LocalFile
      <4>1. CASE visited' = visited + 1 /\ UNCHANGED <<fault, outcome, cpc>>
        BY <3>1, <4>1 DEF LocalFile, Progress
      <4>2. CASE fault' = fault \union {visited} /\ outcome' = "failed" /\ cpc' = "done"
                 /\ UNCHANGED visited
        BY <3>1, <4>2 DEF LocalFile
      <4> QED
        BY <3>1, <4>1, <4>2 DEF LocalFile
    <3>6. CASE LocalReturn
      BY <3>6 DEF LocalReturn
    <3>2. CASE ConsumeOk
      BY <3>2 DEF ConsumeOk, Progress, Looping, InHand
    <3>3. CASE ConsumeFails
      BY <3>3 DEF ConsumeFails, Progress, Looping, InHand
    <3>4. CASE Join
      BY <3>4 DEF Join, Verdict
    <3>5. CASE Recv \/ Take \/ ReleaseConsumed \/ AllConsumed \/ Unwind \/ Unwound \/ Cancel
               \/ NotifyCancelled \/ CloseReceiver \/ Discard \/ Drained
      <4>1. UNCHANGED <<visited, fault>> /\ cpc # "done" /\ cpc' # "done"
        BY <3>5 DEF Recv, Take, ReleaseConsumed, AllConsumed, Unwind, Unwound, Cancel,
                    NotifyCancelled, CloseReceiver, Discard, Drained
      <4> QED
        BY <4>1
    <3> QED
      BY <2>2, <3>1, <3>2, <3>3, <3>4, <3>5, <3>6 DEF Caller
  <2>3. CASE UNCHANGED vars
    BY <2>3 DEF vars
  <2> QED
    BY <2>1, <2>2, <2>3 DEF Next, Returned
<1> QED
  BY <1>1, <1>2, Inductive, PTL DEF Spec, OrderedSafety
=============================================================================
