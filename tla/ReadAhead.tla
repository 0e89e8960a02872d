------------------------------ MODULE ReadAhead ------------------------------
(***************************************************************************)
(* One call of visit_tables: src/factor_engine/src/data/read_ahead.rs.      *)
(*                                                                          *)
(* Remote inputs: a fixed set of IO workers claims file indices from an     *)
(* atomic counter, estimates a file's memory from its footer, waits for its *)
(* turn in a shared byte budget (mutex + condition variable), reads and     *)
(* decodes the file and sends the table, with its reservation, through an   *)
(* unbounded channel. The calling thread re-orders what it receives and     *)
(* feeds the caller's `consume`. Local inputs are read serially.            *)
(*                                                                          *)
(* Every critical section of the budget mutex is one step: the lock is      *)
(* never held across another blocking operation. Panics of the callbacks    *)
(* are caught in the code and become errors, so a fault stands for both.    *)
(* The channel is a set: the consumer re-sorts whatever order it receives,  *)
(* so a set over-approximates the FIFO order.                               *)
(***************************************************************************)
EXTENDS Integers, FiniteSets, FiniteSetsExt

CONSTANTS N,             \* paths.len()
          Workers,       \* the IO threads spawned (reader.width.min(paths.len()))
          Limit,         \* Budget.limit, in bytes
          Sizes          \* the reserved_bytes a footer may announce

ASSUME FilesAssumption   == N \in Nat
ASSUME WorkersAssumption == Workers # {}
ASSUME LimitAssumption   == Limit \in Nat
ASSUME SizesAssumption   == Sizes \subseteq Nat /\ Sizes # {}

Files == 0 .. N - 1

VARIABLES
  pc, idx,       \* per worker: program counter, the file it works on
  next,          \* the AtomicUsize `next`: first index nobody has claimed
  used, admitted, cancelled,   \* BudgetState: used, next, cancelled
  est,           \* per file: the bytes its Reservation holds
  place,         \* per file: where its result and Reservation are
  fault,         \* files whose preparation, read or consumption failed
  rxOpen,        \* the receiver has not been dropped
  cpc, visited,  \* the calling thread: program counter, consumed files
  outcome        \* the value of the closure's Result

workerVars == <<pc, idx, next>>
budgetVars == <<used, admitted, cancelled>>
fileVars   == <<est, place, fault>>
callVars   == <<rxOpen, cpc, visited, outcome>>
vars       == <<workerVars, budgetVars, fileVars, callVars>>

Places == {"none", "worker", "queue", "pending", "hand", "freed"}
WorkerPcs == {"claim", "prepare", "acquire", "wait", "read", "send", "done"}
CallerPcs == {"local", "recv", "consume", "release", "unwind", "cancel", "notify",
              "close", "drain", "join", "done"}

At(p)     == {i \in Files : place[i] = p}
Live      == {i \in Files : place[i] \notin {"none", "freed"}}

-----------------------------------------------------------------------------
(* The budget.                                                              *)

\* changed.notify_all(): every thread of the wait set competes for the mutex.
NotifyAll(p) == [w \in Workers |-> IF p[w] = "wait" THEN "acquire" ELSE p[w]]

\* usize::saturating_sub
SatSub(a, b) == IF a >= b THEN a - b ELSE 0

\* Faulty variants: a byte test that forgets what is in use, one without the turn.
MustWaitForgetsUsed(i, bytes) == admitted # i \/ (used # 0 /\ bytes > Limit)
MustWaitAnyTurn(i, bytes) == used # 0 /\ bytes > SatSub(Limit, used)

\* The condition of acquire's loop: file i with `bytes` must wait.
MustWait(i, bytes) ==
  \/ admitted # i
  \/ used # 0 /\ bytes > SatSub(Limit, used)

\* Faulty variants: a Reservation that drops twice, one that wakes nobody.
ReleaseTwice(i, p) ==
  /\ place' = [place EXCEPT ![i] = "freed"]
  /\ used' = used - 2 * est[i]
  /\ pc' = NotifyAll(p)
  /\ UNCHANGED <<admitted, cancelled>>
ReleaseSilently(i, p) ==
  /\ place' = [place EXCEPT ![i] = "freed"]
  /\ used' = SatSub(used, est[i])
  /\ pc' = p
  /\ UNCHANGED <<admitted, cancelled>>

\* Drop of the Reservation of file i: its bytes return, all waiters wake.
Release(i, p) ==
  /\ place' = [place EXCEPT ![i] = "freed"]
  /\ used' = SatSub(used, est[i])
  /\ pc' = NotifyAll(p)
  /\ UNCHANGED <<admitted, cancelled>>

-----------------------------------------------------------------------------
(* The IO workers.                                                          *)

\* next.fetch_add(1); an index past the end ends the worker (drops its tx).
Claim(w) ==
  /\ pc[w] = "claim"
  /\ next' = next + 1
  /\ idx' = [idx EXCEPT ![w] = next]
  /\ pc' = [pc EXCEPT ![w] = IF next >= N THEN "done" ELSE "prepare"]
  /\ UNCHANGED <<budgetVars, fileVars, callVars>>

\* Faulty variant: a worker that leaves its loop when a footer is unreadable.
PrepareOrLeave(w) ==
  /\ pc[w] = "prepare"
  /\ \/ \E b \in Sizes : /\ est' = [est EXCEPT ![idx[w]] = b]
                         /\ pc' = [pc EXCEPT ![w] = "acquire"]
                         /\ UNCHANGED fault
     \/ /\ fault' = fault \union {idx[w]}
        /\ pc' = [pc EXCEPT ![w] = "done"]
        /\ UNCHANGED est
  /\ UNCHANGED <<idx, next, budgetVars, place, callVars>>

\* Open the file and read its footer; a failure still takes its turn, at 0 bytes.
Prepare(w) ==
  /\ pc[w] = "prepare"
  /\ \/ \E b \in Sizes : est' = [est EXCEPT ![idx[w]] = b] /\ UNCHANGED fault
     \/ fault' = fault \union {idx[w]} /\ est' = [est EXCEPT ![idx[w]] = 0]
  /\ pc' = [pc EXCEPT ![w] = "acquire"]
  /\ UNCHANGED <<idx, next, budgetVars, place, callVars>>

\* Budget::acquire, the loop's test failing: sleep on the condition variable.
Wait(w) ==
  /\ pc[w] = "acquire" /\ ~cancelled /\ MustWait(idx[w], est[idx[w]])
  /\ pc' = [pc EXCEPT ![w] = "wait"]
  /\ UNCHANGED <<idx, next, budgetVars, fileVars, callVars>>

\* Condvar::wait may return without a notification.
SpuriousWake(w) ==
  /\ pc[w] = "wait"
  /\ pc' = [pc EXCEPT ![w] = "acquire"]
  /\ UNCHANGED <<idx, next, budgetVars, fileVars, callVars>>

\* Budget::acquire granting a Reservation.
Admit(w) ==
  /\ pc[w] = "acquire" /\ ~cancelled /\ ~MustWait(idx[w], est[idx[w]])
  /\ used' = used + est[idx[w]]
  /\ admitted' = admitted + 1
  /\ place' = [place EXCEPT ![idx[w]] = "worker"]
  /\ pc' = NotifyAll([pc EXCEPT ![w] = "read"])
  /\ UNCHANGED <<idx, next, cancelled, est, fault, callVars>>

\* Budget::acquire returning None: the worker leaves its loop.
GiveUp(w) ==
  /\ pc[w] = "acquire" /\ cancelled
  /\ pc' = [pc EXCEPT ![w] = "done"]
  /\ UNCHANGED <<idx, next, budgetVars, fileVars, callVars>>

\* prefetch, decode and finish; a fault of the preparation is passed on.
Read(w) ==
  /\ pc[w] = "read"
  /\ \/ UNCHANGED fault
     \/ fault' = fault \union {idx[w]}
  /\ pc' = [pc EXCEPT ![w] = "send"]
  /\ UNCHANGED <<idx, next, budgetVars, est, place, callVars>>

Send(w) ==
  /\ pc[w] = "send" /\ rxOpen
  /\ place' = [place EXCEPT ![idx[w]] = "queue"]
  /\ pc' = [pc EXCEPT ![w] = "claim"]
  /\ UNCHANGED <<idx, next, budgetVars, est, fault, callVars>>

\* Faulty variant: the undelivered message is forgotten with its Reservation.
SendLeaks(w) ==
  /\ pc[w] = "send" /\ ~rxOpen
  /\ place' = [place EXCEPT ![idx[w]] = "freed"]
  /\ pc' = [pc EXCEPT ![w] = "done"]
  /\ UNCHANGED <<idx, next, budgetVars, est, fault, callVars>>

\* tx.send fails: the message comes back, its Reservation drops, the loop ends.
SendFails(w) ==
  /\ pc[w] = "send" /\ ~rxOpen
  /\ Release(idx[w], [pc EXCEPT ![w] = "done"])
  /\ UNCHANGED <<idx, next, est, fault, callVars>>

Worker(w) ==
  \/ Claim(w) \/ Prepare(w) \/ Wait(w) \/ Admit(w) \/ GiveUp(w)
  \/ Read(w) \/ Send(w) \/ SendFails(w)

-----------------------------------------------------------------------------
(* The calling thread.                                                      *)

Goto(p) == cpc' = p

\* The serial loop for a local path: open, prepare, read, finish, consume.
LocalFile ==
  /\ cpc = "local" /\ visited < N
  /\ \/ /\ visited' = visited + 1
        /\ UNCHANGED <<fault, outcome, cpc>>
     \/ /\ fault' = fault \union {visited}
        /\ outcome' = "failed" /\ Goto("done")
        /\ UNCHANGED visited
  /\ UNCHANGED <<workerVars, budgetVars, est, place, rxOpen>>

LocalReturn ==
  /\ cpc = "local" /\ visited = N
  /\ outcome' = "ok" /\ Goto("done")
  /\ UNCHANGED <<workerVars, budgetVars, fileVars, rxOpen, visited>>

\* Every sender is gone and the channel is empty: recv returns an error.
Disconnected == At("queue") = {} /\ \A w \in Workers : pc[w] = "done"

\* rx.recv(): a result is stored in `pending` until its turn comes; a disconnected
\* channel is the error "projected read workers stopped early".
Recv ==
  /\ cpc = "recv" /\ visited < N /\ place[visited] # "pending"
  /\ IF Disconnected
       THEN outcome' = "failed" /\ Goto("unwind") /\ UNCHANGED place
       ELSE /\ \E i \in At("queue") : place' = [place EXCEPT ![i] = "pending"]
            /\ UNCHANGED <<outcome, cpc>>
  /\ UNCHANGED <<workerVars, budgetVars, est, fault, rxOpen, visited>>

Take ==
  /\ cpc = "recv" /\ visited < N /\ place[visited] = "pending"
  /\ place' = [place EXCEPT ![visited] = "hand"]
  /\ Goto("consume")
  /\ UNCHANGED <<workerVars, budgetVars, est, fault, rxOpen, visited, outcome>>

\* Faulty variant: a file that could not be read is skipped.
ConsumeSkips ==
  /\ cpc = "consume"
  /\ visited' = visited + 1
  /\ Goto("release")
  /\ UNCHANGED <<workerVars, budgetVars, fileVars, rxOpen, outcome>>

\* consume(index, table?): the table's own error, or the callback's, unwinds.
ConsumeOk ==
  /\ cpc = "consume" /\ visited \notin fault
  /\ visited' = visited + 1
  /\ Goto("release")
  /\ UNCHANGED <<workerVars, budgetVars, fileVars, rxOpen, outcome>>

ConsumeFails ==
  /\ cpc = "consume"
  /\ fault' = fault \union {visited}
  /\ outcome' = "failed" /\ Goto("unwind")
  /\ UNCHANGED <<workerVars, budgetVars, est, place, rxOpen, visited>>

\* drop(reservation) after a successful consume; the loop goes on.
ReleaseConsumed ==
  /\ cpc = "release"
  /\ \E i \in At("hand") : Release(i, pc)
  /\ Goto("recv")
  /\ UNCHANGED <<idx, next, est, fault, rxOpen, visited, outcome>>

AllConsumed ==
  /\ cpc = "recv" /\ visited = N
  /\ outcome' = "ok" /\ Goto("cancel")
  /\ UNCHANGED <<workerVars, budgetVars, fileVars, rxOpen, visited>>

\* Leaving the closure by an error drops the reservation in hand, then `pending`
\* (a BTreeMap: in key order), one budget lock each.
UnwindNext == IF At("hand") # {} THEN At("hand")
              ELSE {i \in At("pending") : \A j \in At("pending") : i <= j}

Unwind ==
  /\ cpc = "unwind"
  /\ \E i \in UnwindNext : Release(i, pc)
  /\ UNCHANGED <<idx, next, est, fault, callVars>>

Unwound ==
  /\ cpc = "unwind" /\ UnwindNext = {}
  /\ Goto("cancel")
  /\ UNCHANGED <<workerVars, budgetVars, fileVars, rxOpen, visited, outcome>>

\* Budget::cancel: the flag under the mutex, then notify_all without it.
Cancel ==
  /\ cpc = "cancel"
  /\ cancelled' = TRUE /\ Goto("notify")
  /\ UNCHANGED <<workerVars, used, admitted, fileVars, rxOpen, visited, outcome>>

\* Faulty variant: the flag is set, nobody is told.
CancelSilently ==
  /\ cpc = "notify"
  /\ Goto("close")
  /\ UNCHANGED <<workerVars, budgetVars, fileVars, rxOpen, visited, outcome>>

NotifyCancelled ==
  /\ cpc = "notify"
  /\ pc' = NotifyAll(pc) /\ Goto("close")
  /\ UNCHANGED <<idx, next, budgetVars, fileVars, rxOpen, visited, outcome>>

\* drop(rx): the channel is disconnected, then its messages are discarded.
CloseReceiver ==
  /\ cpc = "close"
  /\ rxOpen' = FALSE /\ Goto("drain")
  /\ UNCHANGED <<workerVars, budgetVars, fileVars, visited, outcome>>

Discard ==
  /\ cpc = "drain"
  /\ \E i \in At("queue") : Release(i, pc)
  /\ UNCHANGED <<idx, next, est, fault, callVars>>

\* Faulty variant: the messages left in the channel are not discarded.
DrainedEarly ==
  /\ cpc = "drain"
  /\ Goto("join")
  /\ UNCHANGED <<workerVars, budgetVars, fileVars, rxOpen, visited, outcome>>

Drained ==
  /\ cpc = "drain" /\ At("queue") = {}
  /\ Goto("join")
  /\ UNCHANGED <<workerVars, budgetVars, fileVars, rxOpen, visited, outcome>>

\* thread::scope returns when every worker has ended.
Join ==
  /\ cpc = "join" /\ \A w \in Workers : pc[w] = "done"
  /\ Goto("done")
  /\ UNCHANGED <<workerVars, budgetVars, fileVars, rxOpen, visited, outcome>>

Caller ==
  \/ LocalFile \/ LocalReturn
  \/ Recv \/ Take \/ ConsumeOk \/ ConsumeFails
  \/ ReleaseConsumed \/ AllConsumed \/ Unwind \/ Unwound
  \/ Cancel \/ NotifyCancelled \/ CloseReceiver \/ Discard \/ Drained \/ Join

-----------------------------------------------------------------------------
\* The workers and the channel of a call that starts (no worker: all "done").
Start(p, open) == pc = [w \in Workers |-> p] /\ rxOpen = open

\* The call starts: an empty list returns at once, a local list is read by the
\* caller alone, a remote one by the workers just spawned.
Init ==
  /\ \/ N = 0 /\ cpc = "done" /\ outcome = "ok" /\ Start("done", FALSE)
     \/ N > 0 /\ cpc = "local" /\ outcome = "running" /\ Start("done", FALSE)
     \/ N > 0 /\ cpc = "recv" /\ outcome = "running" /\ Start("claim", TRUE)
  /\ idx = [w \in Workers |-> 0]
  /\ next = 0 /\ used = 0 /\ admitted = 0 /\ cancelled = FALSE
  /\ est = [i \in Files |-> 0]
  /\ place = [i \in Files |-> "none"]
  /\ fault = {}
  /\ visited = 0

\* A returned call stays returned.
Returned == cpc = "done" /\ UNCHANGED vars

Next ==
  \/ \E w \in Workers : Worker(w) \/ SpuriousWake(w)
  \/ Caller
  \/ Returned

Spec == Init /\ [][Next]_vars

\* Each thread runs whenever it can; the callbacks return. A spurious wake-up is
\* nobody's duty.
Fairness == (\A w \in Workers : WF_vars(Worker(w))) /\ WF_vars(Caller)

FairSpec == Spec /\ Fairness

-----------------------------------------------------------------------------
(* Properties.                                                              *)

\* The types of the variables.
TypeOK ==
  /\ pc \in [Workers -> WorkerPcs]
  /\ idx \in [Workers -> Nat]
  /\ next \in Nat /\ used \in Nat /\ admitted \in Nat /\ cancelled \in BOOLEAN
  /\ est \in [Files -> Nat]
  /\ place \in [Files -> Places]
  /\ fault \subseteq Files
  /\ rxOpen \in BOOLEAN /\ cpc \in CallerPcs
  /\ visited \in 0 .. N
  /\ outcome \in {"running", "ok", "failed"}

\* The budget counts exactly the reservations that are alive, wherever they are:
\* none is leaked or given back twice by an early exit, a failed send or the
\* discarding of the channel.
BudgetExact == used = SumFunctionOnSet(est, Live)

\* Only a file larger than the whole budget can exceed it, and then no other
\* file holds bytes: an oversized file is admitted alone.
OversizedAlone ==
  used > Limit => \E i \in Live : est[i] = used /\ \A j \in Live \ {i} : est[j] = 0

\* Files enter memory in list order: what is admitted is a prefix of the list,
\* so the file the consumer needs next is never behind a later one.
AdmitInOrder == \A i \in Files : place[i] # "none" <=> i < admitted

\* "projected read workers stopped early" is never reported: while the consumer
\* needs a file, its result is on the way or a worker is still alive.
NoEarlyStop ==
  cpc = "recv" /\ visited < N /\ place[visited] \notin {"queue", "pending"}
    => \E w \in Workers : pc[w] # "done"

\* No wake-up is lost: a worker asleep on the condition variable still has to wait,
\* or the notification that will wake it is already due.
NoLostWakeup ==
  \A w \in Workers :
    pc[w] = "wait" => cpc = "notify" \/ (~cancelled /\ MustWait(idx[w], est[idx[w]]))

\* When the call returns, no worker runs and the budget holds nothing.
CleanReturn ==
  cpc = "done" => used = 0 /\ Live = {} /\ \A w \in Workers : pc[w] = "done"

\* visit_tables implements OrderedVisit: ordered consumption, and the error of
\* the first bad file in list order.
OV == INSTANCE OrderedVisit WITH
        outcome <- IF cpc = "done" THEN outcome ELSE "running"

\* The safety half of that implementation: every step maps to a step of
\* OrderedVisit or to a stutter.
OrderedSafety == OV!Init /\ [][OV!Next]_(OV!vars)

\* All of it, with the promise that the call returns.
OrderedVisitSpec == OV!Spec

-----------------------------------------------------------------------------
(* The inductive invariant. Control is what AdmitInOrder, NoEarlyStop,      *)
(* NoLostWakeup and OrderedSafety need; Shutdown adds what the end of the   *)
(* call needs, and BudgetExact and OversizedAlone are inductive beside it.  *)

\* A worker between claiming a file and having sent it.
Holding(w) == pc[w] \in {"prepare", "acquire", "wait", "read", "send"}

\* Workers hold different files, none of which has been consumed.
Claims ==
  /\ \A w \in Workers : Holding(w) => idx[w] \in Files /\ visited <= idx[w] /\ idx[w] < next
  /\ \A w, v \in Workers : w # v /\ Holding(w) /\ Holding(v) => idx[w] # idx[v]
  /\ \A w \in Workers : pc[w] # "done" => visited <= next

\* A file's place agrees with the worker that holds it, and a claimed file is
\* never abandoned before the call is cancelled.
Whereabouts ==
  /\ \A i \in Files : place[i] # "none" => i < next
  /\ \A w \in Workers : Holding(w) =>
       place[idx[w]] = IF pc[w] \in {"read", "send"} THEN "worker" ELSE "none"
  /\ \A i \in Files : i < next /\ place[i] \in {"none", "worker"} =>
       cancelled \/ \E w \in Workers : Holding(w) /\ idx[w] = i

\* The calling thread's progress: the consumed files are exactly the freed ones,
\* and workers end early only after a cancellation.
Looping == cpc \in {"recv", "consume", "release"}

InHand == CASE cpc = "consume" -> {visited}
            [] cpc = "release" -> {visited - 1}
            [] OTHER -> {}

Progress ==
  /\ cancelled => cpc \in {"notify", "close", "drain", "join", "done"}
  /\ cpc \in {"local", "done"} => \A w \in Workers : pc[w] = "done"
  /\ cpc = "local" => fault = {}
  /\ Looping =>
       /\ rxOpen
       /\ \A w \in Workers : pc[w] = "done" => next >= N
       /\ InHand \subseteq Files
       /\ \A i \in Files : place[i] = "hand" <=> i \in InHand
       /\ \A i \in Files : place[i] = "freed" <=> i < visited /\ i \notin InHand

\* The outcome is that of the file the loop stopped at.
Verdict ==
  IF cpc \in {"local", "recv", "consume", "release"}
    THEN outcome = "running"
    ELSE \/ outcome = "ok" /\ visited = N
         \/ outcome = "failed" /\ visited \in fault

Control ==
  TypeOK /\ Claims /\ Whereabouts /\ AdmitInOrder /\ Progress /\ Verdict /\ NoLostWakeup

\* A result in a worker's hands has a worker; the end of the call empties the
\* caller's hands, then the channel, to which nothing is added once it is closed.
Shutdown ==
  /\ \A i \in At("worker") : \E w \in Workers : pc[w] \in {"read", "send"} /\ idx[w] = i
  /\ cpc \in {"local", "cancel", "notify", "close", "drain", "join", "done"} =>
       At("hand") = {} /\ At("pending") = {}
  /\ cpc \in {"local", "drain", "join", "done"} => ~rxOpen
  /\ cpc \in {"local", "join", "done"} => At("queue") = {}

IInv == Control /\ Shutdown /\ BudgetExact /\ OversizedAlone
=============================================================================
