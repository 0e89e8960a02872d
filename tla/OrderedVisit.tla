---------------------------- MODULE OrderedVisit ----------------------------
(***************************************************************************)
(* What visit_tables (src/factor_engine/src/data/read_ahead.rs) promises    *)
(* its caller, with no word about threads, budgets or channels: the files   *)
(* are handed to `consume` once each and in list order, and the call ends   *)
(* either with every file visited or with the error of the FIRST file, in   *)
(* list order, that could not be read or consumed - whatever the order in   *)
(* which the faults came to light.                                          *)
(***************************************************************************)
EXTENDS Naturals

CONSTANT N               \* how many files the caller listed

Files == 0 .. N - 1

VARIABLES visited,       \* how many files `consume` has accepted
          fault,         \* the files found to be unreadable or refused
          outcome        \* "running" until the call returns "ok" or "failed"

vars == <<visited, fault, outcome>>

Init == visited = 0 /\ fault = {} /\ outcome = IF N = 0 THEN "ok" ELSE "running"

\* A file not yet consumed turns out bad; read-ahead may learn it early.
Discover ==
  /\ outcome = "running"
  /\ \E i \in Files : i >= visited /\ fault' = fault \union {i}
  /\ UNCHANGED <<visited, outcome>>

Visit ==
  /\ outcome = "running" /\ visited < N /\ visited \notin fault
  /\ visited' = visited + 1
  /\ UNCHANGED <<fault, outcome>>

\* The serial reader learns of a bad file and returns its error in one step.
Return ==
  /\ outcome = "running"
  /\ \/ visited = N /\ outcome' = "ok" /\ UNCHANGED fault
     \/ visited < N /\ outcome' = "failed" /\ fault' = fault \union {visited}
  /\ UNCHANGED visited

Next == Discover \/ Visit \/ Return

Spec == Init /\ [][Next]_vars /\ WF_vars(Visit \/ Return)
=============================================================================
