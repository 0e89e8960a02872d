----------------------------- MODULE EnginePlan -----------------------------
(***************************************************************************)
(* How the factor engine divides a run (factor_engine/src/engine.rs):      *)
(* factors into execution groups, a group's dates into date batches, its   *)
(* factors into provider batches, and what a factor asks for in a batch.   *)
(*                                                                         *)
(* A date is year * 10 + day.  A factor is a record:                       *)
(*   provider  the key under which it is computed with others,             *)
(*   kind      "daily", "raw" (minute data made daily by the raw cache),   *)
(*             "minute" or "stream" (minute data with state),              *)
(*   lookback, rawLookback  in trading days,                               *)
(*   wants     its requests: a dataset, columns, the dates ("window" or    *)
(*             "targets"), whether only the panel is used, quarters.       *)
(***************************************************************************)
EXTENDS Integers, FiniteSets, Sequences, SequencesExt

CONSTANTS
  OpenDates,     \* the trading calendar
  Factors,       \* the registry: a sequence of factor records
  PanelData,     \* datasets of daily panels
  Statement      \* the dataset of financial statements, kept in files by year

ASSUME CalendarAssumption == OpenDates \subseteq Nat /\ IsFiniteSet(OpenDates) /\ OpenDates # {}
ASSUME DataAssumption == Statement \notin PanelData /\ Statement # "minute"
ASSUME FactorAssumption ==
  \A f \in DOMAIN Factors : /\ Factors[f].kind \in {"daily", "raw", "minute", "stream"}
                            /\ Factors[f].lookback \in Nat /\ Factors[f].rawLookback \in Nat
                            /\ Factors[f].kind # "raw" => Factors[f].rawLookback = 0
ASSUME StreamAssumption ==
  \A f, g \in DOMAIN Factors : Factors[f].provider = Factors[g].provider /\ Factors[f].kind = "stream"
    => Factors[g].kind = "stream" /\ Factors[f].lookback = Factors[g].lookback

Ascending(S) == [i \in 1 .. Cardinality(S) |-> CHOOSE n \in S : Cardinality({m \in S : m < n}) = i - 1]
Elements(s) == {s[i] : i \in DOMAIN s}
Picked(s, at) == LET places == Ascending(at) IN [i \in DOMAIN places |-> s[places[i]]]
YearOf(date) == date \div 10
Greater(m, n) == IF m > n THEN m ELSE n

(* The calendar. *)
Between(first, last) == {d \in OpenDates : first <= d /\ d <= last}
Place(date) == Cardinality({d \in OpenDates : d < date}) + 1
WarmupStart(date, days) ==
  IF days = 0 THEN date
  ELSE LET place == IF Place(date) > Cardinality(OpenDates) THEN Cardinality(OpenDates) ELSE Place(date)
       IN Ascending(OpenDates)[Greater(1, place - days)]

CalendarLookback(f) == Greater(Factors[f].lookback, Factors[f].rawLookback)
GroupLookback(fs) == LET longest == {CalendarLookback(f) : f \in Elements(fs)}
                     IN CHOOSE n \in longest : \A k \in longest : k <= n

(* Execution groups: one of the daily factors, and one for every lookback of the others. *)
GroupsOf(fs, kind, key) ==
  LET members == {i \in DOMAIN fs : Factors[fs[i]].kind = kind}
      keys == Ascending({key[fs[i]] : i \in members})
  IN [k \in DOMAIN keys |-> [stage |-> kind, factors |-> Picked(fs, {i \in members : key[fs[i]] = keys[k]})]]
ExecutionGroups(fs) ==
  LET together == [f \in DOMAIN Factors |-> 0]
      declared == [f \in DOMAIN Factors |-> Factors[f].lookback]
  IN GroupsOf(fs, "daily", together)
     \o GroupsOf(fs, "raw", declared)
     \o GroupsOf(fs, "minute", declared)
     \o GroupsOf(fs, "stream", [f \in DOMAIN Factors |-> CalendarLookback(f)])

(* Date batches. *)
Least(S) == CHOOSE d \in S : \A e \in S : d <= e
Latest(S) == CHOOSE d \in S : \A e \in S : e <= d
\* Faulty variant: a streaming group starts at the first target.
StageDatesWithoutWarmup(group, targets) == targets
StageDates(group, targets) ==
  IF group.stage = "stream"
  THEN Between(WarmupStart(Least(targets), GroupLookback(group.factors)), Latest(targets))
  ELSE targets
Chunks(s, size) ==
  [i \in 1 .. (Len(s) + size - 1) \div size |->
     SubSeq(s, (i - 1) * size + 1, IF i * size < Len(s) THEN i * size ELSE Len(s))]
DateBatches(group, targets, size) ==
  Chunks(Ascending(StageDates(group, targets)), IF group.stage \in {"daily", "raw"} THEN size ELSE 1)

(* Provider batches: at most size factors, unless one provider alone has more. *)
Providers(fs) ==
  LET firsts == Picked(fs, {i \in DOMAIN fs : \A j \in 1 .. i - 1 : Factors[fs[j]].provider # Factors[fs[i]].provider})
  IN [i \in DOMAIN firsts |-> Factors[firsts[i]].provider]
ProviderBatches(fs, size) ==
  LET Of(p) == Picked(fs, {i \in DOMAIN fs : Factors[fs[i]].provider = p})
      Take(acc, p) ==
        IF acc.current # <<>> /\ Len(acc.current) + Len(Of(p)) > size
        THEN [full |-> Append(acc.full, acc.current), current |-> Of(p)]
        ELSE [full |-> acc.full, current |-> acc.current \o Of(p)]
      all == FoldLeft(Take, [full |-> <<>>, current |-> <<>>], Providers(fs))
  IN IF all.current = <<>> THEN all.full ELSE Append(all.full, all.current)

(* The context of a batch, and of one of its factors. *)
ContextOf(dates, warmup, targets) ==
  LET start == WarmupStart(dates[1], warmup)
  IN [start |-> dates[1], end |-> dates[Len(dates)], loadStart |-> start,
      load |-> Between(start, dates[Len(dates)]), targets |-> Elements(dates) \cap targets]
BatchContext(group, dates, targets) ==
  ContextOf(dates, IF group.stage = "stream" THEN 0 ELSE GroupLookback(group.factors), targets)
FactorContext(f, context) ==
  LET start == WarmupStart(context.start, IF Factors[f].kind = "stream" THEN 0 ELSE CalendarLookback(f))
  IN [context EXCEPT !.loadStart = start, !.load = Between(start, context.end)]

(* What a factor asks for; a streaming one asks for minutes only while it warms up. *)
Requirements(f, context) ==
  {[data |-> w.data, cols |-> w.cols, panelOnly |-> w.panelOnly, quarters |-> w.quarters,
    dates |-> IF w.dates = "window" THEN FactorContext(f, context).load ELSE context.targets] :
     w \in {v \in Factors[f].wants : Factors[f].kind = "stream" /\ context.targets = {} => v.data = "minute"}}
RequirementsOf(fs, context) == UNION {Requirements(f, context) : f \in fs}
ProviderFactors(fs, p) == {f \in Elements(fs) : Factors[f].provider = p}

ColumnsOf(requests) == UNION {r.cols : r \in requests}
DatesOf(requests) == UNION {r.dates : r \in requests}

\* The dates a provider computes on: those of its own factors and requests, and the targets.
ProviderDates(fs, p, context) ==
  (UNION {FactorContext(f, context).load : f \in ProviderFactors(fs, p)})
  \cup context.targets
  \cup DatesOf({r \in RequirementsOf(ProviderFactors(fs, p), context) : r.data \in PanelData})

(* Requests merged: one for each dataset, dates and use. *)
QuartersOf(requests) == Latest({r.quarters : r \in requests})
For(requests, data) == {r \in requests : r.data = data}
DataOf(requests) == {r.data : r \in requests}
Merged(requests) ==
  {LET same == {q \in requests : q.data = r.data /\ q.dates = r.dates /\ q.panelOnly = r.panelOnly}
   IN [data |-> r.data, cols |-> ColumnsOf(same), panelOnly |-> r.panelOnly,
       quarters |-> QuartersOf(same), dates |-> r.dates] : r \in requests}

(* Years of statements: back to the report whose disclosure the quarters need. *)
FileStartYear(date, quarters) ==
  YearOf(date) -
    (IF quarters = 0 THEN 0
     ELSE IF quarters <= 8 THEN (IF date % 10 \in {2, 3} THEN 2 ELSE 3)
     ELSE (quarters + 3) \div 4)
DisclosureYears(start, end, quarters) ==
  LET first == Least({FileStartYear(start, quarters), FileStartYear(end, quarters)})
  IN first .. YearOf(end)
DisclosureWindow(requests, data, context) ==
  UNION {DisclosureYears(context.start, context.end, r.quarters) : r \in For(requests, data)}

KeyColumns == {"key"}
DisclosureColumns(requests, data) == KeyColumns \cup ColumnsOf(For(requests, data))
=============================================================================
