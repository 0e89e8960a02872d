--------------------------- MODULE TrainingWindows ---------------------------
(***************************************************************************)
(* Which dates a rolling model is trained, validated and used on:           *)
(* runtime.build_windows of the ML pipelines, with the samplers of          *)
(* data/sampler.py and the trading calendar.                                *)
(*                                                                         *)
(* A date is a day number; months have MonthLen days. A list of dates is    *)
(* the set of its dates: the code keeps every one sorted and free of        *)
(* duplicates. A configuration is a record                                  *)
(*   [cal, scheme, train, valid, predict, trainFreq, predictFreq, refit,    *)
(*    ratio, rows, count, vcount, vdays, minDays, lookback, vlookback,      *)
(*    delayed, label, aux, params]                                          *)
(* with None for what is not configured, a range as <<first, last>>, a      *)
(* lookback as <<unit, n>>, the ratio in per cent, a frequency as a pair:   *)
(* every so many days, every so many months, or once.                       *)
(***************************************************************************)
EXTENDS Integers, Sequences, FiniteSetsExt

CONSTANTS
  None,          \* no date, no range, no setting
  Failed,        \* a ValueError
  MonthLen,      \* days of a month
  Grace          \* days a last trading day may lie before its period's last day

ASSUME CalendarAssumption == MonthLen \in Nat \ {0} /\ Grace \in Nat

-----------------------------------------------------------------------------
(* calendar.py                                                              *)

Between(c, range) == {d \in c.cal : range[1] <= d /\ d <= range[2]}

PreviousOpen(c, date) ==
  LET before == {d \in c.cal : d < date} IN IF before = {} THEN None ELSE Max(before)

Position(c, date) == Cardinality({d \in c.cal : d < date})

Offset(c, date, n) ==
  LET at == {d \in c.cal : Position(c, d) = Position(c, date) + n} IN
  IF date \in c.cal /\ at # {} THEN Max(at) ELSE None

-----------------------------------------------------------------------------
(* data/sampler.py                                                          *)

Daily     == <<"days", 1>>
Monthly   == <<"months", 1>>
Quarterly == <<"months", 3>>

Periodic(f) == f[1] = "months"

Month(d) == (d - 1) \div MonthLen
Period(f, d) == Month(d) \div f[2]

PeriodEnds(dates, f) == {d \in dates : ~ \E e \in dates : e > d /\ Period(f, e) = Period(f, d)}

Rank(dates, d) == Cardinality({e \in dates : e < d})

SampleDates(c, range, f) ==
  LET dates == Between(c, range) IN
  IF Periodic(f) THEN PeriodEnds(dates, f) ELSE {d \in dates : Rank(dates, d) % f[2] = 0}

RefitDates(c, dates, f) ==
  IF dates = {} \/ f = Daily THEN dates
  ELSE IF f[1] = "once" THEN {Min(dates)} ELSE SampleDates(c, <<Min(dates), Max(dates)>>, f)

-----------------------------------------------------------------------------
(* runtime.py: helpers.                                                     *)

PredictDates(c) == IF c.predict = None THEN {} ELSE SampleDates(c, c.predict, c.predictFreq)
ValidDates(c)   == IF c.valid = None THEN {} ELSE SampleDates(c, c.valid, c.trainFreq)

\* A period's last trading day is only known for one when the calendar shows a later one,
\* or when it lies within Grace of the period's end.
IsActualPeriodEnd(c, d, f) ==
  LET later == {e \in c.cal : e > d} IN
  CASE ~Periodic(f) -> TRUE
    [] Periodic(f) /\ later # {} -> Period(f, Min(later)) # Period(f, d)
    [] Periodic(f) /\ later = {} ->
         /\ (Month(d) + 1) % f[2] = 0
         /\ ((d - 1) % MonthLen) + 1 >= MonthLen - Grace

\* With quarterly refits the last quarter end before the range counts too.
ActualRefitDates(c, range, f) ==
  LET anchors(dates) == {d \in RefitDates(c, dates, f) : IsActualPeriodEnd(c, d, f)} IN
  IF f = Quarterly
  THEN LET all == anchors({d \in c.cal : d <= range[2]})
           previous == {d \in all : d < range[1]}
       IN {d \in all : d >= range[1] \/ d = Max(previous)}
  ELSE anchors(Between(c, range))

\* Trading days until the last of a date's labels is known.
LabelHorizon(c) == Max({c.label, c.aux})

\* Labels that end by the close of a date.
MatureDates(c, dates, by) == {d \in dates : Position(c, d) + LabelHorizon(c) <= Position(c, by)}

\* Labels that end before a date.
SettledDates(c, dates, start) == {d \in dates : Position(c, d) + LabelHorizon(c) < Position(c, start)}

Newest(dates, n) == {d \in dates : Cardinality({e \in dates : e >= d}) <= n}

SplitByRatio(c, dates) ==
  LET n == Cardinality(dates)
      half == (2 * n * c.ratio + 100) \div 200
      valid == Newest(dates, Min({Max({1, half}), n - 1}))
  IN IF n < 2 THEN [train |-> {}, valid |-> {}] ELSE [train |-> dates \ valid, valid |-> valid]

\* With row validation the dates stay together and the rows are split after loading.
SplitWindowDates(c, dates) ==
  IF c.rows THEN [train |-> dates, valid |-> {}] ELSE SplitByRatio(c, dates)

\* Calendar months back from the anchor, or trading days back from the end.
LookbackStart(c, anchor, end, lookback) ==
  IF lookback[1] = "m" THEN anchor - lookback[2] * MonthLen + 1 ELSE Offset(c, end, 1 - lookback[2])

TrainRangeForEnd(c, trainEnd, anchor) ==
  LET end == Min({trainEnd, c.train[2]})
      start == IF c.lookback = None THEN c.train[1] ELSE LookbackStart(c, anchor, end, c.lookback)
  IN IF end < c.train[1] \/ start = None THEN None
     ELSE IF start < c.train[1] \/ start > end THEN None ELSE <<start, end>>

Or(date, default) == IF date = None THEN default ELSE date

Window(id, train, valid, predict, cutoff) ==
  [id |-> id, train |-> train, valid |-> valid, predict |-> predict, cutoff |-> cutoff]

\* Faulty variant: every date after it.
SegmentAfterAll(c, refits, r) == {d \in PredictDates(c) : d > r}

\* The prediction dates a refit serves: after it, up to and including the next.
SegmentAfter(c, refits, r) == {d \in PredictDates(c) : d > r /\ ~ \E s \in refits : r < s /\ s < d}

\* The prediction dates from a start to before the next.
SegmentFrom(c, starts, s) == {d \in PredictDates(c) : d >= s /\ ~ \E t \in starts : s < t /\ t <= d}

Span(dates) == <<Min(dates), Max(dates)>>

-----------------------------------------------------------------------------
(* runtime.py: the window schemes.                                          *)

StaticWindows(c) ==
  {Window(<<"static">>, SampleDates(c, c.train, c.trainFreq), ValidDates(c), PredictDates(c), None)}

TrainOnlyWindows(c) ==
  LET pool == IF c.trainFreq = Monthly THEN ActualRefitDates(c, c.train, Monthly)
              ELSE SampleDates(c, c.train, c.trainFreq)
      held == IF c.vcount > 0 THEN Newest(pool, c.vcount) ELSE ValidDates(c)
      candidates == IF c.vcount > 0 THEN pool \ Newest(pool, c.vcount) ELSE pool
      split == IF c.ratio # None THEN SplitWindowDates(c, pool)
               ELSE IF c.count > 0
               THEN [valid |-> held,
                     train |-> IF Cardinality(pool) < c.count + c.vcount THEN {}
                               ELSE IF c.scheme = "rolling" THEN Newest(candidates, c.count) ELSE candidates]
               ELSE [train |-> pool, valid |-> ValidDates(c)]
  IN IF split.train = {} THEN {}
     ELSE {Window(<<"train_only", Max(split.train)>>, split.train, split.valid, {}, None)}

\* Refits within the prediction range, the first at its first date.
SegmentWindows(c) ==
  LET starts == RefitDates(c, PredictDates(c), c.refit) \union {Min(PredictDates(c))}
      anchor(s) == Or(PreviousOpen(c, s), c.train[2])
      validStart(s) == Or(Offset(c, anchor(s), 1 - Max({1, c.vdays})), IF c.valid = None THEN None ELSE c.valid[1])
      trainEnd(s) == IF c.valid = None THEN anchor(s) ELSE Or(PreviousOpen(c, validStart(s)), c.train[2])
      range(s) == TrainRangeForEnd(c, trainEnd(s), s)
      usable == {s \in starts : SegmentFrom(c, starts, s) # {} /\ range(s) # None
                                  /\ Cardinality(Between(c, range(s))) >= c.minDays}
  IN {Window(<<"segment", Rank(starts, s) + 1>> \o Span(SegmentFrom(c, starts, s)),
             SampleDates(c, range(s), c.trainFreq),
             IF c.valid = None THEN {} ELSE SampleDates(c, <<validStart(s), anchor(s)>>, c.trainFreq),
             SegmentFrom(c, starts, s), None) : s \in usable}

\* A fixed number of samples before each refit.
SampleCountWindows(c) ==
  LET refits == ActualRefitDates(c, c.predict, c.refit)
      segment(r) == SegmentAfter(c, refits, r)
      eligible(r) == SettledDates(c, {d \in SampleDates(c, c.train, c.trainFreq) : d < r}, Min(segment(r)))
      usable == {r \in refits : segment(r) # {} /\ Cardinality(eligible(r)) >= c.count + c.vcount}
      valid(r) == Newest(eligible(r), c.vcount)
      train(r) == IF c.scheme = "rolling" THEN Newest(eligible(r) \ valid(r), c.count) ELSE eligible(r) \ valid(r)
  IN {Window(<<"segment", Rank(usable, r) + 1>> \o Span(segment(r)), train(r), valid(r), segment(r), r) : r \in usable}

\* Refits of the prediction range, each split by ratio.
RatioWindows(c) ==
  LET refits == ActualRefitDates(c, c.predict, c.refit)
      segment(r) == SegmentAfter(c, refits, r)
      range(r) == TrainRangeForEnd(c, Or(PreviousOpen(c, r), c.train[2]), r)
      split(r) == SplitWindowDates(c, SettledDates(c, SampleDates(c, range(r), c.trainFreq), Min(segment(r))))
      usable == {r \in refits : segment(r) # {} /\ range(r) # None /\ split(r).train # {}}
  IN {Window(<<"segment", Rank(usable, r) + 1>> \o Span(segment(r)), split(r).train, split(r).valid, segment(r), r) : r \in usable}

\* after_label_maturity: refits of the training range; a model serves from the day after its
\* cutoff to the next one's.
DelayedWindows(c) ==
  LET span == <<c.train[1], Min({c.train[2], Max(PredictDates(c))})>>
      cutoffs == {d \in RefitDates(c, Between(c, span), c.refit) : IsActualPeriodEnd(c, d, c.refit)}
      lower(d) == IF c.scheme = "rolling"
                  THEN LookbackStart(c, (Month(d) + 1) * MonthLen, d, c.lookback) ELSE c.train[1]
      split(d) == SplitWindowDates(c, MatureDates(c, SampleDates(c, <<lower(d), d>>, c.trainFreq), d))
      active(d) == Offset(c, d, 1)
      usable == {d \in cutoffs :
        /\ lower(d) # None /\ active(d) # None
        /\ lower(d) >= c.train[1] /\ active(d) <= Max(PredictDates(c))
        /\ split(d).train # {} /\ (split(d).valid # {} \/ c.rows)}
      segment(d) == SegmentFrom(c, {active(e) : e \in usable}, active(d))
  IN {Window(<<"cutoff", d, active(d)>>, split(d).train, split(d).valid, segment(d), d) :
        d \in {e \in usable : segment(e) # {}}}

\* Calendar periods: fit at the close before the period, on whole lookback months.
CalendarWindows(c) ==
  LET periods == {Period(c.refit, d) : d \in PredictDates(c)}
      days == c.refit[2] * MonthLen
      first(p) == p * days + 1
      cutoff(p) == PreviousOpen(c, first(p))
      lower(p) == LookbackStart(c, p * days, cutoff(p), c.lookback)
      validStart(p) == LookbackStart(c, p * days, cutoff(p), c.vlookback)
      trainEnd(p) == PreviousOpen(c, validStart(p))
      sound(p) ==
        /\ cutoff(p) # None /\ cutoff(p) <= c.train[2]
        /\ lower(p) # None /\ lower(p) < validStart(p)
        /\ c.train[1] <= lower(p) /\ Min(c.cal) <= lower(p)
        /\ Cardinality(Between(c, <<lower(p), trainEnd(p)>>)) >= c.minDays
  IN IF \E p \in periods : ~sound(p) THEN Failed
     ELSE {Window(<<"period", c.refit[2], p>>, SampleDates(c, <<lower(p), trainEnd(p)>>, c.trainFreq),
                  SampleDates(c, <<validStart(p), cutoff(p)>>, c.trainFreq),
                  {d \in PredictDates(c) : Period(c.refit, d) = p}, cutoff(p)) : p \in periods}

\* _build_windows.
SchemeWindows(c) ==
  IF c.vlookback # None THEN IF PredictDates(c) = {} THEN Failed ELSE CalendarWindows(c)
  ELSE IF PredictDates(c) = {} THEN IF c.delayed THEN Failed ELSE TrainOnlyWindows(c)
  ELSE IF c.scheme = "static" THEN StaticWindows(c)
  ELSE IF c.ratio # None THEN IF c.delayed THEN DelayedWindows(c) ELSE RatioWindows(c)
  ELSE IF c.count > 0 THEN SampleCountWindows(c)
  ELSE SegmentWindows(c)

\* build_windows: the information cutoff of each window, and only labels known by then and
\* settled before the next part begins.
Cutoff(c, w) ==
  IF w.cutoff # None THEN w.cutoff
  ELSE IF w.predict # {} THEN PreviousOpen(c, Min(w.predict))
  ELSE LET known == {d \in c.cal : d <= Max({c.train[2], Or(c.valid, c.train)[2]})} IN
       IF known = {} THEN None ELSE Max(known)

Before(c, dates, boundary) == IF boundary = None THEN dates ELSE SettledDates(c, dates, boundary)

\* Faulty variant: the training labels may reach into the validation dates.
PurgedUnsplit(c, w) ==
  LET cutoff == Cutoff(c, w)
      start == IF w.predict = {} THEN None ELSE Min(w.predict)
      valid == Before(c, MatureDates(c, w.valid, cutoff), start)
      train == Before(c, MatureDates(c, w.train, cutoff), start)
  IN [w EXCEPT !.train = train, !.valid = valid, !.cutoff = cutoff]

Purged(c, w) ==
  LET cutoff == Cutoff(c, w)
      start == IF w.predict = {} THEN None ELSE Min(w.predict)
      valid == Before(c, MatureDates(c, w.valid, cutoff), start)
      train == Before(c, MatureDates(c, w.train, cutoff), IF valid = {} THEN start ELSE Min(valid))
  IN [w EXCEPT !.train = train, !.valid = valid, !.cutoff = cutoff]

Usable(c, w) ==
  /\ Cutoff(c, w) # None
  /\ w.valid # {} => Purged(c, w).valid # {}
  /\ Purged(c, w).train # {}

Settled(c, windows) ==
  IF windows = Failed THEN Failed
  ELSE IF \E w \in windows : ~Usable(c, w) THEN Failed
  ELSE {Purged(c, w) : w \in windows}

BuildWindows(c) == Settled(c, SchemeWindows(c))
=============================================================================
