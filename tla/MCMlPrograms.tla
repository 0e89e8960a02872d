----------------------------- MODULE MCMlPrograms -----------------------------
EXTENDS MlPrograms

CONSTANTS alpha, beta, gamma, vol, ret, fct    \* outputs and factor ids

Days == 1..9

MCSettings == [cal |-> Days \ {5}, scheme |-> "rolling", train |-> <<1, 9>>, valid |-> None, predict |-> <<3, 7>>,
  trainFreq |-> Daily, predictFreq |-> Daily, refit |-> Monthly, ratio |-> None, rows |-> FALSE,
  count |-> 0, vcount |-> 0, vdays |-> 2, minDays |-> 1, lookback |-> None, vlookback |-> None,
  delayed |-> FALSE, label |-> 0, aux |-> 0, params |-> 1]

Named(o, v, s, b, c) == [out |-> o, version |-> v, safe |-> s, batch |-> b] @@ c

\* The first date is before the first activation of x1 and x2; x2's second window has no data
\* to train on, and both write to the same directories.
Delayed == [MCSettings EXCEPT !.ratio = 40, !.delayed = TRUE, !.lookback = <<"d", 3>>]

MCConfigs ==
  Table([x1 |-> Named(alpha, 1, TRUE, 2, Delayed),
   x2 |-> Named(alpha, 2, TRUE, 2, [Delayed EXCEPT !.lookback = <<"m", 1>>, !.params = 2, !.predict = <<6, 7>>]),
   y1 |-> Named(beta, 1, FALSE, 2, [MCSettings EXCEPT !.refit = <<"days", 3>>]),
   z1 |-> Named(gamma, 1, TRUE, 3, [MCSettings EXCEPT !.scheme = "static", !.train = <<1, 2>>])])

MCDataDates == Days \ {4}
Starts(p, me, a, gr) == [plan |-> p, metadata |-> me, pipeline |-> a, grouped |-> gr]
MCSessions == {Starts(1, 0, 0, 0), Starts(0, 3, 0, 0), Starts(0, 0, 2, 0), Starts(0, 0, 1, 2)}
MCGroups == {<<"x1", "y1">>, <<"x1", "y1", "z1">>, <<"x2", "z1">>}
MCLibraries == {{}, {"x1", "y1", "z1"}}
MCMlRegistrations == {{fct}, {ret}}
MCCodeRegistries == {{vol}, {vol, ret}}

ASSUME MCNeverBack == NeverBack

ASSUME MCInteresting ==
  /\ \E c \in DOMAIN Configs : \E w \in Plan[c] : ~HasRows(w.train)
  /\ \E c \in DOMAIN Configs : ~(Predicts[c] \subseteq UNION {w.predict : w \in Plan[c]})

\* Plans over six months with holidays: every scheme, with refits, lookbacks and horizons that
\* meet the ends of months, of the calendar and of the ranges.
Long == 1..18
Calendars == {Long \ {4, 5, 6, 9}, Long \ {9, 10, 17, 18}, {d \in Long : d % 2 = 0}}
Settings == [MCSettings EXCEPT !.cal = Long, !.train = <<1, 18>>, !.predict = <<8, 18>>, !.label = 1]

Statics   == {[Settings EXCEPT !.scheme = "static", !.valid = v] : v \in {None, <<4, 8>>, <<6, 7>>}}
Segments  == {[Settings EXCEPT !.refit = r, !.valid = v, !.lookback = b] :
                r \in {Monthly, <<"days", 4>>, <<"once", 1>>}, v \in {None, <<6, 8>>}, b \in {None, <<"d", 4>>, <<"m", 2>>}}
Ratios    == {[Settings EXCEPT !.refit = r, !.ratio = 40, !.lookback = b, !.rows = s, !.delayed = e] :
                r \in {Monthly, Quarterly}, b \in {<<"d", 5>>, <<"m", 2>>}, s \in BOOLEAN, e \in BOOLEAN}
Counts    == {[Settings EXCEPT !.refit = r, !.count = 2, !.vcount = v, !.scheme = s] :
                r \in {Monthly, Quarterly}, v \in {0, 1}, s \in {"rolling", "expanding"}}
Periods   == {[Settings EXCEPT !.refit = Quarterly, !.lookback = b, !.vlookback = <<"m", 1>>] : b \in {<<"m", 2>>, <<"m", 3>>}}
NoPredict == {[c EXCEPT !.predict = None] : c \in Statics \union Counts \union Ratios}

MCPlanConfigs ==
  {[c EXCEPT !.cal = cal, !.label = n, !.aux = a, !.trainFreq = q,
             !.predict = IF @ = None THEN None ELSE p] :
     c \in Statics \union Segments \union Ratios \union Counts \union Periods \union NoPredict, cal \in Calendars,
     n \in {0, 2}, a \in {0, 1}, q \in {Daily, <<"days", 2>>}, p \in {<<8, 18>>, <<5, 15>>}}
=============================================================================
