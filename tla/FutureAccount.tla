---------------------------- MODULE FutureAccount ----------------------------
(***************************************************************************)
(* The margin account of a futures strategy run: apply_derivative_trade     *)
(* (strategy/account.rs), fill_future_order with its margin test            *)
(* (strategy/execution.rs) and the marks of each bar (strategy/engine.rs).  *)
(* At a bar's open any orders are filled one after another, each as a       *)
(* closing segment and an opening one; at its close positions are marked.   *)
(*                                                                         *)
(* A position keeps its signed cost, quantity times avg_cost. Ratios are in *)
(* per cent, so margins are kept times 100.                                 *)
(***************************************************************************)
EXTENDS Integers, FiniteSets, FiniteSetsExt

CONSTANTS
  Symbols, Multiplier,     \* contracts and their multipliers
  InitialCash, Lot,
  Fee, MarginRatio, Cap,   \* commission and slippage, margin per notional, max_margin_ratio
  Quantities,              \* order sizes: positive buys, negative sells
  Bars, NoBar,             \* [open, close], or no bar of that contract
  MaxBars                  \* bound: the bars of the run

ASSUME FutureAssumption ==
  /\ IsFiniteSet(Symbols) /\ InitialCash \in Int /\ Quantities \subseteq Int
  /\ Multiplier \in [Symbols -> Nat \ {0}] /\ Lot \in Nat \ {0}
  /\ Fee \in 0..100 /\ MarginRatio \in 1..100 /\ Cap \in 0..100
  /\ NoBar \notin Bars /\ \A b \in Bars : b.open \in Nat \ {0} /\ b.close \in Nat \ {0}

VARIABLES
  cash,
  net,      \* net_realized_pnl_cum
  pos,      \* per contract: signed quantity, signed cost, last price
  market,   \* per contract: its bar
  stage,    \* "bar": between bars; "open": orders may come; "close", "extend": one is being filled
  order,    \* the order being filled: contract, sign, quantity left
  bars,     \* bars so far
  flow      \* history: money paid for every trade so far, fees included

vars == <<cash, net, pos, market, stage, order, bars, flow>>

Flat == [qty |-> 0, cost |-> 0, mark |-> 0]
NoOrder == [symbol |-> CHOOSE s \in Symbols : TRUE, sign |-> 1, left |-> 0]

RoundDown(q) == (q \div Lot) * Lot
Size(q) == IF q < 0 THEN -q ELSE q

\* AccountState::summary.
Unrealized(s) == Multiplier[s] * (pos[s].qty * pos[s].mark - pos[s].cost)
Equity == cash + SumFunction([s \in Symbols |-> Unrealized(s)])
Margin(s) == Size(pos[s].qty) * pos[s].mark * Multiplier[s] * MarginRatio
MarginRequired == SumFunction([s \in Symbols |-> Margin(s)])

\* Faulty variant: the fee is not part of what a contract needs.
AffordableNoFee(s, req, price) ==
  LET capLeft == Max({Max({Equity, 0}) * Cap - MarginRequired, 0})
      free == Min({Max({Equity * 100 - MarginRequired, 0}), capLeft})
  IN Min({req, RoundDown(free \div (price * Multiplier[s] * MarginRatio))})

\* affordable_future_open_quantity.
Affordable(s, req, price) ==
  LET capLeft == Max({Max({Equity, 0}) * Cap - MarginRequired, 0})
      free == Min({Max({Equity * 100 - MarginRequired, 0}), capLeft})
  IN Min({req, RoundDown(free \div (price * Multiplier[s] * (MarginRatio + Fee)))})

Init ==
  /\ cash = InitialCash /\ net = 0 /\ flow = 0
  /\ pos = [s \in Symbols |-> Flat]
  /\ market = [s \in Symbols |-> NoBar]
  /\ stage = "bar" /\ order = NoOrder /\ bars = 0

\* A new bar opens.
NextBar ==
  /\ stage = "bar" /\ bars < MaxBars
  /\ market' \in [Symbols -> Bars \union {NoBar}]
  /\ bars' = bars + 1 /\ stage' = "open"
  /\ UNCHANGED <<cash, net, pos, order, flow>>

\* An order for a contract that trades in this bar.
BeginOrder ==
  /\ stage = "open"
  /\ \E s \in Symbols, q \in Quantities :
       /\ market[s] # NoBar /\ RoundDown(Size(q)) > 0
       /\ order' = [symbol |-> s, sign |-> IF q > 0 THEN 1 ELSE -1, left |-> RoundDown(Size(q))]
  /\ stage' = "close"
  /\ UNCHANGED <<cash, net, pos, market, bars, flow>>

Fees(s, q, price) == (q * price * Multiplier[s] * Fee) \div 100

\* q contracts are added to a position of the same sign, or to none.
Extend(s, q, price) ==
  /\ cash' = cash - Fees(s, q, price) /\ net' = net - Fees(s, q, price)
  /\ pos' = [pos EXCEPT ![s] = [qty |-> @.qty + order.sign * q,
                                cost |-> @.cost + order.sign * q * price, mark |-> price]]
  /\ flow' = flow + order.sign * q * price * Multiplier[s] + Fees(s, q, price)

\* Faulty variant: the result of a closed short has the sign of a long.
ReduceAsLong(s, q, price) ==
  LET p == pos[s]
      cost == -order.sign * ((Size(p.cost) * q) \div Size(p.qty))
      realized == Multiplier[s] * (q * price - Size(cost))
  IN /\ cash' = cash + realized - Fees(s, q, price) /\ net' = net + realized - Fees(s, q, price)
     /\ pos' = [pos EXCEPT ![s] = IF Size(p.qty) = q THEN Flat
                  ELSE [qty |-> p.qty + order.sign * q, cost |-> p.cost - cost, mark |-> price]]
     /\ flow' = flow + order.sign * q * price * Multiplier[s] + Fees(s, q, price)

\* q contracts of a position of the other sign are closed: the difference to their cost is
\* realized, an empty position is dropped.
Reduce(s, q, price) ==
  LET p == pos[s]
      cost == -order.sign * ((Size(p.cost) * q) \div Size(p.qty))
      realized == Multiplier[s] * (-order.sign * q * price - cost)
  IN /\ cash' = cash + realized - Fees(s, q, price) /\ net' = net + realized - Fees(s, q, price)
     /\ pos' = [pos EXCEPT ![s] = IF Size(p.qty) = q THEN Flat
                  ELSE [qty |-> p.qty + order.sign * q, cost |-> p.cost - cost, mark |-> price]]
     /\ flow' = flow + order.sign * q * price * Multiplier[s] + Fees(s, q, price)

\* The closing segment: never refused.
CloseSegment ==
  /\ stage = "close"
  /\ LET s == order.symbol
         against == pos[s].qty * order.sign < 0
         q == Min({order.left, Size(pos[s].qty)})
     IN IF against
        THEN Reduce(s, q, market[s].open) /\ order' = [order EXCEPT !.left = @ - q]
        ELSE UNCHANGED <<cash, net, pos, flow, order>>
  /\ stage' = "extend"
  /\ UNCHANGED <<market, bars>>

\* The opening segment: as much as the margin test leaves.
OpenSegment ==
  /\ stage = "extend"
  /\ LET s == order.symbol
         q == Affordable(s, order.left, market[s].open)
     IN IF q > 0 THEN Extend(s, q, market[s].open) ELSE UNCHANGED <<cash, net, pos, flow>>
  /\ stage' = "open" /\ order' = NoOrder
  /\ UNCHANGED <<market, bars>>

\* The bar closes: mark_account_positions.
MarkPositions ==
  /\ stage = "open"
  /\ pos' = [s \in Symbols |->
       IF pos[s].qty # 0 /\ market[s] # NoBar
       THEN [qty |-> pos[s].qty, cost |-> pos[s].cost, mark |-> market[s].close] ELSE pos[s]]
  /\ stage' = "bar"
  /\ UNCHANGED <<cash, net, market, order, bars, flow>>

Next == NextBar \/ BeginOrder \/ CloseSegment \/ OpenSegment \/ MarkPositions

Spec == Init /\ [][Next]_vars

-----------------------------------------------------------------------------
(* Properties.                                                              *)

Cost(s) == Multiplier[s] * pos[s].cost

\* Average costs, partial closes, shorts and reversals add up: what the account calls
\* cash is the initial cash, less the money paid for all trades, plus the cost of what
\* is still open.
ProfitIsFlow == cash = InitialCash - flow + SumFunction([s \in Symbols |-> Cost(s)])

\* An opening trade by an account that held nothing keeps within max_margin_ratio.
FirstOpenWithinCap ==
  [][OpenSegment /\ pos' # pos /\ (\A s \in Symbols : pos[s].qty = 0) =>
       MarginRequired' <= Equity' * Cap]_vars
=============================================================================
