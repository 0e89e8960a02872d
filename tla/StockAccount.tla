---------------------------- MODULE StockAccount ----------------------------
(***************************************************************************)
(* The cash account of a stock strategy run (strategy/account.rs): cash,    *)
(* long positions, dividends declared but not yet paid, bonus shares not    *)
(* yet listed, delisted stocks. Each operator is one of its operations, as  *)
(* an action on these variables.                                            *)
(*                                                                         *)
(* Money is counted in units small enough to be whole. A position keeps its *)
(* cost, quantity times avg_cost; where a sale or a ratio does not divide   *)
(* evenly the model rounds, as the code rounds in the last place.           *)
(***************************************************************************)
EXTENDS Integers, FiniteSets, FiniteSetsExt

CONSTANTS
  Symbols,          \* stocks
  Events,           \* implemented distributions: [symbol, record, ex, pay, listing, bonus, per, cash]
  InitialCash,
  BuyFee, SellFee   \* commission, tax and slippage, in per cent of the notional

ASSUME AccountAssumption ==
  /\ IsFiniteSet(Symbols) /\ IsFiniteSet(Events)
  /\ InitialCash \in Nat /\ BuyFee \in Nat /\ SellFee \in 0..100
ASSUME EventAssumption ==
  \A e \in Events :
    /\ e.symbol \in Symbols
    /\ {e.record, e.ex, e.pay, e.listing, e.bonus, e.cash} \subseteq Nat /\ e.per \in Nat \ {0}
    /\ e.record < e.ex /\ e.ex <= e.pay /\ e.ex <= e.listing

VARIABLES
  cash,
  net,        \* net_realized_pnl_cum
  income,     \* dividend_income
  pos,        \* per stock: quantity, cost and last price
  recv,       \* per distribution: dividend_receivables it still holds
  locked,     \* per distribution: locked_shares it still holds
  delisted    \* delisted_symbols

account == <<cash, net, income, pos, recv, locked, delisted>>

NoPosition == [qty |-> 0, basis |-> 0, mark |-> 0]

NewAccount ==
  /\ cash = InitialCash /\ net = 0 /\ income = 0
  /\ pos = [s \in Symbols |-> NoPosition]
  /\ recv = [e \in Events |-> 0]
  /\ locked = [e \in Events |-> 0]
  /\ delisted = {}

Held == {s \in Symbols : pos[s].qty > 0}

\* Faulty variant: locked bonus shares count as sellable.
SellableAll(s) == pos[s].qty

\* Shares that are held and listed.
Locked(s) == SumFunction([e \in Events |-> IF e.symbol = s THEN locked[e] ELSE 0])
Sellable(s) == Max({pos[s].qty - Locked(s), 0})

\* apply_buy and record_buy_cost; the fill price becomes the mark.
Buy(s, q, price) ==
  LET fee == (q * price * BuyFee) \div 100 IN
  /\ cash' = cash - (q * price + fee)
  /\ net' = net - fee
  /\ pos' = [pos EXCEPT ![s] = [qty |-> @.qty + q, basis |-> @.basis + q * price, mark |-> price]]
  /\ UNCHANGED <<income, recv, locked, delisted>>

\* Faulty variant: the sale fee never reaches the realized result.
SellFeeForgotten(s, q, price) ==
  LET p == pos[s]
      fee == (q * price * SellFee) \div 100
      cost == (p.basis * q) \div p.qty
  IN /\ cash' = cash + q * price - fee
     /\ net' = net + q * price - cost
     /\ pos' = [pos EXCEPT ![s] =
          IF q = p.qty THEN NoPosition ELSE [qty |-> p.qty - q, basis |-> p.basis - cost, mark |-> price]]
     /\ UNCHANGED <<income, recv, delisted>>

\* Faulty variant: a position sold to the last share keeps its record.
SellKeepsEmpty(s, q, price) ==
  LET p == pos[s]
      fee == (q * price * SellFee) \div 100
      cost == (p.basis * q) \div p.qty
  IN /\ cash' = cash + q * price - fee
     /\ net' = net + q * price - cost - fee
     /\ pos' = [pos EXCEPT ![s] = [qty |-> p.qty - q, basis |-> p.basis - cost, mark |-> price]]
     /\ UNCHANGED <<income, recv, delisted>>

\* apply_sell: the sold share of the cost is realized, an empty position is dropped.
Sell(s, q, price) ==
  LET p == pos[s]
      fee == (q * price * SellFee) \div 100
      cost == (p.basis * q) \div p.qty
  IN /\ cash' = cash + q * price - fee
     /\ net' = net + q * price - cost - fee
     /\ pos' = [pos EXCEPT ![s] =
          IF q = p.qty THEN NoPosition ELSE [qty |-> p.qty - q, basis |-> p.basis - cost, mark |-> price]]
     /\ UNCHANGED <<income, recv, delisted>>

\* One due receivable is paid (settle_stock_entitlements).
Payable(date) == {e \in Events : recv[e] > 0 /\ e.pay <= date}
Pay(e) ==
  /\ cash' = cash + recv[e]
  /\ recv' = [recv EXCEPT ![e] = 0]
  /\ UNCHANGED <<net, income, pos, locked, delisted>>

\* Bonus shares are listed (settle_stock_entitlements).
Unlock(date) ==
  /\ locked' = [e \in Events |-> IF e.listing <= date THEN 0 ELSE locked[e]]
  /\ UNCHANGED <<cash, net, income, pos, recv, delisted>>

\* The ex-date price of a stock that closed at mark on the record date.
ExMark(e, mark) == Max({((mark - e.cash) * e.per) \div (e.per + e.bonus), 0})

\* Faulty variant: a dividend that is payable at once stays receivable.
DistributionUnpaid(e, q, mark, date) ==
  LET s == e.symbol
      bonus == (q * e.bonus) \div e.per
  IN /\ pos' = [pos EXCEPT ![s] = IF @.qty + bonus = 0 THEN @
                  ELSE [qty |-> @.qty + bonus, basis |-> @.basis, mark |-> ExMark(e, mark)]]
     /\ locked' = IF e.listing > date THEN [locked EXCEPT ![e] = @ + bonus] ELSE locked
     /\ income' = income + q * e.cash
     /\ net' = net + q * e.cash
     /\ recv' = [recv EXCEPT ![e] = @ + q * e.cash]
     /\ UNCHANGED <<cash, delisted>>

\* apply_stock_distribution: q shares were registered on the record date.
Distribution(e, q, mark, date) ==
  LET s == e.symbol
      bonus == (q * e.bonus) \div e.per
      dividend == q * e.cash
      paid == IF e.pay <= date THEN dividend ELSE 0
  IN /\ pos' = [pos EXCEPT ![s] = IF @.qty + bonus = 0 THEN @
                  ELSE [qty |-> @.qty + bonus, basis |-> @.basis, mark |-> ExMark(e, mark)]]
     /\ locked' = IF e.listing > date THEN [locked EXCEPT ![e] = @ + bonus] ELSE locked
     /\ income' = income + dividend
     /\ net' = net + dividend
     /\ cash' = cash + paid
     /\ recv' = [recv EXCEPT ![e] = @ + dividend - paid]
     /\ UNCHANGED delisted

Register(symbols) ==
  /\ delisted' = delisted \union symbols
  /\ UNCHANGED <<cash, net, income, pos, recv, locked>>

-----------------------------------------------------------------------------
(* What must hold of the account at all times.                              *)

\* The types of the account's variables; no short position, no debt of shares.
AccountTypeOK ==
  /\ {cash, net} \subseteq Int /\ income \in Nat
  /\ pos \in [Symbols -> [qty : Nat, basis : Nat, mark : Nat]]
  /\ recv \in [Events -> Nat] /\ locked \in [Events -> Nat]
  /\ delisted \subseteq Symbols
  /\ \A s \in Symbols : pos[s].qty = 0 => pos[s] = NoPosition

Receivable == SumFunction(recv)
Basis == SumFunction([s \in Symbols |-> pos[s].basis])

\* The account's profit is its realized and unrealized result: the market values cancel,
\* so cash, receivables and the cost of what is held are the initial cash plus the
\* realized result, whatever was bought, sold, distributed or paid before.
ProfitExplained == cash + Receivable + Basis = InitialCash + net

\* Orders never overdraw the account.
Solvent == cash >= 0

\* Bonus shares that are not listed yet have not been sold.
LockedSharesHeld == \A s \in Symbols : Locked(s) <= pos[s].qty
=============================================================================
