---------------------------- MODULE StockStrategy ----------------------------
(***************************************************************************)
(* A stock strategy run: the event loop of strategy/engine.rs with          *)
(* corporate actions, delistings (lifecycle.rs) and order execution         *)
(* (execution.rs) on one account. Per session: settlement of entitlements,  *)
(* distributions that go ex, delistings; per frame: the orders of the bar   *)
(* before at this bar's open, the strategy's hooks, the marks at the close, *)
(* forced exits, the orders for the next bar; then the registration of      *)
(* those who hold on a record date.                                         *)
(*                                                                         *)
(* The strategy and the market are free: at each hook any orders, at each   *)
(* frame any bars. Loops over orders, receivables, distributions and exits  *)
(* take one step per element.                                               *)
(***************************************************************************)
EXTENDS StockAccount, Sequences

CONSTANTS
  Sessions,         \* the trade dates of the run
  Times, ExitTime,  \* frame times of a session; delisting_exit_time
  DelistDate,       \* per stock
  Bars, NoBar,      \* what a stock may show in a frame: [open, close, up, down], or nothing
  Lot, RespectLimits,
  Orders,           \* [symbol, qty], qty > 0 buys and qty < 0 sells
  Hooks, MaxOrders  \* the hooks the strategy orders at, and how much

ASSUME SessionAssumption ==
  /\ Sessions \subseteq Nat \ {0} /\ Times \subseteq Nat /\ ExitTime \in Nat
  /\ DelistDate \in [Symbols -> Nat] /\ Lot \in Nat \ {0} /\ MaxOrders \in Nat
\* A bar without positive prices is never loaded (clean_positive).
ASSUME BarAssumption ==
  /\ NoBar \notin Bars /\ \A b \in Bars : {b.open, b.close} \subseteq Nat \ {0}
  /\ \A o \in Orders : o.symbol \in Symbols /\ o.qty \in Int

VARIABLES
  today,       \* the session's date, 0 before the first
  phase,       \* where the loop stands
  frames,      \* times of the session's frames still to come
  data,        \* times of frames that were loaded with bars
  exitDue,     \* begin_session returned an exit time
  time,        \* of the current frame
  first,       \* the current frame is the session's first
  market,      \* per stock: its bar in the current frame
  queue,       \* orders being filled
  pending,     \* pending_orders: they wait for the next frame
  entitled,    \* per distribution: registered shares it still has to serve
  recordMark,  \* per distribution: the stock's mark when they were registered
  holders      \* history: per distribution, shares held at the close of its record date

session == <<frames, data, exitDue>>
frame   == <<time, first, market>>
book    == <<entitled, recordMark, holders>>
vars    == <<account, today, phase, session, frame, queue, pending, book>>

Phases == {"between", "settle", "distribute", "frame", "fillPending", "fillOpen", "fillBar",
           "exits", "bar", "closing", "failed"}

Init ==
  /\ NewAccount
  /\ today = 0 /\ phase = "between"
  /\ frames = {} /\ data = {} /\ exitDue = FALSE
  /\ time = 0 /\ first = FALSE /\ market = [s \in Symbols |-> NoBar]
  /\ queue = <<>> /\ pending = <<>>
  /\ entitled = [e \in Events |-> 0] /\ recordMark = [e \in Events |-> 0]
  /\ holders = [e \in Events |-> 0]

-----------------------------------------------------------------------------
(* The start of a session (corporate_actions, then lifecycle).              *)

BeginSession ==
  /\ phase = "between"
  /\ \E d \in Sessions : d > today
  /\ today' = Min({d \in Sessions : d > today})
  /\ phase' = "settle"
  /\ UNCHANGED <<account, session, frame, queue, pending, book>>

SettleCash ==
  /\ phase = "settle"
  /\ \E e \in Payable(today) : Pay(e)
  /\ UNCHANGED <<today, phase, session, frame, queue, pending, book>>

SettleShares ==
  /\ phase = "settle" /\ Payable(today) = {}
  /\ Unlock(today)
  /\ phase' = "distribute"
  /\ UNCHANGED <<today, session, frame, queue, pending, book>>

Due == {e \in Events : entitled[e] > 0 /\ e.ex <= today}

\* Faulty variant: a distribution goes to whoever holds on the ex-date.
DistributeToHolder ==
  /\ phase = "distribute"
  /\ \E e \in Due :
       /\ Distribution(e, pos[e.symbol].qty, recordMark[e], today)
       /\ entitled' = [entitled EXCEPT ![e] = 0]
  /\ UNCHANGED <<today, phase, session, frame, queue, pending, recordMark, holders>>

\* The code serves them in registration order; the order matters to nothing but the
\* mark of a stock with two distributions due together, and is left open.
Distribute ==
  /\ phase = "distribute"
  /\ \E e \in Due :
       /\ Distribution(e, entitled[e], recordMark[e], today)
       /\ entitled' = [entitled EXCEPT ![e] = 0]
  /\ UNCHANGED <<today, phase, session, frame, queue, pending, recordMark, holders>>

DelistedHeld == {s \in delisted : pos[s].qty > 0}

\* Faulty variant: no frame is added for the exit when the market shows none then.
OpenSessionNoExitFrame ==
  /\ phase = "distribute" /\ Due = {}
  /\ Register({s \in Symbols : DelistDate[s] <= today})
  /\ exitDue' = (DelistedHeld' # {})
  /\ \E T \in SUBSET Times :
       /\ data' = T
       /\ frames' = T
       /\ phase' = IF T = {} THEN "closing" ELSE "frame"
  /\ first' = TRUE
  /\ UNCHANGED <<today, time, market, queue, pending, book>>

\* Delistings are registered and the day's frames loaded; with a delisted stock in the
\* account there is a frame at the exit time even if the market shows none. Without any
\* frame the date is skipped.
OpenSession ==
  /\ phase = "distribute" /\ Due = {}
  /\ Register({s \in Symbols : DelistDate[s] <= today})
  /\ exitDue' = (DelistedHeld' # {})
  /\ \E T \in SUBSET Times :
       /\ data' = T
       /\ frames' = T \union (IF exitDue' THEN {ExitTime} ELSE {})
  /\ phase' = IF frames' = {} THEN "closing" ELSE "frame"
  /\ first' = TRUE
  /\ UNCHANGED <<today, time, market, queue, pending, book>>

-----------------------------------------------------------------------------
(* A frame.                                                                 *)

NextFrame ==
  /\ phase = "frame"
  /\ time' = Min(frames)
  /\ frames' = frames \ {time'}
  /\ market' \in [Symbols -> IF time' \in data THEN Bars \union {NoBar} ELSE {NoBar}]
  /\ queue' = pending /\ pending' = <<>>
  /\ phase' = "fillPending"
  /\ UNCHANGED <<account, today, data, exitDue, first, book>>

\* Faulty variant: fees are not part of the price of a share.
AffordableNoFee(req, price) ==
  Min({(req \div Lot) * Lot, (cash \div (price * Lot)) * Lot})

\* affordable_buy_quantity: whole lots that cash covers, fees included.
Affordable(req, price) ==
  Min({(req \div Lot) * Lot, ((cash * 100) \div (price * (100 + BuyFee) * Lot)) * Lot})

\* fill_stock_order's early returns.
Refused(s, buying) ==
  \/ s \in delisted
  \/ market[s] = NoBar
  \/ RespectLimits /\ IF buying THEN market[s].up ELSE market[s].down

Fill(s, qty) ==
  IF Refused(s, qty > 0) THEN UNCHANGED account
  ELSE LET q == IF qty > 0 THEN Affordable(qty, market[s].open) ELSE Min({-qty, Sellable(s)}) IN
       IF q <= 0 THEN UNCHANGED account
       ELSE IF qty > 0 THEN Buy(s, q, market[s].open)
       ELSE Sell(s, q, market[s].open) /\ UNCHANGED locked

FillNext ==
  /\ phase \in {"fillPending", "fillOpen", "fillBar"} /\ queue # <<>>
  /\ Fill(Head(queue).symbol, Head(queue).qty)
  /\ queue' = Tail(queue)
  /\ UNCHANGED <<today, phase, session, frame, pending, book>>

\* The orders of a hook.
Ordered(hook) == IF hook \in Hooks THEN UNION {[1..n -> Orders] : n \in 0..MaxOrders} ELSE {<<>>}

OnSessionOpen ==
  /\ phase = "fillPending" /\ queue = <<>> /\ first
  /\ queue' \in Ordered("on_session_open")
  /\ phase' = "fillOpen"
  /\ UNCHANGED <<account, today, session, frame, pending, book>>

OnBarOpen ==
  /\ phase = "fillOpen" \/ (phase = "fillPending" /\ ~first)
  /\ queue = <<>>
  /\ queue' \in Ordered("on_bar_open")
  /\ phase' = "fillBar"
  /\ UNCHANGED <<account, today, session, frame, pending, book>>

\* mark_account_positions: at the close, where there is a bar.
MarkPositions ==
  /\ phase = "fillBar" /\ queue = <<>>
  /\ pos' = [s \in Symbols |->
       IF s \in Held /\ market[s] # NoBar
       THEN [qty |-> pos[s].qty, basis |-> pos[s].basis, mark |-> market[s].close] ELSE pos[s]]
  /\ phase' = IF exitDue /\ time = ExitTime THEN "exits" ELSE "bar"
  /\ UNCHANGED <<cash, net, income, recv, locked, delisted, today, session, frame, queue, pending, book>>

\* fill_exits, force_delisting_sale: everything goes at its mark, locked or not.
FillExit ==
  /\ phase = "exits" /\ \A s \in DelistedHeld : pos[s].mark > 0
  /\ \E s \in DelistedHeld :
       /\ Sell(s, pos[s].qty, pos[s].mark)
       /\ locked' = [e \in Events |-> IF e.symbol = s THEN 0 ELSE locked[e]]
  /\ UNCHANGED <<today, phase, session, frame, queue, pending, book>>

\* "no valid price for forced delisting exit": the run ends with an error.
ExitFails ==
  /\ phase = "exits" /\ \E s \in DelistedHeld : pos[s].mark = 0
  /\ phase' = "failed"
  /\ UNCHANGED <<account, today, session, frame, queue, pending, book>>

OnBar ==
  /\ phase = "bar" \/ (phase = "exits" /\ DelistedHeld = {})
  /\ pending' \in Ordered("on_bar")
  /\ first' = FALSE
  /\ phase' = IF frames = {} THEN "closing" ELSE "frame"
  /\ UNCHANGED <<account, today, session, time, market, queue, book>>

\* corporate_actions.end_session: whoever holds on the record date is registered.
EndSession ==
  /\ phase = "closing"
  /\ LET recorded == {e \in Events : e.record = today} IN
       /\ entitled' = [e \in Events |-> IF e \in recorded THEN pos[e.symbol].qty ELSE entitled[e]]
       /\ recordMark' = [e \in Events |-> IF e \in recorded THEN pos[e.symbol].mark ELSE recordMark[e]]
       /\ holders' = [e \in Events |-> IF e \in recorded THEN pos[e.symbol].qty ELSE holders[e]]
  /\ phase' = "between"
  /\ UNCHANGED <<account, today, session, frame, queue, pending>>

Next ==
  \/ BeginSession \/ SettleCash \/ SettleShares \/ Distribute \/ OpenSession
  \/ NextFrame \/ FillNext \/ OnSessionOpen \/ OnBarOpen \/ MarkPositions
  \/ FillExit \/ ExitFails \/ OnBar \/ EndSession

Spec == Init /\ [][Next]_vars

-----------------------------------------------------------------------------
(* Properties.                                                              *)

\* The types of the loop's variables.
TypeOK ==
  /\ AccountTypeOK
  /\ today \in Sessions \union {0} /\ phase \in Phases
  /\ frames \subseteq Times \union {ExitTime} /\ data \subseteq Times /\ exitDue \in BOOLEAN
  /\ time \in Times \union {ExitTime, 0} /\ first \in BOOLEAN
  /\ market \in [Symbols -> Bars \union {NoBar}]
  /\ queue \in Seq(Orders) /\ pending \in Seq(Orders)
  /\ entitled \in [Events -> Nat] /\ recordMark \in [Events -> Nat] /\ holders \in [Events -> Nat]

\* A delisted stock is out of the account by the end of the first session on or after
\* its delisting date, however it came in: bought before, or distributed afterwards.
DelistedSold == phase = "between" => DelistedHeld = {}

\* Every dividend goes to the holders of its record date and to nobody else, once, in the
\* first session on or after its ex-date, whatever was traded in between.
HoldersPaid ==
  phase \notin {"settle", "distribute"} =>
    income = SumFunction([e \in Events |-> IF e.ex <= today THEN holders[e] * e.cash ELSE 0])

\* Nothing stays receivable or locked beyond its date.
SettledOnTime ==
  phase # "settle" =>
    \A e \in Events : (e.pay <= today => recv[e] = 0) /\ (e.listing <= today => locked[e] = 0)

\* An order of on_bar for a stock that is still listed is tried at the next bar: a frame
\* without any bar does not use it up.
ListedPending == \E i \in DOMAIN pending : pending[i].symbol \notin delisted
OrdersMeetBars == [][phase = "frame" /\ ListedPending => time' \in data]_vars
=============================================================================
