------------------------- MODULE StockStrategyProofs -------------------------
(***************************************************************************)
(* TLAPS proofs about StockStrategy, for every strategy, market, set of     *)
(* stocks, distributions and sessions. First the delistings, whose          *)
(* invariant follows a held delisted stock through the loop; then the       *)
(* account, operation by operation; then the run, with the account, the     *)
(* loop and the registered distributions in one invariant.                  *)
(***************************************************************************)
EXTENDS StockStrategy, NumberLemmas

\* The exit still comes in this session: its frame is ahead.
ExitAhead == exitDue /\ ExitTime \in frames

\* Where the loop stands, a held delisted stock still has its exit before it.
ExitPlanned ==
  DelistedHeld # {} =>
    /\ phase \in {"distribute", "frame", "fillPending", "fillOpen", "fillBar", "exits", "bar", "failed"}
    /\ phase \in {"frame", "bar"} => ExitAhead
    /\ phase \in {"fillPending", "fillOpen", "fillBar"} =>
         ExitAhead \/ (exitDue /\ time = ExitTime)

\* Positions are records of a quantity, a cost and a mark, one per stock.
PositionShape ==
  /\ pos = [s \in Symbols |-> pos[s]]
  /\ \A s \in Symbols : pos[s] = [qty |-> pos[s].qty, basis |-> pos[s].basis, mark |-> pos[s].mark]
  /\ delisted \subseteq Symbols

ExitInv == PositionShape /\ ExitPlanned

LEMMA ExitInit == Init => ExitInv
<1> SUFFICES ASSUME Init PROVE ExitInv
  OBVIOUS
<1>1. PositionShape
  BY DEF Init, NewAccount, PositionShape, NoPosition
<1>2. DelistedHeld = {}
  BY DEF Init, NewAccount, DelistedHeld
<1> QED
  BY <1>1, <1>2 DEF ExitInv, ExitPlanned

-----------------------------------------------------------------------------
\* What the account operations do to positions: they change one stock's.

LEMMA BuyShape ==
  ASSUME PositionShape, NEW s, NEW q, NEW price, Buy(s, q, price), s \notin delisted
  PROVE  PositionShape' /\ DelistedHeld' = DelistedHeld
<1>1. pos' = [x \in Symbols |-> IF x = s THEN pos'[s] ELSE pos[x]] /\ delisted' = delisted
  BY DEF Buy, PositionShape
<1>2. PositionShape'
  BY DEF Buy, PositionShape
<1>3. \A x \in delisted : pos'[x] = pos[x]
  BY <1>1 DEF PositionShape
<1> QED
  BY <1>1, <1>2, <1>3 DEF DelistedHeld

LEMMA SellShape ==
  ASSUME PositionShape, NEW s, NEW q, NEW price, Sell(s, q, price)
  PROVE  /\ PositionShape' /\ delisted' = delisted
         /\ \A x \in Symbols : x # s => pos'[x] = pos[x]
         /\ s \in Symbols /\ q = pos[s].qty => pos'[s] = NoPosition
<1>1. delisted' = delisted /\ \A x \in Symbols : x # s => pos'[x] = pos[x]
  BY DEF Sell, PositionShape
<1>2. s \in Symbols /\ q = pos[s].qty => pos'[s] = NoPosition
  BY DEF Sell, PositionShape
<1>3. s \in Symbols => \/ pos'[s] = NoPosition
                       \/ pos'[s] = [qty |-> pos'[s].qty, basis |-> pos'[s].basis, mark |-> pos'[s].mark]
  BY DEF Sell, PositionShape
<1>4. pos' = [x \in Symbols |-> pos'[x]]
  BY DEF Sell, PositionShape
<1> QED
  BY <1>1, <1>2, <1>3, <1>4 DEF PositionShape, NoPosition

LEMMA DistributionShape ==
  ASSUME PositionShape, NEW e, NEW q, NEW mark, NEW date, Distribution(e, q, mark, date)
  PROVE  PositionShape'
<1> DEFINE s == e.symbol
           old == pos[s]
           new == [qty |-> old.qty + (q * e.bonus) \div e.per, basis |-> old.basis, mark |-> ExMark(e, mark)]
<1>1. delisted' = delisted
  BY DEF Distribution
<1>2. \/ pos' = [pos EXCEPT ![s] = old]
      \/ pos' = [pos EXCEPT ![s] = new]
  BY DEF Distribution
<1> HIDE DEF s
<1>3. CASE pos' = [pos EXCEPT ![s] = old]
  BY <1>1, <1>3 DEF PositionShape
<1>4. CASE pos' = [pos EXCEPT ![s] = new]
  BY <1>1, <1>4 DEF PositionShape
<1> QED
  BY <1>2, <1>3, <1>4

-----------------------------------------------------------------------------
LEMMA ExitStep == ExitInv /\ [Next]_vars => ExitInv'
<1> SUFFICES ASSUME PositionShape, ExitPlanned, [Next]_vars
             PROVE  PositionShape' /\ ExitPlanned'
  BY DEF ExitInv
<1>a. ASSUME pos' = pos, delisted' = delisted
      PROVE  PositionShape' /\ DelistedHeld' = DelistedHeld
  BY <1>a DEF PositionShape, DelistedHeld
<1> USE DEF session, frame
<1>1. CASE BeginSession \/ SettleCash \/ SettleShares
  BY <1>1, <1>a DEF BeginSession, SettleCash, SettleShares, Pay, Unlock, account, ExitPlanned
<1>2. CASE Distribute
  <2>1. PositionShape' /\ phase' = "distribute"
    BY <1>2, DistributionShape DEF Distribute
  <2> QED
    BY <2>1 DEF ExitPlanned
<1>3. CASE OpenSession
  <2>1. PositionShape'
    BY <1>3 DEF OpenSession, Register, PositionShape
  <2>2. DelistedHeld' # {} => exitDue' /\ ExitTime \in frames' /\ phase' = "frame"
    BY <1>3 DEF OpenSession
  <2> QED
    BY <2>1, <2>2 DEF ExitPlanned, ExitAhead
<1>4. CASE NextFrame
  <2>1. /\ phase = "frame" /\ phase' = "fillPending" /\ exitDue' = exitDue
        /\ frames' = frames \ {time'} /\ pos' = pos /\ delisted' = delisted
    BY <1>4 DEF NextFrame, account
  <2> QED
    BY <2>1, <1>a DEF ExitPlanned, ExitAhead
<1>5. CASE FillNext
  <2>1. phase' = phase /\ UNCHANGED <<session, frame>>
        /\ phase \in {"fillPending", "fillOpen", "fillBar"}
    BY <1>5 DEF FillNext
  <2>2. PICK s, qty : Fill(s, qty)
    BY <1>5 DEF FillNext
  <2>3. PositionShape' /\ (DelistedHeld' # {} => DelistedHeld # {})
    <3>1. CASE UNCHANGED account
      BY <3>1, <1>a DEF account
    <3>2. CASE s \notin delisted /\ \E q, price : Buy(s, q, price)
      BY <3>2, BuyShape
    <3>3. CASE s \notin delisted /\ \E q, price : Sell(s, q, price)
      <4>1. PICK q, price : Sell(s, q, price)
        BY <3>3
      <4>2. PositionShape' /\ delisted' = delisted /\ \A x \in delisted : pos'[x] = pos[x]
        BY <3>3, <4>1, SellShape DEF PositionShape
      <4> QED
        BY <4>2 DEF DelistedHeld
    <3> QED
      BY <2>2, <3>1, <3>2, <3>3 DEF Fill, Refused
  <2> QED
    BY <2>1, <2>3 DEF ExitPlanned, ExitAhead
<1>6. CASE OnSessionOpen \/ OnBarOpen
  BY <1>6, <1>a DEF OnSessionOpen, OnBarOpen, account, ExitPlanned, ExitAhead
<1>7. CASE MarkPositions
  <2>1. /\ phase = "fillBar" /\ phase' = IF exitDue /\ time = ExitTime THEN "exits" ELSE "bar"
        /\ UNCHANGED <<frames, exitDue, delisted>>
    BY <1>7 DEF MarkPositions
  <2>2. pos' = [s \in Symbols |->
          IF s \in Held /\ market[s] # NoBar
          THEN [qty |-> pos[s].qty, basis |-> pos[s].basis, mark |-> market[s].close] ELSE pos[s]]
    BY <1>7 DEF MarkPositions
  <2>3. \A s \in Symbols :
          \/ pos'[s] = pos[s]
          \/ pos'[s] = [qty |-> pos[s].qty, basis |-> pos[s].basis, mark |-> market[s].close]
    BY <2>2
  <2>4. PositionShape'
    BY <2>1, <2>2, <2>3 DEF PositionShape
  <2>5. DelistedHeld' = DelistedHeld
    <3>1. ASSUME NEW s \in Symbols PROVE pos'[s].qty = pos[s].qty
      <4>1. CASE pos'[s] = pos[s]
        BY <4>1
      <4>2. CASE pos'[s] = [qty |-> pos[s].qty, basis |-> pos[s].basis, mark |-> market[s].close]
        BY <4>2
      <4> QED
        BY <2>3, <4>1, <4>2
    <3>2. delisted' = delisted /\ delisted \subseteq Symbols
      BY <2>1 DEF PositionShape
    <3> QED
      BY <3>1, <3>2 DEF DelistedHeld
  <2> QED
    BY <2>1, <2>4, <2>5 DEF ExitPlanned, ExitAhead
<1>8. CASE FillExit
  <2>1. PICK s \in DelistedHeld : Sell(s, pos[s].qty, pos[s].mark)
    BY <1>8 DEF FillExit
  <2>2. PositionShape' /\ phase' = "exits"
    BY <1>8, <2>1, SellShape DEF FillExit
  <2>3. DelistedHeld # {}
    BY <2>1
  <2> QED
    BY <2>2 DEF ExitPlanned
<1>9. CASE ExitFails
  BY <1>9, <1>a DEF ExitFails, account, ExitPlanned
<1>10. CASE OnBar
  <2>1. /\ pos' = pos /\ delisted' = delisted /\ exitDue' = exitDue /\ frames' = frames
        /\ phase' = IF frames = {} THEN "closing" ELSE "frame"
        /\ phase = "bar" \/ DelistedHeld = {}
    BY <1>10 DEF OnBar, account
  <2> QED
    BY <2>1, <1>a DEF ExitPlanned, ExitAhead
<1>11. CASE EndSession
  BY <1>11, <1>a DEF EndSession, account, ExitPlanned
<1>12. CASE UNCHANGED vars
  BY <1>12, <1>a DEF vars, account, ExitPlanned, ExitAhead
<1> QED
  BY <1>1, <1>2, <1>3, <1>4, <1>5, <1>6, <1>7, <1>8, <1>9, <1>10, <1>11, <1>12 DEF Next

\* Whatever the strategy orders, whatever bars the market shows or lacks and whatever is
\* distributed, a delisted stock is out of the account when the session ends.
THEOREM DelistingsEnforced == Spec => []DelistedSold
<1>1. ExitInv => DelistedSold
  BY DEF ExitInv, ExitPlanned, DelistedSold
<1> QED
  BY <1>1, ExitInit, ExitStep, PTL DEF Spec
-----------------------------------------------------------------------------
(* The account: its sums, and what each operation keeps.                    *)

\* A position holds shares that cost something and have a price, or is no position.
Sound(p) ==
  /\ p = [qty |-> p.qty, basis |-> p.basis, mark |-> p.mark]
  /\ p.qty \in Nat /\ p.basis \in Nat /\ p.mark \in Nat
  /\ p.qty = 0 => p = NoPosition

PositionsSound == pos = [s \in Symbols |-> pos[s]] /\ \A s \in Symbols : Sound(pos[s])

Types ==
  /\ cash \in Int /\ net \in Int /\ income \in Nat
  /\ PositionsSound
  /\ recv \in [Events -> Nat] /\ locked \in [Events -> Nat]
  /\ delisted \subseteq Symbols

\* What every operation of the account keeps.
AccountInv == Types /\ ProfitExplained /\ Solvent /\ LockedSharesHeld

\* The types in the form the proofs use, and the stated ones.
LEMMA TypesStated == Types => AccountTypeOK
<1> SUFFICES ASSUME Types PROVE AccountTypeOK
  OBVIOUS
<1>1. pos = [s \in Symbols |-> pos[s]] /\ \A s \in Symbols : pos[s] \in [qty : Nat, basis : Nat, mark : Nat]
  BY DEF Types, PositionsSound, Sound
<1>2. pos \in [Symbols -> [qty : Nat, basis : Nat, mark : Nat]]
  BY <1>1
<1>3. \A s \in Symbols : pos[s].qty = 0 => pos[s] = NoPosition
  BY DEF Types, PositionsSound, Sound
<1> QED
  BY <1>2, <1>3 DEF Types, AccountTypeOK

\* The account's sums are naturals.
LEMMA SumsTyped ==
  ASSUME Types
  PROVE  Receivable \in Nat /\ Basis \in Nat /\ \A s \in Symbols : Locked(s) \in Nat
<1>1. IsFiniteSet(Symbols) /\ IsFiniteSet(Events)
  BY AccountAssumption
<1>2. Receivable \in Nat
  <2>1. DOMAIN recv = Events /\ \A e \in Events : recv[e] \in Nat
    BY DEF Types
  <2>2. Receivable = SumFunctionOnSet(recv, Events)
    BY <2>1 DEF Receivable, SumFunction
  <2> QED
    BY <1>1, <2>1, <2>2, SumNatural
<1>3. Basis \in Nat
  <2> DEFINE f == [s \in Symbols |-> pos[s].basis]
  <2>1. Basis = SumFunctionOnSet(f, Symbols)
    BY DEF Basis, SumFunction
  <2>2. \A s \in Symbols : f[s] \in Nat
    BY DEF Types, PositionsSound, Sound
  <2> HIDE DEF f
  <2> QED
    BY <1>1, <2>1, <2>2, SumNatural
<1>4. ASSUME NEW s \in Symbols PROVE Locked(s) \in Nat
  <2> DEFINE f == [e \in Events |-> IF e.symbol = s THEN locked[e] ELSE 0]
  <2>1. Locked(s) = SumFunctionOnSet(f, Events)
    BY DEF Locked, SumFunction
  <2>2. \A e \in Events : f[e] \in Nat
    BY DEF Types
  <2> HIDE DEF f
  <2> QED
    BY <1>1, <2>1, <2>2, SumNatural
<1> QED
  BY <1>2, <1>3, <1>4

\* The cost of what is held changes with the one position that does.
LEMMA BasisChange ==
  ASSUME PositionsSound, PositionsSound', NEW s \in Symbols,
         \A x \in Symbols : x # s => pos'[x] = pos[x]
  PROVE  Basis' = Basis - pos[s].basis + pos'[s].basis
<1> DEFINE f == [x \in Symbols |-> pos[x].basis]
           g == [x \in Symbols |-> pos'[x].basis]
<1>1. Basis = SumFunctionOnSet(f, Symbols) /\ Basis' = SumFunctionOnSet(g, Symbols)
  BY DEF Basis, SumFunction
<1>2. \A x \in Symbols : f[x] \in Int /\ g[x] \in Int
  BY DEF PositionsSound, Sound
<1>3. \A x \in Symbols : x # s => f[x] = g[x]
  OBVIOUS
<1>4. f[s] = pos[s].basis /\ g[s] = pos'[s].basis
  OBVIOUS
<1>5. IsFiniteSet(Symbols)
  BY AccountAssumption
<1> HIDE DEF f, g
<1>6. SumFunctionOnSet(g, Symbols) = SumFunctionOnSet(f, Symbols) - f[s] + g[s]
  BY <1>2, <1>3, <1>5, SumChange
<1> QED
  BY <1>1, <1>4, <1>6

\* The receivables change with the one distribution's.
LEMMA ReceivableChange ==
  ASSUME recv \in [Events -> Nat], NEW e \in Events, NEW n \in Nat, recv' = [recv EXCEPT ![e] = n]
  PROVE  recv' \in [Events -> Nat] /\ Receivable' = Receivable - recv[e] + n
<1> DEFINE f == recv
           g == recv'
<1>1. g \in [Events -> Nat] /\ g[e] = n /\ f[e] = recv[e] /\ \A x \in Events : x # e => f[x] = g[x]
  OBVIOUS
<1>2. DOMAIN f = Events /\ DOMAIN g = Events /\ \A x \in Events : f[x] \in Int /\ g[x] \in Int
  BY <1>1
<1>3. Receivable = SumFunctionOnSet(f, DOMAIN f) /\ Receivable' = SumFunctionOnSet(g, DOMAIN g)
  BY DEF Receivable, SumFunction
<1>4. IsFiniteSet(Events) /\ recv' = g
  BY AccountAssumption
<1> HIDE DEF f, g
<1>5. SumFunctionOnSet(g, Events) = SumFunctionOnSet(f, Events) - f[e] + g[e]
  <2>1. IsFiniteSet(Events)
    BY <1>4
  <2>2. \A x \in Events : f[x] \in Int /\ g[x] \in Int
    BY <1>2
  <2>3. \A x \in Events : x # e => f[x] = g[x]
    BY <1>1
  <2> QED
    BY <2>1, <2>2, <2>3, SumChange
<1>6. Receivable' = Receivable - recv[e] + n
  BY <1>1, <1>2, <1>3, <1>5
<1> QED
  BY <1>1, <1>4, <1>6

\* With fewer shares locked of every distribution, no stock has more locked.
LEMMA LockedLess ==
  ASSUME locked \in [Events -> Nat], locked' \in [Events -> Nat],
         NEW s \in Symbols, \A e \in Events : e.symbol = s => locked'[e] <= locked[e]
  PROVE  Locked(s) \in Nat /\ Locked(s)' \in Nat /\ Locked(s)' <= Locked(s)
<1> DEFINE f == [e \in Events |-> IF e.symbol = s THEN locked'[e] ELSE 0]
           g == [e \in Events |-> IF e.symbol = s THEN locked[e] ELSE 0]
<1>1. Locked(s)' = SumFunctionOnSet(f, Events) /\ Locked(s) = SumFunctionOnSet(g, Events)
  BY DEF Locked, SumFunction
<1>2. /\ \A e \in Events : f[e] \in Nat
      /\ \A e \in Events : g[e] \in Nat
      /\ \A e \in Events : f[e] \in Int /\ g[e] \in Int /\ f[e] <= g[e]
  OBVIOUS
<1>3. IsFiniteSet(Events)
  BY AccountAssumption
<1> HIDE DEF f, g
<1>4. SumFunctionOnSet(f, Events) \in Nat /\ SumFunctionOnSet(g, Events) \in Nat
  BY <1>2, <1>3, SumNatural
<1>5. SumFunctionOnSet(f, Events) <= SumFunctionOnSet(g, Events)
  BY <1>2, <1>3, SumMonotone
<1> QED
  BY <1>1, <1>4, <1>5

\* A distribution locks its bonus of its own stock.
LEMMA LockedMore ==
  ASSUME locked \in [Events -> Nat], NEW e \in Events, NEW n \in Nat,
         locked' = [locked EXCEPT ![e] = locked[e] + n]
  PROVE  /\ locked' \in [Events -> Nat]
         /\ Locked(e.symbol)' = Locked(e.symbol) + n
<1> DEFINE s == e.symbol
           f == [x \in Events |-> IF x.symbol = s THEN locked[x] ELSE 0]
           g == [x \in Events |-> IF x.symbol = s THEN locked'[x] ELSE 0]
<1>1. Locked(s) = SumFunctionOnSet(f, Events) /\ Locked(s)' = SumFunctionOnSet(g, Events)
  BY DEF Locked, SumFunction
<1>2. locked' \in [Events -> Nat] /\ locked'[e] = locked[e] + n /\ \A x \in Events : x # e => locked'[x] = locked[x]
  OBVIOUS
<1>3. \A x \in Events : f[x] \in Int /\ g[x] \in Int
  BY <1>2
<1>4. \A x \in Events : x # e => f[x] = g[x]
  BY <1>2
<1>5. g[e] = f[e] + n /\ f[e] \in Int
  BY <1>2
<1>6. IsFiniteSet(Events)
  BY AccountAssumption
<1> HIDE DEF f, g
<1>7. SumFunctionOnSet(g, Events) = SumFunctionOnSet(f, Events) - f[e] + g[e]
  BY <1>3, <1>4, <1>6, SumChange
<1>8. SumFunctionOnSet(f, Events) \in Int
  BY <1>3, <1>6, SumType
<1>9. Locked(s)' = Locked(s) + n
  BY <1>1, <1>5, <1>7, <1>8
<1> QED
  BY <1>2, <1>9

\* The positions after stock s got the sound position p.
LEMMA PositionReplaced ==
  ASSUME PositionsSound, NEW s \in Symbols, NEW p, Sound(p), pos' = [pos EXCEPT ![s] = p]
  PROVE  PositionsSound' /\ pos'[s] = p /\ \A x \in Symbols : x # s => pos'[x] = pos[x]
<1>1. pos'[s] = p /\ \A x \in Symbols : x # s => pos'[x] = pos[x]
  BY DEF PositionsSound
<1>2. pos' = [x \in Symbols |-> pos'[x]]
  BY DEF PositionsSound
<1>3. \A x \in Symbols : Sound(pos'[x])
  BY <1>1 DEF PositionsSound
<1> QED
  BY <1>1, <1>2, <1>3 DEF PositionsSound, Sound

\* A fee is a natural; one of at most 100 per cent takes at most the notional.
LEMMA FeeRange ==
  ASSUME NEW v \in Nat, NEW rate \in Nat
  PROVE  (v * rate) \div 100 \in Nat /\ (rate <= 100 => (v * rate) \div 100 <= v)
<1> DEFINE f == (v * rate) \div 100
<1>1. v * rate \in Nat
  OBVIOUS
<1>2. f \in Int /\ f * 100 <= v * rate /\ v * rate < f * 100 + 100
  <2> DEFINE w == v * rate
  <2> HIDE DEF w
  <2> QED
    BY <1>1, DivRule DEF w
<1>3. rate <= 100 => rate * v <= 100 * v
  BY TimesMonotone
<1> HIDE DEF f
<1>4. v * rate = rate * v
  OBVIOUS
<1> QED
  BY <1>1, <1>2, <1>3, <1>4 DEF f

\* Cash became a fee and the cost of what is held.
LEMMA CashForCost ==
  ASSUME NEW c \in Int, NEW r \in Int, NEW b \in Int, NEW n \in Int, NEW v \in Int, NEW f \in Int, NEW p \in Int
  PROVE  (c - (v + f)) + r + (b - p + (p + v)) = (c + r + b) - f
OBVIOUS

\* A purchase that cash covers, fee included.
LEMMA BuyKeeps ==
  ASSUME AccountInv, NEW s \in Symbols, NEW q \in Nat \ {0}, NEW price \in Nat,
         q * price + (q * price * BuyFee) \div 100 <= cash, Buy(s, q, price)
  PROVE  AccountInv'
<1> DEFINE v == q * price
           fee == (v * BuyFee) \div 100
           p == [qty |-> pos[s].qty + q, basis |-> pos[s].basis + v, mark |-> price]
<1>0. Types /\ Sound(pos[s]) /\ v \in Nat /\ cash \in Int /\ net \in Int
  BY DEF AccountInv, Types, PositionsSound
<1>1. fee \in Nat
  <2> HIDE DEF v
  <2> QED
    BY <1>0, AccountAssumption, FeeRange
<1>2. /\ cash' = cash - (v + fee) /\ net' = net - fee
      /\ pos' = [pos EXCEPT ![s] = p]
      /\ income' = income /\ recv' = recv /\ locked' = locked /\ delisted' = delisted
  BY DEF Buy
<1>3. v + fee <= cash
  OBVIOUS
<1>4. Sound(p) /\ p.qty = pos[s].qty + q /\ p.basis = pos[s].basis + v
  <2> HIDE DEF v
  <2> QED
    BY <1>0 DEF Sound
<1> HIDE DEF v, fee, p
<1>5. PositionsSound' /\ pos'[s] = p /\ \A x \in Symbols : x # s => pos'[x] = pos[x]
  BY <1>0, <1>2, <1>4, PositionReplaced DEF Types
<1>6. cash' \in Int /\ cash' >= 0 /\ net' \in Int
  BY <1>0, <1>1, <1>2, <1>3
<1>7. Types'
  BY <1>0, <1>2, <1>5, <1>6 DEF Types
<1>8. ProfitExplained'
  <2>1. Basis' = Basis - pos[s].basis + (pos[s].basis + v) /\ pos[s].basis \in Nat
    BY <1>0, <1>4, <1>5, BasisChange DEF Types, Sound
  <2>2. Receivable' = Receivable
    BY <1>2 DEF Receivable
  <2>3. cash + Receivable + Basis = InitialCash + net /\ Receivable \in Nat /\ Basis \in Nat
    BY <1>0, SumsTyped DEF AccountInv, ProfitExplained
  <2>4. cash' + Receivable' + Basis' = InitialCash + net'
    <3>1. cash' = cash - (v + fee) /\ net' = net - fee /\ InitialCash \in Nat
      BY <1>2, AccountAssumption
    <3>2. /\ v \in Int /\ fee \in Int /\ cash \in Int /\ net \in Int /\ pos[s].basis \in Int
          /\ Receivable \in Int /\ Basis \in Int /\ InitialCash \in Int
      BY <1>0, <1>1, <2>1, <2>3, <3>1
    <3>3. cash' + Receivable' + Basis' = (cash + Receivable + Basis) - fee
      BY <2>1, <2>2, <3>1, <3>2, CashForCost
    <3>4. InitialCash + net' = (InitialCash + net) - fee
      BY <3>1, <3>2
    <3> QED
      BY <2>3, <3>3, <3>4, Zenon
  <2> QED
    BY <2>4 DEF ProfitExplained
<1>9. LockedSharesHeld'
  <2> SUFFICES ASSUME NEW x \in Symbols PROVE Locked(x)' <= pos'[x].qty
    BY DEF LockedSharesHeld
  <2>1. Locked(x)' = Locked(x) /\ Locked(x) \in Nat /\ Locked(x) <= pos[x].qty
    BY <1>0, <1>2, SumsTyped DEF Locked, AccountInv, LockedSharesHeld
  <2>2. pos'[x].qty >= pos[x].qty /\ pos[x].qty \in Nat /\ pos'[x].qty \in Nat
    BY <1>0, <1>4, <1>5 DEF Types, PositionsSound, Sound
  <2> QED
    BY <2>1, <2>2
<1> QED
  BY <1>6, <1>7, <1>8, <1>9 DEF AccountInv, Solvent

\* A sale of at most what is held, that leaves the locked shares in place.
LEMMA SellKeeps ==
  ASSUME AccountInv, NEW s \in Symbols, NEW q \in 1 .. pos[s].qty, NEW price \in Nat, Sell(s, q, price),
         locked' \in [Events -> Nat], \A e \in Events : locked'[e] <= locked[e],
         Locked(s)' <= pos[s].qty - q
  PROVE  AccountInv'
<1> DEFINE v == q * price
           fee == (v * SellFee) \div 100
           cost == (pos[s].basis * q) \div pos[s].qty
           rest == [qty |-> pos[s].qty - q, basis |-> pos[s].basis - cost, mark |-> price]
           p == IF q = pos[s].qty THEN NoPosition ELSE rest
<1>0. Types /\ Sound(pos[s]) /\ v \in Nat /\ cash \in Int /\ cash >= 0 /\ net \in Int
  BY DEF AccountInv, Types, PositionsSound, Solvent
<1>1. pos[s].qty \in Nat \ {0} /\ pos[s].basis \in Nat /\ q \in Nat \ {0} /\ q \in 0 .. pos[s].qty
  BY <1>0 DEF Sound
<1>2. fee \in Nat /\ fee <= v
  <2> HIDE DEF v
  <2> QED
    BY <1>0, AccountAssumption, FeeRange
<1>3. cost \in 0 .. pos[s].basis /\ (q = pos[s].qty => cost = pos[s].basis)
  BY <1>1, Share
<1>4. /\ cash' = cash + v - fee /\ net' = net + v - cost - fee
      /\ pos' = [pos EXCEPT ![s] = p]
      /\ income' = income /\ recv' = recv /\ delisted' = delisted
  BY DEF Sell
<1> HIDE DEF v, fee, cost
<1>5. Sound(p) /\ p.qty = pos[s].qty - q /\ p.basis = pos[s].basis - cost
  <2>1. CASE q = pos[s].qty
    BY <1>1, <1>3, <2>1 DEF Sound, NoPosition
  <2>2. CASE q # pos[s].qty
    BY <1>1, <1>3, <2>2 DEF Sound
  <2> QED
    BY <2>1, <2>2
<1> HIDE DEF p
<1>6. PositionsSound' /\ pos'[s] = p /\ \A x \in Symbols : x # s => pos'[x] = pos[x]
  BY <1>0, <1>4, <1>5, PositionReplaced DEF Types
<1>7. cash' \in Int /\ cash' >= 0 /\ net' \in Int /\ cost \in Nat
  BY <1>0, <1>1, <1>2, <1>3, <1>4
<1>8. Types'
  BY <1>0, <1>4, <1>6, <1>7 DEF Types
<1>9. ProfitExplained'
  <2>1. Basis' = Basis - pos[s].basis + (pos[s].basis - cost) /\ pos[s].basis \in Nat
    BY <1>0, <1>5, <1>6, BasisChange DEF Types, Sound
  <2>2. Receivable' = Receivable
    BY <1>4 DEF Receivable
  <2>3. cash + Receivable + Basis = InitialCash + net /\ Receivable \in Nat /\ Basis \in Nat
    BY <1>0, SumsTyped DEF AccountInv, ProfitExplained
  <2>4. cash' + Receivable' + Basis' = InitialCash + net'
    <3>1. cash' = cash + v - fee /\ net' = net + v - cost - fee /\ InitialCash \in Nat
      BY <1>4, AccountAssumption
    <3>2. v \in Nat /\ fee \in Nat /\ cost \in Nat /\ cash \in Int /\ net \in Int
      BY <1>0, <1>2, <1>7
    <3> QED
      BY <2>1, <2>2, <2>3, <3>1, <3>2
  <2> QED
    BY <2>4 DEF ProfitExplained
<1>10. LockedSharesHeld'
  <2> SUFFICES ASSUME NEW x \in Symbols PROVE Locked(x)' <= pos'[x].qty
    BY DEF LockedSharesHeld
  <2>1. CASE x = s
    BY <1>5, <1>6, <2>1
  <2>2. CASE x # s
    <3>1. Locked(x)' \in Nat /\ Locked(x) \in Nat /\ Locked(x)' <= Locked(x)
      BY <1>0, LockedLess DEF Types
    <3>2. Locked(x) <= pos[x].qty /\ pos'[x] = pos[x] /\ pos[x].qty \in Nat
      BY <1>0, <1>6, <2>2 DEF AccountInv, LockedSharesHeld, Types, PositionsSound, Sound
    <3> QED
      BY <3>1, <3>2
  <2> QED
    BY <2>1, <2>2
<1> QED
  BY <1>7, <1>8, <1>9, <1>10 DEF AccountInv, Solvent

\* What is payable is paid.
LEMMA PayKeeps == ASSUME AccountInv, NEW e \in Events, Pay(e) PROVE AccountInv'
<1>0. Types /\ cash \in Int /\ cash >= 0 /\ net \in Int /\ recv[e] \in Nat
  BY DEF AccountInv, Types, Solvent
<1>1. /\ cash' = cash + recv[e] /\ recv' = [recv EXCEPT ![e] = 0]
      /\ net' = net /\ income' = income /\ pos' = pos /\ locked' = locked /\ delisted' = delisted
  BY DEF Pay
<1>2. recv' \in [Events -> Nat] /\ Receivable' = Receivable - recv[e] + 0
  BY <1>0, <1>1, ReceivableChange DEF Types
<1>3. cash' \in Int /\ cash' >= 0
  BY <1>0, <1>1
<1>4. Types'
  BY <1>0, <1>1, <1>2, <1>3 DEF Types, PositionsSound
<1>5. ProfitExplained'
  <2>1. Basis' = Basis
    BY <1>1 DEF Basis
  <2>2. cash + Receivable + Basis = InitialCash + net /\ Receivable \in Nat /\ Basis \in Nat
    BY <1>0, SumsTyped DEF AccountInv, ProfitExplained
  <2>3. cash' + Receivable' + Basis' = InitialCash + net'
    BY <1>0, <1>1, <1>2, <2>1, <2>2, AccountAssumption
  <2> QED
    BY <2>3 DEF ProfitExplained
<1>6. LockedSharesHeld'
  BY <1>1 DEF AccountInv, LockedSharesHeld, Locked
<1> QED
  BY <1>3, <1>4, <1>5, <1>6 DEF AccountInv, Solvent

\* Fewer locked shares, or new marks, disturb nothing else.
LEMMA MarksKeep ==
  ASSUME AccountInv, PositionsSound', \A s \in Symbols : pos'[s].qty = pos[s].qty /\ pos'[s].basis = pos[s].basis,
         locked' \in [Events -> Nat], \A e \in Events : locked'[e] <= locked[e],
         delisted' \subseteq Symbols, UNCHANGED <<cash, net, income, recv>>
  PROVE  AccountInv'
<1>1. Types'
  BY DEF AccountInv, Types
<1>2. Basis' = Basis
  <2> DEFINE f == [s \in Symbols |-> pos[s].basis]
             g == [s \in Symbols |-> pos'[s].basis]
  <2>1. f = g
    OBVIOUS
  <2>2. Basis = SumFunction(f) /\ Basis' = SumFunction(g)
    BY DEF Basis
  <2> HIDE DEF f, g
  <2> QED
    BY <2>1, <2>2
<1>3. LockedSharesHeld'
  <2> SUFFICES ASSUME NEW x \in Symbols PROVE Locked(x)' <= pos'[x].qty
    BY DEF LockedSharesHeld
  <2>1. Locked(x)' \in Nat /\ Locked(x) \in Nat /\ Locked(x)' <= Locked(x)
    BY LockedLess DEF AccountInv, Types
  <2>2. Locked(x) <= pos[x].qty /\ pos'[x].qty = pos[x].qty /\ pos[x].qty \in Nat
    BY DEF AccountInv, LockedSharesHeld, Types, PositionsSound, Sound
  <2> QED
    BY <2>1, <2>2
<1>4. ProfitExplained' /\ Solvent'
  BY <1>2 DEF AccountInv, ProfitExplained, Solvent, Receivable
<1> QED
  BY <1>1, <1>3, <1>4 DEF AccountInv

\* The ex-date price is a natural.
LEMMA ExMarkType ==
  ASSUME NEW e \in Events, NEW mark \in Nat
  PROVE  ExMark(e, mark) \in Nat
<1> DEFINE a == (mark - e.cash) * e.per
           b == e.per + e.bonus
<1>1. a \in Int /\ b \in Nat \ {0}
  BY EventAssumption
<1> HIDE DEF a, b
<1>2. a \div b \in Int
  BY <1>1, DivRule
<1>3. ExMark(e, mark) = Max({a \div b, 0})
  BY DEF ExMark, a, b
<1> QED
  BY <1>2, <1>3, MaxPair

\* A distribution to q registered shares.
LEMMA DistributionKeeps ==
  ASSUME AccountInv, NEW e \in Events, NEW q \in Nat, NEW mark \in Nat, NEW date \in Nat,
         Distribution(e, q, mark, date)
  PROVE  AccountInv' /\ income' = income + q * e.cash
<1> DEFINE s == e.symbol
           bonus == (q * e.bonus) \div e.per
           dividend == q * e.cash
           paid == IF e.pay <= date THEN dividend ELSE 0
           new == [qty |-> pos[s].qty + bonus, basis |-> pos[s].basis, mark |-> ExMark(e, mark)]
           p == IF pos[s].qty + bonus = 0 THEN pos[s] ELSE new
<1>0. /\ Types /\ s \in Symbols /\ Sound(pos[s])
      /\ cash \in Int /\ cash >= 0 /\ net \in Int /\ income \in Nat /\ recv[e] \in Nat
  BY EventAssumption DEF AccountInv, Types, PositionsSound, Solvent
<1>1. bonus \in Nat /\ dividend \in Nat /\ paid \in Nat /\ paid <= dividend
  <2>1. q * e.bonus \in Nat /\ e.per \in Nat \ {0} /\ dividend \in Nat
    BY EventAssumption
  <2> DEFINE w == q * e.bonus
  <2>2. bonus \in Int /\ bonus * e.per <= w /\ w < bonus * e.per + e.per
    <3> HIDE DEF w
    <3> QED
      BY <2>1, DivRule DEF w
  <2> HIDE DEF bonus, dividend
  <2>3. bonus >= 0
    <3> SUFFICES ASSUME bonus <= -1 PROVE FALSE
      BY <2>2
    <3>1. bonus * e.per <= (-1) * e.per
      BY <2>1, <2>2, TimesMonotone
    <3> QED
      BY <2>1, <2>2, <3>1
  <2> QED
    BY <2>1, <2>2, <2>3
<1>2. /\ pos' = [pos EXCEPT ![s] = p]
      /\ income' = income + dividend /\ net' = net + dividend /\ cash' = cash + paid
      /\ recv' = [recv EXCEPT ![e] = recv[e] + dividend - paid]
      /\ delisted' = delisted
  BY DEF Distribution
<1>3. \/ locked' = locked
      \/ locked' = [locked EXCEPT ![e] = locked[e] + bonus]
  BY DEF Distribution
<1>4. ExMark(e, mark) \in Nat
  BY ExMarkType
<1> HIDE DEF s, bonus, dividend, paid
<1>5. Sound(p) /\ p.qty = pos[s].qty + bonus /\ p.basis = pos[s].basis
  <2>1. CASE pos[s].qty + bonus = 0
    BY <1>0, <1>1, <2>1 DEF Sound
  <2>2. CASE pos[s].qty + bonus # 0
    BY <1>0, <1>1, <1>4, <2>2 DEF Sound
  <2> QED
    BY <2>1, <2>2
<1> HIDE DEF p
<1>6. PositionsSound' /\ pos'[s] = p /\ \A x \in Symbols : x # s => pos'[x] = pos[x]
  BY <1>0, <1>2, <1>5, PositionReplaced DEF Types
<1>7. recv' \in [Events -> Nat] /\ Receivable' = Receivable - recv[e] + (recv[e] + dividend - paid)
  <2> DEFINE n == recv[e] + dividend - paid
  <2>1. n \in Nat /\ recv' = [recv EXCEPT ![e] = n]
    BY <1>0, <1>1, <1>2
  <2> HIDE DEF n
  <2>2. recv' \in [Events -> Nat] /\ Receivable' = Receivable - recv[e] + n
    BY <1>0, <2>1, ReceivableChange DEF Types
  <2> QED
    BY <2>2 DEF n
<1>8. /\ locked' \in [Events -> Nat]
      /\ \A x \in Symbols : Locked(x)' \in Nat
      /\ Locked(s)' <= Locked(s) + bonus
      /\ \A x \in Symbols : x # s => Locked(x)' <= Locked(x)
  <2>1. Types /\ locked \in [Events -> Nat] /\ \A x \in Symbols : Locked(x) \in Nat
    BY <1>0, SumsTyped DEF Types
  <2>2. CASE locked' = locked
    <3>1. \A x \in Symbols : Locked(x)' = Locked(x)
      BY <2>2 DEF Locked
    <3> QED
      BY <1>0, <1>1, <2>1, <2>2, <3>1
  <2>3. CASE locked' = [locked EXCEPT ![e] = locked[e] + bonus]
    <3>1. locked' \in [Events -> Nat] /\ Locked(s)' = Locked(s) + bonus
      BY <1>1, <2>1, <2>3, LockedMore DEF s
    <3>2. ASSUME NEW x \in Symbols, x # s PROVE Locked(x)' \in Nat /\ Locked(x)' <= Locked(x)
      <4>1. \A y \in Events : y.symbol = x => locked'[y] <= locked[y]
        BY <2>1, <2>3, <3>2 DEF s
      <4> QED
        BY <2>1, <3>1, <4>1, LockedLess
    <3> QED
      BY <1>0, <1>1, <2>1, <3>1, <3>2
  <2> QED
    BY <1>3, <2>2, <2>3
<1>9. cash' \in Int /\ cash' >= 0 /\ net' \in Int /\ income' \in Nat
  BY <1>0, <1>1, <1>2
<1>10. Types'
  BY <1>0, <1>2, <1>6, <1>7, <1>8, <1>9 DEF Types
<1>11. ProfitExplained'
  <2>1. Basis' = Basis - pos[s].basis + pos[s].basis /\ pos[s].basis \in Nat
    BY <1>0, <1>5, <1>6, BasisChange DEF Types, Sound
  <2>2. cash + Receivable + Basis = InitialCash + net /\ Receivable \in Nat /\ Basis \in Nat
    BY <1>0, SumsTyped DEF AccountInv, ProfitExplained
  <2>3. cash' + Receivable' + Basis' = InitialCash + net'
    BY <1>0, <1>1, <1>2, <1>7, <2>1, <2>2, AccountAssumption
  <2> QED
    BY <2>3 DEF ProfitExplained
<1>12. LockedSharesHeld'
  <2> SUFFICES ASSUME NEW x \in Symbols PROVE Locked(x)' <= pos'[x].qty
    BY DEF LockedSharesHeld
  <2>1. Locked(x) <= pos[x].qty /\ pos[x].qty \in Nat /\ Locked(x) \in Nat
    BY <1>0, SumsTyped DEF AccountInv, LockedSharesHeld, Types, PositionsSound, Sound
  <2>2. Locked(x)' \in Nat
    BY <1>8
  <2>3. CASE x = s
    BY <1>1, <1>5, <1>6, <1>8, <2>1, <2>2, <2>3
  <2>4. CASE x # s
    BY <1>6, <1>8, <2>1, <2>2, <2>4
  <2> QED
    BY <2>3, <2>4
<1> QED
  BY <1>2, <1>9, <1>10, <1>11, <1>12 DEF AccountInv, Solvent, dividend

\* What the account is left alone by.
LEMMA AccountKept == AccountInv /\ UNCHANGED account => AccountInv'
BY DEF AccountInv, Types, PositionsSound, ProfitExplained, Solvent, LockedSharesHeld,
       account, Receivable, Basis, Locked

-----------------------------------------------------------------------------
(* Orders.                                                                  *)

\* Cash covers what affordable_buy_quantity allows, the fee included.
LEMMA AffordableRule ==
  ASSUME cash \in Nat, NEW req \in Int, NEW price \in Nat \ {0}
  PROVE  /\ Affordable(req, price) \in Int
         /\ Affordable(req, price) > 0 =>
              Affordable(req, price) * price + (Affordable(req, price) * price * BuyFee) \div 100 <= cash
<1> DEFINE lots == (cash * 100) \div (price * (100 + BuyFee) * Lot)
           unit == price * (100 + BuyFee)
           want == (req \div Lot) * Lot
           A == Affordable(req, price)
<1>1. Lot \in Nat \ {0} /\ BuyFee \in Nat
  BY AccountAssumption, SessionAssumption
<1>2. unit \in Nat \ {0} /\ unit * Lot \in Nat \ {0}
  <2>1. unit \in Nat \ {0}
    BY <1>1
  <2> HIDE DEF unit
  <2> QED
    BY <1>1, <2>1
<1>3. lots \in Int /\ lots * (unit * Lot) <= cash * 100
  <2>1. cash * 100 \in Int /\ lots = (cash * 100) \div (unit * Lot)
    OBVIOUS
  <2> HIDE DEF lots, unit
  <2> QED
    BY <1>2, <2>1, DivRule
<1>4. want \in Int
  <2>1. req \div Lot \in Int
    BY <1>1, DivRule
  <2> QED
    BY <1>1, <2>1
<1>5. A = Min({want, lots * Lot})
  BY DEF Affordable
<1> HIDE DEF lots, want, unit
<1>6. lots * Lot \in Int
  BY <1>1, <1>3
<1>7. A \in Int /\ A <= lots * Lot
  BY <1>4, <1>5, <1>6, MinPair
<1> HIDE DEF A
<1>8. ASSUME A > 0 PROVE A * price + (A * price * BuyFee) \div 100 <= cash
  <2> DEFINE v == A * price
             fee == (v * BuyFee) \div 100
  <2>1. A * unit <= (lots * Lot) * unit
    BY <1>2, <1>6, <1>7, TimesMonotone
  <2>2. (lots * Lot) * unit = lots * (unit * Lot)
    BY <1>1, <1>2, <1>3
  <2>3. A * unit = v * 100 + v * BuyFee /\ v \in Int
    BY <1>1, <1>7 DEF unit
  <2>4. v * BuyFee \in Int
    BY <1>1, <2>3
  <2> DEFINE w == v * BuyFee
  <2> HIDE DEF v, w
  <2>5. fee \in Int /\ fee * 100 <= w
    BY <2>4, DivRule DEF w
  <2> HIDE DEF fee
  <2>6. v * 100 + w <= cash * 100
    <3> DEFINE a == A * unit
               b == (lots * Lot) * unit
               c == lots * (unit * Lot)
    <3>1. a \in Int /\ b \in Int /\ c \in Int
      BY <1>1, <1>2, <1>3, <1>6, <1>7
    <3>2. a <= b /\ b = c /\ c <= cash * 100 /\ a = v * 100 + w
      BY <1>3, <2>1, <2>2, <2>3 DEF w
    <3> HIDE DEF a, b, c
    <3> QED
      BY <3>1, <3>2
  <2>7. v + fee <= cash
    BY <2>3, <2>4, <2>5, <2>6 DEF w
  <2> QED
    BY <2>7 DEF v, fee
<1> QED
  BY <1>7, <1>8 DEF A

\* An order that is filled or refused.
LEMMA FillKeeps ==
  ASSUME AccountInv, market \in [Symbols -> Bars \union {NoBar}],
         NEW s \in Symbols, NEW qty \in Int, Fill(s, qty)
  PROVE  AccountInv' /\ income' = income /\ recv' = recv /\ locked' = locked
<1>1. CASE UNCHANGED account
  BY <1>1, AccountKept DEF account
<1> DEFINE price == market[s].open
           A == Affordable(qty, price)
           B == Min({-qty, Sellable(s)})
<1>2. CASE ~Refused(s, qty > 0) /\ qty > 0 /\ ~(A <= 0) /\ Buy(s, A, price)
  <2>1. price \in Nat \ {0}
    BY <1>2, BarAssumption DEF Refused
  <2>2. cash \in Nat
    BY DEF AccountInv, Types, Solvent
  <2> HIDE DEF price
  <2>3. A \in Int /\ (A > 0 => A * price + (A * price * BuyFee) \div 100 <= cash)
    BY <2>1, <2>2, AffordableRule
  <2> HIDE DEF A
  <2>4. A \in Nat \ {0} /\ A > 0
    BY <1>2, <2>3
  <2>5. AccountInv'
    BY <1>2, <2>1, <2>3, <2>4, BuyKeeps
  <2> QED
    BY <1>2, <2>5 DEF Buy
<1>3. CASE ~Refused(s, qty > 0) /\ ~(qty > 0) /\ ~(B <= 0) /\ Sell(s, B, price) /\ locked' = locked
  <2>1. price \in Nat \ {0}
    BY <1>3, BarAssumption DEF Refused
  <2>2. Locked(s) \in Nat /\ pos[s].qty \in Nat /\ Types
    BY SumsTyped DEF AccountInv, Types, PositionsSound, Sound
  <2>3. Sellable(s) = IF pos[s].qty - Locked(s) >= 0 THEN pos[s].qty - Locked(s) ELSE 0
    BY <2>2, MaxPair DEF Sellable
  <2>4. Sellable(s) \in Int
    BY <2>2, <2>3
  <2>5. B \in Int /\ B <= Sellable(s)
    BY <2>4, MinPair
  <2> HIDE DEF B, price
  <2>6. B \in 1 .. pos[s].qty /\ Locked(s) <= pos[s].qty - B
    BY <1>3, <2>2, <2>3, <2>5
  <2>7. Locked(s)' = Locked(s)
    BY <1>3 DEF Locked
  <2>8. locked' \in [Events -> Nat] /\ \A e \in Events : locked'[e] <= locked[e]
    BY <1>3, <2>2 DEF Types
  <2>9. AccountInv'
    BY <1>3, <2>1, <2>6, <2>7, <2>8, SellKeeps
  <2> QED
    BY <1>3, <2>9 DEF Sell
<1> QED
  BY <1>1, <1>2, <1>3 DEF Fill

-----------------------------------------------------------------------------
(* The run.                                                                 *)

LoopTypes ==
  /\ today \in Sessions \union {0} /\ phase \in Phases
  /\ frames \subseteq Times \union {ExitTime} /\ data \subseteq Times /\ exitDue \in BOOLEAN
  /\ time \in Times \union {ExitTime, 0} /\ first \in BOOLEAN
  /\ market \in [Symbols -> Bars \union {NoBar}]
  /\ queue \in Seq(Orders) /\ pending \in Seq(Orders)
  /\ entitled \in [Events -> Nat] /\ recordMark \in [Events -> Nat] /\ holders \in [Events -> Nat]

\* The loop takes a frame only when there is one.
FrameAhead == phase = "frame" => frames # {}

\* What has been paid so far: to the holders of each distribution that has been served.
Served == [e \in Events |-> IF e.ex <= today /\ entitled[e] = 0 THEN holders[e] * e.cash ELSE 0]

\* A distribution has its registered holders still to serve until its ex-date comes, then
\* has served them all; income is the sum of what was served.
Registered ==
  /\ \A e \in Events :
       /\ entitled[e] \in {0, holders[e]}
       /\ e.ex > today => entitled[e] = holders[e]
       /\ e.ex <= today /\ phase \notin {"settle", "distribute"} => entitled[e] = 0
  /\ income = SumFunction(Served)

RunInv == AccountInv /\ LoopTypes /\ FrameAhead /\ SettledOnTime /\ Registered

\* A new run.
LEMMA RunInit == Init => RunInv
<1> SUFFICES ASSUME Init PROVE RunInv
  OBVIOUS
<1> USE DEF Init, NewAccount
<1>1. Types
  <2>1. Sound(NoPosition)
    BY DEF Sound, NoPosition
  <2>2. PositionsSound
    BY <2>1 DEF PositionsSound
  <2> QED
    BY <2>2, AccountAssumption DEF Types
<1>2. IsFiniteSet(Symbols) /\ IsFiniteSet(Events)
  BY AccountAssumption
<1>3. Receivable = 0
  <2> DEFINE f == [e \in Events |-> 0]
  <2>1. Receivable = SumFunctionOnSet(f, Events) /\ \A e \in Events : f[e] = 0
    BY DEF Receivable, SumFunction
  <2> HIDE DEF f
  <2> QED
    BY <1>2, <2>1, SumZero
<1>4. Basis = 0
  <2> DEFINE f == [s \in Symbols |-> pos[s].basis]
  <2>1. Basis = SumFunctionOnSet(f, Symbols) /\ \A s \in Symbols : f[s] = 0
    BY DEF Basis, SumFunction, NoPosition
  <2> HIDE DEF f
  <2> QED
    BY <1>2, <2>1, SumZero
<1>5. LockedSharesHeld
  <2> SUFFICES ASSUME NEW s \in Symbols PROVE Locked(s) <= pos[s].qty
    BY DEF LockedSharesHeld
  <2> DEFINE f == [e \in Events |-> IF e.symbol = s THEN locked[e] ELSE 0]
  <2>1. Locked(s) = SumFunctionOnSet(f, Events) /\ \A e \in Events : f[e] = 0
    BY DEF Locked, SumFunction
  <2>2. pos[s].qty = 0
    BY DEF NoPosition
  <2> HIDE DEF f
  <2> QED
    BY <1>2, <2>1, <2>2, SumZero
<1>6. AccountInv
  BY <1>1, <1>3, <1>4, <1>5, AccountAssumption DEF AccountInv, ProfitExplained, Solvent
<1>7. LoopTypes
  <2>1. <<>> \in Seq(Orders) /\ "between" \in Phases
    BY DEF Phases
  <2>2. queue \in Seq(Orders) /\ pending \in Seq(Orders) /\ phase \in Phases
    BY <2>1
  <2>3. /\ today \in Sessions \union {0} /\ exitDue \in BOOLEAN /\ first \in BOOLEAN
        /\ frames \subseteq Times \union {ExitTime} /\ data \subseteq Times
        /\ time \in Times \union {ExitTime, 0}
    OBVIOUS
  <2>4. /\ market \in [Symbols -> Bars \union {NoBar}]
        /\ entitled \in [Events -> Nat] /\ recordMark \in [Events -> Nat] /\ holders \in [Events -> Nat]
    OBVIOUS
  <2> QED
    BY <2>2, <2>3, <2>4 DEF LoopTypes
<1>8. FrameAhead
  BY DEF FrameAhead
<1>9. SettledOnTime
  BY DEF SettledOnTime
<1>10. income = SumFunction(Served)
  <2> DEFINE f == Served
  <2>1. SumFunction(Served) = SumFunctionOnSet(f, Events)
    BY DEF SumFunction, Served
  <2>2. \A e \in Events : f[e] = 0
    BY EventAssumption DEF Served
  <2> HIDE DEF f
  <2> QED
    BY <1>2, <2>1, <2>2, SumZero
<1>11. Registered
  BY <1>10 DEF Registered
<1> QED
  BY <1>6, <1>7, <1>8, <1>9, <1>11 DEF RunInv

\* Every step of the run keeps the account sound.
LEMMA AccountStep == RunInv /\ [Next]_vars => AccountInv'
<1> SUFFICES ASSUME RunInv, [Next]_vars PROVE AccountInv'
  OBVIOUS
<1>0. /\ AccountInv /\ Types /\ PositionsSound /\ LoopTypes
      /\ locked \in [Events -> Nat] /\ delisted \subseteq Symbols /\ today \in Nat
  BY SessionAssumption DEF RunInv, AccountInv, Types, LoopTypes
<1>1. CASE BeginSession \/ NextFrame \/ OnSessionOpen \/ OnBarOpen \/ ExitFails \/ OnBar \/ EndSession
           \/ UNCHANGED vars
  <2>1. UNCHANGED account
    BY <1>1 DEF BeginSession, NextFrame, OnSessionOpen, OnBarOpen, ExitFails, OnBar, EndSession, vars
  <2> QED
    BY <1>0, <2>1, AccountKept
<1>2. CASE SettleCash
  BY <1>0, <1>2, PayKeeps DEF SettleCash, Payable
<1>3. CASE SettleShares
  <2>1. locked' = [e \in Events |-> IF e.listing <= today THEN 0 ELSE locked[e]]
        /\ UNCHANGED <<cash, net, income, pos, recv, delisted>>
    BY <1>3 DEF SettleShares, Unlock
  <2>2. locked' \in [Events -> Nat] /\ \A e \in Events : locked'[e] <= locked[e]
    BY <1>0, <2>1
  <2>3. PositionsSound'
    BY <1>0, <2>1 DEF PositionsSound
  <2> QED
    BY <1>0, <2>1, <2>2, <2>3, MarksKeep
<1>4. CASE Distribute
  <2>1. PICK e \in Events : Distribution(e, entitled[e], recordMark[e], today)
    BY <1>4 DEF Distribute, Due
  <2>2. entitled[e] \in Nat /\ recordMark[e] \in Nat
    BY <1>0 DEF LoopTypes
  <2> QED
    BY <1>0, <2>1, <2>2, DistributionKeeps
<1>5. CASE OpenSession
  <2>1. delisted' \subseteq Symbols /\ UNCHANGED <<cash, net, income, pos, recv, locked>>
    BY <1>0, <1>5 DEF OpenSession, Register
  <2>2. PositionsSound' /\ locked' \in [Events -> Nat] /\ \A e \in Events : locked'[e] <= locked[e]
    BY <1>0, <2>1 DEF PositionsSound
  <2> QED
    BY <1>0, <2>1, <2>2, MarksKeep
<1>6. CASE FillNext
  <2>1. Fill(Head(queue).symbol, Head(queue).qty) /\ Head(queue) \in Orders
    BY <1>0, <1>6 DEF FillNext, LoopTypes
  <2>2. Head(queue).symbol \in Symbols /\ Head(queue).qty \in Int /\ market \in [Symbols -> Bars \union {NoBar}]
    BY <1>0, <2>1, BarAssumption DEF LoopTypes
  <2> QED
    BY <1>0, <2>1, <2>2, FillKeeps
<1>7. CASE MarkPositions
  <2>1. /\ pos' = [s \in Symbols |->
             IF s \in Held /\ market[s] # NoBar
             THEN [qty |-> pos[s].qty, basis |-> pos[s].basis, mark |-> market[s].close] ELSE pos[s]]
        /\ UNCHANGED <<cash, net, income, recv, locked, delisted>>
    BY <1>7 DEF MarkPositions
  <2>2. ASSUME NEW s \in Symbols
        PROVE  Sound(pos'[s]) /\ pos'[s].qty = pos[s].qty /\ pos'[s].basis = pos[s].basis
    <3>1. Sound(pos[s])
      BY <1>0 DEF PositionsSound
    <3>2. CASE s \in Held /\ market[s] # NoBar
      <4>1. pos'[s] = [qty |-> pos[s].qty, basis |-> pos[s].basis, mark |-> market[s].close] /\ pos[s].qty > 0
        BY <2>1, <3>2 DEF Held
      <4>2. market[s].close \in Nat
        BY <1>0, <3>2, BarAssumption DEF LoopTypes
      <4> QED
        BY <3>1, <4>1, <4>2 DEF Sound
    <3>3. CASE ~(s \in Held /\ market[s] # NoBar)
      BY <2>1, <3>1, <3>3
    <3> QED
      BY <3>2, <3>3
  <2>3. PositionsSound'
    BY <2>1, <2>2 DEF PositionsSound, Sound
  <2>4. locked' \in [Events -> Nat] /\ delisted' \subseteq Symbols /\ \A e \in Events : locked'[e] <= locked[e]
    BY <1>0, <2>1
  <2> QED
    BY <1>0, <2>1, <2>2, <2>3, <2>4, MarksKeep
<1>8. CASE FillExit
  <2>1. PICK s \in DelistedHeld : /\ Sell(s, pos[s].qty, pos[s].mark)
                                  /\ locked' = [e \in Events |-> IF e.symbol = s THEN 0 ELSE locked[e]]
    BY <1>8 DEF FillExit
  <2>2. s \in Symbols /\ pos[s].qty > 0 /\ pos[s].qty \in Nat /\ pos[s].mark \in Nat
    BY <1>0 DEF DelistedHeld, PositionsSound, Sound
  <2>3. locked' \in [Events -> Nat] /\ \A e \in Events : locked'[e] <= locked[e]
    BY <1>0, <2>1
  <2>4. Locked(s)' = 0
    <3> DEFINE f == [e \in Events |-> IF e.symbol = s THEN locked'[e] ELSE 0]
    <3>1. Locked(s)' = SumFunctionOnSet(f, Events)
      BY DEF Locked, SumFunction
    <3>2. \A e \in Events : f[e] = 0
      BY <2>1
    <3>3. IsFiniteSet(Events)
      BY AccountAssumption
    <3> HIDE DEF f
    <3> QED
      BY <3>1, <3>2, <3>3, SumZero
  <2> DEFINE q == pos[s].qty
  <2>5. q \in 1 .. pos[s].qty /\ Locked(s)' <= pos[s].qty - q /\ Sell(s, q, pos[s].mark)
    BY <2>1, <2>2, <2>4
  <2> HIDE DEF q
  <2> QED
    BY <1>0, <2>2, <2>3, <2>5, SellKeeps
<1> QED
  BY <1>1, <1>2, <1>3, <1>4, <1>5, <1>6, <1>7, <1>8 DEF Next

\* The variables of the loop keep their types.
LEMMA LoopStep == RunInv /\ [Next]_vars => LoopTypes' /\ FrameAhead'
<1> SUFFICES ASSUME RunInv, [Next]_vars PROVE LoopTypes' /\ FrameAhead'
  OBVIOUS
<1>0. LoopTypes /\ FrameAhead /\ PositionsSound
  BY DEF RunInv, AccountInv, Types
<1> USE DEF LoopTypes, FrameAhead, Phases
<1>1. CASE BeginSession
  <2> DEFINE D == {d \in Sessions : d > today}
  <2>1. D \subseteq Nat /\ D # {} /\ today' = Min(D)
    BY <1>1, SessionAssumption DEF BeginSession
  <2>2. PICK n \in D : \A m \in D : n <= m
    BY <2>1, LeastNatural
  <2>3. today' \in D
    BY <2>1, <2>2 DEF Min
  <2>4. today' \in Sessions
    BY <2>3
  <2> QED
    BY <1>0, <1>1, <2>4 DEF BeginSession, session, frame, book
<1>2. CASE SettleCash \/ SettleShares \/ MarkPositions \/ FillExit \/ ExitFails
  BY <1>0, <1>2 DEF SettleCash, SettleShares, MarkPositions, FillExit, ExitFails, session, frame, book
<1>3. CASE Distribute
  <2>1. PICK e \in Due : entitled' = [entitled EXCEPT ![e] = 0]
    BY <1>3 DEF Distribute
  <2>2. entitled' \in [Events -> Nat]
    BY <1>0, <2>1
  <2> QED
    BY <1>0, <1>3, <2>2 DEF Distribute, session, frame, book
<1>4. CASE OpenSession
  <2>1. /\ data' \subseteq Times /\ frames' \subseteq Times \union {ExitTime} /\ exitDue' \in BOOLEAN /\ first' \in BOOLEAN
        /\ phase' = IF frames' = {} THEN "closing" ELSE "frame"
    BY <1>4 DEF OpenSession
  <2> QED
    BY <1>0, <1>4, <2>1 DEF OpenSession, book
<1>5. CASE NextFrame
  <2>1. frames \subseteq Nat /\ frames # {} /\ time' = Min(frames)
    BY <1>0, <1>5, SessionAssumption DEF NextFrame
  <2>2. PICK n \in frames : \A m \in frames : n <= m
    BY <2>1, LeastNatural
  <2>3. time' \in frames
    BY <2>1, <2>2 DEF Min
  <2>4. market' \in [Symbols -> Bars \union {NoBar}]
    BY <1>5 DEF NextFrame
  <2>5. queue' \in Seq(Orders) /\ pending' \in Seq(Orders)
    BY <1>0, <1>5 DEF NextFrame
  <2> QED
    BY <1>0, <1>5, <2>3, <2>4, <2>5 DEF NextFrame, book
<1>6. CASE FillNext
  <2>1. queue' \in Seq(Orders)
    BY <1>0, <1>6 DEF FillNext
  <2> QED
    BY <1>0, <1>6, <2>1 DEF FillNext, session, frame, book
<1>7. ASSUME NEW hook PROVE Ordered(hook) \subseteq Seq(Orders)
  <2>1. <<>> \in Seq(Orders)
    OBVIOUS
  <2>2. \A n \in Nat : [1 .. n -> Orders] \subseteq Seq(Orders)
    OBVIOUS
  <2>3. 0 .. MaxOrders \subseteq Nat
    OBVIOUS
  <2> QED
    BY <2>1, <2>2, <2>3 DEF Ordered
<1>8. CASE OnSessionOpen \/ OnBarOpen
  <2>1. queue' \in Seq(Orders)
    BY <1>7, <1>8 DEF OnSessionOpen, OnBarOpen
  <2> QED
    BY <1>0, <1>8, <2>1 DEF OnSessionOpen, OnBarOpen, session, frame, book
<1>9. CASE OnBar
  <2>1. pending' \in Seq(Orders)
    BY <1>7, <1>9 DEF OnBar
  <2> QED
    BY <1>0, <1>9, <2>1 DEF OnBar, session, book
<1>10. CASE EndSession
  <2>1. \A e \in Events : pos[e.symbol].qty \in Nat /\ pos[e.symbol].mark \in Nat
    BY <1>0, EventAssumption DEF PositionsSound, Sound
  <2>2. entitled' \in [Events -> Nat] /\ recordMark' \in [Events -> Nat] /\ holders' \in [Events -> Nat]
    BY <1>0, <1>10, <2>1 DEF EndSession
  <2> QED
    BY <1>0, <1>10, <2>2 DEF EndSession, session, frame
<1>11. CASE UNCHANGED vars
  BY <1>0, <1>11 DEF vars, session, frame, book
<1> QED
  BY <1>1, <1>2, <1>3, <1>4, <1>5, <1>6, <1>8, <1>9, <1>10, <1>11 DEF Next

\* What has come due is settled before the session goes on.
LEMMA SettledStep == RunInv /\ [Next]_vars => SettledOnTime'
<1> SUFFICES ASSUME RunInv, [Next]_vars, phase' # "settle", NEW e \in Events
             PROVE  (e.pay <= today' => recv'[e] = 0) /\ (e.listing <= today' => locked'[e] = 0)
  BY DEF SettledOnTime
<1>0. /\ AccountInv /\ recv \in [Events -> Nat] /\ locked \in [Events -> Nat]
      /\ market \in [Symbols -> Bars \union {NoBar}] /\ queue \in Seq(Orders)
      /\ phase # "settle" => (e.pay <= today => recv[e] = 0) /\ (e.listing <= today => locked[e] = 0)
  BY DEF RunInv, AccountInv, Types, LoopTypes, SettledOnTime
<1>1. CASE BeginSession \/ SettleCash
  BY <1>1 DEF BeginSession, SettleCash
<1>2. CASE SettleShares
  <2>1. phase = "settle" /\ Payable(today) = {} /\ recv' = recv /\ today' = today
        /\ locked' = [x \in Events |-> IF x.listing <= today THEN 0 ELSE locked[x]]
    BY <1>2 DEF SettleShares, Unlock
  <2>2. e.pay <= today => ~(recv[e] > 0)
    BY <2>1 DEF Payable
  <2> QED
    BY <1>0, <2>1, <2>2
<1>3. CASE Distribute
  <2>1. phase = "distribute" /\ today' = today
    BY <1>3 DEF Distribute
  <2>2. PICK d \in Events : Distribution(d, entitled[d], recordMark[d], today)
    BY <1>3 DEF Distribute, Due
  <2> DEFINE dividend == entitled[d] * d.cash
             paid == IF d.pay <= today THEN dividend ELSE 0
  <2>3. dividend \in Nat
    BY EventAssumption DEF RunInv, LoopTypes
  <2>4. recv' = [recv EXCEPT ![d] = recv[d] + dividend - paid]
    BY <2>2 DEF Distribution
  <2>5. \/ locked' = locked
        \/ d.listing > today /\ \E n : locked' = [locked EXCEPT ![d] = n]
    BY <2>2 DEF Distribution
  <2> HIDE DEF dividend
  <2>6. e.pay <= today => recv'[e] = 0
    <3>1. CASE e # d
      <4>1. recv'[e] = recv[e]
        BY <1>0, <2>4, <3>1
      <4> QED
        BY <1>0, <2>1, <4>1
    <3>2. CASE e = d
      <4>1. recv'[d] = recv[d] + dividend - paid
        BY <1>0, <2>4
      <4> QED
        BY <1>0, <2>1, <2>3, <3>2, <4>1
    <3> QED
      BY <3>1, <3>2
  <2>7. e.listing <= today => locked'[e] = 0
    <3>1. CASE locked' = locked
      BY <1>0, <2>1, <3>1
    <3>2. CASE d.listing > today /\ \E n : locked' = [locked EXCEPT ![d] = n]
      <4>1. e = d \/ locked'[e] = locked[e]
        BY <1>0, <3>2
      <4>2. e.listing \in Nat /\ d.listing \in Nat /\ today \in Nat
        BY EventAssumption, SessionAssumption DEF RunInv, LoopTypes
      <4> QED
        BY <1>0, <2>1, <3>2, <4>1, <4>2
    <3> QED
      BY <2>5, <3>1, <3>2
  <2> QED
    BY <2>1, <2>6, <2>7
<1>4. CASE FillNext
  <2>1. Fill(Head(queue).symbol, Head(queue).qty) /\ Head(queue) \in Orders /\ phase # "settle" /\ today' = today
    BY <1>0, <1>4 DEF FillNext
  <2>2. Head(queue).symbol \in Symbols /\ Head(queue).qty \in Int
    BY <2>1, BarAssumption
  <2>3. recv' = recv /\ locked' = locked
    BY <1>0, <2>1, <2>2, FillKeeps
  <2> QED
    BY <1>0, <2>1, <2>3
<1>5. CASE FillExit
  <2>1. PICK s : Sell(s, pos[s].qty, pos[s].mark) /\ locked' = [x \in Events |-> IF x.symbol = s THEN 0 ELSE locked[x]]
    BY <1>5 DEF FillExit
  <2>2. recv' = recv /\ today' = today /\ phase = "exits" /\ (locked'[e] = 0 \/ locked'[e] = locked[e])
    BY <1>5, <2>1 DEF FillExit, Sell
  <2> QED
    BY <1>0, <2>2
<1>6. CASE OpenSession \/ NextFrame \/ OnSessionOpen \/ OnBarOpen \/ MarkPositions \/ ExitFails \/ OnBar
           \/ EndSession \/ UNCHANGED vars
  <2>1. recv' = recv /\ locked' = locked /\ today' = today /\ (phase # "settle" \/ phase' = phase)
    BY <1>6 DEF OpenSession, Register, NextFrame, OnSessionOpen, OnBarOpen, MarkPositions, ExitFails, OnBar,
                EndSession, vars, account
  <2> QED
    BY <1>0, <2>1
<1> QED
  BY <1>1, <1>2, <1>3, <1>4, <1>5, <1>6 DEF Next

-----------------------------------------------------------------------------
(* Dividends.                                                               *)

\* Serving a distribution adds what its holders get.
LEMMA ServedMore ==
  ASSUME RunInv, NEW d \in Events, d.ex <= today, entitled[d] > 0, today' = today, holders' = holders,
         entitled' = [entitled EXCEPT ![d] = 0]
  PROVE  SumFunction(Served)' = SumFunction(Served) + entitled[d] * d.cash
<1> DEFINE f == Served
           g == [e \in Events |-> IF e.ex <= today /\ entitled'[e] = 0 THEN holders[e] * e.cash ELSE 0]
<1>0. /\ entitled \in [Events -> Nat] /\ holders \in [Events -> Nat]
      /\ \A e \in Events : e.cash \in Nat
      /\ entitled[d] = holders[d]
  BY EventAssumption DEF RunInv, LoopTypes, Registered
<1>1. SumFunction(Served) = SumFunctionOnSet(f, Events) /\ Served' = g /\ DOMAIN g = Events
  BY DEF SumFunction, Served
<1>2. SumFunction(Served)' = SumFunctionOnSet(g, Events)
  BY <1>1 DEF SumFunction
<1>3. \A e \in Events : holders[e] * e.cash \in Nat
  BY <1>0
<1>4. \A e \in Events : f[e] \in Int /\ g[e] \in Int
  BY <1>3 DEF Served
<1>5. \A e \in Events : e # d => f[e] = g[e]
  BY <1>0 DEF Served
<1>6. f[d] = 0 /\ g[d] = entitled[d] * d.cash
  BY <1>0 DEF Served
<1>7. IsFiniteSet(Events)
  BY AccountAssumption
<1> HIDE DEF f, g
<1>8. SumFunctionOnSet(g, Events) = SumFunctionOnSet(f, Events) - f[d] + g[d]
  BY <1>4, <1>5, <1>7, SumChange
<1>9. SumFunctionOnSet(f, Events) \in Int /\ g[d] \in Int
  BY <1>4, <1>7, SumType
<1> QED
  BY <1>1, <1>2, <1>6, <1>8, <1>9

\* Registration, the ex-date and serving a distribution, each in its session.
LEMMA RegisteredStep == RunInv /\ [Next]_vars => Registered'
<1> SUFFICES ASSUME RunInv, [Next]_vars PROVE Registered'
  OBVIOUS
<1>0. /\ AccountInv /\ Registered /\ today \in Nat /\ income \in Nat
      /\ market \in [Symbols -> Bars \union {NoBar}] /\ queue \in Seq(Orders)
      /\ entitled \in [Events -> Nat] /\ holders \in [Events -> Nat]
  BY SessionAssumption DEF RunInv, AccountInv, Types, LoopTypes
<1>1. \A e \in Events : e.ex \in Nat /\ e.cash \in Nat /\ e.record \in Nat /\ e.record < e.ex
  BY EventAssumption
<1>2. CASE BeginSession
  <2>1. /\ phase = "between" /\ phase' = "settle" /\ UNCHANGED <<income, book>>
        /\ today' \in Nat /\ today' > today
    <3> DEFINE D == {d \in Sessions : d > today}
    <3>1. D \subseteq Nat /\ D # {} /\ today' = Min(D)
      BY <1>2, SessionAssumption DEF BeginSession
    <3>2. PICK n \in D : \A m \in D : n <= m
      BY <3>1, LeastNatural
    <3>3. today' \in D
      BY <3>1, <3>2 DEF Min
    <3> QED
      BY <1>2, <3>1, <3>3 DEF BeginSession, account
  <2>2. ASSUME NEW e \in Events
        PROVE  /\ entitled'[e] \in {0, holders'[e]}
               /\ e.ex > today' => entitled'[e] = holders'[e]
    BY <1>0, <1>1, <2>1 DEF Registered, book
  <2>3. Served' = Served
    <3> SUFFICES ASSUME NEW e \in Events
                 PROVE  (IF e.ex <= today' /\ entitled[e] = 0 THEN holders[e] * e.cash ELSE 0)
                          = IF e.ex <= today /\ entitled[e] = 0 THEN holders[e] * e.cash ELSE 0
      BY <2>1 DEF Served, book
    <3>1. e.ex <= today' /\ ~(e.ex <= today) /\ entitled[e] = 0 => holders[e] = 0
      BY <1>0, <1>1, <2>1 DEF Registered
    <3>2. holders[e] = 0 => holders[e] * e.cash = 0
      BY <1>1
    <3>3. e.ex <= today => e.ex <= today'
      BY <1>0, <1>1, <2>1
    <3> QED
      BY <3>1, <3>2, <3>3
  <2> QED
    BY <1>0, <2>1, <2>2, <2>3 DEF Registered
<1>3. CASE Distribute
  <2>1. PICK d \in Due : /\ Distribution(d, entitled[d], recordMark[d], today)
                         /\ entitled' = [entitled EXCEPT ![d] = 0]
    BY <1>3 DEF Distribute
  <2>2. d \in Events /\ entitled[d] > 0 /\ d.ex <= today /\ today' = today /\ holders' = holders /\ phase' = "distribute"
    BY <1>3, <2>1 DEF Distribute, Due, book
  <2>3. income' = income + entitled[d] * d.cash
    BY <2>1 DEF Distribution
  <2>4. SumFunction(Served)' = SumFunction(Served) + entitled[d] * d.cash
    BY <2>1, <2>2, ServedMore
  <2>5. ASSUME NEW e \in Events
        PROVE  /\ entitled'[e] \in {0, holders'[e]}
               /\ e.ex > today' => entitled'[e] = holders'[e]
    BY <1>0, <1>1, <2>1, <2>2 DEF Registered
  <2> QED
    BY <1>0, <2>2, <2>3, <2>4, <2>5 DEF Registered
<1>4. CASE EndSession
  <2>1. /\ phase = "closing" /\ today' = today /\ income' = income
        /\ \A e \in Events : e.record # today => entitled'[e] = entitled[e] /\ holders'[e] = holders[e]
        /\ \A e \in Events : e.record = today => entitled'[e] = holders'[e]
    BY <1>4 DEF EndSession, account
  <2>2. ASSUME NEW e \in Events
        PROVE  /\ entitled'[e] \in {0, holders'[e]}
               /\ e.ex > today' => entitled'[e] = holders'[e]
               /\ e.ex <= today' => entitled'[e] = 0
    BY <1>0, <1>1, <2>1 DEF Registered
  <2>3. Served' = Served
    <3> SUFFICES ASSUME NEW e \in Events
                 PROVE  (IF e.ex <= today /\ entitled'[e] = 0 THEN holders'[e] * e.cash ELSE 0)
                          = IF e.ex <= today /\ entitled[e] = 0 THEN holders[e] * e.cash ELSE 0
      BY <2>1 DEF Served
    <3>1. CASE e.record = today
      <4>1. ~(e.ex <= today)
        BY <1>0, <1>1, <3>1
      <4> QED
        BY <4>1
    <3>2. CASE e.record # today
      <4>1. entitled'[e] = entitled[e] /\ holders'[e] = holders[e]
        BY <2>1, <3>2
      <4> QED
        BY <4>1
    <3> QED
      BY <3>1, <3>2
  <2> QED
    BY <1>0, <2>1, <2>2, <2>3 DEF Registered
<1>5. ASSUME UNCHANGED <<today, income, entitled, holders>>,
             phase' \notin {"settle", "distribute"} =>
               phase \notin {"settle", "distribute"} \/ Due = {}
      PROVE  Registered'
  <2>1. Served' = Served
    BY <1>5 DEF Served
  <2>2. ASSUME NEW e \in Events, e.ex <= today, phase' \notin {"settle", "distribute"}
        PROVE  entitled[e] = 0
    <3>1. CASE phase \notin {"settle", "distribute"}
      BY <1>0, <2>2, <3>1 DEF Registered
    <3>2. CASE Due = {}
      BY <1>0, <2>2, <3>2 DEF Due
    <3> QED
      BY <1>5, <2>2, <3>1, <3>2
  <2> QED
    BY <1>0, <1>5, <2>1, <2>2 DEF Registered
<1>6. CASE FillNext
  <2>1. Fill(Head(queue).symbol, Head(queue).qty) /\ Head(queue) \in Orders
        /\ phase' = phase /\ UNCHANGED <<today, entitled, holders>>
    BY <1>0, <1>6 DEF FillNext, book
  <2>2. Head(queue).symbol \in Symbols /\ Head(queue).qty \in Int
    BY <2>1, BarAssumption
  <2>3. income' = income
    BY <1>0, <2>1, <2>2, FillKeeps
  <2> QED
    BY <1>5, <2>1, <2>3
<1>7. CASE SettleCash \/ SettleShares \/ FillExit \/ MarkPositions
  BY <1>5, <1>7 DEF SettleCash, Pay, SettleShares, Unlock, FillExit, Sell, MarkPositions, book
<1>8. CASE OpenSession \/ NextFrame \/ OnSessionOpen \/ OnBarOpen \/ ExitFails \/ OnBar \/ UNCHANGED vars
  BY <1>5, <1>8 DEF OpenSession, Register, NextFrame, OnSessionOpen, OnBarOpen, ExitFails, OnBar, vars, account, book
<1> QED
  BY <1>2, <1>3, <1>4, <1>6, <1>7, <1>8 DEF Next

\* The whole invariant is inductive.
LEMMA RunStep == RunInv /\ [Next]_vars => RunInv'
<1>1. RunInv' <=> AccountInv' /\ LoopTypes' /\ FrameAhead' /\ SettledOnTime' /\ Registered'
  BY DEF RunInv
<1> QED
  BY <1>1, AccountStep, LoopStep, SettledStep, RegisteredStep

-----------------------------------------------------------------------------
(* What holds of every run: of every strategy, whatever it orders and when, *)
(* every market and every set of distributions.                             *)

\* The account holds no short position and owes no shares, and the loop stands where it can.
THEOREM WellTyped == Spec => []TypeOK
<1>1. RunInv => TypeOK
  BY TypesStated DEF RunInv, AccountInv, LoopTypes, TypeOK
<1> QED
  BY <1>1, RunInit, RunStep, PTL DEF Spec

\* Cash, receivables and the cost of what is held are the initial cash plus the realized
\* result, through any purchases, sales, exits, dividends, bonuses and payments.
THEOREM ProfitsExplained == Spec => []ProfitExplained
<1>1. RunInv => ProfitExplained
  BY DEF RunInv, AccountInv
<1> QED
  BY <1>1, RunInit, RunStep, PTL DEF Spec

\* No order overdraws the account, at any price, lot and fee.
THEOREM NeverOverdrawn == Spec => []Solvent
<1>1. RunInv => Solvent
  BY DEF RunInv, AccountInv
<1> QED
  BY <1>1, RunInit, RunStep, PTL DEF Spec

\* Bonus shares that are not listed yet have not been sold.
THEOREM LockedSharesStay == Spec => []LockedSharesHeld
<1>1. RunInv => LockedSharesHeld
  BY DEF RunInv, AccountInv
<1> QED
  BY <1>1, RunInit, RunStep, PTL DEF Spec

\* Once a session has settled, nothing that was due by its date is left.
THEOREM EntitlementsSettled == Spec => []SettledOnTime
<1>1. RunInv => SettledOnTime
  BY DEF RunInv
<1> QED
  BY <1>1, RunInit, RunStep, PTL DEF Spec

\* Dividends go to the holders of the record date, once, and to nobody else.
THEOREM DividendsReachHolders == Spec => []HoldersPaid
<1>1. RunInv => HoldersPaid
  <2> SUFFICES ASSUME RunInv, phase \notin {"settle", "distribute"}
               PROVE  income = SumFunction([e \in Events |-> IF e.ex <= today THEN holders[e] * e.cash ELSE 0])
    BY DEF HoldersPaid
  <2>1. Registered
    BY DEF RunInv
  <2>2. Served = [e \in Events |-> IF e.ex <= today THEN holders[e] * e.cash ELSE 0]
    BY <2>1 DEF Served, Registered
  <2> QED
    BY <2>1, <2>2 DEF Registered
<1> QED
  BY <1>1, RunInit, RunStep, PTL DEF Spec
=============================================================================
