------------------------- MODULE FutureAccountProofs -------------------------
(***************************************************************************)
(* TLAPS proofs about FutureAccount, for every set of contracts, every      *)
(* multiplier, fee, margin ratio and cap, and any bars and orders.          *)
(***************************************************************************)
EXTENDS FutureAccount, NumberLemmas

Sides == {1, -1}

\* A position is a record; its cost has the sign of its quantity.
Sound(p) ==
  /\ p = [qty |-> p.qty, cost |-> p.cost, mark |-> p.mark]
  /\ p.qty \in Int /\ p.cost \in Int /\ p.mark \in Int
  /\ p.qty >= 0 => p.cost >= 0
  /\ p.qty <= 0 => p.cost <= 0

PositionsSound ==
  /\ pos = [s \in Symbols |-> pos[s]]
  /\ \A s \in Symbols : Sound(pos[s])

\* The order being filled is one of a contract that trades; what the closing segment
\* leaves of it finds no position of the other side.
OrderFits ==
  /\ market \in [Symbols -> Bars \union {NoBar}]
  /\ stage \in {"close", "extend"} =>
       /\ order = [symbol |-> order.symbol, sign |-> order.sign, left |-> order.left]
       /\ order.symbol \in Symbols /\ order.sign \in Sides /\ order.left \in Nat
       /\ market[order.symbol] \in Bars
  /\ stage = "extend" => order.left = 0 \/ pos[order.symbol].qty * order.sign >= 0

BookInv == cash \in Int /\ flow \in Int /\ PositionsSound /\ OrderFits /\ ProfitIsFlow

\* The cost of what is open.
OpenCost == SumFunction([s \in Symbols |-> Cost(s)])

LEMMA CostType ==
  ASSUME PositionsSound
  PROVE  OpenCost \in Int /\ \A s \in Symbols : Cost(s) \in Int
<1>1. \A s \in Symbols : Cost(s) \in Int
  BY FutureAssumption DEF PositionsSound, Sound, Cost
<1> DEFINE f == [s \in Symbols |-> Cost(s)]
<1>2. OpenCost = SumFunctionOnSet(f, Symbols)
  BY DEF OpenCost, SumFunction
<1>3. \A s \in Symbols : f[s] \in Int
  BY <1>1
<1> HIDE DEF f
<1>4. SumFunctionOnSet(f, Symbols) \in Int
  BY <1>3, FutureAssumption, SumType
<1> QED
  BY <1>1, <1>2, <1>4

\* A trade of contract s changes the cost of s alone.
LEMMA CostChange ==
  ASSUME PositionsSound, PositionsSound', NEW s \in Symbols,
         \A x \in Symbols : x # s => pos'[x] = pos[x]
  PROVE  OpenCost' = OpenCost - Multiplier[s] * pos[s].cost + Multiplier[s] * pos'[s].cost
<1> DEFINE f == [x \in Symbols |-> Cost(x)]
           g == [x \in Symbols |-> Cost(x)']
<1>1. OpenCost = SumFunctionOnSet(f, Symbols) /\ OpenCost' = SumFunctionOnSet(g, Symbols)
  BY DEF OpenCost, SumFunction
<1>2. \A x \in Symbols : f[x] \in Int /\ g[x] \in Int
  BY FutureAssumption DEF PositionsSound, Sound, Cost
<1>3. \A x \in Symbols : x # s => f[x] = g[x]
  BY DEF Cost
<1>4. f[s] = Multiplier[s] * pos[s].cost /\ g[s] = Multiplier[s] * pos'[s].cost
  BY DEF Cost
<1> HIDE DEF f, g
<1>5. SumFunctionOnSet(g, Symbols) = SumFunctionOnSet(f, Symbols) - f[s] + g[s]
  <2>1. IsFiniteSet(Symbols)
    BY FutureAssumption
  <2> QED
    BY <1>2, <1>3, <2>1, SumChange
<1> QED
  BY <1>1, <1>4, <1>5

\* The positions after contract s got the sound position p.
LEMMA PositionReplaced ==
  ASSUME PositionsSound, NEW s \in Symbols, NEW p, Sound(p), pos' = [pos EXCEPT ![s] = p]
  PROVE  PositionsSound' /\ pos'[s] = p /\ \A x \in Symbols : x # s => pos'[x] = pos[x]
<1>1. pos'[s] = p /\ \A x \in Symbols : x # s => pos'[x] = pos[x]
  BY DEF PositionsSound
<1>2. pos' = [x \in Symbols |-> pos'[x]]
  BY DEF PositionsSound
<1>3. \A x \in Symbols : Sound(pos'[x])
  BY <1>1 DEF PositionsSound
<1> QED
  BY <1>1, <1>2, <1>3 DEF PositionsSound, Sound

LEMMA FeesType ==
  ASSUME NEW s \in Symbols, NEW q \in Nat, NEW price \in Nat
  PROVE  Fees(s, q, price) \in Int
<1>1. q * price * Multiplier[s] * Fee \in Int
  BY FutureAssumption
<1> QED
  BY <1>1, DivRule DEF Fees

-----------------------------------------------------------------------------
(* The two segments of an order.                                            *)

LEMMA ExtendBook ==
  ASSUME cash \in Int, flow \in Int, PositionsSound, ProfitIsFlow,
         NEW s \in Symbols, NEW q \in Nat, NEW price \in Nat, order.sign \in Sides,
         pos[s].qty * order.sign >= 0, Extend(s, q, price)
  PROVE  cash' \in Int /\ flow' \in Int /\ PositionsSound' /\ ProfitIsFlow'
<1> DEFINE fee == Fees(s, q, price)
           worth == order.sign * q * price
           p == [qty |-> pos[s].qty + order.sign * q, cost |-> pos[s].cost + worth, mark |-> price]
<1>0. fee \in Int /\ Multiplier[s] \in Nat
  BY FeesType, FutureAssumption
<1>1. q * price \in Nat /\ Sound(pos[s])
  BY DEF PositionsSound
<1>2. order.sign = 1 \/ order.sign = -1
  BY DEF Sides
<1>3. worth = order.sign * (q * price) /\ worth \in Int
  BY <1>1, <1>2
<1>4. Sound(p)
  <2>1. p.qty = pos[s].qty + order.sign * q /\ p.cost = pos[s].cost + worth /\ p.mark = price
    OBVIOUS
  <2>2. CASE order.sign = 1
    BY <1>1, <1>3, <2>1, <2>2 DEF Sound
  <2>3. CASE order.sign = -1
    BY <1>1, <1>3, <2>1, <2>3 DEF Sound
  <2> QED
    BY <1>2, <2>2, <2>3
<1>5. /\ cash' = cash - fee
      /\ flow' = flow + worth * Multiplier[s] + fee
      /\ pos' = [pos EXCEPT ![s] = p]
  BY DEF Extend
<1>6. PositionsSound' /\ pos'[s] = p /\ \A x \in Symbols : x # s => pos'[x] = pos[x]
  <2> HIDE DEF p
  <2> QED
    BY <1>4, <1>5, PositionReplaced
<1>7. OpenCost' = OpenCost - Multiplier[s] * pos[s].cost + Multiplier[s] * (pos[s].cost + worth)
  BY <1>6, CostChange
<1>8. OpenCost' = OpenCost + worth * Multiplier[s]
  <2> HIDE DEF worth
  <2> QED
    BY <1>0, <1>1, <1>3, <1>7, CostType DEF Sound
<1>9. cash' \in Int /\ flow' \in Int
  <2> HIDE DEF worth, fee
  <2> QED
    BY <1>0, <1>3, <1>5
<1>10. cash = InitialCash - flow + OpenCost
  BY DEF ProfitIsFlow, OpenCost
<1>11. cash' = InitialCash - flow' + OpenCost'
  <2> HIDE DEF worth, fee
  <2>1. worth * Multiplier[s] \in Int /\ OpenCost \in Int
    BY <1>0, <1>3, CostType
  <2> QED
    BY <1>0, <1>5, <1>8, <1>10, <2>1, FutureAssumption
<1> QED
  BY <1>6, <1>9, <1>11 DEF ProfitIsFlow, OpenCost

\* Closing q contracts of the other side realizes the share of the cost that they carry.
LEMMA ReduceBook ==
  ASSUME cash \in Int, flow \in Int, PositionsSound, ProfitIsFlow,
         NEW s \in Symbols, NEW q \in Nat, NEW price \in Nat, order.sign \in Sides,
         pos[s].qty * order.sign < 0, q <= Size(pos[s].qty), Reduce(s, q, price)
  PROVE  /\ cash' \in Int /\ flow' \in Int /\ PositionsSound' /\ ProfitIsFlow'
         /\ q = Size(pos[s].qty) => pos'[s].qty = 0
<1> DEFINE fee == Fees(s, q, price)
           carried == (Size(pos[s].cost) * q) \div Size(pos[s].qty)
           cost == -order.sign * carried
           paid == -order.sign * q * price
           realized == Multiplier[s] * (paid - cost)
           rest == [qty |-> pos[s].qty + order.sign * q, cost |-> pos[s].cost - cost, mark |-> price]
           p == IF Size(pos[s].qty) = q THEN Flat ELSE rest
<1>0. fee \in Int /\ Multiplier[s] \in Nat
  BY FeesType, FutureAssumption
<1>1. q * price \in Nat /\ Sound(pos[s])
  BY DEF PositionsSound
<1>2. order.sign = 1 \/ order.sign = -1
  BY DEF Sides
<1>3. paid = -order.sign * (q * price) /\ paid \in Int
  BY <1>1, <1>2
<1>4. /\ Size(pos[s].qty) \in Nat \ {0} /\ q \in 0 .. Size(pos[s].qty) /\ Size(pos[s].cost) \in Nat
      /\ pos[s].cost = -order.sign * Size(pos[s].cost)
      /\ pos[s].qty = -order.sign * Size(pos[s].qty)
  BY <1>1, <1>2 DEF Size, Sound
<1>5. carried \in 0 .. Size(pos[s].cost) /\ (q = Size(pos[s].qty) => carried = Size(pos[s].cost))
  BY <1>4, Share
<1> HIDE DEF carried
<1>6. cost \in Int /\ (q = Size(pos[s].qty) => cost = pos[s].cost)
  BY <1>2, <1>4, <1>5
<1>7. Sound(rest)
  <2>1. /\ rest.qty = pos[s].qty + order.sign * q /\ rest.cost = pos[s].cost - cost /\ rest.mark = price
        /\ rest = [qty |-> rest.qty, cost |-> rest.cost, mark |-> rest.mark]
    OBVIOUS
  <2>2. rest.qty = -order.sign * (Size(pos[s].qty) - q) /\ rest.cost = -order.sign * (Size(pos[s].cost) - carried)
    <3> DEFINE Q == Size(pos[s].qty)
               C == Size(pos[s].cost)
    <3>1. Q \in Nat /\ C \in Nat /\ carried \in Int
      BY <1>4, <1>5
    <3>2. rest.qty = (-order.sign * Q) + order.sign * q /\ rest.cost = (-order.sign * C) - (-order.sign * carried)
      BY <1>4, <2>1
    <3> HIDE DEF Q, C, rest
    <3> QED
      BY <1>2, <3>1, <3>2 DEF Q, C
  <2>3. /\ Size(pos[s].qty) - q \in Nat /\ Size(pos[s].cost) - carried \in Nat
        /\ q = Size(pos[s].qty) => Size(pos[s].cost) - carried = 0
    BY <1>4, <1>5
  <2> DEFINE x == Size(pos[s].qty) - q
             y == Size(pos[s].cost) - carried
  <2>4. /\ rest.qty = -order.sign * x /\ rest.cost = -order.sign * y /\ x \in Nat /\ y \in Nat
        /\ x = 0 => y = 0
    BY <1>4, <2>2, <2>3
  <2> HIDE DEF x, y, rest
  <2>5. rest.qty \in Int /\ rest.cost \in Int /\ rest.mark \in Int
    BY <1>2, <2>1, <2>4
  <2>6. (rest.qty >= 0 => rest.cost >= 0) /\ (rest.qty <= 0 => rest.cost <= 0)
    BY <1>2, <2>4
  <2> QED
    BY <2>1, <2>5, <2>6 DEF Sound
<1>8. Sound(p) /\ Multiplier[s] * p.cost = Multiplier[s] * pos[s].cost - Multiplier[s] * cost
      /\ (q = Size(pos[s].qty) => p.qty = 0)
  <2>1. CASE Size(pos[s].qty) = q
    <3>1. p = Flat /\ Flat.cost = 0 /\ Flat.qty = 0
      BY <2>1 DEF Flat
    <3>2. Sound(Flat)
      BY DEF Flat, Sound
    <3> HIDE DEF p, cost
    <3> QED
      BY <1>0, <1>1, <1>6, <2>1, <3>1, <3>2 DEF Sound
  <2>2. CASE Size(pos[s].qty) # q
    <3>1. p = rest /\ p.cost = pos[s].cost - cost
      BY <2>2
    <3> HIDE DEF p, cost, rest
    <3> QED
      BY <1>0, <1>1, <1>6, <1>7, <2>2, <3>1 DEF Sound
  <2> QED
    BY <2>1, <2>2
<1>9. /\ cash' = cash + realized - fee
      /\ flow' = flow + order.sign * q * price * Multiplier[s] + fee
      /\ pos' = [pos EXCEPT ![s] = p]
  BY DEF Reduce, carried
<1> HIDE DEF p, rest
<1>10. PositionsSound' /\ pos'[s] = p /\ \A x \in Symbols : x # s => pos'[x] = pos[x]
  BY <1>8, <1>9, PositionReplaced
<1>11. OpenCost' = OpenCost - Multiplier[s] * pos[s].cost + Multiplier[s] * p.cost
  BY <1>10, CostChange
<1>12. flow' = flow - paid * Multiplier[s] + fee
  <2>1. order.sign * q * price = - paid
    BY <1>1, <1>2
  <2> HIDE DEF paid, fee
  <2>2. flow' = flow + (- paid) * Multiplier[s] + fee
    BY <1>9, <2>1
  <2> QED
    BY <1>0, <1>3, <2>2
<1>13. cash = InitialCash - flow + OpenCost
  BY DEF ProfitIsFlow, OpenCost
<1>14. /\ OpenCost \in Int /\ Multiplier[s] * pos[s].cost \in Int
       /\ realized = Multiplier[s] * paid - Multiplier[s] * cost
  <2> HIDE DEF paid, cost
  <2> QED
    BY <1>0, <1>1, <1>3, <1>6, CostType DEF Sound
<1>15. cash' \in Int /\ flow' \in Int /\ cash' = InitialCash - flow' + OpenCost'
  <2> HIDE DEF paid, cost, fee, realized
  <2>1. Multiplier[s] * paid \in Int /\ Multiplier[s] * cost \in Int /\ paid * Multiplier[s] = Multiplier[s] * paid
    BY <1>0, <1>3, <1>6
  <2>2. OpenCost' = OpenCost - Multiplier[s] * cost
    BY <1>8, <1>11, <1>14, <2>1
  <2> QED
    BY <1>0, <1>9, <1>12, <1>13, <1>14, <2>1, <2>2, FutureAssumption
<1> QED
  BY <1>8, <1>10, <1>15 DEF ProfitIsFlow, OpenCost

-----------------------------------------------------------------------------
(* The account's books.                                                     *)

\* Where no trade happens the books stay as they are.
LEMMA BookKept ==
  ASSUME PositionsSound, ProfitIsFlow, UNCHANGED <<cash, flow, pos>>
  PROVE  PositionsSound' /\ ProfitIsFlow'
BY DEF PositionsSound, Sound, ProfitIsFlow, Cost

LEMMA BookInit == Init => BookInv
<1> SUFFICES ASSUME Init PROVE BookInv
  OBVIOUS
<1>1. PositionsSound
  <2>1. Sound(Flat)
    BY DEF Sound, Flat
  <2> QED
    BY <2>1 DEF Init, PositionsSound
<1>2. OrderFits
  BY DEF Init, OrderFits
<1>3. ProfitIsFlow
  <2> DEFINE f == [s \in Symbols |-> Cost(s)]
  <2>1. \A s \in Symbols : f[s] = 0
    BY FutureAssumption DEF Init, Cost, Flat
  <2>2. SumFunction(f) = SumFunctionOnSet(f, Symbols) /\ IsFiniteSet(Symbols)
    BY FutureAssumption DEF SumFunction
  <2> HIDE DEF f
  <2>3. SumFunction(f) = 0
    BY <2>1, <2>2, SumZero
  <2> QED
    BY <2>3, FutureAssumption DEF Init, ProfitIsFlow, f
<1> QED
  BY <1>1, <1>2, <1>3, FutureAssumption DEF BookInv, Init

LEMMA RoundDownType == \A q \in Int : RoundDown(q) \in Int /\ RoundDown(q) <= q
<1> SUFFICES ASSUME NEW q \in Int PROVE RoundDown(q) \in Int /\ RoundDown(q) <= q
  OBVIOUS
<1>1. q \div Lot \in Int /\ (q \div Lot) * Lot <= q
  BY DivRule, FutureAssumption
<1> QED
  BY <1>1, FutureAssumption DEF RoundDown

\* The equity and the margin are integers, whatever the marks.
LEMMA EquityType ==
  ASSUME PositionsSound, cash \in Int
  PROVE  Equity \in Int /\ MarginRequired \in Int
<1> DEFINE f == [s \in Symbols |-> Unrealized(s)]
           g == [s \in Symbols |-> Margin(s)]
<1>1. \A s \in Symbols : f[s] \in Int /\ g[s] \in Int
  <2> SUFFICES ASSUME NEW s \in Symbols PROVE Unrealized(s) \in Int /\ Margin(s) \in Int
    OBVIOUS
  <2>1. /\ Multiplier[s] \in Int /\ MarginRatio \in Int
        /\ pos[s].qty \in Int /\ pos[s].mark \in Int /\ pos[s].cost \in Int
    BY FutureAssumption DEF PositionsSound, Sound
  <2>2. Size(pos[s].qty) \in Int /\ pos[s].qty * pos[s].mark \in Int
    BY <2>1 DEF Size
  <2>3. Unrealized(s) \in Int
    BY <2>1, <2>2 DEF Unrealized
  <2>4. Size(pos[s].qty) * pos[s].mark \in Int
    BY <2>1, <2>2
  <2>5. Size(pos[s].qty) * pos[s].mark * Multiplier[s] \in Int
    BY <2>1, <2>4
  <2> QED
    BY <2>1, <2>3, <2>5 DEF Margin
<1>2. /\ Equity = cash + SumFunctionOnSet(f, Symbols)
      /\ MarginRequired = SumFunctionOnSet(g, Symbols)
  BY DEF Equity, MarginRequired, SumFunction
<1>3. IsFiniteSet(Symbols)
  BY FutureAssumption
<1> HIDE DEF f, g
<1>4. SumFunctionOnSet(f, Symbols) \in Int /\ SumFunctionOnSet(g, Symbols) \in Int
  BY <1>1, <1>3, SumType
<1> QED
  BY <1>2, <1>4

\* What the margin test leaves free, in per cent of the currency.
Free ==
  LET capLeft == Max({Max({Equity, 0}) * Cap - MarginRequired, 0})
  IN Min({Max({Equity * 100 - MarginRequired, 0}), capLeft})

LEMMA FreeType ==
  ASSUME PositionsSound, cash \in Int
  PROVE  Free \in Nat /\ (MarginRequired = 0 => Free <= (IF Equity >= 0 THEN Equity ELSE 0) * Cap)
<1> DEFINE e == IF Equity >= 0 THEN Equity ELSE 0
           left == e * Cap - MarginRequired
           idle == Equity * 100 - MarginRequired
<1>1. Equity \in Int /\ MarginRequired \in Int /\ Cap \in Nat /\ e \in Nat
  BY EquityType, FutureAssumption
<1>2. Max({Equity, 0}) = e
  BY <1>1, MaxPair
<1>3. left \in Int /\ idle \in Int /\ e * Cap \in Nat
  BY <1>1
<1>4. Free = Min({Max({idle, 0}), Max({left, 0})})
  BY <1>2 DEF Free
<1>5. Max({idle, 0}) = (IF idle >= 0 THEN idle ELSE 0) /\ Max({left, 0}) = (IF left >= 0 THEN left ELSE 0)
  BY <1>3, MaxPair
<1>6. Max({idle, 0}) \in Nat /\ Max({left, 0}) \in Nat
  BY <1>3, <1>5
<1>7. Free \in Nat /\ Free <= Max({left, 0})
  <2> DEFINE a == Max({idle, 0})
             b == Max({left, 0})
  <2>1. Free = Min({a, b}) /\ a \in Nat /\ b \in Nat
    BY <1>4, <1>6
  <2> HIDE DEF a, b
  <2>2. Min({a, b}) = IF a <= b THEN a ELSE b
    BY <2>1, MinPair
  <2>3. Free \in Nat /\ Free <= b
    BY <2>1, <2>2
  <2> QED
    BY <2>3 DEF b
<1>8. MarginRequired = 0 => Max({left, 0}) = e * Cap
  BY <1>3, <1>5
<1> QED
  BY <1>7, <1>8

\* affordable_future_open_quantity: what is granted costs no more than what is free.
LEMMA AffordableRule ==
  ASSUME PositionsSound, cash \in Int, NEW s \in Symbols, NEW req \in Nat, NEW price \in Nat \ {0}
  PROVE  /\ Affordable(s, req, price) \in Int
         /\ Affordable(s, req, price) <= req
         /\ Affordable(s, req, price) * (price * Multiplier[s] * (MarginRatio + Fee)) <= Free
<1> DEFINE unit == price * Multiplier[s] * (MarginRatio + Fee)
           most == RoundDown(Free \div unit)
<1>1. unit \in Nat \ {0}
  <2>1. price * Multiplier[s] \in Nat \ {0} /\ MarginRatio + Fee \in Nat \ {0}
    BY FutureAssumption
  <2> QED
    BY <2>1
<1> HIDE DEF unit
<1>2. Free \div unit \in Int /\ (Free \div unit) * unit <= Free
  BY <1>1, FreeType, DivRule
<1>3. most \in Int /\ most <= Free \div unit
  BY <1>2, RoundDownType
<1>4. Affordable(s, req, price) = Min({req, most})
  BY DEF Affordable, Free, unit
<1> HIDE DEF most
<1>5. Affordable(s, req, price) = IF req <= most THEN req ELSE most
  BY <1>3, <1>4, MinPair
<1> DEFINE q == Affordable(s, req, price)
<1>6. q \in Int /\ q <= req /\ q <= Free \div unit
  BY <1>2, <1>3, <1>5
<1> HIDE DEF q
<1>7. q * unit <= (Free \div unit) * unit
  BY <1>1, <1>2, <1>6, TimesMonotone
<1>8. q * unit <= Free
  BY <1>1, <1>2, <1>6, <1>7, FreeType
<1> QED
  BY <1>6, <1>8 DEF q, unit

LEMMA BookStep == BookInv /\ [Next]_vars => BookInv'
<1> SUFFICES ASSUME BookInv, [Next]_vars PROVE BookInv'
  OBVIOUS
<1> USE DEF BookInv
<1>0. \A b \in Bars : b.open \in Nat \ {0} /\ b.close \in Nat \ {0}
  BY FutureAssumption
<1>1. CASE NextBar
  BY <1>1, BookKept DEF NextBar, OrderFits
<1>2. CASE BeginOrder
  <2>1. PICK s \in Symbols, q \in Quantities :
          /\ market[s] # NoBar /\ RoundDown(Size(q)) > 0
          /\ order' = [symbol |-> s, sign |-> IF q > 0 THEN 1 ELSE -1, left |-> RoundDown(Size(q))]
    BY <1>2 DEF BeginOrder
  <2>2. RoundDown(Size(q)) \in Nat
    BY <2>1, RoundDownType, FutureAssumption DEF Size
  <2>3. /\ order'.symbol = s /\ order'.left \in Nat /\ order'.sign \in Sides
        /\ order' = [symbol |-> order'.symbol, sign |-> order'.sign, left |-> order'.left]
    BY <2>1, <2>2 DEF Sides
  <2>4. market' = market /\ stage' = "close" /\ market[s] \in Bars
    BY <1>2, <2>1 DEF BeginOrder, OrderFits
  <2>5. OrderFits'
    BY <2>3, <2>4 DEF OrderFits
  <2> QED
    BY <1>2, <2>5, BookKept DEF BeginOrder
<1>3. CASE CloseSegment
  <2> DEFINE s == order.symbol
             q == Min({order.left, Size(pos[s].qty)})
             price == market[s].open
  <2>1. /\ order = [symbol |-> order.symbol, sign |-> order.sign, left |-> order.left]
        /\ s \in Symbols /\ order.sign \in Sides /\ order.left \in Nat /\ market[s] \in Bars
        /\ market' = market /\ stage' = "extend"
    BY <1>3 DEF CloseSegment, OrderFits
  <2>2. price \in Nat /\ Sound(pos[s])
    BY <1>0, <2>1 DEF PositionsSound
  <2>3. CASE pos[s].qty * order.sign < 0
    <3>1. Size(pos[s].qty) \in Nat
      BY <2>2 DEF Size, Sound
    <3>2. q = IF order.left <= Size(pos[s].qty) THEN order.left ELSE Size(pos[s].qty)
      BY <2>1, <3>1, MinPair
    <3>3. q \in Nat /\ q <= Size(pos[s].qty) /\ q <= order.left /\ (q = order.left \/ q = Size(pos[s].qty))
      BY <2>1, <3>1, <3>2
    <3>4. Reduce(s, q, price) /\ order' = [order EXCEPT !.left = @ - q]
      BY <1>3, <2>3 DEF CloseSegment
    <3> HIDE DEF q
    <3>5. /\ cash' \in Int /\ flow' \in Int /\ PositionsSound' /\ ProfitIsFlow'
          /\ q = Size(pos[s].qty) => pos'[s].qty = 0
      BY <2>1, <2>2, <2>3, <3>3, <3>4, ReduceBook
    <3>6. order' = [symbol |-> s, sign |-> order.sign, left |-> order.left - q]
      BY <2>1, <3>4
    <3>7. /\ order'.symbol = s /\ order'.sign = order.sign /\ order'.left = order.left - q
          /\ order' = [symbol |-> order'.symbol, sign |-> order'.sign, left |-> order'.left]
      BY <3>6
    <3>8. order'.left \in Nat /\ (order'.left = 0 \/ pos'[s].qty * order'.sign >= 0)
      <4>1. CASE q = order.left
        BY <2>1, <3>3, <3>7, <4>1
      <4>2. CASE q = Size(pos[s].qty)
        BY <2>1, <3>3, <3>5, <3>7, <4>2 DEF Sides
      <4> QED
        BY <3>3, <4>1, <4>2
    <3>9. OrderFits'
      BY <2>1, <3>7, <3>8 DEF OrderFits
    <3> QED
      BY <3>5, <3>9
  <2>4. CASE ~ (pos[s].qty * order.sign < 0)
    <3>1. UNCHANGED <<cash, pos, flow, order>>
      BY <1>3, <2>4 DEF CloseSegment
    <3>2. pos[s].qty * order.sign >= 0
      BY <2>1, <2>2, <2>4 DEF Sound, Sides
    <3>3. OrderFits'
      BY <2>1, <3>1, <3>2 DEF OrderFits
    <3> QED
      BY <3>1, <3>3, BookKept
  <2> QED
    BY <2>3, <2>4
<1>4. CASE OpenSegment
  <2> DEFINE s == order.symbol
             price == market[s].open
             q == Affordable(s, order.left, price)
  <2>1. /\ s \in Symbols /\ order.sign \in Sides /\ order.left \in Nat /\ market[s] \in Bars
        /\ order.left = 0 \/ pos[s].qty * order.sign >= 0
        /\ market' = market /\ stage' = "open"
    BY <1>4 DEF OpenSegment, OrderFits
  <2>2. price \in Nat \ {0}
    BY <1>0, <2>1
  <2>3. q \in Int /\ q <= order.left
    BY <2>1, <2>2, AffordableRule
  <2>4. OrderFits'
    BY <2>1 DEF OrderFits
  <2>5. CASE q > 0
    <3>1. Extend(s, q, price)
      BY <1>4, <2>5 DEF OpenSegment
    <3> HIDE DEF q
    <3>2. pos[s].qty * order.sign >= 0 /\ q \in Nat
      BY <2>1, <2>3, <2>5
    <3>3. cash' \in Int /\ flow' \in Int /\ PositionsSound' /\ ProfitIsFlow'
      BY <2>1, <2>2, <3>1, <3>2, ExtendBook
    <3> QED
      BY <2>4, <3>3
  <2>6. CASE ~ (q > 0)
    <3>1. UNCHANGED <<cash, pos, flow>>
      BY <1>4, <2>6 DEF OpenSegment
    <3> QED
      BY <2>4, <3>1, BookKept
  <2> QED
    BY <2>5, <2>6
<1>5. CASE MarkPositions
  <2>1. /\ stage' = "bar" /\ UNCHANGED <<cash, market, flow>>
        /\ pos' = [s \in Symbols |->
              IF pos[s].qty # 0 /\ market[s] # NoBar
              THEN [qty |-> pos[s].qty, cost |-> pos[s].cost, mark |-> market[s].close] ELSE pos[s]]
    BY <1>5 DEF MarkPositions
  <2>2. ASSUME NEW s \in Symbols PROVE Sound(pos'[s]) /\ pos'[s].cost = pos[s].cost
    <3> DEFINE p == [qty |-> pos[s].qty, cost |-> pos[s].cost, mark |-> market[s].close]
    <3>1. CASE pos[s].qty # 0 /\ market[s] # NoBar
      <4>1. pos'[s] = p /\ market[s] \in Bars
        BY <2>1, <3>1 DEF OrderFits
      <4>2. p.qty = pos[s].qty /\ p.cost = pos[s].cost /\ p.mark = market[s].close
            /\ p = [qty |-> p.qty, cost |-> p.cost, mark |-> p.mark] /\ Sound(pos[s])
        BY DEF PositionsSound
      <4>3. p.mark \in Int
        BY <1>0, <4>1, <4>2
      <4> HIDE DEF p
      <4>4. Sound(p)
        BY <4>2, <4>3 DEF Sound
      <4> QED
        BY <4>1, <4>2, <4>4
    <3>2. CASE ~ (pos[s].qty # 0 /\ market[s] # NoBar)
      BY <2>1, <3>2 DEF PositionsSound
    <3> QED
      BY <3>1, <3>2
  <2>3. PositionsSound'
    BY <2>1, <2>2 DEF PositionsSound, Sound
  <2>4. [s \in Symbols |-> Cost(s)]' = [s \in Symbols |-> Cost(s)]
    BY <2>2 DEF Cost
  <2>5. ProfitIsFlow'
    BY <2>1, <2>4 DEF ProfitIsFlow
  <2>6. OrderFits'
    BY <2>1 DEF OrderFits
  <2> QED
    BY <2>1, <2>3, <2>5, <2>6
<1>6. CASE UNCHANGED vars
  BY <1>6, BookKept DEF vars, OrderFits
<1> QED
  BY <1>1, <1>2, <1>3, <1>4, <1>5, <1>6 DEF Next

\* Average costs, partial closes, shorts and reversals add up, over any sequence of bars
\* and orders: cash is the initial cash, less the money paid for all trades, plus the
\* cost of what is still open.
THEOREM BooksBalance == Spec => []ProfitIsFlow
<1>1. BookInv => ProfitIsFlow
  BY DEF BookInv
<1> QED
  BY <1>1, BookInit, BookStep, PTL DEF Spec

-----------------------------------------------------------------------------
(* The margin cap.                                                          *)

\* Without positions the equity is the cash, and no margin is required.
LEMMA EmptyAccount ==
  ASSUME PositionsSound, cash \in Int, \A s \in Symbols : pos[s].qty = 0
  PROVE  Equity = cash /\ MarginRequired = 0
<1> DEFINE f == [s \in Symbols |-> Unrealized(s)]
           g == [s \in Symbols |-> Margin(s)]
<1>1. \A s \in Symbols : f[s] = 0 /\ g[s] = 0
  <2> SUFFICES ASSUME NEW s \in Symbols PROVE Unrealized(s) = 0 /\ Margin(s) = 0
    OBVIOUS
  <2>1. /\ Multiplier[s] \in Int /\ MarginRatio \in Int /\ pos[s].mark \in Int
        /\ pos[s].qty = 0 /\ pos[s].cost = 0 /\ Size(pos[s].qty) = 0
    BY FutureAssumption DEF PositionsSound, Sound, Size
  <2> QED
    BY <2>1 DEF Unrealized, Margin
<1>2. /\ Equity = cash + SumFunctionOnSet(f, Symbols)
      /\ MarginRequired = SumFunctionOnSet(g, Symbols)
  BY DEF Equity, MarginRequired, SumFunction
<1>3. IsFiniteSet(Symbols)
  BY FutureAssumption
<1> HIDE DEF f, g
<1>4. SumFunctionOnSet(f, Symbols) = 0 /\ SumFunctionOnSet(g, Symbols) = 0
  BY <1>1, <1>3, SumZero
<1> QED
  BY <1>2, <1>4

\* With one position, at its opening price, the equity is the cash and the margin its own.
LEMMA OnePosition ==
  ASSUME PositionsSound, PositionsSound', cash \in Int, cash' \in Int,
         \A x \in Symbols : pos[x].qty = 0, NEW s \in Symbols,
         \A x \in Symbols : x # s => pos'[x] = pos[x],
         pos'[s].qty * pos'[s].mark = pos'[s].cost
  PROVE  /\ Equity' = cash'
         /\ MarginRequired' = Size(pos'[s].qty) * pos'[s].mark * Multiplier[s] * MarginRatio
<1> DEFINE f == [x \in Symbols |-> Unrealized(x)']
           g == [x \in Symbols |-> Margin(x)']
           z == [x \in Symbols |-> 0]
           m == Size(pos'[s].qty) * pos'[s].mark * Multiplier[s] * MarginRatio
<1>0. /\ IsFiniteSet(Symbols) /\ MarginRatio \in Int
      /\ \A x \in Symbols : /\ Multiplier[x] \in Int
                            /\ pos'[x].qty \in Int /\ pos'[x].mark \in Int /\ pos'[x].cost \in Int
  BY FutureAssumption DEF PositionsSound, Sound
<1>1. \A x \in Symbols : x # s => f[x] = 0 /\ g[x] = 0
  <2> SUFFICES ASSUME NEW x \in Symbols, x # s PROVE Unrealized(x)' = 0 /\ Margin(x)' = 0
    OBVIOUS
  <2>1. pos'[x].qty = 0 /\ pos'[x].cost = 0 /\ Size(pos'[x].qty) = 0
    BY DEF PositionsSound, Sound, Size
  <2> QED
    BY <1>0, <2>1 DEF Unrealized, Margin
<1>2. f[s] = 0
  <2>1. Unrealized(s)' = Multiplier[s] * (pos'[s].qty * pos'[s].mark - pos'[s].cost)
    BY DEF Unrealized
  <2>2. pos'[s].qty * pos'[s].mark - pos'[s].cost = 0
    BY <1>0
  <2> QED
    BY <1>0, <2>1, <2>2
<1>3. g[s] = m /\ m \in Int
  <2>1. Size(pos'[s].qty) \in Int
    BY <1>0 DEF Size
  <2>2. Size(pos'[s].qty) * pos'[s].mark \in Int
    BY <1>0, <2>1
  <2>3. Size(pos'[s].qty) * pos'[s].mark * Multiplier[s] \in Int
    BY <1>0, <2>2
  <2> QED
    BY <1>0, <2>3 DEF Margin
<1>4. /\ Equity' = cash' + SumFunctionOnSet(f, Symbols)
      /\ MarginRequired' = SumFunctionOnSet(g, Symbols)
  BY DEF Equity, MarginRequired, SumFunction
<1>5. \A x \in Symbols : z[x] = 0
  OBVIOUS
<1> HIDE DEF f, g, z, m
<1>6. SumFunctionOnSet(f, Symbols) = 0 /\ SumFunctionOnSet(z, Symbols) = 0
  <2>1. \A x \in Symbols : f[x] = 0
    BY <1>1, <1>2
  <2> QED
    BY <1>0, <1>5, <2>1, SumZero
<1>7. SumFunctionOnSet(g, Symbols) = SumFunctionOnSet(z, Symbols) - z[s] + g[s]
  <2>1. \A x \in Symbols : z[x] \in Int /\ g[x] \in Int
    BY <1>1, <1>3, <1>5
  <2>2. \A x \in Symbols : x # s => z[x] = g[x]
    BY <1>1, <1>5
  <2> QED
    BY <1>0, <2>1, <2>2, SumChange
<1>8. SumFunctionOnSet(g, Symbols) = m
  BY <1>3, <1>5, <1>6, <1>7
<1>9. Equity' = cash' /\ MarginRequired' = m
  <2>1. Equity' = cash' + 0
    BY <1>4, <1>6
  <2>2. MarginRequired' = m
    BY <1>4, <1>8
  <2>3. \A n \in Int : n + 0 = n
    OBVIOUS
  <2> QED
    BY <2>1, <2>2, <2>3, Zenon
<1> QED
  BY <1>9 DEF m

\* The margin of a fill and its fees stay within the cap, if the fill costs no more than
\* the cap of the cash before it: n is its notional, r the margin ratio, all in per cent.
LEMMA CapArithmetic ==
  ASSUME NEW n \in Nat, NEW r \in Nat, NEW k \in Nat, NEW cap \in 0 .. 100, NEW c \in Int,
         n * (r + k) <= c * cap
  PROVE  n * r <= (c - (n * k) \div 100) * cap
<1> DEFINE fee == (n * k) \div 100
<1>1. n * k \in Nat /\ n * r \in Nat /\ n * (r + k) = n * r + n * k
  OBVIOUS
<1>2. fee \in Int /\ fee * 100 <= n * k
  BY <1>1, DivRule
<1>3. fee \in Nat
  BY <1>1, <1>2
<1> HIDE DEF fee
<1>4. cap * fee <= 100 * fee
  BY <1>3, TimesMonotone
<1>5. (c - fee) * cap = c * cap - cap * fee
  BY <1>3
<1>6. c * cap \in Int /\ cap * fee \in Int
  BY <1>3
<1>7. n * r <= (c - fee) * cap
  BY <1>1, <1>2, <1>3, <1>4, <1>5, <1>6
<1> QED
  BY <1>7 DEF fee

LEMMA FirstOpen ==
  ASSUME BookInv, BookInv', OpenSegment, pos' # pos, \A s \in Symbols : pos[s].qty = 0
  PROVE  MarginRequired' <= Equity' * Cap
<1> USE DEF BookInv
<1> DEFINE s == order.symbol
           price == market[s].open
           q == Affordable(s, order.left, price)
           n == q * price * Multiplier[s]
<1>1. s \in Symbols /\ order.sign \in Sides /\ order.left \in Nat /\ market[s] \in Bars
  BY DEF OpenSegment, OrderFits
<1>2. price \in Nat \ {0}
  BY <1>1, FutureAssumption
<1>3. q > 0 /\ Extend(s, q, price)
  BY DEF OpenSegment
<1>4. /\ q \in Nat \ {0}
      /\ q * (price * Multiplier[s] * (MarginRatio + Fee)) <= Free
  BY <1>1, <1>2, <1>3, AffordableRule
<1> HIDE DEF q, price
<1>5. Equity = cash /\ MarginRequired = 0
  BY EmptyAccount
<1>6. Free <= (IF cash >= 0 THEN cash ELSE 0) * Cap
  BY <1>5, FreeType
<1>7. /\ Multiplier[s] \in Nat \ {0} /\ MarginRatio \in Nat \ {0} /\ Fee \in Nat /\ Cap \in 0 .. 100
      /\ n \in Nat \ {0}
  <2>1. Multiplier[s] \in Nat \ {0} /\ MarginRatio \in Nat \ {0} /\ Fee \in Nat /\ Cap \in 0 .. 100
    BY <1>1, FutureAssumption
  <2>2. q * price \in Nat \ {0}
    BY <1>2, <1>4
  <2> QED
    BY <2>1, <2>2
<1>8. q * (price * Multiplier[s] * (MarginRatio + Fee)) = n * (MarginRatio + Fee)
  BY <1>2, <1>4, <1>7
<1>9. n * (MarginRatio + Fee) > 0
  <2>1. MarginRatio + Fee \in Nat \ {0}
    BY <1>7
  <2> HIDE DEF n
  <2> QED
    BY <1>7, <2>1
<1>10. n * (MarginRatio + Fee) <= cash * Cap
  <2>1. n * (MarginRatio + Fee) <= (IF cash >= 0 THEN cash ELSE 0) * Cap
    <3>1. Free \in Nat /\ n * (MarginRatio + Fee) \in Int /\ (IF cash >= 0 THEN cash ELSE 0) * Cap \in Int
      BY <1>7, FreeType
    <3> HIDE DEF n
    <3> QED
      BY <1>4, <1>6, <1>8, <3>1
  <2>2. cash >= 0
    <3> SUFFICES ASSUME ~ (cash >= 0) PROVE FALSE
      OBVIOUS
    <3>1. (IF cash >= 0 THEN cash ELSE 0) * Cap = 0
      BY <1>7
    <3> HIDE DEF n
    <3> QED
      BY <1>7, <1>9, <2>1, <3>1
  <2> QED
    BY <2>1, <2>2
<1>11. n * MarginRatio <= (cash - (n * Fee) \div 100) * Cap
  <2> HIDE DEF n
  <2> QED
    BY <1>7, <1>10, CapArithmetic
<1>12. /\ cash' = cash - (n * Fee) \div 100
       /\ pos' = [pos EXCEPT ![s] = [qty |-> @.qty + order.sign * q,
                                     cost |-> @.cost + order.sign * q * price, mark |-> price]]
  BY <1>3 DEF Extend, Fees
<1>13. /\ pos'[s] = [qty |-> pos[s].qty + order.sign * q, cost |-> pos[s].cost + order.sign * q * price,
                     mark |-> price]
       /\ \A x \in Symbols : x # s => pos'[x] = pos[x]
  BY <1>1, <1>12 DEF PositionsSound
<1>14. pos[s].qty = 0 /\ pos[s].cost = 0
  BY <1>1 DEF PositionsSound, Sound
<1>15. pos'[s].qty = order.sign * q /\ pos'[s].mark = price /\ pos'[s].cost = order.sign * q * price
  <2>1. order.sign * q \in Int /\ order.sign * q * price \in Int
    BY <1>1, <1>2, <1>4 DEF Sides
  <2> QED
    BY <1>13, <1>14, <2>1
<1>16. /\ Equity' = cash'
       /\ MarginRequired' = Size(pos'[s].qty) * pos'[s].mark * Multiplier[s] * MarginRatio
  <2>1. pos'[s].qty * pos'[s].mark = pos'[s].cost
    BY <1>15
  <2> HIDE DEF s
  <2> QED
    BY <1>1, <1>13, <2>1, OnePosition
<1>17. Size(pos'[s].qty) = q
  BY <1>1, <1>4, <1>15 DEF Size, Sides
<1>18. MarginRequired' = n * MarginRatio
  BY <1>15, <1>16, <1>17
<1> QED
  BY <1>11, <1>12, <1>16, <1>18

\* An account that opens its first position keeps within max_margin_ratio, at any equity,
\* price, multiplier, lot, fee and margin ratio.
THEOREM CapKept == Spec => FirstOpenWithinCap
<1>1. ASSUME BookInv, BookInv', [Next]_vars
      PROVE  [OpenSegment /\ pos' # pos /\ (\A s \in Symbols : pos[s].qty = 0) =>
                MarginRequired' <= Equity' * Cap]_vars
  BY <1>1, FirstOpen
<1> QED
  BY <1>1, BookInit, BookStep, PTL DEF Spec, FirstOpenWithinCap
=============================================================================
