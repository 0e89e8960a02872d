\* Two contracts, longs, shorts and reversals over two bars.
CONSTANTS
  F = f
  G = g
  NoBar = nobar
  Symbols = {f, g}
  Multiplier <- Multipliers
  InitialCash = 30
  Lot = 1
  Fee = 10
  MarginRatio = 20
  Cap = 50
  Quantities <- TwoOrThree
  Bars <- AllBars
  MaxBars = 2
SPECIFICATION Spec
INVARIANT ProfitIsFlow
PROPERTIES FirstOpenWithinCap
CHECK_DEADLOCK FALSE
