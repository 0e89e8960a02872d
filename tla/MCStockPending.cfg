\* Orders pending over a date whose only frame is the one added for a delisting.
CONSTANTS
  A = a
  B = b
  NoBar = nobar
  Symbols = {a, b}
  Events <- Distributions
  InitialCash = 12
  BuyFee = 0
  SellFee = 25
  Sessions = {1, 2, 4, 6}
  Times = {1, 2}
  ExitTime = 2
  DelistDate <- ADelisted
  Bars <- Still
  Lot = 1
  RespectLimits = TRUE
  Orders <- UnitOrders
  Hooks = {"on_bar_open", "on_bar"}
  MaxOrders = 1
SPECIFICATION Spec
PROPERTIES OrdersMeetBars
CHECK_DEADLOCK FALSE
