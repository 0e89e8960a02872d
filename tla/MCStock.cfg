\* One stock with two distributions, moving prices, limits, fees and lots over four
\* sessions; it is delisted on the third, with bonus shares locked beyond the delisting
\* and others distributed after it.
CONSTANTS
  A = a
  B = b
  NoBar = nobar
  Symbols = {a}
  Events <- Distributions
  InitialCash = 20
  BuyFee = 10
  SellFee = 25
  Sessions = {1, 2, 4, 6}
  Times = {1, 2}
  ExitTime = 2
  DelistDate <- ADelisted
  Bars <- Moving
  Lot = 2
  RespectLimits = TRUE
  Orders <- LotOrders
  Hooks = {"on_session_open", "on_bar_open", "on_bar"}
  MaxOrders = 1
SPECIFICATION Spec
INVARIANTS TypeOK ProfitExplained Solvent LockedSharesHeld HoldersPaid SettledOnTime DelistedSold
CHECK_DEADLOCK FALSE
