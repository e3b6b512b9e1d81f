SPECIFICATION SimSpec
CONSTANTS
  Prices = {1, 2, 6}
  Deposit = 9
  Cost = 6
  Leverage = 1
  Fee = 1
  MinOpenPct = 50
  Charge = FALSE
  Cuts = FALSE
  MaxOrders = 2
  MaxBars = 2
INVARIANTS
  MoneyConserved
  ProfitUsedOnce
  WalletSound
  BarPathKept
PROPERTIES
  ExitIsFinal
  HistSound
CHECK_DEADLOCK FALSE
