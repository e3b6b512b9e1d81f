SPECIFICATION Spec
CONSTANTS
  Prices = {2, 3}
  Deposit = 20
  Cost = 6
  Leverage = 1
  Fee = 0
  MinOpenPct = 50
  Charge = FALSE
  Cuts = TRUE
  MaxOrders = 3
  MaxBars = 2
INVARIANTS
  MoneyConserved

CHECK_DEADLOCK FALSE
