CONSTANTS
  Users = {o, g1, g2}
  Owner = o
  NoOne = NoOne
  ChargesFee = TRUE
  Workers = {w1, w2}
  MaxCycles = 2
  MaxOrders = 2
SPECIFICATION Spec
INVARIANTS
  PayerHoldsItem
CHECK_DEADLOCK FALSE
