CONSTANTS
  a = a
  b = b
  k1 = k1
  k2 = k2
  k3 = k3
  Users = {a, b}
  Requests = {r1, r2, r3}
  Keys = {k1, k2, k3}
  Calls <- AllCalls
  DefaultTTL = 1
  MaxBigint = 3
  MaxTime = 2
  Changes = {"ACTIVE", "BLOCKED", "DELETED"}
SYMMETRY RequestSymmetry
SPECIFICATION Spec
INVARIANTS
  BalanceIsLedger
  RepeatFindsTheFirst
PROPERTIES
  FrozenWalletOnlyDrains
  ImplementsFunds
CHECK_DEADLOCK FALSE
