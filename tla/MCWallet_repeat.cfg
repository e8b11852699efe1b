CONSTANTS
  a = a
  b = b
  k1 = k1
  k2 = k2
  k3 = k3
  Users = {a}
  Requests = {r1, r2, r3}
  Keys = {k1, k2, k3}
  Calls <- ReserveCalls
  Changes = {"BLOCKED"}
  DefaultTTL = 1
  MaxBigint = 3
  MaxTime = 4
SPECIFICATION Spec
INVARIANTS
  KeyExecutesOnce
CHECK_DEADLOCK FALSE
