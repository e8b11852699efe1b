CONSTANTS
  Users = {u1, u2}
  Operators = {u2}
  Credits = {c1}
  Keys = {k1, k2}
  Calls = {p1, p2}
  Amounts <- RequestedAmounts
  Width = 4
  MaxMonth = 2
SPECIFICATION Spec
INVARIANTS
  ChargedCanBeRecorded
CHECK_DEADLOCK FALSE
