CONSTANTS
  u1 = u1
  u2 = u2
  Users = {u1, u2}
  Caldrons = {1, 2, 3}
  PaidIn <- WhoPaid
  Limit = 2
  Workers = {w1}
SPECIFICATION FairSpec
PROPERTIES
  MoneyReturns
CHECK_DEADLOCK FALSE
