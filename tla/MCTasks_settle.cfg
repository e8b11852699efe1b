CONSTANTS
  u1 = u1
  u2 = u2
  c1 = c1
  w1 = w1
  w2 = w2
  NoOne = NoOne
SPECIFICATION MCSpec
PROPERTIES
  RefundsComplete
  RefundsReachAll
CHECK_DEADLOCK FALSE
