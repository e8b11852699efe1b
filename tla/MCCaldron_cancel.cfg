CONSTANTS
  Users = {u1}
  Creator = c1
  CreatorParticipates = FALSE
  NoOne = NoOne
  Mode = "FIXED"
  Contributions = {1}
  Workers = {w1}
SPECIFICATION Spec
INVARIANTS
  CancelledCanRefund
CHECK_DEADLOCK FALSE
