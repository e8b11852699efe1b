CONSTANTS
  Users = {o, g1, g2}
  Owner = o
  NoOne = NoOne
  ChargesFee = TRUE
  Workers = {w1, w2}
  MaxCycles = 2
  MaxOrders = 2
  a = a
  k1 = k1
  k2 = k2
  k3 = k3
  Requests = {r1, r2, r3}
SPECIFICATION MCSpec
INVARIANTS
  GivenIsPaid
  NewsIsTrue
PROPERTIES
  OneGiverAtATime
  ConfirmedIsKept
  ReservationEnds
  EveryReservationEnds
  EveryMessageIsRead
CHECK_DEADLOCK FALSE
