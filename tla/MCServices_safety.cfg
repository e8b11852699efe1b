CONSTANTS
  k1 = k1
  k2 = k2
  p1 = p1
  p2 = p2
  s1 = s1
  Nothing = Nothing
  Events = {k1, k2}
  Instances = {p1, p2}
  Readers = {u1}
  PageSize = 1
  Users = {u1, u2}
  Calls = {p1, p2}
  Operators = {u2}
  Credits = {c1}
  PaymentKeys = {k1, k2}
  Sums <- RequestedSums
  Width = 4
  MaxMonth = 2
  Sessions = {s1}
  MaxPairs = 2
  MaxKeys = 4
  Owners = {u1}
  Addresses = {k1, k2}
  Kinds = {"EMAIL"}
  Required = {"EMAIL"}
  MaxAttempts = 1
  RateLimit = 1
  MaxCodes = 2
  Accounts = {"a1", "a2", "b1"}
  Provider <- ProviderOf
  Registered = {"u1"}
  States = {s1, s2, s3}
  Chats = {c1, c2}
  Codes = {k1, k2}
  Senders = {s1}
  EventTypes <- EventList
  Confirmations = {"k"}
  Channels = {"EMAIL"}
  MaxSettings = 2
  NumWallets = 2
  Rows = {1, 2}
  WalletOf <- WalletOfRow
  Txns = {p1, p2, s1}
  Ops = {s1}
  NoOp = Nothing
  Callers = {p1, p2}
  Limit = 1
  MaxChanges = 2
  Threshold = 2
  ResetAfter = 1
SPECIFICATION MCSpec
SYMMETRY Alike
INVARIANTS
  TypesOK
  DebtFollowsCharges
  ScheduleFitsTerm
  UsedUpIsDead
  KeyOutlivesRotation
  ConfirmedByItsCode
  EverybodyCanLogIn
  MessagesFindTheirOwner
  UnsubscribedStays
  CallsDoNotDeadlock
  CursorMissesNothing
  SleepersAreWoken
  OpenWhileFailing
PROPERTIES
  SettledTruly
CHECK_DEADLOCK FALSE
