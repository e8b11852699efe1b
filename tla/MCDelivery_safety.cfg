CONSTANTS
  Events = {e1, e2, e3}
  Channels = {tg}
  Instances = {i1, i2}
  NoTask = NoTask
  BatchSize = 2
  Lease = 2
  HandleTime = 1
  MaxAttempts = 2
  RetryBase = 1
  RetryMax = 2
  RatePause = 1
  RateLimit = 1
  MaxFaults = 1
SPECIFICATION FairSpec
INVARIANTS
  LeaseKeeps
  SentOnce
  RateHolds
PROPERTIES
  QueueDrains
