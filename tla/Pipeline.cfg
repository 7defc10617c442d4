CONSTANTS
  c = c
  p = p
  Client = {c}
  Peer = {p}
  Capacity = 1
  CanLose = {c}
  MaxMessages = 1
  Ticking = {"heartbeat", "rumor", "rumorstate"}
  MaxTicks = 1
  MayStop = TRUE
SPECIFICATION FairSpec
INVARIANT NoPumpAfterShutdown
PROPERTIES NobodyBlocked LostIsUnsubscribed ShutdownEnds
CHECK_DEADLOCK FALSE
