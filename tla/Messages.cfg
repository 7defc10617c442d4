CONSTANTS
  a = a
  b = b
  c = c
  d = d
  lao = lao
  call = call
  vote = vote
  Server = {a, b, c}
  Message = {lao, call, vote}
  Neighbors <- Line
  Publishers <- EachItsServer
  Depends <- Needs
  PathLength <- Paths
  Asking = {a, b, c}
  Crashable = {b, c}
  MaxCrashes = 1
SPECIFICATION FairSpec
INVARIANTS TablesAgree CompleteUnlessSentAgain NothingLeftUnprocessed
PROPERTY EventuallyProcessed
CHECK_DEADLOCK FALSE
