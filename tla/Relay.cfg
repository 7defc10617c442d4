CONSTANTS
  a = a
  b = b
  c = c
  d = d
  lao = lao
  call = call
  vote = vote
  Server = {a, b, c, d}
  Message = {lao, call, vote}
  Neighbors <- Star
  Publishers <- EachItsServer
  Depends <- Needs
  PathLength <- Paths
  Asking = {a, b, c, d}
  Crashable = {}
  MaxCrashes = 0
SPECIFICATION Spec
INVARIANT RumorsAreComplete
CHECK_DEADLOCK FALSE
