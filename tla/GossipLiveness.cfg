CONSTANTS
  a = a
  b = b
  c = c
  Server = {a, b}
  Dials <- Pair
  MaxRumors <- BTwo
  Asking = {a, b}
  Crashable = {a}
  MaxCrashes = 1
SPECIFICATION FairSpec
INVARIANT ContiguousRumors
PROPERTY EventuallyEverywhere
CHECK_DEADLOCK FALSE
