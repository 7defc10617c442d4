CONSTANTS
  a = a
  b = b
  c = c
  Server = {a, b, c}
  Dials <- Line
  MaxRumors <- OneEach
  Asking = {}
  Crashable = {a}
  MaxCrashes = 1
SPECIFICATION Spec
INVARIANTS TypeOK RumorAgreement CausalClosure
PROPERTIES ReceivedGrows ImplementsCausalBroadcast
CHECK_DEADLOCK FALSE
