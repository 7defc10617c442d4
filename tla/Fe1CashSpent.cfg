\* The front-end from CashScenarios.
CONSTANTS
  organizer = organizer
  attendee = attendee
  server = server
  None = None
  Device <- MCDevice
  Address <- MCAddress
  Amount <- MCAmount
  Form <- MCForm
  Service <- MCService
  Scenarios <- CashScenarios
  WitnessingEnabled = FALSE
SPECIFICATION Spec
INVARIANTS AllInputsAreUsed
CHECK_DEADLOCK FALSE
