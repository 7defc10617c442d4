\* The front-end from EarlyScenario.
CONSTANTS
  organizer = organizer
  attendee = attendee
  server = server
  None = None
  Device <- MCDevice
  Address <- MCAddress
  Amount <- MCAmount
  Form <- MCForm
  Service <- MCService
  Scenarios <- EarlyScenarios
  WitnessingEnabled = FALSE
SPECIFICATION Spec
INVARIANT RollCallsFollowTheirMessages
CHECK_DEADLOCK FALSE
