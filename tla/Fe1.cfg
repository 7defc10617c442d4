\* The front-end from all scenarios.
CONSTANTS
  organizer = organizer
  attendee = attendee
  server = server
  None = None
  Device <- MCDevice
  Address <- MCAddress
  Amount <- MCAmount
  Form <- MCForm
  Service <- MCService
  Scenarios <- MCScenarios
  WitnessingEnabled = TRUE
SPECIFICATION Spec
INVARIANTS StoresOK AliasesNameRollCalls LatestVoteIsRegistered ReactionsCountOnce ChirpsNewestFirst OwnTransactionsAreValid LinkedByChallenge AskedOnce
PROPERTIES RollCallsKeepUp DeletedChirpStaysDeleted
CHECK_DEADLOCK FALSE
