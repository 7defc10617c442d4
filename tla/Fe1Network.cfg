SPECIFICATION FairSpec
CONSTANTS
    Addresses = {a1, a2}
    LaoAddresses = {a1}
    Publications = {p1}
    MaxAttempts = 1
    MaxChecks = 1
    IdWrap = 4
    Limits <- MCLimits
    MaxRounds = 1
INVARIANTS TypeOK HopeOrDead ResolvedMeansAccepted
PROPERTY CallsSettle
CHECK_DEADLOCK FALSE
