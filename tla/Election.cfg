CONSTANTS
  a = a
  b = b
  v = v
  yes = yes
  no = no
  Server = {a, b}
  Voter = {v}
  Option = {yes, no}
  Ballot <- Ballots
  MaxEvents = 3
  MaxEnds = 1
SPECIFICATION FairSpec
INVARIANTS TypeOK PhasesInOrder SameEndSameResult OnlyLastVotesCount
PROPERTIES EndSpreads
CHECK_DEADLOCK FALSE
