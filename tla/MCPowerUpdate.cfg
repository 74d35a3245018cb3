SPECIFICATION FairSpec
CONSTANTS
  MaxChecks = 2
  MaxUpdates = 2
  MaxLosses = 1
INVARIANTS
  TypeOK
  VerdictOfChannel
  VerdictTrue
PROPERTIES
  CheckEnds
  UpdateEnds
  NoticeHonest
