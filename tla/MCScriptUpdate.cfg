SPECIFICATION FairSpec
CONSTANTS
  MaxChecks = 4
  MaxUpgrades = 3
  MaxLosses = 2
INVARIANTS
  TypeOK
  CheckHasDeadline
  ButtonFollows
PROPERTIES
  TapDoesWhatItSays
  CheckEnds
  UpdateEnds
