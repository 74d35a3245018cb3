SPECIFICATION Spec
CONSTANTS
  f1 = f1
  f2 = f2
  off = off
  on = on
  None = None
  Files <- MCFiles
  Modes <- MCModes
  Mode0 = off
  Flows = 2
  MaxActs = 3
INVARIANTS
  TypeOK
  StartsAsChosen
  SettledShowsPrint
PROPERTY PauseComesBack
CHECK_DEADLOCK FALSE
