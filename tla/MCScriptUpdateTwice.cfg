SPECIFICATION Spec
CONSTANTS
  MaxChecks = 3
  MaxUpgrades = 2
  MaxLosses = 0
INVARIANT UpdatingWaits
