SPECIFICATION Spec
CONSTANTS
  MaxChecks = 1
  MaxUpdates = 1
  MaxLosses = 0
PROPERTY NotWhilePrinting
