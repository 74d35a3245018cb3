SPECIFICATION Spec
CONSTANTS
  Names <- MCNames
  NoField = NoField
  None = None
  MaxPrints = 1
  MaxSends = 1
  MaxBacklog = 2
INVARIANT ExcludesWhatItAsked
