SPECIFICATION Spec
CONSTANTS
  None = None
  Macros <- MCMacros
  MaxActs = 4
INVARIANTS
  TypeOK
  PromptAsWritten
  FillSafe
CHECK_DEADLOCK FALSE
