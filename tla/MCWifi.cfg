SPECIFICATION Spec
CONSTANTS
  a = a
  b = b
  None = None
  Open = Open
  Ssids <- MCSsids
  Secure <- MCSecure
  Alpha <- MCAlpha
  Strength <- MCStrength
  Air <- MCAir
  Boot <- MCBoot
  MaxId = 1
  MaxTouches = 2
  MaxEvents = 2
  MaxLate = 1
INVARIANTS
  TypeOK
  PasswordWhereTyped
  SettledShowsConnection
CHECK_DEADLOCK FALSE
PROPERTY HandlersReturn
