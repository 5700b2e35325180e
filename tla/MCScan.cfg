\* Five names, two of them twice in a second, and one past the sign bit.
SPECIFICATION Spec
CONSTANTS
  Names <- MCNames
  Asked <- MCAsked
  SignBit = 32
  TenDigits = 12
  FirstCap = 1
INVARIANTS
  TypeOK
  ListOwned
  PeriodPlayed
CHECK_DEADLOCK FALSE
