\* Does a request with any two times get the records between them?
SPECIFICATION Spec
CONSTANTS
  Names <- MCNames
  Asked <- MCAsked
  SignBit = 32
  TenDigits = 12
  FirstCap = 1
INVARIANTS
  RequestPlayed
CHECK_DEADLOCK FALSE
