\* A chunk whose data come in two pieces.
CONSTANTS
  Characters <- Letters
  Digits <- FewDigits
  Modulus = 16
  MaxBody = 3
  LineCap = 8
  BlockCap = 9
  Messages <- FewMessages
CHECK_DEADLOCK FALSE
SPECIFICATION FairSpec
PROPERTIES
  CallReturns
