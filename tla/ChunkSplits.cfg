\* Every way to cut every message; the decoder stops when a message is over.
CONSTANTS
  Characters <- Letters
  Digits <- FewDigits
  Modulus = 16
  MaxBody = 3
  LineCap = 8
  BlockCap = 9
  Messages <- AllMessages
CHECK_DEADLOCK FALSE
SPECIFICATION Spec
INVARIANTS
  TypeOK
  BodyAsEncoded
  SplitIndependent
  BodyWithinCap
  SpinsOnlyInData
