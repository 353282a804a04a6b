SPECIFICATION Spec
CHECK_DEADLOCK FALSE
CONSTANTS
  KeyCap = 6
  ValueCap = 36
  MaxCookies = 2
  MaxCalls = 2
  MaxRequests = 2
  PairLists <- MCPairLists
  RawTexts <- MCRawTexts
  Segments <- MCSegments
  Keys <- MCKeys
  Garbage <- MCGarbage
INVARIANTS
  PairsFound
  TwoValuesHeld
  CookiesOfThisRequest
  ParamAsSent
  QuotedReadsBack
