\* Three flags, nesting far deeper than that.
CONSTANTS
  Levels = 3
  MaxTokens = 12
SPECIFICATION Spec
INVARIANTS
  CommasSeparate
  IndInv
