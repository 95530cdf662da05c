CONSTANTS
  DefaultBudget = 4
  MaxBudget = 6
  MaxDepth = 2
  Delimiter = delimiter
  Quote = quote
  LF = lf
  CR = cr
  BOM = bom
  Bad = bad
  Yes = yes
  No = no
  MaxColumns = 6
  MaxRecord = 20
  MaxRows = 3
  MaxOutput = 100
  LetterA = a
  LetterB = b
  MaxText = 6
  MaxNest = 1
  MaxSuffix = 7
  MaxExponent = 2
  MaxDimension = 3
SPECIFICATION Spec
INVARIANTS
  Contained
PROPERTIES
  Parity
  LinesRead
  Joined
CHECK_DEADLOCK FALSE
