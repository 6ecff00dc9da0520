CONSTANTS
  Char <- Characters
  OtherSpace <- FormFeed
  Family <- Texts
  Reads <- TextReads
  Double <- Doubles
  Infinity = 64
  Even <- EvenDoubles
  Epsilon <- Tolerances
CHECK_DEADLOCK FALSE
SPECIFICATION CompSpec
INVARIANTS
  WhitespaceKeepsShape
  ModesAreNested
  FloatErrsByRounding
