CONSTANTS
  Author = {a1, a2, a3}
  NoProblem = NoProblem
  Body <- Bodies
  Submission = {s1}
  MaxFaults = 1
SYMMETRY AuthorSymmetry
CHECK_DEADLOCK FALSE
SPECIFICATION AuthSpec
INVARIANTS
  SlugsAreNotMixed
  JudgedInOrder
PROPERTIES
  JudgedInFull
