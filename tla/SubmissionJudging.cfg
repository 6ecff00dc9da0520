CONSTANTS
  Sub = {s1, s2}
  Payload = {s1, s2}
  NoSub = NoSub
  Worker = {w1, w2}
  NumTests <- OneOrTwoTests
  MaxLen = 1
  FaultKind = {"call", "panic", "cancel", "crash"}
  MaxFaults = 1
CHECK_DEADLOCK FALSE
SPECIFICATION JudgeFairSpec
INVARIANTS
  VerdictMatchesTests
  CompletedHasVerdict
PROPERTIES
  VerdictIsFinal
  EverySubmissionEnds
