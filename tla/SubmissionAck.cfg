CONSTANTS
  Sub = {s1}
  Payload = {s1}
  NoSub = NoSub
  Worker = {w1}
  NumTests <- OneOrTwoTests
  MaxLen = 1
  FaultKind = {}
  MaxFaults = 0
CHECK_DEADLOCK FALSE
SPECIFICATION JudgeSpec
PROPERTIES
  AckedWhenJudged
