CONSTANTS
  Job = {j1}
  Payload = {j1}
  NoJob = NoJob
  Worker = {w1, w2}
  NoWorker = NoWorker
  Result <- Answers
  NoResult = NoResult
  MaxAttempts = {0, 2}
  MaxLen = 2
  NumInputs <- OneInput
  Recoverer = {r1}
  Sweeper = {s1}
  DispatchLimit = 1
  ClaimBatch = 2
  MaxFaults = 1
SYMMETRY WorkerSymmetry
SPECIFICATION PipeSpec
INVARIANTS
  PipeTypeOK
  AttemptsAreExclusive
  AnswerOfLastAttempt
PROPERTIES
  LiveLeaseProtects
  WorkerAckAfterEnd
