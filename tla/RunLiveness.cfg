CONSTANTS
  Job = {j1, j2}
  Payload = {j1, j2}
  NoJob = NoJob
  Worker = {w1}
  NoWorker = NoWorker
  Result <- Answers
  NoResult = NoResult
  MaxAttempts = {0, 2}
  MaxLen = 1
  NumInputs <- TwoForOne
  Recoverer = {r1}
  Sweeper = {s1}
  DispatchLimit = 1
  ClaimBatch = 1
  MaxFaults = 1
SPECIFICATION ScenarioSpec
INVARIANTS
  EveryInputAnswered
PROPERTIES
  EveryRunEnds
  CompletedMessagesCleared
