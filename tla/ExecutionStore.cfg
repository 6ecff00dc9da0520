CONSTANTS
  Job = {j1, j2}
  Worker = {w1, w2}
  NoWorker = NoWorker
  Result = {ra, rb}
  NoResult = NoResult
  MaxAttempts = {0, 1, 2}
SPECIFICATION StoreSpec
INVARIANTS
  StoreTypeOK
  OwnershipMatchesLease
  AttemptBudget
  AnswerMatchesStatus
PROPERTIES
  TerminalFrozen
  HandoverThroughQueue
  ImplementsLifecycle
