CONSTANTS
  Id = j1
  Job = {j1}
  Kind = {"run", "submission"}
  Worker = {w1, w2}
  NoWorker = NoWorker
  Result = {ra}
  NoResult = NoResult
  MaxAttempts = {0, 2}
  MaxFaults = 1
CHECK_DEADLOCK FALSE
SPECIFICATION Spec
INVARIANTS
  ShownEndIsTheEnd
PROPERTIES
  SubscriberIsTold
  HandlerEndsWithPage
