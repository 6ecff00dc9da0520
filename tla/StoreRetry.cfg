CONSTANTS
  Job = {j1}
  Worker = {w1}
  NoWorker = NoWorker
  Result = {ra}
  NoResult = NoResult
  MaxAttempts = {0}
SPECIFICATION StoreSpec
PROPERTIES
  AbandonedIsRequeued
