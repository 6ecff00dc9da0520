CONSTANTS
  IntBits = 16
  Instance = {i1}
  Environ <- AnyProcess
  Request = {r1}
  PeerTimeout = {25}
  Lateness = 5
  Scale <- FineOrBusy
  MaxAge = 35
  MaxWorkers = 2
  MaxFaults = 1
SPECIFICATION LifeFairSpec
INVARIANTS
  CleanExitLeavesNothing
  AnswerMatchesEffect
PROPERTIES
  LivingWorkerNotMarked
  DeadWorkerIsMarked
  ShutdownEnds
