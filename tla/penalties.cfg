\* The one worker of the program, two threads and one player.
SPECIFICATION FairSpec
CONSTANTS
  WorkerCount = 1
  JobKeys = {p1}
  Callers = {c1, c2}
  Duration = 1
  MaxCalls = 2
  Horizon = 3
  IdleWait = 2
  NoWorker = NoWorker  NoJob = NoJob  NoPenalty = NoPenalty
INVARIANTS
  TypeOK WakesInTime PenaltyHasJob
PROPERTIES
  RemovedWhenExpired PenaltyEnds StopReturns
