\* Passes over up to two containers and three workers.  A pass ends.
CONSTANTS
  Specs <- MCSpecs
  WorkerSpecs <- MCWorkerSpecs
  Requests <- MCRequests
  Views <- MCViews
  MaxPending = 2
  MaxWorkers = 3
  NotANumber = 0
  NotAString = NotAString
  U32 = 8
SPECIFICATION Spec
INVARIANTS TypeOK NoOvercommit PickIsBest HardConstraintsHold EveryWorkerAccountedFor
CHECK_DEADLOCK FALSE
