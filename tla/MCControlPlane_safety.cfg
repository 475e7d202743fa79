SPECIFICATION Spec
CONSTANTS
  NotANumber = NotANumber
  NoRow = NoRow
  Containers = {1, 2}
  Workers = {1, 2}
  Handlers = {h1}
  Reschedulable = {1}
  Finalized = {}
  Demand <- OneEach
  Capacity <- OneSlotEach
  LeaseDuration = 1
  EvictionTimeout = 1
  Ops = {"create", "deleteWorker"}
  Prompt = TRUE
  Returning = {}
  Restarts = TRUE
INVARIANTS TypeOK PlacementsFit PendingIsUnbound NothingPutBack
PROPERTIES LiveWorkersKeepContainers
