SPECIFICATION FairSpec
CONSTANTS
  NotANumber = NotANumber
  NoRow = NoRow
  Containers = {1}
  Workers = {1}
  Handlers = {h1}
  Reschedulable = {1}
  Finalized = {1}
  Demand <- OneEach
  Capacity <- OneSlotEach
  LeaseDuration = 1
  EvictionTimeout = 0
  Ops = {"create", "overwrite", "desire", "Hibernated", "delete"}
  Prompt = TRUE
  Returning = {}
  Restarts = FALSE
INVARIANTS IndexInSync NoStaleReason
PROPERTIES DeletionCompletes HibernationConverges
