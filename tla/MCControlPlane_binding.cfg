SPECIFICATION Spec
CONSTANTS
  NotANumber = NotANumber
  NoRow = NoRow
  Containers = {1}
  Workers = {1}
  Handlers = {h1}
  Reschedulable = {1}
  Finalized = {}
  Demand <- OneEach
  Capacity <- OneSlotEach
  LeaseDuration = 1
  EvictionTimeout = 1
  Ops = {"create", "desire"}
  Prompt = TRUE
  Returning = {}
  Restarts = FALSE
PROPERTIES HibernateKeepsBinding
