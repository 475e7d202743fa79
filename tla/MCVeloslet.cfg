SPECIFICATION FairSpec
CONSTANTS
  NoRow = NoRow
  Names = {1, 2}
  MaxUid = 2
  Finalized = {1}
  Overwritten = {2}
  Sleepers = {2}
  Reschedulable = {2}
  PolicyOf <- NeverAlways
  BadImages = {2}
  Faults = {"exit", "prune", "runtime", "silent", "api", "crash"}
  MaxFaults = 1
INVARIANTS TypeOK TerminalMeansEnded
PROPERTIES KeepsTheDisk RemovedMeansCleaned Converges OrphansAreReaped HonestLease
