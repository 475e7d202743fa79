SPECIFICATION FairSpec
CONSTANTS
  None = None
  Broken = Broken
  Users = {u1, u2}
  Tokens = {t1}
  Names = {n1}
  Machines = {m1}
  MaxSerial = 2
  Faults = {"restart", "lost", "revoke", "disk", "crash", "race", "stale"}
  MaxFaults = 1
INVARIANTS TypeOK OneAdmin 
PROPERTIES GetsToItsLoop
