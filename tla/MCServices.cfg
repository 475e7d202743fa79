SPECIFICATION FairSpec
CONSTANTS
  NoRow = NoRow
  Nowhere = Nowhere
  Names = {1, 2}
  Containers = {c1}
  Workers = {w1, w2}
  Addressed = {w1}
  Node = w1
  MaxPort = 2
  Contended = {1}
  Asks <- Bodies
  Statuses = {{}}
  Handlers = {h1, h2}
  MaxRequests = 3
  MaxChanges = 2
INVARIANTS TypeOK OneOwner
PROPERTIES NeverRepointed Converges
