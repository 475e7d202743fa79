\* Two callers, failing statements and restarts, one stream.
CONSTANTS
  Callers = {c1, c2}
  Watchers = {w1}
  Names = {n1, n2}
  NoObject = NoObject
  NoCaller = NoCaller
  Faults = {"crash", "sqlite"}
  MaxVersion = 4
SPECIFICATION Spec
INVARIANTS UniqueVersions OnlyLateEventsAreSkipped
