\* Two callers: a stream's cursor passes an event that is still to come.
CONSTANTS
  Callers = {c1, c2}
  Watchers = {w1}
  Names = {n1, n2}
  NoObject = NoObject
  NoCaller = NoCaller
  Faults = {}
  MaxVersion = 3
SPECIFICATION Spec
INVARIANTS NothingSkipped
