\* Two callers on two names, no faults.
CONSTANTS
  Callers = {c1, c2}
  Watchers = {w1}
  Names = {n1, n2}
  NoObject = NoObject
  NoCaller = NoCaller
  Faults = {}
  MaxVersion = 4
SPECIFICATION Spec
INVARIANTS TypeOK LogIsHistory
PROPERTIES CasReplacesWhatWasRead CasMovesForward NeverTwice ImplementsAtomicStore
