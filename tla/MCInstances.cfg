CONSTANTS
  N = 2
  Kinds = {"once", "endless", "broken"}
  MaxSignals = 2
SPECIFICATION Spec
INVARIANTS
  StatsLast
  NothingLeftBehind
PROPERTIES
  ProcessEnds
\* The process ends.
CHECK_DEADLOCK FALSE
