CONSTANTS
  Instances = {i1, i2}
  Endless = {i1}
  Keys = {"s", "q", "1"}
  Vcs = 1
  MaxTyped = 3
SPECIFICATION Spec
INVARIANTS
  KeysArrive
  CarefulIsSafe
  CommandsAreTyped
PROPERTIES
  KeysAreHandled
\* The process may end.
CHECK_DEADLOCK FALSE
