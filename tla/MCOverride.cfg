CONSTANTS
  Givens = {{"url", "channel"}, {"channel"}}
  MaxEntries = 1
  MaxNum = 2
SPECIFICATION OptSpec
INVARIANT ArgumentsOverride
CHECK_DEADLOCK FALSE
