SPECIFICATION Spec
CONSTANTS
  Fetches = {5, 15, 21}
  MaxLines = 2
  Leftovers = {0, 60, 200}
INVARIANT BypassTrue
CHECK_DEADLOCK FALSE
