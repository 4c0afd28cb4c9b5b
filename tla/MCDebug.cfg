SPECIFICATION Spec
CONSTANTS
  MEM_WORDS = 3
  LOG_LENGTH = 4
  LOG_WORDS = 2
  Scenarios <- MCScenarios
INVARIANTS CommandsTrue ExactlyOnce
PROPERTIES CrossingSafe ClientEnds
CHECK_DEADLOCK FALSE
