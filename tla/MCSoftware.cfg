SPECIFICATION SoftwareSpec
CONSTANTS
  Typed <- MCTyped
  Strings <- MCStrings
  Frequencies = {50000000}
  MaxOut = 3
  BITWIDTH = 434
  SOC_BIT = 432
  RX_INTERVAL = 1000
  Sends <- MCSends
  Keys <- MCKeys
  Gaps = {0, 300}
  Boards <- MCBoards
  MaxResets = 2
  Calls <- MCCalls
  CHAR_BITS = 3
  BYTE = 3
  WORD = 2
  PAGE = 4
  Files <- MCFiles
  Sizes = {4, 8}
  Vectors <- MCVectors
  MAX_REGIONS = 2
  MaxAccesses = 2
  Messages <- MCMessages
  Fetches = {5, 15, 21}
  MaxLines = 2
  Leftovers = {0, 60, 200}
  MaxEdges = 2
INVARIANTS ConsoleFaithful LineFaithful FlashSafe ProgramReady LibraryRight CallsTrue LogTrue
PROPERTIES GetcharReturns MainReturns
CHECK_DEADLOCK FALSE
