CONSTANTS
  TagCount = 3
  Reg = {"r1", "r2"}
  NoReg = "none"
  EX1_BYPASS = TRUE
  Insns <- AllInsns
SPECIFICATION MCSpec
INVARIANTS TypeOK TagWindow OperandsFresh SglAlone
PROPERTY Unblocked
