SPECIFICATION StackSpec
CONSTANTS
  NibbleBits = 1
  ByteBits = 2
  RAM_SIZE = 11
  CS_BASE = 2
  CS_LIMIT = 3
  SS_TOP = 10
  Instr <- StackInstr
  JunkDword = {9}
  JunkFlags = {{}}
INVARIANT JumpStaysInSegment
CHECK_DEADLOCK FALSE
