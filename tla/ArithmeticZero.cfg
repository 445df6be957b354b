SPECIFICATION ArithSpec
CONSTANTS
  NibbleBits = 1
  ByteBits = 2
  RAM_SIZE = 9
  CS_BASE = 0
  CS_LIMIT = 4
  SS_TOP = 8
  Words = {0, 1, 127, 128, 254, 255}
  Instr <- ArithInstr
  JunkDword = {0}
  JunkFlags <- AllJunk
INVARIANT ZeroFlagRight
CHECK_DEADLOCK FALSE
