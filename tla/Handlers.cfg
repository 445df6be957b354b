SPECIFICATION HandlersSpec
CONSTANTS
  NibbleBits = 1
  ByteBits = 2
  RAM_SIZE = 37
  CS_BASE = 2
  CS_LIMIT = 8
  SS_TOP = 36
  MaxSteps = 4
  Instr <- HandlersInstr
  JunkDword = {9}
  JunkFlags = {{}}
INVARIANT ExecutorTypeOK
PROPERTIES FailureIsClean OlderSlotsKept NamedRegistersOnly
CHECK_DEADLOCK FALSE
