SPECIFICATION FairSpec
CONSTANTS
  RAM_SIZE = 2060
  CONSOLE_BASE_ADDR = 2060
  CONSOLE_SIZE = 4
  VGA_BASE_ADDR = 2068
  VGA_SIZE = 4
  KEYBOARD_BASE_ADDR = 2076
  KEYBOARD_SIZE = 4
  BUFF_SIZE = 4
  FirstCapacity = 4
  MatrixSize = 4
  Path <- MCPath
  Millis <- MCMillis
  Inputs <- MCInputs
  Eips = {0, 1, 3, 4, 5, 8, 9, 11, 20}
  Failures = {"BAD_DECODE", "FAILED_SEGBOUND_CHECK"}
INVARIANTS StartupTypeOK BytesAreText ImageExact SegmentsAsWritten MachineComplete PreviewRight DelayAsGiven
PROPERTY StartupEnds
