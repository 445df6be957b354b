CONSTANTS
  BufSize = 2
  MaxKeys = 4
  SCREEN_WIDTH = 1
  SCREEN_HEIGHT = 1
  NUL = NUL
  Char = {NUL}
  GuestAttr = {}
  RefreshRate = 2
SPECIFICATION FairSpec
INVARIANTS MachineTypeOK QueueIsMailbox NoKeyLost
PROPERTIES DeliveredInOrder PolledReadIsFresh ImplementsFifo FrozenAtEnd QuitStops KeysArrive
