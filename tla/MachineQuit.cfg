CONSTANTS
  BufSize = 2
  MaxKeys = 1
  SCREEN_WIDTH = 1
  SCREEN_HEIGHT = 1
  NUL = NUL
  Char = {NUL}
  GuestAttr = {}
  RefreshRate = 2
SPECIFICATION FairSpec
PROPERTY QuitTurnsOff
