CONSTANTS
  BufSize = 1
  MaxKeys = 0
  SCREEN_WIDTH = 2
  SCREEN_HEIGHT = 1
  NUL = NUL
  Char = {NUL, A}
  GuestAttr = {2, 9}
  RefreshRate = 3
SPECIFICATION FairSpec
INVARIANTS DirtyListMatchesMap CleanCellsShown ScreenIsRecent
PROPERTIES DrivesVga ImplementsFramebuffer StoresShown
