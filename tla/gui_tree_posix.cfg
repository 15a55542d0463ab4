CONSTANTS
  Platforms = {"posix"}
  NoProc = NoProc
  MaxSpawns <- MCMaxSpawns
  MaxPending <- MCMaxPending
SPECIFICATION Spec
PROPERTY StopEndsTree
\* The launcher exits when its window is closed.
CHECK_DEADLOCK FALSE
