CONSTANTS
  Platforms = {"win32"}
  NoProc = NoProc
  MaxSpawns <- MCMaxSpawns
  MaxPending <- MCMaxPending
SPECIFICATION Spec
INVARIANT NoOrphanAtExit
\* The launcher exits when its window is closed.
CHECK_DEADLOCK FALSE
