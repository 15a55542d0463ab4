CONSTANTS
  Platforms = {"win32", "posix"}
  NoProc = NoProc
  MaxSpawns <- MCMaxSpawns
  MaxPending <- MCMaxPending
SPECIFICATION Spec
INVARIANT TypeOK
INVARIANT NoUntrackedRootWin32
PROPERTY Isolation
PROPERTY StopAllEndsServicesWin32
\* The launcher exits when its window is closed.
CHECK_DEADLOCK FALSE
