CONSTANTS
  Platforms = {"win32", "posix"}
  NoProc = NoProc
  MaxSpawns <- MCMaxSpawns
  MaxPending <- MCMaxPendingLifecycle
SPECIFICATION Spec
PROPERTY ImplementsLifecycle
\* The launcher exits when its window is closed.
CHECK_DEADLOCK FALSE
