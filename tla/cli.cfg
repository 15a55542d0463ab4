CONSTANTS
  Platforms = {"win32", "posix"}
  NoProc = NoProc
  MaxSpawns <- MCMaxSpawns
SPECIFICATION Spec
INVARIANT TypeOK
INVARIANT NoUntrackedRoot
PROPERTY StopAllEndsServicesWin32
PROPERTY ManagerImplementsLifecycle
\* main() returns on quit, Ctrl+C and end of input.
CHECK_DEADLOCK FALSE
