CONSTANTS
  Platforms = {"win32"}
  NoProc = NoProc
  MaxSpawns <- MCMaxSpawns
SPECIFICATION Spec
INVARIANT NoOrphanAtExit
\* main() returns on quit, Ctrl+C and end of input.
CHECK_DEADLOCK FALSE
