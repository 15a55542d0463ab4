CONSTANTS
  Platforms = {"posix"}
  NoProc = NoProc
  MaxSpawns <- MCMaxSpawns
SPECIFICATION Spec
PROPERTY Isolation
\* main() returns on quit, Ctrl+C and end of input.
CHECK_DEADLOCK FALSE
