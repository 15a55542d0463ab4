CONSTANTS
  Platforms = {"win32", "posix"}
  MaxSpawns = 2
  PumpKinds = {"gui", "cli"}
  MaxLines <- MCMaxLines
  PipeCap <- MCPipeCap
SPECIFICATION Spec
INVARIANT TypeOK
INVARIANT NoLineLost
PROPERTY PumpEnds
PROPERTY Utf8OutputNeverBlocks
PROPERTY CliLinesEventuallyShown
\* The pump thread ends once the tree has exited.
CHECK_DEADLOCK FALSE
