CONSTANTS
  Platforms = {"posix"}
  MaxSpawns = 2
  PumpKinds = {"gui"}
  MaxLines <- MCMaxLines
  PipeCap <- MCPipeCap
SPECIFICATION Spec
PROPERTY LinesEventuallyShown
\* The pump thread ends once the tree has exited.
CHECK_DEADLOCK FALSE
