CONSTANTS
  Platforms = {"win32"}
  MaxSpawns = 2
  PumpKinds = {"cli"}
  MaxLines <- MCMaxLines
  PipeCap <- MCPipeCap
SPECIFICATION Spec
PROPERTY OutputNeverBlocks
\* The pump thread ends once the tree has exited.
CHECK_DEADLOCK FALSE
