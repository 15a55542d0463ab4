---------------------------- MODULE MC_OutputPump ----------------------------
(* Instantiates OutputPump for TLC: two Popens of the backend (a restart  *)
(* while the first tree's child and pump still run), each tree writing    *)
(* three lines, enough for a line to be written before and after its      *)
(* root's exit and after the pump's last poll().                          *)
EXTENDS OutputPump

MCMaxLines == 3

\* A pipe buffer of two lines: a tree can fill it and still have a line
\* left to write.
MCPipeCap == 2
=============================================================================
