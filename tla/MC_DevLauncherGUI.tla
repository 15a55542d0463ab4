-------------------------- MODULE MC_DevLauncherGUI --------------------------
(* Instantiates DevLauncherGUI for TLC: two Popen calls per service are    *)
(* enough for a second launch beside or after a first one, and two pending *)
(* after() callbacks for a restart's start to race a close's destroy.      *)
EXTENDS DevLauncherGUI

MCMaxSpawns == 2
MCMaxPending == 2

\* The refinement check (gui_lifecycle) evaluates the mapping on every
\* step; one pending callback still lets every delayed start fire between
\* any clicks.
MCMaxPendingLifecycle == 1
=============================================================================
