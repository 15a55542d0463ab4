---------------------------- MODULE MC_DevManager ----------------------------
(* Instantiates DevManager for TLC: two Popen calls per service, enough for *)
(* a restart to launch a second generation beside or after the first.      *)
EXTENDS DevManager

MCMaxSpawns == 2
=============================================================================
