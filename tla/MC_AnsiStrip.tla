---------------------------- MODULE MC_AnsiStrip ----------------------------
(* Lines of up to six characters: a colour code removed from between an   *)
(* ESC and a "[...m" takes three characters, the code it leaves three.    *)
EXTENDS AnsiStrip

MCMaxLen == 6
=============================================================================
