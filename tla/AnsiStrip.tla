------------------------------ MODULE AnsiStrip ------------------------------
(***************************************************************************)
(* The colour-code stripping of the GUI pump (dev_launcher_gui.py,        *)
(* stream_output): re.sub(r'\x1b\[[0-9;]*m', '', line), applied to every  *)
(* line readline() returns and to every line of the final read().  re.sub *)
(* scans left to right: where the pattern matches it deletes the match    *)
(* and goes on after it, elsewhere it keeps one character and moves on.   *)
(* Characters are abstracted to classes: "ESC" (\x1b), "[", "0" (any      *)
(* digit), ";", "m", and "x" (any other character, K, J, H and letters).  *)
(* A line is grown one character at a time, so that every line up to     *)
(* MaxLen characters is checked.                                         *)
(***************************************************************************)
EXTENDS Naturals, Sequences, SequencesExt

CONSTANT MaxLen   \* bound: characters in a line

ASSUME MaxLen \in Nat

Esc == "ESC"
Chars == {Esc, "[", "0", ";", "m", "x"}

\* The class [0-9;].
Params == {"0", ";"}

VARIABLE line     \* the line the pump has read so far

-----------------------------------------------------------------------------
\* The index of the first character from i on that is not in [0-9;]: the
\* greedy [0-9;]* stops there.
RECURSIVE ParamEnd(_, _)
ParamEnd(t, i) == IF i <= Len(t) /\ t[i] \in Params THEN ParamEnd(t, i + 1) ELSE i

\* The length of the match of \x1b\[[0-9;]*m at the start of t, 0 if the
\* pattern does not match there.  "m" is not in [0-9;], so the greedy
\* match is the only one.
MatchLen(t) ==
  IF Len(t) >= 2 /\ t[1] = Esc /\ t[2] = "["
  THEN LET e == ParamEnd(t, 3) IN IF e <= Len(t) /\ t[e] = "m" THEN e ELSE 0
  ELSE 0

\* re.sub(pattern, '', t).
RECURSIVE Strip(_)
Strip(t) ==
  IF t = <<>> THEN <<>>
  ELSE IF MatchLen(t) > 0 THEN Strip(SubSeq(t, MatchLen(t) + 1, Len(t)))
  ELSE <<Head(t)>> \o Strip(Tail(t))

-----------------------------------------------------------------------------
\* The service writes the next character of the line.
Write(c) ==
  /\ Len(line) < MaxLen
  /\ line' = Append(line, c)

Init == line = <<>>

Next == \E c \in Chars : Write(c)

Spec == Init /\ [][Next]_line

-----------------------------------------------------------------------------
\* A colour code as the pattern describes it: ESC, "[", parameters, "m".
IsSgr(u) ==
  /\ Len(u) >= 3
  /\ u[1] = Esc /\ u[2] = "[" /\ u[Len(u)] = "m"
  /\ \A k \in 3..(Len(u) - 1) : u[k] \in Params

(* No colour code reaches the log: the text re.sub leaves contains no    *)
(* ESC [ [0-9;]* m (the spec: "ANSI escape sequences never appear in     *)
(* delivered text"; the code's comment: clean the ANSI escape sequences). *)
NoSgrDelivered == ~\E u \in SubSeqs(Strip(line)) : IsSgr(u)
=============================================================================
