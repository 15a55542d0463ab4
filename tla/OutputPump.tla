------------------------------ MODULE OutputPump ------------------------------
(***************************************************************************)
(* The pump thread stream_output that each start_* starts for its Popen,  *)
(* and the log queue it feeds.  Each Popen of the backend starts a        *)
(* process tree (the root and the child it forks, OSProcesses) that       *)
(* writes numbered lines into its own stdout pipe, and a pump thread of   *)
(* its own; every pump puts its lines, under the one tag of the service,  *)
(* into the one log_queue.  A new Popen is made once the held root has    *)
(* exited (start_*'s poll() guard), while the old tree's child and pump   *)
(* may still be at work.  The GUI pump (dev_launcher_gui.py)   *)
(* loops "while process.poll() is None: readline()", then reads the rest  *)
(* with one read() and splits it into lines; it puts each line on         *)
(* log_queue, which process_log_queue empties into the text widget every  *)
(* 100 ms.  The console pump (dev_manager.py) loops over                  *)
(* iter(process.stdout.readline, '') and prints each line.                *)
(* readline() and read() block until a line, resp. end of file, is there; *)
(* end of file comes when no process holding the pipe is left.  Line      *)
(* content, the "[name]" prefix and the ANSI stripping are left out.      *)
(***************************************************************************)
EXTENDS OSProcesses, Sequences

CONSTANTS
  PumpKinds,  \* the pumps to check: "gui" (dev_launcher_gui.stream_output),
              \* "cli" (dev_manager.stream_output)
  MaxLines,   \* bound: lines each tree writes
  PipeCap     \* lines the OS pipe buffer holds before a write blocks

ASSUME PumpKinds \subseteq {"gui", "cli"}
ASSUME MaxLines \in Nat \ {0}
ASSUME PipeCap \in Nat \ {0}

VARIABLES
  kind,       \* which program's pump reads the pipes; fixed by Init
  written,    \* written[g]: lines tree g wrote into its pipe: 1..written[g]
  nread,      \* nread[g]: lines pump g has taken out of its pipe
  held,       \* held[g]: of those, lines inside the final read() (gui)
  pc,         \* pc[g], pump g: "none" (no Popen yet), "poll", "readline",
              \* "rest" (in the final read()), "done", "failed" (ended by
              \* an exception)
  queue,      \* log_queue (gui) as a sequence of [gen, n]
  shown       \* the text widget (gui) or the console (cli)

vars == <<kind, platform, alive, born, written, nread, held, pc, queue, shown>>

Svc == "backend"
Tree(g) == {Root(Svc, g), Child(Svc, g)}

\* Pipe g reaches end of file once no process of tree g is running.
Eof(g) == alive \cap Tree(g) = {}

\* Lines a..b of tree g.
Lines(g, a, b) == [i \in 1..(b - a + 1) |-> [gen |-> g, n |-> a + i - 1]]

\* The lines of tree g in a sequence of lines.
Of(g, s) == SelectSeq(s, LAMBDA l : l.gen = g)

Started(g) == pc[g] /= "none"

\* The pipe buffer of tree g is full: a process writing to it blocks.
PipeFull(g) == written[g] - nread[g] = PipeCap

-----------------------------------------------------------------------------
(* The processes write; they fork and exit by OSNext.                     *)
Write(p) ==
  /\ p \in alive
  /\ written[p.gen] < MaxLines
  /\ ~PipeFull(p.gen)
  /\ written' = [written EXCEPT ![p.gen] = @ + 1]
  /\ UNCHANGED <<alive, born, nread, held, pc, queue, shown>>

\* start_backend once poll() reports the held root's exit: the next Popen
\* and its pump thread (the restart button, a delayed start, a command).
Respawn(g) ==
  /\ g - 1 \in Gens
  /\ Started(g - 1) /\ ~Started(g)
  /\ Root(Svc, g - 1) \notin alive
  /\ SpawnRoot(Svc, g)
  /\ pc' = [pc EXCEPT ![g] = IF kind = "gui" THEN "poll" ELSE "readline"]
  /\ UNCHANGED <<written, nread, held, queue, shown>>

-----------------------------------------------------------------------------
(* The GUI pump g.                                                         *)

\* A variant of the loop that never tests poll() and keeps calling readline().
PollIgnored(g) ==
  /\ kind = "gui"
  /\ pc[g] = "poll"
  /\ pc' = [pc EXCEPT ![g] = "readline"]
  /\ UNCHANGED <<alive, born, written, nread, held, queue, shown>>

\* while process.poll() is None: the loop test looks at the root only.
PollCheck(g) ==
  /\ kind = "gui"
  /\ pc[g] = "poll"
  /\ pc' = [pc EXCEPT ![g] = IF Root(Svc, g) \in alive THEN "readline" ELSE "rest"]
  /\ UNCHANGED <<alive, born, written, nread, held, queue, shown>>

\* A variant of the GUI loop that, once poll() reports the exit, returns
\* without reading what is left in the pipe.
ReadRestSkipped(g) ==
  /\ pc[g] = "rest"
  /\ pc' = [pc EXCEPT ![g] = "done"]
  /\ UNCHANGED <<alive, born, written, nread, held, queue, shown>>

\* A variant that puts the count of lines read before this one.
GuiReadlineOffByOne(g) ==
  /\ kind = "gui"
  /\ pc[g] = "readline"
  /\ \/ /\ nread[g] < written[g]
        /\ nread' = [nread EXCEPT ![g] = @ + 1]
        /\ queue' = Append(queue, [gen |-> g, n |-> nread[g]])
     \/ /\ nread[g] = written[g]
        /\ Eof(g)
        /\ UNCHANGED <<nread, queue>>
  /\ pc' = [pc EXCEPT ![g] = "poll"]
  /\ UNCHANGED <<alive, born, written, held, shown>>

\* line = readline(); if line: put it on log_queue.  At end of file
\* readline() returns '' and the loop tests poll() again.
GuiReadline(g) ==
  /\ kind = "gui"
  /\ pc[g] = "readline"
  /\ \/ /\ nread[g] < written[g]
        /\ nread' = [nread EXCEPT ![g] = @ + 1]
        /\ queue' = Append(queue, [gen |-> g, n |-> nread[g] + 1])
     \/ /\ nread[g] = written[g]
        /\ Eof(g)
        /\ UNCHANGED <<nread, queue>>
  /\ pc' = [pc EXCEPT ![g] = "poll"]
  /\ UNCHANGED <<alive, born, written, held, shown>>

\* remaining = process.stdout.read(): read() keeps taking what the tree
\* writes into its own buffer until end of file ...
ReadMore(g) ==
  /\ pc[g] = "rest"
  /\ nread[g] < written[g]
  /\ nread' = [nread EXCEPT ![g] = @ + 1]
  /\ held' = [held EXCEPT ![g] = @ + 1]
  /\ UNCHANGED <<alive, born, written, pc, queue, shown>>

\* ... and returns at end of file; each line of remaining.splitlines()
\* goes on log_queue.
ReadRest(g) ==
  /\ pc[g] = "rest"
  /\ Eof(g)
  /\ nread[g] = written[g]
  /\ queue' = queue \o Lines(g, nread[g] - held[g] + 1, nread[g])
  /\ held' = [held EXCEPT ![g] = 0]
  /\ pc' = [pc EXCEPT ![g] = "done"]
  /\ UNCHANGED <<alive, born, written, nread, shown>>

\* process_log_queue: get_nowait until Empty, inserting each message.
ProcessLogQueue ==
  /\ kind = "gui"
  /\ queue /= <<>>
  /\ shown' = shown \o queue
  /\ queue' = <<>>
  /\ UNCHANGED <<alive, born, written, nread, held, pc>>

-----------------------------------------------------------------------------
(* The console pump g: for line in iter(readline, ''): if line: print.    *)

\* A variant that reads the whole output with one read() and prints it at
\* end of file.
CliReadAll(g) ==
  /\ kind = "cli"
  /\ pc[g] = "readline"
  /\ Eof(g)
  /\ nread' = [nread EXCEPT ![g] = written[g]]
  /\ shown' = shown \o Lines(g, nread[g] + 1, written[g])
  /\ pc' = [pc EXCEPT ![g] = "done"]
  /\ UNCHANGED <<alive, born, written, held, queue>>

CliReadline(g) ==
  /\ kind = "cli"
  /\ pc[g] = "readline"
  /\ \/ /\ nread[g] < written[g]
        /\ nread' = [nread EXCEPT ![g] = @ + 1]
        /\ shown' = Append(shown, [gen |-> g, n |-> nread[g] + 1])
        /\ UNCHANGED pc
     \/ /\ nread[g] = written[g]
        /\ Eof(g)
        /\ pc' = [pc EXCEPT ![g] = "done"]
        /\ UNCHANGED <<nread, shown>>
  /\ UNCHANGED <<alive, born, written, held, queue>>

\* The console's Popen sets text=True without an encoding, so the pipe is
\* decoded with the locale's code page; on win32 that is the ANSI code
\* page (cp1252, cp936, ...), not the UTF-8 that go and vite write, and
\* readline() can raise UnicodeDecodeError on a line.  The bare except
\* swallows it and the thread ends: nothing is printed, and nobody reads
\* the pipe any more.  (The GUI's Popen decodes UTF-8 with
\* errors='replace' and cannot meet this error.)
CliReadError(g) ==
  /\ kind = "cli"
  /\ platform = "win32"
  /\ pc[g] = "readline"
  /\ nread[g] < written[g]
  /\ pc' = [pc EXCEPT ![g] = "failed"]
  /\ UNCHANGED <<alive, born, written, nread, held, queue, shown>>

-----------------------------------------------------------------------------
\* The first Popen has started its root and its pump thread.
Init ==
  /\ kind \in PumpKinds
  /\ PlatformInit
  /\ alive = {Root(Svc, 1)}
  /\ born = {Root(Svc, 1)}
  /\ written = [g \in Gens |-> 0]
  /\ nread = [g \in Gens |-> 0]
  /\ held = [g \in Gens |-> 0]
  /\ pc = [g \in Gens |-> IF g > 1 THEN "none" ELSE IF kind = "gui" THEN "poll" ELSE "readline"]
  /\ queue = <<>>
  /\ shown = <<>>

Pump(g) ==
  \/ PollCheck(g) \/ GuiReadline(g) \/ ReadMore(g) \/ ReadRest(g)
  \/ CliReadline(g) \/ CliReadError(g)

TreeStep ==
  \/ \E p \in alive : Write(p)
  \/ \E g \in Gens : Respawn(g)
  \/ OSNext /\ UNCHANGED <<written, nread, held, pc, queue, shown>>

Next == ((\E g \in Gens : Pump(g)) \/ ProcessLogQueue \/ TreeStep) /\ UNCHANGED <<kind, platform>>

\* Each pump thread runs whenever it can, and Tk's mainloop runs
\* process_log_queue every 100 ms; the processes owe nothing.
Spec ==
  /\ Init /\ [][Next]_vars
  /\ \A g \in Gens : WF_vars(Pump(g) /\ UNCHANGED <<kind, platform>>)
  /\ WF_vars(ProcessLogQueue /\ UNCHANGED <<kind, platform>>)

-----------------------------------------------------------------------------
TypeOK ==
  /\ kind \in {"gui", "cli"}
  /\ OSTypeOK
  /\ written \in [Gens -> 0..MaxLines]
  /\ \A g \in Gens : nread[g] \in 0..written[g] /\ held[g] \in 0..nread[g]
  /\ pc \in [Gens -> {"none", "poll", "readline", "rest", "done", "failed"}]
  /\ queue \in Seq([gen : Gens, n : 1..MaxLines])
  /\ shown \in Seq([gen : Gens, n : 1..MaxLines])

(* A process of a service never stays blocked writing its output: once   *)
(* its pipe buffer is full, the pump thread eventually reads from it     *)
(* again, or no process of the tree is left (the spec, 5: nothing may    *)
(* stall the child by leaving its pipe unread).  The GUI's final read()  *)
(* keeps draining the pipe while the root's child still writes.          *)
OutputNeverBlocks ==
  \A g \in Gens : (PipeFull(g) /\ ~Eof(g)) ~> (~PipeFull(g) \/ Eof(g))

(* The same where reading the pipe cannot fail: the GUI, which decodes    *)
(* UTF-8 with errors='replace', and the console on posix, whose locale is *)
(* UTF-8.                                                                 *)
Utf8OutputNeverBlocks == (kind = "gui" \/ platform = "posix") => OutputNeverBlocks

(* The lines of each Popen reach the log in the order its tree wrote     *)
(* them, whatever the lines of the other Popen under the same tag do (the *)
(* spec: lines are never reordered relative to their own producer), and  *)
(* when a pump thread ends it has taken every line of its pipe: the final *)
(* read() after poll() reports the exit loses nothing, the child's late  *)
(* lines included.                                                        *)
NoLineLost ==
  \A g \in Gens :
    /\ Of(g, shown \o queue) = Lines(g, 1, nread[g] - held[g])
    /\ pc[g] = "done" => nread[g] = written[g]

(* Once no process of its tree is left, a started pump thread ends.       *)
PumpEnds == \A g \in Gens : (Started(g) /\ Eof(g)) ~> (pc[g] \in {"done", "failed"})

(* Every line a process writes is eventually shown, also while a process *)
(* of its tree still runs (the spec, 4.3: the pump reads line by line and *)
(* pushes each line; at end of file it only drains the last partial      *)
(* line).  The GUI pump holds everything after the root's exit in its    *)
(* final read() until the whole tree has exited.                         *)
LinesEventuallyShown ==
  \A g \in Gens, n \in 1..MaxLines : (written[g] >= n) ~> (Len(Of(g, shown)) >= n)

(* The console pump does what the spec asks where its decoding cannot     *)
(* fail (posix): it prints each line while the service still runs.        *)
CliLinesEventuallyShown == kind = "cli" /\ platform = "posix" => LinesEventuallyShown
=============================================================================
