----------------------------- MODULE OSProcesses -----------------------------
(***************************************************************************)
(* The operating system as both launchers see it.  Every subprocess.Popen  *)
(* of a service starts a process tree of two processes:                    *)
(*   - the root, the command the launcher runs and whose Popen handle it  *)
(*     keeps ("go run ." for the backend, "npm run dev" for the frontend); *)
(*   - the child that root forks and that really serves (the binary "go    *)
(*     run" builds, named new-api; the vite dev server, a node process).   *)
(* Both write into the one stdout pipe the launcher reads.  A process is  *)
(* named by its service, the generation (the how-many-th Popen of that    *)
(* service) and its role.  Processes may end on their own at any time     *)
(* (compile error, port in use, crash), and a graceful termination signal *)
(* (SIGTERM, taskkill without /F, pkill) may be handled slowly or         *)
(* ignored; a forced one (SIGKILL, TerminateProcess, taskkill /F) is not. *)
(***************************************************************************)
EXTENDS Naturals, FiniteSets

CONSTANTS
  Platforms,  \* the platforms to check: "win32", "posix" (any other sys.platform)
  MaxSpawns   \* bound: successful Popen calls per service

ASSUME Platforms \subseteq {"win32", "posix"}
ASSUME MaxSpawns \in Nat \ {0}

VARIABLES
  platform,   \* sys.platform as the launchers test it; fixed by Init
  alive,      \* the processes of the service trees that are running
  born        \* every process ever started (a root forks its child once)

osVars == <<alive, born>>

\* The launcher runs on one platform; Init picks it.
PlatformInit == platform \in Platforms

Services == {"backend", "frontend"}
Gens == 1..MaxSpawns
Procs == [svc : Services, gen : Gens, role : {"root", "child"}]

Root(s, g) == [svc |-> s, gen |-> g, role |-> "root"]
Child(s, g) == [svc |-> s, gen |-> g, role |-> "child"]

LiveRoots(al) == {p \in al : p.role = "root"}

\* The name a pattern kill (taskkill /IM, pkill -f) matches the process by.
\* On win32 npm.cmd runs in a cmd.exe that ends as soon as the node process
\* it runs ends; the two are one root here.
Image(p) ==
  CASE p.svc = "backend" /\ p.role = "root" -> "go"
    [] p.svc = "backend"                      -> "new-api"
    [] OTHER                                  -> "node"

ByImage(al, names) == {p \in al : Image(p) \in names}

\* taskkill /T /PID: the root and the processes it forked, while it lives.
TreeOf(al, s, g) ==
  IF Root(s, g) \in al THEN {p \in al : p.svc = s /\ p.gen = g} ELSE {}

\* The processes that can still be alive after a signal is sent to T: none
\* for a forced kill, any subset of T for a graceful one.
Survivors(T, forced) == IF forced THEN {{}} ELSE SUBSET T

\* subprocess.Popen of the next generation of service s: the root starts;
\* the call fails (missing executable or directory) without starting one.
SpawnRoot(s, g) ==
  /\ alive' = alive \cup {Root(s, g)}
  /\ born' = born \cup {Root(s, g)}

-----------------------------------------------------------------------------
(* The processes' own steps.                                              *)

\* The root forks the serving child (go run starts the built binary, npm
\* starts vite); the child inherits the pipe and, on posix, the group.
Fork(s, g) ==
  /\ Root(s, g) \in alive
  /\ Child(s, g) \notin born
  /\ alive' = alive \cup {Child(s, g)}
  /\ born' = born \cup {Child(s, g)}

\* A process ends on its own.
Exit(p) ==
  /\ p \in alive
  /\ alive' = alive \ {p}
  /\ UNCHANGED born

OSNext ==
  \/ \E s \in Services, g \in Gens : Fork(s, g)
  \/ \E p \in alive : Exit(p)

OSTypeOK ==
  /\ platform \in {"win32", "posix"}
  /\ alive \subseteq born
  /\ born \subseteq Procs
=============================================================================
