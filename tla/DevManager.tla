------------------------------ MODULE DevManager ------------------------------
(***************************************************************************)
(* The console manager of src/dev_manager.py.  One thread runs main():    *)
(* start_backend, time.sleep(2), start_frontend, then a loop reading a    *)
(* command and running its handler to the end; the pump threads only     *)
(* print.  Each handler is one step, its sleeps included; what            *)
(* interleaves is the processes themselves and Ctrl+C.                    *)
(*                                                                         *)
(* The children are started in the manager's own process group on posix  *)
(* (creationflags=0, no new session) and in a new group on win32          *)
(* (CREATE_NEW_PROCESS_GROUP).  A handler is written as a map from a      *)
(* configuration [al (alive), bn (born), pr (processes), mgr] to the set  *)
(* of configurations it can end in, so that the steps of stop_all and     *)
(* restart_all compose in order and stop when the manager is killed.      *)
(* status, help, an empty or unknown command change nothing and are not   *)
(* steps.                                                                 *)
(***************************************************************************)
EXTENDS OSProcesses

CONSTANTS NoProc   \* processes[name] is None

ASSUME NoProc \notin Gens

VARIABLES
  processes,  \* the module-level dict: service -> generation of its Popen
  phase       \* where main() is: "boot" (before start_backend), "sleep"
              \* (in time.sleep(2)), "loop", "exited", or "killed" (the
              \* manager process died of a signal)

vars == <<platform, alive, born, processes, phase>>

Now == [al |-> alive, bn |-> born, pr |-> processes, mgr |-> "running"]

\* Run Op on every configuration of S in which the manager still lives.
Then(S, Op(_)) == UNION {IF c.mgr = "killed" THEN {c} ELSE Op(c) : c \in S}

Polling(c, s) == c.pr[s] /= NoProc /\ Root(s, c.pr[s]) \in c.al

\* A variant that numbers a new Popen like the last one.
NextGenReused(c, s) == Cardinality({p \in c.bn : p.svc = s /\ p.role = "root"})

NextGen(c, s) == Cardinality({p \in c.bn : p.svc = s /\ p.role = "root"}) + 1

-----------------------------------------------------------------------------
(* start_backend / start_frontend: return if the held process runs;      *)
(* otherwise Popen and start the pump thread; a failing Popen is logged. *)
\* A variant of start_* without the poll() guard.
StartUnguarded(c, s) ==
  {c} \cup
    IF NextGen(c, s) > MaxSpawns THEN {}
    ELSE {[c EXCEPT !.al = @ \cup {Root(s, NextGen(c, s))},
                    !.bn = @ \cup {Root(s, NextGen(c, s))},
                    !.pr[s] = NextGen(c, s)]}

\* A variant in which start_frontend tests the backend's handle, a copy
\* of start_backend's guard left unedited.
StartOtherGuard(c, s) ==
  IF Polling(c, "backend") THEN {c}
  ELSE {c} \cup
       IF NextGen(c, s) > MaxSpawns THEN {}
       ELSE {[c EXCEPT !.al = @ \cup {Root(s, NextGen(c, s))},
                       !.bn = @ \cup {Root(s, NextGen(c, s))},
                       !.pr[s] = NextGen(c, s)]}

Start(c, s) ==
  IF Polling(c, s) THEN {c}
  ELSE {c} \cup
       IF NextGen(c, s) > MaxSpawns THEN {}
       ELSE {[c EXCEPT !.al = @ \cup {Root(s, NextGen(c, s))},
                       !.bn = @ \cup {Root(s, NextGen(c, s))},
                       !.pr[s] = NextGen(c, s)]}

StartBackend(c) == Start(c, "backend")
StartFrontend(c) == Start(c, "frontend")

(* stop_process(name), running branch.  win32: taskkill /F /T /PID ends  *)
(* the tree; posix: os.killpg(os.getpgid(pid), SIGTERM) signals the      *)
(* child's group, which is the manager's own: every launched process     *)
(* gets SIGTERM and may outlive it, and the manager dies of it before    *)
(* killpg returns.  Otherwise proc.wait(timeout=5), proc.kill() on        *)
(* timeout, and the handle is forgotten.                                  *)
KillTree(c, s) ==
  IF platform = "win32"
  THEN {[c EXCEPT !.al = @ \ (TreeOf(@, s, c.pr[s]) \cup {Root(s, c.pr[s])}),
                  !.pr[s] = NoProc]}
  ELSE {[c EXCEPT !.al = left, !.mgr = "killed"] : left \in SUBSET c.al}

StopProcess(c, s) == IF Polling(c, s) THEN KillTree(c, s) ELSE {c}

\* A variant of stop_all that stops only the frontend.
StopAllFrontendOnly(c) == StopProcess(c, "frontend")

\* stop_all: stop_process("frontend"), then stop_process("backend").
StopAll(c) == Then(StopProcess(c, "frontend"), LAMBDA d : StopProcess(d, "backend"))

\* restart_all: stop_all, sleep(1), start_backend, start_frontend.
RestartAll(c) == Then(Then(StopAll(c), StartBackend), StartFrontend)

\* restart_backend / restart_frontend: stop_process, sleep(1), start.
RestartOne(c, s) == Then(StopProcess(c, s), LAMBDA d : Start(d, s))

\* Ctrl+C: the terminal sends SIGINT to the foreground group, which holds
\* the launched processes on posix and only the manager on win32.
Interrupted(c) ==
  IF platform = "win32" THEN {c} ELSE {[c EXCEPT !.al = left] : left \in SUBSET c.al}

-----------------------------------------------------------------------------
(* One step of main() ends in a configuration of S and a phase.           *)
Step(S, next) ==
  \E c \in S :
    /\ alive' = c.al
    /\ born' = c.bn
    /\ processes' = c.pr
    /\ phase' = IF c.mgr = "killed" THEN "killed" ELSE next

\* start_backend(), then into time.sleep(2).
AutoStartBackend == phase = "boot" /\ Step(StartBackend(Now), "sleep")

\* start_frontend() after the sleep, then into the command loop.
AutoStartFrontend == phase = "sleep" /\ Step(StartFrontend(Now), "loop")

\* Ctrl+C before the loop's try: the KeyboardInterrupt ends main() with a
\* traceback, nothing stopped.
InterruptBoot == phase \in {"boot", "sleep"} /\ Step(Interrupted(Now), "exited")

CmdStart == phase = "loop" /\ Step(Then(StartBackend(Now), StartFrontend), "loop")
CmdStop == phase = "loop" /\ Step(StopAll(Now), "loop")
CmdRestart == phase = "loop" /\ Step(RestartAll(Now), "loop")
CmdRestartOne(s) == phase = "loop" /\ Step(RestartOne(Now, s), "loop")
CmdQuit == phase = "loop" /\ Step(StopAll(Now), "exited")

\* Ctrl+C in the loop: KeyboardInterrupt is caught, stop_all, break.
CtrlC == phase = "loop" /\ Step(Then(Interrupted(Now), StopAll), "exited")

\* input() raises EOFError (stdin closed): break, nothing stopped.
Eof == phase = "loop" /\ Step({Now}, "exited")

-----------------------------------------------------------------------------
Init ==
  /\ PlatformInit
  /\ alive = {}
  /\ born = {}
  /\ processes = [s \in Services |-> NoProc]
  /\ phase = "boot"

Main ==
  \/ AutoStartBackend \/ AutoStartFrontend \/ InterruptBoot
  \/ CmdStart \/ CmdStop \/ CmdRestart \/ (\E s \in Services : CmdRestartOne(s))
  \/ CmdQuit \/ CtrlC \/ Eof

Next ==
  /\ \/ Main
     \/ OSNext /\ UNCHANGED <<processes, phase>>
  /\ UNCHANGED platform

Spec == Init /\ [][Next]_vars

-----------------------------------------------------------------------------
TypeOK ==
  /\ OSTypeOK
  /\ processes \in [Services -> Gens \cup {NoProc}]
  /\ phase \in {"boot", "sleep", "loop", "exited", "killed"}

-----------------------------------------------------------------------------
(* Properties.                                                            *)

(* While the manager runs, every go run / npm run dev still running is   *)
(* the one its processes dict holds: start_* never launches a second one *)
(* beside a running one, and stop_process never forgets one it did not   *)
(* end.                                                                   *)
NoUntrackedRoot ==
  phase \in {"boot", "sleep", "loop"} =>
    \A r \in LiveRoots(alive) : processes[r.svc] = r.gen

(* rb / rf (restart_backend, restart_frontend) never kill a process of   *)
(* the other service (the spec: operations on "backend" never alter the   *)
(* state of "frontend" and vice versa).                                   *)
Isolation ==
  [][\A s \in Services : CmdRestartOne(s) => \A p \in alive \ alive' : p.svc = s]_vars

(* Once main() has returned no go run or npm run dev it started is still *)
(* running (the spec: quit triggers stopAll, then the process exits).     *)
NoOrphanAtExit == phase = "exited" => LiveRoots(alive) = {}

(* On win32, every command that runs stop_all to its end ("2", quit,      *)
(* Ctrl+C in the loop) leaves no go run / npm run dev running and no      *)
(* process of a tree whose root the manager held running: taskkill /F /T  *)
(* ends each held tree, and no root runs untracked beside them.  (On      *)
(* posix the killpg kills the manager first, cli_isolation_posix.)        *)
StopAllStep == CmdStop \/ CmdQuit \/ CtrlC

StopAllEndsServicesWin32 ==
  [][StopAllStep /\ platform = "win32" =>
       /\ LiveRoots(alive') = {}
       /\ \A s \in Services, p \in alive' :
            Polling(Now, s) => ~(p.svc = s /\ p.gen = processes[s])]_vars

(* The console manager implements the Supervisor of the specification     *)
(* (ServiceLifecycle) under the same mapping as the Tk launcher: a        *)
(* service is Running, with the pid of the Popen it holds, exactly while  *)
(* poll() on the held handle says it runs.  Its commands run stop and     *)
(* start to the end in one step, so "1" is startAll, "3" restartAll and   *)
(* rb / rf restart(name); a failing Popen leaves its service Stopped.  On *)
(* posix the killpg that kills the manager itself ends it in the middle   *)
(* of a stop; what it has killed by then must still be a Supervisor step. *)
Lifecycle == INSTANCE ServiceLifecycle WITH
  lifecycle <- [s \in Services |-> IF Polling(Now, s) THEN "Running" ELSE "Stopped"],
  handle <- [s \in Services |-> IF Polling(Now, s) THEN processes[s] ELSE NoProc],
  live <- [s \in Services |-> {g \in Gens : Root(s, g) \in alive}],
  spawned <- [s \in Services |-> Cardinality({g \in Gens : Root(s, g) \in born})],
  NoHandle <- NoProc

ManagerImplementsLifecycle == Lifecycle!Spec
=============================================================================
