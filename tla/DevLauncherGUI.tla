---------------------------- MODULE DevLauncherGUI ----------------------------
(***************************************************************************)
(* The Tk launcher of src/dev_launcher_gui.py (class DevLauncherGUI).     *)
(* Every button handler and every root.after() callback runs on the one   *)
(* Tk thread, so each is one atomic step here, the blocking              *)
(* proc.wait(timeout=5) of a stop included.  What interleaves with them  *)
(* is the processes themselves (OSProcesses) and the passing of time     *)
(* that makes the after() callbacks due.  Time is counted in units of    *)
(* 500 ms: the delays 500, 1000, 1500 and 2000 ms are 1, 2, 3 and 4.     *)
(* Log lines (self.log, the pump threads) are modelled in OutputPump.     *)
(***************************************************************************)
EXTENDS OSProcesses, Sequences, SequencesExt

CONSTANTS
  NoProc,      \* self.processes[name] is None
  MaxPending   \* bound: after() callbacks waiting at once

ASSUME NoProc \notin Gens
ASSUME MaxPending \in Nat \ {0}

VARIABLES
  processes,   \* self.processes: service -> generation of the Popen it holds
  status,      \* backend_status / frontend_status and the button states they set
  pending,     \* after() callbacks in scheduling order: [cb, left] (left in 500 ms)
  exited       \* root.destroy() ran: mainloop returned and the launcher exited

guiVars == <<processes, status, pending, exited>>
vars == <<platform, alive, born, processes, status, pending, exited>>

Callbacks == {"start_backend", "start_frontend", "start_all", "destroy"}
StartCallback == [backend |-> "start_backend", frontend |-> "start_frontend"]

\* proc and proc.poll() is None, for the Popen handle held for service s.
Polling(al, s) == processes[s] /= NoProc /\ Root(s, processes[s]) \in al

\* A variant that numbers a new Popen like the last one.
NextGenReused(s) == Cardinality({p \in born : p.svc = s /\ p.role = "root"})

NextGen(s) == Cardinality({p \in born : p.svc = s /\ p.role = "root"}) + 1

\* self.root.after(delay, cb)
Schedule(cb, delay) == Append(pending, [cb |-> cb, left |-> delay])

\* self.processes[s] = None and update_status(s, False), for each s in S.
Forget(S) ==
  /\ processes' = [x \in Services |-> IF x \in S THEN NoProc ELSE processes[x]]
  /\ status' = [x \in Services |-> IF x \in S THEN "stopped" ELSE status[x]]

-----------------------------------------------------------------------------
(* start_backend / start_frontend.  While the held process runs: log     *)
(* "already running" and return.  Otherwise Popen; on success hold the   *)
(* handle, start the pump thread and show "running"; when Popen raises,  *)
(* only log the error, leaving handle and status as they were.           *)
\* A variant of start_* without the poll() guard.
StartUnguarded(s) ==
  \/ /\ NextGen(s) <= MaxSpawns
     /\ SpawnRoot(s, NextGen(s))
     /\ processes' = [processes EXCEPT ![s] = NextGen(s)]
     /\ status' = [status EXCEPT ![s] = "running"]
  \/ UNCHANGED <<alive, born, processes, status>>

Start(s) ==
  IF Polling(alive, s)
  THEN UNCHANGED <<alive, born, processes, status>>
  ELSE \/ /\ NextGen(s) <= MaxSpawns
          /\ SpawnRoot(s, NextGen(s))
          /\ processes' = [processes EXCEPT ![s] = NextGen(s)]
          /\ status' = [status EXCEPT ![s] = "running"]
       \/ UNCHANGED <<alive, born, processes, status>>

StartBackend == Start("backend")
StartFrontend == Start("frontend")

(* The running branch of stop_backend / stop_frontend: win32 runs        *)
(* taskkill /F /T /PID on the tree, posix calls proc.terminate() on the  *)
(* root only; then proc.wait(timeout=5), and proc.kill() on the root     *)
(* when the wait times out.  The result is the set of processes killed.  *)
\* A variant that signals the child's process group the way dev_manager.py
\* does (os.killpg(os.getpgid(pid), SIGTERM)); the children share the
\* launcher's group, so every launched process is sent SIGTERM.
StopTreeGroup(al, s) ==
  LET g == processes[s]
      sent == IF platform = "win32" THEN TreeOf(al, s, g) ELSE al
  IN {(sent \ left) \cup {Root(s, g)} : left \in Survivors(sent, platform = "win32")}

\* A variant without the proc.kill() fallback: a root that ignores the
\* graceful signal outlives the stop.
StopTreeNoFallback(al, s) ==
  LET g == processes[s]
      sent == IF platform = "win32" THEN TreeOf(al, s, g) ELSE {Root(s, g)}
  IN {sent \ left : left \in Survivors(sent, platform = "win32")}

StopTree(al, s) ==
  LET g == processes[s]
      sent == IF platform = "win32" THEN TreeOf(al, s, g) ELSE {Root(s, g)}
  IN {(sent \ left) \cup {Root(s, g)} : left \in Survivors(sent, platform = "win32")}

\* taskkill /F /IM new-api.exe, run by stop_backend on win32 in both branches.
NewApiCleanup(al) == IF platform = "win32" THEN ByImage(al, {"new-api"}) ELSE {}

\* The sets of processes stop_backend / stop_frontend can kill.
StopBackendKills(al) ==
  IF Polling(al, "backend")
  THEN {k \cup NewApiCleanup(al) : k \in StopTree(al, "backend")}
  ELSE {NewApiCleanup(al)}

StopFrontendKills(al) ==
  IF Polling(al, "frontend") THEN StopTree(al, "frontend") ELSE {{}}

StopKills(al, s) ==
  IF s = "backend" THEN StopBackendKills(al) ELSE StopFrontendKills(al)

\* stop_backend / stop_frontend: kill, forget the handle, show "stopped".
Stop(s) ==
  /\ \E k \in StopKills(alive, s) : alive' = alive \ k
  /\ Forget({s})
  /\ UNCHANGED born

\* A variant of stop_all that stops only the frontend.
StopAllFrontendOnly ==
  /\ \E kf \in StopFrontendKills(alive) : alive' = alive \ kf
  /\ Forget(Services)
  /\ UNCHANGED born

\* stop_all: stop_frontend, then stop_backend.
StopAll ==
  /\ \E kf \in StopFrontendKills(alive) :
       \E kb \in StopBackendKills(alive \ kf) : alive' = alive \ (kf \cup kb)
  /\ Forget(Services)
  /\ UNCHANGED born

(* force_kill_all: kill by name, not by handle.  win32: taskkill /F /IM  *)
(* go.exe, new-api.exe, node.exe.  posix: pkill -f "go run" and pkill -f *)
(* "node", which send SIGTERM.  Then both handles are dropped and both   *)
(* services shown stopped, whatever the kills did.                       *)
ForceKillTargets(al) ==
  IF platform = "win32" THEN ByImage(al, {"go", "new-api", "node"})
  ELSE {p \in al : p.role = "root" /\ p.svc = "backend"} \cup ByImage(al, {"node"})

ForceKillAll ==
  /\ ~exited
  /\ \E left \in Survivors(ForceKillTargets(alive), platform = "win32") :
       alive' = alive \ (ForceKillTargets(alive) \ left)
  /\ Forget(Services)
  /\ UNCHANGED <<born, pending, exited>>

-----------------------------------------------------------------------------
(* Buttons.  A service's start button is enabled only while it shows     *)
(* "stopped" and its stop button only while it shows "running"; the rest *)
(* are always enabled.                                                   *)

ClickStart(s) ==
  /\ ~exited
  /\ status[s] = "stopped"
  /\ Start(s)
  /\ UNCHANGED <<pending, exited>>

ClickStop(s) ==
  /\ ~exited
  /\ status[s] = "running"
  /\ Stop(s)
  /\ UNCHANGED <<pending, exited>>

\* restart_backend / restart_frontend: stop now, start 1000 ms later.
Restart(s) ==
  /\ ~exited
  /\ Len(pending) < MaxPending
  /\ Stop(s)
  /\ pending' = Schedule(StartCallback[s], 2)
  /\ UNCHANGED exited

\* start_all: start_backend now, start_frontend 2000 ms later.
StartAll ==
  /\ ~exited
  /\ Len(pending) < MaxPending
  /\ StartBackend
  /\ pending' = Schedule("start_frontend", 4)
  /\ UNCHANGED exited

ClickStopAll ==
  /\ ~exited
  /\ StopAll
  /\ UNCHANGED <<pending, exited>>

\* restart_all: stop_all now, start_all 1500 ms later.
RestartAll ==
  /\ ~exited
  /\ Len(pending) < MaxPending
  /\ StopAll
  /\ pending' = Schedule("start_all", 3)
  /\ UNCHANGED exited

\* on_closing (the window's close box): stop_all, destroy 500 ms later.
OnClosing ==
  /\ ~exited
  /\ Len(pending) < MaxPending
  /\ StopAll
  /\ pending' = Schedule("destroy", 1)
  /\ UNCHANGED exited

-----------------------------------------------------------------------------
(* The Tk event loop: time passes while no callback is due; a due        *)
(* callback runs and leaves the queue.                                   *)

Due(i, cb) == pending[i].left = 0 /\ pending[i].cb = cb

Tick ==
  /\ ~exited
  /\ pending /= <<>>
  /\ \A i \in DOMAIN pending : pending[i].left > 0
  /\ pending' = [i \in DOMAIN pending |-> [pending[i] EXCEPT !.left = @ - 1]]
  /\ UNCHANGED <<alive, born, processes, status, exited>>

FireStart(s) ==
  /\ ~exited
  /\ \E i \in DOMAIN pending :
       /\ Due(i, StartCallback[s])
       /\ pending' = RemoveAt(pending, i)
  /\ Start(s)
  /\ UNCHANGED exited

\* The start_all that restart_all scheduled: start_backend, and
\* start_frontend 2000 ms later.
FireStartAll ==
  /\ ~exited
  /\ \E i \in DOMAIN pending :
       /\ Due(i, "start_all")
       /\ pending' = Append(RemoveAt(pending, i), [cb |-> "start_frontend", left |-> 4])
  /\ StartBackend
  /\ UNCHANGED exited

\* root.destroy: mainloop returns, main() returns, the interpreter exits;
\* the daemon pump threads die with it, the launched processes do not.
FireDestroy ==
  /\ ~exited
  /\ \E i \in DOMAIN pending : Due(i, "destroy")
  /\ exited' = TRUE
  /\ pending' = <<>>
  /\ UNCHANGED <<alive, born, processes, status>>

-----------------------------------------------------------------------------
Init ==
  /\ PlatformInit
  /\ alive = {}
  /\ born = {}
  /\ processes = [s \in Services |-> NoProc]
  /\ status = [s \in Services |-> "stopped"]
  /\ pending = <<>>
  /\ exited = FALSE

User ==
  \/ \E s \in Services : ClickStart(s) \/ ClickStop(s) \/ Restart(s)
  \/ StartAll \/ ClickStopAll \/ RestartAll \/ ForceKillAll \/ OnClosing

EventLoop ==
  \/ Tick
  \/ \E s \in Services : FireStart(s)
  \/ FireStartAll
  \/ FireDestroy

Next ==
  /\ \/ User
     \/ EventLoop
     \/ OSNext /\ UNCHANGED guiVars
  /\ UNCHANGED platform

\* Tk's mainloop keeps running callbacks and time keeps passing; the user
\* and the processes owe nothing.
Fairness == WF_vars(EventLoop /\ UNCHANGED platform)

Spec == Init /\ [][Next]_vars /\ Fairness

-----------------------------------------------------------------------------
TypeOK ==
  /\ OSTypeOK
  /\ processes \in [Services -> Gens \cup {NoProc}]
  /\ status \in [Services -> {"running", "stopped"}]
  /\ pending \in Seq([cb : Callbacks, left : 0..4])
  /\ Len(pending) <= MaxPending
  /\ exited \in BOOLEAN

-----------------------------------------------------------------------------
(* Properties.                                                            *)

(* Every go run / npm run dev the launcher started and that still runs is *)
(* the process self.processes holds for its service: start_* never       *)
(* launches a second one beside a running one (the poll() guard), and no  *)
(* handler (stop_*, force_kill_all) drops the handle of a process it did  *)
(* not kill.                                                              *)
NoUntrackedRoot == \A r \in LiveRoots(alive) : processes[r.svc] = r.gen

(* The same on win32, where every kill force_kill_all sends is forced     *)
(* (taskkill /F).  On posix pkill only sends SIGTERM and force_kill_all   *)
(* drops the handles at once, so a slow process stays untracked; the      *)
(* specification allows that of forceKillAll (best effort).               *)
NoUntrackedRootWin32 == platform = "win32" => NoUntrackedRoot

(* A handler or callback for one service (its start, stop and restart    *)
(* buttons, its delayed start) never kills a process of the other one.    *)
OneServiceStep(s) == ClickStart(s) \/ ClickStop(s) \/ Restart(s) \/ FireStart(s)

Isolation ==
  [][\A s \in Services : OneServiceStep(s) => \A p \in alive \ alive' : p.svc = s]_vars

(* Once the launcher has exited no go run or npm run dev it started is    *)
(* still running: on_closing's stop_all is the last word on the services. *)
NoOrphanAtExit == exited => LiveRoots(alive) = {}

(* A stop of a service (its stop or restart button, stop_all, restart_all, *)
(* on_closing) leaves no process of the tree it holds a handle to: stop_*  *)
(* ends the whole tree, not only the handle's root (the spec: "the         *)
(* launched process together with any processes it spawns ... must be      *)
(* terminated together").                                                  *)
StopStep(s) == ClickStop(s) \/ Restart(s) \/ ClickStopAll \/ RestartAll \/ OnClosing

StopEndsTree ==
  [][\A s \in Services :
       StopStep(s) => \A p \in alive' : ~(p.svc = s /\ p.gen = processes[s])]_vars

(* On win32, every handler that runs stop_all (its button, restart_all,  *)
(* the close box) leaves no go run / npm run dev running and no process of *)
(* a tree whose root it held running: taskkill /F /T ends each held tree, *)
(* and no root runs untracked beside them.  What outlives the launcher    *)
(* (gui_orphan_at_exit) is started after on_closing's stop_all.           *)
StopAllStep == ClickStopAll \/ RestartAll \/ OnClosing

StopAllEndsServicesWin32 ==
  [][StopAllStep /\ platform = "win32" =>
       /\ LiveRoots(alive') = {}
       /\ \A s \in Services, p \in alive' :
            Polling(alive, s) => ~(p.svc = s /\ p.gen = processes[s])]_vars

(* When a service's process ends on its own, the window eventually shows  *)
(* it stopped (the spec: the association is destroyed and the lifecycle   *)
(* reset to Stopped when exit is confirmed, graceful exit included).      *)
StatusReflectsExit ==
  \A s \in Services :
    (~exited /\ status[s] = "running" /\ ~Polling(alive, s))
      ~> (exited \/ status[s] = "stopped")

(* The launcher implements the Supervisor of the specification            *)
(* (ServiceLifecycle) under this mapping: a service is Running, with the  *)
(* pid of the Popen it holds, exactly while poll() on the held handle     *)
(* says it runs; the live pids are the service's running roots; a pid is  *)
(* the Popen's generation.  So start_* starts only a stopped service with *)
(* a new pid, every stop (stop_*, restart_*, stop_all, on_closing) ends  *)
(* the root it held, through the kill() after wait(timeout=5) if need be, *)
(* and force_kill_all may leave survivors but no association.             *)
Lifecycle == INSTANCE ServiceLifecycle WITH
  lifecycle <- [s \in Services |-> IF Polling(alive, s) THEN "Running" ELSE "Stopped"],
  handle <- [s \in Services |-> IF Polling(alive, s) THEN processes[s] ELSE NoProc],
  live <- [s \in Services |-> {g \in Gens : Root(s, g) \in alive}],
  spawned <- [s \in Services |-> Cardinality({g \in Gens : Root(s, g) \in born})],
  NoHandle <- NoProc

ImplementsLifecycle == Lifecycle!Spec
=============================================================================
