# TLA+ models of the NEW_API development launchers

This directory holds TLA+ models of the two launchers in `src/`. Both start,
stop and restart the backend (`go run .` in `new-api/`) and the frontend
(`npm run dev` in `new-api/web/`) and show the services' output:

* `src/dev_manager.py` is the console manager: a command loop (`start`, `stop`,
  `restart`, `rb`, `rf`, `status`, `quit`) over a module-level `processes` dict.
* `src/dev_launcher_gui.py` is the Tk launcher (`DevLauncherGUI`): buttons, Tk
  `after()` timers, a log queue that is drained every 100 ms, `force_kill_all` and
  `on_closing`.

The TLC model checker checks every module here. `PROJECT.json` lists the
components, the runs, the mutants, the line map, the findings and the hazards.

## 1. Inventory

### Components and their state

| Component (spec name) | Code | State |
|---|---|---|
| ServiceSpec | the `Popen` argument lists and `cwd` | none (constant) |
| ProcessHandle | `subprocess.Popen`, `poll`, `terminate`, `kill`, `wait(timeout=5)`, `taskkill`, `os.killpg`, `pkill` | the OS processes: each `Popen` starts a **tree**. The root is `go run` or `npm`. The child the root forks does the serving: the `new-api` binary or vite. |
| Supervisor (GUI) | `DevLauncherGUI` | `self.processes` (service → Popen or None); the status labels and which buttons are enabled; pending `after()` callbacks; whether the window has been destroyed |
| Supervisor (console) | `dev_manager.py` functions and `main` | `processes`; where `main()` is (boot, sleep, loop, exited) |
| OutputPump | `stream_output` (both files) | one daemon thread per Popen, reading the shared stdout pipe |
| LogSink | `log_queue` + `process_log_queue` (GUI), `print` (console) | the queue of lines and the text widget |
| ANSI stripping | `re.sub(r'\x1b\[[0-9;]*m', '', line)` | none (pure function) |

### How the components interact
The presentation layer calls the supervisor's handlers. The handlers call
`Popen` and the kill primitives. Each `Popen` gets a pump thread, and the pump
writes into the log queue. The supervisor never hears from a pump. It learns
about a process only through `poll()` inside a handler.

In the GUI, every handler and every `after()` callback runs on the one Tk
thread, one after another. A stop blocks that thread for up to 5 s in
`proc.wait`. The console manager is a single-threaded loop. In both programs
the things that interleave with the handlers are:
* the processes themselves: a process can exit on its own, fork its child, or
  ignore SIGTERM;
* time, which makes the `after()` callbacks fire (GUI only);
* Ctrl+C and the end of input (console only);
* the pump threads.

### What makes it hard
* **Timers that are never cancelled.** `restart_*` schedules a start 1000 ms
  later and `start_all` schedules a frontend start 2000 ms later. `restart_all`
  schedules `start_all` 1500 ms later. `on_closing` schedules `destroy` 500 ms
  later. These race with the user's clicks and with each other.
* **Process trees and groups.** Each platform kills differently:
  * win32 uses `taskkill /T /PID` (the tree) and `taskkill /IM` (by image name);
  * the posix GUI uses `terminate()`, which reaches only the root;
  * the posix console uses `os.killpg`. Its children share the manager's group,
    so this signals the manager too;
  * `force_kill_all` on posix uses `pkill -f`, which sends only SIGTERM.
* **Failure paths.** `Popen` can fail. A root can exit and leave its child
  running. SIGTERM can be ignored, and then the 5 s wait ends in `kill()`.
* **Exit paths.** The console exits through `quit`, Ctrl+C and EOF. The GUI
  exits through close followed by `destroy`.

### What makes each component correct
* **Supervisor**
  * It never runs two instances of a service.
  * A stop ends the service's whole tree.
  * An operation on one service never touches the other.
  * Nothing started by the launcher outlives it: its last `stop_all` ends
    everything, and nothing starts after it.
  * It implements the specification's Supervisor (`ServiceLifecycle`).
  * The status it shows reflects the process.
* **OutputPump / LogSink**
  * No line is lost.
  * The lines of each pump keep their order.
  * A pump ends when its process tree has ended.
  * No service stays blocked on a full pipe.
* **ANSI stripping**
  * No escape sequence reaches the log.

## 2. Modules

| Module | Models | Main state ↔ code |
|---|---|---|
| `OSProcesses` | the OS seen by the launchers | `platform` = `sys.platform` as the code tests it ("win32" or anything else, "posix"), picked by `Init` from `Platforms`, so one run can check both. `alive`, `born` ⊆ processes `[svc, gen, role]`. `gen` counts the service's `Popen` calls. `role` is root or child. Also: image names, `TreeOf` (`taskkill /T`), graceful vs forced signals (`Survivors`), and the processes' own steps `Fork` and `Exit`. |
| `DevLauncherGUI` | `dev_launcher_gui.py` | `processes` = `self.processes`. `status` = the labels and the start/stop buttons they enable. `pending` = the `after()` queue, as `[cb, left]` with time counted in 500 ms units. `exited` = `root.destroy()` has run. There is one action per button (`ClickStart`, `ClickStop`, `Restart`, `StartAll`, `ClickStopAll`, `RestartAll`, `ForceKillAll`, `OnClosing`) and one per callback (`FireStart`, `FireStartAll`, `FireDestroy`). `Tick` lets time pass. |
| `DevManager` | `dev_manager.py` | `processes` = the module dict. `phase` = the point `main()` has reached. The actions are the boot steps, one per command, `CtrlC`, `InterruptBoot` and `Eof`. Handlers are maps from a configuration to the set of configurations they can end in. `Then` composes them in order and stops as soon as the manager is killed. |
| `OutputPump` | `stream_output` (both files), `process_log_queue` | two `Popen`s of the backend, each with its tree (from `OSProcesses`), its pipe and its pump thread. `Respawn` is `start_backend` once `poll()` reports the held root's exit; the old child and pump may still run. Tree `g` writes lines `[gen \|-> g, n]` numbered 1..`written[g]`. `nread[g]` = lines pump `g` has taken out of the pipe, `held[g]` = those of them still inside the GUI's final `read()`. A process blocks writing while `PipeCap` lines are unread (`PipeFull`). `pc[g]` = where pump `g` is (`none` before its `Popen`, `poll`, `readline`, `rest` in the final `read()`, `done`, `failed` after the console's swallowed decoding error). `ReadMore` is `read()` draining the pipe before end of file, `ReadRest` its return. `CliReadError` is the console's `UnicodeDecodeError` on win32, where the pipe is decoded with the ANSI code page. `queue` = `log_queue`. `shown` = the text widget, or the console. `kind` (chosen by `Init` from `PumpKinds`) is the GUI or the console pump. Pipe `g` is at end of file (`Eof(g)`) once root and child of tree `g` have both exited. |
| `AnsiStrip` | the `re.sub(r'\x1b\[[0-9;]*m', '', line)` of `stream_output` | `Strip` is the left-to-right scan `re.sub` makes (`MatchLen` the match at a position, `ParamEnd` the greedy `[0-9;]*`), RECURSIVE, over character classes ESC, `[`, digit, `;`, `m`, other. `line` grows one character per step, so every line up to `MaxLen` is checked. |
| `ServiceLifecycle` | the specification's Supervisor (ServiceState, 4.1), not code | per service: `lifecycle` (Stopped/Running), `handle` (the associated pid), `live` (pids started for it that still run), `spawned` (pids handed out). All operations are instances of `Reassign(S, T)`: stop the services of `S`, then give those of `T` ⊆ `S` new pids. Actions: `Start` (only from Stopped, a new pid), `Stop` and `StopAll` (end the associated process, clear the association), `Restart`, `StartAll` and `RestartAll` (the compositions 4.1 defines, each start of which may fail to spawn), `Exited` (the associated process exits, the exit is confirmed), `ForceKillAll` (best effort: any process may survive, every association cleared), `OrphanExit`. Starting and Stopping stay inside the atomic handlers. |
| `MC_DevLauncherGUI`, `MC_DevManager`, `MC_OutputPump`, `MC_AnsiStrip` | TLC instances | the bounds |

What an action covers:
* A handler is one action. The action includes everything the handler calls.
  For example, `Stop` includes the kill, the `wait`, the `kill()` fallback,
  dropping the handle and `update_status`.
* A failing `Popen` is a disjunct of `Start`.
* A root that ignores a graceful signal is a choice of `Survivors`.

## 3. Runs

| Run | Expect | Checks | Shows |
|---|---|---|---|
| `gui_lifecycle` | pass | `ImplementsLifecycle` | Both platforms. The Tk launcher implements `ServiceLifecycle`, the specification's Supervisor (see below). |
| `gui` | pass | `TypeOK`, `NoUntrackedRootWin32`, `Isolation`, `StopAllEndsServicesWin32` | Both platforms. On win32, every running `go run` / `npm` is the one `self.processes` holds, through any interleaving of clicks, delayed starts, crashes and `force_kill_all`. On both, a per-service handler or callback kills only processes of its own service. On win32 every `stop_all` (its button, `restart_all`, the close box) ends every running root and every process of each tree it held, so what outlives the launcher in `gui_orphan_at_exit` is started after it. |
| `gui_orphan_at_exit` | violation | `NoOrphanAtExit` | A start in the 500 ms between `on_closing`'s `stop_all` and `destroy` outlives the launcher. The start can be a click or an earlier `after()` start. |
| `gui_tree_posix` | violation | `StopEndsTree` | `proc.terminate()` leaves the forked server running. (The same property also fails on win32 once `npm` has exited on its own: `stop_frontend` then kills nothing. See the hazard at line 287.) |
| `gui_stale_status` | violation | `StatusReflectsExit` | A process that exits on its own stays shown "running". |
| `cli` | pass | `TypeOK`, `NoUntrackedRoot`, `StopAllEndsServicesWin32`, `ManagerImplementsLifecycle` | Both platforms. While it runs, the console manager never runs a second instance beside the one it holds, and it implements `ServiceLifecycle` (see below). On win32, `2`, quit and Ctrl+C end every running root and each held tree; the orphans of `cli_orphan_at_exit` come only from the exits that skip `stop_all`. |
| `cli_isolation_posix` | violation | `Isolation` | `killpg` on the shared group kills the other service and the manager itself. |
| `cli_orphan_at_exit` | violation | `NoOrphanAtExit` | EOF, or Ctrl+C during the boot sleep, ends `main()` with services running. |
| `pump` | pass | `TypeOK`, `NoLineLost`, `PumpEnds`, `Utf8OutputNeverBlocks`, `CliLinesEventuallyShown` | Both platforms. Where reading cannot fail (the GUI; the console on posix), a process blocked on a full pipe is always unblocked; the GUI's final `read()` keeps draining. With a restart while the old tree still runs, each pump's lines stay in order under the shared tag. Both pump kinds lose no line and keep the lines in order, the child's late lines included. Each pump ends once the whole tree has exited. The console pump also prints every line while the service still runs. `Init` picks which program's pump reads the pipe. |
| `pump_gui_stream` | violation | `LinesEventuallyShown` | After `go run` exits, the GUI pump sits in `read()`. The surviving `new-api` child's lines show only when it exits too. |
| `pump_cli_decode` | violation | `OutputNeverBlocks` | On win32 the console pump dies silently on a line it cannot decode (`except: pass`); nobody reads the pipe again, and the service blocks in its next write once the buffer is full. |
| `ansi_sgr_joined` | violation | `NoSgrDelivered` | `ESC [ ESC [ m m` comes out of the `re.sub` as `ESC [ m`. Removing the inner colour code joins the outer ESC with a later `[...m` into a new colour code. |

The findings in `PROJECT.json` explain each violation. Every property of a
passing run has a mutant, a plausible bug that TLC must catch:
* `StartUnguarded` drops the `poll()` guard of `start_*`;
* `StopTreeGroup` applies the console's `killpg` in the GUI;
* `StopTreeNoFallback` drops the `proc.kill()` after `wait(timeout=5)`;
* `NextGenReused` numbers a new `Popen` like the previous one;
* `ReadRestSkipped` returns after the loop without the final `read()`
  (for `NoLineLost` and for `Utf8OutputNeverBlocks`: the surviving child's
  lines are lost, and the child blocks once the pipe is full);
* `PollIgnored` loops on `readline()` without testing `poll()`;
* `GuiReadlineOffByOne` queues the wrong line number;
* `CliReadAll` makes the console pump read everything with one `read()`;
* `StopAllFrontendOnly` (in both launchers) makes `stop_all` stop only the
  frontend;
* `StartOtherGuard` makes the console's `start_frontend` test the backend's
  handle, a copy of `start_backend`'s guard left unedited (for
  `ManagerImplementsLifecycle`).

### The refinement
`DevLauncherGUI` and `DevManager` each define `Lifecycle == INSTANCE
ServiceLifecycle WITH ...`. `gui_lifecycle` and `cli` check
`ImplementsLifecycle == Lifecycle!Spec` (in `DevManager`,
`ManagerImplementsLifecycle`) as a `PROPERTY`.
The mapping:
* a service is Running, with the generation of its held `Popen` as pid, exactly
  while `poll()` on the held handle says it runs;
* `live` is the set of the service's running roots;
* `spawned` counts its `Popen`s.

A process that exits on its own is the abstract `Exited`: the spec's "exit
confirmed", which the launcher does lazily at its next `poll()`. The label that
stays "running" is the separate finding of `gui_stale_status`. What the
refinement checks:
* `start_*` starts only a stopped service, with a new pid;
* every stop (`stop_*`, `restart_*`, `stop_all`, `on_closing`) ends the root it
  held, if need be through the `kill()` after `wait(timeout=5)`;
* `force_kill_all` clears every association.

Roots only: the forked children are the subject of `StopEndsTree`, whose runs
find the tree left running.

`DevManager` uses the same mapping. Its commands run to their end in one step:
`1` is the abstract `StartAll`, `3` is `RestartAll`, and `rb`/`rf` are `Restart`.
This is why `ServiceLifecycle` has those compositions as actions of their own.
On posix, the `killpg` of a stop kills the manager halfway through `stop_all`
(`cli_isolation_posix`). The refinement still holds there: what the signal has
ended by then is a Supervisor step (`Exited`, `Stop` or `StopAll`), and the
handles the dead manager keeps map to the processes still running.
In the console the `kill()` after `wait(timeout=5)` is never reached: on
win32 `taskkill /F` has ended the root, and on posix the manager is dead. There
are no timers either. So what `ManagerImplementsLifecycle` tests in
`DevManager` is the `poll()` guard of each `start_*`, on that service's own
handle. A start that tests the wrong handle (`StartOtherGuard`) starts a
service that is already Running.

### Bounds and why they suffice
* `MaxSpawns = 2` `Popen`s per service. A second instance, beside or after the
  first, is the case the properties are about.
* `MaxPending = 2` pending callbacks. That is enough for a restart's start
  (delay 2 or 3) to race a close's `destroy` (delay 1). `gui_lifecycle` uses
  `MaxPending = 1`. The mapping is evaluated on every step. At 2 the run took
  about 5 minutes; at 1 it takes about a minute. With one pending callback, every delayed start
  (`restart_*`, `start_all`, `restart_all`) still fires between any clicks.
* Once a service has had `MaxSpawns` `Popen`s, a further start can only fail.
  A failed `Popen` is a real outcome, so this bound removes behaviours but adds
  none.
* `OutputPump` checks two `Popen`s (`MaxSpawns = 2`), each writing
  `MaxLines = 3` lines. That is enough for a line to come before the root exits,
  one while only the child lives, and one after the loop's last `poll()`. It is
  also enough for the second tree to write while the first is still draining.
  The pipe holds `PipeCap = 2` lines, so a tree can fill it and still have a
  line to write.
* `AnsiStrip` checks every line of up to `MaxLen = 6` characters over six
  classes. The shortest line whose cleaned text still holds a colour code is six
  long: a removed code of three characters between the ESC and the `[m` of the
  one left.
* The `gui`, `cli` and `pump` runs let `Init` pick the platform. Each of them checks
  both platforms in one state space.
* Time is measured in 500 ms units, which is the greatest common divisor of the
  code's delays. Two callbacks that fall due in the same unit may fire in either
  order.

### Fairness
* The GUI has weak fairness on the Tk event loop (`Tick` and the `Fire*`
  actions), because `mainloop` keeps running timers while the window exists.
* The user and the processes are not fair: a user may stop clicking, and a
  process may run forever.
* The console spec has no fairness, because all its properties are safety
  properties.
* `OutputPump` has weak fairness on the pump thread, which runs whenever a read
  can return. It also has weak fairness on `process_log_queue`, which `after(100)`
  reschedules for as long as the window exists. The writing processes are not
  fair.

## 4. Not modelled (yet) and why
* `clear_logs`, `open_browser`, `show_help`, `status`, and unknown or empty
  commands are left out. They change no state that a property depends on.
* Window layout, colours and the help text are left out.
* The exact paths and arguments of the commands are left out, apart from the
  image names that the kill-by-name paths match.
* The GUI pump's `except` branch is left out. Its `Popen` decodes UTF-8 with
  `errors='replace'`, and nothing closes the pipe, so no read raises. The
  console's `except: pass` is modelled (`CliReadError`).
* The supervisor's own `log()` lines in `log_queue`, and `clear_logs`, are left
  out. The lines come from the Tk thread, which also drains the queue, so they
  keep their order trivially. No property tells them apart from the pump lines.
* The console's characters are left out: it is a sequence of whole lines.
  `log()` prints its message and its newline with two writes, so a service line
  can land in the middle of a supervisor line. That is listed as a hazard.
  Checking it needs a violation run of its own, and the project is at its limit
  of 12 runs.
* Processes the launchers did not start are left out. `force_kill_all` kills
  every `node`/`go` process of the user by name. The specification wants a kill
  by name, and the hazard is listed.
* The pump is not composed with the full `DevLauncherGUI`. `Respawn` stands for
  every path that reaches `start_backend` with the held root gone: a click, a
  restart's delayed start, or `start_all`. The timing of those paths is checked
  in `DevLauncherGUI`.
* CSI sequences other than colour codes (erase line `ESC [ 2 K`, cursor moves)
  pass the `re.sub` by design of the pattern. They are listed as a hazard.
* The console pump prints lines without any stripping. Colour codes reach the
  terminal, which interprets them.
* A reference check of `Strip` against a second definition of `re.sub` is not a
  run. The counterexample `ansi_sgr_joined` finds was checked against Python's
  `re.sub`.

* What the map leaves out is presentation, and no property depends on it:
  * imports and the `Colors` constants;
  * the banner, `show_help` and `show_status` (read-only);
  * the widget layout of `setup_ui`;
  * `open_browser`, and `clear_logs`;
  * the timestamp formatting of `log()`.

## 5. Plan
The modules are written in order of how much they matter. Each sitting adds to
the project.

1. **Done:** `OSProcesses`, `DevLauncherGUI` and `DevManager` with the safety
   properties above.
2. **Done: `OutputPump`.** One process tree writes numbered lines into a pipe. The GUI
   pump runs its `poll()`/`readline()` loop, then a final `read()`, then
   `splitlines`. The console pump uses `iter(readline, '')`. The log queue is
   drained by `process_log_queue`. Properties:
   * no line lost, and each pump's lines in order, until `destroy`;
   * the pump ends when every writer of the pipe has exited (liveness, with WF
     on the pump thread);
   * a surviving child keeps the GUI pump in `read()`, which is a hazard.
3. **Done:** two instances of one service in `OutputPump` (a restart while the
   old pump drains). Per-instance order under the shared tag holds.
4. **Done: `AnsiStrip`.** The regex as a RECURSIVE operator over character
   classes, with the violation run `ansi_sgr_joined`.
5. **Done: `ServiceLifecycle`**, the spec's abstract state machine, with
   the refinement checked in `gui_lifecycle` and `cli`. The mapping counts a held but dead process as Stopped. The
   label that still shows it "running" is the `gui_stale_status` finding.
6. **Done:** the pipe buffer and the console's decoding error in
   `OutputPump` (`Utf8OutputNeverBlocks`, `pump_cli_decode`).
7. **Done:** `StopAllEndsServicesWin32` in both launchers. The `stop_all`
   itself is complete on win32, and the exit findings come from the paths
   around it.
8. Open items:
   * A property that a stop issued after a restart wins over the restart's
     delayed start. It is the mechanism `NoOrphanAtExit` already shows at close.
     It needs a run of its own, and the runs are at their limit of 12.
   * Liveness for the GUI: close ~> exit. It holds by the shape of Tk's
     mainloop: every due callback runs once. No plausible change to the handlers
     breaks it, so it would show nothing about the code.
