--------------------------- MODULE ServiceLifecycle ---------------------------
(***************************************************************************)
(* The Supervisor as the specification describes it (ServiceState, 4.1),  *)
(* for each service: its lifecycle, the handle of the process associated   *)
(* with it, and the processes started for it that still run.  Starting     *)
(* and Stopping are transient states inside start and stop; both           *)
(* launchers run a handler to its end before the next one, so they do not *)
(* show here.  Pids are handed out in order of start.  restart, startAll  *)
(* and restartAll are the compositions 4.1 defines them as; a launcher    *)
(* that runs one to its end in one step takes them as one step.           *)
(***************************************************************************)
EXTENDS Naturals

CONSTANTS
  Services,   \* the configured ServiceSpecs
  NoHandle    \* no process associated

VARIABLES
  lifecycle,  \* service -> "Stopped" or "Running"
  handle,     \* service -> pid of the associated process, or NoHandle
  live,       \* service -> pids started for it whose process still runs
  spawned     \* service -> pids handed out so far: 1..spawned[s]

avars == <<lifecycle, handle, live, spawned>>

\* The services of S are stopped, then those of T (a subset of S) are
\* started: every associated process of S ends, every service of T gets a
\* new pid, the rest of S is left without a process.
Reassign(S, T) ==
  /\ spawned' = [s \in Services |-> IF s \in T THEN spawned[s] + 1 ELSE spawned[s]]
  /\ handle' = [s \in Services |->
                  CASE s \in T -> spawned[s] + 1
                    [] s \in S -> NoHandle
                    [] OTHER   -> handle[s]]
  /\ lifecycle' = [s \in Services |->
                     CASE s \in T -> "Running"
                       [] s \in S -> "Stopped"
                       [] OTHER   -> lifecycle[s]]
  /\ live' = [s \in Services |->
                (IF s \in S /\ lifecycle[s] = "Running" THEN live[s] \ {handle[s]} ELSE live[s])
                  \cup (IF s \in T THEN {spawned[s] + 1} ELSE {})]

-----------------------------------------------------------------------------
\* start(name), spawn ok: only from Stopped; Running with a new pid.  A
\* failed spawn or AlreadyRunning changes nothing.
Start(s) == lifecycle[s] = "Stopped" /\ Reassign({s}, {s})

\* stop(name): termination, forced at the end of the grace period, ends
\* the associated process; the association is cleared.
Stop(s) == lifecycle[s] = "Running" /\ Reassign({s}, {})

\* The associated process exits on its own and the exit is confirmed.
Exited(s) == lifecycle[s] = "Running" /\ Reassign({s}, {})

\* restart(name): stop(name), then start(name), whose spawn may fail.
Restart(s) == \E T \in SUBSET {s} : Reassign({s}, T)

\* startAll(): start(name) for every service, each of which may fail to
\* spawn or find its service already running.
StartAll == \E T \in SUBSET {s \in Services : lifecycle[s] = "Stopped"} : Reassign(T, T)

\* stopAll(): stop every service.
StopAll == Reassign(Services, {})

\* restartAll(): stopAll(), then startAll().
RestartAll == \E T \in SUBSET Services : Reassign(Services, T)

\* forceKillAll(): kill by name, best effort: any started process may
\* survive; every association is cleared.
ForceKillAll ==
  /\ DOMAIN live' = Services
  /\ \A s \in Services : live'[s] \subseteq live[s]
  /\ lifecycle' = [s \in Services |-> "Stopped"]
  /\ handle' = [s \in Services |-> NoHandle]
  /\ UNCHANGED spawned

\* A process no longer associated with its service (a survivor of
\* forceKillAll) exits.
OrphanExit(s) ==
  /\ \E p \in live[s] \ {handle[s]} : live' = [live EXCEPT ![s] = @ \ {p}]
  /\ UNCHANGED <<lifecycle, handle, spawned>>

Init ==
  /\ lifecycle = [s \in Services |-> "Stopped"]
  /\ handle = [s \in Services |-> NoHandle]
  /\ live = [s \in Services |-> {}]
  /\ spawned = [s \in Services |-> 0]

Next ==
  \/ \E s \in Services : Start(s) \/ Stop(s) \/ Restart(s) \/ Exited(s) \/ OrphanExit(s)
  \/ StartAll \/ StopAll \/ RestartAll
  \/ ForceKillAll

Spec == Init /\ [][Next]_avars
=============================================================================
