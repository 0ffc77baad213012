---------------------------- MODULE ProcessMonitor ----------------------------
(***************************************************************************)
(* The command monitor-cli runs inside a sandbox container: it spawns the  *)
(* dev server, restarts it when it crashes or when its port no longer      *)
(* answers, and stops it at a signal.                                      *)
(*                                                                         *)
(* Everything runs on one event loop; what interleaves is what an await    *)
(* (of a log append, a probe, the exit of a child) or a timer separates.   *)
(* Durations are abstracted: how long a run or a silence was is chosen.    *)
(***************************************************************************)
EXTENDS Integers, FiniteSets

CONSTANTS
  Children,       \* places for child processes, taken again when they are gone
  MaxRestarts,    \* options.maxRestarts
  PortThreshold,  \* PORT_FAILURE_THRESHOLD
  None

ASSUME MonitorAssumption ==
  /\ MaxRestarts \in Nat /\ PortThreshold \in Nat \ {0}
  /\ None \notin Children

VARIABLES
  state,                         \* ProcessState
  restartCount, restartTimer,    \* restarts so far, the timer is pending
  child, process,                \* childProcess, the children of the system
  starter,                       \* start() and the restart callback before it
  healthTimer, health, healthVictim, \* the interval, its check, whom it kills
  portBound, failures, healthRestart, \* portBindConfirmed, portFailureCount,
                                      \* healthRestartInProgress
  runner,                        \* the CLI process
  shutdown, stopVictim,          \* its one graceful shutdown, whom it kills
  spawned, raced                 \* history: spawns since the last stable run;
                                 \* a start went on while the CLI ended

restarts == <<restartCount, restartTimer>>
port     == <<portBound, failures, healthRestart>>
checks   == <<health, healthVictim>>
history  == <<spawned, raced>>
vars == <<state, restarts, child, process, starter, healthTimer, checks, port,
          runner, shutdown, stopVictim, history>>

TypeOK ==
  /\ state \in {"stopped", "starting", "running", "stopping", "crashed"}
  /\ restartCount \in 0 .. MaxRestarts /\ restartTimer \in BOOLEAN
  /\ child \in Children \union {None}
  /\ process \in [Children -> {"gone", "alive", "killed"}]
  /\ starter \in {"idle", "announced", "logged", "stable", "failed"}
  /\ healthTimer \in BOOLEAN
  /\ health \in {"idle", "probe", "log", "kill"}
  /\ {healthVictim, stopVictim} \subseteq Children \union {None}
  /\ portBound \in BOOLEAN /\ failures \in 0 .. PortThreshold
  /\ healthRestart \in BOOLEAN
  /\ runner \in {"starting", "spawned", "up", "exited"}
  /\ shutdown \in [call : 0 .. 2,
                   pc : {"off", "log", "timer", "kill", "closing", "cleanup", "done"}]
  /\ spawned \in 0 .. MaxRestarts + 1 /\ raced \in BOOLEAN

\* ProcessRunner.start() has called start(), which awaits its first log append.
Init ==
  /\ state = "starting" /\ starter = "logged"
  /\ restartCount = 0 /\ restartTimer = FALSE
  /\ child = None /\ process = [c \in Children |-> "gone"]
  /\ healthTimer = FALSE /\ health = "idle" /\ healthVictim = None
  /\ portBound = FALSE /\ failures = 0 /\ healthRestart = FALSE
  /\ runner = "starting"
  /\ shutdown = [call |-> 0, pc |-> "off"] /\ stopVictim = None
  /\ spawned = 0 /\ raced = FALSE

\* exitCode and signalCode are null: the exit event is still to come.
Live(c) == c # None /\ process[c] # "gone"

-----------------------------------------------------------------------------
(* start(), called by the runner or by the restart timer.                  *)

RestartTimerFires ==
  /\ restartTimer /\ starter = "idle"
  /\ restartTimer' = FALSE
  /\ starter' = IF state \in {"stopped", "stopping"} THEN "idle" ELSE "announced"
  /\ UNCHANGED <<state, restartCount, child, process, healthTimer, checks, port,
                 runner, shutdown, stopVictim, history>>

\* The callback has logged; start() refuses unless stopped or crashed.
Start ==
  /\ starter = "announced"
  /\ \/ /\ state \in {"stopped", "crashed"}
        /\ state' = "starting" /\ starter' = "logged"
        /\ raced' = (raced \/ shutdown.pc # "off")
     \/ /\ state \notin {"stopped", "crashed"}
        /\ starter' = "idle"
        /\ UNCHANGED <<state, raced>>
  /\ UNCHANGED <<restarts, child, process, healthTimer, checks, port, runner,
                 shutdown, stopVictim, spawned>>

\* spawn() gives a child with listeners of its own, or one without a pid.
Spawn ==
  \/ /\ starter' = "idle"
     /\ \E c \in Children :
          /\ process[c] = "gone"
          /\ child' = c
          /\ process' = [process EXCEPT ![c] = "alive"]
     /\ state' = "running" /\ healthTimer' = TRUE
     /\ runner' = IF runner = "starting" THEN "spawned" ELSE runner
  \/ /\ starter' = "failed" /\ child' = None
     /\ UNCHANGED <<process, state, healthTimer, runner>>

\* The first log append of start() is done: the port's record is reset.  After
\* a stable run the counter is reset too, once that is logged.
StartLogged ==
  /\ starter = "logged"
  /\ portBound' = FALSE /\ failures' = 0 /\ healthRestart' = FALSE
  /\ \/ /\ runner # "starting"
        /\ starter' = "stable"
        /\ UNCHANGED <<child, process, state, healthTimer, runner, spawned>>
     \/ /\ Spawn
        /\ spawned' = IF starter' = "idle" THEN spawned + 1 ELSE spawned
  /\ UNCHANGED <<restarts, checks, shutdown, stopVictim, raced>>

StableLogged ==
  /\ starter = "stable"
  /\ restartCount' = 0
  /\ Spawn
  /\ spawned' = IF starter' = "idle" THEN 1 ELSE 0
  /\ UNCHANGED <<restartTimer, checks, port, shutdown, stopVictim, raced>>

\* The second log append of the first start() is done: the CLI keeps the runner
\* and installs its signal handlers.
RunnerUp ==
  /\ runner = "spawned"
  /\ runner' = "up"
  /\ UNCHANGED <<state, restarts, child, process, starter, healthTimer, checks,
                 port, shutdown, stopVictim, history>>

\* start() failed; the CLI gives up when it was the first.
SpawnFailed ==
  /\ starter = "failed"
  /\ state' = "stopped" /\ starter' = "idle"
  /\ runner' = IF runner = "starting" THEN "exited" ELSE runner
  /\ UNCHANGED <<restarts, child, process, healthTimer, checks, port, shutdown,
                 stopVictim, history>>

-----------------------------------------------------------------------------
(* What happens to a child.                                                *)

\* Mutant: one restart more.
ShouldRestartAfterExitMutant(clean, silent) ==
  restartCount <= MaxRestarts /\ (~clean \/ silent)

\* The exit was no success, or a success after a silence that looks like a hang.
ShouldRestartAfterExit(clean, silent) ==
  restartCount < MaxRestarts /\ (~clean \/ silent)

ScheduleRestart == restartTimer' = TRUE /\ restartCount' = restartCount + 1

\* The exit handler: it looks at the monitor's state, not at which child it is.
OnExit(clean, silent) ==
  LET wasRunning == state = "running"
      restart    == wasRunning /\ ShouldRestartAfterExit(clean, silent)
  IN \/ /\ wasRunning /\ (~clean \/ restart)
        /\ state' = "crashed"
        /\ IF restart THEN ScheduleRestart ELSE UNCHANGED restarts
     \/ /\ ~(wasRunning /\ (~clean \/ restart))
        /\ state' = "stopped"
        /\ UNCHANGED restarts

\* A child exits; whoever waits in killProcess for that is told.
Exit(c) ==
  /\ Live(c) /\ runner # "exited"
  /\ process' = [process EXCEPT ![c] = "gone"]
  /\ healthVictim' = IF healthVictim = c THEN None ELSE healthVictim
  /\ stopVictim' = IF stopVictim = c THEN None ELSE stopVictim
  /\ \E clean, silent \in BOOLEAN :
       /\ process[c] = "killed" => ~clean
       /\ OnExit(clean, silent)
  /\ UNCHANGED <<child, starter, healthTimer, health, port, runner, shutdown,
                 history>>

\* Mutant: an error of the child is taken for its end.
ChildErrorMutant(c) ==
  /\ process[c] = "alive" /\ runner # "exited"
  /\ \/ /\ state = "running" /\ restartCount < MaxRestarts
        /\ state' = "crashed" /\ ScheduleRestart
     \/ /\ state # "running"
        /\ UNCHANGED <<state, restarts>>
  /\ UNCHANGED <<child, process, starter, healthTimer, checks, port, runner,
                 shutdown, stopVictim, history>>

\* The error event of a live child (it could not be signalled).
ChildError(c) ==
  /\ process[c] = "alive" /\ runner # "exited"
  /\ state \in {"running", "starting"}
  /\ state' = "crashed"
  /\ UNCHANGED <<restarts, child, process, starter, healthTimer, checks, port,
                 runner, shutdown, stopVictim, history>>

-----------------------------------------------------------------------------
(* killProcess: SIGTERM and a wait for the exit, at most killTimeout long.  *)

\* Mutant: when the time is over, nothing more is done.
SigkillMutant == UNCHANGED process

\* SIGTERM lets a child exit, as it may at any time, and a child may ignore it.
\* The child that is current when the time is over gets SIGKILL.
Sigkill ==
  process' = IF Live(child) THEN [process EXCEPT ![child] = "killed"] ELSE process

-----------------------------------------------------------------------------
(* The health check: a probe of the port.                                  *)

HealthCheck ==
  /\ healthTimer /\ state = "running" /\ health = "idle"
  /\ health' = "probe"
  /\ UNCHANGED <<state, restarts, child, process, starter, healthTimer,
                 healthVictim, port, runner, shutdown, stopVictim, history>>

PortResponsive ==
  /\ health = "probe"
  /\ health' = "idle"
  /\ portBound' = TRUE /\ failures' = 0 /\ healthRestart' = FALSE
  /\ UNCHANGED <<state, restarts, child, process, starter, healthTimer,
                 healthVictim, runner, shutdown, stopVictim, history>>

\* A failure counts once the port was seen bound, or after the startup grace.
PortNotResponsive ==
  /\ health = "probe"
  /\ \E late \in BOOLEAN :
       failures' = IF (portBound \/ late) /\ failures < PortThreshold
                   THEN failures + 1 ELSE failures
  /\ health' = IF failures' = PortThreshold /\ ~healthRestart /\ state = "running"
               THEN "log" ELSE "idle"
  /\ UNCHANGED <<state, restarts, child, process, starter, healthTimer,
                 healthVictim, portBound, healthRestart, runner, shutdown,
                 stopVictim, history>>

\* "Health-triggered restart": the child of now is told to end.
HealthKill ==
  /\ health = "log"
  /\ healthRestart' = TRUE
  /\ \/ Live(child) /\ health' = "kill" /\ healthVictim' = child
     \/ ~Live(child) /\ health' = "idle" /\ UNCHANGED healthVictim
  /\ UNCHANGED <<state, restarts, child, process, starter, healthTimer, portBound,
                 failures, runner, shutdown, stopVictim, history>>

HealthKillDone ==
  /\ health = "kill"
  /\ \/ healthVictim = None /\ UNCHANGED process
     \/ healthVictim # None /\ Sigkill
  /\ health' = "idle" /\ healthVictim' = None
  /\ UNCHANGED <<state, restarts, child, starter, healthTimer, port, runner,
                 shutdown, stopVictim, history>>

-----------------------------------------------------------------------------
(* The graceful shutdown: ProcessRunner.stop() calls stop(), then cleanup() *)
(* (which calls stop() once more), and the CLI exits.                      *)

Stopping(n, pc) == shutdown' = [call |-> n, pc |-> pc]

\* stop() returns at once when stopped, and refuses while starting.
NothingToStop == state' \in {"stopped", "starting"}

\* A call of stop() is over: after the first, cleanup() clears the timers and
\* calls it again.
StopReturns ==
  \/ /\ shutdown.call < 2
     /\ restartTimer' = FALSE /\ healthTimer' = FALSE
     /\ Stopping(2, IF NothingToStop THEN "cleanup" ELSE "log")
  \/ /\ shutdown.call = 2
     /\ Stopping(2, "cleanup")
     /\ UNCHANGED <<restartTimer, healthTimer>>

\* SIGTERM, SIGINT or SIGHUP; later ones are ignored.
Signal ==
  /\ runner = "up" /\ shutdown.pc = "off"
  /\ raced' = (starter \notin {"idle", "announced"})
  /\ UNCHANGED state
  /\ \/ NothingToStop /\ StopReturns
     \/ /\ ~NothingToStop /\ Stopping(1, "log")
        /\ UNCHANGED <<restartTimer, healthTimer>>
  /\ UNCHANGED <<restartCount, child, process, starter, checks, port, runner,
                 stopVictim, spawned>>

\* A signal before the handlers are there: it ends the CLI, as signals do, but not
\* the child, which has a process group of its own.
Killed ==
  /\ runner \in {"starting", "spawned"}
  /\ runner' = "exited" /\ raced' = TRUE
  /\ starter' = "idle" /\ restartTimer' = FALSE
  /\ healthTimer' = FALSE /\ health' = "idle"
  /\ UNCHANGED <<state, restartCount, child, process, healthVictim, port, shutdown,
                 stopVictim, spawned>>

\* The rest of stop() up to its next await, in state s.
KillForStop(s) ==
  /\ healthTimer' = FALSE
  /\ \/ /\ Live(child)
        /\ state' = s
        /\ stopVictim' = child /\ Stopping(shutdown.call, "kill")
     \/ /\ ~Live(child) /\ s = "stopping"
        /\ state' = "stopped"
        /\ Stopping(shutdown.call, "closing") /\ UNCHANGED stopVictim

\* stop() has logged the request: now the state changes, whatever it is, and a
\* pending restart is cancelled, which is logged.
StopLogged ==
  /\ shutdown.pc = "log"
  /\ \/ /\ restartTimer /\ restartTimer' = FALSE
        /\ state' = "stopping"
        /\ Stopping(shutdown.call, "timer")
        /\ UNCHANGED <<healthTimer, stopVictim>>
     \/ ~restartTimer /\ UNCHANGED restartTimer /\ KillForStop("stopping")
  /\ UNCHANGED <<restartCount, child, process, starter, checks, port, runner,
                 history>>

\* The cancellation is logged.  When the state is no longer "stopping" and no
\* child is left, stop() just returns.
StopTimerLogged ==
  /\ shutdown.pc = "timer"
  /\ \/ KillForStop(state) /\ UNCHANGED restartTimer
     \/ /\ ~Live(child) /\ state # "stopping"
        /\ UNCHANGED <<state, stopVictim>>
        /\ StopReturns
  /\ UNCHANGED <<restartCount, child, process, starter, checks, port, runner,
                 history>>

\* Mutant: no timeout.
StopKillDoneMutant ==
  /\ shutdown.pc = "kill" /\ stopVictim = None
  /\ \/ /\ state = "stopping" /\ state' = "stopped"
        /\ Stopping(shutdown.call, "closing")
        /\ UNCHANGED <<restartTimer, healthTimer>>
     \/ state # "stopping" /\ UNCHANGED state /\ StopReturns
  /\ UNCHANGED <<restartCount, child, process, starter, checks, port, runner,
                 stopVictim, history>>

\* The child is gone, or the time is over.  When the exit handler has not set
\* the state already, stop() does.
StopKillDone ==
  /\ shutdown.pc = "kill"
  /\ \/ stopVictim = None /\ UNCHANGED process
     \/ stopVictim # None /\ Sigkill
  /\ stopVictim' = None
  /\ \/ /\ state = "stopping" /\ state' = "stopped"
        /\ Stopping(shutdown.call, "closing")
        /\ UNCHANGED <<restartTimer, healthTimer>>
     \/ state # "stopping" /\ UNCHANGED state /\ StopReturns
  /\ UNCHANGED <<restartCount, child, starter, checks, port, runner, history>>

StopClosed ==
  /\ shutdown.pc = "closing"
  /\ UNCHANGED state
  /\ StopReturns
  /\ UNCHANGED <<restartCount, child, process, starter, checks, port, runner,
                 stopVictim, history>>

\* The logs are removed and the CLI calls process.exit: timers and promises
\* are gone, children are not.
CleanedUp ==
  /\ shutdown.pc = "cleanup"
  /\ runner' = "exited" /\ Stopping(2, "done")
  /\ starter' = "idle" /\ restartTimer' = FALSE
  /\ healthTimer' = FALSE /\ health' = "idle"
  /\ UNCHANGED <<state, restartCount, child, process, healthVictim, port,
                 stopVictim, history>>

StartStep ==
  \/ RestartTimerFires \/ Start
  \/ StartLogged \/ StableLogged \/ RunnerUp \/ SpawnFailed

HealthStep ==
  \/ PortResponsive \/ PortNotResponsive
  \/ HealthKill \/ HealthKillDone

StopStep ==
  \/ StopLogged \/ StopTimerLogged \/ StopKillDone \/ StopClosed \/ CleanedUp

Next ==
  \/ StartStep \/ HealthCheck \/ HealthStep
  \/ Signal \/ Killed \/ StopStep
  \/ \E c \in Children : Exit(c) \/ ChildError(c)
  \/ runner = "exited" /\ UNCHANGED vars

Spec == Init /\ [][Next]_vars

\* Timers fire, log appends end and a killed child exits.  A child need not
\* exit by itself, nor at SIGTERM.
Fairness ==
  /\ WF_vars(StartStep) /\ WF_vars(HealthStep) /\ WF_vars(StopStep)
  /\ \A c \in Children : WF_vars(process[c] = "killed" /\ Exit(c))

FairSpec == Spec /\ Fairness
-----------------------------------------------------------------------------
(* Properties.                                                             *)

\* There is never a second dev server: a restart is scheduled only when the
\* child is gone, whatever errors, health checks and shutdowns do meanwhile.
OneChild == Cardinality({c \in Children : Live(c)}) <= 1

\* The state tells whether there is a dev server: "running" has one, "stopped"
\* has none but one that SIGKILL is about to end.
StateMatchesChild ==
  /\ state = "running" => Live(child)
  /\ state = "stopped" => \A c \in Children : process[c] # "alive"

\* A restart is pending only after a crash; in particular no stop leaves one.
RestartOnlyWhenCrashed == restartTimer => state = "crashed" /\ starter = "idle"

\* "Run in its own process group so stop/restart kills the full subtree"
\* (process-monitor.ts:430): when the CLI has exited it leaves no dev server
\* behind, unless start() had passed its guard when the signal came or
\* passed it before the shutdown was over; a restart timer that fires meanwhile
\* is not enough.
NoOrphan ==
  (runner = "exited" /\ ~raced) => \A c \in Children : process[c] # "alive"

\* The monitor never waits for nothing: a scheduled restart ends in a running
\* process or a failed start, and every shutdown, also one that meets a restart,
\* ends, although the child may never react to SIGTERM.
NeverHangs ==
  (restartTimer \/ shutdown.pc # "off")
    ~> (\/ runner = "exited"
        \/ shutdown.pc = "off" /\ state \in {"running", "stopped"})

-----------------------------------------------------------------------------
(* Refuted: what a document, a test or a comment says and TLC finds violated *)
(* (README, "What the models disagree on").  No run checks these.            *)

\* "should restart when previously responsive port becomes unresponsive"
\* (monitor-cli.test.ts:2689): when the child ends that a health check wanted
\* restarted, and restarts are left, a restart is scheduled.
HealthKillRestarts ==
  [][\A c \in Children :
       (/\ health = "kill" /\ healthVictim = c /\ process'[c] = "gone"
        /\ state = "running" /\ restartCount < MaxRestarts)
       => restartTimer']_vars
=============================================================================
