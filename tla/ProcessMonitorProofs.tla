------------------------ MODULE ProcessMonitorProofs ------------------------
(***************************************************************************)
(* Proofs about ProcessMonitor, for every number of restarts, every port   *)
(* threshold and any number of places for children.                        *)
(***************************************************************************)
EXTENDS ProcessMonitor, FiniteSetTheorems, TLAPS

AllGone   == \A c \in Children : process[c] = "gone"
NoneAlive == \A c \in Children : process[c] # "alive"

\* No child but the current one is left, and none at all while a start is under
\* way or a restart pending.
OnlyTheCurrent == \A c \in Children : process[c] # "gone" => c = child
StartsAlone    == starter # "idle" \/ restartTimer => AllGone

\* Every spawn but the first was paid for by a restart.
Paid ==
  /\ spawned <= restartCount + 1
  /\ starter # "idle" \/ restartTimer => spawned <= restartCount

\* Where start() and the runner are.
Startup ==
  /\ runner # "exited" /\ state = "starting" => starter \in {"logged", "stable", "failed"}
  /\ runner \in {"starting", "spawned"} => shutdown.pc = "off"
  /\ runner = "exited" => starter = "idle" /\ ~restartTimer /\ shutdown.pc \in {"off", "done"}

\* What a shutdown has achieved when no start() went on meanwhile, and that it
\* still waits for its victim while the state says so.
Shutdown ==
  /\ raced => shutdown.pc # "off" \/ runner = "exited"
  /\ shutdown.pc = "kill" /\ state = "stopping" => stopVictim # None
  /\ ~raced /\ shutdown.pc # "off" => starter \in {"idle", "announced"}
  /\ ~raced /\ shutdown.pc = "kill" /\ stopVictim = None => AllGone
  /\ ~raced /\ shutdown.pc \in {"closing", "cleanup", "done"} => NoneAlive

Inv ==
  /\ TypeOK /\ OnlyTheCurrent /\ StartsAlone /\ Paid
  /\ StateMatchesChild /\ RestartOnlyWhenCrashed
  /\ Startup /\ Shutdown /\ NoOrphan

-----------------------------------------------------------------------------

LEMMA InitInv == Init => Inv
<1> SUFFICES ASSUME Init PROVE Inv OBVIOUS
<1> USE MonitorAssumption DEF Init
<1>1. TypeOK
  <2>1. shutdown \in [call : 0 .. 2,
                     pc : {"off", "log", "timer", "kill", "closing", "cleanup", "done"}]
    OBVIOUS
  <2>2. process \in [Children -> {"gone", "alive", "killed"}] OBVIOUS
  <2>3. restartCount \in 0 .. MaxRestarts /\ spawned \in 0 .. MaxRestarts + 1
        /\ failures \in 0 .. PortThreshold
    OBVIOUS
  <2> QED BY <2>1, <2>2, <2>3 DEF TypeOK
<1>2. OnlyTheCurrent /\ StartsAlone /\ Paid
  BY DEF OnlyTheCurrent, StartsAlone, AllGone, Paid
<1>3. StateMatchesChild /\ RestartOnlyWhenCrashed /\ NoOrphan
  BY DEF StateMatchesChild, RestartOnlyWhenCrashed, NoOrphan
<1>4. Startup /\ Shutdown BY DEF Startup, Shutdown
<1> QED BY <1>1, <1>2, <1>3, <1>4 DEF Inv

\* The types of the Boolean variables and of the others.
Switches ==
  /\ restartTimer \in BOOLEAN /\ healthTimer \in BOOLEAN
  /\ portBound \in BOOLEAN /\ healthRestart \in BOOLEAN /\ raced \in BOOLEAN

Others ==
  /\ state \in {"stopped", "starting", "running", "stopping", "crashed"}
  /\ restartCount \in 0 .. MaxRestarts /\ failures \in 0 .. PortThreshold
  /\ child \in Children \union {None}
  /\ process \in [Children -> {"gone", "alive", "killed"}]
  /\ starter \in {"idle", "announced", "logged", "stable", "failed"}
  /\ health \in {"idle", "probe", "log", "kill"}
  /\ {healthVictim, stopVictim} \subseteq Children \union {None}
  /\ runner \in {"starting", "spawned", "up", "exited"}
  /\ shutdown \in [call : 0 .. 2,
                   pc : {"off", "log", "timer", "kill", "closing", "cleanup", "done"}]
  /\ spawned \in 0 .. MaxRestarts + 1

LEMMA TypeParts == (TypeOK => Switches /\ Others) /\ (Switches' /\ Others' => TypeOK')
BY Zenon DEF TypeOK, Switches, Others

LEMMA ZeroFailures == 0 \in 0 .. PortThreshold
BY MonitorAssumption

\* When the current child is gone, all are.
LEMMA NotLive == TypeOK /\ OnlyTheCurrent /\ ~Live(child) => AllGone
BY MonitorAssumption DEF TypeOK, OnlyTheCurrent, Live, AllGone

\* spawn() happens when no child is left and no stop has begun unnoticed, so
\* there is one child at most afterwards.
LEMMA SpawnInv ==
  ASSUME Inv, starter \in {"logged", "stable"}, Spawn, UNCHANGED <<restartTimer, checks, shutdown, stopVictim, raced>>,
         portBound' = portBound \/ portBound' = FALSE, failures' \in {failures, 0},
         healthRestart' \in {healthRestart, FALSE},
         \/ restartCount' = restartCount
            /\ spawned' = IF starter' = "idle" THEN spawned + 1 ELSE spawned
         \/ restartCount' = 0 /\ spawned' = IF starter' = "idle" THEN 1 ELSE 0
  PROVE  Inv'
<1> USE MonitorAssumption DEF checks
<1>1. AllGone /\ ~restartTimer BY DEF Inv, StartsAlone, RestartOnlyWhenCrashed
<1>2. runner # "exited" /\ (shutdown.pc # "off" => raced) /\ state \notin {"running"}
  BY <1>1 DEF Inv, TypeOK, Startup, Shutdown, StateMatchesChild, AllGone, Live
<1>3. TypeOK'
  <2>1. spawned' \in 0 .. MaxRestarts + 1 /\ restartCount' \in 0 .. MaxRestarts
    BY DEF Inv, TypeOK, Paid
  <2>2. failures' \in 0 .. PortThreshold BY DEF Inv, TypeOK
  <2>5. portBound' \in BOOLEAN /\ healthRestart' \in BOOLEAN BY Zenon DEF Inv, TypeOK
  <2>3. child' \in Children \union {None} /\ process' \in [Children -> {"gone", "alive", "killed"}]
    BY DEF Inv, TypeOK, Spawn
  <2>4. state' \in {"stopped", "starting", "running", "stopping", "crashed"}
        /\ starter' \in {"idle", "announced", "logged", "stable", "failed"}
        /\ healthTimer' \in BOOLEAN /\ runner' \in {"starting", "spawned", "up", "exited"}
    BY DEF Inv, TypeOK, Spawn
  <2> QED BY <2>1, <2>2, <2>3, <2>4, <2>5 DEF Inv, TypeOK
<1>4. OnlyTheCurrent' /\ StartsAlone' /\ StateMatchesChild' /\ RestartOnlyWhenCrashed'
  BY <1>1, <1>2 DEF Inv, TypeOK, Spawn, AllGone, OnlyTheCurrent, StartsAlone, StateMatchesChild,
     RestartOnlyWhenCrashed, Live
<1>5. Paid' BY <1>1 DEF Inv, TypeOK, Paid, Spawn
<1>6. Startup' /\ Shutdown' /\ NoOrphan'
  BY <1>1, <1>2 DEF Inv, Spawn, AllGone, NoneAlive, Startup, Shutdown, NoOrphan
<1> QED BY <1>3, <1>4, <1>5, <1>6 DEF Inv

LEMMA StartInv == Inv /\ StartStep => Inv'
<1> SUFFICES ASSUME Inv, StartStep PROVE Inv' OBVIOUS
<1> USE MonitorAssumption
<1> USE DEF Inv, TypeOK, OnlyTheCurrent, StartsAlone, AllGone, NoneAlive, Paid, StateMatchesChild,
            RestartOnlyWhenCrashed, Startup, Shutdown, NoOrphan, Live,
            restarts, port, checks, history
<1>1. CASE RestartTimerFires
  <2>1. /\ starter' \in {"idle", "announced"} /\ restartTimer' = FALSE
        /\ UNCHANGED <<state, restartCount, child, process, healthTimer, health, healthVictim,
                       portBound, failures, healthRestart, runner, shutdown, stopVictim, spawned,
                       raced>>
    BY <1>1, Zenon DEF RestartTimerFires
  <2>2. TypeOK'
    <3> HIDE DEF Inv, TypeOK
    <3>1. Switches /\ Others BY TypeParts DEF Inv
    <3>2. Switches' BY <2>1, <3>1, Zenon DEF Switches
    <3>3. Others' BY <2>1, <3>1 DEF Others
    <3> QED BY <3>2, <3>3, TypeParts
  <2>3. OnlyTheCurrent' /\ StartsAlone' /\ Paid' BY <1>1 DEF RestartTimerFires
  <2>4. StateMatchesChild' /\ RestartOnlyWhenCrashed' BY <1>1 DEF RestartTimerFires
  <2>5. Startup' /\ Shutdown' /\ NoOrphan' BY <1>1 DEF RestartTimerFires
  <2> QED BY <2>2, <2>3, <2>4, <2>5
<1>2. CASE Start
  <2>1. /\ state' \in {"starting", state} /\ starter' \in {"logged", "idle"}
        /\ raced' \in {raced, TRUE, shutdown.pc # "off"}
        /\ UNCHANGED <<restartCount, restartTimer, child, process, healthTimer, health,
                       healthVictim, portBound, failures, healthRestart, runner, shutdown,
                       stopVictim, spawned>>
    BY <1>2 DEF Start
  <2>2. TypeOK'
    <3> HIDE DEF Inv, TypeOK
    <3>1. Switches /\ Others BY TypeParts DEF Inv
    <3>2. raced' \in BOOLEAN BY <2>1, <3>1, Zenon DEF Switches
    <3>3. Switches' BY <2>1, <3>1, <3>2, Zenon DEF Switches
    <3>4. Others' BY <2>1, <3>1 DEF Others
    <3> QED BY <3>3, <3>4, TypeParts
  <2>3. OnlyTheCurrent' /\ StartsAlone' /\ Paid' BY <1>2 DEF Start
  <2>4. StateMatchesChild' /\ RestartOnlyWhenCrashed' BY <1>2 DEF Start
  <2>5. CASE starter' = "logged"
    <3>1. shutdown.pc = "off" \/ raced'
      <4>1. raced' = (raced \/ shutdown.pc # "off") BY <1>2, <2>5, Zenon DEF Start
      <4> QED BY <4>1, Zenon
    <3>2. AllGone' /\ runner' # "exited" BY <1>2 DEF Start
    <3>3. raced' = (raced \/ shutdown.pc # "off") /\ state' = "starting"
      BY <1>2, <2>5, Zenon DEF Start
    <3>4. Startup' /\ Shutdown' BY <2>1, <2>5, <3>1, <3>2, <3>3
    <3>5. NoOrphan' BY <2>1, <3>2
    <3> QED BY <2>2, <2>3, <2>4, <3>4, <3>5
  <2>6. CASE starter' = "idle"
    <3>1. state' = state /\ raced' = raced BY <1>2, <2>6 DEF Start
    <3>2. Startup' /\ Shutdown' /\ NoOrphan' BY <1>2, <2>1, <2>6, <3>1 DEF Start
    <3> QED BY <2>2, <2>3, <2>4, <3>2
  <2> QED BY <2>1, <2>5, <2>6
<1>3. CASE StartLogged /\ starter' = "stable"
  <2>1. /\ starter = "logged" /\ portBound' = FALSE /\ failures' = 0 /\ healthRestart' = FALSE
        /\ UNCHANGED <<child, process, state, healthTimer, runner, spawned>>
        /\ UNCHANGED <<restarts, checks, shutdown, stopVictim, raced>>
    BY <1>3 DEF StartLogged, Spawn
  <2>2. TypeOK'
    <3>1. failures' \in 0 .. PortThreshold /\ portBound' \in BOOLEAN /\ healthRestart' \in BOOLEAN
      BY <2>1, ZeroFailures, Zenon
    <3>2. shutdown' = shutdown /\ process' = process BY <2>1
    <3> QED BY <1>3, <2>1, <3>1, <3>2
  <2>3. OnlyTheCurrent' /\ StartsAlone' /\ Paid' BY <1>3, <2>1
  <2>4. StateMatchesChild' /\ RestartOnlyWhenCrashed' BY <1>3, <2>1
  <2>5. Startup' /\ Shutdown' /\ NoOrphan' BY <1>3, <2>1
  <2> QED BY <2>2, <2>3, <2>4, <2>5
<1>4. CASE StartLogged /\ starter' # "stable"
  <2>1. starter \in {"logged", "stable"} /\ Spawn /\ UNCHANGED <<restartTimer, checks, shutdown, stopVictim, raced>>
        /\ portBound' = FALSE /\ failures' = 0 /\ healthRestart' = FALSE
        /\ restartCount' = restartCount
        /\ spawned' = IF starter' = "idle" THEN spawned + 1 ELSE spawned
    BY <1>4 DEF StartLogged
  <2> QED BY <2>1, SpawnInv
<1>5. CASE StableLogged
  <2>1. starter \in {"logged", "stable"} /\ Spawn /\ UNCHANGED <<restartTimer, checks, shutdown, stopVictim, raced>>
        /\ portBound' = portBound /\ failures' = failures /\ healthRestart' = healthRestart
        /\ restartCount' = 0 /\ spawned' = IF starter' = "idle" THEN 1 ELSE 0
    BY <1>5 DEF StableLogged
  <2> QED BY <2>1, SpawnInv
<1>6. CASE SpawnFailed BY <1>6 DEF SpawnFailed
<1>7. CASE RunnerUp BY <1>7 DEF RunnerUp
<1> QED BY <1>1, <1>2, <1>3, <1>4, <1>5, <1>6, <1>7 DEF StartStep

\* A child's end leaves nobody; only then is a restart scheduled.
LEMMA ChildInv == \A c \in Children : Inv /\ (Exit(c) \/ ChildError(c)) => Inv'
<1> SUFFICES ASSUME NEW c \in Children, Inv, Exit(c) \/ ChildError(c) PROVE Inv' OBVIOUS
<1> USE MonitorAssumption
<1> USE DEF Inv, TypeOK, OnlyTheCurrent, StartsAlone, AllGone, NoneAlive, Paid, StateMatchesChild,
            RestartOnlyWhenCrashed, Startup, Shutdown, NoOrphan, Live,
            restarts, port, checks, history
<1>1. CASE Exit(c)
  <2> USE <1>1 DEF Exit, OnExit, ShouldRestartAfterExit, ScheduleRestart
  <2>1. TypeOK'
    <3>0. restarts' = restarts \/ (restartCount < MaxRestarts /\ ScheduleRestart) OBVIOUS
    <3>1. restartCount' \in 0 .. MaxRestarts
      <4>1. restartCount \in 0 .. MaxRestarts OBVIOUS
      <4>2. restartCount' = restartCount \/ (restartCount < MaxRestarts /\ restartCount' = restartCount + 1)
        BY <3>0 DEF ScheduleRestart
      <4> HIDE DEF Inv, TypeOK
      <4> QED BY <4>1, <4>2, MonitorAssumption
    <3>5. restartTimer' \in BOOLEAN BY <3>0, Zenon DEF ScheduleRestart
    <3>7. Switches /\ Others BY TypeParts
    <3>2. state' \in {"stopped", "starting", "running", "stopping", "crashed"} OBVIOUS
    <3>3. process' \in [Children -> {"gone", "alive", "killed"}] OBVIOUS
    <3>4. {healthVictim', stopVictim'} \subseteq Children \union {None} OBVIOUS
    <3>6. UNCHANGED <<child, starter, healthTimer, health, portBound, failures, healthRestart,
                      runner, shutdown, spawned, raced>>
      BY <1>1 DEF Exit
    <3> HIDE <1>1 DEF Inv, TypeOK, Exit, OnExit, ShouldRestartAfterExit, ScheduleRestart
    <3>8. Switches' BY <3>5, <3>6, <3>7, Zenon DEF Switches
    <3>9. Others' BY <3>1, <3>2, <3>3, <3>4, <3>6, <3>7 DEF Others
    <3> QED BY <3>8, <3>9, TypeParts
  <2>2. OnlyTheCurrent' /\ StartsAlone' /\ Paid' OBVIOUS
  <2>3. StateMatchesChild' /\ RestartOnlyWhenCrashed' OBVIOUS
  <2>4. Startup' /\ Shutdown' /\ NoOrphan' OBVIOUS
  <2> QED BY <2>1, <2>2, <2>3, <2>4
<1>2. CASE ChildError(c) BY <1>2 DEF ChildError
<1> QED BY <1>1, <1>2

LEMMA HealthInv == Inv /\ (HealthCheck \/ HealthStep) => Inv'
<1> SUFFICES ASSUME Inv, HealthCheck \/ HealthStep PROVE Inv' OBVIOUS
<1> USE MonitorAssumption
<1> USE DEF Inv, TypeOK, OnlyTheCurrent, StartsAlone, AllGone, NoneAlive, Paid, StateMatchesChild,
            RestartOnlyWhenCrashed, Startup, Shutdown, NoOrphan, Live,
            restarts, port, checks, history
<1>1. CASE HealthCheck BY <1>1 DEF HealthCheck
<1>2. CASE PortResponsive
  <2> USE <1>2 DEF PortResponsive
  <2>1. TypeOK'
    <3>1. failures' \in 0 .. PortThreshold BY ZeroFailures
    <3>2. portBound' \in BOOLEAN /\ healthRestart' \in BOOLEAN /\ health' = "idle" BY Zenon
    <3>3. UNCHANGED <<state, restartCount, restartTimer, child, process, starter, healthTimer,
                      healthVictim, runner, shutdown, stopVictim, spawned, raced>>
      OBVIOUS
    <3>4. Switches /\ Others BY TypeParts
    <3> HIDE <1>2 DEF Inv, TypeOK, PortResponsive
    <3>5. Switches' BY <3>2, <3>3, <3>4, Zenon DEF Switches
    <3>6. Others' BY <3>1, <3>2, <3>3, <3>4 DEF Others
    <3> QED BY <3>5, <3>6, TypeParts
  <2>2. OnlyTheCurrent' /\ StartsAlone' /\ Paid' OBVIOUS
  <2>3. StateMatchesChild' /\ RestartOnlyWhenCrashed' OBVIOUS
  <2>4. Startup' /\ Shutdown' /\ NoOrphan' OBVIOUS
  <2> QED BY <2>1, <2>2, <2>3, <2>4
<1>3. CASE PortNotResponsive
  <2> USE <1>3 DEF PortNotResponsive
  <2>1. TypeOK' OBVIOUS
  <2>2. OnlyTheCurrent' /\ StartsAlone' /\ Paid' OBVIOUS
  <2>3. StateMatchesChild' /\ RestartOnlyWhenCrashed' OBVIOUS
  <2>4. Startup' /\ Shutdown' /\ NoOrphan' OBVIOUS
  <2> QED BY <2>1, <2>2, <2>3, <2>4
<1>4. CASE HealthKill BY <1>4 DEF HealthKill
<1>5. CASE HealthKillDone BY <1>5 DEF HealthKillDone, Sigkill
<1> QED BY <1>1, <1>2, <1>3, <1>4, <1>5 DEF HealthStep

Calls == [call : 0 .. 2, pc : {"off", "log", "timer", "kill", "closing", "cleanup", "done"}]

LEMMA StoppingType ==
  ASSUME NEW n \in 0 .. 2, Stopping(n, "log") \/ Stopping(n, "timer") \/ Stopping(n, "kill")
         \/ Stopping(n, "closing") \/ Stopping(n, "cleanup") \/ Stopping(n, "done")
  PROVE  shutdown' \in Calls
BY DEF Stopping, Calls

LEMMA StopReturnsType == StopReturns => shutdown' \in Calls
BY StoppingType, 2 \in 0 .. 2, Zenon DEF StopReturns

\* An exited CLI owes nothing but what NoOrphan says of a signal that met no start.
LEMMA KilledInv == Inv /\ Killed => Inv'
<1> SUFFICES ASSUME Inv, Killed PROVE Inv' OBVIOUS
<1> USE DEF Killed, port
<1>1. Switches /\ Others BY TypeParts DEF Inv
<1>2. TypeOK'
  <2>1. Switches' BY <1>1, Zenon DEF Switches
  <2>2. Others' BY <1>1 DEF Others
  <2> QED BY <2>1, <2>2, TypeParts
<1>3. OnlyTheCurrent' /\ StartsAlone' /\ Paid'
  BY <1>1 DEF Inv, OnlyTheCurrent, StartsAlone, AllGone, Paid
<1>4. StateMatchesChild' /\ RestartOnlyWhenCrashed'
  BY DEF Inv, StateMatchesChild, RestartOnlyWhenCrashed, Live
<1>5. Startup' /\ Shutdown' /\ NoOrphan' BY DEF Inv, Startup, Shutdown, NoOrphan
<1> QED BY <1>2, <1>3, <1>4, <1>5 DEF Inv

LEMMA StopInv == Inv /\ (Signal \/ StopStep) => Inv'
<1> SUFFICES ASSUME Inv, Signal \/ StopStep PROVE Inv' OBVIOUS
<1> USE MonitorAssumption
<1> USE DEF Inv, TypeOK, OnlyTheCurrent, StartsAlone, AllGone, NoneAlive, Paid, StateMatchesChild,
            RestartOnlyWhenCrashed, Startup, Shutdown, NoOrphan, Live,
            restarts, port, checks, history
<1> USE DEF Stopping, StopReturns, NothingToStop, KillForStop
<1>1. CASE Signal
  <2> USE <1>1 DEF Signal
  <2>0. shutdown' \in Calls BY <1>1, StopReturnsType, StoppingType DEF Signal
  <2>1. TypeOK'
    <3>1. restartTimer' \in BOOLEAN /\ healthTimer' \in BOOLEAN /\ raced' \in BOOLEAN
      BY <1>1, Zenon DEF Signal
    <3>2. UNCHANGED <<state, restartCount, child, process, starter, health, healthVictim,
                      portBound, failures, healthRestart, runner, stopVictim, spawned>>
      BY <1>1 DEF Signal
    <3>3. Switches /\ Others BY TypeParts
    <3> HIDE <1>1 DEF Inv, TypeOK, Signal, Stopping, StopReturns, NothingToStop, KillForStop
    <3>4. Switches' BY <3>1, <3>2, <3>3, Zenon DEF Switches
    <3>5. Others' BY <2>0, <3>2, <3>3 DEF Others, Calls
    <3> QED BY <3>4, <3>5, TypeParts
  <2>2. OnlyTheCurrent' /\ StartsAlone' /\ Paid' OBVIOUS
  <2>3. StateMatchesChild' /\ RestartOnlyWhenCrashed' OBVIOUS
  <2>4. Startup' OBVIOUS
  <2>5. Shutdown' /\ NoOrphan'
    <3>1. CASE NothingToStop /\ StopReturns
      <4>1. shutdown'.pc = "cleanup" /\ state' \in {"stopped", "starting"} BY <3>1
      <4>2. ~raced' => NoneAlive /\ starter \in {"idle", "announced"} BY <4>1
      <4> QED BY <4>1, <4>2
    <3>2. CASE ~NothingToStop /\ Stopping(1, "log") BY <3>2
    <3> QED BY <3>1, <3>2
  <2> QED BY <2>1, <2>2, <2>3, <2>4, <2>5
<1>2. CASE StopLogged
  <2> USE <1>2 DEF StopLogged
  <2>0. shutdown' \in Calls BY <1>2, StopReturnsType, StoppingType DEF StopLogged
  <2>1. TypeOK'
    <3>1. state' \in {"stopped", "starting", "running", "stopping", "crashed"} OBVIOUS
    <3>2. {healthVictim', stopVictim'} \subseteq Children \union {None} OBVIOUS
    <3>3. restartTimer' \in BOOLEAN /\ healthTimer' \in BOOLEAN OBVIOUS
    <3> QED BY <2>0, <3>1, <3>2, <3>3, Zenon DEF Calls
  <2>2. OnlyTheCurrent' /\ StartsAlone' /\ Paid' OBVIOUS
  <2>3. StateMatchesChild' /\ RestartOnlyWhenCrashed' OBVIOUS
  <2>4. Startup' /\ Shutdown' /\ NoOrphan' OBVIOUS
  <2> QED BY <2>1, <2>2, <2>3, <2>4
<1>3. CASE StopTimerLogged
  <2> USE <1>3 DEF StopTimerLogged
  <2>0. shutdown' \in Calls BY <1>3, StopReturnsType, StoppingType DEF StopTimerLogged
  <2>1. TypeOK'
    <3>1. state' \in {"stopped", "starting", "running", "stopping", "crashed"} OBVIOUS
    <3>2. process' \in [Children -> {"gone", "alive", "killed"}] OBVIOUS
    <3>3. {healthVictim', stopVictim'} \subseteq Children \union {None} OBVIOUS
    <3>4. restartTimer' \in BOOLEAN /\ healthTimer' \in BOOLEAN OBVIOUS
    <3> QED BY <2>0, <3>1, <3>2, <3>3, <3>4, Zenon DEF Calls
  <2>2. OnlyTheCurrent' /\ StartsAlone' /\ Paid' OBVIOUS
  <2>3. StateMatchesChild' /\ RestartOnlyWhenCrashed' OBVIOUS
  <2>4. Startup' /\ Shutdown' /\ NoOrphan' OBVIOUS
  <2> QED BY <2>1, <2>2, <2>3, <2>4
<1>4. CASE StopKillDone
  <2> USE <1>4 DEF StopKillDone, Sigkill
  <2>0. shutdown' \in Calls BY <1>4, StopReturnsType, StoppingType DEF StopKillDone
  <2>1. TypeOK'
    <3>1. state' \in {"stopped", "starting", "running", "stopping", "crashed"} OBVIOUS
    <3>2. process' \in [Children -> {"gone", "alive", "killed"}] OBVIOUS
    <3>3. {healthVictim', stopVictim'} \subseteq Children \union {None} OBVIOUS
    <3>4. restartTimer' \in BOOLEAN /\ healthTimer' \in BOOLEAN OBVIOUS
    <3> QED BY <2>0, <3>1, <3>2, <3>3, <3>4, Zenon DEF Calls
  <2>2. OnlyTheCurrent' /\ StartsAlone' /\ Paid' OBVIOUS
  <2>3. StateMatchesChild' /\ RestartOnlyWhenCrashed' OBVIOUS
  <2>4. Startup' /\ Shutdown' /\ NoOrphan' OBVIOUS
  <2> QED BY <2>1, <2>2, <2>3, <2>4
<1>5. CASE StopClosed
  <2> USE <1>5 DEF StopClosed
  <2>0. shutdown' \in Calls BY <1>5, StopReturnsType, StoppingType DEF StopClosed
  <2>1. TypeOK'
    <3>1. state' \in {"stopped", "starting", "running", "stopping", "crashed"} OBVIOUS
    <3>2. process' \in [Children -> {"gone", "alive", "killed"}] OBVIOUS
    <3>3. {healthVictim', stopVictim'} \subseteq Children \union {None} OBVIOUS
    <3>4. restartTimer' \in BOOLEAN /\ healthTimer' \in BOOLEAN OBVIOUS
    <3> QED BY <2>0, <3>1, <3>2, <3>3, <3>4, Zenon DEF Calls
  <2>2. OnlyTheCurrent' /\ StartsAlone' /\ Paid' OBVIOUS
  <2>3. StateMatchesChild' /\ RestartOnlyWhenCrashed' OBVIOUS
  <2>4. Startup' /\ Shutdown' /\ NoOrphan' OBVIOUS
  <2> QED BY <2>1, <2>2, <2>3, <2>4
<1>6. CASE CleanedUp
  <2> USE <1>6 DEF CleanedUp
  <2>0. shutdown' \in Calls BY <1>6, StopReturnsType, StoppingType DEF CleanedUp
  <2>1. TypeOK' BY <2>0 DEF Calls
  <2>2. OnlyTheCurrent' /\ StartsAlone' /\ Paid' OBVIOUS
  <2>3. StateMatchesChild' /\ RestartOnlyWhenCrashed' OBVIOUS
  <2>4. Startup' /\ Shutdown' /\ NoOrphan' OBVIOUS
  <2> QED BY <2>1, <2>2, <2>3, <2>4
<1> QED BY <1>1, <1>2, <1>3, <1>4, <1>5, <1>6 DEF StopStep

LEMMA NextInv == Inv /\ [Next]_vars => Inv'
<1> SUFFICES ASSUME Inv, [Next]_vars PROVE Inv' OBVIOUS
<1>1. CASE StartStep \/ HealthCheck \/ HealthStep \/ Signal \/ Killed \/ StopStep
  BY <1>1, StartInv, HealthInv, StopInv, KilledInv
<1>2. CASE \E c \in Children : Exit(c) \/ ChildError(c) BY <1>2, ChildInv
<1>3. CASE UNCHANGED vars
  <2> USE <1>3 DEF vars, restarts, port, checks, history
  <2>1. TypeOK' BY DEF Inv, TypeOK
  <2>2. OnlyTheCurrent' /\ StartsAlone' /\ Paid' /\ Shutdown'
    BY DEF Inv, OnlyTheCurrent, StartsAlone, AllGone, NoneAlive, Paid, Shutdown
  <2>3. StateMatchesChild' /\ RestartOnlyWhenCrashed' /\ Startup' /\ NoOrphan'
    BY DEF Inv, StateMatchesChild, Live, RestartOnlyWhenCrashed, Startup, NoOrphan
  <2> QED BY <2>1, <2>2, <2>3 DEF Inv
<1> QED BY <1>1, <1>2, <1>3 DEF Next

THEOREM Invariance == Spec => []Inv
BY InitInv, NextInv, PTL DEF Spec

-----------------------------------------------------------------------------

\* The restart counter and the number of dev servers since the last stable run
\* stay within maxRestarts, through every crash, stop and failing start.
THEOREM TypeCorrectness == Spec => []TypeOK
<1>1. Inv => TypeOK BY DEF Inv
<1> QED BY <1>1, Invariance, PTL

\* setupProcessMonitoring and scheduleRestart: there is never a second dev
\* server, however many children could be had.
THEOREM OneChildHolds == Spec => []OneChild
<1>1. Inv => OneChild
  <2> SUFFICES ASSUME Inv PROVE OneChild OBVIOUS
  <2>1. {c \in Children : Live(c)} \subseteq {child} BY DEF Inv, OnlyTheCurrent, Live
  <2>2. IsFiniteSet({child}) /\ Cardinality({child}) = 1 BY FS_Singleton
  <2>3. Cardinality({c \in Children : Live(c)}) <= Cardinality({child})
    BY <2>1, <2>2, FS_Subset
  <2> QED BY <2>2, <2>3 DEF OneChild
<1> QED BY <1>1, Invariance, PTL

\* ProcessMonitor.state: "running" has a dev server, "stopped" has none that
\* SIGKILL is not about to end.
THEOREM StateIsTrue == Spec => []StateMatchesChild
<1>1. Inv => StateMatchesChild BY DEF Inv
<1> QED BY <1>1, Invariance, PTL

\* stop() and start(): a restart is pending only after a crash, with no start
\* under way; in particular no stop leaves one.
THEOREM RestartsFollowCrashes == Spec => []RestartOnlyWhenCrashed
<1>1. Inv => RestartOnlyWhenCrashed BY DEF Inv
<1> QED BY <1>1, Invariance, PTL

\* gracefulShutdown and stop(): a signal leaves no dev server behind unless a
\* start() was beyond its guard then or went beyond it before the CLI exited.
THEOREM NoOrphanHolds == Spec => []NoOrphan
<1>1. Inv => NoOrphan BY DEF Inv
<1> QED BY <1>1, Invariance, PTL
=============================================================================
