---------------------------- MODULE SandboxDeploy ----------------------------
(***************************************************************************)
(* DeploymentManager: the generated files of an agent are brought to a     *)
(* sandbox container.  Concurrent callers share one retry loop; an attempt *)
(* and a caller each give up waiting after a timeout, and neither stops    *)
(* the work it was waiting for.                                            *)
(*                                                                         *)
(* Sandboxes are allocated one to one: the container of session s holds    *)
(* the one instance "i-s", so an instance is named by its session.         *)
(***************************************************************************)
EXTENDS Integers, FiniteSets

CONSTANTS
  Callers,      \* users of deployToSandbox; each deploys a file of its own
  Loops,        \* places for executeDeploymentWithRetry
  Works,        \* places for deploy() operations, abandoned ones included
  ResetAfter,   \* maxAttemptsBeforeSessionReset
  MaxSession,   \* bound: sessions are 0 .. MaxSession
  MaxCalls,     \* bound: calls of deployToSandbox
  MaxFaults,    \* bound: errors, timeouts of attempts and container crashes
  Monitor,      \* the health check's own call of deployToSandbox
  None

ASSUME ResetAssumption == ResetAfter \in Nat \ {0}
ASSUME BoundsAssumption == {MaxSession, MaxCalls, MaxFaults} \subseteq Nat
ASSUME MonitorAssumption == Monitor \notin Callers /\ None \notin Loops

VARIABLES
  session, instance, saved,    \* persisted: sessionId, sandboxInstanceId, files
  current, loop, work, caller, \* promises in memory
  health, tick,                \* health check interval, its request in flight
  sandbox,                     \* the containers
  late, lost,                  \* history: something outlived its timeout; a file
                               \* was not written and nobody was told
  calls, faults                \* bounds

agentState == <<session, instance, saved>>
monitoring == <<health, tick>>
bounds     == <<late, lost, calls, faults>>
vars == <<agentState, current, loop, work, caller, monitoring, sandbox, bounds>>

Sessions == 0 .. MaxSession
Everyone == Callers \union {Monitor}
Versions == 0 .. MaxCalls
Content  == [Callers -> Versions]
\* What deployToSandbox is asked to write; NoFiles stands for "all of them".
NoFiles  == [c \in Callers |-> 0]

NoCall == [waiting |-> None, wants |-> NoFiles, answer |-> None]
NoLoop == [pc |-> "off", attempt |-> 0, files |-> NoFiles, redeploy |-> FALSE,
           starter |-> Monitor, target |-> None]
NoWork == [pc |-> "off", owner |-> None, client |-> 0, target |-> None,
           fresh |-> FALSE, files |-> NoFiles]

TypeOK ==
  /\ session \in Sessions
  /\ instance \in Sessions \union {None}
  /\ saved \in Content
  /\ current \in Loops \union {None}
  /\ loop \in [Loops ->
       [pc : {"off", "deploying", "setup", "backoff"}, attempt : Nat,
        files : Content, redeploy : BOOLEAN, starter : Everyone,
        target : Sessions \union {None}]]
  /\ work \in [Works ->
       [pc : {"off", "checking", "creating", "building", "writing"},
        owner : Loops \union {None}, client : Sessions,
        target : Sessions \union {None}, fresh : BOOLEAN, files : Content]]
  /\ caller \in [Everyone ->
       [waiting : Loops \union {None}, wants : Content,
        answer : Sessions \union {None}]]
  /\ health \in Sessions \union {None}
  /\ tick \in Sessions \union {None}
  /\ sandbox \in [Sessions ->
       [state : {"empty", "healthy", "dead"}, content : Content]]
  /\ late \in BOOLEAN /\ lost \in BOOLEAN
  /\ calls \in 0 .. MaxCalls
  /\ faults \in 0 .. MaxFaults

Init ==
  /\ session = 0 /\ instance = None /\ saved = NoFiles
  /\ current = None
  /\ loop = [l \in Loops |-> NoLoop]
  /\ work = [w \in Works |-> NoWork]
  /\ caller = [c \in Everyone |-> NoCall]
  /\ health = None /\ tick = None
  /\ sandbox = [s \in Sessions |-> [state |-> "empty", content |-> NoFiles]]
  /\ late = FALSE /\ lost = FALSE /\ calls = 0 /\ faults = 0

-----------------------------------------------------------------------------
(* An attempt: deploy() up to its first await.                             *)

Fault == faults < MaxFaults /\ faults' = faults + 1

\* resetSessionId.  The cached client is tied to the session and goes with it,
\* so "the client" below is always the client of the current session.
ResetSession ==
  /\ session < MaxSession
  /\ session' = session + 1
  /\ instance' = None

\* ensureInstance: look at the instance, or create one when there is none.
\* r is what the loop's record becomes.
BeginAttempt(l, r) ==
  /\ \/ r.redeploy /\ ResetSession
     \/ ~r.redeploy /\ UNCHANGED <<session, instance>>
  /\ loop' = [loop EXCEPT ![l] =
                [r EXCEPT !.pc = "deploying", !.attempt = @ + 1]]
  /\ \E w \in Works :
       /\ work[w].pc = "off"
       /\ work' = [work EXCEPT ![w] =
            [pc     |-> IF instance' = None THEN "creating" ELSE "checking",
             owner  |-> l,
             client |-> session',
             target |-> instance',
             fresh  |-> FALSE,
             files  |-> IF instance' = None THEN saved' ELSE r.files]]

\* What a call of deployToSandbox is for: these files, or all there are.
Wants(f) == IF f = NoFiles THEN saved' ELSE f

\* Mutant: the promise in progress is not looked at.
DeployToSandboxMutant(c, f, redeploy) ==
  /\ caller[c].waiting = None
  /\ \E l \in Loops :
       /\ loop[l].pc = "off"
       /\ current' = l
       /\ caller' = [caller EXCEPT ![c] =
                       [waiting |-> l, wants |-> Wants(f), answer |-> None]]
       /\ BeginAttempt(l, [NoLoop EXCEPT !.files = f, !.redeploy = redeploy,
                                         !.starter = c])

\* deployToSandbox: join the deployment in progress (the files asked for are
\* not looked at), or start one.
DeployToSandbox(c, f, redeploy) ==
  /\ caller[c].waiting = None
  /\ \/ /\ current # None
        /\ caller' = [caller EXCEPT ![c] =
                        [waiting |-> current, wants |-> Wants(f), answer |-> None]]
        /\ UNCHANGED <<session, instance, current, loop, work>>
     \/ /\ current = None
        /\ \E l \in Loops :
             /\ loop[l].pc = "off"
             /\ current' = l
             /\ caller' = [caller EXCEPT ![c] =
                             [waiting |-> l, wants |-> Wants(f), answer |-> None]]
             /\ BeginAttempt(l, [NoLoop EXCEPT !.files = f,
                                   !.redeploy = redeploy, !.starter = c])

\* A caller saves a new version of its file and deploys that file, or deploys
\* everything as it is, in a new session or not.
Call(c) ==
  /\ calls < MaxCalls
  /\ calls' = calls + 1
  /\ \/ /\ saved' = [saved EXCEPT ![c] = @ + 1]
        /\ DeployToSandbox(c, [NoFiles EXCEPT ![c] = saved[c] + 1], FALSE)
     \/ /\ UNCHANGED saved
        /\ \E redeploy \in BOOLEAN : DeployToSandbox(c, NoFiles, redeploy)
  /\ UNCHANGED <<monitoring, sandbox, late, lost, faults>>

-----------------------------------------------------------------------------
(* The end of an attempt.                                                  *)

Waiting(l) == {c \in Everyone : caller[c].waiting = l}

\* The retry loop returns a preview of instance i: everybody who waits gets
\* it, and the caller that started the loop clears the shared promise.
Resolve(l, i) ==
  /\ loop' = [loop EXCEPT ![l] = NoLoop]
  /\ caller' = [c \in Everyone |->
                  IF c \in Waiting(l)
                  THEN [caller[c] EXCEPT !.waiting = None, !.answer = i]
                  ELSE caller[c]]
  /\ current' = IF loop[l].starter \in Waiting(l) THEN None ELSE current

\* Mutant: a session-level error forgets the session and keeps the instance.
AttemptFailedMutant(l, sessionError) ==
  /\ loop' = [loop EXCEPT ![l].pc = "backoff", ![l].target = None]
  /\ \/ /\ sessionError \/ loop[l].attempt % ResetAfter = 0
        /\ session < MaxSession /\ session' = session + 1 /\ UNCHANGED instance
     \/ /\ ~sessionError /\ loop[l].attempt % ResetAfter # 0
        /\ UNCHANGED session /\ instance' = None

\* The catch block: a session-level error, or every ResetAfter-th failure,
\* resets the session; the instance is forgotten either way; back off.  (Both
\* at once reset it twice: a new session is a new session.)
AttemptFailed(l, sessionError) ==
  /\ loop' = [loop EXCEPT ![l].pc = "backoff", ![l].target = None]
  /\ \/ /\ sessionError \/ loop[l].attempt % ResetAfter = 0
        /\ ResetSession
     \/ /\ ~sessionError /\ loop[l].attempt % ResetAfter # 0
        /\ UNCHANGED session /\ instance' = None

\* The attempt w belongs to the loop that waits for it, or was abandoned.
Owned(w) == work[w].owner # None

\* deploy() fails: only a loop that still waits for it learns of it.
WorkFailed(w) ==
  /\ work' = [work EXCEPT ![w] = NoWork]
  /\ \/ /\ Owned(w)
        /\ \E sessionError \in BOOLEAN :
             AttemptFailed(work[w].owner, sessionError)
     \/ ~Owned(w) /\ UNCHANGED <<session, instance, loop>>
  /\ UNCHANGED <<saved, current, caller, monitoring, sandbox, late, lost, calls>>

-----------------------------------------------------------------------------
(* The awaits of deploy().                                                 *)

\* A request reaches the container of the client's session only.
Reachable(client, i) == client = i /\ sandbox[i].state = "healthy"

\* Mutant: a new instance is taken to hold all files already.
FilesToDeployMutant(f, fresh) ==
  IF fresh THEN NoFiles ELSE IF f = NoFiles THEN saved ELSE f

\* Files that deploy() writes: those asked for, or all files of the state.
FilesToDeploy(f, fresh) == IF f = NoFiles \/ fresh THEN saved ELSE f

\* The instance is healthy: write to it, through the client of now.
CheckPassed(w) ==
  /\ work[w].pc = "checking" /\ Reachable(work[w].client, work[w].target)
  /\ work' = [work EXCEPT ![w].pc = "writing", ![w].client = session,
                          ![w].files = FilesToDeploy(@, FALSE)]
  /\ UNCHANGED <<agentState, current, loop, caller, monitoring, sandbox, bounds>>

\* The instance is gone, or its status could not be had: create another one.
CheckNotPassed(w) ==
  /\ work[w].pc = "checking"
  /\ \/ ~Reachable(work[w].client, work[w].target) /\ UNCHANGED faults
     \/ Fault
  /\ work' = [work EXCEPT ![w].pc = "creating", ![w].client = session,
                          ![w].files = saved]
  /\ UNCHANGED <<agentState, current, loop, caller, monitoring, sandbox, late,
                 lost, calls>>

\* Mutant: what is written is added to what is there.
OverwriteMutant(content, f) == [c \in Callers |-> content[c] + f[c]]

\* Every file written replaces the one that is there.
Overwrite(content, f) == [c \in Callers |-> IF f[c] = 0 THEN content[c] ELSE f[c]]

\* writeFilesBulk, asked to write f, writes g: a file that could not be written
\* is reported in results, success is TRUE all the same, and nobody looks.
WriteFilesBulk(f, g) ==
  \/ g = f /\ UNCHANGED <<lost, faults>>
  \/ /\ g # f /\ \A c \in Callers : g[c] \in {0, f[c]}
     /\ Fault
     /\ lost' = TRUE

\* createInstance returned instance s: the state names it, whatever happened to
\* the session meanwhile, and all files are written to it.
UseInstance(w, s) ==
  /\ instance' = s
  /\ work' = [work EXCEPT ![w].pc = "writing", ![w].client = session,
                ![w].target = s, ![w].fresh = TRUE,
                ![w].files = FilesToDeploy(NoFiles, TRUE)]

\* The container runs a healthy instance already: that one is returned.
InstanceFound(w) ==
  /\ work[w].pc = "creating"
  /\ sandbox[work[w].client].state = "healthy"
  /\ UseInstance(w, work[w].client)
  /\ UNCHANGED <<session, saved, current, loop, caller, monitoring, sandbox,
                 bounds>>

\* It runs none (a dead one is removed first).
InstanceNotFound(w) ==
  /\ work[w].pc = "creating"
  /\ sandbox[work[w].client].state # "healthy"
  /\ work' = [work EXCEPT ![w].pc = "building"]
  /\ UNCHANGED <<agentState, current, loop, caller, monitoring, sandbox, bounds>>

\* The instance is built from the files captured when it was asked for, on top
\* of one that somebody else has built since.
Created(w) ==
  /\ work[w].pc = "building"
  /\ LET s == work[w].client IN
       /\ \E g \in Content :
            /\ WriteFilesBulk(work[w].files, g)
            /\ sandbox' = [sandbox EXCEPT
                 ![s] = [state |-> "healthy", content |-> Overwrite(@.content, g)]]
       /\ UseInstance(w, s)
  /\ UNCHANGED <<session, saved, current, loop, caller, monitoring, late, calls>>

CreateFailed(w) ==
  /\ work[w].pc \in {"creating", "building"}
  /\ Fault
  /\ WorkFailed(w)

\* writeFiles succeeded.  A new instance, or one nobody watches, gets a health
\* check and its setup commands; else the deployment is done.
Written(w) ==
  /\ work[w].pc = "writing" /\ Reachable(work[w].client, work[w].target)
  /\ work' = [work EXCEPT ![w] = NoWork]
  /\ LET i == work[w].target  l == work[w].owner IN
       /\ \E g \in Content :
            /\ WriteFilesBulk(work[w].files, g)
            /\ sandbox' = [sandbox EXCEPT ![i].content = Overwrite(@, g)]
       /\ \/ ~Owned(w) /\ UNCHANGED <<loop, caller, current, health>>
          \/ /\ Owned(w) /\ (work[w].fresh \/ health = None)
             /\ health' = i
             /\ loop' = [loop EXCEPT ![l].pc = "setup", ![l].target = i]
             /\ UNCHANGED <<caller, current>>
          \/ /\ Owned(w) /\ ~work[w].fresh /\ health # None
             /\ Resolve(l, i)
             /\ UNCHANGED health
  /\ UNCHANGED <<agentState, tick, late, calls>>

WriteFailed(w) ==
  /\ work[w].pc = "writing"
  /\ \/ ~Reachable(work[w].client, work[w].target) /\ UNCHANGED faults
     \/ Fault
  /\ WorkFailed(w)

SetupDone(l) ==
  /\ loop[l].pc = "setup"
  /\ Resolve(l, loop[l].target)
  /\ UNCHANGED <<agentState, work, monitoring, sandbox, bounds>>

SetupFailed(l) ==
  /\ loop[l].pc = "setup"
  /\ Fault
  /\ \E sessionError \in BOOLEAN : AttemptFailed(l, sessionError)
  /\ UNCHANGED <<saved, current, work, caller, monitoring, sandbox, late, lost, calls>>

\* The attempt's timeout: the loop stops waiting, deploy() goes on.  Its
\* message is none of those that reset the session.
AttemptTimeout(l) ==
  /\ loop[l].pc = "deploying"
  /\ Fault
  /\ late' = TRUE
  /\ work' = [w \in Works |->
                IF work[w].owner = l THEN [work[w] EXCEPT !.owner = None]
                ELSE work[w]]
  /\ AttemptFailed(l, FALSE)
  /\ UNCHANGED <<saved, current, caller, monitoring, sandbox, lost, calls>>

\* The backoff is over: the next attempt.
Retry(l) ==
  /\ loop[l].pc = "backoff"
  /\ UNCHANGED saved
  /\ BeginAttempt(l, loop[l])
  /\ UNCHANGED <<current, caller, monitoring, sandbox, bounds>>

\* A caller's master timeout: it gets null, and the loop goes on.  The caller
\* that started the loop clears the promise; its timer is the oldest.
CallerTimeout(c) ==
  LET l == caller[c].waiting IN
    /\ l # None
    /\ loop[l].starter = c \/ loop[l].starter \notin Waiting(l)
    /\ late' = TRUE
    /\ caller' = [caller EXCEPT ![c].waiting = None]
    /\ current' = IF loop[l].starter = c THEN None ELSE current
    /\ UNCHANGED <<agentState, loop, work, monitoring, sandbox, lost, calls, faults>>

-----------------------------------------------------------------------------
(* Health checks, crashes, restarts.                                       *)

HealthCheck ==
  /\ health # None /\ tick = None /\ caller[Monitor].waiting = None
  /\ tick' = health
  /\ UNCHANGED <<agentState, current, loop, work, caller, health, sandbox, bounds>>

InstanceHealthy ==
  /\ tick # None /\ Reachable(session, tick)
  /\ tick' = None
  /\ UNCHANGED <<agentState, current, loop, work, caller, health, sandbox, bounds>>

\* The interval of now is cleared, whichever instance it watches.
InstanceUnhealthy ==
  /\ tick # None
  /\ \/ ~Reachable(session, tick) /\ UNCHANGED faults
     \/ Fault
  /\ tick' = None /\ health' = None
  /\ UNCHANGED saved
  /\ DeployToSandbox(Monitor, NoFiles, FALSE)
  /\ UNCHANGED <<sandbox, late, lost, calls>>

\* The container dies or is evicted with its files.
Crash(s) ==
  /\ sandbox[s].state = "healthy"
  /\ Fault
  /\ sandbox' = [sandbox EXCEPT ![s] = [state |-> "dead", content |-> NoFiles]]
  /\ UNCHANGED <<agentState, current, loop, work, caller, monitoring, late, lost, calls>>

\* The Durable Object is evicted: promises, intervals and callers are gone.
Restart ==
  /\ Fault
  /\ current' = None
  /\ loop' = [l \in Loops |-> NoLoop]
  /\ work' = [w \in Works |-> NoWork]
  /\ caller' = [c \in Everyone |-> NoCall]
  /\ health' = None /\ tick' = None
  /\ UNCHANGED <<agentState, sandbox, late, lost, calls>>

WorkStep(w) ==
  \/ CheckPassed(w) \/ CheckNotPassed(w)
  \/ InstanceFound(w) \/ InstanceNotFound(w)
  \/ Created(w) \/ CreateFailed(w)
  \/ Written(w) \/ WriteFailed(w)

LoopStep(l) ==
  \/ SetupDone(l) \/ SetupFailed(l)
  \/ AttemptTimeout(l) \/ Retry(l)

Next ==
  \/ \E c \in Callers : Call(c)
  \/ \E w \in Works : WorkStep(w)
  \/ \E l \in Loops : LoopStep(l)
  \/ \E c \in Everyone : CallerTimeout(c)
  \/ HealthCheck \/ InstanceHealthy \/ InstanceUnhealthy
  \/ \E s \in Sessions : Crash(s)
  \/ Restart

Spec == Init /\ [][Next]_vars
-----------------------------------------------------------------------------
(* Properties.                                                             *)

Running(l) == loop[l].pc # "off"

\* "All concurrent callers share the same promise" (DeploymentManager.ts:296).
\* Nobody waits for a loop that has ended, and the shared promise is that of a
\* running loop whose starter still waits: no caller joins a deployment that
\* nobody will settle.  Of all running loops at most one is still awaited by its
\* starter, and as long as nothing outlived its timeout there is at most one.
SharedPromise ==
  /\ \A c \in Everyone : caller[c].waiting # None => Running(caller[c].waiting)
  /\ current # None => /\ Running(current)
                       /\ loop[current].starter \in Waiting(current)
  /\ Cardinality({l \in Loops : loop[l].starter \in Waiting(l)}) <= 1
  /\ ~late => Cardinality({l \in Loops : Running(l)}) <= 1

\* The instance the state names is that of the current session, as long as
\* nothing outlived its timeout: no reset leaves a container behind that the
\* session's client cannot reach.
InstanceOfSession == ~late => instance \in {session, None}

\* Caller c gets a preview: the files it came for are in the container, unless
\* that has died since.
Answered(c) == caller[c].waiting # None /\ caller'[c].waiting = None
Served(c) ==
  LET i == caller'[c].answer IN
    (Answered(c) /\ i # None /\ sandbox'[i].state = "healthy")
      => \A d \in Callers : sandbox'[i].content[d] >= caller[c].wants[d]
Started(c) == loop[caller[c].waiting].starter = c

\* As long as nothing outlived its timeout and every write that failed was
\* reported, the caller that started a deployment gets a preview only of a
\* container that holds what it asked for, through all retries and resets.
StarterServed ==
  [][\A c \in Callers : (~late' /\ ~lost' /\ Answered(c) /\ Started(c))
                          => Served(c)]_vars

-----------------------------------------------------------------------------
(* Refuted: what a document, a test or a comment says and TLC finds violated *)
(* (README, "What the models disagree on").  No run checks these.            *)

\* The session "ensures deployment goes to correct container"
\* (docs/llm.md:3826): the instance the state names is that of the session.
InstanceAlwaysOfSession == instance \in {session, None}

\* deployToSandbox "syncs all files to remote sandbox container"
\* (docs/llm.md:3646): every caller that gets a preview finds its files there,
\* also one that joined the deployment of another.
EveryoneServed ==
  [][\A c \in Callers : (~late' /\ ~lost' /\ Answered(c)) => Served(c)]_vars

\* deploy() means to fail when files could not be written ("File writing
\* failed", DeploymentManager.ts:494): a caller that started a deployment gets
\* a preview only when they were.
FailedWritesReported ==
  [][\A c \in Callers : (~late' /\ Answered(c) /\ Started(c)) => Served(c)]_vars
=============================================================================
