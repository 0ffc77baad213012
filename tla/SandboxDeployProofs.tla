------------------------ MODULE SandboxDeployProofs ------------------------
(***************************************************************************)
(* Proofs about SandboxDeploy, for any number of callers, retry loops and  *)
(* operations, sessions and faults.                                        *)
(***************************************************************************)
EXTENDS SandboxDeploy, FiniteSetTheorems, TLAPS

LoopRecord ==
  [pc : {"off", "deploying", "setup", "backoff"}, attempt : Nat, files : Content,
   redeploy : BOOLEAN, starter : Everyone, target : Sessions \union {None}]
WorkRecord ==
  [pc : {"off", "checking", "creating", "building", "writing"},
   owner : Loops \union {None}, client : Sessions,
   target : Sessions \union {None}, fresh : BOOLEAN, files : Content]
CallRecord ==
  [waiting : Loops \union {None}, wants : Content, answer : Sessions \union {None}]
SandboxRecord == [state : {"empty", "healthy", "dead"}, content : Content]

\* A call saves at most one new version.
Counted == \A c \in Callers : saved[c] <= calls

\* The shared promise is that of the one loop whose starter still waits.
Promise ==
  /\ \A c \in Everyone : caller[c].waiting # None => loop[caller[c].waiting].pc # "off"
  /\ current # None => caller[loop[current].starter].waiting = current
  /\ \A l \in Loops : caller[loop[l].starter].waiting = l => current = l
  /\ ~late => \A l \in Loops : loop[l].pc # "off" => current = l

\* A loop that awaits an attempt awaits one, and only such a loop owns one.
Attempts ==
  /\ \A w \in Works : Owned(w) => work[w].pc # "off" /\ loop[work[w].owner].pc = "deploying"
  /\ \A v, w \in Works : Owned(v) /\ work[v].owner = work[w].owner => v = w

\* Until something outlives its timeout, every operation is somebody's attempt
\* and works for the session of now.
InTime ==
  ~late => /\ \A w \in Works : work[w].pc # "off" => Owned(w) /\ work[w].client = session
           /\ instance \in {session, None}

Inv == TypeOK /\ Counted /\ Promise /\ Attempts /\ InTime

-----------------------------------------------------------------------------

LEMMA Constants ==
  /\ NoFiles \in Content /\ NoLoop \in LoopRecord /\ NoWork \in WorkRecord
  /\ NoCall \in CallRecord /\ 0 \in Sessions
<1> USE BoundsAssumption
<1>1. NoFiles \in Content BY DEF NoFiles, Content, Versions
<1>2. 0 \in Sessions BY DEF Sessions
<1>3. NoLoop \in LoopRecord BY <1>1 DEF NoLoop, LoopRecord, Everyone
<1>4. NoWork \in WorkRecord BY <1>1, <1>2 DEF NoWork, WorkRecord
<1>5. NoCall \in CallRecord BY <1>1 DEF NoCall, CallRecord
<1> QED BY <1>1, <1>2, <1>3, <1>4, <1>5

LEMMA InitInv == Init => Inv
<1> SUFFICES ASSUME Init PROVE Inv OBVIOUS
<1> USE BoundsAssumption, MonitorAssumption, Constants DEF Init
<1>1. TypeOK
  <2>1. /\ loop \in [Loops -> LoopRecord] /\ work \in [Works -> WorkRecord]
        /\ caller \in [Everyone -> CallRecord]
    OBVIOUS
  <2>3. calls \in 0 .. MaxCalls /\ faults \in 0 .. MaxFaults OBVIOUS
  <2>2. sandbox \in [Sessions -> SandboxRecord] BY DEF SandboxRecord
  <2> QED BY <2>1, <2>2, <2>3 DEF TypeOK, LoopRecord, WorkRecord, CallRecord, SandboxRecord
<1>2. Counted BY DEF Counted, NoFiles
<1>3. Promise BY DEF Promise, NoCall, NoLoop, Everyone
<1>4. Attempts /\ InTime BY DEF Attempts, InTime, Owned, NoWork
<1> QED BY <1>1, <1>2, <1>3, <1>4 DEF Inv

\* resetSessionId keeps the session within its bound and forgets the instance.
LEMMA ResetType == ASSUME TypeOK, ResetSession PROVE session' \in Sessions /\ instance' = None
BY BoundsAssumption DEF TypeOK, ResetSession, Sessions

\* The files that are written are those of a version.
LEMMA FilesType ==
  ASSUME NEW f \in Content, NEW g \in Content, saved \in Content, NEW fresh
  PROVE  FilesToDeploy(f, fresh) \in Content /\ Overwrite(f, g) \in Content
BY DEF FilesToDeploy, Overwrite, Content

-----------------------------------------------------------------------------
(* Beginning and failing an attempt.                                       *)

LEMMA BeginType ==
  ASSUME TypeOK, NEW l \in Loops, NEW r \in LoopRecord, saved' \in Content,
         BeginAttempt(l, r)
  PROVE  /\ session' \in Sessions /\ instance' \in Sessions \union {None}
         /\ loop' \in [Loops -> LoopRecord] /\ work' \in [Works -> WorkRecord]
         /\ \A k \in Loops : IF k = l
              THEN loop'[k].pc = "deploying" /\ loop'[k].starter = r.starter
              ELSE loop'[k] = loop[k]
<1>1. session' \in Sessions /\ instance' \in Sessions \union {None}
  BY ResetType DEF BeginAttempt, TypeOK
<1>2. [r EXCEPT !.pc = "deploying", !.attempt = @ + 1] \in LoopRecord
  <2>1. r.attempt \in Nat BY DEF LoopRecord
  <2>2. r.attempt + 1 \in Nat BY <2>1
  <2> DEFINE n == r.attempt + 1
  <2>3. [r EXCEPT !.pc = "deploying", !.attempt = n] \in LoopRecord
    <3> HIDE DEF n
    <3>1. n \in Nat BY <2>2 DEF n
    <3> QED BY <3>1 DEF LoopRecord
  <2> QED BY <2>3 DEF n
<1>3. loop \in [Loops -> LoopRecord] BY DEF TypeOK, LoopRecord
<1>4. loop' \in [Loops -> LoopRecord] BY <1>2, <1>3 DEF BeginAttempt
<1>5. \A k \in Loops : IF k = l
        THEN loop'[k].pc = "deploying" /\ loop'[k].starter = r.starter
        ELSE loop'[k] = loop[k]
  BY <1>3 DEF BeginAttempt, LoopRecord
<1>6. PICK w \in Works : work' = [work EXCEPT ![w] =
            [pc     |-> IF instance' = None THEN "creating" ELSE "checking",
             owner  |-> l,
             client |-> session',
             target |-> instance',
             fresh  |-> FALSE,
             files  |-> IF instance' = None THEN saved' ELSE r.files]]
  BY DEF BeginAttempt
<1>7. r.files \in Content BY DEF LoopRecord
<1>8. work \in [Works -> WorkRecord] BY DEF TypeOK, WorkRecord
<1>9. work' \in [Works -> WorkRecord] BY <1>1, <1>6, <1>7, <1>8 DEF WorkRecord
<1> QED BY <1>1, <1>4, <1>5, <1>9

\* The attempt that begins is the only one of its loop, and of all loops as
\* long as nothing outlived its timeout.
LEMMA BeginInv ==
  ASSUME TypeOK, Attempts, InTime, NEW l \in Loops, NEW r \in LoopRecord,
         saved' \in Content, BeginAttempt(l, r), loop[l].pc # "deploying",
         late' = late, ~late => \A k \in Loops : loop[k].pc # "off" => k = l
  PROVE  Attempts' /\ InTime'
<1>1. PICK w \in Works :
        /\ work[w].pc = "off"
        /\ work' = [work EXCEPT ![w] =
            [pc     |-> IF instance' = None THEN "creating" ELSE "checking",
             owner  |-> l,
             client |-> session',
             target |-> instance',
             fresh  |-> FALSE,
             files  |-> IF instance' = None THEN saved' ELSE r.files]]
  BY DEF BeginAttempt
<1>2. \A k \in Loops : IF k = l THEN loop'[k].pc = "deploying" ELSE loop'[k] = loop[k]
  BY BeginType
<1>3. /\ work'[w].pc # "off" /\ work'[w].owner = l /\ work'[w].client = session'
      /\ \A v \in Works : v # w => work'[v] = work[v]
  BY <1>1 DEF TypeOK
<1>4. l # None BY MonitorAssumption
<1>5. \A v \in Works : work[v].owner # None =>
        work[v].owner \in Loops /\ work[v].owner # l /\ work[v].pc # "off"
  BY DEF Attempts, Owned, TypeOK
<1>6. Attempts'
  <2>1. \A v \in Works : Owned(v)' =>
           work'[v].pc # "off" /\ loop'[work'[v].owner].pc = "deploying"
    BY <1>2, <1>3, <1>5 DEF Owned, Attempts
  <2>2. ASSUME NEW u \in Works, NEW v \in Works, Owned(u)', work'[u].owner = work'[v].owner
        PROVE  u = v
    BY <2>2, <1>3, <1>4, <1>5 DEF Owned, Attempts
  <2> QED BY <2>1, <2>2 DEF Attempts
<1>7. ASSUME ~late' PROVE \A v \in Works : work'[v].pc # "off" =>
                             work'[v].owner # None /\ work'[v].client = session'
  <2>1. \A v \in Works : work[v].pc = "off"
    BY <1>7, <1>5 DEF InTime, Attempts, Owned
  <2> QED BY <2>1, <1>3, <1>4
<1>8. ~late' => instance' \in {session', None}
  BY ResetType DEF BeginAttempt, InTime
<1> QED BY <1>6, <1>7, <1>8 DEF InTime, Owned

\* A loop is replaced by one that has the same starter.
LEMMA LoopReplaced ==
  ASSUME loop \in [Loops -> LoopRecord], NEW l \in Loops, NEW x \in LoopRecord,
         x.starter = loop[l].starter, loop' = [loop EXCEPT ![l] = x]
  PROVE  /\ loop' \in [Loops -> LoopRecord]
         /\ \A k \in Loops : /\ loop'[k].starter = loop[k].starter
                             /\ loop'[k].pc = IF k = l THEN x.pc ELSE loop[k].pc
<1>1. loop'[l] = x /\ \A k \in Loops : k # l => loop'[k] = loop[k] OBVIOUS
<1> QED BY <1>1

\* A failed attempt leaves its loop in its backoff and the session in order.
LEMMA FailedType ==
  ASSUME TypeOK, NEW l \in Loops, NEW e, AttemptFailed(l, e)
  PROVE  /\ session' \in Sessions /\ instance' = None
         /\ loop' \in [Loops -> LoopRecord]
         /\ \A k \in Loops : /\ loop'[k].starter = loop[k].starter
                             /\ loop'[k].pc = IF k = l THEN "backoff" ELSE loop[k].pc
<1>1. loop \in [Loops -> LoopRecord] BY DEF TypeOK, LoopRecord
<1> DEFINE x == [loop[l] EXCEPT !.pc = "backoff", !.target = None]
<1>2. loop' = [loop EXCEPT ![l] = x] BY DEF AttemptFailed
<1>3. x \in LoopRecord /\ x.starter = loop[l].starter /\ x.pc = "backoff"
  BY <1>1 DEF LoopRecord
<1> HIDE DEF x
<1>4. /\ loop' \in [Loops -> LoopRecord]
      /\ \A k \in Loops : /\ loop'[k].starter = loop[k].starter
                          /\ loop'[k].pc = IF k = l THEN "backoff" ELSE loop[k].pc
  BY <1>1, <1>2, <1>3, LoopReplaced
<1>5. session' \in Sessions /\ instance' = None
  BY ResetType DEF AttemptFailed, TypeOK
<1> QED BY <1>4, <1>5

-----------------------------------------------------------------------------
(* Steps that leave the shared promise alone, and the end of a loop.       *)

LEMMA PromiseKept ==
  ASSUME TypeOK, Promise, current' = current, late => late',
         \A c \in Everyone : caller'[c].waiting = caller[c].waiting,
         \A l \in Loops : /\ loop'[l].starter = loop[l].starter
                          /\ (loop'[l].pc # "off") => (loop[l].pc # "off")
                          /\ (loop[l].pc # "off") => (loop'[l].pc # "off")
  PROVE  Promise'
<1>1. /\ \A c \in Everyone : caller[c].waiting \in Loops \union {None}
      /\ current \in Loops \union {None}
      /\ \A l \in Loops : loop[l].starter \in Everyone
  BY DEF TypeOK
<1>2. \A c \in Everyone : caller'[c].waiting # None => loop'[caller'[c].waiting].pc # "off"
  BY <1>1 DEF Promise
<1>3. current' # None => caller'[loop'[current'].starter].waiting = current'
  BY <1>1 DEF Promise
<1>4. \A l \in Loops : caller'[loop'[l].starter].waiting = l => current' = l
  BY <1>1 DEF Promise
<1>5. ~late' => \A l \in Loops : loop'[l].pc # "off" => current' = l
  BY DEF Promise
<1> QED BY <1>2, <1>3, <1>4, <1>5 DEF Promise

LEMMA ResolveInv ==
  ASSUME TypeOK, Promise, NEW l \in Loops, NEW i \in Sessions \union {None},
         Resolve(l, i), late' = late, loop[l].pc # "off"
  PROVE  /\ loop' \in [Loops -> LoopRecord] /\ caller' \in [Everyone -> CallRecord]
         /\ current' \in Loops \union {None}
         /\ \A k \in Loops : k # l => loop'[k] = loop[k]
         /\ loop'[l].pc = "off"
         /\ Promise'
<1>1. /\ loop \in [Loops -> LoopRecord] /\ caller \in [Everyone -> CallRecord]
      /\ current \in Loops \union {None}
  BY DEF TypeOK, LoopRecord, CallRecord
<1>2. loop' \in [Loops -> LoopRecord] /\ loop'[l] = NoLoop
      /\ \A k \in Loops : k # l => loop'[k] = loop[k]
  BY <1>1, Constants DEF Resolve
<1>3. \A c \in Everyone :
        /\ caller'[c] = IF caller[c].waiting = l
                        THEN [caller[c] EXCEPT !.waiting = None, !.answer = i]
                        ELSE caller[c]
  BY DEF Resolve, Waiting
<1>4. \A c \in Everyone : caller'[c] \in CallRecord BY <1>1, <1>3 DEF CallRecord
<1>5. caller' \in [Everyone -> CallRecord] BY <1>4 DEF Resolve
<1>6. \A c \in Everyone : caller'[c].waiting =
        IF caller[c].waiting = l THEN None ELSE caller[c].waiting
  BY <1>1, <1>3 DEF CallRecord
<1>7. /\ \A k \in Loops : loop[k].starter \in Everyone
      /\ \A c \in Everyone : caller[c].waiting \in Loops \union {None}
  BY DEF TypeOK
<1>8. current' = IF caller[loop[l].starter].waiting = l THEN None ELSE current
  BY <1>7 DEF Resolve, Waiting
<1>9. NoLoop.pc = "off" /\ NoLoop.starter = Monitor /\ l # None /\ Monitor \in Everyone
  BY MonitorAssumption DEF NoLoop, Everyone
<1>10. Promise'
  <2>1. \A c \in Everyone : caller'[c].waiting # None => loop'[caller'[c].waiting].pc # "off"
    BY <1>2, <1>6, <1>7 DEF Promise
  <2>2. current' # None => caller'[loop'[current'].starter].waiting = current'
    BY <1>1, <1>2, <1>6, <1>7, <1>8, <1>9 DEF Promise
  <2>3. \A k \in Loops : caller'[loop'[k].starter].waiting = k => current' = k
    <3>1. ASSUME NEW k \in Loops, caller'[loop'[k].starter].waiting = k, k = l
          PROVE  FALSE
      BY <3>1, <1>2, <1>6, <1>9
    <3>2. ASSUME NEW k \in Loops, caller'[loop'[k].starter].waiting = k, k # l
          PROVE  current' = k
      <4>1. k # None /\ loop'[k].starter \in Everyone
        BY <3>2, <1>2, <1>7, MonitorAssumption
      <4>2. caller[loop[k].starter].waiting = k BY <4>1, <3>2, <1>2, <1>6
      <4>3. current = k BY <4>2 DEF Promise
      <4> QED BY <4>3, <3>2, <1>8 DEF Promise
    <3> QED BY <3>1, <3>2
  <2>4. ~late' => \A k \in Loops : loop'[k].pc # "off" => current' = k
    BY <1>2, <1>7, <1>8, <1>9 DEF Promise
  <2> QED BY <2>1, <2>2, <2>3, <2>4 DEF Promise
<1> QED BY <1>1, <1>2, <1>5, <1>8, <1>9, <1>10

-----------------------------------------------------------------------------
(* Steps of an operation that the shared promise and the loops do not see. *)

LEMMA FaultType == ASSUME TypeOK, Fault \/ faults' = faults PROVE faults' \in 0 .. MaxFaults
BY BoundsAssumption DEF TypeOK, Fault

LEMMA BulkType ==
  ASSUME TypeOK, NEW f, NEW g, WriteFilesBulk(f, g)
  PROVE  lost' \in BOOLEAN /\ faults' \in 0 .. MaxFaults
<1>1. lost' \in BOOLEAN BY DEF WriteFilesBulk, TypeOK
<1>2. Fault \/ faults' = faults BY DEF WriteFilesBulk
<1> QED BY <1>1, <1>2, FaultType

\* The state's types, with the records by their names.
LEMMA Types ==
  ASSUME TypeOK
  PROVE  /\ session \in Sessions /\ instance \in Sessions \union {None}
         /\ saved \in Content /\ current \in Loops \union {None}
         /\ loop \in [Loops -> LoopRecord] /\ work \in [Works -> WorkRecord]
         /\ caller \in [Everyone -> CallRecord]
         /\ health \in Sessions \union {None} /\ tick \in Sessions \union {None}
         /\ sandbox \in [Sessions -> SandboxRecord]
         /\ late \in BOOLEAN /\ lost \in BOOLEAN
         /\ calls \in 0 .. MaxCalls /\ faults \in 0 .. MaxFaults
BY DEF TypeOK, LoopRecord, WorkRecord, CallRecord, SandboxRecord

LEMMA AttemptsKept ==
  ASSUME Attempts,
         \A w \in Works : work'[w].owner # None =>
           /\ work'[w].owner = work[w].owner /\ work'[w].pc # "off"
           /\ loop'[work'[w].owner].pc = "deploying"
  PROVE  Attempts'
<1>1. \A w \in Works : Owned(w)' =>
         work'[w].pc # "off" /\ loop'[work'[w].owner].pc = "deploying"
  BY DEF Owned
<1>2. ASSUME NEW v \in Works, NEW w \in Works, Owned(v)', work'[v].owner = work'[w].owner
      PROVE  v = w
  BY <1>2 DEF Owned, Attempts
<1> QED BY <1>1, <1>2 DEF Attempts

\* An operation goes on, for its owner and the session of now.
LEMMA WorkGoesOn ==
  ASSUME Promise, Attempts, TypeOK, NEW w \in Works, NEW r \in WorkRecord,
         work[w].pc # "off", r.pc # "off", r.owner = work[w].owner,
         r.client \in {work[w].client, session}, work' = [work EXCEPT ![w] = r],
         UNCHANGED <<session, current, loop, caller, late>>, InTime
  PROVE  /\ work' \in [Works -> WorkRecord] /\ Promise' /\ Attempts'
         /\ ~late => \A v \in Works : work'[v].pc # "off" => Owned(v)' /\ work'[v].client = session'
<1>1. work \in [Works -> WorkRecord] /\ work' \in [Works -> WorkRecord] BY Types
<1>2. work'[w] = r /\ \A v \in Works : v # w => work'[v] = work[v] BY <1>1
<1>3. Promise' BY PromiseKept
<1>4. \A v \in Works : work[v].owner # None =>
        work[v].pc # "off" /\ loop[work[v].owner].pc = "deploying"
  BY DEF Attempts, Owned
<1>5. Attempts' BY <1>2, <1>4, AttemptsKept
<1>6. ~late => \A v \in Works : work'[v].pc # "off" => Owned(v)' /\ work'[v].client = session'
  BY <1>2 DEF InTime, Owned
<1> QED BY <1>1, <1>3, <1>5, <1>6

LEMMA CheckPassedInv == ASSUME Inv, NEW w \in Works, CheckPassed(w) PROVE Inv'
<1> USE DEF Inv
<1> DEFINE r == [work[w] EXCEPT !.pc = "writing", !.client = session,
                                !.files = FilesToDeploy(@, FALSE)]
<1>1. work[w] \in WorkRecord /\ session \in Sessions BY Types
<1>2. FilesToDeploy(work[w].files, FALSE) \in Content
  BY <1>1, Types, FilesType DEF WorkRecord, FilesToDeploy
<1>3. r \in WorkRecord /\ r.pc = "writing" /\ r.owner = work[w].owner /\ r.client = session
  BY <1>1, <1>2 DEF WorkRecord
<1>4. work' = [work EXCEPT ![w] = r] BY Types DEF CheckPassed
<1>5. UNCHANGED <<session, instance, saved, current, loop, caller, health, tick, sandbox,
                  late, lost, calls, faults>>
  BY DEF CheckPassed, agentState, monitoring, bounds
<1>6. work[w].pc # "off" BY DEF CheckPassed
<1> HIDE DEF r
<1>7. /\ work' \in [Works -> WorkRecord] /\ Promise' /\ Attempts'
      /\ ~late => \A v \in Works : work'[v].pc # "off" => Owned(v)' /\ work'[v].client = session'
  BY <1>3, <1>4, <1>5, <1>6, WorkGoesOn
<1>8. TypeOK' BY <1>5, <1>7 DEF TypeOK, WorkRecord
<1> QED BY <1>5, <1>7, <1>8 DEF Counted, InTime

LEMMA CheckNotPassedInv == ASSUME Inv, NEW w \in Works, CheckNotPassed(w) PROVE Inv'
<1> USE DEF Inv
<1> DEFINE r == [work[w] EXCEPT !.pc = "creating", !.client = session, !.files = saved]
<1>1. work[w] \in WorkRecord /\ session \in Sessions /\ saved \in Content BY Types
<1>3. r \in WorkRecord /\ r.pc = "creating" /\ r.owner = work[w].owner /\ r.client = session
  BY <1>1 DEF WorkRecord
<1>4. work' = [work EXCEPT ![w] = r] BY Types DEF CheckNotPassed
<1>5. UNCHANGED <<session, instance, saved, current, loop, caller, health, tick, sandbox,
                  late, lost, calls>>
  BY DEF CheckNotPassed, agentState, monitoring
<1>6. work[w].pc # "off" /\ faults' \in 0 .. MaxFaults BY FaultType DEF CheckNotPassed
<1> HIDE DEF r
<1>7. /\ work' \in [Works -> WorkRecord] /\ Promise' /\ Attempts'
      /\ ~late => \A v \in Works : work'[v].pc # "off" => Owned(v)' /\ work'[v].client = session'
  BY <1>3, <1>4, <1>5, <1>6, WorkGoesOn
<1>8. TypeOK' BY <1>5, <1>6, <1>7 DEF TypeOK, WorkRecord
<1> QED BY <1>5, <1>7, <1>8 DEF Counted, InTime

LEMMA InstanceNotFoundInv == ASSUME Inv, NEW w \in Works, InstanceNotFound(w) PROVE Inv'
<1> USE DEF Inv
<1> DEFINE r == [work[w] EXCEPT !.pc = "building"]
<1>1. work[w] \in WorkRecord BY Types
<1>3. r \in WorkRecord /\ r.pc = "building" /\ r.owner = work[w].owner
      /\ r.client = work[w].client
  BY <1>1 DEF WorkRecord
<1>4. work' = [work EXCEPT ![w] = r] BY Types DEF InstanceNotFound
<1>5. UNCHANGED <<session, instance, saved, current, loop, caller, health, tick, sandbox,
                  late, lost, calls, faults>>
  BY DEF InstanceNotFound, agentState, monitoring, bounds
<1>6. work[w].pc # "off" BY DEF InstanceNotFound
<1> HIDE DEF r
<1>7. /\ work' \in [Works -> WorkRecord] /\ Promise' /\ Attempts'
      /\ ~late => \A v \in Works : work'[v].pc # "off" => Owned(v)' /\ work'[v].client = session'
  BY <1>3, <1>4, <1>5, <1>6, WorkGoesOn
<1>8. TypeOK' BY <1>5, <1>7 DEF TypeOK, WorkRecord
<1> QED BY <1>5, <1>7, <1>8 DEF Counted, InTime

\* The new instance is that of the operation's session, the session of now
\* unless something outlived its timeout.
LEMMA UseInstanceInv ==
  ASSUME Inv, NEW w \in Works, work[w].pc # "off", UseInstance(w, work[w].client),
         UNCHANGED <<session, saved, current, loop, caller, late>>
  PROVE  /\ work' \in [Works -> WorkRecord] /\ instance' \in Sessions \union {None}
         /\ Promise' /\ Attempts' /\ InTime'
<1> USE DEF Inv
<1> DEFINE f == FilesToDeploy(NoFiles, TRUE)
<1> DEFINE r == [work[w] EXCEPT !.pc = "writing", !.client = session,
                   !.target = work[w].client, !.fresh = TRUE, !.files = f]
<1>1. work[w] \in WorkRecord /\ session \in Sessions BY Types
<1>2. f \in Content BY Types DEF FilesToDeploy
<1>3. r \in WorkRecord /\ r.pc = "writing" /\ r.owner = work[w].owner /\ r.client = session
  <2> HIDE DEF f
  <2> QED BY <1>1, <1>2 DEF WorkRecord
<1>4. work' = [work EXCEPT ![w] = r] /\ instance' = work[w].client BY Types DEF UseInstance
<1> HIDE DEF r
<1>5. /\ work' \in [Works -> WorkRecord] /\ Promise' /\ Attempts'
      /\ ~late => \A v \in Works : work'[v].pc # "off" => Owned(v)' /\ work'[v].client = session'
  BY <1>3, <1>4, WorkGoesOn
<1>6. instance' \in Sessions BY <1>1, <1>4 DEF WorkRecord
<1>7. ~late => instance' = session' BY <1>4 DEF InTime
<1> QED BY <1>5, <1>6, <1>7 DEF InTime

LEMMA InstanceFoundInv == ASSUME Inv, NEW w \in Works, InstanceFound(w) PROVE Inv'
<1> USE DEF Inv
<1>1. UNCHANGED <<session, saved, current, loop, caller, health, tick, sandbox,
                  late, lost, calls, faults>> /\ work[w].pc # "off"
  BY DEF InstanceFound, monitoring, bounds
<1>2. /\ work' \in [Works -> WorkRecord] /\ instance' \in Sessions \union {None}
      /\ Promise' /\ Attempts' /\ InTime'
  BY <1>1, UseInstanceInv DEF InstanceFound
<1>3. TypeOK' BY <1>1, <1>2 DEF TypeOK, WorkRecord
<1> QED BY <1>1, <1>2, <1>3 DEF Counted

\* What a container holds after a write.
LEMMA SandboxType ==
  ASSUME TypeOK, NEW s \in Sessions, NEW g \in Content,
         NEW t \in {"empty", "healthy", "dead"}
  PROVE  [sandbox EXCEPT ![s] = [state |-> t, content |-> Overwrite(@.content, g)]]
           \in [Sessions -> SandboxRecord]
<1>1. sandbox \in [Sessions -> SandboxRecord] BY Types
<1>2. sandbox[s].content \in Content BY <1>1 DEF SandboxRecord
<1>3. Overwrite(sandbox[s].content, g) \in Content BY <1>2 DEF Overwrite, Content
<1> QED BY <1>1, <1>3 DEF SandboxRecord

LEMMA CreatedInv == ASSUME Inv, NEW w \in Works, Created(w) PROVE Inv'
<1> USE DEF Inv
<1>1. UNCHANGED <<session, saved, current, loop, caller, health, tick, late, calls>>
      /\ work[w].pc # "off"
  BY DEF Created, monitoring
<1>2. /\ work' \in [Works -> WorkRecord] /\ instance' \in Sessions \union {None}
      /\ Promise' /\ Attempts' /\ InTime'
  BY <1>1, UseInstanceInv DEF Created
<1>3. work[w].client \in Sessions BY Types DEF WorkRecord
<1>4. PICK g \in Content :
        /\ WriteFilesBulk(work[w].files, g)
        /\ sandbox' = [sandbox EXCEPT ![work[w].client] =
                         [state |-> "healthy", content |-> Overwrite(@.content, g)]]
  BY DEF Created
<1>5. sandbox' \in [Sessions -> SandboxRecord] BY <1>3, <1>4, SandboxType
<1>6. lost' \in BOOLEAN /\ faults' \in 0 .. MaxFaults BY <1>4, BulkType
<1>7. TypeOK' BY <1>1, <1>2, <1>5, <1>6 DEF TypeOK, WorkRecord, SandboxRecord
<1> QED BY <1>1, <1>2, <1>7 DEF Counted

-----------------------------------------------------------------------------
(* The end of an operation.                                                *)

LEMMA WorkEnds ==
  ASSUME TypeOK, NEW w \in Works, work' = [work EXCEPT ![w] = NoWork]
  PROVE  /\ work' \in [Works -> WorkRecord]
         /\ work'[w].pc = "off" /\ work'[w].owner = None
         /\ \A v \in Works : v # w => work'[v] = work[v]
BY Types, Constants DEF NoWork

\* The loop of an owned operation awaits it.
LEMMA Awaited ==
  ASSUME TypeOK, Attempts, NEW w \in Works, work[w].owner # None
  PROVE  /\ work[w].owner \in Loops /\ work[w].pc # "off"
         /\ loop[work[w].owner].pc = "deploying"
         /\ \A v \in Works : work[v].owner = work[w].owner => v = w
BY DEF TypeOK, Attempts, Owned

LEMMA WorkFailedInv ==
  ASSUME Inv, NEW w \in Works, work[w].pc # "off", WorkFailed(w), Fault \/ faults' = faults
  PROVE  Inv'
<1> USE DEF Inv
<1>1. /\ UNCHANGED <<saved, current, caller, health, tick, sandbox, late, lost, calls>>
      /\ faults' \in 0 .. MaxFaults
  BY FaultType DEF WorkFailed, monitoring
<1>2. /\ work' \in [Works -> WorkRecord]
      /\ work'[w].pc = "off" /\ work'[w].owner = None
      /\ \A v \in Works : v # w => work'[v] = work[v]
  BY WorkEnds DEF WorkFailed
<1>3. CASE ~Owned(w)
  <2>1. UNCHANGED <<session, instance, loop>> BY <1>3 DEF WorkFailed
  <2>2. Promise' BY <1>1, <2>1, PromiseKept
  <2>3. Attempts' BY <1>2, <2>1, AttemptsKept, Awaited
  <2>4. InTime' BY <1>1, <1>2, <2>1 DEF InTime, Owned
  <2>5. TypeOK' BY <1>1, <1>2, <2>1 DEF TypeOK, WorkRecord
  <2> QED BY <1>1, <2>2, <2>3, <2>4, <2>5 DEF Counted
<1>4. CASE Owned(w)
  <2> DEFINE l == work[w].owner
  <2>1. /\ l \in Loops /\ loop[l].pc = "deploying"
        /\ \A v \in Works : work[v].owner = l => v = w
    BY <1>4, Awaited DEF Owned
  <2>2. PICK e \in BOOLEAN : AttemptFailed(l, e) BY <1>4 DEF WorkFailed
  <2>3. /\ session' \in Sessions /\ instance' = None
        /\ loop' \in [Loops -> LoopRecord]
        /\ \A k \in Loops : /\ loop'[k].starter = loop[k].starter
                            /\ loop'[k].pc = IF k = l THEN "backoff" ELSE loop[k].pc
    BY <2>1, <2>2, FailedType
  <2> HIDE DEF l
  <2>4. Promise' BY <1>1, <2>1, <2>3, PromiseKept
  <2>5. \A v \in Works : work'[v].owner # None =>
           /\ work'[v].owner = work[v].owner /\ work'[v].pc # "off"
           /\ loop'[work'[v].owner].pc = "deploying"
    BY <1>2, <2>1, <2>3, Awaited
  <2>6. Attempts' BY <2>5, AttemptsKept
  <2>7. ASSUME ~late', NEW v \in Works, work'[v].pc # "off" PROVE FALSE
    <3>1. v # w /\ work[v].pc # "off" /\ work[v].owner # None
      BY <2>7, <1>1, <1>2 DEF InTime, Owned
    <3>2. work[v].owner \in Loops /\ loop[work[v].owner].pc = "deploying" BY <3>1, Awaited
    <3>3. work[v].owner = l BY <3>2, <2>1, <2>7, <1>1 DEF Promise
    <3> QED BY <3>1, <3>3, <2>1
  <2>8. InTime' BY <2>3, <2>7 DEF InTime
  <2>9. TypeOK' BY <1>1, <1>2, <2>3 DEF TypeOK, WorkRecord, LoopRecord
  <2> QED BY <1>1, <2>4, <2>6, <2>8, <2>9 DEF Counted
<1> QED BY <1>3, <1>4

LEMMA WrittenInv == ASSUME Inv, NEW w \in Works, Written(w) PROVE Inv'
<1> USE DEF Inv
<1> DEFINE l == work[w].owner
<1> DEFINE i == work[w].target
<1>1. UNCHANGED <<session, instance, saved, tick, late, calls>> /\ work[w].pc # "off"
  BY DEF Written, agentState
<1>2. /\ work' \in [Works -> WorkRecord]
      /\ work'[w].pc = "off" /\ work'[w].owner = None
      /\ \A v \in Works : v # w => work'[v] = work[v]
  BY WorkEnds DEF Written
<1>3. i \in Sessions \union {None} /\ work[w].client \in Sessions
      /\ work[w].client = i /\ l \in Loops \union {None}
  BY Types DEF WorkRecord, Written, Reachable
<1>4. PICK g \in Content :
        /\ WriteFilesBulk(work[w].files, g)
        /\ sandbox' = [sandbox EXCEPT ![i].content = Overwrite(@, g)]
  BY DEF Written
<1>5. sandbox' \in [Sessions -> SandboxRecord]
  <2>1. i \in Sessions /\ sandbox[i] \in SandboxRecord BY <1>3, Types
  <2>2. Overwrite(sandbox[i].content, g) \in Content BY <2>1 DEF SandboxRecord, Overwrite, Content
  <2> QED BY <1>4, <2>1, <2>2, Types DEF SandboxRecord
<1>6. lost' \in BOOLEAN /\ faults' \in 0 .. MaxFaults BY <1>4, BulkType
<1>7. InTime' BY <1>1, <1>2 DEF InTime, Owned
<1>8. CASE ~Owned(w) /\ UNCHANGED <<loop, caller, current, health>>
  <2>1. Promise' BY <1>1, <1>8, PromiseKept
  <2>2. Attempts' BY <1>2, <1>8, AttemptsKept, Awaited
  <2>3. TypeOK' BY <1>1, <1>2, <1>5, <1>6, <1>8 DEF TypeOK, WorkRecord, SandboxRecord
  <2> QED BY <1>1, <1>7, <2>1, <2>2, <2>3 DEF Counted
<1>9. CASE Owned(w) /\ health' = i /\ UNCHANGED <<caller, current>>
           /\ loop' = [loop EXCEPT ![l].pc = "setup", ![l].target = i]
  <2>1. /\ l \in Loops /\ loop[l].pc = "deploying"
        /\ \A v \in Works : work[v].owner = l => v = w
    BY <1>9, Awaited DEF Owned
  <2>2. loop' \in [Loops -> LoopRecord]
        /\ \A k \in Loops : /\ loop'[k].starter = loop[k].starter
                            /\ loop'[k].pc = IF k = l THEN "setup" ELSE loop[k].pc
    <3> DEFINE x == [loop[l] EXCEPT !.pc = "setup", !.target = i]
    <3> HIDE DEF l, i
    <3>1. loop \in [Loops -> LoopRecord] /\ loop[l] \in LoopRecord BY <2>1, Types
    <3>2. i \in Sessions \union {None} BY <1>3
    <3>3. loop' = [loop EXCEPT ![l] = x] BY <1>9
    <3>4. x \in LoopRecord /\ x.starter = loop[l].starter /\ x.pc = "setup"
      BY <3>1, <3>2 DEF LoopRecord
    <3> HIDE DEF x
    <3> QED BY <2>1, <3>1, <3>3, <3>4, LoopReplaced
  <2> HIDE DEF l, i
  <2>3. Promise' BY <1>1, <1>9, <2>1, <2>2, PromiseKept
  <2>4. \A v \in Works : work'[v].owner # None =>
           /\ work'[v].owner = work[v].owner /\ work'[v].pc # "off"
           /\ loop'[work'[v].owner].pc = "deploying"
    BY <1>2, <2>1, <2>2, Awaited
  <2>5. Attempts' BY <2>4, AttemptsKept
  <2>6. TypeOK' BY <1>1, <1>2, <1>3, <1>5, <1>6, <1>9, <2>2
    DEF TypeOK, WorkRecord, SandboxRecord, LoopRecord
  <2> QED BY <1>1, <1>7, <2>3, <2>5, <2>6 DEF Counted
<1>10. CASE Owned(w) /\ Resolve(l, i) /\ health' = health
  <2>1. /\ l \in Loops /\ loop[l].pc = "deploying"
        /\ \A v \in Works : work[v].owner = l => v = w
    BY <1>10, Awaited DEF Owned
  <2> HIDE DEF l, i
  <2>2. /\ loop' \in [Loops -> LoopRecord] /\ caller' \in [Everyone -> CallRecord]
        /\ current' \in Loops \union {None}
        /\ \A k \in Loops : k # l => loop'[k] = loop[k]
        /\ loop'[l].pc = "off"
        /\ Promise'
    BY <1>1, <1>3, <1>10, <2>1, ResolveInv
  <2>4. \A v \in Works : work'[v].owner # None =>
           /\ work'[v].owner = work[v].owner /\ work'[v].pc # "off"
           /\ loop'[work'[v].owner].pc = "deploying"
    BY <1>2, <2>1, <2>2, Awaited
  <2>5. Attempts' BY <2>4, AttemptsKept
  <2>6. TypeOK' BY <1>1, <1>2, <1>5, <1>6, <1>10, <2>2
    DEF TypeOK, WorkRecord, SandboxRecord, LoopRecord, CallRecord
  <2> QED BY <1>1, <1>7, <2>2, <2>5, <2>6 DEF Counted
<1> QED BY <1>8, <1>9, <1>10 DEF Written

-----------------------------------------------------------------------------
(* Steps of a loop.                                                        *)

\* A loop that is not "deploying" owns no operation.
LEMMA SetupDoneInv == ASSUME Inv, NEW l \in Loops, SetupDone(l) PROVE Inv'
<1> USE DEF Inv
<1>1. /\ UNCHANGED <<session, instance, saved, work, health, tick, sandbox, late, lost,
                     calls, faults>>
      /\ loop[l].pc = "setup" /\ loop[l].target \in Sessions \union {None}
  BY Types DEF SetupDone, agentState, monitoring, bounds, LoopRecord
<1>2. /\ loop' \in [Loops -> LoopRecord] /\ caller' \in [Everyone -> CallRecord]
      /\ current' \in Loops \union {None}
      /\ \A k \in Loops : k # l => loop'[k] = loop[k]
      /\ Promise'
  BY <1>1, ResolveInv DEF SetupDone
<1>3. \A v \in Works : work'[v].owner # None =>
         /\ work'[v].owner = work[v].owner /\ work'[v].pc # "off"
         /\ loop'[work'[v].owner].pc = "deploying"
  BY <1>1, <1>2, Awaited
<1>4. Attempts' BY <1>3, AttemptsKept
<1>5. InTime' BY <1>1 DEF InTime, Owned
<1>6. TypeOK' BY <1>1, <1>2 DEF TypeOK, LoopRecord, CallRecord
<1> QED BY <1>1, <1>2, <1>4, <1>5, <1>6 DEF Counted

\* As long as nothing outlived its timeout a loop that runs, and awaits no
\* operation, runs alone, and there is none.
LEMMA NothingActive ==
  ASSUME Inv, NEW l \in Loops, loop[l].pc \notin {"off", "deploying"}, ~late
  PROVE  \A w \in Works : work[w].pc = "off"
<1> SUFFICES ASSUME NEW w \in Works, work[w].pc # "off" PROVE FALSE OBVIOUS
<1>1. work[w].owner # None BY DEF Inv, InTime, Owned
<1>2. work[w].owner \in Loops /\ loop[work[w].owner].pc = "deploying"
  BY <1>1, Awaited DEF Inv
<1>3. current = work[w].owner /\ current = l BY <1>2 DEF Inv, Promise
<1> QED BY <1>2, <1>3

LEMMA SetupFailedInv == ASSUME Inv, NEW l \in Loops, SetupFailed(l) PROVE Inv'
<1> USE DEF Inv
<1>1. /\ UNCHANGED <<saved, current, work, caller, health, tick, sandbox, late, lost, calls>>
      /\ loop[l].pc = "setup" /\ faults' \in 0 .. MaxFaults
  BY FaultType DEF SetupFailed, monitoring
<1>2. PICK e \in BOOLEAN : AttemptFailed(l, e) BY DEF SetupFailed
<1>3. /\ session' \in Sessions /\ instance' = None
      /\ loop' \in [Loops -> LoopRecord]
      /\ \A k \in Loops : /\ loop'[k].starter = loop[k].starter
                          /\ loop'[k].pc = IF k = l THEN "backoff" ELSE loop[k].pc
  BY <1>2, FailedType
<1>4. Promise' BY <1>1, <1>3, PromiseKept
<1>5. \A v \in Works : work'[v].owner # None =>
         /\ work'[v].owner = work[v].owner /\ work'[v].pc # "off"
         /\ loop'[work'[v].owner].pc = "deploying"
  BY <1>1, <1>3, Awaited
<1>6. Attempts' BY <1>5, AttemptsKept
<1>7. InTime' BY <1>1, <1>3, NothingActive DEF InTime
<1>8. TypeOK' BY <1>1, <1>3 DEF TypeOK, LoopRecord
<1> QED BY <1>1, <1>4, <1>6, <1>7, <1>8 DEF Counted

\* The operation is abandoned before its loop stops waiting for it.
LEMMA AttemptTimeoutInv == ASSUME Inv, NEW l \in Loops, AttemptTimeout(l) PROVE Inv'
<1> USE DEF Inv
<1>1. /\ UNCHANGED <<saved, current, caller, health, tick, sandbox, lost, calls>>
      /\ loop[l].pc = "deploying" /\ late' = TRUE /\ faults' \in 0 .. MaxFaults
  BY FaultType DEF AttemptTimeout, monitoring
<1>2. /\ session' \in Sessions /\ instance' = None
      /\ loop' \in [Loops -> LoopRecord]
      /\ \A k \in Loops : /\ loop'[k].starter = loop[k].starter
                          /\ loop'[k].pc = IF k = l THEN "backoff" ELSE loop[k].pc
  BY FailedType DEF AttemptTimeout
<1>3. work' = [w \in Works |-> IF work[w].owner = l THEN [work[w] EXCEPT !.owner = None]
                               ELSE work[w]]
  BY DEF AttemptTimeout
<1>4. work \in [Works -> WorkRecord] BY Types
<1>5. work' \in [Works -> WorkRecord] BY <1>3, <1>4 DEF WorkRecord
<1>6. \A v \in Works : /\ work'[v].owner = IF work[v].owner = l THEN None ELSE work[v].owner
                       /\ work'[v].pc = work[v].pc
  BY <1>3, <1>4 DEF WorkRecord
<1>7. Promise' BY <1>1, <1>2, PromiseKept
<1>8. \A v \in Works : work'[v].owner # None =>
         /\ work'[v].owner = work[v].owner /\ work'[v].pc # "off"
         /\ loop'[work'[v].owner].pc = "deploying"
  BY <1>2, <1>6, Awaited
<1>9. Attempts' BY <1>8, AttemptsKept
<1>10. InTime' BY <1>1 DEF InTime
<1>11. TypeOK' BY <1>1, <1>2, <1>5 DEF TypeOK, LoopRecord, WorkRecord
<1> QED BY <1>1, <1>7, <1>9, <1>10, <1>11 DEF Counted

LEMMA RetryInv == ASSUME Inv, NEW l \in Loops, Retry(l) PROVE Inv'
<1> USE DEF Inv
<1>1. /\ UNCHANGED <<saved, current, caller, health, tick, sandbox, late, lost, calls, faults>>
      /\ loop[l].pc = "backoff" /\ BeginAttempt(l, loop[l])
      /\ loop[l] \in LoopRecord /\ saved' \in Content
  BY Types DEF Retry, monitoring, bounds
<1>2. /\ session' \in Sessions /\ instance' \in Sessions \union {None}
      /\ loop' \in [Loops -> LoopRecord] /\ work' \in [Works -> WorkRecord]
      /\ \A k \in Loops : IF k = l
           THEN loop'[k].pc = "deploying" /\ loop'[k].starter = loop[l].starter
           ELSE loop'[k] = loop[k]
  BY <1>1, BeginType
<1>3. ~late => \A k \in Loops : loop[k].pc # "off" => k = l BY <1>1 DEF Promise
<1>4. Attempts' /\ InTime' BY <1>1, <1>3, BeginInv
<1>5. Promise' BY <1>1, <1>2, PromiseKept
<1>6. TypeOK' BY <1>1, <1>2 DEF TypeOK, LoopRecord, WorkRecord
<1> QED BY <1>1, <1>4, <1>5, <1>6 DEF Counted

-----------------------------------------------------------------------------
(* Steps of a caller, of the health check and of the machines.             *)

\* Whoever started the loop a caller gives up on clears the shared promise.
LEMMA CallerTimeoutInv == ASSUME Inv, NEW c \in Everyone, CallerTimeout(c) PROVE Inv'
<1> USE DEF Inv
<1> DEFINE l == caller[c].waiting
<1>1. /\ UNCHANGED <<session, instance, saved, loop, work, health, tick, sandbox, lost,
                     calls, faults>>
      /\ l # None /\ late' = TRUE
      /\ loop[l].starter = c \/ loop[l].starter \notin Waiting(l)
      /\ caller' = [caller EXCEPT ![c].waiting = None]
      /\ current' = IF loop[l].starter = c THEN None ELSE current
  BY DEF CallerTimeout, agentState, monitoring
<1>2. /\ caller' \in [Everyone -> CallRecord]
      /\ \A d \in Everyone : caller'[d].waiting = IF d = c THEN None ELSE caller[d].waiting
  BY <1>1, Types DEF CallRecord
<1>3. /\ current \in Loops \union {None} /\ None \notin Loops
      /\ \A k \in Loops : loop[k].starter \in Everyone
      /\ \A d \in Everyone : caller[d].waiting \in Loops \union {None}
  BY MonitorAssumption DEF TypeOK
<1> HIDE DEF l
<1>4. l \in Loops /\ l = caller[c].waiting BY <1>1, <1>3 DEF l
<1>5. Promise'
  <2>1. \A d \in Everyone : caller'[d].waiting # None => loop'[caller'[d].waiting].pc # "off"
    BY <1>1, <1>2 DEF Promise
  <2>2. ASSUME current' # None PROVE caller'[loop'[current'].starter].waiting = current'
    <3>1. current' = current /\ loop[l].starter # c /\ current \in Loops
      BY <2>2, <1>1, <1>3
    <3>2. caller[loop[current].starter].waiting = current BY <3>1, <1>3 DEF Promise
    <3>3. loop[current].starter # c BY <3>1, <3>2, <1>4
    <3> QED BY <3>1, <3>2, <3>3, <1>1, <1>2, <1>3
  <2>3. ASSUME NEW k \in Loops, caller'[loop'[k].starter].waiting = k PROVE current' = k
    <3>1. loop[k].starter \in Everyone /\ k # None BY <1>3
    <3>2. loop[k].starter # c /\ caller[loop[k].starter].waiting = k
      BY <3>1, <2>3, <1>1, <1>2
    <3>3. current = k BY <3>2 DEF Promise
    <3>4. CASE loop[l].starter = c
      <4>1. caller[loop[l].starter].waiting = l BY <3>4, <1>4
      <4>2. current = l BY <4>1, <1>4 DEF Promise
      <4> QED BY <4>2, <3>2, <3>3, <3>4
    <3> QED BY <3>3, <3>4, <1>1
  <2> QED BY <1>1, <2>1, <2>2, <2>3 DEF Promise
<1>6. Attempts' BY <1>1, AttemptsKept, Awaited
<1>7. InTime' BY <1>1 DEF InTime
<1>8. current' \in Loops \union {None} BY <1>1, <1>3
<1>9. TypeOK' BY <1>1, <1>2, <1>8 DEF TypeOK, CallRecord
<1> QED BY <1>1, <1>5, <1>6, <1>7, <1>9 DEF Counted

\* A caller joins the deployment in progress, or starts the only one.
LEMMA DeployInv ==
  ASSUME Inv, NEW c \in Everyone, NEW f \in Content, NEW redeploy \in BOOLEAN,
         saved' \in Content, late' = late, DeployToSandbox(c, f, redeploy)
  PROVE  /\ session' \in Sessions /\ instance' \in Sessions \union {None}
         /\ current' \in Loops \union {None} /\ caller' \in [Everyone -> CallRecord]
         /\ loop' \in [Loops -> LoopRecord] /\ work' \in [Works -> WorkRecord]
         /\ Promise' /\ Attempts' /\ InTime'
<1> USE DEF Inv
<1>1. Wants(f) \in Content BY DEF Wants
<1>2. /\ session \in Sessions /\ instance \in Sessions \union {None}
      /\ current \in Loops \union {None} /\ caller \in [Everyone -> CallRecord]
      /\ loop \in [Loops -> LoopRecord] /\ work \in [Works -> WorkRecord]
      /\ None \notin Loops
  BY Types, MonitorAssumption
<1>3. \A l \in Loops : [waiting |-> l, wants |-> Wants(f), answer |-> None] \in CallRecord
  BY <1>1 DEF CallRecord
<1>4. /\ \A k \in Loops : loop[k].starter \in Everyone
      /\ \A d \in Everyone : caller[d].waiting \in Loops \union {None}
      /\ caller[c].waiting = None
  BY DEF TypeOK, DeployToSandbox
<1>5. CASE /\ current # None
           /\ caller' = [caller EXCEPT ![c] =
                           [waiting |-> current, wants |-> Wants(f), answer |-> None]]
           /\ UNCHANGED <<session, instance, current, loop, work>>
  <2>1. current \in Loops BY <1>2, <1>5
  <2>2. /\ caller' \in [Everyone -> CallRecord]
        /\ \A d \in Everyone : caller'[d].waiting = IF d = c THEN current ELSE caller[d].waiting
    BY <1>2, <1>3, <1>5, <2>1
  <2>3. loop[current].pc # "off" /\ caller[loop[current].starter].waiting = current
    BY <1>4, <2>1, <1>2 DEF Promise
  <2>4. Promise'
    <3>1. \A d \in Everyone : caller'[d].waiting # None => loop'[caller'[d].waiting].pc # "off"
      BY <1>5, <2>2, <2>3 DEF Promise
    <3>2. caller'[loop'[current'].starter].waiting = current'
      BY <1>4, <1>5, <2>1, <2>2, <2>3
    <3>3. ASSUME NEW k \in Loops, caller'[loop'[k].starter].waiting = k PROVE current' = k
      BY <3>3, <1>4, <1>5, <2>2 DEF Promise
    <3>4. ~late' => \A k \in Loops : loop'[k].pc # "off" => current' = k
      BY <1>5 DEF Promise
    <3> QED BY <3>1, <3>2, <3>3, <3>4 DEF Promise
  <2>5. Attempts' BY <1>5, AttemptsKept, Awaited
  <2>6. InTime' BY <1>5 DEF InTime, Owned
  <2> QED BY <1>2, <1>5, <2>2, <2>4, <2>5, <2>6
<1>6. ASSUME current = None, NEW l \in Loops, loop[l].pc = "off", current' = l,
             caller' = [caller EXCEPT ![c] =
                          [waiting |-> l, wants |-> Wants(f), answer |-> None]],
             BeginAttempt(l, [NoLoop EXCEPT !.files = f, !.redeploy = redeploy,
                                            !.starter = c])
      PROVE  /\ session' \in Sessions /\ instance' \in Sessions \union {None}
             /\ current' \in Loops \union {None} /\ caller' \in [Everyone -> CallRecord]
             /\ loop' \in [Loops -> LoopRecord] /\ work' \in [Works -> WorkRecord]
             /\ Promise' /\ Attempts' /\ InTime'
  <2> DEFINE r == [NoLoop EXCEPT !.files = f, !.redeploy = redeploy, !.starter = c]
  <2>1. r \in LoopRecord /\ r.starter = c BY Constants DEF LoopRecord
  <2>2. BeginAttempt(l, r) BY <1>6
  <2> HIDE DEF r
  <2>3. /\ session' \in Sessions /\ instance' \in Sessions \union {None}
        /\ loop' \in [Loops -> LoopRecord] /\ work' \in [Works -> WorkRecord]
        /\ \A k \in Loops : IF k = l
             THEN loop'[k].pc = "deploying" /\ loop'[k].starter = c
             ELSE loop'[k] = loop[k]
    BY <2>1, <2>2, BeginType
  <2>4. ~late => \A k \in Loops : loop[k].pc # "off" => k = l BY <1>2, <1>6 DEF Promise
  <2>5. Attempts' /\ InTime' BY <1>6, <2>1, <2>2, <2>4, BeginInv
  <2>6. /\ caller' \in [Everyone -> CallRecord]
        /\ \A d \in Everyone : caller'[d].waiting = IF d = c THEN l ELSE caller[d].waiting
    BY <1>2, <1>3, <1>6
  <2>7. \A d \in Everyone : caller[d].waiting # l BY <1>2, <1>6 DEF Promise
  <2>8. Promise'
    <3>1. \A d \in Everyone : caller'[d].waiting # None => loop'[caller'[d].waiting].pc # "off"
      BY <1>4, <2>3, <2>6, <2>7 DEF Promise
    <3>2. caller'[loop'[current'].starter].waiting = current' BY <1>6, <2>3, <2>6
    <3>3. ASSUME NEW k \in Loops, caller'[loop'[k].starter].waiting = k, k # l PROVE FALSE
      <4>1. loop'[k].starter = loop[k].starter BY <3>3, <2>3
      <4>2. caller[loop[k].starter].waiting = k BY <4>1, <3>3, <1>4, <2>6
      <4> QED BY <4>2, <1>2, <1>6 DEF Promise
    <3>4. ~late' => \A k \in Loops : loop'[k].pc # "off" => current' = k
      BY <1>6, <2>3, <2>4
    <3> QED BY <1>6, <3>1, <3>2, <3>3, <3>4 DEF Promise
  <2> QED BY <1>6, <2>3, <2>5, <2>6, <2>8
<1> QED BY <1>5, <1>6 DEF DeployToSandbox

LEMMA CallInv == ASSUME Inv, NEW c \in Callers, Call(c) PROVE Inv'
<1> USE DEF Inv
<1>1. /\ UNCHANGED <<health, tick, sandbox, late, lost, faults>>
      /\ calls' = calls + 1 /\ calls \in 0 .. MaxCalls /\ calls < MaxCalls
      /\ MaxCalls \in Nat /\ c \in Everyone
  BY Types, BoundsAssumption DEF Call, monitoring, Everyone
<1>2. calls' \in 0 .. MaxCalls BY <1>1
<1>3. \A d \in Callers : saved[d] \in 0 .. MaxCalls /\ saved[d] <= calls
  BY Types DEF Counted, Content, Versions
<1>4. saved[c] + 1 \in 0 .. MaxCalls BY <1>1, <1>3
<1>5. saved \in [Callers -> 0 .. MaxCalls] BY Types DEF Content, Versions
<1>6. /\ saved' \in Content /\ Counted'
      /\ \E f \in Content, redeploy \in BOOLEAN : DeployToSandbox(c, f, redeploy)
  <2>1. CASE /\ saved' = [saved EXCEPT ![c] = @ + 1]
             /\ DeployToSandbox(c, [NoFiles EXCEPT ![c] = saved[c] + 1], FALSE)
    <3>1. saved' \in Content BY <2>1, <1>4, <1>5 DEF Content, Versions
    <3>2. \A d \in Callers : saved'[d] <= calls'
      <4>1. TAKE d \in Callers
      <4>2. saved'[d] = IF d = c THEN saved[c] + 1 ELSE saved[d] BY <2>1, <1>5
      <4> QED BY <4>2, <1>1, <1>3
    <3>3. [NoFiles EXCEPT ![c] = saved[c] + 1] \in Content
      BY <1>4, Constants DEF Content, Versions
    <3> QED BY <2>1, <3>1, <3>2, <3>3 DEF Counted
  <2>2. CASE saved' = saved /\ \E redeploy \in BOOLEAN : DeployToSandbox(c, NoFiles, redeploy)
    <3>1. \A d \in Callers : saved'[d] <= calls' BY <2>2, <1>1, <1>3
    <3> QED BY <2>2, <3>1, Types, Constants DEF Counted
  <2> QED BY <2>1, <2>2 DEF Call
<1>7. /\ session' \in Sessions /\ instance' \in Sessions \union {None}
      /\ current' \in Loops \union {None} /\ caller' \in [Everyone -> CallRecord]
      /\ loop' \in [Loops -> LoopRecord] /\ work' \in [Works -> WorkRecord]
      /\ Promise' /\ Attempts' /\ InTime'
  BY <1>1, <1>6, DeployInv
<1>8. TypeOK' BY <1>1, <1>2, <1>6, <1>7 DEF TypeOK, WorkRecord, LoopRecord, CallRecord
<1> QED BY <1>6, <1>7, <1>8

\* A health check that fails deploys everything.
LEMMA InstanceUnhealthyInv == ASSUME Inv, InstanceUnhealthy PROVE Inv'
<1> USE DEF Inv
<1>1. /\ UNCHANGED <<saved, sandbox, late, lost, calls>> /\ tick' = None /\ health' = None
      /\ faults' \in 0 .. MaxFaults /\ DeployToSandbox(Monitor, NoFiles, FALSE)
      /\ Monitor \in Everyone /\ saved' \in Content
  BY FaultType, Types DEF InstanceUnhealthy, Everyone
<1>2. /\ session' \in Sessions /\ instance' \in Sessions \union {None}
      /\ current' \in Loops \union {None} /\ caller' \in [Everyone -> CallRecord]
      /\ loop' \in [Loops -> LoopRecord] /\ work' \in [Works -> WorkRecord]
      /\ Promise' /\ Attempts' /\ InTime'
  BY <1>1, Constants, DeployInv
<1>3. TypeOK' BY <1>1, <1>2 DEF TypeOK, WorkRecord, LoopRecord, CallRecord
<1> QED BY <1>1, <1>2, <1>3 DEF Counted

LEMMA HealthInv == ASSUME Inv, HealthCheck \/ InstanceHealthy PROVE Inv'
<1> USE DEF Inv
<1>1. /\ UNCHANGED <<session, instance, saved, current, loop, work, caller, health, sandbox,
                     late, lost, calls, faults>>
      /\ tick' \in Sessions \union {None}
  BY Types DEF HealthCheck, InstanceHealthy, agentState, bounds
<1>2. TypeOK' BY <1>1 DEF TypeOK
<1> QED BY <1>1, <1>2 DEF Counted, Promise, Attempts, InTime, Owned

LEMMA CrashInv == ASSUME Inv, NEW s \in Sessions, Crash(s) PROVE Inv'
<1> USE DEF Inv
<1>1. UNCHANGED <<session, instance, saved, current, loop, work, caller, health, tick,
                  late, lost, calls>> /\ faults' \in 0 .. MaxFaults
  BY FaultType DEF Crash, agentState, monitoring
<1>2. sandbox' \in [Sessions -> SandboxRecord] BY Types, Constants DEF Crash, SandboxRecord
<1>3. TypeOK' BY <1>1, <1>2 DEF TypeOK, SandboxRecord
<1> QED BY <1>1, <1>3 DEF Counted, Promise, Attempts, InTime, Owned

LEMMA RestartInv == ASSUME Inv, Restart PROVE Inv'
<1> USE DEF Inv
<1>1. /\ UNCHANGED <<session, instance, saved, sandbox, late, lost, calls>>
      /\ faults' \in 0 .. MaxFaults /\ current' = None /\ health' = None /\ tick' = None
      /\ loop' = [l \in Loops |-> NoLoop] /\ work' = [w \in Works |-> NoWork]
      /\ caller' = [c \in Everyone |-> NoCall]
  BY FaultType DEF Restart, agentState
<1>2. /\ loop' \in [Loops -> LoopRecord] /\ work' \in [Works -> WorkRecord]
      /\ caller' \in [Everyone -> CallRecord]
  BY <1>1, Constants
<1>3. TypeOK' BY <1>1, <1>2 DEF TypeOK, WorkRecord, LoopRecord, CallRecord
<1>4. Promise' BY <1>1, MonitorAssumption DEF Promise, NoCall, NoLoop, Everyone
<1>5. Attempts' /\ InTime' BY <1>1 DEF Attempts, InTime, Owned, NoWork
<1> QED BY <1>1, <1>3, <1>4, <1>5 DEF Counted
-----------------------------------------------------------------------------

LEMMA NextInv == Inv /\ [Next]_vars => Inv'
<1> SUFFICES ASSUME Inv, [Next]_vars PROVE Inv' OBVIOUS
<1>1. ASSUME NEW c \in Callers, Call(c) PROVE Inv' BY <1>1, CallInv
<1>2. ASSUME NEW w \in Works, WorkStep(w) PROVE Inv'
  <2>1. CASE CreateFailed(w)
    <3>1. work[w].pc # "off" /\ Fault /\ WorkFailed(w) BY <2>1 DEF CreateFailed
    <3> QED BY <3>1, WorkFailedInv
  <2>2. CASE WriteFailed(w)
    <3>1. work[w].pc # "off" /\ (Fault \/ faults' = faults) /\ WorkFailed(w)
      BY <2>2 DEF WriteFailed
    <3> QED BY <3>1, WorkFailedInv
  <2> QED BY <1>2, <2>1, <2>2, CheckPassedInv, CheckNotPassedInv, InstanceFoundInv,
             InstanceNotFoundInv, CreatedInv, WrittenInv DEF WorkStep
<1>3. ASSUME NEW l \in Loops, LoopStep(l) PROVE Inv'
  BY <1>3, SetupDoneInv, SetupFailedInv, AttemptTimeoutInv, RetryInv DEF LoopStep
<1>4. ASSUME NEW c \in Everyone, CallerTimeout(c) PROVE Inv' BY <1>4, CallerTimeoutInv
<1>5. CASE HealthCheck \/ InstanceHealthy BY <1>5, HealthInv
<1>6. CASE InstanceUnhealthy BY <1>6, InstanceUnhealthyInv
<1>7. ASSUME NEW s \in Sessions, Crash(s) PROVE Inv' BY <1>7, CrashInv
<1>8. CASE Restart BY <1>8, RestartInv
<1>9. CASE UNCHANGED vars
  <2>1. UNCHANGED <<session, instance, saved, current, loop, work, caller, health, tick,
                    sandbox, late, lost, calls, faults>>
    BY <1>9 DEF vars, agentState, monitoring, bounds
  <2>2. TypeOK' BY <2>1 DEF Inv, TypeOK
  <2> QED BY <2>1, <2>2 DEF Inv, Counted, Promise, Attempts, InTime, Owned
<1> QED BY <1>1, <1>2, <1>3, <1>4, <1>5, <1>6, <1>7, <1>8, <1>9 DEF Next

\* The strengthening of the three invariants below is inductive.
THEOREM Invariance == Spec => []Inv
BY InitInv, NextInv, PTL DEF Spec

\* Type correctness, for any number of callers, loops, operations, sessions
\* and faults.
THEOREM TypeCorrectness == Spec => []TypeOK
<1>1. Inv => TypeOK BY DEF Inv
<1> QED BY <1>1, Invariance, PTL

\* A set of loops that are all the current one has at most one member.
LEMMA OnlyCurrent ==
  ASSUME NEW S, \A l \in S : l = current
  PROVE  Cardinality(S) <= 1
<1>1. IsFiniteSet({current}) /\ Cardinality({current}) = 1 BY FS_Singleton
<1>2. S \subseteq {current} OBVIOUS
<1>3. IsFiniteSet(S) /\ Cardinality(S) <= Cardinality({current}) BY <1>1, <1>2, FS_Subset
<1> QED BY <1>1, <1>3

\* Nobody waits for a deployment that has ended, the shared promise is that of
\* a running one, and only a timeout lets two of them run.
THEOREM SharedPromiseHolds == Spec => []SharedPromise
<1>1. Inv => SharedPromise
  <2> SUFFICES ASSUME Inv PROVE SharedPromise OBVIOUS
  <2>1. /\ current \in Loops \union {None} /\ None \notin Loops
        /\ \A l \in Loops : loop[l].starter \in Everyone
    BY MonitorAssumption DEF Inv, TypeOK
  <2>2. \A c \in Everyone : caller[c].waiting # None => Running(caller[c].waiting)
    BY DEF Inv, Promise, Running
  <2>3. current # None => Running(current) /\ loop[current].starter \in Waiting(current)
    BY <2>1 DEF Inv, Promise, Running, Waiting
  <2>4. Cardinality({l \in Loops : loop[l].starter \in Waiting(l)}) <= 1
    <3>1. \A l \in Loops : loop[l].starter \in Waiting(l) => l = current
      BY <2>1 DEF Inv, Promise, Waiting
    <3> QED BY <3>1, OnlyCurrent
  <2>5. ~late => Cardinality({l \in Loops : Running(l)}) <= 1
    <3>1. ~late => \A l \in Loops : Running(l) => l = current
      BY DEF Inv, Promise, Running
    <3> QED BY <3>1, OnlyCurrent
  <2> QED BY <2>2, <2>3, <2>4, <2>5 DEF SharedPromise
<1> QED BY <1>1, Invariance, PTL

\* As long as nothing outlived its timeout, the instance the state names is
\* that of the current session.
THEOREM InstanceOfSessionHolds == Spec => []InstanceOfSession
<1>1. Inv => InstanceOfSession BY DEF Inv, InTime, InstanceOfSession
<1> QED BY <1>1, Invariance, PTL

-----------------------------------------------------------------------------
(* The caller that started a deployment gets its files.                    *)

Covers(f, g) == \A d \in Callers : f[d] >= g[d]

\* The files an attempt is asked to write, "all of them" included, are enough.
Asked(f, g) == f = NoFiles \/ Covers(f, g)

\* The starter of loop l still waits for it, and what it came for.
Awaits(l) == caller[loop[l].starter].waiting = l
Wish(l)   == caller[loop[l].starter].wants

\* Through all retries and resets: what a caller waits for is saved; its loop,
\* and the attempt of its loop, are asked for it; a deployment in its setup has
\* written it, unless a file was lost or the container has died since.
WantsSaved ==
  \A c \in Everyone : caller[c].waiting # None => Covers(saved, caller[c].wants)
LoopWants == \A l \in Loops : Awaits(l) => Asked(loop[l].files, Wish(l))
WorkWants ==
  \A w \in Works, l \in Loops : (work[w].owner = l /\ Awaits(l)) =>
    /\ work[w].pc = "checking" => Asked(work[w].files, Wish(l))
    /\ work[w].pc = "writing" => Covers(work[w].files, Wish(l))
SetupWants ==
  (~late /\ ~lost) =>
    \A l \in Loops :
      LET i == loop[l].target IN
        (loop[l].pc = "setup" /\ Awaits(l) /\ i # None /\ sandbox[i].state = "healthy")
          => Covers(sandbox[i].content, Wish(l))

Serving == WantsSaved /\ LoopWants /\ WorkWants /\ SetupWants

LEMMA InitServing == Init => Serving
<1> SUFFICES ASSUME Init PROVE Serving OBVIOUS
<1>1. \A c \in Everyone : caller[c].waiting = None BY DEF Init, NoCall
<1>2. \A l \in Loops : loop[l].pc = "off" /\ loop[l].files = NoFiles BY DEF Init, NoLoop
<1>3. \A w \in Works : work[w].owner = None BY DEF Init, NoWork
<1>4. WantsSaved BY <1>1 DEF WantsSaved
<1>5. LoopWants BY <1>2 DEF LoopWants, Asked
<1>6. WorkWants BY <1>3, MonitorAssumption DEF WorkWants
<1>7. SetupWants BY <1>2 DEF SetupWants
<1> QED BY <1>4, <1>5, <1>6, <1>7 DEF Serving

\* A step that starts no call and changes no loop's files leaves to those that
\* still wait what they waited for.
LEMMA WantsKept ==
  ASSUME Inv, Inv', Serving, saved' = saved,
         \A c \in Everyone : caller'[c].waiting # None =>
           caller'[c].waiting = caller[c].waiting /\ caller'[c].wants = caller[c].wants,
         \A k \in Loops : loop'[k].pc # "off" =>
           loop'[k].starter = loop[k].starter /\ loop'[k].files = loop[k].files
  PROVE  /\ WantsSaved' /\ LoopWants'
         /\ \A k \in Loops : Awaits(k)' => Awaits(k) /\ Wish(k)' = Wish(k)
<1>1. \A k \in Loops : loop'[k].starter \in Everyone /\ k # None
  BY Types, MonitorAssumption DEF Inv, TypeOK
<1>2. WantsSaved' BY DEF Serving, WantsSaved, Covers
<1>3. ASSUME NEW k \in Loops, Awaits(k)'
      PROVE  /\ loop'[k].pc # "off" /\ loop'[k].files = loop[k].files
             /\ Awaits(k) /\ Wish(k)' = Wish(k)
  <2>1. loop'[k].pc # "off" BY <1>1, <1>3 DEF Awaits, Inv, Promise
  <2> QED BY <1>1, <1>3, <2>1 DEF Awaits, Wish
<1>4. LoopWants' BY <1>3 DEF Serving, LoopWants, Asked, Covers
<1> QED BY <1>2, <1>3, <1>4

LEMMA WorkKept ==
  ASSUME Inv, Serving,
         \A k \in Loops : Awaits(k)' => Awaits(k) /\ Wish(k)' = Wish(k),
         \A w \in Works : work'[w].owner # None =>
           /\ work'[w].owner = work[w].owner
           /\ work'[w].pc \in {"checking", "writing"} =>
                work'[w].pc = work[w].pc /\ work'[w].files = work[w].files
  PROVE  WorkWants'
<1>1. SUFFICES ASSUME NEW w \in Works, NEW l \in Loops, work'[w].owner = l, Awaits(l)'
               PROVE  /\ work'[w].pc = "checking" => Asked(work'[w].files, Wish(l)')
                      /\ work'[w].pc = "writing" => Covers(work'[w].files, Wish(l)')
  BY DEF WorkWants, Asked, Covers
<1>2. Awaits(l) /\ Wish(l)' = Wish(l) /\ work[w].owner = l BY <1>1, MonitorAssumption
<1> QED BY <1>1, <1>2, MonitorAssumption DEF Serving, WorkWants

LEMMA SetupKept ==
  ASSUME Serving, ~late' => ~late, ~lost' => ~lost,
         \A k \in Loops : Awaits(k)' => Awaits(k) /\ Wish(k)' = Wish(k),
         ~late' => \A k \in Loops : loop'[k].pc = "setup" =>
           /\ loop[k].pc = "setup" /\ loop'[k].target = loop[k].target
           /\ (loop[k].target # None /\ sandbox'[loop[k].target].state = "healthy") =>
                sandbox'[loop[k].target] = sandbox[loop[k].target]
  PROVE  SetupWants'
BY DEF Serving, SetupWants

\* Files that cover a caller's wishes: those asked for, or all that are saved.
LEMMA AskedFiles ==
  ASSUME NEW f, NEW g, Asked(f, g), Covers(saved, g)
  PROVE  Covers(FilesToDeploy(f, FALSE), g)
BY DEF Asked, FilesToDeploy

\* What a starter that waits came for is saved.
LEMMA WishSaved ==
  ASSUME Inv, Serving, NEW l \in Loops, Awaits(l)
  PROVE  Covers(saved, Wish(l))
<1>1. loop[l].starter \in Everyone /\ l # None BY MonitorAssumption DEF Inv, TypeOK
<1> QED BY <1>1 DEF Serving, WantsSaved, Awaits, Wish

\* An operation goes on: what it writes, if it writes, is what its loop's
\* starter waits for.
LEMMA GoesOnServing ==
  ASSUME Inv, Inv', Serving, NEW w \in Works,
         \A v \in Works : v # w => work'[v] = work[v],
         UNCHANGED <<saved, loop, caller, late>>, ~lost' => ~lost,
         work[w].pc # "off", work'[w].owner = work[w].owner, work'[w].pc # "checking",
         work'[w].pc = "writing" =>
           \/ work[w].pc = "checking" /\ work'[w].files = FilesToDeploy(work[w].files, FALSE)
           \/ work'[w].files = saved
  PROVE  Serving'
<1>1. /\ WantsSaved' /\ LoopWants'
      /\ \A k \in Loops : Awaits(k)' => Awaits(k) /\ Wish(k)' = Wish(k)
  BY WantsKept
<1>2. ASSUME NEW v \in Works, NEW l \in Loops, work'[v].owner = l, Awaits(l)'
      PROVE  /\ work'[v].pc = "checking" => Asked(work'[v].files, Wish(l)')
             /\ work'[v].pc = "writing" => Covers(work'[v].files, Wish(l)')
  <2>1. work[v].owner = l BY <1>2
  <2>2. Awaits(l) /\ Wish(l)' = Wish(l) BY <1>1, <1>2
  <2>3. Covers(saved, Wish(l)) BY <2>2, WishSaved
  <2>4. /\ work[v].pc = "checking" => Asked(work[v].files, Wish(l))
        /\ work[v].pc = "writing" => Covers(work[v].files, Wish(l))
    BY <2>1, <2>2 DEF Serving, WorkWants
  <2>5. CASE v = w BY <2>2, <2>3, <2>4, <2>5, AskedFiles
  <2>6. CASE v # w BY <2>2, <2>4, <2>6
  <2> QED BY <2>5, <2>6
<1>3. WorkWants' BY <1>2 DEF WorkWants, Asked, Covers
<1>4. SetupWants'
  <2>1. ASSUME ~late', NEW k \in Loops, loop'[k].pc = "setup" PROVE FALSE
    BY <2>1, NothingActive
  <2> QED BY <2>1 DEF SetupWants
<1> QED BY <1>1, <1>3, <1>4 DEF Serving

LEMMA WorkGoesOnServing ==
  ASSUME Inv, Inv', Serving, NEW w \in Works,
         CheckPassed(w) \/ CheckNotPassed(w) \/ InstanceFound(w) \/ InstanceNotFound(w)
           \/ Created(w)
  PROVE  Serving'
<1>1. work \in [Works -> WorkRecord] BY Types DEF Inv
<1>2. CASE CheckPassed(w)
  <2>1. UNCHANGED <<saved, loop, caller, late, lost>>
    BY <1>2 DEF CheckPassed, agentState, bounds
  <2>2. /\ \A v \in Works : v # w => work'[v] = work[v]
        /\ work[w].pc = "checking" /\ work'[w].owner = work[w].owner /\ work'[w].pc = "writing"
        /\ work'[w].files = FilesToDeploy(work[w].files, FALSE)
    BY <1>1, <1>2 DEF CheckPassed, WorkRecord
  <2> QED BY <2>1, <2>2, GoesOnServing
<1>3. CASE CheckNotPassed(w)
  <2>1. UNCHANGED <<saved, loop, caller, late, lost>>
    BY <1>3 DEF CheckNotPassed, agentState
  <2>2. /\ \A v \in Works : v # w => work'[v] = work[v]
        /\ work[w].pc = "checking" /\ work'[w].owner = work[w].owner /\ work'[w].pc = "creating"
    BY <1>1, <1>3 DEF CheckNotPassed, WorkRecord
  <2> QED BY <2>1, <2>2, GoesOnServing
<1>4. CASE InstanceNotFound(w)
  <2>1. UNCHANGED <<saved, loop, caller, late, lost>>
    BY <1>4 DEF InstanceNotFound, agentState, bounds
  <2>2. /\ \A v \in Works : v # w => work'[v] = work[v]
        /\ work[w].pc = "creating" /\ work'[w].owner = work[w].owner /\ work'[w].pc = "building"
    BY <1>1, <1>4 DEF InstanceNotFound, WorkRecord
  <2> QED BY <2>1, <2>2, GoesOnServing
<1>5. CASE InstanceFound(w) \/ Created(w)
  <2>1. UNCHANGED <<saved, loop, caller, late>> /\ (~lost' => ~lost)
    <3>1. CASE InstanceFound(w) BY <3>1 DEF InstanceFound, bounds
    <3>2. CASE Created(w)
      <4>1. PICK g \in Content : WriteFilesBulk(work[w].files, g) BY <3>2 DEF Created
      <4> QED BY <3>2, <4>1 DEF Created, WriteFilesBulk
    <3> QED BY <1>5, <3>1, <3>2
  <2>2. /\ \A v \in Works : v # w => work'[v] = work[v]
        /\ work[w].pc # "off" /\ work'[w].owner = work[w].owner /\ work'[w].pc = "writing"
        /\ work'[w].files = saved
    <3>1. work[w].pc # "off" /\ UseInstance(w, work[w].client)
      BY <1>5 DEF InstanceFound, Created
    <3> QED BY <1>1, <3>1 DEF UseInstance, FilesToDeploy, WorkRecord
  <2> QED BY <2>1, <2>2, GoesOnServing
<1> QED BY <1>2, <1>3, <1>4, <1>5

\* The loop of a failed attempt is still asked for the same.
LEMMA FailedServing ==
  ASSUME Inv, Inv', Serving, NEW l \in Loops, NEW e, AttemptFailed(l, e),
         UNCHANGED <<saved, caller, sandbox, lost>>, ~late' => ~late,
         \A w \in Works : work'[w].owner # None => work'[w] = work[w]
  PROVE  Serving'
<1>1. \A k \in Loops : /\ loop'[k].files = loop[k].files /\ loop'[k].starter = loop[k].starter
                       /\ loop'[k].pc = "setup" => loop'[k] = loop[k]
  BY Types DEF AttemptFailed, LoopRecord, Inv
<1>2. /\ WantsSaved' /\ LoopWants'
      /\ \A k \in Loops : Awaits(k)' => Awaits(k) /\ Wish(k)' = Wish(k)
  BY <1>1, WantsKept
<1>3. WorkWants' BY <1>2, WorkKept
<1>4. SetupWants' BY <1>1, <1>2, SetupKept
<1> QED BY <1>2, <1>3, <1>4 DEF Serving

LEMMA WorkFailedServing ==
  ASSUME Inv, Inv', Serving, NEW w \in Works, WorkFailed(w) PROVE Serving'
<1>1. /\ UNCHANGED <<saved, caller, sandbox, late, lost>>
      /\ \A v \in Works : work'[v].owner # None => work'[v] = work[v]
  BY WorkEnds DEF WorkFailed, Inv
<1>2. CASE Owned(w)
  <2>1. work[w].owner \in Loops BY <1>2, Awaited DEF Inv, Owned
  <2>2. PICK e \in BOOLEAN : AttemptFailed(work[w].owner, e) BY <1>2 DEF WorkFailed
  <2> QED BY <1>1, <2>1, <2>2, FailedServing
<1>3. CASE ~Owned(w)
  <2>1. UNCHANGED loop BY <1>3 DEF WorkFailed
  <2>2. /\ WantsSaved' /\ LoopWants'
        /\ \A k \in Loops : Awaits(k)' => Awaits(k) /\ Wish(k)' = Wish(k)
    BY <1>1, <2>1, WantsKept
  <2>3. WorkWants' BY <1>1, <2>2, WorkKept
  <2>4. SetupWants' BY <1>1, <2>1, <2>2, SetupKept
  <2> QED BY <2>2, <2>3, <2>4 DEF Serving
<1> QED BY <1>2, <1>3

\* What is written covers what the files written cover.
LEMMA OverwriteCovers ==
  ASSUME NEW h \in Content, NEW f \in Content, NEW g \in Content, Covers(f, g)
  PROVE  Covers(Overwrite(h, f), g)
BY BoundsAssumption DEF Covers, Overwrite, Content, Versions

\* As long as nothing outlived its timeout one loop runs.
LEMMA OnlyLoop ==
  ASSUME Inv, ~late, NEW k \in Loops, NEW l \in Loops, loop[k].pc # "off", loop[l].pc # "off"
  PROVE  k = l
BY DEF Inv, Promise

\* The loop ends, and nobody waits for it any more.
LEMMA ResolveServing ==
  ASSUME Inv, Inv', Serving, NEW l \in Loops, NEW i, Resolve(l, i), loop[l].pc # "off",
         UNCHANGED <<saved, late>>,
         \A w \in Works : work'[w].owner # None => work'[w] = work[w]
  PROVE  Serving'
<1>1. /\ \A k \in Loops : k # l => loop'[k] = loop[k]
      /\ loop'[l].pc = "off"
  BY Types DEF Resolve, NoLoop, Inv
<1>2. \A c \in Everyone : caller'[c].waiting # None => caller'[c] = caller[c]
  <2>1. TAKE c \in Everyone
  <2>2. caller[c] \in CallRecord BY Types DEF Inv
  <2>3. CASE caller[c].waiting = l
    <3>1. caller'[c].waiting = None BY <2>1, <2>2, <2>3 DEF Resolve, Waiting, CallRecord
    <3> QED BY <3>1
  <2>4. CASE caller[c].waiting # l BY <2>1, <2>4 DEF Resolve, Waiting
  <2> QED BY <2>3, <2>4
<1>3. /\ WantsSaved' /\ LoopWants'
      /\ \A k \in Loops : Awaits(k)' => Awaits(k) /\ Wish(k)' = Wish(k)
  BY <1>1, <1>2, WantsKept
<1>4. WorkWants' BY <1>3, WorkKept
<1>5. SetupWants'
  <2>1. ASSUME ~late', NEW k \in Loops, loop'[k].pc = "setup" PROVE FALSE
    BY <2>1, <1>1, OnlyLoop
  <2> QED BY <2>1 DEF SetupWants
<1> QED BY <1>3, <1>4, <1>5 DEF Serving

\* What deploy() has written when it returns is what the starter waits for.
LEMMA WrittenCovers ==
  ASSUME Inv, Serving, NEW w \in Works, Written(w), Owned(w), Awaits(work[w].owner),
         ~late, ~lost'
  PROVE  /\ work[w].target \in Sessions
         /\ Covers(sandbox'[work[w].target].content, Wish(work[w].owner))
<1> DEFINE i == work[w].target
<1>1. work[w] \in WorkRecord /\ i \in Sessions /\ work[w].owner \in Loops
  BY Types, Awaited DEF Inv, Owned, Written, Reachable, WorkRecord
<1>2. PICK g \in Content :
        /\ WriteFilesBulk(work[w].files, g)
        /\ sandbox' = [sandbox EXCEPT ![i].content = Overwrite(@, g)]
  BY DEF Written
<1>3. g = work[w].files BY <1>2 DEF WriteFilesBulk
<1>4. sandbox \in [Sessions -> SandboxRecord] BY Types DEF Inv
<1>5. sandbox'[i].content = Overwrite(sandbox[i].content, work[w].files)
  BY <1>1, <1>2, <1>3, <1>4 DEF SandboxRecord
<1>6. Covers(work[w].files, Wish(work[w].owner))
  BY <1>1 DEF Serving, WorkWants, Written
<1>7. Wish(work[w].owner) \in Content
  <2>1. loop[work[w].owner].starter \in Everyone BY <1>1 DEF Inv, TypeOK
  <2> QED BY <2>1, Types DEF Wish, CallRecord, Inv
<1>8. sandbox[i].content \in Content /\ work[w].files \in Content
  BY <1>1, <1>4 DEF SandboxRecord, WorkRecord
<1> QED BY <1>1, <1>5, <1>6, <1>7, <1>8, OverwriteCovers

LEMMA WrittenServing == ASSUME Inv, Inv', Serving, NEW w \in Works, Written(w) PROVE Serving'
<1> DEFINE l == work[w].owner
<1> DEFINE i == work[w].target
<1>1. UNCHANGED <<saved, late>> /\ work[w].pc # "off" BY DEF Written, agentState
<1>2. \A v \in Works : work'[v].owner # None => work'[v] = work[v] /\ v # w
  BY WorkEnds DEF Written, Inv
<1>3. ~lost' => ~lost
  <2>1. PICK g \in Content : WriteFilesBulk(work[w].files, g) BY DEF Written
  <2> QED BY <2>1 DEF WriteFilesBulk
<1>4. CASE ~Owned(w) /\ UNCHANGED <<loop, caller>>
  <2>1. /\ WantsSaved' /\ LoopWants'
        /\ \A k \in Loops : Awaits(k)' => Awaits(k) /\ Wish(k)' = Wish(k)
    BY <1>1, <1>4, WantsKept
  <2>2. WorkWants' BY <1>2, <2>1, WorkKept
  <2>3. SetupWants'
    <3>1. ASSUME ~late' PROVE FALSE BY <3>1, <1>1, <1>4 DEF Inv, InTime
    <3> QED BY <3>1 DEF SetupWants
  <2> QED BY <2>1, <2>2, <2>3 DEF Serving
<1>5. CASE Owned(w) /\ UNCHANGED caller /\ loop' = [loop EXCEPT ![l].pc = "setup", ![l].target = i]
  <2>1. l \in Loops /\ loop[l].pc = "deploying" BY <1>5, Awaited DEF Owned, Inv
  <2> HIDE DEF l, i
  <2>2. /\ \A k \in Loops : loop'[k].starter = loop[k].starter /\ loop'[k].files = loop[k].files
        /\ \A k \in Loops : k # l => loop'[k] = loop[k]
        /\ loop'[l].target = i
    BY <1>5, <2>1, Types DEF LoopRecord, Inv
  <2>3. /\ WantsSaved' /\ LoopWants'
        /\ \A k \in Loops : Awaits(k)' => Awaits(k) /\ Wish(k)' = Wish(k)
    BY <1>1, <1>5, <2>2, WantsKept
  <2>4. WorkWants' BY <1>2, <2>3, WorkKept
  <2>5. ASSUME ~late', ~lost', NEW k \in Loops, loop'[k].pc = "setup", Awaits(k)'
        PROVE  Covers(sandbox'[loop'[k].target].content, Wish(k)')
    <3>1. k = l BY <2>1, <2>2, <2>5, <1>1, OnlyLoop
    <3>2. Covers(sandbox'[i].content, Wish(l))
      BY <1>1, <1>5, <2>3, <2>5, <3>1, WrittenCovers DEF l, i
    <3> QED BY <2>2, <2>3, <2>5, <3>1, <3>2
  <2>6. SetupWants' BY <2>5 DEF SetupWants
  <2> QED BY <2>3, <2>4, <2>6 DEF Serving
<1>6. CASE Owned(w) /\ Resolve(l, i)
  <2>1. l \in Loops /\ loop[l].pc = "deploying" BY <1>6, Awaited DEF Owned, Inv
  <2> QED BY <1>1, <1>2, <1>6, <2>1, ResolveServing
<1> QED BY <1>4, <1>5, <1>6 DEF Written

LEMMA SetupServing ==
  ASSUME Inv, Inv', Serving, NEW l \in Loops, SetupDone(l) \/ SetupFailed(l)
  PROVE  Serving'
<1>1. CASE SetupDone(l)
  <2>1. UNCHANGED <<saved, work, late>> /\ loop[l].pc = "setup"
    BY <1>1 DEF SetupDone, agentState, bounds
  <2> QED BY <1>1, <2>1, ResolveServing DEF SetupDone
<1>2. CASE SetupFailed(l)
  <2>1. PICK e \in BOOLEAN : AttemptFailed(l, e) BY <1>2 DEF SetupFailed
  <2>2. UNCHANGED <<saved, work, caller, sandbox, late, lost>> BY <1>2 DEF SetupFailed
  <2> QED BY <2>1, <2>2, FailedServing
<1> QED BY <1>1, <1>2

LEMMA AttemptTimeoutServing ==
  ASSUME Inv, Inv', Serving, NEW l \in Loops, AttemptTimeout(l) PROVE Serving'
<1>1. AttemptFailed(l, FALSE) /\ UNCHANGED <<saved, caller, sandbox, lost>> /\ late'
  BY DEF AttemptTimeout
<1>2. \A w \in Works : work'[w].owner # None => work'[w] = work[w]
  BY Types DEF AttemptTimeout, WorkRecord, Inv
<1> QED BY <1>1, <1>2, FailedServing

\* An attempt begins with the files its loop is asked for.
LEMMA BeginServing ==
  ASSUME Inv, Inv', Serving, NEW l \in Loops, NEW r \in LoopRecord, BeginAttempt(l, r),
         loop[l].pc # "deploying", WantsSaved', UNCHANGED <<sandbox, late, lost>>,
         \A k \in Loops : (k # l /\ Awaits(k)') => Awaits(k) /\ Wish(k)' = Wish(k),
         Awaits(l)' => Asked(r.files, Wish(l)')
  PROVE  Serving'
<1>1. /\ \A k \in Loops : k # l => loop'[k] = loop[k]
      /\ loop'[l].files = r.files /\ loop'[l].pc = "deploying"
  BY Types DEF BeginAttempt, LoopRecord, Inv
<1>2. PICK w \in Works :
        /\ work'[w].owner = l /\ work'[w].pc \in {"creating", "checking"}
        /\ work'[w].pc = "checking" => work'[w].files = r.files
        /\ \A v \in Works : v # w => work'[v] = work[v]
  BY Types DEF BeginAttempt, WorkRecord, Inv
<1>3. LoopWants' BY <1>1 DEF Serving, LoopWants, Asked, Covers
<1>4. ASSUME NEW v \in Works, NEW k \in Loops, work'[v].owner = k, Awaits(k)'
      PROVE  /\ work'[v].pc = "checking" => Asked(work'[v].files, Wish(k)')
             /\ work'[v].pc = "writing" => Covers(work'[v].files, Wish(k)')
  <2>1. CASE v = w BY <1>2, <1>4, <2>1
  <2>2. CASE v # w
    <3>1. work'[v] = work[v] /\ work[v].owner = k BY <1>2, <1>4, <2>2
    <3>2. k # l BY <3>1, Awaited, MonitorAssumption DEF Inv
    <3> QED BY <1>4, <3>1, <3>2 DEF Serving, WorkWants
  <2> QED BY <2>1, <2>2
<1>5. WorkWants' BY <1>4 DEF WorkWants, Asked, Covers
<1>6. SetupWants' BY <1>1 DEF Serving, SetupWants
<1> QED BY <1>3, <1>5, <1>6 DEF Serving

LEMMA RetryServing ==
  ASSUME Inv, Inv', Serving, NEW l \in Loops, Retry(l) PROVE Serving'
<1>1. /\ UNCHANGED <<saved, caller, sandbox, late, lost>>
      /\ loop[l].pc = "backoff" /\ BeginAttempt(l, loop[l]) /\ loop[l] \in LoopRecord
  BY Types DEF Retry, bounds, Inv
<1>2. \A k \in Loops : loop'[k].starter = loop[k].starter /\ loop'[k].files = loop[k].files
  BY <1>1, Types DEF BeginAttempt, LoopRecord, Inv
<1>3. /\ WantsSaved'
      /\ \A k \in Loops : Awaits(k)' => Awaits(k) /\ Wish(k)' = Wish(k)
  BY <1>1, <1>2, WantsKept
<1>4. Awaits(l)' => Asked(loop[l].files, Wish(l)') BY <1>3 DEF Serving, LoopWants
<1> QED BY <1>1, <1>3, <1>4, BeginServing

\* The call's own wishes are saved, and its loop is asked for them.  A caller
\* that joins is not the starter of the loop it joins.
LEMMA DeployServing ==
  ASSUME Inv, Inv', Serving, NEW c \in Everyone, NEW f \in Content, NEW redeploy \in BOOLEAN,
         DeployToSandbox(c, f, redeploy), UNCHANGED <<sandbox, late, lost>>,
         Covers(saved', saved), f = NoFiles \/ Covers(saved', f)
  PROVE  Serving'
<1>1. /\ loop \in [Loops -> LoopRecord] /\ caller \in [Everyone -> CallRecord]
      /\ saved \in Content /\ saved' \in Content /\ current \in Loops \union {None}
      /\ caller[c].waiting = None
  BY Types DEF Inv, TypeOK, DeployToSandbox
<1>2. PICK k \in Loops : caller' = [caller EXCEPT ![c] =
                                      [waiting |-> k, wants |-> Wants(f), answer |-> None]]
  BY <1>1 DEF DeployToSandbox
<1>3. /\ caller'[c].waiting = k /\ caller'[c].wants = Wants(f)
      /\ \A d \in Everyone : d # c => caller'[d] = caller[d]
  BY <1>1, <1>2
<1>4. Covers(saved', Wants(f)) /\ Asked(f, Wants(f))
  <2>1. \A g \in Content : Covers(g, g) BY BoundsAssumption DEF Covers, Content, Versions
  <2> QED BY <2>1, <1>1 DEF Wants, Asked
<1>5. WantsSaved'
  <2>1. ASSUME NEW d \in Everyone, caller'[d].waiting # None
        PROVE  Covers(saved', caller'[d].wants)
    <3>1. CASE d = c BY <3>1, <1>3, <1>4
    <3>2. CASE d # c
      <4>1. caller'[d] = caller[d] /\ Covers(saved, caller[d].wants)
        BY <2>1, <3>2, <1>3 DEF Serving, WantsSaved
      <4>2. caller[d].wants \in Content BY <1>1 DEF CallRecord
      <4> QED BY <4>1, <4>2, <1>1, BoundsAssumption DEF Covers, Content, Versions
    <3> QED BY <3>1, <3>2
  <2> QED BY <2>1 DEF WantsSaved, Covers
<1>6. CASE current # None /\ k = current /\ UNCHANGED <<loop, work>>
  <2>1. loop[k].starter \in Everyone /\ caller[loop[k].starter].waiting = k /\ k # None
    BY <1>1, <1>6, MonitorAssumption DEF Inv, TypeOK, Promise
  <2>2. ASSUME NEW j \in Loops, Awaits(j)' PROVE Awaits(j) /\ Wish(j)' = Wish(j)
    <3>1. loop[j].starter \in Everyone BY DEF Inv, TypeOK
    <3>2. loop[j].starter # c
      <4>1. ASSUME loop[j].starter = c PROVE FALSE
        <5>1. j = k BY <4>1, <2>2, <1>3, <1>6 DEF Awaits
        <5> QED BY <5>1, <4>1, <2>1, <1>1
      <4> QED BY <4>1
    <3> QED BY <3>1, <3>2, <2>2, <1>3, <1>6 DEF Awaits, Wish
  <2>3. LoopWants' BY <2>2, <1>6 DEF Serving, LoopWants, Asked, Covers
  <2>4. WorkWants' BY <2>2, <1>6, WorkKept
  <2>5. SetupWants' BY <2>2, <1>6 DEF Serving, SetupWants
  <2> QED BY <1>5, <2>3, <2>4, <2>5 DEF Serving
<1>7. ASSUME NEW l \in Loops, loop[l].pc = "off",
             caller' = [caller EXCEPT ![c] =
                          [waiting |-> l, wants |-> Wants(f), answer |-> None]],
             BeginAttempt(l, [NoLoop EXCEPT !.files = f, !.redeploy = redeploy,
                                            !.starter = c])
      PROVE  Serving'
  <2> DEFINE r == [NoLoop EXCEPT !.files = f, !.redeploy = redeploy, !.starter = c]
  <2>1. r \in LoopRecord /\ r.starter = c /\ r.files = f BY Constants DEF LoopRecord
  <2>2. BeginAttempt(l, r) BY <1>7
  <2> HIDE DEF r
  <2>3. loop'[l].starter = c /\ \A j \in Loops : j # l => loop'[j] = loop[j]
    BY <1>1, <2>1, <2>2 DEF BeginAttempt, LoopRecord
  <2>4. caller'[c].waiting = l BY <1>1, <1>7
  <2>5. ASSUME NEW j \in Loops, j # l, Awaits(j)' PROVE Awaits(j) /\ Wish(j)' = Wish(j)
    <3>1. loop'[j] = loop[j] /\ loop[j].starter \in Everyone BY <2>3, <2>5 DEF Inv, TypeOK
    <3>2. loop[j].starter # c BY <3>1, <2>4, <2>5 DEF Awaits
    <3> QED BY <3>1, <3>2, <2>5, <1>3 DEF Awaits, Wish
  <2>6. Asked(r.files, Wish(l)') BY <2>1, <2>3, <1>3, <1>4 DEF Wish
  <2> QED BY <1>5, <1>7, <2>1, <2>2, <2>5, <2>6, BeginServing
<1> QED BY <1>1, <1>2, <1>6, <1>7 DEF DeployToSandbox

LEMMA CallServing == ASSUME Inv, Inv', Serving, NEW c \in Callers, Call(c) PROVE Serving'
<1>1. UNCHANGED <<sandbox, late, lost>> /\ c \in Everyone BY DEF Call, Everyone
<1>2. saved \in [Callers -> Versions] /\ NoFiles \in Content /\ saved' \in Content
  BY Types, Constants DEF Inv, Content, TypeOK
<1>3. CASE /\ saved' = [saved EXCEPT ![c] = @ + 1]
           /\ DeployToSandbox(c, [NoFiles EXCEPT ![c] = saved[c] + 1], FALSE)
  <2> DEFINE f == [NoFiles EXCEPT ![c] = saved[c] + 1]
  <2>1. saved'[c] = saved[c] + 1 /\ \A d \in Callers : d # c => saved'[d] = saved[d]
    BY <1>2, <1>3
  <2>2. \A d \in Callers : f[d] = IF d = c THEN saved[c] + 1 ELSE 0 BY DEF NoFiles
  <2>3. \A d \in Callers : saved[d] \in Int /\ saved[d] >= 0
    BY <1>2, BoundsAssumption DEF Versions
  <2>4. Covers(saved', saved) /\ Covers(saved', f)
    <3> HIDE DEF f
    <3> QED BY <2>1, <2>2, <2>3 DEF Covers
  <2>5. f \in Content
    <3>1. saved[c] + 1 \in Versions BY <1>2, <2>1 DEF Content
    <3> QED BY <1>2, <3>1 DEF Content
  <2>6. DeployToSandbox(c, f, FALSE) BY <1>3
  <2> HIDE DEF f
  <2> QED BY <1>1, <2>4, <2>5, <2>6, DeployServing
<1>4. CASE saved' = saved /\ \E redeploy \in BOOLEAN : DeployToSandbox(c, NoFiles, redeploy)
  <2>1. Covers(saved', saved) BY <1>2, <1>4, BoundsAssumption DEF Covers, Versions
  <2> QED BY <1>1, <1>2, <1>4, <2>1, DeployServing
<1> QED BY <1>3, <1>4 DEF Call

LEMMA InstanceUnhealthyServing ==
  ASSUME Inv, Inv', Serving, InstanceUnhealthy PROVE Serving'
<1>1. /\ UNCHANGED <<saved, sandbox, late, lost>> /\ Monitor \in Everyone /\ NoFiles \in Content
      /\ DeployToSandbox(Monitor, NoFiles, FALSE)
  BY Constants DEF InstanceUnhealthy, Everyone
<1>2. Covers(saved', saved)
  BY <1>1, Types, BoundsAssumption DEF Covers, Content, Versions, Inv
<1> QED BY <1>1, <1>2, DeployServing

\* Steps that lose what they lose with those that waited for it.
LEMMA OtherServing ==
  ASSUME Inv, Inv', Serving,
         \/ \E c \in Everyone : CallerTimeout(c)
         \/ HealthCheck \/ InstanceHealthy
         \/ \E s \in Sessions : Crash(s)
         \/ Restart \/ UNCHANGED vars
  PROVE  Serving'
<1>1. /\ saved' = saved /\ lost' = lost /\ (~late' => ~late)
      /\ \A c \in Everyone : caller'[c].waiting # None =>
           caller'[c].waiting = caller[c].waiting /\ caller'[c].wants = caller[c].wants
      /\ \A k \in Loops : loop'[k].pc # "off" => loop'[k] = loop[k]
      /\ \A w \in Works : work'[w].owner # None => work'[w] = work[w]
      /\ \A s \in Sessions : sandbox'[s].state = "healthy" => sandbox'[s] = sandbox[s]
  <2>1. ASSUME NEW c \in Everyone, CallerTimeout(c)
        PROVE  /\ UNCHANGED <<saved, lost, loop, work, sandbox>> /\ late' = TRUE
               /\ \A d \in Everyone : caller'[d].waiting # None => caller'[d] = caller[d]
    <3>1. caller' = [caller EXCEPT ![c].waiting = None] BY <2>1 DEF CallerTimeout
    <3>2. \A d \in Everyone : caller'[d].waiting # None => caller'[d] = caller[d]
      BY <3>1, Types DEF CallRecord, Inv
    <3> QED BY <2>1, <3>2 DEF CallerTimeout, agentState
  <2>2. CASE HealthCheck \/ InstanceHealthy \/ UNCHANGED vars
    BY <2>2 DEF HealthCheck, InstanceHealthy, vars, agentState, bounds
  <2>3. ASSUME NEW s \in Sessions, Crash(s)
        PROVE  /\ UNCHANGED <<saved, lost, late, loop, work, caller>>
               /\ \A t \in Sessions : sandbox'[t].state = "healthy" => sandbox'[t] = sandbox[t]
    <3>1. sandbox' = [sandbox EXCEPT ![s] = [state |-> "dead", content |-> NoFiles]]
      BY <2>3 DEF Crash
    <3>2. \A t \in Sessions : sandbox'[t].state = "healthy" => sandbox'[t] = sandbox[t]
      BY <3>1, Types DEF Inv
    <3> QED BY <2>3, <3>2 DEF Crash, agentState
  <2>4. CASE Restart
    <3>1. UNCHANGED <<saved, sandbox, late, lost>> BY <2>4 DEF Restart, agentState
    <3>2. /\ \A c \in Everyone : caller'[c].waiting = None
          /\ \A k \in Loops : loop'[k].pc = "off"
          /\ \A w \in Works : work'[w].owner = None
      BY <2>4 DEF Restart, NoCall, NoLoop, NoWork
    <3> QED BY <3>1, <3>2
  <2> QED BY <2>1, <2>2, <2>3, <2>4
<1>2. /\ WantsSaved' /\ LoopWants'
      /\ \A k \in Loops : Awaits(k)' => Awaits(k) /\ Wish(k)' = Wish(k)
  BY <1>1, WantsKept
<1>3. WorkWants' BY <1>1, <1>2, WorkKept
<1>4. \A k \in Loops : loop[k].target \in Sessions \union {None} BY DEF Inv, TypeOK
<1>5. SetupWants' BY <1>1, <1>2, <1>4, SetupKept
<1> QED BY <1>2, <1>3, <1>5 DEF Serving

LEMMA NextServing == Inv /\ Inv' /\ Serving /\ [Next]_vars => Serving'
<1> SUFFICES ASSUME Inv, Inv', Serving, [Next]_vars PROVE Serving' OBVIOUS
<1>1. ASSUME NEW c \in Callers, Call(c) PROVE Serving' BY <1>1, CallServing
<1>2. ASSUME NEW w \in Works, WorkStep(w) PROVE Serving'
  <2>1. CASE CreateFailed(w) BY <2>1, WorkFailedServing DEF CreateFailed
  <2>2. CASE WriteFailed(w) BY <2>2, WorkFailedServing DEF WriteFailed
  <2> QED BY <1>2, <2>1, <2>2, WorkGoesOnServing, WrittenServing DEF WorkStep
<1>3. ASSUME NEW l \in Loops, LoopStep(l) PROVE Serving'
  BY <1>3, SetupServing, AttemptTimeoutServing, RetryServing DEF LoopStep
<1>4. CASE InstanceUnhealthy BY <1>4, InstanceUnhealthyServing
<1> QED BY <1>1, <1>2, <1>3, <1>4, OtherServing DEF Next

\* As long as nothing outlived its timeout and every write that failed was
\* reported, the caller that started a deployment gets a preview only of a
\* container that holds the files it came for, or that has died since.
THEOREM StarterServedHolds == Spec => StarterServed
<1>1. ASSUME Inv, Serving, [Next]_vars
      PROVE  [\A c \in Callers : (~late' /\ ~lost' /\ Answered(c) /\ Started(c))
                                   => Served(c)]_vars
  <2>1. SUFFICES ASSUME Next, NEW c \in Callers, ~late', ~lost', Answered(c), Started(c)
                 PROVE  Served(c)
    BY <1>1
  <2> DEFINE l == caller[c].waiting
  <2>2. /\ c \in Everyone /\ l \in Loops /\ Awaits(l) /\ Wish(l) = caller[c].wants
        /\ caller[c] \in CallRecord /\ caller'[c].waiting = None
    BY <1>1, <2>1, Types DEF Everyone, Answered, Started, Awaits, Wish, Inv, CallRecord
  <2>3. \A i : Resolve(l, i) => caller'[c].answer = i
    BY <2>2 DEF Resolve, Waiting, CallRecord
  <2>4. ASSUME NEW w \in Works, Written(w) PROVE Served(c)
    <3>1. Owned(w) /\ Resolve(work[w].owner, work[w].target)
      BY <2>1, <2>4 DEF Written, Answered
    <3>2. l = work[w].owner BY <2>1, <2>2, <3>1 DEF Resolve, Waiting, Answered
    <3>3. ~late BY <2>1, <2>4 DEF Written
    <3>4. Covers(sandbox'[work[w].target].content, Wish(l))
      BY <1>1, <2>1, <2>2, <2>4, <3>1, <3>2, <3>3, WrittenCovers
    <3> QED BY <2>2, <2>3, <3>1, <3>2, <3>4 DEF Served, Covers
  <2>5. ASSUME NEW k \in Loops, SetupDone(k) PROVE Served(c)
    <3>1. Resolve(k, loop[k].target) /\ UNCHANGED <<sandbox, late, lost>> /\ loop[k].pc = "setup"
      BY <2>5 DEF SetupDone, bounds
    <3>2. l = k BY <2>1, <2>2, <3>1 DEF Resolve, Waiting, Answered
    <3> QED BY <1>1, <2>1, <2>2, <2>3, <3>1, <3>2 DEF Serving, SetupWants, Served, Covers
  <2>6. \A d \in Everyone : ~CallerTimeout(d) BY <2>1 DEF CallerTimeout
  <2>7. CASE Restart BY <2>2, <2>7 DEF Restart, NoCall, Served
  <2>8. ASSUME NEW d \in Everyone, NEW f, NEW redeploy, DeployToSandbox(d, f, redeploy)
        PROVE  FALSE
    <3>1. caller[d].waiting = None BY <2>8 DEF DeployToSandbox
    <3>2. d # c BY <3>1, <2>1 DEF Answered
    <3>3. caller'[c] = caller[c] BY <1>1, <2>2, <2>8, <3>2, Types DEF DeployToSandbox, Inv
    <3> QED BY <3>3, <2>1 DEF Answered
  <2>9. ASSUME UNCHANGED caller PROVE FALSE BY <2>1, <2>9 DEF Answered
  <2>10. ASSUME NEW w \in Works, WorkStep(w), ~Written(w) PROVE FALSE
    BY <2>9, <2>10 DEF WorkStep, CheckPassed, CheckNotPassed, InstanceFound, InstanceNotFound,
       Created, CreateFailed, WriteFailed, WorkFailed
  <2>11. ASSUME NEW k \in Loops, LoopStep(k), ~SetupDone(k) PROVE FALSE
    BY <2>9, <2>11 DEF LoopStep, SetupFailed, AttemptTimeout, Retry
  <2>12. ASSUME NEW d \in Callers, Call(d) PROVE FALSE
    BY <2>8, <2>12 DEF Call, Everyone
  <2>13. CASE HealthCheck \/ InstanceHealthy \/ \E s \in Sessions : Crash(s)
    BY <2>9, <2>13 DEF HealthCheck, InstanceHealthy, Crash
  <2>14. CASE InstanceUnhealthy BY <2>8, <2>14 DEF InstanceUnhealthy, Everyone
  <2> QED BY <2>1, <2>4, <2>5, <2>6, <2>7, <2>10, <2>11, <2>12, <2>13, <2>14 DEF Next
<1> QED BY <1>1, InitServing, NextServing, Invariance, PTL DEF Spec, StarterServed
=============================================================================
