----------------------------- MODULE PhasicAgent -----------------------------
(***************************************************************************)
(* The phasic code-generation agent: one Durable Object holding persisted  *)
(* state (the fields of PhasicState) and in-memory state that a restart    *)
(* loses (the generation promise, the abort controller, the conversation   *)
(* turns in flight).  JavaScript runs to completion between awaits, so an  *)
(* action is the code between two awaits on the outside world: an LLM      *)
(* call, a sandbox call, a database write.                                 *)
(*                                                                         *)
(* state.currentPhase is left out: it is set when a phase is generated and *)
(* reset in the same turn of the event loop, before the next await.        *)
(***************************************************************************)
EXTENDS Integers, Sequences, FiniteSets, Functions

CONSTANTS
  Slots,        \* places for runs of buildWrapper; two runs at once need two
  Turns,        \* conversation turns that can be in flight together
  Requests,     \* modification requests the queue_request tool may be given
  Names,        \* phase names the model can come up with
  MaxPhases,    \* MAX_PHASES
  Recharge,     \* the budget a queued request restores (3 in the code)
  MaxMessages,  \* bound: client messages that may start generation
  Faults,       \* subset of BOOLEAN: whether errors, stops and restarts happen
  NoRun, NoConcept

ASSUME BudgetAssumption == MaxPhases \in Nat /\ Recharge \in Nat
ASSUME BoundAssumption  == MaxMessages \in Nat /\ Faults \subseteq BOOLEAN
ASSUME NoneAssumption   == NoRun \notin Slots

VARIABLES
  \* persisted (PhasicState)
  shouldBeGenerating, pendingUserInputs, mvpGenerated, reviewingInitiated,
  generatedPhases, phasesCounter,
  \* in memory: the promise of the run in progress and each run's locals
  generationPromise, pc, concept, context, final, starter,
  \* in memory: conversation turns, deep debugging, inference abort signals
  turn, signal,
  \* history: requests queued, put into a generated phase, thrown away
  submitted, handed, dropped,
  \* the environment: client messages used, whether this behaviour has faults
  messages, faulty

persisted == <<shouldBeGenerating, pendingUserInputs, mvpGenerated,
               reviewingInitiated, generatedPhases, phasesCounter>>
runVars   == <<generationPromise, pc, concept, context, final, starter>>
history   == <<submitted, handed, dropped>>
environment == <<messages, faulty>>
vars == <<persisted, runVars, turn, signal, history, environment>>

Starters == {"GENERATE_ALL", "RESUME", "chat"}
Phase    == [name : Names, lastPhase : BOOLEAN, completed : BOOLEAN]
Concept  == [name : Names, lastPhase : BOOLEAN]
RunPc    == {"off", "template", "genIssues", "genLLM", "implIssues", "implLLM",
             "implDeploy", "review", "closing", "rejected"}
TurnPc   == {"idle", "received", "thinking", "debugging", "debugged"}
Signals  == {"none", "attached", "orphaned", "aborted"}

Implementing == {"implIssues", "implLLM", "implDeploy"}
Live(m) == pc[m] # "off"

TypeOK ==
  /\ shouldBeGenerating \in BOOLEAN
  /\ pendingUserInputs \in Seq(Requests)
  /\ mvpGenerated \in BOOLEAN
  /\ reviewingInitiated \in BOOLEAN
  /\ generatedPhases \in Seq(Phase)
  /\ phasesCounter \in Int
  /\ phasesCounter <= MaxPhases \/ phasesCounter <= Recharge
  /\ generationPromise \in Slots \union {NoRun}
  /\ pc \in [Slots -> RunPc]
  /\ concept \in [Slots -> Concept \union {NoConcept}]
  /\ context \in [Slots -> Seq(Requests)]
  /\ final \in [Slots -> BOOLEAN]
  /\ starter \in [Slots -> Starters]
  /\ turn \in [Turns -> TurnPc]
  /\ signal \in [Slots \union Turns -> Signals]
  /\ submitted \subseteq Requests
  /\ handed \subseteq Requests
  /\ dropped \subseteq Requests
  /\ messages \in 0 .. MaxMessages
  /\ faulty \in BOOLEAN

\* An agent is created by initialize (no phase yet, MVP not generated) or by
\* initializeFromImport, which declares the MVP generated from the start.
Init ==
  /\ shouldBeGenerating = FALSE
  /\ pendingUserInputs = <<>>
  /\ mvpGenerated \in BOOLEAN
  /\ reviewingInitiated = FALSE
  /\ generatedPhases = <<>>
  /\ phasesCounter = MaxPhases
  /\ generationPromise = NoRun
  /\ pc = [m \in Slots |-> "off"]
  /\ concept = [m \in Slots |-> NoConcept]
  /\ context = [m \in Slots |-> <<>>]
  /\ final = [m \in Slots |-> FALSE]
  /\ starter = [m \in Slots |-> "GENERATE_ALL"]
  /\ turn = [t \in Turns |-> "idle"]
  /\ signal = [a \in Slots \union Turns |-> "none"]
  /\ submitted = {}
  /\ handed = {}
  /\ dropped = {}
  /\ messages = 0
  /\ faulty \in Faults

-----------------------------------------------------------------------------
(* The abort controller shared by every inference of the agent.            *)

\* getOrCreateAbortController: a new inference joins the current controller.
Attached(s, a) == [s EXCEPT ![a] = "attached"]
Detached(s, a) == [s EXCEPT ![a] = "none"]

\* clearAbortController forgets the controller without aborting it: nobody
\* can reach the inferences that hold its signal any more.
Orphaned(s) ==
  [a \in DOMAIN s |-> IF s[a] = "attached" THEN "orphaned" ELSE s[a]]

\* cancelCurrentInference aborts the controller and forgets it.
Cancelled(s) ==
  [a \in DOMAIN s |-> IF s[a] = "attached" THEN "aborted" ELSE s[a]]

-----------------------------------------------------------------------------
(* Starting a run.                                                         *)

IsCodeGenerating == generationPromise # NoRun
NothingToDo == mvpGenerated /\ pendingUserInputs = <<>>
AsConcept(p) == [name |-> p.name, lastPhase |-> p.lastPhase]
Incomplete == {i \in DOMAIN generatedPhases : ~generatedPhases[i].completed}
LastIncomplete ==
  CHOOSE i \in Incomplete : \A j \in Incomplete : j <= i

\* IDLE, or an error that left the loop: buildWrapper's finally block clears
\* the abort controller and awaits updateApp.
EnterIdle(m, s) ==
  /\ pc' = [pc EXCEPT ![m] = "closing"]
  /\ signal' = Orphaned(s)
  /\ final' = [final EXCEPT ![m] = FALSE]
  /\ UNCHANGED <<mvpGenerated, reviewingInitiated>>

\* Mutant: whatever is stored, the next phase is planned.
LaunchStateMachineMutant(m) ==
  /\ pc[m] = "template"
  /\ \/ /\ generatedPhases # <<>>
        /\ pc' = [pc EXCEPT ![m] = "genIssues"]
        /\ UNCHANGED <<concept, generatedPhases>>
     \/ /\ generatedPhases = <<>>
        /\ \E c \in Concept :
             /\ concept' = [concept EXCEPT ![m] = c]
             /\ generatedPhases' = <<[name |-> c.name, lastPhase |-> c.lastPhase,
                                      completed |-> FALSE]>>
        /\ pc' = [pc EXCEPT ![m] = "implIssues"]
  /\ UNCHANGED <<shouldBeGenerating, pendingUserInputs, mvpGenerated,
                 reviewingInitiated, phasesCounter, generationPromise, context,
                 final, starter, turn, signal, history, environment>>

\* The head of launchStateMachine: resume the last incomplete phase, or plan
\* the next one, or begin with the blueprint's initial phase.
Launch(m) ==
  /\ \/ /\ Incomplete # {}
        /\ pc' = [pc EXCEPT ![m] = "implIssues"]
        /\ concept' = [concept EXCEPT
                         ![m] = AsConcept(generatedPhases[LastIncomplete])]
        /\ UNCHANGED generatedPhases
     \/ /\ Incomplete = {} /\ generatedPhases # <<>>
        /\ pc' = [pc EXCEPT ![m] = "genIssues"]
        /\ UNCHANGED <<concept, generatedPhases>>
     \/ /\ generatedPhases = <<>>
        /\ \E c \in Concept :
             /\ concept' = [concept EXCEPT ![m] = c]
             /\ generatedPhases' = <<[name |-> c.name, lastPhase |-> c.lastPhase,
                                      completed |-> FALSE]>>
        /\ pc' = [pc EXCEPT ![m] = "implIssues"]
  /\ UNCHANGED <<mvpGenerated, reviewingInitiated, final, signal>>

\* There is no phase and no blueprint to take one from, because the model call
\* of the agent's initialization failed: build returns at once.
NoBlueprint(m) ==
  /\ faulty
  /\ generatedPhases = <<>>
  /\ EnterIdle(m, signal)
  /\ UNCHANGED <<concept, generatedPhases>>

\* buildWrapper has its template details.
LaunchStateMachine(m) ==
  /\ pc[m] = "template"
  /\ Launch(m) \/ NoBlueprint(m)
  /\ UNCHANGED <<shouldBeGenerating, pendingUserInputs, phasesCounter,
                 generationPromise, context, starter, turn, history,
                 environment>>

\* They could not be fetched: buildWrapper throws ahead of its try, so that
\* nothing resets the promise, and GENERATE_ALL's finally handler, which tests
\* it, leaves the flag.  Only a restart brings generation back.
TemplateFailed(m) ==
  /\ faulty
  /\ pc[m] = "template"
  /\ pc' = [pc EXCEPT ![m] = "rejected"]
  /\ UNCHANGED <<persisted, generationPromise, concept, context, final,
                 starter, turn, signal, history, environment>>

\* generateAllFiles past its two early returns, by the handler s, up to the
\* await on the template details.
StartRun(m, s) ==
  /\ ~Live(m)
  /\ generationPromise' = m
  /\ starter' = [starter EXCEPT ![m] = s]
  /\ pc' = [pc EXCEPT ![m] = "template"]
  /\ UNCHANGED <<pendingUserInputs, mvpGenerated, reviewingInitiated,
                 generatedPhases, phasesCounter, concept, context, final,
                 history>>

\* Mutant: no check that a run is already in progress.
GenerateAllFilesMutant(s) ==
  \/ /\ ~NothingToDo
     /\ \E m \in Slots : StartRun(m, s)
  \/ /\ NothingToDo
     /\ UNCHANGED <<pendingUserInputs, mvpGenerated, reviewingInitiated,
                    generatedPhases, phasesCounter, runVars, history>>

\* generateAllFiles as a whole.
GenerateAllFiles(s) ==
  \/ /\ ~NothingToDo /\ ~IsCodeGenerating
     /\ \E m \in Slots : StartRun(m, s)
  \/ /\ NothingToDo \/ IsCodeGenerating
     /\ UNCHANGED <<pendingUserInputs, mvpGenerated, reviewingInitiated,
                    generatedPhases, phasesCounter, runVars, history>>

-----------------------------------------------------------------------------
(* Client messages (handleWebSocketMessage).                               *)

SendMessage ==
  /\ messages < MaxMessages
  /\ messages' = messages + 1
  /\ UNCHANGED faulty

\* GENERATE_ALL.  When nothing is left to do the promise settles at once and
\* the finally handler clears the flag again.
GenerateAll ==
  /\ SendMessage
  /\ GenerateAllFiles("GENERATE_ALL")
  /\ shouldBeGenerating' = (IsCodeGenerating \/ ~NothingToDo)
  /\ UNCHANGED <<turn, signal>>

\* RESUME_GENERATION has no finally handler: the flag stays set.
ResumeGeneration ==
  /\ SendMessage
  /\ GenerateAllFiles("RESUME")
  /\ shouldBeGenerating' = TRUE
  /\ UNCHANGED <<turn, signal>>

\* STOP_GENERATION cancels the current inference only; the state machine is
\* not told.
StopGeneration ==
  /\ faulty
  /\ signal' = Cancelled(signal)
  /\ shouldBeGenerating' = FALSE
  /\ UNCHANGED <<pendingUserInputs, mvpGenerated, reviewingInitiated,
                 generatedPhases, phasesCounter, runVars, turn, history,
                 environment>>

\* USER_SUGGESTION: usage, template and runtime errors are fetched first.
UserSuggestion(t) ==
  /\ SendMessage
  /\ turn[t] = "idle"
  /\ turn' = [turn EXCEPT ![t] = "received"]
  /\ UNCHANGED <<persisted, runVars, signal, history>>

-----------------------------------------------------------------------------
(* A conversation turn and its tools.                                      *)

\* The conversational model starts to answer.
ProcessUserMessage(t) ==
  /\ turn[t] = "received"
  /\ turn' = [turn EXCEPT ![t] = "thinking"]
  /\ signal' = Attached(signal, t)
  /\ UNCHANGED <<persisted, runVars, history, environment>>

\* Mutant: the request adds to the budget that is left.
QueueRequestMutant(t, r) ==
  /\ turn[t] \in {"thinking", "debugged"}
  /\ signal[t] # "aborted"
  /\ r \notin submitted
  /\ phasesCounter' = phasesCounter + Recharge
  /\ pendingUserInputs' = Append(pendingUserInputs, r)
  /\ submitted' = submitted \union {r}
  /\ UNCHANGED <<shouldBeGenerating, mvpGenerated, reviewingInitiated,
                 generatedPhases, runVars, turn, signal, handed, dropped,
                 environment>>

\* queue_request: recharge the budget, append the request.
QueueRequest(t, r) ==
  /\ turn[t] \in {"thinking", "debugged"}
  /\ signal[t] # "aborted"
  /\ r \notin submitted
  /\ phasesCounter' = IF phasesCounter <= Recharge THEN Recharge
                      ELSE phasesCounter
  /\ pendingUserInputs' = Append(pendingUserInputs, r)
  /\ submitted' = submitted \union {r}
  /\ UNCHANGED <<shouldBeGenerating, mvpGenerated, reviewingInitiated,
                 generatedPhases, runVars, turn, signal, handed, dropped,
                 environment>>

\* deep_debug: refused while code is generated or another session runs.
DeepDebug(t) ==
  /\ turn[t] = "thinking"
  /\ signal[t] # "aborted"
  /\ ~IsCodeGenerating
  /\ \A u \in Turns : turn[u] # "debugging"
  /\ turn' = [turn EXCEPT ![t] = "debugging"]
  /\ UNCHANGED <<persisted, runVars, signal, history, environment>>

DebugDone(t) ==
  /\ turn[t] = "debugging"
  /\ turn' = [turn EXCEPT ![t] = "debugged"]
  /\ UNCHANGED <<persisted, runVars, signal, history, environment>>

\* The turn ends, with an answer or (aborted or failed) with the fallback
\* answer; codingAgent.handleUserInput then starts generation if idle.
TurnDone(t) ==
  /\ turn[t] \in {"thinking", "debugged"}
  /\ turn' = [turn EXCEPT ![t] = "idle"]
  /\ signal' = Detached(signal, t)
  /\ GenerateAllFiles("chat")
  /\ UNCHANGED <<shouldBeGenerating, environment>>

\* A rate limit, or an error before the model is asked, leaves handleUserInput
\* before the restart check.
TurnFailed(t) ==
  /\ faulty
  /\ turn[t] \in {"received", "thinking", "debugged"}
  /\ turn' = [turn EXCEPT ![t] = "idle"]
  /\ signal' = Detached(signal, t)
  /\ UNCHANGED <<persisted, runVars, history, environment>>

-----------------------------------------------------------------------------
(* The state machine of a run.  Each step ends by entering the next state; *)
(* the code up to that state's first await belongs to the step.            *)

\* executeReviewCycle: only once in the life of the agent.
EnterReviewing(m, s, mvp) ==
  \/ /\ reviewingInitiated
     /\ pc' = [pc EXCEPT ![m] = "closing"]
     /\ signal' = Orphaned(s)
     /\ final' = [final EXCEPT ![m] = FALSE]
     /\ mvpGenerated' = mvp
     /\ UNCHANGED reviewingInitiated
  \/ /\ ~reviewingInitiated
     /\ reviewingInitiated' = TRUE
     /\ pc' = [pc EXCEPT ![m] = "review"]
     /\ signal' = s
     /\ final' = [final EXCEPT ![m] = FALSE]
     /\ mvpGenerated' = mvp

\* Mutant: the flag is tested and not set.
EnterFinalizingMutant(m, s) ==
  \/ /\ ~mvpGenerated
     /\ EnterReviewing(m, s, mvpGenerated)
  \/ /\ mvpGenerated
     /\ pc' = [pc EXCEPT ![m] = "genIssues"]
     /\ final' = [final EXCEPT ![m] = TRUE]
     /\ signal' = s
     /\ UNCHANGED <<mvpGenerated, reviewingInitiated>>

\* executeFinalizing: the first time it only declares the MVP generated; any
\* later time it plans and implements one more, final, phase.
EnterFinalizing(m, s) ==
  \/ /\ ~mvpGenerated
     /\ EnterReviewing(m, s, TRUE)
  \/ /\ mvpGenerated
     /\ pc' = [pc EXCEPT ![m] = "genIssues"]
     /\ final' = [final EXCEPT ![m] = TRUE]
     /\ signal' = s
     /\ UNCHANGED <<mvpGenerated, reviewingInitiated>>

EnterGenerating(m, s) ==
  /\ pc' = [pc EXCEPT ![m] = "genIssues"]
  /\ signal' = s
  /\ UNCHANGED <<final, mvpGenerated, reviewingInitiated>>

\* What an error caught inside executePhaseGeneration or
\* executePhaseImplementation leads to: IDLE, except that executeFinalizing
\* ignores the result of both and goes on to REVIEWING.
AfterError(m, s) ==
  \/ ~final[m] /\ EnterIdle(m, s)
  \/ final[m] /\ EnterReviewing(m, s, mvpGenerated)

\* Mutant: the queue is reset before it is read.
FetchPendingUserRequestsMutant(m) ==
  /\ pc[m] = "genIssues"
  /\ pc' = [pc EXCEPT ![m] = "genLLM"]
  /\ pendingUserInputs' = <<>>
  /\ context' = [context EXCEPT ![m] = <<>>]
  /\ signal' = Attached(signal, m)
  /\ UNCHANGED <<shouldBeGenerating, mvpGenerated, reviewingInitiated,
                 generatedPhases, phasesCounter, generationPromise, concept,
                 final, starter, turn, history, environment>>

\* executePhaseGeneration, issues fetched: take every pending request.
FetchPendingUserRequests(m) ==
  /\ pc[m] = "genIssues"
  /\ pc' = [pc EXCEPT ![m] = "genLLM"]
  /\ context' = [context EXCEPT ![m] = pendingUserInputs]
  /\ pendingUserInputs' = <<>>
  /\ signal' = Attached(signal, m)
  /\ UNCHANGED <<shouldBeGenerating, mvpGenerated, reviewingInitiated,
                 generatedPhases, phasesCounter, generationPromise, concept,
                 final, starter, turn, history, environment>>

\* generateNextPhase returned a phase: record it as incomplete, implement it.
PhaseGenerated(m, c) ==
  /\ pc[m] = "genLLM" /\ signal[m] # "aborted"
  /\ generatedPhases' = Append(generatedPhases,
       [name |-> c.name, lastPhase |-> c.lastPhase, completed |-> FALSE])
  /\ concept' = [concept EXCEPT ![m] = c]
  /\ pc' = [pc EXCEPT ![m] = "implIssues"]
  /\ handed' = handed \union Range(context[m])
  /\ context' = [context EXCEPT ![m] = <<>>]
  /\ signal' = Detached(signal, m)
  /\ UNCHANGED <<shouldBeGenerating, pendingUserInputs, mvpGenerated,
                 reviewingInitiated, phasesCounter, generationPromise, final,
                 starter, turn, submitted, dropped, environment>>

\* It returned no file, because the model sees nothing left to do or because
\* every retry failed: the requests it was given are gone, on to FINALIZING
\* (REVIEWING when this was the final phase).
NoPhaseGenerated(m) ==
  /\ pc[m] = "genLLM" /\ signal[m] # "aborted"
  /\ dropped' = dropped \union Range(context[m])
  /\ context' = [context EXCEPT ![m] = <<>>]
  /\ \/ ~final[m] /\ EnterFinalizing(m, Detached(signal, m))
     \/ final[m] /\ EnterReviewing(m, Detached(signal, m), mvpGenerated)
  /\ UNCHANGED <<shouldBeGenerating, pendingUserInputs, generatedPhases,
                 phasesCounter, generationPromise, concept, starter, turn,
                 submitted, handed, environment>>

\* The inference failed or was aborted; or it met a rate limit, which the
\* loop's own catch swallows.
GenerationFailed(m) ==
  /\ faulty
  /\ pc[m] = "genLLM"
  /\ dropped' = dropped \union Range(context[m])
  /\ context' = [context EXCEPT ![m] = <<>>]
  /\ \/ AfterError(m, Detached(signal, m))
     \/ signal[m] # "aborted" /\ EnterIdle(m, Detached(signal, m))
  /\ UNCHANGED <<shouldBeGenerating, pendingUserInputs, generatedPhases,
                 phasesCounter, generationPromise, concept, starter, turn,
                 submitted, handed, environment>>

\* executePhaseImplementation, issues fetched: stream the files.
ImplementPhase(m) ==
  /\ pc[m] = "implIssues"
  /\ pc' = [pc EXCEPT ![m] = "implLLM"]
  /\ signal' = Attached(signal, m)
  /\ UNCHANGED <<persisted, generationPromise, concept, context, final,
                 starter, turn, history, environment>>

\* Files saved and committed; deployment and fixes are awaited.
DeployPhase(m) ==
  /\ pc[m] = "implLLM" /\ signal[m] # "aborted"
  /\ pc' = [pc EXCEPT ![m] = "implDeploy"]
  /\ signal' = Detached(signal, m)
  /\ UNCHANGED <<persisted, generationPromise, concept, context, final,
                 starter, turn, history, environment>>

\* markPhaseComplete goes by name.
MarkPhaseComplete(phases, name) ==
  [i \in DOMAIN phases |->
     IF phases[i].name = name THEN [phases[i] EXCEPT !.completed = TRUE]
     ELSE phases[i]]

\* The phase is complete: spend the budget and choose the next state.
PhaseImplemented(m) ==
  /\ pc[m] = "implDeploy"
  /\ generatedPhases' = MarkPhaseComplete(generatedPhases, concept[m].name)
  /\ phasesCounter' = phasesCounter - 1
  /\ LET done == /\ concept[m].lastPhase \/ phasesCounter - 1 <= 0
                 /\ pendingUserInputs = <<>>
     IN \/ final[m] /\ EnterReviewing(m, signal, mvpGenerated)
        \/ ~final[m] /\ done /\ EnterFinalizing(m, signal)
        \/ ~final[m] /\ ~done /\ EnterGenerating(m, signal)
  /\ concept' = [concept EXCEPT ![m] = NoConcept]
  /\ UNCHANGED <<shouldBeGenerating, pendingUserInputs, generationPromise,
                 context, starter, turn, history, environment>>

\* Mutant: the loop tries the same phase again, for ever.
ImplementationFailedMutant(m) ==
  /\ faulty
  /\ pc[m] \in {"implLLM", "implDeploy"}
  /\ pc' = [pc EXCEPT ![m] = "implIssues"]
  /\ signal' = Detached(signal, m)
  /\ UNCHANGED <<persisted, generationPromise, concept, context, final,
                 starter, turn, history, environment>>

\* The inference or the deployment failed; the phase stays incomplete.
ImplementationFailed(m) ==
  /\ faulty
  /\ pc[m] \in {"implLLM", "implDeploy"}
  /\ \/ AfterError(m, Detached(signal, m))
     \/ signal[m] # "aborted" /\ EnterIdle(m, Detached(signal, m))
  /\ concept' = [concept EXCEPT ![m] = NoConcept]
  /\ UNCHANGED <<shouldBeGenerating, pendingUserInputs, generatedPhases,
                 phasesCounter, generationPromise, context, starter, turn,
                 history, environment>>

\* executeReviewCycle has its issues and at most posts a question.
ReviewDone(m) ==
  /\ pc[m] = "review"
  /\ EnterIdle(m, signal)
  /\ UNCHANGED <<shouldBeGenerating, pendingUserInputs, generatedPhases,
                 phasesCounter, generationPromise, concept, context, starter,
                 turn, history, environment>>

\* buildWrapper ends; GENERATE_ALL's finally handler clears the flag.
GenerationComplete(m) ==
  /\ pc[m] = "closing"
  /\ generationPromise' = NoRun
  /\ pc' = [pc EXCEPT ![m] = "off"]
  /\ starter' = [starter EXCEPT ![m] = "GENERATE_ALL"]
  /\ shouldBeGenerating' =
       (shouldBeGenerating /\ starter[m] # "GENERATE_ALL")
  /\ UNCHANGED <<pendingUserInputs, mvpGenerated, reviewingInitiated,
                 generatedPhases, phasesCounter, concept, context, final,
                 turn, signal, history, environment>>

-----------------------------------------------------------------------------
\* The Durable Object is evicted or crashes and is constructed again: what was
\* in memory is gone, the requests a run had taken with it.
Restart ==
  /\ faulty
  /\ generationPromise' = NoRun
  /\ pc' = [m \in Slots |-> "off"]
  /\ concept' = [m \in Slots |-> NoConcept]
  /\ context' = [m \in Slots |-> <<>>]
  /\ final' = [m \in Slots |-> FALSE]
  /\ starter' = [m \in Slots |-> "GENERATE_ALL"]
  /\ turn' = [t \in Turns |-> "idle"]
  /\ signal' = [a \in Slots \union Turns |-> "none"]
  /\ dropped' = dropped \union UNION {Range(context[m]) : m \in Slots}
  /\ UNCHANGED <<persisted, submitted, handed, environment>>

RunStep(m) ==
  \/ LaunchStateMachine(m)
  \/ TemplateFailed(m)
  \/ FetchPendingUserRequests(m)
  \/ \E c \in Concept : PhaseGenerated(m, c)
  \/ NoPhaseGenerated(m)
  \/ GenerationFailed(m)
  \/ ImplementPhase(m)
  \/ DeployPhase(m)
  \/ PhaseImplemented(m)
  \/ ImplementationFailed(m)
  \/ ReviewDone(m)
  \/ GenerationComplete(m)

TurnStep(t) ==
  \/ ProcessUserMessage(t)
  \/ \E r \in Requests : QueueRequest(t, r)
  \/ DeepDebug(t)
  \/ DebugDone(t)
  \/ TurnDone(t)
  \/ TurnFailed(t)

ClientStep ==
  \/ GenerateAll
  \/ ResumeGeneration
  \/ StopGeneration
  \/ \E t \in Turns : UserSuggestion(t)

Next ==
  \/ \E m \in Slots : RunStep(m)
  \/ \E t \in Turns : TurnStep(t)
  \/ ClientStep
  \/ Restart

Spec == Init /\ [][Next]_vars

\* The event loop runs every continuation whose await has settled, and every
\* await of a run or a turn settles (inference and sandbox calls have
\* timeouts).  Clients and crashes owe nothing.
Fairness ==
  /\ \A m \in Slots : WF_vars(RunStep(m))
  /\ \A t \in Turns : /\ WF_vars(ProcessUserMessage(t))
                       /\ WF_vars(DebugDone(t))
                       /\ WF_vars(TurnDone(t))

FairSpec == Spec /\ Fairness
-----------------------------------------------------------------------------
(* Properties.                                                             *)

\* generationPromise says exactly which run is alive: no second run of
\* buildWrapper starts beside the first, however GENERATE_ALL, RESUME and the
\* end of conversation turns interleave, and no run outlives its promise.
PromiseMatchesRun ==
  \A m \in Slots : Live(m) <=> generationPromise = m

\* Every phase but the newest is complete, so resuming "the last incomplete
\* phase" after a failure, a stop or a restart never skips one.
EarlierPhasesComplete ==
  \A i \in DOMAIN generatedPhases :
    i < Len(generatedPhases) => generatedPhases[i].completed

\* A run that implements works on the newest phase, which is incomplete; a run
\* that plans has no incomplete phase behind it.
RunMatchesPhases ==
  \A m \in Slots :
    /\ pc[m] \in Implementing =>
         /\ generatedPhases # <<>>
         /\ ~generatedPhases[Len(generatedPhases)].completed
         /\ concept[m] = AsConcept(generatedPhases[Len(generatedPhases)])
    /\ pc[m] \in {"genIssues", "genLLM"} => Incomplete = {}

\* Every request the queue was given is in exactly one place: pending once, in
\* the context of one planning run, in a generated phase, or thrown away by one
\* of the paths that throw away what a planning run holds (an empty answer, a
\* failure, a restart).  None vanishes elsewhere, however turns that queue
\* interleave with runs that empty the queue, and none is planned twice.
RequestsConserved ==
  LET pending(r) == {i \in DOMAIN pendingUserInputs : pendingUserInputs[i] = r}
      taken(r)   == {m \in Slots : r \in Range(context[m])}
      ended(r)   == {S \in {"handed", "dropped"} :
                       r \in IF S = "handed" THEN handed ELSE dropped}
  IN \A r \in Requests :
       Cardinality(pending(r)) + Cardinality(taken(r)) + Cardinality(ended(r))
         = IF r \in submitted THEN 1 ELSE 0

\* The MVP is declared only when every phase generated so far is complete.
MvpWhenComplete ==
  [][~mvpGenerated /\ mvpGenerated' => generatedPhases' # <<>> /\ Incomplete' = {}]_vars

\* The phases and the MVP flag are the ledger PhaseLedger promises: they only
\* move forward, with one phase open at a time, through every interleaving,
\* error, stop and restart; the runs, turns and signals are its implementation.
Ledger == INSTANCE PhaseLedger WITH phases <- generatedPhases, mvp <- mvpGenerated
ImplementsLedger == Ledger!Spec

\* Every run comes to an end: the budget runs out, errors lead to IDLE, and
\* the promise is cleared so that the next request can start a run; all but
\* the run whose template details cannot be fetched (TemplateFailed).
RunTerminates ==
  \A m \in Slots : Live(m) ~> ~Live(m) \/ pc[m] = "rejected"

\* With nothing failing, the intent GENERATE_ALL or RESUME_GENERATION records
\* leads to a generated MVP.
IntentLeadsToMvp == (shouldBeGenerating /\ ~faulty) ~> mvpGenerated

-----------------------------------------------------------------------------
(* Refuted: what a document, a test or a comment says and TLC finds violated *)
(* (README, "What the models disagree on").  No run checks these.            *)

\* The queue_request tool says a request is "to be implemented in the next
\* development phase" (queue-request.ts:12): with nothing failing, a pending
\* request is eventually taken by a planning run.
QueuedRequestServed ==
  \A r \in Requests :
    (r \in Range(pendingUserInputs) /\ ~faulty) ~> r \notin Range(pendingUserInputs)

\* "ANY -> IDLE: User stops generation" (docs/llm.md:1215): from a stop until
\* the next client message no new inference of the run is started.
StopGoesIdle ==
  [][\A m \in Slots :
       (Live(m) /\ ~shouldBeGenerating /\ starter[m] = "GENERATE_ALL")
         => ~(signal[m] # "attached" /\ signal'[m] = "attached")]_vars
=============================================================================
