-------------------------- MODULE PhasicAgentProofs --------------------------
(***************************************************************************)
(* Proofs about PhasicAgent, for every number of slots, turns, requests    *)
(* and names, every budget and every bound.                                *)
(***************************************************************************)
EXTENDS PhasicAgent, TLAPS, FiniteSetTheorems

\* The variables that entering the next state of a run assigns, with the
\* state entered: the summary of EnterIdle, EnterReviewing, EnterFinalizing,
\* EnterGenerating and AfterError that the proofs below use.
Entered(m, s, K) ==
  /\ \E k \in K : pc' = [pc EXCEPT ![m] = k]
  /\ signal' \in {s, Orphaned(s)}
  /\ final' = final \/ \E b \in BOOLEAN : final' = [final EXCEPT ![m] = b]
  /\ mvpGenerated' \in BOOLEAN
  /\ reviewingInitiated' \in BOOLEAN

SignalsOf == [Slots \union Turns -> Signals]

-----------------------------------------------------------------------------
(* Lemmas about the helpers.                                               *)

\* The abort-controller helpers return signals.
LEMMA SignalHelpers ==
  ASSUME NEW s \in SignalsOf, NEW a \in Slots \union Turns
  PROVE  /\ Attached(s, a) \in SignalsOf
         /\ Detached(s, a) \in SignalsOf
         /\ Orphaned(s) \in SignalsOf
         /\ Cancelled(s) \in SignalsOf
BY DEF SignalsOf, Attached, Detached, Orphaned, Cancelled, Signals

\* IDLE or an error ends in "closing".
LEMMA EnterIdleEnters ==
  ASSUME TypeOK, NEW m \in Slots, NEW s \in SignalsOf, EnterIdle(m, s)
  PROVE  Entered(m, s, {"closing"}) /\ mvpGenerated' = mvpGenerated
BY DEF TypeOK, EnterIdle, Entered

\* REVIEWING ends in "closing" or starts the only review.
LEMMA EnterReviewingEnters ==
  ASSUME TypeOK, NEW m \in Slots, NEW s \in SignalsOf, NEW mvp \in BOOLEAN,
         EnterReviewing(m, s, mvp)
  PROVE  Entered(m, s, {"closing", "review"}) /\ mvpGenerated' = mvp
BY DEF TypeOK, EnterReviewing, Entered

\* FINALIZING declares the MVP, or plans one more phase.
LEMMA EnterFinalizingEnters ==
  ASSUME TypeOK, NEW m \in Slots, NEW s \in SignalsOf, EnterFinalizing(m, s)
  PROVE  Entered(m, s, {"closing", "review", "genIssues"})
<1>1. CASE ~mvpGenerated
  <2>1. EnterReviewing(m, s, TRUE)
    BY <1>1 DEF EnterFinalizing
  <2>. QED
    BY <2>1, EnterReviewingEnters DEF Entered
<1>2. CASE mvpGenerated
  BY <1>2 DEF EnterFinalizing, Entered, TypeOK
<1>. QED
  BY <1>1, <1>2

\* GENERATING only changes the place of the run.
LEMMA EnterGeneratingEnters ==
  ASSUME TypeOK, NEW m \in Slots, NEW s \in SignalsOf, EnterGenerating(m, s)
  PROVE  Entered(m, s, {"genIssues"}) /\ mvpGenerated' = mvpGenerated
BY DEF TypeOK, EnterGenerating, Entered

\* An error never starts another inference and never declares the MVP.
LEMMA AfterErrorEnters ==
  ASSUME TypeOK, NEW m \in Slots, NEW s \in SignalsOf,
         AfterError(m, s) \/ EnterIdle(m, s)
  PROVE  Entered(m, s, {"closing", "review"}) /\ mvpGenerated' = mvpGenerated
<1>1. CASE EnterIdle(m, s)
  BY <1>1, EnterIdleEnters DEF Entered
<1>2. CASE EnterReviewing(m, s, mvpGenerated)
  BY <1>2, EnterReviewingEnters DEF TypeOK
<1>. QED
  BY <1>1, <1>2 DEF AfterError

\* The newest incomplete phase, when only the newest can be incomplete.
LEMMA LastIncompleteIsNewest ==
  ASSUME TypeOK, EarlierPhasesComplete, Incomplete # {}
  PROVE  /\ generatedPhases # <<>>
         /\ LastIncomplete = Len(generatedPhases)
         /\ ~generatedPhases[Len(generatedPhases)].completed
<1>. DEFINE L == Len(generatedPhases)
<1>1. generatedPhases \in Seq(Phase) /\ L \in Nat
      /\ DOMAIN generatedPhases = 1 .. L
  BY DEF TypeOK
<1>2. \A i \in Incomplete : i = L
  BY <1>1 DEF Incomplete, EarlierPhasesComplete
<1>3. Incomplete = {L}
  BY <1>2
<1>4. LastIncomplete = L
  BY <1>1, <1>3 DEF LastIncomplete
<1>. QED
  BY <1>1, <1>3, <1>4 DEF Incomplete

\* Completing the newest phase by name completes every phase, when the ones
\* before it are complete; the names and the length stay.
LEMMA MarkCompletesAll ==
  ASSUME TypeOK, EarlierPhasesComplete, generatedPhases # <<>>, NEW n,
         generatedPhases[Len(generatedPhases)].name = n
  PROVE  LET marked == MarkPhaseComplete(generatedPhases, n)
         IN  /\ marked \in Seq(Phase)
             /\ Len(marked) = Len(generatedPhases)
             /\ \A i \in DOMAIN marked : marked[i].completed
<1>. DEFINE L == Len(generatedPhases)
            marked == MarkPhaseComplete(generatedPhases, n)
<1>1. generatedPhases \in Seq(Phase) /\ L \in Nat
      /\ DOMAIN generatedPhases = 1 .. L
  BY DEF TypeOK
<1>2. \A p \in Phase : /\ [p EXCEPT !.completed = TRUE] \in Phase
                       /\ [p EXCEPT !.completed = TRUE].completed
  BY DEF Phase
<1>3. \A i \in 1 .. L : generatedPhases[i] \in Phase
  BY <1>1
<1>4. marked = [i \in 1 .. L |-> IF generatedPhases[i].name = n
                THEN [generatedPhases[i] EXCEPT !.completed = TRUE]
                ELSE generatedPhases[i]]
  BY <1>1 DEF MarkPhaseComplete
<1>. HIDE DEF marked
<1>5. \A i \in 1 .. L : marked[i] \in Phase
  BY <1>2, <1>3, <1>4
<1>6. marked \in Seq(Phase) /\ Len(marked) = L /\ DOMAIN marked = 1 .. L
  BY <1>1, <1>4, <1>5
<1>7. ASSUME NEW i \in 1 .. L PROVE marked[i].completed
  <2>1. CASE generatedPhases[i].name = n
    BY <1>2, <1>3, <1>4, <2>1
  <2>2. CASE generatedPhases[i].name # n
    <3>1. i < L
      BY <1>1, <2>2
    <3>2. generatedPhases[i].completed
      BY <1>1, <3>1 DEF EarlierPhasesComplete
    <3>. QED
      BY <1>4, <2>2, <3>2
  <2>. QED
    BY <2>1, <2>2
<1>. QED
  BY <1>6, <1>7 DEF marked

\* The variables that Entered summarises keep their types.
LEMMA EnteredTyping ==
  ASSUME TypeOK, NEW m \in Slots, NEW s \in SignalsOf, NEW K \in SUBSET RunPc,
         Entered(m, s, K)
  PROVE  /\ pc' \in [Slots -> RunPc]
         /\ signal' \in SignalsOf
         /\ final' \in [Slots -> BOOLEAN]
         /\ mvpGenerated' \in BOOLEAN
         /\ reviewingInitiated' \in BOOLEAN
<1>1. Orphaned(s) \in SignalsOf
  BY DEF SignalsOf, Orphaned, Signals
<1>. QED
  BY <1>1 DEF TypeOK, Entered

\* The contexts of runs hold submitted requests.
LEMMA ContextRange ==
  ASSUME TypeOK
  PROVE  /\ \A m \in Slots : Range(context[m]) \subseteq Requests
         /\ UNION {Range(context[m]) : m \in Slots} \subseteq Requests
<1>1. ASSUME NEW m \in Slots PROVE Range(context[m]) \subseteq Requests
  BY DEF TypeOK, Range
<1>. QED
  BY <1>1

\* A concept is recorded as an incomplete phase.
LEMMA NewPhase ==
  ASSUME NEW c \in Concept
  PROVE  LET p == [name |-> c.name, lastPhase |-> c.lastPhase, completed |-> FALSE]
         IN  p \in Phase /\ ~p.completed /\ AsConcept(p) = c
BY DEF Concept, Phase, AsConcept

\* The disjuncts of Launch, told apart.
LEMMA LaunchCases ==
  ASSUME TypeOK, EarlierPhasesComplete, NEW m \in Slots, Launch(m)
  PROVE  \/ /\ Incomplete # {}
            /\ generatedPhases # <<>>
            /\ ~generatedPhases[Len(generatedPhases)].completed
            /\ pc' = [pc EXCEPT ![m] = "implIssues"]
            /\ concept' = [concept EXCEPT
                 ![m] = AsConcept(generatedPhases[Len(generatedPhases)])]
            /\ AsConcept(generatedPhases[Len(generatedPhases)]) \in Concept
            /\ generatedPhases' = generatedPhases
         \/ /\ Incomplete = {} /\ generatedPhases # <<>>
            /\ pc' = [pc EXCEPT ![m] = "genIssues"]
            /\ UNCHANGED <<concept, generatedPhases>>
         \/ \E p \in Phase :
              /\ generatedPhases = <<>> /\ ~p.completed
              /\ pc' = [pc EXCEPT ![m] = "implIssues"]
              /\ concept' = [concept EXCEPT ![m] = AsConcept(p)]
              /\ AsConcept(p) \in Concept
              /\ generatedPhases' = <<p>>
<1>1. CASE generatedPhases = <<>>
  <2>1. Incomplete = {}
    BY <1>1 DEF Incomplete
  <2>2. PICK c \in Concept :
          /\ concept' = [concept EXCEPT ![m] = c]
          /\ generatedPhases' = <<[name |-> c.name, lastPhase |-> c.lastPhase,
                                   completed |-> FALSE]>>
          /\ pc' = [pc EXCEPT ![m] = "implIssues"]
    BY <1>1, <2>1 DEF Launch
  <2>. QED
    BY <1>1, <2>2, NewPhase
<1>2. CASE generatedPhases # <<>> /\ Incomplete = {}
  BY <1>2 DEF Launch
<1>3. CASE generatedPhases # <<>> /\ Incomplete # {}
  <2>. DEFINE last == generatedPhases[Len(generatedPhases)]
  <2>1. last \in Phase
    BY <1>3 DEF TypeOK
  <2>2. AsConcept(last) \in Concept
    BY <2>1 DEF AsConcept, Phase, Concept
  <2>. QED
    BY <1>3, <2>2, LastIncompleteIsNewest DEF Launch
<1>. QED
  BY <1>1, <1>2, <1>3

\* What starting a run does to the types, for each of its handlers.
LEMMA GenerateAllFilesTyping ==
  ASSUME TypeOK, NEW s \in Starters, GenerateAllFiles(s)
  PROVE  /\ generationPromise' \in Slots \union {NoRun}
         /\ pc' \in [Slots -> RunPc]
         /\ starter' \in [Slots -> Starters]
         /\ UNCHANGED <<pendingUserInputs, mvpGenerated, reviewingInitiated,
                        generatedPhases, phasesCounter, concept, context, final,
                        history>>
<1>1. CASE NothingToDo \/ IsCodeGenerating
  BY <1>1 DEF TypeOK, GenerateAllFiles, runVars
<1>2. CASE ~NothingToDo /\ ~IsCodeGenerating
  <2>1. PICK m \in Slots : StartRun(m, s)
    BY <1>2 DEF GenerateAllFiles
  <2>. QED
    BY <2>1 DEF StartRun, TypeOK, RunPc
<1>. QED
  BY <1>1, <1>2

\* What launching the state machine does to the types.
LEMMA LaunchTyping ==
  ASSUME TypeOK, EarlierPhasesComplete, NEW m \in Slots, Launch(m)
  PROVE  /\ \E k \in {"implIssues", "genIssues"} : pc' = [pc EXCEPT ![m] = k]
         /\ pc' \in [Slots -> RunPc]
         /\ concept' \in [Slots -> Concept \union {NoConcept}]
         /\ generatedPhases' \in Seq(Phase)
         /\ UNCHANGED <<mvpGenerated, reviewingInitiated, final, signal>>
<1>1. \E k \in {"implIssues", "genIssues"} : pc' = [pc EXCEPT ![m] = k]
  BY LaunchCases
<1>2. \/ concept' = concept
      \/ \E c \in Concept : concept' = [concept EXCEPT ![m] = c]
  BY LaunchCases
<1>3. generatedPhases' = generatedPhases \/ \E p \in Phase : generatedPhases' = <<p>>
  BY LaunchCases
<1>4. pc' \in [Slots -> RunPc]
  BY <1>1 DEF TypeOK, RunPc
<1>5. concept' \in [Slots -> Concept \union {NoConcept}]
  BY <1>2 DEF TypeOK
<1>6. generatedPhases' \in Seq(Phase)
  <2>1. \A p \in Phase : <<p>> \in Seq(Phase)
    OBVIOUS
  <2>2. generatedPhases \in Seq(Phase)
    BY DEF TypeOK
  <2>. QED
    BY <1>3, <2>1, <2>2
<1>7. UNCHANGED <<mvpGenerated, reviewingInitiated, final, signal>>
  BY DEF Launch
<1>. QED
  BY <1>1, <1>4, <1>5, <1>6, <1>7

-----------------------------------------------------------------------------
(* The inductive invariant.  EarlierPhasesComplete is not inductive alone: *)
(* a new phase may be appended only because a planning run has no          *)
(* incomplete phase behind it (RunMatchesPhases), and that survives only   *)
(* because no second run changes the phases meanwhile (PromiseMatchesRun). *)

PlanningHasPhases ==
  \A m \in Slots : pc[m] \in {"genIssues", "genLLM"} => generatedPhases # <<>>

IInv ==
  /\ TypeOK
  /\ PromiseMatchesRun
  /\ EarlierPhasesComplete
  /\ RunMatchesPhases
  /\ PlanningHasPhases

\* Every step keeps the types.
LEMMA TypeStep == IInv /\ [Next]_vars => TypeOK'
<1>. SUFFICES ASSUME IInv, [Next]_vars
              PROVE  TypeOK'
  OBVIOUS
<1>a. TypeOK /\ EarlierPhasesComplete /\ RunMatchesPhases
  BY DEF IInv
<1>b. signal \in SignalsOf /\ \A m \in Slots : Detached(signal, m) \in SignalsOf
  BY <1>a, SignalHelpers DEF TypeOK, SignalsOf
<1>c. /\ <<>> \in Seq(Requests)
      /\ \A m \in Slots : [context EXCEPT ![m] = <<>>] \in [Slots -> Seq(Requests)]
  BY <1>a DEF TypeOK
<1>d. \A m \in Slots, c \in Concept \union {NoConcept} :
        [concept EXCEPT ![m] = c] \in [Slots -> Concept \union {NoConcept}]
  BY <1>a DEF TypeOK
<1>1. ASSUME NEW m \in Slots, RunStep(m) PROVE TypeOK'
  <2>1. CASE FetchPendingUserRequests(m)
    <3>1. context' \in [Slots -> Seq(Requests)]
      BY <1>a, <2>1 DEF FetchPendingUserRequests, TypeOK
    <3>2. signal' \in SignalsOf
      BY <1>a, <1>b, <2>1, SignalHelpers DEF FetchPendingUserRequests
    <3>. QED
      BY <1>a, <1>c, <2>1, <3>1, <3>2
       DEF FetchPendingUserRequests, TypeOK, RunPc, history, environment, SignalsOf
  <2>2. ASSUME NEW c \in Concept, PhaseGenerated(m, c) PROVE TypeOK'
    <3>1. generatedPhases' \in Seq(Phase)
      BY <1>a, <2>2, NewPhase DEF PhaseGenerated, TypeOK
    <3>2. handed' \subseteq Requests
      BY <1>a, <2>2, ContextRange DEF PhaseGenerated, TypeOK
    <3>. QED
      BY <1>a, <1>c, <1>d, <1>b, <2>2, <3>1, <3>2
         DEF PhaseGenerated, TypeOK, RunPc, environment, SignalsOf
  <2>3. CASE NoPhaseGenerated(m)
    <3>1. dropped' \subseteq Requests
      BY <1>a, <2>3, ContextRange DEF NoPhaseGenerated, TypeOK
    <3>2. Entered(m, Detached(signal, m), {"closing", "review", "genIssues"})
      BY <1>a, <1>b, <2>3, EnterFinalizingEnters, EnterReviewingEnters
         DEF NoPhaseGenerated, TypeOK, Entered
    <3>3. /\ pc' \in [Slots -> RunPc]
          /\ signal' \in SignalsOf
          /\ final' \in [Slots -> BOOLEAN]
          /\ mvpGenerated' \in BOOLEAN
          /\ reviewingInitiated' \in BOOLEAN
      BY <1>a, <1>b, <3>2, EnteredTyping DEF RunPc
    <3>. QED
      BY <1>a, <1>c, <1>d, <2>3, <3>1, <3>3
         DEF NoPhaseGenerated, TypeOK, environment, SignalsOf
  <2>4. CASE GenerationFailed(m)
    <3>1. dropped' \subseteq Requests
      BY <1>a, <2>4, ContextRange DEF GenerationFailed, TypeOK
    <3>2. Entered(m, Detached(signal, m), {"closing", "review"})
      BY <1>a, <1>b, <2>4, AfterErrorEnters DEF GenerationFailed
    <3>3. /\ pc' \in [Slots -> RunPc]
          /\ signal' \in SignalsOf
          /\ final' \in [Slots -> BOOLEAN]
          /\ mvpGenerated' \in BOOLEAN
          /\ reviewingInitiated' \in BOOLEAN
      BY <1>a, <1>b, <3>2, EnteredTyping DEF RunPc
    <3>. QED
      BY <1>a, <1>c, <1>d, <2>4, <3>1, <3>3
         DEF GenerationFailed, TypeOK, environment, SignalsOf
  <2>5. CASE ImplementPhase(m)
    BY <1>a, <1>b, <2>5, SignalHelpers
       DEF ImplementPhase, TypeOK, RunPc, persisted, history, environment, SignalsOf
  <2>6. CASE DeployPhase(m)
    BY <1>a, <1>b, <2>6
       DEF DeployPhase, TypeOK, RunPc, persisted, history, environment, SignalsOf
  <2>7. CASE PhaseImplemented(m)
    <3>1. generatedPhases' \in Seq(Phase)
      <4>1. /\ generatedPhases # <<>>
            /\ generatedPhases[Len(generatedPhases)].name = concept[m].name
        BY <1>a, <2>7
           DEF PhaseImplemented, RunMatchesPhases, Implementing, AsConcept
      <4>. QED
        BY <1>a, <2>7, <4>1, MarkCompletesAll DEF PhaseImplemented
    <3>2. Entered(m, signal, {"closing", "review", "genIssues"})
      BY <1>a, <1>b, <2>7, EnterFinalizingEnters, EnterReviewingEnters,
         EnterGeneratingEnters DEF PhaseImplemented, TypeOK, Entered
    <3>3. /\ pc' \in [Slots -> RunPc]
          /\ signal' \in SignalsOf
          /\ final' \in [Slots -> BOOLEAN]
          /\ mvpGenerated' \in BOOLEAN
          /\ reviewingInitiated' \in BOOLEAN
      BY <1>a, <1>b, <3>2, EnteredTyping DEF RunPc
    <3>4. /\ phasesCounter' \in Int
          /\ phasesCounter' <= MaxPhases \/ phasesCounter' <= Recharge
          /\ concept' \in [Slots -> Concept \union {NoConcept}]
      <4>1. phasesCounter' = phasesCounter - 1 /\ phasesCounter \in Int
        BY <1>a, <2>7 DEF PhaseImplemented, TypeOK
      <4>2. phasesCounter <= MaxPhases \/ phasesCounter <= Recharge
        BY <1>a DEF TypeOK
      <4>3. phasesCounter' <= MaxPhases \/ phasesCounter' <= Recharge
        BY <4>1, <4>2, BudgetAssumption
      <4>4. concept' \in [Slots -> Concept \union {NoConcept}]
        BY <1>d, <2>7 DEF PhaseImplemented
      <4>. QED
        BY <4>1, <4>3, <4>4
    <3>5. UNCHANGED <<shouldBeGenerating, pendingUserInputs, generationPromise, context,
                      starter, turn, submitted, handed, dropped, messages, faulty>>
      BY <2>7 DEF PhaseImplemented, history, environment
    <3>. QED
      BY <1>a, <3>1, <3>3, <3>4, <3>5 DEF TypeOK, SignalsOf
  <2>8. CASE ImplementationFailed(m)
    <3>1. Entered(m, Detached(signal, m), {"closing", "review"})
      BY <1>a, <1>b, <2>8, AfterErrorEnters DEF ImplementationFailed
    <3>2. /\ pc' \in [Slots -> RunPc]
          /\ signal' \in SignalsOf
          /\ final' \in [Slots -> BOOLEAN]
          /\ mvpGenerated' \in BOOLEAN
          /\ reviewingInitiated' \in BOOLEAN
      BY <1>a, <1>b, <3>1, EnteredTyping DEF RunPc
    <3>. QED
      BY <1>a, <1>c, <1>d, <2>8, <3>2
         DEF ImplementationFailed, TypeOK, history, environment, SignalsOf
  <2>9. CASE ReviewDone(m)
    <3>1. Entered(m, signal, {"closing"})
      BY <1>a, <1>b, <2>9, EnterIdleEnters DEF ReviewDone
    <3>2. /\ pc' \in [Slots -> RunPc]
          /\ signal' \in SignalsOf
          /\ final' \in [Slots -> BOOLEAN]
          /\ mvpGenerated' \in BOOLEAN
          /\ reviewingInitiated' \in BOOLEAN
      BY <1>a, <1>b, <3>1, EnteredTyping DEF RunPc
    <3>. QED
      BY <1>a, <2>9, <3>2
         DEF ReviewDone, TypeOK, history, environment, SignalsOf
  <2>10. CASE GenerationComplete(m)
    BY <1>a, <2>10
       DEF GenerationComplete, TypeOK, RunPc, Starters, history, environment
  <2>11. CASE LaunchStateMachine(m)
    <3>1. CASE Launch(m)
      <4>1. /\ pc' \in [Slots -> RunPc]
            /\ concept' \in [Slots -> Concept \union {NoConcept}]
            /\ generatedPhases' \in Seq(Phase)
            /\ UNCHANGED <<mvpGenerated, reviewingInitiated, final, signal>>
        BY <1>a, <3>1, LaunchTyping
      <4>. QED
        BY <1>a, <2>11, <4>1 DEF LaunchStateMachine, TypeOK, history, environment
    <3>2. CASE NoBlueprint(m)
      <4>1. Entered(m, signal, {"closing"}) /\ UNCHANGED <<concept, generatedPhases>>
        BY <1>a, <1>b, <3>2, EnterIdleEnters DEF NoBlueprint
      <4>2. /\ pc' \in [Slots -> RunPc]
            /\ signal' \in SignalsOf
            /\ final' \in [Slots -> BOOLEAN]
            /\ mvpGenerated' \in BOOLEAN
            /\ reviewingInitiated' \in BOOLEAN
        BY <1>a, <1>b, <4>1, EnteredTyping DEF RunPc
      <4>. QED
        BY <1>a, <2>11, <4>1, <4>2
           DEF LaunchStateMachine, TypeOK, history, environment, SignalsOf
    <3>. QED
      BY <2>11, <3>1, <3>2 DEF LaunchStateMachine
  <2>12. CASE TemplateFailed(m)
    BY <1>a, <2>12
       DEF TemplateFailed, TypeOK, RunPc, persisted, history, environment
  <2>. QED
    BY <1>1, <2>1, <2>2, <2>3, <2>4, <2>5, <2>6, <2>7, <2>8, <2>9, <2>10, <2>11, <2>12
       DEF RunStep
<1>2. ASSUME NEW t \in Turns, TurnStep(t) PROVE TypeOK'
  <2>a. Detached(signal, t) \in SignalsOf
    BY <1>b, SignalHelpers
  <2>1. ASSUME NEW r \in Requests, QueueRequest(t, r) PROVE TypeOK'
    <3>1. /\ phasesCounter' \in Int
          /\ phasesCounter' <= MaxPhases \/ phasesCounter' <= Recharge
      BY <1>a, <2>1, BudgetAssumption DEF QueueRequest, TypeOK
    <3>2. pendingUserInputs' \in Seq(Requests) /\ submitted' \subseteq Requests
      BY <1>a, <2>1 DEF QueueRequest, TypeOK
    <3>. QED
      BY <1>a, <2>1, <3>1, <3>2 DEF QueueRequest, TypeOK, runVars, environment
  <2>2. CASE DeepDebug(t)
    BY <1>a, <2>2
       DEF DeepDebug, TypeOK, TurnPc, persisted, runVars, history, environment
  <2>3. CASE DebugDone(t)
    BY <1>a, <2>3
       DEF DebugDone, TypeOK, TurnPc, persisted, runVars, history, environment
  <2>4. CASE TurnDone(t)
    <3>1. GenerateAllFiles("chat") /\ "chat" \in Starters
      BY <2>4 DEF TurnDone, Starters
    <3>. QED
      BY <1>a, <2>a, <2>4, <3>1, GenerateAllFilesTyping
         DEF TurnDone, TypeOK, TurnPc, history, environment, SignalsOf
  <2>5. CASE TurnFailed(t)
    BY <1>a, <2>a, <2>5
       DEF TurnFailed, TypeOK, TurnPc, persisted, runVars, history,
           environment, SignalsOf
  <2>6. CASE ProcessUserMessage(t)
    <3>1. Attached(signal, t) \in SignalsOf
      BY <1>b, SignalHelpers
    <3>. QED
      BY <1>a, <2>6, <3>1
         DEF ProcessUserMessage, TypeOK, TurnPc, persisted, runVars, history,
             environment, SignalsOf
  <2>. QED
    BY <1>2, <2>1, <2>2, <2>3, <2>4, <2>5, <2>6 DEF TurnStep
<1>3. CASE ClientStep
  <2>a. ASSUME SendMessage PROVE messages' \in 0 .. MaxMessages /\ faulty' = faulty
    BY <1>a, <2>a, BoundAssumption DEF SendMessage, TypeOK
  <2>1. CASE GenerateAll
    <3>1. GenerateAllFiles("GENERATE_ALL") /\ "GENERATE_ALL" \in Starters
      BY <2>1 DEF GenerateAll, Starters
    <3>2. shouldBeGenerating' \in BOOLEAN
      BY <2>1 DEF GenerateAll, IsCodeGenerating, NothingToDo
    <3>. QED
      BY <1>a, <2>a, <2>1, <3>1, <3>2, GenerateAllFilesTyping
         DEF GenerateAll, TypeOK, history
  <2>2. CASE ResumeGeneration
    <3>1. GenerateAllFiles("RESUME") /\ "RESUME" \in Starters
      BY <2>2 DEF ResumeGeneration, Starters
    <3>. QED
      BY <1>a, <2>a, <2>2, <3>1, GenerateAllFilesTyping
         DEF ResumeGeneration, TypeOK, history
  <2>3. CASE StopGeneration
    <3>1. Cancelled(signal) \in SignalsOf
      BY <1>b DEF SignalsOf, Cancelled, Signals
    <3>. QED
      BY <1>a, <2>3, <3>1
         DEF StopGeneration, TypeOK, runVars, history, environment, SignalsOf
  <2>4. ASSUME NEW t \in Turns, UserSuggestion(t) PROVE TypeOK'
    BY <1>a, <2>a, <2>4
       DEF UserSuggestion, TypeOK, TurnPc, persisted, runVars, history
  <2>. QED
    BY <1>3, <2>1, <2>2, <2>3, <2>4 DEF ClientStep
<1>4. CASE Restart
  <2>1. dropped' \subseteq Requests
    BY <1>a, <1>4, ContextRange DEF Restart, TypeOK
  <2>. QED
    BY <1>a, <1>4, <2>1
       DEF Restart, TypeOK, RunPc, TurnPc, Signals, Starters, persisted, environment
<1>5. CASE UNCHANGED vars
  BY <1>a, <1>5 DEF TypeOK, vars, persisted, runVars, history, environment
<1>. QED
  BY <1>1, <1>2, <1>3, <1>4, <1>5 DEF Next

\* A step of the only live run to another of its places keeps the promise.
LEMMA RunMoves ==
  ASSUME TypeOK, PromiseMatchesRun, NEW m \in Slots, Live(m),
         NEW k \in RunPc \ {"off"}, pc' = [pc EXCEPT ![m] = k],
         generationPromise' = generationPromise
  PROVE  /\ PromiseMatchesRun'
         /\ \A n \in Slots \ {m} : pc[n] = "off" /\ pc'[n] = "off"
         /\ pc'[m] = k
BY DEF TypeOK, PromiseMatchesRun, Live

\* What each step of a run does to its place: the run was alive, and either
\* it moves or it ends.
LEMMA RunStepMoves ==
  ASSUME IInv, NEW m \in Slots, RunStep(m)
  PROVE  /\ Live(m)
         /\ \/ /\ generationPromise' = generationPromise
               /\ \E k \in RunPc \ {"off"} : pc' = [pc EXCEPT ![m] = k]
            \/ /\ GenerationComplete(m)
<1>a. TypeOK /\ signal \in SignalsOf /\ Detached(signal, m) \in SignalsOf
  BY SignalHelpers DEF IInv, TypeOK, SignalsOf
<1>1. CASE FetchPendingUserRequests(m) \/ ImplementPhase(m) \/ DeployPhase(m)
            \/ \E c \in Concept : PhaseGenerated(m, c)
  BY <1>1 DEF FetchPendingUserRequests, ImplementPhase, DeployPhase,
     PhaseGenerated, Live, RunPc
<1>2. CASE NoPhaseGenerated(m)
  <2>1. Entered(m, Detached(signal, m), {"closing", "review", "genIssues"})
    BY <1>a, <1>2, EnterFinalizingEnters, EnterReviewingEnters
       DEF NoPhaseGenerated, TypeOK, Entered
  <2>. QED
    BY <1>2, <2>1 DEF NoPhaseGenerated, Entered, Live, RunPc
<1>3. CASE GenerationFailed(m)
  <2>1. Entered(m, Detached(signal, m), {"closing", "review"})
    BY <1>a, <1>3, AfterErrorEnters DEF GenerationFailed
  <2>. QED
    BY <1>3, <2>1 DEF GenerationFailed, Entered, Live, RunPc
<1>4. CASE PhaseImplemented(m)
  <2>1. Entered(m, signal, {"closing", "review", "genIssues"})
    BY <1>a, <1>4, EnterFinalizingEnters, EnterReviewingEnters,
       EnterGeneratingEnters DEF PhaseImplemented, TypeOK, Entered
  <2>. QED
    BY <1>4, <2>1 DEF PhaseImplemented, Entered, Live, RunPc
<1>5. CASE ImplementationFailed(m)
  <2>1. Entered(m, Detached(signal, m), {"closing", "review"})
    BY <1>a, <1>5, AfterErrorEnters DEF ImplementationFailed
  <2>. QED
    BY <1>5, <2>1 DEF ImplementationFailed, Entered, Live, RunPc
<1>6. CASE ReviewDone(m)
  <2>1. Entered(m, signal, {"closing"})
    BY <1>a, <1>6, EnterIdleEnters DEF ReviewDone
  <2>. QED
    BY <1>6, <2>1 DEF ReviewDone, Entered, Live, RunPc
<1>7. CASE GenerationComplete(m)
  BY <1>7 DEF GenerationComplete, Live
<1>8. CASE LaunchStateMachine(m)
  <2>1. \E k \in {"implIssues", "genIssues", "closing"} : pc' = [pc EXCEPT ![m] = k]
    <3>1. CASE Launch(m)
      <4>1. EarlierPhasesComplete
        BY DEF IInv
      <4>. QED
        BY <1>a, <3>1, <4>1, LaunchTyping
    <3>2. CASE NoBlueprint(m)
      BY <3>2 DEF NoBlueprint, EnterIdle
    <3>. QED
      BY <1>8, <3>1, <3>2 DEF LaunchStateMachine
  <2>. QED
    BY <1>8, <2>1 DEF LaunchStateMachine, Live, RunPc
<1>9. CASE TemplateFailed(m)
  BY <1>9 DEF TemplateFailed, Live, RunPc
<1>. QED
  BY <1>1, <1>2, <1>3, <1>4, <1>5, <1>6, <1>7, <1>8, <1>9 DEF RunStep

\* Starting a run, or finding nothing to start, keeps the promise and the
\* phases' invariants: nobody else is alive when a run starts.
LEMMA GenerateAllFilesKeeps ==
  ASSUME IInv, NEW s \in Starters, GenerateAllFiles(s)
  PROVE  /\ PromiseMatchesRun'
         /\ EarlierPhasesComplete'
         /\ RunMatchesPhases'
         /\ PlanningHasPhases'
<1>1. CASE NothingToDo \/ IsCodeGenerating
  BY <1>1 DEF IInv, GenerateAllFiles, runVars, PromiseMatchesRun, Live,
     EarlierPhasesComplete, RunMatchesPhases, Incomplete, PlanningHasPhases
<1>2. CASE ~NothingToDo /\ ~IsCodeGenerating
  <2>1. PICK m \in Slots : StartRun(m, s)
    BY <1>2 DEF GenerateAllFiles
  <2>2. \A n \in Slots : pc[n] = "off"
    BY <1>2, NoneAssumption DEF IInv, IsCodeGenerating, PromiseMatchesRun, Live
  <2>3. /\ generationPromise' = m /\ pc' = [pc EXCEPT ![m] = "template"]
        /\ UNCHANGED <<generatedPhases, concept>>
    BY <2>1 DEF StartRun
  <2>4. \A n \in Slots : pc'[n] = IF n = m THEN "template" ELSE "off"
    BY <2>2, <2>3 DEF IInv, TypeOK
  <2>. QED
    BY <2>3, <2>4 DEF IInv, PromiseMatchesRun, Live, EarlierPhasesComplete,
       RunMatchesPhases, Implementing, PlanningHasPhases
<1>. QED
  BY <1>1, <1>2

\* The only live run leaves planning and implementing, with the phases as
\* they are.
LEMMA RunLeaves ==
  ASSUME IInv, NEW m \in Slots, Live(m), NEW k \in {"review", "closing", "rejected"},
         pc' = [pc EXCEPT ![m] = k],
         UNCHANGED <<generationPromise, generatedPhases>>
  PROVE  /\ EarlierPhasesComplete'
         /\ RunMatchesPhases'
         /\ PlanningHasPhases'
<1>1. \A n \in Slots : pc'[n] \in {"off", "review", "closing", "rejected"}
  BY RunMoves DEF IInv, RunPc
<1>. QED
  BY <1>1 DEF IInv, EarlierPhasesComplete, RunMatchesPhases, Implementing,
     PlanningHasPhases

\* Every step of a run keeps the inductive invariant.
LEMMA RunStepKeeps ==
  ASSUME IInv, NEW m \in Slots, RunStep(m)
  PROVE  /\ PromiseMatchesRun'
         /\ EarlierPhasesComplete'
         /\ RunMatchesPhases'
         /\ PlanningHasPhases'
<1>a. /\ TypeOK /\ PromiseMatchesRun /\ EarlierPhasesComplete
      /\ RunMatchesPhases /\ PlanningHasPhases /\ Live(m)
  BY RunStepMoves DEF IInv
<1>b. /\ signal \in SignalsOf /\ Detached(signal, m) \in SignalsOf
      /\ pc \in [Slots -> RunPc] /\ generatedPhases \in Seq(Phase)
      /\ concept \in [Slots -> Concept \union {NoConcept}]
  BY <1>a, SignalHelpers DEF TypeOK, SignalsOf
<1>c. PromiseMatchesRun'
  <2>1. CASE GenerationComplete(m)
    BY <1>a, <1>b, <2>1, NoneAssumption
       DEF GenerationComplete, PromiseMatchesRun, Live
  <2>. QED
    BY <1>a, <2>1, RunStepMoves, RunMoves
<1>1. CASE FetchPendingUserRequests(m)
  <2>a. /\ pc' = [pc EXCEPT ![m] = "genLLM"] /\ "genLLM" \in RunPc \ {"off"}
        /\ generationPromise' = generationPromise
    BY <1>1 DEF FetchPendingUserRequests, RunPc
  <2>b. pc'[m] = "genLLM" /\ \A n \in Slots \ {m} : pc'[n] = "off"
    BY <1>a, <2>a, RunMoves
  <2>1. \A n \in Slots : pc'[n] = IF n = m THEN "genLLM" ELSE "off"
    BY <2>b
  <2>2. pc[m] = "genIssues" /\ UNCHANGED <<generatedPhases, concept>>
    BY <1>1 DEF FetchPendingUserRequests
  <2>3. EarlierPhasesComplete'
    BY <1>a, <2>2 DEF EarlierPhasesComplete
  <2>4. Incomplete = {} /\ Incomplete' = Incomplete /\ generatedPhases # <<>>
    BY <1>a, <2>2 DEF RunMatchesPhases, PlanningHasPhases, Incomplete
  <2>5. RunMatchesPhases'
    BY <2>1, <2>4 DEF RunMatchesPhases, Implementing
  <2>6. PlanningHasPhases'
    BY <2>2, <2>4 DEF PlanningHasPhases
  <2>. QED
    BY <1>c, <2>3, <2>5, <2>6
<1>2. ASSUME NEW c \in Concept, PhaseGenerated(m, c)
      PROVE  EarlierPhasesComplete' /\ RunMatchesPhases' /\ PlanningHasPhases'
  <2>. DEFINE p == [name |-> c.name, lastPhase |-> c.lastPhase, completed |-> FALSE]
              L == Len(generatedPhases)
  <2>1. p \in Phase /\ ~p.completed /\ AsConcept(p) = c
    BY NewPhase
  <2>2. generatedPhases' = Append(generatedPhases, p)
    BY <1>2 DEF PhaseGenerated
  <2>. HIDE DEF p
  <2>3. /\ L \in Nat /\ DOMAIN generatedPhases = 1 .. L
        /\ Len(generatedPhases') = L + 1 /\ DOMAIN generatedPhases' = 1 .. L + 1
        /\ generatedPhases'[L + 1] = p
        /\ \A i \in 1 .. L : generatedPhases'[i] = generatedPhases[i]
        /\ generatedPhases' # <<>>
    BY <1>b, <2>1, <2>2
  <2>b. /\ pc' = [pc EXCEPT ![m] = "implIssues"] /\ "implIssues" \in RunPc \ {"off"}
        /\ generationPromise' = generationPromise
    BY <1>2 DEF PhaseGenerated, RunPc
  <2>c. pc'[m] = "implIssues" /\ \A n \in Slots \ {m} : pc'[n] = "off"
    BY <1>a, <2>b, RunMoves
  <2>4. \A n \in Slots : pc'[n] = IF n = m THEN "implIssues" ELSE "off"
    BY <2>c
  <2>5. concept'[m] = c
    BY <1>b, <1>2 DEF PhaseGenerated
  <2>6. \A i \in 1 .. L : generatedPhases[i].completed
    BY <1>a, <1>2, <2>3 DEF PhaseGenerated, RunMatchesPhases, Incomplete
  <2>7. EarlierPhasesComplete'
    BY <2>3, <2>6 DEF EarlierPhasesComplete
  <2>8. RunMatchesPhases'
    BY <2>1, <2>3, <2>4, <2>5 DEF RunMatchesPhases, Implementing
  <2>9. PlanningHasPhases'
    BY <2>3 DEF PlanningHasPhases
  <2>. QED
    BY <2>7, <2>8, <2>9
<1>3. CASE NoPhaseGenerated(m)
  <2>1. PICK k \in {"closing", "review", "genIssues"} : pc' = [pc EXCEPT ![m] = k]
    BY <1>a, <1>b, <1>3, EnterFinalizingEnters, EnterReviewingEnters
       DEF NoPhaseGenerated, TypeOK, Entered
  <2>2. UNCHANGED <<generationPromise, generatedPhases>>
    BY <1>3 DEF NoPhaseGenerated
  <2>3. \A n \in Slots : pc'[n] = IF n = m THEN k ELSE "off"
    BY <1>a, <2>1, <2>2, RunMoves DEF RunPc
  <2>4. Incomplete = {} /\ generatedPhases # <<>>
    BY <1>a, <1>3 DEF NoPhaseGenerated, RunMatchesPhases, PlanningHasPhases
  <2>. QED
    BY <1>a, <1>c, <2>2, <2>3, <2>4
       DEF EarlierPhasesComplete, RunMatchesPhases, Implementing,
           PlanningHasPhases, Incomplete
<1>4. CASE GenerationFailed(m) \/ ImplementationFailed(m) \/ ReviewDone(m)
  <2>1. PICK k \in {"closing", "review"} : pc' = [pc EXCEPT ![m] = k]
    BY <1>a, <1>b, <1>4, AfterErrorEnters, EnterIdleEnters
       DEF GenerationFailed, ImplementationFailed, ReviewDone, Entered
  <2>2. UNCHANGED <<generationPromise, generatedPhases>>
    BY <1>4 DEF GenerationFailed, ImplementationFailed, ReviewDone
  <2>. QED
    BY <1>a, <1>c, <2>1, <2>2, RunLeaves
<1>5. CASE ImplementPhase(m) \/ DeployPhase(m)
  <2>1. PICK k \in {"implLLM", "implDeploy"} : pc' = [pc EXCEPT ![m] = k]
    BY <1>5 DEF ImplementPhase, DeployPhase
  <2>2. pc[m] \in Implementing
        /\ UNCHANGED <<generationPromise, generatedPhases, concept>>
    BY <1>5 DEF ImplementPhase, DeployPhase, persisted, Implementing
  <2>3. \A n \in Slots : pc'[n] = IF n = m THEN k ELSE "off"
    BY <1>a, <2>1, <2>2, RunMoves DEF RunPc
  <2>. QED
    BY <1>a, <1>c, <2>2, <2>3
       DEF EarlierPhasesComplete, RunMatchesPhases, Implementing, PlanningHasPhases
<1>6. CASE PhaseImplemented(m)
  <2>1. PICK k \in {"closing", "review", "genIssues"} : pc' = [pc EXCEPT ![m] = k]
    BY <1>a, <1>b, <1>6, EnterFinalizingEnters, EnterReviewingEnters,
       EnterGeneratingEnters DEF PhaseImplemented, TypeOK, Entered
  <2>2. generationPromise' = generationPromise
    BY <1>6 DEF PhaseImplemented
  <2>3. \A n \in Slots : pc'[n] = IF n = m THEN k ELSE "off"
    BY <1>a, <2>1, <2>2, RunMoves DEF RunPc
  <2>4. /\ generatedPhases # <<>>
        /\ generatedPhases[Len(generatedPhases)].name = concept[m].name
    BY <1>a, <1>6
       DEF PhaseImplemented, RunMatchesPhases, Implementing, AsConcept
  <2>5. /\ generatedPhases' \in Seq(Phase)
        /\ Len(generatedPhases') = Len(generatedPhases)
        /\ \A i \in DOMAIN generatedPhases' : generatedPhases'[i].completed
    BY <1>a, <1>6, <2>4, MarkCompletesAll DEF PhaseImplemented
  <2>6. Incomplete' = {} /\ generatedPhases' # <<>>
    BY <1>b, <2>4, <2>5 DEF Incomplete
  <2>7. EarlierPhasesComplete'
    BY <2>5 DEF EarlierPhasesComplete
  <2>8. RunMatchesPhases'
    BY <2>3, <2>6 DEF RunMatchesPhases, Implementing
  <2>9. PlanningHasPhases'
    BY <2>6 DEF PlanningHasPhases
  <2>. QED
    BY <1>c, <2>7, <2>8, <2>9
<1>7. CASE GenerationComplete(m)
  <2>1. \A n \in Slots : pc'[n] = "off"
    BY <1>a, <1>b, <1>7 DEF GenerationComplete, PromiseMatchesRun, Live
  <2>. QED
    BY <1>a, <1>c, <1>7, <2>1
       DEF GenerationComplete, EarlierPhasesComplete, RunMatchesPhases,
           Implementing, PlanningHasPhases
<1>8. CASE LaunchStateMachine(m)
  <2>a. generationPromise' = generationPromise
    BY <1>8 DEF LaunchStateMachine
  <2>1. CASE NoBlueprint(m)
    <3>1. pc' = [pc EXCEPT ![m] = "closing"] /\ generatedPhases' = generatedPhases
      BY <2>1 DEF NoBlueprint, EnterIdle
    <3>. QED
      BY <1>a, <1>c, <2>a, <3>1, RunLeaves
  <2>2. CASE Launch(m)
    <3>1. PICK k \in {"implIssues", "genIssues"} : pc' = [pc EXCEPT ![m] = k]
      BY <1>a, <2>2, LaunchTyping
    <3>2. \A n \in Slots : pc'[n] = IF n = m THEN k ELSE "off"
      BY <1>a, <2>a, <3>1, RunMoves DEF RunPc
    <3>3. CASE /\ Incomplete # {}
               /\ generatedPhases # <<>>
               /\ ~generatedPhases[Len(generatedPhases)].completed
               /\ pc' = [pc EXCEPT ![m] = "implIssues"]
               /\ concept' = [concept EXCEPT
                    ![m] = AsConcept(generatedPhases[Len(generatedPhases)])]
               /\ generatedPhases' = generatedPhases
      <4>1. k = "implIssues"
        BY <1>b, <3>1, <3>3
      <4>2. concept'[m] = AsConcept(generatedPhases[Len(generatedPhases)])
        BY <1>b, <3>3
      <4>. QED
        BY <1>a, <1>c, <3>2, <3>3, <4>1, <4>2
           DEF EarlierPhasesComplete, RunMatchesPhases, Implementing, PlanningHasPhases
    <3>4. CASE /\ Incomplete = {} /\ generatedPhases # <<>>
               /\ pc' = [pc EXCEPT ![m] = "genIssues"]
               /\ UNCHANGED <<concept, generatedPhases>>
      <4>1. k = "genIssues"
        BY <1>b, <3>1, <3>4
      <4>. QED
        BY <1>a, <1>c, <3>2, <3>4, <4>1
           DEF EarlierPhasesComplete, RunMatchesPhases, Implementing,
               PlanningHasPhases, Incomplete
    <3>5. ASSUME NEW p \in Phase,
                 ~p.completed,
                 pc' = [pc EXCEPT ![m] = "implIssues"],
                 concept' = [concept EXCEPT ![m] = AsConcept(p)],
                 generatedPhases' = <<p>>
          PROVE  /\ EarlierPhasesComplete'
                 /\ RunMatchesPhases'
                 /\ PlanningHasPhases'
      <4>1. k = "implIssues" /\ concept'[m] = AsConcept(p)
        BY <1>b, <3>1, <3>5
      <4>2. /\ Len(generatedPhases') = 1 /\ DOMAIN generatedPhases' = 1 .. 1
            /\ generatedPhases'[1] = p
            /\ generatedPhases' # <<>>
        BY <3>5
      <4>. QED
        BY <3>2, <3>5, <4>1, <4>2
           DEF EarlierPhasesComplete, RunMatchesPhases, Implementing, PlanningHasPhases
    <3>. QED
      BY <1>a, <1>c, <2>2, <3>3, <3>4, <3>5, LaunchCases
  <2>. QED
    BY <1>8, <2>1, <2>2 DEF LaunchStateMachine
<1>9. CASE TemplateFailed(m)
  <2>1. /\ pc' = [pc EXCEPT ![m] = "rejected"]
        /\ UNCHANGED <<generationPromise, generatedPhases>>
    BY <1>9 DEF TemplateFailed, persisted
  <2>. QED
    BY <1>a, <1>c, <2>1, RunLeaves
<1>. QED
  BY <1>c, <1>1, <1>2, <1>3, <1>4, <1>5, <1>6, <1>7, <1>8, <1>9 DEF RunStep

\* The steps that touch neither the runs nor the phases.
LEMMA QuietStepKeeps ==
  ASSUME IInv, UNCHANGED <<generationPromise, pc, concept, generatedPhases>>
  PROVE  /\ PromiseMatchesRun'
         /\ EarlierPhasesComplete'
         /\ RunMatchesPhases'
         /\ PlanningHasPhases'
BY DEF IInv, PromiseMatchesRun, Live, EarlierPhasesComplete, RunMatchesPhases,
   Incomplete, PlanningHasPhases

\* Every step keeps the inductive invariant.
LEMMA IInvStep == IInv /\ [Next]_vars => IInv'
<1>. SUFFICES ASSUME IInv, [Next]_vars
              PROVE  /\ PromiseMatchesRun'
                     /\ EarlierPhasesComplete'
                     /\ RunMatchesPhases'
                     /\ PlanningHasPhases'
  BY TypeStep DEF IInv
<1>1. CASE \E m \in Slots : RunStep(m)
  BY <1>1, RunStepKeeps
<1>2. ASSUME NEW t \in Turns, TurnStep(t)
      PROVE  \/ GenerateAllFiles("chat")
             \/ UNCHANGED <<generationPromise, pc, concept, generatedPhases>>
  BY <1>2 DEF TurnStep, ProcessUserMessage, QueueRequest, DeepDebug, DebugDone, TurnDone,
     TurnFailed, persisted, runVars
<1>3. ASSUME ClientStep
      PROVE  \/ GenerateAllFiles("GENERATE_ALL") \/ GenerateAllFiles("RESUME")
             \/ UNCHANGED <<generationPromise, pc, concept, generatedPhases>>
  BY <1>3 DEF ClientStep, GenerateAll, ResumeGeneration, StopGeneration,
     UserSuggestion, persisted, runVars
<1>4. ASSUME NEW s \in Starters, GenerateAllFiles(s)
      PROVE  /\ PromiseMatchesRun'
             /\ EarlierPhasesComplete'
             /\ RunMatchesPhases'
             /\ PlanningHasPhases'
  BY <1>4, GenerateAllFilesKeeps
<1>5. CASE Restart
  <2>1. \A m \in Slots : pc'[m] = "off"
    BY <1>5 DEF Restart
  <2>. QED
    BY <1>5, <2>1, NoneAssumption
       DEF Restart, IInv, PromiseMatchesRun, Live, EarlierPhasesComplete,
           RunMatchesPhases, Implementing, PlanningHasPhases, persisted
<1>6. CASE UNCHANGED vars
  BY <1>6, QuietStepKeeps DEF vars, persisted, runVars
<1>7. "chat" \in Starters /\ "GENERATE_ALL" \in Starters /\ "RESUME" \in Starters
  BY DEF Starters
<1>8. CASE \E t \in Turns : TurnStep(t)
  BY <1>2, <1>4, <1>7, <1>8, QuietStepKeeps
<1>9. CASE ClientStep
  BY <1>3, <1>4, <1>7, <1>9, QuietStepKeeps
<1>. QED
  BY <1>1, <1>5, <1>6, <1>8, <1>9 DEF Next

\* The initial states satisfy the inductive invariant.
LEMMA IInvInit == Init => IInv
<1>. SUFFICES ASSUME Init PROVE IInv
  OBVIOUS
<1>1. TypeOK
  <2>1. /\ pendingUserInputs \in Seq(Requests) /\ generatedPhases \in Seq(Phase)
        /\ context \in [Slots -> Seq(Requests)]
    BY DEF Init
  <2>2. /\ pc \in [Slots -> RunPc] /\ starter \in [Slots -> Starters]
        /\ turn \in [Turns -> TurnPc] /\ signal \in [Slots \union Turns -> Signals]
        /\ concept \in [Slots -> Concept \union {NoConcept}]
        /\ final \in [Slots -> BOOLEAN]
    BY DEF Init, RunPc, TurnPc, Signals, Starters
  <2>3. messages \in 0 .. MaxMessages /\ faulty \in BOOLEAN /\ phasesCounter \in Int
        /\ phasesCounter <= MaxPhases
    BY BudgetAssumption, BoundAssumption DEF Init
  <2>. QED
    BY <2>1, <2>2, <2>3 DEF Init, TypeOK
<1>. QED
  BY <1>1, NoneAssumption
     DEF Init, IInv, PromiseMatchesRun, Live, EarlierPhasesComplete,
         RunMatchesPhases, Implementing, PlanningHasPhases

\* Only the end of planning and the end of implementing declare the MVP, and
\* each leaves every phase complete.
LEMMA MvpStep ==
  ASSUME IInv, [Next]_vars, ~mvpGenerated, mvpGenerated'
  PROVE  generatedPhases' # <<>> /\ Incomplete' = {}
<1>a. TypeOK /\ RunMatchesPhases /\ PlanningHasPhases /\ EarlierPhasesComplete
      /\ generatedPhases \in Seq(Phase)
  BY DEF IInv, TypeOK
<1>1. ASSUME NEW m \in Slots, RunStep(m)
      PROVE  generatedPhases' # <<>> /\ Incomplete' = {}
  <2>a. signal \in SignalsOf /\ Detached(signal, m) \in SignalsOf
    BY <1>a, SignalHelpers DEF TypeOK, SignalsOf
  <2>1. CASE NoPhaseGenerated(m)
    BY <1>a, <2>1 DEF NoPhaseGenerated, RunMatchesPhases, PlanningHasPhases,
       Incomplete
  <2>2. CASE PhaseImplemented(m)
    <3>1. /\ generatedPhases # <<>>
          /\ generatedPhases[Len(generatedPhases)].name = concept[m].name
      BY <1>a, <2>2
         DEF PhaseImplemented, RunMatchesPhases, Implementing, AsConcept
    <3>2. /\ generatedPhases' \in Seq(Phase)
          /\ Len(generatedPhases') = Len(generatedPhases)
          /\ \A i \in DOMAIN generatedPhases' : generatedPhases'[i].completed
      BY <1>a, <2>2, <3>1, MarkCompletesAll DEF PhaseImplemented
    <3>. QED
      BY <1>a, <3>1, <3>2 DEF Incomplete
  <2>3. CASE GenerationFailed(m) \/ ImplementationFailed(m) \/ ReviewDone(m)
    <3>1. mvpGenerated' = mvpGenerated
      BY <1>a, <2>a, <2>3, AfterErrorEnters, EnterIdleEnters
         DEF GenerationFailed, ImplementationFailed, ReviewDone
    <3>. QED
      BY <3>1
  <2>4. CASE FetchPendingUserRequests(m) \/ ImplementPhase(m) \/ DeployPhase(m)
             \/ GenerationComplete(m) \/ \E c \in Concept : PhaseGenerated(m, c)
    <3>1. mvpGenerated' = mvpGenerated
      BY <2>4 DEF FetchPendingUserRequests, ImplementPhase, DeployPhase,
         GenerationComplete, PhaseGenerated, persisted
    <3>. QED
      BY <3>1
  <2>5. CASE LaunchStateMachine(m) \/ TemplateFailed(m)
    <3>1. mvpGenerated' = mvpGenerated
      BY <2>5 DEF LaunchStateMachine, Launch, NoBlueprint, EnterIdle, TemplateFailed,
         persisted
    <3>. QED
      BY <3>1
  <2>. QED
    BY <1>1, <2>1, <2>2, <2>3, <2>4, <2>5 DEF RunStep
<1>2. ASSUME NEW s, GenerateAllFiles(s) PROVE mvpGenerated' = mvpGenerated
  BY <1>2 DEF GenerateAllFiles, StartRun
<1>3. CASE \E t \in Turns : TurnStep(t)
  <2>1. mvpGenerated' = mvpGenerated
    BY <1>2, <1>3 DEF TurnStep, ProcessUserMessage, QueueRequest, DeepDebug, DebugDone, TurnDone,
       TurnFailed, persisted
  <2>. QED
    BY <2>1
<1>4. CASE ClientStep
  <2>1. mvpGenerated' = mvpGenerated
    BY <1>2, <1>4 DEF ClientStep, GenerateAll, ResumeGeneration, StopGeneration,
       UserSuggestion, persisted
  <2>. QED
    BY <2>1
<1>5. CASE Restart \/ UNCHANGED vars
  BY <1>5 DEF Restart, vars, persisted
<1>. QED
  BY <1>1, <1>3, <1>4, <1>5 DEF Next

-----------------------------------------------------------------------------
(* The theorems.                                                           *)

\* The inductive invariant holds in every reachable state.
THEOREM InductiveInvariant == Spec => []IInv
<1>. QED
  BY IInvInit, IInvStep, PTL DEF Spec

\* Every reachable state is well typed.
THEOREM TypeCorrectness == Spec => []TypeOK
<1>1. IInv => TypeOK
  BY DEF IInv
<1>. QED
  BY <1>1, InductiveInvariant, PTL

\* generationPromise names exactly the run that is alive: buildWrapper never
\* runs twice at a time, whatever messages and turns start it.
THEOREM OneRunAtATime == Spec => []PromiseMatchesRun
<1>1. IInv => PromiseMatchesRun
  BY DEF IInv
<1>. QED
  BY <1>1, InductiveInvariant, PTL

\* Resuming after a failure, a stop or a restart never skips a phase.
THEOREM ResumeSkipsNothing == Spec => []EarlierPhasesComplete
<1>1. IInv => EarlierPhasesComplete
  BY DEF IInv
<1>. QED
  BY <1>1, InductiveInvariant, PTL

\* A run always implements the newest phase, which is incomplete, and plans
\* only with none incomplete.
THEOREM RunsMatchPhases == Spec => []RunMatchesPhases
<1>1. IInv => RunMatchesPhases
  BY DEF IInv
<1>. QED
  BY <1>1, InductiveInvariant, PTL

\* The MVP is declared only when every phase generated so far is complete.
THEOREM MvpOnlyWhenComplete == Spec => MvpWhenComplete
<1>1. IInv /\ [Next]_vars
        => [~mvpGenerated /\ mvpGenerated'
              => generatedPhases' # <<>> /\ Incomplete' = {}]_vars
  BY MvpStep
<1>. QED
  BY <1>1, InductiveInvariant, PTL DEF Spec, MvpWhenComplete

-----------------------------------------------------------------------------
(* The agent implements PhaseLedger: its initial states are the ledger's,  *)
(* and each of its steps is one of the ledger's or leaves it alone.        *)

\* The agent's side of the ledger.
ledger == <<generatedPhases, mvpGenerated>>

\* Entering the next state never takes the declaration of the MVP back.
LEMMA EnteringKeepsMvp ==
  ASSUME TypeOK, NEW m \in Slots, NEW s \in SignalsOf,
         \/ EnterIdle(m, s) \/ EnterGenerating(m, s) \/ EnterFinalizing(m, s)
         \/ EnterReviewing(m, s, mvpGenerated)
  PROVE  mvpGenerated' \in {mvpGenerated, TRUE}
<1>1. CASE EnterIdle(m, s) \/ EnterGenerating(m, s)
  <2>1. mvpGenerated' = mvpGenerated
    BY <1>1 DEF EnterIdle, EnterGenerating
  <2>. QED
    BY <2>1
<1>2. CASE EnterReviewing(m, s, mvpGenerated)
  <2>1. mvpGenerated' = mvpGenerated
    BY <1>2, EnterReviewingEnters DEF TypeOK
  <2>. QED
    BY <2>1
<1>3. CASE EnterFinalizing(m, s)
  <2>1. CASE mvpGenerated
    BY <1>3, <2>1 DEF EnterFinalizing
  <2>2. CASE ~mvpGenerated
    BY <1>3, <2>2 DEF EnterFinalizing, EnterReviewing
  <2>. QED
    BY <2>1, <2>2
<1>. QED
  BY <1>1, <1>2, <1>3

\* With nothing but the newest phase open, completing by name completes that
\* phase and changes no other.
LEMMA MarkCompletesNewest ==
  ASSUME TypeOK, EarlierPhasesComplete, generatedPhases # <<>>, NEW n,
         generatedPhases[Len(generatedPhases)].name = n
  PROVE  MarkPhaseComplete(generatedPhases, n) =
           [generatedPhases EXCEPT ![Len(generatedPhases)].completed = TRUE]
<1>. DEFINE L == Len(generatedPhases)
            marked == MarkPhaseComplete(generatedPhases, n)
            newest == [generatedPhases[L] EXCEPT !.completed = TRUE]
<1>1. /\ generatedPhases \in Seq(Phase) /\ L \in Nat /\ L \in 1 .. L
      /\ DOMAIN generatedPhases = 1 .. L
      /\ generatedPhases = [i \in 1 .. L |-> generatedPhases[i]]
  BY DEF TypeOK
<1>2. \A i \in 1 .. L : generatedPhases[i] \in Phase
  BY <1>1
<1>3. \A p \in Phase : p.completed => [p EXCEPT !.completed = TRUE] = p
  BY DEF Phase
<1>4. marked = [i \in 1 .. L |-> IF generatedPhases[i].name = n
                THEN [generatedPhases[i] EXCEPT !.completed = TRUE]
                ELSE generatedPhases[i]]
  BY <1>1 DEF MarkPhaseComplete
<1>5. ASSUME NEW i \in 1 .. L
      PROVE  marked[i] = IF i = L THEN newest ELSE generatedPhases[i]
  <2>1. CASE i = L
    BY <1>4, <2>1
  <2>2. CASE i # L
    <3>1. generatedPhases[i].completed
      BY <1>1, <2>2 DEF EarlierPhasesComplete
    <3>2. [generatedPhases[i] EXCEPT !.completed = TRUE] = generatedPhases[i]
      BY <1>2, <1>3, <3>1
    <3>. QED
      BY <1>4, <2>2, <3>2
  <2>. QED
    BY <2>1, <2>2
<1>6. marked = [i \in 1 .. L |-> IF i = L THEN newest ELSE generatedPhases[i]]
  <2>. HIDE DEF newest
  <2>. QED
    BY <1>4, <1>5 DEF marked
<1>7. [generatedPhases EXCEPT ![L] = newest]
        = [i \in 1 .. L |-> IF i = L THEN newest ELSE generatedPhases[i]]
  <2>. HIDE DEF newest
  <2>. QED
    BY <1>1
<1>. QED
  BY <1>6, <1>7

-----------------------------------------------------------------------------
(* The steps that change the ledger.                                       *)

\* The blueprint's initial phase opens the ledger; a resumed run, and one
\* without a blueprint, leave it.
LEMMA LaunchImplements ==
  ASSUME IInv, NEW m \in Slots, LaunchStateMachine(m)
  PROVE  [Ledger!Next]_ledger
<1>1. TypeOK /\ EarlierPhasesComplete /\ mvpGenerated' = mvpGenerated
  BY DEF IInv, LaunchStateMachine, Launch, NoBlueprint, EnterIdle
<1>2. CASE generatedPhases' = generatedPhases
  BY <1>1, <1>2 DEF ledger
<1>3. CASE generatedPhases' # generatedPhases
  <2>1. Launch(m)
    BY <1>3 DEF LaunchStateMachine, NoBlueprint
  <2>2. PICK p \in Phase : /\ generatedPhases = <<>> /\ ~p.completed
                           /\ generatedPhases' = <<p>>
    BY <1>1, <1>3, <2>1, LaunchCases
  <2>3. /\ p = [name |-> p.name, lastPhase |-> p.lastPhase, completed |-> FALSE]
        /\ p.name \in Names /\ p.lastPhase \in BOOLEAN
    BY <2>2 DEF Phase
  <2>4. generatedPhases' = Append(generatedPhases, p)
    BY <2>2
  <2>5. Ledger!NoneOpen
    BY <2>2 DEF Ledger!NoneOpen
  <2>6. Ledger!Open(p.name, p.lastPhase)
    BY <1>1, <2>3, <2>4, <2>5 DEF Ledger!Open
  <2>. QED
    BY <2>3, <2>6 DEF Ledger!Next
<1>. QED
  BY <1>2, <1>3

\* A planned phase opens: a run plans only when no phase is open.
LEMMA PlanImplements ==
  ASSUME IInv, NEW m \in Slots, NEW c \in Concept, PhaseGenerated(m, c)
  PROVE  [Ledger!Next]_ledger
<1>1. Ledger!NoneOpen
  BY DEF IInv, RunMatchesPhases, PhaseGenerated, Incomplete, Ledger!NoneOpen
<1>2. c.name \in Names /\ c.lastPhase \in BOOLEAN
  BY DEF Concept
<1>3. Ledger!Open(c.name, c.lastPhase)
  BY <1>1 DEF PhaseGenerated, Ledger!Open
<1>. QED
  BY <1>2, <1>3 DEF Ledger!Next

\* The implemented phase is the open one; the MVP may be declared with it.
LEMMA ImplementedImplements ==
  ASSUME IInv, NEW m \in Slots, PhaseImplemented(m)
  PROVE  [Ledger!Next]_ledger
<1>1. TypeOK /\ EarlierPhasesComplete /\ signal \in SignalsOf
  BY DEF IInv, TypeOK, SignalsOf
<1>2. /\ generatedPhases # <<>>
      /\ ~generatedPhases[Len(generatedPhases)].completed
      /\ generatedPhases[Len(generatedPhases)].name = concept[m].name
  BY DEF IInv, PhaseImplemented, RunMatchesPhases, Implementing, AsConcept
<1>3. generatedPhases' = [generatedPhases EXCEPT ![Len(generatedPhases)].completed = TRUE]
  BY <1>1, <1>2, MarkCompletesNewest DEF PhaseImplemented
<1>4. mvpGenerated' \in {mvpGenerated, TRUE}
  BY <1>1, EnteringKeepsMvp DEF PhaseImplemented
<1>. QED
  BY <1>2, <1>3, <1>4 DEF Ledger!Next, Ledger!Complete

\* A planning run that finds nothing left may declare the MVP.
LEMMA NothingLeftImplements ==
  ASSUME IInv, NEW m \in Slots, NoPhaseGenerated(m)
  PROVE  [Ledger!Next]_ledger
<1>1. TypeOK /\ Detached(signal, m) \in SignalsOf
  BY SignalHelpers DEF IInv, TypeOK, SignalsOf
<1>2. mvpGenerated' \in {mvpGenerated, TRUE} /\ generatedPhases' = generatedPhases
  BY <1>1, EnteringKeepsMvp DEF NoPhaseGenerated
<1>3. generatedPhases # <<>> /\ Ledger!NoneOpen
  BY DEF IInv, RunMatchesPhases, PlanningHasPhases, NoPhaseGenerated, Incomplete,
     Ledger!NoneOpen
<1>4. CASE mvpGenerated' = mvpGenerated
  BY <1>2, <1>4 DEF ledger
<1>5. CASE mvpGenerated' # mvpGenerated
  <2>1. Ledger!Declare
    BY <1>1, <1>2, <1>3, <1>5 DEF Ledger!Declare, TypeOK
  <2>. QED
    BY <2>1 DEF Ledger!Next
<1>. QED
  BY <1>4, <1>5

-----------------------------------------------------------------------------
(* The refinement.                                                         *)

\* Every step of the agent is a step of the ledger or leaves it alone.
LEMMA StepImplements == IInv /\ [Next]_vars => [Ledger!Next]_ledger
<1>. SUFFICES ASSUME IInv, [Next]_vars PROVE [Ledger!Next]_ledger
  OBVIOUS
<1>1. ASSUME NEW m \in Slots, RunStep(m) PROVE [Ledger!Next]_ledger
  <2>a. TypeOK /\ signal \in SignalsOf /\ Detached(signal, m) \in SignalsOf
    BY SignalHelpers DEF IInv, TypeOK, SignalsOf
  <2>1. CASE GenerationFailed(m) \/ ImplementationFailed(m) \/ ReviewDone(m)
    BY <2>a, <2>1, AfterErrorEnters, EnterIdleEnters
       DEF GenerationFailed, ImplementationFailed, ReviewDone, ledger
  <2>2. CASE FetchPendingUserRequests(m) \/ ImplementPhase(m) \/ DeployPhase(m)
             \/ GenerationComplete(m) \/ TemplateFailed(m)
    BY <2>2 DEF FetchPendingUserRequests, ImplementPhase, DeployPhase,
       GenerationComplete, TemplateFailed, persisted, ledger
  <2>. QED
    BY <1>1, <2>1, <2>2, LaunchImplements, PlanImplements, ImplementedImplements,
       NothingLeftImplements DEF RunStep
<1>a. ASSUME NEW s, GenerateAllFiles(s) PROVE UNCHANGED ledger
  BY <1>a DEF GenerateAllFiles, StartRun, ledger
<1>2. ASSUME NEW t \in Turns, TurnStep(t) PROVE [Ledger!Next]_ledger
  <2>1. CASE TurnDone(t)
    BY <1>a, <2>1 DEF TurnDone
  <2>2. CASE ~TurnDone(t)
    BY <1>2, <2>2 DEF TurnStep, ProcessUserMessage, QueueRequest, DeepDebug,
       DebugDone, TurnFailed, persisted, ledger
  <2>. QED
    BY <2>1, <2>2
<1>3. CASE ClientStep
  <2>1. CASE GenerateAll \/ ResumeGeneration
    BY <1>a, <2>1 DEF GenerateAll, ResumeGeneration
  <2>2. CASE StopGeneration \/ \E t \in Turns : UserSuggestion(t)
    BY <2>2 DEF StopGeneration, UserSuggestion, persisted, ledger
  <2>. QED
    BY <1>3, <2>1, <2>2 DEF ClientStep
<1>4. CASE Restart \/ UNCHANGED vars
  BY <1>4 DEF Restart, vars, persisted, ledger
<1>. QED
  BY <1>1, <1>2, <1>3, <1>4 DEF Next

\* The agent implements the ledger: through every interleaving of clients,
\* turns and runs, every failure, stop and restart, the persisted phases only
\* move forward and the MVP is declared over complete phases.
THEOREM AgentImplementsLedger == Spec => ImplementsLedger
<1>1. Init => Ledger!Init
  BY DEF Init, Ledger!Init
<1>2. IInv /\ [Next]_vars => [Ledger!Next]_<<generatedPhases, mvpGenerated>>
  BY StepImplements DEF ledger
<1>. QED
  BY <1>1, <1>2, InductiveInvariant, PTL DEF Spec, ImplementsLedger, Ledger!Spec

-----------------------------------------------------------------------------
(* No modification request is lost unaccounted or planned twice, for any   *)
(* number of runs, turns and requests.                                     *)

Taken(m) == Range(context[m])
Ended    == handed \union dropped

\* A request is pending once, or with one run, or ended in one way.
Apart ==
  /\ \A i, j \in 1 .. Len(pendingUserInputs) :
       pendingUserInputs[i] = pendingUserInputs[j] => i = j
  /\ \A m \in Slots : Taken(m) \intersect Range(pendingUserInputs) = {}
  /\ \A m, n \in Slots : m # n => Taken(m) \intersect Taken(n) = {}
  /\ \A m \in Slots : Taken(m) \intersect Ended = {}
  /\ Ended \intersect Range(pendingUserInputs) = {}
  /\ handed \intersect dropped = {}

\* A request the queue was given is somewhere, and no other is anywhere.
Accounted ==
  \A r \in Requests :
    r \in submitted
      <=> r \in Range(pendingUserInputs) \/ r \in Ended \/ \E m \in Slots : r \in Taken(m)

InOnePlace == Apart /\ Accounted

\* A run that fetches requests overwrites none it still holds.
ContextWhilePlanning == \A m \in Slots : pc[m] = "genLLM" \/ context[m] = <<>>

\* Nothing is taken, ended or queued.
LEMMA ApartKept ==
  ASSUME InOnePlace, UNCHANGED <<pendingUserInputs, context, submitted, handed, dropped>>
  PROVE  InOnePlace'
BY DEF InOnePlace, Apart, Accounted, Taken, Ended

LEMMA EmptyRange == Range(<<>>) = {}
BY DEF Range

\* A run's requests end, one way or the other.
LEMMA ApartEnded ==
  ASSUME InOnePlace, TypeOK, NEW m \in Slots, context' = [context EXCEPT ![m] = <<>>],
         pendingUserInputs' = pendingUserInputs, submitted' = submitted,
         \/ handed' = handed \union Range(context[m]) /\ dropped' = dropped
         \/ handed' = handed /\ dropped' = dropped \union Range(context[m])
  PROVE  InOnePlace'
<1>1. Taken(m)' = {} /\ \A n \in Slots : n # m => Taken(n)' = Taken(n)
  BY EmptyRange DEF Taken, TypeOK
<1>2. Ended' = Ended \union Taken(m) BY DEF Ended, Taken
<1>3. handed' \intersect dropped' = {} BY DEF InOnePlace, Apart, Ended, Taken
<1>4. \A n \in Slots : Taken(n)' \intersect Range(pendingUserInputs') = {}
  BY <1>1 DEF InOnePlace, Apart
<1>5. \A k, n \in Slots : k # n => Taken(k)' \intersect Taken(n)' = {}
  BY <1>1 DEF InOnePlace, Apart
<1>6. \A n \in Slots : Taken(n)' \intersect Ended' = {} BY <1>1, <1>2 DEF InOnePlace, Apart
<1>7. Ended' \intersect Range(pendingUserInputs') = {} BY <1>2 DEF InOnePlace, Apart
<1>8. ASSUME NEW r \in Requests
      PROVE  r \in submitted' <=> \/ r \in Range(pendingUserInputs') \/ r \in Ended'
                                 \/ \E n \in Slots : r \in Taken(n)'
  BY <1>1, <1>2 DEF InOnePlace, Accounted
<1> QED BY <1>3, <1>4, <1>5, <1>6, <1>7, <1>8 DEF InOnePlace, Apart, Accounted

\* Everything pending moves to one run.
LEMMA ApartFetched ==
  ASSUME InOnePlace, ContextWhilePlanning, TypeOK, NEW m \in Slots,
         FetchPendingUserRequests(m)
  PROVE  InOnePlace'
<1>1. /\ context' = [context EXCEPT ![m] = pendingUserInputs]
      /\ pendingUserInputs' = <<>> /\ UNCHANGED <<submitted, handed, dropped>>
  BY DEF FetchPendingUserRequests, history
<1>2. /\ Taken(m)' = Range(pendingUserInputs)
      /\ \A n \in Slots : n # m => Taken(n)' = Taken(n)
  BY <1>1 DEF Taken, TypeOK
<1>3. Ended' = Ended /\ Range(pendingUserInputs') = {} BY <1>1, EmptyRange DEF Ended
<1>4. \A i, j \in 1 .. Len(pendingUserInputs') : FALSE BY <1>1
<1>5. \A k, n \in Slots : k # n => Taken(k)' \intersect Taken(n)' = {}
  BY <1>2 DEF InOnePlace, Apart
<1>6. \A n \in Slots : Taken(n)' \intersect Ended' = {} BY <1>2, <1>3 DEF InOnePlace, Apart
<1>7. ASSUME NEW r \in Requests
      PROVE  r \in submitted' <=> \/ r \in Range(pendingUserInputs') \/ r \in Ended'
                                 \/ \E n \in Slots : r \in Taken(n)'
  <2>1. Taken(m) = {} BY EmptyRange DEF Taken, ContextWhilePlanning, FetchPendingUserRequests
  <2> QED BY <1>1, <1>2, <1>3, <2>1 DEF InOnePlace, Accounted
<1> QED BY <1>1, <1>3, <1>4, <1>5, <1>6, <1>7 DEF InOnePlace, Apart, Accounted

\* A request that is queued was nowhere before.
LEMMA ApartQueued ==
  ASSUME InOnePlace, TypeOK, NEW t \in Turns, NEW r \in Requests, QueueRequest(t, r)
  PROVE  InOnePlace'
<1>1. /\ pendingUserInputs' = Append(pendingUserInputs, r)
      /\ UNCHANGED <<context, handed, dropped>>
      /\ r \notin submitted /\ submitted' = submitted \union {r}
  BY DEF QueueRequest, runVars, history
<1>2. /\ r \notin Range(pendingUserInputs) /\ r \notin Ended
      /\ \A m \in Slots : r \notin Taken(m)
  BY <1>1 DEF InOnePlace, Accounted
<1>3. pendingUserInputs \in Seq(Requests) BY DEF TypeOK
<1>4. /\ Len(pendingUserInputs) \in Nat
      /\ Len(pendingUserInputs') = Len(pendingUserInputs) + 1
      /\ pendingUserInputs'[Len(pendingUserInputs) + 1] = r
      /\ \A i \in 1 .. Len(pendingUserInputs) : pendingUserInputs'[i] = pendingUserInputs[i]
      /\ DOMAIN pendingUserInputs = 1 .. Len(pendingUserInputs)
      /\ DOMAIN pendingUserInputs' = 1 .. Len(pendingUserInputs')
  BY <1>1, <1>3
<1>5. \A i \in 1 .. Len(pendingUserInputs) : pendingUserInputs[i] # r
  BY <1>2, <1>4 DEF Range
<1>6. Range(pendingUserInputs') = Range(pendingUserInputs) \union {r}
  <2>1. \A i \in 1 .. Len(pendingUserInputs') :
          i \in 1 .. Len(pendingUserInputs) \/ i = Len(pendingUserInputs) + 1
    BY <1>4
  <2>2. Len(pendingUserInputs) + 1 \in 1 .. Len(pendingUserInputs')
        /\ \A i \in 1 .. Len(pendingUserInputs) : i \in 1 .. Len(pendingUserInputs')
    BY <1>4
  <2> QED BY <2>1, <2>2, <1>4 DEF Range
<1>7. ASSUME NEW i \in 1 .. Len(pendingUserInputs'), NEW j \in 1 .. Len(pendingUserInputs'),
             pendingUserInputs'[i] = pendingUserInputs'[j]
      PROVE  i = j
  <2>1. /\ i \in 1 .. Len(pendingUserInputs) \/ i = Len(pendingUserInputs) + 1
        /\ j \in 1 .. Len(pendingUserInputs) \/ j = Len(pendingUserInputs) + 1
    BY <1>4
  <2> QED BY <2>1, <1>4, <1>5, <1>7 DEF InOnePlace, Apart
<1>8. Ended' = Ended /\ \A m \in Slots : Taken(m)' = Taken(m) BY <1>1 DEF Ended, Taken
<1>9. Accounted' BY <1>1, <1>6, <1>8 DEF InOnePlace, Accounted
<1>10. Apart' BY <1>1, <1>2, <1>6, <1>7, <1>8 DEF InOnePlace, Apart
<1> QED BY <1>9, <1>10 DEF InOnePlace

\* A restart throws away what the runs had taken.
LEMMA ApartRestarted == ASSUME InOnePlace, TypeOK, Restart PROVE InOnePlace'
<1>1. /\ context' = [m \in Slots |-> <<>>] /\ UNCHANGED <<pendingUserInputs, submitted, handed>>
      /\ dropped' = dropped \union UNION {Taken(m) : m \in Slots}
  BY DEF Restart, persisted, Taken
<1>2. \A m \in Slots : Taken(m)' = {} BY <1>1, EmptyRange DEF Taken
<1>3. /\ handed' \intersect dropped' = {}
      /\ Ended' \intersect Range(pendingUserInputs') = {}
  BY <1>1 DEF InOnePlace, Apart, Ended
<1>4. Accounted' BY <1>1, <1>2 DEF InOnePlace, Accounted, Ended
<1> QED BY <1>1, <1>2, <1>3, <1>4 DEF InOnePlace, Apart

\* A run overwrites no context: it holds requests only while it plans.
LEMMA ContextStep == IInv /\ ContextWhilePlanning /\ [Next]_vars => ContextWhilePlanning'
<1> SUFFICES ASSUME IInv, ContextWhilePlanning, [Next]_vars PROVE ContextWhilePlanning' OBVIOUS
<1>a. TypeOK BY DEF IInv
<1>b. ASSUME NEW m \in Slots, NEW k, pc' = [pc EXCEPT ![m] = k], pc[m] # "genLLM",
             context' = context
      PROVE  ContextWhilePlanning'
  BY <1>a, <1>b DEF TypeOK, ContextWhilePlanning
<1>1. ASSUME NEW m \in Slots, RunStep(m) PROVE ContextWhilePlanning'
  <2>1. PICK k : pc' = [pc EXCEPT ![m] = k] BY <1>1, RunStepMoves DEF GenerationComplete
  <2>2. CASE FetchPendingUserRequests(m)
    BY <1>a, <2>2 DEF FetchPendingUserRequests, TypeOK, ContextWhilePlanning
  <2>3. CASE NoPhaseGenerated(m) \/ GenerationFailed(m) \/ \E c \in Concept : PhaseGenerated(m, c)
    <3>1. context' = [context EXCEPT ![m] = <<>>]
      BY <2>3 DEF NoPhaseGenerated, GenerationFailed, PhaseGenerated
    <3> QED BY <1>a, <2>1, <3>1 DEF TypeOK, ContextWhilePlanning
  <2>4. CASE ImplementPhase(m) \/ DeployPhase(m) \/ PhaseImplemented(m)
             \/ ImplementationFailed(m) \/ ReviewDone(m) \/ GenerationComplete(m)
             \/ LaunchStateMachine(m) \/ TemplateFailed(m)
    <3>1. pc[m] # "genLLM" /\ context' = context
      BY <2>4 DEF ImplementPhase, DeployPhase, PhaseImplemented, ImplementationFailed,
         ReviewDone, GenerationComplete, LaunchStateMachine, TemplateFailed
    <3> QED BY <1>b, <2>1, <3>1
  <2> QED BY <1>1, <2>2, <2>3, <2>4 DEF RunStep
<1>2. CASE UNCHANGED <<pc, context>> BY <1>2 DEF ContextWhilePlanning
<1>3. ASSUME NEW s, GenerateAllFiles(s) PROVE ContextWhilePlanning'
  <2>1. CASE UNCHANGED <<pc, context>> BY <1>2, <2>1
  <2>2. ASSUME NEW m \in Slots, StartRun(m, s) PROVE ContextWhilePlanning'
    BY <1>b, <2>2 DEF StartRun, Live
  <2> QED BY <1>3, <2>1, <2>2 DEF GenerateAllFiles, runVars
<1>4. ASSUME NEW t \in Turns, TurnStep(t)
      PROVE  GenerateAllFiles("chat") \/ UNCHANGED <<pc, context>>
  BY <1>4 DEF TurnStep, ProcessUserMessage, QueueRequest, DeepDebug, DebugDone, TurnDone,
     TurnFailed, runVars
<1>5. ASSUME ClientStep
      PROVE  \/ GenerateAllFiles("GENERATE_ALL") \/ GenerateAllFiles("RESUME")
             \/ UNCHANGED <<pc, context>>
  BY <1>5 DEF ClientStep, GenerateAll, ResumeGeneration, StopGeneration, UserSuggestion,
     runVars
<1>6. CASE Restart BY <1>6 DEF Restart, ContextWhilePlanning
<1>7. CASE UNCHANGED vars BY <1>2, <1>7 DEF vars, runVars
<1>8. CASE \E t \in Turns : TurnStep(t) BY <1>2, <1>3, <1>4, <1>8
<1>9. CASE ClientStep BY <1>2, <1>3, <1>5, <1>9
<1> QED BY <1>1, <1>6, <1>7, <1>8, <1>9 DEF Next

LEMMA ApartStep == TypeOK /\ InOnePlace /\ ContextWhilePlanning /\ [Next]_vars => InOnePlace'
<1> SUFFICES ASSUME TypeOK, InOnePlace, ContextWhilePlanning, [Next]_vars PROVE InOnePlace' OBVIOUS
<1>1. ASSUME NEW m \in Slots, RunStep(m) PROVE InOnePlace'
  <2>1. CASE FetchPendingUserRequests(m) BY <2>1, ApartFetched
  <2>2. ASSUME NEW c \in Concept, PhaseGenerated(m, c) PROVE InOnePlace'
    <3>1. /\ context' = [context EXCEPT ![m] = <<>>] /\ pendingUserInputs' = pendingUserInputs
          /\ handed' = handed \union Range(context[m]) /\ dropped' = dropped
          /\ submitted' = submitted
      BY <2>2 DEF PhaseGenerated
    <3> QED BY <3>1, ApartEnded
  <2>3. CASE NoPhaseGenerated(m) \/ GenerationFailed(m)
    <3>1. /\ context' = [context EXCEPT ![m] = <<>>] /\ pendingUserInputs' = pendingUserInputs
          /\ handed' = handed /\ dropped' = dropped \union Range(context[m])
          /\ submitted' = submitted
      BY <2>3 DEF NoPhaseGenerated, GenerationFailed
    <3> QED BY <3>1, ApartEnded
  <2>4. CASE ImplementPhase(m) \/ DeployPhase(m) \/ PhaseImplemented(m)
             \/ ImplementationFailed(m) \/ ReviewDone(m) \/ GenerationComplete(m)
             \/ LaunchStateMachine(m) \/ TemplateFailed(m)
    <3>1. UNCHANGED <<pendingUserInputs, context, submitted, handed, dropped>>
      BY <2>4 DEF ImplementPhase, DeployPhase, PhaseImplemented, ImplementationFailed,
         ReviewDone, GenerationComplete, LaunchStateMachine, TemplateFailed, persisted,
         history
    <3> QED BY <3>1, ApartKept
  <2> QED BY <1>1, <2>1, <2>2, <2>3, <2>4 DEF RunStep
<1>2. ASSUME NEW s, GenerateAllFiles(s)
      PROVE  UNCHANGED <<pendingUserInputs, context, submitted, handed, dropped>>
  BY <1>2 DEF GenerateAllFiles, StartRun, runVars, history
<1>3. ASSUME NEW t \in Turns, TurnStep(t) PROVE InOnePlace'
  <2>1. ASSUME NEW r \in Requests, QueueRequest(t, r) PROVE InOnePlace' BY <2>1, ApartQueued
  <2>2. CASE ProcessUserMessage(t) \/ DeepDebug(t) \/ DebugDone(t) \/ TurnDone(t) \/ TurnFailed(t)
    <3>1. UNCHANGED <<pendingUserInputs, context, submitted, handed, dropped>>
      BY <1>2, <2>2 DEF ProcessUserMessage, DeepDebug, DebugDone, TurnDone, TurnFailed,
         persisted, runVars, history
    <3> QED BY <3>1, ApartKept
  <2> QED BY <1>3, <2>1, <2>2 DEF TurnStep
<1>4. CASE ClientStep
  <2>1. UNCHANGED <<pendingUserInputs, context, submitted, handed, dropped>>
    BY <1>2, <1>4 DEF ClientStep, GenerateAll, ResumeGeneration, StopGeneration,
       UserSuggestion, persisted, runVars, history
  <2> QED BY <2>1, ApartKept
<1>5. CASE Restart BY <1>5, ApartRestarted
<1>6. CASE UNCHANGED vars
  <2>1. UNCHANGED <<pendingUserInputs, context, submitted, handed, dropped>>
    BY <1>6 DEF vars, persisted, runVars, history
  <2> QED BY <2>1, ApartKept
<1> QED BY <1>1, <1>3, <1>4, <1>5, <1>6 DEF Next

LEMMA ApartInit == Init => InOnePlace /\ ContextWhilePlanning
<1> SUFFICES ASSUME Init PROVE InOnePlace /\ ContextWhilePlanning OBVIOUS
<1>1. pendingUserInputs = <<>> /\ submitted = {} /\ handed = {} /\ dropped = {}
      /\ \A m \in Slots : context[m] = <<>>
  BY DEF Init
<1>2. Ended = {} /\ \A m \in Slots : Taken(m) = {} BY <1>1, EmptyRange DEF Ended, Taken
<1> QED BY <1>1, <1>2, EmptyRange DEF InOnePlace, Apart, Accounted, ContextWhilePlanning

\* A set whose members are all equal is empty or has one.
LEMMA AtMostOne ==
  ASSUME NEW S, \A x, y \in S : x = y
  PROVE  Cardinality(S) = IF S = {} THEN 0 ELSE 1
<1>1. CASE S = {} BY <1>1, FS_EmptySet
<1>2. CASE S # {}
  <2>1. PICK x \in S : TRUE BY <1>2
  <2>2. S = {x} BY <2>1
  <2> QED BY <2>2, FS_Singleton
<1> QED BY <1>1, <1>2

\* Every request the queue was given is in exactly one place, and none is
\* planned twice or vanishes on a way of its own.
THEOREM RequestsConservedHolds == Spec => []RequestsConserved
<1>1. TypeOK /\ InOnePlace => RequestsConserved
  <2> SUFFICES ASSUME TypeOK, InOnePlace PROVE RequestsConserved OBVIOUS
  <2> SUFFICES ASSUME NEW r \in Requests
               PROVE  Cardinality({i \in DOMAIN pendingUserInputs : pendingUserInputs[i] = r})
                      + Cardinality({m \in Slots : r \in Range(context[m])})
                      + Cardinality({S \in {"handed", "dropped"} :
                                       r \in IF S = "handed" THEN handed ELSE dropped})
                      = IF r \in submitted THEN 1 ELSE 0
    BY DEF RequestsConserved
  <2> DEFINE A == {i \in DOMAIN pendingUserInputs : pendingUserInputs[i] = r}
  <2> DEFINE B == {m \in Slots : r \in Range(context[m])}
  <2> DEFINE C == {S \in {"handed", "dropped"} : r \in IF S = "handed" THEN handed ELSE dropped}
  <2>1. DOMAIN pendingUserInputs = 1 .. Len(pendingUserInputs) BY DEF TypeOK
  <2>2. \A i, j \in A : i = j BY <2>1 DEF InOnePlace, Apart
  <2>3. \A m, n \in B : m = n BY DEF InOnePlace, Apart, Taken
  <2>4. \A S, T \in C : S = T BY DEF InOnePlace, Apart
  <2>5. A # {} => r \in Range(pendingUserInputs) BY DEF Range
  <2>6. B # {} => \E m \in Slots : r \in Taken(m) BY DEF Taken
  <2>7. C # {} => r \in Ended BY DEF Ended
  <2>8. /\ A = {} \/ B = {}
        /\ A = {} \/ C = {}
        /\ B = {} \/ C = {}
    BY <2>5, <2>6, <2>7 DEF InOnePlace, Apart
  <2>9. /\ Cardinality(A) = IF A = {} THEN 0 ELSE 1
        /\ Cardinality(B) = IF B = {} THEN 0 ELSE 1
        /\ Cardinality(C) = IF C = {} THEN 0 ELSE 1
    BY <2>2, <2>3, <2>4, AtMostOne
  <2>10. r \in submitted <=> A # {} \/ B # {} \/ C # {}
    <3>1. A # {} <=> r \in Range(pendingUserInputs) BY DEF Range
    <3>2. B # {} <=> \E m \in Slots : r \in Taken(m) BY DEF Taken
    <3>3. C # {} <=> r \in Ended
      <4>1. "handed" \in C <=> r \in handed OBVIOUS
      <4>2. "dropped" \in C <=> r \in dropped OBVIOUS
      <4>3. C \subseteq {"handed", "dropped"} OBVIOUS
      <4> QED BY <4>1, <4>2, <4>3 DEF Ended
    <3> QED BY <3>1, <3>2, <3>3 DEF InOnePlace, Accounted
  <2> HIDE DEF A, B, C
  <2>11. Cardinality(A) + Cardinality(B) + Cardinality(C) = IF r \in submitted THEN 1 ELSE 0
    BY <2>8, <2>9, <2>10
  <2> QED BY <2>11 DEF A, B, C
<1>2. IInv => TypeOK BY DEF IInv
<1> QED BY <1>1, <1>2, ApartInit, ApartStep, ContextStep, InductiveInvariant, PTL DEF Spec
=============================================================================
