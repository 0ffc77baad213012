----------------------------- MODULE AgenticBuild -----------------------------
(***************************************************************************)
(* The agentic behaviour: builds that loop over generations, the user's    *)
(* inputs queued for them, the tool calls of a generation with their       *)
(* callbacks, and the agent's conversation.  executeGeneration clears      *)
(* generationPromise after each generation, and the build goes on; so      *)
(* builds can overlap, and they share the abort controller, the queue and  *)
(* the conversation.                                                       *)
(*                                                                         *)
(* The inference is ToolInference's, seen from its callbacks: an attempt   *)
(* that is retried is a longer request here.                               *)
(***************************************************************************)
EXTENDS Naturals, Sequences, FiniteSets, SequencesExt

CONSTANTS
  Builds,      \* bound: runs of buildWrapper
  MaxInputs,   \* bound: messages of the user
  MaxRounds,   \* bound: responses with tool calls
  MaxFolds,    \* bound: compactifications of the conversation
  Faults,      \* TRUE: stops, exceptions and restarts happen
  None

Positions == {1, 2}
Call      == [round : 1 .. MaxRounds, pos : Positions]

\* A compactification is a build's or a call's.
ASSUME AgenticAssumption ==
  /\ {MaxInputs, MaxRounds, MaxFolds} \subseteq Nat
  /\ Faults \in BOOLEAN /\ None \notin Builds \union Call /\ Builds \intersect Call = {}

VARIABLES
  pendingUserInputs,  \* the queue
  mvpGenerated,
  generationPromise,  \* the build whose promise it is, or None
  pc,                 \* where each build is
  held,               \* builds whose signal is currentAbortController's
  aborted,            \* builds whose signal is aborted
  rounds,             \* the tool rounds: their build and calls
  current,            \* each build's round; 0: none
  waiting,            \* its calls that come in a later group
  running,            \* tool calls in progress
  fullHistory,        \* the messages of the conversation
  fold,               \* compactifications in flight: whose, what each read
  folds,              \* how many there were
  inputs,             \* messages sent by the user
  late,               \* history: messages added while one is in flight
  overlapped,         \* history: two builds ran at once
  broken              \* history: an exception, a stop or a restart ended a build

vars == <<pendingUserInputs, mvpGenerated, generationPromise, pc, held, aborted,
          rounds, current, waiting, running, fullHistory, fold, folds, inputs, late,
          overlapped, broken>>

Message   == [kind : {"input", "asked", "result"}, n : Nat, pos : {0} \union Positions]
Finish    == 1   \* where mark_generation_complete is in a round that calls it

InputMsg(i) == [kind |-> "input", n |-> i, pos |-> 0]
Asked(r)    == [kind |-> "asked", n |-> r, pos |-> 0]
Result(c)   == [kind |-> "result", n |-> c.round, pos |-> c.pos]

\* isCodeGenerating.
Generating == generationPromise # None
Active(b)  == pc[b] # "idle"

TypeOK ==
  /\ pendingUserInputs \in Seq(1 .. inputs) /\ inputs \in 0 .. MaxInputs
  /\ {mvpGenerated, overlapped, broken} \subseteq BOOLEAN
  /\ generationPromise \in Builds \union {None}
  /\ pc \in [Builds -> {"idle", "starting", "create", "model", "asked", "tools",
                        "done", "folding", "ending"}]
  /\ held \subseteq {b \in Builds : Active(b)} \ aborted /\ aborted \subseteq Builds
  /\ rounds \in Seq([by : Builds, calls : SUBSET Positions, finish : BOOLEAN])
  /\ Len(rounds) <= MaxRounds
  /\ current \in [Builds -> 0 .. Len(rounds)] /\ waiting \in [Builds -> SUBSET Positions]
  /\ running \subseteq Call /\ fullHistory \subseteq Message /\ late \subseteq Message
  /\ fold \subseteq [who : Builds \union Call, saw : SUBSET Message]
  /\ folds \in 0 .. MaxFolds

Init ==
  /\ pendingUserInputs = <<>> /\ inputs = 0
  /\ mvpGenerated = FALSE /\ generationPromise = None
  /\ pc = [b \in Builds |-> "idle"] /\ held = {} /\ aborted = {}
  /\ rounds = <<>> /\ current = [b \in Builds |-> 0] /\ waiting = [b \in Builds |-> {}]
  /\ running = {} /\ fullHistory = {} /\ fold = {} /\ folds = 0
  /\ late = {} /\ overlapped = FALSE /\ broken = FALSE

Goto(b, p) == pc' = [pc EXCEPT ![b] = p]

-----------------------------------------------------------------------------
(* Starting a build, and the user's messages.                              *)

\* generateAllFiles, past its guards, up to buildWrapper's first await.
Begin(b) ==
  /\ generationPromise' = b /\ Goto(b, "starting")
  /\ overlapped' = (overlapped \/ \E a \in Builds : Active(a))

\* GENERATE_ALL and RESUME_GENERATION.
GenerateAll(b) ==
  /\ ~Active(b) /\ ~Generating
  /\ ~(mvpGenerated /\ pendingUserInputs = <<>>)
  /\ Begin(b)
  /\ UNCHANGED <<pendingUserInputs, mvpGenerated, held, aborted, rounds, current, waiting,
                 running, fullHistory, fold, folds, inputs, late, broken>>

\* Mutant: the input does not start a build when none is generating.
UserInputMutant ==
  /\ inputs < MaxInputs
  /\ inputs' = inputs + 1
  /\ pendingUserInputs' = Append(pendingUserInputs, inputs + 1)
  /\ UNCHANGED <<generationPromise, pc, overlapped, mvpGenerated, held, aborted, rounds,
                 current, waiting, running, fullHistory, fold, folds, late, broken>>

\* handleUserInput: the message is queued; an idle agent starts a build.
UserInput ==
  /\ inputs < MaxInputs
  /\ inputs' = inputs + 1
  /\ pendingUserInputs' = Append(pendingUserInputs, inputs + 1)
  /\ \/ Generating /\ UNCHANGED <<generationPromise, pc, overlapped>>
     \/ ~Generating /\ \E b \in Builds : ~Active(b) /\ Begin(b)
  /\ UNCHANGED <<mvpGenerated, held, aborted, rounds, current, waiting, running, fullHistory,
                 fold, folds, late, broken>>

\* Mutant: the controller is and not aborted.
StopMutant ==
  /\ Faults /\ held # {}
  /\ aborted' = aborted /\ held' = {} /\ broken' = TRUE
  /\ UNCHANGED <<pendingUserInputs, mvpGenerated, generationPromise, pc, rounds, current,
                 waiting, running, fullHistory, fold, folds, inputs, late, overlapped>>

\* cancelCurrentInference.
Stop ==
  /\ Faults /\ held # {}
  /\ aborted' = aborted \union held /\ held' = {} /\ broken' = TRUE
  /\ UNCHANGED <<pendingUserInputs, mvpGenerated, generationPromise, pc, rounds, current,
                 waiting, running, fullHistory, fold, folds, inputs, late, overlapped>>

Record(messages) ==
  /\ fullHistory' = fullHistory \union messages
  /\ late' = IF fold = {} THEN late ELSE late \union messages

-----------------------------------------------------------------------------
(* The loop and a generation.                                              *)

\* Mutant: the generation takes a signal that is aborted.
LoopMutant(b, controller, history) ==
  /\ pendingUserInputs' = <<>>
  /\ LET taken == {InputMsg(i) : i \in ToSet(pendingUserInputs)}
     IN  /\ fullHistory' = history \union taken
         /\ late' = IF fold' = {} THEN {} ELSE late \union taken
  /\ IF ~mvpGenerated \/ pendingUserInputs # <<>>
       THEN held' = controller \union {b} /\ aborted' = aborted /\ Goto(b, "create")
       ELSE held' = {} /\ aborted' = aborted /\ Goto(b, "ending")

\* build()'s head.  A generation before its first await: the queue is emptied
\* into the conversation, and its signal is that of the controller there is, or
\* of a new one.  The end: buildWrapper's finally, up to updateApp.
Loop(b, controller, history) ==
  /\ pendingUserInputs' = <<>>
  /\ LET taken == {InputMsg(i) : i \in ToSet(pendingUserInputs)}
     IN  /\ fullHistory' = history \union taken
         /\ late' = IF fold' = {} THEN {} ELSE late \union taken
  /\ IF ~mvpGenerated \/ pendingUserInputs # <<>>
       THEN held' = controller \union {b} /\ aborted' = aborted \ {b} /\ Goto(b, "create")
       ELSE held' = {} /\ aborted' = aborted /\ Goto(b, "ending")

\* buildWrapper awaits the template, outside of its try: a failure leaves the
\* promise behind.
Enter(b) ==
  /\ pc[b] = "starting" /\ UNCHANGED fold
  /\ \/ Loop(b, held, fullHistory) /\ UNCHANGED broken
     \/ /\ Faults /\ Goto(b, "idle") /\ broken' = TRUE
        /\ UNCHANGED <<pendingUserInputs, held, aborted, fullHistory, late>>
  /\ UNCHANGED <<mvpGenerated, generationPromise, rounds, current, waiting, running, folds,
                 inputs, overlapped>>

\* updateApp answers; when it fails the promise is not cleared.
Ended(b) ==
  /\ pc[b] = "ending"
  /\ Goto(b, "idle") /\ aborted' = aborted \ {b}
  /\ \/ generationPromise' = None /\ UNCHANGED broken
     \/ Faults /\ broken' = TRUE /\ UNCHANGED generationPromise
  /\ UNCHANGED <<pendingUserInputs, mvpGenerated, held, rounds, current, waiting, running,
                 fullHistory, fold, folds, inputs, late, overlapped>>

\* An exception: executeGeneration's finally and buildWrapper's.
Throw(b) ==
  /\ generationPromise' = None /\ held' = {} /\ broken' = TRUE
  /\ Goto(b, "ending")
  /\ current' = [current EXCEPT ![b] = 0] /\ waiting' = [waiting EXCEPT ![b] = {}]
  /\ UNCHANGED <<pendingUserInputs, mvpGenerated, aborted, rounds, running, fullHistory,
                 fold, folds, inputs, late, overlapped>>

\* A request of an aborted signal throws; so do the rate limit, the operation
\* before its first request and the agent's own steps.
Fails(b) ==
  /\ Faults
  /\ \/ pc[b] = "create"
     \/ pc[b] = "model"
  /\ Throw(b)

Create(b) ==
  /\ pc[b] = "create" /\ b \notin aborted
  /\ Goto(b, "model")
  /\ UNCHANGED <<pendingUserInputs, mvpGenerated, generationPromise, held, aborted, rounds,
                 current, waiting, running, fullHistory, fold, folds, inputs, late,
                 overlapped, broken>>

\* The model answers without calls, the stream is aborted before one, or the
\* attempts are used up.
Answer(b) ==
  /\ pc[b] = "model"
  /\ Goto(b, "done")
  /\ UNCHANGED <<pendingUserInputs, mvpGenerated, generationPromise, held, aborted, rounds,
                 current, waiting, running, fullHistory, fold, folds, inputs, late,
                 overlapped, broken>>

\* handleMessageCompletion compactifies after every ninth message: who waits
\* for the summary, and what had been read.  Others may be waiting for theirs.
StartFold(who, read) ==
  /\ folds < MaxFolds
  /\ fold' = fold \union {[who |-> who, saw |-> read]} /\ folds' = folds + 1

\* A response with calls; onAssistantMessage records it.
AskTools(b) ==
  /\ pc[b] = "model" /\ Len(rounds) < MaxRounds
  /\ \E calls \in {{1}, {1, 2}}, finish \in BOOLEAN :
       rounds' = Append(rounds, [by |-> b, calls |-> calls, finish |-> finish])
  /\ current' = [current EXCEPT ![b] = Len(rounds) + 1]
  /\ Record({Asked(Len(rounds) + 1)})
  /\ \/ Goto(b, "asked") /\ UNCHANGED <<fold, folds>>
     \/ Goto(b, "folding") /\ StartFold(b, fullHistory')
  /\ UNCHANGED <<pendingUserInputs, mvpGenerated, generationPromise, held, aborted, waiting,
                 running, inputs, overlapped, broken>>

\* The first group starts; a call that conflicts with it waits.
StartTools(b) ==
  /\ pc[b] = "asked"
  /\ \E first \in {{1}, rounds[current[b]].calls} :
       /\ running' = running \union {[round |-> current[b], pos |-> p] : p \in first}
       /\ waiting' = [waiting EXCEPT ![b] = rounds[current[b]].calls \ first]
  /\ Goto(b, "tools")
  /\ UNCHANGED <<pendingUserInputs, mvpGenerated, generationPromise, held, aborted, rounds,
                 current, fullHistory, fold, folds, inputs, late, overlapped,
                 broken>>

-----------------------------------------------------------------------------
(* Tool calls.                                                             *)

BuildOf(c) == rounds[c.round].by
\* The chain the call belongs to still waits for it.
Heard(c) == pc[BuildOf(c)] = "tools" /\ current[BuildOf(c)] = c.round
IsFinish(c) == rounds[c.round].finish /\ c.pos = Finish
Folding(c) == \E f \in fold : f.who = c

\* Nothing of the round is left: a completion call ends the chain, results go
\* back to the model, and a group that waited starts.
Continue(c) ==
  LET b    == BuildOf(c)
      left == {d \in running' : d.round = c.round}
  IN  \/ /\ ~Heard(c) \/ left # {}
         /\ UNCHANGED <<pc, current, waiting>>
      \/ /\ Heard(c) /\ left = {} /\ waiting[b] = {}
         /\ Goto(b, IF rounds[c.round].finish THEN "done" ELSE "create")
         /\ current' = [current EXCEPT ![b] = 0] /\ UNCHANGED waiting

\* The abort that breaks the chain: the later groups never start, and what
\* still runs of the group goes on unheard.
BreakOff(c) ==
  LET b == BuildOf(c)
  IN  IF Heard(c)
        THEN /\ Goto(b, "done") /\ current' = [current EXCEPT ![b] = 0]
             /\ waiting' = [waiting EXCEPT ![b] = {}]
        ELSE UNCHANGED <<pc, current, waiting>>

\* The last call of a group is followed by the group that waited.
NextGroup(c) ==
  LET b == BuildOf(c)
  IN  /\ Heard(c) /\ waiting[b] # {} /\ {d \in running : d.round = c.round} = {c}
      /\ running' = {[round |-> c.round, pos |-> p] : p \in waiting[b]} \union (running \ {c})
      /\ waiting' = [waiting EXCEPT ![b] = {}]
      /\ UNCHANGED <<pc, current>>

Settles(c) ==
  \/ /\ ~(Heard(c) /\ waiting[BuildOf(c)] # {} /\ {d \in running : d.round = c.round} = {c})
     /\ running' = running \ {c} /\ Continue(c)
  \/ NextGroup(c)

\* mark_generation_complete has no callback; neither has a tool that fails.
ToolReturnsSilently(c) ==
  /\ c \in running /\ ~Folding(c)
  /\ \/ IsFinish(c) /\ mvpGenerated' = TRUE
     \/ Faults /\ UNCHANGED mvpGenerated
  /\ Settles(c)
  /\ UNCHANGED <<pendingUserInputs, generationPromise, held, aborted, rounds, fullHistory,
                 fold, folds, inputs, late, overlapped, broken>>

\* onToolComplete after its message is recorded: queued inputs break the chain.
Callback(c) ==
  \/ pendingUserInputs = <<>> /\ Settles(c)
  \/ pendingUserInputs # <<>> /\ running' = running \ {c} /\ BreakOff(c)

\* A tool returns: onToolComplete records its result.
ToolReturns(c) ==
  /\ c \in running /\ ~Folding(c) /\ ~IsFinish(c)
  /\ Record({Result(c)})
  /\ \/ Callback(c) /\ UNCHANGED <<fold, folds>>
     \/ StartFold(c, fullHistory') /\ UNCHANGED <<running, pc, current, waiting>>
  /\ UNCHANGED <<pendingUserInputs, mvpGenerated, generationPromise, held, aborted, rounds,
                 inputs, overlapped, broken>>

\* Mutant: the full history becomes the summarised one.
FoldedMutant(f) == {}

\* compactifyIfNeeded writes the conversation back as it was read: what was
\* added since is gone, from the full history too.
Folded(f) == f.saw

FoldEndsForCall(c) ==
  /\ c \in running
  /\ \E f \in fold :
       /\ f.who = c
       /\ fullHistory' = Folded(f) /\ fold' = fold \ {f}
  /\ late' = IF fold' = {} THEN {} ELSE late
  /\ Callback(c)
  /\ UNCHANGED <<pendingUserInputs, mvpGenerated, generationPromise, held, aborted, rounds,
                 folds, inputs, overlapped, broken>>

\* The summary of an assistant's message, or of a generation's end.
FoldEndsForBuild(b) ==
  /\ pc[b] = "folding"
  /\ \E f \in fold :
       /\ f.who = b /\ fold' = fold \ {f}
       /\ \/ /\ current[b] # 0
             /\ fullHistory' = Folded(f) /\ Goto(b, "asked")
             /\ late' = IF fold' = {} THEN {} ELSE late
             /\ UNCHANGED <<pendingUserInputs, generationPromise, held, aborted>>
          \/ /\ current[b] = 0
             /\ generationPromise' = None /\ Loop(b, {}, Folded(f))
  /\ UNCHANGED <<mvpGenerated, rounds, current, waiting, running, folds, inputs, overlapped,
                 broken>>

-----------------------------------------------------------------------------
(* The end of a generation.                                                *)

\* executeGeneration's finally: the promise and the controller are cleared,
\* and the build goes on with its loop.
GenerationEnds(b) ==
  /\ pc[b] = "done"
  /\ generationPromise' = None
  /\ UNCHANGED fold /\ Loop(b, {}, fullHistory)
  /\ UNCHANGED <<mvpGenerated, rounds, current, waiting, running, folds, inputs, overlapped,
                 broken>>

\* Before it, the conversation is compactified if needed.
FinalFold(b) ==
  /\ pc[b] = "done"
  /\ StartFold(b, fullHistory) /\ Goto(b, "folding")
  /\ UNCHANGED <<pendingUserInputs, mvpGenerated, generationPromise, held, aborted, rounds,
                 current, waiting, running, fullHistory, inputs, late, overlapped,
                 broken>>

\* The Durable Object restarts: what is not in its storage is gone.
Restart ==
  /\ Faults /\ \E b \in Builds : Active(b)
  /\ generationPromise' = None /\ pc' = [b \in Builds |-> "idle"]
  /\ held' = {} /\ aborted' = {} /\ running' = {} /\ fold' = {} /\ late' = {}
  /\ current' = [b \in Builds |-> 0] /\ waiting' = [b \in Builds |-> {}]
  /\ broken' = TRUE
  /\ UNCHANGED <<pendingUserInputs, mvpGenerated, rounds, fullHistory, folds, inputs,
                 overlapped>>

BuildStep(b) ==
  \/ Enter(b) \/ Ended(b) \/ Fails(b) \/ Create(b)
  \/ Answer(b) \/ AskTools(b) \/ StartTools(b) \/ FoldEndsForBuild(b) \/ GenerationEnds(b)
  \/ FinalFold(b)
ToolStep(c) == ToolReturnsSilently(c) \/ ToolReturns(c) \/ FoldEndsForCall(c)

Next ==
  \/ UserInput \/ Stop \/ Restart
  \/ \E b \in Builds : GenerateAll(b) \/ BuildStep(b)
  \/ \E c \in running : ToolStep(c)

Spec == Init /\ [][Next]_vars

\* Requests are answered or fail, tools settle, awaits end.
FairSpec ==
  /\ Spec
  /\ \A b \in Builds : WF_vars(BuildStep(b))
  /\ \A r \in 1 .. MaxRounds, p \in Positions :
       WF_vars([round |-> r, pos |-> p] \in running /\ ToolStep([round |-> r, pos |-> p]))

-----------------------------------------------------------------------------
(* Properties.                                                             *)

\* As long as builds have not overlapped, a stop reaches the generation that is
\* under way: its signal is the current controller's, or aborted already.
StopReaches ==
  ~overlapped =>
    \A b \in Builds : pc[b] \in {"create", "model", "asked", "tools", "done"} =>
      b \in held \union aborted

\* A message of the conversation is lost only when it was added while a
\* compactification was waiting for its summary: in whatever order those of
\* overlapping callers end, none takes away what it had read itself.
HistoryKept == [][fullHistory \ fullHistory' \subseteq late]_vars

\* A queued input is taken up: it breaks off the tool chain of the build that is
\* under way, or starts one; unless an exception, a stop or a restart ends it, or
\* builds overlap: then the input may have been taken by the other one, and the
\* next input finds a promise of a build that is past its last look at the queue.
InputTakenUp ==
  (pendingUserInputs # <<>>) ~> (pendingUserInputs = <<>> \/ broken \/ overlapped)

\* websocket.ts: "Check if generation is already active to avoid duplicate
\* processes": one build at a time.
OneBuild == \A a, b \in Builds : Active(a) /\ Active(b) => a = b
=============================================================================
