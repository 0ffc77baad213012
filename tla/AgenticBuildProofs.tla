-------------------------- MODULE AgenticBuildProofs --------------------------
(***************************************************************************)
(* Proofs about AgenticBuild, for every set of builds, every bound on the  *)
(* inputs, rounds and compactifications, with and without faults.          *)
(***************************************************************************)
EXTENDS AgenticBuild, SequenceTheorems, TLAPS

-----------------------------------------------------------------------------
(* The inductive invariant.                                                *)

\* A build that has not taken a controller yet, or has given it up, holds none:
\* it can leave without its signal staying the current one.
Unheld == \A b \in Builds : pc[b] \in {"idle", "starting", "ending"} => b \notin held

\* A round in progress is one that was asked for; so is a call's.
RoundsAsked ==
  /\ \A b \in Builds : pc[b] \in {"asked", "tools"} => current[b] # 0
  /\ \A c \in running : c.round <= Len(rounds)

\* Without an overlap one build is active, and no other can take the controller
\* of its generation, from the first await to the last.
Alone ==
  ~overlapped =>
    /\ \A a, b \in Builds : Active(a) /\ Active(b) => a = b
    /\ \A b \in Builds : pc[b] \in {"create", "model", "asked", "tools", "done", "folding"} =>
         b \in held \union aborted

\* What those who wait for a summary have read, and the conversation, differ only
\* in messages that came since.
FoldCovers ==
  \A f \in fold :
    /\ fullHistory \ f.saw \subseteq late /\ f.saw \ fullHistory \subseteq late
    /\ \A g \in fold : f.saw \ g.saw \subseteq late

IInv == TypeOK /\ Unheld /\ RoundsAsked /\ Alone /\ FoldCovers

-----------------------------------------------------------------------------
(* Lemmas about the helpers.                                               *)

\* What a finished call may do to the builds: nothing, or end the round that a
\* build waits for.
ToolMoves ==
  /\ waiting' \in [Builds -> SUBSET Positions]
  /\ running' \subseteq Call /\ \A d \in running' : d.round <= Len(rounds)
  /\ \/ UNCHANGED <<pc, current>>
     \/ \E b \in Builds, k \in {"create", "done"} :
          /\ pc[b] = "tools" /\ Goto(b, k) /\ current' = [current EXCEPT ![b] = 0]

\* The round of a call in progress, and its build.
LEMMA CallsRound ==
  ASSUME TypeOK, RoundsAsked, NEW c \in running
  PROVE  /\ c.round \in 1 .. MaxRounds /\ c.pos \in Positions
         /\ c.round \in DOMAIN rounds /\ BuildOf(c) \in Builds
         /\ [round |-> c.round, pos |-> c.pos] = c
<1>1. c \in Call BY DEF TypeOK
<1>2. c.round \in 1 .. MaxRounds /\ c.round <= Len(rounds)
  BY <1>1 DEF Call, RoundsAsked
<1>3. rounds \in Seq([by : Builds, calls : SUBSET Positions, finish : BOOLEAN])
  BY DEF TypeOK
<1>4. c.round \in 1 .. Len(rounds) /\ c.round \in DOMAIN rounds
  BY <1>2, <1>3, AgenticAssumption
<1>5. rounds[c.round] \in [by : Builds, calls : SUBSET Positions, finish : BOOLEAN]
  BY <1>3, <1>4, ElementOfSeq
<1>. QED
  BY <1>1, <1>2, <1>4, <1>5 DEF Call, BuildOf

\* A round of calls, of one that is in progress, is a set of calls.
LEMMA CallsOf ==
  ASSUME TypeOK, NEW r \in DOMAIN rounds, NEW P \in SUBSET Positions
  PROVE  /\ {[round |-> r, pos |-> p] : p \in P} \subseteq Call
         /\ \A d \in {[round |-> r, pos |-> p] : p \in P} : d.round <= Len(rounds)
<1>1. Len(rounds) \in Nat /\ Len(rounds) <= MaxRounds /\ r \in 1 .. Len(rounds)
  BY DEF TypeOK
<1>2. r \in 1 .. MaxRounds
  BY <1>1, AgenticAssumption
<1>. QED
  BY <1>1, <1>2 DEF Call

\* A call settles: alone, with the end of its round, or with the next group.
LEMMA SettlesMoves ==
  ASSUME TypeOK, RoundsAsked, NEW c \in running, Settles(c)
  PROVE  ToolMoves
<1>. DEFINE b == BuildOf(c)
<1>1. b \in Builds /\ c.round \in DOMAIN rounds
  BY CallsRound
<1>2. CASE running' = running \ {c} /\ Continue(c)
  <2>1. running' \subseteq Call /\ \A d \in running' : d.round <= Len(rounds)
    BY <1>2 DEF TypeOK, RoundsAsked
  <2>2. waiting' = waiting
    BY <1>2 DEF Continue
  <2>3. \/ UNCHANGED <<pc, current>>
        \/ /\ pc[b] = "tools" /\ current' = [current EXCEPT ![b] = 0]
           /\ Goto(b, IF rounds[c.round].finish THEN "done" ELSE "create")
    BY <1>2 DEF Continue, Heard
  <2>. QED
    BY <1>1, <2>1, <2>2, <2>3 DEF ToolMoves, TypeOK
<1>3. CASE NextGroup(c)
  <2>1. waiting[b] \in SUBSET Positions
    BY <1>1 DEF TypeOK
  <2>2. /\ running' = {[round |-> c.round, pos |-> p] : p \in waiting[b]} \union (running \ {c})
        /\ waiting' = [waiting EXCEPT ![b] = {}] /\ UNCHANGED <<pc, current>>
    BY <1>3 DEF NextGroup
  <2>3. running' \subseteq Call /\ \A d \in running' : d.round <= Len(rounds)
    BY <1>1, <2>1, <2>2, CallsOf DEF TypeOK, RoundsAsked
  <2>. QED
    BY <2>2, <2>3 DEF ToolMoves, TypeOK
<1>. QED
  BY <1>2, <1>3 DEF Settles

\* A callback settles its call, or breaks the chain off.
LEMMA CallbackMoves ==
  ASSUME TypeOK, RoundsAsked, NEW c \in running, Callback(c)
  PROVE  ToolMoves
<1>1. CASE Settles(c)
  BY <1>1, SettlesMoves
<1>2. CASE running' = running \ {c} /\ BreakOff(c)
  <2>1. BuildOf(c) \in Builds
    BY CallsRound
  <2>2. running' \subseteq Call /\ \A d \in running' : d.round <= Len(rounds)
    BY <1>2 DEF TypeOK, RoundsAsked
  <2>. QED
    BY <1>2, <2>1, <2>2 DEF BreakOff, Heard, ToolMoves, TypeOK
<1>. QED
  BY <1>1, <1>2 DEF Callback

\* A tool's step moves the builds as its call may, and nothing else about them.
LEMMA ToolStepMoves ==
  ASSUME TypeOK, RoundsAsked, NEW c \in running, ToolStep(c)
  PROVE  /\ ToolMoves
         /\ UNCHANGED <<pendingUserInputs, generationPromise, held, aborted, rounds, inputs,
                        overlapped, broken>>
<1>1. CASE ToolReturnsSilently(c)
  BY <1>1, SettlesMoves DEF ToolReturnsSilently
<1>2. CASE ToolReturns(c)
  <2>1. CASE Callback(c)
    BY <1>2, <2>1, CallbackMoves DEF ToolReturns
  <2>2. CASE UNCHANGED <<running, pc, current, waiting>>
    BY <1>2, <2>2 DEF ToolReturns, ToolMoves, TypeOK, RoundsAsked
  <2>. QED
    BY <1>2, <2>1, <2>2 DEF ToolReturns
<1>3. CASE FoldEndsForCall(c)
  BY <1>3, CallbackMoves DEF FoldEndsForCall
<1>. QED
  BY <1>1, <1>2, <1>3 DEF ToolStep

\* The messages a generation takes from the queue.
LEMMA TakenTyping ==
  ASSUME TypeOK
  PROVE  {InputMsg(i) : i \in ToSet(pendingUserInputs)} \subseteq Message
<1>1. ToSet(pendingUserInputs) \subseteq 1 .. inputs /\ inputs \in Nat
  BY AgenticAssumption DEF TypeOK, ToSet
<1>. QED
  BY <1>1 DEF InputMsg, Message

\* The head of the loop: the build creates a request under a signal that is
\* current, or ends without one.
LEMMA LoopMoves ==
  ASSUME TypeOK, NEW b \in Builds, NEW controller \in SUBSET Builds,
         NEW history \in SUBSET Message, Loop(b, controller, history)
  PROVE  /\ pendingUserInputs' = <<>>
         /\ fullHistory' \subseteq Message /\ late' \subseteq Message
         /\ history \subseteq fullHistory'
         /\ fold' # {} => fullHistory' \ history \subseteq late' /\ late \subseteq late'
         /\ \/ Goto(b, "create") /\ held' = controller \union {b} /\ aborted' = aborted \ {b}
            \/ Goto(b, "ending") /\ held' = {} /\ aborted' = aborted
<1>. DEFINE taken == {InputMsg(i) : i \in ToSet(pendingUserInputs)}
<1>1. taken \subseteq Message
  BY TakenTyping
<1>2. /\ pendingUserInputs' = <<>> /\ fullHistory' = history \union taken
      /\ late' = IF fold' = {} THEN {} ELSE late \union taken
      /\ \/ Goto(b, "create") /\ held' = controller \union {b} /\ aborted' = aborted \ {b}
         \/ Goto(b, "ending") /\ held' = {} /\ aborted' = aborted
  BY DEF Loop
<1>3. late \subseteq Message
  BY DEF TypeOK
<1>. QED
  BY <1>1, <1>2, <1>3

\* Who calls the loop: a build that starts, whose signal joins the current one,
\* or one whose generation ended.
LEMMA LoopCallers ==
  ASSUME IInv, NEW b \in Builds
  PROVE  /\ GenerationEnds(b) => Loop(b, {}, fullHistory)
         /\ FoldEndsForBuild(b) /\ current[b] = 0 =>
              \E f \in fold : fold' = fold \ {f} /\ Loop(b, {}, Folded(f))
         /\ {} \in SUBSET Builds /\ held \in SUBSET Builds
         /\ fullHistory \in SUBSET Message
         /\ \A f \in fold : Folded(f) \in SUBSET Message
BY DEF GenerationEnds, FoldEndsForBuild, IInv, TypeOK, Folded

-----------------------------------------------------------------------------
(* Every step keeps the types, part by part.                               *)

QueueTyped == pendingUserInputs \in Seq(1 .. inputs) /\ inputs \in 0 .. MaxInputs

BuildsTyped ==
  /\ mvpGenerated \in BOOLEAN /\ overlapped \in BOOLEAN /\ broken \in BOOLEAN
  /\ generationPromise \in Builds \union {None}
  /\ pc \in [Builds -> {"idle", "starting", "create", "model", "asked", "tools",
                        "done", "folding", "ending"}]
  /\ held \subseteq {b \in Builds : Active(b)} \ aborted /\ aborted \subseteq Builds

RoundsTyped ==
  /\ rounds \in Seq([by : Builds, calls : SUBSET Positions, finish : BOOLEAN])
  /\ Len(rounds) <= MaxRounds
  /\ current \in [Builds -> 0 .. Len(rounds)] /\ waiting \in [Builds -> SUBSET Positions]
  /\ running \subseteq Call

HistoryTyped ==
  /\ fullHistory \subseteq Message /\ late \subseteq Message
  /\ fold \subseteq [who : Builds \union Call, saw : SUBSET Message]
  /\ folds \in 0 .. MaxFolds

LEMMA TypeParts == TypeOK <=> QueueTyped /\ BuildsTyped /\ RoundsTyped /\ HistoryTyped
BY DEF TypeOK, QueueTyped, BuildsTyped, RoundsTyped, HistoryTyped

\* Only the user's input and the loop touch the queue.
LEMMA QueueStep ==
  ASSUME IInv, [Next]_vars
  PROVE  QueueTyped'
<1>1. QueueTyped
  BY TypeParts DEF IInv
<1>2. CASE UserInput
  <2>1. inputs' = inputs + 1 /\ inputs' \in 0 .. MaxInputs
    BY <1>1, <1>2, AgenticAssumption DEF UserInput, QueueTyped
  <2>2. pendingUserInputs \in Seq(1 .. inputs') /\ inputs + 1 \in 1 .. inputs'
    <3>1. pendingUserInputs \in Seq(1 .. inputs) /\ 1 .. inputs \subseteq 1 .. inputs'
      BY <1>1, <2>1 DEF QueueTyped
    <3>. QED
      BY <1>1, <2>1, <3>1 DEF QueueTyped
  <2>3. pendingUserInputs' = Append(pendingUserInputs, inputs + 1)
    BY <1>2 DEF UserInput
  <2>. QED
    BY <2>1, <2>2, <2>3 DEF QueueTyped
<1>3. ASSUME pendingUserInputs' = <<>> \/ UNCHANGED pendingUserInputs, UNCHANGED inputs
      PROVE  QueueTyped'
  <2>1. <<>> \in Seq(1 .. inputs)
    BY EmptySeq
  <2>. QED
    BY <1>1, <1>3, <2>1 DEF QueueTyped
<1>4. ASSUME NEW b \in Builds, GenerateAll(b) \/ BuildStep(b)
      PROVE  QueueTyped'
  <2>1. CASE Enter(b)
    BY <1>3, <2>1 DEF Enter, Loop
  <2>2. CASE FoldEndsForBuild(b)
    BY <1>3, <2>2 DEF FoldEndsForBuild, Loop
  <2>3. CASE GenerationEnds(b)
    BY <1>3, <2>3 DEF GenerationEnds, Loop
  <2>. QED
    BY <1>3, <1>4, <2>1, <2>2, <2>3
    DEF GenerateAll, BuildStep, Ended, Fails, Throw, Create, Answer, AskTools, StartTools,
        FinalFold
<1>5. ASSUME NEW c \in running, ToolStep(c)
      PROVE  QueueTyped'
  BY <1>3, <1>5, ToolStepMoves DEF IInv
<1>. QED
  BY <1>2, <1>3, <1>4, <1>5 DEF Next, Stop, Restart, vars

\* The builds, their promise and their signals.
LEMMA BuildsStep ==
  ASSUME IInv, [Next]_vars
  PROVE  BuildsTyped'
<1>1. BuildsTyped /\ Unheld
  BY TypeParts DEF IInv
<1>. USE DEF BuildsTyped, Goto, Active
<1>2. CASE UserInput
  BY <1>1, <1>2 DEF UserInput, Begin
<1>3. CASE Stop
  BY <1>1, <1>3 DEF Stop
<1>4. CASE Restart
  BY <1>1, <1>4 DEF Restart
<1>5. ASSUME NEW b \in Builds, GenerateAll(b)
      PROVE  BuildsTyped'
  BY <1>1, <1>5 DEF GenerateAll, Begin
<1>6. ASSUME NEW b \in Builds, NEW controller \in {{}, held}, NEW history \in SUBSET Message,
             Loop(b, controller, history), generationPromise' \in {None, generationPromise},
             UNCHANGED <<mvpGenerated, overlapped, broken>>
      PROVE  BuildsTyped'
  <2>1. /\ controller \in SUBSET Builds
        /\ controller \subseteq {a \in Builds : Active(a)} \ aborted
    BY <1>1, <1>6
  <2>2. \/ Goto(b, "create") /\ held' = controller \union {b} /\ aborted' = aborted \ {b}
        \/ Goto(b, "ending") /\ held' = {} /\ aborted' = aborted
    BY <1>6, <2>1, LoopMoves DEF IInv
  <2>. QED
    BY <1>1, <1>6, <2>1, <2>2
<1>7. ASSUME NEW b \in Builds, BuildStep(b)
      PROVE  BuildsTyped'
  <2>1. CASE Enter(b)
    <3>1. CASE Loop(b, held, fullHistory) /\ UNCHANGED broken
      BY <1>6, <2>1, <3>1, LoopCallers DEF Enter
    <3>2. CASE pc' = [pc EXCEPT ![b] = "idle"] /\ broken' = TRUE /\ UNCHANGED <<held, aborted>>
      BY <1>1, <2>1, <3>2 DEF Enter, Unheld
    <3>. QED
      BY <2>1, <3>1, <3>2 DEF Enter
  <2>2. CASE Ended(b)
    BY <1>1, <2>2 DEF Ended, Unheld
  <2>3. CASE Fails(b)
    BY <1>1, <2>3 DEF Fails, Throw
  <2>4. CASE Create(b)
    BY <1>1, <2>4 DEF Create
  <2>5. CASE Answer(b)
    BY <1>1, <2>5 DEF Answer
  <2>6. CASE AskTools(b)
    BY <1>1, <2>6 DEF AskTools
  <2>7. CASE StartTools(b)
    BY <1>1, <2>7 DEF StartTools
  <2>8. CASE FoldEndsForBuild(b)
    <3>1. UNCHANGED <<mvpGenerated, overlapped, broken>>
      BY <2>8 DEF FoldEndsForBuild
    <3>2. CASE current[b] = 0
      <4>1. PICK f \in fold : Loop(b, {}, Folded(f)) /\ generationPromise' = None
        BY <2>8, <3>2 DEF FoldEndsForBuild
      <4>. QED
        BY <1>6, <3>1, <4>1, LoopCallers
    <3>3. CASE current[b] # 0
      BY <1>1, <2>8, <3>1, <3>3 DEF FoldEndsForBuild
    <3>. QED
      BY <3>2, <3>3
  <2>9. CASE GenerationEnds(b)
    BY <1>6, <2>9, LoopCallers DEF GenerationEnds
  <2>10. CASE FinalFold(b)
    BY <1>1, <2>10 DEF FinalFold
  <2>. QED
    BY <1>7, <2>1, <2>2, <2>3, <2>4, <2>5, <2>6, <2>7, <2>8, <2>9, <2>10 DEF BuildStep
<1>8. ASSUME NEW c \in running, ToolStep(c)
      PROVE  BuildsTyped'
  <2>1. ToolMoves /\ UNCHANGED <<generationPromise, held, aborted, overlapped, broken>>
    BY <1>8, ToolStepMoves DEF IInv
  <2>2. mvpGenerated' \in BOOLEAN
    BY <1>1, <1>8 DEF ToolStep, ToolReturnsSilently, ToolReturns, FoldEndsForCall
  <2>. QED
    BY <1>1, <2>1, <2>2 DEF ToolMoves
<1>9. CASE UNCHANGED vars
  BY <1>1, <1>9 DEF vars
<1>. QED
  BY <1>2, <1>3, <1>4, <1>5, <1>7, <1>8, <1>9 DEF Next

\* The rounds, what waits of them and what runs.
LEMMA RoundsStep ==
  ASSUME IInv, [Next]_vars
  PROVE  RoundsTyped'
<1>1. RoundsTyped /\ RoundsAsked /\ TypeOK
  BY TypeParts DEF IInv
<1>2. ASSUME UNCHANGED <<rounds, current, waiting, running>>
      PROVE  RoundsTyped'
  BY <1>1, <1>2 DEF RoundsTyped
<1>3. CASE Restart
  BY <1>1, <1>3, AgenticAssumption DEF Restart, RoundsTyped
<1>4. ASSUME NEW b \in Builds, Fails(b)
      PROVE  RoundsTyped'
  BY <1>1, <1>4 DEF Fails, Throw, RoundsTyped
<1>5. ASSUME NEW b \in Builds, AskTools(b)
      PROVE  RoundsTyped'
  <2>1. PICK r \in [by : Builds, calls : SUBSET Positions, finish : BOOLEAN] :
          rounds' = Append(rounds, r)
    <3>1. PICK calls \in {{1}, {1, 2}}, finish \in BOOLEAN :
            rounds' = Append(rounds, [by |-> b, calls |-> calls, finish |-> finish])
      BY <1>5 DEF AskTools
    <3>. QED
      BY <3>1 DEF Positions
  <2>2. /\ Len(rounds) < MaxRounds /\ current' = [current EXCEPT ![b] = Len(rounds) + 1]
        /\ UNCHANGED <<waiting, running>>
    BY <1>5 DEF AskTools
  <2>3. /\ Len(rounds) \in Nat /\ Len(rounds') = Len(rounds) + 1 /\ Len(rounds') <= MaxRounds
        /\ rounds' \in Seq([by : Builds, calls : SUBSET Positions, finish : BOOLEAN])
    BY <1>1, <2>1, <2>2, AppendProperties, LenProperties, AgenticAssumption DEF RoundsTyped
  <2>4. current' \in [Builds -> 0 .. Len(rounds')]
    BY <1>1, <2>2, <2>3 DEF RoundsTyped
  <2>. QED
    BY <1>1, <2>2, <2>3, <2>4 DEF RoundsTyped
<1>6. ASSUME NEW b \in Builds, StartTools(b)
      PROVE  RoundsTyped'
  <2>1. /\ current[b] \in 1 .. Len(rounds) /\ current[b] \in DOMAIN rounds
        /\ rounds[current[b]] \in [by : Builds, calls : SUBSET Positions, finish : BOOLEAN]
    <3>1. current[b] \in 1 .. Len(rounds)
      BY <1>1, <1>6, LenProperties DEF StartTools, RoundsTyped, RoundsAsked
    <3>. QED
      BY <1>1, <3>1, ElementOfSeq, LenProperties DEF RoundsTyped
  <2>2. PICK first \in {{1}, rounds[current[b]].calls} :
          /\ running' = running \union {[round |-> current[b], pos |-> p] : p \in first}
          /\ waiting' = [waiting EXCEPT ![b] = rounds[current[b]].calls \ first]
    BY <1>6 DEF StartTools
  <2>3. first \in SUBSET Positions /\ rounds[current[b]].calls \ first \in SUBSET Positions
    BY <2>1 DEF Positions
  <2>4. running' \subseteq Call
    BY <1>1, <2>1, <2>2, <2>3, CallsOf DEF RoundsTyped
  <2>5. waiting' \in [Builds -> SUBSET Positions]
    BY <1>1, <2>2, <2>3 DEF RoundsTyped
  <2>. QED
    BY <1>1, <1>6, <2>4, <2>5 DEF StartTools, RoundsTyped
<1>7. ASSUME NEW b \in Builds, GenerateAll(b) \/ BuildStep(b)
      PROVE  RoundsTyped'
  BY <1>2, <1>4, <1>5, <1>6, <1>7
  DEF GenerateAll, BuildStep, Enter, Ended, Create, Answer, FoldEndsForBuild,
      GenerationEnds, FinalFold
<1>8. ASSUME NEW c \in running, ToolStep(c)
      PROVE  RoundsTyped'
  <2>1. ToolMoves /\ UNCHANGED rounds
    BY <1>1, <1>8, ToolStepMoves
  <2>2. current' \in [Builds -> 0 .. Len(rounds)]
    <3>1. current \in [Builds -> 0 .. Len(rounds)] /\ 0 \in 0 .. Len(rounds)
      BY <1>1, LenProperties DEF RoundsTyped
    <3>2. current' = current \/ \E b \in Builds : current' = [current EXCEPT ![b] = 0]
      BY <2>1 DEF ToolMoves
    <3>. QED
      BY <3>1, <3>2
  <2>. QED
    BY <1>1, <2>1, <2>2 DEF ToolMoves, RoundsTyped
<1>. QED
  BY <1>2, <1>3, <1>7, <1>8 DEF Next, UserInput, Stop, vars

\* The messages that the calls and the rounds add to the conversation.
LEMMA RecordTyping ==
  ASSUME HistoryTyped, NEW messages \in SUBSET Message, Record(messages)
  PROVE  fullHistory' \subseteq Message /\ late' \subseteq Message
BY DEF HistoryTyped, Record

\* The conversation and its compactification.
LEMMA HistoryStep ==
  ASSUME IInv, [Next]_vars
  PROVE  HistoryTyped'
<1>1. HistoryTyped /\ RoundsTyped /\ TypeOK
  BY TypeParts DEF IInv
<1>2. ASSUME UNCHANGED <<fullHistory, late, fold, folds>>
      PROVE  HistoryTyped'
  BY <1>1, <1>2 DEF HistoryTyped
<1>3. ASSUME fold' \subseteq fold
      PROVE  fold' \subseteq [who : Builds \union Call, saw : SUBSET Message]
  BY <1>1, <1>3 DEF HistoryTyped
<1>4. ASSUME NEW who \in Builds \union Call, NEW read \in SUBSET Message, StartFold(who, read)
      PROVE  /\ fold' \subseteq [who : Builds \union Call, saw : SUBSET Message]
             /\ folds' \in 0 .. MaxFolds
  BY <1>1, <1>4, AgenticAssumption DEF StartFold, HistoryTyped
<1>5. CASE Restart
  BY <1>1, <1>3, <1>5 DEF Restart, HistoryTyped
<1>6. ASSUME NEW b \in Builds, NEW controller \in {{}, held}, NEW history \in SUBSET Message,
             Loop(b, controller, history), fold' \subseteq fold, UNCHANGED folds
      PROVE  HistoryTyped'
  BY <1>1, <1>3, <1>6, LoopMoves DEF TypeOK, HistoryTyped
<1>7. ASSUME NEW b \in Builds, BuildStep(b)
      PROVE  HistoryTyped'
  <2>1. CASE Enter(b)
    <3>1. CASE Loop(b, held, fullHistory)
      BY <1>6, <2>1, <3>1, LoopCallers DEF Enter
    <3>2. CASE UNCHANGED <<fullHistory, late>>
      BY <1>2, <2>1, <3>2 DEF Enter
    <3>. QED
      BY <2>1, <3>1, <3>2 DEF Enter
  <2>2. CASE AskTools(b)
    <3>1. {Asked(Len(rounds) + 1)} \in SUBSET Message
      BY <1>1, LenProperties DEF RoundsTyped, Asked, Message
    <3>2. fullHistory' \subseteq Message /\ late' \subseteq Message
      BY <1>1, <2>2, <3>1, RecordTyping DEF AskTools
    <3>. QED
      BY <1>1, <1>4, <2>2, <3>2 DEF AskTools, HistoryTyped
  <2>3. CASE FoldEndsForBuild(b)
    <3>1. fold' \subseteq fold /\ UNCHANGED folds
      BY <2>3 DEF FoldEndsForBuild
    <3>2. CASE current[b] = 0
      BY <1>6, <2>3, <3>1, <3>2, LoopCallers
    <3>3. CASE current[b] # 0
      BY <1>1, <1>3, <2>3, <3>1, <3>3 DEF FoldEndsForBuild, Folded, HistoryTyped
    <3>. QED
      BY <3>2, <3>3
  <2>4. CASE GenerationEnds(b)
    BY <1>6, <2>4, LoopCallers DEF GenerationEnds
  <2>5. CASE FinalFold(b)
    BY <1>1, <1>4, <2>5 DEF FinalFold, HistoryTyped
  <2>. QED
    BY <1>2, <1>7, <2>1, <2>2, <2>3, <2>4, <2>5
    DEF BuildStep, Ended, Fails, Throw, Create, Answer, StartTools
<1>8. ASSUME NEW c \in running, ToolStep(c)
      PROVE  HistoryTyped'
  <2>1. CASE ToolReturnsSilently(c)
    BY <1>2, <2>1 DEF ToolReturnsSilently
  <2>2. CASE ToolReturns(c)
    <3>1. {Result(c)} \in SUBSET Message /\ c \in Call
      BY <1>1, CallsRound DEF IInv, TypeOK, Result, Message
    <3>2. fullHistory' \subseteq Message /\ late' \subseteq Message
      BY <1>1, <2>2, <3>1, RecordTyping DEF ToolReturns
    <3>. QED
      BY <1>1, <1>4, <2>2, <3>1, <3>2 DEF ToolReturns, HistoryTyped
  <2>3. CASE FoldEndsForCall(c)
    BY <1>1, <1>3, <2>3 DEF FoldEndsForCall, Folded, HistoryTyped
  <2>. QED
    BY <1>8, <2>1, <2>2, <2>3 DEF ToolStep
<1>9. ASSUME NEW b \in Builds, GenerateAll(b)
      PROVE  HistoryTyped'
  BY <1>2, <1>9 DEF GenerateAll
<1>. QED
  BY <1>2, <1>5, <1>7, <1>8, <1>9 DEF Next, UserInput, Stop, vars

-----------------------------------------------------------------------------
(* Every step keeps the strengthenings.                                    *)

\* Where a build's step can take it from where it is, its signal apart.
LEMMA LoopEnters ==
  ASSUME IInv, NEW b \in Builds, Enter(b) \/ FoldEndsForBuild(b) \/ GenerationEnds(b)
  PROVE  \/ Goto(b, "create") /\ held' \in {{b}, held \union {b}} /\ aborted' = aborted \ {b}
         \/ Goto(b, "ending") /\ held' = {} /\ aborted' = aborted
         \/ Goto(b, "idle") /\ pc[b] = "starting" /\ UNCHANGED <<held, aborted>>
         \/ Goto(b, "asked") /\ pc[b] = "folding" /\ current[b] # 0 /\ UNCHANGED <<held, aborted>>
<1>. DEFINE Left(controller) ==
       \/ Goto(b, "create") /\ held' = controller \union {b} /\ aborted' = aborted \ {b}
       \/ Goto(b, "ending") /\ held' = {} /\ aborted' = aborted
<1>1. ASSUME NEW controller \in SUBSET Builds, NEW history \in SUBSET Message,
             Loop(b, controller, history)
      PROVE  Left(controller)
  BY <1>1, LoopMoves DEF IInv
<1>2. {} \union {b} = {b}
  OBVIOUS
<1>3. CASE Enter(b)
  <2>1. CASE Loop(b, held, fullHistory)
    <3>1. Left(held)
      BY <2>1, <1>1, LoopCallers
    <3>. QED
      BY <3>1
  <2>. QED
    BY <1>3, <2>1 DEF Enter
<1>4. CASE FoldEndsForBuild(b)
  <2>1. CASE current[b] = 0
    <3>1. Left({})
      BY <1>4, <1>1, <2>1, LoopCallers
    <3>. QED
      BY <1>2, <3>1
  <2>. QED
    BY <1>4, <2>1 DEF FoldEndsForBuild
<1>5. CASE GenerationEnds(b)
  <2>1. Left({})
    BY <1>5, <1>1, LoopCallers
  <2>. QED
    BY <1>2, <2>1
<1>. QED
  BY <1>3, <1>4, <1>5

LEMMA UnheldStep ==
  ASSUME IInv, [Next]_vars
  PROVE  Unheld'
<1>1. Unheld /\ BuildsTyped
  BY TypeParts DEF IInv
<1>. USE DEF Unheld, BuildsTyped, Goto
<1>2. ASSUME UNCHANGED <<pc, held>>
      PROVE  Unheld'
  BY <1>1, <1>2
<1>3. CASE UserInput
  BY <1>1, <1>3 DEF UserInput, Begin, Active
<1>4. CASE Stop \/ Restart
  BY <1>1, <1>4 DEF Stop, Restart
<1>5. ASSUME NEW b \in Builds, GenerateAll(b)
      PROVE  Unheld'
  BY <1>1, <1>5 DEF GenerateAll, Begin, Active
<1>6. ASSUME NEW b \in Builds, Enter(b) \/ FoldEndsForBuild(b) \/ GenerationEnds(b)
      PROVE  Unheld'
  BY <1>1, <1>6, LoopEnters
<1>7. ASSUME NEW b \in Builds, Ended(b) \/ Fails(b)
      PROVE  Unheld'
  BY <1>1, <1>7 DEF Ended, Fails, Throw
<1>8. ASSUME NEW b \in Builds,
             Create(b) \/ Answer(b) \/ AskTools(b) \/ StartTools(b) \/ FinalFold(b)
      PROVE  Unheld'
  <2>1. UNCHANGED held /\ \E k \in {"model", "done", "asked", "folding", "tools"} : Goto(b, k)
    BY <1>8 DEF Create, Answer, AskTools, StartTools, FinalFold
  <2>. QED
    BY <1>1, <2>1
<1>9. ASSUME NEW c \in running, ToolStep(c)
      PROVE  Unheld'
  <2>1. ToolMoves /\ UNCHANGED held
    BY <1>9, ToolStepMoves DEF IInv
  <2>. QED
    BY <1>1, <2>1 DEF ToolMoves
<1>. QED
  BY <1>2, <1>3, <1>4, <1>5, <1>6, <1>7, <1>8, <1>9 DEF Next, BuildStep, vars

LEMMA RoundsAskedStep ==
  ASSUME IInv, [Next]_vars
  PROVE  RoundsAsked'
<1>1. RoundsAsked /\ BuildsTyped /\ RoundsTyped /\ Len(rounds) \in Nat
  BY TypeParts, LenProperties DEF IInv, RoundsTyped
<1>. USE DEF RoundsAsked, BuildsTyped, Goto
<1>2. ASSUME UNCHANGED <<current, rounds, running>>, NEW b \in Builds,
             NEW k \in {"idle", "starting", "create", "model", "done", "folding", "ending"},
             UNCHANGED pc \/ Goto(b, k)
      PROVE  RoundsAsked'
  BY <1>1, <1>2
<1>3. CASE UserInput
  BY <1>1, <1>3 DEF UserInput, Begin
<1>4. CASE Stop \/ Restart
  BY <1>1, <1>4 DEF Stop, Restart
<1>5. ASSUME NEW b \in Builds, GenerateAll(b)
      PROVE  RoundsAsked'
  BY <1>2, <1>5 DEF GenerateAll, Begin
<1>6. ASSUME NEW b \in Builds, Enter(b) \/ FoldEndsForBuild(b) \/ GenerationEnds(b)
      PROVE  RoundsAsked'
  <2>1. UNCHANGED <<current, rounds, running>>
    BY <1>6 DEF Enter, FoldEndsForBuild, GenerationEnds
  <2>2. \/ \E k \in {"create", "ending", "idle"} : Goto(b, k)
        \/ Goto(b, "asked") /\ current[b] # 0
    BY <1>6, LoopEnters
  <2>. QED
    BY <1>1, <2>1, <2>2
<1>7. ASSUME NEW b \in Builds, Fails(b)
      PROVE  RoundsAsked'
  BY <1>1, <1>7 DEF Fails, Throw, RoundsTyped
<1>8. ASSUME NEW b \in Builds, Ended(b) \/ Create(b) \/ Answer(b) \/ FinalFold(b)
      PROVE  RoundsAsked'
  BY <1>2, <1>8 DEF Ended, Create, Answer, FinalFold
<1>9. ASSUME NEW b \in Builds, AskTools(b)
      PROVE  RoundsAsked'
  <2>1. /\ current' = [current EXCEPT ![b] = Len(rounds) + 1] /\ UNCHANGED running
        /\ \E k \in {"asked", "folding"} : Goto(b, k)
    BY <1>9 DEF AskTools
  <2>2. Len(rounds') = Len(rounds) + 1
    BY <1>1, <1>9 DEF AskTools, RoundsTyped
  <2>3. \A c \in running' : c \in Call /\ c.round <= Len(rounds)
    BY <1>1, <2>1 DEF RoundsTyped
  <2>4. \A c \in running' : c.round <= Len(rounds')
    BY <1>1, <2>2, <2>3, AgenticAssumption DEF Call
  <2>5. current' \in [Builds -> Nat] /\ current'[b] # 0
        /\ \A a \in Builds : a # b => current'[a] = current[a]
    BY <1>1, <2>1 DEF RoundsTyped
  <2>6. \A a \in Builds : pc'[a] \in {"asked", "tools"} => current'[a] # 0
    BY <1>1, <2>1, <2>5
  <2>. QED
    BY <2>4, <2>6
<1>10. ASSUME NEW b \in Builds, StartTools(b)
       PROVE  RoundsAsked'
  <2>1. /\ Goto(b, "tools") /\ UNCHANGED <<current, rounds>>
        /\ current[b] # 0 /\ current[b] \in 0 .. Len(rounds)
    BY <1>1, <1>10 DEF StartTools, RoundsTyped
  <2>2. \A c \in running' : c \in running \/ c.round = current[b]
    BY <1>10 DEF StartTools
  <2>. QED
    BY <1>1, <2>1, <2>2
<1>11. ASSUME NEW c \in running, ToolStep(c)
       PROVE  RoundsAsked'
  <2>1. ToolMoves /\ UNCHANGED rounds
    BY <1>11, ToolStepMoves DEF IInv
  <2>. QED
    BY <1>1, <2>1 DEF ToolMoves, RoundsTyped
<1>12. CASE UNCHANGED vars
  BY <1>1, <1>12 DEF vars
<1>. QED
  BY <1>3, <1>4, <1>5, <1>6, <1>7, <1>8, <1>9, <1>10, <1>11, <1>12 DEF Next, BuildStep

\* One build has the controller to itself as long as no second one begins.
LEMMA AloneStep ==
  ASSUME IInv, [Next]_vars
  PROVE  Alone'
<1>. SUFFICES ASSUME ~overlapped'
     PROVE  Alone'
  BY DEF Alone
<1>1. Alone /\ BuildsTyped /\ TypeOK
  BY TypeParts DEF IInv
<1>2. ~overlapped
  BY <1>1, ToolStepMoves
  DEF IInv, Next, BuildStep, UserInput, Begin, Stop, Restart, GenerateAll, Enter, Ended, Fails,
      Throw, Create, Answer, AskTools, StartTools, FoldEndsForBuild, GenerationEnds, FinalFold,
      vars, BuildsTyped
<1>3. /\ \A a, b \in Builds : Active(a) /\ Active(b) => a = b
      /\ \A b \in Builds : pc[b] \in {"create", "model", "asked", "tools", "done", "folding"} =>
           b \in held \union aborted
  BY <1>1, <1>2 DEF Alone
<1>. USE DEF Alone, BuildsTyped, Goto, Active
<1>4. ASSUME NEW b \in Builds, Active(b), NEW k \in {"create", "model", "asked", "tools", "done",
                                                   "folding", "ending", "idle"},
             Goto(b, k), held' \union aborted' = held \union aborted,
             k \in {"ending", "idle"} \/
               pc[b] \in {"create", "model", "asked", "tools", "done", "folding"}
      PROVE  Alone'
  BY <1>1, <1>3, <1>4
<1>5. ASSUME NEW b \in Builds, Begin(b), ~Active(b), UNCHANGED <<held, aborted>>
      PROVE  Alone'
  BY <1>1, <1>3, <1>5 DEF Begin
<1>6. CASE UserInput
  <2>1. CASE UNCHANGED pc
    BY <1>3, <1>6, <2>1 DEF UserInput
  <2>. QED
    BY <1>5, <1>6, <2>1 DEF UserInput
<1>7. CASE Stop \/ Restart
  BY <1>1, <1>3, <1>7 DEF Stop, Restart
<1>8. ASSUME NEW b \in Builds, GenerateAll(b)
      PROVE  Alone'
  BY <1>5, <1>8 DEF GenerateAll
<1>9. ASSUME NEW b \in Builds, Enter(b) \/ FoldEndsForBuild(b) \/ GenerationEnds(b)
      PROVE  Alone'
  <2>1. Active(b)
    BY <1>9 DEF Enter, FoldEndsForBuild, GenerationEnds
  <2>2. CASE Goto(b, "create") /\ held' \in {{b}, held \union {b}} /\ aborted' = aborted \ {b}
    BY <1>1, <1>3, <2>1, <2>2
  <2>3. CASE Goto(b, "ending") /\ held' = {} /\ aborted' = aborted
    BY <1>1, <1>3, <2>1, <2>3
  <2>4. CASE Goto(b, "idle") /\ UNCHANGED <<held, aborted>>
    BY <1>1, <1>3, <2>1, <2>4
  <2>5. CASE Goto(b, "asked") /\ pc[b] = "folding" /\ UNCHANGED <<held, aborted>>
    BY <1>4, <2>1, <2>5
  <2>. QED
    BY <1>9, <2>2, <2>3, <2>4, <2>5, LoopEnters
<1>10. ASSUME NEW b \in Builds, Ended(b)
       PROVE  Alone'
  BY <1>1, <1>3, <1>10 DEF Ended
<1>11. ASSUME NEW b \in Builds, Fails(b)
       PROVE  Alone'
  BY <1>1, <1>3, <1>11 DEF Fails, Throw
<1>12. ASSUME NEW b \in Builds,
              Create(b) \/ Answer(b) \/ AskTools(b) \/ StartTools(b) \/ FinalFold(b)
       PROVE  Alone'
  <2>1. /\ UNCHANGED <<held, aborted>>
        /\ pc[b] \in {"create", "model", "asked", "tools", "done", "folding"}
        /\ \E k \in {"model", "done", "asked", "folding", "tools"} : Goto(b, k)
    BY <1>12 DEF Create, Answer, AskTools, StartTools, FinalFold
  <2>. QED
    BY <1>4, <2>1
<1>13. ASSUME NEW c \in running, ToolStep(c)
       PROVE  Alone'
  <2>1. ToolMoves /\ UNCHANGED <<held, aborted>>
    BY <1>13, ToolStepMoves DEF IInv
  <2>2. CASE UNCHANGED pc
    BY <1>3, <2>1, <2>2
  <2>3. CASE \E b \in Builds, k \in {"create", "done"} : pc[b] = "tools" /\ Goto(b, k)
    BY <1>4, <2>1, <2>3
  <2>. QED
    BY <2>1, <2>2, <2>3 DEF ToolMoves
<1>14. CASE UNCHANGED vars
  BY <1>1, <1>14 DEF vars
<1>. QED
  BY <1>6, <1>7, <1>8, <1>9, <1>10, <1>11, <1>12, <1>13, <1>14 DEF Next, BuildStep

\* What the loop and the calls record is covered; a summary is what it read.
LEMMA FoldCoversStep ==
  ASSUME IInv, [Next]_vars
  PROVE  FoldCovers'
<1>1. FoldCovers /\ TypeOK
  BY DEF IInv
<1>. USE DEF FoldCovers
<1>2. ASSUME UNCHANGED <<fullHistory, fold, late>>
      PROVE  FoldCovers'
  BY <1>1, <1>2
<1>3. ASSUME NEW history, history = fullHistory \/ \E f \in fold : history = Folded(f),
             fold' \subseteq fold, history \subseteq fullHistory',
             fold' # {} => fullHistory' \ history \subseteq late' /\ late \subseteq late'
      PROVE  FoldCovers'
  <2>1. \A f \in fold : history \ f.saw \subseteq late /\ f.saw \ history \subseteq late
    BY <1>1, <1>3 DEF Folded
  <2>. QED
    BY <1>1, <1>3, <2>1
<1>4. ASSUME NEW messages \in SUBSET Message, Record(messages), UNCHANGED fold
      PROVE  FoldCovers'
  BY <1>1, <1>4 DEF Record
<1>5. ASSUME NEW who, NEW messages \in SUBSET Message, StartFold(who, fullHistory'),
             fullHistory' = fullHistory \union messages,
             fold # {} => late' = late \union messages
      PROVE  FoldCovers'
  <2>. DEFINE f == [who |-> who, saw |-> fullHistory']
  <2>1. fold' = fold \union {f} /\ f.saw = fullHistory'
    BY <1>5 DEF StartFold
  <2>. HIDE DEF f
  <2>2. \A g \in fold : /\ g.saw \ fullHistory' \subseteq late'
                       /\ fullHistory' \ g.saw \subseteq late'
                       /\ late \subseteq late'
    BY <1>1, <1>5
  <2>. QED
    BY <1>1, <2>1, <2>2
<1>6. ASSUME NEW b \in Builds, NEW controller \in {{}, held}, fold' \subseteq fold,
             NEW history \in SUBSET Message, Loop(b, controller, history),
             history = fullHistory \/ \E f \in fold : history = Folded(f)
      PROVE  FoldCovers'
  <2>1. controller \in SUBSET Builds
    BY <1>1 DEF TypeOK
  <2>2. /\ history \subseteq fullHistory'
        /\ fold' # {} => fullHistory' \ history \subseteq late' /\ late \subseteq late'
    BY <1>1, <1>6, <2>1, LoopMoves
  <2>. QED
    BY <1>3, <1>6, <2>2
<1>7. ASSUME NEW b \in Builds, BuildStep(b)
      PROVE  FoldCovers'
  <2>1. CASE Enter(b)
    <3>1. CASE Loop(b, held, fullHistory)
      BY <1>6, <2>1, <3>1, LoopCallers DEF Enter
    <3>. QED
      BY <1>2, <2>1, <3>1 DEF Enter
  <2>2. CASE AskTools(b)
    <3>1. {Asked(Len(rounds) + 1)} \in SUBSET Message
      BY <1>1, LenProperties DEF TypeOK, Asked, Message
    <3>. QED
      BY <1>4, <1>5, <2>2, <3>1 DEF AskTools, Record
  <2>3. CASE FoldEndsForBuild(b)
    <3>1. CASE current[b] = 0
      <4>1. PICK f \in fold : fold' = fold \ {f} /\ Loop(b, {}, Folded(f))
        BY <2>3, <3>1, LoopCallers
      <4>. QED
        BY <1>6, <4>1, LoopCallers
    <3>2. CASE current[b] # 0
      <4>1. PICK f \in fold : /\ fold' = fold \ {f} /\ fullHistory' = Folded(f)
                             /\ late' = IF fold' = {} THEN {} ELSE late
        BY <2>3, <3>2 DEF FoldEndsForBuild
      <4>. QED
        BY <1>3, <4>1
    <3>. QED
      BY <3>1, <3>2
  <2>4. CASE GenerationEnds(b)
    BY <1>6, <2>4, LoopCallers DEF GenerationEnds
  <2>5. CASE FinalFold(b)
    <3>1. fullHistory' = fullHistory \union {} /\ late' = late \union {}
          /\ StartFold(b, fullHistory')
      BY <2>5 DEF FinalFold
    <3>2. {} \in SUBSET Message
      OBVIOUS
    <3>. QED
      BY <1>5, <3>1, <3>2
  <2>. QED
    BY <1>2, <1>7, <2>1, <2>2, <2>3, <2>4, <2>5
    DEF BuildStep, Ended, Fails, Throw, Create, Answer, StartTools
<1>8. ASSUME NEW c \in running, ToolStep(c)
      PROVE  FoldCovers'
  <2>1. CASE ToolReturnsSilently(c)
    BY <1>2, <2>1 DEF ToolReturnsSilently
  <2>2. CASE ToolReturns(c)
    <3>1. {Result(c)} \in SUBSET Message
      BY <1>1, CallsRound DEF IInv, Result, Message
    <3>2. Record({Result(c)}) /\ (UNCHANGED fold \/ StartFold(c, fullHistory'))
      BY <2>2 DEF ToolReturns
    <3>3. /\ fullHistory' = fullHistory \union {Result(c)}
          /\ fold # {} => late' = late \union {Result(c)}
      BY <3>2 DEF Record
    <3>4. CASE UNCHANGED fold
      BY <1>4, <3>1, <3>2, <3>4
    <3>5. CASE StartFold(c, fullHistory')
      BY <1>5, <3>1, <3>3, <3>5
    <3>. QED
      BY <3>2, <3>4, <3>5
  <2>3. CASE FoldEndsForCall(c)
    <3>1. PICK f \in fold : /\ fold' = fold \ {f} /\ fullHistory' = Folded(f)
                           /\ late' = IF fold' = {} THEN {} ELSE late
      BY <2>3 DEF FoldEndsForCall
    <3>. QED
      BY <1>3, <3>1
  <2>. QED
    BY <1>8, <2>1, <2>2, <2>3 DEF ToolStep
<1>9. CASE Restart
  BY <1>9 DEF Restart
<1>10. ASSUME NEW b \in Builds, GenerateAll(b)
       PROVE  FoldCovers'
  BY <1>2, <1>10 DEF GenerateAll
<1>. QED
  BY <1>2, <1>7, <1>8, <1>9, <1>10 DEF Next, UserInput, Stop, vars

-----------------------------------------------------------------------------
(* What holds initially and after every step.                              *)

LEMMA IInvInit == Init => IInv
<1>. SUFFICES ASSUME Init
     PROVE  IInv
  OBVIOUS
<1>. USE DEF Init
<1>1. QueueTyped /\ RoundsTyped
  BY EmptySeq, AgenticAssumption DEF QueueTyped, RoundsTyped
<1>2. BuildsTyped
  BY DEF BuildsTyped
<1>3. HistoryTyped
  BY AgenticAssumption DEF HistoryTyped
<1>4. Unheld /\ RoundsAsked /\ Alone /\ FoldCovers
  BY DEF Unheld, RoundsAsked, Alone, FoldCovers, Active
<1>. QED
  BY <1>1, <1>2, <1>3, <1>4, TypeParts DEF IInv

LEMMA IInvStep == IInv /\ [Next]_vars => IInv'
<1>. SUFFICES ASSUME IInv, [Next]_vars
     PROVE  IInv'
  OBVIOUS
<1>1. TypeOK'
  BY QueueStep, BuildsStep, RoundsStep, HistoryStep, TypeParts
  DEF TypeOK, QueueTyped, BuildsTyped, RoundsTyped, HistoryTyped
<1>. QED
  BY <1>1, UnheldStep, RoundsAskedStep, AloneStep, FoldCoversStep DEF IInv

\* A step takes away from the conversation only what a summary did not see.
LEMMA HistoryKeptStep ==
  ASSUME IInv, [Next]_vars
  PROVE  fullHistory \ fullHistory' \subseteq late
<1>1. FoldCovers /\ TypeOK
  BY DEF IInv
<1>3. ASSUME NEW b \in Builds, NEW controller \in {{}, held}, NEW history \in SUBSET Message,
             Loop(b, controller, history), fullHistory \ history \subseteq late
      PROVE  fullHistory \ fullHistory' \subseteq late
  <2>1. controller \in SUBSET Builds
    BY <1>1 DEF TypeOK
  <2>2. history \subseteq fullHistory'
    BY <1>1, <1>3, <2>1, LoopMoves
  <2>. QED
    BY <1>3, <2>2
<1>4. ASSUME NEW messages, Record(messages)
      PROVE  fullHistory \ fullHistory' \subseteq late
  BY <1>4 DEF Record
<1>5. \A f \in fold : fullHistory \ Folded(f) \subseteq late
  BY <1>1 DEF FoldCovers, Folded
<1>6. ASSUME NEW b \in Builds, BuildStep(b)
      PROVE  fullHistory \ fullHistory' \subseteq late
  <2>1. CASE Enter(b)
    BY <1>3, <2>1, LoopCallers DEF Enter
  <2>2. CASE FoldEndsForBuild(b)
    <3>1. CASE current[b] = 0
      <4>1. PICK f \in fold : Loop(b, {}, Folded(f))
        BY <2>2, <3>1, LoopCallers
      <4>. QED
        BY <1>3, <1>5, <4>1, LoopCallers
    <3>2. CASE current[b] # 0
      BY <1>5, <2>2, <3>2 DEF FoldEndsForBuild
    <3>. QED
      BY <3>1, <3>2
  <2>3. CASE GenerationEnds(b)
    BY <1>3, <2>3, LoopCallers
  <2>4. CASE AskTools(b)
    BY <1>4, <2>4 DEF AskTools
  <2>. QED
    BY <1>6, <2>1, <2>2, <2>3, <2>4
    DEF BuildStep, Ended, Fails, Throw, Create, Answer, StartTools, FinalFold
<1>7. ASSUME NEW c \in running, ToolStep(c)
      PROVE  fullHistory \ fullHistory' \subseteq late
  <2>1. CASE FoldEndsForCall(c)
    BY <1>5, <2>1 DEF FoldEndsForCall
  <2>. QED
    BY <1>4, <1>7, <2>1 DEF ToolStep, ToolReturns, ToolReturnsSilently
<1>. QED
  BY <1>6, <1>7 DEF Next, UserInput, Stop, Restart, GenerateAll, vars

-----------------------------------------------------------------------------
(* The theorems.                                                           *)

\* The invariant that the others follow from holds of every reachable state.
THEOREM InductiveInvariant == Spec => []IInv
<1>. QED
  BY IInvInit, IInvStep, PTL DEF Spec

\* Every variable of the agentic behaviour keeps its type, through overlapping
\* builds, stops, exceptions and restarts.
THEOREM TypeCorrectness == Spec => []TypeOK
<1>1. IInv => TypeOK
  BY DEF IInv
<1>. QED
  BY <1>1, InductiveInvariant, PTL

\* cancelCurrentInference: while builds have not overlapped, the signal of the
\* generation under way is the current controller's, or is aborted already.
THEOREM StopReachesHolds == Spec => []StopReaches
<1>1. IInv => StopReaches
  BY DEF IInv, Alone, StopReaches
<1>. QED
  BY <1>1, InductiveInvariant, PTL

\* compactifyIfNeeded: a message leaves the conversation only if it was added
\* between the reading of the conversation and its summary.
THEOREM HistoryKeptHolds == Spec => HistoryKept
<1>1. IInv /\ [Next]_vars => [fullHistory \ fullHistory' \subseteq late]_vars
  BY HistoryKeptStep
<1>. QED
  BY <1>1, InductiveInvariant, PTL DEF Spec, HistoryKept
=============================================================================
