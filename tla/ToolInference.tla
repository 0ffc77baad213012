---------------------------- MODULE ToolInference ----------------------------
(***************************************************************************)
(* An inference with tools: runToolInference, executeInference's retries,  *)
(* infer()'s chain of model calls and tool rounds, and the execution of a  *)
(* round's calls in groups (toolExecution.ts).  A caller starts one        *)
(* inference after the other; tools left running by one that was broken    *)
(* off are still there when the next one starts.                           *)
(*                                                                         *)
(* A tool stands for a name with its arguments.  What the model answers,   *)
(* what fails and when the user stops is nondeterministic.                 *)
(***************************************************************************)
EXTENDS Naturals, Sequences

CONSTANTS
  Tool,           \* what the model can call
  Defined,        \* those of them the request has a definition for
  Completion,     \* names of the CompletionDetector
  Access,         \* the resources of each tool's call
  WholeResponses, \* [n |-> what a stream of n calls comes to] when it is
  CutResponses,   \* complete, and when it was cut off (module ToolCallStream)
  MaxBatch,       \* bound: calls in one response
  MaxDepth,       \* getMaxToolCallingDepth
  RetryLimit,     \* retryLimit
  MaxInferences,  \* bound: inferences the caller starts
  Faults          \* TRUE: the provider, tools and the user interfere

ASSUME InferenceAssumption ==
  /\ Defined \subseteq Tool /\ Completion \subseteq Defined
  /\ {MaxBatch, MaxDepth} \subseteq Nat
  /\ RetryLimit \in Nat \ {0} /\ MaxInferences \in Nat \ {0}
  /\ Faults \in BOOLEAN
  /\ \A n \in 1 .. MaxBatch : \A response \in WholeResponses[n] \union CutResponses[n] :
       response \in Seq([call : 1 .. n, whole : BOOLEAN]) /\ Len(response) <= n

VARIABLES
  pc,         \* where the inference is
  inference,  \* which inference it is
  attempt,    \* executeInference's attempt
  aborted,    \* the signal of runToolInference's controller
  context,    \* toolCallContext: the rounds so far
  batch,      \* the calls of the response
  executed,   \* the calls of the groups up to the current one
  group,      \* the current group
  got,        \* those of the group that returned
  recorded,   \* the round's calls whose result the conversation has
  fruitful,   \* a call other than a completion returned something
  running,    \* tool calls in progress, abandoned ones included
  outcome,    \* what executeInference ended with
  owed,       \* the conversation holds a call of a round that is over, and
              \* held no result of it then
  sent,       \* history: the calls the model sent, and whether all arrived
  looped,     \* history: the attempt failed because the text repeated itself
  abandoned,  \* history: an exception left calls running
  spoiled      \* history: a call failed, threw, had no definition or was a
              \* completion's

vars == <<pc, inference, attempt, aborted, context, batch, executed, group, got,
          recorded, fruitful, running, outcome, owed, sent, looped, abandoned, spoiled>>

\* The variables of a round.
round == <<batch, executed, group, got, recorded, fruitful, sent>>

\* What became of the conversation's calls.
results == <<owed, spoiled>>

Call == [inference : 1 .. MaxInferences, attempt : 0 .. RetryLimit - 1,
         depth : 0 .. MaxDepth, pos : 1 .. MaxBatch, tool : Tool, whole : BOOLEAN]

-----------------------------------------------------------------------------
(* Resources and the execution plan.                                       *)

PathsOverlap(p, q) == p = {} \/ q = {} \/ p \intersect q # {}  \* {}: all files

Exclusive == {"exec", "analysis", "deploy"}

\* Mutant: a read does not conflict with a write.
ResourceConflictMutant(r, s) ==
  \/ r.files = "write" /\ s.files = "write" /\ PathsOverlap(r.paths, s.paths)
  \/ /\ "none" \notin {r.sandbox, s.sandbox}
     /\ r.sandbox \in Exclusive \/ s.sandbox \in Exclusive
  \/ r.blueprint /\ s.blueprint
  \/ r.gitCommit /\ s.files = "write"
  \/ s.gitCommit /\ r.files = "write"

\* hasResourceConflict.
ResourceConflict(r, s) ==
  \/ /\ "none" \notin {r.files, s.files} /\ "write" \in {r.files, s.files}
     /\ PathsOverlap(r.paths, s.paths)
  \/ /\ "none" \notin {r.sandbox, s.sandbox}
     /\ r.sandbox \in Exclusive \/ s.sandbox \in Exclusive
  \/ r.blueprint /\ s.blueprint
  \/ r.gitCommit /\ s.files = "write"
  \/ s.gitCommit /\ r.files = "write"

\* A tool without a definition, and a call whose arguments do not parse, has
\* no resources.
Conflict(c, d) ==
  /\ c.tool \in Defined /\ d.tool \in Defined /\ c.whole /\ d.whole
  /\ ResourceConflict(Access[c.tool], Access[d.tool])

\* A later call depends on the earlier ones it conflicts with.
DependsOn(i) == {j \in 1 .. (i - 1) : Conflict(batch[i], batch[j])}

\* buildExecutionPlan: the calls not planned yet whose dependencies are.
NextGroup ==
  {i \in DOMAIN batch \ executed : DependsOn(i) \subseteq executed}

-----------------------------------------------------------------------------

\* A round's variables are those of one round, and the chain is within its
\* depth and the calls within one response's.
TypeOK ==
  /\ pc \in {"create", "stream", "tools", "backoff", "end"}
  /\ inference \in 1 .. MaxInferences /\ attempt \in 0 .. RetryLimit - 1
  /\ aborted \in BOOLEAN
  /\ context \in Seq([calls : SUBSET (1 .. MaxBatch), answered : SUBSET (1 .. MaxBatch)])
  /\ Len(context) <= MaxDepth
  /\ batch \in Seq(Call) /\ Len(batch) <= MaxBatch
  /\ group \subseteq executed /\ executed \subseteq DOMAIN batch /\ got \subseteq group
  /\ recorded \subseteq executed
  /\ fruitful \in BOOLEAN /\ running \subseteq Call
  /\ outcome \in {"none", "string", "null", "cancelled", "limited"}
  /\ {owed, looped, abandoned, spoiled} \subseteq BOOLEAN

Init ==
  /\ pc = "create" /\ inference = 1 /\ attempt = 0
  /\ aborted = FALSE
  /\ context = <<>> /\ batch = <<>> /\ executed = {} /\ group = {} /\ got = {}
  /\ recorded = {} /\ fruitful = FALSE /\ running = {} /\ outcome = "none"
  /\ sent = [names |-> <<>>, whole |-> FALSE]
  /\ owed = FALSE /\ looped = FALSE /\ abandoned = FALSE /\ spoiled = FALSE

\* The local variables of a round are gone with it; the conversation keeps its
\* calls, and the results that came.
RoundOver(came) ==
  /\ batch' = <<>> /\ executed' = {} /\ group' = {} /\ got' = {} /\ recorded' = {}
  /\ fruitful' = FALSE
  /\ owed' = (owed \/ came # DOMAIN batch)
  /\ sent' = [names |-> <<>>, whole |-> FALSE]

End(result) == pc' = "end" /\ outcome' = result

\* Mutant: one attempt too many.
FailMutant ==
  /\ IF attempt = RetryLimit THEN End("null")
                             ELSE pc' = "backoff" /\ UNCHANGED outcome
  /\ context' = <<>>

\* executeInference's catch: another attempt after a pause, unless it was the
\* last; what the failed attempt's rounds did is forgotten.
Fail ==
  /\ IF attempt = RetryLimit - 1 THEN End("null")
                                 ELSE pc' = "backoff" /\ UNCHANGED outcome
  /\ context' = <<>>

-----------------------------------------------------------------------------
(* The model call.                                                         *)

\* The depth is checked before anything else.
DepthReached ==
  /\ pc = "create" /\ Len(context) = MaxDepth
  /\ End("string")
  /\ UNCHANGED <<inference, attempt, aborted, context, round, running, looped,
                 abandoned, results>>

MayCreate == pc = "create" /\ Len(context) < MaxDepth

\* The rate limit's exception is not retried.
RateLimited ==
  /\ Faults /\ MayCreate
  /\ End("limited")
  /\ UNCHANGED <<inference, attempt, aborted, context, round, running, looped,
                 abandoned, results>>

\* An aborted signal makes the client throw, and any exception that speaks of an
\* abort counts as one: 'cancelled' is not retried.
CreateCancelled ==
  /\ MayCreate /\ (aborted \/ Faults)
  /\ End("cancelled")
  /\ UNCHANGED <<inference, attempt, aborted, context, round, running, looped,
                 abandoned, results>>

CreateFails ==
  /\ Faults /\ MayCreate
  /\ Fail
  /\ UNCHANGED <<inference, attempt, aborted, round, running, looped, abandoned, results>>

Create ==
  /\ MayCreate /\ ~aborted
  /\ pc' = "stream" /\ looped' = FALSE
  /\ UNCHANGED <<inference, attempt, aborted, context, round, running, outcome,
                 abandoned, results>>

StreamFails ==
  /\ Faults /\ pc = "stream"
  /\ Fail
  /\ UNCHANGED <<inference, attempt, aborted, round, running, looped, abandoned, results>>

\* wrappedStreamCb: the repetition aborts the request and fails the attempt.
TextRepeats ==
  /\ pc = "stream"
  /\ Fail
  /\ aborted' = TRUE /\ looped' = TRUE
  /\ UNCHANGED <<inference, attempt, round, running, abandoned, results>>

\* What can come of a response with n calls.
Responses == [n \in 1 .. MaxBatch |-> [whole |-> WholeResponses[n], cut |-> CutResponses[n]]]

\* The calls of a response: the place in it is their id.
CallsOf(response, names) ==
  [i \in DOMAIN response |->
     [inference |-> inference, attempt |-> attempt, depth |-> Len(context), pos |-> i,
      tool |-> names[response[i].call], whole |-> response[i].whole]]

\* A response without calls is the answer.
Answer ==
  /\ pc = "stream"
  /\ End("string")
  /\ UNCHANGED <<inference, attempt, aborted, context, round, running, looped,
                 abandoned, results>>

\* A response with calls is recorded in the conversation (onAssistantMessage) and
\* goes to executeToolCalls; one an abort, or the token
\* limit, has cut off does so too.
Respond ==
  /\ pc = "stream"
  /\ \E n \in 1 .. MaxBatch : \E names \in [1 .. n -> Tool] :
       \/ /\ ~aborted
          /\ \E response \in Responses[n].whole : batch' = CallsOf(response, names)
          /\ sent' = [names |-> names, whole |-> TRUE]
       \/ /\ Faults
          /\ \E response \in Responses[n].cut :
               response # <<>> /\ batch' = CallsOf(response, names)
          /\ sent' = [names |-> names, whole |-> FALSE]
  /\ pc' = "tools" /\ executed' = {} /\ group' = {} /\ got' = {}
  /\ recorded' = {} /\ fruitful' = FALSE
  /\ UNCHANGED <<inference, attempt, aborted, context, running, outcome, looped,
                 abandoned, results>>

-----------------------------------------------------------------------------
(* The tool calls of a round.                                              *)

\* Promise.all over a group: every call of it starts.
StartGroup ==
  /\ pc = "tools" /\ got = group /\ executed # DOMAIN batch
  /\ \A i \in NextGroup : batch[i].tool \in Defined
  /\ group' = NextGroup /\ executed' = executed \union NextGroup /\ got' = {}
  /\ running' = running \union {batch[i] : i \in NextGroup}
  /\ UNCHANGED <<pc, inference, attempt, aborted, context, batch, recorded, fruitful,
                 sent, outcome, looped, abandoned, results>>

\* A missing definition rejects Promise.all: the other calls of the group have
\* started, no later group will, and infer() goes on without any result.
MissingDefinition ==
  /\ pc = "tools" /\ got = group /\ executed # DOMAIN batch
  /\ \E i \in NextGroup : batch[i].tool \notin Defined
  /\ LET started == {batch[i] : i \in {j \in NextGroup : batch[j].tool \in Defined}}
     IN  /\ running' = running \union started
         /\ abandoned' = (abandoned \/ started # {})
  /\ End("string") /\ RoundOver(recorded) /\ spoiled' = TRUE
  /\ UNCHANGED <<inference, attempt, aborted, context, looped>>

\* executeSingleTool.  A tool returns something or nothing, and onComplete puts
\* the result in the conversation; a failed call returns its error and
\* a completion's tool has no renderer, and neither is recorded.
ToolReturns ==
  /\ pc = "tools"
  /\ \E i \in group \ got, result \in {"something", "nothing", "error"} :
       LET completion == batch[i].tool \in Completion
           records    == result # "error" /\ ~completion
       IN  /\ result = "error" => Faults \/ ~batch[i].whole
           /\ ~batch[i].whole => result = "error"
           /\ got' = got \union {i}
           /\ running' = running \ {batch[i]}
           /\ recorded' = recorded \union (IF records THEN {i} ELSE {})
           /\ spoiled' = (spoiled \/ ~records)
           /\ fruitful' = (fruitful \/ (result # "nothing" /\ ~completion))
  /\ UNCHANGED <<pc, inference, attempt, aborted, context, batch, executed, group, owed,
                 sent, outcome, looped, abandoned>>

\* updateToolCallContext: the calls, and the results executeToolCalls gave.
Extended(answered) ==
  Append(context, [calls |-> DOMAIN batch, answered |-> answered])

\* A tool, or its callback, throws: the error is not turned into a result when
\* it is called AbortError.  Infer's own comes of onToolComplete, which has
\* recorded the result and finds the user's messages queued: the context gets the
\* calls without their results.  Either way the chain ends there.
ToolAborts ==
  /\ Faults /\ pc = "tools"
  /\ \E i \in group \ got, ours \in BOOLEAN :
       /\ batch[i].whole
       /\ ours => batch[i].tool \notin Completion
       /\ running' = running \ {batch[i]}
       /\ abandoned' = (abandoned \/ group \ got # {i})
       /\ context' = IF ours THEN Extended({}) ELSE context
       /\ RoundOver(recorded \union (IF ours THEN {i} ELSE {}))
  /\ End("string") /\ spoiled' = TRUE
  /\ UNCHANGED <<inference, attempt, aborted, looped>>

Signaled == \E i \in DOMAIN batch : batch[i].tool \in Completion

\* Mutant: the groups after the first are left out.
RoundExecutedMutant == pc = "tools" /\ got = group /\ group # {}

RoundExecuted == pc = "tools" /\ got = group /\ executed = DOMAIN batch

\* A completion signal, or results that are all empty, end the chain.
RoundEnds ==
  /\ RoundExecuted /\ (Signaled \/ ~fruitful)
  /\ context' = Extended(executed)
  /\ End("string") /\ RoundOver(recorded)
  /\ UNCHANGED <<inference, attempt, aborted, running, looped, abandoned, spoiled>>

\* The results go back to the model.
Recurse ==
  /\ RoundExecuted /\ ~Signaled /\ fruitful
  /\ context' = Extended(executed)
  /\ pc' = "create" /\ RoundOver(recorded)
  /\ UNCHANGED <<inference, attempt, aborted, running, outcome, looped, abandoned, spoiled>>

-----------------------------------------------------------------------------

\* Mutant: the attempt is not counted.
RetryMutant ==
  /\ pc = "backoff"
  /\ pc' = "create"
  /\ UNCHANGED <<inference, attempt, aborted, context, round, running, outcome, looped,
                 abandoned, results>>

Retry ==
  /\ pc = "backoff"
  /\ pc' = "create" /\ attempt' = attempt + 1
  /\ UNCHANGED <<inference, aborted, context, round, running, outcome, looped,
                 abandoned, results>>

\* A tool left running by a chain that was broken off settles unheard.
Current == {batch[i] : i \in group \ got}
Orphans == IF pc = "tools" THEN running \ Current ELSE running

OrphanSettles ==
  /\ \E c \in Orphans : running' = running \ {c}
  /\ UNCHANGED <<pc, inference, attempt, aborted, context, round, outcome, looped,
                 abandoned, results>>

\* The user stops the generation: the parent's signal aborts the request's.
UserStops ==
  /\ Faults /\ pc # "end" /\ ~aborted
  /\ aborted' = TRUE
  /\ UNCHANGED <<pc, inference, attempt, context, round, running, outcome, looped,
                 abandoned, results>>

\* The caller starts the next inference, with a controller of its own.
NextInference ==
  /\ pc = "end" /\ inference < MaxInferences
  /\ inference' = inference + 1
  /\ pc' = "create" /\ attempt' = 0 /\ aborted' = FALSE /\ context' = <<>>
  /\ outcome' = "none" /\ looped' = FALSE
  /\ UNCHANGED <<round, running, abandoned, results>>

Model == DepthReached \/ RateLimited \/ CreateCancelled \/ CreateFails \/ Create
           \/ StreamFails \/ TextRepeats \/ Answer \/ Respond \/ Retry
Tools == StartGroup \/ MissingDefinition \/ ToolReturns \/ ToolAborts
           \/ RoundEnds \/ Recurse

Next == Model \/ Tools \/ OrphanSettles \/ UserStops \/ NextInference

Spec == Init /\ [][Next]_vars

\* Timers fire, requests are answered or fail and tools settle.
FairSpec == Spec /\ WF_vars(Model \/ Tools)

-----------------------------------------------------------------------------
(* Properties.                                                             *)

RoundOf(c) == <<c.inference, c.attempt, c.depth>>

\* What a call changes and what it looks at: files one by one, the sandbox, the
\* blueprint.  A commit looks at every file.
Files == {"any other"} \union UNION {Access[t].paths : t \in Defined}
FilesOf(paths) == IF paths = {} THEN Files ELSE paths

Changes(r) ==
  (IF r.files = "write" THEN {"file"} \X FilesOf(r.paths) ELSE {})
    \union (IF r.sandbox \in Exclusive THEN {<<"sandbox", "">>} ELSE {})
    \union (IF r.blueprint THEN {<<"blueprint", "">>} ELSE {})
LooksAt(r) ==
  Changes(r) \union (IF r.files = "read" THEN {"file"} \X FilesOf(r.paths) ELSE {})
    \union (IF r.sandbox = "read" THEN {<<"sandbox", "">>} ELSE {})
    \union (IF r.gitCommit THEN {"file"} \X Files ELSE {})

Interfere(c, d) ==
  /\ c.tool \in Defined /\ d.tool \in Defined /\ c.whole /\ d.whole
  /\ LET r == Access[c.tool]
         s == Access[d.tool]
     IN  Changes(r) \intersect LooksAt(s) # {} \/ Changes(s) \intersect LooksAt(r) # {}

\* A call that changes what another one looks at runs before or after it, in the
\* order of the response; the two overlap only when one of them was left
\* running by an earlier round that an exception broke off.
ConflictsSerial ==
  /\ \A c, d \in running : c # d /\ Interfere(c, d) => abandoned /\ RoundOf(c) # RoundOf(d)
  /\ pc = "tools" =>
       \A i \in executed : \A j \in 1 .. (i - 1) :
         Interfere(batch[i], batch[j]) => j \in executed \ (group \ got)

\* A request is the conversation, as it was when the inference started, and the
\* chain's own rounds; a provider refuses one with a tool call that no result
\* follows.  The chain never has one, whatever became of the rounds before.  The
\* conversation has none either for as long as no call failed, threw, had no
\* definition or was a completion's: it is those that go unrecorded, and never a
\* call that a stop, a retry or a limit came upon.
AnswersComplete ==
  /\ pc \in {"create", "stream"} =>
       \A r \in DOMAIN context : context[r].answered = context[r].calls
  /\ owed => spoiled

\* Whatever way a provider labels the deltas and however those of different
\* calls interleave, a response that arrives whole gives the calls the model
\* sent, in its order, with all of their arguments.
StreamAssembled ==
  (pc = "tools" /\ sent.whole) =>
    /\ [i \in DOMAIN batch |-> batch[i].tool] = sent.names
    /\ \A i \in DOMAIN batch : batch[i].whole

\* An inference ends, whatever fails and whatever tools the model calls.
InferenceEnds == []<>(pc = "end")

-----------------------------------------------------------------------------
(* Refuted: what a document, a test or a comment says and TLC finds violated *)
(* (README, "What the models disagree on").  No run checks these.            *)

\* "Throw InferError to trigger retry logic in executeInference": when the text
\* repeated itself and attempts are left, the model is asked again.
RepetitionRetried == (pc = "backoff" /\ looped) ~> (pc = "stream")
=============================================================================
