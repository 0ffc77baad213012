-------------------------- MODULE OperationProofs --------------------------
(***************************************************************************)
(* Proofs about the two halves of an operation of the agent: ToolInference *)
(* (the rounds of an inference and the tools they run), for every set of   *)
(* tools and every resources they use, every size of a response, depth and *)
(* number of attempts, with ToolCallStream (a response's calls from their  *)
(* deltas) for any number of deltas; and FileStream (the files of a        *)
(* phase), for every set of texts and files and every number of attempts.  *)
(***************************************************************************)
EXTENDS ToolInference, ToolCallStream, FileStream, FiniteSetTheorems, SequenceTheorems,
        WellFoundedInduction, TLAPS

-----------------------------------------------------------------------------
(* The rounds of an inference *)

\* A chain that goes on is within its depth, an attempt is followed by another
\* only within the limit, and a round's variables are empty outside of one.
Bounded ==
  /\ pc \in {"stream", "tools"} => Len(context) < MaxDepth
  /\ pc = "backoff" => attempt < RetryLimit - 1
  /\ pc # "tools" => batch = <<>> /\ executed = {} /\ group = {} /\ got = {}

\* The calls of the batch belong to the current round.
Belongs ==
  \A i \in DOMAIN batch :
    RoundOf(batch[i]) = <<inference, attempt, Len(context)>> /\ batch[i].pos = i

\* What a planned call depends on was planned in an earlier group.
Planned == \A i \in executed : DependsOn(i) \subseteq executed \ group

\* A running call is of the current group, or of an inference that ended.
Running ==
  \A c \in running :
    \/ c.inference < inference
    \/ pc = "end" /\ c.inference = inference
    \/ pc = "tools" /\ c \in Current

\* Calls of one round that conflict do not run together.
Apart ==
  \A c, d \in running : c # d /\ Conflict(c, d) => RoundOf(c) # RoundOf(d)

\* Until an exception leaves calls running, only the current group's run.
Alone == ~abandoned => \A c \in running : pc = "tools" /\ c \in Current

\* Of the calls that returned, only those that broke something went unrecorded,
\* so that a round in which nothing did owes nothing.
Recorded ==
  ~spoiled => ~owed /\ (pc = "tools" => recorded = executed \ (group \ got))

\* While the chain goes on, every call of its rounds is answered.
Answered ==
  pc # "end" => \A r \in DOMAIN context : context[r].answered = context[r].calls

Inv ==
  TypeOK /\ Bounded /\ Belongs /\ Planned /\ Running /\ Apart /\ Alone /\ Answered
    /\ Recorded

-----------------------------------------------------------------------------
(* Lemmas about conflicts and groups.                                      *)

\* Which of two calls comes first does not matter to their conflict.
LEMMA ConflictSymmetric ==
  ASSUME NEW c, NEW d, Conflict(c, d)
  PROVE  Conflict(d, c)
  BY Zenon DEF Conflict, ResourceConflict, PathsOverlap

\* hasResourceConflict misses no call that changes what another one looks at.
LEMMA InterfereConflicts ==
  ASSUME NEW c, NEW d, Interfere(c, d)
  PROVE  Conflict(c, d)
<1>1. ASSUME NEW r, NEW s, NEW x \in Changes(r), x \in LooksAt(s)
      PROVE  ResourceConflict(r, s)
  <2>1. CASE r.files = "write" /\ x \in {"file"} \X FilesOf(r.paths)
    <3>1. PICK p \in FilesOf(r.paths) : x = <<"file", p>> BY <2>1
    <3>2. \/ s.files \in {"read", "write"} /\ p \in FilesOf(s.paths)
          \/ s.gitCommit
      BY <1>1, <3>1 DEF LooksAt, Changes
    <3>3. p \in FilesOf(s.paths) => PathsOverlap(r.paths, s.paths)
      BY <3>1 DEF FilesOf, PathsOverlap
    <3> QED BY <2>1, <3>2, <3>3 DEF ResourceConflict
  <2>2. CASE r.sandbox \in Exclusive /\ x = <<"sandbox", "">>
    <3>1. s.sandbox \in Exclusive \/ s.sandbox = "read"
      BY <1>1, <2>2 DEF LooksAt, Changes
    <3> QED BY <2>2, <3>1 DEF ResourceConflict, Exclusive
  <2>3. CASE r.blueprint /\ x = <<"blueprint", "">>
    <3>1. s.blueprint BY <1>1, <2>3 DEF LooksAt, Changes
    <3> QED BY <2>3, <3>1 DEF ResourceConflict
  <2> QED BY <1>1, <2>1, <2>2, <2>3 DEF Changes
<1>2. ResourceConflict(Access[c.tool], Access[d.tool])
        \/ ResourceConflict(Access[d.tool], Access[c.tool])
  BY <1>1 DEF Interfere
<1>3. Conflict(c, d) \/ Conflict(d, c) BY <1>2 DEF Interfere, Conflict
<1> QED BY <1>3, ConflictSymmetric

\* hasResourceConflict and buildExecutionPlan: the calls of a group do not
\* conflict.
LEMMA GroupApart ==
  ASSUME DOMAIN batch \subseteq Nat \ {0},
         NEW i \in NextGroup, NEW j \in NextGroup, i # j
  PROVE  ~Conflict(batch[i], batch[j])
<1>1. ASSUME NEW k \in NextGroup, NEW l \in NextGroup, k < l
      PROVE  ~Conflict(batch[l], batch[k])
  <2>1. k \in DOMAIN batch /\ l \in DOMAIN batch /\ k \notin executed
    BY DEF NextGroup
  <2>2. k \in 1 .. (l - 1)
    BY <1>1, <2>1
  <2>3. DependsOn(l) \subseteq executed
    BY DEF NextGroup
  <2> QED BY <2>1, <2>2, <2>3 DEF DependsOn
<1>2. i \in Nat /\ j \in Nat BY DEF NextGroup
<1>3. i < j \/ j < i BY <1>2
<1> QED BY <1>1, <1>3, ConflictSymmetric

\* An element of a sequence.
LEMMA ElementOf ==
  ASSUME NEW S, NEW s \in Seq(S), NEW i \in DOMAIN s
  PROVE  s[i] \in S
  OBVIOUS

\* One reader of the batch's positions and calls.
LEMMA BatchShape ==
  ASSUME TypeOK
  PROVE  /\ DOMAIN batch \subseteq 1 .. MaxBatch /\ DOMAIN batch \subseteq Nat \ {0}
         /\ \A i \in DOMAIN batch : batch[i] \in Call
         /\ executed \subseteq DOMAIN batch /\ group \subseteq executed
<1>1. batch \in Seq(Call) /\ Len(batch) <= MaxBatch BY DEF TypeOK
<1>2. DOMAIN batch = 1 .. Len(batch) BY <1>1
<1>3. Len(batch) \in Nat BY <1>1
<1>4. MaxBatch \in Nat BY InferenceAssumption
<1>5. DOMAIN batch \subseteq 1 .. MaxBatch BY <1>1, <1>2, <1>3, <1>4
<1>6. DOMAIN batch \subseteq Nat \ {0} BY <1>2, <1>3
<1>7. \A i \in DOMAIN batch : batch[i] \in Call BY <1>1, <1>2
<1> QED BY <1>5, <1>6, <1>7 DEF TypeOK

\* CallsOf: a response's calls are of the current round.
LEMMA CallsOfRound ==
  ASSUME TypeOK, Len(context) < MaxDepth, NEW n \in 1 .. MaxBatch,
         NEW names \in [1 .. n -> Tool],
         NEW response \in Responses[n].whole \union Responses[n].cut,
         NEW calls, calls = CallsOf(response, names)
  PROVE  /\ calls \in Seq(Call) /\ Len(calls) <= MaxBatch
         /\ \A i \in DOMAIN calls :
              RoundOf(calls[i]) = <<inference, attempt, Len(context)>> /\ calls[i].pos = i
<1> DEFINE S == [call : 1 .. n, whole : BOOLEAN]
<1>1. response \in Seq(S) /\ Len(response) <= n
  BY InferenceAssumption DEF Responses
<1>2. DOMAIN response = 1 .. Len(response) /\ Len(response) \in Nat BY <1>1
<1>3. ASSUME NEW i \in DOMAIN response
      PROVE  /\ calls[i] \in Call /\ calls[i].pos = i
             /\ RoundOf(calls[i]) = <<inference, attempt, Len(context)>>
  <2>1. response[i] \in S BY <1>1, <1>3, ElementOf, Zenon
  <2>2. names[response[i].call] \in Tool /\ response[i].whole \in BOOLEAN BY <2>1
  <2>3. i \in 1 .. MaxBatch BY <1>1, <1>2, <1>3, InferenceAssumption
  <2>4. Len(context) \in 0 .. MaxDepth BY InferenceAssumption DEF TypeOK
  <2>5. inference \in 1 .. MaxInferences /\ attempt \in 0 .. RetryLimit - 1 BY DEF TypeOK
  <2>6. calls[i] = [inference |-> inference, attempt |-> attempt, depth |-> Len(context),
                    pos |-> i, tool |-> names[response[i].call], whole |-> response[i].whole]
    BY <1>3 DEF CallsOf
  <2> QED BY <2>2, <2>3, <2>4, <2>5, <2>6 DEF Call, RoundOf
<1>4. DOMAIN calls = 1 .. Len(response) BY <1>2 DEF CallsOf
<1>5. calls = [i \in 1 .. Len(response) |-> calls[i]] BY <1>2 DEF CallsOf
<1>6. calls \in Seq(Call) /\ Len(calls) = Len(response)
  BY <1>2, <1>3, <1>4, <1>5
<1>7. Len(calls) <= MaxBatch BY <1>1, <1>2, <1>6, InferenceAssumption
<1> QED BY <1>2, <1>3, <1>4, <1>6, <1>7


-----------------------------------------------------------------------------
(* The invariant is inductive.                                             *)

\* Nothing has been called yet.
LEMMA InitInv == Init => Inv
<1> SUFFICES ASSUME Init PROVE Inv OBVIOUS
<1>a. 1 \in 1 .. MaxInferences /\ 0 \in 0 .. RetryLimit - 1 /\ MaxDepth \in Nat /\ MaxBatch \in Nat
  BY InferenceAssumption
<1>b. \A S : <<>> \in Seq(S) /\ Len(<<>>) = 0 OBVIOUS
<1>c. DOMAIN <<>> = {} OBVIOUS
<1>1. TypeOK
  <2>1. /\ context = <<>> /\ batch = <<>> /\ inference = 1 /\ attempt = 0
        /\ executed = {} /\ group = {} /\ got = {} /\ running = {}
        /\ pc = "create" /\ outcome = "none"
        /\ recorded = {} /\ {aborted, fruitful, owed, looped, abandoned, spoiled} \subseteq BOOLEAN
    BY DEF Init
  <2>2. Len(context) <= MaxDepth /\ Len(batch) <= MaxBatch BY <1>a, <1>b, <2>1
  <2>3. batch \in Seq(Call) BY <1>b, <2>1
  <2>4. context \in Seq([calls : SUBSET (1 .. MaxBatch), answered : SUBSET (1 .. MaxBatch)])
    BY <1>b, <2>1
  <2> QED BY <1>a, <2>1, <2>2, <2>3, <2>4 DEF TypeOK
<1>2. Bounded /\ Belongs /\ Planned /\ Running /\ Apart /\ Alone /\ Answered /\ Recorded
  BY DEF Init, Bounded, Belongs, Planned, Running, Apart, Alone, Answered, Recorded, DependsOn
<1> QED BY <1>1, <1>2 DEF Inv

\* Steps outside of a round that leave the running calls alone.
LEMMA ModelInv ==
  ASSUME Inv, Model
  PROVE  Inv'
<1> USE DEF Inv
<1>1. CASE Respond
  <2>0. PICK n \in 1 .. MaxBatch :
          \E names \in [1 .. n -> Tool] :
            \E response \in Responses[n].whole \union Responses[n].cut :
              batch' = CallsOf(response, names)
    BY <1>1 DEF Respond
  <2>1. PICK names \in [1 .. n -> Tool] :
          \E response \in Responses[n].whole \union Responses[n].cut :
            batch' = CallsOf(response, names)
    BY <2>0
  <2>2. Len(context) < MaxDepth BY <1>1 DEF Respond, Bounded
  <2>3. /\ batch' \in Seq(Call) /\ Len(batch') <= MaxBatch
        /\ \A i \in DOMAIN batch' :
             RoundOf(batch'[i]) = <<inference, attempt, Len(context)>> /\ batch'[i].pos = i
    <3>1. PICK response \in Responses[n].whole \union Responses[n].cut :
            batch' = CallsOf(response, names)
      BY <2>1
    <3> QED BY <3>1, <2>2, CallsOfRound
  <2>4. TypeOK' BY <1>1, <2>3 DEF Respond, TypeOK, results
  <2>5. Belongs' BY <1>1, <2>3 DEF Respond, Belongs, RoundOf
  <2>6. Bounded' /\ Planned' BY <1>1, <2>2 DEF Respond, Bounded, Planned
  <2>7. pc = "stream" /\ pc' = "tools" /\ running' = running /\ inference' = inference
        /\ abandoned' = abandoned /\ context' = context /\ UNCHANGED results
        /\ recorded' = {} /\ executed' = {}
    BY <1>1 DEF Respond
  <2>8. Running' /\ Alone' BY <2>7 DEF Running, Alone
  <2>9. Apart' BY <2>7 DEF Apart, Conflict, RoundOf
  <2>10. Answered' /\ Recorded' BY <2>7 DEF Answered, Recorded, results
  <2> QED BY <2>4, <2>5, <2>6, <2>8, <2>9, <2>10
<1>2. CASE Model /\ ~Respond
  <2>1. /\ pc \in {"create", "stream", "backoff"} /\ pc' # "tools"
        /\ UNCHANGED <<inference, round, running, abandoned, results>>
        /\ context' \in {context, <<>>} /\ attempt' \in {attempt, attempt + 1}
    BY <1>2 DEF Model, DepthReached, RateLimited, CreateCancelled, CreateFails, Create,
                StreamFails, TextRepeats, Answer, Retry, Fail, End, MayCreate, round
  <2>2. batch = <<>> /\ executed = {} BY <2>1 DEF Bounded
  <2>3. Belongs' /\ Planned' BY <2>1, <2>2 DEF Belongs, Planned, round
  <2>4. Running' /\ Alone' BY <2>1 DEF Running, Alone, Current, round
  <2>5. Apart' BY <2>1 DEF Apart, Conflict, RoundOf
  <2>6. Answered' /\ Recorded' BY <2>1 DEF Answered, Recorded, results
  <2>7. attempt \in 0 .. RetryLimit - 1 /\ RetryLimit \in Nat \ {0}
    BY InferenceAssumption DEF TypeOK
  <2>8. /\ attempt' \in 0 .. RetryLimit - 1
        /\ pc' = "backoff" => attempt' < RetryLimit - 1
        /\ pc' \in {"create", "stream", "backoff", "end"}
        /\ outcome' \in {"none", "string", "null", "cancelled", "limited"}
        /\ aborted' \in BOOLEAN /\ looped' \in BOOLEAN
        /\ pc' = "stream" => Len(context') < MaxDepth
    <3> USE <2>7 DEF TypeOK, Bounded, End, Fail, MayCreate
    <3>1. CASE DepthReached BY <3>1 DEF DepthReached
    <3>2. CASE RateLimited BY <3>2 DEF RateLimited
    <3>3. CASE CreateCancelled BY <3>3 DEF CreateCancelled
    <3>4. CASE CreateFails BY <3>4 DEF CreateFails
    <3>5. CASE Create BY <3>5 DEF Create
    <3>6. CASE StreamFails BY <3>6 DEF StreamFails
    <3>7. CASE TextRepeats BY <3>7 DEF TextRepeats
    <3>8. CASE Answer BY <3>8 DEF Answer
    <3>9. CASE Retry BY <3>9 DEF Retry
    <3> QED BY <1>2, <3>1, <3>2, <3>3, <3>4, <3>5, <3>6, <3>7, <3>8, <3>9 DEF Model
  <2>9. context' \in Seq([calls : SUBSET (1 .. MaxBatch), answered : SUBSET (1 .. MaxBatch)])
        /\ Len(context') <= MaxDepth
    <3>1. <<>> \in Seq([calls : SUBSET (1 .. MaxBatch), answered : SUBSET (1 .. MaxBatch)])
          /\ Len(<<>>) = 0 /\ MaxDepth \in Nat
      BY InferenceAssumption
    <3>2. CASE context' = context BY <3>2 DEF TypeOK
    <3>3. CASE context' = <<>> BY <3>1, <3>3
    <3> QED BY <2>1, <3>2, <3>3
  <2>10. TypeOK' BY <2>1, <2>8, <2>9 DEF TypeOK, round, results
  <2>11. Bounded' BY <2>1, <2>2, <2>8 DEF Bounded, round
  <2> QED BY <2>3, <2>4, <2>5, <2>6, <2>10, <2>11
<1> QED BY <1>1, <1>2


\* Calls that start join calls of other rounds, and none of them conflict.
LEMMA StartedApart ==
  ASSUME Inv, pc = "tools", got = group,
         NEW started \in SUBSET {batch[i] : i \in NextGroup}
  PROVE  /\ started \subseteq Call
         /\ \A c \in running : c.inference < inference
         /\ \A c \in started : c.inference = inference
         /\ \A c, d \in running \union started :
              c # d /\ Conflict(c, d) => RoundOf(c) # RoundOf(d)
<1> USE DEF Inv
<1>1. /\ DOMAIN batch \subseteq Nat \ {0} /\ \A i \in DOMAIN batch : batch[i] \in Call
      /\ NextGroup \subseteq DOMAIN batch
  BY BatchShape DEF NextGroup
<1>2. \A c \in running : c.inference < inference
  BY DEF Running, Current
<1>3. \A c \in started : c \in Call /\ \E i \in NextGroup : c = batch[i]
  BY <1>1
<1>4. \A i \in DOMAIN batch : batch[i].inference = inference
  BY DEF Belongs, RoundOf
<1>5. \A c \in started : c.inference = inference
  BY <1>1, <1>3, <1>4
<1>6. ASSUME NEW c \in started, NEW d \in started, c # d
      PROVE  ~Conflict(c, d)
  BY <1>1, <1>3, <1>6, GroupApart
<1>7. ASSUME NEW c \in started, NEW d \in running
      PROVE  RoundOf(c) # RoundOf(d) /\ RoundOf(d) # RoundOf(c)
  <2>1. c.inference = inference /\ d.inference < inference /\ inference \in Nat
    BY <1>2, <1>5, InferenceAssumption DEF TypeOK
  <2> QED BY <2>1 DEF RoundOf
<1>8. \A c, d \in running : c # d /\ Conflict(c, d) => RoundOf(c) # RoundOf(d)
  BY DEF Apart
<1> QED BY <1>2, <1>3, <1>5, <1>6, <1>7, <1>8

\* What running calls are left after one ends keep apart.
LEMMA FewerApart ==
  ASSUME Inv, running' \subseteq running
  PROVE  Apart' /\ running' \subseteq Call
<1>1. running' \subseteq Call BY DEF Inv, TypeOK
<1>2. Apart' BY DEF Inv, Apart, Conflict, RoundOf
<1> QED BY <1>1, <1>2

\* updateToolCallContext adds one round.
LEMMA ExtendedContext ==
  ASSUME Inv, pc = "tools", NEW answered \in SUBSET (1 .. MaxBatch)
  PROVE  /\ Extended(answered) \in Seq([calls : SUBSET (1 .. MaxBatch),
                                         answered : SUBSET (1 .. MaxBatch)])
         /\ Len(Extended(answered)) <= MaxDepth
         /\ answered = DOMAIN batch =>
              \A r \in DOMAIN Extended(answered) :
                Extended(answered)[r].answered = Extended(answered)[r].calls
<1> DEFINE R == [calls : SUBSET (1 .. MaxBatch), answered : SUBSET (1 .. MaxBatch)]
           last == [calls |-> DOMAIN batch, answered |-> answered]
<1>1. context \in Seq(R) /\ Len(context) < MaxDepth BY DEF Inv, TypeOK, Bounded
<1>2. last \in R BY BatchShape DEF Inv
<1>3. \A r \in DOMAIN context : context[r].answered = context[r].calls
  BY DEF Inv, Answered
<1>4. last.answered = answered /\ last.calls = DOMAIN batch OBVIOUS
<1> HIDE DEF R, last
<1>5. /\ Append(context, last) \in Seq(R) /\ Len(Append(context, last)) = Len(context) + 1
      /\ \A r \in DOMAIN Append(context, last) :
           Append(context, last)[r] = last \/ (r \in DOMAIN context /\
                                               Append(context, last)[r] = context[r])
  BY <1>1, <1>2
<1>6. Len(context) + 1 <= MaxDepth BY <1>1, InferenceAssumption
<1>7. Extended(answered) = Append(context, last) BY DEF Extended, last
<1>8. Extended(answered) \in Seq(R) /\ Len(Extended(answered)) <= MaxDepth
  BY <1>5, <1>6, <1>7
<1>9. answered = DOMAIN batch =>
        \A r \in DOMAIN Extended(answered) :
          Extended(answered)[r].answered = Extended(answered)[r].calls
  BY <1>3, <1>4, <1>5, <1>7
<1> QED BY <1>8, <1>9 DEF R


\* A round that is over leaves what is said of the running calls to be shown.
LEMMA RoundOverInv ==
  ASSUME Inv, NEW came, RoundOver(came), pc' \in {"create", "end"},
         UNCHANGED <<inference, attempt, aborted, looped>>,
         abandoned' \in BOOLEAN,
         spoiled' = TRUE \/ (spoiled' = spoiled /\ (~spoiled => came = DOMAIN batch)),
         outcome' \in {"none", "string", "null", "cancelled", "limited"},
         context' \in Seq([calls : SUBSET (1 .. MaxBatch), answered : SUBSET (1 .. MaxBatch)]),
         Len(context') <= MaxDepth, running' \subseteq Call,
         Apart', Running', Alone', Answered'
  PROVE  Inv'
<1>a. \A S : <<>> \in Seq(S) /\ Len(<<>>) = 0 OBVIOUS
<1>b. batch' \in Seq(Call) /\ Len(batch') <= MaxBatch
  BY <1>a, InferenceAssumption DEF RoundOver
<1>c. group' \subseteq executed' /\ executed' \subseteq DOMAIN batch' /\ got' \subseteq group'
      /\ fruitful' \in BOOLEAN /\ recorded' \subseteq executed'
  BY DEF RoundOver
<1>d. owed' \in BOOLEAN /\ spoiled' \in BOOLEAN BY DEF RoundOver, Inv, TypeOK
<1>1. TypeOK' BY <1>b, <1>c, <1>d DEF Inv, TypeOK
<1>2. Bounded' BY DEF Inv, Bounded, RoundOver
<1>3. Belongs' /\ Planned' BY DEF Belongs, Planned, RoundOver
<1>4. Recorded'
  <2>1. ASSUME ~spoiled' PROVE ~spoiled /\ came = DOMAIN batch BY <2>1
  <2>2. ASSUME ~spoiled' PROVE ~owed' BY <2>1, <2>2 DEF Inv, Recorded, RoundOver
  <2>3. pc' # "tools" OBVIOUS
  <2> QED BY <2>2, <2>3 DEF Recorded
<1> QED BY <1>1, <1>2, <1>3, <1>4 DEF Inv

\* The steps of a round's tools keep the invariant.
LEMMA ToolsInv ==
  ASSUME Inv, Tools
  PROVE  Inv'
<1> USE DEF Inv
<1>0. /\ DOMAIN batch \subseteq 1 .. MaxBatch /\ DOMAIN batch \in SUBSET (1 .. MaxBatch)
      /\ NextGroup \subseteq DOMAIN batch
  BY BatchShape DEF NextGroup
<1>1. CASE StartGroup
  <2>1. /\ pc = "tools" /\ got = group /\ group' = NextGroup
        /\ executed' = executed \union NextGroup /\ got' = {}
        /\ running' = running \union {batch[i] : i \in NextGroup}
        /\ UNCHANGED <<pc, inference, attempt, aborted, context, batch, recorded, fruitful,
                       outcome, looped, abandoned, results>>
    BY <1>1 DEF StartGroup
  <2>2. /\ {batch[i] : i \in NextGroup} \subseteq Call
        /\ \A c \in running : c.inference < inference
        /\ \A c, d \in running \union {batch[i] : i \in NextGroup} :
             c # d /\ Conflict(c, d) => RoundOf(c) # RoundOf(d)
    BY <2>1, StartedApart
  <2>3. TypeOK' BY <1>0, <2>1, <2>2 DEF TypeOK, results
  <2>4. Bounded' /\ Belongs' /\ Answered' BY <2>1 DEF Bounded, Belongs, Answered, RoundOf
  <2>5. Planned'
    <3>1. \A k \in DOMAIN batch : DependsOn(k)' = DependsOn(k)
      BY <2>1 DEF DependsOn, Conflict
    <3>2. ASSUME NEW k \in executed' PROVE DependsOn(k) \subseteq executed' \ group'
      <4>1. CASE k \in executed
        BY <2>1, <4>1 DEF Planned, NextGroup
      <4>2. CASE k \in NextGroup
        BY <2>1, <4>2 DEF NextGroup
      <4> QED BY <2>1, <4>1, <4>2
    <3> QED BY <1>0, <2>1, <3>1, <3>2 DEF Planned, TypeOK
  <2>6. Current' = {batch[i] : i \in NextGroup} BY <2>1 DEF Current
  <2>7. Running' BY <2>1, <2>2, <2>6 DEF Running
  <2>8. Alone'
    <3>1. ~abandoned => running = {} BY <2>1 DEF Alone, Current
    <3> QED BY <2>1, <2>6, <3>1 DEF Alone
  <2>9. Apart' BY <2>1, <2>2 DEF Apart, Conflict, RoundOf
  <2>10. Recorded'
    <3>1. executed' \ (group' \ got') = executed
      BY <2>1 DEF NextGroup
    <3>2. ~spoiled => recorded = executed BY <2>1 DEF Recorded
    <3> QED BY <2>1, <3>1, <3>2 DEF Recorded, results
  <2> QED BY <2>3, <2>4, <2>5, <2>7, <2>8, <2>9, <2>10
<1>2. CASE MissingDefinition
  <2> DEFINE started == {batch[i] : i \in {j \in NextGroup : batch[j].tool \in Defined}}
  <2>1. /\ pc = "tools" /\ got = group /\ pc' = "end" /\ outcome' = "string"
        /\ running' = running \union started /\ abandoned' = (abandoned \/ started # {})
        /\ RoundOver(recorded) /\ spoiled' = TRUE
        /\ UNCHANGED <<inference, attempt, aborted, context, looped>>
    BY <1>2 DEF MissingDefinition, End
  <2>2. started \in SUBSET {batch[i] : i \in NextGroup} OBVIOUS
  <2> HIDE DEF started
  <2>3. /\ started \subseteq Call /\ \A c \in started : c.inference = inference
        /\ \A c \in running : c.inference < inference
        /\ \A c, d \in running \union started :
             c # d /\ Conflict(c, d) => RoundOf(c) # RoundOf(d)
    BY <2>1, <2>2, StartedApart
  <2>4. Apart' BY <2>1, <2>3 DEF Apart, Conflict, RoundOf
  <2>5. Running' BY <2>1, <2>3 DEF Running
  <2>6. Alone'
    <3>1. ~abandoned => running = {} BY <2>1 DEF Alone, Current
    <3> QED BY <2>1, <3>1 DEF Alone
  <2>7. Answered' BY <2>1 DEF Answered
  <2>8. abandoned' \in BOOLEAN /\ running' \subseteq Call BY <2>1, <2>3 DEF TypeOK
  <2> QED BY <2>1, <2>4, <2>5, <2>6, <2>7, <2>8, RoundOverInv DEF TypeOK
<1>3. CASE ToolReturns
  <2>1. PICK i \in group \ got :
          /\ pc = "tools" /\ got' = got \union {i} /\ running' = running \ {batch[i]}
          /\ fruitful' \in BOOLEAN /\ spoiled' \in BOOLEAN
          /\ recorded' \in {recorded, recorded \union {i}}
          /\ ~spoiled' => ~spoiled /\ recorded' = recorded \union {i}
          /\ UNCHANGED <<pc, inference, attempt, aborted, context, batch, executed, group,
                         outcome, owed, looped, abandoned>>
    BY <1>3 DEF ToolReturns, TypeOK
  <2>2. Apart' /\ running' \subseteq Call BY <2>1, FewerApart
  <2>3. TypeOK' BY <2>1, <2>2 DEF TypeOK
  <2>4. Bounded' /\ Belongs' /\ Answered' BY <2>1 DEF Bounded, Belongs, Answered, RoundOf
  <2>5. Planned' BY <2>1 DEF Planned, DependsOn, Conflict
  <2>6. \A c \in Current : c = batch[i] \/ c \in Current' BY <2>1 DEF Current
  <2>7. Running' /\ Alone' BY <2>1, <2>6 DEF Running, Alone
  <2>8. Recorded'
    <3>1. executed \ (group \ got') = (executed \ (group \ got)) \union {i}
      BY <2>1 DEF TypeOK
    <3> QED BY <2>1, <3>1 DEF Recorded
  <2> QED BY <2>2, <2>3, <2>4, <2>5, <2>7, <2>8
<1>4. CASE ToolAborts
  <2>1. PICK i \in group \ got :
          /\ pc = "tools" /\ pc' = "end" /\ outcome' = "string" /\ spoiled' = TRUE
          /\ \E ours \in BOOLEAN : RoundOver(recorded \union (IF ours THEN {i} ELSE {}))
          /\ running' = running \ {batch[i]}
          /\ abandoned' = (abandoned \/ group \ got # {i})
          /\ context' \in {Extended({}), context}
          /\ UNCHANGED <<inference, attempt, aborted, looped>>
    BY <1>4 DEF ToolAborts, End
  <2>2. Apart' /\ running' \subseteq Call BY <2>1, FewerApart
  <2>3. \A c \in Current : c.inference = inference
    BY <1>0 DEF Current, Belongs, RoundOf, TypeOK
  <2>4. Running' BY <2>1, <2>3 DEF Running
  <2>5. Alone' BY <2>1 DEF Alone, Current
  <2>6. /\ context' \in Seq([calls : SUBSET (1 .. MaxBatch), answered : SUBSET (1 .. MaxBatch)])
        /\ Len(context') <= MaxDepth
    <3>1. {} \in SUBSET (1 .. MaxBatch) OBVIOUS
    <3>2. CASE context' = Extended({}) BY <2>1, <3>1, <3>2, ExtendedContext
    <3>3. CASE context' = context BY <3>3 DEF TypeOK
    <3> QED BY <2>1, <3>2, <3>3
  <2>7. Answered' BY <2>1 DEF Answered
  <2>8. abandoned' \in BOOLEAN BY <2>1 DEF TypeOK
  <2>9. PICK came : RoundOver(came) BY <2>1
  <2> QED BY <2>1, <2>2, <2>4, <2>5, <2>6, <2>7, <2>8, <2>9, RoundOverInv DEF TypeOK
<1>5. CASE RoundEnds \/ Recurse
  <2>1. /\ pc = "tools" /\ got = group /\ pc' \in {"end", "create"}
        /\ outcome' \in {outcome, "string"} /\ RoundOver(recorded)
        /\ executed = DOMAIN batch /\ context' = Extended(DOMAIN batch)
        /\ UNCHANGED <<inference, attempt, aborted, running, looped, abandoned, spoiled>>
    BY <1>5 DEF RoundEnds, Recurse, End, RoundExecuted
  <2>2. Apart' /\ running' \subseteq Call BY <2>1, FewerApart
  <2>3. \A c \in running : c.inference < inference BY <2>1 DEF Running, Current
  <2>4. Running' BY <2>1, <2>3 DEF Running
  <2>5. Alone' BY <2>1 DEF Alone, Current
  <2>6. /\ context' \in Seq([calls : SUBSET (1 .. MaxBatch), answered : SUBSET (1 .. MaxBatch)])
        /\ Len(context') <= MaxDepth
        /\ \A r \in DOMAIN context' : context'[r].answered = context'[r].calls
    BY <1>0, <2>1, ExtendedContext
  <2>7. Answered' BY <2>6 DEF Answered
  <2>8. ~spoiled => recorded = DOMAIN batch BY <2>1 DEF Recorded
  <2> QED BY <2>1, <2>2, <2>4, <2>5, <2>6, <2>7, <2>8, RoundOverInv DEF TypeOK
<1> QED BY <1>1, <1>2, <1>3, <1>4, <1>5 DEF Tools


\* So do the steps of the caller, the user and abandoned tools.
LEMMA OthersInv ==
  ASSUME Inv, OrphanSettles \/ UserStops \/ NextInference
  PROVE  Inv'
<1> USE DEF Inv
<1>1. CASE OrphanSettles
  <2>1. /\ running' \subseteq running
        /\ UNCHANGED <<pc, inference, attempt, aborted, context, round, outcome, looped,
                       abandoned, results>>
    BY <1>1 DEF OrphanSettles, Orphans
  <2>2. Apart' /\ running' \subseteq Call BY <2>1, FewerApart
  <2>3. TypeOK' BY <2>1, <2>2 DEF TypeOK, round, results
  <2>4. Bounded' /\ Belongs' BY <2>1 DEF Bounded, Belongs, RoundOf, round
  <2>7. Answered' /\ Recorded' BY <2>1 DEF Answered, Recorded, round, results
  <2>5. Planned' BY <2>1 DEF Planned, DependsOn, Conflict, round
  <2>6. Running' /\ Alone' BY <2>1 DEF Running, Alone, Current, round
  <2> QED BY <2>2, <2>3, <2>4, <2>5, <2>6, <2>7
<1>2. CASE UserStops
  <2>1. /\ aborted' = TRUE
        /\ UNCHANGED <<pc, inference, attempt, context, round, running, outcome, looped,
                       abandoned, results>>
    BY <1>2 DEF UserStops
  <2>2. Apart' /\ running' \subseteq Call BY <2>1, FewerApart
  <2>3. TypeOK' BY <2>1, <2>2 DEF TypeOK, round, results
  <2>4. Bounded' /\ Belongs' BY <2>1 DEF Bounded, Belongs, RoundOf, round
  <2>7. Answered' /\ Recorded' BY <2>1 DEF Answered, Recorded, round, results
  <2>5. Planned' BY <2>1 DEF Planned, DependsOn, Conflict, round
  <2>6. Running' /\ Alone' BY <2>1 DEF Running, Alone, Current, round
  <2> QED BY <2>2, <2>3, <2>4, <2>5, <2>6, <2>7
<1>3. CASE NextInference
  <2>1. /\ pc = "end" /\ inference < MaxInferences /\ inference' = inference + 1
        /\ pc' = "create" /\ attempt' = 0 /\ aborted' = FALSE /\ context' = <<>>
        /\ outcome' = "none" /\ looped' = FALSE
        /\ UNCHANGED <<round, running, abandoned, results>>
    BY <1>3 DEF NextInference
  <2>2. Apart' /\ running' \subseteq Call BY <2>1, FewerApart
  <2>3. inference' \in 1 .. MaxInferences /\ attempt' \in 0 .. RetryLimit - 1
    BY <2>1, InferenceAssumption DEF TypeOK
  <2>4. context' \in Seq([calls : SUBSET (1 .. MaxBatch), answered : SUBSET (1 .. MaxBatch)])
        /\ Len(context') <= MaxDepth
    <3>1. \A S : <<>> \in Seq(S) /\ Len(<<>>) = 0 OBVIOUS
    <3> QED BY <2>1, <3>1, InferenceAssumption
  <2>5. TypeOK' BY <2>1, <2>2, <2>3, <2>4 DEF TypeOK, round, results
  <2>6. batch = <<>> /\ executed = {} BY <2>1 DEF Bounded
  <2>7. Bounded' /\ Belongs' /\ Planned' /\ Answered' /\ Recorded'
    BY <2>1, <2>6 DEF Bounded, Belongs, Planned, Answered, Recorded, round, results
  <2>8. Running'
    <3>1. \A c \in running : c.inference \in Nat BY DEF TypeOK, Call
    <3>2. \A c \in running : c.inference < inference \/ c.inference = inference
      BY <2>1 DEF Running
    <3> QED BY <2>1, <3>1, <3>2, InferenceAssumption DEF Running, TypeOK
  <2>9. Alone' BY <2>1 DEF Alone
  <2> QED BY <2>2, <2>5, <2>7, <2>8, <2>9
<1> QED BY <1>1, <1>2, <1>3

\* Every step keeps the invariant.
LEMMA NextInv == Inv /\ [Next]_vars => Inv'
<1> SUFFICES ASSUME Inv, [Next]_vars PROVE Inv' OBVIOUS
<1>1. CASE Next BY <1>1, ModelInv, ToolsInv, OthersInv DEF Next
<1>2. CASE UNCHANGED vars
  <2> USE <1>2 DEF vars
  <2>1. TypeOK' BY DEF Inv, TypeOK
  <2>2. Bounded' /\ Belongs' BY DEF Inv, Bounded, Belongs, RoundOf
  <2>6. Answered' /\ Recorded' BY DEF Inv, Answered, Recorded
  <2>3. Planned' BY DEF Inv, Planned, DependsOn, Conflict
  <2>4. Running' /\ Alone' BY DEF Inv, Running, Alone, Current
  <2>5. Apart' BY DEF Inv, Apart, Conflict, RoundOf
  <2> QED BY <2>1, <2>2, <2>3, <2>4, <2>5, <2>6 DEF Inv
<1> QED BY <1>1, <1>2

\* The invariant holds for every set of tools, with the bounds as they are.
THEOREM Invariance == Spec => []Inv
BY InitInv, NextInv, PTL DEF Spec

-----------------------------------------------------------------------------

\* The chain keeps its depth, the attempts their limit and the calls their
\* round.
THEOREM TypeCorrect == Spec => []TypeOK
<1>1. Inv => TypeOK BY DEF Inv
<1> QED BY <1>1, Invariance, PTL

\* executeToolCallsWithDependencies: conflicting calls of a round run in the
\* order of the response, and calls overlap with conflicting ones only after
\* an exception left some of another round running.
THEOREM Serial == Spec => []ConflictsSerial
<1>1. Inv => ConflictsSerial
  <2> SUFFICES ASSUME Inv PROVE ConflictsSerial OBVIOUS
  <2>1. ASSUME NEW c \in running, NEW d \in running, c # d, Interfere(c, d)
        PROVE  abandoned /\ RoundOf(c) # RoundOf(d)
    <3>1. RoundOf(c) # RoundOf(d) BY <2>1, InterfereConflicts DEF Inv, Apart
    <3>2. ASSUME c \in Current, d \in Current
          PROVE  RoundOf(c) = RoundOf(d)
      <4>1. PICK i \in group : c = batch[i] BY <3>2 DEF Current
      <4>2. PICK j \in group : d = batch[j] BY <3>2 DEF Current
      <4>3. i \in DOMAIN batch /\ j \in DOMAIN batch BY BatchShape DEF Inv
      <4>4. /\ RoundOf(batch[i]) = <<inference, attempt, Len(context)>>
            /\ RoundOf(batch[j]) = <<inference, attempt, Len(context)>>
        BY <4>3 DEF Inv, Belongs
      <4> QED BY <4>1, <4>2, <4>4
    <3>3. abandoned BY <3>1, <3>2 DEF Inv, Alone
    <3> QED BY <3>1, <3>3
  <2>2. ASSUME NEW i \in executed, NEW j \in 1 .. (i - 1), Interfere(batch[i], batch[j])
        PROVE  j \in executed \ (group \ got)
    BY <2>2, InterfereConflicts DEF Inv, Planned, DependsOn
  <2> QED BY <2>1, <2>2 DEF ConflictsSerial
<1> QED BY <1>1, Invariance, PTL

\* infer() and withRenderer: the rounds a chain sends back answer all of their
\* calls, and the conversation an inference starts from does unless a call
\* failed, threw, had no definition or was a completion's.
THEOREM Complete == Spec => []AnswersComplete
<1>1. Inv => AnswersComplete BY DEF Inv, Answered, Recorded, AnswersComplete
<1> QED BY <1>1, Invariance, PTL

-----------------------------------------------------------------------------
(* The plan.                                                               *)

\* A nonempty set of naturals has a least element.
LEMMA LeastElement ==
  ASSUME NEW S \in SUBSET Nat, S # {}
  PROVE  \E x \in S : \A y \in S : x <= y
<1> DEFINE R == OpToRel(<, Nat)
<1>1. PICK x \in S : \A y \in S : <<y, x>> \notin R
  <2> HIDE DEF R
  <2>1. IsWellFoundedOn(R, Nat) BY NatLessThanWellFounded DEF R
  <2> QED BY <2>1, WFMin
<1>2. \A y \in S : ~(y < x)
  <2> TAKE y \in S
  <2>1. <<y, x>> \in Nat \X Nat BY <1>1
  <2> QED BY <1>1, <2>1 DEF OpToRel
<1>3. \A y \in S : x <= y
  <2> HIDE DEF R
  <2> TAKE y \in S
  <2>1. x \in Nat /\ y \in Nat /\ ~(y < x) BY <1>2
  <2> QED BY <2>1
<1> QED BY <1>3

\* The first call that is not planned depends on planned ones only.
LEMMA GroupFound ==
  ASSUME TypeOK, executed # DOMAIN batch
  PROVE  NextGroup # {}
<1> DEFINE Left == DOMAIN batch \ executed
<1>1. Left \in SUBSET Nat /\ Left # {} BY BatchShape
<1>2. PICK i \in Left : \A j \in Left : i <= j
  <2> HIDE DEF Left
  <2> QED BY <1>1, LeastElement
<1>3. ASSUME NEW j \in 1 .. (i - 1)
      PROVE  j \in executed
  <2>1. i \in 1 .. Len(batch) /\ Len(batch) \in Nat /\ DOMAIN batch = 1 .. Len(batch)
    BY <1>2 DEF TypeOK
  <2>2. j \in DOMAIN batch /\ ~(i <= j) BY <2>1
  <2> QED BY <1>2, <2>2
<1>4. DependsOn(i) \subseteq executed BY <1>3 DEF DependsOn
<1> QED BY <1>2, <1>4 DEF NextGroup

\* As long as a call is not planned, one has all of its dependencies planned.
PlanFound == pc = "tools" /\ executed # DOMAIN batch => NextGroup # {}

\* buildExecutionPlan always finds a next group: its fallback for circular
\* dependencies ("falling back to sequential") is never taken, whatever the
\* resources of the tools are, which is why the model has none.  (A call's place
\* is its id: no two have the same.)
THEOREM PlanFoundHolds == Spec => []PlanFound
<1>1. Inv => PlanFound BY GroupFound DEF Inv, PlanFound
<1> QED BY <1>1, Invariance, PTL

-----------------------------------------------------------------------------
(* The tool calls of a streamed response *)

\* The deltas of call k among the first m.
CountOf(s, k, m) == Cardinality({j \in 1 .. m : s[j] = k})

\* One step of Accumulated.
AccumulatedStep(shape, s, f, m) ==
  IF m = 0 THEN <<>> ELSE Accumulate(f[m - 1], DeltasOf(shape, s)[m])

\* Its recursion has a solution: otherwise take the fewest deltas without one.
LEMMA AccumulatedExists ==
  ASSUME NEW shape, NEW s, NEW n \in Nat
  PROVE  \E f : f = [m \in 0 .. n |-> AccumulatedStep(shape, s, f, m)]
<1> DEFINE Solved(l) == \E f : f = [m \in 0 .. l |-> AccumulatedStep(shape, s, f, m)]
           Bad == {l \in Nat : ~Solved(l)}
<1>1. Bad = {}
  <2> SUFFICES ASSUME Bad # {} PROVE FALSE OBVIOUS
  <2>1. PICK l \in Bad : \A k \in Bad : l <= k
    <3>1. Bad \in SUBSET Nat OBVIOUS
    <3> HIDE DEF Bad
    <3> QED BY <3>1, LeastElement
  <2>2. CASE l = 0
    <3> DEFINE f == [m \in 0 .. 0 |-> <<>>]
    <3>1. f = [m \in 0 .. 0 |-> AccumulatedStep(shape, s, f, m)] BY DEF AccumulatedStep
    <3>2. Solved(0)
      <4> HIDE DEF f
      <4> QED BY <3>1
    <3> QED BY <2>1, <2>2, <3>2
  <2>3. CASE l # 0
    <3>1. l - 1 \in Nat /\ ~(l <= l - 1) BY <2>1, <2>3
    <3>2. Solved(l - 1) BY <2>1, <3>1
    <3>3. PICK f : f = [m \in 0 .. l - 1 |-> AccumulatedStep(shape, s, f, m)] BY <3>2
    <3> DEFINE g == [m \in 0 .. l |-> AccumulatedStep(shape, s, f, m)]
    <3>4. \A m \in 0 .. l - 1 : g[m] = f[m]
      <4> TAKE m \in 0 .. l - 1
      <4>1. m \in 0 .. l BY <2>1
      <4>2. g[m] = AccumulatedStep(shape, s, f, m) BY <4>1
      <4>3. f[m] = AccumulatedStep(shape, s, f, m) BY <3>3
      <4> QED BY <4>2, <4>3
    <3>5. ASSUME NEW m \in 0 .. l
          PROVE  AccumulatedStep(shape, s, g, m) = AccumulatedStep(shape, s, f, m)
      <4>1. CASE m = 0 BY <4>1 DEF AccumulatedStep
      <4>2. CASE m # 0
        <5>1. m - 1 \in 0 .. l - 1 BY <2>1, <4>2
        <5>2. g[m - 1] = f[m - 1] BY <3>4, <5>1
        <5> HIDE DEF g
        <5> QED BY <4>2, <5>2 DEF AccumulatedStep
      <4> QED BY <4>1, <4>2
    <3>6. g = [m \in 0 .. l |-> AccumulatedStep(shape, s, g, m)]
      <4>1. g = [m \in 0 .. l |-> AccumulatedStep(shape, s, f, m)] OBVIOUS
      <4> HIDE DEF g
      <4> QED BY <3>5, <4>1
    <3>7. Solved(l)
      <4> HIDE DEF g
      <4> QED BY <3>6
    <3> QED BY <2>1, <3>7
  <2> QED BY <2>2, <2>3
<1> QED BY <1>1

\* What the recursion says.
LEMMA AccumulatedForm ==
  ASSUME NEW shape, NEW N \in Nat, NEW n \in Nat, NEW s \in [1 .. N -> 1 .. n]
  PROVE  /\ Accumulated(shape, s)[0] = <<>>
         /\ \A m \in 1 .. N :
              Accumulated(shape, s)[m] =
                Accumulate(Accumulated(shape, s)[m - 1], Delta(shape, s[m], CountOf(s, s[m], m)))
<1> DEFINE A == Accumulated(shape, s)
<1>0. Len(s) = N /\ DOMAIN s = 1 .. N
  <2>1. s \in Seq(1 .. n) OBVIOUS
  <2> QED BY <2>1
<1>1. A = CHOOSE f : f = [m \in 0 .. N |-> AccumulatedStep(shape, s, f, m)]
  BY <1>0 DEF Accumulated, AccumulatedStep
<1>2. \E f : f = [m \in 0 .. N |-> AccumulatedStep(shape, s, f, m)] BY AccumulatedExists
<1>3. A = [m \in 0 .. N |-> AccumulatedStep(shape, s, A, m)]
  <2> HIDE DEF A
  <2> QED BY <1>1, <1>2
<1> HIDE DEF A
<1>4. \A m \in 0 .. N : A[m] = AccumulatedStep(shape, s, A, m) BY <1>3
<1>5. A[0] = <<>> BY <1>4 DEF AccumulatedStep
<1>6. ASSUME NEW m \in 1 .. N
      PROVE  A[m] = Accumulate(A[m - 1], Delta(shape, s[m], CountOf(s, s[m], m)))
  <2>1. m \in 0 .. N /\ m # 0 OBVIOUS
  <2>2. A[m] = Accumulate(A[m - 1], DeltasOf(shape, s)[m]) BY <1>4, <2>1 DEF AccumulatedStep
  <2>3. DeltasOf(shape, s)[m] = Delta(shape, s[m], CountOf(s, s[m], m))
    BY <1>0 DEF DeltasOf, CountOf
  <2> QED BY <2>2, <2>3
<1> QED BY <1>5, <1>6 DEF A

\* How many deltas of a call have come.
LEMMA CountFacts ==
  ASSUME NEW n \in Nat, NEW s \in Interleavings(n), NEW k \in 1 .. n, NEW m \in 0 .. n * Pieces
  PROVE  /\ n * Pieces \in Nat /\ s \in [1 .. n * Pieces -> 1 .. n]
         /\ CountOf(s, k, m) \in 0 .. Pieces
         /\ CountOf(s, k, m) = 0 <=> \A j \in 1 .. m : s[j] # k
         /\ m < n * Pieces =>
              CountOf(s, k, m + 1) = IF s[m + 1] = k THEN CountOf(s, k, m) + 1
                                     ELSE CountOf(s, k, m)
         /\ m = n * Pieces => CountOf(s, k, m) = Pieces
<1> DEFINE N == n * Pieces
           Of(i) == {j \in 1 .. i : s[j] = k}
<1>0. Pieces \in Nat /\ Pieces > 0 BY PiecesAssumption
<1>1. N \in Nat /\ s \in [1 .. N -> 1 .. n] BY <1>0 DEF Interleavings
<1> HIDE DEF N
<1>2. DOMAIN s = 1 .. N BY <1>1
<1>3. Cardinality(Of(N)) = Pieces BY <1>1, <1>2 DEF Interleavings, N
<1>4. m \in 0 .. N BY DEF N
<1>5. \A i \in Nat : IsFiniteSet(Of(i)) /\ Cardinality(Of(i)) \in Nat
  <2> TAKE i \in Nat
  <2>1. IsFiniteSet(1 .. i) BY FS_Interval
  <2>2. IsFiniteSet(Of(i)) BY <2>1, FS_Subset
  <2> QED BY <2>2, FS_CardinalityType
<1>6. Cardinality(Of(m)) <= Pieces
  <2>1. Of(m) \subseteq Of(N) BY <1>1, <1>4
  <2> QED BY <1>1, <1>3, <1>5, <2>1, FS_Subset
<1>7. Cardinality(Of(m)) = 0 <=> Of(m) = {}
  <2>1. m \in Nat BY <1>4
  <2> QED BY <1>5, <2>1, FS_EmptySet
<1>8. ASSUME m < N
      PROVE  Cardinality(Of(m + 1)) = IF s[m + 1] = k THEN Cardinality(Of(m)) + 1
                                      ELSE Cardinality(Of(m))
  <2>0. m \in Nat BY <1>4
  <2>1. \A j : j \in 1 .. m + 1 <=> (j \in 1 .. m \/ j = m + 1) BY <1>4
  <2>2. CASE s[m + 1] = k
    <3>1. Of(m + 1) = Of(m) \union {m + 1} BY <2>1, <2>2
    <3>2. m + 1 \notin Of(m) BY <1>4
    <3>3. IsFiniteSet(Of(m)) BY <1>5, <2>0
    <3> HIDE DEF Of
    <3> QED BY <2>2, <3>1, <3>2, <3>3, FS_AddElement
  <2>3. CASE s[m + 1] # k
    <3>1. Of(m + 1) = Of(m) BY <2>1, <2>3
    <3> QED BY <2>3, <3>1
  <2> QED BY <2>2, <2>3
<1>9. m \in Nat BY <1>4
<1>10. \A i : CountOf(s, k, i) = Cardinality(Of(i)) BY DEF CountOf
<1>11. CountOf(s, k, m) \in 0 .. Pieces
  <2>1. CountOf(s, k, m) \in Nat BY <1>5, <1>9, <1>10
  <2>2. CountOf(s, k, m) <= Pieces BY <1>6, <1>10
  <2> QED BY <1>0, <2>1, <2>2
<1>12. CountOf(s, k, m) = 0 <=> \A j \in 1 .. m : s[j] # k
  <2>1. Of(m) = {} <=> \A j \in 1 .. m : s[j] # k OBVIOUS
  <2> QED BY <1>7, <1>10, <2>1
<1> HIDE DEF Of
<1>13. m < N => CountOf(s, k, m + 1) = IF s[m + 1] = k THEN CountOf(s, k, m) + 1
                                       ELSE CountOf(s, k, m)
  BY <1>8, <1>10
<1>14. m = N => CountOf(s, k, m) = Pieces BY <1>3, <1>10
<1> QED BY <1>1, <1>11, <1>12, <1>13, <1>14 DEF N

\* The ids of the calls and the synthetic ones are all different.
LEMMA IdsApart ==
  ASSUME NEW k \in Nat, NEW o \in Nat
  PROVE  /\ <<"call", k>> # NoId /\ <<"synthetic", o>> # NoId
         /\ <<"call", k>> # <<"synthetic", o>>
         /\ \A i \in Nat : <<"call", k>> = <<"call", i>> => k = i
BY DEF NoId

\* The entries after the first m deltas: one for each call of which a delta has
\* come, with the arguments of those.
EntryFits(shape, s, m, e, o) ==
  LET c == CountOf(s, e[o].name, m)
  IN  /\ c > 0 /\ e[o].args \in Seq(Nat) /\ Len(e[o].args) = c
      /\ e[o].index = IF shape = "ids" THEN NoIndex ELSE e[o].name
      /\ e[o].id = IF shape = "late id" /\ c < Pieces THEN <<"synthetic", o>>
                   ELSE <<"call", e[o].name>>
      /\ shape = "ids" => e[o].name = o

Fit(shape, s, n, m, e, L) ==
  /\ e = [o \in 1 .. L |-> e[o]]
  /\ \A o \in 1 .. L : e[o].name \in 1 .. n /\ EntryFits(shape, s, m, e, o)
  /\ \A k \in 1 .. n : CountOf(s, k, m) > 0 => \E o \in 1 .. L : e[o].name = k
  /\ \A o, p \in 1 .. L : e[o].name = e[p].name => o = p

\* The entries of a fit are a sequence of that length.
LEMMA FitLength ==
  ASSUME NEW shape, NEW s, NEW n, NEW m, NEW e, NEW L \in Nat, Fit(shape, s, n, m, e, L)
  PROVE  Len(e) = L /\ DOMAIN e = 1 .. L
<1>1. e = [o \in 1 .. L |-> e[o]] BY DEF Fit
<1>2. DOMAIN e = 1 .. L BY <1>1
<1>3. Len(e) = L BY <1>2, <1>1
<1> QED BY <1>2, <1>3

\* The first delta of a call: no entry has its id or its index.
LEMMA FirstDelta ==
  ASSUME NEW shape \in Shapes, NEW n \in Nat, NEW s \in Interleavings(n),
         shape = "ids" => StartsInOrder(s),
         NEW m \in Nat, m < n * Pieces, NEW L \in Nat, NEW e, Fit(shape, s, n, m, e, L),
         CountOf(s, s[m + 1], m) = 0
  PROVE  Fit(shape, s, n, m + 1, Accumulate(e, Delta(shape, s[m + 1], 1)), L + 1)
<1> DEFINE k == s[m + 1]
           d == Delta(shape, k, 1)
           a == Accumulate(e, d)
           new == [id |-> IF d.id = NoId THEN <<"synthetic", L + 1>> ELSE d.id,
                   index |-> d.index, name |-> k, args |-> <<1>>]
<1>0. Pieces \in Nat /\ Pieces > 0 BY PiecesAssumption
<1>1. Len(e) = L /\ DOMAIN e = 1 .. L BY FitLength
<1>2. k \in 1 .. n /\ k \in Nat /\ k # 0
  <2>0. n * Pieces \in Nat BY <1>0
  <2>1. m + 1 \in 1 .. n * Pieces BY <2>0
  <2>2. s \in [1 .. n * Pieces -> 1 .. n] BY DEF Interleavings
  <2>3. k \in 1 .. n BY <2>1, <2>2
  <2> QED BY <2>3
<1>3. \A o \in 1 .. L : e[o].name # k
  <2> TAKE o \in 1 .. L
  <2>1. CountOf(s, e[o].name, m) > 0 BY DEF Fit, EntryFits
  <2>2. CountOf(s, k, m) = 0 OBVIOUS
  <2> HIDE DEF k
  <2> QED BY <2>1, <2>2
<1>4. \A o \in 1 .. L : e[o].id # <<"call", k>>
  <2> TAKE o \in 1 .. L
  <2>1. e[o].name \in Nat /\ e[o].id \in {<<"synthetic", o>>, <<"call", e[o].name>>}
    <3>1. e[o].name \in 1 .. n /\ EntryFits(shape, s, m, e, o) BY DEF Fit
    <3>2. e[o].id \in {<<"synthetic", o>>, <<"call", e[o].name>>} BY <3>1 DEF EntryFits
    <3> QED BY <3>1, <3>2
  <2>2. e[o].name # k BY <1>3
  <2> HIDE DEF k
  <2> QED BY <1>2, <2>1, <2>2, IdsApart
<1>5. \A o \in 1 .. L : d.index # NoIndex => e[o].index # d.index
  <2> TAKE o \in 1 .. L
  <2>1. EntryFits(shape, s, m, e, o) BY DEF Fit
  <2>2. e[o].index = IF shape = "ids" THEN NoIndex ELSE e[o].name BY <2>1 DEF EntryFits
  <2>3. d.index = IF shape = "ids" THEN NoIndex ELSE k BY DEF Delta
  <2>4. e[o].name # k BY <1>3
  <2> HIDE DEF d, k
  <2> QED BY <2>2, <2>3, <2>4
<1>6. d.id \in {NoId, <<"call", k>>} /\ d.name = k /\ d.args = 1 /\ d.name # NoName
  BY <1>2 DEF Delta, NoName
<1>7. a = [o \in 1 .. L + 1 |-> IF o = L + 1 THEN new ELSE e[o]]
  <2>1. {o \in DOMAIN e : d.id # NoId /\ e[o].id = d.id} = {} BY <1>1, <1>4, <1>6
  <2>2. {o \in DOMAIN e : d.index # NoIndex /\ e[o].index = d.index} = {} BY <1>1, <1>5
  <2>3. DOMAIN e \union {L + 1} = 1 .. L + 1 BY <1>1
  <2>4. ~WholeArgs(<<>>) /\ Append(<<>>, d.args) = <<1>> BY <1>0, <1>6 DEF WholeArgs
  <2> HIDE DEF d
  <2>5. (IF NoIndex = NoIndex THEN d.index ELSE d.index) = d.index OBVIOUS
  <2> QED BY <1>1, <1>6, <2>1, <2>2, <2>3, <2>4 DEF Accumulate
<1>8. \A o \in 1 .. L : a[o] = e[o]
  <2>1. \A o \in 1 .. L : o \in 1 .. L + 1 /\ o # L + 1 OBVIOUS
  <2> HIDE DEF a, new
  <2> QED BY <1>7, <2>1
<1>9. a[L + 1] = new
  <2> HIDE DEF a, new
  <2> QED BY <1>7
<1>10. \A i \in 1 .. n :
         CountOf(s, i, m + 1) = IF i = k THEN 1 ELSE CountOf(s, i, m)
  <2> TAKE i \in 1 .. n
  <2>1. n * Pieces \in Nat BY <1>0
  <2>2. m \in 0 .. n * Pieces BY <2>1
  <2>3. CountOf(s, i, m + 1) = IF k = i THEN CountOf(s, i, m) + 1 ELSE CountOf(s, i, m)
    BY <2>2, CountFacts
  <2>4. CountOf(s, k, m) = 0 OBVIOUS
  <2> HIDE DEF k
  <2> QED BY <2>3, <2>4
<1> HIDE DEF a
<1>11. ASSUME NEW o \in 1 .. L
       PROVE  a[o].name \in 1 .. n /\ EntryFits(shape, s, m + 1, a, o)
  <2>1. e[o].name \in 1 .. n /\ EntryFits(shape, s, m, e, o) BY DEF Fit
  <2>2. CountOf(s, e[o].name, m + 1) = CountOf(s, e[o].name, m) BY <1>3, <1>10, <2>1
  <2> QED BY <1>8, <2>1, <2>2 DEF EntryFits
<1>12. shape = "ids" => k = L + 1
  <2> SUFFICES ASSUME shape = "ids" PROVE k = L + 1 OBVIOUS
  <2>1. \A i \in 1 .. L : i \in 1 .. n /\ CountOf(s, i, m) > 0
    BY DEF Fit, EntryFits
  <2>2. \A i \in 1 .. n : CountOf(s, i, m) > 0 => i \in 1 .. L
    BY DEF Fit, EntryFits
  <2>3. ASSUME NEW i \in 1 .. k - 1 PROVE i \in 1 .. L
    <3>1. n * Pieces \in Nat /\ DOMAIN s = 1 .. n * Pieces
      BY <1>0 DEF Interleavings
    <3>2. m + 1 \in DOMAIN s BY <3>1
    <3>3. PICK j \in 1 .. m + 1 : s[j] = i BY <3>2 DEF StartsInOrder
    <3>4. j # m + 1 BY <3>3, <1>2
    <3>5. j \in 1 .. m BY <3>4
    <3>6. i \in 1 .. n BY <1>2
    <3>7. CountOf(s, i, m) # 0 /\ CountOf(s, i, m) \in Nat
      BY <1>0, <3>1, <3>3, <3>5, <3>6, CountFacts
    <3> QED BY <2>2, <3>6, <3>7
  <2>4. k \notin 1 .. L BY <2>1
  <2>5. k - 1 \in Nat /\ (k - 1 = 0 \/ k - 1 \in 1 .. k - 1) BY <1>2
  <2> QED BY <1>2, <2>3, <2>4, <2>5
<1>13. a[L + 1].name = k /\ EntryFits(shape, s, m + 1, a, L + 1)
  <2>1. CountOf(s, k, m + 1) = 1 BY <1>2, <1>10
  <2>2. new.name = k /\ new.args = <<1>> /\ <<1>> \in Seq(Nat) /\ Len(<<1>>) = 1 OBVIOUS
  <2>3. new.index = IF shape = "ids" THEN NoIndex ELSE k BY DEF Delta
  <2>4. new.id = IF shape = "late id" /\ 1 < Pieces THEN <<"synthetic", L + 1>>
                 ELSE <<"call", k>>
    <3>0. <<"call", k>> # NoId
      <4> HIDE DEF k
      <4> QED BY <1>2, IdsApart
    <3>1. d.id = IF shape = "late id" /\ 1 < Pieces THEN NoId ELSE <<"call", k>>
      <4>1. CASE shape = "ids" BY <4>1 DEF Delta
      <4>2. CASE shape = "late id"
        <5>1. (1 = Pieces) <=> ~(1 < Pieces) BY <1>0
        <5> QED BY <4>2, <5>1 DEF Delta
      <4>3. CASE shape = "indexed" BY <4>3 DEF Delta
      <4> QED BY <4>1, <4>2, <4>3 DEF Shapes
    <3> HIDE DEF d, k
    <3> QED BY <3>0, <3>1
  <2>5. a[L + 1].name = k /\ a[L + 1].args = <<1>> /\ a[L + 1].index = new.index
        /\ a[L + 1].id = new.id
    BY <1>9
  <2>6. shape = "ids" => a[L + 1].name = L + 1 BY <1>12, <2>5
  <2> HIDE DEF new, d, k
  <2>7. CountOf(s, a[L + 1].name, m + 1) = 1 BY <2>1, <2>5
  <2>8. a[L + 1].index = IF shape = "ids" THEN NoIndex ELSE a[L + 1].name BY <2>3, <2>5
  <2>9. a[L + 1].id = IF shape = "late id" /\ 1 < Pieces THEN <<"synthetic", L + 1>>
                      ELSE <<"call", a[L + 1].name>>
    BY <2>4, <2>5
  <2>10. a[L + 1].args \in Seq(Nat) /\ Len(a[L + 1].args) = 1 BY <2>2, <2>5
  <2>11. EntryFits(shape, s, m + 1, a, L + 1)
    <3> DEFINE x == a[L + 1]
               c == CountOf(s, x.name, m + 1)
    <3>1. c = 1 /\ c > 0 BY <2>7
    <3>2. x.args \in Seq(Nat) /\ Len(x.args) = c BY <2>10, <3>1
    <3>3. x.id = IF shape = "late id" /\ c < Pieces THEN <<"synthetic", L + 1>>
                 ELSE <<"call", x.name>>
      BY <2>9, <3>1
    <3>4. x.index = IF shape = "ids" THEN NoIndex ELSE x.name BY <2>8
    <3>5. shape = "ids" => x.name = L + 1 BY <2>6
    <3> HIDE DEF c
    <3>6. c = CountOf(s, a[L + 1].name, m + 1) BY DEF c
    <3> QED BY <3>1, <3>2, <3>3, <3>4, <3>5, <3>6 DEF EntryFits
  <2> QED BY <2>5, <2>11
<1>14. \A o \in 1 .. L + 1 : o \in 1 .. L \/ o = L + 1 OBVIOUS
<1>15. a = [o \in 1 .. L + 1 |-> a[o]]
  <2> HIDE DEF new
  <2> QED BY <1>7
<1>16. \A i \in 1 .. n : CountOf(s, i, m + 1) > 0 => \E o \in 1 .. L + 1 : a[o].name = i
  <2> TAKE i \in 1 .. n
  <2>1. CASE i = k
    <3>1. L + 1 \in 1 .. L + 1 OBVIOUS
    <3> QED BY <1>13, <2>1, <3>1
  <2>2. CASE i # k
    <3>1. CountOf(s, i, m + 1) = CountOf(s, i, m) BY <1>10, <2>2
    <3> HAVE CountOf(s, i, m + 1) > 0
    <3>2. PICK o \in 1 .. L : e[o].name = i BY <3>1 DEF Fit
    <3>3. o \in 1 .. L + 1 OBVIOUS
    <3> QED BY <1>8, <3>2, <3>3
  <2> QED BY <2>1, <2>2
<1>17. \A o, p \in 1 .. L + 1 : a[o].name = a[p].name => o = p
  <2>1. \A o \in 1 .. L : a[o].name # a[L + 1].name BY <1>3, <1>8, <1>13
  <2>2. \A o, p \in 1 .. L : a[o].name = a[p].name => o = p BY <1>8 DEF Fit
  <2> HIDE DEF new, d, k
  <2> QED BY <1>14, <2>1, <2>2
<1>18. \A o \in 1 .. L + 1 : a[o].name \in 1 .. n /\ EntryFits(shape, s, m + 1, a, o)
  BY <1>2, <1>11, <1>13, <1>14
<1>19. Fit(shape, s, n, m + 1, a, L + 1) BY <1>15, <1>16, <1>17, <1>18 DEF Fit
<1> QED BY <1>19 DEF a

\* A later delta of a call: it has the id or the index of the call's entry, and
\* of no other one.
LEMMA LaterDelta ==
  ASSUME NEW shape \in Shapes, NEW n \in Nat, NEW s \in Interleavings(n),
         NEW m \in Nat, m < n * Pieces, NEW L \in Nat, NEW e, Fit(shape, s, n, m, e, L),
         CountOf(s, s[m + 1], m) > 0
  PROVE  Fit(shape, s, n, m + 1,
             Accumulate(e, Delta(shape, s[m + 1], CountOf(s, s[m + 1], m) + 1)), L)
<1> DEFINE k == s[m + 1]
           c == CountOf(s, k, m)
           d == Delta(shape, k, c + 1)
           a == Accumulate(e, d)
<1>0. Pieces \in Nat /\ Pieces > 0 BY PiecesAssumption
<1>1. Len(e) = L /\ DOMAIN e = 1 .. L BY FitLength
<1>2. k \in 1 .. n /\ k \in Nat /\ k # 0
  <2>0. n * Pieces \in Nat BY <1>0
  <2>1. m + 1 \in 1 .. n * Pieces BY <2>0
  <2>2. s \in [1 .. n * Pieces -> 1 .. n] BY DEF Interleavings
  <2>3. k \in 1 .. n BY <2>1, <2>2
  <2> QED BY <2>3
<1>3. \A i \in 1 .. n :
        /\ CountOf(s, i, m) \in Nat
        /\ CountOf(s, i, m + 1) = IF i = k THEN c + 1 ELSE CountOf(s, i, m)
  <2> TAKE i \in 1 .. n
  <2>1. n * Pieces \in Nat BY <1>0
  <2>2. m \in 0 .. n * Pieces BY <2>1
  <2>3. CountOf(s, i, m + 1) = IF k = i THEN CountOf(s, i, m) + 1 ELSE CountOf(s, i, m)
    BY <2>2, CountFacts
  <2>4. CountOf(s, i, m) \in 0 .. Pieces BY <2>2, CountFacts
  <2> HIDE DEF k
  <2> QED BY <2>3, <2>4
<1>4. c \in Nat /\ c > 0 /\ c < Pieces
  <2>1. n * Pieces \in Nat BY <1>0
  <2>2. m + 1 \in 0 .. n * Pieces BY <2>1
  <2>3. CountOf(s, k, m + 1) \in 0 .. Pieces BY <1>2, <2>2, CountFacts
  <2>4. CountOf(s, k, m + 1) = c + 1 /\ c \in Nat BY <1>2, <1>3
  <2>5. c > 0 OBVIOUS
  <2> HIDE DEF c, k
  <2> QED BY <1>0, <2>3, <2>4, <2>5
<1>5. PICK o \in 1 .. L : e[o].name = k
  <2>1. CountOf(s, k, m) > 0 OBVIOUS
  <2> HIDE DEF k
  <2> QED BY <1>2, <2>1 DEF Fit
<1>6. \A p \in 1 .. L : e[p].name \in 1 .. n /\ EntryFits(shape, s, m, e, p) BY DEF Fit
<1>7. \A p \in 1 .. L : e[p].name = k => p = o BY <1>5 DEF Fit
<1> HIDE DEF k
<1>8. /\ e[o].args \in Seq(Nat) /\ Len(e[o].args) = c
      /\ e[o].index = (IF shape = "ids" THEN NoIndex ELSE k)
      /\ e[o].id = (IF shape = "late id" THEN <<"synthetic", o>> ELSE <<"call", k>>)
      /\ shape = "ids" => k = o
  <2>1. EntryFits(shape, s, m, e, o) BY <1>6
  <2>2. CountOf(s, e[o].name, m) = c BY <1>5
  <2> HIDE DEF c
  <2> QED BY <1>4, <1>5, <2>1, <2>2 DEF EntryFits
<1> HIDE DEF c
<1>9. \A p \in 1 .. L : e[p].id = <<"call", k>> => p = o
  <2> TAKE p \in 1 .. L
  <2>0. e[p].name \in 1 .. n /\ EntryFits(shape, s, m, e, p) BY <1>6
  <2>1. e[p].id \in {<<"synthetic", p>>, <<"call", e[p].name>>} BY <2>0 DEF EntryFits
  <2> HAVE e[p].id = <<"call", k>>
  <2>2. e[p].name = k BY <1>2, <2>0, <2>1, IdsApart
  <2> QED BY <1>7, <2>2
<1>10. \A p \in 1 .. L : shape # "ids" => (e[p].index = k <=> p = o)
  <2> SUFFICES ASSUME NEW p \in 1 .. L, shape # "ids" PROVE e[p].index = k <=> p = o
    OBVIOUS
  <2>1. e[p].index = e[p].name BY <1>6 DEF EntryFits
  <2> QED BY <1>5, <1>7, <2>1
<1>11. <<"call", k>> # NoId /\ k # NoIndex BY <1>2, IdsApart DEF NoIndex
<1>12. /\ d.name \in {NoName, k} /\ d.args = c + 1
       /\ d.index = IF shape = "ids" THEN NoIndex ELSE k
       /\ d.id = IF shape = "ids" \/ (shape = "late id" /\ c + 1 = Pieces)
                 THEN <<"call", k>> ELSE NoId
  <2>1. c + 1 # 1 BY <1>4
  <2>2. CASE shape = "ids" BY <2>1, <2>2 DEF Delta
  <2>3. CASE shape = "late id" BY <2>1, <2>3 DEF Delta
  <2>4. CASE shape = "indexed" BY <2>1, <2>4 DEF Delta
  <2> QED BY <2>2, <2>3, <2>4 DEF Shapes
<1> HIDE DEF d
<1> DEFINE byId == {p \in DOMAIN e : d.id # NoId /\ e[p].id = d.id}
           byIndex == {p \in DOMAIN e : d.index # NoIndex /\ e[p].index = d.index}
           found == IF byId # {} THEN byId ELSE byIndex
<1>13. found = {o}
  <2>1. CASE shape = "ids"
    <3>1. byId = {o} BY <1>1, <1>8, <1>9, <1>11, <1>12, <2>1
    <3> QED BY <3>1
  <2>2. CASE shape # "ids"
    <3>1. byIndex = {o} BY <1>1, <1>10, <1>11, <1>12, <2>2
    <3>2. byId \subseteq {o} BY <1>1, <1>9, <1>12
    <3> HIDE DEF byId, byIndex
    <3> QED BY <3>1, <3>2
  <2> QED BY <2>1, <2>2
<1> DEFINE updated == [id    |-> IF d.id = NoId THEN e[o].id ELSE d.id,
                       index |-> IF e[o].index = NoIndex THEN d.index ELSE e[o].index,
                       name  |-> IF d.name = NoName THEN e[o].name ELSE d.name,
                       args  |-> IF WholeArgs(e[o].args) THEN e[o].args
                                                         ELSE Append(e[o].args, d.args)]
<1>14. a = [p \in 1 .. L |-> IF p = o THEN updated ELSE e[p]]
  <2>1. (CHOOSE p \in found : TRUE) = o BY <1>13
  <2>2. found # {} BY <1>13
  <2>3. DOMAIN e \union {o} = 1 .. L BY <1>1
  <2>4. a = LET at == IF found = {} THEN Len(e) + 1 ELSE CHOOSE p \in found : TRUE
                entry == IF found = {} THEN [id |-> <<"synthetic", at>>, index |-> d.index,
                                     name |-> NoName, args |-> <<>>]
                               ELSE e[at]
                new == [id    |-> IF d.id = NoId THEN entry.id ELSE d.id,
                  index |-> IF entry.index = NoIndex THEN d.index ELSE entry.index,
                  name  |-> IF d.name = NoName THEN entry.name ELSE d.name,
                  args  |-> IF WholeArgs(entry.args) THEN entry.args
                                                    ELSE Append(entry.args, d.args)]
            IN  [p \in DOMAIN e \union {at} |-> IF p = at THEN new ELSE e[p]]
    BY DEF Accumulate
  <2> HIDE DEF found
  <2> QED BY <2>1, <2>2, <2>3, <2>4
<1>15. /\ updated.name = k /\ updated.index = (IF shape = "ids" THEN NoIndex ELSE k)
       /\ updated.args \in Seq(Nat) /\ Len(updated.args) = c + 1
       /\ updated.id = IF shape = "late id" /\ c + 1 < Pieces THEN <<"synthetic", o>>
                       ELSE <<"call", k>>
  <2>1. updated.name = k BY <1>5, <1>12
  <2>2. updated.index = (IF shape = "ids" THEN NoIndex ELSE k) BY <1>8, <1>12
  <2>3. ~WholeArgs(e[o].args)
    <3>1. Len(e[o].args) = c BY <1>8
    <3>2. c # Pieces BY <1>0, <1>4
    <3> QED BY <3>1, <3>2 DEF WholeArgs
  <2>4. updated.args = Append(e[o].args, c + 1) BY <1>12, <2>3
  <2>5. updated.args \in Seq(Nat) /\ Len(updated.args) = c + 1
    <3>1. c + 1 \in Nat BY <1>4
    <3> HIDE DEF updated
    <3>2. e[o].args \in Seq(Nat) /\ Len(e[o].args) = c BY <1>8
    <3> DEFINE f == e[o].args
    <3>3. f \in Seq(Nat) /\ Len(f) = c /\ updated.args = Append(f, c + 1) BY <2>4, <3>2
    <3> HIDE DEF f
    <3> QED BY <3>1, <3>3
  <2>6. updated.id = IF d.id = NoId THEN e[o].id ELSE d.id OBVIOUS
  <2>7. c + 1 < Pieces <=> c + 1 # Pieces BY <1>0, <1>4
  <2>8. updated.id = IF shape = "late id" /\ c + 1 < Pieces THEN <<"synthetic", o>>
                     ELSE <<"call", k>>
    <3> HIDE DEF updated
    <3> QED BY <1>8, <1>11, <1>12, <2>6, <2>7 DEF Shapes
  <2> HIDE DEF updated
  <2> QED BY <2>1, <2>2, <2>5, <2>8
<1> HIDE DEF updated, a
<1>16. \A p \in 1 .. L : a[p] = IF p = o THEN updated ELSE e[p] BY <1>14
<1>17. a[o] = updated BY <1>16
<1>18. \A p \in 1 .. L : a[p].name = e[p].name BY <1>5, <1>15, <1>16
<1>19. EntryFits(shape, s, m + 1, a, o)
  <2>1. CountOf(s, a[o].name, m + 1) = c + 1 BY <1>2, <1>3, <1>15, <1>17
  <2> DEFINE x == a[o]
             v == CountOf(s, x.name, m + 1)
  <2>2. v = c + 1 /\ v > 0 BY <1>4, <2>1
  <2>3. x.args \in Seq(Nat) /\ Len(x.args) = v BY <1>15, <1>17, <2>2
  <2>4. x.id = IF shape = "late id" /\ v < Pieces THEN <<"synthetic", o>>
               ELSE <<"call", x.name>>
    BY <1>15, <1>17, <2>2
  <2>5. x.index = IF shape = "ids" THEN NoIndex ELSE x.name BY <1>15, <1>17
  <2>6. shape = "ids" => x.name = o BY <1>8, <1>15, <1>17
  <2> HIDE DEF v
  <2>7. v = CountOf(s, a[o].name, m + 1) BY DEF v
  <2> QED BY <2>2, <2>3, <2>4, <2>5, <2>6, <2>7 DEF EntryFits
<1>20. ASSUME NEW p \in 1 .. L
       PROVE  a[p].name \in 1 .. n /\ EntryFits(shape, s, m + 1, a, p)
  <2>1. e[p].name \in 1 .. n /\ EntryFits(shape, s, m, e, p) BY <1>6
  <2>2. CASE p = o BY <1>2, <1>5, <1>18, <1>19, <2>2
  <2>3. CASE p # o
    <3>1. a[p] = e[p] /\ e[p].name # k BY <1>7, <1>16, <2>3
    <3>2. CountOf(s, e[p].name, m + 1) = CountOf(s, e[p].name, m) BY <1>3, <2>1, <3>1
    <3> QED BY <2>1, <3>1, <3>2 DEF EntryFits
  <2> QED BY <2>2, <2>3
<1>21. \A i \in 1 .. n : CountOf(s, i, m + 1) > 0 => \E p \in 1 .. L : a[p].name = i
  <2> TAKE i \in 1 .. n
  <2>1. CASE i = k BY <1>5, <1>18, <2>1
  <2>2. CASE i # k
    <3>1. CountOf(s, i, m + 1) = CountOf(s, i, m) BY <1>3, <2>2
    <3> QED BY <1>18, <3>1 DEF Fit
  <2> QED BY <2>1, <2>2
<1>22. \A p, q \in 1 .. L : a[p].name = a[q].name => p = q BY <1>18 DEF Fit
<1>23. a = [p \in 1 .. L |-> a[p]] BY <1>14
<1>24. Fit(shape, s, n, m + 1, a, L) BY <1>20, <1>21, <1>22, <1>23 DEF Fit
<1> QED BY <1>24 DEF a, d, c, k

\* However many deltas have come, the entries are those of the calls begun.
LEMMA AccumulatedFits ==
  ASSUME NEW shape \in Shapes, NEW n \in Nat, NEW s \in Interleavings(n),
         shape = "ids" => StartsInOrder(s)
  PROVE  \A m \in 0 .. n * Pieces :
           \E L \in Nat : Fit(shape, s, n, m, Accumulated(shape, s)[m], L)
<1> DEFINE N == n * Pieces
           A(m) == Accumulated(shape, s)[m]
           Fits(m) == \E L \in Nat : Fit(shape, s, n, m, A(m), L)
           Bad == {m \in 0 .. N : ~Fits(m)}
<1>0. N \in Nat /\ s \in [1 .. N -> 1 .. n] BY PiecesAssumption DEF Interleavings
<1>1. /\ A(0) = <<>>
      /\ \A m \in 1 .. N : A(m) = Accumulate(A(m - 1), Delta(shape, s[m], CountOf(s, s[m], m)))
  <2> HIDE DEF N
  <2> QED BY <1>0, AccumulatedForm
<1> HIDE DEF A
<1>2. Fits(0)
  <2>0. 0 \in 0 .. n * Pieces BY <1>0
  <2>1. \A k \in 1 .. n : CountOf(s, k, 0) = 0
    <3> TAKE k \in 1 .. n
    <3>1. \A j \in 1 .. 0 : s[j] # k OBVIOUS
    <3> QED BY <2>0, <3>1, CountFacts
  <2>2. A(0) = [o \in 1 .. 0 |-> A(0)[o]]
    <3>1. A(0) = <<>> BY <1>1
    <3>2. <<>> = [o \in 1 .. 0 |-> <<>>[o]] OBVIOUS
    <3> QED BY <3>1, <3>2
  <2>3. Fit(shape, s, n, 0, A(0), 0) BY <2>1, <2>2 DEF Fit
  <2> QED BY <2>3
<1>3. ASSUME NEW m \in Nat, m < N, Fits(m) PROVE Fits(m + 1)
  <2>1. PICK L \in Nat : Fit(shape, s, n, m, A(m), L) BY <1>3
  <2>2. m + 1 \in 1 .. N /\ m \in 0 .. N BY <1>0, <1>3
  <2> DEFINE k == s[m + 1]
             c == CountOf(s, k, m)
  <2>3. k \in 1 .. n BY <1>0, <2>2
  <2>4. CountOf(s, k, m + 1) = c + 1 /\ c \in Nat
    <3>1. CountOf(s, k, m) \in 0 .. Pieces BY <2>2, <2>3, CountFacts
    <3>2. m < n * Pieces BY <1>3
    <3>3. CountOf(s, k, m + 1) = CountOf(s, k, m) + 1 BY <2>2, <2>3, <3>2, CountFacts
    <3> QED BY <3>1, <3>3, PiecesAssumption
  <2>5. A(m + 1) = Accumulate(A(m), Delta(shape, k, c + 1))
    <3>1. (m + 1) - 1 = m OBVIOUS
    <3>2. A(m + 1) = Accumulate(A((m + 1) - 1), Delta(shape, k, CountOf(s, k, m + 1)))
      BY <1>1, <2>2
    <3> QED BY <2>4, <3>1, <3>2
  <2>6. CASE c = 0
    <3>1. Fit(shape, s, n, m + 1, Accumulate(A(m), Delta(shape, k, 1)), L + 1)
      BY <1>3, <2>1, <2>6, FirstDelta
    <3>2. A(m + 1) = Accumulate(A(m), Delta(shape, k, 1))
      <4>1. c + 1 = 1 BY <2>6
      <4> QED BY <2>5, <4>1
    <3>3. L + 1 \in Nat OBVIOUS
    <3> HIDE DEF k
    <3> QED BY <3>1, <3>2, <3>3
  <2>7. CASE c # 0
    <3>1. CountOf(s, k, m) > 0 BY <2>4, <2>7
    <3>2. Fit(shape, s, n, m + 1, Accumulate(A(m), Delta(shape, k, c + 1)), L)
      BY <1>3, <2>1, <3>1, LaterDelta
    <3> HIDE DEF k, c
    <3> QED BY <2>5, <3>2
  <2> QED BY <2>6, <2>7
<1>4. Bad = {}
  <2> SUFFICES ASSUME Bad # {} PROVE FALSE OBVIOUS
  <2>1. Bad \in SUBSET Nat OBVIOUS
  <2>2. PICK m \in Bad : \A i \in Bad : m <= i
    <3> HIDE DEF Bad
    <3> QED BY <2>1, LeastElement
  <2>3. m \in Nat /\ m <= N /\ ~Fits(m) BY <1>0, <2>2
  <2>4. m # 0 BY <1>2, <2>3
  <2>5. m - 1 \in Nat /\ m - 1 < N /\ ~(m <= m - 1) /\ m - 1 \in 0 .. N /\ (m - 1) + 1 = m
    BY <1>0, <2>3, <2>4
  <2>6. Fits(m - 1)
    <3>1. m - 1 \notin Bad BY <2>2, <2>5
    <3> HIDE DEF Fits
    <3> QED BY <2>5, <3>1
  <2> HIDE DEF Fits
  <2>7. Fits((m - 1) + 1) BY <1>3, <2>5, <2>6
  <2> QED BY <2>3, <2>5, <2>7
<1> QED BY <1>4 DEF A

\* With every delta there, the entries in order are the calls with all of their
\* arguments.
LEMMA AssembledFit ==
  ASSUME NEW shape \in Shapes, NEW n \in Nat, NEW s \in Interleavings(n), NEW e,
         NEW L \in Nat, Fit(shape, s, n, n * Pieces, e, L)
  PROVE  Assembled(e) = [i \in 1 .. n |-> [call |-> i, whole |-> TRUE]]
<1> DEFINE N == n * Pieces
           Below(i) == {p \in 1 .. L : e[p].name <= i}
<1>0. Pieces \in Nat /\ Pieces > 0 /\ N \in Nat BY PiecesAssumption
<1>1. Len(e) = L /\ DOMAIN e = 1 .. L BY FitLength
<1>2. \A k \in 1 .. n : CountOf(s, k, N) = Pieces
  <2>1. N \in 0 .. n * Pieces BY <1>0
  <2> QED BY <2>1, CountFacts
<1>3. \A k \in 1 .. n : \E o \in 1 .. L : e[o].name = k BY <1>0, <1>2 DEF Fit
<1>4. \A o \in 1 .. L : e[o].name \in 1 .. n /\ EntryFits(shape, s, N, e, o) BY DEF Fit
<1>5. \A o, p \in 1 .. L : e[o].name = e[p].name => o = p BY DEF Fit
<1> HIDE DEF N
<1>6. \A o \in 1 .. L : WholeArgs(e[o].args) BY <1>2, <1>4 DEF EntryFits, WholeArgs
<1>7. \A o \in 1 .. L :
        /\ e[o].index = IF shape = "ids" THEN NoIndex ELSE e[o].name
        /\ shape = "ids" => e[o].name = o
        /\ e[o].name # NoName /\ e[o].name # NoIndex
  <2> TAKE o \in 1 .. L
  <2>1. e[o].name \in 1 .. n /\ EntryFits(shape, s, N, e, o) BY <1>4
  <2>2. e[o].name # NoName /\ e[o].name # NoIndex BY <2>1 DEF NoName, NoIndex
  <2> QED BY <2>1, <2>2 DEF EntryFits
<1>8. \A i : IsFiniteSet(Below(i))
  <2>1. IsFiniteSet(1 .. L) BY FS_Interval
  <2> QED BY <2>1, FS_Subset
<1> DEFINE Odd == {i \in 0 .. n : Cardinality(Below(i)) # i}
<1>9. Odd = {}
  <2> SUFFICES ASSUME Odd # {} PROVE FALSE OBVIOUS
  <2>1. Odd \in SUBSET Nat OBVIOUS
  <2>2. PICK i \in Odd : \A j \in Odd : i <= j
    <3> HIDE DEF Odd
    <3> QED BY <2>1, LeastElement
  <2>3. i \in 0 .. n /\ Cardinality(Below(i)) # i BY <2>2
  <2>4. CASE i = 0
    <3>1. Below(0) = {} BY <1>4
    <3> QED BY <2>3, <2>4, <3>1, FS_EmptySet
  <2>5. CASE i # 0
    <3>1. i \in 1 .. n /\ i - 1 \in 0 .. n /\ ~(i <= i - 1) BY <2>3, <2>5
    <3>2. Cardinality(Below(i - 1)) = i - 1
      <4>1. i - 1 \notin Odd BY <2>2, <3>1
      <4> HIDE DEF Below
      <4> QED BY <3>1, <4>1
    <3>3. PICK o \in 1 .. L : e[o].name = i BY <1>3, <3>1
    <3>4. Below(i) = Below(i - 1) \union {o} /\ o \notin Below(i - 1)
      <4>1. \A p \in 1 .. L : e[p].name <= i <=> (e[p].name <= i - 1 \/ p = o)
        <5> TAKE p \in 1 .. L
        <5>1. e[p].name \in 1 .. n BY <1>4
        <5>2. e[p].name = i <=> p = o BY <1>5, <3>3
        <5> QED BY <3>1, <5>1, <5>2
      <4> QED BY <3>1, <3>3, <4>1
    <3>5. IsFiniteSet(Below(i - 1)) BY <1>8
    <3> HIDE DEF Below
    <3> QED BY <2>3, <3>1, <3>2, <3>4, <3>5, FS_AddElement
  <2> QED BY <2>4, <2>5
<1>10. \A i \in 0 .. n : Cardinality(Below(i)) = i
  <2> HIDE DEF Below
  <2> QED BY <1>9
<1>11. Below(n) = 1 .. L BY <1>4
<1> DEFINE indexed  == {o \in DOMAIN e : e[o].index # NoIndex}
           chosen   == IF indexed = {} THEN DOMAIN e ELSE indexed
           named    == {o \in chosen : e[o].name # NoName}
           upTo(o)  == {p \in named : IF indexed = {} THEN p <= o
                                      ELSE e[p].index <= e[o].index}
           nth(i)   == CHOOSE o \in named : Cardinality(upTo(o)) = i
<1>12. indexed = IF shape = "ids" THEN {} ELSE 1 .. L BY <1>1, <1>7
<1>13. chosen = 1 .. L
  <2> HIDE DEF indexed
  <2> QED BY <1>1, <1>12
<1>14. named = 1 .. L
  <2> HIDE DEF chosen
  <2> QED BY <1>7, <1>13
<1>15. \A o \in 1 .. L : upTo(o) = Below(e[o].name)
  <2> TAKE o \in 1 .. L
  <2>1. indexed # {} <=> shape # "ids"
    <3> HIDE DEF indexed
    <3> QED BY <1>12
  <2> HIDE DEF indexed, named
  <2>2. \A p \in 1 .. L : (IF indexed = {} THEN p <= o ELSE e[p].index <= e[o].index)
                            <=> e[p].name <= e[o].name
    BY <1>7, <2>1
  <2> QED BY <1>14, <2>2
<1>16. Cardinality(named) = n
  <2> HIDE DEF named, Below
  <2> QED BY <1>10, <1>11, <1>14
<1>17. ASSUME NEW i \in 1 .. n
       PROVE  AssembledCall(e[nth(i)]) = [call |-> i, whole |-> TRUE]
  <2>1. \A o \in 1 .. L : Cardinality(upTo(o)) = i <=> e[o].name = i
    <3> HIDE DEF upTo, Below
    <3> QED BY <1>4, <1>10, <1>15
  <2>2. \E o \in named : Cardinality(upTo(o)) = i
    <3> HIDE DEF upTo, named
    <3> QED BY <1>3, <1>14, <2>1
  <2>3. nth(i) \in named /\ Cardinality(upTo(nth(i))) = i
    <3> HIDE DEF upTo, named
    <3> QED BY <2>2
  <2> HIDE DEF nth, upTo, named
  <2>4. nth(i) \in 1 .. L /\ e[nth(i)].name = i BY <1>14, <2>1, <2>3
  <2> QED BY <1>6, <2>4 DEF AssembledCall
<1>18. Assembled(e) = [i \in 1 .. Cardinality(named) |-> AssembledCall(e[nth(i)])]
  BY DEF Assembled
<1> HIDE DEF named, nth
<1> QED BY <1>16, <1>17, <1>18

\* A response that arrives whole gives the calls sent, in order and complete.
THEOREM WholeOutcome ==
  ASSUME NEW n \in Nat, NEW r \in Outcomes(n, TRUE)
  PROVE  r = [i \in 1 .. n |-> [call |-> i, whole |-> TRUE]]
<1>1. PICK shape \in Shapes, s \in Interleavings(n), m \in 0 .. n * Pieces :
        r = Streamed(shape, s, m) /\ m = n * Pieces /\ (shape = "ids" => StartsInOrder(s))
  <2>1. PICK y \in Shapes \X Interleavings(n) \X (0 .. n * Pieces) :
          /\ r = Streamed(y[1], y[2], y[3]) /\ (y[3] = n * Pieces) = TRUE
          /\ y[1] = "ids" => StartsInOrder(y[2])
    BY DEF Outcomes
  <2>2. y[1] \in Shapes /\ y[2] \in Interleavings(n) /\ y[3] \in 0 .. n * Pieces OBVIOUS
  <2> QED BY <2>1, <2>2
<1>2. PICK L \in Nat : Fit(shape, s, n, m, Accumulated(shape, s)[m], L)
  BY <1>1, AccumulatedFits
<1>3. Assembled(Accumulated(shape, s)[m]) = [i \in 1 .. n |-> [call |-> i, whole |-> TRUE]]
  BY <1>1, <1>2, AssembledFit
<1> QED BY <1>1, <1>3 DEF Streamed

\* What comes of a response is what is assembled from its deltas.
FromDeltas == WholeResponses = [n \in 1 .. MaxBatch |-> Outcomes(n, TRUE)]

\* The batch of a response that arrived whole is what the model sent.
LEMMA RespondAssembles ==
  ASSUME FromDeltas, Respond
  PROVE  StreamAssembled'
<1>1. PICK n \in 1 .. MaxBatch :
        \E names \in [1 .. n -> Tool] :
          \/ /\ \E response \in Responses[n].whole : batch' = CallsOf(response, names)
             /\ sent' = [names |-> names, whole |-> TRUE]
          \/ sent' = [names |-> names, whole |-> FALSE]
  BY DEF Respond
<1>2. PICK names \in [1 .. n -> Tool] :
          \/ /\ \E response \in Responses[n].whole : batch' = CallsOf(response, names)
             /\ sent' = [names |-> names, whole |-> TRUE]
          \/ sent' = [names |-> names, whole |-> FALSE]
  BY <1>1
<1>3. CASE sent' = [names |-> names, whole |-> FALSE] BY <1>3 DEF StreamAssembled
<1>4. CASE /\ \E response \in Responses[n].whole : batch' = CallsOf(response, names)
           /\ sent' = [names |-> names, whole |-> TRUE]
  <2>1. PICK r \in Responses[n].whole : batch' = CallsOf(r, names) BY <1>4
  <2>2. Responses[n].whole = WholeResponses[n] BY DEF Responses
  <2>3. r \in Outcomes(n, TRUE) BY <2>1, <2>2 DEF FromDeltas
  <2>4. n \in Nat BY InferenceAssumption
  <2>5. r = [i \in 1 .. n |-> [call |-> i, whole |-> TRUE]] BY <2>3, <2>4, WholeOutcome
  <2>6. DOMAIN r = 1 .. n /\ \A i \in 1 .. n : r[i].call = i /\ r[i].whole = TRUE BY <2>5
  <2>7. DOMAIN batch' = 1 .. n
        /\ \A i \in 1 .. n : batch'[i].tool = names[i] /\ batch'[i].whole = TRUE
    BY <2>1, <2>6 DEF CallsOf
  <2>8. [i \in DOMAIN batch' |-> batch'[i].tool] = names BY <2>7
  <2>9. sent'.names = names BY <1>4
  <2> QED BY <2>7, <2>8, <2>9 DEF StreamAssembled
<1> QED BY <1>2, <1>3, <1>4

\* The calls of a round stay those of its response.
LEMMA NextAssembles ==
  ASSUME FromDeltas, StreamAssembled, [Next]_vars
  PROVE  StreamAssembled'
<1>1. CASE pc' = pc /\ batch' = batch /\ sent' = sent BY <1>1 DEF StreamAssembled
<1>2. CASE pc' # "tools" BY <1>2 DEF StreamAssembled
<1>3. CASE Model
  <2>1. CASE Respond BY <2>1, RespondAssembles
  <2>2. CASE ~Respond
    <3>1. pc' # "tools" BY <1>3, <2>2
      DEF Model, DepthReached, RateLimited, CreateCancelled, CreateFails, Create, StreamFails,
          TextRepeats, Answer, Retry, Fail, End
    <3> QED BY <1>2, <3>1
  <2> QED BY <2>1, <2>2
<1>4. CASE Tools BY <1>1, <1>2, <1>4
  DEF Tools, StartGroup, MissingDefinition, ToolReturns, ToolAborts, RoundEnds, Recurse, End
<1>5. CASE OrphanSettles \/ UserStops \/ NextInference BY <1>1, <1>2, <1>5
  DEF OrphanSettles, UserStops, NextInference, round
<1>6. CASE UNCHANGED vars BY <1>1, <1>6 DEF vars
<1> QED BY <1>3, <1>4, <1>5, <1>6 DEF Next

\* The deltas of a response that arrives whole give the calls the model sent, in
\* its order and complete: any number of calls in any number of pieces, in any
\* interleaving, labelled any of the three ways.
THEOREM StreamAssembledHolds ==
  ASSUME FromDeltas PROVE Spec => []StreamAssembled
<1>1. Init => StreamAssembled BY DEF Init, StreamAssembled
<1>2. StreamAssembled /\ [Next]_vars => StreamAssembled' BY NextAssembles
<1> QED BY <1>1, <1>2, PTL DEF Spec

-----------------------------------------------------------------------------
(* The files of a phase *)

\* What was closed: an entry, and its block as it was written.
Entry == [file : Paths, contents : Contents, fixing : BOOLEAN]
Raw == [file : Paths, mode : Commands, lines : Seq(Lines)]

\* The parser, what it has closed, and its history.
ParserTyped ==
  /\ file \in Paths \union {NoFile} /\ mode \in Commands \union {"idle"}
  /\ (mode = "idle") <=> (file = NoFile)
  /\ buffer \in Seq(Lines) /\ (file = NoFile => buffer = <<>>)
  /\ closedFiles \subseteq Paths /\ file \notin closedFiles
  /\ completed \in [Paths -> Contents \union {NoFile}]
  /\ \A f \in closedFiles : completed[f] # NoFile
  /\ entries \in Seq(Entry) /\ raws \in Seq(Raw) /\ Len(entries) = Len(raws)

\* An entry is of the file of its block, and explained by it.
Explained ==
  \A i \in 1 .. Len(entries) : entries[i].file = raws[i].file /\ PatchedOnce(i)

\* What the provider delivers, and the rest.
WireTyped ==
  /\ stage \in {"streaming", "fixing", "saved", "failed"}
  /\ streamAttempt \in 1 .. StreamRetryLimit
  /\ wire \in Seq(Lines) /\ (part # "none" => wire # <<>>)
  /\ part \in {"none", "some", "marker"} /\ carry \in BOOLEAN
  /\ delivered \in Seq(Lines) /\ broken \in Nat /\ bitten \in Nat

SavedTyped ==
  /\ flagged \subseteq 1 .. Len(entries)
  /\ saved \in [Paths -> Nat] /\ \A f \in Paths : saved[f] <= Len(entries)

FilesInv == ParserTyped /\ Explained /\ WireTyped /\ SavedTyped /\ SavedExplained

-----------------------------------------------------------------------------
\* What a line is made of.
LEMMA LineOf ==
  ASSUME NEW line \in Lines
  PROVE  /\ line[1] \in Commands => line[2] \in Paths
         /\ line[1] \in {"mark", "like", "text", "blank", "install"} => line[2] \in Nat
         /\ line[1] \in Commands \union {"mark", "like", "text", "blank", "install"}
BY DEF Lines, Commands

\* What a file may contain, before and after a patch.
LEMMA ContentsOf ==
  /\ Seq(Lines) \subseteq Contents /\ <<>> \in Contents /\ NoFile \notin Contents
  /\ \A f \in Paths : Original(f) \in Contents
  /\ \A f \in Paths : \A patch \in Seq(Lines) : Patched(Original(f), patch) \in Contents
<1> DEFINE E == Lines \union ({"original"} \X Paths) \union ({"patched"} \X Seq(Lines))
<1>0. Contents = Seq(E) BY DEF Contents
<1>1. NoFile \notin Contents BY PathsAssumption
<1>2. /\ Lines \subseteq E /\ \A f \in Paths : <<"original", f>> \in E
      /\ \A patch \in Seq(Lines) : <<"patched", patch>> \in E
  OBVIOUS
<1> HIDE DEF E
<1>3. Seq(Lines) \subseteq Seq(E) BY <1>2, SeqMonotonic
<1>4. <<>> \in Seq(E) BY EmptySeq
<1>5. ASSUME NEW f \in Paths PROVE Original(f) \in Seq(E)
  <2>1. << <<"original", f>> >> \in Seq(E) BY <1>2
  <2> QED BY <1>4, <2>1 DEF Original
<1>6. ASSUME NEW f \in Paths, NEW patch \in Seq(Lines)
      PROVE  Patched(Original(f), patch) \in Seq(E)
  <2>1. Original(f) \in Seq(E) /\ <<"patched", patch>> \in E BY <1>2, <1>5
  <2>2. Append(Original(f), <<"patched", patch>>) \in Seq(E) BY <2>1, AppendProperties
  <2> QED BY <2>1, <2>2 DEF Patched
<1> QED BY <1>0, <1>1, <1>3, <1>4, <1>5, <1>6

\* A command opens a block.
LEMMA OpenKeeps ==
  ASSUME ParserTyped, Explained, NEW line \in Lines, line[1] \in Commands, Open(line)
  PROVE  ParserTyped' /\ Explained' /\ Len(entries') = Len(entries)
<1>1. line[2] \in Paths /\ line[2] # NoFile /\ line[1] # "idle"
  BY LineOf, PathsAssumption DEF Commands
<1>2. /\ file' = line[2] /\ mode' = line[1] /\ buffer' = <<>>
      /\ closedFiles' = closedFiles \ {line[2]}
      /\ completed' = completed /\ entries' = entries /\ raws' = raws
  BY DEF Open
<1>3. <<>> \in Seq(Lines) BY EmptySeq
<1>4. ParserTyped' BY <1>1, <1>2, <1>3 DEF ParserTyped
<1>5. Explained' BY <1>2 DEF Explained, PatchedOnce
<1> QED BY <1>2, <1>4, <1>5

\* The end marker closes it.
LEMMA CloseKeeps ==
  ASSUME ParserTyped, Explained, file # NoFile, Close
  PROVE  ParserTyped' /\ Explained' /\ Len(entries') = Len(entries) + 1
<1>1. /\ file \in Paths /\ mode \in Commands /\ buffer \in Seq(Lines) /\ file \notin closedFiles
      /\ entries \in Seq(Entry) /\ raws \in Seq(Raw) /\ Len(entries) = Len(raws)
  BY DEF ParserTyped
<1>2. PICK applied, reapplied, fixing \in BOOLEAN :
        LET final    == Finalized(file, buffer, applied)
            contents == IF mode = "create" THEN buffer ELSE Processed(file, final, reapplied)
        IN  /\ completed' = [completed EXCEPT ![file] = contents]
            /\ entries' = Append(entries, [file |-> file, contents |-> contents,
                                           fixing |-> fixing])
  BY <1>1 DEF Close
<1> DEFINE contents == IF mode = "create" THEN buffer
                       ELSE Processed(file, Finalized(file, buffer, applied), reapplied)
           old == Original(file)
<1>3. IF mode = "create" THEN contents = buffer ELSE contents \in {old, Patched(old, buffer)}
  BY DEF Processed, Finalized
<1>4. contents \in Contents BY <1>1, <1>3, ContentsOf
<1>5. /\ completed' = [completed EXCEPT ![file] = contents]
      /\ entries' = Append(entries, [file |-> file, contents |-> contents, fixing |-> fixing])
  BY <1>2
<1>6. /\ closedFiles' = closedFiles \union {file}
      /\ raws' = Append(raws, [file |-> file, mode |-> mode, lines |-> buffer])
      /\ file' = NoFile /\ mode' = "idle" /\ buffer' = <<>>
  BY DEF Close
<1> HIDE DEF contents
<1> DEFINE e == [file |-> file, contents |-> contents, fixing |-> fixing]
           r == [file |-> file, mode |-> mode, lines |-> buffer]
           n == Len(entries)
<1>7. e \in Entry /\ r \in Raw BY <1>1, <1>4 DEF Entry, Raw
<1>8. /\ e.file = file /\ e.contents = contents
      /\ r.file = file /\ r.mode = mode /\ r.lines = buffer
  OBVIOUS
<1>9. entries' = Append(entries, e) /\ raws' = Append(raws, r) BY <1>5, <1>6
<1> HIDE DEF e, r
<1>10. /\ entries' \in Seq(Entry) /\ Len(entries') = n + 1 /\ n \in Nat
       /\ \A i \in 1 .. n : entries'[i] = entries[i]
       /\ entries'[n + 1] = e
  BY <1>1, <1>7, <1>9, AppendProperties, LenProperties
<1>11. /\ raws' \in Seq(Raw) /\ Len(raws') = n + 1
       /\ \A i \in 1 .. n : raws'[i] = raws[i]
       /\ raws'[n + 1] = r
  BY <1>1, <1>7, <1>9, AppendProperties, LenProperties
<1>12. ParserTyped'
  <2>1. <<>> \in Seq(Lines) BY EmptySeq
  <2>2. completed' \in [Paths -> Contents \union {NoFile}]
    BY <1>1, <1>4, <1>5 DEF ParserTyped
  <2>3. \A f \in closedFiles' : completed'[f] # NoFile
    BY <1>1, <1>4, <1>5, <1>6, ContentsOf DEF ParserTyped
  <2>4. closedFiles' \subseteq Paths /\ file' \notin closedFiles'
    BY <1>1, <1>6, PathsAssumption DEF ParserTyped
  <2> QED BY <1>6, <1>10, <1>11, <2>1, <2>2, <2>3, <2>4 DEF ParserTyped
<1>13. Explained'
  <2> SUFFICES ASSUME NEW i \in 1 .. n + 1
               PROVE  entries'[i].file = raws'[i].file /\ PatchedOnce(i)'
    BY <1>10 DEF Explained
  <2>1. CASE i \in 1 .. n
    <3>1. entries'[i] = entries[i] /\ raws'[i] = raws[i] BY <1>10, <1>11, <2>1
    <3>2. entries[i].file = raws[i].file /\ PatchedOnce(i) BY <2>1 DEF Explained
    <3> QED BY <3>1, <3>2 DEF PatchedOnce
  <2>2. CASE i = n + 1
    <3>1. entries'[i] = e /\ raws'[i] = r BY <1>10, <1>11, <2>2
    <3> QED BY <1>3, <1>8, <3>1 DEF PatchedOnce
  <2> QED BY <1>10, <2>1, <2>2
<1> QED BY <1>10, <1>12, <1>13

\* A line inside an open block.
LEMMA ContentKeeps ==
  ASSUME ParserTyped, Explained, NEW line \in Lines, file # NoFile, Content(line)
  PROVE  ParserTyped' /\ Explained' /\ Len(entries') = Len(entries)
<1>1. /\ UNCHANGED <<file, mode, closedFiles, completed, entries, raws>>
      /\ buffer' \in {buffer, Append(buffer, line)}
  BY DEF Content
<1>2. buffer' \in Seq(Lines)
  <2>1. buffer \in Seq(Lines) BY DEF ParserTyped
  <2>2. Append(buffer, line) \in Seq(Lines) BY <2>1, AppendProperties
  <2> QED BY <1>1, <2>1, <2>2
<1>3. ParserTyped' BY <1>1, <1>2 DEF ParserTyped
<1>4. Explained' BY <1>1 DEF Explained, PatchedOnce
<1> QED BY <1>1, <1>3, <1>4

\* A line between blocks.
LEMMA BetweenKeeps ==
  ASSUME ParserTyped, Explained, NEW line, Between(line)
  PROVE  ParserTyped' /\ Explained' /\ Len(entries') = Len(entries)
<1>1. UNCHANGED <<file, mode, buffer, closedFiles, completed, entries, raws>>
  BY DEF Between
<1>2. ParserTyped' BY <1>1 DEF ParserTyped
<1>3. Explained' BY <1>1 DEF Explained, PatchedOnce
<1> QED BY <1>1, <1>2, <1>3

\* Whatever a line is, the parser stays well formed and keeps what it closed.
LEMMA ProcessKeeps ==
  ASSUME ParserTyped, Explained, NEW line \in Lines, ProcessLine(line)
  PROVE  ParserTyped' /\ Explained' /\ Len(entries') >= Len(entries)
<1>0. Len(entries) \in Nat BY LenProperties DEF ParserTyped
<1>1. CASE file # NoFile /\ line[1] = "mark" /\ Close
  BY <1>0, <1>1, CloseKeeps
<1>2. CASE file # NoFile /\ line[1] # "mark" /\ Content(line)
  BY <1>0, <1>2, ContentKeeps
<1>3. CASE file = NoFile /\ line[1] \in Commands /\ Open(line)
  BY <1>0, <1>3, OpenKeeps
<1>4. CASE file = NoFile /\ line[1] \notin Commands /\ Between(line)
  BY <1>0, <1>4, BetweenKeeps
<1> QED BY <1>1, <1>2, <1>3, <1>4 DEF ProcessLine

\* What the parser makes of a line is a line.
LEMMA ReceivedLine ==
  ASSUME NEW line \in Lines
  PROVE  Received(line) \in Lines
BY DEF Received, Lines

\* Nothing is saved while the response streams in or its fixers work.
LEMMA NothingSaved ==
  ASSUME stage' # "saved"
  PROVE  SavedExplained'
BY DEF SavedExplained

\* Flags and versions may stay as they are when there are more entries.
LEMMA SavedTypedKeeps ==
  ASSUME SavedTyped, ParserTyped, ParserTyped', Len(entries') >= Len(entries),
         flagged' = flagged, saved' = saved
  PROVE  SavedTyped'
<1>1. Len(entries) \in Nat /\ Len(entries') \in Nat BY LenProperties DEF ParserTyped
<1>2. flagged' \subseteq 1 .. Len(entries')
  <2>1. 1 .. Len(entries) \subseteq 1 .. Len(entries') BY <1>1
  <2> QED BY <2>1 DEF SavedTyped
<1>3. \A f \in Paths : saved[f] <= Len(entries') BY <1>1 DEF SavedTyped
<1> QED BY <1>2, <1>3 DEF SavedTyped

\* A chunk completes a line.
LEMMA LineArrivesKeeps ==
  ASSUME FilesInv, LineArrives
  PROVE  FilesInv'
<1>1. /\ stage = "streaming" /\ wire # <<>> /\ ProcessLine(Received(Head(wire)))
      /\ wire' = Tail(wire) /\ part' = "none" /\ carry' = FALSE
      /\ delivered' \in {delivered, Append(delivered, Head(wire))}
      /\ UNCHANGED <<stage, streamAttempt, flagged, saved, broken, bitten>>
  BY DEF LineArrives
<1>2. wire \in Seq(Lines) /\ delivered \in Seq(Lines) BY DEF FilesInv, WireTyped
<1>3. Head(wire) \in Lines /\ Tail(wire) \in Seq(Lines) BY <1>1, <1>2, HeadTailProperties
<1>4. Received(Head(wire)) \in Lines BY <1>3, ReceivedLine
<1>5. ParserTyped' /\ Explained' /\ Len(entries') >= Len(entries)
  BY <1>1, <1>4, ProcessKeeps DEF FilesInv
<1>6. delivered' \in Seq(Lines) BY <1>1, <1>2, <1>3, AppendProperties
<1>7. WireTyped' BY <1>1, <1>3, <1>6 DEF FilesInv, WireTyped
<1>8. SavedTyped' BY <1>1, <1>5, SavedTypedKeeps DEF FilesInv
<1>9. SavedExplained' BY <1>1, NothingSaved
<1> QED BY <1>5, <1>7, <1>8, <1>9 DEF FilesInv

\* A chunk ends behind a leading marker.
LEMMA CutAtMarkerKeeps ==
  ASSUME FilesInv, CutAtMarker
  PROVE  FilesInv'
<1>1. /\ stage = "streaming" /\ wire # <<>> /\ file # NoFile /\ Close
      /\ part' = "marker" /\ delivered' = Append(delivered, <<"mark", 0>>)
      /\ bitten' \in {bitten, bitten + 1}
      /\ UNCHANGED <<stage, streamAttempt, wire, carry, flagged, saved, broken>>
  BY DEF CutAtMarker
<1>2. ParserTyped' /\ Explained' /\ Len(entries') = Len(entries) + 1
  BY <1>1, CloseKeeps DEF FilesInv
<1>3. Len(entries') >= Len(entries) BY <1>2, LenProperties DEF FilesInv, ParserTyped
<1>4. <<"mark", 0>> \in Lines BY DEF Lines
<1>5. delivered' \in Seq(Lines) BY <1>1, <1>4, AppendProperties DEF FilesInv, WireTyped
<1>6. bitten' \in Nat BY <1>1 DEF FilesInv, WireTyped
<1>7. WireTyped' BY <1>1, <1>5, <1>6 DEF FilesInv, WireTyped
<1>8. SavedTyped' BY <1>1, <1>2, <1>3, SavedTypedKeeps DEF FilesInv
<1>9. SavedExplained' BY <1>1, NothingSaved
<1> QED BY <1>2, <1>7, <1>8, <1>9 DEF FilesInv

\* A step that leaves the parser and what it closed alone.
LEMMA ParserUnchanged ==
  ASSUME ParserTyped, Explained, UNCHANGED <<parser, entries, raws>>
  PROVE  ParserTyped' /\ Explained' /\ Len(entries') = Len(entries)
BY DEF ParserTyped, Explained, PatchedOnce, parser

\* A chunk ends within a line.
LEMMA CutLineKeeps ==
  ASSUME FilesInv, CutLine
  PROVE  FilesInv'
<1>1. /\ stage = "streaming" /\ wire # <<>> /\ part' = "some"
      /\ UNCHANGED <<stage, streamAttempt, wire, carry, flagged, saved>>
      /\ UNCHANGED <<parser, entries, raws>> /\ UNCHANGED <<delivered, broken, bitten>>
  BY DEF CutLine, history
<1>2. ParserTyped' /\ Explained' /\ Len(entries') = Len(entries)
  BY <1>1, ParserUnchanged DEF FilesInv
<1>3. WireTyped' BY <1>1 DEF FilesInv, WireTyped
<1>4. SavedTyped' BY <1>1, <1>2 DEF FilesInv, SavedTyped
<1>5. SavedExplained' BY <1>1, NothingSaved
<1> QED BY <1>2, <1>3, <1>4, <1>5 DEF FilesInv

\* The stream ends, or is cancelled.
LEMMA StreamOverKeeps ==
  ASSUME FilesInv, StreamEnds \/ Cancelled
  PROVE  FilesInv'
<1>1. /\ stage' \in {"fixing", "failed"}
      /\ UNCHANGED <<streamAttempt, wire, part, carry, flagged, saved>>
      /\ UNCHANGED <<parser, entries, raws>> /\ UNCHANGED <<delivered, broken, bitten>>
  BY DEF StreamEnds, Cancelled, stream, history
<1>2. ParserTyped' /\ Explained' /\ Len(entries') = Len(entries)
  BY <1>1, ParserUnchanged DEF FilesInv
<1>3. WireTyped' BY <1>1 DEF FilesInv, WireTyped
<1>4. SavedTyped' BY <1>1, <1>2 DEF FilesInv, SavedTyped
<1>5. SavedExplained' BY <1>1, NothingSaved
<1> QED BY <1>2, <1>3, <1>4, <1>5 DEF FilesInv

\* An attempt breaks: the next one starts, or what there is is taken.
LEMMA AttemptFailsKeeps ==
  ASSUME FilesInv, AttemptFails
  PROVE  FilesInv'
<1>1. /\ stage = "streaming" /\ broken' \in {broken, broken + 1}
      /\ UNCHANGED <<flagged, saved>>
      /\ UNCHANGED <<parser, entries, raws>> /\ UNCHANGED <<delivered, bitten>>
      /\ \/ /\ streamAttempt < StreamRetryLimit /\ streamAttempt' = streamAttempt + 1
            /\ wire' \in Texts /\ part' = "none" /\ carry' = (carry \/ part = "some")
            /\ UNCHANGED stage
         \/ stage' = "fixing" /\ UNCHANGED <<streamAttempt, wire, part, carry>>
  BY DEF AttemptFails, stream
<1>2. ParserTyped' /\ Explained' /\ Len(entries') = Len(entries)
  BY <1>1, ParserUnchanged DEF FilesInv
<1>3. WireTyped'
  <2>0. broken' \in Nat BY <1>1 DEF FilesInv, WireTyped
  <2>1. CASE /\ streamAttempt < StreamRetryLimit /\ streamAttempt' = streamAttempt + 1
             /\ wire' \in Texts /\ part' = "none" /\ carry' = (carry \/ part = "some")
             /\ UNCHANGED stage
    <3>1. streamAttempt' \in 1 .. StreamRetryLimit
      BY <2>1, TextsAssumption DEF FilesInv, WireTyped
    <3>2. wire' \in Seq(Lines) BY <2>1, TextsAssumption
    <3>3. carry' \in BOOLEAN BY <2>1
    <3> QED BY <1>1, <2>0, <2>1, <3>1, <3>2, <3>3 DEF FilesInv, WireTyped
  <2>2. CASE stage' = "fixing" /\ UNCHANGED <<streamAttempt, wire, part, carry>>
    BY <1>1, <2>0, <2>2 DEF FilesInv, WireTyped
  <2> QED BY <1>1, <2>1, <2>2
<1>4. SavedTyped' BY <1>1, <1>2 DEF FilesInv, SavedTyped
<1>5. SavedExplained' BY <1>1, NothingSaved
<1> QED BY <1>2, <1>3, <1>4, <1>5 DEF FilesInv

\* The greatest element of a bounded set of numbers.
LEMMA MaxOf ==
  ASSUME NEW S \in SUBSET Nat, S # {}, NEW n \in Nat, \A x \in S : x <= n
  PROVE  Max(S) \in S /\ \A y \in S : y <= Max(S)
<1> DEFINE T == {n - x : x \in S}
<1>1. T \in SUBSET Nat /\ T # {}
  <2>1. ASSUME NEW x \in S PROVE n - x \in Nat OBVIOUS
  <2>2. PICK x \in S : TRUE OBVIOUS
  <2>3. n - x \in T BY <2>2
  <2> QED BY <2>1, <2>3
<1>2. PICK t \in T : \A u \in T : t <= u BY <1>1, LeastElement
<1>3. PICK m \in S : t = n - m BY <1>2
<1>4. \A y \in S : m >= y
  <2> TAKE y \in S
  <2>1. n - y \in T /\ t <= n - y BY <1>2
  <2> QED BY <1>3, <2>1
<1>5. Max(S) \in S /\ \A y \in S : Max(S) >= y BY <1>4 DEF Max
<1> QED BY <1>5

\* A realtime fixer is done.
LEMMA FixerDoneKeeps ==
  ASSUME FilesInv, NEW i \in DOMAIN entries, FixerDone(i)
  PROVE  FilesInv'
<1>1. /\ entries \in Seq(Entry) /\ DOMAIN entries = 1 .. Len(entries)
      /\ Len(entries) \in Nat
  BY LenProperties DEF FilesInv, ParserTyped
<1>2. /\ entries' = [entries EXCEPT ![i].fixing = FALSE]
      /\ UNCHANGED <<stage, streamAttempt, wire, part, carry, flagged, saved>>
      /\ UNCHANGED parser /\ UNCHANGED <<raws, delivered, broken, bitten>>
  BY DEF FixerDone, stream, history
<1>3. /\ entries' \in Seq(Entry) /\ Len(entries') = Len(entries)
      /\ DOMAIN entries' = DOMAIN entries
      /\ \A j \in 1 .. Len(entries) : /\ entries'[j].file = entries[j].file
                                      /\ entries'[j].contents = entries[j].contents
  <2>1. entries[i] \in Entry BY <1>1, ElementOfSeq
  <2> DEFINE e == [entries[i] EXCEPT !.fixing = FALSE]
  <2>2. /\ e \in Entry /\ e.file = entries[i].file /\ e.contents = entries[i].contents
    BY <2>1 DEF Entry
  <2>3. entries' = [entries EXCEPT ![i] = e] BY <1>2
  <2> HIDE DEF e
  <2>4. entries' \in Seq(Entry) /\ Len(entries') = Len(entries)
    BY <1>1, <2>2, <2>3, ExceptSeq
  <2>5. \A j \in 1 .. Len(entries) : entries'[j] = IF j = i THEN e ELSE entries[j]
    BY <1>1, <2>3
  <2>6. DOMAIN entries' = DOMAIN entries BY <2>3
  <2> QED BY <2>2, <2>4, <2>5, <2>6
<1>4. ParserTyped' BY <1>2, <1>3 DEF FilesInv, ParserTyped, parser
<1>5. Explained' BY <1>2, <1>3 DEF FilesInv, Explained, PatchedOnce
<1>6. WireTyped' BY <1>2 DEF FilesInv, WireTyped
<1>7. SavedTyped' BY <1>2, <1>3 DEF FilesInv, SavedTyped
<1>8. SavedExplained'
  <2> SUFFICES ASSUME stage' = "saved", NEW f \in Paths
               PROVE  LET mine == VersionsOf(f)'
                      IN  IF f \in DontTouch \/ mine = {} THEN saved'[f] = 0
                          ELSE /\ saved'[f] \in mine /\ PatchedOnce(saved[f])'
                               /\ \/ saved'[f] = Max(mine)
                                  \/ saved'[f] \in flagged' /\ Max(mine) \notin flagged'
    BY DEF SavedExplained
  <2>1. VersionsOf(f)' = VersionsOf(f) BY <1>1, <1>3 DEF VersionsOf
  <2>2. stage = "saved" /\ saved' = saved /\ flagged' = flagged BY <1>2
  <2>3. LET mine == VersionsOf(f)
        IN  IF f \in DontTouch \/ mine = {} THEN saved[f] = 0
            ELSE /\ saved[f] \in mine
                 /\ \/ saved[f] = Max(mine)
                    \/ saved[f] \in flagged /\ Max(mine) \notin flagged
    BY <2>2 DEF FilesInv, SavedExplained
  <2>4. VersionsOf(f) \subseteq 1 .. Len(entries) BY <1>1 DEF VersionsOf
  <2>5. \A k \in VersionsOf(f) : PatchedOnce(k)' BY <1>3, <1>5, <2>4 DEF Explained
  <2>6. PatchedOnce(saved[f])' \/ f \in DontTouch \/ VersionsOf(f) = {}
    <3>1. ASSUME saved[f] \in VersionsOf(f) PROVE PatchedOnce(saved[f])'
      BY <2>2, <2>5, <3>1 DEF PatchedOnce
    <3> QED BY <2>3, <3>1
  <2> QED BY <2>1, <2>2, <2>3, <2>6
<1> QED BY <1>4, <1>5, <1>6, <1>7, <1>8 DEF FilesInv

\* Every file with a block is saved from the last of its blocks, or the last fixed.
LEMMA SaveKeeps ==
  ASSUME FilesInv, SaveGeneratedFiles
  PROVE  FilesInv'
<1> DEFINE n == Len(entries)
<1>1. n \in Nat /\ DOMAIN entries = 1 .. n
  BY LenProperties DEF FilesInv, ParserTyped
<1>2. PICK picked \in SUBSET {i \in DOMAIN entries : entries[i].file \notin DontTouch} :
        flagged' = picked /\ saved' = [f \in Paths |-> SavedEntry(f, picked)]
  BY DEF SaveGeneratedFiles
<1>3. /\ stage' = "saved" /\ UNCHANGED <<streamAttempt, wire, part, carry>>
      /\ UNCHANGED <<parser, entries, raws>> /\ UNCHANGED <<delivered, broken, bitten>>
  BY DEF SaveGeneratedFiles, stream, history
<1>4. ParserTyped' /\ Explained' /\ entries' = entries
  BY <1>3, ParserUnchanged DEF FilesInv
<1>5. WireTyped' BY <1>3 DEF FilesInv, WireTyped
<1>6. picked \subseteq 1 .. n BY <1>1
<1>7. ASSUME NEW f \in Paths
      PROVE  LET mine == VersionsOf(f)
                 version == SavedEntry(f, picked)
             IN  /\ version \in 0 .. n
                 /\ IF f \in DontTouch \/ mine = {} THEN version = 0
                    ELSE /\ version \in mine
                         /\ \/ version = Max(mine)
                            \/ version \in picked /\ Max(mine) \notin picked
  <2> DEFINE mine == VersionsOf(f)
             both == mine \intersect picked
  <2>1. mine \subseteq 1 .. n BY <1>1 DEF VersionsOf
  <2>2. CASE f \in DontTouch \/ mine = {} BY <1>1, <2>2 DEF SavedEntry
  <2>3. CASE ~(f \in DontTouch \/ mine = {})
    <3> HIDE DEF mine
    <3>1. mine \in SUBSET Nat /\ \A x \in mine : x <= n BY <1>1, <2>1
    <3>2. Max(mine) \in mine /\ \A y \in mine : y <= Max(mine) BY <1>1, <2>3, <3>1, MaxOf
    <3>3. CASE both = {}
      <4>1. SavedEntry(f, picked) = Max(mine) BY <2>3, <3>3 DEF SavedEntry, mine
      <4> QED BY <1>1, <2>1, <2>3, <3>2, <4>1 DEF mine
    <3>4. CASE both # {}
      <4>1. SavedEntry(f, picked) = Max(both) BY <2>3, <3>4 DEF SavedEntry, mine
      <4>2. both \in SUBSET Nat /\ \A x \in both : x <= n BY <3>1
      <4>3. Max(both) \in both /\ \A y \in both : y <= Max(both)
        <5> HIDE DEF both
        <5> QED BY <1>1, <3>4, <4>2, MaxOf
      <4>4. ASSUME Max(mine) \in picked PROVE Max(both) = Max(mine)
        <5>1. Max(mine) \in both BY <3>2, <4>4
        <5>2. Max(mine) <= Max(both) /\ Max(both) <= Max(mine) BY <3>2, <4>3, <5>1
        <5>3. Max(mine) \in Nat /\ Max(both) \in Nat BY <3>1, <3>2, <4>2, <4>3
        <5> QED BY <5>2, <5>3
      <4> QED BY <1>1, <2>1, <2>3, <4>1, <4>3, <4>4 DEF mine
    <3> QED BY <3>3, <3>4
  <2> QED BY <2>2, <2>3
<1>8. saved' \in [Paths -> Nat] /\ \A f \in Paths : saved'[f] <= n
  <2>1. \A f \in Paths : SavedEntry(f, picked) \in 0 .. n BY <1>7
  <2> QED BY <1>1, <1>2, <2>1
<1>9. SavedTyped' BY <1>2, <1>4, <1>6, <1>8 DEF SavedTyped
<1>10. SavedExplained'
  <2> SUFFICES ASSUME NEW f \in Paths
               PROVE  LET mine == VersionsOf(f)'
                      IN  IF f \in DontTouch \/ mine = {} THEN saved'[f] = 0
                          ELSE /\ saved'[f] \in mine /\ PatchedOnce(saved[f])'
                               /\ \/ saved'[f] = Max(mine)
                                  \/ saved'[f] \in flagged' /\ Max(mine) \notin flagged'
    BY DEF SavedExplained
  <2>1. VersionsOf(f)' = VersionsOf(f) BY <1>4 DEF VersionsOf
  <2>2. saved'[f] = SavedEntry(f, picked) /\ flagged' = picked BY <1>2
  <2>3. \A k \in VersionsOf(f) : k \in 1 .. Len(entries') BY <1>1, <1>4 DEF VersionsOf
  <2>4. ASSUME saved'[f] \in VersionsOf(f) PROVE PatchedOnce(saved[f])'
    BY <1>4, <2>3, <2>4 DEF Explained, PatchedOnce
  <2> QED BY <1>7, <2>1, <2>2, <2>4
<1> QED BY <1>4, <1>5, <1>9, <1>10 DEF FilesInv

\* Nothing has come yet.
LEMMA StreamInitInv == StreamInit => FilesInv
<1> SUFFICES ASSUME StreamInit PROVE FilesInv OBVIOUS
<1> USE DEF StreamInit
<1>1. <<>> \in Seq(Lines) /\ <<>> \in Seq(Entry) /\ <<>> \in Seq(Raw) /\ Len(<<>>) = 0
  BY EmptySeq
<1>2. ParserTyped BY <1>1, PathsAssumption DEF ParserTyped, Commands
<1>3. Explained BY <1>1 DEF Explained
<1>4. WireTyped
  <2>1. wire \in Seq(Lines) BY TextsAssumption
  <2>2. 1 \in 1 .. StreamRetryLimit BY TextsAssumption
  <2> QED BY <1>1, <2>1, <2>2 DEF WireTyped
<1>5. SavedTyped BY <1>1 DEF SavedTyped
<1>6. SavedExplained BY DEF SavedExplained
<1> QED BY <1>2, <1>3, <1>4, <1>5, <1>6 DEF FilesInv

\* A step that changes nothing.
LEMMA StreamStutters ==
  ASSUME FilesInv, UNCHANGED streamVars
  PROVE  FilesInv'
<1>1. /\ UNCHANGED <<parser, entries, raws>> /\ UNCHANGED <<stage, flagged, saved>>
      /\ UNCHANGED <<streamAttempt, wire, part, carry, delivered, broken, bitten>>
  BY DEF streamVars, stream, history
<1>2. ParserTyped' /\ Explained' /\ entries' = entries /\ raws' = raws
  BY <1>1, ParserUnchanged DEF FilesInv
<1>3. WireTyped' BY <1>1 DEF FilesInv, WireTyped
<1>4. SavedTyped' BY <1>1, <1>2 DEF FilesInv, SavedTyped
<1>5. SavedExplained'
  BY <1>1, <1>2 DEF FilesInv, SavedExplained, VersionsOf, PatchedOnce
<1> QED BY <1>2, <1>3, <1>4, <1>5 DEF FilesInv

\* Every step keeps the invariant.
LEMMA StreamNextInv == FilesInv /\ [StreamNext]_streamVars => FilesInv'
<1> SUFFICES ASSUME FilesInv, [StreamNext]_streamVars PROVE FilesInv' OBVIOUS
<1>1. CASE LineArrives BY <1>1, LineArrivesKeeps
<1>2. CASE CutLine BY <1>2, CutLineKeeps
<1>3. CASE CutAtMarker BY <1>3, CutAtMarkerKeeps
<1>4. CASE StreamEnds \/ Cancelled BY <1>4, StreamOverKeeps
<1>5. CASE AttemptFails BY <1>5, AttemptFailsKeeps
<1>6. CASE \E i \in DOMAIN entries : FixerDone(i) BY <1>6, FixerDoneKeeps
<1>7. CASE SaveGeneratedFiles BY <1>7, SaveKeeps
<1>8. CASE Done \/ UNCHANGED streamVars BY <1>8, StreamStutters DEF Done
<1> QED BY <1>1, <1>2, <1>3, <1>4, <1>5, <1>6, <1>7, <1>8 DEF StreamNext

\* The parser, the history and the files agree in every reachable state, for every
\* set of texts and files and every number of attempts.
THEOREM StreamInvariance == StreamSpec => []FilesInv
BY StreamInitInv, StreamNextInv, PTL DEF StreamSpec

\* The inductive invariant gives the module's type invariant.
LEMMA StreamTyped == FilesInv => StreamTypeOK
<1> SUFFICES ASSUME FilesInv PROVE StreamTypeOK OBVIOUS
<1>1. /\ entries \in Seq(Entry) /\ DOMAIN entries = 1 .. Len(entries) /\ Len(entries) \in Nat
  BY LenProperties DEF FilesInv, ParserTyped
<1>2. \A i \in DOMAIN entries : entries[i].fixing \in BOOLEAN
  <2> TAKE i \in DOMAIN entries
  <2>1. entries[i] \in Entry BY <1>1, ElementOfSeq
  <2> QED BY <2>1 DEF Entry
<1>3. \A i \in DOMAIN entries : entries[i].file = raws[i].file BY <1>1 DEF FilesInv, Explained
<1>4. flagged \subseteq DOMAIN entries BY <1>1 DEF FilesInv, SavedTyped
<1>5. \A f \in Paths : saved[f] \in 0 .. Len(entries)
  <2> TAKE f \in Paths
  <2>1. saved[f] \in Nat /\ saved[f] <= Len(entries) BY DEF FilesInv, SavedTyped
  <2> QED BY <1>1, <2>1
<1>6. (mode = "idle") = (file = NoFile) BY DEF FilesInv, ParserTyped
<1> QED BY <1>2, <1>3, <1>4, <1>5, <1>6 DEF StreamTypeOK, FilesInv, ParserTyped, WireTyped

\* The parser state is well formed (a block is open exactly when a file is named, a
\* file is not open and closed at once, only closed files have contents) and every
\* entry is of the file of its block: SCOFParsingState, fixedFilePromises.
THEOREM StreamTypeCorrect == StreamSpec => []StreamTypeOK
BY StreamInvariance, StreamTyped, PTL

\* What implementPhase saves of a file comes from the last of its blocks, or from
\* the last that the safety gate had fixed, and a patch is in it at most once:
\* wherever chunks end, attempts break and in whatever order fixers finish.
THEOREM SavedExplainedHolds == StreamSpec => []SavedExplained
<1>1. FilesInv => SavedExplained BY DEF FilesInv
<1> QED BY <1>1, StreamInvariance, PTL


-----------------------------------------------------------------------------
(* The reading of a text *)

\* Whether line i of a text is outside, from the lines before it.
OutsideStep(text, f, i) ==
  IF i = 1 THEN TRUE
  ELSE IF f[i - 1] THEN text[i - 1][1] \notin Commands ELSE text[i - 1][1] = "mark"

\* The recursion has a solution: otherwise take the shortest prefix without one.
LEMMA OutsideExists ==
  ASSUME NEW text, NEW n \in Nat
  PROVE  \E f : f = [i \in 1 .. n + 1 |-> OutsideStep(text, f, i)]
<1> DEFINE Solved(m) == \E f : f = [i \in 1 .. m + 1 |-> OutsideStep(text, f, i)]
           Bad == {m \in Nat : ~Solved(m)}
<1>1. Bad = {}
  <2> SUFFICES ASSUME Bad # {} PROVE FALSE OBVIOUS
  <2>1. PICK m \in Bad : \A k \in Bad : m <= k
    <3>1. Bad \in SUBSET Nat OBVIOUS
    <3> HIDE DEF Bad
    <3> QED BY <3>1, LeastElement
  <2>2. CASE m = 0
    <3> DEFINE f == [i \in 1 .. 1 |-> TRUE]
    <3>1. f = [i \in 1 .. 0 + 1 |-> OutsideStep(text, f, i)] BY DEF OutsideStep
    <3>2. Solved(0) BY <3>1
    <3> QED BY <2>1, <2>2, <3>2
  <2>3. CASE m # 0
    <3>1. m - 1 \in Nat /\ ~(m <= m - 1) /\ (m - 1) + 1 = m BY <2>1, <2>3
    <3>2. Solved(m - 1) BY <2>1, <3>1
    <3>3. PICK f : f = [i \in 1 .. m |-> OutsideStep(text, f, i)] BY <3>1, <3>2
    <3> DEFINE g == [i \in 1 .. m + 1 |-> OutsideStep(text, f, i)]
    <3>4. \A i \in 1 .. m : g[i] = f[i]
      <4> TAKE i \in 1 .. m
      <4>1. i \in 1 .. m + 1 BY <2>1
      <4>2. g[i] = OutsideStep(text, f, i) BY <4>1
      <4>3. f[i] = OutsideStep(text, f, i) BY <3>3
      <4> QED BY <4>2, <4>3
    <3>5. ASSUME NEW i \in 1 .. m + 1
          PROVE  OutsideStep(text, g, i) = OutsideStep(text, f, i)
      <4>1. CASE i = 1 BY <4>1 DEF OutsideStep
      <4>2. CASE i # 1
        <5>1. i - 1 \in 1 .. m BY <2>1, <4>2
        <5>2. g[i - 1] = f[i - 1] BY <3>4, <5>1
        <5> HIDE DEF g
        <5> QED BY <4>2, <5>2 DEF OutsideStep
      <4> QED BY <4>1, <4>2
    <3>6. g = [i \in 1 .. m + 1 |-> OutsideStep(text, g, i)]
      <4>1. g = [i \in 1 .. m + 1 |-> OutsideStep(text, f, i)] OBVIOUS
      <4> HIDE DEF g
      <4> QED BY <3>5, <4>1
    <3>7. Solved(m) 
      <4> HIDE DEF g
      <4> QED BY <3>6
    <3> QED BY <2>1, <3>7
  <2> QED BY <2>2, <2>3
<1> QED BY <1>1

\* What the recursion says.
LEMMA OutsideForm ==
  ASSUME NEW text \in Seq(Lines)
  PROVE  /\ Outside(text)[1]
         /\ \A i \in 1 .. Len(text) + 1 : Outside(text)[i] \in BOOLEAN
         /\ \A i \in 1 .. Len(text) :
              Outside(text)[i + 1] = IF Outside(text)[i] THEN text[i][1] \notin Commands
                                                         ELSE text[i][1] = "mark"
<1> DEFINE n == Len(text)
           O == Outside(text)
<1>0. n \in Nat BY LenProperties
<1>1. O = CHOOSE f : f = [i \in 1 .. n + 1 |-> OutsideStep(text, f, i)]
  BY DEF Outside, OutsideStep
<1>2. \E f : f = [i \in 1 .. n + 1 |-> OutsideStep(text, f, i)] BY <1>0, OutsideExists
<1>3. O = [i \in 1 .. n + 1 |-> OutsideStep(text, O, i)]
  <2> HIDE DEF O
  <2> QED BY <1>1, <1>2
<1> HIDE DEF O, n
<1>4. \A i \in 1 .. n + 1 : O[i] = OutsideStep(text, O, i) BY <1>3
<1>5. O[1]
  <2>1. 1 \in 1 .. n + 1 BY <1>0
  <2>2. O[1] = OutsideStep(text, O, 1) BY <1>4, <2>1
  <2>3. OutsideStep(text, O, 1) = TRUE BY DEF OutsideStep
  <2> QED BY <2>2, <2>3
<1>6. \A i \in 1 .. n : O[i + 1] = IF O[i] THEN text[i][1] \notin Commands ELSE text[i][1] = "mark"
  <2> TAKE i \in 1 .. n
  <2>1. i + 1 \in 1 .. n + 1 /\ i + 1 # 1 /\ (i + 1) - 1 = i BY <1>0
  <2>2. O[i + 1] = OutsideStep(text, O, i + 1) BY <1>4, <2>1
  <2> QED BY <2>1, <2>2 DEF OutsideStep
<1>7. \A i \in 1 .. n + 1 : O[i] \in BOOLEAN
  <2> TAKE i \in 1 .. n + 1
  <2>1. O[i] = OutsideStep(text, O, i) BY <1>4
  <2>2. OutsideStep(text, O, i) \in BOOLEAN
    <3>1. CASE i = 1 BY <3>1 DEF OutsideStep
    <3>2. CASE i # 1 /\ O[i - 1] BY <3>2 DEF OutsideStep
    <3>3. CASE i # 1 /\ ~O[i - 1] BY <3>3 DEF OutsideStep
    <3> QED BY <3>1, <3>2, <3>3
  <2> QED BY <2>1, <2>2
<1> QED BY <1>5, <1>6, <1>7 DEF O, n

\* Texts that agree on their first m lines agree on what is outside up to there.
LEMMA OutsidePrefix ==
  ASSUME NEW s \in Seq(Lines), NEW t \in Seq(Lines), NEW m \in Nat,
         m <= Len(s), m <= Len(t), \A i \in 1 .. m : s[i] = t[i]
  PROVE  \A i \in 1 .. m + 1 : Outside(s)[i] = Outside(t)[i]
<1> DEFINE S == Outside(s)
           T == Outside(t)
           Bad == {i \in 1 .. m + 1 : S[i] # T[i]}
<1>0. Len(s) \in Nat /\ Len(t) \in Nat BY LenProperties
<1>1. /\ S[1] /\ T[1]
      /\ \A i \in 1 .. Len(s) + 1 : S[i] \in BOOLEAN
      /\ \A i \in 1 .. Len(t) + 1 : T[i] \in BOOLEAN
      /\ \A i \in 1 .. Len(s) :
           S[i + 1] = IF S[i] THEN s[i][1] \notin Commands ELSE s[i][1] = "mark"
      /\ \A i \in 1 .. Len(t) :
           T[i + 1] = IF T[i] THEN t[i][1] \notin Commands ELSE t[i][1] = "mark"
  BY OutsideForm
<1> HIDE DEF S, T
<1>2. Bad = {}
  <2> SUFFICES ASSUME Bad # {} PROVE FALSE OBVIOUS
  <2>1. PICK i \in Bad : \A k \in Bad : i <= k
    <3>1. Bad \in SUBSET Nat OBVIOUS
    <3> HIDE DEF Bad
    <3> QED BY <3>1, LeastElement
  <2>2. i \in 1 .. m + 1 /\ S[i] # T[i] BY <2>1
  <2>3. CASE i = 1
    <3>1. S[1] \in BOOLEAN /\ T[1] \in BOOLEAN BY <1>0, <1>1
    <3>2. S[1] = T[1] BY <1>1, <3>1
    <3> QED BY <2>2, <2>3, <3>2
  <2>4. CASE i # 1
    <3> DEFINE j == i - 1
    <3>1. j \in 1 .. m /\ j \in 1 .. Len(s) /\ j \in 1 .. Len(t) /\ j + 1 = i /\ ~(i <= j)
      BY <1>0, <2>2, <2>4
    <3> HIDE DEF j
    <3>2. S[j] = T[j] BY <2>1, <3>1
    <3>3. s[j] = t[j] BY <3>1
    <3>4. /\ S[j + 1] = IF S[j] THEN s[j][1] \notin Commands ELSE s[j][1] = "mark"
          /\ T[j + 1] = IF T[j] THEN t[j][1] \notin Commands ELSE t[j][1] = "mark"
      BY <1>1, <3>1
    <3>5. S[j + 1] = T[j + 1] BY <3>2, <3>3, <3>4
    <3> QED BY <2>2, <3>1, <3>5
  <2> QED BY <2>3, <2>4
<1> QED BY <1>2 DEF S, T

-----------------------------------------------------------------------------
(* Numbers in ascending order *)

\* The number that has k of S up to it.
Ranked(S, k) == CHOOSE n \in S : Cardinality({m \in S : m <= n}) = k

\* A number above all of S comes behind them.
LEMMA ListedAppend ==
  ASSUME NEW S \in SUBSET Nat, IsFiniteSet(S), NEW x \in Nat, \A y \in S : y < x
  PROVE  /\ Cardinality(S) \in Nat
         /\ Cardinality(S \union {x}) = Cardinality(S) + 1
         /\ \A k \in 1 .. Cardinality(S) : Listed(S \union {x})[k] = Listed(S)[k]
         /\ Listed(S \union {x})[Cardinality(S) + 1] = x
<1> DEFINE T == S \union {x}
           c == Cardinality(S)
<1>1. IsFiniteSet(S) /\ x \notin S
  <2>1. \A y \in S : y \in Nat /\ y # x OBVIOUS
  <2> QED BY <2>1
<1>2. c \in Nat /\ Cardinality(T) = c + 1 BY <1>1, FS_CardinalityType, FS_AddElement
<1>3. \A y \in S : {m \in T : m <= y} = {m \in S : m <= y}
  <2> TAKE y \in S
  <2>1. y \in Nat /\ ~(x <= y) OBVIOUS
  <2> QED BY <2>1
<1>4. {m \in T : m <= x} = T
  <2>1. \A y \in T : y <= x
    <3> TAKE y \in T
    <3>1. y \in Nat /\ (y < x \/ y = x) OBVIOUS
    <3> QED BY <3>1
  <2> HIDE DEF T
  <2> QED BY <2>1
<1>5. \A y \in S : Cardinality({m \in S : m <= y}) <= c
  <2> TAKE y \in S
  <2>1. {m \in S : m <= y} \subseteq S OBVIOUS
  <2> QED BY <1>1, <2>1, FS_Subset
<1>6. Listed(T) = [k \in 1 .. c + 1 |-> Ranked(T, k)] BY <1>2 DEF Listed, Ranked
<1>7. Listed(S) = [k \in 1 .. c |-> Ranked(S, k)] BY DEF Listed, Ranked
<1>8. ASSUME NEW k \in 1 .. c PROVE Ranked(T, k) = Ranked(S, k)
  <2>1. k # c + 1 BY <1>2
  <2>2. \A y : (y \in T /\ Cardinality({m \in T : m <= y}) = k)
               <=> (y \in S /\ Cardinality({m \in S : m <= y}) = k)
    BY <1>2, <1>3, <1>4, <2>1
  <2>3. {y \in T : Cardinality({m \in T : m <= y}) = k}
        = {y \in S : Cardinality({m \in S : m <= y}) = k}
    BY <2>2
  <2> QED BY <2>2 DEF Ranked
<1>9. Ranked(T, c + 1) = x
  <2>1. x \in T /\ Cardinality({m \in T : m <= x}) = c + 1 BY <1>2, <1>4
  <2>2. \A y \in T : Cardinality({m \in T : m <= y}) = c + 1 => y = x
    <3> TAKE y \in T
    <3>1. CASE y \in S
      <4>1. Cardinality({m \in T : m <= y}) <= c BY <1>3, <1>5, <3>1
      <4> QED BY <1>2, <4>1
    <3> QED BY <3>1
  <2> QED BY <2>1, <2>2 DEF Ranked
<1>10. Listed(T)[c + 1] = x
  <2>1. c + 1 \in 1 .. c + 1 BY <1>2
  <2> QED BY <1>6, <1>9, <2>1
<1>11. \A k \in 1 .. c : Listed(T)[k] = Listed(S)[k]
  <2> TAKE k \in 1 .. c
  <2>1. k \in 1 .. c + 1 BY <1>2
  <2>2. Listed(T)[k] = Ranked(T, k) BY <1>6, <2>1
  <2>3. Listed(S)[k] = Ranked(S, k) BY <1>7
  <2> QED BY <1>8, <2>2, <2>3
<1> QED BY <1>2, <1>10, <1>11

\* A bounded set of numbers is finite, and what is listed of it is in it.
LEMMA ListedIn ==
  ASSUME NEW n \in Nat, NEW S \in SUBSET (0 .. n)
  PROVE  /\ IsFiniteSet(S) /\ Cardinality(S) \in Nat
         /\ DOMAIN Listed(S) = 1 .. Cardinality(S)
         /\ \A k \in 1 .. Cardinality(S) : Listed(S)[k] \in S
<1> DEFINE In(s) == \A k \in 1 .. Cardinality(s) : Listed(s)[k] \in s
           Bad == {c \in Nat : \E s \in SUBSET (0 .. n) : Cardinality(s) = c /\ ~In(s)}
<1>0. \A s \in SUBSET (0 .. n) : IsFiniteSet(s) /\ Cardinality(s) \in Nat
  <2> TAKE s \in SUBSET (0 .. n)
  <2>1. IsFiniteSet(0 .. n) BY FS_Interval
  <2>2. IsFiniteSet(s) BY <2>1, FS_Subset
  <2> QED BY <2>2, FS_CardinalityType
<1>1. Bad = {}
  <2> SUFFICES ASSUME Bad # {} PROVE FALSE OBVIOUS
  <2>1. PICK c \in Bad : \A d \in Bad : c <= d
    <3>1. Bad \in SUBSET Nat OBVIOUS
    <3> HIDE DEF Bad
    <3> QED BY <3>1, LeastElement
  <2>2. PICK s \in SUBSET (0 .. n) : Cardinality(s) = c /\ ~In(s) BY <2>1
  <2>3. IsFiniteSet(s) /\ c \in Nat /\ s \in SUBSET Nat BY <1>0, <2>2
  <2>4. s # {}
    <3> SUFFICES ASSUME s = {} PROVE FALSE OBVIOUS
    <3>1. Cardinality(s) = 0 BY FS_EmptySet
    <3> QED BY <2>2, <3>1
  <2> DEFINE x == Max(s)
             t == s \ {x}
  <2>5. x \in s /\ \A y \in s : y <= x
    <3>1. \A y \in s : y <= n BY <2>2
    <3> QED BY <2>3, <2>4, <3>1, MaxOf
  <2> HIDE DEF x
  <2>6. /\ t \in SUBSET Nat /\ IsFiniteSet(t) /\ x \in Nat /\ t \union {x} = s
        /\ t \in SUBSET (0 .. n)
        /\ \A y \in t : y < x
    <3>1. IsFiniteSet(t) BY <2>3, FS_Subset
    <3>2. \A y \in t : y < x
      <4> TAKE y \in t
      <4>1. y \in Nat /\ x \in Nat /\ y <= x /\ y # x BY <2>3, <2>5
      <4> QED BY <4>1
    <3> QED BY <2>2, <2>3, <2>5, <3>1, <3>2
  <2> HIDE DEF t
  <2>7. /\ Cardinality(t) \in Nat /\ c = Cardinality(t) + 1
        /\ \A k \in 1 .. Cardinality(t) : Listed(s)[k] = Listed(t)[k]
        /\ Listed(s)[Cardinality(t) + 1] = x
    <3>1. /\ Cardinality(t) \in Nat
          /\ Cardinality(t \union {x}) = Cardinality(t) + 1
          /\ \A k \in 1 .. Cardinality(t) : Listed(t \union {x})[k] = Listed(t)[k]
          /\ Listed(t \union {x})[Cardinality(t) + 1] = x
      BY <2>6, ListedAppend
    <3> QED BY <2>2, <2>6, <3>1
  <2>8. In(t)
    <3>1. Cardinality(t) \notin Bad BY <2>1, <2>7
    <3> QED BY <2>6, <2>7, <3>1
  <2>9. In(s)
    <3> SUFFICES ASSUME NEW k \in 1 .. c PROVE Listed(s)[k] \in s BY <2>2
    <3>1. k \in 1 .. Cardinality(t) \/ k = Cardinality(t) + 1 BY <2>7
    <3>2. t \subseteq s BY DEF t
    <3>3. CASE k \in 1 .. Cardinality(t) BY <2>7, <2>8, <3>2, <3>3
    <3>4. CASE k = Cardinality(t) + 1 BY <2>5, <2>7, <3>4
    <3> QED BY <3>1, <3>3, <3>4
  <2> QED BY <2>2, <2>9
<1>2. DOMAIN Listed(S) = 1 .. Cardinality(S) BY DEF Listed
<1>3. In(S)
  <2>1. Cardinality(S) \notin Bad BY <1>1
  <2> QED BY <1>0, <2>1
<1> QED BY <1>0, <1>2, <1>3

\* The lines of a text with the numbers of S.
Picked(text, S) == LET kept == Listed(S) IN [k \in DOMAIN kept |-> text[kept[k]]]

\* Texts that agree on the lines of S.
LEMMA PickedSame ==
  ASSUME NEW n \in Nat, NEW S \in SUBSET (0 .. n), NEW s, NEW t, \A i \in S : s[i] = t[i]
  PROVE  Picked(s, S) = Picked(t, S)
<1>1. DOMAIN Listed(S) = 1 .. Cardinality(S) /\ \A k \in 1 .. Cardinality(S) : Listed(S)[k] \in S
  BY ListedIn
<1>2. \A k \in DOMAIN Listed(S) : s[Listed(S)[k]] = t[Listed(S)[k]] BY <1>1
<1> QED BY <1>2 DEF Picked

\* One more line, behind the others.
LEMMA PickedAppend ==
  ASSUME NEW n \in Nat, NEW S \in SUBSET (0 .. n), NEW x \in Nat, x > n, NEW t
  PROVE  Picked(t, S \union {x}) = Append(Picked(t, S), t[x])
<1> DEFINE T == S \union {x}
           c == Cardinality(S)
           L == Listed(S)
           M == Listed(T)
<1>1. /\ IsFiniteSet(S) /\ c \in Nat /\ DOMAIN L = 1 .. c /\ S \in SUBSET Nat
      /\ \A y \in S : y < x
  <2>1. \A y \in S : y \in Nat /\ y < x OBVIOUS
  <2> QED BY <2>1, ListedIn
<1>2. /\ Cardinality(T) = c + 1 /\ M[c + 1] = x
      /\ \A k \in 1 .. c : M[k] = L[k]
  BY <1>1, ListedAppend
<1>3. DOMAIN M = 1 .. c + 1 BY <1>2 DEF Listed
<1> HIDE DEF c, L, M, T
<1>4. /\ Picked(t, S) = [k \in 1 .. c |-> t[L[k]]]
      /\ Picked(t, T) = [k \in 1 .. c + 1 |-> t[M[k]]]
  BY <1>1, <1>3 DEF Picked, L, M
<1> DEFINE p == [k \in 1 .. c |-> t[L[k]]]
           q == [k \in 1 .. c + 1 |-> t[M[k]]]
           V == {t[L[k]] : k \in 1 .. c} \union {t[x]}
<1>5. p \in Seq(V) /\ Len(p) = c
  <2>1. \A k \in 1 .. c : t[L[k]] \in V OBVIOUS
  <2> HIDE DEF V
  <2>2. p \in [1 .. c -> V] BY <2>1
  <2> QED BY <1>1, <2>2
<1>6. /\ Append(p, t[x]) \in Seq(V) /\ Len(Append(p, t[x])) = c + 1
      /\ \A k \in 1 .. c : Append(p, t[x])[k] = p[k]
      /\ Append(p, t[x])[c + 1] = t[x]
  <2>1. t[x] \in V OBVIOUS
  <2> HIDE DEF p, V
  <2> QED BY <1>5, <2>1, AppendProperties
<1>7. q \in Seq(V) /\ Len(q) = c + 1
  <2>1. \A k \in 1 .. c + 1 : t[M[k]] \in V
    <3> TAKE k \in 1 .. c + 1
    <3>1. CASE k = c + 1 BY <1>2, <3>1
    <3>2. CASE k # c + 1
      <4>1. k \in 1 .. c BY <1>1, <3>2
      <4> QED BY <1>2, <4>1
    <3> QED BY <3>1, <3>2
  <2> HIDE DEF V
  <2>2. q \in [1 .. c + 1 -> V] BY <2>1
  <2>3. c + 1 \in Nat BY <1>1
  <2> QED BY <2>2, <2>3
<1>8. \A k \in 1 .. c + 1 : q[k] = Append(p, t[x])[k]
  <2> TAKE k \in 1 .. c + 1
  <2>0. q[k] = t[M[k]] OBVIOUS
  <2>1. CASE k = c + 1 BY <1>2, <1>6, <2>0, <2>1
  <2>2. CASE k # c + 1
    <3>1. k \in 1 .. c BY <1>1, <2>2
    <3>2. p[k] = t[L[k]] BY <3>1
    <3> HIDE DEF p, q
    <3> QED BY <1>2, <1>6, <2>0, <3>1, <3>2
  <2> QED BY <2>1, <2>2
<1>9. q = Append(p, t[x])
  <2> HIDE DEF p, q, V
  <2> QED BY <1>6, <1>7, <1>8, SeqEqual
<1> QED BY <1>4, <1>9 DEF T

-----------------------------------------------------------------------------
(* The parser as a reader of a text *)

\* The parser is where reading a text up to its line m leads.
ReadTo(text, m) ==
  /\ Outside(text)[m] <=> file = NoFile
  /\ file # NoFile => BlockAt(text, m) = [file |-> file, mode |-> mode, lines |-> buffer]

\* The lines of an unfinished block.
Inner(text, s, e) == {i \in DOMAIN text : s < i /\ i < e /\ text[i][1] # "blank"}

\* A block's lines are those of its numbers.
LEMMA InnerPicked ==
  ASSUME NEW text, NEW s, NEW e
  PROVE  LinesBetween(text, s, e) = Picked(text, Inner(text, s, e))
BY DEF LinesBetween, Picked, Inner

\* Where the block of a line starts.
LEMMA StartOfLine ==
  ASSUME NEW text \in Seq(Lines), NEW m \in 1 .. Len(text) + 1
  PROVE  /\ ~Outside(text)[m] => StartOf(text, m) \in 1 .. m - 1
         /\ m <= Len(text) =>
              StartOf(text, m + 1) = IF Outside(text)[m] THEN m ELSE StartOf(text, m)
<1> DEFINE n == Len(text)
           O == Outside(text)
           Before(e) == {i \in DOMAIN text : i < e /\ O[i]}
<1>0. n \in Nat /\ DOMAIN text = 1 .. n BY LenProperties
<1>1. O[1] /\ \A i \in 1 .. n + 1 : O[i] \in BOOLEAN BY OutsideForm
<1>2. \A e : StartOf(text, e) = Max(Before(e)) BY DEF StartOf
<1> HIDE DEF O
<1>3. ASSUME ~O[m] PROVE StartOf(text, m) \in 1 .. m - 1
  <2>1. m # 1 BY <1>1, <1>3
  <2>2. 1 \in DOMAIN text /\ 1 < m BY <1>0, <2>1
  <2>3. 1 \in Before(m) BY <1>1, <2>2
  <2>4. Before(m) \in SUBSET Nat /\ \A i \in Before(m) : i <= m BY <1>0
  <2>5. Max(Before(m)) \in Before(m)
    <3>1. m \in Nat BY <1>0
    <3> HIDE DEF Before
    <3> QED BY <2>3, <2>4, <3>1, MaxOf
  <2>6. \A i \in Before(m) : i \in 1 .. m - 1 BY <1>0
  <2> QED BY <1>2, <2>5, <2>6
<1>4. ASSUME m <= n, ~O[m] PROVE StartOf(text, m + 1) = StartOf(text, m)
  <2>1. Before(m + 1) = Before(m)
    <3>1. ASSUME NEW i \in DOMAIN text PROVE (i < m + 1 /\ O[i]) <=> (i < m /\ O[i])
      <4>1. i < m + 1 <=> (i < m \/ i = m) BY <1>0
      <4> QED BY <1>4, <4>1
    <3> QED BY <3>1
  <2> HIDE DEF Before
  <2> QED BY <1>2, <2>1
<1>5. ASSUME m <= n, O[m] PROVE StartOf(text, m + 1) = m
  <2>1. m \in Before(m + 1) BY <1>0, <1>5
  <2>2. Before(m + 1) \in SUBSET Nat /\ \A i \in Before(m + 1) : i <= m BY <1>0
  <2>3. Max(Before(m + 1)) \in Before(m + 1) /\ \A i \in Before(m + 1) : i <= Max(Before(m + 1))
    <3> HIDE DEF Before
    <3> QED BY <2>1, <2>2, MaxOf
  <2>4. Max(Before(m + 1)) \in Nat /\ Max(Before(m + 1)) <= m /\ m <= Max(Before(m + 1))
    <3> HIDE DEF Before
    <3> QED BY <2>1, <2>2, <2>3
  <2>5. Max(Before(m + 1)) = m
    <3> HIDE DEF Before
    <3> QED BY <2>4
  <2> QED BY <1>2, <2>5
<1> QED BY <1>3, <1>4, <1>5 DEF O

\* One more line of a block.
LEMMA BetweenLines ==
  ASSUME NEW text \in Seq(Lines), NEW m \in 1 .. Len(text), NEW s \in Nat
  PROVE  /\ s < m => LinesBetween(text, s, m + 1) =
                       IF text[m][1] = "blank" THEN LinesBetween(text, s, m)
                       ELSE Append(LinesBetween(text, s, m), text[m])
         /\ LinesBetween(text, m, m + 1) = <<>>
<1>0. Len(text) \in Nat /\ DOMAIN text = 1 .. Len(text) BY LenProperties
<1>1. ASSUME s < m, text[m][1] = "blank"
      PROVE  LinesBetween(text, s, m + 1) = LinesBetween(text, s, m)
  <2>1. ASSUME NEW i \in DOMAIN text, text[i][1] # "blank" PROVE i < m + 1 <=> i < m
    <3>1. i # m /\ i \in Nat /\ m \in Nat BY <1>0, <1>1, <2>1
    <3> QED BY <3>1
  <2>2. Inner(text, s, m + 1) = Inner(text, s, m) BY <2>1 DEF Inner
  <2> QED BY <2>2, InnerPicked
<1>2. ASSUME s < m, text[m][1] # "blank"
      PROVE  LinesBetween(text, s, m + 1) = Append(LinesBetween(text, s, m), text[m])
  <2>1. ASSUME NEW i \in DOMAIN text PROVE i < m + 1 <=> (i < m \/ i = m)
    BY <1>0
  <2>2. m \in DOMAIN text BY <1>0
  <2>3. Inner(text, s, m + 1) = Inner(text, s, m) \union {m} BY <1>2, <2>1, <2>2 DEF Inner
  <2>4. Inner(text, s, m) \in SUBSET (0 .. m - 1) /\ m - 1 \in Nat /\ m \in Nat /\ m > m - 1
    BY <1>0 DEF Inner
  <2>5. Picked(text, Inner(text, s, m) \union {m})
          = Append(Picked(text, Inner(text, s, m)), text[m])
    BY <2>4, PickedAppend
  <2> QED BY <2>3, <2>5, InnerPicked
<1>3. LinesBetween(text, m, m + 1) = <<>>
  <2>1. Inner(text, m, m + 1) = {} BY <1>0 DEF Inner
  <2>2. Cardinality({}) = 0 BY FS_EmptySet
  <2>3. DOMAIN Listed({}) = {} BY <2>2 DEF Listed
  <2>4. Picked(text, {}) = <<>> BY <2>3 DEF Picked
  <2> QED BY <2>1, <2>4, InnerPicked
<1> QED BY <1>1, <1>2, <1>3

\* Reading a line, the parser goes where the reading of the text goes, and the
\* block that it closes is the block of the text that ends here.
LEMMA ReadsOn ==
  ASSUME NEW text \in Seq(Lines), NEW m \in 1 .. Len(text),
         ReadTo(text, m), ProcessLine(text[m])
  PROVE  /\ ReadTo(text, m + 1)'
         /\ raws' = IF m \in Ends(text) THEN Append(raws, BlockAt(text, m)) ELSE raws
<1> DEFINE line == text[m]
           O == Outside(text)
<1>0. Len(text) \in Nat /\ DOMAIN text = 1 .. Len(text) BY LenProperties
<1>1. line \in Lines BY <1>0, ElementOfSeq
<1>2. /\ O[m] \in BOOLEAN /\ O[m + 1] \in BOOLEAN
      /\ O[m + 1] = IF O[m] THEN line[1] \notin Commands ELSE line[1] = "mark"
  <2>1. m \in 1 .. Len(text) + 1 /\ m + 1 \in 1 .. Len(text) + 1 BY <1>0
  <2> QED BY <2>1, OutsideForm
<1>3. m \in Ends(text) <=> ~O[m] /\ O[m + 1] BY <1>0 DEF Ends
<1>4. O[m] <=> file = NoFile BY DEF ReadTo
<1>5. /\ ~O[m] => StartOf(text, m) \in 1 .. m - 1
      /\ StartOf(text, m + 1) = IF O[m] THEN m ELSE StartOf(text, m)
  <2>1. m \in 1 .. Len(text) + 1 /\ m <= Len(text) BY <1>0
  <2> QED BY <2>1, StartOfLine
<1> HIDE DEF line, O
<1>6. CASE file # NoFile /\ line[1] = "mark" /\ Close
  <2>1. ~O[m] /\ O[m + 1] BY <1>2, <1>4, <1>6
  <2>2. BlockAt(text, m) = [file |-> file, mode |-> mode, lines |-> buffer]
    BY <1>6 DEF ReadTo
  <2>3. file' = NoFile /\ raws' = Append(raws, BlockAt(text, m)) BY <1>6, <2>2 DEF Close
  <2> QED BY <1>3, <2>1, <2>3 DEF ReadTo, O
<1>7. CASE file # NoFile /\ line[1] # "mark" /\ Content(line)
  <2>1. ~O[m] /\ ~O[m + 1] BY <1>2, <1>4, <1>7
  <2>2. BlockAt(text, m) = [file |-> file, mode |-> mode, lines |-> buffer]
    BY <1>7 DEF ReadTo
  <2>3. /\ file' = file /\ mode' = mode /\ raws' = raws
        /\ buffer' = IF line[1] = "blank" THEN buffer ELSE Append(buffer, line)
    BY <1>7 DEF Content
  <2> DEFINE s == StartOf(text, m)
  <2>4. /\ s \in Nat /\ s < m /\ StartOf(text, m + 1) = s BY <1>0, <1>5, <2>1
  <2> HIDE DEF s
  <2>5. /\ file = text[s][2] /\ mode = text[s][1] /\ buffer = LinesBetween(text, s, m)
    BY <2>2 DEF BlockAt, s
  <2>6. buffer' = LinesBetween(text, s, m + 1) BY <2>3, <2>4, <2>5, BetweenLines DEF line
  <2>7. BlockAt(text, m + 1) = [file |-> file', mode |-> mode', lines |-> buffer']
    BY <2>3, <2>4, <2>5, <2>6 DEF BlockAt
  <2>8. file' # NoFile BY <1>7, <2>3
  <2> QED BY <1>3, <2>1, <2>3, <2>7, <2>8 DEF ReadTo, O
<1>8. CASE file = NoFile /\ line[1] \in Commands /\ Open(line)
  <2>1. O[m] /\ ~O[m + 1] BY <1>2, <1>4, <1>8
  <2>2. /\ file' = line[2] /\ mode' = line[1] /\ buffer' = <<>> /\ raws' = raws
    BY <1>8 DEF Open
  <2>3. file' # NoFile BY <1>1, <1>8, <2>2, LineOf, PathsAssumption
  <2>4. StartOf(text, m + 1) = m BY <1>5, <2>1
  <2>5. LinesBetween(text, m, m + 1) = <<>> BY <1>0, BetweenLines
  <2>6. BlockAt(text, m + 1) = [file |-> file', mode |-> mode', lines |-> buffer']
    BY <2>2, <2>4, <2>5 DEF BlockAt, line
  <2> QED BY <1>3, <2>1, <2>2, <2>3, <2>6 DEF ReadTo, O
<1>9. CASE file = NoFile /\ line[1] \notin Commands /\ Between(line)
  <2>1. O[m] /\ O[m + 1] BY <1>2, <1>4, <1>9
  <2>2. file' = NoFile /\ raws' = raws BY <1>9 DEF Between
  <2> QED BY <1>3, <2>1, <2>2 DEF ReadTo, O
<1> QED BY <1>6, <1>7, <1>8, <1>9 DEF ProcessLine, line

-----------------------------------------------------------------------------
(* One more line of a text *)

\* A text and its prefix without the last line.
LEMMA TextAppend ==
  ASSUME NEW text \in Seq(Lines), NEW line \in Lines
  PROVE  LET next == Append(text, line)
             n    == Len(text)
         IN  /\ n \in Nat /\ DOMAIN text = 1 .. n
             /\ next \in Seq(Lines) /\ Len(next) = n + 1 /\ DOMAIN next = 1 .. n + 1
             /\ \A i \in 1 .. n : next[i] = text[i]
             /\ next[n + 1] = line
             /\ \A i \in 1 .. n + 1 : Outside(next)[i] = Outside(text)[i]
<1> DEFINE next == Append(text, line)
           n    == Len(text)
<1>1. n \in Nat /\ DOMAIN text = 1 .. n BY LenProperties
<1>2. /\ next \in Seq(Lines) /\ Len(next) = n + 1
      /\ \A i \in 1 .. n : next[i] = text[i]
      /\ next[n + 1] = line
  BY AppendProperties
<1> HIDE DEF next
<1>3. DOMAIN next = 1 .. n + 1 BY <1>2, LenProperties
<1>4. \A i \in 1 .. n + 1 : Outside(next)[i] = Outside(text)[i]
  <2>1. n <= Len(next) /\ n <= Len(text) BY <1>1, <1>2
  <2> QED BY <1>1, <1>2, <2>1, OutsidePrefix
<1> QED BY <1>1, <1>2, <1>3, <1>4 DEF next

\* It leaves every block before it as it was.
LEMMA BlockStays ==
  ASSUME NEW text \in Seq(Lines), NEW line \in Lines,
         NEW e \in 1 .. Len(text) + 1, ~Outside(text)[e]
  PROVE  BlockAt(Append(text, line), e) = BlockAt(text, e)
<1> DEFINE next == Append(text, line)
           n == Len(text)
           s == StartOf(text, e)
<1>1. /\ n \in Nat /\ DOMAIN text = 1 .. n
      /\ next \in Seq(Lines) /\ Len(next) = n + 1 /\ DOMAIN next = 1 .. n + 1
      /\ \A i \in 1 .. n : next[i] = text[i]
      /\ next[n + 1] = line
      /\ \A i \in 1 .. n + 1 : Outside(next)[i] = Outside(text)[i]
  BY TextAppend
<1> HIDE DEF next, n
<1>2. s \in 1 .. e - 1 BY StartOfLine
<1>3. e \in 1 .. n + 1 BY DEF n
<1>4. StartOf(next, e) = s
  <2>1. {i \in DOMAIN next : i < e /\ Outside(next)[i]}
          = {i \in DOMAIN text : i < e /\ Outside(text)[i]}
    <3>1. ASSUME NEW i PROVE (i \in DOMAIN next /\ i < e) <=> (i \in DOMAIN text /\ i < e)
      BY <1>1, <1>3
    <3>2. ASSUME NEW i \in DOMAIN text PROVE Outside(next)[i] = Outside(text)[i]
      BY <1>1
    <3> QED BY <3>1, <3>2
  <2> QED BY <2>1 DEF StartOf
<1> HIDE DEF s
<1>5. s \in 1 .. n /\ next[s] = text[s] BY <1>1, <1>2, <1>3
<1>6. LinesBetween(next, s, e) = LinesBetween(text, s, e)
  <2>1. ASSUME NEW i PROVE (i \in DOMAIN next /\ i < e) <=> (i \in DOMAIN text /\ i < e)
    BY <1>1, <1>3
  <2>2. Inner(next, s, e) = Inner(text, s, e) BY <1>1, <2>1 DEF Inner
  <2>3. Inner(text, s, e) \in SUBSET (0 .. n) BY <1>1 DEF Inner
  <2>4. \A i \in Inner(text, s, e) : next[i] = text[i] BY <1>1 DEF Inner
  <2>5. Picked(next, Inner(text, s, e)) = Picked(text, Inner(text, s, e))
    BY <1>1, <2>3, <2>4, PickedSame
  <2> QED BY <2>2, <2>5, InnerPicked
<1> QED BY <1>4, <1>5, <1>6 DEF BlockAt, s, next

\* The parser is where it was.
LEMMA ReadToStays ==
  ASSUME NEW text \in Seq(Lines), NEW line \in Lines, ReadTo(text, Len(text) + 1)
  PROVE  ReadTo(Append(text, line), Len(text) + 1)
<1>1. Len(text) + 1 \in 1 .. Len(text) + 1 BY LenProperties
<1>2. Outside(Append(text, line))[Len(text) + 1] = Outside(text)[Len(text) + 1]
  BY <1>1, TextAppend
<1>3. CASE file = NoFile BY <1>2, <1>3 DEF ReadTo
<1>4. CASE file # NoFile
  <2>1. ~Outside(text)[Len(text) + 1] BY <1>4 DEF ReadTo
  <2>2. BlockAt(Append(text, line), Len(text) + 1) = BlockAt(text, Len(text) + 1)
    BY <1>1, <2>1, BlockStays
  <2> QED BY <1>2, <1>4, <2>2 DEF ReadTo
<1> QED BY <1>3, <1>4

\* The blocks of a text are listed by the lines they end on.
LEMMA BlocksPicked ==
  ASSUME NEW text \in Seq(Lines), NEW f, \A e \in Ends(text) : f[e] = BlockAt(text, e)
  PROVE  BlocksOf(text) = Picked(f, Ends(text))
<1>1. Len(text) \in Nat /\ Ends(text) \in SUBSET (0 .. Len(text)) BY LenProperties DEF Ends
<1>2. /\ DOMAIN Listed(Ends(text)) = 1 .. Cardinality(Ends(text))
      /\ \A k \in 1 .. Cardinality(Ends(text)) : Listed(Ends(text))[k] \in Ends(text)
  BY <1>1, ListedIn
<1>3. \A k \in DOMAIN Listed(Ends(text)) :
        f[Listed(Ends(text))[k]] = BlockAt(text, Listed(Ends(text))[k])
  BY <1>2
<1> QED BY <1>3 DEF BlocksOf, Picked

\* One more line ends one more block or none.
LEMMA BlocksAppend ==
  ASSUME NEW text \in Seq(Lines), NEW line \in Lines
  PROVE  LET next == Append(text, line)
             m    == Len(text) + 1
         IN  BlocksOf(next) = IF m \in Ends(next) THEN Append(BlocksOf(text), BlockAt(next, m))
                              ELSE BlocksOf(text)
<1> DEFINE next == Append(text, line)
           n == Len(text)
           f == [e \in Ends(text) \union Ends(next) |-> BlockAt(next, e)]
<1>1. /\ n \in Nat /\ DOMAIN text = 1 .. n
      /\ next \in Seq(Lines) /\ Len(next) = n + 1 /\ DOMAIN next = 1 .. n + 1
      /\ \A i \in 1 .. n + 1 : Outside(next)[i] = Outside(text)[i]
  BY TextAppend
<1> HIDE DEF next
<1>2. Ends(text) \in SUBSET (0 .. n) BY <1>1 DEF Ends
<1>3. \A e \in 1 .. n : e \in Ends(next) <=> e \in Ends(text)
  <2> TAKE e \in 1 .. n
  <2>1. e \in 1 .. n + 1 /\ e + 1 \in 1 .. n + 1 BY <1>1
  <2> QED BY <1>1, <2>1 DEF Ends
<1>4. Ends(next) = IF n + 1 \in Ends(next) THEN Ends(text) \union {n + 1} ELSE Ends(text)
  <2>1. \A e \in Ends(next) : e \in 1 .. n \/ e = n + 1 BY <1>1 DEF Ends
  <2>2. \A e \in Ends(text) : e \in 1 .. n BY <1>1 DEF Ends
  <2>3. \A e : e \in Ends(next) <=> e \in Ends(text) \/ (e = n + 1 /\ n + 1 \in Ends(next))
    BY <1>3, <2>1, <2>2
  <2>4. CASE n + 1 \in Ends(next)
    <3>1. \A e : e \in Ends(next) <=> e \in Ends(text) \union {n + 1} BY <2>3, <2>4
    <3> QED BY <2>4, <3>1
  <2>5. CASE n + 1 \notin Ends(next)
    <3>1. \A e : e \in Ends(next) <=> e \in Ends(text) BY <2>3, <2>5
    <3> QED BY <2>5, <3>1
  <2> QED BY <2>4, <2>5
<1>5. \A e \in Ends(text) : BlockAt(next, e) = BlockAt(text, e)
  <2> TAKE e \in Ends(text)
  <2>1. e \in 1 .. n + 1 /\ ~Outside(text)[e] BY <1>1 DEF Ends
  <2> QED BY <2>1, BlockStays DEF next
<1>6. \A e \in Ends(text) : f[e] = BlockAt(text, e) BY <1>5
<1>7. \A e \in Ends(next) : f[e] = BlockAt(next, e) OBVIOUS
<1> HIDE DEF f
<1>8. BlocksOf(text) = Picked(f, Ends(text)) BY <1>6, BlocksPicked
<1>9. BlocksOf(next) = Picked(f, Ends(next)) BY <1>1, <1>7, BlocksPicked
<1>10. CASE n + 1 \in Ends(next)
  <2>1. n + 1 \in Nat /\ n + 1 > n BY <1>1
  <2>2. Picked(f, Ends(text) \union {n + 1}) = Append(Picked(f, Ends(text)), f[n + 1])
    BY <1>1, <1>2, <2>1, PickedAppend
  <2>3. f[n + 1] = BlockAt(next, n + 1) BY <1>7, <1>10
  <2> QED BY <1>4, <1>8, <1>9, <1>10, <2>2, <2>3 DEF next
<1>11. CASE n + 1 \notin Ends(next) BY <1>4, <1>8, <1>9, <1>11 DEF next
<1> QED BY <1>10, <1>11 DEF next

\* The install commands of a text that still wait for another line outside blocks.
Waiting(text) ==
  {text[i][2] : i \in {j \in LinesOutside(text) :
                         text[j][1] = "install" /\ \A k \in LinesOutside(text) : ~(j < k)}}

\* A line outside blocks that is not blank takes them.
LEMMA InstallsAppend ==
  ASSUME NEW text \in Seq(Lines), NEW line \in Lines
  PROVE  LET next == Append(text, line)
             m    == Len(text) + 1
         IN  IF Outside(text)[m] /\ line[1] # "blank"
               THEN /\ InstallsOf(next) = InstallsOf(text) \union Waiting(text)
                    /\ Waiting(next) = IF line[1] = "install" THEN {line[2]} ELSE {}
               ELSE InstallsOf(next) = InstallsOf(text) /\ Waiting(next) = Waiting(text)
<1> DEFINE next == Append(text, line)
           n == Len(text)
           m == n + 1
           Old == LinesOutside(text)
           New == LinesOutside(next)
<1>1. /\ n \in Nat /\ DOMAIN text = 1 .. n /\ DOMAIN next = 1 .. n + 1
      /\ \A i \in 1 .. n : next[i] = text[i]
      /\ next[n + 1] = line
      /\ \A i \in 1 .. n + 1 : Outside(next)[i] = Outside(text)[i]
  BY TextAppend
<1> HIDE DEF next
<1>2. \A i \in Old : i \in 1 .. n /\ i < m /\ ~(m < i) /\ next[i] = text[i]
  BY <1>1 DEF LinesOutside
<1>3. ASSUME NEW i PROVE i \in New <=> i \in Old \/ (i = m /\ Outside(text)[m] /\ line[1] # "blank")
  <2>1. CASE i \in 1 .. n
    <3>1. i \in 1 .. n + 1 /\ i # m BY <1>1, <2>1
    <3> QED BY <1>1, <2>1, <3>1 DEF LinesOutside
  <2>2. CASE i = m
    <3>1. i \in 1 .. n + 1 /\ i \notin 1 .. n BY <1>1, <2>2
    <3> QED BY <1>1, <2>2, <3>1 DEF LinesOutside
  <2>3. CASE i \notin 1 .. n /\ i # m
    <3>1. i \notin 1 .. n + 1 BY <1>1, <2>3
    <3> QED BY <1>1, <2>3, <3>1 DEF LinesOutside
  <2> QED BY <2>1, <2>2, <2>3
<1> HIDE DEF Old, New
<1>4. /\ InstallsOf(text) = {text[i][2] : i \in {j \in Old : text[j][1] = "install"
                                                     /\ \E k \in Old : j < k}}
      /\ InstallsOf(next) = {next[i][2] : i \in {j \in New : next[j][1] = "install"
                                                     /\ \E k \in New : j < k}}
      /\ Waiting(text) = {text[i][2] : i \in {j \in Old : text[j][1] = "install"
                                                  /\ \A k \in Old : ~(j < k)}}
      /\ Waiting(next) = {next[i][2] : i \in {j \in New : next[j][1] = "install"
                                                  /\ \A k \in New : ~(j < k)}}
  BY DEF InstallsOf, Waiting, Old, New
<1>5. CASE Outside(text)[m] /\ line[1] # "blank"
  <2>1. ASSUME NEW i PROVE i \in New <=> i \in Old \/ i = m BY <1>3, <1>5
  <2>2. ~(m < m) /\ next[m] = line BY <1>1
  <2>3. InstallsOf(next) = InstallsOf(text) \union Waiting(text)
    <3>1. ASSUME NEW j PROVE (j \in New /\ \E k \in New : j < k) <=> j \in Old
      BY <1>2, <2>1, <2>2
    <3>2. InstallsOf(next) = {text[i][2] : i \in {j \in Old : text[j][1] = "install"}}
      <4>1. {j \in New : next[j][1] = "install" /\ \E k \in New : j < k}
              = {j \in Old : text[j][1] = "install"}
        BY <1>2, <3>1
      <4>2. \A i \in {j \in Old : text[j][1] = "install"} : next[i] = text[i] BY <1>2
      <4> QED BY <1>4, <4>1, <4>2
    <3> QED BY <1>4, <3>2
  <2>4. Waiting(next) = IF line[1] = "install" THEN {line[2]} ELSE {}
    <3>1. {j \in New : next[j][1] = "install" /\ \A k \in New : ~(j < k)}
            = IF line[1] = "install" THEN {m} ELSE {}
      BY <1>2, <2>1, <2>2
    <3> QED BY <1>4, <2>2, <3>1
  <2> QED BY <1>5, <2>3, <2>4 DEF next
<1>6. CASE ~(Outside(text)[m] /\ line[1] # "blank")
  <2>1. New = Old BY <1>3, <1>6
  <2>2. /\ {j \in New : next[j][1] = "install" /\ \E k \in New : j < k}
             = {j \in Old : text[j][1] = "install" /\ \E k \in Old : j < k}
        /\ {j \in New : next[j][1] = "install" /\ \A k \in New : ~(j < k)}
             = {j \in Old : text[j][1] = "install" /\ \A k \in Old : ~(j < k)}
    BY <1>2, <2>1
  <2>3. InstallsOf(next) = InstallsOf(text) BY <1>2, <1>4, <2>2
  <2>4. Waiting(next) = Waiting(text) BY <1>2, <1>4, <2>2
  <2> QED BY <1>6, <2>3, <2>4 DEF next
<1> QED BY <1>5, <1>6 DEF next

-----------------------------------------------------------------------------
(* Wherever the chunks end *)

\* Nothing broke and nothing was bitten off: the parser has read what was
\* delivered, and made of it what it says.
Faithful ==
  broken = 0 /\ bitten = 0 =>
    /\ ~carry /\ ReadTo(delivered, Len(delivered) + 1)
    /\ raws = BlocksOf(delivered)
    /\ installs = InstallsOf(delivered) /\ between = Waiting(delivered)

\* Behind a marker that was taken the parser is outside blocks.
MarkerTaken ==
  part = "marker" => /\ file = NoFile
                     /\ bitten = 0 => Head(wire)[1] = "mark"

\* The wire holds text from its line p on.
Holds(text, p) ==
  /\ p + Len(wire) = Len(text) + 1
  /\ \A i \in 1 .. Len(wire) : wire[i] = text[(p - 1) + i]

\* The parser reads what the current response says.
Synced(text, p) ==
  /\ carry => file = NoFile
  /\ IF part = "marker" THEN Head(wire)[1] = "mark" /\ ReadTo(text, p + 1)
     ELSE ReadTo(text, p)

\* The closed blocks that no response wrote.
Damaged == {k \in DOMAIN raws : raws[k] \notin WholeBlocks}

\* Every damaged block is accounted for; a parser that is out of step with the
\* response has one more in hand, for the block that the next marker ends.
Accounted ==
  \E text \in Texts : \E p \in 1 .. Len(text) + 1 :
    /\ Holds(text, p)
    /\ Cardinality(Damaged) <= broken + 2 * bitten
    /\ Cardinality(Damaged) < broken + 2 * bitten \/ Synced(text, p)

\* The inductive invariant.
ReadInv == FilesInv /\ MarkerTaken /\ Faithful /\ Accounted

\* What FilesInv says of the variables used here.
LEMMA Typed ==
  ASSUME FilesInv
  PROVE  /\ wire \in Seq(Lines) /\ delivered \in Seq(Lines) /\ raws \in Seq(Raw)
         /\ broken \in Nat /\ bitten \in Nat /\ (part # "none" => wire # <<>>)
         /\ part \in {"none", "some", "marker"} /\ carry \in BOOLEAN
BY DEF FilesInv, ParserTyped, WireTyped

\* Damaged blocks can be counted.
LEMMA DamagedCount ==
  ASSUME raws \in Seq(Raw)
  PROVE  IsFiniteSet(Damaged) /\ Cardinality(Damaged) \in Nat
<1>1. Damaged \in SUBSET (0 .. Len(raws)) /\ Len(raws) \in Nat BY LenProperties DEF Damaged
<1> QED BY <1>1, ListedIn

\* A block of a response does no damage, another one counts once.
LEMMA DamagedAppend ==
  ASSUME raws \in Seq(Raw), raws' \in Seq(Raw), NEW raw, raws' = Append(raws, raw)
  PROVE  /\ Cardinality(Damaged') \in Nat
         /\ Cardinality(Damaged') <= Cardinality(Damaged) + 1
         /\ raw \in WholeBlocks => Cardinality(Damaged') = Cardinality(Damaged)
<1> DEFINE n == Len(raws)
           E == Raw \union {raw}
<1>1. n \in Nat /\ DOMAIN raws = 1 .. n BY LenProperties
<1>2. /\ Len(raws') = n + 1 /\ raws'[n + 1] = raw
      /\ \A k \in 1 .. n : raws'[k] = raws[k]
  <2>1. raws \in Seq(E) /\ raw \in E BY SeqMonotonic
  <2> HIDE DEF E
  <2> QED BY <2>1, AppendProperties
<1>3. DOMAIN raws' = 1 .. n + 1 BY <1>2, LenProperties
<1>4. Damaged' = {k \in DOMAIN raws' : raws'[k] \notin WholeBlocks} BY DEF Damaged
<1> HIDE DEF n
<1>5. \A k : k \in Damaged' <=> k \in Damaged \/ (k = n + 1 /\ raw \notin WholeBlocks)
  <2> TAKE k
  <2>1. CASE k \in 1 .. n
    <3>1. k \in 1 .. n + 1 /\ k # n + 1 BY <1>1, <2>1
    <3> QED BY <1>1, <1>2, <1>3, <1>4, <2>1, <3>1 DEF Damaged
  <2>2. CASE k = n + 1
    <3>1. k \in 1 .. n + 1 /\ k \notin 1 .. n BY <1>1, <2>2
    <3> QED BY <1>1, <1>2, <1>3, <1>4, <2>2, <3>1 DEF Damaged
  <2>3. CASE k \notin 1 .. n /\ k # n + 1
    <3>1. k \notin 1 .. n + 1 BY <1>1, <2>3
    <3> QED BY <1>1, <1>3, <1>4, <2>3, <3>1 DEF Damaged
  <2> QED BY <2>1, <2>2, <2>3
<1>6. IsFiniteSet(Damaged) /\ Cardinality(Damaged) \in Nat BY DamagedCount
<1>7. CASE raw \in WholeBlocks
  <2>1. Damaged' = Damaged BY <1>5, <1>7
  <2> QED BY <1>6, <2>1
<1>8. CASE raw \notin WholeBlocks
  <2>1. \A k : k \in Damaged' <=> k \in Damaged \union {n + 1} BY <1>5, <1>8
  <2>2. Damaged' = Damaged \union {n + 1} BY <2>1
  <2>3. n + 1 \notin Damaged BY <1>1 DEF Damaged
  <2>4. Cardinality(Damaged \union {n + 1}) = Cardinality(Damaged) + 1 BY <1>6, <2>3, FS_AddElement
  <2> QED BY <1>6, <1>8, <2>2, <2>4
<1> QED BY <1>7, <1>8

\* The blocks that end in a response.
LEMMA WholeBlock ==
  ASSUME NEW text \in Texts, NEW m \in Ends(text)
  PROVE  BlockAt(text, m) \in WholeBlocks
BY DEF WholeBlocks

\* The wire's first line is the next of the response.
LEMMA HeadOfWire ==
  ASSUME NEW text \in Texts, NEW p \in 1 .. Len(text) + 1, Holds(text, p),
         wire \in Seq(Lines), wire # <<>>
  PROVE  /\ text \in Seq(Lines) /\ p \in 1 .. Len(text) /\ Head(wire) = text[p]
         /\ Head(wire) \in Lines
         /\ p + 1 \in 1 .. Len(text) + 1
         /\ wire' = Tail(wire) => Holds(text, p + 1)'
<1>1. text \in Seq(Lines) BY TextsAssumption
<1>2. Len(text) \in Nat /\ Len(wire) \in Nat /\ Len(wire) # 0 BY <1>1, LenProperties, EmptySeq
<1>3. p \in 1 .. Len(text) /\ p + 1 \in 1 .. Len(text) + 1 BY <1>2 DEF Holds
<1>4. Head(wire) = wire[1] /\ Head(wire) \in Lines BY <1>2, HeadTailProperties
<1>5. wire[1] = text[p]
  <2>1. wire[1] = text[(p - 1) + 1] BY <1>2 DEF Holds
  <2>2. (p - 1) + 1 = p BY <1>3
  <2> QED BY <2>1, <2>2
<1>6. ASSUME wire' = Tail(wire) PROVE Holds(text, p + 1)'
  <2>1. /\ Len(wire') = Len(wire) - 1
        /\ \A i \in 1 .. Len(wire) - 1 : wire'[i] = wire[i + 1]
    BY <1>2, <1>6, HeadTailProperties
  <2>2. (p + 1) + Len(wire') = Len(text) + 1 BY <1>2, <1>3, <2>1 DEF Holds
  <2>3. ASSUME NEW i \in 1 .. Len(wire') PROVE wire'[i] = text[((p + 1) - 1) + i]
    <3>1. i \in 1 .. Len(wire) - 1 /\ i + 1 \in 1 .. Len(wire) BY <1>2, <2>1
    <3>2. wire'[i] = text[(p - 1) + (i + 1)] BY <2>1, <3>1 DEF Holds
    <3>3. (p - 1) + (i + 1) = ((p + 1) - 1) + i BY <1>3, <3>1
    <3> QED BY <3>2, <3>3
  <2> QED BY <2>2, <2>3 DEF Holds
<1> QED BY <1>1, <1>3, <1>4, <1>5, <1>6

\* Between blocks a line that opens none changes at most the install commands.
LEMMA StaysOutside ==
  ASSUME file = NoFile, NEW line, line[1] \notin Commands, ProcessLine(line)
  PROVE  /\ file' = NoFile /\ raws' = raws
         /\ line[1] = "blank" => UNCHANGED <<file, mode, buffer, raws, between, installs>>
<1>1. Between(line) BY DEF ProcessLine
<1> QED BY <1>1 DEF Between

\* The marker takes the parser and every reading of a text outside.
LEMMA MarkerEnds ==
  ASSUME NEW text \in Seq(Lines), NEW p \in 1 .. Len(text), text[p][1] = "mark", file' = NoFile
  PROVE  ReadTo(text, p + 1)'
<1>1. Outside(text)[p + 1] = IF Outside(text)[p] THEN text[p][1] \notin Commands
                                                ELSE text[p][1] = "mark"
  BY OutsideForm
<1>2. "mark" \notin Commands BY DEF Commands
<1>3. Outside(text)[p + 1]
  <2>1. CASE Outside(text)[p] BY <1>1, <1>2, <2>1
  <2>2. CASE ~Outside(text)[p] BY <1>1, <2>2
  <2> QED BY <2>1, <2>2
<1> QED BY <1>3 DEF ReadTo

\* One more line of what was delivered, processed.
LEMMA FaithfulOn ==
  ASSUME FilesInv, Faithful, NEW line \in Lines, ProcessLine(line),
         delivered' = Append(delivered, line), broken' = broken,
         bitten' = 0 => bitten = 0, ~carry => ~carry'
  PROVE  Faithful'
<1> SUFFICES ASSUME broken' = 0, bitten' = 0
             PROVE  /\ ~carry' /\ ReadTo(delivered, Len(delivered) + 1)'
                    /\ raws' = BlocksOf(delivered')
                    /\ installs' = InstallsOf(delivered') /\ between' = Waiting(delivered')
  BY DEF Faithful
<1>1. PICK text \in Seq(Lines) : text = delivered BY Typed
<1> DEFINE next == Append(text, line)
           m == Len(text) + 1
<1>2. /\ ~carry /\ ReadTo(text, m)
      /\ raws = BlocksOf(text) /\ installs = InstallsOf(text) /\ between = Waiting(text)
  BY <1>1 DEF Faithful
<1>3. /\ next \in Seq(Lines) /\ Len(next) = m /\ next[m] = line /\ m \in 1 .. Len(next)
      /\ Outside(next)[m] = Outside(text)[m]
  <2>1. /\ Len(text) \in Nat /\ next \in Seq(Lines) /\ Len(next) = m /\ next[m] = line
        /\ \A i \in 1 .. m : Outside(next)[i] = Outside(text)[i]
    BY TextAppend
  <2>2. m \in 1 .. m BY <2>1
  <2> QED BY <2>1, <2>2
<1>4. delivered' = next BY <1>1
<1>5. ReadTo(next, m) BY <1>2, ReadToStays
<1>6. BlocksOf(next) = IF m \in Ends(next) THEN Append(BlocksOf(text), BlockAt(next, m))
                       ELSE BlocksOf(text)
  BY BlocksAppend
<1>7. IF Outside(text)[m] /\ line[1] # "blank"
        THEN /\ InstallsOf(next) = InstallsOf(text) \union Waiting(text)
             /\ Waiting(next) = IF line[1] = "install" THEN {line[2]} ELSE {}
        ELSE InstallsOf(next) = InstallsOf(text) /\ Waiting(next) = Waiting(text)
  BY InstallsAppend
<1> HIDE DEF next, m
<1>8. /\ ReadTo(next, m + 1)'
      /\ raws' = IF m \in Ends(next) THEN Append(raws, BlockAt(next, m)) ELSE raws
  BY <1>3, <1>5, ReadsOn
<1>9. ReadTo(delivered, Len(delivered) + 1)' BY <1>3, <1>4, <1>8 DEF ReadTo
<1>10. raws' = BlocksOf(delivered') BY <1>2, <1>4, <1>6, <1>8
<1>11. Outside(text)[m] <=> file = NoFile BY <1>2 DEF ReadTo
<1>12. installs' = InstallsOf(next) /\ between' = Waiting(next)
  <2>1. CASE file # NoFile
    <3>1. UNCHANGED <<installs, between>> BY <2>1 DEF ProcessLine, Close, Content
    <3> QED BY <1>2, <1>7, <1>11, <2>1, <3>1
  <2>2. CASE file = NoFile /\ line[1] \in Commands
    <3>1. installs' = installs \union between /\ between' = {} BY <2>2 DEF ProcessLine, Open
    <3>2. line[1] # "blank" /\ line[1] # "install" BY <2>2 DEF Commands
    <3> QED BY <1>2, <1>7, <1>11, <2>2, <3>1, <3>2
  <2>3. CASE file = NoFile /\ line[1] \notin Commands
    <3>1. IF line[1] = "blank" THEN UNCHANGED <<between, installs>>
          ELSE /\ installs' = installs \union between
               /\ between' = IF line[1] = "install" THEN {line[2]} ELSE {}
      BY <2>3 DEF ProcessLine, Between
    <3> QED BY <1>2, <1>7, <1>11, <2>3, <3>1
  <2> QED BY <2>1, <2>2, <2>3
<1> QED BY <1>2, <1>4, <1>9, <1>10, <1>12

\* Nothing that the parser reads or has read changes.
LEMMA FaithfulStays ==
  ASSUME Faithful, broken' = 0 => broken = 0 /\ (~carry => ~carry'), bitten' = bitten,
         UNCHANGED <<file, mode, buffer, raws, between, installs, delivered>>
  PROVE  Faithful'
<1>1. broken' = 0 /\ bitten' = 0 => broken = 0 /\ bitten = 0 /\ (~carry => ~carry') OBVIOUS
<1> QED BY <1>1 DEF Faithful, ReadTo

\* A chunk completes a line.
LEMMA LineReads ==
  ASSUME ReadInv, FilesInv', LineArrives
  PROVE  ReadInv'
<1> DEFINE line == Head(wire)
           taken == Received(line)
<1>0. /\ wire \in Seq(Lines) /\ raws \in Seq(Raw) /\ raws' \in Seq(Raw)
      /\ broken \in Nat /\ bitten \in Nat
      /\ part \in {"none", "some", "marker"} /\ carry \in BOOLEAN
  <2>1. raws' \in Seq(Raw) BY DEF FilesInv, ParserTyped
  <2> QED BY <2>1, Typed DEF ReadInv
<1>1. /\ wire # <<>> /\ ProcessLine(taken)
      /\ wire' = Tail(wire) /\ part' = "none" /\ carry' = FALSE
      /\ delivered' = IF part = "marker" THEN delivered ELSE Append(delivered, line)
      /\ UNCHANGED <<broken, bitten>>
  BY DEF LineArrives
<1>2. line \in Lines /\ taken \in Lines BY <1>0, <1>1, HeadTailProperties, ReceivedLine
<1>3. /\ part = "marker" => taken = IF line[1] = "mark" THEN <<"blank", 0>> ELSE <<"text", 0>>
      /\ part # "marker" =>
           taken = IF carry /\ (file # NoFile \/ line[1] \notin Commands)
                     THEN <<"text", 0>> ELSE line
  BY DEF Received
<1> HIDE DEF line, taken
<1>4. MarkerTaken' BY <1>1 DEF MarkerTaken
<1>5. Faithful'
  <2>1. CASE part = "marker"
    <3>1. SUFFICES ASSUME broken' = 0, bitten' = 0 PROVE Faithful' BY DEF Faithful
    <3>2. file = NoFile /\ taken = <<"blank", 0>>
      BY <1>1, <1>3, <2>1, <3>1 DEF ReadInv, MarkerTaken, line
    <3>3. taken[1] = "blank" /\ taken[1] \notin Commands BY <3>2 DEF Commands
    <3>4. UNCHANGED <<file, mode, buffer, raws, between, installs>>
      BY <1>1, <3>2, <3>3, StaysOutside
    <3> QED BY <1>1, <2>1, <3>4, FaithfulStays DEF ReadInv
  <2>2. CASE part # "marker"
    <3>1. SUFFICES ASSUME broken' = 0, bitten' = 0 PROVE Faithful' BY DEF Faithful
    <3>2. ~carry BY <1>1, <3>1 DEF ReadInv, Faithful
    <3>3. taken = line BY <1>3, <2>2, <3>2
    <3> QED BY <1>1, <1>2, <2>2, <3>3, FaithfulOn DEF ReadInv
  <2> QED BY <2>1, <2>2
<1>6. Accounted'
  <2> DEFINE budget == broken + 2 * bitten
             spent == Cardinality(Damaged)
  <2>0. PICK text \in Texts : \E p \in 1 .. Len(text) + 1 :
          /\ Holds(text, p) /\ spent <= budget /\ (spent < budget \/ Synced(text, p))
    BY DEF ReadInv, Accounted
  <2>1. PICK p \in 1 .. Len(text) + 1 :
          /\ Holds(text, p) /\ spent <= budget /\ (spent < budget \/ Synced(text, p))
    BY <2>0
  <2>2. /\ text \in Seq(Lines) /\ p \in 1 .. Len(text) /\ line = text[p]
        /\ p + 1 \in 1 .. Len(text) + 1 /\ Holds(text, p + 1)'
    BY <1>0, <1>1, <2>1, HeadOfWire DEF line
  <2>3. spent \in Nat /\ budget \in Nat /\ budget' = budget BY <1>0, <1>1, DamagedCount
  <2> HIDE DEF spent
  <2> SUFFICES /\ Cardinality(Damaged') <= budget
               /\ Cardinality(Damaged') < budget \/ ReadTo(text, p + 1)'
    <3>1. ReadTo(text, p + 1)' => Synced(text, p + 1)' BY <1>1 DEF Synced
    <3> QED BY <1>1, <2>2, <3>1 DEF Accounted
  <2>4. CASE Synced(text, p) /\ part = "marker"
    <3>1. ReadTo(text, p + 1) /\ taken = <<"blank", 0>>
      BY <1>3, <2>4 DEF Synced, line
    <3>2. file = NoFile BY <2>4 DEF ReadInv, MarkerTaken
    <3>3. taken[1] = "blank" /\ taken[1] \notin Commands BY <3>1 DEF Commands
    <3>4. UNCHANGED <<file, mode, buffer, raws>> BY <1>1, <3>2, <3>3, StaysOutside
    <3>5. ReadTo(text, p + 1)' BY <3>1, <3>4 DEF ReadTo
    <3>6. Damaged' = Damaged BY <3>4 DEF Damaged, WholeBlocks
    <3> QED BY <2>1, <3>5, <3>6 DEF spent
  <2>5. CASE Synced(text, p) /\ part # "marker" /\ taken = line
    <3>1. ReadTo(text, p) BY <2>5 DEF Synced
    <3>2. /\ ReadTo(text, p + 1)'
          /\ raws' = IF p \in Ends(text) THEN Append(raws, BlockAt(text, p)) ELSE raws
      BY <1>1, <2>2, <2>5, <3>1, ReadsOn
    <3>3. Cardinality(Damaged') = spent
      <4>1. CASE p \in Ends(text)
        <5>1. BlockAt(text, p) \in WholeBlocks BY <4>1, WholeBlock
        <5> QED BY <1>0, <3>2, <4>1, <5>1, DamagedAppend DEF spent
      <4>2. CASE p \notin Ends(text) BY <3>2, <4>2 DEF Damaged, WholeBlocks, spent
      <4> QED BY <4>1, <4>2
    <3> QED BY <2>1, <3>2, <3>3
  <2>6. CASE Synced(text, p) /\ part # "marker" /\ taken # line
    <3>1. /\ ReadTo(text, p) /\ file = NoFile /\ line[1] \notin Commands /\ taken = <<"text", 0>>
      BY <1>0, <1>3, <2>6 DEF Synced
    <3>2. taken[1] \notin Commands BY <3>1 DEF Commands
    <3>3. file' = NoFile /\ raws' = raws BY <1>1, <3>1, <3>2, StaysOutside
    <3>4. Outside(text)[p] BY <3>1 DEF ReadTo
    <3>5. Outside(text)[p + 1] BY <2>2, <3>1, <3>4, OutsideForm
    <3>6. ReadTo(text, p + 1)' BY <3>3, <3>5 DEF ReadTo
    <3>7. Damaged' = Damaged BY <3>3 DEF Damaged, WholeBlocks
    <3> QED BY <2>1, <3>6, <3>7 DEF spent
  <2>7. CASE spent < budget
    <3>1. CASE file # NoFile /\ taken[1] = "mark"
      <4>1. part # "marker" /\ taken = line
        <5>1. <<"blank", 0>>[1] # "mark" /\ <<"text", 0>>[1] # "mark" OBVIOUS
        <5> QED BY <1>3, <3>1, <5>1
      <4>2. Close BY <1>1, <3>1 DEF ProcessLine
      <4>3. file' = NoFile
            /\ raws' = Append(raws, [file |-> file, mode |-> mode, lines |-> buffer])
        BY <4>2 DEF Close
      <4>4. Cardinality(Damaged') \in Nat /\ Cardinality(Damaged') <= spent + 1
        BY <1>0, <4>3, DamagedAppend DEF spent
      <4>5. ReadTo(text, p + 1)' BY <2>2, <3>1, <4>1, <4>3, MarkerEnds
      <4> QED BY <2>3, <2>7, <4>4, <4>5
    <3>2. CASE ~(file # NoFile /\ taken[1] = "mark")
      <4>1. raws' = raws BY <1>1, <3>2 DEF ProcessLine, Content, Open, Between
      <4>2. Damaged' = Damaged BY <4>1 DEF Damaged, WholeBlocks
      <4> QED BY <2>3, <2>7, <4>2 DEF spent
    <3> QED BY <3>1, <3>2
  <2> QED BY <2>1, <2>4, <2>5, <2>6, <2>7
<1> QED BY <1>4, <1>5, <1>6 DEF ReadInv

\* A chunk ends behind a leading marker.
LEMMA CutAtMarkerReads ==
  ASSUME ReadInv, FilesInv', CutAtMarker
  PROVE  ReadInv'
<1> DEFINE line == Head(wire)
           budget == broken + 2 * bitten
           spent == Cardinality(Damaged)
<1>0. /\ wire \in Seq(Lines) /\ raws \in Seq(Raw) /\ raws' \in Seq(Raw)
      /\ broken \in Nat /\ bitten \in Nat
  <2>1. raws' \in Seq(Raw) BY DEF FilesInv, ParserTyped
  <2> QED BY <2>1, Typed DEF ReadInv
<1>1. /\ wire # <<>> /\ part # "marker" /\ ~carry /\ line[1] \in {"mark", "like"}
      /\ file # NoFile /\ Close /\ part' = "marker"
      /\ delivered' = Append(delivered, <<"mark", 0>>)
      /\ bitten' = IF line[1] = "like" THEN bitten + 1 ELSE bitten
      /\ wire' = wire /\ carry' = carry /\ broken' = broken
  BY DEF CutAtMarker
<1>2. /\ file' = NoFile
      /\ raws' = Append(raws, [file |-> file, mode |-> mode, lines |-> buffer])
  BY <1>1 DEF Close
<1>3. spent \in Nat /\ budget \in Nat BY <1>0, DamagedCount
<1>4. Cardinality(Damaged') \in Nat /\ Cardinality(Damaged') <= spent + 1
  BY <1>0, <1>2, DamagedAppend
<1>5. MarkerTaken'
  <2>1. bitten' = 0 => line[1] = "mark" BY <1>0, <1>1
  <2> QED BY <1>1, <1>2, <2>1 DEF MarkerTaken
<1>6. Faithful'
  <2>1. <<"mark", 0>> \in Lines BY DEF Lines
  <2>2. ProcessLine(<<"mark", 0>>) BY <1>1 DEF ProcessLine
  <2>3. bitten' = 0 => bitten = 0 BY <1>0, <1>1
  <2>4. ~carry' BY <1>1
  <2> QED BY <1>1, <2>1, <2>2, <2>3, <2>4, FaithfulOn DEF ReadInv
<1>7. Accounted'
  <2>0. PICK text \in Texts : \E p \in 1 .. Len(text) + 1 :
          /\ Holds(text, p) /\ spent <= budget /\ (spent < budget \/ Synced(text, p))
    BY DEF ReadInv, Accounted
  <2>1. PICK p \in 1 .. Len(text) + 1 :
          /\ Holds(text, p) /\ spent <= budget /\ (spent < budget \/ Synced(text, p))
    BY <2>0
  <2>2. /\ text \in Seq(Lines) /\ p \in 1 .. Len(text) /\ line = text[p]
    BY <1>0, <1>1, <2>1, HeadOfWire
  <2>3. Holds(text, p)' BY <1>1, <2>1 DEF Holds
  <2> HIDE DEF spent
  <2>4. CASE line[1] = "like"
    <3>1. (broken + 2 * bitten)' = budget + 2 BY <1>0, <1>1, <2>4
    <3> HIDE DEF budget
    <3>2. /\ Cardinality(Damaged') <= (broken + 2 * bitten)'
          /\ Cardinality(Damaged') < (broken + 2 * bitten)'
      BY <1>3, <1>4, <2>1, <3>1
    <3> QED BY <2>3, <3>2 DEF Accounted
  <2>5. CASE line[1] = "mark"
    <3>1. bitten' = bitten BY <1>1, <2>5
    <3>2. wire'[1] = wire[1] /\ Head(wire') = line BY <1>1
    <3>3. ReadTo(text, p + 1)' BY <1>2, <2>2, <2>5, MarkerEnds
    <3>4. Synced(text, p)' BY <1>1, <1>2, <2>5, <3>2, <3>3 DEF Synced
    <3>5. Cardinality(Damaged') <= budget
      <4>1. CASE Synced(text, p)
        <5>1. ReadTo(text, p) BY <1>1, <4>1 DEF Synced
        <5>2. ProcessLine(text[p]) BY <1>1, <2>2, <2>5 DEF ProcessLine
        <5>3. raws' = IF p \in Ends(text) THEN Append(raws, BlockAt(text, p)) ELSE raws
          BY <2>2, <5>1, <5>2, ReadsOn
        <5>4. CASE p \in Ends(text)
          <6>1. BlockAt(text, p) \in WholeBlocks BY <5>4, WholeBlock
          <6>2. Cardinality(Damaged') = spent
            BY <1>0, <5>3, <5>4, <6>1, DamagedAppend DEF spent
          <6> QED BY <2>1, <6>2
        <5>5. CASE p \notin Ends(text)
          <6>1. Damaged' = Damaged BY <5>3, <5>5 DEF Damaged, WholeBlocks
          <6> QED BY <2>1, <6>1 DEF spent
        <5> QED BY <5>4, <5>5
      <4>2. CASE spent < budget
        <5> HIDE DEF budget
        <5> QED BY <1>3, <1>4, <4>2
      <4> QED BY <2>1, <4>1, <4>2
    <3>6. (broken + 2 * bitten)' = budget BY <1>1, <3>1
    <3> HIDE DEF budget
    <3> QED BY <2>3, <3>4, <3>5, <3>6 DEF Accounted
  <2> QED BY <1>1, <2>4, <2>5
<1> QED BY <1>5, <1>6, <1>7 DEF ReadInv

\* A step that leaves the parser, the wire and what was read alone; a chunk may
\* have ended within a line.
LEMMA OthersRead ==
  ASSUME ReadInv, FilesInv',
         UNCHANGED <<wire, carry, file, mode, buffer, raws, between, installs, delivered, bitten>>,
         broken' \in {broken, broken + 1},
         part' = part \/ (part = "none" /\ part' = "some")
  PROVE  ReadInv'
<1>0. raws \in Seq(Raw) /\ broken \in Nat /\ bitten \in Nat BY Typed DEF ReadInv
<1>1. MarkerTaken' BY DEF ReadInv, MarkerTaken
<1>2. Faithful'
  <2>1. broken' = 0 => broken = 0 BY <1>0
  <2> QED BY <2>1, FaithfulStays DEF ReadInv
<1>3. Accounted'
  <2>0. PICK text \in Texts : \E p \in 1 .. Len(text) + 1 :
          /\ Holds(text, p) /\ Cardinality(Damaged) <= broken + 2 * bitten
          /\ (Cardinality(Damaged) < broken + 2 * bitten \/ Synced(text, p))
    BY DEF ReadInv, Accounted
  <2>1. PICK p \in 1 .. Len(text) + 1 :
          /\ Holds(text, p) /\ Cardinality(Damaged) <= broken + 2 * bitten
          /\ (Cardinality(Damaged) < broken + 2 * bitten \/ Synced(text, p))
    BY <2>0
  <2>2. Holds(text, p)' BY <2>1 DEF Holds
  <2>3. Damaged' = Damaged BY DEF Damaged, WholeBlocks
  <2>4. /\ ReadTo(text, p)' <=> ReadTo(text, p)
        /\ ReadTo(text, p + 1)' <=> ReadTo(text, p + 1)
    BY DEF ReadTo
  <2>5. Synced(text, p) => Synced(text, p)' BY <2>4 DEF Synced
  <2>6. Cardinality(Damaged) \in Nat BY <1>0, DamagedCount
  <2> HIDE DEF Damaged
  <2>7. /\ Cardinality(Damaged) <= broken' + 2 * bitten'
        /\ Cardinality(Damaged) < broken' + 2 * bitten' \/ Synced(text, p)
    BY <1>0, <2>1, <2>6
  <2> QED BY <2>2, <2>3, <2>5, <2>7 DEF Accounted
<1> QED BY <1>1, <1>2, <1>3 DEF ReadInv

\* A response starts outside blocks: a parser that has none open is in step with it.
LEMMA ResponseStarts ==
  ASSUME NEW text \in Texts, file = NoFile
  PROVE  ReadTo(text, 1)
BY TextsAssumption, OutsideForm DEF ReadTo

\* An attempt breaks.
LEMMA AttemptReads ==
  ASSUME ReadInv, FilesInv', AttemptFails
  PROVE  ReadInv'
<1>0. /\ raws \in Seq(Raw) /\ broken \in Nat /\ bitten \in Nat
      /\ part \in {"none", "some", "marker"} /\ carry \in BOOLEAN
  BY Typed DEF ReadInv
<1>1. /\ broken' = IF file # NoFile \/ part = "some" THEN broken + 1 ELSE broken
      /\ UNCHANGED <<file, mode, buffer, raws, between, installs, delivered, bitten>>
  BY DEF AttemptFails, parser
<1>2. CASE streamAttempt < StreamRetryLimit
  <2>1. wire' \in Texts /\ part' = "none" /\ carry' = (carry \/ part = "some")
    BY <1>2 DEF AttemptFails
  <2>2. MarkerTaken' BY <2>1 DEF MarkerTaken
  <2>3. Faithful'
    <3>1. broken' = 0 => broken = 0 /\ (~carry => ~carry') BY <1>0, <1>1, <2>1
    <3> QED BY <1>1, <3>1, FaithfulStays DEF ReadInv
  <2>4. Accounted'
    <3>1. PICK text \in Texts : text = wire' BY <2>1
    <3>2. Len(text) \in Nat BY TextsAssumption, LenProperties
    <3>3. 1 \in 1 .. Len(text) + 1 BY <3>2
    <3>4. Holds(text, 1)'
      <4>1. 1 + Len(wire') = Len(text) + 1 BY <3>1, <3>2
      <4>2. \A i \in 1 .. Len(wire') : wire'[i] = text[(1 - 1) + i] BY <3>1, <3>2
      <4> QED BY <4>1, <4>2 DEF Holds
    <3>5. Damaged' = Damaged BY <1>1 DEF Damaged, WholeBlocks
    <3>6. Cardinality(Damaged) \in Nat /\ Cardinality(Damaged) <= broken + 2 * bitten
      BY <1>0, DamagedCount DEF ReadInv, Accounted
    <3> HIDE DEF Damaged
    <3>7. CASE file = NoFile
      <4>1. ReadTo(text, 1)'
        <5>1. Outside(text)[1] BY TextsAssumption, OutsideForm
        <5>2. file' = NoFile BY <1>1, <3>7
        <5> QED BY <5>1, <5>2 DEF ReadTo
      <4>2. Synced(text, 1)' BY <1>1, <2>1, <3>7, <4>1 DEF Synced
      <4>3. Cardinality(Damaged') <= broken' + 2 * bitten' BY <1>0, <1>1, <3>5, <3>6
      <4> QED BY <3>3, <3>4, <4>2, <4>3 DEF Accounted
    <3>8. CASE file # NoFile
      <4>1. broken' = broken + 1 BY <1>1, <3>8
      <4>2. /\ Cardinality(Damaged') <= broken' + 2 * bitten'
            /\ Cardinality(Damaged') < broken' + 2 * bitten'
        BY <1>0, <1>1, <3>5, <3>6, <4>1
      <4> QED BY <3>3, <3>4, <4>2 DEF Accounted
    <3> QED BY <3>7, <3>8
  <2> QED BY <2>2, <2>3, <2>4 DEF ReadInv
<1>3. CASE ~(streamAttempt < StreamRetryLimit)
  <2>1. UNCHANGED <<wire, part, carry>> BY <1>3 DEF AttemptFails, stream
  <2> QED BY <1>1, <2>1, OthersRead
<1> QED BY <1>2, <1>3

\* Nothing has come yet.
LEMMA StreamInitReads == StreamInit => ReadInv
<1> SUFFICES ASSUME StreamInit PROVE ReadInv OBVIOUS
<1>1. FilesInv BY StreamInitInv
<1>2. MarkerTaken BY DEF StreamInit, MarkerTaken
<1>3. /\ wire \in Texts /\ part = "none" /\ carry = FALSE /\ file = NoFile
      /\ between = {} /\ installs = {} /\ raws = <<>> /\ delivered = <<>>
      /\ broken = 0 /\ bitten = 0
  BY DEF StreamInit
<1>4. Faithful
  <2>1. <<>> \in Seq(Lines) /\ Len(<<>>) = 0 /\ DOMAIN <<>> = {} BY EmptySeq
  <2>2. Outside(<<>>)[1] BY <2>1, OutsideForm
  <2>3. ReadTo(delivered, Len(delivered) + 1) BY <1>3, <2>1, <2>2 DEF ReadTo
  <2>4. LinesOutside(<<>>) = {} /\ Ends(<<>>) = {} BY <2>1 DEF LinesOutside, Ends
  <2>5. InstallsOf(<<>>) = {} /\ Waiting(<<>>) = {} BY <2>4 DEF InstallsOf, Waiting
  <2>6. Cardinality({}) = 0 BY FS_EmptySet
  <2>7. DOMAIN Listed({}) = {} BY <2>6 DEF Listed
  <2>8. BlocksOf(<<>>) = <<>> BY <2>4, <2>7 DEF BlocksOf
  <2> QED BY <1>3, <2>3, <2>5, <2>8 DEF Faithful
<1>5. Accounted
  <2>1. Len(wire) \in Nat BY <1>3, TextsAssumption, LenProperties
  <2>2. 1 \in 1 .. Len(wire) + 1 BY <2>1
  <2>3. Holds(wire, 1) BY <2>1 DEF Holds
  <2>4. Synced(wire, 1) BY <1>3, ResponseStarts DEF Synced
  <2>5. Damaged = {} BY <1>3 DEF Damaged
  <2>6. Cardinality({}) = 0 BY FS_EmptySet
  <2>7. Cardinality(Damaged) <= broken + 2 * bitten BY <1>3, <2>5, <2>6
  <2> QED BY <1>3, <2>2, <2>3, <2>4, <2>7 DEF Accounted
<1> QED BY <1>1, <1>2, <1>4, <1>5 DEF ReadInv

\* Every step keeps it.
LEMMA StreamNextReads == ReadInv /\ [StreamNext]_streamVars => ReadInv'
<1> SUFFICES ASSUME ReadInv, [StreamNext]_streamVars PROVE ReadInv' OBVIOUS
<1>0. FilesInv' BY StreamNextInv DEF ReadInv
<1>1. CASE LineArrives BY <1>0, <1>1, LineReads
<1>2. CASE CutAtMarker BY <1>0, <1>2, CutAtMarkerReads
<1>3. CASE AttemptFails BY <1>0, <1>3, AttemptReads
<1>4. CASE CutLine
  BY <1>0, <1>4, OthersRead DEF CutLine, parser, history
<1>5. CASE \/ StreamEnds \/ Cancelled \/ SaveGeneratedFiles \/ Done \/ UNCHANGED streamVars
           \/ \E i \in DOMAIN entries : FixerDone(i)
  <2>1. UNCHANGED <<wire, carry, part, file, mode, buffer, raws, between, installs, delivered,
                    broken, bitten>>
    BY <1>5 DEF StreamEnds, Cancelled, SaveGeneratedFiles, Done, FixerDone, streamVars, stream,
                parser, history
  <2> QED BY <1>0, <2>1, OthersRead
<1> QED BY <1>1, <1>2, <1>3, <1>4, <1>5 DEF StreamNext

\* The parser and the readings of what was delivered and of the current response
\* agree in every reachable state.
THEOREM ReadInvariance == StreamSpec => []ReadInv
BY StreamInitReads, StreamNextReads, PTL DEF StreamSpec

\* processAccumulatedContent and processLine: where chunks end decides nothing but
\* what a line cut behind a leading marker does, a broken attempt damages one block
\* at most, and every other block that became a file is one that a response wrote.
THEOREM ChunksInvisibleHolds == StreamSpec => []ChunksInvisible
<1>1. ReadInv => ChunksInvisible
  BY DEF ReadInv, Faithful, Accounted, Damaged, ChunksInvisible
<1> QED BY <1>1, ReadInvariance, PTL
=============================================================================
