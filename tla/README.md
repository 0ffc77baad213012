# RankBuilder: a TLA+ verification project

RankBuilder turns a prompt into a web application: an *agent* (a Cloudflare
Durable Object) plans an application in phases, lets models write the files of
each phase, deploys them to a *sandbox container*, and talks to the user about
changes.  Around it stand accounts, rate limits, credits and secrets, a web
client and an SDK.

This directory holds TLA+ models of the parts whose correctness depends on
interleavings, failures and time, the TLC instances that check them, and proofs,
checked by TLAPS, of what matters most.  `PROJECT.json` lists the runs, the
source lines every definition translates, the hazards and the theorems.

    tlc -workers 2 -config SdkConnection.cfg MCSdkConnection.tla
    tlapm SdkConnectionProofs.tla

Paths below are relative to `src/`.

## 1. Inventory

The worker is JavaScript in single-threaded event loops: one per Durable Object,
one per request, one per container process.  Code between two awaits is atomic;
everything else interleaves.  A Durable Object may be evicted at any await; what
it persisted survives, its promises, timers and sockets do not.

| Component | State | Operations | Talks to |
|---|---|---|---|
| **Phasic agent** `worker/agents/core` | persisted: intent flag, request queue, phases, phase budget, MVP flag; in memory: promise of the run, abort controller, turns | GENERATE_ALL, RESUME, STOP, user messages, tools (queue_request, deep_debug), state machine of a run, errors, eviction | models, DeploymentManager, database, clients |
| **Agentic behaviour** `core/behaviors/agentic.ts` | input queue, promise, abort controller, conversation, rounds of tool calls | builds that loop over generations, user inputs, stops, callbacks, compactification | inference, conversation |
| **Inference and tools** `agents/inferutils` | attempt, rounds so far, the response's calls, groups in execution, calls left running | model calls, assembly of streamed calls, execution plan, groups, retries, aborts | providers, tools |
| **Phase implementation stream** `output-formats/streaming-formats`, `operations/PhaseImplementation.ts` | parser state, files, fixers at work, safety gate | chunks, blocks, retries, fixers, gate, save | inference, files |
| **Sandbox deployment** `DeploymentManager.ts`, `sandboxSdkClient.ts` | sessionId, instance id, shared deployment promise, health interval, client | deployToSandbox, attempts, retries, timeouts, session reset, create, write, health check | sandbox containers |
| **Container process monitor** `container/process-monitor.ts`, `cli-tools.ts` | process state, restart counter and timer, child, port record | start, exit and error events, restart, port probe, stop, shutdown by signal | dev server, log files |
| **Rate-limit store** `DORateLimitStore.ts` | buckets of requests, time of last cleanup | increment, getRemainingLimit, resetLimit, cleanup | usage checks |
| **Credits and Stripe** `api/controllers/stripe`, `credits`, `rateLimits.ts` | balance and plan limits in KV, subscription in the database | builds, inferences, operations, top-ups, subscription events | Stripe, KV, database |
| **Secrets vault** `UserSecretsStore.ts`, `vault-context.tsx` | configuration, secrets, one unlocked session; each tab's key, socket and status | set up, unlock, lock, store, delete, reset, reload | web client |
| **SDK connection** `sdk/src/ws.ts`, `session.ts` | per connection: flags, attempts, queue, socket; session's connection and its public state | connect, close, send, ticket, dial, open, close event, retry | agent WebSocket |
| SDK and web-client stores `sdk/src/state.ts`, `src/routes/chat` | phases and files as the client sees them | fold of the agent's messages | agent |
| Rate-limit services `usageChecker.ts`, `KVRateLimitStore.ts` | counters in KV | pre-flight, enforcement | the stores above |
| Files and git `agents/git`, `FileManager.ts` | generated files, repository over SQLite | save, commit, clone | agent |
| Authentication, OAuth, database services, deployer, GitHub, analytics, images, templates | rows, tokens, external services | single statements, HTTP sequences | everything |

`PROJECT.json` ("components") names the files of each, says which are modelled
in full or in part, what a part leaves out, and why the others are not modelled.

How the modelled ones interact: a client reaches the agent through the **SDK
connection**; the phasic or the agentic **agent** runs **inferences with
tools**, whose text, in a phase, goes through the **file stream**; the agent
calls **deployToSandbox** at the end of a phase, from tools and from its health
check; the container the deployment creates runs the **process monitor**; every
inference is admitted by the **rate-limit store** and charged to the
**credits**.  Each interface is narrow: the agent sees a deployment only as an
await that settles or throws, the deployment sees the monitor only as an instance
that is healthy or not, a caller sees store and credits only as granted or
refused, and the file stream sees an inference as chunks, breaks and an end.
PhasicAgent therefore takes deployments and inferences as nondeterministic
outcomes, AgenticBuild takes of an inference its callbacks and how it ends,
SandboxDeploy takes containers that become healthy and die, and no module needs
the others' variables.  The one composition is `MCToolInference`: the responses
ToolInference executes are exactly what `ToolCallStream` assembles from every
interleaving of deltas.

What is hard, and which property makes each part correct:

* *Phasic agent.* Three handlers may start a run, stops and errors hit any await,
  an eviction loses what a run holds in memory.  One run at a time; a resumed run
  skips no phase; a request is in exactly one place until a phase takes it or a
  failed planning throws it away; every run ends, but one that throws ahead of its
  `try`; the MVP is declared over complete phases.
* *Agentic behaviour.* Builds may overlap; inputs, stops and callbacks meet
  between any two awaits; a summary is awaited while messages arrive.  A stop
  reaches the generation under way; an input is taken up; history is kept.
* *Inference and tools.* Deltas interleave, groups run in parallel, calls abort,
  throw and outlive their round.  Conflicting calls never overlap; a chain answers
  every call it sends back, and a conversation all but those that went wrong; calls
  are those the model sent; an inference ends.
* *File stream.* Chunks end anywhere, attempts break, fixers finish in any order.
  Files are the text's blocks; a break damages one block; a
  file is saved from its last block, or from an older one the safety gate fixed.
* *Deployment.* Callers share a promise; timeouts abandon work that goes on.
  One retry loop; nobody waits for a loop that is gone; a preview means that the
  files are there; the instance belongs to the session.
* *Monitor.* Exit events, timers, probes and shutdown change one state.  One
  dev server; restarts bounded and carried out; a shutdown ends and leaves none but
  one that was just being started.
* *Rate limits.* Buckets approximate windows while cleanup deletes.  No window
  holds more than its limit plus one request; no refusal without a reason.
* *Credits.* Reads and writes of KV interleave, webhooks repeat, fail half-way and
  overtake.  The balance is what was paid less what was charged; the limits follow
  the subscription; what is paid is credited.
* *Vault.* One session for all tabs; late closes, hibernation and resets.  Every
  secret stays readable; what a tab was told is so.
* *SDK.* Tickets, dials, timers and old sockets call back late, and the caller's
  callbacks run in the middle of an opening.  One attempt at a time; credentials
  first and messages once and in order, but for what such a callback sends; a
  truthful state.

## 2. Modules

| Module | What it is |
|---|---|
| `PhasicAgent` | the phasic agent, 23 actions over 19 variables |
| `PhaseLedger` | abstract: what the agent promises of its phases |
| `PhasicAgentProofs` | theorems about PhasicAgent, among them that it implements the ledger |
| `AgenticBuild`, `AgenticBuildProofs` | the agentic behaviour: builds, inputs, stops, conversation |
| `ToolInference` | an inference: model calls, tool rounds, retries |
| `ToolCallStream` | how a response's calls are put together from deltas |
| `FileStream` | a phase implementation's text, from chunks to saved files |
| `OperationProofs` | theorems about both: inferences with tools, and files of a phase |
| `SandboxDeploy`, `SandboxDeployProofs` | DeploymentManager with the containers it talks to |
| `ProcessMonitor`, `ProcessMonitorProofs` | the monitor CLI of a container |
| `RateLimitStore` | DORateLimitStore over one key, with its clock |
| `Credits` | balance and plan, requests and webhooks |
| `AllowanceProofs` | theorems about both: what a user may still use |
| `Vault`, `VaultProofs` | the vault's Durable Object and the tabs |
| `SdkConnection`, `SdkConnectionProofs` | the SDK's session and its connections |
| `Outbox` | abstract: what the session promises of a caller's messages |
| `MC…` | what TLC needs besides: symmetry sets, record constants, responses |

### PhasicAgent

An action is the code between two awaits.  A run of `buildWrapper`
(`base.ts:773`) is a *slot*, so that two runs at once are a state the model can
be in; `pc` is where it waits: `template` for the template details, `genIssues` and
`genLLM` in executePhaseGeneration, `implIssues`, `implLLM` and `implDeploy` in
executePhaseImplementation, `review` in executeReviewCycle, `closing` in
buildWrapper's `finally`; a run that threw ahead of the `try` is `rejected` and
keeps its promise until a restart (`TemplateFailed`).  The code that enters the next state of the state
machine up to its first await belongs to the step before it (`EnterIdle`,
`EnterReviewing`, `EnterFinalizing`, `EnterGenerating`).  A conversation turn is
a *turn*: its tools run while it thinks, and when it ends it may start a run.
`signal` is the abort controller that all inferences share: attached to the
current one, aborted by a stop, or *orphaned* when buildWrapper's end forgets the
controller another inference still uses.  `generatedPhases` keeps name, last
flag and completed flag; files, prompts and messages are data nobody here tells
apart.  `submitted`, `handed` and `dropped` are history: what was queued, and where
it ended.  A planning run that fails, is aborted or answers with no file throws its
requests away, as the code does (`dropped`); RequestsConserved says that nothing
else loses one.

### SandboxDeploy

`loop` is an execution of executeDeploymentWithRetry, `work` one of `deploy()`,
`caller` somebody awaiting deployToSandbox.  They are separate because they come
apart: an attempt that timed out leaves a `work` nobody owns, a caller that gave
up leaves a `loop` nobody awaits.  An instance is named by the session whose
container runs it (allocation is one to one).  Files are versions per caller, so
that a stale or a missing write shows.

### ProcessMonitor

`starter` is where start() (or the restart callback before it) awaits a log
append; `health` the probe and the kill it may lead to; `shutdown` the two calls
of stop() and the cleanup.  Children are places of the operating system's table,
two of them so that a second dev server would have room.  How long a run or a
silence lasted is chosen where the code measures it.  `runner` is the CLI's
process: it handles signals only after the second log append of its first start()
(`RunnerUp`); one that comes before kills it as signals do (`Killed`).

### RateLimitStore

A method is one step: Durable Object storage holds other requests back while it
works.  The clock is a variable and all windows, buckets and the cleanup are
computed from it as in the code.  `log` is history: what was really granted at
each time, against which the buckets' arithmetic is judged.

### SdkConnection

Every connection the session ever made keeps its variables, as its closures do:
`fetching` (an awaited ticket), `timer`, `isOpen`, `closedByUser`, `attempts`,
`pendingSends`, and a socket.  Events of a connection the session has replaced
still reach the session's listeners, and `InitListener` sends the init messages on
*the session's* connection, whichever it is by now, as the code does.

onOpen is not one step.  It sets `isOpen`, emits ws:open and flushes the queue
afterwards (`ws.ts:79`), all in one task, but the caller's callbacks run in
between: the any-listeners (`emitter.ts:26`), those of the state's change, which
the session's first listener makes (`session.ts:192`), and those of ws:open behind
the listener that sends the init messages (`session.ts:204`).  `opening` and
`stage` say where it is (`OpenBegins`, `StateListener`, `InitListener`, `Flush`);
until it ends only the caller's actions `Send`, `CloseSession` and `Connect`
happen.  What a callback sends goes straight to the socket (`ws.ts:234`): ahead of
the queue, and of the credentials when it runs before the init listener.  `eager`
is the history of these messages.  Callbacks of the other events and of the
caller's own connect and close run in their event's action: a send in one of them
is queued like any other, and a close clears the timer that the event has set or
sets, which connectNow would refuse anyway.  Left out: a callback of connect's own
change of state that connects again.

`Outbox` is the session seen from its caller: messages, one bounded queue
(`waiting`) and a log (`out`); its door is `ajar` while the session's connection
opens, and what is posted then may pass the queue.  Under the mapping `Box` the queue is that of the
session's connection, or empty without one.  Sockets, retries, old connections and
their late events are all below it.

### AgenticBuild

`pc[b]` is where a build (a run of buildWrapper) waits: `starting` for the
template, `create` for the provider's stream, `model` for its first call or end,
`asked` for the assistant message's callback, `tools` for the groups, `folding`
for a summary, `ending` for updateApp; `done` is a generation's inference ended.  Tool
calls are of a round, run in two groups, and each reports through
handleMessageCompletion, which may start a compactification (`fold`: those in
flight, of two builds or two calls).  `held` are
the builds whose signal is that of the current controller.  `overlapped`,
`broken` and `late` are history: they name the executions a property excludes.

### ToolInference and ToolCallStream

`ToolCallStream` is the pure part: `Accumulate` is accumulateToolCallDelta,
`Assembled` assembleToolCalls, over deltas labelled by index, by id, or by an id
that comes late; a call arrives in `Pieces` deltas, and its arguments are whole
when all of them were appended.  ToolInference is the machine: `create` and `stream` are a model
call, `tools` the execution of a response's calls, `backoff` the wait before a
retry.  `NextGroup` is a step of buildExecutionPlan, `ResourceConflict`
hasResourceConflict.  A request has two parts.  `context` is the chain's: for each
round, which calls it holds and which are answered.  The other is the conversation
as it was when the inference started, whose messages are recorded as they come:
the calls before any tool runs, each result by the onComplete of its tool
(`recorded`).  `owed` is set once a round is over of which a call has no result
there; `spoiled` is history.  A call that an exception left behind stays in `running`
until it settles, also into the next inference.

### FileStream

A response is a sequence of lines; a chunk ends after a line, within it, or right
behind a marker, which the parser takes at once.  `file`, `mode` and `buffer` are
the parser's open block, `entries` the promises of fixed files in the order their
blocks closed, `saved` which of them each file was saved from.  Contents are lists
of lines, a patched file is the original with the patch appended: enough to tell a
patch applied twice, to the wrong version, or never.  White space is left out, and
so is the text of a diff: contents that are no diff any more leave the original as
it is, whereas `udiff.ts:761` takes them for one hunk, whose match may change the
original's white space, and a line that begins with + or - (a list, say) an edit.

### Credits

A request is a slot that has read the balance and has yet to write it (`put`);
a webhook awaits the database (`status`), then KV (pc `config` or `credit`, variable `userConfig`).  One
credit is `Unit` units, so that an inference charges fractions and `Whole` is
parseInt.  `least` and `most` are history: the ledger of what was granted, paid
and charged, with what a charge could not take and what parseInt forgot between
them.  `unclear` and `disordered` name overlapping read-modify-writes and plan
events out of order.  A renewal or a plan event asks Stripe for its customer first;
from the moment one finds it deleted (`gone`) such events are answered with 200 and
leave everything as it was.  The other ways out with 200 (an event without a user,
a top-up of no credits, the first invoice, unknown types) are left out: every
checkout and customer the program creates carries its user (lines 81, 124, 183), and
the others change nothing and carry no payment.

### Vault

A key is the number of the setup that chose it: the server cannot tell with which
key a secret is encrypted, the model can.  A socket has two ends that close
separately and the messages in between; a tab remembers its socket (`ws`), the one
it waits on (`waits`) and its key (`vmk`).  The Durable Object has one `session`,
which any socket's close, an expiry or a hibernation ends.  `result` is what a tab
was told of a secret.  What a tab awaits is in the model where another step can come
between: from the derivation of a key to the opening of its socket the socket is
`connecting`; `encrypting` is the key that encryptAndStoreSecret took and uses after
its awaits, over the socket there is by then; a request to reset is `underway`, and
may be served after the tab gave up on it, or without the tab hearing of it (its
status is then as before, without a key).

## 3. Runs

| Run | Expect | Distinct states | What it shows |
|---|---|---|---|
| `agent_safety` | pass | 0.5 million | one run at a time, a request in exactly one place, refinement of `PhaseLedger` with every fault at every step; every run ends but one that throws ahead of its try; without faults the intent to generate leads to an MVP |
| `agentic_build` | pass | 1.5 million | a stop reaches the generation under way, messages are lost only while a summary is awaited, an input is taken up |
| `agentic_onebuild` | violation | (stops at the first) | a second build starts beside one that goes on looping |
| `tool_inference` | pass | 0.7 million | conflicting calls are serial, a chain's rounds are answered and a conversation lacks results only of calls that went wrong, calls are assembled as sent, an inference ends |
| `file_stream` | pass | 0.3 million | files are the text's blocks wherever its chunks end, a break damages one block, the file is saved from its last block, or an older one the safety gate fixed |
| `sandbox_safety` | pass | 1.5 million (symmetry) | shared promise, right instance, starter served, until something outlives its timeout |
| `process_monitor` | pass | 14 thousand | one child, bounded restarts, restart and shutdown always end, no orphan unless a start() was beyond its guard |
| `rate_limit` | pass | 0.2 million | windows keep their limits, decisions have their reasons and are foretold |
| `credits` | pass | 1.9 million | balance, plan and payments agree with what happened |
| `credits_builds` | violation | (stops at the first) | two builds are paid once |
| `vault` | pass | 5.4 million (symmetry) | secrets stay readable, answers are true |
| `sdk_connection` | pass | 0.4 million | init first, refinement of `Outbox` (in order, once), but for what a callback sends during an opening; queue sent |

Every property of a passing run has a *mutant*: a definition changed as a
plausible bug would change it (`…Mutant` beside the original), under which TLC
finds that property violated.

### Bounds, and why they are enough

* `agent_safety`: two slots (one more than may ever be used), one conversation
  turn, two names (equal and different ones, completion goes by name), one
  request, a budget of two phases with a recharge of one, three messages.  The
  behaviours are those with faults at every step and those without any.  Two
  requests and more are covered by the proofs.
* `agentic_build`: two builds, so that one overlaps the next; two inputs, one
  round of two parallel or dependent calls, two compactifications, at once or one
  after the other: enough for an input or a message between any two callbacks.
* `tool_inference`: two calls in a response, in two deltas each, every interleaving
  of the deltas of both under three ways of labelling; two rounds, two attempts, two
  inferences, so that calls left running by the first meet those of the second;
  tools that write, deploy, commit, complete and do not exist.
* `file_stream`: four responses of up to three blocks that create, patch, patch
  twice, patch what was just created, touch a protected file, hold a line that
  begins with the marker and suggest packages between and after blocks; every cut
  of every line; one retry, every pair of responses.
* `sandbox_safety`: two callers (one starts, one joins) and the health check; two
  loops and two operations (one abandoned, one current); two sessions; two
  faults, which suffice for a timed-out attempt followed by a failing or
  crashing successor; reset after two failures instead of three.
* `process_monitor`: two restarts, port threshold two, two children.
* `rate_limit`: three configurations (sliding with burst, sliding with daily
  limit, calendar day); buckets of 2, a day of 4, clock to 9: windows that are and
  are not multiples of a bucket, two days and a half, several cleanups.
* `credits`: two requests at once; a price of one credit and a half, free credits
  for two builds; a subscription that starts, is active and lapses, each event
  delivered at most twice; a failure at any get, put or statement.
* `vault`: two tabs, two sockets, two setups (a vault, its reset and its
  successor), one request to reset on its way at a time (a second may follow it and
  meet the successor), one secret.
* `sdk_connection`: two connections, three messages over a queue of two, two
  retries.

The proofs remove these bounds for the safety properties of every module.  What
the bounds still exclude: for liveness, everything beyond the instances above.

### Fairness

* PhasicAgent: weak fairness of each run and each turn.  The event loop runs
  every continuation whose await has settled, and inference and sandbox calls
  have timeouts.  Clients, stops and evictions owe nothing.
* AgenticBuild: weak fairness of each build's steps and of each tool call's.
* ToolInference: weak fairness of the chain as a whole (model calls, timers,
  the current group's calls).  Calls left behind by an exception owe nothing.
* ProcessMonitor: weak fairness of start, health and stop steps (timers fire, log
  appends end) and of the exit of a child that got SIGKILL.  A child need not
  exit by itself nor react to SIGTERM.
* Credits: weak fairness of each request's awaits, and of the delivery of an event
  not answered with 200 (Stripe repeats it; the bound on deliveries is named in
  the property).
* SdkConnection: a task runs to its end, a ticket request ends (its retries are
  bounded), a timer fires, the platform reports how a dial or a closing handshake ended.  Nothing is
  assumed of successes: all dials may fail.
* FileStream, SandboxDeploy, RateLimitStore and Vault are checked for safety only:
  their awaits end by timeouts that the models take as choices.

`CHECK_DEADLOCK FALSE` stands where the system may rest: an agent with nothing
asked of it and its bounds used up, a deployment nobody asks for, a closed
session, a vault whose setups are used up.  The monitor, the store and the file
stream are checked for deadlock.

### What the models disagree on

Two runs find that the code does not do what one of its comments says;
`PROJECT.json` ("findings") quotes the lines.

* `OneBuild`: executeGeneration's `finally` (`agentic.ts:389`) clears the promise
  of a build that goes on looping, and a second build starts beside it.
* `BuildsPaid`: consumeBuild (`credits/controller.ts:72`) reads and writes back
  across an await: two builds, one payment, though it "deducts … atomically".

Formulas at the end of four modules state what other documents say.  TLC refutes
each on the instance of its module's run; they are kept with the models and not as
runs:

* `QueuedRequestServed` (PhasicAgent): a queued request is "to be implemented in
  the next development phase" (`queue-request.ts:12`); one queued between the last
  look at the queue and the end of the run is served by nobody
  (`codingAgent.ts:577` looks only when a turn ends).
* `StopGoesIdle` (PhasicAgent): "ANY -> IDLE: User stops generation"
  (`docs/llm.md:1215`); STOP aborts only the inference there is
  (`websocket.ts:116`), so a stop between two inferences stops nothing.
* `InstanceAlwaysOfSession` (SandboxDeploy): the session "ensures deployment goes
  to correct container" (`docs/llm.md:3826`); a creation that outlived its timeout
  sets the old session's instance (`DeploymentManager.ts:552`).
* `EveryoneServed` (SandboxDeploy): deployToSandbox "syncs all files to remote
  sandbox container" (`docs/llm.md:3646`); a caller that joins
  (`DeploymentManager.ts:311`) gets a preview without its files.
* `FailedWritesReported` (SandboxDeploy): `DeploymentManager.ts:493` tests for
  failed writes; `sandboxSdkClient.ts:380` reports them as success.
* `HealthKillRestarts` (ProcessMonitor): the tests restart a server that stops
  answering (`monitor-cli.test.ts:2689`); one that exits with 0 on the health
  check's SIGTERM (`process-monitor.ts:1166`) is not restarted.
* `RepetitionRetried` (ToolInference): `common.ts:215` throws "to trigger retry
  logic in executeInference"; the retry finds its signal aborted and is cancelled.

Executions that properties exclude by name, each the real limit of what the code
guarantees:

* `late` (SandboxDeploy): an attempt or a loop outlived its timeout and goes on.
  `lost`: a write failed and was reported as success.
* `raced` (ProcessMonitor): start() was beyond its guard when a signal came, or
  passed it before the CLI was gone; then a dev server can be left behind.
* `eager` (SdkConnection): a callback sent while the connection opened; its message
  precedes those queued before it, and the credentials when the callback is an
  any-listener or one of the change of state.
* `stale` (SdkConnection): a connection closed while its ticket was fetched still
  opens a socket, and reports `connected`.
* `overlapped` (AgenticBuild): two builds ran at once (`OneBuild`).  `late`: a
  message was added while a summary was awaited; the write-back forgets it.
* `abandoned` (ToolInference): an exception in one of a group's calls left the
  others running; `docs/llm.md:4104` has them "all cancelled together".  `spoiled`:
  a call failed, threw, had no definition or was a completion's.  The conversation
  never gets a result of those (`customTools.ts:107`, `AgenticProjectBuilder.ts:273`),
  so that the next inference sends an unanswered call, after every completed build
  for one.
* `bitten` (FileStream): a content line begins with the end marker and a chunk
  ended right behind it; the block ends there, although `scof.ts:10` "handles
  arbitrary chunk boundaries", and a command in what remains of it may open a block
  of its own: two damaged blocks for one such cut.  `broken`: a retried attempt's text continues the
  block its predecessor left open.
* `unclear` (Credits): two read-modify-writes of a balance overlapped, or a payment
  was credited twice.  `disordered`: plan events were handled out of order, so a
  late "active" can bring back the limits of a subscription that was deleted; or the
  customer was gone and they were ignored, so the limits stay.  `gone`: the renewal
  of a deleted customer is answered and not credited.
* `overtaken` (Vault): a reset met another tab's key still in use; what that tab
  stores in the next session nobody can read.

Seen while modelling, inside the models but not properties of them:

* Agents.  deep_debug runs beside a generation that starts after it
  (`deep-debugger.ts:43`); a throw before buildWrapper's `try` leaves its promise
  for ever (`base.ts:798`), and RunTerminates excludes that run by name; a stop
  whose stream ends quietly is swallowed by the agentic loop, which goes on with a
  new controller.
* Inference.  Retries start at depth 0 and repeat the tools that were executed; a
  completion tool ends the chain even if it failed; a missing tool definition
  throws where `toolExecution.ts:22` says "Warn and skip".  Left out of the
  model: two calls with one id, for which buildExecutionPlan finds no next group.
* Files.  Install commands after the last other line are never extracted; a file
  that is open at the end of the stream is dropped; two patches of one file in one
  response leave the original; the safety gate's fixed file replaces newer
  versions (`preDeploySafetyGate.ts:434`).
* Credits.  The pre-flight check is said to catch a negative balance
  (`rateLimits.ts:311`), but charges stop at zero and forgive the debt; builds and
  payments forget fractions; a payment booked before the first read takes the
  place of the free credits; aborted streams are not charged; the gate lets
  inferences through when KV fails.
* Vault.  The late close of a tab's former socket, or of any other tab's, ends the
  session that a tab still shows as unlocked (`UserSecretsStore.ts:95`); a
  hibernation does too.  What the tab is told of its secrets stays true
  (`AnswersTrue`).

## 4. Proofs

All proofs hold for every value of the constants, from the named assumptions of
the modules only: bounds are naturals, the queue holds at least one message, free
credits pay for a build, the values that stand for nothing (`None`, `NoRun`) are
none of the values they stand beside, a build is not named like a call.  One
theorem, StreamAssembledHolds, has a hypothesis more: `FromDeltas`, that the
responses of ToolInference are those of ToolCallStream, which is how
`MCToolInference` instantiates them.  None of the properties below is inductive
alone; each module states the strengthening it needs.

**PhasicAgentProofs.**  A new phase may be appended only because the planning run
has no incomplete phase behind it; that survives only because no second run
changes the phases meanwhile; and that one run implements the newest phase needs
both.  The invariant is

    IInv == TypeOK /\ PromiseMatchesRun /\ EarlierPhasesComplete
              /\ RunMatchesPhases /\ PlanningHasPhases

Lemmas summarise what the `Enter…` operators assign, that resuming finds the
newest phase (`LastIncompleteIsNewest`) and that completion by name completes all
(`MarkCompletesAll`: the ones before are complete already, so an equal name does
no harm).  From IInv follow TypeCorrectness, OneRunAtATime, ResumeSkipsNothing,
RunsMatchPhases and, as an action property, MvpOnlyWhenComplete.

*Requests.*  `RequestsConserved` counts; its strengthening says the same with sets.
`Apart`: the queue holds no request twice, and queue, each run's context, the
planned and the dropped are pairwise disjoint.  `Accounted`: together they are the
requests submitted.  A run that takes the queue overwrites nothing, because it holds
requests only while it plans (`ContextWhilePlanning`).

*Refinement.*  AgentImplementsLedger is `Spec => ImplementsLedger`: the persisted phases and
the MVP flag behave as `PhaseLedger` says: opened one at a time, completed in
order, never removed or reopened, MVP declared once over complete phases.  Launching
from the blueprint and planning map to `Open`, the end of an implementation to
`Complete` (which may declare the MVP in the same step), planning that finds
nothing left to `Declare` or a stutter, everything else to stutters.

**OperationProofs, ToolInference.**  For any tools and resources.  `InterfereConflicts` shows
that hasResourceConflict misses no call that changes what another looks at;
`GroupApart` that a group of the plan holds no conflict.  The invariant adds where
running calls come from (`Running`: the current group, or an inference that ended),
that planned calls' dependencies are in earlier groups (`Planned`), that
rounds are answered while the chain goes on (`Answered`), and that until a call
goes wrong each that returned is recorded (`Recorded`).  The plan cannot get
stuck: the first call that is not planned depends on earlier ones only, all of
them planned (`GroupFound`, by the least element of a set of naturals), so that
the fallback of buildExecutionPlan for circular dependencies is dead code as long
as no two calls have the same id.

*Streamed calls.*  `Accumulated` is a recursive function over the deltas; that it
has a solution, and what it says of each delta, is shown with the fewest deltas
without one (`AccumulatedExists`, `AccumulatedForm`).  `Fit` is its invariant: one
entry for each call of which a delta has come, with the arguments of those, an
index if the provider sends one, and an id which is the call's or, until the late
one comes, synthetic.  A first delta finds no entry (`FirstDelta`; without indices
the entry's place is then the call's, as calls start in order), a later one finds
that of its call by id or by index and no other (`LaterDelta`).  At the end the
entry of call i is the i-th in either order (`AssembledFit`), so that a response
gives the calls in the order sent (`WholeOutcome`).  Theorems: TypeCorrect, Serial,
Complete, PlanFoundHolds, StreamAssembledHolds.

**OperationProofs, FileStream.**  For any texts, files and numbers of attempts.
`FilesInv` adds to the type of the parser that every entry belongs to the block of
its place (`Explained`): its contents are the block's lines, or what the file was
before the phase with the block's patch once or not at all, whether or not either
application of the patch succeeds.  That a file that closes was never closed before
(`file \notin closedFiles`: handleCommand takes it out) makes every closing block
an entry of its own.  What is saved then follows from the greatest version alone
(`MaxOf`).

*Chunks.*  ChunksInvisible compares the parser, which meets a text once and in
pieces, with a reading of the whole text.  `ReadInv` says how the two stand at
every point:

    ReadInv == FilesInv /\ MarkerTaken /\ Faithful /\ Accounted

`Faithful`: as long as no attempt broke and no line was bitten off, the parser has
made of what was delivered what the reading says: the blocks closed, the packages
found and those announced, and the block it stands in.  `Accounted`: with breaks
and bites, the parser is in step with the current response (`Synced`), or fewer
blocks are damaged than these allow, so that the one the next marker closes may
be.  `MarkerTaken`: a marker taken at once has left no block open, so that the rest
of its line does no harm.  The reading is a recursive function (`OutsideForm`) and
the list of the lines it picks; the lemmas say what one line more does to both
(`OutsidePrefix`, `ListedAppend`, `BlocksAppend`, `InstallsAppend`).
Theorems: StreamTypeCorrect, SavedExplainedHolds, ChunksInvisibleHolds.

**AgenticBuildProofs.**  That a stop reaches the generation under way needs that no
other build takes its controller from the first await to the last: `Alone` (one
active build, and it holds the controller or was aborted, unless builds
overlapped) and `Unheld` (a build that has not taken a controller, or has given it
up, leaves none behind).  That no message is lost needs what pending summaries have
read: each other, and the conversation, up to late messages (`FoldCovers`).
`RoundsAsked` ties a call in progress to the round and the build that asked for
it.  A call's end is summarised once (`ToolMoves`: nothing happens to the builds,
or one round ends), which every callback uses.  Theorems: TypeCorrectness,
StopReachesHolds, HistoryKeptHolds.

**AllowanceProofs, Credits.**  `LedgerAgrees` speaks of the balance; its strengthening
`Ledger` of who is about to write it: as long as the ledger is clear, at most one
put is pending and what it has read is the balance.  `Jobs` carries from the read
to the put what was checked in between (a grant found no balance, a build's price
was covered, a payment's event is one that pays).  `PlanAgrees` needs `Plan`: in
order, the newest event decides on the status, every other webhook under way is
about an older one or the same, and a webhook that is about to write KV is about
the newest.  `WholeBounds` and `LessBounds` say what parseInt and the stop at zero
forget.  Theorems: TypeCorrectness, LedgerAgreesHolds, PlanAgreesHolds.

**AllowanceProofs, RateLimitStore.**  The limits are about a history, the code
counts buckets; the invariant says what the two have to do with each other:

    StoreInv == StoreTyped /\ ResultTyped /\ WindowLimits
                  /\ Dated /\ Future /\ Covered /\ Backed

`Dated`: a bucket's last request fell into it and lies in the past.  `Covered`:
whatever was granted since a time no earlier than the longest window is counted,
in buckets with a request since then; this is why the cleanup, which goes by the
last request of a bucket, takes nothing a window counts.  `Backed`: what is
counted from a bucket on was granted since that bucket starts; this bounds a
refusal's reason to less than a bucket before the window, and in a calendar day
to the day, as days start where buckets do (`DayOf`).  The assumption that a
config which counts by calendar day has a period of a day or more is that of
`config.ts`: with a shorter period the cleanup would take what the day counts.
The sums are folds over finite sets.  No induction schema can be cited; what is
proved of them (`SumFirst`, `SumAt`, `SumGrows`, `SumAdds`, …) is proved by a
smallest counterexample: the strict subsets of a finite set are well-founded, so a
non-empty set of subsets that lack a property has a minimal member
(`MinimalSet`).  The same argument gives the maximum of the costs and windows
(`MaxOf`).  Theorems: StoreTypeCorrect, WindowLimitsHold, DecisionsJustifiedHolds.

**ProcessMonitorProofs.**  One child needs to know that nothing of an older one is
left when a start is under way or a restart pending (`OnlyTheCurrent`,
`StartsAlone`); the budget needs every spawn but the first to be paid by a restart
(`Paid`); NoOrphan needs what a shutdown has achieved at each of its awaits
(`Shutdown`).  Theorems: TypeCorrectness, OneChildHolds, StateIsTrue,
RestartsFollowCrashes, NoOrphanHolds.

**SandboxDeployProofs.**  `Promise` ties the shared promise, the loops and their
starters together both ways; `Attempts` says that a loop awaits at most one
operation and only while it deploys; `InTime` that until a timeout every operation
is somebody's attempt and works for the session there is.  That the starter is
served follows its files (`Serving`): what a caller waits for was saved before it
called (`WantsSaved`), its loop was asked for that or for all files, and its
attempt for what the loop was (`LoopWants`, `WorkWants`), and an operation that has
written holds it in the container, unless a write was lost or the container died
(`SetupWants`).  A version saved later is newer, so that a loop or another
caller's operation can only bring it forward.  Theorems: TypeCorrectness,
SharedPromiseHolds, InstanceOfSessionHolds, StarterServedHolds.

**VaultProofs.**  `Keys` follows a key from the tab over sockets and messages to
the rows; `Answers` follows a request: asked for in one place only, unanswered
while it is, answered truthfully afterwards, although the session may go at any
step.  Theorems: TypeCorrectness, SecretsReadableHolds, AnswersTrueHolds.

**SdkConnectionProofs.**  The invariant is a predicate of one connection,
`Good(r, s, w, c, cur, n, op, st, E)`: its record, its socket's state, what was sent
on the socket, how it stands to the session's connection and the number made, the
opening under way and its stage, and what callbacks sent.  It says that ticket,
timer and live socket exclude each other, and that none is left only when retries
are used up (Attempts); that the session's connection is exactly the one not closed
(Owned); that a closed connection has an empty queue, and an open one too unless it
is opening, without which a late opening of a closed connection would put a user's
message first (QueueOnlyWhileDown); and that the init messages head the wire but
for what callbacks sent, and are there once the init listener has run (OnWire).
For the order of messages `InOrder` adds what is queued: it rises, is younger than
all that was delivered but what callbacks sent in an opening, and nothing is
numbered above the last call.  `Spec => ImplementsOutbox` rests on `OthersEmpty`: a
connection that is not the session's has nothing queued, so that the flush of one
that opens late is empty, and what its listener sends goes to the session's queue.
Connecting and everything below a connection map to stutters, sending to `PostNow`
or `PostLater`, closing to `Forget`; for the session's connection the begin of an
opening maps to `Open` and the flush to `Release`, for another both to stutters; the
init listener to `Greet` or a stutter.  Theorems: TypeCorrectness, OneAttemptHolds,
SessionInitFirstHolds, StateTellsTruthHolds, InOrderOnceHolds,
SessionImplementsOutbox.

`EarlierPhasesComplete`, `RunMatchesPhases`, `MvpWhenComplete`, `OneAttempt`,
`StateTellsTruth`, `InOrderOnce`, `PlanFound`, `StateMatchesChild` and
`RestartOnlyWhenCrashed` are proved and therefore not checked by a run as well.

**Only model-checked.**  Liveness (`RunTerminates`, `IntentLeadsToMvp`,
`InputTakenUp`, `InferenceEnds`, `NeverHangs`, `PaidIsCredited`, `QueuedIsSent`):
fairness and ENABLED are out of the prover's reach.  Every safety invariant and
action property of the runs is proved.  The provers have no induction over data
either; where a proof needs it (folds over sets, recursive functions over texts and
deltas) it takes a smallest counterexample instead, of the naturals
(`LeastElement`) or of the subsets of a finite set (`MinimalSet`).

## 5. Not modelled, and why

Within the modelled parts: the contents of a phase's files beyond FileStream,
images, screenshots, template import and clear-conversation of the agents;
bootstrap and deployments of the agentic agent; deployment to Cloudflare and
static analysis of the sandbox service; the log files of the monitor (an advisory
lock whose loss costs log lines only); waitFor and event routing of the SDK;
recovery codes, reading and updating of secrets, and signing out of the vault;
checkout and portal sessions of Stripe; code fences, multi-line commands,
search-and-replace diffs and a stream that breaks within a command line of the
file stream; loop detection and the choice of models of an inference.

Of the rest: the KV rate-limit store is not used by the default configuration (and
passes `incrementBy` where `maxRetries` belongs, `KVRateLimitStore.ts:64`); string
algorithms (how a diff finds its place, code fixers) and cryptography are tested in
the repository and out of TLC's reach; git commits go through a library that
decides what they see; single SQL statements and HTTP calls have no interleaving of
their own; the stores of the SDK and of the web client fold messages into what they
show and drive nothing; generated code, docs, prompts, schemas, migrations and UI
components, the greater part of the repository's lines, have no behaviour of the
kind these models are about.

## 6. What is left

In order of importance:

1. `ClientPhases`: the agent's messages folded into the client's phases by the
   SDK and the web client, over connections that come and go; composed with
   PhasicAgent's ledger.
2. `Conversation` of the phasic agent: turns and review that read, await and write
   back; `Git`: saves interleaved with commits.
3. An abstract ledger for Credits (each payment once, each charge once) and the
   refinement up to `unclear`; an evictions-and-restarts model of the agentic agent
   that includes its bootstrap.
