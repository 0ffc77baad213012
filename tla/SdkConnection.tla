---------------------------- MODULE SdkConnection ----------------------------
(***************************************************************************)
(* The SDK's side of the agent WebSocket: BuildSession.connect and close,  *)
(* and the connection createAgentConnection makes, which fetches a ticket, *)
(* dials, queues what is sent while it is not open and reconnects with a   *)
(* bounded number of retries.  A session that is closed and connected      *)
(* again leaves the old connection behind, and its awaits and sockets.     *)
(*                                                                         *)
(* An open event runs the listeners of ws:open one after the other before  *)
(* the queue is flushed.  The caller's own callbacks run between them, and *)
(* may send, close and connect: the steps of an opening are actions, and   *)
(* until the last one only the caller's actions happen in between.         *)
(*                                                                         *)
(* Sockets are the platform's: a failing dial reports error and close in   *)
(* one task, and what is sent on a closing socket is discarded.            *)
(***************************************************************************)
EXTENDS Naturals, Sequences, Functions

CONSTANTS
  MaxConns,     \* bound: how often the session is connected
  MaxCalls,     \* bound: how many messages the caller sends
  MaxPending,   \* maxPendingSends
  MaxRetries    \* retryCfg.maxRetries; 0 when reconnecting is disabled

ASSUME ConnectionAssumption ==
  /\ {MaxConns, MaxCalls, MaxRetries} \subseteq Nat
  /\ MaxPending \in Nat \ {0}

VARIABLES
  current,     \* BuildSession.connection; 0: null
  created,     \* connections made so far
  connState,   \* session.state.connection
  conns,       \* the variables of each connection
  sockets,     \* state of the connection's latest WebSocket
  wire,        \* what was sent on that socket
  calls,       \* messages sent by the caller, numbered from 1
  opening,     \* the connection whose onOpen runs; 0: none
  stage,       \* what onOpen does next
  delivered,   \* history: what the caller's send or the flush put on an open
               \* socket, in order
  eager,       \* history: those a callback sent on a connection that was opening
  overflowed,  \* history: those dropped by the queue
  stale        \* history: a connection changed the state after it was replaced or closed

session == <<current, created, connState>>
onOpen  == <<opening, stage>>
history == <<delivered, eager, overflowed, stale>>

vars == <<session, conns, sockets, wire, calls, onOpen, history>>

Conns   == 1 .. MaxConns
InitMsg == 0          \* session_init and get_conversation_state
Msgs    == 1 .. MaxCalls
Live    == {"connecting", "open", "closing"}
Stages  == {"idle", "state listener", "init listener", "flush"}

Fresh == [fetching |-> TRUE, timer |-> FALSE, isOpen |-> FALSE,
          closedByUser |-> FALSE, attempts |-> 0, pendingSends |-> <<>>]
Unused == [Fresh EXCEPT !.fetching = FALSE]

\* The queue never exceeds its limit and retries stay in their budget.
TypeOK ==
  /\ current \in 0 .. created /\ created \in 0 .. MaxConns
  /\ connState \in {"disconnected", "connecting", "connected"}
  /\ conns \in [Conns -> [fetching : BOOLEAN, timer : BOOLEAN, isOpen : BOOLEAN,
                          closedByUser : BOOLEAN, attempts : 0 .. MaxRetries,
                          pendingSends : Seq(Msgs \union {InitMsg})]]
  /\ \A c \in Conns : Len(conns[c].pendingSends) <= MaxPending
  /\ sockets \in [Conns -> Live \union {"none", "closed"}]
  /\ wire \in [Conns -> Seq(Msgs \union {InitMsg})]
  /\ calls \in 0 .. MaxCalls /\ eager \subseteq Msgs
  /\ opening \in 0 .. created /\ stage \in Stages
  /\ delivered \in Seq(Msgs \union {InitMsg}) /\ overflowed \subseteq Msgs \union {InitMsg}
  /\ stale \in BOOLEAN

Init ==
  /\ current = 0 /\ created = 0 /\ connState = "disconnected"
  /\ conns = [c \in Conns |-> Unused]
  /\ sockets = [c \in Conns |-> "none"]
  /\ wire = [c \in Conns |-> <<>>]
  /\ calls = 0 /\ opening = 0 /\ stage = "idle"
  /\ delivered = <<>> /\ eager = {} /\ overflowed = {} /\ stale = FALSE

-----------------------------------------------------------------------------
(* Helpers.                                                                *)

\* scheduleReconnect
Scheduled(conn) ==
  IF conn.closedByUser \/ conn.attempts >= MaxRetries \/ conn.timer
  THEN conn
  ELSE [conn EXCEPT !.attempts = @ + 1, !.timer = TRUE]

\* Mutant: an overflow is not cut.
QueuedMutant(queue, m) == Append(queue, m)

\* pendingSends.push, and shift when there are too many.
Queued(queue, m) ==
  IF Len(queue) < MaxPending THEN Append(queue, m) ELSE Append(Tail(queue), m)

\* send of connection c, of a message of the caller or of the session.
SendOn(c, m) ==
  \/ /\ conns[c].isOpen
     /\ wire' = IF sockets[c] = "open"
                THEN [wire EXCEPT ![c] = Append(@, m)] ELSE wire
     /\ delivered' = IF sockets[c] = "open" /\ m # InitMsg
                     THEN Append(delivered, m) ELSE delivered
     /\ UNCHANGED <<conns, overflowed>>
  \/ /\ ~conns[c].isOpen
     /\ conns' = [conns EXCEPT ![c].pendingSends = Queued(@, m)]
     /\ overflowed' = IF Len(conns[c].pendingSends) < MaxPending
                      THEN overflowed
                      ELSE overflowed \union {Head(conns[c].pendingSends)}
     /\ UNCHANGED <<wire, delivered>>

-----------------------------------------------------------------------------
(* The caller, in a task of its own or in a callback of ws:open.           *)

\* BuildSession.connect: createAgentConnection starts to fetch the URL at once.
Connect ==
  /\ current = 0 /\ created < MaxConns
  /\ created' = created + 1 /\ current' = created + 1
  /\ connState' = "connecting"
  /\ conns' = [conns EXCEPT ![created + 1] = Fresh]
  /\ UNCHANGED <<sockets, wire, calls, onOpen, history>>

\* startGeneration, stop, followUp, resume ...
Send ==
  /\ current # 0 /\ calls < MaxCalls
  /\ calls' = calls + 1
  /\ eager' = IF opening = current THEN eager \union {calls + 1} ELSE eager
  /\ SendOn(current, calls + 1)
  /\ UNCHANGED <<session, sockets, onOpen, stale>>

\* BuildSession.close
CloseSession ==
  /\ current # 0
  /\ current' = 0 /\ connState' = "disconnected"
  /\ conns' = [conns EXCEPT ![current] =
                 [@ EXCEPT !.closedByUser = TRUE, !.isOpen = FALSE,
                           !.pendingSends = <<>>, !.timer = FALSE]]
  /\ sockets' = [sockets EXCEPT ![current] =
                   IF @ \in {"connecting", "open"} THEN "closing" ELSE @]
  /\ UNCHANGED <<created, wire, calls, onOpen, history>>

-----------------------------------------------------------------------------
(* The connection.  The platform's events come one at a time.              *)

\* getUrl answers.  connectNow does not look again whether it was closed.
UrlReady(c) ==
  /\ stage = "idle" /\ conns[c].fetching
  /\ conns' = [conns EXCEPT ![c].fetching = FALSE]
  /\ sockets' = [sockets EXCEPT ![c] = "connecting"]
  /\ wire' = [wire EXCEPT ![c] = <<>>]
  /\ UNCHANGED <<session, calls, onOpen, history>>

UrlFailed(c) ==
  /\ stage = "idle" /\ conns[c].fetching
  /\ conns' = [conns EXCEPT ![c] = Scheduled([@ EXCEPT !.fetching = FALSE])]
  /\ UNCHANGED <<session, sockets, wire, calls, onOpen, history>>

\* connectNow from the timer.
TimerFires(c) ==
  /\ stage = "idle" /\ conns[c].timer
  /\ conns' = [conns EXCEPT ![c].timer = FALSE, ![c].fetching = TRUE]
  /\ UNCHANGED <<session, sockets, wire, calls, onOpen, history>>

Opened(conn) == [conn EXCEPT !.isOpen = TRUE, !.attempts = 0]

\* Mutant: the queue is flushed before ws:open is emitted.
OpenBeginsMutant(c) ==
  /\ stage = "idle" /\ sockets[c] = "connecting"
  /\ sockets' = [sockets EXCEPT ![c] = "open"]
  /\ conns' = [conns EXCEPT ![c] = [Opened(@) EXCEPT !.pendingSends = <<>>]]
  /\ wire' = [wire EXCEPT ![c] = conns[c].pendingSends]
  /\ delivered' = delivered \o conns[c].pendingSends
  /\ opening' = c /\ stage' = "state listener"
  /\ UNCHANGED <<session, calls, eager, overflowed, stale>>

\* onOpen, up to the any-listeners' callbacks of ws:open.
OpenBegins(c) ==
  /\ stage = "idle" /\ sockets[c] = "connecting"
  /\ sockets' = [sockets EXCEPT ![c] = "open"]
  /\ conns' = [conns EXCEPT ![c] = Opened(@)]
  /\ opening' = c /\ stage' = "state listener"
  /\ UNCHANGED <<session, wire, calls, history>>

\* connect's first listener of ws:open, whose change of state has callbacks.
StateListener ==
  /\ stage = "state listener" /\ stage' = "init listener"
  /\ connState' = "connected"
  /\ stale' = (stale \/ current # opening)
  /\ UNCHANGED <<current, created, conns, sockets, wire, calls, opening, delivered,
                 eager, overflowed>>

\* connect's second one: it sends the init messages on the session's connection,
\* whichever that is by now.  The caller's own listeners of ws:open follow it.
InitListener ==
  /\ stage = "init listener" /\ stage' = "flush"
  /\ IF current = 0 THEN UNCHANGED <<conns, wire, delivered, overflowed>>
                    ELSE SendOn(current, InitMsg)
  /\ UNCHANGED <<session, sockets, calls, opening, eager, stale>>

\* Mutant: the queue is emptied before it is sent.
FlushedMutant(c) == <<>>

\* What flushPendingSends sends: nothing when a callback closed the connection.
Flushed(c) == IF conns[c].isOpen THEN conns[c].pendingSends ELSE <<>>

\* Mutant: the queue is not emptied by the flush.
EmptiedMutant(conn) == conn

Emptied(conn) == IF conn.isOpen THEN [conn EXCEPT !.pendingSends = <<>>] ELSE conn

\* onOpen, after the emit.
Flush ==
  /\ stage = "flush" /\ stage' = "idle" /\ opening' = 0
  /\ wire' = [wire EXCEPT ![opening] = @ \o Flushed(opening)]
  /\ delivered' = delivered \o Flushed(opening)
  /\ conns' = [conns EXCEPT ![opening] = Emptied(@)]
  /\ UNCHANGED <<session, sockets, calls, eager, overflowed, stale>>

\* onClose; after a failing dial onError has scheduled the reconnection already.
Closed(c) ==
  /\ conns' = [conns EXCEPT ![c] = Scheduled([@ EXCEPT !.isOpen = FALSE])]
  /\ sockets' = [sockets EXCEPT ![c] = "closed"]
  /\ connState' = "disconnected"
  /\ stale' = (stale \/ current # c)
  /\ UNCHANGED <<current, created, wire, calls, onOpen, delivered, eager, overflowed>>

DialFails(c)  == stage = "idle" /\ sockets[c] = "connecting" /\ Closed(c)
CloseEvent(c) == stage = "idle" /\ sockets[c] = "closing" /\ Closed(c)

\* The agent or the network ends the connection; no event has come yet.
Drops(c) ==
  /\ stage = "idle" /\ sockets[c] = "open"
  /\ sockets' = [sockets EXCEPT ![c] = "closing"]
  /\ UNCHANGED <<session, conns, wire, calls, onOpen, history>>

UrlSettles(c)  == UrlReady(c) \/ UrlFailed(c)
DialSettles(c) == OpenBegins(c) \/ DialFails(c)
OnOpen         == StateListener \/ InitListener \/ Flush

Next ==
  \/ Connect \/ Send \/ CloseSession
  \/ StateListener \/ InitListener \/ Flush
  \/ \E c \in Conns :
       \/ UrlReady(c) \/ UrlFailed(c) \/ TimerFires(c)
       \/ OpenBegins(c) \/ DialFails(c) \/ Drops(c) \/ CloseEvent(c)

Spec == Init /\ [][Next]_vars

\* A task runs to its end, a ticket request ends (its retries are bounded), a
\* timer fires, and the platform reports how a dial and a closing handshake ended.
Fairness ==
  /\ WF_vars(OnOpen)
  /\ \A c \in Conns : /\ WF_vars(UrlSettles(c)) /\ WF_vars(TimerFires(c))
                      /\ WF_vars(DialSettles(c)) /\ WF_vars(CloseEvent(c))

FairSpec == Spec /\ Fairness
-----------------------------------------------------------------------------
(* Properties.                                                             *)

\* How many of a connection's ways to go on are under way.
Pursuits(c) ==
  {x \in {"fetching", "timer", "socket"} :
     \/ x = "fetching" /\ conns[c].fetching
     \/ x = "timer"    /\ conns[c].timer
     \/ x = "socket"   /\ sockets[c] \in Live}

\* A connection does one thing at a time: it fetches a ticket, waits for its
\* retry or has a socket that has not closed; never two, so that it never has
\* two sockets, and, unless it was closed or its retries are used up, never
\* none ("Connections automatically reconnect").
OneAttempt ==
  \A c \in Conns :
    /\ \A x, y \in Pursuits(c) : x = y
    /\ (c <= created /\ ~conns[c].closedByUser /\ Pursuits(c) = {}) =>
         conns[c].attempts = MaxRetries

\* On every socket the credentials reach the agent before any message of the
\* caller, also after a reconnection, with a queue or with sends on open: except
\* before what a callback sends while the connection opens, and they are on the
\* session's socket before the queue and what is sent in later tasks.
SessionInitFirst ==
  \A c \in Conns :
    /\ \A i \in DOMAIN wire[c] :
         wire[c][i] \in eager \/ \E j \in 1 .. i : wire[c][j] = InitMsg
    /\ (c = current /\ conns[c].isOpen /\ (opening = c => stage = "flush")) =>
         InitMsg \in Range(wire[c])

\* No message of the caller is sent twice, and none overtakes an earlier one but
\* what a callback sent while the connection opened, over all sockets and
\* connections of the session.
InOrderOnce ==
  \A i, j \in DOMAIN delivered :
    (i < j /\ InitMsg \notin {delivered[i], delivered[j]}) =>
      \/ delivered[i] < delivered[j]
      \/ delivered[i] \in eager /\ delivered[i] # delivered[j]

\* session.state.connection tells the truth about the session's connection,
\* until a connection that was closed while it fetched, dialled, opened or said
\* goodbye speaks up again.
StateTellsTruth ==
  ~stale =>
    /\ connState = "connected" <=>
         /\ current # 0 /\ conns[current].isOpen
         /\ ~(opening = current /\ stage = "state listener")
    /\ current = 0 => connState = "disconnected"

\* Over all of its connections, and whichever of them speaks up, the session
\* is an outbox: its messages wait in one bounded queue, which is flushed whole
\* and in order or dropped by close, no flush repeats what went out, and only
\* while the connection opens does a message pass those that wait.
Waiting == IF current = 0 THEN <<>> ELSE conns[current].pendingSends
Ajar   == current # 0 /\ opening = current

Box == INSTANCE Outbox WITH Capacity <- MaxPending, Greeting <- InitMsg,
                            posted <- calls, waiting <- Waiting, out <- delivered,
                            ajar <- Ajar

ImplementsOutbox == Box!Spec

\* What is queued while the connection is down is sent when it is up again,
\* unless the queue overflows, the session is closed or the retries run out.
QueuedIsSent ==
  \A c \in Conns, m \in Msgs :
    (c = current /\ m \in Range(conns[c].pendingSends)) ~>
      \/ m \in Range(delivered) \union overflowed
      \/ current # c
      \/ Pursuits(c) = {}
=============================================================================
