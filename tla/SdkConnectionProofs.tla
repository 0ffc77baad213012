------------------------- MODULE SdkConnectionProofs -------------------------
(***************************************************************************)
(* Proofs about SdkConnection, for every number of connections, messages   *)
(* and retries and every length of the queue.                              *)
(***************************************************************************)
EXTENDS SdkConnection, TLAPS

Data    == Msgs \union {InitMsg}
States  == Live \union {"none", "closed"}
Record  == [fetching : BOOLEAN, timer : BOOLEAN, isOpen : BOOLEAN,
            closedByUser : BOOLEAN, attempts : 0 .. MaxRetries,
            pendingSends : Seq(Data)]

\* One attempt at a time, and one unless the connection gave up or was closed.
Attempts(r, s, c, n) ==
  /\ ~(r.fetching /\ r.timer)
  /\ s \in Live => ~r.fetching /\ ~r.timer
  /\ (c <= n /\ ~r.closedByUser /\ ~r.fetching /\ ~r.timer /\ s \notin Live) =>
       r.attempts = MaxRetries

\* The session's connection is the one that was not closed; one that is not
\* made yet is untouched.
Owned(r, s, w, c, cur, n) ==
  /\ c = cur => c <= n /\ ~r.closedByUser
  /\ (c <= n /\ c # cur) => r.closedByUser
  /\ ~(c <= n) => r = Unused /\ s = "none" /\ w = <<>>

\* A closed connection has no timer; neither it nor an open one, once its onOpen
\* is done, has a queue.
QueueOnlyWhileDown(r, c, op) ==
  /\ r.closedByUser => ~r.timer
  /\ (r.closedByUser \/ (r.isOpen /\ c # op)) => r.pendingSends = <<>>

\* Nothing but what callbacks sent precedes the init messages.
Prefixed(w, E) ==
  \A i \in DOMAIN w : w[i] \in E \/ \E j \in 1 .. i : w[j] = InitMsg

\* isOpen holds from the open to the close event, and during an opening unless
\* the session is closed; the init messages are sent when the session's opens.
OnWire(r, s, w, c, cur, op, st, E) ==
  /\ r.isOpen => s \in {"open", "closing"}
  /\ c = op => (r.isOpen => s = "open") /\ (r.isOpen \/ r.closedByUser)
  /\ Prefixed(w, E)
  /\ (c = cur /\ r.isOpen /\ (c = op => st = "flush")) => InitMsg \in Range(w)

\* What holds of a connection r, its socket's state s and what was sent on it.
Good(r, s, w, c, cur, n, op, st, E) ==
  /\ r \in Record /\ Len(r.pendingSends) <= MaxPending
  /\ s \in States /\ w \in Seq(Data)
  /\ Attempts(r, s, c, n) /\ Owned(r, s, w, c, cur, n)
  /\ QueueOnlyWhileDown(r, c, op) /\ OnWire(r, s, w, c, cur, op, st, E)

Functional ==
  /\ conns \in [Conns -> Record] /\ sockets \in [Conns -> States]
  /\ wire \in [Conns -> Seq(Data)]

Scalars ==
  /\ created \in 0 .. MaxConns /\ current \in 0 .. created
  /\ connState \in {"disconnected", "connecting", "connected"}
  /\ calls \in 0 .. MaxCalls /\ eager \subseteq Msgs
  /\ opening \in 0 .. created /\ stage \in Stages /\ (opening = 0 <=> stage = "idle")
  /\ delivered \in Seq(Data) /\ overflowed \subseteq Data /\ stale \in BOOLEAN

GoodConn(c) ==
  Good(conns[c], sockets[c], wire[c], c, current, created, opening, stage, eager)

\* The inductive invariant: what it says of one connection speaks of no other.
Inv ==
  /\ Functional /\ Scalars /\ StateTellsTruth
  /\ \A c \in Conns : GoodConn(c)

-----------------------------------------------------------------------------
(* Lemmas about the helpers and about one connection.                      *)

\* The queue keeps its limit.
LEMMA QueuedBounded ==
  ASSUME NEW q \in Seq(Data), NEW m \in Data, Len(q) <= MaxPending
  PROVE  /\ Queued(q, m) \in Seq(Data) /\ Len(Queued(q, m)) <= MaxPending
         /\ Len(q) >= MaxPending => Head(q) \in Data
<1>1. MaxPending \in Nat /\ MaxPending >= 1
  BY ConnectionAssumption
<1>2. CASE Len(q) < MaxPending
  BY <1>1, <1>2 DEF Queued
<1>3. CASE ~(Len(q) < MaxPending)
  <2>1. Len(q) = MaxPending /\ q # <<>>
    BY <1>1, <1>3
  <2>2. Tail(q) \in Seq(Data) /\ Len(Tail(q)) = Len(q) - 1 /\ Head(q) \in Data
    BY <2>1
  <2>. QED
    BY <1>1, <1>3, <2>1, <2>2 DEF Queued
<1>. QED
  BY <1>2, <1>3

\* What follows the init messages, or is a callback's, may be sent.
LEMMA PrefixedAppend ==
  ASSUME NEW w \in Seq(Data), NEW m \in Data, NEW E, NEW F, Prefixed(w, E), E \subseteq F,
         m \in F \/ m = InitMsg \/ InitMsg \in Range(w)
  PROVE  /\ Prefixed(w, F) /\ Prefixed(Append(w, m), F)
         /\ Append(w, m) \in Seq(Data)
         /\ (m = InitMsg \/ InitMsg \in Range(w)) => InitMsg \in Range(Append(w, m))
<1>. DEFINE a == Append(w, m)
<1>1. /\ Len(w) \in Nat /\ DOMAIN w = 1 .. Len(w) /\ DOMAIN a = 1 .. Len(w) + 1
      /\ \A i \in 1 .. Len(w) : a[i] = w[i]
      /\ a[Len(w) + 1] = m /\ a \in Seq(Data)
  OBVIOUS
<1>. HIDE DEF a
<1>2. Prefixed(w, F)
  BY DEF Prefixed
<1>3. ASSUME InitMsg \in Range(w) PROVE \E k \in 1 .. Len(w) : a[k] = InitMsg
  BY <1>1, <1>3 DEF Range
<1>4. Prefixed(a, F)
  <2>. SUFFICES ASSUME NEW i \in DOMAIN a, a[i] \notin F
                PROVE  \E j \in 1 .. i : a[j] = InitMsg
    BY DEF Prefixed
  <2>1. CASE i \in 1 .. Len(w)
    <3>1. PICK j \in 1 .. i : w[j] = InitMsg
      BY <1>1, <1>2, <2>1 DEF Prefixed
    <3>. QED
      BY <1>1, <2>1, <3>1
  <2>2. CASE i = Len(w) + 1 /\ m = InitMsg
    BY <1>1, <2>2
  <2>3. CASE i = Len(w) + 1 /\ InitMsg \in Range(w)
    <3>1. PICK k \in 1 .. Len(w) : a[k] = InitMsg
      BY <1>3, <2>3
    <3>. QED
      BY <1>1, <2>3, <3>1
  <2>. QED
    BY <1>1, <2>1, <2>2, <2>3
<1>5. (m = InitMsg \/ InitMsg \in Range(w)) => InitMsg \in Range(a)
  <2>1. CASE m = InitMsg
    BY <1>1, <2>1 DEF Range
  <2>2. CASE InitMsg \in Range(w)
    <3>1. PICK k \in 1 .. Len(w) : a[k] = InitMsg
      BY <1>3, <2>2
    <3>. QED
      BY <1>1, <3>1 DEF Range
  <2>. QED
    BY <2>1, <2>2
<1>. QED
  BY <1>1, <1>2, <1>4, <1>5 DEF a

\* So may a queue that follows them.
LEMMA PrefixedFlushed ==
  ASSUME NEW w \in Seq(Data), NEW q \in Seq(Data), NEW E, Prefixed(w, E),
         InitMsg \in Range(w)
  PROVE  /\ w \o q \in Seq(Data) /\ Prefixed(w \o q, E)
         /\ InitMsg \in Range(w \o q)
<1>. DEFINE a == w \o q
<1>1. /\ Len(w) \in Nat /\ Len(q) \in Nat /\ DOMAIN w = 1 .. Len(w)
      /\ DOMAIN a = 1 .. (Len(w) + Len(q))
      /\ \A i \in 1 .. Len(w) : a[i] = w[i]
      /\ a \in Seq(Data)
  OBVIOUS
<1>. HIDE DEF a
<1>2. PICK k \in 1 .. Len(w) : a[k] = InitMsg
  BY <1>1 DEF Range
<1>3. Prefixed(a, E)
  <2>. SUFFICES ASSUME NEW i \in DOMAIN a, a[i] \notin E
                PROVE  \E j \in 1 .. i : a[j] = InitMsg
    BY DEF Prefixed
  <2>1. CASE i \in 1 .. Len(w)
    <3>1. PICK j \in 1 .. i : w[j] = InitMsg
      BY <1>1, <2>1 DEF Prefixed
    <3>. QED
      BY <1>1, <2>1, <3>1
  <2>2. CASE ~(i <= Len(w))
    BY <1>1, <1>2, <2>2
  <2>. QED
    BY <1>1, <2>1, <2>2
<1>4. InitMsg \in Range(a)
  BY <1>1, <1>2 DEF Range
<1>. QED
  BY <1>1, <1>3, <1>4 DEF a

\* scheduleReconnect stays in the budget, and sets the timer unless the
\* connection was closed or has used up its retries.
LEMMA ScheduledConn ==
  ASSUME NEW conn \in Record
  PROVE  \E t \in BOOLEAN, n \in 0 .. MaxRetries :
           /\ Scheduled(conn) = [conn EXCEPT !.timer = t, !.attempts = n]
           /\ conn.timer => t
           /\ ~t => (conn.closedByUser \/ n = MaxRetries)
           /\ conn.closedByUser => t = conn.timer
<1>1. MaxRetries \in Nat
  BY ConnectionAssumption
<1>2. CASE conn.closedByUser \/ conn.attempts >= MaxRetries \/ conn.timer
  <2>1. Scheduled(conn) = conn
    BY <1>2 DEF Scheduled
  <2>2. conn = [conn EXCEPT !.timer = conn.timer, !.attempts = conn.attempts]
    BY DEF Record
  <2>3. conn.timer \in BOOLEAN /\ conn.attempts \in 0 .. MaxRetries
    BY DEF Record
  <2>4. ~conn.timer => (conn.closedByUser \/ conn.attempts = MaxRetries)
    BY <1>1, <1>2, <2>3
  <2>. QED
    BY <2>1, <2>2, <2>3, <2>4, Zenon
<1>3. CASE ~(conn.closedByUser \/ conn.attempts >= MaxRetries \/ conn.timer)
  <2>1. Scheduled(conn) = [conn EXCEPT !.timer = TRUE, !.attempts = conn.attempts + 1]
    BY <1>3 DEF Scheduled, Record
  <2>2. conn.attempts + 1 \in 0 .. MaxRetries
    BY <1>1, <1>3 DEF Record
  <2>. QED
    BY <1>3, <2>1, <2>2 DEF Record
<1>. QED
  BY <1>2, <1>3

\* What happens to another connection's opening, or before the flush of this one.
LEMMA GoodElsewhere ==
  ASSUME NEW r, NEW s, NEW w, NEW c, NEW cur, NEW n, NEW op, NEW st, NEW E,
         NEW op2, NEW st2, NEW F, Good(r, s, w, c, cur, n, op, st, E), E \subseteq F,
         \/ c # op /\ c # op2
         \/ op2 = op /\ (st2 = st \/ c # cur \/ st2 # "flush")
  PROVE  Good(r, s, w, c, cur, n, op2, st2, F)
<1>1. Prefixed(w, F)
  BY DEF Good, OnWire, Prefixed
<1>2. OnWire(r, s, w, c, cur, op2, st2, F)
  BY <1>1 DEF Good, OnWire
<1>3. QueueOnlyWhileDown(r, c, op2)
  BY DEF Good, QueueOnlyWhileDown
<1>. QED
  BY <1>2, <1>3 DEF Good

\* A new connection.
LEMMA GoodFresh ==
  ASSUME NEW c, NEW cur, NEW n, NEW op, NEW st, NEW E, c # op
  PROVE  /\ (c = cur /\ c <= n) => Good(Fresh, "none", <<>>, c, cur, n, op, st, E)
         /\ (c # cur /\ ~(c <= n)) => Good(Unused, "none", <<>>, c, cur, n, op, st, E)
<1>1. MaxPending \in Nat /\ 0 \in 0 .. MaxRetries
  BY ConnectionAssumption
<1>2. <<>> \in Seq(Data) /\ Len(<<>>) = 0 /\ Prefixed(<<>>, E)
  BY DEF Prefixed
<1>3. Fresh \in Record /\ Fresh.pendingSends = <<>> /\ Fresh.fetching
      /\ ~Fresh.timer /\ ~Fresh.isOpen /\ ~Fresh.closedByUser
  BY <1>1, <1>2 DEF Fresh, Record
<1>4. Unused \in Record /\ Unused.pendingSends = <<>> /\ ~Unused.fetching
      /\ ~Unused.timer /\ ~Unused.isOpen /\ ~Unused.closedByUser
  BY <1>3 DEF Unused, Record
<1>5. "none" \in States /\ "none" \notin Live
  BY DEF States, Live
<1>6. (c = cur /\ c <= n) => Good(Fresh, "none", <<>>, c, cur, n, op, st, E)
  BY <1>1, <1>2, <1>3, <1>5 DEF Good, Attempts, Owned, QueueOnlyWhileDown, OnWire
<1>7. (c # cur /\ ~(c <= n)) => Good(Unused, "none", <<>>, c, cur, n, op, st, E)
  BY <1>1, <1>2, <1>4, <1>5 DEF Good, Attempts, Owned, QueueOnlyWhileDown, OnWire
<1>. QED
  BY <1>6, <1>7

\* The URL is there: a new socket, nothing sent on it.
LEMMA GoodUrlReady ==
  ASSUME NEW r, NEW s, NEW w, NEW c, NEW cur, NEW n, NEW op, NEW st, NEW E,
         Good(r, s, w, c, cur, n, op, st, E), r.fetching, c # op
  PROVE  Good([r EXCEPT !.fetching = FALSE], "connecting", <<>>, c, cur, n, op, st, E)
<1>. DEFINE q == [r EXCEPT !.fetching = FALSE]
<1>1. r \in Record /\ q \in Record /\ q.pendingSends = r.pendingSends
      /\ q.timer = r.timer /\ q.isOpen = r.isOpen /\ ~q.fetching
      /\ q.closedByUser = r.closedByUser /\ q.attempts = r.attempts
  BY DEF Good, Record
<1>2. c <= n /\ ~r.timer /\ ~r.isOpen
  BY DEF Good, Attempts, Owned, OnWire, Unused, Fresh, Live
<1>. HIDE DEF q
<1>3. Attempts(q, "connecting", c, n) /\ Prefixed(<<>>, E)
  BY <1>1, <1>2 DEF Attempts, Prefixed, Live
<1>4. Owned(q, "connecting", <<>>, c, cur, n) /\ QueueOnlyWhileDown(q, c, op)
      /\ OnWire(q, "connecting", <<>>, c, cur, op, st, E)
  BY <1>1, <1>2, <1>3 DEF Good, Owned, QueueOnlyWhileDown, OnWire
<1>5. Len(q.pendingSends) <= MaxPending /\ "connecting" \in States /\ <<>> \in Seq(Data)
  BY <1>1 DEF Good, States, Live
<1>6. Good(q, "connecting", <<>>, c, cur, n, op, st, E)
  BY <1>1, <1>3, <1>4, <1>5 DEF Good
<1>. QED
  BY <1>6 DEF q

\* The timer fires.
LEMMA GoodTimer ==
  ASSUME NEW r, NEW s, NEW w, NEW c, NEW cur, NEW n, NEW op, NEW st, NEW E,
         Good(r, s, w, c, cur, n, op, st, E), r.timer
  PROVE  Good([r EXCEPT !.timer = FALSE, !.fetching = TRUE], s, w, c, cur, n, op, st, E)
<1>. DEFINE q == [r EXCEPT !.timer = FALSE, !.fetching = TRUE]
<1>1. r \in Record /\ q \in Record /\ q.pendingSends = r.pendingSends
      /\ ~q.timer /\ q.isOpen = r.isOpen /\ q.fetching
      /\ q.closedByUser = r.closedByUser /\ q.attempts = r.attempts
  BY DEF Good, Record
<1>2. c <= n /\ s \notin Live /\ ~r.closedByUser
  BY DEF Good, Attempts, Owned, QueueOnlyWhileDown, Unused, Fresh
<1>. HIDE DEF q
<1>3. Attempts(q, s, c, n) /\ OnWire(q, s, w, c, cur, op, st, E)
  BY <1>1, <1>2 DEF Good, Attempts, OnWire
<1>4. Owned(q, s, w, c, cur, n) /\ QueueOnlyWhileDown(q, c, op)
  BY <1>1, <1>2 DEF Good, Owned, QueueOnlyWhileDown
<1>5. Good(q, s, w, c, cur, n, op, st, E)
  BY <1>1, <1>3, <1>4 DEF Good
<1>. QED
  BY <1>5 DEF q

\* A failing ticket request, a failing dial and a close event: the retry.
LEMMA GoodScheduled ==
  ASSUME NEW r, NEW s, NEW w, NEW c, NEW cur, NEW n, NEW op, NEW st, NEW E,
         Good(r, s, w, c, cur, n, op, st, E), r.fetching \/ s \in Live, c # op,
         NEW q \in Record, NEW z \in States \ Live,
         q.isOpen => r.isOpen /\ z = s, ~q.fetching, q.timer = r.timer,
         q.closedByUser = r.closedByUser, q.pendingSends = r.pendingSends
  PROVE  /\ Good(Scheduled(q), z, w, c, cur, n, op, st, E)
         /\ Scheduled(q).isOpen = q.isOpen
<1>1. PICK t \in BOOLEAN, k \in 0 .. MaxRetries :
           /\ Scheduled(q) = [q EXCEPT !.timer = t, !.attempts = k]
           /\ q.timer => t
           /\ ~t => (q.closedByUser \/ k = MaxRetries)
           /\ q.closedByUser => t = q.timer
  BY ScheduledConn
<1>. DEFINE u == [q EXCEPT !.timer = t, !.attempts = k]
<1>2. u \in Record /\ u.timer = t /\ u.attempts = k /\ u.isOpen = q.isOpen
      /\ u.closedByUser = q.closedByUser /\ u.pendingSends = q.pendingSends
      /\ u.fetching = q.fetching
  BY DEF Record
<1>3. c <= n
  BY DEF Good, Owned, Unused, Fresh, Live
<1>4. Scheduled(q) = u
  BY <1>1
<1>. HIDE DEF u
<1>5. ~u.isOpen
  BY <1>2 DEF Good, OnWire, Live, States
<1>6. Attempts(u, z, c, n) /\ Owned(u, z, w, c, cur, n) /\ z \in States
  BY <1>1, <1>2, <1>3 DEF Good, Attempts, Owned, States
<1>7. QueueOnlyWhileDown(u, c, op) /\ OnWire(u, z, w, c, cur, op, st, E)
  BY <1>1, <1>2, <1>5 DEF Good, QueueOnlyWhileDown, OnWire
<1>. QED
  BY <1>2, <1>4, <1>6, <1>7 DEF Good

\* The socket opens: onOpen begins, the queue still there.
LEMMA GoodOpened ==
  ASSUME NEW r, NEW w, NEW c, NEW cur, NEW n, NEW op, NEW st, NEW E,
         Good(r, "connecting", w, c, cur, n, op, st, E)
  PROVE  /\ Good(Opened(r), "open", w, c, cur, n, c, "state listener", E)
         /\ Opened(r).isOpen
<1>1. 0 \in 0 .. MaxRetries
  BY ConnectionAssumption
<1>2. r \in Record /\ Opened(r) \in Record /\ Opened(r).pendingSends = r.pendingSends
      /\ Opened(r).timer = r.timer /\ Opened(r).isOpen
      /\ Opened(r).fetching = r.fetching /\ Opened(r).closedByUser = r.closedByUser
  BY <1>1 DEF Good, Record, Opened
<1>3. c <= n /\ ~r.timer /\ ~r.fetching
  BY DEF Good, Attempts, Owned, Unused, Fresh, Live
<1>4. Attempts(Opened(r), "open", c, n) /\ "open" \in States
  BY <1>2, <1>3 DEF Attempts, States, Live
<1>5. OnWire(Opened(r), "open", w, c, cur, c, "state listener", E)
  BY <1>2 DEF Good, OnWire
<1>6. Owned(Opened(r), "open", w, c, cur, n) /\ QueueOnlyWhileDown(Opened(r), c, c)
  BY <1>2, <1>3 DEF Good, Owned, QueueOnlyWhileDown
<1>. QED
  BY <1>2, <1>4, <1>5, <1>6 DEF Good

\* onOpen ends: the queue, unless the connection was closed, is on the wire.
LEMMA GoodFlushed ==
  ASSUME NEW r, NEW s, NEW w, NEW c, NEW cur, NEW n, NEW E, c # 0, NEW v,
         Good(r, s, w, c, cur, n, c, "flush", E), c <= n,
         v = w \o (IF r.isOpen THEN r.pendingSends ELSE <<>>)
  PROVE  /\ Good(Emptied(r), s, v, c, cur, n, 0, "idle", E)
         /\ Emptied(r).isOpen = r.isOpen
<1>0. <<>> \in Seq(Data) /\ Len(<<>>) = 0 /\ MaxPending \in Nat
  BY ConnectionAssumption
<1>1. r \in Record /\ r.pendingSends \in Seq(Data) /\ w \in Seq(Data)
  BY DEF Good, Record
<1>2. CASE ~r.isOpen
  <2>1. Emptied(r) = r /\ v = w
    BY <1>1, <1>2 DEF Emptied
  <2>. QED
    BY <1>2, <2>1 DEF Good, QueueOnlyWhileDown, OnWire
<1>3. CASE r.isOpen
  <2>. DEFINE q == [r EXCEPT !.pendingSends = <<>>]
  <2>1. q \in Record /\ q.pendingSends = <<>> /\ q.timer = r.timer /\ q.isOpen
        /\ q.fetching = r.fetching /\ q.closedByUser = r.closedByUser
        /\ q.attempts = r.attempts
    BY <1>0, <1>1, <1>3 DEF Record
  <2>2. Emptied(r) = q
    BY <1>3 DEF Emptied
  <2>. HIDE DEF q
  <2>3. v \in Seq(Data) /\ Prefixed(v, E) /\ (c = cur => InitMsg \in Range(v))
    <3>1. Prefixed(w, E) /\ (c = cur => InitMsg \in Range(w))
      BY <1>3 DEF Good, OnWire
    <3>2. v = w \o r.pendingSends
      BY <1>3
    <3>3. CASE c = cur
      BY <1>1, <3>1, <3>2, <3>3, PrefixedFlushed
    <3>4. CASE c # cur
      <4>1. r.pendingSends = <<>>
        BY <3>4 DEF Good, Owned, QueueOnlyWhileDown
      <4>2. v = w
        BY <1>1, <3>2, <4>1
      <4>. QED
        BY <1>1, <3>1, <3>4, <4>2
    <3>. QED
      BY <3>3, <3>4
  <2>4. Attempts(q, s, c, n) /\ Owned(q, s, v, c, cur, n)
    BY <2>1 DEF Good, Attempts, Owned
  <2>5. QueueOnlyWhileDown(q, c, 0) /\ OnWire(q, s, v, c, cur, 0, "idle", E)
    <3>1. s \in {"open", "closing"}
      BY <1>3 DEF Good, OnWire
    <3>2. OnWire(q, s, v, c, cur, 0, "idle", E)
      BY <2>3, <3>1 DEF OnWire
    <3>3. QueueOnlyWhileDown(q, c, 0)
      BY <2>1 DEF Good, QueueOnlyWhileDown
    <3>. QED
      BY <3>2, <3>3
  <2>6. Good(q, s, v, c, cur, n, 0, "idle", E)
    BY <1>0, <2>1, <2>3, <2>4, <2>5 DEF Good
  <2>. QED
    BY <1>3, <2>1, <2>2, <2>6
<1>. QED
  BY <1>2, <1>3

\* CloseSession: the session lets go of its connection.
LEMMA GoodClosedByUser ==
  ASSUME NEW r, NEW s, NEW w, NEW c, NEW cur, NEW n, NEW op, NEW st, NEW E,
         Good(r, s, w, c, c, n, op, st, E), c # cur, c <= n
  PROVE  Good([r EXCEPT !.closedByUser = TRUE, !.isOpen = FALSE,
                        !.pendingSends = <<>>, !.timer = FALSE],
              IF s \in {"connecting", "open"} THEN "closing" ELSE s, w, c, cur, n,
              op, st, E)
<1>. DEFINE q == [r EXCEPT !.closedByUser = TRUE, !.isOpen = FALSE,
                           !.pendingSends = <<>>, !.timer = FALSE]
            z == IF s \in {"connecting", "open"} THEN "closing" ELSE s
<1>0. <<>> \in Seq(Data) /\ Len(<<>>) = 0 /\ MaxPending \in Nat
  BY ConnectionAssumption
<1>1. r \in Record /\ q \in Record /\ q.pendingSends = <<>> /\ ~q.timer
      /\ ~q.isOpen /\ q.closedByUser /\ q.fetching = r.fetching
  BY <1>0 DEF Good, Record
<1>2. z \in States /\ (z \in Live <=> s \in Live)
  BY DEF Good, States, Live
<1>. HIDE DEF q, z
<1>3. Attempts(q, z, c, n) /\ OnWire(q, z, w, c, cur, op, st, E)
  BY <1>1, <1>2 DEF Good, Attempts, OnWire
<1>4. Owned(q, z, w, c, cur, n) /\ QueueOnlyWhileDown(q, c, op)
  BY <1>1 DEF Owned, QueueOnlyWhileDown
<1>5. Len(q.pendingSends) <= MaxPending /\ w \in Seq(Data)
  BY <1>0, <1>1 DEF Good
<1>6. Good(q, z, w, c, cur, n, op, st, E)
  BY <1>1, <1>2, <1>3, <1>4, <1>5 DEF Good
<1>. QED
  BY <1>6 DEF q, z

\* A message that is queued, on a connection that is down: it is not opening.
LEMMA GoodQueued ==
  ASSUME NEW r, NEW s, NEW w, NEW m \in Data, NEW c, NEW n, NEW op, NEW st, NEW E,
         Good(r, s, w, c, c, n, op, st, E), ~r.isOpen
  PROVE  Good([r EXCEPT !.pendingSends = Queued(@, m)], s, w, c, c, n, op, st, E)
         /\ c # op
<1>. DEFINE p == Queued(r.pendingSends, m)
            q == [r EXCEPT !.pendingSends = p]
<1>1. r \in Record /\ r.pendingSends \in Seq(Data) /\ Len(r.pendingSends) <= MaxPending
  BY DEF Good, Record
<1>2. p \in Seq(Data) /\ Len(p) <= MaxPending
  BY <1>1, QueuedBounded
<1>. HIDE DEF p
<1>3. q \in Record /\ q.pendingSends = p /\ q.timer = r.timer /\ q.isOpen = r.isOpen
      /\ q.fetching = r.fetching /\ q.closedByUser = r.closedByUser
      /\ q.attempts = r.attempts
  BY <1>1, <1>2 DEF Record
<1>. HIDE DEF q
<1>4. Attempts(q, s, c, n) /\ OnWire(q, s, w, c, c, op, st, E) /\ c # op
  BY <1>3 DEF Good, Attempts, Owned, OnWire
<1>5. Owned(q, s, w, c, c, n) /\ QueueOnlyWhileDown(q, c, op)
  BY <1>3 DEF Good, Owned, QueueOnlyWhileDown
<1>6. Good(q, s, w, c, c, n, op, st, E)
  BY <1>2, <1>3, <1>4, <1>5 DEF Good
<1>. QED
  BY <1>4, <1>6 DEF q, p

\* A message that is sent, on a connection that is open.
LEMMA GoodSent ==
  ASSUME NEW r, NEW s, NEW w, NEW m \in Data, NEW c, NEW n, NEW op, NEW st, NEW E, NEW F,
         Good(r, s, w, c, c, n, op, st, E), r.isOpen, E \subseteq F, c = op => m \in F
  PROVE  Good(r, s, Append(w, m), c, c, n, op, st, F)
<1>1. w \in Seq(Data) /\ Prefixed(w, E) /\ (c # op => InitMsg \in Range(w))
  BY DEF Good, OnWire
<1>2. /\ Append(w, m) \in Seq(Data) /\ Prefixed(Append(w, m), F)
      /\ InitMsg \in Range(w) => InitMsg \in Range(Append(w, m))
  BY <1>1, PrefixedAppend
<1>3. OnWire(r, s, Append(w, m), c, c, op, st, F)
  BY <1>2 DEF Good, OnWire
<1>4. Owned(r, s, Append(w, m), c, c, n)
  BY DEF Good, Owned
<1>. QED
  BY <1>2, <1>3, <1>4 DEF Good

\* The init messages are sent, on a connection that is open or opening.
LEMMA GoodGreeted ==
  ASSUME NEW r, NEW s, NEW w, NEW v, NEW c, NEW n, NEW op, NEW E,
         Good(r, s, w, c, c, n, op, "init listener", E), r.isOpen,
         v = IF s = "open" THEN Append(w, InitMsg) ELSE w
  PROVE  Good(r, s, v, c, c, n, op, "flush", E)
<1>1. w \in Seq(Data) /\ Prefixed(w, E) /\ (c # op => InitMsg \in Range(w))
      /\ (c = op => s = "open") /\ InitMsg \in Data
  BY DEF Good, OnWire, Data
<1>2. v \in Seq(Data) /\ Prefixed(v, E) /\ InitMsg \in Range(v)
  BY <1>1, PrefixedAppend
<1>3. OnWire(r, s, v, c, c, op, "flush", E)
  BY <1>2 DEF Good, OnWire
<1>4. Owned(r, s, v, c, c, n)
  BY DEF Good, Owned
<1>. QED
  BY <1>2, <1>3, <1>4 DEF Good

\* The socket of an open connection starts to close.
LEMMA GoodDrops ==
  ASSUME NEW r, NEW w, NEW c, NEW cur, NEW n, NEW op, NEW st, NEW E,
         Good(r, "open", w, c, cur, n, op, st, E), c # op
  PROVE  Good(r, "closing", w, c, cur, n, op, st, E)
<1>1. "closing" \in States /\ c <= n
  BY DEF Good, Owned, States, Live
<1>2. Attempts(r, "closing", c, n) /\ OnWire(r, "closing", w, c, cur, op, st, E)
  BY DEF Good, Attempts, OnWire, Live
<1>3. Owned(r, "closing", w, c, cur, n)
  BY <1>1 DEF Good, Owned
<1>. QED
  BY <1>1, <1>2, <1>3 DEF Good

-----------------------------------------------------------------------------
(* The invariant.                                                          *)

LEMMA InitInv == Init => Inv
<1>. SUFFICES ASSUME Init PROVE Inv
  OBVIOUS
<1>. USE DEF Init
<1>1. <<>> \in Seq(Data) /\ "none" \in States /\ Unused \in Record
  <2>1. 0 # 1 /\ ~(0 <= -1) /\ 0 # 2
    OBVIOUS
  <2>2. Good(Unused, "none", <<>>, 0, 1, -1, 2, "idle", {})
    BY <2>1, GoodFresh
  <2>. QED
    BY <2>2 DEF Good
<1>2. Functional
  BY <1>1 DEF Functional
<1>3. Scalars
  <2>1. 0 \in 0 .. MaxConns /\ 0 \in 0 .. MaxCalls /\ 0 \in 0 .. 0
    BY ConnectionAssumption
  <2>. QED
    BY <1>1, <2>1 DEF Scalars, Stages
<1>4. StateTellsTruth
  BY DEF StateTellsTruth
<1>5. \A c \in Conns : GoodConn(c)
  <2>. TAKE c \in Conns
  <2>1. c # current /\ ~(c <= created) /\ c # opening
    BY ConnectionAssumption DEF Conns
  <2>2. conns[c] = Unused /\ sockets[c] = "none" /\ wire[c] = <<>>
    OBVIOUS
  <2>. QED
    BY <2>1, <2>2, GoodFresh DEF GoodConn
<1>. QED
  BY <1>2, <1>3, <1>4, <1>5 DEF Inv

\* The session's connection is one of Conns, and between tasks none is opening.
LEMMA Here ==
  ASSUME Inv
  PROVE  /\ current # 0 => current \in Conns /\ current <= created
         /\ opening # 0 => opening \in Conns /\ opening <= created
         /\ stage = "idle" => \A c \in Conns : c # opening
         /\ 0 \notin Conns
         /\ conns \in [Conns -> Record] /\ sockets \in [Conns -> States]
         /\ wire \in [Conns -> Seq(Data)]
BY ConnectionAssumption DEF Inv, Scalars, Functional, Conns

\* A step of one connection that leaves the session's connection as it is; what
\* it changes of an opening is the connection's own.
LEMMA OneConnStep ==
  ASSUME Inv, NEW c \in Conns, NEW q, NEW z, NEW v, UNCHANGED <<current, created>>,
         Good(q, z, v, c, current, created, opening', stage', eager'),
         eager \subseteq eager',
         \A d \in Conns \ {c} :
           \/ d # opening /\ d # opening'
           \/ opening' = opening /\ (stage' = stage \/ d # current \/ stage' # "flush"),
         conns' = [conns EXCEPT ![c] = q], sockets' = [sockets EXCEPT ![c] = z],
         wire' = [wire EXCEPT ![c] = v]
  PROVE  /\ Functional' /\ \A d \in Conns : GoodConn(d)'
         /\ conns'[c] = q /\ \A d \in Conns \ {c} : conns'[d] = conns[d]
<1>1. q \in Record /\ z \in States /\ v \in Seq(Data)
  BY DEF Good
<1>2. Functional
  BY DEF Inv
<1>3. Functional' /\ conns'[c] = q /\ sockets'[c] = z /\ wire'[c] = v
  BY <1>1, <1>2 DEF Functional
<1>4. \A d \in Conns \ {c} : conns'[d] = conns[d] /\ sockets'[d] = sockets[d]
                             /\ wire'[d] = wire[d]
  BY <1>2 DEF Functional
<1>5. \A d \in Conns : GoodConn(d)'
  <2>. TAKE d \in Conns
  <2>1. CASE d = c
    BY <1>3, <2>1 DEF GoodConn
  <2>2. CASE d # c
    <3>1. Good(conns[d], sockets[d], wire[d], d, current, created, opening, stage, eager)
      BY DEF Inv, GoodConn
    <3>2. Good(conns[d], sockets[d], wire[d], d, current, created, opening', stage', eager')
      BY <2>2, <3>1, GoodElsewhere
    <3>. QED
      BY <1>4, <2>2, <3>2 DEF GoodConn
  <2>. QED
    BY <2>1, <2>2
<1>. QED
  BY <1>3, <1>4, <1>5

\* The steps before a dial, and the loss of a socket, change no state the
\* session shows.
LEMMA QuietSteps ==
  ASSUME Inv, NEW c \in Conns,
         UrlReady(c) \/ UrlFailed(c) \/ TimerFires(c) \/ Drops(c)
  PROVE  Inv'
<1>. DEFINE r == conns[c]  s == sockets[c]  w == wire[c]
            Fine(q, z, v) == Good(q, z, v, c, current, created, opening, stage, eager)
<1>0. /\ Fine(r, s, w) /\ c # opening
      /\ r \in Record /\ s \in States /\ w \in Seq(Data)
      /\ conns \in [Conns -> Record] /\ sockets \in [Conns -> States]
      /\ wire \in [Conns -> Seq(Data)]
  <2>1. stage = "idle"
    BY DEF UrlReady, UrlFailed, TimerFires, Drops
  <2>. QED
    BY <2>1, Here DEF Inv, GoodConn
<1>1. \E q, z, v : /\ Fine(q, z, v)
                   /\ conns' = [conns EXCEPT ![c] = q]
                   /\ sockets' = [sockets EXCEPT ![c] = z]
                   /\ wire' = [wire EXCEPT ![c] = v]
                   /\ q.isOpen = conns[c].isOpen
  <2>1. CASE UrlReady(c)
    <3>. DEFINE q == [r EXCEPT !.fetching = FALSE]
    <3>1. Fine(q, "connecting", <<>>)
      BY <1>0, <2>1, GoodUrlReady DEF UrlReady
    <3>2. /\ conns' = [conns EXCEPT ![c] = q] /\ q.isOpen = conns[c].isOpen
          /\ sockets' = [sockets EXCEPT ![c] = "connecting"]
          /\ wire' = [wire EXCEPT ![c] = <<>>]
      BY <1>0, <2>1 DEF UrlReady, Record
    <3>. QED
      BY <3>1, <3>2
  <2>2. CASE UrlFailed(c)
    <3>. DEFINE q == [r EXCEPT !.fetching = FALSE]
    <3>1. q \in Record /\ q.isOpen = r.isOpen /\ ~q.fetching /\ q.timer = r.timer
          /\ q.closedByUser = r.closedByUser /\ q.pendingSends = r.pendingSends
      BY <1>0 DEF Record
    <3>2. r.fetching /\ s \notin Live
      BY <1>0, <2>2 DEF UrlFailed, Good, Attempts
    <3>3. Fine(Scheduled(q), s, w) /\ Scheduled(q).isOpen = q.isOpen
      <4>. HIDE DEF q
      <4>. QED
        BY <1>0, <3>1, <3>2, GoodScheduled
    <3>4. /\ conns' = [conns EXCEPT ![c] = Scheduled(q)]
          /\ sockets' = [sockets EXCEPT ![c] = s] /\ wire' = [wire EXCEPT ![c] = w]
      BY <1>0, <2>2 DEF UrlFailed
    <3>. QED
      BY <3>1, <3>3, <3>4
  <2>3. CASE TimerFires(c)
    <3>. DEFINE q == [r EXCEPT !.timer = FALSE, !.fetching = TRUE]
    <3>1. Fine(q, s, w)
      BY <1>0, <2>3, GoodTimer DEF TimerFires
    <3>2. /\ conns' = [conns EXCEPT ![c] = q] /\ q.isOpen = conns[c].isOpen
          /\ sockets' = [sockets EXCEPT ![c] = s] /\ wire' = [wire EXCEPT ![c] = w]
      BY <1>0, <2>3 DEF TimerFires, Record
    <3>. QED
      BY <3>1, <3>2
  <2>4. CASE Drops(c)
    <3>1. Fine(r, "closing", w)
      BY <1>0, <2>4, GoodDrops DEF Drops
    <3>2. /\ conns' = [conns EXCEPT ![c] = r] /\ wire' = [wire EXCEPT ![c] = w]
          /\ sockets' = [sockets EXCEPT ![c] = "closing"]
      BY <1>0, <2>4 DEF Drops
    <3>. QED
      BY <3>1, <3>2
  <2>. QED
    BY <2>1, <2>2, <2>3, <2>4
<1>2. UNCHANGED <<current, created, connState, calls, opening, stage, delivered, eager,
                  overflowed, stale>>
  BY DEF UrlReady, UrlFailed, TimerFires, Drops, session, onOpen, history
<1>3. /\ Functional' /\ \A d \in Conns : GoodConn(d)'
      /\ \A d \in Conns : conns'[d].isOpen = conns[d].isOpen
  <2>1. PICK q, z, v : /\ Fine(q, z, v)
                   /\ conns' = [conns EXCEPT ![c] = q]
                   /\ sockets' = [sockets EXCEPT ![c] = z]
                   /\ wire' = [wire EXCEPT ![c] = v]
                   /\ q.isOpen = conns[c].isOpen
    BY <1>1
  <2>. QED
    BY <1>2, <2>1, OneConnStep
<1>4. Scalars'
  BY <1>2 DEF Inv, Scalars
<1>5. StateTellsTruth'
  <2>1. current # 0 => current \in Conns
    BY Here
  <2>. QED
    BY <1>2, <1>3, <2>1 DEF Inv, StateTellsTruth
<1>. QED
  BY <1>3, <1>4, <1>5 DEF Inv

\* A close event reports the connection down, or marks the state stale.
LEMMA ClosedStep ==
  ASSUME Inv, NEW c \in Conns, DialFails(c) \/ CloseEvent(c)
  PROVE  Inv'
<1>. DEFINE r == conns[c]  s == sockets[c]  w == wire[c]
            q == [r EXCEPT !.isOpen = FALSE]
            Fine(u, z, v) == Good(u, z, v, c, current, created, opening, stage, eager)
<1>0. /\ Fine(r, s, w) /\ c # opening
      /\ r \in Record /\ s \in States /\ w \in Seq(Data)
      /\ conns \in [Conns -> Record] /\ sockets \in [Conns -> States]
      /\ wire \in [Conns -> Seq(Data)]
  <2>1. stage = "idle"
    BY DEF DialFails, CloseEvent
  <2>. QED
    BY <2>1, Here DEF Inv, GoodConn
<1>1. Closed(c) /\ s \in Live
  BY DEF DialFails, CloseEvent, Live
<1>2. q \in Record /\ ~q.isOpen /\ q.fetching = r.fetching /\ q.timer = r.timer
      /\ q.closedByUser = r.closedByUser /\ q.pendingSends = r.pendingSends
  BY <1>0 DEF Record
<1>3. ~r.fetching /\ "closed" \in States \ Live
  BY <1>0, <1>1 DEF Good, Attempts, States, Live
<1>4. Fine(Scheduled(q), "closed", w) /\ ~Scheduled(q).isOpen
  <2>. HIDE DEF q
  <2>. QED
    BY <1>0, <1>1, <1>2, <1>3, GoodScheduled
<1>5. /\ conns' = [conns EXCEPT ![c] = Scheduled(q)]
      /\ sockets' = [sockets EXCEPT ![c] = "closed"] /\ wire' = [wire EXCEPT ![c] = w]
      /\ UNCHANGED <<current, created, calls, opening, stage, delivered, eager, overflowed>>
      /\ connState' = "disconnected" /\ stale' = (stale \/ current # c)
  BY <1>0, <1>1 DEF Closed, onOpen
<1>. HIDE DEF q
<1>6. Functional' /\ (\A d \in Conns : GoodConn(d)') /\ conns'[c] = Scheduled(q)
  BY <1>4, <1>5, OneConnStep
<1>7. Scalars'
  BY <1>5 DEF Inv, Scalars
<1>8. StateTellsTruth'
  BY <1>4, <1>5, <1>6 DEF StateTellsTruth
<1>. QED
  BY <1>6, <1>7, <1>8 DEF Inv

\* A new connection becomes the session's; the others were closed before.
LEMMA ConnectStep == ASSUME Inv, Connect PROVE Inv'
<1>. DEFINE c == created + 1
<1>0. c \in Conns /\ c # current /\ ~(c <= created) /\ c \in 0 .. MaxConns /\ c \in 0 .. c
      /\ (\A d \in Conns : d # current) /\ c # opening /\ opening \in 0 .. c
      /\ \A d \in Conns \ {c} : (d <= c <=> d <= created)
  BY ConnectionAssumption DEF Inv, Scalars, Connect, Conns
<1>1. /\ conns \in [Conns -> Record] /\ sockets \in [Conns -> States]
      /\ wire \in [Conns -> Seq(Data)]
  BY DEF Inv, Functional
<1>2. /\ current' = c /\ created' = c /\ connState' = "connecting"
      /\ conns' = [conns EXCEPT ![c] = Fresh]
      /\ UNCHANGED <<sockets, wire, calls, opening, stage, delivered, eager,
                     overflowed, stale>>
  BY DEF Connect, onOpen, history
<1>3. sockets[c] = "none" /\ wire[c] = <<>>
  BY <1>0 DEF Inv, GoodConn, Good, Owned
<1>4. Good(Fresh, "none", <<>>, c, c, c, opening, stage, eager)
  <2>1. c <= c
    BY <1>0
  <2>. HIDE DEF c
  <2>. QED
    BY <1>0, <2>1, GoodFresh
<1>5. Functional'
  BY <1>1, <1>2, <1>4 DEF Functional, Good
<1>6. \A d \in Conns : GoodConn(d)'
  <2>. TAKE d \in Conns
  <2>1. CASE d = c
    <3>1. conns'[c] = Fresh
      BY <1>0, <1>1, <1>2
    <3>. QED
      BY <1>2, <1>3, <1>4, <2>1, <3>1 DEF GoodConn
  <2>2. CASE d # c
    <3>1. conns'[d] = conns[d] /\ d # current /\ (d <= c <=> d <= created)
      BY <1>0, <1>1, <1>2, <2>2
    <3>2. Good(conns[d], sockets[d], wire[d], d, current, created, opening, stage, eager)
      BY DEF Inv, GoodConn
    <3>3. Good(conns[d], sockets[d], wire[d], d, c, c, opening, stage, eager)
      <4>. HIDE DEF c
      <4>. QED
        BY <2>2, <3>1, <3>2 DEF Good, Attempts, Owned, OnWire
    <3>. QED
      BY <1>2, <3>1, <3>3 DEF GoodConn
  <2>. QED
    BY <2>1, <2>2
<1>7. Scalars'
  BY <1>0, <1>2 DEF Inv, Scalars
<1>8. StateTellsTruth'
  <2>1. conns'[c] = Fresh /\ ~Fresh.isOpen /\ c # 0
    BY <1>0, <1>1, <1>2, ConnectionAssumption DEF Fresh, Conns
  <2>. QED
    BY <1>2, <2>1 DEF StateTellsTruth
<1>. QED
  BY <1>5, <1>6, <1>7, <1>8 DEF Inv

\* The session lets go of its connection; the others were closed before.
LEMMA CloseSessionStep == ASSUME Inv, CloseSession PROVE Inv'
<1>. DEFINE c == current
            r == conns[c]  s == sockets[c]
            q == [r EXCEPT !.closedByUser = TRUE, !.isOpen = FALSE,
                           !.pendingSends = <<>>, !.timer = FALSE]
            z == IF s \in {"connecting", "open"} THEN "closing" ELSE s
<1>0. c \in Conns /\ c # 0 /\ c <= created /\ 0 \in 0 .. created /\ 0 \notin Conns
  BY ConnectionAssumption DEF Inv, Scalars, CloseSession, Conns
<1>1. /\ conns \in [Conns -> Record] /\ sockets \in [Conns -> States]
      /\ wire \in [Conns -> Seq(Data)]
  BY DEF Inv, Functional
<1>2. /\ current' = 0 /\ connState' = "disconnected"
      /\ conns' = [conns EXCEPT ![c] = q] /\ sockets' = [sockets EXCEPT ![c] = z]
      /\ UNCHANGED <<created, wire, calls, opening, stage, delivered, eager,
                     overflowed, stale>>
  BY <1>0, <1>1 DEF CloseSession, onOpen, history
<1>3. Good(q, z, wire[c], c, 0, created, opening, stage, eager)
  <2>1. Good(r, s, wire[c], c, c, created, opening, stage, eager)
    BY <1>0 DEF Inv, GoodConn
  <2>. QED
    BY <1>0, <2>1, GoodClosedByUser
<1>. HIDE DEF q, z
<1>4. Functional' /\ conns'[c] = q /\ sockets'[c] = z
  BY <1>0, <1>1, <1>2, <1>3 DEF Functional, Good
<1>5. \A d \in Conns : GoodConn(d)'
  <2>. TAKE d \in Conns
  <2>1. CASE d = c
    BY <1>2, <1>3, <1>4, <2>1 DEF GoodConn
  <2>2. CASE d # c
    <3>1. conns'[d] = conns[d] /\ sockets'[d] = sockets[d] /\ wire'[d] = wire[d] /\ d # 0
      BY <1>0, <1>1, <1>2, <2>2
    <3>2. Good(conns[d], sockets[d], wire[d], d, c, created, opening, stage, eager)
      BY DEF Inv, GoodConn
    <3>3. Good(conns[d], sockets[d], wire[d], d, 0, created, opening, stage, eager)
      BY <2>2, <3>1, <3>2 DEF Good, Owned, OnWire
    <3>. QED
      BY <1>2, <3>1, <3>3 DEF GoodConn
  <2>. QED
    BY <2>1, <2>2
<1>6. Scalars'
  BY <1>0, <1>2 DEF Inv, Scalars, CloseSession
<1>7. StateTellsTruth'
  BY <1>2 DEF StateTellsTruth
<1>. QED
  BY <1>4, <1>5, <1>6, <1>7 DEF Inv

\* What send does to the session's connection: a message goes out, is lost on a
\* closing socket, or is queued.
LEMMA SendOnConn ==
  ASSUME Inv, NEW m \in Data, current # 0, SendOn(current, m)
  PROVE  LET r == conns[current]
             s == sockets[current]
             w == wire[current]
             q == [r EXCEPT !.pendingSends = Queued(@, m)]
         IN  \/ /\ r.isOpen /\ UNCHANGED <<conns, overflowed>>
                /\ wire' = [wire EXCEPT ![current] =
                              IF s = "open" THEN Append(w, m) ELSE w]
                /\ delivered' \in {delivered, Append(delivered, m)}
                /\ m = InitMsg => delivered' = delivered
             \/ /\ ~r.isOpen /\ UNCHANGED <<wire, delivered>>
                /\ conns' = [conns EXCEPT ![current] = q]
                /\ overflowed' \subseteq Data
<1>. DEFINE c == current
<1>0. /\ c \in Conns /\ conns \in [Conns -> Record] /\ wire \in [Conns -> Seq(Data)]
      /\ Len(conns[c].pendingSends) <= MaxPending /\ MaxPending \in Nat
      /\ conns[c].pendingSends \in Seq(Data) /\ overflowed \subseteq Data
  <2>1. c \in Conns /\ conns \in [Conns -> Record] /\ wire \in [Conns -> Seq(Data)]
    BY Here
  <2>2. Len(conns[c].pendingSends) <= MaxPending
    BY <2>1 DEF Inv, GoodConn, Good
  <2>. QED
    BY <2>1, <2>2, ConnectionAssumption DEF Record, Inv, Scalars
<1>1. CASE conns[c].isOpen
  BY <1>0, <1>1 DEF SendOn
<1>2. CASE ~conns[c].isOpen
  <2>1. /\ UNCHANGED <<wire, delivered>>
        /\ conns' = [conns EXCEPT ![c] =
                       [conns[c] EXCEPT !.pendingSends = Queued(@, m)]]
        /\ overflowed' = IF Len(conns[c].pendingSends) < MaxPending
                         THEN overflowed
                         ELSE overflowed \union {Head(conns[c].pendingSends)}
    BY <1>0, <1>2 DEF SendOn
  <2>2. overflowed' \subseteq Data
    <3>1. Len(conns[c].pendingSends) >= MaxPending => Head(conns[c].pendingSends) \in Data
      BY <1>0, QueuedBounded
    <3>. QED
      BY <1>0, <2>1, <3>1
  <2>. QED
    BY <1>0, <1>2, <2>1, <2>2
<1>. QED
  BY <1>1, <1>2

\* A message goes to the session's connection only: on its wire or in its queue.
LEMMA SendStep == ASSUME Inv, Send PROVE Inv'
<1>. DEFINE c == current  m == calls + 1
            r == conns[c]  s == sockets[c]  w == wire[c]
            F == eager'
<1>0. c \in Conns /\ c # 0 /\ c <= created /\ m \in Data /\ m \in 0 .. MaxCalls
      /\ m \in Msgs
  BY ConnectionAssumption DEF Inv, Scalars, Send, Conns, Data, Msgs
<1>1. /\ conns \in [Conns -> Record] /\ sockets \in [Conns -> States]
      /\ wire \in [Conns -> Seq(Data)]
      /\ Good(r, s, w, c, c, created, opening, stage, eager) /\ r \in Record /\ w \in Seq(Data)
  BY <1>0 DEF Inv, Functional, GoodConn, Good
<1>2. /\ calls' = m /\ SendOn(c, m)
      /\ UNCHANGED <<current, created, connState, sockets, opening, stage, stale>>
      /\ F = IF opening = c THEN eager \union {m} ELSE eager
  BY DEF Send, session, onOpen
<1>3. eager \subseteq F /\ F \subseteq Msgs /\ (c = opening => m \in F)
  BY <1>0, <1>2 DEF Inv, Scalars
<1>. HIDE DEF m, F
<1>4. CASE r.isOpen
  <2>. DEFINE v == IF s = "open" THEN Append(w, m) ELSE w
  <2>1. /\ UNCHANGED <<conns, overflowed>> /\ wire' = [wire EXCEPT ![c] = v]
        /\ delivered' \in {delivered, Append(delivered, m)}
    BY <1>0, <1>2, <1>4, SendOnConn
  <2>2. conns' = [conns EXCEPT ![c] = r] /\ sockets' = [sockets EXCEPT ![c] = s]
    BY <1>1, <1>2, <2>1
  <2>3. Good(r, s, v, c, c, created, opening, stage, F)
    <3>. HIDE DEF r, s, w, c
    <3>1. Good(r, s, Append(w, m), c, c, created, opening, stage, F)
      BY <1>0, <1>1, <1>3, <1>4, GoodSent
    <3>2. Good(r, s, w, c, c, created, opening, stage, F)
      BY <1>1, <1>3, GoodElsewhere
    <3>. QED
      BY <3>1, <3>2
  <2>4. Functional' /\ \A d \in Conns : GoodConn(d)'
    <3>1. UNCHANGED <<current, created, opening, stage>>
      BY <1>2
    <3>2. Good(r, s, v, c, current, created, opening', stage', eager')
      BY <2>3, <3>1 DEF F
    <3>3. eager \subseteq eager'
      BY <1>3 DEF F
    <3>. HIDE DEF r, s, v
    <3>. QED
      BY <1>0, <2>1, <2>2, <3>1, <3>2, <3>3, OneConnStep
  <2>5. delivered' \in Seq(Data)
    BY <1>0, <2>1 DEF Inv, Scalars
  <2>6. Scalars'
    BY <1>0, <1>2, <1>3, <2>1, <2>5 DEF Inv, Scalars, F
  <2>7. StateTellsTruth'
    BY <1>2, <2>1 DEF Inv, StateTellsTruth
  <2>. QED
    BY <2>4, <2>6, <2>7 DEF Inv
<1>5. CASE ~r.isOpen
  <2>. DEFINE q == [r EXCEPT !.pendingSends = Queued(@, m)]
  <2>1. /\ conns' = [conns EXCEPT ![c] = q] /\ overflowed' \subseteq Data
        /\ UNCHANGED <<wire, delivered>>
    BY <1>0, <1>2, <1>5, SendOnConn
  <2>2. sockets' = [sockets EXCEPT ![c] = s] /\ wire' = [wire EXCEPT ![c] = w]
    BY <1>1, <1>2, <2>1
  <2>3. Good(q, s, w, c, c, created, opening, stage, eager) /\ c # opening
    <3>. HIDE DEF c, s, w, r
    <3>. QED
      BY <1>0, <1>1, <1>5, GoodQueued
  <2>4. q.isOpen = r.isOpen
    BY <1>1 DEF Record
  <2>. HIDE DEF q
  <2>5. Functional' /\ (\A d \in Conns : GoodConn(d)') /\ conns'[c] = q
    <3>1. UNCHANGED <<current, created, opening, stage, eager>>
      BY <1>2, <2>3 DEF F
    <3>2. Good(q, s, w, c, current, created, opening', stage', eager')
      BY <2>3, <3>1
    <3>. HIDE DEF r, s, w
    <3>. QED
      BY <1>0, <2>1, <2>2, <3>1, <3>2, OneConnStep
  <2>6. Scalars'
    BY <1>0, <1>2, <1>3, <2>1 DEF Inv, Scalars, F
  <2>7. StateTellsTruth'
    BY <1>2, <2>4, <2>5 DEF Inv, StateTellsTruth
  <2>. QED
    BY <2>5, <2>6, <2>7 DEF Inv
<1>. QED
  BY <1>4, <1>5

\* A socket opens: onOpen begins.
LEMMA OpenBeginsStep == ASSUME Inv, NEW c \in Conns, OpenBegins(c) PROVE Inv'
<1>. DEFINE q == Opened(conns[c])
<1>0. /\ Good(conns[c], "connecting", wire[c], c, current, created, opening, stage, eager)
      /\ conns \in [Conns -> Record] /\ wire \in [Conns -> Seq(Data)]
      /\ \A d \in Conns : d # opening
  <2>1. stage = "idle" /\ sockets[c] = "connecting"
    BY DEF OpenBegins
  <2>. QED
    BY <2>1, Here DEF Inv, GoodConn
<1>1. /\ sockets' = [sockets EXCEPT ![c] = "open"] /\ conns' = [conns EXCEPT ![c] = q]
      /\ wire' = [wire EXCEPT ![c] = wire[c]]
      /\ opening' = c /\ stage' = "state listener"
      /\ UNCHANGED <<current, created, connState, calls, delivered, eager, overflowed, stale>>
  BY <1>0 DEF OpenBegins, session, history
<1>2. Good(q, "open", wire[c], c, current, created, c, "state listener", eager) /\ q.isOpen
  BY <1>0, GoodOpened
<1>. HIDE DEF q
<1>3. Functional' /\ (\A d \in Conns : GoodConn(d)') /\ conns'[c] = q
      /\ \A d \in Conns \ {c} : conns'[d] = conns[d]
  BY <1>0, <1>1, <1>2, OneConnStep
<1>4. c <= created
  BY <1>0 DEF Good, Owned
<1>5. Scalars'
  <2>1. c \in 0 .. created /\ c # 0
    BY <1>4, ConnectionAssumption DEF Conns, Inv, Scalars
  <2>. QED
    BY <1>1, <2>1 DEF Inv, Scalars, Stages
<1>6. StateTellsTruth'
  <2>1. current # 0 => current \in Conns
    BY Here
  <2>2. ~conns[c].isOpen
    BY <1>0 DEF Good, OnWire
  <2>3. current = c \/ current = 0 \/ (conns'[current] = conns[current] /\ current # opening)
    BY <1>0, <1>3, <2>1
  <2>. QED
    BY <1>1, <2>2, <2>3 DEF Inv, StateTellsTruth
<1>. QED
  BY <1>3, <1>5, <1>6 DEF Inv

\* A step of onOpen that changes no connection.
LEMMA NoConnStep ==
  ASSUME Inv, UNCHANGED <<current, created, opening, eager, conns, sockets, wire>>,
         stage' # "flush" \/ current = 0
  PROVE  Functional' /\ \A d \in Conns : GoodConn(d)'
<1>1. Functional'
  BY DEF Inv, Functional
<1>2. ASSUME NEW d \in Conns PROVE GoodConn(d)'
  <2>1. Good(conns[d], sockets[d], wire[d], d, current, created, opening, stage, eager)
        /\ d # 0
    BY Here DEF Inv, GoodConn
  <2>2. Good(conns[d], sockets[d], wire[d], d, current, created, opening, stage', eager)
    BY <2>1, GoodElsewhere
  <2>. QED
    BY <2>2 DEF GoodConn
<1>. QED
  BY <1>1, <1>2

\* The state is the session's own, or stale.
LEMMA StateListenerStep == ASSUME Inv, StateListener PROVE Inv'
<1>1. /\ stage = "state listener" /\ stage' = "init listener" /\ connState' = "connected"
      /\ stale' = (stale \/ current # opening)
      /\ UNCHANGED <<current, created, opening, eager, conns, sockets, wire, calls,
                     delivered, overflowed>>
  BY DEF StateListener
<1>2. Functional' /\ \A d \in Conns : GoodConn(d)'
  BY <1>1, NoConnStep
<1>3. Scalars'
  BY <1>1 DEF Inv, Scalars, Stages
<1>4. StateTellsTruth'
  <2>1. opening # 0 /\ opening \in Conns
    BY <1>1, Here DEF Inv, Scalars
  <2>2. current = opening => conns[current].isOpen
    BY <2>1 DEF Inv, GoodConn, Good, Owned, OnWire
  <2>. QED
    BY <1>1, <2>1, <2>2 DEF StateTellsTruth
<1>. QED
  BY <1>2, <1>3, <1>4 DEF Inv

\* The init messages go to the session's connection, or nowhere.
LEMMA InitListenerStep == ASSUME Inv, InitListener PROVE Inv'
<1>. DEFINE c == current
            r == conns[c]  s == sockets[c]  w == wire[c]
<1>1. /\ stage = "init listener" /\ stage' = "flush"
      /\ UNCHANGED <<current, created, connState, sockets, calls, opening, eager, stale>>
      /\ IF c = 0 THEN UNCHANGED <<conns, wire, delivered, overflowed>>
                  ELSE SendOn(c, InitMsg)
  BY DEF InitListener, session
<1>2. InitMsg \in Data
  BY DEF Data
<1>3. CASE c = 0
  <2>1. UNCHANGED <<conns, wire, delivered, overflowed>>
    BY <1>1, <1>3
  <2>2. Functional' /\ \A d \in Conns : GoodConn(d)'
    BY <1>1, <1>3, <2>1, NoConnStep
  <2>3. Scalars'
    BY <1>1, <2>1 DEF Inv, Scalars, Stages
  <2>4. StateTellsTruth'
    BY <1>1, <1>3, <2>1 DEF Inv, StateTellsTruth
  <2>. QED
    BY <2>2, <2>3, <2>4 DEF Inv
<1>4. CASE c # 0
  <2>0. /\ c \in Conns /\ c <= created
        /\ conns \in [Conns -> Record] /\ sockets \in [Conns -> States]
        /\ wire \in [Conns -> Seq(Data)]
        /\ Good(r, s, w, c, c, created, opening, "init listener", eager)
    BY <1>1, <1>4, Here DEF Inv, GoodConn
  <2>a. SendOn(current, InitMsg) /\ current # 0
    BY <1>1, <1>4
  <2>1. CASE r.isOpen
    <3>. DEFINE v == IF s = "open" THEN Append(w, InitMsg) ELSE w
    <3>1. /\ UNCHANGED <<conns, overflowed, delivered>> /\ wire' = [wire EXCEPT ![c] = v]
      BY <1>2, <2>a, <2>1, SendOnConn
    <3>2. conns' = [conns EXCEPT ![c] = r] /\ sockets' = [sockets EXCEPT ![c] = s]
      BY <1>1, <2>0, <3>1
    <3>3. Good(r, s, v, c, c, created, opening, "flush", eager)
      <4>. HIDE DEF r, s, w, c
      <4>. QED
        BY <2>0, <2>1, GoodGreeted
    <3>4. Functional' /\ \A d \in Conns : GoodConn(d)'
      <4>1. Good(r, s, v, c, current, created, opening', stage', eager')
        BY <1>1, <3>3
      <4>2. /\ UNCHANGED <<current, created, opening>> /\ eager \subseteq eager'
            /\ \A d \in Conns \ {c} : d # current
        BY <1>1
      <4>. HIDE DEF r, s, v
      <4>. QED
        BY <2>0, <3>1, <3>2, <4>1, <4>2, OneConnStep
    <3>5. Scalars'
      BY <1>1, <3>1 DEF Inv, Scalars, Stages
    <3>6. StateTellsTruth'
      BY <1>1, <3>1 DEF Inv, StateTellsTruth
    <3>. QED
      BY <3>4, <3>5, <3>6 DEF Inv
  <2>2. CASE ~r.isOpen
    <3>. DEFINE q == [r EXCEPT !.pendingSends = Queued(@, InitMsg)]
    <3>1. /\ conns' = [conns EXCEPT ![c] = q] /\ overflowed' \subseteq Data
          /\ UNCHANGED <<wire, delivered>>
      BY <1>2, <2>a, <2>2, SendOnConn
    <3>2. sockets' = [sockets EXCEPT ![c] = s] /\ wire' = [wire EXCEPT ![c] = w]
      BY <1>1, <2>0, <3>1
    <3>3. Good(q, s, w, c, c, created, opening, "init listener", eager) /\ c # opening
      <4>. HIDE DEF c, s, w, r
      <4>. QED
        BY <1>2, <2>0, <2>2, GoodQueued
    <3>4. q.isOpen = r.isOpen
      BY <2>0 DEF Record
    <3>. HIDE DEF q
    <3>5. Functional' /\ (\A d \in Conns : GoodConn(d)') /\ conns'[c] = q
      <4>. HIDE DEF r, s, w
      <4>1. Good(q, s, w, c, c, created, opening, "flush", eager)
        BY <3>3, GoodElsewhere
      <4>2. Good(q, s, w, c, current, created, opening', stage', eager')
        BY <1>1, <4>1
      <4>3. /\ UNCHANGED <<current, created, opening>> /\ eager \subseteq eager'
            /\ \A d \in Conns \ {c} : d # current
        BY <1>1
      <4>. QED
        BY <2>0, <3>1, <3>2, <4>2, <4>3, OneConnStep
    <3>6. Scalars'
      BY <1>1, <3>1 DEF Inv, Scalars, Stages
    <3>7. StateTellsTruth'
      BY <1>1, <3>3, <3>4, <3>5, <2>2 DEF Inv, StateTellsTruth
    <3>. QED
      BY <3>5, <3>6, <3>7 DEF Inv
  <2>. QED
    BY <2>1, <2>2
<1>. QED
  BY <1>3, <1>4

\* The connection that opened flushes its queue, unless it was closed meanwhile.
LEMMA FlushStep == ASSUME Inv, Flush PROVE Inv'
<1>. DEFINE c == opening
            q == Emptied(conns[c])
            v == wire[c] \o (IF conns[c].isOpen THEN conns[c].pendingSends ELSE <<>>)
<1>0. /\ c \in Conns /\ c # 0 /\ c <= created /\ 0 \notin Conns
      /\ Good(conns[c], sockets[c], wire[c], c, current, created, c, "flush", eager)
      /\ conns \in [Conns -> Record] /\ sockets \in [Conns -> States]
      /\ wire \in [Conns -> Seq(Data)]
  <2>1. stage = "flush" /\ opening # 0
    BY DEF Flush, Inv, Scalars
  <2>. QED
    BY <2>1, Here DEF Inv, GoodConn
<1>1. /\ stage' = "idle" /\ opening' = 0
      /\ conns' = [conns EXCEPT ![c] = q] /\ sockets' = [sockets EXCEPT ![c] = sockets[c]]
      /\ wire' = [wire EXCEPT ![c] = v]
      /\ delivered' = delivered \o Flushed(c)
      /\ UNCHANGED <<current, created, connState, calls, eager, overflowed, stale>>
  BY <1>0 DEF Flush, Flushed, session
<1>2. Good(q, sockets[c], v, c, current, created, 0, "idle", eager)
      /\ q.isOpen = conns[c].isOpen
  <2>. HIDE DEF c
  <2>. QED
    BY <1>0, GoodFlushed
<1>. HIDE DEF q, v
<1>3. Functional' /\ (\A d \in Conns : GoodConn(d)') /\ conns'[c] = q
      /\ \A d \in Conns \ {c} : conns'[d] = conns[d]
  <2>1. \A d \in Conns \ {c} : d # opening /\ d # opening'
    BY <1>0, <1>1
  <2>2. Good(q, sockets[c], v, c, current, created, opening', stage', eager')
    BY <1>1, <1>2
  <2>3. UNCHANGED <<current, created>> /\ eager \subseteq eager'
    BY <1>1
  <2>4. /\ conns' = [conns EXCEPT ![c] = q] /\ sockets' = [sockets EXCEPT ![c] = sockets[c]]
        /\ wire' = [wire EXCEPT ![c] = v]
    BY <1>1
  <2>. QED
    BY <1>0, <2>1, <2>2, <2>3, <2>4, OneConnStep
<1>4. Scalars'
  <2>1. Flushed(c) \in Seq(Data)
    BY <1>0 DEF Flushed, Record
  <2>2. delivered' \in Seq(Data)
    BY <1>1, <2>1 DEF Inv, Scalars
  <2>3. 0 \in 0 .. created
    BY DEF Inv, Scalars
  <2>. QED
    BY <1>1, <2>2, <2>3 DEF Inv, Scalars, Stages
<1>5. StateTellsTruth'
  <2>1. current # 0 => current \in Conns
    BY Here
  <2>2. current # 0 => conns'[current].isOpen = conns[current].isOpen
    BY <1>2, <1>3, <2>1
  <2>3. stage = "flush"
    BY DEF Flush
  <2>. QED
    BY <1>1, <2>2, <2>3 DEF Inv, StateTellsTruth
<1>. QED
  BY <1>3, <1>4, <1>5 DEF Inv

-----------------------------------------------------------------------------
(* The theorems.                                                           *)

LEMMA StepInv == Inv /\ [Next]_vars => Inv'
<1>. SUFFICES ASSUME Inv, [Next]_vars PROVE Inv'
  OBVIOUS
<1>1. CASE Connect
  BY <1>1, ConnectStep
<1>2. CASE Send
  BY <1>2, SendStep
<1>3. CASE CloseSession
  BY <1>3, CloseSessionStep
<1>4. CASE StateListener \/ InitListener \/ Flush
  BY <1>4, StateListenerStep, InitListenerStep, FlushStep
<1>5. ASSUME NEW c \in Conns, UrlReady(c) \/ UrlFailed(c) \/ TimerFires(c) \/ Drops(c)
      PROVE  Inv'
  BY <1>5, QuietSteps
<1>6. ASSUME NEW c \in Conns, OpenBegins(c) PROVE Inv'
  BY <1>6, OpenBeginsStep
<1>7. ASSUME NEW c \in Conns, DialFails(c) \/ CloseEvent(c) PROVE Inv'
  BY <1>7, ClosedStep
<1>8. CASE UNCHANGED vars
  BY <1>8 DEF vars, session, onOpen, history, Inv, Functional, Scalars, StateTellsTruth,
              GoodConn
<1>. QED
  BY <1>1, <1>2, <1>3, <1>4, <1>5, <1>6, <1>7, <1>8 DEF Next

\* What TypeOK says of the connections, and what the other properties need.
THEOREM InvHolds == Spec => []Inv
<1>. QED
  BY InitInv, StepInv, PTL DEF Spec

\* Types are kept: the queue never exceeds maxPendingSends, and the retries
\* never their budget, over any number of connections and reconnections.
THEOREM TypeCorrectness == Spec => []TypeOK
<1>1. Inv => TypeOK
  <2>. SUFFICES ASSUME Inv PROVE TypeOK
    OBVIOUS
  <2>1. \A c \in Conns : Len(conns[c].pendingSends) <= MaxPending
    BY DEF Inv, GoodConn, Good
  <2>2. Functional /\ Scalars
    BY DEF Inv
  <2>. QED
    BY <2>1, <2>2 DEF TypeOK, Functional, Scalars, Record, States, Data
<1>. QED
  BY <1>1, InvHolds, PTL

\* A connection is never fetching a ticket, waiting for a retry and holding a
\* socket at once, and stops trying only when closed or out of retries.
THEOREM OneAttemptHolds == Spec => []OneAttempt
<1>1. Inv => OneAttempt
  <2>. SUFFICES ASSUME Inv, NEW c \in Conns
                PROVE  /\ \A x, y \in Pursuits(c) : x = y
                       /\ (c <= created /\ ~conns[c].closedByUser /\ Pursuits(c) = {}) =>
                            conns[c].attempts = MaxRetries
    BY DEF OneAttempt
  <2>1. Attempts(conns[c], sockets[c], c, created)
    BY DEF Inv, GoodConn, Good
  <2>2. /\ "fetching" \in Pursuits(c) <=> conns[c].fetching
        /\ "timer" \in Pursuits(c) <=> conns[c].timer
        /\ "socket" \in Pursuits(c) <=> sockets[c] \in Live
        /\ Pursuits(c) \subseteq {"fetching", "timer", "socket"}
    BY DEF Pursuits
  <2>. QED
    BY <2>1, <2>2 DEF Attempts
<1>. QED
  BY <1>1, InvHolds, PTL

\* On every socket of every connection the agent hears the session's init
\* messages before anything of the caller but what its callbacks send during
\* the opening itself.
THEOREM SessionInitFirstHolds == Spec => []SessionInitFirst
<1>1. Inv => SessionInitFirst
  BY DEF Inv, GoodConn, Good, OnWire, Prefixed, SessionInitFirst
<1>. QED
  BY <1>1, InvHolds, PTL

\* The state the SDK shows is that of the session's own connection, as long as
\* no connection it let go of has spoken up.
THEOREM StateTellsTruthHolds == Spec => []StateTellsTruth
<1>1. Inv => StateTellsTruth
  BY DEF Inv
<1>. QED
  BY <1>1, InvHolds, PTL
-----------------------------------------------------------------------------
(* Order.  That nothing overtakes needs to know what is still queued: it   *)
(* rises, is younger than all that was delivered but what callbacks sent   *)
(* in an opening, and no message is numbered higher than the last call.    *)

\* What stands earlier is smaller, or is one of E and another.
Below(a, b, E) == InitMsg \notin {a, b} => (a < b \/ (a \in E /\ a # b))

Rising(s, E) == \A i, j \in DOMAIN s : i < j => Below(s[i], s[j], E)

Ahead(d, q, E) == \A i \in DOMAIN d, j \in DOMAIN q : Below(d[i], q[j], E)

UpTo(s, n) == \A i \in DOMAIN s : s[i] <= n

Ordered(d, q, n, E) ==
  Rising(d, E) /\ Rising(q, {}) /\ Ahead(d, q, E) /\ UpTo(d, n) /\ UpTo(q, n)

\* The strengthening of InOrderOnce.
InOrder ==
  /\ Ordered(delivered, <<>>, calls, eager)
  /\ \A c \in Conns : Ordered(delivered, conns[c].pendingSends, calls, eager)

\* A new message, or an init message, keeps the order of the queue, also when
\* the head is cut.
LEMMA OrderedQueued ==
  ASSUME NEW d \in Seq(Nat), NEW q \in Seq(Nat), NEW n \in Nat, NEW k \in Nat,
         NEW m \in Nat, NEW E, Ordered(d, q, n, E),
         (m = InitMsg /\ k = n) \/ (m = n + 1 /\ k = n + 1)
  PROVE  Ordered(d, Queued(q, m), k, E)
<1>0. MaxPending \in Nat /\ MaxPending >= 1
  BY ConnectionAssumption
<1>1. PICK p \in Seq(Nat) :
        /\ Queued(q, m) = Append(p, m)
        /\ \/ p = q
           \/ q # <<>> /\ p = Tail(q)
  <2>1. CASE Len(q) < MaxPending
    BY <2>1 DEF Queued
  <2>2. CASE ~(Len(q) < MaxPending)
    <3>1. q # <<>> /\ Tail(q) \in Seq(Nat)
      BY <1>0, <2>2
    <3>. QED
      BY <2>2, <3>1 DEF Queued
  <2>. QED
    BY <2>1, <2>2
<1>2. Ordered(d, p, n, E)
  <2>1. CASE p = q
    BY <2>1
  <2>2. CASE q # <<>> /\ p = Tail(q)
    <3>1. Len(q) \in Nat /\ Len(q) >= 1 /\ Len(p) = Len(q) - 1
          /\ \A i \in 1 .. Len(p) : i + 1 \in 1 .. Len(q) /\ p[i] = q[i + 1]
      BY <2>2
    <3>2. DOMAIN p = 1 .. Len(p) /\ DOMAIN q = 1 .. Len(q)
      OBVIOUS
    <3>3. Rising(p, {})
      <4>. SUFFICES ASSUME NEW i \in 1 .. Len(p), NEW j \in 1 .. Len(p), i < j
                    PROVE  Below(p[i], p[j], {})
        BY <3>2 DEF Rising
      <4>1. i + 1 \in 1 .. Len(q) /\ p[i] = q[i + 1]
        BY <3>1
      <4>2. j + 1 \in 1 .. Len(q) /\ p[j] = q[j + 1]
        BY <3>1
      <4>3. i + 1 < j + 1
        OBVIOUS
      <4>4. Rising(q, {})
        BY DEF Ordered
      <4>. QED
        BY <3>2, <4>1, <4>2, <4>3, <4>4 DEF Rising
    <3>4. Ahead(d, p, E)
      BY <3>1, <3>2 DEF Ordered, Ahead
    <3>5. UpTo(p, n)
      BY <3>1, <3>2 DEF Ordered, UpTo
    <3>. QED
      BY <3>3, <3>4, <3>5 DEF Ordered
  <2>. QED
    BY <1>1, <2>1, <2>2
<1>3. LET a == Append(p, m)
      IN /\ DOMAIN a = 1 .. Len(p) + 1 /\ DOMAIN p = 1 .. Len(p) /\ Len(p) \in Nat
         /\ \A i \in 1 .. Len(p) : a[i] = p[i] /\ p[i] \in Nat
         /\ a[Len(p) + 1] = m
  OBVIOUS
<1>4. \A i \in DOMAIN d : d[i] \in Nat
  OBVIOUS
<1>. DEFINE a == Append(p, m)
<1>. HIDE DEF a
<1>5. Rising(a, {})
  <2>. SUFFICES ASSUME NEW i \in DOMAIN a, NEW j \in DOMAIN a, i < j
                PROVE  Below(a[i], a[j], {})
    BY DEF Rising
  <2>1. i \in 1 .. Len(p) /\ a[i] = p[i] /\ p[i] \in Nat
    BY <1>3 DEF a
  <2>2. CASE j \in 1 .. Len(p)
    BY <1>2, <1>3, <2>1, <2>2 DEF Ordered, Rising, a
  <2>3. CASE j = Len(p) + 1
    <3>1. a[j] = m /\ p[i] <= n
      BY <1>2, <1>3, <2>1, <2>3 DEF Ordered, UpTo, a
    <3>. QED
      BY <2>1, <3>1 DEF Below
  <2>. QED
    BY <1>3, <2>2, <2>3 DEF a
<1>6. Ahead(d, a, E)
  <2>. SUFFICES ASSUME NEW i \in DOMAIN d, NEW j \in DOMAIN a
                PROVE  Below(d[i], a[j], E)
    BY DEF Ahead
  <2>1. CASE j \in 1 .. Len(p)
    BY <1>2, <1>3, <2>1 DEF Ordered, Ahead, a
  <2>2. CASE j = Len(p) + 1
    <3>1. a[j] = m /\ d[i] <= n /\ d[i] \in Nat
      BY <1>2, <1>3, <1>4, <2>2 DEF Ordered, UpTo, a
    <3>. QED
      BY <3>1 DEF Below
  <2>. QED
    BY <1>3, <2>1, <2>2 DEF a
<1>7. UpTo(d, k)
  BY <1>2, <1>4 DEF Ordered, UpTo
<1>8. UpTo(a, k)
  BY <1>2, <1>3 DEF Ordered, UpTo, InitMsg, a
<1>9. Rising(d, E)
  BY DEF Ordered
<1>. QED
  BY <1>1, <1>5, <1>6, <1>7, <1>8, <1>9 DEF Ordered, a

\* A message sent directly follows all others that went out, and passes those
\* that wait only as one of E.
LEMMA OrderedSent ==
  ASSUME NEW d \in Seq(Nat), NEW q \in Seq(Nat), NEW n \in Nat, NEW E, NEW F,
         Ordered(d, q, n, E), E \subseteq F, q = <<>> \/ n + 1 \in F
  PROVE  Ordered(Append(d, n + 1), q, n + 1, F) /\ Ordered(d, q, n + 1, F)
<1>1. LET a == Append(d, n + 1)
      IN /\ DOMAIN a = 1 .. Len(d) + 1 /\ DOMAIN d = 1 .. Len(d) /\ Len(d) \in Nat
         /\ \A i \in 1 .. Len(d) : a[i] = d[i] /\ d[i] \in Nat
         /\ a[Len(d) + 1] = n + 1
  OBVIOUS
<1>. DEFINE a == Append(d, n + 1)
<1>. HIDE DEF a
<1>2. UpTo(d, n) /\ Rising(d, F) /\ Ahead(d, q, F) /\ UpTo(q, n) /\ Rising(q, {})
  BY DEF Ordered, Rising, Ahead, Below
<1>3. UpTo(d, n + 1) /\ UpTo(a, n + 1) /\ UpTo(q, n + 1)
  <2>1. \A i \in DOMAIN q : q[i] \in Nat
    OBVIOUS
  <2>. QED
    BY <1>1, <1>2, <2>1 DEF UpTo, a
<1>4. Rising(a, F)
  <2>. SUFFICES ASSUME NEW i \in DOMAIN a, NEW j \in DOMAIN a, i < j
                PROVE  Below(a[i], a[j], F)
    BY DEF Rising
  <2>1. i \in 1 .. Len(d) /\ a[i] = d[i] /\ d[i] \in Nat
    BY <1>1 DEF a
  <2>2. CASE j \in 1 .. Len(d)
    BY <1>1, <1>2, <2>1, <2>2 DEF Rising, a
  <2>3. CASE j = Len(d) + 1
    <3>1. a[j] = n + 1 /\ d[i] <= n
      BY <1>1, <1>2, <2>1, <2>3 DEF UpTo, a
    <3>. QED
      BY <2>1, <3>1 DEF Below
  <2>. QED
    BY <1>1, <2>2, <2>3 DEF a
<1>5. Ahead(a, q, F)
  <2>. SUFFICES ASSUME NEW i \in DOMAIN a, NEW j \in DOMAIN q
                PROVE  Below(a[i], q[j], F)
    BY DEF Ahead
  <2>1. CASE i \in 1 .. Len(d)
    BY <1>1, <1>2, <2>1 DEF Ahead, a
  <2>2. CASE i = Len(d) + 1
    <3>1. a[i] = n + 1 /\ q[j] <= n /\ q[j] \in Nat /\ n + 1 \in F
      BY <1>1, <1>2, <2>2 DEF UpTo, a
    <3>. QED
      BY <3>1 DEF Below
  <2>. QED
    BY <1>1, <2>1, <2>2 DEF a
<1>. QED
  BY <1>2, <1>3, <1>4, <1>5 DEF Ordered, a

\* The flush puts the queue behind what was delivered.
LEMMA OrderedFlushed ==
  ASSUME NEW d \in Seq(Nat), NEW q \in Seq(Nat), NEW n \in Nat, NEW E,
         Ordered(d, q, n, E)
  PROVE  Ordered(d \o q, <<>>, n, E)
<1>. DEFINE a == d \o q
<1>1. /\ DOMAIN a = 1 .. (Len(d) + Len(q)) /\ Len(d) \in Nat /\ Len(q) \in Nat
      /\ DOMAIN d = 1 .. Len(d) /\ DOMAIN q = 1 .. Len(q)
      /\ \A i \in 1 .. Len(d) : a[i] = d[i] /\ d[i] \in Nat
      /\ \A i \in DOMAIN a : ~(i <= Len(d)) =>
           i - Len(d) \in 1 .. Len(q) /\ a[i] = q[i - Len(d)]
  OBVIOUS
<1>. HIDE DEF a
<1>2. Rising(a, E)
  <2>. SUFFICES ASSUME NEW i \in DOMAIN a, NEW j \in DOMAIN a, i < j
                PROVE  Below(a[i], a[j], E)
    BY DEF Rising
  <2>1. CASE j <= Len(d)
    <3>1. i \in DOMAIN d /\ j \in DOMAIN d /\ a[i] = d[i] /\ a[j] = d[j]
      BY <1>1, <2>1
    <3>. QED
      BY <3>1 DEF Ordered, Rising
  <2>2. CASE i <= Len(d) /\ ~(j <= Len(d))
    BY <1>1, <2>2 DEF Ordered, Ahead
  <2>3. CASE ~(i <= Len(d))
    <3>1. ~(j <= Len(d))
      BY <1>1, <2>3
    <3>2. /\ i - Len(d) \in DOMAIN q /\ j - Len(d) \in DOMAIN q
          /\ a[i] = q[i - Len(d)] /\ a[j] = q[j - Len(d)]
      BY <1>1, <2>3, <3>1
    <3>3. i - Len(d) < j - Len(d)
      BY <1>1
    <3>4. Below(a[i], a[j], {})
      BY <3>2, <3>3 DEF Ordered, Rising
    <3>. QED
      BY <3>4 DEF Below
  <2>. QED
    BY <1>1, <2>1, <2>2, <2>3
<1>3. UpTo(a, n)
  <2>. SUFFICES ASSUME NEW i \in DOMAIN a PROVE a[i] <= n
    BY DEF UpTo
  <2>1. CASE i <= Len(d)
    BY <1>1, <2>1 DEF Ordered, UpTo
  <2>2. CASE ~(i <= Len(d))
    BY <1>1, <2>2 DEF Ordered, UpTo
  <2>. QED
    BY <2>1, <2>2
<1>. QED
  BY <1>2, <1>3 DEF Ordered, Rising, Ahead, UpTo, a

\* Only the session's connection can have a queue, and only while it is down or
\* before the flush of its opening.
LEMMA OthersEmpty ==
  ASSUME Inv, NEW c \in Conns, c # current \/ (conns[c].isOpen /\ c # opening)
  PROVE  conns[c].pendingSends = <<>>
<1>1. /\ Owned(conns[c], sockets[c], wire[c], c, current, created)
      /\ QueueOnlyWhileDown(conns[c], c, opening)
  BY DEF Inv, GoodConn, Good
<1>. QED
  BY <1>1 DEF Owned, QueueOnlyWhileDown, Unused, Fresh

\* While the session's connection is opening, it is open.
LEMMA AjarIsOpen ==
  ASSUME Inv, current # 0, opening = current
  PROVE  conns[current].isOpen
<1>1. current \in Conns
  BY Here
<1>. QED
  BY <1>1 DEF Inv, GoodConn, Good, Owned, OnWire

\* What scheduling a retry leaves alone.
LEMMA ScheduledQueue ==
  ASSUME NEW conn \in Record
  PROVE  Scheduled(conn).pendingSends = conn.pendingSends
BY DEF Scheduled, Record

\* Messages are numbers.
LEMMA Numbers ==
  ASSUME Inv
  PROVE  /\ calls \in Nat /\ calls + 1 \in Nat /\ InitMsg \in Nat
         /\ calls < MaxCalls => calls + 1 \in Data
         /\ InitMsg \in Data /\ calls + 1 # InitMsg
         /\ delivered \in Seq(Nat) /\ Data \subseteq Nat
         /\ \A e \in Conns : conns[e].pendingSends \in Seq(Nat)
<1>1. Data \subseteq Nat /\ Seq(Data) \subseteq Seq(Nat)
  BY ConnectionAssumption DEF Data, Msgs, InitMsg
<1>2. conns \in [Conns -> Record] /\ delivered \in Seq(Data) /\ calls \in 0 .. MaxCalls
  BY DEF Inv, Functional, Scalars
<1>3. \A e \in Conns : conns[e].pendingSends \in Seq(Data)
  BY <1>2 DEF Record
<1>4. /\ calls \in Nat /\ calls + 1 \in Nat /\ InitMsg \in Nat /\ InitMsg \in Data
      /\ calls < MaxCalls => calls + 1 \in Data
      /\ calls + 1 # InitMsg
  BY <1>2, ConnectionAssumption DEF Data, Msgs, InitMsg
<1>. QED
  BY <1>1, <1>2, <1>3, <1>4

LEMMA SendOrder == ASSUME Inv, InOrder, Send PROVE InOrder'
<1>. DEFINE c == current
            q(e) == conns[e].pendingSends
<1>0. /\ c # 0 /\ c \in Conns /\ conns \in [Conns -> Record] /\ calls < MaxCalls
      /\ calls' = calls + 1 /\ SendOn(c, calls + 1)
      /\ eager' = IF opening = c THEN eager \union {calls + 1} ELSE eager
  <2>1. c # 0 /\ calls < MaxCalls /\ calls' = calls + 1 /\ SendOn(c, calls + 1)
        /\ eager' = IF opening = c THEN eager \union {calls + 1} ELSE eager
    BY DEF Send
  <2>. QED
    BY <2>1, Here
<1>1. /\ calls \in Nat /\ calls + 1 \in Nat /\ calls + 1 \in Data /\ delivered \in Seq(Nat)
      /\ \A e \in Conns : q(e) \in Seq(Nat)
  BY <1>0, Numbers
<1>2. \A e \in Conns : e # c => q(e) = <<>>
  BY OthersEmpty
<1>3. /\ Ordered(delivered, <<>>, calls, eager)
      /\ \A e \in Conns : Ordered(delivered, q(e), calls, eager)
      /\ <<>> \in Seq(Nat)
  BY DEF InOrder
<1>4. eager \subseteq eager'
  BY <1>0
<1>. DEFINE d == Append(delivered, calls + 1)
<1>5. Ordered(delivered, <<>>, calls + 1, eager') /\ Ordered(d, <<>>, calls + 1, eager')
  BY <1>1, <1>3, <1>4, OrderedSent
<1>6. CASE conns[c].isOpen
  <2>1. UNCHANGED conns /\ delivered' \in {delivered, d}
    BY <1>0, <1>1, <1>6, SendOnConn
  <2>2. ASSUME NEW e \in Conns
        PROVE  /\ Ordered(delivered, q(e), calls + 1, eager')
               /\ Ordered(d, q(e), calls + 1, eager')
    <3>1. q(e) = <<>> \/ opening = c
      BY <1>2, <1>6, OthersEmpty
    <3>2. q(e) = <<>> \/ calls + 1 \in eager'
      BY <1>0, <3>1
    <3>3. q(e) \in Seq(Nat) /\ Ordered(delivered, q(e), calls, eager)
      BY <1>1, <1>3
    <3>. HIDE DEF q
    <3>. QED
      BY <1>1, <1>4, <3>2, <3>3, OrderedSent
  <2>3. \A e \in Conns : conns'[e].pendingSends = q(e)
    BY <2>1
  <2>. HIDE DEF q, d
  <2>. QED
    BY <1>0, <1>5, <2>1, <2>2, <2>3 DEF InOrder
<1>7. CASE ~conns[c].isOpen
  <2>1. /\ conns' = [conns EXCEPT ![c] = [conns[c] EXCEPT !.pendingSends =
                                            Queued(@, calls + 1)]]
        /\ delivered' = delivered
    BY <1>0, <1>1, <1>7, SendOnConn
  <2>2. /\ conns'[c].pendingSends = Queued(q(c), calls + 1)
        /\ \A e \in Conns : e # c => conns'[e] = conns[e]
    BY <1>0, <2>1 DEF Record
  <2>3. eager' = eager
    BY <1>0, <1>7, AjarIsOpen
  <2>4. Ordered(delivered, Queued(q(c), calls + 1), calls + 1, eager)
    BY <1>0, <1>1, <1>3, OrderedQueued
  <2>5. \A e \in Conns : e # c => conns'[e].pendingSends = <<>>
    BY <1>2, <2>2
  <2>. QED
    BY <1>0, <1>5, <2>1, <2>2, <2>3, <2>4, <2>5 DEF InOrder
<1>. QED
  BY <1>6, <1>7

LEMMA InitListenerOrder == ASSUME Inv, InOrder, InitListener PROVE InOrder'
<1>. DEFINE c == current
<1>0. calls' = calls /\ eager' = eager
  BY DEF InitListener
<1>1. CASE c = 0 \/ conns[c].isOpen
  <2>1. delivered' = delivered /\ conns' = conns
    <3>1. CASE c = 0
      BY <3>1 DEF InitListener
    <3>2. CASE c # 0
      <4>1. SendOn(current, InitMsg) /\ InitMsg \in Data /\ conns[current].isOpen
        BY <1>1, <3>2, Numbers DEF InitListener
      <4>. QED
        BY <3>2, <4>1, SendOnConn
    <3>. QED
      BY <3>1, <3>2
  <2>. QED
    BY <1>0, <2>1 DEF InOrder
<1>2. CASE c # 0 /\ ~conns[c].isOpen
  <2>0. c \in Conns /\ conns \in [Conns -> Record] /\ SendOn(current, InitMsg)
    BY <1>2, Here DEF InitListener
  <2>1. /\ conns' = [conns EXCEPT ![c] = [conns[c] EXCEPT !.pendingSends =
                                            Queued(@, InitMsg)]]
        /\ delivered' = delivered
    BY <1>2, <2>0, Numbers, SendOnConn
  <2>2. /\ conns'[c].pendingSends = Queued(conns[c].pendingSends, InitMsg)
        /\ \A e \in Conns : e # c => conns'[e] = conns[e]
    BY <2>0, <2>1 DEF Record
  <2>3. Ordered(delivered, Queued(conns[c].pendingSends, InitMsg), calls, eager)
    <3>1. conns[c].pendingSends \in Seq(Nat)
          /\ Ordered(delivered, conns[c].pendingSends, calls, eager)
      BY <2>0, Numbers DEF InOrder
    <3>. QED
      BY <3>1, Numbers, OrderedQueued
  <2>. QED
    BY <1>0, <2>1, <2>2, <2>3 DEF InOrder
<1>. QED
  BY <1>1, <1>2

LEMMA FlushOrder == ASSUME Inv, InOrder, Flush PROVE InOrder'
<1>. DEFINE c == opening
<1>0. /\ c # 0 /\ c \in Conns /\ conns \in [Conns -> Record]
      /\ calls' = calls /\ eager' = eager
      /\ delivered' = delivered \o Flushed(c)
      /\ conns' = [conns EXCEPT ![c] = Emptied(@)]
  BY Here DEF Flush, Inv, Scalars
<1>1. CASE ~conns[c].isOpen
  <2>1. delivered \in Seq(Nat) /\ Flushed(c) = <<>> /\ Emptied(conns[c]) = conns[c]
    BY <1>1, Numbers DEF Flushed, Emptied
  <2>2. delivered' = delivered /\ conns' = conns
    BY <1>0, <2>1
  <2>. QED
    BY <1>0, <2>2 DEF InOrder
<1>2. CASE conns[c].isOpen
  <2>1. /\ Flushed(c) = conns[c].pendingSends
        /\ Emptied(conns[c]) = [conns[c] EXCEPT !.pendingSends = <<>>]
    BY <1>2 DEF Flushed, Emptied
  <2>2. conns'[c].pendingSends = <<>> /\ \A e \in Conns : e # c => conns'[e] = conns[e]
    BY <1>0, <2>1 DEF Record
  <2>3. Ordered(delivered', <<>>, calls, eager)
    <3>1. conns[c].pendingSends \in Seq(Nat) /\ delivered \in Seq(Nat) /\ calls \in Nat
          /\ Ordered(delivered, conns[c].pendingSends, calls, eager)
      BY <1>0, Numbers DEF InOrder
    <3>. QED
      BY <1>0, <2>1, <3>1, OrderedFlushed
  <2>4. ASSUME NEW e \in Conns PROVE Ordered(delivered', conns'[e].pendingSends, calls, eager)
    <3>1. CASE conns'[e].pendingSends = <<>>
      BY <2>3, <3>1
    <3>2. CASE conns'[e].pendingSends # <<>>
      <4>1. e # c /\ conns[e].pendingSends # <<>>
        BY <2>2, <3>2
      <4>2. e = current /\ c # current
        BY <4>1, OthersEmpty
      <4>3. conns[c].pendingSends = <<>> /\ delivered \in Seq(Nat)
        BY <1>0, <4>2, OthersEmpty, Numbers
      <4>4. delivered' = delivered
        BY <1>0, <2>1, <4>3
      <4>. QED
        BY <2>2, <4>1, <4>4 DEF InOrder
    <3>. QED
      BY <3>1, <3>2
  <2>. QED
    BY <1>0, <2>3, <2>4 DEF InOrder
<1>. QED
  BY <1>1, <1>2

\* All other steps deliver nothing and queue nothing.
LEMMA QuietOrder ==
  ASSUME Inv, InOrder, UNCHANGED <<delivered, calls, eager>>,
         \A c \in Conns : \/ conns'[c].pendingSends = conns[c].pendingSends
                          \/ conns'[c].pendingSends = <<>>
  PROVE  InOrder'
BY DEF InOrder

\* What a connection's events do, the flush aside, touches no queue.
LEMMA ConnQueues ==
  ASSUME Inv, NEW c \in Conns,
         \/ UrlReady(c) \/ UrlFailed(c) \/ TimerFires(c) \/ OpenBegins(c)
         \/ Drops(c) \/ DialFails(c) \/ CloseEvent(c)
  PROVE  /\ UNCHANGED <<current, delivered, calls, eager>>
         /\ OpenBegins(c) \/ UNCHANGED opening
         /\ \A d \in Conns : conns'[d].pendingSends = conns[d].pendingSends
<1>. DEFINE r == conns[c]
<1>0. conns \in [Conns -> Record]
  BY DEF Inv, Functional
<1>1. /\ UNCHANGED <<current, delivered, calls, eager>>
      /\ OpenBegins(c) \/ UNCHANGED opening
  BY DEF UrlReady, UrlFailed, TimerFires, OpenBegins, Drops, DialFails, CloseEvent, Closed,
         session, onOpen, history
<1>2. /\ [r EXCEPT !.fetching = FALSE] \in Record
      /\ [r EXCEPT !.isOpen = FALSE] \in Record
  BY <1>0 DEF Record
<1>3. CASE UrlReady(c) \/ TimerFires(c) \/ Drops(c) \/ OpenBegins(c)
  <2>1. \A d \in Conns : conns'[d].pendingSends = conns[d].pendingSends
    <3>1. CASE UrlReady(c) \/ TimerFires(c)
      <4>1. \/ conns' = [conns EXCEPT ![c] = [r EXCEPT !.fetching = FALSE]]
            \/ conns' = [conns EXCEPT ![c] = [r EXCEPT !.timer = FALSE, !.fetching = TRUE]]
        BY <1>0, <3>1 DEF UrlReady, TimerFires
      <4>2. /\ [r EXCEPT !.fetching = FALSE].pendingSends = r.pendingSends
            /\ [r EXCEPT !.timer = FALSE, !.fetching = TRUE].pendingSends = r.pendingSends
        BY <1>0 DEF Record
      <4>3. ASSUME NEW q, conns' = [conns EXCEPT ![c] = q], q.pendingSends = r.pendingSends
            PROVE  \A d \in Conns : conns'[d].pendingSends = conns[d].pendingSends
        BY <1>0, <4>3
      <4>. QED
        BY <4>1, <4>2, <4>3
    <3>2. CASE Drops(c)
      BY <3>2 DEF Drops
    <3>3. CASE OpenBegins(c)
      BY <1>0, <3>3 DEF OpenBegins, Opened, Record
    <3>. QED
      BY <1>3, <3>1, <3>2, <3>3
  <2>. QED
    BY <1>1, <2>1
<1>4. CASE UrlFailed(c)
  <2>1. conns' = [conns EXCEPT ![c] = Scheduled([r EXCEPT !.fetching = FALSE])]
    BY <1>4 DEF UrlFailed
  <2>2. Scheduled([r EXCEPT !.fetching = FALSE]).pendingSends = r.pendingSends
    BY <1>0, <1>2, ScheduledQueue DEF Record
  <2>. QED
    BY <1>0, <1>1, <2>1, <2>2
<1>5. CASE DialFails(c) \/ CloseEvent(c)
  <2>1. conns' = [conns EXCEPT ![c] = Scheduled([r EXCEPT !.isOpen = FALSE])]
    BY <1>5 DEF DialFails, CloseEvent, Closed
  <2>2. Scheduled([r EXCEPT !.isOpen = FALSE]).pendingSends = r.pendingSends
    BY <1>0, <1>2, ScheduledQueue DEF Record
  <2>. QED
    BY <1>0, <1>1, <2>1, <2>2
<1>. QED
  BY <1>3, <1>4, <1>5

LEMMA StepOrder == Inv /\ InOrder /\ [Next]_vars => InOrder'
<1>. SUFFICES ASSUME Inv, InOrder, [Next]_vars PROVE InOrder'
  OBVIOUS
<1>0. conns \in [Conns -> Record]
  BY DEF Inv, Functional
<1>1. CASE Connect
  <2>1. /\ UNCHANGED <<delivered, calls, eager>>
        /\ \A c \in Conns : conns'[c] \in {conns[c], Fresh}
    BY <1>0, <1>1 DEF Connect, history
  <2>. QED
    BY <2>1, QuietOrder DEF Fresh
<1>2. CASE Send
  BY <1>2, SendOrder
<1>3. CASE CloseSession
  <2>1. UNCHANGED <<delivered, calls, eager>>
    BY <1>3 DEF CloseSession, history
  <2>2. \A c \in Conns : \/ conns'[c].pendingSends = conns[c].pendingSends
                         \/ conns'[c].pendingSends = <<>>
    BY <1>0, <1>3 DEF CloseSession, Record
  <2>. QED
    BY <2>1, <2>2, QuietOrder
<1>4. ASSUME NEW c \in Conns,
             \/ UrlReady(c) \/ UrlFailed(c) \/ TimerFires(c) \/ OpenBegins(c)
             \/ Drops(c) \/ DialFails(c) \/ CloseEvent(c)
      PROVE  InOrder'
  BY <1>4, ConnQueues, QuietOrder
<1>5. CASE StateListener
  <2>1. UNCHANGED <<delivered, calls, eager, conns>>
    BY <1>5 DEF StateListener
  <2>. QED
    BY <2>1, QuietOrder
<1>6. CASE InitListener \/ Flush
  BY <1>6, InitListenerOrder, FlushOrder
<1>7. CASE UNCHANGED vars
  BY <1>7 DEF vars, history, InOrder
<1>. QED
  BY <1>1, <1>2, <1>3, <1>4, <1>5, <1>6, <1>7 DEF Next

\* No message of the caller is sent twice, and none but a callback's during an
\* opening overtakes an earlier one, over any number of connections,
\* reconnections and overflows of the queue.
THEOREM InOrderOnceHolds == Spec => []InOrderOnce
<1>1. Init => InOrder
  BY DEF Init, InOrder, Ordered, Rising, Ahead, UpTo, Unused, Fresh
<1>2. InOrder => InOrderOnce
  BY DEF InOrder, Ordered, Rising, Below, InOrderOnce
<1>. QED
  BY <1>1, <1>2, InvHolds, StepOrder, PTL DEF Spec
-----------------------------------------------------------------------------
(* The outbox.  Of the queues of all connections only the session's can    *)
(* hold anything (OthersEmpty), so that it is the one the outbox sees; its *)
(* door is ajar while the session's own connection runs onOpen.            *)

Seen == <<calls, Waiting, delivered, Ajar>>

\* A step that leaves every queue, the session's connection and the opening one
\* alone is none of the outbox's.
LEMMA QuietOutbox ==
  ASSUME Inv, UNCHANGED <<current, delivered, calls, opening>>,
         \A c \in Conns : conns'[c].pendingSends = conns[c].pendingSends
  PROVE  UNCHANGED Seen
<1>1. current = 0 \/ current \in Conns
  BY Here
<1>. QED
  BY <1>1 DEF Waiting, Ajar, Seen

LEMMA ConnectOutbox == ASSUME Inv, Connect PROVE UNCHANGED Seen
<1>1. created + 1 \in Conns /\ created + 1 # 0 /\ conns \in [Conns -> Record]
      /\ opening # created + 1
  BY ConnectionAssumption DEF Inv, Scalars, Functional, Connect, Conns
<1>2. conns'[current'].pendingSends = <<>> /\ current' # 0
  BY <1>1 DEF Connect, Fresh
<1>3. current = 0 /\ current' = created + 1 /\ opening' = opening
      /\ UNCHANGED <<calls, delivered>>
  BY DEF Connect, onOpen, history
<1>4. Waiting' = Waiting
  BY <1>2, <1>3 DEF Waiting
<1>5. Ajar' = Ajar
  BY <1>1, <1>3 DEF Ajar
<1>. QED
  BY <1>3, <1>4, <1>5 DEF Seen

LEMMA CloseSessionOutbox == ASSUME Inv, CloseSession PROVE Box!Forget
BY DEF CloseSession, history, Waiting, Ajar, Box!Forget

LEMMA SendOutbox == ASSUME Inv, Send PROVE Box!PostNow \/ Box!PostLater
<1>. DEFINE c == current
<1>1. /\ c # 0 /\ c \in Conns /\ conns \in [Conns -> Record]
      /\ UNCHANGED <<current, opening>> /\ calls' = calls + 1
      /\ SendOn(current, calls + 1) /\ calls + 1 \in Data
  BY Here, Numbers DEF Send, session, onOpen
<1>2. Waiting = conns[c].pendingSends /\ Waiting' = conns'[c].pendingSends
  BY <1>1 DEF Waiting
<1>3. Ajar' = Ajar
  BY <1>1 DEF Ajar
<1>4. CASE conns[c].isOpen
  <2>1. UNCHANGED conns /\ delivered' \in {delivered, Append(delivered, calls + 1)}
    BY <1>1, <1>4, SendOnConn
  <2>2. Waiting = <<>> \/ Ajar
    BY <1>1, <1>2, <1>4, OthersEmpty DEF Ajar
  <2>. QED
    BY <1>1, <1>2, <1>3, <2>1, <2>2 DEF Box!PostNow
<1>5. CASE ~conns[c].isOpen
  <2>1. delivered' = delivered
        /\ conns' = [conns EXCEPT ![c] = [conns[c] EXCEPT !.pendingSends =
                                            Queued(@, calls + 1)]]
    BY <1>1, <1>5, SendOnConn
  <2>2. Waiting' = Queued(Waiting, calls + 1)
    BY <1>1, <1>2, <2>1 DEF Record
  <2>3. ~Ajar
    BY <1>5, AjarIsOpen DEF Ajar
  <2>. QED
    BY <1>1, <1>3, <2>1, <2>2, <2>3 DEF Queued, Box!PostLater, Box!Kept
<1>. QED
  BY <1>4, <1>5

LEMMA OpenBeginsOutbox ==
  ASSUME Inv, NEW c \in Conns, OpenBegins(c)
  PROVE  Box!Open \/ UNCHANGED Seen
<1>1. /\ UNCHANGED <<current, delivered, calls>> /\ opening' = c /\ opening = 0
      /\ \A d \in Conns : conns'[d].pendingSends = conns[d].pendingSends
  BY ConnQueues DEF OpenBegins, Inv, Scalars
<1>2. current = 0 \/ current \in Conns
  BY Here
<1>3. Waiting' = Waiting
  BY <1>1, <1>2 DEF Waiting
<1>4. ~Ajar /\ (Ajar' <=> current # 0 /\ c = current)
  BY <1>1 DEF Ajar
<1>5. CASE Ajar'
  BY <1>1, <1>3, <1>5 DEF Box!Open
<1>6. CASE ~Ajar'
  <2>1. Ajar' = Ajar
    BY <1>4, <1>6 DEF Ajar
  <2>. QED
    BY <1>1, <1>3, <2>1 DEF Seen
<1>. QED
  BY <1>5, <1>6

LEMMA InitListenerOutbox ==
  ASSUME Inv, InitListener
  PROVE  Box!Greet \/ UNCHANGED Seen
<1>. DEFINE c == current
<1>0. UNCHANGED <<calls, current, opening>>
  BY DEF InitListener, session
<1>1. Ajar' = Ajar
  BY <1>0 DEF Ajar
<1>2. CASE c = 0
  BY <1>0, <1>1, <1>2 DEF InitListener, Waiting, Seen
<1>3. CASE c # 0
  <2>0. /\ c \in Conns /\ conns \in [Conns -> Record] /\ SendOn(current, InitMsg)
        /\ InitMsg \in Data
    BY <1>3, Here, Numbers DEF InitListener
  <2>1. CASE conns[c].isOpen
    <3>1. delivered' = delivered /\ conns' = conns
      BY <1>3, <2>0, <2>1, SendOnConn
    <3>. QED
      BY <1>0, <1>1, <3>1 DEF Waiting, Seen
  <2>2. CASE ~conns[c].isOpen
    <3>1. delivered' = delivered
          /\ conns' = [conns EXCEPT ![c] = [conns[c] EXCEPT !.pendingSends =
                                              Queued(@, InitMsg)]]
      BY <1>3, <2>0, <2>2, SendOnConn
    <3>2. Waiting' = Queued(Waiting, InitMsg)
      BY <1>0, <1>3, <2>0, <3>1 DEF Waiting, Record
    <3>3. ~Ajar
      BY <2>2, AjarIsOpen DEF Ajar
    <3>. QED
      BY <1>0, <1>1, <3>1, <3>2, <3>3 DEF Queued, Box!Greet, Box!Kept
  <2>. QED
    BY <2>1, <2>2
<1>. QED
  BY <1>2, <1>3

LEMMA FlushOutbox == ASSUME Inv, Flush PROVE Box!Release \/ UNCHANGED Seen
<1>. DEFINE c == opening
<1>0. /\ c # 0 /\ c \in Conns /\ conns \in [Conns -> Record] /\ delivered \in Seq(Data)
      /\ UNCHANGED <<calls, current>> /\ opening' = 0
      /\ delivered' = delivered \o Flushed(c)
      /\ conns' = [conns EXCEPT ![c] = Emptied(@)]
  BY Here DEF Flush, Inv, Scalars, session
<1>1. ~Ajar'
  BY <1>0 DEF Ajar
<1>2. CASE c = current
  <2>1. conns[c].isOpen /\ Ajar
    BY <1>0, <1>2, AjarIsOpen DEF Ajar
  <2>2. conns'[c].pendingSends = <<>>
    BY <1>0, <2>1 DEF Emptied, Record
  <2>3. Flushed(c) = Waiting /\ Waiting' = <<>>
    BY <1>0, <1>2, <2>1, <2>2 DEF Flushed, Waiting
  <2>4. Ajar' = FALSE
    BY <1>1 DEF Ajar
  <2>. QED
    BY <1>0, <2>1, <2>3, <2>4 DEF Box!Release
<1>3. CASE c # current
  <2>1. Flushed(c) = <<>>
    BY <1>0, <1>3, OthersEmpty DEF Flushed
  <2>2. delivered' = delivered
    BY <1>0, <2>1
  <2>3. Waiting' = Waiting
    BY <1>0, <1>3, Here DEF Waiting
  <2>4. Ajar' = Ajar
    BY <1>0, <1>3 DEF Ajar
  <2>. QED
    BY <1>0, <2>2, <2>3, <2>4 DEF Seen
<1>. QED
  BY <1>2, <1>3

LEMMA StepOutbox ==
  Inv /\ [Next]_vars => [Box!Next]_<<calls, Waiting, delivered, Ajar>>
<1>. SUFFICES ASSUME Inv, [Next]_vars PROVE Box!Next \/ UNCHANGED Seen
  BY DEF Seen
<1>1. CASE Connect
  BY <1>1, ConnectOutbox
<1>2. CASE Send
  BY <1>2, SendOutbox DEF Box!Next
<1>3. CASE CloseSession
  BY <1>3, CloseSessionOutbox DEF Box!Next
<1>4. ASSUME NEW c \in Conns,
             \/ UrlReady(c) \/ UrlFailed(c) \/ TimerFires(c)
             \/ Drops(c) \/ DialFails(c) \/ CloseEvent(c)
      PROVE  UNCHANGED Seen
  <2>1. UNCHANGED <<current, delivered, calls, opening>>
    BY <1>4 DEF UrlReady, UrlFailed, TimerFires, Drops, DialFails, CloseEvent, Closed,
                session, onOpen, history
  <2>. QED
    BY <1>4, <2>1, ConnQueues, QuietOutbox
<1>5. ASSUME NEW c \in Conns, OpenBegins(c)
      PROVE  Box!Next \/ UNCHANGED Seen
  BY <1>5, OpenBeginsOutbox DEF Box!Next
<1>6. CASE StateListener
  BY <1>6 DEF StateListener, Waiting, Ajar, Seen
<1>7. CASE InitListener \/ Flush
  BY <1>7, InitListenerOutbox, FlushOutbox DEF Box!Next
<1>8. CASE UNCHANGED vars
  BY <1>8 DEF vars, session, onOpen, history, Waiting, Ajar, Seen
<1>. QED
  BY <1>1, <1>2, <1>3, <1>4, <1>5, <1>6, <1>7, <1>8 DEF Next

\* The session implements Outbox: over any number of connections, retries and
\* messages, what it sends passes through one bounded queue, which a message
\* passes only while a socket opens, and a connection the session has let go of
\* neither sends nor keeps anything of the caller's.
THEOREM SessionImplementsOutbox == Spec => ImplementsOutbox
<1>1. Init => Box!Init
  BY DEF Init, Waiting, Ajar, Box!Init
<1>. QED
  BY <1>1, InvHolds, StepOutbox, PTL DEF Spec, ImplementsOutbox, Box!Spec
=============================================================================
