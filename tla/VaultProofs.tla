---------------------------- MODULE VaultProofs ----------------------------
(***************************************************************************)
(* Proofs about Vault, for any number of tabs, sockets, setups and         *)
(* requests.                                                               *)
(***************************************************************************)
EXTENDS Vault, Integers, TLAPS

Typed ==
  /\ config \in 0 .. MaxSetups /\ setups \in 0 .. MaxSetups /\ requests \in 0 .. MaxRequests
  /\ secrets \subseteq Secret /\ session \in BOOLEAN
  /\ sockets \in [Sockets -> Socket \union {Free}]
  /\ status \in [Tabs -> Statuses] /\ vmk \in [Tabs -> 0 .. MaxSetups]
  /\ ws \in [Tabs -> Sockets \union {None}] /\ waits \in [Tabs -> Sockets \union {None}]
  /\ encrypting \in [Tabs -> 0 .. MaxSetups] /\ underway \subseteq Tabs
  /\ asked \in [Tabs -> BOOLEAN]
  /\ result \in [1 .. MaxRequests -> {"unknown", "stored", "refused"}]
  /\ removed \subseteq 1 .. MaxRequests /\ overtaken \in BOOLEAN

\* A tab knows sockets of its own that are not closed, and awaits the session
\* on another one than that it uses.
Links ==
  /\ \A t \in Tabs : ws[t] # None => sockets[ws[t]].client = "open" /\ sockets[ws[t]].tab = t
  /\ \A t \in Tabs : waits[t] # None =>
       /\ sockets[waits[t]].client # "closed" /\ sockets[waits[t]].tab = t
       /\ waits[t] # ws[t]

\* Every key there is, is that of the vault; a vault that is not set up has none.
Keys ==
  ~overtaken =>
    /\ \A s \in secrets : s.key = config
    /\ \A t \in Tabs : {vmk[t], encrypting[t]} \subseteq {0, config}
    /\ \A s \in Sockets : sockets[s].client # "closed" => sockets[s].key = config
    /\ \A s \in Sockets : \A k \in 1 .. Len(sockets[s].up) :
         sockets[s].up[k].type = "store" => sockets[s].up[k].secret.key = config

\* The secrets that are or were in the vault.
There == {s.id : s \in secrets} \union removed

\* Place k of what socket s has on its way to the vault asks to store the
\* secret i; place k of what is on its way back answers for it.
Asks(s, k, i) ==
  /\ k \in 1 .. Len(sockets[s].up) /\ sockets[s].up[k].type = "store"
  /\ sockets[s].up[k].secret.id = i
Answering(s, k, i, success) ==
  /\ k \in 1 .. Len(sockets[s].down) /\ sockets[s].down[k].type = "stored"
  /\ sockets[s].down[k].id = i /\ sockets[s].down[k].success = success

Ids == 1 .. MaxRequests

\* A secret that is asked for has not arrived and was not answered.
Pending ==
  \A s \in Sockets, k \in Nat, i \in Ids : Asks(s, k, i) =>
    /\ i <= requests /\ result[i] = "unknown" /\ i \notin There
    /\ \A r \in Sockets, j \in Nat, b \in BOOLEAN : ~Answering(r, j, i, b)

\* It is asked for in one place.
Once ==
  \A s, r \in Sockets, k, j \in Nat, i \in Ids : Asks(s, k, i) /\ Asks(r, j, i) => s = r /\ k = j

\* An answer on its way is true.
Truthful ==
  \A s \in Sockets, k \in Nat, i \in Ids :
    /\ Answering(s, k, i, TRUE) => i <= requests /\ i \in There
    /\ Answering(s, k, i, FALSE) => i <= requests /\ i \notin There

\* Nothing is known of what was not asked, and what is known is true.
Known ==
  /\ \A i \in Ids : i > requests => result[i] = "unknown" /\ i \notin There
  /\ \A i \in Ids : /\ result[i] = "stored" => i \in There
                    /\ result[i] = "refused" => i \notin There

Answers == Pending /\ Once /\ Truthful /\ Known

Inv == Typed /\ Links /\ Keys /\ Answers

-----------------------------------------------------------------------------
(* What a step does to the sockets.                                        *)

\* The messages that ask for a secret were there before, d places further on.
MessagesKept(s, d) ==
  \A k \in 1 .. Len(sockets'[s].up) : sockets'[s].up[k].type = "store" =>
    k + d \in 1 .. Len(sockets[s].up) /\ sockets[s].up[k + d] = sockets'[s].up[k]

\* The answers were there before.
AnswersLeft(s) ==
  \A k \in 1 .. Len(sockets'[s].down) : sockets'[s].down[k].type = "stored" =>
    \E j \in 1 .. Len(sockets[s].down) : sockets[s].down[j] = sockets'[s].down[k]

\* Nobody uses a key other than the vault's.
KeyKept(s) ==
  sockets'[s].client # "closed" =>
    \/ sockets[s].client # "closed" /\ sockets'[s].key = sockets[s].key
    \/ sockets'[s].key = config

Shrinks(s) == (\E d \in {0, 1} : MessagesKept(s, d)) /\ AnswersLeft(s) /\ KeyKept(s)

LEMMA Same == ASSUME NEW s, sockets'[s] = sockets[s] PROVE Shrinks(s)
<1>1. MessagesKept(s, 0) BY DEF MessagesKept
<1>2. AnswersLeft(s) /\ KeyKept(s) BY DEF AnswersLeft, KeyKept
<1> QED BY <1>1, <1>2 DEF Shrinks

LEMMA SocketType ==
  ASSUME Typed, NEW s \in Sockets
  PROVE  /\ sockets[s] \in Socket \union {Free}
         /\ sockets[s].client # "closed" \/ sockets[s].server # "none" => sockets[s] \in Socket
         /\ Len(sockets[s].up) \in Nat /\ Len(sockets[s].down) \in Nat
         /\ \A k \in 1 .. Len(sockets[s].up) : sockets[s].up[k] \in Message
         /\ \A k \in 1 .. Len(sockets[s].down) : sockets[s].down[k] \in Answer
<1>1. sockets[s] \in Socket \union {Free} BY DEF Typed
<1>2. CASE sockets[s] = Free
  <2>1. sockets[s].client = "closed" /\ sockets[s].server = "none"
        /\ sockets[s].up = <<>> /\ sockets[s].down = <<>>
    BY <1>2 DEF Free
  <2> QED BY <1>1, <2>1
<1>3. CASE sockets[s] \in Socket
  <2>1. sockets[s].up \in Seq(Message) /\ sockets[s].down \in Seq(Answer) BY <1>3 DEF Socket
  <2> QED BY <1>1, <1>3, <2>1
<1> QED BY <1>1, <1>2, <1>3

\* A message that asks names a secret, and an answer names its id.
LEMMA MessageType ==
  /\ \A m \in Message : m.type = "store" => m.secret \in Secret
  /\ \A a \in Answer : a.type = "stored" => a.id \in 1 .. MaxRequests /\ a.success \in BOOLEAN
  /\ \A r \in Secret : r.id \in 1 .. MaxRequests /\ r.key \in 1 .. MaxSetups
<1>1. \A m \in Message : m.type = "store" => m.secret \in Secret BY DEF Message
<1>2. \A a \in Answer : a.type = "stored" => a.id \in 1 .. MaxRequests /\ a.success \in BOOLEAN
  BY DEF Answer
<1>3. \A r \in Secret : r.id \in 1 .. MaxRequests /\ r.key \in 1 .. MaxSetups BY DEF Secret
<1> QED BY <1>1, <1>2, <1>3

LEMMA SocketUpdate ==
  ASSUME Typed, NEW s \in Sockets, NEW r \in Socket \union {Free},
         sockets' = [sockets EXCEPT ![s] = r]
  PROVE  /\ sockets' \in [Sockets -> Socket \union {Free}]
         /\ sockets'[s] = r
         /\ \A q \in Sockets : q # s => sockets'[q] = sockets[q]
BY DEF Typed

LEMMA KeysKept ==
  ASSUME Typed, Keys, config' = config, overtaken' = overtaken, secrets' \subseteq secrets,
         ~overtaken => \A t \in Tabs : {vmk'[t], encrypting'[t]} \subseteq {0, config},
         \A s \in Sockets : Shrinks(s)
  PROVE  Keys'
<1>1. ASSUME ~overtaken', NEW s \in Sockets, NEW k \in 1 .. Len(sockets'[s].up),
             sockets'[s].up[k].type = "store"
      PROVE  sockets'[s].up[k].secret.key = config'
  <2>1. PICK d \in {0, 1} : MessagesKept(s, d) BY DEF Shrinks
  <2>2. k + d \in 1 .. Len(sockets[s].up) /\ sockets[s].up[k + d] = sockets'[s].up[k]
    BY <1>1, <2>1 DEF MessagesKept
  <2>3. sockets[s].up[k + d].type = "store" BY <1>1, <2>2
  <2>4. sockets[s].up[k + d].secret.key = config BY <1>1, <2>2, <2>3 DEF Keys
  <2> QED BY <2>2, <2>4
<1>2. ASSUME ~overtaken', NEW s \in Sockets, sockets'[s].client # "closed"
      PROVE  sockets'[s].key = config'
  BY <1>2 DEF Shrinks, KeyKept, Keys
<1>3. ~overtaken' => \A s \in secrets' : s.key = config' BY DEF Keys
<1> QED BY <1>1, <1>2, <1>3 DEF Keys

LEMMA AnswersKept ==
  ASSUME Typed, Answers, requests' = requests, result' = result, There' = There,
         \A s \in Sockets : (\E d \in {0, 1} : MessagesKept(s, d)) /\ AnswersLeft(s)
  PROVE  Answers'
<1>1. ASSUME NEW s \in Sockets, NEW d \in {0, 1}, MessagesKept(s, d),
             NEW k \in Nat, NEW i \in Ids, Asks(s, k, i)'
      PROVE  k + d \in Nat /\ Asks(s, k + d, i)
  BY <1>1 DEF MessagesKept, Asks
<1>2. ASSUME NEW s \in Sockets, NEW k \in Nat, NEW i \in Ids, NEW b \in BOOLEAN,
             Answering(s, k, i, b)'
      PROVE  \E j \in Nat : Answering(s, j, i, b)
  <2>1. PICK j \in 1 .. Len(sockets[s].down) : sockets[s].down[j] = sockets'[s].down[k]
    BY <1>2 DEF AnswersLeft, Answering
  <2>2. j \in Nat BY SocketType
  <2> QED BY <1>2, <2>1, <2>2 DEF Answering
<1>3. Pending'
  <2> SUFFICES ASSUME NEW s \in Sockets, NEW k \in Nat, NEW i \in Ids, Asks(s, k, i)'
               PROVE  /\ i <= requests' /\ result'[i] = "unknown" /\ i \notin There'
                      /\ \A r \in Sockets, j \in Nat, b \in BOOLEAN : ~Answering(r, j, i, b)'
    BY DEF Pending
  <2>1. PICK d \in {0, 1} : MessagesKept(s, d) OBVIOUS
  <2>2. k + d \in Nat /\ Asks(s, k + d, i) BY <2>1, <1>1
  <2> QED BY <2>2, <1>2 DEF Answers, Pending
<1>4. Once'
  <2> SUFFICES ASSUME NEW s \in Sockets, NEW r \in Sockets, NEW k \in Nat, NEW j \in Nat,
                      NEW i \in Ids, Asks(s, k, i)', Asks(r, j, i)'
               PROVE  s = r /\ k = j
    BY DEF Once
  <2>1. PICK d \in {0, 1} : MessagesKept(s, d) OBVIOUS
  <2>2. PICK e \in {0, 1} : MessagesKept(r, e) /\ (r = s => e = d) BY <2>1
  <2>3. /\ k + d \in Nat /\ Asks(s, k + d, i)
        /\ j + e \in Nat /\ Asks(r, j + e, i)
    BY <2>1, <2>2, <1>1
  <2>4. s = r /\ k + d = j + e BY <2>3 DEF Answers, Once
  <2> QED BY <2>2, <2>4
<1>5. Truthful' BY <1>2 DEF Answers, Truthful
<1>6. Known' BY DEF Answers, Known
<1> QED BY <1>3, <1>4, <1>5, <1>6 DEF Answers

-----------------------------------------------------------------------------
(* A tab's steps.                                                          *)

\* A step that the sockets and the vault do not see.
LEMMA Unseen ==
  ASSUME Inv, Typed', UNCHANGED <<config, secrets, sockets, requests, result, removed, overtaken>>,
         ~overtaken => \A t \in Tabs : {vmk'[t], encrypting'[t]} \subseteq {0, config}, Links'
  PROVE  Inv'
<1>1. \A s \in Sockets : Shrinks(s) BY Same
<1>2. There' = There BY DEF There
<1>3. Keys' BY <1>1, KeysKept DEF Inv
<1>4. Answers' BY <1>1, <1>2, AnswersKept DEF Inv, Shrinks
<1> QED BY <1>3, <1>4 DEF Inv

LEMMA RefreshStatusInv == ASSUME Inv, NEW t \in Tabs, RefreshStatus(t) PROVE Inv'
<1>1. PICK answer \in {"not_setup", "locked", "unlocked", "unknown"} :
        /\ status' = [status EXCEPT ![t] = answer]
        /\ vmk' = IF answer = "locked" THEN [vmk EXCEPT ![t] = 0] ELSE vmk
  BY DEF RefreshStatus
<1>2. /\ UNCHANGED <<config, secrets, session, sockets, ws, waits, encrypting, underway, setups,
                     requests, result, removed, overtaken>>
      /\ asked' = [asked EXCEPT ![t] = status'[t] = "unknown"]
  BY DEF RefreshStatus, server, work, counts, history
<1>3. 0 \in 0 .. MaxSetups BY VaultAssumption
<1>4. status' \in [Tabs -> Statuses] /\ vmk' \in [Tabs -> 0 .. MaxSetups]
  BY <1>1, <1>3 DEF Inv, Typed, Statuses
<1>5. Typed'
  <2>1. asked' \in [Tabs -> BOOLEAN] BY <1>2 DEF Inv, Typed
  <2> QED BY <1>2, <1>4, <2>1 DEF Inv, Typed
<1>6. ~overtaken => \A q \in Tabs : {vmk'[q], encrypting'[q]} \subseteq {0, config}
  BY <1>1, <1>2 DEF Inv, Typed, Keys
<1>7. Links' BY <1>2 DEF Inv, Links
<1> QED BY <1>2, <1>5, <1>6, <1>7, Unseen

\* A new socket is the tab's own, and nothing else changes hands.
LEMMA Connected ==
  ASSUME Inv, NEW t \in Tabs, NEW key \in 1 .. MaxSetups, Connect(t, key), ws' = ws
  PROVE  /\ sockets' \in [Sockets -> Socket \union {Free}]
         /\ waits' \in [Tabs -> Sockets \union {None}]
         /\ Links'
         /\ \A s \in Sockets :
              /\ \E d \in {0, 1} : MessagesKept(s, d)
              /\ AnswersLeft(s)
              /\ sockets'[s].up = sockets[s].up
              /\ sockets'[s].client # "closed" =>
                   \/ sockets[s].client # "closed" /\ sockets'[s].key = sockets[s].key
                   \/ sockets'[s].key = key
<1> DEFINE r == [tab |-> t, key |-> key, client |-> "connecting",
                 server |-> "none", up |-> <<>>, down |-> <<>>]
<1>1. PICK s \in Sockets : sockets[s] = Free /\ sockets' = [sockets EXCEPT ![s] = r]
                           /\ waits' = [waits EXCEPT ![t] = s]
  BY DEF Connect
<1>2. r \in Socket BY DEF Socket
<1>3. r.up = <<>> /\ r.down = <<>> /\ r.client = "connecting" /\ r.key = key /\ r.tab = t
  OBVIOUS
<1> HIDE DEF r
<1>4. /\ sockets' \in [Sockets -> Socket \union {Free}] /\ sockets'[s] = r
      /\ \A q \in Sockets : q # s => sockets'[q] = sockets[q]
  BY <1>1, <1>2, SocketUpdate DEF Inv
<1>5. waits' \in [Tabs -> Sockets \union {None}] /\ waits'[t] = s
      /\ \A q \in Tabs : q # t => waits'[q] = waits[q]
  BY <1>1 DEF Inv, Typed
<1>6. sockets[s].client = "closed" /\ sockets[s].up = <<>> /\ s # None
  BY <1>1, VaultAssumption DEF Free
<1>7. \A q \in Tabs : /\ ws[q] \in Sockets \union {None} /\ waits[q] \in Sockets \union {None}
                      /\ ws[q] # s /\ waits[q] # s
  BY <1>6 DEF Inv, Typed, Links
<1>8. Links' BY <1>3, <1>4, <1>5, <1>7 DEF Inv, Links
<1>9. \A q \in Sockets : q # s => Shrinks(q) BY <1>4, Same
<1>10. MessagesKept(s, 0) /\ AnswersLeft(s)
  BY <1>3, <1>4 DEF MessagesKept, AnswersLeft
<1>11. ASSUME NEW q \in Sockets
       PROVE  /\ \E d \in {0, 1} : MessagesKept(q, d)
              /\ AnswersLeft(q)
              /\ sockets'[q].up = sockets[q].up
              /\ sockets'[q].client # "closed" =>
                   \/ sockets[q].client # "closed" /\ sockets'[q].key = sockets[q].key
                   \/ sockets'[q].key = key
  <2>1. CASE q = s BY <2>1, <1>3, <1>4, <1>6, <1>10
  <2>2. CASE q # s BY <2>2, <1>4, <1>9 DEF Shrinks
  <2> QED BY <2>1, <2>2
<1> QED BY <1>4, <1>5, <1>8, <1>11

\* A vault that is not set up has no key, so that a first setup finds none of
\* another vault.
LEMMA SetupVaultInv == ASSUME Inv, NEW t \in Tabs, SetupVault(t) PROVE Inv'
<1>1. /\ UNCHANGED <<secrets, session, status, vmk, ws, encrypting, underway, asked, requests,
                     result, removed, overtaken>>
      /\ setups' = setups + 1 /\ setups < MaxSetups
      /\ MaxSetups \in Nat /\ setups \in Nat
  BY VaultAssumption DEF SetupVault, work, history, Inv, Typed
<1>2. setups' \in 1 .. MaxSetups /\ setups' \in 0 .. MaxSetups BY <1>1
<1>3. There' = There BY <1>1 DEF There
<1>4. config = 0 /\ config' = setups' /\ (Connect(t, setups') \/ UNCHANGED <<sockets, waits>>)
  BY <1>1 DEF SetupVault
<1>5. /\ sockets' \in [Sockets -> Socket \union {Free}]
      /\ waits' \in [Tabs -> Sockets \union {None}]
      /\ Links'
      /\ \A s \in Sockets :
            /\ \E d \in {0, 1} : MessagesKept(s, d)
            /\ AnswersLeft(s)
            /\ sockets'[s].up = sockets[s].up
            /\ sockets'[s].client # "closed" =>
                 \/ sockets[s].client # "closed" /\ sockets'[s].key = sockets[s].key
                 \/ sockets'[s].key = setups'
  <2>1. CASE Connect(t, setups')
    <3> DEFINE key == setups'
    <3>1. key \in 1 .. MaxSetups /\ Connect(t, key) BY <1>2, <2>1
    <3> HIDE DEF key
    <3>2. /\ sockets' \in [Sockets -> Socket \union {Free}]
          /\ waits' \in [Tabs -> Sockets \union {None}]
          /\ Links'
          /\ \A s \in Sockets :
               /\ \E d \in {0, 1} : MessagesKept(s, d)
               /\ AnswersLeft(s)
               /\ sockets'[s].up = sockets[s].up
               /\ sockets'[s].client # "closed" =>
                    \/ sockets[s].client # "closed" /\ sockets'[s].key = sockets[s].key
                    \/ sockets'[s].key = key
      BY <1>1, <3>1, Connected
    <3> QED BY <3>2 DEF key
  <2>2. CASE UNCHANGED <<sockets, waits>>
    <3>1. \A s \in Sockets : Shrinks(s) BY <2>2, Same
    <3>2. Links' BY <1>1, <2>2 DEF Inv, Links
    <3> QED BY <2>2, <3>1, <3>2 DEF Shrinks, Inv, Typed
  <2> QED BY <1>4, <2>1, <2>2
<1>6. Typed' BY <1>1, <1>2, <1>4, <1>5 DEF Inv, Typed
<1>7. Keys'
  <2> SUFFICES ASSUME ~overtaken' PROVE
        /\ \A s \in secrets' : s.key = config'
        /\ \A q \in Tabs : {vmk'[q], encrypting'[q]} \subseteq {0, config'}
        /\ \A s \in Sockets : sockets'[s].client # "closed" => sockets'[s].key = config'
        /\ \A s \in Sockets : \A k \in 1 .. Len(sockets'[s].up) :
             sockets'[s].up[k].type = "store" => sockets'[s].up[k].secret.key = config'
    BY DEF Keys
  <2>1. \A s \in secrets : s.key \in 1 .. MaxSetups BY MessageType DEF Inv, Typed
  <2>2. secrets = {} BY <2>1, <1>1, <1>4 DEF Inv, Keys
  <2>3. \A q \in Tabs : vmk[q] = 0 /\ encrypting[q] = 0 BY <1>1, <1>4 DEF Inv, Keys
  <2>4. \A s \in Sockets : sockets[s].client = "closed"
    <3>1. \A s \in Sockets : sockets[s].client # "closed" => sockets[s].key \in 1 .. MaxSetups
      BY SocketType DEF Inv, Socket
    <3> QED BY <3>1, <1>1, <1>4 DEF Inv, Keys
  <2>5. \A s \in Sockets : \A k \in 1 .. Len(sockets[s].up) : sockets[s].up[k].type # "store"
    <3>1. \A s \in Sockets : \A k \in 1 .. Len(sockets[s].up) :
            sockets[s].up[k].type = "store" => sockets[s].up[k].secret.key \in 1 .. MaxSetups
      BY SocketType, MessageType DEF Inv
    <3> QED BY <3>1, <1>1, <1>4 DEF Inv, Keys
  <2> QED BY <1>1, <1>4, <1>5, <2>2, <2>3, <2>4, <2>5
<1>8. Answers' BY <1>1, <1>3, <1>5, AnswersKept DEF Inv
<1> QED BY <1>5, <1>6, <1>7, <1>8 DEF Inv

\* A step that only shrinks what the sockets hold.
LEMMA Shrunk ==
  ASSUME Inv, Typed', Links', \A s \in Sockets : Shrinks(s),
         UNCHANGED <<config, secrets, requests, result, removed, overtaken>>,
         ~overtaken => \A t \in Tabs : {vmk'[t], encrypting'[t]} \subseteq {0, config}
  PROVE  Inv'
<1>1. There' = There BY DEF There
<1>2. Keys' BY KeysKept DEF Inv
<1>3. Answers' BY <1>1, AnswersKept DEF Inv, Shrinks
<1> QED BY <1>2, <1>3 DEF Inv

LEMMA UnlockInv == ASSUME Inv, NEW t \in Tabs, Unlock(t) PROVE Inv'
<1>1. /\ UNCHANGED <<config, secrets, session, status, vmk, ws, encrypting, underway, asked, setups,
                     requests, result, removed, overtaken>>
      /\ Connect(t, config) /\ config \in 1 .. MaxSetups
  BY DEF Unlock, server, work, counts, history, Inv, Typed
<1>2. /\ sockets' \in [Sockets -> Socket \union {Free}]
      /\ waits' \in [Tabs -> Sockets \union {None}]
      /\ Links'
      /\ \A s \in Sockets :
            /\ \E d \in {0, 1} : MessagesKept(s, d)
            /\ AnswersLeft(s)
            /\ sockets'[s].client # "closed" =>
                 \/ sockets[s].client # "closed" /\ sockets'[s].key = sockets[s].key
                 \/ sockets'[s].key = config
  BY <1>1, Connected
<1>3. \A s \in Sockets : Shrinks(s) BY <1>2 DEF Shrinks, KeyKept
<1>4. Typed' BY <1>1, <1>2 DEF Inv, Typed
<1>5. ~overtaken => \A q \in Tabs : {vmk'[q], encrypting'[q]} \subseteq {0, config} BY <1>1 DEF Inv, Keys
<1> QED BY <1>1, <1>2, <1>3, <1>4, <1>5, Shrunk

LEMMA ConnectTimeoutInv == ASSUME Inv, NEW t \in Tabs, ConnectTimeout(t) PROVE Inv'
<1>1. /\ UNCHANGED <<config, secrets, session, sockets, status, vmk, ws, encrypting, underway, asked,
                     setups, requests, result, removed, overtaken>>
      /\ waits' = [waits EXCEPT ![t] = None]
  BY DEF ConnectTimeout, server, work, counts, history
<1>2. Typed' BY <1>1 DEF Inv, Typed
<1>3. Links' BY <1>1 DEF Inv, Links, Typed
<1>4. ~overtaken => \A q \in Tabs : {vmk'[q], encrypting'[q]} \subseteq {0, config} BY <1>1 DEF Inv, Keys
<1> QED BY <1>1, <1>2, <1>3, <1>4, Unseen

\* What a goodbye adds to a socket asks for nothing.
LEMMA GoodbyeInv ==
  ASSUME Inv, NEW t \in Tabs, Goodbye(t), waits' = waits, encrypting' = encrypting
  PROVE  /\ sockets' \in [Sockets -> Socket \union {Free}]
         /\ ws' \in [Tabs -> Sockets \union {None}] /\ vmk' \in [Tabs -> 0 .. MaxSetups]
         /\ Links' /\ \A s \in Sockets : Shrinks(s)
         /\ ~overtaken => \A q \in Tabs : {vmk'[q], encrypting'[q]} \subseteq {0, config}
<1>1. /\ ws' = [ws EXCEPT ![t] = None] /\ vmk' = [vmk EXCEPT ![t] = 0]
      /\ ws \in [Tabs -> Sockets \union {None}] /\ vmk \in [Tabs -> 0 .. MaxSetups]
      /\ MaxSetups \in Nat /\ None \notin Sockets /\ waits \in [Tabs -> Sockets \union {None}]
      /\ sockets \in [Sockets -> Socket \union {Free}]
  BY VaultAssumption DEF Goodbye, Inv, Typed
<1>2. /\ ws' \in [Tabs -> Sockets \union {None}] /\ vmk' \in [Tabs -> 0 .. MaxSetups]
      /\ \A q \in Tabs : ws'[q] = IF q = t THEN None ELSE ws[q]
  BY <1>1
<1>3. ~overtaken => \A q \in Tabs : {vmk'[q], encrypting'[q]} \subseteq {0, config} BY <1>1 DEF Inv, Keys
<1>4. CASE ws[t] = None
  <2>1. sockets' = sockets BY <1>4 DEF Goodbye
  <2>2. Links' BY <1>2, <2>1 DEF Inv, Links
  <2> QED BY <1>1, <1>2, <1>3, <2>1, <2>2, Same
<1>5. CASE ws[t] # None
  <2> DEFINE s == ws[t]
  <2> DEFINE m == [type |-> "close"]
  <2> DEFINE r == [sockets[s] EXCEPT !.client = "closed", !.down = <<>>, !.up = Append(@, m)]
  <2>1. s \in Sockets /\ sockets[s].client = "open" /\ sockets[s].tab = t
    BY <1>1, <1>5 DEF Inv, Links
  <2>2. sockets[s] \in Socket BY <2>1, SocketType DEF Inv
  <2>3. sockets' = [sockets EXCEPT ![s] = r] BY <1>5, <1>1 DEF Goodbye
  <2>4. m \in Message /\ m.type = "close" BY DEF Message
  <2>5. sockets[s].up \in Seq(Message) BY <2>2 DEF Socket
  <2> HIDE DEF s, m
  <2>6. Append(sockets[s].up, m) \in Seq(Message) BY <2>4, <2>5
  <2>7. r \in Socket
    <3> DEFINE u == Append(sockets[s].up, m)
    <3>1. u \in Seq(Message) /\ <<>> \in Seq(Answer) BY <2>6
    <3> HIDE DEF u
    <3>2. [sockets[s] EXCEPT !.client = "closed", !.down = <<>>, !.up = u] \in Socket
      BY <2>2, <3>1 DEF Socket
    <3> QED BY <3>2 DEF u
  <2>8. /\ r.up = Append(sockets[s].up, m) /\ r.down = <<>> /\ r.client = "closed"
    BY <2>2 DEF Socket
  <2> HIDE DEF r
  <2>9. /\ sockets' \in [Sockets -> Socket \union {Free}] /\ sockets'[s] = r
        /\ \A q \in Sockets : q # s => sockets'[q] = sockets[q]
    BY <2>1, <2>3, <2>7, SocketUpdate DEF Inv
  <2>10. Shrinks(s)
    <3>1. /\ Len(sockets[s].up) \in Nat
          /\ Len(Append(sockets[s].up, m)) = Len(sockets[s].up) + 1
          /\ Append(sockets[s].up, m)[Len(sockets[s].up) + 1] = m
          /\ \A k \in 1 .. Len(sockets[s].up) : Append(sockets[s].up, m)[k] = sockets[s].up[k]
      BY <2>5
    <3>2. sockets'[s].up = Append(sockets[s].up, m) BY <2>8, <2>9
    <3>3. MessagesKept(s, 0) BY <2>4, <3>1, <3>2 DEF MessagesKept
    <3> QED BY <3>3, <2>8, <2>9 DEF Shrinks, AnswersLeft, KeyKept
  <2>11. \A q \in Sockets : Shrinks(q) BY <2>9, <2>10, Same
  <2>12. s = ws[t] BY DEF s
  <2>13. \A q \in Tabs : /\ ws'[q] # None => ws'[q] \in Sockets /\ ws'[q] # s
                         /\ waits[q] # None => waits[q] \in Sockets /\ waits[q] # s
    BY <1>1, <1>2, <2>1, <2>12 DEF Inv, Links
  <2>14. Links' BY <1>2, <2>9, <2>13 DEF Inv, Links
  <2> QED BY <1>2, <1>3, <2>9, <2>11, <2>14
<1> QED BY <1>4, <1>5

LEMMA LockVaultInv == ASSUME Inv, NEW t \in Tabs, LockVault(t) PROVE Inv'
<1>1. /\ UNCHANGED <<config, secrets, session, waits, encrypting, underway, asked, setups, requests,
                     result, removed, overtaken>>
      /\ Goodbye(t) /\ status' = [status EXCEPT ![t] = "locked"]
  BY DEF LockVault, server, work, counts, history
<1>2. status' \in [Tabs -> Statuses] BY <1>1 DEF Inv, Typed, Statuses
<1>3. Typed' BY <1>1, <1>2, GoodbyeInv DEF Inv, Typed
<1> QED BY <1>1, <1>3, GoodbyeInv, Shrunk

LEMMA ResetVaultInv == ASSUME Inv, NEW t \in Tabs, ResetVault(t) PROVE Inv'
<1>1. /\ UNCHANGED <<config, secrets, session, status, waits, encrypting, asked, setups, requests,
                     result, removed, overtaken>>
      /\ Goodbye(t) /\ underway' = underway \union {t}
  BY DEF ResetVault, server, counts, history
<1>2. underway' \subseteq Tabs BY <1>1 DEF Inv, Typed
<1>3. Typed' BY <1>1, <1>2, GoodbyeInv DEF Inv, Typed
<1> QED BY <1>1, <1>3, GoodbyeInv, Shrunk

\* A reset that finds no key in use leaves none behind.
LEMMA ResetServedInv == ASSUME Inv, NEW t \in Tabs, ResetServed(t) PROVE Inv'
<1>1. /\ UNCHANGED <<sockets, status, vmk, ws, waits, encrypting, setups, requests, result>>
      /\ underway' = underway \ {t}
  BY DEF ResetServed, counts
<1>2. underway' \subseteq Tabs BY <1>1 DEF Inv, Typed
<1>3. Links' BY <1>1 DEF Inv, Links
<1>4. CASE UNCHANGED <<server, removed, overtaken, asked>>
  <2>1. UNCHANGED <<config, secrets, session>> BY <1>4 DEF server
  <2>2. Typed' BY <1>1, <1>2, <1>4, <2>1 DEF Inv, Typed
  <2>3. ~overtaken => \A q \in Tabs : {vmk'[q], encrypting'[q]} \subseteq {0, config} BY <1>1 DEF Inv, Keys
  <2> QED BY <1>1, <1>3, <1>4, <2>1, <2>2, <2>3, Unseen
<1>5. CASE /\ config' = 0 /\ secrets' = {} /\ session' = FALSE
           /\ removed' = removed \union {s.id : s \in secrets}
           /\ overtaken' = (overtaken \/ KeyInUse)
           /\ asked' = [asked EXCEPT ![t] = TRUE] \/ UNCHANGED asked
  <2>1. removed' \subseteq 1 .. MaxRequests
    BY <1>5, MessageType DEF Inv, Typed
  <2>2. overtaken' \in BOOLEAN /\ asked' \in [Tabs -> BOOLEAN] BY <1>5 DEF Inv, Typed
  <2>3. config' \in 0 .. MaxSetups /\ secrets' \subseteq Secret /\ session' \in BOOLEAN
    <3>1. MaxSetups \in Nat /\ config' = 0 /\ secrets' = {} /\ session' = FALSE
      BY <1>5, VaultAssumption
    <3>2. config' \in 0 .. MaxSetups /\ secrets' \subseteq Secret BY <3>1
    <3>3. session' \in BOOLEAN BY <3>1, Zenon
    <3> QED BY <3>2, <3>3
  <2>4. Typed' BY <1>1, <1>2, <2>1, <2>2, <2>3 DEF Inv, Typed
  <2>5. There' = There BY <1>5 DEF There
  <2>6. \A s \in Sockets : Shrinks(s) BY <1>1, Same
  <2>7. Answers' BY <1>1, <2>5, <2>6, AnswersKept DEF Inv, Shrinks
  <2>8. Keys'
    <3>1. ~overtaken' => ~KeyInUse BY <1>5
    <3> QED BY <1>1, <1>5, <3>1 DEF Keys, KeyInUse
  <2> QED BY <1>3, <2>4, <2>7, <2>8 DEF Inv
<1> QED BY <1>4, <1>5 DEF ResetServed

LEMMA ReloadInv == ASSUME Inv, NEW t \in Tabs, Reload(t) PROVE Inv'
<1>1. /\ UNCHANGED <<config, secrets, session, setups, requests, result, removed, overtaken>>
      /\ status' = [status EXCEPT ![t] = "unknown"] /\ vmk' = [vmk EXCEPT ![t] = 0]
      /\ ws' = [ws EXCEPT ![t] = None] /\ waits' = [waits EXCEPT ![t] = None]
      /\ encrypting' = [encrypting EXCEPT ![t] = 0] /\ asked' = [asked EXCEPT ![t] = TRUE]
      /\ underway' = underway
  BY DEF Reload, server, work, counts, history
<1>2. ASSUME NEW s \in Sockets
      PROVE  /\ sockets'[s] \in Socket \union {Free} /\ Shrinks(s)
             /\ sockets[s].client # "closed" /\ sockets[s].tab # t => sockets'[s] = sockets[s]
  <2>1. CASE sockets[s] = Free \/ sockets[s].tab # t
    <3>1. sockets'[s] = sockets[s] BY <2>1 DEF Reload
    <3> QED BY <3>1, Same DEF Inv, Typed
  <2>2. CASE ~(sockets[s] = Free \/ sockets[s].tab # t) /\ sockets[s].client = "connecting"
    <3>1. sockets'[s] = Free BY <2>2 DEF Reload
    <3>2. Free.client = "closed" /\ Free.up = <<>> /\ Free.down = <<>> BY DEF Free
    <3>3. MessagesKept(s, 0) /\ AnswersLeft(s) /\ KeyKept(s)
      BY <3>1, <3>2 DEF MessagesKept, AnswersLeft, KeyKept
    <3> QED BY <2>2, <3>1, <3>3 DEF Shrinks
  <2>3. CASE ~(sockets[s] = Free \/ sockets[s].tab # t) /\ sockets[s].client # "connecting"
    <3>1. sockets'[s] = [sockets[s] EXCEPT !.client = "closed", !.down = <<>>]
      BY <2>3 DEF Reload
    <3>2. sockets[s] \in Socket BY <2>3 DEF Inv, Typed
    <3>3. <<>> \in Seq(Answer) OBVIOUS
    <3>4. sockets'[s] \in Socket BY <3>1, <3>2, <3>3 DEF Socket
    <3>5. /\ sockets'[s].client = "closed"
          /\ sockets'[s].up = sockets[s].up /\ sockets'[s].down = <<>>
      BY <3>1, <3>2, <3>4 DEF Socket
    <3>6. MessagesKept(s, 0) /\ AnswersLeft(s) /\ KeyKept(s)
      BY <3>5, SocketType DEF MessagesKept, AnswersLeft, KeyKept, Inv
    <3> QED BY <2>3, <3>4, <3>6 DEF Shrinks
  <2> QED BY <2>1, <2>2, <2>3
<1>3. sockets' \in [Sockets -> Socket \union {Free}] BY <1>2 DEF Reload
<1>4. status' \in [Tabs -> Statuses] BY <1>1 DEF Inv, Typed, Statuses
<1>5. vmk' \in [Tabs -> 0 .. MaxSetups] BY <1>1, VaultAssumption DEF Inv, Typed
<1>6. Typed' BY <1>1, <1>3, <1>4, <1>5 DEF Inv, Typed
<1>7. ~overtaken => \A q \in Tabs : {vmk'[q], encrypting'[q]} \subseteq {0, config}
  BY <1>1 DEF Inv, Typed, Keys
<1>8. Links'
  <2>1. \A q \in Tabs : /\ ws'[q] = IF q = t THEN None ELSE ws[q]
                        /\ waits'[q] = IF q = t THEN None ELSE waits[q]
                        /\ ws[q] \in Sockets \union {None} /\ waits[q] \in Sockets \union {None}
    BY <1>1 DEF Inv, Typed
  <2> QED BY <1>2, <2>1 DEF Inv, Links
<1> QED BY <1>1, <1>2, <1>6, <1>7, <1>8, Shrunk

-----------------------------------------------------------------------------
(* The steps of a socket.                                                  *)

LEMMA Updated ==
  ASSUME Inv, NEW s \in Sockets, NEW r \in Socket \union {Free},
         sockets' = [sockets EXCEPT ![s] = r]
  PROVE  /\ sockets' \in [Sockets -> Socket \union {Free}] /\ sockets'[s] = r
         /\ \A q \in Sockets : q # s => sockets'[q] = sockets[q] /\ Shrinks(q)
         /\ \A t \in Tabs : ws[t] \in Sockets \union {None} /\ waits[t] \in Sockets \union {None}
<1>1. /\ sockets' \in [Sockets -> Socket \union {Free}] /\ sockets'[s] = r
      /\ \A q \in Sockets : q # s => sockets'[q] = sockets[q]
  BY SocketUpdate DEF Inv
<1>2. \A q \in Sockets : q # s => Shrinks(q) BY <1>1, Same
<1> QED BY <1>1, <1>2 DEF Inv, Typed

LEMMA Empty == <<>> \in Seq(Message) /\ <<>> \in Seq(Answer)
OBVIOUS

LEMMA OpensInv == ASSUME Inv, NEW s \in Sockets, Opens(s) PROVE Inv'
<1> DEFINE up == <<[type |-> "init"]>>
<1> DEFINE r == [sockets[s] EXCEPT !.client = "open", !.server = "open", !.up = up]
<1>1. /\ UNCHANGED <<config, secrets, session, status, vmk, ws, waits, encrypting, underway, asked,
                     setups, requests, result, removed, overtaken>>
      /\ sockets[s].client = "connecting"
      /\ sockets' = [sockets EXCEPT ![s] = r]
  BY DEF Opens, server, tab, work, counts, history, Inv, Typed
<1>2. sockets[s] \in Socket BY <1>1, SocketType DEF Inv
<1>3. up \in Seq(Message) /\ Len(up) = 1 /\ up[1].type = "init"
  <2>1. [type |-> "init"] \in Message BY DEF Message
  <2> QED BY <2>1
<1> HIDE DEF up
<1>4. r \in Socket BY <1>2, <1>3 DEF Socket
<1>5. /\ r.up = up /\ r.down = sockets[s].down /\ r.client = "open"
      /\ r.key = sockets[s].key /\ r.tab = sockets[s].tab
  BY <1>2 DEF Socket
<1> HIDE DEF r
<1>6. /\ sockets' \in [Sockets -> Socket \union {Free}] /\ sockets'[s] = r
      /\ \A q \in Sockets : q # s => sockets'[q] = sockets[q] /\ Shrinks(q)
      /\ \A t \in Tabs : ws[t] \in Sockets \union {None} /\ waits[t] \in Sockets \union {None}
  BY <1>1, <1>4, Updated
<1>7. Shrinks(s)
  <2>1. MessagesKept(s, 0) BY <1>3, <1>5, <1>6 DEF MessagesKept
  <2>2. AnswersLeft(s) /\ KeyKept(s) BY <1>1, <1>5, <1>6 DEF AnswersLeft, KeyKept
  <2> QED BY <2>1, <2>2 DEF Shrinks
<1>8. \A q \in Sockets : Shrinks(q) BY <1>6, <1>7
<1>9. Links' BY <1>1, <1>5, <1>6 DEF Inv, Links
<1>10. Typed' BY <1>1, <1>6 DEF Inv, Typed
<1>11. ~overtaken => \A q \in Tabs : {vmk'[q], encrypting'[q]} \subseteq {0, config} BY <1>1 DEF Inv, Keys
<1> QED BY <1>1, <1>8, <1>9, <1>10, <1>11, Shrunk

LEMMA LostInv == ASSUME Inv, NEW s \in Sockets, Lost(s) PROVE Inv'
<1> DEFINE r == IF sockets[s].client = "connecting" THEN Free
                ELSE [sockets[s] EXCEPT !.client = "closed", !.up = <<>>, !.down = <<>>]
<1>1. /\ UNCHANGED <<config, secrets, session, status, vmk, encrypting, underway, asked,
                     setups, requests, result, removed, overtaken>>
      /\ sockets[s].client \in {"connecting", "open"}
      /\ sockets' = [sockets EXCEPT ![s] = r]
      /\ ws' = [t \in Tabs |-> IF ws[t] = s THEN None ELSE ws[t]]
      /\ waits' = [t \in Tabs |-> IF waits[t] = s THEN None ELSE waits[t]]
  BY DEF Lost, server, work, counts, history, Inv, Typed
<1>2. sockets[s] \in Socket BY <1>1, SocketType DEF Inv
<1>3. r \in Socket \union {Free} /\ r.up = <<>> /\ r.down = <<>> /\ r.client = "closed"
  BY <1>2, Empty DEF Socket, Free
<1> HIDE DEF r
<1>4. /\ sockets' \in [Sockets -> Socket \union {Free}] /\ sockets'[s] = r
      /\ \A q \in Sockets : q # s => sockets'[q] = sockets[q] /\ Shrinks(q)
      /\ \A t \in Tabs : ws[t] \in Sockets \union {None} /\ waits[t] \in Sockets \union {None}
  BY <1>1, <1>3, Updated
<1>5. Shrinks(s)
  <2>1. MessagesKept(s, 0) BY <1>3, <1>4 DEF MessagesKept
  <2>2. AnswersLeft(s) /\ KeyKept(s) BY <1>3, <1>4 DEF AnswersLeft, KeyKept
  <2> QED BY <2>1, <2>2 DEF Shrinks
<1>6. \A q \in Sockets : Shrinks(q) BY <1>4, <1>5
<1>7. Links' BY <1>1, <1>4 DEF Inv, Links
<1>8. ws' \in [Tabs -> Sockets \union {None}] /\ waits' \in [Tabs -> Sockets \union {None}]
  BY <1>1, <1>4
<1>9. Typed' BY <1>1, <1>4, <1>8 DEF Inv, Typed
<1>10. ~overtaken => \A q \in Tabs : {vmk'[q], encrypting'[q]} \subseteq {0, config} BY <1>1 DEF Inv, Keys
<1> QED BY <1>1, <1>6, <1>7, <1>9, <1>10, Shrunk

\* Whoever's socket was closed, no key is in use because of it.
LEMMA SocketClosedInv == ASSUME Inv, NEW s \in Sockets, SocketClosed(s) PROVE Inv'
<1>1. /\ UNCHANGED <<config, secrets, status, vmk, ws, waits, encrypting, underway, asked,
                     setups, requests, result, removed, overtaken>>
      /\ sockets[s].client = "closed" /\ session' = FALSE
      /\ sockets' = [sockets EXCEPT ![s] = Free]
  BY DEF SocketClosed, tab, work, counts, history
<1>2. Free.up = <<>> /\ Free.down = <<>> /\ Free.client = "closed" BY DEF Free
<1>3. /\ sockets' \in [Sockets -> Socket \union {Free}] /\ sockets'[s] = Free
      /\ \A q \in Sockets : q # s => sockets'[q] = sockets[q] /\ Shrinks(q)
      /\ \A t \in Tabs : ws[t] \in Sockets \union {None} /\ waits[t] \in Sockets \union {None}
  BY <1>1, Updated
<1>4. Shrinks(s)
  <2>1. MessagesKept(s, 0) BY <1>2, <1>3 DEF MessagesKept
  <2>2. AnswersLeft(s) /\ KeyKept(s) BY <1>2, <1>3 DEF AnswersLeft, KeyKept
  <2> QED BY <2>1, <2>2 DEF Shrinks
<1>5. \A q \in Sockets : Shrinks(q) BY <1>3, <1>4
<1>6. Links' BY <1>1, <1>3 DEF Inv, Links
<1>7. Typed' BY <1>1, <1>3 DEF Inv, Typed
<1>8. ~overtaken => \A q \in Tabs : {vmk'[q], encrypting'[q]} \subseteq {0, config} BY <1>1 DEF Inv, Keys
<1> QED BY <1>1, <1>5, <1>6, <1>7, <1>8, Shrunk

\* The message that is handled leaves the socket, and an answer may follow.
LEMMA Handled ==
  ASSUME Inv, NEW s \in Sockets, NEW type, First(s, type),
         NEW answers \in Seq(Answer), Handle(s, answers), ws' = ws, waits' = waits
  PROVE  /\ sockets' \in [Sockets -> Socket \union {Free}]
         /\ \A q \in Sockets : q # s => sockets'[q] = sockets[q] /\ Shrinks(q)
         /\ MessagesKept(s, 1) /\ KeyKept(s)
         /\ sockets'[s].down = IF sockets[s].client = "open" THEN sockets[s].down \o answers
                               ELSE <<>>
         /\ 1 \in 1 .. Len(sockets[s].up) /\ sockets[s].up[1] = Head(sockets[s].up)
         /\ Head(sockets[s].up).type = type /\ Head(sockets[s].up) \in Message
         /\ sockets[s].down \in Seq(Answer)
         /\ Links'
<1> DEFINE down == IF sockets[s].client = "open" THEN sockets[s].down \o answers ELSE <<>>
<1> DEFINE up == Tail(sockets[s].up)
<1> DEFINE r == [sockets[s] EXCEPT !.up = up, !.down = down]
<1>1. sockets[s].server = "open" /\ sockets[s].up # <<>> /\ Head(sockets[s].up).type = type
  BY DEF First
<1>2. sockets[s] \in Socket BY <1>1, SocketType DEF Inv
<1>3. sockets[s].up \in Seq(Message) /\ sockets[s].down \in Seq(Answer) BY <1>2 DEF Socket
<1>4. sockets' = [sockets EXCEPT ![s] = r] BY DEF Handle, Inv, Typed
<1>5. up \in Seq(Message) /\ down \in Seq(Answer) BY <1>1, <1>3, Empty
<1>6. /\ Len(up) = Len(sockets[s].up) - 1 /\ Len(sockets[s].up) \in Nat
      /\ \A k \in 1 .. Len(up) : up[k] = sockets[s].up[k + 1]
  BY <1>1, <1>3
<1>7. /\ 1 \in 1 .. Len(sockets[s].up) /\ sockets[s].up[1] = Head(sockets[s].up)
      /\ Head(sockets[s].up) \in Message
  BY <1>1, <1>3
<1>8. down = IF sockets[s].client = "open" THEN sockets[s].down \o answers ELSE <<>>
  OBVIOUS
<1> HIDE DEF up, down
<1>9. r \in Socket BY <1>2, <1>5 DEF Socket
<1>10. /\ r.up = up /\ r.down = down /\ r.client = sockets[s].client
       /\ r.key = sockets[s].key /\ r.tab = sockets[s].tab
  BY <1>2 DEF Socket
<1> HIDE DEF r
<1>11. /\ sockets' \in [Sockets -> Socket \union {Free}] /\ sockets'[s] = r
       /\ \A q \in Sockets : q # s => sockets'[q] = sockets[q] /\ Shrinks(q)
       /\ \A t \in Tabs : ws[t] \in Sockets \union {None} /\ waits[t] \in Sockets \union {None}
  BY <1>4, <1>9, Updated
<1>12. MessagesKept(s, 1) BY <1>6, <1>10, <1>11 DEF MessagesKept
<1>13. KeyKept(s) BY <1>10, <1>11 DEF KeyKept
<1>14. Links' BY <1>10, <1>11 DEF Inv, Links
<1> QED BY <1>1, <1>3, <1>7, <1>8, <1>10, <1>11, <1>12, <1>13, <1>14

LEMMA SessionMessageInv == ASSUME Inv, NEW s \in Sockets, SessionInit(s) \/ SessionClose(s) PROVE Inv'
<1>1. /\ UNCHANGED <<config, secrets, status, vmk, ws, waits, encrypting, underway, asked,
                     setups, requests, result, removed, overtaken>>
      /\ session' \in BOOLEAN
  BY DEF SessionInit, SessionClose, tab, work, counts, history
<1>2. PICK answers \in Seq(Answer), type \in {"init", "close"} :
        /\ First(s, type) /\ Handle(s, answers)
        /\ \A k \in 1 .. Len(answers) : answers[k].type # "stored"
  <2>1. CASE SessionInit(s)
    <3> DEFINE a == <<[type |-> "ready"]>>
    <3>1. [type |-> "ready"] \in Answer BY DEF Answer
    <3>2. a \in Seq(Answer) /\ \A k \in 1 .. Len(a) : a[k].type # "stored" BY <3>1
    <3> QED BY <2>1, <3>2 DEF SessionInit
  <2>2. CASE SessionClose(s)
    <3>1. <<>> \in Seq(Answer) /\ \A k \in 1 .. Len(<<>>) : <<>>[k].type # "stored" BY Empty
    <3> QED BY <2>2, <3>1 DEF SessionClose
  <2> QED BY <2>1, <2>2
<1>3. /\ sockets' \in [Sockets -> Socket \union {Free}]
      /\ \A q \in Sockets : q # s => Shrinks(q)
      /\ MessagesKept(s, 1) /\ KeyKept(s)
      /\ sockets'[s].down = IF sockets[s].client = "open" THEN sockets[s].down \o answers
                            ELSE <<>>
      /\ sockets[s].down \in Seq(Answer) /\ Links'
  BY <1>1, <1>2, Handled
<1>4. AnswersLeft(s) BY <1>2, <1>3 DEF AnswersLeft
<1>5. \A q \in Sockets : Shrinks(q) BY <1>3, <1>4 DEF Shrinks
<1>6. Typed' BY <1>1, <1>3 DEF Inv, Typed
<1>7. ~overtaken => \A q \in Tabs : {vmk'[q], encrypting'[q]} \subseteq {0, config} BY <1>1 DEF Inv, Keys
<1> QED BY <1>1, <1>3, <1>5, <1>6, <1>7, Shrunk

LEMMA HandleDeleteSecretInv == ASSUME Inv, NEW s \in Sockets, HandleDeleteSecret(s) PROVE Inv'
<1>1. /\ UNCHANGED <<config, session, status, vmk, ws, waits, encrypting, underway, asked,
                     setups, requests, result, overtaken>>
      /\ First(s, "delete") /\ Handle(s, <<>>)
  BY DEF HandleDeleteSecret, tab, work, counts
<1>2. secrets' \subseteq secrets /\ removed' = removed \union {x.id : x \in secrets \ secrets'}
  <2>1. CASE session BY <2>1 DEF HandleDeleteSecret
  <2>2. CASE ~session BY <2>2 DEF HandleDeleteSecret
  <2> QED BY <2>1, <2>2
<1>3. There' = There BY <1>2 DEF There
<1>4. /\ sockets' \in [Sockets -> Socket \union {Free}]
      /\ \A q \in Sockets : q # s => Shrinks(q)
      /\ MessagesKept(s, 1) /\ KeyKept(s)
      /\ sockets'[s].down = IF sockets[s].client = "open" THEN sockets[s].down \o <<>>
                            ELSE <<>>
      /\ sockets[s].down \in Seq(Answer) /\ Links'
  BY <1>1, Empty, Handled
<1>5. AnswersLeft(s) BY <1>4 DEF AnswersLeft
<1>6. \A q \in Sockets : Shrinks(q) BY <1>4, <1>5 DEF Shrinks
<1>7. removed' \subseteq 1 .. MaxRequests
  <2>1. \A x \in secrets : x.id \in 1 .. MaxRequests BY MessageType DEF Inv, Typed
  <2> QED BY <2>1, <1>2 DEF Inv, Typed
<1>8. Typed' BY <1>1, <1>2, <1>4, <1>7 DEF Inv, Typed
<1>9. ~overtaken => \A q \in Tabs : {vmk'[q], encrypting'[q]} \subseteq {0, config} BY <1>1 DEF Inv, Keys
<1>10. Keys' BY <1>1, <1>2, <1>6, <1>9, KeysKept DEF Inv
<1>11. Answers' BY <1>1, <1>3, <1>6, AnswersKept DEF Inv, Shrinks
<1> QED BY <1>4, <1>8, <1>10, <1>11 DEF Inv

LEMMA SessionGoneInv == ASSUME Inv, SessionGone PROVE Inv'
<1>1. /\ UNCHANGED <<config, secrets, sockets, status, vmk, ws, waits, encrypting, underway, asked,
                     setups, requests, result, removed, overtaken>>
      /\ session' = FALSE
  BY DEF SessionGone, tab, work, counts, history
<1>2. Typed' BY <1>1 DEF Inv, Typed
<1>3. Links' BY <1>1 DEF Inv, Links
<1>4. ~overtaken => \A q \in Tabs : {vmk'[q], encrypting'[q]} \subseteq {0, config} BY <1>1 DEF Inv, Keys
<1> QED BY <1>1, <1>2, <1>3, <1>4, Unseen

-----------------------------------------------------------------------------
(* Requests and answers.                                                   *)

LEMMA Sent ==
  ASSUME Inv, NEW t \in Tabs, ws[t] # None, NEW m \in Message, Send(t, m),
         ws' = ws, waits' = waits
  PROVE  /\ ws[t] \in Sockets
         /\ sockets' \in [Sockets -> Socket \union {Free}]
         /\ \A q \in Sockets : q # ws[t] => sockets'[q] = sockets[q] /\ Shrinks(q)
         /\ sockets'[ws[t]].up = Append(sockets[ws[t]].up, m)
         /\ sockets[ws[t]].up \in Seq(Message)
         /\ sockets'[ws[t]].down = sockets[ws[t]].down
         /\ KeyKept(ws[t]) /\ AnswersLeft(ws[t])
         /\ Links'
<1> DEFINE s == ws[t]
<1> DEFINE up == Append(sockets[s].up, m)
<1> DEFINE r == [sockets[s] EXCEPT !.up = up]
<1>1. s \in Sockets /\ sockets[s].client = "open" /\ s = ws[t] BY DEF Inv, Typed, Links
<1>2. sockets' = [sockets EXCEPT ![s] = r] BY <1>1 DEF Send, Inv, Typed
<1> HIDE DEF s
<1>3. sockets[s] \in Socket BY <1>1, SocketType DEF Inv
<1>4. sockets[s].up \in Seq(Message) BY <1>3 DEF Socket
<1>5. up \in Seq(Message) /\ up = Append(sockets[s].up, m) BY <1>4
<1> HIDE DEF up
<1>6. r \in Socket BY <1>3, <1>5 DEF Socket
<1>7. /\ r.up = up /\ r.down = sockets[s].down /\ r.client = sockets[s].client
      /\ r.key = sockets[s].key /\ r.tab = sockets[s].tab
  BY <1>3 DEF Socket
<1> HIDE DEF r
<1>8. /\ sockets' \in [Sockets -> Socket \union {Free}] /\ sockets'[s] = r
      /\ \A q \in Sockets : q # s => sockets'[q] = sockets[q] /\ Shrinks(q)
      /\ \A q \in Tabs : ws[q] \in Sockets \union {None} /\ waits[q] \in Sockets \union {None}
  BY <1>1, <1>2, <1>6, Updated
<1>9. KeyKept(s) /\ AnswersLeft(s) BY <1>7, <1>8 DEF KeyKept, AnswersLeft
<1>10. Links' BY <1>7, <1>8 DEF Inv, Links
<1> QED BY <1>1, <1>4, <1>5, <1>7, <1>8, <1>9, <1>10

LEMMA DeleteSecretInv == ASSUME Inv, NEW t \in Tabs, DeleteSecret(t) PROVE Inv'
<1>1. /\ UNCHANGED <<config, secrets, session, status, vmk, ws, waits, encrypting, underway, asked,
                     setups, requests, result, removed, overtaken>>
      /\ ws[t] # None
  BY DEF DeleteSecret, server, tab, work, counts, history
<1>2. PICK m \in Message : m.type = "delete" /\ Send(t, m)
  <2>1. PICK x \in secrets : Send(t, [type |-> "delete", id |-> x.id]) BY DEF DeleteSecret
  <2>2. x.id \in 1 .. MaxRequests BY MessageType DEF Inv, Typed
  <2>3. [type |-> "delete", id |-> x.id] \in Message BY <2>2 DEF Message
  <2> QED BY <2>1, <2>3
<1> DEFINE s == ws[t]
<1>3. /\ s \in Sockets
      /\ sockets' \in [Sockets -> Socket \union {Free}]
      /\ \A q \in Sockets : q # s => Shrinks(q)
      /\ sockets'[s].up = Append(sockets[s].up, m) /\ sockets[s].up \in Seq(Message)
      /\ KeyKept(s) /\ AnswersLeft(s) /\ Links'
  BY <1>1, <1>2, Sent
<1> HIDE DEF s
<1>4. MessagesKept(s, 0) BY <1>2, <1>3 DEF MessagesKept
<1>5. \A q \in Sockets : Shrinks(q) BY <1>3, <1>4 DEF Shrinks
<1>6. Typed' BY <1>1, <1>3 DEF Inv, Typed
<1>7. ~overtaken => \A q \in Tabs : {vmk'[q], encrypting'[q]} \subseteq {0, config} BY <1>1 DEF Inv, Keys
<1> QED BY <1>1, <1>3, <1>5, <1>6, <1>7, Shrunk

LEMMA StoreSecretInv == ASSUME Inv, NEW t \in Tabs, StoreSecret(t) PROVE Inv'
<1>1. /\ UNCHANGED <<config, secrets, session, sockets, status, vmk, ws, waits, underway, asked,
                     setups, requests, result, removed, overtaken>>
      /\ encrypting' = [encrypting EXCEPT ![t] = vmk[t]]
  BY DEF StoreSecret, server, counts, history
<1>2. Typed' BY <1>1 DEF Inv, Typed
<1>3. Links' BY <1>1 DEF Inv, Links
<1>4. ~overtaken => \A q \in Tabs : {vmk'[q], encrypting'[q]} \subseteq {0, config}
  BY <1>1 DEF Inv, Typed, Keys
<1> QED BY <1>1, <1>2, <1>3, <1>4, Unseen

LEMMA EncryptionEnds ==
  ASSUME Inv, NEW t \in Tabs, encrypting' = [encrypting EXCEPT ![t] = 0], vmk' = vmk
  PROVE  /\ encrypting' \in [Tabs -> 0 .. MaxSetups]
         /\ ~overtaken => \A q \in Tabs : {vmk'[q], encrypting'[q]} \subseteq {0, config}
<1>1. 0 \in 0 .. MaxSetups BY VaultAssumption
<1> QED BY <1>1 DEF Inv, Typed, Keys

\* The secret goes out encrypted with the vault's key.
LEMMA SecretSent ==
  ASSUME Inv, NEW t \in Tabs, StoreSent(t), ws[t] # None, requests < MaxRequests,
         requests' = requests + 1,
         Send(t, [type |-> "store", secret |-> [id |-> requests', key |-> encrypting[t]]])
  PROVE  Inv'
<1> DEFINE n == requests + 1
<1> DEFINE m == [type |-> "store", secret |-> [id |-> n, key |-> encrypting[t]]]
<1> DEFINE s == ws[t]
<1>1. /\ UNCHANGED <<config, secrets, session, status, vmk, ws, waits, underway, asked,
                     setups, result, removed, overtaken>>
      /\ ws[t] # None /\ encrypting[t] # 0 /\ requests' = n /\ Send(t, m)
      /\ encrypting' \in [Tabs -> 0 .. MaxSetups]
      /\ ~overtaken => \A q \in Tabs : {vmk'[q], encrypting'[q]} \subseteq {0, config}
  BY EncryptionEnds DEF StoreSent, server, history
<1>2. n \in Ids /\ n = requests + 1 /\ requests \in Nat /\ n \in 0 .. MaxRequests
  BY VaultAssumption DEF Inv, Typed, Ids
<1>3. encrypting[t] \in 1 .. MaxSetups BY <1>1 DEF Inv, Typed
<1>4. /\ m \in Message /\ m.type = "store" /\ m.secret.id = n /\ m.secret.key = encrypting[t]
  <2> HIDE DEF n
  <2>1. [id |-> n, key |-> encrypting[t]] \in Secret BY <1>2, <1>3 DEF Secret, Ids
  <2> QED BY <2>1 DEF Message
<1> HIDE DEF n, m
<1>5. /\ s \in Sockets
      /\ sockets' \in [Sockets -> Socket \union {Free}]
      /\ \A q \in Sockets : q # s => sockets'[q] = sockets[q] /\ Shrinks(q)
      /\ sockets'[s].up = Append(sockets[s].up, m) /\ sockets[s].up \in Seq(Message)
      /\ sockets'[s].down = sockets[s].down
      /\ KeyKept(s) /\ AnswersLeft(s) /\ Links'
  BY <1>1, <1>4, Sent
<1> HIDE DEF s
<1>6. /\ Len(sockets[s].up) \in Nat
      /\ Len(sockets'[s].up) = Len(sockets[s].up) + 1
      /\ sockets'[s].up[Len(sockets[s].up) + 1] = m
      /\ \A k \in 1 .. Len(sockets[s].up) : sockets'[s].up[k] = sockets[s].up[k]
  BY <1>5
<1>7. Typed' BY <1>1, <1>2, <1>5 DEF Inv, Typed
<1>8. Keys'
  <2> SUFFICES ASSUME ~overtaken PROVE
          /\ \A x \in secrets' : x.key = config'
          /\ \A q \in Tabs : {vmk'[q], encrypting'[q]} \subseteq {0, config'}
          /\ \A q \in Sockets : sockets'[q].client # "closed" => sockets'[q].key = config'
          /\ \A q \in Sockets : \A k \in 1 .. Len(sockets'[q].up) :
               sockets'[q].up[k].type = "store" => sockets'[q].up[k].secret.key = config'
    BY <1>1 DEF Keys
  <2>1. /\ \A x \in secrets' : x.key = config'
        /\ \A q \in Tabs : {vmk'[q], encrypting'[q]} \subseteq {0, config'}
    BY <1>1 DEF Inv, Keys
  <2>2. \A q \in Sockets : sockets'[q].client # "closed" => sockets'[q].key = config'
    BY <1>1, <1>5 DEF Inv, Keys, KeyKept
  <2>3. m.secret.key = config' BY <1>1, <1>4 DEF Inv, Keys
  <2>4. ASSUME NEW q \in Sockets, NEW k \in 1 .. Len(sockets'[q].up),
               sockets'[q].up[k].type = "store"
        PROVE  sockets'[q].up[k].secret.key = config'
    <3>1. CASE q # s BY <3>1, <2>4, <1>1, <1>5 DEF Inv, Keys
    <3>2. CASE q = s
      <4>1. k \in 1 .. Len(sockets[s].up) \/ k = Len(sockets[s].up) + 1 BY <3>2, <1>6
      <4>2. CASE k = Len(sockets[s].up) + 1 BY <4>2, <3>2, <2>3, <1>6
      <4>3. CASE k \in 1 .. Len(sockets[s].up)
        <5>1. sockets'[s].up[k] = sockets[s].up[k] BY <4>3, <1>6
        <5> QED BY <5>1, <4>3, <3>2, <2>4, <1>1, <1>5 DEF Inv, Keys
      <4> QED BY <4>1, <4>2, <4>3
    <3> QED BY <3>1, <3>2
  <2> QED BY <2>1, <2>2, <2>4
<1>9. There' = There BY <1>1 DEF There
<1>10. result[n] = "unknown" /\ n \notin There BY <1>2 DEF Inv, Answers, Known
<1>11. \A q \in Sockets, k \in Nat, i \in Ids : Asks(q, k, i)' =>
          Asks(q, k, i) \/ (q = s /\ k = Len(sockets[s].up) + 1 /\ i = n)
  <2> SUFFICES ASSUME NEW q \in Sockets, NEW k \in Nat, NEW i \in Ids, Asks(q, k, i)'
               PROVE  Asks(q, k, i) \/ (q = s /\ k = Len(sockets[s].up) + 1 /\ i = n)
    OBVIOUS
  <2>1. CASE q # s BY <2>1, <1>5 DEF Asks
  <2>2. CASE q = s
    <3>1. k \in 1 .. Len(sockets[s].up) \/ k = Len(sockets[s].up) + 1 BY <2>2, <1>6 DEF Asks
    <3> QED BY <3>1, <2>2, <1>4, <1>6 DEF Asks
  <2> QED BY <2>1, <2>2
<1>12. \A q \in Sockets, k \in Nat, i \in Ids, b \in BOOLEAN :
         Answering(q, k, i, b)' => Answering(q, k, i, b)
  BY <1>5 DEF Answering
<1>13. \A q \in Sockets, k \in Nat, b \in BOOLEAN : ~Asks(q, k, n) /\ ~Answering(q, k, n, b)
  <2>1. ~(n <= requests) BY <1>2
  <2>2. \A q \in Sockets, k \in Nat : ~Asks(q, k, n) BY <2>1, <1>2 DEF Inv, Answers, Pending
  <2>3. \A q \in Sockets, k \in Nat : ~Answering(q, k, n, TRUE) /\ ~Answering(q, k, n, FALSE)
    BY <2>1, <1>2 DEF Inv, Answers, Truthful
  <2> QED BY <2>2, <2>3
<1>14. \A i \in Ids : i <= requests => i <= requests' BY <1>1, <1>2 DEF Ids
<1>15. Pending'
  <2> SUFFICES ASSUME NEW q \in Sockets, NEW k \in Nat, NEW i \in Ids, Asks(q, k, i)'
               PROVE  /\ i <= requests' /\ result'[i] = "unknown" /\ i \notin There'
                      /\ \A r \in Sockets, j \in Nat, b \in BOOLEAN : ~Answering(r, j, i, b)'
    BY DEF Pending
  <2>1. CASE Asks(q, k, i)
    BY <2>1, <1>1, <1>9, <1>12, <1>14 DEF Inv, Answers, Pending
  <2>2. CASE i = n
    <3>1. n <= requests' BY <1>1, <1>2
    <3> QED BY <3>1, <2>2, <1>1, <1>9, <1>10, <1>12, <1>13
  <2> QED BY <2>1, <2>2, <1>11
<1>16. Once'
  <2> SUFFICES ASSUME NEW q \in Sockets, NEW r \in Sockets, NEW k \in Nat, NEW j \in Nat,
                      NEW i \in Ids, Asks(q, k, i)', Asks(r, j, i)'
               PROVE  q = r /\ k = j
    BY DEF Once
  <2>1. CASE i = n BY <2>1, <1>11, <1>13
  <2>2. CASE i # n BY <2>2, <1>11 DEF Inv, Answers, Once
  <2> QED BY <2>1, <2>2
<1>17. Truthful' BY <1>9, <1>12, <1>14 DEF Inv, Answers, Truthful
<1>18. Known'
  <2>1. \A i \in Ids : i > requests' => i > requests BY <1>1, <1>2 DEF Ids
  <2> QED BY <2>1, <1>1, <1>9 DEF Inv, Answers, Known
<1> QED BY <1>5, <1>7, <1>8, <1>15, <1>16, <1>17, <1>18 DEF Inv, Answers

LEMMA StoreSentInv == ASSUME Inv, NEW t \in Tabs, StoreSent(t) PROVE Inv'
<1>1. CASE UNCHANGED <<sockets, requests>>
  <2>1. /\ UNCHANGED <<config, secrets, session, status, vmk, ws, waits, underway, asked,
                       setups, result, removed, overtaken>>
        /\ encrypting' \in [Tabs -> 0 .. MaxSetups]
        /\ ~overtaken => \A q \in Tabs : {vmk'[q], encrypting'[q]} \subseteq {0, config}
    BY EncryptionEnds DEF StoreSent, server, history
  <2>2. Typed' BY <1>1, <2>1 DEF Inv, Typed
  <2>3. Links' BY <1>1, <2>1 DEF Inv, Links
  <2> QED BY <1>1, <2>1, <2>2, <2>3, Unseen
<1> QED BY <1>1, SecretSent DEF StoreSent

\* A secret is stored and answered for, or neither stored nor acknowledged.
LEMMA HandleStoreSecretInv == ASSUME Inv, NEW s \in Sockets, HandleStoreSecret(s) PROVE Inv'
<1> DEFINE m == Head(sockets[s].up)
<1> DEFINE n == m.secret.id
<1>1. /\ UNCHANGED <<config, session, status, vmk, ws, waits, encrypting, underway, asked,
                     setups, requests, result, removed, overtaken>>
      /\ First(s, "store")
  BY DEF HandleStoreSecret, tab, work, counts, history
<1>2. PICK b \in BOOLEAN :
        /\ secrets' = IF b THEN secrets \union {m.secret} ELSE secrets
        /\ Handle(s, <<[type |-> "stored", id |-> n, success |-> b]>>)
  <2>1. PICK fits \in BOOLEAN :
          /\ secrets' = IF session /\ fits THEN secrets \union {m.secret} ELSE secrets
          /\ Handle(s, <<[type |-> "stored", id |-> n, success |-> session /\ fits]>>)
    BY DEF HandleStoreSecret
  <2>2. (session /\ fits) \in BOOLEAN BY Zenon
  <2> QED BY <2>1, <2>2, Zenon
<1>3. sockets[s].up \in Seq(Message) /\ sockets[s].up # <<>> /\ m.type = "store"
  <2>1. sockets[s].server = "open" /\ sockets[s].up # <<>> /\ m.type = "store" BY <1>1 DEF First
  <2> QED BY <2>1, SocketType DEF Inv, Socket
<1>4. m \in Message /\ m.secret \in Secret /\ n \in Ids
  <2>1. m \in Message BY <1>3
  <2> QED BY <2>1, <1>3, MessageType DEF Ids
<1> DEFINE a == [type |-> "stored", id |-> n, success |-> b]
<1>5. a \in Answer /\ a.type = "stored" /\ a.id = n /\ a.success = b
  <2> HIDE DEF n
  <2>1. a \in [type : {"stored"}, id : 1 .. MaxRequests, success : BOOLEAN]
    BY <1>4 DEF Ids
  <2> QED BY <2>1 DEF Answer
<1> HIDE DEF a
<1>6. <<a>> \in Seq(Answer) /\ Handle(s, <<a>>) BY <1>2, <1>5 DEF a
<1>7. /\ sockets' \in [Sockets -> Socket \union {Free}]
      /\ \A q \in Sockets : q # s => sockets'[q] = sockets[q] /\ Shrinks(q)
      /\ MessagesKept(s, 1) /\ KeyKept(s)
      /\ sockets'[s].down = IF sockets[s].client = "open" THEN sockets[s].down \o <<a>>
                            ELSE <<>>
      /\ 1 \in 1 .. Len(sockets[s].up) /\ sockets[s].up[1] = m
      /\ sockets[s].down \in Seq(Answer)
      /\ Links'
  BY <1>1, <1>6, Handled
<1>8. Asks(s, 1, n) BY <1>3, <1>7 DEF Asks
<1> HIDE DEF m, n
<1>9. secrets' \subseteq Secret BY <1>2, <1>4 DEF Inv, Typed
<1>10. Typed' BY <1>1, <1>7, <1>9 DEF Inv, Typed
<1>11. Keys'
  <2> SUFFICES ASSUME ~overtaken PROVE
          /\ \A x \in secrets' : x.key = config'
          /\ \A q \in Tabs : {vmk'[q], encrypting'[q]} \subseteq {0, config'}
          /\ \A q \in Sockets : sockets'[q].client # "closed" => sockets'[q].key = config'
          /\ \A q \in Sockets : \A k \in 1 .. Len(sockets'[q].up) :
               sockets'[q].up[k].type = "store" => sockets'[q].up[k].secret.key = config'
    BY <1>1 DEF Keys
  <2>1. m.secret.key = config BY <1>3, <1>7 DEF Inv, Keys
  <2>2. \A x \in secrets' : x.key = config' BY <2>1, <1>1, <1>2 DEF Inv, Keys
  <2>3. \A q \in Tabs : {vmk'[q], encrypting'[q]} \subseteq {0, config'} BY <1>1 DEF Inv, Keys
  <2>4. \A q \in Sockets : sockets'[q].client # "closed" => sockets'[q].key = config'
    BY <1>1, <1>7 DEF Inv, Keys, KeyKept
  <2>5. ASSUME NEW q \in Sockets, NEW k \in 1 .. Len(sockets'[q].up),
               sockets'[q].up[k].type = "store"
        PROVE  sockets'[q].up[k].secret.key = config'
    <3>1. CASE q # s BY <3>1, <2>5, <1>1, <1>7 DEF Inv, Keys
    <3>2. CASE q = s
      <4>1. /\ k + 1 \in 1 .. Len(sockets[s].up)
            /\ sockets[s].up[k + 1] = sockets'[q].up[k]
        BY <3>2, <2>5, <1>7 DEF MessagesKept
      <4> QED BY <4>1, <2>5, <1>1 DEF Inv, Keys
    <3> QED BY <3>1, <3>2
  <2> QED BY <2>2, <2>3, <2>4, <2>5
<1>12. There' = IF b THEN There \union {n} ELSE There
  BY <1>1, <1>2 DEF There, n
\* The secret is asked for nowhere else, and was not answered before.
<1>13. ASSUME NEW q \in Sockets, NEW k \in Nat, NEW i \in Ids, Asks(q, k, i)'
       PROVE  \E d \in {0, 1} : /\ k + d \in Nat /\ Asks(q, k + d, i)
                                /\ MessagesKept(q, d) /\ (q = s => d = 1)
  <2>1. PICK d \in {0, 1} : MessagesKept(q, d) /\ (q = s => d = 1) BY <1>7 DEF Shrinks
  <2>2. k + d \in Nat /\ Asks(q, k + d, i) BY <2>1, <1>13 DEF MessagesKept, Asks
  <2> QED BY <2>1, <2>2
<1>14. ASSUME NEW q \in Sockets, NEW k \in Nat, NEW i \in Ids, Asks(q, k, i)' PROVE i # n
  <2>1. SUFFICES ASSUME i = n PROVE FALSE OBVIOUS
  <2>2. PICK d \in {0, 1} : k + d \in Nat /\ Asks(q, k + d, n) /\ (q = s => d = 1)
    BY <1>13, <1>14, <2>1
  <2>3. q = s /\ k + d = 1 BY <2>2, <1>4, <1>8 DEF Inv, Answers, Once
  <2>4. k = 0 BY <2>2, <2>3
  <2> QED BY <2>4, <1>14 DEF Asks
<1>15. ASSUME NEW q \in Sockets, NEW k \in Nat, NEW i \in Ids, NEW c \in BOOLEAN,
              Answering(q, k, i, c)'
       PROVE  (\E j \in Nat : Answering(q, j, i, c)) \/ (i = n /\ c = b)
  <2>1. CASE q # s BY <2>1, <1>7, <1>15 DEF Answering
  <2>2. CASE q = s
    <3>1. k \in 1 .. Len(sockets'[s].down) BY <2>2, <1>15 DEF Answering
    <3>2. sockets'[s].down = sockets[s].down \o <<a>> BY <3>1, <1>7
    <3>3. /\ Len(sockets[s].down) \in Nat
          /\ k \in 1 .. Len(sockets[s].down) => sockets'[s].down[k] = sockets[s].down[k]
          /\ k \notin 1 .. Len(sockets[s].down) => sockets'[s].down[k] = a
      BY <3>1, <3>2, <1>5, <1>7
    <3> QED BY <3>3, <2>2, <1>5, <1>15 DEF Answering
  <2> QED BY <2>1, <2>2
<1>16. \A q \in Sockets, k \in Nat, c \in BOOLEAN : ~Answering(q, k, n, c)
  BY <1>4, <1>8 DEF Inv, Answers, Pending
<1>17. n <= requests /\ result[n] = "unknown" BY <1>4, <1>8 DEF Inv, Answers, Pending
<1>18. Pending'
  <2> SUFFICES ASSUME NEW q \in Sockets, NEW k \in Nat, NEW i \in Ids, Asks(q, k, i)'
               PROVE  /\ i <= requests' /\ result'[i] = "unknown" /\ i \notin There'
                      /\ \A r \in Sockets, j \in Nat, c \in BOOLEAN : ~Answering(r, j, i, c)'
    BY DEF Pending
  <2>1. PICK d \in {0, 1} : k + d \in Nat /\ Asks(q, k + d, i) BY <1>13
  <2>2. i # n BY <1>14
  <2>3. /\ i <= requests /\ result[i] = "unknown" /\ i \notin There
        /\ \A r \in Sockets, j \in Nat, c \in BOOLEAN : ~Answering(r, j, i, c)
    BY <2>1 DEF Inv, Answers, Pending
  <2> QED BY <2>2, <2>3, <1>1, <1>12, <1>15
<1>19. Once'
  <2> SUFFICES ASSUME NEW q \in Sockets, NEW r \in Sockets, NEW k \in Nat, NEW j \in Nat,
                      NEW i \in Ids, Asks(q, k, i)', Asks(r, j, i)'
               PROVE  q = r /\ k = j
    BY DEF Once
  <2>1. PICK d \in {0, 1} : k + d \in Nat /\ Asks(q, k + d, i) /\ MessagesKept(q, d)
    BY <1>13
  <2>2. PICK e \in {0, 1} : j + e \in Nat /\ Asks(r, j + e, i) /\ MessagesKept(r, e)
    BY <1>13
  <2>3. q = r /\ k + d = j + e BY <2>1, <2>2 DEF Inv, Answers, Once
  <2>4. Asks(r, j + d, i) BY <2>1, <2>3 DEF MessagesKept, Asks
  <2>5. j + d \in Nat BY <2>1
  <2>6. j + d = k + d BY <2>1, <2>3, <2>4, <2>5 DEF Inv, Answers, Once
  <2> QED BY <2>3, <2>6
<1>20. Truthful'
  <2> SUFFICES ASSUME NEW q \in Sockets, NEW k \in Nat, NEW i \in Ids
               PROVE  /\ Answering(q, k, i, TRUE)' => i <= requests' /\ i \in There'
                      /\ Answering(q, k, i, FALSE)' => i <= requests' /\ i \notin There'
    BY DEF Truthful
  <2>1. ASSUME NEW c \in BOOLEAN, Answering(q, k, i, c)', i = n
        PROVE  c = b /\ i <= requests'
    BY <2>1, <1>1, <1>15, <1>16, <1>17
  <2>2. b = FALSE => n \notin There'
    BY <1>4, <1>8, <1>12 DEF Inv, Answers, Pending
  <2>3. b = TRUE => n \in There' BY <1>12
  <2>4. CASE i = n BY <2>1, <2>2, <2>3, <2>4
  <2>5. CASE i # n
    <3>1. Answering(q, k, i, TRUE)' => i <= requests /\ i \in There
      BY <2>5, <1>15 DEF Inv, Answers, Truthful
    <3>2. Answering(q, k, i, FALSE)' => i <= requests /\ i \notin There
      BY <2>5, <1>15 DEF Inv, Answers, Truthful
    <3> QED BY <3>1, <3>2, <2>5, <1>1, <1>12
  <2> QED BY <2>4, <2>5
<1>21. Known'
  <2>1. \A i \in Ids : i > requests => i # n BY <1>17, <1>4 DEF Ids, Inv, Typed
  <2>2. \A i \in Ids : i > requests' => result'[i] = "unknown" /\ i \notin There'
    BY <2>1, <1>1, <1>12 DEF Inv, Answers, Known
  <2>3. \A i \in Ids : /\ result'[i] = "stored" => i \in There'
                       /\ result'[i] = "refused" => i \notin There'
    BY <1>1, <1>12, <1>17 DEF Inv, Answers, Known
  <2> QED BY <2>2, <2>3 DEF Known
<1> QED BY <1>7, <1>10, <1>11, <1>18, <1>19, <1>20, <1>21 DEF Inv, Answers

\* An answer that is taken leaves the socket.
LEMMA Taken ==
  ASSUME Inv, NEW s \in Sockets, sockets[s].client = "open", sockets[s].down # <<>>,
         sockets' = [sockets EXCEPT ![s].down = Tail(@)]
  PROVE  /\ sockets' \in [Sockets -> Socket \union {Free}]
         /\ sockets[s] \in Socket
         /\ \A q \in Sockets : /\ Shrinks(q) /\ MessagesKept(q, 0)
                               /\ sockets'[q].client = sockets[q].client
                               /\ sockets[q].client # "closed" => sockets'[q].tab = sockets[q].tab
         /\ \A t \in Tabs : ws[t] \in Sockets \union {None} /\ waits[t] \in Sockets \union {None}
         /\ Head(sockets[s].down) \in Answer /\ Head(sockets[s].down) = sockets[s].down[1]
         /\ 1 \in 1 .. Len(sockets[s].down)
<1> DEFINE down == Tail(sockets[s].down)
<1> DEFINE r == [sockets[s] EXCEPT !.down = down]
<1>1. sockets[s] \in Socket BY SocketType DEF Inv
<1>2. sockets[s].down \in Seq(Answer) BY <1>1 DEF Socket
<1>3. /\ down \in Seq(Answer) /\ Len(sockets[s].down) \in Nat
      /\ Len(down) = Len(sockets[s].down) - 1
      /\ \A k \in 1 .. Len(down) : down[k] = sockets[s].down[k + 1]
      /\ Head(sockets[s].down) \in Answer /\ Head(sockets[s].down) = sockets[s].down[1]
      /\ 1 \in 1 .. Len(sockets[s].down)
  BY <1>2
<1>4. sockets' = [sockets EXCEPT ![s] = r] BY DEF Inv, Typed
<1> HIDE DEF down
<1>5. r \in Socket BY <1>1, <1>3 DEF Socket
<1>6. /\ r.down = down /\ r.up = sockets[s].up /\ r.client = sockets[s].client
      /\ r.key = sockets[s].key /\ r.tab = sockets[s].tab
  BY <1>1 DEF Socket
<1> HIDE DEF r
<1>7. /\ sockets' \in [Sockets -> Socket \union {Free}] /\ sockets'[s] = r
      /\ \A q \in Sockets : q # s => sockets'[q] = sockets[q] /\ Shrinks(q)
      /\ \A t \in Tabs : ws[t] \in Sockets \union {None} /\ waits[t] \in Sockets \union {None}
  BY <1>4, <1>5, Updated
<1>8. \A q \in Sockets : MessagesKept(q, 0)
  <2>1. \A q \in Sockets : sockets'[q].up = sockets[q].up /\ Len(sockets[q].up) \in Nat
    BY <1>6, <1>7, SocketType DEF Inv
  <2> QED BY <2>1 DEF MessagesKept
<1>9. AnswersLeft(s)
  <2>1. \A k \in 1 .. Len(down) : k + 1 \in 1 .. Len(sockets[s].down) BY <1>3
  <2> QED BY <2>1, <1>3, <1>6, <1>7 DEF AnswersLeft
<1>10. KeyKept(s) BY <1>6, <1>7 DEF KeyKept
<1>11. \A q \in Sockets : Shrinks(q) BY <1>7, <1>8, <1>9, <1>10 DEF Shrinks
<1> QED BY <1>1, <1>3, <1>6, <1>7, <1>8, <1>11

LEMMA SessionReadyInv == ASSUME Inv, NEW s \in Sockets, SessionReady(s) PROVE Inv'
<1> DEFINE t == sockets[s].tab
<1>1. /\ UNCHANGED <<config, secrets, session, encrypting, underway, asked, setups, requests, result,
                     removed, overtaken>>
      /\ sockets[s].client = "open" /\ sockets[s].down # <<>>
      /\ sockets' = [sockets EXCEPT ![s].down = Tail(@)]
  BY DEF SessionReady, server, work, counts, history
<1>2. /\ ws' = [ws EXCEPT ![t] = s]
      /\ vmk' = IF waits[t] = s THEN [vmk EXCEPT ![t] = sockets[s].key] ELSE vmk
      /\ status' = IF waits[t] = s THEN [status EXCEPT ![t] = "unlocked"] ELSE status
      /\ waits' = IF waits[t] = s THEN [waits EXCEPT ![t] = None] ELSE waits
  BY DEF SessionReady
<1>3. /\ sockets' \in [Sockets -> Socket \union {Free}]
      /\ sockets[s] \in Socket
      /\ \A q \in Sockets : /\ Shrinks(q)
                            /\ sockets'[q].client = sockets[q].client
                            /\ sockets[q].client # "closed" => sockets'[q].tab = sockets[q].tab
      /\ \A q \in Tabs : ws[q] \in Sockets \union {None} /\ waits[q] \in Sockets \union {None}
  BY <1>1, Taken
<1>4. t \in Tabs /\ sockets[s].key \in 1 .. MaxSetups /\ t = sockets[s].tab /\ s # None
  BY <1>3, VaultAssumption DEF Socket
<1> HIDE DEF t
<1>5. /\ ws' \in [Tabs -> Sockets \union {None}] /\ waits' \in [Tabs -> Sockets \union {None}]
      /\ vmk' \in [Tabs -> 0 .. MaxSetups] /\ status' \in [Tabs -> Statuses]
  BY <1>2, <1>4 DEF Inv, Typed, Statuses
<1>6. Typed' BY <1>1, <1>3, <1>5 DEF Inv, Typed
<1>7. Links'
  <2>1. \A q \in Tabs : ws'[q] = IF q = t THEN s ELSE ws[q] BY <1>2 DEF Inv, Typed
  <2>2. \A q \in Tabs : waits'[q] = IF q = t /\ waits[t] = s THEN None ELSE waits[q]
    BY <1>2 DEF Inv, Typed
  <2>3. \A q \in Tabs : ws'[q] # None =>
           sockets'[ws'[q]].client = "open" /\ sockets'[ws'[q]].tab = q
    BY <2>1, <1>1, <1>3, <1>4 DEF Inv, Links
  <2>4. \A q \in Tabs : waits'[q] # None =>
           sockets'[waits'[q]].client # "closed" /\ sockets'[waits'[q]].tab = q
    BY <2>2, <1>3 DEF Inv, Links
  <2>5. \A q \in Tabs : waits'[q] # None => waits'[q] # ws'[q]
    BY <2>1, <2>2 DEF Inv, Links
  <2> QED BY <2>3, <2>4, <2>5 DEF Links
<1>8. ~overtaken => \A q \in Tabs : {vmk'[q], encrypting'[q]} \subseteq {0, config}
  <2>1. ~overtaken => sockets[s].key = config BY <1>1 DEF Inv, Keys
  <2> QED BY <2>1, <1>1, <1>2, <1>4 DEF Inv, Typed, Keys
<1> QED BY <1>1, <1>3, <1>6, <1>7, <1>8, Shrunk

\* What the tab learns is true, and nothing else will be learned of it.
LEMMA AnsweredInv == ASSUME Inv, NEW s \in Sockets, Answered(s) PROVE Inv'
<1> DEFINE a == Head(sockets[s].down)
<1>1. /\ UNCHANGED <<config, secrets, session, status, vmk, ws, waits, encrypting, underway, asked,
                     setups, requests, removed, overtaken>>
      /\ sockets[s].client = "open" /\ sockets[s].down # <<>> /\ a.type = "stored"
      /\ sockets' = [sockets EXCEPT ![s].down = Tail(@)]
      /\ \/ result' = [result EXCEPT ![a.id] = IF a.success THEN "stored" ELSE "refused"]
         \/ result' = result
  BY DEF Answered, server, tab, work, counts
<1>2. /\ sockets' \in [Sockets -> Socket \union {Free}]
      /\ \A q \in Sockets : /\ Shrinks(q) /\ MessagesKept(q, 0)
                            /\ sockets'[q].client = sockets[q].client
                            /\ sockets[q].client # "closed" => sockets'[q].tab = sockets[q].tab
      /\ \A t \in Tabs : ws[t] \in Sockets \union {None} /\ waits[t] \in Sockets \union {None}
      /\ a \in Answer /\ a = sockets[s].down[1] /\ 1 \in 1 .. Len(sockets[s].down)
  BY <1>1, Taken
<1>3. a.id \in Ids /\ a.success \in BOOLEAN BY <1>1, <1>2, MessageType DEF Ids
<1>4. Answering(s, 1, a.id, a.success) BY <1>1, <1>2 DEF Answering
<1> HIDE DEF a
<1>5. result' \in [1 .. MaxRequests -> {"unknown", "stored", "refused"}]
  BY <1>1 DEF Inv, Typed
<1>6. Typed' BY <1>1, <1>2, <1>5 DEF Inv, Typed
<1>7. Links' BY <1>1, <1>2 DEF Inv, Links
<1>8. ~overtaken => \A q \in Tabs : {vmk'[q], encrypting'[q]} \subseteq {0, config} BY <1>1 DEF Inv, Keys
<1>9. Keys' BY <1>1, <1>2, <1>8, KeysKept DEF Inv
<1>10. There' = There BY <1>1 DEF There
<1>11. CASE result' = result
  <2>1. Answers' BY <1>1, <1>2, <1>10, <1>11, AnswersKept DEF Inv, Shrinks
  <2> QED BY <2>1, <1>6, <1>7, <1>9 DEF Inv
<1>12. CASE result' = [result EXCEPT ![a.id] = IF a.success THEN "stored" ELSE "refused"]
  <2>1. \A q \in Sockets, k \in Nat, i \in Ids : Asks(q, k, i)' => Asks(q, k, i)
    BY <1>2 DEF MessagesKept, Asks
  <2>2. ASSUME NEW q \in Sockets, NEW k \in Nat, NEW i \in Ids, NEW b \in BOOLEAN,
               Answering(q, k, i, b)'
        PROVE  \E j \in Nat : Answering(q, j, i, b)
    <3>1. PICK j \in 1 .. Len(sockets[q].down) : sockets[q].down[j] = sockets'[q].down[k]
      BY <2>2, <1>2 DEF Shrinks, AnswersLeft, Answering
    <3>2. j \in Nat BY SocketType DEF Inv
    <3> QED BY <2>2, <3>1, <3>2 DEF Answering
  <2>3. \A q \in Sockets, k \in Nat : ~Asks(q, k, a.id)
    BY <1>3, <1>4 DEF Inv, Answers, Pending
  <2>4. Pending'
    <3>1. \A i \in Ids : i # a.id => result'[i] = result[i] BY <1>12 DEF Inv, Typed, Ids
    <3> QED BY <3>1, <2>1, <2>2, <2>3, <1>1, <1>10 DEF Inv, Answers, Pending
  <2>5. Once' BY <2>1 DEF Inv, Answers, Once
  <2>6. Truthful' BY <2>2, <1>1, <1>10 DEF Inv, Answers, Truthful
  <2>7. Known'
    <3>1. \A i \in Ids : result'[i] = IF i = a.id
            THEN (IF a.success THEN "stored" ELSE "refused") ELSE result[i]
      BY <1>12 DEF Inv, Typed, Ids
    <3>2. /\ a.id <= requests
          /\ a.success => a.id \in There
          /\ ~a.success => a.id \notin There
      <4>1. CASE a.success = TRUE BY <4>1, <1>3, <1>4 DEF Inv, Answers, Truthful
      <4>2. CASE a.success = FALSE BY <4>2, <1>3, <1>4 DEF Inv, Answers, Truthful
      <4> QED BY <4>1, <4>2, <1>3
    <3>3. \A i \in Ids : i > requests => i # a.id BY <3>2, <1>3 DEF Ids, Inv, Typed
    <3>4. \A i \in Ids : i > requests' => result'[i] = "unknown" /\ i \notin There'
      BY <3>1, <3>3, <1>1, <1>10 DEF Inv, Answers, Known
    <3>5. \A i \in Ids : /\ result'[i] = "stored" => i \in There'
                         /\ result'[i] = "refused" => i \notin There'
      BY <3>1, <3>2, <1>10 DEF Inv, Answers, Known
    <3> QED BY <3>4, <3>5 DEF Known
  <2> QED BY <2>4, <2>5, <2>6, <2>7, <1>6, <1>7, <1>9 DEF Inv, Answers
<1> QED BY <1>1, <1>11, <1>12

-----------------------------------------------------------------------------

LEMMA InitInv == Init => Inv
<1> SUFFICES ASSUME Init PROVE Inv OBVIOUS
<1>1. /\ config = 0 /\ secrets = {} /\ session = FALSE
      /\ sockets = [s \in Sockets |-> Free]
      /\ status = [t \in Tabs |-> "unknown"] /\ vmk = [t \in Tabs |-> 0]
      /\ ws = [t \in Tabs |-> None] /\ waits = [t \in Tabs |-> None]
      /\ encrypting = [t \in Tabs |-> 0] /\ underway = {} /\ asked = [t \in Tabs |-> TRUE]
      /\ setups = 0 /\ requests = 0
      /\ result = [i \in 1 .. MaxRequests |-> "unknown"] /\ removed = {} /\ overtaken = FALSE
  BY DEF Init
<1>2. MaxSetups \in Nat /\ MaxRequests \in Nat BY VaultAssumption
<1>3. Free.client = "closed" /\ Free.up = <<>> /\ Free.down = <<>> BY DEF Free
<1>4. Typed
  <2>1. config \in 0 .. MaxSetups /\ setups \in 0 .. MaxSetups /\ requests \in 0 .. MaxRequests
        /\ vmk \in [Tabs -> 0 .. MaxSetups] /\ encrypting \in [Tabs -> 0 .. MaxSetups]
    BY <1>1, <1>2
  <2>2. session \in BOOLEAN /\ overtaken \in BOOLEAN BY <1>1, Zenon
  <2>3. /\ secrets \subseteq Secret /\ removed \subseteq 1 .. MaxRequests
        /\ sockets \in [Sockets -> Socket \union {Free}] /\ status \in [Tabs -> Statuses]
        /\ ws \in [Tabs -> Sockets \union {None}] /\ waits \in [Tabs -> Sockets \union {None}]
        /\ underway \subseteq Tabs /\ asked \in [Tabs -> BOOLEAN]
        /\ result \in [1 .. MaxRequests -> {"unknown", "stored", "refused"}]
    BY <1>1 DEF Statuses
  <2> QED BY <2>1, <2>2, <2>3 DEF Typed
<1>5. Links BY <1>1 DEF Links
<1>6. Keys BY <1>1, <1>3 DEF Keys
<1>7. There = {} BY <1>1 DEF There
<1>8. /\ \A s \in Sockets, k \in Nat, i \in Ids : ~Asks(s, k, i)
      /\ \A s \in Sockets, k \in Nat, i \in Ids, b \in BOOLEAN : ~Answering(s, k, i, b)
  BY <1>1, <1>3 DEF Asks, Answering
<1>9. Pending /\ Once /\ Truthful BY <1>8 DEF Pending, Once, Truthful
<1>10. Known BY <1>1, <1>7 DEF Known, Ids
<1> QED BY <1>4, <1>5, <1>6, <1>9, <1>10 DEF Inv, Answers

LEMMA NextInv == Inv /\ [Next]_vars => Inv'
<1> SUFFICES ASSUME Inv, [Next]_vars PROVE Inv' OBVIOUS
<1>1. ASSUME NEW t \in Tabs, TabStep(t) PROVE Inv'
  BY <1>1, RefreshStatusInv, SetupVaultInv, UnlockInv, ConnectTimeoutInv, LockVaultInv,
     ResetVaultInv, ResetServedInv, ReloadInv, StoreSecretInv, StoreSentInv, DeleteSecretInv DEF TabStep
<1>2. ASSUME NEW s \in Sockets, SocketStep(s) PROVE Inv'
  BY <1>2, OpensInv, LostInv, SessionMessageInv, HandleStoreSecretInv, HandleDeleteSecretInv,
     SocketClosedInv, SessionReadyInv, AnsweredInv DEF SocketStep
<1>3. CASE SessionGone BY <1>3, SessionGoneInv
<1>4. CASE UNCHANGED vars
  <2>1. UNCHANGED <<config, secrets, session, sockets, status, vmk, ws, waits, encrypting,
                    underway, asked, setups, requests, result, removed, overtaken>>
    BY <1>4 DEF vars, server, tab, work, counts, history
  <2>2. Typed' BY <2>1 DEF Inv, Typed
  <2>3. Links' BY <2>1 DEF Inv, Links
  <2>4. ~overtaken => \A t \in Tabs : {vmk'[t], encrypting'[t]} \subseteq {0, config} BY <2>1 DEF Inv, Keys
  <2> QED BY <2>1, <2>2, <2>3, <2>4, Unseen
<1> QED BY <1>1, <1>2, <1>3, <1>4 DEF Next

\* The strengthening of the invariants below is inductive.
THEOREM Invariance == Spec => []Inv
BY InitInv, NextInv, PTL DEF Spec

\* Type correctness, and a tab knows only sockets of its own that exist.
THEOREM TypeCorrectness == Spec => []TypeOK
<1>1. Inv => TypeOK
  <2> SUFFICES ASSUME Inv PROVE TypeOK OBVIOUS
  <2>1. Free.client = "closed" BY DEF Free
  <2>2. \A t \in Tabs : ws[t] # None => sockets[ws[t]] # Free /\ sockets[ws[t]].tab = t
    BY <2>1 DEF Inv, Links
  <2>3. \A t \in Tabs : waits[t] # None => sockets[waits[t]] # Free /\ sockets[waits[t]].tab = t
    BY <2>1 DEF Inv, Links
  <2> QED BY <2>2, <2>3 DEF Inv, Typed, TypeOK
<1> QED BY <1>1, Invariance, PTL

\* Unless a reset found an old key in use, every secret in the vault can be
\* read with the vault's key, however sockets and the one session come and go.
THEOREM SecretsReadableHolds == Spec => []SecretsReadable
<1>1. Inv => SecretsReadable BY DEF Inv, Keys, SecretsReadable
<1> QED BY <1>1, Invariance, PTL

\* What a tab was told of a secret is so.
THEOREM AnswersTrueHolds == Spec => []AnswersTrue
<1>1. Inv => AnswersTrue BY DEF Inv, Answers, Known, There, Ids, AnswersTrue
<1> QED BY <1>1, Invariance, PTL
=============================================================================
