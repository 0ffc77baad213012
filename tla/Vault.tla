------------------------------- MODULE Vault -------------------------------
(***************************************************************************)
(* The secrets vault of one user: the Durable Object UserSecretsStore with *)
(* its one unlocked session, and the tabs (vault-context.tsx) that set it  *)
(* up, unlock it over a WebSocket, store secrets, lock it and reset it.    *)
(*                                                                         *)
(* The vault master key is derived in the tab; here it is the number of    *)
(* the setup that chose it.  The server never sees it and cannot tell with *)
(* which key a secret is encrypted.                                        *)
(***************************************************************************)
EXTENDS Naturals, Sequences, FiniteSets

CONSTANTS
  Tabs,          \* the tabs of the user
  Sockets,       \* bound: sockets at a time
  None,          \* no socket
  MaxSetups,     \* bound: vaults set up
  MaxResets,     \* bound: requests to reset the vault on their way at a time
  MaxRequests    \* bound: secrets asked to be stored

ASSUME VaultAssumption == {MaxSetups, MaxResets, MaxRequests} \subseteq Nat /\ None \notin Sockets

VARIABLES
  config,        \* vault_config: the key the vault was set up with, 0: none
  secrets,       \* the rows that are not deleted
  session,       \* there is a session that has not expired
  sockets,       \* the vault sockets, with what is on its way
  status,        \* each tab's state.status
  vmk,           \* its vmkRef: the key it holds, 0: none
  ws,            \* its vaultWsRef
  waits,         \* the socket it awaits the session on
  encrypting,    \* the key it encrypts a secret with, 0: none
  underway,      \* the tabs whose request to reset the vault is on its way
  asked,         \* refreshStatus is under way
  setups,        \* vaults set up so far
  requests,      \* secrets asked to be stored so far
  result,        \* history: what the tab was told of each of them
  removed,       \* history: secrets deleted, or dropped by a reset
  overtaken      \* history: a reset found an old key still in use

server  == <<config, secrets, session>>
work    == <<encrypting, underway, asked>>
tab     == <<status, vmk, ws, waits, work>>
counts  == <<setups, requests>>
history == <<result, removed, overtaken>>
vars    == <<server, sockets, tab, counts, history>>

Statuses == {"unknown", "not_setup", "locked", "unlocked"}
Secret   == [id : 1 .. MaxRequests, key : 1 .. MaxSetups]

\* A message to the vault, and an answer.
Message == [type : {"init", "close"}] \union
           [type : {"store"}, secret : Secret] \union [type : {"delete"}, id : 1 .. MaxRequests]
Answer  == [type : {"ready"}] \union
           [type : {"stored"}, id : 1 .. MaxRequests, success : BOOLEAN]

Socket == [tab : Tabs, key : 1 .. MaxSetups, client : {"connecting", "open", "closed"},
           server : {"none", "open"}, up : Seq(Message), down : Seq(Answer)]

\* A socket that both sides have closed.
Free == [client |-> "closed", server |-> "none", up |-> <<>>, down |-> <<>>]

TypeOK ==
  /\ config \in 0 .. MaxSetups /\ setups \in 0 .. MaxSetups /\ requests \in 0 .. MaxRequests
  /\ secrets \subseteq Secret
  /\ session \in BOOLEAN
  /\ sockets \in [Sockets -> Socket \union {Free}]
  /\ status \in [Tabs -> Statuses] /\ vmk \in [Tabs -> 0 .. MaxSetups]
  /\ ws \in [Tabs -> Sockets \union {None}] /\ waits \in [Tabs -> Sockets \union {None}]
  /\ \A t \in Tabs : ws[t] # None => sockets[ws[t]] # Free /\ sockets[ws[t]].tab = t
  /\ \A t \in Tabs : waits[t] # None => sockets[waits[t]] # Free /\ sockets[waits[t]].tab = t
  /\ encrypting \in [Tabs -> 0 .. MaxSetups] /\ asked \in [Tabs -> BOOLEAN]
  /\ underway \subseteq Tabs
  /\ result \in [1 .. MaxRequests -> {"unknown", "stored", "refused"}]
  /\ removed \subseteq 1 .. MaxRequests /\ overtaken \in BOOLEAN

Init ==
  /\ config = 0 /\ secrets = {} /\ session = FALSE
  /\ sockets = [s \in Sockets |-> Free]
  /\ status = [t \in Tabs |-> "unknown"] /\ vmk = [t \in Tabs |-> 0]
  /\ ws = [t \in Tabs |-> None] /\ waits = [t \in Tabs |-> None]
  /\ encrypting = [t \in Tabs |-> 0] /\ underway = {} /\ asked = [t \in Tabs |-> TRUE]
  /\ setups = 0 /\ requests = 0
  /\ result = [i \in 1 .. MaxRequests |-> "unknown"] /\ removed = {} /\ overtaken = FALSE

-----------------------------------------------------------------------------
(* A tab and the vault's HTTP interface.                                   *)

\* connectVaultWebSocket: a new socket for a key.
Connect(t, key) ==
  \E s \in Sockets :
    /\ sockets[s] = Free
    /\ sockets' = [sockets EXCEPT ![s] = [tab |-> t, key |-> key, client |-> "connecting",
                                         server |-> "none", up |-> <<>>, down |-> <<>>]]
    /\ waits' = [waits EXCEPT ![t] = s]

\* refreshStatus: without a key and an open socket what is left of a session is
\* cleared.  The request may fail, and is made again when the user signs in again.
RefreshStatus(t) ==
  /\ asked[t]
  /\ \E answer \in {"not_setup", "locked", "unlocked", "unknown"} :
       /\ answer = "not_setup" => config = 0
       /\ answer \in {"locked", "unlocked"} => config # 0
       /\ answer = "unlocked" => vmk[t] # 0 /\ ws[t] # None
       /\ answer = "locked" => vmk[t] = 0 \/ ws[t] = None
       /\ status' = [status EXCEPT ![t] = answer]
       /\ vmk' = IF answer = "locked" THEN [vmk EXCEPT ![t] = 0] ELSE vmk
  /\ asked' = [asked EXCEPT ![t] = status'[t] = "unknown"]
  /\ UNCHANGED <<server, sockets, ws, waits, encrypting, underway, counts, history>>

\* The tab is not busy unlocking the vault.
Idle(t) == waits[t] = None

\* Mutant: a second setup replaces the first.
SetupVaultMutant(t) ==
  /\ status[t] = "not_setup" /\ Idle(t) /\ setups < MaxSetups
  /\ setups' = setups + 1 /\ config' = setups + 1
  /\ Connect(t, setups + 1)
  /\ UNCHANGED <<secrets, session, status, vmk, ws, work, requests, history>>

\* setupVaultWithPassword, setupVaultWithPasskey: the answer may be lost.  A
\* vault that exists is kept, and nothing comes of the attempt.
SetupVault(t) ==
  /\ status[t] = "not_setup" /\ Idle(t) /\ config = 0 /\ setups < MaxSetups
  /\ setups' = setups + 1 /\ config' = setups + 1
  /\ Connect(t, setups + 1) \/ UNCHANGED <<sockets, waits>>
  /\ UNCHANGED <<secrets, session, status, vmk, ws, work, requests, history>>

\* unlockWithPassword, unlockWithPasskey: the key is verified against the
\* configuration there is.
Unlock(t) ==
  /\ status[t] = "locked" /\ Idle(t) /\ config # 0
  /\ Connect(t, config)
  /\ UNCHANGED <<server, status, vmk, ws, work, counts, history>>

\* connectVaultWebSocket gives up after ten seconds, and leaves its socket.
ConnectTimeout(t) ==
  /\ waits[t] # None /\ waits' = [waits EXCEPT ![t] = None]
  /\ UNCHANGED <<server, sockets, status, vmk, ws, work, counts, history>>

\* The tab says goodbye and closes its socket; what was sent before arrives.
Goodbye(t) ==
  /\ sockets' = IF ws[t] = None THEN sockets
                ELSE [sockets EXCEPT ![ws[t]].client = "closed", ![ws[t]].down = <<>>,
                                     ![ws[t]].up = Append(@, [type |-> "close"])]
  /\ ws' = [ws EXCEPT ![t] = None]
  /\ vmk' = [vmk EXCEPT ![t] = 0]

\* lockVault
LockVault(t) ==
  /\ status[t] = "unlocked" /\ Goodbye(t)
  /\ status' = [status EXCEPT ![t] = "locked"]
  /\ UNCHANGED <<server, waits, work, counts, history>>

\* resetVault in the tab, up to the request; the tab may give up on it and go on
\* while it is on its way.
ResetVault(t) ==
  /\ status[t] \in {"locked", "unlocked"} /\ Idle(t) /\ Goodbye(t)
  /\ t \notin underway /\ Cardinality(underway) < MaxResets
  /\ underway' = underway \union {t}
  /\ UNCHANGED <<server, status, waits, encrypting, asked, counts, history>>

\* The key of the vault is in use: a tab holds it or encrypts with it, or a
\* socket or a message on its way does.
KeyInUse ==
  \/ \E t \in Tabs : vmk[t] # 0 \/ encrypting[t] # 0
  \/ \E s \in Sockets : sockets[s].client # "closed" \/ sockets[s].up # <<>>

\* UserSecretsStore.resetVault.  The tab hears of it and asks for the status, or
\* the answer is lost; the request may be lost too.
ResetServed(t) ==
  /\ t \in underway /\ underway' = underway \ {t}
  /\ \/ /\ config' = 0 /\ secrets' = {} /\ session' = FALSE
        /\ removed' = removed \union {s.id : s \in secrets}
        /\ overtaken' = (overtaken \/ KeyInUse)
        /\ asked' = [asked EXCEPT ![t] = TRUE] \/ UNCHANGED asked
     \/ UNCHANGED <<server, removed, overtaken, asked>>
  /\ UNCHANGED <<sockets, status, vmk, ws, waits, encrypting, counts, result>>

\* The tab is reloaded.
Reload(t) ==
  /\ sockets' = [s \in Sockets |->
                   IF sockets[s] = Free \/ sockets[s].tab # t THEN sockets[s]
                   ELSE IF sockets[s].client = "connecting" THEN Free
                   ELSE [sockets[s] EXCEPT !.client = "closed", !.down = <<>>]]
  /\ status' = [status EXCEPT ![t] = "unknown"] /\ vmk' = [vmk EXCEPT ![t] = 0]
  /\ ws' = [ws EXCEPT ![t] = None] /\ waits' = [waits EXCEPT ![t] = None]
  /\ encrypting' = [encrypting EXCEPT ![t] = 0] /\ asked' = [asked EXCEPT ![t] = TRUE]
  /\ UNCHANGED <<server, underway, counts, history>>

-----------------------------------------------------------------------------
(* Requests over the socket.                                               *)

Send(t, message) == sockets' = [sockets EXCEPT ![ws[t]].up = Append(@, message)]

\* encryptAndStoreSecret takes the key, and awaits the encryption.  Bound: one
\* secret at a time in a tab.
StoreSecret(t) ==
  /\ vmk[t] # 0 /\ encrypting[t] = 0
  /\ requests + Cardinality({u \in Tabs : encrypting[u] # 0}) < MaxRequests
  /\ encrypting' = [encrypting EXCEPT ![t] = vmk[t]]
  /\ UNCHANGED <<server, sockets, status, vmk, ws, waits, underway, asked, counts, history>>

\* The secret goes out over the socket there is by then, if there is one and
\* nothing has failed.
StoreSent(t) ==
  /\ encrypting[t] # 0 /\ encrypting' = [encrypting EXCEPT ![t] = 0]
  /\ \/ /\ ws[t] # None /\ requests < MaxRequests /\ requests' = requests + 1
        /\ Send(t, [type |-> "store", secret |-> [id |-> requests', key |-> encrypting[t]]])
     \/ UNCHANGED <<sockets, requests>>
  /\ UNCHANGED <<server, status, vmk, ws, waits, underway, asked, setups, history>>

\* deleteSecret: it needs the socket, not the key.  Its answer tells nobody
\* anything the model keeps.
DeleteSecret(t) ==
  /\ ws[t] # None /\ sockets[ws[t]].up = <<>>
  /\ \E s \in secrets : Send(t, [type |-> "delete", id |-> s.id])
  /\ UNCHANGED <<server, tab, counts, history>>

-----------------------------------------------------------------------------
(* The sockets and the Durable Object.                                     *)

\* The socket opens, and the tab sends its session.
Opens(s) ==
  /\ sockets[s].client = "connecting"
  /\ sockets' = [sockets EXCEPT ![s].client = "open", ![s].server = "open",
                                ![s].up = <<[type |-> "init"]>>]
  /\ UNCHANGED <<server, tab, counts, history>>

\* Mutant: onclose leaves the socket in the tab.
LostMutant(s) ==
  /\ sockets[s].client \in {"connecting", "open"}
  /\ sockets' = [sockets EXCEPT ![s] =
                   IF @.client = "connecting" THEN Free
                   ELSE [@ EXCEPT !.client = "closed", !.up = <<>>, !.down = <<>>]]
  /\ waits' = [t \in Tabs |-> IF waits[t] = s THEN None ELSE waits[t]]
  /\ UNCHANGED <<server, status, vmk, ws, work, counts, history>>

\* A connection fails or is lost, with what was on its way.
Lost(s) ==
  /\ sockets[s].client \in {"connecting", "open"}
  /\ sockets' = [sockets EXCEPT ![s] =
                   IF @.client = "connecting" THEN Free
                   ELSE [@ EXCEPT !.client = "closed", !.up = <<>>, !.down = <<>>]]
  /\ ws' = [t \in Tabs |-> IF ws[t] = s THEN None ELSE ws[t]]
  /\ waits' = [t \in Tabs |-> IF waits[t] = s THEN None ELSE waits[t]]
  /\ UNCHANGED <<server, status, vmk, work, counts, history>>

\* webSocketMessage takes the first message of a socket; its answers go to a
\* socket that is still open.
Handle(s, answers) ==
  sockets' = [sockets EXCEPT ![s].up = Tail(@),
                             ![s].down = IF sockets[s].client = "open" THEN @ \o answers
                                         ELSE <<>>]

First(s, type) ==
  sockets[s].server = "open" /\ sockets[s].up # <<>> /\ Head(sockets[s].up).type = type

SessionInit(s) ==
  /\ First(s, "init") /\ Handle(s, <<[type |-> "ready"]>>)
  /\ session' = TRUE
  /\ UNCHANGED <<config, secrets, tab, counts, history>>

SessionClose(s) ==
  /\ First(s, "close") /\ Handle(s, <<>>)
  /\ session' = FALSE
  /\ UNCHANGED <<config, secrets, tab, counts, history>>

\* Mutant: the secret is written before the session is looked at.
HandleStoreSecretMutant(s) ==
  /\ First(s, "store")
  /\ LET secret == Head(sockets[s].up).secret
     IN  /\ secrets' = secrets \union {secret}
         /\ Handle(s, <<[type |-> "stored", id |-> secret.id, success |-> session]>>)
  /\ UNCHANGED <<config, session, tab, counts, history>>

\* A secret is refused when there is no session, when the session has expired,
\* and when it is too large.
HandleStoreSecret(s) ==
  /\ First(s, "store")
  /\ LET secret == Head(sockets[s].up).secret
     IN  \E fits \in BOOLEAN :
           /\ secrets' = IF session /\ fits THEN secrets \union {secret} ELSE secrets
           /\ Handle(s, <<[type |-> "stored", id |-> secret.id, success |-> session /\ fits]>>)
  /\ UNCHANGED <<config, session, tab, counts, history>>

HandleDeleteSecret(s) ==
  /\ First(s, "delete") /\ Handle(s, <<>>)
  /\ LET id == Head(sockets[s].up).id
     IN  IF session THEN /\ secrets' = {r \in secrets : r.id # id}
                       /\ removed' = removed \union {r.id : r \in secrets \ secrets'}
         ELSE UNCHANGED <<secrets, removed>>
  /\ UNCHANGED <<config, session, tab, counts, result, overtaken>>

\* webSocketClose, webSocketError: whoever's socket it is, the session ends.
SocketClosed(s) ==
  /\ sockets[s].server = "open" /\ sockets[s].client = "closed" /\ sockets[s].up = <<>>
  /\ sockets' = [sockets EXCEPT ![s] = Free]
  /\ session' = FALSE
  /\ UNCHANGED <<config, secrets, tab, counts, history>>

\* The session is there: the socket is the tab's, and if the tab still waits
\* for it, it is unlocked.
SessionReady(s) ==
  /\ sockets[s].client = "open" /\ sockets[s].down # <<>>
  /\ Head(sockets[s].down).type = "ready"
  /\ LET t == sockets[s].tab
         waited == waits[t] = s
     IN  /\ ws' = [ws EXCEPT ![t] = s]
         /\ vmk' = IF waited THEN [vmk EXCEPT ![t] = sockets[s].key] ELSE vmk
         /\ status' = IF waited THEN [status EXCEPT ![t] = "unlocked"] ELSE status
         /\ waits' = IF waited THEN [waits EXCEPT ![t] = None] ELSE waits
  /\ sockets' = [sockets EXCEPT ![s].down = Tail(@)]
  /\ UNCHANGED <<server, work, counts, history>>

\* An answer, unless sendVaultRequest has given up after thirty seconds.
Answered(s) ==
  /\ sockets[s].client = "open" /\ sockets[s].down # <<>>
  /\ Head(sockets[s].down).type = "stored"
  /\ LET answer == Head(sockets[s].down)
     IN  \/ result' = [result EXCEPT ![answer.id] =
                        IF answer.success THEN "stored" ELSE "refused"]
         \/ UNCHANGED result
  /\ sockets' = [sockets EXCEPT ![s].down = Tail(@)]
  /\ UNCHANGED <<server, tab, counts, removed, overtaken>>

\* A session is in memory only: it expires (found by the next request or by the
\* alarm), or the Durable Object hibernates or restarts.  The sockets stay.
SessionGone ==
  /\ session /\ session' = FALSE
  /\ UNCHANGED <<config, secrets, sockets, tab, counts, history>>

TabStep(t) ==
  \/ RefreshStatus(t) \/ SetupVault(t) \/ Unlock(t) \/ ConnectTimeout(t)
  \/ LockVault(t) \/ ResetVault(t) \/ ResetServed(t) \/ Reload(t)
  \/ StoreSecret(t) \/ StoreSent(t) \/ DeleteSecret(t)

SocketStep(s) ==
  \/ Opens(s) \/ Lost(s) \/ SessionInit(s) \/ SessionClose(s) \/ HandleStoreSecret(s)
  \/ HandleDeleteSecret(s) \/ SocketClosed(s) \/ SessionReady(s) \/ Answered(s)

Next ==
  \/ \E t \in Tabs : TabStep(t)
  \/ \E s \in Sockets : SocketStep(s)
  \/ SessionGone

Spec == Init /\ [][Next]_vars

-----------------------------------------------------------------------------
(* Properties.                                                             *)

\* Every secret in the vault can be read with the vault's key, although the
\* server never checks it and the session belongs to no socket - unless a vault
\* was reset while a tab, a socket or a message still had its key: what that
\* stores once another session is live nobody can read.
SecretsReadable == ~overtaken => \A s \in secrets : s.key = config

\* What a tab was told of a secret is so: one reported as stored is in the vault
\* until it is deleted or the vault is reset, one reported as refused never got
\* there, whatever happened to session and sockets meanwhile.
AnswersTrue ==
  \A i \in 1 .. MaxRequests :
    /\ result[i] = "stored"  => i \in {s.id : s \in secrets} \union removed
    /\ result[i] = "refused" => i \notin {s.id : s \in secrets} \union removed
=============================================================================
