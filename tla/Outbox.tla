------------------------------- MODULE Outbox -------------------------------
(***************************************************************************)
(* What the SDK's connection promises of a caller's messages, whatever     *)
(* sockets open and close beneath it: a bounded queue before a log.  A     *)
(* message goes out at once only when nothing waits or when the door is    *)
(* ajar, that is, between the opening of a socket and the release of what  *)
(* waits.  What waits goes out whole and in its order, and is lost only to *)
(* newer messages when the queue is full, or all together when the session *)
(* is closed.                                                              *)
(***************************************************************************)
EXTENDS Naturals, Sequences

CONSTANTS
  Capacity,   \* how many messages may wait
  Greeting    \* what the session itself says when it thinks it is connected

VARIABLES
  posted,    \* how many messages the caller has sent: the number of the last
  waiting,   \* what waits for a socket
  out,       \* what was posted or had waited and went out, in order
  ajar       \* a socket has opened, and what waits is about to be released

Init == posted = 0 /\ waiting = <<>> /\ out = <<>> /\ ajar = FALSE

\* The oldest message makes room.
Kept(message) ==
  Append(IF Len(waiting) < Capacity THEN waiting ELSE Tail(waiting), message)

\* A message sent on a socket that is closing is lost.
PostNow ==
  /\ waiting = <<>> \/ ajar
  /\ posted' = posted + 1
  /\ out' \in {out, Append(out, posted + 1)}
  /\ UNCHANGED <<waiting, ajar>>

PostLater ==
  /\ ~ajar
  /\ posted' = posted + 1
  /\ waiting' = Kept(posted + 1)
  /\ UNCHANGED <<out, ajar>>

Open == ajar' = TRUE /\ UNCHANGED <<posted, waiting, out>>

\* A greeting that does not wait leaves no trace.
Greet == ~ajar /\ waiting' = Kept(Greeting) /\ UNCHANGED <<posted, out, ajar>>

Release ==
  /\ ajar /\ ajar' = FALSE
  /\ out' = out \o waiting /\ waiting' = <<>> /\ posted' = posted

Forget == waiting' = <<>> /\ ajar' = FALSE /\ UNCHANGED <<posted, out>>

Next ==
  PostNow \/ PostLater \/ Open \/ Greet \/ Release \/ Forget

Spec == Init /\ [][Next]_<<posted, waiting, out, ajar>>
=============================================================================
