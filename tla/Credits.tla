------------------------------- MODULE Credits -------------------------------
(***************************************************************************)
(* The credits of one user: a number in the key-value store that requests, *)
(* inferences and Stripe's webhooks read, change and write back, each in a *)
(* get and a later put; and the user's plan, a row in the database and a   *)
(* configuration in the key-value store, which webhooks keep.              *)
(*                                                                         *)
(* The store is taken to be linearizable; Cloudflare promises less.        *)
(* Credits are fractions in the store: Unit is what one credit counts here *)
(* (parseInt forgets what is less).                                        *)
(***************************************************************************)
EXTENDS Integers, FiniteSets

CONSTANTS
  Slots,          \* bound: requests and webhooks under way at once
  Unit,           \* one credit
  Free,           \* FREE_SIGNUP_CREDITS
  BuildCost,      \* BUILD_COST_CREDITS
  Prices,         \* what an inference or an operation can cost
  Payment,        \* what an event pays for: a top-up's pack, PRO_MONTHLY_CREDITS
  Events,         \* the webhook events that happen
  MaxRequests,    \* bound: requests and inferences of the user
  MaxDeliveries,  \* bound: deliveries of an event
  Faults,         \* TRUE: the store fails at times, and answers to Stripe are lost
  None

PlanEvents == {"started", "active", "lapsed", "deleted"}
Paying     == {"topup", "started", "renewed"}
\* Stripe creates a subscription's events in this order.
Rank == [started |-> 1, active |-> 2, renewed |-> 3, lapsed |-> 4, deleted |-> 5, topup |-> 0]

ASSUME CreditsAssumption ==
  /\ Unit \in Nat \ {0} /\ {Free, BuildCost, MaxRequests, MaxDeliveries} \subseteq Nat
  /\ Free % Unit = 0 /\ BuildCost % Unit = 0 /\ BuildCost <= Free
  /\ Prices \subseteq Nat
  /\ Events \subseteq PlanEvents \union Paying /\ Payment \in [Paying -> Nat]
  /\ Faults \in BOOLEAN /\ None \notin Nat \union PlanEvents \union Paying

VARIABLES
  balance,     \* user_credits: None until it is first written
  userConfig,  \* user_config holds the Pro limits
  status,      \* stripeSubscriptionStatus
  pc,          \* where each request is
  job,         \* what it has read and is about to do
  asked,       \* requests so far
  emitted,     \* events Stripe has created
  deliveries,  \* how often it has delivered each
  acked,       \* those answered with 200
  gone,        \* a webhook has found that the customer was deleted at Stripe
  least,       \* history: what was granted and paid for, less what was charged and
               \* the fractions that may have been forgotten
  most,        \* history: the same without these, and without what was charged
               \* when there was too little to take
  credited,    \* history: the events whose credits were added
  builds,      \* history: builds that were answered consumed: true
  unclear,     \* history: two requests were between get and put at once, or an
               \* event was credited twice
  newest,      \* history: the rank of the event that reached the plan last
  disordered   \* history: plan events were handled out of order, at once or, the
               \* customer being gone, not at all

ledger == <<least, most, credited, builds, unclear>>
plan   == <<userConfig, status, newest, disordered>>
stripe == <<emitted, deliveries, acked, gone>>
vars   == <<balance, pc, job, asked, ledger, plan, stripe>>

Job   == [kind : {"grant", "build", "add", "charge"}, seen : Nat \union {None}, amount : Nat,
          event : Events \union {None}]
NoJob == [kind |-> "grant", seen |-> None, amount |-> 0, event |-> None]

TypeOK ==
  /\ balance \in Nat \union {None} /\ userConfig \in BOOLEAN
  /\ status \in {"none", "active", "past_due", "canceled"}
  /\ pc \in [Slots -> {"idle", "calling", "status", "config", "credit", "put"}]
  /\ job \in [Slots -> Job] /\ asked \in 0 .. MaxRequests
  /\ acked \subseteq emitted /\ emitted \subseteq Events
  /\ deliveries \in [Events -> 0 .. MaxDeliveries]
  /\ {least, most} \subseteq Int /\ builds \in Nat
  /\ credited \subseteq Events \intersect Paying /\ newest \in 0 .. 5
  /\ {gone, unclear, disordered} \subseteq BOOLEAN

Init ==
  /\ balance = None /\ userConfig = FALSE /\ status = "none"
  /\ pc = [s \in Slots |-> "idle"] /\ job = [s \in Slots |-> NoJob] /\ asked = 0
  /\ emitted = {} /\ deliveries = [e \in Events |-> 0] /\ acked = {}
  /\ gone = FALSE
  /\ least = 0 /\ most = 0 /\ credited = {} /\ builds = 0 /\ unclear = FALSE
  /\ newest = 0 /\ disordered = FALSE

-----------------------------------------------------------------------------
(* Arithmetic of the balance.                                              *)

Whole(b)   == (b \div Unit) * Unit       \* parseInt
Less(b, n) == IF b < n THEN 0 ELSE b - n \* Math.max(0, b - n)

\* A balance nobody has written counts as nothing for a charge and a payment,
\* and as the free credits for a build.
OrZero(b) == IF b = None THEN 0 ELSE b
OrFree(b) == IF b = None THEN Free ELSE Whole(b)

\* Mutant: a charge is not stopped at zero.
NewBalanceMutant(j) ==
  CASE j.kind = "grant"  -> Free
    [] j.kind = "build"  -> OrFree(j.seen) - BuildCost
    [] j.kind = "add"    -> Whole(OrZero(j.seen)) + j.amount
    [] j.kind = "charge" -> OrZero(j.seen) - j.amount

NewBalance(j) ==
  CASE j.kind = "grant"  -> Free
    [] j.kind = "build"  -> Less(OrFree(j.seen), BuildCost)
    [] j.kind = "add"    -> Whole(OrZero(j.seen)) + j.amount
    [] j.kind = "charge" -> Less(OrZero(j.seen), j.amount)

-----------------------------------------------------------------------------
(* Requests.                                                               *)

\* The get of a request has answered and its put is to follow.
Read(s, kind, amount, event) ==
  /\ job' = [job EXCEPT ![s] = [kind |-> kind, seen |-> balance, amount |-> amount,
                                event |-> event]]
  /\ pc' = [pc EXCEPT ![s] = "put"]
  /\ unclear' = (unclear \/ \E t \in Slots : pc[t] = "put")

Asks(s) == pc[s] = "idle" /\ asked < MaxRequests /\ asked' = asked + 1

\* Mutant: the free credits are granted again when they are used up.
GetBalanceMutant(s) ==
  /\ Asks(s) /\ OrZero(balance) = 0
  /\ Read(s, "grant", 0, None)
  /\ UNCHANGED <<balance, least, most, credited, builds, plan, stripe>>

\* getBalance writes when there is none.
GetBalance(s) ==
  /\ Asks(s) /\ balance = None
  /\ Read(s, "grant", 0, None)
  /\ UNCHANGED <<balance, least, most, credited, builds, plan, stripe>>

ConsumeBuild(s) ==
  /\ Asks(s) /\ OrFree(balance) >= BuildCost
  /\ Read(s, "build", BuildCost, None)
  /\ UNCHANGED <<balance, least, most, credited, builds, plan, stripe>>

\* deductCredits, of images and site plans.
DeductCredits(s) ==
  /\ Asks(s)
  /\ \E n \in Prices : OrZero(balance) >= n /\ Read(s, "charge", n, None)
  /\ UNCHANGED <<balance, least, most, credited, builds, plan, stripe>>

\* enforceLLMCallsRateLimit: one credit admits an inference of any price, and
\* so does a store that fails.
EnforceLLMCalls(s) ==
  /\ Asks(s)
  /\ OrZero(balance) >= Unit \/ Faults
  /\ pc' = [pc EXCEPT ![s] = "calling"]
  /\ UNCHANGED <<balance, job, ledger, plan, stripe>>

\* The inference has ended: recordActualUsage.
RecordActualUsage(s) ==
  /\ pc[s] = "calling"
  /\ \E n \in Prices : Read(s, "charge", n, None)
  /\ UNCHANGED <<balance, asked, least, most, credited, builds, plan, stripe>>

\* It failed, or was stopped before the provider told what it used.
UsageUnknown(s) ==
  /\ pc[s] = "calling"
  /\ pc' = [pc EXCEPT ![s] = "idle"]
  /\ UNCHANGED <<balance, job, asked, ledger, plan, stripe>>

-----------------------------------------------------------------------------
(* Stripe, and its webhook.                                                *)

\* The user pays, subscribes, fails to pay or leaves.
Emit(e) ==
  /\ e \in Events \ emitted
  /\ e # "topup" => \A f \in Events : Rank[f] < Rank[e] => f = "topup" \/ f \in emitted
  /\ emitted' = emitted \union {e}
  /\ UNCHANGED <<balance, pc, job, asked, ledger, plan, deliveries, acked, gone>>

\* Stripe hears the answer, or not.
Answered(s, e) ==
  /\ pc' = [pc EXCEPT ![s] = "idle"] /\ job' = [job EXCEPT ![s] = NoJob]
  /\ \/ acked' = acked \union {e}
     \/ Faults /\ UNCHANGED acked

\* A checkout's event carries the user; the others ask Stripe for the customer.
Customers(e) == e \notin {"topup", "started"}

\* handleWebhook begins.  Stripe delivers an event until it hears an answer of
\* 200; one whose answer was lost is delivered again.  When the customer was
\* deleted an event is answered with 200, and nothing comes of it.
Deliver(s, e) ==
  /\ pc[s] = "idle" /\ e \in emitted \ acked /\ deliveries[e] < MaxDeliveries
  /\ deliveries' = [deliveries EXCEPT ![e] = @ + 1]
  /\ \/ /\ Customers(e) /\ (gone \/ Faults)
        /\ gone' = TRUE /\ disordered' = TRUE /\ newest' = 0 /\ Answered(s, e)
     \/ /\ ~(Customers(e) /\ gone)
        /\ pc' = [pc EXCEPT ![s] = IF e \in PlanEvents THEN "status" ELSE "credit"]
        /\ job' = [job EXCEPT ![s] = [NoJob EXCEPT !.event = e]]
        /\ UNCHANGED <<acked, gone, newest, disordered>>
  /\ UNCHANGED <<balance, asked, ledger, userConfig, status, emitted>>

StatusOf(e) ==
  CASE e \in {"started", "active"} -> "active"
    [] e = "lapsed"                -> "past_due"
    [] e = "deleted"               -> "canceled"

PlanStep(s, e) ==
  /\ disordered' = (disordered \/ Rank[e] < newest
                      \/ \E t \in Slots \ {s} : pc[t] \in {"status", "config"})
  /\ newest' = IF disordered' THEN 0 ELSE Rank[e]

\* updateStripeSubscription.
SetStatus(s) ==
  /\ pc[s] = "status"
  /\ LET e == job[s].event
     IN  /\ status' = StatusOf(e) /\ PlanStep(s, e)
         /\ pc' = [pc EXCEPT ![s] = IF e = "started" THEN "credit" ELSE "config"]
  /\ UNCHANGED <<balance, userConfig, job, asked, ledger, stripe>>

\* Mutant: every update of a subscription gives the Pro limits.
ProMutant(e) == e \in {"active", "lapsed"}

Pro(e) == e = "active"

\* The configuration is put, or deleted.
SetConfig(s) ==
  /\ pc[s] = "config"
  /\ LET e == job[s].event
     IN  userConfig' = Pro(e) /\ PlanStep(s, e) /\ Answered(s, e)
  /\ UNCHANGED <<balance, status, asked, ledger, emitted, deliveries, gone>>

\* addCredits reads the balance.
AddCredits(s) ==
  /\ pc[s] = "credit"
  /\ LET e == job[s].event IN Read(s, "add", Payment[e], e)
  /\ UNCHANGED <<balance, asked, least, most, credited, builds, plan, stripe>>

\* The history of a put; the ledger is kept as long as it is clear.
Booked(j) ==
  LET granted == (IF j.seen = None /\ j.kind \in {"grant", "build"} THEN Free ELSE 0)
                   + (IF j.kind = "add" THEN j.amount ELSE 0)
      charged == IF j.kind \in {"build", "charge"} THEN j.amount ELSE 0
      cut     == IF j.kind \in {"build", "add"} THEN Unit - 1 ELSE 0
      excused == IF j.kind = "charge" THEN Less(j.amount, OrZero(j.seen)) ELSE 0
  IN  /\ unclear' = (unclear \/ j.event \in credited)
      /\ least' = IF unclear' THEN 0 ELSE least + granted - charged - cut
      /\ most' = IF unclear' THEN 0 ELSE most + granted - charged + excused
      /\ builds' = builds + (IF j.kind = "build" THEN 1 ELSE 0)
      /\ credited' = IF j.kind = "add" THEN credited \union {j.event} ELSE credited

\* The put, and the request's answer.
Put(s) ==
  /\ pc[s] = "put"
  /\ balance' = NewBalance(job[s]) /\ Booked(job[s])
  /\ \/ job[s].event # None /\ Answered(s, job[s].event)
     \/ /\ job[s].event = None
        /\ pc' = [pc EXCEPT ![s] = "idle"] /\ job' = [job EXCEPT ![s] = NoJob]
        /\ UNCHANGED acked
  /\ UNCHANGED <<asked, plan, emitted, deliveries, gone>>

\* Mutant: the webhook answers 200 after an exception.
FailsMutant(s) ==
  /\ Faults /\ pc[s] \in {"status", "config", "credit", "put"}
  /\ pc' = [pc EXCEPT ![s] = "idle"] /\ job' = [job EXCEPT ![s] = NoJob]
  /\ acked' = acked \union ({job[s].event} \ {None})
  /\ UNCHANGED <<balance, asked, ledger, plan, emitted, deliveries, gone>>

\* The store or the database fails: a webhook answers 500, a request too, and
\* an inference's usage is not recorded.
Fails(s) ==
  /\ Faults /\ pc[s] \in {"status", "config", "credit", "put"}
  /\ pc' = [pc EXCEPT ![s] = "idle"] /\ job' = [job EXCEPT ![s] = NoJob]
  /\ UNCHANGED <<balance, asked, ledger, plan, stripe>>

Ask(s) ==
  GetBalance(s) \/ ConsumeBuild(s) \/ DeductCredits(s) \/ EnforceLLMCalls(s)
Go(s) ==
  RecordActualUsage(s) \/ UsageUnknown(s) \/ SetStatus(s) \/ SetConfig(s) \/ AddCredits(s)
    \/ Put(s) \/ Fails(s)

Next ==
  \/ \E s \in Slots : Ask(s) \/ Go(s)
  \/ \E e \in Events : Emit(e) \/ \E s \in Slots : Deliver(s, e)

Spec == Init /\ [][Next]_vars

\* Awaits end, and Stripe delivers what was not answered with 200.
FairSpec ==
  /\ Spec
  /\ \A s \in Slots : WF_vars(Go(s))
  /\ \A e \in Events : WF_vars(\E s \in Slots : Deliver(s, e))

-----------------------------------------------------------------------------
(* Properties.                                                             *)

\* As long as no two requests were between their get and their put at once and
\* no payment was delivered twice, the balance is what was granted and paid
\* less what was charged: higher only by what a charge could not take, and
\* lower only by the fractions that builds and payments forget.
LedgerAgrees ==
  (balance # None /\ ~unclear) => least <= balance /\ balance <= most

\* When Stripe's plan events were handled one after the other in the order it
\* created them, however often each failed and was delivered again, the user
\* has the Pro limits exactly when the subscription is active.
PlanAgrees ==
  (/\ emitted \intersect PlanEvents \subseteq acked
   /\ "started" \in emitted => "active" \in emitted
   /\ \A s \in Slots : pc[s] \notin {"status", "config"}
   /\ ~disordered)
    => (userConfig <=> status = "active")

\* What the user has paid for is credited, unless every delivery of it fails, or
\* it is a renewal whose customer was deleted: that one is answered with 200.
PaidIsCredited ==
  \A e \in Events \intersect Paying :
    (e \in emitted) ~> (e \in credited \/ deliveries[e] = MaxDeliveries \/ (Customers(e) /\ gone))

\* credits/controller.ts: "Deducts BUILD_COST_CREDITS atomically": the builds
\* that were admitted were paid for out of what was granted.
BuildsPaid == builds * BuildCost <= Free
=============================================================================
