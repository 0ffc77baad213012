---------------------------- MODULE AllowanceProofs ----------------------------
(***************************************************************************)
(* Proofs about what a user may still use: Credits, for every number of    *)
(* requests and webhooks under way at once, every price, payment and       *)
(* bound, and any set of events; and RateLimitStore, for every config,     *)
(* cost, bucket size and clock.                                            *)
(***************************************************************************)
EXTENDS Credits, RateLimitStore, FiniteSetTheorems, WellFoundedInduction, TLAPS

-----------------------------------------------------------------------------
(* Credits: the inductive invariant.                                       *)

\* What a webhook is about to do is about an event Stripe has created, of the
\* kind that takes the webhook there; a request's put is about no event.
JobMatches(s) ==
  /\ pc[s] \in {"status", "config"} => job[s].event \in PlanEvents
  /\ pc[s] = "config" => job[s].event # "started"
  /\ pc[s] = "credit" => job[s].event \in Paying
  /\ pc[s] = "put" =>
       IF job[s].kind = "add" THEN job[s].event \in Paying ELSE job[s].event = None
  /\ job[s].event \in emitted \union {None}

\* A grant is of a balance that was not there, and a build's cost is covered by
\* what the build has read.
JobCovered(s) ==
  pc[s] = "put" =>
    /\ job[s].kind = "grant" => job[s].seen = None
    /\ job[s].kind = "build" => job[s].amount = BuildCost /\ OrFree(job[s].seen) >= BuildCost

Jobs == \A s \in Slots : JobMatches(s) /\ JobCovered(s)

\* While the ledger is clear, whoever is to put has read the balance that is
\* there, and nobody else is to put.
Ledger ==
  ~unclear =>
    /\ balance = None => least = 0 /\ most = 0
    /\ least <= OrZero(balance) /\ OrZero(balance) <= most
    /\ \A s \in Slots : pc[s] = "put" => job[s].seen = balance
    /\ \A s, t \in Slots : pc[s] = "put" /\ pc[t] = "put" => s = t

\* While plan events are handled in order, the newest decides on the status and,
\* once it is answered, on the configuration; none that was answered is newer.
Plan ==
  ~disordered =>
    /\ newest = 0 => status = "none" /\ ~userConfig
    /\ newest # 0 => \E e \in PlanEvents \intersect emitted :
         /\ Rank[e] = newest /\ status = StatusOf(e)
         /\ e \in acked \ {"started"} => (userConfig <=> Pro(e))
    /\ \A e \in PlanEvents \intersect acked : Rank[e] <= newest
    /\ \A s \in Slots : pc[s] \in {"config", "credit", "put"} /\ job[s].event \in PlanEvents =>
         Rank[job[s].event] <= newest
    /\ \A s \in Slots : pc[s] = "config" =>
         Rank[job[s].event] = newest /\ status = StatusOf(job[s].event)

IInv == TypeOK /\ Jobs /\ Ledger /\ Plan

-----------------------------------------------------------------------------
(* Lemmas about the operators.                                             *)

\* parseInt forgets less than a credit.
LEMMA WholeBounds ==
  ASSUME NEW b \in Nat
  PROVE  Whole(b) \in Nat /\ Whole(b) <= b /\ b - (Unit - 1) <= Whole(b)
<1>. DEFINE q == b \div Unit
            r == b % Unit
<1>1. Unit \in Nat /\ Unit > 0
  BY CreditsAssumption
<1>2. q \in Nat /\ r \in 0 .. Unit - 1 /\ b = Unit * q + r
  BY <1>1
<1>3. Whole(b) = Unit * q
  BY <1>1, <1>2 DEF Whole
<1>4. Unit * q \in Nat
  BY <1>1, <1>2
<1>. HIDE DEF q, r
<1>. QED
  BY <1>1, <1>2, <1>3, <1>4

\* Nothing is taken below zero.
LEMMA LessBounds ==
  ASSUME NEW b \in Nat, NEW n \in Nat
  PROVE  /\ Less(b, n) \in Nat /\ b - n <= Less(b, n) /\ Less(b, n) = b - n + Less(n, b)
         /\ n <= b => Less(b, n) = b - n
BY DEF Less

\* The constants as numbers.
LEMMA Amounts ==
  /\ Unit \in Nat /\ Unit >= 1 /\ Free \in Nat /\ BuildCost \in Nat /\ BuildCost <= Free
  /\ Prices \subseteq Nat /\ \A e \in Paying : Payment[e] \in Nat
  /\ MaxRequests \in Nat /\ MaxDeliveries \in Nat /\ None \notin Nat /\ None \notin Events
  /\ None \notin PlanEvents \union Paying
BY CreditsAssumption

LEMMA ReadAs ==
  ASSUME NEW b \in Nat \union {None}
  PROVE  OrZero(b) \in Nat /\ OrFree(b) \in Nat
BY WholeBounds, Amounts DEF OrZero, OrFree

\* The balance that a put writes is a number of credits.
LEMMA NewBalanceIsNat ==
  ASSUME NEW j \in Job
  PROVE  NewBalance(j) \in Nat
<1>1. j.seen \in Nat \union {None} /\ j.amount \in Nat
      /\ j.kind \in {"grant", "build", "add", "charge"}
  BY DEF Job
<1>2. OrZero(j.seen) \in Nat /\ OrFree(j.seen) \in Nat
  BY <1>1, ReadAs
<1>3. Whole(OrZero(j.seen)) \in Nat
  BY <1>2, WholeBounds
<1>4. /\ Less(OrFree(j.seen), BuildCost) \in Nat /\ Less(OrZero(j.seen), j.amount) \in Nat
  BY <1>1, <1>2, Amounts, LessBounds
<1>. QED
  BY <1>1, <1>3, <1>4, Amounts DEF NewBalance

\* Stripe's order of the plan's events, and what each makes of the status.
LEMMA PlanEventCases ==
  ASSUME NEW e \in PlanEvents
  PROVE  /\ Rank[e] \in 1 .. 5 /\ StatusOf(e) \in {"active", "past_due", "canceled"}
         /\ Rank[e] = 1 <=> e = "started"
         /\ \A f \in PlanEvents : Rank[e] = Rank[f] => e = f
         /\ StatusOf(e) = "active" <=> e \in {"started", "active"}
BY DEF PlanEvents, Rank, StatusOf

\* A job is made by a read.
LEMMA ReadTyping ==
  ASSUME TypeOK, NEW s \in Slots, NEW k \in {"grant", "build", "add", "charge"},
         NEW n \in Nat, NEW e \in Events \union {None}, Read(s, k, n, e)
  PROVE  /\ job' \in [Slots -> Job] /\ unclear' \in BOOLEAN
         /\ pc' \in [Slots -> {"idle", "calling", "status", "config", "credit", "put"}]
BY DEF TypeOK, Read, Job

\* The event a webhook is at work on.
LEMMA EventOf ==
  ASSUME IInv, NEW s \in Slots
  PROVE  /\ pc[s] \in {"status", "config"} => job[s].event \in PlanEvents \intersect emitted
         /\ pc[s] = "credit" => job[s].event \in Paying \intersect emitted
         /\ pc[s] = "put" /\ job[s].kind = "add" => job[s].event \in Paying \intersect emitted
         /\ job[s].event # None => job[s].event \in emitted
         /\ job[s] \in Job /\ emitted \subseteq Events
BY Amounts DEF IInv, Jobs, JobMatches, TypeOK

\* The operations that end in a get, and what they are about to put.
Reads(s) ==
  GetBalance(s) \/ ConsumeBuild(s) \/ DeductCredits(s) \/ RecordActualUsage(s) \/ AddCredits(s)

LEMMA ReadsCases ==
  ASSUME IInv, NEW s \in Slots, Reads(s)
  PROVE  /\ asked' \in 0 .. MaxRequests /\ pc[s] # "put"
         /\ UNCHANGED <<balance, least, most, credited, builds, plan, stripe>>
         /\ \E k \in {"grant", "build", "add", "charge"}, n \in Nat, e \in Events \union {None} :
              /\ Read(s, k, n, e)
              /\ IF k = "add" THEN e \in Paying ELSE e = None
              /\ k = "grant" => balance = None
              /\ k = "build" => n = BuildCost /\ OrFree(balance) >= BuildCost
              /\ e # None => pc[s] = "credit" /\ e = job[s].event
<1>1. asked \in 0 .. MaxRequests
  BY DEF IInv, TypeOK
<1>2. CASE GetBalance(s)
  BY <1>1, <1>2, Amounts DEF GetBalance, Asks
<1>3. CASE ConsumeBuild(s)
  BY <1>1, <1>3, Amounts DEF ConsumeBuild, Asks
<1>4. CASE DeductCredits(s)
  BY <1>1, <1>4, Amounts DEF DeductCredits, Asks
<1>5. CASE RecordActualUsage(s)
  BY <1>1, <1>5, Amounts DEF RecordActualUsage
<1>6. CASE AddCredits(s)
  <2>1. job[s].event \in Paying /\ job[s].event \in Events
    BY <1>6, EventOf DEF AddCredits
  <2>. QED
    BY <1>1, <1>6, <2>1, Amounts DEF AddCredits
<1>. QED
  BY <1>2, <1>3, <1>4, <1>5, <1>6 DEF Reads

\* The steps of a slot, with its reads as one.
LEMMA SlotStepCases ==
  ASSUME NEW s \in Slots, Ask(s) \/ Go(s)
  PROVE  \/ Reads(s) \/ EnforceLLMCalls(s) \/ UsageUnknown(s) \/ SetStatus(s) \/ SetConfig(s)
         \/ Put(s) \/ Fails(s)
BY DEF Ask, Go, Reads

-----------------------------------------------------------------------------
(* Every step keeps the types, part by part.                               *)

MoneyTyped ==
  /\ balance \in Nat \union {None} /\ least \in Int /\ most \in Int /\ builds \in Nat
  /\ credited \subseteq Events \intersect Paying /\ unclear \in BOOLEAN

SlotsTyped ==
  /\ pc \in [Slots -> {"idle", "calling", "status", "config", "credit", "put"}]
  /\ job \in [Slots -> Job] /\ asked \in 0 .. MaxRequests

StripeTyped ==
  /\ acked \subseteq emitted /\ emitted \subseteq Events
  /\ deliveries \in [Events -> 0 .. MaxDeliveries] /\ gone \in BOOLEAN

PlanTyped ==
  /\ userConfig \in BOOLEAN /\ status \in {"none", "active", "past_due", "canceled"}
  /\ newest \in 0 .. 5 /\ disordered \in BOOLEAN

LEMMA TypeParts == TypeOK <=> MoneyTyped /\ SlotsTyped /\ StripeTyped /\ PlanTyped
BY DEF TypeOK, MoneyTyped, SlotsTyped, StripeTyped, PlanTyped

\* A delivery is answered without effect, or its work begins.
LEMMA DeliverCases ==
  ASSUME NEW s \in Slots, NEW e \in Events, Deliver(s, e)
  PROVE  /\ e \in emitted /\ UNCHANGED <<balance, asked, ledger, userConfig, status, emitted>>
         /\ \/ Answered(s, e) /\ disordered' = TRUE /\ newest' = 0 /\ gone' = TRUE
            \/ /\ pc' = [pc EXCEPT ![s] = IF e \in PlanEvents THEN "status" ELSE "credit"]
               /\ job' = [job EXCEPT ![s] = [NoJob EXCEPT !.event = e]]
               /\ UNCHANGED <<plan, acked, gone>>
BY DEF Deliver, plan

LEMMA MoneyStep ==
  ASSUME IInv, [Next]_vars
  PROVE  MoneyTyped'
<1>1. MoneyTyped /\ SlotsTyped
  BY TypeParts DEF IInv
<1>2. ASSUME UNCHANGED <<balance, least, most, builds, credited, unclear>>
      PROVE  MoneyTyped'
  BY <1>1, <1>2 DEF MoneyTyped
<1>3. ASSUME NEW s \in Slots, Reads(s)
      PROVE  MoneyTyped'
  BY <1>1, <1>3, ReadsCases, ReadTyping DEF MoneyTyped, IInv
<1>4. ASSUME NEW s \in Slots, Put(s)
      PROVE  MoneyTyped'
  <2>1. job[s] \in Job /\ NewBalance(job[s]) \in Nat
    BY <1>1, NewBalanceIsNat DEF SlotsTyped
  <2>2. /\ job[s].amount \in Nat /\ job[s].seen \in Nat \union {None}
        /\ job[s].kind = "add" => job[s].event \in Events \intersect Paying
    BY <1>4, <2>1, EventOf DEF Put, Job
  <2>3. OrZero(job[s].seen) \in Nat
    BY <2>2, ReadAs
  <2>4. Less(job[s].amount, OrZero(job[s].seen)) \in Nat
    BY <2>2, <2>3, LessBounds
  <2>5. /\ unclear' \in BOOLEAN /\ least' \in Int /\ most' \in Int /\ builds' \in Nat
        /\ credited' \subseteq Events \intersect Paying
    BY <1>1, <1>4, <2>2, <2>4, Amounts DEF Put, Booked, MoneyTyped
  <2>. QED
    BY <1>4, <2>1, <2>5 DEF Put, MoneyTyped
<1>5. ASSUME NEW s \in Slots, Ask(s) \/ Go(s)
      PROVE  MoneyTyped'
  BY <1>2, <1>3, <1>4, <1>5, SlotStepCases
  DEF EnforceLLMCalls, UsageUnknown, SetStatus, SetConfig, Fails, ledger
<1>. QED
  BY <1>2, <1>5 DEF Next, Emit, Deliver, ledger, vars

LEMMA SlotsStep ==
  ASSUME IInv, [Next]_vars
  PROVE  SlotsTyped'
<1>1. SlotsTyped /\ TypeOK
  BY TypeParts DEF IInv
<1>2. NoJob \in Job /\ \A e \in Events : [NoJob EXCEPT !.event = e] \in Job
  BY DEF NoJob, Job
<1>3. ASSUME NEW s \in Slots, NEW k \in {"idle", "calling", "status", "config", "credit", "put"},
             NEW j \in Job,
             pc' = [pc EXCEPT ![s] = k], job' = job \/ job' = [job EXCEPT ![s] = j],
             asked' \in 0 .. MaxRequests
      PROVE  SlotsTyped'
  BY <1>1, <1>3 DEF SlotsTyped
<1>4. ASSUME NEW s \in Slots, Reads(s)
      PROVE  SlotsTyped'
  BY <1>1, <1>4, ReadsCases, ReadTyping DEF SlotsTyped
<1>5. ASSUME NEW s \in Slots, EnforceLLMCalls(s)
      PROVE  SlotsTyped'
  BY <1>1, <1>5, Amounts DEF EnforceLLMCalls, Asks, SlotsTyped
<1>6. ASSUME NEW s \in Slots,
             UsageUnknown(s) \/ SetStatus(s) \/ SetConfig(s) \/ Put(s) \/ Fails(s)
      PROVE  SlotsTyped'
  <2>1. UNCHANGED asked
    BY <1>6 DEF UsageUnknown, SetStatus, SetConfig, Put, Fails
  <2>2. \E k \in {"idle", "config", "credit"} : pc' = [pc EXCEPT ![s] = k]
    BY <1>6 DEF UsageUnknown, SetStatus, SetConfig, Put, Fails, Answered
  <2>3. job' = job \/ job' = [job EXCEPT ![s] = NoJob]
    BY <1>6 DEF UsageUnknown, SetStatus, SetConfig, Put, Fails, Answered
  <2>. QED
    BY <1>1, <1>2, <2>1, <2>2, <2>3 DEF SlotsTyped
<1>7. ASSUME NEW s \in Slots, NEW e \in Events, Deliver(s, e)
      PROVE  SlotsTyped'
  <2>1. CASE Answered(s, e)
    BY <1>1, <1>2, <1>3, <1>7, <2>1, DeliverCases DEF Answered, SlotsTyped
  <2>2. CASE /\ pc' = [pc EXCEPT ![s] = IF e \in PlanEvents THEN "status" ELSE "credit"]
             /\ job' = [job EXCEPT ![s] = [NoJob EXCEPT !.event = e]]
    BY <1>1, <1>2, <1>7, <2>2, DeliverCases DEF SlotsTyped
  <2>. QED
    BY <1>7, <2>1, <2>2, DeliverCases
<1>8. CASE UNCHANGED <<pc, job, asked>>
  BY <1>1, <1>8 DEF SlotsTyped
<1>. QED
  BY <1>4, <1>5, <1>6, <1>7, <1>8, SlotStepCases DEF Next, Emit, vars

\* What an answer does to Stripe's side.
LEMMA StripeStep ==
  ASSUME IInv, [Next]_vars
  PROVE  StripeTyped'
<1>1. StripeTyped
  BY TypeParts DEF IInv
<1>2. ASSUME UNCHANGED stripe
      PROVE  StripeTyped'
  BY <1>1, <1>2 DEF StripeTyped, stripe
<1>3. ASSUME NEW s \in Slots, NEW e \in emitted, Answered(s, e), UNCHANGED <<emitted, deliveries, gone>>
      PROVE  StripeTyped'
  BY <1>1, <1>3 DEF StripeTyped, Answered
<1>4. ASSUME NEW s \in Slots, SetConfig(s)
      PROVE  StripeTyped'
  BY <1>3, <1>4, EventOf DEF SetConfig
<1>5. ASSUME NEW s \in Slots, Put(s)
      PROVE  StripeTyped'
  BY <1>2, <1>3, <1>5, EventOf DEF Put, stripe
<1>6. ASSUME NEW s \in Slots, Ask(s) \/ Go(s)
      PROVE  StripeTyped'
  BY <1>2, <1>4, <1>5, <1>6, SlotStepCases, ReadsCases
  DEF EnforceLLMCalls, UsageUnknown, SetStatus, Fails, stripe
<1>7. ASSUME NEW e \in Events, Emit(e)
      PROVE  StripeTyped'
  BY <1>1, <1>7 DEF StripeTyped, Emit
<1>8. ASSUME NEW s \in Slots, NEW e \in Events, Deliver(s, e)
      PROVE  StripeTyped'
  <2>1. deliveries' \in [Events -> 0 .. MaxDeliveries]
    <3>1. deliveries[e] < MaxDeliveries /\ deliveries' = [deliveries EXCEPT ![e] = @ + 1]
      BY <1>8 DEF Deliver
    <3>. QED
      BY <1>1, <3>1, Amounts DEF StripeTyped
  <2>2. acked' \subseteq acked \union {e} /\ e \in emitted /\ UNCHANGED emitted
    BY <1>8, DeliverCases DEF Answered
  <2>3. gone' \in BOOLEAN
    BY <1>1, <1>8, DeliverCases DEF StripeTyped
  <2>. QED
    BY <1>1, <2>1, <2>2, <2>3 DEF StripeTyped
<1>. QED
  BY <1>2, <1>6, <1>7, <1>8 DEF Next, vars

LEMMA PlanTypedStep ==
  ASSUME IInv, [Next]_vars
  PROVE  PlanTyped'
<1>1. PlanTyped
  BY TypeParts DEF IInv
<1>2. ASSUME UNCHANGED plan
      PROVE  PlanTyped'
  BY <1>1, <1>2 DEF PlanTyped, plan
<1>3. ASSUME NEW s \in Slots, NEW e \in PlanEvents, PlanStep(s, e)
      PROVE  newest' \in 0 .. 5 /\ disordered' \in BOOLEAN
  BY <1>1, <1>3, PlanEventCases DEF PlanTyped, PlanStep
<1>4. ASSUME NEW s \in Slots, SetStatus(s)
      PROVE  PlanTyped'
  <2>1. job[s].event \in PlanEvents
    BY <1>4, EventOf DEF SetStatus
  <2>2. status' = StatusOf(job[s].event) /\ PlanStep(s, job[s].event) /\ UNCHANGED userConfig
    BY <1>4 DEF SetStatus
  <2>. QED
    BY <1>1, <1>3, <2>1, <2>2, PlanEventCases DEF PlanTyped
<1>5. ASSUME NEW s \in Slots, SetConfig(s)
      PROVE  PlanTyped'
  <2>1. job[s].event \in PlanEvents
    BY <1>5, EventOf DEF SetConfig
  <2>2. userConfig' = Pro(job[s].event) /\ PlanStep(s, job[s].event) /\ UNCHANGED status
    BY <1>5 DEF SetConfig
  <2>. QED
    BY <1>1, <1>3, <2>1, <2>2 DEF PlanTyped, Pro
<1>6. ASSUME NEW s \in Slots, Ask(s) \/ Go(s)
      PROVE  PlanTyped'
  BY <1>2, <1>4, <1>5, <1>6, SlotStepCases, ReadsCases
  DEF EnforceLLMCalls, UsageUnknown, Put, Fails
<1>7. ASSUME NEW s \in Slots, NEW e \in Events, Deliver(s, e)
      PROVE  PlanTyped'
  <2>1. CASE disordered' = TRUE /\ newest' = 0
    <3>1. UNCHANGED <<userConfig, status>>
      BY <1>7, DeliverCases
    <3>2. newest' \in 0 .. 5
      BY <2>1
    <3>. QED
      BY <1>1, <2>1, <3>1, <3>2 DEF PlanTyped
  <2>. QED
    BY <1>2, <1>7, <2>1, DeliverCases
<1>. QED
  BY <1>2, <1>6, <1>7 DEF Next, Emit, vars

-----------------------------------------------------------------------------
(* Every step keeps the strengthenings.                                    *)

\* A step changes the place and the job of one slot together: every job still
\* fits its place, and every event at work is still covered by a job.
LEMMA JobsStep ==
  ASSUME IInv, [Next]_vars
  PROVE  Jobs'
<1>1. Jobs /\ SlotsTyped /\ StripeTyped
  BY TypeParts DEF IInv
<1>. USE DEF Jobs, JobMatches, JobCovered
<1>2. emitted \subseteq emitted'
  BY ReadsCases, SlotStepCases
  DEF Next, EnforceLLMCalls, UsageUnknown, SetStatus, SetConfig, Put, Fails, Emit, Deliver,
      stripe, vars
<1>3. ASSUME NEW s \in Slots, NEW k \in {"idle", "calling"}, pc' = [pc EXCEPT ![s] = k],
             job' = job \/ job' = [job EXCEPT ![s] = NoJob]
      PROVE  Jobs'
  BY <1>1, <1>2, <1>3 DEF SlotsTyped, NoJob
<1>4. ASSUME NEW s \in Slots, Reads(s)
      PROVE  Jobs'
  <2>1. PICK k \in {"grant", "build", "add", "charge"}, n \in Nat, e \in Events \union {None} :
              /\ Read(s, k, n, e)
              /\ IF k = "add" THEN e \in Paying ELSE e = None
              /\ k = "grant" => balance = None
              /\ k = "build" => n = BuildCost /\ OrFree(balance) >= BuildCost
              /\ e # None => pc[s] = "credit" /\ e = job[s].event
    BY <1>4, ReadsCases
  <2>2. DEFINE j == [kind |-> k, seen |-> balance, amount |-> n, event |-> e]
  <2>3. pc' = [pc EXCEPT ![s] = "put"] /\ job' = [job EXCEPT ![s] = j]
    BY <2>1 DEF Read
  <2>4. pc'[s] = "put" /\ job'[s] = j
    BY <1>1, <2>3 DEF SlotsTyped
  <2>5. JobMatches(s)' /\ JobCovered(s)'
    BY <1>1, <1>2, <2>1, <2>4
  <2>6. \A t \in Slots : t # s => pc'[t] = pc[t] /\ job'[t] = job[t]
    BY <1>1, <2>3 DEF SlotsTyped
  <2>. HIDE DEF j
  <2>7. \A t \in Slots : t # s => JobMatches(t)' /\ JobCovered(t)'
    BY <1>1, <1>2, <2>6
  <2>. QED
    BY <2>5, <2>7
<1>5. ASSUME NEW s \in Slots, SetStatus(s)
      PROVE  Jobs'
  <2>1. job[s].event \in PlanEvents
    BY <1>5, EventOf DEF SetStatus
  <2>2. job' = job /\ pc' = [pc EXCEPT ![s] = IF job[s].event = "started" THEN "credit" ELSE "config"]
    BY <1>5 DEF SetStatus
  <2>. QED
    BY <1>1, <1>2, <2>1, <2>2 DEF SlotsTyped, Paying
<1>6. ASSUME NEW s \in Slots, NEW e \in Events, Deliver(s, e)
      PROVE  Jobs'
  <2>1. e \in emitted /\ e \in PlanEvents \union Paying
    BY <1>6, CreditsAssumption, DeliverCases
  <2>2. CASE Answered(s, e)
    BY <1>3, <2>2 DEF Answered
  <2>3. CASE /\ pc' = [pc EXCEPT ![s] = IF e \in PlanEvents THEN "status" ELSE "credit"]
             /\ job' = [job EXCEPT ![s] = [NoJob EXCEPT !.event = e]]
    BY <1>1, <1>2, <2>1, <2>3 DEF SlotsTyped, NoJob
  <2>. QED
    BY <1>6, <2>2, <2>3, DeliverCases
<1>7. ASSUME NEW s \in Slots, Ask(s) \/ Go(s)
      PROVE  Jobs'
  BY <1>3, <1>4, <1>5, <1>7, SlotStepCases
  DEF EnforceLLMCalls, UsageUnknown, SetConfig, Put, Fails, Answered
<1>8. CASE UNCHANGED <<pc, job>>
  BY <1>1, <1>2, <1>8
<1>. QED
  BY <1>6, <1>7, <1>8 DEF Next, Emit, vars

\* What a put makes of the balance is what it makes of the ledger.
LEMMA PutBooks ==
  ASSUME IInv, NEW s \in Slots, Put(s), ~unclear'
  PROVE  least' <= balance' /\ balance' <= most'
<1>. DEFINE j == job[s]
            b == OrZero(balance)
<1>1. ~unclear /\ balance' = NewBalance(j) /\ Booked(j) /\ pc[s] = "put"
  BY DEF Put, Booked
<1>2. j.seen = balance /\ least <= b /\ b <= most /\ (balance = None => least = 0 /\ most = 0)
  BY <1>1 DEF IInv, Ledger
<1>3. /\ least \in Int /\ most \in Int /\ balance \in Nat \union {None} /\ b \in Nat
      /\ j.kind \in {"grant", "build", "add", "charge"} /\ j.amount \in Nat
  BY ReadAs DEF IInv, TypeOK, Job
<1>4. JobCovered(s)
  BY DEF IInv, Jobs
<1>5. least' = least
                 + ((IF balance = None /\ j.kind \in {"grant", "build"} THEN Free ELSE 0)
                      + (IF j.kind = "add" THEN j.amount ELSE 0))
                 - (IF j.kind \in {"build", "charge"} THEN j.amount ELSE 0)
                 - (IF j.kind \in {"build", "add"} THEN Unit - 1 ELSE 0)
  BY <1>1, <1>2 DEF Booked
<1>6. most' = most
                + ((IF balance = None /\ j.kind \in {"grant", "build"} THEN Free ELSE 0)
                     + (IF j.kind = "add" THEN j.amount ELSE 0))
                - (IF j.kind \in {"build", "charge"} THEN j.amount ELSE 0)
                + (IF j.kind = "charge" THEN Less(j.amount, b) ELSE 0)
  BY <1>1, <1>2 DEF Booked
<1>7. CASE j.kind = "grant"
  <2>1. balance = None /\ balance' = Free
    BY <1>1, <1>2, <1>4, <1>7 DEF JobCovered, NewBalance
  <2>2. least' = least + (Free + 0) - 0 - 0 /\ most' = most + (Free + 0) - 0 + 0
    BY <1>5, <1>6, <1>7, <2>1
  <2>. QED
    BY <1>2, <1>3, <2>1, <2>2, Amounts
<1>8. CASE j.kind = "build"
  <2>1. j.amount = BuildCost /\ OrFree(balance) >= BuildCost
    BY <1>1, <1>2, <1>4, <1>8 DEF JobCovered
  <2>2. balance' = OrFree(balance) - BuildCost
    <3>1. balance' = Less(OrFree(balance), BuildCost)
      BY <1>1, <1>2, <1>8 DEF NewBalance
    <3>. QED
      BY <1>3, <2>1, <3>1, LessBounds, ReadAs, Amounts
  <2>3. CASE balance = None
    <3>1. least' = least + (Free + 0) - BuildCost - (Unit - 1) /\ most' = most + (Free + 0) - BuildCost + 0
      BY <1>5, <1>6, <1>8, <2>1, <2>3
    <3>. QED
      BY <1>2, <1>3, <2>2, <2>3, <3>1, Amounts DEF OrFree
  <2>4. CASE balance # None
    <3>1. least' = least + (0 + 0) - BuildCost - (Unit - 1) /\ most' = most + (0 + 0) - BuildCost + 0
      BY <1>5, <1>6, <1>8, <2>1, <2>4
    <3>2. OrFree(balance) = Whole(b) /\ Whole(b) \in Nat /\ Whole(b) <= b /\ b - (Unit - 1) <= Whole(b)
      BY <1>3, <2>4, WholeBounds DEF OrFree, OrZero
    <3>. QED
      BY <1>2, <1>3, <2>2, <3>1, <3>2, Amounts
  <2>. QED
    BY <2>3, <2>4
<1>9. CASE j.kind = "add"
  <2>1. balance' = Whole(b) + j.amount
    BY <1>1, <1>2, <1>9 DEF NewBalance
  <2>2. least' = least + (0 + j.amount) - 0 - (Unit - 1) /\ most' = most + (0 + j.amount) - 0 + 0
    BY <1>5, <1>6, <1>9
  <2>3. Whole(b) \in Nat /\ Whole(b) <= b /\ b - (Unit - 1) <= Whole(b)
    BY <1>3, WholeBounds
  <2>. QED
    BY <1>2, <1>3, <2>1, <2>2, <2>3, Amounts
<1>10. CASE j.kind = "charge"
  <2>1. balance' = Less(b, j.amount)
    BY <1>1, <1>2, <1>10 DEF NewBalance
  <2>2. least' = least + (0 + 0) - j.amount - 0 /\ most' = most + (0 + 0) - j.amount + Less(j.amount, b)
    BY <1>5, <1>6, <1>10
  <2>3. /\ Less(b, j.amount) \in Nat /\ b - j.amount <= Less(b, j.amount)
        /\ Less(b, j.amount) = b - j.amount + Less(j.amount, b) /\ Less(j.amount, b) \in Nat
    BY <1>3, LessBounds
  <2>. QED
    BY <1>2, <1>3, <2>1, <2>2, <2>3
<1>. QED
  BY <1>3, <1>7, <1>8, <1>9, <1>10

\* The ledger stays clear only as long as one slot is between get and put.
LEMMA LedgerStep ==
  ASSUME IInv, [Next]_vars
  PROVE  Ledger'
<1>1. Ledger /\ SlotsTyped /\ MoneyTyped
  BY TypeParts DEF IInv
<1>. USE DEF Ledger
<1>2. ASSUME UNCHANGED <<balance, least, most, unclear>>, NEW s \in Slots,
             NEW k \in {"idle", "calling", "status", "config", "credit"},
             pc' = [pc EXCEPT ![s] = k],
             job' = job \/ \E j : job' = [job EXCEPT ![s] = j]
      PROVE  Ledger'
  BY <1>1, <1>2 DEF SlotsTyped
<1>3. ASSUME NEW s \in Slots, Reads(s)
      PROVE  Ledger'
  <2>1. UNCHANGED <<balance, least, most>> /\ pc[s] # "put"
    BY <1>3, ReadsCases
  <2>2. PICK k, n, e : Read(s, k, n, e)
    BY <1>3, ReadsCases
  <2>3. /\ pc' = [pc EXCEPT ![s] = "put"] /\ job' = [job EXCEPT ![s] =
             [kind |-> k, seen |-> balance, amount |-> n, event |-> e]]
        /\ unclear' = (unclear \/ \E t \in Slots : pc[t] = "put")
    BY <2>2 DEF Read
  <2>4. job'[s].seen = balance /\ \A t \in Slots : pc'[t] = "put" <=> t = s \/ pc[t] = "put"
    BY <1>1, <2>3 DEF SlotsTyped
  <2>. QED
    BY <1>1, <2>1, <2>3, <2>4
<1>4. ASSUME NEW s \in Slots, Put(s)
      PROVE  Ledger'
  <2>. SUFFICES ASSUME ~unclear'
       PROVE  Ledger'
    OBVIOUS
  <2>1. least' <= balance' /\ balance' <= most'
    BY <1>4, PutBooks
  <2>2. balance' \in Nat
    BY <1>1, <1>4, NewBalanceIsNat DEF SlotsTyped, Put
  <2>3. OrZero(balance)' = balance' /\ balance' # None
    BY <2>2, Amounts DEF OrZero
  <2>4. ~unclear /\ pc[s] = "put" /\ pc' = [pc EXCEPT ![s] = "idle"]
    BY <1>4 DEF Put, Booked, Answered
  <2>5. \A t \in Slots : pc'[t] # "put"
    BY <1>1, <2>4 DEF SlotsTyped
  <2>. QED
    BY <2>1, <2>3, <2>5
<1>5. ASSUME NEW s \in Slots, Ask(s) \/ Go(s)
      PROVE  Ledger'
  <2>1. CASE EnforceLLMCalls(s) \/ UsageUnknown(s)
    BY <1>2, <2>1 DEF EnforceLLMCalls, UsageUnknown, ledger
  <2>2. CASE SetStatus(s)
    BY <1>2, <2>2 DEF SetStatus, ledger
  <2>3. CASE SetConfig(s) \/ Fails(s)
    BY <1>2, <2>3 DEF SetConfig, Fails, Answered, ledger
  <2>. QED
    BY <1>3, <1>4, <1>5, <2>1, <2>2, <2>3, SlotStepCases
<1>6. ASSUME NEW s \in Slots, NEW e \in Events, Deliver(s, e)
      PROVE  Ledger'
  <2>1. CASE Answered(s, e)
    BY <1>2, <1>6, <2>1, DeliverCases DEF Answered, ledger
  <2>2. CASE /\ pc' = [pc EXCEPT ![s] = IF e \in PlanEvents THEN "status" ELSE "credit"]
             /\ job' = [job EXCEPT ![s] = [NoJob EXCEPT !.event = e]]
    BY <1>2, <1>6, <2>2, DeliverCases DEF ledger
  <2>. QED
    BY <1>6, <2>1, <2>2, DeliverCases
<1>7. CASE UNCHANGED <<balance, pc, job, least, most, unclear>>
  BY <1>1, <1>7 DEF OrZero
<1>. QED
  BY <1>5, <1>6, <1>7 DEF Next, Emit, ledger, vars

\* A step that leaves the plan and the answers alone, and takes no slot to a
\* later stage of an event than it was at.
LEMMA PlanKept ==
  ASSUME Plan, UNCHANGED <<plan, acked>>, emitted \subseteq emitted',
         \A t \in Slots : pc'[t] \in {"config", "credit", "put"} /\ job'[t].event \in PlanEvents =>
           pc[t] \in {"config", "credit", "put"} /\ job'[t].event = job[t].event,
         \A t \in Slots : pc'[t] = "config" => pc[t] = "config" /\ job'[t] = job[t]
  PROVE  Plan'
<1>. SUFFICES ASSUME ~disordered'
     PROVE  Plan'
  BY DEF Plan
<1>1. ~disordered /\ UNCHANGED <<userConfig, status, newest, acked>>
  BY DEF plan
<1>. QED
  BY <1>1 DEF Plan

\* updateStripeSubscription takes the plan to the event it is about, which is as
\* new as any that was answered.
LEMMA SetStatusPlan ==
  ASSUME IInv, NEW s \in Slots, SetStatus(s)
  PROVE  Plan'
<1>. SUFFICES ASSUME ~disordered'
     PROVE  Plan'
  BY DEF Plan
<1>. DEFINE e == job[s].event
<1>1. /\ e \in PlanEvents \intersect emitted /\ Rank[e] \in 1 .. 5
      /\ SlotsTyped /\ PlanTyped /\ pc[s] = "status"
  BY EventOf, PlanEventCases, TypeParts DEF SetStatus, IInv
<1>2. /\ status' = StatusOf(e) /\ PlanStep(s, e) /\ UNCHANGED <<userConfig, job, acked, emitted>>
      /\ pc' = [pc EXCEPT ![s] = IF e = "started" THEN "credit" ELSE "config"]
  BY DEF SetStatus, stripe
<1>3. /\ ~disordered /\ ~(Rank[e] < newest) /\ newest' = Rank[e]
      /\ \A t \in Slots \ {s} : pc[t] # "config"
  BY <1>2 DEF PlanStep
<1>4. newest <= newest' /\ newest' # 0
  BY <1>1, <1>3 DEF PlanTyped
<1>5. \A f \in PlanEvents : Rank[f] <= newest => Rank[f] <= newest'
  <2>1. newest \in Int /\ newest' \in Int /\ \A f \in PlanEvents : Rank[f] \in Int
    BY <1>1, <1>3, PlanEventCases DEF PlanTyped
  <2>. QED
    BY <1>4, <2>1
<1>6. e \in acked \ {"started"} => (userConfig <=> Pro(e))
  <2>. SUFFICES ASSUME e \in acked \ {"started"}
       PROVE  userConfig <=> Pro(e)
    OBVIOUS
  <2>1. Rank[e] = newest /\ newest # 0
    BY <1>1, <1>3, <1>4 DEF IInv, Plan, PlanTyped
  <2>2. PICK f \in PlanEvents \intersect emitted :
          Rank[f] = newest /\ (f \in acked \ {"started"} => (userConfig <=> Pro(f)))
    BY <1>3, <2>1 DEF IInv, Plan
  <2>3. f = e
    BY <1>1, <2>1, <2>2, PlanEventCases
  <2>. QED
    BY <2>2, <2>3
<1>7. \A f \in PlanEvents \intersect acked' : Rank[f] <= newest'
  BY <1>2, <1>3, <1>5 DEF IInv, Plan
<1>8. ASSUME NEW t \in Slots, pc'[t] \in {"config", "credit", "put"}, job'[t].event \in PlanEvents
      PROVE  Rank[job'[t].event] <= newest'
  <2>1. CASE t = s
    BY <1>1, <1>2, <1>3, <2>1
  <2>2. CASE t # s
    <3>1. pc'[t] = pc[t] /\ job'[t] = job[t]
      BY <1>1, <1>2, <2>2 DEF SlotsTyped
    <3>. QED
      BY <1>3, <1>5, <1>8, <3>1 DEF IInv, Plan
  <2>. QED
    BY <2>1, <2>2
<1>9. \A t \in Slots : pc'[t] = "config" => t = s
  BY <1>1, <1>2, <1>3 DEF SlotsTyped
<1>10. e \in PlanEvents \intersect emitted' /\ job'[s].event = e /\ Rank[e] = newest'
       /\ (e \in acked' \ {"started"} => (userConfig' <=> Pro(e)))
  BY <1>1, <1>2, <1>3, <1>6
<1>. HIDE DEF e
<1>. QED
  BY <1>2, <1>4, <1>7, <1>8, <1>9, <1>10 DEF Plan

\* The configuration is put while the plan is still at the webhook's event.
LEMMA SetConfigPlan ==
  ASSUME IInv, NEW s \in Slots, SetConfig(s)
  PROVE  Plan'
<1>. SUFFICES ASSUME ~disordered'
     PROVE  Plan'
  BY DEF Plan
<1>. DEFINE e == job[s].event
<1>1. /\ e \in PlanEvents \intersect emitted /\ Rank[e] \in 1 .. 5
      /\ SlotsTyped /\ PlanTyped /\ pc[s] = "config"
  BY EventOf, PlanEventCases, TypeParts DEF SetConfig, IInv
<1>2. /\ userConfig' = Pro(e) /\ PlanStep(s, e) /\ Answered(s, e) /\ UNCHANGED <<status, emitted>>
  BY DEF SetConfig
<1>3. ~disordered /\ newest' = Rank[e]
  BY <1>2 DEF PlanStep
<1>4. newest' = newest /\ newest # 0 /\ status = StatusOf(e)
  BY <1>1, <1>3 DEF IInv, Plan
<1>5. acked' \subseteq acked \union {e}
  BY <1>2 DEF Answered
<1>6. /\ pc'[s] = "idle" /\ job'[s].event \notin PlanEvents
      /\ \A t \in Slots \ {s} : pc'[t] = pc[t] /\ job'[t] = job[t]
  BY <1>1, <1>2, Amounts DEF SlotsTyped, Answered, NoJob
<1>7. \A f \in PlanEvents \intersect acked' : Rank[f] <= newest'
  BY <1>1, <1>3, <1>4, <1>5 DEF IInv, Plan
<1>8. \A t \in Slots : pc'[t] \in {"config", "credit", "put"} /\ job'[t].event \in PlanEvents =>
        Rank[job'[t].event] <= newest'
  BY <1>3, <1>4, <1>6 DEF IInv, Plan
<1>9. \A t \in Slots : pc'[t] = "config" =>
        Rank[job'[t].event] = newest' /\ status' = StatusOf(job'[t].event)
  BY <1>2, <1>3, <1>4, <1>6 DEF IInv, Plan
<1>. HIDE DEF e
<1>. QED
  BY <1>1, <1>2, <1>3, <1>4, <1>7, <1>8, <1>9 DEF Plan

\* The put of a subscription's first credits answers "started", which has no
\* configuration to put.
LEMMA PutPlan ==
  ASSUME IInv, NEW s \in Slots, Put(s)
  PROVE  Plan'
<1>. SUFFICES ASSUME ~disordered'
     PROVE  Plan'
  BY DEF Plan
<1>. DEFINE e == job[s].event
<1>1. /\ SlotsTyped /\ pc[s] = "put" /\ ~disordered
      /\ UNCHANGED <<userConfig, status, newest, emitted>> /\ acked' \subseteq acked \union ({e} \ {None})
  BY TypeParts DEF IInv, Put, Answered, plan
<1>2. e \in PlanEvents => e = "started" /\ Rank[e] <= newest
  <2>1. e # None => e \in Paying
    BY <1>1 DEF IInv, Jobs, JobMatches
  <2>2. e \in PlanEvents => e = "started"
    BY <2>1, Amounts DEF PlanEvents, Paying
  <2>3. e \in PlanEvents => Rank[e] <= newest
    BY <1>1 DEF IInv, Plan
  <2>. QED
    BY <2>2, <2>3
<1>3. /\ pc'[s] = "idle"
      /\ \A t \in Slots \ {s} : pc'[t] = pc[t] /\ job'[t] = job[t]
  BY <1>1 DEF SlotsTyped, Put, Answered
<1>4. \A f \in PlanEvents \intersect acked' : Rank[f] <= newest'
  BY <1>1, <1>2 DEF IInv, Plan
<1>5. \A f \in PlanEvents : f \in acked' \ {"started"} => f \in acked \ {"started"}
  BY <1>1, <1>2
<1>6. newest' # 0 => \E f \in PlanEvents \intersect emitted' :
         /\ Rank[f] = newest' /\ status' = StatusOf(f)
         /\ f \in acked' \ {"started"} => (userConfig' <=> Pro(f))
  BY <1>1, <1>5 DEF IInv, Plan
<1>7. newest' = 0 => status' = "none" /\ ~userConfig'
  BY <1>1 DEF IInv, Plan
<1>8. /\ \A t \in Slots : pc'[t] \in {"config", "credit", "put"} /\ job'[t].event \in PlanEvents =>
           Rank[job'[t].event] <= newest'
      /\ \A t \in Slots : pc'[t] = "config" =>
           Rank[job'[t].event] = newest' /\ status' = StatusOf(job'[t].event)
  BY <1>1, <1>3 DEF IInv, Plan
<1>. QED
  BY <1>4, <1>6, <1>7, <1>8 DEF Plan

LEMMA PlanKeeps ==
  ASSUME IInv, [Next]_vars
  PROVE  Plan'
<1>1. Plan /\ SlotsTyped
  BY TypeParts DEF IInv
<1>2. ASSUME NEW s \in Slots, UNCHANGED <<plan, acked, emitted>>,
             NEW k \in {"idle", "calling"}, pc' = [pc EXCEPT ![s] = k],
             job' = job \/ job' = [job EXCEPT ![s] = NoJob]
      PROVE  Plan'
  BY <1>1, <1>2, PlanKept, Amounts DEF SlotsTyped, NoJob
<1>3. ASSUME NEW s \in Slots, Reads(s)
      PROVE  Plan'
  <2>1. UNCHANGED <<plan, acked, emitted>>
    BY <1>3, ReadsCases DEF stripe
  <2>2. PICK k, n, e : Read(s, k, n, e) /\ (e # None => pc[s] = "credit" /\ e = job[s].event)
    BY <1>3, ReadsCases
  <2>3. /\ pc' = [pc EXCEPT ![s] = "put"] /\ job' = [job EXCEPT ![s] =
             [kind |-> k, seen |-> balance, amount |-> n, event |-> e]]
    BY <2>2 DEF Read
  <2>4. /\ pc'[s] = "put" /\ job'[s].event = e
        /\ \A t \in Slots \ {s} : pc'[t] = pc[t] /\ job'[t] = job[t]
    BY <1>1, <2>3 DEF SlotsTyped
  <2>. QED
    BY <1>1, <2>1, <2>2, <2>4, PlanKept, Amounts
<1>4. ASSUME NEW s \in Slots, Ask(s) \/ Go(s)
      PROVE  Plan'
  <2>1. CASE EnforceLLMCalls(s) \/ UsageUnknown(s)
    BY <1>2, <2>1 DEF EnforceLLMCalls, UsageUnknown, stripe
  <2>2. CASE Fails(s)
    BY <1>2, <2>2 DEF Fails, stripe
  <2>. QED
    BY <1>3, <1>4, <2>1, <2>2, SlotStepCases, SetStatusPlan, SetConfigPlan, PutPlan
<1>5. ASSUME NEW s \in Slots, NEW e \in Events, Deliver(s, e)
      PROVE  Plan'
  <2>. SUFFICES ASSUME ~disordered'
       PROVE  Plan'
    BY DEF Plan
  <2>1. /\ UNCHANGED <<plan, acked, emitted>>
        /\ pc' = [pc EXCEPT ![s] = IF e \in PlanEvents THEN "status" ELSE "credit"]
        /\ job' = [job EXCEPT ![s] = [NoJob EXCEPT !.event = e]]
    BY <1>5, DeliverCases
  <2>2. /\ pc'[s] \in {"status", "credit"} /\ (pc'[s] = "credit" => e \notin PlanEvents)
        /\ job'[s].event = e
        /\ \A t \in Slots \ {s} : pc'[t] = pc[t] /\ job'[t] = job[t]
    BY <1>1, <2>1 DEF SlotsTyped, NoJob
  <2>. QED
    BY <1>1, <2>1, <2>2, PlanKept
<1>6. ASSUME NEW e \in Events, Emit(e)
      PROVE  Plan'
  BY <1>1, <1>6, PlanKept DEF Emit
<1>7. CASE UNCHANGED vars
  BY <1>1, <1>7, PlanKept DEF vars, stripe
<1>. QED
  BY <1>4, <1>5, <1>6, <1>7 DEF Next

-----------------------------------------------------------------------------
(* The theorems.                                                           *)

LEMMA IInvInit == Init => IInv
<1>. SUFFICES ASSUME Init
     PROVE  IInv
  OBVIOUS
<1>1. NoJob \in Job /\ NoJob.event = None
  BY DEF NoJob, Job
<1>2. MoneyTyped
  <2>1. unclear \in BOOLEAN
    BY DEF Init
  <2>2. least \in Int /\ most \in Int /\ builds \in Nat
    BY DEF Init
  <2>. QED
    BY <2>1, <2>2 DEF Init, MoneyTyped
<1>3. PlanTyped
  <2>1. userConfig \in BOOLEAN /\ disordered \in BOOLEAN
    BY DEF Init
  <2>2. newest \in 0 .. 5
    BY DEF Init
  <2>. QED
    BY <2>1, <2>2 DEF Init, PlanTyped
<1>4. SlotsTyped
  BY <1>1, Amounts DEF Init, SlotsTyped
<1>5. StripeTyped
  <2>1. gone \in BOOLEAN
    BY DEF Init
  <2>2. deliveries \in [Events -> 0 .. MaxDeliveries]
    BY Amounts DEF Init
  <2>. QED
    BY <2>1, <2>2 DEF Init, StripeTyped
<1>6. Jobs
  BY <1>1 DEF Init, Jobs, JobMatches, JobCovered
<1>7. Ledger /\ Plan
  BY DEF Init, Ledger, Plan, OrZero
<1>. QED
  BY <1>2, <1>3, <1>4, <1>5, <1>6, <1>7, TypeParts DEF IInv

LEMMA IInvStep == IInv /\ [Next]_vars => IInv'
<1>. SUFFICES ASSUME IInv, [Next]_vars
     PROVE  IInv'
  OBVIOUS
<1>1. TypeOK'
  BY MoneyStep, SlotsStep, StripeStep, PlanTypedStep
  DEF TypeOK, MoneyTyped, SlotsTyped, StripeTyped, PlanTyped
<1>. QED
  BY <1>1, JobsStep, LedgerStep, PlanKeeps DEF IInv

\* The invariant that the others follow from holds of every reachable state.
THEOREM InductiveInvariant == Spec => []IInv
<1>. QED
  BY IInvInit, IInvStep, PTL DEF Spec

\* Every variable of the credits keeps its type; the balance is never negative.
THEOREM TypeCorrectness == Spec => []TypeOK
<1>1. IInv => TypeOK
  BY DEF IInv
<1>. QED
  BY <1>1, InductiveInvariant, PTL

\* rateLimits and credits: as long as no two requests were between get and put
\* at once and no payment was credited twice, the balance is what was granted
\* and paid less what was charged, up to what parseInt forgets and what a charge
\* could not take.
THEOREM LedgerAgreesHolds == Spec => []LedgerAgrees
<1>1. IInv => LedgerAgrees
  BY DEF IInv, Ledger, LedgerAgrees, OrZero
<1>. QED
  BY <1>1, InductiveInvariant, PTL

\* The webhook: when plan events were handled in the order Stripe created them
\* and all are answered, the Pro limits are there exactly when the subscription
\* is active, whatever failed or was delivered again on the way.
THEOREM PlanAgreesHolds == Spec => []PlanAgrees
<1>1. ASSUME IInv
      PROVE  PlanAgrees
  <2>. SUFFICES ASSUME emitted \intersect PlanEvents \subseteq acked,
                       "started" \in emitted => "active" \in emitted, ~disordered
       PROVE  userConfig <=> status = "active"
    BY DEF PlanAgrees
  <2>1. Plan /\ PlanTyped
    BY <1>1, TypeParts DEF IInv
  <2>2. CASE newest = 0
    BY <2>1, <2>2 DEF Plan
  <2>3. CASE newest # 0
    <3>1. PICK e \in PlanEvents \intersect emitted :
            /\ Rank[e] = newest /\ status = StatusOf(e)
            /\ e \in acked \ {"started"} => (userConfig <=> Pro(e))
      BY <2>1, <2>3 DEF Plan
    <3>2. e # "started"
      <4>. SUFFICES ASSUME e = "started"
           PROVE  FALSE
        OBVIOUS
      <4>1. "active" \in PlanEvents \intersect acked
        BY <3>1 DEF PlanEvents
      <4>2. Rank["active"] <= Rank["started"]
        BY <2>1, <3>1, <4>1 DEF Plan
      <4>. QED
        BY <4>2 DEF Rank
    <3>3. userConfig <=> Pro(e)
      BY <3>1, <3>2
    <3>. QED
      BY <3>1, <3>2, <3>3, PlanEventCases DEF Pro
  <2>. QED
    BY <2>2, <2>3
<1>. QED
  BY <1>1, InductiveInvariant, PTL

-----------------------------------------------------------------------------
\* Sums over finite sets: the fold unfolded, by a smallest set that lacks a property.

\* Among the subsets of a finite set that lack a property one is smallest.
LEMMA MinimalSet ==
  ASSUME NEW T, IsFiniteSet(T), NEW Bad \in SUBSET SUBSET T, Bad # {}
  PROVE  \E S \in Bad : \A s \in SUBSET S : s # S => s \notin Bad
<1> DEFINE R == StrictSubsetOrdering(T)
<1>1. IsWellFoundedOn(R, SUBSET T)
  BY FS_StrictSubsetOrderingWellFounded, FS_FiniteSubsetsOfFinite
<1>2. PICK S \in Bad : \A s \in Bad : <<s, S>> \notin R
  <2> HIDE DEF R
  <2> QED BY <1>1, WFMin
<1>3. ASSUME NEW s \in SUBSET S, s # S, s \in Bad PROVE FALSE
  <2>1. <<s, S>> \in (SUBSET T) \X (SUBSET T) BY <1>3
  <2>2. <<s, S>> \in R BY <1>3, <2>1 DEF StrictSubsetOrdering
  <2> QED BY <1>2, <1>3, <2>2
<1> QED BY <1>3

First(s) == CHOOSE x \in s : TRUE

\* A set with elements has a first one.
LEMMA FirstIn == \A s : s # {} => First(s) \in s
BY DEF First

Rest(s) == s \ {First(s)}

SumFrom(f, g, s) == IF s = {} THEN 0 ELSE f[First(s)] + g[Rest(s)]

\* What the fold of the community modules stands for: a recursive function.
LEMMA SumUnfolds ==
  ASSUME NEW f, NEW S
  PROVE  Sum(f, S) = (CHOOSE g : g = [s \in SUBSET S |-> SumFrom(f, g, s)])[S]
BY DEF Sum, FoldFunctionOnSet, MapThenFoldSet, First, Rest, SumFrom

\* The recursion determines a function, if any.
LEMMA SumUnique ==
  ASSUME NEW f, NEW S, IsFiniteSet(S), NEW g, NEW h,
         g = [s \in SUBSET S |-> SumFrom(f, g, s)],
         h = [s \in SUBSET S |-> SumFrom(f, h, s)]
  PROVE  g[S] = h[S]
<1> DEFINE Bad == {s \in SUBSET S : g[s] # h[s]}
<1> SUFFICES ASSUME Bad # {} PROVE FALSE OBVIOUS
<1>1. PICK s \in Bad : \A r \in SUBSET s : r # s => r \notin Bad BY MinimalSet
<1>2. s \in SUBSET S /\ g[s] # h[s] BY <1>1
<1>3. g[s] = SumFrom(f, g, s) /\ h[s] = SumFrom(f, h, s) BY <1>2
<1>4. s # {} BY <1>2, <1>3 DEF SumFrom
<1>5. Rest(s) \notin Bad /\ Rest(s) \in SUBSET S BY <1>1, <1>2, <1>4, FirstIn DEF Rest
<1>6. g[Rest(s)] = h[Rest(s)] BY <1>5
<1> QED BY <1>2, <1>3, <1>6 DEF SumFrom

\* The sum over a set is the value at one element and the sum over the rest.
LEMMA SumFirst ==
  ASSUME NEW f, NEW T, IsFiniteSet(T)
  PROVE  Sum(f, T) = IF T = {} THEN 0 ELSE f[First(T)] + Sum(f, Rest(T))
<1> DEFINE P(s) == Sum(f, s) = IF s = {} THEN 0 ELSE f[First(s)] + Sum(f, Rest(s))
           Bad == {s \in SUBSET T : ~P(s)}
<1> SUFFICES ASSUME Bad # {} PROVE FALSE OBVIOUS
<1>1. PICK S \in Bad : \A s \in SUBSET S : s # S => s \notin Bad
  <2>1. Bad \in SUBSET SUBSET T OBVIOUS
  <2> HIDE DEF Bad
  <2> QED BY <2>1, MinimalSet
<1>2. S \in SUBSET T /\ ~P(S) /\ IsFiniteSet(S) BY <1>1, FS_Subset
<1>3. \A s \in SUBSET S : s # S => P(s) BY <1>1, <1>2
<1> DEFINE e == IF S = {} THEN 0 ELSE f[First(S)] + Sum(f, Rest(S))
           g == [s \in SUBSET S |-> IF s = S THEN e ELSE Sum(f, s)]
           Rec(h) == h = [s \in SUBSET S |-> SumFrom(f, h, s)]
<1>4. Rec(g)
  <2>1. ASSUME NEW s \in SUBSET S PROVE g[s] = SumFrom(f, g, s)
    <3>1. CASE s = {}
      <4>1. s = S => g[s] = 0 BY <3>1
      <4>2. s # S => g[s] = 0 BY <3>1, <1>3
      <4> QED BY <3>1, <4>1, <4>2 DEF SumFrom
    <3>2. CASE s # {}
      <4>1. Rest(s) \in SUBSET S /\ Rest(s) # S BY <3>2, FirstIn DEF Rest
      <4>2. g[Rest(s)] = Sum(f, Rest(s)) BY <4>1
      <4>3. g[s] = f[First(s)] + Sum(f, Rest(s)) BY <3>2, <1>3
      <4> QED BY <3>2, <4>2, <4>3 DEF SumFrom
    <3> QED BY <3>1, <3>2
  <2> HIDE DEF e
  <2>2. g = [s \in SUBSET S |-> g[s]] OBVIOUS
  <2> HIDE DEF g
  <2> QED BY <2>1, <2>2
<1>5. g[S] = e OBVIOUS
<1> HIDE DEF g
<1> DEFINE h == CHOOSE k : Rec(k)
<1>6. Rec(h) BY <1>4
<1>7. Sum(f, S) = h[S] BY SumUnfolds
<1> HIDE DEF h
<1>8. g[S] = h[S] BY <1>2, <1>4, <1>6, SumUnique
<1> QED BY <1>2, <1>5, <1>7, <1>8

\* A sum of naturals is one.
LEMMA SumNat ==
  ASSUME NEW f, NEW T, IsFiniteSet(T), \A x \in T : f[x] \in Nat
  PROVE  Sum(f, T) \in Nat
<1> DEFINE Bad == {s \in SUBSET T : Sum(f, s) \notin Nat}
<1> SUFFICES ASSUME Bad # {} PROVE FALSE OBVIOUS
<1>1. PICK s \in Bad : \A r \in SUBSET s : r # s => r \notin Bad
  <2>1. Bad \in SUBSET SUBSET T OBVIOUS
  <2> HIDE DEF Bad
  <2> QED BY <2>1, MinimalSet
<1>2. s \in SUBSET T /\ Sum(f, s) \notin Nat /\ IsFiniteSet(s) BY <1>1, FS_Subset
<1>3. s # {}
  <2>1. s = {} => Sum(f, s) = 0 BY <1>2, SumFirst
  <2> HIDE DEF Bad
  <2> QED BY <1>2, <2>1
<1>4. First(s) \in s /\ Rest(s) \in SUBSET s /\ Rest(s) # s BY <1>3, FirstIn DEF Rest
<1>5. Sum(f, Rest(s)) \in Nat BY <1>1, <1>2, <1>4
<1>6. f[First(s)] \in Nat BY <1>2, <1>4
<1> QED BY <1>2, <1>3, <1>5, <1>6, SumFirst

\* Any element may be the first.
LEMMA SumAt ==
  ASSUME NEW f, NEW T, IsFiniteSet(T), \A x \in T : f[x] \in Nat
  PROVE  \A x \in T : Sum(f, T) = f[x] + Sum(f, T \ {x})
<1> DEFINE Bad == {s \in SUBSET T : ~ \A x \in s : Sum(f, s) = f[x] + Sum(f, s \ {x})}
<1> SUFFICES ASSUME Bad # {} PROVE FALSE OBVIOUS
<1>1. PICK s \in Bad : \A r \in SUBSET s : r # s => r \notin Bad
  <2>1. Bad \in SUBSET SUBSET T OBVIOUS
  <2> HIDE DEF Bad
  <2> QED BY <2>1, MinimalSet
<1>2. s \in SUBSET T /\ IsFiniteSet(s) BY <1>1, FS_Subset
<1>3. \A r \in SUBSET s : r # s => \A y \in r : Sum(f, r) = f[y] + Sum(f, r \ {y})
  BY <1>1, <1>2
<1>4. PICK x \in s : Sum(f, s) # f[x] + Sum(f, s \ {x}) BY <1>1
<1> DEFINE c == First(s)
<1>5. c \in s BY <1>4, FirstIn
<1>6. Sum(f, s) = f[c] + Sum(f, s \ {c}) BY <1>2, <1>4, SumFirst DEF Rest
<1> HIDE DEF c
<1>7. c # x BY <1>4, <1>6
<1>8. /\ s \ {c} \in SUBSET s /\ s \ {c} # s /\ x \in s \ {c}
      /\ s \ {x} \in SUBSET s /\ s \ {x} # s /\ c \in s \ {x}
  BY <1>4, <1>5, <1>7
<1>9. Sum(f, s \ {c}) = f[x] + Sum(f, (s \ {c}) \ {x}) BY <1>3, <1>8
<1>10. Sum(f, s \ {x}) = f[c] + Sum(f, (s \ {x}) \ {c}) BY <1>3, <1>8
<1>11. (s \ {c}) \ {x} = (s \ {x}) \ {c} OBVIOUS
<1>12. Sum(f, (s \ {c}) \ {x}) \in Nat
  <2>1. (s \ {c}) \ {x} \in SUBSET T BY <1>2
  <2>2. IsFiniteSet((s \ {c}) \ {x}) BY <2>1, FS_Subset
  <2> QED BY <2>1, <2>2, SumNat
<1>13. f[c] \in Nat /\ f[x] \in Nat BY <1>2, <1>4, <1>5
<1> DEFINE r == (s \ {x}) \ {c}
<1>14. Sum(f, s \ {c}) = f[x] + Sum(f, r) /\ Sum(f, s \ {x}) = f[c] + Sum(f, r)
  BY <1>9, <1>10, <1>11
<1>15. Sum(f, r) \in Nat BY <1>11, <1>12
<1> HIDE DEF r, Bad
<1>16. Sum(f, s) = f[c] + (f[x] + Sum(f, r)) BY <1>6, <1>14
<1>17. Sum(f, s) # f[x] + (f[c] + Sum(f, r)) BY <1>4, <1>14
<1> QED BY <1>13, <1>15, <1>16, <1>17

\* A sum grows with its set and with its values.
LEMMA SumGrows ==
  ASSUME NEW f, NEW g, NEW S, NEW T, IsFiniteSet(T), S \subseteq T,
         \A x \in S : f[x] \in Nat /\ f[x] <= g[x], \A x \in T : g[x] \in Nat
  PROVE  Sum(f, S) <= Sum(g, T)
<1> DEFINE Bad == {s \in SUBSET T : ~(Sum(f, s \cap S) <= Sum(g, s))}
<1> SUFFICES ASSUME Bad # {} PROVE FALSE
  <2>1. T \in SUBSET T /\ T \cap S = S /\ T \notin Bad OBVIOUS
  <2>2. Sum(f, T \cap S) <= Sum(g, T) BY <2>1
  <2> QED BY <2>1, <2>2
<1>1. PICK s \in Bad : \A r \in SUBSET s : r # s => r \notin Bad
  <2>1. Bad \in SUBSET SUBSET T OBVIOUS
  <2> HIDE DEF Bad
  <2> QED BY <2>1, MinimalSet
<1>2. s \in SUBSET T /\ IsFiniteSet(s) /\ IsFiniteSet(s \cap S) BY <1>1, FS_Subset
<1>3. ~(Sum(f, s \cap S) <= Sum(g, s)) BY <1>1
<1>4. CASE s = {}
  <2>1. s \cap S = {} BY <1>4
  <2>2. Sum(f, s \cap S) = 0 /\ Sum(g, s) = 0 BY <1>2, <1>4, <2>1, SumFirst
  <2> QED BY <1>3, <2>2
<1>5. CASE s # {}
  <2>1. PICK x : x \in s BY <1>5
  <2> DEFINE r == s \ {x}
  <2>2. r \in SUBSET s /\ r # s /\ r \in SUBSET T BY <1>2, <2>1
  <2>3. IsFiniteSet(r) /\ IsFiniteSet(r \cap S) BY <2>2, FS_Subset
  <2>4. Sum(f, r \cap S) <= Sum(g, r) BY <1>1, <2>2
  <2>5. Sum(g, s) = g[x] + Sum(g, r) BY <1>2, <2>1, SumAt
  <2>6. Sum(g, r) \in Nat /\ Sum(f, r \cap S) \in Nat BY <2>2, <2>3, SumNat
  <2>7. g[x] \in Nat BY <1>2, <2>1
  <2>8. CASE x \in S
    <3>1. (s \cap S) \ {x} = r \cap S /\ x \in s \cap S BY <2>1, <2>8
    <3>2. Sum(f, s \cap S) = f[x] + Sum(f, r \cap S)
      <4>1. \A y \in s \cap S : f[y] \in Nat OBVIOUS
      <4>2. Sum(f, s \cap S) = f[x] + Sum(f, (s \cap S) \ {x}) BY <1>2, <3>1, <4>1, SumAt
      <4> QED BY <3>1, <4>2
    <3>3. f[x] \in Nat /\ f[x] <= g[x] BY <2>8
    <3> QED BY <1>3, <2>4, <2>5, <2>6, <2>7, <3>2, <3>3
  <2>9. CASE x \notin S
    <3>1. s \cap S = r \cap S BY <2>9
    <3> QED BY <1>3, <2>4, <2>5, <2>6, <2>7, <3>1
  <2> QED BY <2>8, <2>9
<1> QED BY <1>4, <1>5

\* Nothing adds up to nothing.
LEMMA SumZero ==
  ASSUME NEW f, NEW T, IsFiniteSet(T), \A x \in T : f[x] = 0
  PROVE  Sum(f, T) = 0
<1> DEFINE Bad == {s \in SUBSET T : Sum(f, s) # 0}
<1> SUFFICES ASSUME Bad # {} PROVE FALSE OBVIOUS
<1>1. PICK s \in Bad : \A r \in SUBSET s : r # s => r \notin Bad
  <2>1. Bad \in SUBSET SUBSET T OBVIOUS
  <2> HIDE DEF Bad
  <2> QED BY <2>1, MinimalSet
<1>2. s \in SUBSET T /\ IsFiniteSet(s) BY <1>1, FS_Subset
<1>3. CASE s = {} BY <1>1, <1>2, <1>3, SumFirst
<1>4. CASE s # {}
  <2>1. First(s) \in s /\ Rest(s) \in SUBSET s /\ Rest(s) # s BY <1>4, FirstIn DEF Rest
  <2>2. Sum(f, Rest(s)) = 0 /\ f[First(s)] = 0 BY <1>1, <1>2, <2>1
  <2>3. Sum(f, s) = 0 BY <1>2, <1>4, <2>2, SumFirst
  <2> QED BY <1>1, <2>3
<1> QED BY <1>3, <1>4

\* It depends on the values in the set only.
LEMMA SumSame ==
  ASSUME NEW f, NEW g, NEW T, IsFiniteSet(T), \A x \in T : f[x] \in Nat /\ g[x] = f[x]
  PROVE  Sum(g, T) = Sum(f, T)
<1>1. Sum(f, T) \in Nat /\ Sum(g, T) \in Nat BY SumNat
<1>2. Sum(f, T) <= Sum(g, T) BY SumGrows
<1>3. Sum(g, T) <= Sum(f, T) BY SumGrows
<1> QED BY <1>1, <1>2, <1>3

\* When one value grows, so does the sum.
LEMMA SumAdds ==
  ASSUME NEW f, NEW g, NEW T, IsFiniteSet(T), NEW x \in T, NEW c \in Nat,
         \A y \in T : f[y] \in Nat, \A y \in T \ {x} : g[y] = f[y], g[x] = f[x] + c
  PROVE  Sum(g, T) = Sum(f, T) + c
<1> DEFINE r == T \ {x}
<1>1. IsFiniteSet(r) BY FS_Subset
<1>2. \A y \in T : g[y] \in Nat OBVIOUS
<1>3. Sum(g, T) = g[x] + Sum(g, r) /\ Sum(f, T) = f[x] + Sum(f, r) BY <1>2, SumAt
<1>4. Sum(g, r) = Sum(f, r) /\ Sum(f, r) \in Nat BY <1>1, SumSame, SumNat
<1> QED BY <1>3, <1>4

\* t rounded down to a multiple of m.
Down(t, m) == (t \div m) * m

\* Division with remainder, and what rounding down does.
LEMMA Quotient ==
  ASSUME NEW m \in Nat \ {0}, NEW t \in Int
  PROVE  /\ t \div m \in Int /\ t % m \in 0 .. m - 1
         /\ t = m * (t \div m) + (t % m)
         /\ Down(t, m) = m * (t \div m) /\ Down(t, m) \in Int
         /\ Down(t, m) <= t /\ t < Down(t, m) + m
BY DEF Down

\* Two multiples are at least m apart.
LEMMA Times0 ==
  ASSUME NEW m \in Nat \ {0}, NEW k \in Int, NEW j \in Int, k < j
  PROVE  m * k + m <= m * j
<1>1. k + 1 <= j /\ m * (k + 1) = m * k + m OBVIOUS
<1>2. \A a, b \in Int : a <= b => m * a <= m * b OBVIOUS
<1> QED BY <1>1, <1>2

\* A number between two multiples is rounded to the lower one.
LEMMA Between ==
  ASSUME NEW m \in Nat \ {0}, NEW k \in Int, NEW t \in Int, m * k <= t, t < m * k + m
  PROVE  Down(t, m) = m * k
<1> DEFINE q == t \div m
<1>1. q \in Int /\ Down(t, m) = m * q /\ m * q <= t /\ t < m * q + m BY Quotient
<1> HIDE DEF q
<1>2. m * k \in Int /\ m * q \in Int BY <1>1
<1>3. ~(q < k) BY <1>1, <1>2, Times0
<1>4. ~(k < q) BY <1>1, <1>2, Times0
<1>5. q = k BY <1>1, <1>3, <1>4
<1> QED BY <1>1, <1>5

\* Rounding down keeps the order.
LEMMA DownMonotone ==
  ASSUME NEW m \in Nat \ {0}, NEW s \in Int, NEW t \in Int, s <= t
  PROVE  Down(s, m) <= Down(t, m)
<1> DEFINE p == s \div m
           q == t \div m
<1>1. p \in Int /\ Down(s, m) = m * p /\ m * p <= s BY Quotient
<1>2. q \in Int /\ Down(t, m) = m * q /\ t < m * q + m BY Quotient
<1> HIDE DEF p, q
<1>3. m * p \in Int /\ m * q \in Int BY <1>1, <1>2
<1>4. ~(q < p) BY <1>1, <1>2, <1>3, Times0
<1>5. p = q \/ p < q BY <1>1, <1>2, <1>4
<1> QED BY <1>1, <1>2, <1>3, <1>5, Times0

\* Multiples stay as they are.
LEMMA DownMultiple ==
  ASSUME NEW m \in Nat \ {0}, NEW t \in Int
  PROVE  t % m = 0 <=> Down(t, m) = t
<1> DEFINE d == Down(t, m)
           r == t % m
<1>1. d \in Int /\ r \in 0 .. m - 1 /\ t = d + r BY Quotient
<1> HIDE DEF d, r
<1>2. r = 0 <=> d = t BY <1>1
<1> QED BY <1>2 DEF d, r

\* What is rounded down is a multiple.
LEMMA DownDown ==
  ASSUME NEW m \in Nat \ {0}, NEW t \in Int
  PROVE  Down(t, m) % m = 0
<1> DEFINE q == t \div m
<1>1. q \in Int /\ Down(t, m) = m * q /\ Down(t, m) \in Int BY Quotient
<1> HIDE DEF q
<1>2. Down(m * q, m) = m * q
  <2>1. m * q \in Int /\ m * q <= m * q /\ m * q < m * q + m BY <1>1
  <2> QED BY <1>1, <2>1, Between
<1> QED BY <1>1, <1>2, DownMultiple

-----------------------------------------------------------------------------
(* Buckets and days.                                                       *)

\* The constants and the times are numbers.
LEMMA Numbers ==
  /\ BucketSize \in Nat \ {0} /\ Day \in Nat \ {0} /\ MaxNow \in Nat
  /\ IsFiniteSet(Times) /\ IsFiniteSet(BucketStarts)
  /\ Times \subseteq Nat /\ BucketStarts \subseteq Times
  /\ \A t \in Times : t \in Int
  /\ \A b \in BucketStarts : b \in Int
<1>1. BucketSize \in Nat \ {0} /\ Day \in Nat \ {0} /\ MaxNow \in Nat BY StoreAssumption
<1>2. IsFiniteSet(Times) BY <1>1, FS_Interval DEF Times
<1>3. Times \subseteq Nat /\ BucketStarts \subseteq Times BY <1>1 DEF Times, BucketStarts
<1>4. /\ \A t \in Times : t \in Int
      /\ \A b \in BucketStarts : b \in Int
  BY <1>3
<1>5. IsFiniteSet(BucketStarts) BY <1>2, <1>3, FS_Subset
<1> QED BY <1>1, <1>2, <1>3, <1>4, <1>5

\* The bucket of a time.
LEMMA FloorOf ==
  ASSUME NEW t \in Int
  PROVE  /\ Floor(t) \in Int /\ Floor(t) <= t /\ t < Floor(t) + BucketSize
         /\ Floor(t) % BucketSize = 0
         /\ t % BucketSize = 0 => Floor(t) = t
         /\ \A s \in Int : s <= t => Floor(s) <= Floor(t)
<1>1. BucketSize \in Nat \ {0} BY Numbers
<1>2. \A s \in Int : Floor(s) = Down(s, BucketSize) BY DEF Floor, Down
<1>3. Floor(t) \in Int /\ Floor(t) <= t /\ t < Floor(t) + BucketSize BY <1>1, <1>2, Quotient
<1>4. Floor(t) % BucketSize = 0 BY <1>1, <1>2, DownDown
<1>5. t % BucketSize = 0 => Floor(t) = t BY <1>1, <1>2, DownMultiple
<1>6. \A s \in Int : s <= t => Floor(s) <= Floor(t) BY <1>1, <1>2, DownMonotone
<1> QED BY <1>3, <1>4, <1>5, <1>6

\* The bucket of a time is one of the buckets.
LEMMA FloorBucket ==
  ASSUME NEW t \in Times
  PROVE  Floor(t) \in BucketStarts
<1>1. t \in Int /\ 0 <= t /\ t <= MaxNow /\ MaxNow \in Nat BY Numbers DEF Times
<1>2. Floor(0) = 0
  <2>1. Floor(0) <= 0 /\ 0 < Floor(0) + BucketSize /\ Floor(0) % BucketSize = 0 /\ Floor(0) \in Int
    BY FloorOf
  <2>2. BucketSize \in Nat \ {0} /\ 0 % BucketSize = 0 BY Numbers
  <2> QED BY <2>2, FloorOf
<1>3. Floor(t) \in Int /\ 0 <= Floor(t) /\ Floor(t) <= t /\ Floor(t) % BucketSize = 0
  BY <1>1, <1>2, FloorOf
<1> QED BY <1>1, <1>3 DEF BucketStarts, Times

\* The start of a day is a start of a bucket.
LEMMA DayOf ==
  ASSUME NEW t \in Int
  PROVE  /\ GetStartOfUtcDay(t) \in Int /\ GetStartOfUtcDay(t) <= t
         /\ t < GetStartOfUtcDay(t) + Day
         /\ Floor(GetStartOfUtcDay(t)) = GetStartOfUtcDay(t)
         /\ \A s \in Int : s <= t => GetStartOfUtcDay(s) <= GetStartOfUtcDay(t)
<1>1. Day \in Nat \ {0} /\ BucketSize \in Nat \ {0} /\ Day % BucketSize = 0
  BY Numbers, StoreAssumption
<1>2. \A s \in Int : GetStartOfUtcDay(s) = Down(s, Day) BY DEF GetStartOfUtcDay, Down
<1> DEFINE q == t \div Day
           k == Day \div BucketSize
<1>3. q \in Int /\ Down(t, Day) = Day * q BY <1>1, Quotient
<1>4. k \in Int /\ Day = BucketSize * k
  <2>1. Day \in Int /\ Day = BucketSize * k + (Day % BucketSize) /\ k \in Int BY <1>1, Quotient
  <2> QED BY <1>1, <2>1
<1>5. Floor(GetStartOfUtcDay(t)) = GetStartOfUtcDay(t)
  <2> HIDE DEF q, k
  <2>1. k * q \in Int /\ Day * q = BucketSize * (k * q) BY <1>1, <1>3, <1>4
  <2> DEFINE p == k * q
  <2>2. p \in Int /\ Day * q = BucketSize * p BY <2>1
  <2> HIDE DEF p
  <2>3. Down(BucketSize * p, BucketSize) = BucketSize * p
    <3>1. /\ BucketSize * p \in Int /\ BucketSize * p <= BucketSize * p
          /\ BucketSize * p < BucketSize * p + BucketSize
      BY <1>1, <2>2
    <3> QED BY <1>1, <2>2, <3>1, Between
  <2>4. GetStartOfUtcDay(t) = BucketSize * p BY <1>2, <1>3, <2>2
  <2> QED BY <2>3, <2>4 DEF Floor, Down
<1>6. /\ GetStartOfUtcDay(t) \in Int /\ GetStartOfUtcDay(t) <= t
      /\ t < GetStartOfUtcDay(t) + Day
  BY <1>1, <1>2, Quotient
<1>7. \A s \in Int : s <= t => GetStartOfUtcDay(s) <= GetStartOfUtcDay(t)
  BY <1>1, <1>2, DownMonotone
<1> QED BY <1>5, <1>6, <1>7

-----------------------------------------------------------------------------
(* What a history grants, and what buckets count of it.                    *)

\* What history l grants from start to n.
Window(start, n) == {t \in Times : start <= t /\ t <= n}
GrantedIn(l, start, n) == Sum(l, Window(start, n))

Bucket == [count : Nat, timestamp : Times]

\* The counts of bs, and the buckets with requests since start.
Counts(bs) == [b \in BucketStarts |-> bs[b].count]
Fresh(bs, start) == {b \in BucketStarts : bs[b].count > 0 /\ start <= bs[b].timestamp}
From(start) == {b \in BucketStarts : start <= b}

\* The time of a bucket is in it, and in the past.
Dated(bs, n) ==
  \A b \in BucketStarts : bs[b].count > 0 => Floor(bs[b].timestamp) = b /\ bs[b].timestamp <= n

\* What was granted since any time in the last w is counted, in buckets with
\* requests since that time.
Covered(bs, l, n, w) ==
  \A start \in Int : n - w <= start => GrantedIn(l, start, n) <= Sum(Counts(bs), Fresh(bs, start))

\* What is counted from any bucket on was granted since then.
Backed(bs, l, n) ==
  \A start \in Int : Floor(start) = start => Sum(Counts(bs), From(start)) <= GrantedIn(l, start, n)

-----------------------------------------------------------------------------
\* All of these sums are of naturals over finite sets.
LEMMA WindowFinite ==
  ASSUME NEW start, NEW n
  PROVE  IsFiniteSet(Window(start, n)) /\ Window(start, n) \subseteq Times
<1>1. Window(start, n) \in SUBSET Times BY DEF Window
<1> QED BY <1>1, Numbers, FS_Subset

\* The sets of buckets are finite, and the counts naturals.
LEMMA CountsFinite ==
  ASSUME NEW bs \in [BucketStarts -> Bucket], NEW start
  PROVE  /\ Fresh(bs, start) \subseteq BucketStarts /\ IsFiniteSet(Fresh(bs, start))
         /\ From(start) \subseteq BucketStarts /\ IsFiniteSet(From(start))
         /\ \A b \in BucketStarts : Counts(bs)[b] = bs[b].count /\ Counts(bs)[b] \in Nat
         /\ Counts(bs) \in [BucketStarts -> Nat]
<1>1. Fresh(bs, start) \in SUBSET BucketStarts /\ From(start) \in SUBSET BucketStarts
  BY DEF Fresh, From
<1>2. IsFiniteSet(Fresh(bs, start)) /\ IsFiniteSet(From(start)) BY <1>1, Numbers, FS_Subset
<1>3. \A b \in BucketStarts : bs[b].count \in Nat BY DEF Bucket
<1> QED BY <1>1, <1>2, <1>3 DEF Counts

\* What was granted is a natural.
LEMMA GrantedNat ==
  ASSUME NEW l \in [Times -> Nat], NEW start, NEW n
  PROVE  GrantedIn(l, start, n) \in Nat
<1>1. \A t \in Window(start, n) : l[t] \in Nat BY WindowFinite
<1> QED BY <1>1, WindowFinite, SumNat DEF GrantedIn

\* A later start leaves less.
LEMMA GrantedLess ==
  ASSUME NEW l \in [Times -> Nat], NEW n \in Int, NEW start \in Int, NEW later \in Int,
         start <= later
  PROVE  GrantedIn(l, later, n) <= GrantedIn(l, start, n)
<1>0. \A t \in Times : t \in Int BY Numbers
<1>1. Window(later, n) \subseteq Window(start, n) BY <1>0 DEF Window
<1>2. \A t \in Window(start, n) : l[t] \in Nat BY WindowFinite
<1>3. \A t \in Window(later, n) : l[t] \in Nat /\ l[t] <= l[t] BY WindowFinite
<1> QED BY <1>1, <1>2, <1>3, WindowFinite, SumGrows DEF GrantedIn

\* Nothing is granted in the future.
LEMMA NothingGranted ==
  ASSUME NEW l, NEW n \in Int, NEW start \in Int, n < start
  PROVE  GrantedIn(l, start, n) = 0
<1>0. \A t \in Times : t \in Int BY Numbers
<1>1. Window(start, n) = {} BY <1>0 DEF Window
<1> QED BY <1>1, WindowFinite, SumFirst DEF GrantedIn

\* A request of cost c is granted at n.
LEMMA GrantedAdds ==
  ASSUME NEW l \in [Times -> Nat], NEW n \in Times, NEW c \in Nat, NEW start \in Int,
         NEW m, m[n] = l[n] + c, \A t \in Times \ {n} : m[t] = l[t]
  PROVE  GrantedIn(m, start, n) =
           IF start <= n THEN GrantedIn(l, start, n) + c ELSE GrantedIn(l, start, n)
<1>1. n \in Int BY Numbers
<1>2. CASE ~(start <= n)
  <2>1. n < start BY <1>1, <1>2
  <2>2. GrantedIn(m, start, n) = 0 /\ GrantedIn(l, start, n) = 0 BY <1>1, <2>1, NothingGranted
  <2> QED BY <1>2, <2>2
<1>3. CASE start <= n
  <2> DEFINE S == Window(start, n)
  <2>1. n \in S /\ IsFiniteSet(S) /\ \A t \in S : t \in Times
    <3>1. n \in S BY <1>1, <1>3 DEF Window
    <3> QED BY <3>1, WindowFinite
  <2>3. \A t \in S : l[t] \in Nat BY <2>1
  <2> HIDE DEF S
  <2>4. \A t \in S \ {n} : m[t] = l[t] BY <2>1
  <2>5. Sum(m, S) = Sum(l, S) + c BY <2>1, <2>3, <2>4, SumAdds
  <2> QED BY <1>3, <2>5 DEF GrantedIn, S
<1> QED BY <1>2, <1>3

\* The clock goes on.
LEMMA GrantedTicks ==
  ASSUME NEW l \in [Times -> Nat], NEW n \in Times, n + 1 \in Times, l[n + 1] = 0,
         NEW start \in Int
  PROVE  GrantedIn(l, start, n + 1) = GrantedIn(l, start, n)
<1>1. n \in Int BY Numbers
<1>2. CASE n + 1 < start
  BY <1>1, <1>2, NothingGranted
<1>3. CASE ~(n + 1 < start)
  <2> DEFINE S == Window(start, n + 1)
  <2>0. \A t \in Times : t \in Int /\ (t <= n + 1 /\ t # n + 1 <=> t <= n)
    <3>1. \A t \in Times : t \in Int BY Numbers
    <3> QED BY <1>1, <3>1
  <2>a. n + 1 \in S BY <1>1, <1>3 DEF Window
  <2>b. S \ {n + 1} = Window(start, n) BY <2>0 DEF Window
  <2>1. n + 1 \in S /\ S \ {n + 1} = Window(start, n) BY <2>a, <2>b
  <2>2. IsFiniteSet(S) /\ \A t \in S : l[t] \in Nat BY WindowFinite
  <2> HIDE DEF S
  <2>3. Sum(l, S) = l[n + 1] + Sum(l, S \ {n + 1}) BY <2>1, <2>2, SumAt
  <2>4. Sum(l, Window(start, n)) \in Nat BY GrantedNat DEF GrantedIn
  <2> QED BY <2>1, <2>3, <2>4 DEF GrantedIn, S
<1> QED BY <1>2, <1>3

-----------------------------------------------------------------------------
\* The counts of a window's buckets are at least what was granted in it, and at
\* most what was granted from the start of its first bucket on.
LEMMA CountBounds ==
  ASSUME NEW bs \in [BucketStarts -> Bucket], NEW l \in [Times -> Nat], NEW n \in Times,
         NEW w \in Nat, Dated(bs, n), Covered(bs, l, n, w), Backed(bs, l, n), NEW start \in Int
  PROVE  LET c == Sum(Counts(bs), {b \in BucketStarts : Floor(start) <= b /\ b <= n})
         IN  /\ c \in Nat /\ c <= GrantedIn(l, Floor(start), n)
             /\ n - w <= start => GrantedIn(l, start, n) <= c
<1> DEFINE S == {b \in BucketStarts : Floor(start) <= b /\ b <= n}
           c == Sum(Counts(bs), S)
<1>1. S \in SUBSET From(Floor(start)) /\ S \in SUBSET BucketStarts /\ IsFiniteSet(S)
  <2>1. S \in SUBSET From(Floor(start)) /\ S \in SUBSET BucketStarts BY DEF From
  <2> QED BY <2>1, Numbers, FS_Subset
<1>2. n \in Int /\ Floor(start) \in Int /\ Floor(Floor(start)) = Floor(start)
  <2>1. n \in Int BY Numbers
  <2>2. Floor(start) \in Int /\ Floor(start) % BucketSize = 0 BY FloorOf
  <2> QED BY <2>1, <2>2, FloorOf
<1>3. \A b \in BucketStarts : Counts(bs)[b] \in Nat /\ Counts(bs)[b] <= Counts(bs)[b]
  BY CountsFinite
<1>4. n - w <= start => Fresh(bs, start) \subseteq S
  <2> SUFFICES ASSUME NEW b \in BucketStarts, bs[b].count > 0, start <= bs[b].timestamp
               PROVE  b \in S
    BY DEF Fresh
  <2>0. bs[b].timestamp \in Times BY DEF Bucket
  <2>1. bs[b].timestamp \in Int BY <2>0, Numbers
  <2>2. Floor(bs[b].timestamp) = b /\ bs[b].timestamp <= n BY DEF Dated
  <2>3. Floor(start) <= b /\ b <= bs[b].timestamp BY <2>1, <2>2, FloorOf
  <2>4. b \in Int BY Numbers
  <2> QED BY <1>2, <2>1, <2>2, <2>3, <2>4
<1> HIDE DEF S
<1>5. c \in Nat BY <1>1, <1>3, SumNat
<1>6. c <= Sum(Counts(bs), From(Floor(start)))
  <2>1. IsFiniteSet(From(Floor(start))) /\ From(Floor(start)) \subseteq BucketStarts BY CountsFinite
  <2>2. \A b \in S : Counts(bs)[b] \in Nat /\ Counts(bs)[b] <= Counts(bs)[b] BY <1>1, <1>3
  <2>3. \A b \in From(Floor(start)) : Counts(bs)[b] \in Nat BY <1>3, <2>1
  <2> QED BY <1>1, <2>1, <2>2, <2>3, SumGrows
<1>7. Sum(Counts(bs), From(Floor(start))) <= GrantedIn(l, Floor(start), n) BY <1>2 DEF Backed
<1>8. ASSUME n - w <= start PROVE GrantedIn(l, start, n) <= c
  <2>1. GrantedIn(l, start, n) <= Sum(Counts(bs), Fresh(bs, start)) BY <1>8 DEF Covered
  <2>2. Fresh(bs, start) \subseteq S /\ Fresh(bs, start) \subseteq BucketStarts
    BY <1>4, <1>8, CountsFinite
  <2>3. \A b \in Fresh(bs, start) : Counts(bs)[b] \in Nat /\ Counts(bs)[b] <= Counts(bs)[b]
    BY <1>3, <2>2
  <2>4. \A b \in S : Counts(bs)[b] \in Nat BY <1>1, <1>3
  <2>5. Sum(Counts(bs), Fresh(bs, start)) <= c BY <1>1, <2>2, <2>3, <2>4, SumGrows
  <2>6. Sum(Counts(bs), Fresh(bs, start)) \in Nat
    BY <2>3, CountsFinite, SumNat
  <2>7. GrantedIn(l, start, n) \in Nat BY GrantedNat
  <2> QED BY <1>5, <2>1, <2>5, <2>6, <2>7
<1>9. /\ Sum(Counts(bs), From(Floor(start))) \in Nat /\ GrantedIn(l, Floor(start), n) \in Nat
  <2>1. IsFiniteSet(From(Floor(start))) /\ From(Floor(start)) \subseteq BucketStarts BY CountsFinite
  <2>2. \A b \in From(Floor(start)) : Counts(bs)[b] \in Nat BY <1>3, <2>1
  <2> QED BY <2>1, <2>2, SumNat, GrantedNat
<1>10. c <= GrantedIn(l, Floor(start), n) BY <1>5, <1>6, <1>7, <1>9
<1> QED BY <1>5, <1>8, <1>10 DEF S

-----------------------------------------------------------------------------
(* A request in the buckets and in the history.                            *)

\* A request of cost c is counted in the bucket of n, and in the history.
CountedIn(r, bs, n, c) ==
  /\ r[Floor(n)].count = bs[Floor(n)].count + c /\ r[Floor(n)].timestamp = n
  /\ \A b \in BucketStarts \ {Floor(n)} : r[b] = bs[b]

LoggedIn(m, l, n, c) == m[n] = l[n] + c /\ \A t \in Times \ {n} : m[t] = l[t]

\* The counts of any buckets after that.
LEMMA CountsAdd ==
  ASSUME NEW bs \in [BucketStarts -> Bucket], NEW n \in Times, NEW c \in Nat,
         NEW r \in [BucketStarts -> Bucket], CountedIn(r, bs, n, c),
         NEW S \in SUBSET BucketStarts
  PROVE  /\ Sum(Counts(bs), S) \in Nat
         /\ Sum(Counts(r), S) =
              IF Floor(n) \in S THEN Sum(Counts(bs), S) + c ELSE Sum(Counts(bs), S)
<1> DEFINE f == Floor(n)
           p == Counts(bs)
           q == Counts(r)
<1>1. IsFiniteSet(S) BY Numbers, FS_Subset
<1>2. f \in BucketStarts BY FloorBucket
<1>3. \A b \in BucketStarts : p[b] = bs[b].count /\ p[b] \in Nat /\ q[b] = r[b].count
  BY CountsFinite
<1>4. q[f] = p[f] + c /\ \A b \in BucketStarts \ {f} : q[b] = p[b]
  BY <1>2, <1>3 DEF CountedIn
<1> HIDE DEF f, p, q
<1>5. \A b \in S : p[b] \in Nat BY <1>3
<1>6. CASE f \in S
  <2>1. \A b \in S \ {f} : q[b] = p[b] BY <1>4
  <2>2. Sum(q, S) = Sum(p, S) + c BY <1>1, <1>4, <1>5, <1>6, <2>1, SumAdds
  <2> QED BY <1>1, <1>5, <1>6, <2>2, SumNat DEF f, p, q
<1>7. CASE f \notin S
  <2>1. \A b \in S : p[b] \in Nat /\ q[b] = p[b] BY <1>4, <1>5, <1>7
  <2>2. Sum(q, S) = Sum(p, S) BY <1>1, <2>1, SumSame
  <2> QED BY <1>1, <1>5, <1>7, <2>2, SumNat DEF f, p, q
<1> QED BY <1>6, <1>7

\* The bucket of a request is dated at its time.
LEMMA RecordedDated ==
  ASSUME NEW bs \in [BucketStarts -> Bucket], NEW n \in Times, NEW c \in Nat,
         NEW r \in [BucketStarts -> Bucket], CountedIn(r, bs, n, c), Dated(bs, n)
  PROVE  Dated(r, n)
<1> SUFFICES ASSUME NEW b \in BucketStarts, r[b].count > 0
             PROVE  Floor(r[b].timestamp) = b /\ r[b].timestamp <= n
  BY DEF Dated
<1>1. n \in Int BY Numbers
<1>2. CASE b = Floor(n) BY <1>1, <1>2 DEF CountedIn
<1>3. CASE b # Floor(n)
  <2>1. r[b] = bs[b] BY <1>3 DEF CountedIn
  <2> QED BY <2>1 DEF Dated
<1> QED BY <1>2, <1>3

\* What is granted is counted, in a bucket with a request since then.
LEMMA RecordedCovered ==
  ASSUME NEW bs \in [BucketStarts -> Bucket], NEW l \in [Times -> Nat], NEW n \in Times,
         NEW w \in Nat, NEW c \in Nat \ {0}, Covered(bs, l, n, w),
         NEW r \in [BucketStarts -> Bucket], CountedIn(r, bs, n, c),
         NEW m \in [Times -> Nat], LoggedIn(m, l, n, c)
  PROVE  Covered(r, m, n, w)
<1> SUFFICES ASSUME NEW start \in Int, n - w <= start
             PROVE  GrantedIn(m, start, n) <= Sum(Counts(r), Fresh(r, start))
  BY DEF Covered
<1> DEFINE f == Floor(n)
           F == Fresh(bs, start)
           G == Fresh(r, start)
<1>1. n \in Int /\ f \in BucketStarts BY Numbers, FloorBucket
<1>2. /\ F \in SUBSET BucketStarts /\ G \in SUBSET BucketStarts
      /\ IsFiniteSet(F) /\ IsFiniteSet(G) /\ \A b \in BucketStarts : Counts(r)[b] \in Nat
  BY CountsFinite
<1>3. Sum(Counts(r), G) \in Nat BY <1>2, SumNat
<1>4. GrantedIn(l, start, n) <= Sum(Counts(bs), F) BY DEF Covered
<1>5. GrantedIn(l, start, n) \in Nat BY GrantedNat
<1>6. CASE ~(start <= n)
  <2>1. GrantedIn(m, start, n) = 0 BY <1>1, <1>6, NothingGranted
  <2> QED BY <1>3, <2>1
<1>7. CASE start <= n
  <2>1. GrantedIn(m, start, n) = GrantedIn(l, start, n) + c
    BY <1>7, GrantedAdds DEF LoggedIn
  <2>2. f \in G
    <3>1. r[f].count = bs[f].count + c /\ r[f].timestamp = n /\ bs[f].count \in Nat
      BY <1>1 DEF CountedIn, Bucket
    <3> QED BY <1>1, <1>7, <3>1 DEF Fresh
  <2>3. F \ {f} \subseteq G \ {f} /\ F \subseteq G
    <3>1. \A b \in BucketStarts \ {f} : r[b] = bs[b] BY DEF CountedIn
    <3>2. F \ {f} \subseteq G \ {f} BY <3>1 DEF Fresh
    <3> QED BY <2>2, <3>2
  <2> DEFINE H == F \union {f}
  <2>4. H \in SUBSET BucketStarts /\ H \subseteq G /\ f \in H /\ F \subseteq H /\ IsFiniteSet(H)
    <3>1. H \in SUBSET BucketStarts /\ H \subseteq G /\ f \in H /\ F \subseteq H
      BY <1>1, <1>2, <2>2, <2>3
    <3> QED BY <3>1, <1>2, FS_Subset
  <2> HIDE DEF F, G, H
  <2>5. Sum(Counts(r), H) = Sum(Counts(bs), H) + c /\ Sum(Counts(bs), H) \in Nat
    BY <2>4, CountsAdd
  <2>6. Sum(Counts(bs), F) <= Sum(Counts(bs), H)
    <3>1. \A b \in BucketStarts : Counts(bs)[b] \in Nat /\ Counts(bs)[b] <= Counts(bs)[b]
      BY CountsFinite
    <3>2. \A b \in F : Counts(bs)[b] \in Nat /\ Counts(bs)[b] <= Counts(bs)[b] BY <1>2, <3>1
    <3>3. \A b \in H : Counts(bs)[b] \in Nat BY <2>4, <3>1
    <3> QED BY <2>4, <3>2, <3>3, SumGrows
  <2>7. Sum(Counts(r), H) <= Sum(Counts(r), G)
    <3>1. \A b \in BucketStarts : Counts(r)[b] \in Nat /\ Counts(r)[b] <= Counts(r)[b] BY <1>2
    <3>2. \A b \in H : Counts(r)[b] \in Nat /\ Counts(r)[b] <= Counts(r)[b] BY <2>4, <3>1
    <3>3. \A b \in G : Counts(r)[b] \in Nat BY <1>2
    <3> QED BY <1>2, <2>4, <3>2, <3>3, SumGrows
  <2>8. Sum(Counts(bs), F) \in Nat BY <1>2, CountsAdd
  <2>9. GrantedIn(m, start, n) <= Sum(Counts(r), G)
    BY <1>3, <1>4, <1>5, <2>1, <2>5, <2>6, <2>7, <2>8
  <2> QED BY <2>9 DEF G
<1> QED BY <1>6, <1>7

\* What is counted is granted.
LEMMA RecordedBacked ==
  ASSUME NEW bs \in [BucketStarts -> Bucket], NEW l \in [Times -> Nat], NEW n \in Times,
         NEW c \in Nat, Backed(bs, l, n),
         NEW r \in [BucketStarts -> Bucket], CountedIn(r, bs, n, c),
         NEW m \in [Times -> Nat], LoggedIn(m, l, n, c)
  PROVE  Backed(r, m, n)
<1> SUFFICES ASSUME NEW start \in Int, Floor(start) = start
             PROVE  Sum(Counts(r), From(start)) <= GrantedIn(m, start, n)
  BY DEF Backed
<1> DEFINE f == Floor(n)
           D == From(start)
<1>1. n \in Int /\ f \in BucketStarts /\ f \in Int /\ f <= n BY Numbers, FloorBucket, FloorOf
<1>2. D \in SUBSET BucketStarts BY CountsFinite
<1>3. f \in D <=> start <= n
  <2>1. start <= n => start <= f BY <1>1, FloorOf
  <2> QED BY <1>1, <2>1 DEF From
<1>4. Sum(Counts(bs), D) <= GrantedIn(l, start, n) BY DEF Backed
<1>5. GrantedIn(m, start, n) =
        IF start <= n THEN GrantedIn(l, start, n) + c ELSE GrantedIn(l, start, n)
  BY GrantedAdds DEF LoggedIn
<1>6. GrantedIn(l, start, n) \in Nat BY GrantedNat
<1> HIDE DEF D
<1>7. /\ Sum(Counts(bs), D) \in Nat
      /\ Sum(Counts(r), D) = IF f \in D THEN Sum(Counts(bs), D) + c ELSE Sum(Counts(bs), D)
  BY <1>2, CountsAdd
<1> HIDE DEF f
<1>8. CASE start <= n BY <1>3, <1>4, <1>5, <1>6, <1>7, <1>8 DEF D
<1>9. CASE ~(start <= n) BY <1>3, <1>4, <1>5, <1>6, <1>7, <1>9 DEF D
<1> QED BY <1>8, <1>9

\* A finite set of integers has a maximum and a minimum.
LEMMA MaxOf ==
  ASSUME NEW S \in SUBSET Int, IsFiniteSet(S), S # {}
  PROVE  Max(S) \in S /\ \A y \in S : y <= Max(S)
<1> DEFINE Has(s) == \E x \in s : \A y \in s : x >= y
           Bad == {s \in SUBSET S : s # {} /\ ~Has(s)}
<1>1. Has(S)
  <2> SUFFICES ASSUME Bad # {} PROVE FALSE OBVIOUS
  <2>1. PICK s \in Bad : \A r \in SUBSET s : r # s => r \notin Bad
    <3>1. Bad \in SUBSET SUBSET S OBVIOUS
    <3> HIDE DEF Bad
    <3> QED BY <3>1, MinimalSet
  <2>2. PICK x : x \in s BY <2>1
  <2> DEFINE r == s \ {x}
  <2>3. s \in SUBSET Int /\ r \in SUBSET s /\ r # s /\ r \in SUBSET S BY <2>1, <2>2
  <2>4. r = {} \/ Has(r) BY <2>1, <2>3
  <2>5. CASE r = {}
    <3>1. s = {x} /\ x >= x BY <2>2, <2>3, <2>5
    <3> QED BY <2>1, <3>1
  <2>6. CASE Has(r)
    <3>1. PICK z \in r : \A y \in r : z >= y BY <2>6
    <3>2. x \in Int /\ z \in Int /\ \A y \in r : y \in Int BY <2>2, <2>3
    <3>3. CASE z >= x
      <4>1. z \in s /\ \A y \in s : z >= y BY <3>1, <3>3
      <4> QED BY <2>1, <4>1
    <3>4. CASE ~(z >= x)
      <4>1. \A y \in r : x >= y BY <3>1, <3>2, <3>4
      <4>2. x \in s /\ \A y \in s : x >= y BY <2>2, <3>2, <4>1
      <4> QED BY <2>1, <4>2
    <3> QED BY <3>3, <3>4
  <2> QED BY <2>4, <2>5, <2>6
<1>2. Max(S) \in S /\ \A y \in S : Max(S) >= y
  <2> HIDE DEF Bad
  <2> QED BY <1>1 DEF Max
<1> QED BY <1>2

\* The minimum of one number, and of two.
LEMMA MinOf ==
  ASSUME NEW x \in Int, NEW y \in Int
  PROVE  /\ Min({x} \union {}) = x
         /\ Min({x} \union {y}) \in {x, y} /\ Min({x} \union {y}) <= x /\ Min({x} \union {y}) <= y
<1>1. Min({x} \union {}) = x BY DEF Min
<1>2. \E a \in {x} \union {y} : \A b \in {x} \union {y} : a <= b OBVIOUS
<1>3. /\ Min({x} \union {y}) \in {x} \union {y}
      /\ \A b \in {x} \union {y} : Min({x} \union {y}) <= b
  BY <1>2 DEF Min
<1> QED BY <1>1, <1>3

\* The largest cost, and the longest window.
LEMMA CostBound == \A cost \in Costs : cost \in Nat \ {0} /\ cost <= MaxCost /\ MaxCost \in Nat
<1>1. Costs \in SUBSET Int /\ IsFiniteSet(Costs) /\ Costs # {} /\ Costs \subseteq Nat \ {0}
  BY StoreAssumption
<1>2. MaxCost \in Costs /\ \A y \in Costs : y <= MaxCost BY <1>1, MaxOf DEF MaxCost
<1> QED BY <1>1, <1>2

\* The longest window is at least as long as each that is in use.
LEMMA Windows ==
  ASSUME config \in Configs
  PROVE  /\ MaxWindow \in Nat /\ config.period <= MaxWindow /\ config.burstWindow <= MaxWindow
         /\ config.dailyLimit > 0 => Day <= MaxWindow
         /\ config.calendarDaily => Day <= MaxWindow
         /\ config.period \in Nat /\ config.burstWindow \in Nat /\ config.limit \in Nat \ {0}
         /\ config.burst \in Nat /\ config.dailyLimit \in Nat /\ config.calendarDaily \in BOOLEAN
<1>1. /\ config.period \in Nat /\ config.burstWindow \in Nat /\ config.limit \in Nat \ {0}
      /\ config.burst \in Nat /\ config.dailyLimit \in Nat
  BY StoreAssumption DEF ConfigType
<1>2. config.calendarDaily \in BOOLEAN /\ (config.calendarDaily => config.period >= Day)
  BY StoreAssumption DEF ConfigType
<1> DEFINE d == IF config.dailyLimit > 0 THEN Day ELSE 0
           S == {config.period, config.burstWindow, d}
<1>3. Day \in Nat /\ d \in Nat BY Numbers
<1>4. S \in SUBSET Int /\ IsFiniteSet(S) /\ S # {}
  <2> HIDE DEF d
  <2>1. IsFiniteSet({}) /\ IsFiniteSet({} \union {d}) BY FS_EmptySet, FS_AddElement
  <2>2. IsFiniteSet(({} \union {d}) \union {config.burstWindow}) BY <2>1, FS_AddElement
  <2>3. IsFiniteSet((({} \union {d}) \union {config.burstWindow}) \union {config.period})
    BY <2>2, FS_AddElement
  <2>4. S = (({} \union {d}) \union {config.burstWindow}) \union {config.period} OBVIOUS
  <2> QED BY <1>1, <1>3, <2>3, <2>4
<1>5. Max(S) \in S /\ \A y \in S : y <= Max(S)
  <2> HIDE DEF S
  <2> QED BY <1>4, MaxOf
<1>6. MaxWindow = Max(S) BY DEF MaxWindow
<1>7. MaxWindow \in Nat /\ config.period <= MaxWindow /\ config.burstWindow <= MaxWindow
      /\ d <= MaxWindow
  <2> HIDE DEF d
  <2> QED BY <1>1, <1>3, <1>5, <1>6
<1>8. config.calendarDaily => Day <= MaxWindow BY <1>1, <1>2, <1>3, <1>7
<1>9. config.dailyLimit > 0 => Day <= MaxWindow BY <1>7
<1> QED BY <1>1, <1>2, <1>7, <1>8, <1>9

-----------------------------------------------------------------------------
\* The inductive invariant.
Future == \A t \in Times : now < t => log[t] = 0

ResultTyped ==
  /\ result.success \in BOOLEAN
  /\ result.exceeded \in {"none", "main", "burst", "daily"}
  /\ result.remaining \in 0 .. config.limit /\ result.at \in Times \union {-1}

StoreTyped ==
  /\ config \in Configs /\ now \in Times
  /\ buckets \in [BucketStarts -> Bucket] /\ log \in [Times -> Nat]
  /\ lastCleanup \in Times /\ persisted \in BOOLEAN

Recount ==
  /\ Dated(buckets, now) /\ Future
  /\ Covered(buckets, log, now, MaxWindow) /\ Backed(buckets, log, now)

StoreInv == StoreTyped /\ ResultTyped /\ Recount /\ WindowLimits

\* The types the proofs use are those the run checks.
LEMMA StoreTypes == StoreTyped /\ ResultTyped => StoreTypeOK
<1> SUFFICES ASSUME StoreTyped, ResultTyped PROVE StoreTypeOK OBVIOUS
<1>1. \A b \in BucketStarts : buckets[b].count \in Nat /\ buckets[b].timestamp \in Times
  BY DEF StoreTyped, Bucket
<1>2. DOMAIN buckets = BucketStarts /\ DOMAIN log = Times /\ \A t \in Times : log[t] \in Nat
  BY DEF StoreTyped
<1> QED BY <1>1, <1>2 DEF StoreTyped, ResultTyped, StoreTypeOK

\* The cleanup takes only what no window counts.
LEMMA CleanupKeeps ==
  ASSUME StoreTyped, Recount
  PROVE  /\ AfterCleanup \in [BucketStarts -> Bucket] /\ Dated(AfterCleanup, now)
         /\ Covered(AfterCleanup, log, now, MaxWindow) /\ Backed(AfterCleanup, log, now)
         /\ \A b \in BucketStarts : AfterCleanup[b].count <= buckets[b].count
<1> DEFINE bs == AfterCleanup
           Gone == {b \in BucketStarts : CleanupDue /\ b \in Expired}
<1>1. /\ \A b \in Gone : bs[b] = NoBucket
      /\ \A b \in BucketStarts \ Gone : bs[b] = buckets[b]
      /\ bs = [b \in BucketStarts |-> bs[b]]
  BY DEF AfterCleanup
<1>2. \A b \in Gone : buckets[b].timestamp < now - MaxWindow BY DEF Expired
<1>3. Gone \subseteq BucketStarts OBVIOUS
<1> HIDE DEF bs, Gone
<1>4. buckets \in [BucketStarts -> Bucket] /\ now \in Int /\ MaxWindow \in Nat
      /\ log \in [Times -> Nat]
  BY Numbers, Windows DEF StoreTyped
<1>5. \A b \in BucketStarts : /\ buckets[b] \in Bucket
                              /\ buckets[b].count \in Nat /\ buckets[b].timestamp \in Int
  BY <1>4, Numbers DEF Bucket
<1>6. NoBucket \in Bucket /\ NoBucket.count = 0
  <2>1. 0 \in Times BY Numbers DEF Times
  <2> QED BY <2>1 DEF NoBucket, Bucket
<1>7. bs \in [BucketStarts -> Bucket]
  <2>1. \A b \in BucketStarts : bs[b] \in Bucket BY <1>1, <1>5, <1>6
  <2> QED BY <1>1, <2>1
<1>8. \A b \in BucketStarts : bs[b].count <= buckets[b].count
  BY <1>1, <1>5, <1>6
<1>9. Dated(bs, now)
  <2> SUFFICES ASSUME NEW b \in BucketStarts, bs[b].count > 0
               PROVE  Floor(bs[b].timestamp) = b /\ bs[b].timestamp <= now
    BY DEF Dated
  <2>1. bs[b] = buckets[b] BY <1>1, <1>6
  <2> QED BY <2>1 DEF Recount, Dated
<1>10. Covered(bs, log, now, MaxWindow)
  <2> SUFFICES ASSUME NEW start \in Int, now - MaxWindow <= start
               PROVE  GrantedIn(log, start, now) <= Sum(Counts(bs), Fresh(bs, start))
    BY DEF Covered
  <2>1. GrantedIn(log, start, now) <= Sum(Counts(buckets), Fresh(buckets, start))
    BY DEF Recount, Covered
  <2>2. ASSUME NEW b \in Gone
        PROVE  ~(bs[b].count > 0) /\ ~(start <= buckets[b].timestamp)
    <3>1. bs[b].count = 0 BY <1>1, <1>6
    <3>2. buckets[b].timestamp < now - MaxWindow /\ buckets[b].timestamp \in Int
      BY <1>2, <1>3, <1>5
    <3> QED BY <1>4, <3>1, <3>2
  <2>3. Fresh(bs, start) = Fresh(buckets, start) BY <1>1, <1>3, <2>2 DEF Fresh
  <2>4. \A b \in Fresh(bs, start) : b \in BucketStarts \ Gone BY <2>2 DEF Fresh
  <2>5. Sum(Counts(bs), Fresh(bs, start)) = Sum(Counts(buckets), Fresh(bs, start))
    <3>1. \A b \in Fresh(bs, start) : Counts(buckets)[b] \in Nat /\ Counts(bs)[b] = Counts(buckets)[b]
      BY <1>1, <1>5, <2>4 DEF Counts
    <3>2. IsFiniteSet(Fresh(bs, start)) BY <1>7, CountsFinite
    <3> QED BY <3>1, <3>2, SumSame
  <2> QED BY <2>1, <2>3, <2>5
<1>11. Backed(bs, log, now)
  <2> SUFFICES ASSUME NEW start \in Int, Floor(start) = start
               PROVE  Sum(Counts(bs), From(start)) <= GrantedIn(log, start, now)
    BY DEF Backed
  <2>1. Sum(Counts(buckets), From(start)) <= GrantedIn(log, start, now) BY DEF Recount, Backed
  <2>2. From(start) \subseteq BucketStarts /\ IsFiniteSet(From(start)) BY <1>4, CountsFinite
  <2>3. \A b \in BucketStarts : Counts(bs)[b] \in Nat /\ Counts(buckets)[b] \in Nat
                                /\ Counts(bs)[b] <= Counts(buckets)[b]
    <3>1. \A b \in BucketStarts : Counts(bs)[b] = bs[b].count /\ Counts(bs)[b] \in Nat
      BY <1>7, CountsFinite
    <3>2. \A b \in BucketStarts : Counts(buckets)[b] = buckets[b].count /\ Counts(buckets)[b] \in Nat
      BY <1>4, CountsFinite
    <3> QED BY <1>8, <3>1, <3>2
  <2>4. Sum(Counts(bs), From(start)) <= Sum(Counts(buckets), From(start))
    BY <2>2, <2>3, SumGrows
  <2>5. /\ Sum(Counts(bs), From(start)) \in Nat /\ Sum(Counts(buckets), From(start)) \in Nat
        /\ GrantedIn(log, start, now) \in Nat
    BY <1>4, <2>2, <2>3, SumNat, GrantedNat
  <2> QED BY <2>1, <2>4, <2>5
<1> QED BY <1>7, <1>8, <1>9, <1>10, <1>11 DEF bs

-----------------------------------------------------------------------------
(* Counts against limits, and the store when it starts.                    *)

\* What the store counts is what the code sums up.
LEMMA CountSinceBounds ==
  ASSUME NEW bs \in [BucketStarts -> Bucket], log \in [Times -> Nat], now \in Times,
         config \in Configs, Dated(bs, now), Covered(bs, log, now, MaxWindow),
         Backed(bs, log, now), NEW start \in Int
  PROVE  /\ CountSince(bs, start) \in Nat
         /\ CountSince(bs, start) <= GrantedIn(log, Floor(start), now)
         /\ now - MaxWindow <= start => GrantedIn(log, start, now) <= CountSince(bs, start)
<1>1. CountSince(bs, start) =
        Sum(Counts(bs), {b \in BucketStarts : Floor(start) <= b /\ b <= now})
  BY DEF CountSince, Counts, GetBucketsInRange
<1>2. MaxWindow \in Nat BY Windows
<1> QED BY <1>1, <1>2, CountBounds

\* The windows' starts are no earlier than the cleanup's.
LEMMA Starts ==
  ASSUME config \in Configs, now \in Times
  PROVE  /\ MainWindowStart \in Int /\ now - MaxWindow <= MainWindowStart
         /\ now - config.burstWindow \in Int /\ now - MaxWindow <= now - config.burstWindow
         /\ now - Day \in Int /\ (config.dailyLimit > 0 => now - MaxWindow <= now - Day)
         /\ now \in Int /\ MaxWindow \in Nat
<1>1. now \in Int /\ Day \in Nat \ {0} BY Numbers
<1>2. /\ GetStartOfUtcDay(now) \in Int /\ now < GetStartOfUtcDay(now) + Day
  BY <1>1, DayOf
<1>3. MainWindowStart \in Int /\ now - MaxWindow <= MainWindowStart
  <2>1. CASE config.calendarDaily
    <3>1. MainWindowStart = GetStartOfUtcDay(now) BY <2>1 DEF MainWindowStart
    <3>2. Day <= MaxWindow /\ MaxWindow \in Nat BY <2>1, Windows
    <3> QED BY <1>1, <1>2, <3>1, <3>2
  <2>2. CASE ~config.calendarDaily
    <3>1. MainWindowStart = now - config.period BY <2>2 DEF MainWindowStart
    <3> QED BY <1>1, <3>1, Windows
  <2> QED BY <2>1, <2>2
<1> QED BY <1>1, <1>3, Windows

\* The counts the limits are compared with, for the buckets left by the cleanup.
LEMMA Counted ==
  ASSUME StoreTyped, NEW bs \in [BucketStarts -> Bucket], Dated(bs, now),
         Covered(bs, log, now, MaxWindow), Backed(bs, log, now)
  PROVE  /\ MainCount(bs) \in Nat /\ BurstCount(bs) \in Nat /\ DailyCount(bs) \in Nat
         /\ GrantedIn(log, MainWindowStart, now) <= MainCount(bs)
         /\ GrantedIn(log, now - config.burstWindow, now) <= BurstCount(bs)
         /\ config.dailyLimit > 0 => GrantedIn(log, now - Day, now) <= DailyCount(bs)
         /\ MainCount(bs) <= GrantedIn(log, Floor(MainWindowStart), now)
         /\ BurstCount(bs) <= GrantedIn(log, Floor(now - config.burstWindow), now)
         /\ DailyCount(bs) <= GrantedIn(log, Floor(now - Day), now)
<1>1. config \in Configs /\ now \in Times /\ log \in [Times -> Nat] BY DEF StoreTyped
<1>2. ASSUME NEW start \in Int
      PROVE  /\ CountSince(bs, start) \in Nat
             /\ CountSince(bs, start) <= GrantedIn(log, Floor(start), now)
             /\ now - MaxWindow <= start => GrantedIn(log, start, now) <= CountSince(bs, start)
  BY <1>1, CountSinceBounds
<1>3. /\ MainWindowStart \in Int /\ now - MaxWindow <= MainWindowStart
      /\ now - config.burstWindow \in Int /\ now - MaxWindow <= now - config.burstWindow
      /\ now - Day \in Int /\ (config.dailyLimit > 0 => now - MaxWindow <= now - Day)
  BY <1>1, Starts
<1>4. /\ MainCount(bs) \in Nat /\ GrantedIn(log, MainWindowStart, now) <= MainCount(bs)
      /\ MainCount(bs) <= GrantedIn(log, Floor(MainWindowStart), now)
  BY <1>2, <1>3 DEF MainCount
<1>5. /\ BurstCount(bs) \in Nat
      /\ GrantedIn(log, now - config.burstWindow, now) <= BurstCount(bs)
      /\ BurstCount(bs) <= GrantedIn(log, Floor(now - config.burstWindow), now)
  BY <1>2, <1>3 DEF BurstCount
<1>6. /\ DailyCount(bs) \in Nat
      /\ config.dailyLimit > 0 => GrantedIn(log, now - Day, now) <= DailyCount(bs)
      /\ DailyCount(bs) <= GrantedIn(log, Floor(now - Day), now)
  <2>1. DailyCount(bs) = CountSince(bs, now - Day) BY DEF DailyCount
  <2>2. /\ CountSince(bs, now - Day) \in Nat
        /\ CountSince(bs, now - Day) <= GrantedIn(log, Floor(now - Day), now)
        /\ now - MaxWindow <= now - Day =>
             GrantedIn(log, now - Day, now) <= CountSince(bs, now - Day)
    BY <1>2, <1>3
  <2> QED BY <1>3, <2>1, <2>2
<1> QED BY <1>4, <1>5, <1>6

\* The history of the run's properties is that of the lemmas.
LEMMA GrantedSame == \A start : Granted(start) = GrantedIn(log, start, now)
BY DEF Granted, GrantedIn, Window

\* A request that no limit holds back, and what is left after it.
LEMMA NoneExceeded ==
  ASSUME NEW bs, Exceeded(bs) = "none", config \in Configs, MainCount(bs) \in Nat,
         BurstCount(bs) \in Nat, DailyCount(bs) \in Nat
  PROVE  /\ MainCount(bs) < config.limit
         /\ config.burst > 0 => BurstCount(bs) < config.burst
         /\ config.dailyLimit > 0 => DailyCount(bs) < config.dailyLimit
<1>1. /\ config.limit \in Nat /\ config.burst \in Nat /\ config.dailyLimit \in Nat
  BY Windows
<1>2. ~(MainCount(bs) >= config.limit) BY DEF Exceeded
<1>3. ~(config.burst > 0 /\ BurstCount(bs) >= config.burst) BY <1>2 DEF Exceeded
<1>4. ~(config.dailyLimit > 0 /\ DailyCount(bs) >= config.dailyLimit) BY <1>2, <1>3 DEF Exceeded
<1> QED BY <1>1, <1>2, <1>3, <1>4

\* What is left is clamped between nothing and the limit.
LEMMA Clamped ==
  ASSUME NEW x \in Int, NEW y \in Int, NEW lim \in Nat, x <= lim, NEW d \in BOOLEAN
  PROVE  LET v == Max({0, Min({x} \union IF d THEN {y} ELSE {})})
         IN  /\ v \in 0 .. lim
             /\ v > 0 => x > 0 /\ (d => y > 0)
             /\ v = 0 => ~(x > 0 /\ (d => y > 0))
<1> DEFINE u == Min({x} \union IF d THEN {y} ELSE {})
<1>1. u \in Int /\ u <= x /\ (d => u <= y) /\ (u = x \/ (d /\ u = y)) BY MinOf
<1> HIDE DEF u
<1>2. {0, u} \in SUBSET Int /\ IsFiniteSet({0, u}) /\ {0, u} # {}
  <2>1. IsFiniteSet({} \union {0}) BY FS_EmptySet, FS_AddElement
  <2>2. IsFiniteSet(({} \union {0}) \union {u}) BY <2>1, FS_AddElement
  <2>3. {0, u} = ({} \union {0}) \union {u} OBVIOUS
  <2> QED BY <1>1, <2>2, <2>3
<1> DEFINE v == Max({0, u})
<1>3. v \in {0, u} /\ \A k \in {0, u} : k <= v BY <1>2, MaxOf
<1> HIDE DEF v
<1>4. v = 0 \/ v = u BY <1>3
<1>5. 0 <= v /\ u <= v BY <1>3
<1>6. v \in 0 .. lim BY <1>1, <1>4, <1>5
<1>7. v > 0 => x > 0 /\ (d => y > 0) BY <1>1, <1>4, <1>5
<1>8. v = 0 => ~(x > 0 /\ (d => y > 0)) BY <1>1, <1>4, <1>5
<1> QED BY <1>6, <1>7, <1>8 DEF v, u

-----------------------------------------------------------------------------
\* A store without requests.
LEMMA NoneGranted ==
  ASSUME NEW start, NEW n
  PROVE  GrantedIn([t \in Times |-> 0], start, n) = 0
<1> DEFINE l == [t \in Times |-> 0]
<1>1. IsFiniteSet(Window(start, n)) /\ \A t \in Window(start, n) : l[t] = 0 BY WindowFinite
<1> HIDE DEF l
<1>2. Sum(l, Window(start, n)) = 0 BY <1>1, SumZero
<1> QED BY <1>2 DEF GrantedIn, l

\* A store and a history without requests agree.
LEMMA EmptyStore ==
  ASSUME NEW n \in Times, NEW w \in Nat
  PROVE  LET bs == [b \in BucketStarts |-> NoBucket]
             l == [t \in Times |-> 0]
         IN  /\ bs \in [BucketStarts -> Bucket] /\ l \in [Times -> Nat]
             /\ Dated(bs, n) /\ Covered(bs, l, n, w) /\ Backed(bs, l, n)
<1> DEFINE bs == [b \in BucketStarts |-> NoBucket]
           l == [t \in Times |-> 0]
<1>1. NoBucket \in Bucket /\ NoBucket.count = 0
  <2>1. 0 \in Times BY Numbers DEF Times
  <2> QED BY <2>1 DEF NoBucket, Bucket
<1>2. bs \in [BucketStarts -> Bucket] /\ l \in [Times -> Nat] BY <1>1
<1>3. \A b \in BucketStarts : bs[b].count = 0 BY <1>1
<1>4. \A start : GrantedIn(l, start, n) = 0 BY NoneGranted
<1> HIDE DEF bs, l
<1>5. Dated(bs, n) BY <1>3 DEF Dated
<1>6. Covered(bs, l, n, w)
  <2> SUFFICES ASSUME NEW start \in Int
               PROVE  GrantedIn(l, start, n) <= Sum(Counts(bs), Fresh(bs, start))
    BY DEF Covered
  <2>1. Fresh(bs, start) \subseteq BucketStarts /\ IsFiniteSet(Fresh(bs, start))
        /\ \A b \in BucketStarts : Counts(bs)[b] \in Nat
    BY <1>2, CountsFinite
  <2>2. Sum(Counts(bs), Fresh(bs, start)) \in Nat BY <2>1, SumNat
  <2> QED BY <1>4, <2>2
<1>7. Backed(bs, l, n)
  <2> SUFFICES ASSUME NEW start \in Int
               PROVE  Sum(Counts(bs), From(start)) <= GrantedIn(l, start, n)
    BY DEF Backed
  <2>1. /\ From(start) \subseteq BucketStarts /\ IsFiniteSet(From(start))
        /\ \A b \in BucketStarts : Counts(bs)[b] = bs[b].count
    BY <1>2, CountsFinite
  <2>2. \A b \in From(start) : Counts(bs)[b] = 0 BY <1>3, <2>1
  <2>3. Sum(Counts(bs), From(start)) = 0 BY <2>1, <2>2, SumZero
  <2> QED BY <1>4, <2>3
<1> QED BY <1>2, <1>5, <1>6, <1>7 DEF bs, l

\* Where nothing was granted no limit is exceeded.
LEMMA LimitsPositive ==
  ASSUME config \in Configs, \A start : Granted(start) = 0
  PROVE  WindowLimits
<1>1. PICK cost \in Costs : TRUE BY StoreAssumption
<1>2. MaxCost \in Nat /\ MaxCost > 0 BY <1>1, CostBound
<1> QED BY <1>2, Windows DEF WindowLimits

\* The store starts empty.
LEMMA StoreInitInv == StoreInit => StoreInv
<1> SUFFICES ASSUME StoreInit PROVE StoreInv OBVIOUS
<1>1. now = 0 /\ now \in Times BY Numbers DEF StoreInit, Times
<1>2. config \in Configs /\ MaxWindow \in Nat BY Windows DEF StoreInit
<1>3. /\ buckets \in [BucketStarts -> Bucket] /\ log \in [Times -> Nat]
      /\ Dated(buckets, now) /\ Covered(buckets, log, now, MaxWindow)
      /\ Backed(buckets, log, now)
  BY <1>1, <1>2, EmptyStore DEF StoreInit
<1>4. StoreTyped BY <1>1, <1>2, <1>3 DEF StoreInit, StoreTyped
<1>5. ResultTyped BY <1>2, Windows DEF StoreInit, ResultTyped, NoResult
<1>6. Recount BY <1>3 DEF Recount, Future, StoreInit
<1>7. \A start : Granted(start) = 0 BY NoneGranted, GrantedSame DEF StoreInit
<1>8. WindowLimits BY <1>2, <1>7, LimitsPositive
<1> QED BY <1>4, <1>5, <1>6, <1>8 DEF StoreInv

-----------------------------------------------------------------------------
(* A request.                                                              *)

\* What is left is no more than the limit, whatever is counted.
LEMMA RemainingTyped ==
  ASSUME config \in Configs, NEW bs, MainCount(bs) \in Nat, DailyCount(bs) \in Nat,
         NEW cost \in Nat
  PROVE  /\ ResultLimit(bs, cost) \in 0 .. config.limit
         /\ Remaining(bs) > 0 =>
              /\ config.limit - MainCount(bs) > 0
              /\ config.dailyLimit > 0 => config.dailyLimit - DailyCount(bs) > 0
         /\ Remaining(bs) = 0 =>
              ~(/\ config.limit - MainCount(bs) > 0
                /\ config.dailyLimit > 0 => config.dailyLimit - DailyCount(bs) > 0)
<1> DEFINE d == config.dailyLimit > 0
<1>1. config.limit \in Nat /\ config.dailyLimit \in Nat /\ d \in BOOLEAN BY Windows
<1>2. ResultLimit(bs, cost) \in 0 .. config.limit
  <2> DEFINE x == config.limit - MainCount(bs) - cost
             y == config.dailyLimit - DailyCount(bs) - cost
  <2>1. x \in Int /\ y \in Int /\ x <= config.limit BY <1>1
  <2>2. ResultLimit(bs, cost) = Max({0, Min({x} \union IF d THEN {y} ELSE {})})
    BY DEF ResultLimit
  <2> HIDE DEF x, y, d
  <2> QED BY <1>1, <2>1, <2>2, Clamped
<1>3. /\ Remaining(bs) > 0 =>
           /\ config.limit - MainCount(bs) > 0
           /\ d => config.dailyLimit - DailyCount(bs) > 0
      /\ Remaining(bs) = 0 =>
           ~(/\ config.limit - MainCount(bs) > 0
             /\ d => config.dailyLimit - DailyCount(bs) > 0)
  <2> DEFINE x == config.limit - MainCount(bs)
             y == config.dailyLimit - DailyCount(bs)
  <2>1. x \in Int /\ y \in Int /\ x <= config.limit BY <1>1
  <2>2. Remaining(bs) = Max({0, Min({x} \union IF d THEN {y} ELSE {})})
    BY DEF Remaining
  <2> HIDE DEF x, y, d
  <2>3. /\ Remaining(bs) > 0 => x > 0 /\ (d => y > 0)
        /\ Remaining(bs) = 0 => ~(x > 0 /\ (d => y > 0))
    BY <1>1, <2>1, <2>2, Clamped
  <2> QED BY <2>3 DEF x, y
<1> QED BY <1>2, <1>3

\* The bucket of now after a request.
LEMMA RecordedCounts ==
  ASSUME NEW bs \in [BucketStarts -> Bucket], now \in Times, NEW cost \in Nat
  PROVE  /\ Recorded(bs, cost) \in [BucketStarts -> Bucket]
         /\ CountedIn(Recorded(bs, cost), bs, now, cost)
<1> DEFINE f == Floor(now)
           x == [count |-> bs[f].count + cost, timestamp |-> now]
           r == Recorded(bs, cost)
<1>1. f \in BucketStarts BY FloorBucket
<1>2. bs[f].count \in Nat BY <1>1 DEF Bucket
<1>3. x \in Bucket /\ x.count = bs[f].count + cost /\ x.timestamp = now BY <1>2 DEF Bucket
<1>4. r = [bs EXCEPT ![f] = x] BY DEF Recorded
<1> HIDE DEF f, x, r
<1>5. r[f] = x /\ r \in [BucketStarts -> Bucket] /\ \A b \in BucketStarts \ {f} : r[b] = bs[b]
  BY <1>1, <1>3, <1>4
<1> QED BY <1>3, <1>5 DEF r, f, CountedIn

\* A request that is granted.
LEMMA GrantedKeeps ==
  ASSUME StoreInv, NEW cost \in Costs, Increment(cost), Exceeded(AfterCleanup) = "none"
  PROVE  StoreInv'
<1> DEFINE bs == AfterCleanup
<1>1. StoreTyped /\ Recount /\ config \in Configs /\ now \in Times /\ log \in [Times -> Nat]
  BY DEF StoreInv, StoreTyped
<1>2. /\ bs \in [BucketStarts -> Bucket] /\ Dated(bs, now)
      /\ Covered(bs, log, now, MaxWindow) /\ Backed(bs, log, now)
  BY <1>1, CleanupKeeps
<1>3. /\ buckets' = Recorded(bs, cost) /\ log' = [log EXCEPT ![now] = @ + cost]
      /\ persisted' = TRUE /\ config' = config /\ now' = now
      /\ result' = [success |-> TRUE, exceeded |-> "none", at |-> now,
                    remaining |-> ResultLimit(bs, cost)]
      /\ lastCleanup' \in {now, lastCleanup}
  BY DEF Increment
<1>4. Exceeded(bs) = "none" OBVIOUS
<1> HIDE DEF bs
<1>5. cost \in Nat \ {0} /\ cost <= MaxCost /\ MaxCost \in Nat BY CostBound
<1>6. buckets' \in [BucketStarts -> Bucket] /\ CountedIn(buckets', bs, now, cost)
  BY <1>1, <1>2, <1>3, <1>5, RecordedCounts
<1>7. log' \in [Times -> Nat] /\ LoggedIn(log', log, now, cost)
  <2>1. log[now] + cost \in Nat BY <1>1, <1>5
  <2> QED BY <1>1, <1>3, <2>1 DEF LoggedIn
<1>8. MaxWindow \in Nat /\ MaxWindow' = MaxWindow BY <1>1, <1>3, Windows DEF MaxWindow
<1>9. /\ Dated(buckets', now) /\ Covered(buckets', log', now, MaxWindow)
      /\ Backed(buckets', log', now)
  BY <1>1, <1>2, <1>5, <1>6, <1>7, <1>8, RecordedDated, RecordedCovered, RecordedBacked
<1>10. Future'
  <2> SUFFICES ASSUME NEW t \in Times, now < t PROVE log'[t] = 0
    BY <1>3 DEF Future
  <2>1. t # now /\ log[t] = 0 BY <1>1, Numbers DEF Recount, Future
  <2> QED BY <1>7, <2>1 DEF LoggedIn
<1>11. Recount' BY <1>3, <1>8, <1>9, <1>10 DEF Recount
<1>12. StoreTyped' BY <1>1, <1>3, <1>6, <1>7 DEF StoreTyped
<1>13. /\ MainCount(bs) \in Nat /\ BurstCount(bs) \in Nat /\ DailyCount(bs) \in Nat
       /\ GrantedIn(log, MainWindowStart, now) <= MainCount(bs)
       /\ GrantedIn(log, now - config.burstWindow, now) <= BurstCount(bs)
       /\ config.dailyLimit > 0 => GrantedIn(log, now - Day, now) <= DailyCount(bs)
  BY <1>1, <1>2, Counted
<1>14. ResultTyped'
  <2>1. ResultLimit(bs, cost) \in 0 .. config.limit BY <1>1, <1>5, <1>13, RemainingTyped
  <2> QED BY <1>1, <1>3, <2>1 DEF ResultTyped
<1>15. /\ MainCount(bs) < config.limit
       /\ config.burst > 0 => BurstCount(bs) < config.burst
       /\ config.dailyLimit > 0 => DailyCount(bs) < config.dailyLimit
  BY <1>1, <1>4, <1>13, NoneExceeded
<1>16. ASSUME NEW start \in Int, NEW count \in Nat, NEW lim \in Nat, count < lim,
              GrantedIn(log, start, now) <= count
       PROVE  GrantedIn(log', start, now) < lim + MaxCost
  <2>1. GrantedIn(log', start, now) =
          IF start <= now THEN GrantedIn(log, start, now) + cost ELSE GrantedIn(log, start, now)
    BY <1>1, <1>5, <1>7, GrantedAdds DEF LoggedIn
  <2>2. GrantedIn(log, start, now) \in Nat BY <1>1, GrantedNat
  <2> QED BY <1>5, <1>16, <2>1, <2>2
<1>17. /\ config.limit \in Nat /\ config.burst \in Nat /\ config.dailyLimit \in Nat
       /\ MainWindowStart \in Int /\ now - config.burstWindow \in Int /\ now - Day \in Int
  BY <1>1, Windows, Starts
<1>18. /\ GrantedIn(log', MainWindowStart, now) < config.limit + MaxCost
       /\ config.burst > 0 =>
            GrantedIn(log', now - config.burstWindow, now) < config.burst + MaxCost
       /\ config.dailyLimit > 0 => GrantedIn(log', now - Day, now) < config.dailyLimit + MaxCost
  BY <1>13, <1>15, <1>16, <1>17
<1>19. WindowLimits'
  <2>1. \A start : Granted(start)' = GrantedIn(log', start, now')
    BY DEF Granted, GrantedIn, Window
  <2>2. MainWindowStart' = MainWindowStart BY <1>3 DEF MainWindowStart
  <2> QED BY <1>3, <1>18, <2>2 DEF WindowLimits, Granted, GrantedIn, Window
<1> QED BY <1>11, <1>12, <1>14, <1>19 DEF StoreInv

\* A request that is refused, or nothing but a cleanup, an eviction.
LEMMA NothingNew ==
  ASSUME StoreInv, UNCHANGED <<config, now, log>>, StoreTyped', ResultTyped',
         Dated(buckets', now), Covered(buckets', log, now, MaxWindow),
         Backed(buckets', log, now)
  PROVE  StoreInv'
<1>1. MaxWindow' = MaxWindow /\ MainWindowStart' = MainWindowStart
  BY DEF MaxWindow, MainWindowStart
<1>2. Recount' BY <1>1 DEF StoreInv, Recount, Future
<1>3. WindowLimits' BY <1>1 DEF StoreInv, WindowLimits, Granted
<1> QED BY <1>2, <1>3 DEF StoreInv

\* A request that is refused leaves the buckets the cleanup left, and no trace in the history.
LEMMA RefusedKeeps ==
  ASSUME StoreInv, NEW cost \in Costs, Increment(cost), Exceeded(AfterCleanup) # "none"
  PROVE  StoreInv'
<1> DEFINE bs == AfterCleanup
<1>1. StoreTyped /\ ResultTyped /\ Recount BY DEF StoreInv
<1>2. /\ bs \in [BucketStarts -> Bucket] /\ Dated(bs, now)
      /\ Covered(bs, log, now, MaxWindow) /\ Backed(bs, log, now)
  BY <1>1, CleanupKeeps
<1>3. /\ buckets' = bs /\ UNCHANGED <<config, now, log>>
      /\ persisted' = (persisted \/ bs # buckets)
      /\ result' = [success |-> FALSE, exceeded |-> Exceeded(bs), at |-> now, remaining |-> 0]
      /\ lastCleanup' \in {now, lastCleanup}
  BY DEF Increment
<1> HIDE DEF bs
<1>4. persisted' \in BOOLEAN BY <1>3, Zenon
<1>5. StoreTyped' BY <1>1, <1>2, <1>3, <1>4 DEF StoreTyped
<1>6. ResultTyped'
  <2>1. Exceeded(bs) \in {"none", "main", "burst", "daily"} BY DEF Exceeded
  <2>2. 0 \in 0 .. config.limit BY <1>1, Windows DEF StoreTyped
  <2> QED BY <1>1, <1>3, <2>1, <2>2 DEF ResultTyped, StoreTyped
<1> QED BY <1>2, <1>3, <1>5, <1>6, NothingNew

-----------------------------------------------------------------------------
(* The other steps, and the theorems.                                      *)

\* The limits on history l at time n, with c's config and m the start of the main window.
LimitsIn(c, l, m, n) ==
  /\ GrantedIn(l, m, n) < c.limit + MaxCost
  /\ c.burst > 0 => GrantedIn(l, n - c.burstWindow, n) < c.burst + MaxCost
  /\ c.dailyLimit > 0 => GrantedIn(l, n - Day, n) < c.dailyLimit + MaxCost

\* WindowLimits, before and after a step.
LEMMA LimitsForm ==
  /\ WindowLimits <=> LimitsIn(config, log, MainWindowStart, now)
  /\ WindowLimits' <=> LimitsIn(config', log', MainWindowStart', now')
BY DEF WindowLimits, LimitsIn, Granted, GrantedIn, Window

\* resetLimit forgets buckets and history alike.
LEMMA ResetKeeps == StoreInv /\ ResetLimit => StoreInv'
<1> SUFFICES ASSUME StoreInv, ResetLimit PROVE StoreInv' OBVIOUS
<1>1. /\ buckets' = [b \in BucketStarts |-> NoBucket] /\ log' = [t \in Times |-> 0]
      /\ result' = NoResult /\ persisted' = TRUE /\ UNCHANGED <<config, now, lastCleanup>>
  BY DEF ResetLimit
<1>2. StoreTyped /\ config \in Configs /\ now \in Times /\ MaxWindow \in Nat
  BY Windows DEF StoreInv, StoreTyped
<1>3. /\ buckets' \in [BucketStarts -> Bucket] /\ log' \in [Times -> Nat]
      /\ Dated(buckets', now) /\ Covered(buckets', log', now, MaxWindow)
      /\ Backed(buckets', log', now)
  BY <1>1, <1>2, EmptyStore
<1>4. StoreTyped' BY <1>1, <1>2, <1>3 DEF StoreTyped
<1>5. ResultTyped' BY <1>1, <1>2, Windows DEF ResultTyped, NoResult
<1>6. Recount'
  <2>1. MaxWindow' = MaxWindow BY <1>1 DEF MaxWindow
  <2> QED BY <1>1, <1>3, <2>1 DEF Recount, Future
<1>7. \A start, n : GrantedIn(log', start, n) = 0 BY <1>1, NoneGranted
<1>8. WindowLimits'
  <2>1. PICK cost \in Costs : TRUE BY StoreAssumption
  <2>2. MaxCost \in Nat /\ MaxCost > 0 BY <2>1, CostBound
  <2>3. /\ config.limit \in Nat /\ config.burst \in Nat /\ config.dailyLimit \in Nat
    BY <1>2, Windows
  <2>4. LimitsIn(config, log', MainWindowStart', now') BY <1>7, <2>2, <2>3 DEF LimitsIn
  <2> QED BY <1>1, <2>4, LimitsForm
<1> QED BY <1>4, <1>5, <1>6, <1>8 DEF StoreInv

\* An eviction changes no more than the time of the last cleanup.
LEMMA RestartKeeps == StoreInv /\ Restart => StoreInv'
<1> SUFFICES ASSUME StoreInv, Restart PROVE StoreInv' OBVIOUS
<1>1. UNCHANGED <<config, now, buckets, persisted, result, log>>
      /\ lastCleanup' \in {now, lastCleanup}
  BY DEF Restart
<1>2. StoreTyped' BY <1>1 DEF StoreInv, StoreTyped
<1>3. ResultTyped' BY <1>1 DEF StoreInv, ResultTyped
<1> QED BY <1>1, <1>2, <1>3, NothingNew DEF StoreInv, Recount

\* As time goes by windows start later and nothing is added to them.
LEMMA TickKeeps == StoreInv /\ Tick => StoreInv'
<1> SUFFICES ASSUME StoreInv, Tick PROVE StoreInv' OBVIOUS
<1>1. /\ now < MaxNow /\ now' = now + 1
      /\ UNCHANGED <<config, buckets, lastCleanup, persisted, result, log>>
  BY DEF Tick
<1>2. /\ config \in Configs /\ now \in Times /\ log \in [Times -> Nat]
      /\ buckets \in [BucketStarts -> Bucket]
  BY DEF StoreInv, StoreTyped
<1>3. now \in Int /\ now + 1 \in Times BY <1>1, <1>2, Numbers DEF Times
<1>4. log[now + 1] = 0 BY <1>3 DEF StoreInv, Recount, Future
<1>5. \A start \in Int : GrantedIn(log, start, now + 1) = GrantedIn(log, start, now)
  BY <1>2, <1>3, <1>4, GrantedTicks
<1>6. StoreTyped' BY <1>1, <1>3 DEF StoreInv, StoreTyped
<1>7. ResultTyped' BY <1>1 DEF StoreInv, ResultTyped
<1>8. MaxWindow \in Nat /\ MaxWindow' = MaxWindow BY <1>1, <1>2, Windows DEF MaxWindow
<1>9. Recount'
  <2>1. Dated(buckets, now + 1)
    <3> SUFFICES ASSUME NEW b \in BucketStarts, buckets[b].count > 0
                 PROVE  Floor(buckets[b].timestamp) = b /\ buckets[b].timestamp <= now + 1
      BY DEF Dated
    <3>1. buckets[b].timestamp \in Int BY <1>2, Numbers DEF Bucket
    <3>2. Floor(buckets[b].timestamp) = b /\ buckets[b].timestamp <= now
      BY DEF StoreInv, Recount, Dated
    <3> QED BY <1>3, <3>1, <3>2
  <2>2. Future' BY <1>1, <1>3, Numbers DEF StoreInv, Recount, Future
  <2>3. Covered(buckets, log, now + 1, MaxWindow)
    <3> SUFFICES ASSUME NEW start \in Int, (now + 1) - MaxWindow <= start
                 PROVE  GrantedIn(log, start, now + 1) <= Sum(Counts(buckets), Fresh(buckets, start))
      BY DEF Covered
    <3>1. now - MaxWindow <= start BY <1>3, <1>8
    <3> QED BY <1>5, <3>1 DEF StoreInv, Recount, Covered
  <2>4. Backed(buckets, log, now + 1) BY <1>5 DEF StoreInv, Recount, Backed
  <2> QED BY <1>1, <1>8, <2>1, <2>2, <2>3, <2>4 DEF Recount
<1>10. ASSUME NEW start \in Int, NEW later \in Int, start <= later
       PROVE  GrantedIn(log, later, now + 1) <= GrantedIn(log, start, now)
  <2>1. GrantedIn(log, later, now) <= GrantedIn(log, start, now)
    BY <1>2, <1>3, <1>10, GrantedLess
  <2> QED BY <1>5, <2>1
<1>11. MainWindowStart' \in Int /\ MainWindowStart <= MainWindowStart'
  <2>1. now + 1 \in Int /\ now <= now + 1 BY <1>3
  <2>2. CASE config.calendarDaily
    <3>1. MainWindowStart = GetStartOfUtcDay(now) /\ MainWindowStart' = GetStartOfUtcDay(now + 1)
      BY <1>1, <2>2 DEF MainWindowStart, GetStartOfUtcDay
    <3> QED BY <1>3, <2>1, <3>1, DayOf
  <2>3. CASE ~config.calendarDaily
    <3>1. MainWindowStart = now - config.period /\ MainWindowStart' = (now + 1) - config.period
      BY <1>1, <2>3 DEF MainWindowStart
    <3> QED BY <1>2, <1>3, <3>1, Windows
  <2> QED BY <2>2, <2>3
<1>12. /\ MainWindowStart \in Int /\ now - config.burstWindow \in Int /\ now - Day \in Int
       /\ (now + 1) - config.burstWindow \in Int /\ now - config.burstWindow <= (now + 1) - config.burstWindow
       /\ (now + 1) - Day \in Int /\ now - Day <= (now + 1) - Day
  BY <1>2, <1>3, Windows, Starts, Numbers
<1>13. /\ GrantedIn(log, MainWindowStart, now) < config.limit + MaxCost
       /\ config.burst > 0 =>
            GrantedIn(log, now - config.burstWindow, now) < config.burst + MaxCost
       /\ config.dailyLimit > 0 => GrantedIn(log, now - Day, now) < config.dailyLimit + MaxCost
  BY GrantedSame DEF StoreInv, WindowLimits
<1>14. /\ GrantedIn(log, MainWindowStart', now + 1) <= GrantedIn(log, MainWindowStart, now)
       /\ GrantedIn(log, (now + 1) - config.burstWindow, now + 1)
            <= GrantedIn(log, now - config.burstWindow, now)
       /\ GrantedIn(log, (now + 1) - Day, now + 1) <= GrantedIn(log, now - Day, now)
  BY <1>10, <1>11, <1>12
<1>15. /\ config.limit \in Nat /\ config.burst \in Nat /\ config.dailyLimit \in Nat /\ MaxCost \in Nat
       /\ \A start, n : GrantedIn(log, start, n) \in Nat
  <2>1. PICK cost \in Costs : TRUE BY StoreAssumption
  <2> QED BY <1>2, <2>1, CostBound, Windows, GrantedNat
<1>16. /\ GrantedIn(log, MainWindowStart', now + 1) < config.limit + MaxCost
       /\ config.burst > 0 =>
            GrantedIn(log, (now + 1) - config.burstWindow, now + 1) < config.burst + MaxCost
       /\ config.dailyLimit > 0 =>
            GrantedIn(log, (now + 1) - Day, now + 1) < config.dailyLimit + MaxCost
  BY <1>13, <1>14, <1>15
<1>17. WindowLimits'
  <2>1. LimitsIn(config, log, MainWindowStart', now + 1) BY <1>16 DEF LimitsIn
  <2> QED BY <1>1, <2>1, LimitsForm
<1> QED BY <1>6, <1>7, <1>9, <1>17 DEF StoreInv

\* Every step of the store keeps the invariant.
LEMMA StoreStepInv == StoreInv /\ [StoreNext]_storeVars => StoreInv'
<1> SUFFICES ASSUME StoreInv, [StoreNext]_storeVars PROVE StoreInv' OBVIOUS
<1>1. CASE UNCHANGED storeVars
  <2>1. UNCHANGED <<config, now, buckets, lastCleanup, persisted, result, log>>
    BY <1>1 DEF storeVars
  <2>2. StoreTyped' BY <2>1 DEF StoreInv, StoreTyped
  <2>3. ResultTyped' BY <2>1 DEF StoreInv, ResultTyped
  <2> QED BY <2>1, <2>2, <2>3, NothingNew DEF StoreInv, Recount
<1>2. ASSUME NEW cost \in Costs, Increment(cost) PROVE StoreInv'
  BY <1>2, GrantedKeeps, RefusedKeeps
<1> QED BY <1>1, <1>2, ResetKeeps, RestartKeeps, TickKeeps DEF StoreNext

\* The store's invariant holds for all configs, costs, clocks and bucket sizes.
THEOREM StoreInvariance == StoreSpec => []StoreInv
BY StoreInitInv, StoreStepInv, PTL DEF StoreSpec

\* The buckets, the history and every result are well typed: what increment says is left
\* lies between nothing and the limit.
THEOREM StoreTypeCorrect == StoreSpec => []StoreTypeOK
<1>1. StoreInv => StoreTypeOK BY StoreTypes DEF StoreInv
<1> QED BY <1>1, StoreInvariance, PTL

\* No limit is exceeded by more than the request that reaches it, in any rolling window or
\* calendar day, whatever the buckets' boundaries, the cleanups and evictions.
THEOREM WindowLimitsHold == StoreSpec => []WindowLimits
<1>1. StoreInv => WindowLimits BY DEF StoreInv
<1> QED BY <1>1, StoreInvariance, PTL

-----------------------------------------------------------------------------
\* What increment decides, for the conjuncts of DecisionsJustified.
LEMMA LeftIsGranted ==
  ASSUME StoreInv, NEW cost \in Costs, Increment(cost), Remaining(buckets) > 0, config.burst = 0
  PROVE  result'.success
<1> DEFINE bs == AfterCleanup
<1>1. StoreTyped /\ Recount /\ config \in Configs BY DEF StoreInv, StoreTyped
<1>2. /\ bs \in [BucketStarts -> Bucket] /\ Dated(bs, now)
      /\ Covered(bs, log, now, MaxWindow) /\ Backed(bs, log, now)
      /\ \A b \in BucketStarts : bs[b].count <= buckets[b].count
  BY <1>1, CleanupKeeps
<1> HIDE DEF bs
<1>3. buckets \in [BucketStarts -> Bucket] BY <1>1 DEF StoreTyped
<1>4. MainCount(buckets) \in Nat /\ DailyCount(buckets) \in Nat
  BY <1>1, <1>3, Counted DEF Recount
<1>5. /\ config.limit - MainCount(buckets) > 0
      /\ config.dailyLimit > 0 => config.dailyLimit - DailyCount(buckets) > 0
  <2>1. cost \in Nat BY CostBound
  <2> QED BY <1>1, <1>4, <2>1, RemainingTyped
<1>6. ASSUME NEW start
      PROVE  CountSince(bs, start) <= CountSince(buckets, start)
  <2> DEFINE S == GetBucketsInRange(start)
  <2>1. S \in SUBSET BucketStarts BY DEF GetBucketsInRange
  <2>2. IsFiniteSet(S) BY <2>1, Numbers, FS_Subset
  <2>3. CountSince(bs, start) = Sum(Counts(bs), S) /\ CountSince(buckets, start) = Sum(Counts(buckets), S)
    BY DEF CountSince, Counts
  <2>4. \A b \in BucketStarts : /\ Counts(bs)[b] = bs[b].count /\ Counts(bs)[b] \in Nat
                                /\ Counts(buckets)[b] = buckets[b].count /\ Counts(buckets)[b] \in Nat
    BY <1>2, <1>3, CountsFinite
  <2> HIDE DEF S
  <2>5. \A b \in S : /\ Counts(bs)[b] \in Nat /\ Counts(bs)[b] <= Counts(buckets)[b]
                     /\ Counts(buckets)[b] \in Nat
    BY <1>2, <2>1, <2>4
  <2>6. Sum(Counts(bs), S) <= Sum(Counts(buckets), S) BY <2>2, <2>5, SumGrows
  <2> QED BY <2>3, <2>6
<1>7. MainCount(bs) <= MainCount(buckets) /\ DailyCount(bs) <= DailyCount(buckets)
  BY <1>6 DEF MainCount, DailyCount
<1>8. MainCount(bs) \in Nat /\ DailyCount(bs) \in Nat BY <1>1, <1>2, Counted
<1>9. Exceeded(bs) = "none"
  <2>1. config.limit \in Nat /\ config.dailyLimit \in Nat BY <1>1, Windows
  <2>2. ~(MainCount(bs) >= config.limit) BY <1>4, <1>5, <1>7, <1>8, <2>1
  <2>3. ~(config.burst > 0 /\ BurstCount(bs) >= config.burst) OBVIOUS
  <2>4. ~(config.dailyLimit > 0 /\ DailyCount(bs) >= config.dailyLimit)
    BY <1>4, <1>5, <1>7, <1>8, <2>1
  <2> QED BY <2>2, <2>3, <2>4 DEF Exceeded
<1> QED BY <1>9 DEF Increment, bs

\* Nothing left, no cleanup due: refused, as the pre-flight check said.
LEMMA NothingLeft ==
  ASSUME StoreInv, NEW cost \in Costs, Increment(cost), Remaining(buckets) = 0, ~CleanupDue
  PROVE  ~result'.success
<1> DEFINE bs == AfterCleanup
<1>1. StoreTyped /\ Recount /\ config \in Configs BY DEF StoreInv, StoreTyped
<1>2. buckets \in [BucketStarts -> Bucket] BY <1>1 DEF StoreTyped
<1>3. bs = buckets
  <2>1. bs = [b \in BucketStarts |-> buckets[b]] BY DEF AfterCleanup
  <2> QED BY <1>2, <2>1
<1>4. /\ MainCount(buckets) \in Nat /\ BurstCount(buckets) \in Nat /\ DailyCount(buckets) \in Nat
  BY <1>1, <1>2, Counted DEF Recount
<1>5. ~(/\ config.limit - MainCount(buckets) > 0
        /\ config.dailyLimit > 0 => config.dailyLimit - DailyCount(buckets) > 0)
  <2>1. cost \in Nat BY CostBound
  <2> QED BY <1>1, <1>4, <2>1, RemainingTyped
<1>6. config.limit \in Nat /\ config.dailyLimit \in Nat BY <1>1, Windows
<1>7. Exceeded(buckets) # "none"
  <2> SUFFICES ASSUME Exceeded(buckets) = "none" PROVE FALSE OBVIOUS
  <2>1. /\ MainCount(buckets) < config.limit
        /\ config.dailyLimit > 0 => DailyCount(buckets) < config.dailyLimit
    BY <1>1, <1>4, NoneExceeded
  <2> QED BY <1>4, <1>5, <1>6, <2>1
<1>8. Exceeded(bs) # "none" BY <1>3, <1>7
<1> QED BY <1>8 DEF Increment, bs

\* Which limit a refusal names.
LEMMA ExceededBy ==
  ASSUME NEW bs
  PROVE  \/ Exceeded(bs) = "none"
         \/ Exceeded(bs) = "main" /\ MainCount(bs) >= config.limit
         \/ Exceeded(bs) = "burst" /\ BurstCount(bs) >= config.burst
         \/ Exceeded(bs) = "daily" /\ DailyCount(bs) >= config.dailyLimit
BY DEF Exceeded

\* A bucket starts less than its size before what it contains.
LEMMA FromTheBucket ==
  ASSUME log \in [Times -> Nat], now \in Times, NEW start \in Int
  PROVE  GrantedIn(log, Floor(start), now) <= GrantedIn(log, start - BucketSize + 1, now)
<1>1. BucketSize \in Nat /\ now \in Int BY Numbers
<1>2. Floor(start) \in Int /\ start < Floor(start) + BucketSize BY FloorOf
<1>3. start - BucketSize + 1 \in Int /\ start - BucketSize + 1 <= Floor(start) BY <1>1, <1>2
<1> QED BY <1>1, <1>2, <1>3, GrantedLess

\* Why a request is refused, as DecisionsJustified has it.
Reason(r) ==
  \/ /\ r.exceeded = "main" /\ config.calendarDaily
     /\ Granted(MainWindowStart) >= config.limit
  \/ /\ r.exceeded = "main" /\ ~config.calendarDaily
     /\ Granted(MainWindowStart - BucketSize + 1) >= config.limit
  \/ /\ r.exceeded = "burst"
     /\ Granted(now - config.burstWindow - BucketSize + 1) >= config.burst
  \/ /\ r.exceeded = "daily"
     /\ Granted(now - Day - BucketSize + 1) >= config.dailyLimit

\* What a refusal names was granted, no more than a bucket before the window.
LEMMA RefusalsJustified ==
  ASSUME StoreInv, NEW cost \in Costs, Increment(cost), ~result'.success
  PROVE  Reason(result')
<1> DEFINE bs == AfterCleanup
           by == Exceeded(bs)
<1>1. StoreTyped /\ Recount /\ config \in Configs /\ now \in Times /\ log \in [Times -> Nat]
  BY DEF StoreInv, StoreTyped
<1>2. /\ bs \in [BucketStarts -> Bucket] /\ Dated(bs, now)
      /\ Covered(bs, log, now, MaxWindow) /\ Backed(bs, log, now)
  BY <1>1, CleanupKeeps
<1>3. result'.exceeded = by /\ by # "none" BY DEF Increment
<1> HIDE DEF bs
<1>4. /\ MainCount(bs) \in Nat /\ BurstCount(bs) \in Nat /\ DailyCount(bs) \in Nat
      /\ MainCount(bs) <= GrantedIn(log, Floor(MainWindowStart), now)
      /\ BurstCount(bs) <= GrantedIn(log, Floor(now - config.burstWindow), now)
      /\ DailyCount(bs) <= GrantedIn(log, Floor(now - Day), now)
  BY <1>1, <1>2, Counted
<1>5. /\ MainWindowStart \in Int /\ now - config.burstWindow \in Int /\ now - Day \in Int
      /\ now \in Int
  BY <1>1, Starts
<1>6. /\ config.limit \in Nat /\ config.burst \in Nat /\ config.dailyLimit \in Nat
      /\ \A start, n : GrantedIn(log, start, n) \in Nat
  BY <1>1, Windows, GrantedNat
<1>7. ASSUME NEW start \in Int, NEW count \in Nat, NEW lim \in Nat, count >= lim,
             count <= GrantedIn(log, Floor(start), now)
      PROVE  Granted(start - BucketSize + 1) >= lim
  <2>1. GrantedIn(log, Floor(start), now) <= GrantedIn(log, start - BucketSize + 1, now)
    BY <1>1, FromTheBucket
  <2>2. GrantedIn(log, start - BucketSize + 1, now) >= lim BY <1>6, <1>7, <2>1
  <2> QED BY <2>2, GrantedSame
<1>8. CASE by = "main" /\ MainCount(bs) >= config.limit
  <2>1. CASE config.calendarDaily
    <3>1. Floor(MainWindowStart) = MainWindowStart
      <4>1. MainWindowStart = GetStartOfUtcDay(now) BY <2>1 DEF MainWindowStart
      <4> QED BY <1>5, <4>1, DayOf
    <3>2. GrantedIn(log, MainWindowStart, now) >= config.limit BY <1>4, <1>6, <1>8, <3>1
    <3>3. Granted(MainWindowStart) >= config.limit BY <3>2, GrantedSame
    <3> QED BY <1>3, <1>8, <2>1, <3>3 DEF Reason
  <2>2. CASE ~config.calendarDaily
    <3>1. Granted(MainWindowStart - BucketSize + 1) >= config.limit
      BY <1>4, <1>5, <1>6, <1>7, <1>8
    <3> QED BY <1>3, <1>8, <2>2, <3>1 DEF Reason
  <2> QED BY <2>1, <2>2
<1>9. CASE by = "burst" /\ BurstCount(bs) >= config.burst
  <2>1. Granted(now - config.burstWindow - BucketSize + 1) >= config.burst
    BY <1>4, <1>5, <1>6, <1>7, <1>9
  <2> QED BY <1>3, <1>9, <2>1 DEF Reason
<1>10. CASE by = "daily" /\ DailyCount(bs) >= config.dailyLimit
  <2>1. Granted(now - Day - BucketSize + 1) >= config.dailyLimit
    BY <1>4, <1>5, <1>6, <1>7, <1>10
  <2> QED BY <1>3, <1>10, <2>1 DEF Reason
<1>11. \/ by = "none"
       \/ by = "main" /\ MainCount(bs) >= config.limit
       \/ by = "burst" /\ BurstCount(bs) >= config.burst
       \/ by = "daily" /\ DailyCount(bs) >= config.dailyLimit
  BY ExceededBy
<1> QED BY <1>3, <1>8, <1>9, <1>10, <1>11

\* What increment decides was foretold by isWithinLimits and is justified by what was granted.
THEOREM DecisionsJustifiedHolds == StoreSpec => DecisionsJustified
<1>1. ASSUME StoreInv, NEW cost \in Costs, Increment(cost)
      PROVE  /\ (Remaining(buckets) > 0 /\ config.burst = 0) => result'.success
             /\ (Remaining(buckets) = 0 /\ ~CleanupDue) => ~result'.success
             /\ ~result'.success => Reason(result')
  BY <1>1, LeftIsGranted, NothingLeft, RefusalsJustified
<1>2. StoreInv /\ [StoreNext]_storeVars =>
        [\A cost \in Costs : Increment(cost) =>
           /\ (Remaining(buckets) > 0 /\ config.burst = 0) => result'.success
           /\ (Remaining(buckets) = 0 /\ ~CleanupDue) => ~result'.success
           /\ ~result'.success =>
                \/ /\ result'.exceeded = "main" /\ config.calendarDaily
                   /\ Granted(MainWindowStart) >= config.limit
                \/ /\ result'.exceeded = "main" /\ ~config.calendarDaily
                   /\ Granted(MainWindowStart - BucketSize + 1) >= config.limit
                \/ /\ result'.exceeded = "burst"
                   /\ Granted(now - config.burstWindow - BucketSize + 1) >= config.burst
                \/ /\ result'.exceeded = "daily"
                   /\ Granted(now - Day - BucketSize + 1) >= config.dailyLimit]_storeVars
  BY <1>1 DEF Reason
<1> QED BY <1>2, StoreInvariance, PTL DEF StoreSpec, DecisionsJustified
=============================================================================
