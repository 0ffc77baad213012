---------------------------- MODULE RateLimitStore ----------------------------
(***************************************************************************)
(* DORateLimitStore: the Durable Object that counts the requests of one    *)
(* key in buckets of time and refuses those that exceed a sliding, a burst *)
(* or a daily limit.  Storage operations hold other requests back, so each *)
(* method is one step; what is hard is the arithmetic of windows, buckets  *)
(* and cleanup as time goes by.                                            *)
(***************************************************************************)
EXTENDS Integers, FiniteSets, FiniteSetsExt, Functions

CONSTANTS
  Configs,        \* the RateLimitConfigs tried; one is used for the key
  Costs,          \* the values of incrementBy (credit costs of the models)
  BucketSize,     \* width of a bucket
  Day,            \* 24 hours
  CleanupPeriod,  \* five minutes
  MaxNow          \* bound: the clock runs from 0 to MaxNow

\* burst and dailyLimit are 0 when the config has none.
ConfigType ==
  [limit : Nat \ {0}, period : Nat \ {0}, burst : Nat, burstWindow : Nat \ {0},
   dailyLimit : Nat, calendarDaily : BOOLEAN]

\* Buckets start at multiples of BucketSize, and so do days (10 s by default).
\* The period of a config that counts by calendar day is a day (llmCalls): with
\* a shorter one the cleanup would take what the day still counts.
ASSUME StoreAssumption ==
  /\ Configs \subseteq ConfigType
  /\ \A c \in Configs : c.calendarDaily => c.period >= Day
  /\ Costs \subseteq Nat \ {0} /\ IsFiniteSet(Costs) /\ Costs # {}
  /\ {BucketSize, Day} \subseteq Nat \ {0} /\ Day % BucketSize = 0
  /\ {CleanupPeriod, MaxNow} \subseteq Nat

VARIABLES
  config,       \* the config of the key
  now,          \* Date.now()
  buckets,      \* state.buckets: count (0: no bucket) and time of the last request
  lastCleanup,  \* state.lastCleanup
  persisted,    \* something was put into storage
  result,       \* the last RateLimitResult, with the time it was given
  log           \* history: what was granted at each time since the last reset

storeVars == <<config, now, buckets, lastCleanup, persisted, result, log>>

Times        == 0 .. MaxNow
BucketStarts == {t \in Times : t % BucketSize = 0}
MaxCost      == Max(Costs)
NoBucket     == [count |-> 0, timestamp |-> 0]
NoResult     == [success |-> TRUE, exceeded |-> "none", remaining |-> 0, at |-> -1]

\* A result says how much is left of the limits, never more than a limit and
\* never less than nothing.
StoreTypeOK ==
  /\ config \in Configs /\ now \in Times
  /\ DOMAIN buckets = BucketStarts
  /\ \A b \in BucketStarts : buckets[b].count \in Nat /\ buckets[b].timestamp \in Times
  /\ lastCleanup \in Times /\ persisted \in BOOLEAN
  /\ result.success \in BOOLEAN
  /\ result.exceeded \in {"none", "main", "burst", "daily"}
  /\ result.remaining \in 0 .. config.limit /\ result.at \in Times \union {-1}
  /\ DOMAIN log = Times /\ \A t \in Times : log[t] \in Nat

StoreInit ==
  /\ config \in Configs
  /\ now = 0 /\ lastCleanup = 0 /\ persisted = FALSE
  /\ buckets = [b \in BucketStarts |-> NoBucket]
  /\ result = NoResult
  /\ log = [t \in Times |-> 0]

-----------------------------------------------------------------------------
Sum(f, S) == FoldFunctionOnSet(+, 0, f, S)

Floor(t) == (t \div BucketSize) * BucketSize

GetStartOfUtcDay(t) == (t \div Day) * Day

\* From the bucket that contains start to that of now.
GetBucketsInRange(start) ==
  {b \in BucketStarts : Floor(start) <= b /\ b <= now}

CountSince(bs, start) ==
  Sum([b \in BucketStarts |-> bs[b].count], GetBucketsInRange(start))

MainWindowStart ==
  IF config.calendarDaily THEN GetStartOfUtcDay(now) ELSE now - config.period

MainCount(bs)  == CountSince(bs, MainWindowStart)
BurstCount(bs) == CountSince(bs, now - config.burstWindow)
DailyCount(bs) == CountSince(bs, now - Day)

\* Mutant: the daily window is forgotten.
MaxWindowMutant == Max({config.period, config.burstWindow})

\* The longest window in use; buckets older than it are deleted.
MaxWindow ==
  Max({config.period, config.burstWindow, IF config.dailyLimit > 0 THEN Day ELSE 0})

Expired == {b \in BucketStarts : /\ buckets[b].count > 0
                                 /\ buckets[b].timestamp < now - MaxWindow}

CleanupDue == now - lastCleanup > CleanupPeriod

\* The buckets that are left after the cleanup, if one is due.
AfterCleanup ==
  [b \in BucketStarts |->
     IF CleanupDue /\ b \in Expired THEN NoBucket ELSE buckets[b]]

\* What main and daily limit leave.  The burst limit is not looked at.
Remaining(bs) ==
  Max({0, Min({config.limit - MainCount(bs)} \union
              IF config.dailyLimit > 0
              THEN {config.dailyLimit - DailyCount(bs)} ELSE {})})

\* The first limit that is reached, in the order of the code.
Exceeded(bs) ==
  IF MainCount(bs) >= config.limit THEN "main"
  ELSE IF config.burst > 0 /\ BurstCount(bs) >= config.burst THEN "burst"
  ELSE IF config.dailyLimit > 0 /\ DailyCount(bs) >= config.dailyLimit THEN "daily"
  ELSE "none"

Recorded(bs, cost) ==
  [bs EXCEPT ![Floor(now)] = [count |-> @.count + cost, timestamp |-> now]]

\* Mutant: not clamped.
ResultLimitMutant(bs, cost) == config.limit - MainCount(bs) - cost

\* remainingLimit of a granted request, from the counts before it.
ResultLimit(bs, cost) ==
  Max({0, Min({config.limit - MainCount(bs) - cost} \union
              IF config.dailyLimit > 0
              THEN {config.dailyLimit - DailyCount(bs) - cost} ELSE {})})

\* Mutant: a request that is refused counts too.
IncrementMutant(cost) ==
  LET bs == AfterCleanup  by == Exceeded(bs) IN
    /\ lastCleanup' = IF CleanupDue /\ Expired # {} THEN now ELSE lastCleanup
    /\ buckets' = Recorded(bs, cost)
    /\ log' = IF by = "none" THEN [log EXCEPT ![now] = @ + cost] ELSE log
    /\ persisted' = TRUE
    /\ result' = [success |-> by = "none", exceeded |-> by, at |-> now,
                  remaining |-> IF by = "none" THEN ResultLimit(bs, cost) ELSE 0]
    /\ UNCHANGED <<config, now>>

\* increment: clean up, count, and record the request unless a limit is reached.
Increment(cost) ==
  LET bs == AfterCleanup  by == Exceeded(bs) IN
    /\ lastCleanup' = IF CleanupDue /\ Expired # {} THEN now ELSE lastCleanup
    /\ \/ /\ by = "none"
          /\ buckets' = Recorded(bs, cost)
          /\ log' = [log EXCEPT ![now] = @ + cost]
          /\ persisted' = TRUE
          /\ result' = [success |-> TRUE, exceeded |-> "none", at |-> now,
                        remaining |-> ResultLimit(bs, cost)]
       \/ /\ by # "none"
          /\ buckets' = bs
          /\ persisted' = (persisted \/ bs # buckets)
          /\ result' = [success |-> FALSE, exceeded |-> by, at |-> now,
                        remaining |-> 0]
          /\ UNCHANGED log
    /\ UNCHANGED <<config, now>>

ResetLimit ==
  /\ buckets' = [b \in BucketStarts |-> NoBucket]
  /\ persisted' = TRUE
  /\ log' = [t \in Times |-> 0]
  /\ result' = NoResult
  /\ UNCHANGED <<config, now, lastCleanup>>

\* The object is evicted and comes back with what it has stored.
Restart ==
  /\ lastCleanup' = IF persisted THEN lastCleanup ELSE now
  /\ UNCHANGED <<config, now, buckets, persisted, result, log>>

Tick ==
  /\ now < MaxNow
  /\ now' = now + 1
  /\ UNCHANGED <<config, buckets, lastCleanup, persisted, result, log>>

StoreNext ==
  \/ \E cost \in Costs : Increment(cost)
  \/ ResetLimit \/ Restart \/ Tick

StoreSpec == StoreInit /\ [][StoreNext]_storeVars
-----------------------------------------------------------------------------
(* Properties.                                                             *)

\* What was really granted in [start, now].
Granted(start) == Sum(log, {t \in Times : start <= t /\ t <= now})

\* "sliding window", "max requests in a rolling 24h window", "resets at
\* midnight UTC": within the last period, burst window, day or calendar day
\* less than the limit was granted before the request that reached it, so a
\* limit is exceeded by less than the cost of one request; whatever the
\* buckets' boundaries and the cleanups.
WindowLimits ==
  /\ Granted(MainWindowStart) < config.limit + MaxCost
  /\ config.burst > 0 => Granted(now - config.burstWindow) < config.burst + MaxCost
  /\ config.dailyLimit > 0 => Granted(now - Day) < config.dailyLimit + MaxCost

\* What increment decides is justified by what was granted and foretold by the
\* pre-flight check (isWithinLimits).  A request is refused only when the limit
\* was granted in the window or less than a bucket before it, and in a calendar
\* day only for that day's requests; when something is left it is granted, unless
\* there is a burst limit; when nothing is left it is refused, unless the request
\* itself makes a cleanup due.
DecisionsJustified ==
  [][\A cost \in Costs : Increment(cost) =>
       /\ (Remaining(buckets) > 0 /\ config.burst = 0) => result'.success
       /\ (Remaining(buckets) = 0 /\ ~CleanupDue) => ~result'.success
       /\ ~result'.success =>
            \/ /\ result'.exceeded = "main" /\ config.calendarDaily
               /\ Granted(MainWindowStart) >= config.limit
            \/ /\ result'.exceeded = "main" /\ ~config.calendarDaily
               /\ Granted(MainWindowStart - BucketSize + 1) >= config.limit
            \/ /\ result'.exceeded = "burst"
               /\ Granted(now - config.burstWindow - BucketSize + 1) >= config.burst
            \/ /\ result'.exceeded = "daily"
               /\ Granted(now - Day - BucketSize + 1) >= config.dailyLimit]_storeVars
=============================================================================
