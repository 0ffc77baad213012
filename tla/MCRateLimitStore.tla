--------------------------- MODULE MCRateLimitStore ---------------------------
(***************************************************************************)
(* Instances of RateLimitStore for TLC: a sliding window with bursts, one  *)
(* with a daily limit (app creation), and a calendar day (LLM calls).      *)
(***************************************************************************)
EXTENDS RateLimitStore

Sliding  == [limit |-> 3, period |-> 5, burst |-> 2, burstWindow |-> 3,
             dailyLimit |-> 0, calendarDaily |-> FALSE]
Daily    == [limit |-> 2, period |-> 3, burst |-> 0, burstWindow |-> 2,
             dailyLimit |-> 3, calendarDaily |-> FALSE]
Calendar == [limit |-> 3, period |-> 4, burst |-> 0, burstWindow |-> 2,
             dailyLimit |-> 0, calendarDaily |-> TRUE]

MCConfigs == {Sliding, Daily, Calendar}
=============================================================================
