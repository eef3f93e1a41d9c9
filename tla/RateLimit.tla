----------------------------- MODULE RateLimit -----------------------------
(***************************************************************************)
(* middleware/rateLimit.ts: the requests of one client (one bucket key) to *)
(* one limiter, in memory or with the counter in Redis.                    *)
(***************************************************************************)
EXTENDS Naturals

CONSTANTS
  Requests,         \* requests under way; a finished one is used again
  MaxRequests,      \* maxRequests of the limiter
  Window            \* windowMs, in ticks

ASSUME RateLimitAssumption == MaxRequests \in Nat /\ Window \in Nat \ {0}

VARIABLES
  shared,           \* the limiter has a Redis client
  faults,           \* commands to Redis may fail
  failClosed,
  count,            \* the bucket's count; INCR's value; capped one past MaxRequests
  left,             \* ticks until resetAt, or the key's time to live, if any
  check             \* where each request is

limitVars == <<shared, faults, failClosed, count, left, check>>

LimitTypeOK ==
  /\ shared \in BOOLEAN /\ faults \in BOOLEAN /\ failClosed \in BOOLEAN
  /\ count \in 0..(MaxRequests + 1)
  /\ left \in 0..Window
  /\ check \in [Requests -> {"none", "first", "passed", "limited", "unavailable"}]

LimitInit ==
  /\ shared \in BOOLEAN /\ faults \in BOOLEAN /\ failClosed \in BOOLEAN
  /\ faults => shared
  /\ count = 0 /\ left = 0
  /\ check = [r \in Requests |-> "none"]

-----------------------------------------------------------------------------
Free(r) == check[r] # "first"
Counted == IF count > MaxRequests THEN count ELSE count + 1
Verdict(n) == IF n > MaxRequests THEN "limited" ELSE "passed"

(* Seeded fault: every request starts the window anew                      *)
CheckMemorySliding(r) ==
  /\ ~shared
  /\ count' = IF left = 0 THEN 1 ELSE Counted
  /\ left' = Window
  /\ check' = [check EXCEPT ![r] = Verdict(count')]
  /\ UNCHANGED <<shared, faults, failClosed>>

(* checkMemory: a fixed window from the first request on.                  *)
CheckMemory(r) ==
  /\ ~shared
  /\ count' = IF left = 0 THEN 1 ELSE Counted
  /\ left' = IF left = 0 THEN Window ELSE left
  /\ check' = [check EXCEPT ![r] = Verdict(count')]
  /\ UNCHANGED <<shared, faults, failClosed>>

(* INCR; the first request of a window goes on to PEXPIRE.                 *)
Incr(r) ==
  /\ shared /\ Free(r)
  /\ count' = Counted
  /\ check' = [check EXCEPT ![r] = IF count' = 1 THEN "first" ELSE Verdict(count')]
  /\ UNCHANGED <<shared, faults, failClosed, left>>

PExpire(r) ==
  /\ check[r] = "first"
  /\ left' = IF count = 0 THEN left ELSE Window
  /\ check' = [check EXCEPT ![r] = Verdict(1)]
  /\ UNCHANGED <<shared, faults, failClosed, count>>

(* A command fails, carried out or not: the route decides whether that     *)
(* lets the request pass.                                                  *)
RedisCommandFails(r) ==
  /\ shared /\ faults
  /\ IF Free(r) THEN count' \in {count, Counted} /\ UNCHANGED left
     ELSE left' \in (IF count = 0 THEN {left} ELSE {left, Window}) /\ UNCHANGED count
  /\ check' = [check EXCEPT ![r] = IF failClosed THEN "unavailable" ELSE "passed"]
  /\ UNCHANGED <<shared, faults, failClosed>>

(* The key expires, or the bucket is past its resetAt, which the next      *)
(* request or the sweep notices.                                           *)
LimitTick ==
  /\ left > 0
  /\ left' = left - 1
  /\ count' = IF left = 1 THEN 0 ELSE count
  /\ UNCHANGED <<shared, faults, failClosed, check>>

LimitNext ==
  \/ \E r \in Requests : CheckMemory(r) \/ Incr(r) \/ PExpire(r) \/ RedisCommandFails(r)
  \/ LimitTick

LimitFairness ==
  WF_limitVars(LimitTick) /\ \A r \in Requests : WF_limitVars(PExpire(r))

LimitSpec == LimitInit /\ [][LimitNext]_limitVars /\ LimitFairness

-----------------------------------------------------------------------------
(* A client is not limited for ever, however it hammers the server, as     *)
(* long as Redis carries out what it is told.                              *)
LimitLifts == ~faults => []<>(count < MaxRequests)

(* "Fails open on Redis errors" (rateLimit.ts:6): also after errors.       *)
LimitLiftsAfterErrors == []<>(count < MaxRequests)
=============================================================================
