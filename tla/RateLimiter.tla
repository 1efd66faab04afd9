---------------------------- MODULE RateLimiter -----------------------------
(***************************************************************************)
(* The token buckets of auth/rate_limiter.cpp.  Each handler of            *)
(* auth/auth_handler.cpp that is limited draws one token from a limiter of *)
(* its own before it does anything else.                                   *)
(*                                                                         *)
(* A limit of Burst per Interval seconds keeps its balance in units of     *)
(* 1/Interval token: a full bucket holds Burst * Interval, a second adds   *)
(* Burst and a request costs Interval.  The doubles of the code are these  *)
(* fractions.                                                              *)
(***************************************************************************)
EXTENDS Integers, Functions

CONSTANTS BucketKeys,          \* addresses, account names or mail addresses
          Burst, Interval,     \* RateLimit::per(Burst, Interval)
          BucketTtl,           \* seconds after which an idle bucket is swept
          MaxLimitTime         \* bound: seconds

Full == Burst * Interval

ASSUME LimitAssumption == /\ {Burst, Interval} \subseteq Nat \ {0}
                          /\ {BucketTtl, MaxLimitTime} \subseteq Nat
                          /\ Interval <= BucketTtl

VARIABLES limitClock,
          buckets,    \* key -> [tokens, last_touched]
          allowedBy   \* history: requests each key was allowed by the end of each second

limitVars == <<limitClock, buckets, allowedBy>>

LimitInit == /\ limitClock = 0 /\ buckets = << >>
             /\ allowedBy = [k \in BucketKeys |-> [t \in 0..MaxLimitTime |-> 0]]

-----------------------------------------------------------------------------
StaleMutant(b) == limitClock # b.last_touched
Stale(b) == limitClock - b.last_touched > BucketTtl
Swept == {k \in DOMAIN buckets : ~Stale(buckets[k])}

Refill(b) ==
    LET refilled == b.tokens + (limitClock - b.last_touched) * Burst
    IN  [tokens |-> IF refilled <= Full THEN refilled ELSE Full, last_touched |-> limitClock]

(* try_take: sweep, find or make the bucket, refill it, then allow and     *)
(* charge, or refuse and leave the balance.                                *)
TryTake(k) ==
    LET found == IF k \in Swept THEN Refill(buckets[k])
                 ELSE [tokens |-> Full, last_touched |-> limitClock]
        allowed == found.tokens >= Interval
    IN /\ buckets' = [i \in Swept \cup {k} |->
                        IF i # k THEN buckets[i]
                        ELSE [found EXCEPT !.tokens = IF allowed THEN @ - Interval ELSE @]]
       /\ allowedBy' = [allowedBy EXCEPT ![k] =
             [t \in 0..MaxLimitTime |-> IF allowed /\ t >= limitClock THEN @[t] + 1 ELSE @[t]]]
       /\ UNCHANGED limitClock

(* current_tokens refills the bucket it looks at. *)
CurrentTokens(k) ==
    /\ k \in DOMAIN buckets
    /\ buckets' = [buckets EXCEPT ![k] = Refill(@)]
    /\ UNCHANGED <<limitClock, allowedBy>>

SweepBuckets ==
    /\ buckets' = Restrict(buckets, Swept)
    /\ UNCHANGED <<limitClock, allowedBy>>

LimitSecondPasses == /\ limitClock < MaxLimitTime /\ limitClock' = limitClock + 1
                     /\ UNCHANGED <<buckets, allowedBy>>

LimitNext == \/ LimitSecondPasses \/ SweepBuckets
             \/ \E k \in BucketKeys : TryTake(k) \/ CurrentTokens(k)

LimitSpec == LimitInit /\ [][LimitNext]_limitVars

-----------------------------------------------------------------------------
(* Requests the key was allowed before second a. *)
AllowedBefore(k, a) == IF a = 0 THEN 0 ELSE allowedBy[k][a - 1]

(* In no stretch of time is a key allowed more than its burst plus what    *)
(* the stretch refills, whatever is swept, peeked at or refused meanwhile: *)
(* a bucket is dropped only when it would be full again.                   *)
RateRespected ==
    \A k \in BucketKeys : \A b \in 0..limitClock : \A a \in 0..b :
        Interval * (allowedBy[k][b] - AllowedBefore(k, a)) <= Full + Burst * (b - a)

=============================================================================
