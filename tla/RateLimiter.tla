---------------------------- MODULE RateLimiter ----------------------------
(***************************************************************************)
(* The per-IP rate limiter (ratelimit/limiter.go): buckets made on first   *)
(* sight, kept in a map under a mutex, and evicted by a janitor once idle. *)
(* Allow and sweep hold the mutex throughout, so each is one step.         *)
(*                                                                         *)
(* Time is a discrete clock.  Instead of time stamps the state keeps ages, *)
(* counted up to a cap beyond which they make no difference: idle[ip] is   *)
(* now - lastSeen, and lag is the age of the tick the janitor is about to  *)
(* sweep with.                                                             *)
(***************************************************************************)
EXTENDS Integers

CONSTANTS
    IPs,        \* client addresses
    Burst,      \* bucket size, in requests
    Cost,       \* units of a bucket one request costs
    Refill,     \* units that come back per tick
    TTL,        \* ticks an idle bucket is kept
    MaxLag      \* bound: ticks the janitor may be late

ASSUME BurstAssumption == Burst \in Nat
ASSUME CostAssumption == Cost \in Nat \ {0}
ASSUME RefillAssumption == Refill \in Nat
ASSUME TTLAssumption == TTL \in Nat \ {0}
ASSUME MaxLagAssumption == MaxLag \in Nat

Capacity == Burst * Cost

\* A bucket is kept at least as long as it takes to refill.  The configuration
\* does not check this; its defaults (1/s, burst 3, ten minutes) satisfy it.
KeptUntilFull == TTL * Refill >= Capacity

VARIABLES
    known,      \* the keys of the map
    level,      \* level[ip]: units Allow would find in the bucket of ip
    idle,       \* idle[ip]: time since lastSeen, up to IdleCap
    due,        \* the janitor's ticker has left a tick in its channel
    lag         \* the age of that tick

limiterVars == <<known, level, idle, due, lag>>

IdleCap == TTL + MaxLag
Capped(n, cap) == IF n > cap THEN cap ELSE n

LimiterInit ==
    /\ known = {}
    /\ level = [ip \in IPs |-> Capacity]
    /\ idle = [ip \in IPs |-> 0]
    /\ due = FALSE
    /\ lag = 0

\* AllowN on the bucket of ip, new and full if ip is not known.
Granted(ip) == level[ip] >= Cost

\* broken variant: lastSeen is only set when the bucket is made.
AllowUnseen(ip) ==
    /\ known' = known \union {ip}
    /\ level' = [level EXCEPT ![ip] = IF Granted(ip) THEN @ - Cost ELSE @]
    /\ idle' = [idle EXCEPT ![ip] = IF ip \in known THEN @ ELSE 0]
    /\ UNCHANGED <<due, lag>>

\* A denied request takes nothing (golang.org/x/time/rate); lastSeen is
\* refreshed whether or not the request is allowed.
Allow(ip) ==
    /\ known' = known \union {ip}
    /\ level' = [level EXCEPT ![ip] = IF Granted(ip) THEN @ - Cost ELSE @]
    /\ idle' = [idle EXCEPT ![ip] = 0]
    /\ UNCHANGED <<due, lag>>

\* The clock advances and the buckets refill.
Advance ==
    /\ due => lag < MaxLag
    /\ level' = [ip \in IPs |-> Capped(level[ip] + Refill, Capacity)]
    /\ idle' = [ip \in IPs |-> Capped(idle[ip] + 1, IdleCap)]
    /\ lag' = IF due THEN lag + 1 ELSE 0
    /\ UNCHANGED <<known, due>>

\* The ticker leaves the time in its channel; the janitor may come to it late.
TickerFires ==
    /\ ~due
    /\ due' = TRUE
    /\ UNCHANGED <<known, level, idle, lag>>

\* Idle for TTL at the time the tick carries.
Unexpired(ip) == idle[ip] - lag < TTL   \* broken variant
Expired(ip) == idle[ip] - lag >= TTL

\* An evicted address finds a new, full bucket next time.
Sweep ==
    /\ due
    /\ known' = {ip \in known : ~Expired(ip)}
    /\ level' = [ip \in IPs |->
                    IF ip \in known /\ Expired(ip) THEN Capacity ELSE level[ip]]
    /\ due' = FALSE
    /\ lag' = 0
    /\ UNCHANGED idle

LimiterNext ==
    \/ \E ip \in IPs : Allow(ip)
    \/ Advance
    \/ TickerFires
    \/ Sweep

LimiterSpec == LimiterInit /\ [][LimiterNext]_limiterVars

\* The clock and the janitor's goroutine go on; nobody needs to send requests.
LimiterFairSpec ==
    LimiterSpec /\ WF_limiterVars(Advance) /\ WF_limiterVars(TickerFires)
                /\ WF_limiterVars(Sweep)

-----------------------------------------------------------------------------
(***************************************************************************)
(* Properties.                                                             *)
(***************************************************************************)
LimiterTypeOK ==
    /\ known \subseteq IPs
    /\ level \in [IPs -> 0..Capacity]
    /\ idle \in [IPs -> 0..IdleCap]
    /\ due \in BOOLEAN
    /\ lag \in 0..MaxLag

\* Why eviction is invisible: a bucket that has been idle for a while has
\* refilled for as long, and one the map does not hold is full.
RefilledWhileIdle ==
    \A ip \in IPs :
        /\ ip \notin known => level[ip] = Capacity
        /\ level[ip] >= Capped(idle[ip] * Refill, Capacity)

\* Evicting idle buckets gives no client more than its token bucket allows:
\* the limiter with its janitor is the limiter without it.
Bucket == INSTANCE TokenBucket
EvictionIsInvisible == Bucket!Spec

\* An address that stays away is forgotten, so the map does not keep growing.
IdleIsForgotten ==
    \A ip \in IPs :
        ip \in known /\ idle[ip] >= TTL ~> ip \notin known \/ idle[ip] = 0
=============================================================================
