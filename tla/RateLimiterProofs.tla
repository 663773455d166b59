------------------------- MODULE RateLimiterProofs -------------------------
(***************************************************************************)
(* Proofs about RateLimiter, for every set of addresses, bucket, refill    *)
(* rate, TTL and delay of the janitor.                                     *)
(*                                                                         *)
(* RefilledWhileIdle is the inductive invariant: with LimiterTypeOK it is  *)
(* kept by every step, and with KeptUntilFull it makes the bucket of an    *)
(* evicted address full, so that forgetting it changes nothing.            *)
(***************************************************************************)
EXTENDS RateLimiter, TLAPS

\* The sizes and ages New and the configuration give are natural numbers.
LEMMA ConstantTypes ==
    /\ Capacity \in Nat
    /\ Cost \in Nat /\ Cost > 0
    /\ Refill \in Nat
    /\ TTL \in Nat /\ TTL > 0
    /\ MaxLag \in Nat
    /\ IdleCap \in Nat /\ IdleCap = TTL + MaxLag
BY BurstAssumption, CostAssumption, RefillAssumption, TTLAssumption, MaxLagAssumption
DEF Capacity, IdleCap

\* A capped number is within its cap.
LEMMA CappedType ==
    ASSUME NEW n \in Nat, NEW cap \in Nat
    PROVE  /\ Capped(n, cap) \in 0..cap
           /\ Capped(n, cap) <= n
BY DEF Capped

\* Refilling keeps up with ageing.
LEMMA RefillKeepsUp ==
    ASSUME NEW n \in 0..Capacity, NEW i \in 0..IdleCap,
           n >= Capped(i * Refill, Capacity)
    PROVE  Capped(n + Refill, Capacity) >= Capped(Capped(i + 1, IdleCap) * Refill, Capacity)
<1> DEFINE j == Capped(i + 1, IdleCap)
<1>1. j \in Nat /\ j <= i + 1
  BY ConstantTypes DEF Capped
<1>2. i * Refill \in Nat /\ j * Refill \in Nat
  BY <1>1, ConstantTypes
<1>3. j * Refill <= i * Refill + Refill
  <2>1. j = i \/ j = i + 1
    BY ConstantTypes DEF Capped
  <2>2. (i + 1) * Refill = i * Refill + Refill
    BY ConstantTypes
  <2> QED
    BY <2>1, <2>2, <1>2, ConstantTypes
<1> HIDE DEF j
<1> QED
  BY <1>2, <1>3, ConstantTypes DEF Capped, j

\* A bucket idle for TTL or longer is full.
LEMMA ExpiredIsFull ==
    ASSUME KeptUntilFull, LimiterTypeOK, RefilledWhileIdle,
           NEW ip \in IPs, Expired(ip)
    PROVE  level[ip] = Capacity
<1>1. idle[ip] \in Nat /\ idle[ip] >= TTL
  BY ConstantTypes DEF Expired, LimiterTypeOK
<1>2. idle[ip] * Refill >= TTL * Refill /\ TTL * Refill \in Nat /\ idle[ip] * Refill \in Nat
  <2>1. PICK k \in Nat : idle[ip] = TTL + k
    <3>1. idle[ip] - TTL \in Nat /\ idle[ip] = TTL + (idle[ip] - TTL)
      BY <1>1, ConstantTypes
    <3> QED
      BY <3>1
  <2>2. (TTL + k) * Refill = TTL * Refill + k * Refill
    BY ConstantTypes
  <2>3. k * Refill \in Nat /\ TTL * Refill \in Nat
    BY ConstantTypes
  <2> QED
    BY <2>1, <2>2, <2>3
<1>3. Capped(idle[ip] * Refill, Capacity) = Capacity
  BY <1>2, ConstantTypes DEF KeptUntilFull, Capped
<1> QED
  BY <1>3, ConstantTypes DEF LimiterTypeOK, RefilledWhileIdle

IInv == LimiterTypeOK /\ RefilledWhileIdle

\* A new limiter knows nobody, and every bucket is full.
LEMMA InitInv == LimiterInit => IInv
<1> SUFFICES ASSUME LimiterInit PROVE IInv
  OBVIOUS
<1>1. Capacity \in 0..Capacity /\ 0 \in 0..IdleCap /\ 0 \in 0..MaxLag
  BY ConstantTypes
<1>2. LimiterTypeOK
  BY <1>1 DEF LimiterInit, LimiterTypeOK
<1>3. 0 * Refill = 0 /\ Capped(0, Capacity) = 0
  BY ConstantTypes DEF Capped
<1>4. RefilledWhileIdle
  <2>1. \A ip \in IPs : level[ip] = Capacity /\ idle[ip] = 0
    BY DEF LimiterInit
  <2>2. Capacity >= Capped(0 * Refill, Capacity)
    BY <1>3, ConstantTypes
  <2> QED
    BY <2>1, <2>2 DEF RefilledWhileIdle
<1> QED
  BY <1>2, <1>4 DEF IInv

\* Allow, the clock, the ticker and sweep keep the invariant.
LEMMA StepInv ==
    ASSUME KeptUntilFull, IInv, [LimiterNext]_limiterVars
    PROVE  IInv'
<1> USE DEF IInv
<1>1. ASSUME NEW ip \in IPs, Allow(ip) PROVE IInv'
  <2>1. LimiterTypeOK'
    BY <1>1, ConstantTypes DEF Allow, Granted, LimiterTypeOK
  <2>2. 0 * Refill = 0 /\ Capped(0, Capacity) = 0
    BY ConstantTypes DEF Capped
  <2>3. RefilledWhileIdle'
    BY <1>1, <2>1, <2>2 DEF Allow, RefilledWhileIdle, LimiterTypeOK
  <2> QED
    BY <2>1, <2>3
<1>2. ASSUME Advance PROVE IInv'
  <2>1. LimiterTypeOK'
    <3>1. \A ip \in IPs : level'[ip] \in 0..Capacity /\ idle'[ip] \in 0..IdleCap
      BY <1>2, ConstantTypes DEF Advance, LimiterTypeOK, Capped
    <3>2. lag' \in 0..MaxLag
      BY <1>2, ConstantTypes DEF Advance, LimiterTypeOK
    <3> QED
      BY <1>2, <3>1, <3>2 DEF Advance, LimiterTypeOK
  <2>2. ASSUME NEW ip \in IPs, ip \notin known' PROVE level'[ip] = Capacity
    BY <1>2, <2>2, ConstantTypes DEF Advance, LimiterTypeOK, RefilledWhileIdle, Capped
  <2>3. ASSUME NEW ip \in IPs PROVE level'[ip] >= Capped(idle'[ip] * Refill, Capacity)
    <3>1. level[ip] \in 0..Capacity /\ idle[ip] \in 0..IdleCap
      BY DEF LimiterTypeOK
    <3>2. level[ip] >= Capped(idle[ip] * Refill, Capacity)
      BY DEF RefilledWhileIdle
    <3> QED
      BY <1>2, <3>1, <3>2, RefillKeepsUp DEF Advance
  <2>4. RefilledWhileIdle'
    BY <2>2, <2>3 DEF RefilledWhileIdle
  <2> QED
    BY <2>1, <2>4
<1>3. ASSUME TickerFires PROVE IInv'
  BY <1>3 DEF TickerFires, LimiterTypeOK, RefilledWhileIdle
<1>4. ASSUME Sweep PROVE IInv'
  <2>1. UNCHANGED level
    BY <1>4, ExpiredIsFull DEF Sweep, LimiterTypeOK
  <2>2. LimiterTypeOK'
    <3>1. 0 \in 0..MaxLag
      BY ConstantTypes
    <3>2. known' \subseteq known
      BY <1>4 DEF Sweep
    <3> QED
      BY <1>4, <2>1, <3>1, <3>2 DEF Sweep, LimiterTypeOK
  <2>3. RefilledWhileIdle'
    BY <1>4, <2>1, ExpiredIsFull DEF Sweep, RefilledWhileIdle
  <2> QED
    BY <2>2, <2>3
<1>5. CASE UNCHANGED limiterVars
  BY <1>5 DEF limiterVars, LimiterTypeOK, RefilledWhileIdle
<1> QED
  BY <1>1, <1>2, <1>3, <1>4, <1>5 DEF LimiterNext

\* Every bucket has refilled for as long as it has been idle, and an address
\* the map does not hold is owed a full bucket anyway.
THEOREM RefilledAlways ==
    ASSUME KeptUntilFull
    PROVE  LimiterSpec => [](LimiterTypeOK /\ RefilledWhileIdle)
<1>1. IInv /\ [LimiterNext]_limiterVars => IInv'
  BY StepInv
<1> QED
  BY InitInv, <1>1, PTL DEF LimiterSpec, IInv

\* The map with its janitor implements token buckets that are never forgotten.
THEOREM EvictionIsSafe ==
    ASSUME KeptUntilFull
    PROVE  LimiterSpec => EvictionIsInvisible
<1>1. LimiterInit => Bucket!Init
  BY DEF LimiterInit, Bucket!Init, Capacity, Bucket!Capacity
<1>2. IInv /\ [LimiterNext]_limiterVars => [Bucket!Next]_level
  <2> SUFFICES ASSUME IInv, [LimiterNext]_limiterVars PROVE [Bucket!Next]_level
    OBVIOUS
  <2>1. ASSUME NEW ip \in IPs, Allow(ip) PROVE [Bucket!Next]_level
    BY <2>1 DEF Allow, Granted, IInv, LimiterTypeOK, Bucket!Next, Bucket!Take
  <2>2. ASSUME Advance PROVE [Bucket!Next]_level
    BY <2>2 DEF Advance, Capped, Capacity, Bucket!Next, Bucket!Tick, Bucket!Refilled,
                Bucket!Capacity
  <2>3. ASSUME Sweep PROVE UNCHANGED level
    BY <2>3, ExpiredIsFull DEF Sweep, IInv, LimiterTypeOK
  <2>4. ASSUME TickerFires PROVE UNCHANGED level
    BY <2>4 DEF TickerFires
  <2> QED
    BY <2>1, <2>2, <2>3, <2>4 DEF LimiterNext, limiterVars
<1>3. LimiterSpec => []IInv
  BY RefilledAlways DEF IInv
<1> QED
  BY <1>1, <1>2, <1>3, PTL DEF LimiterSpec, EvictionIsInvisible, Bucket!Spec
=============================================================================
