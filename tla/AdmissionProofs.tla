-------------------------- MODULE AdmissionProofs --------------------------
(***************************************************************************)
(* The three promises of the middleware, for any number of requests,       *)
(* clients, slots and days: no slot is lost or given back twice            *)
(* (SlotsAreHeld), no client exceeds its quota (QuotaIsKept), and a flood  *)
(* costs no writes (FloodsCostNoWrites).                                   *)
(***************************************************************************)
EXTENDS Admission, FiniteSetTheorems, TLAPS

-----------------------------------------------------------------------------
(***************************************************************************)
(* The inductive invariant.                                                *)
(***************************************************************************)
Places == {"absent", "limited", "counted", "handed", "debating", "gone"}

AdmissionTypeOK ==
    /\ server \in {"up", "draining", "down"}
    /\ today \in 1..Days
    /\ pc \in [Requests -> Places]
    /\ DOMAIN status = Requests
    /\ from \in [Requests -> IPs \union {NoAddr}]
    /\ addr \in [Requests -> IPs \union {NoAddr}]
    /\ day \in [Requests -> 0..Days]
    /\ count \in [1..Days -> [IPs -> Nat]]
    /\ sem \in Int

\* A request under way has no status yet, is known by the address of the
\* client that made it and belongs to a day, and there is none without a
\* process.
RequestInv ==
    \A q \in Requests :
        /\ pc[q] # "gone" => status[q] = "none"
        /\ pc[q] # "absent" => addr[q] = from[q] /\ addr[q] \in IPs /\ day[q] \in 1..Days
        /\ server = "down" => ~AtWork(q)

\* The requests that hold a slot.
Held == {q \in Requests : pc[q] \in {"handed", "debating"}}

\* Those of an address and a day that the quota let through, as long as they
\* may still start a debate or have started one.
Passed(ip, d) ==
    {q \in Of(ip, d) : pc[q] \in {"counted", "handed"} \/ Started(q)}

\* Those for which the table may have been written.
Written(ip, d) ==
    {q \in Of(ip, d) : /\ pc[q] \notin {"absent", "limited"}
                       /\ status[q] # "too many requests"}

SlotInv == Running => sem = Cardinality(Held)

QuotaInv ==
    \A ip \in IPs, d \in 1..Days :
        /\ Cardinality(Passed(ip, d)) <= DailyQuota
        /\ Cardinality(Passed(ip, d)) <= count[d][ip]

FloodInv ==
    \A ip \in IPs, d \in 1..Days : count[d][ip] <= Cardinality(Written(ip, d))

Inv == AdmissionTypeOK /\ RequestInv /\ SlotInv /\ QuotaInv /\ FloodInv

-----------------------------------------------------------------------------
(***************************************************************************)
(* Sets of requests.                                                       *)
(***************************************************************************)
\* A set of requests has a number.
LEMMA Finite ==
    ASSUME NEW S \in SUBSET Requests
    PROVE  IsFiniteSet(S) /\ Cardinality(S) \in Nat
BY RequestsAssumption, FS_Subset, FS_CardinalityType

\* A subset has no more members.
LEMMA NoMore ==
    ASSUME NEW S \in SUBSET Requests, NEW T \in SUBSET S
    PROVE  Cardinality(T) <= Cardinality(S)
BY Finite, FS_Subset

\* One more request makes at most one more member, and one more if it is new.
LEMMA OneMore ==
    ASSUME NEW S \in SUBSET Requests, NEW q \in Requests
    PROVE  /\ Cardinality(S \union {q}) <= Cardinality(S) + 1
           /\ q \notin S => Cardinality(S \union {q}) = Cardinality(S) + 1
BY Finite, FS_AddElement

\* A member less.
LEMMA OneLess ==
    ASSUME NEW S \in SUBSET Requests, NEW q \in S
    PROVE  Cardinality(S \ {q}) = Cardinality(S) - 1
BY Finite, FS_RemoveElement

\* A set that may lose members stays within what bounds it.
LEMMA StillWithin ==
    ASSUME NEW S \in SUBSET Requests, NEW T \in SUBSET Requests, T \subseteq S,
           NEW n \in Nat, NEW m \in Nat,
           Cardinality(S) <= DailyQuota, Cardinality(S) <= n, n <= m
    PROVE  Cardinality(T) <= DailyQuota /\ Cardinality(T) <= m
<1>1. Cardinality(T) <= Cardinality(S) /\ Cardinality(S) \in Nat /\ Cardinality(T) \in Nat
    BY NoMore, Finite
<1> QED
    BY <1>1, DailyQuotaAssumption

\* A set that may win one member stays within a bound that is one higher.
LEMMA OneMoreWithin ==
    ASSUME NEW S \in SUBSET Requests, NEW T \in SUBSET Requests,
           NEW q \in Requests, T \subseteq S \union {q},
           NEW n \in Nat, Cardinality(S) <= n
    PROVE  Cardinality(T) <= n + 1
<1>1. Cardinality(S \union {q}) <= Cardinality(S) + 1
    BY OneMore
<1>2. S \union {q} \in SUBSET Requests /\ T \in SUBSET (S \union {q})
    OBVIOUS
<1>3. Cardinality(T) <= Cardinality(S \union {q})
    BY <1>2, NoMore
<1>4. Cardinality(S) \in Nat /\ Cardinality(T) \in Nat /\ Cardinality(S \union {q}) \in Nat
    BY <1>2, Finite
<1> QED
    BY <1>1, <1>3, <1>4

\* A number that a set bounds stays bounded when the set grows by one and the
\* number by at most one.
LEMMA OneMoreBounds ==
    ASSUME NEW S \in SUBSET Requests, NEW T \in SUBSET Requests,
           NEW q \in Requests, q \notin S, S \union {q} \subseteq T,
           NEW n \in Nat, n <= Cardinality(S), NEW m \in {n, n + 1}
    PROVE  m <= Cardinality(T)
<1>1. Cardinality(S \union {q}) = Cardinality(S) + 1
    BY OneMore
<1>2. Cardinality(S \union {q}) <= Cardinality(T)
    BY NoMore
<1>3. Cardinality(S) \in Nat /\ Cardinality(T) \in Nat
    BY Finite
<1> QED
    BY <1>1, <1>2, <1>3

\* A number that a set bounds stays bounded when the set grows.
LEMMA StillBounds ==
    ASSUME NEW S \in SUBSET Requests, NEW T \in SUBSET Requests, S \subseteq T,
           NEW n \in Nat, n <= Cardinality(S)
    PROVE  n <= Cardinality(T)
<1>1. Cardinality(S) <= Cardinality(T) /\ Cardinality(S) \in Nat /\ Cardinality(T) \in Nat
    BY NoMore, Finite
<1> QED
    BY <1>1

\* The UPSERT of the table.
LEMMA OneMoreCounted ==
    ASSUME NEW table \in [1..Days -> [IPs -> Nat]], NEW e \in 1..Days, NEW a \in IPs
    PROVE  LET written == [table EXCEPT ![e][a] = @ + 1]
           IN  /\ written \in [1..Days -> [IPs -> Nat]]
               /\ written[e][a] = table[e][a] + 1
               /\ \A d \in 1..Days, ip \in IPs :
                     d # e \/ ip # a => written[d][ip] = table[d][ip]
<1> DEFINE written == [table EXCEPT ![e][a] = @ + 1]
<1>1. table[e] \in [IPs -> Nat]
    OBVIOUS
<1>2. [table[e] EXCEPT ![a] = @ + 1] \in [IPs -> Nat]
    BY <1>1
<1>3. written = [table EXCEPT ![e] = [table[e] EXCEPT ![a] = @ + 1]]
    OBVIOUS
<1>4. written \in [1..Days -> [IPs -> Nat]]
    BY <1>2, <1>3
<1>5. written[e] = [table[e] EXCEPT ![a] = @ + 1]
    BY <1>3
<1>6. \A d \in 1..Days : d # e => written[d] = table[d]
    BY <1>3
<1> QED
    BY <1>1, <1>4, <1>5, <1>6

\* The address a request is known by is that of its client: the header is
\* only believed where the proxy wrote it (clientip.go ClientIP).
LEMMA KnownByItsClient ==
    ASSUME NEW c \in Clients, NEW header \in Headers(c)
    PROVE  ClientIP(Peer(c), header) = c
BY AddressAssumption DEF ClientIP, Peer, Headers

-----------------------------------------------------------------------------
\* Nothing is known of a request before it comes.
LEMMA InitInv == Init => Inv
<1> SUFFICES ASSUME Init PROVE Inv
    OBVIOUS
<1>1. AdmissionTypeOK
    BY DaysAssumption DEF Init, AdmissionTypeOK, Places, NoDay
<1>2. RequestInv
    BY DEF Init, RequestInv, AtWork
<1>3. Held = {} /\ \A ip \in IPs, d \in 1..Days : Passed(ip, d) = {} /\ Written(ip, d) = {}
    BY DEF Init, Held, Passed, Written, Of, Started
<1>4. \A ip \in IPs, d \in 1..Days : count[d][ip] = 0
    BY DEF Init
<1>5. Cardinality({}) = 0
    BY FS_EmptySet
<1>6. SlotInv
    BY <1>3, <1>5 DEF SlotInv, Init
<1>7. QuotaInv
    BY <1>3, <1>4, <1>5, DailyQuotaAssumption DEF QuotaInv
<1>8. FloodInv
    BY <1>3, <1>4, <1>5 DEF FloodInv
<1> QED
    BY <1>1, <1>2, <1>6, <1>7, <1>8 DEF Inv

-----------------------------------------------------------------------------
(***************************************************************************)
(* A step, part by part of the invariant.                                  *)
(***************************************************************************)
\* The variables of the middleware keep their types.
LEMMA TypeNext == Inv /\ [Next]_vars => AdmissionTypeOK'
<1> SUFFICES ASSUME Inv, [Next]_vars PROVE AdmissionTypeOK'
    OBVIOUS
<1> USE DEF Inv, AdmissionTypeOK, Places, End
<1>1. ASSUME NEW q \in Requests, NEW c \in Clients, NEW header \in Headers(c),
             Arrive(q, c, ClientIP(Peer(c), header))
      PROVE  AdmissionTypeOK'
    <2>1. c \in IPs /\ from' = [from EXCEPT ![q] = c] /\ addr' = [addr EXCEPT ![q] = c]
        BY <1>1, KnownByItsClient, AddressAssumption DEF Arrive
    <2>2. pc' \in [Requests -> Places] /\ DOMAIN status' = Requests
        BY <1>1 DEF Arrive
    <2>3. day' = [day EXCEPT ![q] = today]
        BY <1>1 DEF Arrive
    <2>4. day' \in [Requests -> 0..Days]
        BY <2>3, DaysAssumption
    <2>5. server' = server /\ today' = today /\ count' = count /\ sem' = sem
        BY <1>1 DEF Arrive
    <2> QED
        BY <2>1, <2>2, <2>4, <2>5
<1>2. ASSUME NEW q \in Requests, CheckAndIncrement(q) \/ StoreFails(q)
      PROVE  AdmissionTypeOK'
    <2>1. addr[q] \in IPs /\ day[q] \in 1..Days
        BY <1>2 DEF CheckAndIncrement, StoreFails, RequestInv
    <2>2. \/ count' = count
          \/ count' = [count EXCEPT ![day[q]][addr[q]] = @ + 1]
        BY <1>2 DEF CheckAndIncrement, StoreFails
    <2>3. count' \in [1..Days -> [IPs -> Nat]]
        <3>1. CASE count' = count
            BY <3>1
        <3>2. CASE count' = [count EXCEPT ![day[q]][addr[q]] = @ + 1]
            BY <2>1, <3>2, OneMoreCounted
        <3> QED
            BY <2>2, <3>1, <3>2
    <2>4. pc' \in [Requests -> Places] /\ DOMAIN status' = Requests
        BY <1>2 DEF CheckAndIncrement, StoreFails
    <2> QED
        BY <1>2, <2>3, <2>4 DEF CheckAndIncrement, StoreFails
<1>3. ASSUME NEW q \in Requests,
             AcquireSlot(q) \/ ServerBusy(q) \/ Upgrade(q) \/ UpgradeFails(q) \/ DebateEnds(q)
      PROVE  AdmissionTypeOK'
    <2>1. pc' \in [Requests -> Places] /\ DOMAIN status' = Requests
        BY <1>3 DEF AcquireSlot, ServerBusy, Upgrade, UpgradeFails, DebateEnds
    <2>2. sem' \in {sem, sem + 1, sem - 1}
        BY <1>3 DEF AcquireSlot, ServerBusy, Upgrade, UpgradeFails, DebateEnds
    <2>3. /\ server' = server /\ today' = today /\ from' = from /\ addr' = addr
          /\ day' = day /\ count' = count
        BY <1>3 DEF AcquireSlot, ServerBusy, Upgrade, UpgradeFails, DebateEnds
    <2> QED
        BY <2>1, <2>2, <2>3
<1>4. CASE Midnight
    BY <1>4, DaysAssumption DEF Midnight, requestVars
<1>5. CASE LimiterStep \/ Terminate \/ Start \/ UNCHANGED vars
    BY <1>5 DEF LimiterStep, Terminate, Start, requestVars, vars
<1>6. CASE Drained \/ Killed
    BY <1>6 DEF Drained, Killed, Gone
<1> QED
    BY <1>1, <1>2, <1>3, <1>4, <1>5, <1>6 DEF Next

\* A request that comes is its client's, of today, and is not answered yet
\* unless it is refused.
LEMMA ArrivalIsItsClients ==
    ASSUME AdmissionTypeOK, RequestInv,
           NEW q \in Requests, NEW c \in Clients, NEW header \in Headers(c),
           Arrive(q, c, ClientIP(Peer(c), header))
    PROVE  RequestInv'
<1>1. c \in IPs /\ from' = [from EXCEPT ![q] = c] /\ addr' = [addr EXCEPT ![q] = c]
    BY KnownByItsClient, AddressAssumption DEF Arrive
<1>2. day' = [day EXCEPT ![q] = today] /\ server = "up" /\ server' = "up"
    BY DEF Arrive
<1>3. \/ pc' = [pc EXCEPT ![q] = "limited"] /\ status' = status /\ pc[q] = "absent"
      \/ pc' = [pc EXCEPT ![q] = "gone"] /\ status' = [status EXCEPT ![q] = "too many requests"]
    BY DEF Arrive, End
<1>4. SUFFICES ASSUME NEW r \in Requests
               PROVE  /\ pc'[r] # "gone" => status'[r] = "none"
                      /\ pc'[r] # "absent" =>
                            addr'[r] = from'[r] /\ addr'[r] \in IPs /\ day'[r] \in 1..Days
    BY <1>2 DEF RequestInv
<1>5. CASE r = q
    BY <1>1, <1>2, <1>3, <1>5 DEF AdmissionTypeOK, RequestInv
<1>6. CASE r # q
    BY <1>1, <1>2, <1>3, <1>6 DEF AdmissionTypeOK, RequestInv
<1> QED
    BY <1>5, <1>6

\* A request under way stays that of its client, and none outlives the process.
LEMMA RequestNext == Inv /\ [Next]_vars => RequestInv'
<1> SUFFICES ASSUME Inv, [Next]_vars PROVE RequestInv'
    OBVIOUS
<1>1. ASSUME NEW q \in Requests, NEW c \in Clients, NEW header \in Headers(c),
             Arrive(q, c, ClientIP(Peer(c), header))
      PROVE  RequestInv'
    BY <1>1, ArrivalIsItsClients DEF Inv
<1> USE DEF Inv, AdmissionTypeOK, Places, RequestInv, AtWork, End, Running
<1>2. ASSUME NEW q \in Requests, CheckAndIncrement(q) \/ StoreFails(q)
      PROVE  RequestInv'
    BY <1>2 DEF CheckAndIncrement, StoreFails
<1>3. ASSUME NEW q \in Requests,
             AcquireSlot(q) \/ ServerBusy(q) \/ Upgrade(q) \/ UpgradeFails(q) \/ DebateEnds(q)
      PROVE  RequestInv'
    BY <1>3 DEF AcquireSlot, ServerBusy, Upgrade, UpgradeFails, DebateEnds
<1>4. CASE Midnight \/ LimiterStep \/ Terminate \/ Start \/ UNCHANGED vars
    BY <1>4 DEF Midnight, LimiterStep, Terminate, Start, requestVars, vars
<1>5. CASE Drained \/ Killed
    BY <1>5 DEF Drained, Killed, Gone
<1> QED
    BY <1>1, <1>2, <1>3, <1>4, <1>5 DEF Next

\* The semaphore follows the handlers.
LEMMA SlotNext == Inv /\ [Next]_vars => SlotInv'
<1> SUFFICES ASSUME Inv, [Next]_vars PROVE SlotInv'
    OBVIOUS
<1> USE DEF Inv, AdmissionTypeOK, Places, SlotInv, Running, Held, End
<1>1. ASSUME NEW q \in Requests, NEW c \in Clients, NEW header \in Headers(c),
             Arrive(q, c, ClientIP(Peer(c), header))
      PROVE  SlotInv'
    <2>1. Held' = Held
        BY <1>1 DEF Arrive
    <2> QED
        BY <1>1, <2>1 DEF Arrive
<1>2. ASSUME NEW q \in Requests,
             CheckAndIncrement(q) \/ StoreFails(q) \/ ServerBusy(q) \/ Upgrade(q)
      PROVE  SlotInv'
    <2>1. Held' = Held
        BY <1>2 DEF CheckAndIncrement, StoreFails, ServerBusy, Upgrade
    <2> QED
        BY <1>2, <2>1 DEF CheckAndIncrement, StoreFails, ServerBusy, Upgrade
<1>3. ASSUME NEW q \in Requests, AcquireSlot(q)
      PROVE  SlotInv'
    <2>1. Held' = Held \union {q} /\ q \notin Held /\ Held \in SUBSET Requests
        BY <1>3 DEF AcquireSlot
    <2>2. Cardinality(Held') = Cardinality(Held) + 1
        BY <2>1, OneMore
    <2> QED
        BY <1>3, <2>2 DEF AcquireSlot
<1>4. ASSUME NEW q \in Requests, UpgradeFails(q) \/ DebateEnds(q)
      PROVE  SlotInv'
    <2>1. Held' = Held \ {q} /\ q \in Held /\ Held \in SUBSET Requests
        BY <1>4 DEF UpgradeFails, DebateEnds
    <2>2. Cardinality(Held') = Cardinality(Held) - 1
        BY <2>1, OneLess
    <2> QED
        BY <1>4, <2>2 DEF UpgradeFails, DebateEnds
<1>5. CASE Midnight \/ LimiterStep \/ Terminate \/ UNCHANGED vars
    BY <1>5 DEF Midnight, LimiterStep, Terminate, requestVars, vars
<1>6. CASE Drained \/ Killed
    BY <1>6 DEF Drained, Killed, Gone
<1>7. CASE Start
    <2>1. Held' = {}
        BY <1>7 DEF Start, requestVars, RequestInv, AtWork
    <2> QED
        BY <1>7, <2>1, FS_EmptySet DEF Start
<1> QED
    BY <1>1, <1>2, <1>3, <1>4, <1>5, <1>6, <1>7 DEF Next

\* What a guard does to its own request, it does to no other.
LEMMA OthersStay ==
    ASSUME AdmissionTypeOK, NEW q \in Requests,
           \/ CheckAndIncrement(q) \/ StoreFails(q)
           \/ AcquireSlot(q) \/ ServerBusy(q)
           \/ Upgrade(q) \/ UpgradeFails(q) \/ DebateEnds(q)
    PROVE  /\ \A r \in Requests : r # q => pc'[r] = pc[r] /\ status'[r] = status[r]
           /\ addr' = addr /\ day' = day
BY DEF AdmissionTypeOK, CheckAndIncrement, StoreFails, AcquireSlot, ServerBusy,
       Upgrade, UpgradeFails, DebateEnds, End

\* Only the store lets a request pass, and it has counted it.
LEMMA QuotaNext == Inv /\ [Next]_vars => QuotaInv'
<1> SUFFICES ASSUME Inv, [Next]_vars,
                    NEW ip \in IPs, NEW d \in 1..Days
             PROVE  /\ Cardinality(Passed(ip, d)') <= DailyQuota
                    /\ Cardinality(Passed(ip, d)') <= count'[d][ip]
    BY DEF QuotaInv
<1> DEFINE S == Passed(ip, d)
           T == Passed(ip, d)'
           n == count[d][ip]
           m == count'[d][ip]
           Goal == Cardinality(T) <= DailyQuota /\ Cardinality(T) <= m
<1>1. /\ S \in SUBSET Requests /\ T \in SUBSET Requests
      /\ n \in Nat /\ m \in Nat
      /\ Cardinality(S) <= DailyQuota /\ Cardinality(S) <= n
    <2>1. S \in SUBSET Requests /\ T \in SUBSET Requests
        BY DEF Passed, Of
    <2>2. AdmissionTypeOK'
        BY TypeNext
    <2>3. n \in Nat /\ m \in Nat
        BY <2>2 DEF Inv, AdmissionTypeOK
    <2> QED
        BY <2>1, <2>3 DEF Inv, QuotaInv
<1>2. ASSUME T \subseteq S, n <= m
      PROVE  Goal
    <2> HIDE DEF S, T, n, m
    <2> QED
        BY <1>1, <1>2, StillWithin
<1>3. ASSUME NEW q \in Requests, T \subseteq S \union {q}, m = n + 1, m <= DailyQuota
      PROVE  Goal
    <2> HIDE DEF S, T, n, m
    <2>1. Cardinality(T) <= n + 1
        BY <1>1, <1>3, OneMoreWithin
    <2>2. Cardinality(T) \in Nat
        BY <1>1, Finite
    <2> QED
        BY <1>1, <1>3, <2>1, <2>2, DailyQuotaAssumption
<1>4. ASSUME NEW q \in Requests, NEW c \in Clients, NEW header \in Headers(c),
             Arrive(q, c, ClientIP(Peer(c), header))
      PROVE  Goal
    <2>1. /\ pc'[q] \in {"limited", "gone"} /\ status'[q] \in {"none", "too many requests"}
          /\ \A r \in Requests : r # q => /\ pc'[r] = pc[r] /\ status'[r] = status[r]
                                          /\ addr'[r] = addr[r] /\ day'[r] = day[r]
        BY <1>4 DEF Arrive, End, Inv, AdmissionTypeOK, RequestInv
    <2>2. T \subseteq S
        BY <2>1 DEF Passed, Of, Started
    <2>3. m = n
        BY <1>4 DEF Arrive
    <2> QED
        BY <1>1, <1>2, <2>2, <2>3
<1>5. ASSUME NEW q \in Requests, CheckAndIncrement(q) \/ StoreFails(q)
      PROVE  Goal
    <2>1. addr[q] \in IPs /\ day[q] \in 1..Days
        BY <1>5 DEF Inv, RequestInv, CheckAndIncrement, StoreFails
    <2>2. /\ \A r \in Requests : r # q => pc'[r] = pc[r] /\ status'[r] = status[r]
          /\ addr' = addr /\ day' = day
        BY <1>5, OthersStay DEF Inv
    <2>3. T \subseteq S \union {q}
        BY <2>2 DEF Passed, Of, Started
    <2>4. count' = count \/ count' = [count EXCEPT ![day[q]][addr[q]] = @ + 1]
        BY <1>5 DEF CheckAndIncrement, StoreFails
    <2>5. CASE ip = addr[q] /\ d = day[q] /\ m = n + 1 /\ m <= DailyQuota
        BY <1>3, <2>3, <2>5
    <2>6. CASE ~(ip = addr[q] /\ d = day[q] /\ m = n + 1 /\ m <= DailyQuota)
        <3>1. m = n \/ (ip = addr[q] /\ d = day[q] /\ m = n + 1)
            <4>1. CASE count' = count
                BY <4>1
            <4>2. CASE count' = [count EXCEPT ![day[q]][addr[q]] = @ + 1]
                BY <2>1, <4>2, OneMoreCounted DEF Inv, AdmissionTypeOK
            <4> QED
                BY <2>4, <4>1, <4>2
        <3>2. ASSUME q \in T PROVE FALSE
            <4>1. addr[q] = ip /\ day[q] = d
                BY <2>2, <3>2 DEF Passed, Of
            <4>2. \/ pc'[q] = "counted"
                  \/ pc'[q] = "gone" /\ status'[q] \in {"daily limit reached", "quota check failed"}
                BY <1>5 DEF CheckAndIncrement, StoreFails, End, Inv, AdmissionTypeOK
            <4>3. pc'[q] = "counted"
                BY <3>2, <4>2 DEF Passed, Of, Started
            <4>4. CheckAndIncrement(q) /\ count'[day[q]][addr[q]] <= DailyQuota
                BY <1>5, <4>3 DEF CheckAndIncrement, StoreFails, End, Inv, AdmissionTypeOK
            <4>5. count' = [count EXCEPT ![day[q]][addr[q]] = @ + 1]
                BY <4>4 DEF CheckAndIncrement
            <4>6. m = n + 1
                BY <2>1, <4>1, <4>5, OneMoreCounted DEF Inv, AdmissionTypeOK
            <4> QED
                BY <2>6, <4>1, <4>4, <4>6
        <3>3. T \subseteq S
            BY <2>3, <3>2
        <3>4. n <= m
            BY <1>1, <3>1
        <3> QED
            BY <1>2, <3>3, <3>4
    <2> QED
        BY <2>5, <2>6
<1>6. ASSUME NEW q \in Requests,
             AcquireSlot(q) \/ ServerBusy(q) \/ Upgrade(q) \/ UpgradeFails(q) \/ DebateEnds(q)
      PROVE  Goal
    <2>1. /\ \A r \in Requests : r # q => pc'[r] = pc[r] /\ status'[r] = status[r]
          /\ addr' = addr /\ day' = day
        BY <1>6, OthersStay DEF Inv
    <2>2. pc[q] \in {"counted", "handed", "debating"}
        BY <1>6 DEF AcquireSlot, ServerBusy, Upgrade, UpgradeFails, DebateEnds
    <2>3. T \subseteq S
        BY <2>1, <2>2 DEF Passed, Of, Started
    <2>4. m = n
        BY <1>6 DEF AcquireSlot, ServerBusy, Upgrade, UpgradeFails, DebateEnds
    <2> QED
        BY <1>1, <1>2, <2>3, <2>4
<1>7. CASE Midnight \/ LimiterStep \/ Terminate \/ Start \/ UNCHANGED vars
    <2>1. T \subseteq S /\ m = n
        BY <1>7 DEF Midnight, LimiterStep, Terminate, Start, requestVars, vars,
                    Passed, Of, Started
    <2> QED
        BY <1>1, <1>2, <2>1
<1>8. CASE Drained \/ Killed
    <2>1. T \subseteq S /\ m = n
        BY <1>8 DEF Drained, Killed, Gone, AtWork, Passed, Of, Started
    <2> QED
        BY <1>1, <1>2, <2>1
<1> QED
    BY <1>4, <1>5, <1>6, <1>7, <1>8 DEF Next

\* Every write is that of a request the bucket let through.
LEMMA FloodNext == Inv /\ [Next]_vars => FloodInv'
<1> SUFFICES ASSUME Inv, [Next]_vars,
                    NEW ip \in IPs, NEW d \in 1..Days
             PROVE  count'[d][ip] <= Cardinality(Written(ip, d)')
    BY DEF FloodInv
<1> DEFINE S == Written(ip, d)
           T == Written(ip, d)'
           n == count[d][ip]
           m == count'[d][ip]
           Goal == m <= Cardinality(T)
<1>1. /\ S \in SUBSET Requests /\ T \in SUBSET Requests
      /\ n \in Nat /\ n <= Cardinality(S)
    <2>1. S \in SUBSET Requests /\ T \in SUBSET Requests
        BY DEF Written, Of
    <2> QED
        BY <2>1 DEF Inv, AdmissionTypeOK, FloodInv
<1>2. ASSUME S \subseteq T, m = n
      PROVE  Goal
    <2> HIDE DEF S, T, n, m
    <2> QED
        BY <1>1, <1>2, StillBounds
<1>3. ASSUME NEW q \in Requests, q \notin S, S \union {q} \subseteq T, m \in {n, n + 1}
      PROVE  Goal
    <2> HIDE DEF S, T, n, m
    <2> QED
        BY <1>1, <1>3, OneMoreBounds
<1>4. ASSUME NEW q \in Requests, NEW c \in Clients, NEW header \in Headers(c),
             Arrive(q, c, ClientIP(Peer(c), header))
      PROVE  Goal
    <2>1. /\ pc[q] = "absent"
          /\ \A r \in Requests : r # q => /\ pc'[r] = pc[r] /\ status'[r] = status[r]
                                          /\ addr'[r] = addr[r] /\ day'[r] = day[r]
        BY <1>4 DEF Arrive, End, Inv, AdmissionTypeOK
    <2>2. S \subseteq T
        BY <2>1 DEF Written, Of
    <2>3. m = n
        BY <1>4 DEF Arrive
    <2> QED
        BY <1>2, <2>2, <2>3
<1>5. ASSUME NEW q \in Requests, CheckAndIncrement(q) \/ StoreFails(q)
      PROVE  Goal
    <2>1. addr[q] \in IPs /\ day[q] \in 1..Days
        BY <1>5 DEF Inv, RequestInv, CheckAndIncrement, StoreFails
    <2>2. /\ \A r \in Requests : r # q => pc'[r] = pc[r] /\ status'[r] = status[r]
          /\ addr' = addr /\ day' = day
        BY <1>5, OthersStay DEF Inv
    <2>3. /\ pc[q] = "limited" /\ pc'[q] \in {"counted", "gone"}
          /\ status'[q] \in {"none", "daily limit reached", "quota check failed"}
        BY <1>5 DEF CheckAndIncrement, StoreFails, End, Inv, AdmissionTypeOK, RequestInv
    <2>4. q \notin S
        BY <2>3 DEF Written, Of
    <2>5. S \subseteq T
        BY <2>2, <2>4 DEF Written, Of
    <2>6. count' = count \/ count' = [count EXCEPT ![day[q]][addr[q]] = @ + 1]
        BY <1>5 DEF CheckAndIncrement, StoreFails
    <2>7. CASE ip = addr[q] /\ d = day[q]
        <3>1. m \in {n, n + 1}
            BY <2>1, <2>6, <2>7, OneMoreCounted DEF Inv, AdmissionTypeOK
        <3>2. q \in T
            BY <2>2, <2>3, <2>7 DEF Written, Of
        <3> QED
            BY <1>3, <2>4, <2>5, <3>1, <3>2
    <2>8. CASE ip # addr[q] \/ d # day[q]
        <3>1. CASE count' = count
            BY <1>2, <2>5, <3>1
        <3>2. CASE count' = [count EXCEPT ![day[q]][addr[q]] = @ + 1]
            <4>1. m = n
                BY <2>1, <2>8, <3>2, OneMoreCounted DEF Inv, AdmissionTypeOK
            <4> QED
                BY <1>2, <2>5, <4>1
        <3> QED
            BY <2>6, <3>1, <3>2
    <2> QED
        BY <2>7, <2>8
<1>6. ASSUME NEW q \in Requests,
             AcquireSlot(q) \/ ServerBusy(q) \/ Upgrade(q) \/ UpgradeFails(q) \/ DebateEnds(q)
      PROVE  Goal
    <2>1. /\ \A r \in Requests : r # q => pc'[r] = pc[r] /\ status'[r] = status[r]
          /\ addr' = addr /\ day' = day
        BY <1>6, OthersStay DEF Inv
    <2>2. /\ pc'[q] \in {"handed", "debating", "gone"}
          /\ status'[q] \in {status[q], "server busy", "not upgraded", "debated"}
        BY <1>6 DEF AcquireSlot, ServerBusy, Upgrade, UpgradeFails, DebateEnds, End, Inv, AdmissionTypeOK
    <2>3. S \subseteq T
        BY <2>1, <2>2 DEF Written, Of
    <2>4. m = n
        BY <1>6 DEF AcquireSlot, ServerBusy, Upgrade, UpgradeFails, DebateEnds
    <2> QED
        BY <1>2, <2>3, <2>4
<1>7. CASE Midnight \/ LimiterStep \/ Terminate \/ Start \/ UNCHANGED vars
    <2>1. S \subseteq T /\ m = n
        BY <1>7 DEF Midnight, LimiterStep, Terminate, Start, requestVars, vars, Written, Of
    <2> QED
        BY <1>2, <2>1
<1>8. CASE Drained \/ Killed
    <2>1. S \subseteq T /\ m = n
        BY <1>8 DEF Drained, Killed, Gone, AtWork, Written, Of, Inv, AdmissionTypeOK, Places
    <2> QED
        BY <1>2, <2>1
<1> QED
    BY <1>4, <1>5, <1>6, <1>7, <1>8 DEF Next

-----------------------------------------------------------------------------
\* The invariant holds throughout.
THEOREM Invariance == Spec => []Inv
<1>1. Inv /\ [Next]_vars => Inv'
    BY TypeNext, RequestNext, SlotNext, QuotaNext, FloodNext DEF Inv
<1> QED
    BY <1>1, InitInv, PTL DEF Spec

\* The deferred receive of the middleware, on every way out of the handler,
\* gives back the slot that was taken, and no other (middleware.go Middleware).
THEOREM NoSlotIsLost == Spec => []SlotsAreHeld
<1>1. Inv => SlotsAreHeld
    BY DEF Inv, SlotInv, SlotsAreHeld, Held
<1> QED
    BY <1>1, Invariance, PTL

\* However many requests race for the last debate of a day, a client starts no
\* more than its quota: without a proxy whatever its headers say, behind one if
\* the proxy writes the leftmost entry of X-Forwarded-For (quota.go
\* CheckAndIncrement, clientip.go ClientIP).
THEOREM QuotaIsNeverExceeded == Spec => []QuotaIsKept
<1>1. ASSUME Inv, NEW c \in Clients, NEW d \in 1..Days
      PROVE  LET debates == Cardinality({q \in Requests : from[q] = c /\ day[q] = d /\ Started(q)})
             IN  debates <= DailyQuota /\ debates <= count[d][c]
    <2> DEFINE S == {q \in Requests : from[q] = c /\ day[q] = d /\ Started(q)}
    <2>1. S \subseteq Passed(c, d)
        BY <1>1 DEF Inv, RequestInv, Passed, Of, Started
    <2>2. c \in IPs /\ Passed(c, d) \in SUBSET Requests
        BY AddressAssumption DEF Passed, Of
    <2>3. /\ Cardinality(S) <= Cardinality(Passed(c, d))
          /\ Cardinality(S) \in Nat /\ Cardinality(Passed(c, d)) \in Nat
        BY <2>1, <2>2, NoMore, Finite
    <2>4. /\ Cardinality(Passed(c, d)) <= DailyQuota
          /\ Cardinality(Passed(c, d)) <= count[d][c]
          /\ count[d][c] \in Nat
        BY <1>1, <2>2 DEF Inv, QuotaInv, AdmissionTypeOK
    <2> QED
        BY <2>3, <2>4, DailyQuotaAssumption
<1>2. Inv => QuotaIsKept
    BY <1>1 DEF QuotaIsKept
<1> QED
    BY <1>2, Invariance, PTL

\* A request the bucket refuses leaves no trace in the table, and any other at
\* most one (middleware.go Middleware: the order of its guards).
THEOREM FloodsWriteNothing == Spec => []FloodsCostNoWrites
<1>1. ASSUME Inv, NEW ip \in IPs, NEW d \in 1..Days
      PROVE  count[d][ip] <= Cardinality({q \in Of(ip, d) : status[q] # "too many requests"})
    <2> DEFINE S == {q \in Of(ip, d) : status[q] # "too many requests"}
    <2>1. S \in SUBSET Requests /\ Written(ip, d) \subseteq S
        BY DEF Of, Written
    <2>2. count[d][ip] \in Nat /\ count[d][ip] <= Cardinality(Written(ip, d))
        BY <1>1 DEF Inv, FloodInv, AdmissionTypeOK
    <2>3. Written(ip, d) \in SUBSET Requests
        BY DEF Written, Of
    <2> HIDE DEF S
    <2>4. count[d][ip] <= Cardinality(S)
        BY <2>1, <2>2, <2>3, StillBounds
    <2> QED
        BY <2>4 DEF S
<1>2. Inv => FloodsCostNoWrites
    BY <1>1 DEF FloodsCostNoWrites
<1> QED
    BY <1>2, Invariance, PTL
=============================================================================
