---------------------------- MODULE TokenBucket ----------------------------
(***************************************************************************)
(* What the rate limiter promises a client: one token bucket per IP that   *)
(* is never forgotten.  Levels are in units of which a request costs Cost  *)
(* and a tick of the clock returns Refill.                                 *)
(***************************************************************************)
EXTENDS Integers

CONSTANTS
    IPs,        \* client addresses
    Burst,      \* requests a full bucket is good for
    Cost,       \* units a request costs
    Refill      \* units that come back per tick

VARIABLE level  \* level[ip]: units in the bucket of ip

Capacity == Burst * Cost

Refilled(units) == IF units + Refill > Capacity THEN Capacity ELSE units + Refill

Init == level = [ip \in IPs |-> Capacity]

Take(ip) ==
    /\ level[ip] >= Cost
    /\ level' = [level EXCEPT ![ip] = @ - Cost]

Tick == level' = [ip \in IPs |-> Refilled(level[ip])]

Next == Tick \/ \E ip \in IPs : Take(ip)

Spec == Init /\ [][Next]_level
=============================================================================
