----------------------------- MODULE Admission -----------------------------
(***************************************************************************)
(* The way of a request to a debate (ratelimit/middleware.go): the per-IP  *)
(* token bucket, the daily quota in SQLite (store/quota.go), the global    *)
(* semaphore, and the WebSocket handler behind them; the address a request *)
(* is known by (httpx/clientip.go); and the life of the server process     *)
(* around it (cmd/server/main.go): graceful shutdown, crash and restart.   *)
(*                                                                         *)
(* Requests run concurrently, one goroutine each; between any two of the   *)
(* guards another request, the janitor, midnight or the end of the process *)
(* may come.  The debate itself is DebateSession; here it only takes time. *)
(***************************************************************************)
EXTENDS RateLimiter, FiniteSets

CONSTANTS
    Requests,   \* bound: the requests that are made
    Clients,    \* bound: the addresses they are really made from
    Proxy,      \* the address of the proxy in front of the server, if any
    TrustProxy, \* X-Forwarded-For is believed, because there is one
    MaxSessions,\* capacity of the semaphore channel
    DailyQuota, \* requests let through per address and UTC day
    Days        \* bound: number of days

NoDay == 0
NoAddr == "none"

ASSUME RequestsAssumption == IsFiniteSet(Requests)
ASSUME AddressAssumption ==
    /\ Clients \subseteq IPs
    /\ Proxy \in IPs
    /\ NoAddr \notin IPs
    /\ TrustProxy \in BOOLEAN
ASSUME MaxSessionsAssumption == MaxSessions \in Nat \ {0}
ASSUME DailyQuotaAssumption == DailyQuota \in Nat \ {0}
ASSUME DaysAssumption == Days \in Nat \ {0}

VARIABLES
    server,     \* "up", "draining" after a signal, or "down"
    today,      \* the current UTC day
    pc,         \* pc[q]: how far request q is
    status,     \* status[q]: how it ended
    from,       \* from[q]: the client that really made it
    addr,       \* addr[q]: ClientIP of the request
    day,        \* day[q]: the day it will be counted for
    count,      \* count[d][ip]: the daily_usage table
    sem         \* tokens in the semaphore channel

requestVars == <<pc, status, from, addr, day>>
vars == <<limiterVars, server, today, requestVars, count, sem>>

Init ==
    /\ LimiterInit
    /\ server = "up"
    /\ today = 1
    /\ pc = [q \in Requests |-> "absent"]
    /\ status = [q \in Requests |-> "none"]
    /\ from = [q \in Requests |-> NoAddr]
    /\ addr = [q \in Requests |-> NoAddr]
    /\ day = [q \in Requests |-> NoDay]
    /\ count = [d \in 1..Days |-> [ip \in IPs |-> 0]]
    /\ sem = 0

\* The request is answered, or its connection closed.
End(q, how) ==
    /\ pc' = [pc EXCEPT ![q] = "gone"]
    /\ status' = [status EXCEPT ![q] = how]

Running == server # "down"

-----------------------------------------------------------------------------
(***************************************************************************)
(* Middleware.                                                             *)
(***************************************************************************)

\* The host of RemoteAddr: the client, or the proxy that forwards it.
Peer(c) == IF TrustProxy THEN Proxy ELSE c

\* The literal IP that is leftmost in X-Forwarded-For, or NoAddr.  The proxy
\* puts its client there; a client that is not behind one sends what it likes.
Headers(c) == IF TrustProxy THEN {c} ELSE IPs \union {NoAddr}

\* broken variant: the header is always believed.
ClientIPOfHeader(peer, header) == IF header # NoAddr THEN header ELSE peer

ClientIP(peer, header) ==
    IF TrustProxy /\ header # NoAddr THEN header ELSE peer

\* broken variant: the usage is counted before the bucket is asked.
ArriveCounted(q, c, ip) ==
    /\ server = "up"
    /\ pc[q] = "absent"
    /\ from' = [from EXCEPT ![q] = c]
    /\ addr' = [addr EXCEPT ![q] = ip]
    /\ day' = [day EXCEPT ![q] = today]
    /\ Allow(ip)
    /\ count' = [count EXCEPT ![today][ip] = @ + 1]
    /\ IF Granted(ip)
       THEN pc' = [pc EXCEPT ![q] = "limited"] /\ UNCHANGED status
       ELSE End(q, "too many requests")
    /\ UNCHANGED <<server, today, sem>>

\* Client c is known as ip.  The bucket of the address is asked first; then
\* the day is read.
Arrive(q, c, ip) ==
    /\ server = "up"
    /\ pc[q] = "absent"
    /\ from' = [from EXCEPT ![q] = c]
    /\ addr' = [addr EXCEPT ![q] = ip]
    /\ day' = [day EXCEPT ![q] = today]
    /\ Allow(ip)
    /\ IF Granted(ip)
       THEN pc' = [pc EXCEPT ![q] = "limited"] /\ UNCHANGED status
       ELSE End(q, "too many requests")
    /\ UNCHANGED <<server, today, count, sem>>

\* One UPSERT counts the request and says how many there are.
CheckAndIncrement(q) ==
    /\ Running
    /\ pc[q] = "limited"
    /\ count' = [count EXCEPT ![day[q]][addr[q]] = @ + 1]
    /\ IF count'[day[q]][addr[q]] <= DailyQuota
       THEN pc' = [pc EXCEPT ![q] = "counted"] /\ UNCHANGED status
       ELSE End(q, "daily limit reached")
    /\ UNCHANGED <<limiterVars, server, today, from, addr, day, sem>>

\* The statement fails, or the request's context is done before its answer is
\* read: it may have been committed all the same.
StoreFails(q) ==
    /\ Running
    /\ pc[q] = "limited"
    /\ \/ UNCHANGED count
       \/ count' = [count EXCEPT ![day[q]][addr[q]] = @ + 1]
    /\ End(q, "quota check failed")
    /\ UNCHANGED <<limiterVars, server, today, from, addr, day, sem>>

\* A free slot is taken without waiting, and held until next returns.
AcquireSlot(q) ==
    /\ Running
    /\ pc[q] = "counted"
    /\ sem < MaxSessions
    /\ sem' = sem + 1
    /\ pc' = [pc EXCEPT ![q] = "handed"]
    /\ UNCHANGED <<limiterVars, server, today, status, from, addr, day, count>>

ServerBusy(q) ==
    /\ Running
    /\ pc[q] = "counted"
    /\ sem = MaxSessions
    /\ End(q, "server busy")
    /\ UNCHANGED <<limiterVars, server, today, from, addr, day, count, sem>>

\* websocket.Accept hijacks the connection, or refuses (origin, handshake).
Upgrade(q) ==
    /\ Running
    /\ pc[q] = "handed"
    /\ pc' = [pc EXCEPT ![q] = "debating"]
    /\ UNCHANGED <<limiterVars, server, today, status, from, addr, day, count, sem>>

\* broken variant: only the end of a debate frees the slot.
UpgradeFailsKeepingSlot(q) ==
    /\ Running
    /\ pc[q] = "handed"
    /\ End(q, "not upgraded")
    /\ UNCHANGED <<limiterVars, server, today, from, addr, day, count, sem>>

UpgradeFails(q) ==
    /\ Running
    /\ pc[q] = "handed"
    /\ sem' = sem - 1
    /\ End(q, "not upgraded")
    /\ UNCHANGED <<limiterVars, server, today, from, addr, day, count>>

\* HandleSession returns; the deferred receive frees the slot.
DebateEnds(q) ==
    /\ Running
    /\ pc[q] = "debating"
    /\ sem' = sem - 1
    /\ End(q, "debated")
    /\ UNCHANGED <<limiterVars, server, today, from, addr, day, count>>

-----------------------------------------------------------------------------
(***************************************************************************)
(* The process.  The table outlives it; buckets and semaphore do not.      *)
(***************************************************************************)
Midnight ==
    /\ today < Days
    /\ today' = today + 1
    /\ UNCHANGED <<limiterVars, server, requestVars, count, sem>>

\* The clock and the janitor; the signal that starts a shutdown also stops
\* the janitor.
LimiterStep ==
    /\ Running
    /\ Advance \/ (server = "up" /\ (TickerFires \/ Sweep))
    /\ UNCHANGED <<server, today, requestVars, count, sem>>

\* SIGTERM: Shutdown closes the listener and waits.
Terminate ==
    /\ server = "up"
    /\ server' = "draining"
    /\ UNCHANGED <<limiterVars, today, requestVars, count, sem>>

AtWork(q) == pc[q] \in {"limited", "counted", "handed", "debating"}

\* What is left of the requests when the process is gone.
Gone ==
    /\ server' = "down"
    /\ pc' = [q \in Requests |-> IF AtWork(q) THEN "gone" ELSE pc[q]]
    /\ status' = [q \in Requests |->
                    CASE pc[q] = "debating" -> "killed"
                      [] AtWork(q) /\ pc[q] # "debating" -> "dropped"
                      [] OTHER -> status[q]]
    /\ UNCHANGED <<limiterVars, today, from, addr, day, count, sem>>

\* Shutdown returns when no request is left that net/http still owns: a
\* hijacked connection is none of its business.  Then main returns.
Drained ==
    /\ server = "draining"
    /\ \A q \in Requests : pc[q] \notin {"limited", "counted", "handed"}
    /\ Gone

\* The ten seconds Shutdown is given are over, or the process crashes.
Killed ==
    /\ Running
    /\ Gone

\* A new process, with the same database file.
Start ==
    /\ server = "down"
    /\ server' = "up"
    /\ known' = {}
    /\ level' = [ip \in IPs |-> Capacity]
    /\ idle' = [ip \in IPs |-> 0]
    /\ due' = FALSE
    /\ lag' = 0
    /\ sem' = 0
    /\ UNCHANGED <<today, requestVars, count>>

Next ==
    \/ \E q \in Requests :
          \/ \E c \in Clients : \E header \in Headers(c) :
                Arrive(q, c, ClientIP(Peer(c), header))
          \/ CheckAndIncrement(q) \/ StoreFails(q)
          \/ AcquireSlot(q) \/ ServerBusy(q)
          \/ Upgrade(q) \/ UpgradeFails(q) \/ DebateEnds(q)
    \/ Midnight \/ LimiterStep
    \/ Terminate \/ Drained \/ Killed \/ Start

Spec == Init /\ [][Next]_vars

-----------------------------------------------------------------------------
(***************************************************************************)
(* Properties.                                                             *)
(***************************************************************************)
Of(ip, d) == {q \in Requests : addr[q] = ip /\ day[q] = d}
Started(q) == pc[q] = "debating" \/ status[q] \in {"debated", "killed"}

\* The semaphore counts the handlers that are running: no slot is lost when an
\* upgrade fails or a debate ends, and none is given back twice.
SlotsAreHeld ==
    Running => sem = Cardinality({q \in Requests : pc[q] \in {"handed", "debating"}})

\* No client starts more debates in a day than the quota, and each was counted
\* for its own address: whatever it says in its headers, whatever requests race
\* each other, and however often the process dies between the UPSERT and the
\* debate.
QuotaIsKept ==
    \A c \in Clients, d \in 1..Days :
        LET debates == Cardinality({q \in Requests : from[q] = c /\ day[q] = d /\ Started(q)})
        IN  debates <= DailyQuota /\ debates <= count[d][c]

\* "Floods die with zero DB writes": a request the bucket turns away leaves no
\* trace in the table, one it lets through at most one.
FloodsCostNoWrites ==
    \A ip \in IPs, d \in 1..Days :
        count[d][ip] <= Cardinality({q \in Of(ip, d) : status[q] # "too many requests"})

\* "Per-IP soft daily cap on debates started": who is told that the daily
\* limit is reached has had that many debates that day, counting those about
\* to start and those that failed on the way, but not the requests that were
\* turned away because the server was busy.
DenialsAreEarned ==
    \A q \in Requests : status[q] = "daily limit reached" =>
        Cardinality({p \in Of(addr[q], day[q]) :
                        \/ Started(p) \/ pc[p] \in {"counted", "handed"}
                        \/ status[p] \in {"quota check failed", "not upgraded", "dropped"}})
            >= DailyQuota

\* "Graceful shutdown that drains live WebSocket sessions": a shutdown that
\* was given the time it needs ends no debate.
ShutdownDrainsDebates ==
    [][Drained => \A q \in Requests : pc[q] # "debating"]_vars
=============================================================================
