SPECIFICATION Spec
CONSTANTS
    IPs = {ip1, ip2}
    Burst = 2
    Cost = 1
    Refill = 1
    TTL = 2
    MaxLag = 0
    Requests = {q1, q2, q3, q4}
    MaxSessions = 1
    DailyQuota = 2
    Days = 2
    Clients = {ip1}
    Proxy = ip2
    TrustProxy = TRUE
CHECK_DEADLOCK FALSE
PROPERTIES
    ShutdownDrainsDebates
