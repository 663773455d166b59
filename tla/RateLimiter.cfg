SPECIFICATION LimiterFairSpec
CONSTANTS
    IPs = {ip1, ip2}
    Burst = 2
    Cost = 2
    Refill = 1
    TTL = 4
    MaxLag = 2
PROPERTIES
    EvictionIsInvisible
    IdleIsForgotten
