-------------------------- MODULE MCRedisRateLimit --------------------------
EXTENDS RedisRateLimit, TLC

CONSTANTS r1, r2, r3, gw1, gw2

\* Two requests at one replica, and one at another.
TwoReplicas == [r \in Request |-> IF r = r3 THEN gw2 ELSE gw1]

\* One request at either replica has a response that takes tokens.
SomeCost == [r \in Request |-> IF r = r2 THEN 0 ELSE 1]
=============================================================================
