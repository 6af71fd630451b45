--------------------------- MODULE MCRedisBreaker ---------------------------
EXTENDS RedisBreaker

CONSTANTS c1, c2, c3
=============================================================================
