------------------------ MODULE MCRedisConnectionPool ------------------------
(* Instances of RedisConnectionPool for TLC.                               *)
EXTENDS RedisConnectionPool, TLC
=============================================================================
