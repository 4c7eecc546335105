--------------------------- MODULE MCRedisLock ---------------------------
(* RedisLock for TLC: the clients are interchangeable. *)
EXTENDS RedisLock, TLC

ClientSymmetry == Permutations(Clients)
==========================================================================
