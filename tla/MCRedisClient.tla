---------------------------- MODULE MCRedisClient ----------------------------
(***************************************************************************)
(* One task that uses the pool and the subscriber: the two kinds of caller *)
(* the breaker has, free to interleave at every atomic access. Thresholds  *)
(* of two leave room between the first failure, or success, and the last.  *)
(***************************************************************************)
EXTENDS RedisClient

CONSTANT t1
MCTask   == {t1}
MCCaller == {t1, Sub}
=============================================================================
