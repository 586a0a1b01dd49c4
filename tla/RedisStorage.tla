---------------------------- MODULE RedisStorage ----------------------------
(***************************************************************************)
(* The Redis provider, storages/redis.py.  Each method is one command, and *)
(* the server executes commands one at a time.  The JSON document under a  *)
(* key holds the value and the expiry, which the provider computes with    *)
(* the clock of its process before it sends the command, and never reads   *)
(* but to hand it out.  The a* methods send the same commands from a       *)
(* coroutine.                                                              *)
(***************************************************************************)
EXTENDS InMemory

(* time.monotonic() + ttl_seconds, as the command is built *)
RedisExpiry(ttl) == clock + ttl

(* SET *)
RedisASet(k, v, expiry) ==
  cache' = [x \in DOMAIN cache \cup {k} |->
              IF x = k THEN [value |-> v, expiry |-> expiry] ELSE cache[x]]

(* GET: the value, or None *)
RedisAGet(k) == IF Stored(k) THEN cache[k].value ELSE None

(* DEL, from a coroutine and, in a side effect of a rule, from a method *)
RedisAEvict(k) == cache' = Restrict(cache, DOMAIN cache \ {k})
RedisEvict(k) == RedisAEvict(k)

(* FLUSHDB *)
RedisAClear == cache' = Restrict(cache, {})

=============================================================================
