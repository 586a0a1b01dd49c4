---------------------------- MODULE LifeTimeEvict ----------------------------
(***************************************************************************)
(* The time-to-live rule, storages/rules/lifetime_evict.py: a dict from    *)
(* keys to absolute expiry times, consulted lazily when a key is read.     *)
(* on_get reads the dict, then compares with the clock and pops the key:   *)
(* another thread may write a new expiry in between.  The code's test      *)
(* "if expiry and ..." treats a missing expiry and an expiry of 0.0 alike; *)
(* every expiry here is at least 1, the clock starting at 0.               *)
(***************************************************************************)
EXTENDS Naturals, SequencesExt

VARIABLE expiryTimes        \* LifeTimeEvict._expiry_times

LifeInit == expiryTimes = [k \in {} |-> 0]

(* self._expiry_times[key] = time.monotonic() + ttl_seconds *)
LifeRecord(k, expiry) ==
  expiryTimes' = [x \in DOMAIN expiryTimes \cup {k} |->
                    IF x = k THEN expiry ELSE expiryTimes[x]]

(* time.monotonic() >= expiry *)
LifeExpired(expiry, now) == now >= expiry

(* self._expiry_times.pop(key, None) *)
LifeForget(k) == expiryTimes' = Restrict(expiryTimes, DOMAIN expiryTimes \ {k})

(* self._expiry_times.clear() *)
LifeForgetAll == expiryTimes' = Restrict(expiryTimes, {})

=============================================================================
