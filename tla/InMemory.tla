------------------------------ MODULE InMemory ------------------------------
(***************************************************************************)
(* The in-memory storage provider, storages/in_memory.py: one Python dict  *)
(* from key strings to (value, absolute expiry) tuples.  Every method is   *)
(* one dict operation, which the interpreter executes atomically, so each  *)
(* is one action here.  The provider records the expiry and never looks at *)
(* it again: expiring entries is left to the rules.                        *)
(***************************************************************************)
EXTENDS Naturals, FiniteSets, SequencesExt

CONSTANTS
  Keys,    \* the key strings
  Values,  \* the cached payloads
  None     \* Python's None, in registers that hold nothing

ASSUME NoneAssumption == None \notin Keys

VARIABLES
  cache,   \* self._cache, a function whose domain is the set of stored keys
  clock    \* time.monotonic(), in units of the smallest ttl

Entry == [value : Values, expiry : Nat]

InMemoryTypeOK ==
  /\ DOMAIN cache \subseteq Keys
  /\ cache \in [DOMAIN cache -> Entry]
  /\ clock \in Nat

InMemoryInit == cache = [k \in {} |-> None] /\ clock = 0

(* self._cache.get(key, None) finds an entry *)
Stored(k) == k \in DOMAIN cache

(* self._cache[key] = (value, time.monotonic() + ttl_seconds) *)
StorageSet(k, v, ttl) ==
  cache' = [x \in DOMAIN cache \cup {k} |->
              IF x = k THEN [value |-> v, expiry |-> clock + ttl] ELSE cache[x]]

(* self._cache.pop(key, None) *)
StorageEvict(k) == cache' = Restrict(cache, DOMAIN cache \ {k})

(* self._cache.clear() *)
StorageClear == cache' = Restrict(cache, {})

=============================================================================
