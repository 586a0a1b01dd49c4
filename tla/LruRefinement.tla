--------------------------- MODULE LruRefinement ---------------------------
(***************************************************************************)
(* RuleAwareStorage with the LRU rule, with or without the life-time rule, *)
(* called by one thread, implements LruCache.  Under other tuples of rules *)
(* nothing is promised, and the mapping shows an empty cache at rest.      *)
(***************************************************************************)
EXTENDS RuleAwareStorage

Caller == CHOOSE t \in Threads : TRUE

IsLruCache == "lru" \in Active /\ "max" \notin Active
IsTimed == IsLruCache /\ "life" \in Active

(* The rule remembers one key at most that the caller will not find: a set  *)
(* registers its key before it stores it, and a removal is told to the rule *)
(* after it is decided and made.                                            *)
Absent ==
  LET f == frame[Caller]
  IN  CASE f.op = "set" /\ ~Stored(f.key)                      -> f.key
        [] f.op # "set" /\ f.pc \in {"delete", "on_evict"} -> f.victim
        [] OTHER -> None

(* The keys held, as the rule orders them.  The victim of a set leaves the  *)
(* order when the rule gives it up, before it leaves the storage.           *)
Recency ==
  IF IsLruCache /\ frame[Caller].pc # "on_clear" THEN Without(Absent) ELSE <<>>

(* What a call owes is what the hooks it has still to run will do. *)
Ahead(r) == r \in Active /\ frame[Caller].i <= Position(r)

(* A deadline belongs to a key that is held, or that a set has promised one. *)
Owners ==
  LET f == frame[Caller]
  IN  ToSet(Recency) \cup (IF f.op = "set" /\ ~Ahead("life") THEN {f.key} ELSE {})

Deadline ==
  Restrict(expiryTimes, IF IsTimed THEN DOMAIN expiryTimes \cap Owners ELSE {})

OwedByGet ==
  IF frame[Caller].key \notin ToSet(Recency) THEN {}
  ELSE (IF Ahead("lru") THEN {"use"} ELSE {}) \cup (IF Ahead("life") THEN {"check"} ELSE {})

OwedBySet == IF Ahead("life") THEN {"deadline"} ELSE {}

Pending ==
  IF ~IsLruCache THEN [op |-> "none", key |-> None, ttl |-> 0, owes |-> {}]
  ELSE [op |-> frame[Caller].op, key |-> frame[Caller].key, ttl |-> frame[Caller].ttl,
        owes |-> CASE frame[Caller].op = "get" -> OwedByGet
                   [] frame[Caller].op = "set" -> OwedBySet
                   [] OTHER                    -> {}]

Lru == INSTANCE LruCache WITH
         MaxItems <- LruMaxItems, timed <- IsTimed, recency <- Recency,
         deadline <- Deadline, pending <- Pending, now <- clock

(* Every behaviour of the storage, seen through the mapping, is one of the  *)
(* LRU cache: reads count as uses, and only the coldest key is given up for *)
(* a new one and only an expired key for its age (lru_evict.py:35-74,       *)
(* lifetime_evict.py:26-44, rule_aware_storage.py:23-66).                   *)
ImplementsLruCache == Lru!Spec

=============================================================================
