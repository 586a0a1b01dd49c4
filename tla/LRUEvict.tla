------------------------------ MODULE LRUEvict ------------------------------
(***************************************************************************)
(* The least-recently-used rule, storages/rules/lru_evict.py.  Its state   *)
(* is one OrderedDict, kept here as the sequence of its keys, the least    *)
(* recently used first (the timestamps stored beside the keys are never    *)
(* read).  The hooks on_set and on_get are several dictionary calls each,  *)
(* and another thread may run between any two of them, so this module      *)
(* gives one operator per call; RuleAwareStorage sequences them.           *)
(***************************************************************************)
EXTENDS Naturals, SequencesExt

CONSTANT LruMaxItems        \* LRUEvict._max_items

(* lru_evict.py:30, "Must be greater than 0" *)
ASSUME LruAssumption == LruMaxItems \in Nat \ {0}

VARIABLE accessOrder        \* LRUEvict._access_order

LruTracked == ToSet(accessOrder)

LruInit == accessOrder = <<>>

(* The keys without k, the rest in the order they had. *)
Without(k) == RemoveFirst(accessOrder, k)

(* Mutant: a key already present is added again. *)
LruInsertAgain(k) == accessOrder' = Append(accessOrder, k)

(* self._access_order[key] = ...: a key already present keeps its place *)
LruInsert(k) ==
  accessOrder' = IF k \in LruTracked THEN accessOrder ELSE Append(accessOrder, k)

(* self._access_order.move_to_end(key, last=True), of a key that is present *)
LruMoveToEnd(k) == accessOrder' = Append(Without(k), k)

(* Mutant: one too many is let in. *)
LruOverfullLate == Len(accessOrder) > LruMaxItems + 1

(* len(self._access_order) > self._max_items *)
LruOverfull == Len(accessOrder) > LruMaxItems

(* self._access_order.popitem(last=False), of a dict that is not empty *)
LruOldest == Head(accessOrder)
LruPopOldest == accessOrder' = Tail(accessOrder)

(* Mutant: the hook does nothing. *)
LruForgetNothing(k) == UNCHANGED accessOrder

(* self._access_order.pop(key, None) *)
LruForget(k) == accessOrder' = Without(k)

(* Mutant: the hook does nothing. *)
LruForgetNone == UNCHANGED accessOrder

(* self._access_order.clear() *)
LruForgetAll == accessOrder' = <<>>

=============================================================================
