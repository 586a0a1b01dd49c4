---------------------------- MODULE MaxItemsEvict ----------------------------
(***************************************************************************)
(* The hard-limit rule, storages/rules/max_items_evict.py: a set of the    *)
(* keys it has admitted.  on_set is three set operations (membership,      *)
(* length, add), and other threads may run between them.                   *)
(***************************************************************************)
EXTENDS Naturals, FiniteSets

CONSTANT HardMaxItems       \* MaxItemsEvict._max_items

(* max_items_evict.py:27, "Must be greater than 0" *)
ASSUME HardAssumption == HardMaxItems \in Nat \ {0}

VARIABLE admitted           \* MaxItemsEvict._keys

HardInit == admitted = {}

(* Mutant: > for >=. *)
HardFullLate == Cardinality(admitted) > HardMaxItems

(* len(self._keys) >= self._max_items *)
HardFull == Cardinality(admitted) >= HardMaxItems

(* self._keys.add(key) *)
HardAdmit(k) == admitted' = admitted \cup {k}

(* Mutant: the hook does nothing. *)
HardForgetNothing(k) == UNCHANGED admitted

(* self._keys.discard(key) *)
HardForget(k) == admitted' = admitted \ {k}

(* self._keys.clear() *)
HardForgetAll == admitted' = {}

=============================================================================
