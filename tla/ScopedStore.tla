----------------------------- MODULE ScopedStore -----------------------------
(***************************************************************************)
(* What a cache with hierarchical scopes promises its caller.  An item     *)
(* belongs to a place, which is the sequence of the members on the way     *)
(* down to it (an organisation, then one of its users), and has a name     *)
(* there.  Items in different places, or of different names, have nothing  *)
(* to do with each other, except that a place can be emptied with all that *)
(* is below it.  Paths, key strings, hashes and the dictionary are out of  *)
(* sight.                                                                  *)
(***************************************************************************)
EXTENDS Integers, FiniteSets, SequencesExt

CONSTANTS Items, Places, TTLs, None

VARIABLES
  items,    \* the items held, each [place, name]
  answer    \* the last call, and what it answered

NoAnswer ==
  [op |-> "none", item |-> None, ttl |-> 0, place |-> None, result |-> None, count |-> 0]

Init == items = {} /\ answer = NoAnswer

(* What is stored for no time is not stored, and replaces nothing. *)
Kept(i, ttl) == IF ttl > 0 THEN items \cup {i} ELSE items

Put(i, ttl) ==
  /\ items' = Kept(i, ttl)
  /\ answer' = [NoAnswer EXCEPT !.op = "put", !.item = i, !.ttl = ttl]

(* The item asked for or nothing, never another one. *)
Look(i) ==
  /\ answer' = [NoAnswer EXCEPT !.op = "look", !.item = i,
                                !.result = IF i \in items THEN i ELSE None]
  /\ UNCHANGED items

Drop(i) ==
  /\ items' = items \ {i}
  /\ answer' = [NoAnswer EXCEPT !.op = "drop", !.item = i]

(* A decorated call answers with its own result, and keeps it. *)
Memoize(i, ttl) ==
  /\ items' = Kept(i, ttl)
  /\ answer' = [NoAnswer EXCEPT !.op = "call", !.item = i, !.ttl = ttl, !.result = i]

(* A result that belongs nowhere is computed anew each time. *)
Compute(i, ttl) ==
  /\ i.place = None
  /\ answer' = [NoAnswer EXCEPT !.op = "uncached", !.item = i, !.ttl = ttl, !.result = i]
  /\ UNCHANGED items

DropUnder(p) ==
  LET below == {i \in items : IsPrefix(p, i.place)}
  IN  /\ items' = items \ below
      /\ answer' = [NoAnswer EXCEPT !.op = "drop_under", !.place = p,
                                    !.count = Cardinality(below)]

DropAll == items' = {} /\ answer' = [NoAnswer EXCEPT !.op = "drop_all"]

(* A call that does not say where. *)
Refuse == answer' = [NoAnswer EXCEPT !.op = "refused"] /\ UNCHANGED items

(* The answer names what the call is about. *)
Next ==
  \/ \E i \in Items \cap {answer'.item} :
       \/ Look(i) \/ Drop(i)
       \/ \E ttl \in TTLs \cap {answer'.ttl} : Put(i, ttl) \/ Memoize(i, ttl) \/ Compute(i, ttl)
  \/ \E p \in Places \cap {answer'.place} : DropUnder(p)
  \/ DropAll \/ Refuse

Spec == Init /\ [][Next]_<<items, answer>>

=============================================================================
