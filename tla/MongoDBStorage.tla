--------------------------- MODULE MongoDBStorage ---------------------------
(***************************************************************************)
(* The MongoDB provider, storages/mongodb.py.  An entry is a document with *)
(* a field "key".  With the unique index on it that check_collection asks  *)
(* for, each method is one atomic step of the server.  The constructor     *)
(* goes on when the index is refused, and then an upsert that finds no     *)
(* document inserts one in a second step, so that a key may have several   *)
(* documents.                                                              *)
(*                                                                         *)
(* cache[k] is the document find_one, update_one and delete_one meet first,*)
(* spare[k] the sequence of the others.                                    *)
(***************************************************************************)
EXTENDS InMemory

VARIABLES
  indexed,   \* whether the collection has the unique index
  spare

Spares == [Keys -> Seq(Entry)]
NoSpare == [k \in Keys |-> <<>>]

Document(v, expiry) == [value |-> v, expiry |-> expiry]

(* The documents of a key, counted. *)
Documents(k) == (IF Stored(k) THEN 1 ELSE 0) + Len(spare[k])

(* check_collection, of a collection the server may refuse to index; it     *)
(* must refuse one that holds a key twice.                                  *)
CheckCollection ==
  /\ indexed' \in {indexed, indexed \/ spare = NoSpare}
  /\ UNCHANGED <<cache, spare>>

(* $set on the first document of the key *)
UpdateOne(k, document) ==
  /\ cache' = [cache EXCEPT ![k] = document]
  /\ UNCHANGED spare

(* The insert of an upsert that has found no document: one may be there now.*)
InsertOne(k, document) ==
  IF Stored(k)
  THEN spare' = [spare EXCEPT ![k] = Append(@, document)] /\ UNCHANGED cache
  ELSE /\ cache' = [x \in DOMAIN cache \cup {k} |-> IF x = k THEN document ELSE cache[x]]
       /\ UNCHANGED spare

(* find_one: the value, or None *)
MongoAGet(k) == IF Stored(k) THEN cache[k].value ELSE None

(* delete_one, from a coroutine and, in a side effect of a rule, from a     *)
(* method                                                                   *)
MongoAEvict(k) ==
  IF spare[k] = <<>>
  THEN cache' = Restrict(cache, DOMAIN cache \ {k}) /\ UNCHANGED spare
  ELSE cache' = [cache EXCEPT ![k] = Head(spare[k])] /\ spare' = [spare EXCEPT ![k] = Tail(@)]
MongoEvict(k) == MongoAEvict(k)

(* delete_many({}) *)
MongoAClear == cache' = Restrict(cache, {}) /\ spare' = NoSpare

=============================================================================
