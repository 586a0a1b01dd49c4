------------------------------ MODULE CacheKey ------------------------------
(***************************************************************************)
(* Cache keys, utils/cache_types.py: a scope path, a namespace and a hash, *)
(* written "scope::namespace::hash" for the storage and parsed back when a *)
(* scope is evicted.  The text up to the hash is a sequence of tokens, as  *)
(* in ScopeConfig.  The hash is a decimal number, in which there is no     *)
(* separator; it is kept beside the text as a value that tells what was    *)
(* hashed.                                                                 *)
(***************************************************************************)
EXTENDS Naturals, SequencesExt

CONSTANT IntegerKeys   \* the programmatic keys that are integers, by their digits

(* hash((x,)) of what identifies an entry within its namespace.  Python     *)
(* gives -1 and -2 the same hash, and salts the hash of text and of bytes,  *)
(* differently in each process.                                             *)
Hash(arg, kwargs, process) ==
  [arg     |-> IF arg = "-1" /\ arg \in IntegerKeys THEN "-2" ELSE arg,
   kwargs  |-> kwargs,
   process |-> IF arg \in IntegerKeys THEN 0 ELSE process]

Separator == <<":", ":">>

(* Mutant: a single colon before the namespace. *)
AsStringOneColon(scope, namespace, hash) ==
  [text |-> scope \o <<":">> \o <<namespace>> \o Separator, hash |-> hash]

(* CacheKey(...).as_string() *)
AsString(scope, namespace, hash) ==
  [text |-> scope \o Separator \o <<namespace>> \o Separator, hash |-> hash]

(* text.split("::"), from the left: a separator ends a part, and a third    *)
(* colon belongs to the next one.                                           *)
ReadToken(parts, token) ==
  IF token = ":" /\ Last(parts) # <<>> /\ Last(Last(parts)) = ":"
  THEN Append(Front(parts) \o <<Front(Last(parts))>>, <<>>)
  ELSE Front(parts) \o <<Append(Last(parts), token)>>

Parts(text) ==
  LET Upto[n \in 0..Len(text)] ==
        IF n = 0 THEN << <<>> >> ELSE ReadToken(Upto[n - 1], text[n])
  IN  Upto[Len(text)]

(* from_string does not raise: three parts, of which the last is the hash. *)
IsCacheKey(key) == Len(Parts(key.text)) = 3

(* The attributes of from_string(key). *)
ScopePrefix(key) == Parts(key.text)[1]
Namespace(key) == Parts(key.text)[2]

=============================================================================
