----------------------------- MODULE ScopedCache -----------------------------
(***************************************************************************)
(* The Cache facade with its scopes and keys: what a caller that says      *)
(* "this scope, with these parameters" gets, stores and removes, over an   *)
(* external store (storages/redis.py, storages/mongodb.py), which outlives *)
(* the process.  One call at a time; Cache has the interleavings, and takes*)
(* keys and scopes as given.                                               *)
(*                                                                         *)
(* A value that is stored is represented by a description of the item it   *)
(* was stored as: the place the caller meant, and its name there.          *)
(***************************************************************************)
EXTENDS Integers, ScopeConfig, CacheKey

CONSTANTS
  None,
  Tokens,         \* the separators, names and pieces of values texts are made of
  Configs,        \* the scope configurations
  ValueTexts,     \* ValueTexts[p], the texts of the values of parameter p
  ExtraParams,    \* whether callers pass parameters their scope does not need
  ProgrammaticNames, \* the keys of get, set and evict
  TTLs,           \* the lifetimes asked for, of which 0 and less are none
  Functions,      \* the decorated functions, each [id, name, scope, ttl]
  Arguments,      \* the positional and other arguments of a call
  Positional,     \* Positional[a], the scope parameters passed among them
  Unpicklable,    \* those for which _make_args_key raises TypeError
  MaxEntries,     \* bound on the entries stored
  MaxRestarts     \* bound on the restarts of the process

(* A tuple of levels is a scope too, and its last level the target.  It is  *)
(* told apart from the level itself only where that is "global".            *)
GlobalTuple == "('global',)"
Scopes(c) == LevelNames(c) \cup {GlobalTuple}
Target(scope) == IF scope = GlobalTuple THEN Global ELSE scope

ASSUME TokensAssumption == {":", "/", Global, "__programmatic__"} \subseteq Tokens

(* The name of a level is one token of a path. *)
ASSUME ConfigsAssumption ==
  \A c \in Configs :
    /\ IsNested(c) /\ NamesAreUnique(c)
    /\ LevelNames(c) \subseteq Tokens \ {":", "/"} /\ GlobalTuple \notin LevelNames(c)
    /\ \A l \in Levels(c) : c.param[l] \in DOMAIN ValueTexts

(* "::" cannot arise where a value meets a separator.  A value that breaks  *)
(* this makes from_string raise, which Cache models, or misread the key.    *)
ASSUME ValuesAssumption ==
  \A p \in DOMAIN ValueTexts : \A v \in ValueTexts[p] :
    /\ v \in Seq(Tokens) /\ v # <<>> /\ Head(v) # ":" /\ Last(v) # ":"
    /\ \A n \in 1..Len(v) - 1 : ~(v[n] = ":" /\ v[n + 1] = ":")

ASSUME NamesAssumption ==
  /\ IntegerKeys \subseteq ProgrammaticNames
  /\ Arguments \cap IntegerKeys = {} /\ Unpicklable \subseteq Arguments
  /\ \A f \in Functions : f.name \in Tokens \ {":"}

ASSUME CallsAssumption ==
  /\ TTLs \subseteq Int /\ \A f \in Functions : f.ttl \in TTLs
  /\ \A a \in Arguments : \A p \in DOMAIN Positional[a] :
       p \in DOMAIN ValueTexts /\ Positional[a][p] \in ValueTexts[p]

ASSUME BoundsAssumption == MaxEntries \in Nat /\ MaxRestarts \in Nat

VARIABLES
  config,    \* self._scope_config
  store,     \* the entries of the external store, by key
  process,   \* which process this is, counted from 0
  answer     \* the last call, and what it answered

vars == <<config, store, process, answer>>

NoAnswer ==
  [op |-> "none", item |-> None, ttl |-> 0, place |-> None, result |-> None, count |-> 0]

Init ==
  /\ config \in Configs
  /\ store = [k \in {} |-> None]
  /\ process = 0
  /\ answer = NoAnswer

(* What callers pass: parameters of the hierarchy by name. *)
AllParams(c) == {c.param[l] : l \in Levels(c)}
Texts(ps) == {g \in [ps -> UNION {ValueTexts[p] : p \in ps}] : \A p \in ps : g[p] \in ValueTexts[p]}
Passed ==
  [c \in Configs |-> [scope \in LevelNames(c) |->
     UNION {Texts(ps) : ps \in SUBSET (IF ExtraParams THEN AllParams(c) ELSE ParamsOf(c, scope))}]]

Valid(scope, given) == IsValid(config, Target(scope), given)

(* _build_scope_prefix, of a valid scope: the target is looked at for its   *)
(* parameters alone, so that ("global",) gets a path from what is passed.   *)
BuildScopePrefix(scope, given) ==
  IF scope = Global THEN <<Global>> ELSE BuildScopePath(config, given)

ProgrammaticKey(n, scope, given) ==
  AsString(BuildScopePrefix(scope, given), "__programmatic__", Hash(n, <<>>, process))

(* The namespace is func.__name__, and given is among the keyword arguments.*)
FunctionKey(f, arg, given) ==
  AsString(BuildScopePrefix(f.scope, given), f.name, Hash(arg, given, process))

-----------------------------------------------------------------------------
(* What the caller means. *)

(* The members of the levels down to the scope, by level and value. *)
Place(c, scope, given) ==
  LET path == PathToLevel(c, scope)
  IN  [n \in DOMAIN path |-> <<path[n], given[c.param[path[n]]]>>]

(* An item: a text or the arguments of a call are not found again by        *)
(* another process, whose hashes differ, and are other items to it.         *)
ProgrammaticItem(n, place, pid) ==
  [place |-> place, space |-> "__programmatic__", arg |-> n, kwargs |-> <<>>,
   process |-> IF n \in IntegerKeys THEN 0 ELSE pid]

FunctionItem(f, arg, given, place, pid) ==
  [place |-> place, space |-> f.id, arg |-> arg, kwargs |-> given, process |-> pid]

Here(scope, given) == Place(config, Target(scope), given)

(* The parameters a call passes, by name or by position. *)
Told(given, arg) ==
  [p \in DOMAIN given \cup DOMAIN Positional[arg] |->
     IF p \in DOMAIN given THEN given[p] ELSE Positional[arg][p]]

(* Where the result of a call belongs: nowhere, if the function was not     *)
(* told a parameter of its scope, or its arguments cannot be compared.      *)
ResultPlace(f, arg, given) ==
  LET told == Told(given, arg)
  IN  IF Valid(f.scope, told) /\ arg \notin Unpicklable THEN Here(f.scope, told) ELSE None

Answer(op, item, ttl, result) ==
  answer' = [NoAnswer EXCEPT !.op = op, !.item = item, !.ttl = ttl, !.result = result]

(* get, set and evict raise ValueError; evict_by_scope returns 0. *)
Refused(scope, given) ==
  /\ ~Valid(scope, given)
  /\ answer' = [NoAnswer EXCEPT !.op = "refused"]
  /\ UNCHANGED <<config, store, process>>

-----------------------------------------------------------------------------

Found(key) == IF key \in DOMAIN store THEN store[key] ELSE None

With(key, item) == [k \in DOMAIN store \cup {key} |-> IF k = key THEN item ELSE store[k]]

(* Mutant: whatever the lifetime. *)
StoredAnyway(key, item, ttl) == With(key, item)

(* _set_in_storage: without a lifetime nothing happens, and what is there   *)
(* stays.                                                                   *)
Stored(key, item, ttl) == IF ttl <= 0 THEN store ELSE With(key, item)

HasRoom(key) == key \in DOMAIN store \/ Cardinality(DOMAIN store) < MaxEntries

Get(n, scope, given) ==
  /\ Valid(scope, given)
  /\ Answer("look", ProgrammaticItem(n, Here(scope, given), process), 0,
            Found(ProgrammaticKey(n, scope, given)))
  /\ UNCHANGED <<config, store, process>>

Set(n, scope, given, ttl) ==
  LET key == ProgrammaticKey(n, scope, given)
      item == ProgrammaticItem(n, Here(scope, given), process)
  IN  /\ Valid(scope, given)
      /\ HasRoom(key)
      /\ store' = Stored(key, item, ttl)
      /\ Answer("put", item, ttl, None)
      /\ UNCHANGED <<config, process>>

Evict(n, scope, given) ==
  /\ Valid(scope, given)
  /\ store' = Restrict(store, DOMAIN store \ {ProgrammaticKey(n, scope, given)})
  /\ Answer("drop", ProgrammaticItem(n, Here(scope, given), process), 0, None)
  /\ UNCHANGED <<config, process>>

(* Mutant: what is stored is the coroutine, which is no result. *)
CallUnawaited(f, arg, given) ==
  LET key == FunctionKey(f, arg, given)
      item == FunctionItem(f, arg, given, ResultPlace(f, arg, given), process)
  IN  /\ Valid(f.scope, given) /\ arg \notin Unpicklable
      /\ HasRoom(key)
      /\ store' = IF key \in DOMAIN store THEN store ELSE Stored(key, None, f.ttl)
      /\ Answer("call", item, f.ttl, item)
      /\ UNCHANGED <<config, process>>

(* A call of a decorated function: the cached result, or its own, which is  *)
(* then stored.                                                             *)
Call(f, arg, given) ==
  LET key == FunctionKey(f, arg, given)
      item == FunctionItem(f, arg, given, ResultPlace(f, arg, given), process)
  IN  /\ Valid(f.scope, given) /\ arg \notin Unpicklable
      /\ HasRoom(key)
      /\ store' = IF key \in DOMAIN store THEN store ELSE Stored(key, item, f.ttl)
      /\ Answer("call", item, f.ttl, IF key \in DOMAIN store THEN store[key] ELSE item)
      /\ UNCHANGED <<config, process>>

(* No key can be built from the keyword arguments: the function runs, and   *)
(* the cache is not used.                                                   *)
CallUncached(f, arg, given) ==
  LET result == FunctionItem(f, arg, given, ResultPlace(f, arg, given), process)
  IN  /\ ~Valid(f.scope, given) \/ arg \in Unpicklable
      /\ Answer("uncached", result, f.ttl, result)
      /\ UNCHANGED <<config, store, process>>

(* evict_by_scope, of a valid scope *)
EvictByScope(scope, given) ==
  LET prefix == BuildScopePrefix(scope, given)
      hit == {k \in DOMAIN store : \/ ScopePrefix(k) = prefix
                                   \/ IsDescendantOf(ScopePrefix(k), prefix)}
  IN  /\ Valid(scope, given)
      /\ \A k \in DOMAIN store : IsCacheKey(k)
      /\ store' = Restrict(store, DOMAIN store \ hit)
      /\ answer' = [NoAnswer EXCEPT !.op = "drop_under", !.place = Here(scope, given),
                                    !.count = Cardinality(hit)]
      /\ UNCHANGED <<config, process>>

Clear ==
  /\ store' = [k \in {} |-> None]
  /\ answer' = [NoAnswer EXCEPT !.op = "drop_all"]
  /\ UNCHANGED <<config, process>>

(* Another process takes over the store, with the same configuration. *)
Restart ==
  /\ process < MaxRestarts
  /\ process' = process + 1
  /\ UNCHANGED <<config, store, answer>>

(* No parameter is passed both by position and by name. *)
Next ==
  \/ \E scope \in Scopes(config) : \E given \in Passed[config][Target(scope)] :
       \/ \E n \in ProgrammaticNames :
            \/ Get(n, scope, given) \/ Evict(n, scope, given)
            \/ \E ttl \in TTLs : Set(n, scope, given, ttl)
       \/ EvictByScope(scope, given)
       \/ Refused(scope, given)
  \/ \E f \in Functions : f.scope \in Scopes(config) /\
       \E arg \in Arguments : \E given \in Passed[config][Target(f.scope)] :
         /\ DOMAIN given \cap DOMAIN Positional[arg] = {}
         /\ Call(f, arg, given) \/ CallUncached(f, arg, given)
  \/ Clear
  \/ Restart

Spec == Init /\ [][Next]_vars

-----------------------------------------------------------------------------
(* Correctness. *)

(* Everything an item of a caller can be, for the type of the variables. *)
PlacesOf(c) ==
  UNION {{Place(c, scope, given) : given \in Texts(ParamsOf(c, scope))} :
           scope \in LevelNames(c)}
AllPlaces == UNION {PlacesOf(c) : c \in Configs}

FunctionItems(c, f) ==
  {FunctionItem(f, arg, given, place, p) :
     arg \in Arguments, given \in Passed[c][Target(f.scope)], place \in PlacesOf(c) \cup {None},
     p \in 0..MaxRestarts}

AllItems ==
  {ProgrammaticItem(n, place, p) :
     n \in ProgrammaticNames, place \in AllPlaces, p \in 0..MaxRestarts}
  \cup UNION {UNION {FunctionItems(c, f) : f \in {g \in Functions : g.scope \in Scopes(c)}} :
              c \in Configs}

(* Every variable has its type. *)
TypeOK ==
  /\ config \in Configs
  /\ \A k \in DOMAIN store :
       /\ store[k] \in AllItems
       /\ k.text \in Seq(Tokens)
  /\ Cardinality(DOMAIN store) <= MaxEntries
  /\ process \in 0..MaxRestarts
  /\ answer.item \in AllItems \cup {None} /\ answer.result \in AllItems \cup {None}
  /\ answer.ttl \in TTLs \cup {0}
  /\ answer.place \in AllPlaces \cup {None} /\ answer.count \in 0..MaxEntries

(* The path of a place. *)
PathOf(place) ==
  IF place = <<>> THEN <<Global>>
  ELSE Joined([n \in DOMAIN place |-> <<place[n][1], ":">> \o place[n][2]])

(* Every key in the store can be parsed, by this process or a later one,    *)
(* and gives back the path of the place its entry was meant for.  If it did *)
(* not, evict_by_scope would raise, or leave the entry out.                 *)
KeysParse ==
  \A k \in DOMAIN store :
    IsCacheKey(k) /\ ScopePrefix(k) = PathOf(store[k].place)

(* The paths get_parent_scope_path leads to, up from a path. *)
WaysUp(path) ==
  LET Up[n \in 0..Len(path)] == IF n = 0 THEN path ELSE ParentScopePath(Up[n - 1])
  IN  {Up[n] : n \in 0..Len(path)}

(* The three notions of "below" agree, for every stored entry and every     *)
(* place of the hierarchy: that of the caller's intent, is_descendant_of on *)
(* the paths, and repeated get_parent_scope_path.                           *)
HierarchyAgrees ==
  \A k \in DOMAIN store :
    LET child == ScopePrefix(k)
        up == WaysUp(child)
    IN  \A p \in PlacesOf(config) :
          LET path == PathOf(p)
              below == IsPrefix(p, store[k].place)
          IN  (IsDescendantOf(child, path) <=> below) /\ (path \in up <=> below)

-----------------------------------------------------------------------------
(* What the repository says and the code does not do. *)

(* README.md:20, "Hierarchical scope isolation", with                       *)
(* tests/test_cache.py:452: what was set for one member of a scope is not   *)
(* found for another one as deep as it.                                      *)
ScopeIsolation ==
  /\ answer.op = "look" /\ answer.result # None
  /\ Len(answer.result.place) = Len(answer.item.place)
  => answer.result = answer.item
=============================================================================
