-------------------------------- MODULE Cache --------------------------------
(***************************************************************************)
(* The Cache facade, cache.py, over the in-memory provider without rules,  *)
(* which is what Cache() builds by default.  Threads call the programmatic *)
(* operations and decorated functions at once: the asynchronous versions   *)
(* run the synchronous ones in worker threads (asyncio.to_thread) and      *)
(* await the decorated coroutine between two of them, so their steps are   *)
(* those of a thread.  A step is one access to the storage dictionary or   *)
(* to a counter.  self._hits += 1 is a read and a write: the interpreters  *)
(* the project supports include CPython 3.9, which may switch threads      *)
(* between them.                                                           *)
(*                                                                         *)
(* Building a key is private to the caller and is given here by constants: *)
(* the key a request has, or that it has none, and the scope of a key.     *)
(***************************************************************************)
EXTENDS InMemory

CONSTANTS
  Threads,
  Requests,       \* a decorated function with its arguments
  KeyOf,          \* its key, or None when building one raises (cache.py:224)
  NoneRequests,   \* the requests whose function returns None
  ProgrammaticKeys, \* keys in the namespace "__programmatic__"
  TTLs,           \* ttl_seconds, of a decorator or a set; 0 stands for 0 or less
  Scopes,         \* scope paths
  ScopeOf,        \* the scope path of a key
  Covers,         \* Covers[p], the paths equal to p or descendants of it
  Malformed,      \* the keys CacheKey.from_string raises ValueError on
  MaxVersion,     \* bound on the changes of the data the functions compute
  MaxClock        \* bound on the clock

Result(r, n) == [request |-> r, version |-> n]
Results == {Result(r, n) : r \in Requests, n \in 0..MaxVersion}

ASSUME RequestsAssumption ==
  /\ KeyOf \in [Requests -> (Keys \ ProgrammaticKeys) \cup {None}]
  /\ NoneRequests \subseteq Requests /\ None \notin Requests

ASSUME CacheKeysAssumption ==
  /\ ProgrammaticKeys \subseteq Keys /\ Malformed \subseteq Keys
  /\ ScopeOf \in [Keys -> Scopes]
  /\ Covers \in [Scopes -> SUBSET Scopes] /\ None \notin Scopes

ASSUME ResultsAssumption == Results \cup {None} \subseteq Values /\ None \notin Results

ASSUME BoundsAssumption == IsFiniteSet(Threads) /\ MaxVersion \in Nat

ASSUME CacheTTLsAssumption == TTLs \subseteq Nat

VARIABLES
  count,     \* self._hits, self._misses and self._evictions
  version,   \* of the data the decorated functions compute their results from
  frame      \* frame[t]: the call thread t is executing

vars == <<cache, clock, count, version, frame>>

Counters == {"hits", "misses", "evictions"}

(* counter is the one the call is about to increment or reset, and read the *)
(* value it has read of it; val is the value looked up or computed; todo    *)
(* the keys listed by evict_by_scope and not visited yet, scope the path it *)
(* evicts and removed its local count.                                      *)
Idle == [pc |-> "idle", op |-> "none", request |-> None, key |-> None, ttl |-> 0,
         val |-> None, counter |-> "hits", read |-> 0, scope |-> None,
         todo |-> {}, removed |-> 0]

Init ==
  /\ InMemoryInit
  /\ count = [c \in Counters |-> 0]
  /\ version = 0
  /\ frame = [t \in Threads |-> Idle]

At(t, pc) == frame[t].pc = pc

Return(t) == frame' = [frame EXCEPT ![t] = Idle]

-----------------------------------------------------------------------------
(* _get_from_storage(key): one lookup, then hits or misses += 1.  The frame *)
(* f says what the call is.                                                 *)

Lookup(t, f) ==
  frame' = [frame EXCEPT ![t] =
    IF Stored(f.key)
    THEN [f EXCEPT !.pc = "count", !.counter = "hits", !.val = cache[f.key].value]
    ELSE [f EXCEPT !.pc = "count", !.counter = "misses"]]

(* get, aget *)
Get(t, k) ==
  /\ At(t, "idle")
  /\ Lookup(t, [Idle EXCEPT !.op = "get", !.key = k])
  /\ UNCHANGED <<cache, clock, count, version>>

(* A call of a decorated function.  When building the key raises, the       *)
(* function runs and the cache is not used.                                 *)
Call(t, r, ttl) ==
  /\ At(t, "idle")
  /\ LET f == [Idle EXCEPT !.op = "call", !.request = r, !.key = KeyOf[r], !.ttl = ttl]
     IN  IF KeyOf[r] = None
         THEN frame' = [frame EXCEPT ![t] = [f EXCEPT !.pc = "run"]]
         ELSE Lookup(t, f)
  /\ UNCHANGED <<cache, clock, count, version>>

CountRead(t) ==
  /\ At(t, "count")
  /\ frame' = [frame EXCEPT ![t].pc = "increment", ![t].read = count[frame[t].counter]]
  /\ UNCHANGED <<cache, clock, count, version>>

(* Mutant: a call that found its value runs the function all the same. *)
AfterCountRuns(f) ==
  CASE f.op = "call"  -> [f EXCEPT !.pc = "run"]
    [] f.op = "scope" -> [f EXCEPT !.pc = "scope"]
    [] OTHER          -> Idle

(* Where a call goes after its counter: a cached value that is not None is  *)
(* returned, a missing one or None has the function run.                    *)
AfterCount(f) ==
  CASE f.op = "call" /\ f.val = None -> [f EXCEPT !.pc = "run"]
    [] f.op = "scope"                -> [f EXCEPT !.pc = "scope"]
    [] OTHER                         -> Idle

CountWrite(t) ==
  /\ At(t, "increment")
  /\ count' = [count EXCEPT ![frame[t].counter] = frame[t].read + 1]
  /\ frame' = [frame EXCEPT ![t] = AfterCount(frame[t])]
  /\ UNCHANGED <<cache, clock, version>>

-----------------------------------------------------------------------------
(* The decorated function, then _set_in_storage.  A function reads its data *)
(* at some moment of its run and returns at a later one; of several reads   *)
(* the version is that of the oldest.                                       *)

FunctionReads(t) ==
  /\ At(t, "run")
  /\ frame' = [frame EXCEPT ![t] =
       [frame[t] EXCEPT !.pc = "computed",
          !.val = IF frame[t].request \in NoneRequests THEN None
                  ELSE Result(frame[t].request, version)]]
  /\ UNCHANGED <<cache, clock, count, version>>

(* Mutant: the result is stored even when there is no key. *)
FunctionReturnsStoring(t) ==
  /\ At(t, "computed")
  /\ frame' = [frame EXCEPT ![t].pc = "store"]
  /\ UNCHANGED <<cache, clock, count, version>>

FunctionReturns(t) ==
  /\ At(t, "computed")
  /\ frame' = [frame EXCEPT ![t] =
       IF frame[t].key = None \/ frame[t].ttl <= 0
       THEN Idle
       ELSE [frame[t] EXCEPT !.pc = "store"]]
  /\ UNCHANGED <<cache, clock, count, version>>

(* The function raises, or the coroutine is cancelled: nothing is stored. *)
FunctionRaises(t) ==
  /\ At(t, "run") \/ At(t, "computed")
  /\ Return(t)
  /\ UNCHANGED <<cache, clock, count, version>>

Store(t) ==
  /\ At(t, "store")
  /\ StorageSet(frame[t].key, frame[t].val, frame[t].ttl)
  /\ Return(t)
  /\ UNCHANGED <<clock, count, version>>

(* set, aset; with no time to live they change nothing *)
Set(t, k, v, ttl) ==
  /\ At(t, "idle")
  /\ ttl > 0
  /\ StorageSet(k, v, ttl)
  /\ UNCHANGED <<clock, count, version, frame>>

-----------------------------------------------------------------------------
(* evict, aevict: the counter goes up whether or not the key was there *)

Evict(t, k) ==
  /\ At(t, "idle")
  /\ StorageEvict(k)
  /\ frame' = [frame EXCEPT ![t] = [Idle EXCEPT !.pc = "count", !.op = "evict",
                                    !.key = k, !.counter = "evictions"]]
  /\ UNCHANGED <<clock, count, version>>

(* evict_by_scope of a valid scope: get_all_keys is a copy of the keys; an  *)
(* invalid one is logged and nothing changes.                               *)
EvictByScope(t, p) ==
  /\ At(t, "idle")
  /\ frame' = [frame EXCEPT ![t] = [Idle EXCEPT !.pc = "scope", !.op = "scope",
                                    !.scope = p, !.todo = DOMAIN cache]]
  /\ UNCHANGED <<cache, clock, count, version>>

(* The loop visits the copy in the order of insertion, which is not kept    *)
(* here: any order.                                                         *)
(* Mutant: the descendants are left out. *)
InScopeExactly(f, k) == ScopeOf[k] = f.scope

InScope(f, k) == ScopeOf[k] \in Covers[f.scope]

ScopeEvicts(t) ==
  /\ At(t, "scope")
  /\ \E k \in frame[t].todo \ Malformed :
       /\ InScope(frame[t], k)
       /\ StorageEvict(k)
       /\ frame' = [frame EXCEPT ![t].pc = "count", ![t].counter = "evictions", ![t].key = k,
                                 ![t].todo = @ \ {k}, ![t].removed = @ + 1]
  /\ UNCHANGED <<clock, count, version>>

(* Mutants: a key that is passed over is counted as removed; it is counted  *)
(* as an eviction; the loop does not advance.                               *)
ScopePassesRemoved(t) ==
  /\ At(t, "scope")
  /\ \E k \in frame[t].todo \ Malformed :
       /\ ~InScope(frame[t], k)
       /\ frame' = [frame EXCEPT ![t].todo = @ \ {k}, ![t].removed = @ + 1]
  /\ UNCHANGED <<cache, clock, count, version>>

ScopePassesEvictions(t) ==
  /\ At(t, "scope")
  /\ \E k \in frame[t].todo \ Malformed :
       /\ ~InScope(frame[t], k)
       /\ frame' = [frame EXCEPT ![t].todo = @ \ {k}, ![t].pc = "count",
                                 ![t].counter = "evictions"]
  /\ UNCHANGED <<cache, clock, count, version>>

ScopePassesAgain(t) ==
  /\ At(t, "scope")
  /\ \E k \in frame[t].todo \ Malformed : ~InScope(frame[t], k)
  /\ UNCHANGED vars

ScopePasses(t) ==
  /\ At(t, "scope")
  /\ \E k \in frame[t].todo \ Malformed :
       /\ ~InScope(frame[t], k)
       /\ frame' = [frame EXCEPT ![t].todo = @ \ {k}]
  /\ UNCHANGED <<cache, clock, count, version>>

(* from_string raises ValueError out of evict_by_scope *)
ScopeRaises(t) ==
  /\ At(t, "scope")
  /\ frame[t].todo \cap Malformed # {}
  /\ Return(t)
  /\ UNCHANGED <<cache, clock, count, version>>

ScopeReturns(t) ==
  /\ At(t, "scope")
  /\ frame[t].todo = {}
  /\ Return(t)
  /\ UNCHANGED <<cache, clock, count, version>>

-----------------------------------------------------------------------------
(* clear, aclear: the storage, then the three counters in turn *)

Clear(t) ==
  /\ At(t, "idle")
  /\ StorageClear
  /\ frame' = [frame EXCEPT ![t] = [Idle EXCEPT !.pc = "reset", !.op = "clear"]]
  /\ UNCHANGED <<clock, count, version>>

(* Mutant: the evictions are not reset. *)
ResetTwo(t) ==
  /\ At(t, "reset")
  /\ count' = [count EXCEPT ![frame[t].counter] = 0]
  /\ frame' = [frame EXCEPT ![t] =
       IF frame[t].counter = "hits" THEN [frame[t] EXCEPT !.counter = "misses"] ELSE Idle]
  /\ UNCHANGED <<cache, clock, version>>

Reset(t) ==
  /\ At(t, "reset")
  /\ count' = [count EXCEPT ![frame[t].counter] = 0]
  /\ frame' = [frame EXCEPT ![t] =
       CASE frame[t].counter = "hits"      -> [frame[t] EXCEPT !.counter = "misses"]
         [] frame[t].counter = "misses"    -> [frame[t] EXCEPT !.counter = "evictions"]
         [] frame[t].counter = "evictions" -> Idle]
  /\ UNCHANGED <<cache, clock, version>>

-----------------------------------------------------------------------------

(* The data behind the decorated functions changes. *)
Change ==
  /\ version < MaxVersion
  /\ version' = version + 1
  /\ UNCHANGED <<cache, clock, count, frame>>

Tick ==
  /\ clock < MaxClock
  /\ clock' = clock + 1
  /\ UNCHANGED <<cache, count, version, frame>>

Enter(t) ==
  \/ \E k \in ProgrammaticKeys : Get(t, k) \/ Evict(t, k)
  \/ \E k \in ProgrammaticKeys, v \in Values, ttl \in TTLs : Set(t, k, v, ttl)
  \/ \E r \in Requests, ttl \in TTLs : Call(t, r, ttl)
  \/ \E p \in Scopes : EvictByScope(t, p)
  \/ Clear(t)

Step(t) ==
  \/ CountRead(t) \/ CountWrite(t)
  \/ FunctionReads(t) \/ FunctionReturns(t) \/ FunctionRaises(t) \/ Store(t)
  \/ ScopeEvicts(t) \/ ScopePasses(t) \/ ScopeRaises(t) \/ ScopeReturns(t)
  \/ Reset(t)

Next == Change \/ Tick \/ \E t \in Threads : Enter(t) \/ Step(t)

Spec == Init /\ [][Next]_vars

(* A runnable thread runs, and a decorated function ends.  Nobody is        *)
(* obliged to make a call.                                                  *)
FairSpec == Spec /\ \A t \in Threads : WF_vars(Step(t))

-----------------------------------------------------------------------------
(* Correctness. *)

CacheFrame ==
  [pc : {"idle", "count", "increment", "run", "computed", "store", "scope", "reset"},
   op : {"none", "get", "call", "evict", "scope", "clear"},
   request : Requests \cup {None}, key : Keys \cup {None}, ttl : Nat, val : Values,
   counter : Counters, read : Nat, scope : Scopes \cup {None},
   todo : SUBSET Keys, removed : Nat]

(* Every variable has its type, and a call has the registers its next step  *)
(* reads.                                                                   *)
TypeOK ==
  /\ InMemoryTypeOK
  /\ count \in [Counters -> Nat]
  /\ version \in Nat
  /\ frame \in [Threads -> CacheFrame]
  /\ \A t \in Threads :
       /\ At(t, "idle") <=> frame[t].op = "none"
       /\ At(t, "run") \/ At(t, "computed") \/ At(t, "store") => frame[t].op = "call"
       /\ At(t, "store") => frame[t].key \in Keys
       /\ frame[t].op = "call" => frame[t].request \in Requests
       /\ frame[t].op = "scope" <=> frame[t].scope \in Scopes
       /\ At(t, "scope") => frame[t].op = "scope"
       /\ At(t, "reset") <=> frame[t].op = "clear"

(* A scope eviction works on a copy of the keys, so it ends even while      *)
(* other threads keep adding keys to its scope.                             *)
ScopeEvictionEnds ==
  \A t \in Threads : At(t, "scope") ~> At(t, "idle")

=============================================================================
