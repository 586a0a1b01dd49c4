# Cacheado in TLA+

A verification project for Cacheado, a Python cache library: a `Cache` facade
with decorators and hierarchical scopes, storage providers (a dictionary,
Redis, MongoDB), and composable storage rules (LRU, hard limit, life time).
Paths below are relative to the repository.

## The system

| Component | State | Operations | What makes it correct |
|---|---|---|---|
| `Cache` (`cache.py`) | three counters; a reference to the storage | `get`, `set`, `evict`, `clear`, `evict_by_scope`, `stats`, decorated calls, and an async version of each | a decorated call returns what its function computes; an eviction leaves no data of its scope behind; statistics count what happened |
| `RuleAwareStorage` (`storages/rule_aware_storage.py`) | the inner storage and a tuple of rules | `set`, `get`, `evict`, `clear`, each running the hooks of every rule; a hook may answer EVICT, and the decorator then evicts that key, running the hooks again | what the rules remember and what is stored agree |
| `LRUEvict` (`storages/rules/lru_evict.py`) | an `OrderedDict`, least recent first | `on_set`, `on_get`, `on_evict`, `on_clear` | the storage never exceeds the capacity, and the victim is the least recently used key |
| `MaxItemsEvict` (`storages/rules/max_items_evict.py`) | the set of admitted keys | the same hooks | the limit is never exceeded |
| `LifeTimeEvict` (`storages/rules/lifetime_evict.py`) | a dictionary of expiry times | the same hooks | an expired value is evicted when it is read, and returned by that read at most (the documentation says by none) |
| `InMemory` (`storages/in_memory.py`) | a dictionary | `set`, `get`, `evict`, `clear`, `get_all_keys` | each is one atomic dictionary operation |
| `RedisStorage`, `MongoDBStorage` | an external store | the same, sync and async | what it holds survives a restart; a call may fail, or be executed after its caller has given up |
| `ScopeConfig`, `CacheKey` (`utils/`) | immutable | build, validate and compare scope paths; build and parse keys | paths of different scopes differ; descendants are recognised; parsing inverts building |
| protocols | none | interfaces | |

`Cache` calls its storage, which is an `InMemory` (or external) provider, or a
`RuleAwareStorage` around one when rules are given. Rules never call the
storage: they answer with a `RuleSideEffect`. `Cache.aget`, `aset`, `aevict`,
`aclear` and the asynchronous wrapper run the synchronous methods in worker
threads with `asyncio.to_thread`. The `a*` methods of the storages are for
programs that use a storage by itself. There is no lock anywhere. So several
threads are inside the rules and the dictionary at once, and what is atomic is
one call of a built-in dictionary, set or `OrderedDict` method.

What is hard here: the interleaving of threads between two such calls; a rule
that undoes what another recorded (the order of the rules matters); state read
before the rules run and used after; the computation of a result racing with
the eviction of its scope; an exception in the middle of a loop; and, for the
external stores, rules that forget across a restart what the store keeps.
`PROJECT.json` lists each hazard at its line.

## The modules

| Module | Models |
|---|---|
| `InMemory` | the provider: `cache` is the dictionary, `clock` is `time.monotonic()` |
| `LRUEvict`, `MaxItemsEvict`, `LifeTimeEvict` | the state of each rule, and one operator per call on its dictionary |
| `RuleAwareStorage` | the decorator over `InMemory` with any tuple of rules and any number of threads |
| `LruCache`, `LruRefinement` | what an LRU cache promises: a sequence of keys from the least to the most recently used, in which a read counts as a use, a capacity, an eviction of the head, and life times no read overlooks; and that the decorator with the LRU rule implements it |
| `RedisStorage`, `MongoDBStorage` | the commands of the two external providers, and what the server does with each |
| `PersistentStorage` | the `a*` methods of the decorator over one of them: tasks, failures, restarts |
| `PersistentHistory` | its history variable and properties |
| `Cache` | the facade over `InMemory` without rules, which is what `Cache()` builds; keys and scopes are given |
| `CacheHistory` | its history variables and properties |
| `ScopeConfig`, `CacheKey` | the scope tree and the algorithms on paths; building, hashing, writing and parsing of keys |
| `ScopedCache` | the facade with its keys and scopes, one call at a time, over a store that outlives the process |
| `ScopedStore`, `ScopedRefinement` | what a cache with hierarchical scopes promises its caller; and that `ScopedCache` implements it |
| `RuleAwareStorageProofs`, `SequentialProofs`, `LruRefinementProofs`, `PersistentProofs`, `UndisturbedProofs`, `CacheProofs`, `ScopeProofs`, `ScopedCacheProofs` | the theorems |
| `MCRuleAwareStorage`, `MCPersistentStorage`, `MCCache`, `MCScopedCache` | the instances for TLC: rule tuples, scope trees, symmetries |

**RuleAwareStorage.** One step is one access to shared data together with the
thread-local control around it. `frame[t]` is the stack of a thread: `pc` the
next access, `i` the position of the loop over the rules in `set` or `get`, `j`
the position of the loop of the nested `evict`, `victim` the key evicted, `got`
the tuple a `get` read before the rules ran. Each action is named for the
method and the access: `LruOnSetInsert`, `LruOnSetMove`, `LruOnSetLen` and
`LruOnSetPop` are the four dictionary calls of `LRUEvict.on_set`, and
`LruOnSetKeyError` is the exception its second one raises if the key has gone.
A `get` that finds nothing runs no rule and changes nothing, so it is not a
step. With one thread the specification is the sequential behaviour.
`LruRefinement` maps it to `LruCache`: the abstract order is that of the rule,
without the one key it may remember that is not stored (`Absent`). Each promise
has its moment: a victim leaves the abstract order when the rule picks it, a
`get` owes its use until `move_to_end`, and, where entries have a life time, a
look at the expiry until `LifeTimeEvict.on_get` has compared it; it may return
only when it owes nothing, and may drop its key only when that has expired.

**PersistentStorage** extends it with what differs in `aset`, `aget`, `aevict`
and `aclear`. Calls are tasks of one event loop: `running` is the task between
two awaits, and the hooks, which do not await, are the actions of
`RuleAwareStorage`, taken only by it. A request goes from `sent` to `answered`
when the server executes it (`Serve`), in any order among the requests under
way; the loop then resumes the task (`Resume`). A side effect of a rule calls
the synchronous `evict`, which makes the whole loop wait (`EvictInEffect`). A
call fails, or its task is cancelled or times out, at any moment of the await,
and the exception leaves the coroutine at once (`Fail`). Its request may then be
lost, may have been executed, or may still be under way, even between the two
halves of an upsert; in the last case it is one of the `abandoned` requests, which
the server executes at any later time or never (`LateServe`). `Restart` empties
the rules and leaves the store and any of the requests under way. In `MongoDBStorage`, the constructor goes on when the server refuses
the unique index; an upsert that finds no document then inserts one in a second
step, and a key may get `spare` documents, of which `delete_one` removes one at
a time. In `PersistentHistory`, `disturbed` records the keys about which the
code has no way to keep rules and store in agreement: those of a failed call,
those of two overlapping calls that store and remove the key (or, without the
index, both store it), and whatever is stored, or asked of the server, when the
process ends.

**Cache.** A call is a lookup, the two halves of `+= 1` (the supported
interpreters include CPython 3.9, which may switch threads between them), the
run of the function, and the store. `version` counts the changes of the data
the functions read, so that a result knows whether it is stale. A function reads
its data at one step (`FunctionReads`) and returns at a later one
(`FunctionReturns`), with anything in between: of several reads, the version is
that of the oldest. Building a key
touches no shared state: `KeyOf` gives the key of a request, or `None` when
building one raises and the function runs uncached (for instance because the
scope parameters were passed by position). `Malformed` are the keys
`CacheKey.from_string` rejects, those with `::` in a scope value. `Covers` is
"equal to the prefix or a descendant of it". How keys and paths come about is
the business of `ScopedCache`.
The cancellation of a coroutine while its function runs is `FunctionRaises`;
one that is cancelled while a worker thread runs a lookup or a store does not
stop that thread, and is not modelled.

**ScopedCache.** A text is a sequence of tokens, each a separator, a level or a
piece of a value, so that splitting, joining and prefix tests do to a text what
the code does, and `"organization:1"` is a prefix of `"organization:12"`. What
is stored is a description of the item the caller meant: its place (the members
of the levels down to the scope) and its name there. `ScopedStore` knows only
items and places, and `ImplementsScopedStore` says that every answer and every
change of the cache is the one the caller's intent asks for; a `set`, or a decorated
call, whose `ttl_seconds` is zero or less keeps nothing and leaves alone what is
there. A scope may be a tuple, whose last level is the target; it differs from
that level only for `("global",)` (`GlobalTuple`), which is not recognised as
`"global"` and gets a path from the parameters passed. A decorated function is
told parameters by name and by position (`Positional`), and the code sees the
former only: with a parameter of its scope by position it runs without the cache,
at every call (`CallUncached`). A restart changes
`process`, on which Python's hash of text and bytes depends: what another
process stored is then not found again, and is still evicted with its scope.
That is written into `ScopedStore`, whose items belong to a process unless they
are named by an integer: it is a description of the promise as it is, and no
property objects to it.

The refinement needs what the code takes for granted. The assumptions of
`ScopedCache` say what a configuration is, and that `::` does not arise in a
value (`Cache` has the exception this causes). `ScopedRefinement` names what
callers are relied on for: `ParamsAreOwn`, they pass the parameters of the scope
they name and no others (`ExtraParams = FALSE`; with others, `ScopeIsolation`
fails), and no two levels share a parameter; `ParamsAreNamed`, they pass a
decorated function the parameters of its scope by name, not by position;
`NamesAreDistinct`, functions and
keys are told apart by their names, and -1 and -2, whose hashes are equal, are
not both keys; `NoSlashes`, no identifier has a `/` in it. Hashes are taken not
to collide otherwise. `MCScopedCache` has TLC evaluate all four on the instance
of `scopes`. `ParamsAreNamed` is no idle one: the example of `README.md:83-92` breaks it
(`get_user_data("123", org_id="org1")`, with `user_id` a parameter of the scope), and
says its results are cached by organization and user, while the code runs the
function at every call; what is proved says nothing about that example.

Operators whose comment starts with "Mutant" are plausible bugs; none of the
specifications use them. Each property has one that breaks it, in
`PROJECT.json`.

## The runs

| Run | Instance | What it shows |
|---|---|---|
| `sequential` | 1 thread, 4 keys, LRU capacity 3, hard limit 2, all 16 tuples of distinct rules | `StoredIsTracked`, `TrackedIsStored`: rules and storage agree between steps; a rule in front of a hard limit may have been made to forget a key, but only one the hard limit has refused (and the code stores all the same). `LruBound`: the capacity holds even inside a call. `OneStaleRead`: an expired value is returned at most once (not never: `expired_read_claim`). The last two need the rule they are about not to precede the hard-limit rule. `ImplementsLruCache`: with the LRU rule and no hard limit, the storage is an LRU cache, in which every read counts as a use |
| `concurrent` | 2 threads, 3 keys, the 10 tuples of at most two rules, limits of 1 | `TrackedIsStored`: no lasting phantom, whatever the interleaving. `HardOvershoot`: at most one key too many |
| `healing` | 2 threads, 2 keys, each rule by itself, fairness | `PhantomsHeal`: a phantom goes away |
| `persistent` | 2 tasks, 2 keys, 2 rule tuples, both servers, with and without the index; 1 failure, or 1 restart, or 1 tick | `UndisturbedAgree`: at rest, rules and store agree on every key to which nothing happened. `HardExact`: no overshoot under `asyncio`. `DocumentsBounded`: a key has one document with the unique index, and without it one for each task, each failure and each task of the process before |
| `cache` | 2 threads, 4 keys, 3 requests, 3 calls, fairness | exact statistics and eviction counts while no calls overlap, and never an invented event. `ScopeEvictionComplete`: what an eviction leaves in its scope was stored while it ran, and is stale only if a function had read its data before. `ScopeEvictionEnds`; only a cached `None` is computed again |
| `scopes` | 2 scope trees, 2 functions, lifetimes of zero and more, 3 entries, 1 restart | `ImplementsScopedStore`; `KeysParse`: every stored key gives its path back. `HierarchyAgrees`: `is_descendant_of`, `get_parent_scope_path` and the caller's notion of "below" are one |

And six runs in which TLC refutes a sentence of the repository:

| Run | The sentence | What happens |
|---|---|---|
| `hard_limit_claim` | `max_items_evict.py:12` "rejects new items" | `set` evicts the rejected key, then stores it; one caller and two keys are enough |
| `lru_capacity_claim` | `lru_evict.py:21`, `README.md:403` | another thread evicts the key between its `on_set` and its store; it is stored untracked and the storage stays over its capacity at rest |
| `expired_read_claim` | `lifetime_evict.py:13-14` "evicted and not returned to the client" | `get` reads the value before it asks the rules, and returns it |
| `stampede_claim` | `__init__.py:5` "cache stampede protection" | two misses, two computations |
| `scope_abort_claim` | `cache.py:409` "Evicts all cache items" of the scope | `from_string` raises in the loop and the rest of the scope stays |
| `scope_isolation_claim` | `README.md:20` "Hierarchical scope isolation" | the path is built from whatever parameters are passed, not for the scope named: two cars with an organisation beside them share an entry |

The modules contain more disagreements of this kind than there are runs for them.
With the LRU rule in front of the hard limit, one caller is enough to exceed the
LRU capacity: a refused key is forgotten by the LRU rule and stored. The race of
`lru_capacity_claim` exists between tasks, too, and an `aset` that is given up and
executed late, or a restart over a store that keeps its entries, exceed the
capacity with a single task; `UndisturbedAgree` lists these as the keys it exempts.
`cache.py:68` returns a value "if found and valid (TTL)", but `Cache()` installs no
life-time rule and nothing else looks at the expiry. And the example of
`README.md:83-92` is never cached, as said above.

**Bounds.** The rules and the dictionary treat keys alike, so three keys suffice
for an incoming key, a victim and a bystander, at limits of 1 or 2; the
sequential run has four keys and a capacity of three so that the order of
recency matters. `MaxClock` 1 or 2 lets an entry be fresh, expired and set
again. Two threads reach every race found, and the overshoot needs the third
key. In `persistent` two tasks overlap in every way two calls can, the second
key is the victim of the first, and the one event of a behaviour (`OneEvent`: a call
that fails, a restart, or the passing of time) comes at every step, with the
requests it leaves behind executed at any later one. A restart empties every rule
alike, so it is taken under one tuple only. Two events in one behaviour
are beyond TLC here, and within what is proved. In `cache`, `MaxCalls = 3` is an entry stored, an
eviction that begins, and a writer that is late, or a clear between two counted
calls; `MaxVersion = 1` is one change of the data. In `scopes` the identifiers
`1` and `12` are such that one begins with the other, members of different
organisations share identifiers, one tree is three levels deep and the other
branches, and three entries are one in the evicted scope, one below and one
beside it. Symmetry of keys, threads and tasks is used in `sequential`,
`concurrent` and `persistent`, which check no liveness. `scopes` ignores the
variable `answer` when it compares states (`VIEW`): no step reads it, and TLC
evaluates properties of a step before it discards its target. `CacheHistory`
ends when its bound is used up (`HDone`); every other state without a successor
is a deadlock, which all runs check for.

**Fairness.** Weak fairness of the steps of each thread that is inside a call:
the interpreter schedules every runnable thread, none of the steps waits for
another thread, and a decorated function returns or raises. No fairness is
assumed of callers, of the clock or of the data. None is assumed of
tasks and servers: a server need not answer.

## The proofs

All theorems hold for any keys, values, rule tuples, limits and bounds.

`RuleAwareStorageProofs`, for any finite set of threads:

- `TypeCorrect`, `Spec => []TypeOK`. The invariant includes what makes it
  inductive: which operation a label belongs to, which rule, and that the
  registers it reads are filled. Its lemmas say what the operators on each
  dictionary preserve (`StorageOps`, `LifeOps`, `LruOps`) and what a change of one
  frame does (`FrameUpdate`, `FrameSteps`); the proof is one step per action.
- `HardOvershootBounded`, `Spec => []HardOvershoot`. The inductive invariant
  counts the threads that have passed the length check and have not added yet:
  admitted keys plus those threads never exceed the limit plus all threads
  minus one. A thread may only join them while the set is below the limit.
- `TrackedStaysStored`, `Spec => []TrackedIsStored`. A rule loses touch with the
  storage only through a step of a thread that then owes the repair
  (`LossIsTold`), learns only keys a running `set` will store
  (`LearnsFromSet`), and an owner leaves its debt only by paying
  (`OwnerPays`); the debts of other threads are not affected
  (`OthersOwe`). It needs `TypeOK`, and that the rule does not
  precede the LRU rule, whose `KeyError` abandons a `set`.

`SequentialProofs`, with one thread (`Threads = {t0}`, an assumption of each
theorem; with two, `lru_capacity_claim` refutes the second):

- `StoredStaysTracked`, `LruCapacityHolds`. The inductive invariant `SeqIInv`
  says what the call in progress knows: its key is registered with every rule it
  has passed, or has been refused since by a hard limit that had not admitted it
  (`KeyKnown`, `RefusedIsOut`), and is the most recent one (`KeyWarmest`), so that
  the victim is another key (`VictimIsOther`); the storage has let go of a key
  before the rules do (`GoneFirst`); and there is room for the key about to be
  stored (`LruRoom`), which is why the capacity holds even inside a call.
- `ExpiredIsReadOnce`, `Spec => OneStaleRead`. Its invariant `LateIInv` adds that
  the expiry the rule holds is not later than the one the storage holds
  (`ExpiryAgrees`), so that a `get` that meets an expired value evicts it before
  it returns.

`LruRefinementProofs`, with one thread:

- `StorageImplementsLruCache`, `Spec => ImplementsLruCache`: each step of a call,
  seen through the mapping, is a step of `LruCache` or none. Lemmas say what
  `RemoveFirst` and `Append` do to the order (`RemoveBehind`, `RemoveLast`,
  `RemoveAppended`, ...), what becomes of the deadlines (`DueKept`, `DueNarrowed`),
  and what the cache holds, in which order, and what the call still owes, after
  each kind of step (`SetStepSeen`, `GetStepSeen`, `EvictStepSeen`,
  `ClearStepSeen`). Besides `SeqIInv` and `TrackedIsStored` it needs `LruIInv`: a
  removal inside a `get` is of the key that is read (`OwnKey`), and the expiry it
  compares is the one the rule holds (`CheckSeen`); a `set` has room once it has
  passed the LRU rule (`HasRoom`), and one that evicts finds the cache full
  (`TookRoom`).

`PersistentProofs` and `UndisturbedProofs`, for any finite set of tasks, and any number of failures and
restarts:

- `HardLimitIsExact`, `HSpec => []HardExact`: a task between the check and the
  add is the one that runs, so nobody has taken the room it found.
- `DocumentsAreBounded`, `HSpec => []DocumentsBounded`: an upsert starts to insert
  only while its key has no document, so the documents of a key and the inserts
  under way, of tasks or abandoned, are at most the requests there can be at one
  time. There is one for each task, and the abandoned ones are counted by the
  failures and by the tasks of each process that ended (`AbandonedCounted`). With
  the index nothing is ever between the two halves.
- `TasksAreTyped`, `HSpec => []PTypeOK`, of every variable. Its invariant `TypeIInv` says which
  registers a task has filled where it waits for the server.
- `UndisturbedKeysAgree`, `HSpec => []UndisturbedAgree`. The invariant holds for
  each undisturbed key by itself (`KeyInv`): a rule that remembers what is not
  stored has a task that will store it or is about to tell the rule
  (`NoPhantom`); what is stored is remembered, or being evicted (`NoOrphan`);
  and a removal that reached the server stands until it is told (`ServerOf`).
  An abandoned request is about disturbed keys only (`LeftConcerns`) and changes
  no others (`LateElsewhere`), so it needs no clause in `KeyInv`.
  A step is summed up by what it does to one key on the server and in one rule
  (`ServerFacts`, `RuleFacts`), proved action by action, and these facts alone
  preserve `KeyInv` (`KeyInvStep`). It needs that the LRU rule never evicts the
  key of the `set` it runs for (`OtherVictim`).

`CacheProofs`, for any finite set of threads, any requests and any scopes:

- `FacadeTypeCorrect`, `HSpec => []HTypeOK`.
- `NoCounterInflated`: the increments under way are counted (`Pending`), and what
  one has read leaves room for all of them below the events.
- `ScopeEvictionLeavesNoneBehind`, `HSpec => ScopeEvictionComplete`: every entry
  of the scope is still to be visited, or was written since the keys were listed,
  from data no older than that or by a call whose function had read it by then.
- `CountersAreExact`, `RemovedIsExact`: while no calls have overlapped, at most
  one thread is inside a call, and what it has still to count is known at each
  label.
- `OnlyNoneIsRecomputed`, assuming that requests with one key are calls of one
  function (`OneFunctionPerKey`): what is cached for, or held by, a call is
  `None` only if its function returns `None`.

`ScopeProofs` and `ScopedCacheProofs`, for any scope trees, any identifiers of any
length, any functions and keys, and any number of entries and restarts:

- `FacadeIsTyped`, `Spec => []TypeOK`, whatever parameters callers pass.
- `StoredKeysParse`, `Spec => []KeysParse`, assuming `ParamsAreOwn`.
- `NotionsOfBelowAgree`, `Spec => []HierarchyAgrees`, with `NoSlashes` too.
- `FacadeImplementsScopedStore`, `Spec => ImplementsScopedStore`, with
  `ParamsAreNamed` and `NamesAreDistinct` too. The invariant `SInv` says that an entry's key is the one
  its description is written as (`Describes`); since descriptions with equal keys
  are equal (`KeysTellItems`), a lookup answers with the item asked for or
  nothing (`HeldByKey`), and an eviction hits exactly what is below the place
  (`HitIsBelow`).

What the recursive functions compute is proved from `Recursion` and
`RankInduction`, which replace the induction theorems of the library by a set of
the arguments at which a statement holds: a function defined by recursion on
what has lower rank exists, and is equal to its unfolding. From there,
`PathDown` and `PathsAreChains` say what `PathToLevel` returns in a tree (the
depth of a level is the rank); `DescentToScope` that `build_scope_path` follows
that path to its end when the parameters given are those of the scope, so that
`BuiltPathOfPlace`: the path built is that of the place meant; `PathInjective`
that different places have different paths; `DescendantsAreBelow` and
`WaysUpArePrefixes` what `is_descendant_of` and `get_parent_scope_path` make of
them; and `KeyIsRead` that `split("::")` takes a key apart where `as_string`
joined it.

Assumptions on the constants are named in the modules (`ThreadsAssumption`,
`RulesAssumption`, `TasksAssumption`, `BoundsAssumption`, ...), and the runs
evaluate them.

Only model-checked: liveness (`PhantomsHeal`, `ScopeEvictionEnds`), which is out
of the prover's reach. Every other property of the passing runs is the statement
of a theorem. The hypotheses of the theorems about scopes are not idle: TLC
refutes `ScopeIsolation` without `ParamsAreOwn`.

## Not modelled

- The synchronous `set`, `get` and `clear` over Redis and MongoDB. They send the
  commands `PersistentStorage` has; called from threads their hooks interleave
  as they do over `InMemory`. The two are not combined, and neither are two
  processes that share one server.
- Retries inside the client libraries, which may execute one request twice:
  `redis.asyncio` and `pymongo` are external, and a task is taken to make one
  request per call.
- `Cache` over `RuleAwareStorage`: the facade is checked over the default
  provider, the decorator by itself. Exceptions of the rules and the servers
  leave a decorated call after its function has run.
- The protocols: interfaces without behaviour.
- What changes no state and is not used by what does: `get_stats` and `stats`,
  `get_scope_tree_for_level` and the accessors of the tree, `extract_namespace`
  and `extract_scope`, `KEYS` and `distinct` of the servers. `get_all_keys` is
  modelled where `evict_by_scope` uses it.
- Connecting to a server, serialisation beyond its failure, and logging.
