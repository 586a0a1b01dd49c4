-------------------------- MODULE PersistentStorage --------------------------
(***************************************************************************)
(* The asynchronous side of RuleAwareStorage, aset, aget, aevict and       *)
(* aclear, over a store that is a server: Redis or MongoDB.                *)
(*                                                                         *)
(* The calls are tasks of one event loop.  A task runs undisturbed until   *)
(* it awaits the server, so the hooks of the rules never interleave; but   *)
(* while it waits, other tasks run, and the server executes the requests   *)
(* under way in any order.  A side effect of a rule calls the synchronous  *)
(* evict: the whole loop waits for it.  Requests that are under way while  *)
(* it does are executed before or after, which the steps here allow as     *)
(* well.  The server may fail a call, its answer may be lost, and a task   *)
(* may be cancelled or time out; the exception leaves the coroutine at     *)
(* once, and the request it abandons is lost or is executed at any later   *)
(* time.  When the process ends, the rules lose what they remember, and    *)
(* the store keeps what it holds and the requests that have reached it.    *)
(***************************************************************************)
EXTENDS RuleAwareStorage, RedisStorage, MongoDBStorage

CONSTANTS
  Backends,      \* the providers the constructor may be given
  MaxFailures,   \* bound on the calls that fail
  MaxRestarts    \* bound on the restarts of the process

ASSUME TasksAssumption == None \notin Threads

ASSUME BackendsAssumption == Backends \subseteq {"redis", "mongodb"}

ASSUME BoundsAssumption == MaxFailures \in Nat /\ MaxRestarts \in Nat

VARIABLES
  backend,    \* which provider self._storage is
  running,    \* the task that runs, or None while every task awaits or is done
  abandoned,  \* the requests no task waits for, and the server may yet execute
  failures, restarts    \* how many there were

serverState == <<backend, cache, spare, indexed, abandoned>>
counts == <<clock, failures, restarts>>
pvars == <<vars, backend, spare, indexed, abandoned, running, failures, restarts>>

PInit ==
  /\ Init
  /\ backend \in Backends
  /\ spare = NoSpare
  /\ indexed \in {TRUE, backend = "redis"}
  /\ running = None /\ abandoned = {}
  /\ failures = 0 /\ restarts = 0

(* A task awaits the server: "sent", "inserting" between the two halves of  *)
(* an upsert, "answered".                                                   *)
Awaiting == {"sent", "inserting", "answered"}

-----------------------------------------------------------------------------
(* A task that runs. *)

Calling(t) == At(t, "idle") /\ running = None

(* aset starts with the rules, and the others with the request. *)
ASet(t, k, v, ttl) ==
  /\ Calling(t)
  /\ Set(t, k, v, ttl)
  /\ running' = t
  /\ UNCHANGED <<serverState, counts>>

Request(t, call) ==
  /\ Calling(t)
  /\ frame' = [frame EXCEPT ![t] = call]
  /\ UNCHANGED <<serverState, ruleState, rules, counts, running>>

AGet(t, k) ==
  Request(t, [Idle EXCEPT !.pc = "sent", !.op = "get", !.key = k, !.i = 1])
AEvict(t, k) ==
  Request(t, [Idle EXCEPT !.pc = "sent", !.op = "evict", !.victim = k, !.j = 1])
AClear(t) ==
  Request(t, [Idle EXCEPT !.pc = "sent", !.op = "clear", !.j = 1])

(* The steps of the rules' hooks, which are those of the threads, without   *)
(* the errors that come of another thread.                                  *)
Hooks(t) ==
  /\ running = t
  /\ \/ LruOnSetInsert(t) \/ LruOnSetMove(t) \/ LruOnSetLen(t) \/ LruOnSetPop(t)
     \/ MaxOnSetIn(t) \/ MaxOnSetLen(t) \/ MaxOnSetAdd(t) \/ LifeOnSet(t)
     \/ LruOnGetIn(t) \/ LruOnGetMove(t) \/ MaxOnGet(t)
     \/ LifeOnGetRead(t) \/ LifeOnGetCheck(t)
     \/ LruOnEvict(t) \/ MaxOnEvict(t) \/ LifeOnEvict(t) \/ EffectDone(t)
     \/ LruOnClear(t) \/ MaxOnClear(t) \/ LifeOnClear(t)
  /\ UNCHANGED <<serverState, counts, running>>

(* Mutant: the provider is called, and the loop waits for it. *)
SendSetBlocking(t) ==
  /\ running = t /\ OuterDone(t, "on_set")
  /\ frame' = [frame EXCEPT ![t].pc = "sent", ![t].seen = RedisExpiry(frame[t].ttl)]
  /\ UNCHANGED <<serverState, ruleState, rules, counts, running>>

(* The rules have run: await self._storage.aset. *)
SendSet(t) ==
  /\ running = t /\ OuterDone(t, "on_set")
  /\ frame' = [frame EXCEPT ![t].pc = "sent", ![t].seen = RedisExpiry(frame[t].ttl)]
  /\ running' = None
  /\ UNCHANGED <<serverState, ruleState, rules, counts>>

(* The rules have run for the answer of aget, aevict or aclear. *)
Finish(t) ==
  /\ running = t
  /\ GetReturn(t) \/ EvictReturn(t) \/ ClearReturn(t)
  /\ running' = None
  /\ UNCHANGED <<serverState, counts>>

(* The exception leaves the coroutine. *)
Raise(t) ==
  /\ failures < MaxFailures
  /\ failures' = failures + 1
  /\ Return(t)
  /\ UNCHANGED <<backend, cache, spare, indexed, ruleState, rules, clock, restarts>>

(* json.dumps or BSON refuses the value. *)
SetRaises(t) ==
  running = t /\ OuterDone(t, "on_set") /\ Raise(t) /\ running' = None /\ UNCHANGED abandoned

InFlight(t) == Document(frame[t].value, frame[t].seen)

(* A request of t that may change the store is under way: *)
UnderWay(t) == At(t, "delete") \/ At(t, "inserting") \/ (At(t, "sent") /\ frame[t].op # "get")

(* this one, told from the others by the failure or the restart it outlives.*)
Left(t) ==
  [from     |-> <<t, failures, restarts>>,
   op       |-> IF At(t, "delete") THEN "evict" ELSE frame[t].op,
   key      |-> IF At(t, "delete") \/ frame[t].op = "evict" THEN frame[t].victim ELSE frame[t].key,
   document |-> InFlight(t),
   stage    |-> IF At(t, "inserting") THEN "inserting" ELSE "sent"]

(* Whoever stops waiting for it does not know whether it is lost. *)
Abandon(t) ==
  \/ UNCHANGED abandoned
  \/ UnderWay(t) /\ abandoned' = abandoned \cup {Left(t)}

(* The synchronous evict of a side effect, done or failed. *)
Evicted(k) ==
  CASE backend = "redis"   -> RedisEvict(k) /\ UNCHANGED spare
    [] backend = "mongodb" -> MongoEvict(k)

EvictInEffect(t) ==
  /\ running = t /\ At(t, "delete")
  /\ Evicted(frame[t].victim)
  /\ frame' = [frame EXCEPT ![t].pc = "on_evict", ![t].j = 1]
  /\ UNCHANGED <<backend, indexed, abandoned, ruleState, rules, counts, running>>

EvictInEffectRaises(t) ==
  running = t /\ At(t, "delete") /\ Raise(t) /\ Abandon(t) /\ running' = None

-----------------------------------------------------------------------------
(* The server. *)

Under(t, op) == At(t, "sent") /\ frame[t].op = op

(* A request is executed, and the answer is on its way. *)
Executed(t) ==
  /\ Goto(t, "answered")
  /\ UNCHANGED <<backend, indexed, abandoned, ruleState, rules, counts, running>>

RedisSets(t) ==
  /\ backend = "redis" /\ Under(t, "set")
  /\ RedisASet(frame[t].key, frame[t].value, frame[t].seen)
  /\ UNCHANGED spare
  /\ Executed(t)

MongoUpdates(t) ==
  /\ backend = "mongodb" /\ Under(t, "set") /\ Stored(frame[t].key)
  /\ UpdateOne(frame[t].key, InFlight(t))
  /\ Executed(t)

(* With the index the server finds nothing and inserts in one step. *)
MongoUpserts(t) ==
  /\ backend = "mongodb" /\ indexed /\ Under(t, "set") /\ ~Stored(frame[t].key)
  /\ InsertOne(frame[t].key, InFlight(t))
  /\ Executed(t)

(* Mutant: the filter of the upsert finds no document there is. *)
MongoFindsNoneEver(t) ==
  /\ backend = "mongodb" /\ ~indexed /\ Under(t, "set")
  /\ Goto(t, "inserting")
  /\ UNCHANGED <<serverState, ruleState, rules, counts, running>>

MongoFindsNone(t) ==
  /\ backend = "mongodb" /\ ~indexed /\ Under(t, "set") /\ ~Stored(frame[t].key)
  /\ Goto(t, "inserting")
  /\ UNCHANGED <<serverState, ruleState, rules, counts, running>>

MongoInserts(t) ==
  /\ At(t, "inserting")
  /\ InsertOne(frame[t].key, InFlight(t))
  /\ Executed(t)

ServerGets(t) ==
  /\ Under(t, "get")
  /\ frame' = [frame EXCEPT ![t].pc = "answered",
                            ![t].got = CASE backend = "redis"   -> RedisAGet(frame[t].key)
                                         [] backend = "mongodb" -> MongoAGet(frame[t].key)]
  /\ UNCHANGED <<serverState, ruleState, rules, counts, running>>

ServerEvicts(t) ==
  /\ Under(t, "evict")
  /\ CASE backend = "redis"   -> RedisAEvict(frame[t].victim) /\ UNCHANGED spare
       [] backend = "mongodb" -> MongoAEvict(frame[t].victim)
  /\ Executed(t)

Cleared ==
  CASE backend = "redis"   -> RedisAClear /\ UNCHANGED spare
    [] backend = "mongodb" -> MongoAClear

ServerClears(t) == Under(t, "clear") /\ Cleared /\ Executed(t)

Serve(t) ==
  \/ RedisSets(t) \/ MongoUpdates(t) \/ MongoUpserts(t)
  \/ MongoFindsNone(t) \/ MongoInserts(t)
  \/ ServerGets(t) \/ ServerEvicts(t) \/ ServerClears(t)

(* An abandoned request is executed at last, as if its task still waited. *)
Late(q) ==
  /\ q \in abandoned
  /\ UNCHANGED <<backend, indexed, frame, ruleState, rules, counts, running>>

Ended(q) == Late(q) /\ abandoned' = abandoned \ {q}

LateRedisSet(q) ==
  /\ backend = "redis" /\ q.op = "set" /\ Ended(q)
  /\ RedisASet(q.key, q.document.value, q.document.expiry)
  /\ UNCHANGED spare

(* An insert that the index refuses begins again, as an update. *)
LateUpdate(q) ==
  /\ backend = "mongodb" /\ q.op = "set" /\ Stored(q.key) /\ Ended(q)
  /\ q.stage = "sent" \/ indexed
  /\ UpdateOne(q.key, q.document)

LateFindsNone(q) ==
  /\ backend = "mongodb" /\ ~indexed /\ q.op = "set" /\ q.stage = "sent" /\ ~Stored(q.key) /\ Late(q)
  /\ abandoned' = (abandoned \ {q}) \cup {[q EXCEPT !.stage = "inserting"]}
  /\ UNCHANGED <<cache, spare>>

LateInsert(q) ==
  /\ backend = "mongodb" /\ q.op = "set" /\ Ended(q)
  /\ IF indexed THEN ~Stored(q.key) ELSE q.stage = "inserting"
  /\ InsertOne(q.key, q.document)

LateEvict(q) == q.op = "evict" /\ Ended(q) /\ Evicted(q.key)

LateClear(q) == q.op = "clear" /\ Ended(q) /\ Cleared

LateServe(q) ==
  \/ LateRedisSet(q) \/ LateUpdate(q) \/ LateFindsNone(q) \/ LateInsert(q)
  \/ LateEvict(q) \/ LateClear(q)

-----------------------------------------------------------------------------
(* The loop resumes a task. *)

Resumed(t, call) ==
  /\ At(t, "answered") /\ running = None
  /\ frame' = [frame EXCEPT ![t] = call]
  /\ running' = IF call = Idle THEN None ELSE t
  /\ UNCHANGED <<serverState, ruleState, rules, counts>>

SetAnswered(t) == frame[t].op = "set" /\ Resumed(t, Idle)

GetAnswered(t) ==
  /\ frame[t].op = "get"
  /\ Resumed(t, IF frame[t].got = None THEN Idle ELSE [frame[t] EXCEPT !.pc = "on_get"])

(* Mutant: the rules are not told. *)
EvictAnsweredSilent(t) == frame[t].op = "evict" /\ Resumed(t, Idle)

EvictAnswered(t) ==
  frame[t].op = "evict" /\ Resumed(t, [frame[t] EXCEPT !.pc = "on_evict"])

ClearAnswered(t) ==
  frame[t].op = "clear" /\ Resumed(t, [frame[t] EXCEPT !.pc = "on_clear"])

(* The call fails, or the task is cancelled: before the request is          *)
(* executed, or after (answered).                                           *)
CallRaises(t) ==
  /\ frame[t].pc \in Awaiting /\ running = None
  /\ Raise(t) /\ Abandon(t)
  /\ UNCHANGED running

(* The process ends, and another begins: new rules, and the constructor of  *)
(* the provider.  The requests under way reach the server or do not.        *)
Restart ==
  /\ restarts < MaxRestarts
  /\ restarts' = restarts + 1
  /\ accessOrder' = <<>> /\ admitted' = {} /\ LifeForgetAll
  /\ frame' = [t \in Threads |-> Idle]
  /\ running' = None
  /\ \E left \in SUBSET {t \in Threads : UnderWay(t)} :
       abandoned' = abandoned \cup {Left(t) : t \in left}
  /\ IF backend = "mongodb" THEN CheckCollection ELSE UNCHANGED <<cache, spare, indexed>>
  /\ UNCHANGED <<clock, rules, backend, failures>>

PTick ==
  /\ Tick
  /\ UNCHANGED <<backend, spare, indexed, abandoned, running, failures, restarts>>

PCall(t) ==
  \/ \E k \in Keys, v \in Values, ttl \in TTLs : ASet(t, k, v, ttl)
  \/ \E k \in Keys : AGet(t, k) \/ AEvict(t, k)
  \/ AClear(t)

Run(t) == Hooks(t) \/ SendSet(t) \/ Finish(t) \/ EvictInEffect(t)
Resume(t) == SetAnswered(t) \/ GetAnswered(t) \/ EvictAnswered(t) \/ ClearAnswered(t)
Fail(t) == SetRaises(t) \/ EvictInEffectRaises(t) \/ CallRaises(t)

PNext ==
  \/ \E t \in Threads : PCall(t) \/ Run(t) \/ Serve(t) \/ Resume(t) \/ Fail(t)
  \/ \E q \in abandoned : LateServe(q)
  \/ Restart
  \/ PTick

PSpec == PInit /\ [][PNext]_pvars

=============================================================================
