--------------------------- MODULE PersistentProofs ---------------------------
(***************************************************************************)
(* Proofs about PersistentStorage, for any number of tasks, keys, failures *)
(* and restarts, any rule tuples and any limits.                           *)
(***************************************************************************)
EXTENDS PersistentHistory, FiniteSetTheorems, SequenceTheorems, TLAPS

-----------------------------------------------------------------------------
(* Which step takes a task where. *)

(* Every task has a frame, and a frame has its registers: what the proofs   *)
(* need of the types.                                                       *)
Registers == {"pc", "op", "key", "value", "ttl", "i", "victim", "j", "got", "expired", "seen"}
Shape ==
  /\ DOMAIN frame = Threads
  /\ \A t \in Threads : Registers \subseteq DOMAIN frame[t]

(* A step of a task leaves the other frames alone, and reaches the labels   *)
(* the proofs are about by one action each.                                 *)
Moves(t) ==
  /\ Shape'
  /\ \A u \in Threads \ {t} : frame'[u] = frame[u]
  /\ frame'[t].pc = "inserting" =>
       MongoFindsNone(t) /\ frame'[t].key = frame[t].key
  /\ frame'[t].pc \in {"max_len", "max_add"} => running = t /\ running' = t
  /\ frame'[t].pc = "max_add" => ~HardFull /\ UNCHANGED admitted

TaskStep(t) == PCall(t) \/ Run(t) \/ Serve(t) \/ Resume(t) \/ Fail(t)

(* The frame of t is replaced by one with its registers. *)
LEMMA FrameReplaced ==
  ASSUME Shape, NEW t \in Threads, NEW f, Registers \subseteq DOMAIN f,
         frame' = [frame EXCEPT ![t] = f],
         f.pc \notin {"inserting", "max_len", "max_add"}
  PROVE  Moves(t)
  BY DEF Shape, Moves

LEMMA IdleRegisters == Registers \subseteq DOMAIN Idle /\ Idle.pc = "idle"
  BY DEF Idle, Registers

LEMMA CallMoves ==
  ASSUME Shape, NEW t \in Threads, PCall(t)
  PROVE  Moves(t)
<1>1. ASSUME NEW k \in Keys, NEW v \in Values, NEW ttl \in TTLs, ASet(t, k, v, ttl)
      PROVE  Moves(t)
  BY <1>1, FrameReplaced DEF ASet, Set, Idle, Registers
<1>2. ASSUME NEW k \in Keys, AGet(t, k) PROVE Moves(t)
  BY <1>2, FrameReplaced DEF AGet, Request, Idle, Registers
<1>3. ASSUME NEW k \in Keys, AEvict(t, k) PROVE Moves(t)
  BY <1>3, FrameReplaced DEF AEvict, Request, Idle, Registers
<1>4. CASE AClear(t)
  BY <1>4, FrameReplaced DEF AClear, Request, Idle, Registers
<1> QED BY <1>1, <1>2, <1>3, <1>4 DEF PCall

LEMMA HookMoves ==
  ASSUME Shape, NEW t \in Threads, Hooks(t)
  PROVE  Moves(t)
<1>1. running = t /\ running' = t
  BY DEF Hooks
<1> USE <1>1 DEF Shape, Moves, Registers, Goto, NextOuter, NextInner, Effect
<1>2. CASE LruOnSetInsert(t) \/ LruOnSetMove(t) \/ LruOnSetLen(t) \/ LruOnSetPop(t)
  BY <1>2 DEF LruOnSetInsert, LruOnSetMove, LruOnSetLen, LruOnSetPop
<1>3. CASE MaxOnSetIn(t)
  BY <1>3 DEF MaxOnSetIn
<1>4. CASE MaxOnSetLen(t)
  BY <1>4 DEF MaxOnSetLen, ruleState
<1>5. CASE MaxOnSetAdd(t) \/ LifeOnSet(t)
  BY <1>5 DEF MaxOnSetAdd, LifeOnSet
<1>6. CASE LruOnGetIn(t) \/ LruOnGetMove(t) \/ MaxOnGet(t) \/ LifeOnGetRead(t) \/ LifeOnGetCheck(t)
  BY <1>6 DEF LruOnGetIn, LruOnGetMove, MaxOnGet, LifeOnGetRead, LifeOnGetCheck
<1>7. CASE LruOnEvict(t) \/ MaxOnEvict(t) \/ LifeOnEvict(t)
  BY <1>7 DEF LruOnEvict, MaxOnEvict, LifeOnEvict, Inner, At
<1>8. CASE EffectDone(t)
  BY <1>8 DEF EffectDone
<1>9. CASE LruOnClear(t) \/ MaxOnClear(t) \/ LifeOnClear(t)
  BY <1>9 DEF LruOnClear, MaxOnClear, LifeOnClear, Inner, At
<1> HIDE DEF Moves
<1> QED BY <1>2, <1>3, <1>4, <1>5, <1>6, <1>7, <1>8, <1>9 DEF Hooks

LEMMA RunMoves ==
  ASSUME Shape, NEW t \in Threads, Run(t)
  PROVE  Moves(t)
<1>1. CASE Hooks(t)
  BY <1>1, HookMoves
<1>2. CASE SendSet(t)
  BY <1>2 DEF SendSet, Shape, Moves, Registers
<1>3. CASE Finish(t)
  BY <1>3, IdleRegisters, FrameReplaced DEF Finish, GetReturn, EvictReturn, ClearReturn, Return
<1>4. CASE EvictInEffect(t)
  BY <1>4 DEF EvictInEffect, Shape, Moves, Registers
<1> QED BY <1>1, <1>2, <1>3, <1>4 DEF Run

LEMMA ServeMoves ==
  ASSUME Shape, NEW t \in Threads, Serve(t)
  PROVE  Moves(t)
<1>1. CASE MongoFindsNone(t)
  BY <1>1 DEF MongoFindsNone, Shape, Moves, Registers, Goto
<1>2. CASE ServerGets(t)
  <2> DEFINE found == CASE backend = "redis"   -> RedisAGet(frame[t].key)
                        [] backend = "mongodb" -> MongoAGet(frame[t].key)
  <2>1. frame' = [frame EXCEPT ![t].pc = "answered", ![t].got = found]
    BY <1>2 DEF ServerGets
  <2> HIDE DEF found
  <2> QED BY <2>1 DEF Shape, Moves, Registers
<1>3. CASE Serve(t) /\ ~MongoFindsNone(t) /\ ~ServerGets(t)
  <2>1. Goto(t, "answered")
    BY <1>3 DEF Serve, RedisSets, MongoUpdates, MongoUpserts, MongoInserts,
         ServerEvicts, ServerClears, Executed
  <2> QED BY <2>1 DEF Shape, Moves, Registers, Goto
<1> QED BY <1>1, <1>2, <1>3

LEMMA ResumeMoves ==
  ASSUME Shape, NEW t \in Threads, Resume(t)
  PROVE  Moves(t)
<1>1. ASSUME NEW f, Resumed(t, f), f = Idle \/ \E pc \in {"on_get", "on_evict", "on_clear"} :
               f = [frame[t] EXCEPT !.pc = pc]
      PROVE  Moves(t)
  BY <1>1, IdleRegisters, FrameReplaced DEF Resumed, Shape, Registers
<1> QED BY <1>1 DEF Resume, SetAnswered, GetAnswered, EvictAnswered, ClearAnswered

LEMMA FailMoves ==
  ASSUME Shape, NEW t \in Threads, Fail(t)
  PROVE  Moves(t)
  BY IdleRegisters, FrameReplaced DEF Fail, SetRaises, EvictInEffectRaises, CallRaises, Raise, Return

LEMMA TaskMoves ==
  ASSUME Shape, NEW t \in Threads, TaskStep(t)
  PROVE  Moves(t)
  BY CallMoves, RunMoves, ServeMoves, ResumeMoves, FailMoves DEF TaskStep

LEMMA ShapeInit == PInit => Shape
  BY DEF PInit, Init, Shape, Idle, Registers

LEMMA ShapeRestart == Shape /\ Restart => Shape'
  BY DEF Restart, Shape, Idle, Registers

(* An abandoned request reaches the store and nothing else. *)
LEMMA LateMeansStore ==
  ASSUME NEW q, LateServe(q)
  PROVE  q \in abandoned /\ UNCHANGED <<backend, indexed, frame, ruleState, rules, counts, running>>
  BY DEF LateServe, LateRedisSet, LateUpdate, LateFindsNone, LateInsert, LateEvict, LateClear, Ended, Late

(* Only a failure abandons a request of a task, and it is one. *)
LEMMA Abandoning ==
  ASSUME NEW t \in Threads, TaskStep(t)
  PROVE  /\ restarts' = restarts
         /\ \/ UNCHANGED <<abandoned, failures>> /\ ~Fail(t)
            \/ /\ Fail(t) /\ failures < MaxFailures /\ failures' = failures + 1
               /\ abandoned' = abandoned \/ (UnderWay(t) /\ abandoned' = abandoned \cup {Left(t)})
<1> USE DEF serverState, counts
<1>1. CASE Fail(t)
  BY <1>1 DEF Fail, SetRaises, EvictInEffectRaises, CallRaises, Raise, Abandon
<1>2. CASE ~Fail(t)
  <2>1. CASE PCall(t)
    BY <1>2, <2>1 DEF PCall, ASet, AGet, AEvict, AClear, Request
  <2>2. CASE Run(t)
    BY <1>2, <2>2 DEF Run, Hooks, SendSet, Finish, EvictInEffect
  <2>3. CASE Serve(t)
    BY <1>2, <2>3 DEF Serve, RedisSets, MongoUpdates, MongoUpserts, MongoFindsNone, MongoInserts,
         ServerGets, ServerEvicts, ServerClears, Executed
  <2>4. CASE Resume(t)
    BY <1>2, <2>4 DEF Resume, SetAnswered, GetAnswered, EvictAnswered, ClearAnswered, Resumed
  <2> QED BY <1>2, <2>1, <2>2, <2>3, <2>4 DEF TaskStep
<1> QED BY <1>1, <1>2

-----------------------------------------------------------------------------
(* The hard limit under asyncio. *)

(* A task between the check and the add is the one that runs, and there is  *)
(* still room for its key.                                                  *)
HardIInv ==
  /\ Shape
  /\ IsFiniteSet(admitted) /\ Cardinality(admitted) <= HardMaxItems
  /\ \A t \in Threads :
       /\ frame[t].pc \in {"max_len", "max_add"} => running = t
       /\ frame[t].pc = "max_add" => Cardinality(admitted) < HardMaxItems

(* Only the add lets the set grow. *)
LEMMA AdmittedShrinks ==
  ASSUME NEW t \in Threads, TaskStep(t), ~MaxOnSetAdd(t)
  PROVE  admitted' \subseteq admitted
<1> USE DEF ruleState
<1>1. CASE PCall(t)
  BY <1>1 DEF PCall, ASet, Set, AGet, AEvict, AClear, Request
<1>2. CASE Run(t)
  <2>1. CASE Hooks(t)
    BY <2>1 DEF Hooks, LruOnSetInsert, LruOnSetMove, LruOnSetLen, LruOnSetPop, MaxOnSetIn,
         MaxOnSetLen, LifeOnSet, LruOnGetIn, LruOnGetMove, MaxOnGet, LifeOnGetRead,
         LifeOnGetCheck, LruOnEvict, MaxOnEvict, LifeOnEvict, EffectDone, LruOnClear,
         MaxOnClear, LifeOnClear, HardForget, HardForgetAll
  <2> QED BY <1>2, <2>1 DEF Run, SendSet, Finish, GetReturn, EvictReturn, ClearReturn, EvictInEffect
<1>3. CASE Serve(t)
  BY <1>3 DEF Serve, RedisSets, MongoUpdates, MongoUpserts, MongoFindsNone, MongoInserts,
       ServerGets, ServerEvicts, ServerClears, Executed
<1>4. CASE Resume(t)
  BY <1>4 DEF Resume, SetAnswered, GetAnswered, EvictAnswered, ClearAnswered, Resumed
<1>5. CASE Fail(t)
  BY <1>5 DEF Fail, SetRaises, EvictInEffectRaises, CallRaises, Raise
<1> QED BY <1>1, <1>2, <1>3, <1>4, <1>5 DEF TaskStep

(* The loop goes from one task to another only when none runs. *)
LEMMA LoopIsOne ==
  ASSUME NEW t \in Threads, TaskStep(t)
  PROVE  running' = running \/ running \in {None, t}
<1>1. CASE PCall(t)
  BY <1>1 DEF PCall, ASet, Calling, AGet, AEvict, AClear, Request
<1>2. CASE Run(t)
  BY <1>2 DEF Run, Hooks, SendSet, Finish, EvictInEffect
<1>3. CASE Serve(t)
  BY <1>3 DEF Serve, RedisSets, MongoUpdates, MongoUpserts, MongoFindsNone, MongoInserts,
       ServerGets, ServerEvicts, ServerClears, Executed
<1>4. CASE Resume(t)
  BY <1>4 DEF Resume, SetAnswered, GetAnswered, EvictAnswered, ClearAnswered, Resumed
<1>5. CASE Fail(t)
  BY <1>5 DEF Fail, SetRaises, EvictInEffectRaises, CallRaises
<1> QED BY <1>1, <1>2, <1>3, <1>4, <1>5 DEF TaskStep

LEMMA HardTaskStep ==
  ASSUME HardIInv, NEW t \in Threads, TaskStep(t)
  PROVE  HardIInv'
<1>1. Moves(t)
  BY TaskMoves DEF HardIInv
<1>2. /\ IsFiniteSet(admitted) /\ Cardinality(admitted) \in Nat /\ HardMaxItems \in Nat
      /\ running' = running \/ running \in {None, t}
  BY LoopIsOne, HardAssumption, FS_CardinalityType DEF HardIInv
<1>3. CASE MaxOnSetAdd(t)
  <2>1. /\ frame[t].pc = "max_add" /\ running = t
        /\ Cardinality(admitted) < HardMaxItems
        /\ \A u \in Threads \ {t} : frame[u].pc \notin {"max_len", "max_add"}
    BY <1>3 DEF MaxOnSetAdd, At, HardIInv
  <2>2. /\ IsFiniteSet(admitted')
        /\ Cardinality(admitted') <= Cardinality(admitted) + 1
        /\ Cardinality(admitted') \in Nat
    <3>1. admitted' = admitted \cup {frame[t].key}
      BY <1>3 DEF MaxOnSetAdd, HardAdmit
    <3>2. /\ IsFiniteSet(admitted \cup {frame[t].key})
          /\ Cardinality(admitted \cup {frame[t].key}) =
               IF frame[t].key \in admitted THEN Cardinality(admitted) ELSE Cardinality(admitted) + 1
      BY <1>2, FS_AddElement
    <3> QED BY <1>2, <3>1, <3>2
  <2>3. frame'[t].pc = "on_set"
    BY <1>3 DEF MaxOnSetAdd, NextOuter, HardIInv, Shape, Registers
  <2> QED BY <1>1, <1>2, <2>1, <2>2, <2>3 DEF HardIInv, Moves
<1>4. CASE ~MaxOnSetAdd(t)
  <2>1. /\ IsFiniteSet(admitted') /\ Cardinality(admitted') <= Cardinality(admitted)
        /\ Cardinality(admitted') \in Nat
    BY <1>2, <1>4, AdmittedShrinks, FS_Subset, FS_CardinalityType
  <2>2. ASSUME NEW u \in Threads \ {t}
        PROVE  /\ frame'[u].pc \in {"max_len", "max_add"} => running' = u
               /\ frame'[u].pc = "max_add" => Cardinality(admitted') < HardMaxItems
    BY <1>1, <1>2, <2>1, TasksAssumption DEF HardIInv, Moves
  <2>3. /\ frame'[t].pc \in {"max_len", "max_add"} => running' = t
        /\ frame'[t].pc = "max_add" => Cardinality(admitted') < HardMaxItems
    BY <1>1, <1>2 DEF Moves, HardFull
  <2> QED BY <1>1, <1>2, <2>1, <2>2, <2>3 DEF HardIInv, Moves
<1> QED BY <1>3, <1>4

(* With coroutines in place of threads the hard-limit rule never admits a   *)
(* key beyond its limit, however many of them there are and whatever fails: *)
(* no await stands between max_items_evict.py:63 and :66.                   *)
THEOREM HardLimitIsExact == HSpec => []HardExact
<1>1. HInit => HardIInv
  <2> SUFFICES ASSUME HInit PROVE HardIInv
    OBVIOUS
  <2>1. admitted = {} /\ Shape /\ \A t \in Threads : frame[t].pc = "idle"
    BY ShapeInit DEF HInit, PInit, Init, HardInit, Idle
  <2> QED BY <2>1, HardAssumption, FS_EmptySet DEF HardIInv
<1>2. HardIInv /\ [HNext]_hvars => HardIInv'
  <2> SUFFICES ASSUME HardIInv, [HNext]_hvars PROVE HardIInv'
    OBVIOUS
  <2>1. ASSUME NEW t \in Threads, TaskStep(t) PROVE HardIInv'
    BY <2>1, HardTaskStep
  <2>2. CASE Restart
    <3>1. admitted' = {} /\ Shape' /\ \A t \in Threads : frame'[t].pc = "idle"
      BY <2>2, ShapeRestart DEF HardIInv, Restart, Idle
    <3> QED BY <3>1, HardAssumption, FS_EmptySet DEF HardIInv
  <2>3. CASE PTick \/ UNCHANGED hvars
    BY <2>3 DEF PTick, Tick, hvars, pvars, vars, ruleState, HardIInv, Shape
  <2>4. ASSUME NEW q, LateServe(q) PROVE HardIInv'
    BY <2>4, LateMeansStore DEF ruleState, HardIInv, Shape
  <2> QED BY <2>1, <2>2, <2>3, <2>4 DEF HNext, PNext, TaskStep
<1>3. HardIInv => HardExact
  BY DEF HardIInv, HardExact
<1> QED BY <1>1, <1>2, <1>3, PTL DEF HSpec

-----------------------------------------------------------------------------
(* The documents of a key. *)

(* A key without a first document has no others, and no key has others once *)
(* the collection is indexed, which it counts as for Redis.                 *)
SparesOK ==
  /\ spare = [k \in Keys |-> spare[k]]
  /\ \A k \in Keys : /\ \E S : spare[k] \in Seq(S)
                     /\ spare[k] # <<>> => Stored(k) /\ ~indexed

(* Every abandoned request was abandoned at a failure or a restart. *)
AbandonedCounted ==
  /\ failures \in Nat /\ restarts \in Nat
  /\ IsFiniteSet(abandoned) /\ Cardinality(abandoned) <= Outlived
  /\ \A q \in abandoned : {"key", "stage"} \subseteq DOMAIN q

DocsIInv ==
  /\ Shape
  /\ SparesOK
  /\ AbandonedCounted
  /\ backend \in {"redis", "mongodb"} /\ (backend = "redis" => indexed)
  /\ indexed => \A t \in Threads : frame[t].pc # "inserting"
  /\ DocumentsBounded

(* No key gets a document. *)
NoneAdded == SparesOK' /\ \A k \in Keys : Documents(k)' <= Documents(k)

LEMMA DocumentsNat == ASSUME SparesOK, NEW k \in Keys PROVE Documents(k) \in Nat
<1> DEFINE n == Len(spare[k])
<1>1. n \in Nat
  <2>1. PICK S : spare[k] \in Seq(S)
    BY DEF SparesOK
  <2> QED BY <2>1
<1>2. Documents(k) = (IF k \in DOMAIN cache THEN 1 ELSE 0) + n
  BY DEF Documents, Stored
<1> HIDE DEF n
<1> QED BY <1>1, <1>2

(* The same, for the next state. *)
LEMMA DocumentsNatNext == ASSUME SparesOK', NEW k \in Keys PROVE Documents(k)' \in Nat
<1> DEFINE n == Len(spare'[k])
<1>1. n \in Nat
  <2>1. PICK S : spare'[k] \in Seq(S)
    BY DEF SparesOK
  <2> QED BY <2>1
<1>2. Documents(k)' = (IF k \in DOMAIN cache' THEN 1 ELSE 0) + n
  BY DEF Documents, Stored
<1> HIDE DEF n
<1> QED BY <1>1, <1>2

LEMMA SameStore ==
  ASSUME SparesOK, UNCHANGED <<cache, spare, indexed>> PROVE NoneAdded
<1>1. \A k \in Keys : Documents(k)' = Documents(k) /\ Documents(k) \in Nat
  BY DocumentsNat DEF Documents, Stored
<1> QED BY <1>1 DEF NoneAdded, SparesOK, Stored

(* Redis, and the keys of MongoDB, have first documents only come and go.   *)
LEMMA FirstRemoved ==
  ASSUME SparesOK, UNCHANGED <<spare, indexed>>, DOMAIN cache' \subseteq DOMAIN cache,
         \A k \in DOMAIN cache \ DOMAIN cache' : k \in Keys => spare[k] = <<>>
  PROVE  NoneAdded
<1>1. SparesOK'
  BY DEF SparesOK, Stored
<1>2. ASSUME NEW k \in Keys PROVE Documents(k)' <= Documents(k)
  <2>1. Len(spare[k]) \in Nat
    <3>1. PICK S : spare[k] \in Seq(S)
      BY DEF SparesOK
    <3> QED BY <3>1
  <2> QED BY <2>1 DEF Documents, Stored
<1> QED BY <1>1, <1>2 DEF NoneAdded

LEMMA UpdateAddsNone ==
  ASSUME SparesOK, NEW k, NEW d, UpdateOne(k, d), UNCHANGED indexed PROVE NoneAdded
  BY FirstRemoved DEF UpdateOne

LEMMA EvictAddsNone ==
  ASSUME SparesOK, NEW k, MongoAEvict(k), UNCHANGED indexed PROVE NoneAdded
<1>1. CASE spare[k] = <<>>
  BY <1>1, FirstRemoved DEF MongoAEvict, Restrict
<1>2. CASE spare[k] # <<>> /\ k \in Keys
  <2>1. PICK S : spare[k] \in Seq(S)
    BY <1>2 DEF SparesOK
  <2>2. Tail(spare[k]) \in Seq(S) /\ Len(Tail(spare[k])) <= Len(spare[k])
        /\ Len(Tail(spare[k])) \in Nat /\ Len(spare[k]) \in Nat
    BY <1>2, <2>1
  <2>3. spare' = [spare EXCEPT ![k] = Tail(spare[k])] /\ DOMAIN cache' = DOMAIN cache
    BY <1>2 DEF MongoAEvict
  <2>4. SparesOK'
    BY <1>2, <2>2, <2>3 DEF SparesOK, Stored
  <2>5. ASSUME NEW x \in Keys PROVE Documents(x)' <= Documents(x)
    <3>1. Documents(x) \in Nat
      BY DocumentsNat
    <3>2. CASE x = k
      BY <2>2, <2>3, <3>2 DEF Documents, Stored, SparesOK
    <3>3. CASE x # k
      BY <2>3, <3>1, <3>3 DEF Documents, Stored, SparesOK
    <3> QED BY <3>2, <3>3
  <2> QED BY <2>4, <2>5 DEF NoneAdded
<1>3. CASE spare[k] # <<>> /\ k \notin Keys
  <2>1. DOMAIN cache' = DOMAIN cache /\ UNCHANGED spare
    BY <1>3 DEF MongoAEvict, SparesOK
  <2> QED BY <2>1, FirstRemoved
<1> QED BY <1>1, <1>2, <1>3

LEMMA ClearAddsNone ==
  ASSUME SparesOK, MongoAClear, UNCHANGED indexed PROVE NoneAdded
<1>1. /\ DOMAIN cache' = {} /\ DOMAIN spare' = Keys
      /\ spare' = [k \in Keys |-> spare'[k]]
      /\ \A k \in Keys : spare'[k] = <<>> /\ spare'[k] \in Seq({})
  BY DEF MongoAClear, Restrict, NoSpare
<1>2. ASSUME NEW k \in Keys PROVE Documents(k)' <= Documents(k)
  <2>1. Documents(k)' = 0
    BY <1>1 DEF Documents, Stored
  <2> QED BY <2>1, DocumentsNat
<1> QED BY <1>1, <1>2 DEF NoneAdded, SparesOK

(* An insert adds one document, a further one only when there is no index.  *)
LEMMA InsertAddsOne ==
  ASSUME SparesOK, NEW k, NEW d, InsertOne(k, d), UNCHANGED indexed, Stored(k) => ~indexed
  PROVE  /\ SparesOK'
         /\ \A x \in Keys : Documents(x)' <= Documents(x) + IF x = k THEN 1 ELSE 0
<1>1. CASE Stored(k) /\ k \in Keys
  <2>1. PICK S : spare[k] \in Seq(S)
    BY <1>1 DEF SparesOK
  <2>2. /\ Append(spare[k], d) \in Seq(S \cup {d})
        /\ Len(Append(spare[k], d)) = Len(spare[k]) + 1 /\ Len(spare[k]) \in Nat
    <3>1. spare[k] \in Seq(S \cup {d})
      BY <2>1
    <3> QED BY <3>1
  <2>3. spare' = [spare EXCEPT ![k] = Append(spare[k], d)] /\ cache' = cache
    BY <1>1 DEF InsertOne
  <2>4. SparesOK'
    BY <1>1, <2>2, <2>3 DEF SparesOK, Stored
  <2>5. ASSUME NEW x \in Keys PROVE Documents(x)' <= Documents(x) + IF x = k THEN 1 ELSE 0
    <3>1. Documents(x) \in Nat
      BY DocumentsNat
    <3>2. CASE x = k
      BY <1>1, <2>2, <2>3, <3>2 DEF Documents, Stored, SparesOK
    <3>3. CASE x # k
      BY <2>3, <3>1, <3>3 DEF Documents, Stored, SparesOK
    <3> QED BY <3>2, <3>3
  <2> QED BY <2>4, <2>5
<1>2. CASE Stored(k) /\ k \notin Keys
  <2>1. UNCHANGED <<cache, spare>>
    BY <1>2 DEF InsertOne, SparesOK
  <2>2. NoneAdded
    BY <2>1, SameStore
  <2> QED BY <1>2, <2>2, DocumentsNat DEF NoneAdded
<1>3. CASE ~Stored(k)
  <2>1. DOMAIN cache' = DOMAIN cache \cup {k} /\ UNCHANGED spare
    BY <1>3 DEF InsertOne, Stored
  <2>2. SparesOK'
    BY <2>1 DEF SparesOK, Stored
  <2>3. ASSUME NEW x \in Keys PROVE Documents(x)' <= Documents(x) + IF x = k THEN 1 ELSE 0
    <3>1. Documents(x) \in Nat /\ Documents(x)' \in Nat
      BY <2>2, DocumentsNat, DocumentsNatNext
    <3>2. CASE x # k
      BY <2>1, <3>1, <3>2 DEF Documents, Stored
    <3>3. CASE x = k
      <4>1. spare[x] = <<>>
        BY <1>3, <3>3 DEF SparesOK
      <4> QED BY <1>3, <2>1, <3>3, <4>1 DEF Documents, Stored
    <3> QED BY <3>2, <3>3
  <2> QED BY <2>2, <2>3
<1> QED BY <1>1, <1>2, <1>3

(* What the steps of a task do to the store. *)
LEMMA HooksKeepStore ==
  ASSUME NEW t \in Threads, Hooks(t) PROVE UNCHANGED <<serverState, running>>
  BY DEF Hooks

LEMMA IndexStays ==
  ASSUME NEW t \in Threads, TaskStep(t) PROVE UNCHANGED <<backend, indexed>>
<1> USE DEF serverState
<1>1. CASE PCall(t)
  BY <1>1 DEF PCall, ASet, AGet, AEvict, AClear, Request
<1>2. CASE Run(t)
  BY <1>2, HooksKeepStore DEF Run, SendSet, Finish, EvictInEffect
<1>3. CASE Serve(t)
  BY <1>3 DEF Serve, RedisSets, MongoUpdates, MongoUpserts, MongoFindsNone, MongoInserts,
       ServerGets, ServerEvicts, ServerClears, Executed
<1>4. CASE Resume(t)
  BY <1>4 DEF Resume, SetAnswered, GetAnswered, EvictAnswered, ClearAnswered, Resumed
<1>5. CASE Fail(t)
  BY <1>5 DEF Fail, SetRaises, EvictInEffectRaises, CallRaises, Raise
<1> QED BY <1>1, <1>2, <1>3, <1>4, <1>5 DEF TaskStep

(* Without the index a key gets a document only in the second half of an    *)
(* upsert.                                                                  *)
LEMMA StoreStep ==
  ASSUME DocsIInv, NEW t \in Threads, TaskStep(t)
  PROVE  /\ SparesOK'
         /\ ~indexed => NoneAdded \/ (MongoInserts(t) /\ InsertOne(frame[t].key, InFlight(t)))
<1> USE DEF serverState
<1>1. SparesOK /\ UNCHANGED <<backend, indexed>> /\ backend \in {"redis", "mongodb"}
      /\ (backend = "redis" => indexed)
  BY IndexStays DEF DocsIInv
<1> SUFFICES \/ NoneAdded
             \/ SparesOK' /\ indexed
             \/ SparesOK' /\ MongoInserts(t) /\ InsertOne(frame[t].key, InFlight(t))
  BY DEF NoneAdded
<1>2. CASE UNCHANGED <<cache, spare>>
  BY <1>1, <1>2, SameStore
<1>3. CASE RedisSets(t)
  <2>1. DOMAIN cache' = DOMAIN cache \cup {frame[t].key} /\ indexed /\ UNCHANGED spare
    BY <1>1, <1>3 DEF RedisSets, RedisASet
  <2> QED BY <1>1, <2>1 DEF SparesOK, Stored
<1>4. CASE MongoUpdates(t)
  BY <1>1, <1>4, UpdateAddsNone DEF MongoUpdates
<1>5. CASE MongoUpserts(t)
  BY <1>1, <1>5, InsertAddsOne DEF MongoUpserts
<1>6. CASE MongoInserts(t)
  <2>1. ~indexed /\ InsertOne(frame[t].key, InFlight(t))
    BY <1>6 DEF MongoInserts, DocsIInv, At
  <2> QED BY <1>1, <1>6, <2>1, InsertAddsOne
<1>7. CASE ServerEvicts(t) \/ EvictInEffect(t)
  <2>1. PICK k : IF backend = "redis" THEN RedisEvict(k) /\ UNCHANGED spare ELSE MongoAEvict(k)
    BY <1>1, <1>7 DEF ServerEvicts, EvictInEffect, Evicted, MongoEvict, RedisEvict
  <2>2. CASE backend = "redis"
    BY <1>1, <2>1, <2>2, FirstRemoved DEF RedisEvict, RedisAEvict, Restrict, SparesOK
  <2> QED BY <1>1, <2>1, <2>2, EvictAddsNone
<1>8. CASE ServerClears(t)
  <2>1. CASE backend = "redis"
    BY <1>1, <1>8, <2>1, FirstRemoved DEF ServerClears, Cleared, RedisAClear, Restrict, SparesOK
  <2> QED BY <1>1, <1>8, <2>1, ClearAddsNone DEF ServerClears, Cleared
<1>9. CASE PCall(t) \/ Resume(t) \/ Fail(t)
  BY <1>2, <1>9 DEF PCall, ASet, AGet, AEvict, AClear, Request,
       Resume, SetAnswered, GetAnswered, EvictAnswered, ClearAnswered, Resumed,
       Fail, SetRaises, EvictInEffectRaises, CallRaises, Raise
<1>10. CASE Run(t)
  BY <1>2, <1>7, <1>10, HooksKeepStore DEF Run, SendSet, Finish
<1>11. CASE MongoFindsNone(t) \/ ServerGets(t)
  BY <1>2, <1>11 DEF MongoFindsNone, ServerGets
<1> QED BY <1>3, <1>4, <1>5, <1>6, <1>7, <1>8, <1>9, <1>10, <1>11 DEF TaskStep, Serve

(* What an abandoned request does to the store. *)
LEMMA LateStoreStep ==
  ASSUME DocsIInv, NEW q, LateServe(q)
  PROVE  /\ SparesOK'
         /\ ~indexed =>
              \/ NoneAdded /\ abandoned' = abandoned \ {q}
              \/ NoneAdded /\ LateFindsNone(q)
              \/ LateInsert(q) /\ InsertOne(q.key, q.document) /\ q.stage = "inserting"
                 /\ abandoned' = abandoned \ {q}
<1>1. SparesOK /\ UNCHANGED <<backend, indexed>> /\ backend \in {"redis", "mongodb"}
      /\ (backend = "redis" => indexed)
  BY LateMeansStore DEF DocsIInv
<1>2. NoneAdded => SparesOK'
  BY DEF NoneAdded
<1>3. CASE LateRedisSet(q)
  <2>1. DOMAIN cache' = DOMAIN cache \cup {q.key} /\ indexed /\ UNCHANGED spare
    BY <1>1, <1>3 DEF LateRedisSet, RedisASet
  <2> QED BY <1>1, <2>1 DEF SparesOK, Stored
<1>4. CASE LateUpdate(q)
  <2>1. NoneAdded
    BY <1>1, <1>4, UpdateAddsNone DEF LateUpdate
  <2> QED BY <1>2, <1>4, <2>1 DEF LateUpdate, Ended
<1>5. CASE LateFindsNone(q)
  <2>1. NoneAdded
    BY <1>1, <1>5, SameStore DEF LateFindsNone
  <2> QED BY <1>2, <1>5, <2>1
<1>6. CASE LateInsert(q)
  <2>1. /\ InsertOne(q.key, q.document) /\ abandoned' = abandoned \ {q}
        /\ IF indexed THEN ~Stored(q.key) ELSE q.stage = "inserting"
    BY <1>6 DEF LateInsert, Ended
  <2>2. SparesOK'
    BY <1>1, <2>1, InsertAddsOne
  <2> QED BY <1>6, <2>1, <2>2
<1>7. CASE LateEvict(q)
  <2>1. abandoned' = abandoned \ {q}
        /\ IF backend = "redis" THEN RedisAEvict(q.key) /\ UNCHANGED spare ELSE MongoAEvict(q.key)
    BY <1>1, <1>7 DEF LateEvict, Ended, Evicted, RedisEvict, MongoEvict
  <2>2. CASE backend = "redis"
    <3>1. NoneAdded
      BY <1>1, <2>1, <2>2, FirstRemoved DEF RedisAEvict, Restrict, SparesOK
    <3> QED BY <1>2, <2>1, <3>1
  <2>3. CASE backend # "redis"
    <3>1. NoneAdded
      BY <1>1, <2>1, <2>3, EvictAddsNone
    <3> QED BY <1>2, <2>1, <3>1
  <2> QED BY <2>2, <2>3
<1>8. CASE LateClear(q)
  <2>1. abandoned' = abandoned \ {q}
        /\ IF backend = "redis" THEN RedisAClear /\ UNCHANGED spare ELSE MongoAClear
    BY <1>1, <1>8 DEF LateClear, Ended, Cleared
  <2>2. CASE backend = "redis"
    <3>1. NoneAdded
      BY <1>1, <2>1, <2>2, FirstRemoved DEF RedisAClear, Restrict, SparesOK
    <3> QED BY <1>2, <2>1, <3>1
  <2>3. CASE backend # "redis"
    <3>1. NoneAdded
      BY <1>1, <2>1, <2>3, ClearAddsNone
    <3> QED BY <1>2, <2>1, <3>1
  <2> QED BY <2>2, <2>3
<1> QED BY <1>3, <1>4, <1>5, <1>6, <1>7, <1>8 DEF LateServe

LEMMA InsertingFinite ==
  ASSUME NEW k
  PROVE  /\ IsFiniteSet(Inserting(k)) /\ Cardinality(Inserting(k)) \in Nat
         /\ Cardinality(Inserting(k)) <= Cardinality(Threads) /\ Cardinality(Threads) \in Nat
  BY ThreadsAssumption, FS_Subset, FS_CardinalityType DEF Inserting

LEMMA LateInsertingFinite ==
  ASSUME NEW k, AbandonedCounted
  PROVE  /\ IsFiniteSet(LateInserting(k)) /\ Cardinality(LateInserting(k)) \in Nat
         /\ Cardinality(LateInserting(k)) <= Outlived /\ Outlived \in Nat
<1>1. LateInserting(k) \subseteq abandoned
  BY DEF LateInserting
<1>2. Cardinality(Threads) \in Nat
  BY ThreadsAssumption, FS_CardinalityType
<1>3. restarts * Cardinality(Threads) \in Nat
  BY <1>2 DEF AbandonedCounted
<1>4. Outlived \in Nat
  BY <1>3 DEF Outlived, AbandonedCounted
<1>5. /\ IsFiniteSet(LateInserting(k)) /\ Cardinality(LateInserting(k)) \in Nat
      /\ Cardinality(LateInserting(k)) <= Cardinality(abandoned)
      /\ Cardinality(abandoned) \in Nat /\ Cardinality(abandoned) <= Outlived
  BY <1>1, FS_Subset, FS_CardinalityType DEF AbandonedCounted
<1> QED BY <1>4, <1>5

(* A failure allows for one more request, a restart for one of each task.   *)
LEMMA OutlivedStep ==
  ASSUME failures \in Nat, restarts \in Nat
  PROVE  /\ UNCHANGED <<failures, restarts>> => Outlived' = Outlived
         /\ failures' = failures + 1 /\ restarts' = restarts => Outlived' = Outlived + 1
         /\ restarts' = restarts + 1 /\ failures' = failures => Outlived' = Outlived + Cardinality(Threads)
<1>1. Cardinality(Threads) \in Nat
  BY ThreadsAssumption, FS_CardinalityType
<1> DEFINE n == Cardinality(Threads)
<1>2. restarts * n \in Nat /\ (restarts + 1) * n = restarts * n + n
  BY <1>1
<1>3. restarts' = restarts + 1 => restarts' * n = restarts * n + n
  BY <1>2
<1> HIDE DEF n
<1> QED BY <1>1, <1>2, <1>3 DEF Outlived, n

LEMMA AddsAtMostOne ==
  ASSUME NEW S, IsFiniteSet(S), NEW x
  PROVE  /\ IsFiniteSet(S \cup {x}) /\ Cardinality(S \cup {x}) \in Nat
         /\ Cardinality(S \cup {x}) <= Cardinality(S) + 1
<1>1. /\ IsFiniteSet(S \cup {x}) /\ Cardinality(S) \in Nat
      /\ Cardinality(S \cup {x}) = IF x \in S THEN Cardinality(S) ELSE Cardinality(S) + 1
  BY FS_AddElement, FS_CardinalityType
<1> QED BY <1>1

LEMMA TaskCounted ==
  ASSUME AbandonedCounted, NEW t \in Threads, TaskStep(t)
  PROVE  AbandonedCounted'
<1>1. /\ IsFiniteSet(abandoned) /\ Cardinality(abandoned) \in Nat /\ Cardinality(abandoned) <= Outlived
      /\ failures \in Nat /\ restarts \in Nat /\ restarts' = restarts
      /\ Outlived \in Nat
  <2>1. Outlived \in Nat
    BY LateInsertingFinite
  <2> QED BY <2>1, Abandoning, FS_CardinalityType DEF AbandonedCounted
<1>2. CASE UNCHANGED <<abandoned, failures>>
  BY <1>1, <1>2, Abandoning DEF AbandonedCounted, Outlived
<1>3. CASE failures' = failures + 1 /\ abandoned' \in {abandoned, abandoned \cup {Left(t)}}
  <2>1. Outlived' = Outlived + 1
    BY <1>1, <1>3, Abandoning, OutlivedStep
  <2>2. IsFiniteSet(abandoned') /\ Cardinality(abandoned') <= Cardinality(abandoned) + 1
        /\ Cardinality(abandoned') \in Nat
    <3>1. /\ IsFiniteSet(abandoned \cup {Left(t)})
          /\ Cardinality(abandoned \cup {Left(t)}) \in Nat
          /\ Cardinality(abandoned \cup {Left(t)}) <= Cardinality(abandoned) + 1
      BY <1>1, AddsAtMostOne
    <3> QED BY <1>1, <1>3, <3>1
  <2>3. \A q \in abandoned' : {"key", "stage"} \subseteq DOMAIN q
    BY <1>3 DEF AbandonedCounted, Left
  <2>4. failures' \in Nat
    BY <1>1, <1>3
  <2>5. restarts' \in Nat
    BY <1>1, Abandoning
  <2> QED BY <1>1, <2>1, <2>2, <2>3, <2>4, <2>5 DEF AbandonedCounted
<1> QED BY <1>2, <1>3, Abandoning

LEMMA LateCounted ==
  ASSUME AbandonedCounted, NEW q, LateServe(q)
  PROVE  AbandonedCounted' /\ Outlived' = Outlived
<1>1. /\ IsFiniteSet(abandoned) /\ Cardinality(abandoned) \in Nat /\ q \in abandoned
      /\ UNCHANGED <<failures, restarts>>
  BY LateMeansStore, FS_CardinalityType DEF AbandonedCounted, counts
<1>2. Outlived' = Outlived
  BY <1>1 DEF Outlived
<1>3. IsFiniteSet(abandoned \ {q}) /\ Cardinality(abandoned \ {q}) = Cardinality(abandoned) - 1
  BY <1>1, FS_RemoveElement
<1>4. CASE LateFindsNone(q)
  <2> DEFINE w == [q EXCEPT !.stage = "inserting"]
  <2>1. abandoned' = (abandoned \ {q}) \cup {w} /\ {"key", "stage"} \subseteq DOMAIN w
    BY <1>1, <1>4 DEF LateFindsNone, AbandonedCounted
  <2> HIDE DEF w
  <2>2. IsFiniteSet(abandoned') /\ Cardinality(abandoned') \in Nat
        /\ Cardinality(abandoned') <= Cardinality(abandoned)
    <3>1. /\ IsFiniteSet((abandoned \ {q}) \cup {w})
          /\ Cardinality((abandoned \ {q}) \cup {w}) =
               IF w \in abandoned \ {q} THEN Cardinality(abandoned \ {q})
               ELSE Cardinality(abandoned \ {q}) + 1
      BY <1>3, FS_AddElement
    <3> QED BY <1>1, <1>3, <2>1, <3>1, FS_CardinalityType
  <2>3. Outlived \in Nat
    BY LateInsertingFinite
  <2> QED BY <1>1, <1>2, <2>1, <2>2, <2>3 DEF AbandonedCounted
<1>5. CASE ~LateFindsNone(q)
  <2>1. abandoned' = abandoned \ {q}
    BY <1>5 DEF LateServe, LateRedisSet, LateUpdate, LateInsert, LateEvict, LateClear, Ended
  <2>2. Outlived \in Nat
    BY LateInsertingFinite
  <2> QED BY <1>1, <1>2, <1>3, <2>1, <2>2 DEF AbandonedCounted
<1> QED BY <1>2, <1>4, <1>5

LEMMA RestartCounted ==
  ASSUME AbandonedCounted, Restart
  PROVE  /\ AbandonedCounted' /\ Outlived' = Outlived + Cardinality(Threads)
         /\ \E T : /\ abandoned' = abandoned \cup T
                   /\ IsFiniteSet(T) /\ Cardinality(T) <= Cardinality(Threads)
<1>1. /\ IsFiniteSet(abandoned) /\ Cardinality(abandoned) \in Nat /\ Cardinality(abandoned) <= Outlived
      /\ failures \in Nat /\ restarts \in Nat /\ Outlived \in Nat /\ Cardinality(Threads) \in Nat
  BY LateInsertingFinite, ThreadsAssumption, FS_CardinalityType DEF AbandonedCounted
<1>2. restarts' = restarts + 1 /\ failures' = failures
  BY DEF Restart
<1>3. Outlived' = Outlived + Cardinality(Threads)
  BY <1>1, <1>2, OutlivedStep
<1>4. PICK left \in SUBSET {t \in Threads : UnderWay(t)} :
        abandoned' = abandoned \cup {Left(t) : t \in left}
  BY DEF Restart
<1> DEFINE T == {Left(t) : t \in left}
           f == [t \in left |-> Left(t)]
<1>5. IsFiniteSet(T) /\ Cardinality(T) <= Cardinality(Threads) /\ Cardinality(T) \in Nat
  <2>1. IsFiniteSet(left) /\ Cardinality(left) <= Cardinality(Threads) /\ Cardinality(left) \in Nat
    BY <1>4, ThreadsAssumption, FS_Subset, FS_CardinalityType
  <2>2. f \in Surjection(left, T)
    BY DEF Surjection
  <2> HIDE DEF f, T
  <2>3. IsFiniteSet(T) /\ Cardinality(T) <= Cardinality(left)
    BY <2>1, <2>2, FS_Surjection
  <2> QED BY <1>1, <2>1, <2>3, FS_CardinalityType
<1>6. \A q \in T : {"key", "stage"} \subseteq DOMAIN q
  BY DEF Left
<1>7. abandoned' = abandoned \cup T
  BY <1>4
<1> HIDE DEF T
<1>8. /\ IsFiniteSet(abandoned') /\ Cardinality(abandoned') \in Nat
      /\ Cardinality(abandoned') <= Cardinality(abandoned) + Cardinality(T)
  <2>1. IsFiniteSet(abandoned \cap T) /\ Cardinality(abandoned \cap T) \in Nat
    BY <1>1, FS_Subset, FS_CardinalityType
  <2>2. /\ IsFiniteSet(abandoned \cup T)
        /\ Cardinality(abandoned \cup T) =
             Cardinality(abandoned) + Cardinality(T) - Cardinality(abandoned \cap T)
    BY <1>1, <1>5, FS_Union
  <2> QED BY <1>1, <1>5, <1>7, <2>1, <2>2, FS_CardinalityType
<1>9. AbandonedCounted'
  <2>1. Cardinality(abandoned') <= Outlived'
    BY <1>1, <1>3, <1>5, <1>8
  <2> QED BY <1>1, <1>2, <1>6, <1>7, <1>8, <2>1 DEF AbandonedCounted
<1> QED BY <1>3, <1>5, <1>7, <1>9

(* The sets of the bound, after a step. *)
LEMMA CountsNext ==
  ASSUME NEW k, AbandonedCounted'
  PROVE  /\ IsFiniteSet(Inserting(k)') /\ Cardinality(Inserting(k)') \in Nat
         /\ Cardinality(Inserting(k)') <= Cardinality(Threads) /\ Cardinality(Threads) \in Nat
         /\ IsFiniteSet(LateInserting(k)') /\ Cardinality(LateInserting(k)') \in Nat
         /\ Cardinality(LateInserting(k)') <= Outlived'
<1>1. Inserting(k)' \subseteq Threads /\ LateInserting(k)' \subseteq abandoned'
  BY DEF Inserting, LateInserting
<1>2. IsFiniteSet(Inserting(k)') /\ Cardinality(Inserting(k)') \in Nat
      /\ Cardinality(Inserting(k)') <= Cardinality(Threads) /\ Cardinality(Threads) \in Nat
  BY <1>1, ThreadsAssumption, FS_Subset, FS_CardinalityType
<1>3. /\ IsFiniteSet(LateInserting(k)') /\ Cardinality(LateInserting(k)') \in Nat
      /\ Cardinality(LateInserting(k)') <= Cardinality(abandoned')
      /\ Cardinality(abandoned') \in Nat /\ Cardinality(abandoned') <= Outlived'
  BY <1>1, FS_Subset, FS_CardinalityType DEF AbandonedCounted
<1>4. Outlived' \in Nat
  <2>1. restarts' * Cardinality(Threads) \in Nat
    BY <1>2 DEF AbandonedCounted
  <2> QED BY <2>1 DEF AbandonedCounted, Outlived
<1> QED BY <1>2, <1>3, <1>4

(* The index leaves room for one. *)
LEMMA IndexedHasOne ==
  ASSUME SparesOK', indexed', NEW k \in Keys
  PROVE  Documents(k)' <= 1
<1>1. spare'[k] = <<>>
  BY DEF SparesOK
<1> QED BY <1>1 DEF Documents

LEMMA DocsTaskStep ==
  ASSUME DocsIInv, NEW t \in Threads, TaskStep(t)
  PROVE  DocsIInv'
<1>1. /\ Shape' /\ SparesOK' /\ SparesOK /\ UNCHANGED <<backend, indexed>>
      /\ AbandonedCounted /\ AbandonedCounted'
  BY TaskMoves, StoreStep, IndexStays, TaskCounted DEF Moves, DocsIInv
<1>2. indexed => \A u \in Threads : frame'[u].pc # "inserting"
  BY TaskMoves DEF Moves, DocsIInv, MongoFindsNone
<1>3. ASSUME NEW k \in Keys, ~indexed
      PROVE  Documents(k)' + Cardinality(Inserting(k)') + Cardinality(LateInserting(k)') <= UpsertsAtOnce'
  <2>1. Documents(k) \in Nat /\ Documents(k)' \in Nat
    BY <1>1, DocumentsNat, DocumentsNatNext
  <2>2. /\ IsFiniteSet(Inserting(k)) /\ Cardinality(Inserting(k)) \in Nat
        /\ IsFiniteSet(Inserting(k)') /\ Cardinality(Inserting(k)') \in Nat
        /\ Cardinality(Inserting(k)') <= Cardinality(Threads) /\ Cardinality(Threads) \in Nat
    BY <1>1, InsertingFinite, CountsNext
  <2>3. /\ IsFiniteSet(LateInserting(k)) /\ Cardinality(LateInserting(k)) \in Nat /\ Outlived \in Nat
        /\ IsFiniteSet(LateInserting(k)') /\ Cardinality(LateInserting(k)') \in Nat
        /\ Cardinality(LateInserting(k)) <= Outlived
    BY <1>1, LateInsertingFinite, CountsNext
  <2>4. Documents(k) + Cardinality(Inserting(k)) + Cardinality(LateInserting(k))
          <= Cardinality(Threads) + Outlived
    BY <1>3 DEF DocsIInv, DocumentsBounded, UpsertsAtOnce
  <2>5. Cardinality(LateInserting(k)') - Outlived' <= Cardinality(LateInserting(k)) - Outlived
        /\ Outlived' \in Nat
    <3>1. CASE UNCHANGED <<abandoned, failures>>
      <4>1. LateInserting(k)' = LateInserting(k)
        BY <3>1 DEF LateInserting
      <4>2. Outlived' = Outlived
        BY <3>1, Abandoning DEF Outlived
      <4> QED BY <2>3, <4>1, <4>2
    <3>2. CASE failures' = failures + 1 /\ abandoned' \in {abandoned, abandoned \cup {Left(t)}}
      <4>1. Outlived' = Outlived + 1
        BY <1>1, <3>2, Abandoning, OutlivedStep DEF AbandonedCounted
      <4>2. LateInserting(k)' \subseteq LateInserting(k) \cup {Left(t)}
        BY <3>2 DEF LateInserting
      <4>3. /\ IsFiniteSet(LateInserting(k) \cup {Left(t)})
            /\ Cardinality(LateInserting(k) \cup {Left(t)}) \in Nat
            /\ Cardinality(LateInserting(k) \cup {Left(t)}) <= Cardinality(LateInserting(k)) + 1
        BY <2>3, AddsAtMostOne
      <4>4. Cardinality(LateInserting(k)') <= Cardinality(LateInserting(k) \cup {Left(t)})
        BY <4>2, <4>3, FS_Subset
      <4> QED BY <2>3, <4>1, <4>3, <4>4
    <3> QED BY <3>1, <3>2, Abandoning
  <2>6. CASE MongoFindsNone(t) /\ frame[t].key = k
    <3>1. Documents(k)' = 0
      <4>1. spare[k] = <<>> /\ ~Stored(k) /\ UNCHANGED <<cache, spare>>
        BY <1>1, <2>6 DEF MongoFindsNone, SparesOK, serverState
      <4> QED BY <4>1 DEF Documents, Stored
    <3> QED BY <2>2, <2>3, <2>5, <3>1 DEF UpsertsAtOnce
  <2>7. CASE ~(MongoFindsNone(t) /\ frame[t].key = k)
    <3>1. Inserting(k)' \subseteq Inserting(k)
      BY <2>7, TaskMoves DEF Moves, Inserting, At, DocsIInv
    <3>2. Cardinality(Inserting(k)') <= Cardinality(Inserting(k))
      BY <2>2, <3>1, FS_Subset
    <3>3. CASE NoneAdded
      <4>1. Documents(k)' <= Documents(k)
        BY <3>3 DEF NoneAdded
      <4> QED BY <2>1, <2>2, <2>3, <2>4, <2>5, <3>2, <4>1 DEF UpsertsAtOnce
    <3>4. CASE MongoInserts(t) /\ InsertOne(frame[t].key, InFlight(t)) /\ frame[t].key # k
      <4>1. Documents(k)' <= Documents(k)
        BY <1>1, <1>3, <2>1, <3>4, InsertAddsOne
      <4> QED BY <2>1, <2>2, <2>3, <2>4, <2>5, <3>2, <4>1 DEF UpsertsAtOnce
    <3>5. CASE MongoInserts(t) /\ InsertOne(frame[t].key, InFlight(t)) /\ frame[t].key = k
      <4>1. Documents(k)' <= Documents(k) + 1
        BY <1>1, <1>3, <2>1, <3>5, InsertAddsOne
      <4>2. t \in Inserting(k) /\ t \notin Inserting(k)'
        BY <3>5 DEF MongoInserts, Executed, Goto, Inserting, At, DocsIInv, Shape
      <4>3. Inserting(k)' \subseteq Inserting(k) \ {t}
        BY <3>1, <4>2
      <4>4. /\ IsFiniteSet(Inserting(k) \ {t})
            /\ Cardinality(Inserting(k) \ {t}) = Cardinality(Inserting(k)) - 1
        BY <2>2, <4>2, FS_RemoveElement
      <4>5. Cardinality(Inserting(k)') <= Cardinality(Inserting(k)) - 1
        BY <4>3, <4>4, FS_Subset
      <4> QED BY <2>1, <2>2, <2>3, <2>4, <2>5, <4>1, <4>5 DEF UpsertsAtOnce
    <3> QED BY <1>3, <3>3, <3>4, <3>5, StoreStep
  <2> QED BY <2>6, <2>7
<1>4. DocumentsBounded'
  BY <1>1, <1>3, IndexedHasOne DEF DocumentsBounded
<1> QED BY <1>1, <1>2, <1>4 DEF DocsIInv

(* The execution of an abandoned request. *)
LEMMA DocsLateStep ==
  ASSUME DocsIInv, NEW q, LateServe(q)
  PROVE  DocsIInv'
<1>1. /\ SparesOK' /\ SparesOK /\ UNCHANGED <<backend, indexed, frame>> /\ q \in abandoned
      /\ AbandonedCounted /\ AbandonedCounted' /\ Outlived' = Outlived
  BY LateStoreStep, LateMeansStore, LateCounted DEF DocsIInv
<1>2. ASSUME NEW k \in Keys, ~indexed
      PROVE  Documents(k)' + Cardinality(Inserting(k)') + Cardinality(LateInserting(k)') <= UpsertsAtOnce'
  <2>1. Documents(k) \in Nat /\ Documents(k)' \in Nat
    BY <1>1, DocumentsNat, DocumentsNatNext
  <2>2. Inserting(k)' = Inserting(k)
    BY <1>1 DEF Inserting, At
  <2>3. /\ Cardinality(Inserting(k)) \in Nat /\ Cardinality(Threads) \in Nat
        /\ Cardinality(Inserting(k)) <= Cardinality(Threads)
    BY InsertingFinite
  <2>4. /\ IsFiniteSet(LateInserting(k)) /\ Cardinality(LateInserting(k)) \in Nat /\ Outlived \in Nat
        /\ IsFiniteSet(LateInserting(k)') /\ Cardinality(LateInserting(k)') \in Nat
        /\ Cardinality(LateInserting(k)') <= Outlived
    BY <1>1, LateInsertingFinite, CountsNext
  <2>5. Documents(k) + Cardinality(Inserting(k)) + Cardinality(LateInserting(k))
          <= Cardinality(Threads) + Outlived
    BY <1>2 DEF DocsIInv, DocumentsBounded, UpsertsAtOnce
  <2>6. UpsertsAtOnce' = Cardinality(Threads) + Outlived
    BY <1>1 DEF UpsertsAtOnce
  <2>7. CASE NoneAdded /\ LateInserting(k)' \subseteq LateInserting(k)
    <3>1. Cardinality(LateInserting(k)') <= Cardinality(LateInserting(k))
      BY <2>4, <2>7, FS_Subset
    <3>2. Documents(k)' <= Documents(k)
      BY <2>7 DEF NoneAdded
    <3> QED BY <2>1, <2>2, <2>3, <2>4, <2>5, <2>6, <3>1, <3>2
  <2>8. CASE NoneAdded /\ abandoned' = abandoned \ {q}
    BY <2>7, <2>8 DEF LateInserting
  <2>9. CASE LateFindsNone(q) /\ q.key = k
    <3>1. Documents(k)' = 0
      <4>1. spare[k] = <<>> /\ ~Stored(k) /\ UNCHANGED <<cache, spare>>
        BY <1>1, <2>9 DEF LateFindsNone, SparesOK
      <4> QED BY <4>1 DEF Documents, Stored
    <3> QED BY <2>2, <2>3, <2>4, <2>6, <3>1
  <2>10. CASE NoneAdded /\ LateFindsNone(q) /\ q.key # k
    <3>1. abandoned' = (abandoned \ {q}) \cup {[q EXCEPT !.stage = "inserting"]}
      BY <2>10 DEF LateFindsNone
    <3>2. [q EXCEPT !.stage = "inserting"].key = q.key
      BY <1>1 DEF AbandonedCounted
    <3> QED BY <2>7, <2>10, <3>1, <3>2 DEF LateInserting
  <2>11. CASE InsertOne(q.key, q.document) /\ q.stage = "inserting" /\ abandoned' = abandoned \ {q}
    <3>1. Documents(k)' <= Documents(k) + IF k = q.key THEN 1 ELSE 0
      BY <1>1, <1>2, <2>11, InsertAddsOne
    <3>2. CASE q.key = k
      <4>1. q \in LateInserting(k) /\ LateInserting(k)' = LateInserting(k) \ {q}
        BY <1>1, <2>11, <3>2 DEF LateInserting
      <4>2. Cardinality(LateInserting(k) \ {q}) = Cardinality(LateInserting(k)) - 1
        BY <2>4, <4>1, FS_RemoveElement
      <4> QED BY <2>1, <2>2, <2>3, <2>4, <2>5, <2>6, <3>1, <3>2, <4>1, <4>2
    <3>3. CASE q.key # k
      <4>1. LateInserting(k)' = LateInserting(k)
        BY <2>11, <3>3 DEF LateInserting
      <4> QED BY <2>1, <2>2, <2>3, <2>4, <2>5, <2>6, <3>1, <3>3, <4>1
    <3> QED BY <3>2, <3>3
  <2> QED BY <1>2, <2>8, <2>9, <2>10, <2>11, LateStoreStep
<1>3. DocumentsBounded'
  BY <1>1, <1>2, IndexedHasOne DEF DocumentsBounded
<1> QED BY <1>1, <1>3 DEF DocsIInv, Shape

(* With the unique index a key has one document.  Without it, however many  *)
(* tasks, failures and restarts, and whenever the server executes what was  *)
(* abandoned, it has at most one for each upsert that could be under way    *)
(* when the key had none: one of each task, in this process and in each of  *)
(* those before it, and one for each call that failed (mongodb.py:81-84,    *)
(* :207-209).                                                               *)
THEOREM DocumentsAreBounded == HSpec => []DocumentsBounded
<1>1. HInit => DocsIInv
  <2> SUFFICES ASSUME HInit PROVE DocsIInv
    OBVIOUS
  <2>1. /\ Shape /\ cache = [k \in {} |-> None] /\ spare = [k \in Keys |-> <<>>]
        /\ \A t \in Threads : frame[t].pc = "idle"
        /\ abandoned = {} /\ failures = 0 /\ restarts = 0
    BY ShapeInit DEF HInit, PInit, Init, InMemoryInit, NoSpare, Idle
  <2>2. SparesOK
    BY <2>1 DEF SparesOK
  <2>3. backend \in {"redis", "mongodb"} /\ (backend = "redis" => indexed)
    BY BackendsAssumption DEF HInit, PInit
  <2>4. Cardinality(Threads) \in Nat
    BY ThreadsAssumption, FS_CardinalityType
  <2>5. Outlived = 0 /\ AbandonedCounted
    <3>1. Outlived = 0
      BY <2>1, <2>4 DEF Outlived
    <3> QED BY <2>1, <3>1, FS_EmptySet DEF AbandonedCounted
  <2>6. DocumentsBounded
    <3> SUFFICES ASSUME NEW k \in Keys
                 PROVE  /\ Documents(k) = 0 /\ Cardinality(Inserting(k)) = 0
                        /\ Cardinality(LateInserting(k)) = 0
      BY <2>4, <2>5 DEF DocumentsBounded, UpsertsAtOnce
    <3>1. Inserting(k) = {} /\ LateInserting(k) = {} /\ Documents(k) = 0
      BY <2>1 DEF Inserting, LateInserting, At, Documents, Stored
    <3> QED BY <3>1, FS_EmptySet
  <2> QED BY <2>1, <2>2, <2>3, <2>5, <2>6 DEF DocsIInv
<1>2. DocsIInv /\ [HNext]_hvars => DocsIInv'
  <2> SUFFICES ASSUME DocsIInv, [HNext]_hvars PROVE DocsIInv'
    OBVIOUS
  <2>1. ASSUME NEW t \in Threads, TaskStep(t) PROVE DocsIInv'
    BY <2>1, DocsTaskStep
  <2>2. ASSUME NEW q, LateServe(q) PROVE DocsIInv'
    BY <2>2, DocsLateStep
  <2>3. CASE Restart
    <3>1. Shape' /\ \A t \in Threads : frame'[t].pc = "idle"
      BY <2>3, ShapeRestart DEF DocsIInv, Restart, Idle
    <3>2. /\ UNCHANGED <<cache, spare, backend>>
          /\ indexed' = indexed \/ (indexed' = (indexed \/ spare = NoSpare) /\ backend = "mongodb")
      BY <2>3 DEF Restart, CheckCollection, DocsIInv
    <3>3. SparesOK'
      <4>1. indexed' /\ ~indexed => spare = NoSpare
        BY <2>3 DEF Restart, CheckCollection
      <4> QED BY <3>2, <4>1 DEF SparesOK, Stored, NoSpare, DocsIInv
    <3>4. /\ AbandonedCounted /\ AbandonedCounted' /\ Outlived' = Outlived + Cardinality(Threads)
          /\ \E T : /\ abandoned' = abandoned \cup T
                    /\ IsFiniteSet(T) /\ Cardinality(T) <= Cardinality(Threads)
      BY <2>3, RestartCounted DEF DocsIInv
    <3>5. ASSUME NEW k \in Keys, ~indexed'
          PROVE  Documents(k)' + Cardinality(Inserting(k)') + Cardinality(LateInserting(k)')
                   <= UpsertsAtOnce'
      <4>1. Inserting(k)' = {} /\ Cardinality({}) = 0
        BY <3>1, FS_EmptySet DEF Inserting, At
      <4>2. Documents(k)' = Documents(k) /\ Documents(k) \in Nat
        BY <3>2, DocumentsNat DEF Documents, Stored, DocsIInv
      <4>3. /\ Cardinality(Inserting(k)) \in Nat /\ Cardinality(Threads) \in Nat
            /\ IsFiniteSet(LateInserting(k)) /\ Cardinality(LateInserting(k)) \in Nat
            /\ Outlived \in Nat /\ Cardinality(LateInserting(k)') \in Nat
        BY <3>4, InsertingFinite, LateInsertingFinite, CountsNext
      <4>4. Documents(k) + Cardinality(Inserting(k)) + Cardinality(LateInserting(k))
              <= Cardinality(Threads) + Outlived
        BY <3>2, <3>5 DEF DocsIInv, DocumentsBounded, UpsertsAtOnce
      <4>5. Cardinality(LateInserting(k)') <= Cardinality(LateInserting(k)) + Cardinality(Threads)
        <5>1. PICK T : /\ abandoned' = abandoned \cup T
                       /\ IsFiniteSet(T) /\ Cardinality(T) <= Cardinality(Threads)
          BY <3>4
        <5>2. LateInserting(k)' \subseteq LateInserting(k) \cup T
          BY <5>1 DEF LateInserting
        <5>3. /\ IsFiniteSet(LateInserting(k) \cup T)
              /\ Cardinality(LateInserting(k) \cup T) =
                   Cardinality(LateInserting(k)) + Cardinality(T) - Cardinality(LateInserting(k) \cap T)
          BY <4>3, <5>1, FS_Union
        <5>4. /\ Cardinality(LateInserting(k) \cap T) \in Nat /\ Cardinality(T) \in Nat
              /\ Cardinality(LateInserting(k) \cup T) \in Nat
          BY <4>3, <5>1, <5>3, FS_Subset, FS_CardinalityType
        <5>5. Cardinality(LateInserting(k)') <= Cardinality(LateInserting(k) \cup T)
          BY <5>2, <5>3, FS_Subset
        <5> QED BY <4>3, <5>1, <5>3, <5>4, <5>5
      <4>6. UpsertsAtOnce' = Cardinality(Threads) + (Outlived + Cardinality(Threads))
        BY <3>4 DEF UpsertsAtOnce
      <4> QED BY <4>1, <4>2, <4>3, <4>4, <4>5, <4>6
    <3>6. DocumentsBounded'
      BY <3>3, <3>5, IndexedHasOne DEF DocumentsBounded
    <3> QED BY <3>1, <3>2, <3>3, <3>4, <3>6 DEF DocsIInv
  <2>4. CASE PTick \/ UNCHANGED hvars
    <3>1. UNCHANGED <<cache, spare, indexed, backend, frame, abandoned, failures, restarts>>
      BY <2>4 DEF PTick, Tick, hvars, pvars, vars, ruleState
    <3>2. Outlived' = Outlived /\ \A k : Inserting(k)' = Inserting(k) /\ LateInserting(k)' = LateInserting(k)
                                         /\ Documents(k)' = Documents(k)
      BY <3>1 DEF Outlived, Inserting, LateInserting, At, Documents, Stored
    <3>3. DocumentsBounded'
      BY <3>1, <3>2 DEF DocsIInv, DocumentsBounded, UpsertsAtOnce
    <3>4. AbandonedCounted'
      BY <3>1, <3>2 DEF DocsIInv, AbandonedCounted
    <3> QED BY <3>1, <3>3, <3>4 DEF DocsIInv, Shape, SparesOK, Stored
  <2> QED BY <2>1, <2>2, <2>3, <2>4 DEF HNext, PNext, TaskStep
<1>3. DocsIInv => DocumentsBounded
  BY DEF DocsIInv
<1> QED BY <1>1, <1>2, <1>3, PTL DEF HSpec

=============================================================================
