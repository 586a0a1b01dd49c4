--------------------------- MODULE UndisturbedProofs ---------------------------
(***************************************************************************)
(* Proofs about the rules and the server of PersistentStorage: every       *)
(* variable has its type, and what no failure, restart or overlap of calls *)
(* has disturbed agrees.  They hold for any number of tasks, keys,         *)
(* failures and restarts, any rule tuples and any limits.                  *)
(***************************************************************************)
EXTENDS PersistentProofs, RuleAwareStorageProofs

-----------------------------------------------------------------------------
(* Type correctness. *)

(* A set awaits the server when every rule has run, and the rules are told  *)
(* of a removal from the first one on.                                      *)
AwaitOK(f) ==
  /\ f.op = "set" /\ f.pc \in Awaiting => f.i > Len(rules)
  /\ f.op \in {"evict", "clear"} /\ f.pc \in Awaiting => f.j = 1
  /\ f.pc = "inserting" => f.op = "set" /\ ~indexed

(* A label inside a hook goes with the rule whose hook it is. *)
HookOK(f) ==
  /\ f.pc \in {"lru_move", "lru_len", "lru_pop", "lru_touch"} =>
       f.i \in DOMAIN rules /\ rules[f.i] = "lru"
  /\ f.pc \in {"max_len", "max_add"} => f.i \in DOMAIN rules /\ rules[f.i] = "max"
  /\ f.pc = "life_check" => f.i \in DOMAIN rules /\ rules[f.i] = "life"

TaskOK(f) == f \in TaskFrame /\ CallOK(f) /\ AwaitOK(f) /\ HookOK(f)

(* A task that neither awaits nor is done is the one that runs. *)
Busy(f) == f.pc \notin Awaiting \cup {"idle"}

TasksOK ==
  /\ frame \in [Threads -> TaskFrame] /\ running \in Threads \cup {None}
  /\ \A t \in Threads : TaskOK(frame[t]) /\ (running = t <=> Busy(frame[t]))

(* What the server keeps: a key without a first document has no spare ones. *)
DocumentsOK ==
  /\ InMemoryTypeOK
  /\ spare \in Spares
  /\ \A k \in Keys : spare[k] # <<>> => Stored(k)

ServerOK ==
  /\ DocumentsOK
  /\ indexed \in BOOLEAN /\ backend \in {"redis", "mongodb"}
  /\ backend = "redis" => indexed
  /\ indexed => spare = NoSpare

(* What the server may yet execute. *)
AbandonedOK == abandoned \subseteq AbandonedRequest /\ \A q \in abandoned : RequestOK(q)

CountsOK == failures \in 0..MaxFailures /\ restarts \in 0..MaxRestarts

TypeIInv == ServerOK /\ AbandonedOK /\ CountsOK /\ RuleStateOK /\ rules \in RuleLists /\ TasksOK

LEMMA TasksShape == TasksOK => Shape
  BY DEF TasksOK, Shape, Registers, TaskFrame

(* A step of a task changes its own frame. *)
LEMMA TaskLocal ==
  ASSUME TasksOK, NEW t \in Threads, TaskStep(t)
  PROVE  frame' = [frame EXCEPT ![t] = frame'[t]] /\ rules' = rules
<1> USE DEF TasksOK
<1>1. CASE PCall(t)
  BY <1>1 DEF PCall, ASet, Set, AGet, AEvict, AClear, Request
<1>2. CASE Hooks(t)
  <2> USE DEF Goto, NextOuter, NextInner, Effect
  <2>1. CASE \/ LruOnSetInsert(t) \/ LruOnSetMove(t) \/ LruOnSetLen(t) \/ LruOnSetPop(t)
             \/ MaxOnSetIn(t) \/ MaxOnSetLen(t) \/ MaxOnSetAdd(t) \/ LifeOnSet(t)
    BY <2>1 DEF LruOnSetInsert, LruOnSetMove, LruOnSetLen, LruOnSetPop, MaxOnSetIn,
         MaxOnSetLen, MaxOnSetAdd, LifeOnSet
  <2>2. CASE \/ LruOnGetIn(t) \/ LruOnGetMove(t) \/ MaxOnGet(t)
             \/ LifeOnGetRead(t) \/ LifeOnGetCheck(t)
    BY <2>2 DEF LruOnGetIn, LruOnGetMove, MaxOnGet, LifeOnGetRead, LifeOnGetCheck
  <2>3. CASE \/ LruOnEvict(t) \/ MaxOnEvict(t) \/ LifeOnEvict(t) \/ EffectDone(t)
             \/ LruOnClear(t) \/ MaxOnClear(t) \/ LifeOnClear(t)
    BY <2>3 DEF LruOnEvict, MaxOnEvict, LifeOnEvict, EffectDone, LruOnClear, MaxOnClear, LifeOnClear
  <2> QED BY <1>2, <2>1, <2>2, <2>3 DEF Hooks
<1>3. CASE SendSet(t) \/ Finish(t) \/ EvictInEffect(t)
  BY <1>3 DEF SendSet, Finish, GetReturn, EvictReturn, ClearReturn, Return, EvictInEffect
<1>4. CASE Serve(t)
  BY <1>4 DEF Serve, RedisSets, MongoUpdates, MongoUpserts, MongoFindsNone, MongoInserts,
       ServerGets, ServerEvicts, ServerClears, Executed, Goto
<1>5. CASE Resume(t)
  BY <1>5 DEF Resume, SetAnswered, GetAnswered, EvictAnswered, ClearAnswered, Resumed
<1>6. CASE Fail(t)
  BY <1>6 DEF Fail, SetRaises, EvictInEffectRaises, CallRaises, Raise, Return
<1> QED BY <1>1, <1>2, <1>3, <1>4, <1>5, <1>6 DEF TaskStep, Run

(* The step of a task leaves its frame as its call requires. *)
LEMMA CallTaskOK ==
  ASSUME TypeIInv, NEW t \in Threads, PCall(t)
  PROVE  TaskOK(frame'[t])
<1> DEFINE OK(f) == frame' = [frame EXCEPT ![t] = f] /\ TaskOK(f)
<1>1. ASSUME NEW f, OK(f) PROVE TaskOK(frame'[t])
  BY <1>1 DEF TypeIInv, TasksOK
<1> USE TTLsAssumption DEF TaskOK, TaskFrame, CallOK, AwaitOK, HookOK, Idle, Awaiting, Labels,
                           SetLabels, GetLabels
<1>2. ASSUME NEW k \in Keys, NEW v \in Values, NEW ttl \in TTLs, ASet(t, k, v, ttl)
      PROVE  OK([Idle EXCEPT !.pc = "on_set", !.op = "set", !.key = k, !.value = v,
                             !.ttl = ttl, !.i = 1])
  BY <1>2 DEF ASet, Set
<1>3. ASSUME NEW k \in Keys, AGet(t, k)
      PROVE  OK([Idle EXCEPT !.pc = "sent", !.op = "get", !.key = k, !.i = 1])
  BY <1>3 DEF AGet, Request
<1>4. ASSUME NEW k \in Keys, AEvict(t, k)
      PROVE  OK([Idle EXCEPT !.pc = "sent", !.op = "evict", !.victim = k, !.j = 1])
  BY <1>4 DEF AEvict, Request
<1>5. ASSUME AClear(t)
      PROVE  OK([Idle EXCEPT !.pc = "sent", !.op = "clear", !.j = 1])
  BY <1>5 DEF AClear, Request
<1> HIDE DEF OK
<1> QED BY <1>1, <1>2, <1>3, <1>4, <1>5 DEF PCall

LEMMA SetHookTaskOK ==
  ASSUME TypeIInv, NEW t \in Threads,
         \/ LruOnSetInsert(t) \/ LruOnSetMove(t) \/ LruOnSetLen(t) \/ LruOnSetPop(t)
         \/ MaxOnSetIn(t) \/ MaxOnSetLen(t) \/ MaxOnSetAdd(t) \/ LifeOnSet(t)
  PROVE  TaskOK(frame'[t]) /\ Busy(frame[t]) /\ Busy(frame'[t])
<1> USE DEF Awaiting, Labels, SetLabels, GetLabels, At, InRule, Outer, Goto, NextOuter, Effect,
            TaskOK, TaskFrame, CallOK, AwaitOK, HookOK, Busy
<1>1. DOMAIN frame = Threads /\ TaskOK(frame[t])
  BY DEF TypeIInv, TasksOK
<1>2. CASE LruOnSetInsert(t) \/ LruOnSetMove(t)
  BY <1>1, <1>2 DEF LruOnSetInsert, LruOnSetMove
<1>3. CASE LruOnSetLen(t)
  BY <1>1, <1>3 DEF LruOnSetLen
<1>4. CASE LruOnSetPop(t)
  <2>1. LruOldest \in Keys
    BY <1>4, HeadTailProperties DEF LruOnSetPop, LruOldest, TypeIInv, RuleStateOK, LruOK
  <2> QED BY <1>1, <1>4, <2>1 DEF LruOnSetPop
<1>5. CASE MaxOnSetIn(t)
  BY <1>1, <1>5 DEF MaxOnSetIn
<1>6. CASE MaxOnSetLen(t)
  BY <1>1, <1>6 DEF MaxOnSetLen
<1>7. CASE MaxOnSetAdd(t) \/ LifeOnSet(t)
  BY <1>1, <1>7 DEF MaxOnSetAdd, LifeOnSet
<1> HIDE DEF TaskOK, Busy
<1> QED BY <1>2, <1>3, <1>4, <1>5, <1>6, <1>7

LEMMA OtherHookTaskOK ==
  ASSUME TypeIInv, NEW t \in Threads,
         \/ LruOnGetIn(t) \/ LruOnGetMove(t) \/ MaxOnGet(t) \/ LifeOnGetRead(t) \/ LifeOnGetCheck(t)
         \/ LruOnEvict(t) \/ MaxOnEvict(t) \/ LifeOnEvict(t) \/ EffectDone(t)
         \/ LruOnClear(t) \/ MaxOnClear(t) \/ LifeOnClear(t)
  PROVE  TaskOK(frame'[t]) /\ Busy(frame[t]) /\ Busy(frame'[t])
<1> USE DEF Awaiting, Labels, SetLabels, GetLabels, At, InRule, Outer, Inner, InnerDone, Goto,
            NextOuter, NextInner, Effect, TaskOK, TaskFrame, CallOK, AwaitOK, HookOK, Busy
<1>1. DOMAIN frame = Threads /\ TaskOK(frame[t])
  BY DEF TypeIInv, TasksOK
<1>2. CASE LruOnGetIn(t)
  BY <1>1, <1>2 DEF LruOnGetIn
<1>3. CASE LruOnGetMove(t) \/ MaxOnGet(t)
  BY <1>1, <1>3 DEF LruOnGetMove, MaxOnGet
<1>4. CASE LifeOnGetRead(t)
  <2>1. CASE frame[t].key \in DOMAIN expiryTimes
    <3>1. expiryTimes[frame[t].key] \in Nat
      BY <2>1 DEF TypeIInv, RuleStateOK, LifeOK
    <3> QED BY <1>1, <1>4, <2>1, <3>1 DEF LifeOnGetRead
  <2>2. CASE frame[t].key \notin DOMAIN expiryTimes
    BY <1>1, <1>4, <2>2 DEF LifeOnGetRead
  <2> QED BY <2>1, <2>2
<1>5. CASE LifeOnGetCheck(t)
  BY <1>1, <1>5 DEF LifeOnGetCheck
<1>6. CASE LruOnEvict(t) \/ MaxOnEvict(t) \/ LifeOnEvict(t)
  <2>1. NextInner(t) /\ frame[t].pc = "on_evict"
    BY <1>6 DEF LruOnEvict, MaxOnEvict, LifeOnEvict
  <2> QED BY <1>1, <2>1
<1>7. CASE EffectDone(t)
  BY <1>1, <1>7 DEF EffectDone
<1>8. CASE LruOnClear(t) \/ MaxOnClear(t) \/ LifeOnClear(t)
  <2>1. NextInner(t) /\ frame[t].pc = "on_clear"
    BY <1>8 DEF LruOnClear, MaxOnClear, LifeOnClear
  <2> QED BY <1>1, <2>1
<1> HIDE DEF TaskOK, Busy
<1> QED BY <1>2, <1>3, <1>4, <1>5, <1>6, <1>7, <1>8

LEMMA SetSentTaskOK ==
  ASSUME TypeIInv, NEW t \in Threads, SendSet(t)
  PROVE  TaskOK(frame'[t]) /\ Busy(frame[t])
<1>1. DOMAIN frame = Threads /\ TaskOK(frame[t]) /\ RedisExpiry(frame[t].ttl) \in Nat
  BY DEF TypeIInv, TasksOK, TaskOK, TaskFrame, ServerOK, DocumentsOK, InMemoryTypeOK, RedisExpiry
<1> QED BY <1>1 DEF SendSet, OuterDone, Awaiting, Labels, SetLabels, GetLabels, At,
            TaskOK, TaskFrame, CallOK, AwaitOK, HookOK, Busy

LEMMA EffectTaskOK ==
  ASSUME TypeIInv, NEW t \in Threads, EvictInEffect(t)
  PROVE  TaskOK(frame'[t]) /\ Busy(frame[t]) /\ Busy(frame'[t])
<1>1. DOMAIN frame = Threads /\ TaskOK(frame[t])
  BY DEF TypeIInv, TasksOK
<1> QED BY <1>1 DEF EvictInEffect, Awaiting, Labels, SetLabels, GetLabels, At,
            TaskOK, TaskFrame, CallOK, AwaitOK, HookOK, Busy

LEMMA IdleTaskOK == TaskOK(Idle) /\ ~Busy(Idle)
  BY DEF TaskOK, TaskFrame, CallOK, AwaitOK, HookOK, Idle, Labels, SetLabels, GetLabels, Awaiting, Busy

(* A request is executed in two halves, or in one. *)
LEMMA ServeTaskOK ==
  ASSUME TypeIInv, NEW t \in Threads, Serve(t)
  PROVE  TaskOK(frame'[t]) /\ ~Busy(frame[t]) /\ ~Busy(frame'[t]) /\ UNCHANGED running
<1>1. DOMAIN frame = Threads /\ TaskOK(frame[t])
  BY DEF TypeIInv, TasksOK
<1>2. \A k \in DOMAIN cache : cache[k].value \in Values
  BY DEF TypeIInv, ServerOK, DocumentsOK, InMemoryTypeOK, Entry
<1> USE DEF Awaiting, Labels, SetLabels, GetLabels, At, Under, TaskOK, TaskFrame, CallOK, AwaitOK,
            HookOK, Busy
<1>3. CASE MongoFindsNone(t)
  BY <1>1, <1>3 DEF MongoFindsNone, Goto
<1>4. CASE ServerGets(t)
  <2> DEFINE found == CASE backend = "redis"   -> RedisAGet(frame[t].key)
                        [] backend = "mongodb" -> MongoAGet(frame[t].key)
  <2>1. found \in Values \cup {None}
    BY <1>2 DEF TypeIInv, ServerOK, RedisAGet, MongoAGet, Stored
  <2>2. /\ frame' = [frame EXCEPT ![t].pc = "answered", ![t].got = found]
        /\ frame[t].pc = "sent" /\ frame[t].op = "get" /\ UNCHANGED running
    BY <1>4 DEF ServerGets
  <2> HIDE DEF found
  <2> QED BY <1>1, <2>1, <2>2
<1>5. CASE Serve(t) /\ ~MongoFindsNone(t) /\ ~ServerGets(t)
  <2>1. Goto(t, "answered") /\ frame[t].pc \in {"sent", "inserting"} /\ UNCHANGED running
    BY <1>5 DEF Serve, RedisSets, MongoUpdates, MongoUpserts, MongoInserts, ServerEvicts,
         ServerClears, Executed
  <2>2. frame[t].op \in {"set", "evict", "clear"}
    BY <1>1, <1>5 DEF Serve, RedisSets, MongoUpdates, MongoUpserts, MongoInserts, ServerEvicts,
         ServerClears
  <2> QED BY <1>1, <2>1, <2>2 DEF Goto
<1> QED BY <1>3, <1>4, <1>5

LEMMA ResumeTaskOK ==
  ASSUME TypeIInv, NEW t \in Threads, Resume(t)
  PROVE  /\ TaskOK(frame'[t]) /\ ~Busy(frame[t]) /\ running = None
         /\ running' = IF Busy(frame'[t]) THEN t ELSE None
<1>1. DOMAIN frame = Threads /\ TaskOK(frame[t])
  BY DEF TypeIInv, TasksOK
<1>2. ASSUME NEW f, Resumed(t, f)
      PROVE  /\ frame'[t] = f /\ frame[t].pc = "answered" /\ running = None
             /\ running' = IF f = Idle THEN None ELSE t
  BY <1>1, <1>2 DEF Resumed, At
<1>3. CASE SetAnswered(t)
  BY <1>2, <1>3, IdleTaskOK DEF SetAnswered, Busy, Awaiting
<1> USE DEF Awaiting, Labels, SetLabels, GetLabels, TaskOK, TaskFrame, CallOK, AwaitOK,
            HookOK, Busy
<1>4. CASE GetAnswered(t)
  <2>1. CASE frame[t].got = None
    BY <1>2, <1>4, <2>1, IdleTaskOK DEF GetAnswered
  <2>2. CASE frame[t].got # None
    <3>1. frame'[t] = [frame[t] EXCEPT !.pc = "on_get"] /\ frame[t].pc = "answered"
          /\ frame[t].op = "get"
      BY <1>2, <1>4, <2>2 DEF GetAnswered
    <3>2. frame'[t].pc = "on_get" /\ frame'[t] # Idle
      BY <1>1, <3>1, IdleRegisters
    <3> QED BY <1>1, <1>2, <1>4, <2>2, <3>1, <3>2 DEF GetAnswered
  <2> QED BY <2>1, <2>2
<1>5. CASE EvictAnswered(t)
  <2>1. frame'[t] = [frame[t] EXCEPT !.pc = "on_evict"] /\ frame[t].pc = "answered"
        /\ frame[t].op = "evict"
    BY <1>2, <1>5 DEF EvictAnswered
  <2>2. frame'[t].pc = "on_evict" /\ frame'[t] # Idle
    BY <1>1, <2>1, IdleRegisters
  <2> QED BY <1>1, <1>2, <1>5, <2>1, <2>2 DEF EvictAnswered
<1>6. CASE ClearAnswered(t)
  <2>1. frame'[t] = [frame[t] EXCEPT !.pc = "on_clear"] /\ frame[t].pc = "answered"
        /\ frame[t].op = "clear"
    BY <1>2, <1>6 DEF ClearAnswered
  <2>2. frame'[t].pc = "on_clear" /\ frame'[t] # Idle
    BY <1>1, <2>1, IdleRegisters
  <2> QED BY <1>1, <1>2, <1>6, <2>1, <2>2 DEF ClearAnswered
<1> HIDE DEF TaskOK, Busy
<1> QED BY <1>3, <1>4, <1>5, <1>6 DEF Resume

(* A call that ends, or fails, leaves no task running that ran it. *)
LEMMA EndTaskOK ==
  ASSUME TypeIInv, NEW t \in Threads, Finish(t) \/ Fail(t)
  PROVE  /\ frame'[t] = Idle /\ TaskOK(frame'[t]) /\ running' = None
         /\ running \in {None, t}
<1>1. DOMAIN frame = Threads
  BY DEF TypeIInv, TasksOK
<1> QED BY <1>1, IdleTaskOK DEF Finish, GetReturn, EvictReturn, ClearReturn, Return,
            Fail, SetRaises, EvictInEffectRaises, CallRaises, Raise

(* The loop runs one task, and the others stay as they are. *)
LEMMA TasksStep ==
  ASSUME TypeIInv, NEW t \in Threads, TaskStep(t)
  PROVE  TasksOK'
<1>1. /\ frame \in [Threads -> TaskFrame] /\ TasksOK
      /\ \A u \in Threads : TaskOK(frame[u]) /\ (running = u <=> Busy(frame[u]))
  BY DEF TypeIInv, TasksOK
<1>2. /\ frame' = [frame EXCEPT ![t] = frame'[t]] /\ rules' = rules
      /\ UNCHANGED indexed
  BY <1>1, TaskLocal, IndexStays
<1>3. TaskOK(frame'[t]) /\ (running' = t <=> Busy(frame'[t]))
      /\ (running' = running \/ {running, running'} \subseteq {None, t})
  <2>1. CASE PCall(t)
    <3> DEFINE Done == /\ running = None /\ running' \in {None, t}
                       /\ running' = t <=> frame'[t].pc \notin Awaiting \cup {"idle"}
    <3>2. ASSUME NEW k \in Keys, NEW v \in Values, NEW ttl \in TTLs, ASet(t, k, v, ttl) PROVE Done
      BY <1>1, <3>2 DEF ASet, Set, Calling, Awaiting
    <3>3. ASSUME NEW f, f.pc = "sent", Request(t, f) PROVE Done
      BY <1>1, <3>3, TasksAssumption DEF Request, Calling, Awaiting
    <3>4. \A k \in Keys : AGet(t, k) \/ AEvict(t, k) => Done
      BY <3>3 DEF AGet, AEvict, Idle
    <3>5. AClear(t) => Done
      BY <3>3 DEF AClear, Idle
    <3> HIDE DEF Done
    <3>1. Done
      BY <2>1, <3>2, <3>4, <3>5 DEF PCall
    <3> USE DEF Done
    <3> QED BY <2>1, <3>1, CallTaskOK DEF Busy
  <2>2. CASE Hooks(t)
    BY <2>2, SetHookTaskOK, OtherHookTaskOK DEF Hooks
  <2>3. CASE SendSet(t)
    <3>1. ~Busy(frame'[t]) /\ running = t /\ running' = None
      BY <1>1, <2>3 DEF SendSet, Busy, Awaiting
    <3> QED BY <2>3, <3>1, SetSentTaskOK, TasksAssumption
  <2>4. CASE EvictInEffect(t)
    BY <1>1, <2>4, EffectTaskOK DEF EvictInEffect
  <2>5. CASE Serve(t)
    BY <1>1, <2>5, ServeTaskOK
  <2>6. CASE Resume(t)
    BY <1>1, <2>6, ResumeTaskOK, TasksAssumption
  <2>7. CASE Finish(t) \/ Fail(t)
    BY <1>1, <2>7, EndTaskOK, IdleTaskOK, TasksAssumption
  <2> QED BY <2>1, <2>2, <2>3, <2>4, <2>5, <2>6, <2>7 DEF TaskStep, Run
<1>4. \A u \in Threads \ {t} : frame'[u] = frame[u] /\ (running' = u <=> running = u)
  BY <1>1, <1>2, <1>3, TasksAssumption
<1>5. \A u \in Threads : TaskOK(frame'[u]) /\ (running' = u <=> Busy(frame'[u]))
  BY <1>1, <1>3, <1>4
<1>6. \A f : TaskOK(f)' <=> TaskOK(f)
  BY <1>2 DEF TaskOK, AwaitOK, HookOK, TaskFrame, CallOK, Labels, SetLabels, GetLabels, Awaiting
<1>7. frame' \in [Threads -> TaskFrame]
  BY <1>1, <1>2, <1>3 DEF TaskOK
<1>8. running' \in Threads \cup {None}
  BY <1>1, <1>3 DEF TasksOK
<1> QED BY <1>2, <1>5, <1>7, <1>8 DEF TasksOK, TaskOK, AwaitOK, HookOK

(* What the operations of the providers do to the documents. *)

LEMMA StoreOps ==
  ASSUME DocumentsOK, UNCHANGED clock, NEW k \in Keys, NEW d \in Entry
  PROVE  /\ \/ RedisASet(k, d.value, d.expiry) /\ UNCHANGED spare
            \/ UpdateOne(k, d) /\ Stored(k)
            \/ InsertOne(k, d) /\ ~Stored(k)
            => DocumentsOK' /\ DOMAIN cache' = DOMAIN cache \cup {k} /\ UNCHANGED spare
         /\ InsertOne(k, d) /\ Stored(k) =>
              /\ DocumentsOK' /\ UNCHANGED cache
              /\ \A x \in Keys \ {k} : spare'[x] = spare[x]
<1> USE DEF DocumentsOK, InMemoryTypeOK, Entry, Stored
<1>1. ASSUME NEW e \in Entry, cache' = [x \in DOMAIN cache \cup {k} |-> IF x = k THEN e ELSE cache[x]],
             UNCHANGED spare
      PROVE  DocumentsOK' /\ DOMAIN cache' = DOMAIN cache \cup {k}
  <2>1. \A x \in DOMAIN cache : cache[x] \in Entry
    OBVIOUS
  <2>2. DOMAIN cache' = DOMAIN cache \cup {k} /\ cache' \in [DOMAIN cache' -> Entry]
    BY <1>1, <2>1
  <2> QED BY <1>1, <2>2
<1>2. RedisASet(k, d.value, d.expiry) /\ UNCHANGED spare =>
        DocumentsOK' /\ DOMAIN cache' = DOMAIN cache \cup {k}
  <2>1. [value |-> d.value, expiry |-> d.expiry] \in Entry
    OBVIOUS
  <2> QED BY <1>1, <2>1 DEF RedisASet
<1>3. ASSUME UpdateOne(k, d), k \in DOMAIN cache
      PROVE  DocumentsOK' /\ DOMAIN cache' = DOMAIN cache \cup {k}
  <2>1. cache' \in [DOMAIN cache -> Entry] /\ DOMAIN cache' = DOMAIN cache /\ UNCHANGED spare
    BY <1>3 DEF UpdateOne
  <2> QED BY <1>3, <2>1
<1>4. InsertOne(k, d) /\ ~Stored(k) => DocumentsOK' /\ DOMAIN cache' = DOMAIN cache \cup {k}
  BY <1>1 DEF InsertOne
<1>5. ASSUME InsertOne(k, d), k \in DOMAIN cache
      PROVE  /\ DocumentsOK' /\ UNCHANGED cache
             /\ \A x \in Keys \ {k} : spare'[x] = spare[x]
  <2> HIDE DEF Entry
  <2>1. spare' = [spare EXCEPT ![k] = Append(spare[k], d)] /\ UNCHANGED cache
    BY <1>5 DEF InsertOne
  <2>2. Append(spare[k], d) \in Seq(Entry) /\ spare \in [Keys -> Seq(Entry)]
    <3>1. spare[k] \in Seq(Entry)
      BY DEF Spares
    <3> QED BY <3>1 DEF Spares
  <2>3. /\ spare' \in [Keys -> Seq(Entry)]
        /\ \A x \in Keys \ {k} : spare'[x] = spare[x]
    BY <2>1, <2>2
  <2> QED BY <1>5, <2>1, <2>3 DEF Spares
<1> QED BY <1>2, <1>3, <1>4, <1>5 DEF UpdateOne, InsertOne

LEMMA RemoveOps ==
  ASSUME DocumentsOK, UNCHANGED clock, NEW k \in Keys
  PROVE  /\ \/ RedisAEvict(k) /\ UNCHANGED spare /\ spare[k] = <<>>
            \/ MongoAEvict(k) /\ spare[k] = <<>>
            => DocumentsOK' /\ DOMAIN cache' = DOMAIN cache \ {k} /\ UNCHANGED spare
         /\ MongoAEvict(k) /\ spare[k] # <<>> =>
              /\ DocumentsOK' /\ DOMAIN cache' = DOMAIN cache
              /\ \A x \in Keys \ {k} : spare'[x] = spare[x]
         /\ \/ RedisAClear /\ UNCHANGED spare /\ spare = NoSpare
            \/ MongoAClear
            => DocumentsOK' /\ DOMAIN cache' = {} /\ spare' = NoSpare
<1> USE DEF DocumentsOK, InMemoryTypeOK, Stored
<1>1. ASSUME NEW S \in SUBSET DOMAIN cache, cache' = Restrict(cache, S),
             spare' \in Spares, \A x \in Keys : spare'[x] # <<>> => x \in S
      PROVE  DocumentsOK' /\ DOMAIN cache' = S
  <2>1. DOMAIN cache' = S /\ cache' \in [DOMAIN cache' -> Entry]
    BY <1>1 DEF Restrict
  <2> QED BY <1>1, <2>1
<1>2. \/ RedisAEvict(k) /\ UNCHANGED spare /\ spare[k] = <<>>
      \/ MongoAEvict(k) /\ spare[k] = <<>>
      => DocumentsOK' /\ DOMAIN cache' = DOMAIN cache \ {k} /\ UNCHANGED spare
  BY <1>1 DEF RedisAEvict, MongoAEvict
<1>3. ASSUME MongoAEvict(k), spare[k] # <<>>
      PROVE  /\ DocumentsOK' /\ DOMAIN cache' = DOMAIN cache
             /\ \A x \in Keys \ {k} : spare'[x] = spare[x]
  <2>1. /\ cache' = [cache EXCEPT ![k] = Head(spare[k])]
        /\ spare' = [spare EXCEPT ![k] = Tail(spare[k])]
        /\ k \in DOMAIN cache
    BY <1>3 DEF MongoAEvict
  <2>2. Head(spare[k]) \in Entry /\ Tail(spare[k]) \in Seq(Entry) /\ spare \in [Keys -> Seq(Entry)]
    <3>1. spare[k] \in Seq(Entry)
      BY DEF Spares
    <3> QED BY <1>3, <3>1, HeadTailProperties DEF Spares
  <2>3. /\ spare' \in [Keys -> Seq(Entry)] /\ \A x \in Keys \ {k} : spare'[x] = spare[x]
        /\ DOMAIN cache' = DOMAIN cache /\ cache' \in [DOMAIN cache' -> Entry]
    BY <2>1, <2>2
  <2> QED BY <2>1, <2>3 DEF Spares
<1>4. NoSpare \in Spares /\ \A x \in Keys : NoSpare[x] = <<>>
  BY DEF NoSpare, Spares
<1>5. \/ RedisAClear /\ UNCHANGED spare /\ spare = NoSpare
      \/ MongoAClear
      => DocumentsOK' /\ DOMAIN cache' = {} /\ spare' = NoSpare
  BY <1>1, <1>4 DEF RedisAClear, MongoAClear
<1> QED BY <1>2, <1>3, <1>5

(* A step of a task leaves the documents as they should be. *)
LEMMA ServerStep ==
  ASSUME TypeIInv, NEW t \in Threads, TaskStep(t)
  PROVE  ServerOK'
<1>1. ServerOK /\ DocumentsOK /\ UNCHANGED <<backend, indexed>> /\ TaskOK(frame[t])
      /\ backend \in {"redis", "mongodb"} /\ (backend = "redis" => indexed)
      /\ (indexed => spare = NoSpare)
  BY IndexStays DEF TypeIInv, ServerOK, TasksOK
<1>2. \A k \in Keys : NoSpare[k] = <<>>
  BY DEF NoSpare
<1>3. SUFFICES DocumentsOK' /\ (indexed => spare' = NoSpare)
  BY <1>1 DEF ServerOK
<1>4. CASE UNCHANGED <<cache, spare, clock>>
  BY <1>1, <1>4 DEF DocumentsOK, InMemoryTypeOK, Stored
<1>5. CASE PCall(t) \/ Resume(t) \/ Fail(t)
  BY <1>4, <1>5 DEF PCall, ASet, AGet, AEvict, AClear, Request, serverState, counts,
       Resume, SetAnswered, GetAnswered, EvictAnswered, ClearAnswered, Resumed,
       Fail, SetRaises, EvictInEffectRaises, CallRaises, Raise
<1>6. CASE Run(t) /\ ~EvictInEffect(t)
  BY <1>4, <1>6 DEF Run, Hooks, SendSet, Finish, serverState, counts
<1>7. CASE MongoFindsNone(t) \/ ServerGets(t)
  BY <1>4, <1>7 DEF MongoFindsNone, ServerGets, serverState, counts
<1>8. CASE RedisSets(t) \/ MongoUpdates(t) \/ MongoUpserts(t) \/ MongoInserts(t)
  <2> DEFINE k == frame[t].key
             d == InFlight(t)
  <2>1. k \in Keys /\ frame[t].value \in Values /\ frame[t].seen \in Nat
    BY <1>1, <1>8 DEF RedisSets, MongoUpdates, MongoUpserts, MongoInserts, Under, At, TaskOK,
       CallOK, AwaitOK, TaskFrame, Awaiting
  <2>2. d \in Entry /\ d.value = frame[t].value /\ d.expiry = frame[t].seen
    BY <2>1 DEF Entry, InFlight, Document
  <2>3. UNCHANGED clock
    BY <1>8 DEF RedisSets, MongoUpdates, MongoUpserts, MongoInserts, Executed, counts
  <2>4. MongoInserts(t) => ~indexed
    BY <1>1 DEF MongoInserts, At, TaskOK, AwaitOK
  <2>5. \/ RedisASet(k, d.value, d.expiry) /\ UNCHANGED spare
        \/ UpdateOne(k, d) /\ Stored(k)
        \/ InsertOne(k, d) /\ (indexed => ~Stored(k))
    BY <1>8, <2>2, <2>4 DEF RedisSets, MongoUpdates, MongoUpserts, MongoInserts
  <2> HIDE DEF k, d
  <2> QED BY <1>1, <2>1, <2>2, <2>3, <2>5, StoreOps
<1>9. CASE EvictInEffect(t) \/ ServerEvicts(t)
  <2>1. frame[t].victim \in Keys
    BY <1>1, <1>9 DEF EvictInEffect, ServerEvicts, Under, At, TaskOK, CallOK
  <2>2. PICK k \in Keys :
          IF backend = "redis" THEN RedisAEvict(k) /\ UNCHANGED spare ELSE MongoAEvict(k)
    BY <1>1, <1>9, <2>1 DEF EvictInEffect, ServerEvicts, Evicted, RedisEvict, MongoEvict
  <2>3. UNCHANGED clock
    BY <1>9 DEF EvictInEffect, ServerEvicts, Executed, counts
  <2> QED BY <1>1, <1>2, <2>2, <2>3, RemoveOps
<1>10. CASE ServerClears(t)
  <2>1. UNCHANGED clock
    BY <1>10 DEF ServerClears, Executed, counts
  <2>2. IF backend = "redis" THEN RedisAClear /\ UNCHANGED spare ELSE MongoAClear
    BY <1>1, <1>10 DEF ServerClears, Cleared
  <2>3. CASE Keys # {}
    BY <1>1, <2>1, <2>2, <2>3, RemoveOps
  <2>4. CASE Keys = {}
    BY <1>1, <2>1, <2>2, <2>4 DEF RedisAClear, MongoAClear, DocumentsOK, InMemoryTypeOK, Stored,
       Restrict, NoSpare, Spares
  <2> QED BY <2>3, <2>4
<1> QED BY <1>5, <1>6, <1>7, <1>8, <1>9, <1>10 DEF TaskStep, Run, Serve

(* Nor does an abandoned request, which has what the server needs. *)
LEMMA LateServerStep ==
  ASSUME TypeIInv, NEW q, LateServe(q)
  PROVE  ServerOK'
<1>1. /\ ServerOK /\ DocumentsOK /\ UNCHANGED <<backend, indexed, clock>>
      /\ backend \in {"redis", "mongodb"} /\ (backend = "redis" => indexed)
      /\ (indexed => spare = NoSpare)
      /\ q \in AbandonedRequest /\ RequestOK(q)
  BY LateMeansStore DEF TypeIInv, ServerOK, AbandonedOK, counts
<1>2. \A k \in Keys : NoSpare[k] = <<>>
  BY DEF NoSpare
<1>3. SUFFICES DocumentsOK' /\ (indexed => spare' = NoSpare)
  BY <1>1 DEF ServerOK
<1>4. CASE LateRedisSet(q) \/ LateUpdate(q) \/ LateInsert(q)
  <2>1. q.key \in Keys /\ q.document \in Entry
    BY <1>1, <1>4 DEF LateRedisSet, LateUpdate, LateInsert, RequestOK
  <2>2. \/ RedisASet(q.key, q.document.value, q.document.expiry) /\ UNCHANGED spare
        \/ UpdateOne(q.key, q.document) /\ Stored(q.key)
        \/ InsertOne(q.key, q.document) /\ (indexed => ~Stored(q.key))
    BY <1>4 DEF LateRedisSet, LateUpdate, LateInsert
  <2> QED BY <1>1, <2>1, <2>2, StoreOps
<1>5. CASE LateFindsNone(q)
  BY <1>1, <1>5 DEF LateFindsNone, DocumentsOK, InMemoryTypeOK, Stored
<1>6. CASE LateEvict(q)
  <2>1. q.key \in Keys
    BY <1>1, <1>6 DEF LateEvict, RequestOK
  <2>2. IF backend = "redis" THEN RedisAEvict(q.key) /\ UNCHANGED spare ELSE MongoAEvict(q.key)
    BY <1>1, <1>6 DEF LateEvict, Evicted, RedisEvict, MongoEvict
  <2> QED BY <1>1, <1>2, <2>1, <2>2, RemoveOps
<1>7. CASE LateClear(q)
  <2>1. IF backend = "redis" THEN RedisAClear /\ UNCHANGED spare ELSE MongoAClear
    BY <1>1, <1>7 DEF LateClear, Cleared
  <2>2. CASE Keys # {}
    BY <1>1, <2>1, <2>2, RemoveOps
  <2>3. CASE Keys = {}
    BY <1>1, <2>1, <2>3 DEF RedisAClear, MongoAClear, DocumentsOK, InMemoryTypeOK, Stored,
       Restrict, NoSpare, Spares
  <2> QED BY <2>2, <2>3
<1> QED BY <1>4, <1>5, <1>6, <1>7 DEF LateServe

(* A task abandons a request with what the server needs. *)
LEMMA LeftOK ==
  ASSUME TypeIInv, NEW t \in Threads, UnderWay(t)
  PROVE  Left(t) \in AbandonedRequest /\ RequestOK(Left(t))
<1>1. TaskOK(frame[t])
  BY DEF TypeIInv, TasksOK
<1>2. failures \in Nat /\ restarts \in Nat
  BY BoundsAssumption DEF TypeIInv, CountsOK
<1> QED BY <1>1, <1>2 DEF TaskOK, TaskFrame, CallOK, AwaitOK, UnderWay, Left, InFlight, Document, At, Entry,
            AbandonedRequest, RequestOK, Awaiting, SetLabels, GetLabels

LEMMA AbandonedTaskStep ==
  ASSUME TypeIInv, NEW t \in Threads, TaskStep(t)
  PROVE  AbandonedOK' /\ CountsOK'
<1>1. abandoned' = abandoned \/ (UnderWay(t) /\ abandoned' = abandoned \cup {Left(t)})
  BY Abandoning
<1>2. \A q \in abandoned' : q \in AbandonedRequest /\ RequestOK(q)
  BY <1>1, LeftOK DEF TypeIInv, AbandonedOK
<1>3. CountsOK'
  BY Abandoning, BoundsAssumption DEF TypeIInv, CountsOK
<1> QED BY <1>2, <1>3 DEF AbandonedOK, AbandonedRequest, RequestOK

LEMMA AbandonedLateStep ==
  ASSUME TypeIInv, NEW q, LateServe(q)
  PROVE  AbandonedOK' /\ CountsOK'
<1>1. q \in AbandonedRequest /\ RequestOK(q)
  BY LateMeansStore DEF TypeIInv, AbandonedOK
<1>2. CountsOK'
  BY LateMeansStore DEF TypeIInv, CountsOK, counts
<1>3. CASE LateFindsNone(q)
  <2> DEFINE w == [q EXCEPT !.stage = "inserting"]
  <2>1. abandoned' = (abandoned \ {q}) \cup {w} /\ q.op = "set"
    BY <1>3 DEF LateFindsNone
  <2>2. w \in AbandonedRequest /\ w.op = "set" /\ w.key = q.key /\ w.document = q.document
    BY <1>1, <2>1 DEF AbandonedRequest
  <2>3. RequestOK(w)
    BY <1>1, <2>1, <2>2 DEF RequestOK
  <2> HIDE DEF w
  <2> QED BY <1>2, <2>1, <2>2, <2>3 DEF TypeIInv, AbandonedOK
<1>4. CASE ~LateFindsNone(q)
  <2>1. abandoned' = abandoned \ {q}
    BY <1>4 DEF LateServe, LateRedisSet, LateUpdate, LateInsert, LateEvict, LateClear, Ended
  <2> QED BY <1>2, <2>1 DEF TypeIInv, AbandonedOK
<1> QED BY <1>3, <1>4

(* And the dictionaries of the rules. *)
LEMMA RulesStep ==
  ASSUME TypeIInv, NEW t \in Threads, TaskStep(t)
  PROVE  RuleStateOK'
<1>1. /\ RuleStateOK /\ LruOK /\ HardOK /\ LifeOK /\ TaskOK(frame[t])
  BY DEF TypeIInv, RuleStateOK, TasksOK
<1>2. CASE UNCHANGED ruleState
  BY <1>1, <1>2 DEF RuleStateOK, LruOK, HardOK, LifeOK, ruleState
<1>3. CASE UNCHANGED <<admitted, expiryTimes>> /\ LruOK'
  BY <1>1, <1>3 DEF RuleStateOK, HardOK, LifeOK
<1>4. CASE UNCHANGED <<accessOrder, expiryTimes>> /\ HardOK'
  BY <1>1, <1>4 DEF RuleStateOK, LruOK, LifeOK
<1>5. CASE UNCHANGED <<accessOrder, admitted>> /\ LifeOK'
  BY <1>1, <1>5 DEF RuleStateOK, LruOK, HardOK
<1>6. CASE Hooks(t)
  <2>1. frame[t].op \in {"set", "get"} => frame[t].key \in Keys
    BY <1>1 DEF TaskOK, CallOK
  <2>2. frame[t].pc = "on_evict" => frame[t].victim \in Keys
    BY <1>1 DEF TaskOK, CallOK
  <2>3. frame[t].pc \in SetLabels \cup GetLabels => frame[t].op \in {"set", "get"}
    BY <1>1 DEF TaskOK, CallOK, TaskFrame, SetLabels, GetLabels
  <2> USE DEF At, Outer, Inner, SetLabels, GetLabels
  <2>4. CASE LruOnSetInsert(t)
    BY <1>1, <1>3, <2>1, <2>3, <2>4, LruOps DEF LruOnSetInsert
  <2>5. CASE LruOnSetMove(t)
    BY <1>1, <1>3, <2>1, <2>3, <2>5, LruOps DEF LruOnSetMove
  <2>6. CASE LruOnSetPop(t)
    BY <1>1, <1>3, <2>1, <2>3, <2>6, LruOps DEF LruOnSetPop
  <2>7. CASE LruOnGetMove(t)
    BY <1>1, <1>3, <2>1, <2>3, <2>7, LruOps DEF LruOnGetMove
  <2>8. CASE LruOnEvict(t)
    BY <1>1, <1>3, <2>2, <2>8, LruOps DEF LruOnEvict
  <2>9. CASE LruOnClear(t)
    BY <1>3, <2>9 DEF LruOnClear, LruForgetAll, LruOK, IsInjective
  <2>10. CASE MaxOnSetAdd(t)
    BY <1>1, <1>4, <2>1, <2>3, <2>10, FS_AddElement DEF MaxOnSetAdd, HardAdmit, HardOK
  <2>11. CASE MaxOnEvict(t)
    BY <1>1, <1>4, <2>11, FS_RemoveElement DEF MaxOnEvict, HardForget, HardOK
  <2>12. CASE MaxOnClear(t)
    BY <1>4, <2>12, FS_EmptySet DEF MaxOnClear, HardForgetAll, HardOK
  <2>13. CASE LifeOnSet(t)
    <3>1. clock + frame[t].ttl \in Nat
      BY <1>1 DEF TypeIInv, ServerOK, DocumentsOK, InMemoryTypeOK, TaskOK, TaskFrame
    <3> QED BY <1>1, <1>5, <2>1, <2>3, <2>13, <3>1, LifeOps DEF LifeOnSet
  <2>14. CASE LifeOnGetCheck(t)
    <3>1. CASE LifeForget(frame[t].key)
      BY <1>1, <1>5, <2>1, <2>3, <2>14, <3>1, LifeOps DEF LifeOnGetCheck
    <3>2. CASE UNCHANGED expiryTimes
      BY <1>2, <2>14, <3>2 DEF LifeOnGetCheck, ruleState
    <3> QED BY <2>14, <3>1, <3>2 DEF LifeOnGetCheck
  <2>15. CASE LifeOnEvict(t)
    BY <1>1, <1>5, <2>2, <2>15, LifeOps DEF LifeOnEvict
  <2>16. CASE LifeOnClear(t)
    BY <1>5, <2>16 DEF LifeOnClear, LifeForgetAll, LifeOK, Restrict
  <2>17. CASE \/ LruOnSetLen(t) \/ MaxOnSetIn(t) \/ MaxOnSetLen(t) \/ LruOnGetIn(t)
              \/ MaxOnGet(t) \/ LifeOnGetRead(t) \/ EffectDone(t)
    BY <1>2, <2>17 DEF LruOnSetLen, MaxOnSetIn, MaxOnSetLen, LruOnGetIn, MaxOnGet, LifeOnGetRead,
       EffectDone
  <2> QED BY <1>6, <2>4, <2>5, <2>6, <2>7, <2>8, <2>9, <2>10, <2>11, <2>12, <2>13, <2>14, <2>15,
             <2>16, <2>17 DEF Hooks
<1>7. CASE PCall(t)
  BY <1>2, <1>7 DEF PCall, ASet, Set, AGet, AEvict, AClear, Request
<1>8. CASE Serve(t)
  BY <1>2, <1>8 DEF Serve, RedisSets, MongoUpdates, MongoUpserts, MongoFindsNone, MongoInserts,
       ServerGets, ServerEvicts, ServerClears, Executed
<1>9. CASE SendSet(t) \/ Finish(t) \/ EvictInEffect(t)
  BY <1>2, <1>9 DEF SendSet, Finish, GetReturn, EvictReturn, ClearReturn, EvictInEffect
<1>10. CASE Resume(t)
  BY <1>2, <1>10 DEF Resume, SetAnswered, GetAnswered, EvictAnswered, ClearAnswered, Resumed
<1>11. CASE Fail(t)
  BY <1>2, <1>11 DEF Fail, SetRaises, EvictInEffectRaises, CallRaises, Raise
<1> QED BY <1>6, <1>7, <1>8, <1>9, <1>10, <1>11 DEF TaskStep, Run

LEMMA TypeIInvInit == HInit => TypeIInv /\ disturbed = {}
<1> SUFFICES ASSUME HInit PROVE TypeIInv /\ disturbed = {}
  OBVIOUS
<1>1. /\ Init /\ backend \in Backends /\ spare = NoSpare /\ indexed \in {TRUE, backend = "redis"}
      /\ running = None /\ disturbed = {}
  BY DEF HInit, PInit
<1>2. ServerOK
  <2>1. InMemoryTypeOK
    BY <1>1 DEF Init, InMemoryInit, InMemoryTypeOK
  <2>2. NoSpare \in Spares /\ \A k \in Keys : NoSpare[k] = <<>>
    BY DEF NoSpare, Spares
  <2>3. backend \in {"redis", "mongodb"}
    BY <1>1, BackendsAssumption
  <2> QED BY <1>1, <2>1, <2>2, <2>3 DEF ServerOK, DocumentsOK
<1>3. RuleStateOK /\ rules \in RuleLists
  BY <1>1, TypeInit, TypeParts
<1>4. TasksOK
  <2>1. frame = [t \in Threads |-> Idle] /\ None \notin Threads
    BY <1>1, TasksAssumption DEF Init
  <2> QED BY <1>1, <2>1, IdleTaskOK DEF TasksOK, TaskOK
<1>5. AbandonedOK /\ CountsOK
  BY BoundsAssumption DEF HInit, PInit, AbandonedOK, CountsOK
<1> QED BY <1>1, <1>2, <1>3, <1>4, <1>5 DEF TypeIInv

LEMMA TypeIInvRestart == TypeIInv /\ Restart => TypeIInv'
<1> SUFFICES ASSUME TypeIInv, Restart PROVE TypeIInv'
  OBVIOUS
<1>1. /\ frame' = [t \in Threads |-> Idle] /\ running' = None /\ rules' = rules
      /\ accessOrder' = <<>> /\ admitted' = {} /\ LifeForgetAll
      /\ UNCHANGED <<clock, cache, spare, backend>>
  BY DEF Restart, CheckCollection
<1>2. ServerOK'
  <2>1. DocumentsOK'
    BY <1>1 DEF TypeIInv, ServerOK, DocumentsOK, InMemoryTypeOK, Stored
  <2>2. indexed' = indexed \/ indexed' = (indexed \/ spare = NoSpare)
    <3>1. CASE backend = "mongodb"
      BY <3>1 DEF Restart, CheckCollection
    <3>2. CASE backend # "mongodb"
      BY <3>2 DEF Restart
    <3> QED BY <3>1, <3>2
  <2>3. indexed' \in BOOLEAN /\ (indexed => indexed') /\ (indexed' => spare = NoSpare)
    <3>1. indexed \in {TRUE, FALSE} /\ (indexed = TRUE => spare = NoSpare)
      BY DEF TypeIInv, ServerOK
    <3>2. indexed' \in {TRUE, FALSE} /\ (indexed = TRUE => indexed' = TRUE)
          /\ (indexed' = TRUE => spare = NoSpare)
      BY <2>2, <3>1
    <3> QED BY <3>1, <3>2
  <2> QED BY <1>1, <2>1, <2>3 DEF TypeIInv, ServerOK
<1>3. RuleStateOK'
  BY <1>1, FS_EmptySet DEF RuleStateOK, LruOK, HardOK, LifeOK, LifeForgetAll, Restrict, IsInjective
<1>4. TasksOK'
  <2>1. (TaskOK(Idle) /\ ~Busy(Idle))'
    BY DEF TaskOK, TaskFrame, CallOK, AwaitOK, HookOK, Idle, Labels, SetLabels, GetLabels, Awaiting, Busy
  <2> QED BY <1>1, <2>1, TasksAssumption DEF TasksOK, TaskOK, AwaitOK, HookOK, TaskFrame, CallOK,
          Idle, Busy, Awaiting
<1>5. AbandonedOK'
  <2>1. \A q \in abandoned' : q \in abandoned \/ \E t \in Threads : UnderWay(t) /\ q = Left(t)
    BY DEF Restart
  <2>2. \A q \in abandoned' : q \in AbandonedRequest /\ RequestOK(q)
    BY <2>1, LeftOK DEF TypeIInv, AbandonedOK
  <2> QED BY <2>2 DEF AbandonedOK, AbandonedRequest, RequestOK
<1>6. CountsOK'
  BY BoundsAssumption DEF TypeIInv, CountsOK, Restart
<1> QED BY <1>1, <1>2, <1>3, <1>4, <1>5, <1>6 DEF TypeIInv

LEMMA TypeIInvStep == TypeIInv /\ [HNext]_hvars => TypeIInv'
<1> SUFFICES ASSUME TypeIInv, [HNext]_hvars PROVE TypeIInv'
  OBVIOUS
<1>1. ASSUME NEW t \in Threads, TaskStep(t) PROVE TypeIInv'
  <2>1. rules' = rules
    BY <1>1, TaskLocal DEF TypeIInv
  <2> QED BY <1>1, <2>1, TasksStep, ServerStep, RulesStep, AbandonedTaskStep DEF TypeIInv
<1>2. CASE PTick \/ UNCHANGED hvars
  <2>1. /\ UNCHANGED <<cache, ruleState, rules, frame, backend, spare, indexed, running>>
        /\ UNCHANGED <<abandoned, failures, restarts>> /\ clock' \in Nat
    BY <1>2 DEF PTick, Tick, hvars, pvars, vars, ruleState, TypeIInv, ServerOK, DocumentsOK, InMemoryTypeOK
  <2>2. ServerOK'
    BY <2>1 DEF TypeIInv, ServerOK, DocumentsOK, InMemoryTypeOK, Stored
  <2>3. RuleStateOK' /\ rules' \in RuleLists
    BY <2>1 DEF TypeIInv, RuleStateOK, LruOK, HardOK, LifeOK, ruleState
  <2>4. TasksOK'
    BY <2>1 DEF TypeIInv, TasksOK, TaskOK, AwaitOK, HookOK, TaskFrame, CallOK
  <2>5. AbandonedOK' /\ CountsOK'
    BY <2>1 DEF TypeIInv, AbandonedOK, CountsOK
  <2> QED BY <2>2, <2>3, <2>4, <2>5 DEF TypeIInv
<1>3. CASE Restart
  BY <1>3, TypeIInvRestart
<1>4. ASSUME NEW q, LateServe(q) PROVE TypeIInv'
  <2>1. UNCHANGED <<frame, ruleState, rules, indexed, running>>
    BY <1>4, LateMeansStore
  <2>2. RuleStateOK' /\ rules' \in RuleLists
    BY <2>1 DEF TypeIInv, RuleStateOK, LruOK, HardOK, LifeOK, ruleState
  <2>3. TasksOK'
    BY <2>1 DEF TypeIInv, TasksOK, TaskOK, AwaitOK, HookOK, TaskFrame, CallOK
  <2> QED BY <1>4, <2>2, <2>3, LateServerStep, AbandonedLateStep DEF TypeIInv
<1> QED BY <1>1, <1>2, <1>3, <1>4 DEF HNext, PNext, TaskStep

LEMMA BackendStays == [HNext]_hvars => backend' = backend
<1>1. \A t \in Threads : TaskStep(t) => backend' = backend
  BY IndexStays
<1>2. \A q : LateServe(q) => backend' = backend
  BY LateMeansStore
<1>3. Restart \/ PTick \/ UNCHANGED hvars => backend' = backend
  BY DEF Restart, PTick, hvars, pvars
<1> QED BY <1>1, <1>2, <1>3 DEF HNext, PNext, TaskStep

(* Whatever fails and whenever the process restarts, every variable has its *)
(* type: the rules, the documents, the calls with the registers their label *)
(* reads, the requests that were abandoned, the provider and the counts;    *)
(* one task at most runs between two awaits; and a key the server has no    *)
(* first document of has no other.                                          *)
THEOREM TasksAreTyped == HSpec => []PTypeOK
<1> DEFINE TInv == TypeIInv /\ disturbed \subseteq Keys /\ backend \in Backends
<1>1. HInit => TInv
  BY TypeIInvInit DEF HInit, PInit
<1>2. TInv /\ [HNext]_hvars => TInv'
  <2> SUFFICES ASSUME TInv, [HNext]_hvars PROVE disturbed' \subseteq Keys
    BY TypeIInvStep, BackendStays
  <2>1. CASE UNCHANGED hvars
    BY <2>1 DEF hvars
  <2>2. CASE HNext
    <3>1. DOMAIN cache \subseteq Keys /\ \A t : KeysOf(t) \subseteq Keys
      BY DEF TypeIInv, ServerOK, DocumentsOK, InMemoryTypeOK, KeysOf
    <3>2. \A q \in abandoned' : Concerns(q) \subseteq Keys
      BY TypeIInvStep DEF TypeIInv, AbandonedOK, RequestOK, Concerns
    <3> QED BY <2>2, <3>1, <3>2 DEF HNext
  <2> QED BY <2>1, <2>2
<1>3. TInv => PTypeOK
  <2> SUFFICES ASSUME TInv PROVE PTypeOK
    OBVIOUS
  <2>1. \A t \in Threads : CallOK(frame[t]) /\ (running = t <=> ~(frame[t].pc \in Awaiting \cup {"idle"}))
    BY DEF TypeIInv, TasksOK, TaskOK, Busy
  <2>2. running \in Threads \cup {None}
    BY DEF TypeIInv, TasksOK
  <2> QED BY <2>1, <2>2 DEF PTypeOK, TypeIInv, ServerOK, DocumentsOK, AbandonedOK, CountsOK,
          RuleStateOK, LruOK, HardOK, LifeOK, TasksOK
<1> QED BY <1>1, <1>2, <1>3, PTL DEF HSpec

-----------------------------------------------------------------------------
(* What nothing disturbed agrees. *)

(* A rule no hard limit comes after: what it records is stored. *)
Eligible(r) == r \in Active \ {"max"} /\ ~Precedes(r, "max")

(* A call of t is to store k, which rule r may have recorded. *)
Coming(t, k, r) == Storing(t, k, r) /\ ~At(t, "answered")

(* A call of t has removed k, and is to tell rule r. *)
Untold(t, k, r) ==
  /\ RemovalUnderWay(t, k)
  /\ \/ At(t, "answered")
     \/ frame[t].pc \in {"on_evict", "on_clear"} /\ frame[t].j <= Position(r)

(* The removal of k that t is in has reached the server. *)
RemovalMade(t, k) == RemovalUnderWay(t, k) /\ frame[t].pc \in {"answered", "on_evict", "on_clear"}

(* The server's side of a key that nothing disturbed: a removal that was    *)
(* made stands, and the second half of an upsert adds the only document.    *)
ServerOf(k) ==
  /\ ~Clash(k)
  /\ spare[k] = <<>>
  /\ \A t \in Threads :
       /\ RemovalMade(t, k) => ~Stored(k)
       /\ At(t, "inserting") /\ frame[t].key = k => ~Stored(k)

(* What a rule remembers of it is stored, or a call will put that right. *)
NoPhantom(k) ==
  \A r \in Active :
    k \in Tracks(r) /\ ~Stored(k) => \E t \in Threads : Coming(t, k, r) \/ Untold(t, k, r)

(* And what is stored is remembered, or is being evicted. *)
NoOrphan(k) ==
  \A r \in Active : Eligible(r) =>
    /\ \A t \in Threads : Storing(t, k, r) => k \in Tracks(r)
    /\ Stored(k) => k \in Tracks(r) \/ \E t \in Threads : At(t, "delete") /\ frame[t].victim = k

KeyInv(k) == ServerOf(k) /\ NoPhantom(k) /\ NoOrphan(k)

(* The LRU rule evicts for a set another key than its own. *)
OtherVictim(t) ==
  /\ At(t, "lru_move") => frame[t].key \in LruTracked
  /\ frame[t].pc \in {"lru_len", "lru_pop"} =>
       accessOrder # <<>> /\ accessOrder[Len(accessOrder)] = frame[t].key
  /\ At(t, "lru_pop") => LruOverfull
  /\ frame[t].op = "set" /\ frame[t].pc \in {"delete", "on_evict"} =>
       InRule(t, "max") \/ (InRule(t, "lru") /\ frame[t].victim # frame[t].key)

UndisturbedIInv ==
  /\ TypeIInv
  /\ \A t \in Threads : OtherVictim(t)
  /\ disturbed \subseteq Keys
  /\ \A q \in abandoned : Concerns(q) \subseteq disturbed
  /\ \A k \in Keys \ disturbed : KeyInv(k)

(* A step of t, seen from a key k: what the server has afterwards, *)
ServerFacts(t, k) ==
  /\ Stored(k)' /\ ~Stored(k) => SetUnderWay(t, k)
  /\ Stored(k) /\ ~Stored(k)' => \A r \in Active : Untold(t, k, r)'
  /\ spare'[k] # spare[k] => At(t, "inserting") /\ frame[t].key = k /\ Stored(k)
  /\ RemovalMade(t, k)' => ~Stored(k)' \/ RemovalMade(t, k)
  /\ At(t, "inserting")' /\ frame'[t].key = k => ~Stored(k)'
  /\ At(t, "delete") /\ frame[t].victim = k /\ Stored(k)' =>
       At(t, "delete")' /\ frame'[t].victim = k

(* and what rule r remembers.                                               *)
RuleFacts(t, k, r) ==
  /\ k \in Tracks(r)' /\ k \notin Tracks(r) => Coming(t, k, r)'
  /\ k \in Tracks(r) /\ k \notin Tracks(r)' =>
       /\ Busy(frame[t]) /\ RemovalUnderWay(t, k)'
       /\ RemovalMade(t, k) \/ (At(t, "delete")' /\ frame'[t].victim = k)
  /\ Coming(t, k, r) => Coming(t, k, r)' \/ Stored(k)'
  /\ Storing(t, k, r)' /\ Eligible(r) => Storing(t, k, r) \/ k \in Tracks(r)'
  /\ Untold(t, k, r) /\ k \in Tracks(r)' => Untold(t, k, r)'

StepFacts(t, k) == ServerFacts(t, k) /\ \A r \in Active : RuleFacts(t, k, r)

(* The tuple of rules does not change. *)
LEMMA RulesStay ==
  ASSUME TypeIInv, NEW t \in Threads, TaskStep(t)
  PROVE  /\ frame \in [Threads -> TaskFrame] /\ DOMAIN frame = Threads
         /\ TaskOK(frame[t]) /\ TaskOK(frame'[t])
         /\ \A u \in Threads \ {t} : frame'[u] = frame[u]
         /\ rules' = rules /\ Active' = Active
         /\ \A r : Position(r)' = Position(r) /\ Eligible(r)' = Eligible(r)
         /\ \A r \in Active :
              /\ r \in RuleKinds /\ Position(r) \in 1..Len(rules) /\ Len(rules) \in Nat
              /\ rules[Position(r)] = r /\ DOMAIN rules = 1..Len(rules)
              /\ \A n \in DOMAIN rules : rules[n] = r => n = Position(r)
<1>1. /\ frame \in [Threads -> TaskFrame] /\ TaskOK(frame[t]) /\ TasksOK /\ rules \in RuleLists
      /\ frame' = [frame EXCEPT ![t] = frame'[t]] /\ rules' = rules /\ UNCHANGED indexed
  BY TaskLocal, IndexStays DEF TypeIInv, TasksOK
<1>2. TaskOK(frame'[t])
  BY <1>1, TasksStep DEF TasksOK, TaskOK, AwaitOK, HookOK
<1>3. Active' = Active /\ \A r : Position(r)' = Position(r)
  BY <1>1 DEF Active, Position
<1>4. \A r : Eligible(r)' = Eligible(r)
  BY <1>3 DEF Eligible, Precedes
<1> QED BY <1>1, <1>2, <1>3, <1>4, OnePosition

(* The invariant of a key outlives a step that has these facts. *)
LEMMA KeyInvStep ==
  ASSUME TypeIInv, NEW t \in Threads, TaskStep(t), OtherVictim(t)',
         NEW k \in Keys, KeyInv(k), ~Clash(k)', StepFacts(t, k)
  PROVE  KeyInv(k)'
<1>1. /\ frame \in [Threads -> TaskFrame] /\ TaskOK(frame[t]) /\ TaskOK(frame'[t])
      /\ \A u \in Threads \ {t} : frame'[u] = frame[u]
      /\ rules' = rules /\ Active' = Active
      /\ \A r : Position(r)' = Position(r) /\ Eligible(r)' = Eligible(r)
      /\ \A r \in Active :
              /\ r \in RuleKinds /\ Position(r) \in 1..Len(rules) /\ Len(rules) \in Nat
              /\ rules[Position(r)] = r /\ DOMAIN rules = 1..Len(rules)
              /\ \A n \in DOMAIN rules : rules[n] = r => n = Position(r)
  BY RulesStay
<1>2. \A u \in Threads : TaskOK(frame[u]) /\ (running = u <=> Busy(frame[u]))
  BY DEF TypeIInv, TasksOK
<1>3. \A u \in Threads \ {t} : \A r :
        /\ Coming(u, k, r)' <=> Coming(u, k, r)
        /\ Untold(u, k, r)' <=> Untold(u, k, r)
        /\ Storing(u, k, r)' <=> Storing(u, k, r)
        /\ RemovalUnderWay(u, k)' <=> RemovalUnderWay(u, k)
        /\ RemovalMade(u, k)' <=> RemovalMade(u, k)
        /\ SetUnderWay(u, k)' <=> SetUnderWay(u, k)
        /\ \A pc : At(u, pc)' <=> At(u, pc)
  BY <1>1 DEF Coming, Untold, Storing, RemovalUnderWay, RemovalMade, SetUnderWay, At
<1>4. ServerFacts(t, k) /\ \A r \in Active : RuleFacts(t, k, r)
  BY DEF StepFacts
<1>5. /\ ~Clash(k) /\ spare[k] = <<>>
      /\ \A u \in Threads :
           /\ RemovalMade(u, k) => ~Stored(k)
           /\ At(u, "inserting") /\ frame[u].key = k => ~Stored(k)
  BY DEF KeyInv, ServerOf
<1>6. SetUnderWay(t, k) =>
        /\ ~RemovalUnderWay(t, k)
        /\ \A u \in Threads \ {t} : ~RemovalUnderWay(u, k) /\ (SetUnderWay(u, k) => indexed)
  BY <1>1, <1>5 DEF Clash, SetUnderWay, RemovalUnderWay, TaskOK, CallOK, Awaiting
<1>7. ServerOf(k)'
  <2>1. spare'[k] = <<>>
    BY <1>4, <1>5 DEF ServerFacts
  <2>2. ASSUME NEW u \in Threads, RemovalMade(u, k)' PROVE ~Stored(k)'
    BY <1>3, <1>4, <1>5, <1>6, <2>2 DEF ServerFacts, RemovalMade
  <2>3. ASSUME NEW u \in Threads, At(u, "inserting")', frame'[u].key = k PROVE ~Stored(k)'
    <3>1. CASE u = t
      BY <1>4, <2>3, <3>1 DEF ServerFacts
    <3>2. CASE u # t
      <4>1. At(u, "inserting") /\ frame[u].key = k
        BY <1>1, <1>3, <2>3, <3>2
      <4>2. SetUnderWay(u, k) /\ ~indexed
        BY <1>2, <4>1 DEF SetUnderWay, At, TaskOK, AwaitOK, Awaiting
      <4> QED BY <1>4, <1>5, <1>6, <3>2, <4>1, <4>2 DEF ServerFacts
    <3> QED BY <3>1, <3>2
  <2> QED BY <2>1, <2>2, <2>3 DEF ServerOf
<1>8. NoPhantom(k)'
  <2> SUFFICES ASSUME NEW r \in Active, k \in Tracks(r)', ~Stored(k)'
               PROVE  \E u \in Threads : Coming(u, k, r)' \/ Untold(u, k, r)'
    BY <1>1 DEF NoPhantom
  <2>1. CASE k \notin Tracks(r)
    BY <1>4, <2>1 DEF RuleFacts
  <2>2. CASE Stored(k)
    BY <1>4, <2>2 DEF ServerFacts
  <2>3. CASE k \in Tracks(r) /\ ~Stored(k)
    <3>1. PICK u \in Threads : Coming(u, k, r) \/ Untold(u, k, r)
      BY <2>3 DEF KeyInv, NoPhantom
    <3> QED BY <1>3, <1>4, <3>1 DEF RuleFacts
  <2> QED BY <2>1, <2>2, <2>3
<1>9. NoOrphan(k)'
  <2> SUFFICES ASSUME NEW r \in Active, Eligible(r)
               PROVE  /\ \A u \in Threads : Storing(u, k, r)' => k \in Tracks(r)'
                      /\ Stored(k)' => \/ k \in Tracks(r)'
                                       \/ \E u \in Threads : At(u, "delete")' /\ frame'[u].victim = k
    BY <1>1 DEF NoOrphan
  <2>1. /\ \A u \in Threads : Storing(u, k, r) => k \in Tracks(r)
        /\ Stored(k) => k \in Tracks(r) \/ \E u \in Threads : At(u, "delete") /\ frame[u].victim = k
    BY DEF KeyInv, NoOrphan
  <2>2. RuleFacts(t, k, r)
    BY <1>4
  <2>3. ASSUME NEW u \in Threads, Storing(u, k, r)', k \notin Tracks(r)' PROVE FALSE
    <3>1. k \in Tracks(r)
      BY <1>3, <2>1, <2>2, <2>3 DEF RuleFacts
    <3>2. Busy(frame[t]) /\ RemovalUnderWay(t, k)'
      BY <2>2, <2>3, <3>1 DEF RuleFacts
    <3>3. CASE u = t
      <4>1. /\ frame'[t].op = "set" /\ frame'[t].key = k
            /\ frame'[t].i >= Position(r) /\ frame'[t].i \in Nat
        BY <1>1, <2>3, <3>3 DEF Storing, TaskOK, TaskFrame
      <4>2. frame'[t].pc \in {"delete", "on_evict"} /\ frame'[t].victim = k
        BY <3>2, <4>1 DEF RemovalUnderWay
      <4>3. InRule(t, "max")'
        BY <4>1, <4>2 DEF OtherVictim
      <4>4. frame'[t].i \in DOMAIN rules /\ rules[frame'[t].i] = "max"
        BY <1>1, <4>3 DEF InRule
      <4>5. "max" \in Active
        BY <4>4 DEF Active, ToSet
      <4>6. frame'[t].i = Position("max") /\ Position("max") # Position(r)
        BY <1>1, <4>4, <4>5 DEF Eligible
      <4> QED BY <1>1, <4>1, <4>5, <4>6 DEF Eligible, Precedes
    <3>4. CASE u # t
      <4>1. ~Busy(frame[u]) /\ Storing(u, k, r)
        BY <1>2, <1>3, <2>3, <3>2, <3>4
      <4>2. SetUnderWay(u, k)'
        BY <1>1, <1>2, <3>4, <4>1 DEF Busy, Storing, SetUnderWay, TaskOK, CallOK
      <4> QED BY <3>2, <3>4, <4>2 DEF Clash
    <3> QED BY <3>3, <3>4
  <2>4. ASSUME Stored(k)', k \notin Tracks(r)'
        PROVE  \E u \in Threads : At(u, "delete")' /\ frame'[u].victim = k
    <3>1. CASE ~Stored(k)
      <4>1. SetUnderWay(t, k)
        BY <1>4, <2>4, <3>1 DEF ServerFacts
      <4>2. Storing(t, k, r) /\ ~Busy(frame[t])
        <5>1. frame[t].i \in Nat /\ frame[t].i > Len(rules)
          BY <1>1, <4>1 DEF SetUnderWay, TaskOK, AwaitOK, TaskFrame
        <5> QED BY <1>1, <4>1, <5>1 DEF SetUnderWay, Storing, Busy
      <4> QED BY <2>1, <2>2, <2>4, <4>2 DEF RuleFacts
    <3>2. CASE Stored(k) /\ k \in Tracks(r)
      BY <1>5, <2>2, <2>4, <3>2 DEF RuleFacts
    <3>3. CASE Stored(k) /\ k \notin Tracks(r)
      <4>1. PICK u \in Threads : At(u, "delete") /\ frame[u].victim = k
        BY <2>1, <3>3
      <4> QED BY <1>1, <1>3, <1>4, <2>4, <4>1 DEF ServerFacts
    <3> QED BY <3>1, <3>2, <3>3
  <2> QED BY <2>3, <2>4
<1> QED BY <1>7, <1>8, <1>9 DEF KeyInv

(* A step that changes neither the documents nor the rules. *)
LEMMA StillRules ==
  ASSUME UNCHANGED <<cache, spare, ruleState>>
  PROVE  \A k : /\ Stored(k)' <=> Stored(k)
                /\ \A r : Tracks(r)' = Tracks(r)
<1>1. LruTracked' = LruTracked
  BY DEF LruTracked, ruleState
<1> QED BY <1>1 DEF Stored, Tracks, ruleState

LEMMA CallFacts ==
  ASSUME TypeIInv, NEW t \in Threads, PCall(t), NEW k \in Keys
  PROVE  StepFacts(t, k)
<1>1. /\ rules' = rules /\ \A r : Position(r)' = Position(r)
      /\ \A r \in Active : Position(r) \in 1..Len(rules) /\ Len(rules) \in Nat
      /\ DOMAIN frame = Threads
  BY RulesStay DEF TaskStep
<1>2. UNCHANGED <<cache, spare, ruleState>> /\ frame[t].pc = "idle"
  BY DEF PCall, ASet, Set, Calling, AGet, AEvict, AClear, Request, serverState, At
<1>3. /\ frame[t].op = "none"
      /\ \/ frame'[t].op = "set" /\ frame'[t].pc = "on_set" /\ frame'[t].i = 1
         \/ frame'[t].op \in {"get", "evict", "clear"} /\ frame'[t].pc = "sent"
  <2>1. ASSUME NEW l \in Keys, NEW v \in Values, NEW ttl \in TTLs, ASet(t, l, v, ttl)
        PROVE  frame'[t].op = "set" /\ frame'[t].pc = "on_set" /\ frame'[t].i = 1
    BY <1>1, <2>1 DEF ASet, Set
  <2>2. ASSUME NEW f, Request(t, f) PROVE frame'[t] = f
    BY <1>1, <2>2 DEF Request
  <2>3. ASSUME NEW l \in Keys, AGet(t, l) PROVE frame'[t].op = "get" /\ frame'[t].pc = "sent"
    BY <1>1, <2>2, <2>3 DEF AGet, Idle
  <2>4. ASSUME NEW l \in Keys, AEvict(t, l) PROVE frame'[t].op = "evict" /\ frame'[t].pc = "sent"
    BY <1>1, <2>2, <2>4 DEF AEvict, Idle
  <2>5. ASSUME AClear(t) PROVE frame'[t].op = "clear" /\ frame'[t].pc = "sent"
    BY <1>1, <2>2, <2>5 DEF AClear, Idle
  <2>6. frame[t].op = "none"
    BY <1>2 DEF TypeIInv, TasksOK, TaskOK, CallOK
  <2> QED BY <2>1, <2>3, <2>4, <2>5, <2>6 DEF PCall
<1>4. Stored(k)' <=> Stored(k)
  BY <1>2, StillRules
<1>5. ServerFacts(t, k)
  BY <1>2, <1>3, <1>4 DEF ServerFacts, RemovalMade, At
<1>6. ASSUME NEW r \in Active PROVE RuleFacts(t, k, r)
  <2>1. Tracks(r)' = Tracks(r)
    BY <1>2, StillRules
  <2>2. ~Coming(t, k, r) /\ ~Untold(t, k, r)
    BY <1>2, <1>3 DEF Coming, Storing, Untold, RemovalUnderWay, At
  <2>3. ~Storing(t, k, r)'
    BY <1>1, <1>3 DEF Storing, At
  <2> QED BY <2>1, <2>2, <2>3 DEF RuleFacts
<1> QED BY <1>5, <1>6 DEF StepFacts

(* The end of a call, and its failure when it is not about the key. *)
LEMMA EndFacts ==
  ASSUME TypeIInv, NEW t \in Threads, NEW k \in Keys,
         Finish(t) \/ (Fail(t) /\ k \notin KeysOf(t))
  PROVE  StepFacts(t, k)
<1>1. /\ rules' = rules /\ \A r : Position(r)' = Position(r)
      /\ \A r \in Active : Position(r) \in 1..Len(rules) /\ Len(rules) \in Nat
      /\ TaskOK(frame[t]) /\ TaskStep(t)
  BY RulesStay DEF TaskStep, Run
<1>2. frame'[t] = Idle
  BY EndTaskOK
<1>3. frame'[t].op = "none" /\ frame'[t].pc = "idle" /\ frame'[t].victim = None
  BY <1>2 DEF Idle
<1>4. UNCHANGED <<cache, spare, ruleState>>
  BY DEF Finish, GetReturn, EvictReturn, ClearReturn, serverState,
     Fail, SetRaises, EvictInEffectRaises, CallRaises, Raise
<1>5. Stored(k)' <=> Stored(k)
  BY <1>4, StillRules
<1>6. /\ ~(frame[t].op = "set" /\ frame[t].key = k)
      /\ ~(frame[t].pc = "delete" /\ frame[t].victim = k)
      /\ \A r \in Active : ~Untold(t, k, r)
  <2>1. CASE Finish(t)
    <3>1. \/ frame[t].pc = "on_get"
          \/ frame[t].pc \in {"on_evict", "on_clear"} /\ frame[t].j > Len(rules)
             /\ frame[t].op \in {"evict", "clear"}
      BY <1>1, <2>1 DEF Finish, GetReturn, EvictReturn, ClearReturn, OuterDone, InnerDone, At,
         TaskOK, CallOK, SetLabels, GetLabels, TaskFrame, Awaiting
    <3>2. frame[t].j \in Nat /\ (frame[t].pc = "on_get" => frame[t].op # "set")
      BY <1>1 DEF TaskOK, TaskFrame, CallOK, SetLabels, Awaiting
    <3> QED BY <1>1, <3>1, <3>2 DEF Untold, At
  <2>2. CASE Fail(t) /\ k \notin KeysOf(t)
    BY <2>2 DEF KeysOf, RemovalUnderWay, Untold
  <2> QED BY <2>1, <2>2
<1>7. ServerFacts(t, k)
  BY <1>3, <1>4, <1>5, <1>6 DEF ServerFacts, RemovalMade, At
<1>8. ASSUME NEW r \in Active PROVE RuleFacts(t, k, r)
  <2>1. Tracks(r)' = Tracks(r)
    BY <1>4, StillRules
  <2>2. ~Coming(t, k, r) /\ ~Storing(t, k, r)'
    BY <1>3, <1>6 DEF Coming, Storing
  <2> QED BY <1>6, <2>1, <2>2 DEF RuleFacts
<1> QED BY <1>7, <1>8 DEF StepFacts

LEMMA SendFacts ==
  ASSUME TypeIInv, NEW t \in Threads, SendSet(t), NEW k \in Keys
  PROVE  StepFacts(t, k)
<1>1. /\ rules' = rules /\ \A r : Position(r)' = Position(r)
      /\ \A r \in Active : Position(r) \in 1..Len(rules) /\ Len(rules) \in Nat
      /\ TaskOK(frame[t]) /\ DOMAIN frame = Threads
  BY RulesStay DEF TaskStep, Run
<1>2. UNCHANGED <<cache, spare, ruleState>> /\ frame[t].pc = "on_set"
      /\ frame[t].op = "set" /\ frame[t].i > Len(rules) /\ frame[t].i \in Nat
  BY <1>1 DEF SendSet, OuterDone, At, serverState, TaskOK, CallOK, TaskFrame, GetLabels
<1>3. /\ frame'[t].pc = "sent" /\ frame'[t].op = "set" /\ frame'[t].key = frame[t].key
      /\ frame'[t].i = frame[t].i
  BY <1>1, <1>2 DEF SendSet, TaskOK, TaskFrame
<1>4. Stored(k)' <=> Stored(k)
  BY <1>2, StillRules
<1>5. ServerFacts(t, k)
  BY <1>2, <1>3, <1>4 DEF ServerFacts, RemovalMade, At
<1>6. ASSUME NEW r \in Active PROVE RuleFacts(t, k, r)
  <2>1. Tracks(r)' = Tracks(r)
    BY <1>2, StillRules
  <2>2. Coming(t, k, r) => Coming(t, k, r)'
    BY <1>1, <1>2, <1>3 DEF Coming, Storing, At
  <2>3. Storing(t, k, r)' => Storing(t, k, r)
    BY <1>1, <1>2, <1>3 DEF Storing, At
  <2>4. ~Untold(t, k, r)
    BY <1>2 DEF Untold, At
  <2> QED BY <2>1, <2>2, <2>3, <2>4 DEF RuleFacts
<1> QED BY <1>5, <1>6 DEF StepFacts

LEMMA ResumeFacts ==
  ASSUME TypeIInv, NEW t \in Threads, Resume(t), NEW k \in Keys
  PROVE  StepFacts(t, k)
<1>1. /\ rules' = rules /\ \A r : Position(r)' = Position(r)
      /\ \A r \in Active : Position(r) \in 1..Len(rules) /\ Len(rules) \in Nat
      /\ TaskOK(frame[t]) /\ DOMAIN frame = Threads
  BY RulesStay DEF TaskStep
<1>2. UNCHANGED <<cache, spare, ruleState>> /\ frame[t].pc = "answered"
  BY DEF Resume, SetAnswered, GetAnswered, EvictAnswered, ClearAnswered, Resumed, serverState, At
<1>3. \/ /\ frame[t].op \in {"set", "get"} /\ frame'[t].op \in {"none", "get"}
         /\ frame'[t].pc \in {"idle", "on_get"}
      \/ /\ frame[t].op \in {"evict", "clear"} /\ frame'[t].op = frame[t].op
         /\ frame'[t].victim = frame[t].victim
         /\ frame'[t].pc \in {"on_evict", "on_clear"}
         /\ frame[t].j = 1 /\ frame'[t].j = 1
  <2>1. ASSUME NEW f, Resumed(t, f) PROVE frame'[t] = f
    BY <1>1, <2>1 DEF Resumed
  <2>2. CASE SetAnswered(t) \/ GetAnswered(t)
    BY <1>1, <2>1, <2>2 DEF SetAnswered, GetAnswered, Idle, TaskOK, TaskFrame
  <2>3. CASE EvictAnswered(t) \/ ClearAnswered(t)
    <3>1. /\ frame[t].op \in {"evict", "clear"}
          /\ \/ frame'[t] = [frame[t] EXCEPT !.pc = "on_evict"]
             \/ frame'[t] = [frame[t] EXCEPT !.pc = "on_clear"]
      BY <2>1, <2>3 DEF EvictAnswered, ClearAnswered
    <3>2. frame[t].j = 1
      BY <1>1, <1>2, <3>1 DEF TaskOK, AwaitOK, Awaiting
    <3> QED BY <1>1, <3>1, <3>2 DEF TaskOK, TaskFrame
  <2> QED BY <2>2, <2>3 DEF Resume
<1>4. Stored(k)' <=> Stored(k)
  BY <1>2, StillRules
<1>5. RemovalUnderWay(t, k)' => RemovalUnderWay(t, k)
  BY <1>2, <1>3 DEF RemovalUnderWay
<1>6. ServerFacts(t, k)
  BY <1>2, <1>3, <1>4, <1>5 DEF ServerFacts, RemovalMade, At
<1>7. ASSUME NEW r \in Active PROVE RuleFacts(t, k, r)
  <2>1. Tracks(r)' = Tracks(r)
    BY <1>2, StillRules
  <2>2. ~Coming(t, k, r) /\ ~Storing(t, k, r)'
    BY <1>2, <1>3 DEF Coming, Storing, At
  <2>3. Untold(t, k, r) => Untold(t, k, r)'
    BY <1>1, <1>2, <1>3 DEF Untold, RemovalUnderWay, At
  <2> QED BY <2>1, <2>2, <2>3 DEF RuleFacts
<1> QED BY <1>6, <1>7 DEF StepFacts

(* The server executes a request. *)
LEMMA ServeFacts ==
  ASSUME TypeIInv, NEW t \in Threads, Serve(t), NEW k \in Keys, spare[k] = <<>>
  PROVE  StepFacts(t, k)
<1>1. /\ rules' = rules /\ \A r : Position(r)' = Position(r)
      /\ \A r \in Active : Position(r) \in 1..Len(rules) /\ Len(rules) \in Nat
      /\ TaskOK(frame[t]) /\ frame[t] \in TaskFrame /\ DOMAIN frame = Threads
  BY RulesStay DEF TaskStep, TaskOK
<1>2. /\ DocumentsOK /\ backend \in {"redis", "mongodb"} /\ (backend = "redis" => spare = NoSpare)
  BY DEF TypeIInv, ServerOK
<1>3. \A r : Tracks(r)' = Tracks(r)
  <2>1. UNCHANGED ruleState
    BY DEF Serve, RedisSets, MongoUpdates, MongoUpserts, MongoFindsNone, MongoInserts,
       ServerGets, ServerEvicts, ServerClears, Executed
  <2>2. LruTracked' = LruTracked
    BY <2>1 DEF ruleState, LruTracked
  <2> QED BY <2>1, <2>2 DEF Tracks, ruleState
<1>4. CASE RedisSets(t) \/ MongoUpdates(t) \/ MongoUpserts(t) \/ MongoInserts(t)
  <2> DEFINE l == frame[t].key
             d == InFlight(t)
  <2>1. /\ frame[t].op = "set" /\ frame[t].pc \in {"sent", "inserting"} /\ l \in Keys
        /\ frame[t].value \in Values /\ frame[t].seen \in Nat
    BY <1>1, <1>4 DEF RedisSets, MongoUpdates, MongoUpserts, MongoInserts, Under, At, TaskOK,
       CallOK, AwaitOK, TaskFrame, Awaiting
  <2>2. d \in Entry /\ d.value = frame[t].value /\ d.expiry = frame[t].seen
    BY <2>1 DEF Entry, InFlight, Document
  <2>3. UNCHANGED clock /\ frame'[t] = [frame[t] EXCEPT !.pc = "answered"]
    BY <1>1, <1>4 DEF RedisSets, MongoUpdates, MongoUpserts, MongoInserts, Executed, counts, Goto
  <2>4. /\ frame'[t].pc = "answered" /\ frame'[t].op = "set" /\ frame'[t].key = l
        /\ frame'[t].i = frame[t].i
    BY <1>1, <2>1, <2>3 DEF TaskFrame
  <2>5. \/ RedisASet(l, d.value, d.expiry) /\ UNCHANGED spare
        \/ UpdateOne(l, d) /\ Stored(l)
        \/ InsertOne(l, d) /\ ~Stored(l)
        \/ InsertOne(l, d) /\ Stored(l) /\ At(t, "inserting")
    BY <1>4, <2>2 DEF RedisSets, MongoUpdates, MongoUpserts, MongoInserts
  <2>6. \/ DOMAIN cache' = DOMAIN cache \cup {l} /\ UNCHANGED spare
        \/ /\ UNCHANGED cache /\ Stored(l) /\ At(t, "inserting")
           /\ \A x \in Keys \ {l} : spare'[x] = spare[x]
    <3> HIDE DEF l, d
    <3> QED BY <1>2, <2>1, <2>2, <2>3, <2>5, StoreOps
  <2>7. (k = l => Stored(k)') /\ (k # l => (Stored(k)' <=> Stored(k)) /\ spare'[k] = spare[k])
    BY <2>6 DEF Stored
  <2>8. ServerFacts(t, k)
    <3>1. k = l => SetUnderWay(t, k)
      BY <2>1 DEF SetUnderWay, Awaiting
    <3>2. Stored(k) => Stored(k)'
      BY <2>7
    <3>3. spare'[k] # spare[k] => k = l /\ Stored(l) /\ At(t, "inserting")
      BY <2>6, <2>7
    <3>4. ~RemovalUnderWay(t, k)'
      BY <2>4 DEF RemovalUnderWay
    <3>5. ~At(t, "inserting")' /\ ~At(t, "delete")
      BY <2>1, <2>4 DEF At
    <3> QED BY <2>7, <3>1, <3>2, <3>3, <3>4, <3>5 DEF ServerFacts, RemovalMade
  <2>9. ASSUME NEW r \in Active PROVE RuleFacts(t, k, r)
    <3>1. Coming(t, k, r) => Stored(k)'
      BY <2>7 DEF Coming, Storing
    <3>2. Storing(t, k, r)' => Storing(t, k, r)
      BY <1>1, <2>1, <2>4 DEF Storing, At
    <3>3. ~Untold(t, k, r)
      BY <2>1 DEF Untold, At
    <3> QED BY <1>3, <3>1, <3>2, <3>3 DEF RuleFacts
  <2> QED BY <2>8, <2>9 DEF StepFacts
<1>5. CASE MongoFindsNone(t) \/ ServerGets(t)
  <2>1. UNCHANGED <<cache, spare>> /\ frame[t].pc = "sent" /\ frame[t].op \in {"set", "get"}
        /\ (MongoFindsNone(t) => ~Stored(frame[t].key))
    BY <1>5 DEF MongoFindsNone, ServerGets, serverState, Under, At
  <2>2. /\ frame'[t].op = frame[t].op /\ frame'[t].key = frame[t].key /\ frame'[t].i = frame[t].i
        /\ frame'[t].pc \in {"inserting", "answered"}
        /\ frame'[t].pc = "inserting" => MongoFindsNone(t)
        /\ frame'[t].pc = "answered" => frame[t].op = "get"
    <3>1. CASE MongoFindsNone(t)
      BY <1>1, <3>1 DEF MongoFindsNone, Goto, TaskFrame
    <3>2. CASE ServerGets(t)
      <4> DEFINE found == CASE backend = "redis"   -> RedisAGet(frame[t].key)
                            [] backend = "mongodb" -> MongoAGet(frame[t].key)
      <4>1. frame' = [frame EXCEPT ![t].pc = "answered", ![t].got = found] /\ frame[t].op = "get"
        BY <3>2 DEF ServerGets, Under
      <4> HIDE DEF found
      <4> QED BY <1>1, <4>1 DEF TaskFrame
    <3> QED BY <1>5, <3>1, <3>2
  <2>3. Stored(k)' <=> Stored(k)
    BY <2>1 DEF Stored
  <2>4. ServerFacts(t, k)
    <3>1. ~RemovalUnderWay(t, k)'
      BY <2>1, <2>2 DEF RemovalUnderWay
    <3>2. At(t, "inserting")' /\ frame'[t].key = k => ~Stored(k)'
      BY <2>1, <2>2, <2>3 DEF At
    <3>3. ~At(t, "delete")
      BY <2>1 DEF At
    <3> QED BY <2>1, <2>3, <3>1, <3>2, <3>3 DEF ServerFacts, RemovalMade
  <2>5. ASSUME NEW r \in Active PROVE RuleFacts(t, k, r)
    <3>1. Coming(t, k, r) => Coming(t, k, r)'
      BY <1>1, <2>1, <2>2 DEF Coming, Storing, At
    <3>2. Storing(t, k, r)' => Storing(t, k, r)
      BY <1>1, <2>1, <2>2 DEF Storing, At
    <3>3. ~Untold(t, k, r)
      BY <2>1 DEF Untold, At
    <3> QED BY <1>3, <3>1, <3>2, <3>3 DEF RuleFacts
  <2> QED BY <2>4, <2>5 DEF StepFacts
<1>6. CASE ServerEvicts(t) \/ ServerClears(t)
  <2>1. /\ frame[t].op \in {"evict", "clear"} /\ frame[t].pc = "sent"
        /\ UNCHANGED clock /\ frame'[t] = [frame[t] EXCEPT !.pc = "answered"]
    BY <1>1, <1>6 DEF ServerEvicts, ServerClears, Under, At, Executed, counts, Goto
  <2>2. /\ frame'[t].pc = "answered" /\ frame'[t].op = frame[t].op
        /\ frame'[t].victim = frame[t].victim
    BY <1>1, <2>1 DEF TaskFrame
  <2>3. /\ spare'[k] = spare[k] /\ (Stored(k)' => Stored(k))
        /\ RemovalUnderWay(t, k) => ~Stored(k)'
        /\ Stored(k) /\ ~Stored(k)' => RemovalUnderWay(t, k)
    <3>1. CASE ServerEvicts(t)
      <4> DEFINE l == frame[t].victim
      <4>1. l \in Keys /\ frame[t].op = "evict"
        BY <1>1, <3>1 DEF ServerEvicts, Under, TaskOK, CallOK
      <4>2. IF backend = "redis" THEN RedisAEvict(l) /\ UNCHANGED spare ELSE MongoAEvict(l)
        BY <1>2, <3>1 DEF ServerEvicts
      <4>3. backend = "redis" => spare[l] = <<>>
        BY <1>2, <4>1 DEF NoSpare
      <4>4. \/ DOMAIN cache' = DOMAIN cache \ {l} /\ UNCHANGED spare
            \/ DOMAIN cache' = DOMAIN cache /\ spare[l] # <<>> /\ \A x \in Keys \ {l} : spare'[x] = spare[x]
        <5> HIDE DEF l
        <5> QED BY <1>2, <2>1, <4>1, <4>2, <4>3, RemoveOps
      <4> QED BY <2>1, <4>1, <4>4 DEF Stored, RemovalUnderWay
    <3>2. CASE ServerClears(t)
      <4>1. IF backend = "redis" THEN RedisAClear /\ UNCHANGED spare ELSE MongoAClear
        BY <1>2, <3>2 DEF ServerClears, Cleared
      <4>2. DOMAIN cache' = {} /\ spare' = NoSpare
        BY <1>2, <2>1, <4>1, RemoveOps
      <4>3. frame[t].op = "clear" /\ NoSpare[k] = <<>>
        BY <3>2 DEF ServerClears, Under, NoSpare
      <4> QED BY <4>2, <4>3 DEF Stored, RemovalUnderWay
    <3> QED BY <1>6, <3>1, <3>2
  <2>4. /\ RemovalUnderWay(t, k)' <=> RemovalUnderWay(t, k)
        /\ \A r : RemovalUnderWay(t, k) => Untold(t, k, r)'
    BY <2>1, <2>2 DEF RemovalUnderWay, Untold, At
  <2>5. ServerFacts(t, k)
    BY <2>1, <2>2, <2>3, <2>4 DEF ServerFacts, RemovalMade, At
  <2>6. ASSUME NEW r \in Active PROVE RuleFacts(t, k, r)
    <3>1. ~Coming(t, k, r) /\ ~Storing(t, k, r)' /\ ~Untold(t, k, r)
      BY <2>1, <2>2 DEF Coming, Storing, Untold, At
    <3> QED BY <1>3, <3>1 DEF RuleFacts
  <2> QED BY <2>5, <2>6 DEF StepFacts
<1> QED BY <1>4, <1>5, <1>6 DEF Serve

(* The side effect of a rule removes its victim. *)
LEMMA EffectFacts ==
  ASSUME TypeIInv, NEW t \in Threads, EvictInEffect(t), NEW k \in Keys, spare[k] = <<>>
  PROVE  StepFacts(t, k)
<1>1. /\ rules' = rules /\ \A r : Position(r)' = Position(r)
      /\ \A r \in Active : Position(r) \in 1..Len(rules) /\ Len(rules) \in Nat
      /\ TaskOK(frame[t]) /\ frame[t] \in TaskFrame /\ DOMAIN frame = Threads
  BY RulesStay DEF TaskStep, Run, TaskOK
<1>2. /\ DocumentsOK /\ backend \in {"redis", "mongodb"} /\ (backend = "redis" => spare = NoSpare)
  BY DEF TypeIInv, ServerOK
<1>3. \A r : Tracks(r)' = Tracks(r)
  <2>1. UNCHANGED ruleState
    BY DEF EvictInEffect
  <2>2. LruTracked' = LruTracked
    BY <2>1 DEF ruleState, LruTracked
  <2> QED BY <2>1, <2>2 DEF Tracks, ruleState
<1> DEFINE l == frame[t].victim
<1>4. /\ frame[t].pc = "delete" /\ l \in Keys /\ UNCHANGED clock
      /\ frame[t].op \in {"set", "get"} /\ frame[t].i \in Nat
      /\ \/ backend = "redis" /\ RedisAEvict(l) /\ UNCHANGED spare
         \/ MongoAEvict(l)
  BY <1>1, <1>2 DEF EvictInEffect, Evicted, RedisEvict, MongoEvict, At, TaskOK, TaskFrame, CallOK,
     counts
<1>5. /\ frame'[t].pc = "on_evict" /\ frame'[t].j = 1 /\ frame'[t].op = frame[t].op
      /\ frame'[t].key = frame[t].key /\ frame'[t].victim = l /\ frame'[t].i = frame[t].i
  BY <1>1 DEF EvictInEffect, TaskFrame
<1>6. /\ l = k => ~Stored(k)' /\ spare'[k] = spare[k]
      /\ l # k => (Stored(k)' <=> Stored(k)) /\ spare'[k] = spare[k]
  <2>1. backend = "redis" => spare[l] = <<>>
    BY <1>2, <1>4 DEF NoSpare
  <2>2. \/ DOMAIN cache' = DOMAIN cache \ {l} /\ UNCHANGED spare
        \/ DOMAIN cache' = DOMAIN cache /\ spare[l] # <<>> /\ \A x \in Keys \ {l} : spare'[x] = spare[x]
    <3> HIDE DEF l
    <3> QED BY <1>2, <1>4, <2>1, RemoveOps
  <2> QED BY <2>2 DEF Stored
<1>7. RemovalUnderWay(t, k)' => l = k
  BY <1>4, <1>5 DEF RemovalUnderWay
<1>8. ServerFacts(t, k)
  <2>1. l = k => \A r \in Active : Untold(t, k, r)'
    BY <1>1, <1>5 DEF Untold, RemovalUnderWay
  <2>2. RemovalMade(t, k)' => ~Stored(k)'
    BY <1>6, <1>7 DEF RemovalMade
  <2>3. ~At(t, "inserting")'
    BY <1>5 DEF At
  <2> QED BY <1>6, <2>1, <2>2, <2>3 DEF ServerFacts
<1>9. ASSUME NEW r \in Active PROVE RuleFacts(t, k, r)
  <2>1. Coming(t, k, r) => Coming(t, k, r)'
    BY <1>1, <1>4, <1>5 DEF Coming, Storing, At
  <2>2. Storing(t, k, r)' => Storing(t, k, r)
    BY <1>1, <1>4, <1>5 DEF Storing, At
  <2>3. ~Untold(t, k, r)
    BY <1>4 DEF Untold, At
  <2> QED BY <1>3, <2>1, <2>2, <2>3 DEF RuleFacts
<1> QED BY <1>8, <1>9 DEF StepFacts

(* What the hooks do to what a rule remembers. *)
LEMMA HookTracks ==
  ASSUME TypeIInv, NEW t \in Threads, TaskOK(frame[t])
  PROVE  /\ LruOnSetInsert(t) => /\ Tracks("lru")' = Tracks("lru") \cup {frame[t].key}
                                 /\ \A r \in RuleKinds \ {"lru"} : Tracks(r)' = Tracks(r)
         /\ LruOnSetMove(t) \/ LruOnGetMove(t) => \A r \in RuleKinds : Tracks(r)' = Tracks(r)
         /\ LruOnSetPop(t) => /\ Tracks("lru")' = Tracks("lru") \ {LruOldest}
                              /\ LruOldest \in Keys
                              /\ \A r \in RuleKinds \ {"lru"} : Tracks(r)' = Tracks(r)
         /\ MaxOnSetAdd(t) => /\ Tracks("max")' = Tracks("max") \cup {frame[t].key}
                              /\ \A r \in RuleKinds \ {"max"} : Tracks(r)' = Tracks(r)
         /\ LifeOnSet(t) => /\ Tracks("life")' = Tracks("life") \cup {frame[t].key}
                            /\ \A r \in RuleKinds \ {"life"} : Tracks(r)' = Tracks(r)
         /\ UNCHANGED ruleState => \A r \in RuleKinds : Tracks(r)' = Tracks(r)
         /\ LifeOnGetCheck(t) /\ LifeForget(frame[t].key) =>
              /\ Tracks("life")' = Tracks("life") \ {frame[t].key}
              /\ \A r \in RuleKinds \ {"life"} : Tracks(r)' = Tracks(r)
         /\ \A r \in RuleKinds :
              \/ LruOnEvict(t) /\ r = "lru"
              \/ MaxOnEvict(t) /\ r = "max"
              \/ LifeOnEvict(t) /\ r = "life"
              => /\ Tracks(r)' = Tracks(r) \ {frame[t].victim}
                 /\ \A s \in RuleKinds \ {r} : Tracks(s)' = Tracks(s)
         /\ \A r \in RuleKinds :
              \/ LruOnClear(t) /\ r = "lru"
              \/ MaxOnClear(t) /\ r = "max"
              \/ LifeOnClear(t) /\ r = "life"
              => /\ Tracks(r)' = {}
                 /\ \A s \in RuleKinds \ {r} : Tracks(s)' = Tracks(s)
<1>1. /\ LruOK /\ LifeOK
      /\ frame[t].op \in {"set", "get"} => frame[t].key \in Keys
      /\ frame[t].pc = "on_evict" => frame[t].victim \in Keys
      /\ frame[t].pc \in SetLabels \cup GetLabels => frame[t].op \in {"set", "get"}
      /\ \A e \in Nat : clock + e \in Nat
      /\ frame[t].ttl \in Nat
  BY DEF TypeIInv, RuleStateOK, TaskOK, CallOK, TaskFrame, SetLabels, GetLabels, ServerOK,
     DocumentsOK, InMemoryTypeOK
<1>2. UNCHANGED accessOrder => LruTracked' = LruTracked
  BY DEF LruTracked
<1> USE <1>1, <1>2 DEF Tracks, RuleKinds, At, Outer, Inner, SetLabels, GetLabels
<1>3. LruOnSetInsert(t) => /\ Tracks("lru")' = Tracks("lru") \cup {frame[t].key}
                           /\ \A r \in RuleKinds \ {"lru"} : Tracks(r)' = Tracks(r)
  BY LruOps DEF LruOnSetInsert
<1>4. LruOnSetMove(t) \/ LruOnGetMove(t) => \A r \in RuleKinds : Tracks(r)' = Tracks(r)
  BY LruOps DEF LruOnSetMove, LruOnGetMove
<1>5. LruOnSetPop(t) => /\ Tracks("lru")' = Tracks("lru") \ {LruOldest}
                        /\ LruOldest \in Keys
                        /\ \A r \in RuleKinds \ {"lru"} : Tracks(r)' = Tracks(r)
  BY LruOps DEF LruOnSetPop
<1>6. MaxOnSetAdd(t) => /\ Tracks("max")' = Tracks("max") \cup {frame[t].key}
                        /\ \A r \in RuleKinds \ {"max"} : Tracks(r)' = Tracks(r)
  BY DEF MaxOnSetAdd, HardAdmit
<1>7. LifeOnSet(t) => /\ Tracks("life")' = Tracks("life") \cup {frame[t].key}
                      /\ \A r \in RuleKinds \ {"life"} : Tracks(r)' = Tracks(r)
  BY LifeOps DEF LifeOnSet
<1>8. UNCHANGED ruleState => \A r \in RuleKinds : Tracks(r)' = Tracks(r)
  BY DEF ruleState
<1>9. LifeOnGetCheck(t) /\ LifeForget(frame[t].key) =>
        /\ Tracks("life")' = Tracks("life") \ {frame[t].key}
        /\ \A r \in RuleKinds \ {"life"} : Tracks(r)' = Tracks(r)
  BY LifeOps DEF LifeOnGetCheck
<1>10. LruOnEvict(t) => /\ Tracks("lru")' = Tracks("lru") \ {frame[t].victim}
                        /\ \A s \in RuleKinds \ {"lru"} : Tracks(s)' = Tracks(s)
  BY LruOps DEF LruOnEvict
<1>11. MaxOnEvict(t) => /\ Tracks("max")' = Tracks("max") \ {frame[t].victim}
                        /\ \A s \in RuleKinds \ {"max"} : Tracks(s)' = Tracks(s)
  BY DEF MaxOnEvict, HardForget
<1>12. LifeOnEvict(t) => /\ Tracks("life")' = Tracks("life") \ {frame[t].victim}
                         /\ \A s \in RuleKinds \ {"life"} : Tracks(s)' = Tracks(s)
  BY LifeOps DEF LifeOnEvict
<1>13. LruOnClear(t) => /\ Tracks("lru")' = {}
                        /\ \A s \in RuleKinds \ {"lru"} : Tracks(s)' = Tracks(s)
  BY DEF LruOnClear, LruForgetAll, LruTracked, ToSet
<1>14. MaxOnClear(t) => /\ Tracks("max")' = {}
                        /\ \A s \in RuleKinds \ {"max"} : Tracks(s)' = Tracks(s)
  BY DEF MaxOnClear, HardForgetAll
<1>15. LifeOnClear(t) => /\ Tracks("life")' = {}
                         /\ \A s \in RuleKinds \ {"life"} : Tracks(s)' = Tracks(s)
  BY DEF LifeOnClear, LifeForgetAll, Restrict
<1> HIDE DEF Tracks, At, Outer, Inner
<1> QED BY <1>3, <1>4, <1>5, <1>6, <1>7, <1>8, <1>9, <1>10, <1>11, <1>12, <1>13, <1>14, <1>15

SetHook(t) ==
  \/ LruOnSetInsert(t) \/ LruOnSetMove(t) \/ LruOnSetLen(t) \/ LruOnSetPop(t)
  \/ MaxOnSetIn(t) \/ MaxOnSetLen(t) \/ MaxOnSetAdd(t) \/ LifeOnSet(t)

GetHook(t) ==
  LruOnGetIn(t) \/ LruOnGetMove(t) \/ MaxOnGet(t) \/ LifeOnGetRead(t) \/ LifeOnGetCheck(t)

(* A hook of set stays inside its rule, or goes on to the next. *)
LEMMA SetHookMoves ==
  ASSUME TypeIInv, NEW t \in Threads, SetHook(t)
  PROVE  /\ frame[t].op = "set" /\ frame[t].pc \in SetLabels /\ frame[t].i \in Nat
         /\ frame'[t].op = "set" /\ frame'[t].key = frame[t].key
         /\ \/ frame'[t].i = frame[t].i /\ frame'[t].pc \in (SetLabels \cup {"delete"}) \ {"on_set"}
            \/ frame'[t].i = frame[t].i + 1 /\ frame'[t].pc = "on_set"
         /\ At(t, "on_set") /\ frame'[t].pc # "delete" =>
              \/ LruOnSetInsert(t) /\ InRule(t, "lru")
              \/ MaxOnSetIn(t) /\ InRule(t, "max")
              \/ LifeOnSet(t) /\ InRule(t, "life")
<1>1. TaskOK(frame[t]) /\ DOMAIN frame = Threads
  BY DEF TypeIInv, TasksOK
<1> USE <1>1 DEF SetLabels, GetLabels, Awaiting, At, Outer, TaskOK, TaskFrame, CallOK, Goto,
                 NextOuter, Effect
<1>2. CASE LruOnSetInsert(t) \/ LruOnSetMove(t)
  BY <1>2 DEF LruOnSetInsert, LruOnSetMove
<1>3. CASE LruOnSetLen(t) \/ LruOnSetPop(t)
  BY <1>3 DEF LruOnSetLen, LruOnSetPop
<1>4. CASE MaxOnSetIn(t)
  BY <1>4 DEF MaxOnSetIn
<1>5. CASE MaxOnSetLen(t) \/ MaxOnSetAdd(t)
  BY <1>5 DEF MaxOnSetLen, MaxOnSetAdd
<1>6. CASE LifeOnSet(t)
  BY <1>6 DEF LifeOnSet
<1> QED BY <1>2, <1>3, <1>4, <1>5, <1>6 DEF SetHook

LEMMA GetHookMoves ==
  ASSUME TypeIInv, NEW t \in Threads, GetHook(t)
  PROVE  /\ frame[t].op = "get" /\ frame[t].pc \in GetLabels
         /\ frame'[t].op = "get" /\ frame'[t].key = frame[t].key
         /\ \/ frame'[t].pc \in GetLabels
            \/ /\ frame'[t].pc = "delete" /\ frame'[t].victim = frame[t].key
               /\ LifeOnGetCheck(t) /\ LifeForget(frame[t].key)
<1>1. TaskOK(frame[t]) /\ DOMAIN frame = Threads
  BY DEF TypeIInv, TasksOK
<1> USE <1>1 DEF SetLabels, GetLabels, Awaiting, At, Outer, TaskOK, TaskFrame, CallOK, Goto,
                 NextOuter, Effect
<1>2. CASE LruOnGetIn(t)
  BY <1>2 DEF LruOnGetIn
<1>3. CASE LruOnGetMove(t) \/ MaxOnGet(t)
  BY <1>3 DEF LruOnGetMove, MaxOnGet
<1>4. CASE LifeOnGetRead(t)
  BY <1>4 DEF LifeOnGetRead
<1>5. CASE LifeOnGetCheck(t)
  BY <1>5 DEF LifeOnGetCheck
<1> QED BY <1>2, <1>3, <1>4, <1>5 DEF GetHook

(* The hooks of set: a key becomes known before it is stored. *)
LEMMA SetHookFacts ==
  ASSUME TypeIInv, NEW t \in Threads, TaskStep(t), SetHook(t), UNCHANGED <<cache, spare>>,
         NEW k \in Keys
  PROVE  StepFacts(t, k)
<1>1. /\ \A r : Position(r)' = Position(r)
      /\ \A r \in Active :
              /\ r \in RuleKinds /\ Position(r) \in 1..Len(rules) /\ Len(rules) \in Nat
              /\ rules[Position(r)] = r
              /\ \A n \in DOMAIN rules : rules[n] = r => n = Position(r)
      /\ TaskOK(frame[t]) /\ frame[t].key \in Keys
  BY RulesStay, SetHookMoves DEF TaskOK, CallOK
<1>2. /\ frame[t].op = "set" /\ frame[t].pc \in SetLabels /\ frame[t].i \in Nat
      /\ frame'[t].op = "set" /\ frame'[t].key = frame[t].key
      /\ \/ frame'[t].i = frame[t].i /\ frame'[t].pc \in (SetLabels \cup {"delete"}) \ {"on_set"}
         \/ frame'[t].i = frame[t].i + 1 /\ frame'[t].pc = "on_set"
      /\ At(t, "on_set") /\ frame'[t].pc # "delete" =>
           \/ LruOnSetInsert(t) /\ InRule(t, "lru")
           \/ MaxOnSetIn(t) /\ InRule(t, "max")
           \/ LifeOnSet(t) /\ InRule(t, "life")
  BY SetHookMoves
<1>3. Stored(k)' <=> Stored(k)
  BY DEF Stored
<1>4. ServerFacts(t, k)
  BY <1>2, <1>3 DEF ServerFacts, RemovalMade, At, SetLabels
<1>5. ASSUME NEW r \in Active PROVE RuleFacts(t, k, r)
  <2>1. Coming(t, k, r) => Coming(t, k, r)'
    BY <1>1, <1>2 DEF Coming, Storing, At, SetLabels
  <2>2. ~Untold(t, k, r)
    BY <1>2 DEF Untold, At, SetLabels
  <2>3. k \in Tracks(r)' /\ k \notin Tracks(r) =>
          Storing(t, k, r)'
    <3> SUFFICES ASSUME k \in Tracks(r)', k \notin Tracks(r) PROVE Storing(t, k, r)'
      OBVIOUS
    <3>1. CASE LruOnSetInsert(t)
      <4>1. r = "lru" /\ k = frame[t].key
        BY <1>1, <3>1, HookTracks
      <4>2. frame[t].i = Position(r) /\ frame'[t].i = frame[t].i /\ frame'[t].pc = "lru_move"
        BY <1>1, <1>2, <3>1, <4>1, RulesStay DEF LruOnSetInsert, Outer, InRule, Goto, TaskFrame
      <4> QED BY <1>1, <1>2, <4>1, <4>2 DEF Storing, At
    <3>2. CASE MaxOnSetAdd(t)
      <4>1. r = "max" /\ k = frame[t].key
        BY <1>1, <3>2, HookTracks
      <4>2. frame[t].i = Position(r) /\ frame'[t].i = frame[t].i + 1
        BY <1>1, <1>2, <3>2, <4>1, RulesStay DEF MaxOnSetAdd, At, TaskOK, HookOK, NextOuter, TaskFrame
      <4> QED BY <1>1, <1>2, <4>1, <4>2 DEF Storing
    <3>3. CASE LifeOnSet(t)
      <4>1. r = "life" /\ k = frame[t].key
        BY <1>1, <3>3, HookTracks
      <4>2. frame[t].i = Position(r) /\ frame'[t].i = frame[t].i + 1
        BY <1>1, <1>2, <3>3, <4>1, RulesStay DEF LifeOnSet, Outer, InRule, NextOuter, TaskFrame
      <4> QED BY <1>1, <1>2, <4>1, <4>2 DEF Storing
    <3>4. CASE LruOnSetMove(t) \/ LruOnSetLen(t) \/ LruOnSetPop(t) \/ MaxOnSetIn(t) \/ MaxOnSetLen(t)
      <4>1. LruOnSetLen(t) \/ MaxOnSetIn(t) \/ MaxOnSetLen(t) => UNCHANGED ruleState
        BY DEF LruOnSetLen, MaxOnSetIn, MaxOnSetLen
      <4> QED BY <1>1, <3>4, <4>1, HookTracks
    <3> QED BY <3>1, <3>2, <3>3, <3>4 DEF SetHook
  <2>4. Storing(t, k, r)' => Coming(t, k, r)'
    BY <1>2 DEF Coming, At, SetLabels
  <2>5. k \in Tracks(r) /\ k \notin Tracks(r)' =>
          At(t, "delete")' /\ frame'[t].victim = k
    <3> SUFFICES ASSUME k \in Tracks(r), k \notin Tracks(r)'
                 PROVE  At(t, "delete")' /\ frame'[t].victim = k
      OBVIOUS
    <3>1. CASE LruOnSetPop(t)
      <4>1. k = LruOldest
        BY <1>1, <3>1, HookTracks
      <4> QED BY <1>1, <3>1, <4>1, RulesStay DEF LruOnSetPop, Effect, At, TaskOK, TaskFrame
    <3>2. CASE ~LruOnSetPop(t)
      <4>1. LruOnSetLen(t) \/ MaxOnSetIn(t) \/ MaxOnSetLen(t) => UNCHANGED ruleState
        BY DEF LruOnSetLen, MaxOnSetIn, MaxOnSetLen
      <4> QED BY <1>1, <3>2, <4>1, HookTracks DEF SetHook
    <3> QED BY <3>1, <3>2
  <2>6. Storing(t, k, r)' /\ Eligible(r) => Storing(t, k, r) \/ k \in Tracks(r)'
    <3> SUFFICES ASSUME Storing(t, k, r)', Eligible(r), ~Storing(t, k, r) PROVE k \in Tracks(r)'
      OBVIOUS
    <3>1. k = frame[t].key /\ frame[t].i = Position(r) /\ At(t, "on_set") /\ r # "max"
      BY <1>1, <1>2 DEF Storing, At, Eligible
    <3>2. CASE frame'[t].pc = "delete"
      <4>1. LruOnSetPop(t) \/ MaxOnSetLen(t)
        BY <1>1, <3>2, RulesStay DEF SetHook, LruOnSetInsert, LruOnSetMove, LruOnSetLen, MaxOnSetIn,
           MaxOnSetAdd, LifeOnSet, Goto, NextOuter, TaskOK, TaskFrame
      <4> QED BY <3>1, <4>1 DEF LruOnSetPop, MaxOnSetLen, At
    <3>3. CASE frame'[t].pc # "delete"
      <4>1. (LruOnSetInsert(t) /\ r = "lru") \/ (LifeOnSet(t) /\ r = "life")
        BY <1>1, <1>2, <3>1, <3>3 DEF InRule
      <4> QED BY <1>1, <3>1, <4>1, HookTracks
    <3> QED BY <3>2, <3>3
  <2>7. At(t, "delete")' /\ frame'[t].victim = k => RemovalUnderWay(t, k)'
    BY DEF RemovalUnderWay, At
  <2>8. Busy(frame[t])
    BY <1>2 DEF Busy, SetLabels, Awaiting
  <2> QED BY <2>1, <2>2, <2>3, <2>4, <2>5, <2>6, <2>7, <2>8 DEF RuleFacts
<1> QED BY <1>4, <1>5 DEF StepFacts

(* The hooks of get: only the life-time rule forgets a key, and evicts it. *)
LEMMA GetHookFacts ==
  ASSUME TypeIInv, NEW t \in Threads, TaskStep(t), GetHook(t), UNCHANGED <<cache, spare>>,
         NEW k \in Keys
  PROVE  StepFacts(t, k)
<1>1. TaskOK(frame[t]) /\ \A r \in Active : r \in RuleKinds
  BY RulesStay
<1>2. /\ frame[t].op = "get" /\ frame[t].pc \in GetLabels
      /\ frame'[t].op = "get" /\ frame'[t].key = frame[t].key
      /\ \/ frame'[t].pc \in GetLabels
         \/ /\ frame'[t].pc = "delete" /\ frame'[t].victim = frame[t].key
            /\ LifeOnGetCheck(t) /\ LifeForget(frame[t].key)
  BY GetHookMoves
<1>3. Stored(k)' <=> Stored(k)
  BY DEF Stored
<1>4. ServerFacts(t, k)
  BY <1>2, <1>3 DEF ServerFacts, RemovalMade, At, GetLabels
<1>5. ASSUME NEW r \in Active PROVE RuleFacts(t, k, r)
  <2>1. ~Storing(t, k, r) /\ ~Storing(t, k, r)' /\ ~Coming(t, k, r)
    BY <1>2 DEF Storing, Coming
  <2>2. ~Untold(t, k, r) /\ Busy(frame[t])
    BY <1>2 DEF Untold, At, GetLabels, Busy, Awaiting
  <2>3. \/ Tracks(r)' = Tracks(r)
        \/ /\ Tracks(r)' = Tracks(r) \ {frame[t].key}
           /\ frame'[t].pc = "delete" /\ frame'[t].victim = frame[t].key
    <3>1. CASE LifeOnGetCheck(t)
      <4>1. CASE LifeForget(frame[t].key) /\ Effect(t, frame[t].key)
        <5>1. frame'[t].pc = "delete" /\ frame'[t].victim = frame[t].key
          BY <4>1, RulesStay DEF Effect, TaskFrame
        <5> QED BY <1>1, <3>1, <4>1, <5>1, HookTracks DEF RuleKinds
      <4>2. CASE UNCHANGED expiryTimes
        BY <1>1, <3>1, <4>2, HookTracks DEF LifeOnGetCheck, ruleState
      <4> QED BY <3>1, <4>1, <4>2 DEF LifeOnGetCheck
    <3>2. CASE LruOnGetMove(t)
      BY <1>1, <3>2, HookTracks
    <3>3. CASE LruOnGetIn(t) \/ MaxOnGet(t) \/ LifeOnGetRead(t)
      BY <1>1, <3>3, HookTracks DEF LruOnGetIn, MaxOnGet, LifeOnGetRead
    <3> QED BY <3>1, <3>2, <3>3 DEF GetHook
  <2> QED BY <2>1, <2>2, <2>3 DEF RuleFacts, RemovalUnderWay, At
<1> QED BY <1>4, <1>5 DEF StepFacts

(* The hooks of a removal: each rule forgets what was removed. *)
LEMMA RemovalHookFacts ==
  ASSUME TypeIInv, NEW t \in Threads, TaskStep(t), UNCHANGED <<cache, spare>>, NEW k \in Keys,
         \/ LruOnEvict(t) \/ MaxOnEvict(t) \/ LifeOnEvict(t)
         \/ LruOnClear(t) \/ MaxOnClear(t) \/ LifeOnClear(t)
  PROVE  StepFacts(t, k)
<1>1. /\ \A r : Position(r)' = Position(r)
      /\ \A r \in Active :
              /\ r \in RuleKinds /\ Position(r) \in 1..Len(rules) /\ Len(rules) \in Nat
              /\ rules[Position(r)] = r
      /\ TaskOK(frame[t]) /\ frame[t] \in TaskFrame /\ DOMAIN frame = Threads
  BY RulesStay DEF TaskOK
<1>2. PICK s \in RuleKinds :
        /\ frame[t].j \in DOMAIN rules /\ rules[frame[t].j] = s
        /\ \/ frame[t].pc = "on_evict" /\ Tracks(s)' = Tracks(s) \ {frame[t].victim}
           \/ frame[t].pc = "on_clear" /\ Tracks(s)' = {}
        /\ \A r \in RuleKinds \ {s} : Tracks(r)' = Tracks(r)
        /\ NextInner(t)
  <2>1. CASE LruOnEvict(t) \/ LruOnClear(t)
    BY <1>1, <2>1, HookTracks DEF LruOnEvict, LruOnClear, Inner, At, RuleKinds
  <2>2. CASE MaxOnEvict(t) \/ MaxOnClear(t)
    BY <1>1, <2>2, HookTracks DEF MaxOnEvict, MaxOnClear, Inner, At, RuleKinds
  <2>3. CASE LifeOnEvict(t) \/ LifeOnClear(t)
    BY <1>1, <2>3, HookTracks DEF LifeOnEvict, LifeOnClear, Inner, At, RuleKinds
  <2> QED BY <2>1, <2>2, <2>3
<1>3. /\ frame'[t].pc = frame[t].pc /\ frame'[t].op = frame[t].op /\ frame'[t].key = frame[t].key
      /\ frame'[t].victim = frame[t].victim /\ frame'[t].i = frame[t].i
      /\ frame[t].j \in Nat /\ frame'[t].j = frame[t].j + 1
  BY <1>1, <1>2 DEF NextInner, TaskFrame
<1>4. /\ frame[t].pc = "on_clear" => frame[t].op = "clear"
      /\ frame[t].pc = "on_evict" => frame[t].op # "clear"
      /\ frame[t].i \in Nat
  BY <1>1 DEF TaskOK, CallOK, TaskFrame, SetLabels, GetLabels, Awaiting
<1>5. Stored(k)' <=> Stored(k)
  BY DEF Stored
<1>6. RemovalUnderWay(t, k)' <=> RemovalUnderWay(t, k)
  BY <1>3 DEF RemovalUnderWay
<1>7. ServerFacts(t, k)
  BY <1>2, <1>3, <1>5, <1>6 DEF ServerFacts, RemovalMade, At
<1>8. ASSUME NEW r \in Active PROVE RuleFacts(t, k, r)
  <2>1. /\ Coming(t, k, r)' <=> Coming(t, k, r)
        /\ Storing(t, k, r)' <=> Storing(t, k, r)
    BY <1>1, <1>3 DEF Storing, Coming, At
  <2>2. Tracks(r)' \subseteq Tracks(r)
    BY <1>1, <1>2
  <2>3. k \in Tracks(r) /\ k \notin Tracks(r)' => RemovalUnderWay(t, k)
    BY <1>1, <1>2, <1>4 DEF RemovalUnderWay
  <2>4. Busy(frame[t]) /\ (RemovalUnderWay(t, k) => RemovalMade(t, k))
    BY <1>2 DEF Busy, Awaiting, RemovalMade
  <2>5. Untold(t, k, r) /\ k \in Tracks(r)' => Untold(t, k, r)'
    <3> SUFFICES ASSUME Untold(t, k, r), k \in Tracks(r)' PROVE Untold(t, k, r)'
      OBVIOUS
    <3>1. RemovalUnderWay(t, k) /\ frame[t].j <= Position(r)
      BY <1>2 DEF Untold, At
    <3>2. s # r
      <4>1. frame[t].pc = "on_evict" => frame[t].victim = k
        BY <1>4, <3>1 DEF RemovalUnderWay
      <4> QED BY <1>2, <4>1
    <3>3. frame[t].j # Position(r)
      BY <1>1, <1>2, <3>2
    <3>4. frame'[t].j <= Position(r)
      BY <1>1, <1>3, <3>1, <3>3
    <3> QED BY <1>1, <1>2, <1>3, <1>6, <3>1, <3>4 DEF Untold
  <2> QED BY <1>6, <2>1, <2>2, <2>3, <2>4, <2>5 DEF RuleFacts
<1> QED BY <1>7, <1>8 DEF StepFacts

(* A side effect is done: the loop of set or get goes on. *)
LEMMA EffectDoneFacts ==
  ASSUME TypeIInv, NEW t \in Threads, TaskStep(t), UNCHANGED <<cache, spare>>, NEW k \in Keys,
         EffectDone(t)
  PROVE  StepFacts(t, k)
<1>1. /\ \A r : Position(r)' = Position(r)
      /\ \A r \in Active :
              r \in RuleKinds /\ Position(r) \in 1..Len(rules) /\ Len(rules) \in Nat
      /\ TaskOK(frame[t]) /\ frame[t] \in TaskFrame /\ DOMAIN frame = Threads
  BY RulesStay DEF TaskOK
<1>2. /\ frame[t].pc = "on_evict" /\ frame[t].op \in {"set", "get"}
      /\ frame[t].j > Len(rules) /\ frame[t].j \in Nat /\ frame[t].i \in Nat
  BY <1>1 DEF EffectDone, InnerDone, At, TaskFrame
<1>3. /\ frame'[t].pc \in {"on_set", "on_get"} /\ frame'[t].op = frame[t].op
      /\ frame'[t].key = frame[t].key /\ frame'[t].i = frame[t].i + 1
      /\ frame[t].op = "set" => frame'[t].pc = "on_set"
  BY <1>1 DEF EffectDone, TaskFrame
<1>4. Stored(k)' <=> Stored(k)
  BY DEF Stored
<1>5. ServerFacts(t, k)
  BY <1>2, <1>3, <1>4 DEF ServerFacts, RemovalMade, At
<1>6. ASSUME NEW r \in Active PROVE RuleFacts(t, k, r)
  <2>1. /\ Coming(t, k, r) => Coming(t, k, r)'
        /\ Storing(t, k, r)' => Storing(t, k, r)
    BY <1>1, <1>2, <1>3 DEF Storing, Coming, At
  <2>2. Tracks(r)' = Tracks(r)
    BY <1>1, HookTracks DEF EffectDone
  <2>3. ~Untold(t, k, r)
    BY <1>1, <1>2 DEF Untold, At
  <2> QED BY <2>1, <2>2, <2>3 DEF RuleFacts
<1> QED BY <1>5, <1>6 DEF StepFacts

(* Each step of a task has the facts. *)
LEMMA TaskFacts ==
  ASSUME TypeIInv, NEW t \in Threads, TaskStep(t), NEW k \in Keys, spare[k] = <<>>,
         Fail(t) => k \notin KeysOf(t)
  PROVE  StepFacts(t, k)
<1>1. CASE Hooks(t)
  <2>1. UNCHANGED <<cache, spare>>
    BY <1>1 DEF Hooks, serverState
  <2> QED BY <1>1, <2>1, SetHookFacts, GetHookFacts, RemovalHookFacts, EffectDoneFacts
          DEF Hooks, SetHook, GetHook
<1> QED BY <1>1, CallFacts, EndFacts, SendFacts, ResumeFacts, ServeFacts, EffectFacts DEF TaskStep, Run

(* What popitem pops for a set is not the key at the other end. *)
LEMMA PoppedIsOther ==
  ASSUME LruOK, accessOrder # <<>>, LruOverfull
  PROVE  LruOldest # accessOrder[Len(accessOrder)]
<1>1. accessOrder \in Seq(Keys) /\ IsInjective(accessOrder) /\ Len(accessOrder) > 1
  BY LruAssumption, LenProperties DEF LruOK, LruOverfull
<1>2. LruOldest = accessOrder[1] /\ DOMAIN accessOrder = 1..Len(accessOrder)
  BY <1>1, HeadTailProperties, LenProperties DEF LruOldest
<1> QED BY <1>1, <1>2 DEF IsInjective

LEMMA OtherVictimSet ==
  ASSUME TypeIInv, NEW t \in Threads, TaskStep(t), SetHook(t), OtherVictim(t)
  PROVE  OtherVictim(t)'
<1>1. /\ TaskOK(frame[t]) /\ frame[t] \in TaskFrame /\ DOMAIN frame = Threads /\ LruOK
      /\ frame[t].key \in Keys /\ frame'[t].key = frame[t].key /\ rules' = rules
      /\ DOMAIN rules = DOMAIN rules'
  BY RulesStay, SetHookMoves DEF TypeIInv, RuleStateOK, TaskOK, CallOK
<1> USE <1>1 DEF TaskFrame, Goto, NextOuter, Effect
<1>2. CASE LruOnSetInsert(t)
  <2>1. frame'[t].pc = "lru_move" /\ frame[t].key \in LruTracked'
    BY <1>2, LruOps DEF LruOnSetInsert
  <2> QED BY <2>1 DEF OtherVictim, At
<1>3. CASE LruOnSetMove(t)
  <2> DEFINE w == Without(frame[t].key)
  <2>1. w \in Seq(Keys) /\ accessOrder' = Append(w, frame[t].key)
    BY <1>3, RemoveFirstProperties DEF LruOnSetMove, LruMoveToEnd, Without, LruOK
  <2>2. frame'[t].pc = "lru_len"
    BY <1>3 DEF LruOnSetMove
  <2> HIDE DEF w
  <2>3. Len(accessOrder') = Len(w) + 1 /\ accessOrder'[Len(w) + 1] = frame[t].key
    BY <2>1
  <2>4. accessOrder' # <<>>
    BY <2>1
  <2> QED BY <2>2, <2>3, <2>4 DEF OtherVictim, At
<1>4. CASE LruOnSetLen(t)
  <2>1. /\ frame[t].pc = "lru_len" /\ accessOrder' = accessOrder
        /\ \/ frame'[t].pc = "lru_pop" /\ LruOverfull
           \/ frame'[t].pc = "on_set"
    BY <1>4 DEF LruOnSetLen, ruleState, At
  <2> QED BY <2>1 DEF OtherVictim, At, LruOverfull
<1>5. CASE LruOnSetPop(t)
  <2>1. /\ frame'[t].victim = LruOldest /\ frame'[t].i = frame[t].i
        /\ frame'[t].pc = "delete" /\ frame[t].pc = "lru_pop" /\ accessOrder # <<>>
    BY <1>5 DEF LruOnSetPop, At
  <2>2. LruOldest # frame[t].key
    BY <2>1, PoppedIsOther DEF OtherVictim, At
  <2>3. InRule(t, "lru")'
    BY <2>1 DEF TaskOK, HookOK, InRule
  <2> QED BY <2>1, <2>2, <2>3 DEF OtherVictim, At
<1>6. CASE MaxOnSetLen(t)
  <2>1. /\ frame[t].pc = "max_len" /\ frame'[t].i = frame[t].i
        /\ frame'[t].pc \in {"delete", "max_add"}
    BY <1>6 DEF MaxOnSetLen, At
  <2>2. InRule(t, "max")'
    BY <2>1 DEF TaskOK, HookOK, InRule
  <2> QED BY <2>1, <2>2 DEF OtherVictim, At
<1>7. CASE MaxOnSetIn(t) \/ MaxOnSetAdd(t) \/ LifeOnSet(t)
  <2>1. frame'[t].pc \in {"on_set", "max_len"}
    BY <1>7 DEF MaxOnSetIn, MaxOnSetAdd, LifeOnSet, Outer, At
  <2> QED BY <2>1 DEF OtherVictim, At
<1> QED BY <1>2, <1>3, <1>4, <1>5, <1>6, <1>7 DEF SetHook

LEMMA OtherVictimStep ==
  ASSUME TypeIInv, NEW t \in Threads, TaskStep(t), OtherVictim(t)
  PROVE  OtherVictim(t)'
<1>1. /\ TaskOK(frame[t]) /\ frame[t] \in TaskFrame /\ DOMAIN frame = Threads /\ rules' = rules
  BY RulesStay DEF TaskOK
<1>2. ASSUME frame'[t].pc \notin {"lru_move", "lru_len", "lru_pop"},
             \/ frame'[t].op # "set" \/ frame'[t].pc \notin {"delete", "on_evict"}
             \/ /\ frame'[t].op = frame[t].op /\ frame'[t].key = frame[t].key
                /\ frame'[t].i = frame[t].i /\ frame'[t].victim = frame[t].victim
                /\ frame[t].pc \in {"delete", "on_evict"}
      PROVE  OtherVictim(t)'
  BY <1>1, <1>2 DEF OtherVictim, InRule, At
<1>3. CASE SetHook(t)
  BY <1>3, OtherVictimSet
<1>4. CASE GetHook(t)
  BY <1>2, <1>4, GetHookMoves DEF GetLabels
<1>5. CASE \/ LruOnEvict(t) \/ MaxOnEvict(t) \/ LifeOnEvict(t)
           \/ LruOnClear(t) \/ MaxOnClear(t) \/ LifeOnClear(t)
  <2>1. NextInner(t) /\ frame[t].pc \in {"on_evict", "on_clear"}
    BY <1>5 DEF LruOnEvict, MaxOnEvict, LifeOnEvict, LruOnClear, MaxOnClear, LifeOnClear, Inner, At
  <2> QED BY <1>1, <1>2, <2>1 DEF NextInner, TaskFrame
<1>6. CASE EffectDone(t) \/ SendSet(t)
  <2>1. frame'[t].pc \in {"on_set", "on_get", "sent"}
    BY <1>1, <1>6 DEF EffectDone, SendSet, TaskFrame
  <2> QED BY <1>2, <2>1
<1>7. CASE EvictInEffect(t)
  BY <1>1, <1>2, <1>7 DEF EvictInEffect, TaskFrame, At
<1>8. CASE Finish(t) \/ Fail(t)
  BY <1>2, <1>8, EndTaskOK DEF Idle
<1>9. CASE Resume(t)
  <2>1. ASSUME NEW f, Resumed(t, f) PROVE frame'[t] = f
    BY <1>1, <2>1 DEF Resumed
  <2>2. CASE SetAnswered(t)
    BY <1>2, <2>1, <2>2 DEF SetAnswered, Idle
  <2>3. CASE GetAnswered(t)
    BY <1>1, <1>2, <2>1, <2>3 DEF GetAnswered, Idle, TaskFrame
  <2>4. CASE EvictAnswered(t) \/ ClearAnswered(t)
    BY <1>1, <1>2, <2>1, <2>4 DEF EvictAnswered, ClearAnswered, TaskFrame
  <2> QED BY <1>9, <2>2, <2>3, <2>4 DEF Resume
<1>10. CASE Serve(t)
  <2>1. frame'[t].pc \in Awaiting \cup {"idle"}
    BY <1>10, ServeTaskOK DEF Busy
  <2> QED BY <1>2, <2>1 DEF Awaiting
<1>11. CASE PCall(t)
  <2>1. ASSUME NEW k \in Keys, NEW v \in Values, NEW ttl \in TTLs, ASet(t, k, v, ttl)
        PROVE  frame'[t].pc = "on_set"
    BY <1>1, <2>1 DEF ASet, Set
  <2>2. ASSUME NEW f, Request(t, f) PROVE frame'[t] = f
    BY <1>1, <2>2 DEF Request
  <2>3. \A k \in Keys : AGet(t, k) \/ AEvict(t, k) => frame'[t].pc = "sent"
    BY <2>2 DEF AGet, AEvict, Idle
  <2>4. AClear(t) => frame'[t].pc = "sent"
    BY <2>2 DEF AClear, Idle
  <2>5. frame'[t].pc \in {"on_set", "sent"}
    BY <1>11, <2>1, <2>3, <2>4 DEF PCall
  <2> QED BY <1>2, <2>5
<1> QED BY <1>3, <1>4, <1>5, <1>6, <1>7, <1>8, <1>9, <1>10, <1>11
        DEF TaskStep, Run, Hooks, SetHook, GetHook

(* Another task's step leaves them alone: no other task runs between the    *)
(* hooks of this one.                                                       *)
LEMMA OtherVictimOthers ==
  ASSUME TypeIInv, NEW t \in Threads, TaskStep(t), NEW u \in Threads \ {t}, OtherVictim(u)
  PROVE  OtherVictim(u)'
<1>1. frame'[u] = frame[u] /\ rules' = rules /\ TaskOK(frame[u])
      /\ (running = u <=> Busy(frame[u])) /\ None \notin Threads
  BY RulesStay, TasksAssumption DEF TypeIInv, TasksOK
<1>2. CASE running = u
  <2>1. Serve(t)
    BY <1>1, <1>2 DEF TaskStep, PCall, ASet, AGet, AEvict, AClear, Request, Calling, Run, Hooks,
       SendSet, Finish, EvictInEffect, Resume, SetAnswered, GetAnswered, EvictAnswered,
       ClearAnswered, Resumed, Fail, SetRaises, EvictInEffectRaises, CallRaises
  <2>2. UNCHANGED accessOrder
    BY <2>1 DEF Serve, RedisSets, MongoUpdates, MongoUpserts, MongoFindsNone, MongoInserts,
       ServerGets, ServerEvicts, ServerClears, Executed, ruleState
  <2> QED BY <1>1, <2>2 DEF OtherVictim, At, InRule, LruTracked, LruOverfull
<1>3. CASE running # u
  <2>1. frame[u].pc \in Awaiting \cup {"idle"}
    BY <1>1, <1>3 DEF Busy
  <2> QED BY <1>1, <2>1 DEF OtherVictim, At, Awaiting
<1> QED BY <1>2, <1>3

(* At the beginning, and after a restart, nothing is known of a key that is *)
(* not stored.                                                              *)
Unknown(k) ==
  /\ \A t \in Threads : frame[t] = Idle
  /\ rules \in RuleLists /\ accessOrder = <<>> /\ admitted = {} /\ DOMAIN expiryTimes = {}
  /\ ~Stored(k) /\ spare[k] = <<>>

UnknownKeysAgree == \A k \in Keys : Unknown(k) => KeyInv(k)

LEMMA UnknownAgrees == UnknownKeysAgree
<1> SUFFICES ASSUME NEW k \in Keys, Unknown(k) PROVE KeyInv(k)
  BY DEF UnknownKeysAgree
<1> USE DEF Unknown
<1>1. \A t \in Threads : /\ frame[t].op = "none" /\ frame[t].pc = "idle"
                         /\ frame[t].victim = None /\ frame[t].victim # k
  BY NoneAssumption DEF Idle
<1>2. \A r \in Active : r \in RuleKinds
  BY OnePosition
<1>3. \A r \in Active : Tracks(r) = {}
  BY <1>2 DEF Tracks, RuleKinds, LruTracked, ToSet
<1>4. ServerOf(k)
  BY <1>1 DEF ServerOf, Clash, SetUnderWay, RemovalMade, At
<1>5. NoPhantom(k)
  BY <1>3 DEF NoPhantom
<1>6. NoOrphan(k)
  BY <1>1 DEF NoOrphan, Storing
<1> QED BY <1>4, <1>5, <1>6 DEF KeyInv

LEMMA UndisturbedInit == HInit => UndisturbedIInv
<1> SUFFICES ASSUME HInit PROVE UndisturbedIInv
  OBVIOUS
<1>1. TypeIInv /\ disturbed = {}
  BY TypeIInvInit
<1>2. /\ frame = [t \in Threads |-> Idle] /\ accessOrder = <<>> /\ admitted = {}
      /\ DOMAIN expiryTimes = {} /\ DOMAIN cache = {} /\ spare = NoSpare
  BY DEF HInit, PInit, Init, InMemoryInit, LruInit, HardInit, LifeInit
<1>3. \A t \in Threads : OtherVictim(t)
  BY <1>2 DEF OtherVictim, Idle, At
<1>4. \A k \in Keys : KeyInv(k)
  BY <1>1, <1>2, UnknownAgrees DEF UnknownKeysAgree, Unknown, TypeIInv, Stored, NoSpare
<1>5. abandoned = {}
  BY DEF HInit, PInit
<1> QED BY <1>1, <1>3, <1>4, <1>5 DEF UndisturbedIInv

(* A step that leaves alone the rules, the tasks and, of the store, what    *)
(* nothing has disturbed.                                                   *)
LEMMA UndisturbedSame ==
  ASSUME UndisturbedIInv, TypeIInv', disturbed \subseteq disturbed', disturbed' \subseteq Keys,
         \A q \in abandoned' : Concerns(q) \subseteq disturbed',
         \A k \in Keys \ disturbed : (Stored(k)' <=> Stored(k)) /\ spare'[k] = spare[k],
         UNCHANGED <<ruleState, rules, frame, indexed>>
  PROVE  UndisturbedIInv'
<1>1. \A r : Tracks(r)' = Tracks(r)
  <2>1. LruTracked' = LruTracked
    BY DEF LruTracked, ruleState
  <2> QED BY <2>1 DEF Tracks, ruleState
<1>2. Active' = Active /\ \A r : Position(r)' = Position(r) /\ Eligible(r)' = Eligible(r)
  <2>1. Active' = Active /\ \A r : Position(r)' = Position(r)
    BY DEF Active, Position
  <2> QED BY <2>1 DEF Eligible, Precedes
<1>3. \A t, k : /\ SetUnderWay(t, k)' <=> SetUnderWay(t, k)
                /\ RemovalUnderWay(t, k)' <=> RemovalUnderWay(t, k)
                /\ RemovalMade(t, k)' <=> RemovalMade(t, k)
                /\ \A pc : At(t, pc)' <=> At(t, pc)
                /\ \A r : /\ Storing(t, k, r)' <=> Storing(t, k, r)
                          /\ Coming(t, k, r)' <=> Coming(t, k, r)
                          /\ Untold(t, k, r)' <=> Untold(t, k, r)
  BY <1>2 DEF SetUnderWay, RemovalUnderWay, RemovalMade, At, Storing, Coming, Untold
<1>4. ASSUME NEW k \in Keys \ disturbed, KeyInv(k) PROVE KeyInv(k)'
  <2>1. ServerOf(k)'
    BY <1>3, <1>4 DEF KeyInv, ServerOf, Clash
  <2>2. NoPhantom(k)'
    BY <1>1, <1>2, <1>3, <1>4 DEF KeyInv, NoPhantom
  <2>3. NoOrphan(k)'
    BY <1>1, <1>2, <1>3, <1>4 DEF KeyInv, NoOrphan
  <2> QED BY <2>1, <2>2, <2>3 DEF KeyInv
<1>5. \A t \in Threads : OtherVictim(t)'
  BY DEF UndisturbedIInv, OtherVictim, At, InRule, LruTracked, LruOverfull, ruleState
<1> QED BY <1>4, <1>5 DEF UndisturbedIInv

(* A request concerns the keys its task was about when it abandoned it, *)
LEMMA LeftConcerns ==
  ASSUME TypeIInv, NEW t \in Threads, UnderWay(t)
  PROVE  Concerns(Left(t)) \subseteq KeysOf(t)
<1>1. TaskOK(frame[t])
  BY DEF TypeIInv, TasksOK
<1> QED BY <1>1 DEF TaskOK, CallOK, TaskFrame, UnderWay, Left, Concerns, KeysOf, RemovalUnderWay, At,
            Awaiting, SetLabels, GetLabels

(* and changes no others. *)
LEMMA LateElsewhere ==
  ASSUME TypeIInv, NEW q, LateServe(q), NEW k \in Keys \ Concerns(q)
  PROVE  (Stored(k)' <=> Stored(k)) /\ spare'[k] = spare[k]
<1>1. spare \in [Keys -> Seq(Entry)] /\ backend \in {"redis", "mongodb"}
  BY DEF TypeIInv, ServerOK, DocumentsOK, Spares
<1>2. CASE LateClear(q)
  BY <1>2 DEF LateClear, Concerns
<1>3. CASE LateEvict(q)
  BY <1>1, <1>3 DEF LateEvict, Concerns, Evicted, RedisEvict, RedisAEvict, MongoEvict, MongoAEvict,
     Restrict, Stored
<1>4. CASE LateRedisSet(q) \/ LateFindsNone(q)
  BY <1>4 DEF LateRedisSet, RedisASet, LateFindsNone, Concerns, Stored
<1>5. CASE LateUpdate(q)
  BY <1>5 DEF LateUpdate, UpdateOne, Stored
<1>6. CASE LateInsert(q)
  BY <1>1, <1>6 DEF LateInsert, InsertOne, Concerns, Stored
<1> QED BY <1>2, <1>3, <1>4, <1>5, <1>6 DEF LateServe

LEMMA UndisturbedStep == UndisturbedIInv /\ [HNext]_hvars => UndisturbedIInv'
<1> SUFFICES ASSUME UndisturbedIInv, [HNext]_hvars PROVE UndisturbedIInv'
  OBVIOUS
<1>1. TypeIInv /\ TypeIInv'
  BY TypeIInvStep DEF UndisturbedIInv
<1>2. /\ DOMAIN cache \subseteq Keys /\ \A t : KeysOf(t) \subseteq Keys
      /\ \A q \in abandoned' : Concerns(q) \subseteq Keys
  BY <1>1 DEF TypeIInv, ServerOK, DocumentsOK, InMemoryTypeOK, KeysOf, AbandonedOK, RequestOK, Concerns
<1>3. ASSUME NEW t \in Threads, TaskStep(t), HNext PROVE UndisturbedIInv'
  <2>1. disturbed' = {k \in Keys : Clash(k)'} \cup
          (disturbed \cup UNION {KeysOf(u) : u \in {u \in Threads : Fail(u)}})
    BY <1>3, Abandoning DEF HNext
  <2>2. disturbed' \subseteq Keys
    BY <1>2, <2>1 DEF UndisturbedIInv
  <2>3. \A u \in Threads : OtherVictim(u)'
    BY <1>1, <1>3, OtherVictimStep, OtherVictimOthers DEF UndisturbedIInv
  <2>4. ASSUME NEW k \in Keys \ disturbed' PROVE KeyInv(k)'
    <3>1. k \notin disturbed /\ ~Clash(k)' /\ (Fail(t) => k \notin KeysOf(t))
      BY <2>1, <2>4
    <3>2. KeyInv(k) /\ spare[k] = <<>>
      BY <3>1 DEF UndisturbedIInv, KeyInv, ServerOf
    <3>3. StepFacts(t, k)
      BY <1>1, <1>3, <3>1, <3>2, TaskFacts
    <3> QED BY <1>1, <1>3, <2>3, <3>1, <3>2, <3>3, KeyInvStep
  <2>5. ASSUME NEW q \in abandoned' PROVE Concerns(q) \subseteq disturbed'
    <3>1. CASE q \in abandoned
      BY <2>1, <3>1 DEF UndisturbedIInv
    <3>2. CASE q \notin abandoned
      <4>1. Fail(t) /\ UnderWay(t) /\ q = Left(t)
        BY <1>3, <3>2, Abandoning
      <4> QED BY <1>1, <2>1, <4>1, LeftConcerns
    <3> QED BY <3>1, <3>2
  <2> QED BY <1>1, <2>2, <2>3, <2>4, <2>5 DEF UndisturbedIInv
<1>4. ASSUME Restart, HNext PROVE UndisturbedIInv'
  <2>1. /\ frame' = [t \in Threads |-> Idle] /\ rules' = rules
        /\ accessOrder' = <<>> /\ admitted' = {} /\ LifeForgetAll
        /\ UNCHANGED <<cache, spare>> /\ restarts' = restarts + 1
    BY <1>4 DEF Restart, CheckCollection
  <2>2. /\ disturbed' \subseteq Keys /\ DOMAIN cache \subseteq disturbed'
        /\ \A q \in abandoned' : Concerns(q) \subseteq disturbed'
    <3>1. restarts' # restarts
      BY <1>1, <2>1, BoundsAssumption DEF TypeIInv, CountsOK
    <3>2. disturbed' = {k \in Keys : Clash(k)'} \cup
                         (DOMAIN cache \cup UNION {Concerns(q) : q \in abandoned'})
      BY <1>4, <3>1 DEF HNext
    <3> QED BY <1>2, <3>2
  <2>3. \A t \in Threads : OtherVictim(t)'
    BY <2>1 DEF OtherVictim, Idle, At
  <2>4. ASSUME NEW k \in Keys \ disturbed' PROVE KeyInv(k)'
    <3>1. ~Stored(k)' /\ spare'[k] = <<>>
      BY <1>1, <2>1, <2>2, <2>4 DEF Stored, TypeIInv, ServerOK, DocumentsOK
    <3>2. DOMAIN expiryTimes' = {} /\ \A t \in Threads : frame'[t] = Idle
      BY <2>1 DEF LifeForgetAll, Restrict
    <3>3. Unknown(k)'
      BY <1>1, <2>1, <3>1, <3>2 DEF TypeIInv, Unknown, Idle
    <3>4. UnknownKeysAgree'
      BY UnknownAgrees, PTL
    <3> QED BY <3>3, <3>4 DEF UnknownKeysAgree
  <2> QED BY <1>1, <2>2, <2>3, <2>4 DEF UndisturbedIInv
<1>5. ASSUME PTick, HNext PROVE UndisturbedIInv'
  <2>1. /\ UNCHANGED <<cache, ruleState, rules, frame, spare, indexed, restarts, abandoned>>
    BY <1>5 DEF PTick, Tick
  <2>2. disturbed \subseteq disturbed' /\ disturbed' \subseteq Keys
    BY <1>2, <1>5, <2>1 DEF HNext, UndisturbedIInv
  <2>3. \A q \in abandoned' : Concerns(q) \subseteq disturbed'
    BY <2>1, <2>2 DEF UndisturbedIInv
  <2> QED BY <1>1, <2>1, <2>2, <2>3, UndisturbedSame DEF Stored
<1>6. CASE UNCHANGED hvars
  <2>1. UNCHANGED <<cache, ruleState, rules, frame, spare, indexed, disturbed, abandoned>>
    BY <1>6 DEF hvars, pvars, vars, ruleState
  <2>2. \A q \in abandoned' : Concerns(q) \subseteq disturbed'
    BY <2>1 DEF UndisturbedIInv
  <2> QED BY <1>1, <2>1, <2>2, UndisturbedSame DEF UndisturbedIInv, Stored
<1>7. ASSUME NEW q, LateServe(q), HNext PROVE UndisturbedIInv'
  <2>1. q \in abandoned /\ UNCHANGED <<ruleState, rules, frame, indexed, restarts>>
    BY <1>7, LateMeansStore DEF counts
  <2>2. disturbed \subseteq disturbed' /\ disturbed' \subseteq Keys
    BY <1>2, <1>7, <2>1 DEF HNext, UndisturbedIInv
  <2>3. \A k \in Keys \ disturbed : (Stored(k)' <=> Stored(k)) /\ spare'[k] = spare[k]
    BY <1>1, <1>7, <2>1, LateElsewhere DEF UndisturbedIInv
  <2>4. ASSUME NEW w \in abandoned' PROVE Concerns(w) \subseteq disturbed'
    <3>1. CASE w \in abandoned
      BY <2>2, <3>1 DEF UndisturbedIInv
    <3>2. CASE w \notin abandoned
      <4>1. w = [q EXCEPT !.stage = "inserting"]
        BY <1>7, <3>2 DEF LateServe, LateRedisSet, LateUpdate, LateFindsNone, LateInsert, LateEvict,
           LateClear, Ended
      <4>2. q \in AbandonedRequest
        BY <1>1, <2>1 DEF TypeIInv, AbandonedOK
      <4>3. w.op = q.op /\ w.key = q.key
        BY <4>1, <4>2 DEF AbandonedRequest
      <4> QED BY <2>1, <2>2, <4>3 DEF Concerns, UndisturbedIInv
    <3> QED BY <3>1, <3>2
  <2> QED BY <1>1, <2>1, <2>2, <2>3, <2>4, UndisturbedSame
<1> QED BY <1>3, <1>4, <1>5, <1>6, <1>7 DEF HNext, PNext, TaskStep

(* At rest the rules and the server agree on every key that no failed call, *)
(* no overlap and no restart has disturbed, for any number of tasks, any    *)
(* tuple of rules and either provider, with the unique index or without it. *)
THEOREM UndisturbedKeysAgree == HSpec => []UndisturbedAgree
<1>1. UndisturbedIInv => UndisturbedAgree
  <2> SUFFICES ASSUME UndisturbedIInv, Quiet, NEW k \in Keys \ disturbed, NEW r \in Active
               PROVE  /\ k \in Tracks(r) => Stored(k)
                      /\ Stored(k) /\ r # "max" /\ ~Precedes(r, "max") => k \in Tracks(r)
    BY DEF UndisturbedAgree
  <2>1. \A t \in Threads : frame[t].pc = "idle" /\ frame[t].op = "none"
    BY DEF Quiet, At, UndisturbedIInv, TypeIInv, TasksOK, TaskOK, CallOK
  <2>2. \A t \in Threads : ~Coming(t, k, r) /\ ~Untold(t, k, r) /\ ~At(t, "delete")
    BY <2>1 DEF Coming, Storing, Untold, At
  <2>3. NoPhantom(k) /\ NoOrphan(k)
    BY DEF UndisturbedIInv, KeyInv
  <2> QED BY <2>2, <2>3 DEF NoPhantom, NoOrphan, Eligible
<1> QED BY <1>1, UndisturbedInit, UndisturbedStep, PTL DEF HSpec

=============================================================================
