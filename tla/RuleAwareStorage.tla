-------------------------- MODULE RuleAwareStorage --------------------------
(***************************************************************************)
(* RuleAwareStorage over the in-memory provider, called by any number of   *)
(* threads at once.  Cache.aget, aset, aevict and aclear run the           *)
(* synchronous methods in worker threads (asyncio.to_thread), and nothing  *)
(* in the code takes a lock, so the threads interleave between any two     *)
(* accesses to a shared dictionary.  One step of this specification is one *)
(* such access, with the thread-local control around it.                   *)
(*                                                                         *)
(* A call walks the tuple of rules.  A hook may return the side effect     *)
(* EVICT, and the decorator then runs its own evict on that key, which     *)
(* walks the rules again (on_evict), before it goes on to the next rule.   *)
(* The frame of a thread holds both positions.  With one thread the        *)
(* specification is the sequential behaviour of the code.                  *)
(***************************************************************************)
EXTENDS InMemory, LRUEvict, MaxItemsEvict, LifeTimeEvict

CONSTANTS
  Threads,     \* the threads that call the storage, a finite set
  TTLs,        \* the ttl_seconds a caller passes, at least 1 (cache.py:86)
  RuleLists,   \* the rule tuples the constructor may be given
  MaxClock     \* bound on the clock

RuleKinds == {"lru", "max", "life"}

(* At most one rule of each kind: two of a kind would share a variable. *)
ASSUME RulesAssumption ==
  \A rs \in RuleLists : rs \in Seq(RuleKinds) /\ IsInjective(rs)

ASSUME ThreadsAssumption == IsFiniteSet(Threads) /\ Threads # {}

ASSUME TTLsAssumption == TTLs \subseteq Nat \ {0}

VARIABLES
  rules,       \* self._rules
  frame        \* frame[t]: the call thread t is executing

ruleState == <<accessOrder, admitted, expiryTimes>>
vars == <<cache, clock, accessOrder, admitted, expiryTimes, rules, frame>>

Labels ==
  {"idle", "on_set", "lru_move", "lru_len", "lru_pop", "max_len", "max_add",
   "on_get", "lru_touch", "life_check", "delete", "on_evict", "on_clear"}

(* pc names the next access; i is the position in the rules of set and get, *)
(* j the one of evict and clear; victim is the last key the call evicted;   *)
(* got is the value a get has read and will return, and expired whether the *)
(* time of that entry had passed when it was read; seen is the expiry the   *)
(* life-time rule has read.                                                 *)
Idle == [pc |-> "idle", op |-> "none", key |-> None, value |-> None, ttl |-> 0,
         i |-> 0, victim |-> None, j |-> 0, got |-> None, expired |-> FALSE,
         seen |-> 0]

Init ==
  /\ InMemoryInit
  /\ LruInit
  /\ HardInit
  /\ LifeInit
  /\ rules \in RuleLists
  /\ frame = [t \in Threads |-> Idle]

(* The rule kinds in the tuple, and the position of each. *)
Active == ToSet(rules)
Position(r) == CHOOSE n \in DOMAIN rules : rules[n] = r

-----------------------------------------------------------------------------
(* Control, private to the thread. *)

At(t, pc) == frame[t].pc = pc

(* The loop of set or get has reached a rule r. *)
InRule(t, r) == frame[t].i \in DOMAIN rules /\ rules[frame[t].i] = r

(* Thread t is about to run hook pc ("on_set", "on_get") of a rule r. *)
Outer(t, pc, r) == At(t, pc) /\ InRule(t, r)

(* Thread t is about to run hook pc ("on_evict", "on_clear") of a rule r. *)
Inner(t, pc, r) ==
  At(t, pc) /\ frame[t].j \in DOMAIN rules /\ rules[frame[t].j] = r

OuterDone(t, pc) == At(t, pc) /\ frame[t].i > Len(rules)
InnerDone(t, pc) == At(t, pc) /\ frame[t].j > Len(rules)

Goto(t, pc) == frame' = [frame EXCEPT ![t].pc = pc]
Return(t) == frame' = [frame EXCEPT ![t] = Idle]

(* The hook returned None: the loop of set or get goes on. *)
NextOuter(t, pc) ==
  frame' = [frame EXCEPT ![t].pc = pc, ![t].i = @ + 1, ![t].seen = 0]

NextInner(t) == frame' = [frame EXCEPT ![t].j = @ + 1]

(* The hook returned RuleSideEffect(k, EVICT): _apply_side_effects. *)
Effect(t, k) ==
  frame' = [frame EXCEPT ![t].pc = "delete", ![t].victim = k, ![t].seen = 0]

-----------------------------------------------------------------------------
(* set(key, value, ttl_seconds) *)

Set(t, k, v, ttl) ==
  /\ At(t, "idle")
  /\ frame' = [frame EXCEPT ![t] = [Idle EXCEPT !.pc = "on_set", !.op = "set",
                                    !.key = k, !.value = v, !.ttl = ttl, !.i = 1]]
  /\ UNCHANGED <<cache, clock, ruleState, rules>>

LruOnSetInsert(t) ==
  /\ Outer(t, "on_set", "lru")
  /\ LruInsert(frame[t].key)
  /\ Goto(t, "lru_move")
  /\ UNCHANGED <<cache, clock, admitted, expiryTimes, rules>>

LruOnSetMove(t) ==
  /\ At(t, "lru_move")
  /\ frame[t].key \in LruTracked
  /\ LruMoveToEnd(frame[t].key)
  /\ Goto(t, "lru_len")
  /\ UNCHANGED <<cache, clock, admitted, expiryTimes, rules>>

(* move_to_end of a key another thread has popped raises out of set. *)
LruOnSetKeyError(t) ==
  /\ At(t, "lru_move")
  /\ frame[t].key \notin LruTracked
  /\ Return(t)
  /\ UNCHANGED <<cache, clock, ruleState, rules>>

LruOnSetLen(t) ==
  /\ At(t, "lru_len")
  /\ IF LruOverfull THEN Goto(t, "lru_pop") ELSE NextOuter(t, "on_set")
  /\ UNCHANGED <<cache, clock, ruleState, rules>>

LruOnSetPop(t) ==
  /\ At(t, "lru_pop")
  /\ accessOrder # <<>>
  /\ LruPopOldest
  /\ Effect(t, LruOldest)
  /\ UNCHANGED <<cache, clock, admitted, expiryTimes, rules>>

(* popitem of a dict other threads have emptied raises out of set. *)
LruOnSetPopKeyError(t) ==
  /\ At(t, "lru_pop")
  /\ accessOrder = <<>>
  /\ Return(t)
  /\ UNCHANGED <<cache, clock, ruleState, rules>>

MaxOnSetIn(t) ==
  /\ Outer(t, "on_set", "max")
  /\ IF frame[t].key \in admitted THEN NextOuter(t, "on_set") ELSE Goto(t, "max_len")
  /\ UNCHANGED <<cache, clock, ruleState, rules>>

MaxOnSetLen(t) ==
  /\ At(t, "max_len")
  /\ IF HardFull THEN Effect(t, frame[t].key) ELSE Goto(t, "max_add")
  /\ UNCHANGED <<cache, clock, ruleState, rules>>

MaxOnSetAdd(t) ==
  /\ At(t, "max_add")
  /\ HardAdmit(frame[t].key)
  /\ NextOuter(t, "on_set")
  /\ UNCHANGED <<cache, clock, accessOrder, expiryTimes, rules>>

LifeOnSet(t) ==
  /\ Outer(t, "on_set", "life")
  /\ LifeRecord(frame[t].key, clock + frame[t].ttl)
  /\ NextOuter(t, "on_set")
  /\ UNCHANGED <<cache, clock, accessOrder, admitted, rules>>

(* The loop is over: self._storage.set, and set returns. *)
Store(t) ==
  /\ OuterDone(t, "on_set")
  /\ StorageSet(frame[t].key, frame[t].value, frame[t].ttl)
  /\ Return(t)
  /\ UNCHANGED <<clock, ruleState, rules>>

-----------------------------------------------------------------------------
(* get(key), of a key that is stored; a miss returns None and changes nothing *)

Get(t, k) ==
  /\ At(t, "idle")
  /\ Stored(k)
  /\ frame' = [frame EXCEPT ![t] =
                 [Idle EXCEPT !.pc = "on_get", !.op = "get", !.key = k, !.i = 1,
                              !.got = cache[k].value,
                              !.expired = LifeExpired(cache[k].expiry, clock)]]
  /\ UNCHANGED <<cache, clock, ruleState, rules>>

LruOnGetIn(t) ==
  /\ Outer(t, "on_get", "lru")
  /\ IF frame[t].key \in LruTracked THEN Goto(t, "lru_touch") ELSE NextOuter(t, "on_get")
  /\ UNCHANGED <<cache, clock, ruleState, rules>>

(* Mutant: a read does not count as a use. *)
LruOnGetMoveNothing(t) ==
  /\ At(t, "lru_touch")
  /\ frame[t].key \in LruTracked
  /\ NextOuter(t, "on_get")
  /\ UNCHANGED <<cache, clock, ruleState, rules>>

LruOnGetMove(t) ==
  /\ At(t, "lru_touch")
  /\ frame[t].key \in LruTracked
  /\ LruMoveToEnd(frame[t].key)
  /\ NextOuter(t, "on_get")
  /\ UNCHANGED <<cache, clock, admitted, expiryTimes, rules>>

(* The key was popped between the test and move_to_end: get raises. *)
LruOnGetKeyError(t) ==
  /\ At(t, "lru_touch")
  /\ frame[t].key \notin LruTracked
  /\ Return(t)
  /\ UNCHANGED <<cache, clock, ruleState, rules>>

MaxOnGet(t) ==
  /\ Outer(t, "on_get", "max")
  /\ NextOuter(t, "on_get")
  /\ UNCHANGED <<cache, clock, ruleState, rules>>

LifeOnGetRead(t) ==
  /\ Outer(t, "on_get", "life")
  /\ IF frame[t].key \in DOMAIN expiryTimes
     THEN frame' = [frame EXCEPT ![t].pc = "life_check",
                                 ![t].seen = expiryTimes[frame[t].key]]
     ELSE NextOuter(t, "on_get")
  /\ UNCHANGED <<cache, clock, ruleState, rules>>

(* Mutant: the side effect is not returned. *)
LifeOnGetCheckSilent(t) ==
  /\ At(t, "life_check")
  /\ IF LifeExpired(frame[t].seen, clock)
     THEN LifeForget(frame[t].key)
     ELSE UNCHANGED expiryTimes
  /\ NextOuter(t, "on_get")
  /\ UNCHANGED <<cache, clock, accessOrder, admitted, rules>>

LifeOnGetCheck(t) ==
  /\ At(t, "life_check")
  /\ IF LifeExpired(frame[t].seen, clock)
     THEN LifeForget(frame[t].key) /\ Effect(t, frame[t].key)
     ELSE UNCHANGED expiryTimes /\ NextOuter(t, "on_get")
  /\ UNCHANGED <<cache, clock, accessOrder, admitted, rules>>

(* get returns the tuple it read before the rules ran, expired or not. *)
GetReturn(t) ==
  /\ OuterDone(t, "on_get")
  /\ Return(t)
  /\ UNCHANGED <<cache, clock, ruleState, rules>>

-----------------------------------------------------------------------------
(* evict(key), called by a client or by _apply_side_effects *)

(* Mutant: the rules are told and the entry stays. *)
EvictRulesOnly(t, k) ==
  /\ At(t, "idle")
  /\ frame' = [frame EXCEPT ![t] = [Idle EXCEPT !.pc = "on_evict", !.op = "evict",
                                    !.victim = k, !.j = 1]]
  /\ UNCHANGED <<cache, clock, ruleState, rules>>

Evict(t, k) ==
  /\ At(t, "idle")
  /\ StorageEvict(k)
  /\ frame' = [frame EXCEPT ![t] = [Idle EXCEPT !.pc = "on_evict", !.op = "evict",
                                    !.victim = k, !.j = 1]]
  /\ UNCHANGED <<clock, ruleState, rules>>

EffectEvict(t) ==
  /\ At(t, "delete")
  /\ StorageEvict(frame[t].victim)
  /\ frame' = [frame EXCEPT ![t].pc = "on_evict", ![t].j = 1]
  /\ UNCHANGED <<clock, ruleState, rules>>

LruOnEvict(t) ==
  /\ Inner(t, "on_evict", "lru")
  /\ LruForget(frame[t].victim)
  /\ NextInner(t)
  /\ UNCHANGED <<cache, clock, admitted, expiryTimes, rules>>

MaxOnEvict(t) ==
  /\ Inner(t, "on_evict", "max")
  /\ HardForget(frame[t].victim)
  /\ NextInner(t)
  /\ UNCHANGED <<cache, clock, accessOrder, expiryTimes, rules>>

LifeOnEvict(t) ==
  /\ Inner(t, "on_evict", "life")
  /\ LifeForget(frame[t].victim)
  /\ NextInner(t)
  /\ UNCHANGED <<cache, clock, accessOrder, admitted, rules>>

EvictReturn(t) ==
  /\ InnerDone(t, "on_evict")
  /\ frame[t].op = "evict"
  /\ Return(t)
  /\ UNCHANGED <<cache, clock, ruleState, rules>>

(* The side effect is done: back in the loop of set or get, at the next rule. *)
EffectDone(t) ==
  /\ InnerDone(t, "on_evict")
  /\ frame[t].op \in {"set", "get"}
  /\ frame' = [frame EXCEPT ![t].pc = IF frame[t].op = "set" THEN "on_set" ELSE "on_get",
                            ![t].i = @ + 1, ![t].j = 0]
  /\ UNCHANGED <<cache, clock, ruleState, rules>>

-----------------------------------------------------------------------------
(* clear() *)

Clear(t) ==
  /\ At(t, "idle")
  /\ StorageClear
  /\ frame' = [frame EXCEPT ![t] = [Idle EXCEPT !.pc = "on_clear", !.op = "clear", !.j = 1]]
  /\ UNCHANGED <<clock, ruleState, rules>>

LruOnClear(t) ==
  /\ Inner(t, "on_clear", "lru")
  /\ LruForgetAll
  /\ NextInner(t)
  /\ UNCHANGED <<cache, clock, admitted, expiryTimes, rules>>

MaxOnClear(t) ==
  /\ Inner(t, "on_clear", "max")
  /\ HardForgetAll
  /\ NextInner(t)
  /\ UNCHANGED <<cache, clock, accessOrder, expiryTimes, rules>>

LifeOnClear(t) ==
  /\ Inner(t, "on_clear", "life")
  /\ LifeForgetAll
  /\ NextInner(t)
  /\ UNCHANGED <<cache, clock, accessOrder, admitted, rules>>

ClearReturn(t) ==
  /\ InnerDone(t, "on_clear")
  /\ Return(t)
  /\ UNCHANGED <<cache, clock, ruleState, rules>>

-----------------------------------------------------------------------------

Tick ==
  /\ clock < MaxClock
  /\ clock' = clock + 1
  /\ UNCHANGED <<cache, ruleState, rules, frame>>

(* What a client may call, and the steps that execute a call. *)
Call(t) ==
  \/ \E k \in Keys, v \in Values, ttl \in TTLs : Set(t, k, v, ttl)
  \/ \E k \in Keys : Get(t, k)
  \/ \E k \in Keys : Evict(t, k)
  \/ Clear(t)

SetStep(t) ==
  \/ LruOnSetInsert(t) \/ LruOnSetMove(t) \/ LruOnSetKeyError(t)
  \/ LruOnSetLen(t) \/ LruOnSetPop(t) \/ LruOnSetPopKeyError(t)
  \/ MaxOnSetIn(t) \/ MaxOnSetLen(t) \/ MaxOnSetAdd(t)
  \/ LifeOnSet(t) \/ Store(t)

GetStep(t) ==
  \/ LruOnGetIn(t) \/ LruOnGetMove(t) \/ LruOnGetKeyError(t)
  \/ MaxOnGet(t) \/ LifeOnGetRead(t) \/ LifeOnGetCheck(t) \/ GetReturn(t)

EvictStep(t) ==
  \/ EffectEvict(t) \/ LruOnEvict(t) \/ MaxOnEvict(t) \/ LifeOnEvict(t)
  \/ EvictReturn(t) \/ EffectDone(t)

ClearStep(t) ==
  \/ LruOnClear(t) \/ MaxOnClear(t) \/ LifeOnClear(t) \/ ClearReturn(t)

Step(t) == SetStep(t) \/ GetStep(t) \/ EvictStep(t) \/ ClearStep(t)

Next == Tick \/ \E t \in Threads : Call(t) \/ Step(t)

Spec == Init /\ [][Next]_vars

(* The interpreter schedules every runnable thread: a call that has begun  *)
(* goes on.  Nobody is obliged to make a call, and the clock may stop.     *)
FairSpec == Spec /\ \A t \in Threads : WF_vars(Step(t))

-----------------------------------------------------------------------------
(* Correctness. *)

Frame ==
  [pc : Labels, op : {"none", "set", "get", "evict", "clear"},
   key : Keys \cup {None}, value : Values \cup {None}, ttl : Nat, i : Nat,
   victim : Keys \cup {None}, j : Nat,
   got : Values \cup {None}, expired : BOOLEAN, seen : Nat]

SetLabels == {"on_set", "lru_move", "lru_len", "lru_pop", "max_len", "max_add"}
GetLabels == {"on_get", "lru_touch", "life_check"}

FrameOK(f) ==
  /\ f.pc = "idle" <=> f.op = "none"
  /\ f.pc = "on_clear" <=> f.op = "clear"
  /\ f.pc \in SetLabels => f.op = "set"
  /\ f.pc \in GetLabels => f.op = "get"
  /\ f.pc = "delete" => f.op \in {"set", "get"}
  /\ f.op \in {"set", "get"} => f.key \in Keys
  /\ f.op = "set" => f.value \in Values
  /\ f.pc \in {"delete", "on_evict"} => f.victim \in Keys

(* A label inside a hook goes with the rule whose hook it is. *)
LabelsOK ==
  \A t \in Threads :
    /\ frame[t].pc \in {"lru_move", "lru_len", "lru_pop", "lru_touch"} => InRule(t, "lru")
    /\ frame[t].pc \in {"max_len", "max_add"} => InRule(t, "max")
    /\ frame[t].pc = "life_check" => InRule(t, "life")

(* Every variable has its type, an OrderedDict holds a key once, and the    *)
(* registers a label reads are filled when the label is reached.            *)
TypeOK ==
  /\ InMemoryTypeOK
  /\ accessOrder \in Seq(Keys) /\ IsInjective(accessOrder)
  /\ admitted \subseteq Keys /\ IsFiniteSet(admitted)
  /\ DOMAIN expiryTimes \subseteq Keys
  /\ expiryTimes \in [DOMAIN expiryTimes -> Nat]
  /\ rules \in RuleLists
  /\ frame \in [Threads -> Frame]
  /\ \A t \in Threads : FrameOK(frame[t])
  /\ LabelsOK

(* The keys rule r remembers. *)
Tracks(r) ==
  CASE r = "lru"  -> LruTracked
    [] r = "max"  -> admitted
    [] r = "life" -> DOMAIN expiryTimes

Precedes(r, s) == {r, s} \subseteq Active /\ Position(r) < Position(s)

(* Thread t has entered rule r's on_set for k, and has still to store k. *)
Storing(t, k, r) ==
  /\ frame[t].op = "set" /\ frame[t].key = k
  /\ frame[t].i > Position(r) \/ (frame[t].i = Position(r) /\ ~At(t, "on_set"))

(* Thread t has deleted k from the storage, and has still to tell rule r. *)
Forgetting(t, k, r) ==
  /\ (At(t, "on_evict") /\ frame[t].victim = k) \/ At(t, "on_clear")
  /\ frame[t].j <= Position(r)

(* A rule never remembers a key the storage has lost, except while a call   *)
(* that will put this right is running: whatever the threads interleave,    *)
(* capacity is never spent for good on a key that is not there.  Rules that *)
(* come before the LRU rule are left out, because the KeyError its on_set   *)
(* may raise skips the store after they have recorded the key.              *)
TrackedIsStored ==
  \A r \in Active : ~Precedes(r, "lru") =>
    \A k \in Tracks(r) :
      Stored(k) \/ \E t \in Threads : Storing(t, k, r) \/ Forgetting(t, k, r)

(* Rule r has k in its record, or k is a key the hard limit has refused: a  *)
(* rule in front of it has been made to forget what it had recorded.        *)
Known(r, k) == k \in Tracks(r) \/ (Precedes(r, "max") /\ k \notin admitted)

(* With one thread: every stored key is known to the LRU and the life-time  *)
(* rule, so nothing is out of reach of eviction, unless it is being evicted *)
(* now.  The order of the rules decides about one thing only: a hard-limit  *)
(* rule undoes what those in front of it have recorded for a key it         *)
(* "rejects", which is stored all the same (rule_aware_storage.py:44-48);   *)
(* of a key it has admitted, they never lose sight.                         *)
StoredIsTracked ==
  \A r \in Active \ {"max"}, k \in DOMAIN cache :
    Known(r, k) \/ \E t \in Threads : At(t, "delete") /\ frame[t].victim = k

(* With one thread: at every moment, within a call too, the storage holds   *)
(* at most max_items entries under the LRU rule.                            *)
LruBound ==
  "lru" \in Active /\ ~Precedes("lru", "max") =>
    Cardinality(DOMAIN cache) <= LruMaxItems

(* Threads that pass the length check of on_set together overshoot the hard *)
(* limit, but by fewer keys than there are threads, however long they run.  *)
HardOvershoot ==
  Cardinality(admitted) <= HardMaxItems + Cardinality(Threads) - 1

(* With one thread: an expired value is returned at most once, for the get  *)
(* that returns it has removed it and the next get misses.  The rule is     *)
(* consulted after the value is read (rule_aware_storage.py:59-66), so the  *)
(* first get does return it, ExpiredNotReturned below; that nobody reads it *)
(* a second time is what lifetime_evict.py:26-44 secures.                   *)
OneStaleRead ==
  [][\A t \in Threads :
       GetReturn(t) /\ frame[t].expired /\ "life" \in Active /\ ~Precedes("life", "max")
       => ~Stored(frame[t].key)]_vars

(* A key that a rule remembers and the storage has lost does not stay so:   *)
(* the call that owes the repair is scheduled and makes it.                 *)
PhantomsHeal ==
  \A r \in RuleKinds, k \in Keys :
    (r \in Active /\ ~Precedes(r, "lru") /\ k \in Tracks(r) /\ ~Stored(k))
      ~> (k \notin Tracks(r) \/ Stored(k))

-----------------------------------------------------------------------------
(* What the repository says of the rules and the code does not do. *)

Quiet == \A t \in Threads : At(t, "idle")

(* max_items_evict.py:12-13: the rule rejects new items at the limit, and   *)
(* "the cache never grows beyond a fixed size".                             *)
HardLimit == "max" \in Active => Cardinality(DOMAIN cache) <= HardMaxItems

(* lifetime_evict.py:12-14: the rule "ensures that expired items are        *)
(* evicted and not returned to the client"; here with one thread.           *)
ExpiredNotReturned ==
  [][\A t \in Threads :
       GetReturn(t) /\ "life" \in Active => ~frame[t].expired]_vars

(* lru_evict.py:21 with README.md:403: max_items is the number of items     *)
(* allowed in the cache, and the operations are thread-safe.                *)
LruCapacity ==
  Quiet /\ "lru" \in Active => Cardinality(DOMAIN cache) <= LruMaxItems

=============================================================================
