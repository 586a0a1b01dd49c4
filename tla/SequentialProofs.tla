--------------------------- MODULE SequentialProofs ---------------------------
(***************************************************************************)
(* Proofs about RuleAwareStorage called by one thread, for any keys,       *)
(* values, rule tuples and limits.                                         *)
(***************************************************************************)
EXTENDS RuleAwareStorageProofs

(* The hard-limit rule has answered the set of thread t. *)
Refused(t) ==
  \/ frame[t].i > Position("max")
  \/ frame[t].i = Position("max") /\ frame[t].pc \in {"delete", "on_evict"}

(* What a call in progress knows.  A set has registered its key with every  *)
(* rule whose hook it has passed, unless the hard-limit rule has refused it *)
(* since;                                                                   *)
KeyKnown(t) ==
  \A r \in Active \ {"max"} :
    Storing(t, frame[t].key, r) =>
      \/ frame[t].key \in Tracks(r)
      \/ Precedes(r, "max") /\ Refused(t) /\ frame[t].key \notin admitted

(* what the hard-limit rule refuses, it has not admitted before;            *)
RefusedIsOut(t) ==
  /\ At(t, "max_len") => frame[t].key \notin admitted
  /\ frame[t].op = "set" /\ frame[t].pc \in {"delete", "on_evict"} /\ InRule(t, "max") =>
       frame[t].victim \notin admitted

(* it has made its key the most recent one before it may pop the oldest,    *)
(* and pops only when there is another;                                     *)
KeyWarmest(t) ==
  /\ At(t, "lru_move") => frame[t].key \in LruTracked
  /\ frame[t].pc \in {"lru_len", "lru_pop"} =>
       accessOrder # <<>> /\ accessOrder[Len(accessOrder)] = frame[t].key
  /\ At(t, "lru_pop") => LruOverfull

(* so what the LRU rule evicts for it is another key;                       *)
VictimIsOther(t) ==
  frame[t].op = "set" /\ frame[t].pc \in {"delete", "on_evict"} =>
    InRule(t, "max") \/ (InRule(t, "lru") /\ frame[t].victim # frame[t].key)

(* and the rules are told of a removal when the storage has made it.        *)
GoneFirst(t) ==
  /\ At(t, "on_evict") => ~Stored(frame[t].victim)
  /\ At(t, "on_clear") => DOMAIN cache = {}

-----------------------------------------------------------------------------
(* The steps that lead to a label. *)
LEMMA Predecessors ==
  ASSUME TypeOK, NEW t \in Threads, Call(t) \/ Step(t)
  PROVE  /\ frame'[t].pc = "lru_move" => LruOnSetInsert(t)
         /\ frame'[t].pc = "lru_len" => LruOnSetMove(t)
         /\ frame'[t].pc = "lru_pop" => LruOnSetLen(t) /\ LruOverfull
         /\ frame'[t].pc = "max_len" => MaxOnSetIn(t)
         /\ frame'[t].pc = "delete" => LruOnSetPop(t) \/ MaxOnSetLen(t) \/ LifeOnGetCheck(t)
         /\ frame'[t].pc = "on_evict" =>
              \/ \E k \in Keys : Evict(t, k)
              \/ EffectEvict(t)
              \/ NextInner(t) /\ frame[t].pc = "on_evict" /\ UNCHANGED cache
         /\ frame'[t].pc = "on_clear" =>
              \/ Clear(t)
              \/ NextInner(t) /\ frame[t].pc = "on_clear" /\ UNCHANGED cache
<1> DEFINE Led ==
      /\ frame'[t].pc = "lru_move" => LruOnSetInsert(t)
      /\ frame'[t].pc = "lru_len" => LruOnSetMove(t)
      /\ frame'[t].pc = "lru_pop" => LruOnSetLen(t) /\ LruOverfull
      /\ frame'[t].pc = "max_len" => MaxOnSetIn(t)
      /\ frame'[t].pc = "delete" => LruOnSetPop(t) \/ MaxOnSetLen(t) \/ LifeOnGetCheck(t)
      /\ frame'[t].pc = "on_evict" =>
           \/ \E k \in Keys : Evict(t, k)
           \/ EffectEvict(t)
           \/ NextInner(t) /\ frame[t].pc = "on_evict" /\ UNCHANGED cache
      /\ frame'[t].pc = "on_clear" =>
           \/ Clear(t)
           \/ NextInner(t) /\ frame[t].pc = "on_clear" /\ UNCHANGED cache
<1>1. frame \in [Threads -> Frame] /\ frame[t] \in Frame
  BY TypeParts DEF FramesOK
<1>2. CASE Call(t)
  <2>1. ASSUME NEW k \in Keys, NEW v \in Values, NEW ttl \in TTLs, Set(t, k, v, ttl) PROVE Led
    BY <1>1, <2>1 DEF Set
  <2>2. ASSUME NEW k \in Keys, Get(t, k) PROVE Led
    BY <1>1, <2>2 DEF Get
  <2>3. ASSUME NEW k \in Keys, Evict(t, k) PROVE Led
    <3>1. frame'[t].pc = "on_evict"
      BY <1>1, <2>3 DEF Evict
    <3> QED BY <2>3, <3>1
  <2>4. CASE Clear(t)
    <3>1. frame'[t].pc = "on_clear"
      BY <1>1, <2>4 DEF Clear
    <3> QED BY <2>4, <3>1
  <2> QED BY <1>2, <2>1, <2>2, <2>3, <2>4 DEF Call
<1> USE <1>1 DEF Frame, Goto, Return, Idle, NextOuter, Effect
<1>3. CASE SetStep(t)
  <2>1. CASE LruOnSetInsert(t)
    <3>1. frame'[t].pc = "lru_move"
      BY <2>1 DEF LruOnSetInsert
    <3> QED BY <2>1, <3>1
  <2>2. CASE LruOnSetMove(t)
    <3>1. frame'[t].pc = "lru_len"
      BY <2>2 DEF LruOnSetMove
    <3> QED BY <2>2, <3>1
  <2>3. CASE LruOnSetLen(t)
    <3>1. frame'[t].pc = "on_set" \/ (frame'[t].pc = "lru_pop" /\ LruOverfull)
      BY <2>3 DEF LruOnSetLen
    <3> QED BY <2>3, <3>1
  <2>4. CASE LruOnSetPop(t) \/ MaxOnSetLen(t)
    <3>1. frame'[t].pc \in {"delete", "max_add"}
      BY <2>4 DEF LruOnSetPop, MaxOnSetLen
    <3> QED BY <2>4, <3>1
  <2>5. CASE LruOnSetKeyError(t) \/ LruOnSetPopKeyError(t) \/ Store(t)
    <3>1. frame'[t].pc = "idle"
      BY <2>5 DEF LruOnSetKeyError, LruOnSetPopKeyError, Store
    <3> QED BY <3>1
  <2>6. CASE MaxOnSetAdd(t) \/ LifeOnSet(t)
    <3>1. frame'[t].pc = "on_set"
      BY <2>6 DEF MaxOnSetAdd, LifeOnSet
    <3> QED BY <3>1
  <2>7. CASE MaxOnSetIn(t)
    <3>1. frame'[t].pc \in {"on_set", "max_len"}
      BY <2>7 DEF MaxOnSetIn
    <3> QED BY <2>7, <3>1
  <2> QED BY <1>3, <2>1, <2>2, <2>3, <2>4, <2>5, <2>6, <2>7 DEF SetStep
<1>4. CASE GetStep(t)
  <2>1. CASE LifeOnGetCheck(t)
    <3>1. frame'[t].pc \in {"delete", "on_get"}
      BY <2>1 DEF LifeOnGetCheck
    <3> QED BY <2>1, <3>1
  <2>2. CASE ~LifeOnGetCheck(t)
    <3>1. frame'[t].pc \in {"idle", "on_get", "lru_touch", "life_check"}
      BY <1>4, <2>2 DEF GetStep, LruOnGetIn, LruOnGetMove, LruOnGetKeyError, MaxOnGet,
           LifeOnGetRead, GetReturn
    <3> QED BY <3>1
  <2> QED BY <2>1, <2>2
<1>5. CASE EvictStep(t)
  <2>1. CASE EffectEvict(t)
    <3>1. frame'[t].pc = "on_evict"
      BY <2>1 DEF EffectEvict
    <3> QED BY <2>1, <3>1
  <2>2. CASE LruOnEvict(t) \/ MaxOnEvict(t) \/ LifeOnEvict(t)
    <3>1. NextInner(t) /\ frame[t].pc = "on_evict" /\ UNCHANGED cache
      BY <2>2 DEF LruOnEvict, MaxOnEvict, LifeOnEvict, Inner, At
    <3>2. frame'[t].pc = "on_evict"
      BY <3>1 DEF NextInner
    <3> QED BY <3>1, <3>2
  <2>3. CASE EvictReturn(t) \/ EffectDone(t)
    <3>1. frame'[t].pc \in {"idle", "on_set", "on_get"}
      BY <2>3 DEF EvictReturn, EffectDone
    <3> QED BY <3>1
  <2> QED BY <1>5, <2>1, <2>2, <2>3 DEF EvictStep
<1>6. CASE ClearStep(t)
  <2>1. CASE LruOnClear(t) \/ MaxOnClear(t) \/ LifeOnClear(t)
    <3>1. NextInner(t) /\ frame[t].pc = "on_clear" /\ UNCHANGED cache
      BY <2>1 DEF LruOnClear, MaxOnClear, LifeOnClear, Inner, At
    <3>2. frame'[t].pc = "on_clear"
      BY <3>1 DEF NextInner
    <3> QED BY <3>1, <3>2
  <2>2. CASE ClearReturn(t)
    <3>1. frame'[t].pc = "idle"
      BY <2>2 DEF ClearReturn
    <3> QED BY <3>1
  <2> QED BY <1>6, <2>1, <2>2 DEF ClearStep
<1> QED BY <1>2, <1>3, <1>4, <1>5, <1>6 DEF Step

(* The loop of set: after its first step a set stays at a position until it *)
(* goes on to the next one's on_set.                                        *)
LEMMA SetMoves ==
  ASSUME TypeOK, NEW t \in Threads, Call(t) \/ Step(t), frame'[t].op = "set"
  PROVE  \/ frame'[t].i = 1 /\ frame'[t].pc = "on_set"
         \/ /\ frame[t].op = "set" /\ frame'[t].key = frame[t].key
            /\ \/ frame'[t].i = frame[t].i /\ frame'[t].pc # "on_set"
               \/ frame'[t].i = frame[t].i + 1 /\ frame'[t].pc = "on_set"
<1> DEFINE Moved ==
      \/ frame'[t].i = 1 /\ frame'[t].pc = "on_set"
      \/ /\ frame[t].op = "set" /\ frame'[t].key = frame[t].key
         /\ \/ frame'[t].i = frame[t].i /\ frame'[t].pc # "on_set"
            \/ frame'[t].i = frame[t].i + 1 /\ frame'[t].pc = "on_set"
<1>1. frame \in [Threads -> Frame] /\ frame[t] \in Frame /\ FrameOK(frame[t])
  BY TypeParts DEF FramesOK
<1> USE <1>1 DEF Frame, Goto, Return, Idle, NextOuter, NextInner, Effect
<1>2. CASE Call(t)
  <2>1. ASSUME NEW k \in Keys, NEW v \in Values, NEW ttl \in TTLs, Set(t, k, v, ttl) PROVE Moved
    BY <2>1 DEF Set
  <2>2. ASSUME NEW k \in Keys, Get(t, k) PROVE FALSE
    BY <2>2 DEF Get
  <2>3. ASSUME NEW k \in Keys, Evict(t, k) PROVE FALSE
    BY <2>3 DEF Evict
  <2>4. ASSUME Clear(t) PROVE FALSE
    BY <2>4 DEF Clear
  <2> QED BY <1>2, <2>1, <2>2, <2>3, <2>4 DEF Call
<1>3. CASE SetStep(t)
  <2>1. frame[t].op = "set"
    BY <1>3 DEF SetStep, LruOnSetInsert, LruOnSetMove, LruOnSetKeyError, LruOnSetLen,
         LruOnSetPop, LruOnSetPopKeyError, MaxOnSetIn, MaxOnSetLen, MaxOnSetAdd, LifeOnSet,
         Store, Outer, OuterDone, At, FrameOK, SetLabels
  <2> QED
    BY <1>3, <2>1 DEF SetStep, LruOnSetInsert, LruOnSetMove, LruOnSetKeyError, LruOnSetLen,
         LruOnSetPop, LruOnSetPopKeyError, MaxOnSetIn, MaxOnSetLen, MaxOnSetAdd, LifeOnSet, Store
<1>4. CASE GetStep(t)
  <2>1. frame[t].op = "get"
    BY <1>4 DEF GetStep, LruOnGetIn, LruOnGetMove, LruOnGetKeyError, MaxOnGet, LifeOnGetRead,
         LifeOnGetCheck, GetReturn, Outer, OuterDone, At, FrameOK, GetLabels
  <2>2. frame'[t].op \in {"get", "none"}
    BY <1>4, <2>1 DEF GetStep, LruOnGetIn, LruOnGetMove, LruOnGetKeyError, MaxOnGet, LifeOnGetRead,
         LifeOnGetCheck, GetReturn
  <2> QED BY <2>2
<1>5. CASE EvictStep(t)
  BY <1>5 DEF EvictStep, EffectEvict, LruOnEvict, MaxOnEvict, LifeOnEvict, EvictReturn, EffectDone,
       Inner, At
<1>6. CASE ClearStep(t)
  BY <1>6 DEF ClearStep, LruOnClear, MaxOnClear, LifeOnClear, ClearReturn, Inner, At, FrameOK
<1> QED BY <1>2, <1>3, <1>4, <1>5, <1>6 DEF Step

(* What a step of one thread leaves of the facts the proofs take apart. *)
LEMMA StepContext ==
  ASSUME TypeOK, NEW t \in Threads, Call(t) \/ Step(t)
  PROVE  /\ frame \in [Threads -> Frame] /\ frame[t] \in Frame /\ FrameOK(frame[t]) /\ LabelsOK
         /\ frame' \in [Threads -> Frame] /\ frame'[t] \in Frame /\ FrameOK(frame'[t]) /\ LabelsOK'
         /\ LruOK /\ LifeOK /\ InMemoryTypeOK /\ rules' = rules /\ rules \in RuleLists
         /\ LruOK' /\ LifeOK' /\ InMemoryTypeOK'
  BY TypeParts, StateSteps, FrameSteps, LabelSteps DEF FramesOK, RuleStateOK

(* The key of a set is the most recent one from move_to_end to popitem. *)
LEMMA KeyWarmestStep ==
  ASSUME TypeOK, NEW t \in Threads, Call(t) \/ Step(t), KeyWarmest(t)
  PROVE  KeyWarmest(t)'
<1>1. /\ frame \in [Threads -> Frame] /\ frame[t] \in Frame /\ FrameOK(frame[t]) /\ LruOK
  BY StepContext
<1> USE <1>1 DEF Goto, NextOuter, Frame
<1>2. ASSUME frame'[t].pc = "lru_move" PROVE frame'[t].key \in LruTracked'
  <2>1. LruOnSetInsert(t)
    BY <1>2, Predecessors
  <2>2. frame'[t].key = frame[t].key /\ frame[t].key \in Keys
    BY <2>1 DEF LruOnSetInsert, Outer, At, FrameOK, SetLabels
  <2> QED BY <2>1, <2>2, LruOps DEF LruOnSetInsert
<1>3. ASSUME frame'[t].pc = "lru_len"
      PROVE  accessOrder' # <<>> /\ accessOrder'[Len(accessOrder')] = frame'[t].key
  <2>1. LruOnSetMove(t)
    BY <1>3, Predecessors
  <2>2. frame'[t].key = frame[t].key /\ frame[t].key \in Keys
    BY <2>1 DEF LruOnSetMove, At, FrameOK, SetLabels
  <2> DEFINE w == Without(frame[t].key)
  <2>3. w \in Seq(Keys) /\ accessOrder' = Append(w, frame[t].key)
    BY <2>1, RemoveFirstProperties DEF LruOnSetMove, LruMoveToEnd, Without, LruOK
  <2> HIDE DEF w
  <2>4. Len(accessOrder') = Len(w) + 1 /\ accessOrder'[Len(w) + 1] = frame[t].key
    BY <2>2, <2>3
  <2>5. accessOrder' # <<>>
    BY <2>2, <2>3
  <2> QED BY <2>2, <2>4, <2>5
<1>4. ASSUME frame'[t].pc = "lru_pop"
      PROVE  /\ accessOrder' # <<>> /\ accessOrder'[Len(accessOrder')] = frame'[t].key
             /\ LruOverfull'
  <2>1. LruOnSetLen(t) /\ LruOverfull
    BY <1>4, Predecessors
  <2>2. accessOrder' = accessOrder /\ frame'[t].key = frame[t].key /\ frame[t].pc = "lru_len"
    BY <2>1 DEF LruOnSetLen, ruleState, At
  <2> QED BY <2>1, <2>2 DEF KeyWarmest, LruOverfull
<1> QED BY <1>2, <1>3, <1>4 DEF KeyWarmest, At

(* What popitem pops for a set is not its key. *)
LEMMA OldestIsOther ==
  ASSUME LruOK, accessOrder # <<>>, LruOverfull
  PROVE  LruOldest # accessOrder[Len(accessOrder)]
<1>1. accessOrder \in Seq(Keys) /\ IsInjective(accessOrder) /\ Len(accessOrder) > 1
  BY LruAssumption, LenProperties DEF LruOK, LruOverfull
<1>2. LruOldest = accessOrder[1] /\ DOMAIN accessOrder = 1..Len(accessOrder)
  BY <1>1, HeadTailProperties, LenProperties DEF LruOldest
<1> QED BY <1>1, <1>2 DEF IsInjective

(* The LRU rule evicts another key than the one that comes in. *)
LEMMA VictimIsOtherStep ==
  ASSUME TypeOK, NEW t \in Threads, Call(t) \/ Step(t), KeyWarmest(t), VictimIsOther(t)
  PROVE  VictimIsOther(t)'
<1>1. /\ frame \in [Threads -> Frame] /\ frame[t] \in Frame /\ FrameOK(frame[t]) /\ LruOK
      /\ LabelsOK /\ rules' = rules
  BY StepContext
<1>7. ASSUME frame'[t].pc \in {"delete", "on_evict"}
      PROVE  \/ LruOnSetPop(t) \/ MaxOnSetLen(t) \/ LifeOnGetCheck(t)
             \/ EffectEvict(t) \/ (NextInner(t) /\ frame[t].pc = "on_evict")
             \/ \E k \in Keys : Evict(t, k)
  BY <1>7, Predecessors
<1> USE <1>1 DEF Frame
<1> SUFFICES ASSUME frame'[t].op = "set", frame'[t].pc \in {"delete", "on_evict"}
             PROVE  InRule(t, "max")' \/ (InRule(t, "lru")' /\ frame'[t].victim # frame'[t].key)
  BY DEF VictimIsOther
<1>2. CASE LruOnSetPop(t)
  <2>1. /\ frame'[t].victim = LruOldest /\ frame'[t].i = frame[t].i
        /\ frame'[t].key = frame[t].key /\ frame[t].pc = "lru_pop" /\ accessOrder # <<>>
    BY <1>2 DEF LruOnSetPop, Effect, At
  <2>2. InRule(t, "lru")'
    BY <2>1 DEF LabelsOK, InRule
  <2> QED BY <2>1, <2>2, OldestIsOther DEF KeyWarmest, At
<1>3. CASE MaxOnSetLen(t)
  <2>1. frame'[t].i = frame[t].i /\ frame[t].pc = "max_len"
    BY <1>3 DEF MaxOnSetLen, Effect, Goto, At
  <2> QED BY <2>1 DEF LabelsOK, InRule
<1>4. CASE LifeOnGetCheck(t)
  <2>1. frame[t].op = "get" /\ frame'[t].op = frame[t].op
    BY <1>4 DEF LifeOnGetCheck, Effect, NextOuter, At, FrameOK, GetLabels
  <2> QED BY <2>1
<1>5. CASE EffectEvict(t) \/ (NextInner(t) /\ frame[t].pc = "on_evict")
  <2>1. /\ frame'[t].i = frame[t].i /\ frame'[t].victim = frame[t].victim
        /\ frame'[t].key = frame[t].key /\ frame[t].op = "set"
        /\ frame[t].pc \in {"delete", "on_evict"}
    BY <1>5 DEF EffectEvict, NextInner, At
  <2> QED BY <2>1 DEF VictimIsOther, InRule
<1>6. ASSUME NEW k \in Keys, Evict(t, k) PROVE FALSE
  BY <1>6 DEF Evict, Idle
<1> QED BY <1>2, <1>3, <1>4, <1>5, <1>6, <1>7

(* A removal is told after it is made, and nothing is stored in between. *)
LEMMA GoneFirstStep ==
  ASSUME TypeOK, NEW t \in Threads, Call(t) \/ Step(t), GoneFirst(t)
  PROVE  GoneFirst(t)'
<1>1. /\ frame \in [Threads -> Frame] /\ frame[t] \in Frame /\ FrameOK(frame[t])
      /\ InMemoryTypeOK
  BY StepContext
<1> USE <1>1 DEF Frame
<1>2. ASSUME frame'[t].pc = "on_evict" PROVE frame'[t].victim \notin DOMAIN cache'
  <2>1. ASSUME NEW k \in Keys, Evict(t, k) PROVE frame'[t].victim \notin DOMAIN cache'
    BY <2>1, StorageOps DEF Evict, Idle
  <2>2. CASE EffectEvict(t)
    <3>1. frame'[t].victim = frame[t].victim /\ frame[t].victim \in Keys
      BY <2>2 DEF EffectEvict, At, FrameOK
    <3> QED BY <2>2, <3>1, StorageOps DEF EffectEvict
  <2>3. CASE NextInner(t) /\ frame[t].pc = "on_evict" /\ UNCHANGED cache
    <3>1. frame'[t].victim = frame[t].victim
      BY <2>3 DEF NextInner
    <3> QED BY <2>3, <3>1 DEF GoneFirst, Stored, At
  <2> QED BY <1>2, <2>1, <2>2, <2>3, Predecessors DEF Stored
<1>3. ASSUME frame'[t].pc = "on_clear" PROVE DOMAIN cache' = {}
  <2>1. CASE Clear(t)
    BY <2>1 DEF Clear, StorageClear, Restrict
  <2>2. CASE NextInner(t) /\ frame[t].pc = "on_clear" /\ UNCHANGED cache
    BY <2>2 DEF GoneFirst, At
  <2> QED BY <1>3, <2>1, <2>2, Predecessors
<1> QED BY <1>2, <1>3 DEF GoneFirst, At, Stored

(* When the LRU or the life-time rule forgets a key, and which. *)
LEMMA Forgotten ==
  ASSUME TypeOK, NEW t \in Threads, Call(t) \/ Step(t),
         NEW r \in {"lru", "life"}, NEW k \in Tracks(r), k \notin Tracks(r)'
  PROVE  \/ LruOnSetPop(t) /\ k = LruOldest
         \/ LifeOnGetCheck(t) /\ frame'[t].pc = "delete" /\ k = frame[t].key /\ frame'[t].victim = k
         \/ frame[t].pc = "on_evict" /\ k = frame[t].victim /\ frame'[t].pc = "on_evict"
         \/ ClearStep(t) /\ frame[t].pc = "on_clear"
<1>1. /\ frame \in [Threads -> Frame] /\ frame[t] \in Frame /\ FrameOK(frame[t])
      /\ LruOK /\ LifeOK /\ LabelsOK /\ InMemoryTypeOK
  BY StepContext
<1>2. k \in Keys
  BY <1>1 DEF Tracks, LruOK, LifeOK, LruTracked, ToSet
<1>3. ~(UNCHANGED <<accessOrder, expiryTimes>>)
  BY DEF Tracks, LruTracked
<1>4. LruTracked \subseteq LruTracked' => r = "life"
  BY DEF Tracks
<1>5. DOMAIN expiryTimes \subseteq DOMAIN expiryTimes' => r = "lru"
  BY DEF Tracks
<1>6. UNCHANGED accessOrder => LruTracked' = LruTracked
  BY DEF LruTracked
<1>7. CASE Call(t)
  BY <1>3, <1>7 DEF Call, Set, Get, Evict, Clear, ruleState
<1>8. CASE SetStep(t)
  <2>1. frame[t].key \in Keys
    BY <1>1, <1>8 DEF SetStep, LruOnSetInsert, LruOnSetMove, LruOnSetKeyError, LruOnSetLen,
         LruOnSetPop, LruOnSetPopKeyError, MaxOnSetIn, MaxOnSetLen, MaxOnSetAdd, LifeOnSet,
         Store, Outer, OuterDone, At, FrameOK, SetLabels
  <2>2. CASE LruOnSetPop(t)
    <3>1. LruTracked' = LruTracked \ {LruOldest} /\ UNCHANGED expiryTimes
      BY <1>1, <2>1, <2>2, LruOps DEF LruOnSetPop
    <3> QED BY <2>2, <3>1 DEF Tracks
  <2>3. CASE LruOnSetInsert(t) \/ LruOnSetMove(t)
    <3>1. LruTracked \subseteq LruTracked' /\ UNCHANGED expiryTimes
      BY <1>1, <2>1, <2>3, LruOps DEF LruOnSetInsert, LruOnSetMove
    <3> QED BY <1>4, <1>5, <3>1
  <2>4. CASE LifeOnSet(t)
    <3>1. clock + frame[t].ttl \in Nat
      BY <1>1 DEF Frame, InMemoryTypeOK
    <3>2. DOMAIN expiryTimes \subseteq DOMAIN expiryTimes' /\ UNCHANGED accessOrder
      BY <1>1, <2>1, <2>4, <3>1, LifeOps DEF LifeOnSet
    <3> QED BY <1>4, <1>5, <1>6, <3>2
  <2> QED BY <1>3, <1>8, <2>2, <2>3, <2>4 DEF SetStep, LruOnSetKeyError, LruOnSetLen,
       LruOnSetPopKeyError, MaxOnSetIn, MaxOnSetLen, MaxOnSetAdd, Store, ruleState
<1>9. CASE GetStep(t)
  <2>1. CASE LruOnGetMove(t)
    <3>1. LruTracked \subseteq LruTracked' /\ UNCHANGED expiryTimes
      BY <1>1, <2>1, LruOps DEF LruOnGetMove, At, FrameOK, GetLabels
    <3> QED BY <1>4, <1>5, <3>1
  <2>2. CASE LifeOnGetCheck(t)
    <3>1. frame[t].key \in Keys
      BY <1>1, <2>2 DEF LifeOnGetCheck, At, FrameOK, GetLabels
    <3>2. LifeForget(frame[t].key) /\ Effect(t, frame[t].key) /\ UNCHANGED accessOrder
      BY <1>3, <2>2 DEF LifeOnGetCheck
    <3>3. DOMAIN expiryTimes' = DOMAIN expiryTimes \ {frame[t].key}
      BY <1>1, <3>1, <3>2, LifeOps
    <3>4. k = frame[t].key
      BY <1>4, <1>6, <3>2, <3>3 DEF Tracks
    <3>5. frame'[t].pc = "delete" /\ frame'[t].victim = frame[t].key
      BY <1>1, <3>2 DEF Effect, Frame
    <3> QED BY <2>2, <3>4, <3>5
  <2> QED BY <1>3, <1>9, <2>1, <2>2 DEF GetStep, LruOnGetIn, LruOnGetKeyError, MaxOnGet,
       LifeOnGetRead, GetReturn, ruleState
<1>10. CASE EvictStep(t)
  <2>1. LruOnEvict(t) \/ LifeOnEvict(t)
    BY <1>3, <1>10 DEF EvictStep, EffectEvict, MaxOnEvict, EvictReturn, EffectDone, ruleState
  <2>2. frame[t].pc = "on_evict" /\ frame[t].victim \in Keys
    BY <1>1, <2>1 DEF LruOnEvict, LifeOnEvict, Inner, At, FrameOK
  <2>3. frame'[t].pc = "on_evict"
    BY <1>1, <2>1, <2>2 DEF LruOnEvict, LifeOnEvict, NextInner, Frame
  <2>4. CASE LruOnEvict(t)
    <3>1. LruTracked' = LruTracked \ {frame[t].victim} /\ UNCHANGED expiryTimes
      BY <1>1, <2>2, <2>4, LruOps DEF LruOnEvict
    <3> QED BY <2>2, <2>3, <3>1 DEF Tracks
  <2>5. CASE LifeOnEvict(t)
    <3>1. DOMAIN expiryTimes' = DOMAIN expiryTimes \ {frame[t].victim} /\ UNCHANGED accessOrder
      BY <1>1, <2>2, <2>5, LifeOps DEF LifeOnEvict
    <3> QED BY <1>6, <2>2, <2>3, <3>1 DEF Tracks
  <2> QED BY <2>1, <2>4, <2>5
<1>11. CASE ClearStep(t)
  BY <1>11 DEF ClearStep, LruOnClear, MaxOnClear, LifeOnClear, ClearReturn, Inner, InnerDone, At
<1> QED BY <1>7, <1>8, <1>9, <1>10, <1>11 DEF Step

(* A set starts to owe its key to a rule, and is past the rule's first step, *)
(* when it registers the key there.                                         *)
LEMMA StartsStoring ==
  ASSUME TypeOK, NEW t \in Threads, Call(t) \/ Step(t), NEW r \in Active \ {"max"},
         Storing(t, frame[t].key, r)'
  PROVE  /\ frame[t].op = "set" /\ frame'[t].key = frame[t].key /\ frame[t].key \in Keys
         /\ frame'[t].op = "set"
         /\ \/ frame'[t].i = frame[t].i /\ frame'[t].pc # "on_set"
            \/ frame'[t].i = frame[t].i + 1 /\ frame'[t].pc = "on_set"
         /\ ~Storing(t, frame[t].key, r) =>
              (r = "lru" /\ LruOnSetInsert(t)) \/ (r = "life" /\ LifeOnSet(t))
<1>1. /\ frame \in [Threads -> Frame] /\ frame[t] \in Frame /\ FrameOK(frame[t])
      /\ rules' = rules /\ rules \in RuleLists
  BY StepContext
<1>2. /\ r \in {"lru", "life"} /\ Position(r) \in 1..Len(rules) /\ Len(rules) \in Nat
      /\ DOMAIN rules = 1..Len(rules) /\ rules[Position(r)] = r
      /\ Position(r)' = Position(r)
  BY <1>1, OnePosition DEF RuleKinds, Position
<1>3. /\ frame'[t].op = "set"
      /\ \/ frame'[t].i > Position(r)
         \/ frame'[t].i = Position(r) /\ frame'[t].pc # "on_set"
  BY <1>2 DEF Storing, At
<1>4. frame[t].i \in Nat /\ frame'[t].i \in Nat
  BY StepContext DEF Frame
<1>5. /\ frame[t].op = "set" /\ frame'[t].key = frame[t].key
      /\ \/ frame'[t].i = frame[t].i /\ frame'[t].pc # "on_set"
         \/ frame'[t].i = frame[t].i + 1 /\ frame'[t].pc = "on_set"
  BY <1>2, <1>3, <1>4, SetMoves
<1>6. frame[t].key \in Keys
  BY <1>1, <1>5 DEF FrameOK
<1>7. ASSUME ~Storing(t, frame[t].key, r)
      PROVE  (r = "lru" /\ LruOnSetInsert(t)) \/ (r = "life" /\ LifeOnSet(t))
  <2>1. frame[t].i = Position(r) /\ frame[t].pc = "on_set"
    BY <1>2, <1>3, <1>4, <1>5, <1>7 DEF Storing, At
  <2>2. InRule(t, r) /\ ~InRule(t, "max") /\ ~OuterDone(t, "on_set")
    BY <1>2, <2>1 DEF InRule, OuterDone
  <2>3. ~Call(t) /\ ~GetStep(t) /\ ~EvictStep(t) /\ ~ClearStep(t)
    BY <2>1 DEF Call, Set, Get, Evict, Clear, GetStep, LruOnGetIn, LruOnGetMove,
       LruOnGetKeyError, MaxOnGet, LifeOnGetRead, LifeOnGetCheck, GetReturn, EvictStep,
       EffectEvict, LruOnEvict, MaxOnEvict, LifeOnEvict, EvictReturn, EffectDone, ClearStep,
       LruOnClear, MaxOnClear, LifeOnClear, ClearReturn, Outer, OuterDone, Inner, InnerDone, At
  <2>4. LruOnSetInsert(t) \/ LifeOnSet(t)
    BY <2>1, <2>2, <2>3 DEF Step, SetStep, LruOnSetMove, LruOnSetKeyError, LruOnSetLen,
       LruOnSetPop, LruOnSetPopKeyError, MaxOnSetIn, MaxOnSetLen, MaxOnSetAdd, Store, Outer, At
  <2> QED BY <1>2, <2>1, <2>4 DEF LruOnSetInsert, LifeOnSet, Outer, InRule
<1> QED BY <1>3, <1>5, <1>6, <1>7

(* Only the last step of the hard-limit rule's on_set admits a key. *)
LEMMA OnlyAddAdmits ==
  ASSUME NEW t \in Threads, Call(t) \/ Step(t)
  PROVE  admitted' \subseteq admitted \/ MaxOnSetAdd(t)
BY DEF Call, Set, Get, Evict, Clear, Step, SetStep, LruOnSetInsert, LruOnSetMove,
   LruOnSetKeyError, LruOnSetLen, LruOnSetPop, LruOnSetPopKeyError, MaxOnSetIn, MaxOnSetLen,
   LifeOnSet, Store, GetStep, LruOnGetIn, LruOnGetMove, LruOnGetKeyError, MaxOnGet,
   LifeOnGetRead, LifeOnGetCheck, GetReturn, EvictStep, EffectEvict, LruOnEvict, MaxOnEvict,
   LifeOnEvict, EvictReturn, EffectDone, ClearStep, LruOnClear, MaxOnClear, LifeOnClear,
   ClearReturn, ruleState, HardForget, HardForgetAll

(* The hard-limit rule looks for a key before it counts, and refuses it     *)
(* only when it has not found it.                                           *)
LEMMA RefusedIsOutStep ==
  ASSUME TypeOK, NEW t \in Threads, Call(t) \/ Step(t), RefusedIsOut(t)
  PROVE  RefusedIsOut(t)'
<1>1. /\ frame \in [Threads -> Frame] /\ frame[t] \in Frame /\ FrameOK(frame[t])
      /\ LabelsOK /\ rules' = rules
  BY StepContext
<1> USE <1>1 DEF Frame
<1>2. ASSUME frame'[t].pc = "max_len" PROVE frame'[t].key \notin admitted'
  <2>1. MaxOnSetIn(t)
    BY <1>2, Predecessors
  <2>2. frame[t].key \notin admitted /\ admitted' = admitted /\ frame'[t].key = frame[t].key
    BY <1>2, <2>1 DEF MaxOnSetIn, NextOuter, Goto, ruleState
  <2> QED BY <2>2
<1>3. ASSUME frame'[t].op = "set", frame'[t].pc \in {"delete", "on_evict"}, InRule(t, "max")'
      PROVE  frame'[t].victim \notin admitted'
  <2>1. \/ LruOnSetPop(t) \/ MaxOnSetLen(t) \/ LifeOnGetCheck(t)
        \/ EffectEvict(t) \/ (NextInner(t) /\ frame[t].pc = "on_evict")
        \/ \E k \in Keys : Evict(t, k)
    BY <1>3, Predecessors
  <2>2. CASE LruOnSetPop(t)
    <3>1. frame'[t].i = frame[t].i /\ frame[t].pc = "lru_pop"
      BY <2>2 DEF LruOnSetPop, Effect, At
    <3> QED BY <1>3, <3>1 DEF LabelsOK, InRule
  <2>3. CASE MaxOnSetLen(t)
    <3>1. HardFull
      BY <1>3, <2>3 DEF MaxOnSetLen, Goto
    <3>2. /\ frame'[t].victim = frame[t].key /\ frame[t].pc = "max_len"
          /\ admitted' = admitted
      BY <2>3, <3>1 DEF MaxOnSetLen, Effect, ruleState, At
    <3> QED BY <3>2 DEF RefusedIsOut, At
  <2>4. CASE LifeOnGetCheck(t)
    <3>1. frame[t].op = "get" /\ frame'[t].op = frame[t].op
      BY <2>4 DEF LifeOnGetCheck, Effect, NextOuter, At, FrameOK, GetLabels
    <3> QED BY <1>3, <3>1
  <2>5. CASE EffectEvict(t) \/ (NextInner(t) /\ frame[t].pc = "on_evict")
    <3>1. /\ frame'[t].i = frame[t].i /\ frame'[t].victim = frame[t].victim
          /\ frame[t].op = "set" /\ frame[t].pc \in {"delete", "on_evict"}
      BY <1>3, <2>5 DEF EffectEvict, NextInner, At
    <3>2. InRule(t, "max")
      BY <1>3, <3>1 DEF InRule
    <3>3. admitted' \subseteq admitted
      BY <3>1, OnlyAddAdmits DEF MaxOnSetAdd, At
    <3> QED BY <3>1, <3>2, <3>3 DEF RefusedIsOut
  <2>6. ASSUME NEW k \in Keys, Evict(t, k) PROVE FALSE
    BY <1>3, <2>6 DEF Evict, Idle
  <2> QED BY <2>1, <2>2, <2>3, <2>4, <2>5, <2>6
<1> QED BY <1>2, <1>3 DEF RefusedIsOut, At

(* A set that the hard-limit rule has answered goes on behind it. *)
LEMMA RefusedStays ==
  ASSUME TypeOK, NEW t \in Threads, Call(t) \/ Step(t), Refused(t),
         Position("max") \in Nat, frame[t].op = "set", frame'[t].op = "set",
         \/ frame'[t].i = frame[t].i /\ frame'[t].pc # "on_set"
         \/ frame'[t].i = frame[t].i + 1 /\ frame'[t].pc = "on_set"
  PROVE  Refused(t)' /\ ~MaxOnSetAdd(t)
<1>1. /\ frame \in [Threads -> Frame] /\ frame[t] \in Frame /\ frame[t].i \in Nat
      /\ LabelsOK /\ rules' = rules /\ rules \in RuleLists
  BY StepContext DEF Frame
<1>2. Position("max")' = Position("max")
  BY <1>1 DEF Position
<1>3. ~MaxOnSetAdd(t)
  <2> SUFFICES ASSUME MaxOnSetAdd(t) PROVE FALSE
    OBVIOUS
  <2>1. frame[t].pc = "max_add" /\ InRule(t, "max")
    BY <1>1 DEF MaxOnSetAdd, At, LabelsOK
  <2>2. "max" \in Active /\ frame[t].i \in DOMAIN rules /\ rules[frame[t].i] = "max"
    BY <2>1 DEF InRule, Active, ToSet
  <2>3. Position("max") = frame[t].i
    BY <1>1, <2>2, OnePosition
  <2> QED BY <1>1, <2>1, <2>3 DEF Refused
<1>4. ASSUME frame[t].pc \in {"delete", "on_evict"}
      PROVE  frame'[t].pc = "on_evict" \/ frame'[t].pc = "on_set"
  <2>1. EvictStep(t)
    BY <1>4 DEF Call, Set, Get, Evict, Clear, Step, SetStep, LruOnSetInsert, LruOnSetMove,
       LruOnSetKeyError, LruOnSetLen, LruOnSetPop, LruOnSetPopKeyError, MaxOnSetIn, MaxOnSetLen,
       MaxOnSetAdd, LifeOnSet, Store, GetStep, LruOnGetIn, LruOnGetMove, LruOnGetKeyError,
       MaxOnGet, LifeOnGetRead, LifeOnGetCheck, GetReturn, ClearStep, LruOnClear, MaxOnClear,
       LifeOnClear, ClearReturn, Outer, OuterDone, Inner, InnerDone, At
  <2>2. CASE EffectEvict(t) \/ EffectDone(t)
    BY <1>1, <2>2 DEF EffectEvict, EffectDone, Frame
  <2>3. CASE LruOnEvict(t) \/ MaxOnEvict(t) \/ LifeOnEvict(t)
    <3>1. NextInner(t) /\ frame[t].pc = "on_evict"
      BY <2>3 DEF LruOnEvict, MaxOnEvict, LifeOnEvict, Inner, At
    <3> QED BY <1>1, <3>1 DEF NextInner, Frame
  <2> QED BY <2>1, <2>2, <2>3 DEF EvictStep, EvictReturn
<1>5. Refused(t)'
  BY <1>1, <1>2, <1>4 DEF Refused
<1> QED BY <1>3, <1>5

(* A set registers its key with a rule in the rule's hook, and what it      *)
(* evicts on its way is another key, or one that a hard limit behind that   *)
(* rule has refused.                                                        *)
LEMMA KeyKnownStep ==
  ASSUME TypeOK, NEW t \in Threads, Call(t) \/ Step(t),
         KeyKnown(t), KeyWarmest(t), VictimIsOther(t), RefusedIsOut(t)
  PROVE  KeyKnown(t)'
<1>1. /\ frame \in [Threads -> Frame] /\ frame[t] \in Frame /\ FrameOK(frame[t])
      /\ LruOK /\ LifeOK /\ LabelsOK /\ rules' = rules /\ rules \in RuleLists /\ InMemoryTypeOK
  BY StepContext
<1>2. \A r, q : /\ Active' = Active /\ Position(r)' = Position(r)
                /\ Precedes(r, q)' <=> Precedes(r, q)
  BY <1>1 DEF Active, Precedes, Position
<1> SUFFICES ASSUME NEW r \in Active \ {"max"}, Storing(t, frame[t].key, r)'
             PROVE  \/ frame'[t].key \in Tracks(r)'
                    \/ Precedes(r, "max") /\ Refused(t)' /\ frame'[t].key \notin admitted'
  BY <1>2 DEF KeyKnown
<1>3. /\ r \in {"lru", "life"} /\ Position(r) \in 1..Len(rules) /\ Len(rules) \in Nat
      /\ rules[Position(r)] = r
  BY <1>1, OnePosition DEF RuleKinds
<1>4. frame[t].i \in Nat
  BY <1>1 DEF Frame
<1> DEFINE k == frame[t].key
<1>5. frame[t].op = "set" /\ frame'[t].key = k /\ k \in Keys
  BY StartsStoring
<1>6. CASE ~Storing(t, k, r)
  <2>1. CASE r = "lru" /\ LruOnSetInsert(t)
    BY <1>1, <1>5, <2>1, LruOps DEF LruOnSetInsert, Tracks
  <2>2. CASE r = "life" /\ LifeOnSet(t)
    <3>1. clock + frame[t].ttl \in Nat
      BY <1>1 DEF Frame, InMemoryTypeOK
    <3> QED BY <1>1, <1>5, <2>2, <3>1, LifeOps DEF LifeOnSet, Tracks
  <2> QED BY <1>6, <2>1, <2>2, StartsStoring
<1>7. CASE Storing(t, k, r) /\ k \in Tracks(r)
  <2> SUFFICES ASSUME k \notin Tracks(r)'
               PROVE  Precedes(r, "max") /\ Refused(t)' /\ k \notin admitted'
    BY <1>5
  <2>1. \/ frame[t].i > Position(r)
        \/ frame[t].i = Position(r) /\ frame[t].pc # "on_set"
    BY <1>7 DEF Storing, At
  <2>2. ASSUME LruOnSetPop(t), k = LruOldest PROVE FALSE
    BY <1>1, <2>2, OldestIsOther DEF LruOnSetPop, KeyWarmest, At
  <2>3. ~LifeOnGetCheck(t) /\ frame[t].pc # "on_clear"
    BY <1>1, <1>5 DEF LifeOnGetCheck, At, FrameOK, GetLabels
  <2>4. frame[t].pc = "on_evict" /\ k = frame[t].victim /\ frame'[t].pc = "on_evict"
    BY <1>3, <1>7, <2>2, <2>3, Forgotten
  <2>5. InRule(t, "max")
    BY <1>5, <2>4 DEF VictimIsOther
  <2>6. "max" \in Active /\ frame[t].i \in DOMAIN rules /\ rules[frame[t].i] = "max"
    BY <2>5 DEF InRule, Active, ToSet
  <2>7. Position("max") = frame[t].i
    BY <1>1, <2>6, OnePosition
  <2>8. Precedes(r, "max")
    BY <1>3, <1>4, <2>1, <2>6, <2>7 DEF Precedes
  <2>9. frame'[t].i = frame[t].i
    BY <1>4, <1>5, <2>4, <2>7, <2>8, StartsStoring
  <2>10. Refused(t)'
    BY <1>2, <2>4, <2>7, <2>9 DEF Refused
  <2>11. k \notin admitted'
    BY <1>5, <2>4, <2>5, OnlyAddAdmits DEF RefusedIsOut, MaxOnSetAdd, At
  <2> QED BY <2>8, <2>10, <2>11
<1>8. CASE Storing(t, k, r) /\ k \notin Tracks(r)
  <2>1. Precedes(r, "max") /\ Refused(t) /\ k \notin admitted
    BY <1>8 DEF KeyKnown
  <2>2. "max" \in Active /\ Position("max") \in Nat
    BY <1>1, <2>1, OnePosition DEF Precedes
  <2>3. /\ frame'[t].op = "set"
        /\ \/ frame'[t].i = frame[t].i /\ frame'[t].pc # "on_set"
           \/ frame'[t].i = frame[t].i + 1 /\ frame'[t].pc = "on_set"
    BY StartsStoring
  <2>4. Refused(t)' /\ ~MaxOnSetAdd(t)
    BY <1>5, <2>1, <2>2, <2>3, RefusedStays
  <2>5. admitted' \subseteq admitted
    BY <2>4, OnlyAddAdmits
  <2> QED BY <1>5, <2>1, <2>4, <2>5
<1> QED BY <1>6, <1>7, <1>8

(* Only the last step of set changes an entry or adds one. *)
LEMMA OnlyStoreAdds ==
  ASSUME TypeOK, NEW t \in Threads, Call(t) \/ Step(t), ~Store(t)
  PROVE  /\ DOMAIN cache' \subseteq DOMAIN cache
         /\ \A k \in DOMAIN cache' : cache'[k] = cache[k]
<1> DEFINE Kept == /\ DOMAIN cache' \subseteq DOMAIN cache
                   /\ \A k \in DOMAIN cache' : cache'[k] = cache[k]
<1>1. FrameOK(frame[t]) /\ InMemoryTypeOK
  BY StepContext
<1>2. CASE UNCHANGED cache
  BY <1>2
<1>3. ASSUME NEW k \in Keys, StorageEvict(k) PROVE Kept
  BY <1>3 DEF StorageEvict, Restrict
<1>4. CASE EffectEvict(t)
  BY <1>1, <1>3, <1>4 DEF EffectEvict, At, FrameOK
<1>5. CASE Clear(t)
  BY <1>5 DEF Clear, StorageClear, Restrict
<1>6. CASE Call(t)
  BY <1>2, <1>3, <1>5, <1>6 DEF Call, Set, Get, Evict
<1>7. CASE SetStep(t)
  BY <1>2, <1>7 DEF SetStep, LruOnSetInsert, LruOnSetMove, LruOnSetKeyError, LruOnSetLen,
       LruOnSetPop, LruOnSetPopKeyError, MaxOnSetIn, MaxOnSetLen, MaxOnSetAdd, LifeOnSet
<1>8. CASE GetStep(t)
  BY <1>2, <1>8 DEF GetStep, LruOnGetIn, LruOnGetMove, LruOnGetKeyError, MaxOnGet,
       LifeOnGetRead, LifeOnGetCheck, GetReturn
<1>9. CASE EvictStep(t)
  BY <1>2, <1>4, <1>9 DEF EvictStep, LruOnEvict, MaxOnEvict, LifeOnEvict, EvictReturn, EffectDone
<1>10. CASE ClearStep(t)
  BY <1>2, <1>10 DEF ClearStep, LruOnClear, MaxOnClear, LifeOnClear, ClearReturn
<1> QED BY <1>6, <1>7, <1>8, <1>9, <1>10 DEF Step

(* Whatever is stored stays within the reach of the rules: a key comes in   *)
(* known, and a rule that forgets one is the cause or the consequence of    *)
(* its removal.                                                             *)
LEMMA StoredIsTrackedStep ==
  ASSUME TypeOK, NEW t \in Threads, Threads = {t}, Call(t) \/ Step(t),
         KeyKnown(t), GoneFirst(t), StoredIsTracked
  PROVE  StoredIsTracked'
<1>1. /\ frame \in [Threads -> Frame] /\ frame[t] \in Frame /\ FrameOK(frame[t])
      /\ LruOK /\ LifeOK /\ LabelsOK /\ rules' = rules /\ rules \in RuleLists /\ InMemoryTypeOK
  BY StepContext
<1>2. \A r, q : /\ Active' = Active /\ Position(r)' = Position(r)
                /\ Precedes(r, q)' <=> Precedes(r, q)
  BY <1>1 DEF Active, Precedes, Position
<1> SUFFICES ASSUME NEW r \in Active \ {"max"}, NEW k \in DOMAIN cache'
             PROVE  Known(r, k)' \/ (frame'[t].pc = "delete" /\ frame'[t].victim = k)
  BY <1>2 DEF StoredIsTracked, At
<1>3. Known(r, k)' <=> k \in Tracks(r)' \/ (Precedes(r, "max") /\ k \notin admitted')
  BY <1>2 DEF Known
<1>4. r \in {"lru", "life"} /\ Position(r) \in 1..Len(rules) /\ Len(rules) \in Nat
  BY <1>1, OnePosition DEF RuleKinds
<1>5. k \in DOMAIN cache => Known(r, k) \/ (frame[t].pc = "delete" /\ frame[t].victim = k)
  BY DEF StoredIsTracked, At
<1>6. CASE Store(t)
  <2>1. /\ frame[t].key \in Keys /\ frame[t].value \in Values /\ frame[t].ttl \in Nat
        /\ frame[t].op = "set" /\ frame[t].i > Len(rules) /\ frame[t].i \in Nat
        /\ frame[t].pc = "on_set"
    BY <1>1, <1>6 DEF Store, OuterDone, At, Frame, FrameOK, SetLabels
  <2>2. DOMAIN cache' = DOMAIN cache \cup {frame[t].key}
    BY <1>1, <1>6, <2>1, StorageOps DEF Store
  <2>3. Known(r, frame[t].key)
    BY <1>4, <2>1 DEF KeyKnown, Storing, Known
  <2>4. Tracks(r)' = Tracks(r) /\ admitted' = admitted
    BY <1>4, <1>6 DEF Store, Tracks, LruTracked, ruleState
  <2> QED BY <1>5, <1>3, <2>1, <2>2, <2>3, <2>4 DEF Known
<1>7. CASE ~Store(t)
  <2>1. k \in DOMAIN cache
    BY <1>7, OnlyStoreAdds
  <2>2. CASE k \in Tracks(r)
    <3>1. ASSUME LruOnSetPop(t), k = LruOldest PROVE frame'[t].pc = "delete" /\ frame'[t].victim = k
      BY <1>1, <3>1 DEF LruOnSetPop, Effect, Frame
    <3>2. ASSUME frame'[t].pc = "on_evict", frame[t].pc = "on_evict", k = frame[t].victim PROVE FALSE
      BY <2>1, <3>2 DEF GoneFirst, At, Stored
    <3>3. ASSUME frame[t].pc = "on_clear" PROVE FALSE
      BY <2>1, <3>3 DEF GoneFirst, At
    <3> QED BY <1>4, <1>3, <2>2, <3>1, <3>2, <3>3, Forgotten
  <2>3. CASE k \notin Tracks(r) /\ Precedes(r, "max") /\ k \notin admitted
    <3>1. ASSUME MaxOnSetAdd(t), frame[t].key = k PROVE FALSE
      <4>1. frame[t].pc = "max_add" /\ InRule(t, "max") /\ frame[t].op = "set"
        BY <1>1, <3>1 DEF MaxOnSetAdd, At, LabelsOK, FrameOK, SetLabels
      <4>2. "max" \in Active /\ frame[t].i \in DOMAIN rules /\ rules[frame[t].i] = "max"
        BY <4>1 DEF InRule, Active, ToSet
      <4>3. Position("max") = frame[t].i /\ frame[t].i \in Nat
        BY <1>1, <4>2, OnePosition DEF Frame
      <4>4. frame[t].i > Position(r) /\ ~Refused(t)
        BY <1>4, <2>3, <4>1, <4>3 DEF Precedes, Refused
      <4> QED BY <2>3, <3>1, <4>1, <4>4 DEF KeyKnown, Storing
    <3>2. k \notin admitted'
      BY <2>3, <3>1, OnlyAddAdmits DEF MaxOnSetAdd, HardAdmit
    <3> QED BY <1>3, <2>3, <3>2
  <2>4. CASE frame[t].pc = "delete" /\ frame[t].victim = k
    <3>1. EffectEvict(t)
      BY <2>4 DEF Call, Set, Get, Evict, Clear, Step, SetStep, LruOnSetInsert, LruOnSetMove,
         LruOnSetKeyError, LruOnSetLen, LruOnSetPop, LruOnSetPopKeyError, MaxOnSetIn, MaxOnSetLen,
         MaxOnSetAdd, LifeOnSet, Store, GetStep, LruOnGetIn, LruOnGetMove, LruOnGetKeyError,
         MaxOnGet, LifeOnGetRead, LifeOnGetCheck, GetReturn, EvictStep, LruOnEvict, MaxOnEvict,
         LifeOnEvict, EvictReturn, EffectDone, ClearStep, LruOnClear, MaxOnClear, LifeOnClear,
         ClearReturn, Outer, OuterDone, Inner, InnerDone, At
    <3>2. k \notin DOMAIN cache'
      BY <1>1, <2>4, <3>1, StorageOps DEF EffectEvict, FrameOK
    <3> QED BY <3>2
  <2> QED BY <1>5, <2>1, <2>2, <2>4, <2>3 DEF Known
<1> QED BY <1>6, <1>7

-----------------------------------------------------------------------------
(* The capacity of the LRU rule. *)

(* A sequence without duplicates has as many elements as places. *)
LEMMA DistinctLength ==
  ASSUME NEW S, NEW s \in Seq(S), IsInjective(s)
  PROVE  IsFiniteSet(ToSet(s)) /\ Cardinality(ToSet(s)) = Len(s)
<1>1. DOMAIN s = 1..Len(s) /\ Len(s) \in Nat
  BY LenProperties
<1>2. s \in Bijection(1..Len(s), ToSet(s))
  <2>1. s \in [1..Len(s) -> ToSet(s)]
    BY <1>1 DEF ToSet
  <2>2. \A v \in ToSet(s) : \E n \in 1..Len(s) : s[n] = v
    BY <1>1 DEF ToSet
  <2> QED BY <2>1, <2>2 DEF Bijection, Injection, Surjection
<1>3. IsFiniteSet(1..Len(s)) /\ Cardinality(1..Len(s)) = Len(s)
  BY <1>1, FS_Interval
<1> QED BY <1>2, <1>3, FS_Bijection DEF ExistsBijection

(* Between the insert of a set and its popitem the rule may remember one    *)
(* key too many, and at no other time.                                      *)
Popping(t) == frame[t].pc \in {"lru_move", "lru_len", "lru_pop"}
LruRoom(t) == Cardinality(LruTracked) <= LruMaxItems + (IF Popping(t) THEN 1 ELSE 0)

LEMMA LruRoomStep ==
  ASSUME TypeOK, NEW t \in Threads, Call(t) \/ Step(t), KeyWarmest(t), LruRoom(t)
  PROVE  LruRoom(t)'
<1>1. /\ frame \in [Threads -> Frame] /\ frame[t] \in Frame /\ FrameOK(frame[t])
      /\ LruOK /\ LruOK' /\ LifeOK /\ InMemoryTypeOK
  BY StepContext
<1>2. /\ IsFiniteSet(LruTracked) /\ IsFiniteSet(LruTracked')
      /\ Cardinality(LruTracked) = Len(accessOrder) /\ Cardinality(LruTracked) \in Nat
      /\ Cardinality(LruTracked') \in Nat /\ LruMaxItems \in Nat
  BY <1>1, DistinctLength, LenProperties, LruAssumption DEF LruOK, LruTracked
<1>3. ASSUME LruTracked' \subseteq LruTracked
      PROVE  Cardinality(LruTracked') <= Cardinality(LruTracked)
  BY <1>2, <1>3, FS_Subset
<1>4. CASE LruOnSetInsert(t)
  <2>1. LruTracked' = LruTracked \cup {frame[t].key}
    BY <1>1, <1>4, LruOps DEF LruOnSetInsert, Outer, At, FrameOK, SetLabels
  <2>2. Cardinality(LruTracked') <= Cardinality(LruTracked) + 1
    <3>1. Cardinality(LruTracked \cup {frame[t].key})
            = IF frame[t].key \in LruTracked THEN Cardinality(LruTracked) ELSE Cardinality(LruTracked) + 1
      BY <1>2, FS_AddElement
    <3> QED BY <1>2, <2>1, <3>1
  <2>3. frame[t].pc = "on_set" /\ frame'[t].pc = "lru_move"
    BY <1>1, <1>4 DEF LruOnSetInsert, Outer, At, Goto, Frame
  <2> QED BY <1>2, <2>2, <2>3 DEF LruRoom, Popping
<1>5. CASE LruOnSetMove(t)
  <2>1. LruTracked' = LruTracked
    BY <1>1, <1>5, LruOps DEF LruOnSetMove, At, FrameOK, SetLabels
  <2>2. frame[t].pc = "lru_move" /\ frame'[t].pc = "lru_len"
    BY <1>1, <1>5 DEF LruOnSetMove, At, Goto, Frame
  <2> QED BY <2>1, <2>2 DEF LruRoom, Popping
<1>6. CASE LruOnSetLen(t)
  <2>1. LruTracked' = LruTracked /\ frame[t].pc = "lru_len"
    BY <1>6 DEF LruOnSetLen, LruTracked, ruleState, At
  <2>2. CASE LruOverfull
    <3>1. frame'[t].pc = "lru_pop"
      BY <1>1, <1>6, <2>2 DEF LruOnSetLen, Goto, Frame
    <3> QED BY <2>1, <3>1 DEF LruRoom, Popping
  <2>3. CASE ~LruOverfull
    BY <1>2, <2>1, <2>3 DEF LruRoom, LruOverfull
  <2> QED BY <2>2, <2>3
<1>7. CASE LruOnSetPop(t)
  <2>1. LruTracked' = LruTracked \ {LruOldest} /\ LruOldest \in LruTracked
    <3>1. frame[t].key \in Keys /\ accessOrder # <<>>
      BY <1>1, <1>7 DEF LruOnSetPop, At, FrameOK, SetLabels
    <3>2. LruTracked' = LruTracked \ {LruOldest}
      BY <1>1, <1>7, <3>1, LruOps DEF LruOnSetPop
    <3>3. LruOldest = accessOrder[1] /\ 1 \in DOMAIN accessOrder
      BY <1>1, <3>1, HeadTailProperties, LenProperties, EmptySeq DEF LruOK, LruOldest
    <3> QED BY <3>2, <3>3 DEF LruTracked, ToSet
  <2>2. Cardinality(LruTracked') = Cardinality(LruTracked) - 1
    BY <1>2, <2>1, FS_RemoveElement
  <2>3. Cardinality(LruTracked) <= LruMaxItems + 1
    BY <1>2 DEF LruRoom
  <2> QED BY <1>2, <2>2, <2>3 DEF LruRoom
<1>8. ASSUME LruOnSetKeyError(t) \/ LruOnSetPopKeyError(t) PROVE FALSE
  BY <1>8 DEF LruOnSetKeyError, LruOnSetPopKeyError, KeyWarmest, At
<1>9. CASE ~Popping(t) /\ ~LruOnSetInsert(t)
  <2>1. LruTracked' \subseteq LruTracked
    <3>1. CASE LifeOnSet(t) \/ MaxOnSetAdd(t)
      BY <3>1 DEF LifeOnSet, MaxOnSetAdd, LruTracked
    <3> QED BY <1>9, <3>1, RulesForget
  <2> QED BY <1>2, <1>3, <1>9, <2>1 DEF LruRoom
<1>10. Popping(t) => \/ LruOnSetMove(t) \/ LruOnSetLen(t) \/ LruOnSetPop(t)
                     \/ LruOnSetKeyError(t) \/ LruOnSetPopKeyError(t)
  BY DEF Popping, Call, Set, Get, Evict, Clear, Step, SetStep, LruOnSetInsert, MaxOnSetIn,
     MaxOnSetLen, MaxOnSetAdd, LifeOnSet, Store, GetStep, LruOnGetIn, LruOnGetMove,
     LruOnGetKeyError, MaxOnGet, LifeOnGetRead, LifeOnGetCheck, GetReturn, EvictStep, EffectEvict,
     LruOnEvict, MaxOnEvict, LifeOnEvict, EvictReturn, EffectDone, ClearStep, LruOnClear,
     MaxOnClear, LifeOnClear, ClearReturn, Outer, OuterDone, Inner, InnerDone, At
<1> QED BY <1>4, <1>5, <1>6, <1>7, <1>8, <1>9, <1>10

(* The storage grows only when a set stores a key the rule knows, and then  *)
(* the rule has made room.                                                  *)
LruBoundOK ==
  "lru" \in Active /\ ~Precedes("lru", "max") =>
    IsFiniteSet(DOMAIN cache) /\ Cardinality(DOMAIN cache) <= LruMaxItems

LEMMA LruBoundStep ==
  ASSUME TypeOK, NEW t \in Threads, Threads = {t}, Call(t) \/ Step(t),
         StoredIsTracked', LruRoom(t)', LruBoundOK
  PROVE  LruBoundOK'
<1>1. /\ frame \in [Threads -> Frame] /\ LruOK' /\ rules' = rules
  BY StepContext
<1>2. Active' = Active /\ (Precedes("lru", "max")' <=> Precedes("lru", "max"))
  BY <1>1 DEF Active, Precedes, Position
<1> SUFFICES ASSUME "lru" \in Active, ~Precedes("lru", "max")
             PROVE  IsFiniteSet(DOMAIN cache') /\ Cardinality(DOMAIN cache') <= LruMaxItems
  BY <1>2 DEF LruBoundOK
<1>3. CASE Store(t)
  <2>1. frame'[t].pc = "idle"
    BY <1>1, <1>3 DEF Store, Return, Idle
  <2>2. DOMAIN cache' \subseteq LruTracked'
    BY <1>2, <2>1 DEF StoredIsTracked, Known, Tracks, At
  <2>3. IsFiniteSet(LruTracked') /\ Cardinality(LruTracked') <= LruMaxItems
    BY <1>1, <2>1, DistinctLength, LruAssumption DEF LruRoom, Popping, LruOK, LruTracked
  <2>4. Cardinality(LruTracked') \in Nat /\ LruMaxItems \in Nat
    BY <2>3, FS_CardinalityType, LruAssumption
  <2>5. IsFiniteSet(DOMAIN cache') /\ Cardinality(DOMAIN cache') <= Cardinality(LruTracked')
    BY <2>2, <2>3, FS_Subset
  <2>6. Cardinality(DOMAIN cache') \in Nat
    BY <2>5, FS_CardinalityType
  <2> QED BY <2>3, <2>4, <2>5, <2>6
<1>4. CASE ~Store(t)
  <2>1. DOMAIN cache' \subseteq DOMAIN cache
    BY <1>4, OnlyStoreAdds
  <2>2. IsFiniteSet(DOMAIN cache) /\ Cardinality(DOMAIN cache) <= LruMaxItems
    BY DEF LruBoundOK
  <2>3. IsFiniteSet(DOMAIN cache') /\ Cardinality(DOMAIN cache') <= Cardinality(DOMAIN cache)
    BY <2>1, <2>2, FS_Subset
  <2>4. /\ Cardinality(DOMAIN cache) \in Nat /\ Cardinality(DOMAIN cache') \in Nat
        /\ LruMaxItems \in Nat
    BY <2>2, <2>3, FS_CardinalityType, LruAssumption
  <2> QED BY <2>2, <2>3, <2>4
<1> QED BY <1>3, <1>4

-----------------------------------------------------------------------------
(* What holds at every step of a storage with one caller. *)
SeqIInv ==
  /\ \A t \in Threads : /\ KeyKnown(t) /\ KeyWarmest(t) /\ VictimIsOther(t)
                         /\ RefusedIsOut(t) /\ GoneFirst(t) /\ LruRoom(t)
  /\ StoredIsTracked
  /\ LruBoundOK

LEMMA SeqIInvInit == Init => SeqIInv
<1> SUFFICES ASSUME Init PROVE SeqIInv
  OBVIOUS
<1>1. \A t \in Threads : frame[t].pc = "idle" /\ frame[t].op = "none"
  BY DEF Init, Idle
<1>2. DOMAIN cache = {} /\ LruTracked = {}
  BY DEF Init, InMemoryInit, LruInit, LruTracked, ToSet
<1>3. Cardinality({}) = 0 /\ IsFiniteSet({}) /\ LruMaxItems \in Nat
  BY FS_EmptySet, LruAssumption
<1>4. StoredIsTracked /\ LruBoundOK
  BY <1>2, <1>3 DEF StoredIsTracked, LruBoundOK
<1>5. \A t \in Threads : LruRoom(t)
  BY <1>1, <1>2, <1>3 DEF LruRoom, Popping
<1>6. \A t \in Threads : /\ KeyKnown(t) /\ KeyWarmest(t) /\ VictimIsOther(t)
                          /\ RefusedIsOut(t) /\ GoneFirst(t)
  BY <1>1 DEF KeyKnown, Storing, KeyWarmest, VictimIsOther, RefusedIsOut, GoneFirst, At
<1> QED BY <1>4, <1>5, <1>6 DEF SeqIInv

LEMMA SeqIInvStep ==
  ASSUME NEW t0, Threads = {t0}, TypeOK, SeqIInv, [Next]_vars
  PROVE  SeqIInv'
<1>1. CASE Tick \/ UNCHANGED vars
  <2>1. UNCHANGED <<cache, accessOrder, admitted, expiryTimes, rules, frame>>
    BY <1>1 DEF Tick, vars, ruleState
  <2>2. /\ LruTracked' = LruTracked /\ Active' = Active /\ (LruOverfull' <=> LruOverfull)
        /\ \A r : Tracks(r)' = Tracks(r) /\ Position(r)' = Position(r)
    BY <2>1 DEF LruTracked, Active, Tracks, LruOverfull, Position
  <2>3. \A r, s : Precedes(r, s)' <=> Precedes(r, s)
    BY <2>2 DEF Precedes
  <2>4. \A t, r : Storing(t, frame[t].key, r)' <=> Storing(t, frame[t].key, r)
    BY <2>1, <2>2 DEF Storing, At
  <2>5. \A t \in Threads : KeyKnown(t)'
    BY <2>1, <2>2, <2>3, <2>4 DEF SeqIInv, KeyKnown, Refused
  <2>6. \A t \in Threads : /\ KeyWarmest(t)' /\ VictimIsOther(t)' /\ RefusedIsOut(t)'
                           /\ GoneFirst(t)' /\ LruRoom(t)'
    BY <2>1, <2>2 DEF SeqIInv, KeyWarmest, VictimIsOther, RefusedIsOut, GoneFirst, LruRoom, Popping,
       At, Stored, InRule
  <2>7. StoredIsTracked' /\ LruBoundOK'
    BY <2>1, <2>2, <2>3 DEF SeqIInv, StoredIsTracked, Known, LruBoundOK, At
  <2> QED BY <2>5, <2>6, <2>7 DEF SeqIInv
<1>2. ASSUME NEW t \in Threads, Call(t) \/ Step(t) PROVE SeqIInv'
  <2>1. Threads = {t}
    OBVIOUS
  <2>2. /\ KeyKnown(t) /\ KeyWarmest(t) /\ VictimIsOther(t) /\ RefusedIsOut(t)
        /\ GoneFirst(t) /\ LruRoom(t) /\ StoredIsTracked /\ LruBoundOK
    BY DEF SeqIInv
  <2>3. /\ KeyKnown(t)' /\ KeyWarmest(t)' /\ VictimIsOther(t)' /\ RefusedIsOut(t)'
        /\ GoneFirst(t)' /\ LruRoom(t)'
    BY <1>2, <2>2, KeyKnownStep, KeyWarmestStep, VictimIsOtherStep, RefusedIsOutStep,
       GoneFirstStep, LruRoomStep
  <2>4. StoredIsTracked'
    BY <1>2, <2>1, <2>2, StoredIsTrackedStep
  <2>5. LruBoundOK'
    BY <1>2, <2>1, <2>2, <2>3, <2>4, LruBoundStep
  <2> QED BY <2>1, <2>3, <2>4, <2>5 DEF SeqIInv
<1> QED BY <1>1, <1>2 DEF Next

(* With one caller every stored key is in reach of the LRU and the          *)
(* life-time rule, whatever the calls before, the rules and their limits,   *)
(* unless a hard-limit rule behind them has refused it.                     *)
THEOREM StoredStaysTracked ==
  ASSUME NEW t0, Threads = {t0}
  PROVE  Spec => []StoredIsTracked
<1>1. TypeOK /\ SeqIInv /\ [Next]_vars => SeqIInv'
  BY SeqIInvStep
<1>2. SeqIInv => StoredIsTracked
  BY DEF SeqIInv
<1> QED BY <1>1, <1>2, SeqIInvInit, TypeCorrect, PTL DEF Spec

(* With one caller the storage never holds more entries than the LRU rule   *)
(* allows, not even between two steps of a set.                             *)
THEOREM LruCapacityHolds ==
  ASSUME NEW t0, Threads = {t0}
  PROVE  Spec => []LruBound
<1>1. TypeOK /\ SeqIInv /\ [Next]_vars => SeqIInv'
  BY SeqIInvStep
<1>2. SeqIInv => LruBound
  BY DEF SeqIInv, LruBoundOK, LruBound
<1> QED BY <1>1, <1>2, SeqIInvInit, TypeCorrect, PTL DEF Spec


-----------------------------------------------------------------------------
(* Expired values. *)

LifeCounts == "life" \in Active /\ ~Precedes("life", "max")

(* The rule never believes in a longer life than the entry has: a set tells *)
(* it the time before it stores the entry.                                  *)
ExpiryTold(t) ==
  Storing(t, frame[t].key, "life") => expiryTimes[frame[t].key] <= clock + frame[t].ttl

ExpiryAgrees(t) ==
  \A k \in DOMAIN cache \cap DOMAIN expiryTimes :
    expiryTimes[k] <= cache[k].expiry \/ (frame[t].op = "set" /\ frame[t].key = k)

(* A get that has read an expired entry has removed it when it has passed   *)
(* the life-time rule.                                                      *)
LateIsRemoved(t) ==
  frame[t].op = "get" /\ frame[t].expired =>
    /\ Stored(frame[t].key) => cache[frame[t].key].expiry <= clock
    /\ At(t, "life_check") /\ Stored(frame[t].key) => frame[t].seen <= clock
    /\ At(t, "delete") => frame[t].victim = frame[t].key
    /\ \/ frame[t].i > Position("life")
       \/ frame[t].i = Position("life") /\ frame[t].pc \notin {"on_get", "life_check", "delete"}
       => ~Stored(frame[t].key)

(* The life-time rule changes what it knows of a key only in its on_set. *)
LEMMA OnlyLifeOnSetTells ==
  ASSUME TypeOK, NEW t \in Threads, Call(t) \/ Step(t), ~LifeOnSet(t)
  PROVE  \A k \in DOMAIN expiryTimes' : k \in DOMAIN expiryTimes /\ expiryTimes'[k] = expiryTimes[k]
<1> DEFINE Kept == \A k \in DOMAIN expiryTimes' :
                     k \in DOMAIN expiryTimes /\ expiryTimes'[k] = expiryTimes[k]
<1> SUFFICES Kept
  OBVIOUS
<1>1. CASE UNCHANGED expiryTimes
  BY <1>1
<1>2. ASSUME NEW k, LifeForget(k) PROVE Kept
  BY <1>2 DEF LifeForget, Restrict
<1>3. LifeForgetAll => Kept
  BY DEF LifeForgetAll, Restrict
<1> HIDE DEF Kept
<1>4. CASE Call(t)
  BY <1>1, <1>4 DEF Call, Set, Get, Evict, Clear, ruleState
<1>5. CASE SetStep(t)
  BY <1>1, <1>5 DEF SetStep, LruOnSetInsert, LruOnSetMove, LruOnSetKeyError, LruOnSetLen,
     LruOnSetPop, LruOnSetPopKeyError, MaxOnSetIn, MaxOnSetLen, MaxOnSetAdd, Store, ruleState
<1>6. CASE GetStep(t)
  BY <1>1, <1>2, <1>6 DEF GetStep, LruOnGetIn, LruOnGetMove, LruOnGetKeyError, MaxOnGet,
     LifeOnGetRead, LifeOnGetCheck, GetReturn, ruleState
<1>7. CASE EvictStep(t)
  BY <1>1, <1>2, <1>7 DEF EvictStep, EffectEvict, LruOnEvict, MaxOnEvict, LifeOnEvict,
     EvictReturn, EffectDone, ruleState
<1>8. CASE ClearStep(t)
  BY <1>1, <1>3, <1>8 DEF ClearStep, LruOnClear, MaxOnClear, LifeOnClear, ClearReturn, ruleState
<1> QED BY <1>4, <1>5, <1>6, <1>7, <1>8 DEF Step

(* With one caller a set goes on to store its key: no KeyError ends it. *)
LEMMA SetGoesOn ==
  ASSUME TypeOK, NEW t \in Threads, Call(t) \/ Step(t), KeyWarmest(t),
         frame[t].op = "set", ~Store(t)
  PROVE  frame'[t].op = "set" /\ frame'[t].key = frame[t].key /\ frame'[t].ttl = frame[t].ttl
<1>1. /\ frame \in [Threads -> Frame] /\ frame[t] \in Frame /\ FrameOK(frame[t])
  BY StepContext
<1>2. ~LruOnSetKeyError(t) /\ ~LruOnSetPopKeyError(t)
  BY DEF LruOnSetKeyError, LruOnSetPopKeyError, KeyWarmest, At
<1>3. ~Call(t) /\ ~GetStep(t) /\ ~ClearStep(t) /\ ~EvictReturn(t)
  BY <1>1 DEF Call, Set, Get, Evict, Clear, GetStep, LruOnGetIn, LruOnGetMove, LruOnGetKeyError,
     MaxOnGet, LifeOnGetRead, LifeOnGetCheck, GetReturn, ClearStep, LruOnClear, MaxOnClear,
     LifeOnClear, ClearReturn, EvictReturn, Outer, OuterDone, Inner, InnerDone, At, FrameOK,
     GetLabels
<1> USE <1>1 DEF Frame, Goto, NextOuter, NextInner, Effect
<1>4. CASE SetStep(t)
  BY <1>2, <1>4 DEF SetStep, LruOnSetInsert, LruOnSetMove, LruOnSetLen, LruOnSetPop, MaxOnSetIn,
     MaxOnSetLen, MaxOnSetAdd, LifeOnSet
<1>5. CASE EvictStep(t)
  BY <1>3, <1>5 DEF EvictStep, EffectEvict, LruOnEvict, MaxOnEvict, LifeOnEvict, EffectDone
<1> QED BY <1>3, <1>4, <1>5 DEF Step

LEMMA ExpiryStep ==
  ASSUME TypeOK, NEW t \in Threads, Call(t) \/ Step(t), LifeCounts,
         KeyKnown(t), KeyKnown(t)', KeyWarmest(t), ExpiryTold(t), ExpiryAgrees(t)
  PROVE  ExpiryTold(t)' /\ ExpiryAgrees(t)'
<1>1. /\ frame \in [Threads -> Frame] /\ frame[t] \in Frame /\ FrameOK(frame[t])
      /\ LifeOK /\ InMemoryTypeOK /\ rules' = rules /\ rules \in RuleLists
  BY StepContext
<1>2. "life" \in Active \ {"max"} /\ ~Precedes("life", "max")
  BY DEF LifeCounts
<1>3. Position("life") \in 1..Len(rules) /\ Len(rules) \in Nat /\ Position("life")' = Position("life")
  BY <1>1, <1>2, OnePosition DEF Position
<1>4. Storing(t, frame[t].key, "life") => frame[t].key \in DOMAIN expiryTimes
  BY <1>2 DEF KeyKnown, Tracks
<1>5. clock' = clock
  BY DEF Call, Set, Get, Evict, Clear, Step, SetStep, LruOnSetInsert, LruOnSetMove,
     LruOnSetKeyError, LruOnSetLen, LruOnSetPop, LruOnSetPopKeyError, MaxOnSetIn, MaxOnSetLen,
     MaxOnSetAdd, LifeOnSet, Store, GetStep, LruOnGetIn, LruOnGetMove, LruOnGetKeyError,
     MaxOnGet, LifeOnGetRead, LifeOnGetCheck, GetReturn, EvictStep, EffectEvict, LruOnEvict,
     MaxOnEvict, LifeOnEvict, EvictReturn, EffectDone, ClearStep, LruOnClear, MaxOnClear,
     LifeOnClear, ClearReturn
<1>6. ASSUME LifeOnSet(t)
      PROVE  /\ frame[t].key \in Keys /\ frame[t].op = "set" /\ clock + frame[t].ttl \in Nat
             /\ frame'[t].op = "set" /\ frame'[t].key = frame[t].key /\ frame'[t].ttl = frame[t].ttl
             /\ DOMAIN expiryTimes' = DOMAIN expiryTimes \cup {frame[t].key}
             /\ expiryTimes'[frame[t].key] = clock + frame[t].ttl
             /\ \A k \in DOMAIN expiryTimes \ {frame[t].key} : expiryTimes'[k] = expiryTimes[k]
             /\ UNCHANGED cache
  BY <1>1, <1>6 DEF LifeOnSet, LifeRecord, NextOuter, Outer, At, Frame, FrameOK, SetLabels, InMemoryTypeOK
<1>7. ExpiryTold(t)'
  <2> SUFFICES ASSUME Storing(t, frame[t].key, "life")'
               PROVE  expiryTimes'[frame'[t].key] <= clock + frame'[t].ttl
    BY <1>5 DEF ExpiryTold
  <2>1. frame[t].op = "set" /\ frame'[t].key = frame[t].key
    BY <1>2, StartsStoring
  <2>2. CASE LifeOnSet(t)
    BY <1>6, <2>2
  <2>3. CASE ~LifeOnSet(t)
    <3>1. Storing(t, frame[t].key, "life")
      BY <1>2, <2>3, StartsStoring
    <3>2. ~Precedes("life", "max")'
      BY <1>1, <1>2 DEF Precedes, Active, Position
    <3>3. frame'[t].key \in DOMAIN expiryTimes'
      BY <1>1, <1>2, <3>2 DEF KeyKnown, Tracks, Active
    <3>4. expiryTimes'[frame[t].key] = expiryTimes[frame[t].key]
      BY <2>1, <2>3, <3>3, OnlyLifeOnSetTells
    <3>5. ~Store(t)
      BY <1>1 DEF Store, Return, Idle, Storing
    <3>6. frame'[t].ttl = frame[t].ttl
      BY <2>1, <3>5, SetGoesOn
    <3> QED BY <2>1, <3>1, <3>4, <3>6 DEF ExpiryTold
  <2> QED BY <2>2, <2>3
<1>8. ExpiryAgrees(t)'
  <2> SUFFICES ASSUME NEW k \in DOMAIN cache' \cap DOMAIN expiryTimes'
               PROVE  expiryTimes'[k] <= cache'[k].expiry \/ (frame'[t].op = "set" /\ frame'[t].key = k)
    BY DEF ExpiryAgrees
  <2>1. CASE LifeOnSet(t)
    BY <1>6, <2>1 DEF ExpiryAgrees
  <2>2. CASE Store(t)
    <3>1. /\ frame[t].op = "set" /\ frame[t].i > Len(rules) /\ frame[t].i \in Nat
          /\ UNCHANGED expiryTimes
      BY <1>1, <2>2 DEF Store, OuterDone, At, Frame, FrameOK, SetLabels, ruleState
    <3>2. Storing(t, frame[t].key, "life")
      BY <1>3, <3>1 DEF Storing
    <3>3. CASE k = frame[t].key
      <4>1. cache'[k].expiry = clock + frame[t].ttl
        BY <2>2, <3>3 DEF Store, StorageSet
      <4> QED BY <3>1, <3>2, <3>3, <4>1 DEF ExpiryTold
    <3>4. CASE k # frame[t].key
      <4>1. k \in DOMAIN cache /\ cache'[k] = cache[k]
        BY <2>2, <3>4 DEF Store, StorageSet
      <4> QED BY <3>1, <3>4, <4>1 DEF ExpiryAgrees
    <3> QED BY <3>3, <3>4
  <2>3. CASE ~LifeOnSet(t) /\ ~Store(t)
    <3>1. /\ k \in DOMAIN cache \cap DOMAIN expiryTimes
          /\ cache'[k] = cache[k] /\ expiryTimes'[k] = expiryTimes[k]
      BY <2>3, OnlyStoreAdds, OnlyLifeOnSetTells
    <3>2. CASE expiryTimes[k] <= cache[k].expiry
      BY <3>1, <3>2
    <3>3. CASE frame[t].op = "set" /\ frame[t].key = k
      BY <2>3, <3>3, SetGoesOn
    <3> QED BY <3>1, <3>2, <3>3 DEF ExpiryAgrees
  <2> QED BY <2>1, <2>2, <2>3
<1> QED BY <1>7, <1>8


LEMMA LateIsRemovedStep ==
  ASSUME TypeOK, NEW t \in Threads, Threads = {t}, Call(t) \/ Step(t), LifeCounts,
         StoredIsTracked, ExpiryAgrees(t), LateIsRemoved(t)
  PROVE  LateIsRemoved(t)'
<1>1. /\ frame \in [Threads -> Frame] /\ frame[t] \in Frame /\ FrameOK(frame[t]) /\ LabelsOK
      /\ LifeOK /\ InMemoryTypeOK /\ rules' = rules /\ rules \in RuleLists
  BY StepContext
<1>2. "life" \in Active \ {"max"} /\ ~Precedes("life", "max")
  BY DEF LifeCounts
<1> DEFINE P == Position("life")
           k == frame[t].key
<1>3. /\ P \in 1..Len(rules) /\ Len(rules) \in Nat /\ DOMAIN rules = 1..Len(rules)
      /\ rules[P] = "life" /\ \A n \in DOMAIN rules : rules[n] = "life" => n = P
      /\ P' = P
  BY <1>1, <1>2, OnePosition DEF Position
<1> HIDE DEF P
<1> SUFFICES ASSUME frame'[t].op = "get", frame'[t].expired
             PROVE  /\ Stored(frame[t].key)' => cache'[frame'[t].key].expiry <= clock'
                    /\ frame'[t].pc = "life_check" /\ Stored(frame[t].key)' => frame'[t].seen <= clock'
                    /\ frame'[t].pc = "delete" => frame'[t].victim = frame'[t].key
                    /\ \/ frame'[t].i > P
                       \/ frame'[t].i = P /\ frame'[t].pc \notin {"on_get", "life_check", "delete"}
                       => ~Stored(frame[t].key)'
  BY <1>3 DEF LateIsRemoved, At, P
<1>4. frame[t].i \in Nat
  BY <1>1 DEF Frame
<1>5. ASSUME NEW l \in Keys, Get(t, l)
      PROVE  /\ frame'[t].key = l /\ frame'[t].pc = "on_get" /\ frame'[t].i = 1
             /\ cache[l].expiry <= clock /\ UNCHANGED <<cache, clock>>
  <2>1. frame'[t].expired = LifeExpired(cache[l].expiry, clock)
    BY <1>1, <1>5 DEF Get, Idle
  <2> QED BY <1>1, <1>5, <2>1 DEF Get, Idle, LifeExpired
<1>6. CASE \E l \in Keys : Get(t, l)
  BY <1>3, <1>5, <1>6
<1>7. CASE ~(\E l \in Keys : Get(t, l))
  <2> USE <1>1 DEF Frame, Goto, Return, Idle, NextOuter, NextInner, Effect
  <2>1. ~Call(t)
    <3>1. ASSUME NEW l \in Keys, NEW v \in Values, NEW ttl \in TTLs, Set(t, l, v, ttl) PROVE FALSE
      BY <3>1 DEF Set
    <3>2. ASSUME NEW l \in Keys, Evict(t, l) PROVE FALSE
      BY <3>2 DEF Evict
    <3>3. ASSUME Clear(t) PROVE FALSE
      BY <3>3 DEF Clear
    <3> QED BY <1>7, <3>1, <3>2, <3>3 DEF Call
  <2>2. ~SetStep(t)
    <3>1. SetStep(t) => frame'[t].op \in {"set", "none"}
      BY DEF SetStep, LruOnSetInsert, LruOnSetMove, LruOnSetKeyError, LruOnSetLen, LruOnSetPop,
         LruOnSetPopKeyError, MaxOnSetIn, MaxOnSetLen, MaxOnSetAdd, LifeOnSet, Store, Outer,
         OuterDone, At, FrameOK, SetLabels
    <3> QED BY <3>1
  <2>3. ~ClearStep(t)
    <3>1. ClearStep(t) => frame'[t].op \in {"clear", "none"}
      BY DEF ClearStep, LruOnClear, MaxOnClear, LifeOnClear, ClearReturn, Inner, InnerDone, At, FrameOK
    <3> QED BY <3>1
  <2>4. GetStep(t) \/ EvictStep(t)
    BY <2>1, <2>2, <2>3 DEF Step
  <2>5. /\ frame[t].op = "get" /\ frame'[t].key = k /\ frame[t].expired
        /\ UNCHANGED clock
    <3>1. GetStep(t) => frame[t].op = "get"
      BY DEF GetStep, LruOnGetIn, LruOnGetMove, LruOnGetKeyError, MaxOnGet, LifeOnGetRead,
         LifeOnGetCheck, GetReturn, Outer, OuterDone, At, FrameOK, GetLabels
    <3>2. CASE GetStep(t)
      BY <3>1, <3>2 DEF GetStep, LruOnGetIn, LruOnGetMove, LruOnGetKeyError, MaxOnGet,
         LifeOnGetRead, LifeOnGetCheck, GetReturn
    <3>3. CASE EvictStep(t)
      BY <3>3 DEF EvictStep, EffectEvict, LruOnEvict, MaxOnEvict, LifeOnEvict, EvictReturn, EffectDone
    <3> QED BY <2>4, <3>2, <3>3
  <2>6. /\ ~Store(t) /\ DOMAIN cache' \subseteq DOMAIN cache
        /\ \A l \in DOMAIN cache' : cache'[l] = cache[l]
    <3>1. ~Store(t)
      BY <2>2 DEF SetStep
    <3> QED BY <3>1, OnlyStoreAdds
  <2>7. /\ Stored(k) => cache[k].expiry <= clock
        /\ frame[t].pc = "life_check" /\ Stored(k) => frame[t].seen <= clock
        /\ frame[t].pc = "delete" => frame[t].victim = k
        /\ \/ frame[t].i > P
           \/ frame[t].i = P /\ frame[t].pc \notin {"on_get", "life_check", "delete"}
           => ~Stored(k)
    BY <2>5 DEF LateIsRemoved, At, P
  <2>8. k \in DOMAIN cache' => cache'[k].expiry <= clock'
    BY <2>5, <2>6, <2>7 DEF Stored
  <2> SUFFICES /\ frame'[t].pc = "life_check" /\ k \in DOMAIN cache' => frame'[t].seen <= clock'
               /\ frame'[t].pc = "delete" => frame'[t].victim = k
               /\ \/ frame'[t].i > P
                  \/ frame'[t].i = P /\ frame'[t].pc \notin {"on_get", "life_check", "delete"}
                  => k \notin DOMAIN cache'
    BY <2>5, <2>8 DEF Stored
  <2>9. CASE LruOnGetIn(t) \/ LruOnGetMove(t) \/ MaxOnGet(t)
    <3>1. frame[t].i # P
      BY <1>3, <2>9 DEF LruOnGetIn, LruOnGetMove, MaxOnGet, Outer, InRule, LabelsOK, At
    <3>2. /\ frame'[t].pc \in {"on_get", "lru_touch"}
          /\ frame'[t].i = frame[t].i \/ frame'[t].i = frame[t].i + 1
      BY <2>9 DEF LruOnGetIn, LruOnGetMove, MaxOnGet
    <3>3. frame'[t].i >= P => frame[t].i > P \/ (frame'[t].i = P /\ frame'[t].pc = "on_get")
      BY <1>3, <1>4, <2>9, <3>1 DEF LruOnGetIn, LruOnGetMove, MaxOnGet
    <3>4. frame'[t].i \in Nat
      BY <1>4, <3>2
    <3> QED BY <1>3, <1>4, <2>6, <2>7, <3>2, <3>3, <3>4 DEF Stored
  <2>10. CASE LifeOnGetRead(t)
    <3>1. frame[t].i = P /\ frame[t].pc = "on_get"
      BY <1>3, <2>10 DEF LifeOnGetRead, Outer, InRule, At
    <3>2. CASE k \in DOMAIN expiryTimes
      <4>1. /\ frame'[t].pc = "life_check" /\ frame'[t].i = P
            /\ frame'[t].seen = expiryTimes[k] /\ UNCHANGED cache
        BY <2>10, <3>1, <3>2 DEF LifeOnGetRead
      <4>2. k \in DOMAIN cache => expiryTimes[k] <= cache[k].expiry
        BY <2>5, <3>2 DEF ExpiryAgrees
      <4>3. k \in DOMAIN cache =>
              expiryTimes[k] \in Nat /\ cache[k].expiry \in Nat /\ clock \in Nat
        BY <3>2 DEF LifeOK, InMemoryTypeOK, Entry
      <4> QED BY <1>3, <2>5, <2>7, <4>1, <4>2, <4>3 DEF Stored
    <3>3. CASE k \notin DOMAIN expiryTimes
      <4>1. k \notin DOMAIN cache
        BY <1>2, <3>1, <3>3 DEF StoredIsTracked, Known, Tracks, At
      <4>2. frame'[t].pc = "on_get"
        BY <2>10, <3>3 DEF LifeOnGetRead
      <4> QED BY <2>6, <4>1, <4>2
    <3> QED BY <3>2, <3>3
  <2>11. CASE LifeOnGetCheck(t)
    <3>1. frame[t].i = P /\ frame[t].pc = "life_check"
      BY <1>3, <2>11 DEF LifeOnGetCheck, LabelsOK, InRule, At
    <3>2. CASE LifeExpired(frame[t].seen, clock)
      BY <1>3, <2>11, <3>1, <3>2 DEF LifeOnGetCheck
    <3>3. CASE ~LifeExpired(frame[t].seen, clock)
      <4>1. clock \in Nat /\ frame[t].seen \in Nat
        BY DEF InMemoryTypeOK
      <4>2. ~Stored(k)
        BY <2>7, <3>1, <3>3, <4>1 DEF LifeExpired
      <4>3. frame'[t].pc = "on_get"
        BY <2>11, <3>3 DEF LifeOnGetCheck
      <4> QED BY <2>6, <4>2, <4>3 DEF Stored
    <3> QED BY <3>2, <3>3
  <2>12. CASE EffectEvict(t)
    <3>1. frame[t].pc = "delete" /\ frame'[t].pc = "on_evict" /\ StorageEvict(k)
      BY <2>7, <2>12 DEF EffectEvict, At
    <3>2. k \notin DOMAIN cache'
      BY <3>1 DEF StorageEvict, Restrict
    <3> QED BY <3>1, <3>2
  <2>13. CASE LruOnEvict(t) \/ MaxOnEvict(t) \/ LifeOnEvict(t)
    <3>1. /\ frame[t].pc = "on_evict" /\ frame'[t].pc = "on_evict" /\ frame'[t].i = frame[t].i
      BY <2>13 DEF LruOnEvict, MaxOnEvict, LifeOnEvict, Inner, At
    <3> QED BY <2>6, <2>7, <3>1 DEF Stored
  <2>14. CASE EffectDone(t)
    <3>1. /\ frame[t].pc = "on_evict" /\ frame'[t].pc = "on_get" /\ frame'[t].i = frame[t].i + 1
      BY <2>5, <2>14 DEF EffectDone, InnerDone, At
    <3> QED BY <1>3, <1>4, <2>6, <2>7, <3>1 DEF Stored
  <2>15. ~LruOnGetKeyError(t) /\ ~GetReturn(t) /\ ~EvictReturn(t)
    BY DEF LruOnGetKeyError, GetReturn, EvictReturn
  <2> QED BY <2>4, <2>9, <2>10, <2>11, <2>12, <2>13, <2>14, <2>15 DEF GetStep, EvictStep
<1> QED BY <1>6, <1>7

LateIInv ==
  LifeCounts => \A t \in Threads : ExpiryTold(t) /\ ExpiryAgrees(t) /\ LateIsRemoved(t)

LEMMA LateIInvInit == Init => LateIInv
<1> SUFFICES ASSUME Init, NEW t \in Threads PROVE ExpiryTold(t) /\ ExpiryAgrees(t) /\ LateIsRemoved(t)
  BY DEF LateIInv
<1>1. frame[t].op = "none" /\ DOMAIN cache = {}
  BY DEF Init, Idle, InMemoryInit
<1> QED BY <1>1 DEF ExpiryTold, Storing, ExpiryAgrees, LateIsRemoved

LEMMA LateIInvStep ==
  ASSUME NEW t0, Threads = {t0}, TypeOK, TypeOK', SeqIInv, SeqIInv', LateIInv, [Next]_vars
  PROVE  LateIInv'
<1>1. CASE UNCHANGED vars
  BY <1>1 DEF vars, LateIInv, LifeCounts, Active, Precedes, Position, ExpiryTold, ExpiryAgrees,
     LateIsRemoved, Storing, At, Stored
<1>2. CASE Tick
  <2>1. UNCHANGED <<cache, expiryTimes, rules, frame>> /\ clock' = clock + 1
    BY <1>2 DEF Tick, ruleState
  <2>2. /\ clock \in Nat /\ \A k \in DOMAIN cache : cache[k].expiry \in Nat
        /\ \A k \in DOMAIN expiryTimes : expiryTimes[k] \in Nat
        /\ \A t \in Threads : frame[t].ttl \in Nat /\ frame[t].seen \in Nat
    BY DEF TypeOK, InMemoryTypeOK, Entry, Frame
  <2>3. Position("life")' = Position("life") /\ LifeCounts' = LifeCounts
    BY <2>1 DEF Position, LifeCounts, Active, Precedes
  <2> SUFFICES ASSUME LifeCounts, NEW t \in Threads
               PROVE  ExpiryTold(t)' /\ ExpiryAgrees(t)' /\ LateIsRemoved(t)'
    BY <2>3 DEF LateIInv
  <2>4. ExpiryTold(t) /\ ExpiryAgrees(t) /\ LateIsRemoved(t) /\ KeyKnown(t)
    BY DEF LateIInv, SeqIInv
  <2>5. ExpiryTold(t)'
    <3>1. Storing(t, frame[t].key, "life") => frame[t].key \in DOMAIN expiryTimes
      BY <2>4 DEF LifeCounts, KeyKnown, Tracks
    <3>2. Storing(t, frame[t].key, "life")' <=> Storing(t, frame[t].key, "life")
      BY <2>1, <2>3 DEF Storing, At
    <3> QED BY <2>1, <2>2, <2>4, <3>1, <3>2 DEF ExpiryTold
  <2>6. ExpiryAgrees(t)'
    BY <2>1, <2>4 DEF ExpiryAgrees
  <2>7. LateIsRemoved(t)'
    BY <2>1, <2>2, <2>3, <2>4 DEF LateIsRemoved, At, Stored
  <2> QED BY <2>5, <2>6, <2>7
<1>3. ASSUME NEW t \in Threads, Call(t) \/ Step(t) PROVE LateIInv'
  <2>1. rules' = rules /\ Threads = {t}
    BY <1>3, StepContext
  <2>2. LifeCounts' = LifeCounts
    BY <2>1 DEF LifeCounts, Active, Precedes, Position
  <2> SUFFICES ASSUME LifeCounts PROVE ExpiryTold(t)' /\ ExpiryAgrees(t)' /\ LateIsRemoved(t)'
    BY <2>1, <2>2 DEF LateIInv
  <2>3. /\ ExpiryTold(t) /\ ExpiryAgrees(t) /\ LateIsRemoved(t)
        /\ KeyKnown(t) /\ KeyKnown(t)' /\ KeyWarmest(t) /\ StoredIsTracked
    BY DEF LateIInv, SeqIInv
  <2>4. ExpiryTold(t)' /\ ExpiryAgrees(t)'
    BY <1>3, <2>3, ExpiryStep
  <2>5. LateIsRemoved(t)'
    BY <1>3, <2>1, <2>3, LateIsRemovedStep
  <2> QED BY <2>4, <2>5
<1> QED BY <1>1, <1>2, <1>3 DEF Next

(* With one caller, a get that returns an expired value has removed it from *)
(* the storage first (in_memory.py and lifetime_evict.py keep the expiry    *)
(* apart), so that it is returned once at most.                             *)
THEOREM ExpiredIsReadOnce ==
  ASSUME NEW t0, Threads = {t0}
  PROVE  Spec => OneStaleRead
<1>1. TypeOK /\ SeqIInv /\ [Next]_vars => SeqIInv'
  BY SeqIInvStep
<1>2. TypeOK /\ TypeOK' /\ SeqIInv /\ SeqIInv' /\ LateIInv /\ [Next]_vars => LateIInv'
  BY LateIInvStep
<1>3. ASSUME TypeOK, SeqIInv, LateIInv, NEW t \in Threads, GetReturn(t), frame[t].expired, LifeCounts
      PROVE  ~Stored(frame[t].key)
  <2>1. FramesOK /\ rules \in RuleLists /\ "life" \in Active
    BY <1>3, TypeParts DEF LifeCounts
  <2>2. frame[t].op = "get" /\ frame[t].i \in Nat /\ frame[t].i > Len(rules)
    BY <1>3, <2>1 DEF FramesOK, Frame, FrameOK, GetLabels, GetReturn, OuterDone, At
  <2>3. Position("life") \in 1..Len(rules) /\ Len(rules) \in Nat
    BY <2>1, OnePosition
  <2> QED BY <1>3, <2>2, <2>3 DEF LateIInv, LateIsRemoved
<1>4. TypeOK /\ SeqIInv /\ LateIInv =>
        [\A t \in Threads :
           GetReturn(t) /\ frame[t].expired /\ "life" \in Active /\ ~Precedes("life", "max")
           => ~Stored(frame[t].key)]_vars
  BY <1>3 DEF LifeCounts
<1> QED BY <1>1, <1>2, <1>4, SeqIInvInit, LateIInvInit, TypeCorrect, PTL DEF Spec, OneStaleRead

=============================================================================
