----------------------- MODULE RuleAwareStorageProofs -----------------------
(***************************************************************************)
(* Proofs about RuleAwareStorage, for any sets of keys, values and         *)
(* threads, any rule tuples and any limits.                                *)
(***************************************************************************)
EXTENDS RuleAwareStorage, SequenceTheorems, FiniteSetTheorems, TLAPS

-----------------------------------------------------------------------------
(* The OrderedDict of the LRU rule. *)

(* Removing a key from a sequence without duplicates removes exactly that   *)
(* key, and leaves no duplicate.                                            *)
LEMMA RemoveFirstProperties ==
  ASSUME NEW S, NEW s \in Seq(S), IsInjective(s), NEW e
  PROVE  /\ RemoveFirst(s, e) \in Seq(S)
         /\ IsInjective(RemoveFirst(s, e))
         /\ ToSet(RemoveFirst(s, e)) = ToSet(s) \ {e}
<1>1. CASE e \notin ToSet(s)
  <2>1. DOMAIN s = 1..Len(s)
    BY LenProperties
  <2>2. RemoveFirst(s, e) = s
    BY <1>1, <2>1 DEF RemoveFirst, ToSet
  <2> QED BY <1>1, <2>2
<1>2. CASE e \in ToSet(s)
  <2>1. PICK n \in 1..Len(s) : s[n] = e
    BY <1>2 DEF ToSet
  <2> DEFINE I == {i \in 1..Len(s) : s[i] = e}
  <2>2. I = {n}
    BY <2>1 DEF IsInjective
  <2>3. SelectInSeq(s, LAMBDA v : v = e) = n
    BY <2>1, <2>2 DEF SelectInSeq, Min
  <2>4. RemoveFirst(s, e) = SubSeq(s, 1, n - 1) \o SubSeq(s, n + 1, Len(s))
    BY <2>1, <2>3 DEF RemoveFirst, RemoveAt
  <2> DEFINE p == SubSeq(s, 1, n - 1)
             q == SubSeq(s, n + 1, Len(s))
  <2>5. n \in Nat /\ Len(s) \in Nat /\ 1 <= n /\ n <= Len(s)
    BY LenProperties
  <2>6. /\ p \in Seq(S) /\ Len(p) = n - 1
        /\ \A i \in 1..(n - 1) : p[i] = s[i]
    <3>1. \A i \in 1..(n - 1) : s[i] \in S
      BY <2>5
    <3> QED BY <2>5, <3>1, SubSeqProperties
  <2>7. /\ q \in Seq(S) /\ Len(q) = Len(s) - n
        /\ \A i \in 1..(Len(s) - n) : q[i] = s[n + i]
    <3>1. \A i \in (n + 1)..Len(s) : s[i] \in S
      BY <2>5
    <3> QED BY <2>5, <3>1, SubSeqProperties
  <2> HIDE DEF p, q
  <2> DEFINE r == p \o q
  <2>8. /\ r \in Seq(S) /\ Len(r) = Len(s) - 1
        /\ \A i \in 1..(Len(s) - 1) : r[i] = IF i < n THEN s[i] ELSE s[i + 1]
    <3>1. /\ r \in Seq(S) /\ Len(r) = Len(p) + Len(q)
          /\ \A i \in 1..(Len(p) + Len(q)) : r[i] = IF i <= Len(p) THEN p[i] ELSE q[i - Len(p)]
      BY <2>6, <2>7, ConcatProperties
    <3> HIDE DEF r
    <3>len. Len(p) + Len(q) = Len(s) - 1
      BY <2>5, <2>6, <2>7
    <3>parts. \A i \in 1..(Len(s) - 1) : r[i] = IF i <= n - 1 THEN p[i] ELSE q[i - (n - 1)]
      BY <2>6, <3>1, <3>len
    <3>2. ASSUME NEW i \in 1..(Len(s) - 1) PROVE r[i] = IF i < n THEN s[i] ELSE s[i + 1]
      <4>1. CASE i < n
        <5>1. i <= n - 1 /\ i \in 1..(n - 1)
          BY <2>5, <4>1
        <5> QED BY <2>6, <3>parts, <4>1, <5>1
      <4>2. CASE i >= n
        <5>1. /\ i - (n - 1) \in 1..(Len(s) - n) /\ n + (i - (n - 1)) = i + 1
              /\ ~(i <= n - 1) /\ ~(i < n)
          BY <2>5, <4>2
        <5> QED BY <2>7, <3>parts, <5>1
      <4> QED BY <2>5, <4>1, <4>2
    <3> QED BY <2>5, <2>6, <2>7, <3>1, <3>2
  <2> HIDE DEF r
  <2>9. DOMAIN r = 1..(Len(s) - 1) /\ DOMAIN s = 1..Len(s)
    BY <2>8, LenProperties
  <2>10. IsInjective(r)
    <3> DEFINE at(i) == IF i < n THEN i ELSE i + 1
    <3>1. \A i, j \in 1..(Len(s) - 1) : at(i) = at(j) => i = j
      BY <2>5
    <3>2. \A i \in 1..(Len(s) - 1) : at(i) \in DOMAIN s /\ r[i] = s[at(i)]
      BY <2>5, <2>8, <2>9
    <3> HIDE DEF at
    <3> QED BY <2>9, <3>1, <3>2 DEF IsInjective
  <2>11. ToSet(r) = ToSet(s) \ {e}
    <3>1. ASSUME NEW x \in ToSet(r) PROVE x \in ToSet(s) \ {e}
      <4>1. PICK m \in 1..(Len(s) - 1) : r[m] = x
        BY <2>9 DEF ToSet
      <4>2. PICK l \in 1..Len(s) : s[l] = x /\ l # n
        BY <2>5, <2>8, <4>1
      <4> QED BY <2>1, <2>9, <4>2 DEF IsInjective, ToSet
    <3>2. ASSUME NEW x \in ToSet(s) \ {e} PROVE x \in ToSet(r)
      <4>1. PICK m \in 1..Len(s) : s[m] = x /\ m # n
        BY <2>1, <2>9 DEF ToSet
      <4>2. \E l \in 1..(Len(s) - 1) : r[l] = x
        <5>1. CASE m < n
          BY <2>5, <2>8, <4>1, <5>1
        <5>2. CASE m > n
          <6>1. m - 1 \in 1..(Len(s) - 1) /\ ~(m - 1 < n) /\ (m - 1) + 1 = m
            BY <2>5, <4>1, <5>2
          <6> QED BY <2>8, <4>1, <6>1
        <5> QED BY <2>5, <4>1, <5>1, <5>2
      <4> QED BY <2>9, <4>2 DEF ToSet
    <3> QED BY <3>1, <3>2
  <2> QED BY <2>4, <2>8, <2>10, <2>11 DEF r, p, q
<1> QED BY <1>1, <1>2

(* Appending a key that is not there adds exactly that key. *)
LEMMA AppendDistinct ==
  ASSUME NEW S, NEW s \in Seq(S), IsInjective(s), NEW e \in S, e \notin ToSet(s)
  PROVE  /\ Append(s, e) \in Seq(S)
         /\ IsInjective(Append(s, e))
         /\ ToSet(Append(s, e)) = ToSet(s) \cup {e}
  BY DEF IsInjective, ToSet

(* Popping the head removes exactly the head. *)
LEMMA TailDistinct ==
  ASSUME NEW S, NEW s \in Seq(S), IsInjective(s), s # <<>>
  PROVE  /\ Tail(s) \in Seq(S) /\ Head(s) \in S
         /\ IsInjective(Tail(s))
         /\ ToSet(Tail(s)) = ToSet(s) \ {Head(s)}
<1>1. /\ Head(s) \in S /\ Tail(s) \in Seq(S) /\ Len(Tail(s)) = Len(s) - 1
      /\ \A i \in 1..Len(Tail(s)) : Tail(s)[i] = s[i + 1]
  BY HeadTailProperties
<1>2. /\ DOMAIN s = 1..Len(s) /\ Len(s) \in Nat \ {0} /\ Head(s) = s[1]
      /\ DOMAIN Tail(s) = 1..(Len(s) - 1)
  BY <1>1, LenProperties, EmptySeq
<1>3. IsInjective(Tail(s))
  BY <1>1, <1>2 DEF IsInjective
<1>4. ASSUME NEW x \in ToSet(Tail(s)) PROVE x \in ToSet(s) \ {Head(s)}
  <2>1. PICK m \in 1..(Len(s) - 1) : x = s[m + 1]
    BY <1>1, <1>2 DEF ToSet
  <2> QED BY <1>2, <2>1 DEF ToSet, IsInjective
<1>5. ASSUME NEW x \in ToSet(s) \ {Head(s)} PROVE x \in ToSet(Tail(s))
  <2>1. PICK m \in 2..Len(s) : x = s[m]
    BY <1>2 DEF ToSet
  <2>2. m - 1 \in 1..(Len(s) - 1) /\ Tail(s)[m - 1] = x
    BY <1>1, <1>2, <2>1
  <2> QED BY <1>2, <2>2 DEF ToSet
<1> QED BY <1>1, <1>3, <1>4, <1>5


-----------------------------------------------------------------------------
(* Type correctness. *)

LruOK == accessOrder \in Seq(Keys) /\ IsInjective(accessOrder)

HardOK == admitted \subseteq Keys /\ IsFiniteSet(admitted)

LifeOK ==
  /\ DOMAIN expiryTimes \subseteq Keys
  /\ expiryTimes \in [DOMAIN expiryTimes -> Nat]

RuleStateOK == LruOK /\ HardOK /\ LifeOK

FramesOK ==
  /\ frame \in [Threads -> Frame]
  /\ \A t \in Threads : FrameOK(frame[t])

(* TypeOK by parts: the proofs take it apart and put it together again. *)
LEMMA TypeParts ==
  TypeOK <=> /\ InMemoryTypeOK /\ RuleStateOK /\ rules \in RuleLists
             /\ FramesOK /\ LabelsOK
  BY DEF TypeOK, RuleStateOK, LruOK, HardOK, LifeOK, FramesOK

(* A storage just constructed is well-typed, with every thread idle. *)
LEMMA TypeInit == Init => TypeOK
<1> SUFFICES ASSUME Init PROVE TypeOK
  OBVIOUS
<1>1. InMemoryTypeOK
  BY DEF Init, InMemoryInit, InMemoryTypeOK
<1>2. RuleStateOK
  BY FS_EmptySet DEF Init, LruInit, HardInit, LifeInit, RuleStateOK, LruOK, HardOK, LifeOK, IsInjective
<1>3. FramesOK
  BY DEF Init, FramesOK, Frame, FrameOK, Idle, Labels, SetLabels, GetLabels
<1>4. LabelsOK
  BY DEF Init, LabelsOK, Idle
<1> QED BY <1>1, <1>2, <1>3, <1>4, TypeParts DEF Init

(* The frame of one thread changes to a well-formed one. *)
LEMMA FrameUpdate ==
  ASSUME FramesOK, NEW t \in Threads, NEW f \in Frame, FrameOK(f),
         frame' = [frame EXCEPT ![t] = f]
  PROVE  FramesOK'
  BY DEF FramesOK

(* A step of one thread leaves every frame well-formed. *)
LEMMA FrameSteps ==
  ASSUME TypeOK, NEW t \in Threads, Call(t) \/ Step(t)
  PROVE  FramesOK'
<1> DEFINE f == frame'[t]
<1> USE DEF Labels, SetLabels, GetLabels, At, InRule, Outer, Inner, OuterDone, InnerDone
<1>1. FramesOK /\ frame[t] \in Frame /\ FrameOK(frame[t])
  BY TypeParts DEF FramesOK
<1>2. ASSUME NEW k \in Keys, NEW v \in Values, NEW ttl \in TTLs, Set(t, k, v, ttl)
      PROVE  FramesOK'
  <2> DEFINE g == [Idle EXCEPT !.pc = "on_set", !.op = "set",
                               !.key = k, !.value = v, !.ttl = ttl, !.i = 1]
  <2>1. g \in Frame /\ FrameOK(g)
    BY TTLsAssumption DEF Frame, FrameOK, Idle
  <2>2. frame' = [frame EXCEPT ![t] = g]
    BY <1>2 DEF Set
  <2> HIDE DEF g
  <2> QED BY <1>1, <2>1, <2>2, FrameUpdate
<1>3. ASSUME NEW k \in Keys, Get(t, k) PROVE FramesOK'
  <2>1. cache[k].value \in Values
    BY <1>3 DEF Get, Stored, TypeOK, InMemoryTypeOK, Entry
  <2> DEFINE late == LifeExpired(cache[k].expiry, clock)
             g == [Idle EXCEPT !.pc = "on_get", !.op = "get", !.key = k, !.i = 1,
                               !.got = cache[k].value, !.expired = late]
  <2>late. late \in BOOLEAN
    BY DEF LifeExpired
  <2> HIDE DEF late
  <2>2. g \in Frame /\ FrameOK(g)
    BY <2>1, <2>late DEF Frame, FrameOK, Idle
  <2> HIDE DEF g
  <2> QED BY <1>1, <1>3, <2>2, FrameUpdate DEF Get, g, late
<1>4. ASSUME NEW k \in Keys, Evict(t, k) PROVE FramesOK'
  <2> DEFINE g == [Idle EXCEPT !.pc = "on_evict", !.op = "evict", !.victim = k, !.j = 1]
  <2>1. g \in Frame /\ FrameOK(g)
    BY DEF Frame, FrameOK, Idle
  <2>2. frame' = [frame EXCEPT ![t] = g]
    BY <1>4 DEF Evict
  <2> HIDE DEF g
  <2> QED BY <1>1, <2>1, <2>2, FrameUpdate
<1>5. CASE Clear(t)
  <2> DEFINE g == [Idle EXCEPT !.pc = "on_clear", !.op = "clear", !.j = 1]
  <2>1. g \in Frame /\ FrameOK(g)
    BY DEF Frame, FrameOK, Idle
  <2>2. frame' = [frame EXCEPT ![t] = g]
    BY <1>5 DEF Clear
  <2> HIDE DEF g
  <2> QED BY <1>1, <2>1, <2>2, FrameUpdate
<1>6. CASE SetStep(t)
  <2> USE <1>1 DEF FramesOK, Frame, FrameOK
  <2>1. CASE LruOnSetInsert(t)
    BY <2>1 DEF LruOnSetInsert, Goto
  <2>2. CASE LruOnSetMove(t)
    BY <2>2 DEF LruOnSetMove, Goto
  <2>3. CASE LruOnSetKeyError(t)
    BY <2>3 DEF LruOnSetKeyError, Return, Idle
  <2>4. CASE LruOnSetLen(t)
    BY <2>4 DEF LruOnSetLen, Goto, NextOuter
  <2>5. CASE LruOnSetPop(t)
    <3> DEFINE g == [frame[t] EXCEPT !.pc = "delete", !.victim = LruOldest, !.seen = 0]
    <3>1. LruOldest \in Keys
      BY <2>5, HeadTailProperties DEF LruOnSetPop, LruOldest, TypeOK
    <3>2. g \in Frame /\ FrameOK(g)
      BY <2>5, <3>1 DEF LruOnSetPop
    <3>3. frame' = [frame EXCEPT ![t] = g]
      BY <2>5 DEF LruOnSetPop, Effect
    <3> HIDE DEF g
    <3> QED BY <3>2, <3>3, FrameUpdate
  <2>6. CASE LruOnSetPopKeyError(t)
    BY <2>6 DEF LruOnSetPopKeyError, Return, Idle
  <2>7. CASE MaxOnSetIn(t)
    BY <2>7 DEF MaxOnSetIn, Goto, NextOuter
  <2>8. CASE MaxOnSetLen(t)
    BY <2>8 DEF MaxOnSetLen, Goto, Effect
  <2>9. CASE MaxOnSetAdd(t)
    BY <2>9 DEF MaxOnSetAdd, NextOuter
  <2>10. CASE LifeOnSet(t)
    BY <2>10 DEF LifeOnSet, NextOuter
  <2>11. CASE Store(t)
    BY <2>11 DEF Store, Return, Idle
  <2> HIDE DEF FramesOK, Frame, FrameOK
  <2> QED BY <1>6, <2>1, <2>2, <2>3, <2>4, <2>5, <2>6, <2>7, <2>8, <2>9, <2>10, <2>11 DEF SetStep
<1>7. CASE GetStep(t)
  <2> USE <1>1 DEF FramesOK, Frame, FrameOK
  <2>1. CASE LruOnGetIn(t)
    BY <2>1 DEF LruOnGetIn, Goto, NextOuter
  <2>2. CASE LruOnGetMove(t)
    BY <2>2 DEF LruOnGetMove, NextOuter
  <2>3. CASE LruOnGetKeyError(t)
    BY <2>3 DEF LruOnGetKeyError, Return, Idle
  <2>4. CASE MaxOnGet(t)
    BY <2>4 DEF MaxOnGet, NextOuter
  <2>5. CASE LifeOnGetRead(t)
    <3>1. CASE frame[t].key \in DOMAIN expiryTimes
      <4>1. expiryTimes[frame[t].key] \in Nat
        BY <3>1 DEF TypeOK
      <4> QED BY <2>5, <3>1, <4>1 DEF LifeOnGetRead
    <3>2. CASE frame[t].key \notin DOMAIN expiryTimes
      BY <2>5, <3>2 DEF LifeOnGetRead, NextOuter
    <3> QED BY <3>1, <3>2
  <2>6. CASE LifeOnGetCheck(t)
    BY <2>6 DEF LifeOnGetCheck, Effect, NextOuter
  <2>7. CASE GetReturn(t)
    BY <2>7 DEF GetReturn, Return, Idle
  <2> HIDE DEF FramesOK, Frame, FrameOK
  <2> QED BY <1>7, <2>1, <2>2, <2>3, <2>4, <2>5, <2>6, <2>7 DEF GetStep
<1>8. CASE EvictStep(t)
  <2> USE <1>1 DEF FramesOK, Frame, FrameOK
  <2>1. CASE EffectEvict(t)
    <3> DEFINE g == [frame[t] EXCEPT !.pc = "on_evict", !.j = 1]
    <3>1. g \in Frame /\ FrameOK(g)
      BY <2>1 DEF EffectEvict
    <3>2. frame' = [frame EXCEPT ![t] = g]
      BY <2>1 DEF EffectEvict
    <3> HIDE DEF g
    <3> QED BY <3>1, <3>2, FrameUpdate
  <2>2. CASE LruOnEvict(t) \/ MaxOnEvict(t) \/ LifeOnEvict(t)
    <3>1. NextInner(t)
      BY <2>2 DEF LruOnEvict, MaxOnEvict, LifeOnEvict
    <3> QED BY <3>1 DEF NextInner
  <2>3. CASE EvictReturn(t)
    BY <2>3 DEF EvictReturn, Return, Idle
  <2>4. CASE EffectDone(t)
    <3> DEFINE g == [frame[t] EXCEPT !.pc = IF frame[t].op = "set" THEN "on_set" ELSE "on_get",
                                     !.i = @ + 1, !.j = 0]
    <3>1. g \in Frame /\ FrameOK(g)
      BY <2>4 DEF EffectDone
    <3>2. frame' = [frame EXCEPT ![t] = g]
      BY <2>4 DEF EffectDone
    <3> HIDE DEF g
    <3> QED BY <3>1, <3>2, FrameUpdate
  <2> HIDE DEF FramesOK, Frame, FrameOK
  <2> QED BY <1>8, <2>1, <2>2, <2>3, <2>4 DEF EvictStep
<1>9. CASE ClearStep(t)
  <2> USE <1>1 DEF FramesOK, Frame, FrameOK
  <2>1. CASE LruOnClear(t) \/ MaxOnClear(t) \/ LifeOnClear(t)
    <3>1. NextInner(t)
      BY <2>1 DEF LruOnClear, MaxOnClear, LifeOnClear
    <3> QED BY <3>1 DEF NextInner
  <2>2. CASE ClearReturn(t)
    BY <2>2 DEF ClearReturn, Return, Idle
  <2> HIDE DEF FramesOK, Frame, FrameOK
  <2> QED BY <1>9, <2>1, <2>2 DEF ClearStep
<1> QED BY <1>2, <1>3, <1>4, <1>5, <1>6, <1>7, <1>8, <1>9 DEF Call, Step

(* The dictionary operations keep the provider's dictionary well-typed. *)
LEMMA StorageOps ==
  ASSUME InMemoryTypeOK, NEW k \in Keys
  PROVE  /\ \A v \in Values, ttl \in Nat :
              StorageSet(k, v, ttl) => /\ DOMAIN cache' = DOMAIN cache \cup {k}
                                       /\ cache' \in [DOMAIN cache' -> Entry]
         /\ StorageEvict(k) => /\ DOMAIN cache' = DOMAIN cache \ {k}
                               /\ cache' \in [DOMAIN cache' -> Entry]
         /\ StorageClear => DOMAIN cache' = {} /\ cache' \in [DOMAIN cache' -> Entry]
<1>1. ASSUME NEW v \in Values, NEW ttl \in Nat, StorageSet(k, v, ttl)
      PROVE  /\ DOMAIN cache' = DOMAIN cache \cup {k}
             /\ cache' \in [DOMAIN cache' -> Entry]
  <2>1. [value |-> v, expiry |-> clock + ttl] \in Entry
    BY DEF Entry, InMemoryTypeOK
  <2>2. \A x \in DOMAIN cache : cache[x] \in Entry
    BY DEF InMemoryTypeOK
  <2> QED BY <1>1, <2>1, <2>2 DEF StorageSet
<1>2. ASSUME NEW S \in SUBSET DOMAIN cache, cache' = Restrict(cache, S)
      PROVE  DOMAIN cache' = S /\ cache' \in [DOMAIN cache' -> Entry]
  BY <1>2 DEF Restrict, InMemoryTypeOK
<1>3. StorageEvict(k) => /\ DOMAIN cache' = DOMAIN cache \ {k}
                        /\ cache' \in [DOMAIN cache' -> Entry]
  BY <1>2 DEF StorageEvict
<1>4. StorageClear => DOMAIN cache' = {} /\ cache' \in [DOMAIN cache' -> Entry]
  BY <1>2 DEF StorageClear
<1> QED BY <1>1, <1>3, <1>4

(* And so do those of the life-time rule. *)
LEMMA LifeOps ==
  ASSUME LifeOK, NEW k \in Keys
  PROVE  /\ \A e \in Nat : LifeRecord(k, e) => LifeOK' /\ DOMAIN expiryTimes' = DOMAIN expiryTimes \cup {k}
         /\ LifeForget(k) => LifeOK' /\ DOMAIN expiryTimes' = DOMAIN expiryTimes \ {k}
         /\ LifeForgetAll => LifeOK' /\ DOMAIN expiryTimes' = {}
<1>1. ASSUME NEW e \in Nat, LifeRecord(k, e)
      PROVE  LifeOK' /\ DOMAIN expiryTimes' = DOMAIN expiryTimes \cup {k}
  BY <1>1 DEF LifeRecord, LifeOK
<1>2. ASSUME NEW S \in SUBSET DOMAIN expiryTimes, expiryTimes' = Restrict(expiryTimes, S)
      PROVE  LifeOK' /\ DOMAIN expiryTimes' = S
  BY <1>2 DEF Restrict, LifeOK
<1>3. LifeForget(k) => LifeOK' /\ DOMAIN expiryTimes' = DOMAIN expiryTimes \ {k}
  BY <1>2 DEF LifeForget
<1>4. LifeForgetAll => LifeOK' /\ DOMAIN expiryTimes' = {}
  BY <1>2 DEF LifeForgetAll
<1> QED BY <1>1, <1>3, <1>4

(* And those of the OrderedDict. *)
LEMMA LruOps ==
  ASSUME LruOK, NEW k \in Keys
  PROVE  /\ LruInsert(k) => LruOK' /\ LruTracked' = LruTracked \cup {k}
         /\ k \in LruTracked /\ LruMoveToEnd(k) => LruOK' /\ LruTracked' = LruTracked
         /\ accessOrder # <<>> /\ LruPopOldest =>
              LruOK' /\ LruOldest \in Keys /\ LruTracked' = LruTracked \ {LruOldest}
         /\ LruForget(k) => LruOK' /\ LruTracked' = LruTracked \ {k}
         /\ LruForgetAll => LruOK' /\ LruTracked' = {}
<1> USE DEF LruOK, LruTracked
<1>1. LruInsert(k) => LruOK' /\ LruTracked' = LruTracked \cup {k}
  BY AppendDistinct DEF LruInsert
<1>2. /\ Without(k) \in Seq(Keys) /\ IsInjective(Without(k))
      /\ ToSet(Without(k)) = LruTracked \ {k}
  BY RemoveFirstProperties DEF Without
<1>3. k \in LruTracked /\ LruMoveToEnd(k) => LruOK' /\ LruTracked' = LruTracked
  <2> DEFINE w == Without(k)
  <2>1. k \notin ToSet(w) /\ w \in Seq(Keys) /\ IsInjective(w)
    BY <1>2
  <2> HIDE DEF w
  <2>2. /\ Append(w, k) \in Seq(Keys) /\ IsInjective(Append(w, k))
        /\ ToSet(Append(w, k)) = ToSet(w) \cup {k}
    BY <2>1, AppendDistinct
  <2> QED BY <1>2, <2>2 DEF LruMoveToEnd, w
<1>4. accessOrder # <<>> /\ LruPopOldest =>
        LruOK' /\ LruOldest \in Keys /\ LruTracked' = LruTracked \ {LruOldest}
  BY TailDistinct DEF LruPopOldest, LruOldest
<1>5. LruForget(k) => LruOK' /\ LruTracked' = LruTracked \ {k}
  BY <1>2 DEF LruForget
<1>6. LruForgetAll => LruOK' /\ LruTracked' = {}
  BY DEF LruForgetAll, IsInjective, ToSet
<1> QED BY <1>1, <1>3, <1>4, <1>5, <1>6

(* A step of one thread leaves the dictionaries well-typed, and the tuple of *)
(* rules as it was.                                                          *)
LEMMA StateSteps ==
  ASSUME TypeOK, NEW t \in Threads, Call(t) \/ Step(t)
  PROVE  InMemoryTypeOK' /\ RuleStateOK' /\ rules' = rules
<1>1. /\ InMemoryTypeOK /\ RuleStateOK /\ LruOK /\ HardOK /\ LifeOK
      /\ frame[t] \in Frame /\ FrameOK(frame[t])
  BY TypeParts DEF FramesOK, RuleStateOK
<1>2. ASSUME UNCHANGED <<cache, clock, ruleState, rules>>
      PROVE  InMemoryTypeOK' /\ RuleStateOK' /\ rules' = rules
  BY <1>1, <1>2 DEF InMemoryTypeOK, RuleStateOK, LruOK, HardOK, LifeOK, ruleState
<1>3. ASSUME UNCHANGED <<clock, ruleState, rules>>, DOMAIN cache' \subseteq Keys,
             cache' \in [DOMAIN cache' -> Entry]
      PROVE  InMemoryTypeOK' /\ RuleStateOK' /\ rules' = rules
  BY <1>1, <1>3 DEF InMemoryTypeOK, RuleStateOK, LruOK, HardOK, LifeOK, ruleState
<1>4. ASSUME UNCHANGED <<cache, clock, admitted, expiryTimes, rules>>, LruOK'
      PROVE  InMemoryTypeOK' /\ RuleStateOK' /\ rules' = rules
  BY <1>1, <1>4 DEF InMemoryTypeOK, RuleStateOK, HardOK, LifeOK
<1>5. ASSUME UNCHANGED <<cache, clock, accessOrder, expiryTimes, rules>>, HardOK'
      PROVE  InMemoryTypeOK' /\ RuleStateOK' /\ rules' = rules
  BY <1>1, <1>5 DEF InMemoryTypeOK, RuleStateOK, LruOK, LifeOK
<1>6. ASSUME UNCHANGED <<cache, clock, accessOrder, admitted, rules>>, LifeOK'
      PROVE  InMemoryTypeOK' /\ RuleStateOK' /\ rules' = rules
  BY <1>1, <1>6 DEF InMemoryTypeOK, RuleStateOK, LruOK, HardOK
<1>7. CASE Call(t)
  <2>1. ASSUME NEW k \in Keys, NEW v \in Values, NEW ttl \in TTLs, Set(t, k, v, ttl)
        PROVE  InMemoryTypeOK' /\ RuleStateOK' /\ rules' = rules
    BY <1>2, <2>1 DEF Set
  <2>2. ASSUME NEW k \in Keys, Get(t, k)
        PROVE  InMemoryTypeOK' /\ RuleStateOK' /\ rules' = rules
    BY <1>2, <2>2 DEF Get
  <2>3. ASSUME NEW k \in Keys, Evict(t, k)
        PROVE  InMemoryTypeOK' /\ RuleStateOK' /\ rules' = rules
    BY <1>1, <1>3, <2>3, StorageOps DEF Evict, InMemoryTypeOK
  <2>4. CASE Clear(t)
    <3>1. DOMAIN cache' = {} /\ cache' \in [DOMAIN cache' -> Entry]
      BY <2>4 DEF Clear, StorageClear, Restrict
    <3> QED BY <1>3, <2>4, <3>1 DEF Clear
  <2> QED BY <1>7, <2>1, <2>2, <2>3, <2>4 DEF Call
<1>8. CASE SetStep(t)
  <2>1. CASE \/ LruOnSetKeyError(t) \/ LruOnSetLen(t) \/ LruOnSetPopKeyError(t)
             \/ MaxOnSetIn(t) \/ MaxOnSetLen(t)
    BY <1>2, <2>1 DEF LruOnSetKeyError, LruOnSetLen, LruOnSetPopKeyError, MaxOnSetIn, MaxOnSetLen
  <2>2. CASE LruOnSetInsert(t)
    BY <1>1, <1>4, <2>2, LruOps DEF LruOnSetInsert, Outer, At, FrameOK, SetLabels
  <2>3. CASE LruOnSetMove(t)
    BY <1>1, <1>4, <2>3, LruOps DEF LruOnSetMove, At, FrameOK, SetLabels
  <2>4. CASE LruOnSetPop(t)
    BY <1>1, <1>4, <2>4, LruOps DEF LruOnSetPop, LruOK, LruPopOldest, At, FrameOK, SetLabels
  <2>5. CASE MaxOnSetAdd(t)
    BY <1>1, <1>5, <2>5, FS_AddElement DEF MaxOnSetAdd, HardAdmit, HardOK, At, FrameOK, SetLabels
  <2>6. CASE LifeOnSet(t)
    <3>1. frame[t].key \in Keys /\ clock + frame[t].ttl \in Nat
      BY <1>1, <2>6 DEF LifeOnSet, Outer, At, Frame, FrameOK, SetLabels, InMemoryTypeOK
    <3> QED BY <1>1, <1>6, <2>6, <3>1, LifeOps DEF LifeOnSet
  <2>7. CASE Store(t)
    <3>1. frame[t].key \in Keys /\ frame[t].value \in Values /\ frame[t].ttl \in Nat
      BY <1>1, <2>7 DEF Store, OuterDone, At, Frame, FrameOK, SetLabels
    <3>2. DOMAIN cache' \subseteq Keys /\ cache' \in [DOMAIN cache' -> Entry]
      BY <1>1, <2>7, <3>1, StorageOps DEF Store, InMemoryTypeOK
    <3> QED BY <1>3, <2>7, <3>2 DEF Store
  <2> QED BY <1>8, <2>1, <2>2, <2>3, <2>4, <2>5, <2>6, <2>7 DEF SetStep
<1>9. CASE GetStep(t)
  <2>1. CASE \/ LruOnGetIn(t) \/ LruOnGetKeyError(t) \/ MaxOnGet(t)
             \/ LifeOnGetRead(t) \/ GetReturn(t)
    BY <1>2, <2>1 DEF LruOnGetIn, LruOnGetKeyError, MaxOnGet, LifeOnGetRead, GetReturn
  <2>2. CASE LruOnGetMove(t)
    BY <1>1, <1>4, <2>2, LruOps DEF LruOnGetMove, At, FrameOK, GetLabels
  <2>3. CASE LifeOnGetCheck(t)
    <3>1. CASE LifeForget(frame[t].key)
      BY <1>1, <1>6, <2>3, <3>1, LifeOps DEF LifeOnGetCheck, At, FrameOK, GetLabels
    <3>2. CASE UNCHANGED expiryTimes
      BY <1>2, <2>3, <3>2 DEF LifeOnGetCheck, ruleState
    <3> QED BY <2>3, <3>1, <3>2 DEF LifeOnGetCheck
  <2> QED BY <1>9, <2>1, <2>2, <2>3 DEF GetStep
<1>10. CASE EvictStep(t)
  <2>1. CASE EvictReturn(t) \/ EffectDone(t)
    BY <1>2, <2>1 DEF EvictReturn, EffectDone
  <2>2. CASE EffectEvict(t)
    BY <1>1, <1>3, <2>2, StorageOps DEF EffectEvict, At, FrameOK, InMemoryTypeOK
  <2>3. CASE LruOnEvict(t)
    BY <1>1, <1>4, <2>3, LruOps DEF LruOnEvict, Inner, At, FrameOK
  <2>4. CASE MaxOnEvict(t)
    BY <1>1, <1>5, <2>4, FS_RemoveElement DEF MaxOnEvict, HardForget, HardOK
  <2>5. CASE LifeOnEvict(t)
    BY <1>1, <1>6, <2>5, LifeOps DEF LifeOnEvict, Inner, At, FrameOK
  <2> QED BY <1>10, <2>1, <2>2, <2>3, <2>4, <2>5 DEF EvictStep
<1>11. CASE ClearStep(t)
  <2>1. CASE ClearReturn(t)
    BY <1>2, <2>1 DEF ClearReturn
  <2>2. CASE LruOnClear(t)
    BY <1>4, <2>2 DEF LruOnClear, LruForgetAll, LruOK, IsInjective
  <2>3. CASE MaxOnClear(t)
    BY <1>5, <2>3, FS_EmptySet DEF MaxOnClear, HardForgetAll, HardOK
  <2>4. CASE LifeOnClear(t)
    BY <1>6, <2>4 DEF LifeOnClear, LifeForgetAll, LifeOK, Restrict
  <2> QED BY <1>11, <2>1, <2>2, <2>3, <2>4 DEF ClearStep
<1> QED BY <1>7, <1>8, <1>9, <1>10, <1>11 DEF Step

(* Only the thread that takes a step changes its frame. *)
LEMMA FrameLocal ==
  ASSUME FramesOK, NEW t \in Threads, Call(t) \/ Step(t)
  PROVE  \A u \in Threads \ {t} : frame'[u] = frame[u]
<1> USE DEF FramesOK, Goto, Return, NextOuter, NextInner, Effect
<1>1. CASE Call(t)
  BY <1>1 DEF Call, Set, Get, Evict, Clear
<1>2. CASE SetStep(t)
  BY <1>2 DEF SetStep, LruOnSetInsert, LruOnSetMove, LruOnSetKeyError, LruOnSetLen,
       LruOnSetPop, LruOnSetPopKeyError, MaxOnSetIn, MaxOnSetLen, MaxOnSetAdd, LifeOnSet, Store
<1>3. CASE GetStep(t)
  BY <1>3 DEF GetStep, LruOnGetIn, LruOnGetMove, LruOnGetKeyError, MaxOnGet,
       LifeOnGetRead, LifeOnGetCheck, GetReturn
<1>4. CASE EvictStep(t)
  BY <1>4 DEF EvictStep, EffectEvict, LruOnEvict, MaxOnEvict, LifeOnEvict, EvictReturn, EffectDone
<1>5. CASE ClearStep(t)
  BY <1>5 DEF ClearStep, LruOnClear, MaxOnClear, LifeOnClear, ClearReturn
<1> QED BY <1>1, <1>2, <1>3, <1>4, <1>5 DEF Step

(* A step that enters a hook enters it at a rule of its kind. *)
LEMMA LabelSteps ==
  ASSUME TypeOK, NEW t \in Threads, Call(t) \/ Step(t)
  PROVE  LabelsOK'
<1>1. /\ FramesOK /\ LabelsOK /\ frame[t] \in Frame /\ rules' = rules
      /\ \A u \in Threads \ {t} : frame'[u] = frame[u]
  BY TypeParts, StateSteps, FrameLocal DEF FramesOK
<1> DEFINE OK(u) ==
      /\ frame[u].pc \in {"lru_move", "lru_len", "lru_pop", "lru_touch"} => InRule(u, "lru")
      /\ frame[u].pc \in {"max_len", "max_add"} => InRule(u, "max")
      /\ frame[u].pc = "life_check" => InRule(u, "life")
<1> SUFFICES OK(t)'
  BY <1>1 DEF LabelsOK, InRule
<1> USE <1>1 DEF FramesOK, Frame, Goto, Return, Idle, NextOuter, NextInner, Effect, InRule, Outer, At
<1>2. CASE Call(t)
  <2>1. frame'[t].pc \in {"on_set", "on_get", "on_evict", "on_clear"}
    <3>1. ASSUME NEW k \in Keys, NEW v \in Values, NEW ttl \in TTLs, Set(t, k, v, ttl)
          PROVE  frame'[t].pc = "on_set"
      BY <3>1 DEF Set
    <3>2. ASSUME NEW k \in Keys, Get(t, k) PROVE frame'[t].pc = "on_get"
      BY <3>2 DEF Get
    <3>3. ASSUME NEW k \in Keys, Evict(t, k) PROVE frame'[t].pc = "on_evict"
      BY <3>3 DEF Evict
    <3>4. ASSUME Clear(t) PROVE frame'[t].pc = "on_clear"
      BY <3>4 DEF Clear
    <3> QED BY <1>2, <3>1, <3>2, <3>3, <3>4 DEF Call
  <2> QED BY <2>1
<1>3. CASE SetStep(t)
  <2>1. CASE \/ LruOnSetInsert(t) \/ LruOnSetMove(t) \/ LruOnSetKeyError(t)
             \/ LruOnSetPop(t) \/ LruOnSetPopKeyError(t)
    BY <2>1 DEF LruOnSetInsert, LruOnSetMove, LruOnSetKeyError,
         LruOnSetPop, LruOnSetPopKeyError, LabelsOK
  <2>2. CASE LruOnSetLen(t)
    BY <2>2 DEF LruOnSetLen, LabelsOK
  <2>3. CASE MaxOnSetIn(t)
    BY <2>3 DEF MaxOnSetIn
  <2>4. CASE MaxOnSetLen(t)
    BY <2>4 DEF MaxOnSetLen, LabelsOK
  <2>5. CASE MaxOnSetAdd(t) \/ LifeOnSet(t) \/ Store(t)
    BY <2>5 DEF MaxOnSetAdd, LifeOnSet, Store
  <2> HIDE DEF OK
  <2> QED BY <1>3, <2>1, <2>2, <2>3, <2>4, <2>5 DEF SetStep
<1>4. CASE GetStep(t)
  <2>1. CASE LruOnGetIn(t)
    BY <2>1 DEF LruOnGetIn
  <2>2. CASE LruOnGetMove(t) \/ LruOnGetKeyError(t) \/ MaxOnGet(t) \/ GetReturn(t)
    BY <2>2 DEF LruOnGetMove, LruOnGetKeyError, MaxOnGet, GetReturn
  <2>3. CASE LifeOnGetRead(t)
    BY <2>3 DEF LifeOnGetRead
  <2>4. CASE LifeOnGetCheck(t)
    BY <2>4 DEF LifeOnGetCheck
  <2> HIDE DEF OK
  <2> QED BY <1>4, <2>1, <2>2, <2>3, <2>4 DEF GetStep
<1>5. CASE EvictStep(t)
  BY <1>5 DEF EvictStep, EffectEvict, LruOnEvict, MaxOnEvict, LifeOnEvict, EvictReturn, EffectDone, Inner
<1>6. CASE ClearStep(t)
  BY <1>6 DEF ClearStep, LruOnClear, MaxOnClear, LifeOnClear, ClearReturn, Inner
<1> QED BY <1>2, <1>3, <1>4, <1>5, <1>6 DEF Step

(* Every reachable state is well-typed, whatever the threads call: the      *)
(* dictionaries of the provider and of the rules hold keys and nothing      *)
(* else, and a call never reads a register it has not filled.               *)
THEOREM TypeCorrect == Spec => []TypeOK
<1>1. Init => TypeOK
  BY TypeInit
<1>2. TypeOK /\ [Next]_vars => TypeOK'
  <2> SUFFICES ASSUME TypeOK, [Next]_vars PROVE TypeOK'
    OBVIOUS
  <2>1. CASE Tick
    BY <2>1 DEF Tick, TypeOK, InMemoryTypeOK, LabelsOK, InRule, ruleState
  <2>2. ASSUME NEW t \in Threads, Call(t) \/ Step(t) PROVE TypeOK'
    <3>1. /\ FramesOK' /\ InMemoryTypeOK' /\ RuleStateOK' /\ rules' \in RuleLists
          /\ LabelsOK'
      BY <2>2, FrameSteps, StateSteps, LabelSteps DEF TypeOK
    <3> QED BY <3>1 DEF TypeOK, RuleStateOK, LruOK, HardOK, LifeOK, FramesOK
  <2>3. CASE UNCHANGED vars
    BY <2>3 DEF TypeOK, InMemoryTypeOK, LabelsOK, InRule, vars
  <2> QED BY <2>1, <2>2, <2>3 DEF Next
<1> QED BY <1>1, <1>2, PTL DEF Spec

-----------------------------------------------------------------------------
(* The hard limit under interleaving. *)

(* The threads between the length check of the hard-limit rule and its add. *)
Adders == {t \in Threads : At(t, "max_add")}

(* A thread that passed the check is one key the set may still gain. *)
HardInv ==
  Cardinality(admitted) + Cardinality(Adders) <= HardMaxItems + Cardinality(Threads) - 1

(* Only these two steps let the set, or the threads about to add, grow. *)
LEMMA AddersShrink ==
  ASSUME FramesOK, NEW t \in Threads, Call(t) \/ Step(t),
         ~MaxOnSetLen(t), ~MaxOnSetAdd(t)
  PROVE  frame'[t].pc # "max_add" /\ admitted' \subseteq admitted
<1> USE DEF FramesOK, Frame, At, Outer, Inner, Goto, Return, Idle, NextOuter, NextInner, Effect, ruleState
<1>1. CASE Call(t)
  BY <1>1 DEF Call, Set, Get, Evict, Clear
<1>2. CASE SetStep(t)
  BY <1>2 DEF SetStep, LruOnSetInsert, LruOnSetMove, LruOnSetKeyError, LruOnSetLen,
       LruOnSetPop, LruOnSetPopKeyError, MaxOnSetIn, LifeOnSet, Store
<1>3. CASE GetStep(t)
  BY <1>3 DEF GetStep, LruOnGetIn, LruOnGetMove, LruOnGetKeyError, MaxOnGet,
       LifeOnGetRead, LifeOnGetCheck, GetReturn
<1>4. CASE EvictStep(t)
  BY <1>4 DEF EvictStep, EffectEvict, LruOnEvict, MaxOnEvict, LifeOnEvict, EvictReturn,
       EffectDone, HardForget
<1>5. CASE ClearStep(t)
  BY <1>5 DEF ClearStep, LruOnClear, MaxOnClear, LifeOnClear, ClearReturn, HardForgetAll
<1> QED BY <1>1, <1>2, <1>3, <1>4, <1>5 DEF Step

(* A thread passes the check only below the limit, and its add turns it     *)
(* from an adder into a key.                                               *)
LEMMA HardInvStep ==
  ASSUME TypeOK, TypeOK', HardInv, NEW t \in Threads, Call(t) \/ Step(t)
  PROVE  HardInv'
<1>1. /\ IsFiniteSet(Threads) /\ IsFiniteSet(admitted) /\ IsFiniteSet(admitted')
      /\ frame \in [Threads -> Frame] /\ FramesOK
  BY ThreadsAssumption, TypeParts DEF TypeOK
<1>2. \A u \in Threads \ {t} : frame'[u] = frame[u]
  BY <1>1, FrameLocal
<1>3. /\ IsFiniteSet(Adders) /\ IsFiniteSet(Adders')
      /\ Cardinality(Adders') <= Cardinality(Threads)
  BY <1>1, FS_Subset DEF Adders
<1>4. /\ Cardinality(admitted) \in Nat /\ Cardinality(admitted') \in Nat
      /\ Cardinality(Adders) \in Nat /\ Cardinality(Adders') \in Nat
      /\ Cardinality(Threads) \in Nat /\ HardMaxItems \in Nat
  BY <1>1, <1>3, FS_CardinalityType, HardAssumption
<1>5. CASE MaxOnSetLen(t)
  <2>1. admitted' = admitted
    BY <1>5 DEF MaxOnSetLen, ruleState
  <2>2. CASE HardFull
    <3>1. Adders' = Adders
      BY <1>1, <1>2, <1>5, <2>2 DEF MaxOnSetLen, Effect, Adders, At, Frame
    <3> QED BY <2>1, <3>1 DEF HardInv
  <2>3. CASE ~HardFull
    BY <1>3, <1>4, <2>1, <2>3 DEF HardFull, HardInv
  <2> QED BY <2>2, <2>3
<1>6. CASE MaxOnSetAdd(t)
  <2>1. Cardinality(admitted') <= Cardinality(admitted) + 1
    BY <1>1, <1>4, <1>6, FS_AddElement DEF MaxOnSetAdd, HardAdmit
  <2>2. Adders' = Adders \ {t} /\ t \in Adders
    BY <1>1, <1>2, <1>6 DEF MaxOnSetAdd, NextOuter, Adders, At, Frame
  <2>3. Cardinality(Adders') = Cardinality(Adders) - 1
    BY <1>3, <2>2, FS_RemoveElement
  <2> QED BY <1>4, <2>1, <2>3 DEF HardInv
<1>7. CASE ~MaxOnSetLen(t) /\ ~MaxOnSetAdd(t)
  <2>1. frame'[t].pc # "max_add" /\ admitted' \subseteq admitted
    BY <1>1, <1>7, AddersShrink
  <2>2. Adders' \subseteq Adders
    BY <1>2, <2>1 DEF Adders, At
  <2>3. /\ Cardinality(Adders') <= Cardinality(Adders)
        /\ Cardinality(admitted') <= Cardinality(admitted)
    BY <1>1, <1>3, <2>1, <2>2, FS_Subset
  <2> QED BY <1>4, <2>3 DEF HardInv
<1> QED BY <1>5, <1>6, <1>7

(* However many threads set new keys at once, and for however long, the      *)
(* hard-limit rule admits fewer keys over its limit than there are threads:  *)
(* the race between its check and its add does not accumulate.               *)
THEOREM HardOvershootBounded == Spec => []HardOvershoot
<1>1. Init => HardInv
  <2> SUFFICES ASSUME Init PROVE HardInv
    OBVIOUS
  <2>1. Adders = {} /\ admitted = {}
    BY DEF Init, HardInit, Adders, At, Idle
  <2>2. Cardinality(Threads) \in Nat \ {0} /\ HardMaxItems \in Nat \ {0}
    BY ThreadsAssumption, HardAssumption, FS_CardinalityType, FS_EmptySet
  <2> QED BY <2>1, <2>2, FS_EmptySet DEF HardInv
<1>2. TypeOK /\ TypeOK' /\ HardInv /\ [Next]_vars => HardInv'
  <2> SUFFICES ASSUME TypeOK, TypeOK', HardInv, [Next]_vars PROVE HardInv'
    OBVIOUS
  <2>1. CASE Tick
    BY <2>1 DEF Tick, HardInv, Adders, At, ruleState
  <2>2. ASSUME NEW t \in Threads, Call(t) \/ Step(t) PROVE HardInv'
    BY <2>2, HardInvStep
  <2>3. CASE UNCHANGED vars
    BY <2>3 DEF HardInv, Adders, At, vars
  <2> QED BY <2>1, <2>2, <2>3 DEF Next
<1>3. TypeOK /\ HardInv => HardOvershoot
  <2> SUFFICES ASSUME TypeOK, HardInv PROVE HardOvershoot
    OBVIOUS
  <2>1. IsFiniteSet(Adders)
    BY ThreadsAssumption, FS_Subset DEF Adders
  <2>2. /\ Cardinality(Adders) \in Nat /\ Cardinality(admitted) \in Nat
        /\ Cardinality(Threads) \in Nat /\ HardMaxItems \in Nat
    BY <2>1, ThreadsAssumption, HardAssumption, FS_CardinalityType DEF TypeOK
  <2> QED BY <2>2 DEF HardInv, HardOvershoot
<1> QED BY <1>1, <1>2, <1>3, TypeCorrect, PTL DEF Spec

-----------------------------------------------------------------------------
(* What the rules remember is stored. *)

(* A call of u will store k or make r forget it. *)
Owes(u, k, r) == Storing(u, k, r) \/ Forgetting(u, k, r)

(* The tuple holds each rule at one position. *)
LEMMA OnePosition ==
  ASSUME rules \in RuleLists, NEW r \in Active
  PROVE  /\ r \in RuleKinds /\ Position(r) \in 1..Len(rules) /\ Len(rules) \in Nat
         /\ rules[Position(r)] = r /\ DOMAIN rules = 1..Len(rules)
         /\ \A n \in DOMAIN rules : rules[n] = r => n = Position(r)
<1>1. rules \in Seq(RuleKinds) /\ IsInjective(rules)
  BY RulesAssumption
<1>2. DOMAIN rules = 1..Len(rules) /\ Len(rules) \in Nat
  BY <1>1, LenProperties
<1>3. \E n \in DOMAIN rules : rules[n] = r
  BY DEF Active, ToSet
<1>4. Position(r) \in DOMAIN rules /\ rules[Position(r)] = r
  BY <1>3 DEF Position
<1> QED BY <1>1, <1>2, <1>4, ElementOfSeq DEF IsInjective

(* A thread that does not move owes what it owed. *)
LEMMA OthersOwe ==
  ASSUME NEW u \in Threads, NEW k, NEW r, frame'[u] = frame[u], rules' = rules, Owes(u, k, r)
  PROVE  Owes(u, k, r)'
  BY DEF Owes, Storing, Forgetting, At, Position

(* Outside three steps of set, the rules only forget. *)
LEMMA RulesForget ==
  ASSUME TypeOK, NEW t \in Threads, Call(t) \/ Step(t),
         ~LruOnSetInsert(t), ~MaxOnSetAdd(t), ~LifeOnSet(t)
  PROVE  /\ LruTracked' \subseteq LruTracked
         /\ admitted' \subseteq admitted
         /\ DOMAIN expiryTimes' \subseteq DOMAIN expiryTimes
<1> DEFINE Less == /\ LruTracked' \subseteq LruTracked
                   /\ admitted' \subseteq admitted
                   /\ DOMAIN expiryTimes' \subseteq DOMAIN expiryTimes
<1>1. /\ LruOK /\ LifeOK /\ frame[t] \in Frame /\ FrameOK(frame[t])
  BY TypeParts DEF FramesOK, RuleStateOK
<1>2. UNCHANGED ruleState => Less
  BY DEF ruleState, LruTracked
<1>3. CASE Call(t)
  BY <1>2, <1>3 DEF Call, Set, Get, Evict, Clear
<1>4. CASE SetStep(t)
  <2>1. CASE LruOnSetMove(t)
    BY <1>1, <2>1, LruOps DEF LruOnSetMove, At, FrameOK, SetLabels
  <2>2. CASE LruOnSetPop(t)
    BY <1>1, <2>2, LruOps DEF LruOnSetPop, At, FrameOK, SetLabels
  <2>3. CASE UNCHANGED ruleState
    BY <1>2, <2>3
  <2> QED BY <1>4, <2>1, <2>2, <2>3 DEF SetStep, LruOnSetKeyError, LruOnSetLen,
            LruOnSetPopKeyError, MaxOnSetIn, MaxOnSetLen, Store
<1>5. CASE GetStep(t)
  <2>1. CASE LruOnGetMove(t)
    BY <1>1, <2>1, LruOps DEF LruOnGetMove, At, FrameOK, GetLabels
  <2>2. CASE LifeOnGetCheck(t)
    BY <1>1, <2>2, LifeOps DEF LifeOnGetCheck, At, FrameOK, GetLabels, LruTracked
  <2>3. CASE UNCHANGED ruleState
    BY <1>2, <2>3
  <2> QED BY <1>5, <2>1, <2>2, <2>3 DEF GetStep, LruOnGetIn, LruOnGetKeyError, MaxOnGet,
            LifeOnGetRead, GetReturn
<1>6. CASE EvictStep(t)
  <2>1. CASE LruOnEvict(t)
    BY <1>1, <2>1, LruOps DEF LruOnEvict, Inner, At, FrameOK
  <2>2. CASE MaxOnEvict(t)
    BY <2>2 DEF MaxOnEvict, HardForget, LruTracked
  <2>3. CASE LifeOnEvict(t)
    BY <1>1, <2>3, LifeOps DEF LifeOnEvict, Inner, At, FrameOK, LruTracked
  <2>4. CASE UNCHANGED ruleState
    BY <1>2, <2>4
  <2> QED BY <1>6, <2>1, <2>2, <2>3, <2>4 DEF EvictStep, EffectEvict, EvictReturn, EffectDone
<1>7. CASE ClearStep(t)
  <2>1. CASE LruOnClear(t)
    BY <2>1 DEF LruOnClear, LruForgetAll, LruTracked, ToSet
  <2>2. CASE MaxOnClear(t)
    BY <2>2 DEF MaxOnClear, HardForgetAll, LruTracked
  <2>3. CASE LifeOnClear(t)
    BY <2>3 DEF LifeOnClear, LifeForgetAll, LruTracked, Restrict
  <2>4. CASE UNCHANGED ruleState
    BY <1>2, <2>4
  <2> QED BY <1>7, <2>1, <2>2, <2>3, <2>4 DEF ClearStep, ClearReturn
<1> QED BY <1>3, <1>4, <1>5, <1>6, <1>7 DEF Step

(* A rule learns of a key only from a set that goes on to store it. *)
LEMMA LearnsFromSet ==
  ASSUME TypeOK, NEW t \in Threads, Call(t) \/ Step(t), NEW r \in Active,
         NEW k \in Tracks(r)', k \notin Tracks(r)
  PROVE  Owes(t, k, r)'
<1>1. /\ frame \in [Threads -> Frame] /\ frame[t] \in Frame /\ FrameOK(frame[t])
      /\ LabelsOK /\ LruOK /\ LifeOK /\ InMemoryTypeOK /\ rules' = rules
  BY TypeParts, StateSteps DEF FramesOK, RuleStateOK
<1>2. /\ r \in RuleKinds /\ Position(r) \in 1..Len(rules) /\ Len(rules) \in Nat
      /\ DOMAIN rules = 1..Len(rules)
      /\ \A n \in DOMAIN rules : rules[n] = r => n = Position(r)
      /\ rules[Position(r)] = r /\ Position(r)' = Position(r)
  BY <1>1, OnePosition DEF TypeOK, Position
<1>3. SUFFICES frame'[t].op = "set" /\ frame'[t].key = k
               /\ (\/ frame'[t].i > Position(r)
                   \/ frame'[t].i = Position(r) /\ frame'[t].pc # "on_set")
  BY <1>2 DEF Owes, Storing, At
<1>4. CASE LruOnSetInsert(t)
  <2>1. LruTracked' = LruTracked \cup {frame[t].key} /\ frame[t].op = "set"
    BY <1>1, <1>4, LruOps DEF LruOnSetInsert, Outer, At, FrameOK, SetLabels
  <2>2. r = "lru" /\ k = frame[t].key
    BY <1>2, <1>4, <2>1 DEF LruOnSetInsert, Tracks, RuleKinds
  <2>3. frame[t].i = Position(r)
    BY <1>2, <1>4, <2>2 DEF LruOnSetInsert, Outer, InRule
  <2> QED BY <1>1, <1>4, <2>1, <2>2, <2>3 DEF LruOnSetInsert, Goto, Frame
<1>5. CASE MaxOnSetAdd(t)
  <2>1. admitted' = admitted \cup {frame[t].key} /\ frame[t].op = "set"
    BY <1>1, <1>5 DEF MaxOnSetAdd, HardAdmit, At, FrameOK, SetLabels
  <2>2. r = "max" /\ k = frame[t].key
    BY <1>2, <1>5, <2>1 DEF MaxOnSetAdd, Tracks, RuleKinds, LruTracked
  <2>3. frame[t].i = Position(r)
    BY <1>1, <1>2, <1>5, <2>2 DEF MaxOnSetAdd, LabelsOK, InRule, At
  <2> QED BY <1>1, <1>2, <1>5, <2>1, <2>2, <2>3 DEF MaxOnSetAdd, NextOuter, Frame
<1>6. CASE LifeOnSet(t)
  <2>1. frame[t].key \in Keys /\ clock + frame[t].ttl \in Nat /\ frame[t].op = "set"
    BY <1>1, <1>6 DEF LifeOnSet, Outer, At, Frame, FrameOK, SetLabels, InMemoryTypeOK
  <2>2. DOMAIN expiryTimes' = DOMAIN expiryTimes \cup {frame[t].key}
    BY <1>1, <1>6, <2>1, LifeOps DEF LifeOnSet
  <2>3. r = "life" /\ k = frame[t].key
    BY <1>2, <1>6, <2>2 DEF LifeOnSet, Tracks, RuleKinds, LruTracked
  <2>4. frame[t].i = Position(r)
    BY <1>2, <1>6, <2>3 DEF LifeOnSet, Outer, InRule
  <2> QED BY <1>1, <1>2, <1>6, <2>1, <2>3, <2>4 DEF LifeOnSet, NextOuter, Frame
<1>7. CASE ~LruOnSetInsert(t) /\ ~MaxOnSetAdd(t) /\ ~LifeOnSet(t)
  BY <1>2, <1>7, RulesForget DEF Tracks, RuleKinds
<1> QED BY <1>4, <1>5, <1>6, <1>7

(* A key leaves the storage only in a call that goes on to tell every rule. *)
LEMMA LossIsTold ==
  ASSUME TypeOK, NEW t \in Threads, Call(t) \/ Step(t), NEW r \in Active,
         NEW k, Stored(k), ~Stored(k)'
  PROVE  Owes(t, k, r)'
<1>1. /\ frame \in [Threads -> Frame] /\ frame[t] \in Frame /\ FrameOK(frame[t])
      /\ InMemoryTypeOK /\ rules' = rules /\ k \in Keys
  BY TypeParts, StateSteps DEF FramesOK, InMemoryTypeOK, Stored
<1>2. Position(r) \in 1..Len(rules) /\ Len(rules) \in Nat /\ Position(r)' = Position(r)
  BY <1>1, OnePosition DEF TypeOK, Position
<1>3. SUFFICES frame'[t].j = 1 /\ (\/ frame'[t].pc = "on_evict" /\ frame'[t].victim = k
                                  \/ frame'[t].pc = "on_clear")
  BY <1>2 DEF Owes, Forgetting, At
<1>4. ASSUME NEW l \in Keys, Evict(t, l) PROVE frame'[t].j = 1 /\ frame'[t].pc = "on_evict" /\ frame'[t].victim = k
  <2>1. l = k
    BY <1>1, <1>4, StorageOps DEF Evict, Stored
  <2> QED BY <1>1, <1>4, <2>1 DEF Evict, Idle
<1>5. CASE Clear(t)
  BY <1>1, <1>5 DEF Clear, Idle
<1>6. CASE EffectEvict(t)
  <2>1. frame[t].victim = k
    BY <1>1, <1>6, StorageOps DEF EffectEvict, Stored, At, FrameOK
  <2> QED BY <1>1, <1>6, <2>1 DEF EffectEvict, Frame
<1>7. CASE Store(t)
  <2>1. frame[t].key \in Keys /\ frame[t].value \in Values /\ frame[t].ttl \in Nat
    BY <1>1, <1>7 DEF Store, OuterDone, At, Frame, FrameOK, SetLabels
  <2> QED BY <1>1, <1>7, <2>1, StorageOps DEF Store, Stored
<1>8. CASE UNCHANGED cache
  BY <1>8 DEF Stored
<1>9. CASE Call(t)
  BY <1>4, <1>5, <1>8, <1>9 DEF Call, Set, Get
<1>10. CASE SetStep(t)
  BY <1>7, <1>8, <1>10 DEF SetStep, LruOnSetInsert, LruOnSetMove, LruOnSetKeyError, LruOnSetLen,
       LruOnSetPop, LruOnSetPopKeyError, MaxOnSetIn, MaxOnSetLen, MaxOnSetAdd, LifeOnSet
<1>11. CASE GetStep(t)
  BY <1>8, <1>11 DEF GetStep, LruOnGetIn, LruOnGetMove, LruOnGetKeyError, MaxOnGet,
       LifeOnGetRead, LifeOnGetCheck, GetReturn
<1>12. CASE EvictStep(t)
  BY <1>6, <1>8, <1>12 DEF EvictStep, LruOnEvict, MaxOnEvict, LifeOnEvict, EvictReturn, EffectDone
<1>13. CASE ClearStep(t)
  BY <1>8, <1>13 DEF ClearStep, LruOnClear, MaxOnClear, LifeOnClear, ClearReturn
<1> QED BY <1>9, <1>10, <1>11, <1>12, <1>13 DEF Step

(* A thread that owes a rule something still does after a step of its own,  *)
(* or has just paid.  This is where the KeyErrors of the LRU rule matter: a *)
(* set that raises there never stores its key, which only rules that come   *)
(* later have not recorded yet.                                             *)
LEMMA OwnerPays ==
  ASSUME TypeOK, NEW t \in Threads, Call(t) \/ Step(t),
         NEW r \in Active, ~Precedes(r, "lru"),
         NEW k \in Tracks(r), k \in Tracks(r)', Owes(t, k, r)
  PROVE  Stored(k)' \/ Owes(t, k, r)'
<1>1. /\ frame \in [Threads -> Frame] /\ frame[t] \in Frame /\ FrameOK(frame[t])
      /\ LabelsOK /\ LruOK /\ LifeOK /\ InMemoryTypeOK /\ rules' = rules
  BY TypeParts, StateSteps DEF FramesOK, RuleStateOK
<1>2. /\ r \in RuleKinds /\ Position(r) \in 1..Len(rules) /\ Len(rules) \in Nat
      /\ DOMAIN rules = 1..Len(rules) /\ rules[Position(r)] = r
      /\ \A n \in DOMAIN rules : rules[n] = r => n = Position(r)
      /\ Position(r)' = Position(r)
  BY <1>1, OnePosition DEF TypeOK, Position
<1>3. frame[t].i \in Nat /\ frame[t].j \in Nat
  BY <1>1 DEF Frame
<1>4. CASE Storing(t, k, r)
  <2>1. /\ frame[t].op = "set" /\ frame[t].key = k
        /\ \/ frame[t].i > Position(r)
           \/ frame[t].i = Position(r) /\ frame[t].pc # "on_set"
    BY <1>4 DEF Storing, At
  <2>2. /\ frame[t].pc \notin {"idle", "on_clear"} \cup GetLabels
    BY <1>1, <2>1 DEF FrameOK
  <2>3. ASSUME frame'[t].op = "set", frame'[t].key = k,
               \/ frame'[t].i = frame[t].i + 1
               \/ frame'[t].i = frame[t].i /\ frame'[t].pc # "on_set"
        PROVE  Owes(t, k, r)'
    BY <1>2, <1>3, <2>1, <2>3 DEF Owes, Storing, At
  <2>4. CASE LruOnSetKeyError(t) \/ LruOnSetPopKeyError(t)
    <3>1. InRule(t, "lru") /\ k \notin LruTracked
      BY <1>1, <2>1, <2>4 DEF LruOnSetKeyError, LruOnSetPopKeyError, At, LabelsOK,
           LruOK, LruTracked, ToSet
    <3>2. "lru" \in Active /\ frame[t].i \in DOMAIN rules /\ rules[frame[t].i] = "lru"
      BY <3>1 DEF InRule, Active, ToSet
    <3>3. Position("lru") = frame[t].i
      BY <3>2, OnePosition DEF TypeOK
    <3>4. frame[t].i = Position(r)
      BY <1>2, <2>1, <3>2, <3>3 DEF Precedes
    <3>5. r = "lru"
      BY <1>2, <3>2, <3>4
    <3> QED BY <3>1, <3>5 DEF Tracks
  <2>5. CASE Store(t)
    <3>1. frame[t].key \in Keys /\ frame[t].value \in Values /\ frame[t].ttl \in Nat
      BY <1>1, <2>1 DEF Frame, FrameOK
    <3> QED BY <1>1, <2>1, <2>5, <3>1, StorageOps DEF Store, Stored
  <2>6. CASE LruOnSetInsert(t) \/ LruOnSetMove(t)
    BY <1>1, <2>1, <2>3, <2>6 DEF LruOnSetInsert, LruOnSetMove, Goto, Frame
  <2>7. CASE LruOnSetLen(t)
    BY <1>1, <2>1, <2>3, <2>7 DEF LruOnSetLen, Goto, NextOuter, Frame
  <2>8. CASE LruOnSetPop(t)
    BY <1>1, <2>1, <2>3, <2>8 DEF LruOnSetPop, Effect, Frame
  <2>9. CASE MaxOnSetIn(t)
    BY <1>1, <2>1, <2>3, <2>9 DEF MaxOnSetIn, Goto, NextOuter, Frame
  <2>10. CASE MaxOnSetLen(t)
    BY <1>1, <2>1, <2>3, <2>10 DEF MaxOnSetLen, Goto, Effect, Frame
  <2>11. CASE MaxOnSetAdd(t) \/ LifeOnSet(t)
    BY <1>1, <2>1, <2>3, <2>11 DEF MaxOnSetAdd, LifeOnSet, NextOuter, Frame
  <2>12. CASE EffectEvict(t)
    BY <1>1, <2>1, <2>3, <2>12 DEF EffectEvict, Frame
  <2>13. CASE LruOnEvict(t) \/ MaxOnEvict(t) \/ LifeOnEvict(t)
    <3>1. NextInner(t) /\ frame[t].pc = "on_evict"
      BY <2>13 DEF LruOnEvict, MaxOnEvict, LifeOnEvict, Inner, At
    <3> QED BY <1>1, <2>1, <2>3, <3>1 DEF NextInner, Frame
  <2>14. CASE EffectDone(t)
    BY <1>1, <2>1, <2>3, <2>14 DEF EffectDone, Frame
  <2>15. ~Call(t) /\ ~GetStep(t) /\ ~ClearStep(t) /\ ~EvictReturn(t)
    BY <2>1, <2>2 DEF Call, Set, Get, Evict, Clear, GetStep, LruOnGetIn, LruOnGetMove,
         LruOnGetKeyError, MaxOnGet, LifeOnGetRead, LifeOnGetCheck, GetReturn, ClearStep,
         LruOnClear, MaxOnClear, LifeOnClear, ClearReturn, EvictReturn, Outer, OuterDone,
         Inner, InnerDone, At, GetLabels
  <2> QED BY <2>4, <2>5, <2>6, <2>7, <2>8, <2>9, <2>10, <2>11, <2>12, <2>13, <2>14, <2>15
          DEF Step, SetStep, EvictStep
<1>5. CASE Forgetting(t, k, r)
  <2>1. /\ \/ frame[t].pc = "on_evict" /\ frame[t].victim = k
           \/ frame[t].pc = "on_clear"
        /\ frame[t].j <= Position(r)
    BY <1>5 DEF Forgetting, At
  <2>2. ASSUME NextInner(t), frame[t].j # Position(r) PROVE Owes(t, k, r)'
    BY <1>1, <1>2, <1>3, <2>1, <2>2 DEF NextInner, Owes, Forgetting, At, Frame
  <2>3. frame[t].j \in DOMAIN rules /\ rules[frame[t].j] = r => frame[t].j = Position(r)
    BY <1>2
  <2>4. k \in Keys
    BY <1>1, <1>2 DEF Tracks, RuleKinds, LruOK, LifeOK, LruTracked, ToSet, TypeOK
  <2>5. CASE LruOnEvict(t) \/ LruOnClear(t)
    <3>1. NextInner(t) /\ frame[t].j \in DOMAIN rules /\ rules[frame[t].j] = "lru"
      BY <2>5 DEF LruOnEvict, LruOnClear, Inner
    <3>2. k \notin LruTracked'
      BY <1>1, <2>1, <2>4, <2>5, LruOps DEF LruOnEvict, LruOnClear, Inner, At
    <3>3. r # "lru"
      BY <3>2 DEF Tracks
    <3> QED BY <1>2, <2>2, <3>1, <3>3
  <2>6. CASE MaxOnEvict(t) \/ MaxOnClear(t)
    <3>1. NextInner(t) /\ frame[t].j \in DOMAIN rules /\ rules[frame[t].j] = "max"
      BY <2>6 DEF MaxOnEvict, MaxOnClear, Inner
    <3>2. k \notin admitted'
      BY <2>1, <2>6 DEF MaxOnEvict, MaxOnClear, HardForget, HardForgetAll, Inner, At
    <3>3. r # "max"
      BY <3>2 DEF Tracks
    <3> QED BY <1>2, <2>2, <3>1, <3>3
  <2>7. CASE LifeOnEvict(t) \/ LifeOnClear(t)
    <3>1. NextInner(t) /\ frame[t].j \in DOMAIN rules /\ rules[frame[t].j] = "life"
      BY <2>7 DEF LifeOnEvict, LifeOnClear, Inner
    <3>2. k \notin DOMAIN expiryTimes'
      BY <1>1, <2>1, <2>4, <2>7, LifeOps DEF LifeOnEvict, LifeOnClear, Inner, At
    <3>3. r # "life"
      BY <3>2 DEF Tracks
    <3> QED BY <1>2, <2>2, <3>1, <3>3
  <2>8. ~(frame[t].j > Len(rules))
    BY <1>2, <1>3, <2>1
  <2>9. ~Call(t) /\ ~SetStep(t) /\ ~GetStep(t)
    <3>1. ~Call(t)
      BY <2>1 DEF Call, Set, Get, Evict, Clear, At
    <3>2. ~SetStep(t)
      BY <2>1 DEF SetStep, LruOnSetInsert, LruOnSetMove, LruOnSetKeyError, LruOnSetLen,
           LruOnSetPop, LruOnSetPopKeyError, MaxOnSetIn, MaxOnSetLen, MaxOnSetAdd, LifeOnSet,
           Store, Outer, OuterDone, At
    <3>3. ~GetStep(t)
      BY <2>1 DEF GetStep, LruOnGetIn, LruOnGetMove, LruOnGetKeyError, MaxOnGet,
           LifeOnGetRead, LifeOnGetCheck, GetReturn, Outer, OuterDone, At
    <3> QED BY <3>1, <3>2, <3>3
  <2>10. ~EffectEvict(t) /\ ~EvictReturn(t) /\ ~EffectDone(t) /\ ~ClearReturn(t)
    BY <2>1, <2>8 DEF EffectEvict, EvictReturn, EffectDone, ClearReturn, InnerDone, At
  <2> QED BY <2>5, <2>6, <2>7, <2>9, <2>10 DEF Step, EvictStep, ClearStep
<1> QED BY <1>4, <1>5 DEF Owes

(* A rule that no LRU rule follows never remembers, for good, a key the      *)
(* storage has lost: at any moment a key it tracks is stored, or some thread *)
(* is inside the call that will store it or make the rule forget it.         *)
THEOREM TrackedStaysStored == Spec => []TrackedIsStored
<1>1. Init => TrackedIsStored
  <2> SUFFICES ASSUME Init, NEW r \in Active PROVE Tracks(r) = {}
    BY DEF TrackedIsStored
  <2>1. r \in RuleKinds
    BY OnePosition DEF Init
  <2>2. LruTracked = {} /\ admitted = {} /\ DOMAIN expiryTimes = {}
    BY DEF Init, LruInit, HardInit, LifeInit, LruTracked, ToSet
  <2> QED BY <2>1, <2>2 DEF Tracks, RuleKinds
<1>2. TypeOK /\ TrackedIsStored /\ [Next]_vars => TrackedIsStored'
  <2> SUFFICES ASSUME TypeOK, TrackedIsStored, [Next]_vars PROVE TrackedIsStored'
    OBVIOUS
  <2>1. CASE Tick \/ UNCHANGED vars
    <3>1. UNCHANGED <<cache, accessOrder, admitted, expiryTimes, rules, frame>>
      BY <2>1 DEF Tick, vars, ruleState
    <3>2. LruTracked' = LruTracked /\ Active' = Active
      BY <3>1 DEF LruTracked, Active
    <3>3. \A r : Tracks(r)' = Tracks(r) /\ Precedes(r, "lru")' = Precedes(r, "lru")
      BY <3>1, <3>2 DEF Tracks, Precedes, Position
    <3>4. \A u, k, r : Owes(u, k, r)' = Owes(u, k, r)
      BY <3>1 DEF Owes, Storing, Forgetting, At, Position
    <3>5. \A k : Stored(k)' = Stored(k)
      BY <3>1 DEF Stored
    <3> QED BY <3>2, <3>3, <3>4, <3>5 DEF TrackedIsStored, Owes
  <2>2. ASSUME NEW t \in Threads, Call(t) \/ Step(t) PROVE TrackedIsStored'
    <3>1. FramesOK /\ rules' = rules /\ \A u \in Threads \ {t} : frame'[u] = frame[u]
      BY <2>2, TypeParts, StateSteps, FrameLocal
    <3>2. Active' = Active
      BY <3>1 DEF Active
    <3>3. \A r \in Active : Precedes(r, "lru")' = Precedes(r, "lru")
      BY <3>1, <3>2 DEF Precedes, Position
    <3> SUFFICES ASSUME NEW r \in Active, ~Precedes(r, "lru"), NEW k \in Tracks(r)'
                 PROVE  Stored(k)' \/ \E u \in Threads : Owes(u, k, r)'
      BY <3>2, <3>3 DEF TrackedIsStored, Owes
    <3>4. CASE k \notin Tracks(r)
      BY <2>2, <3>4, LearnsFromSet
    <3>5. CASE Stored(k)
      BY <2>2, <3>5, LossIsTold
    <3>6. CASE k \in Tracks(r) /\ ~Stored(k)
      <4>1. PICK u \in Threads : Owes(u, k, r)
        BY <3>6 DEF TrackedIsStored, Owes
      <4>2. CASE u = t
        BY <2>2, <3>6, <4>1, <4>2, OwnerPays
      <4>3. CASE u # t
        BY <3>1, <4>1, <4>3, OthersOwe
      <4> QED BY <4>2, <4>3
    <3> QED BY <3>4, <3>5, <3>6
  <2> QED BY <2>1, <2>2 DEF Next
<1> QED BY <1>1, <1>2, TypeCorrect, PTL DEF Spec

=============================================================================
