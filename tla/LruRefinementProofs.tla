------------------------- MODULE LruRefinementProofs -------------------------
(***************************************************************************)
(* RuleAwareStorage with the LRU rule, called by one thread, implements    *)
(* LruCache: proof for any keys, values and limits, with or without the    *)
(* life-time rule, on either side of the LRU rule.                         *)
(***************************************************************************)
EXTENDS LruRefinement, SequentialProofs

-----------------------------------------------------------------------------
(* More about RemoveFirst. *)

(* A key that is not there is not removed. *)
LEMMA RemoveAbsent ==
  ASSUME NEW S, NEW s \in Seq(S), NEW e, e \notin ToSet(s)
  PROVE  RemoveFirst(s, e) = s
<1>1. DOMAIN s = 1..Len(s)
  BY LenProperties
<1> QED BY <1>1 DEF RemoveFirst, ToSet

(* The key at the warm end: removing it undoes the append. *)
LEMMA RemoveAppended ==
  ASSUME NEW S, NEW s \in Seq(S), NEW e \in S, e \notin ToSet(s)
  PROVE  RemoveFirst(Append(s, e), e) = s
<1> DEFINE a == Append(s, e)
           n == Len(s) + 1
<1>1. /\ a \in Seq(S) /\ Len(a) = n /\ a[n] = e /\ \A i \in 1..Len(s) : a[i] = s[i]
      /\ Len(s) \in Nat /\ DOMAIN s = 1..Len(s)
  BY AppendProperties, LenProperties
<1> HIDE DEF a
<1>2. {i \in 1..Len(a) : a[i] = e} = {n}
  BY <1>1 DEF ToSet
<1>3. SelectInSeq(a, LAMBDA v : v = e) = n
  BY <1>1, <1>2 DEF SelectInSeq, Min
<1>4. RemoveFirst(a, e) = SubSeq(a, 1, n - 1) \o SubSeq(a, n + 1, Len(a))
  <2>1. n \in 1..Len(a)
    BY <1>1
  <2> HIDE DEF n
  <2> QED BY <1>1, <1>3, <2>1 DEF RemoveFirst, RemoveAt
<1>5. SubSeq(a, n + 1, Len(a)) = <<>>
  BY <1>1, SubSeqEmpty
<1>6. SubSeq(a, 1, n - 1) \in Seq(S) /\ SubSeq(a, 1, n - 1) = s
  <2>1. \A i \in 1..(n - 1) : a[i] \in S
    BY <1>1
  <2>2. /\ SubSeq(a, 1, n - 1) \in Seq(S) /\ Len(SubSeq(a, 1, n - 1)) = n - 1
        /\ \A i \in 1..(n - 1) : SubSeq(a, 1, n - 1)[i] = a[i]
    BY <1>1, <2>1, SubSeqProperties
  <2> HIDE DEF n
  <2>3. n - 1 = Len(s)
    BY <1>1 DEF n
  <2> QED BY <1>1, <2>2, <2>3, SeqEqual
<1> QED BY <1>4, <1>5, <1>6, ConcatEmptySeq DEF a

(* A sequence whose last element is e is what is left without e, and e. *)
LEMMA RemoveLast ==
  ASSUME NEW S, NEW s \in Seq(S), IsInjective(s), s # <<>>, NEW e, s[Len(s)] = e
  PROVE  /\ e \in S /\ RemoveFirst(s, e) \in Seq(S) /\ e \notin ToSet(RemoveFirst(s, e))
         /\ s = Append(RemoveFirst(s, e), e) /\ Len(s) = Len(RemoveFirst(s, e)) + 1
<1>1. PICK p \in Seq(S), d \in S : s = Append(p, d)
  BY SequenceEmptyOrAppend
<1>2. /\ Len(s) = Len(p) + 1 /\ s[Len(p) + 1] = d /\ \A i \in 1..Len(p) : s[i] = p[i]
      /\ DOMAIN s = 1..Len(s) /\ DOMAIN p = 1..Len(p) /\ Len(p) \in Nat
  BY <1>1, AppendProperties, LenProperties
<1>3. d = e
  BY <1>2
<1>4. e \notin ToSet(p)
  BY <1>2, <1>3 DEF ToSet, IsInjective
<1>5. RemoveFirst(s, e) = p
  BY <1>1, <1>3, <1>4, RemoveAppended
<1> QED BY <1>1, <1>2, <1>3, <1>4, <1>5

(* Removing a key leaves another one at the cold end. *)
LEMMA RemoveBehind ==
  ASSUME NEW S, NEW s \in Seq(S), IsInjective(s), NEW v \in S, v \notin ToSet(s), NEW e, e # v
  PROVE  RemoveFirst(<<v>> \o s, e) = <<v>> \o RemoveFirst(s, e)
<1> DEFINE c == <<v>> \o s
<1>1. /\ c \in Seq(S) /\ Len(c) = Len(s) + 1 /\ c[1] = v
      /\ \A i \in 1..Len(s) : c[i + 1] = s[i]
  <2>1. <<v>> \in Seq(S) /\ Len(<<v>>) = 1 /\ Len(s) \in Nat /\ <<v>>[1] = v
    BY LenProperties
  <2>2. /\ c \in Seq(S) /\ Len(c) = 1 + Len(s)
        /\ \A i \in 1 .. 1 + Len(s) : c[i] = IF i <= 1 THEN <<v>>[i] ELSE s[i - 1]
    BY <2>1, ConcatProperties
  <2> HIDE DEF c
  <2>3. \A i \in 1..Len(s) : i + 1 \in 1 .. 1 + Len(s) /\ ~(i + 1 <= 1) /\ (i + 1) - 1 = i
    BY <2>1
  <2>4. \A i \in 1..Len(s) : c[i + 1] = s[i]
    BY <2>2, <2>3
  <2> QED BY <2>1, <2>2, <2>4
<1>2. /\ Len(s) \in Nat /\ DOMAIN s = 1..Len(s) /\ DOMAIN c = 1..Len(c)
  BY <1>1, LenProperties
<1> HIDE DEF c
<1>3. CASE e \notin ToSet(s)
  <2>1. e \notin ToSet(c)
    <3>1. ASSUME NEW i \in 1..Len(c), c[i] = e PROVE FALSE
      <4>1. i # 1 /\ i - 1 \in 1..Len(s) /\ c[(i - 1) + 1] = s[i - 1] /\ (i - 1) + 1 = i
        BY <1>1, <1>2, <3>1
      <4> QED BY <1>2, <1>3, <3>1, <4>1 DEF ToSet
    <3> QED BY <1>2, <3>1 DEF ToSet
  <2> QED BY <1>1, <1>3, <2>1, RemoveAbsent DEF c
<1>4. CASE e \in ToSet(s)
  <2>1. PICK n \in 1..Len(s) : s[n] = e
    BY <1>2, <1>4 DEF ToSet
  <2>2. {i \in 1..Len(s) : s[i] = e} = {n}
    BY <1>2, <2>1 DEF IsInjective
  <2>3. {i \in 1..Len(c) : c[i] = e} = {n + 1}
    <3>1. ASSUME NEW i \in 1..Len(c), c[i] = e PROVE i = n + 1
      <4>1. i # 1 /\ i - 1 \in 1..Len(s) /\ c[(i - 1) + 1] = s[i - 1] /\ (i - 1) + 1 = i
        BY <1>1, <1>2, <3>1
      <4> QED BY <2>2, <3>1, <4>1
    <3> QED BY <1>1, <1>2, <2>1, <3>1
  <2>4. RemoveFirst(s, e) = SubSeq(s, 1, n - 1) \o SubSeq(s, n + 1, Len(s))
    <3>1. SelectInSeq(s, LAMBDA x : x = e) = n
      BY <2>1, <2>2 DEF SelectInSeq, Min
    <3> QED BY <2>1, <3>1 DEF RemoveFirst, RemoveAt
  <2>5. RemoveFirst(c, e) = SubSeq(c, 1, n) \o SubSeq(c, n + 2, Len(c))
    <3>1. SelectInSeq(c, LAMBDA x : x = e) = n + 1
      BY <1>2, <2>1, <2>3 DEF SelectInSeq, Min
    <3>2. (n + 1) - 1 = n /\ (n + 1) + 1 = n + 2 /\ n + 1 \in 1..Len(c) /\ c[n + 1] = e
      BY <1>1, <1>2, <2>1
    <3> QED BY <3>1, <3>2 DEF RemoveFirst, RemoveAt
  <2> DEFINE p == SubSeq(s, 1, n - 1)
             q == SubSeq(s, n + 1, Len(s))
             p1 == SubSeq(c, 1, n)
             q1 == SubSeq(c, n + 2, Len(c))
  <2>6. n \in Nat /\ 1 <= n /\ n <= Len(s)
    BY <1>2, <2>1
  <2>7. p \in Seq(S) /\ Len(p) = n - 1 /\ \A i \in 1..(n - 1) : p[i] = s[i]
    <3>1. \A i \in 1..(n - 1) : s[i] \in S
      BY <1>2, <2>6
    <3> QED BY <2>6, <3>1, SubSeqProperties
  <2>8. q \in Seq(S) /\ Len(q) = Len(s) - n /\ \A i \in 1..(Len(s) - n) : q[i] = s[n + i]
    <3>1. \A i \in (n + 1)..Len(s) : s[i] \in S
      BY <1>2, <2>6
    <3>2. /\ q \in Seq(S) /\ Len(q) = (IF n + 1 <= Len(s) THEN Len(s) - (n + 1) + 1 ELSE 0)
          /\ \A i \in 1..(Len(s) - (n + 1) + 1) : q[i] = s[(n + 1) + i - 1]
      BY <1>2, <2>6, <3>1, SubSeqProperties
    <3> HIDE DEF q
    <3>3. Len(s) - (n + 1) + 1 = Len(s) - n /\ (Len(s) - n = 0 \/ n + 1 <= Len(s))
      <4>1. \A l, m \in Nat : l <= m => m - (l + 1) + 1 = m - l /\ (m - l = 0 \/ l + 1 <= m)
        OBVIOUS
      <4> QED BY <1>2, <2>6, <4>1
    <3>4. ASSUME NEW i \in 1..(Len(s) - n) PROVE q[i] = s[n + i]
      <4>1. (n + 1) + i - 1 = n + i
        BY <2>6
      <4> QED BY <3>2, <3>3, <4>1
    <3> QED BY <3>2, <3>3, <3>4
  <2>9. p1 \in Seq(S) /\ Len(p1) = n /\ \A i \in 1..n : p1[i] = c[i]
    <3>1. \A i \in 1..n : c[i] \in S
      BY <1>1, <1>2, <2>6
    <3> QED BY <2>6, <3>1, SubSeqProperties
  <2>10. q1 \in Seq(S) /\ Len(q1) = Len(s) - n /\ \A i \in 1..(Len(s) - n) : q1[i] = c[(n + 1) + i]
    <3>1. \A i \in (n + 2)..Len(c) : c[i] \in S
      BY <1>1, <1>2, <2>6
    <3>2. /\ q1 \in Seq(S) /\ Len(q1) = (IF n + 2 <= Len(c) THEN Len(c) - (n + 2) + 1 ELSE 0)
          /\ \A i \in 1..(Len(c) - (n + 2) + 1) : q1[i] = c[(n + 2) + i - 1]
      BY <1>1, <1>2, <2>6, <3>1, SubSeqProperties
    <3> HIDE DEF q1
    <3>3. Len(c) - (n + 2) + 1 = Len(s) - n /\ (Len(s) - n = 0 \/ n + 2 <= Len(c))
      <4>1. \A l, m \in Nat : l <= m => (m + 1) - (l + 2) + 1 = m - l /\ (m - l = 0 \/ l + 2 <= m + 1)
        OBVIOUS
      <4> QED BY <1>1, <1>2, <2>6, <4>1
    <3>4. ASSUME NEW i \in 1..(Len(s) - n) PROVE q1[i] = c[(n + 1) + i]
      <4>1. (n + 2) + i - 1 = (n + 1) + i
        BY <2>6
      <4> QED BY <3>2, <3>3, <4>1
    <3> QED BY <3>2, <3>3, <3>4
  <2> HIDE DEF p, q, p1, q1
  <2>11. q1 = q
    <3>1. \A i \in 1..(Len(s) - n) :
            n + i \in 1..Len(s) /\ (n + 1) + i = (n + i) + 1 /\ c[(n + i) + 1] = s[n + i]
      BY <1>1, <1>2, <2>6
    <3>2. \A i \in 1..Len(q1) : q1[i] = q[i]
      BY <2>8, <2>10, <3>1
    <3> QED BY <2>8, <2>10, <3>2, SeqEqual
  <2>12. p1 = <<v>> \o p
    <3>1. <<v>> \in Seq(S) /\ Len(<<v>>) = 1 /\ <<v>>[1] = v
      OBVIOUS
    <3> DEFINE vp == <<v>> \o p
    <3>2. /\ vp \in Seq(S) /\ Len(vp) = 1 + Len(p)
          /\ \A i \in 1 .. 1 + Len(p) : vp[i] = IF i <= 1 THEN <<v>>[i] ELSE p[i - 1]
      BY <2>7, <3>1, ConcatProperties
    <3> HIDE DEF vp
    <3>3. Len(vp) = n
      BY <2>6, <2>7, <3>2
    <3>4. ASSUME NEW i \in 1..n PROVE p1[i] = vp[i]
      <4>1. CASE i = 1
        BY <1>1, <2>6, <2>7, <2>9, <3>1, <3>2, <4>1
      <4>2. CASE i # 1
        <5>1. /\ i - 1 \in 1..(n - 1) /\ i - 1 \in 1..Len(s) /\ (i - 1) + 1 = i
              /\ ~(i <= 1) /\ i \in 1 .. 1 + Len(p)
          BY <1>2, <2>6, <2>7, <4>2
        <5>2. p1[i] = s[i - 1]
          BY <1>1, <2>9, <5>1
        <5> QED BY <2>7, <3>2, <5>1, <5>2
      <4> QED BY <4>1, <4>2
    <3> QED BY <2>9, <3>2, <3>3, <3>4, SeqEqual DEF vp
  <2>13. (<<v>> \o p) \o q = <<v>> \o (p \o q)
    <3> DEFINE vs == <<v>>
    <3>1. vs \in Seq(S)
      OBVIOUS
    <3>2. p \in Seq(S) /\ q \in Seq(S)
      BY <2>7, <2>8
    <3> HIDE DEF vs
    <3>3. (vs \o p) \o q = vs \o (p \o q)
      BY <3>1, <3>2, SMTT(20)
    <3> QED BY <3>3 DEF vs
  <2> QED BY <2>4, <2>5, <2>11, <2>12, <2>13 DEF c, p, q, p1, q1
<1> QED BY <1>3, <1>4

(* The same of a sequence split at its cold end. *)
LEMMA RemoveBehindHead ==
  ASSUME NEW S, NEW s \in Seq(S), IsInjective(s), s # <<>>, NEW e, e # Head(s)
  PROVE  RemoveFirst(s, e) = <<Head(s)>> \o RemoveFirst(Tail(s), e)
<1> DEFINE h == Head(s)
           r == Tail(s)
           c == <<h>> \o r
<1>1. /\ h \in S /\ r \in Seq(S) /\ IsInjective(r) /\ h \notin ToSet(r)
  BY TailDistinct
<1>2. s = c
  BY HeadTailProperties
<1>3. RemoveFirst(<<h>> \o r, e) = <<h>> \o RemoveFirst(r, e)
  <2> HIDE DEF h, r
  <2>1. e # h
    BY DEF h
  <2> QED BY <1>1, <2>1, RemoveBehind
<1> HIDE DEF h, r, c
<1>4. RemoveFirst(c, e) = <<h>> \o RemoveFirst(r, e)
  BY <1>3 DEF c
<1>5. RemoveFirst(s, e) = <<h>> \o RemoveFirst(r, e)
  BY <1>2, <1>4
<1> QED BY <1>5 DEF h, r

(* Removing another key leaves the cold end, which still leads the rest. *)
LEMMA ColdEndStays ==
  ASSUME NEW S, NEW s \in Seq(S), IsInjective(s), s # <<>>, NEW e, e # Head(s)
  PROVE  LET r == RemoveFirst(s, e)
         IN  /\ r \in Seq(S) /\ Head(r) = Head(s) /\ Tail(r) = RemoveFirst(Tail(s), e)
             /\ ToSet(Tail(r)) = ToSet(r) \ {Head(s)}
<1> DEFINE h == Head(s)
           q == RemoveFirst(Tail(s), e)
           r == RemoveFirst(s, e)
<1>1. r = <<h>> \o q
  BY RemoveBehindHead
<1>2. h \in S /\ Tail(s) \in Seq(S) /\ IsInjective(Tail(s))
  BY TailDistinct
<1>3. q \in Seq(S)
  BY <1>2, RemoveFirstProperties
<1>4. r \in Seq(S) /\ IsInjective(r)
  BY RemoveFirstProperties
<1> HIDE DEF h, q, r
<1>5. Head(<<h>> \o q) = h /\ Tail(<<h>> \o q) = q /\ <<h>> \o q # <<>>
  BY <1>2, <1>3
<1>6. ToSet(Tail(r)) = ToSet(r) \ {Head(r)}
  BY <1>1, <1>4, <1>5, TailDistinct
<1>7. r \in Seq(S) /\ Head(r) = h /\ Tail(r) = q /\ ToSet(Tail(r)) = ToSet(r) \ {h}
  BY <1>1, <1>4, <1>5, <1>6
<1> QED BY <1>7 DEF h, q, r

-----------------------------------------------------------------------------
(* The set of one caller under the LRU rule. *)

(* The set of thread t has passed the length check of the LRU rule. *)
Passed(t) ==
  /\ frame[t].op = "set"
  /\ \/ frame[t].i > Position("lru")
     \/ frame[t].i = Position("lru") /\ frame[t].pc \in {"delete", "on_evict"}

(* It leaves the check with its key the most recent one, within the limit;  *)
HasRoom(t) ==
  Passed(t) =>
    /\ accessOrder # <<>> /\ accessOrder[Len(accessOrder)] = frame[t].key
    /\ Len(accessOrder) <= LruMaxItems

(* and it evicts another key there, or none, and that only to make room.    *)
TookRoom(t) ==
  frame[t].op = "set" /\ frame[t].victim # None =>
    /\ Passed(t) /\ Len(accessOrder) = LruMaxItems
    /\ frame[t].victim \notin LruTracked /\ frame[t].victim # frame[t].key

(* A call at rest has no key, and a get evicts only its own. *)
OwnKey(t) ==
  /\ frame[t].pc = "idle" => frame[t].key = None /\ frame[t].ttl = 0
  /\ frame[t].op = "get" /\ frame[t].pc \in {"delete", "on_evict"} =>
       frame[t].victim = frame[t].key

LEMMA OwnKeyStep ==
  ASSUME TypeOK, NEW t \in Threads, Call(t) \/ Step(t), OwnKey(t)
  PROVE  OwnKey(t)'
<1>1. /\ frame \in [Threads -> Frame] /\ frame[t] \in Frame /\ FrameOK(frame[t])
  BY StepContext
<1> USE <1>1 DEF Frame
<1>2. frame'[t].pc = "idle" => frame'[t].key = None /\ frame'[t].ttl = 0
  <2> USE DEF Goto, Return, Idle, NextOuter, NextInner, Effect
  <2>1. CASE Call(t)
    <3>1. ASSUME NEW k \in Keys, NEW v \in Values, NEW ttl \in TTLs, Set(t, k, v, ttl)
          PROVE  frame'[t].pc = "on_set"
      BY <3>1 DEF Set
    <3>2. ASSUME NEW k \in Keys, Get(t, k) PROVE frame'[t].pc = "on_get"
      BY <3>2 DEF Get
    <3>3. ASSUME NEW k \in Keys, Evict(t, k) PROVE frame'[t].pc = "on_evict"
      BY <3>3 DEF Evict
    <3>4. Clear(t) => frame'[t].pc = "on_clear"
      BY DEF Clear
    <3> QED BY <2>1, <3>1, <3>2, <3>3, <3>4 DEF Call
  <2>2. CASE SetStep(t)
    BY <2>2 DEF SetStep, LruOnSetInsert, LruOnSetMove, LruOnSetKeyError, LruOnSetLen,
       LruOnSetPop, LruOnSetPopKeyError, MaxOnSetIn, MaxOnSetLen, MaxOnSetAdd, LifeOnSet, Store
  <2>3. CASE GetStep(t)
    BY <2>3 DEF GetStep, LruOnGetIn, LruOnGetMove, LruOnGetKeyError, MaxOnGet, LifeOnGetRead,
       LifeOnGetCheck, GetReturn
  <2>4. CASE EvictStep(t)
    BY <2>4 DEF EvictStep, EffectEvict, LruOnEvict, MaxOnEvict, LifeOnEvict, EvictReturn,
       EffectDone, Inner, At
  <2>5. CASE ClearStep(t)
    BY <2>5 DEF ClearStep, LruOnClear, MaxOnClear, LifeOnClear, ClearReturn, Inner, At
  <2> QED BY <2>1, <2>2, <2>3, <2>4, <2>5 DEF Step
<1>3. ASSUME frame'[t].op = "get", frame'[t].pc \in {"delete", "on_evict"}
      PROVE  frame'[t].victim = frame'[t].key
  <2>1. ~LruOnSetPop(t) /\ ~MaxOnSetLen(t)
    <3>1. LruOnSetPop(t) \/ MaxOnSetLen(t) => frame[t].op = "set" /\ frame'[t].op = frame[t].op
      BY DEF LruOnSetPop, MaxOnSetLen, At, Goto, Effect, FrameOK, SetLabels
    <3> QED BY <1>3, <3>1
  <2>2. ASSUME NEW k \in Keys, Evict(t, k) PROVE FALSE
    <3>1. frame'[t] = [Idle EXCEPT !.pc = "on_evict", !.op = "evict", !.victim = k, !.j = 1]
      BY <2>2 DEF Evict, TypeOK
    <3>2. frame'[t].op = "evict"
      BY <3>1 DEF Idle
    <3> QED BY <1>3, <3>2
  <2>3. CASE LifeOnGetCheck(t)
    BY <1>3, <2>3 DEF LifeOnGetCheck, Effect, NextOuter
  <2>4. CASE EffectEvict(t) \/ (NextInner(t) /\ frame[t].pc = "on_evict")
    <3>1. /\ frame'[t].op = frame[t].op /\ frame'[t].victim = frame[t].victim
          /\ frame'[t].key = frame[t].key /\ frame[t].pc \in {"delete", "on_evict"}
      BY <2>4 DEF EffectEvict, NextInner, At
    <3> QED BY <1>3, <3>1 DEF OwnKey
  <2> QED BY <1>3, <2>1, <2>2, <2>3, <2>4, Predecessors
<1> QED BY <1>2, <1>3 DEF OwnKey

(* Where the LRU rule stands in the tuple, and that the hard limit does not. *)
LEMMA LruPosition ==
  ASSUME TypeOK, IsLruCache
  PROVE  /\ Position("lru") \in 1..Len(rules) /\ Len(rules) \in Nat
         /\ DOMAIN rules = 1..Len(rules)
         /\ \A n \in DOMAIN rules : rules[n] = "lru" <=> n = Position("lru")
         /\ \A n \in DOMAIN rules : rules[n] # "max"
<1>1. rules \in RuleLists
  BY TypeParts
<1> QED BY <1>1, OnePosition DEF IsLruCache, Active, ToSet

LEMMA RoomStep ==
  ASSUME TypeOK, IsLruCache, NEW t \in Threads, Call(t) \/ Step(t), KeyWarmest(t),
         VictimIsOther(t), LruRoom(t), HasRoom(t), TookRoom(t)
  PROVE  HasRoom(t)' /\ TookRoom(t)'
<1>1. /\ frame \in [Threads -> Frame] /\ frame[t] \in Frame /\ FrameOK(frame[t]) /\ LabelsOK
      /\ LruOK /\ rules' = rules
  BY StepContext
<1> DEFINE P == Position("lru")
<1>2. /\ P \in 1..Len(rules) /\ Len(rules) \in Nat /\ DOMAIN rules = 1..Len(rules) /\ P' = P
      /\ \A n \in DOMAIN rules : rules[n] = "lru" <=> n = P
      /\ \A n \in DOMAIN rules : rules[n] # "max"
  BY <1>1, LruPosition DEF Position
<1> HIDE DEF P
<1>3. frame[t].i \in Nat /\ P \in Nat
  BY <1>1, <1>2 DEF Frame
<1>4. Passed(t) <=> /\ frame[t].op = "set"
                    /\ \/ frame[t].i > P
                       \/ frame[t].i = P /\ frame[t].pc \in {"delete", "on_evict"}
  BY DEF Passed, P
<1>5. Passed(t)' <=> /\ frame'[t].op = "set"
                     /\ \/ frame'[t].i > P
                        \/ frame'[t].i = P /\ frame'[t].pc \in {"delete", "on_evict"}
  BY <1>2 DEF Passed, P
(* The steps that leave the order and the registers alone. *)
<1>6. ASSUME accessOrder' = accessOrder, frame'[t].op = frame[t].op,
             frame'[t].key = frame[t].key, frame'[t].victim = frame[t].victim,
             Passed(t)' <=> Passed(t)
      PROVE  HasRoom(t)' /\ TookRoom(t)'
  BY <1>6 DEF HasRoom, TookRoom, LruTracked
(* Before the check no room is taken. *)
<1>7. ASSUME ~Passed(t)', frame'[t].op = frame[t].op, frame'[t].victim = frame[t].victim, ~Passed(t)
      PROVE  HasRoom(t)' /\ TookRoom(t)'
  BY <1>7 DEF HasRoom, TookRoom
<1> SUFFICES ASSUME frame'[t].op = "set" PROVE HasRoom(t)' /\ TookRoom(t)'
  BY <1>5 DEF HasRoom, TookRoom
<1>8. CASE Call(t)
  <2>1. ASSUME NEW k \in Keys, NEW v \in Values, NEW ttl \in TTLs, Set(t, k, v, ttl)
        PROVE  HasRoom(t)' /\ TookRoom(t)'
    <3>1. frame'[t].i = 1 /\ frame'[t].pc = "on_set" /\ frame'[t].victim = None
      BY <1>1, <2>1 DEF Set, Idle
    <3> QED BY <1>2, <1>5, <3>1 DEF HasRoom, TookRoom
  <2>2. ASSUME NEW k \in Keys, Get(t, k) PROVE FALSE
    BY <1>1, <2>2 DEF Get, Idle
  <2>3. ASSUME NEW k \in Keys, Evict(t, k) PROVE FALSE
    BY <1>1, <2>3 DEF Evict, Idle
  <2>4. ~Clear(t)
    BY <1>1 DEF Clear, Idle
  <2> QED BY <1>8, <2>1, <2>2, <2>3, <2>4 DEF Call
<1>9. ~(MaxOnSetIn(t) \/ MaxOnSetLen(t) \/ MaxOnSetAdd(t) \/ MaxOnGet(t) \/ MaxOnEvict(t) \/ MaxOnClear(t))
  BY <1>1, <1>2 DEF MaxOnSetIn, MaxOnSetLen, MaxOnSetAdd, MaxOnGet, MaxOnEvict, MaxOnClear,
     Outer, Inner, InRule, At, LabelsOK
<1> USE <1>1 DEF Frame, Goto, Return, Idle, NextOuter, NextInner, Effect
<1>10. CASE LruOnSetInsert(t) \/ LruOnSetMove(t)
  <2>1. frame[t].i = P /\ frame[t].pc \notin {"delete", "on_evict"}
    BY <1>2, <1>10 DEF LruOnSetInsert, LruOnSetMove, Outer, InRule, LabelsOK, At
  <2>2. /\ frame'[t].i = P /\ frame'[t].pc \in {"lru_move", "lru_len"}
        /\ frame'[t].op = frame[t].op /\ frame'[t].victim = frame[t].victim
    BY <1>10, <2>1 DEF LruOnSetInsert, LruOnSetMove
  <2> QED BY <1>3, <1>4, <1>5, <1>7, <2>1, <2>2
<1>11. CASE LruOnSetLen(t)
  <2>1. frame[t].i = P /\ frame[t].pc = "lru_len" /\ accessOrder' = accessOrder
    BY <1>2, <1>11 DEF LruOnSetLen, InRule, LabelsOK, At, ruleState
  <2>2. CASE LruOverfull
    <3>1. /\ frame'[t].i = P /\ frame'[t].pc = "lru_pop"
          /\ frame'[t].op = frame[t].op /\ frame'[t].victim = frame[t].victim
      BY <1>11, <2>1, <2>2 DEF LruOnSetLen
    <3> QED BY <1>3, <1>4, <1>5, <1>7, <2>1, <3>1
  <2>3. CASE ~LruOverfull
    <3>1. /\ frame'[t].op = frame[t].op /\ frame'[t].victim = frame[t].victim
          /\ frame'[t].key = frame[t].key
      BY <1>11, <2>1, <2>3 DEF LruOnSetLen
    <3>2. accessOrder # <<>> /\ accessOrder[Len(accessOrder)] = frame[t].key
      BY <2>1 DEF KeyWarmest
    <3>3. Len(accessOrder) <= LruMaxItems
      BY <2>3, LenProperties, LruAssumption DEF LruOverfull, LruOK
    <3>4. frame[t].op = "set" => frame[t].victim = None
      BY <1>3, <1>4, <2>1 DEF TookRoom
    <3> QED BY <2>1, <3>1, <3>2, <3>3, <3>4 DEF HasRoom, TookRoom
  <2> QED BY <2>2, <2>3
<1>12. CASE LruOnSetPop(t)
  <2>1. /\ frame[t].i = P /\ frame[t].pc = "lru_pop" /\ frame[t].op = "set"
        /\ accessOrder # <<>> /\ accessOrder' = Tail(accessOrder)
    BY <1>2, <1>12 DEF LruOnSetPop, LruPopOldest, InRule, LabelsOK, At, FrameOK, SetLabels
  <2>2. /\ frame'[t].i = P /\ frame'[t].pc = "delete" /\ frame'[t].op = "set"
        /\ frame'[t].key = frame[t].key /\ frame'[t].victim = LruOldest
    BY <1>12, <2>1 DEF LruOnSetPop
  <2>3. /\ accessOrder[Len(accessOrder)] = frame[t].key /\ Len(accessOrder) > LruMaxItems
        /\ LruOldest # frame[t].key
    BY <2>1, OldestIsOther DEF KeyWarmest, At, LruOverfull
  <2>4. Len(accessOrder) = LruMaxItems + 1 /\ LruMaxItems \in Nat \ {0}
    <3>1. Cardinality(LruTracked) = Len(accessOrder) /\ Len(accessOrder) \in Nat
      BY DistinctLength, LenProperties DEF LruOK, LruTracked
    <3> QED BY <2>1, <2>3, <3>1, LruAssumption DEF LruRoom, Popping
  <2>5. /\ Len(accessOrder') = LruMaxItems
        /\ accessOrder'[LruMaxItems] = accessOrder[LruMaxItems + 1]
    BY <2>1, <2>4, HeadTailProperties DEF LruOK
  <2>6. LruOldest \notin LruTracked'
    BY <2>1, TailDistinct DEF LruOK, LruTracked, LruOldest
  <2>7. accessOrder' # <<>>
    BY <2>4, <2>5
  <2> QED BY <1>5, <2>2, <2>3, <2>4, <2>5, <2>6, <2>7 DEF HasRoom, TookRoom
<1>13. CASE LruOnSetKeyError(t) \/ LruOnSetPopKeyError(t) \/ Store(t)
  BY <1>13 DEF LruOnSetKeyError, LruOnSetPopKeyError, Store
<1>14. CASE LifeOnSet(t)
  <2>1. frame[t].i # P /\ frame[t].pc = "on_set" /\ accessOrder' = accessOrder
    BY <1>2, <1>14 DEF LifeOnSet, Outer, InRule, At
  <2>2. /\ frame'[t].i = frame[t].i + 1 /\ frame'[t].pc = "on_set"
        /\ frame'[t].op = frame[t].op /\ frame'[t].victim = frame[t].victim
        /\ frame'[t].key = frame[t].key
    BY <1>14 DEF LifeOnSet
  <2> QED BY <1>3, <1>4, <1>5, <1>6, <2>1, <2>2
<1>15. CASE GetStep(t)
  <2>1. GetStep(t) => frame[t].op = "get"
    BY DEF GetStep, LruOnGetIn, LruOnGetMove, LruOnGetKeyError, MaxOnGet, LifeOnGetRead,
       LifeOnGetCheck, GetReturn, Outer, OuterDone, At, FrameOK, GetLabels
  <2>2. frame'[t].op \in {"get", "none"}
    BY <1>15, <2>1 DEF GetStep, LruOnGetIn, LruOnGetMove, LruOnGetKeyError, MaxOnGet, LifeOnGetRead,
       LifeOnGetCheck, GetReturn
  <2> QED BY <2>2
<1>16. CASE EffectEvict(t) \/ LifeOnEvict(t)
  <2>1. frame[t].pc \in {"delete", "on_evict"} /\ accessOrder' = accessOrder
    BY <1>16 DEF EffectEvict, LifeOnEvict, Inner, At, ruleState
  <2>2. /\ frame'[t].i = frame[t].i /\ frame'[t].pc = "on_evict"
        /\ frame'[t].op = frame[t].op /\ frame'[t].victim = frame[t].victim
        /\ frame'[t].key = frame[t].key
    BY <1>16, <2>1 DEF EffectEvict, LifeOnEvict, Inner, At
  <2> QED BY <1>3, <1>4, <1>5, <1>6, <2>1, <2>2
<1>17. CASE LruOnEvict(t) \/ EffectDone(t)
  <2>1. frame[t].pc = "on_evict" /\ frame[t].victim \in Keys
    BY <1>17 DEF LruOnEvict, EffectDone, Inner, InnerDone, At, FrameOK
  <2>2. /\ frame'[t].op = frame[t].op /\ frame'[t].victim = frame[t].victim
        /\ frame'[t].key = frame[t].key
        /\ \/ frame'[t].i = frame[t].i /\ frame'[t].pc = "on_evict"
           \/ frame'[t].i = frame[t].i + 1 /\ frame'[t].pc = "on_set"
    BY <1>17, <2>1 DEF LruOnEvict, EffectDone
  <2>3. Passed(t) /\ frame[t].victim \notin LruTracked
    BY <2>1, <2>2, NoneAssumption DEF TookRoom
  <2>4. accessOrder' = accessOrder
    <3>1. CASE LruOnEvict(t)
      BY <2>3, <3>1, RemoveAbsent DEF LruOnEvict, LruForget, Without, LruTracked, LruOK
    <3>2. CASE EffectDone(t)
      BY <3>2 DEF EffectDone, ruleState
    <3> QED BY <1>17, <3>1, <3>2
  <2> QED BY <1>3, <1>4, <1>5, <1>6, <2>1, <2>2, <2>3, <2>4
<1>18. ~EvictReturn(t)
  BY DEF EvictReturn
<1>19. ~ClearStep(t)
  BY <1>9 DEF ClearStep, LruOnClear, MaxOnClear, LifeOnClear, ClearReturn, Inner, At, FrameOK
<1> QED BY <1>8, <1>9, <1>10, <1>11, <1>12, <1>13, <1>14, <1>15, <1>16, <1>17, <1>18, <1>19
     DEF Step, SetStep, EvictStep

(* The life-time rule compares the clock with the expiry it holds. *)
CheckSeen(t) ==
  frame[t].pc = "life_check" =>
    frame[t].key \in DOMAIN expiryTimes /\ frame[t].seen = expiryTimes[frame[t].key]

LEMMA CheckSeenStep ==
  ASSUME TypeOK, NEW t \in Threads, Call(t) \/ Step(t)
  PROVE  CheckSeen(t)'
<1>1. frame \in [Threads -> Frame]
  BY StepContext
<1> SUFFICES ASSUME frame'[t].pc = "life_check"
             PROVE  /\ frame'[t].key \in DOMAIN expiryTimes'
                    /\ frame'[t].seen = expiryTimes'[frame'[t].key]
  BY DEF CheckSeen
<1> USE <1>1 DEF Frame, Goto, Return, Idle, NextOuter, NextInner, Effect
<1>2. ~Call(t)
  <2>1. ASSUME NEW k \in Keys, NEW v \in Values, NEW ttl \in TTLs, Set(t, k, v, ttl)
        PROVE  FALSE
    BY <2>1 DEF Set
  <2>2. ASSUME NEW k \in Keys, Get(t, k) PROVE FALSE
    BY <2>2 DEF Get
  <2>3. ASSUME NEW k \in Keys, Evict(t, k) PROVE FALSE
    BY <2>3 DEF Evict
  <2>4. ~Clear(t)
    BY DEF Clear
  <2> QED BY <2>1, <2>2, <2>3, <2>4 DEF Call
<1>3. ~SetStep(t)
  BY DEF SetStep, LruOnSetInsert, LruOnSetMove, LruOnSetKeyError, LruOnSetLen, LruOnSetPop,
     LruOnSetPopKeyError, MaxOnSetIn, MaxOnSetLen, MaxOnSetAdd, LifeOnSet, Store
<1>4. ~EvictStep(t) /\ ~ClearStep(t)
  BY DEF EvictStep, EffectEvict, LruOnEvict, MaxOnEvict, LifeOnEvict, EvictReturn, EffectDone,
     ClearStep, LruOnClear, MaxOnClear, LifeOnClear, ClearReturn, Inner, At
<1>5. LifeOnGetRead(t) /\ frame[t].key \in DOMAIN expiryTimes
  BY <1>2, <1>3, <1>4 DEF Step, GetStep, LruOnGetIn, LruOnGetMove, LruOnGetKeyError, MaxOnGet,
     LifeOnGetRead, LifeOnGetCheck, GetReturn
<1> QED BY <1>5 DEF LifeOnGetRead, ruleState

-----------------------------------------------------------------------------
(* The mapping, read from a frame f, the order o of the rule and the stored *)
(* keys D.                                                                  *)

KeysOf(o, D, k) == IF k \in D THEN o ELSE RemoveFirst(o, k)

View(o, D, f) ==
  IF f.op = "set" THEN KeysOf(o, D, f.key)
  ELSE CASE f.pc \in {"delete", "on_evict"} -> RemoveFirst(o, f.victim)
         [] f.pc = "on_clear"               -> <<>>
         [] OTHER                           -> o

Coming(f, r) == r \in Active /\ f.i <= Position(r)

OwedBy(R, f) ==
  IF f.op = "get" /\ f.key \in ToSet(R)
  THEN (IF Coming(f, "lru") THEN {"use"} ELSE {}) \cup (IF Coming(f, "life") THEN {"check"} ELSE {})
  ELSE IF f.op = "set" /\ Coming(f, "life") THEN {"deadline"} ELSE {}

CallOf(R, f) == [op |-> f.op, key |-> f.key, ttl |-> f.ttl, owes |-> OwedBy(R, f)]

OwnersOf(R, f) ==
  ToSet(R) \cup (IF f.op = "set" /\ ~Coming(f, "life") THEN {f.key} ELSE {})

DueTo(e, O) == Restrict(e, IF "life" \in Active THEN DOMAIN e \cap O ELSE {})

Mapped(t) ==
  /\ Recency = View(accessOrder, DOMAIN cache, frame[t])
  /\ Recency' = View(accessOrder', DOMAIN cache', frame'[t])
  /\ Pending = CallOf(Recency, frame[t])
  /\ Pending' = CallOf(Recency', frame'[t])
  /\ Owners = OwnersOf(Recency, frame[t])
  /\ Owners' = OwnersOf(Recency', frame'[t])
  /\ Deadline = DueTo(expiryTimes, Owners)
  /\ Deadline' = DueTo(expiryTimes', Owners')
  /\ IsTimed' = IsTimed
  /\ IsTimed <=> "life" \in Active

LEMMA Views ==
  ASSUME NEW t, Threads = {t}, TypeOK, TypeOK', IsLruCache, rules' = rules
  PROVE  Mapped(t)
<1>1. Caller = t
  BY DEF Caller
<1>2. FramesOK /\ LruOK /\ FramesOK' /\ LruOK'
  BY TypeParts DEF TypeOK, LruOK, FramesOK
<1>3. /\ frame[t].pc = "on_clear" <=> frame[t].op = "clear"
      /\ frame'[t].pc = "on_clear" <=> frame'[t].op = "clear"
  BY <1>2 DEF FramesOK, FrameOK
<1>4. /\ RemoveFirst(accessOrder, None) = accessOrder
      /\ RemoveFirst(accessOrder', None) = accessOrder'
  <2>1. None \notin ToSet(accessOrder) /\ None \notin ToSet(accessOrder')
    BY <1>2, NoneAssumption, LenProperties DEF LruOK, ToSet
  <2> QED BY <1>2, <2>1, RemoveAbsent DEF LruOK
<1>5. /\ Active' = Active /\ IsLruCache' /\ \A r : Position(r)' = Position(r)
  BY DEF Active, IsLruCache, Position
<1>6. /\ Recency = View(accessOrder, DOMAIN cache, frame[t])
      /\ Recency' = View(accessOrder', DOMAIN cache', frame'[t])
  BY <1>1, <1>3, <1>4, <1>5 DEF Recency, Absent, Without, KeysOf, View, Stored
<1>7. \A r : (Ahead(r) <=> Coming(frame[t], r)) /\ (Ahead(r)' <=> Coming(frame'[t], r))
  BY <1>1, <1>5 DEF Ahead, Coming
<1>8. /\ Owners = OwnersOf(Recency, frame[t])
      /\ Owners' = OwnersOf(Recency', frame'[t])
  BY <1>1, <1>7 DEF Owners, OwnersOf
<1>9. Pending = CallOf(Recency, frame[t])
  BY <1>1, <1>7 DEF Pending, CallOf, OwedBy, OwedByGet, OwedBySet
<1>10. Pending' = CallOf(Recency', frame'[t])
  BY <1>1, <1>5, <1>7 DEF Pending, CallOf, OwedBy, OwedByGet, OwedBySet
<1>11. (IsTimed <=> "life" \in Active) /\ (IsTimed' = IsTimed)
  BY <1>5 DEF IsTimed
<1>12. /\ Deadline = DueTo(expiryTimes, Owners)
       /\ Deadline' = DueTo(expiryTimes', Owners')
  BY <1>11 DEF Deadline, DueTo
<1> QED BY <1>6, <1>8, <1>9, <1>10, <1>11, <1>12 DEF Mapped

LEMMA SameOperators ==
  ASSUME NEW s, NEW e
  PROVE  /\ Lru!RemoveFirst(s, e) = RemoveFirst(s, e) /\ Lru!ToSet(s) = ToSet(s)
         /\ Lru!Restrict(s, e) = Restrict(s, e)
<1>1. Lru!ToSet(s) = ToSet(s) /\ Lru!Restrict(s, e) = Restrict(s, e)
  BY DEF Lru!ToSet, ToSet, Lru!Restrict, Restrict
<1>2. Lru!RemoveFirst(s, e) = RemoveFirst(s, e)
  BY DEF Lru!RemoveFirst, RemoveFirst, Lru!RemoveAt, RemoveAt, Lru!SelectInSeq, SelectInSeq,
     Lru!Min, Min
<1> QED BY <1>1, <1>2

(* The hooks a call has still to run. *)
LEMMA ComingHooks ==
  ASSUME rules \in RuleLists, NEW r, NEW f \in Frame
  PROVE  /\ f.i > Len(rules) => ~Coming(f, r)
         /\ f.i = 1 => (Coming(f, r) <=> r \in Active)
         /\ \A g \in Frame : g.i = f.i => (Coming(g, r) <=> Coming(f, r))
         /\ \A g \in Frame :
              g.i = f.i + 1 /\ f.i \in DOMAIN rules =>
                IF rules[f.i] = r THEN Coming(f, r) /\ ~Coming(g, r)
                                  ELSE Coming(g, r) <=> Coming(f, r)
<1>1. CASE r \notin Active
  <2>1. \A n \in DOMAIN rules : rules[n] # r
    BY <1>1 DEF Active, ToSet
  <2> QED BY <1>1, <2>1 DEF Coming
<1>2. CASE r \in Active
  <2>1. /\ Position(r) \in 1..Len(rules) /\ Len(rules) \in Nat
        /\ rules[Position(r)] = r /\ DOMAIN rules = 1..Len(rules)
        /\ \A n \in DOMAIN rules : rules[n] = r => n = Position(r)
    BY <1>2, OnePosition
  <2>2. f.i \in Nat
    BY DEF Frame
  <2>3. f.i > Len(rules) => ~Coming(f, r)
    BY <2>1, <2>2 DEF Coming
  <2>4. f.i = 1 => Coming(f, r)
    BY <1>2, <2>1 DEF Coming
  <2>5. \A g \in Frame : g.i = f.i => (Coming(g, r) <=> Coming(f, r))
    BY DEF Coming
  <2>6. ASSUME NEW g \in Frame, g.i = f.i + 1, f.i \in DOMAIN rules
        PROVE  IF rules[f.i] = r THEN Coming(f, r) /\ ~Coming(g, r)
                                 ELSE Coming(g, r) <=> Coming(f, r)
    <3>1. CASE rules[f.i] = r
      <4>1. f.i = Position(r)
        BY <2>1, <2>6, <3>1
      <4> QED BY <1>2, <2>1, <2>2, <2>6, <3>1, <4>1 DEF Coming
    <3>2. CASE rules[f.i] # r
      <4>1. f.i # Position(r)
        BY <2>1, <3>2
      <4>2. f.i + 1 <= Position(r) <=> f.i <= Position(r)
        BY <2>1, <2>2, <4>1
      <4> QED BY <2>6, <3>2, <4>2 DEF Coming
    <3> QED BY <3>1, <3>2
  <2> QED BY <1>2, <2>3, <2>4, <2>5, <2>6
<1> QED BY <1>1, <1>2

(* A deadline nobody owns may go. *)
LEMMA DueKept ==
  ASSUME NEW e, NEW e1, NEW O, NEW v, v \notin O, e1 = e \/ e1 = Restrict(e, DOMAIN e \ {v})
  PROVE  DueTo(e1, O) = DueTo(e, O)
BY DEF DueTo, Restrict

(* An owner that goes takes its deadline with it. *)
LEMMA DueNarrowed ==
  ASSUME NEW e, NEW O, O \subseteq Keys, NEW v
  PROVE  DueTo(e, O \ {v}) = Restrict(DueTo(e, O), DOMAIN DueTo(e, O) \cap (Keys \ {v}))
<1> DEFINE d == DueTo(e, O)
           P == DOMAIN d \cap (Keys \ {v})
<1>1. CASE "life" \in Active
  <2>1. d = [x \in DOMAIN e \cap O |-> e[x]]
    BY <1>1 DEF DueTo, Restrict
  <2>2. P = DOMAIN e \cap (O \ {v})
    BY <2>1
  <2>3. Restrict(d, P) = [x \in P |-> d[x]]
    BY DEF Restrict
  <2>4. \A x \in P : d[x] = e[x]
    BY <2>1, <2>2
  <2>5. DueTo(e, O \ {v}) = [x \in P |-> e[x]]
    BY <1>1, <2>2 DEF DueTo, Restrict
  <2> HIDE DEF d, P
  <2>6. Restrict(d, P) = DueTo(e, O \ {v})
    BY <2>3, <2>4, <2>5
  <2> QED BY <2>6 DEF d, P
<1>2. CASE "life" \notin Active
  <2>1. d = [x \in {} |-> e[x]] /\ P = {}
    BY <1>2 DEF DueTo, Restrict
  <2>2. DueTo(e, O \ {v}) = [x \in {} |-> e[x]]
    BY <1>2 DEF DueTo, Restrict
  <2>3. Restrict(d, P) = [x \in {} |-> d[x]]
    BY <2>1 DEF Restrict
  <2> HIDE DEF d, P
  <2>4. Restrict(d, P) = DueTo(e, O \ {v})
    BY <2>2, <2>3
  <2> QED BY <2>4 DEF d, P
<1> QED BY <1>1, <1>2

LEMMA DueToNobody ==
  ASSUME NEW e, NEW e1, NEW O
  PROVE  DueTo(e1, {}) = Restrict(DueTo(e, O), DOMAIN DueTo(e, O) \cap {})
BY DEF DueTo, Restrict

(* Where the rule and the storage agree: *)
LEMMA Agreement ==
  ASSUME NEW t, Threads = {t}, TypeOK, IsLruCache, TrackedIsStored, StoredIsTracked,
         GoneFirst(t)
  PROVE  (* the rule knows every key stored, unless it is the next to go; *)
         /\ frame[t].pc # "delete" => DOMAIN cache \subseteq LruTracked
         (* and no other, but the key of a set and the one just removed. *)
         /\ frame[t].op # "set" /\ frame[t].pc = "on_evict" /\ frame[t].j > Position("lru") =>
              frame[t].victim \notin LruTracked
         /\ frame[t].pc = "on_clear" /\ frame[t].j > Position("lru") => LruTracked = {}
         /\ frame[t].op = "set" /\ frame[t].pc # "on_evict" =>
              LruTracked \subseteq DOMAIN cache \cup {frame[t].key}
<1>1. "lru" \in Active \ {"max"} /\ ~Precedes("lru", "max")
  BY DEF IsLruCache, Precedes
<1>2. Position("lru") \in Nat /\ frame[t].j \in Nat /\ FrameOK(frame[t])
  BY LruPosition, TypeParts DEF FramesOK, Frame
<1>3. ~Precedes("lru", "lru")
  BY <1>2 DEF Precedes
<1>4. ASSUME NEW k \in LruTracked
      PROVE  Stored(k) \/ Storing(t, k, "lru") \/ Forgetting(t, k, "lru")
  BY <1>1, <1>3 DEF TrackedIsStored, Tracks
<1>5. frame[t].pc # "delete" => DOMAIN cache \subseteq LruTracked
  BY <1>1 DEF StoredIsTracked, Known, Tracks, At
<1>6. frame[t].op # "set" => \A k : ~Storing(t, k, "lru")
  BY DEF Storing
<1>7. frame[t].j > Position("lru") => \A k : ~Forgetting(t, k, "lru")
  BY <1>2 DEF Forgetting
<1>8. ASSUME frame[t].op # "set", frame[t].pc = "on_evict", frame[t].j > Position("lru")
      PROVE  frame[t].victim \notin LruTracked
  BY <1>4, <1>6, <1>7, <1>8 DEF GoneFirst, At
<1>9. ASSUME frame[t].pc = "on_clear", frame[t].j > Position("lru")
      PROVE  LruTracked = {}
  BY <1>2, <1>4, <1>6, <1>7, <1>9 DEF GoneFirst, At, Stored, FrameOK
<1>10. ASSUME frame[t].op = "set", frame[t].pc # "on_evict"
       PROVE  LruTracked \subseteq DOMAIN cache \cup {frame[t].key}
  <2>1. frame[t].pc # "on_clear"
    BY <1>2, <1>10 DEF FrameOK
  <2> QED BY <1>4, <1>10, <2>1 DEF Storing, Forgetting, At, Stored
<1> QED BY <1>5, <1>8, <1>9, <1>10

(* A set that pops brings a new key. *)
LEMMA PopsForNewKey ==
  ASSUME NEW t, Threads = {t}, TypeOK, IsLruCache, TrackedIsStored, StoredIsTracked,
         GoneFirst(t), KeyWarmest(t), LruBoundOK, frame[t].pc = "lru_pop"
  PROVE  ~Stored(frame[t].key)
<1> SUFFICES ASSUME Stored(frame[t].key) PROVE FALSE
  OBVIOUS
<1>1. FrameOK(frame[t]) /\ LruOK /\ frame[t].op = "set"
  BY TypeParts DEF FramesOK, FrameOK, SetLabels, RuleStateOK
<1>2. LruTracked \subseteq DOMAIN cache
  BY <1>1, Agreement DEF Stored
<1>3. IsFiniteSet(DOMAIN cache) /\ Cardinality(DOMAIN cache) <= LruMaxItems
  BY DEF LruBoundOK, IsLruCache, Precedes
<1>4. Cardinality(LruTracked) = Len(accessOrder) /\ Len(accessOrder) \in Nat
  BY <1>1, DistinctLength, LenProperties DEF LruOK, LruTracked
<1>5. Cardinality(LruTracked) <= Cardinality(DOMAIN cache)
  BY <1>2, <1>3, FS_Subset
<1>6. Len(accessOrder) > LruMaxItems
  BY DEF KeyWarmest, At, LruOverfull
<1> QED BY <1>3, <1>4, <1>5, <1>6, FS_CardinalityType, LruAssumption

-----------------------------------------------------------------------------

-----------------------------------------------------------------------------
(* Every step of the storage is one of the LRU cache, or is not seen. *)

RefIInv(t) ==
  /\ TrackedIsStored /\ SeqIInv
  /\ OwnKey(t) /\ CheckSeen(t)
  /\ IsLruCache => HasRoom(t) /\ TookRoom(t)

LEMMA MappedStep ==
  ASSUME NEW t, Threads = {t}, TypeOK, TypeOK', IsLruCache, Call(t) \/ Step(t)
  PROVE  /\ Mapped(t)
         /\ frame \in [Threads -> Frame] /\ frame[t] \in Frame /\ FrameOK(frame[t])
         /\ frame'[t] \in Frame /\ FrameOK(frame'[t]) /\ LabelsOK
         /\ LruOK /\ LruOK' /\ InMemoryTypeOK /\ rules \in RuleLists /\ rules' = rules
BY StepContext, Views

(* A hook that another rule runs, or that has nothing to do for a get whose *)
(* key has gone, leaves what the call owes.                                 *)
LEMMA SameDuties ==
  ASSUME rules \in RuleLists, NEW f \in Frame, NEW g \in Frame, NEW R,
         g.op = f.op, g.key = f.key, g.ttl = f.ttl,
         \/ g.i = f.i
         \/ f.op \notin {"set", "get"}
         \/ /\ g.i = f.i + 1 /\ f.i \in DOMAIN rules
            /\ f.op = "set" => rules[f.i] # "life"
            /\ f.op = "get" => f.key \notin ToSet(R)
  PROVE  CallOf(R, g) = CallOf(R, f) /\ OwnersOf(R, g) = OwnersOf(R, f)
<1>1. CASE g.i = f.i
  BY <1>1 DEF CallOf, OwedBy, OwnersOf, Coming
<1>2. CASE f.op \notin {"set", "get"}
  BY <1>2 DEF CallOf, OwedBy, OwnersOf
<1>3. CASE /\ g.i = f.i + 1 /\ f.i \in DOMAIN rules
           /\ f.op = "set" => rules[f.i] # "life"
           /\ f.op = "get" => f.key \notin ToSet(R)
  <2>1. f.op = "set" => (Coming(g, "life") <=> Coming(f, "life"))
    BY <1>3, ComingHooks
  <2> QED BY <1>3, <2>1 DEF CallOf, OwedBy, OwnersOf
<1> QED BY <1>1, <1>2, <1>3

LEMMA NotSeen ==
  ASSUME NEW t, Mapped(t), Recency' = Recency, clock' = clock,
         CallOf(Recency, frame'[t]) = CallOf(Recency, frame[t]),
         OwnersOf(Recency, frame'[t]) = OwnersOf(Recency, frame[t]),
         \/ expiryTimes' = expiryTimes
         \/ \E v : v \notin OwnersOf(Recency, frame[t]) /\ LifeForget(v)
  PROVE  UNCHANGED Lru!lruVars
<1>1. Owners' = Owners /\ Pending' = Pending
  BY DEF Mapped
<1>2. DueTo(expiryTimes', Owners) = DueTo(expiryTimes, Owners)
  <2>1. Owners = OwnersOf(Recency, frame[t])
    BY DEF Mapped
  <2> QED BY <2>1, DueKept DEF LifeForget
<1>3. Deadline' = Deadline
  BY <1>1, <1>2 DEF Mapped
<1> QED BY <1>1, <1>3 DEF Mapped, Lru!lruVars

(* What is owed is settled. *)
LEMMA Settled ==
  ASSUME NEW a, NEW b, NEW c, NEW S, NEW x
  PROVE  [op |-> a, key |-> b, ttl |-> c, owes |-> S \ {x}]
           = [[op |-> a, key |-> b, ttl |-> c, owes |-> S] EXCEPT !.owes = @ \ {x}]
OBVIOUS

(* Only Tick moves the clock. *)
LEMMA CallsKeepTime ==
  ASSUME NEW t \in Threads, Call(t) \/ Step(t)
  PROVE  clock' = clock
<1>1. Call(t) => clock' = clock
  BY DEF Call, Set, Get, Evict, Clear
<1>2. SetStep(t) => clock' = clock
  BY DEF SetStep, LruOnSetInsert, LruOnSetMove, LruOnSetKeyError, LruOnSetLen, LruOnSetPop,
     LruOnSetPopKeyError, MaxOnSetIn, MaxOnSetLen, MaxOnSetAdd, LifeOnSet, Store
<1>3. GetStep(t) => clock' = clock
  BY DEF GetStep, LruOnGetIn, LruOnGetMove, LruOnGetKeyError, MaxOnGet, LifeOnGetRead,
     LifeOnGetCheck, GetReturn
<1>4. EvictStep(t) \/ ClearStep(t) => clock' = clock
  BY DEF EvictStep, EffectEvict, LruOnEvict, MaxOnEvict, LifeOnEvict, EvictReturn, EffectDone,
     ClearStep, LruOnClear, MaxOnClear, LifeOnClear, ClearReturn
<1> QED BY <1>1, <1>2, <1>3, <1>4 DEF Step

(* The keys the order and the deadlines are about. *)
LEMMA OwnersAreKeys ==
  ASSUME NEW s \in Seq(Keys), NEW f \in Frame, FrameOK(f)
  PROVE  OwnersOf(s, f) \in SUBSET Keys
<1>1. ToSet(s) \subseteq Keys
  BY LenProperties DEF ToSet
<1> QED BY <1>1 DEF OwnersOf, FrameOK

LEMMA CallStep ==
  ASSUME NEW t, Threads = {t}, TypeOK, TypeOK', IsLruCache, RefIInv(t), Call(t)
  PROVE  Lru!Next
<1>1. /\ Mapped(t)
      /\ frame \in [Threads -> Frame] /\ frame[t] \in Frame /\ FrameOK(frame[t])
      /\ frame'[t] \in Frame /\ FrameOK(frame'[t]) /\ LruOK /\ LruOK' /\ rules \in RuleLists
  BY MappedStep
<1>2. /\ frame[t].pc = "idle" /\ frame[t].op = "none" /\ UNCHANGED <<accessOrder, expiryTimes, clock>>
  BY <1>1 DEF Call, Set, Get, Evict, Clear, At, FrameOK, ruleState
<1>3. Recency = accessOrder /\ Pending = Lru!Idle
  <2>1. frame[t].key = None /\ frame[t].ttl = 0
    BY <1>2 DEF OwnKey, RefIInv
  <2>2. Recency = accessOrder
    BY <1>1, <1>2 DEF View, Mapped
  <2> QED BY <1>1, <1>2, <2>1, <2>2 DEF Mapped, CallOf, OwedBy, Lru!Idle, Lru!Begun
<1>4. DOMAIN cache \subseteq LruTracked
  BY <1>2, Agreement DEF RefIInv, SeqIInv
<1>5. /\ Owners = ToSet(accessOrder) /\ Deadline = DueTo(expiryTimes, Owners)
      /\ Deadline' = DueTo(expiryTimes, Owners') /\ IsTimed' = IsTimed
      /\ Owners \in SUBSET Keys
  <2>1. Owners = ToSet(accessOrder)
    BY <1>1, <1>2, <1>3 DEF Mapped, OwnersOf
  <2>2. Owners \in SUBSET Keys
    BY <1>1, <2>1, LenProperties DEF LruOK, ToSet
  <2> QED BY <1>1, <1>2, <2>1, <2>2 DEF Mapped
<1>6. ASSUME NEW k \in Keys, NEW v \in Values, NEW ttl \in TTLs, Set(t, k, v, ttl)
      PROVE  Lru!Next
  <2>1. /\ frame'[t].op = "set" /\ frame'[t].key = k /\ frame'[t].ttl = ttl /\ frame'[t].i = 1
        /\ cache' = cache
    BY <1>1, <1>6 DEF Set, Idle
  <2>2. Recency' = accessOrder
    <3>1. k \notin DOMAIN cache => k \notin LruTracked
      <4>1. "lru" \in Active /\ Position("lru") \in Nat
        BY LruPosition DEF IsLruCache
      <4>2. Tracks("lru") = LruTracked /\ ~Precedes("lru", "lru")
        BY <4>1 DEF Tracks, Precedes
      <4>3. ~Storing(t, k, "lru") /\ ~Forgetting(t, k, "lru")
        BY <1>2 DEF Storing, Forgetting, At
      <4> QED BY <4>1, <4>2, <4>3 DEF RefIInv, TrackedIsStored, Stored
    <3>2. k \notin DOMAIN cache => RemoveFirst(accessOrder, k) = accessOrder
      BY <1>1, <3>1, RemoveAbsent DEF LruOK, LruTracked
    <3> QED BY <1>1, <1>2, <2>1, <3>2 DEF View, KeysOf, Mapped
  <2>3. Coming(frame'[t], "life") <=> IsTimed
    <3>1. Coming(frame'[t], "life") <=> "life" \in Active
      BY <1>1, <2>1, ComingHooks
    <3> QED BY <1>1, <3>1 DEF Mapped
  <2>4. Pending' = Lru!Begun("set", k, ttl, IF IsTimed THEN {"deadline"} ELSE {})
    BY <1>1, <2>1, <2>3 DEF Mapped, CallOf, OwedBy, Lru!Begun
  <2>5. Deadline' = Deadline
    <3>1. CASE IsTimed
      BY <1>1, <1>3, <1>5, <2>1, <2>2, <2>3, <3>1 DEF Mapped, OwnersOf
    <3>2. CASE ~IsTimed
      BY <1>1, <1>5, <3>2 DEF DueTo, Restrict, Mapped
    <3> QED BY <3>1, <3>2
  <2>6. Lru!Set(k, ttl)
    BY <1>2, <1>3, <1>5, <2>2, <2>4, <2>5 DEF Lru!Set
  <2> QED BY <2>6 DEF Lru!Next
<1>7. ASSUME NEW k \in Keys, Get(t, k) PROVE Lru!Next
  <2>1. frame'[t].op = "get" /\ frame'[t].key = k /\ frame'[t].pc = "on_get"
        /\ frame'[t].ttl = 0 /\ frame'[t].i = 1
    BY <1>1, <1>7 DEF Get, Idle
  <2>2. Recency' = accessOrder
    BY <1>1, <1>2, <2>1 DEF View, Mapped
  <2>3. k \in Lru!Held /\ k \in ToSet(accessOrder)
    BY <1>3, <1>4, <1>7, SameOperators DEF Get, Stored, Lru!Held, LruTracked
  <2>4. Coming(frame'[t], "lru") /\ (Coming(frame'[t], "life") <=> IsTimed)
    <3>1. /\ Coming(frame'[t], "life") <=> "life" \in Active
          /\ Coming(frame'[t], "lru") <=> "lru" \in Active
      BY <1>1, <2>1, ComingHooks
    <3> QED BY <1>1, <3>1 DEF Mapped, IsLruCache
  <2>5. Pending' = Lru!Begun("get", k, 0, {"use"} \cup (IF IsTimed THEN {"check"} ELSE {}))
    BY <1>1, <2>1, <2>2, <2>3, <2>4 DEF Mapped, CallOf, OwedBy, Lru!Begun
  <2>6. Deadline' = Deadline
    BY <1>1, <1>5, <2>1, <2>2 DEF Mapped, OwnersOf
  <2>7. Lru!Get(k)
    BY <1>2, <1>3, <1>5, <2>2, <2>3, <2>5, <2>6 DEF Lru!Get
  <2> QED BY <2>7 DEF Lru!Next
<1>8. ASSUME NEW k \in Keys, Evict(t, k) PROVE Lru!Next
  <2>1. /\ frame'[t].op = "evict" /\ frame'[t].key = None /\ frame'[t].pc = "on_evict"
        /\ frame'[t].victim = k /\ frame'[t].ttl = 0
    BY <1>1, <1>8 DEF Evict, Idle
  <2>2. Recency' = RemoveFirst(accessOrder, k)
    BY <1>1, <1>2, <2>1 DEF View, Mapped
  <2>3. Pending' = Lru!Begun("evict", None, 0, {})
    BY <1>1, <2>1 DEF Mapped, CallOf, OwedBy, Lru!Begun
  <2>4. Owners' = Owners \ {k}
    <3>1. ToSet(RemoveFirst(accessOrder, k)) = ToSet(accessOrder) \ {k}
      BY <1>1, RemoveFirstProperties DEF LruOK
    <3> QED BY <1>1, <1>5, <2>1, <2>2, <3>1 DEF Mapped, OwnersOf
  <2>5. Deadline' = Lru!Restrict(Deadline, DOMAIN Deadline \cap (Keys \ {k}))
    <3>1. DueTo(expiryTimes, Owners \ {k})
            = Restrict(DueTo(expiryTimes, Owners), DOMAIN DueTo(expiryTimes, Owners) \cap (Keys \ {k}))
      BY <1>5, DueNarrowed
    <3>2. Deadline' = Restrict(Deadline, DOMAIN Deadline \cap (Keys \ {k}))
      BY <1>2, <1>5, <2>4, <3>1
    <3> QED BY <3>2, SameOperators
  <2>6. Lru!Discard(k)
    BY <1>2, <1>3, <1>5, <2>2, <2>3, <2>5, SameOperators DEF Lru!Discard, Lru!Keep
  <2> QED BY <2>6 DEF Lru!Next
<1>9. CASE Clear(t)
  <2>1. frame'[t].op = "clear" /\ frame'[t].key = None /\ frame'[t].pc = "on_clear"
        /\ frame'[t].ttl = 0
    BY <1>1, <1>9 DEF Clear, Idle
  <2>2. Recency' = <<>>
    BY <1>1, <2>1 DEF View, Mapped
  <2>3. Pending' = Lru!Begun("clear", None, 0, {})
    BY <1>1, <2>1 DEF Mapped, CallOf, OwedBy, Lru!Begun
  <2>4. Owners' = {}
    BY <1>1, <2>1, <2>2 DEF Mapped, OwnersOf, ToSet
  <2>5. Deadline' = Lru!Restrict(Deadline, DOMAIN Deadline \cap {})
    BY <1>5, <2>4, DueToNobody, SameOperators
  <2>6. Lru!Clear
    BY <1>2, <1>3, <1>5, <2>2, <2>3, <2>5 DEF Lru!Clear, Lru!Keep
  <2> QED BY <2>6 DEF Lru!Next
<1> QED BY <1>6, <1>7, <1>8, <1>9 DEF Call

(* The last step of set is the one its caller sees. *)
LEMMA StoreStep ==
  ASSUME NEW t, Threads = {t}, TypeOK, TypeOK', IsLruCache, RefIInv(t), Store(t)
  PROVE  Lru!Put
<1> DEFINE o == accessOrder
           k == frame[t].key
           rest == RemoveFirst(o, k)
<1>1. /\ Mapped(t)
      /\ frame \in [Threads -> Frame] /\ frame[t] \in Frame /\ FrameOK(frame[t])
      /\ LruOK /\ rules \in RuleLists
  BY MappedStep DEF Step, SetStep
<1>2. /\ frame[t].op = "set" /\ frame'[t] = Idle /\ accessOrder' = o
      /\ frame[t].i > Len(rules) /\ UNCHANGED <<clock, expiryTimes>>
  BY <1>1 DEF Store, OuterDone, At, FrameOK, SetLabels, Return, ruleState
<1>3. Recency' = o /\ Pending' = Lru!Idle
  BY <1>1, <1>2 DEF View, Idle, Lru!Idle, Lru!Begun, Mapped, CallOf, OwedBy
<1>4. ~Coming(frame[t], "life")
  BY <1>1, <1>2, ComingHooks
<1>5. Pending.op = "set" /\ Pending.key = k /\ Pending.owes = {}
  BY <1>1, <1>2, <1>4 DEF Mapped, CallOf, OwedBy
<1>6. Passed(t)
  <2>1. Position("lru") \in 1..Len(rules) /\ Len(rules) \in Nat /\ frame[t].i \in Nat
    BY <1>1, LruPosition DEF Frame
  <2> QED BY <1>2, <2>1 DEF Passed
<1>7. o # <<>> /\ o[Len(o)] = k /\ Len(o) <= LruMaxItems
  BY <1>6 DEF RefIInv, HasRoom
<1>8. /\ k \in Keys /\ rest \in Seq(Keys) /\ k \notin ToSet(rest)
      /\ o = Append(rest, k) /\ Len(o) = Len(rest) + 1
  BY <1>1, <1>7, RemoveLast DEF LruOK
<1>9. Len(rest) \in Nat /\ LruMaxItems \in Nat
  BY <1>8, LenProperties, LruAssumption
<1>10. RemoveFirst(Recency, k) = rest /\ ToSet(Recency) \cup {k} = ToSet(o)
  <2>1. ToSet(rest) = ToSet(o) \ {k} /\ k \in ToSet(o)
    <3>1. ToSet(rest) = ToSet(o) \ {k}
      BY <1>1, RemoveFirstProperties DEF LruOK
    <3>2. k \in ToSet(o)
      <4>1. Len(o) \in DOMAIN o
        BY <1>1, <1>7, LenProperties DEF LruOK
      <4> QED BY <1>7, <4>1 DEF ToSet
    <3> QED BY <3>1, <3>2
  <2>2. Recency = o \/ Recency = rest
    BY <1>1, <1>2 DEF Mapped, View, KeysOf
  <2> QED BY <1>8, <2>1, <2>2, RemoveAbsent
<1>11. Deadline' = Deadline
  <2>1. Owners = ToSet(o) /\ Owners' = ToSet(o)
    BY <1>1, <1>2, <1>3, <1>4, <1>10 DEF Mapped, OwnersOf, Idle
  <2> QED BY <1>1, <1>2, <2>1 DEF Mapped
<1>12. Recency' = Append(RemoveFirst(Recency, k), k) /\ Len(RemoveFirst(Recency, k)) < LruMaxItems
  BY <1>3, <1>7, <1>8, <1>9, <1>10
<1> QED BY <1>1, <1>2, <1>3, <1>5, <1>11, <1>12, SameOperators DEF Lru!Put, Mapped

(* The steps of set before it promise the key its life time, make it the    *)
(* most recent one if it is held, give the coldest one up for it, or are    *)
(* not seen.                                                                *)
LEMMA SetStepSeen ==
  ASSUME NEW t, Threads = {t}, TypeOK, TypeOK', IsLruCache, RefIInv(t), SetStep(t), ~Store(t)
  PROVE  Lru!Promise \/ Lru!Touch \/ Lru!MakeRoom \/ UNCHANGED Lru!lruVars
<1> DEFINE o == accessOrder
           k == frame[t].key
<1>1. /\ Mapped(t)
      /\ frame \in [Threads -> Frame] /\ frame[t] \in Frame /\ FrameOK(frame[t])
      /\ frame'[t] \in Frame /\ LruOK /\ LruOK' /\ LabelsOK /\ rules \in RuleLists
  BY MappedStep DEF Step
<1>2. /\ frame[t].op = "set" /\ k \in Keys
      /\ cache' = cache /\ clock' = clock
  BY <1>1 DEF SetStep, LruOnSetInsert, LruOnSetMove, LruOnSetKeyError, LruOnSetLen,
     LruOnSetPop, LruOnSetPopKeyError, MaxOnSetIn, MaxOnSetLen, MaxOnSetAdd, LifeOnSet, Store,
     Outer, OuterDone, At, FrameOK, SetLabels
<1>3. /\ KeyWarmest(t) /\ GoneFirst(t) /\ TrackedIsStored /\ StoredIsTracked /\ LruBoundOK
      /\ LruRoom(t)
  BY DEF RefIInv, SeqIInv
<1>4. /\ Position("lru") \in Nat /\ frame[t].i \in Nat
      /\ \A n \in DOMAIN rules : rules[n] = "lru" <=> n = Position("lru")
      /\ \A n \in DOMAIN rules : rules[n] # "max"
  BY <1>1, LruPosition DEF Frame
<1>5. ~(LruOnSetKeyError(t) \/ LruOnSetPopKeyError(t) \/ MaxOnSetIn(t) \/ MaxOnSetLen(t) \/ MaxOnSetAdd(t))
  BY <1>1, <1>3, <1>4 DEF LruOnSetKeyError, LruOnSetPopKeyError, KeyWarmest, MaxOnSetIn,
     MaxOnSetLen, MaxOnSetAdd, Outer, InRule, At, LabelsOK
<1>0. Owners \subseteq Keys =>
        \A v : DueTo(expiryTimes, Owners \ {v})
                 = Restrict(DueTo(expiryTimes, Owners),
                            DOMAIN DueTo(expiryTimes, Owners) \cap (Keys \ {v}))
  BY DueNarrowed
<1> USE <1>1 DEF Frame, Goto, NextOuter, Effect
<1>6. frame'[t].op = "set" /\ frame'[t].key = k /\ frame'[t].ttl = frame[t].ttl
  BY <1>2, <1>5 DEF SetStep, LruOnSetInsert, LruOnSetMove, LruOnSetLen, LruOnSetPop, LifeOnSet
<1>7. /\ Recency = KeysOf(o, DOMAIN cache, k)
      /\ Recency' = KeysOf(accessOrder', DOMAIN cache, k)
  BY <1>1, <1>2, <1>6 DEF View, Mapped
<1>8. Pending.op = "set" /\ Pending.key = k /\ Pending.ttl = frame[t].ttl
  BY <1>1, <1>2 DEF Mapped, CallOf
(* The steps of the LRU rule leave what the call owes. *)
<1>9. ASSUME ~LifeOnSet(t)
      PROVE  /\ expiryTimes' = expiryTimes
             /\ \A R : CallOf(R, frame'[t]) = CallOf(R, frame[t])
             /\ \A R : OwnersOf(R, frame'[t]) = OwnersOf(R, frame[t])
  <2>1. expiryTimes' = expiryTimes
    BY <1>5, <1>9 DEF SetStep, LruOnSetInsert, LruOnSetMove, LruOnSetLen, LruOnSetPop, ruleState
  <2>2. \/ frame'[t].i = frame[t].i
        \/ frame'[t].i = frame[t].i + 1 /\ InRule(t, "lru")
    BY <1>5, <1>9 DEF SetStep, LruOnSetInsert, LruOnSetMove, LruOnSetLen, LruOnSetPop, At, LabelsOK
  <2>3. \/ frame'[t].i = frame[t].i
        \/ /\ frame'[t].i = frame[t].i + 1 /\ frame[t].i \in DOMAIN rules
           /\ rules[frame[t].i] # "life"
    BY <2>2 DEF InRule
  <2> QED BY <1>2, <1>6, <2>1, <2>3, SameDuties
<1>10. ASSUME ~LifeOnSet(t), Recency' = Recency PROVE UNCHANGED Lru!lruVars
  BY <1>1, <1>2, <1>9, <1>10, NotSeen
<1>11. CASE LifeOnSet(t)
  <2>1. /\ InRule(t, "life") /\ accessOrder' = o /\ frame'[t].i = frame[t].i + 1
        /\ LifeRecord(k, clock + frame[t].ttl)
    BY <1>11 DEF LifeOnSet, Outer
  <2>2. "life" \in Active
    BY <2>1 DEF InRule, Active, ToSet
  <2>3. Coming(frame[t], "life") /\ ~Coming(frame'[t], "life")
    BY <2>1, ComingHooks DEF InRule
  <2>4. Recency' = Recency
    BY <1>7, <2>1
  <2>5. Lru!Owes("deadline") /\ Pending' = [Pending EXCEPT !.owes = @ \ {"deadline"}]
    <3>1. Pending.owes = {"deadline"}
      BY <1>1, <1>2, <2>3 DEF Mapped, CallOf, OwedBy
    <3>2. Pending' = [op |-> "set", key |-> k, ttl |-> frame[t].ttl, owes |-> {}]
      BY <1>1, <1>2, <1>6, <2>3 DEF Mapped, CallOf, OwedBy
    <3>3. Pending = [op |-> "set", key |-> k, ttl |-> frame[t].ttl, owes |-> {"deadline"}]
      BY <1>1, <1>2, <2>3 DEF Mapped, CallOf, OwedBy
    <3>5. Pending' = [Pending EXCEPT !.owes = @ \ {"deadline"}]
      <4> HIDE DEF k
      <4>1. {"deadline"} \ {"deadline"} = {}
        OBVIOUS
      <4> QED BY <3>2, <3>3, <4>1, Settled
    <3> QED BY <3>1, <3>5 DEF Lru!Owes
  <2>6. Owners = ToSet(Recency) /\ Owners' = ToSet(Recency) \cup {k}
    BY <1>1, <1>2, <1>6, <2>3, <2>4 DEF Mapped, OwnersOf
  <2>7. Deadline' = [x \in DOMAIN Deadline \cup {Pending.key} |->
                       IF x = Pending.key THEN clock + Pending.ttl ELSE Deadline[x]]
    <3> DEFINE R == ToSet(Recency)
               e == expiryTimes
    <3>1. Deadline = [x \in DOMAIN e \cap R |-> e[x]]
      BY <1>1, <2>2, <2>6 DEF Mapped, DueTo, Restrict
    <3>2. e' = [x \in DOMAIN e \cup {k} |-> IF x = k THEN clock + frame[t].ttl ELSE e[x]]
      BY <2>1 DEF LifeRecord
    <3>3. Deadline' = [x \in DOMAIN e' \cap (R \cup {k}) |-> e'[x]]
      BY <1>1, <2>2, <2>6 DEF Mapped, DueTo, Restrict
    <3> HIDE DEF R, e, k
    <3>4. DOMAIN e' \cap (R \cup {k}) = DOMAIN Deadline \cup {k}
      BY <3>1, <3>2
    <3>5. \A x \in DOMAIN Deadline \cup {k} :
            e'[x] = IF x = k THEN clock + frame[t].ttl ELSE Deadline[x]
      BY <3>1, <3>2
    <3> QED BY <1>8, <3>3, <3>4, <3>5
  <2> QED BY <1>1, <1>2, <1>8, <2>4, <2>5, <2>7 DEF Lru!Promise, Lru!Settle, Mapped
<1>12. CASE LruOnSetLen(t)
  <2>1. accessOrder' = o /\ ~LifeOnSet(t)
    BY <1>12 DEF LruOnSetLen, LifeOnSet, Outer, At, ruleState
  <2> QED BY <1>7, <1>10, <2>1
<1>13. CASE LruOnSetInsert(t)
  <2>1. frame[t].pc = "on_set" /\ LruInsert(k) /\ ~LifeOnSet(t)
    BY <1>13 DEF LruOnSetInsert, LifeOnSet, Outer, InRule, At
  <2>2. k \in DOMAIN cache => k \in LruTracked
    BY <1>3, <2>1, Agreement
  <2>3. k \notin LruTracked => RemoveFirst(Append(o, k), k) = o /\ RemoveFirst(o, k) = o
    BY <1>2, RemoveAbsent, RemoveAppended DEF LruOK, LruTracked
  <2>4. KeysOf(accessOrder', DOMAIN cache, k) = KeysOf(o, DOMAIN cache, k)
    BY <2>1, <2>2, <2>3 DEF KeysOf, LruInsert
  <2> QED BY <1>7, <1>10, <2>1, <2>4
<1>14. CASE LruOnSetMove(t)
  <2>1. /\ frame[t].pc = "lru_move" /\ k \in LruTracked /\ ~LifeOnSet(t)
        /\ accessOrder' = Append(RemoveFirst(o, k), k)
    BY <1>14 DEF LruOnSetMove, LifeOnSet, LruMoveToEnd, Without, Outer, At
  <2>2. RemoveFirst(o, k) \in Seq(Keys) /\ ToSet(RemoveFirst(o, k)) = ToSet(o) \ {k}
    BY RemoveFirstProperties DEF LruOK
  <2>3. CASE k \in DOMAIN cache
    <3>1. Recency = o /\ Recency' = Append(RemoveFirst(o, k), k)
      BY <1>7, <2>1, <2>3 DEF KeysOf
    <3>2. k \in Lru!Held
      BY <2>1, <3>1, SameOperators DEF Lru!Held, LruTracked
    <3>3. ToSet(Recency') = ToSet(Recency)
      <4>1. ToSet(Append(RemoveFirst(o, k), k)) = ToSet(RemoveFirst(o, k)) \cup {k}
        <5>1. IsInjective(RemoveFirst(o, k)) /\ k \notin ToSet(RemoveFirst(o, k))
          BY RemoveFirstProperties DEF LruOK
        <5> QED BY <1>2, <2>2, <5>1, AppendDistinct
      <4> QED BY <2>1, <2>2, <3>1, <4>1 DEF LruTracked
    <3>4. Pending' = Pending /\ Owners' = Owners
      <4>1. Pending' = CallOf(Recency, frame'[t]) /\ Owners' = OwnersOf(Recency, frame'[t])
        BY <1>1, <3>3 DEF Mapped, CallOf, OwedBy, OwnersOf
      <4> QED BY <1>1, <1>9, <2>1, <4>1 DEF Mapped
    <3>5. Deadline' = Deadline
      BY <1>1, <1>9, <2>1, <3>4 DEF Mapped
    <3> QED BY <1>1, <1>2, <1>8, <3>1, <3>2, <3>4, <3>5, SameOperators DEF Lru!Touch, Mapped
  <2>4. CASE k \notin DOMAIN cache
    <3>1. RemoveFirst(Append(RemoveFirst(o, k), k), k) = RemoveFirst(o, k)
      BY <1>2, <2>2, RemoveAppended
    <3> QED BY <1>7, <1>10, <2>1, <2>4, <3>1 DEF KeysOf
  <2> QED BY <2>3, <2>4
<1>15. CASE LruOnSetPop(t)
  <2>1. /\ frame[t].pc = "lru_pop" /\ o # <<>> /\ accessOrder' = Tail(o) /\ ~LifeOnSet(t)
    BY <1>15 DEF LruOnSetPop, LifeOnSet, LruPopOldest, Outer, At
  <2>2. k \notin DOMAIN cache
    BY <1>3, <2>1, PopsForNewKey DEF Stored
  <2>3. /\ Head(o) # k /\ Head(o) \in Keys /\ Tail(o) \in Seq(Keys) /\ o[Len(o)] = k
        /\ Len(o) > LruMaxItems
    <3>1. o[Len(o)] = k /\ LruOverfull
      BY <1>3, <2>1 DEF KeyWarmest, At
    <3>2. LruOldest # k
      BY <2>1, <3>1, OldestIsOther
    <3> QED BY <2>1, <3>1, <3>2, HeadTailProperties DEF LruOK, LruOldest, LruOverfull
  <2> DEFINE h == Head(o)
  <2>4. Recency = RemoveFirst(o, k) /\ Recency' = RemoveFirst(Tail(o), k)
    BY <1>7, <2>1, <2>2 DEF KeysOf
  <2>5. /\ Recency \in Seq(Keys) /\ Head(Recency) = h /\ Tail(Recency) = Recency'
        /\ ToSet(Recency') = ToSet(Recency) \ {h}
    <3>1. o \in Seq(Keys) /\ IsInjective(o)
      BY DEF LruOK
    <3>2. /\ RemoveFirst(o, k) \in Seq(Keys) /\ Head(RemoveFirst(o, k)) = h
          /\ Tail(RemoveFirst(o, k)) = RemoveFirst(Tail(o), k)
          /\ ToSet(Tail(RemoveFirst(o, k))) = ToSet(RemoveFirst(o, k)) \ {h}
      BY <2>1, <2>3, <3>1, ColdEndStays
    <3> QED BY <2>4, <3>2
  <2>6. Len(Recency) = LruMaxItems
    <3>1. Len(o) = LruMaxItems + 1
      <4>1. Cardinality(LruTracked) = Len(o) /\ Len(o) \in Nat
        BY DistinctLength, LenProperties DEF LruOK, LruTracked
      <4> QED BY <1>3, <2>1, <2>3, <4>1, LruAssumption DEF LruRoom, Popping
    <3>2. Len(RemoveFirst(o, k)) + 1 = Len(o)
      BY <2>1, <2>3, RemoveLast DEF LruOK
    <3>3. Len(RemoveFirst(o, k)) \in Nat /\ LruMaxItems \in Nat
      BY <2>1, <2>3, RemoveLast, LenProperties, LruAssumption DEF LruOK
    <3> QED BY <2>4, <3>1, <3>2, <3>3
  <2>7. k \notin Lru!Held
    <3>1. k \notin ToSet(RemoveFirst(o, k))
      BY RemoveFirstProperties DEF LruOK
    <3> QED BY <2>4, <3>1, SameOperators DEF Lru!Held
  <2>8. Pending' = Pending /\ Owners' = Owners \ {h} /\ Owners \in SUBSET Keys
    <3>1. Pending' = Pending
      <4>1. Pending' = CallOf(Recency, frame'[t])
        BY <1>1, <1>6 DEF Mapped, CallOf, OwedBy
      <4> QED BY <1>1, <1>9, <2>1, <4>1 DEF Mapped
    <3>2. Owners' = OwnersOf(Recency', frame[t])
      BY <1>1, <1>9, <2>1 DEF Mapped
    <3>3. Owners' = Owners \ {h}
      <4>1. h # k /\ ToSet(Recency') = ToSet(Recency) \ {h}
        BY <2>3, <2>5
      <4>2. Owners = OwnersOf(Recency, frame[t])
        BY <1>1 DEF Mapped
      <4> HIDE DEF h
      <4> QED BY <3>2, <4>1, <4>2 DEF OwnersOf
    <3>4. Owners \in SUBSET Keys
      BY <1>1, <2>5, OwnersAreKeys DEF Mapped
    <3> QED BY <3>1, <3>3, <3>4
  <2>9. Deadline' = Lru!Restrict(Deadline, DOMAIN Deadline \cap (Keys \ {Head(Recency)}))
    <3> HIDE DEF h
    <3>1. DueTo(expiryTimes, Owners \ {h})
            = Restrict(DueTo(expiryTimes, Owners), DOMAIN DueTo(expiryTimes, Owners) \cap (Keys \ {h}))
      BY <1>0, <2>8
    <3>2. Deadline' = DueTo(expiryTimes', Owners') /\ Deadline = DueTo(expiryTimes, Owners)
      BY <1>1 DEF Mapped
    <3>3. expiryTimes' = expiryTimes
      BY <1>9, <2>1
    <3>4. Deadline' = Restrict(Deadline, DOMAIN Deadline \cap (Keys \ {h}))
      BY <2>8, <3>1, <3>2, <3>3
    <3> QED BY <2>5, <3>4, SameOperators
  <2> QED BY <1>1, <1>2, <1>8, <2>5, <2>6, <2>7, <2>8, <2>9 DEF Lru!MakeRoom, Lru!Keep, Mapped
<1> QED BY <1>5, <1>11, <1>12, <1>13, <1>14, <1>15 DEF SetStep

(* A get makes its key the most recent one, looks at its age, and returns. *)
LEMMA GetStepSeen ==
  ASSUME NEW t, Threads = {t}, TypeOK, TypeOK', IsLruCache, RefIInv(t), GetStep(t)
  PROVE  Lru!Use \/ Lru!Alive \/ Lru!Expire \/ Lru!Return \/ UNCHANGED Lru!lruVars
<1> DEFINE o == accessOrder
           k == frame[t].key
<1>1. /\ Mapped(t)
      /\ frame \in [Threads -> Frame] /\ frame[t] \in Frame /\ FrameOK(frame[t])
      /\ frame'[t] \in Frame /\ LruOK /\ LruOK' /\ LabelsOK /\ rules \in RuleLists
  BY MappedStep DEF Step
<1>2. /\ frame[t].op = "get" /\ frame[t].pc \in GetLabels /\ k \in Keys /\ clock' = clock
  BY <1>1 DEF GetStep, LruOnGetIn, LruOnGetMove, LruOnGetKeyError, MaxOnGet, LifeOnGetRead,
     LifeOnGetCheck, GetReturn, Outer, OuterDone, At, FrameOK, GetLabels
<1>3. Recency = o
  BY <1>1, <1>2 DEF View, GetLabels, Mapped
<1>4. /\ \A n \in DOMAIN rules : rules[n] # "max"
      /\ "lru" \in Active
  BY LruPosition DEF IsLruCache
<1>5. ~MaxOnGet(t)
  BY <1>4 DEF MaxOnGet, Outer, InRule
<1>6. /\ Pending.op = "get" /\ Pending.key = k
      /\ Owners = ToSet(o) /\ ToSet(o) \subseteq Keys
      /\ Deadline = DueTo(expiryTimes, ToSet(o))
      /\ Lru!Held = ToSet(o)
  <2>1. ToSet(o) \subseteq Keys
    BY <1>1, LenProperties DEF LruOK, ToSet
  <2> QED BY <1>1, <1>2, <1>3, <2>1, SameOperators DEF Mapped, CallOf, OwnersOf, Lru!Held
<1> USE DEF Frame, Goto, Return, Idle, NextOuter, Effect
<1>7. CASE LruOnGetKeyError(t) \/ GetReturn(t)
  <2>1. accessOrder' = o /\ frame'[t] = Idle /\ expiryTimes' = expiryTimes
    BY <1>1, <1>7 DEF LruOnGetKeyError, GetReturn, ruleState
  <2>2. Recency' = Recency /\ Pending' = Lru!Idle /\ Deadline' = Deadline
    <3>1. Recency' = o
      BY <1>1, <2>1 DEF View, Mapped
    <3>2. Owners' = Owners
      BY <1>1, <1>6, <2>1, <3>1 DEF OwnersOf, Mapped
    <3> QED BY <1>1, <1>3, <2>1, <3>1, <3>2 DEF Mapped, CallOf, OwedBy, Lru!Idle, Lru!Begun
  <2>3. Pending.owes = {}
    <3>1. CASE LruOnGetKeyError(t)
      <4>1. k \notin ToSet(Recency)
        BY <1>3, <3>1 DEF LruOnGetKeyError, LruTracked
      <4> QED BY <1>1, <1>2, <4>1 DEF Mapped, CallOf, OwedBy
    <3>2. CASE GetReturn(t)
      <4>1. ~Coming(frame[t], "lru") /\ ~Coming(frame[t], "life")
        BY <1>1, <3>2, ComingHooks DEF GetReturn, OuterDone
      <4> QED BY <1>1, <1>2, <4>1 DEF Mapped, CallOf, OwedBy
    <3> QED BY <1>7, <3>1, <3>2
  <2>4. Lru!Return
    BY <1>1, <1>2, <1>6, <2>2, <2>3 DEF Lru!Return, Mapped
  <2> QED BY <2>4
<1>8. CASE ~(LruOnGetKeyError(t) \/ GetReturn(t))
  <2>1. /\ frame'[t].op = "get" /\ frame'[t].key = k /\ frame'[t].ttl = frame[t].ttl
        /\ frame'[t].pc \in GetLabels \cup {"delete"}
    BY <1>1, <1>2, <1>5, <1>8 DEF GetStep, LruOnGetIn, LruOnGetMove, LifeOnGetRead,
       LifeOnGetCheck, GetLabels
  <2>2. /\ frame'[t].pc # "delete" => Recency' = accessOrder'
        /\ Owners' = ToSet(Recency')
    BY <1>1, <2>1 DEF View, GetLabels, Mapped, OwnersOf
  (* A hook that leaves the dictionaries is over, or not. *)
  <2>3. ASSUME accessOrder' = o, expiryTimes' = expiryTimes, frame'[t].pc # "delete",
               \/ frame'[t].i = frame[t].i
               \/ /\ frame'[t].i = frame[t].i + 1 /\ frame[t].i \in DOMAIN rules
                  /\ k \notin LruTracked
        PROVE  UNCHANGED Lru!lruVars
    <3>1. Recency' = Recency
      BY <1>3, <2>2, <2>3
    <3>2. /\ CallOf(Recency, frame'[t]) = CallOf(Recency, frame[t])
          /\ OwnersOf(Recency, frame'[t]) = OwnersOf(Recency, frame[t])
      BY <1>1, <1>2, <1>3, <2>1, <2>3, SameDuties DEF LruTracked
    <3> QED BY <1>1, <1>2, <2>3, <3>1, <3>2, NotSeen
  (* A hook that has run is no longer owed. *)
  <2>4. ASSUME NEW r, NEW what, k \in ToSet(Recency'), k \in ToSet(o),
               <<r, what>> \in {<<"lru", "use">>, <<"life", "check">>},
               InRule(t, r), frame'[t].i = frame[t].i + 1
        PROVE  Lru!Owes(what) /\ Lru!Settle(what)
    <3>1. /\ Coming(frame[t], r) /\ ~Coming(frame'[t], r)
          /\ \A q : q # r => (Coming(frame'[t], q) <=> Coming(frame[t], q))
      BY <1>1, <2>4, ComingHooks DEF InRule
    <3> DEFINE S == OwedBy(Recency, frame[t])
    <3>2. OwedBy(Recency', frame'[t]) = S \ {what} /\ what \in S
      BY <1>2, <1>3, <2>1, <2>4, <3>1 DEF OwedBy
    <3>3. Pending = [op |-> "get", key |-> k, ttl |-> frame[t].ttl, owes |-> S]
      BY <1>1, <1>2 DEF Mapped, CallOf
    <3>4. Pending' = [op |-> "get", key |-> k, ttl |-> frame[t].ttl, owes |-> S \ {what}]
      BY <1>1, <2>1, <3>2 DEF Mapped, CallOf
    <3> HIDE DEF S, k
    <3> QED BY <3>2, <3>3, <3>4, Settled DEF Lru!Owes, Lru!Settle
  <2>5. CASE LruOnGetIn(t)
    <3>1. /\ InRule(t, "lru") /\ accessOrder' = o /\ expiryTimes' = expiryTimes
          /\ frame'[t].pc # "delete"
      BY <1>1, <2>5 DEF LruOnGetIn, Outer, ruleState
    <3>2. \/ frame'[t].i = frame[t].i
          \/ frame'[t].i = frame[t].i + 1 /\ k \notin LruTracked
      BY <1>1, <2>5 DEF LruOnGetIn
    <3> QED BY <2>3, <3>1, <3>2 DEF InRule
  <2>6. CASE LruOnGetMove(t)
    <3>1. /\ frame[t].pc = "lru_touch" /\ k \in LruTracked /\ frame'[t].pc = "on_get"
          /\ frame'[t].i = frame[t].i + 1
          /\ accessOrder' = Append(RemoveFirst(o, k), k) /\ expiryTimes' = expiryTimes
      BY <1>1, <2>6 DEF LruOnGetMove, LruMoveToEnd, Without, At
    <3>2. InRule(t, "lru")
      BY <1>1, <3>1 DEF LabelsOK
    <3>3. ToSet(accessOrder') = ToSet(o)
      <4>1. /\ RemoveFirst(o, k) \in Seq(Keys) /\ ToSet(RemoveFirst(o, k)) = ToSet(o) \ {k}
            /\ IsInjective(RemoveFirst(o, k))
        BY <1>1, RemoveFirstProperties DEF LruOK
      <4>2. ToSet(Append(RemoveFirst(o, k), k)) = ToSet(RemoveFirst(o, k)) \cup {k}
        BY <1>2, <4>1, AppendDistinct
      <4> QED BY <3>1, <4>1, <4>2 DEF LruTracked
    <3>4. Recency' = Append(RemoveFirst(o, k), k) /\ ToSet(Recency') = ToSet(o)
      BY <2>2, <3>1, <3>3
    <3>5. Deadline' = Deadline
      BY <1>1, <1>6, <2>2, <3>1, <3>4 DEF Mapped
    <3>6. Lru!Owes("use") /\ Lru!Settle("use")
      BY <2>4, <3>1, <3>2, <3>4 DEF LruTracked
    <3>7. Lru!Use
      BY <1>1, <1>2, <1>3, <1>6, <3>4, <3>5, <3>6, SameOperators DEF Lru!Use, Mapped
    <3> QED BY <3>7
  <2>7. CASE LifeOnGetRead(t)
    <3>1. InRule(t, "life") /\ accessOrder' = o /\ expiryTimes' = expiryTimes
      BY <2>7 DEF LifeOnGetRead, Outer, ruleState
    <3>2. CASE k \in DOMAIN expiryTimes
      <4>1. frame'[t].i = frame[t].i /\ frame'[t].pc # "delete"
        BY <1>1, <2>7, <3>2 DEF LifeOnGetRead
      <4> QED BY <2>3, <3>1, <4>1
    <3>3. CASE k \notin DOMAIN expiryTimes
      <4>1. frame'[t].i = frame[t].i + 1 /\ frame'[t].pc = "on_get"
        BY <1>1, <2>7, <3>3 DEF LifeOnGetRead
      <4>2. CASE k \in ToSet(o)
        <5>1. Recency' = o
          BY <2>2, <3>1, <4>1
        <5>2. Lru!Owes("check") /\ Lru!Settle("check")
          BY <2>4, <3>1, <4>1, <4>2, <5>1
        <5>3. k \notin DOMAIN Deadline
          BY <1>6, <3>3 DEF DueTo, Restrict
        <5>4. Deadline' = Deadline
          BY <1>1, <1>6, <2>2, <3>1, <5>1 DEF Mapped
        <5>5. Lru!Alive
          BY <1>1, <1>2, <1>3, <1>6, <5>1, <5>2, <5>3, <5>4 DEF Lru!Alive, Lru!Expired, Mapped
        <5> QED BY <5>5
      <4>3. CASE k \notin ToSet(o)
        BY <2>3, <3>1, <4>1, <4>3 DEF InRule, LruTracked
      <4> QED BY <4>2, <4>3
    <3> QED BY <3>2, <3>3
  <2>8. CASE LifeOnGetCheck(t)
    <3>1. /\ frame[t].pc = "life_check" /\ InRule(t, "life") /\ accessOrder' = o
          /\ k \in DOMAIN expiryTimes /\ frame[t].seen = expiryTimes[k]
      <4>1. frame[t].pc = "life_check" /\ accessOrder' = o
        BY <2>8 DEF LifeOnGetCheck, At
      <4> QED BY <1>1, <4>1 DEF LabelsOK, CheckSeen, RefIInv
    <3>2. "life" \in Active
      BY <3>1 DEF InRule, Active, ToSet
    <3>3. k \in ToSet(o) => /\ k \in DOMAIN Deadline /\ Deadline[k] = expiryTimes[k]
                            /\ Lru!Expired(k) <=> LifeExpired(frame[t].seen, clock)
      BY <1>6, <3>1, <3>2 DEF DueTo, Restrict, Lru!Expired, LifeExpired
    <3>4. CASE ~LifeExpired(frame[t].seen, clock)
      <4>1. frame'[t].i = frame[t].i + 1 /\ frame'[t].pc = "on_get" /\ expiryTimes' = expiryTimes
        BY <1>1, <2>8, <3>4 DEF LifeOnGetCheck
      <4>2. CASE k \in ToSet(o)
        <5>1. Recency' = o
          BY <2>2, <3>1, <4>1
        <5>2. Lru!Owes("check") /\ Lru!Settle("check")
          BY <2>4, <3>1, <4>1, <4>2, <5>1
        <5>3. Deadline' = Deadline
          BY <1>1, <1>6, <2>2, <4>1, <5>1 DEF Mapped
        <5>4. Lru!Alive
          BY <1>1, <1>2, <1>3, <1>6, <3>3, <3>4, <4>2, <5>1, <5>2, <5>3 DEF Lru!Alive, Mapped
        <5> QED BY <5>4
      <4>3. CASE k \notin ToSet(o)
        BY <2>3, <3>1, <4>1, <4>3 DEF InRule, LruTracked
      <4> QED BY <4>2, <4>3
    <3>5. CASE LifeExpired(frame[t].seen, clock)
      <4>1. /\ frame'[t].i = frame[t].i /\ frame'[t].pc = "delete" /\ frame'[t].victim = k
            /\ LifeForget(k)
        BY <1>1, <2>8, <3>5 DEF LifeOnGetCheck
      <4>2. Recency' = RemoveFirst(o, k)
        BY <1>1, <2>1, <3>1, <4>1 DEF View, Mapped
      <4>3. ToSet(Recency') = ToSet(o) \ {k}
        BY <1>1, <4>2, RemoveFirstProperties DEF LruOK
      <4>4. Pending' = [op |-> "get", key |-> k, ttl |-> frame[t].ttl, owes |-> {}]
        BY <1>1, <2>1, <4>3 DEF Mapped, CallOf, OwedBy
      <4>5. Deadline' = DueTo(expiryTimes, ToSet(o) \ {k})
        <5>1. Deadline' = DueTo(expiryTimes', ToSet(o) \ {k})
          BY <1>1, <2>2, <4>3 DEF Mapped
        <5> HIDE DEF k
        <5> QED BY <4>1, <5>1, DueKept DEF LifeForget
      <4>6. CASE k \in ToSet(o)
        <5>1. Lru!Owes("check")
          <6>1. Coming(frame[t], "life")
            BY <1>1, <3>1, <3>2, OnePosition DEF Coming, InRule
          <6>2. "check" \in OwedBy(Recency, frame[t])
            BY <1>2, <1>3, <4>6, <6>1 DEF OwedBy
          <6> QED BY <1>1, <6>2 DEF Mapped, CallOf, Lru!Owes
        <5>2. Pending' = [Pending EXCEPT !.owes = {}]
          <6>1. Pending = [op |-> "get", key |-> k, ttl |-> frame[t].ttl,
                           owes |-> OwedBy(Recency, frame[t])]
            BY <1>1, <1>2 DEF Mapped, CallOf
          <6> QED BY <4>4, <6>1
        <5>3. Deadline' = Lru!Restrict(Deadline, DOMAIN Deadline \cap (Keys \ {k}))
          <6> HIDE DEF k
          <6>1. \A v : DueTo(expiryTimes, ToSet(o) \ {v})
                        = Restrict(DueTo(expiryTimes, ToSet(o)),
                                   DOMAIN DueTo(expiryTimes, ToSet(o)) \cap (Keys \ {v}))
            BY <1>6, DueNarrowed
          <6>2. Deadline' = Restrict(Deadline, DOMAIN Deadline \cap (Keys \ {k}))
            BY <1>6, <4>5, <6>1
          <6> QED BY <6>2, SameOperators
        <5>4. Lru!Expire
          <6>1. Lru!Expired(Pending.key)
            BY <1>6, <3>3, <3>5, <4>6
          <6>2. Recency' = Lru!RemoveFirst(Recency, Pending.key) /\ Lru!Keep(Keys \ {Pending.key})
            BY <1>3, <1>6, <4>2, <5>3, SameOperators DEF Lru!Keep
          <6> QED BY <1>1, <1>2, <1>6, <5>1, <5>2, <6>1, <6>2 DEF Lru!Expire, Mapped
        <5> QED BY <5>4
      <4>7. CASE k \notin ToSet(o)
        <5>1. Recency' = Recency
          BY <1>1, <1>3, <4>2, <4>7, RemoveAbsent DEF LruOK
        <5>2. /\ CallOf(Recency, frame'[t]) = CallOf(Recency, frame[t])
              /\ OwnersOf(Recency, frame'[t]) = OwnersOf(Recency, frame[t])
          <6> HIDE DEF Frame, Goto, Return, Idle, NextOuter, Effect
          <6> QED BY <1>1, <1>2, <2>1, <4>1, SameDuties
        <5>3. k \notin OwnersOf(Recency, frame[t])
          BY <1>2, <1>3, <4>7 DEF OwnersOf
        <5> QED BY <1>1, <1>2, <4>1, <5>1, <5>2, <5>3, NotSeen
      <4> QED BY <4>6, <4>7
    <3> QED BY <3>4, <3>5
  <2> QED BY <1>5, <1>8, <2>5, <2>6, <2>7, <2>8 DEF GetStep
<1> QED BY <1>7, <1>8

(* A removal is seen when it is decided: carrying it out and telling the    *)
(* rules is not.                                                            *)
LEMMA EvictStepSeen ==
  ASSUME NEW t, Threads = {t}, TypeOK, TypeOK', IsLruCache, RefIInv(t), EvictStep(t)
  PROVE  Lru!Return \/ UNCHANGED Lru!lruVars
<1> DEFINE o == accessOrder
           v == frame[t].victim
<1>1. /\ Mapped(t)
      /\ frame \in [Threads -> Frame] /\ frame[t] \in Frame /\ FrameOK(frame[t])
      /\ frame'[t] \in Frame /\ LruOK /\ LruOK' /\ LabelsOK /\ InMemoryTypeOK
      /\ rules \in RuleLists
  BY MappedStep DEF Step
<1>2. /\ TookRoom(t) /\ VictimIsOther(t) /\ GoneFirst(t) /\ TrackedIsStored /\ StoredIsTracked
      /\ OwnKey(t)
  BY DEF RefIInv, SeqIInv
<1>3. /\ Position("lru") \in 1..Len(rules) /\ Len(rules) \in Nat /\ frame[t].j \in Nat
      /\ \A n \in DOMAIN rules : rules[n] # "max"
  BY <1>1, LruPosition DEF Frame
<1>4. v \in Keys /\ frame[t].pc \in {"delete", "on_evict"} /\ clock' = clock
  BY <1>1 DEF EvictStep, EffectEvict, LruOnEvict, MaxOnEvict, LifeOnEvict, EvictReturn,
     EffectDone, Inner, InnerDone, At, FrameOK
<1>5. ~InRule(t, "max") /\ ~MaxOnEvict(t)
  BY <1>3 DEF InRule, MaxOnEvict, Inner
<1>6. InnerDone(t, "on_evict") /\ frame[t].op # "set" => v \notin LruTracked
  <2>1. InnerDone(t, "on_evict") => frame[t].pc = "on_evict" /\ frame[t].j > Position("lru")
    BY <1>3 DEF InnerDone, At
  <2> QED BY <1>2, <2>1, Agreement
<1>7. v \notin LruTracked => RemoveFirst(o, v) = o
  BY <1>1, RemoveAbsent DEF LruOK, LruTracked
<1>8. /\ RemoveFirst(RemoveFirst(o, v), v) = RemoveFirst(o, v)
      /\ v \notin ToSet(RemoveFirst(o, v))
  <2>1. RemoveFirst(o, v) \in Seq(Keys) /\ v \notin ToSet(RemoveFirst(o, v))
    BY <1>1, RemoveFirstProperties DEF LruOK
  <2> QED BY <2>1, RemoveAbsent
<1>9. frame[t].op # "set" => Recency = RemoveFirst(o, v)
  BY <1>1, <1>4 DEF View, Mapped
<1>10. frame[t].op # "set" => Owners = ToSet(Recency) /\ v \notin OwnersOf(Recency, frame[t])
  BY <1>1, <1>8, <1>9 DEF Mapped, OwnersOf
<1>11. \/ expiryTimes' = expiryTimes
       \/ LifeOnEvict(t) /\ LifeForget(v)
  BY <1>5 DEF EvictStep, EffectEvict, LruOnEvict, LifeOnEvict, EvictReturn, EffectDone, ruleState
<1> USE DEF Frame, Goto, Return, Idle, NextInner
<1>12. CASE frame[t].op = "set"
  <2>1. v # None
    BY <1>4, NoneAssumption
  <2>2. v \notin LruTracked /\ v # frame[t].key
    BY <1>2, <1>12, <2>1 DEF TookRoom
  <2>3. /\ frame'[t].op = "set" /\ frame'[t].key = frame[t].key /\ frame'[t].ttl = frame[t].ttl
        /\ \/ frame'[t].i = frame[t].i
           \/ frame'[t].i = frame[t].i + 1
    BY <1>1, <1>5, <1>12 DEF EvictStep, EffectEvict, LruOnEvict, LifeOnEvict, EvictReturn, EffectDone
  <2>4. accessOrder' = o
    <3>1. CASE LruOnEvict(t)
      BY <1>7, <2>2, <3>1 DEF LruOnEvict, LruForget, Without
    <3>2. CASE ~LruOnEvict(t)
      BY <1>5, <3>2 DEF EvictStep, EffectEvict, LifeOnEvict, EvictReturn, EffectDone, ruleState
    <3> QED BY <3>1, <3>2
  <2>5. frame[t].key \in DOMAIN cache' <=> frame[t].key \in DOMAIN cache
    <3>1. CASE EffectEvict(t)
      <4>1. DOMAIN cache' = DOMAIN cache \ {v}
        BY <1>1, <1>4, <3>1, StorageOps DEF EffectEvict
      <4> QED BY <2>2, <4>1
    <3>2. CASE ~EffectEvict(t)
      BY <1>5, <3>2 DEF EvictStep, LruOnEvict, LifeOnEvict, EvictReturn, EffectDone
    <3> QED BY <3>1, <3>2
  <2>6. Recency' = Recency
    BY <1>1, <1>12, <2>3, <2>4, <2>5 DEF View, KeysOf, Mapped
  <2>7. InRule(t, "lru")
    BY <1>2, <1>4, <1>5, <1>12 DEF VictimIsOther
  <2>8. /\ CallOf(Recency, frame'[t]) = CallOf(Recency, frame[t])
        /\ OwnersOf(Recency, frame'[t]) = OwnersOf(Recency, frame[t])
    <3> HIDE DEF Frame, Goto, Return, Idle, NextInner
    <3>1. frame[t].i \in DOMAIN rules /\ rules[frame[t].i] # "life"
      BY <2>7 DEF InRule
    <3> QED BY <1>1, <1>12, <2>3, <3>1, SameDuties
  <2>9. v \notin OwnersOf(Recency, frame[t])
    <3>1. v \notin ToSet(Recency)
      <4>1. ToSet(RemoveFirst(o, frame[t].key)) \subseteq ToSet(o)
        BY <1>1, RemoveFirstProperties DEF LruOK
      <4> QED BY <1>1, <1>12, <2>2, <4>1 DEF View, KeysOf, Mapped, LruTracked
    <3> QED BY <2>2, <3>1 DEF OwnersOf
  <2> QED BY <1>1, <1>4, <1>11, <2>6, <2>8, <2>9, NotSeen
<1>13. CASE frame[t].op # "set" /\ (EffectEvict(t) \/ LruOnEvict(t) \/ LifeOnEvict(t))
  <2>1. /\ frame'[t].pc = "on_evict" /\ frame'[t].victim = v /\ frame'[t].i = frame[t].i
        /\ frame'[t].op = frame[t].op /\ frame'[t].key = frame[t].key
        /\ frame'[t].ttl = frame[t].ttl
    BY <1>1, <1>4, <1>13 DEF EffectEvict, LruOnEvict, LifeOnEvict, Inner, At
  <2>2. accessOrder' = o \/ accessOrder' = RemoveFirst(o, v)
    BY <1>13 DEF EffectEvict, LruOnEvict, LifeOnEvict, LruForget, Without, ruleState
  <2>3. RemoveFirst(accessOrder', v) = RemoveFirst(o, v)
    BY <1>8, <2>2
  <2>4. Recency' = Recency
    BY <1>1, <1>9, <1>13, <2>1, <2>3 DEF View, Mapped
  <2>5. /\ CallOf(Recency, frame'[t]) = CallOf(Recency, frame[t])
        /\ OwnersOf(Recency, frame'[t]) = OwnersOf(Recency, frame[t])
    <3> HIDE DEF Frame, Goto, Return, Idle, NextInner
    <3> QED BY <1>1, <2>1, SameDuties
  <2> QED BY <1>1, <1>4, <1>10, <1>11, <1>13, <2>4, <2>5, NotSeen
<1>14. CASE frame[t].op # "set" /\ (EvictReturn(t) \/ EffectDone(t))
  <2>1. /\ InnerDone(t, "on_evict") /\ frame[t].pc = "on_evict" /\ accessOrder' = o
        /\ expiryTimes' = expiryTimes
    BY <1>14 DEF EvictReturn, EffectDone, InnerDone, At, ruleState
  <2>2. Recency = o
    BY <1>6, <1>7, <1>9, <1>14, <2>1
  <2>3. CASE EvictReturn(t)
    <3>1. frame[t].op = "evict" /\ frame'[t] = Idle
      BY <1>1, <2>3 DEF EvictReturn
    <3>2. Recency' = o /\ Pending' = Lru!Idle
      BY <1>1, <2>1, <3>1 DEF View, Mapped, CallOf, OwedBy, Lru!Idle, Lru!Begun
    <3>3. Owners' = Owners
      BY <1>1, <2>2, <3>1, <3>2 DEF Mapped, OwnersOf
    <3>4. Pending.op = "evict" /\ Pending.owes = {}
      BY <1>1, <3>1 DEF Mapped, CallOf, OwedBy
    <3>5. Deadline' = Deadline
      BY <1>1, <2>1, <3>3 DEF Mapped
    <3> QED BY <1>1, <1>4, <2>2, <3>2, <3>4, <3>5 DEF Lru!Return, Mapped
  <2>4. CASE EffectDone(t)
    <3>1. /\ frame[t].op = "get" /\ frame'[t].pc = "on_get" /\ frame'[t].op = "get"
          /\ frame'[t].key = frame[t].key /\ frame'[t].ttl = frame[t].ttl
      BY <1>1, <1>14, <2>4 DEF EffectDone
    <3>2. Recency' = Recency
      BY <1>1, <2>1, <2>2, <3>1 DEF View, Mapped
    <3>3. frame[t].key \notin ToSet(Recency)
      BY <1>2, <1>8, <1>9, <2>1, <3>1 DEF OwnKey
    <3>4. /\ CallOf(Recency, frame'[t]) = CallOf(Recency, frame[t])
          /\ OwnersOf(Recency, frame'[t]) = OwnersOf(Recency, frame[t])
      BY <3>1, <3>3 DEF CallOf, OwedBy, OwnersOf
    <3> QED BY <1>1, <1>4, <2>1, <3>2, <3>4, NotSeen
  <2> QED BY <1>14, <2>3, <2>4
<1> QED BY <1>5, <1>12, <1>13, <1>14 DEF EvictStep

LEMMA ClearStepSeen ==
  ASSUME NEW t, Threads = {t}, TypeOK, TypeOK', IsLruCache, RefIInv(t), ClearStep(t)
  PROVE  Lru!Return \/ UNCHANGED Lru!lruVars
<1>1. /\ Mapped(t)
      /\ frame \in [Threads -> Frame] /\ frame[t] \in Frame /\ FrameOK(frame[t]) /\ LruOK
  BY MappedStep DEF Step
<1>2. frame[t].op = "clear" /\ frame[t].pc = "on_clear" /\ clock' = clock
  BY <1>1 DEF ClearStep, LruOnClear, MaxOnClear, LifeOnClear, ClearReturn, Inner, InnerDone, At,
     FrameOK
<1>3. /\ Recency = <<>> /\ Owners = {} /\ Pending.op = "clear" /\ Pending.owes = {}
  <2>1. Recency = <<>>
    BY <1>1, <1>2 DEF View, Mapped
  <2>2. ToSet(<<>>) = {}
    BY DEF ToSet
  <2> QED BY <1>1, <1>2, <2>1, <2>2 DEF Mapped, OwnersOf, CallOf, OwedBy
<1>4. ASSUME Owners' = {} PROVE Deadline' = Deadline
  <2>1. \A e, e1 : DueTo(e, {}) = DueTo(e1, {})
    BY DEF DueTo, Restrict
  <2> QED BY <1>1, <1>3, <1>4, <2>1 DEF Mapped
<1> USE DEF Frame, Return, Idle, NextInner
<1>5. CASE ClearReturn(t)
  <2>1. frame'[t] = Idle /\ accessOrder' = accessOrder
    BY <1>1, <1>5 DEF ClearReturn, ruleState
  <2>2. frame[t].j > Position("lru")
    <3>1. Position("lru") \in 1..Len(rules) /\ Len(rules) \in Nat /\ frame[t].j \in Nat
      BY <1>1, LruPosition
    <3> QED BY <1>5, <3>1 DEF ClearReturn, InnerDone
  <2>3. accessOrder = <<>>
    <3>1. LruTracked = {}
      BY <1>2, <2>2, Agreement DEF RefIInv, SeqIInv
    <3>2. Len(accessOrder) = Cardinality(LruTracked)
      BY <1>1, DistinctLength DEF LruOK, LruTracked
    <3>3. Len(accessOrder) = 0
      BY <3>1, <3>2, FS_EmptySet
    <3> QED BY <1>1, <3>3, EmptySeq DEF LruOK
  <2>4. Recency' = <<>> /\ Pending' = Lru!Idle
    BY <1>1, <2>1, <2>3 DEF View, Mapped, CallOf, OwedBy, Lru!Idle, Lru!Begun
  <2>5. Owners' = {}
    BY <1>1, <2>1, <2>4 DEF Mapped, OwnersOf, ToSet
  <2> QED BY <1>1, <1>2, <1>3, <1>4, <2>4, <2>5 DEF Lru!Return, Mapped
<1>6. CASE ~ClearReturn(t)
  <2>1. /\ frame'[t].op = frame[t].op /\ frame'[t].key = frame[t].key
        /\ frame'[t].pc = frame[t].pc /\ frame'[t].ttl = frame[t].ttl
    BY <1>1, <1>6 DEF ClearStep, LruOnClear, MaxOnClear, LifeOnClear
  <2>2. Recency' = Recency /\ Owners' = {}
    <3>1. Recency' = <<>>
      BY <1>1, <1>2, <2>1 DEF View, Mapped
    <3> QED BY <1>1, <1>2, <1>3, <2>1, <3>1 DEF Mapped, OwnersOf, ToSet
  <2>3. Pending' = Pending
    BY <1>1, <1>2, <2>1 DEF Mapped, CallOf, OwedBy
  <2> QED BY <1>1, <1>2, <1>4, <2>2, <2>3 DEF Mapped, Lru!lruVars
<1> QED BY <1>5, <1>6

-----------------------------------------------------------------------------
(* The refinement. *)

LruIInv ==
  \A t \in Threads : OwnKey(t) /\ CheckSeen(t) /\ (IsLruCache => HasRoom(t) /\ TookRoom(t))

LEMMA LruIInvInit == Init => LruIInv
<1> SUFFICES ASSUME Init, NEW t \in Threads
             PROVE  OwnKey(t) /\ CheckSeen(t) /\ HasRoom(t) /\ TookRoom(t)
  BY DEF LruIInv
<1>1. frame[t].op = "none" /\ frame[t].key = None /\ frame[t].ttl = 0 /\ frame[t].pc = "idle"
  BY DEF Init, Idle
<1> QED BY <1>1 DEF OwnKey, CheckSeen, HasRoom, TookRoom, Passed

(* Time passes for the LRU cache too. *)
LEMMA TickSeen ==
  ASSUME Tick \/ UNCHANGED vars
  PROVE  /\ Lru!Tick \/ UNCHANGED Lru!lruVars
         /\ LruIInv => LruIInv'
<1>1. UNCHANGED <<cache, accessOrder, expiryTimes, rules, frame>>
  BY DEF Tick, vars, ruleState
<1>2. UNCHANGED <<IsLruCache, IsTimed, Caller>> /\ \A r : Ahead(r)' <=> Ahead(r)
  BY <1>1 DEF IsLruCache, IsTimed, Active, Caller, Ahead, Position
<1>3. UNCHANGED Recency
  BY <1>1, <1>2 DEF Recency, Absent, Without, Stored
<1>4. UNCHANGED <<Owners, Pending>>
  BY <1>1, <1>2, <1>3 DEF Owners, Pending, OwedByGet, OwedBySet
<1>5. UNCHANGED Deadline
  BY <1>1, <1>2, <1>4 DEF Deadline
<1>6. Lru!Tick \/ UNCHANGED Lru!lruVars
  BY <1>2, <1>3, <1>4, <1>5 DEF Tick, vars, Lru!Tick, Lru!lruVars
<1>7. LruIInv => LruIInv'
  BY <1>1 DEF LruIInv, OwnKey, CheckSeen, HasRoom, TookRoom, Passed, Position, LruTracked,
     IsLruCache, Active
<1> QED BY <1>6, <1>7

LEMMA LruIInvStep ==
  ASSUME NEW t0, Threads = {t0}, TypeOK, SeqIInv, LruIInv, [Next]_vars
  PROVE  LruIInv'
<1>1. ASSUME NEW t \in Threads, Call(t) \/ Step(t) PROVE LruIInv'
  <2>1. Threads = {t} /\ rules' = rules
    BY <1>1, StepContext
  <2>2. IsLruCache' <=> IsLruCache
    BY <2>1 DEF IsLruCache, Active
  <2>3. OwnKey(t)'
    BY <1>1, OwnKeyStep DEF LruIInv
  <2>4. CheckSeen(t)'
    BY <1>1, CheckSeenStep
  <2>5. IsLruCache => HasRoom(t)' /\ TookRoom(t)'
    BY <1>1, RoomStep DEF LruIInv, SeqIInv
  <2> QED BY <2>1, <2>2, <2>3, <2>4, <2>5 DEF LruIInv
<1> QED BY <1>1, TickSeen DEF Next

LEMMA LruInitSeen ==
  ASSUME NEW t0, Threads = {t0}, Init
  PROVE  Lru!Init
<1>1. Caller = t0 /\ frame[t0] = Idle /\ accessOrder = <<>> /\ clock = 0 /\ DOMAIN expiryTimes = {}
  BY DEF Caller, Init, LruInit, LifeInit, InMemoryInit
<1>2. RemoveFirst(<<>>, None) = <<>>
  <2>1. <<>> \in Seq(Keys) /\ ToSet(<<>>) = {}
    BY DEF ToSet
  <2> QED BY <2>1, RemoveAbsent
<1>3. Recency = <<>>
  BY <1>1, <1>2 DEF Recency, Absent, Without, Idle
<1>4. Pending = Lru!Idle
  BY <1>1 DEF Pending, Idle, Lru!Idle, Lru!Begun
<1>5. Deadline = [k \in {} |-> 0]
  BY <1>1 DEF Deadline, Restrict
<1>6. IsTimed \in BOOLEAN
  BY DEF IsTimed
<1> QED BY <1>1, <1>3, <1>4, <1>5, <1>6 DEF Lru!Init

(* A storage that is no LRU cache shows none. *)
LEMMA OthersUnseen ==
  ASSUME NEW t0, Threads = {t0}, ~IsLruCache, ~IsLruCache', clock' = clock
  PROVE  UNCHANGED Lru!lruVars
<1>1. ~IsTimed /\ ~IsTimed' /\ IsTimed' = IsTimed
  BY DEF IsTimed
<1>2. Recency = <<>> /\ Recency' = <<>>
  BY DEF Recency
<1>3. Pending' = Pending
  BY DEF Pending
<1>4. Deadline = [k \in {} |-> expiryTimes[k]] /\ Deadline' = [k \in {} |-> expiryTimes'[k]]
  BY <1>1 DEF Deadline, Restrict
<1>5. Deadline' = Deadline
  BY <1>4
<1> QED BY <1>1, <1>2, <1>3, <1>5 DEF Lru!lruVars

LEMMA LruNextSeen ==
  ASSUME NEW t0, Threads = {t0}, TypeOK, TypeOK', TrackedIsStored, SeqIInv, LruIInv, [Next]_vars
  PROVE  [Lru!Next]_(Lru!lruVars)
<1>1. ASSUME NEW t \in Threads, Call(t) \/ Step(t)
      PROVE  Lru!Next \/ UNCHANGED Lru!lruVars
  <2>1. Threads = {t} /\ rules' = rules
    BY <1>1, StepContext
  <2>2. IsLruCache' <=> IsLruCache
    BY <2>1 DEF IsLruCache, Active
  <2>3. CASE ~IsLruCache
    <3>1. clock' = clock
      BY <1>1, CallsKeepTime
    <3> QED BY <2>1, <2>2, <2>3, <3>1, OthersUnseen
  <2>4. CASE IsLruCache
    <3>1. RefIInv(t)
      BY <2>4 DEF RefIInv, LruIInv
    <3>2. CASE Call(t)
      BY <2>1, <2>4, <3>1, <3>2, CallStep
    <3>3. CASE Store(t)
      <4>1. Lru!Put
        BY <2>1, <2>4, <3>1, <3>3, StoreStep
      <4> QED BY <4>1 DEF Lru!Next
    <3>4. CASE SetStep(t) /\ ~Store(t)
      <4>1. Lru!Promise \/ Lru!Touch \/ Lru!MakeRoom \/ UNCHANGED Lru!lruVars
        BY <2>1, <2>4, <3>1, <3>4, SetStepSeen
      <4> QED BY <4>1 DEF Lru!Next
    <3>5. CASE GetStep(t)
      <4>1. Lru!Use \/ Lru!Alive \/ Lru!Expire \/ Lru!Return \/ UNCHANGED Lru!lruVars
        BY <2>1, <2>4, <3>1, <3>5, GetStepSeen
      <4> QED BY <4>1 DEF Lru!Next
    <3>6. CASE EvictStep(t)
      <4>1. Lru!Return \/ UNCHANGED Lru!lruVars
        BY <2>1, <2>4, <3>1, <3>6, EvictStepSeen
      <4> QED BY <4>1 DEF Lru!Next
    <3>7. CASE ClearStep(t)
      <4>1. Lru!Return \/ UNCHANGED Lru!lruVars
        BY <2>1, <2>4, <3>1, <3>7, ClearStepSeen
      <4> QED BY <4>1 DEF Lru!Next
    <3> QED BY <1>1, <3>2, <3>3, <3>4, <3>5, <3>6, <3>7 DEF Step
  <2> QED BY <2>3, <2>4
<1>2. Lru!Tick => Lru!Next
  BY DEF Lru!Next
<1> QED BY <1>1, <1>2, TickSeen DEF Next

(* With one caller, the decorator with the LRU rule, with or without the    *)
(* life-time rule, is a least-recently-used cache: a get makes its key the  *)
(* most recent one and never overlooks that it has expired, and what a      *)
(* caller loses unasked is the coldest key, only to a new one when the      *)
(* cache is full, or a key whose time has passed.                           *)
THEOREM StorageImplementsLruCache ==
  ASSUME NEW t0, Threads = {t0}
  PROVE  Spec => ImplementsLruCache
<1>1. Init => Lru!Init
  BY LruInitSeen
<1>2. TypeOK /\ SeqIInv /\ [Next]_vars => SeqIInv'
  BY SeqIInvStep
<1>3. TypeOK /\ SeqIInv /\ LruIInv /\ [Next]_vars => LruIInv'
  BY LruIInvStep
<1>4. TypeOK /\ TypeOK' /\ TrackedIsStored /\ SeqIInv /\ LruIInv /\ [Next]_vars
        => [Lru!Next]_(Lru!lruVars)
  BY LruNextSeen
<1> QED BY <1>1, <1>2, <1>3, <1>4, SeqIInvInit, LruIInvInit, TypeCorrect, TrackedStaysStored, PTL
     DEF Spec, ImplementsLruCache, Lru!Spec

=============================================================================
