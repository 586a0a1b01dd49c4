----------------------------- MODULE CacheProofs -----------------------------
(***************************************************************************)
(* Proofs about the Cache facade, for any number of threads, requests,     *)
(* keys and scopes.                                                        *)
(***************************************************************************)
EXTENDS CacheHistory, FiniteSetTheorems, TLAPS

-----------------------------------------------------------------------------
(* Type correctness. *)

(* The part of TypeOK that is about one frame. *)
FrameOK(f) ==
  /\ f \in CacheFrame
  /\ f.pc = "idle" <=> f.op = "none"
  /\ f.pc \in {"run", "computed", "store"} => f.op = "call"
  /\ f.pc = "store" => f.key \in Keys
  /\ f.op = "call" => f.request \in Requests
  /\ f.op = "scope" <=> f.scope \in Scopes
  /\ f.pc = "scope" => f.op = "scope"
  /\ f.pc = "reset" <=> f.op = "clear"

Data ==
  /\ InMemoryTypeOK
  /\ count \in [Counters -> Nat]
  /\ version \in 0..MaxVersion

Frames == frame \in [Threads -> CacheFrame] /\ \A t \in Threads : FrameOK(frame[t])

LEMMA TypeParts == TypeOK /\ version \in 0..MaxVersion <=> Data /\ Frames
  BY BoundsAssumption DEF TypeOK, Data, Frames, FrameOK, At

(* The storage operations keep the storage well typed. *)
LEMMA SetKeepsType ==
  ASSUME InMemoryTypeOK, NEW k \in Keys, NEW v \in Values, NEW ttl \in Nat,
         StorageSet(k, v, ttl), UNCHANGED clock
  PROVE  InMemoryTypeOK'
<1>1. DOMAIN cache' = DOMAIN cache \cup {k}
  BY DEF StorageSet
<1>2. clock + ttl \in Nat
  BY DEF InMemoryTypeOK
<1> QED BY <1>1, <1>2 DEF StorageSet, InMemoryTypeOK, Entry

LEMMA EvictKeepsType ==
  ASSUME InMemoryTypeOK, NEW S, cache' = Restrict(cache, S), S \subseteq DOMAIN cache,
         UNCHANGED clock
  PROVE  InMemoryTypeOK' /\ DOMAIN cache' = S /\ \A k \in S : cache'[k] = cache[k]
  BY DEF Restrict, InMemoryTypeOK

(* A step of a thread replaces its frame. *)
Replaces(t, f) == frame' = [frame EXCEPT ![t] = f]

LEMMA FrameReplaced ==
  ASSUME Frames, NEW t \in Threads, NEW f, Replaces(t, f), FrameOK(f)
  PROVE  /\ Frames' /\ frame'[t] = f
         /\ \A u \in Threads \ {t} : frame'[u] = frame[u]
  BY DEF Frames, Replaces, FrameOK

LEMMA IdleOK == FrameOK(Idle)
  BY CacheKeysAssumption, ResultsAssumption DEF FrameOK, Idle, CacheFrame, Counters

(* A lookup returns its hit or miss to be counted. *)
LEMMA LookupOK ==
  ASSUME Frames, Data, NEW t \in Threads, NEW f, Lookup(t, f),
         f \in CacheFrame, f.op \in {"get", "call"}, f.op = "call" => f.request \in Requests,
         f.scope = None
  PROVE  Frames'
<1>1. ASSUME Stored(f.key) PROVE cache[f.key].value \in Values
  BY <1>1 DEF Stored, Data, InMemoryTypeOK, Entry
<1>2. CASE Stored(f.key)
  <2> DEFINE g == [f EXCEPT !.pc = "count", !.counter = "hits", !.val = cache[f.key].value]
  <2>1. FrameOK(g)
    BY <1>1, <1>2, CacheKeysAssumption DEF FrameOK, CacheFrame, Counters
  <2>2. Replaces(t, g)
    BY <1>2 DEF Lookup, Replaces
  <2> QED BY <2>1, <2>2, FrameReplaced
<1>3. CASE ~Stored(f.key)
  <2> DEFINE g == [f EXCEPT !.pc = "count", !.counter = "misses"]
  <2>1. FrameOK(g)
    BY CacheKeysAssumption DEF FrameOK, CacheFrame, Counters
  <2>2. Replaces(t, g)
    BY <1>3 DEF Lookup, Replaces
  <2> QED BY <2>1, <2>2, FrameReplaced
<1> QED BY <1>2, <1>3

LEMMA EnterType ==
  ASSUME Data, Frames, NEW t \in Threads, Enter(t)
  PROVE  Data' /\ Frames'
<1> USE BoundsAssumption
<1>1. ASSUME NEW k \in ProgrammaticKeys, Get(t, k) PROVE Data' /\ Frames'
  <2>1. LET f == [Idle EXCEPT !.op = "get", !.key = k]
        IN  f \in CacheFrame /\ f.op = "get" /\ f.scope = None
    BY IdleOK, CacheKeysAssumption DEF FrameOK, CacheFrame, Idle
  <2> QED BY <1>1, <2>1, LookupOK DEF Get, Data, InMemoryTypeOK
<1>2. ASSUME NEW k \in ProgrammaticKeys, Evict(t, k) PROVE Data' /\ Frames'
  <2> DEFINE f == [Idle EXCEPT !.pc = "count", !.op = "evict", !.key = k, !.counter = "evictions"]
  <2>1. FrameOK(f)
    BY IdleOK, CacheKeysAssumption DEF FrameOK, CacheFrame, Idle, Counters
  <2>2. Frames'
    BY <1>2, <2>1, FrameReplaced DEF Evict, Replaces
  <2> QED BY <1>2, <2>2, EvictKeepsType DEF Evict, StorageEvict, Data
<1>3. ASSUME NEW k \in ProgrammaticKeys, NEW v \in Values, NEW ttl \in TTLs, Set(t, k, v, ttl)
      PROVE  Data' /\ Frames'
  BY <1>3, SetKeepsType, CacheKeysAssumption, CacheTTLsAssumption DEF Set, Data, Frames
<1>4. ASSUME NEW r \in Requests, NEW ttl \in TTLs, Call(t, r, ttl) PROVE Data' /\ Frames'
  <2> DEFINE f == [Idle EXCEPT !.op = "call", !.request = r, !.key = KeyOf[r], !.ttl = ttl]
  <2>1. /\ f \in CacheFrame /\ f.op = "call" /\ f.request \in Requests /\ f.scope = None
        /\ FrameOK([f EXCEPT !.pc = "run"])
    BY IdleOK, RequestsAssumption, CacheTTLsAssumption, CacheKeysAssumption
    DEF FrameOK, CacheFrame, Idle, Counters
  <2>2. Data' /\ (Lookup(t, f) \/ Replaces(t, [f EXCEPT !.pc = "run"]))
    BY <1>4 DEF Call, Data, InMemoryTypeOK, Replaces
  <2> HIDE DEF f
  <2> QED BY <2>1, <2>2, LookupOK, FrameReplaced
<1>5. ASSUME NEW p \in Scopes, EvictByScope(t, p) PROVE Data' /\ Frames'
  <2> DEFINE f == [Idle EXCEPT !.pc = "scope", !.op = "scope", !.scope = p, !.todo = DOMAIN cache]
  <2>1. FrameOK(f)
    BY IdleOK DEF FrameOK, CacheFrame, Idle, Counters, Data, InMemoryTypeOK
  <2> QED BY <1>5, <2>1, FrameReplaced DEF EvictByScope, Replaces, Data, InMemoryTypeOK
<1>6. CASE Clear(t)
  <2> DEFINE f == [Idle EXCEPT !.pc = "reset", !.op = "clear"]
  <2>1. FrameOK(f)
    BY IdleOK DEF FrameOK, CacheFrame, Idle, Counters
  <2>2. InMemoryTypeOK'
    BY <1>6, EvictKeepsType DEF Clear, StorageClear, Data
  <2> QED BY <1>6, <2>1, <2>2, FrameReplaced DEF Clear, Replaces, Data
<1> QED BY <1>1, <1>2, <1>3, <1>4, <1>5, <1>6 DEF Enter

LEMMA StepType ==
  ASSUME Data, Frames, NEW t \in Threads, Step(t)
  PROVE  Data' /\ Frames'
<1> DEFINE f == frame[t]
<1>0. FrameOK(f) /\ f \in CacheFrame
  BY DEF Frames
<1> USE BoundsAssumption
<1>1. CASE CountRead(t)
  <2> DEFINE g == [f EXCEPT !.pc = "increment", !.read = count[f.counter]]
  <2>1. FrameOK(g)
    BY <1>0, <1>1 DEF CountRead, At, FrameOK, CacheFrame, Data
  <2>2. Replaces(t, g)
    BY <1>1 DEF CountRead, Replaces, Frames
  <2> QED BY <1>1, <2>1, <2>2, FrameReplaced DEF CountRead, Data, InMemoryTypeOK
<1>2. CASE CountWrite(t)
  <2>1. FrameOK(AfterCount(f))
    BY <1>0, <1>2, IdleOK DEF CountWrite, At, AfterCount, FrameOK, CacheFrame
  <2>2. count' \in [Counters -> Nat]
    BY <1>0, <1>2 DEF CountWrite, Data, CacheFrame
  <2> QED BY <1>2, <2>1, <2>2, FrameReplaced DEF CountWrite, Replaces, Data, InMemoryTypeOK
<1>3. CASE FunctionReturns(t)
  <2>1. \/ Replaces(t, Idle)
        \/ Replaces(t, [f EXCEPT !.pc = "store"]) /\ f.key # None
    BY <1>3 DEF FunctionReturns, Replaces
  <2>2. f.key # None => FrameOK([f EXCEPT !.pc = "store"])
    BY <1>0, <1>3 DEF FunctionReturns, At, FrameOK, CacheFrame
  <2> QED BY <1>3, <2>1, <2>2, IdleOK, FrameReplaced DEF FunctionReturns, Data, InMemoryTypeOK
<1>9. CASE FunctionReads(t)
  <2> DEFINE v == IF f.request \in NoneRequests THEN None ELSE Result(f.request, version)
  <2>1. v \in Values
    BY <1>0, <1>9, ResultsAssumption DEF FunctionReads, At, FrameOK, Data, Results
  <2>2. Replaces(t, [f EXCEPT !.pc = "computed", !.val = v])
    BY <1>9 DEF FunctionReads, Replaces
  <2>3. FrameOK([f EXCEPT !.pc = "computed", !.val = v])
    BY <1>0, <1>9, <2>1 DEF FunctionReads, At, FrameOK, CacheFrame
  <2> HIDE DEF v
  <2> QED BY <1>9, <2>2, <2>3, FrameReplaced DEF FunctionReads, Data, InMemoryTypeOK
<1>4. CASE FunctionRaises(t) \/ ScopeRaises(t) \/ ScopeReturns(t)
  BY <1>4, IdleOK, FrameReplaced
  DEF FunctionRaises, ScopeRaises, ScopeReturns, Return, Replaces, Data, InMemoryTypeOK
<1>5. CASE Store(t)
  <2>1. Frames'
    BY <1>5, IdleOK, FrameReplaced DEF Store, Return, Replaces
  <2>2. f.key \in Keys /\ f.val \in Values /\ f.ttl \in Nat
    BY <1>0, <1>5 DEF Store, At, FrameOK, CacheFrame
  <2> QED BY <1>5, <2>1, <2>2, SetKeepsType DEF Store, Data
<1>6. CASE ScopeEvicts(t)
  <2>1. PICK k \in f.todo \ Malformed :
          /\ StorageEvict(k)
          /\ frame' = [frame EXCEPT ![t].pc = "count", ![t].counter = "evictions", ![t].key = k,
                                    ![t].todo = @ \ {k}, ![t].removed = @ + 1]
    BY <1>6 DEF ScopeEvicts
  <2> DEFINE g == [f EXCEPT !.pc = "count", !.counter = "evictions", !.key = k,
                            !.todo = @ \ {k}, !.removed = @ + 1]
  <2>2. FrameOK(g)
    <3>1. f.op = "scope" /\ f.scope \in Scopes /\ f.pc = "scope"
      BY <1>0, <1>6 DEF ScopeEvicts, At, FrameOK
    <3>2. k \in Keys /\ f.todo \ {k} \in SUBSET Keys /\ f.removed + 1 \in Nat
      BY <1>0 DEF CacheFrame
    <3>3. g \in CacheFrame
      BY <1>0, <3>2 DEF CacheFrame, Counters
    <3> QED BY <1>0, <3>1, <3>2, <3>3 DEF FrameOK
  <2>3. Replaces(t, g)
    BY <2>1 DEF Replaces, Frames
  <2> QED BY <1>6, <2>1, <2>2, <2>3, FrameReplaced, EvictKeepsType
      DEF ScopeEvicts, StorageEvict, Data
<1>7. CASE ScopePasses(t)
  <2>1. PICK k \in f.todo \ Malformed : frame' = [frame EXCEPT ![t].todo = @ \ {k}]
    BY <1>7 DEF ScopePasses
  <2> DEFINE g == [f EXCEPT !.todo = @ \ {k}]
  <2>2. FrameOK(g)
    BY <1>0, <1>7 DEF ScopePasses, At, FrameOK, CacheFrame
  <2>3. Replaces(t, g)
    BY <2>1 DEF Replaces, Frames
  <2> QED BY <1>7, <2>2, <2>3, FrameReplaced DEF ScopePasses, Data, InMemoryTypeOK
<1>8. CASE Reset(t)
  <2>1. Replaces(t, Idle) \/ \E c \in Counters : Replaces(t, [f EXCEPT !.counter = c])
    BY <1>0, <1>8 DEF Reset, Replaces, CacheFrame, Counters
  <2>2. \A c \in Counters : FrameOK([f EXCEPT !.counter = c])
    BY <1>0, <1>8 DEF Reset, At, FrameOK, CacheFrame
  <2>3. Frames'
    BY <2>1, <2>2, IdleOK, FrameReplaced
  <2> QED BY <1>8, <2>3 DEF Reset, Data, InMemoryTypeOK
<1> QED BY <1>1, <1>2, <1>3, <1>4, <1>5, <1>6, <1>7, <1>8, <1>9 DEF Step

Recorded ==
  /\ calls \in 0..MaxCalls
  /\ overlap \in BOOLEAN
  /\ outcomes \in [Counters -> Nat] /\ cleared \in [Counters -> Nat]
  /\ since \in [Threads -> [stored : SUBSET Keys, late : SUBSET Keys,
                            version : 0..MaxVersion, taken : Nat]]

HIInv == Data /\ Frames /\ Recorded

LEMMA RecordType ==
  ASSUME HIInv, NEW t \in Threads, Data', Frames', Record(t),
         calls' \in 0..MaxCalls, overlap' \in BOOLEAN
  PROVE  Recorded'
<1> USE BoundsAssumption
<1>1. Written \subseteq Keys
  BY DEF Written, Data, InMemoryTypeOK
<1>2. Late \subseteq Keys
  BY DEF Late, HIInv, Frames, CacheFrame
<1>3. outcomes' \in [Counters -> Nat]
  <2>1. frame'[t].counter \in Counters
    BY DEF Frames, CacheFrame
  <2>2. [outcomes EXCEPT ![frame'[t].counter] = @ + 1] \in [Counters -> Nat]
    BY <2>1 DEF HIInv, Recorded
  <2>3. outcomes' \in {outcomes, [outcomes EXCEPT ![frame'[t].counter] = @ + 1]}
    BY DEF Record
  <2> QED BY <2>2, <2>3 DEF HIInv, Recorded
<1>4. cleared' \in [Counters -> Nat]
  BY DEF Record, HIInv, Recorded
<1> DEFINE R == [stored : SUBSET Keys, late : SUBSET Keys, version : 0..MaxVersion, taken : Nat]
<1>5. ASSUME NEW u \in Threads PROVE since'[u] \in R
  <2>1. since[u] \in R /\ version \in 0..MaxVersion
    BY DEF HIInv, Recorded, Data
  <2>2. Nothing \in R /\ [Nothing EXCEPT !.version = version, !.late = Late] \in R
    <3>1. 0 \in 0..MaxVersion /\ 0 \in Nat /\ {} \in SUBSET Keys /\ Late \in SUBSET Keys
      BY <1>2
    <3> QED BY <2>1, <3>1 DEF Nothing
  <2> DEFINE taken == IF u = t /\ Removes(t) /\ Stored(frame'[t].key)
                      THEN since[u].taken + 1 ELSE since[u].taken
  <2>3. [since[u] EXCEPT !.stored = @ \cup Written, !.taken = taken] \in R
    <3>1. since[u].taken \in Nat /\ since[u].taken + 1 \in Nat
          /\ since[u].stored \cup Written \in SUBSET Keys
      BY <1>1, <2>1
    <3>2. taken \in Nat
      BY <3>1
    <3> HIDE DEF taken
    <3> QED BY <2>1, <3>1, <3>2
  <2> QED BY <2>2, <2>3 DEF Record
<1>6. since' \in [Threads -> R]
  BY <1>5 DEF Record
<1> QED BY <1>3, <1>4, <1>6 DEF Recorded

LEMMA HTypeStep == HIInv /\ [HNext]_hvars => HIInv'
<1> SUFFICES ASSUME HIInv, [HNext]_hvars PROVE HIInv'
  OBVIOUS
<1> USE BoundsAssumption, CallsAssumption DEF HIInv
<1>1. ASSUME NEW t \in Threads, HEnter(t) PROVE HIInv'
  <2>1. Data' /\ Frames'
    BY <1>1, EnterType DEF HEnter
  <2>2. calls' \in 0..MaxCalls /\ overlap' \in BOOLEAN
    BY <1>1 DEF HEnter, Recorded, Quiet
  <2> QED BY <1>1, <2>1, <2>2, RecordType DEF HEnter
<1>2. ASSUME NEW t \in Threads, HStep(t) PROVE HIInv'
  BY <1>2, StepType, RecordType DEF HStep, Recorded
<1>3. CASE HData
  BY <1>3 DEF HData, history, Change, Tick, Data, InMemoryTypeOK, Frames, Recorded
<1>4. CASE HDone \/ UNCHANGED hvars
  BY <1>4 DEF HDone, hvars, Data, InMemoryTypeOK, Frames, Recorded
<1> QED BY <1>1, <1>2, <1>3, <1>4 DEF HNext

LEMMA HTypeInit == HInit => HIInv
<1> SUFFICES ASSUME HInit PROVE HIInv
  OBVIOUS
<1> USE BoundsAssumption, CallsAssumption DEF HInit, Init
<1>1. Data
  BY DEF Data, InMemoryInit, InMemoryTypeOK, Counters
<1>2. Frames
  BY IdleOK DEF Frames, FrameOK
<1>3. Recorded
  <2>1. 0 \in 0..MaxVersion /\ 0 \in 0..MaxCalls /\ {} \in SUBSET Keys
    OBVIOUS
  <2>2. Nothing \in [stored : SUBSET Keys, late : SUBSET Keys, version : 0..MaxVersion, taken : Nat]
    BY <2>1 DEF Nothing
  <2> QED BY <2>1, <2>2 DEF Recorded
<1> QED BY <1>1, <1>2, <1>3 DEF HIInv

(* Every reachable state of the facade is well typed, the recorded variables *)
(* included.                                                                *)
THEOREM FacadeTypeCorrect == HSpec => []HTypeOK
<1>1. HIInv => HTypeOK
  BY TypeParts DEF HIInv, Recorded, HTypeOK
<1> QED BY <1>1, HTypeInit, HTypeStep, PTL DEF HSpec

-----------------------------------------------------------------------------
(* The counters. *)

Counting == {"count", "increment"}

(* The threads that have had an outcome and not yet counted it. *)
Pending(c) == {t \in Threads : frame[t].pc \in Counting /\ frame[t].counter = c}

(* Neither a counter nor what a thread has read of it, with all that is     *)
(* still to be counted, is more than there was.                             *)
CountOK(c) ==
  /\ count[c] + Cardinality(Pending(c)) <= outcomes[c]
  /\ \A t \in Pending(c) : frame[t].pc = "increment" =>
       frame[t].read + Cardinality(Pending(c)) <= outcomes[c]

CountIInv == HIInv /\ \A c \in Counters : CountOK(c)

(* What a step of a thread is to the counters: it has an outcome, reads the *)
(* counter, writes it, or does neither.                                     *)
Outcome(t) ==
  /\ frame[t].pc \notin Counting /\ frame'[t].pc = "count"
  /\ count' = count
  /\ outcomes' = [outcomes EXCEPT ![frame'[t].counter] = @ + 1]

Reads(t) ==
  /\ frame[t].pc = "count" /\ frame'[t].pc = "increment"
  /\ frame'[t].counter = frame[t].counter /\ frame'[t].read = count[frame[t].counter]
  /\ count' = count /\ outcomes' = outcomes

Writes(t) ==
  /\ frame[t].pc = "increment" /\ frame'[t].pc \notin Counting
  /\ count' = [count EXCEPT ![frame[t].counter] = frame[t].read + 1]
  /\ outcomes' = outcomes

Apart(t) ==
  /\ frame[t].pc \notin Counting /\ frame'[t].pc \notin Counting
  /\ \A c \in Counters : count'[c] \in {0, count[c]}
  /\ outcomes' = outcomes

(* The registers the step of a lookup fills. *)
Registers == {"pc", "counter", "val"}

OthersStay(t) == \A u \in Threads \ {t} : frame'[u] = frame[u]

LEMMA IdleFields == Idle.pc = "idle" /\ Idle.removed = 0 /\ Idle.op = "none" /\ Idle.key = None
  BY DEF Idle

LEMMA OnlyOneMoves ==
  ASSUME Frames, NEW t \in Threads, Enter(t) \/ Step(t)
  PROVE  OthersStay(t)
<1>1. CASE Enter(t)
  BY <1>1 DEF Enter, Get, Evict, Set, Call, EvictByScope, Clear, Lookup, OthersStay, Frames
<1>2. CASE Step(t)
  BY <1>2 DEF Step, CountRead, CountWrite, FunctionReads, FunctionReturns, FunctionRaises, Store, ScopeEvicts,
       ScopePasses, ScopeRaises, ScopeReturns, Reset, Return, OthersStay, Frames
<1> QED BY <1>1, <1>2

LEMMA EnterLabels ==
  ASSUME HIInv, NEW t \in Threads, Enter(t)
  PROVE  /\ frame'[t].pc \in {"idle", "count", "run", "scope", "reset"}
         /\ frame'[t].pc = "reset" => frame'[t].counter = "hits"
<1> USE DEF HIInv, Frames, At, Idle
<1>1. ASSUME NEW k, Get(t, k) \/ Evict(t, k) PROVE frame'[t].pc = "count"
  <2>1. CASE Get(t, k)
    <3> DEFINE f == [Idle EXCEPT !.op = "get", !.key = k]
    <3>1. Lookup(t, f) /\ "pc" \in DOMAIN f /\ "counter" \in DOMAIN f
      BY <2>1 DEF Get
    <3> HIDE DEF f
    <3> QED BY <3>1 DEF Lookup
  <2>2. CASE Evict(t, k)
    BY <2>2 DEF Evict
  <2> QED BY <1>1, <2>1, <2>2
<1>2. ASSUME NEW k, NEW v, NEW ttl, Set(t, k, v, ttl) PROVE frame'[t].pc = "idle"
  BY <1>2 DEF Set
<1>3. ASSUME NEW r, NEW ttl, Call(t, r, ttl) PROVE frame'[t].pc \in {"count", "run"}
  <2> DEFINE f == [Idle EXCEPT !.op = "call", !.request = r, !.key = KeyOf[r], !.ttl = ttl]
  <2>1. Lookup(t, f) \/ frame' = [frame EXCEPT ![t] = [f EXCEPT !.pc = "run"]]
    BY <1>3 DEF Call
  <2>2. Registers \subseteq DOMAIN f
    BY DEF Registers
  <2> HIDE DEF f
  <2> QED BY <2>1, <2>2 DEF Lookup, Registers
<1>4. ASSUME NEW scope, EvictByScope(t, scope) PROVE frame'[t].pc = "scope"
  BY <1>4 DEF EvictByScope
<1>5. Clear(t) => frame'[t].pc = "reset" /\ frame'[t].counter = "hits"
  BY DEF Clear
<1> QED BY <1>1, <1>2, <1>3, <1>4, <1>5 DEF Enter

LEMMA EnterCounts ==
  ASSUME HIInv, NEW t \in Threads, Enter(t), Record(t)
  PROVE  Outcome(t) \/ Apart(t)
<1> USE DEF HIInv, Frames, At, Counting, Idle
<1>1. count' = count /\ frame[t].pc = "idle"
  BY DEF Enter, Get, Evict, Set, Call, EvictByScope, Clear
<1>2. frame'[t].pc \in {"idle", "count", "run", "scope", "reset"}
  BY EnterLabels
<1>3. CASE frame'[t].pc = "count"
  BY <1>1, <1>3 DEF Record, Looks, Outcome
<1>4. CASE frame'[t].pc # "count"
  BY <1>1, <1>2, <1>4 DEF Record, Looks, Removes, Apart
<1> QED BY <1>3, <1>4

LEMMA StepCounts ==
  ASSUME HIInv, NEW t \in Threads, Step(t), Record(t)
  PROVE  Outcome(t) \/ Reads(t) \/ Writes(t) \/ Apart(t)
<1> DEFINE f == frame[t]
<1>0. /\ f \in CacheFrame /\ f.removed \in Nat
      /\ frame = [u \in Threads |-> frame[u]]
  BY DEF HIInv, Frames, CacheFrame
<1> USE IdleFields DEF At, Counting
<1>1. CASE CountRead(t)
  <2>1. frame'[t] = [f EXCEPT !.pc = "increment", !.read = count[f.counter]]
    BY <1>0, <1>1 DEF CountRead
  <2>2. f.pc = "count" /\ count' = count
    BY <1>1 DEF CountRead
  <2> QED BY <1>0, <2>1, <2>2 DEF Reads, Record, Looks, Removes, CacheFrame
<1>2. CASE CountWrite(t)
  <2>1. f.pc = "increment" /\ count' = [count EXCEPT ![f.counter] = f.read + 1]
        /\ frame'[t] = AfterCount(f)
    BY <1>0, <1>2 DEF CountWrite
  <2>2. AfterCount(f).pc \in {"run", "scope", "idle"}
    BY <1>0 DEF AfterCount, CacheFrame
  <2> QED BY <2>1, <2>2 DEF Writes, Record, Looks, Removes
<1>3. CASE ScopeEvicts(t)
  <2>1. PICK k \in f.todo \ Malformed :
          frame' = [frame EXCEPT ![t].pc = "count", ![t].counter = "evictions", ![t].key = k,
                                 ![t].todo = @ \ {k}, ![t].removed = @ + 1]
    BY <1>3 DEF ScopeEvicts
  <2>2. frame'[t].pc = "count" /\ frame'[t].removed = f.removed + 1
    BY <1>0, <2>1 DEF CacheFrame
  <2>3. f.pc = "scope" /\ count' = count
    BY <1>3 DEF ScopeEvicts
  <2>4. Removes(t)
    BY <1>0, <2>2, <2>3 DEF Removes
  <2> QED BY <2>2, <2>3, <2>4 DEF Outcome, Record
<1>4. CASE ScopePasses(t)
  <2>1. PICK k \in f.todo \ Malformed : frame' = [frame EXCEPT ![t].todo = @ \ {k}]
    BY <1>4 DEF ScopePasses
  <2>2. frame'[t].pc = "scope" /\ frame'[t].removed = f.removed /\ f.pc = "scope" /\ count' = count
    BY <1>0, <1>4, <2>1 DEF CacheFrame, ScopePasses
  <2>3. ~Looks(t) /\ ~Removes(t)
    BY <1>0, <2>2 DEF Looks, Removes
  <2> QED BY <2>2, <2>3 DEF Apart, Record
<1>5. CASE ScopeRaises(t) \/ ScopeReturns(t) \/ FunctionRaises(t) \/ Store(t)
  <2>1. frame'[t] = Idle /\ f.pc \in {"scope", "run", "computed", "store"} /\ count' = count
    BY <1>0, <1>5 DEF ScopeRaises, ScopeReturns, FunctionRaises, Store, Return
  <2>2. ~Looks(t) /\ ~Removes(t)
    BY <1>0, <2>1 DEF Looks, Removes
  <2> QED BY <2>1, <2>2 DEF Apart, Record
<1>6. CASE FunctionReturns(t)
  <2>1. frame'[t].pc \in {"idle", "store"} /\ f.pc = "computed" /\ count' = count
    BY <1>0, <1>6 DEF FunctionReturns, CacheFrame
  <2> QED BY <2>1 DEF Apart, Record, Looks, Removes
<1>8. CASE FunctionReads(t)
  <2>1. frame'[t].pc = "computed" /\ f.pc = "run" /\ count' = count
    BY <1>0, <1>8 DEF FunctionReads, CacheFrame
  <2> QED BY <2>1 DEF Apart, Record, Looks, Removes
<1>7. CASE Reset(t)
  <2>1. frame'[t].pc \in {"idle", "reset"} /\ f.pc = "reset"
    BY <1>0, <1>7 DEF Reset, CacheFrame, Counters
  <2>2. \A c \in Counters : count'[c] \in {0, count[c]}
    BY <1>7 DEF Reset, HIInv, Data
  <2> QED BY <2>1, <2>2 DEF Apart, Record, Looks, Removes
<1> QED BY <1>1, <1>2, <1>3, <1>4, <1>5, <1>6, <1>7, <1>8 DEF Step

LEMMA PendingFinite ==
  /\ \A c : IsFiniteSet(Pending(c)) /\ Cardinality(Pending(c)) \in Nat
  /\ \A c : IsFiniteSet(Pending(c)') /\ Cardinality(Pending(c)') \in Nat
<1>1. \A c : Pending(c) \subseteq Threads /\ Pending(c)' \subseteq Threads
  BY DEF Pending
<1> QED BY <1>1, BoundsAssumption, FS_Subset, FS_CardinalityType

LEMMA CountStep ==
  ASSUME CountIInv, HIInv', NEW t \in Threads, OthersStay(t),
         Outcome(t) \/ Reads(t) \/ Writes(t) \/ Apart(t)
  PROVE  CountIInv'
<1> SUFFICES ASSUME NEW c \in Counters PROVE CountOK(c)'
  BY DEF CountIInv
<1> DEFINE n == Cardinality(Pending(c))
           m == Cardinality(Pending(c)')
<1>1. /\ IsFiniteSet(Pending(c)) /\ n \in Nat /\ m \in Nat
      /\ count[c] \in Nat /\ count'[c] \in Nat /\ outcomes[c] \in Nat /\ outcomes'[c] \in Nat
      /\ outcomes \in [Counters -> Nat] /\ count \in [Counters -> Nat]
      /\ \A u \in Threads : frame[u].read \in Nat /\ frame'[u].read \in Nat
                            /\ frame[u].counter \in Counters /\ frame'[u].counter \in Counters
  BY PendingFinite DEF CountIInv, HIInv, Data, Recorded, Frames, CacheFrame
<1>2. CountOK(c)
  BY DEF CountIInv
<1>3. \A u \in Threads \ {t} : /\ frame'[u] = frame[u]
                               /\ u \in Pending(c)' <=> u \in Pending(c)
  BY DEF OthersStay, Pending
<1>4. Pending(c) \subseteq Threads /\ Pending(c)' \subseteq Threads
  BY DEF Pending
<1>5. CASE Outcome(t)
  <2>1. t \notin Pending(c) /\ frame'[t].pc # "increment" /\ count'[c] = count[c]
    BY <1>5 DEF Outcome, Pending, Counting
  <2>2. CASE frame'[t].counter = c
    <3>1. Pending(c)' = Pending(c) \cup {t}
      BY <1>3, <1>4, <1>5, <2>2 DEF Outcome, Pending, Counting
    <3>2. m = n + 1 /\ outcomes'[c] = outcomes[c] + 1
      <4>1. Cardinality(Pending(c)') = n + 1
        BY <1>1, <2>1, <3>1, FS_AddElement
      <4>2. outcomes'[c] = outcomes[c] + 1
        BY <1>1, <1>5, <2>2 DEF Outcome
      <4> QED BY <4>1, <4>2
    <3>3. ASSUME NEW u \in Pending(c)', frame'[u].pc = "increment"
          PROVE  frame'[u].read + m <= outcomes'[c]
      <4>1. u \in Pending(c) /\ u \in Threads /\ frame'[u] = frame[u]
        BY <1>3, <1>4, <2>1, <3>3
      <4>2. frame[u].read + n <= outcomes[c] /\ frame[u].read \in Nat
        BY <1>1, <1>2, <3>3, <4>1 DEF CountOK
      <4> QED BY <1>1, <3>2, <4>1, <4>2
    <3>4. count'[c] + m <= outcomes'[c]
      BY <1>1, <1>2, <2>1, <3>2 DEF CountOK
    <3> QED BY <3>3, <3>4 DEF CountOK
  <2>3. CASE frame'[t].counter # c
    <3>1. Pending(c)' = Pending(c) /\ outcomes'[c] = outcomes[c]
      BY <1>1, <1>3, <1>4, <1>5, <2>1, <2>3 DEF Outcome, Pending
    <3> QED BY <1>2, <1>3, <1>4, <2>1, <3>1 DEF CountOK
  <2> QED BY <2>2, <2>3
<1>6. CASE Reads(t)
  <2>1. Pending(c)' = Pending(c) /\ outcomes' = outcomes /\ count' = count
    BY <1>3, <1>4, <1>6 DEF Reads, Pending, Counting
  <2>2. t \in Pending(c) => frame'[t].read = count[c]
    BY <1>6 DEF Reads, Pending
  <2> QED BY <1>2, <1>3, <1>4, <2>1, <2>2 DEF CountOK
<1>7. CASE Writes(t)
  <2>1. t \notin Pending(c)' /\ outcomes' = outcomes
    BY <1>7 DEF Writes, Pending
  <2>2. CASE frame[t].counter = c
    <3>1. t \in Pending(c) /\ Pending(c)' = Pending(c) \ {t}
      BY <1>3, <1>4, <1>7, <2>1, <2>2 DEF Writes, Pending, Counting
    <3>2. m = n - 1
      BY <1>1, <3>1, FS_RemoveElement
    <3>3. count'[c] = frame[t].read + 1 /\ frame[t].read + n <= outcomes[c]
      BY <1>1, <1>2, <1>7, <2>2, <3>1 DEF Writes, CountOK
    <3>4. count'[c] + m <= outcomes'[c]
      BY <1>1, <2>1, <3>2, <3>3
    <3>5. ASSUME NEW u \in Pending(c)', frame'[u].pc = "increment"
          PROVE  frame'[u].read + m <= outcomes'[c]
      <4>1. u \in Pending(c) /\ u \in Threads /\ frame'[u] = frame[u]
        BY <1>3, <1>4, <2>1, <3>1
      <4>2. frame[u].read + n <= outcomes[c] /\ frame[u].read \in Nat
        BY <1>1, <1>2, <3>5, <4>1 DEF CountOK
      <4> QED BY <1>1, <2>1, <3>2, <4>1, <4>2
    <3> QED BY <3>4, <3>5 DEF CountOK
  <2>3. CASE frame[t].counter # c
    <3>1. Pending(c)' = Pending(c) /\ count'[c] = count[c]
      BY <1>1, <1>3, <1>4, <1>7, <2>1, <2>3 DEF Writes, Pending
    <3> QED BY <1>2, <1>3, <1>4, <2>1, <3>1 DEF CountOK
  <2> QED BY <2>2, <2>3
<1>8. CASE Apart(t)
  <2>1. Pending(c)' = Pending(c) /\ t \notin Pending(c) /\ outcomes' = outcomes
    BY <1>3, <1>4, <1>8 DEF Apart, Pending
  <2>2. count'[c] <= count[c]
    BY <1>1, <1>8 DEF Apart
  <2>3. count'[c] + m <= outcomes'[c]
    BY <1>1, <1>2, <2>1, <2>2 DEF CountOK
  <2> QED BY <1>2, <1>3, <1>4, <2>1, <2>3 DEF CountOK
<1> QED BY <1>5, <1>6, <1>7, <1>8

(* Whatever increments are lost, and whenever a clear comes between the     *)
(* read and the write of one (cache.py:72, :75, :98), stats() never reports *)
(* a hit, a miss or an eviction that there was not.                         *)
THEOREM NoCounterInflated == HSpec => []CountersNotInflated
<1>1. HInit => CountIInv
  <2> SUFFICES ASSUME HInit PROVE CountIInv
    OBVIOUS
  <2>1. \A c \in Counters : Pending(c) = {} /\ count[c] = 0 /\ outcomes[c] = 0
    BY IdleFields DEF HInit, Init, Pending, Counting
  <2> QED BY <2>1, HTypeInit, FS_EmptySet DEF CountIInv, CountOK
<1>2. CountIInv /\ [HNext]_hvars => CountIInv'
  <2> SUFFICES ASSUME CountIInv, [HNext]_hvars PROVE CountIInv'
    OBVIOUS
  <2>1. HIInv /\ HIInv' /\ Frames
    BY HTypeStep DEF CountIInv, HIInv
  <2>2. ASSUME NEW t \in Threads, HEnter(t) \/ HStep(t) PROVE CountIInv'
    <3>1. (Enter(t) \/ Step(t)) /\ Record(t)
      BY <2>2 DEF HEnter, HStep
    <3> QED BY <2>1, <3>1, OnlyOneMoves, EnterCounts, StepCounts, CountStep
  <2>3. CASE HData \/ HDone \/ UNCHANGED hvars
    <3>1. UNCHANGED <<count, outcomes, frame>>
      BY <2>3 DEF HData, HDone, hvars, history, Change, Tick
    <3> QED BY <2>1, <3>1 DEF CountIInv, CountOK, Pending
  <2> QED BY <2>2, <2>3 DEF HNext
<1>3. CountIInv => CountersNotInflated
  <2> SUFFICES ASSUME CountIInv, NEW c \in Counters PROVE count[c] <= outcomes[c]
    BY DEF CountersNotInflated
  <2>1. count[c] \in Nat /\ outcomes[c] \in Nat /\ Cardinality(Pending(c)) \in Nat
    BY PendingFinite DEF CountIInv, HIInv, Data, Recorded
  <2> QED BY <2>1 DEF CountIInv, CountOK
<1> QED BY <1>1, <1>2, <1>3, PTL DEF HSpec

-----------------------------------------------------------------------------
(* Eviction by scope. *)

(* A value of key k that t's evict_by_scope may leave behind. *)
Tolerated(v, k, t) ==
  v # None => v.version >= since[t].version \/ k \in since[t].late

(* A call whose function has read the data of a result not stored yet. *)
Holds(f) == f.pc \in {"computed", "store"} /\ f.key # None

(* t's evict_by_scope: every result that is held may be left behind, and so *)
(* may all that is stored, the keys it has still to visit excepted.         *)
ScopeOK(t) ==
  frame[t].op = "scope" =>
    /\ since[t].version <= version
    /\ \A u \in Threads : Holds(frame[u]) => Tolerated(frame[u].val, frame[u].key, t)
    /\ \A k \in DOMAIN cache \ frame[t].todo : ScopeOf[k] \in Covers[frame[t].scope] =>
         /\ k \in since[t].stored
         /\ k \notin ProgrammaticKeys => Tolerated(cache[k].value, k, t)

ScopeIInv == HIInv /\ \A t \in Threads : ScopeOK(t)

(* An entry stays, or it is written: by hand, or by a call that holds it.   *)
LEMMA EntryWritten ==
  ASSUME HIInv, NEW t \in Threads, Enter(t) \/ Step(t), NEW k \in DOMAIN cache'
  PROVE  \/ k \in DOMAIN cache /\ cache'[k] = cache[k]
         \/ /\ k \in Written
            /\ \/ k \in ProgrammaticKeys
               \/ frame[t].pc = "store" /\ frame[t].key = k /\ cache'[k].value = frame[t].val
<1>1. ASSUME NEW x, NEW v, NEW ttl, StorageSet(x, v, ttl),
             \/ x \in ProgrammaticKeys
             \/ frame[t].pc = "store" /\ frame[t].key = x /\ frame[t].val = v
      PROVE  \/ k \in DOMAIN cache /\ cache'[k] = cache[k]
             \/ /\ k \in Written
                /\ \/ k \in ProgrammaticKeys
                   \/ frame[t].pc = "store" /\ frame[t].key = k /\ cache'[k].value = frame[t].val
  BY <1>1 DEF StorageSet, Written, Stored
<1>2. ASSUME NEW S, cache' = Restrict(cache, S), S \subseteq DOMAIN cache
      PROVE  k \in DOMAIN cache /\ cache'[k] = cache[k]
  BY <1>2 DEF Restrict
<1>3. CASE UNCHANGED cache
  BY <1>3
<1>4. CASE Enter(t)
  <2>1. ASSUME NEW x \in ProgrammaticKeys, NEW v, NEW ttl, Set(t, x, v, ttl)
        PROVE  StorageSet(x, v, ttl)
    BY <2>1 DEF Set
  <2>2. ASSUME NEW x, Evict(t, x) PROVE StorageEvict(x)
    BY <2>2 DEF Evict
  <2>3. Clear(t) => StorageClear
    BY DEF Clear
  <2>4. \/ \E x \in ProgrammaticKeys, v \in Values, ttl \in TTLs : StorageSet(x, v, ttl)
        \/ \E S \in SUBSET DOMAIN cache : cache' = Restrict(cache, S)
        \/ UNCHANGED cache
    <3>1. ASSUME NEW x, StorageEvict(x) \/ StorageClear
          PROVE  \E S \in SUBSET DOMAIN cache : cache' = Restrict(cache, S)
      BY <3>1 DEF StorageEvict, StorageClear
    <3> QED BY <1>4, <2>1, <2>2, <2>3, <3>1 DEF Enter, Get, Call, EvictByScope
  <2>5. CASE \E x \in ProgrammaticKeys, v \in Values, ttl \in TTLs : StorageSet(x, v, ttl)
    BY <1>1, <2>5
  <2>6. CASE \E S \in SUBSET DOMAIN cache : cache' = Restrict(cache, S)
    BY <1>2, <2>6
  <2> QED BY <1>3, <2>4, <2>5, <2>6
<1>5. CASE Store(t)
  BY <1>1, <1>5 DEF Store, At
<1>6. CASE ScopeEvicts(t)
  <2>1. PICK x : StorageEvict(x)
    BY <1>6 DEF ScopeEvicts
  <2> QED BY <1>2, <2>1 DEF StorageEvict
<1>7. CASE Step(t) /\ ~Store(t) /\ ~ScopeEvicts(t)
  BY <1>3, <1>7 DEF Step, CountRead, CountWrite, FunctionReads, FunctionReturns, FunctionRaises,
       ScopePasses, ScopeRaises, ScopeReturns, Reset
<1> QED BY <1>4, <1>5, <1>6, <1>7

(* A call holds a result from the moment its function reads the data on.    *)
LEMMA ResultHeld ==
  ASSUME HIInv, NEW t \in Threads, Enter(t) \/ Step(t), Holds(frame'[t])
  PROVE  \/ Holds(frame[t]) /\ frame'[t].val = frame[t].val /\ frame'[t].key = frame[t].key
         \/ frame'[t].val = None \/ frame'[t].val.version = version
<1> DEFINE f == frame[t]
<1>0. f \in CacheFrame /\ frame = [u \in Threads |-> frame[u]]
  BY DEF HIInv, Frames
<1>1. CASE FunctionReads(t)
  <2> DEFINE v == IF f.request \in NoneRequests THEN None ELSE Result(f.request, version)
  <2>1. frame' = [frame EXCEPT ![t] = [f EXCEPT !.pc = "computed", !.val = v]]
    BY <1>1 DEF FunctionReads
  <2>2. v = None \/ v.version = version
    BY DEF Result
  <2> HIDE DEF v
  <2>3. frame'[t].val = v
    BY <1>0, <2>1 DEF CacheFrame
  <2> QED BY <2>2, <2>3
<1>2. CASE Enter(t)
  <2>1. CASE frame'[t] = f
    BY <2>1
  <2> QED BY <1>2, EnterLabels DEF Holds
<1>4. CASE FunctionReturns(t)
  <2>1. frame'[t] = Idle \/ frame'[t] = [f EXCEPT !.pc = "store"]
    BY <1>0, <1>4 DEF FunctionReturns
  <2>2. f.pc = "computed"
    BY <1>4 DEF FunctionReturns, At
  <2> QED BY <1>0, <2>1, <2>2, IdleFields DEF CacheFrame, Holds
<1>3. CASE Step(t) /\ ~FunctionReads(t) /\ ~FunctionReturns(t)
  <2> USE DEF Holds
  <2>1. CASE CountWrite(t)
    <3>1. frame'[t] = AfterCount(f)
      BY <1>0, <2>1 DEF CountWrite
    <3>2. AfterCount(f).pc \in {"run", "scope", "idle"}
      BY <1>0, IdleFields DEF AfterCount, CacheFrame
    <3> QED BY <3>1, <3>2
  <2>2. CASE CountRead(t)
    <3>1. frame'[t].pc = "increment"
      BY <1>0, <2>2 DEF CountRead, CacheFrame
    <3> QED BY <3>1
  <2>3. CASE FunctionRaises(t) \/ Store(t) \/ ScopeRaises(t) \/ ScopeReturns(t)
    BY <1>0, <2>3, IdleFields DEF FunctionRaises, Store, ScopeRaises, ScopeReturns, Return
  <2>4. CASE ScopeEvicts(t)
    BY <1>0, <2>4 DEF ScopeEvicts, CacheFrame
  <2>5. CASE ScopePasses(t)
    BY <1>0, <2>5 DEF ScopePasses, CacheFrame, At
  <2>6. CASE Reset(t)
    BY <1>0, <2>6, IdleFields DEF Reset, CacheFrame, Counters, At
  <2> QED BY <1>3, <2>1, <2>2, <2>3, <2>4, <2>5, <2>6 DEF Step
<1> QED BY <1>1, <1>2, <1>3, <1>4

(* evict_by_scope begins with a copy of all the keys, ... *)
LEMMA ScopeBegins ==
  ASSUME HIInv, NEW t \in Threads, Enter(t)
  PROVE  /\ frame[t].pc = "idle"
         /\ frame'[t].op = "scope" =>
              /\ frame'[t].pc = "scope" /\ frame'[t].removed = 0
              /\ frame'[t].todo = DOMAIN cache' /\ cache' = cache
<1>1. frame = [u \in Threads |-> frame[u]] /\ frame[t].pc = "idle" /\ frame[t].op = "none"
  BY DEF Enter, Get, Evict, Set, Call, EvictByScope, Clear, At, HIInv, Frames, FrameOK
<1>2. ASSUME NEW k, Get(t, k) \/ Evict(t, k) PROVE frame'[t].op # "scope"
  <2>1. CASE Get(t, k)
    BY <1>1, <2>1 DEF Get, Lookup, Idle
  <2>2. CASE Evict(t, k)
    BY <1>1, <2>2 DEF Evict, Idle
  <2> QED BY <1>2, <2>1, <2>2
<1>3. ASSUME NEW k, NEW v, NEW ttl, Set(t, k, v, ttl) PROVE frame'[t].op # "scope"
  BY <1>1, <1>3 DEF Set
<1>4. ASSUME NEW r, NEW ttl, Call(t, r, ttl) PROVE frame'[t].op # "scope"
  <2> DEFINE f == [Idle EXCEPT !.op = "call", !.request = r, !.key = KeyOf[r], !.ttl = ttl]
  <2>1. Lookup(t, f) \/ frame' = [frame EXCEPT ![t] = [f EXCEPT !.pc = "run"]]
    BY <1>4 DEF Call
  <2>2. f.op = "call" /\ {"op", "pc", "counter", "val"} \subseteq DOMAIN f
    BY DEF Idle
  <2> HIDE DEF f
  <2> QED BY <1>1, <2>1, <2>2 DEF Lookup
<1>5. ASSUME NEW p, EvictByScope(t, p)
      PROVE  /\ frame'[t].pc = "scope" /\ frame'[t].removed = 0
             /\ frame'[t].todo = DOMAIN cache' /\ cache' = cache
  BY <1>1, <1>5 DEF EvictByScope, Idle
<1>6. CASE Clear(t)
  BY <1>1, <1>6 DEF Clear, Idle
<1> QED BY <1>1, <1>2, <1>3, <1>4, <1>5, <1>6 DEF Enter

(* ... and visits each key once: it evicts it, or it is not of the scope.   *)
LEMMA ScopeVisits ==
  ASSUME HIInv, NEW t \in Threads, Step(t), frame'[t].op = "scope"
  PROVE  /\ frame[t].op = "scope" /\ frame[t].pc # "idle" /\ frame'[t].scope = frame[t].scope
         /\ \A k \in DOMAIN cache' \ frame'[t].todo :
              k \notin frame[t].todo \/ ScopeOf[k] \notin Covers[frame[t].scope]
<1> DEFINE f == frame[t]
<1>0. f \in CacheFrame /\ FrameOK(f) /\ frame = [u \in Threads |-> frame[u]] /\ f.pc # "idle"
  BY DEF HIInv, Frames, Step, CountRead, CountWrite, FunctionReads, FunctionReturns, FunctionRaises, Store,
     ScopeEvicts, ScopePasses, ScopeRaises, ScopeReturns, Reset, At
<1>1. CASE CountRead(t)
  <2>1. frame'[t] = [f EXCEPT !.pc = "increment", !.read = count[f.counter]]
    BY <1>0, <1>1 DEF CountRead
  <2> QED BY <1>0, <2>1 DEF CacheFrame
<1>2. CASE CountWrite(t)
  <2>1. frame'[t] = AfterCount(f)
    BY <1>0, <1>2 DEF CountWrite
  <2> QED BY <1>0, <2>1, IdleFields DEF AfterCount, CacheFrame
<1>3. CASE ScopeEvicts(t)
  <2>1. PICK k \in f.todo \ Malformed :
          /\ StorageEvict(k)
          /\ frame' = [frame EXCEPT ![t].pc = "count", ![t].counter = "evictions", ![t].key = k,
                                    ![t].todo = @ \ {k}, ![t].removed = @ + 1]
    BY <1>3 DEF ScopeEvicts
  <2>2. frame'[t].op = f.op /\ frame'[t].scope = f.scope /\ frame'[t].todo = f.todo \ {k}
    BY <1>0, <2>1 DEF CacheFrame
  <2>3. k \notin DOMAIN cache'
    BY <2>1 DEF StorageEvict, Restrict
  <2> QED BY <1>0, <2>2, <2>3
<1>4. CASE ScopePasses(t)
  <2>1. PICK k \in f.todo \ Malformed :
          ~InScope(f, k) /\ frame' = [frame EXCEPT ![t].todo = @ \ {k}]
    BY <1>4 DEF ScopePasses
  <2>2. frame'[t].op = f.op /\ frame'[t].scope = f.scope /\ frame'[t].todo = f.todo \ {k}
    BY <1>0, <2>1 DEF CacheFrame
  <2> QED BY <1>0, <2>1, <2>2 DEF InScope
<1>5. CASE FunctionRaises(t) \/ Store(t) \/ ScopeRaises(t) \/ ScopeReturns(t)
  BY <1>0, <1>5, IdleFields DEF FunctionRaises, Store, ScopeRaises, ScopeReturns, Return
<1>6. CASE FunctionReturns(t)
  <2>1. f.op = "call" /\ frame'[t].op \in {f.op, "none"}
    BY <1>0, <1>6, IdleFields DEF FunctionReturns, CacheFrame, FrameOK, At
  <2> QED BY <2>1
<1>8. CASE FunctionReads(t)
  <2>1. f.op = "call" /\ frame'[t].op = f.op
    BY <1>0, <1>8 DEF FunctionReads, CacheFrame, FrameOK, At
  <2> QED BY <2>1
<1>7. CASE Reset(t)
  <2>1. f.op = "clear" /\ frame'[t].op \in {f.op, "none"}
    BY <1>0, <1>7, IdleFields DEF Reset, CacheFrame, Counters, FrameOK, At
  <2> QED BY <2>1
<1> QED BY <1>1, <1>2, <1>3, <1>4, <1>5, <1>6, <1>7, <1>8 DEF Step

LEMMA ScopeStep ==
  ASSUME ScopeIInv, HIInv', NEW x \in Threads, Enter(x) \/ Step(x), Record(x)
  PROVE  ScopeIInv'
<1> SUFFICES ASSUME NEW t \in Threads, frame'[t].op = "scope" PROVE ScopeOK(t)'
  BY DEF ScopeIInv, ScopeOK
<1>1. HIInv /\ Frames /\ OthersStay(x) /\ version' = version /\ version \in Nat
  <2>1. HIInv /\ Frames /\ version \in Nat
    BY BoundsAssumption DEF ScopeIInv, HIInv, Data
  <2>2. Enter(x) => version' = version
    BY DEF Enter, Get, Evict, Set, Call, EvictByScope, Clear
  <2>3. Step(x) => version' = version
    BY DEF Step, CountRead, CountWrite, FunctionReads, FunctionReturns, FunctionRaises, Store, ScopeEvicts,
         ScopePasses, ScopeRaises, ScopeReturns, Reset
  <2> QED BY <2>1, <2>2, <2>3, OnlyOneMoves
<1>2. CASE t = x /\ Enter(x)
  <2>1. frame[t].pc = "idle" /\ frame'[t].pc = "scope" /\ frame'[t].todo = DOMAIN cache'
    BY <1>1, <1>2, ScopeBegins
  <2>2. since'[t] = [Nothing EXCEPT !.version = version, !.late = Late]
    BY <1>2, <2>1 DEF Record, Lists, At
  <2>3. since'[t].version = version /\ since'[t].late = Late
    BY <2>2 DEF Nothing
  <2>4. ASSUME NEW u \in Threads, Holds(frame'[u]) PROVE frame'[u].key \in Late
    BY <1>1, <1>2, <2>1, <2>4 DEF OthersStay, Late, At, Holds
  <2> QED BY <1>1, <2>1, <2>3, <2>4 DEF ScopeOK, Tolerated
<1>3. CASE ~(t = x /\ Enter(x))
  <2>1. /\ frame[t].op = "scope" /\ frame'[t].scope = frame[t].scope
        /\ frame[t].pc # "idle"
        /\ \A k \in DOMAIN cache' \ frame'[t].todo :
             k \notin frame[t].todo \/ ScopeOf[k] \notin Covers[frame[t].scope]
    BY <1>1, <1>3, ScopeVisits DEF OthersStay, Frames, FrameOK
  <2>2. /\ since'[t].version = since[t].version /\ since'[t].late = since[t].late
        /\ since'[t].stored = since[t].stored \cup Written
    <3>1. since[t] \in [stored : SUBSET Keys, late : SUBSET Keys,
                        version : 0..MaxVersion, taken : Nat]
      BY <1>1 DEF HIInv, Recorded
    <3> DEFINE n == IF t = x /\ Removes(x) /\ Stored(frame'[x].key)
                    THEN since[t].taken + 1 ELSE since[t].taken
    <3>2. since'[t] = [since[t] EXCEPT !.stored = @ \cup Written, !.taken = n]
      BY <2>1 DEF Record, Lists, At
    <3> HIDE DEF n
    <3> QED BY <3>1, <3>2
  <2>3. /\ since[t].version <= version
        /\ \A u \in Threads : Holds(frame[u]) => Tolerated(frame[u].val, frame[u].key, t)
        /\ \A k \in DOMAIN cache \ frame[t].todo : ScopeOf[k] \in Covers[frame[t].scope] =>
             /\ k \in since[t].stored
             /\ k \notin ProgrammaticKeys => Tolerated(cache[k].value, k, t)
    BY <2>1 DEF ScopeIInv, ScopeOK
  <2>4. \A v, k : Tolerated(v, k, t)' <=> Tolerated(v, k, t)
    BY <2>2 DEF Tolerated
  <2>5. since[t].version \in Nat
    BY <1>1, BoundsAssumption DEF HIInv, Recorded
  <2>6. ASSUME NEW u \in Threads, Holds(frame'[u])
        PROVE  Tolerated(frame'[u].val, frame'[u].key, t)
    <3>1. CASE Holds(frame[u]) /\ frame'[u].val = frame[u].val /\ frame'[u].key = frame[u].key
      BY <2>3, <3>1
    <3>2. CASE frame'[u].val = None \/ frame'[u].val.version = version
      BY <1>1, <2>3, <2>5, <3>2 DEF Tolerated
    <3> QED BY <1>1, <2>6, <3>1, <3>2, ResultHeld DEF OthersStay
  <2>7. ASSUME NEW k \in DOMAIN cache' \ frame'[t].todo,
               ScopeOf[k] \in Covers[frame'[t].scope]
        PROVE  /\ k \in since'[t].stored
               /\ k \notin ProgrammaticKeys => Tolerated(cache'[k].value, k, t)
    <3>1. CASE k \in DOMAIN cache /\ cache'[k] = cache[k]
      BY <2>1, <2>2, <2>3, <2>7, <3>1
    <3>2. CASE /\ k \in Written
               /\ \/ k \in ProgrammaticKeys
                  \/ frame[x].pc = "store" /\ frame[x].key = k /\ cache'[k].value = frame[x].val
      <4>1. k \in Keys
        BY DEF HIInv, Data, InMemoryTypeOK
      <4> QED BY <2>2, <2>3, <3>2, <4>1, NoneAssumption DEF Holds
    <3> QED BY <1>1, <3>1, <3>2, EntryWritten
  <2> QED BY <1>1, <2>2, <2>3, <2>4, <2>6, <2>7 DEF ScopeOK
<1> QED BY <1>2, <1>3

(* Whatever runs at the same time, evict_by_scope (cache.py:408) leaves in  *)
(* its scope only what was stored while it ran, and nothing computed from   *)
(* older data than its own but by calls whose function had already read it. *)
THEOREM ScopeEvictionLeavesNoneBehind == HSpec => ScopeEvictionComplete
<1>1. HInit => ScopeIInv
  <2> SUFFICES ASSUME HInit PROVE ScopeIInv
    OBVIOUS
  <2>1. \A t \in Threads : frame[t].op = "none"
    BY IdleFields DEF HInit, Init
  <2> QED BY <2>1, HTypeInit DEF ScopeIInv, ScopeOK
<1>2. ScopeIInv /\ [HNext]_hvars => ScopeIInv'
  <2> SUFFICES ASSUME ScopeIInv, [HNext]_hvars PROVE ScopeIInv'
    OBVIOUS
  <2>1. HIInv /\ HIInv'
    BY HTypeStep DEF ScopeIInv
  <2>2. ASSUME NEW t \in Threads, HEnter(t) \/ HStep(t) PROVE ScopeIInv'
    <3>1. (Enter(t) \/ Step(t)) /\ Record(t)
      BY <2>2 DEF HEnter, HStep
    <3> QED BY <2>1, <3>1, ScopeStep
  <2>3. CASE HData \/ HDone \/ UNCHANGED hvars
    <3>1. UNCHANGED <<cache, frame, since>> /\ version' \in {version, version + 1}
      BY <2>3 DEF HData, HDone, hvars, history, Change, Tick
    <3>2. ASSUME NEW t \in Threads PROVE ScopeOK(t)'
      <4>1. ScopeOK(t) /\ version \in Nat /\ since[t].version \in Nat
        BY <2>1, BoundsAssumption DEF ScopeIInv, HIInv, Data, Recorded
      <4> QED BY <3>1, <4>1 DEF ScopeOK, Tolerated
    <3> QED BY <2>1, <3>2 DEF ScopeIInv
  <2> QED BY <2>2, <2>3 DEF HNext
<1>3. ScopeIInv =>
        \A t \in Threads : ScopeReturns(t) =>
          \A k \in DOMAIN cache : ScopeOf[k] \in Covers[frame[t].scope] =>
            /\ k \in since[t].stored
            /\ k \notin ProgrammaticKeys /\ cache[k].value # None
                 => \/ cache[k].value.version >= since[t].version
                    \/ k \in since[t].late
  BY DEF ScopeIInv, HIInv, Frames, FrameOK, ScopeOK, Tolerated, ScopeReturns, At
<1> QED BY <1>1, <1>2, <1>3, PTL DEF HSpec, ScopeEvictionComplete

-----------------------------------------------------------------------------
(* As long as calls do not overlap. *)

Busy(t) == frame[t].pc # "idle"

(* Every outcome is counted, or cleared, or about to be counted by t. *)
Balanced(t) ==
  \A c \in Counters :
    count[c] + cleared[c]
      + (IF frame[t].pc \in Counting /\ frame[t].counter = c THEN 1 ELSE 0) = outcomes[c]

(* The counters a clear has reset when it is about to reset c. *)
ResetBefore(c) ==
  CASE c = "hits" -> {} [] c = "misses" -> {"hits"} [] c = "evictions" -> {"hits", "misses"}

(* The counters are exact but for what the only call there is owes them. *)
ExactOK(t) ==
  /\ frame[t].pc # "reset" => Balanced(t)
  /\ frame[t].pc = "increment" => frame[t].read = count[frame[t].counter]
  /\ frame[t].pc = "reset" => /\ cleared = outcomes
                              /\ \A c \in ResetBefore(frame[t].counter) : count[c] = 0

(* The only evict_by_scope there is finds every key it has listed. *)
RemovedOK(t) ==
  frame[t].op = "scope" =>
    frame[t].removed = since[t].taken /\ frame[t].todo \subseteq DOMAIN cache

Even == \A c \in Counters : count[c] + cleared[c] = outcomes[c]

SoloIInv ==
  /\ HIInv
  /\ ~overlap =>
       /\ \A t, u \in Threads : Busy(t) /\ Busy(u) => t = u
       /\ Quiet => Even
       /\ \A t \in Threads : Busy(t) => ExactOK(t) /\ RemovedOK(t)

LEMMA StepLabels ==
  ASSUME HIInv, NEW t \in Threads, Step(t), ~Reset(t)
  PROVE  /\ frame[t].pc \notin {"idle", "reset"} /\ frame'[t].pc # "reset"
         /\ CountWrite(t) \/ count' = count
<1> DEFINE f == frame[t]
<1>0. f \in CacheFrame /\ frame = [u \in Threads |-> frame[u]]
  BY DEF HIInv, Frames
<1> USE IdleFields DEF At
<1>1. CASE CountRead(t)
  <2>1. frame'[t] = [f EXCEPT !.pc = "increment", !.read = count[f.counter]]
    BY <1>0, <1>1 DEF CountRead
  <2> QED BY <1>0, <1>1, <2>1 DEF CountRead, CacheFrame
<1>2. CASE CountWrite(t)
  <2>1. frame'[t] = AfterCount(f)
    BY <1>0, <1>2 DEF CountWrite
  <2>2. AfterCount(f).pc \in {"run", "scope", "idle"}
    BY <1>0 DEF AfterCount, CacheFrame
  <2> QED BY <1>2, <2>1, <2>2 DEF CountWrite
<1>3. CASE FunctionReads(t) \/ FunctionReturns(t)
  BY <1>0, <1>3 DEF FunctionReads, FunctionReturns, CacheFrame
<1>4. CASE FunctionRaises(t) \/ Store(t) \/ ScopeRaises(t) \/ ScopeReturns(t)
  BY <1>0, <1>4 DEF FunctionRaises, Store, ScopeRaises, ScopeReturns, Return
<1>5. CASE ScopeEvicts(t)
  BY <1>0, <1>5 DEF ScopeEvicts, CacheFrame
<1>6. CASE ScopePasses(t)
  BY <1>0, <1>6 DEF ScopePasses, CacheFrame
<1> QED BY <1>1, <1>2, <1>3, <1>4, <1>5, <1>6 DEF Step

LEMMA CounterTypes ==
  ASSUME HIInv, NEW c \in Counters
  PROVE  count[c] \in Nat /\ cleared[c] \in Nat /\ outcomes[c] \in Nat
  BY DEF HIInv, Data, Recorded

(* A call that begins while there is no other. *)
LEMMA EnterExact ==
  ASSUME HIInv, HIInv', Even, NEW t \in Threads, Enter(t), Record(t)
  PROVE  ExactOK(t)' /\ (~Busy(t)' => Even')
<1>1. count' = count /\ frame[t].pc = "idle"
  BY DEF Enter, Get, Evict, Set, Call, EvictByScope, Clear, At
<1>2. /\ frame'[t].pc \in {"idle", "count", "run", "scope", "reset"}
      /\ frame'[t].pc = "reset" => frame'[t].counter = "hits"
  BY EnterLabels
<1>3. cleared' = IF frame'[t].pc = "reset" THEN outcomes ELSE cleared
  BY <1>1 DEF Record, Clears, At
<1>4. CASE Outcome(t)
  <2>1. frame'[t].pc = "count" /\ cleared' = cleared
    BY <1>3, <1>4 DEF Outcome
  <2>2. ASSUME NEW c \in Counters
        PROVE  count'[c] + cleared'[c] + (IF frame'[t].counter = c THEN 1 ELSE 0) = outcomes'[c]
    <3>1. outcomes \in [Counters -> Nat] /\ count[c] + cleared[c] = outcomes[c]
      BY DEF HIInv, Recorded, Even
    <3>2. outcomes'[c] = outcomes[c] + IF frame'[t].counter = c THEN 1 ELSE 0
      BY <1>4, <3>1 DEF Outcome
    <3> QED BY <1>1, <2>1, <3>1, <3>2, CounterTypes
  <2> QED BY <2>1, <2>2 DEF ExactOK, Balanced, Counting, Busy
<1>5. CASE Apart(t)
  <2>1. outcomes' = outcomes /\ frame'[t].pc \notin Counting
    BY <1>5 DEF Apart
  <2>2. CASE frame'[t].pc = "reset"
    BY <1>2, <1>3, <2>1, <2>2 DEF ExactOK, ResetBefore, Busy
  <2>3. CASE frame'[t].pc # "reset"
    <3>1. Even' /\ cleared' = cleared
      BY <1>1, <1>3, <2>1, <2>3 DEF Even
    <3>2. \A c \in Counters : count'[c] + cleared'[c] + 0 = outcomes'[c]
      BY <1>1, <3>1, CounterTypes DEF Even
    <3> QED BY <2>1, <2>3, <3>1, <3>2 DEF ExactOK, Balanced, Counting
  <2> QED BY <2>2, <2>3
<1> QED BY <1>4, <1>5, EnterCounts

(* A step of the only call there is. *)
LEMMA StepExact ==
  ASSUME HIInv, HIInv', NEW t \in Threads, Step(t), Record(t), ExactOK(t)
  PROVE  ExactOK(t)' /\ (~Busy(t)' => Even')
<1>1. frame[t].pc # "idle"
  BY StepLabels DEF Reset, At
<1>2. cleared' = cleared
  BY <1>1 DEF Record, Clears, At
<1>3. /\ \A c \in Counters : count[c] \in Nat /\ cleared[c] \in Nat /\ outcomes[c] \in Nat
      /\ \A c \in Counters : count'[c] \in Nat
      /\ frame[t].counter \in Counters /\ frame[t].read \in Nat
      /\ count \in [Counters -> Nat] /\ outcomes \in [Counters -> Nat]
  BY CounterTypes DEF HIInv, Data, Recorded, Frames, CacheFrame
<1>4. CASE Reset(t)
  <2>1. /\ frame[t].pc = "reset" /\ count' = [count EXCEPT ![frame[t].counter] = 0]
        /\ frame'[t] = CASE frame[t].counter = "hits"   -> [frame[t] EXCEPT !.counter = "misses"]
                         [] frame[t].counter = "misses" -> [frame[t] EXCEPT !.counter = "evictions"]
                         [] frame[t].counter = "evictions" -> Idle
    BY <1>4 DEF Reset, At, HIInv, Frames
  <2>2. frame[t] \in CacheFrame
    BY DEF HIInv, Frames
  <2>3. outcomes' = outcomes
    <3>1. frame'[t].pc \in {"reset", "idle"}
      BY <2>1, <2>2, IdleFields DEF CacheFrame, Counters
    <3> QED BY <2>1, <3>1 DEF Record, Looks, Removes, At
  <2>4. /\ cleared = outcomes
        /\ \A c \in ResetBefore(frame[t].counter) : count[c] = 0
    BY <2>1 DEF ExactOK
  <2>5. CASE frame[t].counter \in {"hits", "misses"}
    <3>1. frame'[t].pc = "reset"
          /\ frame'[t].counter = IF frame[t].counter = "hits" THEN "misses" ELSE "evictions"
      BY <2>1, <2>2, <2>5 DEF CacheFrame
    <3>2. \A c \in ResetBefore(frame'[t].counter) : count'[c] = 0
      BY <1>3, <2>1, <2>4, <2>5, <3>1 DEF ResetBefore, Counters
    <3> QED BY <1>2, <2>3, <2>4, <3>1, <3>2 DEF ExactOK, Busy
  <2>6. CASE frame[t].counter = "evictions"
    <3>1. frame'[t].pc = "idle"
      BY <2>1, <2>6, IdleFields
    <3>2. \A c \in Counters : count'[c] = 0
      BY <1>3, <2>1, <2>4, <2>6 DEF ResetBefore, Counters
    <3>3. \A c \in Counters : count'[c] + cleared'[c] = outcomes'[c]
      BY <1>2, <1>3, <2>3, <2>4, <3>2
    <3>4. \A c \in Counters : count'[c] + cleared'[c] + 0 = outcomes'[c]
      BY <1>2, <1>3, <2>3, <2>4, <3>2
    <3> QED BY <3>1, <3>3, <3>4 DEF ExactOK, Balanced, Counting, Even
  <2> QED BY <1>3, <2>5, <2>6 DEF Counters
<1>5. CASE ~Reset(t)
  <2>1. frame[t].pc # "reset" /\ frame'[t].pc # "reset"
        /\ (frame[t].pc # "increment" => count' = count)
    BY <1>5, StepLabels DEF CountWrite, At
  <2>2. ASSUME NEW c \in Counters
        PROVE  count[c] + cleared[c]
                 + (IF frame[t].pc \in Counting /\ frame[t].counter = c THEN 1 ELSE 0) = outcomes[c]
    BY <2>1 DEF ExactOK, Balanced
  <2>3. CASE Outcome(t)
    <3>1. ASSUME NEW c \in Counters
          PROVE  count'[c] + cleared'[c] + (IF frame'[t].counter = c THEN 1 ELSE 0) = outcomes'[c]
      <4>1. count[c] + cleared[c] = outcomes[c]
        BY <1>3, <2>2, <2>3 DEF Outcome
      <4>2. outcomes'[c] = outcomes[c] + IF frame'[t].counter = c THEN 1 ELSE 0
        BY <1>3, <2>3 DEF Outcome
      <4> QED BY <1>2, <1>3, <2>3, <4>1, <4>2 DEF Outcome
    <3> QED BY <2>1, <2>3, <3>1 DEF Outcome, ExactOK, Balanced, Counting, Busy
  <2>4. CASE Reads(t)
    BY <1>2, <2>1, <2>2, <2>4 DEF Reads, ExactOK, Balanced, Counting, Busy
  <2>5. CASE Writes(t)
    <3>1. frame[t].read = count[frame[t].counter]
      BY <2>5 DEF Writes, ExactOK
    <3>2. ASSUME NEW c \in Counters
          PROVE  count'[c] + cleared'[c] = outcomes'[c] /\ count'[c] + cleared'[c] + 0 = outcomes'[c]
      <4>1. count'[c] = count[c] + IF frame[t].counter = c THEN 1 ELSE 0
        BY <1>3, <2>5, <3>1 DEF Writes
      <4>2. count[c] + cleared[c] + (IF frame[t].counter = c THEN 1 ELSE 0) = outcomes[c]
        BY <2>2, <2>5 DEF Writes, Counting
      <4> QED BY <1>2, <1>3, <2>5, <4>1, <4>2 DEF Writes
    <3> QED BY <2>1, <2>5, <3>2 DEF Writes, ExactOK, Balanced, Counting, Even
  <2>6. CASE Apart(t)
    <3>1. frame[t].pc \notin Counting /\ frame'[t].pc \notin Counting
          /\ outcomes' = outcomes /\ count' = count
      BY <2>1, <2>6 DEF Apart, Counting
    <3>2. \A c \in Counters : count'[c] + cleared'[c] = outcomes'[c]
                              /\ count'[c] + cleared'[c] + 0 = outcomes'[c]
      BY <1>2, <1>3, <2>2, <3>1
    <3> QED BY <2>1, <3>1, <3>2 DEF ExactOK, Balanced, Even, Counting
  <2> QED BY <2>3, <2>4, <2>5, <2>6, StepCounts
<1> QED BY <1>4, <1>5

(* The same for what evict_by_scope counts itself. *)
LEMMA EnterRemoved ==
  ASSUME HIInv, NEW t \in Threads, Enter(t), Record(t)
  PROVE  RemovedOK(t)'
<1> SUFFICES ASSUME frame'[t].op = "scope" PROVE RemovedOK(t)'
  BY DEF RemovedOK
<1>1. /\ frame[t].pc = "idle" /\ frame'[t].pc = "scope" /\ frame'[t].removed = 0
      /\ frame'[t].todo = DOMAIN cache' /\ cache' = cache
  BY ScopeBegins
<1>2. since'[t].taken = 0
  BY <1>1 DEF Record, Lists, At, Nothing
<1> QED BY <1>1, <1>2 DEF RemovedOK

LEMMA StepRemoved ==
  ASSUME HIInv, NEW t \in Threads, Step(t), Record(t), RemovedOK(t)
  PROVE  RemovedOK(t)'
<1> SUFFICES ASSUME frame'[t].op = "scope" PROVE RemovedOK(t)'
  BY DEF RemovedOK
<1> DEFINE f == frame[t]
<1>0. /\ f.op = "scope" /\ f.pc # "idle" /\ FrameOK(f) /\ f \in CacheFrame
      /\ frame = [u \in Threads |-> frame[u]]
      /\ f.removed = since[t].taken /\ f.todo \subseteq DOMAIN cache /\ f.removed \in Nat
  BY ScopeVisits DEF HIInv, Frames, RemovedOK, CacheFrame
<1>1. since'[t].taken = IF Removes(t) /\ Stored(frame'[t].key)
                        THEN since[t].taken + 1 ELSE since[t].taken
  <2>1. since[t] \in [stored : SUBSET Keys, late : SUBSET Keys,
                      version : 0..MaxVersion, taken : Nat]
    BY DEF HIInv, Recorded
  <2> DEFINE n == IF t = t /\ Removes(t) /\ Stored(frame'[t].key)
                  THEN since[t].taken + 1 ELSE since[t].taken
  <2>2. since'[t] = [since[t] EXCEPT !.stored = @ \cup Written, !.taken = n]
    BY <1>0 DEF Record, Lists, At
  <2>3. since'[t].taken = n
    <3> HIDE DEF n
    <3> QED BY <2>1, <2>2
  <2> QED BY <2>3
<1>2. CASE CountRead(t) \/ CountWrite(t)
  <2>1. f.pc # "scope" /\ cache' = cache
        /\ frame'[t] \in {[f EXCEPT !.pc = "increment", !.read = count[f.counter]], AfterCount(f)}
    BY <1>0, <1>2 DEF CountRead, CountWrite, At
  <2>2. frame'[t].removed = f.removed /\ frame'[t].todo = f.todo
    BY <1>0, <2>1, IdleFields DEF AfterCount, CacheFrame
  <2> QED BY <1>0, <1>1, <2>1, <2>2 DEF RemovedOK, Removes, At
<1>3. CASE ScopeEvicts(t)
  <2>1. PICK k \in f.todo \ Malformed :
          /\ StorageEvict(k)
          /\ frame' = [frame EXCEPT ![t].pc = "count", ![t].counter = "evictions", ![t].key = k,
                                    ![t].todo = @ \ {k}, ![t].removed = @ + 1]
    BY <1>3 DEF ScopeEvicts
  <2>2. /\ frame'[t].removed = f.removed + 1 /\ frame'[t].todo = f.todo \ {k}
        /\ frame'[t].key = k /\ f.pc = "scope"
    BY <1>0, <1>3, <2>1 DEF CacheFrame, ScopeEvicts, At
  <2>3. Removes(t) /\ Stored(frame'[t].key)
    BY <1>0, <2>2 DEF Removes, At, Stored
  <2>4. DOMAIN cache' = DOMAIN cache \ {k}
    BY <2>1 DEF StorageEvict, Restrict
  <2> QED BY <1>0, <1>1, <2>2, <2>3, <2>4 DEF RemovedOK
<1>4. CASE ScopePasses(t)
  <2>1. PICK k \in f.todo \ Malformed : frame' = [frame EXCEPT ![t].todo = @ \ {k}]
    BY <1>4 DEF ScopePasses
  <2>2. frame'[t].removed = f.removed /\ frame'[t].todo = f.todo \ {k} /\ cache' = cache
    BY <1>0, <1>4, <2>1 DEF CacheFrame, ScopePasses
  <2>3. ~Removes(t)
    BY <1>0, <2>2 DEF Removes
  <2> QED BY <1>0, <1>1, <2>2, <2>3 DEF RemovedOK
<1>5. ~(FunctionRaises(t) \/ Store(t) \/ ScopeRaises(t) \/ ScopeReturns(t))
  BY <1>0, IdleFields DEF FunctionRaises, Store, ScopeRaises, ScopeReturns, Return
<1>6. ~FunctionReads(t) /\ ~FunctionReturns(t) /\ ~Reset(t)
  BY <1>0 DEF FunctionReads, FunctionReturns, Reset, At, FrameOK
<1> QED BY <1>2, <1>3, <1>4, <1>5, <1>6 DEF Step

LEMMA SoloStep == SoloIInv /\ [HNext]_hvars => SoloIInv'
<1> SUFFICES ASSUME SoloIInv, [HNext]_hvars PROVE SoloIInv'
  OBVIOUS
<1>1. HIInv /\ HIInv' /\ Frames
  BY HTypeStep DEF SoloIInv, HIInv
<1>2. ASSUME NEW t \in Threads, HEnter(t), ~overlap' PROVE SoloIInv'
  <2>1. ~overlap /\ Quiet /\ Enter(t) /\ Record(t)
    BY <1>2 DEF HEnter
  <2>2. OthersStay(t) /\ \A u \in Threads : ~Busy(u)
    BY <1>1, <2>1, OnlyOneMoves DEF Quiet, At, Busy
  <2>3. ExactOK(t)' /\ (~Busy(t)' => Even') /\ RemovedOK(t)'
    BY <1>1, <2>1, EnterExact, EnterRemoved DEF SoloIInv
  <2>4. \A u \in Threads \ {t} : ~Busy(u)'
    BY <2>2 DEF OthersStay, Busy
  <2> QED BY <1>1, <2>3, <2>4 DEF SoloIInv, Quiet, At, Busy
<1>3. ASSUME NEW t \in Threads, HStep(t), ~overlap' PROVE SoloIInv'
  <2>1. ~overlap /\ Step(t) /\ Record(t)
    BY <1>3 DEF HStep
  <2>2. OthersStay(t) /\ Busy(t)
    BY <1>1, <2>1, OnlyOneMoves, StepLabels DEF Busy, Reset, At
  <2>3. ExactOK(t)' /\ (~Busy(t)' => Even') /\ RemovedOK(t)'
    BY <1>1, <2>1, <2>2, StepExact, StepRemoved DEF SoloIInv
  <2>4. \A u \in Threads \ {t} : ~Busy(u)'
    BY <2>1, <2>2 DEF OthersStay, Busy, SoloIInv
  <2> QED BY <1>1, <2>3, <2>4 DEF SoloIInv, Quiet, At, Busy
<1>4. CASE HData \/ HDone \/ UNCHANGED hvars
  <2>1. UNCHANGED <<cache, count, frame, outcomes, cleared, overlap, since>>
    BY <1>4 DEF HData, HDone, hvars, history, Change, Tick
  <2> QED BY <1>1, <2>1 DEF SoloIInv, Busy, Quiet, At, Even, ExactOK, Balanced, RemovedOK
<1>5. CASE overlap'
  BY <1>1, <1>5 DEF SoloIInv
<1> QED BY <1>2, <1>3, <1>4, <1>5 DEF HNext

LEMMA SoloInit == HInit => SoloIInv
<1> SUFFICES ASSUME HInit PROVE SoloIInv
  OBVIOUS
<1>1. \A t \in Threads : ~Busy(t)
  BY IdleFields DEF HInit, Init, Busy
<1>2. \A c \in Counters : count[c] = 0 /\ cleared[c] = 0 /\ outcomes[c] = 0
  BY DEF HInit, Init
<1> QED BY <1>1, <1>2, HTypeInit DEF SoloIInv, Even

(* Between calls that do not overlap the counters are those of the lookups  *)
(* and evictions since the last clear.                                      *)
THEOREM CountersAreExact == HSpec => []CountersExact
<1>1. SoloIInv => CountersExact
  <2> SUFFICES ASSUME SoloIInv, Quiet, ~overlap, NEW c \in Counters
               PROVE  count[c] = outcomes[c] - cleared[c]
    BY DEF CountersExact
  <2>1. HIInv /\ count[c] + cleared[c] = outcomes[c]
    BY DEF SoloIInv, Even
  <2> QED BY <2>1, CounterTypes
<1> QED BY <1>1, SoloInit, SoloStep, PTL DEF HSpec

(* Without an overlap evict_by_scope returns the number of items it removed *)
(* (cache.py:417).                                                          *)
THEOREM RemovedIsExact == HSpec => RemovedExact
<1>1. SoloIInv =>
        \A t \in Threads : ScopeReturns(t) /\ ~overlap => frame[t].removed = since[t].taken
  BY DEF SoloIInv, HIInv, Frames, FrameOK, RemovedOK, Busy, ScopeReturns, At
<1> QED BY <1>1, SoloInit, SoloStep, PTL DEF HSpec, RemovedExact

-----------------------------------------------------------------------------
(* Values that are None. *)

(* Requests with one key are calls of one function. *)
OneFunctionPerKey ==
  \A r, s \in Requests :
    KeyOf[r] = KeyOf[s] /\ KeyOf[r] # None /\ r \in NoneRequests => s \in NoneRequests

(* What a call has in hand is None only if its function returns None. *)
NoneIsOwn(f) ==
  f.op = "call" =>
    /\ f.key = KeyOf[f.request]
    /\ f.request \notin NoneRequests =>
         /\ f.pc \in {"count", "increment"} /\ f.counter = "hits" => f.val # None
         /\ f.pc \in {"run", "computed"} /\ f.key # None => f.counter # "hits"
         /\ f.pc \in {"computed", "store"} => f.val # None

(* So is what is cached for one; a programmatic key is not that of a call. *)
CachedNone ==
  \A r \in Requests \ NoneRequests :
    Stored(KeyOf[r]) => cache[KeyOf[r]].value # None

NoneIInv == HIInv /\ CachedNone /\ \A t \in Threads : NoneIsOwn(frame[t])

LEMMA RemovalKeepsNone ==
  ASSUME CachedNone, NEW S, S \subseteq DOMAIN cache, cache' = Restrict(cache, S)
  PROVE  CachedNone'
  BY DEF CachedNone, Restrict, Stored

LEMMA StoreKeepsNone ==
  ASSUME CachedNone, NEW k, NEW v, NEW ttl, StorageSet(k, v, ttl),
         \A r \in Requests \ NoneRequests : KeyOf[r] = k => v # None
  PROVE  CachedNone'
  BY DEF CachedNone, StorageSet, Stored

LEMMA EnterNone ==
  ASSUME NoneIInv, NEW t \in Threads, Enter(t)
  PROVE  CachedNone' /\ NoneIsOwn(frame[t])'
<1>0. frame \in [Threads -> CacheFrame] /\ CachedNone /\ NoneIsOwn(frame[t])
  BY DEF NoneIInv, HIInv, Frames
<1>1. CASE \/ \E k \in ProgrammaticKeys : Get(t, k) \/ Evict(t, k)
           \/ \E p \in Scopes : EvictByScope(t, p)
           \/ Clear(t)
  <2>1. frame'[t].op # "call"
    <3>1. ASSUME NEW k \in ProgrammaticKeys, Get(t, k) PROVE frame'[t].op = "get"
      BY <1>0, <3>1 DEF Get, Lookup, Idle
    <3>2. CASE \/ \E k \in ProgrammaticKeys : Evict(t, k)
               \/ \E p \in Scopes : EvictByScope(t, p)
               \/ Clear(t)
      BY <1>0, <3>2 DEF Evict, EvictByScope, Clear, Idle
    <3> QED BY <1>1, <3>1, <3>2
  <2>2. cache' = cache \/ \E S \in SUBSET DOMAIN cache : cache' = Restrict(cache, S)
    BY <1>1 DEF Get, Evict, EvictByScope, Clear, StorageEvict, StorageClear
  <2>3. CachedNone'
    BY <1>0, <2>2, RemovalKeepsNone DEF CachedNone, Stored
  <2> QED BY <2>1, <2>3 DEF NoneIsOwn
<1>2. ASSUME NEW k \in ProgrammaticKeys, NEW v \in Values, NEW ttl \in TTLs, Set(t, k, v, ttl)
      PROVE  CachedNone' /\ NoneIsOwn(frame[t])'
  <2>1. \A r \in Requests : KeyOf[r] # k
    BY RequestsAssumption, CacheKeysAssumption, NoneAssumption
  <2>2. CachedNone'
    BY <1>0, <1>2, <2>1, StoreKeepsNone DEF Set
  <2> QED BY <1>0, <1>2, <2>2 DEF Set, NoneIsOwn
<1>3. ASSUME NEW r \in Requests, NEW ttl \in TTLs, Call(t, r, ttl)
      PROVE  CachedNone' /\ NoneIsOwn(frame[t])'
  <2> DEFINE f == [Idle EXCEPT !.op = "call", !.request = r, !.key = KeyOf[r], !.ttl = ttl]
  <2>1. CachedNone'
    BY <1>0, <1>3 DEF Call, CachedNone, Stored
  <2>2. CASE KeyOf[r] = None
    <3>1. frame'[t] = [f EXCEPT !.pc = "run"]
      BY <1>0, <1>3, <2>2 DEF Call
    <3> QED BY <2>1, <2>2, <3>1 DEF NoneIsOwn, Idle
  <2>3. CASE KeyOf[r] # None /\ Stored(KeyOf[r])
    <3>1. frame'[t] = [f EXCEPT !.pc = "count", !.counter = "hits", !.val = cache[KeyOf[r]].value]
      BY <1>0, <1>3, <2>3 DEF Call, Lookup, Idle
    <3> QED BY <1>0, <2>1, <2>3, <3>1 DEF NoneIsOwn, CachedNone, Idle
  <2>4. CASE KeyOf[r] # None /\ ~Stored(KeyOf[r])
    <3>1. frame'[t] = [f EXCEPT !.pc = "count", !.counter = "misses"]
      BY <1>0, <1>3, <2>4 DEF Call, Lookup, Idle
    <3> QED BY <2>1, <3>1 DEF NoneIsOwn, Idle
  <2> QED BY <2>2, <2>3, <2>4
<1> QED BY <1>1, <1>2, <1>3 DEF Enter

LEMMA StepNone ==
  ASSUME OneFunctionPerKey, NoneIInv, NEW t \in Threads, Step(t)
  PROVE  CachedNone' /\ NoneIsOwn(frame[t])'
<1> DEFINE f == frame[t]
<1>0. frame \in [Threads -> CacheFrame] /\ CachedNone /\ NoneIsOwn(f) /\ FrameOK(f)
  BY DEF NoneIInv, HIInv, Frames
<1>1. CASE CountRead(t)
  <2>1. CachedNone'
    BY <1>0, <1>1 DEF CountRead, CachedNone, Stored
  <2>2. frame'[t] = [f EXCEPT !.pc = "increment", !.read = count[f.counter]] /\ f.pc = "count"
    BY <1>0, <1>1 DEF CountRead, At
  <2> QED BY <1>0, <2>1, <2>2 DEF NoneIsOwn, CacheFrame
<1>2. CASE CountWrite(t)
  <2>1. CachedNone'
    BY <1>0, <1>2 DEF CountWrite, CachedNone, Stored
  <2>2. frame'[t] = AfterCount(f) /\ f.pc = "increment"
    BY <1>0, <1>2 DEF CountWrite, At
  <2> QED BY <1>0, <2>1, <2>2 DEF NoneIsOwn, AfterCount, Idle, CacheFrame
<1>7. CASE FunctionReturns(t)
  <2>1. CachedNone'
    BY <1>0, <1>7 DEF FunctionReturns, CachedNone, Stored
  <2>2. frame'[t] = Idle \/ frame'[t] = [f EXCEPT !.pc = "store"]
    BY <1>0, <1>7 DEF FunctionReturns
  <2>3. NoneIsOwn([f EXCEPT !.pc = "store"])
    BY <1>0, <1>7 DEF NoneIsOwn, CacheFrame, FunctionReturns, At
  <2>4. CASE frame'[t] = Idle
    BY <2>1, <2>4 DEF NoneIsOwn, Idle
  <2>5. CASE frame'[t] = [f EXCEPT !.pc = "store"]
    <3>1. NoneIsOwn(frame'[t])
      BY <2>3, <2>5
    <3> QED BY <2>1, <3>1 DEF NoneIsOwn
  <2> QED BY <2>2, <2>4, <2>5
<1>3. CASE FunctionReads(t)
  <2>1. CachedNone'
    BY <1>0, <1>3 DEF FunctionReads, CachedNone, Stored
  <2>2. f.op = "call" /\ f.request \in Requests /\ version \in 0..MaxVersion /\ f.pc = "run"
    BY <1>0, <1>3 DEF FunctionReads, At, FrameOK, NoneIInv, HIInv, Data
  <2> DEFINE v == IF f.request \in NoneRequests THEN None ELSE Result(f.request, version)
  <2>3. f.request \notin NoneRequests => v # None
    BY <2>2, ResultsAssumption DEF Results
  <2>4. frame'[t] = [f EXCEPT !.pc = "computed", !.val = v]
    BY <1>0, <1>3 DEF FunctionReads
  <2> HIDE DEF v
  <2>5. NoneIsOwn([f EXCEPT !.pc = "computed", !.val = v])
    BY <1>0, <2>2, <2>3 DEF NoneIsOwn, CacheFrame
  <2>6. NoneIsOwn(frame'[t])
    BY <2>4, <2>5
  <2> QED BY <2>1, <2>6 DEF NoneIsOwn
<1>4. CASE FunctionRaises(t) \/ ScopeRaises(t) \/ ScopeReturns(t)
  <2>1. frame'[t] = Idle
    BY <1>0, <1>4 DEF FunctionRaises, ScopeRaises, ScopeReturns, Return
  <2>2. CachedNone'
    BY <1>0, <1>4 DEF FunctionRaises, ScopeRaises, ScopeReturns, CachedNone, Stored
  <2> QED BY <2>1, <2>2 DEF NoneIsOwn, Idle
<1>5. CASE Store(t)
  <2>1. frame'[t] = Idle
    BY <1>0, <1>5 DEF Store, Return
  <2>2. f.op = "call" /\ f.request \in Requests /\ f.key = KeyOf[f.request] /\ f.key # None
        /\ f.pc = "store"
    BY <1>0, <1>5, NoneAssumption DEF Store, At, FrameOK, NoneIsOwn
  <2>3. \A r \in Requests \ NoneRequests : KeyOf[r] = f.key => f.val # None
    BY <1>0, <2>2 DEF OneFunctionPerKey, NoneIsOwn
  <2>4. CachedNone'
    BY <1>0, <1>5, <2>3, StoreKeepsNone DEF Store
  <2> QED BY <2>1, <2>4 DEF NoneIsOwn, Idle
<1>6. CASE ScopeEvicts(t) \/ ScopePasses(t) \/ Reset(t)
  <2>1. f.op # "call"
    BY <1>0, <1>6 DEF ScopeEvicts, ScopePasses, Reset, At, FrameOK
  <2>2. frame'[t].op # "call"
    <3>1. CASE ScopeEvicts(t)
      BY <1>0, <2>1, <3>1 DEF ScopeEvicts
    <3>2. CASE ScopePasses(t)
      BY <1>0, <2>1, <3>2 DEF ScopePasses
    <3>3. CASE Reset(t)
      BY <1>0, <2>1, <3>3 DEF Reset, Idle, CacheFrame, Counters
    <3> QED BY <1>6, <3>1, <3>2, <3>3
  <2>3. cache' = cache \/ \E S \in SUBSET DOMAIN cache : cache' = Restrict(cache, S)
    BY <1>6 DEF ScopeEvicts, ScopePasses, Reset, StorageEvict
  <2>4. CachedNone'
    BY <1>0, <2>3, RemovalKeepsNone DEF CachedNone, Stored
  <2> QED BY <2>2, <2>4 DEF NoneIsOwn
<1> QED BY <1>1, <1>2, <1>3, <1>4, <1>5, <1>6, <1>7 DEF Step

(* A decorated call that is counted as a hit runs its function only if the  *)
(* function returns None (cache.py:229), unless two functions have a key in *)
(* common.                                                                  *)
THEOREM OnlyNoneIsRecomputed ==
  ASSUME OneFunctionPerKey
  PROVE  HSpec => []OnlyNoneRecomputed
<1>1. HInit => NoneIInv
  <2> SUFFICES ASSUME HInit PROVE NoneIInv
    OBVIOUS
  <2>1. DOMAIN cache = {} /\ \A t \in Threads : frame[t] = Idle
    BY DEF HInit, Init, InMemoryInit
  <2> QED BY <2>1, HTypeInit DEF NoneIInv, CachedNone, Stored, NoneIsOwn, Idle
<1>2. NoneIInv /\ [HNext]_hvars => NoneIInv'
  <2> SUFFICES ASSUME NoneIInv, [HNext]_hvars PROVE NoneIInv'
    OBVIOUS
  <2>1. HIInv /\ HIInv' /\ Frames
    BY HTypeStep DEF NoneIInv, HIInv
  <2>2. ASSUME NEW t \in Threads, Enter(t) \/ Step(t) PROVE NoneIInv'
    <3>1. CachedNone' /\ NoneIsOwn(frame[t])'
      BY <2>2, EnterNone, StepNone
    <3>2. \A u \in Threads \ {t} : frame'[u] = frame[u]
      BY <2>1, <2>2, OnlyOneMoves DEF OthersStay
    <3> QED BY <2>1, <3>1, <3>2 DEF NoneIInv, NoneIsOwn
  <2>3. CASE UNCHANGED <<cache, frame>>
    BY <2>1, <2>3 DEF NoneIInv, CachedNone, Stored, NoneIsOwn
  <2> QED BY <2>2, <2>3 DEF HNext, HEnter, HStep, HData, HDone, Change, Tick, hvars
<1>3. NoneIInv => OnlyNoneRecomputed
  <2> SUFFICES ASSUME NoneIInv, NEW t \in Threads, At(t, "run") \/ At(t, "computed"),
                      frame[t].key # None, frame[t].counter = "hits"
               PROVE  frame[t].request \in NoneRequests
    BY DEF OnlyNoneRecomputed
  <2> QED BY DEF NoneIInv, NoneIsOwn, HIInv, Frames, FrameOK, At
<1> QED BY <1>1, <1>2, <1>3, PTL DEF HSpec

=============================================================================
