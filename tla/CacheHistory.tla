---------------------------- MODULE CacheHistory ----------------------------
(***************************************************************************)
(* The Cache facade with history variables, which record what its state    *)
(* forgets and its promises are about: how many lookups and evictions      *)
(* there were, and what happened since a scope eviction listed its keys.   *)
(* They never restrict a step of Cache; the bound on the calls does, so    *)
(* that TLC has finitely many states.                                      *)
(***************************************************************************)
EXTENDS Cache

CONSTANT MaxCalls   \* bound on the calls begun

ASSUME CallsAssumption == MaxCalls \in Nat

VARIABLES
  calls,     \* the calls begun
  outcomes,  \* outcomes[c]: the hits, misses and evictions there have been
  cleared,   \* outcomes when the last clear emptied the storage
  overlap,   \* whether two calls have been in progress at once
  since      \* since[t]: what happened since t's evict_by_scope listed the keys

history == <<calls, outcomes, cleared, overlap, since>>

(* stored: the keys stored since; late: the keys of decorated calls whose   *)
(* function had read its data, and whose result was not stored, when the    *)
(* keys were listed; version: of the data then; taken: how many of its      *)
(* evictions found the key.                                                 *)
Nothing == [stored |-> {}, late |-> {}, version |-> 0, taken |-> 0]

HInit ==
  /\ Init
  /\ calls = 0
  /\ outcomes = [c \in Counters |-> 0]
  /\ cleared = outcomes
  /\ overlap = FALSE
  /\ since = [t \in Threads |-> Nothing]

(* The step is the lookup of a get or a call, or one eviction. *)
Looks(t) == At(t, "idle") /\ frame'[t].pc = "count"
Removes(t) == At(t, "scope") /\ frame'[t].removed > frame[t].removed

Clears(t) == At(t, "idle") /\ frame'[t].pc = "reset"
Lists(t) == At(t, "idle") /\ frame'[t].pc = "scope"

(* The keys the step writes: those with a new entry. *)
Written == {k \in DOMAIN cache' : ~Stored(k) \/ cache'[k] # cache[k]}

Late == {frame[t].key : t \in {u \in Threads : At(u, "computed") \/ At(u, "store")}} \ {None}

Record(t) ==
  /\ outcomes' = IF Looks(t) \/ Removes(t)
                 THEN [outcomes EXCEPT ![frame'[t].counter] = @ + 1]
                 ELSE outcomes
  /\ cleared' = IF Clears(t) THEN outcomes ELSE cleared
  /\ since' = [u \in Threads |->
       IF u = t /\ Lists(t)
       THEN [Nothing EXCEPT !.version = version, !.late = Late]
       ELSE IF frame'[u].op # "scope"
       THEN Nothing
       ELSE [since[u] EXCEPT !.stored = @ \cup Written,
               !.taken = IF u = t /\ Removes(t) /\ Stored(frame'[t].key)
                         THEN @ + 1 ELSE @]]

Quiet == \A t \in Threads : At(t, "idle")

HEnter(t) ==
  /\ calls < MaxCalls
  /\ Enter(t)
  /\ calls' = calls + 1
  /\ overlap' = (overlap \/ ~Quiet)
  /\ Record(t)

HStep(t) == Step(t) /\ Record(t) /\ UNCHANGED <<calls, overlap>>
HData == (Change \/ Tick) /\ UNCHANGED history

hvars == <<cache, clock, count, version, frame, calls, outcomes, cleared, overlap, since>>

(* The bound is used up and every call has returned; any other state with   *)
(* no next step is a deadlock.                                              *)
HDone == calls = MaxCalls /\ Quiet /\ UNCHANGED hvars

HNext == HData \/ HDone \/ \E t \in Threads : HEnter(t) \/ HStep(t)

HSpec == HInit /\ [][HNext]_hvars

(* As FairSpec. *)
HFairSpec == HSpec /\ \A t \in Threads : WF_hvars(HStep(t))

-----------------------------------------------------------------------------
(* Correctness. *)

(* Every variable, the recorded ones too, has its type. *)
HTypeOK ==
  /\ TypeOK
  /\ calls \in 0..MaxCalls
  /\ overlap \in BOOLEAN
  /\ outcomes \in [Counters -> Nat] /\ cleared \in [Counters -> Nat]
  /\ since \in [Threads -> [stored : SUBSET Keys, late : SUBSET Keys,
                            version : 0..MaxVersion, taken : Nat]]

(* What evict_by_scope leaves behind in its scope when it returns was       *)
(* stored while it ran; and if it was computed from data older than the     *)
(* eviction, the function of a decorated call had already read that data    *)
(* when the keys were listed, and the call stored its result afterwards     *)
(* (cache.py:232-233): nothing else carries data past an eviction.          *)
ScopeEvictionComplete ==
  [][\A t \in Threads : ScopeReturns(t) =>
       \A k \in DOMAIN cache : ScopeOf[k] \in Covers[frame[t].scope] =>
         /\ k \in since[t].stored
         /\ k \notin ProgrammaticKeys /\ cache[k].value # None
              => \/ cache[k].value.version >= since[t].version
                 \/ k \in since[t].late]_hvars

(* Lost updates of the counters, and a clear between a read and a write,    *)
(* make stats() wrong, but never count a hit, a miss or an eviction that    *)
(* there was not.                                                           *)
CountersNotInflated == \A c \in Counters : count[c] <= outcomes[c]

(* As long as no two calls have overlapped the counters are exact: between  *)
(* calls they hold the lookups and evictions since the last clear.          *)
(* README.md:216 computes the hit rate from them.                           *)
CountersExact == Quiet /\ ~overlap => \A c \in Counters : count[c] = outcomes[c] - cleared[c]

(* A decorated call that is counted as a hit runs its function only when    *)
(* the value cached for it is None, which cache.py:229 takes for a miss.    *)
OnlyNoneRecomputed ==
  \A t \in Threads :
    (At(t, "run") \/ At(t, "computed")) /\ frame[t].key # None /\ frame[t].counter = "hits"
      => frame[t].request \in NoneRequests

(* As long as no two calls have overlapped, evict_by_scope returns the      *)
(* number of items removed (cache.py:417).                                  *)
RemovedExact ==
  [][\A t \in Threads : ScopeReturns(t) /\ ~overlap => frame[t].removed = since[t].taken]_hvars

-----------------------------------------------------------------------------
(* What the repository says and the code does not do. *)

(* __init__.py:5: "cache stampede protection", so one computation of a key  *)
(* at a time.                                                               *)
NoStampede ==
  \A t, u \in Threads :
    /\ At(t, "run") \/ At(t, "computed")
    /\ At(u, "run") \/ At(u, "computed")
    /\ frame[t].key = frame[u].key /\ frame[t].key # None
    => t = u

(* cache.py:409: evict_by_scope evicts all items of the scope; here with    *)
(* nothing else running, and whether it returns or raises.                  *)
ScopeEvictsAll ==
  [][\A t \in Threads : ScopeReturns(t) \/ ScopeRaises(t) =>
       \A k \in DOMAIN cache : ScopeOf[k] \notin Covers[frame[t].scope]]_hvars

=============================================================================
