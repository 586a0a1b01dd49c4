-------------------------- MODULE PersistentHistory --------------------------
(***************************************************************************)
(* PersistentStorage with a history variable that records to which keys    *)
(* something happened that the code has no answer to, and what must hold   *)
(* of all the others.                                                      *)
(***************************************************************************)
EXTENDS PersistentStorage

VARIABLE disturbed   \* the keys whose record by the rules may be wrong

hvars == <<pvars, disturbed>>

HInit == PInit /\ disturbed = {}

(* Task t is in aset for k and has told every rule. *)
SetUnderWay(t, k) == frame[t].op = "set" /\ frame[t].key = k /\ frame[t].pc \in Awaiting

(* Task t removes k, in aevict, in aclear or in a side effect. *)
RemovalUnderWay(t, k) ==
  \/ frame[t].op = "clear"
  \/ frame[t].victim = k /\ (frame[t].op = "evict" \/ frame[t].pc \in {"delete", "on_evict"})

(* Two calls of k under way that do not agree on it: a store and a removal, *)
(* or two stores, when nothing keeps the server from inserting both.        *)
Clash(k) ==
  \E t \in Threads : SetUnderWay(t, k) /\
    \E u \in Threads \ {t} : RemovalUnderWay(u, k) \/ (~indexed /\ SetUnderWay(u, k))

(* The keys a call of t stores or removes at this moment. *)
KeysOf(t) ==
  {k \in Keys : RemovalUnderWay(t, k) \/ (frame[t].op = "set" /\ frame[t].key = k)}

(* The keys an abandoned request is about. *)
Concerns(q) == IF q.op = "clear" THEN Keys ELSE {q.key}

HNext ==
  /\ PNext
  /\ disturbed' =
       {k \in Keys : Clash(k)'} \cup
       IF restarts' # restarts THEN DOMAIN cache \cup UNION {Concerns(q) : q \in abandoned'}
       ELSE disturbed \cup UNION {KeysOf(t) : t \in {u \in Threads : Fail(u)}}

HSpec == HInit /\ [][HNext]_hvars

-----------------------------------------------------------------------------

(* The frames of tasks: those of threads, with the labels of a task that    *)
(* awaits.                                                                  *)
TaskFrame ==
  [pc : Labels \cup Awaiting, op : {"none", "set", "get", "evict", "clear"},
   key : Keys \cup {None}, value : Values \cup {None}, ttl : Nat, i : Nat,
   victim : Keys \cup {None}, j : Nat,
   got : Values \cup {None}, expired : BOOLEAN, seen : Nat]

(* Which labels a call goes through, with which registers.  A get evicts    *)
(* only its own key.                                                        *)
CallOK(f) ==
  /\ f.pc = "idle" <=> f.op = "none"
  /\ f.op = "set" => /\ f.pc \in SetLabels \cup {"delete", "on_evict"} \cup Awaiting
                     /\ f.key \in Keys /\ f.value \in Values
  /\ f.op = "get" => /\ f.pc \in GetLabels \cup {"delete", "on_evict", "sent", "answered"}
                     /\ f.key \in Keys
  /\ f.op = "get" /\ f.pc \in {"delete", "on_evict"} => f.victim = f.key
  /\ f.op = "evict" => f.pc \in {"sent", "answered", "on_evict"}
  /\ f.op = "clear" => f.pc \in {"sent", "answered", "on_clear"}
  /\ f.pc \in {"delete", "on_evict"} \/ f.op = "evict" => f.victim \in Keys

(* The requests that may be abandoned. *)
AbandonedRequest ==
  [from : Threads \X Nat \X Nat, op : {"set", "evict", "clear"}, key : Keys \cup {None},
   document : [value : Values \cup {None}, expiry : Nat], stage : {"sent", "inserting"}]

RequestOK(q) ==
  /\ q.op # "clear" => q.key \in Keys
  /\ q.op = "set" => q.document \in Entry
  /\ q.stage = "inserting" => q.op = "set"

(* Every variable has its type, a call the registers its label reads, and   *)
(* an abandoned request what the server needs of it; a coroutine that does  *)
(* not await the server is the one that runs; and a key without documents   *)
(* has no spare ones.                                                       *)
PTypeOK ==
  /\ InMemoryTypeOK
  /\ accessOrder \in Seq(Keys) /\ IsInjective(accessOrder)
  /\ admitted \subseteq Keys /\ IsFiniteSet(admitted)
  /\ DOMAIN expiryTimes \subseteq Keys /\ expiryTimes \in [DOMAIN expiryTimes -> Nat]
  /\ rules \in RuleLists
  /\ backend \in Backends /\ indexed \in BOOLEAN /\ (backend = "redis" => indexed)
  /\ spare \in Spares /\ \A k \in Keys : spare[k] # <<>> => Stored(k)
  /\ frame \in [Threads -> TaskFrame] /\ \A t \in Threads : CallOK(frame[t])
  /\ running \in Threads \cup {None}
  /\ \A t \in Threads : running = t <=> ~(frame[t].pc \in Awaiting \cup {"idle"})
  /\ abandoned \subseteq AbandonedRequest /\ \A q \in abandoned : RequestOK(q)
  /\ failures \in 0..MaxFailures /\ restarts \in 0..MaxRestarts
  /\ disturbed \subseteq Keys

(* At rest, the rules and the store agree on every key to which nothing     *)
(* happened: no failed call, no overlap with a removal of the same key, and *)
(* no restart since it was stored or while a request for it was under way.  *)
(* Other keys may be phantoms, which take up capacity, or orphans, which no *)
(* rule will ever evict.                                                    *)
UndisturbedAgree ==
  Quiet =>
    \A k \in Keys \ disturbed : \A r \in Active :
      /\ k \in Tracks(r) => Stored(k)
      /\ Stored(k) /\ r # "max" /\ ~Precedes(r, "max") => k \in Tracks(r)

(* However many tasks, the hard-limit rule admits no more keys than its     *)
(* limit: its check and its add are not separated by an await, as they are  *)
(* separated between threads (HardOvershoot).                               *)
HardExact == Cardinality(admitted) <= HardMaxItems

(* With the index a key has one document.  Without it every upsert that     *)
(* found none adds one, those that were abandoned included: at most one for *)
(* each task, in this process and in those before, and one for each call    *)
(* that failed.  A later aset adds none.                                    *)
Inserting(k) == {t \in Threads : At(t, "inserting") /\ frame[t].key = k}
LateInserting(k) == {q \in abandoned : q.stage = "inserting" /\ q.key = k}
Outlived == failures + restarts * Cardinality(Threads)
UpsertsAtOnce == Cardinality(Threads) + Outlived
DocumentsBounded ==
  \A k \in Keys :
    IF indexed THEN Documents(k) <= 1
    ELSE Documents(k) + Cardinality(Inserting(k)) + Cardinality(LateInserting(k)) <= UpsertsAtOnce

=============================================================================
