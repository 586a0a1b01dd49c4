------------------------------ MODULE LruCache ------------------------------
(***************************************************************************)
(* What a least-recently-used cache promises its caller.  The keys it      *)
(* holds form one order of recency, and a get or a set of a key makes it   *)
(* the most recent one.  A caller loses a key it did not ask to remove in  *)
(* two ways only: a new key comes in when the cache is full, which gives   *)
(* up exactly the key at the cold end; or entries have a life time and a   *)
(* get finds the key expired, which it may not overlook.  The dictionary   *)
(* of the provider, the OrderedDict and the dict of the rules and the side *)
(* effects between them are out of sight.                                  *)
(***************************************************************************)
EXTENDS Naturals, SequencesExt

CONSTANTS Keys, None, TTLs, MaxItems

VARIABLES
  timed,     \* whether entries have a life time
  recency,   \* the keys held, the coldest first
  deadline,  \* when a key expires
  pending,   \* the call in progress, and what it owes before it may return
  now        \* the time

lruVars == <<timed, recency, deadline, pending, now>>

Begun(op, k, ttl, owes) == [op |-> op, key |-> k, ttl |-> ttl, owes |-> owes]
Idle == Begun("none", None, 0, {})

Held == ToSet(recency)

Owes(what) == what \in pending.owes
Settle(what) == pending' = [pending EXCEPT !.owes = @ \ {what}]

Keep(S) == deadline' = Restrict(deadline, DOMAIN deadline \cap S)

Init ==
  /\ timed \in BOOLEAN
  /\ recency = <<>>
  /\ deadline = [k \in {} |-> 0]
  /\ pending = Idle
  /\ now = 0

(* A get marks its key as used, and looks whether it has expired. *)
Get(k) ==
  /\ pending = Idle
  /\ k \in Held
  /\ pending' = Begun("get", k, 0, {"use"} \cup (IF timed THEN {"check"} ELSE {}))
  /\ UNCHANGED <<timed, recency, deadline, now>>

Use ==
  /\ pending.op = "get" /\ Owes("use")
  /\ recency' = Append(RemoveFirst(recency, pending.key), pending.key)
  /\ Settle("use")
  /\ UNCHANGED <<timed, deadline, now>>

Expired(k) == k \in DOMAIN deadline /\ now >= deadline[k]

Alive ==
  /\ pending.op = "get" /\ Owes("check")
  /\ ~Expired(pending.key)
  /\ Settle("check")
  /\ UNCHANGED <<timed, recency, deadline, now>>

Expire ==
  /\ pending.op = "get" /\ Owes("check")
  /\ Expired(pending.key)
  /\ recency' = RemoveFirst(recency, pending.key)
  /\ Keep(Keys \ {pending.key})
  /\ pending' = [pending EXCEPT !.owes = {}]
  /\ UNCHANGED <<timed, now>>

(* A set gives its key a life time, and makes room if there is none. *)
Set(k, ttl) ==
  /\ pending = Idle
  /\ pending' = Begun("set", k, ttl, IF timed THEN {"deadline"} ELSE {})
  /\ UNCHANGED <<timed, recency, deadline, now>>

Promise ==
  /\ pending.op = "set" /\ Owes("deadline")
  /\ deadline' = [k \in DOMAIN deadline \cup {pending.key} |->
                    IF k = pending.key THEN now + pending.ttl ELSE deadline[k]]
  /\ Settle("deadline")
  /\ UNCHANGED <<timed, recency, now>>

(* The key of a set, held already, becomes the most recent one early. *)
Touch ==
  /\ pending.op = "set" /\ pending.key \in Held
  /\ recency' = Append(RemoveFirst(recency, pending.key), pending.key)
  /\ UNCHANGED <<timed, deadline, pending, now>>

MakeRoom ==
  /\ pending.op = "set" /\ pending.key \notin Held
  /\ Len(recency) = MaxItems
  /\ recency' = Tail(recency)
  /\ Keep(Keys \ {Head(recency)})
  /\ UNCHANGED <<timed, pending, now>>

Put ==
  LET others == RemoveFirst(recency, pending.key)
  IN  /\ pending.op = "set" /\ pending.owes = {}
      /\ Len(others) < MaxItems
      /\ recency' = Append(others, pending.key)
      /\ pending' = Idle
      /\ UNCHANGED <<timed, deadline, now>>

Discard(k) ==
  /\ pending = Idle
  /\ recency' = RemoveFirst(recency, k)
  /\ Keep(Keys \ {k})
  /\ pending' = Begun("evict", None, 0, {})
  /\ UNCHANGED <<timed, now>>

Clear ==
  /\ pending = Idle
  /\ recency' = <<>>
  /\ Keep({})
  /\ pending' = Begun("clear", None, 0, {})
  /\ UNCHANGED <<timed, now>>

Return ==
  /\ pending.op \in {"get", "evict", "clear"} /\ pending.owes = {}
  /\ pending' = Idle
  /\ UNCHANGED <<timed, recency, deadline, now>>

Tick ==
  /\ now' = now + 1
  /\ UNCHANGED <<timed, recency, deadline, pending>>

Next ==
  \/ \E k \in Keys : Get(k) \/ Discard(k)
  \/ \E k \in Keys, ttl \in TTLs : Set(k, ttl)
  \/ Use \/ Alive \/ Expire \/ Promise \/ Touch \/ MakeRoom \/ Put
  \/ Clear \/ Return \/ Tick

Spec == Init /\ [][Next]_lruVars

=============================================================================
