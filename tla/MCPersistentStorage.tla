------------------------- MODULE MCPersistentStorage -------------------------
(***************************************************************************)
(* The instances of PersistentStorage that TLC checks.                     *)
(***************************************************************************)
EXTENDS PersistentHistory

(* The hard limit, and a pair: when the eviction the second rule asks for   *)
(* fails, the first has recorded the key.                                   *)
SomeRules == {<<"max">>, <<"life", "lru">>}

(* One event besides the calls: a call fails, or the process restarts, or   *)
(* time passes.  A restart empties all rules alike, so one tuple sees it.   *)
OneEvent ==
  /\ failures + restarts + clock <= 1
  /\ restarts = 1 => rules = <<"max">>

KeyTaskSymmetry == Permutations(Keys) \cup Permutations(Threads)

=============================================================================
