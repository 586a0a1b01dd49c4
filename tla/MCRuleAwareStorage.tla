------------------------- MODULE MCRuleAwareStorage -------------------------
(***************************************************************************)
(* The instances of RuleAwareStorage and of its refinement of LruCache     *)
(* that TLC checks: the rule tuples of each run, and the symmetry between  *)
(* keys and between threads.                                               *)
(***************************************************************************)
EXTENDS LruRefinement

(* Every order of every choice of rules. *)
AllRuleLists ==
  UNION {{rs \in [1..n -> RuleKinds] : IsInjective(rs)} : n \in 0..3}

(* No rule, one, or two in either order. *)
UpToTwoRules == {rs \in AllRuleLists : Len(rs) <= 2}

(* Each rule by itself. *)
SingleRules == {<<r>> : r \in RuleKinds}

OnlyLru == {<<"lru">>}
OnlyMax == {<<"max">>}
OnlyLife == {<<"life">>}

KeySymmetry == Permutations(Keys)
KeyThreadSymmetry == Permutations(Keys) \cup Permutations(Threads)

=============================================================================
