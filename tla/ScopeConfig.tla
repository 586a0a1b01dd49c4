----------------------------- MODULE ScopeConfig -----------------------------
(***************************************************************************)
(* The scope hierarchy, utils/cache_scope_config.py: trees of levels below *)
(* an implicit level "global", each with the name of the parameter that    *)
(* identifies its members, and the algorithms on the paths of members,     *)
(* such as "organization:7/user:12".  Nothing here changes once built.     *)
(*                                                                         *)
(* A path is text.  What matters of it is where the separators are, so a   *)
(* text is a sequence of tokens, each a separator, the name of a level or  *)
(* a piece of a parameter's value: "user:12" is <<"user", ":", "1", "2">>. *)
(***************************************************************************)
EXTENDS Naturals, SequencesExt

Global == "global"

(* A configuration c has c.children, the tuple of the levels below each     *)
(* level, in the order given to the constructor, and c.param, the parameter *)
(* of each.                                                                 *)
LevelNames(c) == DOMAIN c.children
Levels(c) == LevelNames(c) \ {Global}

(* The constructor's check: no two levels have the same name, and none has  *)
(* that of the root.                                                        *)
NamesAreUnique(c) ==
  /\ \A p \in LevelNames(c) : Global \notin ToSet(c.children[p])
  /\ \A l \in Levels(c) :
       \E p \in LevelNames(c) :
         /\ Cardinality({n \in DOMAIN c.children[p] : c.children[p][n] = l}) = 1
         /\ \A q \in LevelNames(c) \ {p} : l \notin ToSet(c.children[q])

(* What the constructor is given are lists within lists, of finite depth.   *)
IsNested(c) ==
  /\ IsFiniteSet(LevelNames(c)) /\ Global \in LevelNames(c)
  /\ c.children \in [LevelNames(c) -> Seq(LevelNames(c))]
  /\ \E depth \in [LevelNames(c) -> 0..Cardinality(LevelNames(c))] :
       \A p \in LevelNames(c) : \A l \in ToSet(c.children[p]) : depth[l] = depth[p] + 1

Parent(c, l) == CHOOSE p \in LevelNames(c) : l \in ToSet(c.children[p])

(* _find_path_to_level: the levels from below the root down to l.  Names    *)
(* are unique, so the depth-first search finds the only path there is.      *)
PathToLevel(c, l) ==
  LET Down[m \in LevelNames(c)] ==
        IF m = Global THEN <<>> ELSE Append(Down[Parent(c, m)], m)
  IN  Down[l]

(* The parameters that name a member of level l. *)
ParamsOf(c, l) == {c.param[m] : m \in ToSet(PathToLevel(c, l))}

(* validate_scope_params does not raise.  given maps the parameters that    *)
(* are passed, and are not None, to the text of their values.               *)
IsValid(c, target, given) ==
  \/ target = Global
  \/ target \in Levels(c) /\ ParamsOf(c, target) \subseteq DOMAIN given

(* f"{level.name}:{param_value}" *)
Segment(c, l, given) == <<l, ":">> \o given[c.param[l]]

(* "/".join, of at least one part *)
Joined(parts) ==
  LET Upto[n \in DOMAIN parts] ==
        IF n = 1 THEN parts[1] ELSE Upto[n - 1] \o <<"/">> \o parts[n]
  IN  Upto[Len(parts)]

(* The positions of the children of l whose parameter is given. *)
GivenBelow(c, l, given) ==
  {n \in DOMAIN c.children[l] : c.param[c.children[l][n]] \in DOMAIN given}

FirstGiven(c, l, given) == c.children[l][Min(GivenBelow(c, l, given))]

(* build_scope_path: at each level the first child whose parameter is       *)
(* given, then on below it, and no other child is tried.  The scope that is *)
(* asked for plays no part.                                                 *)
BuildScopePath(c, given) ==
  LET Below[l \in LevelNames(c)] ==
        IF GivenBelow(c, l, given) = {} THEN <<>>
        ELSE <<Segment(c, FirstGiven(c, l, given), given)>> \o Below[FirstGiven(c, l, given)]
      parts == Below[Global]
  IN  IF parts = <<>> THEN <<Global>> ELSE Joined(parts)

(* get_parent_scope_path, of a path other than "global", which has none *)
ParentScopePath(path) ==
  LET cuts == {n \in DOMAIN path : path[n] = "/"}
  IN  IF cuts = {} THEN <<Global>>
      ELSE SubSeq(path, 1, (CHOOSE n \in cuts : \A m \in cuts : m <= n) - 1)

(* Mutant: the separator after the parent is forgotten. *)
IsDescendantOfText(child, parent) ==
  parent = <<Global>> \/ (child # <<Global>> /\ IsPrefix(parent, child))

(* is_descendant_of *)
IsDescendantOf(child, parent) ==
  \/ parent = <<Global>>
  \/ /\ child # <<Global>>
     /\ IsPrefix(parent \o <<"/">>, child) \/ child = parent

=============================================================================
