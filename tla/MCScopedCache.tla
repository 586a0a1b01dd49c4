---------------------------- MODULE MCScopedCache ----------------------------
(***************************************************************************)
(* The instances of ScopedCache that TLC checks: a chain of three levels;  *)
(* and an organisation with two kinds of members, beside a second tree.    *)
(* At the top there are two identifiers, one of which begins with the      *)
(* other, "1" and "12"; below, members of different organisations have the *)
(* same identifier.                                                        *)
(***************************************************************************)
EXTENDS ScopedRefinement, TLC

Params == "global" :> "" @@ "organization" :> "org_id" @@ "user" :> "user_id"
          @@ "department" :> "dept_id" @@ "car" :> "car_id"

Tree(children) == [children |-> children, param |-> Params]

Departments ==
  "global" :> <<"organization">> @@ "organization" :> <<"department">>
  @@ "department" :> <<"user">> @@ "user" :> <<>>

TwoTrees ==
  "global" :> <<"organization", "car">> @@ "organization" :> <<"department", "user">>
  @@ "department" :> <<>> @@ "user" :> <<>> @@ "car" :> <<>>

BothConfigs == {Tree(Departments), Tree(TwoTrees)}
OnlyTwoTrees == {Tree(TwoTrees)}

Identifiers ==
  [p \in {"org_id", "dept_id", "user_id", "car_id"} |->
     IF p \in {"org_id", "car_id"} THEN {<<"1">>, <<"1", "2">>} ELSE {<<"1">>}]

MCFunctions ==
  {[id |-> "f1", name |-> "get_profile", scope |-> "user", ttl |-> 60],
   [id |-> "f2", name |-> "get_settings", scope |-> "organization", ttl |-> 60],
   [id |-> "f3", name |-> "get_quote", scope |-> "organization", ttl |-> 0]}

(* The call "a" passes a parameter by position, of a level that is on the   *)
(* way to no function's scope.                                              *)
MCPositional == "a" :> ("car_id" :> <<"1">>) @@ "handle" :> [p \in {} |-> <<>>]

MCTokens ==
  {":", "/", "1", "2", "global", "organization", "department", "user", "car",
   "__programmatic__", "get_profile", "get_settings", "get_quote"}

(* Where extra parameters are not passed, the callers keep to all that the  *)
(* theorems of ScopedCacheProofs ask of them.                               *)
ASSUME CallersKeepToHypotheses ==
  ~ExtraParams => ParamsAreOwn /\ ParamsAreNamed /\ NamesAreDistinct /\ NoSlashes

(* What a call does does not depend on the last answer, so that states that *)
(* differ in it alone need be explored once.                                *)
WithoutAnswer == <<config, store, process>>

=============================================================================
