----------------------------- MODULE ScopeProofs -----------------------------
(***************************************************************************)
(* What the algorithms on scopes, paths and keys compute, for any scope    *)
(* tree and any text: the lemmas that ScopedCacheProofs rests on.          *)
(***************************************************************************)
EXTENDS ScopedRefinement, SequenceTheorems, FiniteSetTheorems, WellFoundedInduction, TLAPS

-----------------------------------------------------------------------------
(* Induction over numbers, with a set for the predicate; and the existence  *)
(* of a function defined by recursion on what is nearer the bottom.         *)

LEMMA LeastNumber ==
  ASSUME NEW S \in SUBSET Nat, S # {}
  PROVE  \E n \in S : \A m \in S : n <= m
<1> DEFINE Less == {p \in Nat \X Nat : p[1] < p[2]}
<1>1. IsWellFoundedOn(Less, Nat)
  <2>1. OpToRel(<, Nat) = Less
    BY DEF OpToRel
  <2> QED BY <2>1, NatLessThanWellFounded
<1>2. \A m, n \in Nat : <<m, n>> \in Less <=> m < n
  OBVIOUS
<1> HIDE DEF Less
<1>3. PICK n \in S : \A m \in S : ~(<<m, n>> \in Less)
  BY <1>1, WFMin
<1>4. \A m \in S : ~(m < n)
  BY <1>2, <1>3
<1> QED BY <1>4

LEMMA Induction ==
  ASSUME NEW S \in SUBSET Nat, 0 \in S, \A n \in S : n + 1 \in S
  PROVE  S = Nat
<1> SUFFICES ASSUME Nat \ S # {} PROVE FALSE
  OBVIOUS
<1>1. PICK n \in Nat \ S : \A m \in Nat \ S : n <= m
  BY LeastNumber
<1>2. n # 0 /\ n - 1 \in Nat /\ n - 1 \in S
  BY <1>1
<1> QED BY <1>1, <1>2

(* What holds of d whenever it holds of all of lower rank holds of all. *)
IsInductive(D, rank, P) ==
  \A d \in D : (\A e \in D : rank[e] < rank[d] => e \in P) => d \in P

LEMMA RankInduction ==
  ASSUME NEW D, NEW N \in Nat, NEW rank \in [D -> 0..N], NEW P \in SUBSET D,
         IsInductive(D, rank, P)
  PROVE  P = D
<1> USE DEF IsInductive
<1> DEFINE S == {n \in Nat : \A d \in D : rank[d] < n => d \in P}
<1>1. \A d \in D : rank[d] \in Nat /\ rank[d] < N + 1
  <2>1. \A m \in 0..N : m \in Nat /\ m < N + 1
    OBVIOUS
  <2> QED BY <2>1
<1>2. 0 \in S
  BY <1>1
<1>3. ASSUME NEW n \in S PROVE n + 1 \in S
  <2>1. ASSUME NEW d \in D, rank[d] < n + 1 PROVE d \in P
    <3>1. \A r, m \in Nat : r < m /\ m < n + 1 => r < n
      OBVIOUS
    <3>2. \A e \in D : rank[e] < rank[d] => e \in P
      BY <1>1, <2>1, <3>1
    <3> QED BY <3>2
  <2> QED BY <2>1
<1>4. S \in SUBSET Nat /\ N + 1 \in Nat
  OBVIOUS
<1> HIDE DEF S
<1>5. N + 1 \in S
  BY <1>2, <1>3, <1>4, Induction
<1> QED BY <1>1, <1>5 DEF S

(* step[d][f] is the value at d, given f where the rank is lower. *)
IsRecursive(D, T, rank, step) ==
  /\ step \in [D -> [[D -> T] -> T]]
  /\ \A d \in D : \A f, g \in [D -> T] :
       (\A e \in D : rank[e] < rank[d] => f[e] = g[e]) => step[d][f] = step[d][g]

HasSolution(D, T, step) == \E f \in [D -> T] : \A d \in D : f[d] = step[d][f]

LEMMA Recursion ==
  ASSUME NEW D, NEW T, T # {}, NEW N \in Nat, NEW rank \in [D -> 0..N],
         NEW step, IsRecursive(D, T, rank, step)
  PROVE  HasSolution(D, T, step)
<1> USE DEF IsRecursive
<1> DEFINE Good(n, f) == \A d \in D : rank[d] < n => f[d] = step[d][f]
           S == {n \in Nat : \E f \in [D -> T] : Good(n, f)}
<1>1. 0 \in S
  <2>1. PICK v \in T : TRUE
    OBVIOUS
  <2>2. [d \in D |-> v] \in [D -> T]
    BY <2>1
  <2>3. Good(0, [d \in D |-> v])
    OBVIOUS
  <2> QED BY <2>2, <2>3
<1>2. ASSUME NEW n \in Nat, NEW f \in [D -> T], Good(n, f)
      PROVE  \E g \in [D -> T] : Good(n + 1, g)
  <2> DEFINE g == [d \in D |-> IF rank[d] = n THEN step[d][f] ELSE f[d]]
  <2>1. g \in [D -> T]
    OBVIOUS
  <2>2. \A d \in D : g[d] = IF rank[d] = n THEN step[d][f] ELSE f[d]
    OBVIOUS
  <2> HIDE DEF g
  <2>3. ASSUME NEW d \in D, rank[d] < n + 1 PROVE g[d] = step[d][g]
    <3>1. \A e \in D : rank[e] < rank[d] => f[e] = g[e]
      BY <2>2, <2>3
    <3>2. step[d][f] = step[d][g]
      BY <2>1, <3>1
    <3>3. CASE rank[d] = n
      BY <2>2, <3>2, <3>3
    <3>4. CASE rank[d] # n
      <4>1. rank[d] < n
        <5>1. \A r, m \in Nat : r < m + 1 /\ r # m => r < m
          OBVIOUS
        <5>2. rank[d] \in Nat
          OBVIOUS
        <5> QED BY <2>3, <3>4, <5>1, <5>2
      <4>2. f[d] = step[d][f]
        BY <1>2, <4>1
      <4> QED BY <2>2, <3>2, <3>4, <4>2
    <3> QED BY <3>3, <3>4
  <2>4. Good(n + 1, g)
    BY <2>3
  <2> QED BY <2>1, <2>4
<1>3. \A d \in D : rank[d] < N + 1
  <2>1. \A m \in 0..N : m < N + 1
    OBVIOUS
  <2> QED BY <2>1
<1> HIDE DEF Good
<1>4. S \in SUBSET Nat /\ \A n \in S : n + 1 \in S
  <2>1. ASSUME NEW n \in S PROVE n + 1 \in S
    <3>1. PICK f \in [D -> T] : Good(n, f)
      OBVIOUS
    <3> QED BY <1>2, <3>1
  <2> QED BY <2>1
<1>5. S = Nat
  <2> HIDE DEF S
  <2> QED BY <1>1, <1>4, Induction
<1>6. PICK f \in [D -> T] : Good(N + 1, f)
  <2>1. N + 1 \in Nat
    OBVIOUS
  <2> HIDE DEF S
  <2>2. N + 1 \in S
    BY <1>5, <2>1
  <2> QED BY <2>2 DEF S
<1> QED BY <1>3, <1>6 DEF Good, HasSolution

-----------------------------------------------------------------------------
(* The tree of levels. *)

LEMMA ToSetAppend ==
  ASSUME NEW S, NEW s \in Seq(S), NEW e \in S
  PROVE  ToSet(Append(s, e)) = ToSet(s) \cup {e}
<1> DEFINE a == Append(s, e)
<1>1. /\ a \in Seq(S) /\ Len(a) = Len(s) + 1
      /\ \A i \in 1..Len(s) : a[i] = s[i]
      /\ a[Len(s) + 1] = e
  BY AppendProperties
<1> HIDE DEF a
<1>2. DOMAIN a = 1..Len(s) + 1 /\ DOMAIN s = 1..Len(s) /\ Len(s) \in Nat
  BY <1>1, LenProperties
<1>3. ASSUME NEW x \in ToSet(a) PROVE x \in ToSet(s) \cup {e}
  <2>1. PICK i \in 1..Len(s) + 1 : a[i] = x
    BY <1>2 DEF ToSet
  <2>2. i \in 1..Len(s) \/ i = Len(s) + 1
    BY <1>2
  <2> QED BY <1>1, <1>2, <2>1, <2>2 DEF ToSet
<1>4. ASSUME NEW x \in ToSet(s) \cup {e} PROVE x \in ToSet(a)
  <2>1. CASE x \in ToSet(s)
    <3>1. PICK i \in 1..Len(s) : s[i] = x
      BY <1>2, <2>1 DEF ToSet
    <3>2. i \in DOMAIN a /\ a[i] = x
      BY <1>1, <1>2, <3>1
    <3> QED BY <3>2 DEF ToSet
  <2>2. CASE x = e
    <3>1. Len(s) + 1 \in DOMAIN a
      BY <1>2
    <3> QED BY <1>1, <2>2, <3>1 DEF ToSet
  <2> QED BY <2>1, <2>2
<1> QED BY <1>3, <1>4 DEF a

LEMMA ToSetOf ==
  ASSUME NEW S, NEW s \in Seq(S)
  PROVE  ToSet(s) \subseteq S /\ ToSet(<<>>) = {}
<1>1. DOMAIN s = 1..Len(s) /\ \A i \in 1..Len(s) : s[i] \in S
  BY LenProperties
<1> QED BY <1>1 DEF ToSet

(* Every level but the root has one parent. *)
LEMMA TreeShape ==
  ASSUME NEW c \in Configs
  PROVE  /\ Global \in LevelNames(c)
         /\ LevelNames(c) \subseteq Tokens \ {":", "/"}
         /\ \A p \in LevelNames(c) : c.children[p] \in Seq(LevelNames(c))
         /\ \A l \in Levels(c) :
              Parent(c, l) \in LevelNames(c) /\ l \in ToSet(c.children[Parent(c, l)])
         /\ \A p \in LevelNames(c) : \A l \in ToSet(c.children[p]) :
              l \in Levels(c) /\ Parent(c, l) = p
<1>1. IsNested(c) /\ NamesAreUnique(c) /\ LevelNames(c) \subseteq Tokens \ {":", "/"}
  BY ConfigsAssumption
<1>2. \A p \in LevelNames(c) : c.children[p] \in Seq(LevelNames(c))
  BY <1>1 DEF IsNested
<1>3. ASSUME NEW l \in Levels(c)
      PROVE  \E p \in LevelNames(c) :
               l \in ToSet(c.children[p]) /\ \A q \in LevelNames(c) : l \in ToSet(c.children[q]) => q = p
  <2>1. PICK p \in LevelNames(c) :
          /\ Cardinality({n \in DOMAIN c.children[p] : c.children[p][n] = l}) = 1
          /\ \A q \in LevelNames(c) \ {p} : l \notin ToSet(c.children[q])
    BY <1>1 DEF NamesAreUnique
  <2>2. {n \in DOMAIN c.children[p] : c.children[p][n] = l} # {}
    BY <2>1, FS_EmptySet
  <2>3. l \in ToSet(c.children[p])
    BY <2>2 DEF ToSet
  <2> QED BY <2>1, <2>3
<1>4. \A l \in Levels(c) :
        Parent(c, l) \in LevelNames(c) /\ l \in ToSet(c.children[Parent(c, l)])
  BY <1>3 DEF Parent
<1>5. ASSUME NEW p \in LevelNames(c), NEW l \in ToSet(c.children[p])
      PROVE  l \in Levels(c) /\ Parent(c, l) = p
  <2>1. l \in Levels(c)
    <3>1. l \in LevelNames(c)
      BY <1>2, ToSetOf
    <3>2. l # Global
      BY <1>1 DEF NamesAreUnique
    <3> QED BY <3>1, <3>2 DEF Levels
  <2> QED BY <1>3, <1>4, <2>1
<1> QED BY <1>1, <1>2, <1>4, <1>5 DEF IsNested

LEMMA TreeDepth ==
  ASSUME NEW c \in Configs
  PROVE  /\ Cardinality(LevelNames(c)) \in Nat
         /\ \E depth \in [LevelNames(c) -> 0..Cardinality(LevelNames(c))] :
              \A l \in Levels(c) : depth[l] = depth[Parent(c, l)] + 1
<1>1. IsNested(c)
  BY ConfigsAssumption
<1>2. Cardinality(LevelNames(c)) \in Nat
  BY <1>1, FS_CardinalityType DEF IsNested
<1>3. PICK depth \in [LevelNames(c) -> 0..Cardinality(LevelNames(c))] :
        \A p \in LevelNames(c) : \A l \in ToSet(c.children[p]) : depth[l] = depth[p] + 1
  BY <1>1 DEF IsNested
<1>4. \A l \in Levels(c) : depth[l] = depth[Parent(c, l)] + 1
  BY <1>3, TreeShape
<1> QED BY <1>2, <1>4

(* The way down to a level is the way down to its parent, and the level. *)
LEMMA PathDown ==
  ASSUME NEW c \in Configs
  PROVE  /\ PathToLevel(c, Global) = <<>>
         /\ \A l \in Levels(c) :
              PathToLevel(c, l) = Append(PathToLevel(c, Parent(c, l)), l)
         /\ \A l \in LevelNames(c) : PathToLevel(c, l) \in Seq(Levels(c))
<1> DEFINE D == LevelNames(c)
           T == Seq(Levels(c))
           N == Cardinality(D)
           E(f, m) == IF m = Global THEN <<>> ELSE Append(f[Parent(c, m)], m)
           step == [m \in D |-> [f \in [D -> T] |-> E(f, m)]]
           IsDown(f) == f = [m \in D |-> E(f, m)]
           Down == CHOOSE f : IsDown(f)
<1>1. PICK depth \in [D -> 0..N] : \A l \in Levels(c) : depth[l] = depth[Parent(c, l)] + 1
  BY TreeDepth
<1>2. \A l \in D : l = Global \/ (l \in Levels(c) /\ Parent(c, l) \in D)
  BY TreeShape DEF Levels
<1>3. ASSUME NEW m \in D, NEW f \in [D -> T] PROVE E(f, m) \in T
  BY <1>2
<1>4. ASSUME NEW m \in D, NEW f \in [D -> T], NEW g \in [D -> T],
             \A e \in D : depth[e] < depth[m] => f[e] = g[e]
      PROVE  E(f, m) = E(g, m)
  <2>1. CASE m = Global
    BY <2>1
  <2>2. CASE m # Global
    <3>1. m \in Levels(c) /\ Parent(c, m) \in D /\ depth[m] = depth[Parent(c, m)] + 1
      BY <1>1, <1>2, <2>2
    <3>2. depth[Parent(c, m)] \in Nat
      BY <1>1, <3>1, TreeDepth
    <3>3. f[Parent(c, m)] = g[Parent(c, m)]
      BY <1>4, <3>1, <3>2
    <3> QED BY <2>2, <3>3
  <2> QED BY <2>1, <2>2
<1>5. \A m \in D, f \in [D -> T] : step[m][f] = E(f, m)
  OBVIOUS
<1>6. step \in [D -> [[D -> T] -> T]]
  BY <1>3
<1>7. N \in Nat /\ T # {}
  BY TreeDepth, EmptySeq
<1>8. \E f \in [D -> T] : \A m \in D : f[m] = E(f, m)
  <2>1. \A m \in D : \A f, g \in [D -> T] :
          (\A e \in D : depth[e] < depth[m] => f[e] = g[e]) => step[m][f] = step[m][g]
    BY <1>4, <1>5
  <2> HIDE DEF step, E, T, N, D
  <2>2. IsRecursive(D, T, depth, step)
    BY <1>6, <2>1 DEF IsRecursive
  <2>3. HasSolution(D, T, step)
    BY <1>1, <1>7, <2>2, Recursion
  <2> QED BY <1>5, <2>3 DEF HasSolution
<1> HIDE DEF E, T, N
<1>9. \E f : IsDown(f)
  <2>1. PICK f \in [D -> T] : \A m \in D : f[m] = E(f, m)
    BY <1>8
  <2>2. f = [m \in D |-> E(f, m)]
    BY <2>1
  <2> QED BY <2>2
<1>10. IsDown(Down)
  BY <1>9
<1> HIDE DEF IsDown, Down
<1>11. \A m \in D : Down[m] = E(Down, m)
  BY <1>10 DEF IsDown
<1>12. PathToLevel(c, Global) = Down[Global] /\ \A l \in D : PathToLevel(c, l) = Down[l]
  BY DEF PathToLevel, Down, IsDown, E
<1>13. \A m \in D : Down[m] \in T
  <2> DEFINE P == {m \in D : Down[m] \in T}
  <2>1. ASSUME NEW m \in D, \A e \in D : depth[e] < depth[m] => e \in P PROVE m \in P
    <3>1. CASE m = Global
      <4>1. Down[m] = <<>>
        BY <1>11, <3>1 DEF E
      <4>2. <<>> \in Seq(Levels(c))
        BY EmptySeq
      <4> QED BY <4>1, <4>2 DEF T
    <3>2. CASE m # Global
      <4>1. m \in Levels(c) /\ Parent(c, m) \in D /\ depth[m] = depth[Parent(c, m)] + 1
        BY <1>1, <1>2, <3>2
      <4>2. depth[Parent(c, m)] \in Nat
        BY <1>1, <4>1, TreeDepth
      <4>3. Down[Parent(c, m)] \in T
        BY <2>1, <4>1, <4>2
      <4>4. Down[m] = Append(Down[Parent(c, m)], m)
        BY <1>11, <3>2 DEF E
      <4>5. Append(Down[Parent(c, m)], m) \in Seq(Levels(c))
        BY <4>1, <4>3, AppendProperties DEF T
      <4> QED BY <4>4, <4>5 DEF T
    <3> QED BY <3>1, <3>2
  <2>2. P \in SUBSET D
    OBVIOUS
  <2> HIDE DEF P, D
  <2>3. P = D
    <3>1. IsInductive(D, depth, P)
      BY <2>1 DEF IsInductive
    <3> QED BY <1>1, <1>7, <2>2, <3>1, RankInduction
  <2> QED BY <2>3 DEF P
<1>14. \A l \in Levels(c) : l \in D /\ l # Global /\ Parent(c, l) \in D
  BY TreeShape DEF Levels
<1>15. Down[Global] = <<>>
  BY <1>11, TreeShape DEF E
<1>16. \A l \in Levels(c) : Down[l] = Append(Down[Parent(c, l)], l)
  BY <1>11, <1>14 DEF E
<1> QED BY <1>12, <1>13, <1>14, <1>15, <1>16 DEF T

IsDepth(c, depth) ==
  /\ depth \in [LevelNames(c) -> 0..Cardinality(LevelNames(c))]
  /\ \A l \in Levels(c) : depth[l] = depth[Parent(c, l)] + 1

LEMMA HasDepth ==
  ASSUME NEW c \in Configs
  PROVE  \E depth : IsDepth(c, depth)
BY TreeDepth DEF IsDepth

LEMMA LevelsOnPath ==
  ASSUME NEW c \in Configs, NEW s \in Levels(c)
  PROVE  /\ ToSet(PathToLevel(c, Global)) = {}
         /\ ToSet(PathToLevel(c, s)) = ToSet(PathToLevel(c, Parent(c, s))) \cup {s}
         /\ ToSet(PathToLevel(c, s)) \subseteq Levels(c)
<1>1. Parent(c, s) \in LevelNames(c) /\ s \in LevelNames(c) /\ Global \in LevelNames(c)
  BY TreeShape DEF Levels
<1>2. /\ PathToLevel(c, Parent(c, s)) \in Seq(Levels(c)) /\ PathToLevel(c, s) \in Seq(Levels(c))
      /\ PathToLevel(c, Global) = <<>>
      /\ PathToLevel(c, s) = Append(PathToLevel(c, Parent(c, s)), s)
  BY <1>1, PathDown
<1> QED BY <1>2, ToSetAppend, ToSetOf

(* No two levels of a path are at one depth, and with a level the path has  *)
(* its parent.                                                              *)
PathIsChain(c, depth, s) ==
  /\ \A m \in ToSet(PathToLevel(c, s)) :
       /\ depth[m] <= depth[s]
       /\ Parent(c, m) = Global \/ Parent(c, m) \in ToSet(PathToLevel(c, s))
  /\ \A m, l \in ToSet(PathToLevel(c, s)) : depth[m] = depth[l] => m = l

LEMMA PathsAreChains ==
  ASSUME NEW c \in Configs, NEW depth, IsDepth(c, depth)
  PROVE  \A s \in LevelNames(c) : PathIsChain(c, depth, s)
<1> DEFINE D == LevelNames(c)
           N == Cardinality(D)
           P == {s \in D : PathIsChain(c, depth, s)}
<1>1. \A s \in D : depth[s] \in Nat
  <2>1. N \in Nat /\ \A n \in 0..N : n \in Nat
    BY TreeDepth
  <2> QED BY <2>1 DEF IsDepth
<1>2. ASSUME NEW s \in D, \A e \in D : depth[e] < depth[s] => e \in P PROVE s \in P
  <2>1. CASE s = Global
    <3>1. ToSet(PathToLevel(c, s)) = {}
      BY <2>1, PathDown, EmptySeq DEF ToSet
    <3> QED BY <3>1 DEF PathIsChain
  <2>2. CASE s # Global
    <3> DEFINE p == Parent(c, s)
    <3>1. s \in Levels(c) /\ p \in D /\ depth[s] = depth[p] + 1
      BY <2>2, TreeShape DEF IsDepth, Levels
    <3>2. /\ ToSet(PathToLevel(c, s)) = ToSet(PathToLevel(c, p)) \cup {s}
          /\ ToSet(PathToLevel(c, s)) \subseteq D
      BY <3>1, LevelsOnPath DEF Levels
    <3>3. PathIsChain(c, depth, p)
      <4>1. depth[p] < depth[s]
        BY <1>1, <3>1
      <4> QED BY <1>2, <3>1, <4>1
    <3>4. p = Global \/ p \in ToSet(PathToLevel(c, p))
      BY <3>1, LevelsOnPath DEF Levels
    <3> HIDE DEF p
    <3>5. \A m \in ToSet(PathToLevel(c, p)) : depth[m] < depth[s] /\ depth[m] <= depth[s]
      <4>1. \A m, n, k \in Nat : m <= n /\ k = n + 1 => m < k /\ m <= k
        OBVIOUS
      <4> QED BY <1>1, <3>1, <3>2, <3>3, <4>1 DEF PathIsChain
    <3>6. ASSUME NEW m \in ToSet(PathToLevel(c, s))
          PROVE  /\ depth[m] <= depth[s]
                 /\ Parent(c, m) = Global \/ Parent(c, m) \in ToSet(PathToLevel(c, s))
      <4>1. CASE m = s
        <5>1. depth[s] <= depth[s]
          BY <1>1
        <5> QED BY <3>2, <3>4, <4>1, <5>1 DEF p
      <4>2. CASE m # s
        BY <3>2, <3>3, <3>5, <4>2 DEF PathIsChain
      <4> QED BY <4>1, <4>2
    <3>7. ASSUME NEW m \in ToSet(PathToLevel(c, s)), NEW l \in ToSet(PathToLevel(c, s)),
                 depth[m] = depth[l]
          PROVE  m = l
      <4>1. ~(depth[s] < depth[s])
        BY <1>1
      <4>2. m = s <=> l = s
        BY <3>2, <3>5, <3>7, <4>1
      <4> QED BY <3>2, <3>3, <3>7, <4>2 DEF PathIsChain
    <3> QED BY <3>6, <3>7 DEF PathIsChain
  <2> QED BY <2>1, <2>2
<1>3. P \in SUBSET D /\ N \in Nat /\ depth \in [D -> 0..N]
  BY TreeDepth DEF IsDepth
<1> HIDE DEF P, D, N
<1>4. P = D
  <2>1. IsInductive(D, depth, P)
    BY <1>2 DEF IsInductive
  <2> QED BY <1>3, <2>1, RankInduction
<1> QED BY <1>4 DEF P, D

(* The path to a level of a path is the first part of it. *)
LEMMA PathOfPart ==
  ASSUME NEW c \in Configs, NEW s \in LevelNames(c), NEW m \in ToSet(PathToLevel(c, s))
  PROVE  ToSet(PathToLevel(c, m)) \subseteq ToSet(PathToLevel(c, s))
<1> DEFINE D == LevelNames(c)
           N == Cardinality(D)
           P == {l \in D : l \in ToSet(PathToLevel(c, s)) =>
                   ToSet(PathToLevel(c, l)) \subseteq ToSet(PathToLevel(c, s))}
<1>1. PICK depth : IsDepth(c, depth)
  BY HasDepth
<1>2. N \in Nat /\ depth \in [D -> 0..N] /\ P \in SUBSET D
  BY <1>1, TreeDepth DEF IsDepth
<1>3. ToSet(PathToLevel(c, s)) \subseteq Levels(c)
  <2>1. CASE s \in Levels(c)
    BY <2>1, LevelsOnPath
  <2>2. CASE s = Global
    BY <2>2, PathDown, EmptySeq DEF ToSet
  <2> QED BY <2>1, <2>2 DEF Levels
<1>4. ASSUME NEW l \in D, \A e \in D : depth[e] < depth[l] => e \in P PROVE l \in P
  <2> SUFFICES ASSUME l \in ToSet(PathToLevel(c, s))
               PROVE  ToSet(PathToLevel(c, l)) \subseteq ToSet(PathToLevel(c, s))
    OBVIOUS
  <2> DEFINE p == Parent(c, l)
  <2>1. l \in Levels(c) /\ p \in D /\ depth[l] = depth[p] + 1
    BY <1>1, <1>3, TreeShape DEF IsDepth
  <2>2. depth[p] < depth[l]
    <3>1. depth[p] \in 0..N
      BY <1>2, <2>1
    <3>2. \A n \in 0..N : n < n + 1
      BY <1>2
    <3> QED BY <2>1, <3>1, <3>2
  <2>3. p = Global \/ p \in ToSet(PathToLevel(c, s))
    BY <1>1, PathsAreChains DEF PathIsChain
  <2>4. ToSet(PathToLevel(c, p)) \subseteq ToSet(PathToLevel(c, s))
    <3>1. CASE p = Global
      BY <2>1, <3>1, LevelsOnPath
    <3>2. CASE p # Global
      BY <1>4, <2>1, <2>2, <2>3, <3>2
    <3> QED BY <3>1, <3>2
  <2> QED BY <2>1, <2>4, LevelsOnPath
<1> HIDE DEF P, D, N
<1>5. P = D
  <2>1. IsInductive(D, depth, P)
    BY <1>4 DEF IsInductive
  <2> QED BY <1>2, <2>1, RankInduction
<1> QED BY <1>3, <1>5 DEF P, D, Levels

-----------------------------------------------------------------------------
(* The descent of build_scope_path. *)

LEMMA FirstGivenBelow ==
  ASSUME NEW c \in Configs, NEW given, NEW l \in LevelNames(c), GivenBelow(c, l, given) # {}
  PROVE  /\ FirstGiven(c, l, given) \in ToSet(c.children[l])
         /\ c.param[FirstGiven(c, l, given)] \in DOMAIN given
<1> DEFINE S == GivenBelow(c, l, given)
<1>1. DOMAIN c.children[l] = 1..Len(c.children[l])
  BY TreeShape, LenProperties
<1>2. S \in SUBSET Nat
  BY <1>1 DEF GivenBelow
<1>3. \E n \in S : \A m \in S : n <= m
  BY <1>2, LeastNumber
<1>4. Min(S) \in S
  BY <1>3 DEF Min
<1> QED BY <1>4 DEF GivenBelow, FirstGiven, ToSet

(* The values of the parameters given are texts. *)
IsGiven(given) == \A p \in DOMAIN given : given[p] \in Seq(Tokens)

LEMMA SegmentIsText ==
  ASSUME NEW c \in Configs, NEW given, IsGiven(given),
         NEW l \in LevelNames(c), c.param[l] \in DOMAIN given
  PROVE  Segment(c, l, given) \in Seq(Tokens)
<1>1. given[c.param[l]] \in Seq(Tokens) /\ l \in Tokens
  BY TreeShape DEF IsGiven
<1>2. <<l, ":">> \in Seq(Tokens)
  <2>1. \A S : \A a, b \in S : <<a, b>> \in Seq(S)
    OBVIOUS
  <2>2. ":" \in Tokens
    BY TokensAssumption
  <2> QED BY <1>1, <2>1, <2>2
<1> QED BY <1>1, <1>2, ConcatProperties DEF Segment

NextSegments(c, given, f, l) ==
  IF GivenBelow(c, l, given) = {} THEN <<>>
  ELSE <<Segment(c, FirstGiven(c, l, given), given)>> \o f[FirstGiven(c, l, given)]

IsDescent(c, given, f) ==
  /\ f \in [LevelNames(c) -> Seq(Seq(Tokens))]
  /\ \A l \in LevelNames(c) : f[l] = NextSegments(c, given, f, l)

(* The segments below each level, by recursion on how deep the tree is there. *)
LEMMA DescentBuildsPath ==
  ASSUME NEW c \in Configs, NEW given, IsGiven(given)
  PROVE  \E f : /\ IsDescent(c, given, f)
                /\ BuildScopePath(c, given) = IF f[Global] = <<>> THEN <<Global>> ELSE Joined(f[Global])
<1> DEFINE D == LevelNames(c)
           T == Seq(Seq(Tokens))
           N == Cardinality(D)
           E(f, l) == NextSegments(c, given, f, l)
           step == [l \in D |-> [f \in [D -> T] |-> E(f, l)]]
           IsBelow(f) == f = [l \in D |-> IF GivenBelow(c, l, given) = {} THEN <<>>
             ELSE <<Segment(c, FirstGiven(c, l, given), given)>> \o f[FirstGiven(c, l, given)]]
           Below == CHOOSE f : IsBelow(f)
<1>1. PICK depth : IsDepth(c, depth)
  BY HasDepth
<1> DEFINE height == [l \in D |-> N - depth[l]]
<1>2. /\ N \in Nat /\ T # {} /\ <<>> \in T
      /\ \A l \in D : depth[l] \in 0..N
  BY <1>1, TreeDepth, EmptySeq DEF IsDepth
<1>3. height \in [D -> 0..N]
  <2>1. \A n \in 0..N : N - n \in 0..N
    BY <1>2
  <2> QED BY <1>2, <2>1
<1>4. ASSUME NEW l \in D, GivenBelow(c, l, given) # {}
      PROVE  /\ FirstGiven(c, l, given) \in D
             /\ height[FirstGiven(c, l, given)] < height[l]
             /\ Segment(c, FirstGiven(c, l, given), given) \in Seq(Tokens)
  <2> DEFINE m == FirstGiven(c, l, given)
  <2>1. m \in D /\ m \in Levels(c) /\ Parent(c, m) = l /\ c.param[m] \in DOMAIN given
    BY <1>4, FirstGivenBelow, TreeShape DEF Levels
  <2> HIDE DEF m
  <2>2. depth[m] = depth[l] + 1
    BY <1>1, <2>1 DEF IsDepth
  <2>3. height[m] < height[l]
    <3>1. \A i, j, n \in Int : i = j + 1 => n - i < n - j
      OBVIOUS
    <3>2. depth[m] \in Int /\ depth[l] \in Int /\ N \in Int
      BY <1>2, <2>1
    <3> QED BY <2>1, <2>2, <3>1, <3>2
  <2> QED BY <2>1, <2>3, SegmentIsText DEF m
<1> HIDE DEF height, N
<1>5. ASSUME NEW l \in D, NEW f \in [D -> T] PROVE E(f, l) \in T
  <2>1. CASE GivenBelow(c, l, given) = {}
    BY <1>2, <2>1 DEF NextSegments
  <2>2. CASE GivenBelow(c, l, given) # {}
    <3>1. <<Segment(c, FirstGiven(c, l, given), given)>> \in T
      BY <1>4, <2>2
    <3>2. f[FirstGiven(c, l, given)] \in T
      BY <1>4, <2>2
    <3> QED BY <2>2, <3>1, <3>2, ConcatProperties DEF NextSegments
  <2> QED BY <2>1, <2>2
<1>6. ASSUME NEW l \in D, NEW f, NEW g, \A e \in D : height[e] < height[l] => f[e] = g[e]
      PROVE  E(f, l) = E(g, l)
  BY <1>4, <1>6 DEF NextSegments
<1>7. \A l \in D, f \in [D -> T] : step[l][f] = E(f, l)
  OBVIOUS
<1>8. step \in [D -> [[D -> T] -> T]]
  BY <1>5
<1> HIDE DEF step, E, T, D
<1>9. IsRecursive(D, T, height, step)
  <2>1. \A l \in D : \A f, g \in [D -> T] :
          (\A e \in D : height[e] < height[l] => f[e] = g[e]) => step[l][f] = step[l][g]
    BY <1>6, <1>7
  <2> QED BY <1>8, <2>1 DEF IsRecursive
<1>10. HasSolution(D, T, step)
  BY <1>2, <1>3, <1>9, Recursion
<1>11. PICK f \in [D -> T] : \A l \in D : f[l] = E(f, l)
  BY <1>7, <1>10 DEF HasSolution
<1>12. \E h : IsBelow(h)
  <2>1. f = [l \in D |-> E(f, l)]
    BY <1>11
  <2> QED BY <2>1 DEF E, NextSegments
<1>13. IsBelow(Below)
  BY <1>12
<1>14. BuildScopePath(c, given) = IF Below[Global] = <<>> THEN <<Global>> ELSE Joined(Below[Global])
  BY DEF BuildScopePath, D
<1> HIDE DEF Below
<1>15. Below = [l \in D |-> Below[l]] /\ \A l \in D : Below[l] = E(Below, l)
  <2>1. Below = [l \in D |-> E(Below, l)]
    BY <1>13 DEF E, NextSegments
  <2> QED BY <2>1
<1>16. Below = f
  <2> DEFINE P == {l \in D : Below[l] = f[l]}
  <2>1. ASSUME NEW l \in D, \A e \in D : height[e] < height[l] => e \in P PROVE l \in P
    BY <1>6, <1>11, <1>15, <2>1
  <2>2. P \in SUBSET D
    OBVIOUS
  <2> HIDE DEF P
  <2>3. P = D
    <3>1. IsInductive(D, height, P)
      BY <2>1 DEF IsInductive
    <3> QED BY <1>2, <1>3, <2>2, <3>1, RankInduction
  <2>4. \A l \in D : Below[l] = f[l]
    BY <2>3 DEF P
  <2> QED BY <1>11, <1>15, <2>4
<1>17. IsDescent(c, given, f)
  BY <1>11 DEF IsDescent, E, T, D
<1> QED BY <1>14, <1>16, <1>17

SegmentsOf(c, path, given) == [n \in DOMAIN path |-> Segment(c, path[n], given)]

LEMMA SegmentsAppend ==
  ASSUME NEW c \in Configs, NEW given, IsGiven(given),
         NEW s \in Seq(Levels(c)), NEW l \in Levels(c),
         \A m \in ToSet(Append(s, l)) : c.param[m] \in DOMAIN given
  PROVE  /\ SegmentsOf(c, s, given) \in Seq(Seq(Tokens))
         /\ Segment(c, l, given) \in Seq(Tokens)
         /\ SegmentsOf(c, Append(s, l), given)
              = SegmentsOf(c, s, given) \o <<Segment(c, l, given)>>
<1> DEFINE a == Append(s, l)
           G(m) == Segment(c, m, given)
           u == SegmentsOf(c, s, given)
           v == SegmentsOf(c, a, given)
<1>1. /\ a \in Seq(Levels(c)) /\ Len(a) = Len(s) + 1 /\ Len(s) \in Nat
      /\ \A i \in 1..Len(s) : a[i] = s[i]
      /\ a[Len(s) + 1] = l
      /\ DOMAIN s = 1..Len(s) /\ DOMAIN a = 1..Len(s) + 1
  BY AppendProperties, LenProperties
<1>2. \A i \in 1..Len(s) + 1 : a[i] \in ToSet(a) /\ a[i] \in Levels(c)
  BY <1>1 DEF ToSet
<1> HIDE DEF a
<1>3. \A i \in 1..Len(s) + 1 : G(a[i]) \in Seq(Tokens)
  BY <1>2, SegmentIsText DEF Levels, a
<1>4. /\ u = [i \in 1..Len(s) |-> G(a[i])]
      /\ v = [i \in 1..Len(s) + 1 |-> G(a[i])]
  BY <1>1 DEF SegmentsOf
<1> HIDE DEF G, u, v
<1>5. u \in Seq(Seq(Tokens)) /\ Len(u) = Len(s) /\ \A i \in 1..Len(s) : u[i] = G(a[i])
  BY <1>1, <1>3, <1>4
<1>6. v \in Seq(Seq(Tokens)) /\ Len(v) = Len(s) + 1 /\ \A i \in 1..Len(s) + 1 : v[i] = G(a[i])
  BY <1>1, <1>3, <1>4
<1>7. G(l) \in Seq(Tokens)
  <2>1. Len(s) + 1 \in 1..Len(s) + 1
    BY <1>1
  <2> QED BY <1>1, <1>3, <2>1
<1>8. v = u \o <<G(l)>>
  <2> DEFINE x == <<G(l)>>
             w == u \o x
  <2>1. x \in Seq(Seq(Tokens)) /\ Len(x) = 1 /\ x[1] = G(l)
    BY <1>7
  <2> HIDE DEF x
  <2>2. w \in Seq(Seq(Tokens)) /\ Len(w) = Len(s) + 1
        /\ \A i \in 1..Len(s) + 1 : w[i] = IF i <= Len(s) THEN u[i] ELSE x[i - Len(s)]
    <3>1. u \in Seq(Seq(Tokens))
      BY <1>5
    <3>2. /\ w \in Seq(Seq(Tokens)) /\ Len(w) = Len(u) + Len(x)
          /\ \A i \in 1..Len(u) + Len(x) : w[i] = IF i <= Len(u) THEN u[i] ELSE x[i - Len(u)]
      BY <2>1, <3>1, ConcatProperties
    <3> QED BY <1>5, <2>1, <3>2
  <2> HIDE DEF w
  <2>3. ASSUME NEW i \in 1..Len(s) + 1 PROVE w[i] = v[i]
    <3>1. CASE i <= Len(s)
      <4>1. i \in 1..Len(s)
        BY <1>1, <3>1
      <4> QED BY <1>5, <1>6, <2>2, <3>1, <4>1
    <3>2. CASE ~(i <= Len(s))
      <4>1. i = Len(s) + 1 /\ i - Len(s) = 1
        BY <1>1, <3>2
      <4>2. w[i] = x[1]
        BY <2>2, <3>2, <4>1
      <4> QED BY <1>1, <1>6, <2>1, <4>1, <4>2
    <3> QED BY <3>1, <3>2
  <2>4. w = v
    BY <1>6, <2>2, <2>3, SeqEqual
  <2> QED BY <2>4 DEF w, x
<1> QED BY <1>5, <1>7, <1>8 DEF G, u, v, a

(* Given the parameters of a scope and no others, the descent ends there.   *)
LEMMA DescentToScope ==
  ASSUME NEW c \in Configs, ParamsAreUnique(c), NEW scope \in Levels(c),
         NEW given, IsGiven(given), DOMAIN given = ParamsOf(c, scope),
         NEW f, IsDescent(c, given, f)
  PROVE  f[Global] = SegmentsOf(c, PathToLevel(c, scope), given)
<1> DEFINE D == LevelNames(c)
           N == Cardinality(D)
           On == ToSet(PathToLevel(c, scope))
           Reached(l) == f[Global] = SegmentsOf(c, PathToLevel(c, l), given) \o f[l]
           P == {l \in D : (l = Global \/ l \in On) => Reached(l)}
<1>1. PICK depth : IsDepth(c, depth)
  BY HasDepth
<1>2. /\ \A l \in D : depth[l] \in Nat
      /\ Global \in D /\ scope \in D /\ scope \in On /\ On \subseteq Levels(c)
      /\ PathIsChain(c, depth, scope)
  <2>1. N \in Nat /\ \A n \in 0..N : n \in Nat
    BY TreeDepth
  <2>2. \A l \in D : depth[l] \in Nat
    BY <1>1, <2>1 DEF IsDepth
  <2>3. Global \in D /\ scope \in D
    BY TreeShape DEF Levels
  <2> QED BY <1>1, <2>2, <2>3, LevelsOnPath, PathsAreChains
<1>3. DOMAIN given = {c.param[m] : m \in On}
  BY DEF ParamsOf
<1> HIDE DEF On, N
<1>4. ASSUME NEW l \in D, NEW m \in ToSet(c.children[l]), c.param[m] \in DOMAIN given
      PROVE  m \in On /\ Parent(c, m) = l /\ depth[m] = depth[l] + 1
  <2>1. m \in Levels(c) /\ Parent(c, m) = l
    BY TreeShape
  <2>2. m \in On
    BY <1>2, <1>3, <1>4, <2>1 DEF ParamsAreUnique
  <2> QED BY <1>1, <2>1, <2>2 DEF IsDepth
<1>5. f[scope] = <<>>
  <2> SUFFICES ASSUME GivenBelow(c, scope, given) # {} PROVE FALSE
    BY <1>2 DEF IsDescent, NextSegments
  <2> DEFINE m == FirstGiven(c, scope, given)
  <2>1. m \in On /\ depth[m] = depth[scope] + 1
    BY <1>2, <1>4, FirstGivenBelow
  <2>2. depth[m] <= depth[scope]
    BY <1>2, <2>1 DEF PathIsChain, On
  <2> QED BY <1>2, <2>1, <2>2
<1>6. ASSUME NEW l \in On
      PROVE  /\ l \in Levels(c) /\ l \in D /\ Parent(c, l) \in D
             /\ depth[l] = depth[Parent(c, l)] + 1
             /\ Parent(c, l) = Global \/ Parent(c, l) \in On
             /\ GivenBelow(c, Parent(c, l), given) # {}
             /\ FirstGiven(c, Parent(c, l), given) = l
  <2> DEFINE p == Parent(c, l)
             m == FirstGiven(c, p, given)
  <2>1. l \in Levels(c) /\ l \in D /\ p \in D /\ l \in ToSet(c.children[p])
    BY <1>2, TreeShape DEF Levels
  <2>2. depth[l] = depth[p] + 1 /\ (p = Global \/ p \in On)
    BY <1>1, <1>2, <2>1 DEF PathIsChain, IsDepth, On
  <2>3. GivenBelow(c, p, given) # {}
    <3>1. PICK n \in DOMAIN c.children[p] : c.children[p][n] = l
      BY <2>1 DEF ToSet
    <3>2. c.param[l] \in DOMAIN given
      BY <1>3
    <3> QED BY <3>1, <3>2 DEF GivenBelow
  <2>4. m \in On /\ depth[m] = depth[p] + 1
    BY <1>4, <2>1, <2>3, FirstGivenBelow
  <2>5. m = l
    BY <1>2, <2>2, <2>4 DEF PathIsChain, On
  <2> QED BY <2>1, <2>2, <2>3, <2>5
<1>7. ASSUME NEW l \in D, \A e \in D : depth[e] < depth[l] => e \in P PROVE l \in P
  <2>1. CASE l = Global
    <3>1. PathToLevel(c, Global) = <<>> /\ f[Global] \in Seq(Seq(Tokens))
      BY <1>2, PathDown DEF IsDescent
    <3>2. SegmentsOf(c, <<>>, given) = <<>>
      BY DEF SegmentsOf
    <3> QED BY <2>1, <3>1, <3>2, ConcatEmptySeq
  <2>2. CASE l \in On
    <3> DEFINE p == Parent(c, l)
               path == PathToLevel(c, p)
               G == Segment(c, l, given)
    <3>1. /\ l \in Levels(c) /\ p \in D /\ depth[l] = depth[p] + 1 /\ (p = Global \/ p \in On)
          /\ GivenBelow(c, p, given) # {} /\ FirstGiven(c, p, given) = l
      BY <1>6, <2>2
    <3>2. Reached(p)
      <4>1. depth[p] < depth[l]
        BY <1>2, <3>1
      <4> QED BY <1>7, <3>1, <4>1
    <3>3. f[p] = <<G>> \o f[l] /\ f[l] \in Seq(Seq(Tokens))
      BY <3>1 DEF IsDescent, NextSegments
    <3>4. path \in Seq(Levels(c)) /\ PathToLevel(c, l) = Append(path, l)
      BY <3>1, PathDown
    <3>5. \A m \in ToSet(PathToLevel(c, l)) : c.param[m] \in DOMAIN given
      <4>1. ToSet(PathToLevel(c, l)) \subseteq On
        BY <1>2, <2>2, PathOfPart DEF On
      <4> QED BY <1>3, <4>1
    <3>6. /\ SegmentsOf(c, path, given) \in Seq(Seq(Tokens)) /\ G \in Seq(Tokens)
          /\ SegmentsOf(c, PathToLevel(c, l), given) = SegmentsOf(c, path, given) \o <<G>>
      BY <3>1, <3>4, <3>5, SegmentsAppend
    <3> HIDE DEF G, path, p
    <3>7. <<G>> \in Seq(Seq(Tokens))
      BY <3>6
    <3>8. SegmentsOf(c, path, given) \o (<<G>> \o f[l])
            = (SegmentsOf(c, path, given) \o <<G>>) \o f[l]
      <4> DEFINE upper == SegmentsOf(c, path, given)
                 here == <<G>>
                 lower == f[l]
                 T == Seq(Tokens)
      <4>1. upper \in Seq(T)
        BY <3>6
      <4>2. here \in Seq(T)
        BY <3>7
      <4>3. lower \in Seq(T)
        BY <3>3
      <4> HIDE DEF upper, here, lower, T
      <4>4. upper \o (here \o lower) = (upper \o here) \o lower
        BY <4>1, <4>2, <4>3, ConcatAssociative
      <4> QED BY <4>4 DEF upper, here, lower
    <3>9. f[Global] = SegmentsOf(c, path, given) \o f[p]
      BY <3>2 DEF path
    <3>10. f[Global] = SegmentsOf(c, PathToLevel(c, l), given) \o f[l]
      BY <3>3, <3>6, <3>8, <3>9
    <3> QED BY <3>3, <3>10
  <2> QED BY <2>1, <2>2
<1>8. P \in SUBSET D
  OBVIOUS
<1>9. N \in Nat /\ depth \in [D -> 0..N]
  BY <1>1, TreeDepth DEF IsDepth, N
<1> HIDE DEF P, D
<1>10. P = D
  <2>1. IsInductive(D, depth, P)
    BY <1>7 DEF IsInductive
  <2> QED BY <1>8, <1>9, <2>1, RankInduction
<1>11. Reached(scope)
  BY <1>2, <1>10 DEF P
<1>12. SegmentsOf(c, PathToLevel(c, scope), given) \in Seq(Seq(Tokens))
  <2>1. \A m \in On : Segment(c, m, given) \in Seq(Tokens)
    BY <1>2, <1>3, SegmentIsText DEF Levels
  <2> DEFINE path == PathToLevel(c, scope)
  <2>2. DOMAIN path = 1..Len(path) /\ Len(path) \in Nat
    BY <1>2, PathDown, LenProperties DEF D
  <2>3. \A n \in 1..Len(path) : path[n] \in On
    BY <2>2 DEF On, ToSet
  <2> HIDE DEF path
  <2> QED BY <2>1, <2>2, <2>3 DEF SegmentsOf, path
<1> QED BY <1>5, <1>11, <1>12, ConcatEmptySeq

-----------------------------------------------------------------------------
(* Joining segments with "/". *)

JoinUpto(parts, f, n) == IF n = 1 THEN parts[1] ELSE f[n - 1] \o <<"/">> \o parts[n]

IsJoin(parts, f) ==
  /\ f \in [1..Len(parts) -> Seq(Tokens)]
  /\ \A n \in 1..Len(parts) : f[n] = JoinUpto(parts, f, n)

LEMMA OneToken ==
  ASSUME NEW a \in Tokens
  PROVE  <<a>> \in Seq(Tokens) /\ Len(<<a>>) = 1 /\ <<a>>[1] = a
OBVIOUS

LEMMA JoinedUpto ==
  ASSUME NEW parts \in Seq(Seq(Tokens)), parts # <<>>
  PROVE  \E f : IsJoin(parts, f) /\ Joined(parts) = f[Len(parts)]
<1> DEFINE N == Len(parts)
           D == 1..N
           T == Seq(Tokens)
           E(f, n) == JoinUpto(parts, f, n)
           step == [n \in D |-> [f \in [D -> T] |-> E(f, n)]]
           rank == [n \in D |-> n]
           IsUpto(f) == f = [n \in D |-> IF n = 1 THEN parts[1] ELSE f[n - 1] \o <<"/">> \o parts[n]]
           Upto == CHOOSE f : IsUpto(f)
<1>1. /\ N \in Nat /\ N # 0 /\ DOMAIN parts = D /\ \A n \in D : parts[n] \in T
      /\ T # {}
  BY LenProperties, EmptySeq
<1>2. rank \in [D -> 0..N] /\ \A n \in D : rank[n] = n
  BY <1>1
<1>3. \A n \in D : n # 1 => n - 1 \in D /\ n - 1 < n
  BY <1>1
<1> HIDE DEF N, rank
<1>4. ASSUME NEW n \in D, NEW f \in [D -> T] PROVE E(f, n) \in T
  <2>1. CASE n = 1
    BY <1>1, <2>1 DEF JoinUpto
  <2>2. CASE n # 1
    <3> DEFINE x == <<"/">>
               y == f[n - 1]
               z == parts[n]
    <3>1. x \in T /\ y \in T /\ z \in T
      BY <1>1, <1>3, <2>2, OneToken, TokensAssumption
    <3> HIDE DEF x, y, z
    <3>2. y \o x \in T
      BY <3>1, ConcatProperties
    <3>3. (y \o x) \o z \in T
      BY <3>1, <3>2, ConcatProperties
    <3> QED BY <2>2, <3>3 DEF x, y, z, JoinUpto
  <2> QED BY <2>1, <2>2
<1>5. ASSUME NEW n \in D, NEW f, NEW g, \A e \in D : rank[e] < rank[n] => f[e] = g[e]
      PROVE  E(f, n) = E(g, n)
  BY <1>2, <1>3, <1>5 DEF JoinUpto
<1>6. \A n \in D, f \in [D -> T] : step[n][f] = E(f, n)
  OBVIOUS
<1>7. step \in [D -> [[D -> T] -> T]]
  BY <1>4
<1>8. DOMAIN parts = D
  BY <1>1
<1> HIDE DEF step, E, T, D
<1>9. IsRecursive(D, T, rank, step)
  <2>1. \A n \in D : \A f, g \in [D -> T] :
          (\A e \in D : rank[e] < rank[n] => f[e] = g[e]) => step[n][f] = step[n][g]
    BY <1>5, <1>6
  <2> QED BY <1>7, <2>1 DEF IsRecursive
<1>10. HasSolution(D, T, step)
  BY <1>1, <1>2, <1>9, Recursion
<1>11. PICK f \in [D -> T] : \A n \in D : f[n] = E(f, n)
  BY <1>6, <1>10 DEF HasSolution
<1>12. \E h : IsUpto(h)
  <2>1. f = [n \in D |-> E(f, n)]
    BY <1>11
  <2> QED BY <2>1 DEF E, JoinUpto
<1>13. IsUpto(Upto)
  BY <1>12
<1>14. Joined(parts) = Upto[N]
  BY <1>8 DEF Joined, N
<1> HIDE DEF Upto
<1>15. Upto = [n \in D |-> Upto[n]] /\ \A n \in D : Upto[n] = E(Upto, n)
  <2>1. Upto = [n \in D |-> E(Upto, n)]
    BY <1>13 DEF E, JoinUpto
  <2> QED BY <2>1
<1>16. Upto = f
  <2> DEFINE P == {n \in D : Upto[n] = f[n]}
  <2>1. ASSUME NEW n \in D, \A e \in D : rank[e] < rank[n] => e \in P PROVE n \in P
    BY <1>5, <1>11, <1>15, <2>1
  <2>2. P \in SUBSET D
    OBVIOUS
  <2> HIDE DEF P
  <2>3. P = D
    <3>1. N \in Nat /\ rank \in [D -> 0..N]
      BY <1>1, <1>2
    <3>2. IsInductive(D, rank, P)
      BY <2>1 DEF IsInductive
    <3> QED BY <2>2, <3>1, <3>2, RankInduction
  <2>4. \A n \in D : Upto[n] = f[n]
    BY <2>3 DEF P
  <2> QED BY <1>11, <1>15, <2>4
<1> QED BY <1>11, <1>14, <1>16 DEF IsJoin, E, T, D, N

LEMMA JoinedOne ==
  ASSUME NEW p \in Seq(Tokens)
  PROVE  Joined(<<p>>) = p
<1> DEFINE parts == <<p>>
<1>1. parts \in Seq(Seq(Tokens)) /\ Len(parts) = 1 /\ parts # <<>> /\ parts[1] = p
  OBVIOUS
<1> HIDE DEF parts
<1>2. PICK f : IsJoin(parts, f) /\ Joined(parts) = f[1]
  BY <1>1, JoinedUpto
<1>3. Joined(parts) = p
  BY <1>1, <1>2 DEF IsJoin, JoinUpto
<1> QED BY <1>3 DEF parts

LEMMA JoinedAppend ==
  ASSUME NEW parts \in Seq(Seq(Tokens)), parts # <<>>, NEW q \in Seq(Tokens)
  PROVE  /\ Joined(parts) \in Seq(Tokens)
         /\ Joined(Append(parts, q)) = Joined(parts) \o <<"/">> \o q
<1> DEFINE more == Append(parts, q)
           N == Len(parts)
           D == 1..N
           rank == [n \in D |-> n]
<1>1. /\ more \in Seq(Seq(Tokens)) /\ more # <<>> /\ Len(more) = N + 1
      /\ \A n \in D : more[n] = parts[n]
      /\ more[N + 1] = q
      /\ N \in Nat /\ N # 0
  BY AppendProperties, EmptySeq
<1> HIDE DEF more
<1>2. PICK f : IsJoin(parts, f) /\ Joined(parts) = f[N]
  BY JoinedUpto
<1>3. PICK g : IsJoin(more, g) /\ Joined(more) = g[N + 1]
  BY <1>1, JoinedUpto
<1>4. /\ N \in D /\ N + 1 \in 1..N + 1 /\ N + 1 # 1 /\ N + 1 - 1 = N /\ 1 \in D
      /\ \A n \in D : n \in 1..N + 1 /\ (n # 1 => n - 1 \in D /\ n - 1 < n)
  BY <1>1
<1>5. rank \in [D -> 0..N] /\ \A n \in D : rank[n] = n
  BY <1>1
<1>6. \A n \in D : f[n] = g[n]
  <2> DEFINE P == {n \in D : f[n] = g[n]}
  <2> HIDE DEF rank, D, N
  <2>1. ASSUME NEW n \in D, \A e \in D : rank[e] < rank[n] => e \in P PROVE n \in P
    <3>1. f[n] = JoinUpto(parts, f, n)
      BY <1>2 DEF IsJoin, D, N
    <3>2. g[n] = JoinUpto(more, g, n)
      BY <1>1, <1>3, <1>4 DEF IsJoin
    <3>3. n # 1 => f[n - 1] = g[n - 1]
      BY <1>4, <1>5, <2>1
    <3>4. more[n] = parts[n] /\ more[1] = parts[1]
      BY <1>1, <1>4
    <3> QED BY <3>1, <3>2, <3>3, <3>4 DEF JoinUpto
  <2>2. P \in SUBSET D
    OBVIOUS
  <2> HIDE DEF P
  <2>3. P = D
    <3>1. N \in Nat /\ rank \in [D -> 0..N]
      BY <1>1, <1>5
    <3>2. IsInductive(D, rank, P)
      BY <2>1 DEF IsInductive
    <3> QED BY <2>2, <3>1, <3>2, RankInduction
  <2> QED BY <2>3 DEF P
<1>7. g[N + 1] = g[N] \o <<"/">> \o q
  <2>1. g[N + 1] = JoinUpto(more, g, N + 1)
    BY <1>1, <1>3, <1>4 DEF IsJoin
  <2> HIDE DEF N, D
  <2>2. ASSUME NEW m, m # 1 PROVE JoinUpto(more, g, m) = g[m - 1] \o <<"/">> \o more[m]
    BY <2>2 DEF JoinUpto
  <2> DEFINE M == N + 1
  <2>3. M # 1
    BY <1>1
  <2>4. M - 1 = N /\ more[M] = q /\ g[M] = JoinUpto(more, g, M)
    BY <1>1, <1>4, <2>1
  <2> HIDE DEF M
  <2>5. JoinUpto(more, g, M) = g[M - 1] \o <<"/">> \o more[M]
    BY <2>2, <2>3, Zenon
  <2>6. g[M] = g[N] \o <<"/">> \o q
    BY <2>4, <2>5
  <2> QED BY <2>6 DEF M
<1>8. f[N] \in Seq(Tokens)
  BY <1>2, <1>4 DEF IsJoin
<1> QED BY <1>2, <1>3, <1>4, <1>6, <1>7, <1>8 DEF more

-----------------------------------------------------------------------------
(* Texts: what is in front of a "/", and what is behind it. *)

LEMMA SequenceInduction ==
  ASSUME NEW S, NEW P \in SUBSET Seq(S), <<>> \in P,
         \A s \in P : \A e \in S : Append(s, e) \in P
  PROVE  P = Seq(S)
<1> DEFINE L == {n \in Nat : \A s \in Seq(S) : Len(s) = n => s \in P}
<1>1. 0 \in L
  BY EmptySeq
<1>2. ASSUME NEW n \in L PROVE n + 1 \in L
  <2>1. ASSUME NEW s \in Seq(S), Len(s) = n + 1 PROVE s \in P
    <3>1. s # <<>>
      BY <1>2, <2>1, EmptySeq
    <3>2. PICK t \in Seq(S), e \in S : s = Append(t, e)
      BY <3>1, SequenceEmptyOrAppend
    <3>3. Len(t) = n
      <4>1. Len(s) = Len(t) + 1 /\ Len(t) \in Nat
        BY <3>2, AppendProperties, LenProperties
      <4> QED BY <1>2, <2>1, <4>1
    <3> QED BY <1>2, <3>2, <3>3
  <2> QED BY <1>2, <2>1
<1>3. L \in SUBSET Nat
  OBVIOUS
<1> HIDE DEF L
<1>4. L = Nat
  BY <1>1, <1>2, <1>3, Induction
<1>5. \A s \in Seq(S) : Len(s) \in Nat
  BY LenProperties
<1> QED BY <1>4, <1>5 DEF L

LEMMA PrefixPointwise ==
  ASSUME NEW S, NEW s \in Seq(S), NEW t \in Seq(S)
  PROVE  IsPrefix(s, t) <=> Len(s) <= Len(t) /\ \A i \in 1..Len(s) : s[i] = t[i]
<1>1. /\ Len(s) \in Nat /\ Len(t) \in Nat
      /\ \A i \in 1..Len(s) : s[i] \in S
      /\ \A i \in 1..Len(t) : t[i] \in S
  BY LenProperties
<1>2. CASE Len(s) <= Len(t)
  <2> DEFINE u == SubSeq(t, 1, Len(s))
  <2>1. \A i \in 1..Len(s) : t[i] \in S
    BY <1>1, <1>2
  <2>2. u \in Seq(S) /\ Len(u) = Len(s) /\ \A i \in 1..Len(s) : u[i] = t[i]
    <3>1. /\ u \in Seq(S) /\ Len(u) = (IF 1 <= Len(s) THEN Len(s) - 1 + 1 ELSE 0)
          /\ \A i \in 1..(Len(s) - 1 + 1) : u[i] = t[1 + i - 1]
      BY <1>1, <2>1, SubSeqProperties
    <3> HIDE DEF u
    <3>2. \A i \in 1..Len(s) : i \in 1..(Len(s) - 1 + 1) /\ 1 + i - 1 = i
      BY <1>1
    <3> QED BY <1>1, <3>1, <3>2
  <2>3. SubSeq(s, 1, Len(s)) = s
    BY SubSeqFull
  <2> HIDE DEF u
  <2>4. s = u <=> \A i \in 1..Len(s) : s[i] = t[i]
    BY <2>2, SeqEqual
  <2> QED BY <1>2, <2>3, <2>4 DEF IsPrefix, u
<1>3. CASE ~(Len(s) <= Len(t))
  BY <1>3 DEF IsPrefix
<1> QED BY <1>2, <1>3

(* A text, a separator and another text. *)
Under(A, a) == A \o <<"/">> \o a

LEMMA UnderShape ==
  ASSUME NEW A \in Seq(Tokens), NEW a \in Seq(Tokens)
  PROVE  /\ Under(A, a) \in Seq(Tokens)
         /\ Len(Under(A, a)) = Len(A) + 1 + Len(a)
         /\ \A i \in 1..Len(A) : Under(A, a)[i] = A[i]
         /\ Under(A, a)[Len(A) + 1] = "/"
         /\ \A i \in 1..Len(a) : Under(A, a)[Len(A) + 1 + i] = a[i]
<1> DEFINE x == <<"/">>
           y == A \o x
           z == y \o a
<1>1. x \in Seq(Tokens) /\ Len(x) = 1 /\ x[1] = "/" /\ Len(A) \in Nat /\ Len(a) \in Nat
  BY OneToken, TokensAssumption, LenProperties
<1> HIDE DEF x
<1>2. /\ y \in Seq(Tokens) /\ Len(y) = Len(A) + Len(x)
      /\ \A i \in 1..Len(A) + Len(x) : y[i] = IF i <= Len(A) THEN A[i] ELSE x[i - Len(A)]
  BY <1>1, ConcatProperties
<1> HIDE DEF y
<1>3. /\ z \in Seq(Tokens) /\ Len(z) = Len(y) + Len(a)
      /\ \A i \in 1..Len(y) + Len(a) : z[i] = IF i <= Len(y) THEN y[i] ELSE a[i - Len(y)]
  <2>1. y \in Seq(Tokens)
    BY <1>2
  <2> QED BY <2>1, ConcatProperties
<1> HIDE DEF z
<1>4. Len(y) = Len(A) + 1 /\ Len(z) = Len(A) + 1 + Len(a)
  BY <1>1, <1>2, <1>3
<1>5. ASSUME NEW i \in 1..Len(A) PROVE z[i] = A[i]
  <2>1. /\ i \in 1..Len(A) + Len(x) /\ i <= Len(A)
        /\ i \in 1..Len(y) + Len(a) /\ i <= Len(y)
    BY <1>1, <1>4
  <2> QED BY <1>2, <1>3, <2>1
<1>6. z[Len(A) + 1] = "/"
  <2> DEFINE n == Len(A) + 1
  <2>1. /\ n \in 1..Len(A) + Len(x) /\ ~(n <= Len(A)) /\ n - Len(A) = 1
        /\ n \in 1..Len(y) + Len(a) /\ n <= Len(y)
    BY <1>1, <1>4
  <2> HIDE DEF n
  <2>2. z[n] = y[n] /\ y[n] = x[1]
    BY <1>2, <1>3, <2>1
  <2> QED BY <1>1, <2>2 DEF n
<1>7. ASSUME NEW i \in 1..Len(a) PROVE z[Len(A) + 1 + i] = a[i]
  <2> DEFINE n == Len(A) + 1 + i
  <2>1. n \in 1..Len(y) + Len(a) /\ ~(n <= Len(y)) /\ n - Len(y) = i
    BY <1>1, <1>4
  <2> HIDE DEF n
  <2>2. z[n] = a[i]
    BY <1>3, <2>1
  <2> QED BY <2>2 DEF n
<1>8. z = Under(A, a)
  BY DEF Under, z, y, x
<1>9. /\ z \in Seq(Tokens) /\ Len(z) = Len(A) + 1 + Len(a)
      /\ \A i \in 1..Len(A) : z[i] = A[i]
      /\ z[Len(A) + 1] = "/"
      /\ \A i \in 1..Len(a) : z[Len(A) + 1 + i] = a[i]
  BY <1>3, <1>4, <1>5, <1>6, <1>7
<1> QED BY <1>8, <1>9

LEMMA LastSlash ==
  ASSUME NEW A \in Seq(Tokens), NEW a \in Seq(Tokens),
         NEW B \in Seq(Tokens), NEW b \in Seq(Tokens),
         NoSlash(b), Len(A) > Len(B), Len(A) <= Len(B) + Len(b),
         Under(A, a)[Len(A) + 1] = Under(B, b)[Len(A) + 1]
  PROVE  FALSE
<1>1. Len(A) \in Nat /\ Len(B) \in Nat /\ Len(b) \in Nat
  BY LenProperties
<1> DEFINE i == Len(A) - Len(B)
<1>2. i \in 1..Len(b) /\ Len(B) + 1 + i = Len(A) + 1
  BY <1>1
<1> HIDE DEF i
<1>3. Under(B, b)[Len(B) + 1 + i] = b[i]
  BY <1>2, UnderShape
<1>4. Under(A, a)[Len(A) + 1] = "/"
  BY UnderShape
<1> QED BY <1>2, <1>3, <1>4 DEF NoSlash

(* The last "/" of a text splits it in one way. *)
LEMMA SplitAtLast ==
  ASSUME NEW A \in Seq(Tokens), NEW a \in Seq(Tokens),
         NEW B \in Seq(Tokens), NEW b \in Seq(Tokens),
         NoSlash(a), NoSlash(b), Under(A, a) = Under(B, b)
  PROVE  A = B /\ a = b
<1>1. /\ Len(A) \in Nat /\ Len(B) \in Nat /\ Len(a) \in Nat /\ Len(b) \in Nat
      /\ Len(A) + 1 + Len(a) = Len(B) + 1 + Len(b)
  <2>1. Len(A) \in Nat /\ Len(B) \in Nat /\ Len(a) \in Nat /\ Len(b) \in Nat
    BY LenProperties
  <2>2. /\ Len(Under(A, a)) = Len(A) + 1 + Len(a)
        /\ Len(Under(B, b)) = Len(B) + 1 + Len(b)
    BY UnderShape
  <2> QED BY <2>1, <2>2
<1>2. ~(Len(A) > Len(B))
  <2> SUFFICES ASSUME Len(A) > Len(B) PROVE FALSE
    OBVIOUS
  <2>1. Len(A) <= Len(B) + Len(b)
    BY <1>1
  <2> QED BY <2>1, LastSlash
<1>3. ~(Len(B) > Len(A))
  <2> SUFFICES ASSUME Len(B) > Len(A) PROVE FALSE
    OBVIOUS
  <2>1. Len(B) <= Len(A) + Len(a)
    BY <1>1
  <2> QED BY <2>1, LastSlash
<1>4. Len(A) = Len(B) /\ Len(a) = Len(b)
  BY <1>1, <1>2, <1>3
<1> DEFINE u == Under(A, a)
<1>5. /\ \A i \in 1..Len(A) : u[i] = A[i]
      /\ \A i \in 1..Len(a) : u[Len(A) + 1 + i] = a[i]
  BY UnderShape
<1>6. /\ \A i \in 1..Len(B) : u[i] = B[i]
      /\ \A i \in 1..Len(b) : u[Len(B) + 1 + i] = b[i]
  <2>1. u = Under(B, b)
    OBVIOUS
  <2> HIDE DEF u
  <2> QED BY <2>1, UnderShape
<1> HIDE DEF u
<1>7. A = B
  <2>1. \A i \in 1..Len(A) : A[i] = B[i]
    BY <1>4, <1>5, <1>6
  <2> QED BY <1>4, <2>1, SeqEqual
<1>8. a = b
  <2>1. \A i \in 1..Len(a) : a[i] = b[i]
    BY <1>4, <1>5, <1>6
  <2> QED BY <1>4, <2>1, SeqEqual
<1> QED BY <1>7, <1>8

(* What is before a "/" of the text Y/y is Y, or before a "/" of Y. *)
LEMMA PrefixOfUnder ==
  ASSUME NEW X \in Seq(Tokens), NEW Y \in Seq(Tokens), NEW y \in Seq(Tokens), NoSlash(y)
  PROVE  IsPrefix(X \o <<"/">>, Under(Y, y)) <=> X = Y \/ IsPrefix(X \o <<"/">>, Y)
<1> DEFINE x == X \o <<"/">>
           u == Under(Y, y)
<1>1. /\ Len(X) \in Nat /\ Len(Y) \in Nat /\ Len(y) \in Nat
      /\ u \in Seq(Tokens) /\ Len(u) = Len(Y) + 1 + Len(y)
      /\ \A i \in 1..Len(Y) : u[i] = Y[i]
      /\ u[Len(Y) + 1] = "/"
  BY UnderShape, LenProperties
<1>2. /\ x \in Seq(Tokens) /\ Len(x) = Len(X) + 1
      /\ \A i \in 1..Len(X) : x[i] = X[i]
      /\ x[Len(X) + 1] = "/"
  <2> DEFINE s == <<"/">>
  <2>1. s \in Seq(Tokens) /\ Len(s) = 1 /\ s[1] = "/"
    BY OneToken, TokensAssumption
  <2> HIDE DEF s
  <2>2. /\ X \o s \in Seq(Tokens) /\ Len(X \o s) = Len(X) + Len(s)
        /\ \A i \in 1..Len(X) + Len(s) : (X \o s)[i] = IF i <= Len(X) THEN X[i] ELSE s[i - Len(X)]
    BY <2>1, ConcatProperties
  <2>3. \A i \in 1..Len(X) : i \in 1..Len(X) + 1 /\ i <= Len(X)
    BY <1>1
  <2>4. Len(X) + 1 \in 1..Len(X) + 1 /\ ~(Len(X) + 1 <= Len(X)) /\ Len(X) + 1 - Len(X) = 1
    BY <1>1
  <2> HIDE DEF x
  <2>5. x = X \o s
    BY DEF x, s
  <2> QED BY <2>1, <2>2, <2>3, <2>4, <2>5
<1> HIDE DEF x, u
<1>8. u \in Seq(Tokens)
  BY <1>1
<1>9. x \in Seq(Tokens)
  BY <1>2
<1>3. IsPrefix(x, u) <=> Len(x) <= Len(u) /\ \A i \in 1..Len(x) : x[i] = u[i]
  BY <1>8, <1>9, PrefixPointwise
<1>4. IsPrefix(x, Y) <=> Len(x) <= Len(Y) /\ \A i \in 1..Len(x) : x[i] = Y[i]
  BY <1>9, PrefixPointwise
<1>5. ASSUME IsPrefix(x, Y) PROVE IsPrefix(x, u)
  <2>1. Len(x) <= Len(Y) /\ \A i \in 1..Len(x) : x[i] = Y[i]
    BY <1>4, <1>5
  <2>2. Len(x) <= Len(u) /\ \A i \in 1..Len(x) : i \in 1..Len(Y)
    BY <1>1, <1>2, <2>1
  <2> QED BY <1>1, <1>3, <2>1, <2>2
<1>6. ASSUME X = Y PROVE IsPrefix(x, u)
  <2>1. Len(x) <= Len(u) /\ \A i \in 1..Len(x) : i \in 1..Len(X) \/ i = Len(X) + 1
    BY <1>1, <1>2, <1>6
  <2> QED BY <1>1, <1>2, <1>3, <1>6, <2>1
<1>7. ASSUME IsPrefix(x, u) PROVE X = Y \/ IsPrefix(x, Y)
  <2>1. Len(x) <= Len(u) /\ \A i \in 1..Len(x) : x[i] = u[i]
    BY <1>3, <1>7
  <2>2. CASE Len(X) > Len(Y)
    <3>1. Len(X) <= Len(Y) + Len(y) /\ Len(X) + 1 \in 1..Len(x)
      BY <1>1, <1>2, <2>1
    <3>2. u[Len(X) + 1] = "/"
      BY <1>2, <2>1, <3>1
    <3>3. <<>> \in Seq(Tokens) /\ Under(X, <<>>)[Len(X) + 1] = "/"
      BY EmptySeq, UnderShape
    <3>4. Under(X, <<>>)[Len(X) + 1] = Under(Y, y)[Len(X) + 1]
      BY <3>2, <3>3 DEF u
    <3>5. <<>> \in Seq(Tokens) /\ Len(X) <= Len(Y) + Len(y)
      BY <3>1, <3>3
    <3> QED BY <2>2, <3>4, <3>5, LastSlash
  <2>3. CASE Len(X) = Len(Y)
    <3>1. \A i \in 1..Len(X) : i \in 1..Len(x)
      BY <1>1, <1>2
    <3>2. \A i \in 1..Len(X) : X[i] = Y[i]
      BY <1>1, <1>2, <2>1, <2>3, <3>1
    <3> QED BY <2>3, <3>2, SeqEqual
  <2>4. CASE Len(X) < Len(Y)
    <3>1. Len(x) <= Len(Y) /\ \A i \in 1..Len(x) : i \in 1..Len(Y)
      BY <1>1, <1>2, <2>4
    <3> QED BY <1>1, <1>4, <2>1, <3>1
  <2> QED BY <1>1, <2>2, <2>3, <2>4
<1> QED BY <1>5, <1>6, <1>7 DEF x, u

-----------------------------------------------------------------------------
(* The texts of members and of places. *)

(* The name of a level, and the text of an identifier. *)
Members == (Tokens \ {":", "/"}) \X Values

SegmentOf(x) == <<x[1], ":">> \o x[2]

(* Not empty, and a ":" is neither at an end nor beside another. *)
IsClean(t) ==
  /\ t \in Seq(Tokens) /\ t # <<>> /\ t[1] # ":" /\ t[Len(t)] # ":"
  /\ \A n \in 1..Len(t) - 1 : ~(t[n] = ":" /\ t[n + 1] = ":")

LEMMA ValuesAreClean ==
  ASSUME NEW v \in Values
  PROVE  IsClean(v)
<1>1. PICK p \in DOMAIN ValueTexts : v \in ValueTexts[p]
  BY DEF Values
<1>2. /\ v \in Seq(Tokens) /\ v # <<>> /\ Head(v) # ":" /\ Last(v) # ":"
      /\ \A n \in 1..Len(v) - 1 : ~(v[n] = ":" /\ v[n + 1] = ":")
  BY <1>1, ValuesAssumption
<1>3. Head(v) = v[1] /\ Last(v) = v[Len(v)]
  BY <1>2 DEF Last
<1> QED BY <1>2, <1>3 DEF IsClean

LEMMA SegmentShape ==
  ASSUME NEW x \in Members
  PROVE  /\ SegmentOf(x) \in Seq(Tokens)
         /\ Len(SegmentOf(x)) = 2 + Len(x[2])
         /\ SegmentOf(x)[1] = x[1] /\ SegmentOf(x)[2] = ":"
         /\ \A i \in 1..Len(x[2]) : SegmentOf(x)[2 + i] = x[2][i]
         /\ x[1] \in Tokens \ {":", "/"} /\ x[2] \in Seq(Tokens) /\ Len(x[2]) \in Nat
<1> DEFINE h == <<x[1], ":">>
           v == x[2]
           s == h \o v
<1>1. x[1] \in Tokens \ {":", "/"} /\ v \in Seq(Tokens) /\ Len(v) \in Nat
  <2>1. x[1] \in Tokens \ {":", "/"} /\ v \in Values
    BY DEF Members
  <2>2. v \in Seq(Tokens)
    BY <2>1, ValuesAreClean DEF IsClean
  <2> QED BY <2>1, <2>2, LenProperties
<1>2. h \in Seq(Tokens) /\ Len(h) = 2 /\ h[1] = x[1] /\ h[2] = ":"
  BY <1>1, TokensAssumption
<1> HIDE DEF h, v
<1>3. /\ s \in Seq(Tokens) /\ Len(s) = Len(h) + Len(v)
      /\ \A i \in 1..Len(h) + Len(v) : s[i] = IF i <= Len(h) THEN h[i] ELSE v[i - Len(h)]
  BY <1>1, <1>2, ConcatProperties
<1> HIDE DEF s
<1>4. /\ s[1] = h[1] /\ s[2] = h[2]
      /\ \A i \in 1..Len(v) : s[2 + i] = v[i]
  <2>1. /\ 1 \in 1..Len(h) + Len(v) /\ 2 \in 1..Len(h) + Len(v)
        /\ 1 <= Len(h) /\ 2 <= Len(h)
    BY <1>1, <1>2
  <2>2. \A i \in 1..Len(v) : 2 + i \in 1..Len(h) + Len(v) /\ ~(2 + i <= Len(h)) /\ 2 + i - Len(h) = i
    BY <1>1, <1>2
  <2> QED BY <1>3, <2>1, <2>2
<1>5. s = SegmentOf(x)
  BY DEF SegmentOf, s, h, v
<1> QED BY <1>1, <1>2, <1>3, <1>4, <1>5 DEF v

LEMMA SegmentIsClean ==
  ASSUME NEW x \in Members
  PROVE  IsClean(SegmentOf(x))
<1> DEFINE s == SegmentOf(x)
           v == x[2]
<1>1. /\ s \in Seq(Tokens) /\ Len(s) = 2 + Len(v) /\ s[1] = x[1] /\ s[2] = ":"
      /\ \A i \in 1..Len(v) : s[2 + i] = v[i]
      /\ x[1] # ":" /\ Len(v) \in Nat
  BY SegmentShape
<1>2. IsClean(v)
  BY ValuesAreClean DEF Members
<1> HIDE DEF s, v
<1>3. Len(v) >= 1
  <2>1. v \in Seq(Tokens) /\ v # <<>>
    BY <1>2 DEF IsClean
  <2> QED BY <2>1, EmptySeq
<1>4. s # <<>> /\ s[1] # ":"
  BY <1>1, EmptySeq
<1>5. s[Len(s)] # ":"
  <2>1. s[2 + Len(v)] = v[Len(v)]
    BY <1>1, <1>3
  <2> QED BY <1>1, <1>2, <2>1 DEF IsClean
<1>6. ASSUME NEW n \in 1..Len(s) - 1, s[n] = ":", s[n + 1] = ":" PROVE FALSE
  <2>1. CASE n = 1
    BY <1>1, <1>6, <2>1
  <2>2. CASE n = 2
    <3>1. s[2 + 1] = v[1] /\ 2 + 1 = n + 1
      BY <1>1, <1>3, <2>2
    <3> QED BY <1>2, <1>6, <3>1 DEF IsClean
  <2>3. CASE n > 2
    <3> DEFINE i == n - 2
    <3>1. i \in 1..Len(v) - 1 /\ i \in 1..Len(v) /\ i + 1 \in 1..Len(v)
          /\ 2 + i = n /\ 2 + (i + 1) = n + 1
      BY <1>1, <2>3
    <3> HIDE DEF i
    <3>2. v[i] = ":" /\ v[i + 1] = ":"
      BY <1>1, <1>6, <3>1
    <3> QED BY <1>2, <3>1, <3>2 DEF IsClean
  <2> QED BY <1>1, <2>1, <2>2, <2>3
<1>7. IsClean(s)
  BY <1>1, <1>4, <1>5, <1>6 DEF IsClean
<1> QED BY <1>7 DEF s

LEMMA UnderIsClean ==
  ASSUME NEW A, IsClean(A), NEW a, IsClean(a)
  PROVE  IsClean(Under(A, a))
<1> DEFINE u == Under(A, a)
<1>1. A \in Seq(Tokens) /\ a \in Seq(Tokens)
  BY DEF IsClean
<1>2. /\ u \in Seq(Tokens) /\ Len(u) = Len(A) + 1 + Len(a)
      /\ \A i \in 1..Len(A) : u[i] = A[i]
      /\ u[Len(A) + 1] = "/"
      /\ \A i \in 1..Len(a) : u[Len(A) + 1 + i] = a[i]
  BY <1>1, UnderShape
<1>3. Len(A) \in Nat /\ Len(a) \in Nat /\ Len(A) >= 1 /\ Len(a) >= 1
  BY <1>1, EmptySeq DEF IsClean
<1> HIDE DEF u
<1>4. u # <<>> /\ u[1] # ":"
  <2>1. u[1] = A[1]
    BY <1>2, <1>3
  <2> QED BY <1>2, <1>3, <2>1, EmptySeq DEF IsClean
<1>5. u[Len(u)] # ":"
  <2>1. u[Len(A) + 1 + Len(a)] = a[Len(a)]
    BY <1>2, <1>3
  <2> QED BY <1>2, <2>1 DEF IsClean
<1>6. ASSUME NEW n \in 1..Len(u) - 1, u[n] = ":", u[n + 1] = ":" PROVE FALSE
  <2>1. CASE n < Len(A)
    <3>1. n \in 1..Len(A) /\ n + 1 \in 1..Len(A) /\ n \in 1..Len(A) - 1
      BY <1>2, <1>3, <2>1
    <3> QED BY <1>2, <1>6, <3>1 DEF IsClean
  <2>2. CASE n = Len(A) \/ n = Len(A) + 1
    BY <1>2, <1>6, <2>2
  <2>3. CASE n > Len(A) + 1
    <3> DEFINE i == n - Len(A) - 1
    <3>1. i \in 1..Len(a) - 1 /\ i \in 1..Len(a) /\ i + 1 \in 1..Len(a)
          /\ Len(A) + 1 + i = n /\ Len(A) + 1 + (i + 1) = n + 1
      BY <1>2, <1>3, <2>3
    <3> HIDE DEF i
    <3>2. a[i] = ":" /\ a[i + 1] = ":"
      BY <1>2, <1>6, <3>1
    <3> QED BY <3>1, <3>2 DEF IsClean
  <2> QED BY <1>2, <1>3, <2>1, <2>2, <2>3
<1>7. IsClean(u)
  BY <1>2, <1>4, <1>5, <1>6 DEF IsClean
<1> QED BY <1>7 DEF u

(* The texts of the members of a place. *)
SegmentsIn(place) == [n \in DOMAIN place |-> SegmentOf(place[n])]

LEMMA SegmentsInShape ==
  ASSUME NEW place \in Seq(Members)
  PROVE  /\ SegmentsIn(place) \in Seq(Seq(Tokens))
         /\ Len(SegmentsIn(place)) = Len(place)
         /\ \A i \in 1..Len(place) : SegmentsIn(place)[i] = SegmentOf(place[i])
<1>1. DOMAIN place = 1..Len(place) /\ Len(place) \in Nat /\ \A i \in 1..Len(place) : place[i] \in Members
  BY LenProperties
<1>2. \A i \in 1..Len(place) : SegmentOf(place[i]) \in Seq(Tokens)
  BY <1>1, SegmentShape
<1>3. SegmentsIn(place) = [i \in 1..Len(place) |-> SegmentOf(place[i])]
  BY <1>1 DEF SegmentsIn
<1> QED BY <1>1, <1>2, <1>3

LEMMA SegmentsInAppend ==
  ASSUME NEW place \in Seq(Members), NEW x \in Members
  PROVE  SegmentsIn(Append(place, x)) = Append(SegmentsIn(place), SegmentOf(x))
<1> DEFINE more == Append(place, x)
           s == SegmentsIn(place)
           t == SegmentsIn(more)
           g == SegmentOf(x)
           u == Append(s, g)
<1>1. /\ more \in Seq(Members) /\ Len(more) = Len(place) + 1 /\ Len(place) \in Nat
      /\ \A i \in 1..Len(place) : more[i] = place[i]
      /\ more[Len(place) + 1] = x
  BY AppendProperties, LenProperties
<1> HIDE DEF more
<1>2. /\ s \in Seq(Seq(Tokens)) /\ Len(s) = Len(place)
      /\ \A i \in 1..Len(place) : s[i] = SegmentOf(place[i])
      /\ t \in Seq(Seq(Tokens)) /\ Len(t) = Len(place) + 1
      /\ \A i \in 1..Len(place) + 1 : t[i] = SegmentOf(more[i])
  BY <1>1, SegmentsInShape
<1> HIDE DEF s, t
<1>3. g \in Seq(Tokens)
  BY SegmentShape
<1> HIDE DEF g
<1>4. /\ u \in Seq(Seq(Tokens)) /\ Len(u) = Len(place) + 1
      /\ \A i \in 1..Len(place) : u[i] = s[i]
      /\ u[Len(place) + 1] = g
  BY <1>2, <1>3, AppendProperties
<1> HIDE DEF u
<1>5. ASSUME NEW i \in 1..Len(place) + 1 PROVE t[i] = u[i]
  <2>1. CASE i = Len(place) + 1
    BY <1>1, <1>2, <1>4, <2>1 DEF g
  <2>2. CASE i # Len(place) + 1
    <3>1. i \in 1..Len(place)
      BY <1>1, <2>2
    <3> QED BY <1>1, <1>2, <1>4, <3>1
  <2> QED BY <2>1, <2>2
<1>6. t = u
  BY <1>2, <1>4, <1>5, SeqEqual
<1> QED BY <1>6 DEF t, u, more, s, g

LEMMA PathOfPlace ==
  ASSUME NEW place \in Seq(Members), NEW x \in Members
  PROVE  /\ PathOf(<<>>) = <<Global>>
         /\ place = <<>> => PathOf(Append(place, x)) = SegmentOf(x)
         /\ place # <<>> => PathOf(Append(place, x)) = Under(PathOf(place), SegmentOf(x))
<1> DEFINE more == Append(place, x)
           s == SegmentsIn(place)
           g == SegmentOf(x)
<1>1. more # <<>>
  BY AppendProperties
<1>2. /\ PathOf(more) = Joined(SegmentsIn(more))
      /\ place # <<>> => PathOf(place) = Joined(s)
  BY <1>1 DEF PathOf, SegmentsIn, SegmentOf
<1>3. SegmentsIn(more) = Append(s, g)
  BY SegmentsInAppend
<1>4. /\ s \in Seq(Seq(Tokens)) /\ Len(s) = Len(place) /\ g \in Seq(Tokens)
  BY SegmentsInShape, SegmentShape
<1>5. place = <<>> <=> s = <<>>
  <2>1. Len(place) = 0 <=> place = <<>>
    BY EmptySeq
  <2>2. Len(s) = 0 <=> s = <<>>
    BY <1>4, EmptySeq
  <2> QED BY <1>4, <2>1, <2>2
<1> HIDE DEF s, g, more
<1>6. ASSUME place = <<>> PROVE PathOf(more) = g
  <2>1. Append(s, g) = <<g>>
    BY <1>5, <1>6
  <2> QED BY <1>2, <1>3, <1>4, <2>1, JoinedOne
<1>7. ASSUME place # <<>> PROVE PathOf(more) = Under(PathOf(place), g)
  <2>1. Joined(Append(s, g)) = Joined(s) \o <<"/">> \o g
    BY <1>4, <1>5, <1>7, JoinedAppend
  <2> QED BY <1>2, <1>3, <1>7, <2>1 DEF Under
<1>8. PathOf(<<>>) = <<Global>>
  BY DEF PathOf
<1> QED BY <1>6, <1>7, <1>8 DEF more, g

LEMMA GlobalIsClean ==
  /\ IsClean(<<Global>>) /\ Len(<<Global>>) = 1 /\ <<Global>>[1] # "/"
<1>1. Global \in Tokens /\ Global # ":" /\ Global # "/"
  BY TokensAssumption DEF Global
<1> HIDE DEF Global
<1>2. <<Global>> \in Seq(Tokens) /\ Len(<<Global>>) = 1 /\ <<Global>>[1] = Global
  BY <1>1, OneToken
<1>3. <<Global>> # <<>>
  OBVIOUS
<1> QED BY <1>1, <1>2, <1>3 DEF IsClean

(* The text of a place tells whether it is the root, and has a token more   *)
(* for each member.                                                         *)
LEMMA PathOfIsClean ==
  ASSUME NEW place \in Seq(Members)
  PROVE  /\ IsClean(PathOf(place)) /\ PathOf(place) \in Seq(Tokens)
         /\ Len(PathOf(place)) >= Len(place)
         /\ place # <<>> => Len(PathOf(place)) >= 2
<1> DEFINE M == Seq(Members)
           P == {s \in M : /\ IsClean(PathOf(s))
                           /\ Len(PathOf(s)) >= Len(s)
                           /\ s # <<>> => Len(PathOf(s)) >= 2}
<1>1. <<>> \in P
  <2>1. PathOf(<<>>) = <<Global>> /\ <<>> \in M /\ Len(<<>>) = 0
    BY EmptySeq DEF PathOf
  <2> QED BY <2>1, GlobalIsClean
<1>2. ASSUME NEW s \in P, NEW x \in Members PROVE Append(s, x) \in P
  <2> DEFINE t == Append(s, x)
             g == SegmentOf(x)
             A == PathOf(s)
  <2>1. /\ t \in M /\ Len(t) = Len(s) + 1 /\ Len(s) \in Nat
        /\ s = <<>> => PathOf(t) = g
        /\ s # <<>> => PathOf(t) = Under(A, g)
    BY AppendProperties, LenProperties, PathOfPlace
  <2>2. IsClean(g) /\ g \in Seq(Tokens) /\ Len(g) \in Nat /\ Len(g) >= 2
    <3>1. g \in Seq(Tokens) /\ Len(g) = 2 + Len(x[2]) /\ Len(x[2]) \in Nat
      BY SegmentShape
    <3> HIDE DEF g
    <3>2. IsClean(g)
      BY SegmentIsClean DEF g
    <3> QED BY <3>1, <3>2
  <2>3. IsClean(A) /\ A \in Seq(Tokens) /\ Len(A) >= Len(s)
    BY DEF IsClean
  <2> HIDE DEF t, g, A
  <2>4. CASE s = <<>>
    <3>1. Len(s) = 0
      BY <2>4, EmptySeq
    <3> QED BY <2>1, <2>2, <2>4, <3>1 DEF t
  <2>5. CASE s # <<>>
    <3>1. IsClean(Under(A, g))
      BY <2>2, <2>3, UnderIsClean
    <3>2. Len(Under(A, g)) = Len(A) + 1 + Len(g) /\ Len(A) \in Nat
      BY <2>2, <2>3, UnderShape, LenProperties
    <3>3. Len(PathOf(t)) >= Len(t) /\ Len(PathOf(t)) >= 2
      BY <2>1, <2>2, <2>3, <2>5, <3>2
    <3> QED BY <2>1, <2>5, <3>1, <3>3 DEF t
  <2> QED BY <2>4, <2>5
<1>3. P \in SUBSET Seq(Members)
  OBVIOUS
<1> HIDE DEF P
<1>4. P = Seq(Members)
  BY <1>1, <1>2, <1>3, SequenceInduction
<1> QED BY <1>4 DEF P, IsClean

-----------------------------------------------------------------------------
(* Paths and places, when no identifier has a "/" in it. *)

LEMMA SegmentHasNoSlash ==
  ASSUME NoSlashes, NEW x \in Members
  PROVE  NoSlash(SegmentOf(x))
<1> DEFINE s == SegmentOf(x)
           v == x[2]
<1>1. /\ Len(s) = 2 + Len(v) /\ s[1] = x[1] /\ s[2] = ":"
      /\ \A i \in 1..Len(v) : s[2 + i] = v[i]
      /\ x[1] # "/" /\ Len(v) \in Nat
  BY SegmentShape
<1>2. NoSlash(v)
  BY DEF NoSlashes, Members
<1> HIDE DEF s, v
<1>3. ASSUME NEW n \in 1..Len(s) PROVE s[n] # "/"
  <2>1. CASE n = 1 \/ n = 2
    BY <1>1, <2>1
  <2>2. CASE n > 2
    <3> DEFINE i == n - 2
    <3>1. i \in 1..Len(v) /\ 2 + i = n
      BY <1>1, <2>2
    <3> HIDE DEF i
    <3> QED BY <1>1, <1>2, <3>1 DEF NoSlash
  <2> QED BY <1>1, <2>1, <2>2
<1> QED BY <1>3 DEF NoSlash, s

LEMMA SegmentInjective ==
  ASSUME NEW x \in Members, NEW y \in Members, SegmentOf(x) = SegmentOf(y)
  PROVE  x = y
<1> DEFINE s == SegmentOf(x)
           v == x[2]
           w == y[2]
<1>1. /\ Len(s) = 2 + Len(v) /\ s[1] = x[1] /\ v \in Seq(Tokens) /\ Len(v) \in Nat
      /\ \A i \in 1..Len(v) : s[2 + i] = v[i]
  BY SegmentShape
<1>2. /\ Len(s) = 2 + Len(w) /\ s[1] = y[1] /\ w \in Seq(Tokens) /\ Len(w) \in Nat
      /\ \A i \in 1..Len(w) : s[2 + i] = w[i]
  <2>1. s = SegmentOf(y)
    OBVIOUS
  <2> HIDE DEF s
  <2> QED BY <2>1, SegmentShape
<1> HIDE DEF s
<1>3. v = w
  <2> HIDE DEF v, w
  <2>1. Len(v) = Len(w)
    BY <1>1, <1>2
  <2>2. \A i \in 1..Len(v) : v[i] = w[i]
    BY <1>1, <1>2, <2>1
  <2> QED BY <1>1, <1>2, <2>1, <2>2, SeqEqual
<1>4. x = <<x[1], x[2]>> /\ y = <<y[1], y[2]>>
  BY DEF Members
<1> QED BY <1>1, <1>2, <1>3, <1>4

(* The last member of a place can be told from the text. *)
LEMMA PathInjective ==
  ASSUME NoSlashes, NEW p \in Seq(Members), NEW q \in Seq(Members), PathOf(p) = PathOf(q)
  PROVE  p = q
<1> DEFINE P == {s \in Seq(Members) : \A t \in Seq(Members) : PathOf(s) = PathOf(t) => s = t}
<1>1. ASSUME NEW t \in Seq(Members), PathOf(t) = <<Global>> PROVE t = <<>>
  <2>1. Len(PathOf(t)) = 1
    BY <1>1, GlobalIsClean
  <2>2. ~(Len(PathOf(t)) >= 2)
    BY <2>1
  <2> QED BY <2>2, PathOfIsClean
<1>2. <<>> \in P
  <2>1. <<>> \in Seq(Members) /\ PathOf(<<>>) = <<Global>>
    BY EmptySeq DEF PathOf
  <2> QED BY <1>1, <2>1
<1>3. ASSUME NEW s \in P, NEW x \in Members PROVE Append(s, x) \in P
  <2>1. Append(s, x) \in Seq(Members) /\ Append(s, x) # <<>>
    BY AppendProperties
  <2>2. ASSUME NEW t \in Seq(Members), PathOf(Append(s, x)) = PathOf(t) PROVE Append(s, x) = t
    <3>1. t # <<>>
      <4> SUFFICES ASSUME t = <<>> PROVE FALSE
        OBVIOUS
      <4>1. PathOf(Append(s, x)) = <<Global>>
        BY <2>2 DEF PathOf
      <4> QED BY <1>1, <2>1, <4>1
    <3>2. PICK u \in Seq(Members), y \in Members : t = Append(u, y)
      BY <3>1, SequenceEmptyOrAppend
    <3> DEFINE g == SegmentOf(x)
               h == SegmentOf(y)
    <3>3. /\ g \in Seq(Tokens) /\ h \in Seq(Tokens) /\ NoSlash(g) /\ NoSlash(h)
          /\ PathOf(s) \in Seq(Tokens) /\ PathOf(u) \in Seq(Tokens)
      BY SegmentShape, SegmentHasNoSlash, PathOfIsClean
    <3>4. /\ s = <<>> => PathOf(Append(s, x)) = g
          /\ s # <<>> => PathOf(Append(s, x)) = Under(PathOf(s), g)
          /\ u = <<>> => PathOf(t) = h
          /\ u # <<>> => PathOf(t) = Under(PathOf(u), h)
      BY <3>2, PathOfPlace
    <3> HIDE DEF g, h
    <3>5. ASSUME NEW A \in Seq(Tokens), NEW a \in Seq(Tokens), NEW b, NoSlash(b), Under(A, a) = b
          PROVE  FALSE
      <4>1. Len(b) = Len(A) + 1 + Len(a) /\ b[Len(A) + 1] = "/" /\ Len(A) \in Nat /\ Len(a) \in Nat
        BY <3>5, UnderShape, LenProperties
      <4>2. Len(A) + 1 \in 1..Len(b)
        BY <4>1
      <4> QED BY <3>5, <4>1, <4>2 DEF NoSlash
    <3>6. CASE s = <<>> /\ u = <<>>
      <4>1. g = h
        BY <2>2, <3>4, <3>6
      <4> QED BY <3>2, <3>6, <4>1, SegmentInjective DEF g, h
    <3>7. CASE s = <<>> /\ u # <<>>
      BY <2>2, <3>3, <3>4, <3>5, <3>7
    <3>8. CASE s # <<>> /\ u = <<>>
      BY <2>2, <3>3, <3>4, <3>5, <3>8
    <3>9. CASE s # <<>> /\ u # <<>>
      <4>1. Under(PathOf(s), g) = Under(PathOf(u), h)
        BY <2>2, <3>4, <3>9
      <4>2. PathOf(s) = PathOf(u) /\ g = h
        BY <3>3, <4>1, SplitAtLast
      <4>3. s = u /\ x = y
        BY <4>2, SegmentInjective DEF g, h
      <4> QED BY <3>2, <4>3
    <3> QED BY <3>6, <3>7, <3>8, <3>9
  <2> QED BY <2>1, <2>2
<1>4. P \in SUBSET Seq(Members)
  OBVIOUS
<1> HIDE DEF P
<1>5. P = Seq(Members)
  BY <1>2, <1>3, <1>4, SequenceInduction
<1> QED BY <1>5 DEF P

LEMMA PrefixBasics ==
  ASSUME NEW S, NEW s \in Seq(S), NEW t \in Seq(S)
  PROVE  /\ IsPrefix(<<>>, t) /\ IsPrefix(t, t)
         /\ IsPrefix(s, <<>>) <=> s = <<>>
<1> DEFINE z == <<>>
<1>1. z \in Seq(S) /\ Len(z) = 0 /\ Len(t) \in Nat /\ Len(s) \in Nat
  BY LenProperties, EmptySeq
<1>2. Len(s) = 0 <=> s = z
  BY EmptySeq
<1> HIDE DEF z
<1>3. /\ IsPrefix(z, t) <=> Len(z) <= Len(t) /\ \A i \in 1..Len(z) : z[i] = t[i]
      /\ IsPrefix(t, t) <=> Len(t) <= Len(t) /\ \A i \in 1..Len(t) : t[i] = t[i]
      /\ IsPrefix(s, z) <=> Len(s) <= Len(z) /\ \A i \in 1..Len(s) : s[i] = z[i]
  <2>1. IsPrefix(z, t) <=> Len(z) <= Len(t) /\ \A i \in 1..Len(z) : z[i] = t[i]
    <3>1. z \in Seq(S)
      BY <1>1
    <3> QED BY <3>1, PrefixPointwise
  <2>2. IsPrefix(t, t) <=> Len(t) <= Len(t) /\ \A i \in 1..Len(t) : t[i] = t[i]
    BY PrefixPointwise
  <2>3. IsPrefix(s, z) <=> Len(s) <= Len(z) /\ \A i \in 1..Len(s) : s[i] = z[i]
    <3>1. z \in Seq(S)
      BY <1>1
    <3> QED BY <3>1, PrefixPointwise
  <2> QED BY <2>1, <2>2, <2>3
<1>4. IsPrefix(z, t) /\ IsPrefix(t, t)
  BY <1>1, <1>3
<1>5. IsPrefix(s, z) <=> Len(s) = 0
  BY <1>1, <1>3
<1> QED BY <1>2, <1>4, <1>5 DEF z

LEMMA PrefixOfAppend ==
  ASSUME NEW S, NEW s \in Seq(S), NEW t \in Seq(S), NEW e \in S
  PROVE  IsPrefix(s, Append(t, e)) <=> s = Append(t, e) \/ IsPrefix(s, t)
<1> DEFINE u == Append(t, e)
           n == Len(t)
<1>1. /\ u \in Seq(S) /\ Len(u) = n + 1 /\ \A i \in 1..n : u[i] = t[i]
      /\ n \in Nat /\ Len(s) \in Nat
  BY AppendProperties, LenProperties
<1> HIDE DEF u
<1>2. /\ IsPrefix(s, u) <=> Len(s) <= Len(u) /\ \A i \in 1..Len(s) : s[i] = u[i]
      /\ IsPrefix(s, t) <=> Len(s) <= n /\ \A i \in 1..Len(s) : s[i] = t[i]
  BY <1>1, PrefixPointwise
<1>3. ASSUME IsPrefix(s, t) PROVE IsPrefix(s, u)
  <2>1. Len(s) <= n /\ Len(s) <= n + 1 /\ \A i \in 1..Len(s) : i \in 1..n
    BY <1>1, <1>2, <1>3
  <2> QED BY <1>1, <1>2, <1>3, <2>1
<1>4. ASSUME IsPrefix(s, u), ~IsPrefix(s, t) PROVE s = u
  <2>1. Len(s) = n + 1
    <3> SUFFICES ASSUME Len(s) # n + 1 PROVE FALSE
      OBVIOUS
    <3>1. Len(s) <= n /\ \A i \in 1..Len(s) : i \in 1..n
      BY <1>1, <1>2, <1>4
    <3> QED BY <1>1, <1>2, <1>4, <3>1
  <2> QED BY <1>1, <1>2, <1>4, <2>1, SeqEqual
<1>5. s = u => IsPrefix(s, u)
  BY <1>1, PrefixBasics
<1> QED BY <1>3, <1>4, <1>5 DEF u

(* is_descendant_of, of the paths of two places, is the prefix order. *)
LEMMA SlashPrefix ==
  ASSUME NoSlashes, NEW p \in Seq(Members), p # <<>>, NEW q \in Seq(Members)
  PROVE  IsPrefix(PathOf(p) \o <<"/">>, PathOf(q)) <=> p # q /\ IsPrefix(p, q)
<1> DEFINE X == PathOf(p)
           x == X \o <<"/">>
           P == {s \in Seq(Members) : IsPrefix(x, PathOf(s)) <=> p # s /\ IsPrefix(p, s)}
<1>1. X \in Seq(Tokens) /\ Len(X) \in Nat /\ Len(X) >= 2
  <2>1. X \in Seq(Tokens)
    BY PathOfIsClean
  <2>2. Len(X) >= 2
    BY PathOfIsClean
  <2> HIDE DEF X
  <2> QED BY <2>1, <2>2, LenProperties
<1> HIDE DEF X
<1>2. /\ x \in Seq(Tokens) /\ Len(x) = Len(X) + 1 /\ x[Len(X) + 1] = "/"
  <2>1. <<"/">> \in Seq(Tokens) /\ Len(<<"/">>) = 1 /\ <<"/">>[1] = "/"
    BY OneToken, TokensAssumption
  <2> QED BY <1>1, <2>1, ConcatProperties
<1>3. ASSUME NEW b \in Seq(Tokens), NoSlash(b) PROVE ~IsPrefix(x, b)
  <2> SUFFICES ASSUME IsPrefix(x, b) PROVE FALSE
    OBVIOUS
  <2> HIDE DEF x
  <2>1. Len(x) <= Len(b) /\ \A i \in 1..Len(x) : x[i] = b[i]
    BY <1>2, <1>3, PrefixPointwise
  <2>2. Len(b) \in Nat
    BY <1>3, LenProperties
  <2>3. Len(X) + 1 \in 1..Len(b) /\ Len(X) + 1 \in 1..Len(x)
    BY <1>1, <1>2, <2>1, <2>2
  <2> QED BY <1>2, <1>3, <2>1, <2>3 DEF NoSlash
<1>4. <<>> \in P
  <2>1. PathOf(<<>>) = <<Global>> /\ <<Global>> \in Seq(Tokens) /\ NoSlash(<<Global>>)
    BY GlobalIsClean DEF PathOf, IsClean, NoSlash
  <2>2. ~IsPrefix(x, PathOf(<<>>))
    BY <1>3, <2>1
  <2>3. ~IsPrefix(p, <<>>)
    BY PrefixBasics
  <2> QED BY <2>2, <2>3, EmptySeq
<1>5. ASSUME NEW s \in P, NEW e \in Members PROVE Append(s, e) \in P
  <2> DEFINE t == Append(s, e)
             g == SegmentOf(e)
  <2>1. /\ t \in Seq(Members)
        /\ s = <<>> => PathOf(t) = g
        /\ s # <<>> => PathOf(t) = Under(PathOf(s), g)
        /\ g \in Seq(Tokens) /\ NoSlash(g) /\ PathOf(s) \in Seq(Tokens)
    BY AppendProperties, PathOfPlace, SegmentShape, SegmentHasNoSlash, PathOfIsClean
  <2>2. (IsPrefix(p, t) <=> p = t \/ IsPrefix(p, s)) /\ IsPrefix(s, s)
    BY PrefixOfAppend, PrefixBasics
  <2>3. IsPrefix(x, PathOf(s)) <=> p # s /\ IsPrefix(p, s)
    OBVIOUS
  <2>4. ~IsPrefix(t, s)
    <3>1. Len(t) = Len(s) + 1 /\ Len(s) \in Nat
      BY AppendProperties, LenProperties
    <3>2. ~(Len(t) <= Len(s))
      BY <3>1
    <3> QED BY <3>2 DEF IsPrefix
  <2> HIDE DEF t, g, x, P
  <2>5. IsPrefix(x, PathOf(t)) <=> p # t /\ IsPrefix(p, t)
    <3>1. CASE s = <<>>
      <4>1. ~IsPrefix(x, PathOf(t))
        BY <1>3, <2>1, <3>1
      <4>2. ~IsPrefix(p, s)
        BY <3>1, PrefixBasics
      <4> QED BY <2>2, <4>1, <4>2
    <3>2. CASE s # <<>>
      <4>1. IsPrefix(x, PathOf(t)) <=> X = PathOf(s) \/ IsPrefix(x, PathOf(s))
        BY <1>1, <2>1, <3>2, PrefixOfUnder DEF x
      <4>2. X = PathOf(s) <=> p = s
        <5>1. s \in Seq(Members)
          BY DEF P
        <5> QED BY <5>1, PathInjective DEF X
      <4> QED BY <2>2, <2>3, <2>4, <4>1, <4>2
    <3> QED BY <3>1, <3>2
  <2> QED BY <2>1, <2>5 DEF P, t
<1>6. P \in SUBSET Seq(Members)
  OBVIOUS
<1> HIDE DEF P
<1>7. P = Seq(Members)
  BY <1>4, <1>5, <1>6, SequenceInduction
<1> QED BY <1>7 DEF P, x, X

LEMMA DescendantsAreBelow ==
  ASSUME NoSlashes, NEW p \in Seq(Members), NEW q \in Seq(Members)
  PROVE  IsDescendantOf(PathOf(q), PathOf(p)) <=> IsPrefix(p, q)
<1>1. \A s \in Seq(Members) : PathOf(s) = <<Global>> <=> s = <<>>
  <2>1. <<>> \in Seq(Members) /\ PathOf(<<>>) = <<Global>>
    BY EmptySeq DEF PathOf
  <2> QED BY <2>1, PathInjective
<1>2. IsPrefix(<<>>, q) /\ (p = q => IsPrefix(p, q)) /\ (IsPrefix(p, <<>>) <=> p = <<>>)
  BY PrefixBasics
<1>3. CASE p = <<>>
  BY <1>1, <1>2, <1>3 DEF IsDescendantOf
<1>4. CASE p # <<>>
  <2>1. IsPrefix(PathOf(p) \o <<"/">>, PathOf(q)) <=> p # q /\ IsPrefix(p, q)
    BY <1>4, SlashPrefix
  <2>2. PathOf(q) = PathOf(p) <=> p = q
    BY PathInjective
  <2> QED BY <1>1, <1>2, <1>4, <2>1, <2>2 DEF IsDescendantOf
<1> QED BY <1>3, <1>4

LEMMA TopHasNoParent ==
  ASSUME NEW t \in Seq(Tokens), NoSlash(t)
  PROVE  ParentScopePath(t) = <<Global>>
<1>1. DOMAIN t = 1..Len(t)
  BY LenProperties
<1>2. {n \in DOMAIN t : t[n] = "/"} = {}
  BY <1>1 DEF NoSlash
<1> QED BY <1>2 DEF ParentScopePath

LEMMA GlobalHasNoParent == ParentScopePath(<<Global>>) = <<Global>>
<1>1. <<Global>> \in Seq(Tokens) /\ NoSlash(<<Global>>)
  BY GlobalIsClean DEF NoSlash, IsClean
<1> QED BY <1>1, TopHasNoParent

(* get_parent_scope_path removes the last member. *)
LEMMA ParentOfPath ==
  ASSUME NoSlashes, NEW place \in Seq(Members), NEW x \in Members
  PROVE  ParentScopePath(PathOf(Append(place, x))) = PathOf(place)
<1> DEFINE A == PathOf(place)
           g == SegmentOf(x)
           u == Under(A, g)
           Cuts(t) == {n \in DOMAIN t : t[n] = "/"}
<1>1. /\ A \in Seq(Tokens) /\ g \in Seq(Tokens) /\ NoSlash(g)
      /\ place = <<>> => PathOf(Append(place, x)) = g /\ A = <<Global>>
      /\ place # <<>> => PathOf(Append(place, x)) = u
      /\ PathOf(<<>>) = <<Global>>
  BY PathOfIsClean, SegmentShape, SegmentHasNoSlash, PathOfPlace
<1> HIDE DEF A, g
<1>2. ParentScopePath(u) = A
  <2>1. /\ u \in Seq(Tokens) /\ Len(u) = Len(A) + 1 + Len(g) /\ DOMAIN u = 1..Len(u)
        /\ \A i \in 1..Len(A) : u[i] = A[i]
        /\ u[Len(A) + 1] = "/"
        /\ \A i \in 1..Len(g) : u[Len(A) + 1 + i] = g[i]
        /\ Len(A) \in Nat /\ Len(g) \in Nat
    BY <1>1, UnderShape, LenProperties
  <2> HIDE DEF u
  <2> DEFINE k == Len(A) + 1
             cut == CHOOSE n \in Cuts(u) : \A m \in Cuts(u) : m <= n
  <2>2. k \in Cuts(u)
    BY <2>1
  <2>3. ASSUME NEW n \in Cuts(u), n > k PROVE FALSE
    <3> DEFINE i == n - k
    <3>1. n \in 1..Len(u) /\ u[n] = "/"
      BY <2>1
    <3> HIDE DEF Cuts
    <3>2. i \in 1..Len(g) /\ Len(A) + 1 + i = n
      BY <2>1, <2>3, <3>1
    <3> HIDE DEF i
    <3> QED BY <1>1, <2>1, <3>1, <3>2 DEF NoSlash
  <2>4. \A n \in Cuts(u) : n \in Nat /\ n <= k
    BY <2>1, <2>3
  <2> HIDE DEF Cuts
  <2>5. cut \in Cuts(u) /\ \A m \in Cuts(u) : m <= cut
    BY <2>2, <2>4
  <2>6. cut = k
    <3>1. cut <= k /\ k <= cut /\ cut \in Nat /\ k \in Nat
      BY <2>1, <2>2, <2>4, <2>5
    <3> HIDE DEF cut, k
    <3> QED BY <3>1
  <2>7. ParentScopePath(u) = SubSeq(u, 1, cut - 1)
    BY <2>2 DEF ParentScopePath, Cuts
  <2>8. SubSeq(u, 1, Len(A)) = A
    <3> DEFINE w == SubSeq(u, 1, Len(A))
    <3>1. \A i \in 1..Len(A) : u[i] \in Tokens
      BY <1>1, <2>1, LenProperties
    <3>2. /\ w \in Seq(Tokens) /\ Len(w) = (IF 1 <= Len(A) THEN Len(A) - 1 + 1 ELSE 0)
          /\ \A i \in 1..(Len(A) - 1 + 1) : w[i] = u[1 + i - 1]
      BY <2>1, <3>1, SubSeqProperties
    <3> HIDE DEF w
    <3>3. Len(w) = Len(A) /\ \A i \in 1..Len(w) : w[i] = A[i]
      <4>1. \A i \in 1..Len(A) : i \in 1..(Len(A) - 1 + 1) /\ 1 + i - 1 = i
        BY <2>1
      <4> QED BY <2>1, <3>2, <4>1
    <3> QED BY <1>1, <3>2, <3>3, SeqEqual DEF w
  <2>9. k - 1 = Len(A)
    BY <2>1
  <2> HIDE DEF cut, k
  <2> QED BY <2>6, <2>7, <2>8, <2>9
<1> HIDE DEF u
<1>3. ParentScopePath(PathOf(Append(place, x))) = A
  BY <1>1, <1>2, TopHasNoParent
<1> QED BY <1>3 DEF A

(* The first m elements. *)
LEMMA CutShape ==
  ASSUME NEW S, NEW place \in Seq(S)
  PROVE  /\ \A m \in 0..Len(place) :
              /\ SubSeq(place, 1, m) \in Seq(S) /\ Len(SubSeq(place, 1, m)) = m
              /\ \A i \in 1..m : SubSeq(place, 1, m)[i] = place[i]
         /\ \A m \in 0..Len(place) - 1 :
              /\ SubSeq(place, 1, m + 1) = Append(SubSeq(place, 1, m), place[m + 1])
              /\ place[m + 1] \in S
         /\ SubSeq(place, 1, Len(place)) = place /\ SubSeq(place, 1, 0) = <<>>
<1> DEFINE N == Len(place)
           Cut(m) == SubSeq(place, 1, m)
<1>1. N \in Nat /\ \A i \in 1..N : place[i] \in S
  BY LenProperties
<1>2. ASSUME NEW m \in 0..N
      PROVE  /\ Cut(m) \in Seq(S) /\ Len(Cut(m)) = m
             /\ \A i \in 1..m : Cut(m)[i] = place[i]
  <2> DEFINE w == Cut(m)
  <2>1. \A i \in 1..m : place[i] \in S
    BY <1>1
  <2>2. /\ w \in Seq(S) /\ Len(w) = (IF 1 <= m THEN m - 1 + 1 ELSE 0)
        /\ \A i \in 1..(m - 1 + 1) : w[i] = place[1 + i - 1]
    BY <2>1, SubSeqProperties
  <2> HIDE DEF w
  <2>3. \A i \in 1..m : i \in 1..(m - 1 + 1) /\ 1 + i - 1 = i
    BY <1>1
  <2>4. Len(w) = m
    BY <2>2
  <2>5. /\ w \in Seq(S) /\ Len(w) = m
        /\ \A i \in 1..m : w[i] = place[i]
    BY <2>2, <2>3, <2>4
  <2> QED BY <2>5 DEF w
<1>3. ASSUME NEW m \in 0..N - 1
      PROVE  Cut(m + 1) = Append(Cut(m), place[m + 1]) /\ place[m + 1] \in S
  <2> DEFINE v == Cut(m)
             e == place[m + 1]
             w == Append(v, e)
             u == Cut(m + 1)
  <2>1. e \in S /\ m \in 0..N /\ m + 1 \in 0..N
    BY <1>1
  <2>2. v \in Seq(S) /\ Len(v) = m /\ \A i \in 1..m : v[i] = place[i]
    BY <1>2, <2>1
  <2>3. u \in Seq(S) /\ Len(u) = m + 1 /\ \A i \in 1..m + 1 : u[i] = place[i]
    BY <1>2, <2>1
  <2> HIDE DEF u, v, e
  <2>4. /\ w \in Seq(S) /\ Len(w) = Len(v) + 1
        /\ \A i \in 1..Len(v) : w[i] = v[i]
        /\ w[Len(v) + 1] = e
    BY <2>1, <2>2, AppendProperties
  <2> HIDE DEF w
  <2>5. ASSUME NEW i \in 1..m + 1 PROVE u[i] = w[i]
    <3>1. i \in 1..m \/ i = m + 1
      OBVIOUS
    <3> QED BY <2>2, <2>3, <2>4, <3>1 DEF e
  <2>6. u = w
    BY <2>2, <2>3, <2>4, <2>5, SeqEqual
  <2> QED BY <2>1, <2>6 DEF u, w, v, e
<1>4. Cut(N) = place
  BY SubSeqFull
<1>5. Cut(0) = <<>>
  <2>1. 0 \in 0..N
    BY <1>1
  <2>2. Len(Cut(0)) = 0 /\ Cut(0) \in Seq(S)
    BY <1>2, <2>1
  <2> QED BY <2>2, EmptySeq
<1> HIDE DEF N
<1> QED BY <1>2, <1>3, <1>4, <1>5 DEF N

(* Repeated get_parent_scope_path leads to the places above, and no others. *)
Above(place, n) == SubSeq(place, 1, IF n <= Len(place) THEN Len(place) - n ELSE 0)

LEMMA AboveShape ==
  ASSUME NEW S, NEW place \in Seq(S)
  PROVE  /\ Above(place, 0) = place
         /\ \A n \in Nat : /\ Above(place, n) \in Seq(S)
                           /\ \/ Above(place, n) = <<>> /\ Above(place, n + 1) = <<>>
                              \/ \E x \in S : Above(place, n) = Append(Above(place, n + 1), x)
         /\ \A p \in Seq(S) : IsPrefix(p, place) <=> \E n \in 0..Len(place) : p = Above(place, n)
<1> DEFINE N == Len(place)
           Cut(m) == SubSeq(place, 1, m)
<1>1. N \in Nat /\ \A i \in 1..N : place[i] \in S
  BY LenProperties
<1>2. \A m \in 0..N : /\ Cut(m) \in Seq(S) /\ Len(Cut(m)) = m
                      /\ \A i \in 1..m : Cut(m)[i] = place[i]
  BY CutShape
<1>3. \A m \in 0..N - 1 : Cut(m + 1) = Append(Cut(m), place[m + 1]) /\ place[m + 1] \in S
  BY CutShape
<1>4. Cut(N) = place
  BY CutShape
<1>5. Cut(0) = <<>>
  BY CutShape
<1>6. \A n \in Nat : Above(place, n) = IF n <= N THEN Cut(N - n) ELSE Cut(0)
  BY DEF Above
<1> HIDE DEF Cut, N
<1>7. Above(place, 0) = place
  BY <1>1, <1>4, <1>6
<1>8. ASSUME NEW n \in Nat
      PROVE  /\ Above(place, n) \in Seq(S)
             /\ \/ Above(place, n) = <<>> /\ Above(place, n + 1) = <<>>
                \/ \E x \in S : Above(place, n) = Append(Above(place, n + 1), x)
  <2>1. CASE n < N
    <3> DEFINE m == N - (n + 1)
    <3>1. m \in 0..N - 1 /\ m + 1 = N - n /\ n <= N /\ n + 1 <= N /\ m + 1 \in 0..N
      BY <1>1, <2>1
    <3>2. Above(place, n) = Cut(m + 1) /\ Above(place, n + 1) = Cut(m)
      BY <1>6, <3>1
    <3> HIDE DEF m
    <3> QED BY <1>2, <1>3, <3>1, <3>2
  <2>2. CASE ~(n < N)
    <3>1. Above(place, n) = Cut(0) /\ Above(place, n + 1) = Cut(0)
      <4>1. ~(n + 1 <= N) /\ (n <= N => N - n = 0)
        BY <1>1, <2>2
      <4> QED BY <1>6, <4>1
    <3>2. 0 \in 0..N
      BY <1>1
    <3> QED BY <1>2, <1>5, <3>1, <3>2
  <2> QED BY <2>1, <2>2
<1>9. ASSUME NEW p \in Seq(S)
      PROVE  IsPrefix(p, place) <=> \E n \in 0..N : p = Above(place, n)
  <2>1. Len(p) \in Nat /\ (IsPrefix(p, place) <=> Len(p) <= N /\ \A i \in 1..Len(p) : p[i] = place[i])
    BY LenProperties, PrefixPointwise DEF N
  <2>2. ASSUME IsPrefix(p, place) PROVE \E n \in 0..N : p = Above(place, n)
    <3> DEFINE n == N - Len(p)
    <3>1. n \in 0..N /\ n <= N /\ N - n = Len(p) /\ Len(p) \in 0..N
      BY <1>1, <2>1, <2>2
    <3> HIDE DEF n
    <3>2. p = Cut(Len(p))
      <4>1. /\ Cut(Len(p)) \in Seq(S) /\ Len(Cut(Len(p))) = Len(p)
            /\ \A i \in 1..Len(p) : Cut(Len(p))[i] = place[i]
        BY <1>2, <3>1
      <4>2. \A i \in 1..Len(p) : p[i] = Cut(Len(p))[i]
        BY <2>1, <2>2, <4>1
      <4> QED BY <4>1, <4>2, SeqEqual
    <3> QED BY <1>6, <3>1, <3>2
  <2>3. ASSUME NEW n \in 0..N, p = Above(place, n) PROVE IsPrefix(p, place)
    <3>1. N - n \in 0..N /\ n <= N /\ n \in Nat
      BY <1>1
    <3>2. p = Cut(N - n)
      BY <1>6, <2>3, <3>1
    <3>3. Len(p) = N - n /\ \A i \in 1..N - n : p[i] = place[i]
      BY <1>2, <3>1, <3>2
    <3> QED BY <1>1, <2>1, <3>1, <3>3
  <2> QED BY <2>2, <2>3
<1> QED BY <1>7, <1>8, <1>9 DEF N

LEMMA WaysUpArePrefixes ==
  ASSUME NoSlashes, NEW p \in Seq(Members), NEW q \in Seq(Members)
  PROVE  PathOf(p) \in WaysUp(PathOf(q)) <=> IsPrefix(p, q)
<1> DEFINE path == PathOf(q)
           N == Len(path)
           D == 0..N
           E(f, n) == IF n = 0 THEN path ELSE ParentScopePath(f[n - 1])
           IsUp(f) == f = [n \in D |-> E(f, n)]
           Up == CHOOSE f : IsUp(f)
           g == [n \in D |-> PathOf(Above(q, n))]
<1>1. path \in Seq(Tokens) /\ N \in Nat /\ N >= Len(q) /\ Len(q) \in Nat
  <2>1. path \in Seq(Tokens) /\ N >= Len(q)
    BY PathOfIsClean
  <2> HIDE DEF path
  <2> QED BY <2>1, LenProperties
<1>2. WaysUp(path) = {Up[n] : n \in D}
  BY DEF WaysUp
<1>3. \A n \in D : g[n] = PathOf(Above(q, n))
  OBVIOUS
<1> HIDE DEF path, N
<1>4. ASSUME NEW n \in D PROVE g[n] = E(g, n)
  <2>1. CASE n = 0
    BY <1>3, <2>1, AboveShape DEF path
  <2>2. CASE n # 0
    <3> DEFINE m == n - 1
               a == Above(q, m)
               b == Above(q, n)
    <3>1. m \in Nat /\ m \in D /\ m + 1 = n /\ n \in Nat
      BY <1>1, <2>2
    <3>2. /\ b \in Seq(Members)
          /\ (a = <<>> /\ b = <<>>) \/ \E x \in Members : a = Append(b, x)
      BY <3>1, AboveShape
    <3>3. g[m] = PathOf(a) /\ g[n] = PathOf(b)
      BY <1>3, <3>1
    <3> HIDE DEF g, a, b
    <3>4. ParentScopePath(PathOf(a)) = PathOf(b)
      <4>1. CASE a = <<>> /\ b = <<>>
        <5>1. ParentScopePath(<<Global>>) = <<Global>> /\ PathOf(<<>>) = <<Global>>
          BY GlobalHasNoParent DEF PathOf
        <5> QED BY <4>1, <5>1
      <4>2. CASE \E x \in Members : a = Append(b, x)
        BY <3>2, <4>2, ParentOfPath
      <4> QED BY <3>2, <4>1, <4>2
    <3> QED BY <2>2, <3>3, <3>4 DEF m
  <2> QED BY <2>1, <2>2
<1>5. IsUp(g)
  <2>1. \A n \in D : g[n] = E(g, n)
    BY <1>4
  <2>2. g = [n \in D |-> g[n]]
    OBVIOUS
  <2> HIDE DEF g
  <2> QED BY <2>1, <2>2
<1> HIDE DEF g
<1>6. IsUp(Up)
  BY <1>5
<1> HIDE DEF Up
<1>7. \A n \in D : Up[n] = E(Up, n)
  BY <1>6
<1>8. \A n \in D : Up[n] = g[n]
  <2> DEFINE L == {n \in Nat : n \in D => Up[n] = g[n]}
  <2>1. 0 \in L
    BY <1>4, <1>7
  <2>2. ASSUME NEW n \in L PROVE n + 1 \in L
    <3> SUFFICES ASSUME n + 1 \in D PROVE Up[n + 1] = g[n + 1]
      OBVIOUS
    <3>1. n \in D /\ n + 1 # 0 /\ n + 1 - 1 = n
      BY <1>1
    <3> QED BY <1>4, <1>7, <3>1
  <2>3. L \in SUBSET Nat
    OBVIOUS
  <2> HIDE DEF L
  <2>4. L = Nat
    BY <2>1, <2>2, <2>3, Induction
  <2> QED BY <1>1, <2>4 DEF L
<1>9. \A n \in D : g[n] = PathOf(Above(q, n)) /\ Above(q, n) \in Seq(Members)
  <2>1. \A n \in D : n \in Nat
    BY <1>1
  <2> QED BY <1>3, <2>1, AboveShape
<1>10. ASSUME PathOf(p) \in WaysUp(path) PROVE IsPrefix(p, q)
  <2>1. PICK n \in D : PathOf(p) = PathOf(Above(q, n))
    BY <1>2, <1>8, <1>9, <1>10
  <2>2. p = Above(q, n)
    BY <1>9, <2>1, PathInjective
  <2>3. IsPrefix(Above(q, n), q)
    <3>1. CASE n <= Len(q)
      <4>1. n \in 0..Len(q)
        BY <1>1, <3>1
      <4> QED BY <1>9, <4>1, AboveShape
    <3>2. CASE ~(n <= Len(q))
      <4>1. Above(q, n) = SubSeq(q, 1, 0)
        BY <3>2 DEF Above
      <4>2. SubSeq(q, 1, 0) = <<>>
        BY SubSeqEmpty
      <4> QED BY <4>1, <4>2, PrefixBasics
    <3> QED BY <3>1, <3>2
  <2> QED BY <2>2, <2>3
<1>11. ASSUME IsPrefix(p, q) PROVE PathOf(p) \in WaysUp(path)
  <2>1. PICK n \in 0..Len(q) : p = Above(q, n)
    BY <1>11, AboveShape
  <2>2. n \in D
    BY <1>1
  <2> QED BY <1>2, <1>8, <1>9, <2>1, <2>2
<1> QED BY <1>10, <1>11 DEF path

-----------------------------------------------------------------------------
(* Reading a key back. *)

LEMMA LastOfAppend ==
  ASSUME NEW S, NEW s \in Seq(S), NEW e \in S
  PROVE  /\ Last(Append(s, e)) = e /\ Front(Append(s, e)) = s
         /\ Append(s, e) \in Seq(S) /\ Append(s, e) # <<>>
<1> DEFINE u == Append(s, e)
           w == SubSeq(u, 1, Len(s))
<1>1. /\ u \in Seq(S) /\ u # <<>> /\ Len(u) = Len(s) + 1 /\ Len(s) \in Nat
      /\ \A i \in 1..Len(s) : u[i] = s[i] /\ s[i] \in S
      /\ u[Len(s) + 1] = e
  BY AppendProperties, LenProperties
<1> HIDE DEF u
<1>2. \A i \in 1..Len(s) : u[i] \in S
  BY <1>1
<1>3. /\ w \in Seq(S) /\ Len(w) = (IF 1 <= Len(s) THEN Len(s) - 1 + 1 ELSE 0)
      /\ \A i \in 1..(Len(s) - 1 + 1) : w[i] = u[1 + i - 1]
  BY <1>1, <1>2, SubSeqProperties
<1> HIDE DEF w
<1>4. Len(w) = Len(s) /\ \A i \in 1..Len(w) : w[i] = s[i]
  <2>1. \A i \in 1..Len(s) : i \in 1..(Len(s) - 1 + 1) /\ 1 + i - 1 = i
    BY <1>1
  <2> QED BY <1>1, <1>3, <2>1
<1>5. w = s
  BY <1>3, <1>4, SeqEqual
<1>6. Len(u) - 1 = Len(s)
  BY <1>1
<1>7. Front(u) = s /\ Last(u) = e
  BY <1>1, <1>5, <1>6 DEF Front, Last, w
<1> QED BY <1>1, <1>7 DEF u

(* One token more of the last part, or its end. *)
LEMMA ReadTokenShape ==
  ASSUME NEW P \in Seq(Seq(Tokens)), NEW t \in Seq(Tokens), NEW token \in Tokens
  PROVE  ReadToken(Append(P, t), token) =
           IF token = ":" /\ t # <<>> /\ Last(t) = ":"
           THEN Append(Append(P, Front(t)), <<>>) ELSE Append(P, Append(t, token))
<1>1. Last(Append(P, t)) = t /\ Front(Append(P, t)) = P
  BY LastOfAppend
<1>2. Append(t, token) \in Seq(Tokens)
  BY AppendProperties
<1>3. P \o <<Append(t, token)>> = Append(P, Append(t, token))
  BY <1>2, AppendIsConcat
<1>4. t # <<>> => P \o <<Front(t)>> = Append(P, Front(t))
  <2> SUFFICES ASSUME t # <<>> PROVE P \o <<Front(t)>> = Append(P, Front(t))
    OBVIOUS
  <2>1. Front(t) \in Seq(Tokens)
    <3>1. PICK s \in Seq(Tokens), e \in Tokens : t = Append(s, e)
      BY SequenceEmptyOrAppend
    <3> QED BY <3>1, LastOfAppend
  <2> QED BY <2>1, AppendIsConcat
<1> QED BY <1>1, <1>3, <1>4 DEF ReadToken

KeyText(path, namespace) == path \o <<":", ":">> \o <<namespace>> \o <<":", ":">>

LEMMA KeyTextShape ==
  ASSUME NEW path \in Seq(Tokens), NEW ns \in Tokens
  PROVE  /\ KeyText(path, ns) \in Seq(Tokens)
         /\ Len(KeyText(path, ns)) = Len(path) + 5
         /\ \A i \in 1..Len(path) : KeyText(path, ns)[i] = path[i]
         /\ KeyText(path, ns)[Len(path) + 1] = ":" /\ KeyText(path, ns)[Len(path) + 2] = ":"
         /\ KeyText(path, ns)[Len(path) + 3] = ns
         /\ KeyText(path, ns)[Len(path) + 4] = ":" /\ KeyText(path, ns)[Len(path) + 5] = ":"
<1> DEFINE s == <<":", ":">>
           o == <<ns>>
           a == path \o s
           b == a \o o
           c == b \o s
           N == Len(path)
<1>1. s \in Seq(Tokens) /\ Len(s) = 2 /\ s[1] = ":" /\ s[2] = ":"
  BY TokensAssumption
<1>2. o \in Seq(Tokens) /\ Len(o) = 1 /\ o[1] = ns /\ N \in Nat
  BY OneToken, LenProperties
<1> HIDE DEF s, o
<1>3. /\ a \in Seq(Tokens) /\ Len(a) = N + Len(s)
      /\ \A i \in 1..N + Len(s) : a[i] = IF i <= N THEN path[i] ELSE s[i - N]
  BY <1>1, ConcatProperties
<1> HIDE DEF a
<1>4. /\ b \in Seq(Tokens) /\ Len(b) = Len(a) + Len(o)
      /\ \A i \in 1..Len(a) + Len(o) : b[i] = IF i <= Len(a) THEN a[i] ELSE o[i - Len(a)]
  <2>1. a \in Seq(Tokens)
    BY <1>3
  <2> QED BY <1>2, <2>1, ConcatProperties
<1> HIDE DEF b
<1>5. /\ c \in Seq(Tokens) /\ Len(c) = Len(b) + Len(s)
      /\ \A i \in 1..Len(b) + Len(s) : c[i] = IF i <= Len(b) THEN b[i] ELSE s[i - Len(b)]
  <2>1. b \in Seq(Tokens)
    BY <1>4
  <2> QED BY <1>1, <2>1, ConcatProperties
<1> HIDE DEF c, N
<1>6. Len(a) = N + 2 /\ Len(b) = N + 3 /\ Len(c) = N + 5
  BY <1>1, <1>2, <1>3, <1>4, <1>5
<1>7. \A i \in 1..N : c[i] = path[i]
  <2>1. \A i \in 1..N : /\ i \in 1..Len(b) + Len(s) /\ i <= Len(b)
                        /\ i \in 1..Len(a) + Len(o) /\ i <= Len(a)
                        /\ i \in 1..N + Len(s) /\ i <= N
    BY <1>1, <1>2, <1>6
  <2> QED BY <1>3, <1>4, <1>5, <2>1
<1>8. c[N + 1] = s[1] /\ c[N + 2] = s[2]
  <2>1. \A i \in {N + 1, N + 2} :
          /\ i \in 1..Len(b) + Len(s) /\ i <= Len(b)
          /\ i \in 1..Len(a) + Len(o) /\ i <= Len(a)
          /\ i \in 1..N + Len(s) /\ ~(i <= N)
    BY <1>1, <1>2, <1>6
  <2>2. \A i \in {N + 1, N + 2} : c[i] = s[i - N]
    BY <1>3, <1>4, <1>5, <2>1
  <2> DEFINE i == N + 1
             j == N + 2
  <2>3. i - N = 1 /\ j - N = 2 /\ i \in {N + 1, N + 2} /\ j \in {N + 1, N + 2}
    BY <1>2
  <2>4. c[i] = s[i - N] /\ c[j] = s[j - N]
    BY <2>2, <2>3
  <2> HIDE DEF i, j
  <2>5. c[i] = s[1] /\ c[j] = s[2]
    BY <2>3, <2>4
  <2> QED BY <2>5 DEF i, j
<1>9. c[N + 3] = o[1]
  <2> DEFINE i == N + 3
  <2>1. /\ i \in 1..Len(b) + Len(s) /\ i <= Len(b)
        /\ i \in 1..Len(a) + Len(o) /\ ~(i <= Len(a)) /\ i - Len(a) = 1
    BY <1>1, <1>2, <1>6
  <2> HIDE DEF i
  <2>2. c[i] = o[1]
    BY <1>4, <1>5, <2>1
  <2> QED BY <2>2 DEF i
<1>10. c[N + 4] = s[1] /\ c[N + 5] = s[2]
  <2> DEFINE i == N + 4
             j == N + 5
  <2>1. /\ i \in 1..Len(b) + Len(s) /\ ~(i <= Len(b)) /\ i - Len(b) = 1
        /\ j \in 1..Len(b) + Len(s) /\ ~(j <= Len(b)) /\ j - Len(b) = 2
    BY <1>1, <1>2, <1>6
  <2> HIDE DEF i, j
  <2>2. c[i] = s[1] /\ c[j] = s[2]
    BY <1>5, <2>1
  <2> QED BY <2>2 DEF i, j
<1>11. c = KeyText(path, ns)
  BY DEF KeyText, c, b, a, s, o
<1>12. /\ c \in Seq(Tokens) /\ Len(c) = N + 5 /\ \A i \in 1..N : c[i] = path[i]
       /\ c[N + 1] = ":" /\ c[N + 2] = ":" /\ c[N + 3] = ns /\ c[N + 4] = ":" /\ c[N + 5] = ":"
  BY <1>1, <1>2, <1>5, <1>6, <1>7, <1>8, <1>9, <1>10
<1> QED BY <1>11, <1>12 DEF N

LEMMA AppendToOne ==
  ASSUME NEW S, NEW a \in S, NEW b \in S
  PROVE  Append(<<a>>, b) = <<a, b>>
<1> DEFINE s == <<a>>
           t == <<a, b>>
           u == Append(s, b)
<1>1. /\ s \in Seq(S) /\ Len(s) = 1 /\ s[1] = a
      /\ t \in Seq(S) /\ Len(t) = 2 /\ t[1] = a /\ t[2] = b
  OBVIOUS
<1> HIDE DEF s, t
<1>2. u \in Seq(S) /\ Len(u) = Len(s) + 1 /\ (\A i \in 1..Len(s) : u[i] = s[i]) /\ u[Len(s) + 1] = b
  <2>1. s \in Seq(S)
    BY <1>1
  <2> QED BY <2>1, AppendProperties
<1> HIDE DEF u
<1>3. Len(u) = 2 /\ \A i \in 1..2 : u[i] = t[i]
  BY <1>1, <1>2
<1>4. u = t
  BY <1>1, <1>2, <1>3, SeqEqual
<1> QED BY <1>4 DEF u, s, t

(* The parts read so far, after n tokens of the text of a key. *)
ReadSoFar(path, ns, n) ==
  IF n <= Len(path) THEN Append(<<>>, SubSeq(path, 1, n))
  ELSE IF n = Len(path) + 1 THEN Append(<<>>, Append(path, ":"))
  ELSE IF n = Len(path) + 2 THEN Append(<<path>>, <<>>)
  ELSE IF n = Len(path) + 3 THEN Append(<<path>>, <<ns>>)
  ELSE IF n = Len(path) + 4 THEN Append(<<path>>, Append(<<ns>>, ":"))
  ELSE Append(<<path, <<ns>> >>, <<>>)

LEMMA ReadsOn ==
  ASSUME NEW path, IsClean(path), NEW ns \in Tokens \ {":"}, NEW n \in 0..Len(path) + 4
  PROVE  ReadSoFar(path, ns, n + 1)
           = ReadToken(ReadSoFar(path, ns, n), KeyText(path, ns)[n + 1])
<1> DEFINE text == KeyText(path, ns)
           N == Len(path)
           R(m) == ReadSoFar(path, ns, m)
           empty == <<>>
           one == <<path>>
           name == <<ns>>
<1>1. /\ path \in Seq(Tokens) /\ path # <<>> /\ path[N] # ":" /\ N \in Nat /\ N >= 1
      /\ \A i \in 1..N - 1 : ~(path[i] = ":" /\ path[i + 1] = ":")
      /\ path[1] # ":"
  BY EmptySeq DEF IsClean
<1>2. /\ \A i \in 1..N : text[i] = path[i]
      /\ text[N + 1] = ":" /\ text[N + 2] = ":" /\ text[N + 3] = ns
      /\ text[N + 4] = ":" /\ text[N + 5] = ":"
  BY <1>1, KeyTextShape
<1>3. empty \in Seq(Tokens) /\ empty \in Seq(Seq(Tokens)) /\ ":" \in Tokens
  BY EmptySeq, TokensAssumption
<1>4. one \in Seq(Seq(Tokens)) /\ name \in Seq(Tokens)
  BY <1>1
<1>5. Append(one, name) = <<path, <<ns>> >>
  BY <1>1, <1>4, AppendToOne
<1>6. name # <<>> /\ Last(name) = ns /\ Front(path) = SubSeq(path, 1, N - 1) /\ Last(path) = path[N]
  BY DEF Last, Front
<1> HIDE DEF text, empty, one, name
<1>7. CASE n < N
  <2> DEFINE t == SubSeq(path, 1, n)
             token == path[n + 1]
  <2>1. n \in 0..N /\ n \in 0..N - 1 /\ n + 1 \in 1..N /\ n <= N /\ n + 1 <= N
    BY <1>1, <1>7
  <2>2. t \in Seq(Tokens) /\ Len(t) = n /\ \A i \in 1..n : t[i] = path[i]
    BY <1>1, <2>1, CutShape
  <2>3. SubSeq(path, 1, n + 1) = Append(t, token) /\ token \in Tokens
    BY <1>1, <2>1, CutShape
  <2> HIDE DEF N
  <2>4. R(n) = Append(empty, t) /\ R(n + 1) = Append(empty, Append(t, token))
    BY <2>1, <2>3 DEF ReadSoFar, N, empty
  <2>5. text[n + 1] = token
    BY <1>2, <2>1
  <2> HIDE DEF R, t, token
  <2>6. ~(token = ":" /\ t # <<>> /\ Last(t) = ":")
    <3> SUFFICES ASSUME token = ":", t # <<>>, Last(t) = ":" PROVE FALSE
      OBVIOUS
    <3>1. n # 0
      BY <2>2, EmptySeq
    <3>2. n \in 1..N - 1 /\ n \in 1..n
      BY <2>1, <3>1
    <3>3. path[n] = ":"
      BY <2>2, <3>2 DEF Last
    <3> QED BY <1>1, <3>2, <3>3 DEF token
  <2>7. ReadToken(Append(empty, t), token) = Append(empty, Append(t, token))
    BY <1>3, <2>2, <2>3, <2>6, ReadTokenShape
  <2> QED BY <2>4, <2>5, <2>7 DEF text, R
<1>8. CASE n = N
  <2>1. R(n) = Append(empty, path) /\ R(n + 1) = Append(empty, Append(path, ":"))
    <3>1. n <= N /\ ~(n + 1 <= N)
      BY <1>1, <1>8
    <3>2. SubSeq(path, 1, N) = path
      BY <1>1, SubSeqFull
    <3> QED BY <1>8, <3>1, <3>2 DEF ReadSoFar, empty
  <2>2. text[n + 1] = ":"
    BY <1>2, <1>8
  <2> HIDE DEF R
  <2>3. ReadToken(Append(empty, path), ":") = Append(empty, Append(path, ":"))
    BY <1>1, <1>3, <1>6, ReadTokenShape
  <2> QED BY <2>1, <2>2, <2>3 DEF text, R
<1>9. CASE n = N + 1
  <2> DEFINE t == Append(path, ":")
  <2>1. R(n) = Append(empty, t) /\ R(n + 1) = Append(one, <<>>)
    <3>1. ~(n <= N) /\ ~(n + 1 <= N) /\ n + 1 = N + 2
      BY <1>1, <1>9
    <3> QED BY <1>1, <1>9, <3>1 DEF ReadSoFar, empty, one
  <2>2. text[n + 1] = ":"
    <3>1. n + 1 = N + 2
      BY <1>1, <1>9
    <3> QED BY <1>2, <3>1
  <2>3. t \in Seq(Tokens) /\ t # <<>> /\ Last(t) = ":" /\ Front(t) = path
    BY <1>1, <1>3, LastOfAppend
  <2>4. Append(empty, path) = one
    BY DEF empty, one
  <2> HIDE DEF R, t
  <2>5. ReadToken(Append(empty, t), ":") = Append(Append(empty, path), <<>>)
    BY <1>3, <2>3, ReadTokenShape
  <2> QED BY <2>1, <2>2, <2>4, <2>5 DEF text, R
<1>10. CASE n = N + 2
  <2>1. R(n) = Append(one, <<>>) /\ R(n + 1) = Append(one, Append(<<>>, ns))
    <3>1. ~(n <= N) /\ n # N + 1 /\ ~(n + 1 <= N) /\ n + 1 # N + 1 /\ n + 1 # N + 2 /\ n + 1 = N + 3
      BY <1>1, <1>10
    <3>2. Append(<<>>, ns) = <<ns>>
      OBVIOUS
    <3> QED BY <1>10, <3>1, <3>2 DEF ReadSoFar, one
  <2>2. text[n + 1] = ns
    <3>1. n + 1 = N + 3
      BY <1>1, <1>10
    <3> QED BY <1>2, <3>1
  <2> HIDE DEF R
  <2>3. ReadToken(Append(one, empty), ns) = Append(one, Append(empty, ns))
    BY <1>3, <1>4, ReadTokenShape
  <2> QED BY <2>1, <2>2, <2>3 DEF text, R, empty
<1>11. CASE n = N + 3
  <2>1. R(n) = Append(one, name) /\ R(n + 1) = Append(one, Append(name, ":"))
    <3>1. /\ ~(n <= N) /\ n # N + 1 /\ n # N + 2
          /\ ~(n + 1 <= N) /\ n + 1 # N + 1 /\ n + 1 # N + 2 /\ n + 1 # N + 3 /\ n + 1 = N + 4
      BY <1>1, <1>11
    <3> QED BY <1>11, <3>1 DEF ReadSoFar, one, name
  <2>2. text[n + 1] = ":"
    <3>1. n + 1 = N + 4
      BY <1>1, <1>11
    <3> QED BY <1>2, <3>1
  <2> HIDE DEF R
  <2>3. ReadToken(Append(one, name), ":") = Append(one, Append(name, ":"))
    BY <1>3, <1>4, <1>6, ReadTokenShape
  <2> QED BY <2>1, <2>2, <2>3 DEF text, R
<1>12. CASE n = N + 4
  <2> DEFINE t == Append(name, ":")
  <2>1. R(n) = Append(one, t) /\ R(n + 1) = Append(Append(one, name), <<>>)
    <3>1. /\ ~(n <= N) /\ n # N + 1 /\ n # N + 2 /\ n # N + 3
          /\ ~(n + 1 <= N) /\ n + 1 # N + 1 /\ n + 1 # N + 2 /\ n + 1 # N + 3 /\ n + 1 # N + 4
      BY <1>1, <1>12
    <3> QED BY <1>5, <1>12, <3>1 DEF ReadSoFar, one, name
  <2>2. text[n + 1] = ":"
    <3>1. n + 1 = N + 5
      BY <1>1, <1>12
    <3> QED BY <1>2, <3>1
  <2>3. t \in Seq(Tokens) /\ t # <<>> /\ Last(t) = ":" /\ Front(t) = name
    BY <1>3, <1>4, LastOfAppend
  <2> HIDE DEF R, t
  <2>4. ReadToken(Append(one, t), ":") = Append(Append(one, name), <<>>)
    BY <1>3, <1>4, <2>3, ReadTokenShape
  <2> QED BY <2>1, <2>2, <2>4 DEF text, R
<1> QED
  <2>1. n < N \/ n = N \/ n = N + 1 \/ n = N + 2 \/ n = N + 3 \/ n = N + 4
    BY <1>1
  <2> QED BY <1>7, <1>8, <1>9, <1>10, <1>11, <1>12, <2>1 DEF R, text

(* from_string gives back what as_string was given. *)
LEMMA PartsOfKey ==
  ASSUME NEW path, IsClean(path), NEW ns \in Tokens \ {":"}
  PROVE  Parts(KeyText(path, ns)) = Append(<<path, <<ns>> >>, <<>>)
<1> DEFINE text == KeyText(path, ns)
           D == 0..Len(text)
           E(f, n) == IF n = 0 THEN << <<>> >> ELSE ReadToken(f[n - 1], text[n])
           IsUpto(f) == f = [n \in D |-> E(f, n)]
           Upto == CHOOSE f : IsUpto(f)
           g == [n \in D |-> ReadSoFar(path, ns, n)]
<1>1. /\ Len(text) = Len(path) + 5 /\ Len(path) \in Nat /\ Len(text) \in Nat
  <2>1. path \in Seq(Tokens)
    BY DEF IsClean
  <2>2. Len(text) = Len(path) + 5 /\ Len(path) \in Nat
    BY <2>1, KeyTextShape, LenProperties
  <2> HIDE DEF text
  <2> QED BY <2>2
<1>2. Parts(text) = Upto[Len(text)]
  BY DEF Parts
<1>3. \A n \in D : g[n] = ReadSoFar(path, ns, n)
  OBVIOUS
<1>4. ReadSoFar(path, ns, 0) = << <<>> >>
  <2>1. SubSeq(path, 1, 0) = <<>>
    BY SubSeqEmpty
  <2>2. 0 <= Len(path)
    BY <1>1
  <2>3. Append(<<>>, <<>>) = << <<>> >>
    OBVIOUS
  <2> QED BY <2>1, <2>2, <2>3 DEF ReadSoFar
<1>5. ASSUME NEW n \in D PROVE g[n] = E(g, n)
  <2>1. CASE n = 0
    BY <1>3, <1>4, <2>1
  <2>2. CASE n # 0
    <3> DEFINE m == n - 1
    <3>1. m \in 0..Len(path) + 4 /\ m \in D /\ m + 1 = n
      BY <1>1, <2>2
    <3>2. g[m] = ReadSoFar(path, ns, m) /\ g[n] = ReadSoFar(path, ns, m + 1)
      BY <1>3, <3>1
    <3>3. text[m + 1] = text[n]
      BY <3>1
    <3> HIDE DEF g
    <3>4. g[n] = ReadToken(g[m], text[n])
      <4> HIDE DEF m
      <4> QED BY <3>1, <3>2, <3>3, ReadsOn DEF text
    <3> QED BY <2>2, <3>4
  <2> QED BY <2>1, <2>2
<1> HIDE DEF text
<1>6. IsUpto(g)
  <2>1. g = [n \in D |-> g[n]]
    OBVIOUS
  <2> HIDE DEF g
  <2> QED BY <1>5, <2>1
<1> HIDE DEF g
<1>7. IsUpto(Upto)
  BY <1>6
<1> HIDE DEF Upto
<1>8. \A n \in D : Upto[n] = E(Upto, n)
  BY <1>7
<1>9. \A n \in D : Upto[n] = g[n]
  <2> DEFINE L == {n \in Nat : n \in D => Upto[n] = g[n]}
  <2>1. 0 \in L
    BY <1>5, <1>8
  <2>2. ASSUME NEW n \in L PROVE n + 1 \in L
    <3> SUFFICES ASSUME n + 1 \in D PROVE Upto[n + 1] = g[n + 1]
      OBVIOUS
    <3>1. n \in D /\ n + 1 # 0 /\ n + 1 - 1 = n
      BY <1>1
    <3> QED BY <1>5, <1>8, <3>1
  <2>3. L \in SUBSET Nat
    OBVIOUS
  <2> HIDE DEF L
  <2>4. L = Nat
    BY <2>1, <2>2, <2>3, Induction
  <2> QED BY <1>1, <2>4 DEF L
<1>10. Len(text) \in D
  BY <1>1
<1>11. Parts(text) = ReadSoFar(path, ns, Len(path) + 5)
  BY <1>1, <1>2, <1>3, <1>9, <1>10
<1>12. ReadSoFar(path, ns, Len(path) + 5) = Append(<<path, <<ns>> >>, <<>>)
  <2> DEFINE k == Len(path) + 5
  <2>1. /\ ~(k <= Len(path)) /\ k # Len(path) + 1 /\ k # Len(path) + 2
        /\ k # Len(path) + 3 /\ k # Len(path) + 4
    BY <1>1
  <2> HIDE DEF k
  <2>2. ReadSoFar(path, ns, k) = Append(<<path, <<ns>> >>, <<>>)
    BY <2>1 DEF ReadSoFar
  <2> QED BY <2>2 DEF k
<1> QED BY <1>11, <1>12 DEF text

LEMMA KeyIsRead ==
  ASSUME NEW path, IsClean(path), NEW ns \in Tokens \ {":"},
         NEW key, key.text = KeyText(path, ns)
  PROVE  IsCacheKey(key) /\ ScopePrefix(key) = path /\ Namespace(key) = <<ns>>
<1> DEFINE s == <<path, <<ns>> >>
           parts == Append(s, <<>>)
<1>1. Parts(key.text) = parts
  BY PartsOfKey
<1>2. /\ s \in Seq(Seq(Tokens)) /\ <<>> \in Seq(Tokens) /\ Len(s) = 2
      /\ s[1] = path /\ s[2] = <<ns>>
  BY EmptySeq DEF IsClean
<1> HIDE DEF s
<1>3. Len(parts) = 3 /\ parts[1] = path /\ parts[2] = <<ns>>
  <2> DEFINE e == <<>>
  <2>1. s \in Seq(Seq(Tokens)) /\ e \in Seq(Tokens)
    BY <1>2
  <2> HIDE DEF e
  <2>2. Len(Append(s, e)) = Len(s) + 1 /\ \A i \in 1..Len(s) : Append(s, e)[i] = s[i]
    BY <2>1, AppendProperties
  <2> QED BY <1>2, <2>2 DEF e
<1> QED BY <1>1, <1>3 DEF IsCacheKey, ScopePrefix, Namespace

-----------------------------------------------------------------------------
(* The place a caller means, and the path that is built for it. *)

LEMMA PassedShape ==
  ASSUME NEW c \in Configs, NEW scope \in LevelNames(c), NEW given \in Passed[c][scope]
  PROVE  /\ \A p \in DOMAIN given : p \in DOMAIN ValueTexts /\ given[p] \in ValueTexts[p]
         /\ IsGiven(given)
         /\ ~ExtraParams => DOMAIN given \subseteq ParamsOf(c, scope)
<1>1. Passed[c][scope]
        = UNION {Texts(ps) : ps \in SUBSET (IF ExtraParams THEN AllParams(c) ELSE ParamsOf(c, scope))}
  BY DEF Passed
<1>2. PICK ps \in SUBSET (IF ExtraParams THEN AllParams(c) ELSE ParamsOf(c, scope)) :
        given \in Texts(ps)
  BY <1>1
<1>3. DOMAIN given = ps /\ \A p \in ps : given[p] \in ValueTexts[p]
  BY <1>2 DEF Texts
<1>4. ParamsOf(c, scope) \subseteq AllParams(c)
  <2>1. ToSet(PathToLevel(c, scope)) \subseteq Levels(c)
    BY PathDown, ToSetOf
  <2> QED BY <2>1 DEF ParamsOf, AllParams
<1>5. \A p \in ps : p \in DOMAIN ValueTexts
  BY <1>2, <1>4, ConfigsAssumption DEF AllParams
<1>6. \A p \in ps : given[p] \in Seq(Tokens)
  BY <1>3, <1>5, ValuesAssumption
<1> QED BY <1>2, <1>3, <1>5, <1>6 DEF IsGiven

LEMMA LevelOnPath ==
  ASSUME NEW c \in Configs, NEW scope \in LevelNames(c)
  PROVE  /\ PathToLevel(c, scope) \in Seq(Levels(c))
         /\ DOMAIN PathToLevel(c, scope) = 1..Len(PathToLevel(c, scope))
         /\ Len(PathToLevel(c, scope)) \in Nat
         /\ \A n \in 1..Len(PathToLevel(c, scope)) :
              /\ PathToLevel(c, scope)[n] \in Levels(c)
              /\ c.param[PathToLevel(c, scope)[n]] \in ParamsOf(c, scope)
         /\ PathToLevel(c, scope) = <<>> <=> scope = Global
<1> DEFINE path == PathToLevel(c, scope)
<1>1. path \in Seq(Levels(c))
  BY PathDown
<1>2. path = <<>> <=> scope = Global
  <2>1. CASE scope = Global
    BY <2>1, PathDown
  <2>2. CASE scope # Global
    <3>1. scope \in Levels(c) /\ Parent(c, scope) \in LevelNames(c)
      BY <2>2, TreeShape DEF Levels
    <3>2. path = Append(PathToLevel(c, Parent(c, scope)), scope)
      BY <3>1, PathDown
    <3>3. PathToLevel(c, Parent(c, scope)) \in Seq(Levels(c))
      BY <3>1, PathDown
    <3>4. path # <<>>
      BY <3>1, <3>2, <3>3, AppendProperties
    <3> QED BY <2>2, <3>4
  <2> QED BY <2>1, <2>2
<1>3. ParamsOf(c, scope) = {c.param[m] : m \in ToSet(path)}
  BY DEF ParamsOf
<1> HIDE DEF path
<1>4. DOMAIN path = 1..Len(path) /\ Len(path) \in Nat /\ \A n \in 1..Len(path) : path[n] \in Levels(c)
  BY <1>1, LenProperties
<1>5. \A n \in 1..Len(path) : path[n] \in ToSet(path)
  BY <1>4 DEF ToSet
<1> QED BY <1>1, <1>2, <1>3, <1>4, <1>5 DEF path

(* The place of a scope whose parameters are all passed. *)
LEMMA PlaceShape ==
  ASSUME NEW c \in Configs, NEW scope \in LevelNames(c), NEW given,
         \A p \in DOMAIN given : p \in DOMAIN ValueTexts /\ given[p] \in ValueTexts[p],
         ParamsOf(c, scope) \subseteq DOMAIN given
  PROVE  /\ Place(c, scope, given) \in Seq(Members)
         /\ PathOf(Place(c, scope, given)) =
              IF scope = Global THEN <<Global>>
              ELSE Joined(SegmentsOf(c, PathToLevel(c, scope), given))
<1> DEFINE path == PathToLevel(c, scope)
           place == Place(c, scope, given)
           N == Len(path)
<1>1. /\ path \in Seq(Levels(c)) /\ DOMAIN path = 1..N /\ N \in Nat
      /\ \A n \in 1..N : path[n] \in Levels(c) /\ c.param[path[n]] \in ParamsOf(c, scope)
      /\ path = <<>> <=> scope = Global
  BY LevelOnPath
<1>2. place = [n \in DOMAIN path |-> <<path[n], given[c.param[path[n]]]>>]
  BY DEF Place
<1>3. SegmentsOf(c, path, given) = [n \in DOMAIN path |-> <<path[n], ":">> \o given[c.param[path[n]]]]
  BY DEF SegmentsOf, Segment
<1> HIDE DEF path, place, N
<1>4. \A n \in 1..N : <<path[n], given[c.param[path[n]]]>> \in Members
  <2>1. Levels(c) \subseteq Tokens \ {":", "/"}
    BY TreeShape DEF Levels
  <2>2. \A n \in 1..N : given[c.param[path[n]]] \in Values
    BY <1>1 DEF Values
  <2> QED BY <1>1, <2>1, <2>2 DEF Members
<1>5. place \in Seq(Members) /\ Len(place) = N /\ DOMAIN place = 1..N
  BY <1>1, <1>2, <1>4
<1>6. place = <<>> <=> scope = Global
  <2>1. place = <<>> <=> N = 0
    BY <1>5, EmptySeq
  <2>2. path = <<>> <=> N = 0
    BY <1>1, EmptySeq DEF N
  <2> QED BY <1>1, <2>1, <2>2
<1>7. [n \in DOMAIN place |-> <<place[n][1], ":">> \o place[n][2]] = SegmentsOf(c, path, given)
  BY <1>1, <1>2, <1>3, <1>5
<1>8. PathOf(place) = IF scope = Global THEN <<Global>> ELSE Joined(SegmentsOf(c, path, given))
  BY <1>6, <1>7 DEF PathOf
<1> QED BY <1>5, <1>8 DEF place, path

LEMMA BuiltPathIsText ==
  ASSUME NEW c \in Configs, NEW given, IsGiven(given)
  PROVE  BuildScopePath(c, given) \in Seq(Tokens)
<1>1. PICK f : /\ IsDescent(c, given, f)
               /\ BuildScopePath(c, given) = IF f[Global] = <<>> THEN <<Global>> ELSE Joined(f[Global])
  BY DescentBuildsPath
<1>2. f[Global] \in Seq(Seq(Tokens))
  BY <1>1, TreeShape DEF IsDescent
<1>3. <<Global>> \in Seq(Tokens)
  BY GlobalIsClean DEF IsClean
<1>4. f[Global] # <<>> => Joined(f[Global]) \in Seq(Tokens)
  <2>1. <<Global>> \in Seq(Tokens)
    BY <1>3
  <2> QED BY <1>2, <2>1, JoinedAppend
<1> QED BY <1>1, <1>3, <1>4

LEMMA NothingGiven ==
  ASSUME NEW c \in Configs, NEW given, IsGiven(given), DOMAIN given = {}
  PROVE  BuildScopePath(c, given) = <<Global>>
<1>1. PICK f : /\ IsDescent(c, given, f)
               /\ BuildScopePath(c, given) = IF f[Global] = <<>> THEN <<Global>> ELSE Joined(f[Global])
  BY DescentBuildsPath
<1>2. GivenBelow(c, Global, given) = {}
  BY DEF GivenBelow
<1>3. Global \in LevelNames(c)
  BY TreeShape
<1>4. f[Global] = <<>>
  BY <1>1, <1>2, <1>3 DEF IsDescent, NextSegments
<1> QED BY <1>1, <1>4

(* Given the parameters of the scope alone, the path that is built is the   *)
(* path of the place meant.                                                 *)
LEMMA BuiltPathOfPlace ==
  ASSUME NEW c \in Configs, ParamsAreUnique(c), ~ExtraParams,
         NEW scope \in LevelNames(c), NEW given \in Passed[c][scope], IsValid(c, scope, given)
  PROVE  (IF scope = Global THEN <<Global>> ELSE BuildScopePath(c, given))
           = PathOf(Place(c, scope, given))
<1>1. /\ \A p \in DOMAIN given : p \in DOMAIN ValueTexts /\ given[p] \in ValueTexts[p]
      /\ IsGiven(given) /\ DOMAIN given \subseteq ParamsOf(c, scope)
  BY PassedShape
<1>2. ParamsOf(c, scope) \subseteq DOMAIN given
  <2>1. CASE scope = Global
    <3>1. ParamsOf(c, scope) = {}
      BY <2>1, PathDown, ToSetOf DEF ParamsOf
    <3> QED BY <3>1
  <2>2. CASE scope # Global
    BY <2>2 DEF IsValid
  <2> QED BY <2>1, <2>2
<1>3. PathOf(Place(c, scope, given)) =
        IF scope = Global THEN <<Global>>
        ELSE Joined(SegmentsOf(c, PathToLevel(c, scope), given))
  BY <1>1, <1>2, PlaceShape
<1>4. ASSUME scope # Global
      PROVE  BuildScopePath(c, given) = Joined(SegmentsOf(c, PathToLevel(c, scope), given))
  <2>1. PICK f : /\ IsDescent(c, given, f)
                 /\ BuildScopePath(c, given) = IF f[Global] = <<>> THEN <<Global>> ELSE Joined(f[Global])
    BY <1>1, DescentBuildsPath
  <2>2. scope \in Levels(c) /\ DOMAIN given = ParamsOf(c, scope)
    BY <1>1, <1>2, <1>4 DEF Levels
  <2>3. f[Global] = SegmentsOf(c, PathToLevel(c, scope), given)
    BY <1>1, <2>1, <2>2, DescentToScope
  <2>4. f[Global] # <<>>
    <3> DEFINE path == PathToLevel(c, scope)
    <3>1. DOMAIN path # {}
      <4>1. path # <<>> /\ path \in Seq(Levels(c)) /\ DOMAIN path = 1..Len(path)
        BY <1>4, LevelOnPath
      <4> HIDE DEF path
      <4>2. Len(path) \in Nat \ {0}
        BY <4>1, EmptySeq
      <4>3. 1 \in 1..Len(path)
        BY <4>2
      <4>4. 1 \in DOMAIN path
        BY <4>1, <4>3
      <4> QED BY <4>4
    <3>2. DOMAIN f[Global] = DOMAIN path
      BY <2>3 DEF SegmentsOf
    <3>3. DOMAIN <<>> = {}
      OBVIOUS
    <3> QED BY <3>1, <3>2, <3>3
  <2> QED BY <2>1, <2>3, <2>4
<1> QED BY <1>3, <1>4
=============================================================================
