-------------------------- MODULE ScopedCacheProofs --------------------------
(***************************************************************************)
(* What holds of the facade's scopes and keys for every scope tree, every  *)
(* value of a parameter and any number of entries and restarts: the type   *)
(* of the variables, that keys can be read back, that the notions of       *)
(* "below" agree, and that the cache is the store its caller expects.      *)
(***************************************************************************)
EXTENDS ScopeProofs

-----------------------------------------------------------------------------
(* Types. *)

TInv == TypeOK /\ IsFiniteSet(DOMAIN store)

LEMMA ParamsArePassed ==
  ASSUME NEW c \in Configs, NEW scope \in LevelNames(c), NEW given, IsValid(c, scope, given)
  PROVE  ParamsOf(c, scope) \subseteq DOMAIN given
<1>1. CASE scope = Global
  <2>1. ParamsOf(c, scope) = {}
    BY <1>1, PathDown, ToSetOf DEF ParamsOf
  <2> QED BY <2>1
<1>2. CASE scope # Global
  BY <1>2 DEF IsValid
<1> QED BY <1>1, <1>2

LEMMA TargetIsLevel ==
  ASSUME NEW c \in Configs, NEW scope \in Scopes(c)
  PROVE  Target(scope) \in LevelNames(c)
BY ConfigsAssumption DEF IsNested, Scopes, Target

(* What a call is told, by position or by name. *)
IsTold(given) == \A p \in DOMAIN given : p \in DOMAIN ValueTexts /\ given[p] \in ValueTexts[p]

(* Parameters the scope does not need do not change the place. *)
LEMMA PlaceIsTyped ==
  ASSUME NEW c \in Configs, NEW scope \in LevelNames(c), NEW given, IsTold(given),
         IsValid(c, scope, given)
  PROVE  Place(c, scope, given) \in PlacesOf(c) /\ Place(c, scope, given) \in AllPlaces
<1> DEFINE ps == ParamsOf(c, scope)
           own == [p \in ps |-> given[p]]
           path == PathToLevel(c, scope)
<1>1. ps \subseteq DOMAIN given /\ \A p \in DOMAIN given : given[p] \in ValueTexts[p]
  BY ParamsArePassed DEF IsTold
<1>2. DOMAIN path = 1..Len(path) /\ \A n \in 1..Len(path) : c.param[path[n]] \in ps
  BY LevelOnPath
<1> HIDE DEF ps
<1>3. own \in Texts(ps)
  <2>1. own \in [ps -> UNION {ValueTexts[p] : p \in ps}] /\ \A p \in ps : own[p] \in ValueTexts[p]
    BY <1>1
  <2> QED BY <2>1 DEF Texts
<1>4. Place(c, scope, given) = Place(c, scope, own)
  <2>1. Place(c, scope, given) = [n \in DOMAIN path |-> <<path[n], given[c.param[path[n]]]>>]
    BY DEF Place
  <2>2. Place(c, scope, own) = [n \in DOMAIN path |-> <<path[n], own[c.param[path[n]]]>>]
    BY DEF Place
  <2>3. \A n \in DOMAIN path : own[c.param[path[n]]] = given[c.param[path[n]]]
    BY <1>2
  <2> HIDE DEF path, own
  <2> QED BY <2>1, <2>2, <2>3
<1>5. Place(c, scope, own) \in PlacesOf(c)
  BY <1>3 DEF PlacesOf, ps
<1> QED BY <1>4, <1>5 DEF AllPlaces

LEMMA HereIsTyped ==
  ASSUME config \in Configs, NEW scope \in Scopes(config), NEW given, IsTold(given),
         Valid(scope, given)
  PROVE  Here(scope, given) \in PlacesOf(config) /\ Here(scope, given) \in AllPlaces
BY TargetIsLevel, PlaceIsTyped DEF Here, Valid

LEMMA PassedIsTold ==
  ASSUME config \in Configs, NEW scope \in Scopes(config), NEW given \in Passed[config][Target(scope)]
  PROVE  IsTold(given)
<1>1. Target(scope) \in LevelNames(config)
  BY TargetIsLevel
<1> QED BY <1>1, PassedShape DEF IsTold

LEMMA ProgrammaticItemIsTyped ==
  ASSUME config \in Configs, NEW scope \in Scopes(config), NEW given \in Passed[config][Target(scope)],
         Valid(scope, given), NEW n \in ProgrammaticNames, process \in 0..MaxRestarts
  PROVE  ProgrammaticItem(n, Here(scope, given), process) \in AllItems
<1>1. Here(scope, given) \in AllPlaces
  BY PassedIsTold, HereIsTyped
<1> QED BY <1>1 DEF AllItems

(* What the function is told, with the parameters passed by position. *)
LEMMA ToldShape ==
  ASSUME NEW arg \in Arguments, NEW given, IsTold(given)
  PROVE  /\ IsTold(Told(given, arg))
         /\ DOMAIN Told(given, arg) = DOMAIN given \cup DOMAIN Positional[arg]
         /\ \A p \in DOMAIN given : Told(given, arg)[p] = given[p]
<1> DEFINE more == Positional[arg]
           told == Told(given, arg)
<1>1. told = [p \in DOMAIN given \cup DOMAIN more |-> IF p \in DOMAIN given THEN given[p] ELSE more[p]]
  BY DEF Told
<1>2. \A p \in DOMAIN more : p \in DOMAIN ValueTexts /\ more[p] \in ValueTexts[p]
  BY CallsAssumption
<1> HIDE DEF told, more
<1>3. /\ DOMAIN told = DOMAIN given \cup DOMAIN more
      /\ \A p \in DOMAIN given : told[p] = given[p]
      /\ \A p \in DOMAIN more : p \in DOMAIN given \/ told[p] = more[p]
  BY <1>1
<1>4. IsTold(told)
  BY <1>2, <1>3 DEF IsTold
<1> QED BY <1>3, <1>4 DEF told, more

LEMMA ResultPlaceIsTyped ==
  ASSUME config \in Configs, NEW f \in Functions, f.scope \in Scopes(config), NEW arg \in Arguments,
         NEW given \in Passed[config][Target(f.scope)]
  PROVE  ResultPlace(f, arg, given) \in PlacesOf(config) \cup {None}
<1> DEFINE told == Told(given, arg)
<1>1. IsTold(told)
  BY PassedIsTold, ToldShape
<1> HIDE DEF told
<1>2. Valid(f.scope, told) => Here(f.scope, told) \in PlacesOf(config)
  BY <1>1, HereIsTyped
<1> QED BY <1>2 DEF ResultPlace, told

(* A call that can be cached belongs where its keyword arguments say; and   *)
(* where none of these is passed by position, any other belongs nowhere.    *)
LEMMA ResultPlaceIs ==
  ASSUME config \in Configs, NEW f \in Functions, f.scope \in Scopes(config), NEW arg \in Arguments,
         NEW given \in Passed[config][Target(f.scope)]
  PROVE  /\ Valid(f.scope, given) /\ arg \notin Unpicklable =>
              ResultPlace(f, arg, given) = Here(f.scope, given)
         /\ ParamsAreNamed /\ (~Valid(f.scope, given) \/ arg \in Unpicklable) =>
              ResultPlace(f, arg, given) = None
<1> DEFINE told == Told(given, arg)
           l == Target(f.scope)
           path == PathToLevel(config, l)
<1>1. /\ DOMAIN told = DOMAIN given \cup DOMAIN Positional[arg]
      /\ \A p \in DOMAIN given : told[p] = given[p]
  BY PassedIsTold, ToldShape
<1>2. l \in LevelNames(config)
  BY TargetIsLevel
<1>3. ResultPlace(f, arg, given)
        = IF Valid(f.scope, told) /\ arg \notin Unpicklable THEN Here(f.scope, told) ELSE None
  BY DEF ResultPlace
<1>4. \A g : Valid(f.scope, g) <=> l = Global \/ (l \in Levels(config) /\ ParamsOf(config, l) \subseteq DOMAIN g)
  BY DEF Valid, IsValid
<1>5. \A g : Here(f.scope, g) = [n \in DOMAIN path |-> <<path[n], g[config.param[path[n]]]>>]
  BY DEF Here, Place
<1>6. DOMAIN path = 1..Len(path) /\ \A n \in 1..Len(path) : config.param[path[n]] \in ParamsOf(config, l)
  BY <1>2, LevelOnPath
<1>7. ASSUME Valid(f.scope, given) PROVE ParamsOf(config, l) \subseteq DOMAIN given
  BY <1>2, <1>7, ParamsArePassed DEF Valid
<1> HIDE DEF told, l, path
<1>8. ASSUME Valid(f.scope, given)
      PROVE  Valid(f.scope, told) /\ Here(f.scope, told) = Here(f.scope, given)
  <2>1. Valid(f.scope, told)
    BY <1>1, <1>4, <1>8
  <2>2. \A n \in DOMAIN path : told[config.param[path[n]]] = given[config.param[path[n]]]
    BY <1>1, <1>6, <1>7, <1>8
  <2> QED BY <1>5, <2>1, <2>2
<1>9. ASSUME ParamsAreNamed, ~Valid(f.scope, given) PROVE ~Valid(f.scope, told)
  <2>1. ParamsOf(config, l) \cap DOMAIN Positional[arg] = {}
    BY <1>9 DEF ParamsAreNamed, l
  <2> QED BY <1>1, <1>4, <1>9, <2>1
<1> QED BY <1>3, <1>8, <1>9

LEMMA FunctionItemIsTyped ==
  ASSUME config \in Configs, NEW f \in Functions, f.scope \in Scopes(config),
         NEW given \in Passed[config][Target(f.scope)], NEW arg \in Arguments, process \in 0..MaxRestarts
  PROVE  FunctionItem(f, arg, given, ResultPlace(f, arg, given), process) \in AllItems
<1>1. FunctionItems(config, f) \subseteq AllItems
  BY DEF AllItems
<1>2. ResultPlace(f, arg, given) \in PlacesOf(config) \cup {None}
  BY ResultPlaceIsTyped
<1>3. FunctionItem(f, arg, given, ResultPlace(f, arg, given), process) \in FunctionItems(config, f)
  BY <1>2 DEF FunctionItems
<1> QED BY <1>1, <1>3

(* A path and the text of a key, whatever parameters were passed. *)
LEMMA PrefixIsText ==
  ASSUME config \in Configs, NEW scope \in Scopes(config), NEW given \in Passed[config][Target(scope)]
  PROVE  BuildScopePrefix(scope, given) \in Seq(Tokens)
<1>1. IsGiven(given)
  BY TargetIsLevel, PassedShape
<1>2. <<Global>> \in Seq(Tokens)
  BY GlobalIsClean DEF IsClean
<1> QED BY <1>1, <1>2, BuiltPathIsText DEF BuildScopePrefix

LEMMA KeyIsText ==
  ASSUME NEW path \in Seq(Tokens), NEW ns \in Tokens, NEW hash
  PROVE  AsString(path, ns, hash).text = KeyText(path, ns) /\ AsString(path, ns, hash).text \in Seq(Tokens)
<1>1. AsString(path, ns, hash).text = KeyText(path, ns)
  BY DEF AsString, KeyText, Separator
<1> QED BY <1>1, KeyTextShape

(* An entry more, and some fewer. *)
LEMMA WithIsTyped ==
  ASSUME TInv, NEW key, key.text \in Seq(Tokens), NEW item \in AllItems, HasRoom(key)
  PROVE  /\ DOMAIN With(key, item) = DOMAIN store \cup {key}
         /\ \A k \in DOMAIN With(key, item) :
              With(key, item)[k] \in AllItems /\ k.text \in Seq(Tokens)
         /\ IsFiniteSet(DOMAIN With(key, item))
         /\ Cardinality(DOMAIN With(key, item)) <= MaxEntries
<1> DEFINE s == With(key, item)
           D == DOMAIN store
           E == D \cup {key}
<1>1. /\ \A k \in D : store[k] \in AllItems /\ k.text \in Seq(Tokens)
      /\ Cardinality(D) <= MaxEntries /\ IsFiniteSet(D)
  BY DEF TInv, TypeOK
<1>2. s = [k \in E |-> IF k = key THEN item ELSE store[k]]
  BY DEF With
<1> HIDE DEF s
<1>3. DOMAIN s = E /\ \A k \in E : s[k] \in AllItems /\ k.text \in Seq(Tokens)
  BY <1>1, <1>2
<1>4. IsFiniteSet(E) /\ Cardinality(E) = IF key \in D THEN Cardinality(D) ELSE Cardinality(D) + 1
  BY <1>1, FS_AddElement
<1>5. Cardinality(E) <= MaxEntries
  <2>1. Cardinality(D) \in Nat /\ MaxEntries \in Nat
    BY <1>1, FS_CardinalityType, BoundsAssumption
  <2>2. key \in D \/ Cardinality(D) < MaxEntries
    BY DEF HasRoom
  <2> QED BY <1>1, <1>4, <2>1, <2>2
<1> QED BY <1>3, <1>4, <1>5 DEF s

LEMMA RestrictedIsTyped ==
  ASSUME TInv, NEW gone
  PROVE  /\ DOMAIN Restrict(store, DOMAIN store \ gone) = DOMAIN store \ gone
         /\ \A k \in DOMAIN store \ gone :
              /\ Restrict(store, DOMAIN store \ gone)[k] = store[k]
              /\ store[k] \in AllItems /\ k.text \in Seq(Tokens)
         /\ IsFiniteSet(DOMAIN store \ gone)
         /\ Cardinality(DOMAIN store \ gone) <= MaxEntries
<1> DEFINE D == DOMAIN store
           E == D \ gone
<1>1. /\ \A k \in D : store[k] \in AllItems /\ k.text \in Seq(Tokens)
      /\ Cardinality(D) <= MaxEntries /\ IsFiniteSet(D)
  BY DEF TInv, TypeOK
<1>2. IsFiniteSet(E) /\ Cardinality(E) <= Cardinality(D)
  <2>1. E \in SUBSET D
    OBVIOUS
  <2> HIDE DEF D, E
  <2> QED BY <1>1, <2>1, FS_Subset
<1>3. Cardinality(E) <= MaxEntries
  <2>1. Cardinality(D) \in Nat /\ Cardinality(E) \in Nat /\ MaxEntries \in Nat
    BY <1>1, <1>2, FS_CardinalityType, BoundsAssumption
  <2> QED BY <1>1, <1>2, <2>1
<1>4. \A k \in E : Restrict(store, E)[k] = store[k]
  BY DEF Restrict
<1>5. DOMAIN Restrict(store, E) = E
  BY DEF Restrict
<1> QED BY <1>1, <1>2, <1>3, <1>4, <1>5

(* The last call and its answer. *)
AnswerOK(a) ==
  /\ a.item \in AllItems \cup {None} /\ a.result \in AllItems \cup {None}
  /\ a.ttl \in TTLs \cup {0}
  /\ a.place \in AllPlaces \cup {None} /\ a.count \in 0..MaxEntries

StoreOK(s) ==
  /\ \A k \in DOMAIN s : s[k] \in AllItems /\ k.text \in Seq(Tokens)
  /\ Cardinality(DOMAIN s) <= MaxEntries /\ IsFiniteSet(DOMAIN s)

LEMMA TInvParts ==
  /\ TInv <=> /\ config \in Configs /\ process \in 0..MaxRestarts
              /\ StoreOK(store) /\ AnswerOK(answer)
  /\ TInv' <=> /\ config' \in Configs /\ process' \in 0..MaxRestarts
               /\ StoreOK(store') /\ AnswerOK(answer')
BY DEF TInv, TypeOK, StoreOK, AnswerOK

LEMMA AnswersAreTyped ==
  ASSUME NEW op, NEW item \in AllItems \cup {None}, NEW result \in AllItems \cup {None},
         NEW ttl \in TTLs \cup {0}, NEW place \in AllPlaces \cup {None}, NEW count \in 0..MaxEntries
  PROVE  /\ AnswerOK([NoAnswer EXCEPT !.op = op, !.item = item, !.ttl = ttl, !.result = result])
         /\ AnswerOK([NoAnswer EXCEPT !.op = op, !.place = place, !.count = count])
         /\ AnswerOK([NoAnswer EXCEPT !.op = op])
<1>1. 0 \in 0..MaxEntries
  BY BoundsAssumption
<1> QED BY <1>1 DEF AnswerOK, NoAnswer

LEMMA TypeInit == Init => TInv
<1> SUFFICES ASSUME Init PROVE TInv
  OBVIOUS
<1> DEFINE s == [k \in {} |-> None]
<1>1. StoreOK(s)
  <2>1. DOMAIN s = {}
    OBVIOUS
  <2> HIDE DEF s
  <2>2. IsFiniteSet({}) /\ Cardinality({}) = 0
    BY FS_EmptySet
  <2> QED BY <2>1, <2>2, BoundsAssumption DEF StoreOK
<1>2. AnswerOK(NoAnswer)
  <2>1. 0 \in 0..MaxEntries
    BY BoundsAssumption
  <2> QED BY <2>1 DEF AnswerOK, NoAnswer
<1>3. 0 \in 0..MaxRestarts
  BY BoundsAssumption
<1> HIDE DEF s
<1>4. config \in Configs /\ store = s /\ process = 0 /\ answer = NoAnswer
  BY DEF Init, s
<1> QED BY <1>1, <1>2, <1>3, <1>4, TInvParts

(* What the key of a valid call is. *)
LEMMA KeysAreTexts ==
  ASSUME config \in Configs, NEW scope \in Scopes(config), NEW given \in Passed[config][Target(scope)]
  PROVE  /\ \A n : /\ ProgrammaticKey(n, scope, given).text
                        = KeyText(BuildScopePrefix(scope, given), "__programmatic__")
                   /\ ProgrammaticKey(n, scope, given).text \in Seq(Tokens)
         /\ \A f \in Functions : \A arg : f.scope = scope =>
              /\ FunctionKey(f, arg, given).text = KeyText(BuildScopePrefix(scope, given), f.name)
              /\ FunctionKey(f, arg, given).text \in Seq(Tokens)
<1> DEFINE path == BuildScopePrefix(scope, given)
<1>1. path \in Seq(Tokens)
  BY PrefixIsText
<1>2. "__programmatic__" \in Tokens /\ \A f \in Functions : f.name \in Tokens
  BY TokensAssumption, NamesAssumption
<1> HIDE DEF path
<1>3. ASSUME NEW n
      PROVE  /\ ProgrammaticKey(n, scope, given).text = KeyText(path, "__programmatic__")
             /\ ProgrammaticKey(n, scope, given).text \in Seq(Tokens)
  <2>1. ProgrammaticKey(n, scope, given) = AsString(path, "__programmatic__", Hash(n, <<>>, process))
    BY DEF ProgrammaticKey, path
  <2> QED BY <1>1, <1>2, <2>1, KeyIsText
<1>4. ASSUME NEW f \in Functions, NEW arg, f.scope = scope
      PROVE  /\ FunctionKey(f, arg, given).text = KeyText(path, f.name)
             /\ FunctionKey(f, arg, given).text \in Seq(Tokens)
  <2>1. FunctionKey(f, arg, given) = AsString(path, f.name, Hash(arg, given, process))
    BY <1>4 DEF FunctionKey, path
  <2> QED BY <1>1, <1>2, <2>1, KeyIsText
<1> QED BY <1>3, <1>4 DEF path

LEMMA TypeStep == TInv /\ [Next]_vars => TInv'
<1> SUFFICES ASSUME TInv, [Next]_vars PROVE TInv'
  OBVIOUS
<1>1. /\ config \in Configs /\ process \in 0..MaxRestarts
      /\ StoreOK(store) /\ AnswerOK(answer)
  BY TInvParts
<1>2. ASSUME NEW key, key.text \in Seq(Tokens), NEW item \in AllItems, HasRoom(key), NEW ttl
      PROVE  StoreOK(Stored(key, item, ttl))
  <2>1. StoreOK(With(key, item))
    BY <1>2, WithIsTyped DEF StoreOK
  <2> QED BY <1>1, <2>1 DEF Stored
<1>3. ASSUME NEW gone PROVE StoreOK(Restrict(store, DOMAIN store \ gone))
  <2> DEFINE E == DOMAIN store \ gone
             r == Restrict(store, E)
  <2>1. /\ DOMAIN r = E /\ \A k \in E : r[k] \in AllItems /\ k.text \in Seq(Tokens)
        /\ IsFiniteSet(E) /\ Cardinality(E) <= MaxEntries
    BY RestrictedIsTyped
  <2> HIDE DEF r, E
  <2>2. StoreOK(r)
    BY <2>1 DEF StoreOK
  <2> QED BY <2>2 DEF r, E
<1>4. ASSUME NEW k \in DOMAIN store PROVE store[k] \in AllItems
  BY <1>1 DEF StoreOK
<1>5. ASSUME NEW scope \in Scopes(config), NEW given \in Passed[config][Target(scope)],
             NEW n \in ProgrammaticNames, Get(n, scope, given)
      PROVE  TInv'
  <2> DEFINE item == ProgrammaticItem(n, Here(scope, given), process)
             result == Found(ProgrammaticKey(n, scope, given))
  <2>1. item \in AllItems
    BY <1>1, <1>5, ProgrammaticItemIsTyped DEF Get
  <2>2. result \in AllItems \cup {None}
    BY <1>4 DEF Found
  <2>3. answer' = [NoAnswer EXCEPT !.op = "look", !.item = item, !.ttl = 0, !.result = result]
    BY <1>5 DEF Get, Answer
  <2> HIDE DEF item, result
  <2>4. AnswerOK(answer')
    <3>1. 0 \in 0..MaxEntries /\ 0 \in TTLs \cup {0}
      BY BoundsAssumption
    <3> QED BY <2>1, <2>2, <2>3, <3>1, AnswersAreTyped
  <2> QED BY <1>1, <1>5, <2>4, TInvParts DEF Get
<1>6. ASSUME NEW scope \in Scopes(config), NEW given \in Passed[config][Target(scope)],
             NEW n \in ProgrammaticNames, NEW ttl \in TTLs, Set(n, scope, given, ttl)
      PROVE  TInv'
  <2> DEFINE item == ProgrammaticItem(n, Here(scope, given), process)
             key == ProgrammaticKey(n, scope, given)
  <2>1. item \in AllItems
    BY <1>1, <1>6, ProgrammaticItemIsTyped DEF Set
  <2>2. key.text \in Seq(Tokens)
    BY <1>1, KeysAreTexts
  <2>3. /\ answer' = [NoAnswer EXCEPT !.op = "put", !.item = item, !.ttl = ttl, !.result = None]
        /\ store' = Stored(key, item, ttl) /\ HasRoom(key)
        /\ config' = config /\ process' = process
    BY <1>6 DEF Set, Answer
  <2> HIDE DEF item, key
  <2>4. AnswerOK(answer')
    <3>1. 0 \in 0..MaxEntries /\ 0 \in TTLs \cup {0}
      BY BoundsAssumption
    <3> QED BY <2>1, <2>3, <3>1, AnswersAreTyped
  <2>5. StoreOK(store')
    BY <1>2, <2>1, <2>2, <2>3
  <2> QED BY <1>1, <2>3, <2>4, <2>5, TInvParts
<1>7. ASSUME NEW scope \in Scopes(config), NEW given \in Passed[config][Target(scope)],
             NEW n \in ProgrammaticNames, Evict(n, scope, given)
      PROVE  TInv'
  <2> DEFINE item == ProgrammaticItem(n, Here(scope, given), process)
             key == ProgrammaticKey(n, scope, given)
  <2>1. item \in AllItems
    BY <1>1, <1>7, ProgrammaticItemIsTyped DEF Evict
  <2>2. /\ answer' = [NoAnswer EXCEPT !.op = "drop", !.item = item, !.ttl = 0, !.result = None]
        /\ store' = Restrict(store, DOMAIN store \ {key})
        /\ config' = config /\ process' = process
    BY <1>7 DEF Evict, Answer
  <2> HIDE DEF item, key
  <2>3. AnswerOK(answer')
    <3>1. 0 \in 0..MaxEntries /\ 0 \in TTLs \cup {0}
      BY BoundsAssumption
    <3> QED BY <2>1, <2>2, <3>1, AnswersAreTyped
  <2>4. StoreOK(store')
    BY <1>3, <2>2
  <2> QED BY <1>1, <2>2, <2>3, <2>4, TInvParts
<1>8. ASSUME NEW scope \in Scopes(config), NEW given \in Passed[config][Target(scope)],
             EvictByScope(scope, given)
      PROVE  TInv'
  <2> DEFINE prefix == BuildScopePrefix(scope, given)
             hit == {k \in DOMAIN store : \/ ScopePrefix(k) = prefix
                                          \/ IsDescendantOf(ScopePrefix(k), prefix)}
             place == Here(scope, given)
             count == Cardinality(hit)
  <2>1. place \in AllPlaces
    BY <1>1, <1>8, PassedIsTold, HereIsTyped DEF EvictByScope
  <2>2. count \in 0..MaxEntries
    <3>1. hit \in SUBSET DOMAIN store /\ IsFiniteSet(DOMAIN store)
      BY <1>1 DEF StoreOK
    <3> HIDE DEF hit
    <3>2. IsFiniteSet(hit) /\ Cardinality(hit) <= Cardinality(DOMAIN store)
      BY <3>1, FS_Subset
    <3>3. Cardinality(hit) \in Nat /\ Cardinality(DOMAIN store) \in Nat /\ MaxEntries \in Nat
      BY <3>1, <3>2, FS_CardinalityType, BoundsAssumption
    <3> QED BY <1>1, <3>2, <3>3 DEF StoreOK
  <2>3. /\ answer' = [NoAnswer EXCEPT !.op = "drop_under", !.place = place, !.count = count]
        /\ store' = Restrict(store, DOMAIN store \ hit)
        /\ config' = config /\ process' = process
    BY <1>8 DEF EvictByScope
  <2> HIDE DEF hit, place, count
  <2>4. AnswerOK(answer')
    <3>1. 0 \in TTLs \cup {0}
      OBVIOUS
    <3> QED BY <2>1, <2>2, <2>3, <3>1, AnswersAreTyped
  <2>5. StoreOK(store')
    BY <1>3, <2>3
  <2> QED BY <1>1, <2>3, <2>4, <2>5, TInvParts
<1>9. ASSUME NEW scope, NEW given, Refused(scope, given)
      PROVE  TInv'
  <2>1. /\ answer' = [NoAnswer EXCEPT !.op = "refused"]
        /\ store' = store /\ config' = config /\ process' = process
    BY <1>9 DEF Refused
  <2>2. AnswerOK(answer')
    <3>1. 0 \in 0..MaxEntries /\ 0 \in TTLs \cup {0}
      BY BoundsAssumption
    <3> QED BY <2>1, <3>1, AnswersAreTyped
  <2> QED BY <1>1, <2>1, <2>2, TInvParts
<1>10. ASSUME NEW f \in Functions, f.scope \in Scopes(config), NEW arg \in Arguments,
              NEW given \in Passed[config][Target(f.scope)], Call(f, arg, given)
       PROVE  TInv'
  <2> DEFINE item == FunctionItem(f, arg, given, ResultPlace(f, arg, given), process)
             key == FunctionKey(f, arg, given)
             result == IF key \in DOMAIN store THEN store[key] ELSE item
  <2>1. item \in AllItems
    BY <1>1, <1>10, FunctionItemIsTyped
  <2>2. key.text \in Seq(Tokens)
    BY <1>1, <1>10, KeysAreTexts
  <2>3. result \in AllItems
    BY <1>4, <2>1
  <2>4. /\ answer' = [NoAnswer EXCEPT !.op = "call", !.item = item, !.ttl = f.ttl, !.result = result]
        /\ store' = (IF key \in DOMAIN store THEN store ELSE Stored(key, item, f.ttl))
        /\ HasRoom(key) /\ config' = config /\ process' = process
    BY <1>10 DEF Call, Answer
  <2> HIDE DEF item, key, result
  <2>5. AnswerOK(answer')
    <3>1. 0 \in 0..MaxEntries /\ f.ttl \in TTLs \cup {0}
      BY BoundsAssumption, CallsAssumption
    <3> QED BY <2>1, <2>3, <2>4, <3>1, AnswersAreTyped
  <2>6. StoreOK(store')
    BY <1>1, <1>2, <2>1, <2>2, <2>4
  <2> QED BY <1>1, <2>4, <2>5, <2>6, TInvParts
<1>11. ASSUME NEW f \in Functions, f.scope \in Scopes(config), NEW arg \in Arguments,
              NEW given \in Passed[config][Target(f.scope)], CallUncached(f, arg, given)
       PROVE  TInv'
  <2> DEFINE item == FunctionItem(f, arg, given, ResultPlace(f, arg, given), process)
  <2>1. item \in AllItems
    BY <1>1, <1>11, FunctionItemIsTyped
  <2>2. /\ answer' = [NoAnswer EXCEPT !.op = "uncached", !.item = item, !.ttl = f.ttl, !.result = item]
        /\ store' = store /\ config' = config /\ process' = process
    BY <1>11 DEF CallUncached, Answer
  <2> HIDE DEF item
  <2>3. AnswerOK(answer')
    <3>1. 0 \in 0..MaxEntries /\ f.ttl \in TTLs \cup {0}
      BY BoundsAssumption, CallsAssumption
    <3> QED BY <2>1, <2>2, <3>1, AnswersAreTyped
  <2> QED BY <1>1, <2>2, <2>3, TInvParts
<1>12. ASSUME Clear PROVE TInv'
  <2> DEFINE s == [k \in {} |-> None]
  <2>1. /\ answer' = [NoAnswer EXCEPT !.op = "drop_all"]
        /\ store' = s /\ config' = config /\ process' = process
    BY <1>12 DEF Clear
  <2>2. StoreOK(s)
    <3>1. DOMAIN s = {}
      OBVIOUS
    <3> HIDE DEF s
    <3>2. IsFiniteSet({}) /\ Cardinality({}) = 0
      BY FS_EmptySet
    <3> QED BY <3>1, <3>2, BoundsAssumption DEF StoreOK
  <2> HIDE DEF s
  <2>3. AnswerOK(answer')
    <3>1. 0 \in 0..MaxEntries /\ 0 \in TTLs \cup {0}
      BY BoundsAssumption
    <3> QED BY <2>1, <3>1, AnswersAreTyped
  <2> QED BY <1>1, <2>1, <2>2, <2>3, TInvParts
<1>13. ASSUME Restart PROVE TInv'
  <2>1. process' \in 0..MaxRestarts
    BY <1>1, <1>13, BoundsAssumption DEF Restart
  <2> QED BY <1>1, <1>13, <2>1, TInvParts DEF Restart
<1>14. ASSUME UNCHANGED vars PROVE TInv'
  BY <1>1, <1>14, TInvParts DEF vars
<1> QED BY <1>5, <1>6, <1>7, <1>8, <1>9, <1>10, <1>11, <1>12, <1>13, <1>14 DEF Next

(* Every variable has its type, whatever callers pass. *)
THEOREM FacadeIsTyped == Spec => []TypeOK
<1>1. TInv => TypeOK
  BY DEF TInv
<1> QED BY <1>1, TypeInit, TypeStep, PTL DEF Spec

-----------------------------------------------------------------------------
(* Keys. *)

(* key is what item is stored under. *)
Insertion(key, item) ==
  \E scope \in Scopes(config) : \E given \in Passed[config][Target(scope)] :
    /\ Valid(scope, given)
    /\ \/ \E n \in ProgrammaticNames :
            /\ key = ProgrammaticKey(n, scope, given)
            /\ item = ProgrammaticItem(n, Here(scope, given), process)
       \/ \E f \in Functions : \E arg \in Arguments :
            /\ f.scope = scope
            /\ key = FunctionKey(f, arg, given)
            /\ item = FunctionItem(f, arg, given, Here(scope, given), process)

(* What a step may do to the store. *)
LEMMA StoreSteps ==
  ASSUME config \in Configs, [Next]_vars
  PROVE  /\ config' = config
         /\ \/ store' = store
            \/ \E gone : store' = Restrict(store, DOMAIN store \ gone)
            \/ store' = [k \in {} |-> None]
            \/ \E key, item : Insertion(key, item) /\ store' = With(key, item)
<1>1. ASSUME NEW scope \in Scopes(config), NEW given \in Passed[config][Target(scope)],
             NEW n \in ProgrammaticNames, NEW ttl, Set(n, scope, given, ttl)
      PROVE  /\ config' = config
             /\ \/ store' = store
                \/ \E key, item : Insertion(key, item) /\ store' = With(key, item)
  BY <1>1 DEF Set, Insertion, Stored
<1>2. ASSUME NEW f \in Functions, f.scope \in Scopes(config), NEW arg \in Arguments,
             NEW given \in Passed[config][Target(f.scope)], Call(f, arg, given)
      PROVE  /\ config' = config
             /\ \/ store' = store
                \/ \E key, item : Insertion(key, item) /\ store' = With(key, item)
  <2> DEFINE key == FunctionKey(f, arg, given)
             item == FunctionItem(f, arg, given, Here(f.scope, given), process)
  <2>1. ResultPlace(f, arg, given) = Here(f.scope, given)
    BY <1>2, ResultPlaceIs DEF Call
  <2>2. Insertion(key, item)
    BY <1>2 DEF Call, Insertion
  <2>3. config' = config /\ (store' = store \/ store' = With(key, item))
    BY <1>2, <2>1 DEF Call, Stored
  <2> QED BY <2>2, <2>3
<1>3. ASSUME NEW scope, NEW given, NEW n, Get(n, scope, given)
      PROVE  config' = config /\ store' = store
  BY <1>3 DEF Get
<1>4. ASSUME NEW scope, NEW given, NEW n, Evict(n, scope, given)
      PROVE  config' = config /\ \E gone : store' = Restrict(store, DOMAIN store \ gone)
  BY <1>4 DEF Evict
<1>5. ASSUME NEW scope, NEW given, EvictByScope(scope, given)
      PROVE  config' = config /\ \E gone : store' = Restrict(store, DOMAIN store \ gone)
  BY <1>5 DEF EvictByScope
<1>6. ASSUME NEW scope, NEW given, Refused(scope, given)
      PROVE  config' = config /\ store' = store
  BY <1>6 DEF Refused
<1>7. ASSUME NEW f, NEW arg, NEW given, CallUncached(f, arg, given)
      PROVE  config' = config /\ store' = store
  BY <1>7 DEF CallUncached
<1>8. Clear => config' = config /\ store' = [k \in {} |-> None]
  BY DEF Clear
<1>9. Restart \/ UNCHANGED vars => config' = config /\ store' = store
  BY DEF Restart, vars
<1> QED BY <1>1, <1>2, <1>3, <1>4, <1>5, <1>6, <1>7, <1>8, <1>9 DEF Next

(* Given the parameters of the scope alone, the path that is built is that  *)
(* of the place meant, also of the scope ("global",).                       *)
LEMMA HerePath ==
  ASSUME ParamsAreOwn, config \in Configs,
         NEW scope \in Scopes(config), NEW given \in Passed[config][Target(scope)],
         Valid(scope, given)
  PROVE  /\ Here(scope, given) \in Seq(Members)
         /\ BuildScopePrefix(scope, given) = PathOf(Here(scope, given))
<1> DEFINE l == Target(scope)
<1>1. l \in LevelNames(config) /\ IsValid(config, l, given)
  BY TargetIsLevel DEF Valid
<1>2. IsTold(given) /\ ParamsOf(config, l) \subseteq DOMAIN given
  BY <1>1, PassedIsTold, ParamsArePassed
<1>3. Here(scope, given) = Place(config, l, given)
  BY DEF Here
<1>4. given \in Passed[config][l]
  OBVIOUS
<1>5. ~ExtraParams /\ ParamsAreUnique(config)
  BY DEF ParamsAreOwn
<1>6. scope = Global => l = Global
  BY DEF Target
<1>7. scope # Global /\ l = Global => BuildScopePath(config, given) = <<Global>>
  <2> SUFFICES ASSUME l = Global PROVE BuildScopePath(config, given) = <<Global>>
    OBVIOUS
  <2>1. DOMAIN given = {} /\ IsGiven(given)
    <3>1. ParamsOf(config, l) = {}
      <4>1. PathToLevel(config, l) = <<>> /\ PathToLevel(config, l) \in Seq(Levels(config))
        BY <1>1, LevelOnPath
      <4>2. ToSet(<<>>) = {}
        BY <4>1, ToSetOf
      <4> HIDE DEF l
      <4> QED BY <4>1, <4>2 DEF ParamsOf
    <3>2. IsGiven(given) /\ DOMAIN given \subseteq ParamsOf(config, l)
      BY <1>1, <1>4, <1>5, PassedShape
    <3> QED BY <3>1, <3>2
  <2> QED BY <2>1, NothingGiven
<1> HIDE DEF l
<1>8. Place(config, l, given) \in Seq(Members)
  BY <1>1, <1>2, PlaceShape DEF IsTold
<1>9. (IF l = Global THEN <<Global>> ELSE BuildScopePath(config, given)) = PathOf(Place(config, l, given))
  BY <1>1, <1>4, <1>5, BuiltPathOfPlace
<1>10. BuildScopePrefix(scope, given) = IF scope = Global THEN <<Global>> ELSE BuildScopePath(config, given)
  BY DEF BuildScopePrefix
<1> QED BY <1>3, <1>6, <1>7, <1>8, <1>9, <1>10

(* The key is of the path of the item's place. *)
KeyOfPlace(key, item) ==
  /\ item.place \in Seq(Members)
  /\ \E ns \in Tokens \ {":"} : key.text = KeyText(PathOf(item.place), ns)

KInv == config \in Configs /\ \A k \in DOMAIN store : KeyOfPlace(k, store[k])

LEMMA InsertionsAreOfPlaces ==
  ASSUME ParamsAreOwn, config \in Configs, NEW key, NEW item, Insertion(key, item)
  PROVE  KeyOfPlace(key, item)
<1>1. PICK scope \in Scopes(config) : \E given \in Passed[config][Target(scope)] :
        /\ Valid(scope, given)
        /\ \/ \E n \in ProgrammaticNames :
                /\ key = ProgrammaticKey(n, scope, given)
                /\ item = ProgrammaticItem(n, Here(scope, given), process)
           \/ \E f \in Functions : \E arg \in Arguments :
                /\ f.scope = scope
                /\ key = FunctionKey(f, arg, given)
                /\ item = FunctionItem(f, arg, given, Here(scope, given), process)
  BY DEF Insertion
<1>2. PICK given \in Passed[config][Target(scope)] :
        /\ Valid(scope, given)
        /\ \/ \E n \in ProgrammaticNames :
                /\ key = ProgrammaticKey(n, scope, given)
                /\ item = ProgrammaticItem(n, Here(scope, given), process)
           \/ \E f \in Functions : \E arg \in Arguments :
                /\ f.scope = scope
                /\ key = FunctionKey(f, arg, given)
                /\ item = FunctionItem(f, arg, given, Here(scope, given), process)
  BY <1>1
<1> DEFINE place == Here(scope, given)
<1>3. place \in Seq(Members)
  BY <1>2, HerePath
<1>4. BuildScopePrefix(scope, given) = PathOf(place)
  BY <1>2, HerePath
<1>5. item.place = place
  BY <1>2 DEF ProgrammaticItem, FunctionItem
<1>6. \E ns \in Tokens \ {":"} : key.text = KeyText(PathOf(place), ns)
  <2>1. ASSUME NEW n, key = ProgrammaticKey(n, scope, given)
        PROVE  key.text = KeyText(PathOf(place), "__programmatic__")
    BY <1>4, <2>1, KeysAreTexts
  <2>2. ASSUME NEW f \in Functions, NEW arg, f.scope = scope, key = FunctionKey(f, arg, given)
        PROVE  key.text = KeyText(PathOf(place), f.name)
    BY <1>4, <2>2, KeysAreTexts
  <2>3. "__programmatic__" \in Tokens \ {":"}
    BY TokensAssumption
  <2>4. \A f \in Functions : f.name \in Tokens \ {":"}
    BY NamesAssumption
  <2> HIDE DEF place
  <2> QED BY <1>2, <2>1, <2>2, <2>3, <2>4
<1> QED BY <1>3, <1>5, <1>6 DEF KeyOfPlace

LEMMA KeysStep ==
  ASSUME ParamsAreOwn, KInv, [Next]_vars
  PROVE  KInv'
<1>1. config' = config /\ config' \in Configs
  BY StoreSteps DEF KInv
<1>2. ASSUME NEW s, \A k \in DOMAIN s : KeyOfPlace(k, s[k]), store' = s
      PROVE  KInv'
  BY <1>1, <1>2 DEF KInv, KeyOfPlace
<1>3. CASE store' = store
  BY <1>2, <1>3 DEF KInv
<1>4. ASSUME NEW gone, store' = Restrict(store, DOMAIN store \ gone) PROVE KInv'
  <2> DEFINE s == Restrict(store, DOMAIN store \ gone)
  <2>1. DOMAIN s = DOMAIN store \ gone /\ \A k \in DOMAIN store \ gone : s[k] = store[k]
    BY DEF Restrict
  <2>2. store' = s
    BY <1>4
  <2> HIDE DEF s
  <2> QED BY <1>2, <2>1, <2>2 DEF KInv
<1>5. ASSUME store' = [k \in {} |-> None] PROVE KInv'
  <2>1. DOMAIN [k \in {} |-> None] = {}
    OBVIOUS
  <2> QED BY <1>2, <1>5, <2>1
<1>6. ASSUME NEW key, NEW item, Insertion(key, item), store' = With(key, item) PROVE KInv'
  <2>1. KeyOfPlace(key, item)
    BY <1>6, InsertionsAreOfPlaces DEF KInv
  <2> DEFINE s == With(key, item)
  <2>2. DOMAIN s = DOMAIN store \cup {key}
        /\ \A k \in DOMAIN store \cup {key} : s[k] = IF k = key THEN item ELSE store[k]
    BY DEF With
  <2>3. store' = s
    BY <1>6
  <2> HIDE DEF s
  <2> QED BY <1>2, <2>1, <2>2, <2>3 DEF KInv
<1>7. config \in Configs
  BY DEF KInv
<1> QED BY <1>3, <1>4, <1>5, <1>6, <1>7, StoreSteps

LEMMA KeysInit == Init => KInv
<1> SUFFICES ASSUME Init PROVE KInv
  OBVIOUS
<1>1. DOMAIN store = {}
  BY DEF Init
<1> QED BY <1>1 DEF Init, KInv

(* Every key in the store can be parsed, and gives back the path of the     *)
(* place of its entry, when callers pass the parameters of their scope and  *)
(* no others, and no two levels share a parameter.                          *)
THEOREM StoredKeysParse ==
  ASSUME ParamsAreOwn
  PROVE  Spec => []KeysParse
<1>1. KInv => KeysParse
  <2> SUFFICES ASSUME KInv, NEW k \in DOMAIN store
               PROVE  IsCacheKey(k) /\ ScopePrefix(k) = PathOf(store[k].place)
    BY DEF KeysParse
  <2>1. KeyOfPlace(k, store[k])
    BY DEF KInv
  <2>2. IsClean(PathOf(store[k].place))
    BY <2>1, PathOfIsClean DEF KeyOfPlace
  <2> QED BY <2>1, <2>2, KeyIsRead DEF KeyOfPlace
<1>2. KInv /\ [Next]_vars => KInv'
  BY KeysStep
<1> QED BY <1>1, <1>2, KeysInit, PTL DEF Spec

-----------------------------------------------------------------------------
(* What is below what. *)

LEMMA PlacesAreOfMembers ==
  ASSUME NEW c \in Configs, NEW p \in PlacesOf(c)
  PROVE  p \in Seq(Members)
<1>1. PICK scope \in LevelNames(c) : \E given \in Texts(ParamsOf(c, scope)) : p = Place(c, scope, given)
  BY DEF PlacesOf
<1>2. PICK given \in Texts(ParamsOf(c, scope)) : p = Place(c, scope, given)
  BY <1>1
<1>3. DOMAIN given = ParamsOf(c, scope) /\ \A q \in DOMAIN given : given[q] \in ValueTexts[q]
  BY DEF Texts
<1>4. ParamsOf(c, scope) \subseteq DOMAIN ValueTexts
  <2>1. ToSet(PathToLevel(c, scope)) \subseteq Levels(c)
    BY PathDown, ToSetOf
  <2> QED BY <2>1, ConfigsAssumption DEF ParamsOf
<1>5. /\ \A q \in DOMAIN given : q \in DOMAIN ValueTexts /\ given[q] \in ValueTexts[q]
      /\ ParamsOf(c, scope) \subseteq DOMAIN given
  BY <1>3, <1>4
<1> QED BY <1>2, <1>5, PlaceShape

(* The three notions of "below" agree, when besides no identifier has a "/" *)
(* in it.                                                                   *)
THEOREM NotionsOfBelowAgree ==
  ASSUME ParamsAreOwn, NoSlashes
  PROVE  Spec => []HierarchyAgrees
<1>1. KInv => HierarchyAgrees
  <2> SUFFICES ASSUME KInv, NEW k \in DOMAIN store, NEW p \in PlacesOf(config)
               PROVE  LET below == IsPrefix(p, store[k].place)
                      IN  /\ IsDescendantOf(ScopePrefix(k), PathOf(p)) <=> below
                          /\ PathOf(p) \in WaysUp(ScopePrefix(k)) <=> below
    BY DEF HierarchyAgrees
  <2>1. KeyOfPlace(k, store[k])
    BY DEF KInv
  <2>2. IsClean(PathOf(store[k].place))
    BY <2>1, PathOfIsClean DEF KeyOfPlace
  <2>3. ScopePrefix(k) = PathOf(store[k].place)
    BY <2>1, <2>2, KeyIsRead DEF KeyOfPlace
  <2>4. p \in Seq(Members) /\ store[k].place \in Seq(Members)
    BY <2>1, PlacesAreOfMembers DEF KInv, KeyOfPlace
  <2> QED BY <2>3, <2>4, DescendantsAreBelow, WaysUpArePrefixes
<1>2. KInv /\ [Next]_vars => KInv'
  BY KeysStep
<1> QED BY <1>1, <1>2, KeysInit, PTL DEF Spec

-----------------------------------------------------------------------------
(* Keys and items: an entry's key tells its item, and the other way round.  *)

HashOf(item) ==
  [arg |-> IF item.arg = "-1" /\ item.arg \in IntegerKeys THEN "-2" ELSE item.arg,
   kwargs |-> item.kwargs, process |-> item.process]

(* ns is the namespace of what the item is: a programmatic entry, or a result. *)
NamespaceOf(item, ns) ==
  \/ ns = "__programmatic__" /\ item.space = ns /\ item.arg \in ProgrammaticNames
  \/ \E f \in Functions : ns = f.name /\ item.space = f.id /\ item.arg \in Arguments

IsItem(item) ==
  /\ item = [place |-> item.place, space |-> item.space, arg |-> item.arg,
             kwargs |-> item.kwargs, process |-> item.process]
  /\ item.place \in Seq(Members)

Describes(item, key) ==
  /\ IsItem(item)
  /\ \E ns : NamespaceOf(item, ns) /\ key = AsString(PathOf(item.place), ns, HashOf(item))

LEMMA NamespaceIsToken ==
  ASSUME NEW item, NEW ns, NamespaceOf(item, ns)
  PROVE  ns \in Tokens \ {":"}
<1>1. "__programmatic__" \in Tokens \ {":"}
  BY TokensAssumption
<1>2. \A f \in Functions : f.name \in Tokens \ {":"}
  BY NamesAssumption
<1> QED BY <1>1, <1>2 DEF NamespaceOf

LEMMA NamespacesTell ==
  ASSUME NamesAreDistinct, NEW i, NEW j, NEW ns, NEW ms,
         NamespaceOf(i, ns), NamespaceOf(j, ms)
  PROVE  /\ ns = ms <=> i.space = j.space
         /\ ns = ms /\ HashOf(i) = HashOf(j) => i.arg = j.arg
<1>1. /\ \A f, g \in Functions : f.id = g.id <=> f.name = g.name
      /\ \A f \in Functions : f.id # "__programmatic__" /\ f.name # "__programmatic__"
      /\ "-1" \in IntegerKeys => "-2" \notin ProgrammaticNames
  BY DEF NamesAreDistinct
<1>2. ns = ms <=> i.space = j.space
  BY <1>1 DEF NamespaceOf
<1>3. ASSUME ns = ms, HashOf(i) = HashOf(j) PROVE i.arg = j.arg
  <2>1. (IF i.arg = "-1" /\ i.arg \in IntegerKeys THEN "-2" ELSE i.arg)
          = (IF j.arg = "-1" /\ j.arg \in IntegerKeys THEN "-2" ELSE j.arg)
    <3>1. HashOf(i).arg = HashOf(j).arg
      BY <1>3
    <3> QED BY <3>1 DEF HashOf
  <2>2. CASE ns = "__programmatic__"
    <3>1. i.arg \in ProgrammaticNames /\ j.arg \in ProgrammaticNames
      BY <1>1, <1>3, <2>2 DEF NamespaceOf
    <3> QED BY <1>1, <2>1, <3>1
  <2>3. CASE ns # "__programmatic__"
    <3>1. i.arg \in Arguments /\ j.arg \in Arguments
      BY <1>3, <2>3 DEF NamespaceOf
    <3>2. i.arg \notin IntegerKeys /\ j.arg \notin IntegerKeys
      BY <3>1, NamesAssumption
    <3> QED BY <2>1, <3>2
  <2> QED BY <2>2, <2>3
<1> QED BY <1>2, <1>3

LEMMA KeysTellItems ==
  ASSUME NamesAreDistinct, NoSlashes, NEW i, NEW k, Describes(i, k), NEW j, NEW l, Describes(j, l)
  PROVE  k = l <=> i = j
<1>1. PICK ns : NamespaceOf(i, ns) /\ k = AsString(PathOf(i.place), ns, HashOf(i))
  BY DEF Describes
<1>2. PICK ms : NamespaceOf(j, ms) /\ l = AsString(PathOf(j.place), ms, HashOf(j))
  BY DEF Describes
<1>3. IsItem(i) /\ IsItem(j)
  BY DEF Describes
<1>4. /\ ns = ms <=> i.space = j.space
      /\ ns = ms /\ HashOf(i) = HashOf(j) => i.arg = j.arg
  BY <1>1, <1>2, NamespacesTell
<1>5. ASSUME i = j PROVE k = l
  BY <1>1, <1>2, <1>4, <1>5
<1>6. ASSUME k = l PROVE i = j
  <2>1. /\ k.text = KeyText(PathOf(i.place), ns) /\ k.hash = HashOf(i)
        /\ l.text = KeyText(PathOf(j.place), ms) /\ l.hash = HashOf(j)
    BY <1>1, <1>2 DEF AsString, KeyText, Separator
  <2>2. ns \in Tokens \ {":"} /\ ms \in Tokens \ {":"}
    BY <1>1, <1>2, NamespaceIsToken
  <2>3. /\ i.place \in Seq(Members) /\ j.place \in Seq(Members)
        /\ IsClean(PathOf(i.place)) /\ IsClean(PathOf(j.place))
    BY <1>3, PathOfIsClean DEF IsItem
  <2>4. ScopePrefix(k) = PathOf(i.place) /\ Namespace(k) = <<ns>>
    BY <2>1, <2>2, <2>3, KeyIsRead
  <2>5. ScopePrefix(l) = PathOf(j.place) /\ Namespace(l) = <<ms>>
    BY <2>1, <2>2, <2>3, KeyIsRead
  <2>6. PathOf(i.place) = PathOf(j.place) /\ ns = ms /\ HashOf(i) = HashOf(j)
    <3>1. PathOf(i.place) = PathOf(j.place) /\ <<ns>> = <<ms>>
      BY <1>6, <2>4, <2>5
    <3>2. ns = ms
      BY <3>1
    <3> QED BY <1>6, <2>1, <3>1, <3>2
  <2>7. i.place = j.place
    BY <2>3, <2>6, PathInjective
  <2>8. i.space = j.space /\ i.arg = j.arg
    BY <1>4, <2>6
  <2>9. i.kwargs = j.kwargs /\ i.process = j.process
    <3>1. HashOf(i).kwargs = HashOf(j).kwargs /\ HashOf(i).process = HashOf(j).process
      BY <2>6
    <3> QED BY <3>1 DEF HashOf
  <2> QED BY <1>3, <2>7, <2>8, <2>9 DEF IsItem
<1> QED BY <1>5, <1>6

(* The key of a valid call describes the item the caller means. *)
LEMMA CallsAreDescribed ==
  ASSUME ParamsAreOwn, config \in Configs,
         NEW scope \in Scopes(config), NEW given \in Passed[config][Target(scope)],
         Valid(scope, given)
  PROVE  /\ Here(scope, given) \in Seq(Members)
         /\ BuildScopePrefix(scope, given) = PathOf(Here(scope, given))
         /\ \A n \in ProgrammaticNames :
              Describes(ProgrammaticItem(n, Here(scope, given), process), ProgrammaticKey(n, scope, given))
         /\ \A f \in Functions : \A arg \in Arguments : f.scope = scope =>
              Describes(FunctionItem(f, arg, given, Here(scope, given), process),
                        FunctionKey(f, arg, given))
<1> DEFINE place == Here(scope, given)
<1>1. place \in Seq(Members)
  BY HerePath
<1>2. BuildScopePrefix(scope, given) = PathOf(place)
  BY HerePath
<1> HIDE DEF place
<1>3. ASSUME NEW n \in ProgrammaticNames
      PROVE  Describes(ProgrammaticItem(n, place, process), ProgrammaticKey(n, scope, given))
  <2> DEFINE item == ProgrammaticItem(n, place, process)
             key == ProgrammaticKey(n, scope, given)
  <2>1. IsItem(item)
    BY <1>1 DEF IsItem, ProgrammaticItem
  <2>2. NamespaceOf(item, "__programmatic__")
    BY DEF NamespaceOf, ProgrammaticItem
  <2>3. HashOf(item) = Hash(n, <<>>, process)
    BY DEF HashOf, Hash, ProgrammaticItem
  <2>4. item.place = place
    BY DEF ProgrammaticItem
  <2>5. key = AsString(PathOf(place), "__programmatic__", Hash(n, <<>>, process))
    BY <1>2 DEF ProgrammaticKey
  <2> HIDE DEF item, key
  <2>6. Describes(item, key)
    BY <2>1, <2>2, <2>3, <2>4, <2>5 DEF Describes
  <2> QED BY <2>6 DEF item, key
<1>4. ASSUME NEW f \in Functions, NEW arg \in Arguments, f.scope = scope
      PROVE  Describes(FunctionItem(f, arg, given, place, process), FunctionKey(f, arg, given))
  <2> DEFINE item == FunctionItem(f, arg, given, place, process)
             key == FunctionKey(f, arg, given)
  <2>1. IsItem(item)
    BY <1>1 DEF IsItem, FunctionItem
  <2>2. NamespaceOf(item, f.name)
    BY DEF NamespaceOf, FunctionItem
  <2>3. HashOf(item) = Hash(arg, given, process)
    <3>1. arg \notin IntegerKeys
      BY NamesAssumption
    <3> QED BY <3>1 DEF HashOf, Hash, FunctionItem
  <2>4. item.place = place
    BY DEF FunctionItem
  <2>5. key = AsString(PathOf(place), f.name, Hash(arg, given, process))
    BY <1>2, <1>4 DEF FunctionKey
  <2> HIDE DEF item, key
  <2>6. Describes(item, key)
    BY <2>1, <2>2, <2>3, <2>4, <2>5 DEF Describes
  <2> QED BY <2>6 DEF item, key
<1> QED BY <1>1, <1>2, <1>3, <1>4 DEF place

(* The invariant of the refinement. *)
SInv == TInv /\ \A k \in DOMAIN store : Describes(store[k], k)

LEMMA DescribedStep ==
  ASSUME ParamsAreOwn, SInv, [Next]_vars
  PROVE  SInv'
<1>1. TInv /\ TInv' /\ config \in Configs
  BY TypeStep DEF SInv, TInv, TypeOK
<1>2. ASSUME NEW s, \A k \in DOMAIN s : Describes(s[k], k), store' = s
      PROVE  SInv'
  BY <1>1, <1>2 DEF SInv, Describes, IsItem, NamespaceOf, HashOf
<1>3. CASE store' = store
  BY <1>2, <1>3 DEF SInv
<1>4. ASSUME NEW gone, store' = Restrict(store, DOMAIN store \ gone) PROVE SInv'
  <2> DEFINE s == Restrict(store, DOMAIN store \ gone)
  <2>1. DOMAIN s = DOMAIN store \ gone /\ \A k \in DOMAIN store \ gone : s[k] = store[k]
    BY DEF Restrict
  <2>2. store' = s
    BY <1>4
  <2> HIDE DEF s
  <2> QED BY <1>2, <2>1, <2>2 DEF SInv
<1>5. ASSUME store' = [k \in {} |-> None] PROVE SInv'
  <2>1. DOMAIN [k \in {} |-> None] = {}
    OBVIOUS
  <2> QED BY <1>2, <1>5, <2>1
<1>6. ASSUME NEW key, NEW item, Insertion(key, item), store' = With(key, item) PROVE SInv'
  <2>1. Describes(item, key)
    BY <1>1, <1>6, CallsAreDescribed DEF Insertion
  <2> DEFINE s == With(key, item)
  <2>2. DOMAIN s = DOMAIN store \cup {key}
        /\ \A k \in DOMAIN store \cup {key} : s[k] = IF k = key THEN item ELSE store[k]
    BY DEF With
  <2>3. store' = s
    BY <1>6
  <2> HIDE DEF s
  <2> QED BY <1>2, <2>1, <2>2, <2>3 DEF SInv
<1> QED BY <1>1, <1>3, <1>4, <1>5, <1>6, StoreSteps

LEMMA DescribedInit == Init => SInv
<1> SUFFICES ASSUME Init PROVE SInv
  OBVIOUS
<1>1. DOMAIN store = {}
  BY DEF Init
<1> QED BY <1>1, TypeInit DEF SInv

-----------------------------------------------------------------------------
(* The cache implements the store its caller expects. *)

Held == {store[k] : k \in DOMAIN store}

(* What is held, by its key. *)
LEMMA HeldByKey ==
  ASSUME NamesAreDistinct, NoSlashes, SInv, NEW key, NEW item, Describes(item, key)
  PROVE  /\ key \in DOMAIN store <=> item \in Held
         /\ key \in DOMAIN store => store[key] = item
<1>1. \A k \in DOMAIN store : k = key <=> store[k] = item
  <2>1. ASSUME NEW k \in DOMAIN store PROVE k = key <=> store[k] = item
    <3>1. Describes(store[k], k)
      BY DEF SInv
    <3> QED BY <3>1, KeysTellItems
  <2> QED BY <2>1
<1> QED BY <1>1 DEF Held

LEMMA HeldAfter ==
  ASSUME NamesAreDistinct, NoSlashes, SInv
  PROVE  /\ \A key, item : Describes(item, key) =>
              {With(key, item)[k] : k \in DOMAIN With(key, item)} = Held \cup {item}
         /\ \A gone \in SUBSET DOMAIN store :
              {Restrict(store, DOMAIN store \ gone)[k] : k \in DOMAIN Restrict(store, DOMAIN store \ gone)}
                = Held \ {store[k] : k \in gone}
<1>1. ASSUME NEW key, NEW item, Describes(item, key)
      PROVE  {With(key, item)[k] : k \in DOMAIN With(key, item)} = Held \cup {item}
  <2> DEFINE s == With(key, item)
  <2>1. DOMAIN s = DOMAIN store \cup {key}
        /\ \A k \in DOMAIN store \cup {key} : s[k] = IF k = key THEN item ELSE store[k]
    BY DEF With
  <2>2. key \in DOMAIN store => store[key] = item
    BY <1>1, HeldByKey
  <2> HIDE DEF s
  <2>3. {s[k] : k \in DOMAIN s} = Held \cup {item}
    BY <2>1, <2>2 DEF Held
  <2> QED BY <2>3 DEF s
<1>2. ASSUME NEW gone \in SUBSET DOMAIN store
      PROVE  {Restrict(store, DOMAIN store \ gone)[k] : k \in DOMAIN Restrict(store, DOMAIN store \ gone)}
                = Held \ {store[k] : k \in gone}
  <2> DEFINE s == Restrict(store, DOMAIN store \ gone)
  <2>1. DOMAIN s = DOMAIN store \ gone /\ \A k \in DOMAIN store \ gone : s[k] = store[k]
    BY DEF Restrict
  <2>2. \A k, l \in DOMAIN store : store[k] = store[l] => k = l
    <3>1. ASSUME NEW k \in DOMAIN store, NEW l \in DOMAIN store, store[k] = store[l] PROVE k = l
      <4>1. Describes(store[k], k) /\ Describes(store[l], l)
        BY DEF SInv
      <4> QED BY <3>1, <4>1, KeysTellItems
    <3> QED BY <3>1
  <2> HIDE DEF s
  <2>3. {s[k] : k \in DOMAIN s} = Held \ {store[k] : k \in gone}
    BY <2>1, <2>2 DEF Held
  <2> QED BY <2>3 DEF s
<1> QED BY <1>1, <1>2

(* What evict_by_scope finds is what is below the place. *)
LEMMA HitIsBelow ==
  ASSUME NamesAreDistinct, NoSlashes, SInv, NEW place \in Seq(Members)
  PROVE  LET hit == {k \in DOMAIN store : \/ ScopePrefix(k) = PathOf(place)
                                          \/ IsDescendantOf(ScopePrefix(k), PathOf(place))}
             below == {i \in Held : IsPrefix(place, i.place)}
         IN  {store[k] : k \in hit} = below /\ Cardinality(hit) = Cardinality(below)
<1> DEFINE hit == {k \in DOMAIN store : \/ ScopePrefix(k) = PathOf(place)
                                        \/ IsDescendantOf(ScopePrefix(k), PathOf(place))}
           below == {i \in Held : IsPrefix(place, i.place)}
           image == [k \in hit |-> store[k]]
<1>1. ASSUME NEW k \in DOMAIN store
      PROVE  k \in hit <=> IsPrefix(place, store[k].place)
  <2> DEFINE q == store[k].place
  <2>1. PICK ns : NamespaceOf(store[k], ns) /\ k = AsString(PathOf(q), ns, HashOf(store[k]))
    BY DEF SInv, Describes
  <2>2. q \in Seq(Members)
    BY DEF SInv, Describes, IsItem
  <2>3. k.text = KeyText(PathOf(q), ns)
    BY <2>1 DEF AsString, KeyText, Separator
  <2>4. ScopePrefix(k) = PathOf(q)
    <3>1. IsClean(PathOf(q)) /\ ns \in Tokens \ {":"}
      BY <2>1, <2>2, PathOfIsClean, NamespaceIsToken
    <3> QED BY <2>3, <3>1, KeyIsRead
  <2> HIDE DEF q
  <2>5. IsDescendantOf(PathOf(q), PathOf(place)) <=> IsPrefix(place, q)
    BY <2>2, DescendantsAreBelow
  <2>6. PathOf(q) = PathOf(place) => IsPrefix(place, q)
    <3> SUFFICES ASSUME PathOf(q) = PathOf(place) PROVE IsPrefix(place, q)
      OBVIOUS
    <3>1. q = place
      BY <2>2, PathInjective
    <3> QED BY <2>2, <3>1, PrefixBasics
  <2> QED BY <2>4, <2>5, <2>6 DEF q
<1>2. {store[k] : k \in hit} = below
  BY <1>1 DEF Held
<1>3. \A k, l \in DOMAIN store : store[k] = store[l] => k = l
  <2>1. ASSUME NEW k \in DOMAIN store, NEW l \in DOMAIN store, store[k] = store[l] PROVE k = l
    <3>1. Describes(store[k], k) /\ Describes(store[l], l)
      BY DEF SInv
    <3> QED BY <2>1, <3>1, KeysTellItems
  <2> QED BY <2>1
<1>4. hit \in SUBSET DOMAIN store
  OBVIOUS
<1> HIDE DEF hit, below
<1>5. image \in Bijection(hit, below)
  <2>1. image \in [hit -> below] /\ \A k \in hit : image[k] = store[k]
    BY <1>2
  <2> HIDE DEF image
  <2>2. \A k, l \in hit : image[k] = image[l] => k = l
    BY <1>3, <1>4, <2>1
  <2>3. \A i \in below : \E k \in hit : image[k] = i
    BY <1>2, <2>1
  <2>4. image \in Injection(hit, below)
    BY <2>1, <2>2, Zenon DEF Injection, IsInjective
  <2>5. image \in Surjection(hit, below)
    BY <2>1, <2>3 DEF Surjection
  <2> QED BY <2>4, <2>5 DEF Bijection
<1>6. IsFiniteSet(hit)
  <2>1. IsFiniteSet(DOMAIN store)
    BY DEF SInv, TInv
  <2> QED BY <1>4, <2>1, FS_Subset
<1>7. Cardinality(hit) = Cardinality(below)
  BY <1>5, <1>6, FS_Bijection DEF ExistsBijection
<1> QED BY <1>2, <1>7 DEF hit, below

LEMMA ScopedInit == Init => Scoped!Init
<1> SUFFICES ASSUME Init PROVE Scoped!Init
  OBVIOUS
<1>1. DOMAIN store = {} /\ answer = NoAnswer
  BY DEF Init
<1> QED BY <1>1 DEF Scoped!Init, Scoped!NoAnswer, NoAnswer

LEMMA ScopedStep ==
  ASSUME ParamsAreOwn, ParamsAreNamed, NamesAreDistinct, NoSlashes, SInv, TInv', [Next]_vars
  PROVE  [Scoped!Next]_<<Held, answer>>
<1>1. TInv /\ config \in Configs /\ process \in 0..MaxRestarts
  BY DEF SInv, TInv, TypeOK
<1> DEFINE N == NoAnswer
<1>2. Scoped!NoAnswer = N
  BY DEF Scoped!NoAnswer, NoAnswer
<1>3. DOMAIN N = {"op", "item", "ttl", "place", "result", "count"}
  BY DEF NoAnswer
<1>4. ASSUME NEW op, NEW item, NEW ttl, NEW result,
             answer' = [N EXCEPT !.op = op, !.item = item, !.ttl = ttl, !.result = result],
             item \in AllItems
      PROVE  item \in AllItems \cap {answer'.item} /\ answer'.ttl = ttl
  BY <1>3, <1>4
<1>14. ASSUME NEW item \in AllItems \cap {answer'.item},
              \/ Scoped!Look(item) \/ Scoped!Drop(item)
              \/ \E ttl \in TTLs \cap {answer'.ttl} :
                   Scoped!Put(item, ttl) \/ Scoped!Memoize(item, ttl) \/ Scoped!Compute(item, ttl)
       PROVE  Scoped!Next
  BY <1>14 DEF Scoped!Next
<1>15. ASSUME NEW place \in AllPlaces \cap {answer'.place}, Scoped!DropUnder(place)
       PROVE  Scoped!Next
  BY <1>15 DEF Scoped!Next
<1>16. ASSUME NEW op, NEW item, NEW ttl, NEW result
       PROVE  /\ [N EXCEPT !.op = op, !.item = item, !.ttl = 0, !.result = result]
                   = [N EXCEPT !.op = op, !.item = item, !.result = result]
              /\ [N EXCEPT !.op = op, !.item = item, !.ttl = ttl, !.result = None]
                   = [N EXCEPT !.op = op, !.item = item, !.ttl = ttl]
              /\ [N EXCEPT !.op = op, !.item = item, !.ttl = 0, !.result = None]
                   = [N EXCEPT !.op = op, !.item = item]
  <2> DEFINE R(t, r) == [x \in DOMAIN N |->
               IF x = "result" THEN r ELSE IF x = "ttl" THEN t
               ELSE IF x = "item" THEN item ELSE IF x = "op" THEN op ELSE N[x]]
  <2>1. N.result = None /\ N.ttl = 0 /\ N = [x \in DOMAIN N |-> N[x]]
    BY DEF NoAnswer
  <2> HIDE DEF N
  <2>3. [N EXCEPT !.op = op, !.item = item, !.ttl = 0, !.result = result] = R(0, result)
    BY <1>3, <2>1
  <2>4. [N EXCEPT !.op = op, !.item = item, !.result = result] = R(0, result)
    BY <1>3, <2>1
  <2>5. [N EXCEPT !.op = op, !.item = item, !.ttl = ttl, !.result = None] = R(ttl, None)
    BY <1>3, <2>1
  <2>6. [N EXCEPT !.op = op, !.item = item, !.ttl = ttl] = R(ttl, None)
    BY <1>3, <2>1
  <2>7. [N EXCEPT !.op = op, !.item = item, !.ttl = 0, !.result = None] = R(0, None)
    BY <1>3, <2>1
  <2>8. [N EXCEPT !.op = op, !.item = item] = R(0, None)
    BY <1>3, <2>1
  <2> HIDE DEF R
  <2> QED BY <2>3, <2>4, <2>5, <2>6, <2>7, <2>8
<1>17. ASSUME NEW key, NEW item, Describes(item, key), NEW ttl \in TTLs,
              NEW s, s = Stored(key, item, ttl)
       PROVE  {s[k] : k \in DOMAIN s} = IF ttl > 0 THEN Held \cup {item} ELSE Held
  <2>1. CASE ttl <= 0
    <3>1. s = store /\ ~(ttl > 0)
      BY <1>17, <2>1, CallsAssumption DEF Stored
    <3> QED BY <3>1 DEF Held
  <2>2. CASE ~(ttl <= 0)
    <3>1. s = With(key, item) /\ ttl > 0
      BY <1>17, <2>2, CallsAssumption DEF Stored
    <3> QED BY <1>17, <3>1, HeldAfter
  <2> QED BY <2>1, <2>2
<1>5. ASSUME NEW scope \in Scopes(config), NEW given \in Passed[config][Target(scope)],
             NEW n \in ProgrammaticNames, Get(n, scope, given)
      PROVE  Scoped!Next
  <2> DEFINE item == ProgrammaticItem(n, Here(scope, given), process)
             key == ProgrammaticKey(n, scope, given)
  <2>1. item \in AllItems
    BY <1>1, <1>5, ProgrammaticItemIsTyped DEF Get
  <2>2. Describes(item, key)
    BY <1>1, <1>5, CallsAreDescribed DEF Get
  <2>3. /\ answer' = [N EXCEPT !.op = "look", !.item = item, !.ttl = 0, !.result = Found(key)]
        /\ store' = store
    BY <1>5 DEF Get, Answer
  <2> HIDE DEF item, key, N
  <2>4. Found(key) = IF item \in Held THEN item ELSE None
    BY <2>2, HeldByKey DEF Found
  <2>5. item \in AllItems \cap {answer'.item}
    BY <1>4, <2>1, <2>3
  <2>20. PICK it : it = item
    OBVIOUS
  <2>6. Scoped!Look(it)
    <3>1. [N EXCEPT !.op = "look", !.item = item, !.ttl = 0, !.result = Found(key)]
            = [N EXCEPT !.op = "look", !.item = item, !.result = Found(key)]
      BY <1>16
    <3>2. answer' = [N EXCEPT !.op = "look", !.item = item, !.result = Found(key)]
      BY <2>3, <3>1
    <3> QED BY <2>20, <1>2, <2>3, <2>4, <3>2 DEF Scoped!Look, Held
  <2> QED BY <1>14, <2>5, <2>6, <2>20
<1>6. ASSUME NEW scope \in Scopes(config), NEW given \in Passed[config][Target(scope)],
             NEW n \in ProgrammaticNames, NEW ttl \in TTLs, Set(n, scope, given, ttl)
      PROVE  Scoped!Next
  <2> DEFINE item == ProgrammaticItem(n, Here(scope, given), process)
             key == ProgrammaticKey(n, scope, given)
  <2>1. item \in AllItems
    BY <1>1, <1>6, ProgrammaticItemIsTyped DEF Set
  <2>2. Describes(item, key)
    BY <1>1, <1>6, CallsAreDescribed DEF Set
  <2>3. /\ answer' = [N EXCEPT !.op = "put", !.item = item, !.ttl = ttl, !.result = None]
        /\ store' = Stored(key, item, ttl)
    BY <1>6 DEF Set, Answer
  <2>4. answer' = [N EXCEPT !.op = "put", !.item = item, !.ttl = ttl]
    BY <1>16, <2>3
  <2> HIDE DEF item, key, N
  <2>5. Held' = IF ttl > 0 THEN Held \cup {item} ELSE Held
    BY <1>17, <2>2, <2>3 DEF Held
  <2>6. item \in AllItems \cap {answer'.item} /\ ttl \in TTLs \cap {answer'.ttl}
    BY <1>4, <2>1, <2>3
  <2>20. PICK it, t : it = item /\ t = ttl
    OBVIOUS
  <2>7. Scoped!Put(it, t)
    BY <2>20, <1>2, <2>4, <2>5 DEF Scoped!Put, Scoped!Kept, Held
  <2> QED BY <1>14, <2>6, <2>7, <2>20
<1>7. ASSUME NEW scope \in Scopes(config), NEW given \in Passed[config][Target(scope)],
             NEW n \in ProgrammaticNames, Evict(n, scope, given)
      PROVE  Scoped!Next
  <2> DEFINE item == ProgrammaticItem(n, Here(scope, given), process)
             key == ProgrammaticKey(n, scope, given)
             gone == DOMAIN store \cap {key}
  <2>1. item \in AllItems
    BY <1>1, <1>7, ProgrammaticItemIsTyped DEF Evict
  <2>2. Describes(item, key)
    BY <1>1, <1>7, CallsAreDescribed DEF Evict
  <2>3. /\ answer' = [N EXCEPT !.op = "drop", !.item = item, !.ttl = 0, !.result = None]
        /\ store' = Restrict(store, DOMAIN store \ {key})
    BY <1>7 DEF Evict, Answer
  <2>4. answer' = [N EXCEPT !.op = "drop", !.item = item]
    <3>1. [N EXCEPT !.op = "drop", !.item = item, !.ttl = 0, !.result = None]
            = [N EXCEPT !.op = "drop", !.item = item]
      BY <1>16
    <3> QED BY <2>3, <3>1
  <2>5. DOMAIN store \ {key} = DOMAIN store \ gone
    OBVIOUS
  <2> HIDE DEF item, key, N
  <2>6. Held' = Held \ {item}
    <3>1. Held' = {Restrict(store, DOMAIN store \ gone)[k] : k \in DOMAIN Restrict(store, DOMAIN store \ gone)}
      BY <2>3, <2>5 DEF Held
    <3>2. Held' = Held \ {store[k] : k \in gone}
      BY <3>1, HeldAfter
    <3>3. /\ key \in DOMAIN store <=> item \in Held
          /\ key \in DOMAIN store => store[key] = item
      BY <2>2, HeldByKey
    <3> QED BY <3>2, <3>3
  <2>7. item \in AllItems \cap {answer'.item}
    BY <1>4, <2>1, <2>3
  <2>20. PICK it : it = item
    OBVIOUS
  <2>8. Scoped!Drop(it)
    BY <2>20, <1>2, <2>4, <2>6 DEF Scoped!Drop, Held
  <2> QED BY <1>14, <2>7, <2>8, <2>20
<1>8. ASSUME NEW scope \in Scopes(config), NEW given \in Passed[config][Target(scope)],
             EvictByScope(scope, given)
      PROVE  Scoped!Next
  <2> DEFINE prefix == BuildScopePrefix(scope, given)
             place == Here(scope, given)
             hit == {k \in DOMAIN store : \/ ScopePrefix(k) = prefix
                                          \/ IsDescendantOf(ScopePrefix(k), prefix)}
             below == {i \in Held : IsPrefix(place, i.place)}
  <2>1. place \in AllPlaces
    BY <1>1, <1>8, PassedIsTold, HereIsTyped DEF EvictByScope
  <2>2. place \in Seq(Members) /\ prefix = PathOf(place)
    BY <1>1, <1>8, CallsAreDescribed DEF EvictByScope
  <2>3. /\ answer' = [N EXCEPT !.op = "drop_under", !.place = place, !.count = Cardinality(hit)]
        /\ store' = Restrict(store, DOMAIN store \ hit)
    BY <1>8 DEF EvictByScope
  <2>4. {store[k] : k \in hit} = below /\ Cardinality(hit) = Cardinality(below)
    <3> HIDE DEF place
    <3> QED BY <2>2, HitIsBelow
  <2>5. hit \in SUBSET DOMAIN store
    OBVIOUS
  <2> HIDE DEF hit, N, place
  <2>6. Held' = Held \ below
    <3>1. Held' = {Restrict(store, DOMAIN store \ hit)[k] : k \in DOMAIN Restrict(store, DOMAIN store \ hit)}
      BY <2>3 DEF Held
    <3> QED BY <2>4, <2>5, <3>1, HeldAfter
  <2>7. place \in AllPlaces \cap {answer'.place}
    BY <1>3, <2>1, <2>3
  <2>20. PICK it : it = place
    OBVIOUS
  <2>8. Scoped!DropUnder(it)
    <3>1. \A s, t : Scoped!IsPrefix(s, t) = IsPrefix(s, t)
      BY DEF Scoped!IsPrefix, IsPrefix
    <3>2. {i \in Held : Scoped!IsPrefix(place, i.place)} = below
      BY <3>1 DEF below
    <3>3. Scoped!Cardinality(below) = Cardinality(below)
      BY DEF Scoped!Cardinality, Cardinality
    <3>4. answer' = [N EXCEPT !.op = "drop_under", !.place = place, !.count = Scoped!Cardinality(below)]
      BY <2>3, <2>4, <3>3
    <3> HIDE DEF below
    <3> QED BY <1>2, <2>6, <2>20, <3>2, <3>4 DEF Scoped!DropUnder, Held
  <2> QED BY <1>15, <2>7, <2>8, <2>20
<1>9. ASSUME NEW scope, NEW given, Refused(scope, given)
      PROVE  Scoped!Next
  BY <1>2, <1>9 DEF Refused, Scoped!Next, Scoped!Refuse
<1>10. ASSUME NEW f \in Functions, f.scope \in Scopes(config), NEW arg \in Arguments,
              NEW given \in Passed[config][Target(f.scope)], Call(f, arg, given)
       PROVE  Scoped!Next
  <2> DEFINE item == FunctionItem(f, arg, given, ResultPlace(f, arg, given), process)
             key == FunctionKey(f, arg, given)
             result == IF key \in DOMAIN store THEN store[key] ELSE item
             ttl == f.ttl
  <2>1. item \in AllItems /\ ttl \in TTLs
    BY <1>1, <1>10, FunctionItemIsTyped, CallsAssumption
  <2>2. Describes(item, key)
    <3>1. ResultPlace(f, arg, given) = Here(f.scope, given)
      BY <1>1, <1>10, ResultPlaceIs DEF Call
    <3> QED BY <1>1, <1>10, <3>1, CallsAreDescribed DEF Call
  <2>3. result = item
    BY <2>2, HeldByKey
  <2>4. /\ answer' = [N EXCEPT !.op = "call", !.item = item, !.ttl = ttl, !.result = result]
        /\ store' = (IF key \in DOMAIN store THEN store ELSE Stored(key, item, ttl))
    BY <1>10 DEF Call, Answer
  <2> HIDE DEF item, key, result, N, ttl
  <2>5. Held' = IF ttl > 0 THEN Held \cup {item} ELSE Held
    <3>1. CASE key \in DOMAIN store
      <4>1. item \in Held
        BY <2>2, <3>1, HeldByKey
      <4> QED BY <2>4, <3>1, <4>1 DEF Held
    <3>2. CASE key \notin DOMAIN store
      <4>1. store' = Stored(key, item, ttl)
        BY <2>4, <3>2
      <4> QED BY <1>17, <2>1, <2>2, <4>1 DEF Held
    <3> QED BY <3>1, <3>2
  <2>6. item \in AllItems \cap {answer'.item} /\ ttl \in TTLs \cap {answer'.ttl}
    BY <1>4, <2>1, <2>4
  <2>20. PICK it, t : it = item /\ t = ttl
    OBVIOUS
  <2>7. Scoped!Memoize(it, t)
    BY <2>20, <1>2, <2>3, <2>4, <2>5 DEF Scoped!Memoize, Scoped!Kept, Held
  <2> QED BY <1>14, <2>6, <2>7, <2>20
<1>11. ASSUME NEW f \in Functions, f.scope \in Scopes(config), NEW arg \in Arguments,
              NEW given \in Passed[config][Target(f.scope)], CallUncached(f, arg, given)
       PROVE  Scoped!Next
  <2> DEFINE item == FunctionItem(f, arg, given, ResultPlace(f, arg, given), process)
             ttl == f.ttl
  <2>1. item \in AllItems /\ ttl \in TTLs
    BY <1>1, <1>11, FunctionItemIsTyped, CallsAssumption
  <2>2. answer' = [N EXCEPT !.op = "uncached", !.item = item, !.ttl = ttl, !.result = item] /\ store' = store
    BY <1>11 DEF CallUncached, Answer
  <2>5. item.place = None
    <3>1. ResultPlace(f, arg, given) = None
      BY <1>1, <1>11, ResultPlaceIs DEF CallUncached
    <3> QED BY <3>1 DEF FunctionItem
  <2> HIDE DEF item, N, ttl
  <2>3. item \in AllItems \cap {answer'.item} /\ ttl \in TTLs \cap {answer'.ttl}
    BY <1>4, <2>1, <2>2
  <2>20. PICK it, t : it = item /\ t = ttl
    OBVIOUS
  <2>4. Scoped!Compute(it, t)
    BY <2>20, <1>2, <2>2, <2>5 DEF Scoped!Compute
  <2> QED BY <1>14, <2>3, <2>4, <2>20
<1>12. ASSUME Clear PROVE Scoped!Next
  <2>1. answer' = [N EXCEPT !.op = "drop_all"] /\ store' = [k \in {} |-> None]
    BY <1>12 DEF Clear
  <2>2. DOMAIN [k \in {} |-> None] = {}
    OBVIOUS
  <2>3. Held' = {}
    BY <2>1, <2>2 DEF Held
  <2> QED BY <1>2, <2>1, <2>3 DEF Scoped!Next, Scoped!DropAll, Held
<1>13. ASSUME Restart \/ UNCHANGED vars PROVE UNCHANGED <<Held, answer>>
  BY <1>13 DEF Restart, vars, Held
<1> QED BY <1>5, <1>6, <1>7, <1>8, <1>9, <1>10, <1>11, <1>12, <1>13 DEF Next

(* Stored, looked up, computed or removed: what the cache does in a place   *)
(* of the hierarchy is what the abstract store does, when callers pass the  *)
(* parameters of their scope by name and no others, parameters, functions   *)
(* and keys are told apart by their names, and no identifier has a "/" in it.*)
THEOREM FacadeImplementsScopedStore ==
  ASSUME ParamsAreOwn, ParamsAreNamed, NamesAreDistinct, NoSlashes
  PROVE  Spec => ImplementsScopedStore
<1>1. SInv /\ [Next]_vars => SInv'
  BY DescribedStep
<1>2. SInv => TInv
  BY DEF SInv
<1>3. SInv /\ SInv' /\ [Next]_vars => [Scoped!Next]_<<Held, answer>>
  BY <1>2, ScopedStep DEF SInv
<1> QED BY <1>1, <1>3, DescribedInit, ScopedInit, PTL DEF Spec, ImplementsScopedStore, Scoped!Spec, Held
=============================================================================
