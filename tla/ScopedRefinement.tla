-------------------------- MODULE ScopedRefinement --------------------------
(***************************************************************************)
(* ScopedCache implements ScopedStore, as long as callers pass the         *)
(* parameters of the scope they name and no others, by name, no two        *)
(* parameters, and no two functions, share a name, and no identifier has a *)
(* "/" in it.                                                              *)
(***************************************************************************)
EXTENDS ScopedCache

-----------------------------------------------------------------------------
(* What callers and configurations are relied on for.  The code checks none *)
(* of it; where it fails, so does the isolation of scopes.                  *)

(* No two levels share a parameter. *)
ParamsAreUnique(c) == \A l, m \in Levels(c) : c.param[l] = c.param[m] => l = m

(* The parameters of the scope named, and no others, are passed. *)
ParamsAreOwn == ~ExtraParams /\ \A c \in Configs : ParamsAreUnique(c)

(* No function is told a parameter of its scope by position, where the      *)
(* decorator does not look (cache.py:223): a call that is, like those of    *)
(* README.md:90-91, never uses the cache, though its result belongs to a    *)
(* place.                                                                   *)
ParamsAreNamed ==
  \A c \in Configs, f \in Functions, a \in Arguments :
    f.scope \in Scopes(c) => ParamsOf(c, Target(f.scope)) \cap DOMAIN Positional[a] = {}

(* No identifier has a "/" in it. *)
NoSlash(text) == \A n \in 1..Len(text) : text[n] # "/"
Values == UNION {ValueTexts[p] : p \in DOMAIN ValueTexts}
NoSlashes == \A v \in Values : NoSlash(v)

(* Functions are told apart by their names, and from the programmatic keys; *)
(* and of -1 and -2, whose hashes are equal, at most one is a key.          *)
NamesAreDistinct ==
  /\ \A f, g \in Functions : f.id = g.id <=> f.name = g.name
  /\ \A f \in Functions : f.id # "__programmatic__" /\ f.name # "__programmatic__"
  /\ "-1" \in IntegerKeys => "-2" \notin ProgrammaticNames

-----------------------------------------------------------------------------

(* The items held are those whose description is in an entry. *)
Scoped == INSTANCE ScopedStore WITH
            Items <- AllItems, Places <- AllPlaces,
            items <- {store[k] : k \in DOMAIN store}

(* Whatever the caller stores, looks up, computes or removes in a place of  *)
(* the hierarchy is what the abstract store would have answered and kept.   *)
ImplementsScopedStore == Scoped!Spec

=============================================================================
