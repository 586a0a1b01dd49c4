------------------------------ MODULE MCCache ------------------------------
(***************************************************************************)
(* The instances of CacheHistory that TLC checks.  One organisation with   *)
(* one user below it; a decorated function whose result is kept for the    *)
(* user, one that returns None, one called without its scope parameters;   *)
(* and entries that are set by hand, one of them under a scope value that  *)
(* contains "::", such as an IPv6 address, which CacheKey.from_string does *)
(* not accept.                                                             *)
(***************************************************************************)
EXTENDS CacheHistory

MCScopes == {"global", "org:1", "org:1/user:1"}

MCCovers ==
  [p \in MCScopes |->
     CASE p = "global"       -> MCScopes
       [] p = "org:1"        -> MCScopes \ {"global"}
       [] p = "org:1/user:1" -> {p}]

(* Keys by name; a configuration chooses which there are. *)
MCScopeOf ==
  [k \in Keys |->
     CASE k \in {"profile", "empty"} -> "org:1/user:1"
       [] k \in {"note", "host"}     -> "org:1"
       [] k = "logo"                 -> "global"]

MCKeyOf ==
  [r \in Requests |->
     CASE r = "get_profile" -> "profile"
       [] r = "get_empty"   -> "empty"
       [] r = "positional"  -> None]

MCValues == Results \cup {None}

=============================================================================
