---------------------------- MODULE MCScopeTable ---------------------------
(* Small scopes for TLC: declarations of two neighbouring homes at the end   *)
(* of the table, so that insertions displace buckets, more than once and     *)
(* around the end; two of them declare one identifier.                       *)
EXTENDS ScopeTable, TLC

CONSTANTS a, b, c, d, e, f

SixDecls == {a, b, c, d, e, f}
SixHash  == a :> 7 @@ b :> 6 @@ c :> 14 @@ d :> 22 @@ e :> 15 @@ f :> 7
=============================================================================
