----------------------------- MODULE MCStrPool -----------------------------
(* Small pools for TLC. Strings are model values; the hashes make them       *)
(* collide in their home slot, wrap around the end of the array, and share   *)
(* a hash while differing in length. A first table of two is filled to the   *)
(* last slot, like the code's of four, before it grows to six; that one      *)
(* grows while it has a free slot.                                           *)
EXTENDS StrPool, TLC

CONSTANTS a, b, c, d, e

FiveStrs == {a, b, c, d, e}
FiveHash == a :> 17 @@ b :> 16 @@ c :> 17 @@ d :> 11 @@ e :> 35
FiveSize == a :> 1 @@ b :> 1 @@ c :> 2 @@ d :> 1 @@ e :> 1
=============================================================================
