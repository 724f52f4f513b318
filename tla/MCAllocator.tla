---------------------------- MODULE MCAllocator ----------------------------
(* A small memory for TLC: blocks of two pages, two size classes.            *)
EXTENDS Allocator, TLC

CONSTANTS b1, b2, small, big

TwoBlocks    == {b1, b2}
TwoClasses   == {small, big}
SlotsOfClass == big :> 2 @@ small :> 3
BlocksAlike  == Permutations(Blocks)
=============================================================================
