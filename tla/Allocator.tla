----------------------------- MODULE Allocator -----------------------------
(***************************************************************************)
(* The slab allocator of libprotocols (libprotocols/src/Utilities.c):      *)
(* blocks of memory are cut into pages, a page in use is a slab of slots   *)
(* of one size class. Slabs and blocks are kept in doubly linked lists     *)
(* with room left and without; the links are modelled one by one.          *)
(*                                                                         *)
(* An operation is one step: nothing else runs meanwhile. A pointer given  *)
(* to a client is a slot <<block, page, number>>. Touching the header of a *)
(* block already returned to the system is undefined and ends the model.   *)
(***************************************************************************)
EXTENDS Naturals, Sequences, FiniteSets

CONSTANTS Blocks,     \* addresses aligned_alloc may return
          NPages,     \* pages of a block that are ever in its free list
          Classes,    \* size classes
          Capacity,   \* slots of a slab of each class
          MaxLive,    \* bound: slots clients hold at a time
          Nil         \* nullptr

Pages     == 1 .. NPages
Slabs     == Blocks \X Pages

\* A new block serves its first slab without being tested for fullness, and a
\* new slab its first slot: neither is full then. nullptr is no address.
ASSUME AllocAssumption ==
  /\ NPages \in Nat \ {0, 1}
  /\ Capacity \in [Classes -> Nat \ {0, 1}]
  /\ MaxLive \in Nat
  /\ Nil \notin Blocks \cup Slabs \cup Classes

VARIABLES exists,   \* blocks obtained from the system and not freed
          pages,    \* free list of each block
          blocks,   \* lists "partial" and "full" of the memory manager
          class,    \* class of each slab, Nil for a free page
          free,     \* free list of each slab
          inuse,    \* slots of each slab in use
          slabs,    \* lists <<c, "partial">> and <<c, "full">> of each class
          live,     \* slots clients hold
          status    \* running, deleted, or how the program stopped

vars == <<exists, pages, blocks, class, free, inuse, slabs, live, status>>

BlockLists == {"partial", "full"}
SlabLists  == Classes \X {"partial", "full"}

-----------------------------------------------------------------------------
(* Doubly linked lists: allocatorClassAddSlab, allocatorClassRemoveSlab and *)
(* their twins for blocks.                                                  *)

Empty(Lists, Nodes) == [head |-> [l \in Lists |-> Nil],
                        prev |-> [n \in Nodes |-> Nil],
                        next |-> [n \in Nodes |-> Nil]]

\* f with n mapped to v, or f itself if n is nullptr
Set(f, n, v) == IF n = Nil THEN f ELSE [f EXCEPT ![n] = v]

Add(L, l, n) ==
  [head |-> [L.head EXCEPT ![l] = n],
   prev |-> [Set(L.prev, L.head[l], n) EXCEPT ![n] = Nil],
   next |-> [L.next EXCEPT ![n] = L.head[l]]]

\* A node without predecessor leaves the list named by the caller empty,
\* whatever follows it and whichever list it is in.
Remove(L, l, n) ==
  [head |-> IF L.prev[n] = Nil THEN [L.head EXCEPT ![l] = Nil] ELSE L.head,
   next |-> [Set(L.next, L.prev[n], L.next[n]) EXCEPT ![n] = Nil],
   prev |-> [Set(L.prev, L.next[n], L.prev[n]) EXCEPT ![n] = Nil]]

Move(L, from, to, n) == Add(Remove(L, from, n), to, n)

\* The nodes whose links Remove writes.
Neighbours(L, n) == {L.prev[n], L.next[n]} \ {Nil}

-----------------------------------------------------------------------------
(* prosAllocator_new *)
Init == /\ exists = {}
        /\ pages = [b \in Blocks |-> <<>>]
        /\ blocks = Empty(BlockLists, Blocks)
        /\ class = [s \in Slabs |-> Nil]
        /\ free = [s \in Slabs |-> <<>>]
        /\ inuse = [s \in Slabs |-> 0]
        /\ slabs = Empty(SlabLists, Slabs)
        /\ live = {} /\ status = "running"

Stop(how) == /\ status' = how
             /\ UNCHANGED <<exists, pages, blocks, class, free, inuse, slabs, live>>

InUse(b) == Cardinality({p \in Pages : class[<<b, p>>] # Nil})     \* block->inuse

\* allocatorBlockSlabAlloc, slots being the free list of slab s
\* mutant: the free list is not advanced
TakeKeepsFree(s, slots) == /\ free' = [free EXCEPT ![s] = slots]
                           /\ live' = live \cup {<<s[1], s[2], Head(slots)>>}
Take(s, slots) == /\ free' = [free EXCEPT ![s] = Tail(slots)]
                  /\ live' = live \cup {<<s[1], s[2], Head(slots)>>}

\* mutant: the slab is found full one slot too late
FillsUpLate(s) == inuse[s] = Capacity[class[s]]
FillsUp(s)     == inuse[s] + 1 = Capacity[class[s]]

(* prosAllocator_alloc in a class with a partial slab *)
AllocPartial(c) ==
  LET s == slabs.head[<<c, "partial">>]
  IN  /\ s # Nil
      /\ IF s[1] \notin exists THEN Stop("crash")
         ELSE IF free[s] = <<>> THEN Stop("no slot")
         ELSE /\ Take(s, free[s])
              /\ inuse' = [inuse EXCEPT ![s] = @ + 1]
              /\ slabs' = IF FillsUp(s)
                          THEN Move(slabs, <<c, "partial">>, <<c, "full">>, s) ELSE slabs
              /\ UNCHANGED <<exists, pages, blocks, class, status>>

NewSlab(b, ps, c) ==
  LET s == <<b, Head(ps)>>
  IN  /\ pages' = [pages EXCEPT ![b] = Tail(ps)]
      /\ class' = [class EXCEPT ![s] = c]
      /\ inuse' = [inuse EXCEPT ![s] = 1]
      /\ slabs' = Add(slabs, <<c, "partial">>, s)
      /\ Take(s, [k \in 1 .. Capacity[c] |-> k])

(* ... in a class without one, from a partial block *)
AllocPage(c) ==
  LET b    == blocks.head["partial"]
      full == Len(pages[b]) = 1
      left == Remove(blocks, "partial", b)
  IN  /\ slabs.head[<<c, "partial">>] = Nil
      /\ b # Nil
      /\ IF \/ b \notin exists
            \/ full /\ ~(Neighbours(blocks, b) \cup {left.head["full"]} \subseteq exists \cup {Nil})
         THEN Stop("crash")
         ELSE IF pages[b] = <<>> THEN Stop("no page")
         ELSE /\ NewSlab(b, pages[b], c)
              /\ blocks' = IF full THEN Add(left, "full", b) ELSE blocks
              /\ UNCHANGED <<exists, status>>

\* mutant: the page of the header is not kept back
FreshPagesAll == [k \in Pages |-> NPages - k]
FreshPages    == [k \in Pages |-> NPages + 1 - k]

(* ... and without one either: allocatorBlockNew *)
AllocBlock(c, b) ==
  /\ slabs.head[<<c, "partial">>] = Nil /\ blocks.head["partial"] = Nil
  /\ b \notin exists
  /\ exists' = exists \cup {b}
  /\ blocks' = Add(blocks, "partial", b)
  /\ NewSlab(b, FreshPages, c)
  /\ UNCHANGED status

-----------------------------------------------------------------------------
(* prosAllocator_free *)

\* allocatorBlockSlabFree puts the slot back in front of the others.
PutBack(x) == /\ free' = [free EXCEPT ![<<x[1], x[2]>>] = <<x[3]>> \o @]
              /\ inuse' = [inuse EXCEPT ![<<x[1], x[2]>>] = @ - 1]
              /\ live' = live \ {x}

FreeOfFull(x) ==
  LET s == <<x[1], x[2]>>
      c == class[s]
  IN  /\ inuse[s] = Capacity[c]
      /\ PutBack(x)
      /\ slabs' = Move(slabs, <<c, "full">>, <<c, "partial">>, s)
      /\ UNCHANGED <<exists, pages, blocks, class, status>>

FreeOfPartial(x) ==
  LET s == <<x[1], x[2]>>
  IN  /\ inuse[s] \in 2 .. Capacity[class[s]] - 1
      /\ PutBack(x)
      /\ UNCHANGED <<exists, pages, blocks, class, slabs, status>>

\* mutant: a block is destroyed while one of its pages is in use
LastPageEarly(b) == InUse(b) <= 2
LastPage(b)      == InUse(b) = 1

\* The last slot: the slab is destroyed, and with the last slab its block. The
\* model forgets the free lists in them, which are made anew before their use.
FreeOfLast(x) ==
  LET b == x[1]
      s == <<b, x[2]>>
      c == class[s]
  IN  /\ inuse[s] = 1 /\ inuse[s] # Capacity[c]
      /\ free' = [free EXCEPT ![s] = <<>>]
      /\ inuse' = [inuse EXCEPT ![s] = @ - 1]
      /\ live' = live \ {x}
      /\ slabs' = Remove(slabs, <<c, "partial">>, s)
      /\ class' = [class EXCEPT ![s] = Nil]
      /\ IF ~LastPage(b)
         THEN /\ pages' = [pages EXCEPT ![b] = <<x[2]>> \o @]
              /\ UNCHANGED <<exists, blocks, status>>
         ELSE /\ exists' = exists \ {b}
              /\ pages' = [pages EXCEPT ![b] = <<>>]
              /\ blocks' = Remove(blocks, "partial", b)
              /\ status' = IF Neighbours(blocks, b) \subseteq exists THEN status ELSE "crash"

-----------------------------------------------------------------------------
(* prosAllocator_del: the blocks found in the lists are freed. *)

\* The blocks of a list in order, followed until the model runs out of blocks.
Chain(l) ==
  LET from[n \in 0 .. Cardinality(Blocks) + 1] ==
        IF n = 0 \/ blocks.head[l] = Nil THEN <<>>
        ELSE IF n = 1 THEN <<blocks.head[l]>>
        ELSE LET c == from[n - 1]
             IN  IF blocks.next[c[Len(c)]] = Nil THEN c ELSE Append(c, blocks.next[c[Len(c)]])
  IN  from[Cardinality(Blocks) + 1]

Del ==
  LET c == Chain("full") \o Chain("partial")
      found == {c[k] : k \in DOMAIN c}
  IN  IF found \subseteq exists /\ Cardinality(found) = Len(c)
      THEN /\ exists' = exists \ found
           /\ live' = {} /\ status' = "deleted"
           /\ UNCHANGED <<pages, blocks, class, free, inuse, slabs>>
      ELSE Stop("crash")

Alloc(c) == AllocPartial(c) \/ AllocPage(c) \/ (\E b \in Blocks : AllocBlock(c, b))
Free(x)  == FreeOfFull(x) \/ FreeOfPartial(x) \/ FreeOfLast(x)

Next == /\ status = "running"
        /\ \/ Cardinality(live) < MaxLive /\ \E c \in Classes : Alloc(c)
           \/ \E x \in live : Free(x)
           \/ Del

Spec == Init /\ [][Next]_vars

-----------------------------------------------------------------------------
ListsOK(L, Lists, Nodes) ==
  L \in [head : [Lists -> Nodes \cup {Nil}], prev : [Nodes -> Nodes \cup {Nil}],
         next : [Nodes -> Nodes \cup {Nil}]]

TypeOK ==
  /\ exists \subseteq Blocks
  /\ pages \in [Blocks -> Seq(Pages)]
  /\ ListsOK(blocks, BlockLists, Blocks) /\ ListsOK(slabs, SlabLists, Slabs)
  /\ class \in [Slabs -> Classes \cup {Nil}]
  /\ free \in [Slabs -> Seq(Nat)] /\ inuse \in [Slabs -> Nat]
  /\ \A x \in live : <<x[1], x[2]>> \in Slabs /\ x[3] \in Nat
  /\ status \in {"running", "deleted", "crash", "no slot", "no page"}

Elements(q) == {q[k] : k \in DOMAIN q}
Injective(q) == \A j, k \in DOMAIN q : j # k => q[j] # q[k]
LiveIn(s)   == {k \in 1 .. Capacity[class[s]] : <<s[1], s[2], k>> \in live}

\* A slot of a slab in use is either in its free list, once, or held by a
\* client: no slot is handed out twice, and none is forgotten.
SlotsAccounted ==
  status = "running" => \A s \in Slabs : class[s] # Nil =>
    /\ Injective(free[s])
    /\ Elements(free[s]) = (1 .. Capacity[class[s]]) \ LiveIn(s)
    /\ inuse[s] = Cardinality(LiveIn(s))

\* While a client holds a slot, its page is not reused and its block is not
\* returned to the system; a page of a block is either a slab or in the free
\* list of the block, once.
PagesAccounted ==
  /\ \A x \in live : /\ x[1] \in exists
                     /\ class[<<x[1], x[2]>>] # Nil
                     /\ x[3] \in LiveIn(<<x[1], x[2]>>)
  /\ status = "running" => \A b \in exists :
       /\ Injective(pages[b])
       /\ Elements(pages[b]) = {p \in Pages : class[<<b, p>>] = Nil}

\* The lists of a class: what allocation takes from them is a slab of the class
\* with a free slot, although slabs get lost from them; the assertion in
\* allocatorBlockSlabAlloc holds.
PartialServes ==
  /\ status # "no slot"
  /\ status = "running" => \A c \in Classes :
       LET s == slabs.head[<<c, "partial">>]
       IN  s # Nil => s[1] \in exists /\ class[s] = c /\ free[s] # <<>>

-----------------------------------------------------------------------------
\* Utilities.c:690 "Block is empty, destroy it!": a destroyed block is in no
\* list of the manager any more.
DestroyedIsForgotten == status = "running" => \A l \in BlockLists : blocks.head[l] \in exists \cup {Nil}
=============================================================================
