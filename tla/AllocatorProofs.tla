-------------------------- MODULE AllocatorProofs --------------------------
(***************************************************************************)
(* Proofs about Allocator for every memory, every number of pages, every   *)
(* set of size classes and every capacity of their slabs.                  *)
(***************************************************************************)
EXTENDS Allocator, FiniteSetTheorems, TLAPS

\* The list a slab belongs to, whether or not it can be reached in it; a free
\* page belongs to none.
Kind(s) == IF class[s] = Nil THEN <<Nil, "none">>
           ELSE <<class[s], IF inuse[s] = Capacity[class[s]] THEN "full" ELSE "partial">>
Kinds   == [s \in Slabs |-> Kind(s)]

\* The links are symmetric and connect nodes of one list, and so does the head
\* of a list. Nothing is said about nodes no head leads to: removing the first
\* node of a list loses the others, and their links stay as they are.
Linked(L, Lists, Nodes, K) ==
  /\ ListsOK(L, Lists, Nodes)
  /\ \A l \in Lists : L.head[l] # Nil => K[L.head[l]] = l /\ L.prev[L.head[l]] = Nil
  /\ \A n \in Nodes : L.next[n] # Nil =>
       K[n] \in Lists /\ K[L.next[n]] = K[n] /\ L.prev[L.next[n]] = n
  /\ \A n \in Nodes : L.prev[n] # Nil =>
       K[n] \in Lists /\ K[L.prev[n]] = K[n] /\ L.next[L.prev[n]] = n

\* A client holds slot k of slab s.
Held(s, k) == <<s[1], s[2], k>> \in live

\* What clients hold are slots of slabs in blocks that exist.
HeldFounded ==
  /\ live \subseteq Blocks \X Pages \X Nat
  /\ \A s \in Slabs, k \in Nat :
       Held(s, k) => s[1] \in exists /\ class[s] # Nil /\ k \in 1 .. Capacity[class[s]]

SlotsOf(s) == /\ Injective(free[s])
              /\ Elements(free[s]) = (1 .. Capacity[class[s]]) \ LiveIn(s)
              /\ inuse[s] = Cardinality(LiveIn(s))
PagesOf(b) == /\ Injective(pages[b])
              /\ Elements(pages[b]) = {p \in Pages : class[<<b, p>>] = Nil}

\* The state between two operations.
Sound == /\ \A s \in Slabs : class[s] # Nil => s[1] \in exists /\ SlotsOf(s)
         /\ \A b \in exists : PagesOf(b)
         /\ Linked(slabs, SlabLists, Slabs, Kinds)

IInv == /\ TypeOK /\ HeldFounded
        /\ status # "no slot"
        /\ status = "running" => Sound

-----------------------------------------------------------------------------
(* The lists. *)

\* A node that belongs to no list can be put in front of one.
LEMMA AddLinked ==
  ASSUME NEW Lists, NEW Nodes, Nil \notin Nodes, NEW L, NEW K, NEW K2,
         Linked(L, Lists, Nodes, K),
         NEW l \in Lists, NEW n \in Nodes, K[n] \notin Lists,
         K2[n] = l, \A m \in Nodes \ {n} : K2[m] = K[m]
  PROVE  Linked(Add(L, l, n), Lists, Nodes, K2)
<1> DEFINE M == Add(L, l, n)
           h == L.head[l]
<1>1. ListsOK(L, Lists, Nodes)
  BY DEF Linked
<1>2. h # n /\ (h # Nil => h \in Nodes /\ K[h] = l /\ L.prev[h] = Nil)
  BY <1>1 DEF Linked, ListsOK
<1>3. /\ \A m \in Nodes : L.next[m] # n /\ L.prev[m] # n
      /\ \A k \in Lists : L.head[k] # n
  BY <1>1 DEF Linked, ListsOK
<1>4. /\ M.head = [L.head EXCEPT ![l] = n]
      /\ M.next = [L.next EXCEPT ![n] = h]
      /\ M.prev = [Set(L.prev, h, n) EXCEPT ![n] = Nil]
  BY DEF Add
<1>5. Set(L.prev, h, n) \in [Nodes -> Nodes \cup {Nil}]
  BY <1>1, <1>2 DEF Set, ListsOK
<1>6. ListsOK(M, Lists, Nodes)
  <2>1. M = [head |-> M.head, prev |-> M.prev, next |-> M.next]
    BY DEF Add
  <2>2. /\ M.head \in [Lists -> Nodes \cup {Nil}]
        /\ M.next \in [Nodes -> Nodes \cup {Nil}]
        /\ M.prev \in [Nodes -> Nodes \cup {Nil}]
    BY <1>1, <1>2, <1>4, <1>5 DEF ListsOK
  <2> HIDE DEF M
  <2>3. QED
    BY <2>1, <2>2 DEF ListsOK
<1>7. /\ M.head[l] = n /\ \A k \in Lists \ {l} : M.head[k] = L.head[k]
      /\ M.next[n] = h /\ \A m \in Nodes \ {n} : M.next[m] = L.next[m]
      /\ M.prev[n] = Nil /\ (h # Nil => M.prev[h] = n)
      /\ \A m \in Nodes \ {n, h} : M.prev[m] = L.prev[m]
  BY <1>1, <1>2, <1>4, <1>5 DEF ListsOK, Set
<1> HIDE DEF M, h
<1>8. ASSUME NEW k \in Lists, M.head[k] # Nil
      PROVE  K2[M.head[k]] = k /\ M.prev[M.head[k]] = Nil
  <2>1. CASE k = l
    BY <2>1, <1>7
  <2>2. CASE k # l
    <3>1. M.head[k] = L.head[k] /\ L.head[k] \in Nodes \ {n}
      BY <1>1, <1>3, <1>7, <1>8, <2>2 DEF ListsOK
    <3>2. K[L.head[k]] = k /\ L.prev[L.head[k]] = Nil
      BY <3>1, <1>8 DEF Linked
    <3>3. L.head[k] # h
      BY <3>1, <3>2, <1>2, <1>8, <2>2
    <3>4. QED
      BY <3>1, <3>2, <3>3, <1>7
  <2>3. QED
    BY <2>1, <2>2
<1>9. ASSUME NEW m \in Nodes, M.next[m] # Nil
      PROVE  K2[m] \in Lists /\ K2[M.next[m]] = K2[m] /\ M.prev[M.next[m]] = m
  <2>1. CASE m = n
    BY <2>1, <1>2, <1>7, <1>9
  <2>2. CASE m # n
    <3>1. M.next[m] = L.next[m] /\ L.next[m] \in Nodes \ {n}
      BY <1>1, <1>3, <1>7, <1>9, <2>2 DEF ListsOK
    <3>2. K[m] \in Lists /\ K[L.next[m]] = K[m] /\ L.prev[L.next[m]] = m
      BY <3>1, <1>9 DEF Linked
    <3>3. L.next[m] # h
      BY <3>1, <3>2, <1>2
    <3>4. QED
      BY <3>1, <3>2, <3>3, <1>7, <2>2
  <2>3. QED
    BY <2>1, <2>2
<1>10. ASSUME NEW m \in Nodes, M.prev[m] # Nil
       PROVE  K2[m] \in Lists /\ K2[M.prev[m]] = K2[m] /\ M.next[M.prev[m]] = m
  <2>1. m # n
    BY <1>7, <1>10
  <2>2. CASE m = h
    BY <2>1, <2>2, <1>2, <1>7
  <2>3. CASE m # h
    <3>1. M.prev[m] = L.prev[m] /\ L.prev[m] \in Nodes \ {n}
      BY <1>1, <1>3, <1>7, <1>10, <2>1, <2>3 DEF ListsOK
    <3>2. K[m] \in Lists /\ K[L.prev[m]] = K[m] /\ L.next[L.prev[m]] = m
      BY <3>1, <1>10 DEF Linked
    <3>3. QED
      BY <3>1, <3>2, <1>7, <2>1
  <2>4. QED
    BY <2>2, <2>3
<1>11. QED
  BY <1>6, <1>8, <1>9, <1>10 DEF Linked, M

\* Removing a node from the list it belongs to leaves no link to it, whether
\* or not the list still leads to it.
LEMMA RemoveLinked ==
  ASSUME NEW Lists, NEW Nodes, Nil \notin Nodes, NEW L, NEW K, NEW K2,
         Linked(L, Lists, Nodes, K),
         NEW l \in Lists, NEW n \in Nodes, K[n] = l,
         K2[n] \notin Lists, \A m \in Nodes \ {n} : K2[m] = K[m]
  PROVE  Linked(Remove(L, l, n), Lists, Nodes, K2)
<1> DEFINE M == Remove(L, l, n)
           p == L.prev[n]
           x == L.next[n]
<1>1. ListsOK(L, Lists, Nodes)
  BY DEF Linked
<1>2. /\ p # Nil => p \in Nodes /\ K[p] = l /\ L.next[p] = n
      /\ x # Nil => x \in Nodes /\ K[x] = l /\ L.prev[x] = n
      /\ p = n <=> x = n
  BY <1>1 DEF Linked, ListsOK
<1>3. /\ M.head = IF p = Nil THEN [L.head EXCEPT ![l] = Nil] ELSE L.head
      /\ M.next = [Set(L.next, p, x) EXCEPT ![n] = Nil]
      /\ M.prev = [Set(L.prev, x, p) EXCEPT ![n] = Nil]
  BY DEF Remove
<1>4. p \in Nodes \cup {Nil} /\ x \in Nodes \cup {Nil}
  BY <1>1 DEF ListsOK
<1>5. /\ Set(L.next, p, x) \in [Nodes -> Nodes \cup {Nil}]
      /\ Set(L.prev, x, p) \in [Nodes -> Nodes \cup {Nil}]
  BY <1>1, <1>4 DEF Set, ListsOK
<1>6. ListsOK(M, Lists, Nodes)
  <2>1. M = [head |-> M.head, prev |-> M.prev, next |-> M.next]
    BY DEF Remove
  <2>2. /\ M.head \in [Lists -> Nodes \cup {Nil}]
        /\ M.next \in [Nodes -> Nodes \cup {Nil}]
        /\ M.prev \in [Nodes -> Nodes \cup {Nil}]
    BY <1>1, <1>3, <1>4, <1>5 DEF ListsOK
  <2> HIDE DEF M
  <2>3. QED
    BY <2>1, <2>2 DEF ListsOK
<1>7. /\ \A k \in Lists : M.head[k] # Nil => M.head[k] = L.head[k] /\ (k = l => p # Nil)
      /\ M.next[n] = Nil /\ M.prev[n] = Nil
      /\ p # Nil /\ p # n => M.next[p] = x
      /\ x # Nil /\ x # n => M.prev[x] = p
      /\ \A m \in Nodes \ {n, p} : M.next[m] = L.next[m]
      /\ \A m \in Nodes \ {n, x} : M.prev[m] = L.prev[m]
  BY <1>1, <1>3, <1>4, <1>5 DEF ListsOK, Set
<1> HIDE DEF M, p, x
<1>8. ASSUME NEW k \in Lists, M.head[k] # Nil
      PROVE  K2[M.head[k]] = k /\ M.prev[M.head[k]] = Nil
  <2>1. M.head[k] = L.head[k] /\ L.head[k] \in Nodes
    BY <1>1, <1>7, <1>8 DEF ListsOK
  <2>2. K[L.head[k]] = k /\ L.prev[L.head[k]] = Nil
    BY <2>1, <1>8 DEF Linked
  <2>3. L.head[k] # n
    BY <2>1, <2>2, <1>7, <1>8 DEF p
  <2>4. L.head[k] # x
    BY <2>1, <2>2, <1>2
  <2>5. QED
    BY <2>1, <2>2, <2>3, <2>4, <1>7
<1>9. ASSUME NEW m \in Nodes, M.next[m] # Nil
      PROVE  K2[m] \in Lists /\ K2[M.next[m]] = K2[m] /\ M.prev[M.next[m]] = m
  <2>1. m # n
    BY <1>7, <1>9
  <2>2. CASE m = p
    <3>1. M.next[m] = x /\ x # Nil /\ x # n /\ p # Nil
      BY <2>1, <2>2, <1>2, <1>7, <1>9
    <3>2. QED
      BY <3>1, <2>1, <2>2, <1>2, <1>7
  <2>3. CASE m # p
    <3>1. M.next[m] = L.next[m] /\ L.next[m] \in Nodes
      BY <1>1, <1>7, <1>9, <2>1, <2>3 DEF ListsOK
    <3>2. K[m] \in Lists /\ K[L.next[m]] = K[m] /\ L.prev[L.next[m]] = m
      BY <3>1, <1>9 DEF Linked
    <3>3. L.next[m] # n
      BY <3>2, <2>3 DEF p
    <3>4. L.next[m] # x
      BY <3>1, <3>2, <2>1, <1>2
    <3>5. QED
      BY <3>1, <3>2, <3>3, <3>4, <2>1, <1>7
  <2>4. QED
    BY <2>2, <2>3
<1>10. ASSUME NEW m \in Nodes, M.prev[m] # Nil
       PROVE  K2[m] \in Lists /\ K2[M.prev[m]] = K2[m] /\ M.next[M.prev[m]] = m
  <2>1. m # n
    BY <1>7, <1>10
  <2>2. CASE m = x
    <3>1. M.prev[m] = p /\ p # Nil /\ p # n /\ x # Nil
      BY <2>1, <2>2, <1>2, <1>7, <1>10
    <3>2. QED
      BY <3>1, <2>1, <2>2, <1>2, <1>7
  <2>3. CASE m # x
    <3>1. M.prev[m] = L.prev[m] /\ L.prev[m] \in Nodes
      BY <1>1, <1>7, <1>10, <2>1, <2>3 DEF ListsOK
    <3>2. K[m] \in Lists /\ K[L.prev[m]] = K[m] /\ L.next[L.prev[m]] = m
      BY <3>1, <1>10 DEF Linked
    <3>3. L.prev[m] # n
      BY <3>2, <2>3 DEF x
    <3>4. L.prev[m] # p
      BY <3>1, <3>2, <2>1, <1>2
    <3>5. QED
      BY <3>1, <3>2, <3>3, <3>4, <2>1, <1>7
  <2>4. QED
    BY <2>2, <2>3
<1>11. QED
  BY <1>6, <1>8, <1>9, <1>10 DEF Linked, M

\* Moving a node from its list to another.
LEMMA MoveLinked ==
  ASSUME NEW Lists, NEW Nodes, Nil \notin Nodes, NEW L, NEW K, NEW K2,
         NEW none, none \notin Lists, K \in [Nodes -> Lists \cup {none}],
         Linked(L, Lists, Nodes, K),
         NEW from \in Lists, NEW to \in Lists, NEW n \in Nodes, K[n] = from,
         K2[n] = to, \A m \in Nodes \ {n} : K2[m] = K[m]
  PROVE  Linked(Move(L, from, to, n), Lists, Nodes, K2)
<1> DEFINE K1 == [K EXCEPT ![n] = none]
<1>1. K1[n] \notin Lists /\ \A m \in Nodes \ {n} : K1[m] = K[m] /\ K2[m] = K1[m]
  OBVIOUS
<1> HIDE DEF K1
<1>2. Linked(Remove(L, from, n), Lists, Nodes, K1)
  BY <1>1, RemoveLinked
<1>3. QED
  BY <1>1, <1>2, AddLinked DEF Move

-----------------------------------------------------------------------------
(* Free lists. *)

LEMMA TailOfList ==
  ASSUME NEW S, NEW q \in Seq(S), q # <<>>, Injective(q)
  PROVE  /\ Tail(q) \in Seq(S) /\ Injective(Tail(q))
         /\ Elements(Tail(q)) = Elements(q) \ {Head(q)}
         /\ Head(q) \in Elements(q) /\ Head(q) \in S
<1>1. /\ Len(q) \in Nat \ {0} /\ DOMAIN q = 1 .. Len(q)
      /\ DOMAIN Tail(q) = 1 .. Len(q) - 1 /\ Tail(q) \in Seq(S)
      /\ \A k \in 1 .. Len(q) - 1 : Tail(q)[k] = q[k + 1]
      /\ Head(q) = q[1] /\ q[1] \in S
  OBVIOUS
<1>2. Injective(Tail(q))
  BY <1>1 DEF Injective
<1>3. Elements(Tail(q)) = Elements(q) \ {Head(q)}
  <2>1. ASSUME NEW e \in Elements(Tail(q)) PROVE e \in Elements(q) \ {Head(q)}
    BY <1>1, <2>1 DEF Injective, Elements
  <2>2. ASSUME NEW e \in Elements(q), e # Head(q) PROVE e \in Elements(Tail(q))
    <3>1. PICK k \in DOMAIN q : e = q[k]
      BY DEF Elements
    <3>2. k - 1 \in DOMAIN Tail(q) /\ Tail(q)[k - 1] = e
      BY <1>1, <2>2, <3>1
    <3>3. QED
      BY <3>2 DEF Elements
  <2>3. QED
    BY <2>1, <2>2
<1>4. Head(q) \in Elements(q)
  BY <1>1 DEF Elements
<1>5. QED
  BY <1>1, <1>2, <1>3, <1>4

LEMMA PushOnList ==
  ASSUME NEW S, NEW q \in Seq(S), Injective(q), NEW e \in S, e \notin Elements(q)
  PROVE  /\ <<e>> \o q \in Seq(S) /\ Injective(<<e>> \o q)
         /\ Elements(<<e>> \o q) = Elements(q) \cup {e}
<1> DEFINE r == <<e>> \o q
<1>1. /\ Len(q) \in Nat /\ DOMAIN q = 1 .. Len(q)
      /\ r \in Seq(S) /\ DOMAIN r = 1 .. Len(q) + 1
      /\ r[1] = e /\ \A k \in 1 .. Len(q) : r[k + 1] = q[k]
  OBVIOUS
<1> HIDE DEF r
<1>2. \A k \in DOMAIN r : k = 1 \/ (k - 1 \in DOMAIN q /\ r[k] = q[k - 1])
  BY <1>1
<1>3. \A k \in DOMAIN q : k + 1 \in DOMAIN r /\ r[k + 1] = q[k]
  BY <1>1
<1>4. Injective(r)
  BY <1>1, <1>2 DEF Injective, Elements
<1>5. Elements(r) = Elements(q) \cup {e}
  <2>1. \A f \in Elements(r) : f \in Elements(q) \cup {e}
    BY <1>1, <1>2 DEF Elements
  <2>2. \A f \in Elements(q) : f \in Elements(r)
    BY <1>3 DEF Elements
  <2>3. 1 \in DOMAIN r /\ e \in Elements(r)
    BY <1>1 DEF Elements
  <2>4. QED
    BY <2>1, <2>2, <2>3
<1>6. QED
  BY <1>1, <1>4, <1>5 DEF r

LEMMA NewLists ==
  ASSUME NEW n \in Nat
  PROVE  LET q == [k \in 1 .. n |-> k]
         IN  q \in Seq(Nat) /\ Len(q) = n /\ Injective(q) /\ Elements(q) = 1 .. n
  BY DEF Injective, Elements

LEMMA NewPages ==
  /\ FreshPages \in Seq(Pages) /\ FreshPages # <<>>
  /\ Injective(FreshPages) /\ Elements(FreshPages) = Pages
<1>1. FreshPages \in Seq(Pages) /\ DOMAIN FreshPages = Pages /\ FreshPages # <<>>
  BY AllocAssumption DEF FreshPages, Pages
<1>2. \A k \in Pages : FreshPages[k] = NPages + 1 - k
  BY DEF FreshPages
<1>3. Injective(FreshPages)
  BY <1>1, <1>2, AllocAssumption DEF Injective, Pages
<1>4. Elements(FreshPages) = Pages
  <2>1. \A p \in Pages : NPages + 1 - p \in Pages /\ FreshPages[NPages + 1 - p] = p
    BY <1>2, AllocAssumption DEF Pages
  <2>2. QED
    BY <1>1, <1>2, <2>1 DEF Elements, Pages
<1>5. QED
  BY <1>1, <1>3, <1>4

-----------------------------------------------------------------------------
(* What clients hold. *)

LEMMA HeldAfterTake ==
  ASSUME live \subseteq Blocks \X Pages \X Nat, NEW s \in Slabs, NEW k \in Nat,
         live' = live \cup {<<s[1], s[2], k>>}
  PROVE  /\ live' \subseteq Blocks \X Pages \X Nat
         /\ \A t \in Slabs, j \in Nat : Held(t, j)' <=> Held(t, j) \/ (t = s /\ j = k)
<1>1. s[1] \in Blocks /\ s[2] \in Pages
  BY DEF Slabs
<1>2. \A t \in Slabs : t = <<t[1], t[2]>>
  BY DEF Slabs
<1>3. QED
  BY <1>1, <1>2 DEF Held

LEMMA HeldAfterFree ==
  ASSUME live \subseteq Blocks \X Pages \X Nat, NEW s \in Slabs, NEW k \in Nat,
         live' = live \ {<<s[1], s[2], k>>}
  PROVE  /\ live' \subseteq Blocks \X Pages \X Nat
         /\ \A t \in Slabs, j \in Nat : Held(t, j)' <=> Held(t, j) /\ ~(t = s /\ j = k)
<1>1. \A t \in Slabs : t = <<t[1], t[2]>>
  BY DEF Slabs
<1>2. \A t \in Slabs, j \in Nat : <<t[1], t[2], j>> = <<s[1], s[2], k>> <=> t = s /\ j = k
  BY <1>1
<1>3. QED
  BY <1>2 DEF Held

\* The slots of a slab in use that clients hold.
LEMMA LiveInFinite ==
  ASSUME TypeOK, HeldFounded, NEW s \in Slabs, class[s] # Nil
  PROVE  /\ class[s] \in Classes /\ Capacity[class[s]] \in Nat \ {0, 1}
         /\ LiveIn(s) = {k \in Nat : Held(s, k)} /\ LiveIn(s) \subseteq 1 .. Capacity[class[s]]
         /\ IsFiniteSet(LiveIn(s)) /\ Cardinality(LiveIn(s)) \in Nat
         /\ Cardinality(LiveIn(s)) <= Capacity[class[s]]
         /\ Cardinality(LiveIn(s)) < Capacity[class[s]] => LiveIn(s) # 1 .. Capacity[class[s]]
<1>1. class[s] \in Classes /\ Capacity[class[s]] \in Nat \ {0, 1}
  BY AllocAssumption DEF TypeOK
<1>2. /\ IsFiniteSet(1 .. Capacity[class[s]])
      /\ Cardinality(1 .. Capacity[class[s]]) = Capacity[class[s]]
  BY SMTT(30), <1>1, FS_Interval
<1>3. LiveIn(s) \subseteq 1 .. Capacity[class[s]]
  BY DEF LiveIn
<1>4. LiveIn(s) = {k \in Nat : Held(s, k)}
  BY <1>1 DEF LiveIn, Held, HeldFounded
<1>5. /\ IsFiniteSet(LiveIn(s)) /\ Cardinality(LiveIn(s)) <= Capacity[class[s]]
  BY <1>2, <1>3, FS_Subset
<1>6. Cardinality(LiveIn(s)) \in Nat
  BY <1>5, FS_CardinalityType
<1>7. Cardinality(LiveIn(s)) < Capacity[class[s]] => LiveIn(s) # 1 .. Capacity[class[s]]
  BY <1>1, <1>2
<1>8. QED
  BY <1>1, <1>3, <1>4, <1>5, <1>6, <1>7

\* The head of a list of slabs with room can serve a slot.
LEMMA HeadServes ==
  ASSUME IInv, status = "running", NEW c \in Classes, slabs.head[<<c, "partial">>] # Nil
  PROVE  LET s == slabs.head[<<c, "partial">>]
         IN  s \in Slabs /\ s[1] \in exists /\ class[s] = c /\ free[s] # <<>>
               /\ inuse[s] # Capacity[c]
<1> DEFINE s == slabs.head[<<c, "partial">>]
<1>1. /\ <<c, "partial">> \in SlabLists /\ ListsOK(slabs, SlabLists, Slabs) /\ Sound
  BY DEF IInv, TypeOK, SlabLists
<1>2. s \in Slabs /\ Kinds[s] = <<c, "partial">>
  BY <1>1 DEF Sound, Linked, ListsOK
<1> HIDE DEF s
<1>3. Kind(s) = <<c, "partial">>
  BY <1>2 DEF Kinds
<1>4. class[s] = c /\ class[s] # Nil /\ inuse[s] # Capacity[c]
  BY <1>3, AllocAssumption DEF Kind
<1>5. s[1] \in exists /\ SlotsOf(s)
  BY <1>1, <1>2, <1>4 DEF Sound
<1>6. free[s] # <<>>
  <2>1. Cardinality(LiveIn(s)) < Capacity[c]
    BY <1>2, <1>4, <1>5, LiveInFinite DEF IInv, SlotsOf
  <2>2. PICK k \in 1 .. Capacity[c] : k \notin LiveIn(s)
    BY <1>2, <1>4, <2>1, LiveInFinite DEF IInv
  <2>3. k \in Elements(free[s])
    BY <1>4, <1>5, <2>2 DEF SlotsOf
  <2>4. QED
    BY <2>3 DEF Elements
<1>7. QED
  BY <1>2, <1>4, <1>5, <1>6 DEF s

-----------------------------------------------------------------------------
(* One slab. *)

\* A slot leaves the free list for a client.
LEMMA TakeSlot ==
  ASSUME NEW q \in Seq(Nat), q # <<>>, NEW cap \in Nat, NEW H \in SUBSET (1 .. cap),
         Injective(q), Elements(q) = (1 .. cap) \ H
  PROVE  /\ Head(q) \in 1 .. cap /\ Head(q) \notin H
         /\ Tail(q) \in Seq(Nat) /\ Injective(Tail(q))
         /\ Elements(Tail(q)) = (1 .. cap) \ (H \cup {Head(q)})
         /\ Cardinality(H \cup {Head(q)}) = Cardinality(H) + 1
<1>1. Head(q) \in (1 .. cap) \ H
  BY TailOfList
<1>2. IsFiniteSet(H)
  BY FS_Interval, FS_Subset, 1 \in Int, cap \in Int
<1>3. Cardinality(H \cup {Head(q)}) = Cardinality(H) + 1
  BY <1>1, <1>2, FS_AddElement
<1>4. Elements(Tail(q)) = (1 .. cap) \ (H \cup {Head(q)})
  BY TailOfList
<1>5. QED
  BY <1>1, <1>3, <1>4, TailOfList

\* q holds every slot but those in H, once.
FreeList(q, cap, H) == Injective(q) /\ Elements(q) = (1 .. cap) \ H

\* A slot a client held returns to the free list.
LEMMA GiveSlot ==
  ASSUME NEW q \in Seq(Nat), NEW cap \in Nat, NEW H \in SUBSET (1 .. cap), NEW k \in H,
         FreeList(q, cap, H), NEW G, G = H \ {k}
  PROVE  <<k>> \o q \in Seq(Nat) /\ FreeList(<<k>> \o q, cap, G)
<1>1. k \in Nat /\ k \in 1 .. cap /\ k \notin Elements(q)
  BY DEF FreeList
<1>2. /\ <<k>> \o q \in Seq(Nat) /\ Injective(<<k>> \o q)
      /\ Elements(<<k>> \o q) = Elements(q) \cup {k}
  BY <1>1, PushOnList DEF FreeList
<1>3. QED
  BY <1>1, <1>2 DEF FreeList

\* A step leaves the slabs alone whose variables it does not write.
LEMMA OtherSlab ==
  ASSUME NEW t \in Slabs, class'[t] = class[t], inuse'[t] = inuse[t], free'[t] = free[t],
         TypeOK, \A j \in Nat : Held(t, j)' <=> Held(t, j)
  PROVE  /\ Kind(t)' = Kind(t)
         /\ class[t] # Nil /\ SlotsOf(t) => SlotsOf(t)'
<1>1. Kind(t)' = Kind(t)
  BY DEF Kind
<1>2. ASSUME class[t] # Nil, SlotsOf(t) PROVE SlotsOf(t)'
  <2>1. Capacity[class[t]] \in Nat
    BY <1>2, AllocAssumption DEF TypeOK
  <2>2. LiveIn(t)' = LiveIn(t)
    BY <2>1 DEF LiveIn, Held
  <2>3. QED
    BY <1>2, <2>2 DEF SlotsOf
<1>3. QED
  BY <1>1, <1>2

LEMMA OtherBlock ==
  ASSUME NEW b \in Blocks, pages'[b] = pages[b], PagesOf(b),
         \A p \in Pages : class'[<<b, p>>] = class[<<b, p>>]
  PROVE  PagesOf(b)'
  BY DEF PagesOf

\* A program that stopped stays as it is.
LEMMA StopInv ==
  ASSUME IInv, NEW how \in {"crash", "no page"}, Stop(how)
  PROVE  IInv'
<1>1. TypeOK'
  BY DEF IInv, TypeOK, Stop
<1>2. HeldFounded'
  BY DEF IInv, HeldFounded, Held, Stop
<1>3. status' # "running" /\ status' # "no slot"
  BY DEF Stop
<1>4. QED
  BY <1>1, <1>2, <1>3 DEF IInv

\* An operation inside one slab, which moves it to the list it then belongs to.
LEMMA SlabStep ==
  ASSUME IInv, status = "running", NEW s \in Slabs, class[s] # Nil,
         UNCHANGED <<exists, pages, blocks, class, status>>,
         free' \in [Slabs -> Seq(Nat)], inuse' \in [Slabs -> Nat], HeldFounded', SlotsOf(s)',
         \A t \in Slabs \ {s} : /\ free'[t] = free[t] /\ inuse'[t] = inuse[t]
                                /\ \A j \in Nat : Held(t, j)' <=> Held(t, j),
         NEW from \in SlabLists, from = Kind(s), NEW to \in SlabLists, to = Kind(s)',
         slabs' = IF from = to THEN slabs ELSE Move(slabs, from, to, s)
  PROVE  IInv'
<1>1. TypeOK /\ HeldFounded /\ Sound
  BY DEF IInv
<1>2. \A t \in Slabs \ {s} : Kind(t)' = Kind(t) /\ (class[t] # Nil /\ SlotsOf(t) => SlotsOf(t)')
  BY <1>1, OtherSlab
<1>3. Linked(slabs, SlabLists, Slabs, Kinds)'
  <2>1. Kinds'[s] = to /\ Kinds[s] = from /\ \A t \in Slabs \ {s} : Kinds'[t] = Kinds[t]
    BY <1>2 DEF Kinds
  <2>2. CASE from = to
    <3>1. Kinds' = Kinds
      BY <2>1, <2>2 DEF Kinds
    <3>2. QED
      BY <3>1, <2>2, <1>1 DEF Sound
  <2>3. CASE from # to
    <3>1. Kinds \in [Slabs -> SlabLists \cup {<<Nil, "none">>}]
      BY <1>1 DEF Kinds, Kind, SlabLists, TypeOK
    <3>2. <<Nil, "none">> \notin SlabLists /\ Nil \notin Slabs
      BY AllocAssumption DEF SlabLists
    <3>3. Linked(slabs', SlabLists, Slabs, Kinds')
      BY <2>1, <2>3, <3>1, <3>2, <1>1, MoveLinked DEF Sound
    <3>4. QED
      BY <3>3
  <2>4. QED
    BY <2>2, <2>3
<1>4. Sound'
  <2>1. \A t \in Slabs : class'[t] # Nil => t[1] \in exists' /\ SlotsOf(t)'
    BY <1>1, <1>2 DEF Sound
  <2>2. \A b \in exists' : PagesOf(b)'
    BY <1>1, OtherBlock DEF Sound, TypeOK
  <2>3. QED
    BY <2>1, <2>2, <1>3 DEF Sound
<1>5. TypeOK'
  <2>1. ListsOK(slabs, SlabLists, Slabs)'
    BY <1>3 DEF Linked
  <2>2. \A x \in live' : <<x[1], x[2]>> \in Slabs /\ x[3] \in Nat
    BY DEF HeldFounded, Slabs
  <2>3. QED
    BY <2>1, <2>2, <1>1 DEF TypeOK
<1>6. QED
  BY <1>4, <1>5 DEF IInv

-----------------------------------------------------------------------------
(* Allocation. *)

LEMMA AllocPartialInv ==
  ASSUME IInv, status = "running", NEW c \in Classes, AllocPartial(c)
  PROVE  IInv'
<1>1. PICK s \in Slabs :
        /\ s = slabs.head[<<c, "partial">>]
        /\ s[1] \in exists /\ class[s] = c /\ class[s] # Nil
        /\ free[s] # <<>> /\ inuse[s] # Capacity[c]
  BY HeadServes, AllocAssumption DEF AllocPartial
<1>2. /\ Take(s, free[s])
      /\ inuse' = [inuse EXCEPT ![s] = @ + 1]
      /\ slabs' = IF FillsUp(s)
                  THEN Move(slabs, <<c, "partial">>, <<c, "full">>, s) ELSE slabs
      /\ UNCHANGED <<exists, pages, blocks, class, status>>
  BY <1>1 DEF AllocPartial
<1>3. TypeOK /\ HeldFounded /\ Sound
  BY DEF IInv
<1>4. /\ Capacity[c] \in Nat \ {0, 1} /\ LiveIn(s) \in SUBSET (1 .. Capacity[c])
      /\ LiveIn(s) = {j \in Nat : Held(s, j)}
      /\ Cardinality(LiveIn(s)) \in Nat /\ Cardinality(LiveIn(s)) <= Capacity[c]
  BY <1>1, <1>3, LiveInFinite
<1>5. SlotsOf(s) /\ free[s] \in Seq(Nat)
  BY <1>1, <1>3 DEF Sound, TypeOK
<1>6. PICK k \in Nat :
        /\ k = Head(free[s]) /\ k \in 1 .. Capacity[c] /\ k \notin LiveIn(s)
        /\ Tail(free[s]) \in Seq(Nat) /\ Injective(Tail(free[s]))
        /\ Elements(Tail(free[s])) = (1 .. Capacity[c]) \ (LiveIn(s) \cup {k})
        /\ Cardinality(LiveIn(s) \cup {k}) = Cardinality(LiveIn(s)) + 1
  <2>1. /\ Injective(free[s]) /\ Elements(free[s]) = (1 .. Capacity[c]) \ LiveIn(s)
        /\ Capacity[c] \in Nat
    BY <1>1, <1>4, <1>5 DEF SlotsOf
  <2>2. Head(free[s]) \in 1 .. Capacity[c]
    BY <2>1, <1>1, <1>4, <1>5, TakeSlot
  <2>3. Head(free[s]) \in Nat
    BY <2>1, <2>2
  <2>4. QED
    BY <2>1, <2>3, <1>1, <1>4, <1>5, TakeSlot
<1>7. live' = live \cup {<<s[1], s[2], k>>} /\ free' = [free EXCEPT ![s] = Tail(free[s])]
  BY <1>2, <1>6 DEF Take
<1>8. /\ live' \subseteq Blocks \X Pages \X Nat
      /\ \A t \in Slabs, j \in Nat : Held(t, j)' <=> Held(t, j) \/ (t = s /\ j = k)
  <2>1. live \subseteq Blocks \X Pages \X Nat
    BY <1>3 DEF HeldFounded
  <2>2. QED
    BY <2>1, <1>7, HeldAfterTake
<1>9. HeldFounded'
  BY <1>1, <1>2, <1>3, <1>6, <1>8 DEF HeldFounded
<1>10. /\ free'[s] = Tail(free[s]) /\ inuse'[s] = inuse[s] + 1
       /\ \A t \in Slabs \ {s} : free'[t] = free[t] /\ inuse'[t] = inuse[t]
  BY <1>1, <1>2, <1>3, <1>7 DEF TypeOK
<1>11. SlotsOf(s)'
  <2>1. LiveIn(s)' = LiveIn(s) \cup {k}
    <3>1. LiveIn(s)' = {j \in 1 .. Capacity[c] : Held(s, j)'}
      BY <1>1, <1>2 DEF LiveIn, Held
    <3>2. \A j \in Nat : Held(s, j)' <=> Held(s, j) \/ j = k
      BY <1>8
    <3>3. \A j \in 1 .. Capacity[c] : j \in LiveIn(s) <=> Held(s, j)
      BY <1>4
    <3>4. QED
      BY <3>1, <3>2, <3>3, <1>4, <1>6
  <2>2. QED
    BY <2>1, <1>1, <1>2, <1>5, <1>6, <1>10 DEF SlotsOf
<1>12. Kind(s) = <<c, "partial">>
  BY <1>1 DEF Kind
<1>13. Kind(s)' = <<c, IF FillsUp(s) THEN "full" ELSE "partial">>
  BY <1>1, <1>2, <1>3, <1>10 DEF Kind, FillsUp, TypeOK
<1>14. PICK from \in SlabLists, to \in SlabLists : from = Kind(s) /\ to = Kind(s)'
  BY <1>12, <1>13 DEF SlabLists
<1>15. slabs' = IF from = to THEN slabs ELSE Move(slabs, from, to, s)
  BY <1>1, <1>2, <1>12, <1>13, <1>14
<1>16. free' \in [Slabs -> Seq(Nat)] /\ inuse' \in [Slabs -> Nat]
  BY <1>2, <1>3, <1>6, <1>7 DEF TypeOK
<1>17. \A t \in Slabs \ {s} : /\ free'[t] = free[t] /\ inuse'[t] = inuse[t]
                               /\ \A j \in Nat : Held(t, j)' <=> Held(t, j)
  BY <1>8, <1>10
<1>18. class[s] # Nil /\ UNCHANGED <<exists, pages, blocks, class, status>>
  BY <1>1, <1>2
<1>19. QED
  BY <1>9, <1>11, <1>14, <1>15, <1>16, <1>17, <1>18, SlabStep

\* The first slot of a slab in a page that was free.
LEMMA NewSlabInv ==
  ASSUME IInv, status = "running", NEW c \in Classes, NEW b \in Blocks,
         NEW ps \in Seq(Pages), ps # <<>>, Injective(ps),
         Elements(ps) = {p \in Pages : class[<<b, p>>] = Nil},
         NewSlab(b, ps, c), exists' = exists \cup {b}, status' = status,
         ListsOK(blocks', BlockLists, Blocks)
  PROVE  IInv'
<1>1. TypeOK /\ HeldFounded /\ Sound /\ Capacity[c] \in Nat \ {0, 1} /\ c # Nil
  BY AllocAssumption DEF IInv
<1>2. PICK p \in Pages : /\ p = Head(ps) /\ class[<<b, p>>] = Nil
                         /\ Tail(ps) \in Seq(Pages) /\ Injective(Tail(ps))
                         /\ Elements(Tail(ps)) = Elements(ps) \ {p}
  BY TailOfList
<1>3. PICK s \in Slabs : s = <<b, p>> /\ s[1] = b /\ s[2] = p /\ class[s] = Nil
  BY <1>2 DEF Slabs
<1> DEFINE q == [k \in 1 .. Capacity[c] |-> k]
<1>4. /\ pages' = [pages EXCEPT ![b] = Tail(ps)] /\ class' = [class EXCEPT ![s] = c]
      /\ inuse' = [inuse EXCEPT ![s] = 1] /\ slabs' = Add(slabs, <<c, "partial">>, s)
      /\ free' = [free EXCEPT ![s] = Tail(q)]
      /\ live' = live \cup {<<s[1], s[2], Head(q)>>}
  BY <1>2, <1>3 DEF NewSlab, Take
<1>5. q \in Seq(Nat) /\ q # <<>> /\ Injective(q) /\ Elements(q) = 1 .. Capacity[c] /\ Head(q) = 1
  <2>1. q \in Seq(Nat) /\ Injective(q) /\ Elements(q) = 1 .. Capacity[c] /\ Len(q) = Capacity[c]
    BY <1>1, NewLists
  <2>2. q # <<>> /\ Head(q) = 1
    BY <1>1
  <2>3. QED
    BY <2>1, <2>2
<1> HIDE DEF q
<1>6. /\ Tail(q) \in Seq(Nat) /\ Injective(Tail(q))
      /\ Elements(Tail(q)) = (1 .. Capacity[c]) \ {1}
  BY <1>5, TailOfList
<1>7. /\ live' \subseteq Blocks \X Pages \X Nat
      /\ \A t \in Slabs, j \in Nat : Held(t, j)' <=> Held(t, j) \/ (t = s /\ j = 1)
  <2>1. live \subseteq Blocks \X Pages \X Nat
    BY <1>1 DEF HeldFounded
  <2>2. QED
    BY <2>1, <1>4, <1>5, HeldAfterTake
<1>8. /\ class'[s] = c /\ free'[s] = Tail(q) /\ inuse'[s] = 1
      /\ \A t \in Slabs \ {s} : /\ class'[t] = class[t] /\ free'[t] = free[t]
                                /\ inuse'[t] = inuse[t]
                                /\ \A j \in Nat : Held(t, j)' <=> Held(t, j)
  BY <1>1, <1>4, <1>7 DEF TypeOK
<1>9. \A j \in Nat : Held(s, j)' <=> j = 1
  BY <1>1, <1>3, <1>7 DEF HeldFounded
<1>10. HeldFounded'
  <2>1. ASSUME NEW t \in Slabs, NEW j \in Nat, Held(t, j)'
        PROVE  t[1] \in exists' /\ class'[t] # Nil /\ j \in 1 .. Capacity[class'[t]]
    <3>1. CASE t = s
      BY SMTT(30), <2>1, <3>1, <1>1, <1>3, <1>8, <1>9
    <3>2. CASE t # s
      BY <2>1, <3>2, <1>1, <1>8 DEF HeldFounded
    <3>3. QED
      BY <3>1, <3>2
  <2>2. QED
    BY <2>1, <1>7 DEF HeldFounded
<1>11. SlotsOf(s)'
  <2>1. LiveIn(s)' = {j \in 1 .. Capacity[c] : Held(s, j)'}
    BY <1>8 DEF LiveIn, Held
  <2>2. LiveIn(s)' = {1}
    BY <2>1, <1>1, <1>9
  <2>3. Cardinality({1}) = 1
    BY FS_Singleton
  <2>4. QED
    BY <2>2, <2>3, <1>6, <1>8 DEF SlotsOf
<1>12. \A t \in Slabs \ {s} : Kind(t)' = Kind(t) /\ (class[t] # Nil /\ SlotsOf(t) => SlotsOf(t)')
  BY <1>1, <1>8, OtherSlab
<1>13. Linked(slabs, SlabLists, Slabs, Kinds)'
  <2>1. Kind(s)' = <<c, "partial">> /\ Kind(s) = <<Nil, "none">>
    BY <1>1, <1>3, <1>8 DEF Kind
  <2>2. /\ Kinds'[s] = <<c, "partial">> /\ Kinds[s] \notin SlabLists
        /\ \A t \in Slabs \ {s} : Kinds'[t] = Kinds[t]
    BY <2>1, <1>12, AllocAssumption DEF Kinds, SlabLists
  <2>3. <<c, "partial">> \in SlabLists /\ Nil \notin Slabs
    BY AllocAssumption DEF SlabLists
  <2>4. Linked(Add(slabs, <<c, "partial">>, s), SlabLists, Slabs, Kinds')
    BY <2>2, <2>3, <1>1, AddLinked DEF Sound
  <2>5. QED
    BY <2>4, <1>4
<1>14. Sound'
  <2>1. \A t \in Slabs : class'[t] # Nil => t[1] \in exists' /\ SlotsOf(t)'
    BY <1>1, <1>3, <1>8, <1>11, <1>12 DEF Sound
  <2>2. ASSUME NEW d \in exists' PROVE PagesOf(d)'
    <3>1. CASE d = b
      <4>1. pages'[b] = Tail(ps)
        BY <1>1, <1>4 DEF TypeOK
      <4>2. \A r \in Pages : class'[<<b, r>>] = Nil <=> class[<<b, r>>] = Nil /\ r # p
        BY <1>1, <1>3, <1>8 DEF Slabs
      <4>3. QED
        BY <4>1, <4>2, <3>1, <1>2 DEF PagesOf
    <3>2. CASE d # b
      <4>1. d \in exists /\ d \in Blocks /\ pages'[d] = pages[d]
        BY <3>2, <1>1, <1>4 DEF TypeOK
      <4>2. \A r \in Pages : class'[<<d, r>>] = class[<<d, r>>]
        BY <3>2, <4>1, <1>3, <1>8 DEF Slabs
      <4>3. QED
        BY <4>1, <4>2, <1>1, OtherBlock DEF Sound
    <3>3. QED
      BY <3>1, <3>2
  <2>3. QED
    BY <2>1, <2>2, <1>13 DEF Sound
<1>15. TypeOK'
  <2>1. /\ pages' \in [Blocks -> Seq(Pages)] /\ class' \in [Slabs -> Classes \cup {Nil}]
        /\ free' \in [Slabs -> Seq(Nat)] /\ inuse' \in [Slabs -> Nat]
        /\ exists' \subseteq Blocks
    BY <1>1, <1>2, <1>4, <1>6 DEF TypeOK
  <2>2. ListsOK(slabs, SlabLists, Slabs)'
    BY <1>13 DEF Linked
  <2>3. \A x \in live' : <<x[1], x[2]>> \in Slabs /\ x[3] \in Nat
    BY <1>7 DEF Slabs
  <2>4. QED
    BY <2>1, <2>2, <2>3, <1>1 DEF TypeOK, ListsOK
<1>16. QED
  BY <1>10, <1>14, <1>15 DEF IInv

LEMMA AddOK ==
  ASSUME NEW Lists, NEW Nodes, NEW L, ListsOK(L, Lists, Nodes), NEW l \in Lists, NEW n \in Nodes
  PROVE  ListsOK(Add(L, l, n), Lists, Nodes)
<1>1. L.head[l] \in Nodes \cup {Nil}
  BY DEF ListsOK
<1>2. Set(L.prev, L.head[l], n) \in [Nodes -> Nodes \cup {Nil}]
  BY <1>1 DEF Set, ListsOK
<1>3. QED
  BY <1>1, <1>2 DEF Add, ListsOK

LEMMA RemoveOK ==
  ASSUME NEW Lists, NEW Nodes, NEW L, ListsOK(L, Lists, Nodes), NEW l \in Lists, NEW n \in Nodes
  PROVE  ListsOK(Remove(L, l, n), Lists, Nodes)
<1>1. L.next[n] \in Nodes \cup {Nil} /\ L.prev[n] \in Nodes \cup {Nil}
  BY DEF ListsOK
<1>2. /\ Set(L.next, L.prev[n], L.next[n]) \in [Nodes -> Nodes \cup {Nil}]
      /\ Set(L.prev, L.next[n], L.prev[n]) \in [Nodes -> Nodes \cup {Nil}]
  BY <1>1 DEF Set, ListsOK
<1>3. QED
  BY <1>1, <1>2 DEF Remove, ListsOK

LEMMA AllocPageInv ==
  ASSUME IInv, status = "running", NEW c \in Classes, AllocPage(c)
  PROVE  IInv'
<1> DEFINE b == blocks.head["partial"]
           full == Len(pages[b]) = 1
           left == Remove(blocks, "partial", b)
<1>1. b \in Blocks /\ ListsOK(blocks, BlockLists, Blocks) /\ pages[b] \in Seq(Pages)
  BY DEF AllocPage, IInv, TypeOK, ListsOK, BlockLists
<1>2. CASE Stop("crash") \/ Stop("no page")
  BY <1>2, StopInv
<1>3. CASE ~(Stop("crash") \/ Stop("no page"))
  <2>1. /\ b \in exists /\ pages[b] # <<>> /\ NewSlab(b, pages[b], c)
        /\ blocks' = IF full THEN Add(left, "full", b) ELSE blocks
        /\ UNCHANGED <<exists, status>>
    BY <1>3 DEF AllocPage
  <2>2. ListsOK(blocks', BlockLists, Blocks)
    BY <2>1, <1>1, AddOK, RemoveOK DEF BlockLists
  <2>3. PagesOf(b)
    BY <2>1 DEF IInv, Sound
  <2>4. exists' = exists \cup {b} /\ status' = status
    BY <2>1
  <2> HIDE DEF b
  <2>5. PICK d \in Blocks, ps \in Seq(Pages) : d = b /\ ps = pages[b]
    BY <1>1
  <2>6. /\ ps # <<>> /\ Injective(ps) /\ Elements(ps) = {p \in Pages : class[<<d, p>>] = Nil}
        /\ NewSlab(d, ps, c) /\ exists' = exists \cup {d}
    BY <2>1, <2>3, <2>4, <2>5 DEF PagesOf
  <2>7. QED
    BY <2>2, <2>4, <2>6, NewSlabInv
<1>4. QED
  BY <1>2, <1>3

LEMMA AllocBlockInv ==
  ASSUME IInv, status = "running", NEW c \in Classes, NEW b \in Blocks, AllocBlock(c, b)
  PROVE  IInv'
<1>1. TypeOK /\ Sound
  BY DEF IInv
<1>2. Elements(FreshPages) = {p \in Pages : class[<<b, p>>] = Nil}
  <2>1. ASSUME NEW p \in Pages PROVE class[<<b, p>>] = Nil
    <3>1. <<b, p>> \in Slabs /\ <<b, p>>[1] = b /\ b \notin exists
      BY DEF Slabs, AllocBlock
    <3>2. QED
      BY <3>1, <1>1 DEF Sound
  <2>2. QED
    BY <2>1, NewPages
<1>3. ListsOK(blocks', BlockLists, Blocks)
  BY <1>1, AddOK DEF AllocBlock, TypeOK, BlockLists
<1>4. QED
  BY <1>2, <1>3, NewPages, NewSlabInv DEF AllocBlock

-----------------------------------------------------------------------------
(* Freeing. *)

\* The slot and the slab of a pointer.
LEMMA FreedSlot ==
  ASSUME IInv, NEW x \in live
  PROVE  \E s \in Slabs, k \in Nat :
           /\ s = <<x[1], x[2]>> /\ s[1] = x[1] /\ s[2] = x[2] /\ k = x[3]
           /\ x = <<s[1], s[2], k>> /\ Held(s, k)
<1>1. x = <<x[1], x[2], x[3]>> /\ x[1] \in Blocks /\ x[2] \in Pages /\ x[3] \in Nat
  <2>1. x \in Blocks \X Pages \X Nat
    BY DEF IInv, HeldFounded
  <2>2. QED
    BY <2>1
<1>2. <<x[1], x[2]>> \in Slabs /\ Held(<<x[1], x[2]>>, x[3])
  BY <1>1 DEF Held, Slabs
<1>3. QED
  BY <1>1, <1>2

\* What is known of a slot a client holds.
LEMMA HeldSlot ==
  ASSUME IInv, status = "running", NEW s \in Slabs, NEW k \in Nat, Held(s, k)
  PROVE  /\ class[s] \in Classes /\ class[s] # Nil
         /\ s[1] \in exists /\ SlotsOf(s) /\ free[s] \in Seq(Nat)
         /\ Capacity[class[s]] \in Nat \ {0, 1}
         /\ k \in LiveIn(s) /\ LiveIn(s) \in SUBSET (1 .. Capacity[class[s]])
         /\ LiveIn(s) = {j \in Nat : Held(s, j)} /\ IsFiniteSet(LiveIn(s))
         /\ inuse[s] \in 1 .. Capacity[class[s]]
<1>1. TypeOK /\ HeldFounded /\ Sound
  BY DEF IInv
<1>2. class[s] # Nil /\ s[1] \in exists
  BY <1>1 DEF HeldFounded
<1>3. /\ class[s] \in Classes /\ Capacity[class[s]] \in Nat \ {0, 1}
      /\ LiveIn(s) = {j \in Nat : Held(s, j)}
      /\ LiveIn(s) \in SUBSET (1 .. Capacity[class[s]])
      /\ IsFiniteSet(LiveIn(s)) /\ Cardinality(LiveIn(s)) \in Nat
      /\ Cardinality(LiveIn(s)) <= Capacity[class[s]]
  BY <1>1, <1>2, LiveInFinite
<1>4. SlotsOf(s) /\ free[s] \in Seq(Nat)
  BY <1>1, <1>2 DEF Sound, TypeOK
<1>5. k \in LiveIn(s)
  BY <1>3
<1>6. Cardinality(LiveIn(s)) # 0
  BY <1>3, <1>5, FS_EmptySet
<1>7. inuse[s] \in 1 .. Capacity[class[s]]
  BY <1>3, <1>4, <1>6 DEF SlotsOf
<1>8. QED
  BY <1>2, <1>3, <1>4, <1>5, <1>7

\* A slot returns to a slab that stays.
LEMMA PutBackInv ==
  ASSUME IInv, status = "running", NEW s \in Slabs, NEW k \in Nat, Held(s, k),
         live' = live \ {<<s[1], s[2], k>>},
         free' = [free EXCEPT ![s] = <<k>> \o @], inuse' = [inuse EXCEPT ![s] = @ - 1],
         UNCHANGED <<exists, pages, blocks, class, status>>, inuse[s] # 1,
         slabs' = IF inuse[s] = Capacity[class[s]]
                  THEN Move(slabs, <<class[s], "full">>, <<class[s], "partial">>, s)
                  ELSE slabs
  PROVE  IInv'
<1> DEFINE cap == Capacity[class[s]]
<1>1. TypeOK /\ HeldFounded
  BY DEF IInv
<1>2. /\ class[s] \in Classes /\ class[s] # Nil /\ SlotsOf(s) /\ free[s] \in Seq(Nat)
      /\ cap \in Nat \ {0, 1} /\ k \in LiveIn(s) /\ LiveIn(s) \in SUBSET (1 .. cap)
      /\ LiveIn(s) = {j \in Nat : Held(s, j)} /\ IsFiniteSet(LiveIn(s))
      /\ inuse[s] \in 1 .. cap
  BY HeldSlot
<1>3. /\ <<k>> \o free[s] \in Seq(Nat) /\ FreeList(<<k>> \o free[s], cap, LiveIn(s) \ {k})
      /\ Cardinality(LiveIn(s) \ {k}) = Cardinality(LiveIn(s)) - 1
  <2>1. FreeList(free[s], cap, LiveIn(s)) /\ cap \in Nat
    BY <1>2 DEF SlotsOf, FreeList
  <2>2. Cardinality(LiveIn(s) \ {k}) = Cardinality(LiveIn(s)) - 1
    BY <1>2, FS_RemoveElement
  <2>3. QED
    BY <2>1, <2>2, <1>2, GiveSlot
<1>4. /\ live' \subseteq Blocks \X Pages \X Nat
      /\ \A t \in Slabs, j \in Nat : Held(t, j)' <=> Held(t, j) /\ ~(t = s /\ j = k)
  <2>1. live \subseteq Blocks \X Pages \X Nat
    BY <1>1 DEF HeldFounded
  <2>2. QED
    BY <2>1, HeldAfterFree
<1>5. HeldFounded'
  BY <1>1, <1>4 DEF HeldFounded
<1>6. /\ free'[s] = <<k>> \o free[s] /\ inuse'[s] = inuse[s] - 1
      /\ \A t \in Slabs \ {s} : /\ free'[t] = free[t] /\ inuse'[t] = inuse[t]
                                /\ \A j \in Nat : Held(t, j)' <=> Held(t, j)
  BY <1>1, <1>4 DEF TypeOK
<1>7. SlotsOf(s)'
  <2>1. LiveIn(s)' = LiveIn(s) \ {k}
    <3>1. LiveIn(s)' = {j \in 1 .. cap : Held(s, j)'}
      BY DEF LiveIn, Held
    <3>2. \A j \in Nat : Held(s, j)' <=> Held(s, j) /\ j # k
      BY <1>4
    <3>3. \A j \in 1 .. cap : j \in LiveIn(s) <=> Held(s, j)
      BY <1>2
    <3>4. QED
      BY <3>1, <3>2, <3>3, <1>2
  <2>2. QED
    BY <2>1, <1>2, <1>3, <1>6 DEF SlotsOf, FreeList
<1>8. Kind(s) = <<class[s], IF inuse[s] = cap THEN "full" ELSE "partial">>
  BY <1>2 DEF Kind
<1>9. Kind(s)' = <<class[s], "partial">>
  BY <1>2, <1>6 DEF Kind
<1>10. PICK from \in SlabLists, to \in SlabLists : from = Kind(s) /\ to = Kind(s)'
  BY <1>2, <1>8, <1>9 DEF SlabLists
<1>11. slabs' = IF from = to THEN slabs ELSE Move(slabs, from, to, s)
  BY <1>8, <1>9, <1>10
<1>12. free' \in [Slabs -> Seq(Nat)] /\ inuse' \in [Slabs -> Nat]
  BY <1>1, <1>2, <1>3 DEF TypeOK
<1>13. QED
  BY <1>2, <1>5, <1>6, <1>7, <1>10, <1>11, <1>12, SlabStep

LEMMA FreeOfFullInv ==
  ASSUME IInv, status = "running", NEW x \in live, FreeOfFull(x)
  PROVE  IInv'
<1>1. PICK s \in Slabs, k \in Nat :
        s = <<x[1], x[2]>> /\ k = x[3] /\ x = <<s[1], s[2], k>> /\ Held(s, k)
  BY FreedSlot
<1>2. inuse[s] # 1
  BY <1>1, HeldSlot DEF FreeOfFull
<1>3. /\ live' = live \ {<<s[1], s[2], k>>}
      /\ free' = [free EXCEPT ![s] = <<k>> \o @] /\ inuse' = [inuse EXCEPT ![s] = @ - 1]
      /\ UNCHANGED <<exists, pages, blocks, class, status>>
      /\ inuse[s] = Capacity[class[s]]
      /\ slabs' = Move(slabs, <<class[s], "full">>, <<class[s], "partial">>, s)
  BY <1>1 DEF FreeOfFull, PutBack
<1>4. QED
  BY <1>1, <1>2, <1>3, PutBackInv

LEMMA FreeOfPartialInv ==
  ASSUME IInv, status = "running", NEW x \in live, FreeOfPartial(x)
  PROVE  IInv'
<1>1. PICK s \in Slabs, k \in Nat :
        s = <<x[1], x[2]>> /\ k = x[3] /\ x = <<s[1], s[2], k>> /\ Held(s, k)
  BY FreedSlot
<1>2. inuse[s] # 1 /\ inuse[s] # Capacity[class[s]]
  BY <1>1, HeldSlot DEF FreeOfPartial
<1>3. /\ live' = live \ {<<s[1], s[2], k>>}
      /\ free' = [free EXCEPT ![s] = <<k>> \o @] /\ inuse' = [inuse EXCEPT ![s] = @ - 1]
      /\ UNCHANGED <<exists, pages, blocks, class, slabs, status>>
  BY <1>1 DEF FreeOfPartial, PutBack
<1>4. QED
  BY <1>1, <1>2, <1>3, PutBackInv

\* The last slot: the page is given back, and with the last page the block.
LEMMA FreeOfLastInv ==
  ASSUME IInv, status = "running", NEW x \in live, FreeOfLast(x)
  PROVE  IInv'
<1>0. PICK s \in Slabs, k \in Nat :
        /\ s = <<x[1], x[2]>> /\ k = x[3] /\ s[1] = x[1] /\ s[2] = x[2]
        /\ x = <<s[1], s[2], k>> /\ Held(s, k)
  BY FreedSlot
<1>1. /\ class[s] \in Classes /\ class[s] # Nil /\ s[1] \in exists /\ SlotsOf(s)
      /\ Capacity[class[s]] \in Nat \ {0, 1}
      /\ k \in LiveIn(s) /\ LiveIn(s) \in SUBSET (1 .. Capacity[class[s]])
      /\ LiveIn(s) = {j \in Nat : Held(s, j)}
  BY <1>0, HeldSlot
<1>2. PICK b \in Blocks, p \in Pages : b = x[1] /\ p = x[2] /\ s = <<b, p>> /\ b \in exists
  BY <1>0, <1>1 DEF Slabs
<1>3. TypeOK /\ HeldFounded /\ Sound
  BY DEF IInv
<1>4. /\ inuse[s] = 1 /\ inuse[s] # Capacity[class[s]]
      /\ free' = [free EXCEPT ![s] = <<>>] /\ inuse' = [inuse EXCEPT ![s] = @ - 1]
      /\ live' = live \ {x} /\ slabs' = Remove(slabs, <<class[s], "partial">>, s)
      /\ class' = [class EXCEPT ![s] = Nil]
      /\ IF ~LastPage(b)
         THEN /\ pages' = [pages EXCEPT ![b] = <<p>> \o @]
              /\ UNCHANGED <<exists, blocks, status>>
         ELSE /\ exists' = exists \ {b}
              /\ pages' = [pages EXCEPT ![b] = <<>>]
              /\ blocks' = Remove(blocks, "partial", b)
              /\ status' = IF Neighbours(blocks, b) \subseteq exists THEN status ELSE "crash"
  BY <1>0, <1>2 DEF FreeOfLast
<1>5. /\ live' \subseteq Blocks \X Pages \X Nat
      /\ \A t \in Slabs, j \in Nat : Held(t, j)' <=> Held(t, j) /\ ~(t = s /\ j = k)
  <2>1. live \subseteq Blocks \X Pages \X Nat
    BY <1>3 DEF HeldFounded
  <2>2. QED
    BY <2>1, <1>0, <1>4, HeldAfterFree
<1>6. /\ class'[s] = Nil
      /\ \A t \in Slabs \ {s} : /\ class'[t] = class[t] /\ free'[t] = free[t]
                                /\ inuse'[t] = inuse[t]
                                /\ \A j \in Nat : Held(t, j)' <=> Held(t, j)
  BY <1>3, <1>4, <1>5 DEF TypeOK
\* The client held no other slot of the slab.
<1>7. \A j \in Nat : ~Held(s, j)'
  <2>1. Cardinality(LiveIn(s)) = 1 /\ IsFiniteSet(LiveIn(s))
    BY <1>1, <1>3, <1>4, LiveInFinite DEF SlotsOf
  <2>2. \E e : LiveIn(s) = {e}
    BY <2>1, FS_Singleton
  <2>3. \A j \in Nat : Held(s, j) => j = k
    BY <2>2, <1>1
  <2>4. QED
    BY <2>3, <1>5
\* A block that is destroyed has no other slab.
<1>8. LastPage(b) => \A r \in Pages \ {p} : class[<<b, r>>] = Nil
  <2> DEFINE U == {r \in Pages : class[<<b, r>>] # Nil}
  <2>1. IsFiniteSet(U) /\ p \in U
    <3>1. IsFiniteSet(Pages)
      BY AllocAssumption, FS_Interval DEF Pages
    <3>2. QED
      BY <3>1, <1>1, <1>2, FS_Subset
  <2>2. ASSUME LastPage(b) PROVE U \ {p} = {}
    <3>1. Cardinality(U) = 1
      BY <2>2 DEF LastPage, InUse
    <3>2. IsFiniteSet(U \ {p}) /\ Cardinality(U \ {p}) = Cardinality(U) - 1
      BY <2>1, FS_RemoveElement
    <3>3. Cardinality(U \ {p}) = 0
      BY <3>1, <3>2
    <3>4. QED
      BY <3>2, <3>3, FS_EmptySet
  <2>3. QED
    BY <2>2
<1>9. \A t \in Slabs : class'[t] # Nil => t[1] \in exists'
  <2>1. ASSUME NEW t \in Slabs, class'[t] # Nil PROVE t[1] \in exists'
    <3>1. t # s /\ class[t] # Nil /\ t[1] \in exists /\ t = <<t[1], t[2]>> /\ t[2] \in Pages
      BY <2>1, <1>3, <1>6 DEF Sound, Slabs
    <3>2. CASE LastPage(b)
      BY <3>1, <3>2, <1>2, <1>4, <1>8
    <3>3. CASE ~LastPage(b)
      BY <3>1, <3>3, <1>4
    <3>4. QED
      BY <3>2, <3>3
  <2>2. QED
    BY <2>1
<1>10. HeldFounded'
  <2>1. ASSUME NEW t \in Slabs, NEW j \in Nat, Held(t, j)'
        PROVE  t[1] \in exists' /\ class'[t] # Nil /\ j \in 1 .. Capacity[class'[t]]
    <3>1. t # s /\ Held(t, j)
      BY <2>1, <1>6, <1>7
    <3>2. class'[t] # Nil /\ j \in 1 .. Capacity[class'[t]]
      BY <3>1, <1>3, <1>6 DEF HeldFounded
    <3>3. QED
      BY <3>2, <1>9
  <2>2. QED
    BY <2>1, <1>5 DEF HeldFounded
<1>11. \A t \in Slabs \ {s} : Kind(t)' = Kind(t) /\ (class[t] # Nil /\ SlotsOf(t) => SlotsOf(t)')
  BY <1>3, <1>6, OtherSlab
<1>12. Linked(slabs, SlabLists, Slabs, Kinds)'
  <2>1. Kind(s) = <<class[s], "partial">> /\ Kind(s)' = <<Nil, "none">>
    BY <1>1, <1>4, <1>6 DEF Kind
  <2>2. /\ Kinds[s] = <<class[s], "partial">> /\ Kinds'[s] \notin SlabLists
        /\ \A t \in Slabs \ {s} : Kinds'[t] = Kinds[t]
    BY <2>1, <1>11, AllocAssumption DEF Kinds, SlabLists
  <2>3. <<class[s], "partial">> \in SlabLists /\ Nil \notin Slabs
    BY <1>1, AllocAssumption DEF SlabLists
  <2>4. Linked(Remove(slabs, <<class[s], "partial">>, s), SlabLists, Slabs, Kinds')
    BY <2>2, <2>3, <1>3, RemoveLinked DEF Sound
  <2>5. QED
    BY <2>4, <1>4
<1>13. ASSUME NEW d \in exists' PROVE PagesOf(d)'
  <2>1. CASE d = b
    <3>1. ~LastPage(b) /\ pages'[b] = <<p>> \o pages[b]
      BY <2>1, <1>3, <1>4, <1>13 DEF TypeOK
    <3>2. pages[b] \in Seq(Pages) /\ Injective(pages[b]) /\ p \notin Elements(pages[b])
          /\ Elements(pages[b]) = {r \in Pages : class[<<b, r>>] = Nil}
      BY SMTT(30), <1>1, <1>2, <1>3 DEF Sound, PagesOf, TypeOK
    <3>3. \A r \in Pages : class'[<<b, r>>] = Nil <=> class[<<b, r>>] = Nil \/ r = p
      BY <1>2, <1>6 DEF Slabs
    <3>4. Injective(<<p>> \o pages[b]) /\ Elements(<<p>> \o pages[b]) = Elements(pages[b]) \cup {p}
      BY <3>2, PushOnList
    <3>5. QED
      BY <3>1, <3>2, <3>3, <3>4, <2>1 DEF PagesOf
  <2>2. CASE d # b
    <3>1. d \in exists /\ d \in Blocks /\ pages'[d] = pages[d]
      BY <2>2, <1>3, <1>4, <1>13 DEF TypeOK
    <3>2. \A r \in Pages : class'[<<d, r>>] = class[<<d, r>>]
      BY <2>2, <3>1, <1>2, <1>6 DEF Slabs
    <3>3. QED
      BY <3>1, <3>2, <1>3, OtherBlock DEF Sound
  <2>3. QED
    BY <2>1, <2>2
<1>14. Sound'
  BY <1>3, <1>6, <1>9, <1>11, <1>12, <1>13 DEF Sound
<1>15. TypeOK'
  <2>1. /\ class' \in [Slabs -> Classes \cup {Nil}] /\ inuse' \in [Slabs -> Nat]
        /\ free' \in [Slabs -> Seq(Nat)]
    BY <1>3, <1>4 DEF TypeOK
  <2>2. exists' \subseteq Blocks /\ status' \in {"running", "crash"}
    BY <1>3, <1>4 DEF TypeOK
  <2>3. pages' \in [Blocks -> Seq(Pages)]
    <3>1. pages[b] \in Seq(Pages) /\ <<p>> \o pages[b] \in Seq(Pages) /\ <<>> \in Seq(Pages)
      BY <1>3 DEF TypeOK
    <3>2. QED
      BY <3>1, <1>3, <1>4 DEF TypeOK
  <2>4. ListsOK(blocks', BlockLists, Blocks)
    <3>1. ListsOK(blocks, BlockLists, Blocks) /\ "partial" \in BlockLists
      BY <1>3 DEF TypeOK, BlockLists
    <3>2. ListsOK(Remove(blocks, "partial", b), BlockLists, Blocks)
      BY <3>1, RemoveOK
    <3>3. QED
      BY <3>1, <3>2, <1>4
  <2>5. ListsOK(slabs, SlabLists, Slabs)'
    BY <1>12 DEF Linked
  <2>6. \A x1 \in live' : <<x1[1], x1[2]>> \in Slabs /\ x1[3] \in Nat
    BY <1>5 DEF Slabs
  <2>7. QED
    BY <2>1, <2>2, <2>3, <2>4, <2>5, <2>6 DEF TypeOK, ListsOK
<1>16. status' # "no slot"
  BY <1>4
<1>17. QED
  BY <1>10, <1>14, <1>15, <1>16 DEF IInv

LEMMA DelInv == ASSUME IInv, Del PROVE IInv'
<1>1. CASE Stop("crash")
  BY <1>1, StopInv
<1>2. CASE ~Stop("crash")
  <2>1. /\ exists' \subseteq exists /\ live' = {} /\ status' = "deleted"
        /\ UNCHANGED <<pages, blocks, class, free, inuse, slabs>>
    BY <1>2 DEF Del
  <2>2. TypeOK'
    BY <2>1 DEF IInv, TypeOK
  <2>3. HeldFounded'
    BY <2>1 DEF HeldFounded, Held
  <2>4. QED
    BY <2>1, <2>2, <2>3 DEF IInv
<1>3. QED
  BY <1>1, <1>2

-----------------------------------------------------------------------------
LEMMA InitInv == ASSUME Init PROVE IInv
<1>1. ASSUME NEW Lists, NEW Nodes
      PROVE  LET L == Empty(Lists, Nodes)
             IN  /\ ListsOK(L, Lists, Nodes)
                 /\ \A l \in Lists : L.head[l] = Nil
                 /\ \A n \in Nodes : L.next[n] = Nil /\ L.prev[n] = Nil
  BY DEF Empty, ListsOK
<1>2. ListsOK(blocks, BlockLists, Blocks)
  BY <1>1 DEF Init
<1>3. Linked(slabs, SlabLists, Slabs, Kinds)
  BY <1>1 DEF Init, Linked
<1>4. TypeOK
  BY <1>2, <1>3 DEF Init, TypeOK, Linked
<1>5. HeldFounded /\ Sound
  BY <1>3 DEF Init, HeldFounded, Held, Sound
<1>6. QED
  BY <1>4, <1>5 DEF IInv, Init

LEMMA NextInv == ASSUME IInv, [Next]_vars PROVE IInv'
<1>1. ASSUME status = "running", NEW c \in Classes, Alloc(c) PROVE IInv'
  BY <1>1, AllocPartialInv, AllocPageInv, AllocBlockInv DEF Alloc
<1>2. ASSUME status = "running", NEW x \in live, Free(x) PROVE IInv'
  BY <1>2, FreeOfFullInv, FreeOfPartialInv, FreeOfLastInv DEF Free
<1>3. CASE Del
  BY <1>3, DelInv
<1>4. CASE UNCHANGED vars
  <2>1. TypeOK' /\ HeldFounded'
    BY <1>4 DEF vars, IInv, TypeOK, HeldFounded, Held
  <2>2. Kinds' = Kinds /\ \A s \in Slabs : SlotsOf(s) => SlotsOf(s)'
    BY <1>4 DEF vars, Kinds, Kind, SlotsOf, LiveIn
  <2>3. \A b : PagesOf(b) => PagesOf(b)'
    BY <1>4 DEF vars, PagesOf
  <2>4. Sound => Sound'
    BY <1>4, <2>2, <2>3 DEF vars, Sound
  <2>5. QED
    BY <1>4, <2>1, <2>4 DEF vars, IInv
<1>5. QED
  BY <1>1, <1>2, <1>3, <1>4 DEF Next

\* The inductive invariant holds in every reachable state.
THEOREM Invariance == Spec => []IInv
<1>1. Init => IInv
  BY InitInv
<1>2. IInv /\ [Next]_vars => IInv'
  BY NextInv
<1>3. QED
  BY <1>1, <1>2, PTL DEF Spec

\* The variables of the allocator keep their types.
THEOREM TypeCorrect == Spec => []TypeOK
  BY Invariance, PTL DEF IInv

\* prosAllocator_alloc hands out no slot twice and loses none: a slot of a slab
\* in use is in its free list, once, or held by a client, and slab->inuse
\* counts the latter.
THEOREM SlotsAreAccounted == Spec => []SlotsAccounted
<1>1. IInv => SlotsAccounted
  BY DEF IInv, Sound, SlotsOf, SlotsAccounted
<1>2. QED
  BY <1>1, Invariance, PTL

\* While a slot is held its block exists and its page is no free page, and the
\* pages of a block are accounted for, over every destruction and reuse of a
\* block.
THEOREM PagesAreAccounted == Spec => []PagesAccounted
<1>1. IInv => PagesAccounted
  <2>1. ASSUME IInv, NEW x \in live
        PROVE  /\ x[1] \in exists /\ class[<<x[1], x[2]>>] # Nil
               /\ x[3] \in LiveIn(<<x[1], x[2]>>)
    <3>1. x \in Blocks \X Pages \X Nat
      BY <2>1 DEF IInv, HeldFounded
    <3>2. PICK s \in Slabs : s = <<x[1], x[2]>> /\ s[1] = x[1] /\ s[2] = x[2]
      <4>1. x[1] \in Blocks /\ x[2] \in Pages
        BY <3>1
      <4>2. <<x[1], x[2]>> \in Slabs
        BY <4>1 DEF Slabs
      <4>3. QED
        BY <4>2
    <3>3. Held(s, x[3]) /\ x[3] \in Nat
      BY <2>1, <3>1, <3>2 DEF Held
    <3>4. QED
      BY <2>1, <3>2, <3>3 DEF IInv, HeldFounded, LiveIn, Held
  <2>2. QED
    BY <2>1 DEF IInv, Sound, PagesOf, PagesAccounted
<1>2. QED
  BY <1>1, Invariance, PTL

\* What a class finds at the head of its list has a free slot and is of that
\* class, although slabs get lost from the lists: the assertion in
\* allocatorBlockSlabAlloc holds.
THEOREM PartialSlabsServe == Spec => []PartialServes
<1>1. IInv => PartialServes
  BY HeadServes DEF IInv, PartialServes
<1>2. QED
  BY <1>1, Invariance, PTL
=============================================================================
