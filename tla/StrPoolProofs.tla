--------------------------- MODULE StrPoolProofs ---------------------------
(***************************************************************************)
(* Proofs about StrPool for every set of strings, every hash and every     *)
(* initial capacity.                                                       *)
(***************************************************************************)
EXTENDS StrPool, Integers, FiniteSetTheorems, TLAPS

SameKey(e, g) == e.hash = g.hash /\ e.size = g.size

\* The numbers of a growth: at most one entry per scanned slot has been moved,
\* so the three times larger array keeps a free slot.
Bounds ==
  /\ pc \in {"scan", "place"} => size = 3 * olds /\ i <= olds /\ count <= i
  /\ pc \notin {"scan", "place"} => olds = 0
  /\ pc = "place" => i < olds /\ oldp[i].ptr # 0
  /\ pc = "probe" => count < size
  /\ InCall => str \in Strs
  /\ ~InCall => str = NoStr

\* What the running probe has walked over.
Walked ==
  /\ pc = "place" => \A q \in 0 .. size - 1 :
       OnPath(q, Home(oldp[i].hash, size), pos) => entries[q].ptr # 0
  /\ pc = "probe" => \A q \in 0 .. size - 1 :
       OnPath(q, Home(HashOf[str], size), pos) =>
         entries[q].ptr # 0 /\ ~Matches(entries[q], str)

\* The entries still to be moved have keys of their own.
PendingFresh ==
  /\ \A k, l \in Pending : SameKey(oldp[k], oldp[l]) => k = l
  /\ \A k \in Used(entries), l \in Pending : ~SameKey(entries[k], oldp[l])

\* Every pointer in a slot names an allocation that holds the slot's string.
Described ==
  /\ \A k \in Used(entries) : /\ entries[k].ptr \in 1 .. Len(mem)
                              /\ Matches(entries[k], mem[entries[k].ptr])
  /\ \A k \in Pending : /\ oldp[k].ptr \in 1 .. Len(mem)
                        /\ Matches(oldp[k], mem[oldp[k].ptr])

CountInv == count = Cardinality(Used(entries))

IInv == /\ TypeOK /\ Bounds /\ CountInv /\ ChainUnbroken /\ Walked
        /\ NoDuplicate /\ PendingFresh /\ Described

-----------------------------------------------------------------------------
LEMMA HomeInTable == ASSUME NEW n \in Nat \ {0}, NEW h \in Nat
                     PROVE  Home(h, n) \in 0 .. n - 1
  BY DEF Home

LEMMA NextSlot == ASSUME size \in Nat \ {0}, NEW p \in 0 .. size - 1
                  PROVE  NextPos(p) = IF p + 1 = size THEN 0 ELSE p + 1
  BY DEF NextPos

\* Moving the probe on adds the slot it leaves to the path behind it, unless
\* it comes back to its start; then the path behind it was the whole table.
LEMMA PathGrows ==
  ASSUME size \in Nat \ {0}, NEW a \in 0 .. size - 1,
         NEW p \in 0 .. size - 1, NEW q \in 0 .. size - 1
  PROVE  /\ NextPos(p) # a /\ OnPath(q, a, NextPos(p)) => OnPath(q, a, p) \/ q = p
         /\ NextPos(p) = a => OnPath(q, a, p) \/ q = p
  BY NextSlot DEF OnPath

\* Nothing lies on a path that has not moved.
LEMMA PathEmpty == ASSUME NEW a \in Nat, NEW q \in Nat PROVE ~OnPath(q, a, a)
  BY DEF OnPath

\* Of two slots of a table one is on the path to the other.
LEMMA PathTotal ==
  ASSUME NEW a \in Nat, NEW p \in Nat, NEW q \in Nat, p # q
  PROVE  OnPath(p, a, q) \/ OnPath(q, a, p)
  BY DEF OnPath

\* The table is finite, and it has a free slot as long as count is below size.
LEMMA UsedFinite ==
  ASSUME TypeOK
  PROVE  /\ IsFiniteSet(Used(entries)) /\ Used(entries) \subseteq 0 .. size - 1
         /\ Cardinality(Used(entries)) <= size
         /\ Cardinality(Used(entries)) < size => \E k \in DOMAIN entries : entries[k].ptr = 0
<1>1. DOMAIN entries = 0 .. size - 1 /\ size \in Nat \ {0}
  BY DEF TypeOK
<1>2. IsFiniteSet(0 .. size - 1) /\ Cardinality(0 .. size - 1) = size
  BY <1>1, FS_Interval
<1>3. Used(entries) \subseteq 0 .. size - 1
  BY <1>1 DEF Used
<1>4. IsFiniteSet(Used(entries)) /\ Cardinality(Used(entries)) <= size
  BY <1>2, <1>3, FS_Subset
<1>5. ASSUME Cardinality(Used(entries)) < size
      PROVE  \E k \in DOMAIN entries : entries[k].ptr = 0
  <2>1. Used(entries) # 0 .. size - 1
    BY <1>2, <1>5, <1>1
  <2>2. QED
    BY <2>1, <1>1, <1>3 DEF Used
<1>6. QED
  BY <1>3, <1>4, <1>5

\* Filling a free slot makes the table one entry larger.
LEMMA FillSlot ==
  ASSUME TypeOK, NEW e \in Entry, e.ptr # 0, entries[pos].ptr = 0
  PROVE  LET new == [entries EXCEPT ![pos] = e]
         IN  /\ new \in [0 .. size - 1 -> Entry]
             /\ new[pos] = e
             /\ \A q \in 0 .. size - 1 : q # pos => new[q] = entries[q]
             /\ Used(new) = Used(entries) \cup {pos}
             /\ Cardinality(Used(new)) = Cardinality(Used(entries)) + 1
<1> DEFINE new == [entries EXCEPT ![pos] = e]
<1>1. /\ entries \in [0 .. size - 1 -> Entry] /\ pos \in 0 .. size - 1
      /\ DOMAIN entries = 0 .. size - 1
  BY DEF TypeOK
<1>2. /\ new \in [0 .. size - 1 -> Entry] /\ new[pos] = e
      /\ \A q \in 0 .. size - 1 : q # pos => new[q] = entries[q]
  BY <1>1
<1>3. Used(new) = Used(entries) \cup {pos}
  BY <1>1, <1>2 DEF Used
<1>4. pos \notin Used(entries)
  BY DEF Used
<1>5. Cardinality(Used(new)) = Cardinality(Used(entries)) + 1
  BY ZenonT(30), <1>3, <1>4, UsedFinite, FS_AddElement
<1>6. QED
  BY <1>2, <1>3, <1>5

-----------------------------------------------------------------------------
(* Each action preserves the invariant. *)

LEMMA InitInv == ASSUME Init PROVE IInv
<1>1. TypeOK
  BY ConstAssumption DEF Init, TypeOK, Calloc, Null, Entry
<1>2. Used(entries) = {} /\ Pending = {}
  BY DEF Init, Used, Pending, Calloc, Null
<1>3. CountInv
  BY <1>2, FS_EmptySet DEF CountInv, Init
<1>4. Bounds /\ ChainUnbroken /\ Walked /\ NoDuplicate /\ PendingFresh /\ Described
  BY <1>2 DEF Init, Bounds, InCall, ChainUnbroken, Walked, NoDuplicate, PendingFresh, Described
<1>5. QED
  BY <1>1, <1>3, <1>4 DEF IInv

LEMMA CallFitsInv == ASSUME IInv, NEW s \in Strs, CallFits(s) PROVE IInv'
<1>1. HashOf[s] \in Nat /\ size \in Nat \ {0} /\ pos' = Home(HashOf[s], size)
  BY ConstAssumption DEF IInv, TypeOK, CallFits
<1>2. pos' \in 0 .. size - 1
  BY <1>1, HomeInTable
<1>3. TypeOK'
  BY <1>2 DEF IInv, TypeOK, CallFits
<1>4. count < size
  BY DEF IInv, TypeOK, CallFits, HasRoom
<1>5. Bounds'
  BY <1>4, ConstAssumption DEF IInv, Bounds, CallFits, InCall
<1>6. Used(entries)' = Used(entries) /\ Pending' = Pending
  BY DEF CallFits, Used, Pending
<1>7. Walked'
  <2>1. ASSUME NEW q \in 0 .. size - 1 PROVE ~OnPath(q, Home(HashOf[s], size), pos')
    BY <1>1, <1>2, PathEmpty
  <2>2. QED
    BY <2>1 DEF CallFits, Walked
<1>8. CountInv' /\ ChainUnbroken' /\ NoDuplicate' /\ PendingFresh' /\ Described'
  BY <1>6 DEF IInv, CallFits, CountInv, ChainUnbroken, NoDuplicate, PendingFresh,
              SameKey, Described, Matches
<1>9. QED
  BY <1>3, <1>5, <1>7, <1>8 DEF IInv

LEMMA CallGrowsInv == ASSUME IInv, NEW s \in Strs, CallGrows(s) PROVE IInv'
<1>1. size \in Nat \ {0} /\ size' = 3 * size /\ size' \in Nat \ {0} /\ size < size'
  BY DEF IInv, TypeOK, CallGrows
<1>2. TypeOK'
  BY <1>1 DEF IInv, TypeOK, CallGrows, Calloc, Null, Entry
<1>3. Bounds'
  BY <1>1, ConstAssumption DEF IInv, Bounds, CallGrows, InCall
<1>4. Used(entries') = {}
  BY DEF CallGrows, Used, Calloc, Null
<1>5. Pending' = Used(entries)
  BY DEF CallGrows, Used, Pending, IInv, TypeOK
<1>6. CountInv'
  BY <1>4, FS_EmptySet DEF CountInv, CallGrows
<1>7. ChainUnbroken' /\ NoDuplicate' /\ Walked'
  BY <1>4 DEF ChainUnbroken, NoDuplicate, Walked, CallGrows
<1>8. PendingFresh' /\ Described'
  BY <1>4, <1>5 DEF IInv, CallGrows, PendingFresh, NoDuplicate, SameKey, Described, Matches
<1>9. QED
  BY <1>2, <1>3, <1>6, <1>7, <1>8 DEF IInv

LEMMA ScanSkipInv == ASSUME IInv, ScanSkip PROVE IInv'
<1>1. TypeOK'
  BY DEF IInv, TypeOK, ScanSkip
<1>2. Bounds'
  BY DEF IInv, TypeOK, Bounds, ScanSkip, InCall
<1>3. Used(entries)' = Used(entries) /\ Pending' = Pending
  <2>1. \A k \in DOMAIN oldp : k >= i /\ oldp[k].ptr # 0 => k >= i + 1
    BY DEF IInv, TypeOK, ScanSkip
  <2>2. QED
    BY <2>1 DEF IInv, TypeOK, ScanSkip, Used, Pending
<1>4. Walked' /\ CountInv' /\ ChainUnbroken' /\ NoDuplicate' /\ PendingFresh' /\ Described'
  BY <1>3 DEF IInv, ScanSkip, Walked, CountInv, ChainUnbroken, NoDuplicate,
              PendingFresh, SameKey, Described, Matches
<1>5. QED
  BY <1>1, <1>2, <1>4 DEF IInv

LEMMA ScanTakeInv == ASSUME IInv, ScanTake PROVE IInv'
<1>1. size \in Nat \ {0} /\ oldp[i].hash \in Nat
  BY DEF IInv, TypeOK, ScanTake, Entry
<1>2. pos' = Home(oldp[i].hash, size) /\ pos' \in 0 .. size - 1
  BY <1>1, HomeInTable DEF ScanTake
<1>3. TypeOK'
  BY <1>2 DEF IInv, TypeOK, ScanTake
<1>4. Bounds'
  BY DEF IInv, Bounds, ScanTake, InCall
<1>5. Used(entries)' = Used(entries) /\ Pending' = Pending
  BY DEF ScanTake, Used, Pending
<1>6. Walked'
  <2>1. ASSUME NEW q \in 0 .. size - 1 PROVE ~OnPath(q, Home(oldp[i].hash, size), pos')
    BY <1>2, PathEmpty
  <2>2. QED
    BY <2>1 DEF ScanTake, Walked
<1>7. CountInv' /\ ChainUnbroken' /\ NoDuplicate' /\ PendingFresh' /\ Described'
  BY <1>5 DEF IInv, ScanTake, CountInv, ChainUnbroken, NoDuplicate,
              PendingFresh, SameKey, Described, Matches
<1>8. QED
  BY <1>3, <1>4, <1>6, <1>7 DEF IInv

LEMMA ScanDoneInv == ASSUME IInv, ScanDone PROVE IInv'
<1>1. HashOf[str] \in Nat /\ size \in Nat \ {0} /\ str \in Strs
  BY ConstAssumption DEF IInv, TypeOK, ScanDone, Bounds, InCall
<1>2. pos' = Home(HashOf[str], size) /\ pos' \in 0 .. size - 1
  BY <1>1, HomeInTable DEF ScanDone
<1>3. TypeOK'
  BY <1>2 DEF IInv, TypeOK, ScanDone, Calloc
<1>4. Bounds'
  BY <1>1 DEF IInv, TypeOK, Bounds, ScanDone, InCall
<1>5. Used(entries)' = Used(entries) /\ Pending' = {}
  BY DEF ScanDone, Used, Pending, Calloc
<1>6. Walked'
  <2>1. ASSUME NEW q \in 0 .. size - 1 PROVE ~OnPath(q, Home(HashOf[str], size), pos')
    BY <1>1, <1>2, PathEmpty
  <2>2. QED
    BY <2>1 DEF ScanDone, Walked
<1>7. CountInv' /\ ChainUnbroken' /\ NoDuplicate' /\ PendingFresh' /\ Described'
  BY <1>5 DEF IInv, ScanDone, CountInv, ChainUnbroken, NoDuplicate,
              PendingFresh, SameKey, Described, Matches
<1>8. QED
  BY <1>3, <1>4, <1>6, <1>7 DEF IInv

\* Both probing loops leave a slot only to find one that was free.
LEMMA ProbingHasFreeSlot ==
  ASSUME IInv, pc \in {"place", "probe"}
  PROVE  \E k \in DOMAIN entries : entries[k].ptr = 0
<1>1. Cardinality(Used(entries)) < size
  <2>1. CASE pc = "place"
    BY <2>1 DEF IInv, TypeOK, Bounds, CountInv
  <2>2. CASE pc = "probe"
    BY <2>2 DEF IInv, Bounds, CountInv
  <2>3. QED
    BY <2>1, <2>2
<1>2. QED
  BY <1>1, UsedFinite DEF IInv

LEMMA PlaceAdvanceInv == ASSUME IInv, PlaceAdvance PROVE IInv'
<1> DEFINE home == Home(oldp[i].hash, size)
<1>1. size \in Nat \ {0} /\ pos \in 0 .. size - 1 /\ oldp[i].hash \in Nat
  BY DEF IInv, TypeOK, Bounds, PlaceAdvance, Entry
<1>2. home \in 0 .. size - 1
  BY <1>1, HomeInTable
<1>3. pos' = NextPos(pos) /\ pos' \in 0 .. size - 1
  BY <1>1, NextSlot DEF PlaceAdvance
<1>4. TypeOK'
  BY <1>3 DEF IInv, TypeOK, PlaceAdvance
<1>5. Bounds'
  BY DEF IInv, Bounds, PlaceAdvance, InCall
<1>6. Used(entries)' = Used(entries) /\ Pending' = Pending
  BY DEF PlaceAdvance, Used, Pending
<1>7. NextPos(pos) # home
  <2>1. SUFFICES ASSUME NextPos(pos) = home PROVE FALSE
    OBVIOUS
  <2>2. ASSUME NEW q \in 0 .. size - 1 PROVE entries[q].ptr # 0
    BY <1>1, <1>2, <2>1, PathGrows DEF IInv, Walked, PlaceAdvance
  <2>3. QED
    BY <2>2, ProbingHasFreeSlot DEF IInv, TypeOK, PlaceAdvance
<1>8. Walked'
  <2>1. ASSUME NEW q \in 0 .. size - 1, OnPath(q, home, pos') PROVE entries[q].ptr # 0
    BY <1>1, <1>2, <1>3, <1>7, <2>1, PathGrows DEF IInv, Walked, PlaceAdvance
  <2>2. QED
    BY <2>1 DEF PlaceAdvance, Walked
<1>9. CountInv' /\ ChainUnbroken' /\ NoDuplicate' /\ PendingFresh' /\ Described'
  BY <1>6 DEF IInv, PlaceAdvance, CountInv, ChainUnbroken, NoDuplicate,
              PendingFresh, SameKey, Described, Matches
<1>10. QED
  BY <1>4, <1>5, <1>8, <1>9 DEF IInv

LEMMA PlacePutInv == ASSUME IInv, PlacePut PROVE IInv'
<1> DEFINE e == oldp[i]
<1>1. /\ e \in Entry /\ e.ptr # 0 /\ entries[pos].ptr = 0
      /\ i \in 0 .. olds - 1 /\ olds \in Nat /\ DOMAIN oldp = 0 .. olds - 1
      /\ size \in Nat \ {0} /\ pos \in 0 .. size - 1
  BY DEF IInv, TypeOK, Bounds, PlacePut
<1>2. entries' = [entries EXCEPT ![pos] = e] /\ TypeOK
  BY DEF IInv, PlacePut
<1>3. /\ entries' \in [0 .. size - 1 -> Entry]
      /\ entries'[pos] = e
      /\ \A q \in 0 .. size - 1 : q # pos => entries'[q] = entries[q]
      /\ Used(entries') = Used(entries) \cup {pos}
      /\ Cardinality(Used(entries')) = Cardinality(Used(entries)) + 1
  BY <1>1, <1>2, FillSlot
<1>4. Used(entries) \subseteq 0 .. size - 1 /\ pos \notin Used(entries)
  BY <1>1, <1>2, UsedFinite DEF Used
<1>5. Pending' = Pending \ {i} /\ i \in Pending
  BY <1>1 DEF Pending, PlacePut, IInv, TypeOK
<1>6. TypeOK'
  BY <1>3 DEF IInv, TypeOK, PlacePut
<1>7. Bounds'
  BY DEF IInv, TypeOK, Bounds, PlacePut, InCall
<1>8. CountInv'
  BY <1>3 DEF IInv, CountInv, PlacePut
<1>9. ChainUnbroken'
  <2>1. SUFFICES ASSUME NEW k \in Used(entries'), NEW q \in 0 .. size - 1,
                        OnPath(q, Home(entries'[k].hash, size), k)
                 PROVE  entries'[q].ptr # 0
    BY DEF ChainUnbroken, PlacePut
  <2>2. CASE q = pos
    BY <2>2, <1>1, <1>3
  <2>3. CASE q # pos /\ k = pos
    BY <2>1, <2>3, <1>3 DEF IInv, Walked, PlacePut
  <2>4. CASE q # pos /\ k # pos
    BY <2>1, <2>4, <1>3, <1>4 DEF IInv, ChainUnbroken
  <2>5. QED
    BY <2>2, <2>3, <2>4
<1>10. Walked'
  BY DEF Walked, PlacePut
<1>11. NoDuplicate'
  BY <1>1, <1>3, <1>4, <1>5 DEF IInv, NoDuplicate, PendingFresh, SameKey
<1>12. PendingFresh'
  <2>1. oldp' = oldp
    BY DEF PlacePut
  <2>2. ASSUME NEW k \in Used(entries'), NEW l \in Pending'
        PROVE  ~SameKey(entries'[k], oldp[l])
    BY <1>1, <1>3, <1>4, <1>5 DEF IInv, PendingFresh, SameKey
  <2>3. QED
    BY <2>1, <2>2, <1>5 DEF IInv, PendingFresh, SameKey
<1>13. Described'
  <2>1. mem' = mem /\ oldp' = oldp
    BY DEF PlacePut
  <2>2. ASSUME NEW k \in Used(entries')
        PROVE  entries'[k].ptr \in 1 .. Len(mem) /\ Matches(entries'[k], mem[entries'[k].ptr])
    <3>1. CASE k = pos
      BY <3>1, <1>3, <1>5 DEF IInv, Described
    <3>2. CASE k # pos
      <4>1. k \in Used(entries) /\ entries'[k] = entries[k]
        BY <3>2, <1>3, <1>4
      <4>2. QED
        BY <4>1 DEF IInv, Described
    <3>3. QED
      BY <3>1, <3>2
  <2>3. QED
    BY <2>1, <2>2, <1>5 DEF IInv, Described, Matches
<1>14. QED
  BY <1>6, <1>7, <1>8, <1>9, <1>10, <1>11, <1>12, <1>13 DEF IInv

LEMMA ProbeFoundInv == ASSUME IInv, ProbeFound PROVE IInv'
<1>1. TypeOK'
  BY DEF IInv, TypeOK, ProbeFound, Entry
<1>2. Bounds'
  BY ConstAssumption DEF IInv, Bounds, ProbeFound, InCall
<1>3. Used(entries)' = Used(entries) /\ Pending' = Pending
  BY DEF ProbeFound, Used, Pending
<1>4. Walked' /\ CountInv' /\ ChainUnbroken' /\ NoDuplicate' /\ PendingFresh' /\ Described'
  BY <1>3 DEF IInv, ProbeFound, Walked, CountInv, ChainUnbroken, NoDuplicate,
              PendingFresh, SameKey, Described, Matches
<1>5. QED
  BY <1>1, <1>2, <1>4 DEF IInv

LEMMA ProbeAdvanceInv == ASSUME IInv, ProbeAdvance PROVE IInv'
<1> DEFINE home == Home(HashOf[str], size)
<1>1. size \in Nat \ {0} /\ pos \in 0 .. size - 1 /\ HashOf[str] \in Nat
  BY ConstAssumption DEF IInv, TypeOK, Bounds, InCall, ProbeAdvance
<1>2. home \in 0 .. size - 1
  BY <1>1, HomeInTable
<1>3. pos' = NextPos(pos) /\ pos' \in 0 .. size - 1
  BY <1>1, NextSlot DEF ProbeAdvance
<1>4. TypeOK'
  BY <1>3 DEF IInv, TypeOK, ProbeAdvance
<1>5. Bounds'
  BY DEF IInv, Bounds, ProbeAdvance, InCall
<1>6. Used(entries)' = Used(entries) /\ Pending' = Pending
  BY DEF ProbeAdvance, Used, Pending
<1>7. NextPos(pos) # home
  <2>1. SUFFICES ASSUME NextPos(pos) = home PROVE FALSE
    OBVIOUS
  <2>2. ASSUME NEW q \in 0 .. size - 1 PROVE entries[q].ptr # 0
    BY <1>1, <1>2, <2>1, PathGrows DEF IInv, Walked, ProbeAdvance
  <2>3. QED
    BY <2>2, ProbingHasFreeSlot DEF IInv, TypeOK, ProbeAdvance
<1>8. Walked'
  <2>1. ASSUME NEW q \in 0 .. size - 1, OnPath(q, home, pos')
        PROVE  entries[q].ptr # 0 /\ ~Matches(entries[q], str)
    BY <1>1, <1>2, <1>3, <1>7, <2>1, PathGrows DEF IInv, Walked, ProbeAdvance
  <2>2. QED
    BY <2>1 DEF ProbeAdvance, Walked, Matches
<1>9. CountInv' /\ ChainUnbroken' /\ NoDuplicate' /\ PendingFresh' /\ Described'
  BY <1>6 DEF IInv, ProbeAdvance, CountInv, ChainUnbroken, NoDuplicate,
              PendingFresh, SameKey, Described, Matches
<1>10. QED
  BY <1>4, <1>5, <1>8, <1>9 DEF IInv

\* At the free slot the probe knows that the string is nowhere in the table:
\* an entry further along its path would have the free slot on its own path.
LEMMA ProbeStoreAbsent ==
  ASSUME IInv, pc = "probe", entries[pos].ptr = 0, NEW k \in Used(entries)
  PROVE  ~Matches(entries[k], str)
<1> DEFINE home == Home(HashOf[str], size)
<1>1. SUFFICES ASSUME Matches(entries[k], str) PROVE FALSE
  OBVIOUS
<1>2. k \in 0 .. size - 1 /\ pos \in 0 .. size - 1 /\ k # pos /\ entries[k].hash = HashOf[str]
  BY <1>1, UsedFinite DEF IInv, TypeOK, Used, Matches
<1>3. home \in Nat
  BY ConstAssumption DEF IInv, TypeOK, Bounds, InCall, Home
<1>4. CASE OnPath(k, home, pos)
  BY <1>1, <1>2, <1>4 DEF IInv, Walked
<1>5. CASE OnPath(pos, home, k)
  BY <1>2, <1>5 DEF IInv, ChainUnbroken
<1>6. QED
  BY <1>2, <1>3, <1>4, <1>5, PathTotal

LEMMA ProbeStoreInv == ASSUME IInv, ProbeStore PROVE IInv'
<1> DEFINE e == [hash |-> HashOf[str], size |-> SizeOf[str], ptr |-> Len(mem) + 1]
<1>1. /\ str \in Strs /\ mem \in Seq(Strs) /\ Len(mem) \in Nat
      /\ size \in Nat \ {0} /\ pos \in 0 .. size - 1 /\ entries[pos].ptr = 0
      /\ TypeOK
  BY DEF IInv, TypeOK, Bounds, InCall, ProbeStore
<1>2. e \in Entry /\ e.ptr # 0 /\ Matches(e, str)
  BY <1>1, ConstAssumption DEF Entry, Matches
<1>3. entries' = [entries EXCEPT ![pos] = e]
  BY DEF ProbeStore
<1>4. /\ entries' \in [0 .. size - 1 -> Entry]
      /\ entries'[pos] = e
      /\ \A q \in 0 .. size - 1 : q # pos => entries'[q] = entries[q]
      /\ Used(entries') = Used(entries) \cup {pos}
      /\ Cardinality(Used(entries')) = Cardinality(Used(entries)) + 1
  BY <1>1, <1>2, <1>3, FillSlot
<1>5. Used(entries) \subseteq 0 .. size - 1 /\ pos \notin Used(entries)
  BY <1>1, UsedFinite DEF Used
<1>6. Pending' = {} /\ Pending = {}
  BY DEF Pending, ProbeStore, IInv, TypeOK, Bounds
<1>7. mem' = Append(mem, str) /\ mem' \in Seq(Strs) /\ Len(mem') = Len(mem) + 1
  BY <1>1 DEF ProbeStore
<1>8. freed' \in [1 .. Len(mem') -> Nat]
  <2>1. freed \in Seq(Nat) /\ Len(freed) = Len(mem)
    BY SMTT(30), <1>1 DEF TypeOK
  <2>2. freed' \in Seq(Nat) /\ Len(freed') = Len(mem) + 1
    BY <2>1 DEF ProbeStore
  <2>3. QED
    BY <2>2, <1>7
<1>9. TypeOK'
  BY <1>1, <1>4, <1>7, <1>8 DEF TypeOK, ProbeStore
<1>10. Bounds'
  BY ConstAssumption DEF IInv, TypeOK, Bounds, ProbeStore, InCall
<1>11. CountInv'
  BY <1>4 DEF IInv, CountInv, ProbeStore
<1>12. ChainUnbroken'
  <2>1. SUFFICES ASSUME NEW k \in Used(entries'), NEW q \in 0 .. size - 1,
                        OnPath(q, Home(entries'[k].hash, size), k)
                 PROVE  entries'[q].ptr # 0
    BY DEF ChainUnbroken, ProbeStore
  <2>2. CASE q = pos
    BY <2>2, <1>2, <1>4
  <2>3. CASE q # pos /\ k = pos
    BY <2>1, <2>3, <1>4 DEF IInv, Walked, ProbeStore
  <2>4. CASE q # pos /\ k # pos
    BY <2>1, <2>4, <1>4, <1>5 DEF IInv, ChainUnbroken
  <2>5. QED
    BY <2>2, <2>3, <2>4
<1>13. Walked'
  BY DEF Walked, ProbeStore
<1>14. ASSUME NEW k \in Used(entries) PROVE ~SameKey(entries[k], e)
  BY ProbeStoreAbsent DEF ProbeStore, SameKey, Matches
<1>15. NoDuplicate'
  BY <1>4, <1>5, <1>14 DEF IInv, NoDuplicate, SameKey
<1>16. PendingFresh'
  BY <1>6 DEF PendingFresh
<1>17. Described'
  <2>1. ASSUME NEW k \in Used(entries')
        PROVE  entries'[k].ptr \in 1 .. Len(mem') /\ Matches(entries'[k], mem'[entries'[k].ptr])
    <3>1. CASE k = pos
      BY <3>1, <1>1, <1>2, <1>4, <1>7
    <3>2. CASE k # pos
      <4>1. k \in Used(entries) /\ entries'[k] = entries[k]
        BY <3>2, <1>4, <1>5
      <4>2. entries[k].ptr \in 1 .. Len(mem) /\ Matches(entries[k], mem[entries[k].ptr])
        BY <4>1 DEF IInv, Described
      <4>3. mem'[entries[k].ptr] = mem[entries[k].ptr]
        BY <4>2, <1>1, <1>7
      <4>4. QED
        BY <4>1, <4>2, <4>3, <1>1, <1>7
    <3>3. QED
      BY <3>1, <3>2
  <2>2. QED
    BY <2>1, <1>6 DEF Described, Matches
<1>18. QED
  BY <1>9, <1>10, <1>11, <1>12, <1>13, <1>15, <1>16, <1>17 DEF IInv

LEMMA DelInv == ASSUME IInv, Del PROVE IInv'
<1>1. Used(entries)' = Used(entries) /\ Pending' = Pending
  BY DEF Del, Used, Pending
<1>2. freed' \in [1 .. Len(mem) -> Nat]
  <2>1. ASSUME NEW p \in 1 .. Len(mem)
        PROVE  freed[p] + Cardinality({k \in Used(entries) : entries[k].ptr = p}) \in Nat
    <3>1. Cardinality({k \in Used(entries) : entries[k].ptr = p}) \in Nat
      BY UsedFinite, FS_Subset, FS_CardinalityType DEF IInv
    <3>2. freed[p] \in Nat
      BY DEF IInv, TypeOK
    <3>3. QED
      BY <3>1, <3>2
  <2>2. QED
    BY <2>1 DEF Del
<1>3. TypeOK'
  BY <1>2 DEF IInv, TypeOK, Del
<1>4. Bounds'
  BY DEF IInv, Bounds, Del, InCall
<1>5. Walked' /\ CountInv' /\ ChainUnbroken' /\ NoDuplicate' /\ PendingFresh' /\ Described'
  BY <1>1 DEF IInv, Del, Walked, CountInv, ChainUnbroken, NoDuplicate,
              PendingFresh, SameKey, Described, Matches
<1>6. QED
  BY <1>3, <1>4, <1>5 DEF IInv

LEMMA NextInv == ASSUME IInv, [Next]_vars PROVE IInv'
<1>1. ASSUME NEW s \in Strs, Call(s) PROVE IInv'
  BY <1>1, CallFitsInv, CallGrowsInv DEF Call
<1>2. CASE Scan
  BY <1>2, ScanSkipInv, ScanTakeInv, ScanDoneInv DEF Scan
<1>3. CASE Place
  BY <1>3, PlaceAdvanceInv, PlacePutInv DEF Place
<1>4. CASE Probe
  BY <1>4, ProbeFoundInv, ProbeAdvanceInv, ProbeStoreInv DEF Probe
<1>5. CASE Del
  BY <1>5, DelInv
<1>6. CASE UNCHANGED vars
  <2>1. Used(entries)' = Used(entries) /\ Pending' = Pending
    BY <1>6 DEF vars, Used, Pending
  <2>2. TypeOK' /\ Bounds' /\ Walked' /\ CountInv' /\ ChainUnbroken'
    BY <1>6, <2>1 DEF vars, IInv, TypeOK, Bounds, InCall, Walked, CountInv,
                      ChainUnbroken, Matches
  <2>3. NoDuplicate' /\ PendingFresh' /\ Described'
    BY <1>6, <2>1 DEF vars, IInv, NoDuplicate, PendingFresh, SameKey, Described, Matches
  <2>4. QED
    BY <2>2, <2>3 DEF IInv
<1>7. QED
  BY <1>1, <1>2, <1>3, <1>4, <1>5, <1>6 DEF Next, Step

\* The inductive invariant holds in every reachable state.
THEOREM Invariance == Spec => []IInv
<1>1. Init => IInv
  BY InitInv
<1>2. IInv /\ [Next]_vars => IInv'
  BY NextInv
<1>3. QED
  BY <1>1, <1>2, PTL DEF Spec

-----------------------------------------------------------------------------
(* What the invariant gives. *)

\* The variables of strpool.c keep their types and the probe stays inside the
\* array.
THEOREM TypeCorrect == Spec => []TypeOK
  BY Invariance, PTL DEF IInv

\* The counter the load test reads is the number of used slots, in the middle
\* of a growth too, and the unbounded loops of insert and check_table_size
\* always have a free slot to find, for every initial capacity.
THEOREM LoadIsExact == Spec => []LoadExact
<1>1. IInv => CountExact
  BY DEF IInv, CountInv, CountExact
<1>2. IInv => SlotFree
  BY ProbingHasFreeSlot DEF SlotFree
<1>3. IInv => LoadExact
  BY <1>1, <1>2 DEF LoadExact
<1>4. QED
  BY <1>3, Invariance, PTL

\* Lookups may stop at the first free slot, and a key is stored once.
THEOREM TableSound == Spec => [](ChainUnbroken /\ NoDuplicate)
<1>1. IInv => ChainUnbroken /\ NoDuplicate
  BY DEF IInv
<1>2. QED
  BY <1>1, Invariance, PTL

\* mstrpool_insert answers a copy of its argument.
THEOREM AnswersArgument == Spec => ReturnsArgument
<1> DEFINE Answers == InCall /\ pc' = "idle" => ret' # 0 /\ mem'[ret'] = str
<1>1. ASSUME IInv, [Next]_vars, InCall, pc' = "idle"
      PROVE  ret' # 0 /\ mem'[ret'] = str
  <2>1. ProbeFound \/ ProbeStore
    BY <1>1 DEF Next, Step, Call, CallFits, CallGrows, Scan, ScanSkip, ScanTake, ScanDone,
                Place, PlaceAdvance, PlacePut, Probe, ProbeAdvance, Del, vars, InCall
  <2>2. CASE ProbeFound
    <3>1. pos \in Used(entries) /\ str \in Strs
      BY <1>1, <2>2 DEF IInv, TypeOK, Bounds, Used, ProbeFound
    <3>2. /\ ret' \in 1 .. Len(mem) /\ Matches(entries[pos], mem[ret'])
          /\ Matches(entries[pos], str) /\ mem' = mem
      BY <1>1, <2>2, <3>1 DEF IInv, Described, ProbeFound
    <3>3. ret' # 0 /\ mem[ret'] \in Strs
      BY <1>1, <3>2 DEF IInv, TypeOK
    <3>4. QED
      BY <3>1, <3>2, <3>3, HashAssumption DEF Matches
  <2>3. CASE ProbeStore
    <3>1. mem \in Seq(Strs) /\ str \in Strs
      BY <1>1 DEF IInv, TypeOK, Bounds
    <3>2. QED
      BY <3>1, <2>3 DEF ProbeStore
  <2>4. QED
    BY <2>1, <2>2, <2>3
<1>2. IInv /\ [Next]_vars => [Answers]_vars
  BY <1>1
<1>3. QED
  BY <1>2, Invariance, PTL DEF Spec, ReturnsArgument

-----------------------------------------------------------------------------
(* The pointer of a string. *)

\* The pool knows a string under one pointer at most, and it is a pointer.
LEMMA PointerUnique ==
  ASSUME IInv, NEW s \in Strs
  PROVE  /\ \A p, q \in PointersOf(s) : p = q
         /\ PointersOf(s) \subseteq 1 .. Len(mem)
<1>1. ASSUME NEW p \in PointersOf(s)
      PROVE  \/ \E k \in Used(entries) : p = entries[k].ptr /\ Matches(entries[k], s)
             \/ \E k \in Pending : p = oldp[k].ptr /\ Matches(oldp[k], s)
  BY DEF PointersOf
<1>2. \A p, q \in PointersOf(s) : p = q
  BY <1>1 DEF IInv, NoDuplicate, PendingFresh, SameKey, Matches
<1>3. PointersOf(s) \subseteq 1 .. Len(mem)
  BY <1>1 DEF IInv, Described
<1>4. QED
  BY <1>2, <1>3

LEMMA PointerOfMember ==
  ASSUME IInv, NEW s \in Strs
  PROVE  /\ PointersOf(s) = {} => PointerOf(s) = 0
         /\ PointersOf(s) # {} => PointersOf(s) = {PointerOf(s)} /\ PointerOf(s) # 0
         /\ PointerOf(s) \in 0 .. Len(mem)
<1>1. Len(mem) \in Nat
  BY DEF IInv, TypeOK
<1>2. CASE PointersOf(s) = {}
  BY <1>1, <1>2 DEF PointerOf, AnyOrNull
<1>3. CASE PointersOf(s) # {}
  <2>1. PointerOf(s) \in PointersOf(s)
    BY <1>3 DEF PointerOf, AnyOrNull
  <2>2. QED
    BY <1>1, <1>3, <2>1, PointerUnique
<1>4. QED
  BY <1>2, <1>3

\* Storing the argument makes the argument known, and nothing else changes.
LEMMA StoreKnows ==
  ASSUME IInv, ProbeStore, NEW s \in Strs
  PROVE  IF s = str THEN PointersOf(s) = {} /\ PointersOf(s)' = {Len(mem) + 1}
                    ELSE PointersOf(s)' = PointersOf(s)
<1> DEFINE e == [hash |-> HashOf[str], size |-> SizeOf[str], ptr |-> Len(mem) + 1]
           Slots == {l \in Used(entries) : Matches(entries[l], s)}
<1>1. /\ Pending' = {} /\ Pending = {} /\ str \in Strs /\ TypeOK /\ Len(mem) \in Nat
      /\ entries[pos].ptr = 0 /\ entries' = [entries EXCEPT ![pos] = e]
  BY DEF Pending, ProbeStore, IInv, TypeOK, Bounds, InCall
<1>2. e \in Entry /\ e.ptr # 0
  BY <1>1, ConstAssumption DEF Entry
<1>3. /\ Used(entries') = Used(entries) \cup {pos}
      /\ entries'[pos] = e
      /\ \A k \in Used(entries) : entries'[k] = entries[k]
  BY <1>1, <1>2, FillSlot, UsedFinite DEF Used
<1>4. /\ PointersOf(s) = {entries[k].ptr : k \in Slots}
      /\ PointersOf(s)' = {entries'[k].ptr : k \in Slots'}
  BY <1>1 DEF PointersOf
<1>5. CASE s = str
  <2>1. \A k \in Used(entries) : ~Matches(entries[k], s)
    BY <1>5, ProbeStoreAbsent DEF ProbeStore
  <2>2. Slots = {} /\ Slots' = {pos}
    BY <1>3, <1>5, <2>1 DEF Matches
  <2>3. entries'[pos].ptr = Len(mem) + 1
    BY <1>3
  <2>4. QED
    BY <1>4, <1>5, <2>2, <2>3
<1>6. CASE s # str
  <2>1. ~Matches(e, s)
    BY <1>1, <1>6, HashAssumption DEF Matches
  <2>2. Slots' = Slots
    BY <1>3, <2>1 DEF Matches
  <2>3. QED
    BY <1>3, <1>4, <1>6, <2>2
<1>7. QED
  BY <1>5, <1>6

\* The entries of the pool, those still to be moved included.
Held == {entries[k] : k \in Used(entries)} \cup {oldp[k] : k \in Pending}

\* Only storing a string changes them: a growth moves every entry as it is.
LEMMA HeldKept == ASSUME IInv, [Next]_vars, ~ProbeStore PROVE Held' = Held
<1>1. CASE entries' = entries /\ Pending' = Pending /\ oldp' = oldp
  BY <1>1 DEF Held, Used
<1>2. CASE \E t \in Strs : CallGrows(t)
  <2>1. Used(entries') = {} /\ Pending' = Used(entries) /\ Pending = {} /\ oldp' = entries
    BY <1>2 DEF CallGrows, Used, Pending, Calloc, Null, IInv, TypeOK, Bounds
  <2>2. QED
    BY <2>1 DEF Held
<1>3. CASE ScanSkip
  <2>1. Pending' = Pending
    <3>1. \A k \in DOMAIN oldp : k >= i /\ oldp[k].ptr # 0 => k >= i + 1
      BY <1>3 DEF IInv, TypeOK, ScanSkip
    <3>2. QED
      BY <1>3, <3>1 DEF IInv, TypeOK, ScanSkip, Pending
  <2>2. QED
    BY <1>1, <1>3, <2>1 DEF ScanSkip
<1>4. CASE ScanDone
  <2>1. Pending' = {} /\ Pending = {} /\ entries' = entries
    BY <1>4 DEF ScanDone, Pending, Calloc, IInv, TypeOK, Bounds
  <2>2. QED
    BY <2>1 DEF Held, Used
<1>5. CASE PlacePut
  <2>1. /\ i \in Pending /\ Pending' = Pending \ {i} /\ oldp' = oldp
    BY <1>5 DEF Pending, PlacePut, IInv, TypeOK, Bounds
  <2>2. /\ oldp[i] \in Entry /\ oldp[i].ptr # 0 /\ entries[pos].ptr = 0 /\ TypeOK
        /\ entries' = [entries EXCEPT ![pos] = oldp[i]]
    BY <1>5 DEF IInv, TypeOK, Bounds, PlacePut
  <2>3. /\ Used(entries') = Used(entries) \cup {pos}
        /\ entries'[pos] = oldp[i]
        /\ \A k \in Used(entries) : entries'[k] = entries[k]
    BY <2>2, FillSlot, UsedFinite DEF Used
  <2>4. QED
    BY <2>1, <2>3 DEF Held
<1>6. QED
  BY <1>1, <1>2, <1>3, <1>4, <1>5
     DEF Next, Step, Call, CallFits, Scan, ScanTake, Place, PlaceAdvance, Probe,
         ProbeFound, ProbeAdvance, Del, vars, Pending

\* Storing the argument adds one entry.
LEMMA HeldGrows ==
  ASSUME IInv, ProbeStore
  PROVE  Held' = Held \cup {[hash |-> HashOf[str], size |-> SizeOf[str], ptr |-> Len(mem) + 1]}
<1> DEFINE e == [hash |-> HashOf[str], size |-> SizeOf[str], ptr |-> Len(mem) + 1]
<1>1. /\ Pending' = {} /\ Pending = {} /\ str \in Strs /\ TypeOK /\ Len(mem) \in Nat
      /\ entries[pos].ptr = 0 /\ entries' = [entries EXCEPT ![pos] = e]
  BY DEF Pending, ProbeStore, IInv, TypeOK, Bounds, InCall
<1>2. e \in Entry /\ e.ptr # 0
  BY <1>1, ConstAssumption DEF Entry
<1>3. /\ Used(entries') = Used(entries) \cup {pos}
      /\ entries'[pos] = e
      /\ \A k \in Used(entries) : entries'[k] = entries[k]
  BY <1>1, <1>2, FillSlot, UsedFinite DEF Used
<1>4. Held = {entries[k] : k \in Used(entries)}
  BY <1>1 DEF Held
<1>5. Held' = {entries'[k] : k \in Used(entries')}
  BY <1>1 DEF Held, Used
<1>6. QED
  BY <1>3, <1>4, <1>5

\* No other step changes where a string is known.
LEMMA PointersKept ==
  ASSUME IInv, [Next]_vars, ~ProbeStore, NEW s \in Strs
  PROVE  PointersOf(s)' = PointersOf(s)
<1>1. PointersOf(s) = {e.ptr : e \in {h \in Held : Matches(h, s)}}
  BY DEF PointersOf, Held
<1>2. PointersOf(s)' = {e.ptr : e \in {h \in Held' : Matches(h, s)}}
  BY DEF PointersOf, Held, Matches
<1>3. QED
  BY <1>1, <1>2, HeldKept

\* A pointer that was handed out stays the pointer of its string, over every
\* insertion and every growth.
THEOREM PointersAreStable == Spec => PointerStable
<1>1. ASSUME IInv, [Next]_vars, NEW s \in Strs, PointerOf(s) # 0
      PROVE  PointersOf(s)' = {PointerOf(s)}
  BY <1>1, PointersKept, StoreKnows, PointerOfMember
<1>2. IInv /\ [Next]_vars => [\A s \in Strs : PointerOf(s) # 0 => PointersOf(s)' = {PointerOf(s)}]_vars
  BY <1>1
<1>3. QED
  BY <1>2, Invariance, PTL DEF Spec, PointerStable

-----------------------------------------------------------------------------
(* Every copy is freed, and none twice. *)

\* Every allocation is in the pool until mstrpool_del, and not freed before.
Kept ==
  /\ \A p \in 1 .. Len(mem) : \E e \in Held : e.ptr = p
  /\ \A p \in 1 .. Len(mem) : freed[p] = IF pc = "deleted" THEN 1 ELSE 0

\* The keys tell the slots apart: an allocation has one owner. Until the pool
\* is deleted it is in the new array or in the rest of the old one.
LEMMA OneOwner ==
  ASSUME IInv, Kept, NEW p \in 1 .. Len(mem)
  PROVE  Cardinality({k \in Used(entries) : entries[k].ptr = p})
           + Cardinality({k \in Pending : oldp[k].ptr = p}) = 1
<1> DEFINE Here  == {k \in Used(entries) : entries[k].ptr = p}
           There == {k \in Pending : oldp[k].ptr = p}
<1>1. /\ \A k \in Here : entries[k].hash = HashOf[mem[p]] /\ entries[k].size = SizeOf[mem[p]]
      /\ \A k \in There : oldp[k].hash = HashOf[mem[p]] /\ oldp[k].size = SizeOf[mem[p]]
  BY DEF IInv, Described, Matches
<1>2. \A k, l \in Here : k = l
  BY <1>1 DEF IInv, NoDuplicate
<1>3. \A k, l \in There : k = l
  BY <1>1 DEF IInv, PendingFresh, SameKey
<1>4. Here = {} \/ There = {}
  BY <1>1 DEF IInv, PendingFresh, SameKey
<1>5. Here # {} \/ There # {}
  BY DEF Kept, Held
<1>6. CASE Here # {}
  <2>1. PICK k \in Here : Here = {k}
    BY <1>2, <1>6
  <2>2. Cardinality(Here) = 1 /\ Cardinality(There) = 0
    BY <1>4, <1>6, <2>1, FS_Singleton, FS_EmptySet
  <2>3. QED
    BY <2>2
<1>7. CASE There # {}
  <2>1. PICK k \in There : There = {k}
    BY <1>3, <1>7
  <2>2. Cardinality(There) = 1 /\ Cardinality(Here) = 0
    BY <1>4, <1>7, <2>1, FS_Singleton, FS_EmptySet
  <2>3. QED
    BY <2>2
<1>8. QED
  BY <1>5, <1>6, <1>7

LEMMA KeptNext == ASSUME IInv, Kept, [Next]_vars PROVE Kept'
<1>1. CASE ProbeStore
  <2>1. /\ mem \in Seq(Strs) /\ str \in Strs /\ freed \in [1 .. Len(mem) -> Nat]
        /\ pc # "deleted" /\ pc' # "deleted"
        /\ mem' = Append(mem, str) /\ freed' = Append(freed, 0)
    BY <1>1 DEF IInv, TypeOK, Bounds, InCall, ProbeStore
  <2>2. freed \in Seq(Nat) /\ Len(freed) = Len(mem) /\ Len(mem) \in Nat
    BY SMTT(30), <2>1
  <2>3. /\ Len(mem') = Len(mem) + 1
        /\ \A p \in 1 .. Len(mem) : freed'[p] = freed[p]
        /\ freed'[Len(mem) + 1] = 0
    BY <2>1, <2>2
  <2>4. ASSUME NEW p \in 1 .. Len(mem') PROVE \E e \in Held' : e.ptr = p
    <3> DEFINE e == [hash |-> HashOf[str], size |-> SizeOf[str], ptr |-> Len(mem) + 1]
    <3>1. CASE p = Len(mem) + 1
      <4>1. e \in Held'
        BY <1>1, HeldGrows
      <4>2. e.ptr = p
        BY <3>1
      <4>3. QED
        BY <4>1, <4>2
    <3>2. CASE p \in 1 .. Len(mem)
      BY <1>1, <3>2, HeldGrows DEF Kept
    <3>3. QED
      BY <2>2, <2>3, <3>1, <3>2
  <2>5. ASSUME NEW p \in 1 .. Len(mem') PROVE freed'[p] = 0
    BY <2>1, <2>2, <2>3 DEF Kept
  <2>6. QED
    BY <2>1, <2>4, <2>5 DEF Kept
<1>2. CASE Del
  <2>1. mem' = mem /\ pc' = "deleted" /\ Held' = Held
    BY <1>2, HeldKept DEF Del, ProbeStore
  <2>2. ASSUME NEW p \in 1 .. Len(mem) PROVE freed'[p] = 1
    <3>1. Pending = {}
      BY <1>2 DEF Del, Pending, IInv, TypeOK, Bounds
    <3> DEFINE Here  == {k \in Used(entries) : entries[k].ptr = p}
               There == {k \in Pending : oldp[k].ptr = p}
    <3>2. Cardinality(There) = 0
      BY <3>1, FS_EmptySet
    <3>3. Cardinality(Here) \in Nat
      BY UsedFinite, FS_Subset, FS_CardinalityType DEF IInv
    <3>4. Cardinality(Here) = 1
      <4>1. Cardinality(Here) + Cardinality(There) = 1
        BY OneOwner
      <4>2. QED
        BY <3>2, <3>3, <4>1
    <3>5. freed[p] = 0
      BY <1>2 DEF Kept, Del
    <3>6. QED
      BY <1>2, <3>4, <3>5 DEF Del
  <2>3. QED
    BY <2>1, <2>2 DEF Kept
<1>3. CASE ~ProbeStore /\ ~Del
  <2>1. mem' = mem /\ freed' = freed /\ (pc' = "deleted") = (pc = "deleted")
    BY <1>3 DEF Next, Step, Call, CallFits, CallGrows, Scan, ScanSkip, ScanTake, ScanDone,
                Place, PlaceAdvance, PlacePut, Probe, ProbeFound, ProbeAdvance, vars
  <2>2. Held' = Held
    BY <1>3, HeldKept
  <2>3. QED
    BY <2>1, <2>2 DEF Kept
<1>4. QED
  BY <1>1, <1>2, <1>3

\* Every copy of a string has exactly one owner at all times, in the middle of
\* a growth too, so mstrpool_del frees each of them once.
THEOREM CopiesFreedOnce == Spec => []Owned
<1>1. Init => Kept
  BY DEF Init, Kept
<1>2. IInv /\ Kept /\ [Next]_vars => Kept'
  BY KeptNext
<1>3. IInv /\ Kept => Owned
  <2>1. ASSUME IInv, Kept PROVE pc = "deleted" => \A p \in 1 .. Len(mem) : freed[p] = 1
    BY <2>1 DEF Kept
  <2>2. ASSUME IInv, NEW p \in 1 .. Len(mem), NEW k \in Used(entries), entries[k].ptr = p
        PROVE  Matches(entries[k], mem[p])
    BY <2>2 DEF IInv, Described
  <2>3. QED
    BY <2>1, <2>2, OneOwner DEF Owned
<1>4. QED
  BY <1>1, <1>2, <1>3, Invariance, PTL DEF Spec

-----------------------------------------------------------------------------
(* The pool implements Interning. *)

Knows == [s \in Strs |-> PointerOf(s)]

LEMMA InitRefines == ASSUME Init PROVE Abstract!Init
<1>1. ASSUME NEW s \in Strs PROVE PointerOf(s) = 0
  BY DEF Init, PointerOf, AnyOrNull, PointersOf, Used, Pending, Calloc, Null
<1>2. QED
  BY <1>1 DEF Init, Abstract!Init

\* A step that moves nothing but the probe or the entries is invisible.
LEMMA SilentStep ==
  ASSUME IInv, [Next]_vars, ~ProbeStore
  PROVE  Knows' = Knows
<1>1. ASSUME NEW s \in Strs PROVE PointerOf(s)' = PointerOf(s)
  <2>1. PointersOf(s)' = PointersOf(s)
    BY PointersKept
  <2>2. QED
    BY <2>1 DEF PointerOf
<1>2. QED
  BY <1>1 DEF Knows

LEMMA ProbeFoundRefines == ASSUME IInv, ProbeFound PROVE Abstract!AnswerOld
<1>1. str \in Strs /\ str # NoStr /\ pos \in Used(entries)
  BY ConstAssumption DEF IInv, TypeOK, Bounds, InCall, ProbeFound, Used
<1>2. entries[pos].ptr \in PointersOf(str)
  BY <1>1 DEF ProbeFound, PointersOf
<1>3. Knows[str] = entries[pos].ptr /\ Knows[str] # 0
  BY <1>1, <1>2, PointerOfMember DEF Knows
<1>4. ProbeFound => ~ProbeStore
  BY DEF ProbeFound, ProbeStore
<1>5. [Next]_vars
  BY DEF Next, Step, Probe
<1>6. Knows' = Knows
  BY <1>4, <1>5, SilentStep
<1>7. QED
  BY <1>1, <1>3, <1>6 DEF ProbeFound, Knows, Abstract!AnswerOld

LEMMA ProbeStoreRefines == ASSUME IInv, ProbeStore PROVE Abstract!AnswerNew
<1>1. str \in Strs /\ str # NoStr /\ Len(mem) \in Nat
  BY ConstAssumption DEF IInv, TypeOK, Bounds, InCall, ProbeStore
<1>2. ASSUME NEW s \in Strs
      PROVE  /\ s # str => PointerOf(s)' = PointerOf(s)
             /\ s = str => PointerOf(s) = 0 /\ PointerOf(s)' = Len(mem) + 1
  <2>1. CASE s # str
    BY <2>1, StoreKnows DEF PointerOf
  <2>2. CASE s = str
    <3>1. PointersOf(s) = {} /\ PointersOf(s)' = {Len(mem) + 1}
      BY <2>2, StoreKnows
    <3>2. QED
      BY <2>2, <3>1 DEF PointerOf, AnyOrNull
  <2>3. QED
    BY <2>1, <2>2
<1>3. Knows' = [Knows EXCEPT ![str] = Len(mem) + 1]
  BY <1>1, <1>2 DEF Knows
<1>4. Knows[str] = 0
  BY <1>1, <1>2 DEF Knows
<1>5. ret' = Len(mem) + 1 /\ ret' \notin {Knows[s] : s \in Strs} \cup {0}
  BY <1>1, PointerOfMember DEF Knows, ProbeStore
<1>6. QED
  BY <1>1, <1>3, <1>4, <1>5 DEF ProbeStore, Knows, Abstract!AnswerNew

LEMMA StepRefines == ASSUME IInv, [Next]_vars PROVE [Abstract!Next]_Abstract!avars
<1>1. ASSUME NEW s \in Strs, Call(s) PROVE Abstract!Ask(s)
  <2>1. ~ProbeStore
    BY <1>1 DEF Call, CallFits, CallGrows, ProbeStore
  <2>2. Knows' = Knows
    BY <2>1, SilentStep
  <2>3. QED
    BY <1>1, <2>2 DEF IInv, Bounds, InCall, Call, CallFits, CallGrows, Knows, Abstract!Ask
<1>2. CASE Scan \/ Place \/ ProbeAdvance
  <2>1. ~ProbeStore
    BY <1>2 DEF Scan, ScanSkip, ScanTake, ScanDone, Place, PlaceAdvance, PlacePut,
                ProbeAdvance, ProbeStore
  <2>2. Knows' = Knows
    BY <2>1, SilentStep
  <2>3. str' = str /\ ret' = ret /\ (pc' # "deleted") = (pc # "deleted")
    BY <1>2 DEF Scan, ScanSkip, ScanTake, ScanDone, Place, PlaceAdvance, PlacePut, ProbeAdvance
  <2>4. QED
    BY <2>2, <2>3 DEF Knows, Abstract!avars
<1>3. CASE ProbeFound
  BY <1>3, ProbeFoundRefines DEF Abstract!Next
<1>4. CASE ProbeStore
  BY <1>4, ProbeStoreRefines DEF Abstract!Next
<1>5. CASE Del
  <2>1. Knows' = Knows
    BY <1>5, SilentStep DEF Del, ProbeStore
  <2>2. Abstract!Close
    BY <1>5, <2>1 DEF IInv, Bounds, InCall, Del, Knows, Abstract!Close
  <2>3. QED
    BY <2>2 DEF Abstract!Next
<1>6. CASE UNCHANGED vars
  <2>1. Knows' = Knows
    BY <1>6, SilentStep DEF vars, ProbeStore
  <2>2. QED
    BY <1>6, <2>1 DEF vars, Knows, Abstract!avars
<1>7. QED
  BY <1>1, <1>2, <1>3, <1>4, <1>5, <1>6 DEF Next, Step, Probe, Abstract!Next

\* The hash table is an implementation of interning.
THEOREM Implements == Spec => ImplementsInterning
<1>1. Init => Abstract!Init
  BY InitRefines
<1>2. IInv /\ [Next]_vars => [Abstract!Next]_Abstract!avars
  BY StepRefines
<1>3. QED
  BY <1>1, <1>2, Invariance, PTL DEF Spec, ImplementsInterning, Abstract!Spec
=============================================================================
