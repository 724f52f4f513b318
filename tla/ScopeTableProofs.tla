------------------------- MODULE ScopeTableProofs --------------------------
(***************************************************************************)
(* Proofs about ScopeTable for every set of declarations, every hash and   *)
(* every initial size of the table.                                        *)
(***************************************************************************)
EXTENDS ScopeTable, FiniteSetTheorems, TLAPS

After(k, sz)     == (k + 1) % sz
Behind(k, n, sz) == (k - n) % sz
Dist(h, k, sz)   == (k - (h % sz)) % sz
DeclsOf(tab)     == {tab[k].decl : k \in Used(tab)}

\* The p slots before slot k would all have been passed by the probe that
\* arrives at k after p steps.
Passed(tab, sz, k, p) ==
  \A n \in 1 .. p : /\ tab[Behind(k, n, sz)].decl # NoDecl
                    /\ tab[Behind(k, n, sz)].psl >= p - n

RobinHood(tab, sz) ==
  \A k \in Used(tab) : /\ tab[k].psl = Dist(HashOf[tab[k].decl], k, sz)
                       /\ Passed(tab, sz, k, tab[k].psl)
Distinct(tab) == \A j, k \in Used(tab) : tab[j].decl = tab[k].decl => j = k

\* The used slots of tab, from the last of its list to the first: s[1] .. s[n].
Nth(s, j) == IF j = 0 THEN -1 ELSE s[j]
Threads(tab, n, s) ==
  /\ s \in [1 .. n -> Used(tab)]
  /\ \A j, k \in 1 .. n : s[j] = s[k] => j = k
  /\ \A k \in Used(tab) : \E j \in 1 .. n : s[j] = k
  /\ \A j \in 1 .. n : tab[s[j]].next = Nth(s, j - 1)

\* How much of the list has been freed.
Unwound(s) ==
  at \in {"del", "closed"} =>
    /\ Len(freed) <= count
    /\ pos = Nth(s, count - Len(freed))
    /\ \A j \in 1 .. Len(freed) : freed[j] = table[s[count + 1 - j]].decl

Listed == \E s : Threads(table, count, s) /\ list = Nth(s, count) /\ Unwound(s)

\* What the search in progress has passed, and has not found.
Finding == at = "find" =>
  /\ want \in {HashOf[d] : d \in Decls}
  /\ psl = Dist(want, pos, size)
  /\ Passed(table, size, pos, psl)
  /\ \A n \in 1 .. psl : HashOf[table[Behind(pos, n, size)].decl] # want
  /\ todo # NoDecl => HashOf[todo] = want /\ todo \notin DeclsOf(table)

\* The declaration being pushed is the only one of its identifier.
Adding == at \in {"insert", "pushed", "rehash"} =>
  /\ todo \in Stored /\ HashOf[todo] = want
  /\ \A d \in Stored \ {todo} : HashOf[d] # want

\* The bucket on its way to a free slot, of which there is one.
Inserting == at = "insert" =>
  /\ new.decl \in Decls \ DeclsOf(table)
  /\ new.next = list
  /\ new.psl = Dist(HashOf[new.decl], pos, size)
  /\ Passed(table, size, pos, new.psl)
  /\ count < size

\* The table being moved into one of twice its size.
Growing == old # <<>> =>
  \E n \in 1 .. size :
    /\ at \in {"insert", "rehash"}
    /\ size = 2 * n /\ old \in [0 .. n - 1 -> Bucket] /\ i \in 0 .. n
    /\ Distinct(old)
    /\ \A k \in Pending : /\ old[k].decl \notin DeclsOf(table)
                          /\ at = "insert" => old[k].decl # new.decl
    /\ count <= i /\ (at = "insert" => count < i)

Modes ==
  /\ at \in {"idle", "del", "closed"} => want = 0 /\ todo = NoDecl
  /\ at \in {"idle", "find"} => HasRoom
  /\ at = "rehash" => old # <<>>
  /\ at \notin {"del", "closed"} => freed = <<>>
  /\ at = "closed" => Len(freed) = count

IInv == /\ TypeOK /\ RobinHood(table, size) /\ Distinct(table) /\ Listed
        /\ Finding /\ Adding /\ Inserting /\ Growing /\ Modes

-----------------------------------------------------------------------------
(* Slots of a circular table. *)

LEMMA ModWrap ==
  ASSUME NEW n \in Nat \ {0}, NEW x \in Int, -n <= x, x < 2 * n
  PROVE  x % n = IF x < 0 THEN x + n ELSE IF x < n THEN x ELSE x - n
  OBVIOUS

LEMMA BehindIs ==
  ASSUME NEW sz \in Nat \ {0}, NEW k \in 0 .. sz - 1, NEW n \in 0 .. sz
  PROVE  /\ Behind(k, n, sz) = IF n <= k THEN k - n ELSE k - n + sz
         /\ Behind(k, n, sz) \in 0 .. sz - 1
<1>1. k - n \in Int /\ -sz <= k - n /\ k - n < 2 * sz
  OBVIOUS
<1>2. (k - n) % sz = IF k - n < 0 THEN k - n + sz ELSE IF k - n < sz THEN k - n ELSE k - n - sz
  BY <1>1, ModWrap
<1>3. QED
  BY <1>2 DEF Behind

LEMMA HomeIs ==
  ASSUME NEW sz \in Nat \ {0}, NEW h \in Nat
  PROVE  h % sz \in 0 .. sz - 1
  OBVIOUS

LEMMA DistIs ==
  ASSUME NEW sz \in Nat \ {0}, NEW k \in 0 .. sz - 1, NEW h \in Nat
  PROVE  /\ h % sz \in 0 .. sz - 1
         /\ Dist(h, k, sz) = IF h % sz <= k THEN k - (h % sz) ELSE k - (h % sz) + sz
         /\ Dist(h, k, sz) \in 0 .. sz - 1
<1> DEFINE e == h % sz
<1>1. e \in 0 .. sz - 1
  BY HomeIs
<1>2. Dist(h, k, sz) = Behind(k, e, sz)
  BY DEF Dist, Behind
<1> HIDE DEF e
<1>3. Behind(k, e, sz) = (IF e <= k THEN k - e ELSE k - e + sz)
      /\ Behind(k, e, sz) \in 0 .. sz - 1
  BY <1>1, BehindIs
<1>4. QED
  BY <1>1, <1>2, <1>3 DEF e

LEMMA DistIn ==
  ASSUME NEW sz \in Nat \ {0}, NEW k \in 0 .. sz - 1, NEW h \in Nat
  PROVE  Dist(h, k, sz) \in 0 .. sz - 1
  BY DistIs

LEMMA AfterIs ==
  ASSUME NEW sz \in Nat \ {0}, NEW k \in 0 .. sz - 1
  PROVE  /\ After(k, sz) = IF k + 1 = sz THEN 0 ELSE k + 1
         /\ After(k, sz) \in 0 .. sz - 1
<1>1. PICK x \in Int : x = k + 1
  OBVIOUS
<1>2. -sz <= x /\ x < 2 * sz
  BY <1>1
<1>3. x % sz = IF x < 0 THEN x + sz ELSE IF x < sz THEN x ELSE x - sz
  BY <1>2, ModWrap
<1>4. QED
  BY <1>1, <1>3 DEF After

LEMMA BehindAfter ==
  ASSUME NEW sz \in Nat \ {0}, NEW k \in 0 .. sz - 1, NEW n \in 1 .. sz
  PROVE  Behind(After(k, sz), n, sz) = Behind(k, n - 1, sz)
<1>1. /\ After(k, sz) \in 0 .. sz - 1
      /\ After(k, sz) = IF k + 1 = sz THEN 0 ELSE k + 1
  BY AfterIs
<1>2. n - 1 \in 0 .. sz /\ n \in 0 .. sz
  OBVIOUS
<1>3. Behind(k, n - 1, sz) = IF n - 1 <= k THEN k - (n - 1) ELSE k - (n - 1) + sz
  BY <1>2, BehindIs
<1>4. Behind(After(k, sz), n, sz) = IF n <= After(k, sz) THEN After(k, sz) - n
                                    ELSE After(k, sz) - n + sz
  BY <1>1, <1>2, BehindIs
<1>5. QED
  BY <1>1, <1>3, <1>4

\* Every slot is behind any other.
LEMMA BehindAll ==
  ASSUME NEW sz \in Nat \ {0}, NEW k \in 0 .. sz - 1, NEW q \in 0 .. sz - 1, q # k
  PROVE  \E n \in 1 .. sz - 1 : Behind(k, n, sz) = q
<1>1. CASE q < k
  <2>1. k - q \in 1 .. sz - 1 /\ Behind(k, k - q, sz) = q
    BY <1>1, BehindIs
  <2>2. QED
    BY <2>1
<1>2. CASE k < q
  <2>1. k - q + sz \in 1 .. sz - 1 /\ Behind(k, k - q + sz, sz) = q
    BY <1>2, BehindIs
  <2>2. QED
    BY <2>1
<1>3. QED
  BY <1>1, <1>2

-----------------------------------------------------------------------------
(* Probes. *)

Tables(sz) == [0 .. sz - 1 -> Bucket]

\* A probe that moves past a bucket at least as far from its home.
LEMMA PassedOn ==
  ASSUME NEW sz \in Nat \ {0}, NEW tab, NEW k \in 0 .. sz - 1, NEW p \in Nat,
         tab \in Tables(sz), Passed(tab, sz, k, p), p + 1 < sz,
         tab[k].decl # NoDecl, tab[k].psl >= p
  PROVE  Passed(tab, sz, After(k, sz), p + 1)
<1> SUFFICES ASSUME NEW n \in 1 .. p + 1
             PROVE  /\ tab[Behind(After(k, sz), n, sz)].decl # NoDecl
                    /\ tab[Behind(After(k, sz), n, sz)].psl >= p + 1 - n
  BY DEF Passed
<1>1. Behind(After(k, sz), n, sz) = Behind(k, n - 1, sz)
  BY BehindAfter
<1>2. CASE n = 1
  <2>1. Behind(k, 0, sz) = k
    BY BehindIs
  <2>2. tab[k].psl \in Nat
    BY DEF Tables, Bucket
  <2>3. QED
    BY <1>1, <1>2, <2>1, <2>2
<1>3. CASE n # 1
  <2>1. n - 1 \in 1 .. p
    BY <1>3
  <2>2. /\ tab[Behind(k, n - 1, sz)].decl # NoDecl
        /\ tab[Behind(k, n - 1, sz)].psl >= p - (n - 1)
    BY <2>1 DEF Passed
  <2>3. Behind(k, n - 1, sz) \in 0 .. sz - 1
    <3>1. n - 1 \in 0 .. sz
      BY <2>1
    <3>2. QED
      BY <3>1, BehindIs
  <2>4. tab[Behind(k, n - 1, sz)].psl \in Nat
    BY <2>3 DEF Tables, Bucket
  <2>5. QED
    BY <1>1, <2>2, <2>4
<1>4. QED
  BY <1>2, <1>3

\* A bucket that is stored in a free slot, or in place of one nearer to its
\* home, does not stop a probe.
LEMMA PassedKept ==
  ASSUME NEW sz \in Nat \ {0}, NEW tab, NEW k \in 0 .. sz - 1, NEW b \in Bucket,
         tab \in Tables(sz), b.decl # NoDecl,
         tab[k].decl = NoDecl \/ tab[k].psl <= b.psl,
         NEW q \in 0 .. sz - 1, NEW p \in 0 .. sz - 1, Passed(tab, sz, q, p)
  PROVE  Passed([tab EXCEPT ![k] = b], sz, q, p)
<1> DEFINE new_ == [tab EXCEPT ![k] = b]
<1> SUFFICES ASSUME NEW n \in 1 .. p
             PROVE  /\ new_[Behind(q, n, sz)].decl # NoDecl
                    /\ new_[Behind(q, n, sz)].psl >= p - n
  BY DEF Passed
<1>1. PICK r \in 0 .. sz - 1 : r = Behind(q, n, sz)
  BY BehindIs
<1>2. tab[r].decl # NoDecl /\ tab[r].psl >= p - n /\ tab[r].psl \in Nat /\ b.psl \in Nat
  BY <1>1 DEF Passed, Tables, Bucket
<1>3. CASE r = k
  <2>1. new_[r] = b
    BY <1>3 DEF Tables
  <2>2. QED
    BY <1>1, <1>2, <1>3, <2>1
<1>4. CASE r # k
  <2>1. new_[r] = tab[r]
    BY <1>4 DEF Tables
  <2>2. QED
    BY <1>1, <1>2, <2>1
<1>5. QED
  BY <1>3, <1>4

LEMMA HashIs ==
  /\ \A d \in Decls : HashOf[d] \in Nat \ {0} /\ HashOf[d] # NoDecl
  /\ NoDecl \notin Decls
  BY ScopeAssumption

LEMMA UsedIs ==
  ASSUME NEW sz \in Nat \ {0}, NEW tab, tab \in Tables(sz)
  PROVE  /\ \A k : k \in Used(tab) <=> k \in 0 .. sz - 1 /\ tab[k].decl # NoDecl
         /\ \A k \in Used(tab) : tab[k].decl \in Decls
  BY DEF Used, Tables, Bucket

\* The table stays a Robin Hood table when a probe stores its bucket.
LEMMA RobinHoodKept ==
  ASSUME NEW sz \in Nat \ {0}, NEW tab, NEW k \in 0 .. sz - 1, NEW b \in Bucket,
         tab \in Tables(sz), b.decl \in Decls,
         tab[k].decl = NoDecl \/ tab[k].psl <= b.psl,
         b.psl = Dist(HashOf[b.decl], k, sz), Passed(tab, sz, k, b.psl),
         RobinHood(tab, sz)
  PROVE  RobinHood([tab EXCEPT ![k] = b], sz)
<1> DEFINE tab2 == [tab EXCEPT ![k] = b]
<1>1. tab2 \in Tables(sz)
  BY DEF Tables
<1>2. b.decl # NoDecl
  BY HashIs
<1> SUFFICES ASSUME NEW j \in Used(tab2)
             PROVE  /\ tab2[j].psl = Dist(HashOf[tab2[j].decl], j, sz)
                    /\ Passed(tab2, sz, j, tab2[j].psl)
  BY DEF RobinHood
<1>3. j \in 0 .. sz - 1
  BY <1>1, UsedIs
<1>4. CASE j = k
  <2>1. tab2[j] = b
    BY <1>4 DEF Tables
  <2>2. HashOf[b.decl] \in Nat
    BY HashIs
  <2>3. b.psl \in 0 .. sz - 1
    BY ZenonT(30), <2>2, DistIn
  <2>4. Passed(tab2, sz, k, b.psl)
    BY <1>2, <2>3, PassedKept
  <2>5. QED
    BY <1>4, <2>1, <2>4
<1>5. CASE j # k
  <2>1. tab2[j] = tab[j]
    BY <1>3, <1>5 DEF Tables
  <2>2. j \in Used(tab) /\ tab[j].decl \in Decls
    <3>1. tab[j].decl # NoDecl
      BY <1>1, <2>1, UsedIs
    <3>2. QED
      BY <1>3, <3>1, UsedIs
  <2>3. tab[j].psl = Dist(HashOf[tab[j].decl], j, sz) /\ Passed(tab, sz, j, tab[j].psl)
    BY <2>2 DEF RobinHood
  <2>4. PICK h \in Nat : h = HashOf[tab[j].decl]
    BY <2>2, HashIs
  <2>5. tab[j].psl \in 0 .. sz - 1
    <3>1. Dist(h, j, sz) \in 0 .. sz - 1
      BY <1>3, DistIn
    <3>2. QED
      BY <2>3, <2>4, <3>1
  <2>6. Passed(tab2, sz, j, tab[j].psl)
    BY <1>2, <1>3, <2>3, <2>5, PassedKept
  <2>7. QED
    BY <2>1, <2>3, <2>6
<1>6. QED
  BY <1>4, <1>5

\* A list of all used slots that has fewer nodes than the table has slots
\* leaves one free.
LEMMA FreeSlot ==
  ASSUME NEW sz \in Nat \ {0}, NEW tab, tab \in Tables(sz),
         NEW n \in Nat, NEW s, Threads(tab, n, s), n < sz
  PROVE  \E q \in 0 .. sz - 1 : tab[q].decl = NoDecl
<1> SUFFICES ASSUME \A q \in 0 .. sz - 1 : tab[q].decl # NoDecl
             PROVE  FALSE
  OBVIOUS
<1>1. Used(tab) = 0 .. sz - 1
  BY DEF Used, Tables
<1>2. s \in Surjection(1 .. n, 0 .. sz - 1)
  BY <1>1 DEF Threads, Surjection, Range
<1>3. IsFiniteSet(1 .. n) /\ Cardinality(1 .. n) = n
  BY FS_Interval
<1>4. Cardinality(0 .. sz - 1) <= Cardinality(1 .. n)
  BY <1>2, <1>3, FS_Surjection
<1>5. Cardinality(0 .. sz - 1) = sz
  BY FS_Interval
<1>6. QED
  BY <1>3, <1>4, <1>5

\* While there is a free slot, a probe stops before it is back at its home.
LEMMA ProbeEnds ==
  ASSUME NEW sz \in Nat \ {0}, NEW tab, tab \in Tables(sz),
         NEW k \in 0 .. sz - 1, NEW p \in 0 .. sz - 1, Passed(tab, sz, k, p),
         tab[k].decl # NoDecl, \E q \in 0 .. sz - 1 : tab[q].decl = NoDecl
  PROVE  p + 1 < sz
<1> SUFFICES ASSUME p = sz - 1 PROVE FALSE
  OBVIOUS
<1>1. PICK q \in 0 .. sz - 1 : tab[q].decl = NoDecl
  OBVIOUS
<1>2. PICK n \in 1 .. sz - 1 : Behind(k, n, sz) = q
  BY <1>1, BehindAll
<1>3. tab[Behind(k, n, sz)].decl # NoDecl
  BY <1>2 DEF Passed
<1>4. QED
  BY <1>1, <1>2, <1>3

LEMMA DistAfter ==
  ASSUME NEW sz \in Nat \ {0}, NEW k \in 0 .. sz - 1, NEW h \in Nat, Dist(h, k, sz) + 1 < sz
  PROVE  Dist(h, After(k, sz), sz) = Dist(h, k, sz) + 1
<1>1. PICK e \in 0 .. sz - 1 : e = h % sz
  BY HomeIs
<1>2. After(k, sz) \in 0 .. sz - 1 /\ After(k, sz) = IF k + 1 = sz THEN 0 ELSE k + 1
  BY AfterIs
<1>3. Dist(h, k, sz) = IF e <= k THEN k - e ELSE k - e + sz
  BY <1>1, DistIs
<1>4. \A q \in 0 .. sz - 1 : Dist(h, q, sz) = IF e <= q THEN q - e ELSE q - e + sz
  BY <1>1, DistIs
<1>5. Dist(h, After(k, sz), sz) = IF e <= After(k, sz) THEN After(k, sz) - e
                                  ELSE After(k, sz) - e + sz
  BY <1>2, <1>4
<1>6. QED
  BY <1>2, <1>3, <1>5

-----------------------------------------------------------------------------
(* A bucket is stored in a slot. *)

LEMMA UsedStore ==
  ASSUME NEW sz \in Nat \ {0}, NEW tab, NEW k \in 0 .. sz - 1, NEW b \in Bucket,
         tab \in Tables(sz), b.decl \in Decls
  PROVE  LET new_ == [tab EXCEPT ![k] = b]
         IN  /\ new_ \in Tables(sz)
             /\ new_[k] = b
             /\ \A j \in 0 .. sz - 1 : j # k => new_[j] = tab[j]
             /\ Used(new_) = Used(tab) \cup {k}
  BY HashIs DEF Used, Tables

LEMMA DeclsStore ==
  ASSUME NEW sz \in Nat \ {0}, NEW tab, NEW k \in 0 .. sz - 1, NEW b \in Bucket,
         tab \in Tables(sz), b.decl \in Decls, b.decl \notin DeclsOf(tab), Distinct(tab)
  PROVE  LET new_ == [tab EXCEPT ![k] = b]
         IN  /\ DeclsOf(new_) = (DeclsOf(tab) \ {tab[k].decl}) \cup {b.decl}
             /\ Distinct(new_)
<1> DEFINE tab2 == [tab EXCEPT ![k] = b]
<1>1. /\ tab2 \in Tables(sz) /\ tab2[k] = b
      /\ \A j \in 0 .. sz - 1 : j # k => tab2[j] = tab[j]
      /\ Used(tab2) = Used(tab) \cup {k}
      /\ Used(tab) \subseteq 0 .. sz - 1
  <2>1. Used(tab) \subseteq 0 .. sz - 1
    BY UsedIs
  <2>2. /\ tab2 \in Tables(sz) /\ tab2[k] = b
        /\ \A j \in 0 .. sz - 1 : j # k => tab2[j] = tab[j]
        /\ Used(tab2) = Used(tab) \cup {k}
    BY HashIs DEF Used, Tables
  <2>3. QED
    BY <2>1, <2>2
<1> HIDE DEF tab2
<1>2. \A j \in Used(tab) : tab[j].decl # b.decl
  BY DEF DeclsOf
<1>3. \A j \in Used(tab) : tab[j].decl = tab[k].decl => j = k
  <2>1. k \notin Used(tab) => \A j \in Used(tab) : tab[j].decl # tab[k].decl
    BY UsedIs
  <2>2. QED
    BY <2>1 DEF Distinct
<1>4. DeclsOf(tab2) = (DeclsOf(tab) \ {tab[k].decl}) \cup {b.decl}
  <2>1. ASSUME NEW x \in DeclsOf(tab2)
        PROVE  x \in (DeclsOf(tab) \ {tab[k].decl}) \cup {b.decl}
    <3>1. PICK j \in Used(tab2) : x = tab2[j].decl
      BY <2>1 DEF DeclsOf
    <3>2. CASE j = k
      BY <1>1, <3>1, <3>2
    <3>3. CASE j # k
      <4>1. j \in Used(tab) /\ tab2[j] = tab[j]
        BY <1>1, <3>3
      <4>2. QED
        BY <1>3, <3>1, <3>3, <4>1 DEF DeclsOf
    <3>4. QED
      BY <3>2, <3>3
  <2>2. ASSUME NEW x \in DeclsOf(tab), x # tab[k].decl
        PROVE  x \in DeclsOf(tab2)
    <3>1. PICK j \in Used(tab) : x = tab[j].decl
      BY <2>2 DEF DeclsOf
    <3>2. j # k /\ tab2[j] = tab[j] /\ j \in Used(tab2)
      BY <1>1, <2>2, <3>1
    <3>3. QED
      BY <3>1, <3>2 DEF DeclsOf
  <2>3. b.decl \in DeclsOf(tab2)
    <3>1. k \in Used(tab2) /\ tab2[k].decl = b.decl
      BY <1>1
    <3>2. QED
      BY <3>1 DEF DeclsOf
  <2>4. QED
    BY <2>1, <2>2, <2>3
<1>5. Distinct(tab2)
  <2>1. SUFFICES ASSUME NEW j \in Used(tab2), NEW l \in Used(tab2),
                        tab2[j].decl = tab2[l].decl, j # l
                 PROVE  FALSE
    BY DEF Distinct
  <2>2. CASE j = k
    <3>1. l \in Used(tab) /\ tab2[l] = tab[l] /\ tab2[j] = b
      BY <1>1, <2>1, <2>2
    <3>2. QED
      BY <1>2, <2>1, <3>1
  <2>3. CASE l = k
    <3>1. j \in Used(tab) /\ tab2[j] = tab[j] /\ tab2[l] = b
      BY <1>1, <2>1, <2>3
    <3>2. QED
      BY <1>2, <2>1, <3>1
  <2>4. CASE j # k /\ l # k
    <3>1. j \in Used(tab) /\ l \in Used(tab) /\ tab2[j] = tab[j] /\ tab2[l] = tab[l]
      BY <1>1, <2>1, <2>4
    <3>2. QED
      BY <2>1, <3>1 DEF Distinct
  <2>5. QED
    BY <2>2, <2>3, <2>4
<1>6. QED
  BY <1>4, <1>5 DEF tab2

\* A bucket that takes over a slot keeps the list if it keeps the successor.
LEMMA ThreadsSwap ==
  ASSUME NEW sz \in Nat \ {0}, NEW tab, NEW b \in Bucket,
         tab \in Tables(sz), b.decl \in Decls, NEW k \in Used(tab), b.next = tab[k].next,
         NEW n \in Nat, NEW s, Threads(tab, n, s)
  PROVE  Threads([tab EXCEPT ![k] = b], n, s)
<1> DEFINE tab2 == [tab EXCEPT ![k] = b]
<1>1. k \in 0 .. sz - 1 /\ Used(tab) \subseteq 0 .. sz - 1
  BY UsedIs
<1>2. /\ tab2[k] = b
      /\ \A j \in 0 .. sz - 1 : j # k => tab2[j] = tab[j]
      /\ Used(tab2) = Used(tab)
  <2>1. Used(tab) \cup {k} = Used(tab)
    OBVIOUS
  <2>2. QED
    BY <1>1, <2>1, UsedStore
<1> HIDE DEF tab2
<1>3. \A j \in Used(tab) : tab2[j].next = tab[j].next
  BY <1>1, <1>2
<1>4. \A j \in 1 .. n : tab2[s[j]].next = Nth(s, j - 1)
  BY <1>3 DEF Threads
<1>5. QED
  BY <1>2, <1>4 DEF Threads, tab2

Lists(tab, n, first) == \E t : Threads(tab, n, t) /\ first = Nth(t, n)

\* A bucket stored in a free slot becomes the first of the list.
LEMMA ThreadsStore ==
  ASSUME NEW sz \in Nat \ {0}, NEW tab, NEW k \in 0 .. sz - 1, NEW b \in Bucket,
         tab \in Tables(sz), b.decl \in Decls, tab[k].decl = NoDecl,
         NEW n \in Nat, NEW s, Threads(tab, n, s), b.next = Nth(s, n)
  PROVE  Lists([tab EXCEPT ![k] = b], n + 1, k)
<1> DEFINE tab2 == [tab EXCEPT ![k] = b]
           t    == [j \in 1 .. n + 1 |-> IF j = n + 1 THEN k ELSE s[j]]
<1>1. /\ tab2[k] = b
      /\ \A j \in 0 .. sz - 1 : j # k => tab2[j] = tab[j]
      /\ Used(tab2) = Used(tab) \cup {k}
      /\ k \notin Used(tab) /\ Used(tab) \subseteq 0 .. sz - 1
  BY UsedStore, UsedIs
<1>2. /\ t[n + 1] = k
      /\ \A j \in 1 .. n : t[j] = s[j] /\ t[j] \in Used(tab) /\ j \in 1 .. n + 1
      /\ \A j \in 1 .. n + 1 : j = n + 1 \/ j \in 1 .. n
      /\ n + 1 \in 1 .. n + 1
  BY DEF Threads
<1>3. t \in [1 .. n + 1 -> Used(tab2)]
  <2>1. \A j \in 1 .. n : s[j] \in Used(tab2)
    BY <1>1 DEF Threads
  <2>2. \A j \in 1 .. n + 1 : (IF j = n + 1 THEN k ELSE s[j]) \in Used(tab2)
    BY <1>1, <1>2, <2>1
  <2>3. QED
    BY <2>2
<1> HIDE DEF tab2, t
<1>4. \A j, l \in 1 .. n + 1 : t[j] = t[l] => j = l
  BY <1>1, <1>2 DEF Threads
<1>5. \A q \in Used(tab2) : \E j \in 1 .. n + 1 : t[j] = q
  BY <1>1, <1>2 DEF Threads
<1>6. ASSUME NEW j \in 1 .. n + 1 PROVE tab2[t[j]].next = Nth(t, j - 1)
  <2>1. CASE j = n + 1
    <3>1. Nth(t, n) = Nth(s, n)
      BY <1>2 DEF Nth
    <3>2. j - 1 = n
      BY <2>1
    <3>3. QED
      BY <1>1, <1>2, <2>1, <3>1, <3>2
  <2>2. CASE j # n + 1
    <3>1. j \in 1 .. n /\ (j - 1 = 0 \/ j - 1 \in 1 .. n)
      BY <2>2
    <3>2. Nth(t, j - 1) = Nth(s, j - 1)
      BY <1>2, <3>1 DEF Nth
    <3>3. tab2[t[j]] = tab[s[j]]
      BY <1>1, <1>2, <3>1
    <3>4. QED
      BY <3>1, <3>2, <3>3 DEF Threads
  <2>3. QED
    BY <2>1, <2>2
<1>7. Threads(tab2, n + 1, t)
  BY <1>3, <1>4, <1>5, <1>6 DEF Threads
<1>8. Nth(t, n + 1) = k
  BY <1>2 DEF Nth
<1>9. QED
  BY <1>7, <1>8 DEF tab2, Lists

-----------------------------------------------------------------------------
(* The invariant holds initially, and in the steps of prosScope_findDecl. *)

LEMMA InitInv == ASSUME Init PROVE IInv
<1>1. /\ size \in Nat \ {0} /\ table = [k \in 0 .. size - 1 |-> Null]
      /\ Null \in Bucket
  BY ScopeAssumption DEF Init, Calloc, Null, Bucket
<1>2. table \in Tables(size) /\ \A k \in 0 .. size - 1 : table[k].decl = NoDecl
  BY <1>1 DEF Tables, Null
<1>3. Used(table) = {}
  BY <1>1, <1>2, UsedIs
<1>4. TypeOK
  <2>1. 0 \in 0 .. size - 1 /\ -1 \in -1 .. size - 1
    BY <1>1
  <2>2. freed \in Seq(Decls)
    BY DEF Init
  <2>3. QED
    BY <1>1, <1>2, <2>1, <2>2 DEF Init, TypeOK, Tables
<1>5. RobinHood(table, size) /\ Distinct(table)
  BY <1>3 DEF RobinHood, Distinct
<1>6. Listed
  <2>1. Threads(table, 0, <<>>) /\ Nth(<<>>, 0) = -1
    BY <1>3 DEF Threads, Nth
  <2>2. Threads(table, count, <<>>) /\ list = Nth(<<>>, count) /\ Unwound(<<>>)
    BY <2>1 DEF Init, Unwound
  <2>3. QED
    BY <2>2 DEF Listed
<1>7. Finding /\ Adding /\ Inserting /\ Growing
  BY DEF Init, Finding, Adding, Inserting, Growing
<1>8. Modes
  BY <1>1 DEF Init, Modes, HasRoom
<1>9. QED
  BY <1>4, <1>5, <1>6, <1>7, <1>8 DEF IInv

\* What the steps that leave the table alone keep.
LEMMA TableRests ==
  ASSUME IInv, UNCHANGED <<size, table, list, count, freed>>,
         at \notin {"del", "closed"}, at' \notin {"del", "closed"}
  PROVE  RobinHood(table, size)' /\ Distinct(table)' /\ Listed'
<1>1. RobinHood(table, size)' /\ Distinct(table)'
  BY DEF IInv, RobinHood, Distinct, Passed, Behind, Dist, Used
<1>2. PICK s : Threads(table, count, s) /\ list = Nth(s, count)
  BY DEF IInv, Listed
<1>3. Threads(table, count, s)' /\ (list = Nth(s, count))' /\ Unwound(s)'
  BY <1>2 DEF Threads, Nth, Used, Unwound
<1>4. QED
  BY <1>1, <1>3 DEF Listed

LEMMA AskInv ==
  ASSUME IInv, NEW d \in Decls, LookUp(d) \/ Declare(d)
  PROVE  IInv'
<1>1. PICK t \in {d, NoDecl} : Ask(d, t) /\ (t = d => d \notin DeclsOf(table))
  <2>1. d # NoDecl
    BY HashIs
  <2>2. CASE LookUp(d)
    BY <2>1, <2>2 DEF LookUp
  <2>3. CASE Declare(d)
    BY <2>3 DEF Declare, DeclsOf
  <2>4. QED
    BY <2>2, <2>3
<1>2. size \in Nat \ {0} /\ HashOf[d] \in Nat /\ t \in Decls \cup {NoDecl}
  BY <1>1, HashIs DEF IInv, TypeOK
<1>3. PICK h \in Nat : h = HashOf[d]
  BY <1>2
<1>4. PICK e \in 0 .. size - 1 : e = h % size
  BY <1>2, HomeIs
<1>5. pos' = e /\ want' = h /\ todo' = t /\ psl' = 0 /\ at' = "find"
  BY <1>1, <1>3, <1>4 DEF Ask, Home
<1>6. Dist(h, e, size) = 0
  BY <1>2, <1>4, DistIs
<1>7. at = "idle" /\ UNCHANGED <<size, table, list, count, old, i, new, ret, freed>>
  BY <1>1 DEF Ask
<1>8. RobinHood(table, size)' /\ Distinct(table)' /\ Listed'
  BY <1>5, <1>7, TableRests
<1>9. TypeOK'
  BY <1>2, <1>5, <1>7 DEF IInv, TypeOK
<1>10. Finding'
  <2>1. (Dist(want, pos, size) = psl)'
    BY <1>5, <1>6, <1>7 DEF Dist
  <2>2. (todo # NoDecl => HashOf[todo] = want /\ todo \notin DeclsOf(table))'
    BY <1>1, <1>3, <1>5, <1>7 DEF DeclsOf, Used
  <2>3. want' \in {HashOf[x] : x \in Decls}
    BY <1>3, <1>5
  <2>4. (1 .. psl = {})'
    BY <1>5
  <2>5. QED
    BY <2>1, <2>2, <2>3, <2>4 DEF Finding, Passed
<1>11. Adding' /\ Inserting' /\ Growing' /\ Modes'
  BY <1>5, <1>7 DEF IInv, Adding, Inserting, Growing, Modes, HasRoom
<1>12. QED
  BY <1>8, <1>9, <1>10, <1>11 DEF IInv

\* Where the code is between two loops nothing is being moved.
LEMMA AtRest ==
  ASSUME IInv, at \notin {"insert", "rehash"}
  PROVE  old = <<>>
  BY DEF IInv, Growing

\* A call returns.
LEMMA AnswerInv ==
  ASSUME IInv, at \in {"find", "pushed"}, HasRoom, NEW d \in Decls \cup {NoDecl}, Answer(d),
         UNCHANGED <<size, table, list, count, old, i, new, pos, psl, freed>>
  PROVE  IInv'
<1>1. at' = "idle" /\ want' = 0 /\ todo' = NoDecl /\ ret' = d
  BY DEF Answer
<1>2. RobinHood(table, size)' /\ Distinct(table)' /\ Listed'
  BY <1>1, TableRests
<1>3. TypeOK'
  BY <1>1 DEF IInv, TypeOK, Bucket
<1>4. old = <<>>
  BY AtRest
<1>5. Finding' /\ Adding' /\ Inserting' /\ Growing' /\ Modes'
  BY <1>1, <1>4 DEF IInv, Finding, Adding, Inserting, Growing, Modes, HasRoom
<1>6. QED
  BY <1>2, <1>3, <1>5 DEF IInv

LEMMA FindHitInv == ASSUME IInv, FindHit PROVE IInv'
<1>1. table[pos].decl \in Decls \cup {NoDecl}
  <2>1. pos \in 0 .. size - 1 /\ table \in [0 .. size - 1 -> Bucket]
    BY DEF IInv, TypeOK, FindHit
  <2>2. QED
    BY <2>1 DEF Bucket
<1>2. HasRoom
  BY DEF IInv, Modes, FindHit
<1>3. QED
  BY <1>1, <1>2, AnswerInv DEF FindHit

LEMMA FindMissInv == ASSUME IInv, FindMiss PROVE IInv'
<1>1. HasRoom
  BY DEF IInv, Modes, FindMiss
<1>2. QED
  BY <1>1, AnswerInv DEF FindMiss

\* The probe never gets around a table that has room.
LEMMA RoomLeft ==
  ASSUME IInv, count < size
  PROVE  \E q \in 0 .. size - 1 : table[q].decl = NoDecl
<1>1. PICK s : Threads(table, count, s)
  BY DEF IInv, Listed
<1>2. size \in Nat \ {0} /\ table \in Tables(size) /\ count \in Nat
  BY DEF IInv, TypeOK, Tables
<1>3. QED
  BY <1>1, <1>2, FreeSlot

LEMMA FindAdvanceInv == ASSUME IInv, FindAdvance PROVE IInv'
<1>1. /\ at = "find" /\ at' = "find"
      /\ pos' = After(pos, size) /\ psl' = psl + 1
      /\ UNCHANGED <<size, table, list, count, old, i, new, want, todo, ret, freed>>
  BY DEF FindAdvance, NextSlot, After
<1>2. /\ size \in Nat \ {0} /\ table \in Tables(size)
      /\ pos \in 0 .. size - 1 /\ count \in Nat /\ psl \in Nat
  BY <1>1 DEF IInv, TypeOK, Tables
<1>3. PICK h \in Nat : h = want
  BY DEF IInv, TypeOK
<1>4. psl = Dist(h, pos, size) /\ psl \in 0 .. size - 1 /\ Passed(table, size, pos, psl)
  BY <1>1, <1>2, <1>3, DistIs DEF IInv, Finding
<1>5. table[pos].decl # NoDecl /\ table[pos].psl >= psl
  <2>1. table[pos].psl \in Nat
    BY <1>2 DEF Tables, Bucket
  <2>2. QED
    BY <1>2, <2>1 DEF FindAdvance, GivesUp
<1>6. psl + 1 < size
  <2>1. count < size
    BY <1>1, <1>2 DEF IInv, Modes, HasRoom
  <2>2. QED
    BY <1>2, <1>4, <1>5, <2>1, RoomLeft, ProbeEnds
<1>7. /\ Dist(h, After(pos, size), size) = psl + 1
      /\ Passed(table, size, After(pos, size), psl + 1)
      /\ After(pos, size) \in 0 .. size - 1
  BY <1>2, <1>4, <1>5, <1>6, DistAfter, PassedOn, AfterIs
<1>8. ASSUME NEW n \in 1 .. psl + 1
      PROVE  HashOf[table[Behind(After(pos, size), n, size)].decl] # want
  <2>1. n \in 1 .. size
    BY <1>2, <1>6
  <2>2. Behind(After(pos, size), n, size) = Behind(pos, n - 1, size)
    BY <1>2, <2>1, BehindAfter
  <2>3. CASE n = 1
    <3>1. Behind(pos, 0, size) = pos
      BY <1>2, BehindIs
    <3>2. HashOf[table[pos].decl] # want
      BY <1>5 DEF FindAdvance, Holds
    <3>3. QED
      BY <2>2, <2>3, <3>1, <3>2
  <2>4. CASE n # 1
    <3>1. n - 1 \in 1 .. psl
      BY <1>2, <2>4
    <3>2. QED
      BY <1>1, <2>2, <3>1 DEF IInv, Finding
  <2>5. QED
    BY <2>3, <2>4
<1>9. RobinHood(table, size)' /\ Distinct(table)' /\ Listed'
  BY <1>1, TableRests
<1>10. TypeOK'
  <2>1. pos' \in 0 .. size - 1 /\ psl' \in Nat
    BY <1>1, <1>2, <1>7
  <2>2. QED
    BY <1>1, <2>1 DEF IInv, TypeOK
<1>11. Finding'
  <2>1. (psl = Dist(want, pos, size))' /\ Passed(table, size, pos, psl)'
    BY <1>1, <1>3, <1>7 DEF Dist, Passed, Behind
  <2>2. (\A n \in 1 .. psl : HashOf[table[Behind(pos, n, size)].decl] # want)'
    BY <1>1, <1>8 DEF Behind
  <2>3. /\ want' \in {HashOf[x] : x \in Decls}
        /\ (todo # NoDecl => HashOf[todo] = want /\ todo \notin DeclsOf(table))'
    BY <1>1 DEF IInv, Finding, DeclsOf, Used
  <2>4. QED
    BY <2>1, <2>2, <2>3 DEF Finding
<1>12. Adding' /\ Inserting' /\ Growing' /\ Modes'
  <2>1. old' = <<>>
    BY <1>1, AtRest
  <2>2. Modes'
    BY <1>1 DEF IInv, Modes, HasRoom
  <2>3. QED
    BY <1>1, <2>1, <2>2 DEF Adding, Inserting, Growing
<1>13. QED
  BY <1>9, <1>10, <1>11, <1>12 DEF IInv

\* A search that gives up has passed every slot its identifier could be in.
LEMMA NotFound ==
  ASSUME IInv, at = "find", GivesUp(table[pos]), NEW d \in DeclsOf(table)
  PROVE  HashOf[d] # want
<1>1. /\ size \in Nat \ {0} /\ table \in Tables(size)
      /\ pos \in 0 .. size - 1 /\ psl \in Nat
  BY DEF IInv, TypeOK, Tables
<1>2. PICK k \in Used(table) : table[k].decl = d
  BY DEF DeclsOf
<1>3. k \in 0 .. size - 1 /\ d \in Decls
  BY <1>1, <1>2, UsedIs
<1> SUFFICES ASSUME HashOf[d] = want PROVE FALSE
  OBVIOUS
<1>4. PICK h \in Nat : h = want
  BY <1>1 DEF IInv, TypeOK
<1>5. PICK e \in 0 .. size - 1 : e = h % size
  BY <1>1, HomeIs
<1>6. PICK b \in Nat : b = table[k].psl
  BY <1>1, <1>3 DEF Tables, Bucket
<1>7. b = Dist(h, k, size) /\ Passed(table, size, k, b)
  BY <1>2, <1>4, <1>6 DEF IInv, RobinHood
<1>8. b = IF e <= k THEN k - e ELSE k - e + size
  BY <1>1, <1>3, <1>5, <1>7, DistIs
<1>9. psl = IF e <= pos THEN pos - e ELSE pos - e + size
  BY <1>1, <1>4, <1>5, DistIs DEF IInv, Finding
<1>10. CASE b < psl
  <2>1. PICK n \in 1 .. psl : n = psl - b
    BY <1>1, <1>10
  <2>2. n \in 0 .. size
    BY <1>1, <1>9, <2>1
  <2>3. Behind(pos, n, size) = IF n <= pos THEN pos - n ELSE pos - n + size
    BY <1>1, <2>2, BehindIs
  <2>4. Behind(pos, n, size) = k
    BY <1>1, <1>3, <1>8, <1>9, <2>1, <2>3
  <2>5. HashOf[table[Behind(pos, n, size)].decl] # want
    BY DEF IInv, Finding
  <2>6. QED
    BY <1>2, <2>4, <2>5
<1>11. CASE psl < b
  <2>1. PICK n \in 1 .. b : n = b - psl
    BY <1>1, <1>11
  <2>2. n \in 0 .. size
    BY <1>1, <1>3, <1>8, <2>1
  <2>3. Behind(k, n, size) = IF n <= k THEN k - n ELSE k - n + size
    BY <1>1, <1>3, <2>2, BehindIs
  <2>4. Behind(k, n, size) = pos
    BY <1>1, <1>3, <1>8, <1>9, <2>1, <2>3
  <2>5. table[pos].decl # NoDecl /\ table[pos].psl >= b - n
    BY <1>7, <2>4 DEF Passed
  <2>6. QED
    BY <1>1, <2>1, <2>5 DEF GivesUp, Tables, Bucket
<1>12. CASE b = psl
  <2>1. k = pos
    BY <1>1, <1>3, <1>8, <1>9, <1>12
  <2>2. table[pos].decl # NoDecl
    BY <1>2, <1>3, <2>1, HashIs
  <2>3. table[pos].psl = psl
    BY <1>6, <1>12, <2>1
  <2>4. QED
    BY <1>1, <2>2, <2>3 DEF GivesUp
<1>13. QED
  BY <1>1, <1>10, <1>11, <1>12

-----------------------------------------------------------------------------
(* The steps of prosScope_pushDecl. *)

PendingDecls == {old[k].decl : k \in Pending}

LEMMA StoredIs ==
  Stored = DeclsOf(table) \cup PendingDecls \cup (IF at = "insert" THEN {new.decl} ELSE {})
  BY DEF Stored, DeclsOf, PendingDecls

\* A bucket sets out for a free slot.
LEMMA SetOut ==
  ASSUME IInv, NEW d \in Decls, Insert(d), UNCHANGED <<size, table, list>>, at # "del"
  PROVE  /\ at' = "insert" /\ pos' \in 0 .. size - 1
         /\ new' \in Bucket /\ new'.decl = d /\ new'.psl = 0 /\ new'.next = list
         /\ (new.psl = Dist(HashOf[new.decl], pos, size))'
         /\ Passed(table, size, pos, new.psl)'
<1>1. size \in Nat \ {0} /\ HashOf[d] \in Nat /\ list \in Int
  BY HashIs DEF IInv, TypeOK
<1>2. PICK h \in Nat : h = HashOf[d]
  BY <1>1
<1>3. PICK e \in 0 .. size - 1 : e = h % size
  BY <1>1, HomeIs
<1>4. pos' = e /\ new' = [decl |-> d, psl |-> 0, next |-> list] /\ at' = "insert"
  BY <1>2, <1>3 DEF Insert, Home
<1>5. Dist(h, e, size) = 0
  BY <1>1, <1>3, DistIs
<1>6. new' \in Bucket
  BY <1>1, <1>4 DEF Bucket
<1>7. QED
  BY <1>2, <1>4, <1>5, <1>6 DEF Dist, Passed

LEMMA PushInv == ASSUME IInv, Push PROVE IInv'
<1>1. /\ at = "find" /\ todo # NoDecl /\ Insert(todo) /\ GivesUp(table[pos])
      /\ UNCHANGED <<size, table, list, count, old, i, psl, want, todo, ret, freed>>
  BY DEF Push
<1>2. /\ size \in Nat \ {0} /\ todo \in Decls /\ count \in Nat
      /\ HashOf[todo] = want /\ todo \notin DeclsOf(table) /\ HasRoom
  BY <1>1 DEF IInv, TypeOK, Finding, Modes
<1>3. old = <<>> /\ Pending = {}
  BY <1>1, AtRest DEF Pending, Used
<1>4. /\ at' = "insert" /\ pos' \in 0 .. size - 1
      /\ new' \in Bucket /\ new'.decl = todo /\ new'.psl = 0 /\ new'.next = list
      /\ (new.psl = Dist(HashOf[new.decl], pos, size))'
      /\ Passed(table, size, pos, new.psl)'
  BY <1>1, <1>2, SetOut
<1>5. RobinHood(table, size)' /\ Distinct(table)' /\ Listed'
  BY <1>1, <1>4, TableRests
<1>6. TypeOK'
  BY <1>1, <1>4 DEF IInv, TypeOK
<1>7. Stored' = DeclsOf(table) \cup {todo}
  BY <1>1, <1>3, <1>4 DEF Stored, DeclsOf, Used, Pending
<1>8. Adding'
  <2>1. \A d \in DeclsOf(table) : HashOf[d] # want
    BY <1>1, NotFound
  <2>2. QED
    BY <1>1, <1>2, <1>7, <2>1 DEF Adding
<1>9. Inserting'
  <2>1. count < size
    BY <1>2 DEF HasRoom
  <2>2. DeclsOf(table)' = DeclsOf(table)
    BY <1>1 DEF DeclsOf, Used
  <2>3. QED
    BY <1>1, <1>2, <1>4, <2>1, <2>2 DEF Inserting
<1>10. Finding' /\ Growing' /\ Modes'
  BY <1>1, <1>3, <1>4 DEF IInv, Finding, Growing, Modes
<1>11. QED
  BY <1>5, <1>6, <1>8, <1>9, <1>10 DEF IInv

\* What an insertion is doing.
LEMMA InsertFacts ==
  ASSUME IInv, at = "insert"
  PROVE  /\ size \in Nat \ {0} /\ table \in Tables(size) /\ pos \in 0 .. size - 1
         /\ new \in Bucket /\ new.decl \in Decls /\ new.decl \notin DeclsOf(table)
         /\ new.psl \in 0 .. size - 1 /\ new.next = list
         /\ new.psl = Dist(HashOf[new.decl], pos, size)
         /\ Passed(table, size, pos, new.psl) /\ count < size /\ count \in Nat
         /\ table[pos] \in Bucket
<1>1. /\ size \in Nat \ {0} /\ table \in Tables(size) /\ pos \in 0 .. size - 1
      /\ new \in Bucket /\ count \in Nat
  BY DEF IInv, TypeOK, Tables
<1>2. /\ new.decl \in Decls /\ new.decl \notin DeclsOf(table)
      /\ new.next = list
      /\ new.psl = Dist(HashOf[new.decl], pos, size)
      /\ Passed(table, size, pos, new.psl) /\ count < size
  BY DEF IInv, Inserting
<1>3. PICK h \in Nat : h = HashOf[new.decl]
  BY <1>2, HashIs
<1>4. new.psl \in 0 .. size - 1
  BY ZenonT(30), <1>1, <1>2, <1>3, DistIn
<1>5. QED
  BY <1>1, <1>2, <1>4 DEF Tables

\* A bucket that is not as far from its home gives way to the new one.
LEMMA SwapInv ==
  ASSUME IInv, InsertAdvance, table[pos].psl < new.psl
  PROVE  IInv' /\ Stored' = Stored
<1> DEFINE t == table[pos]
           b == [new EXCEPT !.next = t.next]
<1>1. /\ at = "insert" /\ t.decl # NoDecl
      /\ table' = [table EXCEPT ![pos] = b]
      /\ new' = [t EXCEPT !.next = list, !.psl = @ + 1]
      /\ pos' = After(pos, size)
      /\ UNCHANGED <<size, list, count, old, i, psl, want, todo, ret, freed, at>>
  BY DEF InsertAdvance, Swap, NextSlot, After
<1>2. /\ size \in Nat \ {0} /\ table \in Tables(size) /\ pos \in 0 .. size - 1
      /\ new \in Bucket /\ new.decl \in Decls /\ new.decl \notin DeclsOf(table)
      /\ new.psl \in 0 .. size - 1 /\ new.next = list
      /\ new.psl = Dist(HashOf[new.decl], pos, size)
      /\ Passed(table, size, pos, new.psl) /\ count < size /\ count \in Nat
      /\ t \in Bucket
  BY <1>1, InsertFacts
<1>3. /\ b \in Bucket /\ b.decl = new.decl /\ b.psl = new.psl /\ b.next = t.next
      /\ t.psl \in Nat /\ t.psl < b.psl /\ list \in Int
  BY <1>2 DEF IInv, TypeOK, Bucket
<1>4. /\ new' \in Bucket /\ new'.decl = t.decl /\ new'.psl = t.psl + 1 /\ new'.next = list
  <2>1. new' = [decl |-> t.decl, psl |-> t.psl + 1, next |-> list]
    BY <1>1, <1>2 DEF Bucket
  <2>2. t.decl \in Decls \cup {NoDecl} /\ t.psl + 1 \in Nat
    BY <1>2, <1>3 DEF Bucket
  <2>3. QED
    BY <1>3, <2>1, <2>2 DEF Bucket
<1>5. pos \in Used(table) /\ t.decl \in Decls /\ t.decl \in DeclsOf(table)
  BY <1>1, <1>2, UsedIs DEF DeclsOf
<1>6. t.psl = Dist(HashOf[t.decl], pos, size) /\ Passed(table, size, pos, t.psl)
  BY <1>5 DEF IInv, RobinHood
<1> HIDE DEF t, b
<1>7. After(pos, size) \in 0 .. size - 1 /\ t.psl + 1 < size /\ t.psl \in 0 .. size - 1
  BY <1>2, <1>3, AfterIs
<1>8. table' \in Tables(size) /\ table'[pos] = b
  BY <1>1, <1>2, <1>3 DEF Tables
<1>8a. /\ b.decl \in Decls /\ table[pos].psl <= b.psl /\ b.decl \notin DeclsOf(table)
      /\ b.psl = Dist(HashOf[b.decl], pos, size) /\ Passed(table, size, pos, b.psl)
      /\ RobinHood(table, size) /\ Distinct(table)
  BY <1>2, <1>3 DEF IInv, t
<1>9. RobinHood(table', size)
  <2>1. RobinHood([table EXCEPT ![pos] = b], size)
    BY <1>8a, <1>2, <1>3, RobinHoodKept
  <2>2. QED
    BY <1>1, <2>1
<1>10. Distinct(table') /\ DeclsOf(table') = (DeclsOf(table) \ {t.decl}) \cup {new.decl}
  <2>1. LET new_ == [table EXCEPT ![pos] = b]
        IN  /\ DeclsOf(new_) = (DeclsOf(table) \ {table[pos].decl}) \cup {b.decl}
            /\ Distinct(new_)
    BY <1>8a, <1>2, <1>3, DeclsStore
  <2>2. QED
    BY <1>1, <1>3, <2>1 DEF t
<1>11. Passed(table', size, After(pos, size), t.psl + 1)
  <2>1. b.decl # NoDecl
    BY <1>2, <1>3, HashIs
  <2>2. Passed(table', size, pos, t.psl)
    <3>1. Passed([table EXCEPT ![pos] = b], size, pos, t.psl)
      BY <1>8a, <1>2, <1>3, <1>6, <1>7, <2>1, PassedKept
    <3>2. QED
      BY <1>1, <3>1
  <2>3. table'[pos].decl # NoDecl /\ table'[pos].psl >= t.psl
    BY <1>2, <1>3, <1>8, <2>1
  <2>4. QED
    BY <1>2, <1>3, <1>7, <1>8, <2>2, <2>3, PassedOn
<1>12. t.psl + 1 = Dist(HashOf[t.decl], After(pos, size), size)
  <2>1. PICK h \in Nat : h = HashOf[t.decl]
    BY <1>5, HashIs
  <2>2. QED
    BY <1>2, <1>6, <1>7, <2>1, DistAfter
<1>13. Listed'
  <2>1. PICK s : Threads(table, count, s) /\ list = Nth(s, count)
    BY DEF IInv, Listed
  <2>2. Threads(table', count, s)
    BY <1>1, <1>2, <1>3, <1>5, <2>1, ThreadsSwap DEF t
  <2>3. Threads(table, count, s)' /\ (list = Nth(s, count))' /\ Unwound(s)'
    BY <1>1, <2>1, <2>2 DEF Threads, Nth, Used, Unwound
  <2>4. QED
    BY <2>3 DEF Listed
<1>14. TypeOK'
  <2>1. table' \in [0 .. size - 1 -> Bucket]
    BY <1>8 DEF Tables
  <2>2. QED
    BY <1>1, <1>4, <1>7, <2>1 DEF IInv, TypeOK
<1>15. Adding' /\ Stored' = Stored
  <2>1. PendingDecls' = PendingDecls
    BY <1>1 DEF PendingDecls, Pending, Used
  <2>2. Stored' = DeclsOf(table') \cup PendingDecls \cup {t.decl}
    BY <1>1, <1>4, <2>1 DEF Stored, PendingDecls, DeclsOf
  <2>3. Stored' = Stored
    BY <1>1, <1>5, <1>10, <2>2, StoredIs
  <2>4. QED
    BY <1>1, <2>3 DEF IInv, Adding
<1>16. Inserting'
  <2>1. t.decl \notin DeclsOf(table')
    BY <1>2, <1>5, <1>10
  <2>2. QED
    BY <1>1, <1>2, <1>4, <1>5, <1>11, <1>12, <2>1
       DEF Inserting, Passed, Dist, Behind, DeclsOf, Used
<1>17. Growing'
  <2>1. SUFFICES ASSUME old # <<>> PROVE Growing'
    BY <1>1 DEF Growing
  <2>2. PICK n \in 1 .. size :
          /\ size = 2 * n /\ old \in [0 .. n - 1 -> Bucket] /\ i \in 0 .. n
          /\ Distinct(old)
          /\ \A k \in Pending : old[k].decl \notin DeclsOf(table) /\ old[k].decl # new.decl
          /\ count <= i /\ count < i
    BY <1>1, <2>1 DEF IInv, Growing
  <2>3. \A k \in Pending : old[k].decl \notin DeclsOf(table') /\ old[k].decl # t.decl
    BY <1>5, <1>10, <2>2
  <2>4. Distinct(old') /\ Pending' = Pending /\ DeclsOf(table)' = DeclsOf(table')
    BY <1>1, <2>2 DEF Pending, Used, DeclsOf
  <2>5. QED
    BY ZenonT(30), <1>1, <1>4, <2>2, <2>3, <2>4 DEF Growing, Distinct, Used
<1>18. Finding' /\ Modes'
  BY <1>1 DEF IInv, Finding, Modes
<1>19. RobinHood(table, size)' /\ Distinct(table)'
  BY <1>1, <1>9, <1>10 DEF RobinHood, Distinct, Passed, Behind, Dist, Used
<1>20. QED
  BY <1>13, <1>14, <1>15, <1>16, <1>17, <1>18, <1>19 DEF IInv

LEMMA PassInv ==
  ASSUME IInv, InsertAdvance, ~(table[pos].psl < new.psl)
  PROVE  IInv' /\ Stored' = Stored
<1>1. /\ at = "insert" /\ table[pos].decl # NoDecl
      /\ new' = [new EXCEPT !.psl = @ + 1]
      /\ pos' = After(pos, size)
      /\ UNCHANGED <<size, table, list, count, old, i, psl, want, todo, ret, freed, at>>
  BY DEF InsertAdvance, NextSlot, After
<1>2. /\ size \in Nat \ {0} /\ table \in Tables(size) /\ pos \in 0 .. size - 1
      /\ new \in Bucket /\ new.decl \in Decls /\ new.decl \notin DeclsOf(table)
      /\ new.psl \in 0 .. size - 1 /\ new.next = list
      /\ new.psl = Dist(HashOf[new.decl], pos, size)
      /\ Passed(table, size, pos, new.psl) /\ count < size /\ count \in Nat
      /\ table[pos] \in Bucket
  BY <1>1, InsertFacts
<1>3. /\ new' \in Bucket /\ new'.decl = new.decl /\ new'.psl = new.psl + 1 /\ new'.next = list
  BY <1>1, <1>2 DEF Bucket
<1>4. table[pos].psl >= new.psl
  <2>1. table[pos].psl \in Nat
    BY <1>2 DEF Bucket
  <2>2. QED
    BY <1>2, <2>1
<1>5. new.psl + 1 < size
  BY <1>1, <1>2, RoomLeft, ProbeEnds
<1>6. /\ Passed(table, size, After(pos, size), new.psl + 1)
      /\ After(pos, size) \in 0 .. size - 1
  BY <1>1, <1>2, <1>4, <1>5, PassedOn, AfterIs
<1>7. new.psl + 1 = Dist(HashOf[new.decl], After(pos, size), size)
  <2>1. PICK h \in Nat : h = HashOf[new.decl]
    BY <1>2, HashIs
  <2>2. QED
    BY <1>2, <1>5, <2>1, DistAfter
<1>8. RobinHood(table, size)' /\ Distinct(table)' /\ Listed'
  BY <1>1, TableRests
<1>9. TypeOK'
  BY <1>1, <1>3, <1>6 DEF IInv, TypeOK
<1>10. Adding' /\ Stored' = Stored
  <2>1. Stored' = Stored
    BY <1>1, <1>3 DEF Stored, Used, Pending
  <2>2. QED
    BY <1>1, <2>1 DEF IInv, Adding
<1>11. Inserting'
  BY <1>1, <1>2, <1>3, <1>6, <1>7
     DEF Inserting, Passed, Dist, Behind, DeclsOf, Used
<1>12. Growing'
  <2>1. DeclsOf(table)' = DeclsOf(table) /\ Pending' = Pending
    BY <1>1 DEF DeclsOf, Used, Pending
  <2>2. QED
    BY <1>1, <1>3, <2>1 DEF IInv, Growing, Distinct, Used
<1>13. Finding' /\ Modes'
  BY <1>1 DEF IInv, Finding, Modes
<1>14. QED
  BY <1>8, <1>9, <1>10, <1>11, <1>12, <1>13 DEF IInv

LEMMA InsertStoreInv == ASSUME IInv, InsertStore PROVE IInv' /\ Stored' = Stored
<1>1. /\ at = "insert" /\ table[pos].decl = NoDecl
      /\ table' = [table EXCEPT ![pos] = new]
      /\ list' = pos /\ count' = count + 1
      /\ at' = IF old = <<>> THEN "pushed" ELSE "rehash"
      /\ UNCHANGED <<size, old, i, new, pos, psl, want, todo, ret, freed>>
  BY DEF InsertStore
<1>2. /\ size \in Nat \ {0} /\ table \in Tables(size) /\ pos \in 0 .. size - 1
      /\ new \in Bucket /\ new.decl \in Decls /\ new.decl \notin DeclsOf(table)
      /\ new.next = list
      /\ new.psl = Dist(HashOf[new.decl], pos, size)
      /\ Passed(table, size, pos, new.psl) /\ count < size /\ count \in Nat
      /\ RobinHood(table, size) /\ Distinct(table)
  BY <1>1, InsertFacts DEF IInv
<1>3. RobinHood([table EXCEPT ![pos] = new], size)
  BY <1>1, <1>2, RobinHoodKept
<1>4. LET new_ == [table EXCEPT ![pos] = new]
      IN  /\ DeclsOf(new_) = (DeclsOf(table) \ {table[pos].decl}) \cup {new.decl}
          /\ Distinct(new_)
  BY <1>1, <1>2, DeclsStore
<1>5. DeclsOf(table') = DeclsOf(table) \cup {new.decl} /\ Distinct(table')
  <2>1. NoDecl \notin DeclsOf(table)
    BY DEF DeclsOf, Used
  <2>2. QED
    BY <1>1, <1>4, <2>1
<1>6. RobinHood(table, size)' /\ Distinct(table)'
  BY <1>1, <1>3, <1>5 DEF RobinHood, Distinct, Passed, Behind, Dist, Used
<1>7. Listed'
  <2>1. PICK s : Threads(table, count, s) /\ list = Nth(s, count)
    BY DEF IInv, Listed
  <2>2. PICK t : Threads([table EXCEPT ![pos] = new], count + 1, t) /\ Nth(t, count + 1) = pos
    <3>1. new.next = Nth(s, count) /\ table[pos].decl = NoDecl
      BY <1>1, <1>2, <2>1
    <3>2. Lists([table EXCEPT ![pos] = new], count + 1, pos)
      BY <1>2, <2>1, <3>1, ThreadsStore
    <3>3. QED
      BY <3>2 DEF Lists
  <2>3. Threads(table', count + 1, t) /\ Nth(t, count + 1) = pos
    BY <1>1, <2>2
  <2>4. Threads(table, count, t)' /\ (list = Nth(t, count))' /\ Unwound(t)'
    BY <1>1, <2>3 DEF Threads, Nth, Used, Unwound
  <2>5. QED
    BY <2>4 DEF Listed
<1>8. TypeOK'
  <2>1. table' \in [0 .. size - 1 -> Bucket]
    BY <1>1, <1>2 DEF Tables
  <2>2. list' \in -1 .. size - 1 /\ count' \in Nat
    BY <1>1, <1>2
  <2>3. QED
    BY <1>1, <1>2, <2>1, <2>2 DEF IInv, TypeOK
<1>9. Adding' /\ Stored' = Stored
  <2>1. PendingDecls' = PendingDecls
    BY <1>1 DEF PendingDecls, Pending, Used
  <2>2. Stored' = DeclsOf(table') \cup PendingDecls
    BY <1>1, <2>1 DEF Stored, PendingDecls, DeclsOf
  <2>3. Stored' = Stored
    BY <1>1, <1>5, <2>2, StoredIs
  <2>4. QED
    BY <1>1, <2>3 DEF IInv, Adding
<1>10. Growing'
  <2>1. SUFFICES ASSUME old # <<>> PROVE Growing'
    BY <1>1 DEF Growing
  <2>2. PICK n \in 1 .. size :
          /\ size = 2 * n /\ old \in [0 .. n - 1 -> Bucket] /\ i \in 0 .. n
          /\ Distinct(old)
          /\ \A k \in Pending : old[k].decl \notin DeclsOf(table) /\ old[k].decl # new.decl
          /\ count < i
    BY <1>1, <2>1 DEF IInv, Growing
  <2>3. \A k \in Pending : old[k].decl \notin DeclsOf(table')
    BY <1>5, <2>2
  <2>4. Distinct(old') /\ Pending' = Pending /\ DeclsOf(table)' = DeclsOf(table')
    BY <1>1, <2>2 DEF Pending, Used, DeclsOf
  <2>5. count' <= i' /\ at' = "rehash"
    BY <1>1, <1>2, <2>1, <2>2
  <2>6. QED
    BY <1>1, <2>2, <2>3, <2>4, <2>5 DEF Growing, Distinct, Used
<1>11. Finding' /\ Inserting' /\ Modes'
  BY <1>1 DEF IInv, Finding, Inserting, Modes
<1>12. QED
  BY <1>6, <1>7, <1>8, <1>9, <1>10, <1>11 DEF IInv

LEMMA PushFitsInv == ASSUME IInv, PushFits PROVE IInv'
  BY AnswerInv DEF PushFits

LEMMA PushGrowsInv == ASSUME IInv, PushGrows PROVE IInv' /\ Stored' = Stored
<1>1. /\ at = "pushed" /\ at' = "rehash"
      /\ old' = table /\ i' = 0
      /\ size' = size * 2 /\ table' = [k \in 0 .. size * 2 - 1 |-> Null]
      /\ list' = -1 /\ count' = 0
      /\ UNCHANGED <<new, pos, psl, want, todo, ret, freed>>
  BY DEF PushGrows, Calloc
<1>2. /\ size \in Nat \ {0} /\ table \in Tables(size) /\ Distinct(table)
      /\ pos \in 0 .. size - 1 /\ freed = <<>>
  BY <1>1 DEF IInv, TypeOK, Tables, Modes
<1>3. old = <<>>
  BY <1>1, AtRest
<1>4. /\ size' \in Nat \ {0} /\ table' \in Tables(size') /\ Used(table') = {}
  BY <1>1, <1>2 DEF Tables, Used, Null, Bucket
<1>5. DeclsOf(table') = {} /\ RobinHood(table', size') /\ Distinct(table')
  BY <1>4 DEF DeclsOf, RobinHood, Distinct
<1>6. Used(table)' = {} /\ RobinHood(table, size)' /\ Distinct(table)' /\ DeclsOf(table)' = {}
  BY <1>4, <1>5 DEF RobinHood, Distinct, Passed, Behind, Dist, Used, DeclsOf
<1>7. Listed'
  <2>1. Threads(table', 0, <<>>) /\ Nth(<<>>, 0) = -1
    BY <1>4 DEF Threads, Nth
  <2>2. Threads(table, count, <<>>)' /\ (list = Nth(<<>>, count))' /\ Unwound(<<>>)'
    BY <1>1, <2>1 DEF Unwound, Threads, Nth, Used
  <2>3. QED
    BY <2>2 DEF Listed
<1>8. Pending' = Used(table) /\ Pending = {}
  BY <1>1, <1>2, <1>3, UsedIs DEF Pending, Used, Tables
<1>9. PendingDecls' = DeclsOf(table) /\ PendingDecls = {}
  BY <1>1, <1>8 DEF PendingDecls, DeclsOf
<1>10. Adding' /\ Stored' = Stored
  <2>1. Stored' = DeclsOf(table)' \cup PendingDecls'
    BY <1>1 DEF Stored, DeclsOf, PendingDecls
  <2>2. Stored' = Stored
    BY <1>1, <1>6, <1>9, <2>1, StoredIs
  <2>3. QED
    BY <1>1, <2>2 DEF IInv, Adding
<1>11. TypeOK'
  <2>1. table' \in [0 .. size' - 1 -> Bucket]
    BY <1>4 DEF Tables
  <2>2. \E n \in 1 .. size' : old' \in [0 .. n - 1 -> Bucket]
    <3>1. size \in 1 .. size'
      BY <1>1, <1>2
    <3>2. QED
      BY <1>1, <1>2, <3>1 DEF Tables
  <2>3. pos' \in 0 .. size' - 1 /\ list' \in -1 .. size' - 1 /\ pos' \in -1 .. size' - 1
        /\ pos' # -1
    BY <1>1, <1>2
  <2>4. QED
    BY <1>1, <1>4, <2>1, <2>2, <2>3 DEF IInv, TypeOK
<1>12. old' # <<>>
  <2>1. 0 \in DOMAIN old'
    BY <1>1, <1>2 DEF Tables
  <2>2. QED
    BY <2>1
<1>13. Growing'
  <2>1. size \in 1 .. size' /\ size' = 2 * size /\ 0 \in 0 .. size
    BY <1>1, <1>2
  <2>2. Distinct(old)'
    BY <1>1, <1>2 DEF Distinct, Used
  <2>3. old' \in [0 .. size - 1 -> Bucket]
    BY <1>1, <1>2 DEF Tables
  <2>4. QED
    <3>1. /\ at' \in {"insert", "rehash"} /\ at' # "insert"
          /\ \A k \in Pending' : old'[k].decl \notin DeclsOf(table)'
          /\ count' <= i' /\ i' \in 0 .. size
      BY <1>1, <1>6, <2>1
    <3>2. QED
      BY <2>1, <2>2, <2>3, <3>1 DEF Growing
<1>14. Finding' /\ Inserting' /\ Modes'
  BY <1>1, <1>2, <1>12 DEF Finding, Inserting, Modes
<1>15. QED
  BY <1>6, <1>7, <1>10, <1>11, <1>13, <1>14 DEF IInv

\* What a rehash is doing.
LEMMA RehashFacts ==
  ASSUME IInv, at = "rehash"
  PROVE  \E n \in 1 .. size :
           /\ size = 2 * n /\ old \in [0 .. n - 1 -> Bucket] /\ i \in 0 .. n
           /\ Distinct(old)
           /\ \A k \in Pending : old[k].decl \notin DeclsOf(table)
           /\ count <= i /\ count \in Nat
           /\ DOMAIN old = 0 .. n - 1
<1>1. old # <<>> /\ count \in Nat
  BY DEF IInv, TypeOK, Modes
<1>2. PICK n \in 1 .. size :
           /\ size = 2 * n /\ old \in [0 .. n - 1 -> Bucket] /\ i \in 0 .. n
           /\ Distinct(old)
           /\ \A k \in Pending : old[k].decl \notin DeclsOf(table)
           /\ count <= i
  BY <1>1 DEF IInv, Growing
<1>3. QED
  BY <1>1, <1>2

LEMMA RehashNextInv == ASSUME IInv, RehashNext PROVE IInv' /\ Stored' = Stored
<1>1. /\ at = "rehash" /\ i \in DOMAIN old /\ i' = i + 1
      /\ UNCHANGED <<size, table, list, count, old, psl, want, todo, ret, freed>>
  BY DEF RehashNext
<1>2. PICK n \in 1 .. size :
           /\ size = 2 * n /\ old \in [0 .. n - 1 -> Bucket] /\ i \in 0 .. n
           /\ Distinct(old)
           /\ \A k \in Pending : old[k].decl \notin DeclsOf(table)
           /\ count <= i /\ count \in Nat
           /\ DOMAIN old = 0 .. n - 1
  BY <1>1, RehashFacts
<1>3. /\ i \in 0 .. n - 1 /\ i' \in 1 .. n /\ count < i' /\ count < size /\ old # <<>>
      /\ size \in Nat \ {0} /\ i \in Nat
  BY <1>1, <1>2 DEF IInv, TypeOK
<1>4. Used(old) \subseteq 0 .. n - 1
  BY <1>2 DEF Used
<1>5. Distinct(old)' /\ DeclsOf(table)' = DeclsOf(table)
  BY <1>1, <1>2 DEF Distinct, DeclsOf, Used
<1>6. CASE old[i].decl = NoDecl
  <2>1. UNCHANGED <<new, pos, at>>
    BY <1>6 DEF RehashNext
  <2>2. Pending' = Pending
    <3>1. \A k \in Used(old) : k >= i <=> k >= i + 1
      <4>1. i \notin Used(old)
        BY <1>6 DEF Used
      <4>2. QED
        BY <1>3, <1>4, <4>1
    <3>2. QED
      BY <1>1, <3>1 DEF Pending, Used
  <2>3. RobinHood(table, size)' /\ Distinct(table)' /\ Listed'
    BY <1>1, <2>1, TableRests
  <2>4. TypeOK'
    BY <1>1, <1>3, <2>1 DEF IInv, TypeOK
  <2>5. Adding' /\ Stored' = Stored
    <3>1. Stored' = Stored
      BY <1>1, <2>1, <2>2 DEF Stored, Used
    <3>2. QED
      BY <1>1, <2>1, <3>1 DEF IInv, Adding
  <2>6. Growing'
    BY <1>1, <1>2, <1>3, <1>5, <2>1, <2>2 DEF Growing
  <2>7. Finding' /\ Inserting' /\ Modes'
    BY <1>1, <1>3, <2>1 DEF IInv, Finding, Inserting, Modes
  <2>8. QED
    BY <2>3, <2>4, <2>5, <2>6, <2>7 DEF IInv
<1>7. CASE old[i].decl # NoDecl
  <2> DEFINE d == old[i].decl
  <2>1. Insert(d) /\ i \in Used(old) /\ i \in Pending
    BY <1>1, <1>2, <1>3, <1>7 DEF RehashNext, Used, Pending
  <2>2. d \in Decls /\ d \notin DeclsOf(table)
    BY <1>2, <1>3, <1>7, <2>1 DEF Bucket
  <2> HIDE DEF d
  <2>3. /\ at' = "insert" /\ pos' \in 0 .. size - 1
        /\ new' \in Bucket /\ new'.decl = d /\ new'.psl = 0 /\ new'.next = list
        /\ (new.psl = Dist(HashOf[new.decl], pos, size))'
        /\ Passed(table, size, pos, new.psl)'
    BY <1>1, <2>1, <2>2, SetOut
  <2>4. RobinHood(table, size)' /\ Distinct(table)' /\ Listed'
    BY <1>1, <2>3, TableRests
  <2>5. TypeOK'
    <3>1. pos' \in -1 .. size - 1 /\ pos' # -1 /\ i' \in Nat
      BY <1>2, <1>3, <2>3
    <3>2. QED
      BY <1>1, <2>3, <3>1 DEF IInv, TypeOK
  <2>6. Pending = Pending' \cup {i} /\ i \notin Pending'
    <3>1. \A k \in Used(old) : k >= i <=> k >= i + 1 \/ k = i
      BY <1>3, <1>4
    <3>2. ~(i >= i + 1) /\ i >= i
      BY <1>3
    <3>3. QED
      BY <1>1, <2>1, <3>1, <3>2 DEF Pending, Used
  <2>7. PendingDecls = PendingDecls' \cup {d}
    BY <1>1, <2>6 DEF PendingDecls, d
  <2>8. Adding' /\ Stored' = Stored
    <3>1. Stored' = DeclsOf(table)' \cup PendingDecls' \cup {d}
      BY <1>1, <2>3 DEF Stored, DeclsOf, PendingDecls
    <3>2. Stored' = Stored
      BY <1>1, <1>5, <2>7, <3>1, StoredIs
    <3>3. QED
      BY <1>1, <2>3, <3>2 DEF IInv, Adding
  <2>9. Inserting'
    BY <1>1, <1>3, <1>5, <2>2, <2>3 DEF Inserting
  <2>10. Growing'
    <3>1. \A k \in Pending' : old[k].decl \notin DeclsOf(table) /\ old[k].decl # d
      BY <1>2, <2>1, <2>6 DEF Pending, Distinct, d
    <3>2. QED
      BY <1>1, <1>2, <1>3, <1>5, <2>3, <3>1 DEF Growing
  <2>11. Finding' /\ Modes'
    BY <1>1, <2>3 DEF IInv, Finding, Modes
  <2>12. QED
    BY <2>4, <2>5, <2>8, <2>9, <2>10, <2>11 DEF IInv
<1>8. QED
  BY <1>6, <1>7

\* A finished rehash leaves a table with room: it is less than half full.
LEMMA RehashedFits ==
  ASSUME IInv, at = "rehash", i \notin DOMAIN old
  PROVE  HasRoom /\ Pending = {}
<1>1. PICK n \in 1 .. size :
           /\ size = 2 * n /\ i \in 0 .. n /\ count <= i /\ count \in Nat
           /\ DOMAIN old = 0 .. n - 1
  BY RehashFacts
<1>2. size \in Nat
  BY DEF IInv, TypeOK
<1>3. i = n
  BY <1>1, <1>2
<1>4. Pending = {}
  BY <1>1, <1>2, <1>3 DEF Pending, Used
<1>5. HasRoom
  BY <1>1, <1>2, <1>3 DEF HasRoom
<1>6. QED
  BY <1>4, <1>5

LEMMA RehashDoneInv == ASSUME IInv, RehashDone PROVE IInv'
<1>1. /\ at = "rehash" /\ i \notin DOMAIN old /\ old' = <<>>
      /\ at' = "idle" /\ want' = 0 /\ todo' = NoDecl /\ ret' = NoDecl
      /\ UNCHANGED <<size, table, list, count, i, new, pos, psl, freed>>
  BY DEF RehashDone, Answer
<1>2. RobinHood(table, size)' /\ Distinct(table)' /\ Listed'
  BY <1>1, TableRests
<1>3. HasRoom
  BY <1>1, RehashedFits
<1>4. TypeOK'
  BY <1>1 DEF IInv, TypeOK
<1>5. Finding' /\ Adding' /\ Inserting' /\ Growing' /\ Modes'
  BY <1>1, <1>3 DEF IInv, Finding, Adding, Inserting, Growing, Modes, HasRoom
<1>6. QED
  BY <1>2, <1>4, <1>5 DEF IInv

-----------------------------------------------------------------------------
(* The steps of prosScope_del. *)

\* What the steps that leave the table and the calls alone keep.
LEMMA DeletionRests ==
  ASSUME IInv, at \in {"idle", "del"}, at' \in {"del", "closed"},
         UNCHANGED <<size, table, list, count, old, i, new, psl, want, todo, ret>>
  PROVE  /\ RobinHood(table, size)' /\ Distinct(table)'
         /\ Finding' /\ Adding' /\ Inserting' /\ Growing'
         /\ (at \in {"idle", "del", "closed"} => want = 0 /\ todo = NoDecl)'
         /\ (at \in {"idle", "find"} => HasRoom)' /\ (at = "rehash" => old # <<>>)'
<1>1. RobinHood(table, size)' /\ Distinct(table)'
  BY DEF IInv, RobinHood, Distinct, Passed, Behind, Dist, Used
<1>2. old = <<>>
  BY AtRest
<1>3. QED
  BY <1>1, <1>2 DEF IInv, Finding, Adding, Inserting, Growing, Modes

\* A node of the list is a slot of the table; the end of it is -1.
LEMMA NthIs ==
  ASSUME IInv, NEW s, Threads(table, count, s), NEW j \in 0 .. count
  PROVE  /\ Nth(s, j) \in -1 .. size - 1
         /\ Nth(s, j) = -1 <=> j = 0
         /\ j # 0 => Nth(s, j) = s[j] /\ s[j] \in Used(table)
<1>1. size \in Nat \ {0} /\ table \in Tables(size) /\ count \in Nat
  BY DEF IInv, TypeOK, Tables
<1>2. CASE j = 0
  BY <1>1, <1>2 DEF Nth
<1>3. CASE j # 0
  <2>1. j \in 1 .. count
    BY <1>1, <1>3
  <2>2. s[j] \in Used(table)
    BY <2>1 DEF Threads
  <2>3. s[j] \in 0 .. size - 1
    BY <1>1, <2>2, UsedIs
  <2>4. QED
    BY <1>1, <1>3, <2>2, <2>3 DEF Nth
<1>4. QED
  BY <1>2, <1>3

LEMMA CloseInv == ASSUME IInv, Close PROVE IInv'
<1>1. /\ at = "idle" /\ at' = "del" /\ pos' = list
      /\ UNCHANGED <<size, table, list, count, old, i, new, psl, want, todo, ret, freed>>
  BY DEF Close
<1>2. freed = <<>> /\ Len(freed) = 0 /\ count \in Nat
  BY <1>1 DEF IInv, Modes, TypeOK
<1>3. Listed'
  <2>1. PICK s : Threads(table, count, s) /\ list = Nth(s, count)
    BY DEF IInv, Listed
  <2>2. Threads(table, count, s)' /\ (list = Nth(s, count))'
    BY <1>1, <2>1 DEF Threads, Nth, Used
  <2>3. count - Len(freed) = count /\ 1 .. Len(freed) = {} /\ Len(freed) <= count
    BY <1>2
  <2>4. Unwound(s)'
    BY <1>1, <2>1, <2>3 DEF Unwound, Nth
  <2>5. QED
    BY <2>2, <2>4 DEF Listed
<1>4. TypeOK'
  BY <1>1 DEF IInv, TypeOK
<1>5. QED
  BY <1>1, <1>3, <1>4, DeletionRests DEF IInv, Modes

LEMMA FreeNextInv == ASSUME IInv, FreeNext PROVE IInv'
<1>1. /\ at = "del" /\ at' = "del" /\ pos # -1
      /\ freed' = Append(freed, table[pos].decl) /\ pos' = table[pos].next
      /\ UNCHANGED <<size, table, list, count, old, i, new, psl, want, todo, ret>>
  BY DEF FreeNext
<1>2. PICK s : Threads(table, count, s) /\ list = Nth(s, count) /\ Unwound(s)
  BY DEF IInv, Listed
<1>3. PICK f \in Nat : f = Len(freed)
  BY DEF IInv, TypeOK
<1>4. /\ freed \in Seq(Decls) /\ count \in Nat /\ f <= count /\ pos = Nth(s, count - f)
      /\ \A j \in 1 .. f : freed[j] = table[s[count + 1 - j]].decl
  BY <1>1, <1>2, <1>3 DEF IInv, TypeOK, Unwound
<1>5. PICK m \in 0 .. count : m = count - f
  BY <1>4
<1>6. m # 0 /\ pos = s[m] /\ s[m] \in Used(table) /\ m \in 1 .. count
  BY <1>1, <1>2, <1>4, <1>5, NthIs
<1>7. table[pos].next = Nth(s, m - 1) /\ table[pos].decl \in Decls
  <2>1. size \in Nat \ {0} /\ table \in Tables(size)
    BY DEF IInv, TypeOK, Tables
  <2>2. table[s[m]].next = Nth(s, m - 1)
    BY <1>2, <1>6 DEF Threads
  <2>3. QED
    BY <1>6, <2>1, <2>2, UsedIs
<1>8. PICK l \in 0 .. count : l = m - 1
  BY <1>4, <1>6
<1>9. /\ freed' \in Seq(Decls) /\ Len(freed') = f + 1 /\ freed'[f + 1] = table[pos].decl
      /\ \A j \in 1 .. f : freed'[j] = freed[j]
  BY <1>1, <1>3, <1>4, <1>7
<1>10. Listed'
  <2>1. Threads(table, count, s)' /\ (list = Nth(s, count))'
    BY <1>1, <1>2 DEF Threads, Nth, Used
  <2>2. f + 1 <= count /\ count - (f + 1) = l /\ count + 1 - (f + 1) = m
    BY <1>4, <1>5, <1>6, <1>8
  <2>3. ASSUME NEW j \in 1 .. f + 1 PROVE freed'[j] = table[s[count + 1 - j]].decl
    <3>1. CASE j = f + 1
      BY <1>6, <1>9, <2>2, <3>1
    <3>2. CASE j # f + 1
      <4>1. j \in 1 .. f
        BY <3>2
      <4>2. QED
        BY <1>4, <1>9, <4>1
    <3>3. QED
      BY <3>1, <3>2
  <2>4. pos' = Nth(s, l)
    BY <1>1, <1>7, <1>8
  <2>5. Unwound(s)'
    BY <1>1, <1>9, <2>2, <2>3, <2>4 DEF Unwound, Nth
  <2>6. QED
    BY <2>1, <2>5 DEF Listed
<1>11. TypeOK'
  <2>1. pos' \in -1 .. size - 1
    BY <1>1, <1>2, <1>7, <1>8, NthIs
  <2>2. QED
    BY <1>1, <1>9, <2>1 DEF IInv, TypeOK
<1>12. QED
  BY <1>1, <1>10, <1>11, DeletionRests DEF IInv, Modes

LEMMA ClosedInv == ASSUME IInv, Closed PROVE IInv'
<1>1. /\ at = "del" /\ at' = "closed" /\ pos = -1
      /\ UNCHANGED <<size, table, list, count, old, i, new, pos, psl, want, todo, ret, freed>>
  BY DEF Closed
<1>2. PICK s : Threads(table, count, s) /\ list = Nth(s, count) /\ Unwound(s)
  BY DEF IInv, Listed
<1>3. Listed'
  <2>1. Threads(table, count, s)' /\ (list = Nth(s, count))' /\ Unwound(s)'
    BY <1>1, <1>2 DEF Threads, Nth, Used, Unwound
  <2>2. QED
    BY <2>1 DEF Listed
<1>4. TypeOK'
  BY <1>1 DEF IInv, TypeOK
<1>5. Len(freed) = count
  <2>1. PICK f \in Nat : f = Len(freed)
    BY DEF IInv, TypeOK
  <2>2. count \in Nat /\ f <= count /\ pos = Nth(s, count - f)
    BY <1>1, <1>2, <2>1 DEF IInv, TypeOK, Unwound
  <2>3. PICK m \in 0 .. count : m = count - f
    BY <2>2
  <2>4. m = 0
    BY <1>1, <1>2, <2>2, <2>3, NthIs
  <2>5. QED
    BY <2>1, <2>2, <2>3, <2>4
<1>6. QED
  BY <1>1, <1>3, <1>4, <1>5, DeletionRests DEF IInv, Modes

LEMMA StutterInv == ASSUME IInv, UNCHANGED vars PROVE IInv'
<1>1. UNCHANGED <<size, table, list, count, old, i, new, pos, psl, want, todo, ret, freed, at>>
  BY DEF vars
<1>2. RobinHood(table, size)' /\ Distinct(table)'
  BY <1>1 DEF IInv, RobinHood, Distinct, Passed, Behind, Dist, Used
<1>3. PICK s : Threads(table, count, s) /\ list = Nth(s, count) /\ Unwound(s)
  BY DEF IInv, Listed
<1>4. Threads(table, count, s)' /\ (list = Nth(s, count))' /\ Unwound(s)'
  BY <1>1, <1>3 DEF Threads, Nth, Used, Unwound
<1>5. Listed'
  BY <1>4 DEF Listed
<1>6. TypeOK' /\ Modes'
  BY <1>1 DEF IInv, TypeOK, Modes, HasRoom
<1>7. DeclsOf(table)' = DeclsOf(table) /\ Stored' = Stored /\ Pending' = Pending
  BY <1>1 DEF DeclsOf, Stored, Pending, Used
<1>8. Finding'
  BY <1>1, <1>7 DEF IInv, Finding, Passed, Behind, Dist
<1>9. Adding' /\ Inserting' /\ Growing'
  BY <1>1, <1>7 DEF IInv, Adding, Inserting, Growing, Passed, Behind, Dist, Distinct, Used
<1>10. QED
  BY <1>2, <1>5, <1>6, <1>8, <1>9 DEF IInv

-----------------------------------------------------------------------------
LEMMA NextInv == ASSUME IInv, [Next]_vars PROVE IInv'
<1>1. ASSUME NEW d \in Decls, LookUp(d) \/ Declare(d) PROVE IInv'
  BY <1>1, AskInv
<1>2. CASE Close
  BY <1>2, CloseInv
<1>3. CASE Find
  BY <1>3, FindHitInv, FindMissInv, FindAdvanceInv, PushInv DEF Find
<1>4. CASE InsertAdvance
  BY <1>4, SwapInv, PassInv
<1>5. CASE Add /\ ~InsertAdvance
  BY <1>5, InsertStoreInv, PushFitsInv, PushGrowsInv, RehashNextInv, RehashDoneInv DEF Add
<1>6. CASE Del
  BY <1>6, FreeNextInv, ClosedInv DEF Del
<1>7. CASE UNCHANGED vars
  BY <1>7, StutterInv
<1>8. QED
  BY <1>1, <1>2, <1>3, <1>4, <1>5, <1>6, <1>7 DEF Next, Step

\* A table that is probed, moved about, grown and freed in this order keeps all
\* the parts of the invariant.
THEOREM Invariance == Spec => []IInv
<1>1. Init => IInv
  BY InitInv
<1>2. IInv /\ [Next]_vars => IInv'
  BY NextInv
<1>3. QED
  BY <1>1, <1>2, PTL DEF Spec

\* The variables of the scope stay in their ranges: no probe and no walk along
\* the list leaves the table (prosScope_findDecl, scopeInsertDecl,
\* scopeDoRehash, prosScope_del).
THEOREM TypeCorrect == Spec => []TypeOK
<1>1. IInv => TypeOK
  BY DEF IInv
<1>2. QED
  BY <1>1, Invariance, PTL

\* The probe for a stored bucket passes only buckets at least as far from
\* their homes, in the middle of an insertion or of a rehash too, so that
\* prosScope_findDecl may give up at the first nearer one.
THEOREM SearchesReach == Spec => []SearchReaches
<1>1. ASSUME IInv PROVE SearchReaches
  <2>1. ASSUME NEW k \in Used(table)
        PROVE  /\ table[k].psl = Distance(table[k], k)
               /\ \A n \in 1 .. table[k].psl :
                    LET q == (k - n) % size
                    IN  table[q].decl # NoDecl /\ table[q].psl >= table[k].psl - n
    <3>1. table[k].psl = Dist(HashOf[table[k].decl], k, size) /\ Passed(table, size, k, table[k].psl)
      BY <1>1 DEF IInv, RobinHood
    <3>2. QED
      BY <3>1 DEF Dist, Distance, Home, Passed, Behind
  <2>2. at = "insert" => new.psl = Distance(new, pos)
    BY <1>1 DEF IInv, Inserting, Dist, Distance, Home
  <2>3. QED
    BY <2>1, <2>2 DEF SearchReaches
<1>2. QED
  BY <1>1, Invariance, PTL

\* prosScope_del frees every declaration of the scope, and none twice,
\* although insertions moved the buckets while they were threaded into the
\* list it follows.
THEOREM DeclarationsFreedOnce == Spec => []FreedOnce
<1>1. ASSUME IInv PROVE FreedOnce
  <2>1. CASE at \notin {"del", "closed"}
    <3>1. freed = <<>>
      BY <1>1, <2>1 DEF IInv, Modes
    <3>2. QED
      BY <2>1, <3>1 DEF FreedOnce
  <2>2. CASE at \in {"del", "closed"}
    <3>1. PICK s : Threads(table, count, s) /\ Unwound(s)
      BY <1>1 DEF IInv, Listed
    <3>2. PICK f \in Nat : f = Len(freed) /\ DOMAIN freed = 1 .. f
      BY <1>1 DEF IInv, TypeOK
    <3>3. /\ count \in Nat /\ f <= count /\ (at = "closed" => f = count)
          /\ \A j \in 1 .. f : freed[j] = table[s[count + 1 - j]].decl
      BY <1>1, <2>2, <3>1, <3>2 DEF IInv, TypeOK, Unwound, Modes
    <3>4. \A j \in 1 .. f : count + 1 - j \in 1 .. count
      BY <3>3
    <3>5. \A j \in 1 .. count : s[j] \in Used(table)
      BY <3>1 DEF Threads
    <3>6. ASSUME NEW j \in 1 .. f, NEW k \in 1 .. f, freed[j] = freed[k]
          PROVE  j = k
      <4>1. PICK a \in 1 .. count, b \in 1 .. count : a = count + 1 - j /\ b = count + 1 - k
        BY <3>4
      <4>2. table[s[a]].decl = table[s[b]].decl
        BY <3>3, <3>6, <4>1
      <4>3. s[a] = s[b]
        BY <1>1, <3>5, <4>2 DEF IInv, Distinct
      <4>4. a = b
        BY <3>1, <4>3 DEF Threads
      <4>5. QED
        BY <3>3, <4>1, <4>4
    <3>7. ASSUME at = "closed"
          PROVE  {freed[k] : k \in 1 .. f} = {table[k].decl : k \in Used(table)}
      <4>1. \A j \in 1 .. f : \E k \in Used(table) : freed[j] = table[k].decl
        BY <3>3, <3>4, <3>5
      <4>2. ASSUME NEW k \in Used(table) PROVE \E j \in 1 .. f : freed[j] = table[k].decl
        <5>1. PICK a \in 1 .. count : s[a] = k
          BY <3>1 DEF Threads
        <5>2. PICK j \in 1 .. f : j = count + 1 - a
          BY <3>3, <3>7
        <5>3. count + 1 - j = a
          BY <3>3, <5>2
        <5>4. QED
          BY <3>3, <5>1, <5>3
      <4>3. QED
        BY <4>1, <4>2
    <3>8. QED
      BY <3>2, <3>6, <3>7 DEF FreedOnce
  <2>3. QED
    BY <2>1, <2>2
<1>2. QED
  BY <1>1, Invariance, PTL

-----------------------------------------------------------------------------
(* The scope implements Declarations. *)

LEMMA NoDeclNotStored == ASSUME IInv PROVE NoDecl \notin Stored
<1>1. at = "insert" => new.decl # NoDecl
  BY HashIs DEF IInv, Inserting
<1>2. QED
  BY <1>1 DEF Stored, Pending, Used

LEMMA InitRefines == ASSUME Init PROVE Abstract!Init
<1>1. Stored = {}
  BY DEF Init, Stored, Calloc, Null, Used, Pending
<1>2. QED
  BY <1>1 DEF Init, Abstract!Init, Abstract!NoReq

\* A call that starts or ends leaves the declarations alone.
LEMMA StoredRests ==
  ASSUME at # "insert", at' # "insert", UNCHANGED <<table, old, i>>
  PROVE  Stored' = Stored
  BY DEF Stored, Used, Pending

LEMMA AskRefines ==
  ASSUME IInv, NEW d \in Decls
  PROVE  /\ LookUp(d)  => Abstract!LookUp(d)
         /\ Declare(d) => Abstract!Declare(d)
<1>1. HashOf[d] # 0 /\ d # NoDecl /\ NoDecl \notin Stored
  BY HashIs, NoDeclNotStored
<1>2. ASSUME NEW t, Ask(d, t)
      PROVE  /\ at = "idle" /\ at' = "find" /\ want = 0 /\ todo = NoDecl
             /\ want' = HashOf[d] /\ todo' = t /\ ret' = ret /\ Stored' = Stored
  <2>1. at = "idle" /\ at' = "find" /\ UNCHANGED <<table, old, i, ret>>
    BY <1>2 DEF Ask
  <2>2. QED
    BY <1>2, <2>1, StoredRests DEF Ask, IInv, Modes
<1>3. ASSUME LookUp(d) PROVE Abstract!LookUp(d)
  <2>1. /\ at = "idle" /\ at' = "find" /\ want = 0 /\ todo = NoDecl
        /\ want' = HashOf[d] /\ todo' = NoDecl /\ ret' = ret /\ Stored' = Stored
    BY <1>2, <1>3 DEF LookUp
  <2>2. QED
    BY <1>1, <2>1 DEF Abstract!LookUp, Abstract!NoReq
<1>4. ASSUME Declare(d) PROVE Abstract!Declare(d)
  <2>1. /\ at = "idle" /\ at' = "find" /\ want = 0 /\ todo = NoDecl
        /\ want' = HashOf[d] /\ todo' = d /\ ret' = ret /\ Stored' = Stored
    BY <1>2, <1>4 DEF Declare
  <2>2. d \notin Stored
    <3>1. old = <<>>
      BY <2>1, AtRest
    <3>2. Stored = DeclsOf(table)
      BY <2>1, <3>1 DEF Stored, DeclsOf, Pending, Used
    <3>3. QED
      BY <1>4, <3>2 DEF Declare, DeclsOf
  <2>3. QED
    BY <1>1, <2>1, <2>2 DEF Abstract!Declare, Abstract!NoReq
<1>5. QED
  BY <1>3, <1>4

LEMMA FindHitRefines == ASSUME IInv, FindHit PROVE Abstract!Found
<1>1. /\ at = "find" /\ at' = "idle" /\ want' = 0 /\ todo' = NoDecl
      /\ ret' = table[pos].decl /\ HashOf[table[pos].decl] = want /\ table[pos].decl # NoDecl
      /\ UNCHANGED <<table, old, i>>
  BY DEF FindHit, Answer, Holds
<1>2. table[pos].decl \in DeclsOf(table) /\ want # 0 /\ want # NoDecl
      /\ (todo # NoDecl => todo \notin DeclsOf(table))
  <2>1. size \in Nat \ {0} /\ table \in Tables(size) /\ pos \in 0 .. size - 1
    BY <1>1 DEF IInv, TypeOK, Tables
  <2>2. pos \in Used(table)
    BY <1>1, <2>1, UsedIs
  <2>3. QED
    BY <1>1, <2>2, HashIs DEF IInv, Finding, DeclsOf
<1>3. old = <<>>
  BY <1>1, AtRest
<1>4. Stored = DeclsOf(table) /\ Stored' = Stored
  BY <1>1, <1>3, StoredRests DEF Stored, DeclsOf, Pending, Used
<1>5. NoDecl \notin Stored
  BY NoDeclNotStored
<1>6. Stored \ {todo} = Stored /\ Stored' \ {todo'} = Stored
  BY <1>1, <1>2, <1>4, <1>5
<1>7. QED
  BY <1>1, <1>2, <1>4, <1>6 DEF Abstract!Found, Abstract!NoReq

\* A call that ends without an answer, and what it has added.
LEMMA MissingRefines ==
  ASSUME IInv, want # 0, want # NoDecl, Answer(NoDecl),
         (at' \notin {"del", "closed"}) = (at \notin {"del", "closed"}),
         \A d \in Stored \ {todo} : HashOf[d] # want,
         Stored' = Stored, todo # NoDecl => todo \in Stored
  PROVE  Abstract!Missing
<1>1. want' = 0 /\ todo' = NoDecl /\ ret' = NoDecl
  BY DEF Answer
<1>2. NoDecl \notin Stored
  BY NoDeclNotStored
<1>3. Stored' \ {todo'} = (Stored \ {todo}) \cup ({todo} \ {NoDecl})
  BY <1>1, <1>2
<1>4. QED
  BY <1>1, <1>3 DEF Abstract!Missing, Abstract!NoReq

LEMMA AnswerRefines ==
  ASSUME IInv, FindMiss \/ PushFits \/ RehashDone
  PROVE  Abstract!Missing
<1>1. at \in {"find", "pushed", "rehash"} /\ at' = "idle" /\ Answer(NoDecl)
  BY DEF FindMiss, PushFits, RehashDone, Answer
<1>2. CASE FindMiss
  <2>1. at = "find" /\ GivesUp(table[pos]) /\ todo = NoDecl /\ UNCHANGED <<table, old, i>>
    BY <1>2 DEF FindMiss
  <2>2. old = <<>>
    BY <2>1, AtRest
  <2>3. Stored = DeclsOf(table) /\ Stored' = Stored
    BY <1>1, <2>1, <2>2, StoredRests DEF Stored, DeclsOf, Pending, Used
  <2>4. \A d \in Stored : HashOf[d] # want
    BY <2>1, <2>3, NotFound
  <2>5. want # 0 /\ want # NoDecl
    BY <2>1, HashIs DEF IInv, Finding
  <2>6. QED
    BY <1>1, <2>1, <2>3, <2>4, <2>5, MissingRefines
<1>3. CASE PushFits \/ RehashDone
  <2>1. at \in {"pushed", "rehash"}
    BY <1>3 DEF PushFits, RehashDone
  <2>2. Stored' = Stored
    <3>1. CASE PushFits
      BY <1>1, <3>1, StoredRests DEF PushFits
    <3>2. CASE RehashDone
      <4>1. at = "rehash" /\ Pending = {} /\ UNCHANGED table /\ old' = <<>>
        BY <3>2, RehashedFits DEF RehashDone
      <4>2. QED
        BY <1>1, <4>1 DEF Stored, Pending, Used
    <3>3. QED
      BY <1>3, <3>1, <3>2
  <2>3. todo \in Stored /\ HashOf[todo] = want /\ \A d \in Stored \ {todo} : HashOf[d] # want
    BY <2>1 DEF IInv, Adding
  <2>4. todo \in Decls
    <3>1. NoDecl \notin Stored
      BY NoDeclNotStored
    <3>2. QED
      BY <2>3, <3>1 DEF IInv, TypeOK
  <2>5. want # 0 /\ want # NoDecl
    BY <2>3, <2>4, HashIs
  <2>6. QED
    BY <1>1, <2>1, <2>2, <2>3, <2>5, MissingRefines
<1>4. QED
  BY <1>2, <1>3

\* A step of a loop is invisible.
LEMMA SilentSteps ==
  ASSUME IInv,
         FindAdvance \/ Push \/ InsertAdvance \/ InsertStore \/ PushGrows \/ RehashNext
           \/ Del \/ UNCHANGED vars
  PROVE  UNCHANGED Abstract!avars
<1>1. /\ UNCHANGED <<want, todo, ret>>
      /\ (at' \notin {"del", "closed"}) = (at \notin {"del", "closed"})
  BY DEF FindAdvance, Push, Insert, InsertAdvance, InsertStore, PushGrows, RehashNext,
         Del, FreeNext, Closed, vars
<1>2. Stored' \ {todo} = Stored \ {todo}
  <2>1. CASE FindAdvance \/ Del
    BY <2>1, StoredRests DEF FindAdvance, Del, FreeNext, Closed
  <2>2. CASE Push
    <3>1. /\ at = "find" /\ at' = "insert" /\ new'.decl = todo /\ UNCHANGED <<table, old, i>>
      BY <2>2 DEF Push, Insert
    <3>2. Stored' = Stored \cup {todo}
      BY <3>1 DEF Stored, Pending, Used
    <3>3. QED
      BY <3>2
  <2>3. CASE InsertAdvance
    BY <2>3, SwapInv, PassInv
  <2>4. CASE InsertStore \/ PushGrows \/ RehashNext
    BY <2>4, InsertStoreInv, PushGrowsInv, RehashNextInv
  <2>5. CASE UNCHANGED vars
    BY <2>5 DEF vars, Stored, Pending, Used
  <2>6. QED
    BY <2>1, <2>2, <2>3, <2>4, <2>5
<1>3. QED
  BY <1>1, <1>2 DEF Abstract!avars

LEMMA CloseRefines == ASSUME IInv, Close PROVE Abstract!Close
<1>1. /\ at = "idle" /\ at' = "del" /\ want = 0 /\ todo = NoDecl
      /\ UNCHANGED <<table, old, i, want, todo, ret>>
  BY DEF Close, IInv, Modes
<1>2. Stored' = Stored
  BY <1>1, StoredRests
<1>3. QED
  BY <1>1, <1>2 DEF Abstract!Close, Abstract!NoReq

LEMMA StepRefines == ASSUME IInv, [Next]_vars PROVE [Abstract!Next]_Abstract!avars
<1>1. ASSUME NEW d \in Decls, LookUp(d) \/ Declare(d) PROVE Abstract!Next
  BY <1>1, AskRefines DEF Abstract!Next
<1>2. CASE Close
  BY <1>2, CloseRefines DEF Abstract!Next
<1>3. CASE FindHit
  BY <1>3, FindHitRefines DEF Abstract!Next
<1>4. CASE FindMiss \/ PushFits \/ RehashDone
  BY <1>4, AnswerRefines DEF Abstract!Next
<1>5. CASE FindAdvance \/ Push \/ InsertAdvance \/ InsertStore \/ PushGrows \/ RehashNext
             \/ Del \/ UNCHANGED vars
  BY <1>5, SilentSteps
<1>6. QED
  BY <1>1, <1>2, <1>3, <1>4, <1>5 DEF Next, Step, Find, Add

\* The Robin Hood table is an implementation of declarations that are looked up
\* by identifier, each identifier declared once.
THEOREM Implements == Spec => ImplementsDeclarations
<1>1. Init => Abstract!Init
  BY InitRefines
<1>2. IInv /\ [Next]_vars => [Abstract!Next]_Abstract!avars
  BY StepRefines
<1>3. QED
  BY <1>1, <1>2, Invariance, PTL DEF Spec, ImplementsDeclarations, Abstract!Spec
=============================================================================
