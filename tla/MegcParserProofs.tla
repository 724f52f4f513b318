-------------------------- MODULE MegcParserProofs --------------------------
(***************************************************************************)
(* Proofs about MegcParser for texts of every length.                      *)
(***************************************************************************)
EXTENDS MegcParser, WellFoundedInduction, TLAPS

-----------------------------------------------------------------------------
(* Walks: recursive functions that follow A until they are in S.           *)

WalksTo(D, A, S, V, f) == f = [w \in D |-> IF w \in S THEN V[w] ELSE f[A[w]]]

Falls(D, A, S, m) ==
  A \in [D -> D] /\ m \in [D -> Nat] /\ \A w \in D : w \notin S => m[A[w]] < m[w]

\* A walk is defined where a measure falls with every step it takes.
LEMMA WalkExists ==
  ASSUME NEW D, NEW A, NEW S, NEW V, NEW m, Falls(D, A, S, m),
         NEW n \in Nat, \A w \in D : m[w] <= n
  PROVE  \E f : WalksTo(D, A, S, V, f)
<1> USE DEF Falls
<1> DEFINE E(k) == {w \in D : m[w] <= k}
<1> DEFINE T == {k \in Nat : ~ \E f : WalksTo(E(k), A, S, V, f)}
<1>1. T = {}
  <2>1. SUFFICES ASSUME T # {} PROVE FALSE
    OBVIOUS
  <2>2. PICK l \in T : \A y \in T : ~ (<<y, l>> \in OpToRel(<, Nat))
    <3>1. IsWellFoundedOn(OpToRel(<, Nat), Nat)
      BY NatLessThanWellFounded
    <3>2. T \subseteq Nat
      OBVIOUS
    <3>3. QED
      BY <2>1, <3>1, <3>2, WFMin
  <2>3. l \in Nat /\ ~ \E f : WalksTo(E(l), A, S, V, f)
    OBVIOUS
  <2>4. CASE l = 0
    <3>1. \A w \in E(l) : w \in S
      BY <2>4
    <3>2. PICK f : f = [w \in E(l) |-> V[w]]
      OBVIOUS
    <3>3. f = [w \in E(l) |-> IF w \in S THEN V[w] ELSE f[A[w]]]
      BY <3>1, <3>2
    <3>4. QED
      BY <2>3, <3>3 DEF WalksTo
  <2>5. CASE l # 0
    <3>1. PICK j \in Nat : l = j + 1 /\ j < l
      <4>1. l - 1 \in Nat /\ l = (l - 1) + 1 /\ l - 1 < l
        BY <2>3, <2>5
      <4>2. QED
        BY <4>1
    <3>2. j \notin T
      BY <2>2, <2>3, <3>1 DEF OpToRel
    <3>3. PICK g : WalksTo(E(j), A, S, V, g)
      BY <3>2
    <3>4. \A w \in E(j) : g[w] = IF w \in S THEN V[w] ELSE g[A[w]]
      BY <3>3 DEF WalksTo
    <3>5. PICK h : h = [w \in E(l) |-> IF m[w] <= j THEN g[w]
                                       ELSE IF w \in S THEN V[w] ELSE g[A[w]]]
      OBVIOUS
    <3>6. \A w \in E(l) : h[w] = IF w \in S THEN V[w] ELSE h[A[w]]
      <4>1. TAKE w \in E(l)
      <4>2. w \in D /\ m[w] <= l /\ m[w] \in Nat
        OBVIOUS
      <4>3. h[w] = IF w \in S THEN V[w] ELSE g[A[w]]
        BY <3>4, <3>5, <4>2
      <4>4. CASE w \in S
        BY <4>3, <4>4
      <4>5. CASE w \notin S
        <5>1. A[w] \in D /\ m[A[w]] \in Nat /\ m[A[w]] < m[w]
          BY <4>2, <4>5
        <5>2. m[A[w]] <= j /\ m[A[w]] <= l
          BY <3>1, <4>2, <5>1
        <5>3. h[A[w]] = g[A[w]]
          BY <3>5, <5>1, <5>2
        <5>4. QED
          BY <4>3, <4>5, <5>3
      <4>6. QED
        BY <4>4, <4>5
    <3>7. h = [w \in E(l) |-> IF w \in S THEN V[w] ELSE h[A[w]]]
      <4>1. h = [w \in E(l) |-> h[w]]
        BY <3>5
      <4>2. QED
        BY <3>6, <4>1
    <3>8. QED
      BY <2>3, <3>7 DEF WalksTo
  <2>6. QED
    BY <2>4, <2>5
<1>2. PICK f : WalksTo(E(n), A, S, V, f)
  BY <1>1
<1>3. E(n) = D
  OBVIOUS
<1>4. QED
  BY <1>2, <1>3

\* A walk does not leave a set that A and V do not leave.
LEMMA WalkStays ==
  ASSUME NEW D, NEW A, NEW S, NEW V, NEW m, Falls(D, A, S, m),
         NEW f, WalksTo(D, A, S, V, f),
         NEW G, G \subseteq D, \A w \in G : A[w] \in G /\ V[w] \in G
  PROVE  \A w \in G : f[w] \in G
<1> USE DEF Falls
<1> DEFINE T == {k \in Nat : \E w \in G : m[w] = k /\ f[w] \notin G}
<1>1. T = {}
  <2>1. SUFFICES ASSUME T # {} PROVE FALSE
    OBVIOUS
  <2>2. PICK l \in T : \A y \in T : ~ (<<y, l>> \in OpToRel(<, Nat))
    <3>1. IsWellFoundedOn(OpToRel(<, Nat), Nat)
      BY NatLessThanWellFounded
    <3>2. T \subseteq Nat
      OBVIOUS
    <3>3. QED
      BY <2>1, <3>1, <3>2, WFMin
  <2>3. l \in Nat
    OBVIOUS
  <2>4. PICK w \in G : m[w] = l /\ f[w] \notin G
    OBVIOUS
  <2>5. w \in D /\ f[w] = IF w \in S THEN V[w] ELSE f[A[w]]
    BY DEF WalksTo
  <2>6. w \notin S /\ f[w] = f[A[w]]
    BY <2>4, <2>5
  <2>7. A[w] \in G /\ A[w] \in D /\ m[A[w]] < l /\ m[A[w]] \in Nat
    BY <2>4, <2>5, <2>6
  <2>8. m[A[w]] \notin T
    BY <2>2, <2>3, <2>7 DEF OpToRel
  <2>9. f[A[w]] \in G
    BY <2>7, <2>8
  <2>10. QED
    BY <2>4, <2>6, <2>9
<1>2. SUFFICES ASSUME NEW w \in G, f[w] \notin G PROVE FALSE
  OBVIOUS
<1>3. m[w] \in Nat
  OBVIOUS
<1>4. QED
  BY <1>1, <1>2, <1>3

-----------------------------------------------------------------------------
(* The window. *)

\* The windows the parser can have after its first advance: the second token is
\* the one behind the first.
Ahead == {w \in Windows : 1 <= w[1] /\ w[1] <= w[2] /\ w[2] = Lexed(w[1])}

LEMMA KindIs ==
  ASSUME text \in Seq(Kinds)
  PROVE  /\ Len(text) \in Nat
         /\ Kind(0) = "INVAL" /\ Kind(Len(text) + 1) = "EOF"
         /\ \A p \in Nat : Kind(p) \notin {"INVAL", "EOF"} => 1 <= p /\ p <= Len(text)
         /\ \A p \in Nat : p > Len(text) => Kind(p) = "EOF"
         /\ \A p \in 0 .. Len(text) + 1 : Lexed(p) \in 0 .. Len(text) + 1 /\ p <= Lexed(p)
         /\ \A p \in 0 .. Len(text) : Lexed(p) = p + 1
  BY DEF Kind, Lexed

LEMMA AdvanceIs ==
  ASSUME text \in Seq(Kinds)
  PROVE  /\ Advance \in [Windows -> Windows]
         /\ \A w \in Windows :
              /\ w[1] \in 0 .. Len(text) + 1 /\ w[2] \in 0 .. Len(text) + 1
              /\ Advance[w][1] \in {w[2], Lexed(w[2])}
              /\ Advance[w][2] \in {Lexed(w[2]), Lexed(Lexed(w[2]))}
              /\ Kind(w[2]) # "INVAL" => Advance[w][1] = w[2]
              /\ Advance[w][2] = Lexed(Advance[w][1])
         /\ \A w \in Ahead : Advance[w] \in Ahead
         /\ Advance[<<0, 0>>] \in Ahead
<1>1. PICK n \in Nat : n = Len(text) + 1
  BY KindIs
<1>2. Windows = (0 .. n) \X (0 .. n)
  BY <1>1 DEF Windows
<1>3. \A p \in 0 .. n : Lexed(p) \in 0 .. n /\ p <= Lexed(p)
  BY <1>1, KindIs
<1>4. \A w \in Windows :
        Advance[w] = IF Kind(w[2]) # "INVAL" THEN <<w[2], Lexed(w[2])>>
                     ELSE <<Lexed(w[2]), Lexed(Lexed(w[2]))>>
  BY DEF Advance
<1>5. ASSUME NEW w \in Windows
      PROVE  /\ w[1] \in 0 .. n /\ w[2] \in 0 .. n /\ Advance[w] \in Windows
             /\ Advance[w][1] \in {w[2], Lexed(w[2])}
             /\ Advance[w][2] \in {Lexed(w[2]), Lexed(Lexed(w[2]))}
             /\ Kind(w[2]) # "INVAL" => Advance[w][1] = w[2]
             /\ Advance[w][2] = Lexed(Advance[w][1])
             /\ w[2] <= Advance[w][1] /\ Advance[w][1] <= Advance[w][2]
  <2>1. w[1] \in 0 .. n /\ w[2] \in 0 .. n
    BY <1>2
  <2>2. /\ Lexed(w[2]) \in 0 .. n /\ Lexed(Lexed(w[2])) \in 0 .. n
        /\ w[2] <= Lexed(w[2]) /\ Lexed(w[2]) <= Lexed(Lexed(w[2]))
    BY <1>3, <2>1
  <2>3. CASE Kind(w[2]) # "INVAL"
    <3>1. Advance[w] = <<w[2], Lexed(w[2])>>
      BY <1>4, <2>3
    <3>2. QED
      BY <1>2, <2>1, <2>2, <3>1
  <2>4. CASE Kind(w[2]) = "INVAL"
    <3>1. Advance[w] = <<Lexed(w[2]), Lexed(Lexed(w[2]))>>
      BY <1>4, <2>4
    <3>2. QED
      BY <1>2, <2>1, <2>2, <2>4, <3>1
  <2>5. QED
    BY <2>3, <2>4
<1>6. Advance \in [Windows -> Windows]
  <2>1. Advance = [w \in Windows |-> Advance[w]]
    BY DEF Advance
  <2>2. QED
    BY <1>5, <2>1
<1>7. ASSUME NEW w \in Ahead
      PROVE  Advance[w] \in Ahead
  <2>1. w \in Windows /\ 1 <= w[1] /\ w[1] <= w[2]
    BY DEF Ahead
  <2>2. /\ w[1] \in 0 .. n /\ w[2] \in 0 .. n /\ Advance[w] \in Windows
        /\ w[2] <= Advance[w][1] /\ Advance[w][1] <= Advance[w][2]
        /\ Advance[w][2] = Lexed(Advance[w][1])
    BY <1>5, <2>1
  <2>3. Advance[w][1] \in 0 .. n
    BY <1>5, <2>2
  <2>4. 1 <= Advance[w][1]
    BY <2>1, <2>2, <2>3
  <2>5. QED
    BY <2>2, <2>4 DEF Ahead
<1>8. Advance[<<0, 0>>] \in Ahead
  <2>1. PICK w \in Windows : w = <<0, 0>>
    <3>1. PICK z : z = 0
      OBVIOUS
    <3>2. <<z, z>> \in (0 .. n) \X (0 .. n)
      BY <1>1, <3>1
    <3>3. QED
      BY <1>2, <3>1, <3>2
  <2>2. w[2] = 0 /\ Kind(w[2]) = "INVAL"
    BY <2>1, KindIs
  <2>3. Advance[w] = <<Lexed(0), Lexed(Lexed(0))>>
    BY <1>4, <2>2
  <2>4. Lexed(0) = 1
    BY KindIs
  <2>5. /\ Advance[w][1] = 1 /\ Advance[w] \in Windows /\ Advance[w][1] <= Advance[w][2]
        /\ Advance[w][2] = Lexed(Advance[w][1])
    BY <1>5, <2>3, <2>4
  <2>6. Advance[w] \in Ahead
    BY <2>5 DEF Ahead
  <2>7. QED
    BY <2>1, <2>6
<1>9. QED
  BY <1>1, <1>5, <1>6, <1>7, <1>8

\* What is left of the text, and whether the first token is within it.
Left == [w \in Windows |-> IF w[1] <= Len(text)
                           THEN (Len(text) + 1 - w[2]) + (Len(text) + 1 - w[2]) + 1
                           ELSE (Len(text) + 1 - w[2]) + (Len(text) + 1 - w[2])]

LEMMA LeftFalls ==
  ASSUME text \in Seq(Kinds)
  PROVE  /\ Left \in [Windows -> Nat]
         /\ \E n \in Nat : \A w \in Windows : Left[w] <= n
         /\ \A w \in Windows :
              Cur(w) \in {"EOL", "DOC"} \/ Cur(Advance[w]) # "EOF" => Left[Advance[w]] < Left[w]
<1>1. PICK n \in Nat : n = Len(text)
  BY KindIs
<1>2. \A w \in Windows : /\ w[1] \in 0 .. n + 1 /\ w[2] \in 0 .. n + 1
                         /\ Left[w] = IF w[1] <= n THEN (n + 1 - w[2]) + (n + 1 - w[2]) + 1
                                      ELSE (n + 1 - w[2]) + (n + 1 - w[2])
  BY <1>1, AdvanceIs DEF Left
<1>3. \A w \in Windows : Left[w] \in Nat /\ Left[w] <= n + n + 3
  BY <1>1, <1>2
<1>4. Left \in [Windows -> Nat]
  <2>1. Left = [w \in Windows |-> Left[w]]
    BY DEF Left
  <2>2. QED
    BY <1>3, <2>1
<1>5. n + n + 3 \in Nat
  BY <1>1
<1>6. ASSUME NEW w \in Windows, Cur(w) \in {"EOL", "DOC"} \/ Cur(Advance[w]) # "EOF"
      PROVE  Left[Advance[w]] < Left[w]
  <2>1. PICK v \in Windows : v = Advance[w]
    BY AdvanceIs
  <2>2. /\ w[1] \in 0 .. n + 1 /\ w[2] \in 0 .. n + 1
        /\ v[1] \in 0 .. n + 1 /\ v[2] \in 0 .. n + 1
    BY <1>2
  <2>3. CASE w[2] <= n
    <3>1. Lexed(w[2]) = w[2] + 1 /\ Lexed(w[2]) <= Lexed(Lexed(w[2]))
          /\ Lexed(Lexed(w[2])) \in 0 .. n + 1
      BY <1>1, <2>2, <2>3, KindIs
    <3>2. v[2] \in {Lexed(w[2]), Lexed(Lexed(w[2]))}
      BY <2>1, AdvanceIs
    <3>3. v[2] >= w[2] + 1
      BY <2>2, <3>1, <3>2
    <3>4. /\ Left[w] >= (n + 1 - w[2]) + (n + 1 - w[2])
          /\ Left[v] <= (n + 1 - v[2]) + (n + 1 - v[2]) + 1
      BY SMTT(30), <1>2, <2>2
    <3>5. Left[v] < Left[w]
      <4>1. PICK l, r \in Nat : l = Left[v] /\ r = Left[w]
        BY <1>3
      <4>2. PICK x, y \in 0 .. n + 1 : x = w[2] /\ y = v[2]
        BY <2>2
      <4>3. r >= (n + 1 - x) + (n + 1 - x) /\ l <= (n + 1 - y) + (n + 1 - y) + 1
        BY <3>4, <4>1, <4>2
      <4>4. y >= x + 1
        BY <3>3, <4>2
      <4>5. l < r
        BY <4>3, <4>4
      <4>6. QED
        BY <4>1, <4>5
    <3>6. QED
      BY <2>1, <3>5
  <2>4. CASE w[2] = n + 1
    <3>1. Kind(w[2]) = "EOF"
      BY <1>1, <2>4, KindIs
    <3>2. v[1] = n + 1
      BY <2>1, <2>4, <3>1, AdvanceIs
    <3>3. Lexed(w[2]) = w[2] /\ Lexed(Lexed(w[2])) = w[2]
      BY <1>1, <2>4 DEF Lexed
    <3>4. v[2] = n + 1
      BY <2>1, <2>4, <3>3, AdvanceIs
    <3>5. Cur(v) = "EOF"
      BY <1>1, <3>2, KindIs DEF Cur
    <3>6. Kind(w[1]) \notin {"INVAL", "EOF"}
      BY <1>6, <2>1, <3>5 DEF Cur
    <3>7. w[1] <= n
      BY SMTT(30), <1>1, <2>2, <3>6, KindIs
    <3>8. Left[v] = 0
      <4>1. PICK x, y \in 0 .. n + 1 : x = v[1] /\ y = v[2]
        BY <2>2
      <4>2. Left[v] = IF x <= n THEN (n + 1 - y) + (n + 1 - y) + 1 ELSE (n + 1 - y) + (n + 1 - y)
        BY <1>2, <4>1
      <4>3. x = n + 1 /\ y = n + 1
        BY <3>2, <3>4, <4>1
      <4>4. QED
        BY <4>2, <4>3
    <3>9. Left[w] = 1
      <4>1. PICK x, y \in 0 .. n + 1 : x = w[1] /\ y = w[2]
        BY <2>2
      <4>2. Left[w] = IF x <= n THEN (n + 1 - y) + (n + 1 - y) + 1 ELSE (n + 1 - y) + (n + 1 - y)
        BY <1>2, <4>1
      <4>3. x <= n /\ y = n + 1
        BY <2>4, <3>7, <4>1
      <4>4. QED
        BY <4>2, <4>3
    <3>10. QED
      BY <2>1, <3>8, <3>9
  <2>5. QED
    BY <2>2, <2>3, <2>4
<1>7. QED
  BY <1>3, <1>4, <1>5, <1>6

\* Wherever a walk over the tokens stops, and whether it answers the window it
\* stops at or the next, it answers a window ahead.
LEMMA WalkAhead ==
  ASSUME text \in Seq(Kinds), NEW S, NEW V, \A w \in Ahead : V[w] \in Ahead,
         \A w \in Windows : w \notin S => Cur(w) \in {"EOL", "DOC"} \/ Cur(Advance[w]) # "EOF"
  PROVE  /\ \E f : WalksTo(Windows, Advance, S, V, f)
         /\ \A f : WalksTo(Windows, Advance, S, V, f) => \A w \in Ahead : f[w] \in Ahead
<1>1. PICK n \in Nat : \A w \in Windows : Left[w] <= n
  BY LeftFalls
<1>2. Falls(Windows, Advance, S, Left)
  BY LeftFalls, AdvanceIs DEF Falls
<1>3. \E f : WalksTo(Windows, Advance, S, V, f)
  BY <1>1, <1>2, WalkExists
<1>4. Ahead \subseteq Windows /\ \A w \in Ahead : Advance[w] \in Ahead /\ V[w] \in Ahead
  BY AdvanceIs DEF Ahead
<1>5. ASSUME NEW f, WalksTo(Windows, Advance, S, V, f)
      PROVE  \A w \in Ahead : f[w] \in Ahead
  BY <1>2, <1>4, <1>5, WalkStays
<1>6. QED
  BY <1>3, <1>5

LEMMA NxtValidAhead ==
  ASSUME text \in Seq(Kinds), NEW w \in Ahead
  PROVE  NxtValid[w] \in Ahead
<1>1. PICK S : S = {v \in Windows : Cur(v) \notin {"EOL", "DOC"}}
  OBVIOUS
<1>2. PICK V : V = [v \in Windows |-> v]
  OBVIOUS
<1>3. \A f : WalksTo(Windows, Advance, S, V, f) <=>
        f = [v \in Windows |-> IF Cur(v) \in {"EOL", "DOC"} THEN f[Advance[v]] ELSE v]
  BY <1>1, <1>2 DEF WalksTo
<1>4. /\ \E f : WalksTo(Windows, Advance, S, V, f)
      /\ \A f : WalksTo(Windows, Advance, S, V, f) => \A v \in Ahead : f[v] \in Ahead
  <2>1. \A v \in Ahead : V[v] \in Ahead
    BY <1>2 DEF Ahead
  <2>2. \A v \in Windows : v \notin S => Cur(v) \in {"EOL", "DOC"}
    BY <1>1
  <2>3. QED
    BY <2>1, <2>2, WalkAhead
<1>5. \E f : f = [v \in Windows |-> IF Cur(v) \in {"EOL", "DOC"} THEN f[Advance[v]] ELSE v]
  BY <1>3, <1>4
<1>6. NxtValid = [v \in Windows |-> IF Cur(v) \in {"EOL", "DOC"} THEN NxtValid[Advance[v]] ELSE v]
  BY <1>5, Zenon DEF NxtValid
<1>7. WalksTo(Windows, Advance, S, V, NxtValid)
  BY <1>3, <1>6
<1>8. QED
  BY <1>4, <1>7

LEMMA SkipDocAhead ==
  ASSUME text \in Seq(Kinds), NEW w \in Ahead
  PROVE  SkipDoc[w] \in Ahead
<1>1. PICK S : S = {v \in Windows : Cur(v) # "DOC"}
  OBVIOUS
<1>2. PICK V : V = [v \in Windows |-> v]
  OBVIOUS
<1>3. \A f : WalksTo(Windows, Advance, S, V, f) <=>
        f = [v \in Windows |-> IF Cur(v) = "DOC" THEN f[Advance[v]] ELSE v]
  BY <1>1, <1>2 DEF WalksTo
<1>4. /\ \E f : WalksTo(Windows, Advance, S, V, f)
      /\ \A f : WalksTo(Windows, Advance, S, V, f) => \A v \in Ahead : f[v] \in Ahead
  <2>1. \A v \in Ahead : V[v] \in Ahead
    BY <1>2 DEF Ahead
  <2>2. \A v \in Windows : v \notin S => Cur(v) \in {"EOL", "DOC"}
    BY <1>1
  <2>3. QED
    BY <2>1, <2>2, WalkAhead
<1>5. \E f : f = [v \in Windows |-> IF Cur(v) = "DOC" THEN f[Advance[v]] ELSE v]
  BY <1>3, <1>4
<1>6. SkipDoc = [v \in Windows |-> IF Cur(v) = "DOC" THEN SkipDoc[Advance[v]] ELSE v]
  BY <1>5, Zenon DEF SkipDoc
<1>7. WalksTo(Windows, Advance, S, V, SkipDoc)
  BY <1>3, <1>6
<1>8. QED
  BY <1>4, <1>7

\* The walk of SkipUntil over a window.
Skips(k, f) ==
  f = [v \in Windows |-> IF Cur(v) = k THEN Advance[v]
                         ELSE IF Cur(Advance[v]) = "EOF" THEN Advance[v] ELSE f[Advance[v]]]

LEMMA SkipUntilAhead ==
  ASSUME text \in Seq(Kinds), NEW w \in Ahead, NEW k
  PROVE  SkipUntil(w, k) \in Ahead
<1>1. PICK S : S = {v \in Windows : Cur(v) = k \/ Cur(Advance[v]) = "EOF"}
  OBVIOUS
<1>2. PICK V : V = Advance
  OBVIOUS
<1>3. \A f : WalksTo(Windows, Advance, S, V, f) <=> Skips(k, f)
  BY <1>1, <1>2 DEF WalksTo, Skips
<1>4. /\ \E f : WalksTo(Windows, Advance, S, V, f)
      /\ \A f : WalksTo(Windows, Advance, S, V, f) => \A v \in Ahead : f[v] \in Ahead
  <2>1. \A v \in Ahead : V[v] \in Ahead
    BY <1>2, AdvanceIs
  <2>2. \A v \in Windows : v \notin S => Cur(Advance[v]) # "EOF"
    BY <1>1
  <2>3. QED
    BY <2>1, <2>2, WalkAhead
<1>5. \E f : Skips(k, f)
  BY <1>3, <1>4
<1>6. \E f : Skips(k, f) /\ SkipUntil(w, k) = f[w]
  BY <1>5, Zenon DEF Skips, SkipUntil
<1>7. QED
  BY <1>3, <1>4, <1>6

LEMMA ExpectAhead ==
  ASSUME text \in Seq(Kinds), NEW w \in Ahead
  PROVE  /\ Advance[w] \in Ahead /\ NxtValid[w] \in Ahead /\ SkipDoc[w] \in Ahead
         /\ \A k : Expect(w, k) \in Ahead /\ SkipUntil(w, k) \in Ahead
         /\ AfterType(w) \in Ahead
<1>1. /\ \A v \in Ahead : Advance[v] \in Ahead
      /\ NxtValid[w] \in Ahead /\ SkipDoc[w] \in Ahead
  BY AdvanceIs, NxtValidAhead, SkipDocAhead
<1>2. \A k : Expect(w, k) \in Ahead
  BY <1>1 DEF Expect
<1>3. \A k : SkipUntil(w, k) \in Ahead
  BY SkipUntilAhead
<1>4. QED
  BY <1>1, <1>2, <1>3 DEF AfterType

-----------------------------------------------------------------------------
(* The stack of frames. *)

IsFrame(x) == \E fn, prec, tok, e, args, cut : x = Frame(fn, prec, tok, e, args, cut)
Cut(x)     == x.cut

Frames(s) ==
  /\ \E S : s \in Seq(S)
  /\ \A k \in 1 .. Len(s) : IsFrame(s[k]) /\ s[k].fn \in Fns /\ (s[k].fn = "expr" <=> k % 2 = 1)

NoCut(s) == \A k \in 1 .. Len(s) : ~Cut(s[k])

LEMMA Parity ==
  ASSUME NEW n \in Nat
  PROVE  n % 2 \in {0, 1} /\ ((n + 1) % 2 = 1 <=> n % 2 # 1)
  OBVIOUS

LEMMA NewFrames ==
  ASSUME NEW fn, NEW prec, NEW tok, NEW e
  PROVE  /\ IsFrame(ExprFrame(prec)) /\ ExprFrame(prec).fn = "expr" /\ ~Cut(ExprFrame(prec))
         /\ IsFrame(WaitFrame(fn, tok, e)) /\ WaitFrame(fn, tok, e).fn = fn
         /\ ~Cut(WaitFrame(fn, tok, e))
<1>1. PICK x : x = ExprFrame(prec)
  OBVIOUS
<1>2. x = Frame("expr", prec, 0, Null, <<>>, FALSE)
  BY <1>1 DEF ExprFrame
<1>3. PICK y : y = WaitFrame(fn, tok, e)
  OBVIOUS
<1>4. y = Frame(fn, 0, tok, e, <<>>, FALSE)
  BY <1>3 DEF WaitFrame
<1>5. IsFrame(x) /\ IsFrame(y)
  BY <1>2, <1>4, Zenon DEF IsFrame
<1>6. x.fn = "expr" /\ y.fn = fn
  BY <1>2, <1>4 DEF Frame
<1>7. ~Cut(x) /\ ~Cut(y)
  BY <1>2, <1>4 DEF Frame, Cut
<1>8. QED
  BY <1>1, <1>3, <1>5, <1>6, <1>7

\* A frame after its value, or its arguments, changed.
LEMMA FrameSet ==
  ASSUME NEW x, IsFrame(x), NEW v
  PROVE  /\ IsFrame([x EXCEPT !.e = v]) /\ [x EXCEPT !.e = v].fn = x.fn
         /\ [x EXCEPT !.e = v].e = v /\ Cut([x EXCEPT !.e = v]) <=> Cut(x)
<1>1. PICK fn, prec, tok, e, args, cut : x = Frame(fn, prec, tok, e, args, cut)
  BY DEF IsFrame
<1>2. PICK y : y = [x EXCEPT !.e = v]
  OBVIOUS
<1>3. y = Frame(fn, prec, tok, v, args, cut)
  BY <1>1, <1>2 DEF Frame
<1>4. IsFrame(y)
  BY <1>3, Zenon DEF IsFrame
<1>5. y.fn = x.fn /\ y.e = v
  BY <1>1, <1>3 DEF Frame
<1>6. Cut(y) <=> Cut(x)
  BY <1>1, <1>3 DEF Frame, Cut
<1>7. QED
  BY <1>2, <1>4, <1>5, <1>6

Linked(x, a, c) == [x EXCEPT !.args = a, !.cut = c]

LEMMA ArgsSet ==
  ASSUME NEW x, IsFrame(x), NEW a, NEW c, NEW y, y = Linked(x, a, c)
  PROVE  IsFrame(y) /\ y.fn = x.fn /\ y.cut = c
<1>1. PICK fn, prec, tok, e, args, cut : x = Frame(fn, prec, tok, e, args, cut)
  BY DEF IsFrame
<1>2. y = Frame(fn, prec, tok, e, a, c)
  BY <1>1 DEF Frame, Linked
<1>3. IsFrame(y)
  <2>1. IsFrame(Frame(fn, prec, tok, e, a, c))
    BY Zenon DEF IsFrame
  <2>2. QED
    BY <1>2, <2>1
<1>4. y.fn = x.fn
  BY <1>1, <1>2 DEF Frame
<1>5. y.cut = c
  BY <1>2 DEF Frame
<1>6. QED
  BY <1>3, <1>4, <1>5

LEMMA FramesAre ==
  ASSUME NEW s, Frames(s)
  PROVE  Len(s) \in Nat /\ DOMAIN s = 1 .. Len(s) /\ (s # <<>> => Len(s) \in 1 .. Len(s))
<1>1. PICK S : s \in Seq(S)
  BY DEF Frames
<1>2. QED
  BY <1>1

\* t is s with x on top.
OnTop(s, x, t) ==
  /\ Frames(t) /\ Len(t) = Len(s) + 1 /\ t # <<>> /\ t[Len(t)] = x
  /\ NoCut(s) /\ ~Cut(x) => NoCut(t)

LEMMA FramePushed ==
  ASSUME NEW s, Frames(s), NEW x, IsFrame(x), x.fn \in Fns, x.fn = "expr" <=> Len(s) % 2 # 1
  PROVE  OnTop(s, x, Append(s, x))
<1>1. PICK S : s \in Seq(S)
  BY DEF Frames
<1>2. PICK U : U = S \cup {x}
  OBVIOUS
<1>3. s \in Seq(U) /\ x \in U /\ Len(s) \in Nat
  BY <1>1, <1>2
<1>4. PICK t : t = Append(s, x)
  OBVIOUS
<1>5. /\ t \in Seq(U) /\ Len(t) = Len(s) + 1 /\ t[Len(t)] = x /\ t # <<>>
      /\ \A k \in 1 .. Len(s) : t[k] = s[k]
  BY <1>3, <1>4
<1>6. x.fn = "expr" <=> Len(t) % 2 = 1
  BY <1>3, <1>5, Parity
<1>7. \A k \in 1 .. Len(t) : k \in 1 .. Len(s) \/ k = Len(t)
  BY <1>3, <1>5
<1>8. Frames(t)
  BY <1>5, <1>6, <1>7 DEF Frames
<1>9. NoCut(s) /\ ~Cut(x) => NoCut(t)
  BY <1>5, <1>7 DEF NoCut
<1>10. QED
  BY <1>4, <1>5, <1>8, <1>9 DEF OnTop

\* t is s with x instead of the frame on top.
TopIs(s, x, t) ==
  /\ Frames(t) /\ Len(t) = Len(s) /\ t # <<>> /\ t[Len(t)] = x
  /\ NoCut(s) /\ ~Cut(x) => NoCut(t)

LEMMA TopReplaced ==
  ASSUME NEW s, Frames(s), s # <<>>, NEW x, IsFrame(x), x.fn = s[Len(s)].fn
  PROVE  TopIs(s, x, [s EXCEPT ![Len(s)] = x])
<1>1. PICK S : s \in Seq(S)
  BY DEF Frames
<1>2. PICK U : U = S \cup {x}
  OBVIOUS
<1>3. s \in Seq(U) /\ x \in U /\ Len(s) \in Nat /\ Len(s) \in 1 .. Len(s)
  BY <1>1, <1>2
<1>4. PICK t : t = [s EXCEPT ![Len(s)] = x]
  OBVIOUS
<1>5. /\ t \in Seq(U) /\ Len(t) = Len(s) /\ t[Len(s)] = x /\ t # <<>>
      /\ \A k \in 1 .. Len(s) : k # Len(s) => t[k] = s[k]
  BY <1>3, <1>4
<1>6. x.fn \in Fns /\ (x.fn = "expr" <=> Len(s) % 2 = 1)
  BY <1>3 DEF Frames
<1>7. \A k \in 1 .. Len(t) : k \in 1 .. Len(s) /\ (t[k] = s[k] \/ (k = Len(s) /\ t[k] = x))
  BY <1>3, <1>5
<1>8. Frames(t)
  BY <1>5, <1>6, <1>7 DEF Frames
<1>9. NoCut(s) /\ ~Cut(x) => NoCut(t)
  BY <1>5, <1>7 DEF NoCut
<1>10. QED
  BY <1>4, <1>5, <1>8, <1>9 DEF TopIs

\* t is s without the frame on top.
Without(s, t) == Frames(t) /\ Len(t) = Len(s) - 1 /\ (NoCut(s) => NoCut(t))

LEMMA FramePopped ==
  ASSUME NEW s, Frames(s), s # <<>>
  PROVE  Without(s, SubSeq(s, 1, Len(s) - 1))
<1>1. PICK S : s \in Seq(S)
  BY DEF Frames
<1>2. PICK t : t = SubSeq(s, 1, Len(s) - 1)
  OBVIOUS
<1>3. /\ t \in Seq(S) /\ Len(t) = Len(s) - 1
      /\ \A k \in 1 .. Len(t) : k \in 1 .. Len(s) /\ t[k] = s[k]
  <2>1. Len(s) \in Nat \ {0}
    BY <1>1
  <2>2. PICK n \in Nat : n = Len(s) - 1 /\ n + 1 = Len(s)
    BY <2>1
  <2>3. t = SubSeq(s, 1, n) /\ n <= Len(s) /\ \A k \in 1 .. n : k \in 1 .. Len(s)
    BY <1>2, <2>1, <2>2
  <2>4. t \in Seq(S) /\ Len(t) = n /\ \A k \in 1 .. n : t[k] = s[k]
    BY <1>1, <2>1, <2>3
  <2>5. QED
    BY <2>2, <2>3, <2>4
<1>4. Frames(t) /\ (NoCut(s) => NoCut(t))
  BY <1>3 DEF Frames, NoCut
<1>5. QED
  BY <1>2, <1>3, <1>4 DEF Without

\* The value of the frame on top is v in t.
Answers(s, v, t) ==
  /\ Frames(t) /\ Len(t) = Len(s) /\ t # <<>> /\ t[Len(t)].e = v /\ (NoCut(s) => NoCut(t))

LEMMA ValueSet ==
  ASSUME NEW s, Frames(s), s # <<>>, NEW v
  PROVE  Answers(s, v, [s EXCEPT ![Len(s)].e = v])
<1>1. Len(s) \in 1 .. Len(s) /\ IsFrame(s[Len(s)])
  BY FramesAre DEF Frames
<1>2. PICK x : x = [s[Len(s)] EXCEPT !.e = v]
  OBVIOUS
<1>3. IsFrame(x) /\ x.fn = s[Len(s)].fn /\ x.e = v /\ (Cut(x) <=> Cut(s[Len(s)]))
  BY <1>1, <1>2, FrameSet
<1>4. PICK t : t = [s EXCEPT ![Len(s)] = x]
  OBVIOUS
<1>5. t = [s EXCEPT ![Len(s)].e = v]
  BY <1>2, <1>4
<1>6. TopIs(s, x, t)
  BY <1>3, <1>4, TopReplaced
<1>7. NoCut(s) => ~Cut(x)
  BY <1>1, <1>3 DEF NoCut
<1>8. QED
  BY <1>3, <1>5, <1>6, <1>7 DEF TopIs, Answers

-----------------------------------------------------------------------------
(* The states. *)

\* StackOK of a stack of frames.
Shape(s, p) ==
  /\ Frames(s) /\ p \in Pcs
  /\ p \in {"expr", "led"} => Len(s) % 2 = 1
  /\ p = "args" => s # <<>> /\ s[Len(s)].fn = "call"
  /\ p = "return" => Len(s) % 2 = 0
  /\ p \in {"unit", "params", "close", "result"} => s = <<>>

\* Nothing is missing so far: no argument, no value of an expression, and no
\* value that is returned.
Clean(s, p, r) ==
  NoCut(s) /\ (p = "led" => s[Len(s)].e # Null) /\ (p = "return" => r # Null)

Statuses == {"running", "done", "panic", "assert", "crash"}

\* The inductive invariant.
IInv ==
  /\ text \in Seq(Kinds) /\ window \in Ahead
  /\ bad \in BOOLEAN /\ status \in Statuses
  /\ Shape(stack, pc)
  /\ bad \/ (Clean(stack, pc, ret) /\ status # "crash")

LEMMA MovedTo ==
  ASSUME text \in Seq(Kinds), text' = text, NEW w \in Ahead, MoveTo(w)
  PROVE  window' \in Ahead'
<1>1. /\ Windows' = Windows
      /\ Ahead' = {v \in Windows : 1 <= v[1] /\ v[1] <= v[2] /\ v[2] = Lexed(v[1])}
  BY DEF Ahead, Windows, Lexed
<1>2. /\ w \in Windows /\ 1 <= w[1] /\ w[1] <= w[2] /\ w[2] = Lexed(w[1])
      /\ w = <<w[1], w[2]>>
  BY DEF Ahead, Windows
<1>3. window' = w
  BY <1>2 DEF MoveTo, window
<1>4. QED
  BY <1>1, <1>2, <1>3

LEMMA NotMoved ==
  ASSUME window \in Ahead, text' = text, window' = window
  PROVE  window' \in Ahead'
  BY DEF Ahead, Windows, Lexed

\* A step that goes on keeps the invariant if it reports what is missing.
LEMMA GoesOn ==
  ASSUME IInv, UNCHANGED <<text, status>>, window' \in Ahead', Fine \/ Report,
         Shape(stack', pc'), status # "crash",
         Report \/ (Clean(stack, pc, ret) => Clean(stack', pc', ret'))
  PROVE  IInv'
<1>1. text' \in Seq(Kinds) /\ status' \in Statuses /\ status' # "crash"
  BY DEF IInv
<1>2. bad' \in BOOLEAN
  BY DEF IInv, Fine, Report
<1>3. CASE Report
  <2>1. bad'
    BY <1>3 DEF Report
  <2>2. QED
    BY <1>1, <1>2, <2>1 DEF IInv
<1>4. CASE Fine /\ (Clean(stack, pc, ret) => Clean(stack', pc', ret'))
  <2>1. CASE bad
    BY <1>1, <1>2, <1>4, <2>1 DEF IInv, Fine
  <2>2. CASE ~bad
    <3>1. Clean(stack', pc', ret')
      BY <1>4, <2>2 DEF IInv
    <3>2. QED
      BY <1>1, <1>2, <3>1 DEF IInv
  <2>3. QED
    BY <2>1, <2>2
<1>5. QED
  BY <1>3, <1>4

\* A stop keeps it unless nullptr is dereferenced without a report.
LEMMA Stops ==
  ASSUME IInv, text' = text, NEW how \in Statuses, Stop(how), how # "crash" \/ bad
  PROVE  IInv'
<1>1. /\ text' = text /\ bad' = bad /\ stack' = stack /\ pc' = pc /\ ret' = ret
      /\ window' = window /\ status' = how
  BY DEF Stop
<1>2. window' \in Ahead'
  BY <1>1, NotMoved DEF IInv
<1>3. QED
  BY <1>1, <1>2 DEF IInv

LEMMA InitHolds == Init => IInv
<1>1. SUFFICES ASSUME Init PROVE IInv
  OBVIOUS
<1>2. text \in Seq(Kinds)
  <2>1. text \in Seq(Kinds \ {"EOF"})
    BY <1>1, TextsAssumption DEF Init
  <2>2. PICK K : K = Kinds
    OBVIOUS
  <2>3. text \in Seq(K)
    BY <2>1, <2>2
  <2>4. QED
    BY <2>2, <2>3
<1>3. window \in Ahead
  <2>1. PICK w \in Ahead : w = Advance[<<0, 0>>]
    BY <1>2, AdvanceIs
  <2>2. w = <<w[1], w[2]>>
    BY DEF Ahead, Windows
  <2>3. QED
    BY <1>1, <2>1, <2>2 DEF Init, window
<1>4. stack = <<>> /\ pc = "unit" /\ status = "running" /\ ~bad /\ bad \in BOOLEAN
  BY <1>1 DEF Init
<1>5. stack \in Seq({}) /\ Len(stack) = 0
  BY <1>4
<1>6. Frames(stack) /\ NoCut(stack)
  BY <1>5 DEF Frames, NoCut
<1>7. Shape(stack, pc) /\ Clean(stack, pc, ret)
  BY <1>4, <1>6 DEF Shape, Clean, Pcs
<1>8. QED
  BY <1>2, <1>3, <1>4, <1>7 DEF IInv, Statuses

-----------------------------------------------------------------------------
(* parse_expr *)

\* What holds in front of every step.
LEMMA InFront ==
  ASSUME IInv
  PROVE  /\ text \in Seq(Kinds) /\ window \in Ahead /\ Advance[window] \in Ahead
         /\ NxtValid[window] \in Ahead /\ Advance[NxtValid[window]] \in Ahead
         /\ \A k : Expect(window, k) \in Ahead /\ SkipUntil(window, k) \in Ahead
                   /\ SkipUntil(Expect(window, k), k) \in Ahead
         /\ Frames(stack) /\ Len(stack) \in Nat /\ (stack # <<>> => Len(stack) \in 1 .. Len(stack))
         /\ (Len(stack) = 0 <=> stack = <<>>)
<1>1. text \in Seq(Kinds) /\ window \in Ahead /\ Frames(stack)
  BY DEF IInv, Shape
<1>2. /\ Advance[window] \in Ahead /\ NxtValid[window] \in Ahead
      /\ \A k : Expect(window, k) \in Ahead /\ SkipUntil(window, k) \in Ahead
  BY <1>1, ExpectAhead
<1>3. Advance[NxtValid[window]] \in Ahead
  BY <1>1, <1>2, ExpectAhead
<1>4. \A k : SkipUntil(Expect(window, k), k) \in Ahead
  BY <1>1, <1>2, ExpectAhead
<1>5. Len(stack) \in Nat /\ (stack # <<>> => Len(stack) \in 1 .. Len(stack))
      /\ (Len(stack) = 0 <=> stack = <<>>)
  <2>1. PICK S : stack \in Seq(S)
    BY <1>1 DEF Frames
  <2>2. QED
    BY <2>1
<1>6. QED
  BY <1>1, <1>2, <1>3, <1>4, <1>5

\* A node is a value.
LEMMA NodeIsNotNull ==
  ASSUME NEW kind, kind # "NULL", NEW tok, NEW kids
  PROVE  Node(kind, tok, kids) # Null
<1>1. PICK x : x = Node(kind, tok, kids)
  OBVIOUS
<1>2. x.kind = kind
  BY <1>1 DEF Node
<1>3. PICK y : y = Null
  OBVIOUS
<1>4. y.kind = "NULL"
  BY <1>3 DEF Null, Node
<1>5. QED
  BY <1>1, <1>2, <1>3, <1>4

\* The frame of a parse_expr is given the value v.
LEMMA ValueGiven ==
  ASSUME NEW s, NEW p, Shape(s, p), p \in {"expr", "led"}, NEW v, v # Null,
         NEW t, t = [s EXCEPT ![Len(s)].e = v]
  PROVE  Shape(t, "led") /\ \A r, q : Clean(s, p, r) => Clean(t, "led", q)
<1>1. Frames(s) /\ Len(s) % 2 = 1
  BY DEF Shape
<1>2. s # <<>>
  BY <1>1
<1>3. Answers(s, v, t)
  BY <1>1, <1>2, ValueSet
<1>4. Shape(t, "led")
  BY <1>1, <1>3 DEF Answers, Shape, Pcs
<1>5. \A r, q : Clean(s, p, r) => Clean(t, "led", q)
  BY <1>3 DEF Answers, Clean
<1>6. QED
  BY <1>4, <1>5

\* A handler calls parse_expr: its frame and that of the call are pushed.
LEMMA CallPushed ==
  ASSUME NEW s, NEW p, Shape(s, p), p \in {"expr", "led"},
         NEW fn \in Fns \ {"expr"}, NEW tok, NEW e, NEW prec,
         NEW t, t = s \o <<WaitFrame(fn, tok, e), ExprFrame(prec)>>
  PROVE  Shape(t, "expr") /\ \A r, q : Clean(s, p, r) => Clean(t, "expr", q)
<1>1. Frames(s) /\ Len(s) % 2 = 1 /\ Len(s) \in Nat
  BY FramesAre DEF Shape
<1>2. PICK x : x = WaitFrame(fn, tok, e)
  OBVIOUS
<1>3. PICK y : y = ExprFrame(prec)
  OBVIOUS
<1>4. /\ IsFrame(x) /\ x.fn \in Fns /\ x.fn # "expr" /\ ~Cut(x)
      /\ IsFrame(y) /\ y.fn \in Fns /\ y.fn = "expr" /\ ~Cut(y)
  BY <1>2, <1>3, NewFrames DEF Fns
<1>5. PICK u : u = Append(s, x)
  OBVIOUS
<1>6. OnTop(s, x, u)
  BY <1>1, <1>4, <1>5, FramePushed
<1>7. Frames(u) /\ Len(u) = Len(s) + 1 /\ (NoCut(s) => NoCut(u)) /\ Len(u) % 2 # 1
  BY <1>1, <1>4, <1>6, Parity DEF OnTop
<1>8. OnTop(u, y, Append(u, y))
  BY <1>4, <1>7, FramePushed
<1>9. t = Append(u, y)
  <2>1. PICK S : s \in Seq(S)
    BY <1>1 DEF Frames
  <2>2. PICK U : U = S \cup {x, y}
    OBVIOUS
  <2>3. s \in Seq(U) /\ x \in U /\ y \in U
    BY <2>1, <2>2
  <2>4. t = s \o <<x, y>>
    BY <1>2, <1>3
  <2>5. QED
    BY <1>5, <2>3, <2>4
<1>10. Frames(t) /\ (NoCut(s) => NoCut(t)) /\ Len(t) = Len(u) + 1
  BY <1>4, <1>7, <1>8, <1>9 DEF OnTop
<1>11. Len(t) % 2 = 1
  BY <1>1, <1>7, <1>10, Parity
<1>12. Shape(t, "expr")
  BY <1>10, <1>11 DEF Shape, Pcs
<1>13. \A r, q : Clean(s, p, r) => Clean(t, "expr", q)
  BY <1>10 DEF Clean
<1>14. QED
  BY <1>12, <1>13

\* parse_expr returns.
LEMMA Returned ==
  ASSUME NEW s, NEW p, Shape(s, p), p \in {"expr", "led"},
         NEW t, t = SubSeq(s, 1, Len(s) - 1)
  PROVE  Shape(t, "return") /\ \A r, q : Clean(s, p, r) /\ q # Null => Clean(t, "return", q)
<1>1. Frames(s) /\ Len(s) % 2 = 1 /\ Len(s) \in Nat /\ s # <<>>
  BY FramesAre DEF Shape
<1>2. Without(s, t)
  BY <1>1, FramePopped
<1>3. Len(t) \in Nat /\ Len(s) = Len(t) + 1
  BY <1>1, <1>2, FramesAre DEF Without
<1>4. Len(t) % 2 = 0
  BY <1>1, <1>3, Parity
<1>5. Shape(t, "return")
  BY <1>2, <1>4 DEF Without, Shape, Pcs
<1>6. \A r, q : Clean(s, p, r) /\ q # Null => Clean(t, "return", q)
  BY <1>2 DEF Without, Clean
<1>7. QED
  BY <1>5, <1>6

LEMMA NudLeafKeeps == ASSUME IInv, status = "running", text' = text, pc = "expr", NudLeaf PROVE IInv'
<1>1. PICK w \in Ahead : w = NxtValid[window] /\ Advance[w] \in Ahead
  BY InFront
<1>2. PICK v : v = Node(IF Cur(w) = "ID" THEN "DECL_REF" ELSE "LIT", w[1], <<>>)
  OBVIOUS
<1>3. v # Null
  BY <1>2, NodeIsNotNull
<1>4. /\ MoveTo(Advance[w]) /\ stack' = [stack EXCEPT ![Len(stack)].e = v] /\ pc' = "led"
      /\ Fine /\ status' = status
  BY <1>1, <1>2 DEF NudLeaf
<1>5. Shape(stack', pc') /\ (Clean(stack, pc, ret) => Clean(stack', pc', ret'))
  BY <1>3, <1>4, ValueGiven DEF IInv
<1>6. window' \in Ahead'
  BY <1>1, <1>4, InFront, MovedTo
<1>7. QED
  BY <1>4, <1>5, <1>6, GoesOn

LEMMA NudParenKeeps == ASSUME IInv, status = "running", text' = text, pc = "expr", NudParen PROVE IInv'
<1>1. PICK w \in Ahead : w = NxtValid[window] /\ Advance[w] \in Ahead
  BY InFront
<1>2. MoveTo(Advance[w]) /\ status' = status
  BY <1>1 DEF NudParen
<1>3. window' \in Ahead'
  BY <1>1, <1>2, InFront, MovedTo
<1>4. CASE Cur(Advance[w]) = "RPAREN"
  <2>1. Report /\ pc' = "led" /\ stack' = stack
    BY <1>1, <1>4 DEF NudParen
  <2>2. Shape(stack', pc')
    BY <2>1 DEF IInv, Shape, Pcs
  <2>3. QED
    BY <1>2, <1>3, <2>1, <2>2, GoesOn
<1>5. CASE Cur(Advance[w]) # "RPAREN"
  <2>1. /\ stack' = stack \o <<WaitFrame("paren", w[1], Null), ExprFrame(0)>>
        /\ pc' = "expr" /\ Fine
    BY <1>1, <1>5 DEF NudParen
  <2>2. PICK fn \in Fns \ {"expr"} : fn = "paren"
    BY DEF Fns
  <2>3. Shape(stack', pc') /\ (Clean(stack, pc, ret) => Clean(stack', pc', ret'))
    BY <2>1, <2>2, CallPushed DEF IInv
  <2>4. QED
    BY <1>2, <1>3, <2>1, <2>3, GoesOn
<1>6. QED
  BY <1>4, <1>5

LEMMA NudUnaryKeeps == ASSUME IInv, status = "running", text' = text, pc = "expr", NudUnary PROVE IInv'
<1>1. PICK w \in Ahead : w = NxtValid[window] /\ Advance[w] \in Ahead
  BY InFront
<1>2. CASE Stop("panic")
  BY <1>2, Stops DEF Statuses
<1>3. CASE ~Stop("panic")
  <2>1. /\ MoveTo(Advance[w]) /\ status' = status /\ Fine /\ pc' = "expr"
        /\ stack' = stack \o <<WaitFrame("una", w[1], Null), ExprFrame(UnaryPrec)>>
    BY <1>1, <1>3 DEF NudUnary
  <2>2. window' \in Ahead'
    BY <1>1, <2>1, InFront, MovedTo
  <2>3. PICK fn \in Fns \ {"expr"} : fn = "una"
    BY DEF Fns
  <2>4. Shape(stack', pc') /\ (Clean(stack, pc, ret) => Clean(stack', pc', ret'))
    BY <2>1, <2>3, CallPushed DEF IInv
  <2>5. QED
    BY <2>1, <2>2, <2>4, GoesOn
<1>4. QED
  BY <1>2, <1>3

LEMMA NudNoneKeeps == ASSUME IInv, status = "running", text' = text, pc = "expr", NudNone PROVE IInv'
<1>1. PICK w \in Ahead : w = NxtValid[window]
  BY InFront
<1>2. /\ MoveTo(w) /\ Report /\ ret' = Null /\ stack' = SubSeq(stack, 1, Len(stack) - 1)
      /\ pc' = "return" /\ status' = status
  BY <1>1 DEF NudNone, Below
<1>3. window' \in Ahead'
  BY <1>2, InFront, MovedTo
<1>4. Shape(stack', pc')
  BY <1>2, Returned DEF IInv
<1>5. QED
  BY <1>2, <1>3, <1>4, GoesOn

LEMMA LedBinaryKeeps == ASSUME IInv, status = "running", text' = text, pc = "led", LedBinary PROVE IInv'
<1>1. CASE Stop("panic")
  BY <1>1, Stops DEF Statuses
<1>2. CASE ~Stop("panic")
  <2>1. /\ MoveTo(Advance[window]) /\ status' = status /\ Fine /\ pc' = "expr"
        /\ stack' = stack \o <<WaitFrame("bin", fst, Top.e), ExprFrame(LedPrec(Cur(window)))>>
    BY <1>2 DEF LedBinary
  <2>2. window' \in Ahead'
    BY <2>1, InFront, MovedTo
  <2>3. PICK fn \in Fns \ {"expr"} : fn = "bin"
    BY DEF Fns
  <2>4. Shape(stack', pc') /\ (Clean(stack, pc, ret) => Clean(stack', pc', ret'))
    BY <2>1, <2>3, CallPushed DEF IInv
  <2>5. QED
    BY <2>1, <2>2, <2>4, GoesOn
<1>3. QED
  BY <1>1, <1>2

LEMMA LedCallKeeps == ASSUME IInv, status = "running", text' = text, pc = "led", LedCall PROVE IInv'
<1>1. CASE Stop("assert")
  BY <1>1, Stops DEF Statuses
<1>2. CASE ~Stop("assert")
  <2>1. MoveTo(Advance[window]) /\ status' = status /\ Fine
    BY <1>2 DEF LedCall
  <2>2. window' \in Ahead'
    BY <2>1, InFront, MovedTo
  <2>3. CASE Cur(Advance[window]) = "RPAREN"
    <3>1. PICK v : v = Node("CALL", fst, <<Top.e>>)
      OBVIOUS
    <3>2. stack' = [stack EXCEPT ![Len(stack)].e = v] /\ pc' = "led"
      BY <1>2, <2>3, <3>1 DEF LedCall
    <3>3. v # Null
      BY <3>1, NodeIsNotNull
    <3>4. Shape(stack', pc') /\ (Clean(stack, pc, ret) => Clean(stack', pc', ret'))
      BY <3>2, <3>3, ValueGiven DEF IInv
    <3>5. QED
      BY <2>1, <2>2, <3>4, GoesOn
  <2>4. CASE Cur(Advance[window]) # "RPAREN"
    <3>1. PICK x : x = WaitFrame("call", fst, Top.e)
      OBVIOUS
    <3>2. stack' = Append(stack, x) /\ pc' = "args"
      BY <1>2, <2>4, <3>1 DEF LedCall
    <3>3. IsFrame(x) /\ x.fn = "call" /\ ~Cut(x) /\ x.fn \in Fns /\ x.fn # "expr"
      BY <3>1, NewFrames DEF Fns
    <3>4. Frames(stack) /\ Len(stack) % 2 = 1
      BY DEF IInv, Shape
    <3>5. OnTop(stack, x, stack')
      BY <3>2, <3>3, <3>4, FramePushed
    <3>6. Shape(stack', pc')
      BY <3>2, <3>3, <3>5 DEF OnTop, Shape, Pcs
    <3>7. Clean(stack, pc, ret) => Clean(stack', pc', ret')
      BY <3>2, <3>3, <3>5 DEF OnTop, Clean
    <3>8. QED
      BY <2>1, <2>2, <3>6, <3>7, GoesOn
  <2>5. QED
    BY <2>3, <2>4
<1>3. QED
  BY <1>1, <1>2

LEMMA LedNoneKeeps == ASSUME IInv, status = "running", text' = text, pc = "led", LedNone PROVE IInv'
<1>1. /\ ret' = stack[Len(stack)].e /\ stack' = SubSeq(stack, 1, Len(stack) - 1)
      /\ pc' = "return" /\ status' = status /\ Fine /\ window' = window
  BY DEF LedNone, Top, Below, Fine
<1>2. window' \in Ahead'
  BY <1>1, NotMoved DEF IInv
<1>3. Shape(stack', pc') /\ (Clean(stack, pc, ret) /\ ret' # Null => Clean(stack', pc', ret'))
  BY <1>1, Returned DEF IInv
<1>4. Clean(stack, pc, ret) => ret' # Null
  BY <1>1 DEF Clean
<1>5. QED
  BY <1>1, <1>2, <1>3, <1>4, GoesOn

LEMMA ArgumentKeeps == ASSUME IInv, status = "running", text' = text, pc = "args", Argument PROVE IInv'
<1>1. status' = status /\ window' = window
  BY DEF Argument
<1>2. window' \in Ahead'
  BY <1>1, NotMoved DEF IInv
<1>3. CASE Cur(window) = "COMMA"
  <2>1. Report /\ stack' = stack /\ pc' = pc
    BY <1>3 DEF Argument
  <2>2. QED
    BY <1>1, <1>2, <2>1, GoesOn DEF IInv
<1>4. CASE Cur(window) # "COMMA"
  <2>1. PICK x : x = ExprFrame(0)
    OBVIOUS
  <2>2. stack' = Append(stack, x) /\ pc' = "expr" /\ Fine
    BY <1>4, <2>1 DEF Argument
  <2>3. IsFrame(x) /\ x.fn = "expr" /\ ~Cut(x) /\ x.fn \in Fns
    BY <2>1, NewFrames DEF Fns
  <2>4. Frames(stack) /\ stack # <<>> /\ stack[Len(stack)].fn = "call"
    BY DEF IInv, Shape
  <2>5. Len(stack) % 2 # 1 /\ Len(stack) \in Nat
    BY <2>4, FramesAre DEF Frames
  <2>6. OnTop(stack, x, stack')
    BY <2>2, <2>3, <2>4, <2>5, FramePushed
  <2>7. Len(stack') % 2 = 1
    BY <2>5, <2>6, Parity DEF OnTop
  <2>8. Shape(stack', pc')
    BY <2>2, <2>6, <2>7 DEF OnTop, Shape, Pcs
  <2>9. Clean(stack, pc, ret) => Clean(stack', pc', ret')
    BY <2>2, <2>3, <2>6 DEF OnTop, Clean
  <2>10. QED
    BY <1>1, <1>2, <2>2, <2>8, <2>9, GoesOn
<1>5. QED
  BY <1>3, <1>4

-----------------------------------------------------------------------------
(* What the handlers do with the value their parse_expr returned. *)

\* A handler answers v to the parse_expr below it.
LEMMA AnsweredBelow ==
  ASSUME NEW s, Shape(s, "return"), s # <<>>, NEW v, v # Null,
         NEW b, Without(s, b), NEW t, t = [b EXCEPT ![Len(b)].e = v]
  PROVE  Shape(t, "led") /\ \A r, q : Clean(s, "return", r) => Clean(t, "led", q)
<1>1. Frames(s) /\ Len(s) % 2 = 0 /\ Len(s) \in Nat
  BY FramesAre DEF Shape
<1>2. Without(s, b)
  OBVIOUS
<1>3. Frames(b) /\ (NoCut(s) => NoCut(b)) /\ Len(b) \in Nat /\ Len(s) = Len(b) + 1
  BY <1>1, <1>2, FramesAre DEF Without
<1>4. Len(b) % 2 = 1
  BY <1>1, <1>3, Parity
<1>5. b # <<>>
  BY <1>4
<1>6. Answers(b, v, t)
  BY <1>3, <1>5, ValueSet
<1>7. Shape(t, "led")
  BY <1>4, <1>6 DEF Answers, Shape, Pcs
<1>8. \A r, q : Clean(s, "return", r) => Clean(t, "led", q)
  BY <1>3, <1>6 DEF Answers, Clean
<1>9. QED
  BY <1>7, <1>8

LEMMA HandlerAnswers ==
  ASSUME IInv, pc = "return", stack # <<>>, NEW v, v # Null, Handled(v)
  PROVE  Shape(stack', pc') /\ (Clean(stack, pc, ret) => Clean(stack', pc', ret'))
<1>1. PICK b : b = SubSeq(stack, 1, Len(stack) - 1)
  OBVIOUS
<1>2. stack' = [b EXCEPT ![Len(b)].e = v] /\ pc' = "led"
  BY <1>1 DEF Handled, Below
<1>3. Shape(stack, "return") /\ Frames(stack)
  BY DEF IInv, Shape
<1>4. Without(stack, b)
  BY <1>1, <1>3, FramePopped
<1>5. QED
  BY <1>2, <1>3, <1>4, AnsweredBelow

LEMMA BinaryDoneKeeps ==
  ASSUME IInv, status = "running", text' = text, pc = "return", stack # <<>>, BinaryDone
  PROVE  IInv'
<1>1. PICK v : v = Node(IF ret = Null THEN "INVAL" ELSE "BIN_OP", Top.tok, <<Top.e, ret>>)
  OBVIOUS
<1>2. v # Null
  BY <1>1, NodeIsNotNull
<1>3. Handled(v) /\ status' = status /\ window' = window /\ (Fine \/ Report)
  BY <1>1 DEF BinaryDone
<1>4. window' \in Ahead'
  BY <1>3, NotMoved DEF IInv
<1>5. QED
  BY <1>2, <1>3, <1>4, HandlerAnswers, GoesOn

LEMMA UnaryDoneKeeps ==
  ASSUME IInv, status = "running", text' = text, pc = "return", stack # <<>>, UnaryDone
  PROVE  IInv'
<1>1. PICK v : v = Node(IF ret = Null THEN "INVAL" ELSE "UNA_OP", Top.tok, <<ret>>)
  OBVIOUS
<1>2. v # Null
  BY <1>1, NodeIsNotNull
<1>3. Handled(v) /\ status' = status /\ window' = window /\ (Fine \/ Report)
  BY <1>1 DEF UnaryDone
<1>4. window' \in Ahead'
  BY <1>3, NotMoved DEF IInv
<1>5. QED
  BY <1>2, <1>3, <1>4, HandlerAnswers, GoesOn

LEMMA ParenDoneKeeps ==
  ASSUME IInv, status = "running", text' = text, pc = "return", stack # <<>>, ParenDone
  PROVE  IInv'
<1>1. PICK v : v = Node("PAREN", Top.tok, <<ret>>)
  OBVIOUS
<1>2. v # Null
  BY <1>1, NodeIsNotNull
<1>3. Handled(v) /\ status' = status /\ (Fine \/ Report)
  BY <1>1 DEF ParenDone
<1>4. PICK w \in Ahead : MoveTo(w)
  BY InFront DEF ParenDone
<1>5. window' \in Ahead'
  BY <1>4, InFront, MovedTo
<1>6. QED
  BY <1>2, <1>3, <1>5, HandlerAnswers, GoesOn

LEMMA ArgumentDoneKeeps ==
  ASSUME IInv, status = "running", text' = text, pc = "return", stack # <<>>, ArgumentDone
  PROVE  IInv'
<1>1. Frames(stack) /\ Len(stack) \in 1 .. Len(stack) /\ Len(stack) % 2 = 0
      /\ Top.fn = "call" /\ Top = stack[Len(stack)]
  BY InFront DEF IInv, Shape, ArgumentDone, Top
<1>2. CASE Top.cut /\ Stop("crash")
  <2>1. ~NoCut(stack)
    BY <1>1, <1>2 DEF NoCut, Cut
  <2>2. bad
    BY <2>1 DEF IInv, Clean
  <2>3. QED
    BY <1>2, <2>2, Stops DEF Statuses
<1>3. CASE ~Top.cut /\ Expects(window, "COMMA")
  <2>1. /\ MoveTo(Expect(window, "COMMA")) /\ pc' = "args" /\ Fine /\ status' = status
        /\ stack' = [stack EXCEPT ![Len(stack)].args = ArgsWith(ret),
                                  ![Len(stack)].cut  = CutWith(ret)]
    BY <1>3 DEF ArgumentDone, Stop
  <2>2. PICK x : x = [Top EXCEPT !.args = ArgsWith(ret), !.cut = CutWith(ret)]
    OBVIOUS
  <2>3. IsFrame(Top)
    BY <1>1 DEF Frames
  <2>4. IsFrame(x) /\ x.fn = Top.fn /\ (Cut(x) <=> CutWith(ret))
    <3>1. PICK y : y = Top
      OBVIOUS
    <3>2. PICK a : a = ArgsWith(ret)
      OBVIOUS
    <3>3. PICK c : c = CutWith(ret)
      OBVIOUS
    <3>4. x = Linked(y, a, c)
      BY <2>2, <3>1, <3>2, <3>3, Zenon DEF Linked
    <3>5. IsFrame(x) /\ x.fn = y.fn /\ x.cut = c
      BY <2>3, <3>1, <3>4, ArgsSet
    <3>6. Cut(x) <=> CutWith(ret)
      BY <3>3, <3>5, Zenon DEF Cut
    <3>7. QED
      BY <3>1, <3>5, <3>6
  <2>5. stack' = [stack EXCEPT ![Len(stack)] = x]
    BY <1>1, <2>1, <2>2
  <2>6. TopIs(stack, x, stack')
    BY <1>1, <2>4, <2>5, TopReplaced
  <2>7. Shape(stack', pc')
    BY <1>1, <2>1, <2>4, <2>6 DEF TopIs, Shape, Pcs
  <2>8. Clean(stack, pc, ret) => ~Cut(x)
    BY <2>4 DEF Clean, CutWith
  <2>9. Clean(stack, pc, ret) => Clean(stack', pc', ret')
    BY <2>1, <2>6, <2>8 DEF TopIs, Clean
  <2>10. window' \in Ahead'
    BY <2>1, InFront, MovedTo
  <2>11. QED
    BY <2>1, <2>7, <2>9, <2>10, GoesOn
<1>4. CASE ~Top.cut /\ ~Expects(window, "COMMA")
  <2>1. PICK w \in Ahead : w = Expect(window, "COMMA")
    BY InFront
  <2>2. PICK v : v = Node(IF Expects(w, "RPAREN") THEN "CALL" ELSE "INVAL", Top.tok,
                          <<Top.e>> \o (IF Expects(w, "RPAREN") THEN ArgsWith(ret) ELSE <<>>))
    OBVIOUS
  <2>3. v # Null
    BY <2>2, NodeIsNotNull
  <2>4. /\ MoveTo(IF Expects(w, "RPAREN") THEN Expect(w, "RPAREN") ELSE SkipUntil(w, "RPAREN"))
        /\ Handled(v) /\ (Fine \/ Report) /\ status' = status
    BY <1>4, <2>1, <2>2 DEF ArgumentDone
  <2>5. PICK u \in Ahead : MoveTo(u)
    BY <2>1, <2>4, InFront, ExpectAhead
  <2>6. window' \in Ahead'
    BY <2>5, InFront, MovedTo
  <2>7. QED
    BY <2>3, <2>4, <2>6, HandlerAnswers, GoesOn
<1>5. QED
  BY <1>2, <1>3, <1>4 DEF ArgumentDone

LEMMA ExprDoneKeeps ==
  ASSUME IInv, status = "running", text' = text, pc = "return", ExprDone
  PROVE  IInv'
<1>1. stack' = stack /\ stack = <<>> /\ pc' = "unit" /\ window' = window /\ Fine /\ status' = status
  BY DEF ExprDone, Fine
<1>2. window' \in Ahead'
  BY <1>1, NotMoved DEF IInv
<1>3. Shape(stack', pc')
  BY <1>1 DEF IInv, Shape, Pcs
<1>4. Clean(stack, pc, ret) => Clean(stack', pc', ret')
  BY <1>1 DEF Clean
<1>5. QED
  BY <1>1, <1>2, <1>3, <1>4, GoesOn

-----------------------------------------------------------------------------
(* Declarations. *)

\* Between expressions the stack is empty and stays so.
LEMMA DeclGoesOn ==
  ASSUME IInv, status = "running", text' = text, pc \in {"unit", "params", "close", "result"},
         stack' = stack, pc' \in {"unit", "params", "close", "result"},
         status' = status, Fine \/ Report, NEW w \in Ahead, MoveTo(w)
  PROVE  IInv'
<1>1. window' \in Ahead'
  BY InFront, MovedTo
<1>2. Shape(stack', pc')
  BY DEF IInv, Shape, Pcs
<1>3. Clean(stack, pc, ret) => Clean(stack', pc', ret')
  BY DEF Clean
<1>4. QED
  BY <1>1, <1>2, <1>3, GoesOn

LEMMA UnitKeeps ==
  ASSUME IInv, status = "running", text' = text, pc = "unit", Unit
  PROVE  IInv'
<1>1. CASE Cur(window) = "INVAL" /\ Stop("panic")
  BY <1>1, Stops DEF Statuses
<1>2. CASE Cur(window) = "EOF" /\ Stop("done")
  BY <1>2, Stops DEF Statuses
<1>3. CASE /\ Cur(window) \in {"DOC", "EOL"}
           /\ MoveTo(Advance[window])
           /\ UNCHANGED <<pc, stack, ret, decl, decls, bad, status>>
  BY <1>3, InFront, DeclGoesOn DEF Fine
<1>4. CASE NextLine
  BY <1>4, InFront, DeclGoesOn DEF NextLine
<1>5. QED
  BY <1>1, <1>2, <1>3, <1>4 DEF Unit

LEMMA FuncKeeps ==
  ASSUME IInv, status = "running", text' = text, pc = "unit", Func
  PROVE  IInv'
<1>1. PICK w \in Ahead : w = Advance[Advance[window]]
  BY InFront, ExpectAhead
<1>2. Expect(w, "RPAREN") \in Ahead /\ Advance[Expect(w, "RPAREN")] \in Ahead
  BY <1>1, InFront, ExpectAhead
<1>3. PICK u \in Ahead : MoveTo(u)
  BY <1>1, <1>2 DEF Func
<1>4. pc' \in {"result", "params"} /\ stack' = stack /\ status' = status /\ Fine
  BY DEF Func, Fine
<1>5. QED
  BY <1>3, <1>4, DeclGoesOn

LEMMA ParamKeeps ==
  ASSUME IInv, status = "running", text' = text, pc = "params", Param
  PROVE  IInv'
<1>1. PICK w \in Ahead : w = Advance[window]
  BY InFront
<1>2. /\ SkipUntil(Expect(w, "COLON"), "RPAREN") \in Ahead
      /\ AfterType(Expect(w, "COLON")) \in Ahead
  BY <1>1, InFront, ExpectAhead
<1>3. PICK v \in Ahead : v = AfterType(Expect(w, "COLON"))
  BY <1>2
<1>4. Expect(v, "COMMA") \in Ahead /\ NxtValid[Expect(v, "COMMA")] \in Ahead
  BY <1>3, InFront, ExpectAhead
<1>5. PICK u \in Ahead : MoveTo(u)
  BY <1>1, <1>2, <1>3, <1>4 DEF Param
<1>6. pc' \in {"params", "close", "result"} /\ stack' = stack /\ status' = status /\ (Fine \/ Report)
  BY DEF Param
<1>7. QED
  BY <1>5, <1>6, DeclGoesOn

LEMMA CloseKeeps ==
  ASSUME IInv, status = "running", text' = text, Close
  PROVE  IInv'
<1>1. PICK u \in Ahead : MoveTo(u)
  BY InFront DEF Close
<1>2. pc \in {"params", "close"} /\ pc' = "result" /\ stack' = stack /\ status' = status
      /\ (Fine \/ Report)
  BY DEF Close
<1>3. QED
  BY <1>1, <1>2, DeclGoesOn

LEMMA NoResultKeeps ==
  ASSUME IInv, status = "running", text' = text, pc = "result", NoResult
  PROVE  IInv'
  BY InFront, DeclGoesOn DEF NoResult

LEMMA ResultKeeps ==
  ASSUME IInv, status = "running", text' = text, pc = "result", Result
  PROVE  IInv'
<1>1. PICK w \in Ahead : w = SkipDoc[AfterType(Advance[window])]
  BY InFront, ExpectAhead
<1>2. Advance[w] \in Ahead /\ SkipUntil(w, "EOL") \in Ahead
  BY <1>1, InFront, ExpectAhead
<1>3. PICK u \in Ahead : MoveTo(u)
  BY <1>1, <1>2 DEF Result
<1>4. status' = status /\ (Fine \/ Report)
  BY DEF Result
<1>5. CASE Cur(w) = "ASSIGN"
  <2>1. PICK x : x = ExprFrame(0)
    OBVIOUS
  <2>2. stack' = <<x>> /\ pc' = "expr"
    BY <1>1, <1>5, <2>1 DEF Result
  <2>3. IsFrame(x) /\ x.fn = "expr" /\ ~Cut(x) /\ x.fn \in Fns
    BY <2>1, NewFrames DEF Fns
  <2>4. Frames(stack) /\ stack = <<>> /\ Len(stack) = 0
    BY DEF IInv, Shape
  <2>5. stack' = Append(stack, x)
    BY <2>2, <2>4
  <2>6. Len(stack) % 2 # 1
    BY <2>4
  <2>7. OnTop(stack, x, stack')
    BY <2>3, <2>4, <2>5, <2>6, FramePushed
  <2>8. Len(stack') % 2 = 1
    BY <2>4, <2>7 DEF OnTop
  <2>9. Shape(stack', pc')
    BY <2>2, <2>7, <2>8 DEF OnTop, Shape, Pcs
  <2>10. Clean(stack, pc, ret) => Clean(stack', pc', ret')
    BY <2>2, <2>3, <2>7 DEF OnTop, Clean
  <2>11. window' \in Ahead'
    BY <1>3, InFront, MovedTo
  <2>12. QED
    BY <1>4, <2>9, <2>10, <2>11, GoesOn
<1>6. CASE Cur(w) # "ASSIGN"
  <2>1. stack' = stack /\ pc' = "unit"
    BY <1>1, <1>6 DEF Result
  <2>2. QED
    BY <1>3, <1>4, <2>1, DeclGoesOn
<1>7. QED
  BY <1>5, <1>6

LEMMA NextKeeps == IInv /\ [Next]_vars => IInv'
<1>1. SUFFICES ASSUME IInv, [Next]_vars PROVE IInv'
  OBVIOUS
<1>2. CASE UNCHANGED vars
  <2>1. /\ text' = text /\ bad' = bad /\ stack' = stack /\ pc' = pc /\ ret' = ret
        /\ window' = window /\ status' = status
    BY <1>2 DEF vars
  <2>2. window' \in Ahead'
    BY <1>1, <2>1, NotMoved DEF IInv
  <2>3. QED
    BY <1>1, <2>1, <2>2 DEF IInv
<1>3. CASE Next
  <2>1. status = "running" /\ text' = text /\ (Expr \/ Return \/ Decl)
    BY <1>3 DEF Next, Parse
  <2>2. CASE Expr
    BY <1>1, <2>1, <2>2, NudLeafKeeps, NudParenKeeps, NudUnaryKeeps, NudNoneKeeps,
       LedBinaryKeeps, LedCallKeeps, LedNoneKeeps, ArgumentKeeps DEF Expr
  <2>3. CASE Return
    BY <1>1, <2>1, <2>3, BinaryDoneKeeps, UnaryDoneKeeps, ParenDoneKeeps, ArgumentDoneKeeps,
       ExprDoneKeeps DEF Return
  <2>4. CASE Decl
    BY <1>1, <2>1, <2>4, UnitKeeps, FuncKeeps, ParamKeeps, CloseKeeps, NoResultKeeps,
       ResultKeeps DEF Decl
  <2>5. QED
    BY <2>1, <2>2, <2>3, <2>4
<1>4. QED
  BY <1>1, <1>2, <1>3

LEMMA IInvTyped == IInv => TypeOK
<1>1. SUFFICES ASSUME IInv PROVE TypeOK
  OBVIOUS
<1>2. fst \in 1 .. Len(text) + 1 /\ snd \in 1 .. Len(text) + 1 /\ fst <= snd
  <2>1. PICK w \in Ahead : w = <<fst, snd>>
    BY <1>1 DEF IInv, window
  <2>2. /\ w[1] \in 0 .. Len(text) + 1 /\ w[2] \in 0 .. Len(text) + 1
        /\ 1 <= w[1] /\ w[1] <= w[2] /\ w[1] = fst /\ w[2] = snd
    BY <1>1, <2>1, AdvanceIs DEF IInv, Ahead
  <2>3. Len(text) \in Nat
    BY <1>1, KindIs DEF IInv
  <2>4. QED
    BY <2>2, <2>3
<1>3. StackOK
  BY <1>1 DEF IInv, Shape, Frames, StackOK, Top
<1>4. QED
  BY <1>1, <1>2, <1>3 DEF IInv, Shape, TypeOK, Statuses

LEMMA IInvReported == IInv => CrashReported
  BY DEF IInv, CrashReported

\* The invariant holds in every state of every behaviour.
THEOREM Invariance == Spec => []IInv
  BY InitHolds, NextKeeps, PTL DEF Spec

\* Whatever the text, the two tokens of the window stay within it and in order,
\* through all the loops that skip tokens, and every call of parse_expr and its
\* handlers returns to the one that made it: the calls alternate, and where the
\* parser is agrees with the call that runs.
THEOREM TypeCorrect == Spec => []TypeOK
  BY Invariance, IInvTyped, PTL

\* parse_call links an argument to nullptr only after an argument is missing,
\* and every missing one was reported, however the calls are nested: a text the
\* parser has not complained about never makes it follow the null pointer.
THEOREM CrashesAreReported == Spec => []CrashReported
  BY Invariance, IInvReported, PTL

-----------------------------------------------------------------------------
(* What of the text is in the declarations.                                *)

IsDecl(d) ==
  \E valid, params, expr, from, to : \E id \in Nat :
    d = [valid |-> valid, id |-> id, params |-> params, expr |-> expr, from |-> from, to |-> to]

\* A declaration after one of its fields changed.
LEMMA DeclSet ==
  ASSUME NEW d, IsDecl(d), NEW v, NEW e,
         \/ e = [d EXCEPT !.expr = v] \/ e = [d EXCEPT !.valid = v]
         \/ e = [d EXCEPT !.params = v] \/ e = [d EXCEPT !.from = v]
  PROVE  IsDecl(e) /\ e.id = d.id
<1>1. PICK valid, params, expr, from, to : \E id \in Nat :
        d = [valid |-> valid, id |-> id, params |-> params, expr |-> expr, from |-> from, to |-> to]
  BY Zenon DEF IsDecl
<1>2. PICK id \in Nat :
        d = [valid |-> valid, id |-> id, params |-> params, expr |-> expr, from |-> from, to |-> to]
  BY <1>1
<1>3. \/ e = [valid |-> valid, id |-> id, params |-> params, expr |-> v, from |-> from, to |-> to]
      \/ e = [valid |-> v, id |-> id, params |-> params, expr |-> expr, from |-> from, to |-> to]
      \/ e = [valid |-> valid, id |-> id, params |-> v, expr |-> expr, from |-> from, to |-> to]
      \/ e = [valid |-> valid, id |-> id, params |-> params, expr |-> expr, from |-> v, to |-> to]
  BY <1>2
<1>4. IsDecl(e)
  BY <1>3, Zenon DEF IsDecl
<1>5. e.id = d.id
  BY <1>2, <1>3
<1>6. QED
  BY <1>4, <1>5

Held(p) == Kind(p) \in Ignored \/ \E k \in DOMAIN decls : decls[k].id <= p /\ p < decls[k].to

\* All of the text in front of position n is.
HeldUpTo(n) == \A p \in 1 .. n - 1 : Held(p)

\* Where the declaration being parsed begins, or the next one.
Begun == IF pc = "unit" THEN fst ELSE decl.id

\* The inductive invariant: what is in front of the declaration being parsed is
\* in those parsed before, or was reported.
Accounted ==
  /\ \A p \in 1 .. Len(text) : text[p] # "EOF"
  /\ \E S : decls \in Seq(S)
  /\ IsDecl(decl)
  /\ bad \/ HeldUpTo(Begun)
  /\ status = "done" => pc = "unit" /\ fst > Len(text)

LEMMA HeldStays ==
  ASSUME UNCHANGED <<text, decls>>, NEW n \in Nat, HeldUpTo(n)
  PROVE  HeldUpTo(n)'
<1>1. \A p \in Nat : Kind(p)' = Kind(p)
  BY DEF Kind
<1>2. \A p \in 1 .. n - 1 : Held(p)'
  BY <1>1 DEF HeldUpTo, Held
<1>3. QED
  BY <1>2 DEF HeldUpTo

\* A step inside a declaration, or one that begins a declaration at the window.
LEMMA Inside ==
  ASSUME Accounted, UNCHANGED <<text, decls, status>>, status = "running",
         pc' # "unit", IsDecl(decl'), decl'.id = Begun, Begun \in Nat, Fine \/ Report
  PROVE  Accounted'
<1>1. /\ \E S : decls' \in Seq(S)
      /\ IsDecl(decl') /\ status' # "done" /\ Begun' = Begun
  BY DEF Accounted, Begun
<1>2. PICK n \in Nat : n = Begun
  OBVIOUS
<1>3. CASE Report
  BY <1>1, <1>3 DEF Accounted, Report
<1>4. CASE Fine
  <2>1. bad \/ HeldUpTo(n)
    BY <1>2 DEF Accounted
  <2>2. bad' \/ HeldUpTo(n)'
    BY <1>4, <2>1, HeldStays DEF Fine
  <2>3. Begun' = n
    BY <1>1, <1>2
  <2>4. bad' \/ HeldUpTo(Begun)'
    BY <2>2, <2>3 DEF HeldUpTo
  <2>5. QED
    BY <1>1, <2>4 DEF Accounted
<1>5. QED
  BY <1>3, <1>4

\* A declaration is done: it reaches from where it began to the window.
LEMMA Added ==
  ASSUME Accounted, UNCHANGED <<text, status>>, status = "running",
         pc # "unit", pc' = "unit", fst' \in Nat, IsDecl(decl'), Fine \/ Report,
         NEW d, IsDecl(d), d.id = decl.id, AddDecl(d)
  PROVE  Accounted'
<1>1. PICK n \in Nat : n = fst'
  OBVIOUS
<1>2. PICK e : e = [d EXCEPT !.to = n] /\ decls' = Append(decls, e)
  BY <1>1 DEF AddDecl
<1>3. e.id = decl.id /\ e.to = n /\ decl.id \in Nat
  BY <1>2 DEF IsDecl
<1>4. PICK S : decls \in Seq(S)
  BY DEF Accounted
<1>5. PICK T : T = S \cup {e}
  OBVIOUS
<1>6. /\ decls' \in Seq(T) /\ Len(decls) + 1 \in DOMAIN decls' /\ decls'[Len(decls) + 1] = e
      /\ \A k \in DOMAIN decls : k \in DOMAIN decls' /\ decls'[k] = decls[k]
  <2>1. decls \in Seq(T) /\ e \in T
    BY <1>4, <1>5
  <2>2. QED
    BY <1>2, <2>1
<1>7. ASSUME HeldUpTo(decl.id)
      PROVE  HeldUpTo(n)'
  <2>1. SUFFICES ASSUME NEW p \in 1 .. n - 1 PROVE Held(p)'
    BY DEF HeldUpTo
  <2>2. Kind(p)' = Kind(p)
    BY DEF Kind
  <2>3. CASE p < decl.id
    <3>1. Held(p)
      BY <1>3, <1>7, <2>3 DEF HeldUpTo
    <3>2. QED
      BY <1>6, <2>2, <3>1 DEF Held
  <2>4. CASE ~(p < decl.id)
    <3>1. e.id <= p /\ p < e.to
      BY <1>3, <2>1, <2>4
    <3>2. QED
      BY <1>6, <3>1 DEF Held
  <2>5. QED
    BY <2>3, <2>4
<1>8. bad \/ HeldUpTo(decl.id)
  BY DEF Accounted, Begun
<1>9. bad' \/ HeldUpTo(n)'
  BY <1>7, <1>8 DEF Fine, Report
<1>10. Begun' = n
  BY <1>1 DEF Begun
<1>11. bad' \/ HeldUpTo(Begun)'
  BY <1>9, <1>10 DEF HeldUpTo
<1>12. QED
  BY <1>6, <1>11 DEF Accounted

\* The window is within the text, or behind it.
LEMMA FirstIs == IInv => fst \in Nat /\ fst >= 1 /\ Len(text) \in Nat
<1> SUFFICES ASSUME IInv PROVE fst \in Nat /\ fst >= 1 /\ Len(text) \in Nat
  OBVIOUS
<1>1. PICK w \in Ahead : w = <<fst, snd>>
  BY DEF IInv, window
<1>2. w[1] \in 0 .. Len(text) + 1 /\ 1 <= w[1] /\ w[1] = fst /\ Len(text) \in Nat
  BY <1>1, AdvanceIs, KindIs DEF IInv, Ahead
<1>3. QED
  BY <1>2

LEMMA NextFirstIs == IInv' => (fst \in Nat)'
<1>1. IInv => fst \in Nat
  BY FirstIs
<1>2. QED
  BY <1>1, PTL

LEMMA StopAccounted ==
  ASSUME Accounted, text' = text, NEW how, Stop(how), how # "done", Begun \in Nat
  PROVE  Accounted'
<1>1. PICK n \in Nat : n = Begun
  OBVIOUS
<1>2. UNCHANGED <<pc, decl, decls, bad>> /\ status' # "done" /\ Begun' = n
  BY <1>1 DEF Stop, Begun, window
<1>3. bad \/ HeldUpTo(n)'
  BY <1>1, <1>2, HeldStays DEF Accounted
<1>4. bad' \/ HeldUpTo(Begun)'
  BY <1>2, <1>3 DEF HeldUpTo
<1>5. QED
  BY <1>2, <1>4 DEF Accounted

LEMMA BegunIs ==
  ASSUME IInv, Accounted
  PROVE  Begun \in Nat
<1>1. decl.id \in Nat
  BY DEF Accounted, IsDecl
<1>2. QED
  BY <1>1, FirstIs DEF Begun

\* parse_expr and its handlers leave the declarations alone.
LEMMA ExprAccounted ==
  ASSUME IInv, Accounted, status = "running", text' = text, Expr
  PROVE  Accounted'
<1>1. Begun \in Nat /\ IsDecl(decl)
  BY BegunIs DEF Accounted
<1>2. CASE Stop("panic") \/ Stop("assert")
  BY <1>1, <1>2, StopAccounted
<1>3. CASE ~(Stop("panic") \/ Stop("assert"))
  <2>1. pc # "unit" /\ UNCHANGED <<decl, decls, status>> /\ pc' # "unit" /\ (Fine \/ Report)
    <3>1. CASE pc = "expr" /\ (NudLeaf \/ NudParen \/ NudUnary \/ NudNone)
      BY <1>3, <3>1 DEF NudLeaf, NudParen, NudUnary, NudNone
    <3>2. CASE pc = "led" /\ (LedBinary \/ LedCall \/ LedNone)
      BY <1>3, <3>2 DEF LedBinary, LedCall, LedNone, Fine
    <3>3. CASE pc = "args" /\ Argument
      BY <3>3 DEF Argument
    <3>4. QED
      BY <3>1, <3>2, <3>3 DEF Expr
  <2>2. Begun = decl.id
    BY <2>1 DEF Begun
  <2>3. QED
    BY <1>1, <2>1, <2>2, Inside
<1>4. QED
  BY <1>2, <1>3

LEMMA ReturnAccounted ==
  ASSUME IInv, IInv', Accounted, status = "running", text' = text, Return
  PROVE  Accounted'
<1>1. Begun \in Nat /\ IsDecl(decl) /\ pc = "return" /\ fst' \in Nat
  BY BegunIs, FirstIs, NextFirstIs DEF Accounted, Return
<1>2. CASE Stop("crash")
  BY <1>1, <1>2, StopAccounted
<1>3. CASE ~Stop("crash") /\ stack # <<>> /\ (BinaryDone \/ UnaryDone \/ ParenDone \/ ArgumentDone)
  <2>1. UNCHANGED <<decl, decls, status>> /\ pc' # "unit" /\ (Fine \/ Report)
    BY <1>3 DEF BinaryDone, UnaryDone, ParenDone, ArgumentDone, Handled
  <2>2. Begun = decl.id
    BY <1>1 DEF Begun
  <2>3. QED
    BY <1>1, <2>1, <2>2, Inside
<1>4. CASE ExprDone
  <2>1. PICK d : d = [decl EXCEPT !.expr = ret]
    OBVIOUS
  <2>2. IsDecl(d) /\ d.id = decl.id
    BY <1>1, <2>1, DeclSet
  <2>3. pc' = "unit" /\ AddDecl(d) /\ decl' = decl /\ status' = status /\ Fine
    BY <1>4, <2>1 DEF ExprDone, Fine
  <2>4. QED
    BY <1>1, <2>2, <2>3, Added
<1>5. QED
  BY <1>2, <1>3, <1>4 DEF Return

-----------------------------------------------------------------------------
(* The loop of parse_unit. *)

\* The end of a line, or a comment, is passed over.
LEMMA PassedOver ==
  ASSUME IInv, IInv', Accounted, status = "running", text' = text, pc = "unit",
         Cur(window) \in {"DOC", "EOL"}, MoveTo(Advance[window]),
         UNCHANGED <<pc, decl, decls, bad, status>>
  PROVE  Accounted'
<1>1. PICK n, m \in Nat : n = fst /\ m = fst'
  BY FirstIs, NextFirstIs
<1>2. PICK w \in Ahead : w = window /\ w[1] = n /\ w[2] = Lexed(n)
  BY <1>1 DEF IInv, Ahead, window
<1>3. Kind(n) \in Ignored
  BY <1>2 DEF Cur, Ignored
<1>4. ASSUME NEW p \in Nat, n < p, p < m
      PROVE  Kind(p) \in Ignored
  <2>1. Len(text) \in Nat /\ n \in 0 .. Len(text) + 1 /\ w \in Windows
    BY <1>2, AdvanceIs, KindIs DEF IInv, Ahead
  <2>2. m = Advance[w][1]
    BY <1>1, <1>2 DEF MoveTo
  <2>3. Advance[w] = IF Kind(w[2]) # "INVAL" THEN <<w[2], Lexed(w[2])>>
                     ELSE <<Lexed(w[2]), Lexed(Lexed(w[2]))>>
    BY <2>1 DEF Advance
  <2>4. w[2] <= n + 1 /\ Lexed(w[2]) <= w[2] + 1 /\ w[2] \in Nat
    BY <1>2, <2>1 DEF Lexed
  <2>5. CASE Kind(w[2]) = "INVAL"
    <3>1. m = Lexed(w[2])
      BY <2>2, <2>3, <2>5
    <3>2. p = w[2]
      BY <1>4, <2>4, <3>1
    <3>3. QED
      BY <2>5, <3>2 DEF Ignored
  <2>6. CASE Kind(w[2]) # "INVAL"
    <3>1. m = w[2]
      BY <2>2, <2>3, <2>6
    <3>2. QED
      BY <1>4, <2>4, <3>1
  <2>7. QED
    BY <2>5, <2>6
<1>5. ASSUME HeldUpTo(n)
      PROVE  HeldUpTo(m)
  <2>1. SUFFICES ASSUME NEW p \in 1 .. m - 1 PROVE Held(p)
    BY DEF HeldUpTo
  <2>2. p < n \/ p = n \/ (n < p /\ p < m)
    <3>1. p \in Nat /\ n \in Nat /\ m \in Nat /\ p < m
      OBVIOUS
    <3>2. QED
      BY <3>1
  <2>3. CASE p < n
    BY <1>5, <2>3 DEF HeldUpTo
  <2>4. CASE p = n \/ (n < p /\ p < m)
    BY <1>3, <1>4, <2>4 DEF Held
  <2>5. QED
    BY <2>2, <2>3, <2>4
<1>6. bad \/ HeldUpTo(m)
  BY <1>1, <1>5 DEF Accounted, Begun
<1>7. bad' \/ HeldUpTo(m)'
  BY <1>6, HeldStays
<1>8. Begun' = m
  BY <1>1 DEF Begun
<1>9. bad' \/ HeldUpTo(Begun)'
  BY <1>7, <1>8 DEF HeldUpTo
<1>10. QED
  BY <1>9 DEF Accounted

LEMMA UnitAccounted ==
  ASSUME IInv, IInv', Accounted, status = "running", text' = text, pc = "unit", Unit
  PROVE  Accounted'
<1>1. CASE Cur(window) = "INVAL" /\ Stop("panic")
  BY <1>1, BegunIs, StopAccounted
<1>2. CASE Cur(window) = "EOF" /\ Stop("done")
  <2>1. Kind(fst) = "EOF" /\ fst \in Nat /\ fst >= 1 /\ Len(text) \in Nat
    BY <1>2, FirstIs DEF Cur, window
  <2>2. fst > Len(text)
    <3>1. SUFFICES ASSUME fst <= Len(text) PROVE FALSE
      BY <2>1
    <3>2. Kind(fst) = text[fst]
      BY <2>1, <3>1 DEF Kind
    <3>3. PICK q \in 1 .. Len(text) : q = fst
      BY <2>1, <3>1
    <3>4. text[q] # "EOF"
      BY <3>3 DEF Accounted
    <3>5. QED
      BY <2>1, <3>2, <3>3, <3>4
  <2>3. PICK n \in Nat : n = fst
    BY <2>1
  <2>4. UNCHANGED <<fst, pc, decl, decls, bad>> /\ status' = "done"
    BY <1>2 DEF Stop, window
  <2>5. bad \/ HeldUpTo(n)
    BY <2>3 DEF Accounted, Begun
  <2>6. bad' \/ HeldUpTo(n)'
    BY <2>4, <2>5, HeldStays
  <2>7. Begun' = n
    BY <2>3, <2>4 DEF Begun
  <2>8. bad' \/ HeldUpTo(Begun)'
    BY <2>6, <2>7 DEF HeldUpTo
  <2>9. QED
    BY <2>2, <2>4, <2>8 DEF Accounted
<1>3. CASE /\ Cur(window) \in {"DOC", "EOL"}
           /\ MoveTo(Advance[window])
           /\ UNCHANGED <<pc, stack, ret, decl, decls, bad, status>>
  BY <1>3, PassedOver
<1>4. CASE NextLine
  BY <1>4 DEF NextLine, Report, Accounted
<1>5. QED
  BY <1>1, <1>2, <1>3, <1>4 DEF Unit

-----------------------------------------------------------------------------
(* The declarations. *)

LEMMA FuncAccounted ==
  ASSUME IInv, Accounted, status = "running", text' = text, pc = "unit", Func
  PROVE  Accounted'
<1>1. PICK n \in Nat : n = fst
  BY FirstIs
<1>2. decl' = [NoDecl EXCEPT !.id = n] /\ UNCHANGED <<decls, bad, status>> /\ pc' # "unit"
  BY <1>1 DEF Func
<1>3. IsDecl(decl') /\ decl'.id = n
  BY <1>2 DEF NoDecl, IsDecl
<1>4. Begun = n
  BY <1>1 DEF Begun
<1>5. QED
  BY <1>2, <1>3, <1>4, Inside DEF Fine

LEMMA ParamAccounted ==
  ASSUME IInv, Accounted, status = "running", text' = text, pc = "params", Param
  PROVE  Accounted'
<1>1. /\ decl' = [decl EXCEPT !.params = Append(decl.params, fst)]
      /\ UNCHANGED <<decls, status>> /\ pc' # "unit" /\ (Fine \/ Report)
  BY DEF Param
<1>2. IsDecl(decl') /\ decl'.id = decl.id
  <2>1. IsDecl(decl)
    BY DEF Accounted
  <2>2. PICK v : v = Append(decl.params, fst)
    OBVIOUS
  <2>3. QED
    BY <1>1, <2>1, <2>2, DeclSet
<1>3. Begun = decl.id /\ Begun \in Nat
  BY BegunIs DEF Begun
<1>4. QED
  BY <1>1, <1>2, <1>3, Inside

LEMMA CloseAccounted ==
  ASSUME IInv, Accounted, status = "running", text' = text, Close
  PROVE  Accounted'
<1>1. /\ pc # "unit" /\ pc' # "unit" /\ UNCHANGED <<decl, decls, status>>
      /\ (Fine \/ Report)
  BY DEF Close
<1>2. Begun = decl.id /\ Begun \in Nat /\ IsDecl(decl)
  BY <1>1, BegunIs DEF Begun, Accounted
<1>3. QED
  BY <1>1, <1>2, Inside

LEMMA NoResultAccounted ==
  ASSUME IInv, IInv', Accounted, status = "running", text' = text, pc = "result", NoResult
  PROVE  Accounted'
<1>1. PICK d : d = [decl EXCEPT !.valid = FALSE]
  OBVIOUS
<1>2. IsDecl(decl) /\ IsDecl(d) /\ d.id = decl.id
  <2>1. IsDecl(decl)
    BY DEF Accounted
  <2>2. QED
    BY <1>1, <2>1, DeclSet
<1>3. Report /\ AddDecl(d) /\ pc' = "unit" /\ UNCHANGED <<decl, status>> /\ fst' \in Nat
  BY <1>1, NextFirstIs DEF NoResult
<1>4. QED
  BY <1>2, <1>3, Added

LEMMA ResultAccounted ==
  ASSUME IInv, IInv', Accounted, status = "running", text' = text, pc = "result", Result
  PROVE  Accounted'
<1>1. /\ status' = status /\ IsDecl(decl) /\ fst' \in Nat /\ (Fine \/ Report)
      /\ Begun = decl.id /\ Begun \in Nat
  BY BegunIs, NextFirstIs DEF Result, Accounted, Begun
<1>2. PICK w : w = SkipDoc[AfterType(Advance[window])]
  OBVIOUS
<1>3. CASE Cur(w) = "ASSIGN"
  <2>1. PICK f : f = Advance[w][1]
    OBVIOUS
  <2>2. decl' = [decl EXCEPT !.from = f] /\ pc' = "expr" /\ UNCHANGED decls
    BY <1>2, <1>3, <2>1 DEF Result
  <2>3. IsDecl(decl') /\ decl'.id = decl.id
    BY <1>1, <2>2 DEF IsDecl
  <2>4. QED
    BY <1>1, <2>2, <2>3, Inside
<1>4. CASE Cur(w) # "ASSIGN"
  <2>1. AddDecl(decl) /\ pc' = "unit" /\ UNCHANGED decl
    BY <1>2, <1>4 DEF Result
  <2>2. QED
    BY <1>1, <2>1, Added
<1>5. QED
  BY <1>3, <1>4

LEMMA InitAccounted == Init => Accounted
<1>1. SUFFICES ASSUME Init PROVE Accounted
  OBVIOUS
<1>2. text \in Seq(Kinds \ {"EOF"})
  BY <1>1, TextsAssumption DEF Init
<1>3. \A p \in 1 .. Len(text) : text[p] # "EOF"
  <2>1. PICK K : K = Kinds \ {"EOF"}
    OBVIOUS
  <2>2. \A p \in 1 .. Len(text) : text[p] \in K
    BY <1>2, <2>1
  <2>3. QED
    BY <2>1, <2>2
<1>4. pc = "unit" /\ decl = NoDecl /\ decls = <<>> /\ status = "running"
  BY <1>1 DEF Init
<1>5. decls \in Seq({}) /\ IsDecl(decl)
  <2>1. \E z \in Nat : z = 0
    OBVIOUS
  <2>2. IsDecl(NoDecl)
    BY <2>1, Zenon DEF IsDecl, NoDecl
  <2>3. QED
    BY <1>4, <2>2
<1>6. HeldUpTo(Begun)
  <2>1. SUFFICES ASSUME NEW p \in 1 .. fst - 1 PROVE Held(p)
    BY <1>4 DEF Begun, HeldUpTo
  <2>2. PICK w \in Windows : w = <<0, 0>>
    <3>1. text \in Seq(Kinds)
      BY <1>1, InitHolds DEF IInv
    <3>2. PICK n \in Nat : n = Len(text) + 1
      BY <3>1, KindIs
    <3>3. PICK z \in 0 .. n : z = 0
      BY <3>2
    <3>4. <<z, z>> \in (0 .. n) \X (0 .. n)
      OBVIOUS
    <3>5. QED
      BY <3>2, <3>3, <3>4 DEF Windows
  <2>3. Kind(w[2]) = "INVAL" /\ w[2] = 0 /\ Len(text) \in Nat
    BY <1>1, <2>2, InitHolds, KindIs DEF IInv
  <2>4. Advance[w] = <<Lexed(w[2]), Lexed(Lexed(w[2]))>>
    BY <2>3 DEF Advance
  <2>5. Lexed(w[2]) = 1
    BY <2>3 DEF Lexed
  <2>6. fst = 1
    BY <1>1, <2>2, <2>4, <2>5 DEF Init
  <2>7. QED
    BY <2>1, <2>6
<1>7. QED
  BY <1>3, <1>4, <1>5, <1>6 DEF Accounted

LEMMA NextAccounted == IInv /\ IInv' /\ Accounted /\ [Next]_vars => Accounted'
<1>1. SUFFICES ASSUME IInv, IInv', Accounted, [Next]_vars PROVE Accounted'
  OBVIOUS
<1>2. CASE UNCHANGED vars
  <2>1. UNCHANGED <<text, fst, pc, decl, decls, bad, status>>
    BY <1>2 DEF vars, window
  <2>2. PICK n \in Nat : n = Begun
    BY <1>1, BegunIs
  <2>3. Begun' = n
    BY <2>1, <2>2 DEF Begun
  <2>4. bad' \/ HeldUpTo(n)'
    BY <1>1, <2>1, <2>2, HeldStays DEF Accounted
  <2>5. bad' \/ HeldUpTo(Begun)'
    BY <2>3, <2>4 DEF HeldUpTo
  <2>6. QED
    BY <1>1, <2>1, <2>5 DEF Accounted
<1>3. CASE Next
  <2>1. status = "running" /\ text' = text /\ (Expr \/ Return \/ Decl)
    BY <1>3 DEF Next, Parse
  <2>2. CASE Expr
    BY <1>1, <2>1, <2>2, ExprAccounted
  <2>3. CASE Return
    BY <1>1, <2>1, <2>3, ReturnAccounted
  <2>4. CASE Decl
    BY <1>1, <2>1, <2>4, UnitAccounted, FuncAccounted, ParamAccounted, CloseAccounted,
       NoResultAccounted, ResultAccounted DEF Decl
  <2>5. QED
    BY <2>1, <2>2, <2>3, <2>4
<1>4. QED
  BY <1>1, <1>2, <1>3

LEMMA AccountedLosesNothing == IInv /\ Accounted => NothingLost
<1>1. SUFFICES ASSUME IInv, Accounted, status = "done", ~bad, NEW p \in 1 .. Len(text)
               PROVE  Held(p)
  BY DEF NothingLost, Held
<1>2. HeldUpTo(fst) /\ fst > Len(text) /\ fst \in Nat /\ Len(text) \in Nat
  BY <1>1, FirstIs DEF Accounted, Begun
<1>3. QED
  BY <1>2 DEF HeldUpTo

\* Whatever the text, when megc's parser accepts it every token is in a
\* declaration, but for ends of lines, comments and what the lexer could not
\* read: the recovery that skips to a `)` or to the end of a line never drops
\* anything without a report (parser.c:534).
THEOREM NothingIsLost == Spec => []NothingLost
<1>1. IInv /\ Accounted => NothingLost
  BY AccountedLosesNothing
<1>2. Init => Accounted
  BY InitAccounted
<1>3. IInv /\ IInv' /\ Accounted /\ [Next]_vars => Accounted'
  BY NextAccounted
<1>4. Spec => []IInv
  BY Invariance
<1>5. QED
  BY <1>1, <1>2, <1>3, <1>4, PTL DEF Spec
=============================================================================
