-------------------------- MODULE SyntaxTreeProofs --------------------------
(***************************************************************************)
(* Proofs about the trees the builder makes, and that the control-flow     *)
(* analysis finds on every one of them what the statements say.            *)
(***************************************************************************)
EXTENDS FlowAnalysis, SequenceTheorems, WellFoundedInduction, TLAPS

-----------------------------------------------------------------------------
(* Sequences of whatever, records with the fields they were made with.     *)

IsSeq(s) == \E S : s \in Seq(S)

NodeFields == {"kind", "kids", "block", "elseBlock", "ifType", "params", "type",
               "to", "val", "at"}
IsNode(n)  == n = [k \in NodeFields |-> n[k]]

TreeFields == {"nodes", "cursor"}
IsTree(t)  == t = [k \in TreeFields |-> t[k]]

\* The length of a sequence and the indices it has.
LEMMA SeqIs ==
  ASSUME NEW s, IsSeq(s)
  PROVE  Len(s) \in Nat /\ DOMAIN s = 1 .. Len(s) /\ (s = <<>> <=> Len(s) = 0)
<1>1. PICK S : s \in Seq(S)
  BY DEF IsSeq
<1>2. QED
  BY <1>1

\* What is in a sequence that got another element.
LEMMA SeqAppended ==
  ASSUME NEW s, IsSeq(s), NEW x
  PROVE  /\ IsSeq(Append(s, x)) /\ Len(Append(s, x)) = Len(s) + 1
         /\ DOMAIN Append(s, x) = 1 .. Len(s) + 1
         /\ Append(s, x)[Len(s) + 1] = x
         /\ \A i \in 1 .. Len(s) : Append(s, x)[i] = s[i]
<1>1. PICK S : s \in Seq(S)
  BY DEF IsSeq
<1>2. s \in Seq(S \cup {x}) /\ x \in S \cup {x}
  BY <1>1
<1>3. Append(s, x) \in Seq(S \cup {x})
  BY <1>2
<1>4. IsSeq(Append(s, x))
  BY <1>3 DEF IsSeq
<1>5. QED
  BY <1>2, <1>3, <1>4

\* What is in a sequence of which one element changed.
LEMMA SeqChanged ==
  ASSUME NEW s, IsSeq(s), NEW i \in DOMAIN s, NEW x
  PROVE  /\ IsSeq([s EXCEPT ![i] = x]) /\ Len([s EXCEPT ![i] = x]) = Len(s)
         /\ DOMAIN [s EXCEPT ![i] = x] = DOMAIN s
         /\ [s EXCEPT ![i] = x][i] = x
         /\ \A j \in DOMAIN s : j # i => [s EXCEPT ![i] = x][j] = s[j]
<1>1. PICK S : s \in Seq(S)
  BY DEF IsSeq
<1>2. s \in Seq(S \cup {x}) /\ x \in S \cup {x}
  BY <1>1
<1>3. [s EXCEPT ![i] = x] \in Seq(S \cup {x})
  BY <1>2
<1>4. IsSeq([s EXCEPT ![i] = x])
  BY <1>3 DEF IsSeq
<1>5. QED
  BY <1>2, <1>3, <1>4

\* What is in a sequence without its last element.
LEMMA SeqFront ==
  ASSUME NEW s, IsSeq(s), s # <<>>
  PROVE  /\ IsSeq(Front(s)) /\ Len(Front(s)) = Len(s) - 1 /\ Len(s) - 1 \in Nat
         /\ DOMAIN Front(s) = 1 .. Len(s) - 1
         /\ Last(s) = s[Len(s)] /\ Len(s) \in DOMAIN s
         /\ \A i \in 1 .. Len(s) - 1 : Front(s)[i] = s[i]
<1>1. PICK S : s \in Seq(S)
  BY DEF IsSeq
<1>2. PICK n \in Nat : Len(s) = n + 1 /\ Len(s) - 1 = n
  <2>1. Len(s) \in Nat /\ Len(s) # 0
    BY <1>1
  <2>2. Len(s) - 1 \in Nat /\ Len(s) = (Len(s) - 1) + 1
    BY <2>1
  <2>3. QED
    BY <2>2
<1>3. PICK r : r = SubSeq(s, 1, n)
  OBVIOUS
<1>4. Front(s) = r /\ Last(s) = s[Len(s)]
  BY <1>2, <1>3 DEF Front, Last
<1>5. r \in Seq(S) /\ Len(r) = n /\ \A i \in 1 .. n : r[i] = s[i]
  <2>1. 1 \in Int /\ n \in Int /\ \A i \in 1 .. n : s[i] \in S
    BY <1>1, <1>2
  <2>2. /\ r \in Seq(S) /\ Len(r) = IF 1 <= n THEN n - 1 + 1 ELSE 0
        /\ \A i \in 1 .. n - 1 + 1 : r[i] = s[1 + i - 1]
    BY <1>3, <2>1, SubSeqProperties
  <2>3. n - 1 + 1 = n /\ \A i \in 1 .. n : 1 + i - 1 = i
    OBVIOUS
  <2>4. Len(r) = n
    BY <2>2, <2>3
  <2>5. QED
    BY <2>2, <2>3, <2>4
<1>6. IsSeq(r) /\ DOMAIN r = 1 .. n
  BY <1>5 DEF IsSeq
<1>7. Len(s) \in DOMAIN s
  BY <1>1, <1>2
<1>8. QED
  BY <1>2, <1>4, <1>5, <1>6, <1>7

\* Two sequences with the same elements are the same one.
LEMMA SeqSame ==
  ASSUME NEW s, NEW r, IsSeq(s), IsSeq(r), Len(s) = Len(r), \A i \in 1 .. Len(s) : s[i] = r[i]
  PROVE  s = r
<1>1. PICK S : s \in Seq(S)
  BY DEF IsSeq
<1>2. PICK R : r \in Seq(R)
  BY DEF IsSeq
<1>3. DOMAIN s = DOMAIN r /\ DOMAIN s = 1 .. Len(s)
  BY <1>1, <1>2
<1>4. s = [i \in DOMAIN s |-> s[i]] /\ r = [i \in DOMAIN r |-> r[i]]
  BY <1>1, <1>2
<1>5. QED
  BY <1>3, <1>4

-----------------------------------------------------------------------------
(* Trees whose nodes point to younger nodes, of the kinds they should be.  *)

\* The links of a node n that is the i-th one of tree t.
Links(t, i, n) ==
  /\ IsNode(n) /\ IsSeq(n.kids)
  /\ \A k \in DOMAIN n.kids : /\ n.kids[k] \in i + 1 .. Newest(t)
                              /\ t.nodes[n.kids[k]].kind # "SCOPE_OPERATION"
  /\ n.block # 0 => /\ n.block \in i + 1 .. Newest(t)
                    /\ t.nodes[n.block].kind = "SCOPE_OPERATION"
  /\ n.elseBlock # 0 => n.elseBlock \in i + 1 .. Newest(t)
  /\ n.ifType \in {"NONE", "IF", "IF_OR", "IF_ELSE"}
  /\ n.kind = "IF_STATEMENT" <=> n.ifType # "NONE"
  /\ n.ifType \in {"NONE", "IF"} => n.elseBlock = 0
  /\ n.ifType = "IF_OR" => n.elseBlock # 0 /\ t.nodes[n.elseBlock].kind = "IF_STATEMENT"
  /\ n.ifType = "IF_ELSE" /\ n.elseBlock # 0 => t.nodes[n.elseBlock].kind = "SCOPE_OPERATION"

Linked(t) == /\ IsTree(t) /\ IsSeq(t.nodes)
             /\ \A i \in 1 .. Newest(t) : Links(t, i, t.nodes[i])

\* The cursor is somewhere in the tree, or in an expression.
Pointed(t) == /\ IsSeq(t.cursor) /\ t.cursor # <<>>
              /\ \A k \in DOMAIN t.cursor : t.cursor[k] \in 0 .. Newest(t)

Sound(t) == Linked(t) /\ Pointed(t)

\* What never changes of a node.
Same(m, n) == m.kind = n.kind /\ m.type = n.type /\ m.to = n.to /\ m.at = n.at

\* Tree u has the nodes of t, and maybe more.
Extends(t, u) == /\ Newest(t) <= Newest(u)
                 /\ \A i \in 1 .. Newest(t) : Same(t.nodes[i], u.nodes[i])

\* A node as the builder makes it.
Fresh(n) == /\ IsNode(n) /\ n.kids = <<>> /\ n.block = 0 /\ n.elseBlock = 0
            /\ n.ifType \in {"NONE", "IF"} /\ (n.kind = "IF_STATEMENT" <=> n.ifType # "NONE")

LEMMA ExtendsSelf ==
  ASSUME NEW t, Linked(t)
  PROVE  Extends(t, t)
<1>1. Newest(t) \in Nat
  BY SeqIs DEF Linked, Newest
<1>2. QED
  BY <1>1 DEF Extends, Same

LEMMA ExtendsOn ==
  ASSUME NEW t, NEW u, NEW v, Linked(t), Linked(u), Linked(v), Extends(t, u), Extends(u, v)
  PROVE  Extends(t, v)
<1>1. Newest(t) \in Nat /\ Newest(u) \in Nat /\ Newest(v) \in Nat
  BY SeqIs DEF Linked, Newest
<1>2. Newest(t) <= Newest(v)
  BY <1>1 DEF Extends
<1>3. \A i \in 1 .. Newest(t) : i \in 1 .. Newest(u)
  BY <1>1 DEF Extends
<1>4. QED
  BY <1>2, <1>3 DEF Extends, Same

\* Links stay good in a tree that has more nodes.
LEMMA LinksStay ==
  ASSUME NEW t, NEW u, Newest(t) \in Nat, Newest(u) \in Nat, Extends(t, u),
         NEW i \in Nat, NEW n, Links(t, i, n)
  PROVE  Links(u, i, n)
<1>1. \A j \in i + 1 .. Newest(t) :
        j \in i + 1 .. Newest(u) /\ u.nodes[j].kind = t.nodes[j].kind
  <2>1. TAKE j \in i + 1 .. Newest(t)
  <2>2. j \in 1 .. Newest(t) /\ j \in i + 1 .. Newest(u)
    BY DEF Extends
  <2>3. QED
    BY <2>2 DEF Extends, Same
<1>2. \A k \in DOMAIN n.kids : /\ n.kids[k] \in i + 1 .. Newest(u)
                              /\ u.nodes[n.kids[k]].kind # "SCOPE_OPERATION"
  BY <1>1 DEF Links
<1>3. n.block # 0 => /\ n.block \in i + 1 .. Newest(u)
                    /\ u.nodes[n.block].kind = "SCOPE_OPERATION"
  BY <1>1 DEF Links
<1>4. n.elseBlock # 0 => n.elseBlock \in i + 1 .. Newest(u)
                         /\ u.nodes[n.elseBlock].kind = t.nodes[n.elseBlock].kind
  BY <1>1 DEF Links
<1>5. QED
  BY <1>2, <1>3, <1>4 DEF Links

\* The nodes when one is added.
LEMMA NodeAdded ==
  ASSUME NEW t, Sound(t), NEW n, Fresh(n)
  PROVE  LET u == AddNode(t, n)
         IN /\ Sound(u) /\ Extends(t, u) /\ Newest(u) = Newest(t) + 1
            /\ u.cursor = t.cursor /\ u.nodes[Newest(u)] = n
            /\ \A i \in 1 .. Newest(t) : u.nodes[i] = t.nodes[i]
<1>1. PICK u : u = AddNode(t, n)
  OBVIOUS
<1>2. IsTree(u) /\ u.nodes = Append(t.nodes, n) /\ u.cursor = t.cursor
  BY <1>1 DEF AddNode, Sound, Linked, IsTree, TreeFields
<1>3. /\ IsSeq(u.nodes) /\ Newest(t) \in Nat /\ Newest(u) = Newest(t) + 1
      /\ u.nodes[Newest(t) + 1] = n
      /\ \A i \in 1 .. Newest(t) : u.nodes[i] = t.nodes[i]
  BY <1>2, SeqAppended, SeqIs DEF Sound, Linked, Newest
<1>4. Extends(t, u)
  BY <1>3 DEF Extends, Same
<1>5. Links(u, Newest(u), n)
  <2>1. DOMAIN n.kids = {} /\ IsSeq(n.kids)
    <3>1. <<>> \in Seq({}) /\ DOMAIN <<>> = {}
      OBVIOUS
    <3>2. QED
      BY <3>1 DEF Fresh, IsSeq
  <2>2. QED
    BY <2>1 DEF Fresh, Links
<1>6. \A i \in 1 .. Newest(u) : Links(u, i, u.nodes[i])
  <2>1. TAKE i \in 1 .. Newest(u)
  <2>2. CASE i = Newest(u)
    BY <1>3, <1>5, <2>2
  <2>3. CASE i # Newest(u)
    <3>1. i \in 1 .. Newest(t) /\ i \in Nat /\ Newest(u) \in Nat
      BY <1>3, <2>3
    <3>2. Links(t, i, t.nodes[i])
      BY <3>1 DEF Sound, Linked
    <3>3. Links(u, i, t.nodes[i])
      BY <1>3, <1>4, <3>1, <3>2, LinksStay
    <3>4. QED
      BY <1>3, <3>1, <3>3
  <2>4. QED
    BY <2>2, <2>3
<1>7. Pointed(u)
  BY <1>2, <1>3 DEF Sound, Pointed
<1>8. QED
  BY <1>1, <1>2, <1>3, <1>4, <1>6, <1>7 DEF Sound, Linked

\* The nodes when one is changed.
LEMMA NodeChanged ==
  ASSUME NEW t, Sound(t), NEW i \in 1 .. Newest(t), NEW n, Links(t, i, n), Same(t.nodes[i], n)
  PROVE  LET u == [t EXCEPT !.nodes[i] = n]
         IN /\ Sound(u) /\ Extends(t, u) /\ Newest(u) = Newest(t)
            /\ u.cursor = t.cursor /\ u.nodes[i] = n
            /\ \A j \in 1 .. Newest(t) : j # i => u.nodes[j] = t.nodes[j]
<1>1. PICK u : u = [t EXCEPT !.nodes[i] = n]
  OBVIOUS
<1>2. IsTree(u) /\ u.nodes = [t.nodes EXCEPT ![i] = n] /\ u.cursor = t.cursor
  BY <1>1 DEF Sound, Linked, IsTree, TreeFields
<1>3. Newest(t) \in Nat /\ DOMAIN t.nodes = 1 .. Newest(t)
  BY SeqIs DEF Sound, Linked, Newest
<1>4. /\ IsSeq(u.nodes) /\ Newest(u) = Newest(t) /\ u.nodes[i] = n
      /\ \A j \in 1 .. Newest(t) : j # i => u.nodes[j] = t.nodes[j]
  BY <1>2, <1>3, SeqChanged DEF Sound, Linked, Newest
<1>5. Extends(t, u)
  BY <1>3, <1>4 DEF Extends, Same
<1>6. \A j \in 1 .. Newest(u) : Links(u, j, u.nodes[j])
  <2>1. TAKE j \in 1 .. Newest(u)
  <2>2. Links(t, j, u.nodes[j])
    BY <1>4 DEF Sound, Linked
  <2>3. QED
    BY <1>3, <1>4, <1>5, <2>2, LinksStay
<1>7. Pointed(u)
  BY <1>2, <1>4 DEF Sound, Pointed
<1>8. QED
  BY <1>1, <1>2, <1>4, <1>5, <1>6, <1>7 DEF Sound, Linked

-----------------------------------------------------------------------------
(* The builder's functions.                                                *)

\* The cursor goes down.
LEMMA WentDown ==
  ASSUME NEW t, Sound(t), NEW id \in 0 .. Newest(t)
  PROVE  LET u == TraverseDown(t, id)
         IN /\ Sound(u) /\ Newest(u) = Newest(t) /\ u.nodes = t.nodes
            /\ u.cursor = Append(t.cursor, id)
<1>1. PICK u : u = TraverseDown(t, id)
  OBVIOUS
<1>2. IsTree(u) /\ u.nodes = t.nodes /\ u.cursor = Append(t.cursor, id)
  BY <1>1 DEF TraverseDown, Sound, Linked, IsTree, TreeFields
<1>3. Linked(u) /\ Newest(u) = Newest(t)
  BY <1>2 DEF Sound, Linked, Newest, Links
<1>4. Pointed(u)
  <2>1. /\ IsSeq(u.cursor) /\ Len(u.cursor) = Len(t.cursor) + 1
        /\ DOMAIN u.cursor = 1 .. Len(t.cursor) + 1 /\ u.cursor[Len(t.cursor) + 1] = id
        /\ \A k \in 1 .. Len(t.cursor) : u.cursor[k] = t.cursor[k]
    BY <1>2, SeqAppended DEF Sound, Pointed
  <2>2. Len(t.cursor) \in Nat /\ DOMAIN t.cursor = 1 .. Len(t.cursor)
    BY SeqIs DEF Sound, Pointed
  <2>3. u.cursor # <<>>
    BY <2>1, <2>2, SeqIs
  <2>4. \A k \in DOMAIN u.cursor : u.cursor[k] \in 0 .. Newest(u)
    <3>1. TAKE k \in DOMAIN u.cursor
    <3>2. k = Len(t.cursor) + 1 \/ k \in 1 .. Len(t.cursor)
      BY <2>1, <2>2
    <3>3. QED
      BY <1>3, <2>1, <2>2, <3>2 DEF Sound, Pointed
  <2>5. QED
    BY <2>1, <2>3, <2>4 DEF Pointed
<1>5. QED
  BY <1>1, <1>2, <1>3, <1>4 DEF Sound

\* The cursor goes up.
LEMMA WentUp ==
  ASSUME NEW t, Sound(t), Len(t.cursor) > 1
  PROVE  LET u == TraverseUp(t)
         IN /\ Sound(u) /\ Newest(u) = Newest(t) /\ u.nodes = t.nodes
            /\ u.cursor = Front(t.cursor) /\ Len(u.cursor) = Len(t.cursor) - 1
<1>1. PICK u : u = TraverseUp(t)
  OBVIOUS
<1>2. Len(t.cursor) \in Nat /\ DOMAIN t.cursor = 1 .. Len(t.cursor) /\ t.cursor # <<>>
  BY SeqIs DEF Sound, Pointed
<1>3. u = [t EXCEPT !.cursor = Front(@)]
  BY <1>1, <1>2 DEF TraverseUp
<1>4. IsTree(u) /\ u.nodes = t.nodes /\ u.cursor = Front(t.cursor)
  BY <1>3 DEF Sound, Linked, IsTree, TreeFields
<1>5. Linked(u) /\ Newest(u) = Newest(t)
  BY <1>4 DEF Sound, Linked, Newest, Links
<1>6. /\ IsSeq(u.cursor) /\ Len(u.cursor) = Len(t.cursor) - 1
      /\ DOMAIN u.cursor = 1 .. Len(t.cursor) - 1
      /\ \A k \in 1 .. Len(t.cursor) - 1 : u.cursor[k] = t.cursor[k]
  BY <1>2, <1>4, SeqFront DEF Sound, Pointed
<1>7. Pointed(u)
  <2>1. u.cursor # <<>>
    BY <1>2, <1>6, SeqIs
  <2>2. \A k \in DOMAIN u.cursor : u.cursor[k] \in 0 .. Newest(u)
    BY <1>2, <1>5, <1>6 DEF Sound, Pointed
  <2>3. QED
    BY <1>6, <2>1, <2>2 DEF Pointed
<1>8. QED
  BY <1>1, <1>4, <1>5, <1>6, <1>7 DEF Sound

\* A tree is not Panicked when it has a node.
LEMMA NotPanicked ==
  ASSUME NEW t, Newest(t) \in Nat, Newest(t) # 0
  PROVE  t # Panicked
BY DEF Panicked, Newest

\* Where the cursor is.
LEMMA CurrentIs ==
  ASSUME NEW t, Sound(t)
  PROVE  /\ CurrentId(t) \in 0 .. Newest(t) /\ CurrentId(t) = t.cursor[Len(t.cursor)]
         /\ Newest(t) \in Nat /\ DOMAIN t.nodes = 1 .. Newest(t)
         /\ Current(t).kind # "EXPRESSION" =>
              CurrentId(t) \in 1 .. Newest(t) /\ Current(t) = t.nodes[CurrentId(t)]
         /\ CurrentId(t) # 0 => CurrentId(t) \in 1 .. Newest(t) /\ Current(t) = t.nodes[CurrentId(t)]
<1>1. /\ Newest(t) \in Nat /\ DOMAIN t.nodes = 1 .. Newest(t)
      /\ t.cursor # <<>> /\ Last(t.cursor) = t.cursor[Len(t.cursor)] /\ Len(t.cursor) \in DOMAIN t.cursor
  BY SeqIs, SeqFront DEF Sound, Linked, Pointed, Newest
<1>2. CurrentId(t) \in 0 .. Newest(t)
  BY <1>1 DEF CurrentId, Sound, Pointed
<1>3. CurrentId(t) = 0 => Current(t).kind = "EXPRESSION"
  BY DEF Current, Node
<1>4. QED
  BY <1>1, <1>2, <1>3 DEF CurrentId, Current

\* Node n was added at the end of what is below the current node.
KidAdded(t, u, n) ==
  LET c == CurrentId(t)   new == Newest(t) + 1
  IN /\ Sound(u) /\ Extends(t, u) /\ Newest(u) = new /\ u.cursor = Append(t.cursor, new)
     /\ c \in 1 .. Newest(t) /\ u.nodes[new] = n
     /\ u.nodes[c] = [t.nodes[c] EXCEPT !.kids = Append(@, new)]
     /\ \A i \in 1 .. Newest(t) : i # c => u.nodes[i] = t.nodes[i]

LEMMA CiclicNodeAdded ==
  ASSUME NEW t, Sound(t), NEW n, Fresh(n), n.kind # "SCOPE_OPERATION",
         CurrentId(t) \in 1 .. Newest(t)
  PROVE  KidAdded(t, Descend(AddCiclicNode(t, CurrentId(t), n)), n)
<1>1. PICK c : c = CurrentId(t)
  OBVIOUS
<1>2. PICK v : v = AddNode(t, n)
  OBVIOUS
<1>3. PICK new : new = Newest(t) + 1
  OBVIOUS
<1>4. /\ Sound(v) /\ Extends(t, v) /\ Newest(v) = new
      /\ v.cursor = t.cursor /\ v.nodes[new] = n
      /\ \A i \in 1 .. Newest(t) : v.nodes[i] = t.nodes[i]
  BY <1>2, <1>3, NodeAdded
<1>5. Newest(t) \in Nat /\ c \in 1 .. Newest(t) /\ c \in 1 .. Newest(v) /\ c # new /\ new \in c + 1 .. Newest(v)
  BY <1>1, <1>3, <1>4, CurrentIs
<1>6. PICK m : m = [t.nodes[c] EXCEPT !.kids = Append(@, new)]
  OBVIOUS
<1>7. Links(v, c, t.nodes[c]) /\ v.nodes[c] = t.nodes[c]
  BY <1>4, <1>5 DEF Sound, Linked
<1>8. IsNode(t.nodes[c]) /\ IsSeq(t.nodes[c].kids)
  BY <1>7 DEF Links
<1>9. /\ IsNode(m) /\ m.kids = Append(t.nodes[c].kids, new) /\ Same(t.nodes[c], m)
      /\ m.block = t.nodes[c].block /\ m.elseBlock = t.nodes[c].elseBlock
      /\ m.ifType = t.nodes[c].ifType
  BY <1>6, <1>8 DEF IsNode, NodeFields, Same
<1>10. Links(v, c, m)
  <2>1. /\ IsSeq(m.kids) /\ DOMAIN m.kids = 1 .. Len(t.nodes[c].kids) + 1
        /\ m.kids[Len(t.nodes[c].kids) + 1] = new /\ Len(t.nodes[c].kids) \in Nat
        /\ DOMAIN t.nodes[c].kids = 1 .. Len(t.nodes[c].kids)
        /\ \A k \in 1 .. Len(t.nodes[c].kids) : m.kids[k] = t.nodes[c].kids[k]
    BY <1>8, <1>9, SeqAppended, SeqIs
  <2>2. \A k \in DOMAIN m.kids : /\ m.kids[k] \in c + 1 .. Newest(v)
                                 /\ v.nodes[m.kids[k]].kind # "SCOPE_OPERATION"
    <3>1. TAKE k \in DOMAIN m.kids
    <3>2. CASE k = Len(t.nodes[c].kids) + 1
      BY <1>4, <1>5, <2>1, <3>2
    <3>3. CASE k \in DOMAIN t.nodes[c].kids
      BY <1>7, <2>1, <3>3 DEF Links
    <3>4. QED
      BY <2>1, <3>2, <3>3
  <2>3. m.kind = t.nodes[c].kind
    BY <1>9 DEF Same
  <2>4. QED
    BY <1>7, <1>9, <2>1, <2>2, <2>3 DEF Links
<1>11. PICK w : w = [v EXCEPT !.nodes[c] = m]
  OBVIOUS
<1>12. /\ Sound(w) /\ Extends(v, w) /\ Newest(w) = Newest(v)
       /\ w.cursor = v.cursor /\ w.nodes[c] = m
       /\ \A j \in 1 .. Newest(v) : j # c => w.nodes[j] = v.nodes[j]
  <2>1. Sound(v) /\ c \in 1 .. Newest(v) /\ Links(v, c, m) /\ Same(v.nodes[c], m)
    BY <1>4, <1>5, <1>7, <1>9, <1>10
  <2>2. QED
    BY <1>11, <2>1, NodeChanged
<1>13. AddCiclicNode(t, c, n) = w
  <2>1. IsTree(v) /\ c \in DOMAIN v.nodes
    BY <1>4, <1>5, SeqIs DEF Sound, Linked, Newest
  <2>2. [v EXCEPT !.nodes[c].kids = Append(@, new)]
          = [v EXCEPT !.nodes[c] = [v.nodes[c] EXCEPT !.kids = Append(@, new)]]
    BY <2>1 DEF IsTree, TreeFields
  <2>3. QED
    BY <1>2, <1>3, <1>6, <1>7, <1>11, <2>2 DEF AddCiclicNode
<1>14. PICK u : u = Descend(w)
  OBVIOUS
<1>15. Sound(u) /\ Newest(u) = Newest(w) /\ u.nodes = w.nodes /\ u.cursor = Append(t.cursor, new)
  <2>1. Sound(w) /\ new \in 0 .. Newest(w) /\ Descend(w) = TraverseDown(w, new)
    BY <1>4, <1>5, <1>12 DEF Descend
  <2>2. QED
    BY <1>4, <1>12, <1>14, <2>1, WentDown
<1>16. Extends(t, u)
  <2>1. Extends(t, w)
    BY <1>4, <1>12, ExtendsOn DEF Sound
  <2>2. QED
    BY <1>15, <2>1 DEF Extends
<1>17. QED
  BY <1>1, <1>3, <1>4, <1>5, <1>6, <1>12, <1>13, <1>14, <1>15, <1>16 DEF KidAdded

\* An operation was added for line `at`, as the block or the else of the current node.
OperationAdded(t, u, at) ==
  LET c == CurrentId(t)   new == Newest(t) + 1
  IN /\ Sound(u) /\ Extends(t, u) /\ Newest(u) = new /\ u.cursor = Append(t.cursor, new)
     /\ c \in 1 .. Newest(t)
     /\ u.nodes[new] = [Node EXCEPT !.kind = "SCOPE_OPERATION", !.at = at]
     /\ \/ /\ NodeNeedsOperation(t.nodes[c]) = "block"
           /\ u.nodes[c] = [t.nodes[c] EXCEPT !.block = new]
        \/ /\ NodeNeedsOperation(t.nodes[c]) = "elseBlock"
           /\ t.nodes[c].ifType = "IF_ELSE" /\ t.nodes[c].block # 0
           /\ u.nodes[c] = [t.nodes[c] EXCEPT !.elseBlock = new]
     /\ \A i \in 1 .. Newest(t) : i # c => u.nodes[i] = t.nodes[i]

\* A module, an expression and an operation do not take an operation.
LEMMA NeedsIs ==
  ASSUME NEW n, NodeNeedsOperation(n) # "no"
  PROVE  /\ n.kind \in {"DECL_FUNC", "WHILE_STATEMENT", "LOOP_STATEMENT", "IF_STATEMENT"}
         /\ \/ NodeNeedsOperation(n) = "block"
            \/ /\ NodeNeedsOperation(n) = "elseBlock" /\ n.kind = "IF_STATEMENT"
               /\ n.ifType \in {"IF_OR", "IF_ELSE"} /\ n.block # 0 /\ n.elseBlock = 0
BY DEF NodeNeedsOperation

LEMMA OperationFits ==
  ASSUME NEW t, Sound(t), NEW at, NodeNeedsOperation(Current(t)) # "no"
  PROVE  OperationAdded(t, AddOperationNode(t, at), at)
<1>1. PICK c : c = CurrentId(t)
  OBVIOUS
<1>2. PICK n : n = [Node EXCEPT !.kind = "SCOPE_OPERATION", !.at = at]
  OBVIOUS
<1>3. PICK v : v = AddNode(t, n)
  OBVIOUS
<1>4. PICK new : new = Newest(t) + 1
  OBVIOUS
<1>5. /\ Fresh(n) /\ n.kind = "SCOPE_OPERATION"
  BY <1>2 DEF Fresh, Node, IsNode, NodeFields
<1>6. /\ Sound(v) /\ Extends(t, v) /\ Newest(v) = new
      /\ v.cursor = t.cursor /\ v.nodes[new] = n
      /\ \A i \in 1 .. Newest(t) : v.nodes[i] = t.nodes[i]
  BY <1>3, <1>4, <1>5, NodeAdded
<1>7. PICK where : where = NodeNeedsOperation(Current(t))
  OBVIOUS
<1>8. where \in {"block", "elseBlock"} /\ NodeNeedsOperation(Current(t)) # "no"
  BY <1>7 DEF NodeNeedsOperation
<1>9. /\ c \in 1 .. Newest(t) /\ Current(t) = t.nodes[c] /\ Newest(t) \in Nat
      /\ c \in 1 .. Newest(v) /\ c # new /\ new \in c + 1 .. Newest(v) /\ new \in 0 .. Newest(v) /\ new # 0
  <2>1. Current(t).kind # "EXPRESSION"
    BY <1>8, NeedsIs
  <2>2. QED
    BY <1>1, <1>4, <1>6, <2>1, CurrentIs
<1>10. /\ Links(v, c, t.nodes[c]) /\ v.nodes[c] = t.nodes[c] /\ IsNode(t.nodes[c])
       /\ IsTree(v) /\ c \in DOMAIN v.nodes
  <2>1. Links(v, c, v.nodes[c]) /\ v.nodes[c] = t.nodes[c] /\ IsTree(v) /\ DOMAIN v.nodes = 1 .. Newest(v)
    BY <1>6, <1>9, SeqIs DEF Sound, Linked, Newest
  <2>2. QED
    BY <1>9, <2>1 DEF Links
<1>11. PICK m : m = IF where = "block" THEN [t.nodes[c] EXCEPT !.block = new]
                    ELSE [t.nodes[c] EXCEPT !.elseBlock = new]
  OBVIOUS
<1>12. /\ IsNode(m) /\ Same(t.nodes[c], m) /\ m.kids = t.nodes[c].kids /\ m.ifType = t.nodes[c].ifType
       /\ m.block = IF where = "block" THEN new ELSE t.nodes[c].block
       /\ m.elseBlock = IF where = "elseBlock" THEN new ELSE t.nodes[c].elseBlock
  <2>1. CASE where = "block"
    BY <1>10, <1>11, <2>1 DEF IsNode, NodeFields, Same
  <2>2. CASE where = "elseBlock"
    BY <1>10, <1>11, <2>2 DEF IsNode, NodeFields, Same
  <2>3. QED
    BY <1>8, <2>1, <2>2
<1>13. where = "elseBlock" => t.nodes[c].ifType = "IF_ELSE" /\ t.nodes[c].block # 0
  BY <1>7, <1>8, <1>9, <1>10, NeedsIs DEF Links
<1>14. Links(v, c, m)
  <2>1. m.kind = t.nodes[c].kind
    BY <1>12 DEF Same
  <2>2. v.nodes[new].kind = "SCOPE_OPERATION"
    BY <1>5, <1>6
  <2>3. CASE where = "block"
    BY <1>9, <1>10, <1>12, <2>1, <2>2, <2>3 DEF Links
  <2>4. CASE where = "elseBlock"
    BY <1>9, <1>10, <1>12, <1>13, <2>1, <2>2, <2>4 DEF Links
  <2>5. QED
    BY <1>8, <2>3, <2>4
<1>15. PICK w : w = [v EXCEPT !.nodes[c] = m]
  OBVIOUS
<1>16. /\ Sound(w) /\ Extends(v, w) /\ Newest(w) = Newest(v)
       /\ w.cursor = v.cursor /\ w.nodes[c] = m
       /\ \A j \in 1 .. Newest(v) : j # c => w.nodes[j] = v.nodes[j]
  <2>1. Sound(v) /\ c \in 1 .. Newest(v) /\ Links(v, c, m) /\ Same(v.nodes[c], m)
    BY <1>6, <1>9, <1>10, <1>12, <1>14
  <2>2. QED
    BY <1>15, <2>1, NodeChanged
<1>17. AddOperationNode(t, at) = Descend(w)
  <2>1. CASE where = "block"
    <3>1. [v EXCEPT !.nodes[c].block = new] = [v EXCEPT !.nodes[c] = [v.nodes[c] EXCEPT !.block = new]]
      BY <1>10 DEF IsTree, TreeFields
    <3>2. [v EXCEPT !.nodes[c].block = new] = w
      BY <1>10, <1>11, <1>15, <2>1, <3>1
    <3>3. QED
      BY <1>1, <1>2, <1>3, <1>4, <1>7, <2>1, <3>2 DEF AddOperationNode
  <2>2. CASE where = "elseBlock"
    <3>1. [v EXCEPT !.nodes[c].elseBlock = new] = [v EXCEPT !.nodes[c] = [v.nodes[c] EXCEPT !.elseBlock = new]]
      BY <1>10 DEF IsTree, TreeFields
    <3>2. [v EXCEPT !.nodes[c].elseBlock = new] = w
      BY <1>10, <1>11, <1>15, <2>2, <3>1
    <3>3. QED
      BY <1>1, <1>2, <1>3, <1>4, <1>7, <2>2, <3>2 DEF AddOperationNode
  <2>3. QED
    BY <1>8, <2>1, <2>2
<1>18. PICK u : u = Descend(w)
  OBVIOUS
<1>19. Sound(u) /\ Newest(u) = Newest(w) /\ u.nodes = w.nodes /\ u.cursor = Append(t.cursor, new)
  <2>1. Sound(w) /\ new \in 0 .. Newest(w) /\ u = TraverseDown(w, new) /\ w.cursor = t.cursor
    BY <1>6, <1>9, <1>16, <1>18 DEF Descend
  <2>2. /\ Sound(TraverseDown(w, new)) /\ Newest(TraverseDown(w, new)) = Newest(w)
        /\ TraverseDown(w, new).nodes = w.nodes
        /\ TraverseDown(w, new).cursor = Append(w.cursor, new)
    BY ONLY <2>1, WentDown
  <2>3. QED
    BY ONLY <2>1, <2>2
<1>20. Extends(t, u)
  <2>1. Extends(t, w)
    BY <1>6, <1>16, ExtendsOn DEF Sound
  <2>2. QED
    BY <1>19, <2>1 DEF Extends
<1>21. \/ where = "block" /\ m = [t.nodes[c] EXCEPT !.block = new]
       \/ where = "elseBlock" /\ m = [t.nodes[c] EXCEPT !.elseBlock = new]
  BY <1>8, <1>11
<1>22. u.nodes[new] = n /\ u.nodes[c] = m /\ \A i \in 1 .. Newest(t) : i # c => u.nodes[i] = t.nodes[i]
  BY <1>4, <1>6, <1>9, <1>16, <1>19
<1>23. Newest(u) = new
  BY <1>6, <1>16, <1>19
<1>24. OperationAdded(t, u, at)
  BY <1>1, <1>2, <1>4, <1>7, <1>9, <1>13, <1>19, <1>20, <1>21, <1>22, <1>23 DEF OperationAdded
<1>25. QED
  BY <1>17, <1>18, <1>24

LEMMA OperationNodeAdded ==
  ASSUME NEW t, Sound(t), NEW at, AddOperationNode(t, at) # Panicked
  PROVE  OperationAdded(t, AddOperationNode(t, at), at)
<1>1. NodeNeedsOperation(Current(t)) # "no"
  BY DEF AddOperationNode
<1>2. QED
  BY <1>1, OperationFits

\* A statement is added to the operation the cursor is at.
LEMMA StatementAdded ==
  ASSUME NEW t, Sound(t), NEW n, Fresh(n), n.kind # "SCOPE_OPERATION", AddStatement(t, n) # Panicked
  PROVE  /\ KidAdded(t, AddStatement(t, n), n)
         /\ t.nodes[CurrentId(t)].kind = "SCOPE_OPERATION"
<1>1. Current(t).kind = "SCOPE_OPERATION"
  BY DEF AddStatement
<1>2. CurrentId(t) \in 1 .. Newest(t) /\ Current(t) = t.nodes[CurrentId(t)]
  BY <1>1, CurrentIs
<1>3. AddStatement(t, n) = Descend(AddCiclicNode(t, CurrentId(t), n))
  BY <1>1 DEF AddStatement, AddNodeInOperation
<1>4. QED
  BY <1>1, <1>2, <1>3, CiclicNodeAdded

\* A function is added to the module.
LEMMA FuncAdded ==
  ASSUME NEW t, Sound(t), NEW type, NEW at, AddFuncDecl(t, type, at) # Panicked
  PROVE  LET n == [Node EXCEPT !.kind = "DECL_FUNC", !.type = type, !.at = at]
         IN Fresh(n) /\ n.kind = "DECL_FUNC" /\ KidAdded(t, AddFuncDecl(t, type, at), n)
<1>1. Current(t).kind = "SCOPE_MODULE"
  BY DEF AddFuncDecl
<1>2. CurrentId(t) \in 1 .. Newest(t)
  BY <1>1, CurrentIs
<1>3. PICK n : n = [Node EXCEPT !.kind = "DECL_FUNC", !.type = type, !.at = at]
  OBVIOUS
<1>4. Fresh(n) /\ n.kind = "DECL_FUNC"
  BY <1>3 DEF Fresh, Node, IsNode, NodeFields
<1>5. AddFuncDecl(t, type, at) = Descend(AddCiclicNode(t, CurrentId(t), n))
  BY <1>1, <1>3 DEF AddFuncDecl
<1>6. KidAdded(t, AddFuncDecl(t, type, at), n)
  BY <1>2, <1>4, <1>5, CiclicNodeAdded
<1>7. QED
  BY <1>3, <1>4, <1>6

\* The first node is added to an empty tree.
LEMMA ModuleAdded ==
  LET t == AddModuleNode(EmptyTree)
  IN /\ Sound(t) /\ Newest(t) = 1 /\ t.cursor = <<1>>
     /\ t.nodes[1] = [Node EXCEPT !.kind = "SCOPE_MODULE"]
<1>1. PICK n : n = [Node EXCEPT !.kind = "SCOPE_MODULE"]
  OBVIOUS
<1>2. PICK v : v = AddNode(EmptyTree, n)
  OBVIOUS
<1>3. Fresh(n)
  BY <1>1 DEF Fresh, Node, IsNode, NodeFields
<1>4. IsTree(v) /\ v.nodes = <<n>> /\ v.cursor = <<>>
  BY <1>2 DEF AddNode, EmptyTree, IsTree, TreeFields
<1>5. PICK u : u = AddModuleNode(EmptyTree)
  OBVIOUS
<1>6. u = Descend(v)
  BY <1>1, <1>2, <1>5 DEF AddModuleNode, EmptyTree
<1>7. Newest(v) = 1
  BY <1>4 DEF Newest
<1>8. IsTree(u) /\ u.nodes = <<n>> /\ u.cursor = <<1>>
  BY <1>4, <1>6, <1>7 DEF Descend, TraverseDown, IsTree, TreeFields
<1>9. Newest(u) = 1 /\ u.nodes[1] = n /\ IsSeq(u.nodes)
  <2>1. u.nodes \in Seq({n})
    BY <1>8
  <2>2. IsSeq(u.nodes)
    BY <2>1 DEF IsSeq
  <2>3. Len(<<n>>) = 1 /\ <<n>>[1] = n
    OBVIOUS
  <2>4. QED
    BY <1>8, <2>2, <2>3 DEF Newest
<1>10. Links(u, 1, n)
  <2>1. DOMAIN n.kids = {} /\ IsSeq(n.kids)
    <3>1. <<>> \in Seq({}) /\ DOMAIN <<>> = {}
      OBVIOUS
    <3>2. QED
      BY <1>3, <3>1 DEF Fresh, IsSeq
  <2>2. QED
    BY <1>3, <2>1 DEF Fresh, Links
<1>11. Linked(u)
  BY <1>8, <1>9, <1>10 DEF Linked
<1>12. Pointed(u)
  <2>1. u.cursor \in Seq({1})
    BY <1>8
  <2>2. QED
    BY <1>8, <1>9, <2>1 DEF Pointed, IsSeq
<1>13. QED
  BY <1>1, <1>5, <1>8, <1>9, <1>11, <1>12 DEF Sound

\* A handle hangs below nothing.
LEMMA HandleAdded ==
  ASSUME NEW t, Sound(t)
  PROVE  LET u == AddNodeHandleNode(t)
         IN /\ Sound(u) /\ Extends(t, u) /\ Newest(u) = Newest(t) + 1
            /\ u.cursor = Append(t.cursor, Newest(u))
            /\ u.nodes[Newest(u)] = [Node EXCEPT !.kind = "NODE_HANDLE"]
            /\ \A i \in 1 .. Newest(t) : u.nodes[i] = t.nodes[i]
<1>1. PICK n : n = [Node EXCEPT !.kind = "NODE_HANDLE"]
  OBVIOUS
<1>2. PICK v : v = AddNode(t, n)
  OBVIOUS
<1>3. Fresh(n)
  BY <1>1 DEF Fresh, Node, IsNode, NodeFields
<1>4. /\ Sound(v) /\ Extends(t, v) /\ Newest(v) = Newest(t) + 1
      /\ v.cursor = t.cursor /\ v.nodes[Newest(v)] = n
      /\ \A i \in 1 .. Newest(t) : v.nodes[i] = t.nodes[i]
  BY <1>2, <1>3, NodeAdded
<1>5. PICK u : u = Descend(v)
  OBVIOUS
<1>6. Sound(u) /\ Newest(u) = Newest(v) /\ u.nodes = v.nodes /\ u.cursor = Append(v.cursor, Newest(v))
  <2>1. Newest(v) \in 0 .. Newest(v) /\ Descend(v) = TraverseDown(v, Newest(v))
    BY <1>4, CurrentIs DEF Descend
  <2>2. QED
    BY <1>4, <1>5, <2>1, WentDown
<1>7. Extends(t, u)
  BY <1>4, <1>6 DEF Extends
<1>8. u = AddNodeHandleNode(t)
  BY <1>1, <1>2, <1>5 DEF AddNodeHandleNode
<1>9. QED
  BY <1>1, <1>4, <1>6, <1>7, <1>8

\* A parameter is added to the handle the cursor is at.
LEMMA ParameterAdded ==
  ASSUME NEW t, Sound(t), NEW index, AddFuncParameterDecl(t, index) # Panicked
  PROVE  /\ KidAdded(t, AddFuncParameterDecl(t, index), [Node EXCEPT !.kind = "DECL_PARAMETER"])
         /\ t.nodes[CurrentId(t)].kind = "NODE_HANDLE"
<1>1. Current(t).kind = "NODE_HANDLE"
  BY DEF AddFuncParameterDecl
<1>2. CurrentId(t) \in 1 .. Newest(t) /\ Current(t) = t.nodes[CurrentId(t)]
  BY <1>1, CurrentIs
<1>3. PICK n : n = [Node EXCEPT !.kind = "DECL_PARAMETER"]
  OBVIOUS
<1>4. Fresh(n) /\ n.kind = "DECL_PARAMETER"
  BY <1>3 DEF Fresh, Node, IsNode, NodeFields
<1>5. AddFuncParameterDecl(t, index) = Descend(AddCiclicNode(t, CurrentId(t), n))
  BY <1>1, <1>3 DEF AddFuncParameterDecl
<1>6. KidAdded(t, AddFuncParameterDecl(t, index), n)
  BY <1>2, <1>4, <1>5, CiclicNodeAdded
<1>7. QED
  BY <1>1, <1>2, <1>3, <1>6

-----------------------------------------------------------------------------
(* Recursive functions on the nodes of a tree, from the youngest one up.   *)

\* G says of function f and index i what follows from the values of f above i.
LooksAbove(n, V, G) ==
  /\ G \in [[1 .. n -> V] \X (1 .. n) -> V]
  /\ \A f, g \in [1 .. n -> V] : \A i \in 1 .. n :
       (\A j \in i + 1 .. n : f[j] = g[j]) => G[<<f, i>>] = G[<<g, i>>]

Solves(n, V, G, f) == f \in [1 .. n -> V] /\ \A i \in 1 .. n : f[i] = G[<<f, i>>]

\* A function whose value at i follows from its values above i exists.
LEMMA DefinedFromAbove ==
  ASSUME NEW n \in Nat, NEW V, NEW v \in V, NEW G, LooksAbove(n, V, G)
  PROVE  \E f : Solves(n, V, G, f)
<1> USE DEF LooksAbove
<1> DEFINE Good(k) == \E f \in [1 .. n -> V] : \A i \in n - k + 1 .. n : f[i] = G[<<f, i>>]
<1> DEFINE T == {k \in Nat : k <= n /\ ~Good(k)}
<1>1. T = {}
  <2>1. SUFFICES ASSUME T # {} PROVE FALSE
    OBVIOUS
  <2>2. PICK l \in T : \A y \in T : ~ (<<y, l>> \in OpToRel(<, Nat))
    <3>1. IsWellFoundedOn(OpToRel(<, Nat), Nat)
      BY NatLessThanWellFounded
    <3>2. T \subseteq Nat
      OBVIOUS
    <3>3. QED
      BY <2>1, <3>1, <3>2, WFMin
  <2>3. l \in Nat /\ l <= n /\ ~Good(l)
    OBVIOUS
  <2>4. CASE l = 0
    <3>1. [i \in 1 .. n |-> v] \in [1 .. n -> V] /\ n - l + 1 .. n = {}
      BY <2>4
    <3>2. QED
      BY <2>3, <3>1
  <2>5. CASE l # 0
    <3>1. PICK j \in Nat : l = j + 1 /\ j < l /\ j <= n
      <4>1. l - 1 \in Nat /\ l = (l - 1) + 1 /\ l - 1 < l /\ l - 1 <= n
        BY <2>3, <2>5
      <4>2. QED
        BY <4>1
    <3>2. j \notin T
      BY <2>2, <2>3, <3>1 DEF OpToRel
    <3>3. PICK f \in [1 .. n -> V] : \A i \in n - j + 1 .. n : f[i] = G[<<f, i>>]
      BY <3>1, <3>2
    <3>4. PICK m \in 1 .. n : m = n - j /\ m = n - l + 1
      BY <2>3, <3>1
    <3>5. PICK h : h = [f EXCEPT ![m] = G[<<f, m>>]]
      OBVIOUS
    <3>6. h \in [1 .. n -> V]
      BY <3>5
    <3>7. \A i \in n - l + 1 .. n : h[i] = G[<<h, i>>]
      <4>1. TAKE i \in n - l + 1 .. n
      <4>2. i \in 1 .. n /\ i >= m
        BY <3>4
      <4>3. \A k \in i + 1 .. n : f[k] = h[k]
        <5>1. TAKE k \in i + 1 .. n
        <5>2. k \in 1 .. n /\ k # m
          BY <4>2
        <5>3. QED
          BY <3>5, <5>2
      <4>4. G[<<f, i>>] = G[<<h, i>>]
        BY <3>6, <4>2, <4>3
      <4>5. CASE i = m
        BY <3>5, <4>4, <4>5
      <4>6. CASE i # m
        <5>1. i \in n - j + 1 .. n
          BY <3>1, <3>4, <4>2, <4>6
        <5>2. QED
          BY <3>3, <3>5, <4>2, <4>4, <4>6, <5>1
      <4>7. QED
        BY <4>5, <4>6
    <3>8. QED
      BY <2>3, <3>6, <3>7
  <2>6. QED
    BY <2>4, <2>5
<1>2. Good(n)
  <2> HIDE DEF Good
  <2>1. n <= n
    OBVIOUS
  <2>2. n \notin {k \in Nat : k <= n /\ ~Good(k)}
    BY <1>1, Zenon
  <2>3. QED
    BY <2>1, <2>2
<1>3. n - n + 1 = 1
  OBVIOUS
<1>4. QED
  BY <1>2, <1>3 DEF Solves

\* A set of ids with the property that an id is in it when all younger ones are,
\* is the whole of them.
LEMMA FromAbove ==
  ASSUME NEW n \in Nat, NEW P \in SUBSET (1 .. n),
         \A i \in 1 .. n : (\A j \in i + 1 .. n : j \in P) => i \in P
  PROVE  P = 1 .. n
<1> DEFINE T == {k \in Nat : k < n /\ n - k \notin P}
<1>1. T = {}
  <2>1. SUFFICES ASSUME T # {} PROVE FALSE
    OBVIOUS
  <2>2. PICK l \in T : \A y \in T : ~ (<<y, l>> \in OpToRel(<, Nat))
    <3>1. IsWellFoundedOn(OpToRel(<, Nat), Nat)
      BY NatLessThanWellFounded
    <3>2. T \subseteq Nat
      OBVIOUS
    <3>3. QED
      BY <2>1, <3>1, <3>2, WFMin
  <2>3. \A j \in n - l + 1 .. n : j \in P
    <3>1. TAKE j \in n - l + 1 .. n
    <3>2. n - j \in Nat /\ n - j < l /\ n - j < n /\ n - (n - j) = j
      OBVIOUS
    <3>3. n - j \notin T
      BY <2>2, <3>2 DEF OpToRel
    <3>4. QED
      BY <3>2, <3>3
  <2>4. n - l \in 1 .. n
    OBVIOUS
  <2>5. QED
    BY <2>3, <2>4
<1>2. \A i \in 1 .. n : i \in P
  <2>1. TAKE i \in 1 .. n
  <2>2. n - i \in Nat /\ n - i < n /\ n - (n - i) = i
    OBVIOUS
  <2>3. n - i \notin T
    BY <1>1
  <2>4. QED
    BY <2>2, <2>3
<1>3. QED
  BY <1>2

\* What FallsThrough says of node i, f being what it says of the others.
FallsAt(t, f, i) ==
  CASE t.nodes[i].kind = "SCOPE_OPERATION" ->
         \A j \in ToSet(t.nodes[i].kids) \ Continues(t) : f[j]
    [] t.nodes[i].kind \in {"RETURN_STATEMENT", "BREAK_STATEMENT", "CONTINUE_STATEMENT"} -> FALSE
    [] t.nodes[i].kind = "IF_STATEMENT" ->
         \/ f[t.nodes[i].block]
         \/ t.nodes[i].ifType \notin {"IF_OR", "IF_ELSE"}
         \/ f[t.nodes[i].elseBlock]
    [] OTHER -> TRUE

\* The ids an id's values follow from: those it points to.
LEMMA Younger ==
  ASSUME NEW t, Linked(t), NEW i \in 1 .. Newest(t)
  PROVE  /\ Newest(t) \in Nat /\ DOMAIN t.nodes = 1 .. Newest(t) /\ Links(t, i, t.nodes[i])
         /\ IsSeq(t.nodes[i].kids)
         /\ \A j \in ToSet(t.nodes[i].kids) : j \in i + 1 .. Newest(t)
         /\ \A k \in DOMAIN t.nodes[i].kids : t.nodes[i].kids[k] \in ToSet(t.nodes[i].kids)
<1>1. Newest(t) \in Nat /\ DOMAIN t.nodes = 1 .. Newest(t) /\ Links(t, i, t.nodes[i])
  BY SeqIs DEF Linked, Newest
<1>2. QED
  BY <1>1 DEF Links, ToSet

\* Every if has the operations that go with it.
Complete(t) == \A i \in 1 .. Newest(t) : t.nodes[i].kind = "IF_STATEMENT" =>
                 t.nodes[i].block # 0 /\ (t.nodes[i].ifType = "IF_ELSE" => t.nodes[i].elseBlock # 0)

\* FallsThrough says of every node what follows from the nodes it points to.
LEMMA FallsExists ==
  ASSUME NEW t, Linked(t), Complete(t)
  PROVE  LET f == FallsThrough(t)
         IN f \in [1 .. Newest(t) -> BOOLEAN] /\ \A i \in 1 .. Newest(t) : f[i] = FallsAt(t, f, i)
<1>1. PICK n \in Nat : n = Newest(t) /\ DOMAIN t.nodes = 1 .. n
  BY SeqIs DEF Linked, Newest
<1>2. PICK G : G = [p \in [1 .. n -> BOOLEAN] \X (1 .. n) |-> FallsAt(t, p[1], p[2])]
  OBVIOUS
<1>3. \A f \in [1 .. n -> BOOLEAN] : \A i \in 1 .. n : FallsAt(t, f, i) \in BOOLEAN
  BY DEF FallsAt
<1>4. G \in [[1 .. n -> BOOLEAN] \X (1 .. n) -> BOOLEAN]
  BY <1>2, <1>3
<1>5. \A f \in [1 .. n -> BOOLEAN] : \A i \in 1 .. n : G[<<f, i>>] = FallsAt(t, f, i)
  BY <1>2
<1>6. \A f, g \in [1 .. n -> BOOLEAN] : \A i \in 1 .. n :
        (\A j \in i + 1 .. n : f[j] = g[j]) => FallsAt(t, f, i) = FallsAt(t, g, i)
  <2>1. SUFFICES ASSUME NEW f \in [1 .. n -> BOOLEAN], NEW g \in [1 .. n -> BOOLEAN], NEW i \in 1 .. n,
                        \A j \in i + 1 .. n : f[j] = g[j]
                 PROVE  FallsAt(t, f, i) = FallsAt(t, g, i)
    OBVIOUS
  <2>2. /\ Links(t, i, t.nodes[i])
        /\ \A j \in ToSet(t.nodes[i].kids) : f[j] = g[j]
    BY <1>1, <2>1, Younger
  <2>3. CASE t.nodes[i].kind = "IF_STATEMENT"
    <3>1. t.nodes[i].block \in i + 1 .. n
      BY <1>1, <2>2, <2>3 DEF Complete, Links
    <3>2. t.nodes[i].ifType \in {"IF_OR", "IF_ELSE"} => t.nodes[i].elseBlock \in i + 1 .. n
      BY <1>1, <2>2, <2>3 DEF Complete, Links
    <3>3. f[t.nodes[i].block] = g[t.nodes[i].block]
      BY <2>1, <3>1
    <3>4. t.nodes[i].ifType \in {"IF_OR", "IF_ELSE"} => f[t.nodes[i].elseBlock] = g[t.nodes[i].elseBlock]
      BY <2>1, <3>2
    <3>5. QED
      BY <2>3, <3>3, <3>4 DEF FallsAt
  <2>4. CASE t.nodes[i].kind # "IF_STATEMENT"
    BY <2>2, <2>4 DEF FallsAt
  <2>5. QED
    BY <2>3, <2>4
<1>7. \E f \in [1 .. n -> BOOLEAN] : \A i \in 1 .. n : f[i] = G[<<f, i>>]
  <2>1. PICK V : V = BOOLEAN
    OBVIOUS
  <2>2. TRUE \in V /\ G \in [[1 .. n -> V] \X (1 .. n) -> V]
    BY <1>4, <2>1
  <2>3. \A f, g \in [1 .. n -> V] : \A i \in 1 .. n :
          (\A j \in i + 1 .. n : f[j] = g[j]) => G[<<f, i>>] = G[<<g, i>>]
    <3>1. TAKE f, g \in [1 .. n -> V]
    <3>2. TAKE i \in 1 .. n
    <3>3. HAVE \A j \in i + 1 .. n : f[j] = g[j]
    <3>4. FallsAt(t, f, i) = FallsAt(t, g, i)
      BY <1>6, <2>1, <3>3
    <3>5. QED
      BY <1>5, <2>1, <3>4
  <2>4. LooksAbove(n, V, G)
    BY <2>2, <2>3 DEF LooksAbove
  <2>5. \E f : Solves(n, V, G, f)
    BY <2>2, <2>4, DefinedFromAbove
  <2>6. QED
    BY <2>1, <2>5 DEF Solves
<1>8. PICK f \in [1 .. n -> BOOLEAN] : \A i \in 1 .. n : f[i] = FallsAt(t, f, i)
  BY <1>5, <1>7
<1>9. f = [i \in DOMAIN t.nodes |-> FallsAt(t, f, i)]
  BY <1>1, <1>8
<1>10. FallsThrough(t) = CHOOSE g : g = [i \in DOMAIN t.nodes |-> FallsAt(t, g, i)]
  BY DEF FallsThrough, FallsAt
<1>11. PICK g : g = FallsThrough(t) /\ g = [i \in DOMAIN t.nodes |-> FallsAt(t, g, i)]
  BY <1>9, <1>10, Zenon
<1>12. \A i \in 1 .. n : g[i] = FallsAt(t, g, i)
  BY <1>1, <1>11
<1>13. \A i \in 1 .. n : FallsAt(t, g, i) \in BOOLEAN
  BY DEF FallsAt
<1>14. g \in [1 .. n -> BOOLEAN]
  BY <1>1, <1>11, <1>12, <1>13
<1>15. QED
  BY <1>1, <1>11, <1>12, <1>14

\* What the analysis comes to.
Verdicts == {"falls", "returns"} \cup Stops

\* The first statement of an operation that does not fall through.
IsEnd(t, op, branch, f, k) ==
  LET out(j) == Outcome(t, t.nodes[op].kids[j], branch, f)
  IN /\ k \in DOMAIN t.nodes[op].kids /\ out(k) # "falls"
     /\ \A j \in DOMAIN t.nodes[op].kids : j < k => out(j) = "falls"

\* A set of numbers has a least one.
LEMMA Least ==
  ASSUME NEW K, K \subseteq Nat, K # {}
  PROVE  \E k \in K : \A j \in K : k <= j
<1>1. PICK k \in K : \A j \in K : ~ (<<j, k>> \in OpToRel(<, Nat))
  <2>1. IsWellFoundedOn(OpToRel(<, Nat), Nat)
    BY NatLessThanWellFounded
  <2>2. QED
    BY <2>1, WFMin
<1>2. \A j \in K : k <= j
  <2>1. TAKE j \in K
  <2>2. j \in Nat /\ k \in Nat
    OBVIOUS
  <2>3. ~ (j < k)
    BY <1>1, <2>2 DEF OpToRel
  <2>4. QED
    BY <2>2, <2>3
<1>3. QED
  BY <1>2

\* An operation without statements has no node to start from; one falls through if
\* all of its statements do; else the first that does not says what it comes to.
LEMMA OperationIs ==
  ASSUME NEW t, NEW op, op # 0, NEW branch, NEW f, IsSeq(t.nodes[op].kids)
  PROVE  LET a == AnalyzeOperation(t, op, branch, f)   kids == t.nodes[op].kids
         IN \/ kids = <<>> /\ a = "crash"
            \/ /\ kids # <<>> /\ a = "falls"
               /\ \A j \in DOMAIN kids : Outcome(t, kids[j], branch, f) = "falls"
            \/ /\ kids # <<>>
               /\ \E k : /\ IsEnd(t, op, branch, f, k)
                         /\ a = IF Outcome(t, kids[k], branch, f) = "leaves" THEN "falls"
                                ELSE Outcome(t, kids[k], branch, f)
<1>1. PICK kids : kids = t.nodes[op].kids
  OBVIOUS
<1> DEFINE out(k) == Outcome(t, kids[k], branch, f)
<1>2. PICK outs : outs = {<<k, out(k)>> : k \in DOMAIN kids}
  OBVIOUS
<1>3. PICK ends : ends = {o \in outs : o[2] # "falls"}
  OBVIOUS
<1>4. PICK end : end = (CHOOSE o \in ends : \A p \in ends : o[1] <= p[1])[2]
  OBVIOUS
<1>5. AnalyzeOperation(t, op, branch, f) =
        CASE op = 0 -> "crash"
          [] op # 0 /\ kids = <<>> -> "crash"
          [] op # 0 /\ kids # <<>> /\ ends = {} -> "falls"
          [] op # 0 /\ kids # <<>> /\ ends # {} -> IF end = "leaves" THEN "falls" ELSE end
  BY <1>1, <1>2, <1>3, <1>4 DEF AnalyzeOperation
<1>6. CASE kids = <<>>
  BY <1>1, <1>5, <1>6
<1>7. CASE kids # <<>> /\ ends = {}
  <2>1. \A j \in DOMAIN kids : out(j) = "falls"
    <3>1. TAKE j \in DOMAIN kids
    <3>2. <<j, out(j)>> \in outs /\ <<j, out(j)>>[2] = out(j)
      BY <1>2
    <3>3. QED
      BY <1>3, <1>7, <3>2
  <2>2. AnalyzeOperation(t, op, branch, f) = "falls"
    BY <1>5, <1>7
  <2>3. QED
    BY <1>1, <1>7, <2>1, <2>2
<1>8. CASE kids # <<>> /\ ends # {}
  <2>1. \A o \in ends : o = <<o[1], out(o[1])>> /\ o[1] \in DOMAIN kids /\ o[2] = out(o[1]) /\ out(o[1]) # "falls"
    BY <1>2, <1>3
  <2>2. DOMAIN kids \subseteq Nat
    BY <1>1, SeqIs
  <2>3. PICK o \in ends : \A p \in ends : o[1] <= p[1]
    <3>1. {p[1] : p \in ends} \subseteq Nat /\ {p[1] : p \in ends} # {}
      BY <1>8, <2>1, <2>2
    <3>2. PICK k \in {p[1] : p \in ends} : \A j \in {p[1] : p \in ends} : k <= j
      BY <3>1, Least
    <3>3. QED
      BY <3>2
  <2>4. PICK e : e = CHOOSE o_1 \in ends : \A p \in ends : o_1[1] <= p[1]
    OBVIOUS
  <2>5. e \in ends /\ \A p \in ends : e[1] <= p[1]
    BY <2>3, <2>4, Zenon
  <2>6. PICK k : k = e[1]
    OBVIOUS
  <2>7. k \in DOMAIN kids /\ out(k) # "falls" /\ end = out(k)
    BY <1>4, <2>1, <2>4, <2>5, <2>6
  <2>8. \A j \in DOMAIN kids : j < k => out(j) = "falls"
    <3>1. TAKE j \in DOMAIN kids
    <3>2. HAVE j < k
    <3>3. SUFFICES ASSUME out(j) # "falls" PROVE FALSE
      OBVIOUS
    <3>4. <<j, out(j)>> \in ends /\ <<j, out(j)>>[1] = j
      BY <1>2, <1>3, <3>3
    <3>5. k <= j /\ k \in Nat /\ j \in Nat
      BY <2>2, <2>5, <2>6, <2>7, <3>4
    <3>6. QED
      BY <3>2, <3>5
  <2>9. IsEnd(t, op, branch, f, k)
    BY <1>1, <2>7, <2>8 DEF IsEnd
  <2>10. AnalyzeOperation(t, op, branch, f) = IF out(k) = "leaves" THEN "falls" ELSE out(k)
    BY <1>5, <1>8, <2>7
  <2>11. QED
    BY <1>1, <1>8, <2>9, <2>10
<1>9. QED
  BY <1>6, <1>7, <1>8

\* What Analysis says of node i, f being what it says of the others.
AnalysisAt(t, f, i) ==
  IF t.nodes[i].kind = "IF_STATEMENT" THEN AnalyzeIf(t, t.nodes[i], f)
  ELSE AnalyzeOperation(t, t.nodes[i].block, t.nodes[i].kind, f)

\* An operation of the tree has kids, of which the analysis says something.
LEMMA OperationVerdict ==
  ASSUME NEW t, Linked(t), NEW op, op = 0 \/ op \in 1 .. Newest(t), NEW branch,
         NEW f, f \in [1 .. Newest(t) -> Verdicts]
  PROVE  AnalyzeOperation(t, op, branch, f) \in Verdicts
<1>1. CASE op = 0
  BY <1>1 DEF AnalyzeOperation, Verdicts, Stops
<1>2. CASE op \in 1 .. Newest(t) /\ op # 0
  <2>1. /\ IsSeq(t.nodes[op].kids)
        /\ \A k \in DOMAIN t.nodes[op].kids : t.nodes[op].kids[k] \in 1 .. Newest(t)
    BY <1>2, Younger
  <2>2. \A k \in DOMAIN t.nodes[op].kids :
          Outcome(t, t.nodes[op].kids[k], branch, f) \in Verdicts \cup {"leaves"}
    BY <2>1 DEF Outcome, Verdicts, Stops
  <2>3. PICK a : a = AnalyzeOperation(t, op, branch, f)
    OBVIOUS
  <2>4. {"crash", "falls"} \subseteq Verdicts /\ "leaves" \notin Verdicts
    BY DEF Verdicts, Stops
  <2>5. \/ a \in {"crash", "falls"}
        \/ \E k : /\ IsEnd(t, op, branch, f, k)
                  /\ a = IF Outcome(t, t.nodes[op].kids[k], branch, f) = "leaves" THEN "falls"
                         ELSE Outcome(t, t.nodes[op].kids[k], branch, f)
    BY <1>2, <2>1, <2>3, OperationIs
  <2>6. QED
    BY <2>2, <2>3, <2>4, <2>5 DEF IsEnd
<1>3. QED
  BY <1>1, <1>2, Younger

LEMMA AnalysisVerdict ==
  ASSUME NEW t, Linked(t), NEW i \in 1 .. Newest(t), NEW f, f \in [1 .. Newest(t) -> Verdicts]
  PROVE  AnalysisAt(t, f, i) \in Verdicts
<1>1. /\ Links(t, i, t.nodes[i])
      /\ t.nodes[i].block = 0 \/ t.nodes[i].block \in 1 .. Newest(t)
      /\ t.nodes[i].elseBlock = 0 \/ t.nodes[i].elseBlock \in 1 .. Newest(t)
  BY Younger DEF Links
<1>2. AnalyzeOperation(t, t.nodes[i].block, t.nodes[i].kind, f) \in Verdicts
  BY <1>1, OperationVerdict
<1>3. AnalyzeOperation(t, t.nodes[i].elseBlock, t.nodes[i].kind, f) \in Verdicts
  BY <1>1, OperationVerdict
<1>4. t.nodes[i].ifType = "IF_OR" => f[t.nodes[i].elseBlock] \in Verdicts
  BY <1>1 DEF Links
<1>5. \A a, b \in Verdicts : Joined(a, b) \in Verdicts
  BY DEF Joined, Verdicts, Stops
<1>6. t.nodes[i].kind = "IF_STATEMENT" => AnalyzeIf(t, t.nodes[i], f) \in Verdicts
  <2>1. "falls" \in Verdicts
    BY DEF Verdicts
  <2>2. CASE t.nodes[i].ifType = "IF_OR"
    BY <1>2, <1>4, <1>5, <2>2 DEF AnalyzeIf
  <2>3. CASE t.nodes[i].ifType = "IF_ELSE"
    BY <1>2, <1>3, <1>5, <2>3 DEF AnalyzeIf
  <2>4. CASE t.nodes[i].ifType \notin {"IF_OR", "IF_ELSE"}
    BY <1>2, <1>5, <2>1, <2>4 DEF AnalyzeIf
  <2>5. QED
    BY <2>2, <2>3, <2>4
<1>7. QED
  BY <1>2, <1>6 DEF AnalysisAt

\* What is said of an operation follows from what is said of its statements.
LEMMA OperationLooksAbove ==
  ASSUME NEW t, Linked(t), NEW op, op = 0 \/ op \in 1 .. Newest(t), NEW branch, NEW f, NEW g,
         \A j \in 1 .. Newest(t) : j > op => f[j] = g[j]
  PROVE  AnalyzeOperation(t, op, branch, f) = AnalyzeOperation(t, op, branch, g)
<1>1. CASE op = 0
  BY <1>1 DEF AnalyzeOperation
<1>2. CASE op \in 1 .. Newest(t) /\ op # 0
  <2>1. PICK kids : kids = t.nodes[op].kids
    OBVIOUS
  <2>2. \A k \in DOMAIN kids : kids[k] \in 1 .. Newest(t) /\ kids[k] > op
    BY <1>2, <2>1, Younger
  <2>3. \A k \in DOMAIN kids : Outcome(t, kids[k], branch, f) = Outcome(t, kids[k], branch, g)
    <3>1. TAKE k \in DOMAIN kids
    <3>2. f[kids[k]] = g[kids[k]]
      BY <2>2
    <3>3. QED
      BY <3>2 DEF Outcome
  <2>4. {<<k, Outcome(t, kids[k], branch, f)>> : k \in DOMAIN kids}
          = {<<k, Outcome(t, kids[k], branch, g)>> : k \in DOMAIN kids}
    BY <2>3
  <2>5. QED
    BY <2>1, <2>4 DEF AnalyzeOperation
<1>3. QED
  BY <1>1, <1>2, Younger

\* The analysis says of every node what follows from the nodes it points to.
LEMMA AnalysisExists ==
  ASSUME NEW t, Linked(t)
  PROVE  LET f == Analysis(t)
         IN f \in [1 .. Newest(t) -> Verdicts] /\ \A i \in 1 .. Newest(t) : f[i] = AnalysisAt(t, f, i)
<1>1. PICK n \in Nat : n = Newest(t) /\ DOMAIN t.nodes = 1 .. n
  BY SeqIs DEF Linked, Newest
<1>2. PICK V : V = Verdicts
  OBVIOUS
<1>3. PICK G : G = [p \in [1 .. n -> V] \X (1 .. n) |-> AnalysisAt(t, p[1], p[2])]
  OBVIOUS
<1>4. \A f \in [1 .. n -> V] : \A i \in 1 .. n : AnalysisAt(t, f, i) \in V
  BY <1>1, <1>2, AnalysisVerdict
<1>5. \A f \in [1 .. n -> V] : \A i \in 1 .. n : G[<<f, i>>] = AnalysisAt(t, f, i)
  BY <1>3
<1>6. G \in [[1 .. n -> V] \X (1 .. n) -> V]
  BY <1>3, <1>4
<1>7. \A f, g : \A i \in 1 .. n :
        (\A j \in i + 1 .. n : f[j] = g[j]) => AnalysisAt(t, f, i) = AnalysisAt(t, g, i)
  <2>1. TAKE f, g
  <2>2. TAKE i \in 1 .. n
  <2>3. HAVE \A j \in i + 1 .. n : f[j] = g[j]
  <2>4. PICK m : m = t.nodes[i]
    OBVIOUS
  <2>5. /\ Links(t, i, m)
        /\ m.block # 0 => m.block \in 1 .. n /\ m.block > i
        /\ m.elseBlock # 0 => m.elseBlock \in 1 .. n /\ m.elseBlock > i
    <3>1. Links(t, i, m)
      BY <1>1, <2>4, Younger
    <3>2. i + 1 .. Newest(t) \subseteq {j \in 1 .. n : j > i}
      BY <1>1
    <3>3. QED
      BY <3>1, <3>2 DEF Links
  <2>6. \A op : op \in 1 .. n /\ op > i =>
          AnalyzeOperation(t, op, m.kind, f) = AnalyzeOperation(t, op, m.kind, g)
    <3>1. TAKE op
    <3>2. HAVE op \in 1 .. n /\ op > i
    <3>3. \A j \in 1 .. Newest(t) : j > op => f[j] = g[j]
      BY <1>1, <2>3, <3>2
    <3>4. QED
      BY <1>1, <3>2, <3>3, OperationLooksAbove
  <2>7. AnalyzeOperation(t, 0, m.kind, f) = AnalyzeOperation(t, 0, m.kind, g)
    BY DEF AnalyzeOperation
  <2>8. AnalyzeOperation(t, m.block, m.kind, f) = AnalyzeOperation(t, m.block, m.kind, g)
    BY <2>5, <2>6, <2>7
  <2>9. AnalyzeOperation(t, m.elseBlock, m.kind, f) = AnalyzeOperation(t, m.elseBlock, m.kind, g)
    BY <2>5, <2>6, <2>7
  <2>10. m.ifType = "IF_OR" => f[m.elseBlock] = g[m.elseBlock]
    <3>1. m.ifType = "IF_OR" => m.elseBlock \in i + 1 .. n
      BY <2>5 DEF Links
    <3>2. QED
      BY <2>3, <3>1
  <2>11. AnalyzeIf(t, m, f) = AnalyzeIf(t, m, g)
    BY <2>8, <2>9, <2>10 DEF AnalyzeIf
  <2>12. AnalysisAt(t, f, i) = AnalysisAt(t, g, i)
    BY <2>4, <2>8, <2>11 DEF AnalysisAt
  <2>13. QED
    BY <2>12
<1>8. PICK f \in [1 .. n -> V] : \A i \in 1 .. n : f[i] = AnalysisAt(t, f, i)
  <2>1. "falls" \in V
    BY <1>2 DEF Verdicts
  <2>2. LooksAbove(n, V, G)
    BY <1>5, <1>6, <1>7 DEF LooksAbove
  <2>3. \E f : Solves(n, V, G, f)
    BY <2>1, <2>2, DefinedFromAbove
  <2>4. QED
    BY <1>5, <2>3 DEF Solves
<1>9. f = [i \in DOMAIN t.nodes |-> AnalysisAt(t, f, i)]
  BY <1>1, <1>8
<1>10. Analysis(t) = CHOOSE g : g = [i \in DOMAIN t.nodes |-> AnalysisAt(t, g, i)]
  BY DEF Analysis, AnalysisAt
<1>11. PICK g : g = Analysis(t) /\ g = [i \in DOMAIN t.nodes |-> AnalysisAt(t, g, i)]
  BY <1>9, <1>10, Zenon
<1>12. \A i \in 1 .. n : g[i] = AnalysisAt(t, g, i)
  BY <1>1, <1>11
<1>13. {i \in 1 .. n : g[i] = f[i]} = 1 .. n
  <2>1. PICK P : P = {i \in 1 .. n : g[i] = f[i]}
    OBVIOUS
  <2>2. \A i \in 1 .. n : (\A j \in i + 1 .. n : j \in P) => i \in P
    <3>1. TAKE i \in 1 .. n
    <3>2. HAVE \A j \in i + 1 .. n : j \in P
    <3>3. \A j \in i + 1 .. n : g[j] = f[j]
      BY <2>1, <3>2
    <3>4. AnalysisAt(t, g, i) = AnalysisAt(t, f, i)
      BY <1>7, <3>3
    <3>5. QED
      BY <1>8, <1>12, <2>1, <3>4
  <2>3. P \in SUBSET (1 .. n)
    BY <2>1
  <2>4. QED
    BY <2>1, <2>2, <2>3, FromAbove
<1>14. g \in [1 .. n -> V]
  <2>1. \A i \in 1 .. n : g[i] \in V
    BY <1>8, <1>13
  <2>2. QED
    BY <1>1, <1>11, <2>1
<1>15. QED
  BY <1>1, <1>2, <1>11, <1>12, <1>14

-----------------------------------------------------------------------------
(* What the analysis says is what the statements say.                      *)

\* Verdict a agrees with w, whether one gets through.
Agrees(t, a, w) == a \notin Stops =>
                     (~w => a = "returns") /\ (Continues(t) = {} /\ a = "returns" => ~w)

\* What the analysis says of node i agrees with what is reached through it.
Right(t, i) ==
  LET a == Analysis(t)   w == FallsThrough(t)[i]
  IN /\ t.nodes[i].kind = "IF_STATEMENT" => Agrees(t, a[i], w)
     /\ t.nodes[i].kind = "SCOPE_OPERATION" =>
          \A branch : branch \notin Loops => Agrees(t, AnalyzeOperation(t, i, branch, a), w)

LEMMA RightOperation ==
  ASSUME NEW t, Linked(t), Complete(t), NEW i \in 1 .. Newest(t), t.nodes[i].kind = "SCOPE_OPERATION",
         \A j \in i + 1 .. Newest(t) : Right(t, j)
  PROVE  Right(t, i)
<1>1. PICK f : f = Analysis(t)
  OBVIOUS
<1>2. PICK g : g = FallsThrough(t) /\ \A j \in 1 .. Newest(t) : g[j] = FallsAt(t, g, j)
  BY FallsExists
<1>3. PICK kids : kids = t.nodes[i].kids
  OBVIOUS
<1>4. /\ IsSeq(kids) /\ Links(t, i, t.nodes[i]) /\ Newest(t) \in Nat
      /\ \A k \in DOMAIN kids : kids[k] \in i + 1 .. Newest(t) /\ kids[k] \in ToSet(kids)
  BY <1>3, Younger
<1>5. g[i] = (\A j \in ToSet(kids) \ Continues(t) : g[j])
  BY <1>2, <1>3 DEF FallsAt
<1>6. \A k \in DOMAIN kids : /\ t.nodes[kids[k]].kind # "SCOPE_OPERATION"
                             /\ g[kids[k]] = FallsAt(t, g, kids[k])
                             /\ t.nodes[kids[k]].kind = "IF_STATEMENT" => Agrees(t, f[kids[k]], g[kids[k]])
  <2>1. TAKE k \in DOMAIN kids
  <2>2. t.nodes[kids[k]].kind # "SCOPE_OPERATION"
    BY <1>3, <1>4 DEF Links
  <2>3. kids[k] \in 1 .. Newest(t)
    BY <1>4
  <2>4. Right(t, kids[k])
    BY <1>4
  <2>5. QED
    BY <1>1, <1>2, <2>2, <2>3, <2>4 DEF Right
<1>7. SUFFICES ASSUME NEW branch, branch \notin Loops
               PROVE  Agrees(t, AnalyzeOperation(t, i, branch, f), g[i])
  BY <1>1, <1>2 DEF Right
<1> DEFINE out(k) == Outcome(t, kids[k], branch, f)
<1>8. PICK a : a = AnalyzeOperation(t, i, branch, f)
  OBVIOUS
<1>9. \A k \in DOMAIN kids : out(k) = "falls" => g[kids[k]]
  <2>1. TAKE k \in DOMAIN kids
  <2>2. HAVE out(k) = "falls"
  <2>3. CASE t.nodes[kids[k]].kind = "IF_STATEMENT"
    <3>1. f[kids[k]] = "falls"
      BY <2>2, <2>3 DEF Outcome
    <3>2. QED
      BY <1>6, <2>3, <3>1 DEF Agrees, Stops
  <2>4. CASE t.nodes[kids[k]].kind # "IF_STATEMENT"
    <3>1. t.nodes[kids[k]].kind \notin {"BREAK_STATEMENT", "CONTINUE_STATEMENT", "RETURN_STATEMENT"}
      BY <2>2 DEF Outcome
    <3>2. QED
      BY <1>6, <2>4, <3>1 DEF FallsAt
  <2>5. QED
    BY <2>3, <2>4
<1>10. \A k \in DOMAIN kids : out(k) = "returns" /\ Continues(t) = {} => ~g[kids[k]]
  <2>1. TAKE k \in DOMAIN kids
  <2>2. HAVE out(k) = "returns" /\ Continues(t) = {}
  <2>3. Continues(t) = {}
    BY <2>2
  <2>4. CASE t.nodes[kids[k]].kind = "IF_STATEMENT"
    <3>1. f[kids[k]] = "returns"
      BY <2>2, <2>4 DEF Outcome
    <3>2. QED
      BY <1>6, <2>3, <2>4, <3>1 DEF Agrees, Stops
  <2>5. CASE t.nodes[kids[k]].kind # "IF_STATEMENT"
    <3>1. t.nodes[kids[k]].kind = "RETURN_STATEMENT"
      BY <2>2, <2>5 DEF Outcome, Stops
    <3>2. QED
      BY <1>6, <3>1 DEF FallsAt
  <2>6. QED
    BY <2>4, <2>5
<1>11. \A k \in DOMAIN kids : out(k) # "leaves"
  <2>1. \A v : (IF v \in Stops THEN v ELSE "falls") # "leaves"
    BY DEF Stops
  <2>2. f \in [1 .. Newest(t) -> Verdicts] /\ "leaves" \notin Verdicts
    BY <1>1, AnalysisExists DEF Verdicts, Stops
  <2>3. TAKE k \in DOMAIN kids
  <2>4. f[kids[k]] # "leaves"
    BY <1>4, <2>2
  <2>5. QED
    BY <1>7, <2>1, <2>4 DEF Outcome
<1>12. i # 0 /\ IsSeq(t.nodes[i].kids)
  BY <1>3, <1>4
<1>13. \/ a = "crash"
       \/ a = "falls" /\ \A j \in DOMAIN kids : out(j) = "falls"
       \/ \E k \in DOMAIN kids : out(k) # "falls" /\ a = out(k)
  BY <1>3, <1>8, <1>11, <1>12, OperationIs DEF IsEnd
<1>14. CASE a = "crash"
  BY <1>8, <1>14 DEF Agrees, Stops
<1>15. CASE a = "falls" /\ \A j \in DOMAIN kids : out(j) = "falls"
  <2>1. \A j \in ToSet(kids) : g[j]
    BY <1>9, <1>15 DEF ToSet
  <2>2. g[i]
    BY <1>5, <2>1
  <2>3. QED
    BY <1>8, <1>15, <2>2 DEF Agrees
<1>16. ASSUME NEW k \in DOMAIN kids, out(k) # "falls", a = out(k)
       PROVE  Agrees(t, a, g[i])
  <2>1. a \notin Stops => a = "returns"
    <3>1. f[kids[k]] \in Verdicts
      BY <1>1, <1>4, AnalysisExists
    <3>2. QED
      BY <1>7, <1>16, <3>1 DEF Outcome, Verdicts, Stops
  <2>2. a = "returns" /\ Continues(t) = {} => ~g[i]
    BY <1>4, <1>5, <1>10, <1>16
  <2>3. QED
    BY <2>1, <2>2 DEF Agrees
<1>17. QED
  BY <1>8, <1>13, <1>14, <1>15, <1>16

LEMMA RightIf ==
  ASSUME NEW t, Linked(t), Complete(t), NEW i \in 1 .. Newest(t), t.nodes[i].kind = "IF_STATEMENT",
         \A j \in i + 1 .. Newest(t) : Right(t, j)
  PROVE  Right(t, i)
<1>1. PICK f : f = Analysis(t) /\ f[i] = AnalysisAt(t, f, i) /\ f \in [1 .. Newest(t) -> Verdicts]
  BY AnalysisExists
<1>2. PICK g : g = FallsThrough(t) /\ g[i] = FallsAt(t, g, i)
  BY FallsExists
<1>3. PICK n : n = t.nodes[i]
  OBVIOUS
<1>4. Links(t, i, n) /\ n.kind = "IF_STATEMENT" /\ n.kind \notin Loops
  BY <1>3, Younger DEF Loops
<1>5. PICK first : first = AnalyzeOperation(t, n.block, n.kind, f)
  OBVIOUS
<1>6. Agrees(t, first, g[n.block])
  <2>1. n.block \in i + 1 .. Newest(t) /\ t.nodes[n.block].kind = "SCOPE_OPERATION"
    BY <1>3, <1>4 DEF Complete, Links
  <2>2. Right(t, n.block)
    BY <2>1
  <2>3. QED
    BY <1>1, <1>2, <1>4, <1>5, <2>1, <2>2 DEF Right
<1>7. PICK second : second = CASE n.ifType = "IF_OR"   -> f[n.elseBlock]
                               [] n.ifType = "IF_ELSE" -> AnalyzeOperation(t, n.elseBlock, n.kind, f)
                               [] OTHER                -> "falls"
  OBVIOUS
<1>8. n.ifType \in {"IF_OR", "IF_ELSE"} => Agrees(t, second, g[n.elseBlock])
  <2>1. CASE n.ifType = "IF_OR"
    <3>1. n.elseBlock \in i + 1 .. Newest(t) /\ t.nodes[n.elseBlock].kind = "IF_STATEMENT"
      BY <1>4, <2>1 DEF Links
    <3>2. Right(t, n.elseBlock)
      BY <3>1
    <3>3. QED
      BY <1>1, <1>2, <1>7, <2>1, <3>1, <3>2 DEF Right
  <2>2. CASE n.ifType = "IF_ELSE"
    <3>1. n.elseBlock \in i + 1 .. Newest(t) /\ t.nodes[n.elseBlock].kind = "SCOPE_OPERATION"
      BY <1>3, <1>4, <2>2 DEF Complete, Links
    <3>2. Right(t, n.elseBlock)
      BY <3>1
    <3>3. second = AnalyzeOperation(t, n.elseBlock, n.kind, f)
      BY <1>7, <2>2
    <3>4. QED
      BY <1>1, <1>2, <1>4, <3>1, <3>2, <3>3 DEF Right
  <2>3. QED
    BY <2>1, <2>2
<1>9. f[i] = Joined(first, second)
  BY <1>1, <1>3, <1>4, <1>5, <1>7 DEF AnalysisAt, AnalyzeIf
<1>10. g[i] = \/ g[n.block] \/ n.ifType \notin {"IF_OR", "IF_ELSE"} \/ g[n.elseBlock]
  BY <1>2, <1>3, <1>4 DEF FallsAt
<1>11. f[i] \notin Stops => /\ first \notin Stops /\ second \notin Stops
                            /\ f[i] = "returns" <=> first = "returns" /\ second = "returns"
  BY <1>9 DEF Joined, Stops
<1>12. n.ifType \notin {"IF_OR", "IF_ELSE"} => second = "falls"
  BY <1>7
<1>13. Agrees(t, f[i], g[i])
  BY <1>6, <1>8, <1>10, <1>11, <1>12 DEF Agrees
<1>14. QED
  BY <1>1, <1>2, <1>3, <1>4, <1>13 DEF Right

\* For every tree whose ifs are complete, and any of its functions, the analysis
\* says "returns" when no way falls through; and where no if is continued with
\* `or`, only then: CFG.c 256 against the meaning of the statements.
THEOREM AnalysisAgrees ==
  ASSUME NEW t, Linked(t), Complete(t), NEW f \in 1 .. Newest(t), t.nodes[f].kind = "DECL_FUNC",
         AnalyzeFunc(t, f) \notin Stops
  PROVE  /\ AllPathsReturn(t, f) => AnalyzeFunc(t, f) = "returns"
         /\ Continues(t) = {} /\ AnalyzeFunc(t, f) = "returns" => AllPathsReturn(t, f)
<1>1. \A i \in 1 .. Newest(t) : Right(t, i)
  <2>1. PICK P : P = {i \in 1 .. Newest(t) : Right(t, i)}
    OBVIOUS
  <2>2. \A i \in 1 .. Newest(t) : (\A j \in i + 1 .. Newest(t) : j \in P) => i \in P
    <3>1. TAKE i \in 1 .. Newest(t)
    <3>2. HAVE \A j \in i + 1 .. Newest(t) : j \in P
    <3>3. \A j \in i + 1 .. Newest(t) : Right(t, j)
      BY <2>1, <3>2
    <3>4. CASE t.nodes[i].kind = "SCOPE_OPERATION"
      BY <2>1, <3>3, <3>4, RightOperation
    <3>5. CASE t.nodes[i].kind = "IF_STATEMENT"
      BY <2>1, <3>3, <3>5, RightIf
    <3>6. CASE t.nodes[i].kind \notin {"SCOPE_OPERATION", "IF_STATEMENT"}
      BY <2>1, <3>6 DEF Right
    <3>7. QED
      BY <3>4, <3>5, <3>6
  <2>3. PICK n \in Nat : n = Newest(t)
    BY SeqIs DEF Linked, Newest
  <2>4. P \in SUBSET (1 .. n) /\ \A i \in 1 .. n : (\A j \in i + 1 .. n : j \in P) => i \in P
    BY <2>1, <2>2, <2>3
  <2>5. P = 1 .. n
    BY <2>4, FromAbove
  <2>6. QED
    BY <2>1, <2>3, <2>5
<1>2. PICK op : op = t.nodes[f].block
  OBVIOUS
<1>3. AnalyzeFunc(t, f) = AnalyzeOperation(t, op, "DECL_FUNC", Analysis(t))
  BY <1>2, AnalysisExists DEF AnalyzeFunc, AnalysisAt
<1>4. op # 0
  BY <1>3 DEF AnalyzeOperation, Stops
<1>5. op \in 1 .. Newest(t) /\ t.nodes[op].kind = "SCOPE_OPERATION"
  BY <1>2, <1>4, Younger DEF Links
<1>6. Agrees(t, AnalyzeFunc(t, f), FallsThrough(t)[op])
  BY <1>1, <1>3, <1>5 DEF Right, Loops
<1>7. QED
  BY <1>2, <1>6 DEF Agrees, AllPathsReturn

-----------------------------------------------------------------------------
(* Where the analysis stops the program.                                   *)

\* The nodes that have operations of their own, and the statements that leave a loop.
Openers == {"DECL_FUNC", "IF_STATEMENT", "WHILE_STATEMENT", "LOOP_STATEMENT"}
Leaves  == {"BREAK_STATEMENT", "CONTINUE_STATEMENT"}

IsOperation(t, o) == o \in 1 .. Newest(t) /\ t.nodes[o].kind = "SCOPE_OPERATION"

\* Operation o belongs to node i.
Owns(t, i, o) == o \in {t.nodes[i].block, t.nodes[i].elseBlock}

\* Every function and every loop has its operation.
Blocks(t) == \A i \in 1 .. Newest(t) :
  t.nodes[i].kind \in {"DECL_FUNC", "WHILE_STATEMENT", "LOOP_STATEMENT"} => t.nodes[i].block # 0

\* What stops the analysis of operation o, which is a branch of this kind.
StopsHere(t, o, branch, how) ==
  \/ how = "crash" /\ t.nodes[o].kids = <<>>
  \/ /\ how = "panic" /\ branch \notin Loops
     /\ \E k \in DOMAIN t.nodes[o].kids : t.nodes[t.nodes[o].kids[k]].kind \in Leaves

StopsAt(t, i, o, how) == /\ t.nodes[i].kind \in Openers /\ IsOperation(t, o) /\ Owns(t, i, o)
                         /\ StopsHere(t, o, t.nodes[i].kind, how)

\* A statement whose own branches stop the program.
StopsBelow(t, i, f, how) == \E j \in i + 1 .. Newest(t) : t.nodes[j].kind \in Openers /\ f[j] = how

LEMMA OperationStops ==
  ASSUME NEW t, Linked(t), NEW op \in 1 .. Newest(t), NEW branch, NEW f,
         NEW how \in Stops, AnalyzeOperation(t, op, branch, f) = how
  PROVE  StopsHere(t, op, branch, how) \/ StopsBelow(t, op, f, how)
<1>1. PICK kids : kids = t.nodes[op].kids
  OBVIOUS
<1>2. IsSeq(kids) /\ op # 0 /\ \A k \in DOMAIN kids : kids[k] \in op + 1 .. Newest(t)
  <2>1. op # 0 /\ Links(t, op, t.nodes[op])
    BY Younger
  <2>2. QED
    BY <1>1, <2>1 DEF Links
<1>3. how \notin {"falls", "leaves", "returns"} /\ how \in {"panic", "crash"}
  BY DEF Stops
<1>4. \/ kids = <<>> /\ how = "crash"
      \/ \E k \in DOMAIN kids : Outcome(t, kids[k], branch, f) = how
  <2>1. PICK a : a = AnalyzeOperation(t, op, branch, f)
    OBVIOUS
  <2>2. \/ kids = <<>> /\ a = "crash"
        \/ a = "falls"
        \/ \E k : /\ IsEnd(t, op, branch, f, k)
                  /\ a = IF Outcome(t, kids[k], branch, f) = "leaves" THEN "falls"
                         ELSE Outcome(t, kids[k], branch, f)
    BY <1>1, <1>2, <2>1, OperationIs
  <2>3. a = how
    BY <2>1
  <2>4. QED
    BY <1>1, <1>3, <2>2, <2>3 DEF IsEnd
<1>5. CASE kids = <<>> /\ how = "crash"
  BY <1>1, <1>5 DEF StopsHere
<1>6. ASSUME NEW k \in DOMAIN kids, Outcome(t, kids[k], branch, f) = how
      PROVE  StopsHere(t, op, branch, how) \/ StopsBelow(t, op, f, how)
  <2>1. PICK j : j = kids[k] /\ j \in op + 1 .. Newest(t)
    BY <1>2
  <2>2. PICK kind : kind = t.nodes[j].kind
    OBVIOUS
  <2>3. how = CASE kind \in Leaves -> IF branch \in Loops THEN "leaves" ELSE "panic"
                [] kind = "RETURN_STATEMENT" -> "returns"
                [] kind = "IF_STATEMENT"     -> f[j]
                [] kind \in {"WHILE_STATEMENT", "LOOP_STATEMENT"} -> IF f[j] \in Stops THEN f[j] ELSE "falls"
                [] OTHER -> "falls"
    BY <1>6, <2>1, <2>2 DEF Outcome, Leaves
  <2>4. \/ kind \in Leaves /\ branch \notin Loops /\ how = "panic"
        \/ kind \in {"IF_STATEMENT", "WHILE_STATEMENT", "LOOP_STATEMENT"} /\ f[j] = how
    BY <1>3, <2>3 DEF Leaves
  <2>5. CASE kind \in Leaves /\ branch \notin Loops /\ how = "panic"
    BY <1>1, <1>6, <2>1, <2>2, <2>5 DEF StopsHere
  <2>6. CASE kind \in {"IF_STATEMENT", "WHILE_STATEMENT", "LOOP_STATEMENT"} /\ f[j] = how
    BY <2>1, <2>2, <2>6 DEF StopsBelow, Openers
  <2>7. QED
    BY <2>4, <2>5, <2>6
<1>7. QED
  BY <1>4, <1>5, <1>6

LEMMA NodeStops ==
  ASSUME NEW t, Linked(t), Complete(t), Blocks(t), NEW i \in 1 .. Newest(t), t.nodes[i].kind \in Openers,
         NEW f, NEW how \in Stops, f[i] = AnalysisAt(t, f, i), f[i] = how
  PROVE  (\E o : StopsAt(t, i, o, how)) \/ StopsBelow(t, i, f, how)
<1>1. PICK n : n = t.nodes[i]
  OBVIOUS
<1>2. /\ Links(t, i, n) /\ n.block # 0 /\ (n.ifType = "IF_ELSE" => n.elseBlock # 0)
      /\ n.block \in i + 1 .. Newest(t) /\ t.nodes[n.block].kind = "SCOPE_OPERATION"
  <2>1. Links(t, i, n)
    BY <1>1, Younger
  <2>2. n.block # 0 /\ (n.ifType = "IF_ELSE" => n.elseBlock # 0)
    BY <1>1, <2>1 DEF Complete, Blocks, Openers, Links
  <2>3. QED
    BY <2>1, <2>2 DEF Links
<1>3. i \in Nat /\ Newest(t) \in Nat
  BY Younger
<1>4. ASSUME NEW o \in i + 1 .. Newest(t), t.nodes[o].kind = "SCOPE_OPERATION", Owns(t, i, o),
             AnalyzeOperation(t, o, n.kind, f) = how
      PROVE  (\E o_1 : StopsAt(t, i, o_1, how)) \/ StopsBelow(t, i, f, how)
  <2>1. o \in 1 .. Newest(t) /\ IsOperation(t, o)
    BY <1>3, <1>4 DEF IsOperation
  <2>2. StopsHere(t, o, n.kind, how) \/ StopsBelow(t, o, f, how)
    BY <1>4, <2>1, OperationStops
  <2>3. CASE StopsHere(t, o, n.kind, how)
    BY <1>1, <1>4, <2>1, <2>3 DEF StopsAt
  <2>4. CASE StopsBelow(t, o, f, how)
    <3>1. o + 1 .. Newest(t) \subseteq i + 1 .. Newest(t)
      BY <1>3, <1>4
    <3>2. QED
      BY <2>4, <3>1 DEF StopsBelow
  <2>5. QED
    BY <2>2, <2>3, <2>4
<1>5. CASE n.kind # "IF_STATEMENT"
  <2>1. AnalyzeOperation(t, n.block, n.kind, f) = how
    BY <1>1, <1>5 DEF AnalysisAt
  <2>2. QED
    BY <1>1, <1>2, <1>4, <2>1 DEF Owns
<1>6. CASE n.kind = "IF_STATEMENT"
  <2>1. PICK first : first = AnalyzeOperation(t, n.block, n.kind, f)
    OBVIOUS
  <2>2. PICK second : second = CASE n.ifType = "IF_OR"   -> f[n.elseBlock]
                                 [] n.ifType = "IF_ELSE" -> AnalyzeOperation(t, n.elseBlock, n.kind, f)
                                 [] OTHER                -> "falls"
    OBVIOUS
  <2>3. how = Joined(first, second)
    BY <1>1, <1>6, <2>1, <2>2 DEF AnalysisAt, AnalyzeIf
  <2>4. first = how \/ second = how
    BY <2>3 DEF Joined, Stops
  <2>5. CASE first = how
    BY <1>1, <1>2, <1>4, <2>1, <2>5 DEF Owns
  <2>6. CASE second = how
    <3>1. how # "falls"
      BY DEF Stops
    <3>2. CASE n.ifType = "IF_OR"
      <4>1. n.elseBlock \in i + 1 .. Newest(t) /\ t.nodes[n.elseBlock].kind = "IF_STATEMENT"
        BY <1>2, <3>2 DEF Links
      <4>2. f[n.elseBlock] = how
        BY <2>2, <2>6, <3>2
      <4>3. QED
        BY <4>1, <4>2 DEF StopsBelow, Openers
    <3>3. CASE n.ifType = "IF_ELSE"
      <4>1. n.elseBlock \in i + 1 .. Newest(t) /\ t.nodes[n.elseBlock].kind = "SCOPE_OPERATION"
        BY <1>2, <3>3 DEF Links
      <4>2. AnalyzeOperation(t, n.elseBlock, n.kind, f) = how
        BY <2>2, <2>6, <3>3
      <4>3. QED
        BY <1>1, <1>4, <4>1, <4>2 DEF Owns
    <3>4. QED
      BY <2>2, <2>6, <3>1, <3>2, <3>3
  <2>7. QED
    BY <2>4, <2>5, <2>6
<1>7. QED
  BY <1>5, <1>6

\* In a tree whose functions, loops and ifs have their operations, the analysis stops
\* the program at nothing but an operation without statements, and a break or a
\* continue in one that is not a loop's: CFG.c 183 and 222.
THEOREM AnalysisStops ==
  ASSUME NEW t, Linked(t), Complete(t), Blocks(t), NEW f \in 1 .. Newest(t),
         t.nodes[f].kind = "DECL_FUNC", NEW how \in Stops, AnalyzeFunc(t, f) = how
  PROVE  \E i \in 1 .. Newest(t) : \E o : StopsAt(t, i, o, how)
<1> SUFFICES ASSUME \A i \in 1 .. Newest(t) : \A o : ~StopsAt(t, i, o, how) PROVE FALSE
  OBVIOUS
<1>1. PICK g : /\ g = Analysis(t)
               /\ \A i \in 1 .. Newest(t) : g[i] = AnalysisAt(t, g, i)
  BY AnalysisExists
<1>2. PICK P : P = {i \in 1 .. Newest(t) : t.nodes[i].kind \in Openers => g[i] # how}
  OBVIOUS
<1>3. \A i \in 1 .. Newest(t) : (\A j \in i + 1 .. Newest(t) : j \in P) => i \in P
  <2>1. TAKE i \in 1 .. Newest(t)
  <2>2. HAVE \A j \in i + 1 .. Newest(t) : j \in P
  <2>3. SUFFICES ASSUME t.nodes[i].kind \in Openers, g[i] = how PROVE FALSE
    BY <1>2
  <2>4. StopsBelow(t, i, g, how)
    BY <1>1, <2>3, NodeStops
  <2>5. QED
    BY <1>2, <2>2, <2>4 DEF StopsBelow
<1>4. PICK n \in Nat : n = Newest(t)
  BY SeqIs DEF Linked, Newest
<1>5. P = 1 .. n
  <2>1. P \in SUBSET (1 .. n) /\ \A i \in 1 .. n : (\A j \in i + 1 .. n : j \in P) => i \in P
    BY <1>2, <1>3, <1>4
  <2>2. QED
    BY <2>1, FromAbove
<1>6. QED
  BY <1>1, <1>2, <1>4, <1>5 DEF AnalyzeFunc, Openers

=============================================================================
