--------------------------- MODULE FrontEndProofs ---------------------------
(***************************************************************************)
(* Proofs about FrontEnd for texts of every length, any lines.             *)
(***************************************************************************)
EXTENDS FrontEnd, SyntaxTreeProofs

-----------------------------------------------------------------------------
(* The lexer's stack and tokens.                                           *)

Rising(s) == \A i, j \in DOMAIN s : i < j => s[i] < s[j]

\* A stack of levels of indentation.
Levels(s) == IsSeq(s) /\ (\A i \in DOMAIN s : s[i] \in 1 .. Address) /\ Rising(s)

AToken(k) == /\ k.data \in 0 .. Address
             /\ k.tok \in {"INDENT", "DEDENT", "STATEMENT", "EOL", "EOF"}

Tokens(s) == IsSeq(s) /\ \A i \in DOMAIN s : AToken(s[i])

LexFields == {"at", "indented", "stack", "toks", "reading"}
LexOK(x)  == /\ x = [k \in LexFields |-> x[k]]
             /\ x.at \in {"fresh", "again", "inside", "end"}
             /\ x.indented \in BOOLEAN /\ x.reading \in BOOLEAN
             /\ Levels(x.stack) /\ Tokens(x.toks)
             /\ x.reading => x.toks = <<>>

LEMMA NoneSeq == IsSeq(<<>>) /\ DOMAIN <<>> = {} /\ Len(<<>>) = 0
<1>1. <<>> \in Seq({})
  OBVIOUS
<1>2. Len(<<>>) = 0
  OBVIOUS
<1>3. IsSeq(<<>>)
  BY <1>1 DEF IsSeq
<1>4. DOMAIN <<>> = 1 .. 0
  BY <1>2, <1>3, SeqIs
<1>5. QED
  BY <1>2, <1>3, <1>4

LEMMA OneSeq ==
  ASSUME NEW x
  PROVE  IsSeq(<<x>>) /\ DOMAIN <<x>> = {1} /\ Len(<<x>>) = 1 /\ <<x>>[1] = x
<1>1. <<x>> \in Seq({x}) /\ DOMAIN <<x>> = {1} /\ Len(<<x>>) = 1 /\ <<x>>[1] = x
  OBVIOUS
<1>2. QED
  BY <1>1 DEF IsSeq

LEMMA TwoSeq ==
  ASSUME NEW x, NEW y
  PROVE  /\ IsSeq(<<x, y>>) /\ DOMAIN <<x, y>> = {1, 2} /\ Len(<<x, y>>) = 2
         /\ <<x, y>>[1] = x /\ <<x, y>>[2] = y
<1>1. <<x, y>> \in Seq({x, y}) /\ DOMAIN <<x, y>> = 1 .. 2 /\ Len(<<x, y>>) = 2
  OBVIOUS
<1>2. <<x, y>>[1] = x /\ <<x, y>>[2] = y
  OBVIOUS
<1>3. 1 .. 2 = {1, 2}
  OBVIOUS
<1>4. IsSeq(<<x, y>>)
  BY <1>1 DEF IsSeq
<1>5. QED
  BY <1>1, <1>2, <1>3, <1>4

\* A sequence made of two.
LEMMA SeqJoined ==
  ASSUME NEW s, NEW r, IsSeq(s), IsSeq(r)
  PROVE  /\ IsSeq(s \o r) /\ Len(s \o r) = Len(s) + Len(r)
         /\ DOMAIN (s \o r) = 1 .. Len(s) + Len(r)
         /\ \A i \in 1 .. Len(s) : (s \o r)[i] = s[i]
         /\ \A i \in 1 .. Len(r) : (s \o r)[Len(s) + i] = r[i]
<1>1. PICK S : s \in Seq(S)
  BY DEF IsSeq
<1>2. PICK R : r \in Seq(R)
  BY DEF IsSeq
<1>3. PICK T : s \in Seq(T) /\ r \in Seq(T)
  <2>1. s \in Seq(S \cup R) /\ r \in Seq(S \cup R)
    BY <1>1, <1>2
  <2>2. QED
    BY <2>1
<1>4. s \o r \in Seq(T) /\ Len(s \o r) = Len(s) + Len(r)
  BY <1>3
<1>5. Len(s) \in Nat /\ Len(r) \in Nat
  BY <1>3
<1>6. \A i \in 1 .. Len(s) + Len(r) : (s \o r)[i] = IF i <= Len(s) THEN s[i] ELSE r[i - Len(s)]
  BY <1>3
<1>7. \A i \in 1 .. Len(r) : (s \o r)[Len(s) + i] = r[i]
  <2>1. TAKE i \in 1 .. Len(r)
  <2>2. Len(s) + i \in 1 .. Len(s) + Len(r) /\ ~ (Len(s) + i <= Len(s)) /\ Len(s) + i - Len(s) = i
    BY <1>5
  <2>3. QED
    BY <1>6, <2>2
<1>8. \A i \in 1 .. Len(s) : (s \o r)[i] = s[i]
  <2>1. TAKE i \in 1 .. Len(s)
  <2>2. i \in 1 .. Len(s) + Len(r) /\ i <= Len(s)
    BY <1>5
  <2>3. QED
    BY <1>6, <2>2
<1>9. IsSeq(s \o r) /\ DOMAIN (s \o r) = 1 .. Len(s) + Len(r)
  BY <1>4 DEF IsSeq
<1>10. QED
  BY <1>4, <1>7, <1>8, <1>9

\* The beginning and the end of a sequence.
LEMMA SeqPart ==
  ASSUME NEW s, IsSeq(s), NEW m \in 1 .. Len(s) + 1, NEW n \in m - 1 .. Len(s)
  PROVE  /\ IsSeq(SubSeq(s, m, n)) /\ Len(SubSeq(s, m, n)) = n - m + 1
         /\ DOMAIN SubSeq(s, m, n) = 1 .. n - m + 1
         /\ \A i \in 1 .. n - m + 1 : SubSeq(s, m, n)[i] = s[m + i - 1]
<1>1. PICK S : s \in Seq(S)
  BY DEF IsSeq
<1>2. Len(s) \in Nat /\ m \in Int /\ n \in Int
  BY <1>1
<1>3. \A i \in m .. n : s[i] \in S
  BY <1>1, <1>2
<1>4. PICK r : r = SubSeq(s, m, n)
  OBVIOUS
<1>5. /\ r \in Seq(S) /\ Len(r) = IF m <= n THEN n - m + 1 ELSE 0
      /\ \A i \in 1 .. n - m + 1 : r[i] = s[m + i - 1]
  BY <1>2, <1>3, <1>4, SubSeqProperties
<1>6. Len(r) = n - m + 1
  BY <1>2, <1>5
<1>7. IsSeq(r) /\ DOMAIN r = 1 .. Len(r)
  BY <1>5 DEF IsSeq
<1>8. QED
  BY <1>4, <1>5, <1>6, <1>7

\* A set of numbers that are not too large has a greatest one.
LEMMA Greatest ==
  ASSUME NEW n \in Nat, NEW K, K \subseteq 0 .. n, K # {}
  PROVE  Max(K) \in K /\ \A j \in K : j <= Max(K)
<1>1. PICK L : L = {n - k : k \in K}
  OBVIOUS
<1>2. L \subseteq Nat /\ L # {}
  <2>1. \A k \in K : n - k \in Nat
    OBVIOUS
  <2>2. QED
    BY <1>1, <2>1
<1>3. PICK l \in L : \A j \in L : l <= j
  BY <1>2, Least
<1>4. PICK k \in K : l = n - k
  BY <1>1, <1>3
<1>5. \A j \in K : k >= j
  <2>1. TAKE j \in K
  <2>2. n - j \in L
    BY <1>1
  <2>3. n - k <= n - j /\ k \in 0 .. n /\ j \in 0 .. n
    BY <1>3, <1>4, <2>2
  <2>4. QED
    BY <2>3
<1>6. PICK x : x = Max(K) /\ x \in K /\ \A j \in K : x >= j
  BY <1>5, Zenon DEF Max
<1>7. \A j \in K : j <= x
  BY <1>6
<1>8. QED
  BY <1>6, <1>7

\* Closing levels leaves those that are not above the indentation of the line.
LEMMA KeptIs ==
  ASSUME NEW s, Levels(s), NEW ind \in 0 .. Address
  PROVE  LET r == Kept(s, ind)
         IN /\ Levels(r) /\ Len(r) \in 0 .. Len(s) /\ DOMAIN r = 1 .. Len(r)
            /\ \A k \in 1 .. Len(r) : r[k] = s[k] /\ s[k] <= ind
            /\ \A k \in Len(r) + 1 .. Len(s) : s[k] > ind
<1>1. PICK n \in Nat : n = Len(s) /\ DOMAIN s = 1 .. n
  BY SeqIs DEF Levels
<1>2. PICK K : K = {0} \cup {k \in DOMAIN s : s[k] <= ind}
  OBVIOUS
<1>3. PICK m : m = Max(K) /\ m \in K /\ \A j \in K : j <= m
  <2>1. K \subseteq 0 .. n /\ K # {}
    BY <1>1, <1>2
  <2>2. QED
    BY <2>1, Greatest
<1>4. m \in 0 .. n
  BY <1>1, <1>2, <1>3
<1>5. PICK r : r = SubSeq(s, 1, m)
  OBVIOUS
<1>6. /\ IsSeq(r) /\ Len(r) = m /\ DOMAIN r = 1 .. m /\ \A i \in 1 .. m : r[i] = s[i]
  <2>1. /\ IsSeq(r) /\ Len(r) = m - 1 + 1 /\ DOMAIN r = 1 .. m - 1 + 1
        /\ \A i \in 1 .. m - 1 + 1 : r[i] = s[1 + i - 1]
    <3>1. IsSeq(s) /\ 1 \in 1 .. Len(s) + 1 /\ m \in 1 - 1 .. Len(s)
      BY <1>1, <1>4 DEF Levels
    <3>2. QED
      BY <1>5, <3>1, SeqPart
  <2>2. m - 1 + 1 = m /\ \A i \in 1 .. m : 1 + i - 1 = i
    BY <1>4
  <2>3. QED
    BY <2>1, <2>2
<1>7. \A k \in 1 .. m : s[k] <= ind
  <2>1. TAKE k \in 1 .. m
  <2>2. m # 0 /\ m \in DOMAIN s /\ k \in DOMAIN s /\ k <= m
    BY <1>1, <1>4
  <2>3. s[m] <= ind
    BY <1>2, <1>3, <2>2
  <2>4. s[k] \in 1 .. Address /\ s[m] \in 1 .. Address
    BY <2>2 DEF Levels
  <2>5. s[k] <= s[m]
    <3>1. CASE k = m
      BY <2>4, <3>1
    <3>2. CASE k < m
      BY <2>2, <2>4, <3>2 DEF Levels, Rising
    <3>3. QED
      BY <1>4, <2>2, <3>1, <3>2
  <2>6. QED
    BY <2>3, <2>4, <2>5
<1>8. \A k \in m + 1 .. n : s[k] > ind
  <2>1. TAKE k \in m + 1 .. n
  <2>2. k \in DOMAIN s /\ ~ (k <= m)
    BY <1>1, <1>4
  <2>3. k \notin K
    BY <1>3, <2>2
  <2>4. ~ (s[k] <= ind) /\ s[k] \in 1 .. Address
    BY <1>2, <2>2, <2>3 DEF Levels
  <2>5. QED
    BY <2>4
<1>9. Levels(r)
  <2>1. \A k \in 1 .. m : k \in DOMAIN s
    BY <1>1, <1>4
  <2>2. QED
    BY <1>6, <2>1 DEF Levels, Rising
<1>10. r = Kept(s, ind)
  BY <1>2, <1>3, <1>5 DEF Kept
<1>11. QED
  BY <1>1, <1>4, <1>6, <1>7, <1>8, <1>9, <1>10

\* The innermost level.
LEMMA CurrentLevel ==
  ASSUME NEW s, Levels(s)
  PROVE  /\ Current_(s) \in 0 .. Address
         /\ s = <<>> => Current_(s) = 0
         /\ s # <<>> => Current_(s) = s[Len(s)] /\ Len(s) \in DOMAIN s
         /\ \A k \in DOMAIN s : s[k] <= Current_(s)
<1>1. CASE s = <<>>
  <2>1. Current_(s) = 0
    BY <1>1 DEF Current_
  <2>2. DOMAIN s = {}
    BY <1>1, NoneSeq
  <2>3. QED
    BY <1>1, <2>1, <2>2 DEF Address
<1>2. CASE s # <<>>
  <2>1. Len(s) \in DOMAIN s /\ Last(s) = s[Len(s)] /\ DOMAIN s = 1 .. Len(s) /\ Len(s) \in Nat
    BY <1>2, SeqFront, SeqIs DEF Levels
  <2>2. Current_(s) = s[Len(s)]
    BY <1>2, <2>1 DEF Current_
  <2>3. s[Len(s)] \in 1 .. Address
    BY <2>1 DEF Levels
  <2>4. \A k \in DOMAIN s : s[k] <= s[Len(s)]
    <3>1. TAKE k \in DOMAIN s
    <3>2. s[k] \in 1 .. Address
      BY DEF Levels
    <3>3. CASE k = Len(s)
      BY <3>2, <3>3
    <3>4. CASE k < Len(s)
      BY <2>1, <2>3, <3>2, <3>4 DEF Levels, Rising
    <3>5. QED
      BY <2>1, <3>3, <3>4
  <2>5. QED
    BY <1>2, <2>1, <2>2, <2>3, <2>4 DEF Address
<1>3. QED
  BY <1>1, <1>2

\* A line that closes levels.
Closes(x, ind, in) ==
  /\ Indented(x, ind) /\ ind \in 0 .. Address /\ ind < Current_(x.stack)
  /\ in.stack = Kept(x.stack, ind) /\ Len(in.stack) \in 0 .. Len(x.stack)
  /\ Len(in.toks) = Len(x.stack) - Len(in.stack)
  /\ \A i \in DOMAIN in.toks : in.toks[i] = Tok("DEDENT", ind)

\* What the indentation of a line does: nothing, one level more, or levels less.
LEMMA IndentIs ==
  ASSUME NEW x, LexOK(x), NEW ind \in Mixed .. Address
  PROVE  LET in == Indent(x, ind)
         IN /\ Levels(in.stack) /\ Tokens(in.toks)
            /\ \/ /\ ~Indented(x, ind) \/ ind \in {Mixed, Current_(x.stack)}
                  /\ in.toks = <<>> /\ in.stack = x.stack
               \/ /\ Indented(x, ind) /\ ind \in 1 .. Address /\ ind > Current_(x.stack)
                  /\ in.toks = <<Tok("INDENT", ind)>> /\ in.stack = Append(x.stack, ind)
               \/ Closes(x, ind, in)
<1>1. PICK in : in = Indent(x, ind)
  OBVIOUS
<1>2. /\ Current_(x.stack) \in 0 .. Address /\ ind \in Int /\ Mixed <= ind /\ ind <= Address
      /\ Levels(x.stack) /\ Address \in Nat /\ Mixed \in Int /\ Mixed < 0 /\ (ind # Mixed => ind >= 0)
  <2>1. Address \in Nat /\ Mixed \in Int /\ Mixed = -1
    BY DEF Address, Mixed
  <2>2. Levels(x.stack)
    BY DEF LexOK
  <2>3. QED
    BY <2>1, <2>2, CurrentLevel
<1>3. CASE ~Indented(x, ind) \/ ind \in {Mixed, Current_(x.stack)}
  <2>1. in = [toks |-> <<>>, stack |-> x.stack]
    BY <1>1, <1>2, <1>3 DEF Indent
  <2>2. QED
    BY <1>1, <1>2, <1>3, <2>1, NoneSeq DEF Tokens
<1>4. CASE Indented(x, ind) /\ ind > Current_(x.stack)
  <2>1. in = [toks |-> <<Tok("INDENT", ind)>>, stack |-> Append(x.stack, ind)]
    BY <1>1, <1>2, <1>4 DEF Indent
  <2>2. ind \in 1 .. Address
    BY <1>2, <1>4
  <2>3. Levels(Append(x.stack, ind))
    <3>1. PICK r : r = Append(x.stack, ind)
      OBVIOUS
    <3>2. PICK n \in Nat : n = Len(x.stack) /\ DOMAIN x.stack = 1 .. n
      BY <1>2, SeqIs DEF Levels
    <3>3. IsSeq(r) /\ DOMAIN r = 1 .. n + 1 /\ r[n + 1] = ind /\ \A i \in 1 .. n : r[i] = x.stack[i]
      BY <1>2, <3>1, <3>2, SeqAppended DEF Levels
    <3>4. \A i \in DOMAIN r : r[i] \in 1 .. Address
      BY <1>2, <2>2, <3>2, <3>3 DEF Levels
    <3>5. \A i \in 1 .. n : x.stack[i] < ind
      <4>1. TAKE i \in 1 .. n
      <4>2. x.stack[i] <= Current_(x.stack) /\ x.stack[i] \in 1 .. Address
        BY <1>2, <3>2, CurrentLevel DEF Levels
      <4>3. QED
        BY <1>2, <1>4, <4>2
    <3>6. Rising(r)
      <4>1. n \in Nat /\ \A i, j \in 1 .. n : i < j => x.stack[i] < x.stack[j]
        BY <1>2, <3>2 DEF Levels, Rising
      <4>2. \A i, j \in 1 .. n + 1 : i < j => i \in 1 .. n /\ (j \in 1 .. n \/ j = n + 1)
        BY <3>2
      <4>3. QED
        BY <3>3, <3>5, <4>1, <4>2 DEF Rising
    <3>7. QED
      BY <3>1, <3>3, <3>4, <3>6 DEF Levels
  <2>4. Tokens(<<Tok("INDENT", ind)>>)
    BY <1>2, <2>2, OneSeq DEF Tokens, AToken, Tok
  <2>5. QED
    BY <1>1, <1>4, <2>1, <2>2, <2>3, <2>4
<1>5. CASE Indented(x, ind) /\ ind < Current_(x.stack) /\ ind # Mixed
  <2>1. in = [toks |-> Dedents(x.stack, ind), stack |-> Kept(x.stack, ind)]
    BY <1>1, <1>2, <1>5 DEF Indent
  <2>2. ind \in 0 .. Address
    BY <1>2, <1>5
  <2>3. PICK r : r = Kept(x.stack, ind) /\ Levels(r) /\ Len(r) \in 0 .. Len(x.stack)
    BY <1>2, <2>2, KeptIs
  <2>4. PICK d \in Nat : d = Len(x.stack) - Len(r)
    <3>1. Len(x.stack) \in Nat
      BY <1>2, SeqIs DEF Levels
    <3>2. QED
      BY <2>3, <3>1
  <2>5. PICK k : k = Tok("DEDENT", ind)
    OBVIOUS
  <2>6. AToken(k)
    BY <2>2, <2>5 DEF AToken, Tok
  <2>7. Dedents(x.stack, ind) = [i \in 1 .. d |-> k]
    BY <2>3, <2>4, <2>5 DEF Dedents
  <2>8. PICK ks : ks = [i \in 1 .. d |-> k]
    OBVIOUS
  <2>9. ks \in Seq({k}) /\ Len(ks) = d /\ DOMAIN ks = 1 .. d /\ \A i \in 1 .. d : ks[i] = k
    BY <2>8
  <2>10. IsSeq(ks)
    BY <2>9 DEF IsSeq
  <2>11. Tokens(ks)
    BY <2>6, <2>9, <2>10 DEF Tokens
  <2>12. in.toks = ks /\ in.stack = r
    BY <2>1, <2>3, <2>7, <2>8
  <2>13. Closes(x, ind, in)
    BY <1>5, <2>2, <2>3, <2>4, <2>5, <2>9, <2>12 DEF Closes
  <2>14. QED
    BY <1>1, <2>3, <2>11, <2>12, <2>13
<1>6. QED
  BY <1>2, <1>3, <1>4, <1>5

\* The tokens behind the indentation of a line.
LEMMA BodyTokens ==
  ASSUME NEW l, TextLine(l)
  PROVE  Tokens(Body(l))
<1>1. PICK end : end = Tok(IF l.nl THEN "EOL" ELSE "EOF", 0) /\ AToken(end)
  <2>1. 0 \in 0 .. Address
    BY DEF Address
  <2>2. AToken(Tok(IF l.nl THEN "EOL" ELSE "EOF", 0))
    BY <2>1 DEF AToken, Tok
  <2>3. QED
    BY <2>2
<1>2. PICK st : st = TokenOf(l.body) /\ AToken(st)
  <2>1. 0 \in 0 .. Address /\ Address \in 0 .. Address
    <3>1. Address \in Nat
      BY DEF Address
    <3>2. QED
      BY <3>1
  <2>2. AToken(TokenOf(l.body))
    BY <2>1 DEF AToken, TokenOf, Tok
  <2>3. QED
    BY <2>2
<1>3. Body(l) = CASE l.body.kind = "bad"                  -> <<>>
                  [] l.body.kind \in {"blank", "comment"} -> <<end>>
                  [] OTHER                                -> <<st, end>>
  BY <1>1, <1>2 DEF Body
<1>4. Body(l) \in {<<>>, <<end>>, <<st, end>>}
  BY <1>3
<1>5. Tokens(<<>>)
  BY NoneSeq DEF Tokens
<1>6. Tokens(<<end>>)
  BY <1>1, OneSeq DEF Tokens
<1>7. Tokens(<<st, end>>)
  BY <1>1, <1>2, TwoSeq DEF Tokens
<1>8. QED
  BY <1>4, <1>5, <1>6, <1>7

LEMMA JoinedTokens ==
  ASSUME NEW s, NEW r, Tokens(s), Tokens(r)
  PROVE  Tokens(s \o r)
<1>1. Len(s) \in Nat /\ Len(r) \in Nat /\ DOMAIN s = 1 .. Len(s) /\ DOMAIN r = 1 .. Len(r)
  BY SeqIs DEF Tokens
<1>2. PICK t : /\ t = s \o r /\ IsSeq(t) /\ DOMAIN t = 1 .. Len(s) + Len(r)
               /\ \A i \in 1 .. Len(s) : t[i] = s[i]
               /\ \A i \in 1 .. Len(r) : t[Len(s) + i] = r[i]
  <2>1. IsSeq(s) /\ IsSeq(r)
    BY DEF Tokens
  <2>2. PICK t : t = s \o r
    OBVIOUS
  <2>3. /\ IsSeq(t) /\ DOMAIN t = 1 .. Len(s) + Len(r)
        /\ \A i \in 1 .. Len(s) : t[i] = s[i]
        /\ \A i \in 1 .. Len(r) : t[Len(s) + i] = r[i]
    BY <2>1, <2>2, SeqJoined
  <2>4. QED
    BY <2>2, <2>3
<1>3. \A i \in DOMAIN t : AToken(t[i])
  <2>1. TAKE i \in DOMAIN t
  <2>2. CASE i <= Len(s)
    BY <1>1, <1>2, <2>2 DEF Tokens
  <2>3. CASE ~ (i <= Len(s))
    <3>1. PICK j \in 1 .. Len(r) : i = Len(s) + j
      <4>1. i - Len(s) \in 1 .. Len(r) /\ i = Len(s) + (i - Len(s))
        BY <1>1, <1>2, <2>3
      <4>2. QED
        BY <4>1
    <3>2. QED
      BY <1>1, <1>2, <3>1 DEF Tokens
  <2>4. QED
    BY <2>2, <2>3
<1>4. QED
  BY <1>2, <1>3 DEF Tokens

\* A line that is read leaves a lexer.
LEMMA ReadsOK ==
  ASSUME NEW x, LexOK(x), NEW l, TextLine(l)
  PROVE  LET y == Reads(x, l)   in == Indent(x, l.ind)
         IN /\ LexOK(y) /\ ~y.reading /\ y.stack = in.stack /\ y.indented = Indented(x, l.ind)
            /\ y.toks = IF Broken(x.stack, l.ind) THEN in.toks ELSE in.toks \o Body(l)
            /\ y.at = IF Broken(x.stack, l.ind) THEN "again"
                      ELSE IF l.body.kind = "bad" THEN "inside" ELSE IF l.nl THEN "fresh" ELSE "end"
<1>1. l.ind \in Mixed .. Address
  BY DEF TextLine
<1>2. PICK in : in = Indent(x, l.ind) /\ Levels(in.stack) /\ Tokens(in.toks)
  BY <1>1, IndentIs
<1>3. PICK y : y = Reads(x, l)
  OBVIOUS
<1>4. /\ y = [k \in LexFields |-> y[k]] /\ y.reading = FALSE /\ y.stack = in.stack
      /\ y.indented = Indented(x, l.ind)
      /\ y.toks = IF Broken(x.stack, l.ind) THEN in.toks ELSE in.toks \o Body(l)
  BY <1>2, <1>3 DEF Reads, LexFields
<1>5. y.at = IF Broken(x.stack, l.ind) THEN "again"
             ELSE IF l.body.kind = "bad" THEN "inside" ELSE IF l.nl THEN "fresh" ELSE "end"
  BY <1>3 DEF Reads
<1>6. Tokens(in.toks \o Body(l))
  BY <1>2, BodyTokens, JoinedTokens
<1>7. Indented(x, l.ind) \in BOOLEAN
  BY DEF LexOK, Indented
<1>8. LexOK(y)
  BY <1>2, <1>4, <1>5, <1>6, <1>7 DEF LexOK
<1>9. QED
  BY <1>2, <1>3, <1>4, <1>5, <1>8

\* So does the end of the text.
LEMMA ReadsEndOK ==
  ASSUME NEW x, LexOK(x)
  PROVE  LET y == ReadsEnd(x)   in == Indent(x, 0)
         IN /\ LexOK(y) /\ ~y.reading /\ y.stack = in.stack /\ y.indented = x.indented
            /\ y.toks = Append(in.toks, Tok("EOF", 0)) /\ y.at = "end"
<1>1. 0 \in Mixed .. Address /\ 0 \in 0 .. Address
  BY DEF Mixed, Address
<1>2. PICK in : in = Indent(x, 0) /\ Levels(in.stack) /\ Tokens(in.toks)
  BY <1>1, IndentIs
<1>3. PICK y : y = ReadsEnd(x)
  OBVIOUS
<1>4. PICK e : e = Tok("EOF", 0) /\ AToken(e)
  <2>1. AToken(Tok("EOF", 0))
    BY <1>1 DEF AToken, Tok
  <2>2. QED
    BY <2>1
<1>5. /\ y = [k \in LexFields |-> y[k]] /\ y.reading = FALSE /\ y.stack = in.stack
      /\ y.indented = x.indented /\ y.at = "end" /\ y.toks = Append(in.toks, e)
  BY <1>2, <1>3, <1>4 DEF ReadsEnd, LexFields, LexOK
<1>6. Tokens(Append(in.toks, e))
  <2>1. PICK t : t = Append(in.toks, e)
    OBVIOUS
  <2>2. PICK n \in Nat : n = Len(in.toks) /\ DOMAIN in.toks = 1 .. n
    BY <1>2, SeqIs DEF Tokens
  <2>3. IsSeq(t) /\ DOMAIN t = 1 .. n + 1 /\ t[n + 1] = e /\ \A i \in 1 .. n : t[i] = in.toks[i]
    BY <1>2, <2>1, <2>2, SeqAppended DEF Tokens
  <2>4. \A i \in DOMAIN t : AToken(t[i])
    BY <1>2, <1>4, <2>2, <2>3 DEF Tokens
  <2>5. QED
    BY <2>1, <2>3, <2>4 DEF Tokens
<1>7. LexOK(y)
  BY <1>2, <1>5, <1>6 DEF LexOK
<1>8. QED
  BY <1>2, <1>3, <1>4, <1>5, <1>7

\* Tokens are taken.
LEMMA TakenOK ==
  ASSUME NEW x, LexOK(x), NEW n \in 1 .. Len(x.toks)
  PROVE  LET y == Taken(x, n)
         IN /\ LexOK(y) /\ y.at = x.at /\ y.stack = x.stack /\ y.indented = x.indented
            /\ y.reading = (y.toks = <<>>)
            /\ Len(y.toks) = Len(x.toks) - n /\ DOMAIN y.toks = 1 .. Len(x.toks) - n
            /\ \A i \in 1 .. Len(x.toks) - n : y.toks[i] = x.toks[n + i]
<1>1. PICK m \in Nat : m = Len(x.toks) /\ DOMAIN x.toks = 1 .. m
  BY SeqIs DEF LexOK, Tokens
<1>2. PICK r : r = SubSeq(x.toks, n + 1, Len(x.toks))
  OBVIOUS
<1>3. IsSeq(r) /\ Len(r) = m - n /\ DOMAIN r = 1 .. m - n /\ \A i \in 1 .. m - n : r[i] = x.toks[n + i]
  <2>1. PICK k \in 1 .. m + 1 : k = n + 1 /\ k - 1 = n
    BY <1>1
  <2>2. IsSeq(x.toks) /\ k \in 1 .. Len(x.toks) + 1 /\ m \in k - 1 .. Len(x.toks)
    BY <1>1, <2>1 DEF LexOK, Tokens
  <2>3. /\ IsSeq(r) /\ Len(r) = m - k + 1 /\ DOMAIN r = 1 .. m - k + 1
        /\ \A i \in 1 .. m - k + 1 : r[i] = x.toks[k + i - 1]
    BY <1>1, <1>2, <2>1, <2>2, SeqPart
  <2>4. m - k + 1 = m - n /\ \A i \in 1 .. m - n : k + i - 1 = n + i
    BY <2>1
  <2>5. QED
    BY <2>3, <2>4
<1>4. PICK y : y = Taken(x, n)
  OBVIOUS
<1>5. /\ y = [k \in LexFields |-> y[k]] /\ y.at = x.at /\ y.stack = x.stack
      /\ y.indented = x.indented /\ y.toks = r /\ y.reading = (r = <<>>)
  BY <1>2, <1>4 DEF Taken, LexOK, LexFields
<1>6. Tokens(r)
  <2>1. \A i \in 1 .. m - n : n + i \in DOMAIN x.toks
    BY <1>1
  <2>2. QED
    BY <1>3, <2>1 DEF LexOK, Tokens
<1>7. LexOK(y)
  BY <1>5, <1>6 DEF LexOK
<1>8. QED
  BY <1>1, <1>3, <1>4, <1>5, <1>7

\* A call of getLine forgets the tokens.
LEMMA CallOK ==
  ASSUME NEW x, LexOK(x)
  PROVE  LET y == Call(x)
         IN /\ LexOK(y) /\ y.at = x.at /\ y.stack = x.stack /\ y.indented = x.indented
            /\ y.reading /\ y.toks = <<>>
<1>1. PICK y : y = Call(x)
  OBVIOUS
<1>2. /\ y = [k \in LexFields |-> y[k]] /\ y.at = x.at /\ y.stack = x.stack
      /\ y.indented = x.indented /\ y.toks = <<>> /\ y.reading = TRUE
  BY <1>1 DEF Call, LexOK, LexFields
<1>3. Tokens(<<>>)
  BY NoneSeq DEF Tokens
<1>4. LexOK(y)
  BY <1>2, <1>3 DEF LexOK
<1>5. QED
  BY <1>1, <1>2, <1>4

-----------------------------------------------------------------------------
(* What the analysis does to the tree.                                     *)

\* Nodes that differ in the value of their expression and their parameters only.
AlikeNodes(m, n) == /\ Same(m, n) /\ m.kids = n.kids /\ m.block = n.block
                    /\ m.elseBlock = n.elseBlock /\ m.ifType = n.ifType

Alike(t, u) == /\ Newest(u) = Newest(t)
               /\ \A i \in 1 .. Newest(t) : AlikeNodes(t.nodes[i], u.nodes[i])

LEMMA AlikeExtends ==
  ASSUME NEW t, NEW u, Linked(t), Alike(t, u)
  PROVE  Extends(t, u)
<1>1. Newest(t) \in Nat
  BY SeqIs DEF Linked, Newest
<1>2. QED
  BY <1>1 DEF Alike, AlikeNodes, Extends

LEMMA AlikeLinks ==
  ASSUME NEW t, NEW i \in 1 .. Newest(t), NEW m, Links(t, i, m), NEW n, IsNode(n), AlikeNodes(m, n)
  PROVE  Links(t, i, n)
BY DEF AlikeNodes, Same, Links

\* The cursor moved to c, which is a way through the tree.
LEMMA MovedTo ==
  ASSUME NEW t, Sound(t), NEW c, IsSeq(c), c # <<>>, \A k \in DOMAIN c : c[k] \in 0 .. Newest(t)
  PROVE  LET u == [t EXCEPT !.cursor = c]
         IN Sound(u) /\ u.nodes = t.nodes /\ Newest(u) = Newest(t) /\ u.cursor = c
<1>1. PICK u : u = [t EXCEPT !.cursor = c]
  OBVIOUS
<1>2. IsTree(u) /\ u.nodes = t.nodes /\ u.cursor = c
  BY <1>1 DEF Sound, Linked, IsTree, TreeFields
<1>3. Linked(u) /\ Newest(u) = Newest(t)
  BY <1>2 DEF Sound, Linked, Newest, Links
<1>4. Pointed(u)
  BY <1>2, <1>3 DEF Pointed
<1>5. QED
  BY <1>1, <1>2, <1>3, <1>4 DEF Sound

\* Evaluating an expression changes a value only; the cursor stays where it was
\* unless something is reported.
LEMMA Evaluated ==
  ASSUME NEW t, Sound(t), Newest(t) # 0, NEW e, e.depth \in Nat
  PROVE  LET v == Evaluate(t, e)
         IN /\ Sound(v.tree) /\ Alike(t, v.tree)
            /\ v.type # "none" => v.tree.cursor = t.cursor
            /\ Len(v.tree.cursor) >= Len(t.cursor)
<1>1. PICK v : v = Evaluate(t, e)
  OBVIOUS
<1>2. PICK val : val = IF v.type = "none" THEN "bad" ELSE "good"
  OBVIOUS
<1>3. PICK left : left = IF v.type = "none" THEN [i \in 1 .. e.depth |-> 0] ELSE <<>>
  OBVIOUS
<1>4. PICK i : i = Newest(t)
  OBVIOUS
<1>5. v.tree = [t EXCEPT !.cursor = @ \o left, !.nodes[i].val = val]
  BY <1>1, <1>2, <1>3, <1>4 DEF Evaluate
<1>6. IsSeq(left) /\ Len(left) \in Nat /\ \A k \in 1 .. Len(left) : left[k] = 0
  <2>1. CASE v.type = "none"
    <3>1. PICK d \in Nat : d = e.depth
      OBVIOUS
    <3>2. left = [k \in 1 .. d |-> 0]
      BY <1>3, <2>1, <3>1
    <3>3. left \in Seq({0}) /\ Len(left) = d /\ \A k \in 1 .. d : left[k] = 0
      BY <3>2
    <3>4. QED
      BY <3>1, <3>3 DEF IsSeq
  <2>2. CASE v.type # "none"
    <3>1. left = <<>>
      BY <1>3, <2>2
    <3>2. QED
      BY <3>1, NoneSeq
  <2>3. QED
    BY <2>1, <2>2
<1>7. PICK c : /\ c = t.cursor \o left /\ IsSeq(c) /\ Len(c) = Len(t.cursor) + Len(left)
               /\ DOMAIN c = 1 .. Len(t.cursor) + Len(left)
               /\ \A k \in 1 .. Len(t.cursor) : c[k] = t.cursor[k]
               /\ \A k \in 1 .. Len(left) : c[Len(t.cursor) + k] = left[k]
  <2>1. IsSeq(t.cursor)
    BY DEF Sound, Pointed
  <2>2. PICK c : c = t.cursor \o left
    OBVIOUS
  <2>3. /\ IsSeq(c) /\ Len(c) = Len(t.cursor) + Len(left)
        /\ DOMAIN c = 1 .. Len(t.cursor) + Len(left)
        /\ \A k \in 1 .. Len(t.cursor) : c[k] = t.cursor[k]
        /\ \A k \in 1 .. Len(left) : c[Len(t.cursor) + k] = left[k]
    BY <1>6, <2>1, <2>2, SeqJoined
  <2>4. QED
    BY <2>2, <2>3
<1>8. Len(t.cursor) \in Nat /\ Len(t.cursor) # 0 /\ DOMAIN t.cursor = 1 .. Len(t.cursor) /\ i \in Nat
  BY <1>4, SeqIs DEF Sound, Pointed, Linked, Newest
<1>9. c # <<>> /\ \A k \in DOMAIN c : c[k] \in 0 .. i
  <2>1. Len(c) # 0
    BY <1>6, <1>7, <1>8
  <2>2. c # <<>>
    BY <1>7, <2>1, SeqIs
  <2>3. \A k \in DOMAIN c : c[k] \in 0 .. i
    <3>1. TAKE k \in DOMAIN c
    <3>2. CASE k <= Len(t.cursor)
      BY <1>4, <1>6, <1>7, <1>8, <3>2 DEF Sound, Pointed
    <3>3. CASE ~ (k <= Len(t.cursor))
      <4>1. PICK j \in 1 .. Len(left) : k = Len(t.cursor) + j
        <5>1. k \in 1 .. Len(t.cursor) + Len(left) /\ Len(left) \in Nat /\ Len(t.cursor) \in Nat
          BY <1>6, <1>7, <1>8
        <5>2. k - Len(t.cursor) \in 1 .. Len(left) /\ k = Len(t.cursor) + (k - Len(t.cursor))
          BY <3>3, <5>1
        <5>3. QED
          BY <5>2
      <4>2. c[k] = 0
        BY <1>6, <1>7, <4>1
      <4>3. QED
        BY <1>8, <4>2
    <3>4. QED
      BY <3>2, <3>3
  <2>4. QED
    BY <2>2, <2>3
<1>10. PICK u : u = [t EXCEPT !.cursor = c]
  OBVIOUS
<1>11. Sound(u) /\ u.nodes = t.nodes /\ Newest(u) = i /\ u.cursor = c
  <2>1. IsSeq(c) /\ c # <<>> /\ \A k \in DOMAIN c : c[k] \in 0 .. Newest(t)
    BY <1>4, <1>7, <1>9
  <2>2. QED
    BY <1>4, <1>10, <2>1, MovedTo
<1>12. PICK m : m = [t.nodes[i] EXCEPT !.val = val]
  OBVIOUS
<1>13. i \in 1 .. Newest(t) /\ Links(u, i, t.nodes[i]) /\ IsNode(t.nodes[i]) /\ u.nodes[i] = t.nodes[i]
       /\ i \in DOMAIN u.nodes /\ IsTree(u) /\ IsTree(t)
  <2>1. i \in 1 .. Newest(t)
    BY <1>4, <1>8
  <2>2. Links(u, i, u.nodes[i]) /\ i \in DOMAIN u.nodes /\ IsTree(u) /\ IsTree(t)
    BY <1>4, <1>11, <2>1, SeqIs DEF Sound, Linked, Newest
  <2>3. QED
    BY <1>11, <2>1, <2>2 DEF Links
<1>14. IsNode(m) /\ AlikeNodes(t.nodes[i], m)
  BY <1>12, <1>13 DEF IsNode, NodeFields, AlikeNodes, Same
<1>15. Links(u, i, m) /\ Same(u.nodes[i], m) /\ i \in 1 .. Newest(u)
  BY <1>4, <1>11, <1>13, <1>14, AlikeLinks DEF AlikeNodes
<1>16. PICK w : w = [u EXCEPT !.nodes[i] = m]
  OBVIOUS
<1>17. /\ Sound(w) /\ Newest(w) = i /\ w.cursor = c /\ w.nodes[i] = m
       /\ \A j \in 1 .. i : j # i => w.nodes[j] = t.nodes[j]
  BY <1>11, <1>15, <1>16, NodeChanged
<1>18. v.tree = w
  <2>1. [t EXCEPT !.cursor = @ \o left, !.nodes[i].val = val]
          = [[t EXCEPT !.cursor = @ \o left] EXCEPT !.nodes[i].val = val]
    BY <1>13 DEF IsTree, TreeFields
  <2>2. [t EXCEPT !.cursor = @ \o left] = u
    BY <1>7, <1>10
  <2>3. [u EXCEPT !.nodes[i].val = val] = [u EXCEPT !.nodes[i] = [u.nodes[i] EXCEPT !.val = val]]
    BY <1>13 DEF IsTree, TreeFields
  <2>4. QED
    BY <1>5, <1>12, <1>13, <1>16, <2>1, <2>2, <2>3
<1>19. Alike(t, w)
  <2>1. \A j \in 1 .. i : AlikeNodes(t.nodes[j], w.nodes[j])
    BY <1>14, <1>17 DEF AlikeNodes, Same
  <2>2. QED
    BY <1>4, <1>17, <2>1 DEF Alike
<1>20. v.type # "none" => c = t.cursor
  <2>1. SUFFICES ASSUME v.type # "none" PROVE c = t.cursor
    OBVIOUS
  <2>2. Len(left) = 0
    BY <1>3, <2>1, NoneSeq
  <2>3. Len(c) = Len(t.cursor) /\ \A k \in 1 .. Len(c) : c[k] = t.cursor[k]
    BY <1>7, <1>8, <2>2
  <2>4. QED
    BY <1>7, <2>3, SeqSame DEF Sound, Pointed
<1>21. Len(c) >= Len(t.cursor)
  BY <1>6, <1>7, <1>8
<1>22. QED
  BY <1>1, <1>17, <1>18, <1>19, <1>20, <1>21

LEMMA FrontAppended ==
  ASSUME NEW s, IsSeq(s), NEW x
  PROVE  Front(Append(s, x)) = s
<1>1. PICK r : r = Append(s, x)
  OBVIOUS
<1>2. PICK n \in Nat : n = Len(s)
  BY SeqIs
<1>3. IsSeq(r) /\ Len(r) = n + 1 /\ \A i \in 1 .. n : r[i] = s[i]
  BY <1>1, <1>2, SeqAppended
<1>4. r # <<>> /\ Len(r) - 1 = n
  BY <1>2, <1>3, SeqIs
<1>5. PICK f : f = Front(r)
  OBVIOUS
<1>6. IsSeq(f) /\ Len(f) = n /\ \A i \in 1 .. n : f[i] = r[i]
  BY <1>3, <1>4, <1>5, SeqFront
<1>7. f = s
  BY <1>2, <1>3, <1>6, SeqSame
<1>8. QED
  BY <1>1, <1>5, <1>7

\* Where the cursor is once it went down, and up again.
LEMMA DownUp ==
  ASSUME NEW t, Sound(t), NEW c, IsSeq(c), c # <<>>, NEW id, t.cursor = Append(c, id)
  PROVE  /\ CurrentId(t) = id /\ Len(t.cursor) = Len(c) + 1
         /\ LET u == TraverseUp(t)
            IN Sound(u) /\ u.nodes = t.nodes /\ Newest(u) = Newest(t) /\ u.cursor = c
<1>1. Len(t.cursor) = Len(c) + 1 /\ t.cursor[Len(c) + 1] = id /\ Len(c) \in Nat /\ Len(c) # 0
  BY SeqAppended, SeqIs
<1>2. CurrentId(t) = id
  BY <1>1, CurrentIs
<1>3. Len(t.cursor) > 1
  BY <1>1
<1>4. Front(t.cursor) = c
  BY FrontAppended
<1>5. QED
  BY <1>1, <1>2, <1>3, <1>4, WentUp

LEMMA DownAt ==
  ASSUME NEW t, Sound(t), NEW c, IsSeq(c), c # <<>>, NEW id, t.cursor = Append(c, id)
  PROVE  CurrentId(t) = id /\ Len(t.cursor) = Len(c) + 1
BY DownUp

\* An expression below a node that has one.
LEMMA ActedOnExpression ==
  ASSUME NEW t, Sound(t), Current(t).kind \in NeedsExpr, NEW e, e.depth \in Nat
  PROVE  LET v == ActOnExpressionBonsai(t, e)
         IN /\ Sound(v.tree) /\ Alike(t, v.tree)
            /\ v.type # "none" => v.tree.cursor = t.cursor
            /\ Len(v.tree.cursor) >= Len(t.cursor)
<1>1. PICK a : a = AddExpression(t)
  OBVIOUS
<1>2. CurrentId(t) \in 1 .. Newest(t) /\ Newest(t) \in Nat
  BY CurrentIs DEF NeedsExpr
<1>3. a = TraverseDown(t, 0)
  BY <1>1 DEF AddExpression
<1>4. Sound(a) /\ Newest(a) = Newest(t) /\ a.nodes = t.nodes /\ a.cursor = Append(t.cursor, 0)
  BY <1>2, <1>3, WentDown
<1>5. PICK w : w = Evaluate(a, e)
  OBVIOUS
<1>6. /\ Sound(w.tree) /\ Alike(a, w.tree)
      /\ w.type # "none" => w.tree.cursor = a.cursor
      /\ Len(w.tree.cursor) >= Len(a.cursor)
  <2>1. Newest(a) # 0
    BY <1>2, <1>4
  <2>2. QED
    BY <1>4, <1>5, <2>1, Evaluated
<1>7. Alike(t, w.tree)
  BY <1>4, <1>6 DEF Alike
<1>8. PICK v : v = ActOnExpressionBonsai(t, e)
  OBVIOUS
<1>9. IsSeq(t.cursor) /\ t.cursor # <<>> /\ Len(t.cursor) \in Nat /\ Len(a.cursor) = Len(t.cursor) + 1
  BY <1>4, SeqAppended, SeqIs DEF Sound, Pointed
<1>10. CASE w.type = "none"
  <2>1. v = w
    BY <1>1, <1>5, <1>8, <1>10 DEF ActOnExpressionBonsai
  <2>2. Len(w.tree.cursor) \in Nat
    BY <1>6, SeqIs DEF Sound, Pointed
  <2>3. QED
    BY <1>6, <1>7, <1>8, <1>9, <1>10, <2>1, <2>2
<1>11. CASE w.type # "none"
  <2>1. v = [w EXCEPT !.tree = TraverseUp(@)]
    BY <1>1, <1>5, <1>8, <1>11 DEF ActOnExpressionBonsai
  <2>2. w = [type |-> w.type, tree |-> w.tree]
    BY <1>5 DEF Evaluate
  <2>3. v.tree = TraverseUp(w.tree) /\ v.type = w.type
    BY <2>1, <2>2
  <2>4. w.tree.cursor = Append(t.cursor, 0)
    BY <1>4, <1>6, <1>11
  <2>5. PICK u : /\ u = TraverseUp(w.tree) /\ Sound(u) /\ u.nodes = w.tree.nodes
                 /\ Newest(u) = Newest(w.tree) /\ u.cursor = t.cursor
    <3>1. PICK x, c, id, u : x = w.tree /\ c = t.cursor /\ id = 0 /\ u = TraverseUp(x)
      OBVIOUS
    <3>2. Sound(x) /\ IsSeq(c) /\ c # <<>> /\ x.cursor = Append(c, id)
      BY <1>6, <1>9, <2>4, <3>1
    <3>3. LET z == TraverseUp(x)
          IN Sound(z) /\ z.nodes = x.nodes /\ Newest(z) = Newest(x) /\ z.cursor = c
      BY ONLY <3>2, DownUp
    <3>4. QED
      BY <3>1, <3>3
  <2>6. Alike(t, u)
    BY <1>7, <2>5 DEF Alike
  <2>7. QED
    BY <1>8, <1>9, <2>3, <2>5, <2>6
<1>12. QED
  BY <1>10, <1>11

-----------------------------------------------------------------------------
(* Building without adding to operations.                                  *)

\* Tree u has the nodes of t, and new ones in which there is nothing; operations
\* have the statements they had, and ifs what belongs to them, except those of C.
Builds(t, u, C) ==
  /\ Extends(t, u)
  /\ \A i \in 1 .. Newest(t) :
       /\ t.nodes[i].kind = "SCOPE_OPERATION" => u.nodes[i].kids = t.nodes[i].kids
       /\ t.nodes[i].kind = "IF_STATEMENT" /\ i \notin C =>
            /\ u.nodes[i].block = t.nodes[i].block /\ u.nodes[i].elseBlock = t.nodes[i].elseBlock
            /\ u.nodes[i].ifType = t.nodes[i].ifType
  /\ \A i \in Newest(t) + 1 .. Newest(u) :
       /\ u.nodes[i].kind # "IF_STATEMENT" /\ u.nodes[i].to = 0
       /\ u.nodes[i].kind = "SCOPE_OPERATION" => u.nodes[i].kids = <<>>

LEMMA BuildsOn ==
  ASSUME NEW t, NEW u, NEW v, Linked(t), Linked(u), Linked(v), NEW C, NEW D,
         Builds(t, u, C), Builds(u, v, D)
  PROVE  Builds(t, v, C \cup D)
<1>1. PICK n \in Nat, m \in Nat, l \in Nat : n = Newest(t) /\ m = Newest(u) /\ l = Newest(v)
  BY SeqIs DEF Linked, Newest
<1>2. Extends(t, u) /\ Extends(u, v) /\ n <= m /\ m <= l
  BY <1>1 DEF Builds, Extends
<1>3. Extends(t, v)
  BY <1>2, ExtendsOn
<1>4. ASSUME NEW i \in 1 .. n
      PROVE  /\ t.nodes[i].kind = "SCOPE_OPERATION" => v.nodes[i].kids = t.nodes[i].kids
             /\ t.nodes[i].kind = "IF_STATEMENT" /\ i \notin C \cup D =>
                  /\ v.nodes[i].block = t.nodes[i].block /\ v.nodes[i].elseBlock = t.nodes[i].elseBlock
                  /\ v.nodes[i].ifType = t.nodes[i].ifType
  <2>1. i \in 1 .. Newest(t) /\ i \in 1 .. Newest(u)
    BY <1>1, <1>2
  <2>2. u.nodes[i].kind = t.nodes[i].kind
    BY <1>2, <2>1 DEF Extends, Same
  <2>3. /\ t.nodes[i].kind = "SCOPE_OPERATION" => u.nodes[i].kids = t.nodes[i].kids
        /\ t.nodes[i].kind = "IF_STATEMENT" /\ i \notin C =>
             /\ u.nodes[i].block = t.nodes[i].block /\ u.nodes[i].elseBlock = t.nodes[i].elseBlock
             /\ u.nodes[i].ifType = t.nodes[i].ifType
    BY <2>1 DEF Builds
  <2>4. /\ u.nodes[i].kind = "SCOPE_OPERATION" => v.nodes[i].kids = u.nodes[i].kids
        /\ u.nodes[i].kind = "IF_STATEMENT" /\ i \notin D =>
             /\ v.nodes[i].block = u.nodes[i].block /\ v.nodes[i].elseBlock = u.nodes[i].elseBlock
             /\ v.nodes[i].ifType = u.nodes[i].ifType
    BY <2>1 DEF Builds
  <2>5. QED
    BY <2>2, <2>3, <2>4
<1>5. ASSUME NEW i \in n + 1 .. l
      PROVE  /\ v.nodes[i].kind # "IF_STATEMENT" /\ v.nodes[i].to = 0
             /\ v.nodes[i].kind = "SCOPE_OPERATION" => v.nodes[i].kids = <<>>
  <2>1. CASE i \in n + 1 .. m
    <3>1. i \in 1 .. Newest(u) /\ i \in Newest(t) + 1 .. Newest(u)
      BY <1>1, <2>1
    <3>2. v.nodes[i].kind = u.nodes[i].kind /\ v.nodes[i].to = u.nodes[i].to
      BY <1>2, <3>1 DEF Extends, Same
    <3>3. QED
      BY <3>1, <3>2 DEF Builds
  <2>2. CASE i \in m + 1 .. l
    BY <1>1, <2>2 DEF Builds
  <2>3. QED
    BY <2>1, <2>2
<1>6. QED
  BY <1>1, <1>3, <1>4, <1>5 DEF Builds

LEMMA AlikeBuilds ==
  ASSUME NEW t, NEW u, Linked(t), Alike(t, u)
  PROVE  Builds(t, u, {})
<1>1. Newest(t) \in Nat /\ Newest(u) = Newest(t) /\ Extends(t, u)
  BY SeqIs, AlikeExtends DEF Linked, Newest, Alike
<1>2. \A i \in 1 .. Newest(t) : AlikeNodes(t.nodes[i], u.nodes[i])
  BY DEF Alike
<1>3. Newest(t) + 1 .. Newest(u) = {}
  BY <1>1
<1>4. QED
  BY <1>1, <1>2, <1>3 DEF Builds, AlikeNodes

\* The same nodes below another cursor.
LEMMA CursorBuilds ==
  ASSUME NEW t, NEW u, Linked(t), u.nodes = t.nodes
  PROVE  Builds(t, u, {}) /\ Alike(t, u)
<1>1. Alike(t, u)
  BY DEF Alike, AlikeNodes, Same, Newest
<1>2. QED
  BY <1>1, AlikeBuilds

\* An operation is added to the current node.
LEMMA OperationBuilds ==
  ASSUME NEW t, NEW u, NEW at, Sound(t), OperationAdded(t, u, at)
  PROVE  /\ Builds(t, u, {CurrentId(t)})
         /\ t.nodes[CurrentId(t)].kind # "IF_STATEMENT" => Builds(t, u, {})
         /\ Newest(u) = Newest(t) + 1 /\ u.nodes[Newest(u)].kind = "SCOPE_OPERATION"
         /\ u.nodes[Newest(u)].at = at
<1>1. PICK c : c = CurrentId(t)
  OBVIOUS
<1>2. PICK new : new = Newest(t) + 1
  OBVIOUS
<1>3. /\ Extends(t, u) /\ Newest(u) = new /\ c \in 1 .. Newest(t) /\ Newest(t) \in Nat
      /\ u.nodes[new] = [Node EXCEPT !.kind = "SCOPE_OPERATION", !.at = at]
      /\ \A i \in 1 .. Newest(t) : i # c => u.nodes[i] = t.nodes[i]
      /\ \/ u.nodes[c] = [t.nodes[c] EXCEPT !.block = new]
         \/ u.nodes[c] = [t.nodes[c] EXCEPT !.elseBlock = new]
  BY <1>1, <1>2, CurrentIs DEF OperationAdded
<1>4. u.nodes[new].kind = "SCOPE_OPERATION" /\ u.nodes[new].kids = <<>> /\ u.nodes[new].to = 0 /\ u.nodes[new].at = at
  BY <1>3 DEF Node
<1>5. IsNode(t.nodes[c])
  BY <1>3 DEF Sound, Linked, Links
<1>6. u.nodes[c].kids = t.nodes[c].kids
  BY <1>3, <1>5 DEF IsNode, NodeFields
<1>7. Newest(t) + 1 .. Newest(u) = {new}
  BY <1>2, <1>3
<1>8. QED
  BY <1>1, <1>2, <1>3, <1>4, <1>6, <1>7 DEF Builds

\* A node is added to what is not an operation.
LEMMA KidBuilds ==
  ASSUME NEW t, NEW u, NEW n, Sound(t), KidAdded(t, u, n), Fresh(n), n.to = 0,
         n.kind \notin {"IF_STATEMENT", "SCOPE_OPERATION"},
         t.nodes[CurrentId(t)].kind # "SCOPE_OPERATION"
  PROVE  Builds(t, u, {})
<1>1. PICK c : c = CurrentId(t)
  OBVIOUS
<1>2. /\ Extends(t, u) /\ Newest(u) = Newest(t) + 1 /\ c \in 1 .. Newest(t) /\ Newest(t) \in Nat
      /\ u.nodes[Newest(u)] = n /\ \A i \in 1 .. Newest(t) : i # c => u.nodes[i] = t.nodes[i]
      /\ u.nodes[c] = [t.nodes[c] EXCEPT !.kids = Append(@, Newest(u))]
  BY <1>1, CurrentIs DEF KidAdded
<1>3. IsNode(t.nodes[c])
  BY <1>2 DEF Sound, Linked, Links
<1>4. /\ u.nodes[c].block = t.nodes[c].block /\ u.nodes[c].elseBlock = t.nodes[c].elseBlock
      /\ u.nodes[c].ifType = t.nodes[c].ifType
  BY <1>2, <1>3 DEF IsNode, NodeFields
<1>5. Newest(t) + 1 .. Newest(u) = {Newest(u)}
  BY <1>2
<1>6. QED
  BY <1>1, <1>2, <1>4, <1>5 DEF Builds

-----------------------------------------------------------------------------
(* Ifs and their operations.                                               *)

\* Every if but those of C has the operations that go with it.
CompleteBut(t, C) ==
  \A i \in 1 .. Newest(t) : i \notin C /\ t.nodes[i].kind = "IF_STATEMENT" =>
    t.nodes[i].block # 0 /\ (t.nodes[i].ifType = "IF_ELSE" => t.nodes[i].elseBlock # 0)

LEMMA CompleteStays ==
  ASSUME NEW t, NEW u, Linked(t), Linked(u), NEW C, NEW D, Builds(t, u, D), CompleteBut(t, C)
  PROVE  CompleteBut(u, C \cup D)
<1>1. Newest(t) \in Nat /\ Newest(u) \in Nat /\ Extends(t, u)
  BY SeqIs DEF Linked, Newest, Builds
<1>2. SUFFICES ASSUME NEW i \in 1 .. Newest(u), i \notin C \cup D, u.nodes[i].kind = "IF_STATEMENT"
               PROVE  /\ u.nodes[i].block # 0
                      /\ u.nodes[i].ifType = "IF_ELSE" => u.nodes[i].elseBlock # 0
  BY DEF CompleteBut
<1>3. CASE i \in 1 .. Newest(t)
  <2>1. t.nodes[i].kind = "IF_STATEMENT"
    BY <1>1, <1>2, <1>3 DEF Extends, Same
  <2>2. /\ u.nodes[i].block = t.nodes[i].block /\ u.nodes[i].elseBlock = t.nodes[i].elseBlock
        /\ u.nodes[i].ifType = t.nodes[i].ifType
    BY <1>2, <1>3, <2>1 DEF Builds
  <2>3. QED
    BY <1>2, <1>3, <2>1, <2>2 DEF CompleteBut
<1>4. CASE i \notin 1 .. Newest(t)
  <2>1. i \in Newest(t) + 1 .. Newest(u)
    BY <1>1, <1>4
  <2>2. QED
    BY <1>2, <2>1 DEF Builds
<1>5. QED
  BY <1>3, <1>4

LEMMA CompleteKid ==
  ASSUME NEW t, NEW u, NEW n, Sound(t), KidAdded(t, u, n), CompleteBut(t, {})
  PROVE  CompleteBut(u, {Newest(u)}) /\ (n.kind # "IF_STATEMENT" => CompleteBut(u, {}))
<1>1. PICK c : c = CurrentId(t)
  OBVIOUS
<1>2. /\ Newest(u) = Newest(t) + 1 /\ c \in 1 .. Newest(t) /\ Newest(t) \in Nat
      /\ u.nodes[Newest(u)] = n /\ \A i \in 1 .. Newest(t) : i # c => u.nodes[i] = t.nodes[i]
      /\ u.nodes[c] = [t.nodes[c] EXCEPT !.kids = Append(@, Newest(u))]
  BY <1>1, CurrentIs DEF KidAdded
<1>3. IsNode(t.nodes[c])
  BY <1>2 DEF Sound, Linked, Links
<1>4. /\ u.nodes[c].block = t.nodes[c].block /\ u.nodes[c].elseBlock = t.nodes[c].elseBlock
      /\ u.nodes[c].ifType = t.nodes[c].ifType /\ u.nodes[c].kind = t.nodes[c].kind
  BY <1>2, <1>3 DEF IsNode, NodeFields
<1>5. \A i \in 1 .. Newest(u) : i # Newest(u) => i \in 1 .. Newest(t)
  BY <1>2
<1>6. \A i \in 1 .. Newest(t) : u.nodes[i].kind = "IF_STATEMENT" =>
        u.nodes[i].block # 0 /\ (u.nodes[i].ifType = "IF_ELSE" => u.nodes[i].elseBlock # 0)
  BY <1>2, <1>4 DEF CompleteBut
<1>7. QED
  BY <1>2, <1>5, <1>6 DEF CompleteBut

LEMMA CompleteOperation ==
  ASSUME NEW t, NEW u, NEW at, Sound(t), OperationAdded(t, u, at), CompleteBut(t, {CurrentId(t)}),
         t.nodes[CurrentId(t)].ifType = "IF_ELSE" => t.nodes[CurrentId(t)].block # 0
  PROVE  CompleteBut(u, {})
<1>1. PICK c : c = CurrentId(t)
  OBVIOUS
<1>2. PICK new : new = Newest(t) + 1
  OBVIOUS
<1>3. /\ Newest(u) = new /\ c \in 1 .. Newest(t) /\ Newest(t) \in Nat
      /\ u.nodes[new] = [Node EXCEPT !.kind = "SCOPE_OPERATION", !.at = at]
      /\ \A i \in 1 .. Newest(t) : i # c => u.nodes[i] = t.nodes[i]
      /\ \/ /\ NodeNeedsOperation(t.nodes[c]) = "block"
            /\ u.nodes[c] = [t.nodes[c] EXCEPT !.block = new]
         \/ /\ t.nodes[c].ifType = "IF_ELSE" /\ t.nodes[c].block # 0
            /\ u.nodes[c] = [t.nodes[c] EXCEPT !.elseBlock = new]
  BY <1>1, <1>2, CurrentIs DEF OperationAdded
<1>4. IsNode(t.nodes[c])
  BY <1>3 DEF Sound, Linked, Links
<1>5. u.nodes[new].kind # "IF_STATEMENT"
  BY <1>3 DEF Node
<1>6. u.nodes[c].block # 0 /\ (u.nodes[c].ifType = "IF_ELSE" => u.nodes[c].elseBlock # 0)
  <2>1. CASE /\ NodeNeedsOperation(t.nodes[c]) = "block"
             /\ u.nodes[c] = [t.nodes[c] EXCEPT !.block = new]
    <3>1. u.nodes[c].block = new /\ u.nodes[c].ifType = t.nodes[c].ifType /\ new # 0
      BY <1>2, <1>3, <1>4, <2>1 DEF IsNode, NodeFields
    <3>2. t.nodes[c].ifType # "IF_ELSE"
      <4>1. SUFFICES ASSUME t.nodes[c].ifType = "IF_ELSE" PROVE FALSE
        OBVIOUS
      <4>2. t.nodes[c].block # 0 /\ t.nodes[c].kind = "IF_STATEMENT"
        BY <1>1, <1>3, <4>1 DEF Sound, Linked, Links
      <4>3. NodeNeedsOperation(t.nodes[c]) # "block"
        BY <4>1, <4>2 DEF NodeNeedsOperation
      <4>4. QED
        BY <2>1, <4>3
    <3>3. QED
      BY <3>1, <3>2
  <2>2. CASE /\ t.nodes[c].ifType = "IF_ELSE" /\ t.nodes[c].block # 0
             /\ u.nodes[c] = [t.nodes[c] EXCEPT !.elseBlock = new]
    BY <1>2, <1>3, <1>4, <2>2 DEF IsNode, NodeFields
  <2>3. QED
    BY <1>3, <2>1, <2>2
<1>7. SUFFICES ASSUME NEW i \in 1 .. Newest(u), u.nodes[i].kind = "IF_STATEMENT"
               PROVE  /\ u.nodes[i].block # 0
                      /\ u.nodes[i].ifType = "IF_ELSE" => u.nodes[i].elseBlock # 0
  BY DEF CompleteBut
<1>8. i \in 1 .. Newest(t)
  <2>1. i # new
    BY <1>5, <1>7
  <2>2. i \in 1 .. new
    BY <1>3, <1>7
  <2>3. QED
    BY <1>2, <1>3, <2>1, <2>2
<1>9. CASE i = c
  BY <1>6, <1>9
<1>10. CASE i # c
  BY <1>1, <1>3, <1>7, <1>8, <1>10 DEF CompleteBut
<1>11. QED
  BY <1>9, <1>10

-----------------------------------------------------------------------------
(* What the builder makes of a statement.                                  *)

\* A statement that has an expression of its own.
LEMMA ExpressionStep ==
  ASSUME NEW t, Sound(t), NEW n, Fresh(n), n.kind \in NeedsExpr,
         NEW o, o = AddStatement(t, n), o # Panicked, NEW e, e.depth \in Nat
  PROVE  LET v == ActOnExpressionBonsai(o, e)
         IN /\ KidAdded(t, o, n) /\ t.nodes[CurrentId(t)].kind = "SCOPE_OPERATION"
            /\ CurrentId(o) = Newest(o)
            /\ Sound(v.tree) /\ Alike(o, v.tree) /\ Extends(t, v.tree)
            /\ Len(v.tree.cursor) >= Len(t.cursor)
            /\ v.type # "none" => v.tree.cursor = o.cursor
<1>1. KidAdded(t, o, n) /\ t.nodes[CurrentId(t)].kind = "SCOPE_OPERATION"
  BY StatementAdded DEF NeedsExpr
<1>2. PICK new : new = Newest(t) + 1
  OBVIOUS
<1>3. /\ Sound(o) /\ Extends(t, o) /\ Newest(o) = new /\ o.cursor = Append(t.cursor, new)
      /\ o.nodes[new] = n /\ Newest(t) \in Nat
  BY <1>1, <1>2, CurrentIs DEF KidAdded
<1>4. IsSeq(t.cursor) /\ t.cursor # <<>>
  BY DEF Sound, Pointed
<1>5. CurrentId(o) = new /\ Len(o.cursor) = Len(t.cursor) + 1 /\ Len(t.cursor) \in Nat
  BY <1>3, <1>4, SeqIs, DownAt
<1>6. Current(o) = n
  BY <1>2, <1>3, <1>5 DEF Current
<1>7. PICK v : v = ActOnExpressionBonsai(o, e)
  OBVIOUS
<1>8. /\ Sound(v.tree) /\ Alike(o, v.tree)
      /\ v.type # "none" => v.tree.cursor = o.cursor
      /\ Len(v.tree.cursor) >= Len(o.cursor)
  BY <1>3, <1>6, <1>7, ActedOnExpression
<1>9. Len(v.tree.cursor) \in Nat
  BY <1>8, SeqIs DEF Sound, Pointed
<1>10. Extends(t, v.tree)
  <2>1. Linked(t) /\ Linked(o) /\ Linked(v.tree)
    BY <1>3, <1>8 DEF Sound
  <2>2. Extends(o, v.tree)
    BY <1>8, <2>1, AlikeExtends
  <2>3. QED
    BY <1>3, <2>1, <2>2, ExtendsOn
<1>11. QED
  BY <1>1, <1>3, <1>5, <1>7, <1>8, <1>9, <1>10

\* An expression statement is its expression.
LEMMA EvaluationStep ==
  ASSUME NEW t, Sound(t), NEW n, Fresh(n), n.kind # "SCOPE_OPERATION",
         NEW o, o = AddStatement(t, n), o # Panicked, NEW e, e.depth \in Nat
  PROVE  LET v == Evaluate(o, e)
         IN /\ KidAdded(t, o, n) /\ t.nodes[CurrentId(t)].kind = "SCOPE_OPERATION"
            /\ Sound(v.tree) /\ Alike(o, v.tree) /\ Extends(t, v.tree)
            /\ Len(v.tree.cursor) >= Len(t.cursor)
            /\ v.type # "none" => v.tree.cursor = o.cursor
<1>1. KidAdded(t, o, n) /\ t.nodes[CurrentId(t)].kind = "SCOPE_OPERATION"
  BY StatementAdded
<1>2. PICK new : new = Newest(t) + 1
  OBVIOUS
<1>3. /\ Sound(o) /\ Extends(t, o) /\ Newest(o) = new /\ o.cursor = Append(t.cursor, new)
      /\ Newest(t) \in Nat
  BY <1>1, <1>2, CurrentIs DEF KidAdded
<1>4. IsSeq(t.cursor) /\ t.cursor # <<>>
  BY DEF Sound, Pointed
<1>5. Len(o.cursor) = Len(t.cursor) + 1 /\ Len(t.cursor) \in Nat
  BY <1>3, <1>4, SeqIs, DownAt
<1>6. PICK v : v = Evaluate(o, e)
  OBVIOUS
<1>7. /\ Sound(v.tree) /\ Alike(o, v.tree)
      /\ v.type # "none" => v.tree.cursor = o.cursor
      /\ Len(v.tree.cursor) >= Len(o.cursor)
  <2>1. Newest(o) # 0
    BY <1>2, <1>3
  <2>2. QED
    BY <1>3, <1>6, <2>1, Evaluated
<1>8. Len(v.tree.cursor) \in Nat
  BY <1>7, SeqIs DEF Sound, Pointed
<1>9. Extends(t, v.tree)
  <2>1. Linked(t) /\ Linked(o) /\ Linked(v.tree)
    BY <1>3, <1>7 DEF Sound
  <2>2. Extends(o, v.tree)
    BY <1>7, <2>1, AlikeExtends
  <2>3. QED
    BY <1>3, <2>1, <2>2, ExtendsOn
<1>10. QED
  BY <1>1, <1>5, <1>6, <1>7, <1>8, <1>9

\* An operation is added below the node the cursor went down to.
BelowNode(t, c, id, at, o) ==
  /\ Sound(t) /\ IsSeq(c) /\ c # <<>> /\ t.cursor = Append(c, id)
  /\ o = AddOperationNode(t, at) /\ o # Panicked

AddedBelow(t, c, id, at, o) ==
  /\ OperationAdded(t, o, at) /\ CurrentId(t) = id /\ Sound(o) /\ Extends(t, o)
  /\ Builds(t, o, {id}) /\ (t.nodes[id].kind # "IF_STATEMENT" => Builds(t, o, {}))
  /\ CurrentId(o) = Newest(o) /\ Newest(o) = Newest(t) + 1
  /\ o.nodes[Newest(o)].kind = "SCOPE_OPERATION" /\ o.nodes[Newest(o)].at = at
  /\ o.cursor = Append(Append(c, id), Newest(o)) /\ id \in 1 .. Newest(t)

LEMMA ScopeStep ==
  ASSUME NEW t, NEW c, NEW id, NEW at, NEW o, BelowNode(t, c, id, at, o)
  PROVE  AddedBelow(t, c, id, at, o)
<1> USE DEF BelowNode
<1>1. OperationAdded(t, o, at)
  BY OperationNodeAdded
<1>2. CurrentId(t) = id
  BY DownAt
<1>3. /\ Builds(t, o, {id}) /\ (t.nodes[id].kind # "IF_STATEMENT" => Builds(t, o, {}))
      /\ Newest(o) = Newest(t) + 1
      /\ o.nodes[Newest(o)].kind = "SCOPE_OPERATION" /\ o.nodes[Newest(o)].at = at
  BY <1>1, <1>2, OperationBuilds
<1>4. Sound(o) /\ Extends(t, o) /\ o.cursor = Append(t.cursor, Newest(t) + 1) /\ id \in 1 .. Newest(t)
  BY <1>1, <1>2 DEF OperationAdded
<1>5. CurrentId(o) = Newest(t) + 1
  <2>1. IsSeq(t.cursor) /\ t.cursor # <<>>
    BY DEF Sound, Pointed
  <2>2. QED
    BY <1>4, <2>1, DownAt
<1>6. QED
  BY <1>1, <1>2, <1>3, <1>4, <1>5 DEF AddedBelow

-----------------------------------------------------------------------------
(* Parameters.                                                             *)

\* Parameters were declared below the handle h is at, or the program stopped.
Declared(h, acc) ==
  /\ acc.error \in BOOLEAN
  /\ acc.tree = Panicked \/ /\ Sound(acc.tree) /\ acc.tree.cursor = h.cursor
                            /\ Builds(h, acc.tree, {})

LEMMA PanickedStays == TraverseUp(Panicked) = Panicked /\ \A i : AddFuncParameterDecl(Panicked, i) = Panicked
<1>1. PICK c : c = <<0>> /\ Len(c) = 1 /\ c[1] = 0
  <2>1. Len(<<0>>) = 1 /\ <<0>>[1] = 0
    BY OneSeq
  <2>2. QED
    BY <2>1
<1>2. Panicked.cursor = c
  BY <1>1 DEF Panicked
<1>3. CurrentId(Panicked) = 0
  BY <1>1, <1>2 DEF CurrentId, Last
<1>4. Current(Panicked).kind # "NODE_HANDLE"
  BY <1>3 DEF Current, Node
<1>5. TraverseUp(Panicked) = Panicked
  BY <1>1, <1>2 DEF TraverseUp
<1>6. QED
  BY <1>4, <1>5 DEF AddFuncParameterDecl

LEMMA ParameterDeclared ==
  ASSUME NEW h, Sound(h), NEW acc, Declared(h, acc), NEW i
  PROVE  Declared(h, ActOnParameter(acc, i))
<1>1. CASE \E j \in 1 .. i - 1 : Body_.params[j] = Body_.params[i]
  <2>1. ActOnParameter(acc, i) = [acc EXCEPT !.error = TRUE]
    BY <1>1 DEF ActOnParameter
  <2>2. [acc EXCEPT !.error = TRUE].tree = acc.tree /\ [acc EXCEPT !.error = TRUE].error \in BOOLEAN
    OBVIOUS
  <2>3. QED
    BY <2>1, <2>2 DEF Declared
<1>2. CASE ~ \E j \in 1 .. i - 1 : Body_.params[j] = Body_.params[i]
  <2>1. PICK x : x = acc.tree
    OBVIOUS
  <2>2. PICK y : y = AddFuncParameterDecl(x, i - 1)
    OBVIOUS
  <2>3. PICK z : z = TraverseUp(y)
    OBVIOUS
  <2>4. ActOnParameter(acc, i).tree = z /\ ActOnParameter(acc, i).error = acc.error
    BY <1>2, <2>1, <2>2, <2>3 DEF ActOnParameter
  <2>5. CASE y = Panicked
    <3>1. z = Panicked
      BY <2>3, <2>5, PanickedStays
    <3>2. QED
      BY <2>4, <3>1 DEF Declared
  <2>6. CASE y # Panicked
    <3>1. x # Panicked
      BY <2>2, <2>6, PanickedStays
    <3>2. Sound(x) /\ x.cursor = h.cursor /\ Builds(h, x, {})
      BY <2>1, <3>1 DEF Declared
    <3>3. PICK n : n = [Node EXCEPT !.kind = "DECL_PARAMETER"]
      OBVIOUS
    <3>4. Fresh(n) /\ n.to = 0 /\ n.kind = "DECL_PARAMETER"
      BY <3>3 DEF Fresh, Node, IsNode, NodeFields
    <3>5. KidAdded(x, y, n) /\ x.nodes[CurrentId(x)].kind = "NODE_HANDLE"
      BY <2>2, <2>6, <3>2, <3>3, ParameterAdded
    <3>6. Builds(x, y, {})
      BY <3>2, <3>4, <3>5, KidBuilds
    <3>7. Sound(y) /\ y.cursor = Append(x.cursor, Newest(x) + 1)
      BY <3>5 DEF KidAdded
    <3>8. IsSeq(x.cursor) /\ x.cursor # <<>>
      BY <3>2 DEF Sound, Pointed
    <3>9. Sound(z) /\ z.nodes = y.nodes /\ z.cursor = x.cursor
      <4>1. PICK c, id : c = x.cursor /\ id = Newest(x) + 1
        OBVIOUS
      <4>2. IsSeq(c) /\ c # <<>> /\ y.cursor = Append(c, id)
        BY <3>7, <3>8, <4>1
      <4>3. LET u == TraverseUp(y) IN Sound(u) /\ u.nodes = y.nodes /\ u.cursor = c
        BY <3>7, <4>2, DownUp
      <4>4. QED
        BY <2>3, <4>1, <4>3
    <3>10. Linked(h) /\ Linked(x) /\ Linked(y) /\ Linked(z)
      BY <3>2, <3>7, <3>9 DEF Sound
    <3>11. Builds(y, z, {})
      BY <3>9, <3>10, CursorBuilds
    <3>12. PICK E : E = {} /\ E \cup E = E
      OBVIOUS
    <3>13. Builds(h, y, E)
      BY <3>2, <3>6, <3>10, <3>12, BuildsOn
    <3>14. Builds(h, z, E)
      BY <3>10, <3>11, <3>12, <3>13, BuildsOn
    <3>15. QED
      BY <2>4, <3>2, <3>9, <3>12, <3>14 DEF Declared
  <2>7. QED
    BY <2>5, <2>6
<1>3. QED
  BY <1>1, <1>2

\* Parameters one after the other, from acc on.
After(acc, n, f) == f = [i \in 0 .. n |-> IF i = 0 THEN acc ELSE ActOnParameter(f[i - 1], i)]

LEMMA AfterExists ==
  ASSUME NEW acc, NEW n \in Nat
  PROVE  \E f : After(acc, n, f)
<1> DEFINE T == {k \in Nat : ~ \E f : After(acc, k, f)}
<1>1. SUFFICES ASSUME T # {} PROVE FALSE
  OBVIOUS
<1>2. PICK l \in T : \A k \in T : l <= k
  <2>1. T \subseteq Nat
    OBVIOUS
  <2>2. QED
    BY <1>1, <2>1, Least
<1>3. l \in Nat /\ ~ \E f : After(acc, l, f)
  BY <1>2
<1>4. CASE l = 0
  <2>1. PICK f : f = [i \in 0 .. 0 |-> acc]
    OBVIOUS
  <2>2. \A i \in 0 .. 0 : i = 0
    OBVIOUS
  <2>3. f = [i \in 0 .. 0 |-> IF i = 0 THEN acc ELSE ActOnParameter(f[i - 1], i)]
    BY <2>1, <2>2
  <2>4. QED
    BY <1>3, <1>4, <2>3 DEF After
<1>5. CASE l # 0
  <2>1. PICK k \in Nat : l = k + 1
    <3>1. l - 1 \in Nat /\ l = (l - 1) + 1
      BY <1>3, <1>5
    <3>2. QED
      BY <3>1
  <2>2. k \notin T
    BY <1>2, <2>1
  <2>3. PICK f : After(acc, k, f)
    BY <2>2
  <2>4. PICK g : g = [i \in 0 .. l |-> IF i = l THEN ActOnParameter(f[k], l) ELSE f[i]]
    OBVIOUS
  <2>5. \A i \in 0 .. l : g[i] = IF i = 0 THEN acc ELSE ActOnParameter(g[i - 1], i)
    <3>1. TAKE i \in 0 .. l
    <3>2. CASE i = l
      <4>1. k \in 0 .. l /\ k # l /\ i - 1 = k /\ i # 0
        BY <2>1, <3>2
      <4>2. g[k] = f[k] /\ g[i] = ActOnParameter(f[k], l)
        BY <2>4, <3>2, <4>1
      <4>3. QED
        BY <3>2, <4>1, <4>2
    <3>3. CASE i # l
      <4>1. i \in 0 .. k
        BY <2>1, <3>3
      <4>2. f[i] = IF i = 0 THEN acc ELSE ActOnParameter(f[i - 1], i)
        BY <2>3, <4>1 DEF After
      <4>3. g[i] = f[i]
        BY <2>4, <3>3
      <4>4. i # 0 => g[i - 1] = f[i - 1]
        <5>1. i # 0 => i - 1 \in 0 .. l /\ i - 1 # l
          BY <2>1, <4>1
        <5>2. QED
          BY <2>4, <5>1
      <4>5. QED
        BY <4>2, <4>3, <4>4
    <3>4. QED
      BY <3>2, <3>3
  <2>6. g = [i \in 0 .. l |-> IF i = 0 THEN acc ELSE ActOnParameter(g[i - 1], i)]
    BY <2>4, <2>5
  <2>7. QED
    BY <1>3, <2>6 DEF After
<1>6. QED
  BY <1>4, <1>5

LEMMA ParametersDeclared ==
  ASSUME NEW h, Sound(h), Len(Body_.params) \in Nat
  PROVE  Declared(h, ActOnParameters(h))
<1>1. PICK n \in Nat : n = Len(Body_.params)
  OBVIOUS
<1>2. PICK acc : acc = [tree |-> h, decls |-> {}, error |-> FALSE]
  OBVIOUS
<1>3. ActOnParameters(h) =
        (CHOOSE f : f = [i \in 0 .. n |-> IF i = 0 THEN acc ELSE ActOnParameter(f[i - 1], i)])[n]
  BY <1>1, <1>2 DEF ActOnParameters
<1>4. PICK f : After(acc, n, f) /\ ActOnParameters(h) = f[n]
  <2>1. \E f : f = [i \in 0 .. n |-> IF i = 0 THEN acc ELSE ActOnParameter(f[i - 1], i)]
    <3>1. PICK f : After(acc, n, f)
      BY AfterExists
    <3>2. QED
      BY <3>1, Zenon DEF After
  <2>2. PICK g : /\ g = (CHOOSE f : f = [i \in 0 .. n |-> IF i = 0 THEN acc ELSE ActOnParameter(f[i - 1], i)])
                 /\ g = [i \in 0 .. n |-> IF i = 0 THEN acc ELSE ActOnParameter(g[i - 1], i)]
    BY <2>1, Zenon
  <2>3. ActOnParameters(h) = g[n]
    BY <1>3, <2>2, Zenon
  <2>4. After(acc, n, g)
    BY <2>2, Zenon DEF After
  <2>5. QED
    BY <2>3, <2>4, Zenon
<1>5. Declared(h, acc)
  <2>1. Builds(h, h, {})
    BY CursorBuilds DEF Sound
  <2>2. QED
    BY <1>2, <2>1 DEF Declared
<1> DEFINE T == {k \in 0 .. n : ~Declared(h, f[k])}
<1>6. SUFFICES ASSUME T # {} PROVE FALSE
  BY <1>1, <1>4
<1>7. PICK l \in T : \A k \in T : l <= k
  <2>1. T \subseteq Nat
    OBVIOUS
  <2>2. QED
    BY <1>6, <2>1, Least
<1>8. l \in 0 .. n /\ ~Declared(h, f[l])
  BY <1>7
<1>9. f[l] = IF l = 0 THEN acc ELSE ActOnParameter(f[l - 1], l)
  BY <1>4, <1>8 DEF After
<1>10. l # 0
  BY <1>5, <1>8, <1>9
<1>11. l - 1 \in 0 .. n /\ ~ (l <= l - 1)
  BY <1>8, <1>10
<1>12. Declared(h, f[l - 1])
  BY <1>7, <1>11
<1>13. QED
  BY <1>8, <1>9, <1>10, <1>12, ParameterDeclared

-----------------------------------------------------------------------------
(* The invariant behind TypeOK, CursorFollowsScopes and ReturnsFound.      *)

ScopeFields == {"owner", "node", "ind", "decls"}
IsScope(s)  == s = [k \in ScopeFields |-> s[k]]

\* Scopes in a tree of n nodes; only the module's has no owner.
ScopesIn(ss, n) ==
  /\ IsSeq(ss)
  /\ \A i \in DOMAIN ss : /\ IsScope(ss[i]) /\ ss[i].owner \in 0 .. n /\ ss[i].node \in 1 .. n
                          /\ i # 1 => ss[i].owner # 0

\* The cursor goes down through every owner and its operation.
AtScopes(c, ss) ==
  /\ Len(c) = 2 * Len(ss) - 1
  /\ \A i \in 1 .. Len(ss) : /\ c[2 * i - 1] = ss[i].node
                             /\ i # 1 => c[2 * i - 2] = ss[i].owner

Framed(fs)  == IsSeq(fs) /\ \A i \in DOMAIN fs : fs[i] \in 0 .. Address
Written(tx) == IsSeq(tx) /\ \A i \in DOMAIN tx : TextLine(tx[i])

\* A statement has the end of its line behind it.
Ended(s) == \A i \in DOMAIN s : s[i].tok = "STATEMENT" => Len(s) = i + 1

Wordless(s) == \A i \in DOMAIN s : s[i].tok # "STATEMENT"

Values == /\ menu \in DOMAIN Menus /\ pc \in {"statement", "indent"} /\ reported \in BOOLEAN
          /\ status \in {"running", "done", "rejected", "panic", "crash", "generator"}
          /\ Framed(frames)

Reading == /\ Written(text) /\ LexOK(lex) /\ Ended(lex.toks)
           /\ text = <<>> => lex.at \in {"fresh", "end"} /\ Wordless(lex.toks)

Building ==
  /\ Sound(tree) /\ ScopesIn(scopes, Newest(tree))
  /\ status # "done" => /\ Len(scopes) = Len(frames) + 1
                        /\ Len(tree.cursor) >= 2 * Len(scopes) - 1
  /\ Running /\ ~reported => AtScopes(tree.cursor, scopes)
  /\ Running /\ frames # <<>> => tree.nodes[scopes[2].owner].kind = "DECL_FUNC"
  /\ Running /\ pc = "indent" => frames # <<>>
  /\ ~reported => CompleteBut(tree, {})

Inv == Values /\ Reading /\ Building

-----------------------------------------------------------------------------
(* The lexer's steps keep it.                                              *)

\* The lines a text goes on with.
LEMMA NextLineIs ==
  ASSUME Inv, NEW l \in NextLines
  PROVE  TextLine(l)
<1>1. menu \in DOMAIN Menus /\ IsSeq(text)
  BY DEF Inv, Values, Reading, Written
<1>2. PICK b : b = Menus[menu].begin
  OBVIOUS
<1>3. b \in Seq(ToSet(b)) /\ \A x \in ToSet(b) \cup Menus[menu].lines : TextLine(x)
  BY <1>1, <1>2, MenusAssumption
<1>4. PICK n \in Nat : n = Len(text) /\ Here = n
  BY <1>1, SeqIs DEF Here
<1>5. CASE n < Len(b)
  <2>1. l = b[n + 1]
    BY <1>2, <1>4, <1>5 DEF NextLines
  <2>2. Len(b) \in Nat /\ DOMAIN b = 1 .. Len(b)
    BY <1>3
  <2>3. n + 1 \in DOMAIN b
    BY <1>5, <2>2
  <2>4. l \in ToSet(b)
    BY <1>3, <2>1, <2>3 DEF ToSet
  <2>5. QED
    BY <1>3, <2>4
<1>6. CASE ~ (n < Len(b))
  BY <1>2, <1>3, <1>4, <1>6 DEF NextLines
<1>7. QED
  BY <1>5, <1>6

LEMMA TextGrows ==
  ASSUME NEW tx, Written(tx), NEW l, TextLine(l)
  PROVE  Written(Append(tx, l)) /\ Append(tx, l) # <<>>
<1>1. PICK n \in Nat : n = Len(tx) /\ DOMAIN tx = 1 .. n
  BY SeqIs DEF Written
<1>2. PICK r : r = Append(tx, l)
  OBVIOUS
<1>3. IsSeq(r) /\ Len(r) = n + 1 /\ DOMAIN r = 1 .. n + 1 /\ r[n + 1] = l /\ \A i \in 1 .. n : r[i] = tx[i]
  BY <1>1, <1>2, SeqAppended DEF Written
<1>4. \A i \in DOMAIN r : TextLine(r[i])
  BY <1>1, <1>3 DEF Written
<1>5. r # <<>>
  BY <1>3, SeqIs
<1>6. QED
  BY <1>2, <1>3, <1>4, <1>5 DEF Written

LEMMA LastLine ==
  ASSUME NEW tx, Written(tx), tx # <<>>
  PROVE  TextLine(Last(tx)) /\ Last(tx) = tx[Len(tx)] /\ Len(tx) \in DOMAIN tx /\ Len(tx) \in Nat
<1>1. Len(tx) \in DOMAIN tx /\ Last(tx) = tx[Len(tx)] /\ Len(tx) \in Nat
  BY SeqFront, SeqIs DEF Written
<1>2. QED
  BY <1>1 DEF Written

\* Indentation has no statement in it.
LEMMA IndentWordless ==
  ASSUME NEW x, LexOK(x), NEW ind \in Mixed .. Address
  PROVE  LET s == Indent(x, ind).toks
         IN /\ IsSeq(s) /\ Tokens(s) /\ Wordless(s)
            /\ \A i \in DOMAIN s : s[i].tok \in {"INDENT", "DEDENT"}
<1>1. PICK in : in = Indent(x, ind)
  OBVIOUS
<1>2. /\ Tokens(in.toks)
      /\ \/ in.toks = <<>>
         \/ in.toks = <<Tok("INDENT", ind)>>
         \/ \A i \in DOMAIN in.toks : in.toks[i] = Tok("DEDENT", ind)
  BY <1>1, IndentIs DEF Closes
<1>3. \A i \in DOMAIN in.toks : in.toks[i].tok \in {"INDENT", "DEDENT"}
  <2>1. CASE in.toks = <<>>
    BY <2>1, NoneSeq
  <2>2. CASE in.toks = <<Tok("INDENT", ind)>>
    BY <2>2, OneSeq DEF Tok
  <2>3. CASE \A i \in DOMAIN in.toks : in.toks[i] = Tok("DEDENT", ind)
    BY <2>3 DEF Tok
  <2>4. QED
    BY <1>2, <2>1, <2>2, <2>3
<1>4. Wordless(in.toks)
  BY <1>3 DEF Wordless
<1>5. QED
  BY <1>1, <1>2, <1>3, <1>4 DEF Tokens

\* The tokens behind it.
LEMMA BodyIs ==
  ASSUME NEW l, TextLine(l)
  PROVE  LET s == Body(l)   end == IF l.nl THEN "EOL" ELSE "EOF"
         IN /\ IsSeq(s)
            /\ \/ l.body.kind = "bad" /\ Len(s) = 0
               \/ l.body.kind \in {"blank", "comment"} /\ Len(s) = 1 /\ s[1].tok = end
               \/ /\ IsStatement(l) /\ Len(s) = 2 /\ s[1].tok = "STATEMENT" /\ s[2].tok = end
<1>1. PICK e : e = Tok(IF l.nl THEN "EOL" ELSE "EOF", 0)
  OBVIOUS
<1>2. PICK st : st = TokenOf(l.body)
  OBVIOUS
<1>3. e.tok = (IF l.nl THEN "EOL" ELSE "EOF") /\ st.tok = "STATEMENT"
  BY <1>1, <1>2 DEF Tok, TokenOf
<1>4. Body(l) = CASE l.body.kind = "bad"                  -> <<>>
                  [] l.body.kind \in {"blank", "comment"} -> <<e>>
                  [] OTHER                                -> <<st, e>>
  BY <1>1, <1>2 DEF Body
<1>5. CASE l.body.kind = "bad"
  <2>1. Body(l) = <<>>
    BY <1>4, <1>5
  <2>2. QED
    BY <1>5, <2>1, NoneSeq
<1>6. CASE l.body.kind \in {"blank", "comment"}
  <2>1. Body(l) = <<e>>
    BY <1>4, <1>6
  <2>2. IsSeq(<<e>>) /\ Len(<<e>>) = 1 /\ <<e>>[1] = e
    BY OneSeq
  <2>3. QED
    BY <1>3, <1>6, <2>1, <2>2
<1>7. CASE l.body.kind \notin {"bad", "blank", "comment"}
  <2>1. Body(l) = <<st, e>>
    BY <1>4, <1>7
  <2>2. IsSeq(<<st, e>>) /\ Len(<<st, e>>) = 2 /\ <<st, e>>[1] = st /\ <<st, e>>[2] = e
    BY TwoSeq
  <2>3. IsStatement(l)
    BY <1>7 DEF TextLine
  <2>4. QED
    BY <1>3, <2>1, <2>2, <2>3
<1>8. QED
  BY <1>5, <1>6, <1>7

LEMMA ReadsEnded ==
  ASSUME NEW x, LexOK(x), NEW l, TextLine(l)
  PROVE  Ended(Reads(x, l).toks)
<1>1. l.ind \in Mixed .. Address
  BY DEF TextLine
<1>2. PICK s : s = Indent(x, l.ind).toks /\ IsSeq(s) /\ Wordless(s)
  BY <1>1, IndentWordless
<1>3. PICK b : b = Body(l)
  OBVIOUS
<1>4. /\ IsSeq(b) /\ Len(b) \in 0 .. 2
      /\ \A i \in 1 .. Len(b) : b[i].tok = "STATEMENT" => Len(b) = i + 1
  <2>1. /\ IsSeq(b)
        /\ \/ Len(b) = 0
           \/ Len(b) = 1 /\ b[1].tok \in {"EOL", "EOF"}
           \/ Len(b) = 2 /\ b[2].tok \in {"EOL", "EOF"}
    BY <1>3, BodyIs
  <2>2. CASE Len(b) = 0
    BY <2>1, <2>2
  <2>3. CASE Len(b) = 1
    <3>1. b[1].tok # "STATEMENT" /\ \A i \in 1 .. Len(b) : i = 1
      BY <2>1, <2>3
    <3>2. QED
      BY <2>1, <2>3, <3>1
  <2>4. CASE Len(b) = 2
    <3>1. b[2].tok # "STATEMENT" /\ \A i \in 1 .. Len(b) : i = 1 \/ i = 2
      BY <2>1, <2>4
    <3>2. QED
      BY <2>1, <2>4, <3>1
  <2>5. QED
    BY <2>1, <2>2, <2>3, <2>4
<1>5. Len(s) \in Nat /\ DOMAIN s = 1 .. Len(s)
  BY <1>2, SeqIs
<1>6. PICK r : r = s \o b
  OBVIOUS
<1>7. /\ DOMAIN r = 1 .. Len(s) + Len(b) /\ Len(r) = Len(s) + Len(b)
      /\ \A i \in 1 .. Len(s) : r[i] = s[i]
      /\ \A i \in 1 .. Len(b) : r[Len(s) + i] = b[i]
  BY <1>2, <1>4, <1>6, SeqJoined
<1>8. Ended(r)
  <2>1. SUFFICES ASSUME NEW i \in DOMAIN r, r[i].tok = "STATEMENT" PROVE Len(r) = i + 1
    BY DEF Ended
  <2>2. ~ (i \in 1 .. Len(s))
    BY <1>2, <1>5, <1>7, <2>1 DEF Wordless
  <2>3. PICK j \in 1 .. Len(b) : i = Len(s) + j
    <3>1. i \in 1 .. Len(s) + Len(b)
      BY <1>7
    <3>2. i - Len(s) \in 1 .. Len(b) /\ i = Len(s) + (i - Len(s))
      BY <1>4, <1>5, <2>2, <3>1
    <3>3. QED
      BY <3>2
  <2>4. b[j].tok = "STATEMENT"
    BY <1>7, <2>1, <2>3
  <2>5. Len(b) = j + 1
    BY <1>4, <2>4
  <2>6. QED
    BY <1>5, <1>7, <2>3, <2>5
<1>9. Ended(s)
  BY <1>2 DEF Ended, Wordless
<1>10. Reads(x, l).toks \in {s, s \o b}
  BY <1>2, <1>3, ReadsOK
<1>11. QED
  BY <1>6, <1>8, <1>9, <1>10

LEMMA BuildingStays ==
  Building /\ UNCHANGED <<frames, scopes, tree, pc, status>> /\ (reported => reported') => Building'
BY DEF Building, Running

\* The lexer after a line, or what is left of one, was read.
LEMMA LineRead ==
  ASSUME Inv, NEW l, TextLine(l), Read(l), Written(text'), text' # <<>>,
         UNCHANGED <<menu, pc, frames, scopes, tree, status>>
  PROVE  Inv'
<1>1. LexOK(lex) /\ reported \in BOOLEAN
  BY DEF Inv, Reading, Values
<1>2. LexOK(lex') /\ Ended(lex'.toks)
  <2>1. lex' = Reads(lex, l)
    BY DEF Read
  <2>2. LexOK(Reads(lex, l)) /\ Ended(Reads(lex, l).toks)
    BY <1>1, ReadsOK, ReadsEnded
  <2>3. QED
    BY <2>1, <2>2
<1>3. reported' \in BOOLEAN /\ (reported => reported')
  BY <1>1 DEF Read, Complains, Broken
<1>4. Reading'
  BY <1>2 DEF Reading
<1>5. Values'
  BY <1>3 DEF Inv, Values
<1>6. Building'
  BY <1>3, BuildingStays DEF Inv
<1>7. QED
  BY <1>4, <1>5, <1>6 DEF Inv

LEMMA LexKeeps ==
  ASSUME Inv, Lex
  PROVE  Inv'
<1>1. Written(text) /\ LexOK(lex) /\ Ended(lex.toks) /\ reported \in BOOLEAN
  BY DEF Inv, Reading, Values
<1>2. ASSUME NEW l \in NextLines, PassesOver(lex, l), text' = Append(text, l), Running,
             lex' = [lex EXCEPT !.indented = Indented(lex, l.ind)],
             UNCHANGED <<menu, pc, frames, scopes, tree, reported, status>>
      PROVE  Inv'
  <2>1. TextLine(l)
    BY NextLineIs
  <2>2. Written(text') /\ text' # <<>>
    BY <1>1, <1>2, <2>1, TextGrows
  <2>3. PICK b \in BOOLEAN : b = Indented(lex, l.ind)
    BY <1>1 DEF LexOK, Indented
  <2>4. PICK y : y = [lex EXCEPT !.indented = b]
    OBVIOUS
  <2>5. /\ y = [k \in LexFields |-> y[k]] /\ y.at = lex.at /\ y.stack = lex.stack
        /\ y.indented = b /\ y.toks = lex.toks /\ y.reading = lex.reading
    BY <1>1, <2>4 DEF LexOK, LexFields
  <2>6. LexOK(y)
    BY <1>1, <2>5 DEF LexOK
  <2>7. Reading'
    BY <1>1, <1>2, <2>2, <2>3, <2>4, <2>5, <2>6 DEF Reading
  <2>8. Values'
    BY <1>2 DEF Inv, Values
  <2>9. Building'
    BY <1>2, BuildingStays DEF Inv
  <2>10. QED
    BY <2>7, <2>8, <2>9 DEF Inv
<1>3. CASE PassOverBlank
  BY <1>2, <1>3 DEF PassOverBlank
<1>4. CASE ReadLine
  <2>1. PICK l \in NextLines : text' = Append(text, l) /\ Read(l)
    BY <1>4 DEF ReadLine
  <2>2. TextLine(l)
    BY NextLineIs
  <2>3. Written(text') /\ text' # <<>>
    BY <1>1, <2>1, <2>2, TextGrows
  <2>4. QED
    BY <1>4, <2>1, <2>2, <2>3, LineRead DEF ReadLine
<1>5. CASE ReadAgain
  <2>1. text # <<>>
    BY <1>5 DEF ReadAgain, Inv, Reading
  <2>2. PICK l : l = Last(text) /\ TextLine(l)
    BY <1>1, <2>1, LastLine
  <2>3. PICK m : m = RestOf(l)
    OBVIOUS
  <2>4. TextLine(m)
    <3>1. DOMAIN l = {"ind", "body", "nl"}
      BY <2>2 DEF TextLine
    <3>2. /\ DOMAIN m = {"ind", "body", "nl"} /\ m.ind \in {Mixed, 0}
          /\ m.body = l.body /\ m.nl = l.nl
      BY <2>3, <3>1 DEF RestOf
    <3>3. m.ind \in Mixed .. Address
      BY <3>2 DEF Mixed, Address
    <3>4. IsStatement(m) <=> IsStatement(l)
      BY <3>2 DEF IsStatement
    <3>5. QED
      BY <2>2, <3>2, <3>3, <3>4 DEF TextLine
  <2>5. Read(l) \/ Read(m)
    BY <1>5, <2>2, <2>3 DEF ReadAgain
  <2>6. Written(text') /\ text' # <<>> /\ UNCHANGED <<menu, pc, frames, scopes, tree, status>>
    BY <1>1, <1>5, <2>1 DEF ReadAgain
  <2>7. QED
    BY <2>2, <2>4, <2>5, <2>6, LineRead
<1>6. CASE ReadEnd
  <2>1. PICK y : y = ReadsEnd(lex)
    OBVIOUS
  <2>2. lex' = y /\ UNCHANGED <<menu, text, pc, frames, scopes, tree, reported, status>>
    BY <1>6, <2>1 DEF ReadEnd
  <2>3. LexOK(y) /\ y.at = "end" /\ y.toks = Append(Indent(lex, 0).toks, Tok("EOF", 0))
    BY <1>1, <2>1, ReadsEndOK
  <2>4. Wordless(y.toks)
    <3>1. 0 \in Mixed .. Address
      BY DEF Mixed, Address
    <3>2. PICK s : s = Indent(lex, 0).toks /\ IsSeq(s) /\ Wordless(s)
      BY <1>1, <3>1, IndentWordless
    <3>3. PICK e : e = Tok("EOF", 0) /\ e.tok # "STATEMENT"
      <4>1. Tok("EOF", 0).tok # "STATEMENT"
        BY DEF Tok
      <4>2. QED
        BY <4>1
    <3>4. PICK n \in Nat : n = Len(s) /\ DOMAIN s = 1 .. n
      BY <3>2, SeqIs
    <3>5. PICK r : r = Append(s, e)
      OBVIOUS
    <3>6. DOMAIN r = 1 .. n + 1 /\ r[n + 1] = e /\ \A i \in 1 .. n : r[i] = s[i]
      BY <3>2, <3>4, <3>5, SeqAppended
    <3>7. Wordless(r)
      BY <3>2, <3>3, <3>4, <3>6 DEF Wordless
    <3>8. QED
      BY <2>3, <3>2, <3>3, <3>5, <3>7
  <2>5. Ended(y.toks)
    BY <2>4 DEF Ended, Wordless
  <2>6. Reading'
    BY <1>1, <2>2, <2>3, <2>4, <2>5 DEF Reading
  <2>7. Values'
    BY <2>2 DEF Inv, Values
  <2>8. Building'
    BY <2>2, BuildingStays DEF Inv
  <2>9. QED
    BY <2>6, <2>7, <2>8 DEF Inv
<1>7. QED
  BY <1>3, <1>4, <1>5, <1>6 DEF Lex

-----------------------------------------------------------------------------
(* How the parser's and the analysis's steps end.                          *)

\* The program stops.
LEMMA StopKeeps ==
  ASSUME Inv, Running, NEW error \in BOOLEAN,
         NEW how \in {"rejected", "panic", "crash", "generator"}, StopAfter(error, how)
  PROVE  Inv'
<1>1. /\ UNCHANGED <<menu, text, lex, pc, frames, scopes, tree>> /\ status' = how
      /\ reported' = (reported \/ error) /\ how # "running" /\ how # "done"
  BY DEF StopAfter
<1>2. Values'
  BY <1>1 DEF Inv, Values
<1>3. Reading'
  BY <1>1 DEF Inv, Reading
<1>4. Building'
  BY <1>1 DEF Inv, Building, Running
<1>5. QED
  BY <1>2, <1>3, <1>4 DEF Inv

\* A token is seen.
LEMMA SeesIs ==
  ASSUME Inv, lex.toks # <<>>
  PROVE  /\ Head(lex.toks) = lex.toks[1] /\ AToken(lex.toks[1]) /\ 1 \in DOMAIN lex.toks
         /\ Len(lex.toks) \in Nat /\ Len(lex.toks) # 0 /\ DOMAIN lex.toks = 1 .. Len(lex.toks)
<1>1. Tokens(lex.toks)
  BY DEF Inv, Reading, LexOK
<1>2. Len(lex.toks) \in Nat /\ Len(lex.toks) # 0 /\ DOMAIN lex.toks = 1 .. Len(lex.toks)
  BY <1>1, SeqIs DEF Tokens
<1>3. PICK S : lex.toks \in Seq(S)
  BY <1>1 DEF Tokens, IsSeq
<1>4. Head(lex.toks) = lex.toks[1]
  BY <1>3
<1>5. QED
  BY <1>1, <1>2, <1>4 DEF Tokens

\* A statement is seen: it is on the last line read, with the line's end behind it.
LEMMA StatementSeen ==
  ASSUME Inv, Sees("STATEMENT")
  PROVE  /\ Running /\ ~lex.reading /\ lex.toks # <<>> /\ Len(lex.toks) = 2 /\ lex.toks[1].tok = "STATEMENT"
         /\ text # <<>> /\ TextLine(Last(text)) /\ Len(Body_.params) \in Nat
         /\ DOMAIN Body_.params = 1 .. Len(Body_.params) /\ Body_.expr.depth \in Nat
         /\ Here \in DOMAIN text /\ Body_ = text[Here].body /\ Last(text) = text[Here]
<1>1. Running /\ ~lex.reading /\ lex.toks # <<>> /\ Head(lex.toks).tok = "STATEMENT"
  BY DEF Sees
<1>2. lex.toks[1].tok = "STATEMENT" /\ 1 \in DOMAIN lex.toks
  BY <1>1, SeesIs
<1>3. Len(lex.toks) = 1 + 1
  BY <1>2 DEF Inv, Reading, Ended
<1>4. text # <<>>
  BY <1>2 DEF Inv, Reading, Wordless
<1>5. TextLine(Last(text)) /\ Last(text) = text[Here] /\ Here \in DOMAIN text
  BY <1>4, LastLine DEF Inv, Reading, Here
<1>6. Body_.params \in Seq(STRING) /\ Body_.expr.depth \in Nat
  BY <1>5 DEF TextLine, Body_
<1>7. QED
  BY <1>1, <1>2, <1>3, <1>4, <1>5, <1>6 DEF Body_

\* The activation's `tok` is the token seen.
LEMMA SeenIs ==
  ASSUME Inv, lex.toks # <<>>
  PROVE  Framed(Seen) /\ Len(Seen) = Len(frames) /\ (Seen = <<>> <=> frames = <<>>)
<1>1. Framed(frames) /\ Len(frames) \in Nat /\ DOMAIN frames = 1 .. Len(frames) /\ (frames = <<>> <=> Len(frames) = 0)
  BY SeqIs DEF Inv, Values, Framed
<1>2. CASE InModule
  BY <1>1, <1>2 DEF Seen, InModule
<1>3. CASE ~InModule
  <2>1. PICK d \in 0 .. Address : d = Head(lex.toks).data
    BY SeesIs DEF AToken
  <2>2. PICK k \in DOMAIN frames : k = Len(frames)
    BY <1>1, <1>3 DEF InModule
  <2>3. PICK r : r = [frames EXCEPT ![k] = d]
    OBVIOUS
  <2>4. /\ IsSeq(r) /\ Len(r) = Len(frames) /\ DOMAIN r = DOMAIN frames /\ r[k] = d
        /\ \A j \in DOMAIN frames : j # k => r[j] = frames[j]
    BY <1>1, <2>3, SeqChanged DEF Framed
  <2>5. Framed(r)
    <3>1. \A j \in DOMAIN r : r[j] \in 0 .. Address
      BY <1>1, <2>4 DEF Framed
    <3>2. QED
      BY <2>4, <3>1 DEF Framed
  <2>6. Seen = r
    BY <1>3, <2>1, <2>2, <2>3 DEF Seen
  <2>7. r = <<>> <=> frames = <<>>
    BY <1>1, <2>4, SeqIs
  <2>8. QED
    BY <2>4, <2>5, <2>6, <2>7
<1>4. QED
  BY <1>2, <1>3

\* Tokens are taken, a line is called for.
LEMMA TakeReading ==
  ASSUME Inv, lex.toks # <<>>, NEW n \in 1 .. Len(lex.toks), lex' = Taken(lex, n), text' = text
  PROVE  Reading'
<1>1. LexOK(lex) /\ Ended(lex.toks) /\ Written(text)
  BY DEF Inv, Reading
<1>2. PICK y : y = Taken(lex, n)
  OBVIOUS
<1>3. /\ LexOK(y) /\ y.at = lex.at /\ DOMAIN y.toks = 1 .. Len(lex.toks) - n
      /\ Len(y.toks) = Len(lex.toks) - n
      /\ \A i \in 1 .. Len(lex.toks) - n : y.toks[i] = lex.toks[n + i]
  BY <1>1, <1>2, TakenOK
<1>4. Len(lex.toks) \in Nat /\ DOMAIN lex.toks = 1 .. Len(lex.toks)
  BY SeesIs
<1>5. \A i \in DOMAIN y.toks : n + i \in DOMAIN lex.toks /\ y.toks[i] = lex.toks[n + i]
  <2>1. TAKE i \in DOMAIN y.toks
  <2>2. i \in 1 .. Len(lex.toks) - n
    BY <1>3
  <2>3. n + i \in 1 .. Len(lex.toks)
    BY <1>4, <2>2
  <2>4. QED
    BY <1>3, <1>4, <2>2, <2>3
<1>6. Ended(y.toks)
  <2>1. SUFFICES ASSUME NEW i \in DOMAIN y.toks, y.toks[i].tok = "STATEMENT"
                 PROVE  Len(y.toks) = i + 1
    BY DEF Ended
  <2>2. Len(lex.toks) = n + i + 1
    BY <1>1, <1>5, <2>1 DEF Ended
  <2>3. i \in Nat
    BY <1>3, <1>4
  <2>4. QED
    BY <1>3, <2>2, <2>3
<1>7. Wordless(lex.toks) => Wordless(y.toks)
  BY <1>5 DEF Wordless
<1>8. QED
  BY <1>1, <1>2, <1>3, <1>6, <1>7 DEF Inv, Reading

LEMMA CallReading ==
  ASSUME Inv, lex' = Call(lex), text' = text
  PROVE  Reading'
<1>1. LexOK(lex) /\ Written(text)
  BY DEF Inv, Reading
<1>2. PICK y : y = Call(lex)
  OBVIOUS
<1>3. LexOK(y) /\ y.at = lex.at /\ y.toks = <<>>
  BY <1>1, <1>2, CallOK
<1>4. Ended(y.toks) /\ Wordless(y.toks)
  BY <1>3, NoneSeq DEF Ended, Wordless
<1>5. QED
  BY <1>1, <1>2, <1>3, <1>4 DEF Inv, Reading

-----------------------------------------------------------------------------
(* Scopes.                                                                 *)

LEMMA ScopesStay ==
  ASSUME NEW ss, NEW n \in Nat, NEW m \in Nat, n <= m, ScopesIn(ss, n)
  PROVE  ScopesIn(ss, m)
BY DEF ScopesIn

\* Scopes that differ in what is declared in them only.
SameScopes(ss, rr) ==
  /\ IsSeq(rr) /\ Len(rr) = Len(ss)
  /\ \A i \in 1 .. Len(ss) : /\ IsScope(rr[i]) /\ rr[i].owner = ss[i].owner
                             /\ rr[i].node = ss[i].node /\ rr[i].ind = ss[i].ind

LEMMA ScopesSame ==
  ASSUME NEW ss, NEW n, ScopesIn(ss, n)
  PROVE  SameScopes(ss, ss)
BY SeqIs DEF ScopesIn, SameScopes

\* A name is declared.
LEMMA DeclaredIn ==
  ASSUME NEW ss, NEW n, ScopesIn(ss, n), NEW k \in 1 .. Len(ss), NEW D
  PROVE  SameScopes(ss, [ss EXCEPT ![k].decls = D])
<1>1. IsSeq(ss) /\ DOMAIN ss = 1 .. Len(ss) /\ \A i \in 1 .. Len(ss) : IsScope(ss[i])
  BY SeqIs DEF ScopesIn
<1>2. PICK s : s = [ss[k] EXCEPT !.decls = D]
  OBVIOUS
<1>3. IsScope(s) /\ s.owner = ss[k].owner /\ s.node = ss[k].node /\ s.ind = ss[k].ind
  BY <1>1, <1>2 DEF IsScope, ScopeFields
<1>4. PICK r : r = [ss EXCEPT ![k] = s]
  OBVIOUS
<1>5. IsSeq(r) /\ Len(r) = Len(ss) /\ r[k] = s /\ \A j \in 1 .. Len(ss) : j # k => r[j] = ss[j]
  BY <1>1, <1>4, SeqChanged
<1>6. r = [ss EXCEPT ![k].decls = D]
  BY <1>2, <1>4
<1>7. QED
  BY <1>1, <1>3, <1>5, <1>6 DEF SameScopes

LEMMA SameScopesIn ==
  ASSUME NEW ss, NEW rr, NEW n, ScopesIn(ss, n), SameScopes(ss, rr)
  PROVE  /\ ScopesIn(rr, n) /\ Len(rr) = Len(ss) /\ Len(ss) \in Nat
         /\ \A c : AtScopes(c, ss) => AtScopes(c, rr)
<1>1. Len(ss) \in Nat /\ DOMAIN ss = 1 .. Len(ss) /\ DOMAIN rr = 1 .. Len(ss) /\ Len(rr) = Len(ss)
  BY SeqIs DEF ScopesIn, SameScopes
<1>2. ScopesIn(rr, n)
  BY <1>1 DEF ScopesIn, SameScopes
<1>3. \A c : AtScopes(c, ss) => AtScopes(c, rr)
  BY <1>1 DEF AtScopes, SameScopes
<1>4. QED
  BY <1>1, <1>2, <1>3

\* A scope is opened.
LEMMA ScopeOpened ==
  ASSUME NEW ss, NEW n \in Nat, ScopesIn(ss, n), ss # <<>>,
         NEW owner \in 1 .. n, NEW op \in 1 .. n, NEW decls
  PROVE  LET rr == Append(ss, Scope(owner, op, decls))
         IN /\ ScopesIn(rr, n) /\ Len(rr) = Len(ss) + 1 /\ Len(ss) \in Nat
            /\ \A i \in 1 .. Len(ss) : rr[i] = ss[i]
            /\ rr[Len(ss) + 1] = Scope(owner, op, decls)
            /\ rr[Len(ss) + 1].owner = owner /\ rr[Len(ss) + 1].node = op
            /\ rr[Len(ss) + 1].ind = Unset
            /\ \A c : IsSeq(c) /\ AtScopes(c, ss) => AtScopes(Append(Append(c, owner), op), rr)
<1>1. PICK s : s = Scope(owner, op, decls)
  OBVIOUS
<1>2. IsScope(s) /\ s.owner = owner /\ s.node = op /\ s.ind = Unset
  BY <1>1 DEF IsScope, ScopeFields, Scope
<1>3. PICK m \in Nat : m = Len(ss) /\ DOMAIN ss = 1 .. m /\ m # 0
  BY SeqIs DEF ScopesIn
<1>4. PICK rr : rr = Append(ss, s)
  OBVIOUS
<1>5. /\ IsSeq(rr) /\ Len(rr) = m + 1 /\ DOMAIN rr = 1 .. m + 1 /\ rr[m + 1] = s
      /\ \A i \in 1 .. m : rr[i] = ss[i]
  BY <1>3, <1>4, SeqAppended DEF ScopesIn
<1>6. ScopesIn(rr, n)
  <2>1. SUFFICES ASSUME NEW i \in DOMAIN rr
                 PROVE  /\ IsScope(rr[i]) /\ rr[i].owner \in 0 .. n /\ rr[i].node \in 1 .. n
                        /\ i # 1 => rr[i].owner # 0
    BY <1>5 DEF ScopesIn
  <2>2. CASE i = m + 1
    BY <1>2, <1>5, <2>2
  <2>3. CASE i \in 1 .. m
    BY <1>3, <1>5, <2>3 DEF ScopesIn
  <2>4. QED
    BY <1>5, <2>2, <2>3
<1>7. ASSUME NEW c, IsSeq(c), AtScopes(c, ss)
      PROVE  AtScopes(Append(Append(c, owner), op), rr)
  <2>1. PICK b : b = Append(c, owner)
    OBVIOUS
  <2>2. PICK a : a = Append(b, op)
    OBVIOUS
  <2>3. PICK l \in Nat : l = 2 * m - 1 /\ l = Len(c)
    BY <1>3, <1>7, SeqIs DEF AtScopes
  <2>4. IsSeq(b) /\ Len(b) = l + 1 /\ b[l + 1] = owner /\ \A i \in 1 .. l : b[i] = c[i]
    BY <1>7, <2>1, <2>3, SeqAppended
  <2>5. Len(a) = l + 2 /\ a[l + 2] = op /\ \A i \in 1 .. l + 1 : a[i] = b[i]
    <3>1. Len(a) = (l + 1) + 1 /\ a[(l + 1) + 1] = op /\ \A i \in 1 .. l + 1 : a[i] = b[i]
      BY <2>2, <2>4, SeqAppended
    <3>2. (l + 1) + 1 = l + 2
      OBVIOUS
    <3>3. QED
      BY <3>1, <3>2
  <2>6. a[l + 1] = owner /\ \A i \in 1 .. l : a[i] = c[i]
    BY <2>4, <2>5
  <2>7. Len(a) = 2 * Len(rr) - 1
    BY <1>5, <2>3, <2>5
  <2>8. ASSUME NEW i \in 1 .. m + 1
        PROVE  a[2 * i - 1] = rr[i].node /\ (i # 1 => a[2 * i - 2] = rr[i].owner)
    <3>1. CASE i = m + 1
      <4>1. 2 * i - 1 = l + 2 /\ 2 * i - 2 = l + 1
        BY <2>3, <3>1
      <4>2. QED
        BY <1>2, <1>5, <2>5, <2>6, <3>1, <4>1
    <3>2. CASE i \in 1 .. m
      <4>1. 2 * i - 1 \in 1 .. l /\ (i # 1 => 2 * i - 2 \in 1 .. l)
        BY <2>3, <3>2
      <4>2. c[2 * i - 1] = ss[i].node /\ (i # 1 => c[2 * i - 2] = ss[i].owner)
        BY <1>3, <1>7, <3>2 DEF AtScopes
      <4>3. QED
        BY <1>5, <2>6, <3>2, <4>1, <4>2
    <3>3. QED
      BY <3>1, <3>2
  <2>9. QED
    BY <1>5, <2>1, <2>2, <2>7, <2>8 DEF AtScopes
<1>8. QED
  BY <1>1, <1>2, <1>3, <1>4, <1>5, <1>6, <1>7

\* A scope is closed.
LEMMA ScopeClosed ==
  ASSUME NEW ss, NEW n, ScopesIn(ss, n), Len(ss) > 1
  PROVE  /\ ScopesIn(Front(ss), n) /\ Len(Front(ss)) = Len(ss) - 1 /\ Len(ss) \in Nat
         /\ Last(ss) = ss[Len(ss)] /\ Len(ss) \in DOMAIN ss
         /\ \A i \in 1 .. Len(ss) - 1 : Front(ss)[i] = ss[i]
         /\ \A c : IsSeq(c) /\ AtScopes(c, ss) => AtScopes(Front(Front(c)), Front(ss))
<1>1. PICK m \in Nat : m = Len(ss) /\ DOMAIN ss = 1 .. m /\ m > 1 /\ ss # <<>>
  BY SeqIs DEF ScopesIn
<1>2. PICK rr : rr = Front(ss)
  OBVIOUS
<1>3. /\ IsSeq(rr) /\ Len(rr) = m - 1 /\ DOMAIN rr = 1 .. m - 1 /\ Last(ss) = ss[m] /\ m \in DOMAIN ss
      /\ \A i \in 1 .. m - 1 : rr[i] = ss[i]
  BY <1>1, <1>2, SeqFront DEF ScopesIn
<1>4. ScopesIn(rr, n)
  BY <1>1, <1>3 DEF ScopesIn
<1>5. ASSUME NEW c, IsSeq(c), AtScopes(c, ss)
      PROVE  AtScopes(Front(Front(c)), rr)
  <2>1. PICK l \in Nat : l = 2 * m - 1 /\ l = Len(c) /\ l > 2
    BY <1>1, <1>5, SeqIs DEF AtScopes
  <2>2. PICK b : b = Front(c)
    OBVIOUS
  <2>3. IsSeq(b) /\ Len(b) = l - 1 /\ \A i \in 1 .. l - 1 : b[i] = c[i]
    <3>1. c # <<>>
      BY <1>5, <2>1, SeqIs
    <3>2. QED
      BY <1>5, <2>1, <2>2, <3>1, SeqFront
  <2>4. PICK a : a = Front(b)
    OBVIOUS
  <2>5. Len(a) = l - 2 /\ \A i \in 1 .. l - 2 : a[i] = b[i]
    <3>1. b # <<>>
      BY <2>1, <2>3, SeqIs
    <3>2. Len(a) = l - 1 - 1 /\ \A i \in 1 .. l - 1 - 1 : a[i] = b[i]
      BY <2>3, <2>4, <3>1, SeqFront
    <3>3. l - 1 - 1 = l - 2
      OBVIOUS
    <3>4. QED
      BY <3>2, <3>3
  <2>6. \A i \in 1 .. l - 2 : a[i] = c[i]
    BY <2>3, <2>5
  <2>7. Len(a) = 2 * Len(rr) - 1
    BY <1>3, <2>1, <2>5
  <2>8. ASSUME NEW i \in 1 .. m - 1
        PROVE  a[2 * i - 1] = rr[i].node /\ (i # 1 => a[2 * i - 2] = rr[i].owner)
    <3>1. 2 * i - 1 \in 1 .. l - 2 /\ (i # 1 => 2 * i - 2 \in 1 .. l - 2) /\ i \in 1 .. m
      BY <1>1, <2>1
    <3>2. c[2 * i - 1] = ss[i].node /\ (i # 1 => c[2 * i - 2] = ss[i].owner)
      BY <1>1, <1>5, <3>1 DEF AtScopes
    <3>3. QED
      BY <1>3, <2>6, <3>1, <3>2
  <2>9. QED
    BY <1>3, <2>2, <2>4, <2>7, <2>8 DEF AtScopes
<1>6. QED
  BY <1>1, <1>2, <1>3, <1>4, <1>5

\* A statement that opens no block is done, or reported.
LEMMA StatementKeeps ==
  ASSUME Inv, Running, lex.toks # <<>>, NEW n \in 1 .. Len(lex.toks), Take(n), frames' = Seen,
         UNCHANGED <<menu, text, pc, status>>, reported' \in BOOLEAN, reported => reported',
         Sound(tree'), Extends(tree, tree'), Len(tree'.cursor) >= Len(tree.cursor),
         SameScopes(scopes, scopes'),
         ~reported' => tree'.cursor = tree.cursor /\ CompleteBut(tree', {})
  PROVE  Inv'
<1>1. /\ Sound(tree) /\ ScopesIn(scopes, Newest(tree)) /\ status # "done"
      /\ Len(scopes) = Len(frames) + 1 /\ Len(tree.cursor) >= 2 * Len(scopes) - 1
      /\ ~reported => AtScopes(tree.cursor, scopes)
      /\ frames # <<>> => tree.nodes[scopes[2].owner].kind = "DECL_FUNC"
      /\ pc = "indent" => frames # <<>>
  BY DEF Inv, Building, Running
<1>2. /\ Framed(frames') /\ Len(frames') = Len(frames) /\ (frames' = <<>> <=> frames = <<>>)
  <2>1. PICK fs : fs = Seen /\ Framed(fs) /\ Len(fs) = Len(frames) /\ (fs = <<>> <=> frames = <<>>)
    BY SeenIs
  <2>2. frames' = fs
    BY <2>1
  <2>3. QED
    BY <2>1, <2>2
<1>3. Reading'
  BY TakeReading DEF Take
<1>4. Values'
  BY <1>2 DEF Inv, Values
<1>5. Newest(tree) \in Nat /\ Newest(tree') \in Nat /\ Newest(tree) <= Newest(tree')
  <2>1. PICK u : u = tree' /\ Sound(u) /\ Extends(tree, u)
    OBVIOUS
  <2>2. Newest(tree) \in Nat /\ Newest(u) \in Nat /\ Newest(tree) <= Newest(u)
    BY <1>1, <2>1, CurrentIs DEF Extends
  <2>3. QED
    BY <2>1, <2>2
<1>6. /\ ScopesIn(scopes', Newest(tree)) /\ Len(scopes') = Len(scopes) /\ Len(scopes) \in Nat
      /\ \A c : AtScopes(c, scopes) => AtScopes(c, scopes')
  <2>1. PICK rr : rr = scopes' /\ SameScopes(scopes, rr)
    OBVIOUS
  <2>2. /\ ScopesIn(rr, Newest(tree)) /\ Len(rr) = Len(scopes) /\ Len(scopes) \in Nat
        /\ \A c : AtScopes(c, scopes) => AtScopes(c, rr)
    BY <1>1, <2>1, SameScopesIn
  <2>3. QED
    BY <2>1, <2>2
<1>7. ScopesIn(scopes', Newest(tree'))
  BY <1>5, <1>6, ScopesStay
<1>8. frames # <<>> => tree'.nodes[scopes'[2].owner].kind = "DECL_FUNC"
  <2>1. SUFFICES ASSUME frames # <<>> PROVE tree'.nodes[scopes'[2].owner].kind = "DECL_FUNC"
    OBVIOUS
  <2>2. 2 \in 1 .. Len(scopes)
    BY <1>1, <2>1, SeqIs DEF Inv, Values, Framed
  <2>3. scopes'[2].owner = scopes[2].owner
    BY <2>2 DEF SameScopes
  <2>4. scopes[2].owner \in 1 .. Newest(tree)
    <3>1. 2 \in DOMAIN scopes /\ 2 # 1
      BY <1>1, <2>2, SeqIs DEF ScopesIn
    <3>2. scopes[2].owner \in 0 .. Newest(tree) /\ scopes[2].owner # 0
      BY <1>1, <3>1 DEF ScopesIn
    <3>3. QED
      BY <1>5, <3>2
  <2>5. QED
    BY <1>1, <2>1, <2>3, <2>4 DEF Extends, Same
<1>9. Len(tree'.cursor) >= 2 * Len(scopes') - 1
  <2>1. Len(tree.cursor) \in Nat
    BY <1>1, SeqIs DEF Sound, Pointed
  <2>2. PICK c : c = tree'.cursor /\ Len(c) \in Nat
    <3>1. PICK u : u = tree' /\ Sound(u)
      OBVIOUS
    <3>2. Len(u.cursor) \in Nat
      BY <3>1, SeqIs DEF Sound, Pointed
    <3>3. QED
      BY <3>1, <3>2
  <2>3. Len(c) >= Len(tree.cursor)
    BY <2>2
  <2>4. QED
    BY <1>1, <1>6, <2>1, <2>2, <2>3
<1>10. ~reported' => AtScopes(tree'.cursor, scopes')
  BY <1>1, <1>6
<1>11. Building'
  BY <1>1, <1>2, <1>6, <1>7, <1>8, <1>9, <1>10 DEF Building
<1>12. QED
  BY <1>3, <1>4, <1>11 DEF Inv

\* A block is opened for node `owner`, in tree t.
OpensWell(t, owner, ss, error) ==
  /\ Sound(t) /\ Extends(tree, t)
  /\ t.cursor = Append(Append(tree.cursor, owner), CurrentId(t))
  /\ owner \in 1 .. Newest(t) /\ CurrentId(t) \in 1 .. Newest(t)
  /\ SameScopes(scopes, ss)
  /\ frames = <<>> => t.nodes[owner].kind = "DECL_FUNC"
  /\ ~reported /\ ~error => CompleteBut(t, {})

LEMMA OpensKeeps ==
  ASSUME Inv, Running, lex.toks # <<>>, NEW t, NEW owner, NEW ss, NEW decls, NEW error \in BOOLEAN,
         Opens(t, owner, ss, decls, error), t = Panicked \/ OpensWell(t, owner, ss, error)
  PROVE  Inv'
<1>1. /\ Sound(tree) /\ ScopesIn(scopes, Newest(tree)) /\ status # "done"
      /\ Len(scopes) = Len(frames) + 1 /\ Len(tree.cursor) >= 2 * Len(scopes) - 1
      /\ ~reported => AtScopes(tree.cursor, scopes)
      /\ frames # <<>> => tree.nodes[scopes[2].owner].kind = "DECL_FUNC"
      /\ reported \in BOOLEAN /\ Framed(frames)
  BY DEF Inv, Building, Running, Values
<1>2. CASE t = Panicked
  <2>1. StopAfter(FALSE, "panic")
    BY <1>2 DEF Opens, Stop
  <2>2. QED
    BY <2>1, StopKeeps
<1>3. CASE t # Panicked
  <2>1. OpensWell(t, owner, ss, error)
    BY <1>3
  <2>2. PICK op \in 1 .. Newest(t) : op = CurrentId(t)
    BY <2>1 DEF OpensWell
  <2>3. PICK rr : rr = Append(ss, Scope(owner, op, decls))
    OBVIOUS
  <2>4. PICK fs : fs = Append(Seen, 0)
    OBVIOUS
  <2>5. /\ tree' = t /\ scopes' = rr /\ frames' = fs /\ pc' = "indent"
        /\ reported' = (reported \/ error) /\ lex' = Taken(lex, 1) /\ UNCHANGED <<menu, text, status>>
    BY <1>3, <2>2, <2>3, <2>4 DEF Opens, Take
  <2>6. Newest(tree) \in Nat /\ Newest(t) \in Nat /\ Newest(tree) <= Newest(t)
    BY <1>1, <2>1, CurrentIs DEF OpensWell, Extends
  <2>7. /\ ScopesIn(ss, Newest(tree)) /\ Len(ss) = Len(scopes) /\ Len(scopes) \in Nat
        /\ \A c : AtScopes(c, scopes) => AtScopes(c, ss)
    BY <1>1, <2>1, SameScopesIn DEF OpensWell
  <2>8. ScopesIn(ss, Newest(t))
    BY <2>6, <2>7, ScopesStay
  <2>9. Framed(Seen) /\ Len(Seen) = Len(frames) /\ Len(frames) \in Nat
    BY <1>1, SeenIs, SeqIs DEF Framed
  <2>10. Framed(fs) /\ Len(fs) = Len(frames) + 1 /\ fs # <<>>
    <3>1. PICK s : s = Seen /\ Framed(s) /\ Len(s) = Len(frames)
      BY <2>9
    <3>2. /\ IsSeq(fs) /\ Len(fs) = Len(s) + 1 /\ DOMAIN fs = 1 .. Len(s) + 1
          /\ fs[Len(s) + 1] = 0 /\ \A i \in 1 .. Len(s) : fs[i] = s[i]
      BY <2>4, <3>1, SeqAppended DEF Framed
    <3>3. DOMAIN s = 1 .. Len(s) /\ 0 \in 0 .. Address
      BY <3>1, SeqIs DEF Framed, Address
    <3>4. \A i \in DOMAIN fs : fs[i] \in 0 .. Address
      BY <2>9, <3>1, <3>2, <3>3 DEF Framed
    <3>5. fs # <<>>
      BY <2>9, <3>1, <3>2, SeqIs
    <3>6. QED
      BY <3>1, <3>2, <3>4, <3>5 DEF Framed
  <2>11. ss # <<>>
    BY <1>1, <2>7, <2>8, <2>9, SeqIs DEF ScopesIn
  <2>12. /\ ScopesIn(rr, Newest(t)) /\ Len(rr) = Len(ss) + 1
         /\ \A i \in 1 .. Len(ss) : rr[i] = ss[i]
         /\ rr[Len(ss) + 1].owner = owner
         /\ \A c : IsSeq(c) /\ AtScopes(c, ss) => AtScopes(Append(Append(c, owner), op), rr)
    <3>1. owner \in 1 .. Newest(t)
      BY <2>1 DEF OpensWell
    <3>2. QED
      BY <2>3, <2>6, <2>8, <2>11, <3>1, ScopeOpened
  <2>13. Len(t.cursor) = Len(tree.cursor) + 2 /\ Len(tree.cursor) \in Nat /\ IsSeq(tree.cursor)
    <3>1. IsSeq(tree.cursor)
      BY <1>1 DEF Sound, Pointed
    <3>2. PICK b : b = Append(tree.cursor, owner)
      OBVIOUS
    <3>3. IsSeq(b) /\ Len(b) = Len(tree.cursor) + 1 /\ Len(tree.cursor) \in Nat
      BY <3>1, <3>2, SeqAppended, SeqIs
    <3>4. t.cursor = Append(b, op)
      BY <2>1, <2>2, <3>2 DEF OpensWell
    <3>5. QED
      BY <3>1, <3>3, <3>4, SeqAppended
  <2>14. ~reported /\ ~error => AtScopes(t.cursor, rr)
    <3>1. t.cursor = Append(Append(tree.cursor, owner), op)
      BY <2>1, <2>2 DEF OpensWell
    <3>2. QED
      BY <1>1, <2>7, <2>12, <2>13, <3>1
  <2>15. t.nodes[rr[2].owner].kind = "DECL_FUNC"
    <3>1. CASE frames = <<>>
      <4>1. Len(ss) + 1 = 2
        BY <1>1, <2>7, <3>1, NoneSeq
      <4>2. QED
        BY <2>1, <2>12, <3>1, <4>1 DEF OpensWell
    <3>2. CASE frames # <<>>
      <4>1. 2 \in 1 .. Len(scopes)
        BY <1>1, <3>2, SeqIs DEF Framed
      <4>2. rr[2].owner = scopes[2].owner
        BY <2>1, <2>7, <2>12, <4>1 DEF OpensWell, SameScopes
      <4>3. scopes[2].owner \in 1 .. Newest(tree)
        <5>1. 2 \in DOMAIN scopes /\ 2 # 1
          BY <1>1, <4>1, SeqIs DEF ScopesIn
        <5>2. scopes[2].owner \in 0 .. Newest(tree) /\ scopes[2].owner # 0
          BY <1>1, <5>1 DEF ScopesIn
        <5>3. QED
          BY <2>6, <5>2
      <4>4. QED
        BY <1>1, <2>1, <3>2, <4>2, <4>3 DEF OpensWell, Extends, Same
    <3>3. QED
      BY <3>1, <3>2
  <2>16. Reading'
    <3>1. 1 \in 1 .. Len(lex.toks)
      BY SeesIs
    <3>2. QED
      BY <2>5, <3>1, TakeReading
  <2>17. Values'
    BY <1>1, <2>5, <2>10 DEF Inv, Values
  <2>18. Len(t.cursor) >= 2 * Len(rr) - 1 /\ Len(rr) = Len(fs) + 1
    BY <1>1, <2>7, <2>10, <2>12, <2>13
  <2>19. Sound(t) /\ (~reported /\ ~error => CompleteBut(t, {}))
    BY <2>1 DEF OpensWell
  <2>20. Building'
    BY <2>5, <2>10, <2>12, <2>14, <2>15, <2>18, <2>19 DEF Building
  <2>21. QED
    BY <2>16, <2>17, <2>20 DEF Inv
<1>4. QED
  BY <1>2, <1>3

\* The parser takes tokens, or calls for a line, inside of a scope that may begin.
LEMMA ParserKeeps ==
  ASSUME Inv, Running, Reading', UNCHANGED <<menu, tree, reported, status>>,
         pc' \in {"statement", pc}, Framed(frames'), Len(frames') = Len(frames),
         ScopesIn(scopes', Newest(tree)), Len(scopes') = Len(scopes),
         \A i \in 1 .. Len(scopes) : /\ scopes'[i].owner = scopes[i].owner
                                     /\ scopes'[i].node = scopes[i].node
  PROVE  Inv'
<1>1. /\ Sound(tree) /\ ScopesIn(scopes, Newest(tree)) /\ status # "done"
      /\ Len(scopes) = Len(frames) + 1 /\ Len(tree.cursor) >= 2 * Len(scopes) - 1
      /\ ~reported => AtScopes(tree.cursor, scopes)
      /\ frames # <<>> => tree.nodes[scopes[2].owner].kind = "DECL_FUNC"
      /\ pc = "indent" => frames # <<>>
      /\ reported \in BOOLEAN /\ Framed(frames)
  BY DEF Inv, Building, Running, Values
<1>2. frames' = <<>> <=> frames = <<>>
  <2>1. PICK fs : fs = frames' /\ Framed(fs) /\ Len(fs) = Len(frames)
    OBVIOUS
  <2>2. fs = <<>> <=> frames = <<>>
    BY <1>1, <2>1, SeqIs DEF Framed
  <2>3. QED
    BY <2>1, <2>2
<1>3. ~reported => AtScopes(tree.cursor, scopes')
  BY <1>1 DEF AtScopes
<1>4. frames # <<>> => scopes'[2].owner = scopes[2].owner
  <2>1. SUFFICES ASSUME frames # <<>> PROVE scopes'[2].owner = scopes[2].owner
    OBVIOUS
  <2>2. 2 \in 1 .. Len(scopes)
    BY <1>1, <2>1, SeqIs DEF Framed
  <2>3. QED
    BY <2>2
<1>5. Values'
  BY <1>1 DEF Inv, Values
<1>6. pc' = "indent" => frames' # <<>>
  BY <1>1, <1>2
<1>7. Building'
  BY <1>1, <1>2, <1>3, <1>4, <1>6 DEF Inv, Building
<1>8. QED
  BY <1>5, <1>7 DEF Inv

\* The innermost block ends.
LEMMA CloseKeeps ==
  ASSUME Inv, Running, frames # <<>>, NEW d, NEW next, NEW error \in BOOLEAN,
         CloseBlock(d, next, error), lex' = next /\ text' = text => Reading'
  PROVE  Inv'
<1>1. /\ Sound(tree) /\ ScopesIn(scopes, Newest(tree)) /\ status # "done"
      /\ Len(scopes) = Len(frames) + 1 /\ Len(tree.cursor) >= 2 * Len(scopes) - 1
      /\ ~reported => AtScopes(tree.cursor, scopes) /\ CompleteBut(tree, {})
      /\ tree.nodes[scopes[2].owner].kind = "DECL_FUNC"
      /\ reported \in BOOLEAN /\ Framed(frames)
  BY DEF Inv, Building, Running, Values
<1>2. PICK f : f = CurrentScope.owner
  OBVIOUS
<1>3. PICK verdict : verdict = IF IsFunc(f) THEN AnalyzeFunc(tree, f) ELSE "falls"
  OBVIOUS
<1>4. PICK missing \in BOOLEAN : missing = (IsFunc(f) /\ verdict = "falls" /\ tree.nodes[f].type # "void")
  OBVIOUS
<1>5. PICK closed : closed = DelScope(tree)
  OBVIOUS
<1>6. PICK e1 \in BOOLEAN : e1 = (error \/ missing)
  OBVIOUS
<1>7. \/ StopAfter(error, "panic")
      \/ verdict \in Stops /\ StopAfter(error, verdict)
      \/ StopAfter(e1, "generator")
      \/ StopAfter(e1, "panic")
      \/ /\ tree' = closed /\ scopes' = Front(scopes) /\ frames' = Front(frames) /\ pc' = "statement"
         /\ lex' = next /\ reported' = (reported \/ e1) /\ UNCHANGED <<menu, text, status>>
  <2>1. PICK I : I = CurrentScope.ind
    OBVIOUS
  <2>2. CASE I <= d
    BY <1>2, <1>3, <1>4, <1>5, <1>6, <2>1, <2>2, Zenon DEF CloseBlock
  <2>3. QED
    BY <1>2, <1>3, <1>4, <1>5, <1>6, <2>1 DEF CloseBlock
<1>8. ASSUME StopAfter(error, "panic") \/ (verdict \in Stops /\ StopAfter(error, verdict))
             \/ StopAfter(e1, "generator") \/ StopAfter(e1, "panic")
      PROVE  Inv'
  BY <1>8, StopKeeps DEF Stops
<1>9. ASSUME tree' = closed, scopes' = Front(scopes), frames' = Front(frames), pc' = "statement",
             lex' = next, reported' = (reported \/ e1), UNCHANGED <<menu, text, status>>
      PROVE  Inv'
  <2>1. Len(tree.cursor) \in Nat /\ IsSeq(tree.cursor) /\ Len(frames) \in Nat /\ Len(frames) # 0
        /\ DOMAIN frames = 1 .. Len(frames)
    BY <1>1, SeqIs DEF Sound, Pointed, Framed
  <2>2. Len(scopes) > 1 /\ Len(scopes) \in Nat /\ Len(tree.cursor) > 2
    BY <1>1, <2>1
  <2>3. PICK u : u = TraverseUp(tree)
    OBVIOUS
  <2>4. /\ Sound(u) /\ u.nodes = tree.nodes /\ u.cursor = Front(tree.cursor)
        /\ Len(u.cursor) = Len(tree.cursor) - 1
    <3>1. Len(tree.cursor) > 1
      BY <2>1, <2>2
    <3>2. QED
      BY <1>1, <2>3, <3>1, WentUp
  <2>5. /\ Sound(closed) /\ closed.nodes = tree.nodes /\ closed.cursor = Front(Front(tree.cursor))
        /\ Len(closed.cursor) = Len(tree.cursor) - 2 /\ Newest(closed) = Newest(tree)
    <3>1. closed = TraverseUp(u)
      BY <1>5, <2>3 DEF DelScope
    <3>2. Len(u.cursor) > 1
      BY <2>1, <2>2, <2>4
    <3>3. /\ Sound(closed) /\ closed.nodes = u.nodes /\ closed.cursor = Front(u.cursor)
          /\ Len(closed.cursor) = Len(u.cursor) - 1
      BY <2>4, <3>1, <3>2, WentUp
    <3>4. QED
      BY <2>1, <2>4, <3>3 DEF Newest
  <2>6. PICK rr : rr = Front(scopes)
    OBVIOUS
  <2>7. /\ ScopesIn(rr, Newest(tree)) /\ Len(rr) = Len(scopes) - 1
        /\ \A i \in 1 .. Len(scopes) - 1 : rr[i] = scopes[i]
        /\ \A c : IsSeq(c) /\ AtScopes(c, scopes) => AtScopes(Front(Front(c)), rr)
    BY <1>1, <2>2, <2>6, ScopeClosed
  <2>8. PICK fs : fs = Front(frames)
    OBVIOUS
  <2>9. IsSeq(fs) /\ Len(fs) = Len(frames) - 1 /\ DOMAIN fs = 1 .. Len(frames) - 1
        /\ \A i \in 1 .. Len(frames) - 1 : fs[i] = frames[i]
    BY <1>1, <2>8, SeqFront DEF Framed
  <2>10. Framed(fs)
    <3>1. \A i \in 1 .. Len(frames) - 1 : frames[i] \in 0 .. Address
      BY <1>1, <2>1 DEF Framed
    <3>2. QED
      BY <2>9, <3>1 DEF Framed
  <2>11. fs # <<>> => closed.nodes[rr[2].owner].kind = "DECL_FUNC"
    <3>1. SUFFICES ASSUME fs # <<>> PROVE closed.nodes[rr[2].owner].kind = "DECL_FUNC"
      OBVIOUS
    <3>2. Len(fs) \in Nat /\ Len(fs) # 0
      BY <2>9, <3>1, SeqIs
    <3>3. 2 \in 1 .. Len(scopes) - 1
      BY <1>1, <2>1, <2>9, <3>2
    <3>4. QED
      BY <1>1, <2>5, <2>7, <3>3
  <2>12. ~reported /\ ~e1 => AtScopes(closed.cursor, rr) /\ CompleteBut(closed, {})
    BY <1>1, <2>1, <2>5, <2>7 DEF CompleteBut, Newest
  <2>13. Len(rr) = Len(fs) + 1 /\ Len(closed.cursor) >= 2 * Len(rr) - 1
    BY <1>1, <2>1, <2>2, <2>5, <2>7, <2>9
  <2>14. Values'
    BY <1>1, <1>9, <2>8, <2>10 DEF Inv, Values
  <2>15. ScopesIn(rr, Newest(closed)) /\ Sound(closed)
    BY <2>5, <2>7
  <2>16. Building'
    BY <1>9, <2>6, <2>8, <2>11, <2>12, <2>13, <2>15 DEF Building
  <2>17. Reading'
    BY <1>9
  <2>18. QED
    BY <2>14, <2>16, <2>17 DEF Inv
<1>10. QED
  BY <1>7, <1>8, <1>9

\* A scope is changed, but neither its owner nor its operation.
LEMMA ScopeChanged ==
  ASSUME NEW ss, NEW n, ScopesIn(ss, n), NEW m \in 1 .. Len(ss), NEW s, IsScope(s),
         s.owner = ss[m].owner, s.node = ss[m].node
  PROVE  LET rr == [ss EXCEPT ![m] = s]
         IN /\ ScopesIn(rr, n) /\ Len(rr) = Len(ss) /\ rr[m] = s
            /\ \A i \in 1 .. Len(ss) : rr[i].owner = ss[i].owner /\ rr[i].node = ss[i].node
            /\ \A i \in 1 .. Len(ss) : i # m => rr[i] = ss[i]
<1>1. IsSeq(ss) /\ DOMAIN ss = 1 .. Len(ss)
  BY SeqIs DEF ScopesIn
<1>2. PICK r : r = [ss EXCEPT ![m] = s]
  OBVIOUS
<1>3. /\ IsSeq(r) /\ Len(r) = Len(ss) /\ DOMAIN r = 1 .. Len(ss) /\ r[m] = s
      /\ \A j \in 1 .. Len(ss) : j # m => r[j] = ss[j]
  BY <1>1, <1>2, SeqChanged
<1>4. \A i \in 1 .. Len(ss) : r[i].owner = ss[i].owner /\ r[i].node = ss[i].node /\ IsScope(r[i])
  BY <1>1, <1>3 DEF ScopesIn
<1>5. ScopesIn(r, n)
  BY <1>1, <1>3, <1>4 DEF ScopesIn
<1>6. QED
  BY <1>2, <1>3, <1>4, <1>5

LEMMA BlockKeeps ==
  ASSUME Inv, Block
  PROVE  Inv'
<1>1. /\ Framed(frames) /\ ScopesIn(scopes, Newest(tree)) /\ (Running => Len(scopes) = Len(frames) + 1)
      /\ (Running /\ pc = "indent" => frames # <<>>)
  BY DEF Inv, Values, Building, Running
<1>2. Len(frames) \in Nat /\ Len(scopes) \in Nat /\ DOMAIN scopes = 1 .. Len(scopes)
  BY <1>1, SeqIs DEF Framed, ScopesIn
<1>3. CASE BlockBegins
  <2>1. Running /\ lex.toks # <<>> /\ pc = "indent"
    BY <1>3 DEF BlockBegins, Sees, Expecting
  <2>2. CASE Len(lex.toks) = 1
    BY <1>3, <2>1, <2>2, StopKeeps DEF BlockBegins, Stop
  <2>3. CASE Len(lex.toks) # 1
    <3>1. PICK d : d = Head(lex.toks).data
      OBVIOUS
    <3>2. PICK rr : rr = [scopes EXCEPT ![Len(scopes)].ind = d]
      OBVIOUS
    <3>3. /\ scopes' = rr /\ pc' = "statement" /\ lex' = Taken(lex, 1)
          /\ UNCHANGED <<menu, text, frames, tree, reported, status>>
      BY <1>3, <2>3, <3>1, <3>2 DEF BlockBegins, Take
    <3>4. scopes # <<>>
      BY <1>1, <1>2, <2>1, SeqIs DEF ScopesIn
    <3>5. /\ ScopesIn(rr, Newest(tree)) /\ Len(rr) = Len(scopes)
          /\ \A i \in 1 .. Len(scopes) : rr[i].owner = scopes[i].owner /\ rr[i].node = scopes[i].node
      <4>1. PICK m \in 1 .. Len(scopes) : m = Len(scopes)
        <5>1. Len(scopes) # 0
          BY <1>1, <3>4, SeqIs DEF ScopesIn
        <5>2. Len(scopes) \in 1 .. Len(scopes)
          BY <1>2, <5>1
        <5>3. QED
          BY <5>2
      <4>2. PICK s : s = [scopes[m] EXCEPT !.ind = d]
        OBVIOUS
      <4>3. IsScope(s) /\ s.owner = scopes[m].owner /\ s.node = scopes[m].node
        BY <1>1, <1>2, <4>2 DEF ScopesIn, IsScope, ScopeFields
      <4>4. PICK r : r = [scopes EXCEPT ![m] = s]
        OBVIOUS
      <4>5. /\ ScopesIn(r, Newest(tree)) /\ Len(r) = Len(scopes)
            /\ \A i \in 1 .. Len(scopes) : r[i].owner = scopes[i].owner /\ r[i].node = scopes[i].node
        <5>1. LET x == [scopes EXCEPT ![m] = s]
              IN ScopesIn(x, Newest(tree)) /\ Len(x) = Len(scopes)
          BY ONLY <1>1, <4>3, ScopeChanged
        <5>2. LET x == [scopes EXCEPT ![m] = s]
              IN \A i \in 1 .. Len(scopes) : x[i].owner = scopes[i].owner /\ x[i].node = scopes[i].node
          BY ONLY <1>1, <4>3, ScopeChanged
        <5>3. QED
          BY <4>4, <5>1, <5>2
      <4>6. r = rr
        BY <3>2, <4>1, <4>2, <4>4
      <4>7. QED
        BY <4>5, <4>6
    <3>6. Reading'
      <4>1. 1 \in 1 .. Len(lex.toks)
        BY <2>1, SeesIs
      <4>2. QED
        BY <2>1, <3>3, <4>1, TakeReading
    <3>7. QED
      BY <1>1, <2>1, <3>3, <3>5, <3>6, ParserKeeps
  <2>4. QED
    BY <2>2, <2>3
<1>4. CASE BlockAwaited
  <2>1. Running /\ UNCHANGED <<menu, text, pc, frames, scopes, tree, reported, status>>
    BY <1>4 DEF BlockAwaited, NoToken, Sees
  <2>2. CASE lex' = Call(lex)
    BY <1>1, <2>1, <2>2, CallReading, ParserKeeps
  <2>3. CASE Sees("DEDENT") /\ Take(1)
    <3>1. lex.toks # <<>>
      BY <2>3 DEF Sees
    <3>2. 1 \in 1 .. Len(lex.toks)
      BY <3>1, SeesIs
    <3>3. Reading'
      BY <2>1, <2>3, <3>1, <3>2, TakeReading DEF Take
    <3>4. QED
      BY <1>1, <2>1, <3>3, ParserKeeps
  <2>4. QED
    BY <1>4, <2>2, <2>3 DEF BlockAwaited
<1>5. CASE BlockMissing
  <2>1. Running /\ pc = "indent"
    BY <1>5 DEF BlockMissing, Sees, Expecting
  <2>2. PICK d : d = Head(lex.toks).data
    OBVIOUS
  <2>3. CloseBlock(d, lex, TRUE)
    BY <1>5, <2>2 DEF BlockMissing
  <2>4. lex' = lex /\ text' = text => Reading'
    BY DEF Inv, Reading
  <2>5. QED
    BY <1>1, <2>1, <2>3, <2>4, CloseKeeps
<1>6. CASE BlockEnds
  <2>1. Running /\ frames # <<>>
    BY <1>6 DEF BlockEnds, Sees, NoToken, InModule
  <2>2. PICK d, next : /\ CloseBlock(d, next, FALSE)
                       /\ next = Call(lex) \/ (lex.toks # <<>> /\ next = Taken(lex, 1))
    <3>1. CASE Sees("DEDENT") /\ CloseBlock(Head(lex.toks).data, Taken(lex, 1), FALSE)
      BY <3>1 DEF Sees
    <3>2. CASE Sees("EOF") /\ CloseBlock(0, Taken(lex, 1), FALSE)
      BY <3>2 DEF Sees
    <3>3. CASE NoToken /\ CloseBlock(Last(frames), Call(lex), FALSE)
      BY <3>3
    <3>4. QED
      BY <1>6, <3>1, <3>2, <3>3 DEF BlockEnds
  <2>3. lex' = next /\ text' = text => Reading'
    <3>1. CASE next = Call(lex)
      BY <3>1, CallReading
    <3>2. CASE lex.toks # <<>> /\ next = Taken(lex, 1)
      <4>1. 1 \in 1 .. Len(lex.toks)
        BY <3>2, SeesIs
      <4>2. QED
        BY <3>2, <4>1, TakeReading
    <3>3. QED
      BY <2>2, <3>1, <3>2
  <2>4. QED
    BY <2>1, <2>2, <2>3, CloseKeeps
<1>7. QED
  BY <1>3, <1>4, <1>5, <1>6 DEF Block

LEMMA LineKeeps ==
  ASSUME Inv, Line
  PROVE  Inv'
<1>1. /\ Framed(frames) /\ ScopesIn(scopes, Newest(tree)) /\ reported \in BOOLEAN
  BY DEF Inv, Values, Building
<1>2. CASE LineEnds
  <2>1. /\ Running /\ lex.toks # <<>> /\ lex' = Call(lex) /\ frames' = Seen
        /\ UNCHANGED <<menu, text, pc, scopes, tree, reported, status>>
    BY <1>2 DEF LineEnds, Sees
  <2>2. Framed(frames') /\ Len(frames') = Len(frames)
    <3>1. PICK fs : fs = Seen /\ Framed(fs) /\ Len(fs) = Len(frames)
      BY <2>1, SeenIs
    <3>2. QED
      BY <2>1, <3>1
  <2>3. QED
    BY <1>1, <2>1, <2>2, CallReading, ParserKeeps
<1>3. CASE BadIndentation
  BY <1>3, StopKeeps DEF BadIndentation, Stop, Sees
<1>4. CASE StrayInBlock
  <2>1. reported' = TRUE /\ UNCHANGED <<menu, text, lex, pc, frames, scopes, tree, status>>
    BY <1>4 DEF StrayInBlock
  <2>2. Values' /\ Reading'
    BY <2>1 DEF Inv, Values, Reading
  <2>3. Building'
    BY <2>1, BuildingStays DEF Inv
  <2>4. QED
    BY <2>2, <2>3 DEF Inv
<1>5. CASE StrayInModule
  <2>1. Running /\ StopAfter(TRUE, "rejected")
    BY <1>1, <1>5 DEF StrayInModule, StopAfter, Sees
  <2>2. QED
    BY <2>1, StopKeeps
<1>6. CASE EndOfFile
  <2>1. scopes' = <<>> /\ status' = "done" /\ UNCHANGED <<menu, text, lex, pc, frames, tree, reported>>
    BY <1>6 DEF EndOfFile
  <2>2. Values' /\ Reading'
    BY <2>1 DEF Inv, Values, Reading
  <2>3. PICK ss : ss = scopes' /\ ScopesIn(ss, Newest(tree))
    <3>1. ScopesIn(<<>>, Newest(tree))
      BY NoneSeq DEF ScopesIn
    <3>2. QED
      BY <2>1, <3>1
  <2>4. Building'
    BY <2>1, <2>3 DEF Inv, Building, Running
  <2>5. QED
    BY <2>2, <2>4 DEF Inv
<1>7. QED
  BY <1>2, <1>3, <1>4, <1>5, <1>6 DEF Line

-----------------------------------------------------------------------------
(* What a statement does to the tree.                                      *)

LEMMA BuildsMore ==
  ASSUME NEW t, NEW u, NEW C, NEW D, Builds(t, u, C), C \subseteq D
  PROVE  Builds(t, u, D)
BY DEF Builds

LEMMA BuildsAgain ==
  ASSUME NEW t, NEW u, NEW v, Linked(t), Linked(u), Linked(v), NEW C,
         Builds(t, u, C), Builds(u, v, C)
  PROVE  Builds(t, v, C)
<1>1. PICK D : D = C \cup C
  OBVIOUS
<1>2. Builds(t, v, D)
  BY <1>1, BuildsOn
<1>3. D = C
  BY <1>1
<1>4. QED
  BY <1>2, <1>3

LEMMA CompleteOn ==
  ASSUME NEW t, NEW u, Linked(t), Linked(u), NEW C, Builds(t, u, C), CompleteBut(t, C)
  PROVE  CompleteBut(u, C)
<1>1. PICK D : D = C \cup C
  OBVIOUS
<1>2. CompleteBut(u, D)
  BY <1>1, CompleteStays
<1>3. D = C
  BY <1>1
<1>4. QED
  BY <1>2, <1>3

\* Statement n was added below the current node of t, and nothing else of what makes
\* statements and ifs; but for the ifs of C.
Grew(t, u, n, C) == /\ Sound(u) /\ Fresh(n) /\ n.kind # "SCOPE_OPERATION"
                    /\ \E w : KidAdded(t, w, n) /\ Builds(w, u, C)

LEMMA GrewExtends ==
  ASSUME NEW t, Sound(t), NEW u, NEW n, NEW C, Grew(t, u, n, C)
  PROVE  Extends(t, u)
<1>1. PICK w : KidAdded(t, w, n) /\ Builds(w, u, C)
  BY DEF Grew
<1>2. Linked(t) /\ Linked(w) /\ Linked(u) /\ Extends(t, w) /\ Extends(w, u)
  BY <1>1 DEF Grew, KidAdded, Builds, Sound
<1>3. QED
  BY <1>2, ExtendsOn

\* The statement is done: the cursor goes up.
LEMMA StatementDone ==
  ASSUME NEW t, Sound(t), NEW n, Fresh(n), n.kind \notin {"SCOPE_OPERATION", "IF_STATEMENT"},
         NEW w, KidAdded(t, w, n), NEW v, Sound(v), Alike(w, v), v.cursor = w.cursor,
         NEW u, u = TraverseUp(v)
  PROVE  /\ Grew(t, u, n, {}) /\ Sound(u) /\ Extends(t, u) /\ u.cursor = t.cursor
         /\ CompleteBut(t, {}) => CompleteBut(u, {})
<1>1. Sound(w) /\ w.cursor = Append(t.cursor, Newest(t) + 1)
  BY DEF KidAdded
<1>2. IsSeq(t.cursor) /\ t.cursor # <<>>
  BY DEF Sound, Pointed
<1>3. Sound(u) /\ u.nodes = v.nodes /\ u.cursor = t.cursor
  <2>1. PICK c, id : c = t.cursor /\ id = Newest(t) + 1
    OBVIOUS
  <2>2. IsSeq(c) /\ c # <<>> /\ v.cursor = Append(c, id)
    BY <1>1, <1>2, <2>1
  <2>3. LET x == TraverseUp(v) IN Sound(x) /\ x.nodes = v.nodes /\ x.cursor = c
    BY <2>2, DownUp
  <2>4. QED
    BY <2>1, <2>3
<1>4. Linked(t) /\ Linked(w) /\ Linked(v) /\ Linked(u)
  BY <1>1, <1>3 DEF Sound
<1>5. PICK E : E = {}
  OBVIOUS
<1>6. Builds(w, v, E) /\ Builds(v, u, E)
  BY <1>3, <1>4, <1>5, AlikeBuilds, CursorBuilds
<1>7. Builds(w, u, E)
  BY <1>4, <1>6, BuildsAgain
<1>8. Grew(t, u, n, {})
  BY <1>3, <1>5, <1>7 DEF Grew
<1>9. Extends(t, u)
  BY <1>8, GrewExtends
<1>10. CompleteBut(t, {}) => CompleteBut(u, {})
  <2>1. SUFFICES ASSUME CompleteBut(t, {}) PROVE CompleteBut(u, {})
    OBVIOUS
  <2>2. CompleteBut(w, E)
    BY <1>5, <2>1, CompleteKid
  <2>3. CompleteBut(u, E)
    BY <1>4, <1>7, <2>2, CompleteOn
  <2>4. QED
    BY <1>5, <2>3
<1>11. QED
  BY <1>3, <1>8, <1>9, <1>10

\* The statement has a block: an operation is added to it. No if that is not
\* complete but the statement is left.
BelowStatement(t, n, w, v, C, id, at, o) ==
  /\ Sound(t) /\ Fresh(n) /\ n.kind # "SCOPE_OPERATION" /\ KidAdded(t, w, n)
  /\ Sound(v) /\ Builds(w, v, C) /\ v.cursor = w.cursor
  /\ id = Newest(t) + 1 /\ v.nodes[id].ifType \in {"NONE", "IF"}
  /\ o = AddOperationNode(v, at) /\ o # Panicked
  /\ CompleteBut(t, {}) => CompleteBut(v, {id})

OpenedBelow(t, n, v, C, id, at, o) ==
  /\ Grew(t, o, n, C \cup {id}) /\ Sound(o) /\ Extends(t, o) /\ Extends(v, o)
  /\ o.cursor = Append(Append(t.cursor, id), CurrentId(o))
  /\ id \in 1 .. Newest(o) /\ CurrentId(o) \in 1 .. Newest(o) /\ CurrentId(o) > Newest(t)
  /\ o.nodes[CurrentId(o)].kind = "SCOPE_OPERATION" /\ o.nodes[CurrentId(o)].at = at
  /\ \A i \in 1 .. Newest(v) : i # id => o.nodes[i] = v.nodes[i]
  /\ o.nodes[id].ifType = v.nodes[id].ifType
  /\ CompleteBut(t, {}) => CompleteBut(o, {})

LEMMA BlockOpened ==
  ASSUME NEW t, NEW n, NEW w, NEW v, NEW C, NEW id, NEW at, NEW o,
         BelowStatement(t, n, w, v, C, id, at, o)
  PROVE  OpenedBelow(t, n, v, C, id, at, o)
<1> USE DEF BelowStatement
<1>1. Sound(w) /\ w.cursor = Append(t.cursor, id) /\ Newest(w) = id /\ Newest(t) \in Nat
  BY CurrentIs DEF KidAdded
<1>2. IsSeq(t.cursor) /\ t.cursor # <<>>
  BY DEF Sound, Pointed
<1>3. PICK c : c = t.cursor /\ IsSeq(c) /\ c # <<>> /\ v.cursor = Append(c, id)
  BY <1>1, <1>2
<1>4. /\ OperationAdded(v, o, at) /\ CurrentId(v) = id /\ Sound(o) /\ Extends(v, o)
      /\ Builds(v, o, {id}) /\ CurrentId(o) = Newest(o) /\ Newest(o) = Newest(v) + 1
      /\ o.nodes[Newest(o)].kind = "SCOPE_OPERATION" /\ o.nodes[Newest(o)].at = at
      /\ o.cursor = Append(Append(c, id), Newest(o)) /\ id \in 1 .. Newest(v)
  <2>1. BelowNode(v, c, id, at, o)
    BY <1>3 DEF BelowNode
  <2>2. AddedBelow(v, c, id, at, o)
    BY ONLY <2>1, ScopeStep
  <2>3. QED
    BY ONLY <2>2 DEF AddedBelow
<1>5. Linked(w) /\ Linked(v) /\ Linked(o)
  BY <1>1, <1>4 DEF Sound
<1>6. Builds(w, o, C \cup {id})
  BY <1>4, <1>5, BuildsOn
<1>7. Grew(t, o, n, C \cup {id})
  BY <1>4, <1>6 DEF Grew
<1>8. Extends(t, o)
  BY <1>7, GrewExtends
<1>9. Newest(v) \in Nat /\ Newest(t) < Newest(v)
  <2>1. Newest(v) \in Nat
    BY CurrentIs
  <2>2. QED
    BY <1>1, <1>4, <2>1
<1>10. /\ \A i \in 1 .. Newest(v) : i # id => o.nodes[i] = v.nodes[i]
       /\ o.nodes[id].ifType = v.nodes[id].ifType
  <2>1. /\ \A i \in 1 .. Newest(v) : i # id => o.nodes[i] = v.nodes[i]
        /\ \/ o.nodes[id] = [v.nodes[id] EXCEPT !.block = Newest(v) + 1]
           \/ o.nodes[id] = [v.nodes[id] EXCEPT !.elseBlock = Newest(v) + 1]
    BY <1>4 DEF OperationAdded
  <2>2. IsNode(v.nodes[id])
    BY <1>4, <1>5 DEF Linked, Links
  <2>3. QED
    BY <2>1, <2>2 DEF IsNode, NodeFields
<1>11. CompleteBut(t, {}) => CompleteBut(o, {})
  <2>1. SUFFICES ASSUME CompleteBut(t, {}) PROVE CompleteBut(o, {})
    OBVIOUS
  <2>2. CompleteBut(v, {CurrentId(v)})
    BY <1>4, <2>1
  <2>3. v.nodes[CurrentId(v)].ifType # "IF_ELSE"
    BY <1>4
  <2>4. QED
    BY <1>4, <2>2, <2>3, CompleteOperation
<1>12. QED
  BY <1>1, <1>3, <1>4, <1>7, <1>8, <1>9, <1>10, <1>11 DEF OpenedBelow

-----------------------------------------------------------------------------
(* The if an `or` or an `else` continues.                                  *)

\* What the end of the chain of node i is, f being what it is of the others.
ChainAt(f, i) == IF tree.nodes[i].ifType = "IF_OR" THEN f[tree.nodes[i].elseBlock] ELSE i

\* Every node has an end of its chain.
LEMMA ChainEndIs ==
  ASSUME Linked(tree)
  PROVE  \A i \in 1 .. Newest(tree) : ChainEnd[i] \in 1 .. Newest(tree) /\ ChainEnd[i] = ChainAt(ChainEnd, i)
<1>1. PICK n \in Nat : n = Newest(tree) /\ DOMAIN tree.nodes = 1 .. n
  BY SeqIs DEF Linked, Newest
<1>2. CASE n = 0
  BY <1>1, <1>2
<1>3. CASE n # 0
  <2>1. PICK V : V = 1 .. n
    OBVIOUS
  <2>2. PICK v : v \in V
    BY <1>3, <2>1
  <2>3. \A i \in 1 .. n : tree.nodes[i].ifType = "IF_OR" => tree.nodes[i].elseBlock \in i + 1 .. n
    BY <1>1, Younger DEF Links
  <2>4. \A f \in [1 .. n -> V] : \A i \in 1 .. n : ChainAt(f, i) \in V
    BY <2>1, <2>3 DEF ChainAt
  <2>5. PICK G : G = [p \in [1 .. n -> V] \X (1 .. n) |-> ChainAt(p[1], p[2])]
    OBVIOUS
  <2>6. \A f \in [1 .. n -> V] : \A i \in 1 .. n : G[<<f, i>>] = ChainAt(f, i)
    BY <2>5
  <2>7. G \in [[1 .. n -> V] \X (1 .. n) -> V]
    BY <2>4, <2>5
  <2>8. \A f, g \in [1 .. n -> V] : \A i \in 1 .. n :
          (\A j \in i + 1 .. n : f[j] = g[j]) => G[<<f, i>>] = G[<<g, i>>]
    <3>1. TAKE f, g \in [1 .. n -> V]
    <3>2. TAKE i \in 1 .. n
    <3>3. HAVE \A j \in i + 1 .. n : f[j] = g[j]
    <3>4. ChainAt(f, i) = ChainAt(g, i)
      BY <2>3, <3>3 DEF ChainAt
    <3>5. QED
      BY <2>6, <3>4
  <2>9. PICK f \in [1 .. n -> V] : \A i \in 1 .. n : f[i] = ChainAt(f, i)
    <3>1. LooksAbove(n, V, G)
      BY <2>7, <2>8 DEF LooksAbove
    <3>2. \E f : Solves(n, V, G, f)
      BY <2>2, <3>1, DefinedFromAbove
    <3>3. QED
      BY <2>6, <3>2 DEF Solves
  <2>10. f = [i \in DOMAIN tree.nodes |-> ChainAt(f, i)]
    BY <1>1, <2>9
  <2>11. ChainEnd = CHOOSE g : g = [i \in DOMAIN tree.nodes |-> ChainAt(g, i)]
    BY DEF ChainEnd, ChainAt
  <2>12. PICK g : g = ChainEnd /\ g = [i \in DOMAIN tree.nodes |-> ChainAt(g, i)]
    BY <2>10, <2>11, Zenon
  <2>13. \A i \in 1 .. n : g[i] = ChainAt(g, i)
    BY <1>1, <2>12
  <2>14. {i \in 1 .. n : g[i] \in 1 .. n} = 1 .. n
    <3>1. PICK P : P = {i \in 1 .. n : g[i] \in 1 .. n}
      OBVIOUS
    <3>2. \A i \in 1 .. n : (\A j \in i + 1 .. n : j \in P) => i \in P
      BY <2>3, <2>13, <3>1 DEF ChainAt
    <3>3. P \in SUBSET (1 .. n)
      BY <3>1
    <3>4. QED
      BY <3>1, <3>2, <3>3, FromAbove
  <2>15. \A i \in 1 .. n : g[i] \in 1 .. n
    BY <2>14
  <2>16. QED
    BY <1>1, <2>12, <2>13, <2>15, Zenon
<1>4. QED
  BY <1>2, <1>3

LEMMA ContinuedIs ==
  ASSUME Linked(tree), ScopesIn(scopes, Newest(tree)), scopes # <<>>
  PROVE  /\ LastStatement \in 0 .. Newest(tree)
         /\ Continued # 0 =>
              /\ LastStatement # 0 /\ Continued = ChainEnd[LastStatement]
              /\ tree.nodes[LastStatement].kind = "IF_STATEMENT"
              /\ Continued \in 1 .. Newest(tree) /\ tree.nodes[Continued].ifType = "IF"
              /\ tree.nodes[Continued].kind = "IF_STATEMENT" /\ tree.nodes[Continued].elseBlock = 0
<1>1. CurrentScope.node \in 1 .. Newest(tree)
  <2>1. IsSeq(scopes) /\ Last(scopes) = scopes[Len(scopes)] /\ Len(scopes) \in DOMAIN scopes
    BY SeqFront DEF ScopesIn
  <2>2. QED
    BY <2>1 DEF ScopesIn, CurrentScope
<1>2. PICK kids : kids = tree.nodes[CurrentScope.node].kids
  OBVIOUS
<1>3. /\ IsSeq(kids) /\ Newest(tree) \in Nat
      /\ \A k \in DOMAIN kids : kids[k] \in CurrentScope.node + 1 .. Newest(tree)
  BY <1>1, <1>2, Younger DEF Links
<1>4. kids # <<>> => Last(kids) \in 1 .. Newest(tree)
  <2>1. kids # <<>> => Last(kids) = kids[Len(kids)] /\ Len(kids) \in DOMAIN kids
    BY <1>3, SeqFront
  <2>2. QED
    BY <1>1, <1>3, <2>1
<1>5. /\ kids = <<>> => LastStatement = 0
      /\ kids # <<>> => LastStatement = Last(kids)
  BY <1>2 DEF LastStatement
<1>6. LastStatement \in 0 .. Newest(tree)
  BY <1>3, <1>4, <1>5
<1>7. ASSUME Continued # 0
      PROVE  /\ LastStatement # 0 /\ Continued = ChainEnd[LastStatement]
             /\ tree.nodes[LastStatement].kind = "IF_STATEMENT"
             /\ tree.nodes[Continued].ifType = "IF"
  BY <1>7 DEF Continued
<1>8. ASSUME Continued # 0
      PROVE  Continued \in 1 .. Newest(tree)
  <2>1. LastStatement \in 1 .. Newest(tree)
    BY <1>3, <1>6, <1>7, <1>8
  <2>2. QED
    BY <1>7, <1>8, <2>1, ChainEndIs
<1>9. ASSUME Continued # 0
      PROVE  tree.nodes[Continued].kind = "IF_STATEMENT" /\ tree.nodes[Continued].elseBlock = 0
  <2>1. Links(tree, Continued, tree.nodes[Continued])
    BY <1>8, <1>9, Younger
  <2>2. tree.nodes[Continued].ifType = "IF"
    BY <1>7, <1>9
  <2>3. QED
    BY <2>1, <2>2 DEF Links
<1>10. QED
  BY <1>6, <1>7, <1>8, <1>9

-----------------------------------------------------------------------------
(* How a statement ends: it is reported, it is done, or its block follows. *)

Reports == /\ reported' = TRUE /\ frames' = Seen /\ UNCHANGED <<menu, text, pc, scopes, status>>
           /\ \E n \in 1 .. Len(lex.toks) : Take(n)
           /\ Sound(tree') /\ Extends(tree, tree') /\ Len(tree'.cursor) >= Len(tree.cursor)

\* Tree u has a statement more than the tree, of this line and without a block.
Added(u) == /\ u.cursor = tree.cursor /\ (CompleteBut(tree, {}) => CompleteBut(u, {}))
            /\ \E n : /\ Grew(tree, u, n, {}) /\ n.at = Here /\ n.to \in {0, LoopToLeave}
                      /\ n.kind \notin {"IF_STATEMENT", "DECL_FUNC"}

Adds == /\ frames' = Seen /\ UNCHANGED <<menu, text, pc, reported, status>>
        /\ \E n \in 1 .. Len(lex.toks) : Take(n)
        /\ SameScopes(scopes, scopes') /\ Added(tree')

\* Tree t has an operation of this line more than the tree: that of a new node, of
\* one that continues an if, or the else of an if.
OpenedNew(t, owner) ==
  /\ owner = Newest(tree) + 1 /\ t.nodes[owner].ifType \in {"NONE", "IF"}
  /\ \E n : Grew(tree, t, n, {owner}) /\ n.at = Here /\ n.to = 0

OpenedOr(t, owner) ==
  /\ owner = Newest(tree) + 1 /\ t.nodes[owner].ifType = "IF" /\ Continued # 0
  /\ tree.nodes[CurrentId(tree)].kind = "SCOPE_OPERATION"
  /\ t.nodes[Continued].ifType = "IF_OR" /\ t.nodes[Continued].elseBlock = owner
  /\ t.nodes[Continued].block = tree.nodes[Continued].block
  /\ \E n : Grew(tree, t, n, {owner, Continued}) /\ n.at = Here /\ n.to = 0

OpenedElse(t, owner, error) ==
  /\ owner = Continued /\ Continued # 0 /\ Builds(tree, t, {Continued})
  /\ t.nodes[Continued].ifType = "IF_ELSE"
  /\ ~reported /\ ~error =>
       /\ t.nodes[Continued].elseBlock = CurrentId(t)
       /\ t.nodes[Continued].block = tree.nodes[Continued].block

OpenedFor(t, owner, error) ==
  /\ CurrentId(t) > Newest(tree) /\ t.nodes[CurrentId(t)].kind = "SCOPE_OPERATION"
  /\ t.nodes[CurrentId(t)].at = Here
  /\ OpenedNew(t, owner) \/ OpenedOr(t, owner) \/ OpenedElse(t, owner, error)

OpensBlock == \E t, owner, ss, decls : \E error \in BOOLEAN :
  /\ Opens(t, owner, ss, decls, error)
  /\ t = Panicked \/ (OpensWell(t, owner, ss, error) /\ OpenedFor(t, owner, error))

Panics == \E error \in BOOLEAN : StopAfter(error, "panic")

Ends == Reports \/ Adds \/ OpensBlock \/ Panics

LEMMA GoesReports ==
  ASSUME Inv, NEW t, Sound(t), Extends(tree, t), Len(t.cursor) >= Len(tree.cursor),
         NEW n \in 1 .. Len(lex.toks), Goes(t, TRUE, n)
  PROVE  Ends
BY DEF Goes, Reports, Ends

LEMMA RefuseReports ==
  ASSUME Inv, lex.toks # <<>>, Refuse
  PROVE  Ends
<1>1. Linked(tree) /\ Sound(tree)
  BY DEF Inv, Building, Sound
<1>2. Extends(tree, tree) /\ Goes(tree, TRUE, 1)
  BY <1>1, ExtendsSelf DEF Refuse
<1>3. 1 \in 1 .. Len(lex.toks)
  <2>1. IsSeq(lex.toks)
    BY DEF Inv, Reading, LexOK, Tokens
  <2>2. Len(lex.toks) \in Nat /\ Len(lex.toks) # 0
    BY <2>1, SeqIs
  <2>3. QED
    BY <2>2
<1>4. Len(tree.cursor) >= Len(tree.cursor)
  BY <1>1, SeqIs DEF Sound, Pointed
<1>5. QED
  BY <1>1, <1>2, <1>3, <1>4, GoesReports, Zenon

LEMMA GoesAdds ==
  ASSUME Inv, NEW t, Added(t), NEW n \in 1 .. Len(lex.toks), Goes(t, FALSE, n)
  PROVE  Ends
<1>1. SameScopes(scopes, scopes)
  BY ScopesSame DEF Inv, Building
<1>2. reported \in BOOLEAN
  BY DEF Inv, Values
<1>3. tree' = t /\ scopes' = scopes /\ reported' = reported
  BY <1>2 DEF Goes
<1>4. Added(tree') /\ SameScopes(scopes, scopes')
  BY <1>1, <1>3
<1>5. Adds
  BY <1>3, <1>4 DEF Goes, Adds
<1>6. QED
  BY <1>5 DEF Ends

-----------------------------------------------------------------------------
(* Statements without a block.                                             *)

\* A node made for the line read last.
Made(n) == /\ Fresh(n) /\ n.at = Here /\ n.to \in {0, LoopToLeave}
           /\ n.kind \notin {"SCOPE_OPERATION", "DECL_FUNC"}

LEMMA NodeMade ==
  ASSUME NEW kind, kind \notin {"SCOPE_OPERATION", "DECL_FUNC", "IF_STATEMENT"}
  PROVE  LET n == [Node EXCEPT !.kind = kind, !.at = Here]
         IN Made(n) /\ n.kind = kind /\ n.to = 0 /\ n.ifType = "NONE"
<1>1. PICK n : n = [Node EXCEPT !.kind = kind, !.at = Here]
  OBVIOUS
<1>2. n.kind = kind /\ n.at = Here /\ n.to = 0 /\ n.ifType = "NONE"
  BY <1>1 DEF Node
<1>3. Fresh(n)
  BY <1>1 DEF Fresh, Node, IsNode, NodeFields
<1>4. QED
  BY <1>1, <1>2, <1>3 DEF Made

LEMMA StatementAdds ==
  ASSUME Inv, NEW n, Made(n), n.kind # "IF_STATEMENT", NEW w, KidAdded(tree, w, n),
         NEW v, Sound(v), Alike(w, v), v.cursor = w.cursor
  PROVE  Added(TraverseUp(v))
<1>1. PICK u : u = TraverseUp(v)
  OBVIOUS
<1>2. Sound(tree) /\ Fresh(n) /\ n.kind \notin {"SCOPE_OPERATION", "IF_STATEMENT"}
  BY DEF Inv, Building, Made
<1>3. /\ Grew(tree, u, n, {}) /\ u.cursor = tree.cursor
      /\ CompleteBut(tree, {}) => CompleteBut(u, {})
  BY <1>1, <1>2, StatementDone
<1>4. QED
  BY <1>1, <1>3 DEF Added, Made

LEMMA ExpressionDone ==
  ASSUME Inv, NEW n, Made(n), n.kind \in NeedsExpr, NEW o, o = AddStatement(tree, n), o # Panicked,
         NEW e, e.depth \in Nat, NEW v, v = ActOnExpressionBonsai(o, e)
  PROVE  /\ KidAdded(tree, o, n) /\ Sound(v.tree) /\ Extends(tree, v.tree) /\ Alike(o, v.tree)
         /\ Len(v.tree.cursor) >= Len(tree.cursor)
         /\ v.type # "none" => v.tree.cursor = o.cursor
         /\ v.type # "none" /\ n.kind # "IF_STATEMENT" => Added(TraverseUp(v.tree))
<1>1. Sound(tree) /\ Fresh(n)
  BY DEF Inv, Building, Made
<1>2. /\ KidAdded(tree, o, n) /\ Sound(v.tree) /\ Extends(tree, v.tree) /\ Alike(o, v.tree)
      /\ Len(v.tree.cursor) >= Len(tree.cursor)
      /\ v.type # "none" => v.tree.cursor = o.cursor
  BY <1>1, ExpressionStep
<1>3. v.type # "none" /\ n.kind # "IF_STATEMENT" => Added(TraverseUp(v.tree))
  BY <1>2, StatementAdds
<1>4. QED
  BY <1>2, <1>3

LEMMA EvaluationDone ==
  ASSUME Inv, NEW n, Made(n), n.kind # "IF_STATEMENT", NEW o, o = AddStatement(tree, n), o # Panicked,
         NEW e, e.depth \in Nat, NEW v, v = Evaluate(o, e)
  PROVE  /\ Sound(v.tree) /\ Extends(tree, v.tree) /\ Len(v.tree.cursor) >= Len(tree.cursor)
         /\ v.type # "none" => Added(TraverseUp(v.tree))
<1>1. Sound(tree) /\ Fresh(n) /\ n.kind # "SCOPE_OPERATION"
  BY DEF Inv, Building, Made
<1>2. /\ KidAdded(tree, o, n) /\ Sound(v.tree) /\ Extends(tree, v.tree) /\ Alike(o, v.tree)
      /\ Len(v.tree.cursor) >= Len(tree.cursor)
      /\ v.type # "none" => v.tree.cursor = o.cursor
  BY <1>1, EvaluationStep
<1>3. v.type # "none" => Added(TraverseUp(v.tree))
  BY <1>2, StatementAdds
<1>4. QED
  BY <1>2, <1>3

LEMMA LeafDone ==
  ASSUME Inv, NEW n, Made(n), n.kind # "IF_STATEMENT", NEW o, o = AddStatement(tree, n), o # Panicked
  PROVE  Added(TraverseUp(o))
<1>1. Sound(tree) /\ Fresh(n) /\ n.kind # "SCOPE_OPERATION"
  BY DEF Inv, Building, Made
<1>2. KidAdded(tree, o, n)
  BY <1>1, StatementAdded
<1>3. Sound(o) /\ Linked(o) /\ o.nodes = o.nodes
  BY <1>2 DEF KidAdded, Sound
<1>4. Alike(o, o)
  BY <1>3, CursorBuilds
<1>5. QED
  BY <1>2, <1>3, <1>4, StatementAdds

\* Of the two tokens of a statement's line one, or both, are taken.
LEMMA TokensTaken ==
  ASSUME Inv, Sees("STATEMENT")
  PROVE  1 \in 1 .. Len(lex.toks) /\ 2 \in 1 .. Len(lex.toks) /\ lex.toks # <<>> /\ Running
<1>1. Running /\ lex.toks # <<>> /\ Len(lex.toks) = 2
  BY StatementSeen, Zenon
<1>2. QED
  BY ONLY <1>1

LEMMA ExpressionStatementEnds ==
  ASSUME Inv, ExpressionStatement
  PROVE  Ends
<1>1. Sees("STATEMENT") /\ ActOnExpressionStatement
  BY DEF ExpressionStatement, Statement
<1>2. Body_.expr.depth \in Nat /\ 2 \in 1 .. Len(lex.toks)
  BY <1>1, StatementSeen, TokensTaken
<1>3. PICK n : n = [Node EXCEPT !.kind = "EXPRESSION_STATEMENT", !.at = Here]
  OBVIOUS
<1>4. Made(n) /\ n.kind # "IF_STATEMENT"
  BY <1>3, NodeMade
<1>5. PICK o : o = AddStatement(tree, n)
  OBVIOUS
<1>6. PICK v : v = Evaluate(o, Body_.expr)
  OBVIOUS
<1>7. \/ Stop("panic")
      \/ o # Panicked /\ v.type = "none" /\ Goes(v.tree, TRUE, 2)
      \/ o # Panicked /\ v.type # "none" /\ Goes(TraverseUp(v.tree), FALSE, 2)
  BY <1>1, <1>3, <1>5, <1>6 DEF ActOnExpressionStatement, AddExpressionStatementNode
<1>8. o # Panicked => /\ Sound(v.tree) /\ Extends(tree, v.tree) /\ Len(v.tree.cursor) >= Len(tree.cursor)
                      /\ v.type # "none" => Added(TraverseUp(v.tree))
  BY <1>2, <1>4, <1>5, <1>6, EvaluationDone
<1>9. CASE Stop("panic")
  BY <1>9 DEF Stop, Panics, Ends
<1>10. CASE o # Panicked /\ v.type = "none" /\ Goes(v.tree, TRUE, 2)
  BY <1>2, <1>8, <1>10, GoesReports
<1>11. CASE o # Panicked /\ v.type # "none" /\ Goes(TraverseUp(v.tree), FALSE, 2)
  BY <1>2, <1>8, <1>11, GoesAdds
<1>12. QED
  BY <1>7, <1>9, <1>10, <1>11

LEMMA ReturnStatementEnds ==
  ASSUME Inv, ReturnStatement
  PROVE  Ends
<1>1. Sees("STATEMENT") /\ ActOnReturnStatement
  BY DEF ReturnStatement, Statement
<1>2. Body_.expr.depth \in Nat /\ 2 \in 1 .. Len(lex.toks)
  BY <1>1, StatementSeen, TokensTaken
<1>3. PICK n : n = [Node EXCEPT !.kind = "RETURN_STATEMENT", !.at = Here]
  OBVIOUS
<1>4. Made(n) /\ n.kind # "IF_STATEMENT" /\ n.kind \in NeedsExpr
  BY <1>3, NodeMade DEF NeedsExpr
<1>5. PICK o : o = AddStatement(tree, n)
  OBVIOUS
<1>6. PICK v : v = ActOnExpressionBonsai(o, Body_.expr)
  OBVIOUS
<1>7. \/ Stop("panic")
      \/ o # Panicked /\ Goes(v.tree, TRUE, 2)
      \/ o # Panicked /\ v.type # "none" /\ Goes(TraverseUp(v.tree), FALSE, 2)
  BY <1>1, <1>3, <1>5, <1>6 DEF ActOnReturnStatement, AddReturnStatementNode
<1>8. o # Panicked => /\ Sound(v.tree) /\ Extends(tree, v.tree) /\ Len(v.tree.cursor) >= Len(tree.cursor)
                      /\ v.type # "none" => Added(TraverseUp(v.tree))
  BY <1>2, <1>4, <1>5, <1>6, ExpressionDone
<1>9. CASE Stop("panic")
  BY <1>9 DEF Stop, Panics, Ends
<1>10. CASE o # Panicked /\ Goes(v.tree, TRUE, 2)
  BY <1>2, <1>8, <1>10, GoesReports
<1>11. CASE o # Panicked /\ v.type # "none" /\ Goes(TraverseUp(v.tree), FALSE, 2)
  BY <1>2, <1>8, <1>11, GoesAdds
<1>12. QED
  BY <1>7, <1>9, <1>10, <1>11

\* A break or a continue.
LEMMA LeaveEnds ==
  ASSUME Inv, Sees("STATEMENT"), NEW kind \in {"BREAK_STATEMENT", "CONTINUE_STATEMENT"}, NEW o,
         o = AddStatement(tree, [Node EXCEPT !.kind = kind, !.to = LoopToLeave, !.at = Here]), ActOnLeave(o)
  PROVE  Ends
<1>1. 2 \in 1 .. Len(lex.toks) /\ lex.toks # <<>> /\ Sound(tree)
  BY TokensTaken DEF Inv, Building
<1>2. PICK n : n = [Node EXCEPT !.kind = kind, !.to = LoopToLeave, !.at = Here]
  OBVIOUS
<1>3. n.kind = kind /\ n.at = Here /\ n.to = LoopToLeave /\ n.ifType = "NONE"
  BY <1>2 DEF Node
<1>4. Fresh(n)
  BY <1>2 DEF Fresh, Node, IsNode, NodeFields
<1>5. Made(n) /\ n.kind # "IF_STATEMENT"
  BY <1>3, <1>4 DEF Made
<1>6. CASE LoopToLeave = 0 /\ Goes(tree, TRUE, 2)
  <2>1. Extends(tree, tree) /\ Len(tree.cursor) >= Len(tree.cursor)
    BY <1>1, ExtendsSelf, SeqIs DEF Sound, Pointed
  <2>2. QED
    BY <1>1, <1>6, <2>1, GoesReports, Zenon
<1>7. CASE Stop("panic")
  BY <1>7 DEF Stop, Panics, Ends
<1>8. CASE o # Panicked /\ Goes(TraverseUp(o), FALSE, 2)
  <2>1. o = AddStatement(tree, n)
    BY <1>2
  <2>2. Added(TraverseUp(o))
    BY <1>5, <1>8, <2>1, LeafDone
  <2>3. QED
    BY <1>1, <1>8, <2>2, GoesAdds
<1>9. QED
  BY <1>6, <1>7, <1>8 DEF ActOnLeave

LEMMA LeavesEnd ==
  ASSUME Inv, BreakStatement \/ ContinueStatement
  PROVE  Ends
<1>1. Sees("STATEMENT")
  BY DEF BreakStatement, ContinueStatement, Statement
<1>2. CASE BreakStatement
  <2>1. PICK o : o = AddBreakStatementNode(tree, LoopToLeave, Here)
    OBVIOUS
  <2>2. ActOnLeave(o)
    BY <1>2, <2>1 DEF BreakStatement, ActOnBreakStatement
  <2>3. o = AddStatement(tree, [Node EXCEPT !.kind = "BREAK_STATEMENT", !.to = LoopToLeave, !.at = Here])
    BY <2>1 DEF AddBreakStatementNode
  <2>4. QED
    BY <1>1, <2>2, <2>3, LeaveEnds
<1>3. CASE ContinueStatement
  <2>1. PICK o : o = AddContinueStatementNode(tree, LoopToLeave, Here)
    OBVIOUS
  <2>2. ActOnLeave(o)
    BY <1>3, <2>1 DEF ContinueStatement, ActOnContinueStatement
  <2>3. o = AddStatement(tree, [Node EXCEPT !.kind = "CONTINUE_STATEMENT", !.to = LoopToLeave, !.at = Here])
    BY <2>1 DEF AddContinueStatementNode
  <2>4. QED
    BY <1>1, <2>2, <2>3, LeaveEnds
<1>4. QED
  BY <1>2, <1>3

LEMMA ObjectDeclEnds ==
  ASSUME Inv, ObjectDecl
  PROVE  Ends
<1>1. Sees("STATEMENT") /\ ActOnObjectDecl
  BY DEF ObjectDecl, Statement
<1>2. Body_.expr.depth \in Nat /\ 1 \in 1 .. Len(lex.toks) /\ lex.toks # <<>>
  BY <1>1, StatementSeen, TokensTaken
<1>3. PICK n : n = [Node EXCEPT !.kind = "DECL_OBJECT", !.at = Here]
  OBVIOUS
<1>4. Made(n) /\ n.kind # "IF_STATEMENT" /\ n.kind \in NeedsExpr
  BY <1>3, NodeMade DEF NeedsExpr
<1>5. PICK o : o = AddStatement(tree, n)
  OBVIOUS
<1>6. PICK v : v = ActOnExpressionBonsai(o, Body_.expr)
  OBVIOUS
<1>7. PICK D : D = scopes[Len(scopes)].decls \cup {[name |-> Body_.name, type |-> v.type]}
  OBVIOUS
<1>8. \/ Refuse
      \/ Stop("panic")
      \/ o # Panicked /\ Goes(v.tree, TRUE, 1)
      \/ /\ o # Panicked /\ v.type # "none"
         /\ tree' = TraverseUp(v.tree) /\ Take(1) /\ frames' = Seen
         /\ scopes' = [scopes EXCEPT ![Len(scopes)].decls = D]
         /\ UNCHANGED <<menu, text, pc, reported, status>>
  BY <1>1, <1>3, <1>5, <1>6, <1>7 DEF ActOnObjectDecl, AddObjectDecl
<1>9. o # Panicked => /\ Sound(v.tree) /\ Extends(tree, v.tree) /\ Len(v.tree.cursor) >= Len(tree.cursor)
                      /\ v.type # "none" => Added(TraverseUp(v.tree))
  BY <1>2, <1>4, <1>5, <1>6, ExpressionDone
<1>10. CASE Refuse
  BY <1>2, <1>10, RefuseReports
<1>11. CASE Stop("panic")
  BY <1>11 DEF Stop, Panics, Ends
<1>12. CASE o # Panicked /\ Goes(v.tree, TRUE, 1)
  BY <1>2, <1>9, <1>12, GoesReports
<1>13. CASE /\ o # Panicked /\ v.type # "none"
            /\ tree' = TraverseUp(v.tree) /\ Take(1) /\ frames' = Seen
            /\ scopes' = [scopes EXCEPT ![Len(scopes)].decls = D]
            /\ UNCHANGED <<menu, text, pc, reported, status>>
  <2>1. ScopesIn(scopes, Newest(tree)) /\ Len(scopes) \in 1 .. Len(scopes)
    <3>1. Running /\ ScopesIn(scopes, Newest(tree)) /\ Len(scopes) = Len(frames) + 1 /\ Framed(frames)
      BY <1>1, TokensTaken DEF Inv, Building, Values, Running
    <3>2. Len(scopes) \in Nat /\ Len(frames) \in Nat
      BY <3>1, SeqIs DEF ScopesIn, Framed
    <3>3. QED
      BY <3>1, <3>2
  <2>2. SameScopes(scopes, [scopes EXCEPT ![Len(scopes)].decls = D])
    BY ONLY <2>1, DeclaredIn
  <2>3. SameScopes(scopes, scopes')
    BY <1>13, <2>2
  <2>4. Added(tree')
    BY <1>9, <1>13
  <2>5. Adds
    BY <1>2, <1>13, <2>3, <2>4 DEF Adds
  <2>6. QED
    BY <2>5 DEF Ends
<1>14. QED
  BY <1>8, <1>10, <1>11, <1>12, <1>13

-----------------------------------------------------------------------------
(* Statements with a block.                                                *)

\* The block of a new node, which is not the module's.
LEMMA NewBlock ==
  ASSUME Inv, frames # <<>>, NEW n, NEW w, NEW v, NEW C, NEW id, NEW at, NEW o, at = Here,
         BelowStatement(tree, n, w, v, C, id, at, o)
  PROVE  OpensWell(o, id, scopes, FALSE) /\ OpenedBelow(tree, n, v, C, id, at, o)
<1>1. SameScopes(scopes, scopes)
  BY ScopesSame DEF Inv, Building
<1>2. OpenedBelow(tree, n, v, C, id, at, o)
  BY BlockOpened
<1>3. ~reported => CompleteBut(tree, {})
  BY DEF Inv, Building
<1>4. OpensWell(o, id, scopes, FALSE)
  BY <1>1, <1>2, <1>3 DEF OpensWell, OpenedBelow
<1>5. QED
  BY <1>2, <1>4

\* The block of a new node, and nothing else.
LEMMA NewBlockOnly ==
  ASSUME Inv, frames # <<>>, NEW n, Made(n), n.to = 0, NEW w, KidAdded(tree, w, n),
         NEW v, Sound(v), Alike(w, v), v.cursor = w.cursor
  PROVE  LET o == CreateScope(v)   id == CurrentId(w)
         IN o # Panicked => OpensWell(o, id, scopes, FALSE) /\ OpenedFor(o, id, FALSE)
<1>1. PICK id : id = Newest(tree) + 1
  OBVIOUS
<1>2. PICK o : o = CreateScope(v)
  OBVIOUS
<1>3. Sound(tree) /\ Fresh(n) /\ Newest(tree) \in Nat /\ Linked(w) /\ Linked(v) /\ Newest(w) = id /\ w.nodes[id] = n
  BY <1>1, CurrentIs DEF Inv, Building, Made, KidAdded, Sound
<1>4. CurrentId(w) = id
  <2>1. IsSeq(tree.cursor) /\ tree.cursor # <<>> /\ w.cursor = Append(tree.cursor, id) /\ Sound(w)
    BY <1>1, <1>3 DEF Sound, Pointed, KidAdded
  <2>2. QED
    BY <2>1, DownAt
<1>5. Builds(w, v, {})
  BY <1>3, AlikeBuilds
<1>6. v.nodes[id].ifType \in {"NONE", "IF"}
  <2>1. id \in 1 .. Newest(w)
    BY <1>1, <1>3
  <2>2. v.nodes[id].ifType = n.ifType
    BY <1>3, <2>1 DEF Alike, AlikeNodes
  <2>3. QED
    BY <1>3, <2>2 DEF Fresh
<1>7. CompleteBut(tree, {}) => CompleteBut(v, {id})
  <2>1. SUFFICES ASSUME CompleteBut(tree, {}) PROVE CompleteBut(v, {id})
    OBVIOUS
  <2>2. CompleteBut(w, {id})
    BY <1>3, <2>1, CompleteKid
  <2>3. PICK D : D = {id} \cup {}
    OBVIOUS
  <2>4. CompleteBut(v, D)
    BY <1>3, <1>5, <2>2, <2>3, CompleteStays
  <2>5. D = {id}
    BY <2>3
  <2>6. QED
    BY <2>4, <2>5
<1>8. SUFFICES ASSUME o # Panicked PROVE OpensWell(o, id, scopes, FALSE) /\ OpenedFor(o, id, FALSE)
  BY <1>2, <1>4
<1>9. PICK E : E = {}
  OBVIOUS
<1>10. /\ OpensWell(o, id, scopes, FALSE) /\ Grew(tree, o, n, E \cup {id})
       /\ CurrentId(o) > Newest(tree) /\ o.nodes[CurrentId(o)].kind = "SCOPE_OPERATION"
       /\ o.nodes[CurrentId(o)].at = Here
       /\ o.nodes[id].ifType = v.nodes[id].ifType
  <2>1. Builds(w, v, E)
    BY <1>5, <1>9
  <2>2. PICK at : at = Here
    OBVIOUS
  <2>3. Sound(tree) /\ n.kind # "SCOPE_OPERATION" /\ o = AddOperationNode(v, at)
    BY <1>2, <2>2 DEF Inv, Building, Made, CreateScope
  <2>4. BelowStatement(tree, n, w, v, E, id, at, o)
    BY <1>1, <1>3, <1>6, <1>7, <1>8, <2>1, <2>3 DEF BelowStatement
  <2>5. OpensWell(o, id, scopes, FALSE) /\ OpenedBelow(tree, n, v, E, id, at, o)
    BY <2>2, <2>4, NewBlock
  <2>6. QED
    BY <2>2, <2>5 DEF OpenedBelow
<1>11. OpenedNew(o, id)
  <2>1. E \cup {id} = {id}
    BY <1>9
  <2>2. n.at = Here
    BY DEF Made
  <2>3. QED
    BY <1>1, <1>6, <1>10, <2>1, <2>2 DEF OpenedNew
<1>12. QED
  BY <1>10, <1>11 DEF OpenedFor

\* A node with a block is added for the line read last.
LEMMA MadeWithBlock ==
  ASSUME NEW n, n = [Node EXCEPT !.kind = "IF_STATEMENT", !.ifType = "IF", !.at = Here]
  PROVE  Made(n) /\ n.kind = "IF_STATEMENT" /\ n.ifType = "IF" /\ n.to = 0
<1>1. n.kind = "IF_STATEMENT" /\ n.at = Here /\ n.to = 0 /\ n.ifType = "IF"
  BY DEF Node
<1>2. Fresh(n)
  BY DEF Fresh, Node, IsNode, NodeFields
<1>3. QED
  BY <1>1, <1>2 DEF Made

\* An if or a while.
LEMMA ConditionEnds ==
  ASSUME Inv, Sees("STATEMENT"), frames # <<>>, NEW n, Made(n), n.to = 0,
         n.kind \in {"IF_STATEMENT", "WHILE_STATEMENT"},
         NEW o, o = AddStatement(tree, n), ActOnCondition(o)
  PROVE  Ends
<1>1. Body_.expr.depth \in Nat /\ 1 \in 1 .. Len(lex.toks) /\ n.kind \in NeedsExpr
  BY StatementSeen, TokensTaken DEF NeedsExpr
<1>2. PICK v : v = ActOnExpressionBonsai(o, Body_.expr)
  OBVIOUS
<1>3. \/ Stop("panic")
      \/ o # Panicked /\ Goes(v.tree, TRUE, 1)
      \/ o # Panicked /\ v.type = "bool" /\ Opens(CreateScope(v.tree), CurrentId(o), scopes, {}, FALSE)
  BY <1>2 DEF ActOnCondition
<1>4. o # Panicked =>
        /\ KidAdded(tree, o, n) /\ Sound(v.tree) /\ Extends(tree, v.tree) /\ Alike(o, v.tree)
        /\ Len(v.tree.cursor) >= Len(tree.cursor)
        /\ v.type # "none" => v.tree.cursor = o.cursor
  BY <1>1, <1>2, ExpressionDone
<1>5. CASE Stop("panic")
  BY <1>5 DEF Stop, Panics, Ends
<1>6. CASE o # Panicked /\ Goes(v.tree, TRUE, 1)
  BY <1>1, <1>4, <1>6, GoesReports
<1>7. CASE o # Panicked /\ v.type = "bool" /\ Opens(CreateScope(v.tree), CurrentId(o), scopes, {}, FALSE)
  <2>1. PICK x, id, u : x = v.tree /\ id = CurrentId(o) /\ u = CreateScope(x)
    OBVIOUS
  <2>2. u # Panicked => OpensWell(u, id, scopes, FALSE) /\ OpenedFor(u, id, FALSE)
    BY <1>4, <1>7, <2>1, NewBlockOnly
  <2>3. OpensBlock
    BY <1>7, <2>1, <2>2 DEF OpensBlock
  <2>4. QED
    BY <2>3 DEF Ends
<1>8. QED
  BY <1>3, <1>5, <1>6, <1>7

LEMMA ConditionsEnd ==
  ASSUME Inv, IfStatement \/ WhileStatement
  PROVE  Ends
<1>1. Sees("STATEMENT") /\ frames # <<>>
  BY DEF IfStatement, WhileStatement, Statement, InModule
<1>2. CASE IfStatement
  <2>1. PICK n : n = [Node EXCEPT !.kind = "IF_STATEMENT", !.ifType = "IF", !.at = Here]
    OBVIOUS
  <2>2. Made(n) /\ n.kind = "IF_STATEMENT" /\ n.to = 0
    BY <2>1, MadeWithBlock
  <2>3. PICK o : o = AddStatement(tree, n)
    OBVIOUS
  <2>4. ActOnCondition(o)
    BY <1>2, <2>1, <2>3 DEF IfStatement, ActOnIfStatement, AddIfStatementNode
  <2>5. QED
    BY <1>1, <2>2, <2>3, <2>4, ConditionEnds
<1>3. CASE WhileStatement
  <2>1. PICK n : n = [Node EXCEPT !.kind = "WHILE_STATEMENT", !.at = Here]
    OBVIOUS
  <2>2. Made(n) /\ n.kind = "WHILE_STATEMENT" /\ n.to = 0
    BY <2>1, NodeMade
  <2>3. PICK o : o = AddStatement(tree, n)
    OBVIOUS
  <2>4. ActOnCondition(o)
    BY <1>3, <2>1, <2>3 DEF WhileStatement, ActOnWhileStatement, AddWhileStatementNode
  <2>5. QED
    BY <1>1, <2>2, <2>3, <2>4, ConditionEnds
<1>4. QED
  BY <1>2, <1>3

LEMMA LoopEnds ==
  ASSUME Inv, LoopStatement
  PROVE  Ends
<1>1. Sees("STATEMENT") /\ frames # <<>> /\ Sound(tree)
  BY DEF LoopStatement, Statement, InModule, Inv, Building
<1>2. PICK n : n = [Node EXCEPT !.kind = "LOOP_STATEMENT", !.at = Here]
  OBVIOUS
<1>3. Made(n) /\ n.to = 0 /\ Fresh(n) /\ n.kind # "SCOPE_OPERATION"
  BY <1>2, NodeMade DEF Made
<1>4. PICK o : o = AddStatement(tree, n)
  OBVIOUS
<1>5. \/ Stop("panic")
      \/ o # Panicked /\ Opens(CreateScope(o), CurrentId(o), scopes, {}, FALSE)
  BY <1>2, <1>4 DEF LoopStatement, ActOnLoopStatement, AddLoopStatementNode
<1>6. CASE Stop("panic")
  BY <1>6 DEF Stop, Panics, Ends
<1>7. CASE o # Panicked /\ Opens(CreateScope(o), CurrentId(o), scopes, {}, FALSE)
  <2>1. KidAdded(tree, o, n)
    BY <1>1, <1>3, <1>4, <1>7, StatementAdded
  <2>2. Sound(o) /\ Linked(o) /\ o.nodes = o.nodes
    BY <2>1 DEF KidAdded, Sound
  <2>3. Alike(o, o)
    BY <2>2, CursorBuilds
  <2>4. PICK id, u : id = CurrentId(o) /\ u = CreateScope(o)
    OBVIOUS
  <2>5. u # Panicked => OpensWell(u, id, scopes, FALSE) /\ OpenedFor(u, id, FALSE)
    BY <1>1, <1>3, <2>1, <2>2, <2>3, <2>4, NewBlockOnly
  <2>6. OpensBlock
    BY <1>7, <2>4, <2>5 DEF OpensBlock
  <2>7. QED
    BY <2>6 DEF Ends
<1>8. QED
  BY <1>5, <1>6, <1>7

-----------------------------------------------------------------------------
(* What continues an if.                                                   *)

\* The if becomes one that is continued by id.
MayLink(t, c, id) == /\ Sound(t) /\ c \in 1 .. Newest(t) /\ t.nodes[c].ifType = "IF"
                     /\ id \in 1 .. Newest(t) /\ c < id /\ t.nodes[id].kind = "IF_STATEMENT"

LinkedTo(t, c, id, u) ==
  /\ Sound(u) /\ u.cursor = t.cursor /\ Newest(u) = Newest(t) /\ Builds(t, u, {c})
  /\ u.nodes[c].elseBlock = id /\ u.nodes[c].ifType = "IF_OR"
  /\ u.nodes[c].block = t.nodes[c].block
  /\ \A i \in 1 .. Newest(t) : i # c => u.nodes[i] = t.nodes[i]

LEMMA IfLinked ==
  ASSUME NEW t, NEW c, NEW id, MayLink(t, c, id)
  PROVE  LinkedTo(t, c, id, [t EXCEPT !.nodes[c].elseBlock = id, !.nodes[c].ifType = "IF_OR"])
<1> USE DEF MayLink
<1>1. PICK m : m = [t.nodes[c] EXCEPT !.elseBlock = id, !.ifType = "IF_OR"]
  OBVIOUS
<1>2. PICK u : u = [t EXCEPT !.nodes[c] = m]
  OBVIOUS
<1>3. Linked(t) /\ IsNode(t.nodes[c]) /\ Links(t, c, t.nodes[c]) /\ Newest(t) \in Nat
  BY CurrentIs, Younger DEF Sound, Links
<1>4. /\ m.elseBlock = id /\ m.ifType = "IF_OR" /\ m.block = t.nodes[c].block /\ m.kids = t.nodes[c].kids
      /\ Same(t.nodes[c], m) /\ IsNode(m)
  BY <1>1, <1>3 DEF IsNode, NodeFields, Same
<1>5. id \in c + 1 .. Newest(t)
  BY <1>3
<1>6. Links(t, c, m)
  <2>1. /\ IsSeq(m.kids) /\ m.kind = "IF_STATEMENT"
        /\ \A k \in DOMAIN m.kids : /\ m.kids[k] \in c + 1 .. Newest(t)
                                    /\ t.nodes[m.kids[k]].kind # "SCOPE_OPERATION"
        /\ m.block # 0 => /\ m.block \in c + 1 .. Newest(t)
                          /\ t.nodes[m.block].kind = "SCOPE_OPERATION"
    BY <1>3, <1>4 DEF Links, Same
  <2>2. m.elseBlock # 0
    BY <1>3, <1>4
  <2>3. QED
    BY <1>4, <1>5, <2>1, <2>2 DEF Links
<1>7. /\ Sound(u) /\ Extends(t, u) /\ Newest(u) = Newest(t) /\ u.cursor = t.cursor /\ u.nodes[c] = m
      /\ \A j \in 1 .. Newest(t) : j # c => u.nodes[j] = t.nodes[j]
  BY <1>2, <1>4, <1>6, NodeChanged
<1>8. Builds(t, u, {c})
  BY <1>3, <1>4, <1>7 DEF Builds
<1>9. [t EXCEPT !.nodes[c].elseBlock = id, !.nodes[c].ifType = "IF_OR"] = u
  <2>1. IsTree(t) /\ c \in DOMAIN t.nodes /\ t.nodes = [i \in DOMAIN t.nodes |-> t.nodes[i]]
    <3>1. IsTree(t) /\ IsSeq(t.nodes)
      BY <1>3 DEF Linked
    <3>2. PICK S : t.nodes \in Seq(S)
      BY <3>1 DEF IsSeq
    <3>3. c \in DOMAIN t.nodes
      BY <3>1, SeqIs DEF Newest
    <3>4. QED
      BY <3>1, <3>2, <3>3
  <2>2. QED
    BY <1>1, <1>2, <2>1 DEF IsTree, TreeFields
<1>10. LinkedTo(t, c, id, u)
  BY <1>4, <1>7, <1>8 DEF LinkedTo
<1>11. QED
  BY <1>9, <1>10

LEMMA OrEnds ==
  ASSUME Inv, OrStatement
  PROVE  Ends
<1>1. Sees("STATEMENT") /\ frames # <<>> /\ ActOnOrStatement
  BY DEF OrStatement, Statement, InModule
<1>2. Body_.expr.depth \in Nat /\ 1 \in 1 .. Len(lex.toks) /\ lex.toks # <<>> /\ Running
  BY <1>1, StatementSeen, TokensTaken
<1>3. PICK n : n = [Node EXCEPT !.kind = "IF_STATEMENT", !.ifType = "IF", !.at = Here]
  OBVIOUS
<1>4. Made(n) /\ n.kind = "IF_STATEMENT" /\ n.ifType = "IF" /\ n.to = 0 /\ n.kind \in NeedsExpr
  BY <1>3, MadeWithBlock DEF NeedsExpr
<1>5. PICK o : o = AddStatement(tree, n)
  OBVIOUS
<1>6. PICK v : v = ActOnExpressionBonsai(o, Body_.expr)
  OBVIOUS
<1>7. PICK x, id, c : x = v.tree /\ id = CurrentId(o) /\ c = Continued
  OBVIOUS
<1>8. PICK y : y = [x EXCEPT !.nodes[c].elseBlock = id, !.nodes[c].ifType = "IF_OR"]
  OBVIOUS
<1>9. \/ Refuse
      \/ Stop("panic")
      \/ o # Panicked /\ Goes(x, TRUE, 1)
      \/ c # 0 /\ o # Panicked /\ v.type = "bool" /\ Opens(CreateScope(y), id, scopes, {}, FALSE)
  BY <1>1, <1>3, <1>5, <1>6, <1>7, <1>8 DEF ActOnOrStatement, AddIfStatementNode
<1>10. o # Panicked =>
         /\ KidAdded(tree, o, n) /\ Sound(x) /\ Extends(tree, x) /\ Alike(o, x)
         /\ Len(x.cursor) >= Len(tree.cursor)
         /\ v.type # "none" => x.cursor = o.cursor
  BY <1>2, <1>4, <1>5, <1>6, <1>7, ExpressionDone
<1>11. CASE Refuse
  BY <1>2, <1>11, RefuseReports
<1>12. CASE Stop("panic")
  BY <1>12 DEF Stop, Panics, Ends
<1>13. CASE o # Panicked /\ Goes(x, TRUE, 1)
  BY <1>2, <1>10, <1>13, GoesReports
<1>14. CASE c # 0 /\ o # Panicked /\ v.type = "bool" /\ Opens(CreateScope(y), id, scopes, {}, FALSE)
  <2>1. KidAdded(tree, o, n) /\ Sound(x) /\ Alike(o, x) /\ x.cursor = o.cursor /\ Sound(o)
    BY <1>10, <1>14 DEF KidAdded
  <2>2. Sound(tree) /\ Linked(tree) /\ Newest(tree) \in Nat /\ Linked(o) /\ Linked(x)
    BY <2>1, CurrentIs DEF Inv, Building, Sound
  <2>3. id = Newest(tree) + 1 /\ Newest(o) = id /\ o.nodes[id] = n /\ Newest(x) = id
    <3>1. IsSeq(tree.cursor) /\ tree.cursor # <<>> /\ o.cursor = Append(tree.cursor, Newest(tree) + 1)
      BY <2>1, <2>2 DEF Sound, Pointed, KidAdded
    <3>2. CurrentId(o) = Newest(tree) + 1
      BY <2>1, <3>1, DownAt
    <3>3. QED
      BY <1>7, <2>1, <3>2 DEF KidAdded, Alike
  <2>4. c \in 1 .. Newest(tree) /\ tree.nodes[c].ifType = "IF" /\ tree.nodes[c].kind = "IF_STATEMENT"
    <3>1. ScopesIn(scopes, Newest(tree)) /\ scopes # <<>>
      <4>1. ScopesIn(scopes, Newest(tree)) /\ Len(scopes) = Len(frames) + 1 /\ Framed(frames)
        BY <1>2 DEF Inv, Building, Values, Running
      <4>2. Len(frames) \in Nat
        BY <4>1, SeqIs DEF Framed
      <4>3. Len(scopes) # 0
        BY <4>1, <4>2
      <4>4. QED
        BY <4>1, <4>3, SeqIs DEF ScopesIn
    <3>2. QED
      BY <1>7, <1>14, <2>2, <3>1, ContinuedIs
  <2>5. tree.nodes[CurrentId(tree)].kind = "SCOPE_OPERATION"
    BY <1>4, <1>5, <1>14, <2>2, StatementAdded DEF Made
  <2>6. o.nodes[c] = tree.nodes[c] /\ c # id /\ c < id /\ c \in 1 .. Newest(x)
    <3>1. c # CurrentId(tree)
      BY <2>4, <2>5
    <3>2. o.nodes[c] = tree.nodes[c]
      BY <2>1, <2>4, <3>1 DEF KidAdded
    <3>3. QED
      BY <2>2, <2>3, <2>4, <3>2
  <2>7. /\ x.nodes[c].ifType = "IF" /\ x.nodes[c].block = tree.nodes[c].block
        /\ x.nodes[id].kind = "IF_STATEMENT" /\ x.nodes[id].ifType = "IF" /\ id \in 1 .. Newest(x)
    <3>1. c \in 1 .. Newest(o) /\ id \in 1 .. Newest(o)
      BY <2>2, <2>3, <2>4
    <3>2. AlikeNodes(o.nodes[c], x.nodes[c]) /\ AlikeNodes(o.nodes[id], x.nodes[id])
      BY <2>1, <3>1 DEF Alike
    <3>3. QED
      BY <1>4, <2>3, <2>4, <2>6, <3>1, <3>2 DEF AlikeNodes, Same
  <2>8. /\ Sound(y) /\ y.cursor = x.cursor /\ Newest(y) = Newest(x) /\ Builds(x, y, {c})
        /\ y.nodes[c].elseBlock = id /\ y.nodes[c].ifType = "IF_OR" /\ y.nodes[c].block = x.nodes[c].block
        /\ \A i \in 1 .. Newest(x) : i # c => y.nodes[i] = x.nodes[i]
    <3>1. MayLink(x, c, id)
      BY <2>1, <2>6, <2>7 DEF MayLink
    <3>2. LinkedTo(x, c, id, [x EXCEPT !.nodes[c].elseBlock = id, !.nodes[c].ifType = "IF_OR"])
      BY ONLY <3>1, IfLinked
    <3>3. LinkedTo(x, c, id, y)
      BY ONLY <1>8, <3>2
    <3>4. QED
      BY ONLY <3>3 DEF LinkedTo
  <2>9. Linked(y)
    BY <2>8 DEF Sound
  <2>10. PICK C : C = {} \cup {c}
    OBVIOUS
  <2>11. Builds(o, y, C)
    <3>1. Builds(o, x, {})
      BY <2>1, <2>2, AlikeBuilds
    <3>2. QED
      BY <2>2, <2>8, <2>9, <2>10, <3>1, BuildsOn
  <2>12. y.nodes[id].ifType = "IF"
    BY <2>6, <2>7, <2>8
  <2>13. CompleteBut(tree, {}) => CompleteBut(y, {id})
    <3>1. SUFFICES ASSUME CompleteBut(tree, {}) PROVE CompleteBut(y, {id})
      OBVIOUS
    <3>2. CompleteBut(o, {id})
      BY <2>1, <2>2, <2>3, <3>1, CompleteKid
    <3>3. CompleteBut(x, {id})
      <4>1. PICK D : D = {id} \cup {}
        OBVIOUS
      <4>2. Builds(o, x, {})
        BY <2>1, <2>2, AlikeBuilds
      <4>3. CompleteBut(x, D)
        BY <2>2, <3>2, <4>1, <4>2, CompleteStays
      <4>4. D = {id}
        BY <4>1
      <4>5. QED
        BY <4>3, <4>4
    <3>4. y.nodes[c].block # 0
      BY <2>4, <2>7, <2>8, <3>1 DEF CompleteBut
    <3>5. QED
      BY <2>8, <3>3, <3>4 DEF CompleteBut
  <2>14. PICK u : u = CreateScope(y)
    OBVIOUS
  <2>15. ASSUME u # Panicked
         PROVE  OpensWell(u, id, scopes, FALSE) /\ OpenedFor(u, id, FALSE)
    <3>1. /\ OpensWell(u, id, scopes, FALSE) /\ Grew(tree, u, n, C \cup {id})
          /\ CurrentId(u) > Newest(tree) /\ u.nodes[CurrentId(u)].kind = "SCOPE_OPERATION"
          /\ u.nodes[CurrentId(u)].at = Here
          /\ \A i \in 1 .. Newest(y) : i # id => u.nodes[i] = y.nodes[i]
          /\ u.nodes[id].ifType = y.nodes[id].ifType
      <4>1. y.cursor = o.cursor /\ y.nodes[id].ifType \in {"NONE", "IF"}
        BY <2>1, <2>8, <2>12
      <4>2. PICK at : at = Here
        OBVIOUS
      <4>3. u = AddOperationNode(y, at)
        BY <2>14, <4>2 DEF CreateScope
      <4>4. BelowStatement(tree, n, o, y, C, id, at, u)
        BY <1>4, <2>1, <2>2, <2>3, <2>8, <2>11, <2>13, <2>15, <4>1, <4>3 DEF BelowStatement, Made
      <4>5. OpensWell(u, id, scopes, FALSE) /\ OpenedBelow(tree, n, y, C, id, at, u)
        BY <1>1, <4>2, <4>4, NewBlock
      <4>6. QED
        BY ONLY <4>2, <4>5 DEF OpenedBelow
    <3>2. C \cup {id} = {id, c}
      BY <2>10
    <3>3. u.nodes[c] = y.nodes[c]
      BY <2>6, <2>8, <3>1
    <3>4. OpenedOr(u, id)
      BY <1>4, <1>7, <1>14, <2>3, <2>5, <2>7, <2>8, <2>12, <3>1, <3>2, <3>3 DEF OpenedOr, Made
    <3>5. QED
      BY <3>1, <3>4 DEF OpenedFor
  <2>16. OpensBlock
    BY <1>14, <2>14, <2>15 DEF OpensBlock
  <2>17. QED
    BY <2>16 DEF Ends
<1>15. QED
  BY <1>9, <1>11, <1>12, <1>13, <1>14

LEMMA ElseEnds ==
  ASSUME Inv, ElseStatement
  PROVE  Ends
<1>1. Sees("STATEMENT") /\ frames # <<>> /\ ActOnElseStatement
  BY DEF ElseStatement, Statement, InModule
<1>2. lex.toks # <<>> /\ Running
  BY <1>1, TokensTaken
<1>3. PICK c : c = Continued
  OBVIOUS
<1>4. PICK x : x = TraverseDown(tree, c)
  OBVIOUS
<1>5. PICK y : y = [x EXCEPT !.nodes[c].ifType = "IF_ELSE"]
  OBVIOUS
<1>6. \/ Refuse
      \/ c # 0 /\ Opens(CreateScope(y), c, scopes, {}, FALSE)
  BY <1>1, <1>3, <1>4, <1>5 DEF ActOnElseStatement
<1>7. CASE Refuse
  BY <1>2, <1>7, RefuseReports
<1>8. CASE c # 0 /\ Opens(CreateScope(y), c, scopes, {}, FALSE)
  <2>1. Sound(tree) /\ Linked(tree) /\ Newest(tree) \in Nat
    BY CurrentIs DEF Inv, Building, Sound
  <2>2. /\ c \in 1 .. Newest(tree) /\ tree.nodes[c].ifType = "IF"
        /\ tree.nodes[c].kind = "IF_STATEMENT" /\ tree.nodes[c].elseBlock = 0
    <3>1. ScopesIn(scopes, Newest(tree)) /\ scopes # <<>>
      <4>1. ScopesIn(scopes, Newest(tree)) /\ Len(scopes) = Len(frames) + 1 /\ Framed(frames)
        BY <1>2 DEF Inv, Building, Values, Running
      <4>2. Len(frames) \in Nat
        BY <4>1, SeqIs DEF Framed
      <4>3. Len(scopes) # 0
        BY <4>1, <4>2
      <4>4. QED
        BY <4>1, <4>3, SeqIs DEF ScopesIn
    <3>2. QED
      BY <1>3, <1>8, <2>1, <3>1, ContinuedIs
  <2>3. Sound(x) /\ Newest(x) = Newest(tree) /\ x.nodes = tree.nodes /\ x.cursor = Append(tree.cursor, c)
    BY <1>4, <2>1, <2>2, WentDown
  <2>4. PICK m : m = [x.nodes[c] EXCEPT !.ifType = "IF_ELSE"]
    OBVIOUS
  <2>5. Linked(x) /\ Links(x, c, x.nodes[c]) /\ IsNode(x.nodes[c]) /\ c \in 1 .. Newest(x)
    BY <2>2, <2>3, Younger DEF Sound, Links
  <2>6. /\ m.ifType = "IF_ELSE" /\ m.elseBlock = 0 /\ m.block = tree.nodes[c].block
        /\ m.kids = x.nodes[c].kids /\ Same(x.nodes[c], m) /\ IsNode(m)
    BY <2>2, <2>3, <2>4, <2>5 DEF IsNode, NodeFields, Same
  <2>7. Links(x, c, m)
    BY <2>2, <2>3, <2>5, <2>6 DEF Links, Same
  <2>8. /\ Sound(y) /\ Extends(x, y) /\ Newest(y) = Newest(x) /\ y.cursor = x.cursor /\ y.nodes[c] = m
        /\ \A j \in 1 .. Newest(x) : j # c => y.nodes[j] = x.nodes[j]
    <3>1. PICK z : z = [x EXCEPT !.nodes[c] = m]
      OBVIOUS
    <3>2. /\ Sound(z) /\ Extends(x, z) /\ Newest(z) = Newest(x) /\ z.cursor = x.cursor /\ z.nodes[c] = m
          /\ \A j \in 1 .. Newest(x) : j # c => z.nodes[j] = x.nodes[j]
      <4>1. Sound(x) /\ c \in 1 .. Newest(x) /\ Links(x, c, m) /\ Same(x.nodes[c], m)
        BY <2>3, <2>5, <2>6, <2>7
      <4>2. LET u == [x EXCEPT !.nodes[c] = m]
            IN /\ Sound(u) /\ Extends(x, u) /\ Newest(u) = Newest(x)
               /\ u.cursor = x.cursor /\ u.nodes[c] = m
               /\ \A j \in 1 .. Newest(x) : j # c => u.nodes[j] = x.nodes[j]
        BY ONLY <4>1, NodeChanged
      <4>3. QED
        BY ONLY <3>1, <4>2
    <3>3. y = z
      BY <1>5, <2>4, <3>1
    <3>4. QED
      BY <3>2, <3>3
  <2>9. Linked(y) /\ Builds(tree, y, {c})
    <3>1. Extends(tree, x)
      BY <2>1, <2>3, ExtendsSelf DEF Extends
    <3>2. Extends(tree, y) /\ Linked(y)
      BY <2>1, <2>5, <2>8, <3>1, ExtendsOn DEF Sound
    <3>3. QED
      BY <2>1, <2>2, <2>3, <2>6, <2>8, <3>2 DEF Builds
  <2>10. PICK at, u : at = Here /\ u = AddOperationNode(y, at)
    OBVIOUS
  <2>11. ASSUME u # Panicked
         PROVE  OpensWell(u, c, scopes, FALSE) /\ OpenedFor(u, c, FALSE)
    <3>1. PICK b : b = tree.cursor /\ IsSeq(b) /\ b # <<>> /\ y.cursor = Append(b, c)
      BY <2>1, <2>3, <2>8 DEF Sound, Pointed
    <3>2. /\ OperationAdded(y, u, at) /\ CurrentId(y) = c /\ Sound(u) /\ Extends(y, u)
          /\ Builds(y, u, {c}) /\ CurrentId(u) = Newest(u) /\ Newest(u) = Newest(y) + 1
          /\ u.nodes[Newest(u)].kind = "SCOPE_OPERATION" /\ u.nodes[Newest(u)].at = at
          /\ u.cursor = Append(Append(b, c), Newest(u))
      <4>1. BelowNode(y, b, c, at, u)
        BY <2>8, <2>10, <2>11, <3>1 DEF BelowNode
      <4>2. AddedBelow(y, b, c, at, u)
        BY ONLY <4>1, ScopeStep
      <4>3. QED
        BY ONLY <4>2 DEF AddedBelow
    <3>3. Linked(u) /\ Extends(tree, u) /\ Builds(tree, u, {c})
      <4>1. Linked(u)
        BY <3>2 DEF Sound
      <4>2. PICK C : C = {c}
        OBVIOUS
      <4>3. Builds(tree, u, C)
        BY <2>1, <2>9, <3>2, <4>1, <4>2, BuildsAgain
      <4>4. QED
        BY <4>1, <4>2, <4>3 DEF Builds
    <3>4. y.nodes[c].ifType = "IF_ELSE" /\ y.nodes[c].elseBlock = 0 /\ y.nodes[c].block = tree.nodes[c].block
      BY <2>6, <2>8
    <3>5. ASSUME CompleteBut(tree, {})
          PROVE  CompleteBut(u, {}) /\ tree.nodes[c].block # 0
      <4>1. tree.nodes[c].block # 0
        BY <2>2, <3>5 DEF CompleteBut
      <4>2. CompleteBut(y, {c})
        BY <2>3, <2>8, <3>5 DEF CompleteBut
      <4>3. y.nodes[CurrentId(y)].ifType = "IF_ELSE" => y.nodes[CurrentId(y)].block # 0
        BY <3>2, <3>4, <4>1
      <4>4. CompleteBut(u, {})
        BY <2>8, <3>2, <4>2, <4>3, CompleteOperation
      <4>5. QED
        BY <4>1, <4>4
    <3>6. ~reported => CompleteBut(tree, {})
      BY DEF Inv, Building
    <3>7. SameScopes(scopes, scopes)
      BY ScopesSame DEF Inv, Building
    <3>8. c \in 1 .. Newest(u) /\ CurrentId(u) \in 1 .. Newest(u) /\ CurrentId(u) > Newest(tree)
      BY <2>1, <2>2, <2>3, <2>8, <3>2
    <3>9. OpensWell(u, c, scopes, FALSE)
      BY <1>1, <3>1, <3>2, <3>3, <3>5, <3>6, <3>7, <3>8 DEF OpensWell
    <3>10. u.nodes[c].ifType = "IF_ELSE" /\ u.nodes[c].block \in {y.nodes[c].block, Newest(u)}
      <4>1. IsNode(y.nodes[c])
        BY <2>6, <2>8
      <4>2. \/ u.nodes[c] = [y.nodes[c] EXCEPT !.block = Newest(y) + 1]
            \/ u.nodes[c] = [y.nodes[c] EXCEPT !.elseBlock = Newest(y) + 1]
        BY <3>2 DEF OperationAdded
      <4>3. QED
        BY <3>2, <3>4, <4>1, <4>2 DEF IsNode, NodeFields
    <3>11. ASSUME ~reported
           PROVE  u.nodes[c].elseBlock = CurrentId(u) /\ u.nodes[c].block = tree.nodes[c].block
      <4>1. y.nodes[c].block # 0 /\ IsNode(y.nodes[c])
        BY <2>6, <2>8, <3>4, <3>5, <3>6, <3>11
      <4>2. NodeNeedsOperation(y.nodes[c]) # "block"
        BY <3>4, <4>1 DEF NodeNeedsOperation
      <4>3. u.nodes[c] = [y.nodes[c] EXCEPT !.elseBlock = Newest(y) + 1]
        BY <3>2, <4>2 DEF OperationAdded
      <4>4. QED
        BY <3>2, <3>4, <4>1, <4>3 DEF IsNode, NodeFields
    <3>12. OpenedElse(u, c, FALSE)
      BY <1>3, <1>8, <3>3, <3>10, <3>11 DEF OpenedElse
    <3>13. QED
      BY <2>10, <3>2, <3>8, <3>9, <3>12 DEF OpenedFor
  <2>12. u = CreateScope(y)
    BY <2>10 DEF CreateScope
  <2>13. OpensBlock
    BY <1>8, <2>11, <2>12 DEF OpensBlock
  <2>14. QED
    BY <2>13 DEF Ends
<1>9. QED
  BY <1>6, <1>7, <1>8

-----------------------------------------------------------------------------
(* Functions.                                                              *)

\* The function and its operation are in the tree; z adds nothing that matters.
LEMMA FunctionOpened ==
  ASSUME Inv, NEW n, Fresh(n), n.kind = "DECL_FUNC", n.at = Here, n.to = 0,
         NEW f, KidAdded(tree, f, n), NEW id, id = CurrentId(f),
         NEW o, o = CreateScope(f), NEW z, Sound(z), Builds(o, z, {}), z.cursor = o.cursor,
         NEW ss, SameScopes(scopes, ss), NEW error \in BOOLEAN
  PROVE  OpensWell(z, id, ss, error) /\ OpenedFor(z, id, error)
<1>1. Sound(tree) /\ Linked(tree) /\ Newest(tree) \in Nat /\ Sound(f) /\ Linked(f) /\ Linked(z)
  BY CurrentIs DEF Inv, Building, KidAdded, Sound
<1>2. PICK c, at : c = tree.cursor /\ at = Here
  OBVIOUS
<1>3. /\ id = Newest(tree) + 1 /\ Newest(f) = id /\ f.nodes[id] = n /\ id \in 1 .. Newest(f)
      /\ IsSeq(c) /\ c # <<>> /\ f.cursor = Append(c, id)
  <2>1. IsSeq(c) /\ c # <<>> /\ f.cursor = Append(c, Newest(tree) + 1)
    BY <1>1, <1>2 DEF Sound, Pointed, KidAdded
  <2>2. id = Newest(tree) + 1
    BY <1>1, <2>1, DownAt
  <2>3. QED
    BY <1>1, <2>1, <2>2 DEF KidAdded
<1>4. OperationAdded(f, o, at)
  <2>1. Current(f) = n
    BY <1>1, <1>3, CurrentIs
  <2>2. NodeNeedsOperation(n) # "no"
    BY DEF NodeNeedsOperation, Fresh
  <2>3. QED
    BY <1>1, <1>2, <2>1, <2>2, OperationFits DEF CreateScope
<1>5. /\ Sound(o) /\ Linked(o) /\ Newest(o) = Newest(f) + 1 /\ Builds(f, o, {})
      /\ o.nodes[Newest(o)].kind = "SCOPE_OPERATION" /\ o.nodes[Newest(o)].at = at
      /\ o.cursor = Append(f.cursor, Newest(o))
  <2>1. f.nodes[CurrentId(f)].kind # "IF_STATEMENT"
    BY <1>3
  <2>2. Builds(f, o, {}) /\ Newest(o) = Newest(f) + 1 /\ o.nodes[Newest(o)].kind = "SCOPE_OPERATION"
        /\ o.nodes[Newest(o)].at = at
    BY <1>1, <1>4, <2>1, OperationBuilds, ZenonT(40)
  <2>3. QED
    BY <1>4, <2>2 DEF OperationAdded, Sound
<1>6. PICK E : E = {}
  OBVIOUS
<1>7. Builds(f, z, E)
  BY <1>1, <1>5, <1>6, BuildsAgain
<1>8. Grew(tree, z, n, {id}) /\ Extends(tree, z)
  <2>1. Builds(f, z, {id})
    BY <1>6, <1>7, BuildsMore
  <2>2. Grew(tree, z, n, {id})
    BY <2>1 DEF Grew
  <2>3. QED
    BY <1>1, <2>2, GrewExtends
<1>9. /\ CurrentId(z) = Newest(o) /\ Newest(o) \in 1 .. Newest(z) /\ id \in 1 .. Newest(z)
      /\ Newest(o) > Newest(tree) /\ z.cursor = Append(Append(c, id), CurrentId(z))
  <2>1. IsSeq(f.cursor) /\ f.cursor # <<>>
    BY <1>1 DEF Sound, Pointed
  <2>2. z.cursor = Append(f.cursor, Newest(o))
    BY <1>5
  <2>3. CurrentId(z) = Newest(o)
    BY <2>1, <2>2, DownAt
  <2>4. Newest(o) <= Newest(z) /\ Newest(z) \in Nat
    BY CurrentIs DEF Builds, Extends
  <2>5. Newest(o) = id + 1 /\ Newest(tree) + 1 = id
    BY <1>3, <1>5
  <2>6. QED
    BY <1>1, <1>3, <2>2, <2>3, <2>4, <2>5
<1>10. z.nodes[CurrentId(z)].kind = "SCOPE_OPERATION" /\ z.nodes[CurrentId(z)].at = at
  <2>1. Newest(o) \in 1 .. Newest(o)
    BY <1>1, <1>3, <1>5
  <2>2. Same(o.nodes[Newest(o)], z.nodes[Newest(o)])
    BY <2>1 DEF Builds, Extends
  <2>3. QED
    BY <1>5, <1>9, <2>2 DEF Same
<1>11. z.nodes[id].kind = "DECL_FUNC" /\ z.nodes[id].ifType = "NONE"
  <2>1. Same(f.nodes[id], z.nodes[id])
    BY <1>3, <1>7 DEF Builds, Extends
  <2>2. z.nodes[id].kind = "DECL_FUNC"
    BY <1>3, <2>1 DEF Same
  <2>3. Links(z, id, z.nodes[id])
    BY <1>1, <1>9, Younger
  <2>4. QED
    BY <2>2, <2>3 DEF Links
<1>12. CompleteBut(tree, {}) => CompleteBut(z, {})
  <2>1. SUFFICES ASSUME CompleteBut(tree, {}) PROVE CompleteBut(z, {})
    OBVIOUS
  <2>2. CompleteBut(f, E)
    BY <1>1, <1>6, <2>1, CompleteKid
  <2>3. CompleteBut(z, E)
    BY <1>1, <1>7, <2>2, CompleteOn
  <2>4. QED
    BY <1>6, <2>3
<1>13. ~reported => CompleteBut(tree, {})
  BY DEF Inv, Building
<1>14. OpensWell(z, id, ss, error)
  BY <1>2, <1>8, <1>9, <1>11, <1>12, <1>13 DEF OpensWell
<1>15. OpenedNew(z, id)
  BY <1>3, <1>8, <1>11 DEF OpenedNew
<1>16. QED
  BY <1>2, <1>9, <1>10, <1>14, <1>15 DEF OpenedFor

\* A handle is added for the parameters.
LEMMA HandleBuilds ==
  ASSUME NEW o, Sound(o)
  PROVE  LET h == AddNodeHandleNode(o)
         IN Sound(h) /\ Builds(o, h, {}) /\ h.cursor = Append(o.cursor, CurrentId(h))
<1>1. PICK h : h = AddNodeHandleNode(o)
  OBVIOUS
<1>2. /\ Sound(h) /\ Extends(o, h) /\ Newest(h) = Newest(o) + 1
      /\ h.cursor = Append(o.cursor, Newest(h))
      /\ h.nodes[Newest(h)] = [Node EXCEPT !.kind = "NODE_HANDLE"]
      /\ \A i \in 1 .. Newest(o) : h.nodes[i] = o.nodes[i]
  BY <1>1, HandleAdded
<1>3. Newest(o) \in Nat /\ IsSeq(o.cursor) /\ o.cursor # <<>>
  BY CurrentIs DEF Sound, Pointed
<1>4. h.nodes[Newest(h)].kind = "NODE_HANDLE" /\ h.nodes[Newest(h)].to = 0
  BY <1>2 DEF Node
<1>5. Newest(o) + 1 .. Newest(h) = {Newest(h)}
  BY <1>2, <1>3
<1>6. Builds(o, h, {})
  BY <1>2, <1>4, <1>5 DEF Builds
<1>7. CurrentId(h) = Newest(h)
  <2>1. PICK c, k : /\ c = o.cursor /\ k = Newest(h)
                    /\ Sound(h) /\ IsSeq(c) /\ c # <<>> /\ h.cursor = Append(c, k)
    BY <1>2, <1>3
  <2>2. CurrentId(h) = k
    BY ONLY <2>1, DownAt
  <2>3. QED
    BY <2>1, <2>2
<1>8. QED
  BY <1>1, <1>2, <1>6, <1>7

\* The parameters of a function are put into it.
LEMMA ParametersPut ==
  ASSUME NEW q, Sound(q), NEW id \in 1 .. Newest(q), NEW params
  PROVE  LET z == [q EXCEPT !.nodes[id].params = params]
         IN Sound(z) /\ Builds(q, z, {}) /\ z.cursor = q.cursor
<1>1. PICK m : m = [q.nodes[id] EXCEPT !.params = params]
  OBVIOUS
<1>2. PICK z : z = [q EXCEPT !.nodes[id] = m]
  OBVIOUS
<1>3. Linked(q) /\ IsNode(q.nodes[id]) /\ Links(q, id, q.nodes[id])
  BY Younger DEF Sound, Links
<1>4. IsNode(m) /\ AlikeNodes(q.nodes[id], m)
  BY <1>1, <1>3 DEF IsNode, NodeFields, Same, AlikeNodes
<1>5. Links(q, id, m) /\ Same(q.nodes[id], m)
  BY <1>3, <1>4, AlikeLinks DEF AlikeNodes
<1>6. /\ Sound(z) /\ Extends(q, z) /\ Newest(z) = Newest(q) /\ z.cursor = q.cursor /\ z.nodes[id] = m
      /\ \A j \in 1 .. Newest(q) : j # id => z.nodes[j] = q.nodes[j]
  BY <1>2, <1>5, NodeChanged
<1>7. Alike(q, z)
  BY <1>4, <1>6 DEF Alike, AlikeNodes, Same
<1>8. Builds(q, z, {})
  BY <1>3, <1>7, AlikeBuilds
<1>9. [q EXCEPT !.nodes[id].params = params] = z
  BY <1>1, <1>2
<1>10. QED
  BY <1>6, <1>8, <1>9

\* The tree with the function and its parameters.
LEMMA ParametersOpened ==
  ASSUME NEW o, Sound(o), NEW id \in 1 .. Newest(o), Len(Body_.params) \in Nat,
         NEW h, h = AddNodeHandleNode(o), NEW p, p = ActOnParameters(h)
  PROVE  /\ p.error \in BOOLEAN
         /\ p.tree # Panicked =>
              LET z == [TraverseUp(p.tree) EXCEPT !.nodes[id].params = CurrentId(h)]
              IN Sound(z) /\ Builds(o, z, {}) /\ z.cursor = o.cursor
<1>1. Sound(h) /\ Builds(o, h, {}) /\ h.cursor = Append(o.cursor, CurrentId(h))
  BY HandleBuilds
<1>2. Declared(h, p)
  BY <1>1, ParametersDeclared
<1>3. p.error \in BOOLEAN
  BY <1>2 DEF Declared
<1>4. ASSUME p.tree # Panicked
      PROVE  LET z == [TraverseUp(p.tree) EXCEPT !.nodes[id].params = CurrentId(h)]
             IN Sound(z) /\ Builds(o, z, {}) /\ z.cursor = o.cursor
  <2>1. PICK x : x = p.tree
    OBVIOUS
  <2>2. Sound(x) /\ x.cursor = h.cursor /\ Builds(h, x, {})
    BY <1>2, <1>4, <2>1 DEF Declared
  <2>3. PICK q : q = TraverseUp(x)
    OBVIOUS
  <2>4. Sound(q) /\ q.nodes = x.nodes /\ q.cursor = o.cursor
    <3>1. PICK c, k : c = o.cursor /\ k = CurrentId(h)
      OBVIOUS
    <3>2. IsSeq(c) /\ c # <<>> /\ x.cursor = Append(c, k)
      BY <1>1, <2>2, <3>1 DEF Sound, Pointed
    <3>3. LET u == TraverseUp(x) IN Sound(u) /\ u.nodes = x.nodes /\ u.cursor = c
      <4>1. Sound(x) /\ IsSeq(c) /\ c # <<>> /\ x.cursor = Append(c, k)
        BY <2>2, <3>2
      <4>2. QED
        BY ONLY <4>1, DownUp
    <3>4. QED
      BY <2>3, <3>1, <3>3
  <2>5. Linked(o) /\ Linked(h) /\ Linked(x) /\ Linked(q)
    BY <1>1, <2>2, <2>4 DEF Sound
  <2>6. PICK E : E = {}
    OBVIOUS
  <2>7. Builds(o, q, E)
    <3>1. Builds(x, q, E)
      BY <2>4, <2>5, <2>6, CursorBuilds
    <3>2. Builds(o, x, E)
      BY <1>1, <2>2, <2>5, <2>6, BuildsAgain
    <3>3. QED
      BY <2>5, <3>1, <3>2, BuildsAgain
  <2>8. id \in 1 .. Newest(q)
    <3>1. Newest(o) <= Newest(q) /\ Newest(o) \in Nat /\ Newest(q) \in Nat
      BY <2>4, <2>7, CurrentIs DEF Builds, Extends
    <3>2. QED
      BY <3>1
  <2>9. PICK z, params : params = CurrentId(h) /\ z = [q EXCEPT !.nodes[id].params = params]
    OBVIOUS
  <2>10. Sound(z) /\ Builds(q, z, {}) /\ z.cursor = q.cursor
    BY <2>4, <2>8, <2>9, ParametersPut
  <2>11. Builds(o, z, E)
    <3>1. Linked(z) /\ Builds(q, z, E)
      BY <2>6, <2>10 DEF Sound
    <3>2. QED
      BY <2>5, <2>7, <3>1, BuildsAgain
  <2>12. QED
    BY <2>1, <2>3, <2>4, <2>6, <2>9, <2>10, <2>11
<1>5. QED
  BY <1>3, <1>4

LEMMA FuncDeclEnds ==
  ASSUME Inv, FuncDecl
  PROVE  Ends
<1>1. Sees("STATEMENT") /\ frames = <<>> /\ ActOnFuncDecl
  BY DEF FuncDecl, InModule
<1>2. lex.toks # <<>> /\ Running /\ Len(Body_.params) \in Nat
  BY <1>1, TokensTaken, StatementSeen
<1>3. PICK f : f = AddFuncDecl(tree, Body_.type, Here)
  OBVIOUS
<1>4. PICK o, id : o = CreateScope(f) /\ id = CurrentId(f)
  OBVIOUS
<1>5. PICK h : h = AddNodeHandleNode(o)
  OBVIOUS
<1>6. PICK p : p = ActOnParameters(h)
  OBVIOUS
<1>7. PICK D : D = scopes[1].decls \cup {[name |-> Body_.name, type |-> Body_.type]}
  OBVIOUS
<1>8. PICK ss : ss = [scopes EXCEPT ![1].decls = D]
  OBVIOUS
<1>9. PICK z : z = [TraverseUp(p.tree) EXCEPT !.nodes[id].params = CurrentId(h)]
  OBVIOUS
<1>10. \/ Refuse
       \/ Stop("panic")
       \/ f # Panicked /\ Opens(o, id, ss, {}, FALSE)
       \/ p.tree = Panicked /\ f # Panicked /\ StopAfter(p.error, "panic")
       \/ p.tree # Panicked /\ f # Panicked /\ Opens(z, id, ss, p.decls, p.error)
  BY <1>1, <1>3, <1>4, <1>5, <1>6, <1>7, <1>8, <1>9 DEF ActOnFuncDecl
<1>11. SameScopes(scopes, ss)
  <2>1. ScopesIn(scopes, Newest(tree)) /\ 1 \in 1 .. Len(scopes)
    <3>1. ScopesIn(scopes, Newest(tree)) /\ Len(scopes) = Len(frames) + 1 /\ Framed(frames)
      BY <1>2 DEF Inv, Building, Values, Running
    <3>2. Len(scopes) \in Nat /\ Len(frames) \in Nat
      BY <3>1, SeqIs DEF ScopesIn, Framed
    <3>3. QED
      BY <3>1, <3>2
  <2>2. SameScopes(scopes, [scopes EXCEPT ![1].decls = D])
    BY ONLY <2>1, DeclaredIn
  <2>3. QED
    BY <1>8, <2>2
<1>12. PICK n : n = [Node EXCEPT !.kind = "DECL_FUNC", !.type = Body_.type, !.at = Here]
  OBVIOUS
<1>13. f # Panicked => /\ KidAdded(tree, f, n) /\ Fresh(n) /\ n.kind = "DECL_FUNC"
                       /\ n.at = Here /\ n.to = 0
  <2>1. Sound(tree)
    BY DEF Inv, Building
  <2>2. n.at = Here /\ n.to = 0
    BY <1>12 DEF Node
  <2>3. PICK type, at : type = Body_.type /\ at = Here
    OBVIOUS
  <2>4. AddFuncDecl(tree, type, at) # Panicked =>
          LET m == [Node EXCEPT !.kind = "DECL_FUNC", !.type = type, !.at = at]
          IN Fresh(m) /\ m.kind = "DECL_FUNC" /\ KidAdded(tree, AddFuncDecl(tree, type, at), m)
    BY ONLY <2>1, FuncAdded
  <2>5. QED
    BY ONLY <1>3, <1>12, <2>2, <2>3, <2>4
<1>14. ASSUME f # Panicked
       PROVE  Sound(o) /\ id \in 1 .. Newest(o) /\ Linked(o)
  <2>1. Sound(f) /\ Sound(tree) /\ f.nodes[Newest(tree) + 1] = n /\ Newest(f) = Newest(tree) + 1
        /\ f.cursor = Append(tree.cursor, Newest(tree) + 1)
    BY <1>13, <1>14 DEF KidAdded, Inv, Building
  <2>2. CurrentId(f) = Newest(tree) + 1
    <3>1. IsSeq(tree.cursor) /\ tree.cursor # <<>>
      BY <2>1 DEF Sound, Pointed
    <3>2. QED
      BY <2>1, <3>1, DownAt
  <2>3. Current(f) = n
    BY <2>1, <2>2, CurrentIs
  <2>4. NodeNeedsOperation(n) # "no"
    BY <1>13, <1>14 DEF NodeNeedsOperation, Fresh
  <2>5. PICK at : at = Here
    OBVIOUS
  <2>6. OperationAdded(f, o, at)
    BY <1>4, <2>1, <2>3, <2>4, <2>5, OperationFits DEF CreateScope
  <2>7. Sound(o) /\ Newest(o) = Newest(f) + 1 /\ id \in 1 .. Newest(f) /\ Newest(f) \in Nat
    BY <1>4, <2>1, <2>6, CurrentIs DEF OperationAdded
  <2>8. QED
    BY <2>7 DEF Sound
<1>15. CASE Refuse
  BY <1>2, <1>15, RefuseReports
<1>16. CASE Stop("panic")
  BY <1>16 DEF Stop, Panics, Ends
<1>17. CASE f # Panicked /\ Opens(o, id, ss, {}, FALSE)
  <2>1. o.nodes = o.nodes /\ Sound(o) /\ Linked(o)
    BY <1>14, <1>17
  <2>2. Builds(o, o, {})
    BY <2>1, CursorBuilds
  <2>3. OpensWell(o, id, ss, FALSE) /\ OpenedFor(o, id, FALSE)
    BY <1>4, <1>11, <1>13, <1>17, <2>1, <2>2, FunctionOpened
  <2>4. OpensBlock
    BY <1>17, <2>3 DEF OpensBlock
  <2>5. QED
    BY <2>4 DEF Ends
<1>18. f # Panicked => /\ p.error \in BOOLEAN
                       /\ p.tree # Panicked => Sound(z) /\ Builds(o, z, {}) /\ z.cursor = o.cursor
  BY <1>2, <1>5, <1>6, <1>9, <1>14, ParametersOpened
<1>19. CASE f # Panicked /\ StopAfter(p.error, "panic")
  BY <1>18, <1>19 DEF Panics, Ends
<1>20. CASE p.tree # Panicked /\ f # Panicked /\ Opens(z, id, ss, p.decls, p.error)
  <2>1. PICK error : error = p.error
    OBVIOUS
  <2>2. error \in BOOLEAN /\ Sound(z) /\ Builds(o, z, {}) /\ z.cursor = o.cursor
    BY <1>18, <1>20, <2>1
  <2>3. OpensWell(z, id, ss, error) /\ OpenedFor(z, id, error)
    BY <1>4, <1>11, <1>13, <1>20, <2>2, FunctionOpened
  <2>4. OpensBlock
    BY <1>20, <2>1, <2>2, <2>3 DEF OpensBlock
  <2>5. QED
    BY <2>4 DEF Ends
<1>21. QED
  BY <1>10, <1>15, <1>16, <1>17, <1>19, <1>20

\* Every statement ends in one of the four ways.
LEMMA ParseEnds ==
  ASSUME Inv, Parse
  PROVE  Ends /\ Sees("STATEMENT")
<1>1. Ends
  BY FuncDeclEnds, ObjectDeclEnds, ExpressionStatementEnds, ReturnStatementEnds, ConditionsEnd,
     OrEnds, ElseEnds, LoopEnds, LeavesEnd DEF Parse
<1>2. Sees("STATEMENT")
  BY DEF Parse, FuncDecl, ObjectDecl, ExpressionStatement, ReturnStatement, IfStatement, OrStatement,
         ElseStatement, WhileStatement, LoopStatement, BreakStatement, ContinueStatement, Statement
<1>3. QED
  BY <1>1, <1>2

LEMMA ParseKeeps ==
  ASSUME Inv, Parse
  PROVE  Inv'
<1>1. Ends /\ Sees("STATEMENT") /\ Running /\ lex.toks # <<>>
  BY ParseEnds, StatementSeen
<1>2. CASE Reports
  <2>1. SameScopes(scopes, scopes') /\ reported' = TRUE
    BY <1>2, ScopesSame DEF Reports, Inv, Building
  <2>2. PICK n \in 1 .. Len(lex.toks) : Take(n)
    BY <1>2 DEF Reports
  <2>3. QED
    BY <1>1, <1>2, <2>1, <2>2, StatementKeeps DEF Reports
<1>3. CASE Adds
  <2>1. PICK n \in 1 .. Len(lex.toks) : Take(n)
    BY <1>3 DEF Adds
  <2>2. PICK u : u = tree'
    OBVIOUS
  <2>3. Added(u)
    BY <1>3, <2>2 DEF Adds
  <2>4. Sound(tree) /\ Sound(u) /\ Extends(tree, u)
    BY <2>3, GrewExtends DEF Added, Inv, Building, Grew
  <2>5. Len(tree.cursor) \in Nat
    BY <2>4, SeqIs DEF Sound, Pointed
  <2>6. ~reported => CompleteBut(tree, {})
    BY DEF Inv, Building
  <2>7. reported' = reported /\ reported \in BOOLEAN /\ UNCHANGED <<menu, text, pc, status>> /\ frames' = Seen
        /\ SameScopes(scopes, scopes')
    BY <1>3 DEF Adds, Inv, Values
  <2>8. /\ Sound(tree') /\ Extends(tree, tree') /\ Len(tree'.cursor) >= Len(tree.cursor)
        /\ ~reported' => tree'.cursor = tree.cursor /\ CompleteBut(tree', {})
    BY <2>2, <2>3, <2>4, <2>5, <2>6, <2>7 DEF Added
  <2>9. QED
    BY <1>1, <2>1, <2>7, <2>8, StatementKeeps
<1>4. CASE OpensBlock
  <2>1. PICK t, owner, ss, decls, error : /\ error \in BOOLEAN /\ Opens(t, owner, ss, decls, error)
                                          /\ t = Panicked \/ OpensWell(t, owner, ss, error)
    BY <1>4 DEF OpensBlock
  <2>2. QED
    BY <1>1, <2>1, OpensKeeps
<1>5. CASE Panics
  <2>1. PICK error \in BOOLEAN : StopAfter(error, "panic")
    BY <1>5 DEF Panics
  <2>2. QED
    BY <1>1, <2>1, StopKeeps
<1>6. QED
  BY <1>1, <1>2, <1>3, <1>4, <1>5 DEF Ends

-----------------------------------------------------------------------------
(* The invariant holds.                                                    *)

LEMMA InvBegins == Init => Inv
<1>1. SUFFICES ASSUME Init PROVE Inv
  OBVIOUS
<1>2. PICK t : t = AddModuleNode(EmptyTree) /\ tree = t
  BY <1>1 DEF Init
<1>3. /\ Sound(t) /\ Newest(t) = 1 /\ t.cursor = <<1>>
      /\ t.nodes[1] = [Node EXCEPT !.kind = "SCOPE_MODULE"]
  BY <1>2, ModuleAdded
<1>4. t.nodes[1].kind = "SCOPE_MODULE"
  BY <1>3 DEF Node
<1>5. Values
  BY <1>1, NoneSeq DEF Init, Values, Framed
<1>6. Reading
  <2>1. PICK x : x = NewLexer
    OBVIOUS
  <2>2. x = [k \in LexFields |-> x[k]] /\ x.at = "fresh" /\ x.indented = FALSE /\ x.stack = <<>>
        /\ x.toks = <<>> /\ x.reading = FALSE
    BY <2>1 DEF NewLexer, LexFields
  <2>3. LexOK(x)
    BY <2>2, NoneSeq DEF LexOK, Tokens, Levels, Rising
  <2>4. PICK y : y = Call(x)
    OBVIOUS
  <2>5. LexOK(y) /\ y.at = "fresh" /\ y.toks = <<>>
    BY <2>2, <2>3, <2>4, CallOK
  <2>6. lex = y /\ text = <<>>
    BY <1>1, <2>1, <2>4 DEF Init
  <2>7. Written(<<>>) /\ Ended(<<>>) /\ Wordless(<<>>)
    BY NoneSeq DEF Written, Ended, Wordless
  <2>8. QED
    BY <2>5, <2>6, <2>7 DEF Reading
<1>7. Building
  <2>1. PICK s : s = Scope(0, 1, {})
    OBVIOUS
  <2>2. IsScope(s) /\ s.owner = 0 /\ s.node = 1
    BY <2>1 DEF Scope, IsScope, ScopeFields
  <2>3. PICK ss : ss = <<s>>
    OBVIOUS
  <2>4. IsSeq(ss) /\ DOMAIN ss = {1} /\ Len(ss) = 1 /\ ss[1] = s
    BY <2>3, OneSeq
  <2>5. ScopesIn(ss, 1)
    BY <2>2, <2>4 DEF ScopesIn
  <2>6. PICK c : c = <<1>> /\ Len(c) = 1 /\ c[1] = 1
    BY OneSeq
  <2>7. AtScopes(c, ss)
    BY <2>2, <2>4, <2>6 DEF AtScopes
  <2>8. CompleteBut(t, {})
    <3>1. 1 .. Newest(t) = {1} /\ t.nodes[1].kind # "IF_STATEMENT"
      BY <1>3, <1>4
    <3>2. QED
      BY ONLY <3>1 DEF CompleteBut
  <2>9. scopes = ss /\ frames = <<>> /\ pc = "statement" /\ Len(frames) = 0
    BY <1>1, <2>1, <2>3, NoneSeq DEF Init
  <2>10. QED
    BY <1>2, <1>3, <2>4, <2>5, <2>6, <2>7, <2>8, <2>9 DEF Building
<1>8. QED
  BY <1>5, <1>6, <1>7 DEF Inv

LEMMA InvStays == Inv /\ [Next]_vars => Inv'
<1>1. SUFFICES ASSUME Inv, [Next]_vars PROVE Inv'
  OBVIOUS
<1>2. CASE Lex
  BY <1>1, <1>2, LexKeeps
<1>3. CASE Block
  BY <1>1, <1>3, BlockKeeps
<1>4. CASE Line
  BY <1>1, <1>4, LineKeeps
<1>5. CASE Parse
  BY <1>1, <1>5, ParseKeeps
<1>6. CASE UNCHANGED vars
  BY <1>1, <1>6 DEF vars, Inv, Values, Reading, Building, Running
<1>7. QED
  BY <1>1, <1>2, <1>3, <1>4, <1>5, <1>6 DEF Next

\* What the lexer, the parser and the analysis of statements keep on every text, with
\* any number of errors (ASTContext.c 54, Semantics.c 49, Lexer.c 385).
THEOREM Invariance == Spec => []Inv
<1>1. QED
  BY InvBegins, InvStays, PTL DEF Spec

-----------------------------------------------------------------------------
(* What follows.                                                           *)

LEMMA InvTypes == Inv => TypeOK
<1>1. SUFFICES ASSUME Inv PROVE TypeOK
  OBVIOUS
<1>2. Sound(tree) /\ ScopesIn(scopes, Newest(tree)) /\ LexOK(lex) /\ Framed(frames)
  BY <1>1 DEF Inv, Values, Reading, Building
<1>3. DOMAIN tree.nodes = 1 .. Newest(tree)
  BY <1>2, CurrentIs
<1>4. ToSet(tree.cursor) \subseteq 0 .. Newest(tree)
  BY <1>2 DEF Sound, Pointed, ToSet
<1>5. \A i \in DOMAIN scopes : scopes[i].owner \in 0 .. Newest(tree) /\ scopes[i].node \in Nodes
  BY <1>2, <1>3 DEF ScopesIn, Nodes
<1>6. lex.reading => lex.toks = <<>>
  BY <1>2 DEF LexOK
<1>7. QED
  BY <1>1, <1>2, <1>4, <1>5, <1>6 DEF TypeOK, Inv, Values, Building, Framed

\* Every variable keeps its type, there is an activation for every scope but that
\* of the module and no token is left while a line is read; for every text.
THEOREM TypesAreKept == Spec => []TypeOK
<1>1. QED
  BY Invariance, InvTypes, PTL

\* The way down through the scopes, as the property says it.
LEMMA AtScopesIs ==
  ASSUME NEW c, IsSeq(c), NEW ss, Len(ss) \in Nat, AtScopes(c, ss)
  PROVE  c = [k \in 1 .. 2 * Len(ss) - 1 |->
                IF k % 2 = 1 THEN ss[(k + 1) \div 2].node ELSE ss[k \div 2 + 1].owner]
<1>1. DOMAIN c = 1 .. 2 * Len(ss) - 1 /\ c = [k \in DOMAIN c |-> c[k]]
  <2>1. PICK S : c \in Seq(S)
    BY DEF IsSeq
  <2>2. QED
    BY <2>1 DEF AtScopes
<1>2. ASSUME NEW k \in 1 .. 2 * Len(ss) - 1
      PROVE  c[k] = IF k % 2 = 1 THEN ss[(k + 1) \div 2].node ELSE ss[k \div 2 + 1].owner
  <2>1. k % 2 \in {0, 1} /\ k = 2 * (k \div 2) + (k % 2) /\ k \div 2 \in Nat
    OBVIOUS
  <2>2. CASE k % 2 = 1
    <3>1. PICK i \in Nat : i = k \div 2 + 1
      BY <2>1
    <3>2. k = 2 * i - 1 /\ i \in 1 .. Len(ss)
      BY <1>2, <2>1, <2>2, <3>1
    <3>3. (k + 1) \div 2 = i
      BY <3>2
    <3>4. QED
      BY <2>2, <3>2, <3>3 DEF AtScopes
  <2>3. CASE k % 2 = 0
    <3>1. PICK i \in Nat : i = k \div 2 + 1
      BY <2>1
    <3>2. k = 2 * i - 2 /\ i \in 1 .. Len(ss) /\ i # 1
      BY <1>2, <2>1, <2>3, <3>1
    <3>3. QED
      BY <2>3, <3>1, <3>2 DEF AtScopes
  <2>4. QED
    BY <2>1, <2>2, <2>3
<1>3. QED
  BY <1>1, <1>2

LEMMA InvCursor == Inv => CursorFollowsScopes
<1>1. SUFFICES ASSUME Inv PROVE CursorFollowsScopes
  OBVIOUS
<1>2. IsSeq(tree.cursor) /\ Len(scopes) \in Nat
  BY <1>1, SeqIs DEF Inv, Building, Sound, Pointed, ScopesIn
<1>3. status # "done" => Len(tree.cursor) >= 2 * Len(scopes) - 1
  BY <1>1 DEF Inv, Building
<1>4. Running /\ ~reported => AtScopes(tree.cursor, scopes)
  BY <1>1 DEF Inv, Building
<1>5. QED
  BY <1>2, <1>3, <1>4, AtScopesIs DEF CursorFollowsScopes

\* However many errors are reported and wherever they leave the builder, the cursor
\* has a place for every open scope (ASTContext.c 54, Scope.c 82), and without an
\* error it is at the operation of the current one; for every text.
THEOREM CursorIsKept == Spec => []CursorFollowsScopes
<1>1. QED
  BY Invariance, InvCursor, PTL

LEMMA InvReturns == Inv => ReturnsFound
<1>1. SUFFICES ASSUME Inv, Running, ~reported, ~InModule,
                      AnalyzeFunc(tree, scopes[2].owner) \notin Stops
               PROVE  /\ AllPathsReturn(tree, scopes[2].owner) =>
                           AnalyzeFunc(tree, scopes[2].owner) = "returns"
                      /\ Continues(tree) = {} /\ AnalyzeFunc(tree, scopes[2].owner) = "returns" =>
                           AllPathsReturn(tree, scopes[2].owner)
  BY DEF ReturnsFound
<1>2. PICK f : f = scopes[2].owner
  OBVIOUS
<1>3. Linked(tree) /\ frames # <<>> /\ tree.nodes[f].kind = "DECL_FUNC" /\ CompleteBut(tree, {})
      /\ Newest(tree) \in Nat
  BY <1>1, <1>2, CurrentIs DEF Inv, Building, Sound, InModule
<1>4. f \in 1 .. Newest(tree)
  <2>1. ScopesIn(scopes, Newest(tree)) /\ Len(scopes) = Len(frames) + 1 /\ Framed(frames)
    BY <1>1 DEF Inv, Building, Values, Running
  <2>2. Len(frames) \in Nat /\ Len(frames) # 0 /\ DOMAIN scopes = 1 .. Len(scopes)
    BY <1>3, <2>1, SeqIs DEF ScopesIn, Framed
  <2>3. 2 \in DOMAIN scopes
    BY <2>1, <2>2
  <2>4. scopes[2].owner \in 0 .. Newest(tree) /\ scopes[2].owner # 0
    BY <2>1, <2>3 DEF ScopesIn
  <2>5. QED
    BY <1>2, <1>3, <2>4
<1>5. Complete(tree)
  BY <1>3 DEF Complete, CompleteBut
<1>6. QED
  BY <1>1, <1>2, <1>3, <1>4, <1>5, AnalysisAgrees

\* Whatever the parser and the analysis of statements build without an error, what
\* CFG.c 256 says of the function they are in is what the ways through it say: it
\* is never refused for a way that has no value when there is none, and, where no
\* if is continued with `or`, never accepted when there is one; for every text.
THEOREM ReturnsAreFound == Spec => []ReturnsFound
<1>1. QED
  BY Invariance, InvReturns, PTL

-----------------------------------------------------------------------------
(* What is behind NestsByIndentation and TreeIsChained.                    *)

StatementsIn(tx) == {i \in DOMAIN tx : IsStatement(tx[i])}

\* FuncsAtMargin and CommentsFit say this of the text.
Fits(tx) ==
  LET written == {i \in DOMAIN tx : tx[i].body.kind # "blank"}
  IN /\ \A i \in StatementsIn(tx) : tx[i].body.kind = "func" => tx[i].ind = 0
     /\ \A i, j \in written : i < j /\ (\A k \in written : k <= i \/ j <= k) =>
          /\ tx[i].body.kind = "comment" => tx[j].ind = tx[i].ind
          /\ tx[j].body.kind = "comment" /\ HasBlock(tx[i]) => tx[j].ind > tx[i].ind

HeaderIn(tx, i) ==
  LET above == {j \in StatementsIn(tx) : j < i /\ tx[j].ind < tx[i].ind}
  IN IF above = {} THEN 0 ELSE CHOOSE j \in above : \A k \in above : k <= j

\* Statements are in the block of their header.
NestedIn(t, tx) ==
  \A o \in 1 .. Newest(t) : t.nodes[o].kind = "SCOPE_OPERATION" =>
    \A k \in DOMAIN t.nodes[o].kids :
      LET at == t.nodes[t.nodes[o].kids[k]].at
      IN at \in 1 .. Len(tx) /\ HeaderIn(tx, at) = t.nodes[o].at

\* What leaves a loop is deeper than the loop, as are the statements between.
LoopsIn(t, tx) ==
  \A i \in 1 .. Newest(t) : t.nodes[i].to # 0 =>
    LET from == t.nodes[t.nodes[i].to].at
    IN /\ t.nodes[i].to \in 1 .. Newest(t) /\ t.nodes[i].at \in 1 .. Len(tx) /\ from \in 1 .. Len(tx)
       /\ \A k \in StatementsIn(tx) : from < k /\ k <= t.nodes[i].at => tx[k].ind > tx[from].ind

\* Tokens: m that close a block, a statement or none, the end of the line; or one
\* that opens a block before that.
HasStatement(s) == \E i \in DOMAIN s : s[i].tok = "STATEMENT"

EndOfLine(s, i) == \/ Len(s) = i /\ s[i].tok \in {"EOL", "EOF"}
                   \/ Len(s) = i + 1 /\ s[i].tok = "STATEMENT" /\ s[i + 1].tok \in {"EOL", "EOF"}

Closing(s, m) == (\A i \in 1 .. m : s[i].tok = "DEDENT") /\ EndOfLine(s, m + 1)
Opening(s)    == Len(s) > 1 /\ s[1].tok = "INDENT" /\ EndOfLine(s, 2)
Pending(s, m) == (s = <<>> /\ m = 0) \/ Closing(s, m)
Shaped(s)     == Opening(s) \/ \E m \in 0 .. Len(s) : Pending(s, m)

\* The lexer, when nothing was reported.
LexedIn(x, tx) ==
  /\ x.at \in {"fresh", "end"} /\ (x.reading <=> x.toks = <<>>)
  /\ ~x.indented => x.stack = <<>>
  /\ Shaped(x.toks)
  /\ \A i \in DOMAIN x.toks : x.toks[i].tok = "EOF" => x.at = "end"
  /\ HasStatement(x.toks) => /\ tx # <<>> /\ IsStatement(Last(tx))
                             /\ x.stack # <<>> => Last(tx).ind = Current_(x.stack)

\* The line of the statement a scope belongs to.
HeadAt(t, ss, i) == t.nodes[ss[i].node].at

\* Line h has a block of indentation ind; what is behind it is in the block.
Deeper(tx, done, h, ind) ==
  /\ h \in StatementsIn(tx) /\ tx[h].ind < ind
  /\ \A j \in StatementsIn(tx) : h < j /\ (j < Len(tx) \/ done) => tx[j].ind >= ind

\* The scopes from the second to the b-th one have begun.
Begun(x, tx, t, ss, b) ==
  \A i \in 2 .. b : Deeper(tx, ~HasStatement(x.toks), HeadAt(t, ss, i), ss[i].ind)

\* The levels of the lexer are those of the scopes up to the b-th one, of which m
\* are to be closed.
Match(x, ss, b, m) == /\ Len(x.stack) + m + 1 = b
                      /\ \A k \in 1 .. Len(x.stack) : x.stack[k] = ss[k + 1].ind

InBlocks(x, tx, t, ss) ==
  /\ Begun(x, tx, t, ss, Len(ss))
  /\ \/ Opening(x.toks)
     \/ \E m \in 0 .. Len(x.toks) : Pending(x.toks, m) /\ Match(x, ss, Len(ss), m)

Blank(tx, m, n) == \A i \in m .. n : tx[i].body.kind = "blank"

\* The block of line h is awaited: it is missing, it is not there yet, it is there.
Missing(x)      == HasStatement(x.toks) /\ ~Opening(x.toks)
NotYet(x, tx, h, ss, b) ==
  /\ Pending(x.toks, 0) /\ ~HasStatement(x.toks) /\ Match(x, ss, b, 0)
  /\ tx[h].ind = Current_(x.stack) /\ Blank(tx, h + 1, Len(tx))
There(x, tx, h, ss, b) ==
  /\ Opening(x.toks) /\ Len(x.stack) = b
  /\ \A k \in 1 .. b - 1 : x.stack[k] = ss[k + 1].ind
  /\ x.stack[b] = x.toks[1].data /\ x.toks[1].data > tx[h].ind
  /\ Blank(tx, h + 1, Len(tx) - 1) /\ (HasStatement(x.toks) \/ ~IsStatement(Last(tx)))

BeforeBlock(x, tx, t, ss) ==
  LET h == HeadAt(t, ss, Len(ss))   b == Len(ss) - 1
  IN /\ h \in StatementsIn(tx) /\ HasBlock(tx[h])
     /\ Begun(x, tx, t, ss, b)
     /\ Missing(x) \/ NotYet(x, tx, h, ss, b) \/ There(x, tx, h, ss, b)

\* There may be statements to come.
Alive(x) == x.at = "fresh" \/ HasStatement(x.toks)

Laid(x, tx, t, ss, where) == Alive(x) =>
  IF where = "statement" THEN InBlocks(x, tx, t, ss) ELSE BeforeBlock(x, tx, t, ss)

\* A loop and its block are of the same line.
OwnersAt(t, ss) == \A i \in 2 .. Len(ss) : t.nodes[ss[i].owner].kind = "WHILE_STATEMENT" =>
                     t.nodes[ss[i].owner].at = HeadAt(t, ss, i)

\* Every statement is in one place of one operation.
OnePlace(t) == \A o, p \in 1 .. Newest(t) : IsOperation(t, o) /\ IsOperation(t, p) =>
                 \A k \in DOMAIN t.nodes[o].kids : \A l \in DOMAIN t.nodes[p].kids :
                   t.nodes[o].kids[k] = t.nodes[p].kids[l] => o = p /\ k = l

\* In operation o the if `next` is behind the if i.
Behind(t, o, i, next) == /\ IsOperation(t, o)
                         /\ \E k \in 2 .. Len(t.nodes[o].kids) :
                              t.nodes[o].kids[k - 1] = i /\ t.nodes[o].kids[k] = next

\* An if that is continued has the one that continues it behind it; an else has an
\* operation of its own.
OrsBehind(t) == \A i \in 1 .. Newest(t) : t.nodes[i].ifType = "IF_OR" =>
                  \E o \in 1 .. Newest(t) : Behind(t, o, i, t.nodes[i].elseBlock)
ElsesApart(t) == \A i \in 1 .. Newest(t) : t.nodes[i].ifType = "IF_ELSE" =>
                   t.nodes[i].elseBlock # 0 /\ t.nodes[i].elseBlock # t.nodes[i].block

ChainedIn(t) == OnePlace(t) /\ OrsBehind(t) /\ ElsesApart(t)

Nest == ~reported =>
          /\ Running => LexedIn(lex, text) /\ tree.nodes[scopes[1].node].kind = "SCOPE_MODULE"
          /\ ChainedIn(tree) /\ OwnersAt(tree, scopes)
          /\ Fits(text) => /\ NestedIn(tree, text) /\ LoopsIn(tree, text)
                           /\ Running => Laid(lex, text, tree, scopes, pc)

-----------------------------------------------------------------------------
(* Texts that grow.                                                        *)

LEMMA TextIs ==
  ASSUME NEW tx, Written(tx)
  PROVE  /\ Len(tx) \in Nat /\ DOMAIN tx = 1 .. Len(tx)
         /\ \A j \in 1 .. Len(tx) : TextLine(tx[j]) /\ tx[j].ind \in Int
         /\ StatementsIn(tx) \subseteq 1 .. Len(tx)
<1>1. IsSeq(tx) /\ \A j \in DOMAIN tx : TextLine(tx[j])
  BY DEF Written
<1>2. Len(tx) \in Nat /\ DOMAIN tx = 1 .. Len(tx)
  BY <1>1, SeqIs
<1>3. \A l : TextLine(l) => l.ind \in Int
  <2>1. Address \in Nat /\ Mixed = -1
    BY DEF Address, Mixed
  <2>2. QED
    BY <2>1 DEF TextLine
<1>4. QED
  BY <1>1, <1>2, <1>3 DEF StatementsIn

\* Line l is read: text ty has a line more than tx, which has n.
Gains(tx, l, ty, n) == Written(tx) /\ TextLine(l) /\ ty = Append(tx, l) /\ n = Len(tx)

Gained(tx, l, ty, n) ==
  /\ n \in Nat /\ n + 1 \in 1 .. n + 1 /\ \A j \in 1 .. n : j \in 1 .. n + 1
  /\ Written(tx) /\ Len(tx) = n /\ DOMAIN tx = 1 .. n
  /\ Written(ty) /\ Len(ty) = n + 1 /\ DOMAIN ty = 1 .. n + 1 /\ ty # <<>>
  /\ Last(ty) = l /\ ty[n + 1] = l /\ l.ind \in Int
  /\ \A j \in 1 .. n : ty[j] = tx[j] /\ tx[j].ind \in Int
  /\ StatementsIn(tx) \subseteq 1 .. n /\ StatementsIn(ty) \subseteq 1 .. n + 1
  /\ \A j \in 1 .. n : j \in StatementsIn(ty) <=> j \in StatementsIn(tx)
  /\ n + 1 \in StatementsIn(ty) <=> IsStatement(l)

LEMMA TextLonger ==
  ASSUME NEW tx, NEW l, NEW ty, NEW n, Gains(tx, l, ty, n)
  PROVE  Gained(tx, l, ty, n)
<1> USE DEF Gains
<1>1. IsSeq(tx) /\ Written(tx) /\ TextLine(l)
  BY DEF Written
<1>2. n \in Nat /\ n = Len(tx) /\ DOMAIN tx = 1 .. n
  BY <1>1, SeqIs
<1>3. /\ Len(ty) = n + 1 /\ DOMAIN ty = 1 .. n + 1 /\ ty[n + 1] = l
      /\ \A j \in 1 .. n : ty[j] = tx[j]
  BY <1>1, <1>2, SeqAppended
<1>4. Written(ty) /\ ty # <<>>
  BY TextGrows
<1>5. Last(ty) = ty[Len(ty)]
  BY <1>4, LastLine
<1>6. n + 1 \in 1 .. n + 1 /\ \A j \in 1 .. n : j \in 1 .. n + 1
  BY <1>2
<1>7. \A j \in 1 .. n + 1 : ty[j].ind \in Int
  BY <1>3, <1>4, TextIs
<1>8. /\ StatementsIn(tx) \subseteq 1 .. n /\ StatementsIn(ty) \subseteq 1 .. n + 1
      /\ \A j \in 1 .. n : j \in StatementsIn(ty) <=> j \in StatementsIn(tx)
      /\ n + 1 \in StatementsIn(ty) <=> IsStatement(l)
  BY ONLY <1>2, <1>3, <1>6 DEF StatementsIn
<1>9. Last(ty) = l
  BY ONLY <1>3, <1>5
<1>10. l.ind \in Int /\ \A j \in 1 .. n : tx[j].ind \in Int
  BY ONLY <1>3, <1>6, <1>7
<1>11. QED
  BY ONLY <1>1, <1>2, <1>3, <1>4, <1>6, <1>8, <1>9, <1>10 DEF Gained

LEMMA FitsBefore ==
  ASSUME NEW tx, NEW l, NEW ty, NEW n, Gains(tx, l, ty, n), Fits(ty)
  PROVE  Fits(tx)
<1>1. Gained(tx, l, ty, n)
  BY TextLonger
<1>2. PICK w, v : /\ w = {i \in DOMAIN tx : tx[i].body.kind # "blank"}
                  /\ v = {i \in DOMAIN ty : ty[i].body.kind # "blank"}
  OBVIOUS
<1>3. w \subseteq v /\ w \subseteq 1 .. n /\ \A k \in v : k \in w \/ k = n + 1
  BY ONLY <1>1, <1>2 DEF Gained
<1>4. ASSUME NEW i \in StatementsIn(tx), tx[i].body.kind = "func"
      PROVE  tx[i].ind = 0
  <2>1. i \in StatementsIn(ty) /\ ty[i] = tx[i]
    BY ONLY <1>1, i \in StatementsIn(tx) DEF Gained
  <2>2. QED
    BY <1>4, <2>1 DEF Fits
<1>5. \A a, b \in v : a < b /\ (\A k \in v : k <= a \/ b <= k) =>
        /\ ty[a].body.kind = "comment" => ty[b].ind = ty[a].ind
        /\ ty[b].body.kind = "comment" /\ HasBlock(ty[a]) => ty[b].ind > ty[a].ind
  <2>1. Fits(ty)
    OBVIOUS
  <2>2. QED
    BY ONLY <1>2, <2>1, Zenon DEF Fits
<1>6. ASSUME NEW i \in w, NEW j \in w, i < j, \A k \in w : k <= i \/ j <= k
      PROVE  /\ tx[i].body.kind = "comment" => tx[j].ind = tx[i].ind
             /\ tx[j].body.kind = "comment" /\ HasBlock(tx[i]) => tx[j].ind > tx[i].ind
  <2>1. i \in v /\ j \in v /\ i \in 1 .. n /\ j \in 1 .. n /\ ty[i] = tx[i] /\ ty[j] = tx[j]
    BY ONLY <1>1, <1>3, i \in w, j \in w DEF Gained
  <2>2. n \in Nat /\ n + 1 > j
    BY ONLY <1>1, <2>1 DEF Gained
  <2>3. \A k \in v : k <= i \/ j <= k
    BY <1>3, <1>6, <2>1, <2>2
  <2>4. QED
    BY <1>5, <1>6, <2>1, <2>3
<1>7. QED
  BY <1>2, <1>4, <1>6 DEF Fits

LEMMA HeaderStays ==
  ASSUME NEW tx, NEW l, NEW ty, NEW n, Gains(tx, l, ty, n), NEW i \in 1 .. n
  PROVE  HeaderIn(ty, i) = HeaderIn(tx, i)
<1>1. Gained(tx, l, ty, n)
  BY TextLonger
<1>2. PICK A, B : /\ A = {j \in StatementsIn(ty) : j < i /\ ty[j].ind < ty[i].ind}
                  /\ B = {j \in StatementsIn(tx) : j < i /\ tx[j].ind < tx[i].ind}
  OBVIOUS
<1>3. n \in Nat /\ i \in 1 .. n
  BY <1>1 DEF Gained
<1>4. \A j : j \in StatementsIn(ty) /\ j < i => j \in 1 .. n /\ j \in StatementsIn(tx)
  BY <1>1, <1>3 DEF Gained
<1>5. \A j : j \in StatementsIn(tx) => j \in 1 .. n /\ j \in StatementsIn(ty)
  BY <1>1 DEF Gained
<1>6. \A j \in 1 .. n : ty[j] = tx[j]
  BY <1>1 DEF Gained
<1>7. A = B
  BY ONLY <1>2, <1>3, <1>4, <1>5, <1>6
<1>8. HeaderIn(ty, i) = IF A = {} THEN 0 ELSE CHOOSE j \in A : \A k \in A : k <= j
  BY ONLY <1>2 DEF HeaderIn
<1>9. HeaderIn(tx, i) = IF B = {} THEN 0 ELSE CHOOSE j \in B : \A k \in B : k <= j
  BY ONLY <1>2 DEF HeaderIn
<1>10. QED
  BY ONLY <1>7, <1>8, <1>9

\* The nearest line above that is less indented.
LEMMA HeaderFound ==
  ASSUME NEW tx, Written(tx), NEW h \in StatementsIn(tx), NEW i \in 1 .. Len(tx), h < i,
         tx[h].ind < tx[i].ind,
         \A j \in StatementsIn(tx) : h < j /\ j < i => tx[j].ind >= tx[i].ind
  PROVE  HeaderIn(tx, i) = h
<1>1. PICK above : above = {j \in StatementsIn(tx) : j < i /\ tx[j].ind < tx[i].ind}
  OBVIOUS
<1>2. /\ Len(tx) \in Nat /\ \A j \in 1 .. Len(tx) : tx[j].ind \in Int
      /\ StatementsIn(tx) \subseteq 1 .. Len(tx)
  BY TextIs
<1>3. h \in above /\ \A k \in above : k <= h
  BY <1>1, <1>2
<1>4. \A j \in above : (\A k \in above : k <= j) => j = h
  BY <1>1, <1>2, <1>3
<1>5. (CHOOSE j \in above : \A k \in above : k <= j) = h
  BY <1>3, <1>4
<1>6. HeaderIn(tx, i) = CHOOSE j \in above : \A k \in above : k <= j
  BY <1>1, <1>3 DEF HeaderIn
<1>7. QED
  BY <1>5, <1>6

LEMMA NestedLonger ==
  ASSUME NEW tx, NEW l, NEW ty, NEW n, Gains(tx, l, ty, n), NEW t, NestedIn(t, tx)
  PROVE  NestedIn(t, ty)
<1>1. Gained(tx, l, ty, n)
  BY TextLonger
<1>2. Len(tx) = n /\ Len(ty) = n + 1 /\ \A j \in 1 .. n : j \in 1 .. n + 1
  BY <1>1 DEF Gained
<1>3. ASSUME NEW i \in 1 .. n
      PROVE  HeaderIn(ty, i) = HeaderIn(tx, i)
  BY HeaderStays
<1>4. ASSUME NEW i \in 1 .. Len(tx)
      PROVE  i \in 1 .. Len(ty) /\ HeaderIn(ty, i) = HeaderIn(tx, i)
  <2>1. i \in 1 .. n
    BY <1>2
  <2>2. QED
    BY <1>2, <1>3, <2>1
<1>5. QED
  BY <1>4 DEF NestedIn

LEMMA LoopsLonger ==
  ASSUME NEW tx, NEW l, NEW ty, NEW n, Gains(tx, l, ty, n), NEW t, LoopsIn(t, tx)
  PROVE  LoopsIn(t, ty)
<1>1. Gained(tx, l, ty, n)
  BY TextLonger
<1>2. SUFFICES ASSUME NEW i \in 1 .. Newest(t), t.nodes[i].to # 0
               PROVE  LET from == t.nodes[t.nodes[i].to].at
                      IN /\ t.nodes[i].to \in 1 .. Newest(t) /\ t.nodes[i].at \in 1 .. Len(ty)
                         /\ from \in 1 .. Len(ty)
                         /\ \A k \in StatementsIn(ty) : from < k /\ k <= t.nodes[i].at => ty[k].ind > ty[from].ind
  BY DEF LoopsIn
<1>3. PICK from, at : from = t.nodes[t.nodes[i].to].at /\ at = t.nodes[i].at
  OBVIOUS
<1>4. Len(tx) = n /\ Len(ty) = n + 1 /\ n \in Nat
  BY <1>1 DEF Gained
<1>5. /\ t.nodes[i].to \in 1 .. Newest(t) /\ at \in 1 .. n /\ from \in 1 .. n
      /\ \A k \in StatementsIn(tx) : from < k /\ k <= at => tx[k].ind > tx[from].ind
  BY <1>2, <1>3, <1>4 DEF LoopsIn
<1>6. ASSUME NEW k \in StatementsIn(ty), from < k, k <= at
      PROVE  ty[k].ind > ty[from].ind
  <2>1. k \in 1 .. n + 1
    BY <1>1 DEF Gained
  <2>2. k \in 1 .. n
    BY <1>4, <1>5, <1>6, <2>1
  <2>3. k \in StatementsIn(tx) /\ ty[k] = tx[k] /\ ty[from] = tx[from]
    BY <1>1, <1>5, <2>2 DEF Gained
  <2>4. QED
    BY <1>5, <1>6, <2>3
<1>7. at \in 1 .. n + 1 /\ from \in 1 .. n + 1
  BY <1>4, <1>5
<1>8. QED
  BY <1>3, <1>4, <1>5, <1>6, <1>7

-----------------------------------------------------------------------------
(* Tokens that are taken.                                                  *)

\* r is what is left of s without n tokens.
Rest(s, n, r) == /\ IsSeq(s) /\ IsSeq(r) /\ n \in 1 .. Len(s) /\ Len(r) = Len(s) - n
                 /\ \A i \in 1 .. Len(s) - n : r[i] = s[n + i]

LEMMA RestIs ==
  ASSUME NEW s, NEW n, NEW r, Rest(s, n, r)
  PROVE  /\ Len(s) \in Nat /\ n \in Nat /\ n >= 1 /\ n <= Len(s)
         /\ DOMAIN s = 1 .. Len(s) /\ DOMAIN r = 1 .. Len(s) - n /\ Len(r) = Len(s) - n
         /\ \A i \in DOMAIN r : n + i \in DOMAIN s /\ r[i] = s[n + i]
         /\ Len(r) = 0 => r = <<>>
<1>1. Len(s) \in Nat /\ DOMAIN s = 1 .. Len(s) /\ DOMAIN r = 1 .. Len(r) /\ (Len(r) = 0 => r = <<>>)
  BY SeqIs DEF Rest
<1>2. QED
  BY <1>1 DEF Rest

LEMMA RestSays ==
  ASSUME NEW s, NEW n, NEW r, Rest(s, n, r)
  PROVE  /\ HasStatement(r) => HasStatement(s)
         /\ n = 1 /\ s[1].tok # "STATEMENT" /\ HasStatement(s) => HasStatement(r)
         /\ (\E i \in DOMAIN r : r[i].tok = "EOF") => \E i \in DOMAIN s : s[i].tok = "EOF"
<1>1. PICK k \in Nat : k = Len(s)
  BY RestIs
<1>2. /\ n \in Nat /\ n >= 1 /\ n <= k /\ DOMAIN s = 1 .. k /\ DOMAIN r = 1 .. k - n
      /\ \A i \in 1 .. k - n : n + i \in 1 .. k /\ r[i] = s[n + i]
  BY <1>1, RestIs
<1>3. ASSUME n = 1, s[1].tok # "STATEMENT", NEW i \in 1 .. k, s[i].tok = "STATEMENT"
      PROVE  HasStatement(r)
  <2>1. i # 1
    BY <1>3
  <2>2. i - 1 \in 1 .. k - n /\ n + (i - 1) = i
    BY <1>2, <1>3, <2>1
  <2>3. r[i - 1].tok = "STATEMENT"
    BY <1>2, <1>3, <2>2
  <2>4. QED
    BY <1>2, <2>2, <2>3 DEF HasStatement
<1>4. QED
  BY <1>2, <1>3 DEF HasStatement

\* A token that closes a block.
LEMMA DedentTaken ==
  ASSUME NEW s, NEW r, Rest(s, 1, r), NEW m \in 1 .. Len(s), Closing(s, m)
  PROVE  Closing(r, m - 1) /\ m - 1 \in 0 .. Len(r) /\ (HasStatement(r) <=> HasStatement(s))
<1>1. PICK k \in Nat : k = Len(s)
  BY RestIs
<1>2. /\ 1 <= k /\ DOMAIN s = 1 .. k /\ DOMAIN r = 1 .. k - 1 /\ Len(r) = k - 1
      /\ \A i \in 1 .. k - 1 : r[i] = s[1 + i]
  BY <1>1, RestIs
<1>3. m \in 1 .. k /\ (\A i \in 1 .. m : s[i].tok = "DEDENT")
      /\ \/ k = m + 1 /\ s[m + 1].tok \in {"EOL", "EOF"}
         \/ k = m + 2 /\ s[m + 1].tok = "STATEMENT" /\ s[m + 2].tok \in {"EOL", "EOF"}
  BY <1>1 DEF Closing, EndOfLine
<1>4. \A i \in 1 .. m - 1 : r[i].tok = "DEDENT"
  <2>1. \A i \in 1 .. m - 1 : i \in 1 .. k - 1 /\ 1 + i \in 1 .. m
    BY <1>3
  <2>2. QED
    BY <1>2, <1>3, <2>1
<1>5. EndOfLine(r, m)
  <2>1. CASE k = m + 1 /\ s[m + 1].tok \in {"EOL", "EOF"}
    <3>1. m \in 1 .. k - 1 /\ 1 + m = m + 1
      BY <1>3, <2>1
    <3>2. QED
      BY <1>2, <2>1, <3>1 DEF EndOfLine
  <2>2. CASE k = m + 2 /\ s[m + 1].tok = "STATEMENT" /\ s[m + 2].tok \in {"EOL", "EOF"}
    <3>1. m \in 1 .. k - 1 /\ m + 1 \in 1 .. k - 1 /\ 1 + m = m + 1 /\ 1 + (m + 1) = m + 2 /\ Len(r) = m + 1
      BY <1>2, <1>3, <2>2
    <3>2. QED
      BY <1>2, <2>2, <3>1 DEF EndOfLine
  <2>3. QED
    BY <1>3, <2>1, <2>2
<1>6. s[1].tok # "STATEMENT"
  BY <1>3
<1>7. m - 1 + 1 = m /\ m - 1 \in 0 .. Len(r)
  BY <1>2, <1>3
<1>8. QED
  BY <1>4, <1>5, <1>6, <1>7, RestSays DEF Closing

\* A token that opens a block.
LEMMA IndentTaken ==
  ASSUME NEW s, NEW r, Rest(s, 1, r), Opening(s)
  PROVE  Closing(r, 0) /\ (HasStatement(r) <=> HasStatement(s))
<1>1. PICK k \in Nat : k = Len(s)
  BY RestIs
<1>2. /\ Len(r) = k - 1 /\ \A i \in 1 .. k - 1 : r[i] = s[1 + i]
  BY <1>1, RestIs
<1>3. /\ k > 1 /\ s[1].tok = "INDENT"
      /\ \/ k = 2 /\ s[2].tok \in {"EOL", "EOF"}
         \/ k = 3 /\ s[2].tok = "STATEMENT" /\ s[3].tok \in {"EOL", "EOF"}
  BY <1>1 DEF Opening, EndOfLine
<1>4. r[1] = s[2]
  BY <1>2, <1>3
<1>5. k = 3 => r[2] = s[3]
  BY <1>2
<1>6. EndOfLine(r, 1)
  BY <1>2, <1>3, <1>4, <1>5 DEF EndOfLine
<1>7. s[1].tok # "STATEMENT"
  BY <1>3
<1>8. QED
  BY <1>6, <1>7, RestSays DEF Closing

\* What is left of a line of which the statement is seen.
LEMMA StatementTaken ==
  ASSUME NEW s, NEW n, NEW r, Rest(s, n, r), Len(s) = 2, s[1].tok = "STATEMENT", s[2].tok \in {"EOL", "EOF"}
  PROVE  Pending(r, 0) /\ ~HasStatement(r)
<1>0. /\ n \in Nat /\ n >= 1 /\ n <= 2 /\ DOMAIN r = 1 .. 2 - n /\ Len(r) = 2 - n
      /\ \A i \in 1 .. 2 - n : r[i] = s[n + i]
      /\ Len(r) = 0 => r = <<>>
  <2>1. PICK k : k = Len(s)
    OBVIOUS
  <2>2. /\ n \in Nat /\ n >= 1 /\ n <= k /\ DOMAIN r = 1 .. k - n /\ Len(r) = k - n
        /\ \A i \in DOMAIN r : r[i] = s[n + i]
        /\ Len(r) = 0 => r = <<>>
    <3>1. Rest(s, n, r)
      OBVIOUS
    <3>2. QED
      BY ONLY <2>1, <3>1, RestIs
  <2>3. k = 2
    BY <2>1
  <2>4. QED
    BY ONLY <2>2, <2>3
<1>1. CASE n = 1
  <2>1. Len(r) = 1 /\ DOMAIN r = 1 .. 1 /\ r[1] = s[2]
    BY ONLY <1>0, <1>1
  <2>2. EndOfLine(r, 1) /\ r[1].tok # "STATEMENT"
    BY <2>1 DEF EndOfLine
  <2>3. QED
    BY <2>1, <2>2 DEF Pending, Closing, HasStatement
<1>2. CASE n = 2
  <2>1. r = <<>> /\ DOMAIN r = 1 .. 0
    BY ONLY <1>0, <1>2
  <2>2. QED
    BY <2>1 DEF Pending, HasStatement
<1>3. n = 1 \/ n = 2
  BY ONLY <1>0
<1>4. QED
  BY ONLY <1>1, <1>2, <1>3

\* What the first token says of the others.
FirstSays(s) ==
  /\ s[1].tok = "INDENT" => Opening(s)
  /\ s[1].tok # "INDENT" => ~Opening(s)
  /\ s[1].tok \in {"EOL", "EOF"} => Len(s) = 1 /\ ~HasStatement(s) /\ Closing(s, 0)
  /\ s[1].tok = "STATEMENT" => Len(s) = 2 /\ s[2].tok \in {"EOL", "EOF"} /\ Closing(s, 0) /\ HasStatement(s)
  /\ \A m \in 0 .. Len(s) : Pending(s, m) =>
       /\ Closing(s, m) /\ s[1].tok # "INDENT"
       /\ s[1].tok = "DEDENT" => m \in 1 .. Len(s)
       /\ s[1].tok # "DEDENT" => m = 0

LEMMA ShapedSays ==
  ASSUME NEW s, IsSeq(s), Shaped(s), s # <<>>
  PROVE  FirstSays(s)
<1>1. PICK k : k = Len(s)
  OBVIOUS
<1>2. k \in Nat /\ k # 0 /\ DOMAIN s = 1 .. k
  BY <1>1, SeqIs
<1>3. \/ Opening(s)
      \/ \E m \in 0 .. k : Closing(s, m)
  BY <1>1 DEF Shaped, Pending
<1>4. Opening(s) <=> k > 1 /\ s[1].tok = "INDENT" /\ EndOfLine(s, 2)
  BY <1>1 DEF Opening
<1>5. \A i : EndOfLine(s, i) <=> \/ k = i /\ s[i].tok \in {"EOL", "EOF"}
                                 \/ k = i + 1 /\ s[i].tok = "STATEMENT" /\ s[i + 1].tok \in {"EOL", "EOF"}
  BY <1>1 DEF EndOfLine
<1>6. ASSUME NEW m \in 0 .. k, Closing(s, m)
      PROVE  /\ s[1].tok # "INDENT"
             /\ s[1].tok = "DEDENT" => m \in 1 .. k
             /\ s[1].tok # "DEDENT" => m = 0
             /\ m = 0 => EndOfLine(s, 1)
  <2>1. (\A i \in 1 .. m : s[i].tok = "DEDENT") /\ EndOfLine(s, m + 1)
    BY <1>6 DEF Closing
  <2>2. CASE m = 0
    <3>1. EndOfLine(s, 1)
      BY <2>1, <2>2
    <3>2. s[1].tok \in {"EOL", "EOF", "STATEMENT"}
      BY <1>5, <3>1
    <3>3. QED
      BY <2>2, <3>1, <3>2
  <2>3. CASE m # 0
    <3>1. 1 \in 1 .. m /\ m \in 1 .. k
      BY <2>3
    <3>2. s[1].tok = "DEDENT"
      BY <2>1, <3>1
    <3>3. QED
      BY <2>3, <3>1, <3>2
  <2>4. QED
    BY <2>2, <2>3
<1>7. s[1].tok \in {"EOL", "EOF", "STATEMENT"} => Closing(s, 0) /\ EndOfLine(s, 1)
  BY <1>3, <1>4, <1>6
<1>8. s[1].tok = "INDENT" => Opening(s)
  BY <1>3, <1>6
<1>9. s[1].tok \in {"EOL", "EOF"} => k = 1 /\ ~HasStatement(s)
  <2>1. ASSUME s[1].tok \in {"EOL", "EOF"}
        PROVE  k = 1
    BY <1>5, <1>7, <2>1
  <2>2. ASSUME s[1].tok \in {"EOL", "EOF"}
        PROVE  ~HasStatement(s)
    <3>1. \A i \in DOMAIN s : i = 1
      BY <1>2, <2>1, <2>2
    <3>2. QED
      BY <2>2, <3>1 DEF HasStatement
  <2>3. QED
    BY <2>1, <2>2
<1>10. s[1].tok = "STATEMENT" => k = 2 /\ s[2].tok \in {"EOL", "EOF"} /\ HasStatement(s)
  <2>1. ASSUME s[1].tok = "STATEMENT"
        PROVE  k = 2 /\ s[2].tok \in {"EOL", "EOF"} /\ 1 \in DOMAIN s
    <3>1. \/ k = 1 /\ s[1].tok \in {"EOL", "EOF"}
          \/ k = 1 + 1 /\ s[1].tok = "STATEMENT" /\ s[1 + 1].tok \in {"EOL", "EOF"}
      BY <1>5, <1>7, <2>1
    <3>2. 1 + 1 = 2
      OBVIOUS
    <3>3. k = 2 /\ s[2].tok \in {"EOL", "EOF"}
      BY ONLY <2>1, <3>1, <3>2
    <3>4. QED
      BY <1>2, <3>3
  <2>2. QED
    BY <2>1 DEF HasStatement
<1>11. ASSUME NEW m \in 0 .. k, Pending(s, m)
       PROVE  Closing(s, m)
  BY <1>11 DEF Pending
<1>12. s[1].tok # "INDENT" => ~Opening(s)
  BY <1>4
<1>13. QED
  BY <1>1, <1>6, <1>7, <1>8, <1>9, <1>10, <1>11, <1>12 DEF FirstSays

-----------------------------------------------------------------------------
(* The lexer, when nothing was reported.                                   *)

\* What the first token says, when a token is seen.
LEMMA FirstToken ==
  ASSUME NEW x, NEW tx, LexOK(x), LexedIn(x, tx), x.toks # <<>>
  PROVE  FirstSays(x.toks)
<1>1. IsSeq(x.toks) /\ Shaped(x.toks)
  BY DEF LexOK, Tokens, LexedIn
<1>2. QED
  BY <1>1, ShapedSays

\* The parser takes n tokens.
TakenFrom(x, tx, n, y) == /\ LexOK(x) /\ LexedIn(x, tx) /\ x.toks # <<>> /\ n \in 1 .. Len(x.toks)
                          /\ n = 1 \/ x.toks[1].tok = "STATEMENT"
                          /\ y = Taken(x, n)

\* What is left of tokens s, by the first of them.
Gone(s, r) ==
  /\ s[1].tok = "INDENT" => (HasStatement(r) <=> HasStatement(s)) /\ Pending(r, 0)
  /\ s[1].tok = "DEDENT" =>
       /\ HasStatement(r) <=> HasStatement(s)
       /\ \A m \in 1 .. Len(s) : Closing(s, m) => m - 1 \in 0 .. Len(r) /\ Pending(r, m - 1)
  /\ s[1].tok \in {"EOL", "EOF"} => r = <<>> /\ ~HasStatement(r)
  /\ s[1].tok = "STATEMENT" => Pending(r, 0) /\ ~HasStatement(r)

TakenTo(x, tx, n, y) == /\ LexOK(y) /\ LexedIn(y, tx) /\ y.at = x.at /\ y.stack = x.stack
                        /\ FirstSays(x.toks) /\ Gone(x.toks, y.toks)

LEMMA TokensLeft ==
  ASSUME NEW s, NEW n, NEW r, Rest(s, n, r), Tokens(s), Shaped(s), FirstSays(s),
         n = 1 \/ s[1].tok = "STATEMENT"
  PROVE  Gone(s, r) /\ Shaped(r)
<1>1. IsSeq(r) /\ Len(r) \in Nat /\ 0 \in 0 .. Len(r) /\ (Len(r) = 0 => r = <<>>)
  <2>1. IsSeq(r)
    BY DEF Rest
  <2>2. QED
    BY <2>1, SeqIs
<1>2. AToken(s[1])
  <2>1. IsSeq(s) /\ (\A i \in DOMAIN s : AToken(s[i])) /\ n \in 1 .. Len(s)
    BY DEF Tokens, Rest
  <2>2. 1 \in DOMAIN s
    BY <2>1, SeqIs
  <2>3. QED
    BY <2>1, <2>2
<1>3. CASE s[1].tok = "INDENT"
  <2>1. Rest(s, 1, r) /\ Opening(s)
    BY <1>3 DEF FirstSays
  <2>2. Closing(r, 0) /\ (HasStatement(r) <=> HasStatement(s))
    BY <2>1, IndentTaken
  <2>3. Pending(r, 0)
    BY ONLY <2>2 DEF Pending
  <2>4. Shaped(r)
    BY ONLY <1>1, <2>3 DEF Shaped
  <2>5. Gone(s, r)
    BY ONLY <1>3, <2>2, <2>3 DEF Gone
  <2>6. QED
    BY ONLY <2>4, <2>5
<1>4. CASE s[1].tok = "DEDENT"
  <2>1. Rest(s, 1, r) /\ Shaped(s) /\ ~Opening(s)
    BY <1>4 DEF FirstSays
  <2>2. \E m \in 1 .. Len(s) : Closing(s, m)
    <3>1. PICK m \in 0 .. Len(s) : Pending(s, m)
      BY ONLY <2>1 DEF Shaped
    <3>2. m \in 1 .. Len(s) /\ Closing(s, m)
      BY <1>4, <3>1 DEF FirstSays
    <3>3. QED
      BY <3>2
  <2>3. ASSUME NEW m \in 1 .. Len(s), Closing(s, m)
        PROVE  /\ HasStatement(r) <=> HasStatement(s)
               /\ m - 1 \in 0 .. Len(r) /\ Pending(r, m - 1)
    <3>1. Closing(r, m - 1) /\ m - 1 \in 0 .. Len(r) /\ (HasStatement(r) <=> HasStatement(s))
      BY <2>1, <2>3, DedentTaken
    <3>2. Pending(r, m - 1)
      BY ONLY <3>1 DEF Pending
    <3>3. QED
      BY ONLY <3>1, <3>2
  <2>4. Shaped(r)
    BY ONLY <2>2, <2>3 DEF Shaped
  <2>5. Gone(s, r)
    BY ONLY <1>4, <2>2, <2>3 DEF Gone
  <2>6. QED
    BY ONLY <2>4, <2>5
<1>5. CASE s[1].tok \in {"EOL", "EOF"}
  <2>1. n = 1 /\ Len(s) = 1
    BY <1>5 DEF FirstSays
  <2>2. Len(r) = 0
    BY <2>1 DEF Rest
  <2>3. r = <<>> /\ DOMAIN r = {}
    BY <1>1, <2>2, NoneSeq
  <2>4. ~HasStatement(r) /\ Pending(r, 0)
    BY ONLY <2>3 DEF HasStatement, Pending
  <2>5. Shaped(r)
    BY ONLY <1>1, <2>4 DEF Shaped
  <2>6. Gone(s, r)
    BY ONLY <1>5, <2>3, <2>4 DEF Gone
  <2>7. QED
    BY ONLY <2>5, <2>6
<1>6. CASE s[1].tok = "STATEMENT"
  <2>1. Len(s) = 2 /\ s[2].tok \in {"EOL", "EOF"}
    BY <1>6 DEF FirstSays
  <2>2. Pending(r, 0) /\ ~HasStatement(r)
    BY <1>6, <2>1, StatementTaken
  <2>3. Shaped(r)
    BY ONLY <1>1, <2>2 DEF Shaped
  <2>4. Gone(s, r)
    BY ONLY <1>6, <2>2 DEF Gone
  <2>5. QED
    BY ONLY <2>3, <2>4
<1>7. QED
  BY <1>2, <1>3, <1>4, <1>5, <1>6 DEF AToken

LEMMA TokensGo ==
  ASSUME NEW x, NEW tx, NEW n, NEW y, TakenFrom(x, tx, n, y)
  PROVE  TakenTo(x, tx, n, y)
<1> USE DEF TakenFrom
<1>1. PICK s, r : s = x.toks /\ r = y.toks
  OBVIOUS
<1>2. /\ LexOK(y) /\ y.at = x.at /\ y.stack = x.stack /\ y.indented = x.indented /\ y.reading = (r = <<>>)
      /\ Len(r) = Len(s) - n /\ \A i \in 1 .. Len(s) - n : r[i] = s[n + i]
  BY <1>1, TakenOK
<1>3. Rest(s, n, r)
  BY <1>1, <1>2 DEF Rest, LexOK, Tokens
<1>4. FirstSays(s) /\ Tokens(s) /\ Shaped(s)
  BY <1>1, FirstToken DEF LexOK, LexedIn
<1>5. n = 1 \/ s[1].tok = "STATEMENT"
  BY <1>1
<1>6. Gone(s, r) /\ Shaped(r)
  BY ONLY <1>3, <1>4, <1>5, TokensLeft
<1>7. HasStatement(r) => HasStatement(s)
  BY <1>3, RestSays
<1>8. (\E i \in DOMAIN r : r[i].tok = "EOF") => \E i \in DOMAIN s : s[i].tok = "EOF"
  BY <1>3, RestSays
<1>9. LexedIn(y, tx)
  <2>1. LexedIn(x, tx)
    OBVIOUS
  <2>2. QED
    BY ONLY <1>1, <1>2, <1>6, <1>7, <1>8, <2>1 DEF LexedIn
<1>10. QED
  BY ONLY <1>1, <1>2, <1>4, <1>6, <1>9 DEF TakenTo

\* A line is called for where none is left, or none but an end of line.
LEMMA CalledFor ==
  ASSUME NEW x, NEW tx, LexOK(x), LexedIn(x, tx), NEW y, y = Call(x)
  PROVE  LexOK(y) /\ LexedIn(y, tx) /\ y.at = x.at /\ y.stack = x.stack /\ y.toks = <<>>
<1>1. /\ LexOK(y) /\ y.at = x.at /\ y.stack = x.stack /\ y.indented = x.indented
      /\ y.reading /\ y.toks = <<>>
  BY CallOK
<1>2. \A i : i \notin DOMAIN y.toks
  BY <1>1, NoneSeq
<1>3. Shaped(y.toks)
  <2>1. 0 \in 0 .. Len(y.toks)
    BY <1>1, NoneSeq
  <2>2. QED
    BY <1>1, <2>1 DEF Shaped, Pending
<1>4. QED
  BY <1>1, <1>2, <1>3 DEF LexedIn, HasStatement

\* The end of a line is behind other tokens.
LineJoined(s, b, r, m) == /\ IsSeq(s) /\ IsSeq(b) /\ r = s \o b /\ m = Len(s)
                          /\ EndOfLine(b, 1) /\ Wordless(s)

JoinedLine(s, b, r, m) == /\ m \in Nat /\ r # <<>> /\ EndOfLine(r, m + 1) /\ Len(r) > m
                          /\ \A i \in 1 .. m : r[i] = s[i]
                          /\ \A i \in DOMAIN r : i \in 1 .. m \/ (i - m \in DOMAIN b /\ r[i] = b[i - m])
                          /\ HasStatement(r) <=> HasStatement(b)

LEMMA EndJoined ==
  ASSUME NEW s, NEW b, NEW r, NEW m, LineJoined(s, b, r, m)
  PROVE  JoinedLine(s, b, r, m)
<1> USE DEF LineJoined
<1>1. PICK k : k = Len(b)
  OBVIOUS
<1>2. /\ IsSeq(r) /\ Len(r) = m + k /\ DOMAIN r = 1 .. m + k
      /\ \A i \in 1 .. m : r[i] = s[i]
      /\ \A i \in 1 .. k : r[m + i] = b[i]
  BY <1>1, SeqJoined
<1>3. m \in Nat /\ DOMAIN s = 1 .. m /\ k \in Nat /\ DOMAIN b = 1 .. k
  BY <1>1, SeqIs
<1>4. \/ k = 1 /\ b[1].tok \in {"EOL", "EOF"}
      \/ k = 2 /\ b[1].tok = "STATEMENT" /\ b[2].tok \in {"EOL", "EOF"}
  BY <1>1 DEF EndOfLine
<1>5. EndOfLine(r, m + 1)
  <2>1. CASE k = 1 /\ b[1].tok \in {"EOL", "EOF"}
    <3>1. r[m + 1] = b[1] /\ Len(r) = m + 1
      BY <1>2, <2>1
    <3>2. QED
      BY <2>1, <3>1 DEF EndOfLine
  <2>2. CASE k = 2 /\ b[1].tok = "STATEMENT" /\ b[2].tok \in {"EOL", "EOF"}
    <3>1. r[m + 1] = b[1] /\ r[m + 2] = b[2] /\ Len(r) = m + 2
      BY <1>2, <2>2
    <3>2. m + 2 = (m + 1) + 1
      BY <1>3
    <3>3. r[(m + 1) + 1] = b[2] /\ Len(r) = (m + 1) + 1
      BY ONLY <3>1, <3>2
    <3>4. QED
      BY ONLY <2>2, <3>1, <3>3 DEF EndOfLine
  <2>3. QED
    BY <1>4, <2>1, <2>2
<1>6. ASSUME HasStatement(r)
      PROVE  HasStatement(b)
  <2>1. PICK i \in 1 .. m + k : r[i].tok = "STATEMENT"
    BY <1>2, <1>6 DEF HasStatement
  <2>2. CASE i \in 1 .. m
    BY <1>2, <1>3, <2>1, <2>2 DEF Wordless
  <2>3. CASE i \notin 1 .. m
    <3>1. i - m \in 1 .. k /\ m + (i - m) = i
      BY <1>3, <2>3
    <3>2. r[m + (i - m)] = b[i - m]
      BY <1>2, <3>1
    <3>3. b[i - m].tok = "STATEMENT"
      BY ONLY <2>1, <3>1, <3>2
    <3>4. QED
      BY <1>3, <3>1, <3>3 DEF HasStatement
  <2>4. QED
    BY <2>2, <2>3
<1>7. ASSUME HasStatement(b)
      PROVE  HasStatement(r)
  <2>1. PICK i \in 1 .. k : b[i].tok = "STATEMENT"
    BY <1>3, <1>7 DEF HasStatement
  <2>2. m + i \in 1 .. m + k
    BY <1>3
  <2>3. QED
    BY <1>2, <2>1, <2>2 DEF HasStatement
<1>8. Len(r) > m /\ Len(r) # 0
  BY <1>2, <1>3, <1>4
<1>9. r # <<>>
  BY <1>2, <1>8, SeqIs
<1>10. ASSUME NEW i \in 1 .. m + k, i \notin 1 .. m
       PROVE  i - m \in 1 .. k /\ r[i] = b[i - m]
  <2>1. i - m \in 1 .. k /\ m + (i - m) = i
    BY <1>3, <1>10
  <2>2. r[m + (i - m)] = b[i - m]
    BY <1>2, <2>1
  <2>3. QED
    BY ONLY <2>1, <2>2
<1>11. QED
  BY ONLY <1>2, <1>3, <1>5, <1>6, <1>7, <1>8, <1>9, <1>10 DEF JoinedLine

\* A line is read of which nothing is reported. It is at the level the lexer is at,
\* at a new one, or back at one of those before; or at none, and then none is left.
Lexes(x, tx, l, y) == /\ LexOK(x) /\ LexedIn(x, tx) /\ TextLine(l) /\ ~Complains(x, l)
                      /\ y = Reads(x, l)

StaysAt(x, l, y)  == y.stack = x.stack /\ Closing(y.toks, 0) /\ l.ind = Current_(x.stack)
GoesDown(x, l, y) == /\ Indented(x, l.ind) /\ l.ind > Current_(x.stack)
                     /\ y.stack = Append(x.stack, l.ind)
                     /\ Opening(y.toks) /\ y.toks[1].data = l.ind
GoesBack(x, l, y) == /\ Indented(x, l.ind) /\ l.ind < Current_(x.stack)
                     /\ Len(y.stack) \in 0 .. Len(x.stack)
                     /\ \A k \in 1 .. Len(y.stack) : y.stack[k] = x.stack[k]
                     /\ Len(x.stack) - Len(y.stack) \in 0 .. Len(y.toks)
                     /\ Closing(y.toks, Len(x.stack) - Len(y.stack))
                     /\ y.stack # <<>> => l.ind = Current_(y.stack)

LineLexed(x, l, y) ==
  /\ LexOK(y) /\ ~y.reading /\ y.toks # <<>> /\ y.indented = Indented(x, l.ind)
  /\ y.at = (IF l.nl THEN "fresh" ELSE "end") /\ l.body.kind # "bad"
  /\ HasStatement(y.toks) <=> IsStatement(l)
  /\ (\E i \in DOMAIN y.toks : y.toks[i].tok = "EOF") => ~l.nl
  /\ StaysAt(x, l, y) \/ GoesDown(x, l, y) \/ GoesBack(x, l, y)

\* What is behind the indentation, which has no statement.
LEMMA BehindIs ==
  ASSUME NEW l, TextLine(l), l.body.kind # "bad"
  PROVE  /\ IsSeq(Body(l)) /\ EndOfLine(Body(l), 1) /\ (HasStatement(Body(l)) <=> IsStatement(l))
         /\ (\E i \in DOMAIN Body(l) : Body(l)[i].tok = "EOF") => ~l.nl
<1>1. PICK s, end : s = Body(l) /\ end = IF l.nl THEN "EOL" ELSE "EOF"
  OBVIOUS
<1>2. /\ IsSeq(s)
      /\ \/ l.body.kind = "bad" /\ Len(s) = 0
         \/ l.body.kind \in {"blank", "comment"} /\ Len(s) = 1 /\ s[1].tok = end
         \/ /\ IsStatement(l) /\ Len(s) = 2 /\ s[1].tok = "STATEMENT" /\ s[2].tok = end
  BY <1>1, BodyIs
<1>3. end \in {"EOL", "EOF"} /\ end # "STATEMENT" /\ (end = "EOF" => ~l.nl)
  BY <1>1
<1>4. l.body.kind \in {"blank", "comment"} => ~IsStatement(l)
  BY DEF IsStatement, SimpleKinds, BlockKinds, StrayKinds
<1>5. CASE l.body.kind \in {"blank", "comment"}
  <2>1. Len(s) = 1 /\ s[1].tok = end
    BY <1>2, <1>4, <1>5
  <2>2. DOMAIN s = 1 .. 1
    BY <1>2, <2>1, SeqIs
  <2>3. \A i \in DOMAIN s : i = 1
    BY <2>2
  <2>4. EndOfLine(s, 1)
    BY <1>3, <2>1 DEF EndOfLine
  <2>5. ~HasStatement(s)
    BY <1>3, <2>1, <2>3 DEF HasStatement
  <2>6. QED
    BY ONLY <1>1, <1>2, <1>3, <1>4, <1>5, <2>1, <2>3, <2>4, <2>5
<1>6. CASE l.body.kind \notin {"blank", "comment"}
  <2>1. IsStatement(l) /\ Len(s) = 2 /\ s[1].tok = "STATEMENT" /\ s[2].tok = end
    BY <1>2, <1>6
  <2>2. DOMAIN s = 1 .. 2
    BY <1>2, <2>1, SeqIs
  <2>3. 1 \in DOMAIN s /\ \A i \in DOMAIN s : i = 1 \/ i = 2
    BY <2>2
  <2>4. EndOfLine(s, 1)
    BY <1>3, <2>1 DEF EndOfLine
  <2>5. HasStatement(s)
    BY <2>1, <2>3 DEF HasStatement
  <2>6. \A i \in DOMAIN s : s[i].tok = "EOF" => s[i].tok = end
    BY <2>1, <2>3
  <2>7. QED
    BY ONLY <1>1, <1>2, <1>3, <2>1, <2>4, <2>5, <2>6
<1>7. QED
  BY <1>5, <1>6

LEMMA LineReads ==
  ASSUME NEW x, NEW tx, NEW l, NEW y, Lexes(x, tx, l, y)
  PROVE  LineLexed(x, l, y)
<1> USE DEF Lexes
<1>1. l.ind \in Mixed .. Address /\ l.ind # Mixed /\ ~Broken(x.stack, l.ind) /\ l.body.kind # "bad"
  BY DEF Complains, TextLine
<1>2. l.ind \in 0 .. Address
  BY <1>1 DEF Mixed, Address
<1>3. PICK in, s, b, r : in = Indent(x, l.ind) /\ s = in.toks /\ b = Body(l) /\ r = y.toks
  OBVIOUS
<1>4. /\ LexOK(y) /\ ~y.reading /\ y.stack = in.stack /\ y.indented = Indented(x, l.ind) /\ r = s \o b
      /\ y.at = IF l.nl THEN "fresh" ELSE "end"
  BY <1>1, <1>3, ReadsOK
<1>5. /\ Levels(in.stack) /\ Tokens(s)
      /\ \/ /\ ~Indented(x, l.ind) \/ l.ind = Current_(x.stack)
            /\ s = <<>> /\ in.stack = x.stack
         \/ /\ Indented(x, l.ind) /\ l.ind > Current_(x.stack)
            /\ s = <<Tok("INDENT", l.ind)>> /\ in.stack = Append(x.stack, l.ind)
         \/ Closes(x, l.ind, in)
  BY <1>1, <1>3, IndentIs
<1>6. IsSeq(s) /\ Wordless(s) /\ \A i \in DOMAIN s : s[i].tok \in {"INDENT", "DEDENT"}
  BY <1>1, <1>3, IndentWordless
<1>7. /\ IsSeq(b) /\ EndOfLine(b, 1) /\ (HasStatement(b) <=> IsStatement(l))
      /\ (\E i \in DOMAIN b : b[i].tok = "EOF") => ~l.nl
  BY <1>1, <1>3, BehindIs
<1>8. PICK m : m = Len(s)
  OBVIOUS
<1>9. LineJoined(s, b, r, m)
  BY ONLY <1>4, <1>6, <1>7, <1>8 DEF LineJoined
<1>10. JoinedLine(s, b, r, m)
  BY ONLY <1>9, EndJoined
<1>11. DOMAIN s = 1 .. m /\ m \in Nat
  BY <1>6, <1>8, SeqIs
<1>12. ASSUME NEW i \in DOMAIN r, r[i].tok = "EOF"
       PROVE  ~l.nl
  <2>1. i \in 1 .. m \/ (i - m \in DOMAIN b /\ r[i] = b[i - m])
    BY <1>10 DEF JoinedLine
  <2>2. CASE i \in 1 .. m
    <3>1. r[i] = s[i] /\ s[i].tok \in {"INDENT", "DEDENT"}
      BY <1>6, <1>10, <1>11, <2>2 DEF JoinedLine
    <3>2. QED
      BY <1>12, <3>1
  <2>3. CASE i - m \in DOMAIN b /\ r[i] = b[i - m]
    <3>1. b[i - m].tok = "EOF"
      BY <1>12, <2>3
    <3>2. QED
      BY <1>7, <2>3, <3>1
  <2>4. QED
    BY <2>1, <2>2, <2>3
<1>13. /\ Levels(x.stack) /\ Current_(x.stack) \in 0 .. Address
       /\ x.stack = <<>> => Current_(x.stack) = 0
       /\ ~x.indented => x.stack = <<>>
  <2>1. Levels(x.stack)
    BY DEF LexOK
  <2>2. QED
    BY <2>1, CurrentLevel DEF LexedIn
<1>14. ASSUME s = <<>>, in.stack = x.stack, ~Indented(x, l.ind) \/ l.ind = Current_(x.stack)
       PROVE  StaysAt(x, l, y)
  <2>1. m = 0
    BY <1>8, <1>14, NoneSeq
  <2>2. EndOfLine(r, 0 + 1)
    BY <1>10, <2>1 DEF JoinedLine
  <2>3. Closing(r, 0)
    BY <2>2 DEF Closing
  <2>4. l.ind = Current_(x.stack)
    BY <1>13, <1>14 DEF Indented
  <2>5. QED
    BY ONLY <1>3, <1>4, <1>14, <2>3, <2>4 DEF StaysAt
<1>15. ASSUME Indented(x, l.ind), l.ind > Current_(x.stack),
              s = <<Tok("INDENT", l.ind)>>, in.stack = Append(x.stack, l.ind)
       PROVE  GoesDown(x, l, y)
  <2>1. m = 1 /\ s[1] = Tok("INDENT", l.ind)
    BY <1>8, <1>15, OneSeq
  <2>2. r[1] = s[1] /\ EndOfLine(r, 1 + 1) /\ Len(r) > 1
    BY <1>10, <2>1 DEF JoinedLine
  <2>3. r[1].tok = "INDENT" /\ r[1].data = l.ind
    BY <2>1, <2>2 DEF Tok
  <2>4. 1 + 1 = 2
    OBVIOUS
  <2>5. Opening(r)
    BY ONLY <2>2, <2>3, <2>4 DEF Opening
  <2>6. QED
    BY ONLY <1>3, <1>4, <1>15, <2>3, <2>5 DEF GoesDown
<1>16. ASSUME Closes(x, l.ind, in)
       PROVE  GoesBack(x, l, y)
  <2>1. PICK q, p : q = x.stack /\ p = in.stack
    OBVIOUS
  <2>2. /\ Indented(x, l.ind) /\ l.ind < Current_(q) /\ p = Kept(q, l.ind)
        /\ Len(p) \in 0 .. Len(q) /\ m = Len(q) - Len(p)
        /\ \A i \in DOMAIN s : s[i] = Tok("DEDENT", l.ind)
    BY <1>3, <1>8, <1>16, <2>1 DEF Closes
  <2>3. Levels(q) /\ Levels(p)
    BY <1>5, <1>13, <2>1
  <2>4. DOMAIN p = 1 .. Len(p) /\ \A k \in 1 .. Len(p) : p[k] = q[k] /\ q[k] <= l.ind
    BY <1>2, <2>2, <2>3, KeptIs
  <2>5. \A i \in 1 .. m : r[i].tok = "DEDENT"
    <3>1. Tok("DEDENT", l.ind).tok = "DEDENT"
      BY DEF Tok
    <3>2. \A i \in 1 .. m : r[i] = Tok("DEDENT", l.ind)
      BY <1>10, <1>11, <2>2 DEF JoinedLine
    <3>3. QED
      BY ONLY <3>1, <3>2
  <2>6. Closing(r, m)
    BY <1>10, <2>5 DEF JoinedLine, Closing
  <2>7. m \in 0 .. Len(r)
    <3>1. IsSeq(r)
      BY <1>3, <1>4 DEF LexOK, Tokens
    <3>2. Len(r) \in Nat
      BY <3>1, SeqIs
    <3>3. QED
      BY <1>10, <1>11, <3>2 DEF JoinedLine
  <2>8. ASSUME p # <<>>
        PROVE  l.ind = Current_(p)
    <3>1. Current_(p) = Last(p) /\ Current_(p) = p[Len(p)] /\ Len(p) \in DOMAIN p /\ Current_(p) \in 0 .. Address
      BY <2>3, <2>8, CurrentLevel DEF Current_
    <3>2. ~(Last(p) < l.ind)
      BY <1>1, <2>1, <2>2, <2>8 DEF Broken
    <3>3. Current_(p) <= l.ind
      BY <2>4, <3>1
    <3>4. Address \in Nat
      BY DEF Address
    <3>5. QED
      BY ONLY <1>2, <3>1, <3>2, <3>3, <3>4
  <2>9. QED
    BY ONLY <1>3, <1>4, <2>1, <2>2, <2>4, <2>6, <2>7, <2>8 DEF GoesBack
<1>17. StaysAt(x, l, y) \/ GoesDown(x, l, y) \/ GoesBack(x, l, y)
  BY <1>5, <1>14, <1>15, <1>16
<1>18. r # <<>> /\ (HasStatement(r) <=> IsStatement(l))
  BY <1>7, <1>10 DEF JoinedLine
<1>19. QED
  BY ONLY <1>1, <1>3, <1>4, <1>12, <1>17, <1>18 DEF LineLexed

\* The line read is the one the statement is on.
LEMMA LineLexedIn ==
  ASSUME NEW x, NEW tx, NEW l, NEW y, Lexes(x, tx, l, y), NEW ty, NEW n, Gains(tx, l, ty, n)
  PROVE  LexedIn(y, ty)
<1>1. LineLexed(x, l, y)
  BY LineReads
<1>2. Gained(tx, l, ty, n)
  BY TextLonger
<1>3. LexOK(x) /\ LexedIn(x, tx)
  BY DEF Lexes
<1>4. IsSeq(x.stack) /\ IsSeq(y.toks) /\ Len(y.toks) \in Nat /\ 0 \in 0 .. Len(y.toks)
  <2>1. IsSeq(x.stack) /\ IsSeq(y.toks)
    BY <1>1, <1>3 DEF LineLexed, LexOK, Levels, Tokens
  <2>2. QED
    BY <2>1, SeqIs
<1>5. PICK q, p, r : q = x.stack /\ p = y.stack /\ r = y.toks
  OBVIOUS
<1>6. ~y.indented => p = <<>>
  <2>1. ASSUME ~y.indented
        PROVE  p = <<>>
    <3>1. ~Indented(x, l.ind) /\ ~x.indented
      BY <1>1, <2>1 DEF LineLexed, Indented
    <3>2. q = <<>>
      BY <1>3, <1>5, <3>1 DEF LexedIn
    <3>3. StaysAt(x, l, y)
      BY <1>1, <3>1 DEF LineLexed, GoesDown, GoesBack
    <3>4. QED
      BY <1>5, <3>2, <3>3 DEF StaysAt
  <2>2. QED
    BY <2>1
<1>7. Shaped(r) /\ (p # <<>> => l.ind = Current_(p))
  <2>1. CASE StaysAt(x, l, y)
    <3>1. Closing(r, 0) /\ l.ind = Current_(p)
      BY <1>5, <2>1 DEF StaysAt
    <3>2. QED
      BY <1>4, <1>5, <3>1 DEF Shaped, Pending
  <2>2. CASE GoesDown(x, l, y)
    <3>1. Opening(r) /\ p = Append(q, l.ind)
      BY <1>5, <2>2 DEF GoesDown
    <3>2. IsSeq(p) /\ Len(p) = Len(q) + 1 /\ p[Len(q) + 1] = l.ind
      BY <1>4, <1>5, <3>1, SeqAppended
    <3>3. p # <<>> => Current_(p) = p[Len(p)]
      BY <3>2, SeqFront DEF Current_
    <3>4. p # <<>> => l.ind = Current_(p)
      BY ONLY <3>2, <3>3
    <3>5. QED
      BY <3>1, <3>4 DEF Shaped
  <2>3. CASE GoesBack(x, l, y)
    <3>1. PICK m \in 0 .. Len(r) : Closing(r, m)
      BY <1>5, <2>3 DEF GoesBack
    <3>2. p # <<>> => l.ind = Current_(p)
      BY <1>5, <2>3 DEF GoesBack
    <3>3. QED
      BY <3>1, <3>2 DEF Shaped, Pending
  <2>4. QED
    BY <1>1, <2>1, <2>2, <2>3 DEF LineLexed
<1>8. ty # <<>> /\ Last(ty) = l
  BY <1>2 DEF Gained
<1>9. /\ y.at \in {"fresh", "end"} /\ (y.reading <=> r = <<>>)
      /\ HasStatement(r) => IsStatement(l)
      /\ \A i \in DOMAIN r : r[i].tok = "EOF" => y.at = "end"
  <2>1. y.reading \in BOOLEAN /\ ~y.reading /\ r # <<>>
    BY <1>1, <1>5 DEF LineLexed, LexOK
  <2>2. QED
    BY <1>1, <1>5, <2>1 DEF LineLexed
<1>10. QED
  BY ONLY <1>5, <1>6, <1>7, <1>8, <1>9 DEF LexedIn

\* After the end of the text no statement comes.
LEMMA EndLexedIn ==
  ASSUME NEW x, NEW tx, LexOK(x), LexedIn(x, tx), NEW y, y = ReadsEnd(x)
  PROVE  LexedIn(y, tx) /\ ~Alive(y)
<1>1. 0 \in Mixed .. Address /\ 0 \in 0 .. Address
  BY DEF Mixed, Address
<1>2. PICK in, s, r : in = Indent(x, 0) /\ s = in.toks /\ r = y.toks
  OBVIOUS
<1>3. /\ LexOK(y) /\ ~y.reading /\ y.stack = in.stack /\ y.indented = x.indented
      /\ r = Append(s, Tok("EOF", 0)) /\ y.at = "end"
  BY <1>2, ReadsEndOK
<1>4. /\ Levels(in.stack) /\ Tokens(s)
      /\ \/ s = <<>> /\ in.stack = x.stack
         \/ Indented(x, 0) /\ 0 > Current_(x.stack)
         \/ Indented(x, 0) /\ \A i \in DOMAIN s : s[i] = Tok("DEDENT", 0)
  BY <1>1, <1>2, IndentIs DEF Closes
<1>5. Current_(x.stack) \in 0 .. Address /\ Address \in Nat
  <2>1. Levels(x.stack)
    BY DEF LexOK
  <2>2. Address \in Nat
    BY DEF Address
  <2>3. QED
    BY <2>1, <2>2, CurrentLevel
<1>6. PICK m : m = Len(s)
  OBVIOUS
<1>7. m \in Nat /\ DOMAIN s = 1 .. m /\ (s = <<>> => m = 0)
  BY <1>4, <1>6, SeqIs DEF Tokens
<1>8. /\ IsSeq(r) /\ Len(r) = m + 1 /\ DOMAIN r = 1 .. m + 1 /\ r[m + 1] = Tok("EOF", 0)
      /\ \A i \in 1 .. m : r[i] = s[i]
  BY <1>3, <1>4, <1>6, SeqAppended DEF Tokens
<1>9. Tok("EOF", 0).tok = "EOF" /\ Tok("DEDENT", 0).tok = "DEDENT"
  BY DEF Tok
<1>10. \A i \in 1 .. m : r[i].tok = "DEDENT"
  <2>1. CASE s = <<>>
    BY <1>7, <2>1
  <2>2. CASE \A i \in DOMAIN s : s[i] = Tok("DEDENT", 0)
    BY <1>7, <1>8, <1>9, <2>2
  <2>3. QED
    BY <1>4, <1>5, <2>1, <2>2
<1>11. Closing(r, m) /\ m \in 0 .. Len(r) /\ r # <<>>
  <2>1. EndOfLine(r, m + 1)
    BY <1>8, <1>9 DEF EndOfLine
  <2>2. r # <<>>
    BY <1>7, <1>8, SeqIs
  <2>3. QED
    BY <1>7, <1>8, <1>10, <2>1, <2>2 DEF Closing
<1>12. Shaped(r)
  BY ONLY <1>11 DEF Shaped, Pending
<1>13. \A i \in DOMAIN r : r[i].tok # "STATEMENT"
  <2>1. ASSUME NEW i \in DOMAIN r
        PROVE  r[i].tok # "STATEMENT"
    <3>1. i \in 1 .. m \/ i = m + 1
      BY <1>7, <1>8, <2>1
    <3>2. QED
      BY <1>8, <1>9, <1>10, <3>1
  <2>2. QED
    BY <2>1
<1>14. ~x.indented => x.stack = <<>> /\ in.stack = x.stack
  <2>1. ASSUME ~x.indented
        PROVE  x.stack = <<>> /\ in.stack = x.stack
    <3>1. ~Indented(x, 0)
      BY <2>1 DEF Indented
    <3>2. QED
      BY <1>4, <2>1, <3>1 DEF LexedIn
  <2>2. QED
    BY <2>1
<1>15. y.reading \in BOOLEAN /\ ~HasStatement(r)
  BY <1>3, <1>13 DEF LexOK, HasStatement
<1>16. LexedIn(y, tx)
  BY ONLY <1>2, <1>3, <1>11, <1>12, <1>14, <1>15 DEF LexedIn
<1>17. QED
  BY <1>2, <1>3, <1>15, <1>16 DEF Alive

\* A blank line is passed over.
Passes(x, tx, l, y) == /\ LexOK(x) /\ LexedIn(x, tx) /\ x.toks = <<>>
                       /\ y = [x EXCEPT !.indented = Indented(x, l.ind)]

LEMMA PassedIn ==
  ASSUME NEW x, NEW tx, NEW l, NEW y, Passes(x, tx, l, y), NEW ty
  PROVE  LexedIn(y, ty) /\ y.at = x.at /\ y.stack = x.stack /\ y.toks = <<>>
<1> USE DEF Passes
<1>1. /\ y.at = x.at /\ y.stack = x.stack /\ y.toks = <<>> /\ y.reading = x.reading
      /\ y.indented = Indented(x, l.ind)
  BY DEF LexOK, LexFields
<1>2. \A i : i \notin DOMAIN y.toks
  BY <1>1, NoneSeq
<1>3. Shaped(y.toks) /\ (~y.indented => ~x.indented)
  <2>1. 0 \in 0 .. Len(y.toks)
    BY <1>1, NoneSeq
  <2>2. QED
    BY <1>1, <2>1 DEF Shaped, Pending, Indented
<1>4. QED
  BY <1>1, <1>2, <1>3 DEF LexedIn, HasStatement

-----------------------------------------------------------------------------
(* The blocks while lines are read.                                        *)

\* No token is left.
LEMMA NoneLeft ==
  ASSUME NEW x, x.toks = <<>>
  PROVE  ~HasStatement(x.toks) /\ ~Opening(x.toks) /\ Pending(x.toks, 0) /\ 0 \in 0 .. Len(x.toks)
         /\ \A m \in 0 .. Len(x.toks) : m = 0
<1>1. PICK s : s = x.toks
  OBVIOUS
<1>2. s = <<>> /\ DOMAIN s = {} /\ Len(s) = 0
  BY <1>1, NoneSeq
<1>3. ~HasStatement(s) /\ ~Opening(s) /\ Pending(s, 0)
  BY ONLY <1>2 DEF HasStatement, Opening, Pending
<1>4. 0 \in 0 .. Len(s) /\ \A m \in 0 .. Len(s) : m = 0
  BY ONLY <1>2
<1>5. QED
  BY ONLY <1>1, <1>3, <1>4

LEMMA BlocksBetween ==
  ASSUME NEW x, x.toks = <<>>, NEW tx, NEW t, NEW ss
  PROVE  InBlocks(x, tx, t, ss) <=> Begun(x, tx, t, ss, Len(ss)) /\ Match(x, ss, Len(ss), 0)
<1>1. ~Opening(x.toks) /\ Pending(x.toks, 0) /\ 0 \in 0 .. Len(x.toks) /\ \A m \in 0 .. Len(x.toks) : m = 0
  BY NoneLeft
<1>2. QED
  BY ONLY <1>1 DEF InBlocks

LEMMA BlockBetween ==
  ASSUME NEW x, x.toks = <<>>, NEW tx, NEW t, NEW ss, NEW h, h = HeadAt(t, ss, Len(ss)),
         NEW b, b = Len(ss) - 1
  PROVE  BeforeBlock(x, tx, t, ss) <=> /\ h \in StatementsIn(tx) /\ HasBlock(tx[h])
                                       /\ Begun(x, tx, t, ss, b) /\ NotYet(x, tx, h, ss, b)
<1>1. ~HasStatement(x.toks) /\ ~Opening(x.toks)
  BY NoneLeft
<1>2. ~Missing(x) /\ ~There(x, tx, h, ss, b)
  BY ONLY <1>1 DEF Missing, There
<1>3. QED
  BY <1>2 DEF BeforeBlock

\* The blocks that have begun are still those of their lines.
LEMMA BegunStays ==
  ASSUME NEW x, x.toks = <<>>, NEW tx, NEW l, NEW ty, NEW n, Gains(tx, l, ty, n),
         NEW y, HasStatement(y.toks) \/ ~IsStatement(l),
         NEW t, NEW ss, NEW b, Begun(x, tx, t, ss, b)
  PROVE  Begun(y, ty, t, ss, b)
<1>1. Gained(tx, l, ty, n)
  BY TextLonger
<1>2. ~HasStatement(x.toks)
  BY NoneLeft
<1>3. PICK done : done = ~HasStatement(y.toks)
  OBVIOUS
<1>4. SUFFICES ASSUME NEW i \in 2 .. b
               PROVE  Deeper(ty, done, HeadAt(t, ss, i), ss[i].ind)
  BY ONLY <1>3, <1>4 DEF Begun
<1>5. PICK h, ind : h = HeadAt(t, ss, i) /\ ind = ss[i].ind
  OBVIOUS
<1>6. Deeper(tx, ~HasStatement(x.toks), h, ind)
  BY <1>5 DEF Begun
<1>7. /\ h \in StatementsIn(tx) /\ tx[h].ind < ind
      /\ \A j \in StatementsIn(tx) : h < j => tx[j].ind >= ind
  BY ONLY <1>2, <1>6 DEF Deeper
<1>8. h \in 1 .. n /\ h \in StatementsIn(ty) /\ ty[h] = tx[h]
  BY ONLY <1>1, <1>7 DEF Gained
<1>9. ASSUME NEW j \in StatementsIn(ty), h < j, j < n + 1 \/ done
      PROVE  ty[j].ind >= ind
  <2>1. done => ~IsStatement(l)
    BY <1>3
  <2>2. j # n + 1
    BY ONLY <1>1, <1>9, <2>1 DEF Gained
  <2>3. j \in 1 .. n
    BY ONLY <1>1, <2>2, j \in StatementsIn(ty) DEF Gained
  <2>4. j \in StatementsIn(tx) /\ ty[j] = tx[j]
    BY ONLY <1>1, <2>3, j \in StatementsIn(ty) DEF Gained
  <2>5. QED
    BY <1>7, <1>9, <2>4
<1>10. Len(ty) = n + 1
  BY <1>1 DEF Gained
<1>11. ty[h].ind < ind
  BY <1>7, <1>8
<1>12. Deeper(ty, done, h, ind)
  BY ONLY <1>8, <1>9, <1>10, <1>11 DEF Deeper
<1>13. QED
  BY <1>5, <1>12

\* What is known when line l is read behind the tokens, for the blocks.
LineAt(x, tx, l, y, ty, n) == /\ Lexes(x, tx, l, y) /\ x.toks = <<>>
                              /\ Gains(tx, l, ty, n)

LEMMA BlocksRead ==
  ASSUME NEW x, NEW tx, NEW l, NEW y, NEW ty, NEW n, LineAt(x, tx, l, y, ty, n),
         NEW t, NEW ss, InBlocks(x, tx, t, ss)
  PROVE  InBlocks(y, ty, t, ss)
<1>1. Lexes(x, tx, l, y) /\ Gains(tx, l, ty, n) /\ x.toks = <<>>
  BY DEF LineAt
<1>2. LineLexed(x, l, y)
  BY <1>1, LineReads
<1>3. PICK q, p, r, b : q = x.stack /\ p = y.stack /\ r = y.toks /\ b = Len(ss)
  OBVIOUS
<1>4. Begun(x, tx, t, ss, b) /\ Match(x, ss, b, 0)
  BY <1>1, <1>3, BlocksBetween
<1>5. Begun(y, ty, t, ss, b)
  <2>1. HasStatement(y.toks) \/ ~IsStatement(l)
    BY <1>2 DEF LineLexed
  <2>2. QED
    BY <1>1, <1>4, <2>1, BegunStays
<1>6. Len(q) \in Nat /\ Len(q) + 1 = b /\ \A k \in 1 .. Len(q) : q[k] = ss[k + 1].ind
  <2>1. IsSeq(q)
    BY <1>1, <1>3 DEF Lexes, LexOK, Levels
  <2>2. Len(q) \in Nat
    BY <2>1, SeqIs
  <2>3. Len(q) + 0 + 1 = b /\ \A k \in 1 .. Len(q) : q[k] = ss[k + 1].ind
    BY <1>3, <1>4 DEF Match
  <2>4. QED
    BY <2>2, <2>3
<1>7. CASE StaysAt(x, l, y)
  <2>1. p = q /\ Closing(r, 0)
    BY <1>3, <1>7 DEF StaysAt
  <2>2. Match(y, ss, b, 0)
    BY <1>3, <1>6, <2>1 DEF Match
  <2>3. 0 \in 0 .. Len(r)
    <3>1. IsSeq(r)
      BY <1>2, <1>3 DEF LineLexed, LexOK, Tokens
    <3>2. QED
      BY <3>1, SeqIs
  <2>4. Pending(r, 0)
    BY <2>1 DEF Pending
  <2>5. QED
    BY <1>3, <1>5, <2>2, <2>3, <2>4 DEF InBlocks
<1>8. CASE GoesDown(x, l, y)
  <2>1. Opening(r)
    BY <1>3, <1>8 DEF GoesDown
  <2>2. QED
    BY <1>3, <1>5, <2>1 DEF InBlocks
<1>9. CASE GoesBack(x, l, y)
  <2>1. PICK m : m = Len(q) - Len(p)
    OBVIOUS
  <2>2. /\ Len(p) \in 0 .. Len(q) /\ (\A k \in 1 .. Len(p) : p[k] = q[k])
        /\ m \in 0 .. Len(r) /\ Closing(r, m)
    BY <1>3, <1>9, <2>1 DEF GoesBack
  <2>3. Len(p) + m + 1 = b
    BY <1>6, <2>1, <2>2
  <2>4. \A k \in 1 .. Len(p) : p[k] = ss[k + 1].ind
    <3>1. \A k \in 1 .. Len(p) : k \in 1 .. Len(q)
      BY <1>6, <2>2
    <3>2. QED
      BY <1>6, <2>2, <3>1
  <2>5. Match(y, ss, b, m)
    BY <1>3, <2>3, <2>4 DEF Match
  <2>6. Pending(r, m)
    BY <2>2 DEF Pending
  <2>7. QED
    BY <1>3, <1>5, <2>2, <2>5, <2>6 DEF InBlocks
<1>10. QED
  BY <1>2, <1>7, <1>8, <1>9 DEF LineLexed

\* A comment behind the line of a block is in the block.
LEMMA CommentInside ==
  ASSUME NEW tx, NEW l, NEW ty, NEW n, Gains(tx, l, ty, n), Fits(ty), l.body.kind = "comment",
         NEW h \in StatementsIn(tx), HasBlock(tx[h]), Blank(tx, h + 1, n)
  PROVE  l.ind > tx[h].ind
<1>1. Gained(tx, l, ty, n)
  BY TextLonger
<1>2. h \in 1 .. n /\ n \in Nat /\ ty[h] = tx[h] /\ ty[n + 1] = l
  BY <1>1 DEF Gained
<1>3. PICK v : v = {i \in DOMAIN ty : ty[i].body.kind # "blank"}
  OBVIOUS
<1>4. \A a, b \in v : a < b /\ (\A k \in v : k <= a \/ b <= k) =>
        /\ ty[a].body.kind = "comment" => ty[b].ind = ty[a].ind
        /\ ty[b].body.kind = "comment" /\ HasBlock(ty[a]) => ty[b].ind > ty[a].ind
  <2>1. Fits(ty)
    OBVIOUS
  <2>2. QED
    BY ONLY <1>3, <2>1, Zenon DEF Fits
<1>5. h \in v /\ n + 1 \in v
  <2>1. tx[h].body.kind # "blank"
    BY DEF HasBlock, BlockKinds
  <2>2. h \in DOMAIN ty /\ n + 1 \in DOMAIN ty
    BY <1>1, <1>2 DEF Gained
  <2>3. QED
    BY <1>2, <1>3, <2>1, <2>2
<1>6. ASSUME NEW k \in v
      PROVE  k <= h \/ n + 1 <= k
  <2>1. k \in 1 .. n + 1 /\ ty[k].body.kind # "blank"
    BY <1>1, <1>3 DEF Gained
  <2>2. ~ (k \in h + 1 .. n)
    <3>1. ASSUME k \in h + 1 .. n
          PROVE  FALSE
      <4>1. k \in 1 .. n /\ tx[k].body.kind = "blank"
        BY <1>2, <3>1 DEF Blank
      <4>2. ty[k] = tx[k]
        BY <1>1, <4>1 DEF Gained
      <4>3. QED
        BY <2>1, <4>1, <4>2
    <3>2. QED
      BY <3>1
  <2>3. QED
    BY <1>2, <2>1, <2>2
<1>7. h < n + 1
  BY <1>2
<1>8. QED
  BY <1>2, <1>4, <1>5, <1>6, <1>7

\* The line behind one with a block: a statement that is not deeper, so that the
\* block is missing, the first line of the block, or a line that says nothing.
LEMMA BlockRead ==
  ASSUME NEW x, NEW tx, NEW l, NEW y, NEW ty, NEW n, LineAt(x, tx, l, y, ty, n),
         ~PassesOver(x, l), Fits(ty), NEW t, NEW ss, BeforeBlock(x, tx, t, ss), Alive(y)
  PROVE  BeforeBlock(y, ty, t, ss)
<1>1. Lexes(x, tx, l, y) /\ Gains(tx, l, ty, n) /\ x.toks = <<>>
  BY DEF LineAt
<1>2. LineLexed(x, l, y) /\ Gained(tx, l, ty, n)
  BY <1>1, LineReads, TextLonger
<1>3. PICK q, p, r, b, h : /\ q = x.stack /\ p = y.stack /\ r = y.toks /\ b = Len(ss) - 1
                           /\ h = HeadAt(t, ss, Len(ss))
  OBVIOUS
<1>4. /\ h \in StatementsIn(tx) /\ HasBlock(tx[h]) /\ Begun(x, tx, t, ss, b)
      /\ NotYet(x, tx, h, ss, b)
  BY <1>1, <1>3, BlockBetween
<1>5. h \in 1 .. n /\ h \in StatementsIn(ty) /\ ty[h] = tx[h] /\ n \in Nat /\ Len(tx) = n /\ Len(ty) = n + 1
  BY <1>2, <1>4 DEF Gained
<1>6. /\ Len(q) + 0 + 1 = b /\ (\A k \in 1 .. Len(q) : q[k] = ss[k + 1].ind)
      /\ tx[h].ind = Current_(q) /\ Blank(tx, h + 1, n)
  BY <1>3, <1>4, <1>5 DEF NotYet, Match
<1>7. IsSeq(q) /\ Len(q) \in Nat /\ Len(q) + 1 = b
  <2>1. IsSeq(q)
    BY <1>1, <1>3 DEF Lexes, LexOK, Levels
  <2>2. Len(q) \in Nat
    BY <2>1, SeqIs
  <2>3. QED
    BY <1>6, <2>1, <2>2
<1>8. HasStatement(r) \/ ~IsStatement(l)
  BY <1>2, <1>3 DEF LineLexed
<1>9. Begun(y, ty, t, ss, b)
  BY <1>1, <1>3, <1>4, <1>8, BegunStays
<1>10. SUFFICES Missing(y) \/ NotYet(y, ty, h, ss, b) \/ There(y, ty, h, ss, b)
  BY <1>3, <1>4, <1>5, <1>9 DEF BeforeBlock
<1>11. FirstSays(r) /\ 0 \in 0 .. Len(r)
  <2>1. LexedIn(y, ty)
    BY <1>1, LineLexedIn
  <2>2. FirstSays(r)
    BY <1>2, <1>3, <2>1, FirstToken DEF LineLexed
  <2>3. IsSeq(r)
    BY <1>2, <1>3 DEF LineLexed, LexOK, Tokens
  <2>4. QED
    BY <2>2, <2>3, SeqIs
<1>12. CASE GoesDown(x, l, y)
  <2>1. /\ l.ind > tx[h].ind /\ p = Append(q, l.ind) /\ Opening(r) /\ r[1].data = l.ind
    BY <1>3, <1>6, <1>12 DEF GoesDown
  <2>2. /\ Len(p) = b /\ p[b] = l.ind /\ \A k \in 1 .. b - 1 : p[k] = q[k] /\ k \in 1 .. Len(q)
    <3>1. /\ Len(p) = Len(q) + 1 /\ p[Len(q) + 1] = l.ind
          /\ \A k \in 1 .. Len(q) : p[k] = q[k]
      BY <1>7, <2>1, SeqAppended
    <3>2. b - 1 = Len(q)
      BY <1>7
    <3>3. QED
      BY <1>7, <3>1, <3>2
  <2>3. \A k \in 1 .. b - 1 : p[k] = ss[k + 1].ind
    BY <1>6, <2>2
  <2>4. Blank(ty, h + 1, (n + 1) - 1)
    <3>1. (n + 1) - 1 = n /\ \A i \in h + 1 .. n : i \in 1 .. n
      BY <1>5
    <3>2. QED
      BY <1>2, <1>6, <3>1 DEF Blank, Gained
  <2>5. HasStatement(r) \/ ~IsStatement(Last(ty))
    BY <1>2, <1>8 DEF Gained
  <2>6. p[b] = r[1].data /\ r[1].data > ty[h].ind
    BY <1>5, <2>1, <2>2
  <2>7. There(y, ty, h, ss, b)
    BY ONLY <1>3, <1>5, <2>1, <2>2, <2>3, <2>4, <2>5, <2>6 DEF There
  <2>8. QED
    BY <2>7
<1>13. CASE ~GoesDown(x, l, y)
  <2>1. ~Opening(r)
    <3>1. StaysAt(x, l, y) \/ GoesBack(x, l, y)
      BY <1>2, <1>13 DEF LineLexed
    <3>2. PICK m \in 0 .. Len(r) : Closing(r, m)
      <4>1. CASE StaysAt(x, l, y)
        BY <1>3, <1>11, <4>1 DEF StaysAt
      <4>2. CASE GoesBack(x, l, y)
        BY <1>3, <4>2 DEF GoesBack
      <4>3. QED
        BY <3>1, <4>1, <4>2
    <3>3. Pending(r, m)
      BY <3>2 DEF Pending
    <3>4. QED
      BY <1>11, <3>3 DEF FirstSays
  <2>2. CASE IsStatement(l)
    BY <1>3, <1>8, <2>1, <2>2 DEF Missing
  <2>3. CASE l.body.kind = "comment"
    <3>1. l.ind > Current_(q)
      BY <1>1, <1>4, <1>6, <2>3, CommentInside
    <3>2. Current_(q) \in 0 .. Address /\ Address \in Nat /\ l.ind \in Int
      <4>1. Levels(q)
        BY <1>1, <1>3 DEF Lexes, LexOK
      <4>2. Current_(q) \in 0 .. Address
        BY <4>1, CurrentLevel
      <4>3. Address \in Nat
        BY DEF Address
      <4>4. QED
        BY <1>2, <4>2, <4>3 DEF Gained
    <3>3. ~StaysAt(x, l, y) /\ ~GoesBack(x, l, y)
      <4>1. l.ind # Current_(q) /\ ~(l.ind < Current_(q))
        BY ONLY <3>1, <3>2
      <4>2. QED
        BY ONLY <1>3, <4>1 DEF StaysAt, GoesBack
    <3>4. QED
      BY <1>2, <1>13, <3>3 DEF LineLexed
  <2>4. CASE l.body.kind = "blank"
    <3>1. ~IsStatement(l)
      BY <2>4 DEF IsStatement, SimpleKinds, BlockKinds, StrayKinds
    <3>2. ~HasStatement(r)
      BY <1>2, <1>3, <3>1 DEF LineLexed
    <3>3. l.nl
      <4>1. y.at = "fresh"
        BY <1>3, <3>2 DEF Alive
      <4>2. QED
        BY <1>2, <4>1 DEF LineLexed
    <3>4. ~Indented(x, l.ind)
      <4>1. l.ind # Mixed
        BY <1>1 DEF Lexes, Complains
      <4>2. QED
        BY <2>4, <3>3, <4>1 DEF PassesOver
    <3>5. StaysAt(x, l, y)
      BY <1>2, <3>4 DEF LineLexed, GoesDown, GoesBack
    <3>6. p = q /\ Closing(r, 0)
      BY <1>3, <3>5 DEF StaysAt
    <3>7. Match(y, ss, b, 0)
      BY <1>3, <1>6, <3>6 DEF Match
    <3>8. Blank(ty, h + 1, n + 1)
      <4>1. \A i \in h + 1 .. n + 1 : i = n + 1 \/ (i \in h + 1 .. n /\ i \in 1 .. n)
        BY <1>5
      <4>2. \A i \in h + 1 .. n : ty[i].body.kind = "blank"
        <5>1. \A i \in h + 1 .. n : i \in 1 .. n
          BY <1>5
        <5>2. QED
          BY <1>2, <1>6, <5>1 DEF Blank, Gained
      <4>3. ty[n + 1].body.kind = "blank"
        BY <1>2, <2>4 DEF Gained
      <4>4. QED
        BY <4>1, <4>2, <4>3 DEF Blank
    <3>9. Pending(r, 0)
      BY <3>6 DEF Pending
    <3>10. ty[h].ind = Current_(p)
      BY <1>5, <1>6, <3>6
    <3>11. NotYet(y, ty, h, ss, b)
      BY ONLY <1>3, <1>5, <3>2, <3>7, <3>8, <3>9, <3>10 DEF NotYet
    <3>12. QED
      BY <3>11
  <2>5. TextLine(l) /\ l.body.kind # "bad"
    BY <1>1, <1>2 DEF Lexes, LineLexed
  <2>6. QED
    BY <2>2, <2>3, <2>4, <2>5 DEF TextLine
<1>14. QED
  BY <1>12, <1>13

LEMMA LaidRead ==
  ASSUME NEW x, NEW tx, NEW l, NEW y, NEW ty, NEW n, LineAt(x, tx, l, y, ty, n), x.at = "fresh",
         ~PassesOver(x, l), Fits(ty), NEW t, NEW ss, NEW where, Laid(x, tx, t, ss, where)
  PROVE  Laid(y, ty, t, ss, where)
<1>1. Alive(x)
  BY DEF Alive
<1>2. CASE where = "statement"
  <2>1. InBlocks(x, tx, t, ss)
    BY <1>1, <1>2 DEF Laid
  <2>2. InBlocks(y, ty, t, ss)
    BY <2>1, BlocksRead
  <2>3. QED
    BY <1>2, <2>2 DEF Laid
<1>3. CASE where # "statement"
  <2>1. BeforeBlock(x, tx, t, ss)
    BY <1>1, <1>3 DEF Laid
  <2>2. Alive(y) => BeforeBlock(y, ty, t, ss)
    BY <2>1, BlockRead
  <2>3. QED
    BY <1>3, <2>2 DEF Laid
<1>4. QED
  BY <1>2, <1>3

\* A blank line says nothing.
LEMMA LaidPassed ==
  ASSUME NEW x, NEW tx, NEW l, NEW y, Passes(x, tx, l, y), x.at = "fresh",
         NEW ty, NEW n, Gains(tx, l, ty, n), l.body.kind = "blank",
         NEW t, NEW ss, NEW where, Laid(x, tx, t, ss, where)
  PROVE  Laid(y, ty, t, ss, where)
<1>1. Alive(x) /\ x.toks = <<>> /\ y.toks = <<>> /\ y.stack = x.stack
  BY PassedIn DEF Alive, Passes
<1>2. Gained(tx, l, ty, n)
  BY TextLonger
<1>3. ~IsStatement(l)
  BY DEF IsStatement, SimpleKinds, BlockKinds, StrayKinds
<1>4. \A b : Match(x, ss, b, 0) => Match(y, ss, b, 0)
  BY <1>1 DEF Match
<1>5. \A b : Begun(x, tx, t, ss, b) => Begun(y, ty, t, ss, b)
  <2>1. ASSUME NEW b, Begun(x, tx, t, ss, b)
        PROVE  Begun(y, ty, t, ss, b)
    BY <1>1, <1>3, <2>1, BegunStays
  <2>2. QED
    BY <2>1
<1>6. CASE where = "statement"
  <2>1. InBlocks(x, tx, t, ss)
    BY <1>1, <1>6 DEF Laid
  <2>2. Begun(x, tx, t, ss, Len(ss)) /\ Match(x, ss, Len(ss), 0)
    BY <1>1, <2>1, BlocksBetween
  <2>3. InBlocks(y, ty, t, ss)
    BY <1>1, <1>4, <1>5, <2>2, BlocksBetween
  <2>4. QED
    BY <1>6, <2>3 DEF Laid
<1>7. CASE where # "statement"
  <2>1. PICK h, b : h = HeadAt(t, ss, Len(ss)) /\ b = Len(ss) - 1
    OBVIOUS
  <2>2. BeforeBlock(x, tx, t, ss)
    BY <1>1, <1>7 DEF Laid
  <2>3. /\ h \in StatementsIn(tx) /\ HasBlock(tx[h]) /\ Begun(x, tx, t, ss, b)
        /\ NotYet(x, tx, h, ss, b)
    BY <1>1, <2>1, <2>2, BlockBetween
  <2>4. h \in 1 .. n /\ h \in StatementsIn(ty) /\ ty[h] = tx[h] /\ n \in Nat /\ Len(tx) = n /\ Len(ty) = n + 1
    BY <1>2, <2>3 DEF Gained
  <2>5. Match(x, ss, b, 0) /\ tx[h].ind = Current_(x.stack) /\ Blank(tx, h + 1, n)
    BY <2>3, <2>4 DEF NotYet
  <2>6. Blank(ty, h + 1, n + 1)
    <3>1. \A i \in h + 1 .. n + 1 : i = n + 1 \/ (i \in h + 1 .. n /\ i \in 1 .. n)
      BY <2>4
    <3>2. \A i \in h + 1 .. n : ty[i].body.kind = "blank"
      <4>1. \A i \in h + 1 .. n : i \in 1 .. n
        BY <2>4
      <4>2. QED
        BY <1>2, <2>5, <4>1 DEF Blank, Gained
    <3>3. ty[n + 1].body.kind = "blank"
      BY <1>2 DEF Gained
    <3>4. QED
      BY <3>1, <3>2, <3>3 DEF Blank
  <2>7. ~HasStatement(y.toks) /\ Pending(y.toks, 0)
    BY <1>1, NoneLeft
  <2>8. Match(y, ss, b, 0)
    BY <1>4, <2>5
  <2>9. ty[h].ind = Current_(y.stack)
    BY <1>1, <2>4, <2>5
  <2>10. NotYet(y, ty, h, ss, b)
    BY ONLY <2>4, <2>6, <2>7, <2>8, <2>9 DEF NotYet
  <2>11. BeforeBlock(y, ty, t, ss)
    BY <1>1, <1>5, <2>1, <2>3, <2>4, <2>10, BlockBetween
  <2>12. QED
    BY <1>7, <2>11 DEF Laid
<1>8. QED
  BY <1>6, <1>7

-----------------------------------------------------------------------------
(* The blocks while tokens are taken.                                      *)

\* Scopes of the same lines and indentations, up to the b-th one.
Like(t, ss, u, rr, b) == \A i \in 2 .. b : HeadAt(u, rr, i) = HeadAt(t, ss, i) /\ rr[i].ind = ss[i].ind

LEMMA BegunAgain ==
  ASSUME NEW x, NEW tx, NEW t, NEW ss, NEW b, Begun(x, tx, t, ss, b),
         NEW y, HasStatement(y.toks) <=> HasStatement(x.toks),
         NEW u, NEW rr, Like(t, ss, u, rr, b)
  PROVE  Begun(y, tx, u, rr, b)
<1>1. PICK v, w \in BOOLEAN : v = (~HasStatement(x.toks)) /\ w = (~HasStatement(y.toks))
  OBVIOUS
<1>2. v = w
  BY <1>1
<1>3. \A i \in 2 .. b : Deeper(tx, v, HeadAt(t, ss, i), ss[i].ind)
  BY <1>1 DEF Begun
<1>4. \A i \in 2 .. b : Deeper(tx, w, HeadAt(u, rr, i), rr[i].ind)
  BY <1>2, <1>3 DEF Like
<1>5. QED
  BY <1>1, <1>4 DEF Begun

LEMMA LikeSelf ==
  ASSUME NEW t, NEW ss, NEW b
  PROVE  Like(t, ss, t, ss, b)
BY DEF Like

\* The line that ended is forgotten.
LEMMA LaidCalled ==
  ASSUME NEW x, NEW tx, LexOK(x), LexedIn(x, tx), x.toks # <<>>, x.toks[1].tok = "EOL",
         NEW y, y = Call(x), NEW t, NEW ss, NEW where, Laid(x, tx, t, ss, where)
  PROVE  Laid(y, tx, t, ss, where)
<1>1. y.at = x.at /\ y.stack = x.stack /\ y.toks = <<>>
  BY CalledFor
<1>2. ~HasStatement(y.toks) /\ Pending(y.toks, 0) /\ 0 \in 0 .. Len(y.toks)
  BY <1>1, NoneLeft
<1>3. FirstSays(x.toks)
  BY FirstToken
<1>4. /\ ~HasStatement(x.toks) /\ ~Opening(x.toks)
      /\ \A m \in 0 .. Len(x.toks) : Pending(x.toks, m) => m = 0
  BY <1>3 DEF FirstSays
<1>5. \A b, m : Match(x, ss, b, m) => Match(y, ss, b, m)
  BY <1>1 DEF Match
<1>6. \A b : Begun(x, tx, t, ss, b) => Begun(y, tx, t, ss, b)
  <2>1. ASSUME NEW b, Begun(x, tx, t, ss, b)
        PROVE  Begun(y, tx, t, ss, b)
    BY <1>2, <1>4, <2>1, BegunAgain, LikeSelf
  <2>2. QED
    BY <2>1
<1>7. SUFFICES ASSUME Alive(y)
               PROVE  IF where = "statement" THEN InBlocks(y, tx, t, ss) ELSE BeforeBlock(y, tx, t, ss)
  BY DEF Laid
<1>8. Alive(x)
  BY <1>1, <1>2, <1>7 DEF Alive
<1>9. CASE where = "statement"
  <2>1. InBlocks(x, tx, t, ss)
    BY <1>8, <1>9 DEF Laid
  <2>2. Begun(x, tx, t, ss, Len(ss)) /\ \E m \in 0 .. Len(x.toks) : Pending(x.toks, m) /\ Match(x, ss, Len(ss), m)
    BY ONLY <1>4, <2>1 DEF InBlocks
  <2>3. Match(x, ss, Len(ss), 0)
    BY <1>4, <2>2
  <2>4. Begun(y, tx, t, ss, Len(ss)) /\ Match(y, ss, Len(ss), 0)
    BY ONLY <1>5, <1>6, <2>2, <2>3
  <2>5. InBlocks(y, tx, t, ss)
    BY ONLY <1>2, <2>4 DEF InBlocks
  <2>6. QED
    BY ONLY <1>9, <2>5
<1>10. CASE where # "statement"
  <2>1. PICK h, b : h = HeadAt(t, ss, Len(ss)) /\ b = Len(ss) - 1
    OBVIOUS
  <2>2. BeforeBlock(x, tx, t, ss)
    BY <1>8, <1>10 DEF Laid
  <2>3. /\ h \in StatementsIn(tx) /\ HasBlock(tx[h]) /\ Begun(x, tx, t, ss, b)
        /\ Missing(x) \/ NotYet(x, tx, h, ss, b) \/ There(x, tx, h, ss, b)
    BY ONLY <2>1, <2>2 DEF BeforeBlock
  <2>4. ~Missing(x) /\ ~There(x, tx, h, ss, b)
    BY ONLY <1>4 DEF Missing, There
  <2>5. Match(x, ss, b, 0) /\ tx[h].ind = Current_(x.stack) /\ Blank(tx, h + 1, Len(tx))
    BY ONLY <2>3, <2>4 DEF NotYet
  <2>6. NotYet(y, tx, h, ss, b)
    BY ONLY <1>1, <1>2, <1>5, <2>5 DEF NotYet
  <2>7. Begun(y, tx, t, ss, b)
    BY ONLY <1>6, <2>3
  <2>8. BeforeBlock(y, tx, t, ss)
    BY ONLY <2>1, <2>3, <2>6, <2>7 DEF BeforeBlock
  <2>9. QED
    BY ONLY <1>10, <2>8
<1>11. QED
  BY <1>9, <1>10

\* A block that is missing has the end of others before the next statement.
LEMMA LaidAwaited ==
  ASSUME NEW x, NEW tx, NEW y, TakenFrom(x, tx, 1, y), x.toks[1].tok = "DEDENT",
         NEW t, NEW ss, NEW where, where # "statement", Laid(x, tx, t, ss, where)
  PROVE  Laid(y, tx, t, ss, where)
<1>1. TakenTo(x, tx, 1, y)
  BY TokensGo
<1>2. /\ y.at = x.at /\ FirstSays(x.toks) /\ Shaped(y.toks)
      /\ HasStatement(y.toks) <=> HasStatement(x.toks)
  BY <1>1 DEF TakenTo, Gone, LexedIn
<1>3. PICK h, b : h = HeadAt(t, ss, Len(ss)) /\ b = Len(ss) - 1
  OBVIOUS
<1>4. ~Opening(x.toks) /\ ~Pending(x.toks, 0)
  <2>1. 0 \in 0 .. Len(x.toks) /\ 0 \notin 1 .. Len(x.toks)
    <3>1. IsSeq(x.toks)
      BY DEF TakenFrom, LexOK, Tokens
    <3>2. QED
      BY <3>1, SeqIs
  <2>2. QED
    BY <1>2, <2>1 DEF FirstSays
<1>5. ~Opening(y.toks)
  <2>1. PICK m \in 1 .. Len(x.toks) : Closing(x.toks, m)
    <3>1. Shaped(x.toks)
      BY DEF TakenFrom, LexedIn
    <3>2. PICK m \in 0 .. Len(x.toks) : Pending(x.toks, m)
      BY ONLY <1>4, <3>1 DEF Shaped
    <3>3. m \in 1 .. Len(x.toks) /\ Closing(x.toks, m)
      BY <1>2, <3>2 DEF FirstSays
    <3>4. QED
      BY <3>3
  <2>2. m - 1 \in 0 .. Len(y.toks) /\ Pending(y.toks, m - 1)
    BY <1>1, <2>1 DEF TakenTo, Gone
  <2>3. CASE y.toks = <<>>
    BY <2>3, NoneLeft
  <2>4. CASE y.toks # <<>>
    <3>1. FirstSays(y.toks)
      BY <1>1, <2>4, FirstToken DEF TakenTo
    <3>2. QED
      BY <2>2, <3>1 DEF FirstSays
  <2>5. QED
    BY <2>3, <2>4
<1>6. SUFFICES ASSUME Alive(y)
               PROVE  BeforeBlock(y, tx, t, ss)
  BY DEF Laid
<1>7. BeforeBlock(x, tx, t, ss)
  BY <1>2, <1>6 DEF Laid, Alive
<1>8. /\ h \in StatementsIn(tx) /\ HasBlock(tx[h]) /\ Begun(x, tx, t, ss, b)
      /\ Missing(x) \/ NotYet(x, tx, h, ss, b) \/ There(x, tx, h, ss, b)
  BY ONLY <1>3, <1>7 DEF BeforeBlock
<1>9. Missing(x)
  BY ONLY <1>4, <1>8 DEF NotYet, There
<1>10. Missing(y)
  BY ONLY <1>2, <1>5, <1>9 DEF Missing
<1>11. Begun(y, tx, t, ss, b)
  BY <1>2, <1>8, BegunAgain, LikeSelf
<1>12. QED
  BY ONLY <1>3, <1>8, <1>10, <1>11 DEF BeforeBlock

LEMMA BlankSays ==
  ASSUME NEW tx, NEW m, NEW n, Blank(tx, m, n), NEW j \in StatementsIn(tx)
  PROVE  j \notin m .. n
<1>1. IsStatement(tx[j])
  BY DEF StatementsIn
<1>2. tx[j].body.kind # "blank"
  BY ONLY <1>1 DEF IsStatement, SimpleKinds, BlockKinds, StrayKinds
<1>3. QED
  BY <1>2 DEF Blank

\* The current scope has the indentation of the line that begins its block.
BegunBy(ss, rr, b, d) ==
  /\ b \in Nat /\ b > 1 /\ Len(ss) = b /\ Len(rr) = b /\ rr[b].ind = d
  /\ \A i \in 1 .. b : rr[i].node = ss[i].node
  /\ \A i \in 1 .. b : i # b => rr[i].ind = ss[i].ind

\* A block begins.
LEMMA LaidBegins ==
  ASSUME NEW x, NEW tx, Written(tx), NEW y, TakenFrom(x, tx, 1, y), x.toks[1].tok = "INDENT",
         NEW t, NEW ss, NEW rr, NEW b, BegunBy(ss, rr, b, x.toks[1].data), Laid(x, tx, t, ss, "indent")
  PROVE  Laid(y, tx, t, rr, "statement")
<1>1. TakenTo(x, tx, 1, y)
  BY TokensGo
<1>2. /\ y.at = x.at /\ y.stack = x.stack /\ FirstSays(x.toks) /\ Pending(y.toks, 0)
      /\ HasStatement(y.toks) <=> HasStatement(x.toks)
  BY <1>1 DEF TakenTo, Gone
<1>3. PICK h, c, d : h = HeadAt(t, ss, b) /\ c = b - 1 /\ d = x.toks[1].data
  OBVIOUS
<1>4. SUFFICES ASSUME Alive(y)
               PROVE  InBlocks(y, tx, t, rr)
  BY DEF Laid
<1>5. Alive(x) /\ Len(ss) = b /\ Len(rr) = b /\ b \in Nat /\ b > 1 /\ c \in Nat /\ b = c + 1
  BY <1>2, <1>3, <1>4 DEF Alive, BegunBy
<1>6. BeforeBlock(x, tx, t, ss)
  BY <1>5 DEF Laid
<1>7. /\ h \in StatementsIn(tx) /\ HasBlock(tx[h]) /\ Begun(x, tx, t, ss, c)
      /\ Missing(x) \/ NotYet(x, tx, h, ss, c) \/ There(x, tx, h, ss, c)
  BY ONLY <1>3, <1>5, <1>6 DEF BeforeBlock
<1>8. ~Missing(x) /\ ~NotYet(x, tx, h, ss, c)
  <2>1. Opening(x.toks)
    BY <1>2 DEF FirstSays
  <2>2. ~Pending(x.toks, 0)
    <3>1. IsSeq(x.toks)
      BY DEF TakenFrom, LexOK, Tokens
    <3>2. 0 \in 0 .. Len(x.toks)
      BY <3>1, SeqIs
    <3>3. QED
      BY <1>2, <3>2 DEF FirstSays
  <2>3. QED
    BY ONLY <2>1, <2>2 DEF Missing, NotYet
<1>9. There(x, tx, h, ss, c)
  BY <1>7, <1>8
<1>10. /\ Len(x.stack) = c /\ \A k \in 1 .. c - 1 : x.stack[k] = ss[k + 1].ind
       /\ x.stack[c] = d /\ d > tx[h].ind
       /\ Blank(tx, h + 1, Len(tx) - 1) /\ (HasStatement(x.toks) \/ ~IsStatement(Last(tx)))
  BY ONLY <1>3, <1>9 DEF There
<1>11. rr[b].ind = d /\ \A i \in 1 .. b : rr[i].node = ss[i].node /\ (i # b => rr[i].ind = ss[i].ind)
  BY <1>3 DEF BegunBy
<1>12. Begun(y, tx, t, rr, c)
  <2>1. Like(t, ss, t, rr, c)
    <3>1. \A i \in 2 .. c : i \in 1 .. b /\ i # b
      BY ONLY <1>5
    <3>2. QED
      BY ONLY <1>11, <3>1 DEF Like, HeadAt
  <2>2. QED
    BY <1>2, <1>7, <2>1, BegunAgain
<1>13. Deeper(tx, ~HasStatement(y.toks), h, d)
  <2>1. /\ Len(tx) \in Nat /\ StatementsIn(tx) \subseteq 1 .. Len(tx)
        /\ \A j \in 1 .. Len(tx) : tx[j].ind \in Int
    BY TextIs
  <2>2. tx[h].ind < d
    <3>1. d \in Int
      <4>1. 1 \in DOMAIN x.toks /\ \A i \in DOMAIN x.toks : AToken(x.toks[i])
        <5>1. IsSeq(x.toks) /\ \A i \in DOMAIN x.toks : AToken(x.toks[i])
          BY DEF TakenFrom, LexOK, Tokens
        <5>2. 1 \in 1 .. Len(x.toks)
          BY DEF TakenFrom
        <5>3. QED
          BY <5>1, <5>2, SeqIs
      <4>2. Address \in Nat
        BY DEF Address
      <4>3. QED
        BY <1>3, <4>1, <4>2 DEF AToken
    <3>2. QED
      BY ONLY <1>7, <1>10, <2>1, <3>1
  <2>3. ASSUME NEW j \in StatementsIn(tx), h < j, j < Len(tx) \/ ~HasStatement(y.toks)
        PROVE  tx[j].ind >= d
    <3>1. j \notin h + 1 .. Len(tx) - 1
      BY ONLY <1>10, j \in StatementsIn(tx), BlankSays
    <3>2. j = Len(tx) /\ h \in 1 .. Len(tx)
      BY <1>7, <2>1, <2>3, <3>1
    <3>3. ~HasStatement(x.toks)
      BY <1>2, <2>1, <2>3, <3>2
    <3>4. tx # <<>>
      <4>1. IsSeq(tx)
        BY DEF Written
      <4>2. QED
        BY <2>1, <3>2, <4>1, SeqIs
    <3>5. Last(tx) = tx[j]
      BY <3>2, <3>4, LastLine
    <3>6. IsStatement(tx[j])
      BY DEF StatementsIn
    <3>7. QED
      BY ONLY <1>10, <3>3, <3>5, <3>6
  <2>4. QED
    BY ONLY <1>7, <2>2, <2>3 DEF Deeper
<1>14. Begun(y, tx, t, rr, b)
  <2>1. HeadAt(t, rr, b) = h /\ rr[b].ind = d
    <3>1. b \in 1 .. b
      BY ONLY <1>5
    <3>2. QED
      BY ONLY <1>3, <1>11, <3>1 DEF HeadAt
  <2>2. \A i \in 2 .. b : i \in 2 .. c \/ i = b
    BY ONLY <1>5
  <2>3. QED
    BY ONLY <1>12, <1>13, <2>1, <2>2 DEF Begun
<1>15. Match(y, rr, b, 0)
  <2>1. ASSUME NEW k \in 1 .. c
        PROVE  x.stack[k] = rr[k + 1].ind
    <3>1. CASE k = c
      BY ONLY <1>5, <1>10, <1>11, <3>1
    <3>2. CASE k # c
      <4>1. k \in 1 .. c - 1 /\ k + 1 \in 1 .. b /\ k + 1 # b
        BY <1>5, <3>2
      <4>2. QED
        BY ONLY <1>10, <1>11, <4>1
    <3>3. QED
      BY <3>1, <3>2
  <2>2. c + 0 + 1 = b
    BY ONLY <1>5
  <2>3. QED
    BY ONLY <1>2, <1>10, <2>1, <2>2 DEF Match
<1>16. 0 \in 0 .. Len(y.toks)
  <2>1. IsSeq(y.toks)
    BY <1>1 DEF TakenTo, LexOK, Tokens
  <2>2. QED
    BY <2>1, SeqIs
<1>17. QED
  BY ONLY <1>2, <1>5, <1>14, <1>15, <1>16 DEF InBlocks

\* The innermost scope is closed.
ScopeLess(t, ss, u, rr, b) == /\ b \in Nat /\ b > 1 /\ Len(ss) = b /\ Len(rr) = b - 1 /\ u.nodes = t.nodes
                           /\ \A i \in 1 .. b - 1 : rr[i] = ss[i]

\* A block ends.
LEMMA LaidEnds ==
  ASSUME NEW x, NEW tx, NEW y, TakenFrom(x, tx, 1, y), x.toks[1].tok \in {"DEDENT", "EOF"},
         NEW t, NEW ss, NEW u, NEW rr, NEW b, ScopeLess(t, ss, u, rr, b), Laid(x, tx, t, ss, "statement")
  PROVE  Laid(y, tx, u, rr, "statement")
<1>1. TakenTo(x, tx, 1, y)
  BY TokensGo
<1>2. SUFFICES ASSUME Alive(y)
               PROVE  InBlocks(y, tx, u, rr)
  BY DEF Laid
<1>3. 1 \in DOMAIN x.toks /\ IsSeq(x.toks)
  <2>1. IsSeq(x.toks) /\ 1 \in 1 .. Len(x.toks)
    BY DEF TakenFrom, LexOK, Tokens
  <2>2. QED
    BY <2>1, SeqIs
<1>4. x.toks[1].tok = "DEDENT"
  <2>1. CASE x.toks[1].tok = "EOF"
    <3>1. LexedIn(x, tx)
      BY DEF TakenFrom
    <3>2. x.at = "end"
      BY ONLY <1>3, <2>1, <3>1 DEF LexedIn
    <3>3. y.at = "end" /\ ~HasStatement(y.toks)
      BY <1>1, <2>1, <3>2 DEF TakenTo, Gone
    <3>4. QED
      BY ONLY <1>2, <3>3 DEF Alive
  <2>2. QED
    BY <2>1
<1>5. /\ y.at = x.at /\ y.stack = x.stack /\ FirstSays(x.toks) /\ LexOK(y)
      /\ HasStatement(y.toks) <=> HasStatement(x.toks)
      /\ \A m \in 1 .. Len(x.toks) : Closing(x.toks, m) => m - 1 \in 0 .. Len(y.toks) /\ Pending(y.toks, m - 1)
  BY <1>1, <1>4 DEF TakenTo, Gone
<1>6. Alive(x)
  BY <1>2, <1>5 DEF Alive
<1>7. InBlocks(x, tx, t, ss)
  BY <1>6 DEF Laid
<1>8. ~Opening(x.toks)
  BY <1>4, <1>5 DEF FirstSays
<1>9. PICK c : c = b - 1
  OBVIOUS
<1>10. /\ b \in Nat /\ b > 1 /\ Len(ss) = b /\ Len(rr) = c /\ c \in Nat /\ b = c + 1 /\ u.nodes = t.nodes
       /\ \A i \in 1 .. c : rr[i] = ss[i]
  BY <1>9 DEF ScopeLess
<1>11. PICK m \in 0 .. Len(x.toks) : Pending(x.toks, m) /\ Match(x, ss, b, m)
  BY ONLY <1>7, <1>8, <1>10 DEF InBlocks
<1>12. m \in 1 .. Len(x.toks) /\ Closing(x.toks, m)
  BY <1>4, <1>5, <1>11 DEF FirstSays
<1>13. m - 1 \in 0 .. Len(y.toks) /\ Pending(y.toks, m - 1) /\ m \in Nat /\ m > 0
  BY <1>5, <1>12
<1>14. PICK k : k = Len(x.stack)
  OBVIOUS
<1>15. k \in Nat
  <2>1. IsSeq(y.stack)
    BY <1>5 DEF LexOK, Levels
  <2>2. QED
    BY <1>5, <1>14, <2>1, SeqIs
<1>16. k + m + 1 = b /\ \A i \in 1 .. k : x.stack[i] = ss[i + 1].ind
  BY ONLY <1>11, <1>14 DEF Match
<1>17. k + (m - 1) + 1 = c /\ \A i \in 1 .. k : i + 1 \in 1 .. c
  BY <1>10, <1>13, <1>15, <1>16
<1>18. Match(y, rr, c, m - 1)
  BY ONLY <1>5, <1>10, <1>14, <1>16, <1>17 DEF Match
<1>19. Begun(y, tx, u, rr, c)
  <2>1. Begun(x, tx, t, ss, c)
    <3>1. Begun(x, tx, t, ss, b)
      BY ONLY <1>7, <1>10 DEF InBlocks
    <3>2. \A i \in 2 .. c : i \in 2 .. b
      BY ONLY <1>10
    <3>3. QED
      BY ONLY <3>1, <3>2 DEF Begun
  <2>2. Like(t, ss, u, rr, c)
    <3>1. \A i \in 2 .. c : i \in 1 .. c
      BY ONLY <1>10
    <3>2. QED
      BY ONLY <1>10, <3>1 DEF Like, HeadAt
  <2>3. QED
    BY <1>5, <2>1, <2>2, BegunAgain
<1>20. QED
  BY ONLY <1>10, <1>13, <1>18, <1>19 DEF InBlocks

\* A statement is seen; the scopes that have begun, b of them with the module's, are
\* those of its line.
StatementIn(x, tx, t, ss, b) == /\ Written(tx) /\ LexOK(x) /\ LexedIn(x, tx) /\ x.toks # <<>>
                                /\ x.toks[1].tok = "STATEMENT"
                                /\ InBlocks(x, tx, t, ss) /\ b \in Nat /\ Len(ss) = b

BegunAll(tx, t, ss, b) == \A i \in 2 .. b : Deeper(tx, TRUE, HeadAt(t, ss, i), ss[i].ind)

LEMMA BlocksOfLine ==
  ASSUME NEW x, NEW tx, NEW t, NEW ss, NEW b, StatementIn(x, tx, t, ss, b)
  PROVE  /\ BegunAll(tx, t, ss, b) /\ Match(x, ss, b, 0)
         /\ Len(tx) \in StatementsIn(tx) /\ Last(tx) = tx[Len(tx)]
         /\ x.stack # <<>> => tx[Len(tx)].ind = Current_(x.stack)
<1> USE DEF StatementIn
<1>1. FirstSays(x.toks)
  BY FirstToken
<1>2. /\ HasStatement(x.toks) /\ ~Opening(x.toks)
      /\ \A m \in 0 .. Len(x.toks) : Pending(x.toks, m) => m = 0
  <2>1. x.toks[1].tok = "STATEMENT"
    OBVIOUS
  <2>2. QED
    BY ONLY <1>1, <2>1 DEF FirstSays
<1>3. b \in Nat /\ Len(ss) = b /\ Begun(x, tx, t, ss, b) /\ Match(x, ss, b, 0)
  <2>1. InBlocks(x, tx, t, ss) /\ b \in Nat /\ Len(ss) = b
    OBVIOUS
  <2>2. PICK m \in 0 .. Len(x.toks) : Pending(x.toks, m) /\ Match(x, ss, b, m)
    BY ONLY <1>2, <2>1 DEF InBlocks
  <2>3. m = 0
    BY ONLY <1>2, <2>2
  <2>4. Begun(x, tx, t, ss, b)
    BY ONLY <2>1 DEF InBlocks
  <2>5. QED
    BY ONLY <2>1, <2>2, <2>3, <2>4
<1>4. /\ tx # <<>> /\ IsStatement(Last(tx))
      /\ x.stack # <<>> => Last(tx).ind = Current_(x.stack)
  <2>1. LexedIn(x, tx)
    OBVIOUS
  <2>2. QED
    BY ONLY <1>2, <2>1 DEF LexedIn
<1>5. Last(tx) = tx[Len(tx)] /\ Len(tx) \in DOMAIN tx /\ Len(tx) \in Nat
  BY <1>4, LastLine
<1>6. Len(tx) \in StatementsIn(tx)
  BY ONLY <1>4, <1>5 DEF StatementsIn
<1>7. PICK q, k : q = x.stack /\ k = Len(q)
  OBVIOUS
<1>8. Levels(q) /\ k \in Nat /\ DOMAIN q = 1 .. k
  <2>1. Levels(q) /\ IsSeq(q)
    BY <1>7 DEF LexOK, Levels
  <2>2. QED
    BY <1>7, <2>1, SeqIs
<1>9. k + 0 + 1 = b /\ \A i \in 1 .. k : q[i] = ss[i + 1].ind
  BY ONLY <1>3, <1>7 DEF Match
<1>10. ASSUME NEW i \in 2 .. b
       PROVE  Deeper(tx, TRUE, HeadAt(t, ss, i), ss[i].ind)
  <2>1. PICK h, d : h = HeadAt(t, ss, i) /\ d = ss[i].ind
    OBVIOUS
  <2>2. Deeper(tx, ~HasStatement(x.toks), h, d)
    BY ONLY <1>3, <2>1, i \in 2 .. b DEF Begun
  <2>3. /\ h \in StatementsIn(tx) /\ tx[h].ind < d
        /\ \A j \in StatementsIn(tx) : h < j /\ j < Len(tx) => tx[j].ind >= d
    BY ONLY <1>2, <2>2 DEF Deeper
  <2>4. i - 1 \in 1 .. k /\ (i - 1) + 1 = i
    BY <1>3, <1>8, <1>9
  <2>5. q[i - 1] = d
    <3>1. q[i - 1] = ss[(i - 1) + 1].ind
      BY ONLY <1>9, <2>4
    <3>2. QED
      BY ONLY <2>1, <2>4, <3>1
  <2>6. q # <<>> /\ q[i - 1] <= Current_(q)
    <3>1. q # <<>>
      BY <1>7, <1>8, <2>4, SeqIs DEF Levels
    <3>2. QED
      BY ONLY <1>8, <2>4, <3>1, CurrentLevel
  <2>7. tx[Len(tx)].ind >= d
    <3>1. tx[Len(tx)].ind = Current_(q)
      BY ONLY <1>4, <1>5, <1>7, <2>6
    <3>2. q[i - 1] \in Int /\ Current_(q) \in Int
      <4>1. Address \in Nat
        BY DEF Address
      <4>2. q[i - 1] \in 1 .. Address
        BY ONLY <1>8, <2>4 DEF Levels
      <4>3. Current_(q) \in 0 .. Address
        BY ONLY <1>8, CurrentLevel
      <4>4. QED
        BY ONLY <4>1, <4>2, <4>3
    <3>3. QED
      BY ONLY <2>5, <2>6, <3>1, <3>2
  <2>8. ASSUME NEW j \in StatementsIn(tx), h < j
        PROVE  tx[j].ind >= d
    <3>1. j \in 1 .. Len(tx)
      <4>1. StatementsIn(tx) \subseteq 1 .. Len(tx)
        BY TextIs
      <4>2. QED
        BY <4>1
    <3>2. CASE j = Len(tx)
      BY ONLY <2>7, <3>2
    <3>3. CASE j # Len(tx)
      <4>1. j < Len(tx)
        BY ONLY <1>5, <3>1, <3>3
      <4>2. QED
        BY ONLY <2>3, <2>8, j \in StatementsIn(tx), <4>1
    <3>4. QED
      BY ONLY <3>2, <3>3
  <2>9. Deeper(tx, TRUE, h, d)
    BY ONLY <2>3, <2>8 DEF Deeper
  <2>10. QED
    BY ONLY <2>1, <2>9
<1>11. BegunAll(tx, t, ss, b)
  BY ONLY <1>10 DEF BegunAll
<1>12. QED
  BY ONLY <1>3, <1>4, <1>5, <1>6, <1>11

LEMMA BegunOn ==
  ASSUME NEW tx, NEW t, NEW ss, NEW b, BegunAll(tx, t, ss, b), NEW u, NEW rr, Like(t, ss, u, rr, b),
         NEW y, ~HasStatement(y.toks)
  PROVE  Begun(y, tx, u, rr, b)
<1>1. \A i \in 2 .. b : Deeper(tx, TRUE, HeadAt(u, rr, i), rr[i].ind)
  BY DEF BegunAll, Like
<1>2. (~HasStatement(y.toks)) = TRUE
  OBVIOUS
<1>3. QED
  BY ONLY <1>1, <1>2 DEF Begun

LEMMA MatchAgain ==
  ASSUME NEW x, LexOK(x), NEW t, NEW ss, NEW b \in Nat, Match(x, ss, b, 0), NEW u, NEW rr,
         Like(t, ss, u, rr, b), NEW y, y.stack = x.stack
  PROVE  Match(y, rr, b, 0)
<1>1. PICK k : k = Len(x.stack)
  OBVIOUS
<1>2. k \in Nat
  <2>1. IsSeq(x.stack)
    BY DEF LexOK, Levels
  <2>2. QED
    BY <1>1, <2>1, SeqIs
<1>3. k + 0 + 1 = b /\ \A i \in 1 .. k : x.stack[i] = ss[i + 1].ind
  BY <1>1 DEF Match
<1>4. \A i \in 1 .. k : i + 1 \in 2 .. b
  BY ONLY <1>2, <1>3
<1>5. \A i \in 2 .. b : rr[i].ind = ss[i].ind
  BY DEF Like
<1>6. \A i \in 1 .. k : y.stack[i] = rr[i + 1].ind
  BY <1>3, <1>4, <1>5
<1>7. Len(y.stack) + 0 + 1 = b
  BY <1>1, <1>3
<1>8. QED
  BY <1>1, <1>6, <1>7 DEF Match

\* The line of a statement is done.
LEMMA LaidAdds ==
  ASSUME NEW x, NEW tx, Written(tx), NEW n, NEW y, TakenFrom(x, tx, n, y), x.toks[1].tok = "STATEMENT",
         NEW t, NEW ss, NEW u, NEW rr, NEW b \in Nat, Len(ss) = b, Len(rr) = b, Like(t, ss, u, rr, b),
         Laid(x, tx, t, ss, "statement")
  PROVE  Laid(y, tx, u, rr, "statement")
<1>1. TakenTo(x, tx, n, y)
  BY TokensGo
<1>2. /\ y.at = x.at /\ y.stack = x.stack /\ FirstSays(x.toks) /\ LexOK(y)
      /\ Pending(y.toks, 0) /\ ~HasStatement(y.toks)
  BY <1>1 DEF TakenTo, Gone
<1>3. HasStatement(x.toks)
  BY <1>2 DEF FirstSays
<1>4. InBlocks(x, tx, t, ss)
  BY <1>3 DEF Laid, Alive
<1>5. StatementIn(x, tx, t, ss, b)
  BY <1>4 DEF StatementIn, TakenFrom
<1>6. BegunAll(tx, t, ss, b) /\ Match(x, ss, b, 0)
  BY ONLY <1>5, BlocksOfLine
<1>7. Begun(y, tx, u, rr, b)
  BY <1>2, <1>6, BegunOn
<1>8. Match(y, rr, b, 0)
  <2>1. LexOK(x)
    BY DEF TakenFrom
  <2>2. QED
    BY <1>2, <1>6, <2>1, MatchAgain
<1>9. 0 \in 0 .. Len(y.toks)
  <2>1. IsSeq(y.toks)
    BY <1>2 DEF LexOK, Tokens
  <2>2. QED
    BY <2>1, SeqIs
<1>10. InBlocks(y, tx, u, rr)
  BY <1>2, <1>7, <1>8, <1>9 DEF InBlocks
<1>11. QED
  BY <1>10 DEF Laid

\* A scope more, of the line of the statement.
ScopeMore(tx, t, ss, u, rr, b) ==
  /\ b \in Nat /\ Len(ss) = b /\ Len(rr) = b + 1 /\ Like(t, ss, u, rr, b)
  /\ HeadAt(u, rr, b + 1) = Len(tx)

\* The line of a statement with a block is done.
LEMMA LaidOpens ==
  ASSUME NEW x, NEW tx, Written(tx), Fits(tx), NEW y, TakenFrom(x, tx, 1, y), x.toks[1].tok = "STATEMENT",
         NEW t, NEW ss, NEW u, NEW rr, NEW b, ScopeMore(tx, t, ss, u, rr, b),
         HasBlock(Last(tx)), b = 1 => Last(tx).body.kind = "func",
         Laid(x, tx, t, ss, "statement")
  PROVE  Laid(y, tx, u, rr, "indent")
<1>1. TakenTo(x, tx, 1, y)
  BY TokensGo
<1>2. /\ y.at = x.at /\ y.stack = x.stack /\ FirstSays(x.toks) /\ LexOK(y)
      /\ Pending(y.toks, 0) /\ ~HasStatement(y.toks)
  BY <1>1 DEF TakenTo, Gone
<1>3. HasStatement(x.toks)
  BY <1>2 DEF FirstSays
<1>4. InBlocks(x, tx, t, ss)
  BY <1>3 DEF Laid, Alive
<1>5. b \in Nat /\ Len(ss) = b /\ Len(rr) = b + 1 /\ Like(t, ss, u, rr, b) /\ HeadAt(u, rr, b + 1) = Len(tx)
  BY DEF ScopeMore
<1>6. StatementIn(x, tx, t, ss, b)
  BY <1>4, <1>5 DEF StatementIn, TakenFrom
<1>7. /\ BegunAll(tx, t, ss, b) /\ Match(x, ss, b, 0)
      /\ Len(tx) \in StatementsIn(tx) /\ Last(tx) = tx[Len(tx)]
      /\ x.stack # <<>> => tx[Len(tx)].ind = Current_(x.stack)
  BY ONLY <1>6, BlocksOfLine
<1>8. Begun(y, tx, u, rr, b)
  BY <1>2, <1>5, <1>7, BegunOn
<1>9. LexOK(x)
  BY DEF TakenFrom
<1>10. Match(y, rr, b, 0)
  BY <1>2, <1>5, <1>7, <1>9, MatchAgain
<1>11. tx[Len(tx)].ind = Current_(x.stack)
  <2>1. CASE x.stack # <<>>
    BY <1>7, <2>1
  <2>2. CASE x.stack = <<>>
    <3>1. Len(x.stack) = 0 /\ Current_(x.stack) = 0
      BY <2>2, NoneSeq DEF Current_
    <3>2. b = 1
      <4>1. Len(x.stack) + 0 + 1 = b
        BY <1>7 DEF Match
      <4>2. QED
        BY ONLY <3>1, <4>1
    <3>3. tx[Len(tx)].body.kind = "func"
      BY <1>7, <3>2
    <3>4. tx[Len(tx)].ind = 0
      BY <1>7, <3>3 DEF Fits
    <3>5. QED
      BY ONLY <3>1, <3>4
  <2>3. QED
    BY <2>1, <2>2
<1>12. Blank(tx, Len(tx) + 1, Len(tx))
  <2>1. Len(tx) \in Nat
    BY TextIs
  <2>2. QED
    BY <2>1 DEF Blank
<1>13. NotYet(y, tx, Len(tx), rr, b)
  BY ONLY <1>2, <1>10, <1>11, <1>12 DEF NotYet
<1>14. b = Len(rr) - 1 /\ HeadAt(u, rr, Len(rr)) = Len(tx)
  BY ONLY <1>5
<1>15. HasBlock(tx[Len(tx)])
  BY <1>7
<1>16. BeforeBlock(y, tx, u, rr)
  BY ONLY <1>7, <1>8, <1>13, <1>14, <1>15 DEF BeforeBlock
<1>17. QED
  BY <1>16 DEF Laid

-----------------------------------------------------------------------------
(* Trees that grow.                                                        *)

\* Of the operations of t only c gets a statement, id; the new ones have none.
Gets(t, u, c, id) ==
  /\ Newest(t) \in Nat /\ Newest(u) \in Nat /\ Extends(t, u)
  /\ \A i \in 1 .. Newest(t) : t.nodes[i].kind = "SCOPE_OPERATION" =>
       /\ IsSeq(t.nodes[i].kids)
       /\ \A k \in DOMAIN t.nodes[i].kids : t.nodes[i].kids[k] \in 1 .. Newest(t)
       /\ u.nodes[i].kids = IF i = c THEN Append(t.nodes[i].kids, id) ELSE t.nodes[i].kids
  /\ \A i \in Newest(t) + 1 .. Newest(u) : u.nodes[i].kind = "SCOPE_OPERATION" => u.nodes[i].kids = <<>>
  /\ c # 0 => id \in Newest(t) + 1 .. Newest(u)

\* Where a statement of u is: where it was, or it is the new one.
OldPlace(t, u, o, k) == /\ IsOperation(t, o) /\ k \in DOMAIN t.nodes[o].kids
                        /\ u.nodes[o].kids[k] = t.nodes[o].kids[k]
                        /\ t.nodes[o].kids[k] \in 1 .. Newest(t)
NewPlace(t, u, o, k, c, id) == /\ c # 0 /\ o = c /\ IsOperation(t, c) /\ k = Len(t.nodes[c].kids) + 1
                               /\ u.nodes[c].kids[k] = id

LEMMA GetsPlace ==
  ASSUME NEW t, NEW u, NEW c, NEW id, Gets(t, u, c, id), NEW o, IsOperation(u, o),
         NEW k \in DOMAIN u.nodes[o].kids
  PROVE  OldPlace(t, u, o, k) \/ NewPlace(t, u, o, k, c, id)
<1>1. /\ Newest(t) \in Nat /\ Newest(u) \in Nat /\ o \in 1 .. Newest(u) /\ u.nodes[o].kind = "SCOPE_OPERATION"
      /\ Newest(t) <= Newest(u) /\ \A i \in 1 .. Newest(t) : t.nodes[i].kind = u.nodes[i].kind
  BY DEF Gets, IsOperation, Extends, Same
<1>2. o \in 1 .. Newest(t)
  <2>1. SUFFICES ASSUME o \notin 1 .. Newest(t)
                 PROVE  FALSE
    OBVIOUS
  <2>2. o \in Newest(t) + 1 .. Newest(u)
    BY <1>1, <2>1
  <2>3. u.nodes[o].kids = <<>>
    BY <1>1, <2>2 DEF Gets
  <2>4. QED
    BY <2>3, NoneSeq
<1>3. IsOperation(t, o)
  BY <1>1, <1>2 DEF IsOperation
<1>4. PICK s : s = t.nodes[o].kids
  OBVIOUS
<1>5. /\ IsSeq(s) /\ \A j \in DOMAIN s : s[j] \in 1 .. Newest(t)
      /\ u.nodes[o].kids = IF o = c THEN Append(s, id) ELSE s
  BY <1>2, <1>3, <1>4 DEF Gets, IsOperation
<1>6. CASE o # c
  BY <1>3, <1>4, <1>5, <1>6 DEF OldPlace
<1>7. CASE o = c
  <2>1. u.nodes[o].kids = Append(s, id)
    BY <1>5, <1>7
  <2>2. /\ DOMAIN Append(s, id) = 1 .. Len(s) + 1 /\ Append(s, id)[Len(s) + 1] = id
        /\ \A i \in 1 .. Len(s) : Append(s, id)[i] = s[i]
    BY ONLY <1>5, SeqAppended
  <2>3. Len(s) \in Nat /\ DOMAIN s = 1 .. Len(s)
    BY ONLY <1>5, SeqIs
  <2>4. k \in 1 .. Len(s) \/ k = Len(s) + 1
    BY <2>1, <2>2, <2>3
  <2>5. CASE k \in 1 .. Len(s)
    BY <1>3, <1>4, <1>5, <2>1, <2>2, <2>3, <2>5 DEF OldPlace
  <2>6. CASE k = Len(s) + 1
    <3>1. c # 0
      BY <1>1, <1>7
    <3>2. QED
      BY <1>3, <1>4, <1>7, <2>1, <2>2, <2>6, <3>1 DEF NewPlace
  <2>7. QED
    BY ONLY <2>4, <2>5, <2>6
<1>8. QED
  BY <1>6, <1>7

\* What was somewhere still is there.
LEMMA GetsKeeps ==
  ASSUME NEW t, NEW u, NEW c, NEW id, Gets(t, u, c, id), NEW o, NEW i, NEW next, Behind(t, o, i, next)
  PROVE  Behind(u, o, i, next)
<1>1. IsOperation(t, o) /\ IsOperation(u, o)
  BY DEF Behind, IsOperation, Gets, Extends, Same
<1>2. PICK s : s = t.nodes[o].kids
  OBVIOUS
<1>3. IsSeq(s) /\ u.nodes[o].kids = IF o = c THEN Append(s, id) ELSE s
  BY <1>1, <1>2 DEF Gets, IsOperation
<1>4. PICK k \in 2 .. Len(s) : s[k - 1] = i /\ s[k] = next
  BY <1>2 DEF Behind
<1>5. Len(s) \in Nat
  BY ONLY <1>3, SeqIs
<1>6. PICK r : r = u.nodes[o].kids
  OBVIOUS
<1>7. k \in 2 .. Len(r) /\ r[k - 1] = s[k - 1] /\ r[k] = s[k]
  <2>1. CASE o # c
    BY ONLY <1>3, <1>4, <1>6, <2>1
  <2>2. CASE o = c
    <3>1. /\ Len(Append(s, id)) = Len(s) + 1
          /\ \A j \in 1 .. Len(s) : Append(s, id)[j] = s[j]
      BY ONLY <1>3, SeqAppended
    <3>2. r = Append(s, id)
      BY ONLY <1>3, <1>6, <2>2
    <3>3. k - 1 \in 1 .. Len(s) /\ k \in 1 .. Len(s) /\ k \in 2 .. Len(s) + 1
      BY ONLY <1>4, <1>5
    <3>4. QED
      BY ONLY <3>1, <3>2, <3>3
  <2>3. QED
    BY ONLY <2>1, <2>2
<1>8. QED
  BY <1>1, <1>4, <1>6, <1>7 DEF Behind

\* Statements stay in one place.
LEMMA OnePlaceStays ==
  ASSUME NEW t, NEW u, NEW c, NEW id, Gets(t, u, c, id), OnePlace(t)
  PROVE  OnePlace(u)
<1>1. SUFFICES ASSUME NEW o, NEW p, IsOperation(u, o), IsOperation(u, p),
                      NEW k \in DOMAIN u.nodes[o].kids, NEW l \in DOMAIN u.nodes[p].kids,
                      u.nodes[o].kids[k] = u.nodes[p].kids[l]
               PROVE  o = p /\ k = l
  BY DEF OnePlace
<1>2. OldPlace(t, u, o, k) \/ NewPlace(t, u, o, k, c, id)
  BY <1>1, GetsPlace
<1>3. OldPlace(t, u, p, l) \/ NewPlace(t, u, p, l, c, id)
  BY <1>1, GetsPlace
<1>4. c # 0 => id \notin 1 .. Newest(t)
  BY DEF Gets
<1>5. CASE OldPlace(t, u, o, k) /\ OldPlace(t, u, p, l)
  <2>1. /\ IsOperation(t, o) /\ IsOperation(t, p) /\ k \in DOMAIN t.nodes[o].kids
        /\ l \in DOMAIN t.nodes[p].kids /\ t.nodes[o].kids[k] = t.nodes[p].kids[l]
    BY <1>1, <1>5 DEF OldPlace
  <2>2. QED
    BY <2>1 DEF OnePlace, IsOperation
<1>6. CASE NewPlace(t, u, o, k, c, id) /\ NewPlace(t, u, p, l, c, id)
  BY <1>6 DEF NewPlace
<1>7. CASE OldPlace(t, u, o, k) /\ NewPlace(t, u, p, l, c, id)
  BY <1>1, <1>4, <1>7 DEF OldPlace, NewPlace
<1>8. CASE NewPlace(t, u, o, k, c, id) /\ OldPlace(t, u, p, l)
  BY <1>1, <1>4, <1>8 DEF OldPlace, NewPlace
<1>9. QED
  BY ONLY <1>2, <1>3, <1>5, <1>6, <1>7, <1>8

\* The new statement is in the block of its header.
LEMMA NestedStays ==
  ASSUME NEW t, NEW u, NEW c, NEW id, Gets(t, u, c, id), NEW tx, NestedIn(t, tx),
         c # 0 /\ IsOperation(t, c) =>
           u.nodes[id].at \in 1 .. Len(tx) /\ HeaderIn(tx, u.nodes[id].at) = t.nodes[c].at
  PROVE  NestedIn(u, tx)
<1>1. SUFFICES ASSUME NEW o, IsOperation(u, o), NEW k \in DOMAIN u.nodes[o].kids
               PROVE  LET at == u.nodes[u.nodes[o].kids[k]].at
                      IN at \in 1 .. Len(tx) /\ HeaderIn(tx, at) = u.nodes[o].at
  BY DEF NestedIn, IsOperation
<1>2. OldPlace(t, u, o, k) \/ NewPlace(t, u, o, k, c, id)
  BY <1>1, GetsPlace
<1>3. \A i \in 1 .. Newest(t) : u.nodes[i].at = t.nodes[i].at
  BY DEF Gets, Extends, Same
<1>4. CASE OldPlace(t, u, o, k)
  <2>1. PICK s : s = t.nodes[o].kids[k]
    BY Zenon
  <2>2. /\ o \in 1 .. Newest(t) /\ t.nodes[o].kind = "SCOPE_OPERATION" /\ k \in DOMAIN t.nodes[o].kids
        /\ u.nodes[o].kids[k] = s /\ s \in 1 .. Newest(t)
    BY <1>4, <2>1 DEF OldPlace, IsOperation
  <2>3. t.nodes[s].at \in 1 .. Len(tx) /\ HeaderIn(tx, t.nodes[s].at) = t.nodes[o].at
    BY <2>1, <2>2 DEF NestedIn
  <2>4. QED
    BY <1>3, <2>2, <2>3
<1>5. CASE NewPlace(t, u, o, k, c, id)
  <2>1. o = c /\ c # 0 /\ IsOperation(t, c) /\ c \in 1 .. Newest(t) /\ u.nodes[c].kids[k] = id
    BY <1>5 DEF NewPlace, IsOperation
  <2>2. u.nodes[id].at \in 1 .. Len(tx) /\ HeaderIn(tx, u.nodes[id].at) = t.nodes[c].at
    <3>1. c # 0 /\ IsOperation(t, c) =>
           u.nodes[id].at \in 1 .. Len(tx) /\ HeaderIn(tx, u.nodes[id].at) = t.nodes[c].at
      OBVIOUS
    <3>2. QED
      BY ONLY <2>1, <3>1
  <2>3. QED
    BY ONLY <1>3, <2>1, <2>2
<1>6. QED
  BY <1>2, <1>4, <1>5

\* What leaves a loop is in it.
InLoop(t, tx, L) ==
  LET from == t.nodes[L].at
  IN /\ L \in 1 .. Newest(t) /\ from \in 1 .. Len(tx) /\ Len(tx) \in 1 .. Len(tx)
     /\ \A k \in StatementsIn(tx) : from < k /\ k <= Len(tx) => tx[k].ind > tx[from].ind

LEMMA LoopsStay ==
  ASSUME NEW t, NEW u, NEW c, NEW id, Gets(t, u, c, id), NEW tx, LoopsIn(t, tx),
         \A i \in Newest(t) + 1 .. Newest(u) : u.nodes[i].to # 0 =>
           InLoop(t, tx, u.nodes[i].to) /\ u.nodes[i].at = Len(tx)
  PROVE  LoopsIn(u, tx)
<1>1. \A i \in 1 .. Newest(t) : u.nodes[i].at = t.nodes[i].at /\ u.nodes[i].to = t.nodes[i].to
  BY DEF Gets, Extends, Same
<1>2. Newest(t) \in Nat /\ Newest(u) \in Nat /\ Newest(t) <= Newest(u)
  BY DEF Gets, Extends
<1>3. \A i \in 1 .. Newest(t) : i \in 1 .. Newest(u)
  BY <1>2
<1>4. SUFFICES ASSUME NEW i \in 1 .. Newest(u), NEW L, L = u.nodes[i].to, L # 0
               PROVE  LET from == u.nodes[L].at
                      IN /\ L \in 1 .. Newest(u) /\ u.nodes[i].at \in 1 .. Len(tx)
                         /\ from \in 1 .. Len(tx)
                         /\ \A k \in StatementsIn(tx) : from < k /\ k <= u.nodes[i].at => tx[k].ind > tx[from].ind
  BY DEF LoopsIn
<1>6. CASE i \in 1 .. Newest(t)
  <2>1. t.nodes[i].to = L /\ u.nodes[i].at = t.nodes[i].at /\ L # 0
    BY ONLY <1>1, <1>4, <1>6
  <2>2. LET from == t.nodes[t.nodes[i].to].at
        IN /\ t.nodes[i].to \in 1 .. Newest(t) /\ t.nodes[i].at \in 1 .. Len(tx) /\ from \in 1 .. Len(tx)
           /\ \A k \in StatementsIn(tx) : from < k /\ k <= t.nodes[i].at => tx[k].ind > tx[from].ind
    <3>1. LoopsIn(t, tx)
      OBVIOUS
    <3>2. QED
      BY ONLY <1>6, <2>1, <3>1 DEF LoopsIn
  <2>3. L \in 1 .. Newest(t)
    BY ONLY <2>1, <2>2
  <2>4. u.nodes[L].at = t.nodes[L].at /\ L \in 1 .. Newest(u)
    BY ONLY <1>1, <1>3, <2>3
  <2>5. QED
    BY ONLY <2>1, <2>2, <2>4
<1>7. CASE i \notin 1 .. Newest(t)
  <2>1. i \in Newest(t) + 1 .. Newest(u)
    BY <1>2, <1>7
  <2>2. InLoop(t, tx, L) /\ u.nodes[i].at = Len(tx)
    BY <1>4, <2>1
  <2>3. L \in 1 .. Newest(t)
    BY <2>2 DEF InLoop
  <2>4. u.nodes[L].at = t.nodes[L].at /\ L \in 1 .. Newest(u)
    BY <1>1, <1>3, <2>3
  <2>5. QED
    BY ONLY <2>2, <2>4 DEF InLoop
<1>8. QED
  BY <1>6, <1>7

\* An if that is continued now has the new one behind it.
LEMMA OrsStay ==
  ASSUME NEW t, NEW u, NEW c, NEW id, Gets(t, u, c, id), OrsBehind(t),
         \A i \in 1 .. Newest(u) : u.nodes[i].ifType = "IF_OR" =>
           \/ i \in 1 .. Newest(t) /\ t.nodes[i].ifType = "IF_OR" /\ u.nodes[i].elseBlock = t.nodes[i].elseBlock
           \/ Behind(u, c, i, u.nodes[i].elseBlock)
  PROVE  OrsBehind(u)
<1>1. SUFFICES ASSUME NEW i \in 1 .. Newest(u), u.nodes[i].ifType = "IF_OR"
               PROVE  \E o \in 1 .. Newest(u) : Behind(u, o, i, u.nodes[i].elseBlock)
  BY DEF OrsBehind
<1>2. \A o : Behind(u, o, i, u.nodes[i].elseBlock) => o \in 1 .. Newest(u)
  BY DEF Behind, IsOperation
<1>3. CASE i \in 1 .. Newest(t) /\ t.nodes[i].ifType = "IF_OR" /\ u.nodes[i].elseBlock = t.nodes[i].elseBlock
  <2>1. PICK o \in 1 .. Newest(t) : Behind(t, o, i, t.nodes[i].elseBlock)
    BY <1>3 DEF OrsBehind
  <2>2. Behind(u, o, i, u.nodes[i].elseBlock)
    BY <1>3, <2>1, GetsKeeps
  <2>3. QED
    BY <1>2, <2>2
<1>4. QED
  BY <1>1, <1>2, <1>3

\* The new statement is behind the last one of its operation.
LEMMA NewBehind ==
  ASSUME NEW t, NEW u, NEW c, NEW id, Gets(t, u, c, id), IsOperation(t, c), NEW i,
         t.nodes[c].kids # <<>>, Last(t.nodes[c].kids) = i
  PROVE  Behind(u, c, i, id)
<1>1. PICK s : s = t.nodes[c].kids
  OBVIOUS
<1>2. IsSeq(s) /\ u.nodes[c].kids = Append(s, id) /\ IsOperation(u, c)
  <2>1. c \in 1 .. Newest(t) /\ t.nodes[c].kind = "SCOPE_OPERATION"
    BY DEF IsOperation
  <2>2. IsSeq(s) /\ u.nodes[c].kids = Append(s, id)
    BY <1>1, <2>1 DEF Gets
  <2>3. u.nodes[c].kind = "SCOPE_OPERATION" /\ c \in 1 .. Newest(u)
    BY <2>1 DEF Gets, Extends, Same
  <2>4. QED
    BY <2>2, <2>3 DEF IsOperation
<1>3. /\ Len(Append(s, id)) = Len(s) + 1 /\ Append(s, id)[Len(s) + 1] = id
      /\ \A j \in 1 .. Len(s) : Append(s, id)[j] = s[j]
  BY ONLY <1>2, SeqAppended
<1>4. Len(s) \in Nat /\ Last(s) = s[Len(s)] /\ Len(s) \in 1 .. Len(s)
  BY <1>1, <1>2, SeqIs, SeqFront
<1>5. PICK k : k = Len(s) + 1
  OBVIOUS
<1>6. k \in 2 .. Len(s) + 1 /\ k - 1 = Len(s)
  BY ONLY <1>4, <1>5
<1>7. Append(s, id)[k - 1] = i /\ Append(s, id)[k] = id
  BY <1>1, <1>3, <1>4, <1>5, <1>6
<1>8. QED
  BY ONLY <1>2, <1>3, <1>6, <1>7 DEF Behind

LEMMA KidsAre ==
  ASSUME NEW t, Linked(t), NEW i \in 1 .. Newest(t)
  PROVE  /\ IsSeq(t.nodes[i].kids) /\ IsNode(t.nodes[i]) /\ Newest(t) \in Nat
         /\ \A k \in DOMAIN t.nodes[i].kids : t.nodes[i].kids[k] \in 1 .. Newest(t)
<1>1. Links(t, i, t.nodes[i]) /\ Newest(t) \in Nat
  BY SeqIs DEF Linked, Newest
<1>2. \A j \in i + 1 .. Newest(t) : j \in 1 .. Newest(t)
  BY <1>1
<1>3. QED
  BY <1>1, <1>2 DEF Links

\* Nothing is added to an operation.
LEMMA BuildsGets ==
  ASSUME NEW t, NEW u, NEW C, Linked(t), Linked(u), Builds(t, u, C)
  PROVE  Gets(t, u, 0, 0)
<1>1. Newest(t) \in Nat /\ Newest(u) \in Nat
  BY SeqIs DEF Linked, Newest
<1>2. ASSUME NEW i \in 1 .. Newest(t), t.nodes[i].kind = "SCOPE_OPERATION"
      PROVE  /\ IsSeq(t.nodes[i].kids)
             /\ \A k \in DOMAIN t.nodes[i].kids : t.nodes[i].kids[k] \in 1 .. Newest(t)
             /\ u.nodes[i].kids = IF i = 0 THEN Append(t.nodes[i].kids, 0) ELSE t.nodes[i].kids
  <2>1. i # 0
    BY <1>1
  <2>2. u.nodes[i].kids = t.nodes[i].kids
    BY <1>2 DEF Builds
  <2>3. QED
    BY <2>1, <2>2, KidsAre
<1>3. Extends(t, u) /\ \A i \in Newest(t) + 1 .. Newest(u) : u.nodes[i].kind = "SCOPE_OPERATION" => u.nodes[i].kids = <<>>
  BY DEF Builds
<1>4. QED
  BY ONLY <1>1, <1>2, <1>3 DEF Gets

\* What Grew says of the operations, the new nodes and the ifs.
GrewTo(t, u, n, C, c, id) ==
  /\ c = CurrentId(t) /\ id = Newest(t) + 1 /\ Gets(t, u, c, id) /\ c \in 1 .. Newest(t)
  /\ u.nodes[id].kind = n.kind /\ u.nodes[id].to = n.to /\ u.nodes[id].at = n.at
  /\ \A i \in id + 1 .. Newest(u) : u.nodes[i].kind # "IF_STATEMENT" /\ u.nodes[i].to = 0
  /\ \A i \in 1 .. Newest(t) : t.nodes[i].kind = "IF_STATEMENT" /\ i \notin C =>
       /\ u.nodes[i].block = t.nodes[i].block /\ u.nodes[i].elseBlock = t.nodes[i].elseBlock
       /\ u.nodes[i].ifType = t.nodes[i].ifType

LEMMA GrewSays ==
  ASSUME NEW t, Sound(t), NEW u, NEW n, NEW C, Grew(t, u, n, C), NEW c, c = CurrentId(t),
         NEW id, id = Newest(t) + 1
  PROVE  GrewTo(t, u, n, C, c, id)
<1>1. PICK w : KidAdded(t, w, n) /\ Builds(w, u, C)
  BY DEF Grew
<1>2. Linked(t) /\ Linked(w) /\ Linked(u)
  BY <1>1 DEF Grew, KidAdded, Sound
<1>3. Newest(t) \in Nat /\ Newest(u) \in Nat /\ id \in Nat /\ id >= 1
  BY <1>2, SeqIs DEF Linked, Newest
<1>4. /\ Newest(w) = id /\ c \in 1 .. Newest(t) /\ w.nodes[id] = n
      /\ w.nodes[c] = [t.nodes[c] EXCEPT !.kids = Append(@, id)]
      /\ \A i \in 1 .. Newest(t) : i # c => w.nodes[i] = t.nodes[i]
  BY <1>1 DEF KidAdded
<1>5. /\ id <= Newest(u) /\ \A i \in 1 .. id : Same(w.nodes[i], u.nodes[i])
      /\ \A i \in 1 .. id :
           /\ w.nodes[i].kind = "SCOPE_OPERATION" => u.nodes[i].kids = w.nodes[i].kids
           /\ w.nodes[i].kind = "IF_STATEMENT" /\ i \notin C =>
                /\ u.nodes[i].block = w.nodes[i].block /\ u.nodes[i].elseBlock = w.nodes[i].elseBlock
                /\ u.nodes[i].ifType = w.nodes[i].ifType
      /\ \A i \in id + 1 .. Newest(u) :
           /\ u.nodes[i].kind # "IF_STATEMENT" /\ u.nodes[i].to = 0
           /\ u.nodes[i].kind = "SCOPE_OPERATION" => u.nodes[i].kids = <<>>
  BY <1>1, <1>4 DEF Builds, Extends
<1>6. IsNode(t.nodes[c])
  BY <1>2, <1>4, KidsAre
<1>7. /\ w.nodes[c].kids = Append(t.nodes[c].kids, id) /\ w.nodes[c].kind = t.nodes[c].kind
      /\ w.nodes[c].block = t.nodes[c].block /\ w.nodes[c].elseBlock = t.nodes[c].elseBlock
      /\ w.nodes[c].ifType = t.nodes[c].ifType
  BY ONLY <1>4, <1>6 DEF IsNode, NodeFields
<1>8. \A i \in 1 .. Newest(t) : i \in 1 .. id
  BY ONLY <1>3, id = Newest(t) + 1
<1>9. ASSUME NEW i \in 1 .. Newest(t)
      PROVE  /\ w.nodes[i].kids = IF i = c THEN Append(t.nodes[i].kids, id) ELSE t.nodes[i].kids
             /\ w.nodes[i].kind = t.nodes[i].kind
             /\ w.nodes[i].block = t.nodes[i].block /\ w.nodes[i].elseBlock = t.nodes[i].elseBlock
             /\ w.nodes[i].ifType = t.nodes[i].ifType
  <2>1. CASE i = c
    BY ONLY <1>7, <2>1
  <2>2. CASE i # c
    BY ONLY <1>4, <2>2, i \in 1 .. Newest(t)
  <2>3. QED
    BY ONLY <2>1, <2>2
<1>10. ASSUME NEW i \in 1 .. Newest(t), t.nodes[i].kind = "SCOPE_OPERATION"
       PROVE  /\ IsSeq(t.nodes[i].kids)
              /\ \A k \in DOMAIN t.nodes[i].kids : t.nodes[i].kids[k] \in 1 .. Newest(t)
              /\ u.nodes[i].kids = IF i = c THEN Append(t.nodes[i].kids, id) ELSE t.nodes[i].kids
  <2>1. u.nodes[i].kids = w.nodes[i].kids
    BY ONLY <1>5, <1>8, <1>9, <1>10, i \in 1 .. Newest(t)
  <2>2. IsSeq(t.nodes[i].kids) /\ \A k \in DOMAIN t.nodes[i].kids : t.nodes[i].kids[k] \in 1 .. Newest(t)
    BY <1>2, KidsAre
  <2>3. w.nodes[i].kids = IF i = c THEN Append(t.nodes[i].kids, id) ELSE t.nodes[i].kids
    BY ONLY <1>9, i \in 1 .. Newest(t)
  <2>4. QED
    BY ONLY <2>1, <2>2, <2>3
<1>11. \A i \in Newest(t) + 1 .. Newest(u) : u.nodes[i].kind = "SCOPE_OPERATION" => u.nodes[i].kids = <<>>
  <2>1. \A i \in Newest(t) + 1 .. Newest(u) : i = id \/ i \in id + 1 .. Newest(u)
    BY ONLY <1>3, id = Newest(t) + 1
  <2>2. u.nodes[id].kind # "SCOPE_OPERATION"
    <3>1. id \in 1 .. id /\ n.kind # "SCOPE_OPERATION"
      BY <1>3 DEF Grew
    <3>2. QED
      BY ONLY <1>4, <1>5, <3>1 DEF Same
  <2>3. QED
    BY ONLY <1>5, <2>1, <2>2
<1>12. Extends(t, u)
  BY GrewExtends
<1>13. id \in Newest(t) + 1 .. Newest(u)
  BY ONLY <1>3, <1>5, id = Newest(t) + 1
<1>14. Gets(t, u, c, id)
  BY ONLY <1>3, <1>10, <1>11, <1>12, <1>13 DEF Gets
<1>15. u.nodes[id].kind = n.kind /\ u.nodes[id].to = n.to /\ u.nodes[id].at = n.at
  <2>1. id \in 1 .. id
    BY ONLY <1>3
  <2>2. QED
    BY ONLY <1>4, <1>5, <2>1 DEF Same
<1>16. ASSUME NEW i \in 1 .. Newest(t), t.nodes[i].kind = "IF_STATEMENT", i \notin C
       PROVE  /\ u.nodes[i].block = t.nodes[i].block /\ u.nodes[i].elseBlock = t.nodes[i].elseBlock
              /\ u.nodes[i].ifType = t.nodes[i].ifType
  <2>1. i \in 1 .. id
    BY ONLY <1>8, i \in 1 .. Newest(t)
  <2>2. w.nodes[i].kind = "IF_STATEMENT"
    BY ONLY <1>9, <1>16, i \in 1 .. Newest(t)
  <2>3. /\ u.nodes[i].block = w.nodes[i].block /\ u.nodes[i].elseBlock = w.nodes[i].elseBlock
        /\ u.nodes[i].ifType = w.nodes[i].ifType
    BY ONLY <1>5, <1>16, <2>1, <2>2
  <2>4. QED
    BY ONLY <1>9, <2>3, i \in 1 .. Newest(t)
<1>17. c = CurrentId(t) /\ id = Newest(t) + 1
  OBVIOUS
<1>18. QED
  BY ONLY <1>4, <1>5, <1>14, <1>15, <1>16, <1>17 DEF GrewTo

LEMMA IfIs ==
  ASSUME NEW t, Linked(t), NEW i \in 1 .. Newest(t)
  PROVE  /\ t.nodes[i].kind = "IF_STATEMENT" <=> t.nodes[i].ifType # "NONE"
         /\ t.nodes[i].block # 0 => t.nodes[i].block \in 1 .. Newest(t)
<1>1. Links(t, i, t.nodes[i]) /\ Newest(t) \in Nat
  BY SeqIs DEF Linked, Newest
<1>2. \A j \in i + 1 .. Newest(t) : j \in 1 .. Newest(t)
  BY <1>1
<1>3. QED
  BY <1>1, <1>2 DEF Links

\* The statement that is added is no if, or one that has nothing behind it; an if
\* that is changed is one it continues.
MayChain(t, u, n, C, c, id) ==
  /\ Linked(t) /\ Linked(u) /\ GrewTo(t, u, n, C, c, id) /\ u.nodes[id].ifType \in {"NONE", "IF"}
  /\ \A i \in C : i \in 1 .. Newest(t) =>
       u.nodes[i].ifType = "IF_OR" /\ Behind(u, c, i, u.nodes[i].elseBlock)

LEMMA ChainsGrow ==
  ASSUME NEW t, NEW u, NEW n, NEW C, NEW c, NEW id, MayChain(t, u, n, C, c, id), ChainedIn(t)
  PROVE  ChainedIn(u)
<1>1. /\ Gets(t, u, c, id) /\ id = Newest(t) + 1 /\ Linked(t) /\ Linked(u)
      /\ u.nodes[id].ifType \in {"NONE", "IF"}
      /\ \A i \in id + 1 .. Newest(u) : u.nodes[i].kind # "IF_STATEMENT"
      /\ \A i \in 1 .. Newest(t) : t.nodes[i].kind = "IF_STATEMENT" /\ i \notin C =>
           /\ u.nodes[i].block = t.nodes[i].block /\ u.nodes[i].elseBlock = t.nodes[i].elseBlock
           /\ u.nodes[i].ifType = t.nodes[i].ifType
      /\ \A i \in C : i \in 1 .. Newest(t) =>
           u.nodes[i].ifType = "IF_OR" /\ Behind(u, c, i, u.nodes[i].elseBlock)
  BY DEF MayChain, GrewTo
<1>2. /\ Newest(t) \in Nat /\ Newest(u) \in Nat
      /\ \A i \in 1 .. Newest(t) : t.nodes[i].kind = u.nodes[i].kind
  BY <1>1 DEF Gets, Extends, Same
<1>3. ASSUME NEW i \in 1 .. Newest(u), u.nodes[i].ifType \in {"IF_OR", "IF_ELSE"}
      PROVE  /\ i \in 1 .. Newest(t) /\ t.nodes[i].kind = "IF_STATEMENT"
             /\ i \notin C => /\ u.nodes[i].block = t.nodes[i].block
                              /\ u.nodes[i].elseBlock = t.nodes[i].elseBlock
                              /\ u.nodes[i].ifType = t.nodes[i].ifType
             /\ i \in C => u.nodes[i].ifType = "IF_OR" /\ Behind(u, c, i, u.nodes[i].elseBlock)
  <2>1. u.nodes[i].kind = "IF_STATEMENT" /\ i # id
    BY <1>1, <1>3, IfIs
  <2>2. i \in 1 .. Newest(t) \/ i = id \/ i \in id + 1 .. Newest(u)
    BY ONLY <1>1, <1>2, i \in 1 .. Newest(u)
  <2>3. i \in 1 .. Newest(t)
    BY ONLY <1>1, <2>1, <2>2
  <2>4. QED
    BY ONLY <1>1, <1>2, <2>1, <2>3
<1>4. OnePlace(u)
  BY <1>1, OnePlaceStays DEF ChainedIn
<1>5. OrsBehind(u)
  <2>1. OrsBehind(t)
    BY DEF ChainedIn
  <2>2. \A i \in 1 .. Newest(u) : u.nodes[i].ifType = "IF_OR" =>
          \/ i \in 1 .. Newest(t) /\ t.nodes[i].ifType = "IF_OR" /\ u.nodes[i].elseBlock = t.nodes[i].elseBlock
          \/ Behind(u, c, i, u.nodes[i].elseBlock)
    BY ONLY <1>3
  <2>3. QED
    BY ONLY <1>1, <2>1, <2>2, OrsStay
<1>6. ElsesApart(u)
  <2>1. ElsesApart(t)
    BY DEF ChainedIn
  <2>2. ASSUME NEW i \in 1 .. Newest(u), u.nodes[i].ifType = "IF_ELSE"
        PROVE  u.nodes[i].elseBlock # 0 /\ u.nodes[i].elseBlock # u.nodes[i].block
    <3>1. i \in 1 .. Newest(t) /\ i \notin C
      BY ONLY <1>3, <2>2, i \in 1 .. Newest(u)
    <3>2. /\ u.nodes[i].block = t.nodes[i].block /\ u.nodes[i].elseBlock = t.nodes[i].elseBlock
          /\ t.nodes[i].ifType = "IF_ELSE"
      BY ONLY <1>3, <2>2, <3>1, i \in 1 .. Newest(u)
    <3>3. t.nodes[i].elseBlock # 0 /\ t.nodes[i].elseBlock # t.nodes[i].block
      BY ONLY <2>1, <3>1, <3>2 DEF ElsesApart
    <3>4. QED
      BY ONLY <3>2, <3>3
  <2>3. QED
    BY ONLY <2>2 DEF ElsesApart
<1>7. QED
  BY ONLY <1>4, <1>5, <1>6 DEF ChainedIn

\* If d gets an else.
MayElse(t, u, d) ==
  /\ Linked(t) /\ Linked(u) /\ Builds(t, u, {d}) /\ d \in 1 .. Newest(t)
  /\ u.nodes[d].ifType = "IF_ELSE" /\ u.nodes[d].elseBlock \in Newest(t) + 1 .. Newest(u)
  /\ u.nodes[d].block = t.nodes[d].block

LEMMA ChainsElse ==
  ASSUME NEW t, NEW u, NEW d, MayElse(t, u, d), ChainedIn(t)
  PROVE  ChainedIn(u)
<1> USE DEF MayElse
<1>1. Gets(t, u, 0, 0) /\ Linked(t) /\ Linked(u)
  BY BuildsGets
<1>2. /\ \A i \in Newest(t) + 1 .. Newest(u) : u.nodes[i].kind # "IF_STATEMENT"
      /\ \A i \in 1 .. Newest(t) : t.nodes[i].kind = "IF_STATEMENT" /\ i # d =>
           /\ u.nodes[i].block = t.nodes[i].block /\ u.nodes[i].elseBlock = t.nodes[i].elseBlock
           /\ u.nodes[i].ifType = t.nodes[i].ifType
  BY DEF Builds
<1>3. /\ Newest(t) \in Nat /\ Newest(u) \in Nat
      /\ \A i \in 1 .. Newest(t) : t.nodes[i].kind = u.nodes[i].kind
  BY <1>1 DEF Gets, Extends, Same
<1>4. ASSUME NEW i \in 1 .. Newest(u), u.nodes[i].ifType \in {"IF_OR", "IF_ELSE"}
      PROVE  /\ i \in 1 .. Newest(t)
             /\ i # d => /\ u.nodes[i].block = t.nodes[i].block
                         /\ u.nodes[i].elseBlock = t.nodes[i].elseBlock
                         /\ u.nodes[i].ifType = t.nodes[i].ifType
  <2>1. u.nodes[i].kind = "IF_STATEMENT"
    BY <1>1, <1>4, IfIs
  <2>2. i \in 1 .. Newest(t) \/ i \in Newest(t) + 1 .. Newest(u)
    BY ONLY <1>3, i \in 1 .. Newest(u)
  <2>3. QED
    BY ONLY <1>2, <1>3, <2>1, <2>2
<1>5. OnePlace(u)
  BY <1>1, OnePlaceStays DEF ChainedIn
<1>6. OrsBehind(u)
  <2>1. OrsBehind(t)
    BY DEF ChainedIn
  <2>2. u.nodes[d].ifType = "IF_ELSE"
    OBVIOUS
  <2>3. \A i \in 1 .. Newest(u) : u.nodes[i].ifType = "IF_OR" =>
          \/ i \in 1 .. Newest(t) /\ t.nodes[i].ifType = "IF_OR" /\ u.nodes[i].elseBlock = t.nodes[i].elseBlock
          \/ Behind(u, 0, i, u.nodes[i].elseBlock)
    BY ONLY <1>4, <2>2
  <2>4. QED
    BY ONLY <1>1, <2>1, <2>3, OrsStay
<1>7. ElsesApart(u)
  <2>1. ElsesApart(t)
    BY DEF ChainedIn
  <2>2. ASSUME NEW i \in 1 .. Newest(u), u.nodes[i].ifType = "IF_ELSE"
        PROVE  u.nodes[i].elseBlock # 0 /\ u.nodes[i].elseBlock # u.nodes[i].block
    <3>1. CASE i # d
      <4>1. /\ i \in 1 .. Newest(t) /\ u.nodes[i].block = t.nodes[i].block
            /\ u.nodes[i].elseBlock = t.nodes[i].elseBlock /\ t.nodes[i].ifType = "IF_ELSE"
        BY ONLY <1>4, <2>2, <3>1, i \in 1 .. Newest(u)
      <4>2. t.nodes[i].elseBlock # 0 /\ t.nodes[i].elseBlock # t.nodes[i].block
        BY ONLY <2>1, <4>1 DEF ElsesApart
      <4>3. QED
        BY ONLY <4>1, <4>2
    <3>2. CASE i = d
      <4>1. /\ u.nodes[d].elseBlock \in Newest(t) + 1 .. Newest(u) /\ d \in 1 .. Newest(t)
            /\ u.nodes[d].block = t.nodes[d].block
        OBVIOUS
      <4>2. t.nodes[d].block # 0 => t.nodes[d].block \in 1 .. Newest(t)
        BY ONLY <1>1, <4>1, IfIs
      <4>3. QED
        BY ONLY <1>3, <3>2, <4>1, <4>2
    <3>3. QED
      BY ONLY <3>1, <3>2
  <2>3. QED
    BY ONLY <2>2 DEF ElsesApart
<1>8. QED
  BY ONLY <1>5, <1>6, <1>7 DEF ChainedIn

-----------------------------------------------------------------------------
(* Where a statement belongs.                                              *)

\* The line of the statement seen has that of the current block above it.
LEMMA StatementPlace ==
  ASSUME NEW x, NEW tx, NEW t, NEW ss, NEW b, StatementIn(x, tx, t, ss, b), b # 1
  PROVE  Len(tx) \in 1 .. Len(tx) /\ HeaderIn(tx, Len(tx)) = HeadAt(t, ss, b)
<1>1. /\ BegunAll(tx, t, ss, b) /\ Match(x, ss, b, 0)
      /\ Len(tx) \in StatementsIn(tx) /\ Last(tx) = tx[Len(tx)]
      /\ x.stack # <<>> => tx[Len(tx)].ind = Current_(x.stack)
  BY BlocksOfLine
<1>2. /\ Len(tx) \in Nat /\ \A j \in 1 .. Len(tx) : tx[j].ind \in Int
      /\ StatementsIn(tx) \subseteq 1 .. Len(tx) /\ Written(tx)
  BY TextIs DEF StatementIn
<1>3. PICK h, d, k : h = HeadAt(t, ss, b) /\ d = ss[b].ind /\ k = Len(x.stack)
  OBVIOUS
<1>4. Levels(x.stack) /\ k \in Nat /\ DOMAIN x.stack = 1 .. k /\ (x.stack = <<>> => k = 0)
  <2>1. Levels(x.stack)
    BY DEF StatementIn, LexOK
  <2>2. IsSeq(x.stack)
    BY <2>1 DEF Levels
  <2>3. QED
    BY <1>3, <2>1, <2>2, SeqIs
<1>5. b \in Nat /\ k + 0 + 1 = b /\ \A i \in 1 .. k : x.stack[i] = ss[i + 1].ind
  BY <1>1, <1>3 DEF Match, StatementIn
<1>6. k \in 1 .. k /\ k + 1 = b /\ b \in 2 .. b
  <2>1. b # 1
    OBVIOUS
  <2>2. QED
    BY ONLY <1>4, <1>5, <2>1
<1>7. x.stack # <<>> /\ Current_(x.stack) = d
  <2>1. x.stack # <<>>
    BY ONLY <1>4, <1>6, NoneSeq
  <2>2. Current_(x.stack) = x.stack[k]
    BY ONLY <1>3, <1>4, <2>1, CurrentLevel
  <2>3. x.stack[k] = ss[k + 1].ind
    BY ONLY <1>5, <1>6
  <2>4. QED
    BY ONLY <1>3, <1>6, <2>1, <2>2, <2>3
<1>8. tx[Len(tx)].ind = d
  BY ONLY <1>1, <1>7
<1>9. Deeper(tx, TRUE, h, d)
  BY ONLY <1>1, <1>3, <1>6 DEF BegunAll
<1>10. /\ h \in StatementsIn(tx) /\ tx[h].ind < d
       /\ \A j \in StatementsIn(tx) : h < j => tx[j].ind >= d
  BY ONLY <1>9 DEF Deeper
<1>11. h \in 1 .. Len(tx) /\ Len(tx) \in 1 .. Len(tx)
  BY ONLY <1>1, <1>2, <1>10
<1>12. h # Len(tx)
  BY ONLY <1>2, <1>8, <1>10, <1>11
<1>13. h < Len(tx)
  BY ONLY <1>2, <1>11, <1>12
<1>14. HeaderIn(tx, Len(tx)) = h
  <2>1. \A j \in StatementsIn(tx) : h < j /\ j < Len(tx) => tx[j].ind >= tx[Len(tx)].ind
    BY ONLY <1>8, <1>10
  <2>2. tx[h].ind < tx[Len(tx)].ind
    BY ONLY <1>8, <1>10
  <2>3. QED
    BY ONLY <1>2, <1>10, <1>11, <1>13, <2>1, <2>2, HeaderFound
<1>15. QED
  BY ONLY <1>3, <1>11, <1>14

\* It is in every loop around it.
LEMMA LoopPlace ==
  ASSUME NEW x, NEW tx, NEW t, NEW ss, NEW b, StatementIn(x, tx, t, ss, b), OwnersAt(t, ss),
         NEW i \in 2 .. b, NEW L, L = ss[i].owner, L \in 1 .. Newest(t), t.nodes[L].kind = "WHILE_STATEMENT"
  PROVE  InLoop(t, tx, L)
<1>1. BegunAll(tx, t, ss, b) /\ Len(tx) \in StatementsIn(tx)
  BY BlocksOfLine
<1>2. /\ Len(tx) \in Nat /\ \A j \in 1 .. Len(tx) : tx[j].ind \in Int
      /\ StatementsIn(tx) \subseteq 1 .. Len(tx)
  BY TextIs DEF StatementIn
<1>3. PICK h, d : h = HeadAt(t, ss, i) /\ d = ss[i].ind
  OBVIOUS
<1>4. Deeper(tx, TRUE, h, d)
  BY ONLY <1>1, <1>3, i \in 2 .. b DEF BegunAll
<1>5. /\ h \in StatementsIn(tx) /\ tx[h].ind < d
      /\ \A j \in StatementsIn(tx) : h < j => tx[j].ind >= d
  BY ONLY <1>4 DEF Deeper
<1>6. t.nodes[L].at = h
  <2>1. Len(ss) = b
    BY DEF StatementIn
  <2>2. QED
    BY <1>3, <2>1 DEF OwnersAt
<1>7. h \in 1 .. Len(tx) /\ Len(tx) \in 1 .. Len(tx)
  BY ONLY <1>1, <1>2, <1>5
<1>8. d \in Int
  <2>1. x.stack[i - 1] = d /\ i - 1 \in DOMAIN x.stack
    <3>1. PICK k : k = Len(x.stack)
      OBVIOUS
    <3>2. k \in Nat /\ DOMAIN x.stack = 1 .. k
      <4>1. IsSeq(x.stack)
        BY DEF StatementIn, LexOK, Levels
      <4>2. QED
        BY <3>1, <4>1, SeqIs
    <3>3. b \in Nat /\ k + 0 + 1 = b /\ \A j \in 1 .. k : x.stack[j] = ss[j + 1].ind
      <4>1. Match(x, ss, b, 0)
        BY BlocksOfLine
      <4>2. QED
        BY <3>1, <4>1 DEF Match, StatementIn
    <3>4. i - 1 \in 1 .. k /\ (i - 1) + 1 = i
      BY <3>2, <3>3
    <3>5. x.stack[i - 1] = ss[(i - 1) + 1].ind
      BY ONLY <3>3, <3>4
    <3>6. QED
      BY ONLY <1>3, <3>2, <3>4, <3>5
  <2>2. \A j \in DOMAIN x.stack : x.stack[j] \in 1 .. Address
    BY DEF StatementIn, LexOK, Levels
  <2>3. Address \in Nat
    BY DEF Address
  <2>4. QED
    BY ONLY <2>1, <2>2, <2>3
<1>9. ASSUME NEW j \in StatementsIn(tx), h < j
      PROVE  tx[j].ind > tx[h].ind
  <2>1. tx[j].ind >= d /\ tx[j].ind \in Int /\ tx[h].ind \in Int
    BY ONLY <1>2, <1>5, <1>7, <1>9, j \in StatementsIn(tx)
  <2>2. QED
    BY ONLY <1>5, <1>8, <2>1
<1>10. L \in 1 .. Newest(t)
  OBVIOUS
<1>11. QED
  BY ONLY <1>6, <1>7, <1>9, <1>10 DEF InLoop

-----------------------------------------------------------------------------
(* Statements keep it.                                                     *)

LEMMA ParsingSimple ==
  ASSUME \/ ObjectDecl \/ ExpressionStatement \/ ReturnStatement \/ BreakStatement \/ ContinueStatement
  PROVE  pc' = pc /\ Parsing /\ ~InModule
<1>1. CASE ObjectDecl
  BY <1>1 DEF ObjectDecl, Statement, ActOnObjectDecl, Refuse, Goes, Stop, StopAfter
<1>2. CASE ExpressionStatement
  BY <1>2 DEF ExpressionStatement, Statement, ActOnExpressionStatement, Goes, Stop, StopAfter
<1>3. CASE ReturnStatement
  BY <1>3 DEF ReturnStatement, Statement, ActOnReturnStatement, Goes, Stop, StopAfter
<1>4. CASE BreakStatement
  BY <1>4 DEF BreakStatement, Statement, ActOnBreakStatement, ActOnLeave, Goes, Stop, StopAfter
<1>5. CASE ContinueStatement
  BY <1>5 DEF ContinueStatement, Statement, ActOnContinueStatement, ActOnLeave, Goes, Stop, StopAfter
<1>6. QED
  BY <1>1, <1>2, <1>3, <1>4, <1>5

\* Only a statement with a block opens one, only a function in the module.
LEMMA ParseIs ==
  ASSUME Parse
  PROVE  /\ Parsing /\ (InModule => Body_.kind = "func")
         /\ pc' = "indent" => HasBlock(Last(text))
<1>1. CASE \/ ObjectDecl \/ ExpressionStatement \/ ReturnStatement \/ BreakStatement \/ ContinueStatement
  BY <1>1, ParsingSimple DEF Parsing
<1>2. CASE FuncDecl
  BY <1>2 DEF FuncDecl, HasBlock, Body_
<1>3. CASE IfStatement \/ OrStatement \/ ElseStatement \/ WhileStatement \/ LoopStatement
  <2>1. Parsing /\ ~InModule /\ Body_.kind \in {"if", "or", "else", "while", "loop"}
    BY <1>3 DEF IfStatement, OrStatement, ElseStatement, WhileStatement, LoopStatement, Statement
  <2>2. QED
    BY <2>1 DEF HasBlock, BlockKinds, Body_
<1>4. QED
  BY <1>1, <1>2, <1>3 DEF Parse

\* What is known when a statement is parsed and nothing was reported.
Meets(b) ==
  /\ b = Len(scopes) /\ b \in Nat /\ b # 0
  /\ Linked(tree) /\ Sound(tree) /\ Written(text) /\ LexOK(lex) /\ LexedIn(lex, text)
  /\ lex.toks # <<>> /\ lex.toks[1].tok = "STATEMENT"
  /\ ChainedIn(tree) /\ OwnersAt(tree, scopes) /\ ScopesIn(scopes, Newest(tree))
  /\ tree.nodes[scopes[1].node].kind = "SCOPE_MODULE" /\ CurrentId(tree) = scopes[b].node
  /\ Fits(text) => /\ NestedIn(tree, text) /\ LoopsIn(tree, text)
                   /\ Laid(lex, text, tree, scopes, "statement")
                   /\ StatementIn(lex, text, tree, scopes, b)

LEMMA StatementMet ==
  ASSUME Inv, Nest, Parsing, Sees("STATEMENT"), ~reported, NEW b, b = Len(scopes)
  PROVE  Meets(b)
<1>1. Running /\ lex.toks # <<>> /\ lex.toks[1].tok = "STATEMENT"
  BY StatementSeen
<1>2. /\ Sound(tree) /\ ScopesIn(scopes, Newest(tree)) /\ AtScopes(tree.cursor, scopes)
      /\ Len(scopes) = Len(frames) + 1 /\ Framed(frames) /\ Written(text) /\ LexOK(lex)
  BY <1>1 DEF Inv, Building, Values, Reading, Running
<1>3. Linked(tree) /\ IsSeq(tree.cursor) /\ tree.cursor # <<>>
  BY <1>2 DEF Sound, Pointed
<1>4. b \in Nat /\ b # 0
  <2>1. Len(frames) \in Nat
    BY <1>2, SeqIs DEF Framed
  <2>2. QED
    BY <1>2, <2>1
<1>5. CurrentId(tree) = scopes[b].node
  <2>1. Last(tree.cursor) = tree.cursor[Len(tree.cursor)]
    BY <1>3, SeqFront
  <2>2. Len(tree.cursor) = 2 * b - 1 /\ \A i \in 1 .. b : tree.cursor[2 * i - 1] = scopes[i].node
    BY <1>2 DEF AtScopes
  <2>3. b \in 1 .. b
    BY <1>4
  <2>4. tree.cursor[2 * b - 1] = scopes[b].node
    BY ONLY <2>2, <2>3
  <2>5. QED
    BY ONLY <2>1, <2>2, <2>4 DEF CurrentId
<1>6. /\ LexedIn(lex, text) /\ tree.nodes[scopes[1].node].kind = "SCOPE_MODULE"
      /\ ChainedIn(tree) /\ OwnersAt(tree, scopes)
      /\ Fits(text) => /\ NestedIn(tree, text) /\ LoopsIn(tree, text)
                       /\ Laid(lex, text, tree, scopes, "statement")
  BY <1>1 DEF Nest, Parsing
<1>7. HasStatement(lex.toks)
  <2>1. FirstSays(lex.toks)
    BY <1>1, <1>2, <1>6, FirstToken
  <2>2. QED
    BY <1>1, <2>1 DEF FirstSays
<1>8. Fits(text) => InBlocks(lex, text, tree, scopes)
  BY <1>6, <1>7 DEF Laid, Alive
<1>9. Fits(text) => StatementIn(lex, text, tree, scopes, b)
  BY <1>1, <1>2, <1>4, <1>6, <1>8 DEF StatementIn
<1>10. b = Len(scopes)
  OBVIOUS
<1>11. QED
  BY ONLY <1>1, <1>2, <1>3, <1>4, <1>5, <1>6, <1>9, <1>10 DEF Meets

\* The loop that is left is that of a scope.
LEMMA LeavesOne ==
  ASSUME ScopesIn(scopes, Newest(tree)), LoopToLeave # 0
  PROVE  \E i \in 2 .. Len(scopes) : /\ LoopToLeave = scopes[i].owner
                                     /\ scopes[i].owner \in 1 .. Newest(tree)
                                     /\ tree.nodes[scopes[i].owner].kind = "WHILE_STATEMENT"
<1>1. PICK loops : loops = {i \in 2 .. Len(scopes) : tree.nodes[scopes[i].owner].kind = "WHILE_STATEMENT"}
  OBVIOUS
<1>2. LoopToLeave = IF loops = {} THEN 0 ELSE scopes[CHOOSE i \in loops : \A j \in loops : i <= j].owner
  BY ONLY <1>1 DEF LoopToLeave
<1>3. loops # {} /\ loops \subseteq Nat /\ loops \subseteq 2 .. Len(scopes)
  <2>1. IsSeq(scopes)
    BY DEF ScopesIn
  <2>2. Len(scopes) \in Nat
    BY <2>1, SeqIs
  <2>3. loops \subseteq 2 .. Len(scopes)
    BY ONLY <1>1
  <2>4. \A i \in 2 .. Len(scopes) : i \in Nat
    BY ONLY <2>2
  <2>5. loops # {}
    <3>1. LoopToLeave # 0
      OBVIOUS
    <3>2. QED
      BY ONLY <1>2, <3>1
  <2>6. QED
    BY ONLY <2>3, <2>4, <2>5
<1>4. \E i \in loops : \A j \in loops : i <= j
  BY ONLY <1>3, Least
<1>5. PICK i \in loops : i = CHOOSE k \in loops : \A j \in loops : k <= j
  BY ONLY <1>4, Zenon
<1>6. LoopToLeave = scopes[i].owner
  BY ONLY <1>2, <1>3, <1>5
<1>7. i \in 2 .. Len(scopes) /\ tree.nodes[scopes[i].owner].kind = "WHILE_STATEMENT"
  BY ONLY <1>1, i \in loops
<1>8. scopes[i].owner \in 1 .. Newest(tree)
  <2>1. i \in DOMAIN scopes /\ i # 1
    <3>1. IsSeq(scopes)
      BY DEF ScopesIn
    <3>2. Len(scopes) \in Nat /\ DOMAIN scopes = 1 .. Len(scopes)
      BY <3>1, SeqIs
    <3>3. QED
      BY ONLY <1>7, <3>2
  <2>2. scopes[i].owner \in 0 .. Newest(tree) /\ scopes[i].owner # 0 /\ scopes[i].node \in 1 .. Newest(tree)
    BY <2>1 DEF ScopesIn
  <2>3. QED
    BY ONLY <2>2
<1>9. QED
  BY ONLY <1>6, <1>7, <1>8

\* A statement of the line seen is where it belongs.
LEMMA GrownPlaces ==
  ASSUME NEW b, Meets(b), Fits(text), NEW u, NEW n, NEW C, NEW c, NEW id, GrewTo(tree, u, n, C, c, id),
         n.at = Here, n.to \in {0, LoopToLeave}
  PROVE  NestedIn(u, text) /\ LoopsIn(u, text)
<1>1. /\ c = CurrentId(tree) /\ id = Newest(tree) + 1 /\ Gets(tree, u, c, id) /\ c \in 1 .. Newest(tree)
      /\ u.nodes[id].to = n.to /\ u.nodes[id].at = n.at
      /\ \A i \in id + 1 .. Newest(u) : u.nodes[i].to = 0
  BY DEF GrewTo
<1>2. /\ NestedIn(tree, text) /\ LoopsIn(tree, text) /\ StatementIn(lex, text, tree, scopes, b)
      /\ OwnersAt(tree, scopes) /\ ScopesIn(scopes, Newest(tree)) /\ b = Len(scopes) /\ b \in Nat
      /\ tree.nodes[scopes[1].node].kind = "SCOPE_MODULE" /\ CurrentId(tree) = scopes[b].node
  BY DEF Meets
<1>3. Here = Len(text)
  BY DEF Here
<1>4. ASSUME IsOperation(tree, c)
      PROVE  u.nodes[id].at \in 1 .. Len(text) /\ HeaderIn(text, u.nodes[id].at) = tree.nodes[c].at
  <2>1. b # 1
    <3>1. tree.nodes[c].kind = "SCOPE_OPERATION"
      BY <1>4 DEF IsOperation
    <3>2. QED
      BY ONLY <1>1, <1>2, <3>1
  <2>2. Len(text) \in 1 .. Len(text) /\ HeaderIn(text, Len(text)) = HeadAt(tree, scopes, b)
    BY ONLY <1>2, <2>1, StatementPlace
  <2>3. HeadAt(tree, scopes, b) = tree.nodes[c].at
    BY ONLY <1>1, <1>2 DEF HeadAt
  <2>4. u.nodes[id].at = Len(text)
    BY <1>1, <1>3
  <2>5. QED
    BY ONLY <2>2, <2>3, <2>4
<1>5. NestedIn(u, text)
  BY ONLY <1>1, <1>2, <1>4, NestedStays
<1>6. ASSUME NEW i \in Newest(tree) + 1 .. Newest(u), u.nodes[i].to # 0
      PROVE  InLoop(tree, text, u.nodes[i].to) /\ u.nodes[i].at = Len(text)
  <2>1. Newest(tree) \in Nat /\ Newest(u) \in Nat
    BY <1>1 DEF Gets
  <2>2. i = id \/ i \in id + 1 .. Newest(u)
    BY ONLY <1>1, <2>1, i \in Newest(tree) + 1 .. Newest(u)
  <2>3. i = id
    BY ONLY <1>1, <1>6, <2>2
  <2>4. u.nodes[i].to = LoopToLeave /\ LoopToLeave # 0 /\ u.nodes[i].at = Len(text)
    BY <1>1, <1>3, <1>6, <2>3
  <2>5. PICK k \in 2 .. Len(scopes) : /\ LoopToLeave = scopes[k].owner
                                      /\ scopes[k].owner \in 1 .. Newest(tree)
                                      /\ tree.nodes[scopes[k].owner].kind = "WHILE_STATEMENT"
    BY ONLY <1>2, <2>4, LeavesOne
  <2>6. k \in 2 .. b
    BY ONLY <1>2, k \in 2 .. Len(scopes)
  <2>7. InLoop(tree, text, scopes[k].owner)
    BY ONLY <1>2, <2>5, <2>6, LoopPlace
  <2>8. QED
    BY ONLY <2>4, <2>5, <2>7
<1>7. LoopsIn(u, text)
  BY ONLY <1>1, <1>2, <1>6, LoopsStay
<1>8. QED
  BY ONLY <1>5, <1>7

\* Scopes stay with their lines.
LEMMA ScopesKept ==
  ASSUME NEW t, NEW u, Extends(t, u), NEW ss, NEW rr, ScopesIn(ss, Newest(t)), SameScopes(ss, rr),
         NEW b, b = Len(ss)
  PROVE  /\ Like(t, ss, u, rr, b) /\ Len(rr) = b /\ b \in Nat
         /\ OwnersAt(t, ss) => OwnersAt(u, rr)
         /\ b # 0 => u.nodes[rr[1].node].kind = t.nodes[ss[1].node].kind
<1>1. IsSeq(ss) /\ Len(rr) = b
  BY DEF ScopesIn, SameScopes
<1>2. b \in Nat /\ DOMAIN ss = 1 .. b
  BY <1>1, SeqIs
<1>3. \A i \in 1 .. b : ss[i].owner \in 0 .. Newest(t) /\ ss[i].node \in 1 .. Newest(t) /\ (i # 1 => ss[i].owner # 0)
  BY <1>2 DEF ScopesIn
<1>4. \A i \in 1 .. b : rr[i].owner = ss[i].owner /\ rr[i].node = ss[i].node /\ rr[i].ind = ss[i].ind
  BY DEF SameScopes
<1>5. \A i \in 1 .. Newest(t) : u.nodes[i].at = t.nodes[i].at /\ u.nodes[i].kind = t.nodes[i].kind
  BY DEF Extends, Same
<1>6. \A i \in 2 .. b : i \in 1 .. b /\ i # 1
  BY ONLY <1>2
<1>7. Like(t, ss, u, rr, b)
  BY ONLY <1>3, <1>4, <1>5, <1>6 DEF Like, HeadAt
<1>8. ASSUME OwnersAt(t, ss), NEW i \in 2 .. Len(rr), u.nodes[rr[i].owner].kind = "WHILE_STATEMENT"
      PROVE  u.nodes[rr[i].owner].at = HeadAt(u, rr, i)
  <2>1. i \in 2 .. b /\ i \in 2 .. Len(ss)
    BY <1>1
  <2>2. ss[i].owner \in 1 .. Newest(t) /\ rr[i].owner = ss[i].owner
    <3>1. ss[i].owner \in 0 .. Newest(t) /\ ss[i].owner # 0 /\ rr[i].owner = ss[i].owner
      BY ONLY <1>3, <1>4, <1>6, <2>1
    <3>2. QED
      BY ONLY <3>1
  <2>3. t.nodes[ss[i].owner].kind = "WHILE_STATEMENT" /\ u.nodes[rr[i].owner].at = t.nodes[ss[i].owner].at
    BY ONLY <1>5, <1>8, <2>2
  <2>4. t.nodes[ss[i].owner].at = HeadAt(t, ss, i)
    BY ONLY <1>8, <2>1, <2>3 DEF OwnersAt
  <2>5. HeadAt(u, rr, i) = HeadAt(t, ss, i)
    BY ONLY <1>7, <2>1 DEF Like
  <2>6. QED
    BY ONLY <2>3, <2>4, <2>5
<1>9. OwnersAt(t, ss) => OwnersAt(u, rr)
  BY ONLY <1>8 DEF OwnersAt
<1>10. b # 0 => u.nodes[rr[1].node].kind = t.nodes[ss[1].node].kind
  <2>1. b # 0 => 1 \in 1 .. b
    BY ONLY <1>2
  <2>2. QED
    BY ONLY <1>3, <1>4, <1>5, <2>1
<1>11. QED
  BY ONLY <1>1, <1>2, <1>7, <1>9, <1>10

\* What is taken of the line of a statement.
LEMMA StatementTakes ==
  ASSUME NEW b, Meets(b), NEW n \in 1 .. Len(lex.toks), NEW y, y = Taken(lex, n)
  PROVE  TakenFrom(lex, text, n, y) /\ LexedIn(y, text)
<1>1. TakenFrom(lex, text, n, y)
  BY DEF Meets, TakenFrom
<1>2. QED
  BY ONLY <1>1, TokensGo DEF TakenTo

LEMMA NestAdds ==
  ASSUME Inv, Nest, Parse, Adds
  PROVE  Nest'
<1>1. Parsing /\ Sees("STATEMENT") /\ Running
  BY ParseIs, ParseEnds DEF Sees
<1>2. SUFFICES ASSUME ~reported'
               PROVE  Nest'
  BY DEF Nest
<1>3. /\ ~reported /\ UNCHANGED <<menu, text, pc, reported, status>> /\ SameScopes(scopes, scopes')
      /\ Added(tree') /\ pc = "statement"
  BY <1>1, <1>2 DEF Adds, Parsing
<1>4. PICK k \in 1 .. Len(lex.toks) : lex' = Taken(lex, k)
  BY DEF Adds, Take
<1>5. PICK b, u, rr, y : b = Len(scopes) /\ u = tree' /\ rr = scopes' /\ y = lex'
  BY Zenon
<1>6. Meets(b)
  BY ONLY Inv, Nest, <1>1, <1>3, <1>5, StatementMet
<1>7. PICK n : /\ Grew(tree, u, n, {}) /\ n.at = Here /\ n.to \in {0, LoopToLeave}
               /\ n.kind \notin {"IF_STATEMENT", "DECL_FUNC"}
  BY ONLY <1>3, <1>5 DEF Added
<1>8. PICK c, id : c = CurrentId(tree) /\ id = Newest(tree) + 1
  BY Zenon
<1>9. /\ Linked(tree) /\ Sound(tree) /\ ChainedIn(tree) /\ OwnersAt(tree, scopes)
      /\ ScopesIn(scopes, Newest(tree)) /\ tree.nodes[scopes[1].node].kind = "SCOPE_MODULE" /\ b # 0
  BY ONLY <1>6 DEF Meets
<1>10. GrewTo(tree, u, n, {}, c, id)
  BY ONLY <1>7, <1>8, <1>9, GrewSays
<1>11. Extends(tree, u) /\ Linked(u) /\ Newest(tree) \in Nat /\ Newest(u) \in Nat
  BY ONLY <1>7, <1>10 DEF GrewTo, Gets, Grew, Sound
<1>12. /\ Like(tree, scopes, u, rr, b) /\ Len(rr) = b /\ b \in Nat /\ OwnersAt(u, rr)
       /\ u.nodes[rr[1].node].kind = "SCOPE_MODULE"
  BY ONLY <1>3, <1>5, <1>9, <1>11, ScopesKept
<1>13. ChainedIn(u)
  <2>1. u.nodes[id].ifType = "NONE"
    <3>1. id \in 1 .. Newest(u)
      BY ONLY <1>8, <1>10, <1>11 DEF GrewTo, Gets
    <3>2. u.nodes[id].kind # "IF_STATEMENT"
      BY ONLY <1>7, <1>10 DEF GrewTo
    <3>3. QED
      BY ONLY <1>11, <3>1, <3>2, IfIs
  <2>2. MayChain(tree, u, n, {}, c, id)
    BY ONLY <1>9, <1>10, <1>11, <2>1 DEF MayChain
  <2>3. QED
    BY ONLY <1>9, <2>2, ChainsGrow
<1>14. TakenFrom(lex, text, k, y) /\ LexedIn(y, text)
  BY ONLY <1>4, <1>5, <1>6, StatementTakes
<1>15. Fits(text) => NestedIn(u, text) /\ LoopsIn(u, text)
  BY ONLY <1>6, <1>7, <1>10, GrownPlaces
<1>16. Fits(text) => Laid(y, text, u, rr, "statement")
  <2>1. Fits(text) => Laid(lex, text, tree, scopes, "statement")
    BY ONLY <1>6 DEF Meets
  <2>2. Written(text) /\ lex.toks[1].tok = "STATEMENT"
    BY ONLY <1>6 DEF Meets
  <2>3. QED
    BY ONLY <1>5, <1>12, <1>14, <2>1, <2>2, LaidAdds
<1>17. QED
  BY ONLY <1>3, <1>5, <1>12, <1>13, <1>14, <1>15, <1>16 DEF Nest

\* What an `or` or an `else` continues is the last statement of its operation.
LEMMA ContinuesLast ==
  ASSUME Linked(tree), ScopesIn(scopes, Newest(tree)), scopes # <<>>, ChainedIn(tree), Continued # 0,
         NEW c, c = CurrentScope.node, IsOperation(tree, c)
  PROVE  tree.nodes[c].kids # <<>> /\ Last(tree.nodes[c].kids) = Continued
<1>1. PICK kids, L : kids = tree.nodes[c].kids /\ L = LastStatement
  BY Zenon
<1>2. L = IF kids = <<>> THEN 0 ELSE Last(kids)
  BY <1>1 DEF LastStatement
<1>3. /\ L # 0 /\ Continued = ChainEnd[L] /\ L \in 0 .. Newest(tree)
  BY <1>1, ContinuedIs
<1>4. kids # <<>> /\ L = Last(kids)
  BY ONLY <1>2, <1>3
<1>5. c \in 1 .. Newest(tree)
  BY DEF IsOperation
<1>6. IsSeq(kids) /\ Newest(tree) \in Nat
  BY <1>1, <1>5, KidsAre
<1>7. /\ L = kids[Len(kids)] /\ Len(kids) \in DOMAIN kids /\ Len(kids) \in Nat
  BY ONLY <1>4, <1>6, SeqFront, SeqIs
<1>8. L \in 1 .. Newest(tree)
  BY ONLY <1>3, <1>6
<1>9. tree.nodes[L].ifType # "IF_OR"
  <2>1. SUFFICES ASSUME tree.nodes[L].ifType = "IF_OR"
                 PROVE  FALSE
    OBVIOUS
  <2>2. OrsBehind(tree) /\ OnePlace(tree)
    BY DEF ChainedIn
  <2>3. PICK o, next : o \in 1 .. Newest(tree) /\ Behind(tree, o, L, next)
    BY ONLY <1>8, <2>1, <2>2 DEF OrsBehind
  <2>4. PICK s : s = tree.nodes[o].kids
    OBVIOUS
  <2>5. PICK k \in 2 .. Len(s) : s[k - 1] = L
    BY ONLY <2>3, <2>4 DEF Behind
  <2>6. IsOperation(tree, o) /\ IsSeq(s) /\ Len(s) \in Nat /\ DOMAIN s = 1 .. Len(s)
    <3>1. IsOperation(tree, o)
      BY ONLY <2>3 DEF Behind
    <3>2. IsSeq(s)
      BY <2>3, <2>4, KidsAre
    <3>3. QED
      BY ONLY <3>1, <3>2, SeqIs
  <2>7. k - 1 \in DOMAIN s
    BY ONLY <2>6, k \in 2 .. Len(s)
  <2>8. IsOperation(tree, c)
    OBVIOUS
  <2>9. o = c /\ k - 1 = Len(kids)
    BY ONLY <1>1, <1>5, <1>7, <2>2, <2>3, <2>4, <2>5, <2>6, <2>7, <2>8 DEF OnePlace
  <2>10. s = kids
    BY ONLY <1>1, <2>4, <2>9
  <2>11. QED
    BY ONLY <1>7, <2>9, <2>10, k \in 2 .. Len(s)
<1>10. Continued = L
  <2>1. ChainEnd[L] = ChainAt(ChainEnd, L)
    BY <1>8, ChainEndIs
  <2>2. QED
    BY ONLY <1>3, <1>9, <2>1 DEF ChainAt
<1>11. QED
  BY ONLY <1>1, <1>4, <1>10

\* Where the program stops nothing else changes.
LEMMA StopNest ==
  ASSUME Nest, NEW error \in BOOLEAN, NEW how, how # "running", StopAfter(error, how), reported \in BOOLEAN
  PROVE  Nest'
<1>1. SUFFICES ASSUME ~reported'
               PROVE  Nest'
  BY DEF Nest
<1>2. ~reported /\ status' = how /\ UNCHANGED <<menu, text, lex, pc, frames, scopes, tree>>
  BY <1>1 DEF StopAfter
<1>3. PICK u, rr : u = tree' /\ rr = scopes'
  BY Zenon
<1>4. ~Running'
  BY <1>2 DEF Running
<1>5. /\ ChainedIn(tree) /\ OwnersAt(tree, scopes)
      /\ Fits(text) => NestedIn(tree, text) /\ LoopsIn(tree, text)
  BY <1>2 DEF Nest
<1>6. /\ ChainedIn(u) /\ OwnersAt(u, rr)
      /\ Fits(text) => NestedIn(u, text) /\ LoopsIn(u, text)
  BY ONLY <1>2, <1>3, <1>5
<1>7. text' = text
  BY <1>2
<1>8. QED
  BY ONLY <1>3, <1>4, <1>6, <1>7 DEF Nest

\* Tree t, in which a block is opened for node `owner`, is as it should be.
GrownFor(t, owner) ==
  /\ ChainedIn(t) /\ (Fits(text) => NestedIn(t, text) /\ LoopsIn(t, text))
  /\ t.nodes[owner].kind = "WHILE_STATEMENT" => t.nodes[owner].at = Here

LEMMA NewGrows ==
  ASSUME NEW b, Meets(b), NEW t, NEW owner, OpenedNew(t, owner)
  PROVE  GrownFor(t, owner)
<1>1. PICK n : Grew(tree, t, n, {owner}) /\ n.at = Here /\ n.to = 0
  BY DEF OpenedNew
<1>2. PICK c, id, C : c = CurrentId(tree) /\ id = Newest(tree) + 1 /\ C = {owner}
  BY Zenon
<1>3. Sound(tree) /\ Linked(tree) /\ ChainedIn(tree)
  BY DEF Meets
<1>4. GrewTo(tree, t, n, C, c, id)
  BY ONLY <1>1, <1>2, <1>3, GrewSays
<1>5. owner = id /\ t.nodes[id].ifType \in {"NONE", "IF"}
  BY <1>2 DEF OpenedNew
<1>6. Linked(t)
  BY <1>1 DEF Grew, Sound
<1>7. \A i \in C : i \notin 1 .. Newest(tree)
  <2>1. Newest(tree) \in Nat
    BY <1>3, SeqIs DEF Linked, Newest
  <2>2. QED
    BY ONLY <1>2, <1>5, <2>1
<1>8. ChainedIn(t)
  <2>1. MayChain(tree, t, n, C, c, id)
    BY ONLY <1>3, <1>4, <1>5, <1>6, <1>7 DEF MayChain
  <2>2. QED
    BY ONLY <1>3, <2>1, ChainsGrow
<1>9. Fits(text) => NestedIn(t, text) /\ LoopsIn(t, text)
  BY <1>1, <1>4, GrownPlaces
<1>10. t.nodes[owner].at = Here
  BY ONLY <1>1, <1>4, <1>5 DEF GrewTo
<1>11. QED
  BY ONLY <1>8, <1>9, <1>10 DEF GrownFor

LEMMA OrGrows ==
  ASSUME NEW b, Meets(b), NEW t, NEW owner, OpenedOr(t, owner)
  PROVE  GrownFor(t, owner)
<1>1. PICK n : Grew(tree, t, n, {owner, Continued}) /\ n.at = Here /\ n.to = 0
  BY DEF OpenedOr
<1>2. PICK c, id, d : c = CurrentId(tree) /\ id = Newest(tree) + 1 /\ d = Continued
  BY Zenon
<1>3. PICK C : C = {owner, d}
  OBVIOUS
<1>4. /\ Sound(tree) /\ Linked(tree) /\ ChainedIn(tree) /\ ScopesIn(scopes, Newest(tree))
      /\ b = Len(scopes) /\ b \in Nat /\ b # 0 /\ c = scopes[b].node
  BY <1>2 DEF Meets
<1>5. GrewTo(tree, t, n, C, c, id)
  BY ONLY <1>1, <1>2, <1>3, <1>4, GrewSays
<1>6. /\ owner = id /\ t.nodes[id].ifType = "IF" /\ d # 0 /\ tree.nodes[c].kind = "SCOPE_OPERATION"
      /\ t.nodes[d].ifType = "IF_OR" /\ t.nodes[d].elseBlock = id
  BY <1>2 DEF OpenedOr
<1>7. Linked(t)
  BY <1>1 DEF Grew, Sound
<1>8. Gets(tree, t, c, id) /\ c \in 1 .. Newest(tree) /\ t.nodes[id].at = n.at
  BY ONLY <1>5 DEF GrewTo
<1>9. IsOperation(tree, c)
  BY ONLY <1>6, <1>8 DEF IsOperation
<1>10. tree.nodes[c].kids # <<>> /\ Last(tree.nodes[c].kids) = d
  <2>1. IsSeq(scopes) /\ scopes # <<>>
    <3>1. IsSeq(scopes)
      BY <1>4 DEF ScopesIn
    <3>2. QED
      BY <1>4, <3>1, SeqIs
  <2>2. Last(scopes) = scopes[Len(scopes)]
    BY ONLY <2>1, SeqFront
  <2>3. c = CurrentScope.node
    BY ONLY <1>4, <2>2 DEF CurrentScope
  <2>4. Continued # 0
    BY <1>2, <1>6
  <2>5. tree.nodes[c].kids # <<>> /\ Last(tree.nodes[c].kids) = Continued
    BY ONLY <1>4, <1>9, <2>1, <2>3, <2>4, ContinuesLast
  <2>6. QED
    BY ONLY <1>2, <2>5
<1>11. Behind(t, c, d, id)
  BY ONLY <1>8, <1>9, <1>10, NewBehind
<1>12. \A i \in C : i \in 1 .. Newest(tree) => t.nodes[i].ifType = "IF_OR" /\ Behind(t, c, i, t.nodes[i].elseBlock)
  <2>1. Newest(tree) \in Nat
    BY <1>4, SeqIs DEF Linked, Newest
  <2>2. id \notin 1 .. Newest(tree)
    BY ONLY <1>2, <2>1
  <2>3. QED
    BY ONLY <1>3, <1>6, <1>11, <2>2
<1>13. ChainedIn(t)
  <2>1. MayChain(tree, t, n, C, c, id)
    BY ONLY <1>4, <1>5, <1>6, <1>7, <1>12 DEF MayChain
  <2>2. QED
    BY ONLY <1>4, <2>1, ChainsGrow
<1>14. Fits(text) => NestedIn(t, text) /\ LoopsIn(t, text)
  BY <1>1, <1>5, GrownPlaces
<1>15. t.nodes[owner].at = Here
  BY ONLY <1>1, <1>6, <1>8
<1>16. QED
  BY ONLY <1>13, <1>14, <1>15 DEF GrownFor

LEMMA ElseGrows ==
  ASSUME NEW b, Meets(b), NEW t, Linked(t), NEW owner, OpenedElse(t, owner, FALSE), ~reported,
         CurrentId(t) \in 1 .. Newest(t), CurrentId(t) > Newest(tree)
  PROVE  GrownFor(t, owner)
<1>1. PICK d : d = Continued
  OBVIOUS
<1>2. /\ owner = d /\ d # 0 /\ Builds(tree, t, {d}) /\ t.nodes[d].ifType = "IF_ELSE"
      /\ t.nodes[d].elseBlock = CurrentId(t) /\ t.nodes[d].block = tree.nodes[d].block
  BY <1>1 DEF OpenedElse
<1>3. /\ Linked(tree) /\ ChainedIn(tree) /\ ScopesIn(scopes, Newest(tree))
      /\ b = Len(scopes) /\ b \in Nat /\ b # 0
      /\ Fits(text) => NestedIn(tree, text) /\ LoopsIn(tree, text)
  BY DEF Meets
<1>4. d \in 1 .. Newest(tree) /\ tree.nodes[d].kind = "IF_STATEMENT"
  <2>1. IsSeq(scopes)
    BY <1>3 DEF ScopesIn
  <2>2. scopes # <<>>
    BY <1>3, <2>1, SeqIs
  <2>3. QED
    BY <1>1, <1>2, <1>3, <2>2, ContinuedIs
<1>5. Newest(tree) \in Nat /\ Newest(t) \in Nat
  BY <1>3, SeqIs DEF Linked, Newest
<1>6. ChainedIn(t)
  <2>1. CurrentId(t) \in Newest(tree) + 1 .. Newest(t)
    <3>1. PICK k : k = CurrentId(t) /\ k \in 1 .. Newest(t) /\ k > Newest(tree)
      OBVIOUS
    <3>2. k \in Newest(tree) + 1 .. Newest(t)
      BY ONLY <1>5, <3>1
    <3>3. QED
      BY <3>1, <3>2
  <2>2. Linked(t)
    OBVIOUS
  <2>3. MayElse(tree, t, d)
    BY ONLY <1>2, <1>3, <1>4, <2>1, <2>2 DEF MayElse
  <2>4. QED
    BY ONLY <1>3, <2>3, ChainsElse
<1>7. Gets(tree, t, 0, 0)
  BY <1>2, <1>3, BuildsGets
<1>8. \A i \in Newest(tree) + 1 .. Newest(t) : t.nodes[i].to = 0
  BY <1>2 DEF Builds
<1>9. Fits(text) => NestedIn(t, text) /\ LoopsIn(t, text)
  <2>1. SUFFICES ASSUME Fits(text) PROVE NestedIn(t, text) /\ LoopsIn(t, text)
    OBVIOUS
  <2>2. NestedIn(t, text)
    BY ONLY <1>3, <1>7, <2>1, NestedStays
  <2>3. LoopsIn(t, text)
    BY ONLY <1>3, <1>7, <1>8, <2>1, LoopsStay
  <2>4. QED
    BY ONLY <2>2, <2>3
<1>10. t.nodes[owner].kind # "WHILE_STATEMENT"
  BY <1>2, <1>4 DEF Builds, Extends, Same
<1>11. QED
  BY ONLY <1>6, <1>9, <1>10 DEF GrownFor

\* The scopes with the new one.
LEMMA ScopeAdded ==
  ASSUME NEW b, Meets(b), NEW t, NEW owner, NEW ss, NEW error \in BOOLEAN, OpensWell(t, owner, ss, error),
         t.nodes[CurrentId(t)].at = Here, GrownFor(t, owner),
         NEW decls, NEW rr, rr = Append(ss, Scope(owner, CurrentId(t), decls))
  PROVE  /\ ScopeMore(text, tree, scopes, t, rr, b) /\ OwnersAt(t, rr)
         /\ t.nodes[rr[1].node].kind = "SCOPE_MODULE"
<1>1. PICK op : op = CurrentId(t)
  OBVIOUS
<1>2. /\ Sound(t) /\ Extends(tree, t) /\ owner \in 1 .. Newest(t) /\ op \in 1 .. Newest(t)
      /\ SameScopes(scopes, ss)
  BY <1>1 DEF OpensWell
<1>3. /\ b = Len(scopes) /\ b \in Nat /\ b # 0 /\ Linked(tree) /\ OwnersAt(tree, scopes)
      /\ ScopesIn(scopes, Newest(tree)) /\ tree.nodes[scopes[1].node].kind = "SCOPE_MODULE"
  BY DEF Meets
<1>4. Newest(tree) \in Nat /\ Newest(t) \in Nat /\ Newest(tree) <= Newest(t)
  BY <1>2, <1>3, SeqIs DEF Linked, Newest, Extends, Sound
<1>5. /\ Like(tree, scopes, t, ss, b) /\ Len(ss) = b /\ OwnersAt(t, ss)
      /\ t.nodes[ss[1].node].kind = "SCOPE_MODULE"
  BY ONLY <1>2, <1>3, ScopesKept
<1>6. ScopesIn(ss, Newest(t))
  BY ONLY <1>2, <1>3, <1>4, ScopesStay, SameScopesIn
<1>7. ss # <<>>
  BY <1>3, <1>5, <1>6, SeqIs DEF ScopesIn
<1>8. rr = Append(ss, Scope(owner, op, decls))
  BY <1>1
<1>9. /\ Len(rr) = b + 1 /\ \A i \in 1 .. b : rr[i] = ss[i]
      /\ rr[b + 1].owner = owner /\ rr[b + 1].node = op
  BY ONLY <1>2, <1>4, <1>5, <1>6, <1>7, <1>8, ScopeOpened
<1>10. HeadAt(t, rr, b + 1) = Len(text)
  <2>1. t.nodes[op].at = Len(text)
    BY <1>1 DEF Here
  <2>2. QED
    BY ONLY <1>9, <2>1 DEF HeadAt
<1>11. \A i \in 2 .. b : rr[i] = ss[i] /\ HeadAt(t, rr, i) = HeadAt(t, ss, i)
  <2>1. \A i \in 2 .. b : i \in 1 .. b
    BY ONLY <1>3
  <2>2. QED
    BY ONLY <1>9, <2>1 DEF HeadAt
<1>12. Like(tree, scopes, t, rr, b)
  BY ONLY <1>5, <1>11 DEF Like
<1>13. ScopeMore(text, tree, scopes, t, rr, b)
  BY ONLY <1>3, <1>9, <1>10, <1>12 DEF ScopeMore
<1>14. ASSUME NEW i \in 2 .. Len(rr), t.nodes[rr[i].owner].kind = "WHILE_STATEMENT"
       PROVE  t.nodes[rr[i].owner].at = HeadAt(t, rr, i)
  <2>1. i \in 2 .. b \/ i = b + 1
    BY ONLY <1>3, <1>9, i \in 2 .. Len(rr)
  <2>2. CASE i \in 2 .. b
    <3>1. t.nodes[ss[i].owner].kind = "WHILE_STATEMENT" /\ i \in 2 .. Len(ss)
      BY ONLY <1>5, <1>11, <1>14, <2>2
    <3>2. t.nodes[ss[i].owner].at = HeadAt(t, ss, i)
      BY ONLY <1>5, <3>1 DEF OwnersAt
    <3>3. QED
      BY ONLY <1>11, <2>2, <3>2
  <2>3. CASE i = b + 1
    <3>1. t.nodes[owner].kind = "WHILE_STATEMENT" => t.nodes[owner].at = Len(text)
      BY DEF GrownFor, Here
    <3>2. QED
      BY ONLY <1>9, <1>10, <1>14, <2>3, <3>1
  <2>4. QED
    BY ONLY <2>1, <2>2, <2>3
<1>15. OwnersAt(t, rr)
  BY ONLY <1>14 DEF OwnersAt
<1>16. t.nodes[rr[1].node].kind = "SCOPE_MODULE"
  <2>1. 1 \in 1 .. b
    BY ONLY <1>3
  <2>2. QED
    BY ONLY <1>5, <1>9, <2>1
<1>17. QED
  BY ONLY <1>13, <1>15, <1>16

LEMMA NestOpens ==
  ASSUME Inv, Nest, Parse, OpensBlock
  PROVE  Nest'
<1>1. Parsing /\ Sees("STATEMENT") /\ Running /\ reported \in BOOLEAN
  BY ParseIs, ParseEnds DEF Sees, Inv, Values
<1>2. SUFFICES ASSUME ~reported'
               PROVE  Nest'
  BY DEF Nest
<1>3. PICK t, owner, ss, decls : \E error \in BOOLEAN :
        /\ Opens(t, owner, ss, decls, error)
        /\ t = Panicked \/ (OpensWell(t, owner, ss, error) /\ OpenedFor(t, owner, error))
  BY DEF OpensBlock
<1>4. PICK error \in BOOLEAN :
        /\ Opens(t, owner, ss, decls, error)
        /\ t = Panicked \/ (OpensWell(t, owner, ss, error) /\ OpenedFor(t, owner, error))
  BY <1>3
<1>5. CASE t = Panicked
  <2>1. StopAfter(FALSE, "panic")
    BY <1>4, <1>5 DEF Opens, Stop
  <2>2. QED
    BY <1>1, <2>1, StopNest
<1>6. CASE t # Panicked
  <2>1. OpensWell(t, owner, ss, error) /\ OpenedFor(t, owner, error)
    BY <1>4, <1>6
  <2>2. /\ tree' = t /\ scopes' = Append(ss, Scope(owner, CurrentId(t), decls)) /\ pc' = "indent"
        /\ reported' = (reported \/ error) /\ lex' = Taken(lex, 1) /\ UNCHANGED <<menu, text, status>>
    BY <1>4, <1>6 DEF Opens, Take
  <2>3. ~reported /\ error = FALSE
    BY <1>2, <2>2
  <2>4. PICK b, rr, y : b = Len(scopes) /\ rr = scopes' /\ y = lex'
    BY Zenon
  <2>5. Meets(b)
    BY ONLY Inv, Nest, <1>1, <2>3, <2>4, StatementMet
  <2>6. /\ CurrentId(t) > Newest(tree) /\ t.nodes[CurrentId(t)].at = Here
        /\ OpenedNew(t, owner) \/ OpenedOr(t, owner) \/ OpenedElse(t, owner, FALSE)
    BY <2>1, <2>3 DEF OpenedFor
  <2>7. Linked(t) /\ CurrentId(t) \in 1 .. Newest(t)
    BY <2>1 DEF OpensWell, Sound
  <2>8. GrownFor(t, owner)
    BY ONLY <2>3, <2>5, <2>6, <2>7, NewGrows, OrGrows, ElseGrows
  <2>9. rr = Append(ss, Scope(owner, CurrentId(t), decls))
    BY <2>2, <2>4
  <2>10. /\ ScopeMore(text, tree, scopes, t, rr, b) /\ OwnersAt(t, rr)
         /\ t.nodes[rr[1].node].kind = "SCOPE_MODULE"
    BY ONLY <2>1, <2>5, <2>6, <2>8, <2>9, error \in BOOLEAN, ScopeAdded
  <2>11. /\ ChainedIn(t) /\ (Fits(text) => NestedIn(t, text) /\ LoopsIn(t, text))
    BY ONLY <2>8 DEF GrownFor
  <2>12. TakenFrom(lex, text, 1, y) /\ LexedIn(y, text)
    <3>1. 1 \in 1 .. Len(lex.toks)
      BY <1>1, TokensTaken
    <3>2. QED
      BY ONLY <2>2, <2>4, <2>5, <3>1, StatementTakes
  <2>13. Fits(text) => Laid(y, text, t, rr, "indent")
    <3>1. Fits(text) => Laid(lex, text, tree, scopes, "statement")
      BY ONLY <2>5 DEF Meets
    <3>2. Written(text) /\ lex.toks[1].tok = "STATEMENT"
      BY ONLY <2>5 DEF Meets
    <3>3. HasBlock(Last(text))
      BY <2>2, ParseIs
    <3>4. b = 1 => Last(text).body.kind = "func"
      <4>1. b = 1 => frames = <<>>
        <5>1. Len(scopes) = Len(frames) + 1 /\ Framed(frames)
          BY <1>1 DEF Inv, Building, Values, Running
        <5>2. Len(frames) \in Nat
          BY <5>1, SeqIs DEF Framed
        <5>3. b = 1 => Len(frames) = 0
          BY ONLY <2>4, <5>1, <5>2
        <5>4. QED
          BY <5>1, <5>3, SeqIs DEF Framed
      <4>2. QED
        BY <4>1, ParseIs DEF InModule, Body_
    <3>5. QED
      BY ONLY <2>10, <2>12, <3>1, <3>2, <3>3, <3>4, LaidOpens
  <2>14. tree' = t /\ text' = text /\ pc' = "indent"
    BY <2>2
  <2>15. QED
    BY ONLY <2>4, <2>10, <2>11, <2>12, <2>13, <2>14 DEF Nest
<1>7. QED
  BY <1>5, <1>6

LEMMA NestParse ==
  ASSUME Inv, Nest, Parse
  PROVE  Nest'
<1>1. Ends /\ reported \in BOOLEAN
  BY ParseEnds DEF Inv, Values
<1>2. CASE Reports
  BY <1>2 DEF Reports, Nest
<1>3. CASE Adds
  BY <1>3, NestAdds
<1>4. CASE OpensBlock
  BY <1>4, NestOpens
<1>5. CASE Panics
  <2>1. PICK error \in BOOLEAN : StopAfter(error, "panic")
    BY <1>5 DEF Panics
  <2>2. QED
    BY <1>1, <2>1, StopNest
<1>6. QED
  BY <1>1, <1>2, <1>3, <1>4, <1>5 DEF Ends

-----------------------------------------------------------------------------
(* The lexer and the lines keep it.                                        *)

LEMMA NestSays ==
  ASSUME Inv, Nest, Running, ~reported
  PROVE  /\ LexedIn(lex, text) /\ LexOK(lex) /\ Written(text)
         /\ tree.nodes[scopes[1].node].kind = "SCOPE_MODULE"
         /\ ChainedIn(tree) /\ OwnersAt(tree, scopes)
         /\ Fits(text) => /\ NestedIn(tree, text) /\ LoopsIn(tree, text)
                          /\ Laid(lex, text, tree, scopes, pc)
<1>1. LexOK(lex) /\ Written(text)
  BY DEF Inv, Reading
<1>2. QED
  BY <1>1 DEF Nest

\* The tree and the scopes are the same, the lexer is further.
LEMMA NestReads ==
  ASSUME Inv, Nest, Running, ~reported, UNCHANGED <<pc, tree, scopes, status>>,
         NEW y, y = lex', NEW ty, ty = text', LexedIn(y, ty),
         Fits(ty) => /\ Fits(text)
                     /\ NestedIn(tree, text) => NestedIn(tree, ty)
                     /\ LoopsIn(tree, text) => LoopsIn(tree, ty)
                     /\ Laid(lex, text, tree, scopes, pc) => Laid(y, ty, tree, scopes, pc)
  PROVE  Nest'
<1>1. /\ tree.nodes[scopes[1].node].kind = "SCOPE_MODULE"
      /\ ChainedIn(tree) /\ OwnersAt(tree, scopes)
      /\ Fits(text) => /\ NestedIn(tree, text) /\ LoopsIn(tree, text)
                       /\ Laid(lex, text, tree, scopes, pc)
  BY NestSays
<1>2. Fits(ty) => /\ NestedIn(tree, ty) /\ LoopsIn(tree, ty) /\ Laid(y, ty, tree, scopes, pc)
  BY ONLY <1>1, Fits(ty) => /\ Fits(text)
                            /\ NestedIn(tree, text) => NestedIn(tree, ty)
                            /\ LoopsIn(tree, text) => LoopsIn(tree, ty)
                            /\ Laid(lex, text, tree, scopes, pc) => Laid(y, ty, tree, scopes, pc)
<1>3. PICK u, rr, where : u = tree' /\ rr = scopes' /\ where = pc'
  BY Zenon
<1>4. u = tree /\ rr = scopes /\ where = pc
  BY <1>3
<1>5. /\ u.nodes[rr[1].node].kind = "SCOPE_MODULE"
      /\ ChainedIn(u) /\ OwnersAt(u, rr)
      /\ Fits(ty) => /\ NestedIn(u, ty) /\ LoopsIn(u, ty) /\ Laid(y, ty, u, rr, where)
  BY ONLY <1>1, <1>2, <1>4
<1>6. y = lex' /\ ty = text' /\ LexedIn(y, ty)
  OBVIOUS
<1>7. QED
  BY ONLY <1>3, <1>5, <1>6 DEF Nest

LEMMA NestLex ==
  ASSUME Inv, Nest, Lex
  PROVE  Nest'
<1>1. Running /\ lex.reading
  BY DEF Lex, PassOverBlank, ReadLine, ReadAgain, ReadEnd
<1>2. SUFFICES ASSUME ~reported'
               PROVE  Nest'
  BY DEF Nest
<1>3. reported \in BOOLEAN
  BY DEF Inv, Values
<1>4. ~reported
  BY <1>2, <1>3 DEF Lex, PassOverBlank, ReadLine, ReadAgain, ReadEnd, Read
<1>5. /\ LexedIn(lex, text) /\ LexOK(lex) /\ Written(text)
  BY <1>1, <1>4, NestSays
<1>6. lex.toks = <<>> /\ lex.at \in {"fresh", "end"}
  BY <1>1, <1>5 DEF LexedIn
<1>7. PICK y, ty : y = lex' /\ ty = text'
  BY Zenon
<1>8. UNCHANGED <<pc, tree, scopes, status>>
  BY DEF Lex, PassOverBlank, ReadLine, ReadAgain, ReadEnd
<1>9. CASE PassOverBlank
  <2>1. PICK l \in NextLines : /\ PassesOver(lex, l) /\ text' = Append(text, l)
                               /\ lex' = [lex EXCEPT !.indented = Indented(lex, l.ind)]
    BY <1>9 DEF PassOverBlank
  <2>2. TextLine(l) /\ l.body.kind = "blank" /\ lex.at = "fresh"
    BY <1>9, <2>1, NextLineIs DEF PassesOver, PassOverBlank
  <2>3. PICK n : n = Len(text)
    OBVIOUS
  <2>4. Gains(text, l, ty, n)
    BY <1>5, <1>7, <2>1, <2>2, <2>3 DEF Gains
  <2>5. Passes(lex, text, l, y)
    BY <1>5, <1>6, <1>7, <2>1 DEF Passes
  <2>6. LexedIn(y, ty)
    BY ONLY <2>5, PassedIn
  <2>7. Fits(ty) => Fits(text)
    BY ONLY <2>4, FitsBefore
  <2>8. /\ NestedIn(tree, text) => NestedIn(tree, ty)
        /\ LoopsIn(tree, text) => LoopsIn(tree, ty)
    BY ONLY <2>4, NestedLonger, LoopsLonger
  <2>9. Laid(lex, text, tree, scopes, pc) => Laid(y, ty, tree, scopes, pc)
    BY ONLY <2>2, <2>4, <2>5, LaidPassed
  <2>10. QED
    BY ONLY Inv, Nest, <1>1, <1>4, <1>7, <1>8, <2>6, <2>7, <2>8, <2>9, NestReads
<1>10. CASE ReadLine
  <2>1. PICK l \in NextLines : /\ ~PassesOver(lex, l) /\ text' = Append(text, l) /\ Read(l)
    BY <1>10 DEF ReadLine
  <2>2. TextLine(l) /\ lex.at = "fresh" /\ ~Complains(lex, l) /\ y = Reads(lex, l)
    <3>1. lex' = Reads(lex, l) /\ reported' = (reported \/ Complains(lex, l))
      BY <2>1 DEF Read
    <3>2. QED
      BY <1>2, <1>7, <1>10, <3>1, NextLineIs DEF ReadLine
  <2>3. PICK n : n = Len(text)
    OBVIOUS
  <2>4. Gains(text, l, ty, n)
    BY <1>5, <1>7, <2>1, <2>2, <2>3 DEF Gains
  <2>5. Lexes(lex, text, l, y)
    BY ONLY <1>5, <2>2 DEF Lexes
  <2>6. LexedIn(y, ty)
    BY ONLY <2>4, <2>5, LineLexedIn
  <2>7. Fits(ty) => Fits(text)
    BY ONLY <2>4, FitsBefore
  <2>8. /\ NestedIn(tree, text) => NestedIn(tree, ty)
        /\ LoopsIn(tree, text) => LoopsIn(tree, ty)
    BY ONLY <2>4, NestedLonger, LoopsLonger
  <2>9. LineAt(lex, text, l, y, ty, n)
    BY ONLY <1>6, <2>4, <2>5 DEF LineAt
  <2>10. Fits(ty) => (Laid(lex, text, tree, scopes, pc) => Laid(y, ty, tree, scopes, pc))
    BY ONLY <2>1, <2>2, <2>9, LaidRead
  <2>11. QED
    BY ONLY Inv, Nest, <1>1, <1>4, <1>7, <1>8, <2>6, <2>7, <2>8, <2>10, NestReads
<1>11. CASE ReadAgain
  BY <1>6, <1>11 DEF ReadAgain
<1>12. CASE ReadEnd
  <2>1. y = ReadsEnd(lex) /\ ty = text
    BY <1>7, <1>12 DEF ReadEnd
  <2>2. LexedIn(y, ty) /\ ~Alive(y)
    BY ONLY <1>5, <2>1, EndLexedIn
  <2>3. Laid(y, ty, tree, scopes, pc)
    BY ONLY <2>2 DEF Laid
  <2>4. QED
    BY ONLY Inv, Nest, <1>1, <1>4, <1>7, <1>8, <2>1, <2>2, <2>3, NestReads
<1>13. QED
  BY <1>9, <1>10, <1>11, <1>12 DEF Lex

\* A token is taken, or a line called for.
LEMMA NextTokens ==
  ASSUME Inv, Nest, Running, ~reported
  PROVE  /\ lex.toks # <<>> => /\ TakenFrom(lex, text, 1, Taken(lex, 1)) /\ LexedIn(Taken(lex, 1), text)
                               /\ Head(lex.toks) = lex.toks[1]
         /\ LexedIn(Call(lex), text) /\ ~NoToken
<1>1. LexedIn(lex, text) /\ LexOK(lex)
  BY NestSays
<1>2. ASSUME lex.toks # <<>>
      PROVE  /\ TakenFrom(lex, text, 1, Taken(lex, 1)) /\ LexedIn(Taken(lex, 1), text)
             /\ Head(lex.toks) = lex.toks[1]
  <2>1. Head(lex.toks) = lex.toks[1] /\ 1 \in 1 .. Len(lex.toks)
    BY <1>2, SeesIs
  <2>2. PICK y : y = Taken(lex, 1)
    OBVIOUS
  <2>3. TakenFrom(lex, text, 1, y)
    BY <1>1, <1>2, <2>1, <2>2 DEF TakenFrom
  <2>4. LexedIn(y, text)
    BY ONLY <2>3, TokensGo DEF TakenTo
  <2>5. QED
    BY ONLY <2>1, <2>2, <2>3, <2>4
<1>3. LexedIn(Call(lex), text)
  BY <1>1, CalledFor
<1>4. ~NoToken
  BY <1>1 DEF NoToken, LexedIn
<1>5. QED
  BY ONLY <1>2, <1>3, <1>4

\* The end of a block stops the program, or closes the innermost scope.
LEMMA CloseEnds ==
  ASSUME NEW d, NEW next, NEW error \in BOOLEAN, CloseBlock(d, next, error)
  PROVE  \E e \in BOOLEAN :
           /\ error => e
           /\ \/ \E how \in {"panic", "crash", "generator"} : StopAfter(e, how)
              \/ /\ tree' = DelScope(tree) /\ scopes' = Front(scopes) /\ pc' = "statement"
                 /\ lex' = next /\ reported' = (reported \/ e) /\ UNCHANGED <<text, status>>
<1>1. PICK f : f = CurrentScope.owner
  OBVIOUS
<1>2. PICK verdict : verdict = IF IsFunc(f) THEN AnalyzeFunc(tree, f) ELSE "falls"
  OBVIOUS
<1>3. PICK missing \in BOOLEAN : missing = (IsFunc(f) /\ verdict = "falls" /\ tree.nodes[f].type # "void")
  OBVIOUS
<1>4. PICK closed : closed = DelScope(tree)
  OBVIOUS
<1>5. PICK e1 \in BOOLEAN : e1 = (error \/ missing)
  OBVIOUS
<1>6. \/ StopAfter(error, "panic")
      \/ verdict \in Stops /\ StopAfter(error, verdict)
      \/ StopAfter(e1, "generator")
      \/ StopAfter(e1, "panic")
      \/ /\ tree' = closed /\ scopes' = Front(scopes) /\ frames' = Front(frames) /\ pc' = "statement"
         /\ lex' = next /\ reported' = (reported \/ e1) /\ UNCHANGED <<menu, text, status>>
  <2>1. PICK I : I = CurrentScope.ind
    OBVIOUS
  <2>2. CASE I <= d
    BY <1>1, <1>2, <1>3, <1>4, <1>5, <2>1, <2>2, Zenon DEF CloseBlock
  <2>3. QED
    BY <1>1, <1>2, <1>3, <1>4, <1>5, <2>1 DEF CloseBlock
<1>7. Stops \subseteq {"panic", "crash", "generator"}
  BY DEF Stops
<1>8. (error => e1) /\ error \in BOOLEAN
  BY <1>5
<1>9. QED
  BY ONLY <1>4, <1>6, <1>7, <1>8, e1 \in BOOLEAN

\* A block that ends takes its scope with it.
LEMMA NestCloses ==
  ASSUME Inv, Nest, Running, frames # <<>>, Parsing, lex.toks # <<>>,
         lex.toks[1].tok \in {"DEDENT", "EOF"}, NEW d, CloseBlock(d, Taken(lex, 1), FALSE)
  PROVE  Nest'
<1>1. SUFFICES ASSUME ~reported'
               PROVE  Nest'
  BY DEF Nest
<1>2. reported \in BOOLEAN /\ FALSE \in BOOLEAN
  BY DEF Inv, Values
<1>3. PICK e \in BOOLEAN :
        \/ \E how \in {"panic", "crash", "generator"} : StopAfter(e, how)
        \/ /\ tree' = DelScope(tree) /\ scopes' = Front(scopes) /\ pc' = "statement"
           /\ lex' = Taken(lex, 1) /\ reported' = (reported \/ e) /\ UNCHANGED <<text, status>>
  BY CloseEnds
<1>4. CASE \E how \in {"panic", "crash", "generator"} : StopAfter(e, how)
  BY <1>2, <1>4, StopNest
<1>5. CASE /\ tree' = DelScope(tree) /\ scopes' = Front(scopes) /\ pc' = "statement"
           /\ lex' = Taken(lex, 1) /\ reported' = (reported \/ e) /\ UNCHANGED <<text, status>>
  <2>1. ~reported
    BY <1>1, <1>5
  <2>2. PICK u, rr, y, b : u = tree' /\ rr = scopes' /\ y = lex' /\ b = Len(scopes)
    BY Zenon
  <2>3. /\ Sound(tree) /\ ScopesIn(scopes, Newest(tree)) /\ Len(tree.cursor) >= 2 * Len(scopes) - 1
        /\ Len(scopes) = Len(frames) + 1 /\ Framed(frames)
    BY DEF Inv, Building, Values, Running
  <2>4. b \in Nat /\ b > 1
    <3>1. Len(frames) \in Nat /\ Len(frames) # 0
      BY <2>3, SeqIs DEF Framed
    <3>2. QED
      BY ONLY <2>2, <2>3, <3>1
  <2>5. u.nodes = tree.nodes
    <3>1. PICK w : w = TraverseUp(tree)
      OBVIOUS
    <3>2. Len(tree.cursor) \in Nat
      BY <2>3, SeqIs DEF Sound, Pointed
    <3>3. Len(tree.cursor) > 2
      BY ONLY <2>2, <2>3, <2>4, <3>2
    <3>4. Len(tree.cursor) > 1 /\ Len(tree.cursor) - 1 > 1
      BY ONLY <3>2, <3>3
    <3>5. Sound(w) /\ w.nodes = tree.nodes /\ Len(w.cursor) = Len(tree.cursor) - 1
      BY <2>3, <3>1, <3>4, WentUp
    <3>6. u = TraverseUp(w)
      BY <1>5, <2>2, <3>1 DEF DelScope
    <3>7. u.nodes = w.nodes
      BY ONLY <3>4, <3>5, <3>6, WentUp
    <3>8. QED
      BY ONLY <3>5, <3>7
  <2>6. Len(rr) = b - 1 /\ \A i \in 1 .. b - 1 : rr[i] = scopes[i]
    <3>1. rr = Front(scopes) /\ Len(scopes) > 1
      BY <1>5, <2>2, <2>4
    <3>2. QED
      BY ONLY <2>2, <2>3, <3>1, ScopeClosed
  <2>7. ScopeLess(tree, scopes, u, rr, b)
    BY ONLY <2>2, <2>4, <2>5, <2>6 DEF ScopeLess
  <2>8. /\ LexedIn(y, text) /\ TakenFrom(lex, text, 1, y)
    BY <1>5, <2>1, <2>2, NextTokens
  <2>9. /\ tree.nodes[scopes[1].node].kind = "SCOPE_MODULE"
        /\ ChainedIn(tree) /\ OwnersAt(tree, scopes)
        /\ Fits(text) => /\ NestedIn(tree, text) /\ LoopsIn(tree, text)
                         /\ Laid(lex, text, tree, scopes, pc)
    BY <2>1, NestSays
  <2>10. Fits(text) => Laid(y, text, u, rr, "statement")
    <3>1. pc = "statement" /\ lex.toks[1].tok \in {"DEDENT", "EOF"}
      BY DEF Parsing
    <3>2. QED
      BY ONLY <2>7, <2>8, <2>9, <3>1, LaidEnds
  <2>11. Newest(u) = Newest(tree)
    BY ONLY <2>5 DEF Newest
  <2>12. ChainedIn(u)
    <3>1. OnePlace(u)
      BY ONLY <2>5, <2>9, <2>11 DEF ChainedIn, OnePlace, IsOperation
    <3>2. OrsBehind(u)
      BY ONLY <2>5, <2>9, <2>11 DEF ChainedIn, OrsBehind, IsOperation, Behind
    <3>3. ElsesApart(u)
      BY ONLY <2>5, <2>9, <2>11 DEF ChainedIn, ElsesApart
    <3>4. QED
      BY ONLY <3>1, <3>2, <3>3 DEF ChainedIn
  <2>13. Fits(text) => NestedIn(u, text) /\ LoopsIn(u, text)
    BY ONLY <2>5, <2>9, <2>11 DEF NestedIn, LoopsIn
  <2>14. u.nodes[rr[1].node].kind = "SCOPE_MODULE"
    <3>1. 1 \in 1 .. b - 1
      BY ONLY <2>4
    <3>2. QED
      BY ONLY <2>5, <2>6, <2>9, <3>1
  <2>15. OwnersAt(u, rr)
    <3>1. \A i \in 2 .. Len(rr) : i \in 2 .. Len(scopes) /\ i \in 1 .. b - 1
      BY ONLY <2>2, <2>4, <2>6
    <3>2. QED
      BY ONLY <2>5, <2>6, <2>9, <3>1 DEF OwnersAt, HeadAt
  <2>16. pc' = "statement" /\ text' = text
    BY <1>5
  <2>17. QED
    BY ONLY <2>2, <2>8, <2>10, <2>12, <2>13, <2>14, <2>15, <2>16 DEF Nest
<1>6. QED
  BY <1>3, <1>4, <1>5

LEMMA NestBegins ==
  ASSUME Inv, Nest, BlockBegins
  PROVE  Nest'
<1>1. /\ Running /\ lex.toks # <<>> /\ pc = "indent" /\ Head(lex.toks).tok = "INDENT"
      /\ reported \in BOOLEAN /\ FALSE \in BOOLEAN
  BY DEF BlockBegins, Sees, Expecting, Inv, Values
<1>2. SUFFICES ASSUME ~reported'
               PROVE  Nest'
  BY DEF Nest
<1>3. CASE Stop("panic")
  BY <1>1, <1>3, StopNest DEF Stop
<1>4. CASE /\ scopes' = [scopes EXCEPT ![Len(scopes)].ind = Head(lex.toks).data]
           /\ pc' = "statement" /\ Take(1) /\ UNCHANGED <<menu, text, frames, tree, reported, status>>
  <2>1. ~reported
    BY <1>2, <1>4
  <2>2. PICK rr, y, b, d : /\ rr = scopes' /\ y = lex' /\ b = Len(scopes)
                           /\ d = Head(lex.toks).data
    BY Zenon
  <2>3. /\ ScopesIn(scopes, Newest(tree)) /\ Len(scopes) = Len(frames) + 1 /\ Framed(frames)
        /\ frames # <<>>
    BY <1>1 DEF Inv, Building, Values, Running
  <2>4. b \in Nat /\ b > 1
    <3>1. Len(frames) \in Nat /\ Len(frames) # 0
      BY <2>3, SeqIs DEF Framed
    <3>2. QED
      BY ONLY <2>2, <2>3, <3>1
  <2>5. /\ LexedIn(y, text) /\ TakenFrom(lex, text, 1, y) /\ lex.toks[1].tok = "INDENT"
        /\ d = lex.toks[1].data
    BY <1>1, <1>4, <2>1, <2>2, NextTokens DEF Take
  <2>6. /\ Len(rr) = b /\ rr[b].ind = d
        /\ \A i \in 1 .. b : rr[i].owner = scopes[i].owner /\ rr[i].node = scopes[i].node
        /\ \A i \in 1 .. b : i # b => rr[i] = scopes[i]
    <3>1. IsSeq(scopes) /\ DOMAIN scopes = 1 .. b /\ b \in 1 .. b
      BY <2>2, <2>3, <2>4, SeqIs DEF ScopesIn
    <3>2. IsScope(scopes[b])
      BY <2>3, <3>1 DEF ScopesIn
    <3>3. PICK s : s = [scopes[b] EXCEPT !.ind = d]
      OBVIOUS
    <3>4. s.owner = scopes[b].owner /\ s.node = scopes[b].node /\ s.ind = d /\ IsScope(s)
      BY <3>2, <3>3 DEF IsScope, ScopeFields
    <3>5. PICK r : r = [scopes EXCEPT ![b] = s]
      OBVIOUS
    <3>6. Len(r) = b /\ r[b] = s /\ \A j \in 1 .. b : j # b => r[j] = scopes[j]
      BY ONLY <2>2, <3>1, <3>5, SeqChanged
    <3>7. r = rr
      BY <1>4, <2>2, <3>3, <3>5
    <3>8. QED
      BY ONLY <3>4, <3>6, <3>7
  <2>7. BegunBy(scopes, rr, b, lex.toks[1].data)
    BY ONLY <2>2, <2>4, <2>5, <2>6 DEF BegunBy
  <2>8. /\ tree.nodes[scopes[1].node].kind = "SCOPE_MODULE" /\ Written(text)
        /\ ChainedIn(tree) /\ OwnersAt(tree, scopes)
        /\ Fits(text) => /\ NestedIn(tree, text) /\ LoopsIn(tree, text)
                         /\ Laid(lex, text, tree, scopes, "indent")
    BY <1>1, <2>1, NestSays
  <2>9. Fits(text) => Laid(y, text, tree, rr, "statement")
    BY ONLY <2>5, <2>7, <2>8, LaidBegins
  <2>10. tree.nodes[rr[1].node].kind = "SCOPE_MODULE"
    <3>1. 1 \in 1 .. b
      BY ONLY <2>4
    <3>2. QED
      BY ONLY <2>6, <2>8, <3>1
  <2>11. OwnersAt(tree, rr)
    <3>1. \A i \in 2 .. Len(rr) : i \in 2 .. Len(scopes) /\ i \in 1 .. b
      BY ONLY <2>2, <2>4, <2>6
    <3>2. QED
      BY ONLY <2>6, <2>8, <3>1 DEF OwnersAt, HeadAt
  <2>12. PICK u : u = tree' /\ u = tree
    BY <1>4
  <2>13. /\ u.nodes[rr[1].node].kind = "SCOPE_MODULE" /\ ChainedIn(u) /\ OwnersAt(u, rr)
         /\ Fits(text) => NestedIn(u, text) /\ LoopsIn(u, text) /\ Laid(y, text, u, rr, "statement")
    BY ONLY <2>8, <2>9, <2>10, <2>11, <2>12
  <2>14. pc' = "statement" /\ text' = text
    BY <1>4
  <2>15. QED
    BY ONLY <2>2, <2>5, <2>12, <2>13, <2>14 DEF Nest
<1>5. QED
  BY <1>3, <1>4 DEF BlockBegins

LEMMA NestBlock ==
  ASSUME Inv, Nest, Block
  PROVE  Nest'
<1>1. SUFFICES ASSUME ~reported'
               PROVE  Nest'
  BY DEF Nest
<1>2. CASE BlockBegins
  BY <1>2, NestBegins
<1>3. CASE BlockAwaited
  <2>1. /\ Running /\ ~reported /\ pc = "indent" /\ text' = text
        /\ UNCHANGED <<pc, tree, scopes, status>>
    BY <1>1, <1>3 DEF BlockAwaited, NoToken, Sees, Expecting
  <2>2. PICK y : y = lex'
    OBVIOUS
  <2>3. LexedIn(lex, text) /\ LexOK(lex)
    BY <2>1, NestSays
  <2>4. CASE Sees("EOL") /\ lex' = Call(lex)
    <3>1. lex.toks # <<>> /\ Head(lex.toks).tok = "EOL"
      BY <2>4 DEF Sees
    <3>2. lex.toks[1].tok = "EOL" /\ LexedIn(y, text) /\ y = Call(lex)
      BY <2>1, <2>2, <2>4, <3>1, NextTokens
    <3>3. Laid(lex, text, tree, scopes, pc) => Laid(y, text, tree, scopes, pc)
      BY ONLY <2>3, <3>1, <3>2, LaidCalled
    <3>4. QED
      BY ONLY Inv, Nest, <2>1, <2>2, <3>2, <3>3, NestReads
  <2>5. CASE Sees("DEDENT") /\ Take(1)
    <3>1. lex.toks # <<>> /\ Head(lex.toks).tok = "DEDENT"
      BY <2>5 DEF Sees
    <3>2. lex.toks[1].tok = "DEDENT" /\ LexedIn(y, text) /\ TakenFrom(lex, text, 1, y)
      BY <2>1, <2>2, <2>5, <3>1, NextTokens DEF Take
    <3>3. Laid(lex, text, tree, scopes, pc) => Laid(y, text, tree, scopes, pc)
      BY ONLY <2>1, <3>2, LaidAwaited
    <3>4. QED
      BY ONLY Inv, Nest, <2>1, <2>2, <3>2, <3>3, NestReads
  <2>6. ~NoToken
    BY <2>1, NextTokens
  <2>7. QED
    BY <1>3, <2>4, <2>5, <2>6 DEF BlockAwaited
<1>4. CASE BlockMissing
  <2>1. PICK e \in BOOLEAN :
          /\ TRUE => e
          /\ \/ \E how \in {"panic", "crash", "generator"} : StopAfter(e, how)
             \/ /\ tree' = DelScope(tree) /\ scopes' = Front(scopes) /\ pc' = "statement"
                /\ lex' = lex /\ reported' = (reported \/ e) /\ UNCHANGED <<text, status>>
    BY <1>4, CloseEnds DEF BlockMissing
  <2>2. reported'
    BY <2>1 DEF StopAfter
  <2>3. QED
    BY <1>1, <2>2
<1>5. CASE BlockEnds
  <2>1. Running /\ frames # <<>> /\ Parsing
    BY <1>5 DEF BlockEnds, Sees, NoToken, InModule
  <2>2. reported \in BOOLEAN
    BY DEF Inv, Values
  <2>3. CASE ~reported
    <3>1. ~NoToken
      BY <2>1, <2>3, NextTokens
    <3>2. PICK d : CloseBlock(d, Taken(lex, 1), FALSE) /\ (Sees("DEDENT") \/ Sees("EOF"))
      BY <1>5, <3>1 DEF BlockEnds
    <3>3. lex.toks # <<>> /\ Head(lex.toks).tok \in {"DEDENT", "EOF"}
      BY <3>2 DEF Sees
    <3>4. lex.toks[1].tok \in {"DEDENT", "EOF"}
      BY <2>1, <2>3, <3>3, NextTokens
    <3>5. QED
      BY <2>1, <3>2, <3>3, <3>4, NestCloses
  <2>4. CASE reported
    <3>1. PICK d, next : CloseBlock(d, next, FALSE)
      BY <1>5 DEF BlockEnds
    <3>2. PICK e \in BOOLEAN :
            \/ \E how \in {"panic", "crash", "generator"} : StopAfter(e, how)
            \/ /\ tree' = DelScope(tree) /\ scopes' = Front(scopes) /\ pc' = "statement"
               /\ lex' = next /\ reported' = (reported \/ e) /\ UNCHANGED <<text, status>>
      BY <3>1, CloseEnds
    <3>3. reported'
      BY <2>4, <3>2 DEF StopAfter
    <3>4. QED
      BY <1>1, <3>3
  <2>5. QED
    BY <2>2, <2>3, <2>4
<1>6. QED
  BY <1>2, <1>3, <1>4, <1>5 DEF Block

LEMMA NestLine ==
  ASSUME Inv, Nest, Line
  PROVE  Nest'
<1>1. SUFFICES ASSUME ~reported'
               PROVE  Nest'
  BY DEF Nest
<1>2. reported \in BOOLEAN /\ FALSE \in BOOLEAN
  BY DEF Inv, Values
<1>3. CASE LineEnds
  <2>1. /\ Running /\ ~reported /\ lex.toks # <<>> /\ Head(lex.toks).tok = "EOL" /\ lex' = Call(lex)
        /\ text' = text /\ UNCHANGED <<pc, tree, scopes, status>>
    BY <1>1, <1>3 DEF LineEnds, Sees
  <2>2. PICK y : y = lex'
    OBVIOUS
  <2>3. LexedIn(lex, text) /\ LexOK(lex)
    BY <2>1, NestSays
  <2>4. lex.toks[1].tok = "EOL" /\ LexedIn(y, text) /\ y = Call(lex)
    BY <2>1, <2>2, NextTokens
  <2>5. Laid(lex, text, tree, scopes, pc) => Laid(y, text, tree, scopes, pc)
    BY ONLY <2>1, <2>3, <2>4, LaidCalled
  <2>6. QED
    BY ONLY Inv, Nest, <2>1, <2>2, <2>4, <2>5, NestReads
<1>4. CASE BadIndentation
  BY <1>2, <1>4, StopNest DEF BadIndentation, Stop
<1>5. CASE StrayInBlock
  BY <1>1, <1>5 DEF StrayInBlock
<1>6. CASE StrayInModule
  BY <1>1, <1>6 DEF StrayInModule
<1>7. CASE EndOfFile
  <2>1. /\ scopes' = <<>> /\ status' = "done" /\ UNCHANGED <<text, lex, pc, frames, tree, reported>>
    BY <1>7 DEF EndOfFile
  <2>2. ~reported /\ ~Running'
    BY <1>1, <2>1 DEF Running
  <2>3. ChainedIn(tree) /\ (Fits(text) => NestedIn(tree, text) /\ LoopsIn(tree, text))
    BY <2>2 DEF Nest
  <2>4. PICK u, rr : u = tree' /\ rr = scopes' /\ u = tree /\ rr = <<>> /\ text' = text
    BY <2>1
  <2>5. OwnersAt(u, rr)
    <3>1. Len(rr) = 0
      BY <2>4
    <3>2. QED
      BY ONLY <3>1 DEF OwnersAt
  <2>6. ChainedIn(u) /\ (Fits(text) => NestedIn(u, text) /\ LoopsIn(u, text))
    BY ONLY <2>3, <2>4
  <2>7. QED
    BY ONLY <2>2, <2>4, <2>5, <2>6 DEF Nest
<1>8. QED
  BY <1>3, <1>4, <1>5, <1>6, <1>7 DEF Line

-----------------------------------------------------------------------------
(* It holds, and what follows.                                             *)

LEMMA NestStarts == Init => Nest
<1>1. SUFFICES ASSUME Init PROVE Nest
  OBVIOUS
<1>2. PICK t : t = AddModuleNode(EmptyTree) /\ tree = t
  BY <1>1 DEF Init
<1>3. Newest(t) = 1 /\ t.nodes[1] = [Node EXCEPT !.kind = "SCOPE_MODULE"]
  BY <1>2, ModuleAdded
<1>4. PICK n : n = t.nodes[1]
  OBVIOUS
<1>5. n.kind = "SCOPE_MODULE" /\ n.ifType = "NONE" /\ n.to = 0
  BY <1>3, <1>4 DEF Node
<1>6. \A i \in 1 .. Newest(t) : t.nodes[i].kind = "SCOPE_MODULE" /\ t.nodes[i].ifType = "NONE" /\ t.nodes[i].to = 0
  <2>1. \A i \in 1 .. Newest(t) : i = 1
    BY <1>3
  <2>2. QED
    BY ONLY <1>4, <1>5, <2>1
<1>7. PICK ss : ss = scopes
  OBVIOUS
<1>8. Len(ss) = 1 /\ ss[1].node = 1
  <2>1. PICK s : s = Scope(0, 1, {})
    OBVIOUS
  <2>2. s.node = 1
    BY <2>1 DEF Scope
  <2>3. ss = <<s>>
    BY <1>1, <1>7, <2>1 DEF Init
  <2>4. QED
    BY <2>2, <2>3, OneSeq
<1>9. PICK x, y : x = NewLexer /\ y = Call(x) /\ lex = y
  BY <1>1 DEF Init
<1>10. x = [k \in LexFields |-> x[k]] /\ x.at = "fresh" /\ x.indented = FALSE /\ x.stack = <<>>
       /\ x.toks = <<>> /\ x.reading = FALSE
  BY <1>9 DEF NewLexer, LexFields
<1>11. LexOK(x)
  BY <1>10, NoneSeq DEF LexOK, Tokens, Levels, Rising
<1>12. /\ y.at = "fresh" /\ y.toks = <<>> /\ y.stack = <<>> /\ y.reading
  BY <1>9, <1>10, <1>11, CallOK
<1>13. LexedIn(y, <<>>)
  <2>1. \A i : i \notin DOMAIN y.toks
    BY <1>12, NoneSeq
  <2>2. Shaped(y.toks)
    <3>1. 0 \in 0 .. Len(y.toks)
      BY <1>12, NoneSeq
    <3>2. QED
      BY <1>12, <3>1 DEF Shaped, Pending
  <2>3. QED
    BY <1>12, <2>1, <2>2 DEF LexedIn, HasStatement
<1>14. ChainedIn(t)
  <2>1. \A o : ~IsOperation(t, o)
    BY <1>6 DEF IsOperation
  <2>2. OnePlace(t)
    BY ONLY <2>1 DEF OnePlace
  <2>3. OrsBehind(t) /\ ElsesApart(t)
    BY ONLY <1>6 DEF OrsBehind, ElsesApart
  <2>4. QED
    BY ONLY <2>2, <2>3 DEF ChainedIn
<1>15. OwnersAt(t, ss) /\ t.nodes[ss[1].node].kind = "SCOPE_MODULE"
  BY ONLY <1>4, <1>5, <1>8 DEF OwnersAt
<1>16. NestedIn(t, <<>>) /\ LoopsIn(t, <<>>)
  BY ONLY <1>6 DEF NestedIn, LoopsIn
<1>17. Laid(y, <<>>, t, ss, "statement")
  <2>1. Begun(y, <<>>, t, ss, Len(ss))
    BY ONLY <1>8 DEF Begun
  <2>2. Match(y, ss, Len(ss), 0)
    <3>1. Len(y.stack) = 0
      BY <1>12
    <3>2. QED
      BY ONLY <1>8, <3>1 DEF Match
  <2>3. InBlocks(y, <<>>, t, ss)
    BY ONLY <1>12, <2>1, <2>2, BlocksBetween
  <2>4. QED
    BY ONLY <2>3 DEF Laid
<1>18. tree = t /\ scopes = ss /\ lex = y /\ text = <<>> /\ pc = "statement"
  BY <1>1, <1>2, <1>7, <1>9 DEF Init
<1>19. QED
  BY ONLY <1>13, <1>14, <1>15, <1>16, <1>17, <1>18 DEF Nest

LEMMA NestStays == Inv /\ Nest /\ [Next]_vars => Nest'
<1>1. SUFFICES ASSUME Inv, Nest, [Next]_vars PROVE Nest'
  OBVIOUS
<1>2. CASE Lex
  BY <1>1, <1>2, NestLex
<1>3. CASE Block
  BY <1>1, <1>3, NestBlock
<1>4. CASE Line
  BY <1>1, <1>4, NestLine
<1>5. CASE Parse
  BY <1>1, <1>5, NestParse
<1>6. CASE UNCHANGED vars
  BY <1>1, <1>6 DEF vars, Nest, Running
<1>7. QED
  BY <1>1, <1>2, <1>3, <1>4, <1>5, <1>6 DEF Next

\* As long as nothing was reported: the lexer's levels are the indentations of the
\* open blocks, statements are in the block of their header, and chains of ifs and
\* loops are whole (Lexer.c 290, Semantics.c 99 and 1151); for every text.
THEOREM NestInvariance == Spec => []Nest
<1>1. QED
  BY Invariance, NestStarts, NestStays, PTL DEF Spec

LEMMA FitsIs ==
  ASSUME FuncsAtMargin, CommentsFit
  PROVE  Fits(text)
<1>1. Statements = StatementsIn(text)
  BY DEF Statements, StatementsIn
<1>2. \A i \in StatementsIn(text) : text[i].body.kind = "func" => text[i].ind = 0
  BY <1>1 DEF FuncsAtMargin
<1>3. PICK w : w = {i \in DOMAIN text : text[i].body.kind # "blank"}
  OBVIOUS
<1>4. \A i, j \in w : i < j /\ (\A k \in w : k <= i \/ j <= k) =>
        /\ text[i].body.kind = "comment" => text[j].ind = text[i].ind
        /\ text[j].body.kind = "comment" /\ HasBlock(text[i]) => text[j].ind > text[i].ind
  BY <1>3 DEF CommentsFit
<1>5. QED
  BY ONLY <1>2, <1>3, <1>4 DEF Fits

\* An if that is continued is in one operation, with what continues it.
LEMMA InOnePlace ==
  ASSUME Linked(tree), OnePlace(tree), NEW o, NEW i, NEW next, Behind(tree, o, i, next)
  PROVE  BlockOf(i) = o
<1>1. \A p : p \in Operations <=> IsOperation(tree, p)
  <2>1. DOMAIN tree.nodes = 1 .. Newest(tree)
    BY SeqIs DEF Linked, Newest
  <2>2. QED
    BY <2>1 DEF Operations, OfKind, Nodes, IsOperation
<1>2. PICK s : s = tree.nodes[o].kids
  OBVIOUS
<1>3. IsOperation(tree, o) /\ o \in 1 .. Newest(tree)
  BY DEF Behind, IsOperation
<1>4. IsSeq(s) /\ Len(s) \in Nat /\ DOMAIN s = 1 .. Len(s)
  BY <1>2, <1>3, KidsAre, SeqIs
<1>5. PICK k \in 2 .. Len(s) : s[k - 1] = i
  BY <1>2 DEF Behind
<1>6. k - 1 \in DOMAIN s
  BY ONLY <1>4, k \in 2 .. Len(s)
<1>7. i \in InBlock(o)
  BY <1>2, <1>5, <1>6 DEF InBlock, ToSet
<1>8. ASSUME NEW p \in Operations, i \in InBlock(p)
      PROVE  p = o
  <2>1. IsOperation(tree, p) /\ p \in 1 .. Newest(tree)
    BY <1>1 DEF IsOperation
  <2>2. PICK l \in DOMAIN tree.nodes[p].kids : tree.nodes[p].kids[l] = i
    BY <1>8 DEF InBlock, ToSet
  <2>3. OnePlace(tree)
    OBVIOUS
  <2>4. QED
    BY ONLY <1>2, <1>3, <1>5, <1>6, <2>1, <2>2, <2>3 DEF OnePlace
<1>9. o \in Operations
  BY <1>1, <1>3
<1>10. QED
  BY ONLY <1>7, <1>8, <1>9 DEF BlockOf

LEMMA NestSeen == Inv /\ Nest => NestsByIndentation
<1>1. SUFFICES ASSUME Inv, Nest, ~reported, FuncsAtMargin, CommentsFit,
                      NEW o \in Operations, NEW i \in InBlock(o)
               PROVE  Header(tree.nodes[i].at) = tree.nodes[o].at
  BY DEF NestsByIndentation
<1>2. NestedIn(tree, text)
  BY <1>1, FitsIs DEF Nest
<1>3. o \in 1 .. Newest(tree) /\ tree.nodes[o].kind = "SCOPE_OPERATION"
  <2>1. Sound(tree)
    BY <1>1 DEF Inv, Building
  <2>2. DOMAIN tree.nodes = 1 .. Newest(tree)
    BY <2>1, CurrentIs
  <2>3. QED
    BY <2>2 DEF Operations, OfKind, Nodes
<1>4. PICK k \in DOMAIN tree.nodes[o].kids : i = tree.nodes[o].kids[k]
  BY DEF InBlock, ToSet
<1>5. HeaderIn(text, tree.nodes[i].at) = tree.nodes[o].at
  BY ONLY <1>2, <1>3, <1>4 DEF NestedIn
<1>6. Header(tree.nodes[i].at) = HeaderIn(text, tree.nodes[i].at)
  BY Zenon DEF Header, HeaderIn, Statements, StatementsIn
<1>7. QED
  BY ONLY <1>5, <1>6

LEMMA ChainsSeen == Inv /\ Nest => TreeIsChained
<1>1. SUFFICES ASSUME Inv, Nest, ~reported
               PROVE  TreeIsChained
  BY DEF TreeIsChained
<1>2. /\ Linked(tree) /\ ChainedIn(tree) /\ DOMAIN tree.nodes = 1 .. Newest(tree)
      /\ Fits(text) => LoopsIn(tree, text)
  <2>1. Sound(tree) /\ ChainedIn(tree) /\ (Fits(text) => LoopsIn(tree, text))
    BY <1>1 DEF Inv, Building, Nest
  <2>2. DOMAIN tree.nodes = 1 .. Newest(tree)
    BY <2>1, CurrentIs
  <2>3. QED
    BY <2>1, <2>2 DEF Sound
<1>3. ASSUME NEW i \in OfKind("IF_STATEMENT")
      PROVE  LET n == tree.nodes[i]   kids == tree.nodes[BlockOf(i)].kids
             IN CASE n.ifType = "IF"      -> n.elseBlock = 0
                  [] n.ifType = "IF_ELSE" -> n.elseBlock \in Operations \ {n.block}
                  [] n.ifType = "IF_OR"   -> \E k \in 2 .. Len(kids) :
                                               kids[k - 1] = i /\ kids[k] = n.elseBlock
  <2>1. i \in 1 .. Newest(tree) /\ tree.nodes[i].kind = "IF_STATEMENT"
    BY <1>2 DEF OfKind, Nodes
  <2>2. PICK n : n = tree.nodes[i]
    OBVIOUS
  <2>3. Links(tree, i, n) /\ Newest(tree) \in Nat
    BY <1>2, <2>1, <2>2, SeqIs DEF Linked, Newest
  <2>4. n.ifType \in {"IF", "IF_OR", "IF_ELSE"}
    BY <2>1, <2>2, <2>3 DEF Links
  <2>5. n.ifType = "IF" => n.elseBlock = 0
    BY <2>3 DEF Links
  <2>6. ASSUME n.ifType = "IF_ELSE"
        PROVE  n.elseBlock \in Operations \ {n.block}
    <3>1. n.elseBlock # 0 /\ n.elseBlock # n.block
      BY <1>2, <2>1, <2>2, <2>6 DEF ChainedIn, ElsesApart
    <3>2. n.elseBlock \in i + 1 .. Newest(tree) /\ tree.nodes[n.elseBlock].kind = "SCOPE_OPERATION"
      BY <2>3, <2>6, <3>1 DEF Links
    <3>3. n.elseBlock \in 1 .. Newest(tree)
      BY <2>1, <2>3, <3>2
    <3>4. QED
      BY <1>2, <3>1, <3>2, <3>3 DEF Operations, OfKind, Nodes
  <2>7. PICK kids : kids = tree.nodes[BlockOf(i)].kids
    OBVIOUS
  <2>8. ASSUME n.ifType = "IF_OR"
        PROVE  \E k \in 2 .. Len(kids) : kids[k - 1] = i /\ kids[k] = n.elseBlock
    <3>1. OrsBehind(tree) /\ OnePlace(tree)
      BY <1>2 DEF ChainedIn
    <3>2. PICK o, next : next = n.elseBlock /\ Behind(tree, o, i, next)
      BY ONLY <2>1, <2>2, <2>8, <3>1 DEF OrsBehind
    <3>3. BlockOf(i) = o
      BY <1>2, <3>1, <3>2, InOnePlace
    <3>4. QED
      BY ONLY <2>7, <3>2, <3>3 DEF Behind
  <2>9. CASE n.ifType = "IF"
    BY ONLY <2>2, <2>5, <2>9
  <2>10. CASE n.ifType = "IF_ELSE"
    BY ONLY <2>2, <2>6, <2>10
  <2>11. CASE n.ifType = "IF_OR"
    BY ONLY <2>2, <2>7, <2>8, <2>11
  <2>12. QED
    BY ONLY <2>4, <2>9, <2>10, <2>11
<1>4. ASSUME NEW i \in Nodes, tree.nodes[i].to # 0
      PROVE  LET from == tree.nodes[tree.nodes[i].to].at
             IN FuncsAtMargin /\ CommentsFit =>
                  \A k \in Statements : from < k /\ k <= tree.nodes[i].at => text[k].ind > text[from].ind
  <2>1. SUFFICES ASSUME FuncsAtMargin, CommentsFit
                 PROVE  LET from == tree.nodes[tree.nodes[i].to].at
                        IN \A k \in Statements : from < k /\ k <= tree.nodes[i].at => text[k].ind > text[from].ind
    OBVIOUS
  <2>2. LoopsIn(tree, text)
    BY <1>2, <2>1, FitsIs
  <2>3. i \in 1 .. Newest(tree) /\ tree.nodes[i].to # 0
    BY <1>2, <1>4 DEF Nodes
  <2>4. Statements = StatementsIn(text)
    BY DEF Statements, StatementsIn
  <2>5. QED
    BY ONLY <2>2, <2>3, <2>4 DEF LoopsIn
<1>5. QED
  BY ONLY <1>1, <1>3, <1>4 DEF TreeIsChained

\* The blocks the parser finds by counting INDENT and DEDENT tokens, its calls and
\* its scopes are those one sees (Parser.c 1192, Lexer.c 235): a statement is in the
\* block of the last line above it that is less indented; for every text.
THEOREM NestingIsSeen == Spec => []NestsByIndentation
<1>1. QED
  BY Invariance, NestInvariance, NestSeen, PTL

\* An if has behind it what its ifType says (AST.h 90), the if that continues it
\* being the next statement of the same operation, and what leaves a loop is in it
\* by the indentation of the lines between them (Semantics.c 1332); for every text.
THEOREM ChainsAreKept == Spec => []TreeIsChained
<1>1. QED
  BY Invariance, NestInvariance, ChainsSeen, PTL

=============================================================================
