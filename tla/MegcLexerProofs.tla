-------------------------- MODULE MegcLexerProofs --------------------------
(***************************************************************************)
(* Proofs about MegcLexer for every set of texts and every size of the     *)
(* buffers of getstr and getnum. They follow the lexer up to the number    *)
(* that overruns the buffer of getnum, if the text has one.                *)
(***************************************************************************)
EXTENDS MegcLexer, Integers, FiniteSetTheorems, WellFoundedInduction, TLAPS

\* Where a character that was read is still to be looked at.
Reading == {"dispatch", "blank", "&", "|", "readuntil", "string", "toolarge", "unterminated",
            "stringescape", "char", "charescape", "charend", "prefix", "num", "expsign",
            "expdigits"}

\* While a character is in hand it is the one before the head, or the end.
InHand == at \in Reading => \/ c = End /\ off = Len(buf)
                            \/ off \in 1 .. Len(buf) /\ c = buf[off]

Places == /\ IsLocation(off, line, column)
          /\ IsLocation(beg.off, beg.line, beg.column)

\* The token being read.
Beginning ==
  /\ at = "dispatch" => \/ c = End /\ beg.off = Len(buf)
                        \/ off = beg.off + 1 /\ c = buf[off]
  /\ at = "blank" => c # End /\ beg.off < off /\ \A k \in beg.off + 1 .. off - 1 : buf[k] = "SP"
  /\ at \in {"dispatch", "blank", "&", "|"} /\ c # NL => line = beg.line
  /\ at \notin {"start", "dispatch", "blank", "finished"} =>
       beg.off < Len(buf) /\ buf[beg.off + 1] \notin Space
  /\ at = "stringescape" => len < StrMax
  /\ at = "readuntil" => skip.kind \in {"DOC", "STRING", "CHAR"}

Counts(k, b, hex) == \/ buf[k] \in Digit /\ (k = b + 1 => buf[k] # "0")
                     \/ buf[k] \in HexLetter /\ hex
Digits(b, e, hex) == {k \in b + 1 .. e : Counts(k, b, hex)}
HexAt(b) == b + 2 <= Len(buf) /\ buf[b + 1] = "0" /\ buf[b + 2] = "x"

Numbers ==
  /\ at = "prefix" =>
       /\ num = NoNum /\ buf[beg.off + 1] = "0"
       /\ off = beg.off + IF c = End THEN 1 ELSE 2
  /\ at = "afterprefix" =>
       /\ buf[beg.off + 1] = "0" /\ num.busz = 0 /\ ~num.f
       /\ num.base = 16 <=> HexAt(beg.off)
       /\ num.base = 16 => off = beg.off + 2
       /\ off = beg.off => Len(buf) = beg.off + 1
       /\ off \in beg.off .. beg.off + 2
       /\ off = beg.off + 2 => ~Counts(off, beg.off, num.base = 16)
  /\ at = "num" /\ ~num.f =>
       /\ num.base = 16 <=> HexAt(beg.off)
       /\ num.base = 16 => off >= beg.off + (IF c = End THEN 2 ELSE 3)
       /\ off > beg.off
       /\ c = "0" /\ off = beg.off + 1 => Len(buf) = off
       /\ ~bad => LET n == Cardinality(Digits(beg.off, IF c = End THEN off ELSE off - 1,
                                              num.base = 16))
                  IN  num.busz = n \/ (n = 0 /\ num.busz = 1 /\ c = End)
  /\ at \in {"expsign", "expdigits", "expcheck"} => num.f

Good(t) ==
  /\ IsLocation(t.beg, t.line, t.column)
  /\ t.kind \notin {"EOL", "INVAL", "EOF"} => buf[t.beg + 1] \notin Space
  /\ t.newline => t.kind \in Broken
  /\ t.kind = "EOL" => buf[t.end] = NL /\ \A k \in t.beg + 1 .. t.end - 1 : buf[k] # NL
  /\ t.kind = "INVAL" =>
       t.bad \/ (t.end = Len(buf) /\ \A k \in t.beg + 1 .. Len(buf) : buf[k] = "SP")
  /\ t.kind = "INTEGER" /\ ~t.bad =>
       LET n == Cardinality(DigitsOf(t)) IN t.busz = IF n = 0 THEN 1 ELSE n
AllGood == \A j \in 1 .. Len(toks) : Good(toks[j])

\* Every line break before the token being read lies in a token answered.
Taken(k) == \E j \in 1 .. Len(toks) :
              k \in toks[j].beg + 1 .. toks[j].end /\ toks[j].kind \in Broken
Gaps == \A k \in BreaksBefore(IF at \in {"start", "finished"} THEN off ELSE beg.off) : Taken(k)

IInv == TypeOK /\ InHand /\ Places /\ Beginning /\ Numbers /\ AllGood /\ Gaps

-----------------------------------------------------------------------------
(* The parts of the type invariant. *)

Places_ == {"start", "dispatch", "blank", "&", "|", "readuntil", "string", "toolarge",
            "unterminated", "stringescape", "stringnext", "char", "charescape", "charnext",
            "charend", "prefix", "afterprefix", "num", "expsign", "expdigits", "expcheck",
            "finished", "overrun"}
Token == [kind : Kinds, beg : Nat, end : Nat, bad : BOOLEAN, line : Nat \ {0},
          column : Nat \ {0}, newline : BOOLEAN, busz : Nat]

HeadOK == /\ off \in 0 .. Len(buf) /\ line \in Nat \ {0} /\ column \in Nat \ {0}
          /\ IsLocation(off, line, column)
CharOK == c \in AllChars \cup {End}
BegOK  == /\ beg \in [off : 0 .. Len(buf), line : Nat \ {0}, column : Nat \ {0}]
          /\ IsLocation(beg.off, beg.line, beg.column)
NumOK  == num \in [base : {2, 8, 10, 16}, f : BOOLEAN, issep : BOOLEAN, busz : 0 .. NumMax]
SkipOK == skip \in [upto : {End, BS, SQ}, kind : Kinds]
BufOK  == buf \in Seq(AllChars)

LEMMA Parts ==
  TypeOK /\ Places <=>
    /\ BufOK /\ HeadOK /\ CharOK /\ BegOK /\ NumOK /\ SkipOK
    /\ at \in Places_ /\ bad \in BOOLEAN /\ len \in 0 .. StrMax /\ toks \in Seq(Token)
  BY DEF TypeOK, Places, BufOK, HeadOK, CharOK, BegOK, NumOK, SkipOK, Places_, Token

-----------------------------------------------------------------------------
(* Lines and columns. *)

\* A non-empty set of numbers up to n has a greatest one.
LEMMA Greatest ==
  ASSUME NEW n \in Nat, NEW S, S \subseteq 0 .. n, S # {}
  PROVE  \E k \in S : \A j \in S : j <= k
<1> DEFINE T == {m \in Nat : n - m \in S}
<1>1. IsWellFoundedOn(OpToRel(<, Nat), Nat)
  BY NatLessThanWellFounded
<1>2. T \subseteq Nat /\ T # {}
  <2>1. PICK k \in S : k \in 0 .. n
    OBVIOUS
  <2>2. n - k \in Nat /\ n - (n - k) = k
    BY <2>1
  <2>3. QED
    BY <2>1, <2>2
<1>3. PICK m \in T : \A y \in T : ~ (<<y, m>> \in OpToRel(<, Nat))
  BY <1>1, <1>2, WFMin
<1>4. n - m \in S /\ m \in Nat
  OBVIOUS
<1>5. ASSUME NEW j \in S PROVE j <= n - m
  <2>1. j \in 0 .. n
    OBVIOUS
  <2>2. n - j \in Nat /\ n - (n - j) = j
    BY <2>1
  <2>3. n - j \in T
    BY <2>2
  <2>4. ~ (n - j < m)
    BY <1>3, <1>4, <2>2, <2>3 DEF OpToRel
  <2>5. QED
    BY <1>4, <2>1, <2>4
<1>6. QED
  BY <1>4, <1>5

LEMMA Breaks ==
  ASSUME NEW o \in Nat
  PROVE  /\ BreaksBefore(o) \subseteq 1 .. o
         /\ IsFiniteSet(BreaksBefore(o)) /\ Cardinality(BreaksBefore(o)) \in Nat
         /\ BreaksBefore(o + 1) = BreaksBefore(o) \cup (IF buf[o + 1] = NL THEN {o + 1} ELSE {})
<1>1. BreaksBefore(o) \subseteq 1 .. o
  BY DEF BreaksBefore
<1>2. IsFiniteSet(1 .. o)
  BY FS_Interval
<1>3. IsFiniteSet(BreaksBefore(o)) /\ Cardinality(BreaksBefore(o)) \in Nat
  BY <1>1, <1>2, FS_Subset, FS_CardinalityType
<1>4. 1 .. o + 1 = (1 .. o) \cup {o + 1}
  OBVIOUS
<1>5. BreaksBefore(o + 1) = BreaksBefore(o) \cup (IF buf[o + 1] = NL THEN {o + 1} ELSE {})
  BY <1>4 DEF BreaksBefore
<1>6. QED
  BY <1>1, <1>3, <1>5

LEMMA StepRight ==
  ASSUME NEW o \in Nat, NEW l \in Nat, NEW col \in Nat, IsLocation(o, l, col)
  PROVE  IF buf[o + 1] = NL THEN IsLocation(o + 1, l + 1, 1)
                            ELSE IsLocation(o + 1, l, col + 1)
<1>1. /\ BreaksBefore(o) \subseteq 1 .. o
      /\ IsFiniteSet(BreaksBefore(o)) /\ Cardinality(BreaksBefore(o)) \in Nat
      /\ BreaksBefore(o + 1) = BreaksBefore(o) \cup (IF buf[o + 1] = NL THEN {o + 1} ELSE {})
  BY Breaks
<1>2. PICK b \in BreaksBefore(o) \cup {0} :
        (\A k \in BreaksBefore(o) : k <= b) /\ col = o - b + 1
  BY DEF IsLocation
<1>3. l = 1 + Cardinality(BreaksBefore(o)) /\ b \in 0 .. o
  BY <1>1, <1>2 DEF IsLocation
<1>4. CASE buf[o + 1] = NL
  <2>1. BreaksBefore(o + 1) = BreaksBefore(o) \cup {o + 1} /\ o + 1 \notin BreaksBefore(o)
    BY <1>1, <1>4
  <2>2. Cardinality(BreaksBefore(o + 1)) = Cardinality(BreaksBefore(o)) + 1
    BY <1>1, <2>1, FS_AddElement
  <2>3. \A k \in BreaksBefore(o + 1) : k <= o + 1
    BY <1>1, <2>1
  <2>4. 1 = (o + 1) - (o + 1) + 1 /\ l + 1 = 1 + Cardinality(BreaksBefore(o + 1))
    BY <1>1, <1>3, <2>2
  <2>5. QED
    BY <1>4, <2>1, <2>3, <2>4 DEF IsLocation
<1>5. CASE buf[o + 1] # NL
  <2>1. BreaksBefore(o + 1) = BreaksBefore(o)
    BY <1>1, <1>5
  <2>2. col + 1 = (o + 1) - b + 1
    BY <1>2, <1>3
  <2>3. QED
    BY <1>2, <1>3, <1>5, <2>1, <2>2 DEF IsLocation
<1>6. QED
  BY <1>4, <1>5

LEMMA StepLeft ==
  ASSUME NEW o \in Nat, NEW l \in Nat, NEW col \in Nat, IsLocation(o, l, col)
  PROVE  /\ col >= 1
         /\ col > 1 <=> o > 0 /\ buf[o] # NL
         /\ col > 1 => IsLocation(o - 1, l, col - 1)
<1>1. BreaksBefore(o) \subseteq 1 .. o
  BY Breaks
<1>2. PICK b \in BreaksBefore(o) \cup {0} :
        (\A k \in BreaksBefore(o) : k <= b) /\ col = o - b + 1
  BY DEF IsLocation
<1>3. l = 1 + Cardinality(BreaksBefore(o)) /\ b \in 0 .. o
  BY <1>1, <1>2 DEF IsLocation
<1>4. col >= 1 /\ (col > 1 <=> b < o)
  BY <1>2, <1>3
<1>5. ASSUME o > 0, buf[o] # NL PROVE b < o
  <2>1. o \notin BreaksBefore(o)
    BY <1>5 DEF BreaksBefore
  <2>2. QED
    BY <1>2, <1>3, <1>5, <2>1
<1>6. ASSUME b < o PROVE o > 0 /\ buf[o] # NL /\ IsLocation(o - 1, l, col - 1)
  <2>1. o > 0
    BY <1>3, <1>6
  <2>2. o \notin BreaksBefore(o)
    BY <1>2, <1>3, <1>6
  <2>3. buf[o] # NL
    BY <2>1, <2>2 DEF BreaksBefore
  <2>4. PICK p \in Nat : p = o - 1 /\ o = p + 1
    BY <2>1
  <2>5. BreaksBefore(p + 1) = BreaksBefore(p) \cup (IF buf[p + 1] = NL THEN {p + 1} ELSE {})
    BY Breaks
  <2>6. BreaksBefore(o) = BreaksBefore(p)
    BY <2>3, <2>4, <2>5
  <2>7. col - 1 = p - b + 1
    BY <1>2, <1>3, <2>4
  <2>8. IsLocation(p, l, col - 1)
    BY <1>2, <1>3, <2>6, <2>7 DEF IsLocation
  <2>9. QED
    BY <2>1, <2>3, <2>4, <2>8
<1>7. QED
  BY <1>4, <1>5, <1>6

-----------------------------------------------------------------------------
(* The moves of the head. *)

LEMMA ReadHead ==
  ASSUME BufOK, HeadOK, buf' = buf, getch
  PROVE  /\ HeadOK' /\ CharOK'
         /\ \/ c' = End /\ off' = off /\ off = Len(buf) /\ line' = line
            \/ /\ off < Len(buf) /\ off' = off + 1 /\ c' = buf[off + 1] /\ c' \in AllChars
               /\ c' # NL => line' = line
<1>1. Len(buf) \in Nat /\ off \in 0 .. Len(buf) /\ line \in Nat \ {0} /\ column \in Nat \ {0}
      /\ IsLocation(off, line, column)
  BY DEF BufOK, HeadOK
<1>2. CASE off < Len(buf)
  <2>1. /\ c' = buf[off + 1] /\ off' = off + 1
        /\ IF buf[off + 1] = NL THEN line' = line + 1 /\ column' = 1
                                ELSE line' = line /\ column' = column + 1
    BY <1>2 DEF getch
  <2>2. buf[off + 1] \in AllChars
    BY <1>1, <1>2 DEF BufOK
  <2>3. IsLocation(off + 1, line', column')
    BY <1>1, <2>1, StepRight
  <2>4. IsLocation(off, line, column)'
    BY <2>1, <2>3 DEF IsLocation, BreaksBefore
  <2>5. off' \in 0 .. Len(buf') /\ line' \in Nat \ {0} /\ column' \in Nat \ {0}
    BY <1>1, <1>2, <2>1
  <2>6. QED
    BY <1>2, <2>1, <2>2, <2>4, <2>5 DEF HeadOK, CharOK
<1>3. CASE ~(off < Len(buf))
  <2>1. c' = End /\ UNCHANGED <<off, line, column>>
    BY <1>3 DEF getch, head
  <2>2. off = Len(buf)
    BY <1>1, <1>3
  <2>3. IsLocation(off, line, column)'
    BY <1>1, <2>1 DEF IsLocation, BreaksBefore
  <2>4. QED
    BY <1>1, <2>1, <2>2, <2>3 DEF HeadOK, CharOK
<1>4. QED
  BY <1>2, <1>3

LEMMA BackHead ==
  ASSUME BufOK, HeadOK, buf' = buf, ungetch
  PROVE  /\ HeadOK' /\ line' = line
         /\ off' = IF off > 0 /\ buf[off] # NL THEN off - 1 ELSE off
<1>1. Len(buf) \in Nat /\ off \in 0 .. Len(buf) /\ line \in Nat \ {0} /\ column \in Nat \ {0}
      /\ IsLocation(off, line, column)
  BY DEF BufOK, HeadOK
<1>2. /\ column > 1 <=> off > 0 /\ buf[off] # NL
      /\ column > 1 => IsLocation(off - 1, line, column - 1)
  BY <1>1, StepLeft
<1>3. CASE column > 1
  <2>1. off' = off - 1 /\ column' = column - 1 /\ line' = line
    BY <1>3 DEF ungetch
  <2>2. IsLocation(off, line, column)'
    BY <1>2, <1>3, <2>1 DEF IsLocation, BreaksBefore
  <2>3. off' \in 0 .. Len(buf') /\ column' \in Nat \ {0} /\ line' \in Nat \ {0}
    BY <1>1, <1>2, <1>3, <2>1
  <2>4. QED
    BY <1>2, <1>3, <2>1, <2>2, <2>3 DEF HeadOK
<1>4. CASE ~(column > 1)
  <2>1. UNCHANGED <<off, line, column>>
    BY <1>4 DEF ungetch
  <2>2. IsLocation(off, line, column)'
    BY <1>1, <2>1 DEF IsLocation, BreaksBefore
  <2>3. QED
    BY <1>1, <1>2, <1>4, <2>1, <2>2 DEF HeadOK
<1>5. QED
  BY <1>3, <1>4

LEMMA StayHead ==
  ASSUME HeadOK, UNCHANGED <<buf, head>>
  PROVE  HeadOK' /\ UNCHANGED <<off, line, column>>
  BY DEF HeadOK, head, IsLocation, BreaksBefore

\* The characters of an identifier are on one line.
LEMMA WalkRight ==
  ASSUME NEW o \in Nat, NEW l \in Nat, NEW col \in Nat, IsLocation(o, l, col),
         NEW n \in Nat, \A j \in 1 .. n : buf[o + j] # NL
  PROVE  IsLocation(o + n, l, col + n)
<1>1. BreaksBefore(o + n) = BreaksBefore(o)
  <2>1. \A k \in 1 .. o + n : k \in 1 .. o \/ buf[k] # NL
    <3>1. SUFFICES ASSUME NEW k \in 1 .. o + n, k \notin 1 .. o PROVE buf[k] # NL
      OBVIOUS
    <3>2. k - o \in 1 .. n /\ o + (k - o) = k
      BY <3>1
    <3>3. QED
      BY <3>2
  <2>2. 1 .. o \subseteq 1 .. o + n
    OBVIOUS
  <2>3. QED
    BY <2>1, <2>2 DEF BreaksBefore
<1>2. BreaksBefore(o) \subseteq 1 .. o
  BY Breaks
<1>3. PICK b \in BreaksBefore(o) \cup {0} :
        (\A k \in BreaksBefore(o) : k <= b) /\ col = o - b + 1
  BY DEF IsLocation
<1>4. col + n = (o + n) - b + 1
  BY <1>2, <1>3
<1>5. QED
  BY <1>1, <1>3, <1>4 DEF IsLocation

LEMMA IdentifierHead ==
  ASSUME BufOK, HeadOK, InHand, Identifier
  PROVE  HeadOK' /\ line' = line /\ buf' = buf
<1>1. /\ at = "dispatch" /\ c \in Alpha \cup {"_"} /\ line' = line /\ buf' = buf
      /\ off' = off - 1 + (CHOOSE k \in IdRun(off - 1) : \A j \in IdRun(off - 1) : j <= k)
      /\ column' = column - 1 + (CHOOSE k \in IdRun(off - 1) : \A j \in IdRun(off - 1) : j <= k)
  BY DEF Identifier
<1>2. Len(buf) \in Nat /\ line \in Nat \ {0} /\ column \in Nat \ {0}
      /\ IsLocation(off, line, column)
  BY DEF BufOK, HeadOK
<1>3. c # End /\ c # NL
  BY <1>1 DEF Alpha, HexLetter, End, NL
<1>4. off \in 1 .. Len(buf) /\ buf[off] # NL
  BY <1>1, <1>3 DEF InHand, Reading
<1>5. column > 1 /\ IsLocation(off - 1, line, column - 1)
  BY <1>2, <1>4, StepLeft
<1>15. PICK o \in Nat : o = off - 1 /\ off = o + 1
  BY <1>2, <1>4
<1>6. o = off - 1 /\ \E m \in Nat : m = Len(buf) - o /\ Len(buf) = o + m
  <2>1. Len(buf) - o \in Nat /\ Len(buf) = o + (Len(buf) - o)
    BY <1>2, <1>4, <1>15
  <2>2. QED
    BY <1>15, <2>1
<1>16. PICK m \in Nat : m = Len(buf) - o /\ Len(buf) = o + m
  BY <1>6
<1>7. IdRun(o) \subseteq 0 .. m /\ IdRun(o) # {}
  <2>1. 0 \in 0 .. m /\ 1 .. 0 = {}
    OBVIOUS
  <2>2. IdRun(o) = {k \in 0 .. m : \A j \in 1 .. k : buf[o + j] \in Alpha \cup Digit \cup {"_"}}
    BY <1>16 DEF IdRun
  <2>3. QED
    BY <2>1, <2>2
<1>8. \E k \in IdRun(o) : \A j \in IdRun(o) : j <= k
  BY <1>7, Greatest
<1>9. PICK n \in IdRun(o) : off' = o + n /\ column' = column - 1 + n
  <2>1. (CHOOSE k \in IdRun(o) : \A j \in IdRun(o) : j <= k) \in IdRun(o)
    BY <1>8
  <2>2. QED
    BY <1>1, <1>6, <2>1
<1>10. n \in 0 .. m /\ \A j \in 1 .. n : buf[o + j] # NL
  <2>1. \A j \in 1 .. n : buf[o + j] \in Alpha \cup Digit \cup {"_"}
    BY DEF IdRun
  <2>2. QED
    BY <1>7, <2>1 DEF Alpha, HexLetter, Digit, NL
<1>11. IsLocation(o + n, line, column - 1 + n)
  <2>1. PICK d \in Nat : d = column - 1
    BY <1>2
  <2>2. QED
    <3>1. n \in Nat /\ IsLocation(o, line, d) /\ line \in Nat
      BY <1>2, <1>5, <1>15, <1>10, <2>1
    <3>2. IsLocation(o + n, line, d + n)
      BY <1>10, <3>1, WalkRight
    <3>3. QED
      BY <2>1, <3>2
<1>12. IsLocation(off, line, column)'
  BY <1>1, <1>9, <1>11 DEF IsLocation, BreaksBefore
<1>13. off' \in 0 .. Len(buf') /\ column' \in Nat \ {0} /\ line' \in Nat \ {0}
  <2>1. off' \in 0 .. Len(buf)
    BY <1>9, <1>10, <1>16
  <2>2. column' \in Nat \ {0}
    BY <1>2, <1>5, <1>9, <1>10
  <2>3. QED
    BY <1>1, <1>2, <2>1, <2>2
<1>14. QED
  BY <1>1, <1>12, <1>13 DEF HeadOK

LEMMA ReturnAt ==
  ASSUME NEW k, Return(k)
  PROVE  at' = IF k = "EOF" THEN "finished" ELSE "start"
  BY DEF Return

\* A step reads, goes back, stays where it is, or takes an identifier; what
\* is in hand after it was read in it or before it.
Moved == \/ getch
         \/ ungetch /\ c' = c /\ at' \notin Reading
         \/ UNCHANGED <<head, c>> /\ (at' \in Reading => at \in Reading)
         \/ Identifier /\ c' = c /\ at' \notin Reading

LEMMA Moves ==
  ASSUME Lex
  PROVE  buf' = buf /\ (beg' = beg \/ Start) /\ Moved
<1>1. CASE Start \/ Blank \/ BlankEnd
  BY <1>1, ReturnAt DEF Start, Blank, BlankEnd, Moved, Reading
<1>2. CASE Identifier \/ OneChar \/ TwoChar \/ TwoCharEnd
  <2>1. CASE Identifier
    BY <2>1, ReturnAt DEF Identifier, Moved, Reading
  <2>2. CASE OneChar \/ TwoChar
    BY <2>2, ReturnAt DEF OneChar, TwoChar, Moved, Reading
  <2>3. CASE TwoCharEnd
    BY <2>3, ReturnAt DEF TwoCharEnd, Second, Moved, Reading
  <2>4. QED
    BY <1>2, <2>1, <2>2, <2>3
<1>3. CASE Skipping \/ Doc \/ String \/ StringChar
  BY <1>3, ReturnAt DEF Skipping, Doc, String, StringChar, ReadUntil, Moved, Reading
<1>4. CASE StringTooLarge \/ Unterminated \/ StringEscape \/ StringNext
  BY <1>4, ReturnAt
     DEF StringTooLarge, Unterminated, StringEscape, StringNext, Escape, ReadUntil, Moved, Reading
<1>5. CASE Char \/ CharContent \/ CharEscape \/ CharNext \/ CharEnd
  BY <1>5, ReturnAt
     DEF Char, CharContent, CharEscape, CharNext, CharEnd, Escape, ReadUntil, Moved, Reading
<1>6. CASE Number \/ Prefix \/ AfterPrefix \/ NumSeparator \/ NumDigit
  BY <1>6 DEF Number, Prefix, AfterPrefix, NumSeparator, NumDigit, Moved, Reading
<1>7. CASE NumExponent \/ ExpSign \/ ExpDigit \/ ExpBack
  BY <1>7 DEF NumExponent, ExpSign, ExpDigit, ExpBack, Moved, Reading
<1>8. CASE ExpCheck \/ NumStop
  BY <1>8, ReturnAt DEF ExpCheck, NumStop, KindOf, Moved, Reading
<1>10. CASE Overrun
  BY <1>10 DEF Overrun, Moved, Reading
<1>9. QED
  BY <1>1, <1>2, <1>3, <1>4, <1>5, <1>6, <1>7, <1>8, <1>10 DEF Lex

LEMMA HeadStep ==
  ASSUME BufOK, HeadOK, CharOK, BegOK, InHand, Lex
  PROVE  BufOK' /\ HeadOK' /\ CharOK' /\ BegOK' /\ InHand'
<1>1. buf' = buf /\ (beg' = beg \/ Start) /\ Moved
  BY Moves
<1>2. HeadOK' /\ CharOK' /\ InHand'
  <2>1. Len(buf) \in Nat /\ off \in 0 .. Len(buf)
    BY DEF BufOK, HeadOK
  <2>2. CASE getch
    <3>1. /\ HeadOK' /\ CharOK'
          /\ \/ c' = End /\ off' = off /\ off = Len(buf)
             \/ off < Len(buf) /\ off' = off + 1 /\ c' = buf[off + 1]
      BY <1>1, <2>2, ReadHead
    <3>2. QED
      BY <1>1, <2>1, <3>1 DEF InHand
  <2>3. CASE ungetch /\ c' = c /\ at' \notin Reading
    BY <1>1, <2>3, BackHead DEF CharOK, InHand
  <2>4. CASE UNCHANGED <<head, c>> /\ (at' \in Reading => at \in Reading)
    <3>1. HeadOK' /\ UNCHANGED <<off, line, column>>
      BY <1>1, <2>4, StayHead
    <3>2. QED
      BY <1>1, <2>4, <3>1 DEF CharOK, InHand
  <2>5. CASE Identifier /\ c' = c /\ at' \notin Reading
    BY <1>1, <2>5, IdentifierHead DEF CharOK, InHand
  <2>6. QED
    BY <1>1, <2>2, <2>3, <2>4, <2>5 DEF Moved
<1>3. BegOK'
  <2>1. CASE beg' = beg
    BY <1>1, <2>1 DEF BegOK, IsLocation, BreaksBefore
  <2>2. CASE Start
    <3>1. beg' = [off |-> off, line |-> line, column |-> column]
      BY <2>2 DEF Start
    <3>2. QED
      BY <1>1, <3>1 DEF BegOK, HeadOK, IsLocation, BreaksBefore
  <2>3. QED
    BY <1>1, <2>1, <2>2
<1>4. QED
  BY <1>1, <1>2, <1>3 DEF BufOK

-----------------------------------------------------------------------------
(* The other locals. *)

LEMMA AtStep == ASSUME Lex PROVE at' \in Places_
<1>1. CASE Start \/ Blank \/ BlankEnd \/ Identifier \/ OneChar \/ TwoChar \/ TwoCharEnd
  BY <1>1, ReturnAt
     DEF Start, Blank, BlankEnd, Identifier, OneChar, TwoChar, TwoCharEnd, Places_
<1>2. CASE Skipping \/ Doc \/ String \/ StringChar \/ StringTooLarge \/ Unterminated
             \/ StringEscape \/ StringNext
  BY <1>2, ReturnAt
     DEF Skipping, Doc, String, StringChar, StringTooLarge, Unterminated, StringEscape,
         StringNext, Escape, ReadUntil, Places_
<1>3. CASE Char \/ CharContent \/ CharEscape \/ CharNext \/ CharEnd
  BY <1>3, ReturnAt
     DEF Char, CharContent, CharEscape, CharNext, CharEnd, Escape, ReadUntil, Places_
<1>4. CASE Number \/ Prefix \/ AfterPrefix \/ NumSeparator \/ NumDigit
  BY <1>4 DEF Number, Prefix, AfterPrefix, NumSeparator, NumDigit, Places_
<1>5. CASE NumExponent \/ ExpSign \/ ExpDigit \/ ExpBack \/ ExpCheck \/ NumStop \/ Overrun
  BY <1>5, ReturnAt
     DEF NumExponent, ExpSign, ExpDigit, ExpBack, ExpCheck, NumStop, Overrun, Places_
<1>6. QED
  BY <1>1, <1>2, <1>3, <1>4, <1>5 DEF Lex

\* The buffer of getstr is not written past its end: there is room when the
\* character after a backslash is looked at.
LEMMA LenStep ==
  ASSUME len \in 0 .. StrMax, at = "stringescape" => len < StrMax, Lex
  PROVE  len' \in 0 .. StrMax /\ (at' = "stringescape" => len' < StrMax)
<1> USE LexAssumption
<1>1. CASE Start
  BY <1>1 DEF Start
<1>9. CASE Blank \/ BlankEnd \/ Identifier \/ OneChar \/ TwoChar \/ TwoCharEnd
  <2>1. UNCHANGED len
    BY <1>9 DEF Blank, BlankEnd, Identifier, OneChar, TwoChar, TwoCharEnd, Rest
  <2>2. at' # "stringescape"
    BY <1>9, ReturnAt DEF Blank, BlankEnd, Identifier, OneChar, TwoChar, TwoCharEnd, Second
  <2>3. QED
    BY <2>1, <2>2
<1>2. CASE Skipping \/ Doc \/ String
  BY <1>2, ReturnAt DEF Skipping, Doc, String, ReadUntil, Rest
<1>3. CASE StringChar
  BY <1>3, ReturnAt DEF StringChar, StringIsFull, ReadUntil
<1>4. CASE StringTooLarge \/ Unterminated \/ StringEscape \/ StringNext
  BY <1>4, ReturnAt
     DEF StringTooLarge, Unterminated, StringEscape, StringNext, Escape, ReadUntil, Rest
<1>5. CASE Char \/ CharContent \/ CharEscape \/ CharNext \/ CharEnd
  BY <1>5, ReturnAt
     DEF Char, CharContent, CharEscape, CharNext, CharEnd, Escape, ReadUntil, Rest
<1>6. CASE Number \/ Prefix \/ AfterPrefix \/ NumSeparator \/ NumDigit
  BY <1>6 DEF Number, Prefix, AfterPrefix, NumSeparator, NumDigit, Rest
<1>7. CASE NumExponent \/ ExpSign \/ ExpDigit \/ ExpBack \/ ExpCheck \/ NumStop \/ Overrun
  BY <1>7, ReturnAt
     DEF NumExponent, ExpSign, ExpDigit, ExpBack, ExpCheck, NumStop, Overrun, Rest
<1>8. QED
  BY <1>1, <1>2, <1>3, <1>4, <1>5, <1>6, <1>7, <1>9 DEF Lex

LEMMA BadStep == ASSUME bad \in BOOLEAN, Lex PROVE bad' \in BOOLEAN
<1>1. CASE Start \/ Blank \/ BlankEnd \/ Identifier \/ OneChar \/ TwoChar \/ TwoCharEnd
  BY <1>1 DEF Start, Blank, BlankEnd, Identifier, OneChar, TwoChar, TwoCharEnd
<1>2. CASE Skipping \/ Doc \/ String \/ StringChar \/ StringTooLarge \/ Unterminated
             \/ StringEscape \/ StringNext
  BY <1>2
     DEF Skipping, Doc, String, StringChar, StringTooLarge, Unterminated, StringEscape,
         StringNext, Escape
<1>3. CASE Char \/ CharContent \/ CharEscape \/ CharNext \/ CharEnd
  BY <1>3 DEF Char, CharContent, CharEscape, CharNext, CharEnd, Escape
<1>4. CASE Number \/ Prefix \/ AfterPrefix \/ NumSeparator \/ NumDigit
  BY <1>4 DEF Number, Prefix, AfterPrefix, NumSeparator, NumDigit
<1>5. CASE NumExponent \/ ExpSign \/ ExpDigit \/ ExpBack \/ ExpCheck \/ NumStop \/ Overrun
  BY <1>5 DEF NumExponent, ExpSign, ExpDigit, ExpBack, ExpCheck, NumStop, Overrun
<1>6. QED
  BY <1>1, <1>2, <1>3, <1>4, <1>5 DEF Lex

\* Outside getnum its locals do not change, or start anew.
LEMMA NumRests ==
  ASSUME Lex, at \in Reading => at \notin {"prefix", "num", "expsign", "expdigits"},
         at \notin {"afterprefix", "expcheck"}
  PROVE  num' = num \/ num' = NoNum
<1>1. CASE Start \/ Blank \/ BlankEnd \/ Identifier \/ OneChar \/ TwoChar \/ TwoCharEnd
  BY <1>1 DEF Start, Blank, BlankEnd, Identifier, OneChar, TwoChar, TwoCharEnd, Rest
<1>2. CASE Skipping \/ Doc \/ String \/ StringChar \/ StringTooLarge \/ Unterminated
             \/ StringEscape \/ StringNext
  BY <1>2
     DEF Skipping, Doc, String, StringChar, StringTooLarge, Unterminated, StringEscape,
         StringNext, Escape, Rest
<1>3. CASE Char \/ CharContent \/ CharEscape \/ CharNext \/ CharEnd
  BY <1>3 DEF Char, CharContent, CharEscape, CharNext, CharEnd, Escape, Rest
<1>4. CASE Number \/ Prefix \/ AfterPrefix \/ NumSeparator \/ NumDigit
  BY <1>4 DEF Number, Prefix, AfterPrefix, NumSeparator, NumDigit, Reading
<1>5. CASE NumExponent \/ ExpSign \/ ExpDigit \/ ExpBack \/ ExpCheck \/ NumStop \/ Overrun
  BY <1>5
     DEF NumExponent, ExpSign, ExpDigit, ExpBack, ExpCheck, NumStop, Overrun, Rest, Reading
<1>6. QED
  BY <1>1, <1>2, <1>3, <1>4, <1>5 DEF Lex

Size   == 0 .. NumMax
NumSet == [base : {2, 8, 10, 16}, f : BOOLEAN, issep : BOOLEAN, busz : Size]

LEMMA NumExcept ==
  ASSUME NEW n \in NumSet, NEW f \in BOOLEAN, NEW sep \in BOOLEAN, NEW z \in Size
  PROVE  /\ n.f \in BOOLEAN /\ n.issep \in BOOLEAN /\ n.busz \in Size
         /\ [n EXCEPT !.busz = z] \in NumSet
         /\ [n EXCEPT !.f = f, !.busz = z] \in NumSet
         /\ [n EXCEPT !.issep = sep, !.busz = z] \in NumSet
         /\ [n EXCEPT !.f = f, !.issep = sep, !.busz = z] \in NumSet
  BY DEF NumSet

\* A place of buf that is written is one of its places.
LEMMA RoomFor ==
  ASSUME NEW z \in Size, Stores, HasRoom, z = num.busz
  PROVE  z + 1 \in Size
  BY LexAssumption DEF HasRoom, Size

LEMMA NumStep == ASSUME NumOK, Lex PROVE NumOK'
<1>1. NoNum \in [base : {2, 8, 10, 16}, f : BOOLEAN, issep : BOOLEAN, busz : 0 .. NumMax]
  BY LexAssumption DEF NoNum
<1>2. CASE num' = num \/ num' = NoNum
  BY <1>1, <1>2 DEF NumOK
<1>3. CASE Prefix \/ AfterPrefix
  BY <1>3 DEF Prefix, AfterPrefix, Rest, BaseOf, NumOK
<1>11. NumOK <=> num \in NumSet
  BY DEF NumOK, NumSet, Size
<1>12. NumOK' <=> num' \in NumSet
  BY DEF NumOK, NumSet, Size
<1>13. num.f \in BOOLEAN /\ num.issep \in BOOLEAN /\ num.busz \in Size
  BY <1>11 DEF NumSet
<1>4. CASE NumSeparator
  <2>1. PICK f \in BOOLEAN, z \in Size : num' = [num EXCEPT !.f = f, !.issep = TRUE, !.busz = z]
    <3>1. (num.f \/ c = ".") \in BOOLEAN
      OBVIOUS
    <3>2. (IF c = "." /\ ~num.f THEN num.busz + 1 ELSE num.busz) \in Size
      <4>1. c = "." /\ ~num.f => Stores /\ HasRoom
        BY <1>4 DEF NumSeparator, Stores
      <4>2. QED
        BY <1>13, <4>1, RoomFor
    <3>3. num' = [num EXCEPT !.f = (num.f \/ c = "."), !.issep = TRUE,
                    !.busz = IF c = "." /\ ~num.f THEN num.busz + 1 ELSE num.busz]
      BY <1>4 DEF NumSeparator
    <3>4. QED
      BY <3>1, <3>2, <3>3
  <2>2. QED
    BY <1>11, <1>12, <2>1, NumExcept
<1>5. CASE NumDigit
  <2>1. PICK z \in Size : num' = [num EXCEPT !.issep = FALSE, !.busz = z]
    <3>1. (IF ValidDigit(c) THEN num.busz + 1 ELSE num.busz) \in Size
      <4>1. ValidDigit(c) => Stores /\ HasRoom
        BY <1>5 DEF NumDigit, Stores
      <4>2. QED
        BY <1>13, <4>1, RoomFor
    <3>2. QED
      BY <1>5, <3>1 DEF NumDigit
  <2>2. QED
    BY <1>11, <1>12, <2>1, NumExcept
<1>6. CASE NumExponent \/ ExpSign \/ ExpDigit \/ ExpBack
  <2>1. Stores /\ HasRoom => num.busz + 1 \in Size
    BY <1>13, RoomFor
  <2>2. \/ num' = num
        \/ Stores /\ HasRoom /\ num' = [num EXCEPT !.busz = num.busz + 1]
        \/ Stores /\ HasRoom /\ num' = [num EXCEPT !.f = TRUE, !.busz = num.busz + 1]
    BY <1>6 DEF NumExponent, ExpSign, ExpDigit, ExpBack, Rest, Stores
  <2>3. QED
    BY <1>11, <1>12, <2>1, <2>2, NumExcept
<1>7. CASE ExpCheck \/ NumStop
  <2>1. PICK z \in Size : num' = [num EXCEPT !.busz = z]
    <3>1. (IF num.busz = 0 THEN 1 ELSE num.busz) \in Size
      BY <1>13, LexAssumption DEF Size
    <3>2. QED
      BY <1>7, <3>1 DEF ExpCheck, NumStop, NumEnd
  <2>2. QED
    BY <1>11, <1>12, <2>1, NumExcept
<1>8. CASE at \notin {"prefix", "num", "expsign", "expdigits", "afterprefix", "expcheck"}
  BY <1>2, <1>8, NumRests
<1>9. ASSUME at \in {"prefix", "num", "expsign", "expdigits", "afterprefix", "expcheck"}
      PROVE  \/ Prefix \/ AfterPrefix \/ NumSeparator \/ NumDigit
             \/ NumExponent \/ ExpSign \/ ExpDigit \/ ExpBack \/ ExpCheck \/ NumStop \/ Overrun
  BY <1>9
     DEF Lex, Start, Blank, BlankEnd, Identifier, OneChar, TwoChar, TwoCharEnd,
         Skipping, Doc, String, StringChar, StringTooLarge, Unterminated, StringEscape,
         StringNext, Char, CharContent, CharEscape, CharNext, CharEnd, Escape, Number
<1>14. CASE Overrun
  BY <1>2, <1>14 DEF Overrun, Rest
<1>10. QED
  BY <1>3, <1>4, <1>5, <1>6, <1>7, <1>8, <1>9, <1>14

\* readuntil ends in a literal or a comment.
Literal == {"DOC", "STRING", "CHAR"}

LEMMA SkipStep ==
  ASSUME SkipOK, at = "readuntil" => skip.kind \in Literal, Lex
  PROVE  SkipOK' /\ (at' = "readuntil" => skip'.kind \in Literal)
<1> USE DEF SkipOK, Literal, Kinds
<1>1. CASE Start \/ Blank \/ BlankEnd \/ Identifier \/ OneChar \/ TwoChar \/ TwoCharEnd
  BY <1>1, ReturnAt
     DEF Start, Blank, BlankEnd, Identifier, OneChar, TwoChar, TwoCharEnd, Rest
<1>2. CASE Skipping \/ Doc \/ String \/ StringChar
  BY <1>2, ReturnAt DEF Skipping, Doc, String, StringChar, ReadUntil, Rest
<1>3. CASE StringTooLarge \/ Unterminated \/ StringEscape \/ StringNext
  BY <1>3, ReturnAt
     DEF StringTooLarge, Unterminated, StringEscape, StringNext, Escape, ReadUntil, Rest
<1>4. CASE Char \/ CharContent \/ CharEscape \/ CharNext \/ CharEnd
  BY <1>4, ReturnAt
     DEF Char, CharContent, CharEscape, CharNext, CharEnd, Escape, ReadUntil, Rest
<1>5. CASE Number \/ Prefix \/ AfterPrefix \/ NumSeparator \/ NumDigit
  BY <1>5 DEF Number, Prefix, AfterPrefix, NumSeparator, NumDigit, Rest
<1>6. CASE NumExponent \/ ExpSign \/ ExpDigit \/ ExpBack \/ ExpCheck \/ NumStop \/ Overrun
  BY <1>6, ReturnAt
     DEF NumExponent, ExpSign, ExpDigit, ExpBack, ExpCheck, NumStop, Overrun, Rest
<1>7. QED
  BY <1>1, <1>2, <1>3, <1>4, <1>5, <1>6 DEF Lex

-----------------------------------------------------------------------------
(* The ways through mlexer_lex. *)

\* What leads to each place.
Edges ==
  /\ at' = "dispatch"    => Start
  /\ at' = "blank"       => Blank
  /\ at' \in {"&", "|"}  => TwoChar
  /\ at' = "prefix"      => Number
  /\ at' = "afterprefix" => Prefix
  /\ at' = "num"         => Number \/ AfterPrefix \/ NumSeparator \/ NumDigit
  /\ at' = "expsign"     => NumExponent
  /\ at' = "expdigits"   => ExpSign \/ ExpDigit
  /\ at' = "expcheck"    => ExpBack
  /\ at' \notin {"start", "dispatch", "blank", "finished"} =>
       at \notin {"start", "blank", "finished"} /\ (at = "dispatch" => c \notin Space \cup {End})

LEMMA Ways == ASSUME Lex PROVE Edges
<1>1. CASE Start \/ Blank \/ BlankEnd
  BY <1>1, ReturnAt DEF Start, Blank, BlankEnd, Edges
<1>2. CASE Identifier \/ OneChar \/ TwoChar
  BY <1>2, ReturnAt DEF Identifier, OneChar, TwoChar, Edges, Space, NL, End
<1>3. CASE TwoCharEnd
  BY <1>3, ReturnAt DEF TwoCharEnd, Second, Edges
<1>4. CASE Doc \/ String \/ Char \/ Number
  BY <1>4
     DEF Doc, String, Char, Number, ReadUntil, Edges, Space, NL, End, BS, DQ, SQ, Digit
<1>5. CASE Skipping \/ StringChar \/ StringTooLarge \/ Unterminated
  BY <1>5, ReturnAt DEF Skipping, StringChar, StringTooLarge, Unterminated, ReadUntil, Edges
<1>6. CASE StringEscape \/ StringNext \/ CharContent
  BY <1>6, ReturnAt DEF StringEscape, StringNext, CharContent, Escape, ReadUntil, Edges
<1>7. CASE CharEscape \/ CharNext \/ CharEnd
  BY <1>7, ReturnAt DEF CharEscape, CharNext, CharEnd, Escape, ReadUntil, Edges
<1>8. CASE Prefix \/ AfterPrefix \/ NumSeparator \/ NumDigit
  BY <1>8 DEF Prefix, AfterPrefix, NumSeparator, NumDigit, Edges
<1>9. CASE NumExponent \/ ExpSign \/ ExpDigit \/ ExpBack
  BY <1>9 DEF NumExponent, ExpSign, ExpDigit, ExpBack, Edges
<1>10. CASE ExpCheck \/ NumStop
  BY <1>10, ReturnAt DEF ExpCheck, NumStop, Edges
<1>12. CASE Overrun
  BY <1>12 DEF Overrun, Stores, Edges
<1>11. QED
  BY <1>1, <1>2, <1>3, <1>4, <1>5, <1>6, <1>7, <1>8, <1>9, <1>10, <1>12 DEF Lex

LEMMA BeginStep ==
  ASSUME BufOK, HeadOK, CharOK, BegOK, SkipOK, len \in 0 .. StrMax, InHand, Beginning, Lex
  PROVE  Beginning'
<1>1. Edges /\ buf' = buf /\ (beg' = beg \/ Start)
  BY Ways, Moves
<1>2. Len(buf) \in Nat /\ off \in 0 .. Len(buf) /\ beg.off \in 0 .. Len(buf)
  BY DEF BufOK, HeadOK, BegOK
<1>3. getch => \/ c' = End /\ off' = off /\ off = Len(buf) /\ line' = line
               \/ /\ off < Len(buf) /\ off' = off + 1 /\ c' = buf[off + 1] /\ c' # End
                  /\ c' # NL => line' = line
  <2>1. End \notin AllChars
    BY DEF End, AllChars, Space, Digit, Alpha, HexLetter, Single, NL, DQ, SQ, BS
  <2>2. QED
    BY <1>1, <2>1, ReadHead
<1>4. Start => getch /\ beg'.off = off /\ beg'.line = line /\ at' = "dispatch"
  BY DEF Start
<1>5. (at = "dispatch" => \/ c = End /\ beg.off = Len(buf)
                          \/ off = beg.off + 1 /\ c = buf[off])'
  BY <1>1, <1>2, <1>3, <1>4 DEF Edges
<1>6. at' \in {"blank", "&", "|"} => getch /\ c # NL /\ at \in {"dispatch", "blank"} /\ beg' = beg
                                /\ (at' = "blank" => off < Len(buf) /\ c \in Space)
  BY <1>1, <1>4, ReturnAt DEF Edges, Blank, TwoChar, Space, NL
<1>7. (at = "blank" => /\ c # End /\ beg.off < off
                       /\ \A k \in beg.off + 1 .. off - 1 : buf[k] = "SP")'
  <2>1. SUFFICES ASSUME at' = "blank"
                 PROVE  /\ c' # End /\ beg.off < off'
                        /\ \A k \in beg.off + 1 .. off' - 1 : buf[k] = "SP"
    BY <1>1, <1>6
  <2>2. /\ off' = off + 1 /\ c' # End /\ c = "SP" /\ off' - 1 = off
        /\ at \in {"dispatch", "blank"}
    BY <1>2, <1>3, <1>6, <2>1 DEF Space
  <2>3. CASE at = "dispatch"
    <3>1. off = beg.off + 1 /\ buf[off] = "SP"
      BY <2>2, <2>3 DEF Beginning, End
    <3>2. QED
      BY <1>2, <2>2, <3>1
  <2>4. CASE at = "blank"
    <3>1. beg.off < off /\ buf[off] = "SP" /\ \A k \in beg.off + 1 .. off - 1 : buf[k] = "SP"
      BY <2>2, <2>4 DEF Beginning, InHand, Reading, End
    <3>2. QED
      BY <1>2, <2>2, <3>1
  <2>5. QED
    BY <2>2, <2>3, <2>4
<1>8. (at \in {"dispatch", "blank", "&", "|"} /\ c # NL => line = beg.line)'
  <2>1. CASE at' = "dispatch"
    BY <1>1, <1>3, <1>4, <2>1 DEF Edges
  <2>2. CASE at' \in {"blank", "&", "|"}
    BY <1>3, <1>6, <2>2 DEF Beginning
  <2>3. QED
    BY <2>1, <2>2
<1>9. (at \notin {"start", "dispatch", "blank", "finished"} =>
         beg.off < Len(buf) /\ buf[beg.off + 1] \notin Space)'
  <2>1. SUFFICES ASSUME at' \notin {"start", "dispatch", "blank", "finished"}
                 PROVE  beg'.off < Len(buf) /\ buf[beg'.off + 1] \notin Space
    BY <1>1
  <2>2. beg' = beg
    BY <1>1, <1>4, <2>1
  <2>3. CASE at = "dispatch"
    BY <1>1, <1>2, <2>1, <2>2, <2>3 DEF Edges, Beginning
  <2>4. CASE at # "dispatch"
    BY <1>1, <2>1, <2>2, <2>4 DEF Edges, Beginning
  <2>5. QED
    BY <2>3, <2>4
<1>10. (at = "stringescape" => len < StrMax)'
  BY LenStep DEF Beginning
<1>11. (at = "readuntil" => skip.kind \in {"DOC", "STRING", "CHAR"})'
  BY SkipStep DEF Beginning, Literal
<1>12. QED
  BY <1>5, <1>7, <1>8, <1>9, <1>10, <1>11 DEF Beginning

-----------------------------------------------------------------------------
(* The tokens. *)

\* The token mlexer_lex answers.
Answered(k) == [kind |-> k, beg |-> beg.off, end |-> off', bad |-> bad',
                line |-> beg.line, column |-> beg.column,
                newline |-> (line' # beg.line), busz |-> num'.busz]

LEMMA GoodKept ==
  ASSUME buf' = buf, NEW t
  PROVE  Good(t)' <=> Good(t)
  BY DEF Good, IsLocation, BreaksBefore, DigitsOf

LEMMA ReturnStep ==
  ASSUME BufOK, BegOK, HeadOK', NumOK', bad' \in BOOLEAN, buf' = buf,
         toks \in Seq(Token), AllGood,
         NEW k \in Kinds, Return(k), Good(Answered(k))
  PROVE  toks' \in Seq(Token) /\ AllGood'
<1>1. PICK t : t = Answered(k)
  OBVIOUS
<1>2. toks' = Append(toks, t)
  BY <1>1 DEF Return, Answered
<1>3. t \in Token
  <2>1. beg.off \in Nat /\ off' \in Nat /\ num'.busz \in Nat
    BY DEF BufOK, BegOK, HeadOK, NumOK
  <2>2. beg.line \in Nat \ {0} /\ beg.column \in Nat \ {0}
    BY DEF BegOK
  <2>3. QED
    BY <1>1, <2>1, <2>2 DEF Answered, Token
<1>4. toks' \in Seq(Token) /\ Len(toks') = Len(toks) + 1
  BY <1>2, <1>3
<1>5. ASSUME NEW j \in 1 .. Len(toks') PROVE Good(toks'[j])
  <2>1. CASE j \in 1 .. Len(toks)
    <3>1. toks'[j] = toks[j]
      BY <1>2, <2>1
    <3>2. QED
      BY <2>1, <3>1 DEF AllGood
  <2>2. CASE j \notin 1 .. Len(toks)
    <3>1. Len(toks) \in Nat
      OBVIOUS
    <3>2. j = Len(toks) + 1
      BY <1>4, <2>2, <3>1
    <3>3. toks'[j] = t
      BY <1>2, <3>2
    <3>4. QED
      BY <1>1, <3>3
  <2>3. QED
    BY <2>1, <2>2
<1>6. AllGood'
  <2>1. ASSUME NEW j \in 1 .. Len(toks') PROVE Good(toks[j])'
    <3>1. Good(toks'[j])
      BY <1>5
    <3>2. QED
      BY <3>1 DEF Good, IsLocation, BreaksBefore, DigitsOf
  <2>2. QED
    BY <2>1 DEF AllGood
<1>7. QED
  BY <1>4, <1>6

\* What is asked of a token that is not a line break, not invalid, not a number.
LEMMA PlainGood ==
  ASSUME BegOK, NEW k \in Kinds \ {"EOL", "INVAL", "INTEGER"},
         k # "EOF" => buf[beg.off + 1] \notin Space,
         k \notin Broken => line' = beg.line
  PROVE  Good(Answered(k))
  BY DEF Good, Answered, BegOK, Broken

-----------------------------------------------------------------------------
(* The digits of a number. *)

LEMMA DigitsEmpty ==
  ASSUME NEW b \in Nat, NEW hex
  PROVE  Digits(b, b, hex) = {} /\ Cardinality(Digits(b, b, hex)) = 0
<1>1. b + 1 .. b = {}
  OBVIOUS
<1>2. Digits(b, b, hex) = {}
  BY <1>1 DEF Digits
<1>3. QED
  BY <1>2, FS_EmptySet

LEMMA DigitsNext ==
  ASSUME NEW b \in Nat, NEW e \in Nat, b <= e, NEW hex
  PROVE  /\ Counts(e + 1, b, hex) => Cardinality(Digits(b, e + 1, hex)) = Cardinality(Digits(b, e, hex)) + 1
         /\ ~Counts(e + 1, b, hex) => Digits(b, e + 1, hex) = Digits(b, e, hex)
         /\ Cardinality(Digits(b, e, hex)) \in Nat
<1>1. b + 1 .. e + 1 = (b + 1 .. e) \cup {e + 1} /\ e + 1 \notin b + 1 .. e
  OBVIOUS
<1>2. IsFiniteSet(b + 1 .. e)
  BY FS_Interval
<1>3. Digits(b, e, hex) \subseteq b + 1 .. e
  BY DEF Digits
<1>4. IsFiniteSet(Digits(b, e, hex)) /\ Cardinality(Digits(b, e, hex)) \in Nat
  BY <1>2, <1>3, FS_Subset, FS_CardinalityType
<1>5. ASSUME Counts(e + 1, b, hex)
      PROVE  Cardinality(Digits(b, e + 1, hex)) = Cardinality(Digits(b, e, hex)) + 1
  <2>1. Digits(b, e + 1, hex) = Digits(b, e, hex) \cup {e + 1}
    BY <1>1, <1>5 DEF Digits
  <2>2. e + 1 \notin Digits(b, e, hex)
    BY <1>1, <1>3
  <2>3. QED
    BY <1>4, <2>1, <2>2, FS_AddElement
<1>6. ASSUME ~Counts(e + 1, b, hex)
      PROVE  Digits(b, e + 1, hex) = Digits(b, e, hex)
  BY <1>1, <1>6 DEF Digits
<1>7. QED
  BY <1>4, <1>5, <1>6

\* The leading zero of a number and the letter of its base are no digits of it.
LEMMA PrefixHasNoDigits ==
  ASSUME NEW b \in Nat, NEW e \in b .. b + 2, NEW hex,
         buf[b + 1] = "0", e = b + 2 => ~Counts(e, b, hex)
  PROVE  Cardinality(Digits(b, e, hex)) = 0
<1>1. ~Counts(b + 1, b, hex)
  BY DEF Counts, HexLetter
<1>2. Digits(b, b, hex) = {} /\ Cardinality(Digits(b, b, hex)) = 0
  BY DigitsEmpty
<1>3. Digits(b, b + 1, hex) = Digits(b, b, hex)
  BY <1>1, DigitsNext
<1>4. CASE e = b + 2
  <2>1. PICK d \in Nat : d = b + 1 /\ d + 1 = e
    BY <1>4
  <2>2. Digits(b, d + 1, hex) = Digits(b, d, hex)
    BY <1>4, <2>1, DigitsNext
  <2>3. QED
    BY <1>2, <1>3, <2>1, <2>2
<1>5. CASE e # b + 2
  BY <1>2, <1>3, <1>5
<1>6. QED
  BY <1>4, <1>5

\* The invariant of the loop of getnum.
Counted(n) ==
  /\ n.base = 16 <=> HexAt(beg.off)
  /\ n.base = 16 => off >= beg.off + (IF c = End THEN 2 ELSE 3)
  /\ off > beg.off
  /\ c = "0" /\ off = beg.off + 1 => Len(buf) = off
  /\ ~bad => LET m == Cardinality(Digits(beg.off, IF c = End THEN off ELSE off - 1,
                                         n.base = 16))
             IN  n.busz = m \/ (m = 0 /\ n.busz = 1 /\ c = End)

LEMMA AfterPrefixStep ==
  ASSUME BufOK, HeadOK, BegOK, NumOK, Numbers, AfterPrefix
  PROVE  Counted(num)'
<1>1. at = "afterprefix" /\ getch /\ UNCHANGED <<buf, beg, num>>
  BY DEF AfterPrefix, Rest
<1>2. PICK b \in Nat : b = beg.off
  BY DEF BufOK, BegOK
<1>3. /\ buf[b + 1] = "0" /\ num.busz = 0 /\ ~num.f
      /\ num.base = 16 <=> HexAt(b)
      /\ num.base = 16 => off = b + 2
      /\ off = b => Len(buf) = b + 1
      /\ off \in b .. b + 2
      /\ off = b + 2 => ~Counts(off, b, num.base = 16)
  BY <1>1, <1>2 DEF Numbers
<1>4. \/ c' = End /\ off' = off /\ off = Len(buf)
      \/ off < Len(buf) /\ off' = off + 1 /\ c' \in AllChars
  BY <1>1, ReadHead
<1>5. (IF c' = End THEN off' ELSE off' - 1) = off
  <2>1. End \notin AllChars
    BY DEF End, AllChars, Space, Digit, Alpha, HexLetter, Single, NL, DQ, SQ, BS
  <2>2. QED
    BY <1>3, <1>4, <2>1
<1>6. PICK hex : hex = (num.base = 16)
  OBVIOUS
<1>7. Cardinality(Digits(b, off, hex)) = 0
  BY <1>3, <1>6, PrefixHasNoDigits
<1>8. Cardinality(Digits(b, off, num.base = 16)) = 0
  BY <1>6, <1>7
<1>9. HexAt(beg.off)' <=> HexAt(b)
  BY <1>1, <1>2 DEF HexAt
<1>10. Digits(b, off, num.base = 16) = {k \in b + 1 .. off : Counts(k, b, num.base = 16)}
  BY DEF Digits
<1>11. Digits(beg.off, IF c = End THEN off ELSE off - 1, num.base = 16)'
          = Digits(b, off, num.base = 16)
  BY <1>1, <1>2, <1>5 DEF Digits, Counts
<1>12. c' = "0" /\ off' = b + 1 => Len(buf') = off'
  <2>1. End # "0"
    BY DEF End
  <2>2. QED
    BY <1>1, <1>3, <1>4, <2>1
<1>13. off' > b /\ (num.base = 16 => off' >= b + (IF c' = End THEN 2 ELSE 3))
  <2>1. End \notin AllChars
    BY DEF End, AllChars, Space, Digit, Alpha, HexLetter, Single, NL, DQ, SQ, BS
  <2>2. QED
    BY <1>3, <1>4, <2>1
<1>14. QED
  BY <1>1, <1>2, <1>3, <1>8, <1>9, <1>11, <1>12, <1>13 DEF Counted

LEMMA EndIsNoCharacter == End \notin AllChars
  BY DEF End, AllChars, Space, Digit, Alpha, HexLetter, Single, NL, DQ, SQ, BS

\* The loop of getnum takes the character in hand and reads the next.
LEMMA CountStep ==
  ASSUME BufOK, HeadOK, BegOK, NumOK, InHand, at = "num", c # End, Counted(num),
         getch, UNCHANGED <<buf, beg>>, num'.base = num.base,
         ~bad' => /\ ~bad
                  /\ \/ /\ Counts(off, beg.off, num.base = 16)
                        /\ num'.busz = num.busz + 1
                     \/ /\ ~Counts(off, beg.off, num.base = 16)
                        /\ \/ num'.busz = num.busz
                           \/ c = "0" /\ off = beg.off + 1 /\ num'.busz = num.busz + 1
  PROVE  Counted(num)'
<1>1. PICK b \in Nat : b = beg.off
  BY DEF BufOK, BegOK
<1>2. off \in 1 .. Len(buf) /\ Len(buf) \in Nat /\ c = buf[off] /\ off > b
  BY <1>1 DEF InHand, Reading, BufOK, Counted
<1>3. PICK e \in Nat : e = off - 1 /\ off = e + 1 /\ b <= e
  BY <1>1, <1>2
<1>4. \/ c' = End /\ off' = off /\ off = Len(buf)
      \/ off < Len(buf) /\ off' = off + 1 /\ c' \in AllChars
  BY ReadHead
<1>5. (IF c' = End THEN off' ELSE off' - 1) = off
  BY <1>2, <1>4, EndIsNoCharacter
<1>6. PICK hex : hex = (num.base = 16)
  OBVIOUS
<1>7. Digits(beg.off, IF c = End THEN off ELSE off - 1, num.base = 16)' = Digits(b, off, hex)
  BY <1>1, <1>5, <1>6 DEF Digits, Counts
<1>8. HexAt(beg.off)' <=> HexAt(beg.off)
  BY DEF HexAt
<1>9. /\ num.base = 16 <=> HexAt(beg.off)
      /\ num.base = 16 => off >= b + 3
      /\ c = "0" /\ off = b + 1 => Len(buf) = off
      /\ ~bad => num.busz = Cardinality(Digits(b, e, hex))
  BY <1>1, <1>3, <1>6 DEF Counted
<1>10. /\ off' > b
       /\ num.base = 16 => off' >= b + (IF c' = End THEN 2 ELSE 3)
       /\ c' = "0" /\ off' = b + 1 => Len(buf') = off'
  BY <1>2, <1>4, <1>9, EndIsNoCharacter DEF End
<1>11. ~bad' => \/ num'.busz = Cardinality(Digits(b, off, hex))
                \/ Cardinality(Digits(b, off, hex)) = 0 /\ num'.busz = 1 /\ c' = End
  <2>1. SUFFICES ASSUME ~bad'
                 PROVE  \/ num'.busz = Cardinality(Digits(b, off, hex))
                        \/ /\ Cardinality(Digits(b, off, hex)) = 0
                           /\ num'.busz = 1 /\ c' = End
    OBVIOUS
  <2>2. num.busz = Cardinality(Digits(b, e, hex))
    BY <1>9, <2>1
  <2>3. CASE Counts(off, b, hex)
    <3>1. num'.busz = num.busz + 1
      BY <1>1, <1>6, <2>1, <2>3
    <3>2. Counts(e + 1, b, hex)
      BY <1>3, <2>3
    <3>3. Cardinality(Digits(b, e + 1, hex)) = Cardinality(Digits(b, e, hex)) + 1
      BY <1>3, <3>2, DigitsNext
    <3>4. QED
      BY <1>3, <2>2, <3>1, <3>3
  <2>4. CASE ~Counts(off, b, hex)
    <3>1. \/ num'.busz = num.busz
          \/ c = "0" /\ off = b + 1 /\ num'.busz = num.busz + 1
      BY <1>1, <1>6, <2>1, <2>4
    <3>2. ~Counts(e + 1, b, hex)
      BY <1>3, <2>4
    <3>3. Digits(b, e + 1, hex) = Digits(b, e, hex)
      BY <1>3, <3>2, DigitsNext
    <3>4. Digits(b, off, hex) = Digits(b, e, hex)
      BY <1>3, <3>3
    <3>5. CASE c = "0" /\ off = b + 1 /\ num'.busz = num.busz + 1
      <4>1. e = b /\ c' = End
        BY <1>2, <1>3, <1>4, <1>9, <3>5
      <4>2. Cardinality(Digits(b, e, hex)) = 0
        BY <4>1, DigitsEmpty
      <4>3. QED
        BY <2>2, <3>4, <3>5, <4>1, <4>2
    <3>6. QED
      BY <2>2, <3>1, <3>4, <3>5
  <2>5. QED
    BY <2>3, <2>4
<1>12. QED
  BY <1>1, <1>6, <1>7, <1>8, <1>9, <1>10, <1>11 DEF Counted

LEMMA SeparatorStep ==
  ASSUME BufOK, HeadOK, BegOK, NumOK, bad \in BOOLEAN, InHand, Numbers, NumSeparator, ~num'.f
  PROVE  Counted(num)'
<1>1. /\ at = "num" /\ c \in {".", ";"} /\ getch /\ UNCHANGED <<buf, beg>>
      /\ bad' = (bad \/ num.issep \/ (c = "." /\ num.f))
      /\ num' = [num EXCEPT !.f = (num.f \/ c = "."), !.issep = TRUE,
                            !.busz = IF c = "." /\ ~num.f THEN num.busz + 1 ELSE num.busz]
  BY DEF NumSeparator
<1>2. /\ num'.base = num.base /\ num'.f = (num.f \/ c = ".")
      /\ num'.busz = IF c = "." /\ ~num.f THEN num.busz + 1 ELSE num.busz
  BY <1>1 DEF NumOK
<1>3. c = ";" /\ ~num.f /\ num'.busz = num.busz
  BY <1>1, <1>2 DEF NumOK
<1>4. c # End /\ Counted(num)
  BY <1>1, <1>3 DEF Numbers, Counted, End
<1>5. c = buf[off]
  BY <1>1, <1>4 DEF InHand, Reading
<1>6. ~Counts(off, beg.off, num.base = 16)
  BY <1>3, <1>5 DEF Counts, Digit, HexLetter
<1>7. ~bad' => ~bad
  BY <1>1
<1>8. QED
  BY <1>1, <1>2, <1>3, <1>4, <1>6, <1>7, CountStep

LEMMA DigitStep ==
  ASSUME BufOK, HeadOK, BegOK, NumOK, bad \in BOOLEAN, InHand, Numbers, NumDigit, ~num'.f
  PROVE  Counted(num)'
<1>1. /\ at = "num" /\ c \in Digit \cup HexLetter /\ getch /\ UNCHANGED <<buf, beg>>
      /\ bad' = (bad \/ ~ValidDigit(c))
      /\ num' = [num EXCEPT !.issep = FALSE,
                            !.busz = IF ValidDigit(c) THEN num.busz + 1 ELSE num.busz]
  BY DEF NumDigit
<1>2. /\ num'.base = num.base /\ num'.f = num.f
      /\ num'.busz = IF ValidDigit(c) THEN num.busz + 1 ELSE num.busz
  BY <1>1 DEF NumOK
<1>3. c # End /\ Counted(num)
  BY <1>1, <1>2 DEF Numbers, Counted, End, Digit, HexLetter
<1>4. c = buf[off]
  BY <1>1, <1>3 DEF InHand, Reading
<1>5. ~bad' => ~bad /\ ValidDigit(c) /\ num'.busz = num.busz + 1
  BY <1>1, <1>2
<1>6. ValidDigit(c) =>
        \/ Counts(off, beg.off, num.base = 16)
        \/ ~Counts(off, beg.off, num.base = 16) /\ c = "0" /\ off = beg.off + 1
  BY <1>1, <1>4 DEF Counts, ValidDigit
<1>7. QED
  BY <1>1, <1>2, <1>3, <1>5, <1>6, CountStep

\* A leading zero is looked at with the character after it.
Prefixed ==
  /\ num = NoNum /\ buf[beg.off + 1] = "0"
  /\ off = beg.off + IF c = End THEN 1 ELSE 2

LEMMA NumberStep ==
  ASSUME BufOK, HeadOK, BegOK, InHand, Beginning, bad \in BOOLEAN, Number
  PROVE  /\ at' = "prefix" => Prefixed'
         /\ at' # "prefix" => Counted(num)'
<1>1. /\ at = "dispatch" /\ c \in Digit /\ num' = NoNum /\ UNCHANGED <<buf, beg, bad>>
      /\ IF c = "0" THEN getch /\ at' = "prefix" ELSE UNCHANGED <<head, c>> /\ at' = "num"
  BY DEF Number
<1>2. PICK b \in Nat : b = beg.off
  BY DEF BufOK, BegOK
<1>3. off = b + 1 /\ c = buf[off] /\ c # End
  BY <1>1, <1>2 DEF Beginning, Digit, End
<1>4. CASE c = "0"
  <2>1. at' = "prefix" /\ buf[b + 1] = "0" /\ getch
    BY <1>1, <1>3, <1>4
  <2>2. \/ c' = End /\ off' = off
        \/ off' = off + 1 /\ c' \in AllChars
    BY <1>1, <2>1, ReadHead
  <2>3. off' = b + IF c' = End THEN 1 ELSE 2
    BY <1>3, <2>2, EndIsNoCharacter
  <2>4. QED
    BY <1>1, <1>2, <2>1, <2>3 DEF Prefixed
<1>5. CASE c # "0"
  <2>1. at' = "num" /\ c' = c /\ off' = off
    BY <1>1, <1>5 DEF head
  <2>2. Cardinality(Digits(b, b, FALSE)) = 0
    BY DigitsEmpty
  <2>3. Digits(beg.off, IF c = End THEN off ELSE off - 1, FALSE)' = Digits(b, b, FALSE)
    BY <1>1, <1>2, <1>3, <2>1 DEF Digits, Counts
  <2>4. ~HexAt(beg.off)'
    BY <1>1, <1>2, <1>3, <1>5 DEF HexAt
  <2>5. num'.base = 10 /\ num'.busz = 0
    BY <1>1 DEF NoNum
  <2>6. off' > b /\ c' # "0"
    BY <1>3, <1>5, <2>1
  <2>7. (num'.base = 16) = FALSE
    BY <2>5
  <2>8. QED
    BY <1>1, <1>2, <2>1, <2>2, <2>3, <2>4, <2>5, <2>6, <2>7 DEF Counted
<1>6. QED
  BY <1>4, <1>5

\* What getnum knows when the letter of the base is behind it, or there is none.
BaseKnown ==
  /\ buf[beg.off + 1] = "0" /\ num.busz = 0 /\ ~num.f
  /\ num.base = 16 <=> HexAt(beg.off)
  /\ num.base = 16 => off = beg.off + 2
  /\ off = beg.off => Len(buf) = beg.off + 1
  /\ off \in beg.off .. beg.off + 2
  /\ off = beg.off + 2 => ~Counts(off, beg.off, num.base = 16)

LEMMA PrefixStep ==
  ASSUME BufOK, HeadOK, BegOK, InHand, Beginning, Numbers, Prefix
  PROVE  BaseKnown'
<1>1. /\ at = "prefix" /\ UNCHANGED <<buf, beg, c>>
      /\ IF c \in {"o", "b", "x"} THEN num' = [num EXCEPT !.base = BaseOf[c]] /\ UNCHANGED head
                                  ELSE ungetch /\ UNCHANGED num
  BY DEF Prefix
<1>2. PICK b \in Nat : b = beg.off
  BY DEF BufOK, BegOK
<1>3. num = NoNum /\ buf[b + 1] = "0" /\ off = b + IF c = End THEN 1 ELSE 2
  BY <1>1, <1>2 DEF Numbers
<1>4. Len(buf) \in Nat /\ \/ c = End /\ off = Len(buf)
                          \/ off \in 1 .. Len(buf) /\ c = buf[off]
  BY <1>1 DEF InHand, Reading, BufOK
<1>5. HexAt(beg.off)' <=> HexAt(b)
  BY <1>1, <1>2 DEF HexAt
<1>6. Counts(off, beg.off, num.base = 16)' <=> Counts(off', b, num'.base = 16)
  BY <1>1, <1>2 DEF Counts
<1>7. CASE c \in {"o", "b", "x"}
  <2>1. c # End
    BY <1>7 DEF End
  <2>2. off = b + 2 /\ off' = off /\ c = buf[off]
    BY <1>1, <1>3, <1>4, <1>7, <2>1 DEF head
  <2>3. num' = [NoNum EXCEPT !.base = BaseOf[c]]
    BY <1>1, <1>3, <1>7
  <2>4. num'.busz = 0 /\ ~num'.f /\ num'.base = BaseOf[c]
    BY <2>3 DEF NoNum
  <2>5. num'.base = 16 <=> c = "x"
    BY <1>7, <2>4 DEF BaseOf
  <2>6. HexAt(b) <=> c = "x"
    BY <1>3, <1>4, <2>1, <2>2 DEF HexAt
  <2>7. c # "x" \/ num'.base = 16
    BY <2>5
  <2>8. ~Counts(off', b, num'.base = 16)
    <3>1. c \notin Digit
      BY <1>7 DEF Digit
    <3>2. c \in HexLetter => ~(num'.base = 16)
      BY <2>5 DEF HexLetter
    <3>3. QED
      BY <2>2, <3>1, <3>2 DEF Counts
  <2>9. off' = b + 2 /\ off' # b /\ off' \in b .. b + 2
    BY <2>2
  <2>10. QED
    BY <1>1, <1>2, <1>3, <1>5, <1>6, <2>4, <2>5, <2>6, <2>8, <2>9 DEF BaseKnown
<1>8. CASE c \notin {"o", "b", "x"}
  <2>1. ungetch /\ num' = NoNum
    BY <1>1, <1>3, <1>8
  <2>2. num'.busz = 0 /\ ~num'.f /\ num'.base = 10
    BY <2>1 DEF NoNum
  <2>3. off' = IF off > 0 /\ buf[off] # NL THEN off - 1 ELSE off
    BY <1>1, <2>1, BackHead
  <2>4. CASE c = End
    <3>1. off = b + 1 /\ off = Len(buf) /\ buf[off] # NL
      BY <1>3, <1>4, <2>4 DEF NL, End
    <3>2. off' = b
      BY <2>3, <3>1
    <3>3. ~HexAt(b)
      BY <3>1 DEF HexAt
    <3>4. QED
      BY <1>1, <1>2, <1>3, <1>5, <2>2, <3>1, <3>2, <3>3 DEF BaseKnown
  <2>5. CASE c # End
    <3>1. off = b + 2 /\ c = buf[off] /\ off <= Len(buf)
      BY <1>3, <1>4, <2>5
    <3>2. ~HexAt(b)
      BY <1>8, <3>1 DEF HexAt
    <3>3. off' = IF c # NL THEN b + 1 ELSE b + 2
      BY <2>3, <3>1
    <3>4. off' = b + 2 => ~Counts(off', b, num'.base = 16)
      BY <3>1, <3>3 DEF Counts, NL, Digit, HexLetter
    <3>5. off' \in b .. b + 2 /\ off' # b
      BY <3>3
    <3>6. QED
      BY <1>1, <1>2, <1>3, <1>5, <1>6, <2>2, <3>2, <3>4, <3>5 DEF BaseKnown
  <2>6. QED
    BY <2>4, <2>5
<1>9. QED
  BY <1>7, <1>8

LEMMA FloatStep ==
  ASSUME NumOK, Numbers, NumExponent \/ ExpSign \/ ExpDigit \/ ExpBack
  PROVE  num'.f
<1>1. CASE NumExponent
  <2>1. num' = [num EXCEPT !.f = TRUE, !.busz = num.busz + 1]
    BY <1>1 DEF NumExponent
  <2>2. QED
    BY <2>1 DEF NumOK
<1>2. CASE ExpSign \/ ExpDigit \/ ExpBack
  <2>1. num.f
    BY <1>2 DEF ExpSign, ExpDigit, ExpBack, Numbers
  <2>2. num' = num \/ num' = [num EXCEPT !.busz = num.busz + 1]
    BY <1>2 DEF ExpSign, ExpDigit, ExpBack, Rest
  <2>3. QED
    BY <2>1, <2>2 DEF NumOK
<1>3. QED
  BY <1>1, <1>2

LEMMA NumbersParts ==
  Numbers <=>
    /\ at = "prefix" => Prefixed
    /\ at = "afterprefix" => BaseKnown
    /\ at = "num" /\ ~num.f => Counted(num)
    /\ at \in {"expsign", "expdigits", "expcheck"} => num.f
  BY DEF Numbers, Prefixed, BaseKnown, Counted

LEMMA NumbersStep ==
  ASSUME BufOK, HeadOK, BegOK, NumOK, bad \in BOOLEAN, InHand, Beginning, Numbers, Lex
  PROVE  Numbers'
<1>1. Edges
  BY Ways
<1>2. at' = "prefix" => Prefixed'
  BY <1>1, NumberStep DEF Edges
<1>3. at' = "afterprefix" => BaseKnown'
  BY <1>1, PrefixStep DEF Edges
<1>4. at' = "num" /\ ~num'.f => Counted(num)'
  <2>1. SUFFICES ASSUME at' = "num", ~num'.f PROVE Counted(num)'
    OBVIOUS
  <2>2. CASE Number
    BY <2>1, <2>2, NumberStep
  <2>3. CASE AfterPrefix
    BY <2>3, AfterPrefixStep
  <2>4. CASE NumSeparator
    BY <2>1, <2>4, SeparatorStep
  <2>5. CASE NumDigit
    BY <2>1, <2>5, DigitStep
  <2>6. QED
    BY <1>1, <2>1, <2>2, <2>3, <2>4, <2>5 DEF Edges
<1>5. at' \in {"expsign", "expdigits", "expcheck"} => num'.f
  BY <1>1, FloatStep DEF Edges
<1>6. QED
  BY <1>2, <1>3, <1>4, <1>5 DEF Numbers, Prefixed, BaseKnown, Counted

-----------------------------------------------------------------------------
(* The tokens that are answered. *)

\* What a step knows when it answers a token.
Answering == /\ BufOK /\ BegOK /\ bad \in BOOLEAN /\ InHand /\ Beginning /\ Numbers
             /\ HeadOK' /\ NumOK' /\ bad' \in BOOLEAN /\ buf' = buf
             /\ toks \in Seq(Token) /\ AllGood

Kept == toks' \in Seq(Token) /\ AllGood'

LEMMA NothingAnswered == ASSUME Answering, UNCHANGED toks PROVE Kept
<1>1. buf' = buf /\ toks \in Seq(Token) /\ AllGood
  BY DEF Answering
<1>2. ASSUME NEW j \in 1 .. Len(toks) PROVE Good(toks[j])'
  <2>1. Good(toks[j])
    BY <1>1 DEF AllGood
  <2>2. QED
    BY <1>1, <2>1 DEF Good, IsLocation, BreaksBefore, DigitsOf
<1>3. QED
  BY <1>1, <1>2 DEF Kept, AllGood

LEMMA Answer ==
  ASSUME Answering, NEW k \in Kinds, Return(k), Good(Answered(k))
  PROVE  Kept
  BY ReturnStep DEF Answering, Kept

LEMMA AnswerPlain ==
  ASSUME Answering, NEW k \in Kinds \ {"EOL", "INVAL", "INTEGER"}, Return(k),
         k # "EOF" => buf[beg.off + 1] \notin Space,
         k \notin Broken => line' = beg.line
  PROVE  Kept
  BY PlainGood, Answer DEF Answering

\* Tokens of which the first character is in hand, or one more.
LEMMA ShortTokens ==
  ASSUME Answering, HeadOK, CharOK, Identifier \/ TwoCharEnd
  PROVE  Kept
<1>1. CASE Identifier
  <2>1. at = "dispatch" /\ c \in Alpha \cup {"_"} /\ line' = line /\ Return("ID")
    BY <1>1 DEF Identifier
  <2>2. c # End /\ c # NL /\ c \notin Space
    BY <2>1 DEF Alpha, HexLetter, End, NL, Space
  <2>3. line' = beg.line /\ buf[beg.off + 1] = c
    BY <2>1, <2>2 DEF Answering, Beginning
  <2>4. QED
    BY <2>1, <2>2, <2>3, AnswerPlain DEF Kinds
<1>2. CASE TwoCharEnd
  <2>1. at \in {"&", "|"} /\ buf[beg.off + 1] \notin Space
    BY <1>2 DEF TwoCharEnd, Answering, Beginning
  <2>2. CASE c = at
    <3>1. UNCHANGED head /\ Return(Second[at].two) /\ c # NL
      BY <1>2, <2>1, <2>2 DEF TwoCharEnd, NL
    <3>2. line' = beg.line
      BY <2>1, <3>1 DEF Answering, Beginning, head
    <3>3. Second[at].two \in {"LAND", "LOR"}
      BY <2>1 DEF Second
    <3>4. PICK k \in {"LAND", "LOR"} : Return(k)
      BY <3>1, <3>3
    <3>5. QED
      BY <2>1, <3>2, <3>4, AnswerPlain DEF Kinds
  <2>3. CASE c # at
    <3>1. Return(Second[at].one)
      BY <1>2, <2>3 DEF TwoCharEnd
    <3>2. Second[at].one \in {"AND", "BOR"}
      BY <2>1 DEF Second
    <3>3. PICK k \in {"AND", "BOR"} : Return(k)
      BY <3>1, <3>2
    <3>4. QED
      BY <2>1, <3>3, AnswerPlain DEF Kinds, Broken
  <2>4. QED
    BY <2>2, <2>3
<1>3. QED
  BY <1>1, <1>2

LEMMA LiteralTokens ==
  ASSUME Answering,
         Skipping \/ StringChar \/ StringTooLarge \/ Unterminated \/ StringEscape \/ StringNext
           \/ CharContent \/ CharEscape \/ CharNext \/ CharEnd
  PROVE  Kept
<1>1. buf[beg.off + 1] \notin Space
  BY DEF Answering, Beginning, Skipping, StringChar, StringTooLarge, Unterminated, StringEscape,
         StringNext, CharContent, CharEscape, CharNext, CharEnd, Escape
<1>2. UNCHANGED toks \/ \E k \in {"DOC", "STRING", "CHAR"} : Return(k)
  <2>1. CASE Skipping
    <3>1. skip.kind \in {"DOC", "STRING", "CHAR"}
      BY <2>1 DEF Skipping, Answering, Beginning
    <3>2. UNCHANGED toks \/ Return(skip.kind)
      BY <2>1 DEF Skipping
    <3>3. QED
      BY <3>1, <3>2
  <2>2. CASE StringChar \/ StringTooLarge \/ Unterminated \/ StringEscape \/ StringNext
    BY <2>2 DEF StringChar, StringTooLarge, Unterminated, StringEscape, StringNext, Escape
  <2>3. CASE CharContent \/ CharEscape \/ CharNext \/ CharEnd
    BY <2>3 DEF CharContent, CharEscape, CharNext, CharEnd, Escape
  <2>4. QED
    BY <2>1, <2>2, <2>3
<1>3. CASE UNCHANGED toks
  BY <1>3, NothingAnswered
<1>4. CASE \E k \in {"DOC", "STRING", "CHAR"} : Return(k)
  <2>1. PICK k \in {"DOC", "STRING", "CHAR"} : Return(k)
    BY <1>4
  <2>2. k \in Kinds \ {"EOL", "INVAL", "INTEGER"} /\ k \in Broken
    BY DEF Kinds, Broken
  <2>3. QED
    BY <1>1, <2>1, <2>2, AnswerPlain
<1>5. QED
  BY <1>2, <1>3, <1>4

\* A line break, or the blank end of the text.
LEMMA BlankTokens ==
  ASSUME Answering, HeadOK, Blank
  PROVE  Kept
<1>1. /\ at \in {"dispatch", "blank"} /\ c \in Space
      /\ \/ c = NL /\ UNCHANGED <<head, c, bad, num>> /\ Return("EOL")
         \/ UNCHANGED toks
         \/ c # NL /\ off >= Len(buf) /\ UNCHANGED <<head, c, bad, num>> /\ Return("INVAL")
  BY DEF Blank
<1>2. c # End /\ off \in 1 .. Len(buf) /\ c = buf[off] /\ Len(buf) \in Nat
  <2>1. c # End
    BY <1>1 DEF Space, NL, End
  <2>2. QED
    BY <1>1, <2>1 DEF Answering, InHand, Reading, BufOK
<1>3. IsLocation(beg.off, beg.line, beg.column) /\ beg.off \in Nat
  BY DEF Answering, BegOK
<1>4. \A k \in beg.off + 1 .. off - 1 : buf[k] = "SP"
  <2>1. CASE at = "dispatch"
    <3>1. off = beg.off + 1
      BY <1>2, <2>1 DEF Answering, Beginning
    <3>2. beg.off + 1 .. off - 1 = {}
      BY <1>2, <1>3, <3>1
    <3>3. QED
      BY <3>2
  <2>2. CASE at = "blank"
    BY <2>2 DEF Answering, Beginning
  <2>3. QED
    BY <1>1, <2>1, <2>2
<1>5. CASE c = NL /\ UNCHANGED <<head, c, bad, num>> /\ Return("EOL")
  <2>1. off' = off
    BY <1>5 DEF head
  <2>2. \A k \in beg.off + 1 .. off - 1 : buf[k] # NL
    BY <1>4 DEF NL
  <2>3. Good(Answered("EOL"))
    BY <1>2, <1>3, <1>5, <2>1, <2>2 DEF Good, Answered, Broken
  <2>4. QED
    BY <1>5, <2>3, Answer DEF Kinds
<1>6. CASE UNCHANGED toks
  BY <1>6, NothingAnswered
<1>7. CASE c # NL /\ off >= Len(buf) /\ UNCHANGED <<head, c, bad, num>> /\ Return("INVAL")
  <2>1. off' = off /\ off = Len(buf) /\ line' = beg.line
    BY <1>1, <1>2, <1>7 DEF head, Answering, Beginning
  <2>2. buf[off] = "SP"
    BY <1>1, <1>2, <1>7 DEF Space
  <2>3. \A k \in beg.off + 1 .. Len(buf) : buf[k] = "SP"
    BY <1>2, <1>3, <1>4, <2>1, <2>2
  <2>4. Good(Answered("INVAL"))
    BY <1>3, <2>1, <2>3 DEF Good, Answered
  <2>5. QED
    BY <1>7, <2>4, Answer DEF Kinds
<1>8. QED
  BY <1>1, <1>5, <1>6, <1>7

LEMMA OneCharTokens ==
  ASSUME Answering, HeadOK, OneChar
  PROVE  Kept
<1>1. /\ at = "dispatch" /\ UNCHANGED head
      /\ \/ c = End /\ Return("EOF")
         \/ c \in Operator /\ Return("OPERATOR")
         \/ c \in {".", "@"} /\ bad' = TRUE /\ Return("INVAL")
  BY DEF OneChar
<1>2. line' = line /\ (c # NL => line = beg.line)
  BY <1>1 DEF head, Answering, Beginning
<1>3. CASE c = End /\ Return("EOF")
  BY <1>2, <1>3, AnswerPlain DEF Kinds, End, NL
<1>4. CASE c \in Operator /\ Return("OPERATOR")
  <2>1. c # End /\ c # NL /\ c \notin Space
    BY <1>4 DEF Operator, End, NL, Space
  <2>2. buf[beg.off + 1] = c
    BY <1>1, <2>1 DEF Answering, Beginning
  <2>3. QED
    BY <1>2, <1>4, <2>1, <2>2, AnswerPlain DEF Kinds
<1>5. CASE c \in {".", "@"} /\ bad' = TRUE /\ Return("INVAL")
  <2>1. c # NL
    BY <1>5 DEF NL
  <2>2. Good(Answered("INVAL"))
    BY <1>2, <1>5, <2>1 DEF Good, Answered, Answering, BegOK
  <2>3. QED
    BY <1>5, <2>2, Answer DEF Kinds
<1>6. QED
  BY <1>1, <1>3, <1>4, <1>5

\* An integer that ends here keeps the digits counted so far.
LEMMA IntegerGood ==
  ASSUME Answering, HeadOK, NumOK, NumStop, ~num.f
  PROVE  Good(Answered("INTEGER"))
<1>1. /\ at = "num" /\ c \notin Digit \cup HexLetter
      /\ IF c = End THEN UNCHANGED head ELSE ungetch
      /\ num' = [num EXCEPT !.busz = IF num.busz = 0 THEN 1 ELSE num.busz]
      /\ bad' = bad
  BY DEF NumStop, NumEnd
<1>2. PICK b \in Nat : b = beg.off
  BY DEF Answering, BufOK, BegOK
<1>3. Counted(num)
  BY <1>1 DEF Answering, Numbers, Counted
<1>4. PICK e \in Nat : e = IF c = End THEN off ELSE off - 1
  <2>1. off \in Nat /\ off > b
    BY <1>2, <1>3 DEF Answering, BufOK, HeadOK, Counted
  <2>2. QED
    BY <1>2, <2>1
<1>5. /\ Len(buf) \in Nat /\ off > b
      /\ \/ c = End /\ off = Len(buf)
         \/ off \in 1 .. Len(buf) /\ c = buf[off]
  BY <1>1, <1>2, <1>3 DEF Answering, InHand, Reading, BufOK, Counted
<1>6. /\ num.base = 16 <=> HexAt(b)
      /\ num.base = 16 => off >= b + (IF c = End THEN 2 ELSE 3)
      /\ ~bad => \/ num.busz = Cardinality(Digits(b, e, num.base = 16))
                 \/ Cardinality(Digits(b, e, num.base = 16)) = 0 /\ num.busz = 1
  BY <1>2, <1>3, <1>4 DEF Counted
<1>7. \/ off' = e
      \/ c = NL /\ c = buf[off] /\ off = e + 1 /\ off' = off
  <2>1. CASE c = End
    BY <1>1, <1>4, <2>1 DEF head
  <2>2. CASE c # End
    <3>1. off' = IF off > 0 /\ buf[off] # NL THEN off - 1 ELSE off
      BY <1>1, <2>2, BackHead DEF Answering
    <3>2. QED
      BY <1>4, <1>5, <2>2, <3>1
  <2>3. QED
    BY <2>1, <2>2
<1>8. PICK hex : hex = (num.base = 16)
  OBVIOUS
<1>9. b <= e /\ off' \in Nat /\ off' <= Len(buf)
  <2>1. off' <= off /\ off <= Len(buf)
    BY <1>4, <1>5, <1>7
  <2>2. QED
    BY <1>4, <1>5, <1>7, <2>1
<1>10. Digits(b, off', hex) = Digits(b, e, hex)
  <2>1. CASE off' = e
    BY <2>1
  <2>2. CASE c = NL /\ c = buf[off] /\ off = e + 1 /\ off' = off
    <3>1. ~Counts(e + 1, b, hex)
      BY <2>2 DEF Counts, NL, Digit, HexLetter
    <3>2. QED
      BY <1>9, <2>2, <3>1, DigitsNext
  <2>3. QED
    BY <1>7, <2>1, <2>2
<1>11. (off' > b + 1 /\ buf[b + 1] = "0" /\ buf[b + 2] = "x") <=> hex = TRUE
  <2>1. num.base = 16 => off' > b + 1
    BY <1>4, <1>5, <1>6, <1>7
  <2>2. HexAt(b) <=> b + 2 <= Len(buf) /\ buf[b + 1] = "0" /\ buf[b + 2] = "x"
    BY DEF HexAt
  <2>3. off' > b + 1 => b + 2 <= Len(buf)
    BY <1>2, <1>5, <1>9
  <2>4. HexAt(b) => off' > b + 1
    BY <1>6, <2>1
  <2>5. hex = TRUE <=> HexAt(b)
    BY <1>6, <1>8
  <2>6. QED
    BY <2>2, <2>3, <2>4, <2>5
<1>12. PICK t : t = Answered("INTEGER")
  OBVIOUS
<1>13. /\ t.kind = "INTEGER" /\ t.beg = b /\ t.end = off' /\ t.bad = bad
       /\ t.line = beg.line /\ t.column = beg.column
       /\ t.busz = IF num.busz = 0 THEN 1 ELSE num.busz
  <2>1. num'.busz = IF num.busz = 0 THEN 1 ELSE num.busz
    BY <1>1 DEF NumOK
  <2>2. QED
    BY <1>1, <1>2, <1>12, <2>1 DEF Answered
<1>14. DigitsOf(t) = Digits(b, off', hex)
  <2>1. DigitsOf(t) =
          {k \in b + 1 .. off' :
             \/ buf[k] \in Digit /\ (k = b + 1 => buf[k] # "0")
             \/ /\ buf[k] \in HexLetter
                /\ off' > b + 1 /\ buf[b + 1] = "0" /\ buf[b + 2] = "x"}
    BY <1>13 DEF DigitsOf
  <2>2. \A k : Counts(k, b, hex) <=>
                 \/ buf[k] \in Digit /\ (k = b + 1 => buf[k] # "0")
                 \/ /\ buf[k] \in HexLetter
                    /\ off' > b + 1 /\ buf[b + 1] = "0" /\ buf[b + 2] = "x"
    BY <1>8, <1>11 DEF Counts
  <2>3. QED
    BY <2>1, <2>2 DEF Digits
<1>15. ~bad => LET n == Cardinality(DigitsOf(t)) IN t.busz = IF n = 0 THEN 1 ELSE n
  BY <1>6, <1>8, <1>10, <1>13, <1>14
<1>16. buf[beg.off + 1] \notin Space /\ IsLocation(beg.off, beg.line, beg.column)
  BY <1>1 DEF Answering, Beginning, BegOK
<1>17. Good(t)
  BY <1>2, <1>13, <1>15, <1>16 DEF Good, Broken
<1>18. QED
  BY <1>12, <1>17

LEMMA NumberTokens ==
  ASSUME Answering, HeadOK, NumOK, ExpCheck \/ NumStop
  PROVE  Kept
<1>1. CASE num.f
  <2>1. Return("FLOAT") /\ buf[beg.off + 1] \notin Space
    BY <1>1 DEF ExpCheck, NumStop, KindOf, Answering, Beginning
  <2>2. QED
    BY <2>1, AnswerPlain DEF Kinds, Broken
<1>2. CASE ~num.f
  <2>1. NumStop /\ Return("INTEGER")
    BY <1>2 DEF ExpCheck, NumStop, KindOf, Answering, Numbers
  <2>2. QED
    BY <1>2, <2>1, IntegerGood, Answer DEF Kinds
<1>3. QED
  BY <1>1, <1>2

LEMMA TokStep ==
  ASSUME Answering, HeadOK, CharOK, NumOK, Lex
  PROVE  Kept
<1>1. CASE \/ Start \/ BlankEnd \/ TwoChar \/ Doc \/ String \/ Char
           \/ Number \/ Prefix \/ AfterPrefix \/ NumSeparator \/ NumDigit
           \/ NumExponent \/ ExpSign \/ ExpDigit \/ ExpBack \/ Overrun
  <2>1. UNCHANGED toks
    BY <1>1
       DEF Start, BlankEnd, TwoChar, Doc, String, Char, Number, Prefix, AfterPrefix,
           NumSeparator, NumDigit, NumExponent, ExpSign, ExpDigit, ExpBack, Overrun
  <2>2. QED
    BY <2>1, NothingAnswered
<1>2. QED
  BY <1>1, ShortTokens, LiteralTokens, BlankTokens, OneCharTokens, NumberTokens DEF Lex

-----------------------------------------------------------------------------
(* The line breaks. *)

\* Behind a line break the line is a later one.
LEMMA LaterLine ==
  ASSUME NEW a \in Nat, NEW b \in Nat, NEW l, NEW m, NEW col, NEW d,
         IsLocation(a, l, col), IsLocation(b, m, d),
         NEW k \in a + 1 .. b, buf[k] = NL
  PROVE  m # l
<1>1. /\ BreaksBefore(a) \subseteq 1 .. a /\ IsFiniteSet(BreaksBefore(a))
      /\ Cardinality(BreaksBefore(a)) \in Nat
      /\ IsFiniteSet(BreaksBefore(b)) /\ Cardinality(BreaksBefore(b)) \in Nat
  BY Breaks
<1>2. k \notin BreaksBefore(a)
  BY <1>1
<1>3. BreaksBefore(a) \cup {k} \subseteq BreaksBefore(b)
  BY DEF BreaksBefore
<1>4. Cardinality(BreaksBefore(a) \cup {k}) = Cardinality(BreaksBefore(a)) + 1
  BY <1>1, <1>2, FS_AddElement
<1>5. Cardinality(BreaksBefore(a) \cup {k}) <= Cardinality(BreaksBefore(b))
  BY <1>1, <1>3, FS_Subset
<1>6. l = 1 + Cardinality(BreaksBefore(a)) /\ m = 1 + Cardinality(BreaksBefore(b))
  BY DEF IsLocation
<1>7. QED
  BY <1>1, <1>4, <1>5, <1>6

Between == {"start", "finished"}

\* A step begins a token, goes back to begin one, answers one, or reads on.
Turns == \/ Start
         \/ BlankEnd
         \/ \E k : Return(k) /\ at \notin Between /\ beg' = beg
         \/ UNCHANGED <<beg, toks>> /\ at \notin Between /\ at' \notin Between

LEMMA Turned == ASSUME Lex PROVE Turns
<1> USE DEF Turns, Between
<1>1. CASE Start \/ BlankEnd
  BY <1>1
<1>2. CASE Blank \/ Identifier \/ OneChar
  BY <1>2 DEF Blank, Identifier, OneChar
<1>3. CASE TwoChar \/ TwoCharEnd
  BY <1>3 DEF TwoChar, TwoCharEnd
<1>4. CASE Skipping \/ Doc \/ String \/ StringChar
  BY <1>4 DEF Skipping, Doc, String, StringChar, ReadUntil
<1>5. CASE StringTooLarge \/ Unterminated \/ StringEscape \/ StringNext
  BY <1>5 DEF StringTooLarge, Unterminated, StringEscape, StringNext, Escape, ReadUntil
<1>6. CASE Char \/ CharContent \/ CharEscape \/ CharNext \/ CharEnd
  BY <1>6 DEF Char, CharContent, CharEscape, CharNext, CharEnd, Escape, ReadUntil
<1>7. CASE Number \/ Prefix \/ AfterPrefix \/ NumSeparator \/ NumDigit
  BY <1>7 DEF Number, Prefix, AfterPrefix, NumSeparator, NumDigit
<1>8. CASE NumExponent \/ ExpSign \/ ExpDigit \/ ExpBack \/ ExpCheck \/ NumStop \/ Overrun
  BY <1>8 DEF NumExponent, ExpSign, ExpDigit, ExpBack, ExpCheck, NumStop, Overrun, Stores
<1>9. QED
  BY <1>1, <1>2, <1>3, <1>4, <1>5, <1>6, <1>7, <1>8 DEF Lex

\* The token that is answered takes the line breaks it goes over.
LEMMA AnswerTakes ==
  ASSUME BufOK, BegOK, HeadOK', buf' = buf, beg' = beg, toks \in Seq(Token), AllGood',
         Gaps, at \notin Between, NEW k, Return(k)
  PROVE  Gaps'
<1>1. PICK t : t = Answered(k)
  OBVIOUS
<1>2. toks' = Append(toks, t) /\ at' \in Between
  BY <1>1, ReturnAt DEF Return, Answered, Between
<1>3. /\ Len(toks) \in Nat /\ Len(toks') = Len(toks) + 1 /\ toks'[Len(toks) + 1] = t
      /\ \A j \in 1 .. Len(toks) : toks'[j] = toks[j]
  BY <1>2
<1>4. t.kind = k /\ t.beg = beg.off /\ t.end = off' /\ t.newline = (line' # beg.line)
  BY <1>1 DEF Answered
<1>5. beg.off \in Nat /\ off' \in Nat
  BY DEF BufOK, BegOK, HeadOK
<1>6. t.newline => t.kind \in Broken
  <2>1. Good(toks[Len(toks)])'
    BY <1>3 DEF AllGood
  <2>2. QED
    BY <1>3, <2>1 DEF Good
<1>7. ASSUME NEW b \in BreaksBefore(off)' PROVE Taken(b)'
  <2>1. b \in 1 .. off' /\ buf[b] = NL
    BY <1>7 DEF BreaksBefore
  <2>2. CASE b <= beg.off
    <3>1. b \in BreaksBefore(beg.off)
      BY <1>5, <2>1, <2>2 DEF BreaksBefore
    <3>2. Taken(b)
      BY <3>1 DEF Gaps, Between
    <3>3. PICK j \in 1 .. Len(toks) :
            b \in toks[j].beg + 1 .. toks[j].end /\ toks[j].kind \in Broken
      BY <3>2 DEF Taken
    <3>4. j \in 1 .. Len(toks') /\ toks'[j] = toks[j]
      BY <1>3
    <3>5. QED
      BY <3>3, <3>4 DEF Taken
  <2>3. CASE ~(b <= beg.off)
    <3>1. b \in beg.off + 1 .. off'
      BY <1>5, <2>1, <2>3
    <3>2. IsLocation(beg.off, beg.line, beg.column) /\ IsLocation(off', line', column')
      BY DEF BegOK, HeadOK, IsLocation, BreaksBefore
    <3>3. line' # beg.line
      BY <1>5, <2>1, <3>1, <3>2, LaterLine
    <3>4. t.kind \in Broken
      BY <1>4, <1>6, <3>3
    <3>5. Len(toks) + 1 \in 1 .. Len(toks')
      BY <1>3
    <3>6. QED
      BY <1>3, <1>4, <3>1, <3>4, <3>5 DEF Taken
  <2>4. QED
    BY <2>2, <2>3
<1>8. QED
  BY <1>2, <1>7 DEF Gaps, Between

LEMMA GapsStep ==
  ASSUME BufOK, HeadOK, BegOK, InHand, Beginning, HeadOK', buf' = buf,
         toks \in Seq(Token), AllGood', Gaps, Lex
  PROVE  Gaps'
<1>1. CASE Start
  <2>1. at = "start" /\ at' = "dispatch" /\ beg'.off = off /\ toks' = toks
    BY <1>1 DEF Start
  <2>2. QED
    BY <2>1 DEF Gaps, Taken, BreaksBefore
<1>2. CASE BlankEnd
  <2>1. at = "blank" /\ at' = "start" /\ c \notin Space /\ ungetch /\ UNCHANGED <<beg, toks>>
    BY <1>2 DEF BlankEnd
  <2>2. /\ c # End /\ beg.off < off /\ \A k \in beg.off + 1 .. off - 1 : buf[k] = "SP"
    BY <2>1 DEF Beginning
  <2>3. off \in 1 .. Len(buf) /\ c = buf[off] /\ Len(buf) \in Nat /\ beg.off \in Nat
    BY <2>1, <2>2 DEF InHand, Reading, BufOK, BegOK
  <2>4. off' = off - 1
    BY <2>1, <2>3, BackHead DEF Space
  <2>5. ASSUME NEW k \in BreaksBefore(off)' PROVE k \in BreaksBefore(beg.off)
    <3>1. k \in 1 .. off - 1 /\ buf[k] = NL
      BY <2>4 DEF BreaksBefore
    <3>2. buf[k] # "SP"
      BY <3>1 DEF NL
    <3>3. k <= beg.off
      BY <2>2, <2>3, <3>1, <3>2
    <3>4. QED
      BY <2>3, <3>1, <3>3 DEF BreaksBefore
  <2>6. \A k \in BreaksBefore(beg.off) : Taken(k)
    BY <2>1 DEF Gaps
  <2>7. \A k : Taken(k)' <=> Taken(k)
    BY <2>1 DEF Taken
  <2>8. QED
    BY <2>1, <2>5, <2>6, <2>7 DEF Gaps
<1>3. CASE \E k : Return(k) /\ at \notin Between /\ beg' = beg
  BY <1>3, AnswerTakes
<1>4. CASE UNCHANGED <<beg, toks>> /\ at \notin Between /\ at' \notin Between
  BY <1>4 DEF Gaps, Taken, BreaksBefore, Between
<1>5. QED
  BY <1>1, <1>2, <1>3, <1>4, Turned DEF Turns

-----------------------------------------------------------------------------
(* The invariant. *)

LEMMA InitInv == ASSUME Init PROVE IInv
<1>1. buf \in Seq(AllChars) /\ StrMax \in Nat /\ 0 \in 0 .. NumMax
  BY LexAssumption DEF Init
<1>2. Len(buf) \in Nat
  BY <1>1
<1>3. IsLocation(0, 1, 1)
  <2>1. 1 .. 0 = {} /\ BreaksBefore(0) = {}
    BY DEF BreaksBefore
  <2>2. Cardinality(BreaksBefore(0)) = 0
    BY <2>1, FS_EmptySet
  <2>3. QED
    BY <2>1, <2>2 DEF IsLocation
<1>4. TypeOK
  <2>1. off \in 0 .. Len(buf) /\ 0 \in 0 .. Len(buf) /\ len \in 0 .. StrMax
    BY <1>1, <1>2 DEF Init
  <2>2. num \in [base : {2, 8, 10, 16}, f : BOOLEAN, issep : BOOLEAN, busz : 0 .. NumMax]
    BY <1>1 DEF Init, NoNum
  <2>3. beg \in [off : 0 .. Len(buf), line : Nat \ {0}, column : Nat \ {0}]
    BY <2>1 DEF Init
  <2>4. skip \in [upto : {End, BS, SQ}, kind : Kinds]
    BY DEF Init, Kinds
  <2>5. /\ line \in Nat \ {0} /\ column \in Nat \ {0} /\ c \in AllChars \cup {End}
        /\ bad \in BOOLEAN /\ at = "start"
    <3>1. line = 1 /\ column = 1
      BY DEF Init
    <3>2. line \in Nat \ {0} /\ column \in Nat \ {0}
      BY <3>1
    <3>3. c \in AllChars \cup {End} /\ bad \in BOOLEAN /\ at = "start"
      BY DEF Init
    <3>4. QED
      BY <3>2, <3>3
  <2>6. toks = <<>>
    BY DEF Init
  <2>7. QED
    BY <1>1, <2>1, <2>2, <2>3, <2>4, <2>5, <2>6 DEF TypeOK
<1>5. Places
  BY <1>3 DEF Init, Places
<1>6. InHand /\ Beginning /\ Numbers /\ AllGood
  BY DEF Init, InHand, Reading, Beginning, Numbers, AllGood
<1>8. Gaps
  <2>1. 1 .. 0 = {} /\ off = 0 /\ at = "start"
    BY DEF Init
  <2>2. BreaksBefore(off) = {}
    BY <2>1 DEF BreaksBefore
  <2>3. QED
    BY <2>1, <2>2 DEF Gaps
<1>7. QED
  BY <1>4, <1>5, <1>6, <1>8 DEF IInv

LEMMA NextInv == ASSUME IInv, [Next]_vars PROVE IInv'
<1>1. /\ BufOK /\ HeadOK /\ CharOK /\ BegOK /\ NumOK /\ SkipOK
      /\ at \in Places_ /\ bad \in BOOLEAN /\ len \in 0 .. StrMax /\ toks \in Seq(Token)
      /\ InHand /\ Beginning /\ Numbers /\ AllGood /\ Gaps
  BY Parts DEF IInv
<1>2. CASE Next
  <2>1. Lex
    BY <1>2 DEF Next
  <2>2. BufOK' /\ HeadOK' /\ CharOK' /\ BegOK' /\ InHand' /\ buf' = buf
    BY <1>1, <2>1, HeadStep, Moves
  <2>3. NumOK' /\ at' \in Places_ /\ bad' \in BOOLEAN
    BY <1>1, <2>1, NumStep, AtStep, BadStep
  <2>4. len' \in 0 .. StrMax
    BY <1>1, <2>1, LenStep DEF Beginning
  <2>5. SkipOK'
    BY <1>1, <2>1, SkipStep DEF Beginning, Literal
  <2>6. Beginning' /\ Numbers'
    BY <1>1, <2>1, BeginStep, NumbersStep
  <2>7. toks' \in Seq(Token) /\ AllGood'
    BY <1>1, <2>1, <2>2, <2>3, TokStep DEF Answering, Kept
  <2>8. TypeOK'
    BY <2>2, <2>3, <2>4, <2>5, <2>7
       DEF TypeOK, BufOK, HeadOK, CharOK, BegOK, NumOK, SkipOK, Places_, Token
  <2>9. Places'
    BY <2>2 DEF Places, HeadOK, BegOK
  <2>11. Gaps'
    BY <1>1, <2>1, <2>2, <2>7, GapsStep
  <2>10. QED
    BY <2>2, <2>6, <2>7, <2>8, <2>9, <2>11 DEF IInv
<1>3. CASE UNCHANGED vars
  <2>1. UNCHANGED <<buf, off, line, column, at, c, beg, bad, num, len, skip, toks>>
    BY <1>3 DEF vars, head
  <2>2. TypeOK' /\ InHand' /\ Places'
    BY <2>1 DEF IInv, TypeOK, InHand, Places, IsLocation, BreaksBefore
  <2>3. Beginning'
    BY <2>1 DEF IInv, Beginning
  <2>4. Numbers'
    BY <2>1 DEF IInv, Numbers, Digits, Counts, HexAt
  <2>5. AllGood'
    <3>1. ASSUME NEW j \in 1 .. Len(toks) PROVE Good(toks[j])'
      <4>1. Good(toks[j])
        BY DEF IInv, AllGood
      <4>2. QED
        BY <2>1, <4>1 DEF Good, IsLocation, BreaksBefore, DigitsOf
    <3>2. QED
      BY <2>1, <3>1 DEF AllGood
  <2>7. Gaps'
    BY <2>1 DEF IInv, Gaps, Taken, BreaksBefore
  <2>6. QED
    BY <2>2, <2>3, <2>4, <2>5, <2>7 DEF IInv
<1>4. QED
  BY <1>2, <1>3

\* Every step of mlexer_lex and its helpers keeps the inductive invariant, from
\* the first character of the text on, until a number would overrun the buffer
\* of getnum: there the run of the model ends.
THEOREM Invariance == Spec => []IInv
<1>1. Init => IInv
  BY InitInv
<1>2. IInv /\ [Next]_vars => IInv'
  BY NextInv
<1>3. QED
  BY <1>1, <1>2, PTL DEF Spec

\* The lexer stays within its text and within str: the head never passes the
\* end of the source, and getstr never writes past the end of its buffer.
\* getnum has no such check: its count is within buf as long as the run has not
\* come to "overrun".
THEOREM TypeCorrect == Spec => []TypeOK
<1>1. IInv => TypeOK
  BY DEF IInv
<1>2. QED
  BY <1>1, Invariance, PTL

\* However getch and ungetch move the head, its line and column are those of
\* its offset, and every token says where its first character stands.
THEOREM TokensLocated == Spec => []Located
<1>1. IInv => Located
  BY DEF IInv, Places, AllGood, Good, Located
<1>2. QED
  BY <1>1, Invariance, PTL

\* Every line break behind the head is the end of an EOL or lies in one of the
\* tokens that may take it in: a literal, a comment, and the numbers and
\* operators ungetch cannot separate from the line break that ends them. The
\* blanks mlexer_lex skips between two tokens hold none.
THEOREM BreaksAccounted == Spec => []LineBreaksAccounted
<1>1. ASSUME IInv PROVE LineBreaksAccounted
  <2>1. ASSUME NEW k \in BreaksBefore(off), ~(at \notin {"start", "finished"} /\ k > beg.off)
        PROVE  Taken(k)
    <3>1. beg.off \in Nat /\ k \in 1 .. off /\ buf[k] = NL /\ off \in Nat
      BY <1>1 DEF IInv, TypeOK, BreaksBefore
    <3>2. k \in BreaksBefore(IF at \in {"start", "finished"} THEN off ELSE beg.off)
      BY <2>1, <3>1 DEF BreaksBefore
    <3>3. QED
      BY <1>1, <3>2 DEF IInv, Gaps
  <2>2. \A j \in 1 .. Len(toks) : Good(toks[j])
    BY <1>1 DEF IInv, AllGood
  <2>3. QED
    BY <2>1, <2>2 DEF Taken, Good, LineBreaksAccounted
<1>2. QED
  BY <1>1, Invariance, PTL

\* mlexer_lex answers INVAL only after a diagnostic, or for the blanks that end
\* a text without a line break.
THEOREM InvalidReported == Spec => []InvalReported
<1>1. IInv => InvalReported
  BY DEF IInv, AllGood, Good, InvalReported
<1>2. QED
  BY <1>1, Invariance, PTL

\* getnum keeps every digit of an integer it answers without a diagnostic,
\* whatever its base and its separators, and nothing else. The digits of such
\* an integer fit in buf: one with more of them overruns it, is never answered
\* here, and nothing is said of it.
THEOREM NumbersKeepDigits == Spec => []DigitsKept
<1>1. IInv => DigitsKept
  BY DEF IInv, AllGood, Good, DigitsKept
<1>2. QED
  BY <1>1, Invariance, PTL
=============================================================================
