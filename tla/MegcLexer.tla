----------------------------- MODULE MegcLexer -----------------------------
(***************************************************************************)
(* The lexer of megc (megc/src/lexer.c): mlexer_lex called again and again *)
(* until it answers EOF.                                                   *)
(*                                                                         *)
(* A step is one read (getch) or one step back (ungetch) of the head with  *)
(* the decision the code takes on the character read. A character stands   *)
(* for every character the code treats alike. Text that ends in the string *)
(* pool is kept as its length: the properties are about which characters   *)
(* of the source each token takes and where it says it is.                 *)
(***************************************************************************)
EXTENDS Naturals, Sequences, FiniteSets

CONSTANTS Texts,    \* the source texts to read
          StrMax,   \* sizeof str in getstr, 16 KiB in the code
          NumMax    \* sizeof buf in getnum, 1024 in the code

NL  == "NL"         \* '\n'
End == "END"        \* the '\0' getch answers at the end of the buffer
DQ  == "DQ"         \* '"'
SQ  == "SQ"         \* '\''
BS  == "BS"         \* '\\'

Space     == {"SP", NL}
Digit     == {"0", "1", "9"}
HexLetter == {"b", "e"}                            \* of 'a' .. 'f'
Alpha     == HexLetter \cup {"E", "o", "x", "z"}   \* "z": any other letter
Single    == {"+", "-", ".", ";", "("}             \* of the one-character operators
Operator  == {"+", "-", ";", "("}
Escapes   == {"0", BS, DQ, SQ, "b"}                \* of the known escapes
AllChars  == Space \cup Digit \cup Alpha \cup Single \cup {"_", DQ, SQ, BS, "&", "|", "@"}

DigitValue == [d \in Digit \cup HexLetter |->
                 CASE d = "0" -> 0 [] d = "1" -> 1 [] d = "9" -> 9
                   [] d = "b" -> 11 [] d = "e" -> 14]

ASSUME LexAssumption == Texts \subseteq Seq(AllChars) /\ StrMax \in Nat /\ NumMax \in Nat \ {0}

VARIABLES buf,       \* the text
          off, line, column,
          at,        \* where in mlexer_lex the code is
          c,         \* the character in hand
          beg,       \* [off, line, column] of the token being read
          bad,       \* a diagnostic was reported for it
          num,       \* locals of getnum: [base, f, issep, busz]
          len,       \* length of the string literal so far
          skip,      \* [upto, kind]: argument of readuntil, token returned after it
          toks       \* the tokens answered so far

head == <<off, line, column>>
vars == <<buf, head, at, c, beg, bad, num, len, skip, toks>>

NoNum == [base |-> 10, f |-> FALSE, issep |-> FALSE, busz |-> 0]

Kinds == {"INVAL", "EOF", "EOL", "DOC", "ID", "INTEGER", "FLOAT", "STRING", "CHAR",
          "OPERATOR", "AND", "LAND", "BOR", "LOR"}

-----------------------------------------------------------------------------
(* The head. *)

getch ==
  IF off < Len(buf)
  THEN /\ c' = buf[off + 1]
       /\ off' = off + 1
       /\ IF buf[off + 1] = NL THEN line' = line + 1 /\ column' = 1
                               ELSE line' = line /\ column' = column + 1
  ELSE c' = End /\ UNCHANGED head

\* mutant: the step back forgets the column
ungetchKeepColumn == /\ off' = IF column > 1 THEN off - 1 ELSE off
                     /\ UNCHANGED <<line, column>>

\* There is no way back over a line break.
ungetch == /\ IF column > 1 THEN column' = column - 1 /\ off' = off - 1
                            ELSE UNCHANGED <<column, off>>
           /\ line' = line

\* mlexer_lex returns: the token reaches from beg to the head.
Return(kind) ==
  /\ toks' = Append(toks, [kind |-> kind, beg |-> beg.off, end |-> off', bad |-> bad',
                           line |-> beg.line, column |-> beg.column,
                           newline |-> line' # beg.line, busz |-> num'.busz])
  /\ at' = IF kind = "EOF" THEN "finished" ELSE "start"

Rest == <<num, len, skip>>

-----------------------------------------------------------------------------
(* mlexer_new *)
Init ==
  /\ buf \in Texts
  /\ off = 0 /\ line = 1 /\ column = 1
  /\ at = "start" /\ c = End
  /\ beg = [off |-> 0, line |-> 1, column |-> 1]
  /\ bad = FALSE /\ num = NoNum /\ len = 0
  /\ skip = [upto |-> End, kind |-> "INVAL"]
  /\ toks = <<>>

(* mlexer_lex *)
Start ==
  /\ at = "start"
  /\ beg' = [off |-> off, line |-> line, column |-> column]
  /\ bad' = FALSE /\ num' = NoNum /\ len' = 0
  /\ getch
  /\ at' = "dispatch"
  /\ UNCHANGED <<buf, skip, toks>>

\* mutant: a line break inside a run of blanks is a blank like another
BlankJoinsLines ==
  /\ at \in {"dispatch", "blank"} /\ c \in Space
  /\ \/ c = NL /\ at = "dispatch" /\ UNCHANGED <<head, c, bad, num>> /\ Return("EOL")
     \/ (c # NL \/ at = "blank") /\ off < Len(buf)
          /\ getch /\ at' = "blank" /\ UNCHANGED <<bad, num, toks>>
     \/ (c # NL \/ at = "blank") /\ off >= Len(buf)
          /\ UNCHANGED <<head, c, bad, num>> /\ Return("INVAL")
  /\ UNCHANGED <<buf, beg, len, skip>>

\* A blank: a line break answers EOL, the last blank of the text INVAL.
Blank ==
  /\ at \in {"dispatch", "blank"} /\ c \in Space
  /\ \/ c = NL /\ UNCHANGED <<head, c, bad, num>> /\ Return("EOL")
     \/ c # NL /\ off < Len(buf) /\ getch /\ at' = "blank" /\ UNCHANGED <<bad, num, toks>>
     \/ c # NL /\ off >= Len(buf) /\ UNCHANGED <<head, c, bad, num>> /\ Return("INVAL")
  /\ UNCHANGED <<buf, beg, len, skip>>

\* The first character after blanks is given back, and the token starts there.
BlankEnd ==
  /\ at = "blank" /\ c \notin Space
  /\ ungetch
  /\ at' = "start"
  /\ UNCHANGED <<buf, c, beg, bad, Rest, toks>>

\* getid, after the ungetch of its first letter.
IdRun(from) == {k \in 0 .. Len(buf) - from :
                  \A j \in 1 .. k : buf[from + j] \in Alpha \cup Digit \cup {"_"}}
Identifier ==
  /\ at = "dispatch" /\ c \in Alpha \cup {"_"}
  /\ LET n == CHOOSE k \in IdRun(off - 1) : \A j \in IdRun(off - 1) : j <= k
     IN  off' = off - 1 + n /\ column' = column - 1 + n
  /\ UNCHANGED <<buf, line, c, beg, bad, Rest>>
  /\ Return("ID")

\* mutant: an unknown character is answered without a diagnostic
OneCharSilent ==
  /\ at = "dispatch"
  /\ UNCHANGED <<buf, head, c, beg, bad, Rest>>
  /\ \/ c = End /\ Return("EOF")
     \/ c \in Operator /\ Return("OPERATOR")
     \/ c \in {".", "@"} /\ Return("INVAL")

\* The end of the text, the one-character operators, and unknown characters.
OneChar ==
  /\ at = "dispatch"
  /\ UNCHANGED <<buf, head, c, beg, Rest>>
  /\ \/ c = End /\ UNCHANGED bad /\ Return("EOF")
     \/ c \in Operator /\ UNCHANGED bad /\ Return("OPERATOR")
     \/ c \in {".", "@"} /\ bad' = TRUE /\ Return("INVAL")

Second == [op \in {"&", "|"} |-> IF op = "&" THEN [one |-> "AND", two |-> "LAND"]
                                             ELSE [one |-> "BOR", two |-> "LOR"]]
TwoChar ==
  /\ at = "dispatch" /\ c \in {"&", "|"}
  /\ getch
  /\ at' = c
  /\ UNCHANGED <<buf, beg, bad, Rest, toks>>

TwoCharEnd ==
  /\ at \in {"&", "|"}
  /\ UNCHANGED <<buf, c, beg, bad, Rest>>
  /\ IF c = at THEN UNCHANGED head /\ Return(Second[at].two)
     ELSE (IF c # End THEN ungetch ELSE UNCHANGED head) /\ Return(Second[at].one)

-----------------------------------------------------------------------------
(* readuntil: the first character read is not tested for the end. *)

ReadUntil(upto, kind) == /\ getch
                         /\ skip' = [upto |-> upto, kind |-> kind]
                         /\ at' = "readuntil"

\* mutant: the end of the text is not looked for
SkippingForever ==
  /\ at = "readuntil"
  /\ UNCHANGED <<buf, beg, bad, Rest>>
  /\ \/ c # skip.upto /\ getch /\ at' = at /\ UNCHANGED toks
     \/ c = skip.upto /\ UNCHANGED <<head, c>> /\ Return(skip.kind)

Skipping ==
  /\ at = "readuntil"
  /\ UNCHANGED <<buf, beg, bad, Rest>>
  /\ \/ /\ c # skip.upto /\ getch
        /\ IF c' = End THEN Return(skip.kind) ELSE at' = at /\ UNCHANGED toks
     \/ c = skip.upto /\ UNCHANGED <<head, c>> /\ Return(skip.kind)

Doc ==
  /\ at = "dispatch" /\ c = BS
  /\ ReadUntil(BS, "DOC")
  /\ UNCHANGED <<buf, beg, bad, num, len, toks>>

-----------------------------------------------------------------------------
(* getstr and the character literals. *)

String ==
  /\ at = "dispatch" /\ c = DQ
  /\ getch
  /\ at' = "string"
  /\ UNCHANGED <<buf, beg, bad, Rest, toks>>

\* mutant: the buffer is checked after the character was stored
StringFull == len > StrMax
StringIsFull == len >= StrMax

StringChar ==
  /\ at = "string"
  /\ UNCHANGED <<buf, beg, num>>
  /\ \/ /\ c = DQ
        /\ UNCHANGED <<head, c, bad, len, skip>> /\ Return("STRING")
     \/ /\ c # DQ /\ StringIsFull
        /\ bad' = TRUE /\ at' = "toolarge"
        /\ UNCHANGED <<head, c, len, skip, toks>>
     \/ /\ c \in {NL, End} /\ ~StringIsFull
        /\ bad' = TRUE
        /\ ReadUntil(SQ, "STRING") /\ UNCHANGED <<len, toks>>
     \/ /\ c = BS /\ ~StringIsFull
        /\ getch /\ at' = "stringescape" /\ UNCHANGED <<bad, len, skip, toks>>
     \/ /\ c \notin {DQ, NL, End, BS} /\ ~StringIsFull
        /\ len' = len + 1
        /\ getch /\ at' = at /\ UNCHANGED <<bad, skip, toks>>

\* The rest of a string that is too long is read and dropped.
StringTooLarge ==
  /\ at = "toolarge"
  /\ UNCHANGED <<buf, beg, num, len>>
  /\ \/ /\ c = DQ
        /\ UNCHANGED <<head, c, bad, skip>> /\ Return("STRING")
     \/ /\ c # DQ /\ getch /\ c' \notin {End, NL}
        /\ at' = at /\ UNCHANGED <<bad, skip, toks>>
     \/ /\ c # DQ /\ getch /\ c' \in {End, NL}
        /\ bad' = TRUE /\ at' = "unterminated" /\ UNCHANGED <<skip, toks>>

Unterminated ==
  /\ at = "unterminated"
  /\ ReadUntil(SQ, "STRING")
  /\ UNCHANGED <<buf, beg, bad, num, len, toks>>

\* getscape has read the character after the backslash; an unknown one is
\* reported and given back.
Escape(from, to) ==
  /\ at = from
  /\ bad' = (bad \/ c \notin Escapes)
  /\ IF c \in Escapes \cup {End} THEN UNCHANGED head ELSE ungetch
  /\ at' = to
  /\ UNCHANGED <<buf, c, beg, num, skip, toks>>

StringEscape == Escape("stringescape", "stringnext") /\ len' = len + 1
StringNext   == /\ at = "stringnext" /\ getch /\ at' = "string"
                /\ UNCHANGED <<buf, beg, bad, Rest, toks>>

Char ==
  /\ at = "dispatch" /\ c = SQ
  /\ getch
  /\ at' = "char"
  /\ UNCHANGED <<buf, beg, bad, Rest, toks>>

CharContent ==
  /\ at = "char"
  /\ UNCHANGED <<buf, beg, num, len>>
  /\ \/ /\ c = BS /\ getch
        /\ at' = "charescape" /\ UNCHANGED <<bad, skip, toks>>
     \/ /\ c = SQ /\ UNCHANGED <<head, c, skip>>
        /\ bad' = TRUE /\ Return("CHAR")
     \/ /\ c \in {NL, End} /\ bad' = TRUE
        /\ ReadUntil(SQ, "CHAR") /\ UNCHANGED toks
     \/ /\ c \notin {BS, SQ, NL, End} /\ getch
        /\ at' = "charend" /\ UNCHANGED <<bad, skip, toks>>

CharEscape == Escape("charescape", "charnext") /\ UNCHANGED len
CharNext   == /\ at = "charnext" /\ getch /\ at' = "charend"
              /\ UNCHANGED <<buf, beg, bad, Rest, toks>>

CharEnd ==
  /\ at = "charend"
  /\ UNCHANGED <<buf, beg, num, len>>
  /\ \/ c = SQ /\ UNCHANGED <<head, c, bad, skip>> /\ Return("CHAR")
     \/ c # SQ /\ bad' = TRUE /\ ReadUntil(SQ, "CHAR") /\ UNCHANGED toks

-----------------------------------------------------------------------------
(* getnum *)

Number ==
  /\ at = "dispatch" /\ c \in Digit
  /\ num' = NoNum
  /\ IF c = "0" THEN getch /\ at' = "prefix" ELSE UNCHANGED <<head, c>> /\ at' = "num"
  /\ UNCHANGED <<buf, beg, bad, len, skip, toks>>

BaseOf == [p \in {"o", "b", "x"} |-> CASE p = "o" -> 8 [] p = "b" -> 2 [] p = "x" -> 16]

\* The character after a leading 0: the letter of a base, or given back.
Prefix ==
  /\ at = "prefix"
  /\ IF c \in {"o", "b", "x"} THEN num' = [num EXCEPT !.base = BaseOf[c]] /\ UNCHANGED head
                              ELSE ungetch /\ UNCHANGED num
  /\ at' = "afterprefix"
  /\ UNCHANGED <<buf, c, beg, bad, len, skip, toks>>

AfterPrefix ==
  /\ at = "afterprefix" /\ getch /\ at' = "num"
  /\ UNCHANGED <<buf, beg, bad, Rest, toks>>

\* A digit of another base is reported and left out.
ValidDigit(d) == /\ d \in HexLetter => num.base = 16
                 /\ DigitValue[d] < num.base

\* The character in hand goes into buf. No write of getnum looks at the size of
\* buf: the one after the last place is undefined behaviour, and a run ends
\* there, at "overrun", where nothing is known of the lexer any more.
Stores == \/ at = "num" /\ c \in Digit \cup HexLetter /\ ValidDigit(c)
          \/ at = "num" /\ c = "." /\ ~num.f
          \/ at = "num" /\ c = "E"
          \/ at = "expsign" /\ c \in {"+", "-"}
          \/ at = "expdigits" /\ c \in Digit
HasRoom == Stores => num.busz < NumMax

Overrun ==
  /\ Stores /\ ~HasRoom
  /\ at' = "overrun"
  /\ UNCHANGED <<buf, head, c, beg, bad, Rest, toks>>

NumSeparator ==
  /\ at = "num" /\ c \in {".", ";"} /\ HasRoom
  /\ bad' = (bad \/ num.issep \/ (c = "." /\ num.f))
  /\ num' = [num EXCEPT !.f = @ \/ c = ".", !.issep = TRUE,
                        !.busz = IF c = "." /\ ~num.f THEN @ + 1 ELSE @]
  /\ getch
  /\ UNCHANGED <<buf, at, beg, len, skip, toks>>

\* mutant: zeros are left out wherever they stand
NumDigitStoresAll ==
  /\ at = "num" /\ c \in Digit \cup HexLetter /\ HasRoom
  /\ num' = [num EXCEPT !.issep = FALSE, !.busz = IF c = "0" THEN @ ELSE @ + 1]
  /\ getch
  /\ UNCHANGED <<buf, at, beg, bad, len, skip, toks>>

NumDigit ==
  /\ at = "num" /\ c \in Digit \cup HexLetter /\ HasRoom
  /\ bad' = (bad \/ ~ValidDigit(c))
  /\ num' = [num EXCEPT !.issep = FALSE, !.busz = IF ValidDigit(c) THEN @ + 1 ELSE @]
  /\ getch
  /\ UNCHANGED <<buf, at, beg, len, skip, toks>>

NumExponent ==
  /\ at = "num" /\ c = "E" /\ HasRoom
  /\ num' = [num EXCEPT !.f = TRUE, !.busz = @ + 1]
  /\ getch
  /\ at' = "expsign"
  /\ UNCHANGED <<buf, beg, bad, len, skip, toks>>

ExpSign ==
  /\ at = "expsign" /\ HasRoom
  /\ IF c \in {"+", "-"} THEN num' = [num EXCEPT !.busz = @ + 1] /\ getch
                         ELSE UNCHANGED <<num, head, c>>
  /\ at' = "expdigits"
  /\ UNCHANGED <<buf, beg, bad, len, skip, toks>>

ExpDigit ==
  /\ at = "expdigits" /\ c \in Digit /\ HasRoom
  /\ num' = [num EXCEPT !.busz = @ + 1]
  /\ getch
  /\ UNCHANGED <<buf, at, beg, bad, len, skip, toks>>

\* "Goes one char back."
ExpBack ==
  /\ at = "expdigits" /\ c \notin Digit
  /\ ungetch
  /\ at' = "expcheck"
  /\ UNCHANGED <<buf, c, beg, bad, Rest, toks>>

\* What precedes the head tells whether the exponent has digits.
NumEnd(n) == num' = [n EXCEPT !.busz = IF @ = 0 THEN 1 ELSE @]
KindOf(n) == IF n.f THEN "FLOAT" ELSE "INTEGER"
ExpCheck ==
  /\ at = "expcheck"
  /\ bad' = (bad \/ buf[off] \in {"E", "+", "-"})
  /\ NumEnd(num)
  /\ UNCHANGED <<buf, head, c, beg, len, skip>>
  /\ Return(KindOf(num))

NumStop ==
  /\ at = "num" /\ c \notin Digit \cup HexLetter \cup {".", ";", "E"}
  /\ IF c = End THEN UNCHANGED head ELSE ungetch
  /\ NumEnd(num)
  /\ UNCHANGED <<buf, c, beg, bad, len, skip>>
  /\ Return(KindOf(num))

-----------------------------------------------------------------------------
Lex == \/ Start \/ Blank \/ BlankEnd \/ Identifier \/ OneChar \/ TwoChar \/ TwoCharEnd
       \/ Skipping \/ Doc
       \/ String \/ StringChar \/ StringTooLarge \/ Unterminated \/ StringEscape \/ StringNext
       \/ Char \/ CharContent \/ CharEscape \/ CharNext \/ CharEnd
       \/ Number \/ Prefix \/ AfterPrefix \/ NumSeparator \/ NumDigit
       \/ NumExponent \/ ExpSign \/ ExpDigit \/ ExpBack \/ ExpCheck \/ NumStop \/ Overrun

Next == Lex

\* The parser asks for tokens until it gets EOF.
Spec == Init /\ [][Next]_vars /\ WF_vars(Lex)

-----------------------------------------------------------------------------
TypeOK ==
  /\ buf \in Seq(AllChars)
  /\ off \in 0 .. Len(buf) /\ line \in Nat \ {0} /\ column \in Nat \ {0}
  /\ at \in {"start", "dispatch", "blank", "&", "|", "readuntil", "string", "toolarge",
             "unterminated", "stringescape", "stringnext", "char", "charescape", "charnext",
             "charend", "prefix", "afterprefix", "num", "expsign", "expdigits", "expcheck",
             "finished", "overrun"}
  /\ c \in AllChars \cup {End}
  /\ beg \in [off : 0 .. Len(buf), line : Nat \ {0}, column : Nat \ {0}]
  /\ bad \in BOOLEAN
  /\ num \in [base : {2, 8, 10, 16}, f : BOOLEAN, issep : BOOLEAN, busz : 0 .. NumMax]
  /\ len \in 0 .. StrMax      \* the buffer of getstr is never written past its end
  /\ skip \in [upto : {End, BS, SQ}, kind : Kinds]
  /\ toks \in Seq([kind : Kinds, beg : Nat, end : Nat, bad : BOOLEAN, line : Nat \ {0},
                   column : Nat \ {0}, newline : BOOLEAN, busz : Nat])

\* The line and the column of offset o.
BreaksBefore(o) == {k \in 1 .. o : buf[k] = NL}
IsLocation(o, l, col) ==
  /\ l = 1 + Cardinality(BreaksBefore(o))
  /\ \E b \in BreaksBefore(o) \cup {0} :
       (\A k \in BreaksBefore(o) : k <= b) /\ col = o - b + 1

\* However the head goes forth and back, line and column are those of the
\* offset. The location of a token is that of its first character, and blanks
\* before it do not count: diagnostics point where the text is.
Located ==
  /\ IsLocation(off, line, column)
  /\ \A j \in 1 .. Len(toks) :
       /\ IsLocation(toks[j].beg, toks[j].line, toks[j].column)
       /\ toks[j].kind \notin {"EOL", "INVAL", "EOF"} => buf[toks[j].beg + 1] \notin Space

\* The kinds of token that take a line break in. Numbers, `&` and `|` are among
\* them: ungetch cannot give back the line break that ended them, so the
\* declaration they end loses its EOL.
Broken == {"EOL", "DOC", "STRING", "CHAR", "INTEGER", "FLOAT", "AND", "BOR"}

\* Every line break before the head is in the token being read or lies in a
\* token that was answered, never in the blanks between two tokens; that token
\* is of a kind that may contain one, and in an EOL it is the last character.
LineBreaksAccounted ==
  /\ \A k \in BreaksBefore(off) :
       \/ at \notin {"start", "finished"} /\ k > beg.off
       \/ \E j \in 1 .. Len(toks) :
            k \in toks[j].beg + 1 .. toks[j].end /\ toks[j].kind \in Broken
  /\ \A j \in 1 .. Len(toks) :
       /\ toks[j].newline => toks[j].kind \in Broken
       /\ toks[j].kind = "EOL" =>
            buf[toks[j].end] = NL /\ \A k \in toks[j].beg + 1 .. toks[j].end - 1 : buf[k] # NL

\* An INVAL token, on which the parser gives up, was reported, or is the blank
\* end of a text without a final line break.
InvalReported ==
  \A j \in 1 .. Len(toks) :
    toks[j].kind = "INVAL" =>
      toks[j].bad \/ (toks[j].end = Len(buf) /\ \A k \in toks[j].beg + 1 .. Len(buf) : buf[k] = "SP")

\* An integer answered without diagnostic, whose digits then fit in buf, keeps
\* the digits of its text, a leading zero and the letter of the base apart.
DigitsOf(tok) ==
  LET hex == tok.end > tok.beg + 1 /\ buf[tok.beg + 1] = "0" /\ buf[tok.beg + 2] = "x"
  IN  {k \in tok.beg + 1 .. tok.end :
         \/ buf[k] \in Digit /\ (k = tok.beg + 1 => buf[k] # "0")
         \/ buf[k] \in HexLetter /\ hex}
DigitsKept ==
  \A j \in 1 .. Len(toks) :
    toks[j].kind = "INTEGER" /\ ~toks[j].bad =>
      LET n == Cardinality(DigitsOf(toks[j])) IN toks[j].busz = IF n = 0 THEN 1 ELSE n

\* Every text is read to its end, or up to the number that overruns buf.
Terminates == <>(at \in {"finished", "overrun"})

-----------------------------------------------------------------------------
(* What a comment of lexer.c says. *)

\* lexer.c:302 "Checks out if the exponent has digits.": no digit follows the
\* place where the exponent is said to have none.
ExponentHasNone ==
  [][at = "expcheck" /\ bad' # bad => off = Len(buf) \/ buf[off + 1] \notin Digit]_vars
=============================================================================
