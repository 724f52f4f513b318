--------------------------- MODULE MCExpressions ---------------------------
(***************************************************************************)
(* Texts for Expressions, in groups: operators, calls, types, texts over   *)
(* several lines, all kinds of tokens, literals.                           *)
(***************************************************************************)
EXTENDS Expressions, TLC

Tok(tok)  == [tok |-> tok, name |-> "", lit |-> <<>>]
Name(n)   == [Tok("ID") EXCEPT !.name = n]
Lit(cs)   == [Tok("NUMBER") EXCEPT !.lit = cs]
Toks(s)   == {Tok(k) : k \in s}
One       == Lit(<<1>>)

InScope == "x" :> [as |-> "value", type |-> "int", params |-> <<>>]
        @@ "b" :> [as |-> "value", type |-> "bool", params |-> <<>>]
        @@ "f" :> [as |-> "function", type |-> "int", params |-> <<"int">>]
        @@ "g" :> [as |-> "function", type |-> "bool", params |-> <<"bool", "int">>]
        @@ "h" :> [as |-> "function", type |-> "void", params |-> <<>>]

SeqsUpTo(S, n) == UNION {[1 .. k -> S] : k \in 1 .. n}

Operators == SeqsUpTo({One, Name("x")} \cup Toks({"PLUS", "STAR", "EQUAL", "MINUS"}), 5)
             \cup {<<One, Tok(a), One, Tok(b), One, Tok(c), One>> :
                     a, b, c \in {"PLUS", "STAR", "EQUAL", "MINUSEQUAL", "SLASH"}}
Calls  == {<<Name(f), Tok("PAREN_OPEN")>> \o s :
             f \in {"f", "g", "h", "x", "z"},
             s \in SeqsUpTo({One, Name("b"), Name("f")} \cup Toks({"PAREN_OPEN", "PAREN_CLOSE", "COMMA", "PLUS"}), 4)}
          \cup {<<Name("g"), Tok("PAREN_OPEN")>> \o s \o <<Tok("PAREN_CLOSE")>> :
                  s \in SeqsUpTo({One, Tok("TRUE"), Tok("COMMA"), Tok("PLUS")}, 5)}
Types  == SeqsUpTo({Name("b"), Name("z"), Name("h"), One} \cup Toks({"PLUS", "EXCLAMATION", "PAREN_OPEN", "PAREN_CLOSE"}), 4)
LineEnd == {<<Tok("EOL")>>, <<Tok("EOL"), Tok("DEDENT")>>, <<Tok("EOL"), Tok("INDENT")>>, <<Tok("BAD")>>}
Lines  == {s \o e \o t : s \in SeqsUpTo({One, Name("f")} \cup Toks({"PLUS", "PAREN_OPEN"}), 3), e \in LineEnd,
                         t \in SeqsUpTo({One} \cup Toks({"PAREN_CLOSE", "STAR", "EOL", "BAD"}), 2)}
Short  == SeqsUpTo({One, Name("x")} \cup
                   Toks({"TRUE", "FALSE", "PLUS", "SLASH", "MINUSEQUAL", "EXCLAMATION", "PAREN_OPEN",
                         "PAREN_CLOSE", "COMMA", "COLON", "EOL", "BAD"}), 3)
Literals == {<<Lit(<<d>> \o cs)>> : d \in {0, 1, 9}, cs \in {<<>>} \cup SeqsUpTo({0, 1, 9, LetterX, LetterU, LetterQ}, 4)}

AllTexts == Operators \cup Calls \cup Types \cup Lines \cup Short \cup Literals
=============================================================================
