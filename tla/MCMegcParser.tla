---------------------------- MODULE MCMegcParser ---------------------------
(* Texts for TLC: expressions after a correct header, argument lists with    *)
(* missing arguments, and short texts after the beginning of a function,     *)
(* alone or followed by another function.                                    *)
EXTENDS MegcParserTrees

SeqsUpTo(S, n) == UNION {[1 .. k -> S] : k \in 0 .. n}

Header    == <<"ID", "LPAREN", "ID", "COLON", "ID", "RPAREN", "COLON", "ASSIGN">>
ExprTexts == {Header \o e : e \in SeqsUpTo({"ID", "SUB", "MUL", "LPAREN", "RPAREN", "COMMA"}, 5)
                                  \cup SeqsUpTo(Kinds \ {"EOF"}, 3)}

\* An argument after a missing one.
CutTexts  == {Header \o <<"ID", "LPAREN", "ID">> \o e : e \in SeqsUpTo({"ID", "COMMA", "EOL", "RPAREN"}, 5)}

OfHead    == {"ID", "COLON", "RPAREN", "COMMA", "EOL", "ASSIGN"}
UnitTexts == SeqsUpTo(Kinds \ {"EOF"}, 3)
               \cup {<<"ID", "LPAREN">> \o s : s \in SeqsUpTo(OfHead, 5)}
               \cup {<<"ID", "LPAREN">> \o s \o <<"EOL">> \o Header \o <<"ID">> :
                       s \in SeqsUpTo(OfHead, 4)}
MixedTexts == ExprTexts \cup CutTexts \cup UnitTexts
=============================================================================
