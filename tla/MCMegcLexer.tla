---------------------------- MODULE MCMegcLexer ----------------------------
(* Texts for TLC: all the short ones over every kind of character, longer    *)
(* ones over the characters of numbers, longer ones still over those of      *)
(* string literals.                                                          *)
EXTENDS MegcLexer

SeqsUpTo(S, n) == UNION {[1 .. k -> S] : k \in 0 .. n}

NumberChars == {"0", "1", "9", "b", "x", "E", "-", ".", ";", NL}
TextChars   == {DQ, SQ, BS, "b", "z"}

MixedTexts  == SeqsUpTo(AllChars, 3) \cup SeqsUpTo(NumberChars, 4) \cup SeqsUpTo(TextChars, 5)
NumberTexts == SeqsUpTo(NumberChars, 3)
=============================================================================
