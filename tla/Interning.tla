----------------------------- MODULE Interning -----------------------------
(***************************************************************************)
(* What the string pool of megc promises to the lexer: a caller presents a *)
(* string and gets back a pointer; the same string always gets the same    *)
(* pointer, two strings never share one, and once the pool is closed       *)
(* nothing is answered any more.                                           *)
(*                                                                         *)
(* Abstract specification of safety; StrPool implements it, and states by  *)
(* itself that every request is answered.                                  *)
(***************************************************************************)
EXTENDS Naturals

CONSTANTS Strs,     \* the strings presented to the pool
          NoStr     \* "no request is being served"

VARIABLES known,    \* string -> pointer given for it, 0 if none yet
          req,      \* the string being interned
          out,      \* the last pointer answered
          open      \* the pool has not been deleted

avars == <<known, req, out, open>>

Init == /\ known = [s \in Strs |-> 0]
        /\ req = NoStr
        /\ out = 0
        /\ open = TRUE

Ask(s) == /\ open /\ req = NoStr
          /\ req' = s
          /\ UNCHANGED <<known, out, open>>

\* A string seen before is answered from what is known ...
AnswerOld == /\ req # NoStr /\ known[req] # 0
             /\ out' = known[req]
             /\ req' = NoStr
             /\ UNCHANGED <<known, open>>

\* ... and a new one gets a pointer nobody has.
AnswerNew == /\ req # NoStr /\ known[req] = 0
             /\ out' \notin {known[s] : s \in Strs} \cup {0}
             /\ known' = [known EXCEPT ![req] = out']
             /\ req' = NoStr
             /\ UNCHANGED open

Close == /\ open /\ req = NoStr
         /\ open' = FALSE
         /\ UNCHANGED <<known, req, out>>

Next == \/ \E s \in Strs : Ask(s)
        \/ AnswerOld \/ AnswerNew \/ Close

Spec == Init /\ [][Next]_avars
=============================================================================
