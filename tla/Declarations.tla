---------------------------- MODULE Declarations ---------------------------
(***************************************************************************)
(* What a scope of libprotocols promises to the semantic analysis: an      *)
(* identifier is declared at most once in it, a second declaration is      *)
(* answered with the first one, and looking an identifier up answers its   *)
(* declaration, or none if there is none.                                  *)
(*                                                                         *)
(* Abstract specification of safety; ScopeTable implements it.             *)
(***************************************************************************)
CONSTANTS Decls,    \* the declarations of the source text
          IdOf,     \* the identifier each of them declares
          NoDecl    \* no declaration

Ids     == {IdOf[d] : d \in Decls}
Request == [id : Ids, decl : Decls \cup {NoDecl}]
NoReq   == [id |-> NoDecl, decl |-> NoDecl]

VARIABLES decls,    \* what has been declared
          req,      \* the question being answered: an identifier to look up
                    \* and, if it is not declared, the declaration to add
          out,      \* the last answer
          open      \* the scope is not closed

avars == <<decls, req, out, open>>

Init == decls = {} /\ req = NoReq /\ out = NoDecl /\ open = TRUE

LookUp(d) == /\ open /\ req = NoReq
             /\ req' = [id |-> IdOf[d], decl |-> NoDecl]
             /\ UNCHANGED <<decls, out, open>>

Declare(d) == /\ open /\ req = NoReq /\ d \notin decls
              /\ req' = [id |-> IdOf[d], decl |-> d]
              /\ UNCHANGED <<decls, out, open>>

Found == /\ req # NoReq
         /\ out' \in decls /\ IdOf[out'] = req.id
         /\ req' = NoReq
         /\ UNCHANGED <<decls, open>>

Missing == /\ req # NoReq
           /\ \A d \in decls : IdOf[d] # req.id
           /\ out' = NoDecl
           /\ decls' = decls \cup ({req.decl} \ {NoDecl})
           /\ req' = NoReq
           /\ UNCHANGED open

Close == open /\ req = NoReq /\ open' = FALSE /\ UNCHANGED <<decls, req, out>>

Next == \/ \E d \in Decls : LookUp(d) \/ Declare(d)
        \/ Found \/ Missing \/ Close

Spec == Init /\ [][Next]_avars
=============================================================================
