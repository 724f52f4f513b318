----------------------------- MODULE ScopeTable ----------------------------
(***************************************************************************)
(* The declarations of one scope of libprotocols                           *)
(* (libprotocols/src/Code/Semantic/Scope.c): a Robin Hood hash table whose *)
(* buckets are also threaded into a list, used by the semantic analysis    *)
(* (Semantics.c) to look identifiers up, to refuse a second declaration of *)
(* one, and to visit every declaration when the scope is closed.           *)
(*                                                                         *)
(* A step is one iteration of one of the loops of the code. A declaration  *)
(* stands for the heap copy prosScope_pushDecl makes of it.                *)
(***************************************************************************)
EXTENDS Integers, Sequences, FiniteSets

CONSTANTS Decls,       \* the declarations of the source text
          NoDecl,      \* nullptr
          HashOf,      \* id.data.id->hash of each
          InitialSize  \* INITIAL_DECL_TABLE_SIZE

\* A bucket whose hash is 0 is taken for a free one: no identifier hashes to 0.
\* The hash stands for the identifier. nullptr is neither a declaration nor an
\* identifier.
ASSUME ScopeAssumption ==
  /\ HashOf \in [Decls -> Nat \ {0}]
  /\ NoDecl \notin Decls \cup {HashOf[d] : d \in Decls}
  /\ InitialSize \in Nat \ {0}

VARIABLES size,     \* declTableSize
          table,    \* declTable
          list,     \* declList: slot of the first bucket of the list, -1 for nullptr
          count,    \* declCount
          old, i,   \* oldDeclTable and the next slot of it to move
          new,      \* the bucket being inserted
          pos,      \* slot under the probe
          psl,      \* length of the probe in prosScope_findDecl
          want,     \* hash looked up, 0 if no call is in progress
          todo,     \* declaration to push if it is not found
          ret,      \* last value prosScope_findDecl returned
          freed,    \* declarations given to prosAllocator_free, in order
          at        \* where the code is

vars == <<size, table, list, count, old, i, new, pos, psl, want, todo, ret, freed, at>>

Null   == [decl |-> NoDecl, psl |-> 0, next |-> -1]
Bucket == [decl : Decls \cup {NoDecl}, psl : Nat, next : Int]

Calloc(n)   == [k \in 0 .. n - 1 |-> Null]
Home(h)     == h % size
\* mutant: the wrap-around is forgotten
NextSlotNoWrap(p) == p + 1
NextSlot(p) == (p + 1) % size
Used(tab)   == {k \in DOMAIN tab : tab[k].decl # NoDecl}
Pending     == {k \in Used(old) : k >= i}

-----------------------------------------------------------------------------
(* prosScope_new *)
Init == /\ size = InitialSize /\ table = Calloc(InitialSize)
        /\ list = -1 /\ count = 0
        /\ old = <<>> /\ i = 0
        /\ new = Null /\ pos = 0 /\ psl = 0
        /\ want = 0 /\ todo = NoDecl /\ ret = NoDecl
        /\ freed = <<>>
        /\ at = "idle"

\* semanticsHasDeclWithId in one scope, for a reference or before a declaration.
Ask(d, t) ==
  /\ at = "idle"
  /\ want' = HashOf[d] /\ todo' = t
  /\ pos' = Home(HashOf[d]) /\ psl' = 0
  /\ at' = "find"
  /\ UNCHANGED <<size, table, list, count, old, i, new, ret, freed>>
LookUp(d)  == Ask(d, NoDecl)
\* The analysis meets a declaration of the text once.
Declare(d) == Ask(d, d) /\ \A k \in Used(table) : table[k].decl # d

Answer(d) == /\ ret' = d
             /\ want' = 0 /\ todo' = NoDecl
             /\ at' = "idle"

(* prosScope_findDecl *)
Holds(b) == b.decl # NoDecl /\ HashOf[b.decl] = want
\* mutant: the search stops one slot too early
GivesUpEarly(b) == b.decl = NoDecl \/ (b.psl <= psl /\ psl > 0)
GivesUp(b) == b.decl = NoDecl \/ b.psl < psl

FindHit == /\ at = "find" /\ ~GivesUp(table[pos]) /\ Holds(table[pos])
           /\ Answer(table[pos].decl)
           /\ UNCHANGED <<size, table, list, count, old, i, new, pos, psl, freed>>

FindMiss == /\ at = "find" /\ GivesUp(table[pos]) /\ todo = NoDecl
            /\ Answer(NoDecl)
            /\ UNCHANGED <<size, table, list, count, old, i, new, pos, psl, freed>>

\* mutant: the probe of a search does not move on
FindAdvanceStays == /\ at = "find" /\ ~GivesUp(table[pos]) /\ ~Holds(table[pos])
                    /\ UNCHANGED vars
FindAdvance == /\ at = "find" /\ ~GivesUp(table[pos]) /\ ~Holds(table[pos])
               /\ pos' = NextSlot(pos) /\ psl' = psl + 1
               /\ UNCHANGED <<size, table, list, count, old, i, new, want, todo, ret, freed, at>>

Insert(d) == /\ new' = [decl |-> d, psl |-> 0, next |-> list]
             /\ pos' = Home(HashOf[d])
             /\ at' = "insert"

(* prosScope_pushDecl *)
Push == /\ at = "find" /\ GivesUp(table[pos]) /\ todo # NoDecl
        /\ Insert(todo)
        /\ UNCHANGED <<size, table, list, count, old, i, psl, want, todo, ret, freed>>

-----------------------------------------------------------------------------
(* scopeInsertDecl, until a free bucket is found. *)

\* mutant: the bucket taken over keeps the successor of the newcomer
SwapKeepsNext == /\ table' = [table EXCEPT ![pos] = new]
                 /\ new' = [table[pos] EXCEPT !.next = list, !.psl = @ + 1]
\* mutant: the evicted bucket starts its probe anew
SwapResetsPsl == /\ table' = [table EXCEPT ![pos] = [new EXCEPT !.next = table[pos].next]]
                 /\ new' = [table[pos] EXCEPT !.next = list, !.psl = 1]
\* A bucket nearer to its home gives way, but keeps its place in the list.
Swap == /\ table' = [table EXCEPT ![pos] = [new EXCEPT !.next = table[pos].next]]
        /\ new' = [table[pos] EXCEPT !.next = list, !.psl = @ + 1]

InsertAdvance ==
  /\ at = "insert" /\ table[pos].decl # NoDecl
  /\ IF table[pos].psl < new.psl THEN Swap
     ELSE new' = [new EXCEPT !.psl = @ + 1] /\ UNCHANGED table
  /\ pos' = NextSlot(pos)
  /\ UNCHANGED <<size, list, count, old, i, psl, want, todo, ret, freed, at>>

InsertStore ==
  /\ at = "insert" /\ table[pos].decl = NoDecl
  /\ table' = [table EXCEPT ![pos] = new]
  /\ list' = pos
  /\ count' = count + 1
  /\ at' = IF old = <<>> THEN "pushed" ELSE "rehash"
  /\ UNCHANGED <<size, old, i, new, pos, psl, want, todo, ret, freed>>

\* declCount / declTableSize <= 0.70
HasRoom == 10 * count <= 7 * size

PushFits == /\ at = "pushed" /\ HasRoom
            /\ Answer(NoDecl)
            /\ UNCHANGED <<size, table, list, count, old, i, new, pos, psl, freed>>

(* scopeDoRehash *)
PushGrows == /\ at = "pushed" /\ ~HasRoom
             /\ old' = table /\ i' = 0
             /\ size' = size * 2 /\ table' = Calloc(size * 2)
             /\ list' = -1 /\ count' = 0
             /\ at' = "rehash"
             /\ UNCHANGED <<new, pos, psl, want, todo, ret, freed>>

RehashNext == /\ at = "rehash" /\ i \in DOMAIN old
              /\ i' = i + 1
              /\ IF old[i].decl = NoDecl THEN UNCHANGED <<new, pos, at>>
                                         ELSE Insert(old[i].decl)
              /\ UNCHANGED <<size, table, list, count, old, psl, want, todo, ret, freed>>

RehashDone == /\ at = "rehash" /\ i \notin DOMAIN old
              /\ old' = <<>>
              /\ Answer(NoDecl)
              /\ UNCHANGED <<size, table, list, count, i, new, pos, psl, freed>>

-----------------------------------------------------------------------------
(* prosScope_del: the declarations are freed along the list. *)

Close == /\ at = "idle"
         /\ at' = "del" /\ pos' = list
         /\ UNCHANGED <<size, table, list, count, old, i, new, psl, want, todo, ret, freed>>

FreeNext == /\ at = "del" /\ pos # -1
            /\ freed' = Append(freed, table[pos].decl)
            /\ pos' = table[pos].next
            /\ UNCHANGED <<size, table, list, count, old, i, new, psl, want, todo, ret, at>>

Closed == /\ at = "del" /\ pos = -1
          /\ at' = "closed"
          /\ UNCHANGED <<size, table, list, count, old, i, new, pos, psl, want, todo, ret, freed>>

Find == FindHit \/ FindMiss \/ FindAdvance \/ Push
Add  == InsertAdvance \/ InsertStore \/ PushFits \/ PushGrows \/ RehashNext \/ RehashDone
Del  == FreeNext \/ Closed
Step == Find \/ Add \/ Del        \* the inside of a call
Next == (\E d \in Decls : LookUp(d) \/ Declare(d)) \/ Close \/ Step

\* A call that was made keeps executing; nobody is obliged to make one.
Spec == Init /\ [][Next]_vars /\ WF_vars(Step)

-----------------------------------------------------------------------------
TypeOK ==
  /\ size \in Nat \ {0} /\ table \in [0 .. size - 1 -> Bucket]
  /\ list \in -1 .. size - 1 /\ count \in Nat
  /\ old = <<>> \/ \E n \in 1 .. size : old \in [0 .. n - 1 -> Bucket]
  /\ i \in Nat /\ new \in Bucket /\ psl \in Nat
  /\ pos \in -1 .. size - 1 /\ (at # "del" /\ at # "closed" => pos # -1)
  /\ want \in Nat /\ todo \in Decls \cup {NoDecl} /\ ret \in Decls \cup {NoDecl}
  /\ freed \in Seq(Decls)
  /\ at \in {"idle", "find", "insert", "pushed", "rehash", "del", "closed"}

\* How far slot k is from the home of the bucket in it.
Distance(b, k) == (k - Home(HashOf[b.decl])) % size

\* The probe for a bucket passes only buckets at least as far from their homes,
\* so that a search may stop at the first nearer one; in the middle of an
\* insertion or of a rehash too.
SearchReaches ==
  /\ \A k \in Used(table) :
       /\ table[k].psl = Distance(table[k], k)
       /\ \A n \in 1 .. table[k].psl :
            LET q == (k - n) % size
            IN  table[q].decl # NoDecl /\ table[q].psl >= table[k].psl - n
  /\ at = "insert" => new.psl = Distance(new, pos)

\* Every declaration is freed, and none twice, although buckets are moved by
\* insertions while they are threaded into the list.
FreedOnce ==
  /\ \A j, k \in DOMAIN freed : j # k => freed[j] # freed[k]
  /\ at = "closed" => {freed[k] : k \in DOMAIN freed} = {table[k].decl : k \in Used(table)}

\* A lookup, a declaration and the closing of the scope return.
CallReturns == at \notin {"idle", "closed"} ~> at \in {"idle", "closed"}

\* The scope implements the abstract specification of declarations.
Stored == {table[k].decl : k \in Used(table)} \cup {old[k].decl : k \in Pending}
            \cup (IF at = "insert" THEN {new.decl} ELSE {})
Abstract == INSTANCE Declarations WITH
              IdOf  <- HashOf,
              decls <- Stored \ {todo},
              req   <- IF want = 0 THEN [id |-> NoDecl, decl |-> NoDecl]
                                   ELSE [id |-> want, decl |-> todo],
              out   <- ret,
              open  <- at \notin {"del", "closed"}
ImplementsDeclarations == Abstract!Spec
=============================================================================
