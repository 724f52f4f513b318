------------------------------ MODULE StrPool ------------------------------
(***************************************************************************)
(* The string pool of megc (megc/src/strpool.c): an open-addressing hash   *)
(* table with linear probing that owns one heap copy of every string.      *)
(*                                                                         *)
(* A step is one iteration of one of the three loops of the code: scanning *)
(* the old array of a growing table, placing one of its entries, and       *)
(* probing for the string to insert. Strings are opaque; what the code     *)
(* reads of one is its XXH3 hash and its length. A pointer is the number   *)
(* of the malloc that returned it, 0 is nullptr.                           *)
(***************************************************************************)
EXTENDS Naturals, Sequences, FiniteSets

CONSTANTS Strs,        \* the strings a client may insert
          NoStr,       \* no call is in progress
          HashOf,      \* XXH3_64bits(str, size)
          SizeOf,      \* the length the caller passes
          InitialSize  \* INITIAL_SIZE

ASSUME ConstAssumption ==
  /\ NoStr \notin Strs
  /\ HashOf \in [Strs -> Nat]
  /\ SizeOf \in [Strs -> Nat]
  /\ InitialSize \in Nat \ {0}

\* The pool compares (hash, size) and never the bytes, so it relies on the
\* hash telling apart strings of one length.
ASSUME HashAssumption ==
  \A s, t \in Strs : HashOf[s] = HashOf[t] /\ SizeOf[s] = SizeOf[t] => s = t

VARIABLES size,      \* capacity of the array
          count,     \* strings in it
          entries,   \* the array
          olds,      \* capacity of oldp
          oldp,      \* the array being left behind by a growing table
          i,         \* index of the next slot of oldp to move
          pos,       \* slot under the probe
          str,       \* argument of mstrpool_insert, NoStr when idle
          ret,       \* last value mstrpool_insert returned
          mem,       \* mem[p] is the string copied into allocation p
          freed,     \* freed[p] counts the calls free(p)
          pc         \* where the code is

vars == <<size, count, entries, olds, oldp, i, pos, str, ret, mem, freed, pc>>

Null  == [hash |-> 0, size |-> 0, ptr |-> 0]      \* a slot as calloc leaves it
Entry == [hash : Nat, size : Nat, ptr : Nat]

Calloc(n)    == [k \in 0 .. n - 1 |-> Null]
Home(h, n)   == h % n
\* mutant: the wrap-around is forgotten
NextPosNoWrap(p) == p + 1
NextPos(p)   == (p + 1) % size
Used(tab)    == {k \in DOMAIN tab : tab[k].ptr # 0}
\* mutant: only the hash is compared
MatchesHash(e, s) == e.hash = HashOf[s]
Matches(e, s) == e.size = SizeOf[s] /\ e.hash = HashOf[s]

TypeOK ==
  /\ size \in Nat \ {0}
  /\ count \in Nat
  /\ entries \in [0 .. size - 1 -> Entry]
  /\ olds \in Nat
  /\ oldp \in [0 .. olds - 1 -> Entry]
  /\ i \in Nat
  /\ pos \in 0 .. size - 1
  /\ str \in Strs \cup {NoStr}
  /\ ret \in Nat
  /\ mem \in Seq(Strs)
  /\ freed \in [1 .. Len(mem) -> Nat]
  /\ pc \in {"idle", "scan", "place", "probe", "deleted"}

-----------------------------------------------------------------------------
(* mstrpool_new *)
Init == /\ size = InitialSize
        /\ count = 0
        /\ entries = Calloc(InitialSize)
        /\ olds = 0 /\ oldp = Calloc(0)
        /\ i = 0 /\ pos = 0
        /\ str = NoStr /\ ret = 0
        /\ mem = <<>> /\ freed = <<>>
        /\ pc = "idle"

\* mutant: the table may fill up
HasRoomFull == count <= size
\* count / size <= 0.80
HasRoom == 5 * count <= 4 * size

\* mstrpool_insert on a table that need not grow: hash and start probing.
CallFits(s) ==
  /\ pc = "idle" /\ HasRoom
  /\ str' = s
  /\ pos' = Home(HashOf[s], size)
  /\ pc' = "probe"
  /\ UNCHANGED <<size, count, entries, olds, oldp, i, ret, mem, freed>>

\* mutant: count is not reset before the entries are counted again
CallGrowsKeepCount(s) ==
  /\ pc = "idle" /\ ~HasRoom
  /\ str' = s
  /\ size' = size * 3
  /\ olds' = size
  /\ oldp' = entries
  /\ entries' = Calloc(size * 3)
  /\ i' = 0
  /\ pc' = "scan"
  /\ UNCHANGED <<count, pos, ret, mem, freed>>

\* mstrpool_insert on a table that must grow: a three times larger array.
CallGrows(s) ==
  /\ pc = "idle" /\ ~HasRoom
  /\ str' = s
  /\ count' = 0
  /\ size' = size * 3
  /\ olds' = size
  /\ oldp' = entries
  /\ entries' = Calloc(size * 3)
  /\ i' = 0
  /\ pc' = "scan"
  /\ UNCHANGED <<pos, ret, mem, freed>>

ScanSkip ==
  /\ pc = "scan" /\ i < olds
  /\ oldp[i].ptr = 0
  /\ i' = i + 1
  /\ UNCHANGED <<size, count, entries, olds, oldp, pos, str, ret, mem, freed, pc>>

\* mutant: the entry keeps its slot number in the larger array
ScanTakeSameSlot ==
  /\ pc = "scan" /\ i < olds
  /\ oldp[i].ptr # 0
  /\ pos' = i
  /\ pc' = "place"
  /\ UNCHANGED <<size, count, entries, olds, oldp, i, str, ret, mem, freed>>

ScanTake ==
  /\ pc = "scan" /\ i < olds
  /\ oldp[i].ptr # 0
  /\ pos' = Home(oldp[i].hash, size)
  /\ pc' = "place"
  /\ UNCHANGED <<size, count, entries, olds, oldp, i, str, ret, mem, freed>>

PlaceAdvance ==
  /\ pc = "place" /\ entries[pos].ptr # 0
  /\ pos' = NextPos(pos)
  /\ UNCHANGED <<size, count, entries, olds, oldp, i, str, ret, mem, freed, pc>>

\* mutant: the entry is written without looking at the slot
PlacePutBlind ==
  /\ pc = "place"
  /\ count' = count + 1
  /\ entries' = [entries EXCEPT ![pos] = oldp[i]]
  /\ i' = i + 1
  /\ pc' = "scan"
  /\ UNCHANGED <<size, olds, oldp, pos, str, ret, mem, freed>>

PlacePut ==
  /\ pc = "place" /\ entries[pos].ptr = 0
  /\ count' = count + 1
  /\ entries' = [entries EXCEPT ![pos] = oldp[i]]
  /\ i' = i + 1
  /\ pc' = "scan"
  /\ UNCHANGED <<size, olds, oldp, pos, str, ret, mem, freed>>

\* End of the loop: free(oldp), then hash the argument and start probing.
ScanDone ==
  /\ pc = "scan" /\ i >= olds
  /\ olds' = 0
  /\ oldp' = Calloc(0)
  /\ pos' = Home(HashOf[str], size)
  /\ pc' = "probe"
  /\ UNCHANGED <<size, count, entries, i, str, ret, mem, freed>>

ProbeFound ==
  /\ pc = "probe" /\ entries[pos].ptr # 0
  /\ Matches(entries[pos], str)
  /\ ret' = entries[pos].ptr
  /\ str' = NoStr
  /\ pc' = "idle"
  /\ UNCHANGED <<size, count, entries, olds, oldp, i, pos, mem, freed>>

ProbeAdvance ==
  /\ pc = "probe" /\ entries[pos].ptr # 0
  /\ ~Matches(entries[pos], str)
  /\ pos' = NextPos(pos)
  /\ UNCHANGED <<size, count, entries, olds, oldp, i, str, ret, mem, freed, pc>>

ProbeStore ==
  /\ pc = "probe" /\ entries[pos].ptr = 0
  /\ mem' = Append(mem, str)
  /\ freed' = Append(freed, 0)
  /\ entries' = [entries EXCEPT ![pos] =
                   [hash |-> HashOf[str], size |-> SizeOf[str], ptr |-> Len(mem) + 1]]
  /\ count' = count + 1
  /\ ret' = Len(mem) + 1
  /\ str' = NoStr
  /\ pc' = "idle"
  /\ UNCHANGED <<size, olds, oldp, i, pos>>

(* mstrpool_del *)
Del ==
  /\ pc = "idle"
  /\ freed' = [p \in 1 .. Len(mem) |->
                 freed[p] + Cardinality({k \in Used(entries) : entries[k].ptr = p})]
  /\ pc' = "deleted"
  /\ UNCHANGED <<size, count, entries, olds, oldp, i, pos, str, ret, mem>>

Call(s) == CallFits(s) \/ CallGrows(s)
Scan    == ScanSkip \/ ScanTake \/ ScanDone
Place   == PlaceAdvance \/ PlacePut
Probe   == ProbeFound \/ ProbeAdvance \/ ProbeStore

Step == Scan \/ Place \/ Probe      \* the inside of a call
Next == (\E s \in Strs : Call(s)) \/ Step \/ Del

\* A call that was made keeps executing; nobody is obliged to make one.
Spec == Init /\ [][Next]_vars /\ WF_vars(Step)

-----------------------------------------------------------------------------
(* What makes the table correct. *)

InCall == pc \in {"scan", "place", "probe"}

\* The slots of oldp that have not been moved yet.
Pending == {k \in DOMAIN oldp : k >= i /\ oldp[k].ptr # 0}

\* Slot q lies on the probe path that starts in a and has not reached b.
OnPath(q, a, b) == IF a <= b THEN a <= q /\ q < b ELSE a <= q \/ q < b

\* count is the number of used slots, in the middle of a growth too; the load
\* test of check_table_size reads it.
CountExact == pc # "deleted" => count = Cardinality(Used(entries))

\* The two `while (true)` loops that probe end because a free slot exists:
\* the load test runs before the insertion and the table may be 100% full.
SlotFree == pc \in {"place", "probe"} => \E k \in DOMAIN entries : entries[k].ptr = 0

\* The load test is about the table as it is, and leaves the probing loops a
\* free slot to stop at: a wrong count would be wrong in every later call.
LoadExact == CountExact /\ SlotFree

\* No free slot separates an entry from its home, so a lookup that stops at
\* the first free slot misses nothing.
ChainUnbroken ==
  \A k \in Used(entries) : \A q \in 0 .. size - 1 :
    OnPath(q, Home(entries[k].hash, size), k) => entries[q].ptr # 0

\* A string is copied once: no two slots of the table hold the same key.
NoDuplicate ==
  \A k, l \in Used(entries) :
    entries[k].hash = entries[l].hash /\ entries[k].size = entries[l].size => k = l

\* Every allocation is owned by exactly one slot, of the new array or of the
\* part of the old one still to be moved, and that slot describes it, so that
\* mstrpool_del frees every copy, and none twice.
Owned ==
  /\ pc = "deleted" => \A p \in 1 .. Len(mem) : freed[p] = 1
  /\ pc # "deleted" => \A p \in 1 .. Len(mem) :
       /\ Cardinality({k \in Used(entries) : entries[k].ptr = p})
            + Cardinality({k \in Pending : oldp[k].ptr = p}) = 1
       /\ \A k \in Used(entries) : entries[k].ptr = p => Matches(entries[k], mem[p])

\* mstrpool_insert returns a copy of the string it was given.
ReturnsArgument == [][InCall /\ pc' = "idle" => ret' # 0 /\ mem'[ret'] = str]_vars

\* The pointer under which the pool holds s, 0 if it does not.
PointersOf(s) ==
  {entries[k].ptr : k \in {l \in Used(entries) : Matches(entries[l], s)}}
    \cup {oldp[k].ptr : k \in {l \in Pending : Matches(oldp[l], s)}}
AnyOrNull(ptrs) == IF ptrs = {} THEN 0 ELSE CHOOSE p \in ptrs : TRUE
PointerOf(s)    == AnyOrNull(PointersOf(s))

\* A pointer given to the lexer stays the pointer of its string as long as the
\* pool lives, whatever is inserted later and however often the table grows:
\* tokens and syntax tree nodes keep these pointers.
PointerStable ==
  [][\A s \in Strs : PointerOf(s) # 0 => PointersOf(s)' = {PointerOf(s)}]_vars

\* A call to mstrpool_insert returns.
CallReturns == InCall ~> pc = "idle"

\* The pool implements the abstract specification of interning.
Abstract == INSTANCE Interning WITH
              known <- [s \in Strs |-> PointerOf(s)],
              req   <- str,
              out   <- ret,
              open  <- pc # "deleted"
ImplementsInterning == Abstract!Spec
=============================================================================
