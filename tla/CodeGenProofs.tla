--------------------------- MODULE CodeGenProofs ---------------------------
(***************************************************************************)
(* Proofs about CodeGen for any number of temporary registers from six on  *)
(* and bodies of every length and depth.                                   *)
(***************************************************************************)
EXTENDS CodeGen, WellFoundedInduction, TLAPS

Context == [vals : Seq(ValType), owner : [Regs -> Nat], prior : [Regs -> Nat],
            held : [Regs -> Nat]]

\* The facts about a context that hold between any two calls of genValueLoad.
Sound(c) ==
  /\ c \in Context
  /\ \A r \in Regs : c.owner[r] <= Len(c.vals) /\ c.held[r] <= Len(c.vals)
  /\ \A v \in DOMAIN c.vals :
       /\ c.vals[v].where = "reg" => c.vals[v].reg \in Temps
       /\ c.vals[v].cell <= Len(c.vals) /\ (c.vals[v].where # "stack" => c.vals[v].cell = 0)
  /\ \A r \in Regs, v \in DOMAIN c.vals :
       c.owner[r] = v <=> c.vals[v].where = "reg" /\ c.vals[v].reg = r

\* The place of a value has its content.
Holds(c, v) == \/ c.vals[v].where = "reg" /\ c.held[c.vals[v].reg] = v
               \/ c.vals[v].where = "stack" /\ c.vals[v].cell = v

InReg(c, v) == c.vals[v].where = "reg"
InUse(c, q) == c.owner[q] # 0

-----------------------------------------------------------------------------
(* The search for a register. *)

NoneFound == [reg |-> R00, free |-> FALSE, age |-> 0]

\* f is the search up to register n.
Searches(c, f, n) ==
  f = [r \in R00 .. n |-> IF r < FirstTemp THEN NoneFound ELSE Older(c, f[r - 1], r)]

\* What the search knows after register k: a free one, or one of those that are
\* at most one younger than the oldest.
Best(c, b, k) ==
  /\ b.free \in BOOLEAN /\ b.age \in Nat
  /\ b.free => b.reg \in FirstTemp .. k /\ c.owner[b.reg] = 0
  /\ ~b.free => /\ \A q \in FirstTemp .. k : c.owner[q] # 0 /\ c.prior[q] <= b.age
                /\ \/ b.reg = R00 /\ b.age = 0
                   \/ /\ b.reg \in FirstTemp .. k /\ c.prior[b.reg] > 0
                      /\ b.age = c.prior[b.reg] + 1

LEMMA RegsAreNumbers ==
  /\ R00 = 0 /\ R00 \notin Temps /\ Temps \subseteq Regs /\ R00 \in Regs
  /\ FirstTemp \in Nat \ {0} /\ LastTemp \in Nat /\ FirstTemp <= LastTemp
  /\ Temps \subseteq Nat /\ Regs \subseteq Nat
  BY GenAssumption DEF R00, Temps, Regs

\* The loop of genContextGetRegister is defined for every number of registers.
LEMMA SearchExists == ASSUME NEW c, NEW n \in Nat PROVE \E f : Searches(c, f, n)
<1> USE RegsAreNumbers
<1> DEFINE T == {k \in Nat : ~ \E f : Searches(c, f, k)}
<1>1. SUFFICES ASSUME n \in T PROVE FALSE
  OBVIOUS
<1>2. PICK m \in T : \A y \in T : ~ (<<y, m>> \in OpToRel(<, Nat))
  <2>1. IsWellFoundedOn(OpToRel(<, Nat), Nat)
    BY NatLessThanWellFounded
  <2>2. T \subseteq Nat /\ T # {}
    BY <1>1
  <2>3. QED
    BY <2>1, <2>2, WFMin
<1>3. m \in Nat /\ ~ \E f : Searches(c, f, m)
  OBVIOUS
<1>4. CASE m = 0
  <2>1. Searches(c, [r \in 0 .. 0 |-> NoneFound], 0)
    BY DEF Searches
  <2>2. QED
    BY <1>3, <1>4, <2>1
<1>5. CASE m # 0
  <2>1. PICK k \in Nat : m = k + 1 /\ k < m
    <3>1. m - 1 \in Nat /\ m = (m - 1) + 1 /\ m - 1 < m
      BY <1>3, <1>5
    <3>2. QED
      BY <3>1
  <2>2. k \notin T
    BY <1>2, <1>3, <2>1 DEF OpToRel
  <2>3. PICK g : Searches(c, g, k)
    BY <2>2
  <2>4. \A r \in 0 .. k : g[r] = IF r < FirstTemp THEN NoneFound ELSE Older(c, g[r - 1], r)
    BY <2>3 DEF Searches
  <2> DEFINE h == [r \in 0 .. m |->
                     IF r <= k THEN g[r]
                     ELSE IF r < FirstTemp THEN NoneFound ELSE Older(c, g[r - 1], r)]
  <2>5. \A r \in 0 .. m : h[r] = IF r < FirstTemp THEN NoneFound ELSE Older(c, h[r - 1], r)
    <3>1. TAKE r \in 0 .. m
    <3>2. CASE r < FirstTemp
      BY <2>4, <3>2
    <3>3. CASE ~(r < FirstTemp)
      <4>1. PICK s : s = r - 1 /\ s \in 0 .. k
        BY <2>1, <3>3
      <4>2. h[s] = g[s]
        BY <2>1, <4>1
      <4>3. h[r] = Older(c, g[s], r)
        BY <2>1, <2>4, <3>3, <4>1
      <4>4. QED
        BY <3>3, <4>1, <4>2, <4>3
    <3>4. QED
      BY <3>2, <3>3
  <2>6. h = [r \in 0 .. m |-> IF r < FirstTemp THEN NoneFound ELSE Older(c, h[r - 1], r)]
    BY <2>5
  <2>7. Searches(c, h, m)
    BY <2>6 DEF Searches
  <2>8. QED
    BY <1>3, <2>7
<1>6. QED
  BY <1>4, <1>5

LEMMA OlderKeepsBest ==
  ASSUME NEW c, c.owner \in [Regs -> Nat], c.prior \in [Regs -> Nat],
         NEW k \in Nat, k + 1 \in Temps, NEW b, Best(c, b, k)
  PROVE  Best(c, Older(c, b, k + 1), k + 1)
<1> DEFINE q == k + 1
<1>1. q \in Regs /\ c.owner[q] \in Nat /\ c.prior[q] \in Nat /\ FirstTemp <= q
  BY RegsAreNumbers DEF Temps
<1>2. \A r : r \in FirstTemp .. q <=> r \in FirstTemp .. k \/ r = q
  BY <1>1, RegsAreNumbers
<1>3. b.free \in BOOLEAN /\ b.age \in Nat
  BY DEF Best
<1>4. CASE c.owner[q] = 0
  <2>1. Older(c, b, q) = [reg |-> q, free |-> TRUE, age |-> 0]
    BY <1>4 DEF Older
  <2>2. PICK n : n = Older(c, b, q) /\ n.reg = q /\ n.free \in BOOLEAN /\ n.free /\ n.age = 0
    <3>1. PICK n : n = [reg |-> q, free |-> TRUE, age |-> 0]
      OBVIOUS
    <3>2. n.reg = q /\ n.age = 0
      BY <3>1
    <3>3. n.free \in BOOLEAN /\ n.free
      BY <3>1
    <3>4. QED
      BY <2>1, <3>1, <3>2, <3>3
  <2>3. q \in FirstTemp .. q
    BY <1>1, RegsAreNumbers
  <2>4. Best(c, n, q)
    <3>1. n.age \in Nat /\ n.reg \in FirstTemp .. q /\ c.owner[n.reg] = 0
      BY <1>4, <2>2, <2>3
    <3>2. QED
      BY <2>2, <3>1, Zenon DEF Best
  <2>5. QED
    BY <2>2, <2>4
<1>5. CASE c.owner[q] # 0 /\ ~b.free /\ c.prior[q] > b.age
  <2>1. Older(c, b, q) = [reg |-> q, free |-> FALSE, age |-> c.prior[q] + 1]
    BY <1>5 DEF Older
  <2>2. \A r \in FirstTemp .. k : r \in Regs
    BY <1>1, RegsAreNumbers DEF Temps
  <2>3. \A r \in FirstTemp .. k : c.owner[r] # 0 /\ c.prior[r] <= c.prior[q] + 1
    BY <1>1, <1>3, <1>5, <2>2 DEF Best
  <2>4. PICK n : /\ n = Older(c, b, q) /\ n.reg = q /\ n.free \in BOOLEAN /\ ~n.free
                 /\ n.age = c.prior[q] + 1
    <3>1. PICK n : n = [reg |-> q, free |-> FALSE, age |-> c.prior[q] + 1]
      OBVIOUS
    <3>2. n.reg = q /\ n.age = c.prior[q] + 1
      BY <3>1
    <3>3. n.free \in BOOLEAN /\ ~n.free
      BY <3>1
    <3>4. QED
      BY <2>1, <3>1, <3>2, <3>3
  <2>5. q \in FirstTemp .. q /\ c.prior[q] > 0 /\ c.prior[q] <= c.prior[q] + 1
    BY <1>1, <1>3, <1>5, RegsAreNumbers
  <2>6. \A r \in FirstTemp .. q : c.owner[r] # 0 /\ c.prior[r] <= n.age
    BY <1>2, <1>5, <2>3, <2>4, <2>5
  <2>7. Best(c, n, q)
    <3>1. /\ n.age \in Nat
          /\ n.reg \in FirstTemp .. q /\ c.prior[n.reg] > 0 /\ n.age = c.prior[n.reg] + 1
      BY <1>1, <2>4, <2>5
    <3>2. QED
      BY <2>4, <2>6, <3>1, Zenon DEF Best
  <2>8. QED
    BY <2>4, <2>7
<1>6. CASE c.owner[q] # 0 /\ (b.free \/ ~(c.prior[q] > b.age))
  <2>1. Older(c, b, q) = b
    BY <1>6 DEF Older
  <2>2. c.prior[q] <= b.age \/ b.free
    BY <1>1, <1>3, <1>6
  <2>3. QED
    BY <1>1, <1>2, <1>6, <2>1, <2>2 DEF Best
<1>7. QED
  BY <1>3, <1>4, <1>5, <1>6

\* genContextGetRegister answers a free register, or one that is at most one
\* younger than the oldest; R00 only when all are new.
LEMMA VictimFound ==
  ASSUME NEW c, c.owner \in [Regs -> Nat], c.prior \in [Regs -> Nat]
  PROVE  LET r == Victim(c)
         IN  \/ r \in Temps /\ c.owner[r] = 0
             \/ /\ \A q \in Temps : c.owner[q] # 0
                /\ \/ r = R00 /\ \A q \in Temps : c.prior[q] = 0
                   \/ /\ r \in Temps /\ c.prior[r] > 0
                      /\ \A q \in Temps : c.prior[q] <= c.prior[r] + 1
<1> USE RegsAreNumbers
<1>1. \E f : Searches(c, f, LastTemp)
  BY SearchExists
<1>2. \E f : Searches(c, f, LastTemp) /\ Victim(c) = f[LastTemp].reg
  BY <1>1, Zenon DEF Searches, Victim, NoneFound
<1>3. PICK f : Searches(c, f, LastTemp) /\ Victim(c) = f[LastTemp].reg
  BY <1>2
<1>4. \A r \in 0 .. LastTemp :
        f[r] = IF r < FirstTemp THEN NoneFound ELSE Older(c, f[r - 1], r)
  BY <1>3 DEF Searches
<1> DEFINE T == {k \in Nat : k \in 0 .. LastTemp /\ ~Best(c, f[k], k)}
<1>5. T = {}
  <2>1. SUFFICES ASSUME T # {} PROVE FALSE
    OBVIOUS
  <2>2. PICK m \in T : \A y \in T : ~ (<<y, m>> \in OpToRel(<, Nat))
    <3>1. IsWellFoundedOn(OpToRel(<, Nat), Nat)
      BY NatLessThanWellFounded
    <3>2. T \subseteq Nat
      OBVIOUS
    <3>3. QED
      BY <2>1, <3>1, <3>2, WFMin
  <2>3. m \in 0 .. LastTemp /\ m \in Nat /\ ~Best(c, f[m], m)
    OBVIOUS
  <2>4. CASE m < FirstTemp
    <3>1. f[m] = NoneFound
      BY <1>4, <2>3, <2>4
    <3>2. FirstTemp .. m = {}
      BY <2>3, <2>4
    <3>3. Best(c, NoneFound, m)
      BY <3>2 DEF Best, NoneFound
    <3>4. QED
      BY <2>3, <3>1, <3>3
  <2>5. CASE ~(m < FirstTemp)
    <3>1. PICK k \in Nat : m = k + 1 /\ k = m - 1 /\ k < m /\ k \in 0 .. LastTemp
      <4>1. m - 1 \in Nat /\ m = (m - 1) + 1 /\ m - 1 < m /\ m - 1 \in 0 .. LastTemp
        BY <2>3, <2>5
      <4>2. QED
        BY <4>1
    <3>2. k \notin T
      BY <2>2, <2>3, <3>1 DEF OpToRel
    <3>3. Best(c, f[k], k)
      BY <3>1, <3>2
    <3>4. f[m] = Older(c, f[k], m)
      BY <1>4, <2>3, <2>5, <3>1
    <3>5. k + 1 \in Temps
      BY <2>3, <2>5, <3>1 DEF Temps
    <3>6. Best(c, Older(c, f[k], k + 1), k + 1)
      BY <3>3, <3>5, OlderKeepsBest
    <3>7. QED
      BY <2>3, <3>1, <3>4, <3>6
  <2>6. QED
    BY <2>4, <2>5
<1>6. Best(c, f[LastTemp], LastTemp)
  BY <1>5
<1>7. QED
  <2>1. PICK b : b = f[LastTemp]
    OBVIOUS
  <2>2. Best(c, b, LastTemp) /\ Victim(c) = b.reg
    BY <1>3, <1>6, <2>1
  <2>3. \A q \in Temps : q \in FirstTemp .. LastTemp /\ c.prior[q] \in Nat
    BY DEF Temps
  <2>4. CASE b.free
    BY <2>2, <2>4 DEF Best, Temps
  <2>5. CASE ~b.free
    BY <2>2, <2>3, <2>5 DEF Best, Temps
  <2>6. QED
    BY <2>2, <2>4, <2>5 DEF Best

-----------------------------------------------------------------------------
(* A call of genValueLoad. *)

LEMMA ContextFields ==
  ASSUME NEW c \in Context
  PROVE  /\ c.vals \in Seq(ValType) /\ Len(c.vals) \in Nat /\ DOMAIN c.vals = 1 .. Len(c.vals)
         /\ c.owner \in [Regs -> Nat] /\ c.prior \in [Regs -> Nat] /\ c.held \in [Regs -> Nat]
         /\ \A v \in DOMAIN c.vals :
              /\ c.vals[v] \in ValType
              /\ c.vals[v].where \in {"none", "reg", "stack"} /\ c.vals[v].reg \in Regs
              /\ c.vals[v].cell \in Nat
              /\ c.vals[v].decl \in BOOLEAN /\ c.vals[v].done \in BOOLEAN
<1>1. c.vals \in Seq(ValType) /\ c.owner \in [Regs -> Nat]
      /\ c.prior \in [Regs -> Nat] /\ c.held \in [Regs -> Nat]
  BY DEF Context
<1>2. Len(c.vals) \in Nat /\ DOMAIN c.vals = 1 .. Len(c.vals)
  BY <1>1
<1>3. \A v \in DOMAIN c.vals : c.vals[v] \in ValType
  BY <1>1
<1>4. QED
  BY <1>1, <1>2, <1>3 DEF ValType

\* A sequence of values after one of them changed.
LEMMA OneChanged ==
  ASSUME NEW s \in Seq(ValType), NEW u \in DOMAIN s, NEW x \in ValType
  PROVE  /\ [s EXCEPT ![u] = x] \in Seq(ValType)
         /\ Len([s EXCEPT ![u] = x]) = Len(s) /\ DOMAIN [s EXCEPT ![u] = x] = DOMAIN s
         /\ [s EXCEPT ![u] = x][u] = x
         /\ \A w \in DOMAIN s : w # u => [s EXCEPT ![u] = x][w] = s[w]
  OBVIOUS

\* What a spill writes is the content of the owner, or of no value.
LEMMA LowBytesType ==
  ASSUME NEW c \in Context, NEW r \in Regs
  PROVE  /\ LowBytes(c, r) \in Nat
         /\ LowBytes(c, r) = 0 \/ LowBytes(c, r) = c.owner[r]
  BY ContextFields DEF LowBytes

\* s is c after register r, which holds u, was spilled.
Spilled(c, r, u, s) ==
  /\ s \in Context
  /\ s.owner = [c.owner EXCEPT ![r] = 0]
  /\ s.prior = c.prior /\ s.held = c.held
  /\ DOMAIN s.vals = DOMAIN c.vals /\ Len(s.vals) = Len(c.vals)
  /\ \A w \in DOMAIN c.vals : w # u => s.vals[w] = c.vals[w]
  /\ s.vals[u] = [c.vals[u] EXCEPT !.cell = LowBytes(c, r), !.where = "stack"]

LEMMA SpillStep ==
  ASSUME NEW c \in Context, NEW r \in Regs, NEW u \in DOMAIN c.vals, c.owner[r] = u
  PROVE  Spilled(c, r, u, Spill(c, r))
<1>1. /\ c.vals \in Seq(ValType) /\ c.vals[u] \in ValType /\ c.owner \in [Regs -> Nat]
      /\ c.prior \in [Regs -> Nat] /\ c.held \in [Regs -> Nat] /\ LowBytes(c, r) \in Nat
  BY ContextFields, LowBytesType
<1>2. PICK x : x = [c.vals[u] EXCEPT !.cell = LowBytes(c, r), !.where = "stack"]
  OBVIOUS
<1>3. x \in ValType
  BY <1>1, <1>2 DEF ValType
<1>4. PICK s : s = [c.vals EXCEPT ![u] = x]
  OBVIOUS
<1>5. /\ s \in Seq(ValType) /\ Len(s) = Len(c.vals) /\ DOMAIN s = DOMAIN c.vals /\ s[u] = x
      /\ \A w \in DOMAIN c.vals : w # u => s[w] = c.vals[w]
  BY <1>1, <1>3, <1>4, OneChanged
<1>6. PICK o : o = [c.owner EXCEPT ![r] = 0]
  OBVIOUS
<1>7. o \in [Regs -> Nat]
  BY <1>1, <1>6
<1>8. Spill(c, r) = [c EXCEPT !.vals = s, !.owner = o]
  <2>1. PICK e : e = [c EXCEPT !.vals[u].cell = LowBytes(c, r)]
    OBVIOUS
  <2>2. Spill(c, r) = [e EXCEPT !.vals[u].where = "stack", !.owner[r] = 0]
    BY <2>1 DEF Spill, Str
  <2>3. e \in [vals : Seq(ValType), owner : [Regs -> Nat], prior : [Regs -> Nat],
               held : [Regs -> Nat]]
    <3>1. [c.vals[u] EXCEPT !.cell = LowBytes(c, r)] \in ValType
      BY <1>1 DEF ValType
    <3>2. [c.vals EXCEPT ![u] = [c.vals[u] EXCEPT !.cell = LowBytes(c, r)]] \in Seq(ValType)
      BY <1>1, <3>1, OneChanged
    <3>3. e = [c EXCEPT !.vals = [c.vals EXCEPT ![u] = [c.vals[u] EXCEPT !.cell = LowBytes(c, r)]]]
      BY <2>1
    <3>4. QED
      BY <3>2, <3>3 DEF Context
  <2>4. e.vals = [c.vals EXCEPT ![u] = [c.vals[u] EXCEPT !.cell = LowBytes(c, r)]] /\ e.owner = c.owner
    BY <2>1 DEF Context
  <2>5. e.vals[u] = [c.vals[u] EXCEPT !.cell = LowBytes(c, r)]
    BY <2>4
  <2>6. [e.vals[u] EXCEPT !.where = "stack"] = x
    BY <1>1, <1>2, <2>5 DEF ValType
  <2>7. [e.vals EXCEPT ![u] = x] = s
    BY <1>1, <1>4, <2>4
  <2>8. [e EXCEPT !.vals[u].where = "stack", !.owner[r] = 0] = [e EXCEPT !.vals = s, !.owner = o]
    BY <1>6, <2>3, <2>4, <2>6, <2>7
  <2>9. [e EXCEPT !.vals = s, !.owner = o] = [c EXCEPT !.vals = s, !.owner = o]
    BY <2>1 DEF Context
  <2>10. QED
    BY <2>2, <2>8, <2>9
<1>9. PICK t : t = Spill(c, r)
  OBVIOUS
<1>10. t \in Context /\ t.vals = s /\ t.owner = o /\ t.prior = c.prior /\ t.held = c.held
  BY <1>1, <1>5, <1>7, <1>8, <1>9 DEF Context
<1>11. Spilled(c, r, u, t)
  BY <1>2, <1>5, <1>6, <1>10 DEF Spilled
<1>12. QED
  BY <1>9, <1>11

\* v goes into register r, whose value until now goes to the stack.
Took(c, v, r, d) ==
  /\ d \in Context /\ Len(d.vals) = Len(c.vals) /\ DOMAIN d.vals = DOMAIN c.vals
  /\ d.owner = [c.owner EXCEPT ![r] = v]
  /\ d.prior = Aged(c, r)
  /\ d.held = IF c.vals[v].where = "stack" THEN [c.held EXCEPT ![r] = c.vals[v].cell] ELSE c.held
  /\ d.vals[v] = [c.vals[v] EXCEPT !.cell = 0, !.where = "reg", !.reg = r]
  /\ \A w \in DOMAIN c.vals \ {v} :
       d.vals[w] = IF w = c.owner[r]
                   THEN [c.vals[w] EXCEPT !.cell = LowBytes(c, r), !.where = "stack"] ELSE c.vals[w]

LEMMA AgedType ==
  ASSUME NEW c \in Context, NEW r \in Regs
  PROVE  /\ Aged(c, r) \in [Regs -> Nat] /\ Aged(c, r)[r] = 0
         /\ \A q \in Temps : q # r /\ c.owner[q] # 0 => Aged(c, r)[q] = c.prior[q] + 1
         /\ \A q \in Temps : Aged(c, r)[q] <= c.prior[q] + 1
<1>1. c.prior \in [Regs -> Nat]
  BY ContextFields
<1>2. \A q \in Regs : Aged(c, r)[q] \in Nat /\ Aged(c, r)[q] <= c.prior[q] + 1
  BY <1>1 DEF Aged
<1>3. QED
  BY <1>1, <1>2, RegsAreNumbers DEF Aged

\* genContextGetRegister in front of a load: g.reg is free in g.then.
Got(c, r, g) ==
  /\ g.reg = r /\ g.then \in Context
  /\ g.then.prior = Aged(c, r) /\ g.then.held = c.held
  /\ g.then.owner = [c.owner EXCEPT ![r] = 0]
  /\ DOMAIN g.then.vals = DOMAIN c.vals /\ Len(g.then.vals) = Len(c.vals)
  /\ \A w \in DOMAIN c.vals :
       g.then.vals[w] = IF w = c.owner[r]
                        THEN [c.vals[w] EXCEPT !.cell = LowBytes(c, r), !.where = "stack"]
                        ELSE c.vals[w]

LEMMA GetRegisterStep ==
  ASSUME NEW c \in Context, Sound(c), NEW r \in Regs, r = Victim(c)
  PROVE  Got(c, r, GetRegister(c))
<1>1. PICK e : e = IF c.owner[r] = 0 THEN c ELSE Spill(c, r)
  OBVIOUS
<1>2. PICK d : d = [e EXCEPT !.prior = Aged(c, r)]
  OBVIOUS
<1>3. GetRegister(c) = [reg |-> r, then |-> d]
  BY <1>1, <1>2 DEF GetRegister
<1>4. /\ DOMAIN c.vals = 1 .. Len(c.vals) /\ Len(c.vals) \in Nat /\ c.owner \in [Regs -> Nat]
      /\ c.owner[r] \in Nat /\ c.owner[r] <= Len(c.vals)
  BY ContextFields DEF Sound
<1>5. /\ e \in Context /\ e.held = c.held /\ e.owner = [c.owner EXCEPT ![r] = 0]
      /\ DOMAIN e.vals = DOMAIN c.vals /\ Len(e.vals) = Len(c.vals)
      /\ \A w \in DOMAIN c.vals :
           e.vals[w] = IF w = c.owner[r]
                       THEN [c.vals[w] EXCEPT !.cell = LowBytes(c, r), !.where = "stack"]
                       ELSE c.vals[w]
  <2>1. CASE c.owner[r] = 0
    <3>1. \A w \in DOMAIN c.vals : w # c.owner[r]
      BY <1>4, <2>1
    <3>2. QED
      BY <1>1, <1>4, <2>1, <3>1
  <2>2. CASE c.owner[r] # 0
    <3>1. PICK u \in DOMAIN c.vals : c.owner[r] = u
      BY <1>4, <2>2
    <3>2. e = Spill(c, r)
      BY <1>1, <2>2
    <3>3. Spilled(c, r, u, e)
      BY <3>1, <3>2, SpillStep
    <3>4. QED
      BY <3>1, <3>3 DEF Spilled
  <2>3. QED
    BY <2>1, <2>2
<1>6. Aged(c, r) \in [Regs -> Nat]
  BY AgedType
<1>7. /\ d \in Context /\ d.prior = Aged(c, r)
      /\ d.vals = e.vals /\ d.owner = e.owner /\ d.held = e.held
  BY <1>2, <1>5, <1>6 DEF Context
<1>8. PICK g : g = GetRegister(c)
  OBVIOUS
<1>9. g.reg = r /\ g.then = d
  BY <1>3, <1>8
<1>10. Got(c, r, g)
  BY <1>5, <1>7, <1>9 DEF Got
<1>11. QED
  BY <1>8, <1>10

LEMMA LoadTakes ==
  ASSUME NEW c \in Context, Sound(c), NEW v \in DOMAIN c.vals, ~InReg(c, v),
         NEW r \in Regs, r = Victim(c)
  PROVE  Took(c, v, r, Load(c, v))
<1>1. PICK g : g = GetRegister(c)
  OBVIOUS
<1>2. PICK e : e = g.then
  OBVIOUS
<1>3. /\ g.reg = r /\ e \in Context /\ e.prior = Aged(c, r) /\ e.held = c.held
      /\ e.owner = [c.owner EXCEPT ![r] = 0]
      /\ DOMAIN e.vals = DOMAIN c.vals /\ Len(e.vals) = Len(c.vals)
      /\ \A w \in DOMAIN c.vals :
           e.vals[w] = IF w = c.owner[r]
                       THEN [c.vals[w] EXCEPT !.cell = LowBytes(c, r), !.where = "stack"]
                       ELSE c.vals[w]
  <2>1. Got(c, r, g)
    BY <1>1, GetRegisterStep
  <2>2. QED
    BY <1>2, <2>1 DEF Got
<1>4. v # c.owner[r] /\ v \in Nat
  BY ContextFields DEF Sound, InReg
<1>5. e.vals[v] = c.vals[v] /\ c.vals[v].cell \in Nat /\ c.vals[v] \in ValType
  BY <1>3, <1>4, ContextFields
<1>6. PICK h : h = IF c.vals[v].where = "stack" THEN [c.held EXCEPT ![r] = c.vals[v].cell] ELSE c.held
  OBVIOUS
<1>7. h \in [Regs -> Nat]
  BY <1>5, <1>6, ContextFields
<1>8. PICK l : l = [e EXCEPT !.held = h]
  OBVIOUS
<1>9. l = IF c.vals[v].where = "stack" THEN Ldr(e, v, r) ELSE e
  BY ZenonT(30), <1>3, <1>5, <1>6, <1>8 DEF Ldr, Context
<1>10. /\ l \in Context /\ l.held = h /\ l.vals = e.vals /\ l.owner = e.owner /\ l.prior = e.prior
  BY <1>3, <1>7, <1>8 DEF Context
<1>11. Load(c, v) = [l EXCEPT !.owner[r] = v, !.vals[v].cell = 0,
                             !.vals[v].where = "reg", !.vals[v].reg = r]
  BY <1>1, <1>2, <1>3, <1>9 DEF Load, InReg
<1>12. PICK x : x = [c.vals[v] EXCEPT !.cell = 0, !.where = "reg", !.reg = r]
  OBVIOUS
<1>13. x \in ValType
  BY <1>5, <1>12 DEF ValType
<1>14. PICK s : s = [l.vals EXCEPT ![v] = x]
  OBVIOUS
<1>15. /\ s \in Seq(ValType) /\ Len(s) = Len(l.vals) /\ DOMAIN s = DOMAIN l.vals /\ s[v] = x
       /\ \A w \in DOMAIN l.vals : w # v => s[w] = l.vals[w]
  <2>1. l.vals \in Seq(ValType) /\ v \in DOMAIN l.vals
    BY <1>3, <1>10, ContextFields
  <2>2. QED
    BY <1>13, <1>14, <2>1, OneChanged
<1>16. PICK o : o = [l.owner EXCEPT ![r] = v]
  OBVIOUS
<1>17. o \in [Regs -> Nat] /\ o = [c.owner EXCEPT ![r] = v]
  <2>1. c.owner \in [Regs -> Nat]
    BY ContextFields
  <2>2. QED
    BY ZenonT(30), <1>3, <1>4, <1>10, <1>16, <2>1
<1>18. PICK d : d = [l EXCEPT !.owner = o, !.vals = s]
  OBVIOUS
<1>19. d \in Context /\ d.vals = s /\ d.owner = o /\ d.held = h /\ d.prior = Aged(c, r)
  BY <1>3, <1>10, <1>15, <1>17, <1>18 DEF Context
<1>20. Load(c, v) = d
  <2>1. l.vals[v] = c.vals[v]
    BY <1>3, <1>5, <1>10
  <2>2. [l EXCEPT !.owner[r] = v, !.vals[v].cell = 0, !.vals[v].where = "reg", !.vals[v].reg = r]
          = [l EXCEPT !.owner = o, !.vals = s]
    <3>1. PICK p1 : p1 = [l EXCEPT !.owner[r] = v]
      OBVIOUS
    <3>2. p1 = [l EXCEPT !.owner = o] /\ p1 \in Context /\ p1.vals = l.vals
      BY <1>10, <1>16, <1>17, <3>1 DEF Context
    <3>3. PICK x1 : x1 = [c.vals[v] EXCEPT !.cell = 0]
      OBVIOUS
    <3>4. x1 \in ValType
      BY <1>5, <3>3 DEF ValType
    <3>5. PICK s1 : s1 = [l.vals EXCEPT ![v] = x1]
      OBVIOUS
    <3>6. s1 \in Seq(ValType) /\ s1[v] = x1 /\ DOMAIN s1 = DOMAIN l.vals
      BY <1>3, <1>10, <3>4, <3>5, OneChanged, ContextFields
    <3>7. PICK p2 : p2 = [p1 EXCEPT !.vals = s1]
      OBVIOUS
    <3>8. p2 \in Context /\ p2.vals = s1 /\ p2 = [p1 EXCEPT !.vals[v].cell = 0]
      BY <2>1, <3>2, <3>3, <3>5, <3>6, <3>7 DEF Context
    <3>9. PICK x2 : x2 = [x1 EXCEPT !.where = "reg"]
      OBVIOUS
    <3>10. x2 \in ValType
      BY <3>4, <3>9 DEF ValType
    <3>11. PICK s2 : s2 = [s1 EXCEPT ![v] = x2]
      OBVIOUS
    <3>12. s2 \in Seq(ValType) /\ s2[v] = x2 /\ DOMAIN s2 = DOMAIN l.vals
      BY <1>3, <1>10, <3>6, <3>10, <3>11, OneChanged
    <3>13. PICK p3 : p3 = [p2 EXCEPT !.vals = s2]
      OBVIOUS
    <3>14. p3 \in Context /\ p3.vals = s2 /\ p3 = [p2 EXCEPT !.vals[v].where = "reg"]
      BY <3>6, <3>8, <3>9, <3>11, <3>12, <3>13 DEF Context
    <3>15. [x2 EXCEPT !.reg = r] = x
      BY <1>5, <1>12, <3>3, <3>9 DEF ValType
    <3>16. [s2 EXCEPT ![v] = x] = s
      BY <1>14, <3>5, <3>11
    <3>17. [p3 EXCEPT !.vals[v].reg = r] = [p3 EXCEPT !.vals = s]
      BY <3>12, <3>14, <3>15, <3>16
    <3>18. [p3 EXCEPT !.vals = s] = [l EXCEPT !.owner = o, !.vals = s]
      BY <1>10, <3>2, <3>7, <3>13 DEF Context
    <3>19. QED
      BY <3>1, <3>8, <3>14, <3>17, <3>18
  <2>3. QED
    BY <1>11, <1>18, <2>2
<1>21. /\ Len(d.vals) = Len(c.vals) /\ DOMAIN d.vals = DOMAIN c.vals
       /\ d.vals[v] = [c.vals[v] EXCEPT !.cell = 0, !.where = "reg", !.reg = r]
       /\ \A w \in DOMAIN c.vals \ {v} : d.vals[w] = e.vals[w]
  BY <1>3, <1>10, <1>12, <1>15, <1>19
<1>22. \A w \in DOMAIN c.vals \ {v} :
         d.vals[w] = IF w = c.owner[r]
                     THEN [c.vals[w] EXCEPT !.cell = LowBytes(c, r), !.where = "stack"] ELSE c.vals[w]
  BY <1>3, <1>21
<1>23. Took(c, v, r, d)
  BY <1>6, <1>17, <1>19, <1>21, <1>22 DEF Took
<1>24. QED
  BY <1>20, <1>23

\* A register that may be taken: a free one, or one that is at most one younger
\* than the oldest.
MayTake(c, r) ==
  /\ r \in Temps
  /\ \/ c.owner[r] = 0
     \/ /\ \A q \in Temps : InUse(c, q) /\ c.prior[q] <= c.prior[r] + 1
        /\ c.prior[r] > 0

\* There is a register to take.
Room(c) == \E q \in Temps : ~InUse(c, q) \/ c.prior[q] > 0

LEMMA VictimTaken ==
  ASSUME NEW c \in Context, Room(c)
  PROVE  MayTake(c, Victim(c))
<1>1. c.owner \in [Regs -> Nat] /\ c.prior \in [Regs -> Nat]
  BY ContextFields
<1>2. PICK r : r = Victim(c)
  OBVIOUS
<1>3. \/ r \in Temps /\ c.owner[r] = 0
      \/ /\ \A q \in Temps : c.owner[q] # 0
         /\ \/ r = R00 /\ \A q \in Temps : c.prior[q] = 0
            \/ /\ r \in Temps /\ c.prior[r] > 0
               /\ \A q \in Temps : c.prior[q] <= c.prior[r] + 1
  BY <1>1, <1>2, VictimFound
<1>4. MayTake(c, r)
  BY <1>1, <1>3, RegsAreNumbers DEF MayTake, Room, InUse
<1>5. QED
  BY <1>2, <1>4

\* The registers of d that hold none of the values V were in use in c for the
\* same values, and are at least n older than they were.
Aging(c, V, d, n) ==
  \A q \in Temps : InUse(d, q) /\ d.owner[q] \notin V =>
    d.owner[q] = c.owner[q] /\ d.prior[q] >= c.prior[q] + n

\* A value the load of v puts on the stack: its register was the oldest but for
\* one turn, and all registers were in use.
MayLeave(c, v, w) ==
  LET r == c.vals[w].reg
  IN /\ ~InReg(c, v) /\ c.prior[r] > 0
     /\ \A q \in Temps : InUse(c, q) /\ c.prior[q] <= c.prior[r] + 1

\* What a call of genValueLoad does, seen from outside: v is in a register that
\* is new, and every other value is where it was or on the stack.
Loaded(c, v, d) ==
  /\ Sound(d) /\ Len(d.vals) = Len(c.vals) /\ DOMAIN d.vals = DOMAIN c.vals
  /\ InReg(d, v) /\ d.prior[d.vals[v].reg] = 0
  /\ \A w \in DOMAIN c.vals :
       /\ Holds(c, w) => Holds(d, w)
       /\ d.vals[w].done = c.vals[w].done /\ d.vals[w].decl = c.vals[w].decl
       /\ w # v /\ c.vals[w].where = "none" => d.vals[w].where = "none"
       /\ w # v /\ InReg(c, w) => InReg(d, w) \/ MayLeave(c, v, w)
  /\ InReg(c, v) => d.vals = c.vals
  /\ LET n == IF InReg(c, v) THEN 0 ELSE 1
     IN Aging(c, {v}, d, n) /\ \A q \in Temps : d.prior[q] <= c.prior[q] + n

LEMMA TookFields ==
  ASSUME NEW c \in Context, Sound(c), NEW v \in DOMAIN c.vals, ~InReg(c, v),
         NEW r \in Temps, NEW d, Took(c, v, r, d)
  PROVE  /\ d \in Context /\ Len(d.vals) = Len(c.vals) /\ DOMAIN d.vals = DOMAIN c.vals
         /\ d.owner[r] = v /\ d.prior[r] = 0
         /\ d.held[r] = IF c.vals[v].where = "stack" THEN c.vals[v].cell ELSE c.held[r]
         /\ \A q \in Regs \ {r} : d.owner[q] = c.owner[q] /\ d.held[q] = c.held[q]
         /\ \A q \in Temps \ {r} : c.owner[q] # 0 => d.prior[q] = c.prior[q] + 1
         /\ \A q \in Temps : d.prior[q] <= c.prior[q] + 1
         /\ InReg(d, v) /\ d.vals[v].reg = r /\ d.vals[v].cell = 0
         /\ d.vals[v].done = c.vals[v].done /\ d.vals[v].decl = c.vals[v].decl
         /\ \A w \in DOMAIN c.vals \ {v} :
              /\ w # c.owner[r] => d.vals[w] = c.vals[w]
              /\ w = c.owner[r] => /\ d.vals[w].cell = LowBytes(c, r) /\ d.vals[w].where = "stack"
                                   /\ d.vals[w].reg = c.vals[w].reg
                                   /\ d.vals[w].done = c.vals[w].done
                                   /\ d.vals[w].decl = c.vals[w].decl
<1>1. /\ d \in Context /\ Len(d.vals) = Len(c.vals) /\ DOMAIN d.vals = DOMAIN c.vals
      /\ d.owner = [c.owner EXCEPT ![r] = v] /\ d.prior = Aged(c, r)
      /\ d.held = IF c.vals[v].where = "stack" THEN [c.held EXCEPT ![r] = c.vals[v].cell] ELSE c.held
      /\ d.vals[v] = [c.vals[v] EXCEPT !.cell = 0, !.where = "reg", !.reg = r]
      /\ \A w \in DOMAIN c.vals \ {v} :
           d.vals[w] = IF w = c.owner[r]
                       THEN [c.vals[w] EXCEPT !.cell = LowBytes(c, r), !.where = "stack"] ELSE c.vals[w]
  BY DEF Took
<1>2. /\ c.owner \in [Regs -> Nat] /\ c.held \in [Regs -> Nat] /\ r \in Regs
      /\ \A w \in DOMAIN c.vals : c.vals[w] \in ValType
  BY ContextFields, RegsAreNumbers
<1>3. /\ d.owner[r] = v
      /\ d.held[r] = IF c.vals[v].where = "stack" THEN c.vals[v].cell ELSE c.held[r]
      /\ \A q \in Regs \ {r} : d.owner[q] = c.owner[q] /\ d.held[q] = c.held[q]
  BY <1>1, <1>2
<1>4. /\ d.prior[r] = 0
      /\ \A q \in Temps \ {r} : c.owner[q] # 0 => d.prior[q] = c.prior[q] + 1
      /\ \A q \in Temps : d.prior[q] <= c.prior[q] + 1
  <2>1. PICK a : a = Aged(c, r)
    OBVIOUS
  <2>2. /\ a[r] = 0 /\ \A q \in Temps : q # r /\ c.owner[q] # 0 => a[q] = c.prior[q] + 1
        /\ \A q \in Temps : a[q] <= c.prior[q] + 1
    BY <1>2, <2>1, AgedType
  <2>3. d.prior = a
    BY <1>1, <2>1
  <2>4. QED
    BY <2>2, <2>3
<1>5. /\ InReg(d, v) /\ d.vals[v].reg = r /\ d.vals[v].cell = 0
      /\ d.vals[v].done = c.vals[v].done /\ d.vals[v].decl = c.vals[v].decl
  BY <1>1, <1>2 DEF ValType, InReg
<1>6. ASSUME NEW w \in DOMAIN c.vals \ {v}
      PROVE  /\ w # c.owner[r] => d.vals[w] = c.vals[w]
             /\ w = c.owner[r] => /\ d.vals[w].cell = LowBytes(c, r) /\ d.vals[w].where = "stack"
                                  /\ d.vals[w].reg = c.vals[w].reg
                                  /\ d.vals[w].done = c.vals[w].done
                                  /\ d.vals[w].decl = c.vals[w].decl
  <2>1. PICK x : x = c.vals[w]
    OBVIOUS
  <2>2. x \in ValType /\ d.vals[w] = IF w = c.owner[r]
                       THEN [x EXCEPT !.cell = LowBytes(c, r), !.where = "stack"] ELSE x
    BY <1>1, <1>2, <2>1
  <2>3. PICK y : y = [x EXCEPT !.cell = LowBytes(c, r), !.where = "stack"]
    OBVIOUS
  <2>4. /\ y.cell = LowBytes(c, r) /\ y.where = "stack"
        /\ y.reg = x.reg /\ y.done = x.done /\ y.decl = x.decl
    BY <2>2, <2>3 DEF ValType
  <2>5. QED
    BY <2>1, <2>2, <2>3, <2>4
<1>7. QED
  BY <1>1, <1>3, <1>4, <1>5, <1>6

LEMMA TookSound ==
  ASSUME NEW c \in Context, Sound(c), NEW v \in DOMAIN c.vals, ~InReg(c, v),
         NEW r \in Temps, NEW d, Took(c, v, r, d)
  PROVE  Sound(d)
<1> USE RegsAreNumbers
<1>1. /\ d \in Context /\ Len(d.vals) = Len(c.vals) /\ DOMAIN d.vals = DOMAIN c.vals
      /\ d.owner[r] = v
      /\ d.held[r] = IF c.vals[v].where = "stack" THEN c.vals[v].cell ELSE c.held[r]
      /\ \A q \in Regs \ {r} : d.owner[q] = c.owner[q] /\ d.held[q] = c.held[q]
      /\ d.vals[v].where = "reg" /\ d.vals[v].reg = r /\ d.vals[v].cell = 0
  BY TookFields DEF InReg
<1>2. \A w \in DOMAIN c.vals \ {v} :
              /\ w # c.owner[r] => d.vals[w] = c.vals[w]
              /\ w = c.owner[r] => d.vals[w].where = "stack" /\ d.vals[w].cell = LowBytes(c, r)
  BY TookFields
<1>3. Len(c.vals) \in Nat /\ DOMAIN c.vals = 1 .. Len(c.vals)
  BY ContextFields
<1>4. /\ \A q \in Regs : c.owner[q] <= Len(c.vals) /\ c.held[q] <= Len(c.vals)
      /\ \A w \in DOMAIN c.vals :
           /\ c.vals[w].where = "reg" => c.vals[w].reg \in Temps
           /\ c.vals[w].cell <= Len(c.vals) /\ (c.vals[w].where # "stack" => c.vals[w].cell = 0)
      /\ \A q \in Regs, w \in DOMAIN c.vals :
           c.owner[q] = w <=> c.vals[w].where = "reg" /\ c.vals[w].reg = q
  BY Zenon DEF Sound
<1>5. v <= Len(c.vals) /\ r \in Regs /\ c.vals[v].where # "reg"
  BY <1>3 DEF InReg
<1>6. \A q \in Regs : d.owner[q] <= Len(c.vals) /\ d.held[q] <= Len(c.vals)
  BY <1>1, <1>4, <1>5
<1>7. \A w \in DOMAIN c.vals :
        /\ d.vals[w].where = "reg" => d.vals[w].reg \in Temps
        /\ d.vals[w].cell <= Len(c.vals) /\ (d.vals[w].where # "stack" => d.vals[w].cell = 0)
  <2>1. 0 <= Len(c.vals)
    BY <1>3
  <2>3. LowBytes(c, r) <= Len(c.vals)
    <3>1. LowBytes(c, r) = 0 \/ LowBytes(c, r) = c.owner[r]
      BY <1>5, LowBytesType
    <3>2. QED
      BY <1>4, <1>5, <2>1, <3>1
  <2>2. QED
    BY <1>1, <1>2, <1>4, <1>5, <2>1, <2>3
<1>8. ASSUME NEW q \in Regs, NEW w \in DOMAIN c.vals
      PROVE  d.owner[q] = w <=> d.vals[w].where = "reg" /\ d.vals[w].reg = q
  <2>1. CASE w = v
    <3>1. q # r => c.owner[q] # v
      BY <1>4, <1>5
    <3>2. QED
      BY <1>1, <2>1, <3>1
  <2>2. CASE w # v /\ w = c.owner[r]
    <3>1. q # r => c.owner[q] # w
      BY <1>4, <1>5, <2>2
    <3>2. QED
      BY <1>1, <1>2, <2>2, <3>1
  <2>3. CASE w # v /\ w # c.owner[r]
    <3>1. d.vals[w] = c.vals[w]
      BY <1>2, <2>3
    <3>2. q = r => c.owner[q] # w /\ d.owner[q] # w
      BY <1>1, <2>3
    <3>3. q # r => d.owner[q] = c.owner[q]
      BY <1>1
    <3>4. c.owner[q] = w <=> c.vals[w].where = "reg" /\ c.vals[w].reg = q
      BY <1>4
    <3>5. QED
      BY <3>1, <3>2, <3>3, <3>4
  <2>4. QED
    BY <2>1, <2>2, <2>3
<1>9. QED
  BY <1>1, <1>6, <1>7, <1>8 DEF Sound

LEMMA TouchLoads ==
  ASSUME NEW c \in Context, Sound(c), NEW v \in DOMAIN c.vals, InReg(c, v)
  PROVE  Loaded(c, v, Load(c, v))
<1>1. PICK r \in Temps : r = c.vals[v].reg
  BY DEF Sound, InReg
<1>2. PICK a : a = Touched(c, r)
  OBVIOUS
<1>3. r \in Regs /\ c.prior \in [Regs -> Nat]
  BY ContextFields, RegsAreNumbers
<1>4. a \in [Regs -> Nat] /\ a[r] = 0 /\ \A q \in Regs \ {r} : a[q] = c.prior[q]
  BY <1>2, <1>3 DEF Touched
<1>5. PICK d : d = [c EXCEPT !.prior = a]
  OBVIOUS
<1>6. Load(c, v) = d
  BY <1>1, <1>2, <1>5 DEF Load, InReg
<1>7. d \in Context /\ d.vals = c.vals /\ d.owner = c.owner /\ d.held = c.held /\ d.prior = a
  BY <1>4, <1>5 DEF Context
<1>8. Sound(d)
  BY <1>7 DEF Sound
<1>9. Aging(c, {v}, d, 0)
  <2>1. SUFFICES ASSUME NEW q \in Temps, InUse(d, q), d.owner[q] \notin {v}
                 PROVE  d.owner[q] = c.owner[q] /\ d.prior[q] >= c.prior[q] + 0
    BY DEF Aging
  <2>2. q # r
    BY <1>1, <1>3, <1>7, <2>1 DEF Sound, InReg
  <2>3. q \in Regs
    BY RegsAreNumbers
  <2>4. QED
    BY <1>3, <1>4, <1>7, <2>2, <2>3
<1>10. /\ \A w \in DOMAIN c.vals : Holds(c, w) => Holds(d, w)
       /\ \A w \in DOMAIN c.vals : InReg(c, w) => InReg(d, w)
       /\ InReg(d, v) /\ d.prior[d.vals[v].reg] = 0
  BY <1>1, <1>4, <1>7 DEF Holds, InReg
<1>11. \A q \in Temps : d.prior[q] <= c.prior[q] + 0
  <2>1. \A q \in Temps : q \in Regs /\ c.prior[q] \in Nat
    BY <1>3, RegsAreNumbers
  <2>2. QED
    BY <1>3, <1>4, <1>7, <2>1
<1>12. Loaded(c, v, d)
  BY <1>7, <1>8, <1>9, <1>10, <1>11 DEF Loaded
<1>13. QED
  BY <1>6, <1>12

LEMMA SearchLoads ==
  ASSUME NEW c \in Context, Sound(c), NEW v \in DOMAIN c.vals, ~InReg(c, v), Room(c)
  PROVE  Loaded(c, v, Load(c, v))
<1>1. PICK r \in Temps : r = Victim(c) /\ MayTake(c, r)
  BY VictimTaken DEF MayTake
<1>2. PICK d : d = Load(c, v)
  OBVIOUS
<1>3. r \in Regs
  BY RegsAreNumbers
<1>4. Took(c, v, r, d)
  BY <1>1, <1>2, <1>3, LoadTakes
<1>5. Sound(d)
  BY <1>4, TookSound
<1>6. /\ Len(d.vals) = Len(c.vals) /\ DOMAIN d.vals = DOMAIN c.vals
      /\ d.owner[r] = v /\ d.prior[r] = 0
      /\ d.held[r] = IF c.vals[v].where = "stack" THEN c.vals[v].cell ELSE c.held[r]
      /\ \A q \in Regs \ {r} : d.owner[q] = c.owner[q] /\ d.held[q] = c.held[q]
      /\ \A q \in Temps \ {r} : c.owner[q] # 0 => d.prior[q] = c.prior[q] + 1
      /\ \A q \in Temps : d.prior[q] <= c.prior[q] + 1
      /\ d.vals[v].where = "reg" /\ d.vals[v].reg = r
      /\ d.vals[v].done = c.vals[v].done /\ d.vals[v].decl = c.vals[v].decl
  BY <1>4, TookFields DEF InReg
<1>7. \A w \in DOMAIN c.vals \ {v} :
              /\ w # c.owner[r] => d.vals[w] = c.vals[w]
              /\ w = c.owner[r] => /\ d.vals[w].cell = LowBytes(c, r) /\ d.vals[w].where = "stack"
                                   /\ d.vals[w].done = c.vals[w].done
                                   /\ d.vals[w].decl = c.vals[w].decl
  BY <1>4, TookFields
<1>8. \A q \in Regs, w \in DOMAIN c.vals :
           c.owner[q] = w <=> c.vals[w].where = "reg" /\ c.vals[w].reg = q
  BY Zenon DEF Sound
<1>9. Aging(c, {v}, d, 1)
  <2>1. SUFFICES ASSUME NEW q \in Temps, InUse(d, q), d.owner[q] \notin {v}
                 PROVE  d.owner[q] = c.owner[q] /\ d.prior[q] >= c.prior[q] + 1
    BY DEF Aging
  <2>2. q # r /\ q \in Regs
    BY <1>6, <2>1, RegsAreNumbers
  <2>3. d.owner[q] = c.owner[q] /\ d.prior[q] = c.prior[q] + 1
    BY <1>6, <2>1, <2>2 DEF InUse
  <2>4. c.prior[q] \in Nat
    BY <2>2, ContextFields
  <2>5. QED
    BY <2>3, <2>4
<1>10. ASSUME NEW w \in DOMAIN c.vals
       PROVE  /\ Holds(c, w) => Holds(d, w)
              /\ d.vals[w].done = c.vals[w].done /\ d.vals[w].decl = c.vals[w].decl
              /\ w # v /\ c.vals[w].where = "none" => d.vals[w].where = "none"
              /\ w # v /\ InReg(c, w) => InReg(d, w) \/ MayLeave(c, v, w)
  <2>1. CASE w = v
    BY <1>6, <2>1 DEF Holds, InReg
  <2>2. CASE w # v /\ w # c.owner[r]
    <3>1. d.vals[w] = c.vals[w]
      BY <1>7, <2>2
    <3>2. c.vals[w].where = "reg" => c.vals[w].reg \in Regs \ {r}
      BY <1>3, <1>8, <2>2, RegsAreNumbers DEF Sound
    <3>3. QED
      BY <1>6, <2>2, <3>1, <3>2 DEF Holds, InReg
  <2>3. CASE w # v /\ w = c.owner[r]
    <3>1. c.vals[w].where = "reg" /\ c.vals[w].reg = r
      BY <1>3, <1>8, <2>3
    <3>2. c.owner[r] # 0
      BY <2>3, ContextFields
    <3>3. MayLeave(c, v, w)
      BY <1>1, <3>1, <3>2 DEF MayLeave, MayTake
    <3>4. Holds(c, w) => d.vals[w].where = "stack" /\ d.vals[w].cell = w
      BY <1>7, <2>3, <3>1 DEF Holds, LowBytes
    <3>5. QED
      BY <1>7, <2>3, <3>1, <3>3, <3>4 DEF Holds
  <2>4. QED
    BY <2>1, <2>2, <2>3
<1>11. InReg(d, v) /\ d.prior[d.vals[v].reg] = 0
  BY <1>6 DEF InReg
<1>12. Loaded(c, v, d)
  BY <1>5, <1>6, <1>9, <1>10, <1>11 DEF Loaded
<1>13. QED
  BY <1>2, <1>12

\* A call of genValueLoad with a register to take does what it promises.
LEMMA LoadStep ==
  ASSUME NEW c, Sound(c), NEW v \in DOMAIN c.vals, InReg(c, v) \/ Room(c)
  PROVE  Loaded(c, v, Load(c, v))
<1>1. c \in Context
  BY DEF Sound
<1>2. QED
  BY <1>1, TouchLoads, SearchLoads

-----------------------------------------------------------------------------
(* The ages of the registers. *)

\* The registers in use that are aged at most n belong to the values V.
Within(c, V, n) == \A q \in Temps : InUse(c, q) /\ c.prior[q] <= n => c.owner[q] \in V

\* At most so many registers are new.
TwoNew(c)  == \E a, b : Within(c, {a, b}, 0)
FourNew(c) == \E a, b, u, v : Within(c, {a, b, u, v}, 0)
FiveNew(c) == \E a, b, u, v, w : Within(c, {a, b, u, v, w}, 0)

LEMMA FewNew ==
  ASSUME NEW c
  PROVE  /\ \A a, b, u, v, w : Within(c, {a, b, u, v, w}, 0) => FiveNew(c)
         /\ \A a, b, u, v : Within(c, {a, b, u, v}, 0) => FourNew(c)
         /\ FourNew(c) => FiveNew(c)
         /\ TwoNew(c) => FourNew(c)
<1>1. /\ \A a, b, u, v, w : Within(c, {a, b, u, v, w}, 0) => FiveNew(c)
      /\ \A a, b, u, v : Within(c, {a, b, u, v}, 0) => FourNew(c)
  BY Zenon DEF FiveNew, FourNew
<1>2. ASSUME FourNew(c) PROVE FiveNew(c)
  <2>1. PICK a, b, u, v : Within(c, {a, b, u, v}, 0)
    BY <1>2 DEF FourNew
  <2>2. {a, b, u, v} = {a, b, u, v, v}
    OBVIOUS
  <2>3. QED
    BY <1>1, <2>1, <2>2
<1>3. ASSUME TwoNew(c) PROVE FourNew(c)
  <2>1. PICK a, b : Within(c, {a, b}, 0)
    BY <1>3 DEF TwoNew
  <2>2. {a, b} = {a, b, b, b}
    OBVIOUS
  <2>3. QED
    BY <1>1, <2>1, <2>2
<1>4. QED
  BY <1>1, <1>2, <1>3

\* Five values do not fill the registers.
LEMMA SixOwners ==
  ASSUME NEW c, Sound(c), NEW a, NEW b, NEW u, NEW v, NEW w
  PROVE  \E q \in Temps : ~InUse(c, q) \/ c.owner[q] \notin {a, b, u, v, w}
<1>1. SUFFICES ASSUME \A q \in Temps : InUse(c, q) /\ c.owner[q] \in {a, b, u, v, w} PROVE FALSE
  OBVIOUS
<1> DEFINE r(i) == FirstTemp + i
<1>2. \A i \in 0 .. 5 : r(i) \in Temps /\ r(i) \in Regs
  BY SixRegisters, RegsAreNumbers DEF Temps
<1>3. \A q \in Temps : c.owner[q] \in DOMAIN c.vals
  BY <1>1, RegsAreNumbers, ContextFields DEF InUse, Sound
<1>4. \A p, q \in Temps : c.owner[p] = c.owner[q] => p = q
  BY <1>3, RegsAreNumbers DEF Sound
<1>5. \A i, j \in 0 .. 5 : i # j => c.owner[r(i)] # c.owner[r(j)]
  BY <1>2, <1>4, RegsAreNumbers
<1>6. \A i \in 0 .. 5 : c.owner[r(i)] \in {a, b, u, v, w}
  BY <1>1, <1>2
<1> DEFINE o(i) == c.owner[r(i)]
<1>7. /\ o(0) # o(1) /\ o(0) # o(2) /\ o(0) # o(3) /\ o(0) # o(4) /\ o(0) # o(5)
      /\ o(1) # o(2) /\ o(1) # o(3) /\ o(1) # o(4) /\ o(1) # o(5)
      /\ o(2) # o(3) /\ o(2) # o(4) /\ o(2) # o(5)
      /\ o(3) # o(4) /\ o(3) # o(5) /\ o(4) # o(5)
  BY <1>5
<1>8. /\ o(0) \in {a, b, u, v, w} /\ o(1) \in {a, b, u, v, w} /\ o(2) \in {a, b, u, v, w}
      /\ o(3) \in {a, b, u, v, w} /\ o(4) \in {a, b, u, v, w} /\ o(5) \in {a, b, u, v, w}
  BY <1>6
<1> HIDE DEF o
<1>9. QED
  BY <1>7, <1>8

LEMMA NewLeaveRoom ==
  ASSUME NEW c, Sound(c), FiveNew(c)
  PROVE  Room(c)
<1>0. PICK a, b, u, v, w : Within(c, {a, b, u, v, w}, 0)
  BY DEF FiveNew
<1>1. PICK q \in Temps : ~InUse(c, q) \/ c.owner[q] \notin {a, b, u, v, w}
  BY SixOwners
<1>2. ~InUse(c, q) \/ ~(c.prior[q] <= 0)
  BY <1>0, <1>1 DEF Within
<1>3. c.prior[q] \in Nat
  BY RegsAreNumbers, ContextFields DEF Sound
<1>4. QED
  BY <1>2, <1>3 DEF Room

LEMMA AgingAdds ==
  ASSUME NEW c, Sound(c), NEW d, Sound(d), NEW e, Sound(e), NEW V, NEW W,
         NEW m \in Nat, NEW n \in Nat, Aging(c, V, d, m), Aging(d, W, e, n)
  PROVE  Aging(c, V \cup W, e, m + n)
<1>1. SUFFICES ASSUME NEW q \in Temps, InUse(e, q), e.owner[q] \notin V \cup W
               PROVE  e.owner[q] = c.owner[q] /\ e.prior[q] >= c.prior[q] + (m + n)
  BY DEF Aging
<1>2. e.owner[q] = d.owner[q] /\ e.prior[q] >= d.prior[q] + n
  BY <1>1 DEF Aging
<1>3. d.owner[q] = c.owner[q] /\ d.prior[q] >= c.prior[q] + m
  BY <1>1, <1>2 DEF Aging, InUse
<1>4. c.prior[q] \in Nat /\ d.prior[q] \in Nat /\ e.prior[q] \in Nat
  BY RegsAreNumbers, ContextFields DEF Sound
<1>5. QED
  BY <1>2, <1>3, <1>4

LEMMA AgingWeakens ==
  ASSUME NEW c, Sound(c), NEW d, Sound(d), NEW V, NEW W, V \subseteq W,
         NEW m \in Nat, NEW n \in Nat, m <= n, Aging(c, V, d, n)
  PROVE  Aging(c, W, d, m)
<1>1. SUFFICES ASSUME NEW q \in Temps, InUse(d, q), d.owner[q] \notin W
               PROVE  d.owner[q] = c.owner[q] /\ d.prior[q] >= c.prior[q] + m
  BY DEF Aging
<1>2. d.owner[q] = c.owner[q] /\ d.prior[q] >= c.prior[q] + n
  BY <1>1 DEF Aging
<1>3. c.prior[q] \in Nat /\ d.prior[q] \in Nat
  BY RegsAreNumbers, ContextFields DEF Sound
<1>4. QED
  BY <1>2, <1>3

LEMMA AgingWithin ==
  ASSUME NEW c, Sound(c), NEW d, Sound(d), NEW V, NEW S, NEW k \in Nat, NEW n \in Nat,
         Aging(c, V, d, n)
  PROVE  /\ Within(c, S, k) => Within(d, S \cup V, k + n)
         /\ n > k => Within(d, V, k)
<1>1. ASSUME NEW q \in Temps, InUse(d, q), d.owner[q] \notin V
      PROVE  /\ d.owner[q] = c.owner[q] /\ InUse(c, q) /\ d.prior[q] >= c.prior[q] + n
             /\ c.prior[q] \in Nat /\ d.prior[q] \in Nat
  <2>1. d.owner[q] = c.owner[q] /\ d.prior[q] >= c.prior[q] + n
    BY <1>1 DEF Aging
  <2>2. QED
    BY <1>1, <2>1, RegsAreNumbers, ContextFields DEF Sound, InUse
<1>2. ASSUME Within(c, S, k), NEW q \in Temps, InUse(d, q), d.prior[q] <= k + n
      PROVE  d.owner[q] \in S \cup V
  <2>1. CASE d.owner[q] \notin V
    <3>1. /\ d.owner[q] = c.owner[q] /\ InUse(c, q) /\ d.prior[q] >= c.prior[q] + n
          /\ c.prior[q] \in Nat /\ d.prior[q] \in Nat
      BY <1>1, <1>2, <2>1
    <3>2. c.prior[q] <= k
      BY <1>2, <3>1
    <3>3. QED
      BY <1>2, <3>1, <3>2 DEF Within
  <2>2. QED
    BY <2>1
<1>3. ASSUME n > k, NEW q \in Temps, InUse(d, q), d.prior[q] <= k
      PROVE  d.owner[q] \in V
  <2>1. SUFFICES ASSUME d.owner[q] \notin V PROVE FALSE
    OBVIOUS
  <2>2. d.prior[q] >= c.prior[q] + n /\ c.prior[q] \in Nat /\ d.prior[q] \in Nat
    BY <1>1, <1>3, <2>1
  <2>3. QED
    BY <1>3, <2>2
<1>4. QED
  BY <1>2, <1>3 DEF Within

-----------------------------------------------------------------------------
(* Operands that stay while others are loaded. *)

\* The owner of a register says that it is in it, and conversely.
LEMMA Housed ==
  ASSUME NEW c, Sound(c), NEW w \in DOMAIN c.vals
  PROVE  /\ InReg(c, w) => /\ c.vals[w].reg \in Temps /\ c.owner[c.vals[w].reg] = w
                           /\ InUse(c, c.vals[w].reg)
         /\ \A q \in Regs : c.owner[q] = w => InReg(c, w) /\ c.vals[w].reg = q
<1>1. /\ c.vals[w].where = "reg" => c.vals[w].reg \in Temps
      /\ \A q \in Regs : c.owner[q] = w <=> c.vals[w].where = "reg" /\ c.vals[w].reg = q
  BY Zenon DEF Sound
<1>2. w # 0
  BY ContextFields DEF Sound
<1>3. InReg(c, w) => c.vals[w].reg \in Temps /\ c.owner[c.vals[w].reg] = w
  BY <1>1, RegsAreNumbers DEF InReg
<1>4. QED
  BY <1>1, <1>2, <1>3 DEF InReg, InUse

\* A value in a register after a load was there before, unless it is the one
\* that was loaded; one that left may have been displaced.
LEMMA SamePlace ==
  ASSUME NEW c, Sound(c), NEW v \in DOMAIN c.vals, NEW d, Loaded(c, v, d),
         NEW w \in DOMAIN c.vals
  PROVE  /\ InReg(d, w) /\ (w # v \/ InReg(c, v)) =>
              InReg(c, w) /\ d.vals[w].reg = c.vals[w].reg
         /\ InReg(c, w) /\ ~InReg(d, w) => MayLeave(c, v, w) /\ w # v
<1>1. /\ Sound(d) /\ DOMAIN d.vals = DOMAIN c.vals /\ InReg(d, v)
      /\ InReg(c, v) => d.vals = c.vals
      /\ w # v /\ InReg(c, w) => InReg(d, w) \/ MayLeave(c, v, w)
      /\ Aging(c, {v}, d, IF InReg(c, v) THEN 0 ELSE 1)
  BY DEF Loaded
<1>2. CASE InReg(c, v)
  BY <1>1, <1>2 DEF InReg
<1>3. CASE ~InReg(c, v) /\ InReg(d, w) /\ w # v
  <2>1. PICK q \in Temps : q = d.vals[w].reg /\ d.owner[q] = w /\ InUse(d, q)
    BY <1>1, <1>3, Housed
  <2>2. InUse(d, q) /\ q \in Regs
    BY <2>1, RegsAreNumbers
  <2>3. c.owner[q] = w
    BY <1>1, <1>3, <2>1, <2>2 DEF Aging
  <2>4. InReg(c, w) /\ c.vals[w].reg = q
    BY <2>2, <2>3, Housed
  <2>5. QED
    BY <1>3, <2>1, <2>4
<1>4. QED
  BY <1>1, <1>2, <1>3

\* A value whose register is new is not displaced.
LEMMA NewStays ==
  ASSUME NEW c, Sound(c), NEW u \in DOMAIN c.vals, InReg(c, u), c.prior[c.vals[u].reg] = 0,
         NEW v \in DOMAIN c.vals, NEW d, Loaded(c, v, d)
  PROVE  InReg(d, u) /\ d.vals[u].reg = c.vals[u].reg
<1>1. ~MayLeave(c, v, u)
  BY DEF MayLeave
<1>2. InReg(d, u)
  BY <1>1, SamePlace
<1>3. u # v \/ InReg(c, v)
  OBVIOUS
<1>4. QED
  BY <1>2, <1>3, SamePlace

\* The first of three operands is displaced by the third only if all three
\* differ, the last two were searched for, and every register that holds
\* neither of the first two was aged at most 1 after the first.
LEMMA FirstDisplaced ==
  ASSUME NEW c, Sound(c), NEW u \in DOMAIN c.vals, NEW d, Loaded(c, u, d),
         NEW v \in DOMAIN c.vals, NEW e, Loaded(d, v, e),
         NEW w \in DOMAIN c.vals, NEW f, Loaded(e, w, f), ~InReg(f, u)
  PROVE  /\ u # v /\ u # w /\ v # w /\ ~InReg(d, v) /\ ~InReg(e, w) /\ InReg(e, u)
         /\ \A q \in Temps : InUse(e, q)
         /\ \A q \in Temps : e.owner[q] \notin {u, v} =>
              d.owner[q] = e.owner[q] /\ d.prior[q] <= 1
<1>1. /\ Sound(d) /\ DOMAIN d.vals = DOMAIN c.vals /\ Len(d.vals) = Len(c.vals)
      /\ InReg(d, u) /\ d.prior[d.vals[u].reg] = 0
  BY DEF Loaded
<1>2. /\ Sound(e) /\ DOMAIN e.vals = DOMAIN c.vals /\ Len(e.vals) = Len(c.vals)
      /\ InReg(e, v) /\ e.prior[e.vals[v].reg] = 0
      /\ InReg(d, v) => e.vals = d.vals
      /\ Aging(d, {v}, e, IF InReg(d, v) THEN 0 ELSE 1)
      /\ \A q \in Temps : e.prior[q] <= d.prior[q] + IF InReg(d, v) THEN 0 ELSE 1
  BY <1>1 DEF Loaded
<1>3. InReg(e, u) /\ e.vals[u].reg = d.vals[u].reg
  BY <1>1, NewStays
<1>4. PICK r \in Temps : r = e.vals[u].reg /\ e.owner[r] = u
  BY <1>2, <1>3, Housed
<1>5. /\ u # w /\ ~InReg(e, w) /\ e.prior[r] > 0
      /\ \A q \in Temps : InUse(e, q) /\ e.prior[q] <= e.prior[r] + 1
  <2>1. MayLeave(e, w, u) /\ u # w
    BY <1>2, <1>3, SamePlace
  <2>2. QED
    BY <1>4, <2>1 DEF MayLeave
<1>6. u # v /\ v # w
  BY <1>2, <1>4, <1>5
<1>7. /\ r \in Temps /\ r \in Regs /\ d.prior[r] = 0 /\ e.prior[r] \in Nat
      /\ \A q \in Temps : d.prior[q] \in Nat /\ e.prior[q] \in Nat
  BY <1>1, <1>2, <1>3, <1>4, RegsAreNumbers, ContextFields DEF Sound
<1>8. ~InReg(d, v) /\ e.prior[r] <= 1
  <2>1. InReg(d, v) => e.prior[r] <= d.prior[r] + 0
    BY <1>2
  <2>2. ~InReg(d, v) => e.prior[r] <= d.prior[r] + 1
    BY <1>2
  <2>3. QED
    BY <1>5, <1>7, <2>1, <2>2
<1>9. ASSUME NEW q \in Temps, e.owner[q] \notin {u, v}
      PROVE  d.owner[q] = e.owner[q] /\ d.prior[q] <= 1
  <2>1. e.owner[q] = d.owner[q] /\ e.prior[q] >= d.prior[q] + 1
    BY <1>2, <1>5, <1>8, <1>9 DEF Aging
  <2>2. e.prior[q] <= 2
    BY <1>5, <1>7, <1>8
  <2>3. QED
    BY <1>7, <2>1, <2>2
<1>10. QED
  BY <1>3, <1>5, <1>6, <1>8, <1>9

-----------------------------------------------------------------------------
(* An instruction. *)

\* f is the sequence of contexts while the operands vs are loaded in the order p.
Chain(c, vs, p, n, f) ==
  f = [k \in 0 .. n |-> IF k = 0 THEN c ELSE Load(f[k - 1], vs[p[k]])]

\* Operands can be loaded in any number.
LEMMA ChainExists ==
  ASSUME NEW c, NEW vs, NEW p, NEW n \in Nat
  PROVE  \E f : Chain(c, vs, p, n, f)
<1> DEFINE T == {k \in Nat : ~ \E f : Chain(c, vs, p, k, f)}
<1>1. SUFFICES ASSUME n \in T PROVE FALSE
  OBVIOUS
<1>2. PICK m \in T : \A y \in T : ~ (<<y, m>> \in OpToRel(<, Nat))
  <2>1. IsWellFoundedOn(OpToRel(<, Nat), Nat)
    BY NatLessThanWellFounded
  <2>2. T \subseteq Nat /\ T # {}
    BY <1>1
  <2>3. QED
    BY <2>1, <2>2, WFMin
<1>3. m \in Nat /\ ~ \E f : Chain(c, vs, p, m, f)
  OBVIOUS
<1>4. CASE m = 0
  <2>1. Chain(c, vs, p, 0, [k \in 0 .. 0 |-> c])
    BY DEF Chain
  <2>2. QED
    BY <1>3, <1>4, <2>1
<1>5. CASE m # 0
  <2>1. PICK l \in Nat : m = l + 1 /\ l < m
    <3>1. m - 1 \in Nat /\ m = (m - 1) + 1 /\ m - 1 < m
      BY <1>3, <1>5
    <3>2. QED
      BY <3>1
  <2>2. l \notin T
    BY <1>2, <1>3, <2>1 DEF OpToRel
  <2>3. PICK g : Chain(c, vs, p, l, g)
    BY <2>2
  <2>4. \A k \in 0 .. l : g[k] = IF k = 0 THEN c ELSE Load(g[k - 1], vs[p[k]])
    BY <2>3 DEF Chain
  <2> DEFINE h == [k \in 0 .. m |-> IF k <= l THEN g[k] ELSE Load(g[l], vs[p[k]])]
  <2>5. \A k \in 0 .. m : h[k] = IF k = 0 THEN c ELSE Load(h[k - 1], vs[p[k]])
    <3>1. TAKE k \in 0 .. m
    <3>2. CASE k = 0
      BY <2>1, <2>4, <3>2
    <3>3. CASE k # 0
      <4>1. PICK j \in 0 .. l : j = k - 1
        BY <2>1, <3>3
      <4>2. h[j] = g[j]
        BY <2>1, <4>1
      <4>3. CASE k <= l
        BY <2>4, <3>3, <4>1, <4>2, <4>3
      <4>4. CASE ~(k <= l)
        <5>1. j = l
          BY <2>1, <4>1, <4>4
        <5>2. QED
          BY <3>3, <4>1, <4>2, <4>4, <5>1
      <4>5. QED
        BY <4>3, <4>4
    <3>4. QED
      BY <3>2, <3>3
  <2>6. Chain(c, vs, p, m, h)
    <3>1. h = [k \in 0 .. m |-> IF k = 0 THEN c ELSE Load(h[k - 1], vs[p[k]])]
      BY <2>5
    <3>2. QED
      BY <3>1 DEF Chain
  <2>7. QED
    BY <1>3, <2>6
<1>6. QED
  BY <1>4, <1>5

\* f are the contexts before the first operand and after each of them, and what
\* Operands answers comes from them.
Turns(c, vs, p, n, f) ==
  /\ f[0] = c /\ \A k \in 1 .. n : f[k] = Load(f[k - 1], vs[p[k]])
  /\ Operands(c, vs, p).then = f[n]
  /\ \A k \in 1 .. n : Operands(c, vs, p).regs[k] = f[k].vals[vs[p[k]]].reg

LEMMA OperandsAre ==
  ASSUME NEW c, NEW vs, NEW n \in Nat, NEW p \in [1 .. n -> 1 .. n]
  PROVE  \E f : Turns(c, vs, p, n, f)
<1>1. Len(p) = n /\ DOMAIN p = 1 .. n
  OBVIOUS
<1>2. \E f : Chain(c, vs, p, Len(p), f)
  BY <1>1, ChainExists
<1>3. \E f : /\ Chain(c, vs, p, Len(p), f)
             /\ Operands(c, vs, p) =
                  [then |-> f[Len(p)], regs |-> [k \in DOMAIN p |-> f[k].vals[vs[p[k]]].reg]]
  BY <1>2, Zenon DEF Chain, Operands
<1>4. PICK f : /\ Chain(c, vs, p, Len(p), f)
               /\ Operands(c, vs, p) =
                    [then |-> f[Len(p)], regs |-> [k \in DOMAIN p |-> f[k].vals[vs[p[k]]].reg]]
  BY <1>3
<1>5. \A k \in 0 .. n : f[k] = IF k = 0 THEN c ELSE Load(f[k - 1], vs[p[k]])
  BY <1>1, <1>4 DEF Chain
<1>6. f[0] = c /\ \A k \in 1 .. n : f[k] = Load(f[k - 1], vs[p[k]])
  <2>1. 0 \in 0 .. n /\ \A k \in 1 .. n : k \in 0 .. n /\ k # 0
    OBVIOUS
  <2>2. QED
    BY <1>5, <2>1
<1>7. /\ Operands(c, vs, p).then = f[n]
      /\ \A k \in 1 .. n : Operands(c, vs, p).regs[k] = f[k].vals[vs[p[k]]].reg
  BY <1>1, <1>4
<1>8. QED
  BY <1>6, <1>7 DEF Turns

\* The operand x has got its content.
Stored(c, x, d) ==
  /\ d \in Context /\ d.owner = c.owner /\ d.prior = c.prior
  /\ d.held = [c.held EXCEPT ![c.vals[x].reg] = x]
  /\ Len(d.vals) = Len(c.vals) /\ DOMAIN d.vals = DOMAIN c.vals
  /\ d.vals[x] = [c.vals[x] EXCEPT !.done = TRUE]
  /\ \A w \in DOMAIN c.vals \ {x} : d.vals[w] = c.vals[w]

\* The instruction is right when each operand is still where its turn put it,
\* and has its content unless it is the one the instruction computes.
LEMMA ExecuteStores ==
  ASSUME NEW c, NEW vs, NEW n \in Nat, NEW p \in [1 .. n -> 1 .. n],
         NEW j \in 1 .. n, p[j] = 1, \A k \in 1 .. n : p[k] = 1 => k = j,
         NEW f, Turns(c, vs, p, n, f),
         f[n] \in Context, vs[1] \in DOMAIN f[n].vals,
         \A k \in 1 .. n : /\ InReg(f[n], vs[p[k]])
                           /\ f[n].vals[vs[p[k]]].reg = f[k].vals[vs[p[k]]].reg
                           /\ p[k] = 1 \/ Holds(f[n], vs[p[k]])
  PROVE  Stored(f[n], vs[1], Execute(c, vs, p))
<1>1. PICK o : o = Operands(c, vs, p)
  OBVIOUS
<1>2. PICK x : x = vs[1]
  OBVIOUS
<1>3. PICK e \in Context : e = f[n]
  OBVIOUS
<1>4. o.then = e /\ \A k \in 1 .. n : o.regs[k] = e.vals[vs[p[k]]].reg
  BY <1>1, <1>3 DEF Turns
<1>5. DOMAIN p = 1 .. n
  OBVIOUS
<1>6. (CHOOSE k \in DOMAIN p : p[k] = 1) = j
  BY <1>5
<1>7. PICK r \in Regs : r = e.vals[x].reg /\ r = o.regs[j]
  <2>1. x \in DOMAIN e.vals
    BY <1>2, <1>3
  <2>2. e.vals[x].reg \in Regs
    BY <2>1, ContextFields
  <2>3. o.regs[j] = e.vals[x].reg
    BY <1>2, <1>4
  <2>4. QED
    BY <2>2, <2>3
<1>8. \A k \in DOMAIN p : p[k] = 1 \/ o.then.held[o.regs[k]] = vs[p[k]]
  <2>1. SUFFICES ASSUME NEW k \in 1 .. n, p[k] # 1
                 PROVE  o.then.held[o.regs[k]] = vs[p[k]]
    BY <1>5
  <2>2. PICK v : v = vs[p[k]]
    OBVIOUS
  <2>3. InReg(e, v) /\ Holds(e, v)
    BY <1>3, <2>1, <2>2
  <2>4. e.held[e.vals[v].reg] = v
    BY <2>3 DEF Holds, InReg
  <2>5. QED
    BY <1>4, <2>2, <2>4
<1>9. Execute(c, vs, p) = [Put(e, x, r) EXCEPT !.vals[x].done = TRUE]
  <2>1. o.regs[CHOOSE k \in DOMAIN p : p[k] = 1] = r
    BY <1>6, <1>7
  <2>2. QED
    BY <1>1, <1>2, <1>4, <1>8, <2>1 DEF Execute
<1>10. /\ e.vals \in Seq(ValType) /\ x \in DOMAIN e.vals /\ e.vals[x] \in ValType /\ x \in Nat
       /\ e.held \in [Regs -> Nat]
  <2>1. x \in DOMAIN e.vals
    BY <1>2, <1>3
  <2>2. QED
    BY SMTT(30), <2>1, ContextFields
<1>11. PICK y : y = [e.vals[x] EXCEPT !.done = TRUE]
  OBVIOUS
<1>12. y \in ValType
  BY <1>10, <1>11 DEF ValType
<1>13. PICK s : s = [e.vals EXCEPT ![x] = y]
  OBVIOUS
<1>14. /\ s \in Seq(ValType) /\ Len(s) = Len(e.vals) /\ DOMAIN s = DOMAIN e.vals /\ s[x] = y
       /\ \A w \in DOMAIN e.vals : w # x => s[w] = e.vals[w]
  BY <1>10, <1>12, <1>13, OneChanged
<1>15. PICK h : h = [e.held EXCEPT ![r] = x]
  OBVIOUS
<1>16. h \in [Regs -> Nat]
  BY <1>10, <1>15
<1>17. PICK g : g = [e EXCEPT !.held = h]
  OBVIOUS
<1>18. g = Put(e, x, r) /\ g \in Context /\ g.vals = e.vals
  BY <1>15, <1>16, <1>17 DEF Put, Context
<1>19. PICK d : d = [g EXCEPT !.vals = s]
  OBVIOUS
<1>20. d = Execute(c, vs, p)
  BY <1>9, <1>11, <1>13, <1>18, <1>19
<1>21. d \in Context /\ d.vals = s /\ d.held = h /\ d.owner = e.owner /\ d.prior = e.prior
  BY <1>14, <1>16, <1>17, <1>19 DEF Context
<1>22. Stored(e, x, d)
  BY <1>7, <1>11, <1>14, <1>15, <1>21 DEF Stored
<1>23. QED
  BY <1>2, <1>3, <1>20, <1>22

\* What any number of loads does: the values V were loaded.
AllLoaded(c, V, d) ==
  /\ Sound(d) /\ Len(d.vals) = Len(c.vals) /\ DOMAIN d.vals = DOMAIN c.vals
  /\ \A w \in DOMAIN c.vals :
       /\ Holds(c, w) => Holds(d, w)
       /\ d.vals[w].done = c.vals[w].done /\ d.vals[w].decl = c.vals[w].decl
       /\ w \notin V /\ c.vals[w].where = "none" => d.vals[w].where = "none"
  /\ Aging(c, V, d, 0)
  /\ (\E w \in V : c.vals[w].where = "none") => Aging(c, V, d, 1)

LEMMA NoLoads ==
  ASSUME NEW c, Sound(c)
  PROVE  AllLoaded(c, {}, c)
<1>1. Aging(c, {}, c, 0)
  BY RegsAreNumbers, ContextFields DEF Aging, Sound
<1>2. QED
  BY <1>1 DEF AllLoaded

LEMMA OneMoreLoad ==
  ASSUME NEW c, Sound(c), NEW V, V \subseteq DOMAIN c.vals, NEW d, AllLoaded(c, V, d),
         NEW v \in DOMAIN c.vals, NEW e, Loaded(d, v, e)
  PROVE  AllLoaded(c, V \cup {v}, e)
<1>1. /\ Sound(d) /\ Len(d.vals) = Len(c.vals) /\ DOMAIN d.vals = DOMAIN c.vals
      /\ Aging(c, V, d, 0)
      /\ (\E w \in V : c.vals[w].where = "none") => Aging(c, V, d, 1)
  BY DEF AllLoaded
<1>2. /\ Sound(e) /\ Len(e.vals) = Len(c.vals) /\ DOMAIN e.vals = DOMAIN c.vals
      /\ Aging(d, {v}, e, IF InReg(d, v) THEN 0 ELSE 1)
  BY <1>1 DEF Loaded
<1>3. ASSUME NEW w \in DOMAIN c.vals
      PROVE  /\ Holds(c, w) => Holds(e, w)
             /\ e.vals[w].done = c.vals[w].done /\ e.vals[w].decl = c.vals[w].decl
             /\ w \notin V \cup {v} /\ c.vals[w].where = "none" => e.vals[w].where = "none"
  <2>1. /\ Holds(c, w) => Holds(d, w)
        /\ d.vals[w].done = c.vals[w].done /\ d.vals[w].decl = c.vals[w].decl
        /\ w \notin V /\ c.vals[w].where = "none" => d.vals[w].where = "none"
    BY DEF AllLoaded
  <2>2. /\ Holds(d, w) => Holds(e, w)
        /\ e.vals[w].done = d.vals[w].done /\ e.vals[w].decl = d.vals[w].decl
        /\ w # v /\ d.vals[w].where = "none" => e.vals[w].where = "none"
    BY <1>1 DEF Loaded
  <2>3. QED
    BY <2>1, <2>2
<1>4. Aging(d, {v}, e, 0)
  <2>1. CASE InReg(d, v)
    BY <1>2, <2>1
  <2>2. CASE ~InReg(d, v)
    <3>1. Aging(d, {v}, e, 1)
      BY <1>2, <2>2
    <3>2. {v} \subseteq {v} /\ 0 \in Nat /\ 1 \in Nat /\ 0 <= 1
      OBVIOUS
    <3>3. QED
      BY <1>1, <1>2, <3>1, <3>2, AgingWeakens
  <2>3. QED
    BY <2>1, <2>2
<1>5. Aging(c, V \cup {v}, e, 0)
  <2>1. Aging(c, V \cup {v}, e, 0 + 0)
    BY <1>1, <1>2, <1>4, AgingAdds
  <2>2. QED
    BY <2>1
<1>6. ASSUME NEW w \in V \cup {v}, c.vals[w].where = "none"
      PROVE  Aging(c, V \cup {v}, e, 1)
  <2>1. CASE w \in V
    <3>1. Aging(c, V, d, 1)
      BY <1>1, <1>6, <2>1
    <3>2. Aging(c, V \cup {v}, e, 1 + 0)
      BY <1>1, <1>2, <1>4, <3>1, AgingAdds
    <3>3. QED
      BY <3>2
  <2>2. CASE w \notin V
    <3>1. w = v /\ d.vals[w].where = "none"
      BY <1>6, <2>2 DEF AllLoaded
    <3>2. Aging(d, {v}, e, 1)
      BY <1>2, <3>1 DEF InReg
    <3>3. Aging(c, V \cup {v}, e, 0 + 1)
      BY <1>1, <1>2, <3>2, AgingAdds
    <3>4. QED
      BY <3>3
  <2>3. QED
    BY <2>1, <2>2
<1>7. QED
  BY <1>2, <1>3, <1>5, <1>6 DEF AllLoaded

\* What an instruction does that loads the values V and computes x, one of them.
Executed(c, V, x, d) ==
  /\ Sound(d) /\ Len(d.vals) = Len(c.vals) /\ DOMAIN d.vals = DOMAIN c.vals
  /\ InReg(d, x) /\ Holds(d, x) /\ d.vals[x].done
  /\ \A w \in DOMAIN c.vals :
       /\ Holds(c, w) => Holds(d, w)
       /\ d.vals[w].decl = c.vals[w].decl
       /\ w # x => d.vals[w].done = c.vals[w].done
       /\ w \notin V /\ c.vals[w].where = "none" => d.vals[w].where = "none"
  /\ Aging(c, V, d, 0)
  /\ (\E w \in V : c.vals[w].where = "none") => Aging(c, V, d, 1)

LEMMA StoredSound ==
  ASSUME NEW c, Sound(c), NEW x \in DOMAIN c.vals, InReg(c, x), NEW d, Stored(c, x, d)
  PROVE  /\ Sound(d) /\ InReg(d, x) /\ Holds(d, x) /\ d.vals[x].done
         /\ \A w \in DOMAIN c.vals :
              /\ Holds(c, w) => Holds(d, w)
              /\ d.vals[w].decl = c.vals[w].decl /\ d.vals[w].where = c.vals[w].where
              /\ w # x => d.vals[w].done = c.vals[w].done
<1>1. PICK r \in Temps : r = c.vals[x].reg
  BY Housed
<1>2. /\ d \in Context /\ d.owner = c.owner /\ d.prior = c.prior
      /\ d.held = [c.held EXCEPT ![r] = x]
      /\ Len(d.vals) = Len(c.vals) /\ DOMAIN d.vals = DOMAIN c.vals
      /\ d.vals[x] = [c.vals[x] EXCEPT !.done = TRUE]
      /\ \A w \in DOMAIN c.vals \ {x} : d.vals[w] = c.vals[w]
  BY <1>1 DEF Stored
<1>3. c \in Context /\ c.held \in [Regs -> Nat] /\ r \in Regs /\ c.vals[x] \in ValType
  BY <1>1, ContextFields, RegsAreNumbers DEF Sound
<1>4. d.held[r] = x /\ \A q \in Regs \ {r} : d.held[q] = c.held[q]
  BY <1>2, <1>3
<1>5. /\ d.vals[x].where = c.vals[x].where /\ d.vals[x].reg = c.vals[x].reg
      /\ d.vals[x].cell = c.vals[x].cell /\ d.vals[x].decl = c.vals[x].decl /\ d.vals[x].done
  <2>1. PICK y : y = c.vals[x]
    OBVIOUS
  <2>2. PICK z : z = [y EXCEPT !.done = TRUE]
    OBVIOUS
  <2>3. z.where = y.where /\ z.reg = y.reg /\ z.cell = y.cell /\ z.decl = y.decl
    BY <1>3, <2>1, <2>2 DEF ValType
  <2>4. z.done
    BY <1>3, <2>1, <2>2 DEF ValType
  <2>5. d.vals[x] = z
    BY <1>2, <2>1, <2>2
  <2>6. QED
    BY <2>1, <2>3, <2>4, <2>5
<1>6. \A w \in DOMAIN c.vals :
        /\ d.vals[w].where = c.vals[w].where /\ d.vals[w].reg = c.vals[w].reg
        /\ d.vals[w].cell = c.vals[w].cell
  BY <1>2, <1>5
<1>7. Sound(d)
  <2>1. x <= Len(c.vals)
    BY <1>3, ContextFields
  <2>2. \A q \in Regs : d.held[q] <= Len(c.vals)
    BY <1>3, <1>4, <2>1 DEF Sound
  <2>3. QED
    BY <1>2, <1>6, <2>2 DEF Sound
<1>8. ASSUME NEW w \in DOMAIN c.vals, Holds(c, w)
      PROVE  Holds(d, w)
  <2>1. CASE w = x
    BY <1>1, <1>4, <1>6, <2>1 DEF Holds, InReg
  <2>2. CASE w # x /\ InReg(c, w)
    <3>1. c.vals[w].reg # r /\ c.vals[w].reg \in Regs
      <4>1. c.vals[w].reg \in Temps /\ c.owner[c.vals[w].reg] = w
        BY <2>2, Housed
      <4>2. c.owner[r] = x
        BY <1>1, Housed
      <4>3. QED
        BY <2>2, <4>1, <4>2, RegsAreNumbers
    <3>2. QED
      BY <1>4, <1>6, <1>8, <2>2, <3>1 DEF Holds, InReg
  <2>3. CASE ~InReg(c, w)
    BY <1>6, <1>8, <2>3 DEF Holds, InReg
  <2>4. QED
    BY <2>1, <2>2, <2>3
<1>9. InReg(d, x) /\ Holds(d, x)
  BY <1>1, <1>4, <1>6 DEF InReg, Holds
<1>10. QED
  BY <1>2, <1>5, <1>6, <1>7, <1>8, <1>9

LEMMA StoredExecutes ==
  ASSUME NEW c, Sound(c), NEW V, NEW e, AllLoaded(c, V, e),
         NEW x \in DOMAIN c.vals, x \in V, InReg(e, x), NEW d, Stored(e, x, d)
  PROVE  Executed(c, V, x, d)
<1>1. Sound(e) /\ DOMAIN e.vals = DOMAIN c.vals /\ Len(e.vals) = Len(c.vals)
  BY DEF AllLoaded
<1>2. /\ Sound(d) /\ InReg(d, x) /\ Holds(d, x) /\ d.vals[x].done
      /\ \A w \in DOMAIN e.vals :
           /\ Holds(e, w) => Holds(d, w)
           /\ d.vals[w].decl = e.vals[w].decl /\ d.vals[w].where = e.vals[w].where
           /\ w # x => d.vals[w].done = e.vals[w].done
  BY <1>1, StoredSound
<1>3. DOMAIN d.vals = DOMAIN c.vals /\ Len(d.vals) = Len(c.vals)
  BY <1>1 DEF Stored
<1>4. d.owner = e.owner /\ d.prior = e.prior
  BY DEF Stored
<1>5. /\ Aging(c, V, d, 0)
      /\ (\E w \in V : c.vals[w].where = "none") => Aging(c, V, d, 1)
  BY <1>4 DEF AllLoaded, Aging, InUse
<1>6. QED
  BY <1>1, <1>2, <1>3, <1>5 DEF Executed, AllLoaded

LEMMA LoadWithin ==
  ASSUME NEW c, Sound(c), NEW v \in DOMAIN c.vals, NEW d, Loaded(c, v, d),
         NEW S, Within(c, S, 0)
  PROVE  Within(d, S \cup {v}, 0)
<1>1. Sound(d) /\ Aging(c, {v}, d, IF InReg(c, v) THEN 0 ELSE 1)
  BY DEF Loaded
<1>2. PICK n \in {0, 1} : Aging(c, {v}, d, n)
  BY <1>1
<1>3. {v} \subseteq {v} /\ n \in Nat /\ 0 \in Nat /\ 0 <= n
  OBVIOUS
<1>4. Aging(c, {v}, d, 0)
  BY <1>1, <1>2, <1>3, AgingWeakens
<1>5. Within(d, S \cup {v}, 0 + 0)
  BY <1>1, <1>3, <1>4, AgingWithin
<1>6. QED
  BY <1>5

\* The order of the operands of an instruction.
LEMMA OrderOf ==
  ASSUME NEW n \in 1 .. 3, NEW p \in Orders(n)
  PROVE  /\ p \in [1 .. n -> 1 .. n]
         /\ \A i, k \in 1 .. n : p[i] = p[k] => i = k
         /\ \E j \in 1 .. n : p[j] = 1
<1>1. p \in [1 .. n -> 1 .. n] /\ \A i, k \in 1 .. n : p[i] = p[k] => i = k
  BY DEF Orders, IsInjective
<1>2. CASE n = 1
  BY <1>1, <1>2
<1>3. CASE n = 2
  <2>1. 1 \in 1 .. n /\ 2 \in 1 .. n
    BY <1>3
  <2>2. p[1] \in 1 .. 2 /\ p[2] \in 1 .. 2 /\ p[1] # p[2]
    BY <1>1, <1>3, <2>1
  <2>3. p[1] = 1 \/ p[2] = 1
    BY <2>2
  <2>4. QED
    BY <1>1, <2>1, <2>3
<1>4. CASE n = 3
  <2>1. 1 \in 1 .. n /\ 2 \in 1 .. n /\ 3 \in 1 .. n
    BY <1>4
  <2>2. /\ p[1] \in 1 .. 3 /\ p[2] \in 1 .. 3 /\ p[3] \in 1 .. 3
        /\ p[1] # p[2] /\ p[1] # p[3] /\ p[2] # p[3]
    BY <1>1, <1>4, <2>1
  <2>3. p[1] = 1 \/ p[2] = 1 \/ p[3] = 1
    BY <2>2
  <2>4. QED
    BY <1>1, <2>1, <2>3
<1>5. QED
  BY <1>1, <1>2, <1>3, <1>4

\* An instruction whose operands stay where they were loaded is right.
LEMMA StayingExecutes ==
  ASSUME NEW c, Sound(c), NEW vs, NEW n \in 1 .. 3, NEW p \in Orders(n),
         NEW f, Turns(c, vs, p, n, f),
         NEW V, AllLoaded(c, V, f[n]), vs[1] \in V, V \subseteq DOMAIN c.vals,
         \A k \in 1 .. n : /\ InReg(f[n], vs[p[k]])
                           /\ f[n].vals[vs[p[k]]].reg = f[k].vals[vs[p[k]]].reg,
         \A k \in 2 .. n : Holds(f[n], vs[k])
  PROVE  Executed(c, V, vs[1], Execute(c, vs, p))
<1>1. /\ p \in [1 .. n -> 1 .. n] /\ n \in Nat
      /\ \A i, k \in 1 .. n : p[i] = p[k] => i = k
  <2>1. n \in Nat
    OBVIOUS
  <2>2. p \in [1 .. n -> 1 .. n] /\ \A i, k \in 1 .. n : p[i] = p[k] => i = k
    BY OrderOf
  <2>3. QED
    BY <2>1, <2>2
<1>2. PICK j \in 1 .. n : p[j] = 1
  BY OrderOf
<1>3. \A k \in 1 .. n : p[k] = 1 => k = j
  BY <1>1, <1>2
<1>4. Sound(f[n]) /\ f[n] \in Context /\ DOMAIN f[n].vals = DOMAIN c.vals
  BY DEF AllLoaded, Sound
<1>5. \A k \in 1 .. n : p[k] = 1 \/ Holds(f[n], vs[p[k]])
  BY <1>1
<1>6. vs[1] \in DOMAIN f[n].vals /\ vs[1] \in DOMAIN c.vals
  BY <1>4
<1>7. PICK d : d = Execute(c, vs, p)
  OBVIOUS
<1>8. Stored(f[n], vs[1], d)
  BY <1>1, <1>2, <1>3, <1>4, <1>5, <1>6, <1>7, ExecuteStores
<1>9. InReg(f[n], vs[1])
  BY <1>2
<1>10. Executed(c, V, vs[1], d)
  BY <1>6, <1>8, <1>9, StoredExecutes
<1>11. QED
  BY <1>7, <1>10

\* An instruction with one operand.
LEMMA Execute1 ==
  ASSUME NEW c, Sound(c), NEW x \in DOMAIN c.vals, FiveNew(c), NEW d \in Emits(c, <<x>>)
  PROVE  Executed(c, {x}, x, d)
<1>1. PICK vs : vs = <<x>>
  OBVIOUS
<1>2. PICK n \in 1 .. 3 : n = 1
  OBVIOUS
<1>3. Len(vs) = n /\ vs[1] = x
  BY <1>1, <1>2
<1>4. PICK p \in Orders(n) : d = Execute(c, vs, p)
  BY <1>1, <1>3 DEF Emits
<1>5. p \in [1 .. n -> 1 .. n] /\ n \in Nat
  <2>1. p \in [1 .. n -> 1 .. n]
    BY OrderOf
  <2>2. QED
    BY <2>1
<1>6. p[1] = 1
  BY <1>2, <1>5
<1>7. PICK f : Turns(c, vs, p, n, f)
  BY <1>5, OperandsAre
<1>8. f[n] = Load(c, x)
  BY <1>2, <1>3, <1>6, <1>7 DEF Turns
<1>9. Loaded(c, x, f[n])
  BY <1>8, LoadStep, NewLeaveRoom
<1>10. AllLoaded(c, {x}, f[n])
  <2>1. AllLoaded(c, {} \cup {x}, f[n])
    BY <1>9, NoLoads, OneMoreLoad
  <2>2. {} \cup {x} = {x}
    OBVIOUS
  <2>3. QED
    BY <2>1, <2>2
<1>11. \A k \in 1 .. n : /\ InReg(f[n], vs[p[k]])
                         /\ f[n].vals[vs[p[k]]].reg = f[k].vals[vs[p[k]]].reg
  BY <1>2, <1>3, <1>6, <1>9 DEF Loaded
<1>12. \A k \in 2 .. n : Holds(f[n], vs[k])
  BY <1>2
<1>13. vs[1] \in {x} /\ {x} \subseteq DOMAIN c.vals
  BY <1>3
<1>14. Executed(c, {x}, vs[1], Execute(c, vs, p))
  BY ZenonT(30), <1>7, <1>10, <1>11, <1>12, <1>13, StayingExecutes
<1>15. QED
  BY <1>3, <1>4, <1>14

\* d and e are c after the load of x and after that of y.
InTurn(c, x, y, d, e) == d = Load(c, x) /\ e = Load(d, y)

\* Two loads: the first value stays.
BothLoaded(c, x, y, d, e) ==
  /\ Loaded(c, x, d) /\ Loaded(d, y, e) /\ AllLoaded(c, {x, y}, e)
  /\ Sound(d) /\ DOMAIN d.vals = DOMAIN c.vals /\ InReg(d, x)
  /\ Sound(e) /\ DOMAIN e.vals = DOMAIN c.vals /\ InReg(e, x) /\ InReg(e, y)
  /\ e.vals[x].reg = d.vals[x].reg

LEMMA LoadTwo ==
  ASSUME NEW c, Sound(c), NEW x \in DOMAIN c.vals, NEW y \in DOMAIN c.vals, FourNew(c),
         NEW d, NEW e, InTurn(c, x, y, d, e)
  PROVE  BothLoaded(c, x, y, d, e)
<1>1. Room(c)
  BY FewNew, NewLeaveRoom
<1>2. Loaded(c, x, d)
  BY <1>1, LoadStep DEF InTurn
<1>3. /\ Sound(d) /\ DOMAIN d.vals = DOMAIN c.vals /\ InReg(d, x)
      /\ d.prior[d.vals[x].reg] = 0
  BY <1>2 DEF Loaded
<1>4. Room(d)
  <2>1. PICK a, b, u, v : Within(c, {a, b, u, v}, 0)
    BY DEF FourNew
  <2>2. Within(d, {a, b, u, v} \cup {x}, 0)
    BY <1>2, <2>1, LoadWithin
  <2>3. {a, b, u, v} \cup {x} = {a, b, u, v, x}
    OBVIOUS
  <2>4. Within(d, {a, b, u, v, x}, 0)
    BY <2>2, <2>3
  <2>5. FiveNew(d)
    BY <2>4, Zenon DEF FiveNew
  <2>6. QED
    BY <1>3, <2>5, NewLeaveRoom
<1>5. Loaded(d, y, e)
  BY <1>3, <1>4, LoadStep DEF InTurn
<1>6. Sound(e) /\ DOMAIN e.vals = DOMAIN c.vals /\ InReg(e, y)
  BY <1>3, <1>5 DEF Loaded
<1>7. InReg(e, x) /\ e.vals[x].reg = d.vals[x].reg
  BY <1>3, <1>5, NewStays
<1>8. AllLoaded(c, {x, y}, e)
  <2>1. AllLoaded(c, {} \cup {x}, d)
    BY <1>2, NoLoads, OneMoreLoad
  <2>2. {} \cup {x} \subseteq DOMAIN c.vals
    OBVIOUS
  <2>3. AllLoaded(c, ({} \cup {x}) \cup {y}, e)
    BY <1>5, <2>1, <2>2, OneMoreLoad
  <2>4. ({} \cup {x}) \cup {y} = {x, y}
    OBVIOUS
  <2>5. QED
    BY <2>3, <2>4
<1>9. QED
  BY <1>2, <1>3, <1>5, <1>6, <1>7, <1>8 DEF BothLoaded

\* An instruction with two operands.
LEMMA Execute2 ==
  ASSUME NEW c, Sound(c), NEW x \in DOMAIN c.vals, NEW y \in DOMAIN c.vals, Holds(c, y),
         FourNew(c), NEW d \in Emits(c, <<x, y>>)
  PROVE  Executed(c, {x, y}, x, d)
<1>1. PICK vs : vs = <<x, y>>
  OBVIOUS
<1>2. PICK n \in 1 .. 3 : n = 2
  OBVIOUS
<1>3. Len(vs) = n /\ vs[1] = x /\ vs[2] = y
  BY <1>1, <1>2
<1>4. PICK p \in Orders(n) : d = Execute(c, vs, p)
  BY <1>1, <1>3 DEF Emits
<1>5. /\ p \in [1 .. n -> 1 .. n] /\ n \in Nat
      /\ \A i, k \in 1 .. n : p[i] = p[k] => i = k
  <2>1. p \in [1 .. n -> 1 .. n] /\ \A i, k \in 1 .. n : p[i] = p[k] => i = k
    BY OrderOf
  <2>2. QED
    BY <2>1
<1>6. p[1] \in {1, 2} /\ p[2] \in {1, 2} /\ p[1] # p[2]
  BY <1>2, <1>5
<1>7. PICK f : Turns(c, vs, p, n, f)
  BY <1>5, OperandsAre
<1>8. PICK i \in DOMAIN c.vals, j \in DOMAIN c.vals :
        i = vs[p[1]] /\ j = vs[p[2]] /\ {i, j} = {x, y}
  <2>1. CASE p[1] = 1
    BY <1>3, <1>6, <2>1
  <2>2. CASE p[1] = 2
    BY <1>3, <1>6, <2>2
  <2>3. QED
    BY <1>6, <2>1, <2>2
<1>9. InTurn(c, i, j, f[1], f[n])
  BY <1>2, <1>7, <1>8 DEF Turns, InTurn
<1>10. /\ AllLoaded(c, {i, j}, f[n]) /\ InReg(f[n], i) /\ InReg(f[n], j)
       /\ f[n].vals[i].reg = f[1].vals[i].reg
  <2>1. BothLoaded(c, i, j, f[1], f[n])
    BY <1>9, LoadTwo
  <2>2. QED
    BY <2>1 DEF BothLoaded
<1>11. \A k \in 1 .. n : /\ InReg(f[n], vs[p[k]])
                         /\ f[n].vals[vs[p[k]]].reg = f[k].vals[vs[p[k]]].reg
  <2>1. \A k \in 1 .. n : k = 1 \/ k = n
    BY <1>2
  <2>2. QED
    BY <1>2, <1>8, <1>10, <2>1
<1>12. \A k \in 2 .. n : Holds(f[n], vs[k])
  BY <1>2, <1>3, <1>10 DEF AllLoaded
<1>13. vs[1] \in {x, y} /\ {x, y} \subseteq DOMAIN c.vals /\ AllLoaded(c, {x, y}, f[n])
  BY <1>3, <1>8, <1>10
<1>14. Executed(c, {x, y}, vs[1], Execute(c, vs, p))
  BY ZenonT(30), <1>7, <1>11, <1>12, <1>13, StayingExecutes
<1>15. QED
  BY <1>3, <1>4, <1>14

\* However three of the values V are loaded, the first stays.
FirstStays(c, V) ==
  \A u, v, w \in V : \A d, e, f :
    Loaded(c, u, d) /\ Loaded(d, v, e) /\ Loaded(e, w, f) => InReg(f, u)

\* Three loads: the first two values stay.
AllThreeLoaded(c, x, y, z, d, e, f) ==
  /\ AllLoaded(c, {x, y, z}, f)
  /\ InReg(f, x) /\ InReg(f, y) /\ InReg(f, z)
  /\ f.vals[x].reg = d.vals[x].reg /\ f.vals[y].reg = e.vals[y].reg

LEMMA LoadThree ==
  ASSUME NEW c, Sound(c), NEW x \in DOMAIN c.vals, NEW y \in DOMAIN c.vals,
         NEW z \in DOMAIN c.vals, TwoNew(c), FirstStays(c, {x, y, z}),
         NEW d, NEW e, InTurn(c, x, y, d, e), NEW f, f = Load(e, z)
  PROVE  AllThreeLoaded(c, x, y, z, d, e, f)
<1>1. BothLoaded(c, x, y, d, e)
  BY FewNew, LoadTwo
<1>2. /\ Loaded(c, x, d) /\ Loaded(d, y, e) /\ AllLoaded(c, {x, y}, e)
      /\ Sound(d) /\ DOMAIN d.vals = DOMAIN c.vals /\ InReg(d, x)
      /\ Sound(e) /\ DOMAIN e.vals = DOMAIN c.vals /\ InReg(e, x) /\ InReg(e, y)
      /\ e.vals[x].reg = d.vals[x].reg
  BY <1>1 DEF BothLoaded
<1>3. Room(e)
  <2>1. PICK a, b : Within(c, {a, b}, 0)
    BY DEF TwoNew
  <2>2. Within(d, {a, b} \cup {x}, 0)
    BY <1>2, <2>1, LoadWithin
  <2>3. Within(e, ({a, b} \cup {x}) \cup {y}, 0)
    BY <1>2, <2>2, LoadWithin
  <2>4. ({a, b} \cup {x}) \cup {y} = {a, b, x, y}
    OBVIOUS
  <2>5. Within(e, {a, b, x, y}, 0)
    BY <2>3, <2>4
  <2>6. FourNew(e)
    BY <2>5, Zenon DEF FourNew
  <2>7. QED
    BY <1>2, <2>6, FewNew, NewLeaveRoom
<1>4. Loaded(e, z, f)
  BY <1>2, <1>3, LoadStep
<1>5. InReg(f, z)
  BY <1>4 DEF Loaded
<1>6. InReg(f, x) /\ f.vals[x].reg = d.vals[x].reg
  <2>1. InReg(f, x)
    <3>1. x \in {x, y, z} /\ y \in {x, y, z} /\ z \in {x, y, z}
      OBVIOUS
    <3>2. QED
      BY <1>2, <1>4, <3>1 DEF FirstStays
  <2>2. x # z \/ InReg(e, z)
    BY <1>2
  <2>3. f.vals[x].reg = e.vals[x].reg
    BY <1>2, <1>4, <2>1, <2>2, SamePlace
  <2>4. QED
    BY <1>2, <2>1, <2>3
<1>7. InReg(f, y) /\ f.vals[y].reg = e.vals[y].reg
  <2>1. e.prior[e.vals[y].reg] = 0
    BY <1>2 DEF Loaded
  <2>2. QED
    BY <1>2, <1>4, <2>1, NewStays
<1>8. AllLoaded(c, {x, y, z}, f)
  <2>1. {x, y} \subseteq DOMAIN c.vals
    OBVIOUS
  <2>2. AllLoaded(c, {x, y} \cup {z}, f)
    BY <1>2, <1>4, <2>1, OneMoreLoad
  <2>3. {x, y} \cup {z} = {x, y, z}
    OBVIOUS
  <2>4. QED
    BY <2>2, <2>3
<1>9. QED
  BY <1>5, <1>6, <1>7, <1>8 DEF AllThreeLoaded

\* An instruction with three operands.
LEMMA Execute3 ==
  ASSUME NEW c, Sound(c), NEW x \in DOMAIN c.vals, NEW y \in DOMAIN c.vals,
         NEW z \in DOMAIN c.vals, Holds(c, y), Holds(c, z),
         TwoNew(c), FirstStays(c, {x, y, z}), NEW d \in Emits(c, <<x, y, z>>)
  PROVE  Executed(c, {x, y, z}, x, d)
<1>1. PICK vs : vs = <<x, y, z>>
  OBVIOUS
<1>2. PICK n \in 1 .. 3 : n = 3
  OBVIOUS
<1>3. Len(vs) = n /\ vs[1] = x /\ vs[2] = y /\ vs[3] = z
  BY <1>1, <1>2
<1>4. PICK p \in Orders(n) : d = Execute(c, vs, p)
  BY <1>1, <1>3 DEF Emits
<1>5. /\ p \in [1 .. n -> 1 .. n] /\ n \in Nat
      /\ \A i, k \in 1 .. n : p[i] = p[k] => i = k
  <2>1. p \in [1 .. n -> 1 .. n] /\ \A i, k \in 1 .. n : p[i] = p[k] => i = k
    BY OrderOf
  <2>2. QED
    BY <2>1
<1>6. /\ p[1] \in {1, 2, 3} /\ p[2] \in {1, 2, 3} /\ p[3] \in {1, 2, 3}
      /\ p[1] # p[2] /\ p[1] # p[3] /\ p[2] # p[3]
  BY <1>2, <1>5
<1>7. PICK f : Turns(c, vs, p, n, f)
  BY <1>5, OperandsAre
<1>8. PICK i \in DOMAIN c.vals, j \in DOMAIN c.vals, k \in DOMAIN c.vals :
        i = vs[p[1]] /\ j = vs[p[2]] /\ k = vs[p[3]] /\ {i, j, k} = {x, y, z}
  <2>1. {p[1], p[2], p[3]} = {1, 2, 3}
    BY <1>6
  <2>2. \A m \in {1, 2, 3} : vs[m] \in DOMAIN c.vals
    BY <1>3
  <2>3. {vs[m] : m \in {1, 2, 3}} = {x, y, z}
    BY <1>3
  <2>4. {vs[m] : m \in {p[1], p[2], p[3]}} = {vs[p[1]], vs[p[2]], vs[p[3]]}
    OBVIOUS
  <2>5. {vs[p[1]], vs[p[2]], vs[p[3]]} = {x, y, z}
    BY <2>1, <2>3, <2>4
  <2>6. QED
    BY <1>6, <2>2, <2>5
<1>9. InTurn(c, i, j, f[1], f[2]) /\ f[n] = Load(f[2], k)
  BY <1>2, <1>7, <1>8 DEF Turns, InTurn
<1>10. /\ AllLoaded(c, {i, j, k}, f[n])
       /\ InReg(f[n], i) /\ InReg(f[n], j) /\ InReg(f[n], k)
       /\ f[n].vals[i].reg = f[1].vals[i].reg /\ f[n].vals[j].reg = f[2].vals[j].reg
  <2>1. FirstStays(c, {i, j, k})
    BY <1>8
  <2>2. AllThreeLoaded(c, i, j, k, f[1], f[2], f[n])
    BY <1>9, <2>1, LoadThree
  <2>3. QED
    BY <2>2 DEF AllThreeLoaded
<1>11. \A m \in 1 .. n : /\ InReg(f[n], vs[p[m]])
                         /\ f[n].vals[vs[p[m]]].reg = f[m].vals[vs[p[m]]].reg
  <2>1. \A m \in 1 .. n : m = 1 \/ m = 2 \/ m = n
    BY <1>2
  <2>2. QED
    BY <1>2, <1>8, <1>10, <2>1
<1>12. \A m \in 2 .. n : Holds(f[n], vs[m])
  <2>1. \A m \in 2 .. n : m = 2 \/ m = 3
    BY <1>2
  <2>2. QED
    BY <1>3, <1>10, <2>1 DEF AllLoaded
<1>13. vs[1] \in {x, y, z} /\ {x, y, z} \subseteq DOMAIN c.vals /\ AllLoaded(c, {x, y, z}, f[n])
  BY <1>3, <1>8, <1>10
<1>14. Executed(c, {x, y, z}, vs[1], Execute(c, vs, p))
  BY ZenonT(30), <1>7, <1>11, <1>12, <1>13, StayingExecutes
<1>15. QED
  BY <1>3, <1>4, <1>14

\* Two different operands never displace each other.
LEMMA TwoStay ==
  ASSUME NEW c, Sound(c), NEW x \in DOMAIN c.vals, NEW y \in DOMAIN c.vals
  PROVE  FirstStays(c, {x, x, y})
<1>1. SUFFICES ASSUME NEW u \in {x, x, y}, NEW v \in {x, x, y}, NEW w \in {x, x, y},
                      NEW d, NEW e, NEW f,
                      Loaded(c, u, d), Loaded(d, v, e), Loaded(e, w, f), ~InReg(f, u)
               PROVE  FALSE
  BY DEF FirstStays
<1>2. u \in DOMAIN c.vals /\ v \in DOMAIN c.vals /\ w \in DOMAIN c.vals
  OBVIOUS
<1>3. u # v /\ u # w /\ v # w
  BY <1>1, <1>2, FirstDisplaced
<1>4. QED
  BY <1>3

\* The three operands of a calculation stay: two registers are new, and two
\* more beside the one of the right operand are young.
LEMMA CalculationStays ==
  ASSUME NEW c, Sound(c), NEW x \in DOMAIN c.vals, NEW l \in DOMAIN c.vals,
         NEW r \in DOMAIN c.vals, ~InReg(c, x), InReg(c, r), TwoNew(c),
         NEW g, NEW h, NEW i, Within(c, {g, h, i, r}, 1)
  PROVE  FirstStays(c, {x, l, r})
<1>1. SUFFICES ASSUME NEW u \in {x, l, r}, NEW v \in {x, l, r}, NEW w \in {x, l, r},
                      NEW d, NEW e, NEW f,
                      Loaded(c, u, d), Loaded(d, v, e), Loaded(e, w, f), ~InReg(f, u)
               PROVE  FALSE
  BY DEF FirstStays
<1>2. u \in DOMAIN c.vals /\ v \in DOMAIN c.vals /\ w \in DOMAIN c.vals
  OBVIOUS
<1>3. /\ u # v /\ u # w /\ v # w /\ ~InReg(d, v) /\ ~InReg(e, w)
      /\ \A q \in Temps : InUse(e, q)
      /\ \A q \in Temps : e.owner[q] \notin {u, v} =>
           d.owner[q] = e.owner[q] /\ d.prior[q] <= 1
  BY <1>1, <1>2, FirstDisplaced
<1>4. /\ Sound(d) /\ DOMAIN d.vals = DOMAIN c.vals
      /\ Aging(c, {u}, d, IF InReg(c, u) THEN 0 ELSE 1)
      /\ InReg(c, u) => d.vals = c.vals
  BY <1>1 DEF Loaded
<1>5. Sound(e) /\ DOMAIN e.vals = DOMAIN c.vals
  BY <1>1, <1>4 DEF Loaded
<1>6. PICK a, b : Within(c, {a, b}, 0)
  BY DEF TwoNew
<1>7. ASSUME NEW q \in Temps, e.owner[q] \notin {u, v}
      PROVE  /\ InUse(c, q) /\ e.owner[q] = c.owner[q] /\ c.prior[q] \in Nat
             /\ InReg(c, u) => c.prior[q] <= 1
             /\ ~InReg(c, u) => c.prior[q] <= 0
  <2>1. InUse(e, q) /\ d.owner[q] = e.owner[q] /\ d.prior[q] <= 1
    BY <1>3, <1>7
  <2>2. InUse(d, q) /\ d.owner[q] \notin {u}
    BY <1>7, <2>1 DEF InUse
  <2>3. d.owner[q] = c.owner[q] /\ d.prior[q] >= c.prior[q] + IF InReg(c, u) THEN 0 ELSE 1
    BY <1>4, <2>2 DEF Aging
  <2>4. c.prior[q] \in Nat /\ d.prior[q] \in Nat
    BY <1>4, RegsAreNumbers, ContextFields DEF Sound
  <2>5. QED
    BY <2>1, <2>2, <2>3, <2>4 DEF InUse
<1>8. CASE ~InReg(c, u)
  <2>1. \A q \in Temps : e.owner[q] \in {u, v, a, b, b}
    BY <1>6, <1>7, <1>8 DEF Within
  <2>2. QED
    BY <1>3, <1>5, <2>1, SixOwners
<1>9. CASE InReg(c, u)
  <2>1. \A q \in Temps : e.owner[q] \in {u, v, g, h, i, r}
    BY <1>7, <1>9 DEF Within
  <2>2. CASE u = r
    <3>1. \A q \in Temps : e.owner[q] \in {u, v, g, h, i}
      BY <2>1, <2>2
    <3>2. QED
      BY <1>3, <1>5, <3>1, SixOwners
  <2>3. CASE u = l /\ u # r
    <3>1. v # r
      BY <1>3, <1>4, <1>9 DEF InReg
    <3>2. w = r
      BY <1>3, <2>3, <3>1
    <3>3. \A q \in Temps : e.owner[q] # r
      <4>1. ~InReg(e, r) /\ r \in DOMAIN e.vals
        BY <1>3, <1>5, <3>2
      <4>2. QED
        BY <1>5, <4>1, Housed, RegsAreNumbers
    <3>4. \A q \in Temps : e.owner[q] \in {u, v, g, h, i}
      BY <2>1, <3>3
    <3>5. QED
      BY <1>3, <1>5, <3>4, SixOwners
  <2>4. u # x
    BY <1>9
  <2>5. QED
    BY <2>2, <2>3, <2>4
<1>10. QED
  BY <1>8, <1>9

-----------------------------------------------------------------------------
(* Values are pushed and popped. *)

\* d is c with a value without a place for each of decls.
Grown(c, decls, d) ==
  /\ Sound(d) /\ Len(d.vals) = Len(c.vals) + Len(decls)
  /\ \A w \in DOMAIN c.vals : d.vals[w] = c.vals[w]
  /\ \A k \in DOMAIN decls : d.vals[Len(c.vals) + k] = Fresh(decls[k])
  /\ d.owner = c.owner /\ d.prior = c.prior /\ d.held = c.held

LEMMA PushStep ==
  ASSUME NEW c, Sound(c), NEW decls \in Seq(BOOLEAN)
  PROVE  Grown(c, decls, Pushed(c, decls))
<1>1. /\ c \in Context /\ c.vals \in Seq(ValType) /\ Len(c.vals) \in Nat
      /\ DOMAIN c.vals = 1 .. Len(c.vals)
  BY ContextFields DEF Sound
<1>2. PICK t : t = [k \in DOMAIN decls |-> Fresh(decls[k])]
  OBVIOUS
<1>3. /\ Len(decls) \in Nat /\ DOMAIN decls = 1 .. Len(decls)
      /\ \A k \in DOMAIN decls : decls[k] \in BOOLEAN
  OBVIOUS
<1>4. \A k \in DOMAIN decls : Fresh(decls[k]) \in ValType
  BY <1>3, RegsAreNumbers DEF Fresh, ValType
<1>5. t \in Seq(ValType) /\ Len(t) = Len(decls) /\ \A k \in DOMAIN decls : t[k] = Fresh(decls[k])
  BY <1>2, <1>3, <1>4
<1>6. PICK s : s = c.vals \o t
  OBVIOUS
<1>7. /\ s \in Seq(ValType) /\ Len(s) = Len(c.vals) + Len(decls)
      /\ DOMAIN s = 1 .. Len(c.vals) + Len(decls)
      /\ \A w \in DOMAIN c.vals : s[w] = c.vals[w]
      /\ \A k \in DOMAIN decls : s[Len(c.vals) + k] = Fresh(decls[k])
  <2>1. s \in Seq(ValType) /\ Len(s) = Len(c.vals) + Len(decls)
    <3>1. PICK u \in Seq(ValType), m \in Nat : u = c.vals /\ m = Len(decls)
      BY <1>1, <1>3
    <3>2. u \o t \in Seq(ValType) /\ Len(u \o t) = Len(u) + Len(t)
      BY <1>5
    <3>3. QED
      BY <1>5, <1>6, <3>1, <3>2
  <2>2. DOMAIN s = 1 .. Len(c.vals) + Len(decls)
    BY <2>1
  <2>3. \A w \in DOMAIN c.vals : s[w] = c.vals[w]
    BY <1>1, <1>5, <1>6
  <2>4. ASSUME NEW k \in DOMAIN decls PROVE s[Len(c.vals) + k] = Fresh(decls[k])
    <3>1. k \in 1 .. Len(t) /\ t \in Seq(ValType) /\ t[k] = Fresh(decls[k])
      BY <1>3, <1>5
    <3>2. s[Len(c.vals) + k] = t[k]
      BY SMTT(30), <1>1, <1>6, <3>1
    <3>3. QED
      BY <3>1, <3>2
  <2>5. QED
    BY <2>1, <2>2, <2>3, <2>4
<1>8. PICK d : d = [c EXCEPT !.vals = s]
  OBVIOUS
<1>9. d = Pushed(c, decls)
  BY <1>2, <1>6, <1>8 DEF Pushed
<1>10. /\ d \in Context /\ d.vals = s
       /\ d.owner = c.owner /\ d.prior = c.prior /\ d.held = c.held
  BY <1>1, <1>7, <1>8 DEF Context
<1>11. \A w \in DOMAIN s : w \notin DOMAIN c.vals => s[w].where = "none" /\ s[w].cell = 0
  <2>1. SUFFICES ASSUME NEW w \in DOMAIN s, w \notin DOMAIN c.vals
                 PROVE  s[w].where = "none" /\ s[w].cell = 0
    OBVIOUS
  <2>2. PICK k \in DOMAIN decls : w = Len(c.vals) + k
    <3>1. w - Len(c.vals) \in DOMAIN decls /\ w = Len(c.vals) + (w - Len(c.vals))
      BY <1>1, <1>3, <1>7, <2>1
    <3>2. QED
      BY <3>1
  <2>3. s[w] = Fresh(decls[k])
    BY <1>7, <2>2
  <2>4. QED
    BY <2>3 DEF Fresh
<1>12. Sound(d)
  <2>1. \A r \in Regs : c.owner[r] \in Nat /\ c.owner[r] <= Len(c.vals)
                        /\ c.held[r] \in Nat /\ c.held[r] <= Len(c.vals)
    BY ContextFields DEF Sound
  <2>2. \A r \in Regs : d.owner[r] <= Len(s) /\ d.held[r] <= Len(s)
    BY <1>1, <1>3, <1>7, <1>10, <2>1
  <2>3. ASSUME NEW w \in DOMAIN s
        PROVE  /\ s[w].where = "reg" => s[w].reg \in Temps
               /\ s[w].cell <= Len(s) /\ (s[w].where # "stack" => s[w].cell = 0)
    <3>1. CASE w \in DOMAIN c.vals
      <4>1. /\ c.vals[w].where = "reg" => c.vals[w].reg \in Temps
            /\ c.vals[w].cell <= Len(c.vals) /\ (c.vals[w].where # "stack" => c.vals[w].cell = 0)
            /\ c.vals[w].cell \in Nat
        BY <3>1, ContextFields DEF Sound
      <4>2. QED
        BY <1>1, <1>3, <1>7, <3>1, <4>1
    <3>2. CASE w \notin DOMAIN c.vals
      <4>1. 0 <= Len(s)
        BY <1>1, <1>3, <1>7
      <4>2. QED
        BY <1>11, <3>2, <4>1
    <3>3. QED
      BY <3>1, <3>2
  <2>4. ASSUME NEW r \in Regs, NEW w \in DOMAIN s
        PROVE  d.owner[r] = w <=> s[w].where = "reg" /\ s[w].reg = r
    <3>1. CASE w \in DOMAIN c.vals
      BY <1>7, <1>10, <3>1 DEF Sound
    <3>2. CASE w \notin DOMAIN c.vals
      <4>1. d.owner[r] # w
        BY <1>1, <1>7, <1>10, <2>1, <3>2
      <4>2. QED
        BY <1>11, <3>2, <4>1
    <3>3. QED
      BY <3>1, <3>2
  <2>5. QED
    BY <1>10, <2>2, <2>3, <2>4 DEF Sound
<1>13. Grown(c, decls, d)
  BY <1>7, <1>10, <1>12 DEF Grown
<1>14. QED
  BY <1>9, <1>13

\* d is c without the last value, whose register is free.
Shrunk(c, d) ==
  /\ Sound(d) /\ Len(d.vals) = Len(c.vals) - 1
  /\ \A w \in DOMAIN d.vals : w \in DOMAIN c.vals /\ w # Len(c.vals) /\ d.vals[w] = c.vals[w]
  /\ \A w \in DOMAIN d.vals : Holds(c, w) => Holds(d, w)
  /\ \A q \in Temps : InUse(d, q) =>
       d.owner[q] = c.owner[q] /\ d.prior[q] = c.prior[q] /\ d.owner[q] # Len(c.vals)

LEMMA PopStep ==
  ASSUME NEW c, Sound(c), c.vals # <<>>,
         \A w \in DOMAIN c.vals : w # Len(c.vals) /\ c.vals[w].where = "stack" => Holds(c, w)
  PROVE  Shrunk(c, Popped(c))
<1>1. /\ c \in Context /\ c.vals \in Seq(ValType) /\ Len(c.vals) \in Nat /\ Len(c.vals) # 0
      /\ DOMAIN c.vals = 1 .. Len(c.vals)
      /\ c.owner \in [Regs -> Nat] /\ c.prior \in [Regs -> Nat] /\ c.held \in [Regs -> Nat]
  BY ContextFields DEF Sound
<1>2. PICK n \in DOMAIN c.vals : n = Len(c.vals) /\ n - 1 \in Nat
  BY <1>1
<1>3. PICK s : s = SubSeq(c.vals, 1, n - 1)
  OBVIOUS
<1>4. /\ s \in Seq(ValType) /\ Len(s) = n - 1 /\ DOMAIN s = 1 .. n - 1
      /\ \A w \in DOMAIN s : w \in DOMAIN c.vals /\ w # n /\ w < n /\ s[w] = c.vals[w]
  BY <1>1, <1>2, <1>3
<1>5. PICK o : o = [r \in Regs |-> IF Houses(c, r, n) THEN 0 ELSE c.owner[r]]
  OBVIOUS
<1>6. PICK a : a = [r \in Regs |-> IF Houses(c, r, n) THEN 0 ELSE c.prior[r]]
  OBVIOUS
<1>7. PICK h : h = [r \in Regs |-> IF c.held[r] = n THEN 0 ELSE c.held[r]]
  OBVIOUS
<1>8. PICK d : d = Popped(c)
  OBVIOUS
<1>9. d = [vals |-> s, owner |-> o, prior |-> a, held |-> h]
  BY <1>2, <1>3, <1>5, <1>6, <1>7, <1>8 DEF Popped, Front
<1>10. o \in [Regs -> Nat] /\ a \in [Regs -> Nat] /\ h \in [Regs -> Nat]
  BY <1>1, <1>5, <1>6, <1>7
<1>11. d \in Context /\ d.vals = s /\ d.owner = o /\ d.prior = a /\ d.held = h
  BY <1>4, <1>9, <1>10 DEF Context
<1>12. \A r \in Regs : /\ c.owner[r] <= n /\ c.held[r] <= n
                       /\ c.owner[r] = n <=> Houses(c, r, n)
  BY <1>2 DEF Sound, Houses
<1>13. \A r \in Regs : /\ o[r] = IF c.owner[r] = n THEN 0 ELSE c.owner[r]
                       /\ c.owner[r] # n => a[r] = c.prior[r]
                       /\ h[r] = IF c.held[r] = n THEN 0 ELSE c.held[r]
  BY <1>5, <1>6, <1>7, <1>12
<1>14. \A w \in DOMAIN s : c.vals[w].where = "stack" => c.vals[w].cell = w
  BY <1>2, <1>4 DEF Holds
<1>15. Sound(d)
  <2>1. \A r \in Regs : o[r] <= n - 1 /\ h[r] <= n - 1
    BY <1>1, <1>2, <1>12, <1>13
  <2>2. ASSUME NEW w \in DOMAIN s
        PROVE  /\ s[w].where = "reg" => s[w].reg \in Temps
               /\ s[w].cell <= Len(s) /\ (s[w].where # "stack" => s[w].cell = 0)
    <3>1. /\ c.vals[w].where = "reg" => c.vals[w].reg \in Temps
          /\ c.vals[w].where # "stack" => c.vals[w].cell = 0
      BY <1>4 DEF Sound
    <3>2. s[w].cell = 0 \/ s[w].cell = w
      BY <1>4, <1>14, <3>1
    <3>3. w <= Len(s) /\ 0 <= Len(s)
      BY <1>2, <1>4
    <3>4. QED
      BY <1>4, <3>1, <3>2, <3>3
  <2>3. ASSUME NEW r \in Regs, NEW w \in DOMAIN s
        PROVE  o[r] = w <=> s[w].where = "reg" /\ s[w].reg = r
    <3>1. c.owner[r] = w <=> c.vals[w].where = "reg" /\ c.vals[w].reg = r
      BY <1>4 DEF Sound
    <3>2. w # n /\ w # 0 /\ s[w] = c.vals[w]
      BY <1>4
    <3>3. o[r] = w <=> c.owner[r] = w
      BY <1>13, <3>2
    <3>4. QED
      BY <3>1, <3>2, <3>3
  <2>4. QED
    BY <1>4, <1>11, <2>1, <2>2, <2>3 DEF Sound
<1>16. ASSUME NEW w \in DOMAIN s, Holds(c, w)
       PROVE  Holds(d, w)
  <2>1. s[w] = c.vals[w] /\ w # n /\ w \in DOMAIN c.vals
    BY <1>4
  <2>2. CASE c.vals[w].where = "reg" /\ c.held[c.vals[w].reg] = w
    <3>1. c.vals[w].reg \in Regs
      BY <2>1, <1>1, ContextFields
    <3>2. h[c.vals[w].reg] = w
      BY <1>13, <2>1, <2>2, <3>1
    <3>3. QED
      BY <1>11, <2>1, <2>2, <3>2 DEF Holds
  <2>3. CASE c.vals[w].where = "stack" /\ c.vals[w].cell = w
    BY <1>11, <2>1, <2>3 DEF Holds
  <2>4. QED
    BY <1>16, <2>2, <2>3 DEF Holds
<1>17. \A q \in Temps : InUse(d, q) =>
         d.owner[q] = c.owner[q] /\ d.prior[q] = c.prior[q] /\ d.owner[q] # n
  BY <1>11, <1>13, RegsAreNumbers DEF InUse
<1>18. Shrunk(c, d)
  BY <1>2, <1>4, <1>11, <1>15, <1>16, <1>17 DEF Shrunk
<1>19. QED
  BY <1>8, <1>18

-----------------------------------------------------------------------------
(* The stack of values and what is still to be done. *)

Dos   == BinaryOps \cup UnaryOps \cup {"expr", "drop"}
Items == [do : Dos, val : Nat \ {0}]

\* How many values an item pops.
Pops(do) == CASE do \in BinaryOps -> 2
              [] do \in UnaryOps \cup {"drop"} -> 1
              [] OTHER -> 0

\* h[k] is the height of the stack when item k is reached. The value an item
\* computes stays below the operands, and that in front of a binary operator is
\* the right operand.
Heights(c, t, h) ==
  /\ h \in [1 .. Len(t) + 1 -> Nat] /\ h[1] = Len(c.vals)
  /\ \A j, k \in 1 .. Len(t) + 1 : j <= k => h[k] <= h[j]
  /\ \A k \in 1 .. Len(t) :
       /\ h[k] = h[k + 1] + Pops(t[k].do)
       /\ IF t[k].do = "drop" THEN t[k].val = h[k] ELSE t[k].val <= h[k + 1]
       /\ k < Len(t) /\ t[k + 1].do \in BinaryOps => t[k].do # "drop" /\ t[k].val = h[k + 1]
  /\ \A v \in DOMAIN c.vals : c.vals[v].decl <=> v <= h[Len(t) + 1]

Awaited(t, k, v) == t[k].do # "drop" /\ t[k].val = v

\* A value is computed exactly when no item computes it, no two items compute
\* the same one, and one that is not computed has no place.
Pending(c, t) ==
  /\ \A v \in DOMAIN c.vals :
       /\ c.vals[v].done <=> \A k \in 1 .. Len(t) : ~Awaited(t, k, v)
       /\ ~c.vals[v].done => c.vals[v].where = "none"
  /\ \A j, k \in 1 .. Len(t) : t[j].do # "drop" /\ Awaited(t, k, t[j].val) => j = k

Kept(c) == \A v \in DOMAIN c.vals : c.vals[v].done => Holds(c, v)

\* In front of a binary operator the right operand is in a register, and but
\* three of the others are aged less than two turns.
Young(c, t) ==
  t # <<>> /\ t[1].do \in BinaryOps =>
    InReg(c, Len(c.vals)) /\ \E x, y, z : Within(c, {x, y, z, Len(c.vals)}, 1)

Orderly(c, t) ==
  /\ Sound(c) /\ t \in Seq(Items)
  /\ \E h : Heights(c, t, h)
  /\ Pending(c, t) /\ Kept(c) /\ TwoNew(c) /\ Young(c, t)

LEMMA PopsAre ==
  /\ \A do \in BinaryOps : Pops(do) = 2 /\ do # "drop" /\ do # "expr"
  /\ \A do \in UnaryOps : Pops(do) = 1 /\ do # "drop" /\ do # "expr" /\ do \notin BinaryOps
  /\ Pops("drop") = 1 /\ Pops("expr") = 0
  /\ "expr" \notin BinaryOps /\ "drop" \notin BinaryOps
  /\ \A do \in Dos : Pops(do) \in Nat
  BY DEF Pops, BinaryOps, UnaryOps, Dos

LEMMA TailIs ==
  ASSUME NEW S, NEW t \in Seq(S), t # <<>>
  PROVE  /\ Len(t) \in Nat \ {0} /\ t[1] \in S /\ Head(t) = t[1]
         /\ Tail(t) \in Seq(S) /\ Len(Tail(t)) = Len(t) - 1
         /\ \A k \in 1 .. Len(t) - 1 : Tail(t)[k] = t[k + 1]
  OBVIOUS

\* The item at the head: its value has no place yet, and its operands are kept.
LEMMA HeadIs ==
  ASSUME NEW c, NEW t, Orderly(c, t), t # <<>>
  PROVE  /\ t[1].do \in Dos /\ Pops(t[1].do) \in Nat /\ t[1].val \in DOMAIN c.vals
         /\ t[1].do # "drop" =>
              /\ t[1].val <= Len(c.vals) - Pops(t[1].do)
              /\ ~c.vals[t[1].val].done /\ c.vals[t[1].val].where = "none"
         /\ t[1].do = "drop" => t[1].val = Len(c.vals)
         /\ \A w \in DOMAIN c.vals :
              w > Len(c.vals) - Pops(t[1].do) => c.vals[w].done /\ Holds(c, w)
<1>1. t \in Seq(Items) /\ Sound(c) /\ Pending(c, t) /\ Kept(c)
  BY DEF Orderly
<1>2. PICK h : Heights(c, t, h)
  BY DEF Orderly
<1>3. Len(t) \in Nat \ {0} /\ t[1] \in Items /\ \A k \in 1 .. Len(t) : t[k] \in Items
  BY <1>1, TailIs
<1>4. /\ t[1].do \in Dos /\ t[1].val \in Nat \ {0} /\ Pops(t[1].do) \in Nat
      /\ \A k \in 1 .. Len(t) : t[k].do \in Dos /\ t[k].val \in Nat \ {0} /\ Pops(t[k].do) \in Nat
  BY <1>3, PopsAre DEF Items
<1>5. Len(c.vals) \in Nat /\ DOMAIN c.vals = 1 .. Len(c.vals)
      /\ \A w \in DOMAIN c.vals : c.vals[w].done \in BOOLEAN
  BY <1>1, ContextFields DEF Sound
<1>6. /\ 1 \in 1 .. Len(t) /\ 2 \in 1 .. Len(t) + 1 /\ 1 \in 1 .. Len(t) + 1
  BY <1>3
<1>7. /\ h[1] = Len(c.vals) /\ h[2] \in Nat /\ h[1] = h[2] + Pops(t[1].do)
      /\ IF t[1].do = "drop" THEN t[1].val = h[1] ELSE t[1].val <= h[2]
  BY <1>2, <1>6 DEF Heights
<1>8. t[1].val \in DOMAIN c.vals
  BY <1>4, <1>5, <1>7
<1>9. h[2] = Len(c.vals) - Pops(t[1].do)
  BY <1>4, <1>5, <1>7
<1>10. ASSUME t[1].do # "drop"
       PROVE  ~c.vals[t[1].val].done /\ c.vals[t[1].val].where = "none"
  <2>1. Awaited(t, 1, t[1].val)
    BY <1>10 DEF Awaited
  <2>2. QED
    BY <1>1, <1>6, <1>8, <2>1 DEF Pending
<1>11. ASSUME NEW w \in DOMAIN c.vals, w > h[2]
       PROVE  c.vals[w].done /\ Holds(c, w)
  <2>1. \A k \in 1 .. Len(t) : ~Awaited(t, k, w)
    <3>1. SUFFICES ASSUME NEW k \in 1 .. Len(t), t[k].do # "drop" PROVE t[k].val # w
      BY DEF Awaited
    <3>2. k + 1 \in 1 .. Len(t) + 1 /\ 2 <= k + 1 /\ k + 1 \in Nat
      BY <1>3
    <3>3. t[k].val <= h[k + 1] /\ h[k + 1] <= h[2]
      BY <1>2, <1>6, <3>1, <3>2 DEF Heights
    <3>4. t[k].val \in Nat /\ h[k + 1] \in Nat /\ w \in Nat
      <4>1. h \in [1 .. Len(t) + 1 -> Nat]
        BY <1>2 DEF Heights
      <4>2. h[k + 1] \in Nat
        BY <3>2, <4>1
      <4>3. w \in Nat
        BY <1>5
      <4>4. t[k].val \in Nat
        BY <1>4
      <4>5. QED
        BY <4>2, <4>3, <4>4
    <3>5. QED
      BY <1>7, <1>11, <3>3, <3>4
  <2>2. c.vals[w].done
    BY <1>1, <2>1 DEF Pending
  <2>3. QED
    BY <1>1, <2>2 DEF Kept
<1>12. QED
  BY <1>4, <1>7, <1>8, <1>9, <1>10, <1>11

-----------------------------------------------------------------------------
(* The value at the head is computed and its operands are popped. *)

\* p is d without the values above m.
ShrunkTo(d, m, p) ==
  /\ Sound(p) /\ Len(p.vals) = m
  /\ \A w \in DOMAIN p.vals : w \in DOMAIN d.vals /\ w <= m /\ p.vals[w] = d.vals[w]
  /\ \A w \in DOMAIN p.vals : Holds(d, w) => Holds(p, w)
  /\ \A q \in Temps : InUse(p, q) => p.owner[q] = d.owner[q] /\ p.prior[q] = d.prior[q]

\* Popping loses no content of a value that remains.
LEMMA Pops012 ==
  ASSUME NEW d, Sound(d), \A w \in DOMAIN d.vals : d.vals[w].where = "stack" => Holds(d, w)
  PROVE  /\ ShrunkTo(d, Len(d.vals), d)
         /\ Len(d.vals) >= 1 => ShrunkTo(d, Len(d.vals) - 1, Popped(d))
         /\ Len(d.vals) >= 2 => ShrunkTo(d, Len(d.vals) - 2, Popped(Popped(d)))
<1>1. Len(d.vals) \in Nat /\ DOMAIN d.vals = 1 .. Len(d.vals) /\ d.vals \in Seq(ValType)
  BY ContextFields DEF Sound
<1>2. ShrunkTo(d, Len(d.vals), d)
  BY <1>1 DEF ShrunkTo
<1>3. ASSUME NEW e, Sound(e), Len(e.vals) >= 1,
             \A w \in DOMAIN e.vals : e.vals[w].where = "stack" => Holds(e, w)
      PROVE  /\ Shrunk(e, Popped(e)) /\ Len(e.vals) \in Nat /\ DOMAIN e.vals = 1 .. Len(e.vals)
             /\ DOMAIN Popped(e).vals = 1 .. Len(e.vals) - 1
  <2>1. Len(e.vals) \in Nat /\ DOMAIN e.vals = 1 .. Len(e.vals) /\ e.vals \in Seq(ValType)
    BY <1>3, ContextFields DEF Sound
  <2>2. e.vals # <<>>
    BY <1>3, <2>1
  <2>3. PICK p : p = Popped(e)
    OBVIOUS
  <2>4. Shrunk(e, p)
    BY <1>3, <2>2, <2>3, PopStep
  <2>5. DOMAIN p.vals = 1 .. Len(e.vals) - 1
    BY <2>4, ContextFields DEF Shrunk, Sound
  <2>6. QED
    BY <2>1, <2>3, <2>4, <2>5
<1>4. PICK p : p = Popped(d)
  OBVIOUS
<1>5. ASSUME Len(d.vals) >= 1
      PROVE  /\ Shrunk(d, p) /\ DOMAIN p.vals = 1 .. Len(d.vals) - 1
             /\ ShrunkTo(d, Len(d.vals) - 1, p)
  <2>1. Shrunk(d, p) /\ DOMAIN p.vals = 1 .. Len(d.vals) - 1
    BY <1>3, <1>4, <1>5
  <2>2. \A w \in DOMAIN p.vals : w <= Len(d.vals) - 1
    BY <1>1, <2>1
  <2>3. QED
    BY <2>1, <2>2 DEF Shrunk, ShrunkTo
<1>6. ASSUME Len(d.vals) >= 2
      PROVE  ShrunkTo(d, Len(d.vals) - 2, Popped(p))
  <2>1. Shrunk(d, p) /\ DOMAIN p.vals = 1 .. Len(d.vals) - 1
    BY <1>1, <1>5, <1>6
  <2>2. Sound(p) /\ Len(p.vals) = Len(d.vals) - 1 /\ Len(p.vals) >= 1
    BY <1>1, <1>6, <2>1 DEF Shrunk
  <2>3. \A w \in DOMAIN p.vals : p.vals[w].where = "stack" => Holds(p, w)
    BY <2>1 DEF Shrunk
  <2>4. PICK r : r = Popped(p)
    OBVIOUS
  <2>5. Shrunk(p, r) /\ DOMAIN r.vals = 1 .. Len(p.vals) - 1
    BY <1>3, <2>2, <2>3, <2>4
  <2>6. Len(r.vals) = Len(d.vals) - 2 /\ DOMAIN r.vals = 1 .. Len(d.vals) - 2
    BY <1>1, <2>2, <2>5 DEF Shrunk
  <2>7. \A w \in DOMAIN r.vals : w <= Len(d.vals) - 2
    BY <1>1, <2>6
  <2>8. ShrunkTo(d, Len(d.vals) - 2, r)
    BY <2>1, <2>5, <2>6, <2>7 DEF Shrunk, ShrunkTo, InUse
  <2>9. QED
    BY <2>4, <2>8
<1>7. QED
  BY <1>2, <1>4, <1>5, <1>6

\* Two instructions in a row, the first of them into an operand that has its
\* content already or into the same one.
LEMMA ExecutedTwice ==
  ASSUME NEW c, Sound(c), NEW V, NEW x \in DOMAIN c.vals, NEW d, Executed(c, V, x, d),
         NEW W, NEW y \in DOMAIN c.vals, NEW e, Executed(d, W, y, e), W \subseteq DOMAIN c.vals,
         c.vals[x].done \/ x = y
  PROVE  Executed(c, V \cup W, y, e)
<1>1. /\ Sound(d) /\ Len(d.vals) = Len(c.vals) /\ DOMAIN d.vals = DOMAIN c.vals /\ d.vals[x].done
      /\ Aging(c, V, d, 0)
      /\ (\E w \in V : c.vals[w].where = "none") => Aging(c, V, d, 1)
  BY DEF Executed
<1>2. /\ Sound(e) /\ Len(e.vals) = Len(c.vals) /\ DOMAIN e.vals = DOMAIN c.vals
      /\ InReg(e, y) /\ Holds(e, y) /\ e.vals[y].done
      /\ Aging(d, W, e, 0)
      /\ (\E w \in W : d.vals[w].where = "none") => Aging(d, W, e, 1)
  BY <1>1 DEF Executed
<1>3. ASSUME NEW w \in DOMAIN c.vals
      PROVE  /\ Holds(c, w) => Holds(e, w)
             /\ e.vals[w].decl = c.vals[w].decl
             /\ w # y => e.vals[w].done = c.vals[w].done
             /\ w \notin V \cup W /\ c.vals[w].where = "none" => e.vals[w].where = "none"
  <2>1. /\ Holds(c, w) => Holds(d, w)
        /\ d.vals[w].decl = c.vals[w].decl
        /\ w # x => d.vals[w].done = c.vals[w].done
        /\ w \notin V /\ c.vals[w].where = "none" => d.vals[w].where = "none"
    BY DEF Executed
  <2>2. /\ Holds(d, w) => Holds(e, w)
        /\ e.vals[w].decl = d.vals[w].decl
        /\ w # y => e.vals[w].done = d.vals[w].done
        /\ w \notin W /\ d.vals[w].where = "none" => e.vals[w].where = "none"
    BY <1>1 DEF Executed
  <2>3. c.vals[w].done \in BOOLEAN /\ d.vals[w].done \in BOOLEAN
    BY <1>1, ContextFields DEF Sound
  <2>4. w # y => d.vals[w].done = c.vals[w].done
    <3>1. CASE w = x
      BY <1>1, <2>3, <3>1
    <3>2. CASE w # x
      BY <2>1, <3>2
    <3>3. QED
      BY <3>1, <3>2
  <2>5. QED
    BY <2>1, <2>2, <2>4
<1>4. Aging(c, V \cup W, e, 0)
  <2>1. Aging(c, V \cup W, e, 0 + 0)
    BY <1>1, <1>2, AgingAdds
  <2>2. QED
    BY <2>1
<1>5. ASSUME NEW w \in V \cup W, c.vals[w].where = "none"
      PROVE  Aging(c, V \cup W, e, 1)
  <2>1. CASE w \in V
    <3>1. Aging(c, V \cup W, e, 1 + 0)
      BY <1>1, <1>2, <1>5, <2>1, AgingAdds
    <3>2. QED
      BY <3>1
  <2>2. CASE w \in W /\ w \notin V
    <3>1. d.vals[w].where = "none"
      BY <1>5, <2>2 DEF Executed
    <3>2. Aging(c, V \cup W, e, 0 + 1)
      BY <1>1, <1>2, <2>2, <3>1, AgingAdds
    <3>3. QED
      BY <3>2
  <2>3. QED
    BY <2>1, <2>2
<1>6. QED
  BY <1>2, <1>3, <1>4, <1>5 DEF Executed

\* v is the value at the head; it was computed from the operands V, of which
\* e at most remains.
Computed(c, t, V, e, d) ==
  LET v == t[1].val
  IN /\ Executed(c, V, v, d) /\ v \in V /\ V \subseteq DOMAIN c.vals
     /\ \A w \in V : w = v \/ c.vals[w].done
     /\ \A w \in V : w <= Len(c.vals) - Pops(t[1].do) => w \in {v, e}

LEMMA ComputedKeeps ==
  ASSUME NEW c, NEW t, Orderly(c, t), t # <<>>, t[1].do # "drop",
         NEW V, NEW e, NEW d, Computed(c, t, V, e, d)
  PROVE  /\ Sound(d) /\ Len(d.vals) = Len(c.vals) /\ DOMAIN d.vals = DOMAIN c.vals
         /\ \A w \in DOMAIN d.vals : d.vals[w].done => Holds(d, w)
         /\ \A w \in DOMAIN d.vals : ~d.vals[w].done => d.vals[w].where = "none"
         /\ \A w \in DOMAIN d.vals : d.vals[w].where = "stack" => Holds(d, w)
<1>1. PICK v : v = t[1].val
  OBVIOUS
<1>2. /\ Executed(c, V, v, d) /\ \A w \in V : w = v \/ c.vals[w].done
  BY <1>1 DEF Computed
<1>3. /\ Sound(d) /\ Len(d.vals) = Len(c.vals) /\ DOMAIN d.vals = DOMAIN c.vals
      /\ Holds(d, v) /\ d.vals[v].done
      /\ \A w \in DOMAIN c.vals :
           /\ Holds(c, w) => Holds(d, w)
           /\ w # v => d.vals[w].done = c.vals[w].done
           /\ w \notin V /\ c.vals[w].where = "none" => d.vals[w].where = "none"
  BY <1>2 DEF Executed
<1>4. Kept(c) /\ Pending(c, t)
  BY DEF Orderly
<1>5. \A w \in DOMAIN d.vals : d.vals[w].done => Holds(d, w)
  BY <1>3, <1>4 DEF Kept
<1>6. \A w \in DOMAIN d.vals : ~d.vals[w].done => d.vals[w].where = "none"
  BY <1>2, <1>3, <1>4 DEF Pending
<1>7. QED
  BY <1>3, <1>5, <1>6

\* The ages after an item: what it leaves of its operands is new, the registers
\* that were new are aged one turn, and all others more.
LEMMA ComputedAges ==
  ASSUME NEW c, NEW t, Orderly(c, t), t # <<>>, t[1].do # "drop",
         NEW V, NEW e, NEW d, Computed(c, t, V, e, d),
         NEW p, ShrunkTo(d, Len(c.vals) - Pops(t[1].do), p)
  PROVE  TwoNew(p) /\ \E x, y, z : Within(p, {x, y, z, t[1].val}, 1)
<1>1. PICK v : v = t[1].val
  OBVIOUS
<1>2. PICK m : m = Len(c.vals) - Pops(t[1].do)
  OBVIOUS
<1>3. /\ Executed(c, V, v, d) /\ v \in V /\ \A w \in V : w <= m => w \in {v, e}
  BY <1>1, <1>2 DEF Computed
<1>4. Sound(c) /\ Sound(d) /\ Sound(p) /\ DOMAIN p.vals = 1 .. m /\ Len(p.vals) = m
  BY <1>2, <1>3, ContextFields DEF Orderly, Executed, ShrunkTo, Sound
<1>5. Aging(c, V, d, 1)
  <2>1. c.vals[v].where = "none"
    BY <1>1, HeadIs
  <2>2. QED
    BY <1>3, <2>1 DEF Executed
<1>6. PICK a, b : Within(c, {a, b}, 0)
  BY DEF Orderly, TwoNew
<1>7. Within(d, V, 0) /\ Within(d, {a, b} \cup V, 1)
  <2>1. PICK S : S = {a, b}
    OBVIOUS
  <2>2. PICK n \in Nat, k \in Nat : n = 1 /\ k = 0
    OBVIOUS
  <2>3. Aging(c, V, d, n) /\ Within(c, S, k) /\ n > k
    BY <1>5, <1>6, <2>1, <2>2
  <2>4. Within(d, S \cup V, k + n) /\ Within(d, V, k)
    BY <1>4, <2>3, AgingWithin
  <2>5. k + n = 1
    BY <2>2
  <2>6. QED
    BY <2>1, <2>2, <2>4, <2>5
<1>8. ASSUME NEW q \in Temps, InUse(p, q)
      PROVE  /\ InUse(d, q) /\ p.owner[q] = d.owner[q] /\ p.prior[q] = d.prior[q]
             /\ p.owner[q] <= m
  BY <1>2, <1>4, <1>8, RegsAreNumbers DEF ShrunkTo, InUse, Sound
<1>9. Within(p, {v, e}, 0)
  BY <1>3, <1>7, <1>8 DEF Within
<1>10. Within(p, {a, b, e, v}, 1)
  BY <1>3, <1>7, <1>8 DEF Within
<1>11. QED
  BY <1>1, <1>9, <1>10, Zenon DEF TwoNew

\* The heights behind the item at the head.
LEMMA TailHeights ==
  ASSUME NEW c, NEW t, Orderly(c, t), t # <<>>,
         NEW p, Sound(p), Len(p.vals) = Len(c.vals) - Pops(t[1].do),
         \A w \in DOMAIN p.vals : w \in DOMAIN c.vals /\ p.vals[w].decl = c.vals[w].decl
  PROVE  \E g : Heights(p, Tail(t), g)
<1>1. PICK u : u = Tail(t)
  OBVIOUS
<1>2. /\ t \in Seq(Items) /\ Len(t) \in Nat \ {0} /\ u \in Seq(Items) /\ Len(u) = Len(t) - 1
      /\ \A k \in 1 .. Len(t) - 1 : u[k] = t[k + 1]
  BY <1>1, TailIs DEF Orderly
<1>3. PICK h : Heights(c, t, h)
  BY DEF Orderly
<1>4. /\ h \in [1 .. Len(t) + 1 -> Nat] /\ h[1] = Len(c.vals)
      /\ h[1] = h[2] + Pops(t[1].do)
  <2>1. 1 \in 1 .. Len(t)
    BY <1>2
  <2>2. QED
    BY <1>3, <2>1 DEF Heights
<1>5. Len(p.vals) = h[2]
  <2>1. 2 \in 1 .. Len(t) + 1
    BY <1>2
  <2>2. h[2] \in Nat
    BY <1>4, <2>1
  <2>3. Pops(t[1].do) \in Nat
    BY HeadIs
  <2>4. QED
    BY <1>4, <2>2, <2>3
<1> DEFINE g == [k \in 1 .. Len(u) + 1 |-> h[k + 1]]
<1>6. g \in [1 .. Len(u) + 1 -> Nat] /\ g[1] = Len(p.vals)
  BY <1>2, <1>4, <1>5
<1>7. \A j, k \in 1 .. Len(u) + 1 : j <= k => g[k] <= g[j]
  <2>1. TAKE j, k \in 1 .. Len(u) + 1
  <2>2. j + 1 \in 1 .. Len(t) + 1 /\ k + 1 \in 1 .. Len(t) + 1
        /\ (j <= k => j + 1 <= k + 1)
    BY <1>2
  <2>3. QED
    BY <1>3, <2>2 DEF Heights
<1>8. ASSUME NEW k \in 1 .. Len(u)
      PROVE  /\ g[k] = g[k + 1] + Pops(u[k].do)
             /\ IF u[k].do = "drop" THEN u[k].val = g[k] ELSE u[k].val <= g[k + 1]
             /\ k < Len(u) /\ u[k + 1].do \in BinaryOps =>
                  u[k].do # "drop" /\ u[k].val = g[k + 1]
  <2>1. PICK l \in 1 .. Len(t) : l = k + 1
    BY <1>2
  <2>2. /\ h[l] = h[l + 1] + Pops(t[l].do)
        /\ IF t[l].do = "drop" THEN t[l].val = h[l] ELSE t[l].val <= h[l + 1]
        /\ l < Len(t) /\ t[l + 1].do \in BinaryOps => t[l].do # "drop" /\ t[l].val = h[l + 1]
    BY <1>3 DEF Heights
  <2>3. u[k] = t[l] /\ g[k] = h[l] /\ g[k + 1] = h[l + 1]
    BY <1>2, <2>1
  <2>4. k < Len(u) => l < Len(t) /\ u[k + 1] = t[l + 1]
    BY <1>2, <2>1
  <2>5. QED
    BY <2>2, <2>3, <2>4
<1>9. ASSUME NEW w \in DOMAIN p.vals
      PROVE  p.vals[w].decl <=> w <= g[Len(u) + 1]
  <2>1. c.vals[w].decl <=> w <= h[Len(t) + 1]
    BY <1>3 DEF Heights
  <2>2. g[Len(u) + 1] = h[Len(t) + 1]
    BY <1>2
  <2>3. QED
    BY <2>1, <2>2
<1>10. Heights(p, u, g)
  BY <1>6, <1>7, <1>8, <1>9 DEF Heights
<1>11. QED
  BY <1>1, <1>10

\* An item that computes a value leaves everything in order.
LEMMA FinishingKeeps ==
  ASSUME NEW c, NEW t, Orderly(c, t), t # <<>>, t[1].do # "drop",
         NEW V, NEW e, NEW d, Computed(c, t, V, e, d),
         NEW p, ShrunkTo(d, Len(c.vals) - Pops(t[1].do), p)
  PROVE  Orderly(p, Tail(t))
<1>1. PICK v : v = t[1].val
  OBVIOUS
<1>2. PICK m : m = Len(c.vals) - Pops(t[1].do)
  OBVIOUS
<1>3. PICK u : u = Tail(t)
  OBVIOUS
<1>4. /\ t \in Seq(Items) /\ Len(t) \in Nat \ {0} /\ u \in Seq(Items) /\ Len(u) = Len(t) - 1
      /\ \A k \in 1 .. Len(t) - 1 : u[k] = t[k + 1]
  BY <1>3, TailIs DEF Orderly
<1>5. PICK h : Heights(c, t, h)
  BY DEF Orderly
<1>6. /\ h \in [1 .. Len(t) + 1 -> Nat] /\ h[1] = Len(c.vals)
      /\ h[1] = h[2] + Pops(t[1].do) /\ v <= h[2]
      /\ 1 < Len(t) /\ t[2].do \in BinaryOps => v = h[2]
  <2>1. 1 \in 1 .. Len(t)
    BY <1>4
  <2>2. QED
    BY <1>1, <1>5, <2>1 DEF Heights
<1>7. m = h[2] /\ m \in Nat
  <2>1. 2 \in 1 .. Len(t) + 1
    BY <1>4
  <2>2. h[2] \in Nat
    BY <1>6, <2>1
  <2>3. Pops(t[1].do) \in Nat
    BY HeadIs
  <2>4. QED
    BY <1>2, <1>6, <2>2, <2>3
<1>8. /\ Sound(p) /\ Len(p.vals) = m /\ DOMAIN p.vals = 1 .. m
      /\ \A w \in DOMAIN p.vals : w \in DOMAIN d.vals /\ p.vals[w] = d.vals[w]
      /\ \A w \in DOMAIN p.vals : Holds(d, w) => Holds(p, w)
  BY <1>2, ContextFields DEF ShrunkTo, Sound
<1>9. /\ Executed(c, V, v, d) /\ v \in V /\ \A w \in V : w = v \/ c.vals[w].done
  BY <1>1 DEF Computed
<1>10. /\ DOMAIN d.vals = DOMAIN c.vals /\ InReg(d, v) /\ d.vals[v].done
       /\ \A w \in DOMAIN c.vals :
            /\ d.vals[w].decl = c.vals[w].decl
            /\ w # v => d.vals[w].done = c.vals[w].done
  BY <1>9 DEF Executed
<1>11. /\ \A w \in DOMAIN d.vals : d.vals[w].done => Holds(d, w)
       /\ \A w \in DOMAIN d.vals : ~d.vals[w].done => d.vals[w].where = "none"
  BY ComputedKeeps
<1>12. v \in DOMAIN c.vals /\ v \in 1 .. m
  <2>1. v \in DOMAIN c.vals /\ v <= m
    BY <1>1, <1>2, HeadIs
  <2>2. v \in Nat \ {0}
    BY <2>1, ContextFields DEF Orderly, Sound
  <2>3. QED
    BY <1>7, <2>1, <2>2
<1>13. \E g : Heights(p, u, g)
  <2>1. \A w \in DOMAIN p.vals : w \in DOMAIN c.vals /\ p.vals[w].decl = c.vals[w].decl
    BY <1>8, <1>10
  <2>2. QED
    BY <1>2, <1>3, <1>8, <2>1, TailHeights
<1>14. Pending(c, t) /\ Awaited(t, 1, v)
  BY <1>1 DEF Orderly, Awaited
<1>15. Pending(p, u)
  <2>1. ASSUME NEW w \in DOMAIN p.vals
        PROVE  p.vals[w].done <=> \A k \in 1 .. Len(u) : ~Awaited(u, k, w)
    <3>1. (\A k \in 1 .. Len(u) : ~Awaited(u, k, w))
            <=> \A k \in 2 .. Len(t) : ~Awaited(t, k, w)
      <4>1. \A k \in 1 .. Len(u) : Awaited(u, k, w) <=> Awaited(t, k + 1, w)
        BY <1>4 DEF Awaited
      <4>2. \A k \in 1 .. Len(u) : k + 1 \in 2 .. Len(t)
        BY <1>4
      <4>3. \A k \in 2 .. Len(t) : k - 1 \in 1 .. Len(u) /\ (k - 1) + 1 = k
        BY <1>4
      <4>4. ASSUME \A k \in 1 .. Len(u) : ~Awaited(u, k, w), NEW k \in 2 .. Len(t)
            PROVE  ~Awaited(t, k, w)
        <5>1. PICK l \in 1 .. Len(u) : l + 1 = k
          BY <4>3
        <5>2. QED
          BY <4>1, <4>4, <5>1
      <4>5. QED
        BY <4>1, <4>2, <4>4
    <3>2. \A k \in 1 .. Len(t) : k = 1 \/ k \in 2 .. Len(t)
      BY <1>4
    <3>3. 1 \in 1 .. Len(t) /\ \A k \in 2 .. Len(t) : k \in 1 .. Len(t) /\ k # 1
      BY <1>4
    <3>4. CASE w = v
      <4>1. \A k \in 2 .. Len(t) : ~Awaited(t, k, v)
        BY <1>1, <1>14, <3>3 DEF Pending, Awaited
      <4>2. QED
        BY <1>8, <1>10, <3>1, <3>4, <4>1
    <3>5. CASE w # v
      <4>1. ~Awaited(t, 1, w)
        BY <1>1, <3>5 DEF Awaited
      <4>2. c.vals[w].done <=> \A k \in 1 .. Len(t) : ~Awaited(t, k, w)
        BY <1>8, <1>10, <1>14 DEF Pending
      <4>3. p.vals[w].done = c.vals[w].done
        BY <1>8, <1>10, <3>5
      <4>4. QED
        BY <3>1, <3>2, <3>3, <4>1, <4>2, <4>3
    <3>6. QED
      BY <3>4, <3>5
  <2>2. \A w \in DOMAIN p.vals : ~p.vals[w].done => p.vals[w].where = "none"
    BY <1>8, <1>11
  <2>3. ASSUME NEW j \in 1 .. Len(u), NEW k \in 1 .. Len(u), u[j].do # "drop",
               Awaited(u, k, u[j].val)
        PROVE  j = k
    <3>1. j + 1 \in 1 .. Len(t) /\ k + 1 \in 1 .. Len(t) /\ u[j] = t[j + 1] /\ u[k] = t[k + 1]
      BY <1>4
    <3>2. t[j + 1].do # "drop" /\ Awaited(t, k + 1, t[j + 1].val)
      BY <2>3, <3>1 DEF Awaited
    <3>3. j + 1 = k + 1
      BY <1>14, <3>1, <3>2 DEF Pending
    <3>4. QED
      BY <3>3
  <2>4. QED
    BY <2>1, <2>2, <2>3 DEF Pending
<1>16. Kept(p)
  BY <1>8, <1>11 DEF Kept
<1>17. TwoNew(p) /\ \E x, y, z : Within(p, {x, y, z, v}, 1)
  BY <1>1, ComputedAges
<1>18. Young(p, u)
  <2>1. SUFFICES ASSUME u # <<>>, u[1].do \in BinaryOps
                 PROVE  InReg(p, Len(p.vals)) /\ \E x, y, z : Within(p, {x, y, z, Len(p.vals)}, 1)
    BY DEF Young
  <2>2. 1 < Len(t) /\ u[1] = t[2]
    BY <1>4, <2>1
  <2>3. v = m
    BY <1>6, <1>7, <2>1, <2>2
  <2>4. InReg(p, v)
    BY <1>8, <1>10, <1>12 DEF InReg
  <2>5. QED
    BY <1>8, <1>17, <2>3, <2>4
<1>19. QED
  BY <1>3, <1>4, <1>8, <1>13, <1>15, <1>16, <1>17, <1>18 DEF Orderly

\* A value whose expression statement is over is dropped.
LEMMA DroppingKeeps ==
  ASSUME NEW c, NEW t, Orderly(c, t), t # <<>>, t[1].do = "drop",
         NEW p, ShrunkTo(c, Len(c.vals) - 1, p)
  PROVE  Orderly(p, Tail(t))
<1>1. PICK u : u = Tail(t)
  OBVIOUS
<1>2. PICK m : m = Len(c.vals) - 1
  OBVIOUS
<1>3. /\ t \in Seq(Items) /\ Len(t) \in Nat \ {0} /\ u \in Seq(Items) /\ Len(u) = Len(t) - 1
      /\ \A k \in 1 .. Len(t) - 1 : u[k] = t[k + 1]
  BY <1>1, TailIs DEF Orderly
<1>4. /\ Sound(p) /\ Len(p.vals) = m /\ DOMAIN p.vals = 1 .. m
      /\ \A w \in DOMAIN p.vals : w \in DOMAIN c.vals /\ p.vals[w] = c.vals[w]
      /\ \A w \in DOMAIN p.vals : Holds(c, w) => Holds(p, w)
      /\ \A q \in Temps : InUse(p, q) => p.owner[q] = c.owner[q] /\ p.prior[q] = c.prior[q]
  BY <1>2, ContextFields DEF ShrunkTo, Sound
<1>5. Pops(t[1].do) = 1
  BY PopsAre
<1>6. \E g : Heights(p, u, g)
  BY <1>1, <1>2, <1>4, <1>5, TailHeights
<1>7. Pending(c, t) /\ Kept(c) /\ TwoNew(c)
  BY DEF Orderly
<1>8. Pending(p, u)
  <2>1. ASSUME NEW w \in DOMAIN p.vals
        PROVE  p.vals[w].done <=> \A k \in 1 .. Len(u) : ~Awaited(u, k, w)
    <3>1. \A k \in 1 .. Len(u) : k + 1 \in 1 .. Len(t)
          /\ (Awaited(u, k, w) <=> Awaited(t, k + 1, w))
      BY <1>3 DEF Awaited
    <3>2. \A k \in 1 .. Len(t) : k = 1 \/ (k - 1 \in 1 .. Len(u) /\ (k - 1) + 1 = k)
      BY <1>3
    <3>3. ~Awaited(t, 1, w)
      BY DEF Awaited
    <3>4. ASSUME \A k \in 1 .. Len(u) : ~Awaited(u, k, w), NEW k \in 1 .. Len(t)
          PROVE  ~Awaited(t, k, w)
      <4>1. CASE k = 1
        BY <3>3, <4>1
      <4>2. CASE k # 1
        <5>1. PICK l \in 1 .. Len(u) : l + 1 = k
          BY <3>2, <4>2
        <5>2. QED
          BY <3>1, <3>4, <5>1
      <4>3. QED
        BY <4>1, <4>2
    <3>5. c.vals[w].done <=> \A k \in 1 .. Len(t) : ~Awaited(t, k, w)
      BY <1>4, <1>7 DEF Pending
    <3>6. p.vals[w].done <=> c.vals[w].done
      BY <1>4
    <3>7. QED
      BY <3>1, <3>4, <3>5, <3>6
  <2>2. \A w \in DOMAIN p.vals : ~p.vals[w].done => p.vals[w].where = "none"
    BY <1>4, <1>7 DEF Pending
  <2>3. ASSUME NEW j \in 1 .. Len(u), NEW k \in 1 .. Len(u), u[j].do # "drop",
               Awaited(u, k, u[j].val)
        PROVE  j = k
    <3>1. j + 1 \in 1 .. Len(t) /\ k + 1 \in 1 .. Len(t) /\ u[j] = t[j + 1] /\ u[k] = t[k + 1]
      BY <1>3
    <3>2. t[j + 1].do # "drop" /\ Awaited(t, k + 1, t[j + 1].val)
      BY <2>3, <3>1 DEF Awaited
    <3>3. j + 1 = k + 1
      BY <1>7, <3>1, <3>2 DEF Pending
    <3>4. QED
      BY <3>3
  <2>4. QED
    BY <2>1, <2>2, <2>3 DEF Pending
<1>9. Kept(p)
  BY <1>4, <1>7 DEF Kept
<1>10. TwoNew(p)
  BY <1>4, <1>7 DEF TwoNew, Within, InUse
<1>11. Young(p, u)
  <2>1. SUFFICES ASSUME u # <<>>, u[1].do \in BinaryOps PROVE FALSE
    BY DEF Young
  <2>2. 1 < Len(t) /\ u[1] = t[2] /\ 1 \in 1 .. Len(t)
    BY <1>3, <2>1
  <2>3. PICK h : Heights(c, t, h)
    BY DEF Orderly
  <2>4. QED
    BY <2>1, <2>2, <2>3 DEF Heights
<1>12. QED
  BY <1>1, <1>3, <1>4, <1>6, <1>8, <1>9, <1>10, <1>11 DEF Orderly

\* u is t with the operands of op in front, n + 1 up to n + r, and op itself in
\* the place of the expression at the head.
Expanded(t, op, n, u) ==
  LET r == Pops(op)
  IN /\ u \in Seq(Items) /\ Len(u) = Len(t) + r
     /\ \A k \in 1 .. r : u[k] = Expr(n + k)
     /\ u[r + 1] = [do |-> op, val |-> t[1].val]
     /\ \A k \in 2 .. Len(t) : u[k + r] = t[k]

\* An operator puts its operands on the stack and in front of it.
LEMMA ExpandingKeeps ==
  ASSUME NEW c, NEW t, Orderly(c, t), t # <<>>, t[1].do = "expr",
         NEW op \in BinaryOps \cup UnaryOps,
         NEW decls \in Seq(BOOLEAN), Len(decls) = Pops(op), \A k \in DOMAIN decls : ~decls[k],
         NEW d, Grown(c, decls, d),
         NEW u, Expanded(t, op, Len(c.vals), u)
  PROVE  Orderly(d, u)
<1>1. PICK n \in Nat : n = Len(c.vals)
  BY ContextFields DEF Orderly, Sound
<1>2. PICK r \in {1, 2} : r = Pops(op)
  BY PopsAre
<1>3. PICK v : v = t[1].val
  OBVIOUS
<1>4. /\ Len(t) \in Nat \ {0} /\ u \in Seq(Items) /\ Len(u) = Len(t) + r
      /\ \A k \in 1 .. r : u[k].do = "expr" /\ u[k].val = n + k
      /\ u[r + 1].do = op /\ u[r + 1].val = v
      /\ \A k \in 2 .. Len(t) : u[k + r] = t[k]
  <2>1. /\ u \in Seq(Items) /\ Len(u) = Len(t) + r
        /\ \A k \in 1 .. r : u[k] = Expr(n + k)
        /\ u[r + 1] = [do |-> op, val |-> v]
        /\ \A k \in 2 .. Len(t) : u[k + r] = t[k]
    BY <1>1, <1>2, <1>3 DEF Expanded
  <2>2. Len(t) \in Nat \ {0}
    BY TailIs DEF Orderly
  <2>3. \A k \in 1 .. r : u[k].do = "expr" /\ u[k].val = n + k
    <3>1. TAKE k \in 1 .. r
    <3>2. u[k] = [do |-> "expr", val |-> n + k]
      BY <2>1 DEF Expr
    <3>3. QED
      BY <3>2
  <2>4. u[r + 1].do = op /\ u[r + 1].val = v
    BY <2>1
  <2>5. QED
    BY <2>1, <2>2, <2>3, <2>4
<1>5. op \in Dos /\ op # "drop" /\ op # "expr" /\ Pops("expr") = 0 /\ "expr" \notin BinaryOps
  BY PopsAre DEF Dos
<1>6. /\ Sound(d) /\ Len(d.vals) = n + r /\ DOMAIN d.vals = 1 .. n + r /\ DOMAIN c.vals = 1 .. n
      /\ \A w \in 1 .. n : d.vals[w] = c.vals[w]
      /\ d.owner = c.owner /\ d.prior = c.prior /\ d.held = c.held
  BY <1>1, <1>2, ContextFields DEF Grown, Sound, Orderly
<1>7. \A w \in 1 .. n + r : w \notin 1 .. n =>
        /\ w - n \in 1 .. r /\ w = n + (w - n)
        /\ ~d.vals[w].done /\ ~d.vals[w].decl /\ d.vals[w].where = "none"
  <2>1. SUFFICES ASSUME NEW w \in 1 .. n + r, w \notin 1 .. n
                 PROVE  /\ w - n \in 1 .. r /\ w = n + (w - n)
                        /\ ~d.vals[w].done /\ ~d.vals[w].decl /\ d.vals[w].where = "none"
    OBVIOUS
  <2>2. PICK k \in 1 .. r : k = w - n /\ w = n + k
    BY <2>1
  <2>3. k \in DOMAIN decls
    BY <1>2
  <2>4. d.vals[w] = Fresh(decls[k]) /\ ~decls[k]
    BY <1>1, <2>2, <2>3 DEF Grown
  <2>5. ~d.vals[w].done /\ d.vals[w].where = "none"
    BY <2>4 DEF Fresh
  <2>6. ~d.vals[w].decl
    BY <2>4 DEF Fresh
  <2>7. QED
    BY <2>2, <2>5, <2>6
<1>8. PICK h : Heights(c, t, h)
  BY DEF Orderly
<1>9. /\ h \in [1 .. Len(t) + 1 -> Nat] /\ h[1] = n /\ h[2] = n
      /\ 1 \in 1 .. Len(t) + 1 /\ 2 \in 1 .. Len(t) + 1
      /\ v <= n /\ (1 < Len(t) /\ t[2].do \in BinaryOps => v = n)
  <2>1. 1 \in 1 .. Len(t) /\ 1 \in 1 .. Len(t) + 1 /\ 2 \in 1 .. Len(t) + 1
    BY <1>4
  <2>2. /\ h \in [1 .. Len(t) + 1 -> Nat] /\ h[1] = n /\ h[1] = h[2] + 0
        /\ v <= h[2] /\ (1 < Len(t) /\ t[2].do \in BinaryOps => v = h[2])
    BY <1>1, <1>3, <1>5, <1>8, <2>1 DEF Heights
  <2>3. h[2] \in Nat
    BY <2>1, <2>2
  <2>4. QED
    BY <2>1, <2>2, <2>3
<1> DEFINE g == [k \in 1 .. Len(u) + 1 |-> IF k <= r + 1 THEN n + r ELSE h[k - r]]
<1>10. /\ \A k \in 1 .. r + 1 : g[k] = n + r
       /\ \A l \in 2 .. Len(t) + 1 : g[l + r] = h[l] /\ l + r \in 1 .. Len(u) + 1
  BY <1>4
<1>11. \A k \in 1 .. Len(u) + 1 : k \in 1 .. r + 1 \/ (k - r \in 2 .. Len(t) + 1 /\ (k - r) + r = k)
  BY <1>4
<1>12. Heights(d, u, g)
  <2>1. g \in [1 .. Len(u) + 1 -> Nat] /\ g[1] = n + r
    <3>1. \A k \in 1 .. Len(u) + 1 : g[k] \in Nat
      <4>1. TAKE k \in 1 .. Len(u) + 1
      <4>2. CASE k \in 1 .. r + 1
        BY <1>10, <4>2
      <4>3. CASE k - r \in 2 .. Len(t) + 1 /\ (k - r) + r = k
        <5>1. PICK l \in 2 .. Len(t) + 1 : l + r = k
          BY <4>3
        <5>2. h[l] \in Nat
          BY <1>9
        <5>3. QED
          BY <1>10, <5>1, <5>2
      <4>4. QED
        BY <1>11, <4>2, <4>3
    <3>2. QED
      BY <1>4, <1>10, <3>1
  <2>2. ASSUME NEW j \in 1 .. Len(u) + 1, NEW k \in 1 .. Len(u) + 1, j <= k
        PROVE  g[k] <= g[j]
    <3>1. CASE k \in 1 .. r + 1
      BY <1>10, <2>2, <3>1
    <3>2. CASE k - r \in 2 .. Len(t) + 1 /\ (k - r) + r = k
      <4>1. PICK l \in 2 .. Len(t) + 1 : l = k - r /\ l + r = k
        BY <3>2
      <4>2. g[k] = h[l] /\ h[l] \in Nat
        BY <1>9, <1>10, <4>1
      <4>3. CASE j \in 1 .. r + 1
        <5>1. 2 <= l /\ l \in 1 .. Len(t) + 1
          BY <4>1
        <5>2. h[l] <= h[2]
          BY <1>8, <1>9, <5>1 DEF Heights
        <5>3. QED
          BY <1>9, <1>10, <4>2, <4>3, <5>2
      <4>4. CASE j - r \in 2 .. Len(t) + 1 /\ (j - r) + r = j
        <5>1. PICK i \in 2 .. Len(t) + 1 : i = j - r /\ i + r = j
          BY <4>4
        <5>2. i <= l /\ i \in 1 .. Len(t) + 1 /\ l \in 1 .. Len(t) + 1
          BY <2>2, <4>1, <5>1
        <5>3. h[l] <= h[i]
          BY <1>8, <5>2 DEF Heights
        <5>4. QED
          BY <1>10, <4>2, <5>1, <5>3
      <4>5. QED
        BY <1>11, <4>3, <4>4
    <3>3. QED
      BY <1>11, <3>1, <3>2
  <2>3. ASSUME NEW k \in 1 .. Len(u)
        PROVE  /\ g[k] = g[k + 1] + Pops(u[k].do)
               /\ IF u[k].do = "drop" THEN u[k].val = g[k] ELSE u[k].val <= g[k + 1]
               /\ k < Len(u) /\ u[k + 1].do \in BinaryOps =>
                    u[k].do # "drop" /\ u[k].val = g[k + 1]
    <3>1. CASE k \in 1 .. r
      <4>1. k \in 1 .. r + 1 /\ k + 1 \in 1 .. r + 1 /\ (k # r => k + 1 \in 1 .. r)
        BY <3>1
      <4>2. g[k] = n + r /\ g[k + 1] = n + r /\ u[k].do = "expr" /\ u[k].val = n + k
        BY <1>4, <1>10, <3>1, <4>1
      <4>3. u[k + 1].do \in BinaryOps => k = r
        BY <1>4, <1>5, <4>1
      <4>4. QED
        BY SMTT(30), <1>5, <3>1, <4>2, <4>3
    <3>2. CASE k = r + 1
      <4>1. g[k] = n + r /\ g[k + 1] = n /\ u[k].do = op /\ u[k].val = v
        <5>1. 2 \in 2 .. Len(t) + 1 /\ k + 1 = 2 + r /\ k \in 1 .. r + 1
          BY <1>4, <3>2
        <5>2. g[k] = n + r
          BY <1>10, <5>1
        <5>3. g[k + 1] = h[2]
          BY <1>10, <5>1
        <5>4. u[k].do = op /\ u[k].val = v
          BY <1>4, <3>2
        <5>5. QED
          BY <1>9, <5>2, <5>3, <5>4
      <4>2. k < Len(u) => 1 < Len(t) /\ u[k + 1] = t[2]
        <5>1. k < Len(u) => 2 \in 2 .. Len(t) /\ k + 1 = 2 + r
          BY <1>4, <3>2
        <5>2. QED
          BY <1>4, <5>1
      <4>3. QED
        BY <1>2, <1>5, <1>9, <4>1, <4>2
    <3>3. CASE k \notin 1 .. r + 1
      <4>1. PICK l \in 2 .. Len(t) : l + r = k
        <5>1. k - r \in 2 .. Len(t) /\ (k - r) + r = k
          BY <1>4, <3>3
        <5>2. QED
          BY <5>1
      <4>2. l \in 1 .. Len(t) /\ l \in 2 .. Len(t) + 1 /\ l + 1 \in 2 .. Len(t) + 1
            /\ (l + 1) + r = k + 1
        BY <1>4, <4>1
      <4>3. g[k] = h[l] /\ g[k + 1] = h[l + 1] /\ u[k] = t[l]
        BY <1>4, <1>10, <4>1, <4>2
      <4>4. k < Len(u) => l < Len(t) /\ u[k + 1] = t[l + 1]
        <5>1. k < Len(u) => l < Len(t) /\ l + 1 \in 2 .. Len(t)
          BY <1>4, <4>1
        <5>2. QED
          BY SMTT(30), <1>4, <4>2, <5>1
      <4>5. /\ h[l] = h[l + 1] + Pops(t[l].do)
            /\ IF t[l].do = "drop" THEN t[l].val = h[l] ELSE t[l].val <= h[l + 1]
            /\ l < Len(t) /\ t[l + 1].do \in BinaryOps => t[l].do # "drop" /\ t[l].val = h[l + 1]
        BY <1>8, <4>2 DEF Heights
      <4>6. QED
        BY <4>3, <4>4, <4>5
    <3>4. QED
      <4>1. k \in 1 .. r \/ k = r + 1 \/ k \notin 1 .. r + 1
        OBVIOUS
      <4>2. QED
        BY <3>1, <3>2, <3>3, <4>1
  <2>4. ASSUME NEW w \in DOMAIN d.vals
        PROVE  d.vals[w].decl <=> w <= g[Len(u) + 1]
    <3>1. g[Len(u) + 1] = h[Len(t) + 1] /\ Len(t) + 1 \in 2 .. Len(t) + 1
      <4>1. Len(t) + 1 \in 2 .. Len(t) + 1 /\ Len(u) + 1 = (Len(t) + 1) + r
        BY <1>4
      <4>2. QED
        BY <1>10, <4>1
    <3>2. CASE w \in 1 .. n
      BY <1>6, <1>8, <3>1, <3>2 DEF Heights
    <3>3. CASE w \notin 1 .. n
      <4>1. h[Len(t) + 1] <= h[2] /\ h[Len(t) + 1] \in Nat
        BY <1>4, <1>8, <1>9, <3>1 DEF Heights
      <4>2. w > n
        BY <1>6, <3>3
      <4>3. ~(w <= h[Len(t) + 1])
        BY <1>6, <1>9, <4>1, <4>2
      <4>4. ~d.vals[w].decl
        BY <1>6, <1>7, <3>3
      <4>5. QED
        BY <3>1, <4>3, <4>4
    <3>4. QED
      BY <3>2, <3>3
  <2>5. QED
    BY <1>6, <2>1, <2>2, <2>3, <2>4 DEF Heights
<1>13. Pending(c, t) /\ Kept(c) /\ TwoNew(c)
  BY DEF Orderly
<1>14. /\ \A k \in r + 1 .. Len(u) : k - r \in 1 .. Len(t) /\ k \in 1 .. Len(u)
       /\ \A l \in 1 .. Len(t) : l + r \in r + 1 .. Len(u) /\ (l + r) - r = l
       /\ \A k \in 1 .. Len(u) : k \in 1 .. r \/ k \in r + 1 .. Len(u)
       /\ \A k \in 1 .. r : k \in 1 .. Len(u) /\ k \notin r + 1 .. Len(u)
  BY <1>4
<1>15. ASSUME NEW k \in r + 1 .. Len(u)
       PROVE  /\ u[k].val = t[k - r].val
              /\ u[k].do # "drop" <=> t[k - r].do # "drop"
  <2>1. CASE k = r + 1
    BY <1>3, <1>4, <1>5, <2>1
  <2>2. CASE k # r + 1
    <3>1. k - r \in 2 .. Len(t) /\ (k - r) + r = k
      BY <1>4, <2>2
    <3>2. u[k] = t[k - r]
      BY <1>4, <3>1
    <3>3. QED
      BY <3>2
  <2>3. QED
    BY <2>1, <2>2
<1>16. \A k \in r + 1 .. Len(u) : t[k - r].do # "drop" => t[k - r].val <= n /\ t[k - r].val \in Nat
  <2>1. SUFFICES ASSUME NEW l \in 1 .. Len(t), t[l].do # "drop"
                 PROVE  t[l].val <= n /\ t[l].val \in Nat
    BY <1>14
  <2>2. l + 1 \in 1 .. Len(t) + 1 /\ 1 <= l + 1
    BY <1>4
  <2>3. t[l].val <= h[l + 1] /\ h[l + 1] <= h[1]
    BY <1>8, <1>9, <2>1, <2>2 DEF Heights
  <2>4. h[l + 1] \in Nat
    BY <1>9, <2>2
  <2>5. t[l].val \in Nat
    <3>1. t \in Seq(Items)
      BY DEF Orderly
    <3>2. t[l] \in Items
      BY <3>1
    <3>3. QED
      BY <3>2 DEF Items
  <2>6. QED
    BY <1>9, <2>3, <2>4, <2>5
<1>17. Pending(d, u)
  <2>1. ASSUME NEW w \in DOMAIN d.vals
        PROVE  d.vals[w].done <=> \A k \in 1 .. Len(u) : ~Awaited(u, k, w)
    <3>1. CASE w \in 1 .. n
      <4>1. \A k \in 1 .. r : ~Awaited(u, k, w)
        BY <1>4, <3>1 DEF Awaited
      <4>2. \A k \in r + 1 .. Len(u) : Awaited(u, k, w) <=> Awaited(t, k - r, w)
        BY <1>15 DEF Awaited
      <4>3. ASSUME \A k \in 1 .. Len(u) : ~Awaited(u, k, w), NEW l \in 1 .. Len(t)
            PROVE  ~Awaited(t, l, w)
        BY <1>14, <4>2, <4>3
      <4>4. ASSUME \A l \in 1 .. Len(t) : ~Awaited(t, l, w), NEW k \in 1 .. Len(u)
            PROVE  ~Awaited(u, k, w)
        BY <1>14, <4>1, <4>2, <4>4
      <4>5. c.vals[w].done <=> \A l \in 1 .. Len(t) : ~Awaited(t, l, w)
        BY <1>6, <1>13, <3>1 DEF Pending
      <4>6. d.vals[w].done = c.vals[w].done
        BY <1>6, <3>1
      <4>7. QED
        BY <4>3, <4>4, <4>5, <4>6
    <3>2. CASE w \notin 1 .. n
      <4>1. PICK k \in 1 .. r : w = n + k /\ ~d.vals[w].done
        BY <1>6, <1>7, <3>2
      <4>2. Awaited(u, k, w) /\ k \in 1 .. Len(u)
        BY <1>4, <1>14, <4>1 DEF Awaited
      <4>3. QED
        BY <4>1, <4>2
    <3>3. QED
      BY <3>1, <3>2
  <2>2. ASSUME NEW w \in DOMAIN d.vals, ~d.vals[w].done
        PROVE  d.vals[w].where = "none"
    <3>1. CASE w \in 1 .. n
      BY <1>6, <1>13, <2>2, <3>1 DEF Pending
    <3>2. CASE w \notin 1 .. n
      BY <1>6, <1>7, <3>2
    <3>3. QED
      BY <3>1, <3>2
  <2>3. ASSUME NEW j \in 1 .. Len(u), NEW k \in 1 .. Len(u), u[j].do # "drop",
               Awaited(u, k, u[j].val)
        PROVE  j = k
    <3>1. u[k].do # "drop" /\ u[k].val = u[j].val
      BY <2>3 DEF Awaited
    <3>2. CASE j \in 1 .. r /\ k \in 1 .. r
      <4>1. u[j].val = n + j /\ u[k].val = n + k
        BY <1>4, <3>2
      <4>2. QED
        BY <3>1, <3>2, <4>1
    <3>3. CASE j \in 1 .. r /\ k \in r + 1 .. Len(u)
      <4>1. u[j].val = n + j
        BY <1>4, <3>3
      <4>2. u[k].val = t[k - r].val /\ t[k - r].do # "drop"
        BY <1>15, <3>1, <3>3
      <4>3. t[k - r].val <= n /\ t[k - r].val \in Nat
        BY <1>16, <3>3, <4>2
      <4>4. t[k - r].val = n + j
        BY <3>1, <4>1, <4>2
      <4>5. j \in Nat /\ 1 <= j
        BY <3>3
      <4>6. ASSUME NEW x \in Nat, x <= n, NEW y \in Nat, 1 <= y, x = n + y PROVE FALSE
        BY <4>6
      <4>7. QED
        BY <4>3, <4>4, <4>5, <4>6
    <3>4. CASE j \in r + 1 .. Len(u) /\ k \in 1 .. r
      <4>1. u[k].val = n + k
        BY <1>4, <3>4
      <4>2. u[j].val = t[j - r].val /\ t[j - r].do # "drop"
        BY <1>15, <2>3, <3>4
      <4>3. t[j - r].val <= n /\ t[j - r].val \in Nat
        BY <1>16, <3>4, <4>2
      <4>4. t[j - r].val = n + k
        BY <3>1, <4>1, <4>2
      <4>5. k \in Nat /\ 1 <= k
        BY <3>4
      <4>6. ASSUME NEW x \in Nat, x <= n, NEW y \in Nat, 1 <= y, x = n + y PROVE FALSE
        BY <4>6
      <4>7. QED
        BY <4>3, <4>4, <4>5, <4>6
    <3>5. CASE j \in r + 1 .. Len(u) /\ k \in r + 1 .. Len(u)
      <4>1. t[j - r].do # "drop" /\ Awaited(t, k - r, t[j - r].val)
        BY <1>15, <2>3, <3>1, <3>5 DEF Awaited
      <4>2. j - r = k - r
        BY <1>13, <1>14, <3>5, <4>1 DEF Pending
      <4>3. QED
        BY <4>2
    <3>6. QED
      BY <1>14, <3>2, <3>3, <3>4, <3>5
  <2>4. QED
    BY <2>1, <2>2, <2>3 DEF Pending
<1>18. Kept(d)
  BY SMTT(30), <1>6, <1>7, <1>13 DEF Kept, Holds
<1>19. TwoNew(d)
  BY <1>6, <1>13 DEF TwoNew, Within, InUse
<1>20. Young(d, u)
  <2>1. 1 \in 1 .. r
    OBVIOUS
  <2>2. u[1].do = "expr"
    BY <1>4, <2>1
  <2>3. QED
    BY <1>5, <2>2 DEF Young
<1>21. QED
  BY <1>4, <1>6, <1>12, <1>17, <1>18, <1>19, <1>20 DEF Orderly

\* A statement begins: its value is pushed, to stay if it is declared.
LEMMA BeginningKeeps ==
  ASSUME NEW c, Orderly(c, <<>>), NEW b \in BOOLEAN, NEW d, Grown(c, <<b>>, d),
         NEW u, u = IF b THEN <<Expr(Len(d.vals))>>
                    ELSE <<Expr(Len(d.vals)), [do |-> "drop", val |-> Len(d.vals)]>>
  PROVE  Orderly(d, u)
<1>1. PICK n \in Nat : n = Len(c.vals)
  BY ContextFields DEF Orderly, Sound
<1>2. <<b>> \in Seq(BOOLEAN) /\ Len(<<b>>) = 1 /\ <<b>>[1] = b /\ 1 \in DOMAIN <<b>>
  OBVIOUS
<1>3. /\ Sound(d) /\ Len(d.vals) = n + 1 /\ DOMAIN d.vals = 1 .. n + 1 /\ DOMAIN c.vals = 1 .. n
      /\ \A w \in 1 .. n : d.vals[w] = c.vals[w]
      /\ d.vals[n + 1] = Fresh(b)
      /\ d.owner = c.owner /\ d.prior = c.prior /\ d.held = c.held
  BY <1>1, <1>2, ContextFields DEF Grown, Sound, Orderly
<1>4. ~d.vals[n + 1].done /\ d.vals[n + 1].where = "none" /\ d.vals[n + 1].decl = b
  <2>1. PICK f : f = Fresh(b)
    OBVIOUS
  <2>2. ~f.done
    BY <2>1 DEF Fresh
  <2>3. f.where = "none" /\ f.decl = b
    BY <2>1 DEF Fresh
  <2>4. QED
    BY <1>3, <2>1, <2>2, <2>3
<1>5. PICK h : Heights(c, <<>>, h)
  BY DEF Orderly
<1>6. Pending(c, <<>>) /\ Kept(c) /\ TwoNew(c)
  BY DEF Orderly
<1>7. \A w \in 1 .. n : c.vals[w].decl /\ c.vals[w].done
  <2>1. Len(<<>>) = 0
    OBVIOUS
  <2>2. h[1] = n /\ \A w \in 1 .. n : c.vals[w].decl <=> w <= h[1]
    BY <1>1, <1>3, <1>5, <2>1 DEF Heights
  <2>3. \A w \in 1 .. n : c.vals[w].done
    BY <1>3, <1>6, <2>1 DEF Pending
  <2>4. QED
    BY <1>1, <2>2, <2>3
<1>8. \A w \in 1 .. n + 1 : w \in 1 .. n \/ w = n + 1
  OBVIOUS
<1>9. /\ u \in Seq(Items) /\ Len(u) = IF b THEN 1 ELSE 2
      /\ u[1].do = "expr" /\ u[1].val = n + 1
      /\ ~b => u[2].do = "drop" /\ u[2].val = n + 1
  <2>1. PICK i : i = Expr(n + 1)
    OBVIOUS
  <2>2. PICK j : j = [do |-> "drop", val |-> n + 1]
    OBVIOUS
  <2>3. i.do = "expr" /\ i.val = n + 1 /\ i \in Items
    BY <2>1 DEF Expr, Items, Dos
  <2>4. j.do = "drop" /\ j.val = n + 1 /\ j \in Items
    BY <2>2 DEF Items, Dos
  <2>5. CASE b
    <3>1. u = <<i>>
      BY <1>3, <2>1, <2>5
    <3>2. QED
      BY <2>3, <2>5, <3>1
  <2>6. CASE ~b
    <3>1. u = <<i, j>>
      BY <1>3, <2>1, <2>2, <2>6
    <3>2. QED
      BY <2>3, <2>4, <2>6, <3>1
  <2>7. QED
    BY <2>5, <2>6
<1>10. \A k \in 1 .. Len(u) : k = 1 \/ (k = 2 /\ ~b)
  BY <1>9
<1>11. 1 \in 1 .. Len(u)
  BY <1>9
<1>12. \E g : Heights(d, u, g)
  <2> DEFINE g == [k \in 1 .. Len(u) + 1 |-> IF k <= 2 THEN n + 1 ELSE n]
  <2>1. g \in [1 .. Len(u) + 1 -> Nat] /\ g[1] = n + 1
    BY <1>9
  <2>2. \A j, k \in 1 .. Len(u) + 1 : j <= k => g[k] <= g[j]
    OBVIOUS
  <2>3. g[2] = n + 1 /\ (~b => g[3] = n) /\ g[Len(u) + 1] = IF b THEN n + 1 ELSE n
    BY <1>9
  <2>4. ASSUME NEW k \in 1 .. Len(u)
        PROVE  /\ g[k] = g[k + 1] + Pops(u[k].do)
               /\ IF u[k].do = "drop" THEN u[k].val = g[k] ELSE u[k].val <= g[k + 1]
               /\ k < Len(u) /\ u[k + 1].do \in BinaryOps =>
                    u[k].do # "drop" /\ u[k].val = g[k + 1]
    <3>1. CASE k = 1
      BY <1>9, <2>1, <2>3, <3>1, PopsAre
    <3>2. CASE k = 2 /\ ~b
      BY <1>9, <2>3, <3>2, PopsAre
    <3>3. QED
      BY <1>10, <3>1, <3>2
  <2>5. \A w \in DOMAIN d.vals : d.vals[w].decl <=> w <= g[Len(u) + 1]
    <3>1. ASSUME NEW w \in 1 .. n + 1 PROVE d.vals[w].decl <=> w <= g[Len(u) + 1]
      <4>1. CASE w \in 1 .. n
        BY <1>3, <1>7, <2>3, <4>1
      <4>2. CASE w = n + 1
        BY <1>4, <2>3, <4>2
      <4>3. QED
        BY <1>8, <4>1, <4>2
    <3>2. QED
      BY <1>3, <3>1
  <2>6. Heights(d, u, g)
    BY <1>3, <2>1, <2>2, <2>4, <2>5 DEF Heights
  <2>7. QED
    BY <2>6
<1>13. Pending(d, u)
  <2>1. ASSUME NEW w \in 1 .. n + 1
        PROVE  /\ d.vals[w].done <=> \A k \in 1 .. Len(u) : ~Awaited(u, k, w)
               /\ ~d.vals[w].done => d.vals[w].where = "none"
    <3>1. CASE w \in 1 .. n
      <4>1. \A k \in 1 .. Len(u) : ~Awaited(u, k, w)
        BY <1>9, <1>10, <3>1 DEF Awaited
      <4>2. d.vals[w].done
        BY <1>3, <1>7, <3>1
      <4>3. QED
        BY <4>1, <4>2
    <3>2. CASE w = n + 1
      <4>1. Awaited(u, 1, w)
        BY <1>9, <3>2 DEF Awaited
      <4>2. QED
        BY <1>4, <1>11, <3>2, <4>1
    <3>3. QED
      BY <1>8, <3>1, <3>2
  <2>2. ASSUME NEW j \in 1 .. Len(u), NEW k \in 1 .. Len(u), u[j].do # "drop",
               Awaited(u, k, u[j].val)
        PROVE  j = k
    BY <1>9, <1>10, <2>2 DEF Awaited
  <2>3. QED
    BY <1>3, <2>1, <2>2 DEF Pending
<1>14. Kept(d)
  <2>1. ASSUME NEW w \in 1 .. n + 1, d.vals[w].done PROVE Holds(d, w)
    <3>1. w \in 1 .. n
      BY <1>4, <1>8, <2>1
    <3>2. QED
      BY <1>3, <1>6, <1>7, <3>1 DEF Kept, Holds
  <2>2. QED
    BY <1>3, <2>1 DEF Kept
<1>15. TwoNew(d)
  BY <1>3, <1>6 DEF TwoNew, Within, InUse
<1>16. Young(d, u)
  BY <1>9, PopsAre DEF Young
<1>17. QED
  BY <1>3, <1>9, <1>12, <1>13, <1>14, <1>15, <1>16 DEF Orderly

-----------------------------------------------------------------------------
(* The end of the function. *)

PopChain(c, n, f) == f = [k \in 0 .. n |-> IF k = 0 THEN c ELSE Popped(f[k - 1])]

\* Values can be popped in any number.
LEMMA PopChainExists ==
  ASSUME NEW c, NEW n \in Nat
  PROVE  \E f : PopChain(c, n, f)
<1> DEFINE T == {k \in Nat : ~ \E f : PopChain(c, k, f)}
<1>1. SUFFICES ASSUME n \in T PROVE FALSE
  OBVIOUS
<1>2. PICK m \in T : \A y \in T : ~ (<<y, m>> \in OpToRel(<, Nat))
  <2>1. IsWellFoundedOn(OpToRel(<, Nat), Nat)
    BY NatLessThanWellFounded
  <2>2. T \subseteq Nat /\ T # {}
    BY <1>1
  <2>3. QED
    BY <2>1, <2>2, WFMin
<1>3. m \in Nat /\ ~ \E f : PopChain(c, m, f)
  OBVIOUS
<1>4. CASE m = 0
  <2>1. PopChain(c, 0, [k \in 0 .. 0 |-> c])
    BY DEF PopChain
  <2>2. QED
    BY <1>3, <1>4, <2>1
<1>5. CASE m # 0
  <2>1. PICK l \in Nat : m = l + 1 /\ l < m
    <3>1. m - 1 \in Nat /\ m = (m - 1) + 1 /\ m - 1 < m
      BY <1>3, <1>5
    <3>2. QED
      BY <3>1
  <2>2. l \notin T
    BY <1>2, <1>3, <2>1 DEF OpToRel
  <2>3. PICK g : PopChain(c, l, g)
    BY <2>2
  <2>4. \A k \in 0 .. l : g[k] = IF k = 0 THEN c ELSE Popped(g[k - 1])
    BY <2>3 DEF PopChain
  <2> DEFINE h == [k \in 0 .. m |-> IF k <= l THEN g[k] ELSE Popped(g[l])]
  <2>5. \A k \in 0 .. m : h[k] = IF k = 0 THEN c ELSE Popped(h[k - 1])
    <3>1. TAKE k \in 0 .. m
    <3>2. CASE k = 0
      BY <2>1, <2>4, <3>2
    <3>3. CASE k # 0
      <4>1. PICK j \in 0 .. l : j = k - 1
        BY <2>1, <3>3
      <4>2. h[j] = g[j]
        BY <2>1, <4>1
      <4>3. CASE k <= l
        BY <2>4, <3>3, <4>1, <4>2, <4>3
      <4>4. CASE ~(k <= l)
        <5>1. j = l
          BY <2>1, <4>1, <4>4
        <5>2. QED
          BY <3>3, <4>1, <4>2, <4>4, <5>1
      <4>5. QED
        BY <4>3, <4>4
    <3>4. QED
      BY <3>2, <3>3
  <2>6. PopChain(c, m, h)
    <3>1. h = [k \in 0 .. m |-> IF k = 0 THEN c ELSE Popped(h[k - 1])]
      BY <2>5
    <3>2. QED
      BY <3>1 DEF PopChain
  <2>7. QED
    BY <1>3, <2>6
<1>6. QED
  BY <1>4, <1>5

\* A context between two statements, but for the declarations that are popped.
Closing(e, n) ==
  /\ Sound(e) /\ Len(e.vals) = n
  /\ \A w \in DOMAIN e.vals : Holds(e, w)

LEMMA PoppingAll ==
  ASSUME NEW c, NEW n \in Nat, Closing(c, n), NEW f, PopChain(c, n, f)
  PROVE  Closing(f[n], 0)
<1>1. \A k \in 0 .. n : f[k] = IF k = 0 THEN c ELSE Popped(f[k - 1])
  BY DEF PopChain
<1> DEFINE T == {k \in Nat : k <= n /\ ~Closing(f[k], n - k)}
<1>2. T = {}
  <2>1. SUFFICES ASSUME T # {} PROVE FALSE
    OBVIOUS
  <2>2. PICK m \in T : \A y \in T : ~ (<<y, m>> \in OpToRel(<, Nat))
    <3>1. IsWellFoundedOn(OpToRel(<, Nat), Nat)
      BY NatLessThanWellFounded
    <3>2. T \subseteq Nat
      OBVIOUS
    <3>3. QED
      BY <2>1, <3>1, <3>2, WFMin
  <2>3. m \in Nat /\ m <= n /\ ~Closing(f[m], n - m)
    OBVIOUS
  <2>4. CASE m = 0
    <3>1. f[m] = c /\ n - m = n
      BY <1>1, <2>3, <2>4
    <3>2. QED
      BY <2>3, <3>1
  <2>5. CASE m # 0
    <3>1. PICK l \in Nat : l = m - 1 /\ l < m /\ l <= n
      BY <2>3, <2>5
    <3>2. l \notin T
      BY <2>2, <2>3, <3>1 DEF OpToRel
    <3>3. PICK e : e = f[l] /\ Closing(e, n - l)
      BY <3>1, <3>2
    <3>4. f[m] = Popped(e)
      BY <1>1, <2>3, <2>5, <3>1, <3>3
    <3>5. Sound(e) /\ Len(e.vals) = n - l /\ \A w \in DOMAIN e.vals : Holds(e, w)
      BY <3>3 DEF Closing
    <3>6. Len(e.vals) >= 1
      BY <2>3, <3>1, <3>5
    <3>7. PICK d : d = Popped(e)
      OBVIOUS
    <3>8. ShrunkTo(e, Len(e.vals) - 1, d)
      BY <3>5, <3>6, <3>7, Pops012
    <3>9. Closing(d, n - m)
      <4>1. Len(e.vals) - 1 = n - m
        BY <2>3, <3>1, <3>5
      <4>2. QED
        BY <3>5, <3>8, <4>1 DEF Closing, ShrunkTo
    <3>10. QED
      BY <2>3, <3>4, <3>7, <3>9
  <2>6. QED
    BY <2>4, <2>5
<1>3. Closing(f[n], n - n)
  BY <1>2
<1>4. QED
  BY <1>3

\* Nothing is left in a register when no value is left.
LEMMA NothingLeft ==
  ASSUME NEW e, Closing(e, 0)
  PROVE  /\ e \in Context /\ e.vals = <<>> /\ e.owner = [r \in Regs |-> 0]
         /\ Orderly(e, <<>>)
<1>1. Sound(e) /\ Len(e.vals) = 0 /\ e \in Context
  BY DEF Closing, Sound
<1>2. /\ e.vals = <<>> /\ DOMAIN e.vals = {} /\ e.owner \in [Regs -> Nat]
  BY <1>1, ContextFields
<1>3. \A r \in Regs : e.owner[r] = 0
  BY <1>1, <1>2 DEF Sound
<1>4. e.owner = [r \in Regs |-> 0]
  BY <1>2, <1>3
<1>5. <<>> \in Seq(Items) /\ Len(<<>>) = 0
  OBVIOUS
<1>6. Heights(e, <<>>, [k \in 1 .. 1 |-> 0])
  BY <1>1, <1>2, <1>5 DEF Heights
<1>7. Pending(e, <<>>) /\ Kept(e) /\ Young(e, <<>>)
  BY <1>2, <1>5 DEF Pending, Kept, Young
<1>8. TwoNew(e)
  BY <1>3, RegsAreNumbers DEF TwoNew, Within, InUse
<1>9. QED
  BY <1>1, <1>2, <1>4, <1>5, <1>6, <1>7, <1>8 DEF Orderly

-----------------------------------------------------------------------------
(* The items that compute a value. *)

LEMMA ComputedFinishes ==
  ASSUME NEW c, NEW t, Orderly(c, t), t # <<>>, t[1].do # "drop",
         NEW V, NEW e, NEW d, Computed(c, t, V, e, d)
  PROVE  /\ Pops(t[1].do) = 0 => Orderly(d, Tail(t))
         /\ Pops(t[1].do) = 1 => Orderly(Popped(d), Tail(t))
         /\ Pops(t[1].do) = 2 => Orderly(Popped(Popped(d)), Tail(t))
<1>1. /\ Sound(d) /\ Len(d.vals) = Len(c.vals) /\ Len(c.vals) \in Nat
      /\ \A w \in DOMAIN d.vals : d.vals[w].where = "stack" => Holds(d, w)
  BY SMTT(30), ComputedKeeps, ContextFields DEF Orderly, Sound
<1>2. t[1].val \in DOMAIN c.vals /\ t[1].val <= Len(c.vals) - Pops(t[1].do)
      /\ Pops(t[1].do) \in Nat
  BY HeadIs
<1>3. t[1].val \in Nat
  BY <1>2, ContextFields DEF Orderly, Sound
<1>4. Len(d.vals) >= Pops(t[1].do)
  BY <1>1, <1>2, <1>3
<1>5. /\ Pops(t[1].do) = 0 => ShrunkTo(d, Len(c.vals) - Pops(t[1].do), d)
      /\ Pops(t[1].do) = 1 => ShrunkTo(d, Len(c.vals) - Pops(t[1].do), Popped(d))
      /\ Pops(t[1].do) = 2 => ShrunkTo(d, Len(c.vals) - Pops(t[1].do), Popped(Popped(d)))
  <2>1. Len(c.vals) - 0 = Len(d.vals)
    BY <1>1
  <2>2. /\ ShrunkTo(d, Len(d.vals), d)
        /\ Len(d.vals) >= 1 => ShrunkTo(d, Len(d.vals) - 1, Popped(d))
        /\ Len(d.vals) >= 2 => ShrunkTo(d, Len(d.vals) - 2, Popped(Popped(d)))
    BY <1>1, Pops012
  <2>3. QED
    BY <1>1, <1>4, <2>1, <2>2
<1>6. QED
  BY <1>5, FinishingKeeps

\* What the item at the head finds: x is its value, and the last values are
\* its operands.
LEMMA HeadOperands ==
  ASSUME NEW c, NEW t, Orderly(c, t), t # <<>>, t[1].do # "drop",
         NEW x, x = t[1].val, NEW n, n = Len(c.vals)
  PROVE  /\ Sound(c) /\ FiveNew(c) /\ FourNew(c) /\ TwoNew(c)
         /\ x \in DOMAIN c.vals /\ x \in Nat /\ n \in Nat
         /\ ~c.vals[x].done /\ ~InReg(c, x) /\ x <= n - Pops(t[1].do)
         /\ \A w \in DOMAIN c.vals : c.vals[w].done => Holds(c, w) /\ w # x
         /\ Pops(t[1].do) \in {1, 2} => n \in DOMAIN c.vals /\ c.vals[n].done
         /\ Pops(t[1].do) = 2 => n - 1 \in DOMAIN c.vals /\ c.vals[n - 1].done
<1>1. Sound(c) /\ TwoNew(c) /\ Kept(c)
  BY DEF Orderly
<1>2. FiveNew(c) /\ FourNew(c)
  BY <1>1, FewNew
<1>3. /\ x \in DOMAIN c.vals /\ x <= n - Pops(t[1].do) /\ Pops(t[1].do) \in Nat
      /\ ~c.vals[x].done /\ c.vals[x].where = "none"
      /\ \A w \in DOMAIN c.vals : w > n - Pops(t[1].do) => c.vals[w].done
  BY HeadIs
<1>4. n \in Nat /\ DOMAIN c.vals = 1 .. n /\ x \in Nat
  BY <1>1, <1>3, ContextFields DEF Sound
<1>5. /\ Pops(t[1].do) \in {1, 2} => n \in DOMAIN c.vals /\ n > n - Pops(t[1].do)
      /\ Pops(t[1].do) = 2 => n - 1 \in DOMAIN c.vals /\ n - 1 > n - Pops(t[1].do)
  BY <1>3, <1>4
<1>6. \A w \in DOMAIN c.vals : c.vals[w].done => Holds(c, w) /\ w # x
  BY <1>1, <1>3 DEF Kept
<1>7. ~InReg(c, x)
  BY <1>3 DEF InReg
<1>8. QED
  BY <1>1, <1>2, <1>3, <1>4, <1>5, <1>6, <1>7

LEMMA LiteralKeeps ==
  ASSUME NEW c, NEW t, Orderly(c, t), t # <<>>, t[1].do = "expr",
         NEW d \in Emits(c, <<t[1].val>>)
  PROVE  Orderly(d, Tail(t))
<1>1. PICK x : x = t[1].val
  OBVIOUS
<1>2. Sound(c) /\ FiveNew(c) /\ x \in DOMAIN c.vals
  BY <1>1, HeadOperands
<1>3. Executed(c, {x}, x, d)
  BY <1>1, <1>2, Execute1
<1>4. Computed(c, t, {x}, x, d)
  BY <1>1, <1>2, <1>3 DEF Computed
<1>5. QED
  BY <1>4, ComputedFinishes, PopsAre

LEMMA DeclRefKeeps ==
  ASSUME NEW c, NEW t, Orderly(c, t), t # <<>>, t[1].do = "expr",
         NEW y \in DOMAIN c.vals, c.vals[y].done, NEW d \in Emits(c, <<t[1].val, y>>)
  PROVE  Orderly(d, Tail(t))
<1>1. PICK x : x = t[1].val
  OBVIOUS
<1>2. Sound(c) /\ FourNew(c) /\ x \in DOMAIN c.vals /\ Holds(c, y)
  BY <1>1, HeadOperands
<1>3. Executed(c, {x, y}, x, d)
  BY <1>1, <1>2, Execute2
<1>4. Computed(c, t, {x, y}, y, d)
  BY <1>1, <1>2, <1>3 DEF Computed
<1>5. QED
  BY <1>4, ComputedFinishes, PopsAre

LEMMA PlusOrNotKeeps ==
  ASSUME NEW c, NEW t, Orderly(c, t), t # <<>>, t[1].do = "plusOrNot",
         NEW d \in Emits(c, <<t[1].val, Len(c.vals)>>)
  PROVE  Orderly(Popped(d), Tail(t))
<1>1. PICK x, n : x = t[1].val /\ n = Len(c.vals)
  OBVIOUS
<1>2. Pops(t[1].do) = 1
  BY PopsAre DEF UnaryOps
<1>3. /\ Sound(c) /\ FourNew(c) /\ x \in DOMAIN c.vals /\ n \in DOMAIN c.vals
      /\ c.vals[n].done /\ Holds(c, n) /\ n \in Nat /\ x \in Nat
  BY <1>1, <1>2, HeadOperands
<1>4. Executed(c, {x, n}, x, d)
  BY <1>1, <1>3, Execute2
<1>5. Computed(c, t, {x, n}, x, d)
  BY <1>1, <1>2, <1>3, <1>4 DEF Computed
<1>6. QED
  BY <1>2, <1>5, ComputedFinishes

\* Two registers were new before an instruction, four at most are after it.
LEMMA StillFourNew ==
  ASSUME NEW c, Sound(c), TwoNew(c), NEW d, Sound(d), NEW x, NEW y, Aging(c, {x, y}, d, 0)
  PROVE  FourNew(d)
<1>1. PICK a, b : Within(c, {a, b}, 0)
  BY DEF TwoNew
<1>2. PICK S : S = {a, b}
  OBVIOUS
<1>3. PICK k \in Nat : k = 0
  OBVIOUS
<1>4. Within(d, S \cup {x, y}, k + k)
  BY <1>1, <1>2, <1>3, AgingWithin
<1>5. S \cup {x, y} = {a, b, x, y}
  BY <1>2
<1>6. k + k = 0
  BY <1>3
<1>7. Within(d, {a, b, x, y}, 0)
  BY <1>4, <1>5, <1>6
<1>8. QED
  BY <1>7, Zenon DEF FourNew

LEMMA MinusKeeps ==
  ASSUME NEW c, NEW t, Orderly(c, t), t # <<>>, t[1].do = "minus",
         NEW e \in Emits(c, <<t[1].val, Len(c.vals)>>),
         NEW d \in Emits(e, <<t[1].val, t[1].val>>)
  PROVE  Orderly(Popped(d), Tail(t))
<1>1. PICK x, n : x = t[1].val /\ n = Len(c.vals)
  OBVIOUS
<1>2. Pops(t[1].do) = 1
  BY PopsAre DEF UnaryOps
<1>3. /\ Sound(c) /\ FourNew(c) /\ TwoNew(c) /\ x \in DOMAIN c.vals /\ n \in DOMAIN c.vals
      /\ c.vals[n].done /\ Holds(c, n) /\ n \in Nat /\ x \in Nat
  BY <1>1, <1>2, HeadOperands
<1>4. Executed(c, {x, n}, x, e)
  BY <1>1, <1>3, Execute2
<1>5. /\ Sound(e) /\ DOMAIN e.vals = DOMAIN c.vals /\ Holds(e, x) /\ Aging(c, {x, n}, e, 0)
  BY <1>4 DEF Executed
<1>6. FourNew(e)
  BY <1>3, <1>5, StillFourNew
<1>7. Executed(e, {x, x}, x, d)
  BY <1>1, <1>3, <1>5, <1>6, Execute2
<1>8. Executed(c, {x, n} \cup {x, x}, x, d)
  <2>1. {x, x} \subseteq DOMAIN c.vals
    BY <1>3
  <2>2. QED
    BY <1>3, <1>4, <1>7, <2>1, ExecutedTwice
<1>9. {x, n} \cup {x, x} = {x, n}
  OBVIOUS
<1>10. Computed(c, t, {x, n}, x, d)
  BY <1>1, <1>2, <1>3, <1>8, <1>9 DEF Computed
<1>11. QED
  BY <1>2, <1>10, ComputedFinishes

LEMMA CalculateKeeps ==
  ASSUME NEW c, NEW t, Orderly(c, t), t # <<>>, t[1].do = "calculate",
         NEW d \in Emits(c, <<t[1].val, Len(c.vals) - 1, Len(c.vals)>>)
  PROVE  Orderly(Popped(Popped(d)), Tail(t))
<1>1. PICK x, n : x = t[1].val /\ n = Len(c.vals)
  OBVIOUS
<1>2. PICK l : l = n - 1
  OBVIOUS
<1>3. Pops(t[1].do) = 2 /\ t[1].do \in BinaryOps
  BY PopsAre DEF BinaryOps
<1>4. /\ Sound(c) /\ TwoNew(c) /\ x \in DOMAIN c.vals /\ n \in DOMAIN c.vals /\ l \in DOMAIN c.vals
      /\ c.vals[n].done /\ Holds(c, n) /\ c.vals[l].done /\ Holds(c, l)
      /\ n \in Nat /\ x \in Nat /\ ~InReg(c, x)
  BY ZenonT(30), <1>1, <1>2, <1>3, HeadOperands
<1>5. FirstStays(c, {x, l, n})
  <2>1. InReg(c, n) /\ \E g, h, i : Within(c, {g, h, i, n}, 1)
    BY <1>1, <1>3 DEF Orderly, Young
  <2>2. PICK g, h, i : Within(c, {g, h, i, n}, 1)
    BY <2>1
  <2>3. QED
    BY <1>4, <2>1, <2>2, CalculationStays
<1>6. Executed(c, {x, l, n}, x, d)
  BY <1>1, <1>2, <1>4, <1>5, Execute3
<1>7. Computed(c, t, {x, l, n}, x, d)
  BY <1>1, <1>2, <1>3, <1>4, <1>6 DEF Computed
<1>8. QED
  BY <1>3, <1>7, ComputedFinishes

\* The second instruction of an assignment: the first put the result into the
\* left operand.
LEMMA AssigningKeeps ==
  ASSUME NEW c, NEW t, Orderly(c, t), t # <<>>, t[1].do \in BinaryOps,
         NEW e, Executed(c, {Len(c.vals) - 1, Len(c.vals)}, Len(c.vals) - 1, e),
         NEW d \in Emits(e, <<t[1].val, Len(c.vals) - 1>>)
  PROVE  Orderly(Popped(Popped(d)), Tail(t))
<1>1. PICK x, n : x = t[1].val /\ n = Len(c.vals)
  OBVIOUS
<1>2. PICK l : l = n - 1
  OBVIOUS
<1>3. Pops(t[1].do) = 2 /\ t[1].do # "drop"
  BY PopsAre
<1>4. /\ Sound(c) /\ TwoNew(c) /\ x \in DOMAIN c.vals /\ n \in DOMAIN c.vals /\ l \in DOMAIN c.vals
      /\ c.vals[n].done /\ c.vals[l].done /\ n \in Nat /\ x \in Nat
  BY <1>1, <1>2, <1>3, HeadOperands
<1>5. Executed(c, {l, n}, l, e)
  BY <1>1, <1>2
<1>6. /\ Sound(e) /\ DOMAIN e.vals = DOMAIN c.vals /\ Holds(e, l) /\ Aging(c, {l, n}, e, 0)
  BY <1>5 DEF Executed
<1>7. FourNew(e)
  BY <1>4, <1>6, StillFourNew
<1>8. Executed(e, {x, l}, x, d)
  BY <1>1, <1>2, <1>4, <1>6, <1>7, Execute2
<1>9. Executed(c, {l, n} \cup {x, l}, x, d)
  <2>1. {x, l} \subseteq DOMAIN c.vals
    BY <1>4
  <2>2. QED
    BY <1>4, <1>5, <1>8, <2>1, ExecutedTwice
<1>10. {l, n} \cup {x, l} = {x, l, n}
  OBVIOUS
<1>11. Executed(c, {x, l, n}, x, d)
  BY <1>9, <1>10
<1>12. Computed(c, t, {x, l, n}, x, d)
  BY <1>1, <1>2, <1>3, <1>4, <1>11 DEF Computed
<1>13. QED
  BY <1>3, <1>12, ComputedFinishes

LEMMA AssignKeeps ==
  ASSUME NEW c, NEW t, Orderly(c, t), t # <<>>, t[1].do = "assign",
         NEW e \in Emits(c, <<Len(c.vals) - 1, Len(c.vals)>>),
         NEW d \in Emits(e, <<t[1].val, Len(c.vals) - 1>>)
  PROVE  Orderly(Popped(Popped(d)), Tail(t))
<1>1. PICK n, l : n = Len(c.vals) /\ l = n - 1
  OBVIOUS
<1>2. Pops(t[1].do) = 2 /\ t[1].do \in BinaryOps /\ t[1].do # "drop"
  BY PopsAre DEF BinaryOps
<1>3. Sound(c) /\ FourNew(c) /\ n \in DOMAIN c.vals /\ l \in DOMAIN c.vals /\ Holds(c, n)
  BY <1>1, <1>2, HeadOperands
<1>4. Executed(c, {l, n}, l, e)
  BY <1>1, <1>3, Execute2
<1>5. QED
  BY <1>1, <1>2, <1>4, AssigningKeeps

LEMMA CalculateAndAssignKeeps ==
  ASSUME NEW c, NEW t, Orderly(c, t), t # <<>>, t[1].do = "calculateAndAssign",
         NEW e \in Emits(c, <<Len(c.vals) - 1, Len(c.vals) - 1, Len(c.vals)>>),
         NEW d \in Emits(e, <<t[1].val, Len(c.vals) - 1>>)
  PROVE  Orderly(Popped(Popped(d)), Tail(t))
<1>1. PICK n, l : n = Len(c.vals) /\ l = n - 1
  OBVIOUS
<1>2. Pops(t[1].do) = 2 /\ t[1].do \in BinaryOps /\ t[1].do # "drop"
  BY PopsAre DEF BinaryOps
<1>3. /\ Sound(c) /\ TwoNew(c) /\ n \in DOMAIN c.vals /\ l \in DOMAIN c.vals
      /\ Holds(c, n) /\ Holds(c, l)
  BY <1>1, <1>2, HeadOperands
<1>4. FirstStays(c, {l, l, n})
  BY <1>3, TwoStay
<1>5. Executed(c, {l, l, n}, l, e)
  BY <1>1, <1>3, <1>4, Execute3
<1>6. {l, l, n} = {l, n}
  OBVIOUS
<1>7. QED
  BY <1>1, <1>2, <1>5, <1>6, AssigningKeeps

-----------------------------------------------------------------------------
(* The states. *)

\* The inductive invariant.
IInv ==
  /\ Orderly(Here, todo)
  /\ nodes \in 0 .. MaxNodes /\ ended \in BOOLEAN
  /\ ended => todo = <<>> /\ vals = <<>>

LEMMA HereIs ==
  /\ Here.vals = vals /\ Here.owner = owner /\ Here.prior = prior /\ Here.held = held
  BY DEF Here

LEMMA Reached ==
  ASSUME NEW c, NEW t, Orderly(c, t), Becomes(c), todo' = t
  PROVE  Orderly(Here', todo')
<1>1. c \in Context
  BY DEF Orderly, Sound
<1>2. Here' = [vals |-> c.vals, owner |-> c.owner, prior |-> c.prior, held |-> c.held]
  BY DEF Here, Becomes
<1>3. Here' = c
  BY <1>1, <1>2 DEF Context
<1>4. QED
  BY <1>3

\* What a step on an item of todo keeps beside the context.
LEMMA StillGoing ==
  ASSUME IInv, todo # <<>>, NothingChosen \/ Chosen(2)
  PROVE  nodes' \in 0 .. MaxNodes /\ ended' \in BOOLEAN /\ ~ended'
<1>1. ended \in BOOLEAN /\ ~ended /\ nodes \in 0 .. MaxNodes
  BY DEF IInv
<1>2. CASE NothingChosen
  BY <1>1, <1>2 DEF NothingChosen
<1>3. CASE Chosen(2)
  <2>1. nodes' \in 0 .. MaxNodes
    BY <1>1, <1>3, GenAssumption DEF Chosen
  <2>2. ended' = ended
    BY <1>3 DEF Chosen
  <2>3. QED
    BY <1>1, <2>1, <2>2
<1>4. QED
  BY <1>2, <1>3

LEMMA InitOrderly == Init => IInv
<1>1. SUFFICES ASSUME Init PROVE IInv
  OBVIOUS
<1>2. PICK e : e = Here
  OBVIOUS
<1>3. /\ e.vals = <<>> /\ e.owner = [r \in Regs |-> 0] /\ e.prior = [r \in Regs |-> 0]
      /\ e.held = [r \in Regs |-> 0]
  BY <1>1, <1>2, HereIs DEF Init
<1>4. e \in Context
  <2>1. e = [vals |-> vals, owner |-> owner, prior |-> prior, held |-> held]
    BY <1>2 DEF Here
  <2>2. vals \in Seq(ValType) /\ owner \in [Regs -> Nat] /\ prior \in [Regs -> Nat]
        /\ held \in [Regs -> Nat]
    BY <1>1 DEF Init
  <2>3. QED
    BY <2>1, <2>2 DEF Context
<1>5. Len(e.vals) = 0 /\ DOMAIN e.vals = {}
  BY <1>3
<1>6. Closing(e, 0)
  BY <1>3, <1>4, <1>5 DEF Closing, Sound
<1>7. Orderly(Here, todo)
  <2>1. todo = <<>>
    BY <1>1 DEF Init
  <2>2. Orderly(e, <<>>)
    BY <1>6, NothingLeft
  <2>3. QED
    BY <1>2, <2>1, <2>2
<1>8. nodes \in 0 .. MaxNodes
  BY <1>1, GenAssumption DEF Init
<1>9. ended \in BOOLEAN /\ ~ended
  BY <1>1 DEF Init
<1>10. QED
  BY <1>7, <1>8, <1>9 DEF IInv

\* A statement begins: d is the context after its value was pushed.
LEMMA StatementBegins ==
  ASSUME IInv, todo = <<>>, ~ended, Chosen(1), NEW b \in BOOLEAN, Becomes(Pushed(Here, <<b>>)),
         todo' = IF b THEN <<Expr(Len(vals'))>>
                 ELSE <<Expr(Len(vals')), [do |-> "drop", val |-> Len(vals')]>>
  PROVE  IInv'
<1>1. PICK c : c = Here
  OBVIOUS
<1>2. Orderly(c, <<>>) /\ Sound(c)
  BY <1>1 DEF IInv, Orderly
<1>3. PICK d : d = Pushed(c, <<b>>)
  OBVIOUS
<1>4. Grown(c, <<b>>, d)
  <2>1. <<b>> \in Seq(BOOLEAN)
    OBVIOUS
  <2>2. QED
    BY <1>2, <1>3, <2>1, PushStep
<1>5. Becomes(d) /\ vals' = d.vals
  BY <1>1, <1>3 DEF Becomes
<1>6. PICK u : u = todo'
  OBVIOUS
<1>7. u = IF b THEN <<Expr(Len(d.vals))>>
          ELSE <<Expr(Len(d.vals)), [do |-> "drop", val |-> Len(d.vals)]>>
  BY <1>5, <1>6
<1>8. Orderly(d, u)
  BY <1>2, <1>4, <1>7, BeginningKeeps
<1>9. Orderly(Here', todo')
  BY <1>5, <1>6, <1>8, Reached
<1>10. nodes' \in 0 .. MaxNodes /\ ended' = ended
  BY GenAssumption DEF IInv, Chosen
<1>11. QED
  BY <1>9, <1>10 DEF IInv

LEMMA DeclareKeeps == IInv /\ Declare => IInv'
<1>1. SUFFICES ASSUME IInv, Declare PROVE IInv'
  OBVIOUS
<1>2. PICK b \in BOOLEAN : b
  OBVIOUS
<1>3. Becomes(Pushed(Here, <<b>>))
  BY <1>1, <1>2, Zenon DEF Declare
<1>4. QED
  BY <1>1, <1>2, <1>3, StatementBegins DEF Declare

LEMMA ExpressionStatementKeeps == IInv /\ ExpressionStatement => IInv'
<1>1. SUFFICES ASSUME IInv, ExpressionStatement PROVE IInv'
  OBVIOUS
<1>2. PICK b \in BOOLEAN : ~b
  OBVIOUS
<1>3. Becomes(Pushed(Here, <<b>>))
  BY <1>1, <1>2, Zenon DEF ExpressionStatement
<1>4. QED
  BY <1>1, <1>2, <1>3, StatementBegins DEF ExpressionStatement

LEMMA DropKeeps == IInv /\ Drop => IInv'
<1>1. SUFFICES ASSUME IInv, Drop PROVE IInv'
  OBVIOUS
<1>2. PICK c, t : c = Here /\ t = todo
  OBVIOUS
<1>3. Orderly(c, t) /\ Sound(c) /\ Kept(c) /\ Pending(c, t) /\ t \in Seq(Items) /\ t # <<>>
  BY <1>1, <1>2 DEF IInv, Orderly, Drop
<1>4. t[1].do = "drop"
  BY <1>1, <1>2, <1>3, TailIs DEF Drop
<1>5. \A w \in DOMAIN c.vals : c.vals[w].where = "stack" => Holds(c, w)
  <2>1. TAKE w \in DOMAIN c.vals
  <2>2. c.vals[w].where = "stack" => c.vals[w].done
    BY <1>3 DEF Pending
  <2>3. QED
    BY <1>3, <2>2 DEF Kept
<1>6. Len(c.vals) >= 1
  <2>1. t[1].val \in DOMAIN c.vals
    BY <1>3, HeadIs
  <2>2. Len(c.vals) \in Nat /\ DOMAIN c.vals = 1 .. Len(c.vals)
    BY <1>3, ContextFields DEF Sound
  <2>3. QED
    BY <2>1, <2>2
<1>7. PICK p : p = Popped(c)
  OBVIOUS
<1>8. ShrunkTo(c, Len(c.vals) - 1, p)
  BY <1>3, <1>5, <1>6, <1>7, Pops012
<1>9. Orderly(p, Tail(t))
  BY <1>3, <1>4, <1>8, DroppingKeeps
<1>10. Becomes(p) /\ todo' = Tail(t)
  BY <1>1, <1>2, <1>7 DEF Drop
<1>11. Orderly(Here', todo')
  BY <1>9, <1>10, Reached
<1>12. nodes' \in 0 .. MaxNodes /\ ended' \in BOOLEAN /\ ~ended'
  BY <1>1, StillGoing DEF Drop
<1>13. QED
  BY <1>11, <1>12 DEF IInv

\* Between two statements every value on the stack is a computed declaration.
LEMMA BetweenStatements ==
  ASSUME NEW c, NEW t, Orderly(c, t), t = <<>>
  PROVE  /\ Closing(c, Len(c.vals))
         /\ \A v \in DOMAIN c.vals : c.vals[v].decl /\ c.vals[v].done
<1>1. Len(t) = 0 /\ 1 .. Len(t) = {}
  OBVIOUS
<1>2. /\ Sound(c) /\ Pending(c, t) /\ Kept(c)
      /\ Len(c.vals) \in Nat /\ DOMAIN c.vals = 1 .. Len(c.vals)
  BY ContextFields DEF Orderly, Sound
<1>3. PICK h : Heights(c, t, h)
  BY DEF Orderly
<1>4. \A v \in DOMAIN c.vals : c.vals[v].done
  BY <1>1, <1>2 DEF Pending
<1>5. h[1] = Len(c.vals) /\ Len(t) + 1 = 1
  BY <1>1, <1>3 DEF Heights
<1>6. \A v \in DOMAIN c.vals : c.vals[v].decl <=> v <= h[1]
  BY <1>3, <1>5 DEF Heights
<1>7. \A v \in DOMAIN c.vals : c.vals[v].decl
  BY <1>2, <1>5, <1>6
<1>8. QED
  BY <1>2, <1>4, <1>7 DEF Closing, Kept

LEMMA ReturnKeeps == IInv /\ Return => IInv'
<1>1. SUFFICES ASSUME IInv, Return PROVE IInv'
  OBVIOUS
<1>2. PICK c, n : c = Here /\ n = Len(vals)
  OBVIOUS
<1>3. /\ todo = <<>> /\ Orderly(c, <<>>) /\ n = Len(c.vals)
  BY <1>1, <1>2, HereIs DEF IInv, Return
<1>4. n \in Nat
  BY <1>3, ContextFields DEF Orderly, Sound
<1>5. Closing(c, n)
  BY <1>3, BetweenStatements
<1>6. PICK f : PopChain(c, n, f) /\ Becomes(f[n])
  <2>1. \E f : PopChain(Here, Len(vals), f)
    BY <1>2, <1>4, PopChainExists
  <2>2. \E f : PopChain(Here, Len(vals), f) /\ Becomes(f[Len(vals)])
    BY <1>1, <2>1, Zenon DEF PopChain, Return
  <2>3. QED
    BY <1>2, <2>2
<1>7. PICK e : e = f[n]
  OBVIOUS
<1>8. Closing(e, 0)
  BY <1>4, <1>5, <1>6, <1>7, PoppingAll
<1>9. e.vals = <<>> /\ Orderly(e, <<>>)
  BY <1>8, NothingLeft
<1>10. Becomes(e) /\ todo' = <<>>
  BY <1>1, <1>3, <1>6, <1>7 DEF Return
<1>11. Orderly(Here', todo')
  BY <1>9, <1>10, Reached
<1>12. vals' = <<>>
  BY <1>9, <1>10 DEF Becomes
<1>13. nodes' \in 0 .. MaxNodes
  BY <1>1 DEF IInv, Return
<1>14. ended' \in BOOLEAN
  BY <1>1 DEF Return
<1>15. QED
  BY <1>10, <1>11, <1>12, <1>13, <1>14 DEF IInv

\* What an operator puts in front of the rest of todo.
LEMMA BinaryExpands ==
  ASSUME NEW t \in Seq(Items), t # <<>>, NEW op \in BinaryOps, NEW n \in Nat,
         NEW u, u = <<Expr(n + 1), Expr(n + 2), [do |-> op, val |-> t[1].val]>> \o Tail(t)
  PROVE  Expanded(t, op, n, u)
<1>1. PICK i : i = Expr(n + 1)
  OBVIOUS
<1>2. PICK j : j = Expr(n + 2)
  OBVIOUS
<1>3. PICK k : k = [do |-> op, val |-> t[1].val]
  OBVIOUS
<1>4. t[1] \in Items /\ Len(t) \in Nat \ {0} /\ Tail(t) \in Seq(Items) /\ Len(Tail(t)) = Len(t) - 1
      /\ \A m \in 1 .. Len(t) - 1 : Tail(t)[m] = t[m + 1]
  BY TailIs
<1>5. i \in Items /\ j \in Items
  BY <1>1, <1>2 DEF Expr, Items, Dos
<1>6. k \in Items
  <2>1. t[1].val \in Nat \ {0} /\ op \in Dos
    BY <1>4 DEF Items, Dos
  <2>2. QED
    BY <1>3, <2>1 DEF Items
<1>7. PICK s : s = Tail(t)
  OBVIOUS
<1>8. u = <<i, j, k>> \o s
  BY <1>1, <1>2, <1>3, <1>7
<1>9. s \in Seq(Items) /\ Len(s) = Len(t) - 1 /\ \A m \in 1 .. Len(t) - 1 : s[m] = t[m + 1]
  BY <1>4, <1>7
<1>10. /\ u \in Seq(Items) /\ Len(u) = Len(t) + 2 /\ u[1] = i /\ u[2] = j /\ u[3] = k
  BY <1>4, <1>5, <1>6, <1>8, <1>9
<1>11. \A m \in 2 .. Len(t) : u[m + 2] = t[m]
  <2>1. TAKE m \in 2 .. Len(t)
  <2>2. PICK l : l = m - 1 /\ l \in 1 .. Len(t) - 1 /\ m + 2 = 3 + l /\ l + 1 = m
    BY <1>4
  <2>3. u[3 + l] = s[l]
    BY <1>4, <1>5, <1>6, <1>8, <1>9, <2>2
  <2>4. QED
    BY <1>9, <2>2, <2>3
<1>12. \A m \in 1 .. 2 : u[m] = Expr(n + m)
  BY <1>1, <1>2, <1>10
<1>13. PICK r : r = 2
  OBVIOUS
<1>14. Pops(op) = r
  BY <1>13, PopsAre
<1>15. /\ Len(u) = Len(t) + r /\ u[r + 1] = [do |-> op, val |-> t[1].val]
       /\ \A m \in 1 .. r : u[m] = Expr(n + m)
       /\ \A m \in 2 .. Len(t) : u[m + r] = t[m]
  BY <1>3, <1>10, <1>11, <1>12, <1>13
<1>16. QED
  BY <1>10, <1>14, <1>15 DEF Expanded

LEMMA UnaryExpands ==
  ASSUME NEW t \in Seq(Items), t # <<>>, NEW op \in UnaryOps, NEW n \in Nat,
         NEW u, u = <<Expr(n + 1), [do |-> op, val |-> t[1].val]>> \o Tail(t)
  PROVE  Expanded(t, op, n, u)
<1>1. PICK i : i = Expr(n + 1)
  OBVIOUS
<1>2. PICK k : k = [do |-> op, val |-> t[1].val]
  OBVIOUS
<1>3. t[1] \in Items /\ Len(t) \in Nat \ {0} /\ Tail(t) \in Seq(Items) /\ Len(Tail(t)) = Len(t) - 1
      /\ \A m \in 1 .. Len(t) - 1 : Tail(t)[m] = t[m + 1]
  BY TailIs
<1>4. i \in Items
  BY <1>1 DEF Expr, Items, Dos
<1>5. k \in Items
  <2>1. t[1].val \in Nat \ {0} /\ op \in Dos
    BY <1>3 DEF Items, Dos
  <2>2. QED
    BY <1>2, <2>1 DEF Items
<1>6. PICK s : s = Tail(t)
  OBVIOUS
<1>7. u = <<i, k>> \o s
  BY <1>1, <1>2, <1>6
<1>8. s \in Seq(Items) /\ Len(s) = Len(t) - 1 /\ \A m \in 1 .. Len(t) - 1 : s[m] = t[m + 1]
  BY <1>3, <1>6
<1>9. /\ u \in Seq(Items) /\ Len(u) = Len(t) + 1 /\ u[1] = i /\ u[2] = k
  BY <1>3, <1>4, <1>5, <1>7, <1>8
<1>10. \A m \in 2 .. Len(t) : u[m + 1] = t[m]
  <2>1. TAKE m \in 2 .. Len(t)
  <2>2. PICK l : l = m - 1 /\ l \in 1 .. Len(t) - 1 /\ m + 1 = 2 + l /\ l + 1 = m
    BY <1>3
  <2>3. u[2 + l] = s[l]
    BY SMTT(30), <1>3, <1>4, <1>5, <1>7, <1>8, <2>2
  <2>4. QED
    BY <1>8, <2>2, <2>3
<1>11. \A m \in 1 .. 1 : u[m] = Expr(n + m)
  BY <1>1, <1>9
<1>12. PICK r : r = 1
  OBVIOUS
<1>13. Pops(op) = r
  BY <1>12, PopsAre
<1>14. /\ Len(u) = Len(t) + r /\ u[r + 1] = [do |-> op, val |-> t[1].val]
       /\ \A m \in 1 .. r : u[m] = Expr(n + m)
       /\ \A m \in 2 .. Len(t) : u[m + r] = t[m]
  BY <1>2, <1>9, <1>10, <1>11, <1>12
<1>15. QED
  BY <1>9, <1>13, <1>14 DEF Expanded

\* The context and the work in front of an item, as constants.
LEMMA InFront ==
  ASSUME IInv, todo # <<>>
  PROVE  /\ Orderly(Here, todo) /\ todo \in Seq(Items) /\ Head(todo) = todo[1]
         /\ Val = todo[1].val /\ Here.vals = vals /\ Len(vals) \in Nat
<1>1. Orderly(Here, todo) /\ todo \in Seq(Items) /\ Here.vals = vals
  BY HereIs DEF IInv, Orderly
<1>2. Head(todo) = todo[1]
  BY <1>1, TailIs
<1>3. PICK c : c = Here
  OBVIOUS
<1>4. Len(c.vals) \in Nat
  BY <1>1, <1>3, ContextFields DEF Orderly, Sound
<1>5. QED
  BY <1>1, <1>2, <1>3, <1>4 DEF Val

\* A step on the item at the head of todo that leads to d and u.
LEMMA ItemDone ==
  ASSUME IInv, todo # <<>>, NothingChosen \/ Chosen(2),
         NEW d, NEW u, Orderly(d, u), Becomes(d), todo' = u
  PROVE  IInv'
<1>1. Orderly(Here', todo')
  BY Reached
<1>2. nodes' \in 0 .. MaxNodes /\ ended' \in BOOLEAN /\ ~ended'
  BY StillGoing
<1>3. QED
  BY <1>1, <1>2 DEF IInv

LEMMA BinaryKeeps == ASSUME NEW op \in BinaryOps, IInv, Binary(op) PROVE IInv'
<1>1. todo # <<>> /\ todo[1].do = "expr" /\ Chosen(2)
  BY InFront DEF Binary, AtExpr
<1>2. PICK c, t : c = Here /\ t = todo
  OBVIOUS
<1>3. PICK n : n = Len(vals)
  OBVIOUS
<1>4. /\ Orderly(c, t) /\ Sound(c) /\ t \in Seq(Items) /\ t # <<>> /\ t[1].do = "expr"
      /\ n = Len(c.vals) /\ n \in Nat /\ Val = t[1].val
  BY <1>1, <1>2, <1>3, InFront DEF Orderly
<1>5. PICK u : u = todo'
  OBVIOUS
<1>6. u = <<Expr(n + 1), Expr(n + 2), [do |-> op, val |-> t[1].val]>> \o Tail(t)
  BY <1>2, <1>3, <1>4, <1>5 DEF Binary
<1>7. Expanded(t, op, n, u)
  BY <1>4, <1>6, BinaryExpands
<1>8. PICK b \in BOOLEAN : ~b
  OBVIOUS
<1>9. PICK decls : decls = <<b, b>>
  OBVIOUS
<1>10. decls \in Seq(BOOLEAN) /\ Len(decls) = 2 /\ \A k \in DOMAIN decls : ~decls[k]
  <2>1. decls \in Seq(BOOLEAN) /\ Len(decls) = 2 /\ \A k \in DOMAIN decls : decls[k] = b
    BY <1>9
  <2>2. QED
    BY <1>8, <2>1, Zenon
<1>11. Len(decls) = Pops(op)
  BY <1>10, PopsAre
<1>12. PICK d : d = Pushed(c, decls)
  OBVIOUS
<1>13. Grown(c, decls, d)
  BY <1>4, <1>10, <1>12, PushStep
<1>14. Orderly(d, u)
  BY <1>4, <1>7, <1>10, <1>11, <1>13, ExpandingKeeps
<1>15. Becomes(d)
  <2>1. Becomes(Pushed(Here, <<b, b>>))
    BY <1>8, Zenon DEF Binary
  <2>2. QED
    BY <1>2, <1>9, <1>12, <2>1
<1>16. QED
  BY <1>1, <1>5, <1>14, <1>15, ItemDone

LEMMA UnaryKeeps == ASSUME NEW op \in UnaryOps, IInv, Unary(op) PROVE IInv'
<1>1. todo # <<>> /\ todo[1].do = "expr" /\ Chosen(2)
  BY InFront DEF Unary, AtExpr
<1>2. PICK c, t : c = Here /\ t = todo
  OBVIOUS
<1>3. PICK n : n = Len(vals)
  OBVIOUS
<1>4. /\ Orderly(c, t) /\ Sound(c) /\ t \in Seq(Items) /\ t # <<>> /\ t[1].do = "expr"
      /\ n = Len(c.vals) /\ n \in Nat /\ Val = t[1].val
  BY <1>1, <1>2, <1>3, InFront DEF Orderly
<1>5. PICK u : u = todo'
  OBVIOUS
<1>6. u = <<Expr(n + 1), [do |-> op, val |-> t[1].val]>> \o Tail(t)
  BY <1>2, <1>3, <1>4, <1>5 DEF Unary
<1>7. Expanded(t, op, n, u)
  BY <1>4, <1>6, UnaryExpands
<1>8. PICK b \in BOOLEAN : ~b
  OBVIOUS
<1>9. PICK decls : decls = <<b>>
  OBVIOUS
<1>10. decls \in Seq(BOOLEAN) /\ Len(decls) = 1 /\ \A k \in DOMAIN decls : ~decls[k]
  <2>1. decls \in Seq(BOOLEAN) /\ Len(decls) = 1 /\ \A k \in DOMAIN decls : decls[k] = b
    BY <1>9
  <2>2. QED
    BY <1>8, <2>1, Zenon
<1>11. Len(decls) = Pops(op)
  BY <1>10, PopsAre
<1>12. PICK d : d = Pushed(c, decls)
  OBVIOUS
<1>13. Grown(c, decls, d)
  BY <1>4, <1>10, <1>12, PushStep
<1>14. Orderly(d, u)
  BY <1>4, <1>7, <1>10, <1>11, <1>13, ExpandingKeeps
<1>15. Becomes(d)
  <2>1. Becomes(Pushed(Here, <<b>>))
    BY <1>8, Zenon DEF Unary
  <2>2. QED
    BY <1>2, <1>9, <1>12, <2>1
<1>16. QED
  BY <1>1, <1>5, <1>14, <1>15, ItemDone

\* One lemma per item: what the actions emit is what the lemmas about the
\* items are about.
LEMMA LiteralStep == IInv /\ Literal => IInv'
<1>1. SUFFICES ASSUME IInv, Literal PROVE IInv'
  OBVIOUS
<1>2. todo # <<>> /\ todo[1].do = "expr" /\ NothingChosen /\ todo' = Tail(todo)
  BY <1>1, InFront DEF Literal, AtExpr
<1>3. Orderly(Here, todo) /\ Val = todo[1].val
  BY <1>1, <1>2, InFront
<1>4. PICK d \in Emits(Here, <<Val>>) : Becomes(d)
  BY <1>1 DEF Literal
<1>5. Orderly(d, Tail(todo))
  BY <1>2, <1>3, <1>4, LiteralKeeps
<1>6. QED
  BY <1>1, <1>2, <1>4, <1>5, ItemDone

LEMMA DeclRefStep == ASSUME NEW y \in DOMAIN vals, IInv, DeclRef(y) PROVE IInv'
<1>1. todo # <<>> /\ todo[1].do = "expr" /\ NothingChosen /\ todo' = Tail(todo)
  BY InFront DEF DeclRef, AtExpr
<1>2. Orderly(Here, todo) /\ Val = todo[1].val /\ Here.vals = vals
  BY <1>1, InFront
<1>3. PICK d \in Emits(Here, <<Val, y>>) : Becomes(d)
  BY DEF DeclRef
<1>4. y \in DOMAIN Here.vals /\ Here.vals[y].done
  BY <1>2 DEF DeclRef
<1>5. Orderly(d, Tail(todo))
  BY <1>1, <1>2, <1>3, <1>4, DeclRefKeeps
<1>6. QED
  BY <1>1, <1>3, <1>5, ItemDone

LEMMA CalculateStep == IInv /\ Calculate => IInv'
<1>1. SUFFICES ASSUME IInv, Calculate PROVE IInv'
  OBVIOUS
<1>2. todo # <<>> /\ todo[1].do = "calculate"
  BY <1>1, InFront DEF Calculate, Operator
<1>3. Orderly(Here, todo) /\ Val = todo[1].val /\ Here.vals = vals
  BY <1>1, <1>2, InFront
<1>4. PICK d \in Emits(Here, <<Val, Lhs, Rhs>>) : Finish(d, 2)
  BY <1>1 DEF Calculate
<1>5. d \in Emits(Here, <<todo[1].val, Len(Here.vals) - 1, Len(Here.vals)>>)
  BY <1>3, <1>4 DEF Lhs, Rhs
<1>6. Orderly(Popped(Popped(d)), Tail(todo))
  BY <1>2, <1>3, <1>5, CalculateKeeps
<1>7. Becomes(Popped(Popped(d))) /\ todo' = Tail(todo) /\ NothingChosen
  BY <1>4 DEF Finish
<1>8. QED
  BY <1>1, <1>2, <1>6, <1>7, ItemDone

LEMMA AssignStep == IInv /\ Assign => IInv'
<1>1. SUFFICES ASSUME IInv, Assign PROVE IInv'
  OBVIOUS
<1>2. todo # <<>> /\ todo[1].do = "assign"
  BY <1>1, InFront DEF Assign, Operator
<1>3. Orderly(Here, todo) /\ Val = todo[1].val /\ Here.vals = vals
  BY <1>1, <1>2, InFront
<1>4. PICK e \in Emits(Here, <<Lhs, Rhs>>) : \E d \in Emits(e, <<Val, Lhs>>) : Finish(d, 2)
  BY <1>1 DEF Assign
<1>5. PICK d \in Emits(e, <<Val, Lhs>>) : Finish(d, 2)
  BY <1>4
<1>6. /\ e \in Emits(Here, <<Len(Here.vals) - 1, Len(Here.vals)>>)
      /\ d \in Emits(e, <<todo[1].val, Len(Here.vals) - 1>>)
  BY <1>3, <1>4, <1>5 DEF Lhs, Rhs
<1>7. Orderly(Popped(Popped(d)), Tail(todo))
  BY <1>2, <1>3, <1>6, AssignKeeps
<1>8. Becomes(Popped(Popped(d))) /\ todo' = Tail(todo) /\ NothingChosen
  BY <1>5 DEF Finish
<1>9. QED
  BY <1>1, <1>2, <1>7, <1>8, ItemDone

LEMMA CalculateAndAssignStep == IInv /\ CalculateAndAssign => IInv'
<1>1. SUFFICES ASSUME IInv, CalculateAndAssign PROVE IInv'
  OBVIOUS
<1>2. todo # <<>> /\ todo[1].do = "calculateAndAssign"
  BY <1>1, InFront DEF CalculateAndAssign, Operator
<1>3. Orderly(Here, todo) /\ Val = todo[1].val /\ Here.vals = vals
  BY <1>1, <1>2, InFront
<1>4. PICK e \in Emits(Here, <<Lhs, Lhs, Rhs>>) :
        \E d \in Emits(e, <<Val, Lhs>>) : Finish(d, 2)
  BY <1>1 DEF CalculateAndAssign
<1>5. PICK d \in Emits(e, <<Val, Lhs>>) : Finish(d, 2)
  BY <1>4
<1>6. /\ e \in Emits(Here, <<Len(Here.vals) - 1, Len(Here.vals) - 1, Len(Here.vals)>>)
      /\ d \in Emits(e, <<todo[1].val, Len(Here.vals) - 1>>)
  BY <1>3, <1>4, <1>5 DEF Lhs, Rhs
<1>7. Orderly(Popped(Popped(d)), Tail(todo))
  BY <1>2, <1>3, <1>6, CalculateAndAssignKeeps
<1>8. Becomes(Popped(Popped(d))) /\ todo' = Tail(todo) /\ NothingChosen
  BY <1>5 DEF Finish
<1>9. QED
  BY <1>1, <1>2, <1>7, <1>8, ItemDone

LEMMA PlusOrNotStep == IInv /\ PlusOrNot => IInv'
<1>1. SUFFICES ASSUME IInv, PlusOrNot PROVE IInv'
  OBVIOUS
<1>2. todo # <<>> /\ todo[1].do = "plusOrNot"
  BY <1>1, InFront DEF PlusOrNot, Operator
<1>3. Orderly(Here, todo) /\ Val = todo[1].val /\ Here.vals = vals
  BY <1>1, <1>2, InFront
<1>4. PICK d \in Emits(Here, <<Val, Rhs>>) : Finish(d, 1)
  BY <1>1 DEF PlusOrNot
<1>5. d \in Emits(Here, <<todo[1].val, Len(Here.vals)>>)
  BY <1>3, <1>4 DEF Rhs
<1>6. Orderly(Popped(d), Tail(todo))
  BY <1>2, <1>3, <1>5, PlusOrNotKeeps
<1>7. Becomes(Popped(d)) /\ todo' = Tail(todo) /\ NothingChosen
  BY <1>4 DEF Finish
<1>8. QED
  BY <1>1, <1>2, <1>6, <1>7, ItemDone

LEMMA MinusStep == IInv /\ Minus => IInv'
<1>1. SUFFICES ASSUME IInv, Minus PROVE IInv'
  OBVIOUS
<1>2. todo # <<>> /\ todo[1].do = "minus"
  BY <1>1, InFront DEF Minus, Operator
<1>3. Orderly(Here, todo) /\ Val = todo[1].val /\ Here.vals = vals
  BY <1>1, <1>2, InFront
<1>4. PICK e \in Emits(Here, <<Val, Rhs>>) : \E d \in Emits(e, <<Val, Val>>) : Finish(d, 1)
  BY <1>1 DEF Minus
<1>5. PICK d \in Emits(e, <<Val, Val>>) : Finish(d, 1)
  BY <1>4
<1>6. /\ e \in Emits(Here, <<todo[1].val, Len(Here.vals)>>)
      /\ d \in Emits(e, <<todo[1].val, todo[1].val>>)
  BY <1>3, <1>4, <1>5 DEF Rhs
<1>7. Orderly(Popped(d), Tail(todo))
  BY <1>2, <1>3, <1>6, MinusKeeps
<1>8. Becomes(Popped(d)) /\ todo' = Tail(todo) /\ NothingChosen
  BY <1>5 DEF Finish
<1>9. QED
  BY <1>1, <1>2, <1>7, <1>8, ItemDone

LEMMA NextKeeps == IInv /\ [Next]_vars => IInv'
<1>1. SUFFICES ASSUME IInv, [Next]_vars PROVE IInv'
  OBVIOUS
<1>2. CASE Declare
  BY <1>1, <1>2, DeclareKeeps
<1>3. CASE ExpressionStatement
  BY <1>1, <1>3, ExpressionStatementKeeps
<1>4. CASE Drop
  BY <1>1, <1>4, DropKeeps
<1>5. CASE Return
  BY <1>1, <1>5, ReturnKeeps
<1>6. CASE \E op \in BinaryOps : Binary(op)
  BY <1>1, <1>6, BinaryKeeps
<1>7. CASE \E op \in UnaryOps : Unary(op)
  BY <1>1, <1>7, UnaryKeeps
<1>8. CASE Literal
  BY <1>1, <1>8, LiteralStep
<1>9. CASE \E d \in DOMAIN vals : DeclRef(d)
  BY <1>1, <1>9, DeclRefStep
<1>10. CASE Calculate
  BY <1>1, <1>10, CalculateStep
<1>11. CASE Assign
  BY <1>1, <1>11, AssignStep
<1>12. CASE CalculateAndAssign
  BY <1>1, <1>12, CalculateAndAssignStep
<1>13. CASE PlusOrNot
  BY <1>1, <1>13, PlusOrNotStep
<1>14. CASE Minus
  BY <1>1, <1>14, MinusStep
<1>15. CASE UNCHANGED vars
  <2>1. Here' = Here /\ todo' = todo /\ nodes' = nodes /\ ended' = ended /\ vals' = vals
    BY <1>15 DEF vars, Here
  <2>2. QED
    BY <1>1, <2>1 DEF IInv
<1>16. QED
  BY <1>1, <1>2, <1>3, <1>4, <1>5, <1>6, <1>7, <1>8, <1>9, <1>10, <1>11, <1>12, <1>13, <1>14,
     <1>15 DEF Next

LEMMA IInvTyped == IInv => TypeOK
<1>1. SUFFICES ASSUME IInv PROVE TypeOK
  OBVIOUS
<1>2. PICK c, t : c = Here /\ t = todo
  OBVIOUS
<1>3. /\ Sound(c) /\ c \in Context /\ t \in Seq(Items) /\ Orderly(c, t)
  BY <1>1, <1>2 DEF IInv, Orderly, Sound
<1>4. c.vals = vals /\ c.owner = owner /\ c.prior = prior /\ c.held = held
  BY <1>2, HereIs
<1>5. /\ vals \in Seq(ValType) /\ Len(vals) \in Nat /\ DOMAIN vals = 1 .. Len(vals)
      /\ owner \in [Regs -> Nat] /\ prior \in [Regs -> Nat] /\ held \in [Regs -> Nat]
  BY <1>3, <1>4, ContextFields
<1>6. \A v \in DOMAIN vals : vals[v].where = "reg" => vals[v].reg \in Temps
  BY <1>3, <1>4 DEF Sound
<1>7. /\ owner \in [Regs -> 0 .. Len(vals)] /\ held \in [Regs -> 0 .. Len(vals)]
  <2>1. \A r \in Regs : owner[r] \in 0 .. Len(vals) /\ held[r] \in 0 .. Len(vals)
    BY <1>3, <1>4, <1>5 DEF Sound
  <2>2. QED
    BY <1>5, <2>1
<1>8. t \in Seq([do : Dos, val : DOMAIN vals])
  <2>1. PICK h : Heights(c, t, h)
    BY <1>3 DEF Orderly
  <2>2. Len(t) \in Nat /\ \A k \in 1 .. Len(t) : t[k] \in Items
    BY <1>3
  <2>3. ASSUME NEW k \in 1 .. Len(t)
        PROVE  t[k] \in [do : Dos, val : DOMAIN vals]
    <3>1. t[k] \in Items /\ t[k].do \in Dos /\ t[k].val \in Nat \ {0}
      BY <2>2 DEF Items
    <3>2. k \in 1 .. Len(t) + 1 /\ k + 1 \in 1 .. Len(t) + 1 /\ 1 \in 1 .. Len(t) + 1
          /\ 1 <= k /\ 1 <= k + 1
      BY <2>2
    <3>3. h[k] <= Len(vals) /\ h[k + 1] <= Len(vals)
      BY <1>4, <2>1, <3>2 DEF Heights
    <3>4. t[k].val = h[k] \/ t[k].val <= h[k + 1]
      BY <2>1 DEF Heights
    <3>5. h \in [1 .. Len(t) + 1 -> Nat]
      BY <2>1 DEF Heights
    <3>6. h[k] \in Nat /\ h[k + 1] \in Nat
      BY <3>2, <3>5
    <3>7. t[k].val \in DOMAIN vals
      BY <1>5, <3>1, <3>3, <3>4, <3>6
    <3>8. QED
      BY <3>1, <3>7 DEF Items
  <2>4. PICK S : S = [do : Dos, val : DOMAIN vals]
    OBVIOUS
  <2>5. \A k \in 1 .. Len(t) : t[k] \in S
    BY <2>3, <2>4
  <2>6. t \in Seq(S)
    BY <1>3, <2>2, <2>5
  <2>7. QED
    BY <2>4, <2>6
<1>9. nodes \in 0 .. MaxNodes /\ ended \in BOOLEAN
  BY <1>1 DEF IInv
<1>10. todo \in Seq([do : BinaryOps \cup UnaryOps \cup {"expr", "drop"}, val : DOMAIN vals])
  BY <1>2, <1>8 DEF Dos
<1>11. QED
  BY <1>5, <1>6, <1>7, <1>9, <1>10 DEF TypeOK

LEMMA IInvAgrees == IInv => RegistersAgree
<1>1. SUFFICES ASSUME IInv PROVE RegistersAgree
  OBVIOUS
<1>2. PICK c : c = Here
  OBVIOUS
<1>3. Sound(c) /\ c.vals = vals /\ c.owner = owner
  BY <1>1, <1>2, HereIs DEF IInv, Orderly
<1>4. QED
  BY <1>3 DEF Sound, RegistersAgree

LEMMA IInvKeeps == IInv => ValuesKept
<1>1. SUFFICES ASSUME IInv PROVE ValuesKept
  OBVIOUS
<1>2. PICK c : c = Here
  OBVIOUS
<1>3. Kept(c) /\ c.vals = vals /\ c.held = held
  BY <1>1, <1>2, HereIs DEF IInv, Orderly
<1>4. QED
  BY <1>3 DEF Kept, Holds, ValuesKept

LEMMA IInvBalanced == IInv => StackBalanced
<1>1. SUFFICES ASSUME IInv PROVE StackBalanced
  OBVIOUS
<1>2. PICK c, t : c = Here /\ t = todo
  OBVIOUS
<1>3. Orderly(c, t) /\ c.vals = vals /\ c.owner = owner
  BY <1>1, <1>2, HereIs DEF IInv
<1>4. todo = <<>> => \A v \in DOMAIN vals : vals[v].decl /\ vals[v].done
  BY <1>2, <1>3, BetweenStatements
<1>5. ASSUME ended
      PROVE  vals = <<>> /\ owner = [r \in Regs |-> 0]
  <2>1. t = <<>> /\ vals = <<>>
    BY <1>1, <1>2, <1>5 DEF IInv
  <2>2. Closing(c, Len(c.vals)) /\ Len(c.vals) = 0
    BY <1>3, <2>1, BetweenStatements
  <2>3. c.owner = [r \in Regs |-> 0]
    BY <2>2, NothingLeft
  <2>4. QED
    BY <1>3, <2>1, <2>3
<1>6. QED
  BY <1>4, <1>5 DEF StackBalanced

\* The invariant holds in every state of every behaviour.
THEOREM Invariance == Spec => []IInv
  BY InitOrderly, NextKeeps, PTL DEF Spec

\* The context stays well formed whatever is generated: in particular a
\* temporary register is always found, so that genContextGetRegister never
\* falls back to R00 (Gen.c 266), however deep the expressions are.
THEOREM TypeCorrect == Spec => []TypeOK
  BY Invariance, IInvTyped, PTL

\* Through every load, spill and pop a register belongs to the one value that
\* says it is in it: ctx->regs[] and the values of the stack never disagree.
THEOREM RegistersStayPaired == Spec => []RegistersAgree
  BY Invariance, IInvAgrees, PTL

\* Until a result is used or popped its place holds its val->size low bytes, in
\* whichever order the operands of an instruction are loaded: genValueLoad
\* brings back the bytes it spilled, and it never spills an operand of the
\* instruction that is being emitted. Of the other bytes of a register, which
\* a load clears, nothing is said.
THEOREM ResultsKept == Spec => []ValuesKept
  BY Invariance, IInvKeeps, PTL

\* Every value that is pushed is popped: between two statements the stack holds
\* the declarations of the block, and after the return every register is free.
THEOREM StackIsBalanced == Spec => []StackBalanced
  BY Invariance, IInvBalanced, PTL
=============================================================================
