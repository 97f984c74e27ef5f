--------------------------- MODULE WarpPipelineProofs ---------------------------
(***************************************************************************)
(* Proofs about WarpPipeline, for any number of warps, registers, units    *)
(* and places in the queues: the counters and the scoreboard are exact and *)
(* answers find the warp that asked.                                       *)
(***************************************************************************)
EXTENDS WarpPipeline, FiniteSetTheorems, TLAPS

(***************************************************************************)
(* No ld.global.nc runs under gmem_skip_L1D: its answer is taken past the  *)
(* cache and leaves an MSHR entry behind (see the README, skip_nc).        *)
(***************************************************************************)
NoSkippedNc ==
  \A s \in Scenarios : s.skip =>
    \A n \in DOMAIN s.programs : \A i \in DOMAIN s.programs[n] : s.programs[n][i].op # "nc"

Instr == [w : Warp, gen : Nat, i : Nat, inst : Inst]
Acc == [w : Warp, gen : Nat, inst : Inst, i : Nat, k : Nat]

-------------------------------------------------------------------------------
(* The state. *)

\* A register of the pipeline: it holds one element of V or none.
Register(q, V) == q = << >> \/ (q = <<q[1]>> /\ q[1] \in V)

Slots ==
  /\ cfg \in Scenarios /\ launches \in Seq(Programs)
  /\ prog \in [Warp -> Programs \cup {<< >>}] /\ gen \in [Warp -> Nat]
  /\ pc \in [Warp -> Nat] /\ next_pc \in [Warp -> Nat]
  /\ ibuffer \in [Warp -> Seq(Nat)] /\ imiss \in [Warp -> Nat]
  /\ fetched = << >> \/ fetched \in Warp \X Nat
  /\ completed \in [Warp -> BOOLEAN] /\ done_exit \in [Warp -> BOOLEAN]

Counts ==
  /\ n_atomic \in [Warp -> Int] /\ stores \in [Warp -> Int] /\ in_pipe \in [Warp -> Int]
  /\ regs \in [Warp -> SUBSET Reg] /\ pending \in [Warp -> [Reg -> Int]]

Units ==
  /\ alu \subseteq Instr /\ oc \subseteq Instr
  /\ Register(dispatch, [x : Instr, left : Nat])
  /\ Register(smem, Instr)

Buffers ==
  /\ l1q \in Seq(Acc) /\ l1ready \in Seq(Acc) /\ response \in Seq(Acc)
  /\ memory \subseteq Acc /\ mshr \subseteq Seq(Acc) \ {<< >>}
  /\ Register(next_global, Acc)
  /\ Register(next_wb, Acc \cup Instr)

\* A warp that fetches has an empty buffer and does not go on until the fetch is over.
FetchOf(w) ==
  /\ done_exit[w] => completed[w]
  /\ completed[w] => ibuffer[w] = << >>
  /\ ~completed[w] => prog[w] \in Programs /\ pc[w] \in 1 .. Len(prog[w])
  /\ next_pc[w] # None
  /\ imiss[w] # None => imiss[w] = next_pc[w] /\ ibuffer[w] = << >> /\ ~completed[w]
  /\ fetched # << >> /\ fetched[1] = w =>
       fetched[2] = next_pc[w] /\ ibuffer[w] = << >> /\ ~completed[w] /\ imiss[w] = None
FetchOK == \A w \in Warp : FetchOf(w)

\* What runs under gmem_skip_L1D.
SkipOK ==
  cfg.skip =>
    /\ \A n \in 1 .. Len(launches) : \A i \in 1 .. Len(launches[n]) : launches[n][i].op # "nc"
    /\ \A w \in Warp : \A i \in 1 .. Len(prog[w]) : prog[w][i].op # "nc"

-------------------------------------------------------------------------------
(* What is in flight. *)

Sending == {d.x : d \in Range(dispatch)}

\* An access that is not waiting for a fill of the L1D cache.
Direct(a) == IsStore(a) \/ Bypasses(a.inst)

\* The places of an access that is not answered.  The fetch of a line by the L1D cache
\* does not count: the access is in the MSHR table then.
Place == {"l1q", "mshr", "l1ready", "memory", "response", "global", "wb"}
Missing == UNION {Range(e) : e \in mshr}
held ==
  [p \in Place |->
     CASE p = "l1q"      -> Range(l1q)
       [] p = "mshr"     -> Missing
       [] p = "l1ready"  -> Range(l1ready)
       [] p = "memory"   -> {a \in memory : Direct(a)}
       [] p = "response" -> {a \in Range(response) : Direct(a)}
       [] p = "global"   -> Range(next_global)
       [] p = "wb"       -> {a \in Range(next_wb) : IsLoad(a)}]

All(f) == UNION {f[p] : p \in Place}
Held == All(held)

\* Accesses that no client has brought to the writeback register.
Unserved == Held \ held["wb"]

\* Reads of shared memory that are about to be written back.
SharedBack == {a \in Range(next_wb) : ~IsLoad(a)}

InFlight == Issued \cup Held \cup SharedBack

Apart(f) == \A p, q \in Place : p # q => f[p] \cap f[q] = {}

Once(q) == \A i, j \in 1 .. Len(q) : q[i] = q[j] => i = j

\* Every access is in one place, once.
OnceOK ==
  /\ Apart(held)
  /\ Once(l1q) /\ Once(l1ready) /\ Once(response)
  /\ \A e \in mshr : Once(e)
  /\ \A e, f \in mshr : e # f => Range(e) \cap Range(f) = {}
  /\ memory \cap Range(response) = {}

\* The fetches of the L1D cache: one for each entry of the MSHR table.
FetchesOK ==
  /\ \A a \in memory \cup Range(response) : ~Direct(a) => \E e \in mshr : Head(e) = a
  /\ \A e, f \in mshr : Line(Head(e)) = Line(Head(f)) => e = f
  /\ \A e \in mshr : \A a \in Range(e) : Line(a) = Line(Head(e))

\* An instruction of the warp that has the slot now, and that is not over.
Current(x) ==
  /\ x.w \in Warp /\ x.gen = gen[x.w] /\ ~done_exit[x.w]
  /\ x.i \in 1 .. Len(prog[x.w]) /\ x.inst = prog[x.w][x.i]
  /\ ~completed[x.w] => x.i < pc[x.w]

CurrentOK == \A x \in InFlight : Current(x)

Same(x, y) == x.w = y.w /\ x.i = y.i

\* Where instructions are on their way through the units.
StagesOK ==
  /\ \A x \in alu : ~ToMemory(x.inst)
  /\ \A x \in oc : ToMemory(x.inst)
  /\ \A d \in Range(dispatch) :
       /\ ToMemory(d.x.inst) /\ d.x \notin oc
       /\ d.left <= d.x.inst.n /\ (d.left = 0 => d.x.inst.n = 0)
       /\ \A a \in Held : Same(a, d.x) => a.k > d.left
  /\ \A x \in Range(smem) : x.inst.op = "shared" /\ x \notin oc /\ x \notin Sending
  /\ \A a \in Held : \A x \in oc : ~Same(a, x)
  /\ \A a \in SharedBack : a.inst.op = "shared" /\ a \notin Issued /\ a \in Instr

\* Which accesses are where.
AccessesOK ==
  /\ Held \subseteq Acc
  /\ \A a \in Held \cup memory \cup Range(response) :
       /\ IsLoad(a) \/ IsStore(a)
       /\ a.k \in 1 .. a.inst.n
  /\ \A a \in Range(l1q) \cup Missing \cup Range(l1ready) : ~Bypasses(a.inst)
  /\ \A a \in Missing \cup Range(l1ready) \cup Range(next_global) : IsLoad(a)
  /\ \A a \in Range(next_global) : Bypasses(a.inst)

-------------------------------------------------------------------------------
(* The counters and the scoreboard. *)

\* Accesses of warp w of one kind, and those with register r as destination.
Mine(w, op) == {a \in Acc : a.w = w /\ a.inst.op = op}
Into(w, r) == {a \in Acc : a.w = w /\ IsLoad(a) /\ r \in Outs(a.inst)}
Of(w) == {x \in Instr : x.w = w}

\* The accesses of the atomics of warp w in S.
DueIn(S, w) == UNION {{x} \X (1 .. x.inst.n) : x \in {y \in S : y.w = w /\ y.inst.op = "atomic"}}
Due(w) == DueIn(oc, w)

\* How many accesses of the instruction in the dispatch register, if it is in T, are unsent.
UnsentIn(T) == IF dispatch # << >> /\ dispatch[1].x \in T THEN dispatch[1].left ELSE 0
Atomics(w) == {x \in Instr : x.w = w /\ x.inst.op = "atomic"}
Loading(w, r) == {x \in Instr : x.w = w /\ IsLoad(x) /\ r \in Outs(x.inst)}

PipeCount ==
  \A w \in Warp : in_pipe[w] = Len(ibuffer[w]) + Cardinality(Issued \cap Of(w))
StoreCount ==
  \A w \in Warp : stores[w] = Cardinality(Held \cap Mine(w, "store"))
AtomicCount ==
  \A w \in Warp :
    n_atomic[w] = Cardinality(Due(w)) + UnsentIn(Atomics(w))
                  + Cardinality(Unserved \cap Mine(w, "atomic"))

FiniteOK ==
  IsFiniteSet(Held) /\ IsFiniteSet(Issued) /\ \A w \in Warp : IsFiniteSet(Due(w))

\* m_pending_writes counts the accesses of loads.
PendingOK ==
  \A w \in Warp, r \in Reg :
    pending[w][r] = UnsentIn(Loading(w, r)) + Cardinality(Held \cap Into(w, r))

Writes(x, w, r) == x.w = w /\ r \in Outs(x.inst)

\* A register has one writer, and it is held for it.
OneWriter ==
  \A w \in Warp, r \in Reg : \A x, y \in InFlight : Writes(x, w, r) /\ Writes(y, w, r) => x.i = y.i
HoldOK ==
  \A w \in Warp, r \in Reg : r \in regs[w] <=> \E x \in InFlight : Writes(x, w, r)

\* The front of the pipeline, the places of accesses, and what is counted.
Front == Slots /\ FetchOK /\ SkipOK
Flow == Buffers /\ OnceOK /\ FetchesOK /\ AccessesOK
Books == PipeCount /\ StoreCount /\ AtomicCount /\ PendingOK /\ OneWriter /\ HoldOK

Back == Counts /\ Units /\ FiniteOK /\ CurrentOK /\ StagesOK /\ Books

Pipe == Front /\ Flow /\ Back

-------------------------------------------------------------------------------
(* Sequences, sets and places. *)

\* The elements of a sequence.
LEMMA RangeOf ==
  ASSUME NEW V, NEW q \in Seq(V)
  PROVE  /\ Range(q) \subseteq V
         /\ \A i \in 1 .. Len(q) : q[i] \in Range(q)
         /\ \A a \in Range(q) : \E i \in 1 .. Len(q) : q[i] = a
         /\ Range(q) = {} <=> q = << >>
<1>1. DOMAIN q = 1 .. Len(q) /\ Len(q) \in Nat /\ \A i \in 1 .. Len(q) : q[i] \in V
  OBVIOUS
<1>2. q # << >> => q[1] \in Range(q)
  BY <1>1 DEF Range
<1>3. q = << >> => Range(q) = {}
  BY DEF Range
<1> QED BY <1>1, <1>2, <1>3 DEF Range

\* Sequences of at most one element.
LEMMA RangeOne ==
  /\ Range(<< >>) = {} /\ Once(<< >>)
  /\ \A a : Range(<<a>>) = {a} /\ Once(<<a>>)
<1>1. Range(<< >>) = {} /\ Once(<< >>)
  BY DEF Range, Once
<1>2. ASSUME NEW a
      PROVE  Range(<<a>>) = {a} /\ Once(<<a>>)
  <2>1. DOMAIN <<a>> = {1} /\ <<a>>[1] = a /\ Len(<<a>>) = 1
    OBVIOUS
  <2> QED BY <2>1 DEF Range, Once
<1> QED BY <1>1, <1>2

\* A register of the pipeline holds its only element.
LEMMA RegisterRange ==
  ASSUME NEW V, NEW q, Register(q, V)
  PROVE  /\ Range(q) \subseteq V
         /\ q = << >> => Range(q) = {}
         /\ q # << >> => q = <<q[1]>> /\ q[1] \in V /\ Range(q) = {q[1]}
<1>1. CASE q = << >>
  BY <1>1, RangeOne
<1>2. CASE q # << >>
  <2>1. PICK a \in V : q = <<a>> /\ q[1] = a
    BY <1>2 DEF Register
  <2> QED BY <1>2, <2>1, RangeOne
<1> QED BY <1>1, <1>2

\* The first element leaves a sequence ...
LEMMA OnceTail ==
  ASSUME NEW V, NEW q \in Seq(V), q # << >>, Once(q)
  PROVE  /\ Tail(q) \in Seq(V) /\ Head(q) \in Range(q) /\ Head(q) \in V
         /\ Once(Tail(q)) /\ Range(Tail(q)) = Range(q) \ {Head(q)}
<1> DEFINE r == Tail(q)
<1>1. /\ r \in Seq(V) /\ Len(r) = Len(q) - 1 /\ Len(q) \in Nat \ {0} /\ Head(q) = q[1]
      /\ Head(q) \in V /\ \A i \in 1 .. Len(r) : r[i] = q[i + 1]
  OBVIOUS
<1> HIDE DEF r
<1>2. Once(r)
  BY <1>1 DEF Once
<1>3. Head(q) \in Range(q)
  BY <1>1, RangeOf
<1>4. ASSUME NEW a \in Range(r)
      PROVE  a \in Range(q) \ {Head(q)}
  <2>1. PICK i \in 1 .. Len(r) : r[i] = a
    BY <1>1, RangeOf
  <2>2. i + 1 \in 1 .. Len(q) /\ 1 \in 1 .. Len(q) /\ q[i + 1] = a /\ i + 1 # 1
    BY <1>1, <2>1
  <2> QED BY <1>1, <2>2, RangeOf DEF Once
<1>5. ASSUME NEW a \in Range(q), a # Head(q)
      PROVE  a \in Range(r)
  <2>1. PICK i \in 1 .. Len(q) : q[i] = a
    BY RangeOf
  <2>2. i - 1 \in 1 .. Len(r) /\ r[i - 1] = a
    BY <1>1, <1>5, <2>1
  <2> QED BY <1>1, <2>2, RangeOf
<1> QED BY <1>1, <1>2, <1>3, <1>4, <1>5 DEF r

\* ... and a new one enters it.
LEMMA OnceAppend ==
  ASSUME NEW V, NEW q \in Seq(V), NEW a \in V, Once(q), a \notin Range(q)
  PROVE  /\ Append(q, a) \in Seq(V) /\ Append(q, a) # << >>
         /\ Head(Append(q, a)) = IF q = << >> THEN a ELSE Head(q)
         /\ Once(Append(q, a)) /\ Range(Append(q, a)) = Range(q) \cup {a}
<1> DEFINE r == Append(q, a)
<1>1. /\ r \in Seq(V) /\ Len(r) = Len(q) + 1 /\ Len(q) \in Nat /\ r[Len(q) + 1] = a
      /\ \A i \in 1 .. Len(q) : r[i] = q[i]
  OBVIOUS
<1> HIDE DEF r
<1>2. r # << >> /\ Head(r) = IF q = << >> THEN a ELSE Head(q)
  <2>1. r # << >> /\ Head(r) = r[1]
    BY <1>1
  <2>2. q = << >> => r[1] = a
    <3> SUFFICES ASSUME q = << >> PROVE r[1] = a
      OBVIOUS
    <3>1. Len(q) = 0
      OBVIOUS
    <3> QED BY <1>1, <3>1
  <2>3. q # << >> => r[1] = Head(q)
    <3> SUFFICES ASSUME q # << >> PROVE r[1] = Head(q)
      OBVIOUS
    <3>1. 1 \in 1 .. Len(q) /\ Head(q) = q[1]
      OBVIOUS
    <3> QED BY <1>1, <3>1
  <2> QED BY <2>1, <2>2, <2>3
<1>3. \A i \in 1 .. Len(r) : i \in 1 .. Len(q) \/ i = Len(q) + 1
  BY <1>1
<1>4. \A i \in 1 .. Len(q) : q[i] # a
  BY RangeOf
<1>5. Once(r)
  BY <1>1, <1>3, <1>4 DEF Once
<1>6. ASSUME NEW b \in Range(r)
      PROVE  b \in Range(q) \cup {a}
  <2>1. PICK i \in 1 .. Len(r) : r[i] = b
    BY <1>1, RangeOf
  <2> QED BY <1>1, <1>3, <2>1, RangeOf
<1>7. ASSUME NEW b \in Range(q) \cup {a}
      PROVE  b \in Range(r)
  <2>1. \E i \in 1 .. Len(r) : r[i] = b
    <3>1. CASE b = a
      BY <1>1, <3>1
    <3>2. CASE b \in Range(q)
      <4>1. PICK i \in 1 .. Len(q) : q[i] = b
        BY <3>2, RangeOf
      <4> QED BY <1>1, <4>1
    <3> QED BY <3>1, <3>2
  <2> QED BY <1>1, <2>1, RangeOf
<1> QED BY <1>1, <1>2, <1>5, <1>6, <1>7 DEF r

\* Two sequences with nothing in common are joined.
LEMMA OnceConcat ==
  ASSUME NEW V, NEW p \in Seq(V), NEW q \in Seq(V), Once(p), Once(q), Range(p) \cap Range(q) = {}
  PROVE  p \o q \in Seq(V) /\ Once(p \o q) /\ Range(p \o q) = Range(p) \cup Range(q)
<1> DEFINE r == p \o q
<1>1. /\ r \in Seq(V) /\ Len(r) = Len(p) + Len(q) /\ Len(p) \in Nat /\ Len(q) \in Nat
      /\ \A i \in 1 .. Len(p) : r[i] = p[i]
      /\ \A i \in 1 .. Len(q) : r[Len(p) + i] = q[i]
  OBVIOUS
<1> HIDE DEF r
<1>2. \A i \in 1 .. Len(r) : i \in 1 .. Len(p) \/ (i - Len(p) \in 1 .. Len(q) /\ r[i] = q[i - Len(p)])
  BY <1>1
<1>3. \A i \in 1 .. Len(p), j \in 1 .. Len(q) : p[i] # q[j]
  BY RangeOf
<1>4. ASSUME NEW i \in 1 .. Len(r), NEW j \in 1 .. Len(r), r[i] = r[j]
      PROVE  i = j
  <2>1. CASE i \in 1 .. Len(p) /\ j \in 1 .. Len(p)
    BY <1>1, <1>4, <2>1 DEF Once
  <2>2. CASE i \notin 1 .. Len(p) /\ j \notin 1 .. Len(p)
    <3>1. i - Len(p) = j - Len(p)
      BY <1>2, <1>4, <2>2 DEF Once
    <3> QED BY <1>1, <3>1
  <2>3. CASE i \in 1 .. Len(p) /\ j \notin 1 .. Len(p)
    BY <1>1, <1>2, <1>3, <1>4, <2>3
  <2>4. CASE i \notin 1 .. Len(p) /\ j \in 1 .. Len(p)
    BY <1>1, <1>2, <1>3, <1>4, <2>4
  <2> QED BY <2>1, <2>2, <2>3, <2>4
<1>5. ASSUME NEW b \in Range(r)
      PROVE  b \in Range(p) \cup Range(q)
  <2>1. PICK i \in 1 .. Len(r) : r[i] = b
    BY <1>1, RangeOf
  <2>2. CASE i \in 1 .. Len(p)
    <3>1. p[i] = b
      BY <1>1, <2>1, <2>2
    <3> QED BY <2>2, <3>1, RangeOf
  <2>3. CASE i \notin 1 .. Len(p)
    <3>1. PICK j \in 1 .. Len(q) : q[j] = b
      BY <1>2, <2>1, <2>3
    <3> QED BY <3>1, RangeOf
  <2> QED BY <2>2, <2>3
<1>6. ASSUME NEW b \in Range(p) \cup Range(q)
      PROVE  b \in Range(r)
  <2>1. CASE b \in Range(p)
    <3>1. PICK i \in 1 .. Len(p) : p[i] = b
      BY <2>1, RangeOf
    <3>2. i \in 1 .. Len(r) /\ r[i] = b
      BY <1>1, <3>1
    <3> QED BY <1>1, <3>2, RangeOf
  <2>2. CASE b \in Range(q)
    <3>1. PICK i \in 1 .. Len(q) : q[i] = b
      BY <2>2, RangeOf
    <3>2. Len(p) + i \in 1 .. Len(r) /\ r[Len(p) + i] = b
      BY <1>1, <3>1
    <3> QED BY <1>1, <3>2, RangeOf
  <2> QED BY <2>1, <2>2
<1>7. Once(r)
  BY <1>4 DEF Once
<1> QED BY <1>1, <1>5, <1>6, <1>7 DEF r

\* The elements of M go from place p to place q, ...
LEMMA Moved ==
  ASSUME NEW f, NEW g, Apart(f), NEW p \in Place, NEW q \in Place, p # q, NEW M, M \subseteq f[p],
         g[p] = f[p] \ M, g[q] = f[q] \cup M, \A r \in Place : r # p /\ r # q => g[r] = f[r]
  PROVE  Apart(g) /\ All(g) = All(f)
<1>1. ASSUME NEW r \in Place, NEW s \in Place, r # s
      PROVE  g[r] \cap g[s] = {}
  BY <1>1 DEF Apart
<1>2. All(g) \subseteq All(f)
  <2>1. \A r \in Place : g[r] \subseteq f[r] \cup f[p]
    OBVIOUS
  <2> QED BY <2>1 DEF All
<1>3. All(f) \subseteq All(g)
  <2>1. \A r \in Place : f[r] \subseteq g[r] \cup g[q]
    OBVIOUS
  <2> QED BY <2>1 DEF All
<1> QED BY <1>1, <1>2, <1>3 DEF Apart

\* ... one appears in place q, ...
LEMMA CameOne ==
  ASSUME NEW f, NEW g, Apart(f), NEW q \in Place, NEW a, a \notin All(f),
         g[q] = f[q] \cup {a}, \A r \in Place : r # q => g[r] = f[r]
  PROVE  Apart(g) /\ All(g) = All(f) \cup {a}
<1>1. \A r \in Place : a \notin f[r]
  BY DEF All
<1>2. ASSUME NEW r \in Place, NEW s \in Place, r # s
      PROVE  g[r] \cap g[s] = {}
  BY <1>1, <1>2 DEF Apart
<1>3. All(g) \subseteq All(f) \cup {a}
  <2>1. \A r \in Place : g[r] \subseteq f[r] \cup {a}
    OBVIOUS
  <2> QED BY <2>1 DEF All
<1>4. All(f) \cup {a} \subseteq All(g)
  <2>1. (\A r \in Place : f[r] \subseteq g[r]) /\ a \in g[q]
    OBVIOUS
  <2> QED BY <2>1 DEF All
<1> QED BY <1>2, <1>3, <1>4 DEF Apart

\* ... or disappear from place p.
LEMMA Gone ==
  ASSUME NEW f, NEW g, Apart(f), NEW p \in Place, NEW M, M \subseteq f[p],
         g[p] = f[p] \ M, \A r \in Place : r # p => g[r] = f[r]
  PROVE  Apart(g) /\ All(g) = All(f) \ M
<1>1. ASSUME NEW r \in Place, NEW s \in Place, r # s
      PROVE  g[r] \cap g[s] = {}
  BY <1>1 DEF Apart
<1>2. \A r \in Place : r # p => f[r] \cap M = {}
  BY DEF Apart
<1>3. \A r \in Place : g[r] = f[r] \ M
  BY <1>2
<1> QED BY <1>1, <1>3 DEF Apart, All

\* The same for a single access.
Moves(f, g, p, q, a) ==
  /\ p \in Place /\ q \in Place /\ p # q /\ a \in f[p]
  /\ g[p] = f[p] \ {a} /\ g[q] = f[q] \cup {a}
  /\ \A r \in Place : r # p /\ r # q => g[r] = f[r]

LEMMA MovedOne ==
  ASSUME NEW f, NEW g, Apart(f), NEW p, NEW q, NEW a, Moves(f, g, p, q, a)
  PROVE  Apart(g) /\ All(g) = All(f)
<1>1. PICK M : M = {a}
  OBVIOUS
<1>2. /\ p \in Place /\ q \in Place /\ p # q /\ \A r \in Place : r # p /\ r # q => g[r] = f[r]
      /\ M \subseteq f[p] /\ g[p] = f[p] \ M /\ g[q] = f[q] \cup M
  BY <1>1 DEF Moves
<1> QED BY <1>2, Moved

LEMMA GoneOne ==
  ASSUME NEW f, NEW g, Apart(f), NEW p \in Place, NEW a \in f[p],
         g[p] = f[p] \ {a}, \A r \in Place : r # p => g[r] = f[r]
  PROVE  Apart(g) /\ All(g) = All(f) \ {a}
<1>1. PICK M : M = {a}
  OBVIOUS
<1>2. M \subseteq f[p] /\ g[p] = f[p] \ M
  BY <1>1
<1>3. Apart(g) /\ All(g) = All(f) \ M
  BY <1>2, Gone
<1> QED BY <1>1, <1>3

\* The places, before and after a step.
LEMMA HeldAre ==
  /\ held["l1q"] = Range(l1q) /\ held["mshr"] = Missing /\ held["l1ready"] = Range(l1ready)
  /\ held["memory"] = {a \in memory : Direct(a)}
  /\ held["response"] = {a \in Range(response) : Direct(a)}
  /\ held["global"] = Range(next_global) /\ held["wb"] = {a \in Range(next_wb) : IsLoad(a)}
BY DEF held, Place

LEMMA HeldBecome ==
  /\ held'["l1q"] = Range(l1q') /\ held'["mshr"] = Missing' /\ held'["l1ready"] = Range(l1ready')
  /\ held'["memory"] = {a \in memory' : Direct(a)'}
  /\ held'["response"] = {a \in Range(response') : Direct(a)'}
  /\ held'["global"] = Range(next_global') /\ held'["wb"] = {a \in Range(next_wb') : IsLoad(a)}
BY DEF held, Place, IsLoad

-------------------------------------------------------------------------------
(* Accesses on their way. *)

\* Which accesses go past the L1D cache does not change.
LEMMA DirectFixed ==
  ASSUME cfg' = cfg
  PROVE  /\ \A inst : Bypasses(inst)' <=> Bypasses(inst)
         /\ \A a : Direct(a)' <=> Direct(a)
BY DEF Bypasses, Direct, IsStore

\* The entries of the MSHR table.
LEMMA Entries ==
  ASSUME Buffers
  PROVE  \A e \in mshr : /\ e \in Seq(Acc) /\ e # << >> /\ Head(e) \in Range(e)
                         /\ Range(e) \subseteq Missing /\ Head(e) \in Missing
<1> TAKE e \in mshr
<1>1. e \in Seq(Acc) /\ e # << >>
  BY DEF Buffers
<1>2. Head(e) \in Range(e)
  BY <1>1 DEF Range
<1> QED BY <1>1, <1>2 DEF Missing

\* An access that is in none of these places has no fetch either.
LEMMA NotFetched ==
  ASSUME Flow, NEW a, a \notin held["mshr"], a \notin held["memory"], a \notin held["response"]
  PROVE  a \notin memory /\ a \notin Range(response)
<1>1. SUFFICES ASSUME a \in memory \cup Range(response)
               PROVE  FALSE
  OBVIOUS
<1>2. ~Direct(a)
  BY <1>1, HeldAre
<1>3. PICK e \in mshr : Head(e) = a
  BY <1>1, <1>2 DEF Flow, FetchesOK
<1> QED BY <1>3, Entries, HeldAre DEF Flow

\* The L1D cache misses: the access comes from l1_latency_queue, or is new.
LEMMA MissKeeps ==
  ASSUME Flow, NEW a \in Acc, IsLoad(a) \/ IsStore(a), a.k \in 1 .. a.inst.n, ~Bypasses(a.inst),
         L1Misses(a), UNCHANGED <<cfg, l1ready, response, next_global, next_wb>>,
         l1q' \in Seq(Acc), Once(l1q'), Range(l1q') = Range(l1q) \ {a},
         \A p \in Place : p # "l1q" => a \notin held[p]
  PROVE  Flow' /\ Held' = Held \cup {a} /\ held'["wb"] = held["wb"]
<1> DEFINE h == [held EXCEPT !["l1q"] = @ \ {a}]
<1>h. /\ DOMAIN held = Place
      /\ "l1q" \in Place /\ "mshr" \in Place /\ "memory" \in Place
      /\ h["l1q"] = held["l1q"] \ {a} /\ \A p \in Place : p # "l1q" => h[p] = held[p]
  BY DEF held, Place
<1> HIDE DEF h
<1>1. Apart(h) /\ All(h) = Held \ {a}
  <2>1. Apart(held)
    BY DEF Flow, OnceOK
  <2>2. PICK M, p : M = held["l1q"] \cap {a} /\ p = "l1q"
    OBVIOUS
  <2>3. h[p] = held[p] \ M /\ M \subseteq held[p] /\ p \in Place /\ \A q \in Place : q # p => h[q] = held[q]
    BY <1>h, <2>2
  <2>4. Apart(h) /\ All(h) = All(held) \ M
    BY ONLY <2>1, <2>3, Gone
  <2>5. a \in All(held) => a \in held["l1q"]
    BY <1>h DEF All
  <2> QED BY <2>2, <2>4, <2>5 DEF Held
<1>2. a \notin All(h)
  BY <1>1
<1>3. a \notin memory /\ a \notin Range(response) /\ a \notin Missing
  BY <1>h, NotFetched, HeldAre DEF Place
<1>4. \A x : Direct(x)' <=> Direct(x)
  BY DirectFixed
<1>5. /\ held'["l1q"] = h["l1q"] /\ held'["l1ready"] = h["l1ready"]
      /\ held'["response"] = h["response"] /\ held'["global"] = h["global"]
      /\ held'["wb"] = h["wb"]
  BY <1>4, <1>h, HeldAre, HeldBecome DEF Place
<1>b. Buffers /\ OnceOK /\ FetchesOK /\ AccessesOK
  BY DEF Flow
<1>6. CASE /\ IsStore(a) /\ memory' = memory \cup {a} /\ mshr' = mshr
  <2>1. Missing' = Missing
    BY <1>6 DEF Missing
  <2>2. Direct(a)
    BY <1>6 DEF Direct
  <2>3. held'["memory"] = h["memory"] \cup {a} /\ held'["mshr"] = h["mshr"]
    BY <1>4, <1>6, <1>h, <2>1, <2>2, HeldAre, HeldBecome DEF Place
  <2>4. \A r \in Place : r # "memory" => held'[r] = h[r]
    BY <1>5, <2>3 DEF Place
  <2>5. Apart(held') /\ All(held') = All(h) \cup {a}
    BY ONLY <1>h, <1>1, <1>2, <2>3, <2>4, CameOne
  <2>6. Held' = Held \cup {a}
    BY <1>1, <2>5 DEF Held, All
  <2>7. Apart(held)'
    BY <2>5 DEF Apart
  <2>8. Buffers'
    BY <1>6, <1>b DEF Buffers
  <2>9. OnceOK'
    BY <1>3, <1>6, <1>b, <2>7 DEF OnceOK
  <2>10. FetchesOK'
    BY <1>4, <1>6, <1>b, <2>2 DEF FetchesOK, Line
  <2>11. AccessesOK'
    <3>1. \A x \in Range(l1q') \cup Missing' \cup Range(l1ready') : x \in Range(l1q) \cup Missing \cup Range(l1ready)
      BY <2>1
    <3>2. \A x \in Missing' \cup Range(l1ready') \cup Range(next_global') : IsLoad(x)
      BY <1>b, <2>1 DEF AccessesOK
    <3>3. \A x \in Held' \cup memory' \cup Range(response') : (IsLoad(x) \/ IsStore(x)) /\ x.k \in 1 .. x.inst.n
      BY <1>6, <1>b, <2>6 DEF AccessesOK
    <3>4. Held' \subseteq Acc
      BY <1>b, <2>6 DEF AccessesOK
    <3> QED BY <1>b, <3>1, <3>2, <3>3, <3>4, DirectFixed DEF AccessesOK, IsLoad, IsStore
  <2> QED BY <1>5, <1>h, <2>6, <2>8, <2>9, <2>10, <2>11 DEF Flow, Place
<1>7. CASE /\ IsLoad(a) /\ Waiters(Line(a)) = {} /\ memory' = memory \cup {a}
           /\ mshr' = mshr \cup {<<a>>}
  <2>1. /\ Missing' = Missing \cup {a} /\ Range(<<a>>) = {a} /\ Once(<<a>>) /\ Head(<<a>>) = a
        /\ <<a>> \in Seq(Acc) \ {<< >>}
    BY <1>7, RangeOne DEF Missing
  <2>2. ~Direct(a)
    BY <1>7 DEF Direct, IsLoad, IsStore
  <2>3. held'["memory"] = h["memory"] /\ held'["mshr"] = h["mshr"] \cup {a}
    BY <1>4, <1>7, <1>h, <2>1, <2>2, HeldAre, HeldBecome DEF Place
  <2>4. \A r \in Place : r # "mshr" => held'[r] = h[r]
    BY <1>5, <2>3 DEF Place
  <2>5. Apart(held') /\ All(held') = All(h) \cup {a}
    BY ONLY <1>h, <1>1, <1>2, <2>3, <2>4, CameOne
  <2>6. Held' = Held \cup {a}
    BY <1>1, <2>5 DEF Held, All
  <2>7. Apart(held)'
    BY <2>5 DEF Apart
  <2>8. Buffers'
    BY <1>7, <1>b, <2>1 DEF Buffers
  <2>9. OnceOK'
    <3>1. \A e \in mshr : Range(e) \cap {a} = {}
      BY <1>3, <1>b, Entries
    <3> QED BY <1>3, <1>7, <1>b, <2>1, <2>7, <3>1 DEF OnceOK
  <2>10. FetchesOK'
    <3>1. \A e \in mshr : Line(Head(e)) # Line(a)
      BY <1>7 DEF Waiters
    <3>2. \A b \in memory' \cup Range(response') : ~Direct(b)' => \E e \in mshr' : Head(e) = b
      BY <1>4, <1>7, <1>b, <2>1 DEF FetchesOK
    <3> QED BY <1>7, <1>b, <2>1, <3>1, <3>2 DEF FetchesOK, Line
  <2>11. AccessesOK'
    <3>1. \A x \in Range(l1q') \cup Missing' \cup Range(l1ready') : ~Bypasses(x.inst)
      BY <1>b, <2>1 DEF AccessesOK
    <3>2. \A x \in Missing' \cup Range(l1ready') \cup Range(next_global') : IsLoad(x)
      BY <1>7, <1>b, <2>1 DEF AccessesOK
    <3>3. \A x \in Held' \cup memory' \cup Range(response') : (IsLoad(x) \/ IsStore(x)) /\ x.k \in 1 .. x.inst.n
      BY <1>7, <1>b, <2>6 DEF AccessesOK
    <3>4. Held' \subseteq Acc
      BY <1>b, <2>6 DEF AccessesOK
    <3> QED BY <1>b, <3>1, <3>2, <3>3, <3>4, DirectFixed DEF AccessesOK, IsLoad, IsStore
  <2> QED BY <1>5, <1>h, <2>6, <2>8, <2>9, <2>10, <2>11 DEF Flow, Place
<1>8. ASSUME NEW e \in Waiters(Line(a)), IsLoad(a), mshr' = (mshr \ {e}) \cup {Append(e, a)},
             memory' = memory
      PROVE  Flow' /\ Held' = Held \cup {a} /\ held'["wb"] = held["wb"]
  <2> DEFINE d == Append(e, a)
  <2>e. e \in mshr /\ Line(Head(e)) = Line(a) /\ e \in Seq(Acc) /\ e # << >> /\ Range(e) \subseteq Missing
        /\ Once(e) /\ a \notin Range(e)
    BY <1>3, <1>b, Entries DEF Waiters, OnceOK
  <2>d. d \in Seq(Acc) /\ d # << >> /\ Head(d) = Head(e) /\ Once(d) /\ Range(d) = Range(e) \cup {a}
    BY <2>e, OnceAppend
  <2> HIDE DEF d
  <2>m. mshr' = (mshr \ {e}) \cup {d}
    BY <1>8 DEF d
  <2>1. Missing' = Missing \cup {a}
    BY <2>d, <2>e, <2>m DEF Missing
  <2>2. ~Direct(a)
    BY <1>8 DEF Direct, IsLoad, IsStore
  <2>3. held'["memory"] = h["memory"] /\ held'["mshr"] = h["mshr"] \cup {a}
    BY <1>4, <1>8, <1>h, <2>1, <2>2, HeldAre, HeldBecome DEF Place
  <2>4. \A r \in Place : r # "mshr" => held'[r] = h[r]
    BY <1>5, <2>3 DEF Place
  <2>5. Apart(held') /\ All(held') = All(h) \cup {a}
    BY ONLY <1>h, <1>1, <1>2, <2>3, <2>4, CameOne
  <2>6. Held' = Held \cup {a}
    BY <1>1, <2>5 DEF Held, All
  <2>7. Apart(held)'
    BY <2>5 DEF Apart
  <2>8. Buffers'
    BY <1>8, <1>b, <2>d, <2>m DEF Buffers
  <2>9. OnceOK'
    <3>1. \A f \in mshr : f # e => Range(f) \cap Range(d) = {}
      BY <1>3, <1>b, <2>d, <2>e, Entries DEF OnceOK
    <3> QED BY <1>3, <1>8, <1>b, <2>d, <2>m, <2>7, <3>1 DEF OnceOK
  <2>10. FetchesOK'
    <3>1. \A f \in mshr : f # e => Line(Head(f)) # Line(Head(d))
      BY <1>b, <2>d, <2>e DEF FetchesOK
    <3>2. \A b \in memory' \cup Range(response') : ~Direct(b)' => \E f \in mshr' : Head(f) = b
      <4> SUFFICES ASSUME NEW b \in memory \cup Range(response), ~Direct(b)
                   PROVE  \E f \in mshr' : Head(f) = b
        BY <1>4, <1>8
      <4>1. PICK f \in mshr : Head(f) = b
        BY <1>b DEF FetchesOK
      <4> QED BY <4>1, <2>d, <2>m
    <3>3. \A x \in Range(d) : Line(x) = Line(Head(d))
      BY <1>b, <2>d, <2>e DEF FetchesOK
    <3> QED BY <1>b, <2>m, <3>1, <3>2, <3>3 DEF FetchesOK, Line
  <2>11. AccessesOK'
    <3>1. \A x \in Range(l1q') \cup Missing' \cup Range(l1ready') : ~Bypasses(x.inst)
      BY <1>b, <2>1 DEF AccessesOK
    <3>2. \A x \in Missing' \cup Range(l1ready') \cup Range(next_global') : IsLoad(x)
      BY <1>8, <1>b, <2>1 DEF AccessesOK
    <3>3. \A x \in Held' \cup memory' \cup Range(response') : (IsLoad(x) \/ IsStore(x)) /\ x.k \in 1 .. x.inst.n
      BY <1>8, <1>b, <2>6 DEF AccessesOK
    <3>4. Held' \subseteq Acc
      BY <1>b, <2>6 DEF AccessesOK
    <3> QED BY <1>b, <3>1, <3>2, <3>3, <3>4, DirectFixed DEF AccessesOK, IsLoad, IsStore
  <2> QED BY <1>5, <1>h, <2>6, <2>8, <2>9, <2>10, <2>11 DEF Flow, Place
<1>9. IsStore(a) => ~IsLoad(a)
  BY DEF IsStore, IsLoad
<1> QED BY <1>6, <1>7, <1>8, <1>9 DEF L1Misses

\* Nothing moves.
LEMMA FlowKeeps ==
  ASSUME Flow, UNCHANGED <<cfg, l1vars, replies>>
  PROVE  Flow' /\ held' = held /\ Held' = Held
<1>1. /\ cfg' = cfg /\ l1q' = l1q /\ mshr' = mshr /\ l1ready' = l1ready /\ memory' = memory
      /\ response' = response /\ next_global' = next_global /\ next_wb' = next_wb
  BY DEF l1vars, replies
<1>2. \A x : Direct(x)' <=> Direct(x)
  BY <1>1, DirectFixed
<1>3. Missing' = Missing
  BY <1>1 DEF Missing
<1>4. held' = held
  BY <1>1, <1>2, <1>3 DEF held, IsLoad
<1>5. Held' = Held
  BY <1>4 DEF Held, All
<1>6. Buffers' /\ OnceOK' /\ FetchesOK'
  BY <1>1, <1>2, <1>4 DEF Flow, Buffers, OnceOK, FetchesOK, Apart, Once, Line
<1>7. AccessesOK'
  BY <1>1, <1>3, <1>5, DirectFixed DEF Flow, AccessesOK, IsLoad, IsStore
<1> QED BY <1>4, <1>5, <1>6, <1>7 DEF Flow

\* A new access goes past the L1D cache, ...
LEMMA PastL1 ==
  ASSUME Flow, NEW a \in Acc, IsLoad(a) \/ IsStore(a), a.k \in 1 .. a.inst.n, Bypasses(a.inst),
         a \notin Held, memory' = memory \cup {a},
         UNCHANGED <<cfg, l1vars, response, next_global, next_wb>>
  PROVE  Flow' /\ Held' = Held \cup {a} /\ held'["wb"] = held["wb"]
<1>1. /\ cfg' = cfg /\ l1q' = l1q /\ mshr' = mshr /\ l1ready' = l1ready
      /\ response' = response /\ next_global' = next_global /\ next_wb' = next_wb
  BY DEF l1vars
<1>2. /\ \A x : Direct(x)' <=> Direct(x)
      /\ Direct(a) /\ Missing' = Missing
  BY <1>1, DirectFixed DEF Direct, Missing
<1>b. Buffers /\ OnceOK /\ FetchesOK /\ AccessesOK
  BY DEF Flow
<1>3. held'["memory"] = held["memory"] \cup {a} /\ "memory" \in Place
  BY <1>2, HeldAre, HeldBecome DEF Place
<1>4. \A r \in Place : r # "memory" => held'[r] = held[r]
  BY <1>1, <1>2, HeldAre, HeldBecome DEF Place
<1>5. Apart(held) /\ a \notin All(held)
  BY <1>b DEF OnceOK, Held
<1>6. PICK p : p = "memory"
  OBVIOUS
<1>7. Apart(held') /\ All(held') = All(held) \cup {a}
  BY ONLY <1>3, <1>4, <1>5, <1>6, CameOne
<1>8. Apart(held)' /\ Held' = Held \cup {a} /\ held'["wb"] = held["wb"]
  BY <1>4, <1>7 DEF Held, All, Apart, Place
<1>9. a \notin memory /\ a \notin Range(response)
  BY <1>5, NotFetched DEF All, Place
<1>10. Buffers' /\ OnceOK'
  BY <1>1, <1>b, <1>8, <1>9 DEF Buffers, OnceOK, Once
<1>11. FetchesOK'
  BY <1>1, <1>2, <1>b DEF FetchesOK, Line
<1>12. AccessesOK'
  BY <1>1, <1>2, <1>b, <1>8, DirectFixed DEF AccessesOK, IsLoad, IsStore
<1> QED BY <1>8, <1>10, <1>11, <1>12 DEF Flow

\* ... or enters l1_latency_queue, ...
LEMMA ToQueue ==
  ASSUME Flow, NEW a \in Acc, IsLoad(a) \/ IsStore(a), a.k \in 1 .. a.inst.n, ~Bypasses(a.inst),
         a \notin Held, l1q' = Append(l1q, a), UNCHANGED <<cfg, mshr, l1ready, replies>>
  PROVE  Flow' /\ Held' = Held \cup {a} /\ held'["wb"] = held["wb"]
<1>1. /\ cfg' = cfg /\ memory' = memory /\ mshr' = mshr /\ l1ready' = l1ready
      /\ response' = response /\ next_global' = next_global /\ next_wb' = next_wb
  BY DEF replies
<1>2. /\ \A x : Direct(x)' <=> Direct(x)
      /\ Missing' = Missing
  BY <1>1, DirectFixed DEF Direct, Missing
<1>b. Buffers /\ OnceOK /\ FetchesOK /\ AccessesOK
  BY DEF Flow
<1>5. Apart(held) /\ a \notin All(held) /\ a \notin Range(l1q)
  BY <1>b, HeldAre DEF OnceOK, Held, All, Place
<1>q. l1q' \in Seq(Acc) /\ Once(l1q') /\ Range(l1q') = Range(l1q) \cup {a}
  BY <1>b, <1>5, OnceAppend DEF Buffers, OnceOK
<1>3. held'["l1q"] = held["l1q"] \cup {a} /\ "l1q" \in Place
  BY <1>q, HeldAre, HeldBecome DEF Place
<1>4. \A r \in Place : r # "l1q" => held'[r] = held[r]
  BY <1>1, <1>2, HeldAre, HeldBecome DEF Place
<1>6. PICK p : p = "l1q"
  OBVIOUS
<1>7. Apart(held') /\ All(held') = All(held) \cup {a}
  BY ONLY <1>3, <1>4, <1>5, <1>6, CameOne
<1>8. Apart(held)' /\ Held' = Held \cup {a} /\ held'["wb"] = held["wb"]
  BY <1>4, <1>7 DEF Held, All, Apart, Place
<1>10. Buffers' /\ OnceOK'
  BY <1>1, <1>b, <1>8, <1>q DEF Buffers, OnceOK, Once
<1>11. FetchesOK'
  BY <1>1, <1>2, <1>b DEF FetchesOK, Line
<1>12. AccessesOK'
  BY <1>1, <1>2, <1>b, <1>8, <1>q, DirectFixed DEF AccessesOK, IsLoad, IsStore
<1> QED BY <1>8, <1>10, <1>11, <1>12 DEF Flow

\* ... which it leaves when it hits.
LEMMA LeavesQueue ==
  ASSUME Flow, l1q # << >>, l1q' = Tail(l1q), UNCHANGED <<cfg, mshr, l1ready, replies>>
  PROVE  /\ Flow' /\ Held' = Held \ {Head(l1q)} /\ held'["wb"] = held["wb"]
         /\ Head(l1q) \in Held \ held["wb"]
<1> DEFINE a == Head(l1q)
<1>1. /\ cfg' = cfg /\ memory' = memory /\ mshr' = mshr /\ l1ready' = l1ready
      /\ response' = response /\ next_global' = next_global /\ next_wb' = next_wb
  BY DEF replies
<1>2. /\ \A x : Direct(x)' <=> Direct(x)
      /\ Missing' = Missing
  BY <1>1, DirectFixed DEF Direct, Missing
<1>b. Buffers /\ OnceOK /\ FetchesOK /\ AccessesOK
  BY DEF Flow
<1>q. l1q' \in Seq(Acc) /\ Once(l1q') /\ Range(l1q') = Range(l1q) \ {a} /\ a \in Range(l1q)
  BY <1>b, OnceTail DEF Buffers, OnceOK
<1> HIDE DEF a
<1>3. held'["l1q"] = held["l1q"] \ {a} /\ "l1q" \in Place /\ a \in held["l1q"]
  BY <1>q, HeldAre, HeldBecome DEF Place
<1>4. \A r \in Place : r # "l1q" => held'[r] = held[r]
  BY <1>1, <1>2, HeldAre, HeldBecome DEF Place
<1>5. Apart(held)
  BY <1>b DEF OnceOK
<1>6. PICK p : p = "l1q"
  OBVIOUS
<1>7. Apart(held') /\ All(held') = All(held) \ {a}
  BY ONLY <1>3, <1>4, <1>5, <1>6, GoneOne
<1>8. Apart(held)' /\ Held' = Held \ {a} /\ held'["wb"] = held["wb"]
  BY <1>4, <1>7 DEF Held, All, Apart, Place
<1>9. a \in Held \ held["wb"]
  BY <1>3, <1>5 DEF Held, All, Apart, Place
<1>10. Buffers' /\ OnceOK'
  BY <1>1, <1>b, <1>8, <1>q DEF Buffers, OnceOK, Once
<1>11. FetchesOK'
  BY <1>1, <1>2, <1>b DEF FetchesOK, Line
<1>12. AccessesOK'
  BY <1>1, <1>2, <1>b, <1>8, <1>q, DirectFixed DEF AccessesOK, IsLoad, IsStore
<1> QED BY <1>8, <1>9, <1>10, <1>11, <1>12 DEF Flow, a

\* The memory answers an access.
LEMMA Answered ==
  ASSUME Flow, NEW a \in memory, memory' = memory \ {a}, response' = Append(response, a),
         UNCHANGED <<cfg, l1vars, next_global, next_wb>>
  PROVE  Flow' /\ Held' = Held /\ held'["wb"] = held["wb"]
<1>1. /\ cfg' = cfg /\ l1q' = l1q /\ mshr' = mshr /\ l1ready' = l1ready
      /\ next_global' = next_global /\ next_wb' = next_wb
  BY DEF l1vars
<1>2. /\ \A x : Direct(x)' <=> Direct(x)
      /\ Missing' = Missing
  BY <1>1, DirectFixed DEF Missing
<1>b. Buffers /\ OnceOK /\ FetchesOK /\ AccessesOK
  BY DEF Flow
<1>r. a \in Acc /\ a \notin Range(response)
  BY <1>b DEF Buffers, OnceOK
<1>q. response' \in Seq(Acc) /\ Once(response') /\ Range(response') = Range(response) \cup {a}
  BY <1>b, <1>r, OnceAppend DEF Buffers, OnceOK
<1>3. \A r \in Place : r # "memory" /\ r # "response" => held'[r] = held[r]
  BY <1>1, <1>2, HeldAre, HeldBecome DEF Place
<1>4. Apart(held)
  BY <1>b DEF OnceOK
<1>5. ASSUME Direct(a)
      PROVE  Apart(held') /\ All(held') = All(held)
  <2>1. /\ held'["memory"] = held["memory"] \ {a} /\ held'["response"] = held["response"] \cup {a}
        /\ a \in held["memory"] /\ "memory" \in Place /\ "response" \in Place
    BY <1>2, <1>5, <1>q, HeldAre, HeldBecome DEF Place
  <2>2. Moves(held, held', "memory", "response", a)
    BY <1>3, <2>1 DEF Moves
  <2> QED BY ONLY <1>4, <2>2, MovedOne
<1>6. ASSUME ~Direct(a)
      PROVE  Apart(held') /\ All(held') = All(held)
  <2>1. held'["memory"] = held["memory"] /\ held'["response"] = held["response"]
    BY <1>2, <1>6, <1>q, HeldAre, HeldBecome DEF Place
  <2>2. \A r \in Place : held'[r] = held[r]
    BY <1>3, <2>1
  <2> QED BY <1>4, <2>2 DEF Apart, All
<1>7. Apart(held') /\ All(held') = All(held)
  BY <1>5, <1>6
<1>8. Apart(held)' /\ Held' = Held /\ held'["wb"] = held["wb"]
  BY <1>3, <1>7 DEF Held, All, Apart, Place
<1>9. memory' \cup Range(response') = memory \cup Range(response) /\ memory' \cap Range(response') = {}
  BY <1>b, <1>q DEF OnceOK
<1>10. Buffers' /\ OnceOK'
  BY <1>1, <1>b, <1>8, <1>9, <1>q DEF Buffers, OnceOK, Once
<1>11. FetchesOK'
  BY <1>1, <1>2, <1>b, <1>9 DEF FetchesOK, Line
<1>12. AccessesOK'
  <2>1. \A x \in Held' \cup memory' \cup Range(response') : x \in Held \cup memory \cup Range(response)
    BY <1>8, <1>9
  <2> QED BY <1>1, <1>2, <1>b, <1>8, <2>1, DirectFixed DEF AccessesOK, IsLoad, IsStore
<1> QED BY <1>8, <1>10, <1>11, <1>12 DEF Flow

\* The answer to a store is taken, ...
LEMMA StoreTaken ==
  ASSUME Flow, response # << >>, IsStore(Head(response)), response' = Tail(response),
         UNCHANGED <<cfg, l1vars, memory, next_global, next_wb>>
  PROVE  /\ Flow' /\ Held' = Held \ {Head(response)} /\ held'["wb"] = held["wb"]
         /\ Head(response) \in Held \ held["wb"]
<1> DEFINE a == Head(response)
<1>1. /\ cfg' = cfg /\ memory' = memory /\ mshr' = mshr /\ l1ready' = l1ready
      /\ l1q' = l1q /\ next_global' = next_global /\ next_wb' = next_wb
  BY DEF l1vars
<1>2. /\ \A x : Direct(x)' <=> Direct(x)
      /\ Missing' = Missing /\ Direct(a)
  BY <1>1, DirectFixed DEF Direct, Missing
<1>b. Buffers /\ OnceOK /\ FetchesOK /\ AccessesOK
  BY DEF Flow
<1>q. /\ response' \in Seq(Acc) /\ Once(response') /\ Range(response') = Range(response) \ {a}
      /\ a \in Range(response)
  BY <1>b, OnceTail DEF Buffers, OnceOK
<1> HIDE DEF a
<1>3. held'["response"] = held["response"] \ {a} /\ "response" \in Place /\ a \in held["response"]
  BY <1>2, <1>q, HeldAre, HeldBecome DEF Place
<1>4. \A r \in Place : r # "response" => held'[r] = held[r]
  BY <1>1, <1>2, HeldAre, HeldBecome DEF Place
<1>5. Apart(held)
  BY <1>b DEF OnceOK
<1>6. PICK p : p = "response"
  OBVIOUS
<1>7. Apart(held') /\ All(held') = All(held) \ {a}
  BY ONLY <1>3, <1>4, <1>5, <1>6, GoneOne
<1>8. Apart(held)' /\ Held' = Held \ {a} /\ held'["wb"] = held["wb"]
  BY <1>4, <1>7 DEF Held, All, Apart, Place
<1>9. a \in Held \ held["wb"]
  BY <1>3, <1>5 DEF Held, All, Apart, Place
<1>10. Buffers' /\ OnceOK'
  BY <1>1, <1>b, <1>8, <1>q DEF Buffers, OnceOK, Once
<1>11. FetchesOK'
  BY <1>1, <1>2, <1>b, <1>q DEF FetchesOK, Line
<1>12. AccessesOK'
  BY <1>1, <1>2, <1>b, <1>8, <1>q, DirectFixed DEF AccessesOK, IsLoad, IsStore
<1> QED BY <1>8, <1>9, <1>10, <1>11, <1>12 DEF Flow, a

\* ... the answer to what went past the L1D cache ...
LEMMA GlobalTaken ==
  ASSUME Flow, response # << >>, IsLoad(Head(response)), Bypasses(Head(response).inst),
         response' = Tail(response), next_global = << >>, next_global' = <<Head(response)>>,
         UNCHANGED <<cfg, l1vars, memory, next_wb>>
  PROVE  Flow' /\ Held' = Held /\ held'["wb"] = held["wb"]
<1> DEFINE a == Head(response)
<1>1. /\ cfg' = cfg /\ memory' = memory /\ mshr' = mshr /\ l1ready' = l1ready
      /\ l1q' = l1q /\ next_wb' = next_wb
  BY DEF l1vars
<1>2. /\ \A x : Direct(x)' <=> Direct(x)
      /\ Missing' = Missing /\ Direct(a)
  BY <1>1, DirectFixed DEF Direct, Missing
<1>b. Buffers /\ OnceOK /\ FetchesOK /\ AccessesOK
  BY DEF Flow
<1>q. /\ response' \in Seq(Acc) /\ Once(response') /\ Range(response') = Range(response) \ {a}
      /\ a \in Range(response) /\ a \in Acc
  BY <1>b, OnceTail DEF Buffers, OnceOK
<1>g. Range(next_global) = {} /\ next_global' = <<a>> /\ Range(next_global') = {a}
      /\ IsLoad(a) /\ Bypasses(a.inst)
  BY RangeOne
<1> HIDE DEF a
<1>3. /\ held'["response"] = held["response"] \ {a} /\ held'["global"] = held["global"] \cup {a}
      /\ "response" \in Place /\ "global" \in Place /\ a \in held["response"]
  BY <1>2, <1>g, <1>q, HeldAre, HeldBecome DEF Place
<1>4. \A r \in Place : r # "response" /\ r # "global" => held'[r] = held[r]
  BY <1>1, <1>2, HeldAre, HeldBecome DEF Place
<1>5. Apart(held)
  BY <1>b DEF OnceOK
<1>6. Moves(held, held', "response", "global", a)
  BY <1>3, <1>4 DEF Moves
<1>7. Apart(held') /\ All(held') = All(held)
  BY ONLY <1>5, <1>6, MovedOne
<1>8. Apart(held)' /\ Held' = Held /\ held'["wb"] = held["wb"]
  BY <1>4, <1>7 DEF Held, All, Apart, Place
<1>9. Register(next_global, Acc)'
  BY <1>g, <1>q DEF Register
<1>10. Buffers' /\ OnceOK'
  BY <1>1, <1>9, <1>b, <1>8, <1>q DEF Buffers, OnceOK, Once
<1>11. FetchesOK'
  BY <1>1, <1>2, <1>b, <1>q DEF FetchesOK, Line
<1>12. AccessesOK'
  BY <1>1, <1>2, <1>b, <1>8, <1>g, <1>q, DirectFixed DEF AccessesOK, IsLoad, IsStore
<1> QED BY <1>8, <1>10, <1>11, <1>12 DEF Flow

\* ... and the answer to a fetch of the cache, with what waited for it.
LEMMA FillTaken ==
  ASSUME Flow, response # << >>, ~Direct(Head(response)), response' = Tail(response),
         NEW e \in Waiters(Line(Head(response))), mshr' = mshr \ {e}, l1ready' = l1ready \o e,
         UNCHANGED <<cfg, l1q, memory, next_global, next_wb>>
  PROVE  Flow' /\ Held' = Held /\ held'["wb"] = held["wb"]
<1> DEFINE a == Head(response)
<1>2. /\ \A x : Direct(x)' <=> Direct(x)
      /\ ~Direct(a)
  BY DirectFixed
<1>b. Buffers /\ OnceOK /\ FetchesOK /\ AccessesOK
  BY DEF Flow
<1>q. /\ response' \in Seq(Acc) /\ Once(response') /\ Range(response') = Range(response) \ {a}
      /\ a \in Range(response)
  BY <1>b, OnceTail DEF Buffers, OnceOK
<1>w. e \in mshr /\ Line(Head(e)) = Line(a)
  BY DEF Waiters
<1> HIDE DEF a
<1>a. a \notin memory
  BY <1>b, <1>q DEF OnceOK
<1>e. Head(e) = a
  <2>1. PICK f \in mshr : Head(f) = a
    BY <1>2, <1>b, <1>q DEF FetchesOK
  <2> QED BY <1>b, <1>w, <2>1 DEF FetchesOK
<1>r. e \in Seq(Acc) /\ Once(e) /\ Range(e) \subseteq Missing
  BY <1>b, <1>w, Entries DEF OnceOK
<1>4. Apart(held)
  BY <1>b DEF OnceOK
<1>c. l1ready \in Seq(Acc) /\ Once(l1ready) /\ Range(l1ready) \cap Range(e) = {}
  BY <1>4, <1>b, <1>r, HeldAre DEF OnceOK, Buffers, Apart, Place
<1>l. l1ready' \in Seq(Acc) /\ Once(l1ready') /\ Range(l1ready') = Range(l1ready) \cup Range(e)
  BY <1>c, <1>r, OnceConcat
<1>m. Missing' = Missing \ Range(e)
  BY <1>b, <1>w DEF Missing, OnceOK
<1>3. \A r \in Place : r # "mshr" /\ r # "l1ready" => held'[r] = held[r]
  BY <1>2, <1>q, HeldAre, HeldBecome DEF Place
<1>5. /\ held'["mshr"] = held["mshr"] \ Range(e) /\ held'["l1ready"] = held["l1ready"] \cup Range(e)
      /\ Range(e) \subseteq held["mshr"] /\ "mshr" \in Place /\ "l1ready" \in Place
  BY <1>l, <1>m, <1>r, HeldAre, HeldBecome DEF Place
<1>6. PICK p, q, M : p = "mshr" /\ q = "l1ready" /\ M = Range(e)
  OBVIOUS
<1>7. /\ held'[p] = held[p] \ M /\ held'[q] = held[q] \cup M /\ M \subseteq held[p]
      /\ p \in Place /\ q \in Place /\ p # q
  BY <1>5, <1>6
<1>8. Apart(held') /\ All(held') = All(held)
  BY ONLY <1>3, <1>4, <1>6, <1>7, Moved
<1>9. Apart(held)' /\ Held' = Held /\ held'["wb"] = held["wb"]
  BY <1>3, <1>8 DEF Held, All, Apart, Place
<1>10. Buffers' /\ OnceOK'
  BY <1>9, <1>b, <1>l, <1>q DEF Buffers, OnceOK, Once
<1>11. FetchesOK'
  <2>1. \A b \in memory' \cup Range(response') : ~Direct(b)' => \E f \in mshr' : Head(f) = b
    <3> SUFFICES ASSUME NEW b \in memory \cup Range(response), ~Direct(b), b # a
                 PROVE  \E f \in mshr' : Head(f) = b
      BY <1>2, <1>a, <1>q
    <3> QED BY <1>b, <1>e DEF FetchesOK
  <2> QED BY <1>b, <2>1 DEF FetchesOK, Line
<1>12. AccessesOK'
  <2>1. \A x \in Missing' \cup Range(l1ready') : x \in Missing \cup Range(l1ready)
    BY <1>l, <1>m, <1>r
  <2> QED BY <1>b, <1>9, <1>q, <2>1, DirectFixed DEF AccessesOK, IsLoad, IsStore
<1> QED BY <1>9, <1>10, <1>11, <1>12 DEF Flow

\* A client gets the writeback register: an answer that went past the L1D cache, ...
LEMMA GlobalServed ==
  ASSUME Flow, next_global # << >>, next_wb = << >>, next_wb' = next_global,
         next_global' = << >>, UNCHANGED <<cfg, l1vars, memory, response>>
  PROVE  /\ Flow' /\ Held' = Held /\ next_global[1] \in Held \ held["wb"]
         /\ held["wb"] = {} /\ held'["wb"] = {next_global[1]}
<1> DEFINE a == next_global[1]
<1>1. /\ cfg' = cfg /\ memory' = memory /\ mshr' = mshr /\ l1ready' = l1ready
      /\ l1q' = l1q /\ response' = response
  BY DEF l1vars
<1>2. /\ \A x : Direct(x)' <=> Direct(x)
      /\ Missing' = Missing
  BY <1>1, DirectFixed DEF Missing
<1>b. Buffers /\ OnceOK /\ FetchesOK /\ AccessesOK
  BY DEF Flow
<1>q. next_global = <<a>> /\ a \in Acc /\ Range(next_global) = {a}
  BY <1>b, RegisterRange DEF Buffers
<1> HIDE DEF a
<1>g. IsLoad(a) /\ Range(next_global') = {} /\ Range(next_wb) = {} /\ Range(next_wb') = {a}
  BY <1>b, <1>q, RangeOne DEF AccessesOK
<1>3. /\ held'["global"] = held["global"] \ {a} /\ held'["wb"] = held["wb"] \cup {a}
      /\ "wb" \in Place /\ "global" \in Place /\ a \in held["global"] /\ held["wb"] = {}
  BY <1>g, <1>q, HeldAre, HeldBecome DEF Place
<1>4. \A r \in Place : r # "global" /\ r # "wb" => held'[r] = held[r]
  BY <1>1, <1>2, HeldAre, HeldBecome DEF Place
<1>5. Apart(held)
  BY <1>b DEF OnceOK
<1>6. Moves(held, held', "global", "wb", a)
  BY <1>3, <1>4 DEF Moves
<1>7. Apart(held') /\ All(held') = All(held)
  BY ONLY <1>5, <1>6, MovedOne
<1>8. Apart(held)' /\ Held' = Held /\ a \in Held \ held["wb"]
  BY <1>3, <1>7 DEF Held, All, Apart, Place
<1>9. Register(next_global, Acc)' /\ Register(next_wb, Acc \cup Instr)'
  BY <1>q DEF Register
<1>10. Buffers' /\ OnceOK'
  BY <1>1, <1>9, <1>b, <1>8 DEF Buffers, OnceOK, Once
<1>11. FetchesOK'
  BY <1>1, <1>2, <1>b DEF FetchesOK, Line
<1>12. AccessesOK'
  BY <1>1, <1>2, <1>b, <1>8, <1>g, DirectFixed DEF AccessesOK, IsLoad, IsStore
<1> QED BY <1>3, <1>8, <1>10, <1>11, <1>12 DEF Flow, a

\* ... or one of the L1D cache, ...
LEMMA L1Served ==
  ASSUME Flow, l1ready # << >>, next_wb = << >>, next_wb' = <<Head(l1ready)>>,
         l1ready' = Tail(l1ready), UNCHANGED <<cfg, l1q, mshr, memory, response, next_global>>
  PROVE  /\ Flow' /\ Held' = Held /\ Head(l1ready) \in Held \ held["wb"]
         /\ held["wb"] = {} /\ held'["wb"] = {Head(l1ready)} /\ ~Bypasses(Head(l1ready).inst)
<1> DEFINE a == Head(l1ready)
<1>2. /\ \A x : Direct(x)' <=> Direct(x)
      /\ Missing' = Missing
  BY DirectFixed DEF Missing
<1>b. Buffers /\ OnceOK /\ FetchesOK /\ AccessesOK
  BY DEF Flow
<1>q. /\ l1ready' \in Seq(Acc) /\ Once(l1ready') /\ Range(l1ready') = Range(l1ready) \ {a}
      /\ a \in Range(l1ready) /\ a \in Acc /\ next_wb' = <<a>>
  BY <1>b, OnceTail DEF Buffers, OnceOK
<1> HIDE DEF a
<1>g. IsLoad(a) /\ ~Bypasses(a.inst) /\ Range(next_wb) = {} /\ Range(next_wb') = {a}
  BY <1>b, <1>q, RangeOne DEF AccessesOK
<1>3. /\ held'["l1ready"] = held["l1ready"] \ {a} /\ held'["wb"] = held["wb"] \cup {a}
      /\ "wb" \in Place /\ "l1ready" \in Place /\ a \in held["l1ready"] /\ held["wb"] = {}
  BY <1>g, <1>q, HeldAre, HeldBecome DEF Place
<1>4. \A r \in Place : r # "l1ready" /\ r # "wb" => held'[r] = held[r]
  BY <1>2, HeldAre, HeldBecome DEF Place
<1>5. Apart(held)
  BY <1>b DEF OnceOK
<1>6. Moves(held, held', "l1ready", "wb", a)
  BY <1>3, <1>4 DEF Moves
<1>7. Apart(held') /\ All(held') = All(held)
  BY ONLY <1>5, <1>6, MovedOne
<1>8. Apart(held)' /\ Held' = Held /\ a \in Held \ held["wb"]
  BY <1>3, <1>7 DEF Held, All, Apart, Place
<1>9. Register(next_wb, Acc \cup Instr)'
  BY <1>q DEF Register
<1>10. Buffers' /\ OnceOK'
  BY <1>9, <1>b, <1>8, <1>q DEF Buffers, OnceOK, Once
<1>11. FetchesOK'
  BY <1>2, <1>b DEF FetchesOK, Line
<1>12. AccessesOK'
  BY <1>2, <1>b, <1>8, <1>q, DirectFixed DEF AccessesOK, IsLoad, IsStore
<1> QED BY <1>3, <1>8, <1>g, <1>10, <1>11, <1>12 DEF Flow, a

\* ... or a read of shared memory.
LEMMA SharedServed ==
  ASSUME Flow, NEW x \in Instr, ~IsLoad(x), next_wb = << >>, next_wb' = <<x>>,
         UNCHANGED <<cfg, l1vars, memory, response, next_global>>
  PROVE  Flow' /\ Held' = Held /\ held'["wb"] = held["wb"] /\ SharedBack = {} /\ SharedBack' = {x}
<1>1. /\ cfg' = cfg /\ memory' = memory /\ mshr' = mshr /\ l1ready' = l1ready
      /\ l1q' = l1q /\ response' = response /\ next_global' = next_global
  BY DEF l1vars
<1>2. /\ \A y : Direct(y)' <=> Direct(y)
      /\ Missing' = Missing
  BY <1>1, DirectFixed DEF Missing
<1>b. Buffers /\ OnceOK /\ FetchesOK /\ AccessesOK
  BY DEF Flow
<1>g. Range(next_wb) = {} /\ Range(next_wb') = {x}
  BY RangeOne
<1>3. held'["wb"] = held["wb"]
  BY <1>g, HeldAre, HeldBecome
<1>4. \A r \in Place : held'[r] = held[r]
  BY <1>1, <1>2, <1>3, HeldAre, HeldBecome DEF Place
<1>5. Apart(held)
  BY <1>b DEF OnceOK
<1>7. Apart(held') /\ All(held') = All(held)
  BY ONLY <1>4, <1>5 DEF Apart, All
<1>8. Apart(held)' /\ Held' = Held
  BY <1>7 DEF Held, All, Apart
<1>9. Register(next_wb, Acc \cup Instr)'
  BY DEF Register
<1>10. Buffers' /\ OnceOK'
  BY <1>1, <1>9, <1>b, <1>8 DEF Buffers, OnceOK, Once
<1>11. FetchesOK'
  BY <1>1, <1>2, <1>b DEF FetchesOK, Line
<1>12. AccessesOK'
  BY <1>1, <1>2, <1>b, <1>8, DirectFixed DEF AccessesOK, IsLoad, IsStore
<1>13. SharedBack = {} /\ SharedBack' = {x}
  BY <1>g DEF SharedBack, IsLoad
<1> QED BY <1>3, <1>8, <1>10, <1>11, <1>12, <1>13 DEF Flow

\* The writeback register becomes free.
LEMMA WrittenBack ==
  ASSUME Flow, next_wb # << >>, next_wb' = << >>,
         UNCHANGED <<cfg, l1vars, memory, response, next_global>>
  PROVE  /\ Flow' /\ held["wb"] \subseteq Held /\ Held' = Held \ held["wb"] /\ held'["wb"] = {}
         /\ IsLoad(next_wb[1]) => held["wb"] = {next_wb[1]} /\ SharedBack = {}
         /\ ~IsLoad(next_wb[1]) => held["wb"] = {} /\ SharedBack = {next_wb[1]}
         /\ SharedBack' = {}
<1> DEFINE a == next_wb[1]
<1>1. /\ cfg' = cfg /\ memory' = memory /\ mshr' = mshr /\ l1ready' = l1ready
      /\ l1q' = l1q /\ response' = response /\ next_global' = next_global
  BY DEF l1vars
<1>2. /\ \A y : Direct(y)' <=> Direct(y)
      /\ Missing' = Missing
  BY <1>1, DirectFixed DEF Missing
<1>b. Buffers /\ OnceOK /\ FetchesOK /\ AccessesOK
  BY DEF Flow
<1>g. Range(next_wb) = {a} /\ Range(next_wb') = {}
  BY <1>b, RangeOne, RegisterRange DEF Buffers
<1> HIDE DEF a
<1>w. /\ IsLoad(a) => held["wb"] = {a} /\ SharedBack = {}
      /\ ~IsLoad(a) => held["wb"] = {} /\ SharedBack = {a}
      /\ held'["wb"] = {} /\ SharedBack' = {}
  BY <1>g, HeldAre, HeldBecome DEF SharedBack
<1>4. \A r \in Place : r # "wb" => held'[r] = held[r]
  BY <1>1, <1>2, HeldAre, HeldBecome DEF Place
<1>5. Apart(held)
  BY <1>b DEF OnceOK
<1>6. PICK p, M : p = "wb" /\ M = held["wb"]
  OBVIOUS
<1>m. p \in Place /\ M \subseteq held[p] /\ held'[p] = held[p] \ M /\ \A r \in Place : r # p => held'[r] = held[r]
  BY <1>4, <1>6, <1>w DEF Place
<1>7. Apart(held') /\ All(held') = All(held) \ M
  BY ONLY <1>m, <1>5, Gone
<1>8. Apart(held)' /\ Held' = Held \ held["wb"] /\ held["wb"] \subseteq Held
  BY <1>6, <1>7 DEF Held, All, Apart, Place
<1>9. Register(next_wb, Acc \cup Instr)'
  BY DEF Register
<1>10. Buffers' /\ OnceOK'
  BY <1>1, <1>9, <1>b, <1>8 DEF Buffers, OnceOK, Once
<1>11. FetchesOK'
  BY <1>1, <1>2, <1>b DEF FetchesOK, Line
<1>12. AccessesOK'
  BY <1>1, <1>2, <1>b, <1>8, DirectFixed DEF AccessesOK, IsLoad, IsStore
<1> QED BY <1>8, <1>10, <1>11, <1>12, <1>w DEF Flow, a

-------------------------------------------------------------------------------
(* The front of the pipeline. *)

\* The stages behind the issue leave it alone.
LEMMA FrontKeeps ==
  ASSUME Front, UNCHANGED <<cfg, launches, slots, pc, front, completed, done_exit>>
  PROVE  Front'
<1>1. /\ cfg' = cfg /\ launches' = launches /\ prog' = prog /\ gen' = gen /\ pc' = pc
      /\ next_pc' = next_pc /\ ibuffer' = ibuffer /\ imiss' = imiss /\ fetched' = fetched
      /\ completed' = completed /\ done_exit' = done_exit
  BY DEF slots, front
<1>2. Slots'
  BY <1>1 DEF Front, Slots
<1>3. FetchOK'
  BY <1>1 DEF Front, FetchOK, FetchOf
<1>4. SkipOK'
  BY <1>1 DEF Front, SkipOK
<1> QED BY <1>2, <1>3, <1>4 DEF Front

\* The programs that wait after the first are what waits afterwards.
LEMMA TailOf ==
  ASSUME NEW V, NEW q \in Seq(V), q # << >>
  PROVE  /\ Tail(q) \in Seq(V) /\ Head(q) \in V /\ Head(q) = q[1] /\ 1 \in 1 .. Len(q)
         /\ Len(Tail(q)) = Len(q) - 1 /\ Len(q) \in Nat
         /\ \A n \in 1 .. Len(Tail(q)) : Tail(q)[n] = q[n + 1] /\ n + 1 \in 1 .. Len(q)
OBVIOUS

\* A program is not empty.
LEMMA ProgramOf ==
  ASSUME NEW p \in Programs
  PROVE  /\ p \in Seq(Inst) /\ Len(p) \in Nat \ {0} /\ p[Len(p)].op = "exit"
         /\ \A i \in 1 .. Len(p) : p[i] \in Inst
         /\ \A i \in 1 .. Len(p) : p[i].op = "jump" => i < p[i].target /\ p[i].target <= Len(p)
         /\ \A i \in 1 .. Len(p) : p[i].op # "exit" => i + 1 \in 1 .. Len(p)
<1>1. p \in Seq(Inst) /\ p # << >> /\ p[Len(p)].op = "exit"
  BY DEF Programs
<1>2. Len(p) \in Nat \ {0} /\ \A i \in 1 .. Len(p) : p[i] \in Inst
  BY <1>1
<1>3. \A i \in 1 .. Len(p) : p[i].op = "jump" => i < p[i].target /\ p[i].target <= Len(p)
  BY DEF Programs
<1>4. \A i \in 1 .. Len(p) : i # Len(p) => i + 1 \in 1 .. Len(p)
  BY <1>2
<1> QED BY <1>1, <1>2, <1>3, <1>4

LEMMA FrontLaunch ==
  ASSUME Front, NEW w \in Warp, Launch(w)
  PROVE  Front'
<1>1. cfg' = cfg /\ ibuffer' = ibuffer /\ fetched' = fetched
  BY DEF Launch
<1>2. /\ launches \in Seq(Programs) /\ launches # << >> /\ launches' = Tail(launches)
      /\ prog' = [prog EXCEPT ![w] = Head(launches)] /\ completed[w] /\ ibuffer[w] = << >>
  BY DEF Front, Slots, FetchOK, FetchOf, Launch
<1>3. /\ launches' \in Seq(Programs) /\ Head(launches) \in Programs
      /\ Head(launches) = launches[1] /\ 1 \in 1 .. Len(launches)
      /\ \A n \in 1 .. Len(launches') : launches'[n] = launches[n + 1] /\ n + 1 \in 1 .. Len(launches)
  BY <1>2, TailOf
<1>4. PICK p \in Programs : p = Head(launches)
  BY <1>3
<1>5. Len(p) \in Nat \ {0}
  BY ProgramOf
<1>6. Slots'
  BY <1>1, <1>2, <1>3 DEF Front, Slots, Launch, None
<1>7. ASSUME NEW v \in Warp
      PROVE  FetchOf(v)'
  <2>1. CASE v = w
    <3>1. /\ prog'[w] = p /\ pc'[w] = 1 /\ next_pc'[w] = 1 /\ imiss'[w] = None
          /\ ~completed'[w] /\ ~done_exit'[w] /\ ibuffer'[w] = << >>
      BY <1>1, <1>2, <1>4 DEF Front, Slots, Launch
    <3>2. ~(fetched # << >> /\ fetched[1] = w)
      BY <1>2 DEF Front, FetchOK, FetchOf
    <3> QED BY <1>1, <1>5, <2>1, <3>1, <3>2 DEF None, FetchOf
  <2>2. CASE v # w
    <3>1. /\ prog'[v] = prog[v] /\ pc'[v] = pc[v] /\ next_pc'[v] = next_pc[v]
          /\ imiss'[v] = imiss[v] /\ completed'[v] = completed[v] /\ done_exit'[v] = done_exit[v]
      BY <2>2 DEF Front, Slots, Launch
    <3> QED BY <1>1, <3>1 DEF Front, FetchOK, FetchOf
  <2> QED BY <2>1, <2>2
<1>8. SkipOK'
  <2> SUFFICES ASSUME cfg.skip
               PROVE  /\ \A n \in 1 .. Len(launches') : \A i \in 1 .. Len(launches'[n]) : launches'[n][i].op # "nc"
                      /\ \A v \in Warp : \A i \in 1 .. Len(prog'[v]) : prog'[v][i].op # "nc"
    BY <1>1 DEF SkipOK
  <2>1. \A n \in 1 .. Len(launches) : \A i \in 1 .. Len(launches[n]) : launches[n][i].op # "nc"
    BY DEF Front, SkipOK
  <2>2. \A v \in Warp : prog'[v] = IF v = w THEN launches[1] ELSE prog[v]
    BY <1>2, <1>3 DEF Front, Slots
  <2>3. \A v \in Warp : \A i \in 1 .. Len(prog'[v]) : prog'[v][i].op # "nc"
    BY <1>3, <2>1, <2>2 DEF Front, SkipOK
  <2> QED BY <1>3, <2>1, <2>3
<1> QED BY <1>6, <1>7, <1>8 DEF Front, FetchOK

LEMMA FrontWarpExits ==
  ASSUME Front, NEW w \in Warp, WarpExits(w)
  PROVE  Front'
<1>1. /\ cfg' = cfg /\ launches' = launches /\ prog' = prog /\ gen' = gen /\ pc' = pc
      /\ next_pc' = next_pc /\ ibuffer' = ibuffer /\ imiss' = imiss /\ fetched' = fetched
      /\ completed' = completed /\ done_exit' = [done_exit EXCEPT ![w] = TRUE] /\ completed[w]
  BY DEF WarpExits, HardwareDone, slots, front
<1>2. Slots'
  BY <1>1 DEF Front, Slots
<1>3. \A v \in Warp : done_exit'[v] => completed'[v]
  BY <1>1 DEF Front, Slots, FetchOK, FetchOf
<1>4. FetchOK'
  BY <1>1, <1>3 DEF Front, FetchOK, FetchOf
<1>5. SkipOK'
  BY <1>1 DEF Front, SkipOK
<1> QED BY <1>2, <1>4, <1>5 DEF Front

LEMMA FrontFetch ==
  ASSUME Front, NEW w \in Warp, Fetch(w)
  PROVE  Front'
<1>1. /\ cfg' = cfg /\ launches' = launches /\ prog' = prog /\ gen' = gen /\ pc' = pc
      /\ next_pc' = next_pc /\ ibuffer' = ibuffer
      /\ completed' = completed /\ done_exit' = done_exit
      /\ fetched = << >> /\ ~completed[w] /\ imiss[w] = None /\ ibuffer[w] = << >>
  BY DEF Fetch, CanFetch, slots
<1>2. next_pc[w] \in Nat /\ next_pc[w] # None
  BY DEF Front, Slots, FetchOK, FetchOf
<1>s. SkipOK'
  BY <1>1 DEF Front, SkipOK
<1>3. CASE fetched' = <<w, next_pc[w]>> /\ imiss' = imiss
  <2>1. Slots'
    BY <1>1, <1>2, <1>3 DEF Front, Slots
  <2>2. fetched'[1] = w /\ fetched'[2] = next_pc[w] /\ fetched' # << >>
    BY <1>3
  <2>3. FetchOK'
    BY <1>1, <1>3, <2>2 DEF Front, FetchOK, FetchOf
  <2> QED BY <1>s, <2>1, <2>3 DEF Front
<1>4. CASE imiss' = [imiss EXCEPT ![w] = next_pc[w]] /\ fetched' = fetched
  <2>1. Slots'
    BY <1>1, <1>2, <1>4 DEF Front, Slots
  <2>2. \A v \in Warp : imiss'[v] = IF v = w THEN next_pc[w] ELSE imiss[v]
    BY <1>4 DEF Front, Slots
  <2>3. FetchOK'
    BY <1>1, <1>4, <2>2 DEF Front, FetchOK, FetchOf
  <2> QED BY <1>s, <2>1, <2>3 DEF Front
<1> QED BY <1>3, <1>4 DEF Fetch

LEMMA FrontFetchReturns ==
  ASSUME Front, NEW w \in Warp, FetchReturns(w)
  PROVE  Front'
<1>1. /\ cfg' = cfg /\ launches' = launches /\ prog' = prog /\ gen' = gen /\ pc' = pc
      /\ next_pc' = next_pc /\ ibuffer' = ibuffer
      /\ completed' = completed /\ done_exit' = done_exit
      /\ fetched = << >> /\ imiss[w] # None
      /\ fetched' = <<w, next_pc[w]>> /\ imiss' = [imiss EXCEPT ![w] = None]
  BY DEF FetchReturns, slots
<1>2. next_pc[w] \in Nat /\ ibuffer[w] = << >> /\ ~completed[w]
  BY <1>1 DEF Front, Slots, FetchOK, FetchOf
<1>3. Slots'
  BY <1>1, <1>2 DEF Front, Slots, None
<1>4. \A v \in Warp : imiss'[v] = IF v = w THEN None ELSE imiss[v]
  BY <1>1 DEF Front, Slots
<1>5. fetched'[1] = w /\ fetched'[2] = next_pc[w] /\ fetched' # << >>
  BY <1>1
<1>6. FetchOK'
  BY <1>1, <1>2, <1>4, <1>5 DEF Front, FetchOK, FetchOf
<1>7. SkipOK'
  BY <1>1 DEF Front, SkipOK
<1> QED BY <1>3, <1>6, <1>7 DEF Front

LEMMA FrontControlHazard ==
  ASSUME Front, NEW w \in Warp, ControlHazard(w)
  PROVE  Front'
<1>1. /\ cfg' = cfg /\ launches' = launches /\ prog' = prog /\ gen' = gen /\ pc' = pc
      /\ imiss' = imiss /\ fetched' = fetched /\ completed' = completed /\ done_exit' = done_exit
      /\ next_pc' = [next_pc EXCEPT ![w] = pc[w]] /\ ibuffer' = [ibuffer EXCEPT ![w] = << >>]
      /\ ibuffer[w] # << >> /\ ~completed[w]
  BY DEF ControlHazard, Waiting, slots
<1>2. pc[w] \in Nat /\ pc[w] # None
  <2>1. prog[w] \in Programs /\ pc[w] \in 1 .. Len(prog[w])
    BY <1>1 DEF Front, FetchOK, FetchOf
  <2> QED BY <2>1, ProgramOf DEF None
<1>3. Slots'
  BY <1>1, <1>2 DEF Front, Slots
<1>4. \A v \in Warp : /\ next_pc'[v] = IF v = w THEN pc[w] ELSE next_pc[v]
                      /\ ibuffer'[v] = IF v = w THEN << >> ELSE ibuffer[v]
  BY <1>1 DEF Front, Slots
<1>6. FetchOK'
  BY <1>1, <1>2, <1>4 DEF Front, FetchOK, FetchOf
<1>7. SkipOK'
  BY <1>1 DEF Front, SkipOK
<1> QED BY <1>3, <1>6, <1>7 DEF Front

\* What decode fills in.
LEMMA Decoded ==
  ASSUME Front, Decode
  PROVE  /\ fetched[1] \in Warp /\ ~completed[fetched[1]] /\ ibuffer[fetched[1]] = << >>
         /\ \E q \in Seq(Nat) : /\ ibuffer' = [ibuffer EXCEPT ![fetched[1]] = q]
                                /\ in_pipe' = [in_pipe EXCEPT ![fetched[1]] = @ + Len(q)]
<1>1. fetched # << >>
  BY DEF Decode
<1>2. fetched[1] \in Warp /\ fetched[2] \in Nat
  BY <1>1 DEF Front, Slots
<1>3. ~completed[fetched[1]] /\ ibuffer[fetched[1]] = << >>
  BY <1>1, <1>2 DEF Front, FetchOK, FetchOf
<1>4. PICK q : q = IF fetched[2] + 1 <= Len(prog[fetched[1]]) THEN <<fetched[2], fetched[2] + 1>> ELSE <<fetched[2]>>
  OBVIOUS
<1>5. q \in Seq(Nat)
  BY <1>2, <1>4
<1>6. /\ ibuffer' = [ibuffer EXCEPT ![fetched[1]] = q]
      /\ in_pipe' = [in_pipe EXCEPT ![fetched[1]] = @ + Len(q)]
  BY <1>4 DEF Decode
<1> QED BY <1>2, <1>3, <1>5, <1>6

LEMMA FrontDecode ==
  ASSUME Front, Decode
  PROVE  Front'
<1>1. /\ cfg' = cfg /\ launches' = launches /\ prog' = prog /\ gen' = gen /\ pc' = pc
      /\ next_pc' = next_pc /\ imiss' = imiss /\ completed' = completed /\ done_exit' = done_exit
      /\ fetched # << >> /\ fetched' = << >>
  BY DEF Decode, slots
<1>2. PICK w \in Warp : w = fetched[1]
  BY Decoded
<1>3. PICK q \in Seq(Nat) : ibuffer' = [ibuffer EXCEPT ![w] = q]
  BY <1>2, Decoded
<1>4. ~completed[w] /\ imiss[w] = None
  BY <1>1, <1>2 DEF Front, FetchOK, FetchOf
<1>5. Slots'
  BY <1>1, <1>3 DEF Front, Slots
<1>6. \A v \in Warp : v # w => ibuffer'[v] = ibuffer[v]
  BY <1>3 DEF Front, Slots
<1>7. FetchOK'
  BY <1>1, <1>4, <1>6 DEF Front, FetchOK, FetchOf
<1>8. SkipOK'
  BY <1>1 DEF Front, SkipOK
<1> QED BY <1>5, <1>7, <1>8 DEF Front

\* The next instruction of a warp that is not over.
LEMMA AtPc ==
  ASSUME Front, NEW w \in Warp, ~completed[w]
  PROVE  /\ prog[w] \in Programs /\ pc[w] \in 1 .. Len(prog[w]) /\ pc[w] \in Nat /\ Len(prog[w]) \in Nat
         /\ prog[w][pc[w]] \in Inst /\ ~done_exit[w]
         /\ prog[w][pc[w]].op = "jump" => /\ pc[w] < prog[w][pc[w]].target
                                          /\ prog[w][pc[w]].target \in 1 .. Len(prog[w])
         /\ prog[w][pc[w]].op # "exit" => pc[w] + 1 \in 1 .. Len(prog[w])
<1>1. prog[w] \in Programs /\ pc[w] \in 1 .. Len(prog[w]) /\ ~done_exit[w]
  BY DEF Front, FetchOK, FetchOf
<1>2. PICK p \in Programs : p = prog[w]
  BY <1>1
<1>3. PICK i \in 1 .. Len(p) : i = pc[w]
  BY <1>1, <1>2
<1>4. p[i] \in Inst /\ Len(p) \in Nat /\ (p[i].op # "exit" => i + 1 \in 1 .. Len(p))
      /\ (p[i].op = "jump" => i < p[i].target /\ p[i].target <= Len(p))
  BY ProgramOf
<1>5. p[i].target \in Nat
  BY <1>4 DEF Inst
<1>6. p[i].op = "jump" => p[i].target \in 1 .. Len(p)
  BY <1>4, <1>5
<1> QED BY <1>1, <1>2, <1>3, <1>4, <1>6

LEMMA FrontIssue ==
  ASSUME Front, NEW w \in Warp, Issue(w)
  PROVE  Front'
<1> DEFINE inst == prog[w][pc[w]]
           to == IF inst.op = "jump" THEN inst.target ELSE pc[w] + 1
           left == IF inst.op = "exit" THEN << >> ELSE Tail(ibuffer[w])
<1>1. /\ cfg' = cfg /\ launches' = launches /\ prog' = prog /\ gen' = gen
      /\ imiss' = imiss /\ fetched' = fetched /\ done_exit' = done_exit
      /\ ibuffer[w] # << >> /\ ~completed[w]
  BY DEF Issue, Waiting, slots
<1>2. /\ pc' = [pc EXCEPT ![w] = to] /\ next_pc' = [next_pc EXCEPT ![w] = pc[w] + 1]
      /\ ibuffer' = [ibuffer EXCEPT ![w] = left] /\ completed' = [completed EXCEPT ![w] = inst.op = "exit"]
  BY DEF Front, Slots, Issue
<1>3. /\ prog[w] \in Programs /\ pc[w] \in Nat /\ pc[w] + 1 # None /\ inst \in Inst /\ ~done_exit[w]
      /\ inst.op # "exit" => to \in 1 .. Len(prog[w])
      /\ to \in Nat
  BY <1>1, AtPc DEF None
<1>4. left \in Seq(Nat) /\ (inst.op = "exit" => left = << >>)
  BY <1>1 DEF Front, Slots
<1> HIDE DEF inst, to, left
<1>5. Slots'
  <2>1. pc' \in [Warp -> Nat] /\ next_pc' \in [Warp -> Nat]
    BY <1>2, <1>3 DEF Front, Slots
  <2>2. ibuffer' \in [Warp -> Seq(Nat)]
    BY <1>2, <1>4 DEF Front, Slots
  <2>3. completed' \in [Warp -> BOOLEAN]
    <3>1. PICK b \in BOOLEAN : b = (inst.op = "exit")
      OBVIOUS
    <3>2. completed' = [completed EXCEPT ![w] = b]
      BY <1>2, <3>1
    <3> QED BY <3>2 DEF Front, Slots
  <2> QED BY <1>1, <2>1, <2>2, <2>3 DEF Front, Slots
<1>6. \A v \in Warp : IF v = w THEN /\ pc'[v] = to /\ next_pc'[v] = pc[w] + 1 /\ ibuffer'[v] = left
                                    /\ completed'[v] = (inst.op = "exit")
                               ELSE /\ pc'[v] = pc[v] /\ next_pc'[v] = next_pc[v]
                                    /\ ibuffer'[v] = ibuffer[v] /\ completed'[v] = completed[v]
  BY <1>2 DEF Front, Slots
<1>7. ASSUME NEW v \in Warp
      PROVE  FetchOf(v)'
  <2>1. CASE v = w
    <3>1. imiss[w] = None /\ ~(fetched # << >> /\ fetched[1] = w)
      BY <1>1 DEF Front, FetchOK, FetchOf
    <3> QED BY <1>1, <1>3, <1>4, <1>6, <2>1, <3>1 DEF None, FetchOf
  <2>2. CASE v # w
    BY <1>1, <1>6, <2>2 DEF Front, FetchOK, FetchOf
  <2> QED BY <2>1, <2>2
<1>8. SkipOK'
  BY <1>1 DEF Front, SkipOK
<1> QED BY <1>5, <1>7, <1>8 DEF Front, FetchOK

-------------------------------------------------------------------------------
(* What is counted. *)

\* The cardinality of the members of T.
LEMMA CardAdd ==
  ASSUME NEW S, IsFiniteSet(S), NEW a, a \notin S
  PROVE  /\ IsFiniteSet(S \cup {a})
         /\ \A T : Cardinality((S \cup {a}) \cap T) = Cardinality(S \cap T) + IF a \in T THEN 1 ELSE 0
<1>1. IsFiniteSet(S \cup {a})
  BY FS_AddElement
<1>2. ASSUME NEW T
      PROVE  Cardinality((S \cup {a}) \cap T) = Cardinality(S \cap T) + IF a \in T THEN 1 ELSE 0
  <2>1. IsFiniteSet(S \cap T) /\ a \notin S \cap T
    BY FS_Intersection
  <2>2. PICK R : R = S \cap T
    OBVIOUS
  <2>3. Cardinality(R) \in Nat /\ Cardinality(R \cup {a}) = Cardinality(R) + 1
    BY <2>1, <2>2, FS_AddElement, FS_CardinalityType
  <2>4. CASE a \in T
    <3>1. (S \cup {a}) \cap T = R \cup {a}
      BY <2>2, <2>4
    <3> QED BY <2>2, <2>3, <2>4, <3>1
  <2>5. CASE a \notin T
    <3>1. (S \cup {a}) \cap T = R
      BY <2>2, <2>5
    <3> QED BY <2>2, <2>3, <2>5, <3>1
  <2> QED BY <2>4, <2>5
<1> QED BY <1>1, <1>2

LEMMA CardRemove ==
  ASSUME NEW S, IsFiniteSet(S), NEW a, a \in S
  PROVE  /\ IsFiniteSet(S \ {a})
         /\ \A T : Cardinality((S \ {a}) \cap T) = Cardinality(S \cap T) - IF a \in T THEN 1 ELSE 0
<1>1. PICK R : R = S \ {a}
  OBVIOUS
<1>2. IsFiniteSet(R) /\ a \notin R /\ S = R \cup {a}
  BY <1>1, FS_RemoveElement
<1>3. \A T : Cardinality(S \cap T) = Cardinality(R \cap T) + IF a \in T THEN 1 ELSE 0
  BY <1>2, CardAdd
<1>4. ASSUME NEW T
      PROVE  Cardinality(R \cap T) = Cardinality(S \cap T) - IF a \in T THEN 1 ELSE 0
  <2>1. Cardinality(R \cap T) \in Nat
    BY <1>2, FS_CardinalityType, FS_Intersection
  <2>2. Cardinality(S \cap T) = Cardinality(R \cap T) + IF a \in T THEN 1 ELSE 0
    BY <1>3
  <2>3. PICK m, n : m = Cardinality(R \cap T) /\ n = Cardinality(S \cap T)
    OBVIOUS
  <2>4. m = n - IF a \in T THEN 1 ELSE 0
    BY <2>1, <2>2, <2>3
  <2> QED BY <2>3, <2>4
<1> QED BY <1>1, <1>2, <1>4

LEMMA CardNone ==
  ASSUME NEW S, IsFiniteSet(S), NEW T
  PROVE  Cardinality(S \cap T) \in Nat /\ (Cardinality(S \cap T) = 0 <=> \A a \in S : a \notin T)
<1>1. IsFiniteSet(S \cap T)
  BY FS_Intersection
<1>2. Cardinality(S \cap T) \in Nat /\ (Cardinality(S \cap T) = 0 <=> S \cap T = {})
  BY <1>1, FS_EmptySet, FS_CardinalityType
<1> QED BY <1>2

\* The instruction in the dispatch register, before and after a step.
LEMMA SendingIs ==
  ASSUME Units
  PROVE  /\ dispatch = << >> => Sending = {}
         /\ dispatch # << >> => /\ dispatch = <<dispatch[1]>> /\ Sending = {dispatch[1].x}
                                /\ dispatch[1] \in [x : Instr, left : Nat]
                                /\ dispatch[1].x \in Instr /\ dispatch[1].left \in Nat
                                /\ Range(dispatch) = {dispatch[1]}
<1>1. PICK V : V = [x : Instr, left : Nat]
  OBVIOUS
<1>2. Register(dispatch, V)
  BY <1>1 DEF Units
<1>3. /\ dispatch = << >> => Range(dispatch) = {}
      /\ dispatch # << >> => /\ dispatch = <<dispatch[1]>> /\ dispatch[1] \in V
                             /\ Range(dispatch) = {dispatch[1]}
  BY <1>2, RegisterRange
<1>4. CASE dispatch = << >>
  BY <1>3, <1>4 DEF Sending
<1>5. CASE dispatch # << >>
  BY <1>1, <1>3, <1>5 DEF Sending
<1> QED BY <1>4, <1>5

LEMMA SendingBecomes ==
  /\ dispatch' = << >> => Sending' = {} /\ Range(dispatch') = {}
  /\ \A d : dispatch' = <<d>> => Sending' = {d.x} /\ Range(dispatch') = {d}
BY RangeOne DEF Sending

LEMMA IssuedBecomes ==
  /\ Issued = alu \cup oc \cup Sending \cup Range(smem)
  /\ Issued' = alu' \cup oc' \cup Sending' \cup Range(smem')
  /\ InFlight = Issued \cup Held \cup SharedBack
  /\ InFlight' = Issued' \cup Held' \cup SharedBack'
BY DEF Issued, Sending, InFlight

\* What kind of instruction is where.
LEMMA Kinds ==
  ASSUME Flow, Units, StagesOK
  PROVE  /\ Issued \subseteq Instr /\ alu \subseteq Instr /\ oc \subseteq Instr
         /\ Sending \subseteq Instr /\ Range(smem) \subseteq Instr
         /\ \A a \in Held : /\ a \in Acc /\ (IsLoad(a) \/ IsStore(a)) /\ a.k \in 1 .. a.inst.n
                            /\ a.inst \in Inst /\ a.inst.n \in Nat /\ a.w \in Warp
         /\ \A a \in SharedBack : a \in Instr /\ a.inst.op = "shared"
         /\ \A x \in Instr : x.w \in Warp /\ x.gen \in Nat /\ x.i \in Nat /\ x.inst \in Inst /\ x.inst.n \in Nat
<1>1. Sending \subseteq Instr /\ Range(smem) \subseteq Instr
  BY SendingIs, RegisterRange DEF Units
<1>2. alu \subseteq Instr /\ oc \subseteq Instr
  BY DEF Units
<1>3. ASSUME NEW a \in Held
      PROVE  /\ a \in Acc /\ (IsLoad(a) \/ IsStore(a)) /\ a.k \in 1 .. a.inst.n
             /\ a.inst \in Inst /\ a.inst.n \in Nat /\ a.w \in Warp
  <2>1. a \in Acc /\ (IsLoad(a) \/ IsStore(a)) /\ a.k \in 1 .. a.inst.n
    BY DEF Flow, AccessesOK
  <2>2. a.inst \in Inst /\ a.w \in Warp
    BY <2>1 DEF Acc
  <2> QED BY <2>1, <2>2 DEF Inst
<1>4. \A a \in SharedBack : a \in Instr /\ a.inst.op = "shared"
  BY DEF StagesOK
<1>5. ASSUME NEW x \in Instr
      PROVE  x.w \in Warp /\ x.gen \in Nat /\ x.i \in Nat /\ x.inst \in Inst /\ x.inst.n \in Nat
  <2>1. x.w \in Warp /\ x.gen \in Nat /\ x.i \in Nat /\ x.inst \in Inst
    BY DEF Instr
  <2> QED BY <2>1 DEF Inst
<1> QED BY <1>1, <1>2, <1>3, <1>4, <1>5, IssuedBecomes

\* What instructions write.
LEMMA Outputs ==
  ASSUME NEW inst \in Inst
  PROVE  /\ Outs(inst) \subseteq Reg
         /\ inst.op = "store" => Outs(inst) = {}
         /\ inst.op \in {"shared", "load", "nc", "atomic"} => Outs(inst) # {}
         /\ inst.n \in Nat
BY DEF Inst, Outs

\* The same instruction, seen as an access or not.
Like(x, y) == Same(x, y) /\ x.gen = y.gen /\ x.inst = y.inst

LEMMA Alike ==
  ASSUME CurrentOK, NEW x \in InFlight, NEW y \in InFlight, Same(x, y)
  PROVE  Like(x, y) /\ (x \in Instr /\ y \in Instr => x = y)
<1>1. Current(x) /\ Current(y)
  BY DEF CurrentOK
<1>2. x.gen = y.gen /\ x.inst = y.inst
  BY <1>1 DEF Current, Same
<1>3. x \in Instr /\ y \in Instr => x = y
  BY <1>2 DEF Instr, Same
<1> QED BY <1>2, <1>3 DEF Like

\* What is in flight was so before.
LEMMA LikeKeeps ==
  ASSUME CurrentOK, OneWriter, \A x \in InFlight' : \E y \in InFlight : Like(x, y),
         UNCHANGED <<slots, pc, completed, done_exit>>
  PROVE  CurrentOK' /\ OneWriter'
<1>1. prog' = prog /\ gen' = gen /\ pc' = pc /\ completed' = completed /\ done_exit' = done_exit
  BY DEF slots
<1>2. ASSUME NEW x \in InFlight'
      PROVE  Current(x)'
  <2>1. PICK y \in InFlight : Like(x, y)
    OBVIOUS
  <2>2. Current(y)
    BY DEF CurrentOK
  <2> QED BY <1>1, <2>1, <2>2 DEF Current, Like, Same
<1>3. OneWriter'
  <2> SUFFICES ASSUME NEW w \in Warp, NEW r \in Reg, NEW x \in InFlight', NEW y \in InFlight',
                      Writes(x, w, r), Writes(y, w, r)
               PROVE  x.i = y.i
    BY DEF OneWriter, Writes
  <2>1. PICK u \in InFlight, v \in InFlight : Like(x, u) /\ Like(y, v)
    OBVIOUS
  <2>2. Writes(u, w, r) /\ Writes(v, w, r)
    BY <2>1 DEF Writes, Like, Same
  <2> QED BY <2>1, <2>2 DEF OneWriter, Like, Same
<1> QED BY <1>2, <1>3 DEF CurrentOK

\* Registers stay held, ...
LEMMA HoldKeeps ==
  ASSUME HoldOK, \A x \in InFlight' : \E y \in InFlight : Like(x, y),
         \A y \in InFlight : Outs(y.inst) # {} => \E x \in InFlight' : Like(x, y), regs' = regs
  PROVE  HoldOK'
<1> SUFFICES ASSUME NEW w \in Warp, NEW r \in Reg
             PROVE  (\E x \in InFlight' : Writes(x, w, r)) <=> \E y \in InFlight : Writes(y, w, r)
  BY DEF HoldOK, Writes
<1>1. ASSUME NEW x \in InFlight', Writes(x, w, r)
      PROVE  \E y \in InFlight : Writes(y, w, r)
  BY <1>1 DEF Writes, Like, Same
<1>2. ASSUME NEW y \in InFlight, Writes(y, w, r)
      PROVE  \E x \in InFlight' : Writes(x, w, r)
  <2>1. Outs(y.inst) # {}
    BY <1>2 DEF Writes
  <2> QED BY <1>2, <2>1 DEF Writes, Like, Same
<1> QED BY <1>1, <1>2

\* ... or those in R are released, of instruction x.
LEMMA Released ==
  ASSUME HoldOK, CurrentOK, \A y \in InFlight' : \E z \in InFlight : Like(y, z),
         NEW x \in InFlight, NEW R,
         \A v \in Warp, r \in Reg : r \in regs'[v] <=> r \in regs[v] /\ ~(v = x.w /\ r \in R),
         \A y \in InFlight : Same(y, x) \/ y \in InFlight',
         \A r \in R \cap Reg : \A y \in InFlight' : ~Writes(y, x.w, r),
         \A r \in Outs(x.inst) \ R : \E y \in InFlight' : Writes(y, x.w, r)
  PROVE  HoldOK'
<1> SUFFICES ASSUME NEW v \in Warp, NEW r \in Reg
             PROVE  r \in regs'[v] <=> \E y \in InFlight' : Writes(y, v, r)
  BY DEF HoldOK, Writes
<1>1. ASSUME r \in regs'[v]
      PROVE  \E y \in InFlight' : Writes(y, v, r)
  <2>1. r \in regs[v] /\ ~(v = x.w /\ r \in R)
    BY <1>1
  <2>2. PICK y \in InFlight : Writes(y, v, r)
    BY <2>1 DEF HoldOK
  <2>3. CASE Same(y, x)
    <3>1. y.inst = x.inst /\ v = x.w
      BY <2>2, <2>3, Alike DEF Like, Same, Writes
    <3>2. r \in Outs(x.inst) \ R
      BY <2>1, <2>2, <3>1 DEF Writes
    <3> QED BY <3>1, <3>2
  <2>4. CASE y \in InFlight'
    BY <2>2, <2>4
  <2> QED BY <2>3, <2>4
<1>2. ASSUME NEW y \in InFlight', Writes(y, v, r)
      PROVE  r \in regs'[v]
  <2>1. PICK z \in InFlight : Like(y, z)
    OBVIOUS
  <2>2. Writes(z, v, r)
    BY <1>2, <2>1 DEF Writes, Like, Same
  <2>3. r \in regs[v]
    BY <2>2 DEF HoldOK
  <2> QED BY <1>2, <2>3
<1> QED BY <1>1, <1>2

\* Accesses that are not served, before and after a step.
LEMMA UnservedBecomes ==
  /\ Unserved = Held \ held["wb"] /\ Unserved' = Held' \ held'["wb"]
BY DEF Unserved

\* The books do not depend on where an access is.
LEMMA BackKeeps ==
  ASSUME Back, Held' = Held, SharedBack' = SharedBack,
         \A w \in Warp : Unserved' \cap Mine(w, "atomic") = Unserved \cap Mine(w, "atomic"),
         UNCHANGED <<slots, pc, ibuffer, completed, done_exit, n_atomic, stores, in_pipe,
                     board, units>>
  PROVE  Back'
<1>1. /\ alu' = alu /\ oc' = oc /\ dispatch' = dispatch /\ smem' = smem
      /\ regs' = regs /\ pending' = pending /\ ibuffer' = ibuffer
      /\ n_atomic' = n_atomic /\ stores' = stores /\ in_pipe' = in_pipe
  BY DEF units, board
<1>2. Issued' = Issued /\ InFlight' = InFlight
  BY <1>1 DEF Issued, InFlight
<1>3. Counts' /\ Units' /\ FiniteOK'
  BY <1>1, <1>2 DEF Back, Counts, Units, FiniteOK, Due
<1>4. \A x : Like(x, x)
  BY DEF Like, Same
<1>5. CurrentOK' /\ OneWriter'
  BY <1>2, <1>4, LikeKeeps DEF Back, Books
<1>6. HoldOK'
  BY <1>1, <1>2, <1>4, HoldKeeps DEF Back, Books
<1>7. StagesOK'
  <2>1. Sending' = Sending
    BY <1>1 DEF Sending
  <2> QED BY <1>1, <1>2, <2>1 DEF Back, StagesOK, Same
<1>8. PipeCount' /\ StoreCount'
  BY <1>1, <1>2 DEF Back, Books, PipeCount, StoreCount
<1>9. AtomicCount'
  BY <1>1 DEF Back, Books, AtomicCount, Due, UnsentIn
<1>10. PendingOK'
  BY <1>1 DEF Back, Books, PendingOK, UnsentIn
<1> QED BY <1>3, <1>5, <1>6, <1>7, <1>8, <1>9, <1>10 DEF Back, Books

\* Decode fills the buffer of a warp, a control hazard empties it.
LEMMA BufferChanges ==
  ASSUME Back, Held' = Held, SharedBack' = SharedBack, Unserved' = Unserved,
         NEW w \in Warp, NEW q \in Seq(Nat), ibuffer \in [Warp -> Seq(Nat)],
         ibuffer' = [ibuffer EXCEPT ![w] = q],
         in_pipe' = [in_pipe EXCEPT ![w] = @ + Len(q) - Len(ibuffer[w])],
         UNCHANGED <<slots, pc, completed, done_exit, n_atomic, stores, board, units>>
  PROVE  Back'
<1>1. /\ alu' = alu /\ oc' = oc /\ dispatch' = dispatch /\ smem' = smem
      /\ regs' = regs /\ pending' = pending
      /\ n_atomic' = n_atomic /\ stores' = stores
  BY DEF units, board
<1>2. Issued' = Issued /\ InFlight' = InFlight
  BY <1>1 DEF Issued, InFlight
<1>3. Units' /\ FiniteOK'
  BY <1>1, <1>2 DEF Back, Units, FiniteOK, Due
<1>l. \A v \in Warp : Len(ibuffer[v]) \in Nat /\ Len(q) \in Nat /\ in_pipe[v] \in Int
  BY DEF Back, Counts
<1>c. Counts'
  <2>1. in_pipe[w] + Len(q) - Len(ibuffer[w]) \in Int
    BY <1>l
  <2>2. in_pipe' \in [Warp -> Int]
    BY <2>1 DEF Back, Counts
  <2> QED BY <1>1, <2>2 DEF Back, Counts
<1>4. \A x : Like(x, x)
  BY DEF Like, Same
<1>5. CurrentOK' /\ OneWriter'
  BY <1>2, <1>4, LikeKeeps DEF Back, Books
<1>6. HoldOK'
  BY <1>1, <1>2, <1>4, HoldKeeps DEF Back, Books
<1>7. StagesOK'
  <2>1. Sending' = Sending
    BY <1>1 DEF Sending
  <2> QED BY <1>1, <1>2, <2>1 DEF Back, StagesOK, Same
<1>8. StoreCount'
  BY <1>1, <1>2 DEF Back, Books, StoreCount
<1>9. AtomicCount'
  BY <1>1 DEF Back, Books, AtomicCount, Due, UnsentIn
<1>10. PendingOK'
  BY <1>1 DEF Back, Books, PendingOK, UnsentIn
<1>11. PipeCount'
  <2> SUFFICES ASSUME NEW v \in Warp
               PROVE  in_pipe'[v] = Len(ibuffer'[v]) + Cardinality(Issued \cap Of(v))
    BY <1>2 DEF PipeCount
  <2>1. in_pipe[v] = Len(ibuffer[v]) + Cardinality(Issued \cap Of(v))
    BY DEF Back, Books, PipeCount
  <2>2. Cardinality(Issued \cap Of(v)) \in Nat
    BY CardNone DEF Back, FiniteOK
  <2>3. CASE v = w
    <3>1. ibuffer'[v] = q /\ in_pipe'[v] = in_pipe[v] + Len(q) - Len(ibuffer[v])
      BY <2>3 DEF Back, Counts
    <3> QED BY <1>l, <2>1, <2>2, <3>1
  <2>4. CASE v # w
    <3>1. ibuffer'[v] = ibuffer[v] /\ in_pipe'[v] = in_pipe[v]
      BY <2>4 DEF Back, Counts
    <3> QED BY <2>1, <3>1
  <2> QED BY <2>3, <2>4
<1> QED BY <1>3, <1>c, <1>5, <1>6, <1>7, <1>8, <1>9, <1>10, <1>11 DEF Back, Books

\* A warp that is over has nothing in flight, ...
LEMMA NothingOf ==
  ASSUME Flow, Back, NEW w \in Warp, \A x \in InFlight : x.w # w
  PROVE  /\ Due(w) = {} /\ UnsentIn(Atomics(w)) = 0
         /\ Cardinality(Unserved \cap Mine(w, "atomic")) = 0
<1>1. \A x \in oc : x.w # w
  BY IssuedBecomes
<1>2. Due(w) = {}
  BY <1>1 DEF Due, DueIn
<1>3. UnsentIn(Atomics(w)) = 0
  <2>1. dispatch # << >> => dispatch[1].x \in InFlight
    BY SendingIs, IssuedBecomes DEF Back
  <2> QED BY <2>1 DEF UnsentIn, Atomics
<1>4. Unserved \cap Mine(w, "atomic") = {}
  <2>1. \A x \in Unserved : x.w # w
    BY UnservedBecomes, IssuedBecomes
  <2> QED BY <2>1 DEF Mine
<1> QED BY <1>2, <1>3, <1>4, FS_EmptySet

\* ... and its slot can go to another.
LEMMA BackLaunch ==
  ASSUME Front, Flow, Back, NEW w \in Warp, Launch(w), Held' = Held, SharedBack' = SharedBack,
         Unserved' = Unserved
  PROVE  Back'
<1>1. /\ alu' = alu /\ oc' = oc /\ dispatch' = dispatch /\ smem' = smem
      /\ regs' = regs /\ pending' = pending /\ ibuffer' = ibuffer
      /\ stores' = stores /\ in_pipe' = in_pipe
      /\ n_atomic' = [n_atomic EXCEPT ![w] = 0]
  BY DEF Launch, units, board
<1>2. Issued' = Issued /\ InFlight' = InFlight
  BY <1>1 DEF Issued, InFlight
<1>3. Units' /\ FiniteOK'
  BY <1>1, <1>2 DEF Back, Units, FiniteOK, Due
<1>c. Counts'
  BY <1>1 DEF Back, Counts
<1>n. \A x \in InFlight : x.w # w
  BY DEF Back, CurrentOK, Current, Launch
<1>5. CurrentOK'
  <2> SUFFICES ASSUME NEW x \in InFlight
               PROVE  Current(x)'
    BY <1>2 DEF CurrentOK
  <2>1. Current(x) /\ x.w # w
    BY <1>n DEF Back, CurrentOK
  <2>2. x.w \in Warp
    BY <2>1 DEF Current
  <2>3. /\ gen'[x.w] = gen[x.w] /\ done_exit'[x.w] = done_exit[x.w] /\ prog'[x.w] = prog[x.w]
        /\ completed'[x.w] = completed[x.w] /\ pc'[x.w] = pc[x.w]
    BY <2>1, <2>2 DEF Launch, Front, Slots
  <2> QED BY <2>1, <2>3 DEF Current
<1>6. HoldOK' /\ OneWriter'
  BY <1>1, <1>2 DEF Back, Books, HoldOK, OneWriter, Writes
<1>7. StagesOK'
  <2>1. Sending' = Sending
    BY <1>1 DEF Sending
  <2> QED BY <1>1, <1>2, <2>1 DEF Back, StagesOK, Same
<1>8. StoreCount' /\ PipeCount'
  BY <1>1, <1>2 DEF Back, Books, StoreCount, PipeCount
<1>9. AtomicCount'
  <2> SUFFICES ASSUME NEW v \in Warp
               PROVE  n_atomic'[v] = Cardinality(Due(v)) + UnsentIn(Atomics(v))
                                     + Cardinality(Unserved \cap Mine(v, "atomic"))
    BY <1>1 DEF AtomicCount, Due, UnsentIn
  <2>1. CASE v = w
    <3>1. n_atomic'[v] = 0
      BY <1>1, <2>1 DEF Back, Counts
    <3> QED BY <1>n, <2>1, <3>1, NothingOf, FS_EmptySet
  <2>2. CASE v # w
    <3>1. n_atomic'[v] = n_atomic[v]
      BY <1>1, <2>2 DEF Back, Counts
    <3> QED BY <3>1 DEF Back, Books, AtomicCount
  <2> QED BY <2>1, <2>2
<1>10. PendingOK'
  BY <1>1 DEF Back, Books, PendingOK, UnsentIn
<1> QED BY <1>3, <1>c, <1>5, <1>6, <1>7, <1>8, <1>9, <1>10 DEF Back, Books

\* A warp that is found done has nothing in flight.
LEMMA NothingLeft ==
  ASSUME Flow, Back, Front, NEW w \in Warp, HardwareDone(w), regs[w] = {}
  PROVE  \A x \in InFlight : x.w # w
<1>1. SUFFICES ASSUME NEW x \in InFlight, x.w = w
               PROVE  FALSE
  OBVIOUS
<1>k. /\ Issued \subseteq Instr
      /\ \A a \in Held : a \in Acc /\ (IsLoad(a) \/ IsStore(a)) /\ a.inst \in Inst
      /\ \A a \in SharedBack : a \in Instr /\ a.inst.op = "shared"
      /\ \A y \in Instr : y.inst \in Inst
  BY Kinds DEF Back
<1>2. Outs(x.inst) = {}
  <2>1. Outs(x.inst) \subseteq Reg
    BY <1>k, Outputs, IssuedBecomes
  <2>2. \A r \in Reg : ~Writes(x, w, r)
    BY <1>1 DEF Back, Books, HoldOK
  <2> QED BY <1>1, <2>1, <2>2 DEF Writes
<1>3. CASE x \in Issued
  <2>1. Cardinality(Issued \cap Of(w)) \in Nat /\ (Cardinality(Issued \cap Of(w)) = 0 <=> \A a \in Issued : a \notin Of(w))
    BY CardNone DEF Back, FiniteOK
  <2>2. in_pipe[w] = 0 /\ in_pipe[w] = Len(ibuffer[w]) + Cardinality(Issued \cap Of(w))
    BY DEF Back, Books, PipeCount, HardwareDone
  <2>3. Len(ibuffer[w]) \in Nat
    BY DEF Front, Slots
  <2>4. PICK m, n : m = Len(ibuffer[w]) /\ n = Cardinality(Issued \cap Of(w))
    OBVIOUS
  <2>5. n = 0
    BY <2>1, <2>2, <2>3, <2>4
  <2> QED BY <1>1, <1>3, <1>k, <2>1, <2>4, <2>5 DEF Of
<1>4. CASE x \in Held /\ IsStore(x)
  <2>1. Cardinality(Held \cap Mine(w, "store")) = 0
    BY DEF Back, Books, StoreCount, HardwareDone
  <2>2. x \notin Mine(w, "store")
    BY <1>4, <2>1, CardNone DEF Back, FiniteOK
  <2> QED BY <1>1, <1>4, <1>k, <2>2 DEF Mine, IsStore
<1>5. CASE x \in Held /\ IsLoad(x)
  BY <1>2, <1>5, <1>k, Outputs DEF IsLoad
<1>6. CASE x \in SharedBack
  BY <1>2, <1>6, <1>k, Outputs
<1> QED BY <1>3, <1>4, <1>5, <1>6, <1>k, IssuedBecomes

LEMMA BackWarpExits ==
  ASSUME Front, Flow, Back, NEW w \in Warp, WarpExits(w), Held' = Held, SharedBack' = SharedBack,
         Unserved' = Unserved
  PROVE  Back'
<1>1. /\ alu' = alu /\ oc' = oc /\ dispatch' = dispatch /\ smem' = smem
      /\ regs' = regs /\ pending' = pending /\ ibuffer' = ibuffer
      /\ stores' = stores /\ in_pipe' = in_pipe /\ n_atomic' = n_atomic
      /\ prog' = prog /\ gen' = gen /\ pc' = pc /\ completed' = completed
  BY DEF WarpExits, units, board, front, slots, counters
<1>2. Issued' = Issued /\ InFlight' = InFlight
  BY <1>1 DEF Issued, InFlight
<1>3. Units' /\ FiniteOK' /\ Counts'
  BY <1>1, <1>2 DEF Back, Units, FiniteOK, Due, Counts
<1>n. \A x \in InFlight : x.w # w
  BY NothingLeft DEF WarpExits
<1>5. CurrentOK'
  <2> SUFFICES ASSUME NEW x \in InFlight
               PROVE  Current(x)'
    BY <1>2 DEF CurrentOK
  <2>1. Current(x) /\ x.w # w
    BY <1>n DEF Back, CurrentOK
  <2>2. done_exit'[x.w] = done_exit[x.w]
    BY <2>1 DEF WarpExits, Front, Slots, Current
  <2> QED BY <1>1, <2>1, <2>2 DEF Current
<1>6. HoldOK' /\ OneWriter'
  BY <1>1, <1>2 DEF Back, Books, HoldOK, OneWriter, Writes
<1>7. StagesOK'
  <2>1. Sending' = Sending
    BY <1>1 DEF Sending
  <2> QED BY <1>1, <1>2, <2>1 DEF Back, StagesOK, Same
<1>8. StoreCount' /\ PipeCount'
  BY <1>1, <1>2 DEF Back, Books, StoreCount, PipeCount
<1>9. AtomicCount' /\ PendingOK'
  BY <1>1 DEF Back, Books, AtomicCount, Due, PendingOK, UnsentIn
<1> QED BY <1>3, <1>5, <1>6, <1>7, <1>8, <1>9 DEF Back, Books

-------------------------------------------------------------------------------
(* The dispatch register sends an access. *)

\* The access that is sent next.
LEMMA AccessOf ==
  ASSUME Flow, Back, dispatch # << >>, dispatch[1].left > 0
  PROVE  /\ Access(dispatch[1]) \in Acc /\ Access(dispatch[1]) \notin Held
         /\ IsLoad(Access(dispatch[1])) \/ IsStore(Access(dispatch[1]))
         /\ Access(dispatch[1]).k \in 1 .. Access(dispatch[1]).inst.n
         /\ Access(dispatch[1]).k = dispatch[1].left
         /\ Access(dispatch[1]).inst = dispatch[1].x.inst
         /\ Like(Access(dispatch[1]), dispatch[1].x)
         /\ dispatch[1].x \in Issued /\ dispatch[1].x \in InFlight
<1> DEFINE x == dispatch[1].x
           l == dispatch[1].left
           a == Access(dispatch[1])
<1>1. x \in Instr /\ l \in Nat /\ Sending = {x} /\ Range(dispatch) = {dispatch[1]}
  BY SendingIs DEF Back
<1>2. x \in Issued /\ x \in InFlight
  BY <1>1, IssuedBecomes
<1>3. x.w \in Warp /\ x.gen \in Nat /\ x.i \in Nat /\ x.inst \in Inst /\ x.inst.n \in Nat
  BY <1>1, Kinds DEF Back
<1>4. a.w = x.w /\ a.gen = x.gen /\ a.inst = x.inst /\ a.i = x.i /\ a.k = l
  BY DEF Access
<1>5. a \in Acc
  BY <1>1, <1>3 DEF Acc, Access
<1>6. ToMemory(x.inst) /\ l <= x.inst.n /\ \A b \in Held : Same(b, x) => b.k > l
  BY <1>1 DEF Back, StagesOK
<1>7. a.k \in 1 .. a.inst.n
  BY <1>1, <1>3, <1>4, <1>6
<1>8. a \notin Held
  BY <1>1, <1>4, <1>6 DEF Same
<1>9. IsLoad(a) \/ IsStore(a)
  BY <1>1, <1>3, <1>4, <1>6 DEF ToMemory, Inst, IsLoad, IsStore
<1>10. Like(a, x)
  BY <1>4 DEF Like, Same
<1> QED BY <1>2, <1>4, <1>5, <1>7, <1>8, <1>9, <1>10

\* How many accesses are unsent.
LEMMA UnsentIs ==
  ASSUME Units
  PROVE  \A T : /\ UnsentIn(T) \in Nat
                /\ dispatch = << >> => UnsentIn(T) = 0
                /\ dispatch # << >> =>
                     UnsentIn(T) = IF dispatch[1].x \in T THEN dispatch[1].left ELSE 0
BY SendingIs DEF UnsentIn

LEMMA UnsentBecomes ==
  /\ dispatch' = << >> => \A T : UnsentIn(T)' = 0
  /\ \A d : dispatch' = <<d>> => \A T : UnsentIn(T)' = IF d.x \in T THEN d.left ELSE 0
BY DEF UnsentIn

LEMMA SentStep ==
  ASSUME Units, dispatch # << >>, dispatch[1].left > 0, NEW pend, Sent(dispatch[1], pend)
  PROVE  /\ \A T : UnsentIn(T)' = UnsentIn(T) - IF dispatch[1].x \in T THEN 1 ELSE 0
         /\ pending' = pend
         /\ dispatch[1].left > 1 =>
              /\ dispatch' = <<[x |-> dispatch[1].x, left |-> dispatch[1].left - 1]>>
              /\ Sending' = Sending /\ in_pipe' = in_pipe /\ regs' = regs
         /\ dispatch[1].left = 1 => Dispatched(dispatch[1].x, pend) /\ Sending' = {}
         /\ Register(dispatch', [x : Instr, left : Nat])
<1>1. PICK d : d = dispatch[1]
  OBVIOUS
<1>2. d \in [x : Instr, left : Nat] /\ d.x \in Instr /\ d.left \in Nat /\ d.left > 0 /\ Sending = {d.x}
  BY <1>1, SendingIs
<1>3. Sent(d, pend) /\ \A T : UnsentIn(T) = IF d.x \in T THEN d.left ELSE 0
  BY <1>1, UnsentIs
<1>4. CASE d.left > 1
  <2>1. PICK e : e = [x |-> d.x, left |-> d.left - 1]
    OBVIOUS
  <2>2. [d EXCEPT !.left = @ - 1] = e
    BY <1>2, <2>1
  <2>3. e \in [x : Instr, left : Nat] /\ e.x = d.x /\ e.left = d.left - 1
    BY <1>2, <1>4, <2>1
  <2>4. dispatch' = <<e>> /\ in_pipe' = in_pipe /\ regs' = regs /\ pending' = pend
    BY <1>3, <1>4, <2>2 DEF Sent
  <2>5. Sending' = Sending
    BY <1>2, <2>3, <2>4, SendingBecomes
  <2>6. \A T : UnsentIn(T)' = UnsentIn(T) - IF d.x \in T THEN 1 ELSE 0
    <3> TAKE T
    <3>1. UnsentIn(T)' = IF d.x \in T THEN d.left - 1 ELSE 0
      BY <2>3, <2>4, UnsentBecomes
    <3>2. UnsentIn(T) = IF d.x \in T THEN d.left ELSE 0
      BY <1>3
    <3> QED BY <3>1, <3>2
  <2>7. Register(dispatch', [x : Instr, left : Nat])
    BY <2>3, <2>4 DEF Register
  <2> QED BY <1>1, <1>4, <2>1, <2>4, <2>5, <2>6, <2>7
<1>5. CASE ~(d.left > 1)
  <2>1. d.left = 1
    BY <1>2, <1>5
  <2>2. dispatch' = << >> /\ pending' = pend /\ Dispatched(d.x, pend)
    BY <1>3, <1>5 DEF Sent, Dispatched
  <2>3. \A T : UnsentIn(T)' = UnsentIn(T) - IF d.x \in T THEN 1 ELSE 0
    <3> TAKE T
    <3>1. UnsentIn(T)' = 0
      BY <2>2, UnsentBecomes
    <3>2. UnsentIn(T) = IF d.x \in T THEN 1 ELSE 0
      BY <1>3, <2>1
    <3> QED BY <3>1, <3>2
  <2>4. Sending' = {} /\ Register(dispatch', [x : Instr, left : Nat])
    BY <2>2, SendingBecomes DEF Register
  <2> QED BY <1>1, <1>5, <2>1, <2>2, <2>3, <2>4
<1> QED BY <1>4, <1>5

\* The instruction in the dispatch register is nowhere else.
LEMMA OnlyThere ==
  ASSUME Flow, Back, dispatch # << >>
  PROVE  /\ Sending = {dispatch[1].x} /\ dispatch[1].x \in Instr /\ ToMemory(dispatch[1].x.inst)
         /\ dispatch[1].x \notin alu /\ dispatch[1].x \notin oc /\ dispatch[1].x \notin Range(smem)
<1>1. Sending = {dispatch[1].x} /\ dispatch[1].x \in Instr /\ Range(dispatch) = {dispatch[1]}
  BY SendingIs DEF Back
<1>2. ToMemory(dispatch[1].x.inst) /\ dispatch[1].x \notin oc
  BY <1>1 DEF Back, StagesOK
<1> QED BY <1>1, <1>2 DEF Back, StagesOK

\* An instruction of warp w leaves the units, and is counted down.
LEMMA LeavesUnits ==
  ASSUME Back, NEW x \in Issued, x \in Instr, Issued' = Issued \ {x}, ibuffer' = ibuffer,
         in_pipe' = [in_pipe EXCEPT ![x.w] = @ - 1], \A v \in Warp : Len(ibuffer[v]) \in Nat
  PROVE  in_pipe' \in [Warp -> Int] /\ PipeCount' /\ IsFiniteSet(Issued')
<1>1. in_pipe \in [Warp -> Int]
  BY DEF Back, Counts
<1>2. /\ IsFiniteSet(Issued \ {x})
      /\ \A T : Cardinality((Issued \ {x}) \cap T) = Cardinality(Issued \cap T) - IF x \in T THEN 1 ELSE 0
      /\ \A T : Cardinality(Issued \cap T) \in Nat
  BY CardRemove, CardNone DEF Back, FiniteOK
<1>3. in_pipe' \in [Warp -> Int]
  <2>1. x.w \in Warp
    BY DEF Instr
  <2>2. in_pipe[x.w] - 1 \in Int
    BY <1>1, <2>1
  <2> QED BY <1>1, <2>2
<1>4. PipeCount'
  <2> SUFFICES ASSUME NEW v \in Warp
               PROVE  in_pipe'[v] = Len(ibuffer[v]) + Cardinality(Issued' \cap Of(v))
    BY DEF PipeCount
  <2>1. in_pipe[v] = Len(ibuffer[v]) + Cardinality(Issued \cap Of(v))
    BY DEF Back, Books, PipeCount
  <2>2. x \in Of(v) <=> v = x.w
    BY DEF Of
  <2>3. in_pipe'[v] = in_pipe[v] - IF v = x.w THEN 1 ELSE 0
    BY <1>1
  <2>4. Cardinality(Issued' \cap Of(v)) = Cardinality(Issued \cap Of(v)) - IF v = x.w THEN 1 ELSE 0
    BY <1>2, <2>2
  <2>5. PICK l, m, n, d : /\ l = Len(ibuffer[v]) /\ m = Cardinality(Issued \cap Of(v))
                          /\ n = Cardinality(Issued' \cap Of(v)) /\ d = IF v = x.w THEN 1 ELSE 0
    OBVIOUS
  <2>6. l \in Nat /\ m \in Nat /\ d \in Nat
    BY <1>2, <2>5
  <2>7. in_pipe[v] = l + m /\ in_pipe'[v] = in_pipe[v] - d /\ n = m - d
    BY <2>1, <2>3, <2>4, <2>5
  <2>8. in_pipe'[v] = l + n
    BY <2>6, <2>7
  <2> QED BY <2>5, <2>8
<1> QED BY <1>2, <1>3, <1>4

\* An access enters the places or leaves them.
LEMMA HeldGrows ==
  ASSUME Back, NEW a, a \notin Held, Held' = Held \cup {a}, held'["wb"] = held["wb"]
  PROVE  /\ IsFiniteSet(Held')
         /\ \A T : Cardinality(Held' \cap T) = Cardinality(Held \cap T) + IF a \in T THEN 1 ELSE 0
         /\ \A T : Cardinality(Unserved' \cap T) = Cardinality(Unserved \cap T) + IF a \in T THEN 1 ELSE 0
         /\ \A T : Cardinality(Held \cap T) \in Nat /\ Cardinality(Unserved \cap T) \in Nat
<1>1. IsFiniteSet(Held)
  BY DEF Back, FiniteOK
<1>2. held["wb"] \subseteq Held
  BY DEF Held, All, Place
<1>3. PICK U : U = Unserved
  OBVIOUS
<1>4. IsFiniteSet(U) /\ a \notin U
  BY <1>1, <1>3, FS_Difference, UnservedBecomes
<1>5. Unserved' = U \cup {a}
  BY <1>2, <1>3, UnservedBecomes
<1>6. \A T : Cardinality((U \cup {a}) \cap T) = Cardinality(U \cap T) + IF a \in T THEN 1 ELSE 0
  BY <1>4, CardAdd
<1>7. /\ IsFiniteSet(Held \cup {a})
      /\ \A T : Cardinality((Held \cup {a}) \cap T) = Cardinality(Held \cap T) + IF a \in T THEN 1 ELSE 0
  BY <1>1, CardAdd
<1>8. \A T : Cardinality(Held \cap T) \in Nat /\ Cardinality(U \cap T) \in Nat
  BY <1>1, <1>4, CardNone
<1> QED BY <1>3, <1>5, <1>6, <1>7, <1>8

LEMMA HeldShrinks ==
  ASSUME Back, NEW a, a \in Held, Held' = Held \ {a}
  PROVE  /\ IsFiniteSet(Held')
         /\ \A T : Cardinality(Held' \cap T) = Cardinality(Held \cap T) - IF a \in T THEN 1 ELSE 0
         /\ \A T : Cardinality(Held \cap T) \in Nat
BY CardRemove, CardNone DEF Back, FiniteOK

LEMMA UnservedShrinks ==
  ASSUME Back, NEW a \in Unserved, Unserved' = Unserved \ {a}
  PROVE  \A T : /\ Cardinality(Unserved' \cap T) = Cardinality(Unserved \cap T) - IF a \in T THEN 1 ELSE 0
                /\ Cardinality(Unserved \cap T) \in Nat
<1>1. PICK U : U = Unserved
  OBVIOUS
<1>2. IsFiniteSet(U)
  BY <1>1, FS_Difference, UnservedBecomes DEF Back, FiniteOK
<1>3. \A T : Cardinality((U \ {a}) \cap T) = Cardinality(U \cap T) - IF a \in T THEN 1 ELSE 0
  BY <1>1, <1>2, CardRemove
<1>4. \A T : Cardinality(U \cap T) \in Nat
  BY <1>2, CardNone
<1> QED BY <1>1, <1>3, <1>4

\* What sending an access does to the units.
LEMMA SentKeeps ==
  ASSUME Flow, Back, dispatch # << >>, dispatch[1].left > 0, NEW pend, Sent(dispatch[1], pend),
         NEW a, a = Access(dispatch[1]), Held' \subseteq Held \cup {a}, IsFiniteSet(Held'),
         SharedBack' = SharedBack, \A v \in Warp : Len(ibuffer[v]) \in Nat,
         UNCHANGED <<ibuffer, alu, oc, smem>>
  PROVE  /\ Units' /\ StagesOK' /\ PipeCount' /\ FiniteOK' /\ in_pipe' \in [Warp -> Int]
         /\ Issued' = IF dispatch[1].left = 1 THEN Issued \ {dispatch[1].x} ELSE Issued
<1> DEFINE x == dispatch[1].x
           l == dispatch[1].left
<1>a. /\ a \in Acc /\ a \notin Held /\ a.k = l /\ Like(a, x) /\ x \in Issued /\ x \in InFlight
  BY AccessOf
<1>s. /\ pending' = pend
      /\ l > 1 => /\ dispatch' = <<[x |-> x, left |-> l - 1]>>
                  /\ Sending' = Sending /\ in_pipe' = in_pipe
      /\ l = 1 => Dispatched(x, pend) /\ Sending' = {}
      /\ Register(dispatch', [x : Instr, left : Nat])
  BY SentStep DEF Back
<1>o. /\ Sending = {x} /\ x \in Instr /\ ToMemory(x.inst) /\ Range(dispatch) = {dispatch[1]}
      /\ x \notin alu /\ x \notin oc /\ x \notin Range(smem) /\ l \in Nat
  BY OnlyThere, SendingIs DEF Back
<1>1. Issued' = IF l = 1 THEN Issued \ {x} ELSE Issued
  <2>1. CASE l = 1
    BY <1>o, <1>s, <2>1, IssuedBecomes
  <2>2. CASE l # 1
    <3>1. l > 1
      BY <1>o, <2>2
    <3> QED BY <1>s, <2>2, <3>1, IssuedBecomes
  <2> QED BY <2>1, <2>2
<1>2. Units'
  BY <1>s DEF Back, Units
<1>3. PipeCount' /\ in_pipe' \in [Warp -> Int] /\ IsFiniteSet(Issued')
  <2>1. CASE l = 1
    <3>1. in_pipe' = [in_pipe EXCEPT ![x.w] = @ - 1] /\ Issued' = Issued \ {x}
      BY <1>1, <1>s, <2>1 DEF Dispatched
    <3> QED BY <1>a, <1>o, <3>1, LeavesUnits
  <2>2. CASE l # 1
    <3>1. in_pipe' = in_pipe /\ Issued' = Issued
      BY <1>1, <1>o, <1>s, <2>2
    <3> QED BY <3>1 DEF Back, Books, PipeCount, Counts, FiniteOK
  <2> QED BY <2>1, <2>2
<1>4. FiniteOK'
  BY <1>3 DEF Back, FiniteOK, Due
<1>5. StagesOK'
  <2>1. \A d \in Range(dispatch') : d.x = x /\ d.left = l - 1 /\ l > 1
    <3>1. CASE l = 1
      BY <1>s, <3>1, SendingBecomes DEF Dispatched
    <3>2. CASE l # 1
      <4>1. l > 1
        BY <1>o, <3>2
      <4> QED BY <1>s, <4>1, SendingBecomes
    <3> QED BY <3>1, <3>2
  <2>2. l <= x.inst.n /\ x.inst.n \in Nat
    BY <1>o, Kinds DEF Back, StagesOK
  <2>3. \A b \in Held' : Same(b, x) => b.k > l - 1
    <3>1. \A b \in Held : Same(b, x) => b.k > l
      BY <1>o DEF Back, StagesOK
    <3>2. \A b \in Held' : b.k \in Nat
      BY <1>a, Kinds DEF Back, Acc
    <3>3. a.k > l - 1
      BY <1>a, <1>o
    <3> QED BY <1>o, <3>1, <3>2, <3>3
  <2>4. \A b \in Held' : \A y \in oc : ~Same(b, y)
    <3>1. SUFFICES ASSUME NEW y \in oc, Same(a, y)
                   PROVE  FALSE
      BY DEF Back, StagesOK
    <3>2. Same(x, y) /\ y \in Instr /\ y \in InFlight
      BY <1>a, <3>1, Kinds, IssuedBecomes DEF Back, Like, Same
    <3> QED BY <1>a, <1>o, <3>1, <3>2, Alike DEF Back
  <2>5. Sending' \subseteq Sending /\ Issued' \subseteq Issued
    BY <1>1, <1>o, <1>s
  <2>6. /\ \A y \in alu' : ~ToMemory(y.inst)
        /\ \A y \in oc' : ToMemory(y.inst)
        /\ \A y \in Range(smem') : y.inst.op = "shared" /\ y \notin oc' /\ y \notin Sending'
        /\ \A b \in SharedBack' : b.inst.op = "shared" /\ b \notin Issued' /\ b \in Instr
    BY <2>5 DEF Back, StagesOK
  <2>7. \A d \in Range(dispatch') :
          /\ ToMemory(d.x.inst) /\ d.x \notin oc'
          /\ d.left <= d.x.inst.n /\ (d.left = 0 => d.x.inst.n = 0)
          /\ \A b \in Held' : Same(b, d.x) => b.k > d.left
    BY <1>o, <2>1, <2>2, <2>3
  <2> QED BY <2>4, <2>6, <2>7 DEF StagesOK, Same
<1> QED BY <1>1, <1>2, <1>3, <1>4, <1>5

\* An access and its instruction are counted for the same warp and registers.
LEMMA CountedFor ==
  ASSUME NEW a \in Acc, NEW x \in Instr, Like(a, x)
  PROVE  \A v \in Warp : /\ a \in Mine(v, "atomic") <=> x \in Atomics(v)
                         /\ a \in Mine(v, "store") <=> a.w = v /\ IsStore(a)
                         /\ \A r \in Reg : a \in Into(v, r) <=> x \in Loading(v, r)
BY DEF Like, Same, Mine, Atomics, Into, Loading, IsLoad, IsStore

\* An access leaves the dispatch register and is not answered yet.
LEMMA BackSent ==
  ASSUME Flow, Back, dispatch # << >>, dispatch[1].left > 0, Sent(dispatch[1], pending),
         NEW a, a = Access(dispatch[1]), CountStore(a), Held' = Held \cup {a},
         held'["wb"] = held["wb"], SharedBack' = SharedBack,
         \A v \in Warp : Len(ibuffer[v]) \in Nat,
         UNCHANGED <<slots, pc, ibuffer, completed, done_exit, n_atomic, alu, oc, smem>>
  PROVE  Back'
<1> DEFINE x == dispatch[1].x
           l == dispatch[1].left
<1>a. /\ a \in Acc /\ a \notin Held /\ Like(a, x) /\ x \in Issued /\ x \in InFlight /\ a.inst = x.inst
      /\ IsLoad(a) \/ IsStore(a)
  BY AccessOf
<1>o. x \in Instr /\ l \in Nat /\ x.w \in Warp /\ a.w = x.w /\ x.inst \in Inst
  BY <1>a, SendingIs, Kinds DEF Back, Like, Same
<1>h. /\ IsFiniteSet(Held')
      /\ \A T : Cardinality(Held' \cap T) = Cardinality(Held \cap T) + IF a \in T THEN 1 ELSE 0
      /\ \A T : Cardinality(Unserved' \cap T) = Cardinality(Unserved \cap T) + IF a \in T THEN 1 ELSE 0
      /\ \A T : Cardinality(Held \cap T) \in Nat /\ Cardinality(Unserved \cap T) \in Nat
  BY <1>a, HeldGrows
<1>k. /\ Units' /\ StagesOK' /\ PipeCount' /\ FiniteOK' /\ in_pipe' \in [Warp -> Int]
      /\ Issued' = IF l = 1 THEN Issued \ {x} ELSE Issued
  BY <1>h, SentKeeps
<1>u. /\ \A T : UnsentIn(T)' = UnsentIn(T) - IF x \in T THEN 1 ELSE 0
      /\ pending' = pending
      /\ l > 1 => regs' = regs
      /\ l = 1 => Dispatched(x, pending)
  BY SentStep DEF Back
<1>n. \A T : UnsentIn(T) \in Nat /\ UnsentIn(T) = IF x \in T THEN l ELSE 0
  BY UnsentIs DEF Back
<1>t. \A v \in Warp : /\ a \in Mine(v, "atomic") <=> x \in Atomics(v)
                      /\ a \in Mine(v, "store") <=> a.w = v /\ IsStore(a)
                      /\ \A r \in Reg : a \in Into(v, r) <=> x \in Loading(v, r)
  BY <1>a, <1>o, CountedFor
<1>r. regs' = regs
  <2>1. CASE l > 1
    BY <1>u, <2>1
  <2>2. CASE ~(l > 1)
    <3>1. l = 1 /\ Dispatched(x, pending)
      BY <1>o, <1>u, <2>2
    <3>2. CASE ~IsLoad(x)
      BY <3>1, <3>2 DEF Dispatched
    <3>3. CASE IsLoad(x)
      <4>1. ASSUME NEW r \in Outs(x.inst), pending[x.w][r] = 0
            PROVE  FALSE
        <5>1. r \in Reg /\ x \in Loading(x.w, r)
          BY <1>o, <3>3, <4>1, Outputs DEF Loading
        <5>2. pending[x.w][r] = UnsentIn(Loading(x.w, r)) + Cardinality(Held \cap Into(x.w, r))
          BY <1>o, <5>1 DEF Back, Books, PendingOK
        <5>3. UnsentIn(Loading(x.w, r)) = 1
          BY <1>n, <3>1, <5>1
        <5>4. Cardinality(Held \cap Into(x.w, r)) \in Nat
          BY <1>h
        <5> QED BY <4>1, <5>2, <5>3, <5>4
      <4>2. Arrived(x, pending) = {}
        BY <4>1 DEF Arrived
      <4>3. regs' = [regs EXCEPT ![x.w] = @ \ {}]
        BY <3>1, <3>3, <4>2 DEF Dispatched
      <4> QED BY <4>3 DEF Back, Counts
    <3> QED BY <3>2, <3>3
  <2> QED BY <2>1, <2>2
<1>s. stores' \in [Warp -> Int] /\ StoreCount'
  <2>1. \A v \in Warp : stores'[v] = stores[v] + IF a.w = v /\ IsStore(a) THEN 1 ELSE 0
    BY DEF CountStore, Back, Counts
  <2>2. stores' \in [Warp -> Int]
    BY <1>o DEF CountStore, Back, Counts
  <2>3. StoreCount'
    <3> SUFFICES ASSUME NEW v \in Warp
                 PROVE  stores'[v] = Cardinality(Held' \cap Mine(v, "store"))
      BY DEF StoreCount
    <3>1. stores[v] = Cardinality(Held \cap Mine(v, "store"))
      BY DEF Back, Books, StoreCount
    <3> QED BY <1>h, <1>t, <2>1, <3>1
  <2> QED BY <2>2, <2>3
<1>c. Counts'
  BY <1>k, <1>r, <1>s, <1>u DEF Back, Counts
<1>4. AtomicCount'
  <2> SUFFICES ASSUME NEW v \in Warp
               PROVE  n_atomic[v] = Cardinality(Due(v)) + UnsentIn(Atomics(v))'
                                    + Cardinality(Unserved' \cap Mine(v, "atomic"))
    BY DEF AtomicCount, Due, UnsentIn
  <2>1. n_atomic[v] = Cardinality(Due(v)) + UnsentIn(Atomics(v)) + Cardinality(Unserved \cap Mine(v, "atomic"))
    BY DEF Back, Books, AtomicCount
  <2>2. Cardinality(Due(v)) \in Nat
    BY FS_CardinalityType DEF Back, FiniteOK
  <2>3. PICK d : d = IF x \in Atomics(v) THEN 1 ELSE 0
    OBVIOUS
  <2>4. UnsentIn(Atomics(v))' = UnsentIn(Atomics(v)) - d
    BY <1>u, <2>3
  <2>5. Cardinality(Unserved' \cap Mine(v, "atomic")) = Cardinality(Unserved \cap Mine(v, "atomic")) + d
    BY <1>h, <1>t, <2>3
  <2>6. PICK p, q, u, c : /\ p = UnsentIn(Atomics(v)) /\ q = Cardinality(Unserved \cap Mine(v, "atomic"))
                          /\ c = Cardinality(Due(v)) /\ u = n_atomic[v]
    OBVIOUS
  <2>7. p \in Nat /\ q \in Nat /\ d \in Nat /\ c \in Nat /\ u = c + p + q
    BY <1>h, <1>n, <2>1, <2>2, <2>3, <2>6
  <2>8. u = c + (p - d) + (q + d)
    BY <2>7
  <2> QED BY <2>4, <2>5, <2>6, <2>8
<1>5. PendingOK'
  <2> SUFFICES ASSUME NEW v \in Warp, NEW r \in Reg
               PROVE  pending[v][r] = UnsentIn(Loading(v, r))' + Cardinality(Held' \cap Into(v, r))
    BY <1>u DEF PendingOK
  <2>1. pending[v][r] = UnsentIn(Loading(v, r)) + Cardinality(Held \cap Into(v, r))
    BY DEF Back, Books, PendingOK
  <2>3. PICK d : d = IF x \in Loading(v, r) THEN 1 ELSE 0
    OBVIOUS
  <2>4. UnsentIn(Loading(v, r))' = UnsentIn(Loading(v, r)) - d
    BY <1>u, <2>3
  <2>5. Cardinality(Held' \cap Into(v, r)) = Cardinality(Held \cap Into(v, r)) + d
    BY <1>h, <1>t, <2>3
  <2>6. PICK p, q : p = UnsentIn(Loading(v, r)) /\ q = Cardinality(Held \cap Into(v, r))
    OBVIOUS
  <2>7. p \in Nat /\ q \in Nat /\ d \in Nat
    BY <1>h, <1>n, <2>3, <2>6
  <2>8. p + q = (p - d) + (q + d)
    BY <2>7
  <2> QED BY <2>1, <2>4, <2>5, <2>6, <2>8
<1>6. CurrentOK' /\ OneWriter' /\ HoldOK'
  <2>1. \A y : Like(y, y)
    BY DEF Like, Same
  <2>2. \A y \in InFlight' : \E z \in InFlight : Like(y, z)
    BY <1>a, <1>k, <2>1, IssuedBecomes
  <2>3. a \in InFlight' /\ \A y \in InFlight : y = x \/ y \in InFlight'
    BY <1>k, IssuedBecomes
  <2>4. \A y \in InFlight : \E z \in InFlight' : Like(z, y)
    BY <1>a, <2>1, <2>3
  <2> QED BY <1>r, <2>2, <2>4, LikeKeeps, HoldKeeps DEF Back, Books
<1> QED BY <1>c, <1>k, <1>s, <1>4, <1>5, <1>6 DEF Back, Books

\* One access less is pending.
LEMMA OneLessIs ==
  ASSUME Counts, NEW x, x.w \in Warp
  PROVE  /\ OneLess(x) \in [Warp -> [Reg -> Int]]
         /\ \A v \in Warp, r \in Reg :
              OneLess(x)[v][r] = pending[v][r] - IF v = x.w /\ r \in Outs(x.inst) THEN 1 ELSE 0
<1>1. pending \in [Warp -> [Reg -> Int]]
  BY DEF Counts
<1>2. PICK f : f = [r \in Reg |-> pending[x.w][r] - IF r \in Outs(x.inst) THEN 1 ELSE 0]
  OBVIOUS
<1>3. OneLess(x) = [pending EXCEPT ![x.w] = f]
  BY <1>1, <1>2 DEF OneLess
<1>4. \A r \in Reg : pending[x.w][r] \in Int
  BY <1>1
<1>5. f \in [Reg -> Int]
  BY <1>2, <1>4
<1>6. OneLess(x) \in [Warp -> [Reg -> Int]]
  BY <1>1, <1>3, <1>5
<1>7. ASSUME NEW v \in Warp, NEW r \in Reg
      PROVE  OneLess(x)[v][r] = pending[v][r] - IF v = x.w /\ r \in Outs(x.inst) THEN 1 ELSE 0
  <2>1. CASE v = x.w
    <3>1. OneLess(x)[v] = f
      BY <1>1, <1>3, <2>1
    <3> QED BY <1>2, <2>1, <3>1
  <2>2. CASE v # x.w
    <3>1. OneLess(x)[v] = pending[v] /\ pending[v][r] \in Int
      BY <1>1, <1>3, <2>2
    <3> QED BY <2>2, <3>1
  <2> QED BY <2>1, <2>2
<1> QED BY <1>6, <1>7

\* Registers are released.
LEMMA RegsRelease ==
  ASSUME Counts, NEW x, x.w \in Warp, NEW R, regs' = [regs EXCEPT ![x.w] = @ \ R]
  PROVE  /\ regs' \in [Warp -> SUBSET Reg]
         /\ \A v \in Warp, r \in Reg : r \in regs'[v] <=> r \in regs[v] /\ ~(v = x.w /\ r \in R)
BY DEF Counts

\* A load releases the registers for which no access is pending.
LEMMA ReleaseArrived ==
  ASSUME Counts, CurrentOK, OneWriter, HoldOK, PendingOK', NEW x \in InFlight, IsLoad(x), x.w \in Warp,
         Outs(x.inst) \subseteq Reg,
         regs' = [regs EXCEPT ![x.w] = @ \ Arrived(x, pending')],
         InFlight' \subseteq InFlight, \A y \in InFlight : Same(y, x) \/ y \in InFlight',
         IsFiniteSet(Held'), Held' \subseteq Acc,
         dispatch' # << >> => /\ dispatch'[1].x \in Issued' /\ dispatch'[1].x \in Instr
                              /\ dispatch'[1].left \in Nat,
         \A y \in Issued' \cup SharedBack' :
           Same(y, x) => dispatch' # << >> /\ y = dispatch'[1].x /\ dispatch'[1].left > 0
  PROVE  HoldOK'
<1>1. PICK R : R = Arrived(x, pending')
  OBVIOUS
<1>2. \A v \in Warp, r \in Reg : r \in regs'[v] <=> r \in regs[v] /\ ~(v = x.w /\ r \in R)
  BY <1>1, RegsRelease
<1>3. \A r \in Reg : pending'[x.w][r] = UnsentIn(Loading(x.w, r))' + Cardinality(Held' \cap Into(x.w, r))
  BY DEF PendingOK
<1>4. \A T : UnsentIn(T)' = IF dispatch' # << >> /\ dispatch'[1].x \in T THEN dispatch'[1].left ELSE 0
  BY DEF UnsentIn
<1>5. \A T : UnsentIn(T)' \in Nat
  BY <1>4
<1>6. \A T : /\ Cardinality(Held' \cap T) \in Nat
             /\ Cardinality(Held' \cap T) = 0 <=> \A a \in Held' : a \notin T
  BY CardNone
<1>7. ASSUME NEW r \in Reg
      PROVE  pending'[x.w][r] = 0 <=> /\ UnsentIn(Loading(x.w, r))' = 0
                                      /\ Cardinality(Held' \cap Into(x.w, r)) = 0
  <2>1. PICK m, n : m = UnsentIn(Loading(x.w, r))' /\ n = Cardinality(Held' \cap Into(x.w, r))
    OBVIOUS
  <2>2. m \in Nat /\ n \in Nat /\ pending'[x.w][r] = m + n
    BY <1>3, <1>5, <1>6, <2>1
  <2> QED BY <2>1, <2>2
<1>8. ASSUME NEW r \in R \cap Reg, NEW y \in InFlight', Writes(y, x.w, r)
      PROVE  FALSE
  <2>1. r \in Outs(x.inst) /\ pending'[x.w][r] = 0
    BY <1>1, <1>8 DEF Arrived
  <2>2. Writes(x, x.w, r) /\ y \in InFlight
    BY <2>1 DEF Writes
  <2>3. Same(y, x)
    BY <1>8, <2>2 DEF OneWriter, Same, Writes
  <2>4. y.inst = x.inst /\ y.w = x.w
    BY <2>2, <2>3, Alike DEF Like, Same
  <2>5. CASE y \in Held'
    <3>1. y \in Into(x.w, r)
      BY <2>1, <2>4, <2>5 DEF Into, IsLoad
    <3> QED BY <1>6, <1>7, <2>1, <2>5, <3>1
  <2>6. CASE y \in Issued' \cup SharedBack'
    <3>1. dispatch' # << >> /\ y = dispatch'[1].x /\ dispatch'[1].left > 0 /\ y \in Instr
      BY <2>3, <2>6
    <3>2. y \in Loading(x.w, r)
      BY <2>1, <2>4, <3>1 DEF Loading, IsLoad
    <3>3. UnsentIn(Loading(x.w, r))' # 0
      BY <1>4, <3>1, <3>2
    <3> QED BY <1>7, <2>1, <3>3
  <2> QED BY <2>5, <2>6, IssuedBecomes
<1>9. ASSUME NEW r \in Outs(x.inst) \ R
      PROVE  \E y \in InFlight' : Writes(y, x.w, r)
  <2>1. pending'[x.w][r] # 0 /\ r \in Reg
    BY <1>1 DEF Arrived
  <2>2. CASE UnsentIn(Loading(x.w, r))' # 0
    <3>1. dispatch' # << >> /\ dispatch'[1].x \in Loading(x.w, r)
      BY <1>4, <2>2
    <3>2. dispatch'[1].x \in InFlight' /\ Writes(dispatch'[1].x, x.w, r)
      BY <3>1, IssuedBecomes DEF Loading, Writes
    <3> QED BY <3>2
  <2>3. CASE Cardinality(Held' \cap Into(x.w, r)) # 0
    <3>1. PICK y \in Held' : y \in Into(x.w, r)
      BY <1>6, <2>3
    <3>2. y \in InFlight' /\ Writes(y, x.w, r)
      BY <3>1, IssuedBecomes DEF Into, Writes
    <3> QED BY <3>2
  <2> QED BY <1>7, <2>1, <2>2, <2>3
<1>10. \A y \in InFlight' : \E z \in InFlight : Like(y, z)
  BY DEF Like, Same
<1>11. \A r \in R \cap Reg : \A y \in InFlight' : ~Writes(y, x.w, r)
  BY <1>8
<1>12. \A r \in Outs(x.inst) \ R : \E y \in InFlight' : Writes(y, x.w, r)
  BY <1>9
<1> QED BY <1>2, <1>10, <1>11, <1>12, Released

\* The L1D cache hits, or keeps the data of a store.
LEMMA BackHit ==
  ASSUME Flow, Back, dispatch # << >>, dispatch[1].left > 0, NEW a, a = Access(dispatch[1]),
         dispatch[1].x.inst.op # "atomic",
         Sent(dispatch[1], IF IsLoad(a) THEN OneLess(a) ELSE pending),
         Held' = Held, Unserved' = Unserved, SharedBack' = SharedBack,
         \A v \in Warp : Len(ibuffer[v]) \in Nat,
         UNCHANGED <<slots, pc, ibuffer, completed, done_exit, n_atomic, stores, alu, oc, smem>>
  PROVE  Back'
<1> DEFINE x == dispatch[1].x
           l == dispatch[1].left
           pend == IF IsLoad(a) THEN OneLess(a) ELSE pending
<1>a. /\ a \in Acc /\ a \notin Held /\ Like(a, x) /\ x \in Issued /\ x \in InFlight /\ a.inst = x.inst
      /\ IsLoad(a) \/ IsStore(a)
  BY AccessOf
<1>o. /\ x \in Instr /\ l \in Nat /\ x.w \in Warp /\ a.w = x.w /\ x.inst \in Inst
      /\ Outs(x.inst) \subseteq Reg
  BY <1>a, SendingIs, Kinds, Outputs DEF Back, Like, Same
<1>h. IsFiniteSet(Held') /\ Held' \subseteq Held \cup {a}
  BY DEF Back, FiniteOK
<1>p. PICK p : p = pend
  OBVIOUS
<1>q. Sent(dispatch[1], p)
  BY <1>p
<1>k. /\ Units' /\ StagesOK' /\ PipeCount' /\ FiniteOK' /\ in_pipe' \in [Warp -> Int]
      /\ Issued' = IF l = 1 THEN Issued \ {x} ELSE Issued
  BY <1>h, <1>q, SentKeeps
<1>u. /\ \A T : UnsentIn(T)' = UnsentIn(T) - IF x \in T THEN 1 ELSE 0
      /\ pending' = p
      /\ l > 1 => regs' = regs
      /\ l = 1 => Dispatched(x, p) /\ dispatch' = << >>
  BY <1>q, SentStep DEF Back, Dispatched
<1>n. \A T : UnsentIn(T) \in Nat
  BY UnsentIs DEF Back
<1>w. /\ p \in [Warp -> [Reg -> Int]]
      /\ \A v \in Warp, r \in Reg :
           p[v][r] = pending[v][r] - IF IsLoad(a) /\ v = x.w /\ r \in Outs(x.inst) THEN 1 ELSE 0
  <2>1. CASE IsLoad(a)
    <3>1. /\ OneLess(a) \in [Warp -> [Reg -> Int]]
          /\ \A v \in Warp, r \in Reg :
               OneLess(a)[v][r] = pending[v][r] - IF v = a.w /\ r \in Outs(a.inst) THEN 1 ELSE 0
      BY <1>o, OneLessIs DEF Back
    <3> QED BY <1>a, <1>o, <1>p, <2>1, <3>1
  <2>2. CASE ~IsLoad(a)
    <3>1. p = pending /\ pending \in [Warp -> [Reg -> Int]]
      BY <1>p, <2>2 DEF Back, Counts
    <3> QED BY <2>2, <3>1
  <2> QED BY <2>1, <2>2
<1>4. AtomicCount'
  <2>1. \A v \in Warp : x \notin Atomics(v)
    BY DEF Atomics
  <2>2. \A v \in Warp : UnsentIn(Atomics(v))' = UnsentIn(Atomics(v))
    BY <1>n, <1>u, <2>1
  <2> QED BY <2>2 DEF Back, Books, AtomicCount, Due
<1>5. PendingOK'
  <2> SUFFICES ASSUME NEW v \in Warp, NEW r \in Reg
               PROVE  p[v][r] = UnsentIn(Loading(v, r))' + Cardinality(Held \cap Into(v, r))
    BY <1>u DEF PendingOK
  <2>1. pending[v][r] = UnsentIn(Loading(v, r)) + Cardinality(Held \cap Into(v, r))
    BY DEF Back, Books, PendingOK
  <2>2. x \in Loading(v, r) <=> IsLoad(a) /\ v = x.w /\ r \in Outs(x.inst)
    BY <1>a, <1>o DEF Loading, IsLoad
  <2>3. PICK d : d = IF x \in Loading(v, r) THEN 1 ELSE 0
    OBVIOUS
  <2>4. UnsentIn(Loading(v, r))' = UnsentIn(Loading(v, r)) - d
    BY <1>u, <2>3
  <2>5. p[v][r] = pending[v][r] - d
    BY <1>w, <2>2, <2>3
  <2>6. PICK s, c : s = UnsentIn(Loading(v, r)) /\ c = Cardinality(Held \cap Into(v, r))
    OBVIOUS
  <2>7. s \in Nat /\ c \in Nat /\ d \in Nat
    BY <1>n, <2>3, <2>6, CardNone DEF Back, FiniteOK
  <2>8. (s + c) - d = (s - d) + c
    BY <2>7
  <2> QED BY <2>1, <2>4, <2>5, <2>6, <2>8
<1>6. regs' \in [Warp -> SUBSET Reg] /\ HoldOK'
  <2>l. \A y : Like(y, y) /\ Same(y, y)
    BY DEF Like, Same
  <2>i. InFlight' \subseteq InFlight /\ \A y \in InFlight : y = x \/ y \in InFlight'
    BY <1>k, IssuedBecomes
  <2>1. CASE l > 1
    <3>1. InFlight' = InFlight /\ regs' = regs
      BY <1>k, <1>u, <2>1, IssuedBecomes
    <3> QED BY <2>l, <3>1, HoldKeeps DEF Back, Books, Counts
  <2>2. CASE ~(l > 1) /\ ~IsLoad(x)
    <3>1. regs' = regs
      BY <1>o, <1>u, <2>2 DEF Dispatched
    <3>2. Outs(x.inst) = {}
      BY <1>a, <1>o, <2>2, Outputs DEF IsLoad, IsStore
    <3> QED BY <2>i, <2>l, <3>1, <3>2, HoldKeeps DEF Back, Books, Counts
  <2>3. CASE ~(l > 1) /\ IsLoad(x)
    <3>1. l = 1
      BY <1>o, <2>3
    <3>2. regs' = [regs EXCEPT ![x.w] = @ \ Arrived(x, pending')] /\ dispatch' = << >>
      BY <1>u, <2>3, <3>1 DEF Dispatched
    <3>3. ASSUME NEW y \in Issued' \cup SharedBack', Same(y, x)
          PROVE  FALSE
      <4>1. y \in InFlight /\ y \in Instr
        BY <1>k, Kinds, IssuedBecomes DEF Back
      <4>2. y = x
        BY <1>a, <1>o, <3>3, <4>1, Alike DEF Back
      <4>3. y \in SharedBack
        BY <1>k, <3>1, <4>2
      <4>4. y.inst.op = "shared"
        BY <4>3, Kinds DEF Back
      <4> QED BY <2>3, <4>2, <4>4 DEF IsLoad
    <3>4. Held' \subseteq Acc /\ IsFiniteSet(Held')
      BY <1>h, Kinds DEF Back
    <3>5. regs' \in [Warp -> SUBSET Reg]
      BY <1>o, <3>2, RegsRelease DEF Back
    <3>6. HoldOK'
      BY <1>5, <1>a, <1>o, <2>3, <2>i, <2>l, <3>2, <3>3, <3>4, ReleaseArrived DEF Back, Books
    <3> QED BY <3>5, <3>6
  <2> QED BY <2>1, <2>2, <2>3
<1>7. CurrentOK' /\ OneWriter'
  <2>1. \A y : Like(y, y)
    BY DEF Like, Same
  <2>2. \A y \in InFlight' : \E z \in InFlight : Like(y, z)
    BY <1>k, <2>1, IssuedBecomes
  <2> QED BY <2>2, LikeKeeps DEF Back, Books
<1>8. Counts' /\ StoreCount'
  BY <1>6, <1>k, <1>u, <1>w DEF Back, Books, Counts, StoreCount
<1> QED BY <1>k, <1>4, <1>5, <1>6, <1>7, <1>8 DEF Back, Books

-------------------------------------------------------------------------------
(* Answers. *)

\* An access of a load is answered.
LEMMA BackDone ==
  ASSUME Flow, Back, NEW a \in Held, IsLoad(a), Held' = Held \ {a}, SharedBack' = SharedBack,
         \A v \in Warp : Unserved' \cap Mine(v, "atomic") = Unserved \cap Mine(v, "atomic"),
         AccessDone(a),
         UNCHANGED <<slots, pc, ibuffer, completed, done_exit, n_atomic, stores, in_pipe, units>>
  PROVE  Back'
<1>1. /\ alu' = alu /\ oc' = oc /\ dispatch' = dispatch /\ smem' = smem
      /\ ibuffer' = ibuffer /\ n_atomic' = n_atomic /\ stores' = stores /\ in_pipe' = in_pipe
      /\ pending' = OneLess(a) /\ regs' = [regs EXCEPT ![a.w] = @ \ Arrived(a, OneLess(a))]
  BY DEF units, AccessDone
<1>2. Issued' = Issued /\ InFlight' \subseteq InFlight /\ \A y \in InFlight : y = a \/ y \in InFlight'
  BY <1>1, IssuedBecomes DEF Issued
<1>a. /\ a \in Acc /\ a.inst \in Inst /\ a.w \in Warp /\ Outs(a.inst) \subseteq Reg /\ a \in InFlight
      /\ a.k \in 1 .. a.inst.n /\ a.inst.n \in Nat
  BY Kinds, Outputs, IssuedBecomes DEF Back
<1>h. /\ IsFiniteSet(Held')
      /\ \A T : Cardinality(Held' \cap T) = Cardinality(Held \cap T) - IF a \in T THEN 1 ELSE 0
      /\ \A T : Cardinality(Held \cap T) \in Nat
  BY HeldShrinks
<1>3. Units' /\ FiniteOK'
  BY <1>1, <1>2, <1>h DEF Back, Units, FiniteOK, Due
<1>w. /\ pending' \in [Warp -> [Reg -> Int]]
      /\ \A v \in Warp, r \in Reg :
           pending'[v][r] = pending[v][r] - IF v = a.w /\ r \in Outs(a.inst) THEN 1 ELSE 0
  BY <1>1, <1>a, OneLessIs DEF Back
<1>c. Counts'
  <2>1. regs' \in [Warp -> SUBSET Reg]
    BY <1>1, <1>a, RegsRelease DEF Back
  <2> QED BY <1>1, <1>w, <2>1 DEF Back, Counts
<1>4. PendingOK'
  <2> SUFFICES ASSUME NEW v \in Warp, NEW r \in Reg
               PROVE  pending'[v][r] = UnsentIn(Loading(v, r)) + Cardinality(Held' \cap Into(v, r))
    BY <1>1 DEF PendingOK, UnsentIn
  <2>1. pending[v][r] = UnsentIn(Loading(v, r)) + Cardinality(Held \cap Into(v, r))
    BY DEF Back, Books, PendingOK
  <2>2. a \in Into(v, r) <=> v = a.w /\ r \in Outs(a.inst)
    BY <1>a DEF Into
  <2>3. PICK d : d = IF a \in Into(v, r) THEN 1 ELSE 0
    OBVIOUS
  <2>4. Cardinality(Held' \cap Into(v, r)) = Cardinality(Held \cap Into(v, r)) - d
    BY <1>h, <2>3
  <2>5. pending'[v][r] = pending[v][r] - d
    BY <1>w, <2>2, <2>3
  <2>6. PICK s, c : s = UnsentIn(Loading(v, r)) /\ c = Cardinality(Held \cap Into(v, r))
    OBVIOUS
  <2>7. s \in Nat /\ c \in Nat /\ d \in Nat
    BY <1>h, <2>3, <2>6, UnsentIs DEF Back
  <2>8. (s + c) - d = s + (c - d)
    BY <2>7
  <2> QED BY <2>1, <2>4, <2>5, <2>6, <2>8
<1>5. HoldOK'
  <2>l. \A y : Same(y, y)
    BY DEF Same
  <2>1. dispatch' # << >> => /\ dispatch'[1].x \in Issued' /\ dispatch'[1].x \in Instr
                             /\ dispatch'[1].left \in Nat
    BY <1>1, <1>2, SendingIs, IssuedBecomes DEF Back
  <2>2. ASSUME NEW y \in Issued \cup SharedBack, Same(y, a)
        PROVE  dispatch # << >> /\ y = dispatch[1].x /\ dispatch[1].left > 0
    <3>1. y \in InFlight /\ Same(a, y)
      BY <2>2, IssuedBecomes DEF Same
    <3>2. y.inst = a.inst /\ ToMemory(y.inst) /\ y.inst.op # "shared"
      <4>1. y.inst = a.inst
        BY <1>a, <2>2, <3>1, Alike DEF Back, Like
      <4> QED BY <4>1 DEF IsLoad, ToMemory
    <3>3. y \notin alu /\ y \notin oc /\ y \notin Range(smem) /\ y \notin SharedBack
      BY <3>1, <3>2 DEF Back, StagesOK
    <3>4. y \in Sending
      BY <2>2, <3>3, IssuedBecomes
    <3>5. dispatch # << >> /\ y = dispatch[1].x /\ dispatch[1].left \in Nat /\ dispatch[1] \in Range(dispatch)
      BY <3>4, SendingIs DEF Back
    <3>6. dispatch[1].left = 0 => y.inst.n = 0
      BY <3>5 DEF Back, StagesOK
    <3> QED BY <1>a, <3>2, <3>5, <3>6
  <2>3. Held' \subseteq Acc
    BY Kinds DEF Back
  <2>4. \A y \in Issued' \cup SharedBack' :
           Same(y, a) => dispatch' # << >> /\ y = dispatch'[1].x /\ dispatch'[1].left > 0
    BY <1>1, <1>2, <2>2
  <2>5. regs' = [regs EXCEPT ![a.w] = @ \ Arrived(a, pending')]
    BY <1>1
  <2>6. \A y \in InFlight : Same(y, a) \/ y \in InFlight'
    BY <1>2, <2>l
  <2> QED BY <1>2, <1>4, <1>a, <1>h, <2>1, <2>3, <2>4, <2>5, <2>6, ReleaseArrived DEF Back, Books
<1>6. CurrentOK' /\ OneWriter'
  <2>1. \A y : Like(y, y)
    BY DEF Like, Same
  <2>2. \A y \in InFlight' : \E z \in InFlight : Like(y, z)
    BY <1>2, <2>1
  <2> QED BY <2>2, LikeKeeps DEF Back, Books
<1>7. StagesOK'
  <2>1. Sending' = Sending
    BY <1>1 DEF Sending
  <2> QED BY <1>1, <1>2, <2>1 DEF Back, StagesOK, Same
<1>8. StoreCount'
  <2>1. \A v \in Warp : a \notin Mine(v, "store")
    BY DEF Mine, IsLoad
  <2>2. \A v \in Warp : Held' \cap Mine(v, "store") = Held \cap Mine(v, "store")
    BY <2>1
  <2> QED BY <1>1, <2>2 DEF Back, Books, StoreCount
<1>9. AtomicCount' /\ PipeCount'
  BY <1>1, <1>2 DEF Back, Books, AtomicCount, PipeCount, Due, UnsentIn
<1> QED BY <1>3, <1>4, <1>5, <1>6, <1>7, <1>8, <1>9, <1>c DEF Back, Books

\* A store is acknowledged.
LEMMA BackStoreAck ==
  ASSUME Flow, Back, NEW a \in Held, IsStore(a), Held' = Held \ {a}, SharedBack' = SharedBack,
         \A v \in Warp : Unserved' \cap Mine(v, "atomic") = Unserved \cap Mine(v, "atomic"),
         StoreAck(a),
         UNCHANGED <<slots, pc, ibuffer, completed, done_exit, n_atomic, in_pipe, board, units>>
  PROVE  Back'
<1>1. /\ alu' = alu /\ oc' = oc /\ dispatch' = dispatch /\ smem' = smem
      /\ ibuffer' = ibuffer /\ n_atomic' = n_atomic /\ in_pipe' = in_pipe
      /\ pending' = pending /\ regs' = regs /\ stores' = [stores EXCEPT ![a.w] = @ - 1]
  BY DEF units, board, StoreAck
<1>2. Issued' = Issued /\ InFlight' \subseteq InFlight /\ \A y \in InFlight : y = a \/ y \in InFlight'
  BY <1>1, IssuedBecomes DEF Issued
<1>a. a \in Acc /\ a.inst \in Inst /\ a.w \in Warp /\ a \in InFlight /\ Outs(a.inst) = {}
  BY Kinds, Outputs, IssuedBecomes DEF Back, IsStore
<1>h. /\ IsFiniteSet(Held')
      /\ \A T : Cardinality(Held' \cap T) = Cardinality(Held \cap T) - IF a \in T THEN 1 ELSE 0
  BY HeldShrinks
<1>3. Units' /\ FiniteOK'
  BY <1>1, <1>2, <1>h DEF Back, Units, FiniteOK, Due
<1>s. /\ stores' \in [Warp -> Int]
      /\ \A v \in Warp : stores'[v] = stores[v] - IF v = a.w THEN 1 ELSE 0
  <2>1. stores[a.w] - 1 \in Int
    BY <1>a DEF Back, Counts
  <2> QED BY <1>1, <1>a, <2>1 DEF Back, Counts
<1>c. Counts'
  BY <1>1, <1>s DEF Back, Counts
<1>l. \A y : Like(y, y)
  BY DEF Like, Same
<1>4. \A y \in InFlight' : \E z \in InFlight : Like(y, z)
  BY <1>2, <1>l
<1>5. CurrentOK' /\ OneWriter'
  BY <1>4, LikeKeeps DEF Back, Books
<1>6. HoldOK'
  BY <1>1, <1>2, <1>4, <1>a, <1>l, HoldKeeps DEF Back, Books
<1>7. StagesOK'
  <2>1. Sending' = Sending
    BY <1>1 DEF Sending
  <2> QED BY <1>1, <1>2, <2>1 DEF Back, StagesOK, Same
<1>8. StoreCount'
  <2> SUFFICES ASSUME NEW v \in Warp
               PROVE  stores'[v] = Cardinality(Held' \cap Mine(v, "store"))
    BY DEF StoreCount
  <2>1. stores[v] = Cardinality(Held \cap Mine(v, "store"))
    BY DEF Back, Books, StoreCount
  <2>2. a \in Mine(v, "store") <=> v = a.w
    BY <1>a DEF Mine, IsStore
  <2> QED BY <1>h, <1>s, <2>1, <2>2
<1>9. AtomicCount' /\ PipeCount'
  BY <1>1, <1>2 DEF Back, Books, AtomicCount, PipeCount, Due, UnsentIn
<1>10. PendingOK'
  <2>1. \A v \in Warp, r \in Reg : a \notin Into(v, r)
    BY <1>a DEF Into
  <2>2. \A v \in Warp, r \in Reg : Held' \cap Into(v, r) = Held \cap Into(v, r)
    BY <2>1
  <2> QED BY <1>1, <2>2 DEF Back, Books, PendingOK, UnsentIn
<1> QED BY <1>3, <1>5, <1>6, <1>7, <1>8, <1>9, <1>10, <1>c DEF Back, Books

\* The answer to what went past the L1D cache is served: an atomic counts no more.
LEMMA BackServed ==
  ASSUME Flow, Back, NEW a \in Unserved, Unserved' = Unserved \ {a}, Held' = Held,
         SharedBack' = SharedBack,
         n_atomic' = IF a.inst.op = "atomic" THEN [n_atomic EXCEPT ![a.w] = @ - 1] ELSE n_atomic,
         UNCHANGED <<slots, pc, ibuffer, completed, done_exit, stores, in_pipe, board, units>>
  PROVE  Back'
<1>1. /\ alu' = alu /\ oc' = oc /\ dispatch' = dispatch /\ smem' = smem
      /\ ibuffer' = ibuffer /\ stores' = stores /\ in_pipe' = in_pipe
      /\ pending' = pending /\ regs' = regs
  BY DEF units, board
<1>2. Issued' = Issued /\ InFlight' = InFlight
  BY <1>1 DEF Issued, InFlight
<1>a. a \in Acc /\ a.inst \in Inst /\ a.w \in Warp
  BY Kinds, UnservedBecomes DEF Back
<1>h. \A T : /\ Cardinality(Unserved' \cap T) = Cardinality(Unserved \cap T) - IF a \in T THEN 1 ELSE 0
             /\ Cardinality(Unserved \cap T) \in Nat
  BY UnservedShrinks
<1>3. Units' /\ FiniteOK'
  BY <1>1, <1>2 DEF Back, Units, FiniteOK, Due
<1>s. /\ n_atomic' \in [Warp -> Int]
      /\ \A v \in Warp : n_atomic'[v] = n_atomic[v] - IF v = a.w /\ a.inst.op = "atomic" THEN 1 ELSE 0
  <2>1. n_atomic[a.w] - 1 \in Int
    BY <1>a DEF Back, Counts
  <2>2. CASE a.inst.op = "atomic"
    BY <1>a, <2>1, <2>2 DEF Back, Counts
  <2>3. CASE a.inst.op # "atomic"
    BY <2>3 DEF Back, Counts
  <2> QED BY <2>2, <2>3
<1>c. Counts'
  BY <1>1, <1>s DEF Back, Counts
<1>l. \A y : Like(y, y)
  BY DEF Like, Same
<1>5. CurrentOK' /\ OneWriter'
  BY <1>2, <1>l, LikeKeeps DEF Back, Books
<1>6. HoldOK'
  BY <1>1, <1>2, <1>l, HoldKeeps DEF Back, Books
<1>7. StagesOK'
  <2>1. Sending' = Sending
    BY <1>1 DEF Sending
  <2> QED BY <1>1, <1>2, <2>1 DEF Back, StagesOK, Same
<1>8. StoreCount' /\ PipeCount' /\ PendingOK'
  BY <1>1, <1>2 DEF Back, Books, StoreCount, PipeCount, PendingOK, UnsentIn
<1>9. AtomicCount'
  <2> SUFFICES ASSUME NEW v \in Warp
               PROVE  n_atomic'[v] = Cardinality(Due(v)) + UnsentIn(Atomics(v))
                                     + Cardinality(Unserved' \cap Mine(v, "atomic"))
    BY <1>1 DEF AtomicCount, Due, UnsentIn
  <2>1. n_atomic[v] = Cardinality(Due(v)) + UnsentIn(Atomics(v)) + Cardinality(Unserved \cap Mine(v, "atomic"))
    BY DEF Back, Books, AtomicCount
  <2>2. a \in Mine(v, "atomic") <=> v = a.w /\ a.inst.op = "atomic"
    BY <1>a DEF Mine
  <2>3. PICK d : d = IF a \in Mine(v, "atomic") THEN 1 ELSE 0
    OBVIOUS
  <2>4. Cardinality(Unserved' \cap Mine(v, "atomic")) = Cardinality(Unserved \cap Mine(v, "atomic")) - d
    BY <1>h, <2>3
  <2>5. n_atomic'[v] = n_atomic[v] - d
    BY <1>s, <2>2, <2>3
  <2>6. PICK c, u, q : /\ c = Cardinality(Due(v)) /\ u = UnsentIn(Atomics(v))
                       /\ q = Cardinality(Unserved \cap Mine(v, "atomic"))
    OBVIOUS
  <2>7. c \in Nat /\ u \in Nat /\ q \in Nat /\ d \in Nat
    BY <1>h, <2>3, <2>6, UnsentIs, FS_CardinalityType DEF Back, FiniteOK
  <2>8. (c + u + q) - d = c + u + (q - d)
    BY <2>7
  <2> QED BY <2>1, <2>4, <2>5, <2>6, <2>8
<1> QED BY <1>3, <1>5, <1>6, <1>7, <1>8, <1>9, <1>c DEF Back, Books

\* An instruction that has no access ends in the units.
LEMMA BackEnds ==
  ASSUME Flow, Back, NEW x \in Issued, Issued' = Issued \ {x}, Units', alu' \subseteq alu,
         dispatch' = dispatch \/ dispatch' = << >>, \A T : UnsentIn(T)' = UnsentIn(T),
         \A y \in Held \cup SharedBack : ~Same(y, x),
         Held' = Held, Unserved' = Unserved, SharedBack' = SharedBack,
         \A v \in Warp : Len(ibuffer[v]) \in Nat,
         in_pipe' = [in_pipe EXCEPT ![x.w] = @ - 1],
         regs' = [regs EXCEPT ![x.w] = @ \ Outs(x.inst)],
         UNCHANGED <<slots, pc, ibuffer, completed, done_exit, n_atomic, stores, pending, oc, smem>>
  PROVE  Back'
<1>a. x \in Instr /\ x.w \in Warp /\ x.inst \in Inst /\ x \in InFlight
  BY Kinds, IssuedBecomes DEF Back
<1>1. in_pipe' \in [Warp -> Int] /\ PipeCount' /\ IsFiniteSet(Issued')
  BY <1>a, LeavesUnits
<1>2. InFlight' \subseteq InFlight /\ \A y \in InFlight : y = x \/ y \in InFlight'
  BY IssuedBecomes
<1>3. FiniteOK'
  BY <1>1 DEF Back, FiniteOK, Due
<1>r. /\ regs' \in [Warp -> SUBSET Reg]
      /\ \A v \in Warp, r \in Reg : r \in regs'[v] <=> r \in regs[v] /\ ~(v = x.w /\ r \in Outs(x.inst))
  BY <1>a, RegsRelease DEF Back
<1>c. Counts'
  BY <1>1, <1>r DEF Back, Counts
<1>l. \A y : Like(y, y) /\ Same(y, y)
  BY DEF Like, Same
<1>4. \A y \in InFlight' : \E z \in InFlight : Like(y, z)
  BY <1>2, <1>l
<1>5. CurrentOK' /\ OneWriter'
  BY <1>4, LikeKeeps DEF Back, Books
<1>6. HoldOK'
  <2>1. ASSUME NEW r \in Outs(x.inst) \cap Reg, NEW y \in InFlight', Writes(y, x.w, r)
        PROVE  FALSE
    <3>1. y \in InFlight /\ Writes(x, x.w, r)
      BY <1>2, <2>1 DEF Writes
    <3>2. Same(y, x)
      BY <1>a, <2>1, <3>1 DEF Back, Books, OneWriter, Same, Writes
    <3>3. y \in Issued'
      BY <3>2, IssuedBecomes
    <3>4. y \in Instr
      BY <3>3, Kinds DEF Back
    <3>5. y = x
      BY <1>a, <3>1, <3>2, <3>4, Alike DEF Back
    <3> QED BY <3>3, <3>5
  <2>2. \A r \in Outs(x.inst) \ Outs(x.inst) : \E y \in InFlight' : Writes(y, x.w, r)
    OBVIOUS
  <2>3. PICK R : R = Outs(x.inst)
    OBVIOUS
  <2>4. \A r \in R \cap Reg : \A y \in InFlight' : ~Writes(y, x.w, r)
    BY <2>1, <2>3
  <2>5. \A r \in Outs(x.inst) \ R : \E y \in InFlight' : Writes(y, x.w, r)
    BY <2>3
  <2>6. \A v \in Warp, r \in Reg : r \in regs'[v] <=> r \in regs[v] /\ ~(v = x.w /\ r \in R)
    BY <1>r, <2>3
  <2>7. \A y \in InFlight : Same(y, x) \/ y \in InFlight'
    BY <1>2, <1>l
  <2> QED BY <1>4, <1>a, <2>4, <2>5, <2>6, <2>7, Released DEF Back, Books
<1>7. StagesOK'
  <2>1. Sending' \subseteq Sending /\ Range(dispatch') \subseteq Range(dispatch)
    BY SendingBecomes DEF Sending
  <2>2. /\ \A y \in alu' : ~ToMemory(y.inst)
        /\ \A y \in oc' : ToMemory(y.inst)
        /\ \A d \in Range(dispatch') :
             /\ ToMemory(d.x.inst) /\ d.x \notin oc'
             /\ d.left <= d.x.inst.n /\ (d.left = 0 => d.x.inst.n = 0)
             /\ \A a \in Held' : Same(a, d.x) => a.k > d.left
    BY <2>1 DEF Back, StagesOK
  <2>3. /\ \A y \in Range(smem') : y.inst.op = "shared" /\ y \notin oc' /\ y \notin Sending'
        /\ \A a \in Held' : \A y \in oc' : ~Same(a, y)
        /\ \A a \in SharedBack' : a.inst.op = "shared" /\ a \notin Issued' /\ a \in Instr
    BY <2>1 DEF Back, StagesOK
  <2> QED BY <2>2, <2>3 DEF StagesOK, Same
<1>8. StoreCount'
  BY DEF Back, Books, StoreCount
<1>9. AtomicCount'
  BY DEF Back, Books, AtomicCount, Due
<1>10. PendingOK'
  BY DEF Back, Books, PendingOK
<1> QED BY <1>1, <1>3, <1>5, <1>6, <1>7, <1>8, <1>9, <1>10, <1>c DEF Back, Books

LEMMA BackAlu ==
  ASSUME Flow, Back, NEW x \in alu, AluWriteback(x), Held' = Held, Unserved' = Unserved,
         SharedBack' = SharedBack, \A v \in Warp : Len(ibuffer[v]) \in Nat
  PROVE  Back'
<1>1. /\ alu' = alu \ {x} /\ oc' = oc /\ dispatch' = dispatch /\ smem' = smem /\ ibuffer' = ibuffer
      /\ n_atomic' = n_atomic /\ stores' = stores /\ pending' = pending
      /\ UNCHANGED <<slots, pc, completed, done_exit>>
      /\ in_pipe' = [in_pipe EXCEPT ![x.w] = @ - 1]
      /\ regs' = [regs EXCEPT ![x.w] = @ \ Outs(x.inst)]
  BY DEF AluWriteback, front
<1>2. x \in Issued /\ x \in Instr /\ ~ToMemory(x.inst) /\ Sending' = Sending /\ x \in InFlight
  BY <1>1, IssuedBecomes DEF Sending, Back, StagesOK, Units
<1>3. \A y \in oc \cup Sending \cup Range(smem) : ToMemory(y.inst)
  <2>1. \A y \in oc \cup Range(smem) : ToMemory(y.inst)
    BY DEF Back, StagesOK, ToMemory
  <2>2. \A y \in Sending : ToMemory(y.inst)
    BY DEF Back, StagesOK, Sending
  <2> QED BY <2>1, <2>2
<1>4. Issued' = Issued \ {x}
  BY <1>1, <1>2, <1>3, IssuedBecomes
<1>5. Units'
  BY <1>1 DEF Back, Units
<1>6. ASSUME NEW y \in Held \cup SharedBack, Same(y, x)
      PROVE  FALSE
  <2>1. y \in InFlight
    BY IssuedBecomes
  <2>2. y.inst = x.inst
    BY <1>2, <1>6, <2>1, Alike DEF Back, Like
  <2>3. ToMemory(y.inst)
    BY Kinds DEF Back, ToMemory, IsLoad, IsStore
  <2> QED BY <1>2, <2>2, <2>3
<1>7. \A T : UnsentIn(T)' = UnsentIn(T)
  BY <1>1 DEF UnsentIn
<1> QED BY <1>1, <1>2, <1>4, <1>5, <1>6, <1>7, BackEnds

\* An instruction that sends nothing.
LEMMA BackNothing ==
  ASSUME Flow, Back, NothingToSend, Held' = Held, Unserved' = Unserved,
         SharedBack' = SharedBack, \A v \in Warp : Len(ibuffer[v]) \in Nat
  PROVE  Back'
<1> DEFINE x == dispatch[1].x
<1>1. /\ dispatch # << >> /\ dispatch[1].left = 0 /\ dispatch' = << >>
      /\ alu' = alu /\ oc' = oc /\ ibuffer' = ibuffer
      /\ n_atomic' = n_atomic /\ stores' = stores /\ pending' = pending
      /\ UNCHANGED <<slots, pc, completed, done_exit>>
  BY DEF NothingToSend, front, Dispatched
<1>2. /\ Sending = {x} /\ x \in Instr /\ ToMemory(x.inst) /\ x \in Issued /\ x \in InFlight
      /\ x \notin alu /\ x \notin oc /\ x \notin Range(smem) /\ Sending' = {} /\ Range(dispatch') = {}
  BY <1>1, OnlyThere, SendingBecomes, IssuedBecomes
<1>3. x.inst \in Inst /\ x.w \in Warp /\ Outs(x.inst) \subseteq Reg /\ x.inst.n = 0
  BY <1>1, <1>2, Kinds, Outputs, SendingIs DEF Back, StagesOK
<1>4. \A T : UnsentIn(T)' = UnsentIn(T) /\ UnsentIn(T) = 0
  BY <1>1, UnsentIs, UnsentBecomes DEF Back
<1>5. \A y \in Held : ~Same(y, x)
  <2> SUFFICES ASSUME NEW y \in Held, Same(y, x)
               PROVE  FALSE
    OBVIOUS
  <2>1. y.inst = x.inst /\ y.k \in 1 .. y.inst.n
    BY <1>2, Kinds, Alike, IssuedBecomes DEF Back, Like
  <2> QED BY <1>3, <2>1
<1>6. CASE x.inst.op # "shared" /\ Dispatched(x, pending) /\ smem' = smem
  <2>1. Issued' = Issued \ {x}
    BY <1>1, <1>2, <1>6, IssuedBecomes
  <2>2. Units'
    BY <1>1, <1>6 DEF Back, Units, Register
  <2>3. \A y \in SharedBack : ~Same(y, x)
    <3> SUFFICES ASSUME NEW y \in SharedBack, Same(y, x)
                 PROVE  FALSE
      OBVIOUS
    <3>1. y.inst = x.inst /\ y.inst.op = "shared"
      BY <1>2, Kinds, Alike, IssuedBecomes DEF Back, Like
    <3> QED BY <1>6, <3>1
  <2>4. regs' = [regs EXCEPT ![x.w] = @ \ Outs(x.inst)]
    <3>1. CASE IsLoad(x)
      <4>1. ASSUME NEW r \in Outs(x.inst)
            PROVE  pending[x.w][r] = 0
        <5>1. r \in Reg
          BY <1>3
        <5>2. pending[x.w][r] = 0 + Cardinality(Held \cap Into(x.w, r))
          BY <1>3, <1>4, <5>1 DEF Back, Books, PendingOK
        <5>3. \A a \in Held : a \notin Into(x.w, r)
          <6> SUFFICES ASSUME NEW a \in Held, a \in Into(x.w, r)
                       PROVE  FALSE
            OBVIOUS
          <6>1. Writes(a, x.w, r) /\ Writes(x, x.w, r) /\ a \in InFlight
            BY <4>1, IssuedBecomes DEF Into, Writes
          <6>2. a.i = x.i
            BY <1>2, <1>3, <5>1, <6>1 DEF Back, Books, OneWriter
          <6> QED BY <1>5, <6>1, <6>2 DEF Same, Writes
        <5>4. Cardinality(Held \cap Into(x.w, r)) = 0
          BY <5>3, CardNone DEF Back, FiniteOK
        <5> QED BY <5>2, <5>4
      <4>2. Arrived(x, pending) = Outs(x.inst)
        BY <4>1 DEF Arrived
      <4> QED BY <1>6, <3>1, <4>2 DEF Dispatched
    <3>2. CASE ~IsLoad(x)
      <4>1. Outs(x.inst) = {}
        BY <1>2, <1>3, <1>6, <3>2 DEF ToMemory, IsLoad, Inst, Outs
      <4>2. regs' = regs
        BY <1>6, <3>2 DEF Dispatched
      <4> QED BY <4>1, <4>2 DEF Back, Counts
    <3> QED BY <3>1, <3>2
  <2>5. in_pipe' = [in_pipe EXCEPT ![x.w] = @ - 1]
    BY <1>6 DEF Dispatched
  <2>6. \A y \in Held \cup SharedBack : ~Same(y, x)
    BY <1>5, <2>3
  <2>7. \A T : UnsentIn(T)' = UnsentIn(T)
    BY <1>4
  <2> QED BY <1>1, <1>2, <1>6, <2>1, <2>2, <2>4, <2>5, <2>6, <2>7, BackEnds
<1>7. CASE x.inst.op = "shared" /\ smem = << >> /\ smem' = <<x>> /\ in_pipe' = in_pipe /\ regs' = regs
  <2>1. Range(smem) = {} /\ Range(smem') = {x}
    BY <1>7, RangeOne
  <2>2. Issued' = Issued /\ InFlight' = InFlight
    BY <1>1, <1>2, <2>1, IssuedBecomes
  <2>3. Units'
    BY <1>1, <1>2, <1>7 DEF Back, Units, Register
  <2>4. FiniteOK' /\ Counts'
    BY <1>1, <1>7, <2>2 DEF Back, FiniteOK, Counts, Due
  <2>5. \A y : Like(y, y)
    BY DEF Like, Same
  <2>6. CurrentOK' /\ OneWriter' /\ HoldOK'
    BY <1>1, <1>7, <2>2, <2>5, LikeKeeps, HoldKeeps DEF Back, Books
  <2>7. StagesOK'
    BY <1>1, <1>2, <1>7, <2>1, <2>2 DEF Back, StagesOK, Same
  <2>8. PipeCount' /\ StoreCount' /\ AtomicCount' /\ PendingOK'
    BY <1>1, <1>4, <1>7, <2>2 DEF Back, Books, PipeCount, StoreCount, AtomicCount, PendingOK, Due
  <2> QED BY <2>3, <2>4, <2>6, <2>7, <2>8 DEF Back, Books
<1> QED BY <1>6, <1>7 DEF NothingToSend

\* A read of shared memory goes to the writeback register, ...
LEMMA BackSharedServed ==
  ASSUME Flow, Back, smem # << >>, smem' = << >>, SharedBack = {}, SharedBack' = {smem[1]},
         Held' = Held, Unserved' = Unserved, \A v \in Warp : Len(ibuffer[v]) \in Nat,
         in_pipe' = [in_pipe EXCEPT ![smem[1].w] = @ - 1],
         UNCHANGED <<slots, pc, ibuffer, completed, done_exit, n_atomic, stores, board, alu, oc,
                     dispatch>>
  PROVE  Back'
<1> DEFINE x == smem[1]
<1>1. regs' = regs /\ pending' = pending
  BY DEF board
<1>2. /\ Range(smem) = {x} /\ x \in Instr /\ x \in Issued /\ Range(smem') = {} /\ Sending' = Sending
  BY RegisterRange, RangeOne, IssuedBecomes DEF Back, Units, Sending
<1>3. x.inst.op = "shared" /\ x \notin oc /\ x \notin Sending /\ x \notin alu
  BY <1>2 DEF Back, StagesOK, ToMemory
<1>4. Issued' = Issued \ {x}
  BY <1>2, <1>3, IssuedBecomes
<1>5. InFlight' = InFlight
  BY <1>2, <1>4, IssuedBecomes
<1>6. in_pipe' \in [Warp -> Int] /\ PipeCount' /\ IsFiniteSet(Issued')
  BY <1>2, <1>4, LeavesUnits
<1>7. Units'
  BY DEF Back, Units, Register
<1>8. FiniteOK' /\ Counts'
  BY <1>1, <1>6 DEF Back, FiniteOK, Counts, Due
<1>9. \A y : Like(y, y)
  BY DEF Like, Same
<1>10. CurrentOK' /\ OneWriter' /\ HoldOK'
  BY <1>1, <1>5, <1>9, LikeKeeps, HoldKeeps DEF Back, Books
<1>11. StagesOK'
  <2>1. \A a \in SharedBack' : a.inst.op = "shared" /\ a \notin Issued' /\ a \in Instr
    BY <1>2, <1>3, <1>4
  <2> QED BY <1>2, <2>1 DEF Back, StagesOK, Same
<1>12. StoreCount' /\ AtomicCount' /\ PendingOK'
  BY <1>1 DEF Back, Books, StoreCount, AtomicCount, PendingOK, Due, UnsentIn
<1> QED BY <1>6, <1>7, <1>8, <1>10, <1>11, <1>12 DEF Back, Books

\* ... and is written back.
LEMMA BackSharedDone ==
  ASSUME Flow, Back, NEW x, SharedBack = {x}, SharedBack' = {}, Held' = Held, Unserved' = Unserved,
         regs' = [regs EXCEPT ![x.w] = @ \ Outs(x.inst)],
         UNCHANGED <<slots, pc, ibuffer, completed, done_exit, n_atomic, stores, in_pipe, pending,
                     units>>
  PROVE  Back'
<1>1. /\ alu' = alu /\ oc' = oc /\ dispatch' = dispatch /\ smem' = smem
      /\ ibuffer' = ibuffer /\ n_atomic' = n_atomic /\ stores' = stores /\ in_pipe' = in_pipe
      /\ pending' = pending /\ Sending' = Sending
  BY DEF units, Sending
<1>2. Issued' = Issued
  BY <1>1 DEF Issued
<1>a. /\ x \in Instr /\ x.w \in Warp /\ x.inst.op = "shared" /\ x \in InFlight /\ x \notin Issued
      /\ x.inst \in Inst
  BY Kinds, IssuedBecomes DEF Back, StagesOK
<1>3. InFlight' \subseteq InFlight /\ \A y \in InFlight : y = x \/ y \in InFlight'
  BY <1>2, IssuedBecomes
<1>r. /\ regs' \in [Warp -> SUBSET Reg]
      /\ \A v \in Warp, r \in Reg : r \in regs'[v] <=> r \in regs[v] /\ ~(v = x.w /\ r \in Outs(x.inst))
  BY <1>a, RegsRelease DEF Back
<1>4. Units' /\ FiniteOK' /\ Counts'
  BY <1>1, <1>2, <1>r DEF Back, Units, FiniteOK, Counts, Due
<1>l. \A y : Like(y, y) /\ Same(y, y)
  BY DEF Like, Same
<1>5. \A y \in InFlight' : \E z \in InFlight : Like(y, z)
  BY <1>3, <1>l
<1>6. CurrentOK' /\ OneWriter'
  BY <1>5, LikeKeeps DEF Back, Books
<1>7. HoldOK'
  <2>1. ASSUME NEW r \in Outs(x.inst) \cap Reg, NEW y \in InFlight', Writes(y, x.w, r)
        PROVE  FALSE
    <3>1. y \in InFlight /\ Writes(x, x.w, r)
      BY <1>3, <2>1 DEF Writes
    <3>2. Same(y, x)
      BY <1>a, <2>1, <3>1 DEF Back, Books, OneWriter, Same, Writes
    <3>3. y.inst = x.inst /\ (y \in Instr => y = x)
      BY <1>a, <3>1, <3>2, Alike DEF Back, Like
    <3>4. CASE y \in Issued
      BY <1>a, <3>3, <3>4, Kinds DEF Back
    <3>5. CASE y \in Held
      BY <1>a, <3>3, <3>5, Kinds DEF Back, IsLoad, IsStore
    <3> QED BY <1>2, <3>4, <3>5, IssuedBecomes
  <2>3. PICK R : R = Outs(x.inst)
    OBVIOUS
  <2>4. \A r \in R \cap Reg : \A y \in InFlight' : ~Writes(y, x.w, r)
    BY <2>1, <2>3
  <2>5. \A r \in Outs(x.inst) \ R : \E y \in InFlight' : Writes(y, x.w, r)
    BY <2>3
  <2>6. \A v \in Warp, r \in Reg : r \in regs'[v] <=> r \in regs[v] /\ ~(v = x.w /\ r \in R)
    BY <1>r, <2>3
  <2>7. \A y \in InFlight : Same(y, x) \/ y \in InFlight'
    BY <1>3, <1>l
  <2> QED BY <1>5, <1>a, <2>4, <2>5, <2>6, <2>7, Released DEF Back, Books
<1>8. StagesOK'
  BY <1>1, <1>2 DEF Back, StagesOK, Same
<1>9. PipeCount' /\ StoreCount' /\ AtomicCount' /\ PendingOK'
  BY <1>1, <1>2 DEF Back, Books, PipeCount, StoreCount, AtomicCount, PendingOK, Due, UnsentIn
<1> QED BY <1>4, <1>6, <1>7, <1>8, <1>9 DEF Back, Books

-------------------------------------------------------------------------------
(* Instructions enter the units. *)

\* An atomic has its accesses due as long as it has not reached the ldst unit.
LEMMA DueAdd ==
  ASSUME NEW S, NEW x, x \notin S, x.inst.n \in Nat, NEW v, IsFiniteSet(DueIn(S, v))
  PROVE  /\ IsFiniteSet(DueIn(S \cup {x}, v))
         /\ Cardinality(DueIn(S \cup {x}, v)) =
              Cardinality(DueIn(S, v)) + IF x.w = v /\ x.inst.op = "atomic" THEN x.inst.n ELSE 0
         /\ Cardinality(DueIn(S, v)) \in Nat
<1>1. PICK n \in Nat : n = x.inst.n
  OBVIOUS
<1>2. PICK D, E : D = DueIn(S, v) /\ E = {x} \X (1 .. n)
  OBVIOUS
<1>3. IsFiniteSet(1 .. n) /\ Cardinality(1 .. n) = n
  <2>1. 1 \in Int /\ n \in Int
    OBVIOUS
  <2>2. IsFiniteSet(1 .. n) /\ Cardinality(1 .. n) = IF 1 > n THEN 0 ELSE n - 1 + 1
    BY <2>1, FS_Interval
  <2> QED BY <2>2
<1>4. PICK X, I : X = {x} /\ I = 1 .. n
  OBVIOUS
<1>5. IsFiniteSet(X) /\ Cardinality(X) = 1
  BY <1>4, FS_Singleton
<1>6. IsFiniteSet(E) /\ Cardinality(E) = n
  <2>1. IsFiniteSet(X \X I) /\ Cardinality(X \X I) = Cardinality(X) * Cardinality(I)
    BY <1>3, <1>4, <1>5, FS_Product
  <2>2. E = X \X I /\ Cardinality(I) = n
    BY <1>2, <1>3, <1>4
  <2>3. 1 * n = n
    OBVIOUS
  <2> QED BY <1>5, <2>1, <2>2, <2>3
<1>7. D \cap E = {}
  <2>1. \A p \in D : \E y \in S, k \in Nat : p = <<y, k>>
    BY <1>2 DEF DueIn
  <2>2. \A p \in E : \E k \in Nat : p = <<x, k>>
    BY <1>2
  <2> QED BY <2>1, <2>2
<1>8. IsFiniteSet(D \cup E) /\ Cardinality(D \cup E) = Cardinality(D) + n /\ Cardinality(D) \in Nat
  <2>1. /\ IsFiniteSet(D \cup E)
        /\ Cardinality(D \cup E) = Cardinality(D) + Cardinality(E) - Cardinality(D \cap E)
    BY <1>2, <1>6, FS_Union
  <2>2. Cardinality(D \cap E) = 0 /\ Cardinality(D) \in Nat
    BY <1>2, <1>7, FS_EmptySet, FS_CardinalityType
  <2> QED BY <1>6, <2>1, <2>2
<1>9. CASE x.w = v /\ x.inst.op = "atomic"
  <2>1. DueIn(S \cup {x}, v) = D \cup E
    BY <1>1, <1>2, <1>9 DEF DueIn
  <2> QED BY <1>1, <1>2, <1>8, <1>9, <2>1
<1>10. CASE ~(x.w = v /\ x.inst.op = "atomic")
  <2>1. {y \in S \cup {x} : y.w = v /\ y.inst.op = "atomic"} = {y \in S : y.w = v /\ y.inst.op = "atomic"}
    BY <1>10
  <2>2. DueIn(S \cup {x}, v) = DueIn(S, v)
    BY <2>1 DEF DueIn
  <2> QED BY <1>2, <1>8, <1>10, <2>2
<1> QED BY <1>9, <1>10

\* The ldst unit takes an instruction: its accesses are unsent.
LEMMA BackLdstIssue ==
  ASSUME Flow, Back, NEW x \in oc, LdstIssue(x), Held' = Held, Unserved' = Unserved,
         SharedBack' = SharedBack
  PROVE  Back'
<1> DEFINE n == x.inst.n
           d == [x |-> x, left |-> n]
<1>1. /\ dispatch = << >> /\ dispatch' = <<d>> /\ oc' = oc \ {x} /\ alu' = alu /\ smem' = smem
      /\ ibuffer' = ibuffer /\ n_atomic' = n_atomic /\ stores' = stores /\ in_pipe' = in_pipe
      /\ regs' = regs /\ UNCHANGED <<slots, pc, completed, done_exit>>
  BY DEF LdstIssue, front, counters
<1>a. /\ x \in Instr /\ x.w \in Warp /\ x.inst \in Inst /\ n \in Nat /\ ToMemory(x.inst)
      /\ Outs(x.inst) \subseteq Reg
  BY Kinds, Outputs DEF Back, StagesOK
<1>d. d \in [x : Instr, left : Nat] /\ d.x = x /\ d.left = n
  BY <1>a
<1> HIDE DEF d
<1>2. Sending = {} /\ Sending' = {x} /\ Range(dispatch') = {d}
  BY <1>1, <1>d, SendingIs, SendingBecomes DEF Back
<1>3. Issued' = Issued /\ InFlight' = InFlight
  BY <1>1, <1>2, IssuedBecomes
<1>4. Units'
  BY <1>1, <1>d DEF Back, Units, Register
<1>u. \A T : UnsentIn(T) = 0 /\ UnsentIn(T)' = IF x \in T THEN n ELSE 0
  BY <1>1, <1>d, UnsentIs, UnsentBecomes DEF Back
<1>p. /\ pending' \in [Warp -> [Reg -> Int]]
      /\ \A v \in Warp, r \in Reg :
           pending'[v][r] = pending[v][r] + IF IsLoad(x) /\ v = x.w /\ r \in Outs(x.inst) THEN n ELSE 0
  <2>t. pending \in [Warp -> [Reg -> Int]]
    BY DEF Back, Counts
  <2>1. CASE IsLoad(x)
    <3>1. PICK f : f = [r \in Reg |-> pending[x.w][r] + IF r \in Outs(x.inst) THEN n ELSE 0]
      OBVIOUS
    <3>2. pending' = [pending EXCEPT ![x.w] = f]
      BY <2>1, <2>t, <3>1 DEF LdstIssue
    <3>3. \A r \in Reg : pending[x.w][r] \in Int
      BY <1>a, <2>t
    <3>4. f \in [Reg -> Int]
      BY <1>a, <3>1, <3>3
    <3>5. pending' \in [Warp -> [Reg -> Int]]
      BY <2>t, <3>2, <3>4
    <3>6. ASSUME NEW v \in Warp, NEW r \in Reg
          PROVE  pending'[v][r] = pending[v][r] + IF v = x.w /\ r \in Outs(x.inst) THEN n ELSE 0
      <4>1. CASE v = x.w
        <5>1. pending'[v] = f
          BY <2>t, <3>2, <4>1
        <5> QED BY <3>1, <4>1, <5>1
      <4>2. CASE v # x.w
        <5>1. pending'[v] = pending[v] /\ pending[v][r] \in Int
          BY <2>t, <3>2, <4>2
        <5> QED BY <4>2, <5>1
      <4> QED BY <4>1, <4>2
    <3> QED BY <2>1, <3>5, <3>6
  <2>2. CASE ~IsLoad(x)
    <3>1. pending' = pending
      BY <2>2 DEF LdstIssue
    <3>2. \A v \in Warp, r \in Reg : pending[v][r] \in Int
      BY <2>t
    <3> QED BY <2>2, <2>t, <3>1, <3>2
  <2> QED BY <2>1, <2>2
<1>5. Counts'
  BY <1>1, <1>p DEF Back, Counts
<1>e. ASSUME NEW v \in Warp
      PROVE  /\ IsFiniteSet(Due(v)')
             /\ n_atomic[v] = Cardinality(Due(v)') + UnsentIn(Atomics(v))'
                              + Cardinality(Unserved \cap Mine(v, "atomic"))
  <2>1. PICK S : S = oc \ {x}
    OBVIOUS
  <2>2. Due(v) = DueIn(S \cup {x}, v) /\ Due(v)' = DueIn(S, v) /\ x \notin S
    <3>1. S \cup {x} = oc
      BY <2>1
    <3> QED BY <1>1, <2>1, <3>1 DEF Due
  <2>3. IsFiniteSet(DueIn(S, v))
    <3>1. DueIn(S, v) \subseteq DueIn(S \cup {x}, v)
      BY DEF DueIn
    <3> QED BY <2>2, <3>1, FS_Subset DEF Back, FiniteOK
  <2>4. PICK k : k = IF x.w = v /\ x.inst.op = "atomic" THEN n ELSE 0
    OBVIOUS
  <2>5. Cardinality(Due(v)) = Cardinality(Due(v)') + k /\ Cardinality(Due(v)') \in Nat
    BY <1>a, <2>2, <2>3, <2>4, DueAdd
  <2>6. UnsentIn(Atomics(v))' = k /\ UnsentIn(Atomics(v)) = 0
    <3>1. x \in Atomics(v) <=> x.w = v /\ x.inst.op = "atomic"
      BY <1>a DEF Atomics
    <3> QED BY <1>u, <2>4, <3>1
  <2>7. n_atomic[v] = Cardinality(Due(v)) + UnsentIn(Atomics(v)) + Cardinality(Unserved \cap Mine(v, "atomic"))
    BY DEF Back, Books, AtomicCount
  <2>8. k \in Nat
    BY <1>a, <2>4
  <2> QED BY <2>2, <2>3, <2>5, <2>6, <2>7, <2>8
<1>6. FiniteOK'
  BY <1>3, <1>e DEF Back, FiniteOK
<1>7. AtomicCount'
  BY <1>1, <1>e DEF AtomicCount
<1>8. PendingOK'
  <2> SUFFICES ASSUME NEW v \in Warp, NEW r \in Reg
               PROVE  pending'[v][r] = UnsentIn(Loading(v, r))' + Cardinality(Held \cap Into(v, r))
    BY DEF PendingOK
  <2>1. pending[v][r] = UnsentIn(Loading(v, r)) + Cardinality(Held \cap Into(v, r))
    BY DEF Back, Books, PendingOK
  <2>2. x \in Loading(v, r) <=> IsLoad(x) /\ v = x.w /\ r \in Outs(x.inst)
    BY <1>a DEF Loading
  <2>3. PICK k, c : k = (IF x \in Loading(v, r) THEN n ELSE 0) /\ c = Cardinality(Held \cap Into(v, r))
    OBVIOUS
  <2>4. UnsentIn(Loading(v, r))' = k /\ UnsentIn(Loading(v, r)) = 0
    BY <1>u, <2>3
  <2>5. pending'[v][r] = pending[v][r] + k
    BY <1>p, <2>2, <2>3
  <2>6. k \in Nat /\ c \in Nat
    BY <1>a, <2>3, CardNone DEF Back, FiniteOK
  <2>7. (0 + c) + k = k + c
    BY <2>6
  <2> QED BY <2>1, <2>3, <2>4, <2>5, <2>7
<1>l. \A y : Like(y, y)
  BY DEF Like, Same
<1>9. CurrentOK' /\ OneWriter' /\ HoldOK'
  BY <1>1, <1>3, <1>l, LikeKeeps, HoldKeeps DEF Back, Books
<1>10. StagesOK'
  <2>1. \A y \in Range(smem) : y \notin oc
    BY DEF Back, StagesOK
  <2>2. \A y \in Range(smem') : y.inst.op = "shared" /\ y \notin oc' /\ y \notin Sending'
    BY <1>1, <1>2, <2>1 DEF Back, StagesOK
  <2>3. \A a \in Held : ~Same(a, x)
    BY DEF Back, StagesOK
  <2>4. \A e \in Range(dispatch') :
          /\ ToMemory(e.x.inst) /\ e.x \notin oc'
          /\ e.left <= e.x.inst.n /\ (e.left = 0 => e.x.inst.n = 0)
          /\ \A a \in Held' : Same(a, e.x) => a.k > e.left
    BY <1>1, <1>2, <1>a, <1>d, <2>3
  <2>5. /\ \A y \in alu' : ~ToMemory(y.inst)
        /\ \A y \in oc' : ToMemory(y.inst)
        /\ \A a \in Held' : \A y \in oc' : ~Same(a, y)
        /\ \A a \in SharedBack' : a.inst.op = "shared" /\ a \notin Issued' /\ a \in Instr
    BY <1>1, <1>3 DEF Back, StagesOK
  <2> QED BY <2>2, <2>4, <2>5 DEF StagesOK, Same
<1>11. PipeCount' /\ StoreCount'
  BY <1>1, <1>3 DEF Back, Books, PipeCount, StoreCount
<1> QED BY <1>4, <1>5, <1>6, <1>7, <1>8, <1>9, <1>10, <1>11 DEF Back, Books

\* An instruction is issued.
LEMMA BackIssue ==
  ASSUME Front, Flow, Back, NEW w \in Warp, Issue(w), Held' = Held, Unserved' = Unserved,
         SharedBack' = SharedBack
  PROVE  Back'
<1> DEFINE inst == prog[w][pc[w]]
           to == IF inst.op = "jump" THEN inst.target ELSE pc[w] + 1
           left == IF inst.op = "exit" THEN << >> ELSE Tail(ibuffer[w])
           lost == IF inst.op = "exit" THEN Len(Tail(ibuffer[w])) ELSE 0
           n == IF inst.op = "atomic" THEN inst.n ELSE 0
<1>x. PICK x : x = [w |-> w, gen |-> gen[w], i |-> pc[w], inst |-> inst]
  OBVIOUS
<1>1. /\ prog' = prog /\ gen' = gen /\ done_exit' = done_exit /\ stores' = stores
      /\ pending' = pending /\ dispatch' = dispatch /\ smem' = smem
      /\ ibuffer[w] # << >> /\ ~completed[w] /\ ~Collides(w, inst)
      /\ regs' = [regs EXCEPT ![w] = @ \cup Outs(inst)]
  BY DEF Issue, Waiting, slots
<1>2. \/ ToMemory(inst) /\ oc' = oc \cup {x} /\ alu' = alu
      \/ ~ToMemory(inst) /\ alu' = alu \cup {x} /\ oc' = oc
  BY <1>x DEF Issue
<1>f. pc' = [pc EXCEPT ![w] = to] /\ completed' = [completed EXCEPT ![w] = inst.op = "exit"]
  BY DEF Front, Slots, Issue
<1>g. ibuffer' = [ibuffer EXCEPT ![w] = left] /\ in_pipe' = [in_pipe EXCEPT ![w] = @ - lost]
  BY DEF Issue
<1>h. n_atomic' = [n_atomic EXCEPT ![w] = @ + n]
  <2>1. n_atomic \in [Warp -> Int]
    BY DEF Back, Counts
  <2>2. CASE inst.op = "atomic"
    BY <2>2 DEF Issue
  <2>3. CASE inst.op # "atomic"
    <3>1. n_atomic' = n_atomic
      BY <2>1, <2>3 DEF Issue
    <3>2. n_atomic[w] + 0 = n_atomic[w]
      BY <2>1
    <3> QED BY <2>1, <2>3, <3>1, <3>2
  <2> QED BY <2>2, <2>3
<1>a. /\ pc[w] \in 1 .. Len(prog[w]) /\ pc[w] \in Nat /\ inst \in Inst /\ ~done_exit[w]
      /\ Len(prog[w]) \in Nat /\ (inst.op # "exit" => pc[w] < to)
  BY <1>1, AtPc
<1>b. x \in Instr /\ x.w = w /\ x.gen = gen[w] /\ x.i = pc[w] /\ x.inst = inst
  BY <1>a, <1>x DEF Instr, Front, Slots
<1>n. n \in Nat /\ Outs(inst) \subseteq Reg /\ inst.n \in Nat
  BY <1>a, Outputs
<1> HIDE DEF inst, to, left, lost, n
<1>q. /\ \A v \in Warp : Len(ibuffer[v]) \in Nat
      /\ Len(left) \in Nat /\ lost \in Nat /\ Len(ibuffer[w]) = Len(left) + lost + 1
  <2>1. ibuffer[w] \in Seq(Nat) /\ \A v \in Warp : Len(ibuffer[v]) \in Nat
    BY DEF Front, Slots
  <2>2. Len(Tail(ibuffer[w])) = Len(ibuffer[w]) - 1 /\ Len(Tail(ibuffer[w])) \in Nat
    BY <1>1, <2>1
  <2>3. CASE inst.op = "exit"
    <3>1. Len(left) = 0
      BY <2>3 DEF left
    <3> QED BY <2>1, <2>2, <2>3, <3>1 DEF lost
  <2>4. CASE inst.op # "exit"
    BY <2>1, <2>2, <2>4 DEF lost, left
  <2> QED BY <2>3, <2>4
<1>3. \A y \in InFlight : y # x /\ ~Same(y, x)
  <2> SUFFICES ASSUME NEW y \in InFlight, Same(y, x)
               PROVE  FALSE
    BY DEF Same
  <2>1. Current(y) /\ y.w = w /\ y.i = pc[w]
    BY <1>b DEF Back, CurrentOK, Same
  <2> QED BY <1>1, <1>a, <2>1 DEF Current
<1>4. Sending' = Sending /\ Issued' = Issued \cup {x} /\ InFlight' = InFlight \cup {x} /\ x \notin Issued
  <2>1. Sending' = Sending
    BY <1>1 DEF Sending
  <2> QED BY <1>1, <1>2, <1>3, <2>1, IssuedBecomes
<1>5. Units'
  BY <1>1, <1>2, <1>b DEF Back, Units
<1>6. CurrentOK'
  <2>1. ASSUME NEW y \in InFlight
        PROVE  Current(y)'
    <3>1. Current(y)
      BY DEF Back, CurrentOK
    <3>2. CASE y.w = w
      <4>1. pc'[w] = to /\ completed'[w] = (inst.op = "exit") /\ y.i < pc[w] /\ y.i \in Nat
        BY <1>1, <1>a, <1>f, <3>1, <3>2 DEF Front, Slots, Current
      <4>2. ~completed'[w] => y.i < pc'[w]
        <5> SUFFICES ASSUME inst.op # "exit"
                     PROVE  y.i < to
          BY <4>1
        <5>1. to \in Nat
          BY <1>a DEF to, Inst
        <5> QED BY <1>a, <4>1, <5>1
      <4> QED BY <1>1, <3>1, <3>2, <4>2 DEF Current
    <3>3. CASE y.w # w
      <4>1. pc'[y.w] = pc[y.w] /\ completed'[y.w] = completed[y.w]
        BY <1>f, <3>1, <3>3 DEF Front, Slots, Current
      <4> QED BY <1>1, <3>1, <4>1 DEF Current
    <3> QED BY <3>2, <3>3
  <2>2. Current(x)'
    <3>1. pc'[w] = to /\ completed'[w] = (inst.op = "exit")
      BY <1>f DEF Front, Slots
    <3>2. ~completed'[w] => x.i < pc'[w]
      BY <1>a, <1>b, <3>1
    <3>3. x.inst = prog[w][pc[w]]
      BY <1>b DEF inst
    <3> QED BY <1>1, <1>a, <1>b, <3>2, <3>3 DEF Current
  <2> QED BY <1>4, <2>1, <2>2 DEF CurrentOK
<1>r. /\ regs' \in [Warp -> SUBSET Reg]
      /\ \A v \in Warp, r \in Reg : r \in regs'[v] <=> r \in regs[v] \/ (v = w /\ r \in Outs(inst))
      /\ \A r \in Outs(inst) : r \notin regs[w]
  BY <1>1, <1>n DEF Back, Counts, Collides
<1>7. OneWriter' /\ HoldOK'
  <2>1. \A v \in Warp, r \in Reg : Writes(x, v, r) <=> v = w /\ r \in Outs(inst)
    BY <1>b DEF Writes
  <2>2. \A v \in Warp, r \in Reg : \A y \in InFlight : Writes(y, v, r) => ~Writes(x, v, r)
    BY <1>r, <2>1 DEF Back, Books, HoldOK
  <2>3. OneWriter'
    <3> SUFFICES ASSUME NEW v \in Warp, NEW r \in Reg, NEW y \in InFlight', NEW z \in InFlight',
                        Writes(y, v, r), Writes(z, v, r)
                 PROVE  y.i = z.i
      BY DEF OneWriter, Writes
    <3> QED BY <1>4, <2>2 DEF Back, Books, OneWriter
  <2>4. HoldOK'
    <3> SUFFICES ASSUME NEW v \in Warp, NEW r \in Reg
                 PROVE  r \in regs'[v] <=> \E y \in InFlight' : Writes(y, v, r)
      BY DEF HoldOK, Writes
    <3> QED BY <1>4, <1>r, <2>1 DEF Back, Books, HoldOK
  <2> QED BY <2>3, <2>4
<1>8. in_pipe' \in [Warp -> Int] /\ PipeCount' /\ IsFiniteSet(Issued')
  <2>1. in_pipe \in [Warp -> Int] /\ IsFiniteSet(Issued)
    BY DEF Back, Counts, FiniteOK
  <2>2. /\ IsFiniteSet(Issued')
        /\ \A T : Cardinality(Issued' \cap T) = Cardinality(Issued \cap T) + IF x \in T THEN 1 ELSE 0
        /\ \A T : Cardinality(Issued \cap T) \in Nat
    BY <1>4, <2>1, CardAdd, CardNone
  <2>3. in_pipe[w] - lost \in Int
    BY <1>q, <2>1
  <2>4. in_pipe' \in [Warp -> Int]
    BY <1>g, <2>1, <2>3
  <2>5. PipeCount'
    <3> SUFFICES ASSUME NEW v \in Warp
                 PROVE  in_pipe'[v] = Len(ibuffer'[v]) + Cardinality(Issued' \cap Of(v))
      BY DEF PipeCount
    <3>1. in_pipe[v] = Len(ibuffer[v]) + Cardinality(Issued \cap Of(v))
      BY DEF Back, Books, PipeCount
    <3>2. x \in Of(v) <=> v = w
      BY <1>b DEF Of
    <3>3. CASE v = w
      <4>1. in_pipe'[v] = in_pipe[v] - lost /\ ibuffer'[v] = left
        BY <1>g, <2>1, <3>3 DEF Front, Slots
      <4>2. Cardinality(Issued' \cap Of(v)) = Cardinality(Issued \cap Of(v)) + 1
        BY <2>2, <3>2, <3>3
      <4>3. PICK c, l, m : c = Cardinality(Issued \cap Of(v)) /\ l = Len(ibuffer[v]) /\ m = Len(left)
        OBVIOUS
      <4>4. c \in Nat /\ l \in Nat /\ m \in Nat /\ l = m + lost + 1
        BY <1>q, <2>2, <3>3, <4>3
      <4>5. (l + c) - lost = m + (c + 1)
        BY <1>q, <4>4
      <4> QED BY <3>1, <4>1, <4>2, <4>3, <4>5
    <3>4. CASE v # w
      <4>1. in_pipe'[v] = in_pipe[v] /\ ibuffer'[v] = ibuffer[v]
        BY <1>g, <2>1, <3>4 DEF Front, Slots
      <4>2. Cardinality(Issued' \cap Of(v)) = Cardinality(Issued \cap Of(v))
        <5>1. Cardinality(Issued' \cap Of(v)) = Cardinality(Issued \cap Of(v)) + 0
          BY <2>2, <3>2, <3>4
        <5>2. Cardinality(Issued \cap Of(v)) \in Nat
          BY <2>2
        <5> QED BY <5>1, <5>2
      <4> QED BY <3>1, <4>1, <4>2
    <3> QED BY <3>3, <3>4
  <2> QED BY <2>2, <2>4, <2>5
<1>e. ASSUME NEW v \in Warp
      PROVE  /\ IsFiniteSet(Due(v)')
             /\ n_atomic'[v] = Cardinality(Due(v)') + UnsentIn(Atomics(v))
                               + Cardinality(Unserved \cap Mine(v, "atomic"))
  <2>1. PICK S, k : S = oc /\ k = IF v = w THEN n ELSE 0
    OBVIOUS
  <2>2. x \notin S
    BY <1>4, <2>1, IssuedBecomes
  <2>3. Due(v) = DueIn(S, v) /\ IsFiniteSet(DueIn(S, v))
    BY <2>1 DEF Due, Back, FiniteOK
  <2>4. k \in Nat /\ k = IF x.w = v /\ x.inst.op = "atomic" THEN x.inst.n ELSE 0
    BY <1>b, <1>n, <2>1 DEF n
  <2>5. /\ IsFiniteSet(Due(v)') /\ Cardinality(Due(v)') = Cardinality(Due(v)) + k
        /\ Cardinality(Due(v)) \in Nat
    <3>1. /\ IsFiniteSet(DueIn(S \cup {x}, v))
          /\ Cardinality(DueIn(S \cup {x}, v)) = Cardinality(DueIn(S, v)) + k
          /\ Cardinality(DueIn(S, v)) \in Nat
      BY <1>b, <1>n, <2>2, <2>3, <2>4, DueAdd
    <3>2. CASE ToMemory(inst)
      <4>1. Due(v)' = DueIn(S \cup {x}, v)
        BY <1>2, <2>1, <3>2 DEF Due
      <4> QED BY <2>3, <3>1, <4>1
    <3>3. CASE ~ToMemory(inst)
      <4>1. Due(v)' = DueIn(S, v)
        BY <1>2, <2>1, <3>3 DEF Due
      <4>2. k = 0
        BY <1>b, <2>4, <3>3 DEF ToMemory
      <4> QED BY <2>3, <3>1, <4>1, <4>2
    <3> QED BY <3>2, <3>3
  <2>6. n_atomic[v] = Cardinality(Due(v)) + UnsentIn(Atomics(v)) + Cardinality(Unserved \cap Mine(v, "atomic"))
    BY DEF Back, Books, AtomicCount
  <2>7. n_atomic'[v] = n_atomic[v] + k
    <3>1. n_atomic[v] \in Int
      BY DEF Back, Counts
    <3> QED BY <1>h, <2>1, <3>1 DEF Back, Counts
  <2>8. PICK c, u, q : /\ c = Cardinality(Due(v)) /\ u = UnsentIn(Atomics(v))
                       /\ q = Cardinality(Unserved \cap Mine(v, "atomic"))
    OBVIOUS
  <2>9. c \in Nat /\ u \in Nat /\ q \in Nat
    <3>1. IsFiniteSet(Unserved)
      BY FS_Difference, UnservedBecomes DEF Back, FiniteOK
    <3> QED BY <2>5, <2>8, <3>1, UnsentIs, CardNone DEF Back
  <2>10. (c + u + q) + k = (c + k) + u + q
    BY <2>4, <2>9
  <2> QED BY <2>5, <2>6, <2>7, <2>8, <2>10
<1>9. AtomicCount' /\ FiniteOK'
  <2>1. \A v \in Warp : UnsentIn(Atomics(v))' = UnsentIn(Atomics(v))
    BY <1>1 DEF UnsentIn
  <2> QED BY <1>8, <1>e, <2>1 DEF AtomicCount, FiniteOK, Back
<1>10. Counts'
  <2>1. n_atomic' \in [Warp -> Int]
    <3>1. n_atomic[w] + n \in Int
      BY <1>n DEF Back, Counts
    <3> QED BY <1>h, <3>1 DEF Back, Counts
  <2> QED BY <1>1, <1>8, <1>r, <2>1 DEF Back, Counts
<1>11. StagesOK'
  <2>1. \A y \in oc' : y \in oc \/ y = x
    BY <1>2
  <2>2. \A y \in alu' : ~ToMemory(y.inst)
    BY <1>2, <1>b DEF Back, StagesOK
  <2>3. \A y \in oc' : ToMemory(y.inst)
    BY <1>2, <1>b DEF Back, StagesOK
  <2>4. \A d \in Range(dispatch') :
          /\ ToMemory(d.x.inst) /\ d.x \notin oc'
          /\ d.left <= d.x.inst.n /\ (d.left = 0 => d.x.inst.n = 0)
          /\ \A a \in Held' : Same(a, d.x) => a.k > d.left
    <3>1. \A d \in Range(dispatch) : d.x \in InFlight
      BY IssuedBecomes DEF Sending
    <3> QED BY <1>1, <1>3, <2>1, <3>1 DEF Back, StagesOK
  <2>5. \A y \in Range(smem') : y.inst.op = "shared" /\ y \notin oc' /\ y \notin Sending'
    BY <1>1, <1>3, <1>4, <2>1, IssuedBecomes DEF Back, StagesOK
  <2>6. \A a \in Held' : \A y \in oc' : ~Same(a, y)
    BY <1>3, <2>1, IssuedBecomes DEF Back, StagesOK
  <2>7. \A a \in SharedBack' : a.inst.op = "shared" /\ a \notin Issued' /\ a \in Instr
    BY <1>3, <1>4, IssuedBecomes DEF Back, StagesOK
  <2> QED BY <2>2, <2>3, <2>4, <2>5, <2>6, <2>7 DEF StagesOK, Same
<1>12. StoreCount' /\ PendingOK'
  BY <1>1 DEF Back, Books, StoreCount, PendingOK, UnsentIn
<1> QED BY <1>5, <1>6, <1>7, <1>8, <1>9, <1>10, <1>11, <1>12 DEF Back, Books

-------------------------------------------------------------------------------
(* The steps. *)

\* Steps that leave the accesses alone.
LEMMA QuietStep ==
  ASSUME Flow, UNCHANGED <<cfg, l1vars, replies>>
  PROVE  Flow' /\ Held' = Held /\ Unserved' = Unserved /\ SharedBack' = SharedBack
<1>1. Flow' /\ held' = held /\ Held' = Held
  BY FlowKeeps
<1>2. SharedBack' = SharedBack
  BY DEF SharedBack, replies
<1> QED BY <1>1, <1>2, UnservedBecomes

LEMMA Lens ==
  ASSUME Front
  PROVE  ibuffer \in [Warp -> Seq(Nat)] /\ \A v \in Warp : Len(ibuffer[v]) \in Nat
BY DEF Front, Slots

\* Fetch, decode and issue.
LEMMA PipeFrontEnd ==
  ASSUME Pipe, NEW w \in Warp,
         \/ Launch(w) \/ WarpExits(w) \/ Fetch(w) \/ FetchReturns(w) \/ MembarDone(w)
         \/ ControlHazard(w) \/ Issue(w)
  PROVE  Pipe'
<1> USE DEF Pipe
<1>1. UNCHANGED <<cfg, l1vars, replies>>
  BY DEF Launch, WarpExits, Fetch, FetchReturns, MembarDone, ControlHazard, Issue
<1>2. Flow' /\ Held' = Held /\ Unserved' = Unserved /\ SharedBack' = SharedBack
  BY <1>1, QuietStep
<1>3. CASE Launch(w)
  BY <1>2, <1>3, FrontLaunch, BackLaunch
<1>4. CASE WarpExits(w)
  BY <1>2, <1>4, FrontWarpExits, BackWarpExits
<1>5. CASE Fetch(w)
  <2>1. UNCHANGED <<slots, pc, ibuffer, completed, done_exit, n_atomic, stores, in_pipe, board, units>>
    BY <1>5 DEF Fetch, counters
  <2> QED BY <1>2, <1>5, <2>1, FrontFetch, BackKeeps
<1>6. CASE FetchReturns(w)
  <2>1. UNCHANGED <<slots, pc, ibuffer, completed, done_exit, n_atomic, stores, in_pipe, board, units>>
    BY <1>6 DEF FetchReturns, counters
  <2> QED BY <1>2, <1>6, <2>1, FrontFetchReturns, BackKeeps
<1>7. CASE MembarDone(w)
  <2>1. /\ UNCHANGED <<slots, pc, ibuffer, completed, done_exit, n_atomic, stores, in_pipe, board, units>>
        /\ UNCHANGED <<cfg, launches, slots, pc, front, completed, done_exit>>
    BY <1>7 DEF MembarDone, front
  <2> QED BY <1>2, <2>1, FrontKeeps, BackKeeps
<1>8. CASE ControlHazard(w)
  <2>1. /\ UNCHANGED <<slots, pc, completed, done_exit, n_atomic, stores, board, units>>
        /\ ibuffer' = [ibuffer EXCEPT ![w] = << >>]
        /\ in_pipe' = [in_pipe EXCEPT ![w] = @ - Len(ibuffer[w])]
    BY <1>8 DEF ControlHazard
  <2>2. ibuffer \in [Warp -> Seq(Nat)] /\ Len(ibuffer[w]) \in Nat /\ in_pipe[w] \in Int
    BY Lens DEF Back, Counts
  <2>3. PICK q \in Seq(Nat) : q = << >> /\ Len(q) = 0
    <3>1. << >> \in Seq(Nat)
      OBVIOUS
    <3>2. Len(<< >>) = 0
      OBVIOUS
    <3> QED BY <3>1, <3>2
  <2>4. in_pipe[w] - Len(ibuffer[w]) = in_pipe[w] + Len(q) - Len(ibuffer[w])
    BY <2>2, <2>3
  <2>5. in_pipe' = [in_pipe EXCEPT ![w] = @ + Len(q) - Len(ibuffer[w])]
    BY <2>1, <2>4
  <2> QED BY <1>2, <1>8, <2>1, <2>2, <2>3, <2>5, FrontControlHazard, BufferChanges
<1>9. CASE Issue(w)
  BY <1>2, <1>9, FrontIssue, BackIssue
<1> QED BY <1>3, <1>4, <1>5, <1>6, <1>7, <1>8, <1>9

LEMMA PipeDecode ==
  ASSUME Pipe, Decode
  PROVE  Pipe'
<1> USE DEF Pipe
<1>1. UNCHANGED <<cfg, l1vars, replies>>
  BY DEF Decode
<1>2. Flow' /\ Held' = Held /\ Unserved' = Unserved /\ SharedBack' = SharedBack
  BY <1>1, QuietStep
<1>3. PICK w \in Warp : w = fetched[1] /\ ibuffer[w] = << >>
  BY Decoded
<1>4. PICK q \in Seq(Nat) : /\ ibuffer' = [ibuffer EXCEPT ![w] = q]
                            /\ in_pipe' = [in_pipe EXCEPT ![w] = @ + Len(q)]
  BY <1>3, Decoded
<1>5. Len(ibuffer[w]) = 0 /\ in_pipe[w] \in Int /\ Len(q) \in Nat
  BY <1>3 DEF Back, Counts
<1>6. in_pipe[w] + Len(q) = in_pipe[w] + Len(q) - Len(ibuffer[w])
  BY <1>5
<1>7. in_pipe' = [in_pipe EXCEPT ![w] = @ + Len(q) - Len(ibuffer[w])]
  BY <1>4, <1>6
<1>8. UNCHANGED <<slots, pc, completed, done_exit, n_atomic, stores, board, units>>
  BY DEF Decode
<1> QED BY <1>2, <1>4, <1>7, <1>8, Lens, FrontDecode, BufferChanges

\* The units.
LEMMA PipeUnits ==
  ASSUME Pipe, (\E x \in alu : AluWriteback(x)) \/ (\E x \in oc : LdstIssue(x)) \/ NothingToSend
  PROVE  Pipe'
<1> USE DEF Pipe
<1>1. /\ UNCHANGED <<cfg, l1vars, replies>>
      /\ UNCHANGED <<cfg, launches, slots, pc, front, completed, done_exit>>
  BY DEF AluWriteback, LdstIssue, NothingToSend
<1>2. Flow' /\ Held' = Held /\ Unserved' = Unserved /\ SharedBack' = SharedBack
  BY <1>1, QuietStep
<1>3. Front'
  BY <1>1, FrontKeeps
<1>4. CASE \E x \in alu : AluWriteback(x)
  BY <1>2, <1>3, <1>4, Lens, BackAlu
<1>5. CASE \E x \in oc : LdstIssue(x)
  BY <1>2, <1>3, <1>5, BackLdstIssue
<1>6. CASE NothingToSend
  BY <1>2, <1>3, <1>6, Lens, BackNothing
<1> QED BY <1>4, <1>5, <1>6

\* The dispatch register sends an access.
LEMMA PipeSends ==
  ASSUME Pipe, SendPastL1 \/ SendToL1Queue \/ AccessL1
  PROVE  Pipe'
<1> USE DEF Pipe
<1>1. PICK a : a = Access(dispatch[1])
  OBVIOUS
<1>2. /\ dispatch # << >> /\ dispatch[1].left > 0
      /\ UNCHANGED <<cfg, launches, slots, pc, front, completed, done_exit>>
      /\ ibuffer' = ibuffer /\ n_atomic' = n_atomic /\ alu' = alu /\ oc' = oc /\ smem' = smem
      /\ cfg' = cfg /\ next_wb' = next_wb
      /\ UNCHANGED <<slots, pc, ibuffer, completed, done_exit, n_atomic, alu, oc, smem>>
  BY DEF SendPastL1, SendToL1Queue, AccessL1, ToL1, front, replies
<1>3. /\ a \in Acc /\ a \notin Held /\ (IsLoad(a) \/ IsStore(a)) /\ a.k \in 1 .. a.inst.n
      /\ a.inst = dispatch[1].x.inst
  BY <1>1, <1>2, AccessOf
<1>4. Front' /\ SharedBack' = SharedBack
  BY <1>2, FrontKeeps DEF SharedBack
<1>5. \A v \in Warp : Len(ibuffer[v]) \in Nat
  BY Lens
<1>6. CASE SendPastL1
  <2>1. /\ Bypasses(a.inst) /\ memory' = memory \cup {a} /\ CountStore(a) /\ Sent(dispatch[1], pending)
        /\ UNCHANGED <<cfg, l1vars, response, next_global, next_wb>>
    BY <1>1, <1>3, <1>6 DEF SendPastL1
  <2>2. Flow' /\ Held' = Held \cup {a} /\ held'["wb"] = held["wb"]
    BY <1>3, <2>1, PastL1
  <2>3. Back'
    BY <1>1, <1>2, <1>4, <1>5, <2>1, <2>2, BackSent
  <2> QED BY <1>4, <2>2, <2>3
<1>7. CASE SendToL1Queue
  <2>1. /\ ~Bypasses(a.inst) /\ l1q' = Append(l1q, a) /\ CountStore(a) /\ Sent(dispatch[1], pending)
        /\ UNCHANGED <<cfg, mshr, l1ready, replies>>
    BY <1>1, <1>3, <1>7 DEF SendToL1Queue, ToL1
  <2>2. Flow' /\ Held' = Held \cup {a} /\ held'["wb"] = held["wb"]
    BY <1>3, <2>1, ToQueue
  <2>3. Back'
    BY <1>1, <1>2, <1>4, <1>5, <2>1, <2>2, BackSent
  <2> QED BY <1>4, <2>2, <2>3
<1>8. CASE AccessL1 /\ L1Misses(a) /\ CountStore(a) /\ Sent(dispatch[1], pending)
  <2>1. /\ ~Bypasses(a.inst) /\ l1q' = l1q /\ UNCHANGED <<cfg, l1ready, response, next_global, next_wb>>
    BY <1>3, <1>8 DEF AccessL1, ToL1
  <2>2. \A p \in Place : a \notin held[p]
    BY <1>3 DEF Held, All
  <2>3. l1q' \in Seq(Acc) /\ Once(l1q') /\ Range(l1q') = Range(l1q) \ {a}
    <3>1. a \notin Range(l1q)
      BY <2>2, HeldAre DEF Place
    <3> QED BY <2>1, <3>1 DEF Flow, Buffers, OnceOK
  <2>4. Flow' /\ Held' = Held \cup {a} /\ held'["wb"] = held["wb"]
    BY <1>3, <1>8, <2>1, <2>2, <2>3, MissKeeps
  <2>5. Back'
    BY <1>1, <1>2, <1>4, <1>5, <1>8, <2>4, BackSent
  <2> QED BY <1>4, <2>4, <2>5
<1>9. CASE AccessL1 /\ Sent(dispatch[1], IF IsLoad(a) THEN OneLess(a) ELSE pending)
           /\ UNCHANGED <<memory, mshr, stores>>
  <2>1. /\ dispatch[1].x.inst.op # "atomic"
        /\ UNCHANGED <<cfg, l1vars, replies>>
    BY <1>2, <1>9 DEF AccessL1, ToL1, Bypasses, l1vars, replies
  <2>2. Flow' /\ Held' = Held /\ Unserved' = Unserved /\ SharedBack' = SharedBack
    BY <2>1, QuietStep
  <2>3. UNCHANGED <<slots, pc, ibuffer, completed, done_exit, n_atomic, stores, alu, oc, smem>>
    BY <1>2, <1>9
  <2>4. Back'
    BY <1>1, <1>2, <1>5, <1>9, <2>1, <2>2, <2>3, BackHit
  <2> QED BY <1>4, <2>2, <2>4
<1>10. AccessL1 => \/ L1Misses(a) /\ CountStore(a) /\ Sent(dispatch[1], pending)
                   \/ /\ Sent(dispatch[1], IF IsLoad(a) THEN OneLess(a) ELSE pending)
                      /\ UNCHANGED <<memory, mshr, stores>>
  BY <1>1 DEF AccessL1
<1> QED BY <1>6, <1>7, <1>8, <1>9, <1>10

\* An access that is not an atomic leaves the count of atomics alone.
LEMMA NotAtomic ==
  ASSUME NEW a, a.inst.op # "atomic",
         Unserved' = Unserved \ {a} \/ Unserved' = Unserved \/ Unserved' \cup {a} = Unserved
  PROVE  \A w \in Warp : Unserved' \cap Mine(w, "atomic") = Unserved \cap Mine(w, "atomic")
<1>1. \A w \in Warp : a \notin Mine(w, "atomic")
  BY DEF Mine
<1> QED BY <1>1

\* The L1D cache takes an access from its queue.
LEMMA PipeQueue ==
  ASSUME Pipe, L1QueueCycle
  PROVE  Pipe'
<1> USE DEF Pipe
<1>1. PICK a : a = Head(l1q)
  OBVIOUS
<1>2. /\ l1q # << >> /\ l1q' = Tail(l1q)
      /\ UNCHANGED <<cfg, launches, slots, pc, front, completed, done_exit>>
      /\ UNCHANGED <<slots, pc, ibuffer, completed, done_exit, n_atomic, in_pipe, units>>
      /\ next_wb' = next_wb
  BY DEF L1QueueCycle, front
<1>3. l1q \in Seq(Acc) /\ Once(l1q)
  BY DEF Flow, Buffers, OnceOK
<1>4. /\ l1q' \in Seq(Acc) /\ Once(l1q') /\ Range(l1q') = Range(l1q) \ {a} /\ a \in Range(l1q) /\ a \in Acc
  BY <1>1, <1>2, <1>3, OnceTail
<1>5. \A p \in Place : p # "l1q" => a \notin held[p]
  <2>1. a \in held["l1q"] /\ "l1q" \in Place
    BY <1>4, HeldAre DEF Place
  <2> QED BY <2>1 DEF Flow, OnceOK, Apart
<1>6. a \in Held
  <2>1. a \in held["l1q"] /\ "l1q" \in Place
    BY <1>4, HeldAre DEF Place
  <2> QED BY <2>1 DEF Held, All
<1>7. (IsLoad(a) \/ IsStore(a)) /\ a.k \in 1 .. a.inst.n /\ ~Bypasses(a.inst) /\ a.inst.op # "atomic"
  <2>1. (IsLoad(a) \/ IsStore(a)) /\ a.k \in 1 .. a.inst.n /\ ~Bypasses(a.inst)
    BY <1>4, <1>6 DEF Flow, AccessesOK
  <2> QED BY <2>1 DEF Bypasses
<1>8. Front' /\ SharedBack' = SharedBack
  BY <1>2, FrontKeeps DEF SharedBack
<1>9. CASE L1Misses(a) /\ UNCHANGED <<board, stores>> /\ UNCHANGED <<l1ready, response, next_global, next_wb>>
  <2>1. Flow' /\ Held' = Held \cup {a} /\ held'["wb"] = held["wb"]
    BY <1>2, <1>4, <1>5, <1>7, <1>9, MissKeeps
  <2>2. Held' = Held /\ Unserved' = Unserved
    BY <1>6, <2>1, UnservedBecomes
  <2>3. Back'
    BY <1>2, <1>8, <1>9, <2>2, BackKeeps
  <2> QED BY <1>8, <2>1, <2>3
<1>10. ASSUME UNCHANGED <<mshr, l1ready, replies>>
       PROVE  /\ Flow' /\ Held' = Held \ {a}
              /\ \A w \in Warp : Unserved' \cap Mine(w, "atomic") = Unserved \cap Mine(w, "atomic")
  <2>1. Flow' /\ Held' = Held \ {a} /\ held'["wb"] = held["wb"] /\ a \in Held \ held["wb"]
    BY <1>1, <1>2, <1>10, LeavesQueue
  <2>2. Unserved' = Unserved \ {a}
    BY <2>1, UnservedBecomes
  <2> QED BY <1>7, <2>1, <2>2, NotAtomic
<1>11. CASE IsLoad(a) /\ AccessDone(a) /\ stores' = stores /\ UNCHANGED <<mshr, l1ready, replies>>
  <2>1. Back'
    BY <1>2, <1>6, <1>8, <1>10, <1>11, BackDone
  <2> QED BY <1>8, <1>10, <1>11, <2>1
<1>12. CASE IsStore(a) /\ StoreAck(a) /\ board' = board /\ UNCHANGED <<mshr, l1ready, replies>>
  <2>1. Back'
    BY <1>2, <1>6, <1>8, <1>10, <1>12, BackStoreAck
  <2> QED BY <1>8, <1>10, <1>12, <2>1
<1> QED BY <1>1, <1>9, <1>11, <1>12 DEF L1QueueCycle, replies

\* What waits for the memory is held, as an access of its own or in the MSHR table.
LEMMA RequestHeld ==
  ASSUME Flow, NEW a \in memory \cup Range(response)
  PROVE  a \in Held
<1>1. CASE Direct(a)
  <2>1. a \in held["memory"] \/ a \in held["response"]
    BY <1>1, HeldAre
  <2> QED BY <2>1 DEF Held, All, Place
<1>2. CASE ~Direct(a)
  <2>1. a \in held["mshr"]
    BY <1>2, Entries, HeldAre DEF Flow, FetchesOK
  <2> QED BY <2>1 DEF Held, All, Place
<1> QED BY <1>1, <1>2

\* No ld.global.nc is in flight under gmem_skip_L1D.
LEMMA NoNc ==
  ASSUME Front, CurrentOK, NEW x \in InFlight, cfg.skip
  PROVE  x.inst.op # "nc"
BY DEF Front, SkipOK, CurrentOK, Current

\* The memory answers.
LEMMA PipeAnswers ==
  ASSUME Pipe, (\E a \in memory : MemoryAnswers(a)) \/ TakeResponse
  PROVE  Pipe'
<1> USE DEF Pipe
<1>1. /\ UNCHANGED <<cfg, launches, slots, pc, front, completed, done_exit>>
      /\ UNCHANGED <<slots, pc, ibuffer, completed, done_exit, n_atomic, in_pipe, board, units>>
      /\ next_wb' = next_wb /\ l1q' = l1q
  BY DEF MemoryAnswers, TakeResponse, front, counters, l1vars
<1>2. Front' /\ SharedBack' = SharedBack
  BY <1>1, FrontKeeps DEF SharedBack
<1>3. ASSUME Held' = Held, held'["wb"] = held["wb"], stores' = stores
      PROVE  Back'
  <2>1. Unserved' = Unserved
    BY <1>3, UnservedBecomes
  <2> QED BY <1>1, <1>2, <1>3, <2>1, BackKeeps
<1>4. CASE \E a \in memory : MemoryAnswers(a)
  <2>1. PICK a \in memory : MemoryAnswers(a)
    BY <1>4
  <2>2. /\ memory' = memory \ {a} /\ response' = Append(response, a) /\ stores' = stores
        /\ UNCHANGED <<cfg, l1vars, next_global, next_wb>>
    BY <2>1 DEF MemoryAnswers, counters
  <2>3. Flow' /\ Held' = Held /\ held'["wb"] = held["wb"]
    BY <2>2, Answered
  <2> QED BY <1>2, <1>3, <2>2, <2>3
<1>5. CASE TakeResponse
  <2>1. PICK a : a = Head(response)
    OBVIOUS
  <2>2. response # << >> /\ response' = Tail(response) /\ UNCHANGED <<cfg, memory, next_wb>>
    BY <1>5 DEF TakeResponse
  <2>3. a \in Held /\ a \in InFlight
    <3>1. response \in Seq(Acc) /\ Once(response)
      BY DEF Flow, Buffers, OnceOK
    <3>2. a \in Range(response)
      BY <2>1, <2>2, <3>1, OnceTail
    <3> QED BY <3>2, RequestHeld DEF InFlight
  <2>4. IsLoad(a) \/ IsStore(a)
    BY <2>3 DEF Flow, AccessesOK
  <2>5. CASE IsStore(a) /\ StoreAck(a) /\ UNCHANGED <<mshr, l1ready, next_global>>
    <3>1. UNCHANGED <<cfg, l1vars, memory, next_global, next_wb>>
      BY <1>1, <2>2, <2>5 DEF l1vars
    <3>2. Flow' /\ Held' = Held \ {a} /\ held'["wb"] = held["wb"] /\ a \in Held \ held["wb"]
      BY <2>1, <2>2, <2>5, <3>1, StoreTaken
    <3>3. Unserved' = Unserved \ {a} /\ a.inst.op # "atomic"
      BY <2>5, <3>2, UnservedBecomes DEF IsStore
    <3>4. \A w \in Warp : Unserved' \cap Mine(w, "atomic") = Unserved \cap Mine(w, "atomic")
      BY <3>3, NotAtomic
    <3>5. Back'
      BY <1>1, <1>2, <2>5, <3>2, <3>4, BackStoreAck
    <3> QED BY <1>2, <3>2, <3>5
  <2>6. CASE /\ ~IsStore(a) /\ AnswerBypasses(a.inst) /\ next_global = << >>
             /\ next_global' = <<a>> /\ UNCHANGED <<mshr, l1ready, stores>>
    <3>1. UNCHANGED <<cfg, l1vars, memory, next_wb>>
      BY <1>1, <2>2, <2>6 DEF l1vars
    <3>2. IsLoad(a) /\ Bypasses(a.inst)
      <4>1. cfg.skip => a.inst.op # "nc"
        BY <2>3, NoNc DEF Back
      <4> QED BY <2>4, <2>6, <4>1 DEF AnswerBypasses, Bypasses
    <3>3. Flow' /\ Held' = Held /\ held'["wb"] = held["wb"]
      BY <2>1, <2>2, <2>6, <3>1, <3>2, GlobalTaken
    <3> QED BY <1>2, <1>3, <2>6, <3>3
  <2>7. CASE /\ ~IsStore(a) /\ ~AnswerBypasses(a.inst) /\ UNCHANGED <<next_global, stores>>
             /\ \E e \in Waiters(Line(a)) : mshr' = mshr \ {e} /\ l1ready' = l1ready \o e
    <3>1. ~Direct(a)
      BY <2>7 DEF AnswerBypasses, Direct, Bypasses
    <3>2. PICK e \in Waiters(Line(a)) : mshr' = mshr \ {e} /\ l1ready' = l1ready \o e
      BY <2>7
    <3>3. UNCHANGED <<cfg, l1q, memory, next_global, next_wb>>
      BY <1>1, <2>2, <2>7
    <3>4. Flow' /\ Held' = Held /\ held'["wb"] = held["wb"]
      BY <2>1, <2>2, <3>1, <3>2, <3>3, FillTaken
    <3> QED BY <1>2, <1>3, <2>7, <3>4
  <2> QED BY <1>5, <2>1, <2>5, <2>6, <2>7 DEF TakeResponse
<1> QED BY <1>4, <1>5

\* The registers of the ldst unit at its end.
LEMMA Ends ==
  ASSUME Pipe
  PROVE  /\ smem # << >> => smem = <<smem[1]>> /\ smem[1] \in Instr /\ smem[1].inst.op = "shared"
         /\ next_global # << >> => /\ next_global = <<next_global[1]>>
                                   /\ next_global[1] \in Range(next_global) /\ IsLoad(next_global[1])
         /\ next_wb = << >> => SharedBack = {} /\ held["wb"] = {}
         /\ next_wb # << >> => next_wb = <<next_wb[1]>>
<1>1. smem # << >> => smem = <<smem[1]>> /\ smem[1] \in Instr /\ smem[1].inst.op = "shared"
  <2>1. smem # << >> => smem = <<smem[1]>> /\ smem[1] \in Instr /\ Range(smem) = {smem[1]}
    BY RegisterRange DEF Pipe, Back, Units
  <2> QED BY <2>1 DEF Pipe, Back, StagesOK
<1>2. next_global # << >> => /\ next_global = <<next_global[1]>>
                             /\ next_global[1] \in Range(next_global) /\ IsLoad(next_global[1])
  <2>1. next_global # << >> => next_global = <<next_global[1]>> /\ Range(next_global) = {next_global[1]}
    BY RegisterRange DEF Pipe, Flow, Buffers
  <2> QED BY <2>1 DEF Pipe, Flow, AccessesOK
<1>3. next_wb = << >> => SharedBack = {} /\ held["wb"] = {}
  BY RangeOne, HeldAre DEF SharedBack
<1>4. next_wb # << >> => next_wb = <<next_wb[1]>>
  BY DEF Pipe, Flow, Buffers, Register
<1> QED BY <1>1, <1>2, <1>3, <1>4

\* A client gets the writeback register.
LEMMA PipeServe ==
  ASSUME Pipe, ServeClient
  PROVE  Pipe'
<1>1. Front /\ Flow /\ Back
  BY DEF Pipe
<1>2. /\ next_wb = << >> /\ l1q' = l1q /\ mshr' = mshr
      /\ UNCHANGED <<cfg, launches, slots, pc, front, completed, done_exit>>
      /\ UNCHANGED <<slots, pc, ibuffer, completed, done_exit, stores, board, alu, oc, dispatch, memory,
                     response>>
  BY DEF ServeClient, front
<1>3. Front' /\ SharedBack = {} /\ held["wb"] = {}
  BY <1>1, <1>2, FrontKeeps, Ends
<1>4. CASE /\ smem # << >> /\ next_wb' = smem /\ smem' = << >>
           /\ in_pipe' = [in_pipe EXCEPT ![smem[1].w] = @ - 1]
           /\ UNCHANGED <<next_global, l1ready, n_atomic>>
  <2>1. PICK x \in Instr : x = smem[1] /\ next_wb' = <<x>> /\ ~IsLoad(x)
    BY <1>4, Ends DEF IsLoad
  <2>2. UNCHANGED <<cfg, l1vars, memory, response, next_global>>
    BY <1>2, <1>4 DEF l1vars
  <2>3. Flow' /\ Held' = Held /\ held'["wb"] = held["wb"] /\ SharedBack' = {x}
    BY <1>1, <1>2, <2>1, <2>2, SharedServed
  <2>4. Unserved' = Unserved
    BY <2>3, UnservedBecomes
  <2>5. SharedBack' = {smem[1]} /\ \A v \in Warp : Len(ibuffer[v]) \in Nat
    BY <1>1, <2>1, <2>3, Lens
  <2>6. Back'
    BY <1>1, <1>2, <1>3, <1>4, <2>3, <2>4, <2>5, BackSharedServed
  <2> QED BY <1>3, <2>3, <2>6 DEF Pipe
<1>5. CASE /\ next_global # << >> /\ next_wb' = next_global /\ next_global' = << >>
           /\ n_atomic' = IF next_global[1].inst.op = "atomic"
                            THEN [n_atomic EXCEPT ![next_global[1].w] = @ - 1] ELSE n_atomic
           /\ UNCHANGED <<smem, l1ready, in_pipe>>
  <2>1. PICK a : a = next_global[1] /\ next_wb' = <<a>> /\ IsLoad(a)
    BY <1>5, Ends
  <2>2. UNCHANGED <<cfg, l1vars, memory, response>>
    BY <1>2, <1>5 DEF l1vars
  <2>3. /\ Flow' /\ Held' = Held /\ a \in Held \ held["wb"] /\ held["wb"] = {} /\ held'["wb"] = {a}
    BY <1>1, <1>2, <1>5, <2>1, <2>2, GlobalServed
  <2>4. a \in Unserved /\ Unserved' = Unserved \ {a}
    BY <2>3, UnservedBecomes
  <2>5. SharedBack' = SharedBack
    BY <1>3, <2>1, RangeOne DEF SharedBack, IsLoad
  <2>6. n_atomic' = IF a.inst.op = "atomic" THEN [n_atomic EXCEPT ![a.w] = @ - 1] ELSE n_atomic
    BY <1>5, <2>1
  <2>7. Back'
    BY <1>1, <1>2, <1>5, <2>3, <2>4, <2>5, <2>6, BackServed DEF units
  <2> QED BY <1>3, <2>3, <2>7 DEF Pipe
<1>6. CASE /\ l1ready # << >> /\ next_wb' = <<Head(l1ready)>> /\ l1ready' = Tail(l1ready)
           /\ UNCHANGED <<smem, next_global, n_atomic, in_pipe>>
  <2>1. PICK a : a = Head(l1ready) /\ next_wb' = <<a>>
    BY <1>6
  <2>2. UNCHANGED <<cfg, l1q, mshr, memory, response, next_global>>
    BY <1>2, <1>6
  <2>3. /\ Flow' /\ Held' = Held /\ held["wb"] = {} /\ held'["wb"] = {a} /\ ~Bypasses(a.inst)
    BY <1>1, <1>2, <1>6, <2>1, <2>2, L1Served
  <2>4. IsLoad(a)
    <3>1. l1ready \in Seq(Acc) /\ Once(l1ready)
      BY <1>1 DEF Flow, Buffers, OnceOK
    <3>2. a \in Range(l1ready)
      BY <1>6, <2>1, <3>1, OnceTail
    <3> QED BY <1>1, <3>2 DEF Flow, AccessesOK
  <2>5. SharedBack' = SharedBack
    BY <1>3, <2>1, <2>4, RangeOne DEF SharedBack, IsLoad
  <2>6. Unserved' = Unserved \ {a} /\ a.inst.op # "atomic"
    BY <2>3, UnservedBecomes DEF Bypasses
  <2>7. \A w \in Warp : Unserved' \cap Mine(w, "atomic") = Unserved \cap Mine(w, "atomic")
    BY <2>6, NotAtomic
  <2>8. Back'
    BY <1>1, <1>2, <1>6, <2>3, <2>5, <2>7, BackKeeps DEF units
  <2> QED BY <1>3, <2>3, <2>8 DEF Pipe
<1> QED BY <1>4, <1>5, <1>6 DEF ServeClient

\* An instruction or an access is written back.
LEMMA PipeWriteback ==
  ASSUME Pipe, Writeback
  PROVE  Pipe'
<1>1. Front /\ Flow /\ Back
  BY DEF Pipe
<1>2. /\ next_wb # << >> /\ next_wb' = << >> /\ UNCHANGED <<cfg, l1vars, memory, response, next_global>>
      /\ UNCHANGED <<cfg, launches, slots, pc, front, completed, done_exit>>
      /\ UNCHANGED <<slots, pc, ibuffer, completed, done_exit, n_atomic, stores, in_pipe, units>>
  BY DEF Writeback, front, counters
<1>3. PICK a : a = next_wb[1]
  OBVIOUS
<1>4. /\ Flow' /\ held["wb"] \subseteq Held /\ Held' = Held \ held["wb"] /\ held'["wb"] = {}
      /\ IsLoad(a) => held["wb"] = {a} /\ SharedBack = {}
      /\ ~IsLoad(a) => held["wb"] = {} /\ SharedBack = {a}
      /\ SharedBack' = {}
  BY <1>1, <1>2, <1>3, WrittenBack
<1>5. Unserved' = Unserved
  BY <1>4, UnservedBecomes
<1>6. Front'
  BY <1>1, <1>2, FrontKeeps
<1>7. CASE IsLoad(a)
  <2>1. a \in Held /\ Held' = Held \ {a} /\ SharedBack' = SharedBack
    BY <1>4, <1>7
  <2>2. AccessDone(a)
    BY <1>3, <1>7 DEF Writeback, IsLoad
  <2>3. Back'
    BY <1>1, <1>2, <1>5, <1>7, <2>1, <2>2, BackDone
  <2> QED BY <1>4, <1>6, <2>3 DEF Pipe
<1>8. CASE ~IsLoad(a)
  <2>1. SharedBack = {a} /\ SharedBack' = {} /\ Held' = Held
    BY <1>4, <1>8
  <2>2. a.inst.op = "shared"
    BY <1>1, <2>1 DEF Back, StagesOK
  <2>3. regs' = [regs EXCEPT ![a.w] = @ \ Outs(a.inst)] /\ pending' = pending
    BY <1>3, <2>2 DEF Writeback
  <2>4. Back'
    BY <1>1, <1>2, <1>5, <2>1, <2>3, BackSharedDone
  <2> QED BY <1>4, <1>6, <2>4 DEF Pipe
<1> QED BY <1>7, <1>8

\* Nothing is in flight at the start.
LEMMA PipeInit ==
  ASSUME Init, NoSkippedNc
  PROVE  Pipe
<1>1. /\ alu = {} /\ oc = {} /\ dispatch = << >> /\ smem = << >> /\ l1q = << >> /\ mshr = {}
      /\ l1ready = << >> /\ memory = {} /\ response = << >> /\ next_global = << >> /\ next_wb = << >>
  BY DEF Init
<1>2. Range(<< >>) = {} /\ Once(<< >>)
  BY RangeOne
<1>3. \A p \in Place : held[p] = {}
  BY <1>1, <1>2, HeldAre DEF Missing, Place
<1>4. Held = {} /\ SharedBack = {} /\ Issued = {} /\ InFlight = {} /\ Unserved = {} /\ Missing = {}
  <2>1. Held = {} /\ Missing = {}
    BY <1>1, <1>3 DEF Held, All, Missing
  <2>2. SharedBack = {} /\ Issued = {}
    BY <1>1, <1>2 DEF SharedBack, Issued
  <2> QED BY <2>1, <2>2 DEF InFlight, Unserved
<1>5. cfg \in Scenarios /\ launches = cfg.programs /\ launches \in Seq(Programs)
  BY ScenariosAssumption DEF Init
<1>6. Slots
  <2>1. ibuffer \in [Warp -> Seq(Nat)]
    <3>1. << >> \in Seq(Nat)
      OBVIOUS
    <3> QED BY <3>1 DEF Init
  <2> QED BY <1>5, <2>1 DEF Init, Slots, None
<1>7. FetchOK
  BY DEF Init, FetchOK, FetchOf, None
<1>8. SkipOK
  <2>1. \A w \in Warp : \A i \in 1 .. Len(prog[w]) : FALSE
    <3>1. Len(<< >>) = 0
      OBVIOUS
    <3> QED BY <3>1 DEF Init
  <2>2. ASSUME cfg.skip, NEW n \in 1 .. Len(launches), NEW i \in 1 .. Len(launches[n])
        PROVE  launches[n][i].op # "nc"
    <3>1. n \in DOMAIN launches /\ launches[n] \in Programs
      BY <1>5
    <3>2. i \in DOMAIN launches[n]
      BY <3>1, ProgramOf
    <3> QED BY <1>5, <2>2, <3>1, <3>2 DEF NoSkippedNc
  <2> QED BY <2>1, <2>2 DEF SkipOK
<1>9. Buffers
  <2>1. << >> \in Seq(Acc)
    OBVIOUS
  <2> QED BY <1>1, <2>1 DEF Buffers, Register
<1>10. OnceOK
  BY <1>1, <1>2, <1>3 DEF OnceOK, Apart
<1>11. FetchesOK /\ AccessesOK
  BY <1>1, <1>2, <1>4 DEF FetchesOK, AccessesOK
<1>12. Counts
  BY DEF Init, Counts
<1>13. Units
  BY <1>1 DEF Units, Register
<1>14. FiniteOK /\ CurrentOK
  <2>1. \A w \in Warp : Due(w) = {}
    BY <1>1 DEF Due, DueIn
  <2> QED BY <1>4, <2>1, FS_EmptySet DEF FiniteOK, CurrentOK
<1>15. StagesOK
  BY <1>1, <1>2, <1>4 DEF StagesOK
<1>16. Books
  <2>1. \A T : {} \cap T = {} /\ Cardinality({}) = 0 /\ UnsentIn(T) = 0
    BY <1>1, FS_EmptySet DEF UnsentIn
  <2>2. \A w \in Warp : Due(w) = {}
    BY <1>1 DEF Due, DueIn
  <2>3. \A w \in Warp : Len(ibuffer[w]) = 0 /\ in_pipe[w] = 0 /\ stores[w] = 0 /\ n_atomic[w] = 0
    <3>1. Len(<< >>) = 0
      OBVIOUS
    <3> QED BY <3>1 DEF Init
  <2>4. PipeCount /\ StoreCount /\ AtomicCount
    <3>1. PipeCount
      BY <1>4, <2>1, <2>3 DEF PipeCount
    <3>2. StoreCount
      BY <1>4, <2>1, <2>3 DEF StoreCount
    <3>3. AtomicCount
      <4>1. \A w \in Warp : /\ Cardinality(Due(w)) = 0 /\ UnsentIn(Atomics(w)) = 0
                          /\ Cardinality(Unserved \cap Mine(w, "atomic")) = 0
        BY <1>4, <2>1, <2>2
      <4> QED BY <2>3, <4>1 DEF AtomicCount
    <3> QED BY <3>1, <3>2, <3>3
  <2>5. PendingOK
    BY <1>4, <2>1 DEF Init, PendingOK
  <2>6. OneWriter /\ HoldOK
    BY <1>4 DEF Init, OneWriter, HoldOK
  <2> QED BY <2>4, <2>5, <2>6 DEF Books
<1> QED BY <1>6, <1>7, <1>8, <1>9, <1>10, <1>11, <1>12, <1>13, <1>14, <1>15, <1>16
     DEF Pipe, Front, Flow, Back

\* Every step keeps the pipeline in order.
LEMMA PipeInductive ==
  ASSUME Pipe, [Next]_vars
  PROVE  Pipe'
<1>1. ASSUME Next
      PROVE  Pipe'
  <2>1. CASE \E w \in Warp : \/ Launch(w) \/ WarpExits(w) \/ Fetch(w) \/ FetchReturns(w)
                             \/ MembarDone(w) \/ ControlHazard(w) \/ Issue(w)
    BY <2>1, PipeFrontEnd
  <2>2. CASE Decode
    BY <2>2, PipeDecode
  <2>3. CASE (\E x \in alu : AluWriteback(x)) \/ (\E x \in oc : LdstIssue(x)) \/ NothingToSend
    BY <2>3, PipeUnits
  <2>4. CASE SendPastL1 \/ SendToL1Queue \/ AccessL1
    BY <2>4, PipeSends
  <2>5. CASE L1QueueCycle
    BY <2>5, PipeQueue
  <2>6. CASE (\E a \in memory : MemoryAnswers(a)) \/ TakeResponse
    BY <2>6, PipeAnswers
  <2>7. CASE ServeClient
    BY <2>7, PipeServe
  <2>8. CASE Writeback
    BY <2>8, PipeWriteback
  <2> QED BY <1>1, <2>1, <2>2, <2>3, <2>4, <2>5, <2>6, <2>7, <2>8 DEF Next, Ldst
<1>2. ASSUME UNCHANGED vars
      PROVE  Pipe'
  <2>1. /\ UNCHANGED <<cfg, l1vars, replies>>
        /\ UNCHANGED <<cfg, launches, slots, pc, front, completed, done_exit>>
        /\ UNCHANGED <<slots, pc, ibuffer, completed, done_exit, n_atomic, stores, in_pipe, board, units>>
    BY <1>2 DEF vars, front, counters
  <2>2. Front /\ Flow /\ Back
    BY DEF Pipe
  <2>3. Flow' /\ Held' = Held /\ Unserved' = Unserved /\ SharedBack' = SharedBack
    BY <2>1, <2>2, QuietStep
  <2> QED BY <2>1, <2>2, <2>3, FrontKeeps, BackKeeps DEF Pipe
<1> QED BY <1>1, <1>2

-------------------------------------------------------------------------------
(* What follows. *)

\* What the properties count is what the invariant counts.
LEMMA Whole ==
  ASSUME Pipe
  PROVE  /\ Outstanding = Held /\ Issued \cup Outstanding \cup Range(next_wb) = InFlight
         /\ Outstanding \ Range(next_wb) = Unserved
<1>1. Flow /\ Back /\ Units /\ StagesOK
  BY DEF Pipe, Back
<1>2. memory \cup Range(response) \subseteq Held
  BY <1>1, RequestHeld
<1>3. /\ Range(l1q) \subseteq Held /\ Missing \subseteq Held /\ Range(l1ready) \subseteq Held
      /\ Range(next_global) \subseteq Held /\ held["wb"] \subseteq Held
  BY HeldAre DEF Held, All, Place
<1>4. Outstanding = held["l1q"] \cup held["mshr"] \cup held["l1ready"] \cup memory
                    \cup Range(response) \cup held["global"] \cup held["wb"]
  <2>1. Outstanding = Range(l1q) \cup Missing \cup Range(l1ready) \cup memory \cup Range(response)
                      \cup Range(next_global) \cup {a \in Range(next_wb) : IsLoad(a)}
    BY DEF Outstanding, Missing
  <2>2. /\ held["l1q"] = Range(l1q) /\ held["mshr"] = Missing /\ held["l1ready"] = Range(l1ready)
        /\ held["global"] = Range(next_global) /\ held["wb"] = {a \in Range(next_wb) : IsLoad(a)}
    BY HeldAre
  <2> QED BY <2>1, <2>2
<1>5. held["memory"] \subseteq memory /\ held["response"] \subseteq Range(response)
  BY HeldAre
<1>6. Outstanding = Held
  <2>1. \A p \in Place : held[p] \subseteq Outstanding
    BY <1>4, <1>5 DEF Place
  <2>2. Held \subseteq Outstanding
    BY <2>1 DEF Held, All
  <2>3. Outstanding \subseteq Held
    BY <1>2, <1>3, <1>4, HeldAre
  <2> QED BY <2>2, <2>3
<1>7. Range(next_wb) = held["wb"] \cup SharedBack
  BY HeldAre DEF SharedBack
<1>8. \A a \in SharedBack : a \notin Held
  BY <1>1, Kinds DEF IsLoad, IsStore
<1> QED BY <1>3, <1>6, <1>7, <1>8 DEF InFlight, Unserved

LEMMA PipeCounters ==
  ASSUME Pipe
  PROVE  CountersExact
<1>1. Flow /\ Back /\ Units /\ StagesOK /\ PipeCount /\ StoreCount /\ AtomicCount
  BY DEF Pipe, Back, Books
<1>2. Outstanding = Held /\ Outstanding \ Range(next_wb) = Unserved
  BY Whole
<1>3. Held \subseteq Acc /\ Unserved \subseteq Acc /\ Issued \subseteq Instr
  BY <1>1, Kinds DEF Unserved
<1>4. \A w \in Warp : {x \in Issued : x.w = w} = Issued \cap Of(w)
  BY <1>3 DEF Of
<1>5. \A w \in Warp : {a \in Held : a.w = w /\ a.inst.op = "store"} = Held \cap Mine(w, "store")
  BY <1>3 DEF Mine
<1>6. \A w \in Warp : {a \in Unserved : a.w = w /\ a.inst.op = "atomic"} = Unserved \cap Mine(w, "atomic")
  BY <1>3 DEF Mine
<1>7. \A w \in Warp : (IF dispatch # << >> /\ dispatch[1].x.w = w /\ dispatch[1].x.inst.op = "atomic"
                         THEN dispatch[1].left ELSE 0) = UnsentIn(Atomics(w))
  BY <1>1, SendingIs DEF UnsentIn, Atomics
<1>8. \A w \in Warp :
        UNION {{x} \X (1 .. x.inst.n) : x \in {a \in oc : a.w = w /\ a.inst.op = "atomic"}} = Due(w)
  BY DEF Due, DueIn
<1>9. \A w \in Warp : in_pipe[w] = Len(ibuffer[w]) + Cardinality({x \in Issued : x.w = w})
  BY <1>1, <1>4 DEF PipeCount
<1>10. \A w \in Warp : stores[w] = Cardinality({a \in Outstanding : a.w = w /\ a.inst.op = "store"})
  BY <1>1, <1>2, <1>5 DEF StoreCount
<1>11. \A w \in Warp :
         n_atomic[w] =
           Cardinality(UNION {{x} \X (1 .. x.inst.n) :
                                x \in {a \in oc : a.w = w /\ a.inst.op = "atomic"}})
           + (IF dispatch # << >> /\ dispatch[1].x.w = w /\ dispatch[1].x.inst.op = "atomic"
                THEN dispatch[1].left ELSE 0)
           + Cardinality({a \in Outstanding \ Range(next_wb) : a.w = w /\ a.inst.op = "atomic"})
  BY <1>1, <1>2, <1>6, <1>7, <1>8 DEF AtomicCount
<1> QED BY <1>9, <1>10, <1>11 DEF CountersExact

LEMMA PipeRegisters ==
  ASSUME Pipe
  PROVE  RegistersHeld
<1>1. CurrentOK /\ OneWriter /\ HoldOK /\ Issued \cup Outstanding \cup Range(next_wb) = InFlight
  BY Whole DEF Pipe, Back, Books
<1> SUFFICES ASSUME NEW w \in Warp, NEW r \in Reg
             PROVE  /\ Cardinality(Writers(w, r)) <= 1
                    /\ r \in regs[w] <=> Writers(w, r) # {}
  BY DEF RegistersHeld
<1>2. Writers(w, r) = {[gen |-> x.gen, i |-> x.i] : x \in {y \in InFlight : Writes(y, w, r)}}
  BY <1>1 DEF Writers, Writes
<1>3. r \in regs[w] <=> Writers(w, r) # {}
  BY <1>1, <1>2 DEF HoldOK
<1>4. ASSUME NEW c \in Writers(w, r), NEW d \in Writers(w, r)
      PROVE  c = d
  <2>1. PICK x \in InFlight : Writes(x, w, r) /\ c = [gen |-> x.gen, i |-> x.i]
    BY <1>2
  <2>2. PICK y \in InFlight : Writes(y, w, r) /\ d = [gen |-> y.gen, i |-> y.i]
    BY <1>2
  <2>3. x.i = y.i
    BY <1>1, <2>1, <2>2 DEF OneWriter
  <2>4. x.gen = y.gen
    BY <1>1, <2>1, <2>2 DEF CurrentOK, Current, Writes
  <2> QED BY <2>1, <2>2, <2>3, <2>4
<1>5. Cardinality(Writers(w, r)) <= 1
  <2>1. CASE Writers(w, r) = {}
    BY <2>1, FS_EmptySet
  <2>2. CASE Writers(w, r) # {}
    <3>1. PICK c : Writers(w, r) = {c}
      BY <1>4, <2>2
    <3>2. Cardinality({c}) = 1
      BY FS_Singleton
    <3> QED BY <3>1, <3>2
  <2> QED BY <2>1, <2>2
<1> QED BY <1>3, <1>5

LEMMA PipeOwn ==
  ASSUME Pipe
  PROVE  OwnAnswers
<1>1. FetchOK /\ CurrentOK /\ Issued \cup Outstanding \cup Range(next_wb) = InFlight
  BY Whole DEF Pipe, Front, Back
<1> QED BY <1>1 DEF FetchOK, FetchOf, CurrentOK, Current, OwnAnswers

(***************************************************************************)
(* The invariant of the pipeline, unless ld.global.nc meets gmem_skip_L1D: *)
(* every access of a load or store is in one place between the dispatch    *)
(* register and its writeback, what is in flight belongs to the warp that  *)
(* has the slot, and counters, m_pending_writes and scoreboard say what is *)
(* in flight.                                                              *)
(***************************************************************************)
THEOREM PipelineInOrder == NoSkippedNc /\ Spec => []Pipe
<1>1. NoSkippedNc /\ Init => Pipe
  BY PipeInit
<1>2. Pipe /\ [Next]_vars => Pipe'
  BY PipeInductive
<1> QED BY <1>1, <1>2, PTL DEF Spec

(***************************************************************************)
(* m_inst_in_pipeline, m_stores_outstanding and m_n_atomic are exact, so   *)
(* that a warp is found done when, and only when, it is.                   *)
(***************************************************************************)
THEOREM CountersCorrect == NoSkippedNc /\ Spec => []CountersExact
<1>1. Pipe => CountersExact
  BY PipeCounters
<1> QED BY <1>1, PipelineInOrder, PTL

(***************************************************************************)
(* The scoreboard holds a register exactly while the one instruction that  *)
(* writes it is in flight: reserveRegister never aborts, and no register   *)
(* is released between two answers of one load.                            *)
(***************************************************************************)
THEOREM RegistersCorrect == NoSkippedNc /\ Spec => []RegistersHeld
<1>1. Pipe => RegistersHeld
  BY PipeRegisters
<1> QED BY <1>1, PipelineInOrder, PTL

(***************************************************************************)
(* No answer reaches a later warp of a slot, and a fetch brings the        *)
(* instruction at which its warp goes on, as the assertion in fetch says.  *)
(***************************************************************************)
THEOREM AnswersCorrect == NoSkippedNc /\ Spec => []OwnAnswers
<1>1. Pipe => OwnAnswers
  BY PipeOwn
<1> QED BY <1>1, PipelineInOrder, PTL

===============================================================================
