--------------------------- MODULE BarrierSetProofs ---------------------------
(***************************************************************************)
(* Proofs about BarrierSet, for every number of warps, CTA slots and       *)
(* barriers and every set of programs.  What is true of a CTA depends on   *)
(* its own program only, whatever the other CTAs of the core do; a theorem *)
(* about all CTAs states what their programs must have in common.          *)
(***************************************************************************)
EXTENDS BarrierSet, FiniteSetTheorems, TLAPS

(* The programs: no bar.arrive; bar.sync without a count only; or every    *)
(* warp runs the same barriers, each for the whole CTA.                    *)
ArriveFree(p) == \A r \in 1 .. Len(p) : \A i \in 1 .. Len(p[r]) : p[r][i].bar_type # "ARRIVE"

SyncthreadsCode(p) ==
  \A r \in 1 .. Len(p) : \A i \in 1 .. Len(p[r]) :
    p[r][i].bar_type = "SYNC" /\ p[r][i].bar_count = ALL

UniformCode(p) ==
  /\ ArriveFree(p)
  /\ \A q, r \in 1 .. Len(p) : p[q] = p[r]
  /\ \A r \in 1 .. Len(p) : \A i \in 1 .. Len(p[r]) :
       p[r][i].bar_count \in {ALL, Len(p) * WarpSize}

(* The same of the warps of CTA slot c (for __syncthreads: SyncthreadsOnly). *)
NoArrive(c) ==
  \A w \in cta_to_warps[c] : \A i \in 1 .. Len(code[w]) : code[w][i].bar_type # "ARRIVE"

Uniform(c) ==
  /\ NoArrive(c)
  /\ \A v, w \in cta_to_warps[c] : code[v] = code[w]
  /\ \A w \in cta_to_warps[c] : \A i \in 1 .. Len(code[w]) :
       code[w][i].bar_count \in {ALL, Cardinality(cta_to_warps[c]) * WarpSize}

\* Every barrier of the CTA is for all its active warps.
WholeCta(c) == SyncthreadsOnly(c) \/ Uniform(c)

-------------------------------------------------------------------------------

\* The next barrier instruction of a warp that has not run all of its code.
LEMMA InstType ==
  ASSUME TypeOK, NEW w \in Warp, reached[w] < Len(code[w])
  PROVE  /\ reached[w] + 1 \in 1 .. Len(code[w])
         /\ code[w][reached[w] + 1] \in BarInst
         /\ code[w][reached[w] + 1].bar_id \in Bar
<1>1. reached[w] \in Nat /\ code[w] \in Seq(BarInst)
  BY DEF TypeOK
<1>2. reached[w] + 1 \in 1 .. Len(code[w])
  BY <1>1
<1>3. code[w][reached[w] + 1] \in BarInst
  BY <1>1, <1>2
<1> QED
  BY <1>2, <1>3 DEF BarInst

\* Every operation of barrier_set_t keeps the type.
LEMMA TypeInductive == TypeOK /\ [Next]_vars => TypeOK'
<1> SUFFICES ASSUME TypeOK, [Next]_vars PROVE TypeOK'
  OBVIOUS
<1> USE SizesAssumption
<1>1. ASSUME NEW c \in Cta, NEW p \in Programs, NEW s \in Warp,
             AllocateBarrier(c, p, s)
      PROVE  TypeOK'
  <2> DEFINE ws == s .. s + Len(p) - 1
  <2>1. p \in Seq(Seq(BarInst)) /\ Len(p) \in Nat
    BY ProgramsAssumption
  <2>2. s \in Int /\ ws \subseteq Warp
    BY <1>1 DEF AllocateBarrier, FreeWarps, Warp
  <2>3. \A w \in ws : w - s + 1 \in 1 .. Len(p)
    BY <2>1, <2>2
  <2>4. \A w \in ws : p[w - s + 1] \in Seq(BarInst)
    BY <2>1, <2>3
  <2>5. code' \in [Warp -> Seq(BarInst)]
    <3>1. code' = [w \in Warp |-> IF w \in ws THEN p[w - s + 1] ELSE code[w]]
      BY <1>1 DEF AllocateBarrier
    <3>2. \A w \in Warp : (IF w \in ws THEN p[w - s + 1] ELSE code[w]) \in Seq(BarInst)
      BY <2>4 DEF TypeOK
    <3> QED
      BY <3>1, <3>2
  <2>6. issued' \in 0 .. MaxIssued
    BY <1>1 DEF AllocateBarrier, TypeOK
  <2>7. reached' \in [Warp -> Nat]
    BY <1>1 DEF AllocateBarrier, TypeOK
  <2>8. /\ cta_to_warps' \in [Cta -> SUBSET Warp]
        /\ warp_active' \in SUBSET Warp
        /\ warp_at_barrier' \in SUBSET Warp
        /\ bar_id_to_warps' \in [Bar -> SUBSET Warp]
        /\ reduced' \in SUBSET Warp
    BY <1>1, <2>2 DEF AllocateBarrier, TypeOK
  <2> QED
    BY <2>5, <2>6, <2>7, <2>8 DEF TypeOK
<1>2. ASSUME NEW w \in Warp, WarpReachesBarrier(w) PROVE TypeOK'
  <2> DEFINE inst  == code[w][reached[w] + 1]
             there == Registered(CtaOf(w), inst.bar_id) \cup {w}
  <2>1. reached[w] < Len(code[w])
    BY <1>2 DEF WarpReachesBarrier
  <2>2. inst.bar_id \in Bar
    BY <2>1, InstType
  <2>3. there \subseteq Warp
    BY <2>2 DEF Registered, TypeOK
  <2>4. reached' \in [Warp -> Nat]
    BY <1>2 DEF WarpReachesBarrier, TypeOK
  <2>5. bar_id_to_warps' \in [Bar -> SUBSET Warp]
    BY <1>2, <2>2, <2>3 DEF WarpReachesBarrier, Freed, StillRegistered, TypeOK
  <2>6. warp_at_barrier' \in SUBSET Warp
    BY <1>2 DEF WarpReachesBarrier, TypeOK
  <2>7. reduced' \in SUBSET Warp
    BY <1>2, <2>3 DEF WarpReachesBarrier, Freed, Receivers, TypeOK
  <2> QED
    BY <1>2, <2>4, <2>5, <2>6, <2>7 DEF WarpReachesBarrier, TypeOK
<1>3. ASSUME NEW w \in Warp, WarpExit(w) PROVE TypeOK'
  BY <1>3 DEF WarpExit, TypeOK
<1>4. ASSUME NEW c \in Cta, DeallocateBarrier(c) PROVE TypeOK'
  BY <1>4 DEF DeallocateBarrier, TypeOK
<1>5. CASE UNCHANGED vars
  BY <1>5 DEF vars, TypeOK
<1> QED
  BY <1>1, <1>2, <1>3, <1>4, <1>5 DEF Next

(***************************************************************************)
(* The variables of barrier_set_t keep their types in every behaviour, for *)
(* any programs, counted barriers and bar.arrive included.                 *)
(***************************************************************************)
THEOREM TypeCorrect == Spec => []TypeOK
<1>1. Init => TypeOK
  BY SizesAssumption DEF Init, TypeOK
<1> QED
  BY <1>1, TypeInductive, PTL DEF Spec

-------------------------------------------------------------------------------
(***************************************************************************)
(* The inductive invariant.  Lockstep is not inductive: that a release     *)
(* frees all the active warps needs that a warp is registered exactly at   *)
(* the barrier it waits at (Parked), and that the warps counted are those  *)
(* of one CTA (Placed).  Each clause is about one CTA and holds if the     *)
(* CTA's own program allows it.                                            *)
(***************************************************************************)
Placed ==
  /\ \A c, d \in Cta : c # d => cta_to_warps[c] \cap cta_to_warps[d] = {}
  /\ warp_at_barrier \subseteq warp_active
  /\ \A w \in warp_active : \E c \in Cta : w \in cta_to_warps[c]

\* The CTA in slot c runs one of the programs.
Loaded(c) ==
  cta_to_warps[c] # {} =>
    \E p \in Programs, s \in Warp :
      /\ cta_to_warps[c] = s .. s + Len(p) - 1
      /\ \A w \in cta_to_warps[c] : code[w] = p[w - s + 1]

CodeOK(c) == \A w \in cta_to_warps[c] : reached[w] <= Len(code[w])

Parked(c) ==
  /\ \A w \in cta_to_warps[c] \cap warp_at_barrier :
       reached[w] > 0 /\ w \in bar_id_to_warps[LastBar(w).bar_id]
  /\ \A b \in Bar : \A w \in Registered(c, b) :
       w \in warp_at_barrier /\ LastBar(w).bar_id = b

Even(c) == \A v, w \in Active(c) : Passed(v) = Passed(w)

Wakes(c) == Active(c) # {} => \A b \in Bar : Registered(c, b) # Active(c)

\* No warp exits before all of them are past their last barrier.
Together(c) ==
  Active(c) = cta_to_warps[c] \/ \A w \in Active(c) : Passed(w) = Len(code[w])

\* ReducedWhenReleased for one CTA.
Reduces(c) ==
  \A w \in cta_to_warps[c] :
    (reached[w] > 0 /\ LastBar(w).bar_type = "RED" /\ w \notin warp_at_barrier)
      => w \in reduced

CtaOK(c) ==
  /\ Loaded(c) /\ CodeOK(c)
  /\ NoArrive(c) => Parked(c)
  /\ WholeCta(c) => Even(c) /\ Wakes(c)
  /\ Uniform(c) => Together(c) /\ Reduces(c)

BarrierInv == TypeOK /\ Placed /\ \A c \in Cta : CtaOK(c)

\* A step that does nothing to the warps of CTA slot c.
Untouched(c) ==
  /\ cta_to_warps'[c] = cta_to_warps[c]
  /\ \A w \in cta_to_warps[c] :
       /\ w \in warp_active' <=> w \in warp_active
       /\ w \in warp_at_barrier' <=> w \in warp_at_barrier
       /\ \A b \in Bar : w \in bar_id_to_warps'[b] <=> w \in bar_id_to_warps[b]
       /\ code'[w] = code[w] /\ reached'[w] = reached[w]
       /\ w \in reduced' <=> w \in reduced

\* An active warp belongs to one CTA, the one CtaOf names.
LEMMA CtaOfUnique ==
  ASSUME TypeOK, Placed, NEW w \in warp_active
  PROVE  /\ CtaOf(w) \in Cta
         /\ w \in Active(CtaOf(w))
         /\ \A c \in Cta : w \in cta_to_warps[c] => c = CtaOf(w)
BY DEF Placed, CtaOf, Active

\* Both kinds of whole-CTA programs have no bar.arrive.
LEMMA WholeNoArrive == ASSUME NEW c \in Cta, WholeCta(c) PROVE NoArrive(c)
BY DEF WholeCta, SyncthreadsOnly, Uniform, NoArrive

\* The last barrier of a warp that has issued one has a name.
LEMMA LastType ==
  ASSUME TypeOK, NEW c \in Cta, CodeOK(c), NEW w \in cta_to_warps[c], reached[w] > 0
  PROVE  /\ w \in Warp /\ reached[w] \in 1 .. Len(code[w])
         /\ LastBar(w) = code[w][reached[w]] /\ LastBar(w).bar_id \in Bar
<1>1. w \in Warp
  BY DEF TypeOK
<1>2. reached[w] \in Nat /\ code[w] \in Seq(BarInst)
  BY <1>1 DEF TypeOK
<1>3. reached[w] \in 1 .. Len(code[w])
  BY <1>2 DEF CodeOK
<1>4. code[w][reached[w]] \in BarInst
  BY <1>2, <1>3
<1> QED
  BY <1>1, <1>3, <1>4 DEF LastBar, BarInst

\* The invariant of a CTA depends on its own warps only.
LEMMA UntouchedOK ==
  ASSUME TypeOK, NEW c \in Cta, CtaOK(c), Untouched(c)
  PROVE  CtaOK(c)'
<1>1. /\ Active(c)' = Active(c)
      /\ \A b \in Bar : Registered(c, b)' = Registered(c, b)
  BY DEF Untouched, Active, Registered
<1>2. \A w \in cta_to_warps[c] :
        /\ LastBar(w)' = LastBar(w) /\ Passed(w)' = Passed(w)
  BY DEF Untouched, LastBar, Passed
<1>3. NoArrive(c)' <=> NoArrive(c)
  BY DEF Untouched, NoArrive
<1>4. SyncthreadsOnly(c)' <=> SyncthreadsOnly(c)
  BY DEF Untouched, SyncthreadsOnly
<1>5. Uniform(c)' <=> Uniform(c)
  BY <1>3 DEF Untouched, Uniform
<1>6. Active(c) \subseteq cta_to_warps[c]
  BY DEF Active
<1>7. Loaded(c)'
  BY DEF Untouched, CtaOK, Loaded
<1>8. CodeOK(c)'
  BY DEF Untouched, CtaOK, CodeOK
<1>9. Parked(c) => Parked(c)'
  <2> SUFFICES ASSUME Parked(c) PROVE Parked(c)'
    OBVIOUS
  <2>1. ASSUME NEW w \in cta_to_warps[c] \cap warp_at_barrier
        PROVE  reached[w] > 0 /\ w \in bar_id_to_warps'[LastBar(w).bar_id]
    <3>1. reached[w] > 0 /\ w \in bar_id_to_warps[LastBar(w).bar_id]
      BY DEF Parked
    <3>2. LastBar(w).bar_id \in Bar
      BY <3>1, LastType DEF CtaOK
    <3> QED
      BY <3>1, <3>2 DEF Untouched
  <2>2. \A w \in cta_to_warps[c] : w \in warp_at_barrier' <=> w \in warp_at_barrier
    BY DEF Untouched
  <2>3. \A w \in cta_to_warps[c] : reached'[w] = reached[w]
    BY DEF Untouched
  <2>4. \A b \in Bar : Registered(c, b) \subseteq cta_to_warps[c]
    BY DEF Registered
  <2>5. cta_to_warps'[c] = cta_to_warps[c]
    BY DEF Untouched
  <2> QED
    BY <1>1, <1>2, <2>1, <2>2, <2>3, <2>4, <2>5 DEF Parked
<1>10. /\ Even(c) => Even(c)'
       /\ Wakes(c) => Wakes(c)'
  BY <1>1, <1>2, <1>6 DEF Even, Wakes
<1>11. Together(c) => Together(c)'
  BY <1>1, <1>2, <1>6 DEF Together, Untouched
<1>12. Reduces(c) => Reduces(c)'
  BY <1>2 DEF Reduces, Untouched
<1> QED
  BY <1>3, <1>4, <1>5, <1>7, <1>8, <1>9, <1>10, <1>11, <1>12 DEF CtaOK, WholeCta

\* There is no warp initially, so nothing is out of step.
LEMMA BarrierInit == Init => BarrierInv
<1> SUFFICES ASSUME Init PROVE BarrierInv
  OBVIOUS
<1>1. TypeOK
  BY SizesAssumption DEF Init, TypeOK
<1>2. Placed
  BY DEF Init, Placed
<1>3. ASSUME NEW c \in Cta PROVE CtaOK(c)
  <2>1. cta_to_warps[c] = {} /\ Active(c) = {} /\ \A b \in Bar : Registered(c, b) = {}
    BY DEF Init, Active, Registered
  <2> QED
    BY <2>1 DEF CtaOK, Loaded, CodeOK, Parked, Even, Wakes, Together, Reduces
<1> QED
  BY <1>1, <1>2, <1>3 DEF BarrierInv

\* allocate_barrier adds a CTA none of whose warps has met a barrier.
LEMMA Allocates ==
  ASSUME BarrierInv, TypeOK',
         NEW c \in Cta, NEW p \in Programs, NEW s \in Warp, AllocateBarrier(c, p, s)
  PROVE  BarrierInv'
<1> DEFINE ws == s .. s + Len(p) - 1
<1>1. p \in Seq(Seq(BarInst)) /\ Len(p) \in Nat \ {0} /\ s \in Int /\ s \in ws
  BY ProgramsAssumption DEF Warp
<1>2. /\ \A d \in Cta : ws \cap cta_to_warps[d] = {}
      /\ cta_to_warps' = [cta_to_warps EXCEPT ![c] = ws]
      /\ cta_to_warps[c] = {}
      /\ warp_active' = warp_active \cup ws
      /\ warp_at_barrier' = warp_at_barrier \ ws
      /\ bar_id_to_warps' = [b \in Bar |-> bar_id_to_warps[b] \ ws]
      /\ reduced' = reduced \ ws
      /\ ws \subseteq Warp
  BY DEF AllocateBarrier, FreeWarps, AllocatedWarps
<1>3. /\ cta_to_warps'[c] = ws
      /\ \A d \in Cta \ {c} : cta_to_warps'[d] = cta_to_warps[d]
  BY <1>2 DEF BarrierInv, TypeOK
<1>4. /\ \A w \in ws : code'[w] = p[w - s + 1] /\ reached'[w] = 0
      /\ \A w \in Warp \ ws : code'[w] = code[w] /\ reached'[w] = reached[w]
  BY <1>2 DEF AllocateBarrier
<1>5. Placed'
  <2>1. \A d, e \in Cta : d # e => cta_to_warps'[d] \cap cta_to_warps'[e] = {}
    BY <1>2, <1>3 DEF BarrierInv, Placed
  <2>2. warp_at_barrier' \subseteq warp_active'
    BY <1>2 DEF BarrierInv, Placed
  <2>3. \A w \in warp_active : \E d \in Cta \ {c} : w \in cta_to_warps'[d]
    BY <1>2, <1>3 DEF BarrierInv, Placed
  <2>4. \A w \in warp_active' : \E d \in Cta : w \in cta_to_warps'[d]
    BY <1>2, <1>3, <2>3
  <2> QED
    BY <2>1, <2>2, <2>4 DEF Placed
<1>6. ASSUME NEW d \in Cta \ {c} PROVE CtaOK(d)'
  <2>1. cta_to_warps[d] \subseteq Warp \ ws
    BY <1>2 DEF BarrierInv, TypeOK
  <2>2. Untouched(d)
    BY <1>2, <1>3, <1>4, <2>1 DEF Untouched
  <2> QED
    BY <2>2, UntouchedOK DEF BarrierInv
<1>7. CtaOK(c)'
  <2>1. Active(c)' = ws /\ \A b \in Bar : Registered(c, b)' = {}
    BY <1>2, <1>3 DEF Active, Registered
  <2>2. \A w \in ws : w \notin warp_at_barrier' /\ Passed(w)' = 0
    BY <1>2, <1>4 DEF Passed
  <2>3. Loaded(c)'
    BY <1>3, <1>4 DEF Loaded
  <2>4. CodeOK(c)'
    <3>1. \A w \in ws : code'[w] \in Seq(BarInst)
      BY <1>2 DEF TypeOK
    <3> QED
      BY <1>3, <1>4, <3>1 DEF CodeOK
  <2>5. Parked(c)'
    BY <1>3, <2>1, <2>2 DEF Parked
  <2>6. Even(c)' /\ Wakes(c)'
    BY <1>1, <2>1, <2>2 DEF Even, Wakes
  <2>7. Together(c)'
    BY <1>3, <2>1 DEF Together
  <2>8. Reduces(c)'
    BY <1>3, <1>4 DEF Reduces
  <2> QED
    BY <2>3, <2>4, <2>5, <2>6, <2>7, <2>8 DEF CtaOK
<1> QED
  BY <1>5, <1>6, <1>7 DEF BarrierInv

\* A barrier for the whole CTA is complete when all the active warps are there:
\* a counted one because until then no warp has exited.
LEMMA CompleteWhole ==
  ASSUME BarrierInv, NEW c \in Cta, WholeCta(c),
         NEW w \in Active(c), w \notin warp_at_barrier, reached[w] < Len(code[w]),
         NEW inst, inst = code[w][reached[w] + 1],
         NEW there \in SUBSET Active(c)
  PROVE  Complete(c, there, inst) <=> there = Active(c)
<1>1. CASE inst.bar_count = ALL
  BY <1>1 DEF Complete
<1>2. CASE inst.bar_count # ALL
  <2>1. w \in cta_to_warps[c] /\ w \in Warp
    BY DEF Active, BarrierInv, TypeOK
  <2>2. reached[w] + 1 \in 1 .. Len(code[w])
    BY <2>1, InstType DEF BarrierInv
  <2>3. ~SyncthreadsOnly(c)
    BY <1>2, <2>1, <2>2 DEF SyncthreadsOnly
  <2>4. Uniform(c)
    BY <2>3 DEF WholeCta
  <2>5. inst.bar_count = Cardinality(cta_to_warps[c]) * WarpSize
    BY <1>2, <2>1, <2>2, <2>4 DEF Uniform
  <2>6. Active(c) = cta_to_warps[c]
    <3>1. Passed(w) # Len(code[w])
      BY DEF Passed
    <3>2. Together(c)
      BY <2>4 DEF BarrierInv, CtaOK
    <3> QED
      BY <3>1, <3>2 DEF Together
  <2>7. IsFiniteSet(cta_to_warps[c])
    <3>1. NumWarps - 1 \in Int
      BY SizesAssumption
    <3>2. IsFiniteSet(Warp)
      BY <3>1, FS_Interval DEF Warp
    <3>3. cta_to_warps[c] \in SUBSET Warp
      BY DEF BarrierInv, TypeOK
    <3> QED
      BY <3>2, <3>3, FS_Subset
  <2>8. PICK n \in Nat : n = Cardinality(cta_to_warps[c])
    BY <2>7, FS_CardinalityType
  <2>9. IsFiniteSet(there) /\ (n = Cardinality(there) => cta_to_warps[c] = there)
    BY <2>6, <2>7, <2>8, FS_Subset
  <2>10. PICK k \in Nat : k = Cardinality(there)
    BY <2>9, FS_CardinalityType
  <2>11. k * WarpSize = n * WarpSize <=> k = n
    <3> SUFFICES ASSUME k # n PROVE k * WarpSize # n * WarpSize
      OBVIOUS
    <3>1. PICK m \in Nat \ {0} : m = WarpSize
      BY SizesAssumption
    <3>2. \A i, j \in Nat : i < j => i * m < j * m
      OBVIOUS
    <3>3. k < n \/ n < k
      OBVIOUS
    <3>4. k * m \in Nat /\ n * m \in Nat
      OBVIOUS
    <3> QED
      BY <3>1, <3>2, <3>3, <3>4
  <2> QED
    BY <1>2, <2>5, <2>6, <2>8, <2>9, <2>10, <2>11 DEF Complete
<1> QED
  BY <1>1, <1>2

\* warp_reaches_barrier parks the warp, or releases all that stand at the barrier.
LEMMA Reaches ==
  ASSUME BarrierInv, TypeOK', NEW w \in Warp, WarpReachesBarrier(w)
  PROVE  BarrierInv'
<1>1. /\ w \in warp_active /\ w \notin warp_at_barrier /\ reached[w] < Len(code[w])
  BY DEF WarpReachesBarrier, CanIssue
<1>2. /\ reached[w] + 1 \in 1 .. Len(code[w])
      /\ code[w][reached[w] + 1] \in BarInst
  BY <1>1, InstType DEF BarrierInv
<1>3. PICK inst \in BarInst : inst = code[w][reached[w] + 1]
  BY <1>2
<1>4. PICK k \in Bar, c \in Cta : k = inst.bar_id /\ c = CtaOf(w)
  BY <1>1, <1>3, CtaOfUnique DEF BarInst, BarrierInv
<1>5. w \in Active(c) /\ w \in cta_to_warps[c]
  BY <1>1, <1>4, CtaOfUnique DEF BarrierInv, Active
<1>6. Registered(c, k) \cup {w} \in SUBSET cta_to_warps[c]
  BY <1>5 DEF Registered
<1>7. PICK there \in SUBSET cta_to_warps[c] : there = Registered(c, k) \cup {w}
  BY <1>6
<1>8. PICK done \in BOOLEAN : done <=> Complete(c, there, inst)
  OBVIOUS
<1>9. PICK wait \in SUBSET Warp :
        /\ wait = IF inst.bar_type \in {"SYNC", "RED"} THEN warp_at_barrier \cup {w}
                                                       ELSE warp_at_barrier
  BY DEF BarrierInv, TypeOK
<1>10. /\ UNCHANGED <<cta_to_warps, warp_active, code>>
       /\ reached' = [reached EXCEPT ![w] = @ + 1]
       /\ warp_at_barrier' = IF done THEN wait \ there ELSE wait
       /\ bar_id_to_warps' = [bar_id_to_warps EXCEPT ![k] =
                                IF done THEN @ \ there ELSE @ \cup {w}]
       /\ reduced' = IF inst.bar_type = "RED"
                       THEN IF done THEN (reduced \ {w}) \cup there ELSE reduced \ {w}
                       ELSE reduced
  BY <1>3, <1>4, <1>7, <1>8, <1>9
  DEF WarpReachesBarrier, Freed, StillRegistered, Receivers
<1>11. /\ reached'[w] = reached[w] + 1
       /\ \A v \in Warp \ {w} : reached'[v] = reached[v]
       /\ reached[w] \in Nat
       /\ bar_id_to_warps'[k] = IF done THEN bar_id_to_warps[k] \ there
                                        ELSE bar_id_to_warps[k] \cup {w}
       /\ \A b \in Bar \ {k} : bar_id_to_warps'[b] = bar_id_to_warps[b]
  BY <1>10 DEF BarrierInv, TypeOK
<1>12. LastBar(w)' = inst /\ \A v \in Warp \ {w} : LastBar(v)' = LastBar(v)
  BY <1>3, <1>10, <1>11 DEF LastBar
<1>13. Placed'
  BY <1>1, <1>9, <1>10 DEF BarrierInv, Placed
<1>14. ASSUME NEW d \in Cta \ {c} PROVE CtaOK(d)'
  <2>1. \A v \in cta_to_warps[d] : v \in Warp /\ v # w /\ v \notin there
    BY <1>5 DEF BarrierInv, Placed, TypeOK
  <2>2. Untouched(d)
    <3> SUFFICES ASSUME NEW v \in cta_to_warps[d]
                 PROVE  /\ v \in warp_at_barrier' <=> v \in warp_at_barrier
                        /\ \A b \in Bar : v \in bar_id_to_warps'[b] <=> v \in bar_id_to_warps[b]
                        /\ reached'[v] = reached[v]
                        /\ v \in reduced' <=> v \in reduced
      BY <1>10 DEF Untouched
    <3>1. v \in warp_at_barrier' <=> v \in warp_at_barrier
      BY <1>9, <1>10, <2>1
    <3>2. \A b \in Bar : v \in bar_id_to_warps'[b] <=> v \in bar_id_to_warps[b]
      BY <1>11, <2>1
    <3>3. v \in reduced' <=> v \in reduced
      BY <1>10, <2>1
    <3> QED
      BY <1>11, <2>1, <3>1, <3>2, <3>3
  <2> QED
    BY <2>2, UntouchedOK DEF BarrierInv
<1>15. CtaOK(c)'
  <2>1. /\ Active(c)' = Active(c) /\ (NoArrive(c)' <=> NoArrive(c))
        /\ (SyncthreadsOnly(c)' <=> SyncthreadsOnly(c))
        /\ (Uniform(c)' <=> Uniform(c))
    BY <1>10 DEF Active, NoArrive, SyncthreadsOnly, Uniform
  <2>2. WholeCta(c)' <=> WholeCta(c)
    BY <2>1 DEF WholeCta
  <2>3. Loaded(c)'
    BY <1>10 DEF BarrierInv, CtaOK, Loaded
  <2>4. CodeOK(c)'
    <3>1. \A v \in cta_to_warps[c] : v \in Warp /\ reached[v] <= Len(code[v])
      BY DEF BarrierInv, CtaOK, CodeOK, TypeOK
    <3>2. Len(code[w]) \in Nat
      BY DEF BarrierInv, TypeOK
    <3> QED
      BY <1>1, <1>10, <1>11, <3>1, <3>2 DEF CodeOK
  <2>5. ASSUME NoArrive(c)
        PROVE  /\ wait = warp_at_barrier \cup {w}
               /\ Parked(c)
               /\ \A v \in there \ {w} :
                    v \in warp_at_barrier /\ v \in bar_id_to_warps[k] /\ LastBar(v).bar_id = k
               /\ there \subseteq Active(c)
    <3>1. inst.bar_type # "ARRIVE"
      BY <1>2, <1>3, <1>5, <2>5 DEF NoArrive
    <3>2. inst.bar_type \in {"SYNC", "RED"}
      BY <3>1 DEF BarInst, BarrierType
    <3>3. Parked(c)
      BY <2>5 DEF BarrierInv, CtaOK
    <3>4. \A v \in there \ {w} :
            v \in warp_at_barrier /\ v \in bar_id_to_warps[k] /\ LastBar(v).bar_id = k
      BY <1>7, <3>3 DEF Parked, Registered
    <3>5. there \subseteq Active(c)
      BY <1>5, <3>4 DEF Active, BarrierInv, Placed
    <3> QED
      BY <1>9, <3>2, <3>3, <3>4, <3>5
  <2>6. NoArrive(c) => Parked(c)'
    <3> SUFFICES ASSUME NoArrive(c) PROVE Parked(c)'
      OBVIOUS
    <3>1. ASSUME NEW v \in cta_to_warps[c], v \in warp_at_barrier'
          PROVE  reached'[v] > 0 /\ v \in bar_id_to_warps'[LastBar(v)'.bar_id]
      <4>1. CASE v = w
        <5>1. ~done
          BY <1>7, <1>10, <3>1, <4>1
        <5> QED
          BY <1>4, <1>11, <1>12, <4>1, <5>1
      <4>2. CASE v # w
        <5>1. v \in warp_at_barrier /\ (done => v \notin there) /\ v \in Warp
          BY <1>10, <2>5, <3>1, <4>2 DEF BarrierInv, TypeOK
        <5>2. reached[v] > 0 /\ v \in bar_id_to_warps[LastBar(v).bar_id]
          BY <2>5, <5>1 DEF Parked
        <5>3. LastBar(v).bar_id \in Bar
          BY <5>2, LastType DEF BarrierInv, CtaOK
        <5>4. v \in bar_id_to_warps'[LastBar(v).bar_id]
          BY <1>11, <5>1, <5>2, <5>3
        <5> QED
          BY <1>11, <1>12, <4>2, <5>1, <5>2, <5>4
      <4> QED
        BY <4>1, <4>2
    <3>2. ASSUME NEW b \in Bar, NEW v \in cta_to_warps[c], v \in bar_id_to_warps'[b]
          PROVE  v \in warp_at_barrier' /\ LastBar(v)'.bar_id = b
      <4>1. v \in Warp
        BY DEF BarrierInv, TypeOK
      <4>2. CASE v = w
        <5>1. w \notin Registered(c, b)
          BY <1>1, <2>5 DEF Parked
        <5>2. w \notin bar_id_to_warps[b]
          BY <1>5, <5>1 DEF Registered
        <5>3. b = k /\ ~done
          BY <1>7, <1>11, <3>2, <4>2, <5>2
        <5> QED
          BY <1>4, <1>10, <1>12, <2>5, <4>2, <5>3
      <4>3. CASE v # w
        <5>1. v \in bar_id_to_warps[b] /\ (b = k /\ done => v \notin there)
          BY <1>11, <3>2, <4>3
        <5>2. v \in warp_at_barrier /\ LastBar(v).bar_id = b
          BY <2>5, <5>1 DEF Parked, Registered
        <5>3. done => v \notin there
          BY <2>5, <4>3, <5>1, <5>2
        <5> QED
          BY <1>10, <1>12, <2>5, <4>1, <4>3, <5>2, <5>3
      <4> QED
        BY <4>2, <4>3
    <3> QED
      BY <1>10, <3>1, <3>2 DEF Parked, Registered
  <2>7. ASSUME WholeCta(c)
        PROVE  /\ NoArrive(c) /\ Even(c) /\ Wakes(c)
               /\ done <=> there = Active(c)
    <3>1. NoArrive(c)
      BY <2>7, WholeNoArrive
    <3>2. there \subseteq Active(c)
      BY <2>5, <3>1
    <3> QED
      BY <1>1, <1>3, <1>5, <1>8, <2>7, <3>1, <3>2, CompleteWhole DEF BarrierInv, CtaOK
  <2>8. ASSUME WholeCta(c), NEW v \in Active(c)
        PROVE  Passed(v)' = IF done THEN Passed(v) + 1 ELSE Passed(v)
    <3>1. v \in Warp /\ reached[v] \in Nat
      BY DEF Active, BarrierInv, TypeOK
    <3>2. CASE v = w
      BY <1>1, <1>7, <1>10, <1>11, <2>5, <2>7, <2>8, <3>2 DEF Passed
    <3>3. CASE v # w /\ done
      <4>1. v \in warp_at_barrier /\ v \notin warp_at_barrier'
        BY <1>10, <2>5, <2>7, <2>8, <3>3
      <4> QED
        BY <1>11, <3>1, <3>3, <4>1 DEF Passed
    <3>4. CASE v # w /\ ~done
      <4>1. v \in warp_at_barrier' <=> v \in warp_at_barrier
        BY <1>10, <2>5, <2>7, <2>8, <3>4
      <4> QED
        BY <1>11, <3>1, <3>4, <4>1 DEF Passed
    <3> QED
      BY <3>2, <3>3, <3>4
  <2>9. WholeCta(c) => Even(c)'
    BY <2>1, <2>7, <2>8 DEF Even
  <2>10. WholeCta(c) => Wakes(c)'
    <3> SUFFICES ASSUME WholeCta(c), NEW b \in Bar PROVE Registered(c, b)' # Active(c)
      BY <2>1 DEF Wakes
    <3>1. CASE b # k
      <4>1. Registered(c, b)' = Registered(c, b)
        BY <1>10, <1>11, <3>1 DEF Registered
      <4> QED
        BY <1>5, <2>7, <4>1 DEF Wakes
    <3>2. CASE b = k /\ done
      <4>1. Registered(c, b)' = {}
        BY <1>7, <1>10, <1>11, <3>2 DEF Registered
      <4> QED
        BY <1>5, <4>1
    <3>3. CASE b = k /\ ~done
      <4>1. Registered(c, b)' = there
        BY <1>5, <1>7, <1>10, <1>11, <3>3 DEF Registered
      <4> QED
        BY <2>7, <3>3, <4>1
    <3> QED
      BY <3>1, <3>2, <3>3
  <2>11. ASSUME Uniform(c) PROVE Active(c) = cta_to_warps[c] /\ WholeCta(c)
    <3>1. Passed(w) # Len(code[w])
      BY <1>1 DEF Passed
    <3>2. Together(c)
      BY <2>11 DEF BarrierInv, CtaOK
    <3> QED
      BY <1>5, <2>11, <3>1, <3>2 DEF Together, WholeCta
  <2>12. Uniform(c) => Together(c)'
    BY <1>10, <2>1, <2>11 DEF Together
  <2>13. Uniform(c) => Reduces(c)'
    <3> SUFFICES ASSUME Uniform(c), NEW v \in cta_to_warps[c],
                        reached'[v] > 0, LastBar(v)'.bar_type = "RED", v \notin warp_at_barrier'
                 PROVE  v \in reduced'
      BY <1>10 DEF Reduces
    <3>1. v \in Warp /\ reached[v] \in Nat
      BY DEF BarrierInv, TypeOK
    <3>2. CASE ~done
      <4>1. v \notin warp_at_barrier /\ v # w
        BY <1>10, <2>5, <2>7, <2>11, <3>2
      <4>2. v \in reduced
        BY <1>11, <1>12, <3>1, <4>1 DEF BarrierInv, CtaOK, Reduces
      <4> QED
        BY <1>10, <3>2, <4>1, <4>2
    <3>3. CASE done
      <4>1. v \in Active(c) /\ v \in there
        BY <2>7, <2>11, <3>3
      <4>2. LastBar(v)' = inst
        <5>1. CASE v = w
          BY <1>12, <5>1
        <5>2. CASE v # w
          <6>1. v \in warp_at_barrier
            BY <2>5, <2>7, <2>11, <4>1, <5>2
          <6>2. reached[v] - 1 = reached[w]
            BY <1>1, <1>5, <2>7, <2>11, <4>1, <6>1 DEF Even, Passed
          <6>3. reached[v] = reached[w] + 1 /\ code[v] = code[w]
            BY <1>5, <1>11, <3>1, <6>2 DEF Uniform
          <6> QED
            BY <1>3, <1>12, <3>1, <5>2, <6>3 DEF LastBar
        <5> QED
          BY <5>1, <5>2
      <4> QED
        BY <1>10, <3>3, <4>1, <4>2
    <3> QED
      BY <3>2, <3>3
  <2> QED
    BY <2>1, <2>2, <2>3, <2>4, <2>6, <2>9, <2>10, <2>12, <2>13 DEF CtaOK
<1> QED
  BY <1>13, <1>14, <1>15 DEF BarrierInv

\* warp_exit releases the others exactly when the warp was the last one they waited for.
LEMMA Exits ==
  ASSUME BarrierInv, TypeOK', NEW w \in Warp, WarpExit(w)
  PROVE  BarrierInv'
<1>1. w \in warp_active /\ w \notin warp_at_barrier /\ reached[w] = Len(code[w])
  BY DEF WarpExit, CanIssue
<1>2. PICK c \in Cta : c = CtaOf(w) /\ w \in Active(c) /\ w \in cta_to_warps[c]
  BY <1>1, CtaOfUnique DEF BarrierInv, Active
<1>3. Active(c) \ {w} \in SUBSET cta_to_warps[c]
  BY DEF Active
<1>4. PICK left \in SUBSET cta_to_warps[c] : left = Active(c) \ {w}
  BY <1>3
<1>5. PICK released \in SUBSET Bar : released = {b \in Bar : Registered(c, b) = left}
  OBVIOUS
<1>6. /\ UNCHANGED <<cta_to_warps, code, reached, reduced>>
      /\ warp_active' = warp_active \ {w}
      /\ bar_id_to_warps' =
           [b \in Bar |-> IF b \in released THEN bar_id_to_warps[b] \ left
                                            ELSE bar_id_to_warps[b]]
      /\ warp_at_barrier' = IF released # {} THEN warp_at_barrier \ left
                                             ELSE warp_at_barrier
  BY <1>2, <1>4, <1>5 DEF WarpExit, ReleasedByExit
<1>7. \A v : LastBar(v)' = LastBar(v)
  BY <1>6 DEF LastBar
<1>8. Placed'
  BY <1>1, <1>6 DEF BarrierInv, Placed
<1>9. ASSUME NEW d \in Cta \ {c} PROVE CtaOK(d)'
  <2>1. \A v \in cta_to_warps[d] : v # w /\ v \notin left
    BY <1>2 DEF BarrierInv, Placed
  <2>2. Untouched(d)
    BY <1>6, <2>1 DEF Untouched
  <2> QED
    BY <2>2, UntouchedOK DEF BarrierInv
<1>10. CtaOK(c)'
  <2>1. /\ Active(c)' = left /\ (NoArrive(c)' <=> NoArrive(c))
        /\ (SyncthreadsOnly(c)' <=> SyncthreadsOnly(c))
        /\ (Uniform(c)' <=> Uniform(c))
    BY <1>4, <1>6 DEF Active, NoArrive, SyncthreadsOnly, Uniform
  <2>2. WholeCta(c)' <=> WholeCta(c)
    BY <2>1 DEF WholeCta
  <2>3. Loaded(c)' /\ CodeOK(c)'
    BY <1>6 DEF BarrierInv, CtaOK, Loaded, CodeOK
  <2>4. ASSUME NoArrive(c)
        PROVE  /\ Parked(c)
               /\ released # {} => left \subseteq warp_at_barrier
    BY <1>5, <2>4 DEF Parked, Registered, BarrierInv, CtaOK
  <2>5. ASSUME NoArrive(c), NEW b \in Bar, NEW v \in cta_to_warps[c], v \in bar_id_to_warps[b],
               b \in released => v \notin left
        PROVE  released # {} => v \notin left
    <3> SUFFICES ASSUME v \in left, NEW a \in released PROVE FALSE
      OBVIOUS
    <3>1. v \in Registered(c, a) /\ v \in Registered(c, b) /\ a \in Bar
      BY <1>5, <2>5 DEF Registered
    <3>2. a = b
      BY <2>4, <2>5, <3>1 DEF Parked
    <3> QED
      BY <2>5, <3>2
  <2>6. NoArrive(c) => Parked(c)'
    <3> SUFFICES ASSUME NoArrive(c) PROVE Parked(c)'
      OBVIOUS
    <3>1. ASSUME NEW v \in cta_to_warps[c], v \in warp_at_barrier'
          PROVE  reached'[v] > 0 /\ v \in bar_id_to_warps'[LastBar(v)'.bar_id]
      <4>1. v \in warp_at_barrier /\ (released # {} => v \notin left)
        BY <1>6, <3>1
      <4>2. reached[v] > 0 /\ v \in bar_id_to_warps[LastBar(v).bar_id]
        BY <2>4, <4>1 DEF Parked
      <4>3. LastBar(v).bar_id \in Bar
        BY <4>2, LastType DEF BarrierInv, CtaOK
      <4> QED
        BY <1>6, <1>7, <4>1, <4>2, <4>3
    <3>2. ASSUME NEW b \in Bar, NEW v \in cta_to_warps[c], v \in bar_id_to_warps'[b]
          PROVE  v \in warp_at_barrier' /\ LastBar(v)'.bar_id = b
      <4>1. v \in bar_id_to_warps[b] /\ (b \in released => v \notin left)
        BY <1>6, <3>2
      <4>2. v \in warp_at_barrier /\ LastBar(v).bar_id = b
        BY <2>4, <4>1 DEF Parked, Registered
      <4>3. released # {} => v \notin left
        BY <2>5, <4>1
      <4> QED
        BY <1>6, <1>7, <4>2, <4>3
    <3> QED
      BY <1>6, <3>1, <3>2 DEF Parked, Registered
  <2>7. WholeCta(c) => NoArrive(c) /\ Even(c)
    BY WholeNoArrive DEF BarrierInv, CtaOK
  <2>8. ASSUME WholeCta(c), NEW v \in left
        PROVE  Passed(v)' = IF released # {} THEN Passed(v) + 1 ELSE Passed(v)
    <3>1. v \in Warp /\ reached[v] \in Nat
      BY <1>4 DEF BarrierInv, TypeOK
    <3>2. CASE released # {}
      <4>1. v \in warp_at_barrier /\ v \notin warp_at_barrier'
        BY <1>6, <2>4, <2>7, <2>8, <3>2
      <4> QED
        BY <1>6, <3>1, <3>2, <4>1 DEF Passed
    <3>3. CASE released = {}
      BY <1>6, <3>3 DEF Passed
    <3> QED
      BY <3>2, <3>3
  <2>9. WholeCta(c) => Even(c)'
    BY <1>4, <2>1, <2>7, <2>8 DEF Even
  <2>10. WholeCta(c) => Wakes(c)'
    <3> SUFFICES ASSUME left # {}, NEW b \in Bar PROVE Registered(c, b)' # left
      BY <2>1 DEF Wakes
    <3>1. CASE b \in released
      <4>1. Registered(c, b)' = {}
        BY <1>5, <1>6, <3>1 DEF Registered
      <4> QED
        BY <4>1
    <3>2. CASE b \notin released
      <4>1. Registered(c, b)' = Registered(c, b)
        BY <1>6, <3>2 DEF Registered
      <4> QED
        BY <1>5, <3>2, <4>1
    <3> QED
      BY <3>1, <3>2
  <2>11. ASSUME Uniform(c), NEW v \in left
         PROVE  Passed(v) = Len(code[v]) /\ released = {}
    <3>1. WholeCta(c) /\ v \in Active(c)
      BY <1>4, <2>11 DEF WholeCta
    <3>2. Passed(v) = Passed(w)
      BY <1>2, <2>7, <3>1 DEF Even
    <3>3. Passed(w) = Len(code[w])
      BY <1>1 DEF Passed
    <3>4. code[v] = code[w]
      BY <1>2, <2>11 DEF Uniform
    <3>5. reached[v] \in Nat /\ reached[v] <= Len(code[v])
      BY <1>4 DEF BarrierInv, TypeOK, CtaOK, CodeOK
    <3>6. v \notin warp_at_barrier
      BY <3>2, <3>3, <3>4, <3>5 DEF Passed
    <3> QED
      BY <2>4, <2>7, <3>1, <3>2, <3>3, <3>4, <3>6
  <2>12. Uniform(c) => Together(c)'
    <3> SUFFICES ASSUME Uniform(c), NEW v \in left PROVE Passed(v)' = Len(code[v])
      BY <1>6, <2>1 DEF Together
    <3>1. WholeCta(c)
      BY DEF WholeCta
    <3> QED
      BY <2>8, <2>11, <3>1
  <2>13. Uniform(c) => Reduces(c)'
    <3> SUFFICES ASSUME Uniform(c), NEW v \in cta_to_warps[c],
                        reached[v] > 0, LastBar(v).bar_type = "RED", v \notin warp_at_barrier'
                 PROVE  v \in reduced
      BY <1>6, <1>7 DEF Reduces
    <3>1. v \notin warp_at_barrier
      BY <1>6, <2>11
    <3> QED
      BY <3>1 DEF BarrierInv, CtaOK, Reduces
  <2> QED
    BY <2>1, <2>2, <2>3, <2>6, <2>9, <2>10, <2>12, <2>13 DEF CtaOK
<1> QED
  BY <1>8, <1>9, <1>10 DEF BarrierInv

\* deallocate_barrier empties the slot of a CTA whose warps have all exited.
LEMMA Deallocates ==
  ASSUME BarrierInv, TypeOK', NEW c \in Cta, DeallocateBarrier(c)
  PROVE  BarrierInv'
<1>1. cta_to_warps[c] \cap warp_active = {}
  BY DEF DeallocateBarrier, AllExited, Active
<1>2. /\ UNCHANGED <<warp_active, warp_at_barrier, code, reached, reduced>>
      /\ cta_to_warps' = [cta_to_warps EXCEPT ![c] = {}]
      /\ bar_id_to_warps' = [b \in Bar |-> bar_id_to_warps[b] \ cta_to_warps[c]]
  BY <1>1 DEF DeallocateBarrier, BarrierInv, Placed
<1>3. /\ cta_to_warps'[c] = {}
      /\ \A d \in Cta \ {c} : cta_to_warps'[d] = cta_to_warps[d]
  BY <1>2 DEF BarrierInv, TypeOK
<1>4. Placed'
  BY <1>1, <1>2, <1>3 DEF BarrierInv, Placed
<1>5. ASSUME NEW d \in Cta \ {c} PROVE CtaOK(d)'
  <2>1. \A v \in cta_to_warps[d] : v \notin cta_to_warps[c]
    BY DEF BarrierInv, Placed
  <2>2. Untouched(d)
    BY <1>2, <1>3, <2>1 DEF Untouched
  <2> QED
    BY <2>2, UntouchedOK DEF BarrierInv
<1>6. CtaOK(c)'
  <2>1. Active(c)' = {} /\ \A b \in Bar : Registered(c, b)' = {}
    BY <1>3 DEF Active, Registered
  <2> QED
    BY <1>3, <2>1 DEF CtaOK, Loaded, CodeOK, Parked, Even, Wakes, Together, Reduces
<1> QED
  BY <1>4, <1>5, <1>6 DEF BarrierInv

\* A step that leaves the variables alone.
LEMMA BarrierStutter == ASSUME BarrierInv, TypeOK', UNCHANGED vars PROVE BarrierInv'
<1>1. \A c \in Cta : Untouched(c)
  BY DEF vars, Untouched
<1>2. \A c \in Cta : CtaOK(c)'
  BY <1>1, UntouchedOK DEF BarrierInv
<1>3. Placed'
  BY DEF vars, BarrierInv, Placed
<1> QED
  BY <1>2, <1>3 DEF BarrierInv

\* Every operation keeps the invariant of every CTA, whatever programs they run.
LEMMA BarrierInductive == BarrierInv /\ [Next]_vars => BarrierInv'
<1> SUFFICES ASSUME BarrierInv, [Next]_vars PROVE BarrierInv'
  OBVIOUS
<1>1. TypeOK'
  BY TypeInductive DEF BarrierInv
<1> QED
  BY <1>1, BarrierStutter, Allocates, Reaches, Exits, Deallocates DEF Next

\* So it holds in every state the barriers reach.
LEMMA BarrierInvariant == Spec => []BarrierInv
BY BarrierInit, BarrierInductive, PTL DEF Spec

(***************************************************************************)
(* The warps of a CTA that uses __syncthreads only stay in step: none gets *)
(* past a barrier that another active warp of the CTA has not reached, for *)
(* every number of warps and CTAs, every order of issue and exit, and      *)
(* whatever barriers the other CTAs of the core use.                       *)
(***************************************************************************)
THEOREM SyncthreadsLockstep == Spec => []Lockstep
<1>1. BarrierInv => Lockstep
  BY DEF BarrierInv, CtaOK, WholeCta, Even, Lockstep
<1> QED
  BY BarrierInvariant, <1>1, PTL

-------------------------------------------------------------------------------
\* A warp runs the code its program has for its rank.
LEMMA LoadedCode ==
  ASSUME NEW c \in Cta, Loaded(c), cta_to_warps[c] # {}
  PROVE  \E p \in Programs :
           /\ p \in Seq(Seq(BarInst)) /\ Cardinality(cta_to_warps[c]) = Len(p)
           /\ \A w \in cta_to_warps[c] : \E r \in 1 .. Len(p) : code[w] = p[r]
<1>1. PICK p \in Programs, s \in Warp :
        /\ cta_to_warps[c] = s .. s + Len(p) - 1
        /\ \A w \in cta_to_warps[c] : code[w] = p[w - s + 1]
  BY DEF Loaded
<1>2. p \in Seq(Seq(BarInst)) /\ Len(p) \in Nat
  BY ProgramsAssumption
<1>n. s \in Int /\ s + Len(p) - 1 \in Int
  BY <1>2 DEF Warp
<1>3. PICK e \in Int : s \in Int /\ e = s + Len(p) - 1
  BY <1>n
<1>4. \A w \in cta_to_warps[c] : w - s + 1 \in 1 .. Len(p)
  BY <1>1, <1>2, <1>3
<1>5. Cardinality(s .. e) = IF s > e THEN 0 ELSE e - s + 1
  BY <1>3, FS_Interval
<1>6. Cardinality(cta_to_warps[c]) = Len(p)
  BY <1>1, <1>2, <1>3, <1>5
<1> QED
  BY <1>1, <1>2, <1>4, <1>6

\* What the programs have in common the CTAs of the core have.
LEMMA ProgramsRun ==
  ASSUME BarrierInv, NEW c \in Cta
  PROVE  /\ (\A p \in Programs : ArriveFree(p)) => NoArrive(c)
         /\ (\A p \in Programs : SyncthreadsCode(p) \/ UniformCode(p)) => WholeCta(c)
         /\ (\A p \in Programs : UniformCode(p)) => Uniform(c)
<1>1. CASE cta_to_warps[c] = {}
  BY <1>1 DEF NoArrive, Uniform, WholeCta
<1>2. CASE cta_to_warps[c] # {}
  <2>1. PICK p \in Programs :
          /\ p \in Seq(Seq(BarInst)) /\ Cardinality(cta_to_warps[c]) = Len(p)
          /\ \A w \in cta_to_warps[c] : \E r \in 1 .. Len(p) : code[w] = p[r]
    BY <1>2, LoadedCode DEF BarrierInv, CtaOK
  <2>2. ArriveFree(p) => NoArrive(c)
    BY <2>1 DEF ArriveFree, NoArrive
  <2>3. SyncthreadsCode(p) => SyncthreadsOnly(c)
    BY <2>1 DEF SyncthreadsCode, SyncthreadsOnly
  <2>4. UniformCode(p) => Uniform(c)
    <3> SUFFICES ASSUME UniformCode(p) PROVE Uniform(c)
      OBVIOUS
    <3>1. NoArrive(c)
      BY <2>2 DEF UniformCode
    <3>2. \A v, w \in cta_to_warps[c] : code[v] = code[w]
      BY <2>1 DEF UniformCode
    <3>3. \A w \in cta_to_warps[c] : \A i \in 1 .. Len(code[w]) :
            code[w][i].bar_count \in {ALL, Len(p) * WarpSize}
      BY <2>1 DEF UniformCode
    <3> QED
      BY <2>1, <3>1, <3>2, <3>3 DEF Uniform
  <2> QED
    BY <2>2, <2>3, <2>4 DEF WholeCta
<1> QED
  BY <1>1, <1>2

(***************************************************************************)
(* In a kernel whose barriers are all for the whole CTA, because they are  *)
(* __syncthreads or because all the warps run the same counted barriers,   *)
(* warp_reaches_barrier and warp_exit leave no complete barrier            *)
(* unreleased.                                                             *)
(***************************************************************************)
THEOREM WholeCtaWakeup ==
  (\A p \in Programs : SyncthreadsCode(p) \/ UniformCode(p)) => (Spec => []NoLostWakeup)
<1> SUFFICES ASSUME \A p \in Programs : SyncthreadsCode(p) \/ UniformCode(p)
             PROVE  Spec => []NoLostWakeup
  OBVIOUS
<1>1. BarrierInv => NoLostWakeup
  BY ProgramsRun DEF BarrierInv, CtaOK, Wakes, NoLostWakeup
<1> QED
  BY BarrierInvariant, <1>1, PTL

(***************************************************************************)
(* In a kernel without bar.arrive no assertion of deallocate_barrier can   *)
(* fail, whatever counts its barriers have.                                *)
(***************************************************************************)
THEOREM ArriveFreeDeallocate ==
  (\A p \in Programs : ArriveFree(p)) => (Spec => []DeallocateAsserts)
<1> SUFFICES ASSUME \A p \in Programs : ArriveFree(p) PROVE Spec => []DeallocateAsserts
  OBVIOUS
<1>1. BarrierInv => DeallocateAsserts
  <2> SUFFICES ASSUME BarrierInv, NEW c \in Cta, AllExited(c)
               PROVE  /\ cta_to_warps[c] \cap (warp_at_barrier \cup warp_active) = {}
                      /\ \A b \in Bar : Registered(c, b) = {}
    BY DEF DeallocateAsserts
  <2>1. Parked(c)
    BY ProgramsRun DEF BarrierInv, CtaOK
  <2>2. cta_to_warps[c] \cap (warp_at_barrier \cup warp_active) = {}
    BY DEF BarrierInv, Placed, AllExited, Active
  <2> QED
    BY <2>1, <2>2 DEF Parked, Registered
<1> QED
  BY BarrierInvariant, <1>1, PTL

\* Whoever a step lets go stood at the barrier it was registered at last.
LEMMA ReleaseStep ==
  ASSUME \A p \in Programs : ArriveFree(p), BarrierInv, [Next]_vars,
         NEW v \in warp_at_barrier \ warp_at_barrier'
  PROVE  v \notin bar_id_to_warps'[LastBar(v).bar_id]
<1>1. PICK d \in Cta : v \in cta_to_warps[d]
  BY DEF BarrierInv, Placed
<1>2. Parked(d) /\ v \in warp_active
  BY ProgramsRun DEF BarrierInv, CtaOK, Placed
<1>3. ASSUME NEW c \in Cta, NEW p \in Programs, NEW s \in Warp, AllocateBarrier(c, p, s)
      PROVE  FALSE
  BY <1>1, <1>3 DEF AllocateBarrier, FreeWarps, AllocatedWarps
<1>4. ASSUME NEW w \in Warp, WarpReachesBarrier(w)
      PROVE  v \notin bar_id_to_warps'[LastBar(v).bar_id]
  <2>1. code[w][reached[w] + 1].bar_id \in Bar
    BY <1>4, InstType DEF WarpReachesBarrier, BarrierInv
  <2>2. PICK c \in Cta, k \in Bar : c = CtaOf(w) /\ k = code[w][reached[w] + 1].bar_id
    BY <1>4, <2>1, CtaOfUnique DEF WarpReachesBarrier, CanIssue, BarrierInv
  <2>3. PICK freed : freed = Registered(c, k) \cup {w}
    OBVIOUS
  <2>4. v \in freed /\ bar_id_to_warps' = [bar_id_to_warps EXCEPT ![k] = bar_id_to_warps[k] \ freed]
    BY <1>4, <2>2, <2>3 DEF WarpReachesBarrier, Freed, StillRegistered
  <2>5. v # w
    BY <1>4 DEF WarpReachesBarrier, CanIssue
  <2>6. v \in Registered(d, k)
    BY <1>1, <2>3, <2>4, <2>5 DEF Registered
  <2>7. LastBar(v).bar_id = k
    BY <1>2, <2>6 DEF Parked
  <2> QED
    BY <2>4, <2>7 DEF BarrierInv, TypeOK
<1>5. ASSUME NEW w \in Warp, WarpExit(w)
      PROVE  v \notin bar_id_to_warps'[LastBar(v).bar_id]
  <2>1. PICK c \in Cta : c = CtaOf(w)
    BY <1>5, CtaOfUnique DEF WarpExit, CanIssue, BarrierInv
  <2>2. PICK left : left = Active(c) \ {w}
    OBVIOUS
  <2>3. PICK b \in Bar : Registered(c, b) = left
    BY <1>5, <2>1, <2>2 DEF WarpExit, ReleasedByExit
  <2>4. v \in left /\ bar_id_to_warps'[b] = bar_id_to_warps[b] \ left
    BY <1>5, <2>1, <2>2, <2>3 DEF WarpExit, ReleasedByExit
  <2>5. v \in Registered(d, b)
    BY <1>1, <2>3, <2>4 DEF Registered
  <2>6. LastBar(v).bar_id = b
    BY <1>2, <2>5 DEF Parked
  <2> QED
    BY <2>4, <2>6
<1>6. ASSUME NEW c \in Cta, DeallocateBarrier(c) PROVE FALSE
  BY <1>2, <1>6 DEF DeallocateBarrier, AllExited, Active
<1>7. CASE UNCHANGED vars
  BY <1>7 DEF vars
<1> QED
  BY <1>3, <1>4, <1>5, <1>6, <1>7 DEF Next

(***************************************************************************)
(* In a kernel without bar.arrive a waiting warp is let go only by the     *)
(* release of the barrier it waits at.  The hypothesis is needed: the run  *)
(* barrier_arrive shows a warp that a bar.arrive frees from another one.   *)
(***************************************************************************)
THEOREM ArriveFreeReleases ==
  (\A p \in Programs : ArriveFree(p)) => (Spec => OwnBarrierReleases)
<1> SUFFICES ASSUME \A p \in Programs : ArriveFree(p) PROVE Spec => OwnBarrierReleases
  OBVIOUS
<1>1. BarrierInv /\ [Next]_vars => [ReleasesOwn]_vars
  BY ReleaseStep DEF ReleasesOwn
<1> QED
  BY BarrierInvariant, <1>1, PTL DEF Spec, OwnBarrierReleases

(***************************************************************************)
(* In a kernel whose barriers are all for the whole CTA no bar.red is      *)
(* released without its result: the broadcast reaches all the warps that   *)
(* waited, and no bar.red is left to warp_exit, which releases without a   *)
(* broadcast.                                                              *)
(***************************************************************************)
THEOREM WholeCtaReductions ==
  (\A p \in Programs : SyncthreadsCode(p) \/ UniformCode(p))
    => (Spec => []ReducedWhenReleased)
<1> SUFFICES ASSUME \A p \in Programs : SyncthreadsCode(p) \/ UniformCode(p)
             PROVE  Spec => []ReducedWhenReleased
  OBVIOUS
<1>1. BarrierInv => ReducedWhenReleased
  <2> SUFFICES ASSUME BarrierInv, NEW c \in Cta, NEW w \in cta_to_warps[c],
                      reached[w] > 0, LastBar(w).bar_type = "RED", w \notin warp_at_barrier
               PROVE  w \in reduced
    BY DEF ReducedWhenReleased, AllocatedWarps
  <2>1. reached[w] \in 1 .. Len(code[w]) /\ LastBar(w) = code[w][reached[w]]
    BY LastType DEF BarrierInv, CtaOK
  <2>2. ~SyncthreadsOnly(c)
    BY <2>1 DEF SyncthreadsOnly
  <2>3. Uniform(c)
    BY <2>2, ProgramsRun DEF WholeCta
  <2> QED
    BY <2>3 DEF BarrierInv, CtaOK, Reduces
<1> QED
  BY BarrierInvariant, <1>1, PTL

===============================================================================
