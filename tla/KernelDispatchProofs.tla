------------------------- MODULE KernelDispatchProofs -------------------------
(***************************************************************************)
(* Proofs about the dispatch of kernels and CTAs, for every number of      *)
(* kernels, slots, cores and CTA ids, every size of the resources and any  *)
(* launches.                                                               *)
(***************************************************************************)
EXTENDS KernelDispatch, FoldingProofs, FiniteSetTheorems

Occupied == [threads : Int, shmem : Int, ctas : Int, hwtid : SUBSET Nat]

TypeOK ==
  /\ load \in Workloads
  /\ m_running_kernels \in [Slot -> Kernel \cup {NULL}]
  /\ m_last_issued_kernel \in Slot
  /\ executed \subseteq Kernel /\ launched \subseteq Kernel
  /\ next_cta \in [Kernel -> Nat] /\ cores_running \in [Kernel -> Nat]
  /\ tb_latency \in [Kernel -> Nat]
  /\ finished \in Seq(Kernel)
  /\ m_kernel \in [Core -> Kernel \cup {NULL}]
  /\ cta \in [Core -> [CtaId -> Cta \cup {NULL}]]
  /\ occupied \in [Core -> Occupied]
  /\ issued \in Nat /\ last_cluster \in Cluster
  /\ next_core \in [Cluster -> 0 .. CoresPerCluster - 1]
  /\ scan \in [cluster : -1 .. NumClusters, core : 0 .. CoresPerCluster - 1, from : Cluster]

InSlot(k) == \E s \in Slot : m_running_kernels[s] = k

\* m_running_kernels holds a kernel from its launch until it is reported finished, in
\* one slot, and it is not done as long as it is there.
SlotsOK ==
  /\ \A s, t \in Slot :
       m_running_kernels[s] # NULL /\ m_running_kernels[s] = m_running_kernels[t] => s = t
  /\ \A s \in Slot : m_running_kernels[s] # NULL =>
       m_running_kernels[s] \in launched /\ ~Done(m_running_kernels[s])
  /\ \A k \in launched : InSlot(k) \/ IsFinished(k)
  /\ \A k \in Kernel : next_cta[k] # 0 => k \in launched
  /\ \A n \in DOMAIN finished :
       /\ finished[n] \in launched /\ ~InSlot(finished[n])
       /\ NoMoreCtas(finished[n]) \/ HitMaxCtaCount
       /\ \A m \in DOMAIN finished : finished[m] = finished[n] => m = n

\* A kernel that was selected has no latency left, and if more of it can be selected
\* it is the one that was selected last.
SelectedOK ==
  /\ executed \subseteq launched
  /\ \A k \in executed : tb_latency[k] = 0
  /\ \A s \in Slot :
       Selectable(s) /\ m_running_kernels[s] \in executed => s = m_last_issued_kernel

\* Without concurrent kernels all CTAs of a core are of the kernel that it is bound to,
\* and their ids decide on their threads; a core without CTAs is bound to a kernel only
\* when no more CTAs are issued.  With them no core is bound.
BoundOK ==
  /\ load.concurrent => \A c \in Core : m_kernel[c] = NULL
  /\ ~load.concurrent => \A c \in Core :
       /\ m_kernel[c] # NULL /\ Resident(c) = {} => HitMaxCtaCount
       /\ \A i \in Resident(c), k \in Kernel :
            cta[c][i].kernel = k => /\ m_kernel[c] = k
                                    /\ i < CtaPerCore(k)
                                    /\ cta[c][i].start = i * load.size[k]

\* With concurrent kernels a CTA starts at a multiple of its size.
PlacedOK ==
  load.concurrent => \A c \in Core : \A i \in Resident(c), k \in Kernel :
    cta[c][i].kernel = k => /\ cta[c][i].start < NumThreads
                            /\ cta[c][i].start % load.size[k] = 0

ThreadsOf(c, i) == Threads(cta[c][i].kernel, cta[c][i].start)

\* No two CTAs of a core have a hardware thread in common.
ThreadsApart ==
  \A c \in Core : \A i, j \in Resident(c) :
    i # j => ThreadsOf(c, i) \cap ThreadsOf(c, j) = {}

ShmemSum(c) == SumOf([i \in CtaId |-> ShmemOf(c, i)], MaxCta)

\* With concurrent kernels what a core counts as occupied is what its CTAs have.
OccupiedOK ==
  load.concurrent => \A c \in Core :
    /\ occupied[c].hwtid = UNION {ThreadsOf(c, i) : i \in Resident(c)}
    /\ IsFiniteSet(occupied[c].hwtid)
    /\ occupied[c].threads = Cardinality(occupied[c].hwtid)
    /\ occupied[c].ctas = Cardinality(Resident(c))
    /\ occupied[c].shmem = ShmemSum(c) /\ ShmemSum(c) <= ShmemSize

\* A kernel counts the CTAs that it has on the cores, and holds its slot for them.
RunningOK ==
  /\ \A k \in Kernel : cores_running[k] = Cardinality(CtasOf(k))
  /\ \A c \in Core : \A i \in Resident(c) : InSlot(cta[c][i].kernel)

\* The CTAs of a kernel are finitely many.
FiniteOK == \A k \in Kernel : IsFiniteSet(CtasOf(k))

\* The inductive invariant.
Books ==
  /\ TypeOK /\ FiniteOK /\ SlotsOK /\ SelectedOK /\ BoundOK /\ PlacedOK /\ ThreadsApart
  /\ OccupiedOK /\ RunningOK

-------------------------------------------------------------------------------

\* The least of a set of numbers.
LEMMA MinOf ==
  ASSUME NEW U \in SUBSET Nat, U # {}
  PROVE  Min(U) \in U /\ \A y \in U : Min(U) <= y
BY LeastExists DEF Min

\* Division rounds down.
LEMMA Division ==
  ASSUME NEW a \in Nat, NEW b \in Nat \ {0}
  PROVE  /\ a \div b \in Nat
         /\ (a \div b) * b <= a
         /\ a < (a \div b) * b + b
OBVIOUS

\* Division without a rest.
LEMMA Multiple ==
  ASSUME NEW a \in Nat, NEW b \in Nat, b >= 1, a % b = 0
  PROVE  \E x \in Nat : a = x * b
<1>1. a \div b \in Nat /\ a = (a \div b) * b
  OBVIOUS
<1> QED BY <1>1

\* The smaller one of two products with a common factor.
LEMMA Times ==
  ASSUME NEW x \in Nat, NEW y \in Nat, x <= y, NEW z \in Nat
  PROVE  x * z <= y * z /\ x * z \in Nat
<1>1. PICK d \in Nat : y = x + d
  <2>1. y - x \in Nat /\ y = x + (y - x)
    OBVIOUS
  <2> QED BY <2>1
<1>2. y * z = x * z + d * z /\ d * z \in Nat /\ x * z \in Nat
  BY <1>1
<1> QED BY <1>2

\* A workload: CTAs have a thread and fit on an empty core.
LEMMA LoadType ==
  ASSUME TypeOK
  PROVE  /\ load \in Workload
         /\ \A k \in Kernel : /\ load.size[k] \in Nat /\ load.size[k] >= 1
                             /\ load.size[k] <= NumThreads
                             /\ load.smem[k] \in Nat /\ load.smem[k] <= ShmemSize
                             /\ load.grid[k] \in Nat /\ load.grid[k] >= 1
         /\ load.concurrent \in BOOLEAN /\ load.limit \in Nat
<1>1. load \in Workload
  BY DispatchAssumption DEF TypeOK
<1> QED BY <1>1, DispatchAssumption DEF Workload

\* max_cta: at least one CTA, as many CTA ids, and all of them fit.
LEMMA CtaPerCoreBound ==
  ASSUME TypeOK, NEW k \in Kernel
  PROVE  /\ CtaPerCore(k) \in Nat /\ CtaPerCore(k) >= 1 /\ CtaPerCore(k) <= MaxCta
         /\ CtaPerCore(k) * load.size[k] <= NumThreads
         /\ CtaPerCore(k) * load.smem[k] <= ShmemSize
<1> DEFINE U == {NumThreads \div load.size[k], MaxCta}
                 \cup (IF load.smem[k] > 0 THEN {ShmemSize \div load.smem[k]} ELSE {})
           n == NumClusters * CoresPerCluster
           g == load.grid[k]
           fit == Min(U)
           few == (g + n - 1) \div n
<1>1. /\ load.size[k] \in Nat /\ load.size[k] >= 1 /\ load.size[k] <= NumThreads
      /\ load.smem[k] \in Nat /\ load.smem[k] <= ShmemSize
      /\ g \in Nat /\ g >= 1
      /\ NumThreads \in Nat /\ ShmemSize \in Nat /\ MaxCta \in Nat /\ MaxCta >= 1
  BY LoadType, DispatchAssumption
<1>2. n \in Nat /\ n >= 1
  <2>1. NumClusters \in Nat /\ CoresPerCluster \in Nat /\ 1 <= NumClusters /\ 1 <= CoresPerCluster
    BY DispatchAssumption
  <2>2. 1 * CoresPerCluster <= NumClusters * CoresPerCluster
    BY <2>1, Times
  <2> QED BY <2>1, <2>2
<1>3. \A a \in Nat, b \in Nat : b >= 1 /\ b <= a => /\ a \div b \in Nat /\ a \div b >= 1
                                                   /\ (a \div b) * b <= a
  <2> SUFFICES ASSUME NEW a \in Nat, NEW b \in Nat, b >= 1, b <= a
               PROVE  a \div b \in Nat /\ a \div b >= 1 /\ (a \div b) * b <= a
    OBVIOUS
  <2>1. a \div b \in Nat /\ (a \div b) * b <= a /\ a < (a \div b) * b + b
    BY Division
  <2>2. a \div b # 0
    BY <2>1
  <2> QED BY <2>1, <2>2
<1>4. \A x \in U : x \in Nat /\ x >= 1
  BY <1>1, <1>3
<1>5. /\ fit \in Nat /\ fit >= 1 /\ fit <= MaxCta /\ fit <= NumThreads \div load.size[k]
      /\ load.smem[k] > 0 => fit <= ShmemSize \div load.smem[k]
  <2>1. U \in SUBSET Nat /\ U # {}
    BY <1>4
  <2>2. fit \in U /\ \A y \in U : fit <= y
    BY <2>1, MinOf
  <2> QED BY <1>4, <2>2
<1> HIDE DEF U, fit, n, g
<1>6. fit * load.size[k] <= NumThreads
  <2>1. fit * load.size[k] <= (NumThreads \div load.size[k]) * load.size[k]
    BY <1>1, <1>3, <1>5, Times
  <2>2. (NumThreads \div load.size[k]) * load.size[k] <= NumThreads
    BY <1>1, <1>3
  <2>3. fit * load.size[k] \in Nat /\ (NumThreads \div load.size[k]) * load.size[k] \in Nat
    BY <1>1, <1>3, <1>5
  <2> QED BY <1>1, <2>1, <2>2, <2>3
<1>7. fit * load.smem[k] <= ShmemSize
  <2>1. CASE load.smem[k] = 0
    BY <1>1, <1>5, <2>1
  <2>2. CASE load.smem[k] # 0
    <3>1. load.smem[k] > 0 /\ load.smem[k] >= 1
      BY <1>1, <2>2
    <3>2. fit * load.smem[k] <= (ShmemSize \div load.smem[k]) * load.smem[k]
      BY <1>1, <1>3, <1>5, <3>1, Times
    <3>3. (ShmemSize \div load.smem[k]) * load.smem[k] <= ShmemSize
      BY <1>1, <1>3, <3>1
    <3>4. fit * load.smem[k] \in Nat /\ (ShmemSize \div load.smem[k]) * load.smem[k] \in Nat
      BY <1>1, <1>3, <1>5, <3>1
    <3> QED BY <1>1, <3>2, <3>3, <3>4
  <2> QED BY <2>1, <2>2
<1>8. CASE g < fit * n
  <2>1. few \in Nat /\ few * n <= g + n - 1 /\ g + n - 1 < few * n + n
    <3>1. g + n - 1 \in Nat
      BY <1>1, <1>2
    <3> QED BY <1>2, <3>1, Division
  <2>2. few >= 1
    BY <1>1, <1>2, <2>1
  <2>3. few <= fit
    <3>1. SUFFICES ASSUME few >= fit + 1 PROVE FALSE
      BY <1>5, <2>1
    <3>2. (fit + 1) * n <= few * n
      BY <1>2, <1>5, <2>1, <3>1, Times
    <3>3. (fit + 1) * n = fit * n + n
      BY <1>2, <1>5
    <3>4. fit * n \in Nat /\ few * n \in Nat
      BY <1>2, <1>5, <2>1
    <3> QED BY <1>1, <1>2, <1>8, <2>1, <3>2, <3>3, <3>4
  <2>4. CtaPerCore(k) = few
    BY <1>8 DEF CtaPerCore, fit, U, n, g
  <2> HIDE DEF few
  <2>5. few * load.size[k] <= fit * load.size[k] /\ few * load.smem[k] <= fit * load.smem[k]
    BY <1>1, <1>5, <2>1, <2>3, Times
  <2>6. /\ few * load.size[k] \in Nat /\ few * load.smem[k] \in Nat
        /\ fit * load.size[k] \in Nat /\ fit * load.smem[k] \in Nat
    BY <1>1, <1>5, <2>1
  <2> QED BY <1>1, <1>5, <1>6, <1>7, <2>1, <2>2, <2>3, <2>4, <2>5, <2>6
<1>9. CASE ~(g < fit * n)
  <2>1. CtaPerCore(k) = fit
    BY <1>9 DEF CtaPerCore, fit, U, n, g
  <2> QED BY <1>5, <1>6, <1>7, <2>1
<1> QED BY <1>8, <1>9

\* A CTA on a core is of a kernel.
LEMMA CtaType ==
  ASSUME TypeOK, NEW c \in Core, NEW i \in Resident(c)
  PROVE  /\ i \in CtaId /\ cta[c][i] \in Cta /\ cta[c][i].kernel \in Kernel
         /\ cta[c][i].start \in Nat /\ cta[c][i].warps \subseteq Nat
BY DEF Resident, TypeOK, Cta

\* The walk visits a core.
LEMMA VisitedCore ==
  ASSUME TypeOK, scan.cluster \in Cluster
  PROVE  Visited \in Core /\ Visited[1] \in Cluster /\ Visited[2] \in 0 .. CoresPerCluster - 1
<1> DEFINE l == (scan.cluster + scan.from + 1) % NumClusters
<1>1. NumClusters \in Nat \ {0} /\ CoresPerCluster \in Nat \ {0}
  BY DispatchAssumption
<1>2. scan.cluster \in Nat /\ scan.from \in Nat /\ scan.core \in Nat
  BY <1>1 DEF TypeOK, Cluster
<1>3. l \in Cluster
  BY <1>1, <1>2 DEF Cluster
<1> HIDE DEF l
<1>4. (scan.core + next_core[l] + 1) % CoresPerCluster \in 0 .. CoresPerCluster - 1
  <2>1. next_core[l] \in Nat
    BY <1>1, <1>3 DEF TypeOK
  <2> QED BY <1>1, <1>2, <2>1
<1>5. Visited = <<l, (scan.core + next_core[l] + 1) % CoresPerCluster>>
  BY DEF Visited, l
<1> QED BY <1>3, <1>4, <1>5 DEF Core

\* What select_kernel finds is in a slot and can be selected.
LEMMA SelectedSlot ==
  ASSUME TypeOK, SelectSlot # {}
  PROVE  /\ Selected \in Slot /\ Selected \in SelectSlot /\ Selectable(Selected)
         /\ m_running_kernels[Selected] \in Kernel
         /\ Selectable(m_last_issued_kernel) => Selected = m_last_issued_kernel
<1>1. \A s \in SelectSlot : s \in Slot /\ Selectable(s)
  BY DEF SelectSlot, RoundRobin, TypeOK
<1>2. Selected \in Slot /\ Selected \in SelectSlot
  BY <1>1 DEF Selected
<1>3. m_running_kernels[Selected] \in Kernel
  BY <1>1, <1>2 DEF Selectable, TypeOK
<1> QED BY <1>1, <1>2, <1>3 DEF SelectSlot

\* A core without CTAs takes one of every kernel with CTAs left.
LEMMA EmptyCoreTakes ==
  ASSUME TypeOK, NEW c \in Core, NEW k \in Kernel, Resident(c) = {}, ~load.concurrent
  PROVE  CanIssue1Block(c, k)
<1>1. Cardinality({}) = 0
  BY FS_EmptySet
<1> QED BY <1>1, CtaPerCoreBound DEF CanIssue1Block

\* The CTA ids in use are finitely many.
LEMMA ResidentFinite ==
  /\ IsFiniteSet(CtaId) /\ Cardinality(CtaId) = MaxCta
  /\ \A c \in Core : /\ IsFiniteSet(Resident(c)) /\ Cardinality(Resident(c)) \in Nat
                     /\ Cardinality(Resident(c)) <= MaxCta
<1>1. MaxCta \in Nat /\ MaxCta >= 1
  BY DispatchAssumption
<1>2. IsFiniteSet(CtaId) /\ Cardinality(CtaId) = MaxCta
  BY <1>1, FS_Interval DEF CtaId
<1>3. ASSUME NEW c \in Core
      PROVE  /\ IsFiniteSet(Resident(c)) /\ Cardinality(Resident(c)) \in Nat
             /\ Cardinality(Resident(c)) <= MaxCta
  <2>1. Resident(c) \in SUBSET CtaId
    BY DEF Resident
  <2> QED BY <1>2, <2>1, FS_Subset, FS_CardinalityType
<1> QED BY <1>2, <1>3

\* issue_block2core finds a free CTA id (its assertion) where a core takes a CTA.
LEMMA FreeCtaId ==
  ASSUME TypeOK, OccupiedOK, NEW c \in Core, NEW k \in Kernel, CanIssue1Block(c, k)
  PROVE  FreeCtaIds(c, k) # {} /\ FreeCtaIds(c, k) \subseteq CtaId
<1>1. CtaPerCore(k) \in Nat /\ CtaPerCore(k) >= 1 /\ CtaPerCore(k) <= MaxCta /\ MaxCta \in Nat
  BY CtaPerCoreBound, DispatchAssumption
<1>2. IsFiniteSet(Resident(c)) /\ Cardinality(Resident(c)) \in Nat
  BY ResidentFinite
<1>3. CASE load.concurrent
  <2>1. Cardinality(Resident(c)) + 1 <= MaxCta
    BY <1>3 DEF CanIssue1Block, Occupiable, OccupiedOK
  <2>2. ~(CtaId \subseteq Resident(c))
    <3>1. SUFFICES ASSUME CtaId \in SUBSET Resident(c) PROVE FALSE
      OBVIOUS
    <3>2. Cardinality(CtaId) <= Cardinality(Resident(c))
      BY <1>2, <3>1, FS_Subset
    <3> QED BY <1>1, <1>2, <2>1, <3>2, ResidentFinite
  <2> QED BY <1>3, <2>2 DEF FreeCtaIds
<1>4. CASE ~load.concurrent
  <2> DEFINE I == 0 .. CtaPerCore(k) - 1
  <2>1. Cardinality(Resident(c)) < CtaPerCore(k)
    BY <1>4 DEF CanIssue1Block
  <2>2. IsFiniteSet(I) /\ Cardinality(I) = CtaPerCore(k)
    <3>1. PICK n \in Nat : n = CtaPerCore(k) /\ n >= 1
      BY <1>1
    <3>2. IsFiniteSet(0 .. n - 1) /\ Cardinality(0 .. n - 1) = n
      <4>1. n - 1 \in Int /\ 0 \in Int /\ ~(0 > n - 1) /\ (n - 1) - 0 + 1 = n
        BY <3>1
      <4> QED BY <4>1, FS_Interval
    <3> QED BY <3>1, <3>2
  <2>3. ~(I \subseteq Resident(c))
    <3>1. SUFFICES ASSUME I \in SUBSET Resident(c) PROVE FALSE
      OBVIOUS
    <3> HIDE DEF I
    <3>2. Cardinality(I) <= Cardinality(Resident(c))
      BY <1>2, <3>1, FS_Subset
    <3> QED BY <1>1, <1>2, <2>1, <2>2, <3>2
  <2> QED BY <1>1, <1>4, <2>3 DEF FreeCtaIds, CtaId
<1> QED BY <1>3, <1>4

\* What a CTA is given when core c takes one of kernel k.
Issued(c, k, i, start) ==
  /\ c \in Core /\ k \in Kernel /\ i \in FreeCtaIds(c, k) /\ i \in CtaId
  /\ MoreCtaLeft(k) /\ CanIssue1Block(c, k) /\ InSlot(k)
  /\ start \in Nat
  /\ load.concurrent => start \in Steps(c, k)
  /\ ~load.concurrent => /\ start = i * load.size[k]
                         /\ m_kernel' = [m_kernel EXCEPT ![c] = k]
                         /\ Resident(c) = {} \/ m_kernel[c] = k
  /\ load.concurrent => m_kernel' = m_kernel
  /\ cta' = [cta EXCEPT ![c][i] = [kernel |-> k, start |-> start, warps |-> Threads(k, start)]]
  /\ occupied' = IF load.concurrent
                   THEN [occupied EXCEPT ![c] = Taken(@, k, start)] ELSE occupied
  /\ cores_running' = [cores_running EXCEPT ![k] = @ + 1]
  /\ next_cta' = [next_cta EXCEPT ![k] = @ + 1]

\* A core that takes a CTA gives it a free CTA id, free threads and a kernel in a slot.
LEMMA IssueIs ==
  ASSUME TypeOK, BoundOK, OccupiedOK, RunningOK, IssueCta
  PROVE  \E i, start : Issued(Visited, Offered(Visited), i, start)
<1> DEFINE c == Visited
           k == Offered(c)
           i == Min(FreeCtaIds(c, k))
           start == StartThread(c, k, i)
<1>1. c \in Core
  BY VisitedCore DEF IssueCta
<1>2. MoreCtaLeft(k) /\ CanIssue1Block(c, k) /\ Select(c) /\ IssueBlock2Core(c, k)
  BY DEF IssueCta, Takes
<1>3. k \in Kernel
  <2>1. k \in Kernel \cup {NULL}
    BY <1>1, SelectedSlot DEF Offered, TypeOK
  <2> QED BY <1>2, <2>1 DEF MoreCtaLeft
<1>4. SelectSlot # {} => Selected \in Slot
  BY SelectedSlot
<1> HIDE DEF c
<1>5. k = IF ~Asks(c) THEN m_kernel[c]
          ELSE IF SelectSlot = {} THEN NULL ELSE m_running_kernels[Selected]
  BY DEF Offered
<1> HIDE DEF k
<1>6. i \in FreeCtaIds(c, k) /\ i \in CtaId
  <2>1. FreeCtaIds(c, k) # {} /\ FreeCtaIds(c, k) \subseteq CtaId
    BY <1>1, <1>2, <1>3, FreeCtaId
  <2>2. FreeCtaIds(c, k) \in SUBSET Nat
    BY <2>1 DEF CtaId
  <2> QED BY <2>1, <2>2, MinOf
<1> HIDE DEF i
<1>7. start \in Nat /\ (load.concurrent => start \in Steps(c, k))
                    /\ (~load.concurrent => start = i * load.size[k])
  <2>1. CASE load.concurrent
    <3>1. Steps(c, k) # {} /\ Steps(c, k) \in SUBSET Nat
      BY <1>2, <2>1 DEF CanIssue1Block, Occupiable, Steps
    <3> QED BY <2>1, <3>1, MinOf DEF StartThread
  <2>2. CASE ~load.concurrent
    BY <1>3, <1>6, <2>2, LoadType DEF StartThread, CtaId
  <2> QED BY <2>1, <2>2
<1>8. k # NULL
  BY <1>2 DEF MoreCtaLeft
<1>9. ~load.concurrent => /\ m_kernel' = [m_kernel EXCEPT ![c] = k]
                          /\ Resident(c) = {} \/ m_kernel[c] = k
  <2> SUFFICES ASSUME ~load.concurrent
               PROVE  /\ m_kernel' = [m_kernel EXCEPT ![c] = k]
                      /\ Resident(c) = {} \/ m_kernel[c] = k
    OBVIOUS
  <2>1. CASE Asks(c)
    <3>1. SelectSlot # {} /\ k = m_running_kernels[Selected] /\ Resident(c) = {}
      BY <1>5, <1>8, <2>1 DEF Asks, NotCompleted
    <3> QED BY <1>2, <2>1, <3>1 DEF Select
  <2>2. CASE ~Asks(c)
    BY <1>1, <1>2, <1>5, <2>2 DEF Select, TypeOK
  <2> QED BY <2>1, <2>2
<1>10. load.concurrent => m_kernel' = m_kernel
  BY <1>2 DEF Select
<1>11. InSlot(k)
  <2>1. CASE Asks(c)
    BY <1>4, <1>5, <1>8, <2>1 DEF InSlot
  <2>2. CASE ~Asks(c)
    <3>1. k = m_kernel[c] /\ ~load.concurrent
      BY <1>5, <2>2 DEF Asks
    <3>2. Resident(c) # {}
      BY <1>1, <1>2, <1>8, <3>1 DEF BoundOK, MoreCtaLeft
    <3>3. PICK j \in Resident(c) : TRUE
      BY <3>2
    <3>4. cta[c][j].kernel = k
      BY <1>1, <3>1, <3>3, CtaType DEF BoundOK
    <3> QED BY <1>1, <3>3, <3>4 DEF RunningOK
  <2> QED BY <2>1, <2>2
<1>12. /\ cta' = [cta EXCEPT ![c][i] = [kernel |-> k, start |-> start, warps |-> Threads(k, start)]]
       /\ occupied' = IF load.concurrent
                        THEN [occupied EXCEPT ![c] = Taken(@, k, start)] ELSE occupied
       /\ cores_running' = [cores_running EXCEPT ![k] = @ + 1]
       /\ next_cta' = [next_cta EXCEPT ![k] = @ + 1]
  BY <1>2 DEF IssueBlock2Core, i
<1> HIDE DEF start
<1>13. Issued(c, k, i, start)
  BY <1>1, <1>2, <1>3, <1>6, <1>7, <1>9, <1>10, <1>11, <1>12 DEF Issued
<1> QED BY <1>13 DEF c, k

\* Only one core changes.
LEMMA OtherCore ==
  ASSUME TypeOK, load' = load, NEW c \in Core, NEW h, cta' = [cta EXCEPT ![c] = h],
         NEW d \in Core, d # c
  PROVE  /\ cta'[d] = cta[d] /\ Resident(d)' = Resident(d)
         /\ \A i \in CtaId : ThreadsOf(d, i)' = ThreadsOf(d, i)
         /\ ShmemSum(d)' = ShmemSum(d)
<1>1. cta'[d] = cta[d]
  BY DEF TypeOK
<1>2. \A i \in CtaId : ShmemOf(d, i)' = ShmemOf(d, i)
  BY <1>1 DEF ShmemOf
<1>3. [i \in CtaId |-> ShmemOf(d, i)]' = [i \in CtaId |-> ShmemOf(d, i)]
  BY <1>2
<1> QED BY <1>1, <1>3 DEF Resident, ThreadsOf, Threads, ShmemSum

\* The shared memory of the CTAs of a core is a sum of natural numbers.
LEMMA ShmemType ==
  ASSUME TypeOK, NEW c \in Core
  PROVE  /\ [i \in CtaId |-> ShmemOf(c, i)] \in [0 .. MaxCta - 1 -> Nat]
         /\ \A i \in CtaId : ShmemOf(c, i) \in Nat
         /\ ShmemSum(c) \in Nat /\ MaxCta \in Nat
<1>1. ASSUME NEW i \in CtaId
      PROVE  ShmemOf(c, i) \in Nat
  <2>1. cta[c][i] \in Cta \cup {NULL} /\ \A k \in Kernel : load.smem[k] \in Nat
    BY LoadType DEF TypeOK
  <2>2. CASE cta[c][i] = NULL
    BY <2>2 DEF ShmemOf
  <2>3. CASE cta[c][i] # NULL
    <3>1. cta[c][i].kernel \in Kernel
      BY <2>1, <2>3 DEF Cta
    <3> QED BY <2>1, <2>3, <3>1 DEF ShmemOf
  <2> QED BY <2>2, <2>3
<1>2. MaxCta \in Nat /\ CtaId = 0 .. MaxCta - 1
  BY DispatchAssumption DEF CtaId
<1>3. [i \in CtaId |-> ShmemOf(c, i)] \in [0 .. MaxCta - 1 -> Nat]
  BY <1>1, <1>2
<1> QED BY <1>1, <1>2, <1>3, SumOfNat DEF ShmemSum

\* One CTA id of a core changes: what the core holds changes by what is there.
LEMMA ShmemChange ==
  ASSUME TypeOK, load' = load, NEW c \in Core, NEW i \in CtaId, NEW a \in Cta \cup {NULL},
         cta' = [cta EXCEPT ![c][i] = a]
  PROVE  /\ ShmemSum(c)' = ShmemSum(c) + ShmemOf(c, i)' - ShmemOf(c, i)
         /\ ShmemOf(c, i)' = IF a = NULL THEN 0 ELSE load.smem[a.kernel]
<1> DEFINE f == [j \in CtaId |-> ShmemOf(c, j)]
           e == ShmemOf(c, i)'
<1>1. \A j \in CtaId : cta'[c][j] = IF j = i THEN a ELSE cta[c][j]
  BY DEF TypeOK
<1>2. e = IF a = NULL THEN 0 ELSE load.smem[a.kernel]
  BY <1>1 DEF ShmemOf
<1>3. e \in Int
  BY <1>2, LoadType DEF Cta
<1>4. [j \in CtaId |-> ShmemOf(c, j)]' = [f EXCEPT ![i] = e]
  <2>1. \A j \in CtaId : ShmemOf(c, j)' = IF j = i THEN e ELSE f[j]
    BY <1>1 DEF ShmemOf
  <2> QED BY <2>1
<1>5. f \in [0 .. MaxCta - 1 -> Int] /\ i \in 0 .. MaxCta - 1 /\ MaxCta \in Nat
  BY ShmemType DEF CtaId
<1>6. f[i] = ShmemOf(c, i)
  OBVIOUS
<1>7. ShmemSum(c) = SumOf(f, MaxCta) /\ ShmemSum(c)' = SumOf([f EXCEPT ![i] = e], MaxCta)
  BY <1>4 DEF ShmemSum
<1> HIDE DEF f, e
<1>8. SumOf([f EXCEPT ![i] = e], MaxCta) = SumOf(f, MaxCta) + e - f[i]
  BY ONLY <1>3, <1>5, SumOfChange
<1> QED BY <1>2, <1>6, <1>7, <1>8 DEF e

\* The threads of a CTA are as many as its size.
LEMMA ThreadsCount ==
  ASSUME TypeOK, NEW k \in Kernel, NEW start \in Nat
  PROVE  /\ Threads(k, start) \subseteq Nat
         /\ IsFiniteSet(Threads(k, start)) /\ Cardinality(Threads(k, start)) = load.size[k]
<1>1. PICK n \in Nat : n = load.size[k] /\ n >= 1
  BY LoadType
<1>2. IsFiniteSet(start .. start + n - 1) /\ Cardinality(start .. start + n - 1) = n
  <2>1. start + n - 1 \in Int /\ start \in Int /\ ~(start > start + n - 1)
        /\ (start + n - 1) - start + 1 = n
    BY <1>1
  <2> QED BY <2>1, FS_Interval
<1> QED BY <1>1, <1>2 DEF Threads

\* The core, the kernel and the numbers of a CTA that starts.
LEMMA IssuedIs ==
  ASSUME NEW c, NEW k, NEW i, NEW start, Issued(c, k, i, start)
  PROVE  c \in Core /\ k \in Kernel /\ start \in Nat /\ i \in CtaId
BY DEF Issued

\* A CTA that starts is the only change on the cores.
LEMMA IssuedCores ==
  ASSUME TypeOK, load' = load, NEW c, NEW k, NEW i, NEW start, Issued(c, k, i, start)
  PROVE  /\ i \notin Resident(c) /\ cta[c][i] = NULL
         /\ \A d \in Core : Resident(d)' = IF d = c THEN Resident(c) \cup {i} ELSE Resident(d)
         /\ \A d \in Core, j \in CtaId :
              cta'[d][j] = IF d = c /\ j = i
                             THEN [kernel |-> k, start |-> start, warps |-> Threads(k, start)]
                             ELSE cta[d][j]
         /\ cta' \in [Core -> [CtaId -> Cta \cup {NULL}]]
         /\ [kernel |-> k, start |-> start, warps |-> Threads(k, start)] \in Cta
<1> DEFINE a == [kernel |-> k, start |-> start, warps |-> Threads(k, start)]
<1>1. i \notin Resident(c) /\ i \in CtaId /\ c \in Core /\ k \in Kernel /\ start \in Nat
  BY DEF Issued, FreeCtaIds
<1>2. cta[c][i] = NULL
  BY <1>1 DEF Resident
<1>3. a \in Cta
  BY <1>1, ThreadsCount DEF Cta
<1>4. a # NULL
  BY <1>3, DispatchAssumption
<1>5. cta' = [cta EXCEPT ![c][i] = a]
  BY DEF Issued
<1> HIDE DEF a
<1>6. \A d \in Core, j \in CtaId : cta'[d][j] = IF d = c /\ j = i THEN a ELSE cta[d][j]
  BY <1>1, <1>5 DEF TypeOK
<1>7. cta' \in [Core -> [CtaId -> Cta \cup {NULL}]]
  BY <1>1, <1>3, <1>5 DEF TypeOK
<1>8. \A d \in Core : Resident(d)' = IF d = c THEN Resident(c) \cup {i} ELSE Resident(d)
  BY <1>1, <1>4, <1>6 DEF Resident
<1> QED BY <1>1, <1>2, <1>3, <1>6, <1>7, <1>8 DEF a

\* The CTA that starts gets threads that no other CTA of the core has.
LEMMA IssuedApart ==
  ASSUME TypeOK, load' = load, BoundOK, OccupiedOK, ThreadsApart,
         NEW c, NEW k, NEW i, NEW start, Issued(c, k, i, start)
  PROVE  /\ ThreadsApart'
         /\ \A j \in Resident(c) : Threads(k, start) \cap ThreadsOf(c, j) = {}
<1>1. /\ i \notin Resident(c) /\ c \in Core /\ k \in Kernel /\ start \in Nat /\ i \in CtaId
      /\ \A d \in Core : Resident(d)' = IF d = c THEN Resident(c) \cup {i} ELSE Resident(d)
      /\ \A d \in Core, j \in CtaId :
           cta'[d][j] = IF d = c /\ j = i
                          THEN [kernel |-> k, start |-> start, warps |-> Threads(k, start)]
                          ELSE cta[d][j]
  BY IssuedCores, IssuedIs
<1>2. \A j \in Resident(c) : j \in CtaId /\ j # i
  BY <1>1 DEF Resident
<1>3. ASSUME NEW j \in Resident(c)
      PROVE  Threads(k, start) \cap ThreadsOf(c, j) = {}
  <2>1. CASE load.concurrent
    <3>1. Threads(k, start) \cap occupied[c].hwtid = {}
      BY <2>1 DEF Issued, Steps
    <3>2. ThreadsOf(c, j) \subseteq occupied[c].hwtid
      BY <1>1, <1>3, <2>1 DEF OccupiedOK
    <3> QED BY <3>1, <3>2
  <2>2. CASE ~load.concurrent
    <3>1. m_kernel[c] = k /\ start = i * load.size[k]
      BY <1>3, <2>2 DEF Issued
    <3>2. cta[c][j].kernel = k /\ cta[c][j].start = j * load.size[k]
      BY <1>1, <1>3, <2>2, <3>1, CtaType DEF BoundOK
    <3>3. PICK n \in Nat : n = load.size[k]
      BY <1>1, LoadType
    <3>4. i \in Nat /\ j \in Nat /\ i # j
      BY <1>1, <1>2, <1>3 DEF CtaId
    <3>5. \A x \in Nat, y \in Nat : x < y => x * n + n <= y * n /\ x * n \in Nat /\ y * n \in Nat
      <4>1. ASSUME NEW x \in Nat, NEW y \in Nat, x < y
            PROVE  x * n + n <= y * n /\ x * n \in Nat /\ y * n \in Nat
        <5>1. (x + 1) * n <= y * n
          BY <4>1, Times
        <5>2. (x + 1) * n = x * n + n /\ x * n \in Nat /\ y * n \in Nat
          OBVIOUS
        <5> QED BY <5>1, <5>2
      <4> QED BY <4>1
    <3>6. i * n \in Nat /\ j * n \in Nat /\ (i * n + n <= j * n \/ j * n + n <= i * n)
      BY <3>4, <3>5
    <3>7. Threads(k, start) = i * n .. i * n + n - 1 /\ ThreadsOf(c, j) = j * n .. j * n + n - 1
      BY <3>1, <3>2, <3>3 DEF Threads, ThreadsOf
    <3> QED BY <3>6, <3>7
  <2> QED BY <2>1, <2>2
<1>4. ASSUME NEW d \in Core, NEW j \in CtaId
      PROVE  ThreadsOf(d, j)' = IF d = c /\ j = i THEN Threads(k, start) ELSE ThreadsOf(d, j)
  BY <1>1 DEF ThreadsOf, Threads
<1>5. ASSUME NEW d \in Core, NEW x \in Resident(d)', NEW y \in Resident(d)', x # y
      PROVE  ThreadsOf(d, x)' \cap ThreadsOf(d, y)' = {}
  <2>1. x \in CtaId /\ y \in CtaId
    BY <1>5 DEF Resident
  <2>2. CASE d = c /\ (x = i \/ y = i)
    <3>1. (x = i /\ y \in Resident(c) /\ y # i) \/ (y = i /\ x \in Resident(c) /\ x # i)
      BY <1>1, <1>5, <2>2
    <3> QED BY <1>3, <1>4, <2>1, <2>2, <3>1
  <2>3. CASE ~(d = c /\ (x = i \/ y = i))
    <3>1. x \in Resident(d) /\ y \in Resident(d)
      BY <1>1, <1>5, <2>3
    <3> QED BY <1>4, <1>5, <2>1, <2>3, <3>1 DEF ThreadsApart
  <2> QED BY <2>2, <2>3
<1> QED BY <1>3, <1>5 DEF ThreadsApart

\* The CTA limit, once hit, stays hit, and the CTAs of a kernel do not become fewer.
LEMMA LimitKept ==
  ASSUME TypeOK, load' = load, issued' \in Nat, issued' >= issued
  PROVE  /\ HitMaxCtaCount => HitMaxCtaCount'
         /\ \A k : CtaPerCore(k)' = CtaPerCore(k)
BY LoadType DEF HitMaxCtaCount, CtaPerCore, TypeOK

\* The core is bound to the kernel of the CTA that starts.
LEMMA IssuedBound ==
  ASSUME TypeOK, load' = load, BoundOK, issued' \in Nat, issued' >= issued,
         NEW c, NEW k, NEW i, NEW start, Issued(c, k, i, start)
  PROVE  BoundOK'
<1>1. /\ c \in Core /\ k \in Kernel /\ i \in CtaId
      /\ \A d \in Core : Resident(d)' = IF d = c THEN Resident(c) \cup {i} ELSE Resident(d)
      /\ \A d \in Core, j \in CtaId :
           cta'[d][j] = IF d = c /\ j = i
                          THEN [kernel |-> k, start |-> start, warps |-> Threads(k, start)]
                          ELSE cta[d][j]
  BY IssuedCores, IssuedIs
<1>2. CASE load.concurrent
  BY <1>2 DEF BoundOK, Issued
<1>3. CASE ~load.concurrent
  <2>1. /\ m_kernel' = [m_kernel EXCEPT ![c] = k] /\ start = i * load.size[k]
        /\ Resident(c) = {} \/ m_kernel[c] = k
        /\ i < CtaPerCore(k)
    <3>1. i \in 0 .. CtaPerCore(k) - 1
      BY <1>3 DEF Issued, FreeCtaIds
    <3>2. CtaPerCore(k) \in Nat
      BY <1>1, CtaPerCoreBound
    <3> QED BY <1>3, <3>1, <3>2 DEF Issued
  <2>2. \A d \in Core : m_kernel'[d] = IF d = c THEN k ELSE m_kernel[d]
    BY <1>1, <2>1 DEF TypeOK
  <2>3. ASSUME NEW d \in Core, m_kernel'[d] # NULL, Resident(d)' = {}
        PROVE  HitMaxCtaCount'
    BY <1>1, <1>3, <2>2, <2>3, LimitKept DEF BoundOK
  <2>4. ASSUME NEW d \in Core, NEW j \in Resident(d)', NEW q \in Kernel, cta'[d][j].kernel = q
        PROVE  m_kernel'[d] = q /\ j < CtaPerCore(q)' /\ cta'[d][j].start = j * load'.size[q]
    <3>1. CtaPerCore(q)' = CtaPerCore(q) /\ j \in CtaId
      BY <2>4, LimitKept DEF Resident
    <3>2. CASE d = c /\ j = i
      BY <1>1, <2>1, <2>2, <2>4, <3>1, <3>2
    <3>3. CASE ~(d = c /\ j = i)
      <4>1. j \in Resident(d) /\ cta[d][j].kernel = q /\ cta'[d][j] = cta[d][j]
        BY <1>1, <2>4, <3>1, <3>3
      <4>2. m_kernel[d] = q /\ j < CtaPerCore(q) /\ cta[d][j].start = j * load.size[q]
        BY <1>3, <4>1 DEF BoundOK
      <4>3. m_kernel'[d] = m_kernel[d]
        BY <2>1, <2>2, <4>1
      <4> QED BY <3>1, <4>1, <4>2, <4>3
    <3> QED BY <3>2, <3>3
  <2> QED BY <1>3, <2>3, <2>4 DEF BoundOK
<1> QED BY <1>2, <1>3

\* The CTA that starts with others of any kernel starts at a multiple of its size.
LEMMA IssuedPlaced ==
  ASSUME TypeOK, load' = load, PlacedOK, NEW c, NEW k, NEW i, NEW start, Issued(c, k, i, start)
  PROVE  PlacedOK'
<1>1. /\ \A d \in Core : Resident(d)' = IF d = c THEN Resident(c) \cup {i} ELSE Resident(d)
      /\ \A d \in Core, j \in CtaId :
           cta'[d][j] = IF d = c /\ j = i
                          THEN [kernel |-> k, start |-> start, warps |-> Threads(k, start)]
                          ELSE cta[d][j]
  BY IssuedCores
<1>2. \A d \in Core : Resident(d)' \subseteq CtaId
  BY DEF Resident
<1>3. load.concurrent => start < NumThreads /\ start % load.size[k] = 0
  BY DispatchAssumption DEF Issued, Steps
<1>4. ASSUME load.concurrent, NEW d \in Core, NEW j \in Resident(d)', NEW q \in Kernel,
             cta'[d][j].kernel = q
      PROVE  cta'[d][j].start < NumThreads /\ cta'[d][j].start % load.size[q] = 0
  <2>1. CASE d = c /\ j = i
    BY <1>1, <1>2, <1>3, <1>4, <2>1
  <2>2. CASE ~(d = c /\ j = i)
    <3>1. j \in Resident(d) /\ cta'[d][j] = cta[d][j]
      BY <1>1, <1>2, <1>4, <2>2
    <3> QED BY <1>4, <3>1 DEF PlacedOK
  <2> QED BY <2>1, <2>2
<1> QED BY <1>4 DEF PlacedOK

\* The core counts the resources of the CTA that starts.
LEMMA IssuedOccupied ==
  ASSUME TypeOK, load' = load, BoundOK, OccupiedOK, ThreadsApart,
         NEW c, NEW k, NEW i, NEW start, Issued(c, k, i, start)
  PROVE  OccupiedOK' /\ occupied' \in [Core -> Occupied]
<1>1. CASE ~load.concurrent
  BY <1>1 DEF OccupiedOK, Issued, TypeOK
<1>2. CASE load.concurrent
  <2> DEFINE T == Threads(k, start)
             a == [kernel |-> k, start |-> start, warps |-> T]
             o == [threads |-> occupied[c].threads + load.size[k],
                   shmem |-> occupied[c].shmem + load.smem[k],
                   ctas |-> occupied[c].ctas + 1,
                   hwtid |-> occupied[c].hwtid \cup T]
  <2>1. /\ i \notin Resident(c) /\ cta[c][i] = NULL
        /\ c \in Core /\ k \in Kernel /\ start \in Nat /\ i \in CtaId
        /\ \A d \in Core : Resident(d)' = IF d = c THEN Resident(c) \cup {i} ELSE Resident(d)
        /\ \A d \in Core, j \in CtaId : cta'[d][j] = IF d = c /\ j = i THEN a ELSE cta[d][j]
        /\ a \in Cta /\ a # NULL
        /\ cta' = [cta EXCEPT ![c][i] = a]
        /\ load.size[k] \in Nat /\ load.smem[k] \in Nat /\ ShmemSize \in Nat
    <3>1. /\ i \notin Resident(c) /\ cta[c][i] = NULL
          /\ c \in Core /\ k \in Kernel /\ start \in Nat /\ i \in CtaId
          /\ \A d \in Core : Resident(d)' = IF d = c THEN Resident(c) \cup {i} ELSE Resident(d)
          /\ \A d \in Core, j \in CtaId : cta'[d][j] = IF d = c /\ j = i THEN a ELSE cta[d][j]
          /\ a \in Cta
      <4>1. c \in Core /\ k \in Kernel /\ start \in Nat /\ i \in CtaId
        BY DEF Issued
      <4>2. /\ i \notin Resident(c) /\ cta[c][i] = NULL
            /\ \A d \in Core : Resident(d)' = IF d = c THEN Resident(c) \cup {i} ELSE Resident(d)
            /\ \A d \in Core, j \in CtaId : cta'[d][j] = IF d = c /\ j = i THEN a ELSE cta[d][j]
            /\ a \in Cta
        BY IssuedCores
      <4> QED BY <4>1, <4>2
    <3>2. a # NULL
      BY <3>1, DispatchAssumption
    <3>3. cta' = [cta EXCEPT ![c][i] = a]
      BY DEF Issued
    <3> HIDE DEF a
    <3> QED BY <3>1, <3>2, <3>3, LoadType, DispatchAssumption
  <2>2. T \subseteq Nat /\ IsFiniteSet(T) /\ Cardinality(T) = load.size[k]
    BY <2>1, ThreadsCount
  <2>3. /\ occupied[c].hwtid \cap T = {}
        /\ occupied[c].shmem + load.smem[k] <= ShmemSize
    BY <1>2 DEF Issued, Steps, CanIssue1Block, Occupiable
  <2>4. occupied[c] \in Occupied
    BY <2>1 DEF TypeOK
  <2>5. occupied' = [occupied EXCEPT ![c] = o]
    <3>1. occupied' = [occupied EXCEPT ![c] = Taken(occupied[c], k, start)]
      BY <1>2, <2>1 DEF Issued, TypeOK
    <3> QED BY <3>1 DEF Taken
  <2>6. o \in Occupied
    BY <2>1, <2>2, <2>4 DEF Occupied
  <2>7. /\ \A d \in Core : occupied'[d] = IF d = c THEN o ELSE occupied[d]
        /\ occupied' \in [Core -> Occupied]
    BY <2>1, <2>5, <2>6 DEF TypeOK
  <2>8. ASSUME NEW d \in Core, d # c
        PROVE  /\ occupied'[d].hwtid = UNION {ThreadsOf(d, j)' : j \in Resident(d)'}
               /\ IsFiniteSet(occupied'[d].hwtid)
               /\ occupied'[d].threads = Cardinality(occupied'[d].hwtid)
               /\ occupied'[d].ctas = Cardinality(Resident(d)')
               /\ occupied'[d].shmem = ShmemSum(d)' /\ ShmemSum(d)' <= ShmemSize
    <3>1. Resident(d)' = Resident(d) /\ ShmemSum(d)' = ShmemSum(d)
          /\ \A j \in CtaId : ThreadsOf(d, j)' = ThreadsOf(d, j)
      <4>1. cta' = [cta EXCEPT ![c] = [cta[c] EXCEPT ![i] = a]]
        BY <2>1 DEF TypeOK
      <4> HIDE DEF a
      <4> QED BY <2>1, <2>8, <4>1, OtherCore
    <3>2. {ThreadsOf(d, j)' : j \in Resident(d)'} = {ThreadsOf(d, j) : j \in Resident(d)}
      BY <3>1 DEF Resident
    <3>3. occupied'[d] = occupied[d]
      BY <2>7, <2>8
    <3> QED BY <1>2, <3>1, <3>2, <3>3 DEF OccupiedOK
  <2>9. /\ occupied[c].hwtid = UNION {ThreadsOf(c, j) : j \in Resident(c)}
        /\ IsFiniteSet(occupied[c].hwtid)
        /\ occupied[c].threads = Cardinality(occupied[c].hwtid)
        /\ occupied[c].ctas = Cardinality(Resident(c))
        /\ occupied[c].shmem = ShmemSum(c)
    BY <1>2, <2>1 DEF OccupiedOK
  <2>10. o.hwtid = UNION {ThreadsOf(c, j)' : j \in Resident(c)'}
    <3>1. \A j \in CtaId : ThreadsOf(c, j)' = IF j = i THEN T ELSE ThreadsOf(c, j)
      BY <2>1 DEF ThreadsOf, Threads
    <3>2. Resident(c)' = Resident(c) \cup {i} /\ Resident(c) \subseteq CtaId
      BY <2>1 DEF Resident
    <3> HIDE DEF T
    <3> QED BY <2>1, <2>9, <3>1, <3>2
  <2>11. IsFiniteSet(o.hwtid) /\ o.threads = Cardinality(o.hwtid)
    <3>1. /\ IsFiniteSet(occupied[c].hwtid \cup T)
          /\ Cardinality(occupied[c].hwtid \cup T)
               = Cardinality(occupied[c].hwtid) + Cardinality(T) - Cardinality(occupied[c].hwtid \cap T)
      BY <2>2, <2>9, FS_Union
    <3>2. Cardinality(occupied[c].hwtid \cap T) = 0 /\ Cardinality(occupied[c].hwtid) \in Nat
      BY <2>3, <2>9, FS_EmptySet, FS_CardinalityType
    <3> QED BY <2>1, <2>2, <2>9, <3>1, <3>2
  <2>12. o.ctas = Cardinality(Resident(c)')
    BY <2>1, <2>9, ResidentFinite, FS_AddElement
  <2>13. o.shmem = ShmemSum(c)' /\ ShmemSum(c)' <= ShmemSize
    <3>1. ShmemSum(c)' = ShmemSum(c) + ShmemOf(c, i)' - ShmemOf(c, i)
          /\ ShmemOf(c, i)' = IF a = NULL THEN 0 ELSE load.smem[a.kernel]
      <4> HIDE DEF a
      <4> QED BY <2>1, ShmemChange
    <3>2. ShmemOf(c, i) = 0 /\ ShmemOf(c, i)' = load.smem[k]
      BY <2>1, <3>1 DEF ShmemOf
    <3>3. ShmemSum(c) \in Nat
      BY <2>1, ShmemType
    <3> QED BY <2>1, <2>3, <2>9, <3>1, <3>2, <3>3
  <2> HIDE DEF o
  <2>14. ASSUME NEW d \in Core
         PROVE  /\ occupied'[d].hwtid = UNION {ThreadsOf(d, j)' : j \in Resident(d)'}
                /\ IsFiniteSet(occupied'[d].hwtid)
                /\ occupied'[d].threads = Cardinality(occupied'[d].hwtid)
                /\ occupied'[d].ctas = Cardinality(Resident(d)')
                /\ occupied'[d].shmem = ShmemSum(d)' /\ ShmemSum(d)' <= ShmemSize
    <3>1. CASE d = c
      BY <2>7, <2>10, <2>11, <2>12, <2>13, <3>1
    <3>2. CASE d # c
      BY <2>8, <3>2
    <3> QED BY <3>1, <3>2
  <2> QED BY <2>7, <2>14 DEF OccupiedOK
<1> QED BY <1>1, <1>2

\* The kernel counts the CTA that starts.
LEMMA IssuedRunning ==
  ASSUME TypeOK, load' = load, m_running_kernels' = m_running_kernels, RunningOK, FiniteOK,
         NEW c, NEW k, NEW i, NEW start, Issued(c, k, i, start)
  PROVE  RunningOK' /\ FiniteOK' /\ cores_running' \in [Kernel -> Nat]
<1>1. /\ i \notin Resident(c) /\ c \in Core /\ k \in Kernel /\ i \in CtaId /\ InSlot(k)
      /\ cores_running' = [cores_running EXCEPT ![k] = @ + 1]
  BY IssuedCores DEF Issued
<1>2. /\ \A d \in Core : Resident(d)' = IF d = c THEN Resident(c) \cup {i} ELSE Resident(d)
      /\ \A d \in Core, j \in CtaId :
           cta'[d][j] = IF d = c /\ j = i
                          THEN [kernel |-> k, start |-> start, warps |-> Threads(k, start)]
                          ELSE cta[d][j]
  BY IssuedCores
<1>3. [kernel |-> k, start |-> start, warps |-> Threads(k, start)] # NULL /\ cta[c][i] = NULL
  <2>1. [kernel |-> k, start |-> start, warps |-> Threads(k, start)] \in Cta /\ cta[c][i] = NULL
    BY IssuedCores
  <2>2. \A a \in Cta : a # NULL
    BY DispatchAssumption
  <2> QED BY <2>1, <2>2
<1>4. ASSUME NEW q \in Kernel
      PROVE  CtasOf(q)' = IF q = k THEN CtasOf(q) \cup {<<c, i>>} ELSE CtasOf(q)
  <2>1. ASSUME NEW d \in Core, NEW j \in CtaId
        PROVE  <<d, j>> \in CtasOf(q)' <=> <<d, j>> \in CtasOf(q) \/ (d = c /\ j = i /\ q = k)
    BY <1>1, <1>2, <1>3 DEF CtasOf
  <2>2. \A x \in Core \X CtaId : x = <<x[1], x[2]>> /\ x[1] \in Core /\ x[2] \in CtaId
    OBVIOUS
  <2>3. CtasOf(q)' \subseteq Core \X CtaId /\ CtasOf(q) \subseteq Core \X CtaId
    BY DEF CtasOf
  <2>4. \A x \in Core \X CtaId : x \in CtasOf(q)' <=> x \in CtasOf(q) \/ (x = <<c, i>> /\ q = k)
    BY <2>1, <2>2
  <2> QED BY <1>1, <2>3, <2>4
<1>5. <<c, i>> \notin CtasOf(k)
  BY <1>1, <1>3 DEF CtasOf
<1>6. ASSUME NEW q \in Kernel
      PROVE  IsFiniteSet(CtasOf(q)') /\ cores_running'[q] = Cardinality(CtasOf(q)')
  <2>1. IsFiniteSet(CtasOf(q)) /\ cores_running[q] = Cardinality(CtasOf(q))
    BY DEF RunningOK, FiniteOK
  <2>2. CASE q = k
    <3>1. /\ IsFiniteSet(CtasOf(q) \cup {<<c, i>>})
          /\ Cardinality(CtasOf(q) \cup {<<c, i>>}) = Cardinality(CtasOf(q)) + 1
      BY <1>5, <2>1, <2>2, FS_AddElement
    <3> QED BY <1>1, <1>4, <2>1, <2>2, <3>1 DEF TypeOK
  <2>3. CASE q # k
    BY <1>1, <1>4, <2>1, <2>3 DEF TypeOK
  <2> QED BY <2>2, <2>3
<1>7. ASSUME NEW d \in Core, NEW j \in Resident(d)'
      PROVE  InSlot(cta[d][j].kernel)'
  <2>1. j \in CtaId
    BY DEF Resident
  <2>2. CASE d = c /\ j = i
    <3>1. cta'[d][j].kernel = k
      BY <1>2, <2>1, <2>2
    <3> QED BY <1>1, <3>1 DEF InSlot
  <2>3. CASE ~(d = c /\ j = i)
    <3>1. cta'[d][j] = cta[d][j] /\ j \in Resident(d)
      BY <1>2, <1>7, <2>1, <2>3
    <3> QED BY <3>1 DEF RunningOK, InSlot
  <2> QED BY <2>2, <2>3
<1>8. cores_running' \in [Kernel -> Nat]
  BY <1>1 DEF TypeOK
<1> QED BY <1>6, <1>7, <1>8 DEF RunningOK, FiniteOK

\* No kernel is launched or finished.
LEMMA SlotsKept ==
  ASSUME TypeOK, SlotsOK, UNCHANGED <<load, m_running_kernels, launched, finished>>,
         issued' \in Nat, issued' >= issued, next_cta' \in [Kernel -> Nat],
         \A k \in Kernel : /\ next_cta'[k] >= next_cta[k] /\ (InSlot(k) => ~Done(k)')
                           /\ next_cta'[k] = next_cta[k] \/ InSlot(k)
  PROVE  SlotsOK'
<1>1. \A k \in Kernel : NoMoreCtas(k) => NoMoreCtas(k)'
  <2> SUFFICES ASSUME NEW k \in Kernel, NoMoreCtas(k) PROVE NoMoreCtas(k)'
    OBVIOUS
  <2>1. /\ next_cta[k] \in Nat /\ next_cta'[k] \in Nat /\ next_cta'[k] >= next_cta[k]
        /\ load' = load /\ load.grid[k] \in Nat /\ next_cta[k] >= load.grid[k]
    BY LoadType DEF NoMoreCtas, TypeOK
  <2>2. next_cta'[k] >= load.grid[k]
    BY ONLY <2>1
  <2> QED BY <2>1, <2>2 DEF NoMoreCtas
<1>2. \A k : InSlot(k)' <=> InSlot(k)
  BY DEF InSlot
<1>3. \A k : IsFinished(k)' <=> IsFinished(k)
  BY DEF IsFinished
<1>4. HitMaxCtaCount => HitMaxCtaCount'
  BY LimitKept
<1>5. ASSUME NEW s \in Slot, m_running_kernels[s] # NULL
      PROVE  m_running_kernels[s] \in launched /\ ~Done(m_running_kernels[s])'
  <2>1. PICK k \in Kernel : k = m_running_kernels[s]
    BY <1>5 DEF TypeOK
  <2>2. ~Done(k)' /\ k \in launched
    BY <1>5, <2>1 DEF InSlot, SlotsOK
  <2>3. m_running_kernels'[s] = k
    BY <2>1
  <2> QED BY <2>1, <2>2, <2>3 DEF Done, NoMoreCtas
<1>6. ASSUME NEW n \in DOMAIN finished
      PROVE  /\ finished[n] \in launched /\ ~InSlot(finished[n])'
             /\ NoMoreCtas(finished[n])' \/ HitMaxCtaCount'
             /\ \A m \in DOMAIN finished : finished[m] = finished[n] => m = n
  <2>1. PICK k \in Kernel : k = finished[n]
    BY DEF TypeOK
  <2>2. /\ k \in launched /\ ~InSlot(k) /\ (NoMoreCtas(k) \/ HitMaxCtaCount)
        /\ \A m \in DOMAIN finished : finished[m] = finished[n] => m = n
    BY <2>1 DEF SlotsOK
  <2>3. ~InSlot(k)' /\ (NoMoreCtas(k)' \/ HitMaxCtaCount')
    BY <1>1, <1>2, <1>4, <2>1, <2>2
  <2>4. finished'[n] = k
    BY <2>1
  <2>5. ~InSlot(finished[n])' /\ (NoMoreCtas(finished[n])' \/ HitMaxCtaCount')
    BY <2>3, <2>4 DEF InSlot, NoMoreCtas
  <2> QED BY <2>1, <2>2, <2>5
<1>7. \A k \in launched : InSlot(k)' \/ IsFinished(k)'
  BY <1>2, <1>3 DEF SlotsOK
<1>8. \A s, t \in Slot : m_running_kernels'[s] # NULL /\ m_running_kernels'[s] = m_running_kernels'[t]
                           => s = t
  BY DEF SlotsOK
<1>9. \A k \in Kernel : next_cta'[k] # 0 => k \in launched
  BY DispatchAssumption DEF SlotsOK, InSlot
<1> QED BY <1>5, <1>6, <1>7, <1>8, <1>9 DEF SlotsOK

\* select_kernel picks a kernel in a slot; the one it picked before has no CTA left that
\* could be selected, unless it is the same.
LEMMA SelectKept ==
  ASSUME TypeOK, SlotsOK, SelectedOK, UNCHANGED <<load, m_running_kernels, launched, tb_latency>>,
         next_cta' \in [Kernel -> Nat], \A k \in Kernel : next_cta'[k] >= next_cta[k],
         NEW c \in Core, Select(c)
  PROVE  SelectedOK' /\ m_last_issued_kernel' \in Slot /\ executed' \subseteq Kernel
<1>1. ASSUME NEW s \in Slot, Selectable(s)'
      PROVE  Selectable(s) /\ m_running_kernels[s] \in Kernel
  <2>1. PICK k \in Kernel : k = m_running_kernels[s]
    BY <1>1 DEF Selectable, TypeOK
  <2>2. m_running_kernels'[s] = k
    BY <2>1
  <2>3. ~(next_cta'[k] >= load.grid[k]) /\ tb_latency[k] = 0 /\ k # NULL
    BY <1>1, <2>2 DEF Selectable, NoMoreCtas
  <2>4. ~(next_cta[k] >= load.grid[k])
    BY <2>3, LoadType DEF TypeOK
  <2> QED BY <2>1, <2>3, <2>4 DEF Selectable, NoMoreCtas
<1>2. CASE Asks(c) /\ SelectSlot # {}
  <2>1. /\ Selected \in Slot /\ Selectable(Selected) /\ m_running_kernels[Selected] \in Kernel
        /\ Selectable(m_last_issued_kernel) => Selected = m_last_issued_kernel
    BY <1>2, SelectedSlot
  <2>2. PICK z \in Slot : z = Selected
    BY <2>1
  <2>3. m_last_issued_kernel' = z /\ executed' = executed \cup {m_running_kernels[z]}
    BY <1>2, <2>2 DEF Select
  <2>4. m_running_kernels[z] \in launched /\ tb_latency[m_running_kernels[z]] = 0
        /\ m_running_kernels[z] \in Kernel
    BY <2>1, <2>2 DEF Selectable, SlotsOK
  <2>5. ASSUME NEW s \in Slot, Selectable(s)', m_running_kernels[s] \in executed'
        PROVE  s = z
    <3>1. Selectable(s) /\ m_running_kernels[s] # NULL
      BY <1>1, <2>5 DEF Selectable
    <3>2. CASE m_running_kernels[s] = m_running_kernels[z]
      BY <3>1, <3>2 DEF SlotsOK
    <3>3. CASE m_running_kernels[s] \in executed
      <4>1. s = m_last_issued_kernel
        BY <3>1, <3>3 DEF SelectedOK
      <4> QED BY <2>1, <2>2, <3>1, <4>1
    <3> QED BY <2>3, <2>5, <3>2, <3>3
  <2> QED BY <2>3, <2>4, <2>5 DEF SelectedOK, TypeOK
<1>3. CASE ~(Asks(c) /\ SelectSlot # {})
  <2>1. UNCHANGED <<m_last_issued_kernel, executed>>
    BY <1>3 DEF Select
  <2> QED BY <1>1, <2>1 DEF SelectedOK, TypeOK
<1> QED BY <1>2, <1>3

\* A core takes a CTA.
LEMMA IssueStep == ASSUME Books, IssueCta PROVE Books'
<1>1. PICK i, start : Issued(Visited, Offered(Visited), i, start)
  BY IssueIs DEF Books
<1>2. Visited \in Core /\ Offered(Visited) \in Kernel
  BY <1>1 DEF Issued
<1>3. PICK c \in Core : c = Visited
  BY <1>2
<1>4. PICK k \in Kernel : k = Offered(Visited)
  BY <1>2
<1>5. Issued(c, k, i, start)
  BY <1>1, <1>3, <1>4
<1>6. /\ UNCHANGED <<load, m_running_kernels, tb_latency, launched, finished>>
      /\ Select(c) /\ issued' = issued + 1 /\ scan.cluster \in Cluster
      /\ last_cluster' = c[1] /\ next_core' = [next_core EXCEPT ![c[1]] = c[2]]
      /\ scan' = [scan EXCEPT !.cluster = @ + 1, !.core = 0]
  BY <1>3 DEF IssueCta
<1>7. issued' \in Nat /\ issued' >= issued
  BY <1>6 DEF Books, TypeOK
<1>8. next_cta' \in [Kernel -> Nat] /\ \A q \in Kernel : next_cta'[q] >= next_cta[q]
  <2>1. next_cta \in [Kernel -> Nat] /\ k \in Kernel /\ next_cta' = [next_cta EXCEPT ![k] = @ + 1]
    BY <1>5 DEF Books, TypeOK, Issued
  <2> QED BY ONLY <2>1
<1>9. RunningOK' /\ FiniteOK' /\ cores_running' \in [Kernel -> Nat]
  BY <1>5, <1>6, IssuedRunning DEF Books
<1>10. OccupiedOK' /\ occupied' \in [Core -> Occupied]
  BY <1>5, <1>6, IssuedOccupied DEF Books
<1>11. ThreadsApart'
  BY <1>5, <1>6, IssuedApart DEF Books
<1>12. BoundOK' /\ PlacedOK'
  BY <1>5, <1>6, <1>7, IssuedBound, IssuedPlaced DEF Books
<1>13. SelectedOK' /\ m_last_issued_kernel' \in Slot /\ executed' \subseteq Kernel
  BY <1>6, <1>8, SelectKept DEF Books
<1>14. SlotsOK'
  <2>1. ASSUME NEW q \in Kernel, InSlot(q)
        PROVE  ~Done(q)'
    <3>1. CASE q = k
      <4>1. cores_running'[q] = cores_running[q] + 1 /\ cores_running[q] \in Nat
        BY <1>5, <3>1 DEF Issued, Books, TypeOK
      <4> QED BY <4>1 DEF Done
    <3>2. CASE q # k
      <4>1. cores_running'[q] = cores_running[q] /\ next_cta'[q] = next_cta[q] /\ load' = load
        BY <1>5, <1>6, <3>2 DEF Issued, Books, TypeOK
      <4>2. ~Done(q)
        BY <2>1, DispatchAssumption DEF Books, SlotsOK, InSlot
      <4> QED BY <4>1, <4>2 DEF Done, NoMoreCtas
    <3> QED BY <3>1, <3>2
  <2>2. \A q \in Kernel : next_cta'[q] = next_cta[q] \/ InSlot(q)
    BY <1>5 DEF Issued, Books, TypeOK
  <2> QED BY <1>6, <1>7, <1>8, <2>1, <2>2, SlotsKept DEF Books
<1>15. cta' \in [Core -> [CtaId -> Cta \cup {NULL}]]
  BY <1>5, <1>6, IssuedCores DEF Books
<1>16. m_kernel' \in [Core -> Kernel \cup {NULL}]
  <2>1. load.concurrent \in BOOLEAN
    BY LoadType DEF Books
  <2> QED BY <1>5, <2>1 DEF Issued, Books, TypeOK
<1>17. /\ last_cluster' \in Cluster /\ next_core' \in [Cluster -> 0 .. CoresPerCluster - 1]
       /\ scan' \in [cluster : -1 .. NumClusters, core : 0 .. CoresPerCluster - 1, from : Cluster]
  <2>1. c[1] \in Cluster /\ c[2] \in 0 .. CoresPerCluster - 1
    BY DEF Core
  <2>2. scan.cluster + 1 \in -1 .. NumClusters /\ 0 \in 0 .. CoresPerCluster - 1
    BY <1>6, DispatchAssumption DEF Cluster
  <2> QED BY <1>6, <2>1, <2>2 DEF Books, TypeOK
<1>18. TypeOK'
  BY <1>6, <1>7, <1>8, <1>9, <1>10, <1>13, <1>15, <1>16, <1>17 DEF Books, TypeOK
<1> QED BY <1>9, <1>10, <1>11, <1>12, <1>13, <1>14, <1>18 DEF Books

\* Nothing changes on the cores.
LEMMA CtasKept ==
  ASSUME UNCHANGED <<load, cta, occupied>>
  PROVE  /\ ThreadsApart => ThreadsApart'
         /\ OccupiedOK => OccupiedOK'
         /\ FiniteOK => FiniteOK'
         /\ PlacedOK => PlacedOK'
         /\ \A k : CtasOf(k)' = CtasOf(k)
         /\ \A c : Resident(c)' = Resident(c)
<1>1. \A k : CtasOf(k)' = CtasOf(k)
  BY DEF CtasOf
<1>2. \A c : Resident(c)' = Resident(c)
  BY DEF Resident
<1>3. \A c, i : ThreadsOf(c, i)' = ThreadsOf(c, i)
  BY DEF ThreadsOf, Threads
<1>4. \A c : ShmemSum(c)' = ShmemSum(c)
  BY DEF ShmemSum, ShmemOf
<1>5. ThreadsApart => ThreadsApart'
  BY <1>2, <1>3 DEF ThreadsApart
<1>6. OccupiedOK => OccupiedOK'
  BY <1>2, <1>3, <1>4 DEF OccupiedOK
<1>7. FiniteOK => FiniteOK'
  BY <1>1 DEF FiniteOK
<1>8. PlacedOK => PlacedOK'
  BY <1>2 DEF PlacedOK
<1> QED BY <1>1, <1>2, <1>5, <1>6, <1>7, <1>8

\* A core takes no CTA: if it is bound to a kernel without having CTAs, no more are issued.
LEMMA SkipStep == ASSUME Books, SkipCore PROVE Books'
<1>1. Visited \in Core /\ Visited[1] \in Cluster
  BY VisitedCore DEF SkipCore, Books
<1>2. PICK c \in Core : c = Visited
  BY <1>1
<1>3. /\ UNCHANGED <<load, m_running_kernels, next_cta, cores_running, tb_latency, launched,
                     finished, cta, occupied, issued, last_cluster, next_core>>
      /\ Select(c) /\ ~Takes(c) /\ scan.cluster \in Cluster
  BY <1>2 DEF SkipCore
<1>4. next_cta \in [Kernel -> Nat] /\ \A q \in Kernel : next_cta[q] >= next_cta[q]
  BY DEF Books, TypeOK
<1>5. SelectedOK' /\ m_last_issued_kernel' \in Slot /\ executed' \subseteq Kernel
  BY <1>3, <1>4, SelectKept DEF Books
<1>6. /\ ThreadsApart' /\ OccupiedOK' /\ FiniteOK' /\ PlacedOK'
      /\ \A k : CtasOf(k)' = CtasOf(k) /\ \A d : Resident(d)' = Resident(d)
  BY <1>3, CtasKept DEF Books
<1>7. RunningOK'
  BY <1>3, <1>6 DEF Books, RunningOK, InSlot
<1>8. SlotsOK'
  BY <1>3 DEF Books, SlotsOK, InSlot, IsFinished, Done, NoMoreCtas, HitMaxCtaCount
<1>9. BoundOK' /\ m_kernel' \in [Core -> Kernel \cup {NULL}]
  <2>1. CASE load.concurrent \/ ~Asks(c) \/ SelectSlot = {}
    <3>1. m_kernel' = m_kernel
      BY <1>3, <2>1 DEF Select
    <3>2. (HitMaxCtaCount' <=> HitMaxCtaCount) /\ \A q : CtaPerCore(q)' = CtaPerCore(q)
      BY <1>3 DEF HitMaxCtaCount, CtaPerCore
    <3>3. BoundOK'
      BY <1>3, <1>6, <3>1, <3>2 DEF Books, BoundOK
    <3> QED BY <3>1, <3>3 DEF Books, TypeOK
  <2>2. CASE ~load.concurrent /\ Asks(c) /\ SelectSlot # {}
    <3>1. Selected \in Slot /\ Selectable(Selected) /\ m_running_kernels[Selected] \in Kernel
      BY <2>2, SelectedSlot DEF Books
    <3>2. PICK k \in Kernel : k = m_running_kernels[Selected]
      BY <3>1
    <3>3. m_kernel' = [m_kernel EXCEPT ![c] = k] /\ Resident(c) = {}
      BY <1>3, <2>2, <3>2 DEF Select, Asks, NotCompleted
    <3>4. Offered(c) = k
      BY <2>2, <3>2 DEF Offered
    <3>5. CanIssue1Block(c, k)
      BY <2>2, <3>3, EmptyCoreTakes DEF Books
    <3>6. HitMaxCtaCount
      <4>1. k # NULL /\ ~NoMoreCtas(k)
        BY <3>1, <3>2 DEF Selectable
      <4> QED BY <1>3, <3>4, <3>5, <4>1 DEF Takes, MoreCtaLeft
    <3>7. HitMaxCtaCount' /\ \A q : CtaPerCore(q)' = CtaPerCore(q)
      BY <1>3, <3>6 DEF HitMaxCtaCount, CtaPerCore
    <3>8. m_kernel' \in [Core -> Kernel \cup {NULL}]
      BY <3>3 DEF Books, TypeOK
    <3>9. \A d \in Core : d # c => m_kernel'[d] = m_kernel[d]
      BY <3>3 DEF Books, TypeOK
    <3>10. ASSUME NEW d \in Core, NEW i \in Resident(d), NEW q \in Kernel, cta[d][i].kernel = q
           PROVE  m_kernel'[d] = q /\ i < CtaPerCore(q)' /\ cta[d][i].start = i * load.size[q]
      <4>1. d # c
        BY <3>3, <3>10
      <4> QED BY <2>2, <3>7, <3>9, <3>10, <4>1 DEF Books, BoundOK
    <3> QED BY <1>3, <1>6, <2>2, <3>7, <3>8, <3>10 DEF BoundOK
  <2> QED BY <2>1, <2>2
<1>10. scan' \in [cluster : -1 .. NumClusters, core : 0 .. CoresPerCluster - 1, from : Cluster]
  <2> DEFINE last == scan.core + 1 = CoresPerCluster
             cl == IF last THEN scan.cluster + 1 ELSE scan.cluster
             co == IF last THEN 0 ELSE scan.core + 1
  <2>1. scan' = [scan EXCEPT !.cluster = cl, !.core = co]
    BY DEF SkipCore
  <2>2. cl \in -1 .. NumClusters /\ co \in 0 .. CoresPerCluster - 1
    <3>1. NumClusters \in Nat \ {0} /\ CoresPerCluster \in Nat \ {0}
      BY DispatchAssumption
    <3>2. scan.cluster \in 0 .. NumClusters - 1 /\ scan.core \in 0 .. CoresPerCluster - 1
      BY <1>3 DEF Books, TypeOK, Cluster
    <3>3. CASE last
      <4>1. scan.cluster + 1 \in -1 .. NumClusters
        BY ONLY <3>1, <3>2
      <4> QED BY <3>1, <3>3, <4>1
    <3>4. CASE ~last
      <4>1. scan.core + 1 \in 0 .. CoresPerCluster - 1
        BY ONLY <3>1, <3>2, <3>4
      <4>2. scan.cluster \in -1 .. NumClusters
        BY ONLY <3>1, <3>2
      <4> QED BY <3>4, <4>1, <4>2
    <3> QED BY <3>3, <3>4
  <2> HIDE DEF cl, co
  <2> QED BY <2>1, <2>2 DEF Books, TypeOK
<1>11. TypeOK'
  BY <1>3, <1>5, <1>9, <1>10 DEF Books, TypeOK
<1> QED BY <1>5, <1>6, <1>7, <1>8, <1>9, <1>11 DEF Books

\* A kernel is launched into a slot that is free: a kernel in a slot is not done.
LEMMA LaunchStep == ASSUME Books, NEW k \in Kernel, Launch(k) PROVE Books'
<1> DEFINE z == Min(UsableSlots)
<1>1. /\ UsableSlots # {} /\ k \notin launched /\ launched' = launched \cup {k}
      /\ m_running_kernels' = [m_running_kernels EXCEPT ![z] = k]
      /\ UNCHANGED <<load, m_kernel, cta, occupied, issued, last_cluster, next_core, scan,
                     m_last_issued_kernel, executed, next_cta, cores_running, tb_latency, finished>>
  BY DEF Launch, cores, walk
<1>2. z \in UsableSlots
  <2>1. UsableSlots \in SUBSET Nat
    BY DispatchAssumption DEF UsableSlots, Slot
  <2> QED BY <1>1, <2>1, MinOf
<1>3. z \in Slot /\ m_running_kernels[z] = NULL
  BY <1>2 DEF UsableSlots, Books, SlotsOK
<1> HIDE DEF z
<1>4. k # NULL
  BY DispatchAssumption
<1>5. \A s \in Slot : m_running_kernels'[s] = IF s = z THEN k ELSE m_running_kernels[s]
  BY <1>1, <1>3 DEF Books, TypeOK
<1>6. \A q \in Kernel : InSlot(q)' <=> InSlot(q) \/ q = k
  BY <1>3, <1>5, DispatchAssumption DEF InSlot
<1>7. ~InSlot(k) /\ ~IsFinished(k) /\ k \notin executed /\ next_cta[k] = 0
  BY <1>1, <1>4 DEF InSlot, IsFinished, Books, SlotsOK, SelectedOK
<1>8. TypeOK'
  BY <1>1, <1>3 DEF Books, TypeOK
<1>9. /\ \A q : (Done(q)' <=> Done(q)) /\ (NoMoreCtas(q)' <=> NoMoreCtas(q))
                  /\ (IsFinished(q)' <=> IsFinished(q))
      /\ HitMaxCtaCount' <=> HitMaxCtaCount
  BY <1>1 DEF Done, NoMoreCtas, HitMaxCtaCount, IsFinished
<1>10. ~Done(k)
  BY <1>7, LoadType DEF Done, NoMoreCtas, Books
<1>11. SlotsOK'
  <2>1. ASSUME NEW s \in Slot, NEW t \in Slot, m_running_kernels'[s] # NULL,
               m_running_kernels'[s] = m_running_kernels'[t]
        PROVE  s = t
    BY <1>3, <1>5, <1>7, <2>1 DEF Books, SlotsOK, InSlot
  <2>2. ASSUME NEW s \in Slot, m_running_kernels'[s] # NULL
        PROVE  m_running_kernels'[s] \in launched' /\ ~Done(m_running_kernels[s])'
    <3>1. PICK q \in Kernel : q = m_running_kernels'[s]
      BY <1>8, <2>2 DEF TypeOK
    <3>2. q \in launched' /\ ~Done(q)
      BY <1>1, <1>5, <1>10, <2>2, <3>1 DEF Books, SlotsOK
    <3>3. ~Done(q)'
      BY <1>9, <3>2
    <3> QED BY <3>1, <3>2, <3>3 DEF Done, NoMoreCtas
  <2>3. \A q \in launched' : InSlot(q)' \/ IsFinished(q)'
    BY <1>1, <1>6, <1>9 DEF Books, SlotsOK, TypeOK
  <2>4. ASSUME NEW n \in DOMAIN finished
        PROVE  /\ finished[n] \in launched' /\ ~InSlot(finished[n])'
               /\ NoMoreCtas(finished[n])' \/ HitMaxCtaCount'
               /\ \A m \in DOMAIN finished : finished[m] = finished[n] => m = n
    <3>1. PICK q \in Kernel : q = finished[n]
      BY DEF Books, TypeOK
    <3>2. /\ q \in launched /\ ~InSlot(q) /\ (NoMoreCtas(q) \/ HitMaxCtaCount)
          /\ \A m \in DOMAIN finished : finished[m] = finished[n] => m = n
      BY <3>1 DEF Books, SlotsOK
    <3>3. ~InSlot(q)' /\ (NoMoreCtas(q)' \/ HitMaxCtaCount')
      BY <1>1, <1>6, <1>9, <3>1, <3>2
    <3>4. finished'[n] = q
      BY <1>1, <3>1
    <3>5. ~InSlot(finished[n])' /\ (NoMoreCtas(finished[n])' \/ HitMaxCtaCount')
      BY <3>3, <3>4 DEF InSlot, NoMoreCtas
    <3> QED BY <1>1, <3>1, <3>2, <3>5
  <2>5. \A q \in Kernel : next_cta'[q] # 0 => q \in launched'
    BY <1>1 DEF Books, SlotsOK
  <2> QED BY <1>1, <2>1, <2>2, <2>3, <2>4, <2>5 DEF SlotsOK
<1>12. SelectedOK'
  <2>1. ASSUME NEW s \in Slot, Selectable(s)', m_running_kernels'[s] \in executed
        PROVE  s = m_last_issued_kernel
    <3>1. s # z /\ m_running_kernels'[s] = m_running_kernels[s]
      BY <1>5, <1>7, <2>1
    <3>2. Selectable(s)
      BY <1>1, <2>1, <3>1 DEF Selectable, NoMoreCtas
    <3> QED BY <2>1, <3>1, <3>2 DEF Books, SelectedOK
  <2> QED BY <1>1, <2>1 DEF Books, SelectedOK
<1>13. /\ ThreadsApart' /\ OccupiedOK' /\ FiniteOK' /\ PlacedOK'
       /\ \A q : CtasOf(q)' = CtasOf(q) /\ \A d : Resident(d)' = Resident(d)
  BY <1>1, CtasKept DEF Books
<1>14. RunningOK'
  <2>1. ASSUME NEW c \in Core, NEW i \in Resident(c)
        PROVE  InSlot(cta[c][i].kernel)'
    <3>1. PICK q \in Kernel : q = cta[c][i].kernel
      BY CtaType DEF Books
    <3>2. InSlot(q)
      BY <3>1 DEF Books, RunningOK
    <3>3. InSlot(q)' /\ cta'[c][i].kernel = q
      BY <1>1, <1>6, <3>1, <3>2
    <3> QED BY <3>3 DEF InSlot
  <2> QED BY <1>1, <1>13, <2>1 DEF Books, RunningOK
<1>15. BoundOK'
  BY <1>1, <1>13 DEF Books, BoundOK, HitMaxCtaCount, CtaPerCore
<1> QED BY <1>8, <1>11, <1>12, <1>13, <1>14, <1>15 DEF Books

\* The walk starts, or the latencies are counted down: no slot, core or CTA changes.
LEMMA QuietStep ==
  ASSUME Books, BeginIssue \/ DecrementKernelLatency
  PROVE  Books'
<1>1. /\ UNCHANGED <<load, cores, m_running_kernels, m_last_issued_kernel, executed, next_cta,
                     cores_running, launched, finished, issued, last_cluster, next_core>>
      /\ scan' \in [cluster : -1 .. NumClusters, core : 0 .. CoresPerCluster - 1, from : Cluster]
      /\ tb_latency' \in [Kernel -> Nat]
      /\ \A k \in Kernel : tb_latency[k] = 0 => tb_latency'[k] = 0
  <2>1. CASE BeginIssue
    <3>1. 0 \in -1 .. NumClusters /\ 0 \in 0 .. CoresPerCluster - 1
      BY DispatchAssumption
    <3> QED BY <2>1, <3>1 DEF BeginIssue, Books, TypeOK, kernels
  <2>2. CASE DecrementKernelLatency
    <3>1. -1 \in -1 .. NumClusters
      BY DispatchAssumption
    <3>2. scan' = [scan EXCEPT !.cluster = -1]
      BY <2>2 DEF DecrementKernelLatency, Idle
    <3>3. scan' \in [cluster : -1 .. NumClusters, core : 0 .. CoresPerCluster - 1, from : Cluster]
      BY <3>1, <3>2 DEF Books, TypeOK
    <3>4. \A k \in Kernel : tb_latency[k] \in Nat
      BY DEF Books, TypeOK
    <3>5. tb_latency' = [k \in Kernel |->
            IF (\E s \in Slot : m_running_kernels[s] = k) /\ tb_latency[k] > 0
              THEN tb_latency[k] - 1 ELSE tb_latency[k]]
      BY <2>2 DEF DecrementKernelLatency
    <3>6. tb_latency' \in [Kernel -> Nat] /\ \A k \in Kernel : tb_latency[k] = 0 => tb_latency'[k] = 0
      BY <3>4, <3>5
    <3> QED BY <2>2, <3>3, <3>6 DEF DecrementKernelLatency
  <2> QED BY <2>1, <2>2
<1>2. UNCHANGED <<m_kernel, cta, occupied>>
  BY <1>1 DEF cores
<1>3. TypeOK'
  BY <1>1, <1>2 DEF Books, TypeOK
<1>4. SlotsOK'
  BY <1>1 DEF Books, SlotsOK, InSlot, IsFinished, Done, NoMoreCtas, HitMaxCtaCount
<1>5. SelectedOK'
  <2>1. \A k \in executed : tb_latency[k] = 0 /\ tb_latency'[k] = 0
    BY <1>1 DEF Books, SelectedOK, TypeOK
  <2>2. ASSUME NEW s \in Slot, Selectable(s)', m_running_kernels[s] \in executed
        PROVE  s = m_last_issued_kernel
    <3>1. Selectable(s)
      BY <1>1, <2>1, <2>2 DEF Selectable, NoMoreCtas
    <3> QED BY <2>2, <3>1 DEF Books, SelectedOK
  <2> QED BY <1>1, <2>1, <2>2 DEF Books, SelectedOK
<1>6. /\ ThreadsApart' /\ OccupiedOK' /\ FiniteOK' /\ PlacedOK'
      /\ \A q : CtasOf(q)' = CtasOf(q) /\ \A d : Resident(d)' = Resident(d)
  BY <1>1, <1>2, CtasKept DEF Books
<1>7. RunningOK'
  BY <1>1, <1>2, <1>6 DEF Books, RunningOK, InSlot
<1>8. BoundOK'
  <2>1. (HitMaxCtaCount' <=> HitMaxCtaCount) /\ \A q : CtaPerCore(q)' = CtaPerCore(q)
    BY <1>1 DEF HitMaxCtaCount, CtaPerCore
  <2> QED BY <1>1, <1>2, <1>6, <2>1 DEF Books, BoundOK
<1> QED BY <1>3, <1>4, <1>5, <1>6, <1>7, <1>8 DEF Books

\* A warp ends: the CTA keeps its kernel and its threads.
LEMMA WarpExitStep ==
  ASSUME Books, NEW c \in Core, NEW i \in CtaId, NEW w, WarpExit(c, i, w)
  PROVE  Books'
<1> DEFINE a == [cta[c][i] EXCEPT !.warps = @ \ {w}]
<1>1. /\ UNCHANGED <<load, kernels, m_kernel, occupied, walk>> /\ i \in Resident(c)
      /\ cta' = [cta EXCEPT ![c][i] = a]
  BY DEF WarpExit, Books, TypeOK
<1>2. a \in Cta /\ a.kernel = cta[c][i].kernel /\ a.start = cta[c][i].start
  <2>1. cta[c][i] \in Cta
    BY <1>1, CtaType DEF Books
  <2> QED BY <2>1 DEF Cta
<1>3. a # NULL /\ cta[c][i] # NULL
  BY <1>1, <1>2, DispatchAssumption DEF Resident
<1> HIDE DEF a
<1>4. /\ cta' \in [Core -> [CtaId -> Cta \cup {NULL}]]
      /\ \A d \in Core, j \in CtaId : cta'[d][j] = IF d = c /\ j = i THEN a ELSE cta[d][j]
  BY <1>1, <1>2 DEF Books, TypeOK
<1>5. \A d \in Core, j \in CtaId : /\ cta'[d][j] = NULL <=> cta[d][j] = NULL
                                   /\ cta'[d][j].kernel = cta[d][j].kernel
                                   /\ cta'[d][j].start = cta[d][j].start
  BY <1>2, <1>3, <1>4
<1>6. \A d \in Core : Resident(d)' = Resident(d)
  BY <1>5 DEF Resident
<1>7. \A q : CtasOf(q)' = CtasOf(q)
  <2> TAKE q
  <2>1. \A x \in Core \X CtaId : x[1] \in Core /\ x[2] \in CtaId
    OBVIOUS
  <2> QED BY <1>5, <2>1 DEF CtasOf
<1>8. load' = load /\ \A d \in Core, j \in CtaId : ThreadsOf(d, j)' = ThreadsOf(d, j)
  BY <1>1, <1>5 DEF ThreadsOf, Threads
<1>9. \A d \in Core : ShmemSum(d)' = ShmemSum(d)
  <2> TAKE d \in Core
  <2>1. \A j \in CtaId : ShmemOf(d, j)' = ShmemOf(d, j)
    BY <1>5, <1>8 DEF ShmemOf
  <2> QED BY <2>1 DEF ShmemSum
<1>10. \A d \in Core : Resident(d) \subseteq CtaId
  BY DEF Resident
<1>11. TypeOK'
  BY <1>1, <1>4 DEF Books, TypeOK, kernels, walk
<1>12. SlotsOK' /\ SelectedOK'
  BY <1>1 DEF Books, SlotsOK, SelectedOK, InSlot, IsFinished, Done, NoMoreCtas, HitMaxCtaCount,
              Selectable, kernels, walk
<1>13. ThreadsApart'
  BY <1>6, <1>8, <1>10 DEF Books, ThreadsApart
<1>14. OccupiedOK'
  <2>1. \A d \in Core : {ThreadsOf(d, j)' : j \in Resident(d)'} = {ThreadsOf(d, j) : j \in Resident(d)}
    BY <1>6, <1>8, <1>10
  <2> QED BY <1>1, <1>6, <1>9, <2>1 DEF Books, OccupiedOK
<1>15. FiniteOK'
  BY <1>7 DEF Books, FiniteOK
<1>16. RunningOK'
  <2>1. \A q : InSlot(q)' <=> InSlot(q)
    BY <1>1 DEF InSlot, kernels
  <2>2. ASSUME NEW d \in Core, NEW j \in Resident(d)
        PROVE  InSlot(cta[d][j].kernel)'
    <3>1. PICK q \in Kernel : q = cta[d][j].kernel
      BY CtaType DEF Books
    <3>2. InSlot(q)' /\ cta'[d][j].kernel = q
      BY <1>5, <1>10, <2>1, <3>1 DEF Books, RunningOK
    <3> QED BY <3>2 DEF InSlot
  <2> QED BY <1>1, <1>6, <1>7, <2>2 DEF Books, RunningOK, kernels
<1>17. BoundOK'
  <2>1. (HitMaxCtaCount' <=> HitMaxCtaCount) /\ \A q : CtaPerCore(q)' = CtaPerCore(q)
    BY <1>1 DEF HitMaxCtaCount, CtaPerCore, walk
  <2> QED BY <1>1, <1>5, <1>6, <1>10, <2>1 DEF Books, BoundOK
<1>18. PlacedOK'
  BY <1>5, <1>6, <1>8, <1>10 DEF Books, PlacedOK
<1> QED BY <1>11, <1>12, <1>13, <1>14, <1>15, <1>16, <1>17, <1>18 DEF Books

\* A part of a finite set is taken away.
LEMMA Without ==
  ASSUME NEW S, IsFiniteSet(S), NEW T, IsFiniteSet(T), T \subseteq S
  PROVE  IsFiniteSet(S \ T) /\ Cardinality(S \ T) = Cardinality(S) - Cardinality(T)
<1> DEFINE R == S \ T
<1>1. R \in SUBSET S
  OBVIOUS
<1>2. R \cup T = S /\ R \cap T = {}
  OBVIOUS
<1> HIDE DEF R
<1>3. IsFiniteSet(R)
  BY <1>1, FS_Subset
<1>4. Cardinality(R \cup T) = Cardinality(R) + Cardinality(T) - Cardinality(R \cap T)
  BY <1>3, FS_Union
<1>5. Cardinality({}) = 0 /\ Cardinality(R) \in Nat /\ Cardinality(T) \in Nat
  BY <1>3, FS_EmptySet, FS_CardinalityType
<1>6. Cardinality(S) = Cardinality(R) + Cardinality(T) - 0
  BY <1>2, <1>4, <1>5
<1>7. Cardinality(R) = Cardinality(S) - Cardinality(T)
  BY <1>5, <1>6
<1> QED BY <1>3, <1>7 DEF R

\* What the end of CTA i of core c, a CTA of kernel k, changes.
Ended(c, i, k) ==
  /\ c \in Core /\ i \in Resident(c) /\ cta[c][i].kernel = k /\ k \in Kernel
  /\ cta' = [cta EXCEPT ![c][i] = NULL]
  /\ m_kernel' = IF Resident(c) = {i} \/ (KernelEnds(k) /\ m_kernel[c] = k)
                   THEN [m_kernel EXCEPT ![c] = NULL] ELSE m_kernel
  /\ occupied' = IF load.concurrent
                   THEN [occupied EXCEPT ![c] = Released(@, cta[c][i])] ELSE occupied
  /\ cores_running' = [cores_running EXCEPT ![k] = @ - 1]
  /\ finished' = IF KernelEnds(k) THEN Append(finished, k) ELSE finished
  /\ m_running_kernels' = [s \in Slot |-> IF KernelEnds(k) /\ m_running_kernels[s] = k
                                            THEN NULL ELSE m_running_kernels[s]]
  /\ UNCHANGED <<load, m_last_issued_kernel, executed, next_cta, tb_latency, launched, walk>>

\* The cores after the end of a CTA; the last CTA of its kernel is the only one.
LEMMA EndedCores ==
  ASSUME Books, NEW c, NEW i, NEW k, Ended(c, i, k)
  PROVE  /\ \A d \in Core : Resident(d)' = IF d = c THEN Resident(c) \ {i} ELSE Resident(d)
         /\ \A d \in Core, j \in CtaId : cta'[d][j] = IF d = c /\ j = i THEN NULL ELSE cta[d][j]
         /\ cta' \in [Core -> [CtaId -> Cta \cup {NULL}]]
         /\ \A q \in Kernel : IsFiniteSet(CtasOf(q)') /\ cores_running'[q] = Cardinality(CtasOf(q)')
         /\ cores_running' \in [Kernel -> Nat] /\ cores_running[k] >= 1
         /\ \A q \in Kernel : q # k => cores_running'[q] = cores_running[q]
         /\ KernelEnds(k) => \A d \in Core : \A j \in Resident(d) :
                               cta[d][j].kernel = k => d = c /\ j = i
<1>1. /\ c \in Core /\ i \in Resident(c) /\ i \in CtaId /\ cta[c][i] # NULL
      /\ cta[c][i].kernel = k /\ k \in Kernel
      /\ cores_running' = [cores_running EXCEPT ![k] = @ - 1]
  BY DEF Ended, Resident
<1>2. /\ \A d \in Core, j \in CtaId : cta'[d][j] = IF d = c /\ j = i THEN NULL ELSE cta[d][j]
      /\ cta' \in [Core -> [CtaId -> Cta \cup {NULL}]]
  BY <1>1 DEF Ended, Books, TypeOK
<1>3. \A d \in Core : Resident(d)' = IF d = c THEN Resident(c) \ {i} ELSE Resident(d)
  BY <1>2 DEF Resident
<1>4. ASSUME NEW q \in Kernel
      PROVE  CtasOf(q)' = IF q = k THEN CtasOf(q) \ {<<c, i>>} ELSE CtasOf(q)
  <2>1. ASSUME NEW d \in Core, NEW j \in CtaId
        PROVE  <<d, j>> \in CtasOf(q)' <=> <<d, j>> \in CtasOf(q) /\ ~(d = c /\ j = i /\ q = k)
    BY <1>1, <1>2 DEF CtasOf
  <2>2. \A x \in Core \X CtaId : x = <<x[1], x[2]>> /\ x[1] \in Core /\ x[2] \in CtaId
    OBVIOUS
  <2>3. CtasOf(q)' \subseteq Core \X CtaId /\ CtasOf(q) \subseteq Core \X CtaId
    BY DEF CtasOf
  <2>4. \A x \in Core \X CtaId : x \in CtasOf(q)' <=> x \in CtasOf(q) /\ ~(x = <<c, i>> /\ q = k)
    BY <2>1, <2>2
  <2> QED BY <1>1, <2>3, <2>4
<1>5. <<c, i>> \in CtasOf(k)
  BY <1>1 DEF CtasOf
<1>6. ASSUME NEW q \in Kernel
      PROVE  /\ IsFiniteSet(CtasOf(q)') /\ cores_running'[q] = Cardinality(CtasOf(q)')
             /\ cores_running'[q] \in Nat
  <2>1. IsFiniteSet(CtasOf(q)) /\ cores_running[q] = Cardinality(CtasOf(q))
    BY DEF Books, RunningOK, FiniteOK
  <2>2. CASE q = k
    <3>1. /\ IsFiniteSet(CtasOf(q) \ {<<c, i>>})
          /\ Cardinality(CtasOf(q) \ {<<c, i>>}) = Cardinality(CtasOf(q)) - 1
      BY <1>5, <2>1, <2>2, FS_RemoveElement
    <3>2. Cardinality(CtasOf(q) \ {<<c, i>>}) \in Nat
      BY <3>1, FS_CardinalityType
    <3> QED BY <1>1, <1>4, <2>1, <2>2, <3>1, <3>2 DEF Books, TypeOK
  <2>3. CASE q # k
    BY <1>1, <1>4, <2>1, <2>3 DEF Books, TypeOK
  <2> QED BY <2>2, <2>3
<1>7. cores_running' \in [Kernel -> Nat] /\ \A q \in Kernel : q # k => cores_running'[q] = cores_running[q]
  BY <1>1, <1>6 DEF Books, TypeOK
<1>8. cores_running[k] >= 1
  BY <1>1, <1>6 DEF Books, TypeOK
<1>9. ASSUME KernelEnds(k), NEW d \in Core, NEW j \in Resident(d), cta[d][j].kernel = k
      PROVE  d = c /\ j = i
  <2>1. <<d, j>> \in CtasOf(k)
    BY <1>9 DEF CtasOf, Resident
  <2>2. IsFiniteSet(CtasOf(k)) /\ Cardinality(CtasOf(k)) = 1
    BY <1>1, <1>9 DEF KernelEnds, Books, RunningOK, FiniteOK
  <2>3. PICK x : CtasOf(k) = {x}
    BY <2>2, FS_Singleton
  <2>4. <<d, j>> = <<c, i>>
    BY <1>5, <2>1, <2>3
  <2> QED BY <2>4
<1> QED BY <1>2, <1>3, <1>6, <1>7, <1>8, <1>9

\* The core has what the CTA that ends gives back, and gives back no more.
LEMMA EndedOccupied ==
  ASSUME Books, NEW c, NEW i, NEW k, Ended(c, i, k)
  PROVE  ThreadsApart' /\ OccupiedOK' /\ occupied' \in [Core -> Occupied]
<1>1. /\ c \in Core /\ i \in Resident(c) /\ i \in CtaId /\ cta[c][i] # NULL
      /\ cta[c][i].kernel = k /\ k \in Kernel /\ load' = load
      /\ cta[c][i].start \in Nat
  BY CtaType DEF Ended, Resident, Books
<1>2. /\ \A d \in Core : Resident(d)' = IF d = c THEN Resident(c) \ {i} ELSE Resident(d)
      /\ \A d \in Core, j \in CtaId : cta'[d][j] = IF d = c /\ j = i THEN NULL ELSE cta[d][j]
  BY EndedCores
<1>3. \A d \in Core, j \in CtaId : ~(d = c /\ j = i) => ThreadsOf(d, j)' = ThreadsOf(d, j)
  BY <1>1, <1>2 DEF ThreadsOf, Threads
<1>4. \A d \in Core : Resident(d) \subseteq CtaId /\ Resident(d)' \subseteq CtaId
  BY DEF Resident
<1>5. ThreadsApart'
  <2>1. ASSUME NEW d \in Core, NEW x \in Resident(d)', NEW y \in Resident(d)', x # y
        PROVE  ThreadsOf(d, x)' \cap ThreadsOf(d, y)' = {}
    <3>1. /\ x \in Resident(d) /\ y \in Resident(d) /\ x \in CtaId /\ y \in CtaId
          /\ ~(d = c /\ x = i) /\ ~(d = c /\ y = i)
      BY <1>2, <1>4, <2>1
    <3>2. ThreadsOf(d, x)' = ThreadsOf(d, x) /\ ThreadsOf(d, y)' = ThreadsOf(d, y)
      BY <1>3, <3>1
    <3> QED BY <2>1, <3>1, <3>2 DEF Books, ThreadsApart
  <2> QED BY <2>1 DEF ThreadsApart
<1>6. CASE ~load.concurrent
  BY <1>1, <1>5, <1>6 DEF OccupiedOK, Ended, Books, TypeOK
<1>7. CASE load.concurrent
  <2> DEFINE T == ThreadsOf(c, i)
             o == Released(occupied[c], cta[c][i])
  <2>1. /\ o.threads = occupied[c].threads - load.size[k]
        /\ o.shmem = occupied[c].shmem - load.smem[k]
        /\ o.ctas = occupied[c].ctas - 1 /\ o.hwtid = occupied[c].hwtid \ T
        /\ o = [threads |-> o.threads, shmem |-> o.shmem, ctas |-> o.ctas, hwtid |-> o.hwtid]
    BY <1>1 DEF Released, ThreadsOf
  <2>2. T \subseteq Nat /\ IsFiniteSet(T) /\ Cardinality(T) = load.size[k] /\ load.size[k] \in Nat
        /\ load.smem[k] \in Nat
    BY <1>1, ThreadsCount, LoadType DEF ThreadsOf, Books
  <2>3. /\ occupied[c].hwtid = UNION {ThreadsOf(c, j) : j \in Resident(c)}
        /\ IsFiniteSet(occupied[c].hwtid)
        /\ occupied[c].threads = Cardinality(occupied[c].hwtid)
        /\ occupied[c].ctas = Cardinality(Resident(c))
        /\ occupied[c].shmem = ShmemSum(c) /\ ShmemSum(c) <= ShmemSize
    BY <1>1, <1>7 DEF Books, OccupiedOK
  <2>4. occupied[c] \in Occupied
    BY <1>1 DEF Books, TypeOK
  <2>5. o \in Occupied
    BY <2>1, <2>2, <2>4 DEF Occupied
  <2> HIDE DEF o
  <2>6. /\ \A d \in Core : occupied'[d] = IF d = c THEN o ELSE occupied[d]
        /\ occupied' \in [Core -> Occupied]
    <3>1. occupied' = [occupied EXCEPT ![c] = o]
      BY <1>1, <1>7 DEF Ended, Books, TypeOK, o
    <3> QED BY <1>1, <2>5, <3>1 DEF Books, TypeOK
  <2>7. o.hwtid = UNION {ThreadsOf(c, j)' : j \in Resident(c)'}
    <3>1. Resident(c)' = Resident(c) \ {i}
      BY <1>1, <1>2
    <3>2. \A j \in Resident(c)' : ThreadsOf(c, j)' = ThreadsOf(c, j)
      BY <1>1, <1>3, <1>4, <3>1
    <3>3. \A j \in Resident(c)' : ThreadsOf(c, j) \cap T = {}
      BY <1>1, <3>1 DEF Books, ThreadsApart
    <3> HIDE DEF T
    <3>4. UNION {ThreadsOf(c, j)' : j \in Resident(c)'} = UNION {ThreadsOf(c, j) : j \in Resident(c)'}
      BY <3>2
    <3>5. occupied[c].hwtid = T \cup UNION {ThreadsOf(c, j) : j \in Resident(c)'}
      BY <1>1, <2>3, <3>1 DEF T
    <3> QED BY <2>1, <3>3, <3>4, <3>5
  <2>8. IsFiniteSet(o.hwtid) /\ o.threads = Cardinality(o.hwtid)
    <3>1. T \subseteq occupied[c].hwtid
      BY <1>1, <2>3
    <3> HIDE DEF T
    <3>2. PICK S : S = occupied[c].hwtid
      OBVIOUS
    <3>3. IsFiniteSet(S \ T) /\ Cardinality(S \ T) = Cardinality(S) - Cardinality(T)
      BY <2>2, <2>3, <3>1, <3>2, Without
    <3>4. o.hwtid = S \ T
      BY <2>1, <3>2
    <3>5. o.threads = Cardinality(S) - Cardinality(T)
      BY <2>1, <2>2, <2>3, <3>2
    <3> QED BY <3>3, <3>4, <3>5
  <2>9. o.ctas = Cardinality(Resident(c)')
    <3>1. Cardinality(Resident(c) \ {i}) = Cardinality(Resident(c)) - 1
      BY <1>1, ResidentFinite, FS_RemoveElement
    <3> QED BY <1>1, <1>2, <2>1, <2>3, <3>1
  <2>10. o.shmem = ShmemSum(c)' /\ ShmemSum(c)' <= ShmemSize
    <3>1. ShmemSum(c)' = ShmemSum(c) + ShmemOf(c, i)' - ShmemOf(c, i) /\ ShmemOf(c, i)' = 0
      <4>1. cta' = [cta EXCEPT ![c][i] = NULL] /\ NULL \in Cta \cup {NULL}
        BY DEF Ended
      <4> QED BY <1>1, <4>1, ShmemChange DEF Books
    <3>2. ShmemOf(c, i) = load.smem[k]
      BY <1>1 DEF ShmemOf
    <3>3. ShmemSum(c) \in Nat /\ ShmemSize \in Nat
      BY <1>1, ShmemType, DispatchAssumption DEF Books
    <3> QED BY <2>1, <2>2, <2>3, <3>1, <3>2, <3>3
  <2>11. ASSUME NEW d \in Core, d # c
         PROVE  /\ occupied'[d].hwtid = UNION {ThreadsOf(d, j)' : j \in Resident(d)'}
                /\ IsFiniteSet(occupied'[d].hwtid)
                /\ occupied'[d].threads = Cardinality(occupied'[d].hwtid)
                /\ occupied'[d].ctas = Cardinality(Resident(d)')
                /\ occupied'[d].shmem = ShmemSum(d)' /\ ShmemSum(d)' <= ShmemSize
    <3>1. Resident(d)' = Resident(d) /\ ShmemSum(d)' = ShmemSum(d)
          /\ \A j \in CtaId : ThreadsOf(d, j)' = ThreadsOf(d, j)
      <4>1. cta' = [cta EXCEPT ![c] = [cta[c] EXCEPT ![i] = NULL]]
        BY <1>1 DEF Ended, Books, TypeOK
      <4> QED BY <1>1, <2>11, <4>1, OtherCore DEF Books
    <3>2. {ThreadsOf(d, j)' : j \in Resident(d)'} = {ThreadsOf(d, j) : j \in Resident(d)}
      BY <1>4, <3>1
    <3>3. occupied'[d] = occupied[d]
      BY <2>6, <2>11
    <3> QED BY <1>7, <3>1, <3>2, <3>3 DEF Books, OccupiedOK
  <2>12. ASSUME NEW d \in Core
         PROVE  /\ occupied'[d].hwtid = UNION {ThreadsOf(d, j)' : j \in Resident(d)'}
                /\ IsFiniteSet(occupied'[d].hwtid)
                /\ occupied'[d].threads = Cardinality(occupied'[d].hwtid)
                /\ occupied'[d].ctas = Cardinality(Resident(d)')
                /\ occupied'[d].shmem = ShmemSum(d)' /\ ShmemSum(d)' <= ShmemSize
    <3>1. CASE d = c
      BY <2>6, <2>7, <2>8, <2>9, <2>10, <3>1
    <3>2. CASE d # c
      BY <2>11, <3>2
    <3> QED BY <3>1, <3>2
  <2> QED BY <1>5, <2>6, <2>12 DEF OccupiedOK
<1> QED BY <1>6, <1>7

\* A CTA ends, and with its last CTA the kernel: it is reported, and its slot is free.
LEMMA CtaExitStep ==
  ASSUME Books, NEW c \in Core, NEW i \in CtaId, NEW w, CtaExit(c, i, w)
  PROVE  Books'
<1>1. PICK k \in Kernel : k = cta[c][i].kernel
  <2>1. i \in Resident(c)
    BY DEF CtaExit
  <2> QED BY <2>1, CtaType DEF Books
<1>2. Ended(c, i, k)
  BY <1>1 DEF CtaExit, Ended
<1>3. /\ \A d \in Core : Resident(d)' = IF d = c THEN Resident(c) \ {i} ELSE Resident(d)
      /\ \A d \in Core, j \in CtaId : cta'[d][j] = IF d = c /\ j = i THEN NULL ELSE cta[d][j]
      /\ cta' \in [Core -> [CtaId -> Cta \cup {NULL}]]
      /\ \A q \in Kernel : IsFiniteSet(CtasOf(q)') /\ cores_running'[q] = Cardinality(CtasOf(q)')
      /\ cores_running' \in [Kernel -> Nat] /\ cores_running[k] >= 1
      /\ \A q \in Kernel : q # k => cores_running'[q] = cores_running[q]
      /\ KernelEnds(k) => \A d \in Core : \A j \in Resident(d) :
                            cta[d][j].kernel = k => d = c /\ j = i
  BY <1>2, EndedCores
<1>4. /\ UNCHANGED <<load, m_last_issued_kernel, executed, next_cta, tb_latency, launched, issued,
                     last_cluster, next_core, scan>>
      /\ i \in Resident(c) /\ k # NULL
      /\ cores_running' = [cores_running EXCEPT ![k] = @ - 1]
  BY <1>2, DispatchAssumption DEF Ended, walk
<1>5. /\ \A s \in Slot : m_running_kernels'[s] = IF KernelEnds(k) /\ m_running_kernels[s] = k
                                                 THEN NULL ELSE m_running_kernels[s]
      /\ m_running_kernels' \in [Slot -> Kernel \cup {NULL}]
  BY <1>2 DEF Ended, Books, TypeOK
<1>6. \A q \in Kernel : InSlot(q)' <=> InSlot(q) /\ ~(KernelEnds(k) /\ q = k)
  BY <1>5, DispatchAssumption DEF InSlot
<1>7. InSlot(k) /\ k \in launched /\ ~IsFinished(k)
  <2>1. InSlot(k)
    BY <1>1, <1>4 DEF Books, RunningOK
  <2> QED BY <1>4, <2>1 DEF Books, SlotsOK, InSlot, IsFinished
<1>8. ThreadsApart' /\ OccupiedOK' /\ occupied' \in [Core -> Occupied]
  BY <1>2, EndedOccupied
<1>9. /\ (HitMaxCtaCount' <=> HitMaxCtaCount)
      /\ \A q : (CtaPerCore(q)' = CtaPerCore(q)) /\ (NoMoreCtas(q)' <=> NoMoreCtas(q))
  BY <1>4 DEF HitMaxCtaCount, CtaPerCore, NoMoreCtas
<1>10. \A d \in Core : Resident(d) \subseteq CtaId
  BY DEF Resident
<1>11. /\ finished' = IF KernelEnds(k) THEN Append(finished, k) ELSE finished
       /\ finished \in Seq(Kernel) /\ finished' \in Seq(Kernel)
  BY <1>2 DEF Ended, Books, TypeOK
<1>12. m_kernel' \in [Core -> Kernel \cup {NULL}]
  BY <1>2 DEF Ended, Books, TypeOK
<1>13. TypeOK'
  BY <1>3, <1>4, <1>5, <1>8, <1>11, <1>12 DEF Books, TypeOK
<1>14. RunningOK' /\ FiniteOK'
  <2>1. ASSUME NEW d \in Core, NEW j \in Resident(d)'
        PROVE  InSlot(cta[d][j].kernel)'
    <3>1. j \in Resident(d) /\ ~(d = c /\ j = i) /\ cta'[d][j] = cta[d][j]
      BY <1>3, <1>10, <2>1
    <3>2. PICK q \in Kernel : q = cta[d][j].kernel
      BY <3>1, CtaType DEF Books
    <3>3. InSlot(q) /\ ~(KernelEnds(k) /\ q = k)
      BY <1>3, <3>1, <3>2 DEF Books, RunningOK
    <3>4. InSlot(q)' /\ cta'[d][j].kernel = q
      BY <1>6, <3>1, <3>2, <3>3
    <3> QED BY <3>4 DEF InSlot
  <2> QED BY <1>3, <2>1 DEF RunningOK, FiniteOK
<1>15. SelectedOK'
  <2>1. ASSUME NEW s \in Slot, Selectable(s)', m_running_kernels'[s] \in executed
        PROVE  s = m_last_issued_kernel
    <3>1. m_running_kernels'[s] = m_running_kernels[s]
      BY <1>5, <2>1 DEF Selectable
    <3>2. Selectable(s)
      BY <1>4, <2>1, <3>1 DEF Selectable, NoMoreCtas
    <3> QED BY <2>1, <3>1, <3>2 DEF Books, SelectedOK
  <2> QED BY <1>4, <2>1 DEF Books, SelectedOK
<1>16. BoundOK'
  <2>1. CASE load.concurrent
    BY <1>2, <2>1 DEF Ended, Books, BoundOK, TypeOK
  <2>2. CASE ~load.concurrent
    <3>1. \A d \in Core : d # c => m_kernel'[d] = m_kernel[d]
      BY <1>2 DEF Ended, Books, TypeOK
    <3>2. m_kernel'[c] = IF Resident(c) = {i} \/ (KernelEnds(k) /\ m_kernel[c] = k)
                           THEN NULL ELSE m_kernel[c]
      BY <1>2 DEF Ended, Books, TypeOK
    <3>3. ASSUME NEW d \in Core, m_kernel'[d] # NULL, Resident(d)' = {}
          PROVE  HitMaxCtaCount'
      <4>1. d # c
        BY <1>3, <1>4, <3>2, <3>3
      <4> QED BY <1>3, <1>9, <2>2, <3>1, <3>3, <4>1 DEF Books, BoundOK
    <3>4. ASSUME NEW d \in Core, NEW j \in Resident(d)', NEW q \in Kernel, cta'[d][j].kernel = q
          PROVE  m_kernel'[d] = q /\ j < CtaPerCore(q)' /\ cta'[d][j].start = j * load.size[q]
      <4>1. j \in Resident(d) /\ ~(d = c /\ j = i) /\ cta'[d][j] = cta[d][j]
        BY <1>3, <1>10, <3>4
      <4>2. m_kernel[d] = q /\ j < CtaPerCore(q) /\ cta[d][j].start = j * load.size[q]
        BY <2>2, <3>4, <4>1 DEF Books, BoundOK
      <4>3. m_kernel'[d] = m_kernel[d]
        <5>1. CASE d # c
          BY <3>1, <5>1
        <5>2. CASE d = c
          <6>1. Resident(c) # {i}
            BY <4>1, <5>2
          <6>2. m_kernel[c] = k
            BY <1>1, <1>4, <2>2 DEF Books, BoundOK
          <6>3. ~KernelEnds(k)
            BY <1>3, <3>4, <4>1, <4>2, <5>2, <6>2
          <6> QED BY <3>2, <5>2, <6>1, <6>3
        <5> QED BY <5>1, <5>2
      <4> QED BY <1>9, <4>1, <4>2, <4>3
    <3> QED BY <1>4, <2>2, <3>3, <3>4 DEF BoundOK
  <2> QED BY <2>1, <2>2
<1>17. PlacedOK'
  <2>1. ASSUME NEW d \in Core, NEW j \in Resident(d)'
        PROVE  j \in Resident(d) /\ cta'[d][j] = cta[d][j]
    BY <1>3, <1>10, <2>1
  <2> QED BY <1>4, <2>1 DEF Books, PlacedOK
<1>18. SlotsOK'
  <2>1. \A s, t \in Slot : m_running_kernels'[s] # NULL /\ m_running_kernels'[s] = m_running_kernels'[t]
                             => s = t
    BY <1>5 DEF Books, SlotsOK
  <2>2. ASSUME NEW s \in Slot, m_running_kernels'[s] # NULL
        PROVE  m_running_kernels'[s] \in launched /\ ~Done(m_running_kernels[s])'
    <3>1. PICK q \in Kernel : q = m_running_kernels'[s]
      BY <1>5, <2>2
    <3>2. m_running_kernels[s] = q /\ ~(KernelEnds(k) /\ q = k)
      BY <1>5, <2>2, <3>1
    <3>3. q \in launched /\ ~Done(q)
      BY <1>5, <2>2, <3>1, <3>2 DEF Books, SlotsOK
    <3>4. ~Done(q)'
      <4>1. CASE q # k
        BY <1>3, <1>9, <3>3, <4>1 DEF Done
      <4>2. CASE q = k
        <5>1. CASE NoMoreCtas(k)
          <6>1. cores_running[k] # 1 /\ cores_running[k] \in Nat
            BY <3>2, <4>2, <5>1 DEF KernelEnds, MoreCtaLeft, Books, TypeOK
          <6>2. cores_running'[k] # 0
            BY <1>3, <1>4, <6>1 DEF Books, TypeOK
          <6> QED BY <4>2, <6>2 DEF Done
        <5>2. CASE ~NoMoreCtas(k)
          BY <1>9, <4>2, <5>2 DEF Done
        <5> QED BY <5>1, <5>2
      <4> QED BY <4>1, <4>2
    <3> QED BY <3>1, <3>3, <3>4 DEF Done, NoMoreCtas
  <2>3. /\ \A n \in DOMAIN finished : finished'[n] = finished[n] /\ n \in DOMAIN finished'
        /\ \A n \in DOMAIN finished' : n \notin DOMAIN finished =>
             KernelEnds(k) /\ finished'[n] = k /\ n = Len(finished) + 1
        /\ KernelEnds(k) => \E n \in DOMAIN finished' : finished'[n] = k
    <3>1. CASE KernelEnds(k)
      <4>1. /\ Len(finished') = Len(finished) + 1 /\ Len(finished) \in Nat
            /\ DOMAIN finished = 1 .. Len(finished) /\ DOMAIN finished' = 1 .. Len(finished) + 1
            /\ \A n \in 1 .. Len(finished) : finished'[n] = finished[n]
            /\ finished'[Len(finished) + 1] = k
        BY <1>11, <3>1
      <4>2. Len(finished) + 1 \in 1 .. Len(finished) + 1
        BY <4>1
      <4> QED BY <3>1, <4>1, <4>2
    <3>2. CASE ~KernelEnds(k)
      BY <1>11, <3>2
    <3> QED BY <3>1, <3>2
  <2>4. \A q \in launched : InSlot(q)' \/ IsFinished(q)'
    <3>1. ASSUME NEW q \in launched
          PROVE  InSlot(q)' \/ IsFinished(q)'
      <4>1. q \in Kernel /\ (InSlot(q) \/ IsFinished(q))
        BY DEF Books, SlotsOK, TypeOK
      <4>2. IsFinished(q) => IsFinished(q)'
        BY <2>3 DEF IsFinished
      <4>3. KernelEnds(k) /\ q = k => IsFinished(q)'
        BY <2>3 DEF IsFinished
      <4> QED BY <1>6, <4>1, <4>2, <4>3
    <3> QED BY <3>1
  <2>5. \A q \in Kernel : next_cta'[q] # 0 => q \in launched
    BY <1>4 DEF Books, SlotsOK
  <2>6. ASSUME NEW n \in DOMAIN finished'
        PROVE  /\ finished'[n] \in launched /\ ~InSlot(finished[n])'
               /\ NoMoreCtas(finished[n])' \/ HitMaxCtaCount'
               /\ \A m \in DOMAIN finished' : finished'[m] = finished'[n] => m = n
    <3>1. PICK q \in Kernel : q = finished'[n]
      BY <1>11
    <3>2. q \in launched /\ ~InSlot(q)' /\ (NoMoreCtas(q) \/ HitMaxCtaCount)
      <4>1. CASE n \in DOMAIN finished
        <5>1. finished[n] = q
          BY <2>3, <3>1, <4>1
        <5>2. q \in launched /\ ~InSlot(q) /\ (NoMoreCtas(q) \/ HitMaxCtaCount)
          BY <4>1, <5>1 DEF Books, SlotsOK
        <5> QED BY <1>6, <5>2
      <4>2. CASE n \notin DOMAIN finished
        <5>1. KernelEnds(k) /\ q = k
          BY <2>3, <3>1, <4>2
        <5>2. NoMoreCtas(k) \/ HitMaxCtaCount
          BY <1>4, <5>1 DEF KernelEnds, MoreCtaLeft
        <5> QED BY <1>6, <1>7, <5>1, <5>2
      <4> QED BY <4>1, <4>2
    <3>3. ASSUME NEW m \in DOMAIN finished', finished'[m] = q
          PROVE  m = n
      <4>1. ASSUME NEW x \in DOMAIN finished, finished[x] = k
            PROVE  FALSE
        BY <1>7, <4>1 DEF IsFinished
      <4>2. CASE m \in DOMAIN finished /\ n \in DOMAIN finished
        <5>1. finished[m] = finished[n]
          BY <2>3, <3>1, <3>3, <4>2
        <5> QED BY <4>2, <5>1 DEF Books, SlotsOK
      <4>3. CASE m \notin DOMAIN finished /\ n \notin DOMAIN finished
        BY <2>3, <3>3, <4>3
      <4>4. CASE m \in DOMAIN finished /\ n \notin DOMAIN finished
        BY <2>3, <3>1, <3>3, <4>1, <4>4
      <4>5. CASE m \notin DOMAIN finished /\ n \in DOMAIN finished
        BY <2>3, <3>1, <3>3, <4>1, <4>5
      <4> QED BY <4>2, <4>3, <4>4, <4>5
    <3>4. ~InSlot(finished[n])' /\ (NoMoreCtas(finished[n])' \/ HitMaxCtaCount')
      <4>1. NoMoreCtas(q)' \/ HitMaxCtaCount'
        BY <1>9, <3>2
      <4> QED BY <3>1, <3>2, <4>1 DEF InSlot, NoMoreCtas
    <3> QED BY <3>1, <3>2, <3>3, <3>4
  <2> QED BY <1>4, <2>1, <2>2, <2>4, <2>5, <2>6 DEF SlotsOK
<1> QED BY <1>8, <1>13, <1>14, <1>15, <1>16, <1>17, <1>18 DEF Books

-------------------------------------------------------------------------------

\* At first no kernel is launched and no CTA is on a core.
LEMMA BooksInit == ASSUME Init PROVE Books
<1>1. load \in Workloads /\ load \in Workload
  BY DispatchAssumption DEF Init
<1>2. \A c \in Core : Resident(c) = {}
  BY DEF Init, Resident
<1>3. \A k : CtasOf(k) = {}
  <2> TAKE k
  <2>1. \A x \in Core \X CtaId : x[1] \in Core /\ x[2] \in CtaId
    OBVIOUS
  <2> QED BY <2>1 DEF Init, CtasOf
<1>4. TypeOK
  <2>1. tb_latency \in [Kernel -> Nat]
    BY <1>1 DEF Init, Workload
  <2>2. /\ NumClusters - 1 \in Cluster /\ CoresPerCluster - 1 \in 0 .. CoresPerCluster - 1
        /\ 0 \in 0 .. CoresPerCluster - 1 /\ 0 \in Cluster /\ 0 \in Slot /\ -1 \in -1 .. NumClusters
    BY DispatchAssumption DEF Cluster, Slot
  <2> QED BY <1>1, <2>1, <2>2 DEF Init, TypeOK, Occupied, Idle
<1>5. SlotsOK /\ SelectedOK
  BY DispatchAssumption DEF Init, SlotsOK, SelectedOK, InSlot, IsFinished, Selectable
<1>6. BoundOK /\ PlacedOK /\ ThreadsApart
  BY <1>2 DEF Init, BoundOK, PlacedOK, ThreadsApart
<1>7. OccupiedOK
  <2>1. ASSUME NEW c \in Core
        PROVE  /\ occupied[c].hwtid = UNION {ThreadsOf(c, i) : i \in Resident(c)}
               /\ IsFiniteSet(occupied[c].hwtid)
               /\ occupied[c].threads = Cardinality(occupied[c].hwtid)
               /\ occupied[c].ctas = Cardinality(Resident(c))
               /\ occupied[c].shmem = ShmemSum(c) /\ ShmemSum(c) <= ShmemSize
    <3>1. occupied[c] = [threads |-> 0, shmem |-> 0, ctas |-> 0, hwtid |-> {}]
      BY DEF Init
    <3>2. ShmemSum(c) = 0
      <4> DEFINE f == [i \in CtaId |-> ShmemOf(c, i)]
      <4>1. \A i \in CtaId : ShmemOf(c, i) = 0
        BY DEF Init, ShmemOf
      <4>2. f \in [0 .. MaxCta - 1 -> Int] /\ MaxCta \in Nat /\ \A i \in 0 .. MaxCta - 1 : f[i] = 0
        BY <4>1, DispatchAssumption DEF CtaId
      <4> HIDE DEF f
      <4>3. SumOf(f, MaxCta) = 0
        BY <4>2, SumOfZero
      <4> QED BY <4>3 DEF ShmemSum, f
    <3>3. UNION {ThreadsOf(c, i) : i \in Resident(c)} = {}
      BY <1>2
    <3> QED BY <1>2, <3>1, <3>2, <3>3, FS_EmptySet, DispatchAssumption
  <2> QED BY <2>1 DEF OccupiedOK
<1>8. RunningOK /\ FiniteOK
  BY <1>2, <1>3, FS_EmptySet DEF Init, RunningOK, FiniteOK
<1> QED BY <1>4, <1>5, <1>6, <1>7, <1>8 DEF Books

\* Every step keeps the books.
LEMMA BooksInductive == Books /\ [Next]_vars => Books'
<1> SUFFICES ASSUME Books, [Next]_vars PROVE Books'
  OBVIOUS
<1>1. ASSUME NEW k \in Kernel, Launch(k)
      PROVE  Books'
  BY <1>1, LaunchStep
<1>2. CASE BeginIssue \/ DecrementKernelLatency
  BY <1>2, QuietStep
<1>3. CASE IssueCta
  BY <1>3, IssueStep
<1>4. CASE SkipCore
  BY <1>4, SkipStep
<1>5. ASSUME NEW c \in Core, RetireWarp(c)
      PROVE  Books'
  <2>1. PICK i \in CtaId, w \in 0 .. NumThreads - 1 : WarpExit(c, i, w) \/ CtaExit(c, i, w)
    BY <1>5 DEF RetireWarp
  <2> QED BY <2>1, WarpExitStep, CtaExitStep
<1>6. CASE UNCHANGED vars
  <2>1. UNCHANGED <<load, kernels, m_kernel, cta, occupied, walk>>
    BY <1>6 DEF vars, cores
  <2>2. UNCHANGED <<m_running_kernels, m_last_issued_kernel, executed, next_cta, cores_running,
                    tb_latency, launched, finished, issued, last_cluster, next_core, scan>>
    BY <2>1 DEF kernels, walk
  <2>3. TypeOK' /\ SlotsOK' /\ SelectedOK'
    BY <2>1, <2>2 DEF Books, TypeOK, SlotsOK, SelectedOK, InSlot, IsFinished, Done, NoMoreCtas,
                      HitMaxCtaCount, Selectable
  <2>4. /\ ThreadsApart' /\ OccupiedOK' /\ FiniteOK' /\ PlacedOK'
        /\ \A q : CtasOf(q)' = CtasOf(q) /\ \A d : Resident(d)' = Resident(d)
    BY <2>1, CtasKept DEF Books
  <2>5. RunningOK'
    BY <2>1, <2>2, <2>4 DEF Books, RunningOK, InSlot
  <2>6. BoundOK'
    <3>1. (HitMaxCtaCount' <=> HitMaxCtaCount) /\ \A q : CtaPerCore(q)' = CtaPerCore(q)
      BY <2>1, <2>2 DEF HitMaxCtaCount, CtaPerCore
    <3> QED BY <2>1, <2>4, <3>1 DEF Books, BoundOK
  <2> QED BY <2>3, <2>4, <2>5, <2>6 DEF Books
<1> QED BY <1>1, <1>2, <1>3, <1>4, <1>5, <1>6 DEF Next

(***************************************************************************)
(* The books of the dispatch: types, slots, bindings of cores, hardware    *)
(* threads and resources, and the CTAs that a kernel counts agree after    *)
(* every issue_block2core, register_cta_thread_exit and launch.            *)
(***************************************************************************)
THEOREM DispatchBooks == Spec => []Books
BY BooksInit, BooksInductive, PTL DEF Spec

\* The books say what FinishedIsOver promises.
LEMMA BooksFinished == Books => FinishedIsOver
<1> SUFFICES ASSUME Books PROVE FinishedIsOver
  OBVIOUS
<1>1. ASSUME NEW n \in DOMAIN finished
      PROVE  /\ NoMoreCtas(finished[n]) \/ HitMaxCtaCount
             /\ \A c \in Core : \A i \in Resident(c) : cta[c][i].kernel # finished[n]
             /\ \A m \in DOMAIN finished : finished[m] = finished[n] => m = n
             /\ \A c \in Core : m_kernel[c] = finished[n] => HitMaxCtaCount
  <2>1. PICK k \in Kernel : k = finished[n]
    BY DEF Books, TypeOK
  <2>2. /\ NoMoreCtas(k) \/ HitMaxCtaCount
        /\ ~InSlot(k)
        /\ \A m \in DOMAIN finished : finished[m] = k => m = n
    BY <2>1 DEF Books, SlotsOK
  <2>3. \A c \in Core : \A i \in Resident(c) : cta[c][i].kernel # k
    BY <2>2 DEF Books, RunningOK
  <2>4. ASSUME NEW c \in Core, m_kernel[c] = k
        PROVE  HitMaxCtaCount
    <3>1. k # NULL
      BY DispatchAssumption
    <3>2. ~load.concurrent
      BY <2>4, <3>1 DEF Books, BoundOK
    <3>3. ASSUME NEW i \in Resident(c)
          PROVE  FALSE
      <4>1. cta[c][i].kernel = k
        BY <2>4, <3>2, CtaType DEF Books, BoundOK
      <4> QED BY <2>3, <4>1
    <3>4. Resident(c) = {}
      BY <3>3
    <3> QED BY <2>4, <3>1, <3>2, <3>4 DEF Books, BoundOK
  <2> QED BY <2>1, <2>2, <2>3, <2>4
<1>2. ASSUME NEW k \in launched
      PROVE  IsFinished(k) <=> ~ \E s \in Slot : m_running_kernels[s] = k
  BY DEF Books, SlotsOK, InSlot, IsFinished
<1> QED BY <1>1, <1>2 DEF FinishedIsOver

(***************************************************************************)
(* A kernel is reported finished (set_kernel_done) once, when nothing of   *)
(* it is left to issue or to run, and holds its slot until then; no core   *)
(* stays bound to it while CTAs are still issued.                          *)
(***************************************************************************)
THEOREM FinishedOnce == Spec => []FinishedIsOver
BY DispatchBooks, BooksFinished, PTL

\* A part of a sum of natural numbers is not above it.
LEMMA ShmemPart ==
  ASSUME TypeOK, NEW c \in Core, NEW i \in CtaId
  PROVE  ShmemOf(c, i) <= ShmemSum(c)
<1> DEFINE f == [j \in CtaId |-> ShmemOf(c, j)]
           g == [f EXCEPT ![i] = 0]
<1>1. f \in [0 .. MaxCta - 1 -> Nat] /\ i \in 0 .. MaxCta - 1 /\ MaxCta \in Nat /\ f[i] = ShmemOf(c, i)
  BY ShmemType DEF CtaId
<1>2. ShmemSum(c) = SumOf(f, MaxCta)
  BY DEF ShmemSum
<1> HIDE DEF f
<1>3. g \in [0 .. MaxCta - 1 -> Nat] /\ f \in [0 .. MaxCta - 1 -> Int] /\ 0 \in Int
  BY <1>1
<1>4. SumOf(g, MaxCta) = SumOf(f, MaxCta) + 0 - f[i]
  BY <1>1, <1>3, SumOfChange
<1> HIDE DEF g
<1>5. SumOf(g, MaxCta) \in Nat /\ SumOf(f, MaxCta) \in Nat /\ f[i] \in Nat
  BY <1>1, <1>3, SumOfNat
<1> QED BY <1>1, <1>2, <1>4, <1>5

\* The books say that the assertions hold.
LEMMA BooksAssert == Books => AssertsHold
<1> SUFFICES ASSUME Books PROVE AssertsHold
  OBVIOUS
<1>1. ASSUME ~Selectable(m_last_issued_kernel), NEW s \in RoundRobin
      PROVE  m_running_kernels[s] \notin executed
  BY <1>1 DEF RoundRobin, Books, SelectedOK
<1>2. ASSUME scan.cluster \in Cluster, Takes(Visited)
      PROVE  FreeCtaIds(Visited, Offered(Visited)) # {}
  <2>1. Visited \in Core
    BY <1>2, VisitedCore DEF Books
  <2>2. MoreCtaLeft(Offered(Visited)) /\ CanIssue1Block(Visited, Offered(Visited))
    BY <1>2 DEF Takes
  <2>3. Offered(Visited) \in Kernel \cup {NULL}
    BY <2>1, SelectedSlot DEF Offered, Books, TypeOK
  <2>4. Offered(Visited) \in Kernel
    BY <2>2, <2>3 DEF MoreCtaLeft
  <2> QED BY <2>1, <2>2, <2>4, FreeCtaId DEF Books
<1>3. ASSUME NEW c \in Core, NEW i \in Resident(c)
      PROVE  LET k == cta[c][i].kernel IN
             /\ Resident(c) = {i} /\ m_kernel[c] # k => ~MoreCtaLeft(m_kernel[c])
             /\ load.concurrent => /\ occupied[c].threads >= load.size[k]
                                   /\ occupied[c].shmem >= load.smem[k]
                                   /\ occupied[c].ctas >= 1
             /\ \E s \in Slot : m_running_kernels[s] = k
  <2>1. PICK k \in Kernel : k = cta[c][i].kernel
    BY CtaType DEF Books
  <2>2. m_kernel[c] # k => ~MoreCtaLeft(m_kernel[c])
    BY <2>1 DEF Books, BoundOK, MoreCtaLeft
  <2>3. \E s \in Slot : m_running_kernels[s] = k
    BY <2>1 DEF Books, RunningOK, InSlot
  <2>4. ASSUME load.concurrent
        PROVE  /\ occupied[c].threads >= load.size[k]
               /\ occupied[c].shmem >= load.smem[k]
               /\ occupied[c].ctas >= 1
    <3>1. /\ occupied[c].hwtid = UNION {ThreadsOf(c, j) : j \in Resident(c)}
          /\ IsFiniteSet(occupied[c].hwtid)
          /\ occupied[c].threads = Cardinality(occupied[c].hwtid)
          /\ occupied[c].ctas = Cardinality(Resident(c))
          /\ occupied[c].shmem = ShmemSum(c)
      BY <2>4 DEF Books, OccupiedOK
    <3>2. i \in CtaId /\ cta[c][i].start \in Nat /\ cta[c][i] # NULL
      BY CtaType DEF Books, Resident
    <3>3. occupied[c].threads >= load.size[k]
      <4>1. ThreadsOf(c, i) \in SUBSET occupied[c].hwtid
        BY <3>1
      <4>2. Cardinality(ThreadsOf(c, i)) = load.size[k] /\ load.size[k] \in Nat
        BY <2>1, <3>2, ThreadsCount, LoadType DEF ThreadsOf, Books
      <4>3. Cardinality(ThreadsOf(c, i)) <= Cardinality(occupied[c].hwtid)
        BY <3>1, <4>1, FS_Subset
      <4> QED BY <3>1, <4>2, <4>3
    <3>4. occupied[c].shmem >= load.smem[k]
      <4>1. ShmemOf(c, i) = load.smem[k]
        BY <2>1, <3>2 DEF ShmemOf
      <4>2. ShmemOf(c, i) <= ShmemSum(c) /\ ShmemSum(c) \in Nat /\ load.smem[k] \in Nat
        BY <3>2, ShmemPart, ShmemType, LoadType DEF Books
      <4> QED BY <3>1, <4>1, <4>2
    <3>5. occupied[c].ctas >= 1
      <4>1. Resident(c) # {} /\ IsFiniteSet(Resident(c)) /\ Cardinality(Resident(c)) \in Nat
        BY ResidentFinite
      <4>2. Cardinality(Resident(c)) # 0
        BY <4>1, FS_EmptySet
      <4> QED BY <3>1, <4>1, <4>2
    <3> QED BY <3>3, <3>4, <3>5
  <2> QED BY <2>1, <2>2, <2>3, <2>4
<1> QED BY <1>1, <1>2, <1>3 DEF AssertsHold

(***************************************************************************)
(* The assertions on the way of a CTA hold: in select_kernel, in           *)
(* issue_block2core, in release_shader_resource_1block, in                 *)
(* register_cta_thread_exit and in set_kernel_done.                        *)
(***************************************************************************)
THEOREM AssertionsHold == Spec => []AssertsHold
BY DispatchBooks, BooksAssert, PTL

\* Where kernels share a core, the sizes of CTAs divide the threads of a core.
SizesDivide ==
  \A l \in Workloads, k \in Kernel : l.concurrent => NumThreads % l.size[k] = 0

\* The threads of a CTA are threads that the core has.
LEMMA ThreadsInside ==
  ASSUME SizesDivide, Books, NEW c \in Core, NEW i \in Resident(c)
  PROVE  ThreadsOf(c, i) \subseteq 0 .. NumThreads - 1
<1>1. PICK k \in Kernel : k = cta[c][i].kernel
  BY CtaType DEF Books
<1>2. PICK n \in Nat : n = load.size[k] /\ n >= 1 /\ n <= NumThreads
  BY LoadType DEF Books
<1>3. PICK start \in Nat : start = cta[c][i].start
  BY CtaType DEF Books
<1>4. ThreadsOf(c, i) = start .. start + n - 1
  BY <1>1, <1>2, <1>3 DEF ThreadsOf, Threads
<1>5. NumThreads \in Nat
  BY DispatchAssumption
<1>6. start + n <= NumThreads
  <2>1. CASE load.concurrent
    <3>1. start < NumThreads /\ start % n = 0 /\ NumThreads % n = 0
      BY <1>1, <1>2, <1>3, <2>1 DEF Books, PlacedOK, SizesDivide, TypeOK
    <3>2. PICK x \in Nat : start = x * n
      BY <1>2, <3>1, Multiple
    <3>3. PICK y \in Nat : NumThreads = y * n
      BY <1>2, <1>5, <3>1, Multiple
    <3>4. x < y
      <4>1. SUFFICES ASSUME y <= x PROVE FALSE
        OBVIOUS
      <4>2. y * n <= x * n /\ y * n \in Nat /\ x * n \in Nat
        BY <4>1, Times
      <4> QED BY <3>1, <3>2, <3>3, <4>2
    <3>5. (x + 1) * n <= y * n
      BY <3>4, Times
    <3>6. (x + 1) * n = x * n + n
      OBVIOUS
    <3> QED BY <3>2, <3>3, <3>5, <3>6
  <2>2. CASE ~load.concurrent
    <3>1. start = i * n /\ i < CtaPerCore(k)
      BY <1>1, <1>2, <1>3, <2>2 DEF Books, BoundOK
    <3>2. PICK p \in Nat : p = CtaPerCore(k) /\ p * n <= NumThreads
      BY <1>2, CtaPerCoreBound DEF Books
    <3>3. i \in Nat /\ i + 1 <= p
      BY <3>1, <3>2, CtaType DEF Books, CtaId
    <3>4. (i + 1) * n <= p * n /\ p * n \in Nat
      BY <3>3, Times
    <3>5. (i + 1) * n = i * n + n /\ i * n \in Nat
      BY <3>3
    <3> QED BY <1>5, <3>1, <3>2, <3>4, <3>5
  <2> QED BY <2>1, <2>2
<1> QED BY <1>4, <1>5, <1>6

\* Without concurrent kernels max_cta keeps the shared memory of a core within bounds.
LEMMA ShmemFits ==
  ASSUME Books, NEW c \in Core
  PROVE  ShmemSum(c) <= ShmemSize
<1>1. CASE load.concurrent
  BY <1>1 DEF Books, OccupiedOK
<1>2. CASE ~load.concurrent
  <2> DEFINE f == [i \in CtaId |-> ShmemOf(c, i)]
  <2>1. /\ f \in [0 .. MaxCta - 1 -> Int] /\ MaxCta \in Nat /\ ShmemSize \in Nat
        /\ \A i \in CtaId : f[i] = ShmemOf(c, i) /\ ShmemOf(c, i) \in Nat
        /\ CtaId = 0 .. MaxCta - 1
    BY ShmemType, DispatchAssumption DEF Books, CtaId
  <2>2. ShmemSum(c) = SumOf(f, MaxCta)
    BY DEF ShmemSum
  <2>3. CASE Resident(c) = {}
    <3>1. \A i \in CtaId : ShmemOf(c, i) = 0
      BY <2>3 DEF ShmemOf, Resident
    <3>2. \A i \in 0 .. MaxCta - 1 : f[i] = 0
      BY <2>1, <3>1
    <3> HIDE DEF f
    <3>3. SumOf(f, MaxCta) = 0
      BY <2>1, <3>2, SumOfZero
    <3> QED BY <2>1, <2>2, <3>3
  <2>4. ASSUME NEW j \in Resident(c)
        PROVE  ShmemSum(c) <= ShmemSize
    <3>1. PICK k \in Kernel : k = cta[c][j].kernel
      BY CtaType DEF Books
    <3>2. m_kernel[c] = k
      BY <1>2, <3>1 DEF Books, BoundOK
    <3>3. PICK m \in Nat : m = load.smem[k]
      BY LoadType DEF Books
    <3>4. PICK p \in Nat : p = CtaPerCore(k) /\ p <= MaxCta /\ p * m <= ShmemSize
      BY <3>3, CtaPerCoreBound DEF Books
    <3>5. ASSUME NEW i \in CtaId
          PROVE  ShmemOf(c, i) <= m /\ (i >= p => ShmemOf(c, i) = 0)
      <4>1. CASE i \in Resident(c)
        <5>1. cta[c][i].kernel = k /\ i < p /\ cta[c][i] # NULL
          BY <1>2, <3>2, <3>4, <4>1, CtaType DEF Books, BoundOK, Resident
        <5>2. i \in Nat /\ ShmemOf(c, i) = m
          BY <3>3, <5>1 DEF ShmemOf, CtaId
        <5> QED BY <3>4, <5>1, <5>2
      <4>2. CASE i \notin Resident(c)
        BY <4>2 DEF ShmemOf, Resident
      <4> QED BY <4>1, <4>2
    <3>6. \A i \in 0 .. MaxCta - 1 : f[i] <= m /\ (i >= p => f[i] = 0)
      BY <2>1, <3>5
    <3>7. p \in 0 .. MaxCta
      BY <3>4
    <3> HIDE DEF f
    <3>8. SumOf(f, MaxCta) <= p * m
      BY <2>1, <3>6, <3>7, SumOfBounded
    <3>9. SumOf(f, MaxCta) \in Int /\ p * m \in Int
      BY <2>1, SumOfType
    <3> QED BY <2>1, <2>2, <3>4, <3>8, <3>9
  <2> QED BY <2>3, <2>4
<1> QED BY <1>1, <1>2

\* The books say what Accounted promises.
LEMMA BooksAccounted ==
  ASSUME SizesDivide, Books
  PROVE  Accounted
<1>1. ThreadsFit
  <2>1. ASSUME NEW c \in Core, NEW i \in Resident(c)
        PROVE  LET mine == Threads(cta[c][i].kernel, cta[c][i].start) IN
               /\ mine \subseteq 0 .. NumThreads - 1
               /\ \A j \in Resident(c) \ {i} :
                    mine \cap Threads(cta[c][j].kernel, cta[c][j].start) = {}
    <3>1. ThreadsOf(c, i) \subseteq 0 .. NumThreads - 1
      BY ThreadsInside
    <3>2. \A j \in Resident(c) \ {i} : ThreadsOf(c, i) \cap ThreadsOf(c, j) = {}
      BY DEF Books, ThreadsApart
    <3> QED BY <3>1, <3>2 DEF ThreadsOf
  <2> QED BY <2>1 DEF ThreadsFit
<1>2. ASSUME NEW c \in Core
      PROVE  LET shmem == SumOf([i \in CtaId |-> ShmemOf(c, i)], MaxCta) IN
             /\ shmem <= ShmemSize
             /\ load.concurrent =>
                  /\ occupied[c].shmem = shmem
                  /\ occupied[c].ctas = Cardinality(Resident(c))
                  /\ occupied[c].threads = Cardinality(occupied[c].hwtid)
  <2>1. ShmemSum(c) <= ShmemSize
    BY ShmemFits
  <2>2. load.concurrent => /\ occupied[c].shmem = ShmemSum(c)
                           /\ occupied[c].ctas = Cardinality(Resident(c))
                           /\ occupied[c].threads = Cardinality(occupied[c].hwtid)
    BY DEF Books, OccupiedOK
  <2> QED BY <2>1, <2>2 DEF ShmemSum
<1>3. \A k \in Kernel : cores_running[k] = Cardinality(CtasOf(k))
  BY DEF Books, RunningOK
<1> QED BY <1>1, <1>2, <1>3 DEF Accounted

(***************************************************************************)
(* Hardware threads, shared memory and the CTAs of a kernel are accounted  *)
(* for.  Where kernels share cores this needs sizes that divide the        *)
(* threads of a core: find_available_hwtid tests only that a CTA starts    *)
(* below n_thread_per_shader.  All the rest of Accounted, that the threads *)
(* of CTAs are apart included, is part of Books without that condition.    *)
(***************************************************************************)
THEOREM CtasAccounted == ASSUME SizesDivide PROVE Spec => []Accounted
<1>1. Books => Accounted
  BY BooksAccounted
<1> QED BY <1>1, DispatchBooks, PTL

===============================================================================
