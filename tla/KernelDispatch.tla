---------------------------- MODULE KernelDispatch ----------------------------
(***************************************************************************)
(* How running kernels are given to the shader cores, CTA by CTA: the      *)
(* slots m_running_kernels of gpgpu_sim, the choice of a kernel            *)
(* (select_kernel), the walk over clusters and cores that issues at most   *)
(* one CTA per cluster and cycle (issue_block2core), the resources of a    *)
(* core, and the way back from the exit of a warp to the end of the CTA    *)
(* and of the kernel (register_cta_thread_exit, set_kernel_done).          *)
(*                                                                         *)
(* Threads are counted in warps: CTA sizes are padded to whole warps, and  *)
(* the threads of a warp are retired together (fetch).  Registers are      *)
(* accounted for exactly like shared memory and are left out.              *)
(***************************************************************************)
EXTENDS Integers, Sequences, FiniteSets, FiniteSetsExt, Folding

CONSTANTS
  Kernel,           \* kernels that the streams launch
  NULL,             \* no kernel, no CTA
  NumSlots,         \* max_concurrent_kernel: size of m_running_kernels
  NumClusters,      \* n_simt_clusters
  CoresPerCluster,  \* n_simt_cores_per_cluster
  NumThreads,       \* n_thread_per_shader, in warps
  MaxCta,           \* max_cta_per_core
  ShmemSize,        \* gpgpu_shmem_size
  Workloads         \* configurations and launches that a run explores

Slot    == 0 .. NumSlots - 1
Cluster == 0 .. NumClusters - 1
Core    == Cluster \X (0 .. CoresPerCluster - 1)
CtaId   == 0 .. MaxCta - 1   \* hardware CTA ids of a core

(***************************************************************************)
(* A workload: may CTAs of several kernels share a core                    *)
(* (gpgpu_concurrent_kernel_sm), the CTA limit (gpu_max_cta_opt, 0: none), *)
(* and for each kernel its CTAs, the warps and the shared memory of a CTA  *)
(* and its launch latency.  launch and max_cta abort on a kernel that one  *)
(* empty core cannot hold, and CUDA refuses an empty grid.                 *)
(***************************************************************************)
Workload ==
  [concurrent : BOOLEAN, limit : Nat,
   grid : [Kernel -> Nat \ {0}], size : [Kernel -> 1 .. NumThreads],
   smem : [Kernel -> 0 .. ShmemSize], latency : [Kernel -> Nat]]

\* A CTA on a core: its first hardware thread, and its warps that are not retired.
Cta == [kernel : Kernel, start : Nat, warps : SUBSET Nat]

ASSUME DispatchAssumption ==
  /\ {NumSlots, NumClusters, CoresPerCluster, NumThreads, MaxCta} \subseteq Nat \ {0}
  /\ ShmemSize \in Nat
  /\ NULL \notin Kernel \cup Cta
  /\ \A l \in Workloads : l \in Workload

VARIABLES
  load,                  \* the workload, chosen at the start
  m_running_kernels,     \* slot -> kernel or NULL
  m_last_issued_kernel,  \* the slot select_kernel returned last
  executed,              \* m_executed_kernel_uids
  next_cta,              \* m_next_cta: CTAs of each kernel issued so far
  cores_running,         \* m_num_cores_running: CTAs of the kernel on the cores
  tb_latency,            \* m_kernel_TB_latency
  launched,              \* kernels the streams have handed over
  finished,              \* m_finished_kernel
  m_kernel,              \* core -> the kernel it is bound to
  cta,                   \* core -> hardware CTA id -> CTA or NULL
  occupied,              \* m_occupied_n_threads, _shmem, _ctas and _hwtid
  issued,                \* gpu_tot_issued_cta + m_total_cta_launched
  last_cluster,          \* m_last_cluster_issue
  next_core,             \* cluster -> m_cta_issue_next_core
  scan                   \* the walk of issue_block2core, see BeginIssue

kernels == <<m_running_kernels, m_last_issued_kernel, executed, next_cta,
             cores_running, tb_latency, launched, finished>>
cores   == <<m_kernel, cta, occupied>>
walk    == <<issued, last_cluster, next_core, scan>>
vars    == <<load, kernels, cores, walk>>

NoMoreCtas(k) == next_cta[k] >= load.grid[k]

HitMaxCtaCount == load.limit # 0 /\ issued >= load.limit

MoreCtaLeft(k) == ~HitMaxCtaCount /\ k # NULL /\ ~NoMoreCtas(k)

\* kernel_info_t::done.
Done(k) == NoMoreCtas(k) /\ cores_running[k] = 0

\* The CTA ids in use on core c (m_cta_status is not 0).
Resident(c) == {i \in CtaId : cta[c][i] # NULL}

-------------------------------------------------------------------------------
Idle == -1

Init ==
  /\ load \in Workloads
  /\ m_running_kernels = [s \in Slot |-> NULL]
  /\ m_last_issued_kernel = 0
  /\ executed = {}
  /\ next_cta = [k \in Kernel |-> 0]
  /\ cores_running = [k \in Kernel |-> 0]
  /\ tb_latency = load.latency
  /\ launched = {}
  /\ finished = << >>
  /\ m_kernel = [c \in Core |-> NULL]
  /\ cta = [c \in Core |-> [i \in CtaId |-> NULL]]
  /\ occupied = [c \in Core |-> [threads |-> 0, shmem |-> 0, ctas |-> 0, hwtid |-> {}]]
  /\ issued = 0
  /\ last_cluster = NumClusters - 1
  /\ next_core = [l \in Cluster |-> CoresPerCluster - 1]
  /\ scan = [cluster |-> Idle, core |-> 0, from |-> 0]

-------------------------------------------------------------------------------
\* The slots that can_start_kernel and launch accept for a new kernel.
UsableSlots == {s \in Slot : m_running_kernels[s] = NULL \/ Done(m_running_kernels[s])}

\* gpgpu_sim::launch, called by the stream manager between two cycles.
Launch(k) ==
  /\ scan.cluster = Idle
  /\ k \notin launched
  /\ UsableSlots # {}
  /\ m_running_kernels' = [m_running_kernels EXCEPT ![Min(UsableSlots)] = k]
  /\ launched' = launched \cup {k}
  /\ UNCHANGED <<load, cores, walk, m_last_issued_kernel, executed, next_cta,
                 cores_running, tb_latency, finished>>

-------------------------------------------------------------------------------
\* select_kernel may return the kernel of slot s.
Selectable(s) ==
  LET k == m_running_kernels[s] IN k # NULL /\ ~NoMoreCtas(k) /\ tb_latency[k] = 0

\* Slots after the last one issued from, in the order of the round robin.
Distance(s) == (s - m_last_issued_kernel - 1) % NumSlots

\* The slot that the round robin of select_kernel finds, if any.
RoundRobin ==
  {s \in Slot : /\ Selectable(s) /\ ~HitMaxCtaCount
                /\ \A t \in Slot : Selectable(t) => Distance(t) >= Distance(s)}

SelectSlot_NoStick == RoundRobin

\* gpgpu_sim::select_kernel stays with one kernel while it has CTAs to issue.
SelectSlot ==
  IF Selectable(m_last_issued_kernel) THEN {m_last_issued_kernel} ELSE RoundRobin

Selected == CHOOSE s \in Slot : s \in SelectSlot

-------------------------------------------------------------------------------
\* shader_core_config::max_cta: CTAs of kernel k that one core takes, spread
\* over the cores when the grid is small.
CtaPerCore(k) ==
  LET fit == Min({NumThreads \div load.size[k], MaxCta}
                 \cup (IF load.smem[k] > 0 THEN {ShmemSize \div load.smem[k]} ELSE {}))
      n   == NumClusters * CoresPerCluster
  IN IF load.grid[k] < fit * n THEN (load.grid[k] + n - 1) \div n ELSE fit

\* The hardware threads of a CTA of kernel k that starts at `step`.
Threads(k, step) == step .. step + load.size[k] - 1

\* Where find_available_hwtid may place a CTA of kernel k on core c: it looks
\* at multiples of the size of this CTA that lie below n_thread_per_shader.
Steps(c, k) ==
  {step \in 0 .. NumThreads - 1 :
     /\ step % load.size[k] = 0
     /\ Threads(k, step) \cap occupied[c].hwtid = {}}

\* shader_core_ctx::occupy_shader_resource_1block, as a test.
Occupiable(c, k) ==
  /\ occupied[c].threads + load.size[k] <= NumThreads
  /\ Steps(c, k) # {}
  /\ occupied[c].shmem + load.smem[k] <= ShmemSize
  /\ occupied[c].ctas + 1 <= MaxCta

CanIssue1Block(c, k) ==
  IF load.concurrent THEN Occupiable(c, k) ELSE Cardinality(Resident(c)) < CtaPerCore(k)

\* The hardware CTA ids that issue_block2core searches for a free one.
FreeCtaIds(c, k) ==
  (IF load.concurrent THEN CtaId ELSE 0 .. CtaPerCore(k) - 1) \ Resident(c)

\* The first hardware thread of a CTA of k that gets CTA id i.
StartThread(c, k, i) ==
  IF load.concurrent THEN Min(Steps(c, k)) ELSE i * load.size[k]

\* What is occupied once a CTA of kernel k has started (occupy_shader_resource_1block).
Taken(o, k, start) ==
  [threads |-> o.threads + load.size[k],
   shmem   |-> o.shmem + load.smem[k],
   ctas    |-> o.ctas + 1,
   hwtid   |-> o.hwtid \cup Threads(k, start)]

\* shader_core_ctx::issue_block2core: the next CTA of kernel k starts on core c.
IssueBlock2Core(c, k) ==
  LET i     == Min(FreeCtaIds(c, k))
      start == StartThread(c, k, i)
  IN /\ cta' = [cta EXCEPT ![c][i] =
                  [kernel |-> k, start |-> start, warps |-> Threads(k, start)]]
     /\ occupied' = IF load.concurrent
                      THEN [occupied EXCEPT ![c] = Taken(@, k, start)] ELSE occupied
     /\ cores_running' = [cores_running EXCEPT ![k] = @ + 1]
     /\ next_cta' = [next_cta EXCEPT ![k] = @ + 1]

-------------------------------------------------------------------------------
(***************************************************************************)
(* gpgpu_sim::issue_block2core walks once over the clusters, starting      *)
(* after the one that took a CTA last, and in each over its cores until    *)
(* one takes a CTA.  scan holds the loop variables; nothing else happens   *)
(* on the simulation thread until the walk is over.                        *)
(***************************************************************************)
BeginIssue ==
  /\ scan.cluster = Idle
  /\ scan' = [cluster |-> 0, core |-> 0, from |-> last_cluster]
  /\ UNCHANGED <<load, kernels, cores, issued, last_cluster, next_core>>

Visited ==
  LET l == (scan.cluster + scan.from + 1) % NumClusters
  IN <<l, (scan.core + next_core[l] + 1) % CoresPerCluster>>

\* The core has no thread left that is not retired (get_not_completed).
NotCompleted(c) == Resident(c) # {}

Asks_WhileBusy(c) == load.concurrent \/ ~MoreCtaLeft(m_kernel[c])

\* The visited core asks select_kernel for a kernel.
Asks(c) ==
  load.concurrent \/ (~MoreCtaLeft(m_kernel[c]) /\ ~NotCompleted(c))

\* The kernel that simt_core_cluster::issue_block2core tries on core c.
Offered(c) ==
  IF ~Asks(c) THEN m_kernel[c]
  ELSE IF SelectSlot = {} THEN NULL
  ELSE m_running_kernels[Selected]

Takes(c) == MoreCtaLeft(Offered(c)) /\ CanIssue1Block(c, Offered(c))

\* What select_kernel and set_kernel leave behind, also when no CTA is issued.
Select(c) ==
  IF Asks(c) /\ SelectSlot # {}
    THEN /\ m_last_issued_kernel' = Selected
         /\ executed' = executed \cup {m_running_kernels[Selected]}
         /\ m_kernel' = IF load.concurrent
                          THEN m_kernel ELSE [m_kernel EXCEPT ![c] = m_running_kernels[Selected]]
    ELSE UNCHANGED <<m_last_issued_kernel, executed, m_kernel>>

\* The visited core takes a CTA; the walk goes on with the next cluster.
IssueCta ==
  LET c == Visited IN
  /\ scan.cluster \in Cluster
  /\ Takes(c)
  /\ IssueBlock2Core(c, Offered(c))
  /\ Select(c)
  /\ issued' = issued + 1
  /\ last_cluster' = c[1]
  /\ next_core' = [next_core EXCEPT ![c[1]] = c[2]]
  /\ scan' = [scan EXCEPT !.cluster = @ + 1, !.core = 0]
  /\ UNCHANGED <<load, m_running_kernels, tb_latency, launched, finished>>

\* The visited core takes none; the walk goes on with the next core.
SkipCore ==
  LET last == scan.core + 1 = CoresPerCluster IN
  /\ scan.cluster \in Cluster
  /\ ~Takes(Visited)
  /\ Select(Visited)
  /\ scan' = [scan EXCEPT !.cluster = IF last THEN @ + 1 ELSE @,
                          !.core = IF last THEN 0 ELSE @ + 1]
  /\ UNCHANGED <<load, m_running_kernels, next_cta, cores_running, tb_latency, launched,
                 finished, cta, occupied, issued, last_cluster, next_core>>

\* The walk is over: decrement_kernel_latency.
DecrementKernelLatency ==
  /\ scan.cluster = NumClusters
  /\ scan' = [scan EXCEPT !.cluster = Idle]
  /\ tb_latency' = [k \in Kernel |->
       IF (\E s \in Slot : m_running_kernels[s] = k) /\ tb_latency[k] > 0
         THEN tb_latency[k] - 1 ELSE tb_latency[k]]
  /\ UNCHANGED <<load, m_running_kernels, m_last_issued_kernel, executed, next_cta,
                 cores_running, launched, finished, cores, issued, last_cluster, next_core>>

-------------------------------------------------------------------------------
\* fetch retires warp w, which is not the last one of CTA i of core c.
WarpExit(c, i, w) ==
  /\ scan.cluster = Idle
  /\ i \in Resident(c)
  /\ w \in cta[c][i].warps /\ cta[c][i].warps # {w}
  /\ cta' = [cta EXCEPT ![c][i].warps = @ \ {w}]
  /\ UNCHANGED <<load, kernels, m_kernel, occupied, walk>>

Released_KeepsShmem(o, a) ==
  [threads |-> o.threads - load.size[a.kernel],
   shmem   |-> o.shmem,
   ctas    |-> o.ctas - 1,
   hwtid   |-> o.hwtid \ Threads(a.kernel, a.start)]

\* release_shader_resource_1block for CTA a.
Released(o, a) ==
  [threads |-> o.threads - load.size[a.kernel],
   shmem   |-> o.shmem - load.smem[a.kernel],
   ctas    |-> o.ctas - 1,
   hwtid   |-> o.hwtid \ Threads(a.kernel, a.start)]

KernelEnds_WhileRunning(k) == ~MoreCtaLeft(k)

KernelEnds_BeforeDecrement(k) == ~MoreCtaLeft(k) /\ cores_running[k] = 0

\* The CTA that ends is the last one of kernel k.
KernelEnds(k) == ~MoreCtaLeft(k) /\ cores_running[k] = 1

(***************************************************************************)
(* register_cta_thread_exit on the last thread of CTA i of core c: the     *)
(* core unbinds from its kernel when it is empty, the resources are given  *)
(* back, and if this was the last CTA of the kernel, set_kernel_done       *)
(* frees its slot.                                                         *)
(***************************************************************************)
CtaExit(c, i, w) ==
  LET a    == cta[c][i]
      k    == a.kernel
      ends == KernelEnds(k)
  IN
  /\ scan.cluster = Idle
  /\ i \in Resident(c)
  /\ a.warps = {w}
  /\ cta' = [cta EXCEPT ![c][i] = NULL]
  /\ m_kernel' = IF Resident(c) = {i} \/ (ends /\ m_kernel[c] = k)
                   THEN [m_kernel EXCEPT ![c] = NULL] ELSE m_kernel
  /\ occupied' = IF load.concurrent THEN [occupied EXCEPT ![c] = Released(@, a)] ELSE occupied
  /\ cores_running' = [cores_running EXCEPT ![k] = @ - 1]
  /\ finished' = IF ends THEN Append(finished, k) ELSE finished
  /\ m_running_kernels' = [s \in Slot |-> IF ends /\ m_running_kernels[s] = k
                                            THEN NULL ELSE m_running_kernels[s]]
  /\ UNCHANGED <<load, m_last_issued_kernel, executed, next_cta, tb_latency, launched, walk>>

RetireWarp(c) ==
  \E i \in CtaId, w \in 0 .. NumThreads - 1 : WarpExit(c, i, w) \/ CtaExit(c, i, w)

-------------------------------------------------------------------------------
Next ==
  \/ \E k \in Kernel : Launch(k)
  \/ BeginIssue \/ IssueCta \/ SkipCore \/ DecrementKernelLatency
  \/ \E c \in Core : RetireWarp(c)

Spec == Init /\ [][Next]_vars

(***************************************************************************)
(* The simulation loop cycles while the GPU is active, so the walk over    *)
(* the clusters is started and finished again and again.  Every cycle also *)
(* visits every core, and a core with warps at last retires one; that      *)
(* programs end is an assumption.  These steps are possible only between   *)
(* two walks, hence strong fairness.                                       *)
(***************************************************************************)
Fairness ==
  /\ WF_vars(BeginIssue) /\ WF_vars(IssueCta \/ SkipCore) /\ WF_vars(DecrementKernelLatency)
  /\ \A c \in Core : SF_vars(RetireWarp(c))

FairSpec == Spec /\ Fairness

-------------------------------------------------------------------------------
(***************************************************************************)
(* Properties.                                                             *)
(***************************************************************************)

IsFinished(k) == \E n \in DOMAIN finished : finished[n] = k

(***************************************************************************)
(* The assertions on the way of a CTA: a kernel that the round robin of    *)
(* select_kernel picks was not selected before; issue_block2core finds a   *)
(* free CTA id and hardware threads; a core is bound to no other kernel    *)
(* with CTAs left when its last CTA ends; what a CTA gives back was        *)
(* occupied; and the kernel of a CTA is in m_running_kernels when the CTA  *)
(* ends it.                                                                *)
(***************************************************************************)
AssertsHold ==
  /\ ~Selectable(m_last_issued_kernel) =>
       \A s \in RoundRobin : m_running_kernels[s] \notin executed
  /\ scan.cluster \in Cluster /\ Takes(Visited) => FreeCtaIds(Visited, Offered(Visited)) # {}
  /\ \A c \in Core : \A i \in Resident(c) :
       LET k == cta[c][i].kernel IN
       /\ Resident(c) = {i} /\ m_kernel[c] # k => ~MoreCtaLeft(m_kernel[c])
       /\ load.concurrent => /\ occupied[c].threads >= load.size[k]
                             /\ occupied[c].shmem >= load.smem[k]
                             /\ occupied[c].ctas >= 1
       /\ \E s \in Slot : m_running_kernels[s] = k

(***************************************************************************)
(* The CTAs on a core have hardware threads of their own, all of which the *)
(* core has, whichever kernels share the core and in whatever order CTAs   *)
(* of different sizes come and go (find_available_hwtid in one mode,       *)
(* free_cta_hw_id * padded_cta_size in the other).                         *)
(***************************************************************************)
ThreadsFit ==
  \A c \in Core : \A i \in Resident(c) :
    LET mine == Threads(cta[c][i].kernel, cta[c][i].start) IN
    /\ mine \subseteq 0 .. NumThreads - 1
    /\ \A j \in Resident(c) \ {i} :
         mine \cap Threads(cta[c][j].kernel, cta[c][j].start) = {}

\* The shared memory that the CTA with id i has on core c.
ShmemOf(c, i) == IF cta[c][i] = NULL THEN 0 ELSE load.smem[cta[c][i].kernel]

\* The CTAs of kernel k, as pairs of a core and a CTA id.
CtasOf(k) == {ci \in Core \X CtaId : cta[ci[1]][ci[2]] # NULL /\ cta[ci[1]][ci[2]].kernel = k}

(***************************************************************************)
(* The books are right: the threads fit, and a core never holds more       *)
(* shared memory than it has, in either mode; a kernel counts exactly its  *)
(* CTAs on the cores, which decides when it is done; and the occupied      *)
(* resources are those of the CTAs on the core.                            *)
(***************************************************************************)
Accounted ==
  /\ ThreadsFit
  /\ \A c \in Core :
       LET shmem == SumOf([i \in CtaId |-> ShmemOf(c, i)], MaxCta) IN
       /\ shmem <= ShmemSize
       /\ load.concurrent =>
            /\ occupied[c].shmem = shmem
            /\ occupied[c].ctas = Cardinality(Resident(c))
            /\ occupied[c].threads = Cardinality(occupied[c].hwtid)
  /\ \A k \in Kernel : cores_running[k] = Cardinality(CtasOf(k))

(***************************************************************************)
(* A kernel is reported finished once, when its CTAs have all been issued  *)
(* (or the CTA limit is hit) and none is left on a core; until then it     *)
(* keeps its slot.  The stream manager then deletes it, and no core still  *)
(* follows its m_kernel to it: kernel_more_cta_left looks at the kernel    *)
(* only while the limit is not hit.                                        *)
(***************************************************************************)
FinishedIsOver ==
  /\ \A n \in DOMAIN finished :
       LET k == finished[n] IN
       /\ NoMoreCtas(k) \/ HitMaxCtaCount
       /\ \A c \in Core : \A i \in Resident(c) : cta[c][i].kernel # k
       /\ \A m \in DOMAIN finished : finished[m] = k => m = n
       /\ \A c \in Core : m_kernel[c] = k => HitMaxCtaCount
  /\ \A k \in launched :
       IsFinished(k) <=> ~ \E s \in Slot : m_running_kernels[s] = k

\* Without a CTA limit every kernel that is launched is finished: it is not
\* starved by select_kernel staying with another one, by kernels bound to the
\* cores, or by CTAs that do not fit.
KernelsFinish ==
  load.limit = 0 => \A k \in Kernel : k \in launched ~> IsFinished(k)

===============================================================================
