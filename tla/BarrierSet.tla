------------------------------ MODULE BarrierSet ------------------------------
(***************************************************************************)
(* CTA-wide barriers of one shader core: class barrier_set_t of            *)
(* gpgpu-sim/shader.cc, together with the three call sites that drive it:  *)
(* shader_core_ctx::issue_block2core (a CTA gets warps and a barrier       *)
(* slot), shader_core_ctx::issue_warp (a warp issues BARRIER_OP) and       *)
(* exit_impl -> shader_core_ctx::warp_exit (the last thread of a warp      *)
(* exits), and by shader_core_ctx::register_cta_thread_exit (the CTA is    *)
(* retired and its slot freed).                                            *)
(*                                                                         *)
(* A warp is reduced to the sequence of barrier instructions it will       *)
(* issue; everything it does between two of them is an interleaving point. *)
(***************************************************************************)
EXTENDS Integers, Sequences, FiniteSets

CONSTANTS
  NumWarps,    \* m_max_warps_per_core: the warp slots are 0 .. NumWarps - 1
  Cta,         \* hardware CTA slots of the core
  Bar,         \* named barriers, 0 .. m_max_barriers_per_cta - 1
  WarpSize,    \* m_warp_size, threads per warp
  ALL,         \* bar_count == (unsigned)-1: every active warp of the CTA
  Programs,    \* CTA programs: for each rank, the barriers it issues in order
  MaxIssued    \* bound of the model: CTAs issued to the core in a behaviour

Warp == 0 .. NumWarps - 1

\* barrier_type of abstract_hardware_model.h: the kinds of PTX bar instructions.
BarrierType == {"SYNC", "ARRIVE", "RED"}

BarInst == [bar_type : BarrierType, bar_id : Bar, bar_count : Nat \cup {ALL}]

ASSUME SizesAssumption ==
  /\ NumWarps \in Nat \ {0}
  /\ WarpSize \in Nat \ {0}
  /\ MaxIssued \in Nat
  /\ ALL \notin Nat

ASSUME ProgramsAssumption ==
  \A p \in Programs : p \in Seq(Seq(BarInst)) /\ p # << >>

VARIABLES
  cta_to_warps,    \* m_cta_to_warps: CTA slot -> its warps ({}: slot not in the map)
  warp_active,     \* m_warp_active: warps that have not exited
  warp_at_barrier, \* m_warp_at_barrier: warps the scheduler skips
  bar_id_to_warps, \* m_bar_id_to_warps: warps that reached each named barrier
  code,            \* the barrier instructions of the program of each warp
  reached,         \* how many of them the warp has issued
  reduced,         \* warps whose last bar.red has delivered its result
  issued           \* CTAs issued so far

vars == <<cta_to_warps, warp_active, warp_at_barrier, bar_id_to_warps,
          code, reached, reduced, issued>>

AllocatedWarps == UNION {cta_to_warps[c] : c \in Cta}

FreeWarps_OffByOne == (0 .. NumWarps) \ AllocatedWarps

\* Warp slots that find_available_hwtid may give to a new CTA.
FreeWarps == Warp \ AllocatedWarps

\* The slot that `w` belongs to: warp_exit searches the map for it.
CtaOf(w) == CHOOSE c \in Cta : w \in cta_to_warps[c]

\* Warps of CTA slot c that reached barrier b.  m_bar_id_to_warps is shared by
\* all CTAs of the core, so every use masks it with the warps of one CTA.
Registered(c, b) == cta_to_warps[c] \cap bar_id_to_warps[b]

\* Warps of CTA slot c that have not exited.
Active(c) == cta_to_warps[c] \cap warp_active

-------------------------------------------------------------------------------

\* barrier_set_t::barrier_set_t: nothing is active, nothing waits.
Init ==
  /\ cta_to_warps    = [c \in Cta |-> {}]
  /\ warp_active     = {}
  /\ warp_at_barrier = {}
  /\ bar_id_to_warps = [b \in Bar |-> {}]
  /\ code            = [w \in Warp |-> << >>]
  /\ reached         = [w \in Warp |-> 0]
  /\ reduced         = {}
  /\ issued          = 0

(***************************************************************************)
(* issue_block2core gives the CTA a contiguous run of hardware threads,    *)
(* collects the warps they fall in and calls allocate_barrier.             *)
(***************************************************************************)
AllocateBarrier(c, p, start) ==
  LET ws == start .. start + Len(p) - 1 IN
  /\ issued < MaxIssued
  /\ cta_to_warps[c] = {}
  /\ ws \subseteq FreeWarps
  /\ cta_to_warps'    = [cta_to_warps EXCEPT ![c] = ws]
  /\ warp_active'     = warp_active \cup ws
  /\ warp_at_barrier' = warp_at_barrier \ ws
  /\ bar_id_to_warps' = [b \in Bar |-> bar_id_to_warps[b] \ ws]
  /\ code'    = [w \in Warp |-> IF w \in ws THEN p[w - start + 1] ELSE code[w]]
  /\ reached' = [w \in Warp |-> IF w \in ws THEN 0 ELSE reached[w]]
  /\ reduced' = reduced \ ws
  /\ issued'  = issued + 1

CanIssue_IgnoresBarrier(w) == w \in warp_active

\* shd_warp_t::waiting, reduced to its barrier clauses: such a warp may issue.
CanIssue(w) ==
  /\ w \in warp_active
  /\ ~(w \in warp_at_barrier)

Complete_OffByOne(c, there, inst) ==
  IF inst.bar_count = ALL
    THEN Cardinality(there) + 1 >= Cardinality(Active(c))
    ELSE (Cardinality(there) + 1) * WarpSize >= inst.bar_count

\* Is barrier `inst` complete once the warps `there` have reached it?
Complete(c, there, inst) ==
  IF inst.bar_count = ALL
    THEN there = Active(c)
    ELSE Cardinality(there) * WarpSize = inst.bar_count

\* The warps that barrier b of slot c lets go when the arrival of w completes it.
Freed(c, b, w) == Registered(c, b) \cup {w}

StillRegistered_Kept(b, there) == bar_id_to_warps[b] \cup there

\* The warps registered at b when the complete barrier has let `there` go.
StillRegistered(b, there) == bar_id_to_warps[b] \ there

Receivers_LastOnly(w, there) == {w}

\* broadcast_barrier_reduction: the warps that get the result of a bar.red.
Receivers(w, there) == there

(***************************************************************************)
(* issue_warp on BARRIER_OP: warp_reaches_barrier registers the warp, makes*)
(* a SYNC or RED warp wait, and when the barrier is complete frees every   *)
(* warp registered at it, delivering the reduction to them all.            *)
(***************************************************************************)
WarpReachesBarrier(w) ==
  LET c     == CtaOf(w)
      inst  == code[w][reached[w] + 1]
      there == Registered(c, inst.bar_id) \cup {w}
      freed == Freed(c, inst.bar_id, w)
      wait  == IF inst.bar_type \in {"SYNC", "RED"}
                 THEN warp_at_barrier \cup {w} ELSE warp_at_barrier
      done  == Complete(c, there, inst)
  IN
  /\ CanIssue(w)
  /\ reached[w] < Len(code[w])
  /\ reached' = [reached EXCEPT ![w] = @ + 1]
  /\ bar_id_to_warps' =
       [bar_id_to_warps EXCEPT ![inst.bar_id] =
          IF done THEN StillRegistered(inst.bar_id, freed) ELSE @ \cup {w}]
  /\ warp_at_barrier' = IF done THEN wait \ freed ELSE wait
  /\ reduced' = IF inst.bar_type = "RED"
                  THEN IF done THEN (reduced \ {w}) \cup Receivers(w, freed)
                               ELSE reduced \ {w}
                  ELSE reduced
  /\ UNCHANGED <<cta_to_warps, warp_active, code, issued>>

ReleasedByExit_Never(c, left) == {}

\* Barriers of CTA slot c at which all the warps `left` active now stand.
ReleasedByExit(c, left) == {b \in Bar : Registered(c, b) = left}

(***************************************************************************)
(* The last thread of warp w executes exit: the warp leaves the active set *)
(* and every barrier of its CTA at which all remaining active warps stand  *)
(* is released.  The reduction is not broadcast on this path.              *)
(***************************************************************************)
WarpExit(w) ==
  LET c        == CtaOf(w)
      left     == Active(c) \ {w}
      released == ReleasedByExit(c, left)
  IN
  /\ CanIssue(w)
  /\ reached[w] = Len(code[w])
  /\ warp_active' = warp_active \ {w}
  /\ bar_id_to_warps' =
       [b \in Bar |-> IF b \in released THEN bar_id_to_warps[b] \ left
                                        ELSE bar_id_to_warps[b]]
  /\ warp_at_barrier' = IF released # {} THEN warp_at_barrier \ left
                                         ELSE warp_at_barrier
  /\ UNCHANGED <<cta_to_warps, code, reached, reduced, issued>>

\* m_cta_status has reached 0: every thread of the CTA was retired.
AllExited(c) == cta_to_warps[c] # {} /\ Active(c) = {}

(***************************************************************************)
(* register_cta_thread_exit on the last thread: deallocate_barrier frees   *)
(* the slot and its warps.                                                 *)
(***************************************************************************)
DeallocateBarrier(c) ==
  LET ws == cta_to_warps[c] IN
  /\ AllExited(c)
  /\ cta_to_warps'    = [cta_to_warps EXCEPT ![c] = {}]
  /\ warp_active'     = warp_active \ ws
  /\ warp_at_barrier' = warp_at_barrier \ ws
  /\ bar_id_to_warps' = [b \in Bar |-> bar_id_to_warps[b] \ ws]
  /\ UNCHANGED <<code, reached, reduced, issued>>

Next ==
  \/ \E c \in Cta, p \in Programs, s \in Warp : AllocateBarrier(c, p, s)
  \/ \E w \in Warp : WarpReachesBarrier(w)
  \/ \E w \in Warp : WarpExit(w)
  \/ \E c \in Cta : DeallocateBarrier(c)

Spec == Init /\ [][Next]_vars

(***************************************************************************)
(* The scheduler visits every warp slot and the core retires finished CTAs *)
(* in every cycle, so a warp that stays able to issue does issue.          *)
(***************************************************************************)
Fairness ==
  /\ \A w \in Warp : WF_vars(WarpReachesBarrier(w)) /\ WF_vars(WarpExit(w))
  /\ \A c \in Cta : WF_vars(DeallocateBarrier(c))

FairSpec == Spec /\ Fairness

-------------------------------------------------------------------------------
(***************************************************************************)
(* Properties.                                                             *)
(***************************************************************************)

TypeOK ==
  /\ cta_to_warps    \in [Cta -> SUBSET Warp]
  /\ warp_active     \in SUBSET Warp
  /\ warp_at_barrier \in SUBSET Warp
  /\ bar_id_to_warps \in [Bar -> SUBSET Warp]
  /\ code            \in [Warp -> Seq(BarInst)]
  /\ reached         \in [Warp -> Nat]
  /\ reduced         \in SUBSET Warp
  /\ issued          \in 0 .. MaxIssued

\* The barrier instruction that warp w issued last.
LastBar(w) == code[w][reached[w]]

\* How many barriers warp w has got past.
Passed(w) == IF w \in warp_at_barrier THEN reached[w] - 1 ELSE reached[w]

\* The warps of CTA slot c use no barrier but __syncthreads.
SyncthreadsOnly(c) ==
  \A w \in cta_to_warps[c] : \A i \in 1 .. Len(code[w]) :
    code[w][i].bar_type = "SYNC" /\ code[w][i].bar_count = ALL

(***************************************************************************)
(* __syncthreads is a barrier: the active warps of a CTA have all passed   *)
(* the same number of barriers, so none runs ahead of one that has not     *)
(* arrived, whatever order they issue, wait and exit in and whatever       *)
(* barriers the other CTAs of the core use (warp_reaches_barrier and       *)
(* warp_exit).                                                             *)
(***************************************************************************)
Lockstep ==
  \A c \in Cta : SyncthreadsOnly(c) =>
    \A v, w \in Active(c) : Passed(v) = Passed(w)

(***************************************************************************)
(* No lost wake-up: it never happens that all the active warps of a CTA    *)
(* stand at one barrier and nobody has released them; warp_exit has to     *)
(* repeat the test of warp_reaches_barrier for this.                       *)
(***************************************************************************)
NoLostWakeup ==
  \A c \in Cta, b \in Bar :
    Active(c) # {} => Registered(c, b) # Active(c)

(***************************************************************************)
(* The assertions of deallocate_barrier hold whenever a CTA is about to be *)
(* retired: none of its warps waits, is active, or is registered anywhere. *)
(***************************************************************************)
DeallocateAsserts ==
  \A c \in Cta : AllExited(c) =>
    /\ cta_to_warps[c] \cap (warp_at_barrier \cup warp_active) = {}
    /\ \A b \in Bar : Registered(c, b) = {}

(***************************************************************************)
(* A waiting warp that stays on the core is freed only by the release of   *)
(* the barrier it waits at, never by the release of another one            *)
(* (warp_reaches_barrier clears m_warp_at_barrier and m_bar_id_to_warps).  *)
(***************************************************************************)
ReleasesOwn ==
  \A w \in warp_at_barrier \ warp_at_barrier' :
    w \notin bar_id_to_warps'[LastBar(w).bar_id]

OwnBarrierReleases == [][ReleasesOwn]_vars

(***************************************************************************)
(* A warp whose bar.red has been released has received the reduction.      *)
(***************************************************************************)
ReducedWhenReleased ==
  \A w \in AllocatedWarps :
    (reached[w] > 0 /\ LastBar(w).bar_type = "RED" /\ w \notin warp_at_barrier)
      => w \in reduced

(***************************************************************************)
(* Every CTA that is issued is retired: barriers never leave its warps     *)
(* waiting for one another for ever.                                       *)
(***************************************************************************)
CtaRetires ==
  \A c \in Cta : cta_to_warps[c] # {} ~> cta_to_warps[c] = {}

===============================================================================
