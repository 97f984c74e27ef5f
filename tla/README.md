# TLA+ models of GPGPU-Sim

GPGPU-Sim is a cycle-level simulator of a GPU. Host programs are linked with its
own CUDA library; a simulation thread takes kernels from CUDA streams, gives
their thread blocks (CTAs) to simulated shader cores, executes warps of threads
in lock step, and simulates the caches and the memory behind them. This
directory specifies the parts of it whose correctness is a matter of *order*:
concurrent host threads, interleaved warps and pipeline stages, back-pressure in
rings of queues, out-of-order memory answers, and long sequences of legal operations.

Paths below are relative to the repository (`src/...` is its source directory).

## 1. Inventory of the system

| Component | Source | State it keeps | Operations | Hard behaviour | What makes it correct | Module |
|---|---|---|---|---|---|---|
| CUDA streams, events, simulation thread | `src/stream_manager.cc`, `src/gpgpusim_entrypoint.cc`, stream calls of `libcuda/cuda_runtime_api.cc` | queues of operations, pending flags, grid-to-stream map, event counters, `g_sim_active`/`g_sim_done`/`break_limit`, two mutexes, a semaphore | push, front, operation, record_next_done, register_finished_kernel, synchronize, destroy, exit | host threads and simulation thread share the queues; some reads take no lock; launches are retried; the thread stops and restarts | stream order, waits honoured, blocking calls return exactly when the work is over, nobody hangs | `StreamManager` |
| Dynamic parallelism | `src/cuda-sim/cuda_device_runtime.cc`, `kernel_info_t` | launch queue, parents and children, streams of CTAs | device launch, queueing of one kernel per cycle, child done | launches from the simulation thread; a parent ends through its last child | parents end after their children, launches are not lost | `StreamManager` |
| Kernel and CTA dispatch | `src/gpgpu-sim/gpu-sim.cc`, `shader.cc` (`issue_block2core`, `register_cta_thread_exit`) | kernel slots, per-kernel CTA counters, per-core resources, round-robin pointers | launch, select_kernel, issue_block2core, register_cta_thread_exit, set_kernel_done | kernels share slots and cores; CTAs end in any order on any core | no overlap or leak of resources, a kernel ends once and only when it is over, no starvation | `KernelDispatch` |
| CTA barriers | `shader.cc` (`barrier_set_t`) | warps per CTA, active warps, waiting warps, warps registered per named barrier | allocate, warp_reaches_barrier, warp_exit, deallocate | warps arrive, wait and exit in every order; CTAs share barrier names | barrier semantics, no lost wake-up, isolation of CTAs | `BarrierSet` |
| Scoreboard, warp pipeline | `scoreboard.cc`, `shader.cc` | reserved registers, instruction buffers, units, load/store queues, per-warp counters | fetch, decode, issue, writeback, memory_cycle, fill, warp exit | stages of many warps interleave; a slot is used again | registers held while in flight, counters exact, answers reach the warp that asked, every warp ends | `WarpPipeline` |
| Control-flow analysis | `src/cuda-sim/ptx_ir.cc` | basic blocks, (post)dominator sets | find_(post)dominators, find_i(post)dominators | fixed point over arbitrary graphs | exactly the nearest common block of all paths | `PostDominators` |
| SIMT stack | `src/abstract_hardware_model.cc`, thread side in `src/cuda-sim` | stack of (pc, mask, reconvergence pc), per-thread pc and call stack | launch, update | divergence, loops, calls, early exits | timing and functional model agree; threads reconverge | `SimtStack` |
| Data caches (L1D, L2) | `src/gpgpu-sim/gpu-cache.cc/.h`; driver in `l2cache.cc` | tag array, MSHR table, miss queue, outstanding fetches | access, cycle, fill, next_access, flush, invalidate | out-of-order answers, merged misses, four write-allocation policies, full resources | each request answered once, no lost write, no read of missing data, progress | `DataCache` |
| Memory partition | `l2cache.cc` | queues between interconnect, L2 and DRAM, credits, request tracker | push, cache_cycle, dram_cycle, set_done | back-pressure in a ring of queues; two sub-partitions share a channel | credits conserved, nothing lost or answered twice, no deadlock | `MemoryPartition` |
| DRAM and schedulers | `dram.cc`, `dram_sched.cc` | request queues, read/write mode, banks | push, cycle, schedule | reordering, mode switches | no request lost or left behind | `MemoryPartition` |
| Local interconnect | `local_interconnect.cc` | buffers per port, arbiter pointers | push, pop, advance | arbitration, back-pressure | packets delivered once and in order, nobody starves | `LocalInterconnect` |
| intersim2, PTX front end, instruction semantics, address hashing, read-only and texture caches, checkpoints, statistics, power model, OpenCL, tools | see `PROJECT.json` | | | vendored, or sequential translation, arithmetic or I/O | outside these models | |

Interaction: host threads call `stream_manager::push` and spin or block until
work is over; the simulation thread calls `stream_manager::operation`, which
calls `gpgpu_sim::launch`; `gpgpu_sim::cycle` runs cores, issues CTAs
(`issue_block2core`), moves packets through the interconnect and cycles the memory
partitions; a core reports the end of a CTA to the kernel
and the GPU (`register_cta_thread_exit` -> `set_kernel_done`); the stream manager
polls `finished_kernel`. Warps reach barriers and exit through
`barrier_set_t`; `updateSIMTStack` uses reconvergence points of the control-flow
analysis; the load/store unit and the L2 drive `data_cache`; a kernel that launches another
calls back into `stream_manager::push` at the end of a cycle.

`PROJECT.json` lists all components with their status, every modelled
definition with the lines it translates (`map`), and the hazards: the places where
something could go wrong that a test would hardly reach.

## 2. Modules

| Module | Models | Abstract specification / use |
|---|---|---|
| `StreamManager` | host threads, stream queues, simulation thread, device-side launches | implements `StreamOrder` |
| `StreamOrder` | what streams promise: each a FIFO of operations performed one at a time | |
| `KernelDispatch` | kernel slots, CTA issue, completion | |
| `BarrierSet` | CTA barriers of one core | |
| `BarrierSetProofs`, `StreamManagerProofs`, `KernelDispatchProofs`, `MemoryPartitionProofs`, `LocalInterconnectProofs`, `WarpPipelineProofs`, `DataCacheProofs` | theorems about the module of that name | |
| `Folding` | the selection from a sequence and the sum that the other modules use, as recursive functions | |
| `FoldingProofs` | lemmas about them, and induction over the natural numbers | |
| `WarpPipeline` | fetch to writeback, scoreboard, load/store unit of one core | |
| `ControlFlow` | basic blocks and edges, with reference definitions of (post)dominance by paths | used by the next three |
| `PostDominators` | the four analysis passes, one visit of a block per step | compared with the reference definitions |
| `SimtStack` | one warp: stack and threads | |
| `WarpReconvergence` | composition: analysis of every function, `pre_decode`, then the warp | `PostDominators` + `SimtStack` |
| `DataCache` | one set of a data cache with MSHRs and miss queue | |
| `MemoryPartition` | sub-partitions, arbitration, DRAM channel | |
| `LocalInterconnect` | the crossbar and the code at its ends | implements `FifoChannels` |
| `FifoChannels` | what a network promises: a FIFO channel for each pair of nodes | |
| `MC*` | instances for TLC | |

Definitions ending in `_Something` that precede a definition of the same stem
(`QueueEmpty_NotBusy`) are faulty variants, used to confirm that each property
can fail.

### StreamManager
A section under `m_lock` is one action; code that looks at queues without it
(`stream_manager::empty`) looks at one queue per action. `Push`, `Look`/`Drain`,
`SyncLock`/`SyncScan`, `AddStream`, `DestroyLock`/`Destroy`, `Exit` are the host
side; `DetectWork`, `Activate`, `Check`, `Operation`, `Cycle`, `LaunchOneDeviceKernel`, `Idle`,
`StopAll`/`StopOne`/`Stopped`, `TestActive`, `Deactivate`, `ThreadExit` are the simulation
thread, in the order of `gpgpu_sim_thread_concurrent`. `Check` takes one finished kernel off the
list (`check_finished_kernel`, which runs before `m_lock` is taken); `Operation` is
the section under `m_lock` of `stream_manager::operation`: it selects the next
operation (`front`), performs it (`do_operation`), and undoes the selection when a
kernel cannot start. When the limit is hit, `StopAll` takes the lock, `StopOne` ends one kernel after
the other as `check_finished_kernel` does, and `Stopped` lets go of it.

The GPU is reduced to kernel slots, the cycles each
kernel needs and memory traffic that outlives the last kernel. A workload is a
program of API calls per host and the configuration it runs under.

Device launches: a kernel names the streams in which its CTAs launch others. In any of its
`Cycle`s it may launch some of them, and must have launched all when it ends (`Launches`);
a launch records the child with its parent and queues it (`LaunchDeviceV2`), creating the CTA's stream
at first use; `LaunchOneDeviceKernel` pushes one of them per cycle. A parent
that has run out of work waits for `m_child_kernels` to be empty; then it is its
last child whose end takes it off its queue (`Over`, `notify_parent_finished`) and
destroys the streams of its CTAs (`Freed`). A launched kernel launches none: the nesting is one
deep.

### KernelDispatch
`Launch`, the walk `BeginIssue` - `IssueCta`/`SkipCore` -
`DecrementKernelLatency` (the end of `gpgpu_sim::cycle`), and the retirement of
warps `WarpExit`/`CtaExit` (the core phase of a cycle). Loop variables of the walk are
the variable `scan`; nothing interleaves with a walk, as in the code. Both
settings of `gpgpu_concurrent_kernel_sm` are modelled. Threads are counted in
warps; registers are accounted for like shared memory and left out.

### BarrierSet
`AllocateBarrier`, `WarpReachesBarrier`, `WarpExit`, `DeallocateBarrier` are the four
methods with their call sites. A warp is the sequence of barrier
instructions it will issue.

### WarpPipeline
One core with `NWarp` slots. `Launch` gives a free slot to the next program, `WarpExits` is
the end of a warp in `fetch` (with the tests of `hardware_done` and of the scoreboard), `Fetch`, `FetchReturns` and
`Decode` fill the instruction buffer; `Issue` is `issue_warp` with the scoreboard's collision test,
`ControlHazard` the flush of the buffer after a taken branch, `MembarDone` is `warp_waiting_at_mem_barrier`. `AluWriteback` is `writeback` of the core. `LdstIssue` and the disjuncts of `Ldst` are the load/store unit:
`SendPastL1`, `SendToL1Queue` and `AccessL1` (`memory_cycle`), `L1QueueCycle` (`L1_latency_queue_cycle`),
`NothingToSend`, `TakeResponse` (`ldst_unit::cycle`), `ServeClient` and `Writeback` (`ldst_unit::writeback`);
`MemoryAnswers` is the network and `fill`. The order in which stages take instructions is left open. The L1D is
reduced to hit, miss, merge and answer (`DataCache` has the rest). `gen` counts the warps of
a slot, so that a property can tell a warp from a later one in its place. A program is the path of a warp with its
loops unrolled: an instruction is an occurrence on that path, jumps go forward, and the last one is the exit
(`ScenariosAssumption`). What reads memory has a destination: `atom` always has, and `red` is not implemented
(`instructions.cc:7127`).

### ControlFlow, PostDominators
Functions are sequences of `alu`, `bra`, `call`, `ret`, `exit`.
`Dominates`/`PostDominates` are defined by paths (removing a block cuts
reachability) and are the reference for the sets the sweeps compute. An action is a visit of
a block (`VisitDom`, `VisitPostdom`) or one of the thinning passes.

### SimtStack, WarpReconvergence
`Issue` executes the instruction at the top of the stack for all active threads
with any outcome of the predicates (functional side: `NextPC`,
`NextCallstack`, `Exits`) and then does `Update` (timing side).
`WarpReconvergence` runs a program from its analysis to its end: `Analyse` each function,
`PreDecode` stores the reconvergence PC of each branch, taken from the sets the analysis has
left, `LaunchWarp`, and `Execute`. So a wrong sweep shows as threads that do not meet.

### DataCache
`Access` is `data_cache::access` for the request at the head of the queue, with
`Probe`, the four write-hit and four write-miss policies, `SendRead` and the
eviction of the victim; `Cycle` drains the miss queue; `Fill`, `NextAccess`,
`WriteDone` are the way back; `Invalidate` is flush and invalidate; `Arrive` brings the next
request. Two history variables say what is really in the cache:
`have` (bytes present) and `newest` (sectors whose last write is only here).
The order of drain, fill and access within a cycle is left open. Abstracted: one
set only; the port bandwidth; on-fill allocation and the texture cache.

### MemoryPartition
One action is one stage and moves one request (or packet) from a queue to the next:
`PushPacket` (`memory_sub_partition::push`, where a packet of several sectors is broken up and waits in `m_rop`,
a texture read goes straight on), the stages of `cache_cycle` for each sub-partition (`SubCycle`), `IssueToDram` with
the arbitration by credits, `DramPush`, `Schedule`/`SwitchMode` of FR-FCFS,
`BankCommands`, `DataDone`, `DramReturn`, `BackToSub` and `SetDone`, or `SimpleReturn` for the simple
DRAM model. Which stage moves when depends on latencies and timing constraints, so
any may. The L2 answers, misses, merges and writes back as it likes within what
`DataCache` allows.

### LocalInterconnect
`InjectRequest` (a core's `icnt_inject_request_packet`), `TakeRequest`, `SendReply` (the partition's end of
`gpgpu_sim::cycle`), `IcntCycle` (`simt_core_cluster::icnt_cycle`, with or without room for
the answer). `StartSweep`/`Transfer`, `AdvanceTurn` and `EndAdvance` are `xbar_router::Advance`, one packet
moved per step: the loop over inputs (`RR_Advance`) or over outputs and
requesters (`iSLIP_Advance`). Nothing else runs during a sweep.

## 3. Runs

Every run finishes within five minutes on two cores.

| Run | Bounds | Shows |
|---|---|---|
| `streams` | six workloads: 1 or 2 hosts, 3 streams and the NULL stream, one event, 1 or 2 kernel slots, kernels of up to 2 cycles, launch latency up to 1, a limit that may be hit at any time, launch blocking; kernels that launch one and two kernels | `KernelOwnsQueue` (assertions of `register_finished_kernel`); `InOrder` (refinement of `StreamOrder`); `BlockingReturn`; `ZeroStartsAlone`; `EventOrder`; `EveryoneEnds` |
| `stream_zero_race` | two hosts | `ZeroStartsAlone` violated, see section 6 |
| `dispatch` | 3 kernels (5, 1 and 1 CTAs of 1, 2 and 1 warps), 2 slots, 2 clusters of 2 cores with 4 warps, 2 CTA ids and 2 units of shared memory each, both sharing modes, with and without a CTA limit of 3, latencies 0 to 2 | `AssertsHold`, `Accounted` (with `ThreadsFit`), `FinishedIsOver`, `KernelsFinish` |
| `barriers` | 2 CTA slots, 5 warps, 2 barrier names, 4 CTAs in a row; `__syncthreads` with early exits, counted barriers, `bar.arrive`, `bar.red` | `TypeOK`, `Lockstep`, `NoLostWakeup`, `DeallocateAsserts`, `ReducedWhenReleased`, `OwnBarrierReleases`, `CtaRetires` |
| `barrier_arrive` | a warp that arrives at one barrier and waits at another | `OwnBarrierReleases` violated, see section 6 |
| `pipeline` | 2 warp slots, 2 registers, up to 3 warps in turn, units and queues of 1 or 2 places; loads of two accesses, stores, atomics, `ld.global.nc`, shared memory, a jump, a memory barrier; with and without L1D latency and `gmem_skip_L1D` | `CountersExact`, `RegistersHeld`, `OwnAnswers`, `WarpsExit` |
| `skip_nc` | two warps that read one line with `ld.global.nc` under `gmem_skip_L1D` | `MissesAwaited` violated, see section 6 |
| `simt` | warps of 3 threads; every terminating kernel of four instructions, and callers and callees with calls in branches and loops, nested and recursive, call depth 2 | `NearestDominators`, `InSync`, `Reconverged`, `WarpEnds` |
| `cache_policies` | 3 blocks, 1 sector, 2 ways, 2 MSHRs of 2 requests, miss queue of 3, 2 requests outstanding, five configurations, partial writes | `OneAnswer`, `EntryAwaited`, `CleanRetry`; where reserved sectors stay reserved until their fill also `DirtyCount`, `FillFindsItsLine`, `NoLostWrite` |
| `cache_progress` | 2 blocks of 2 sectors, 1 way, MSHRs of one request, fetches of two answers, atomics | `ReadableHasData`, `ReservedAwaited`, `Answered` |
| `memory` | 2 sub-partitions, 2 banks of 2 rows, queues of 1 or 2 places, 6 requests of all kinds, five configurations: L2 on or off, separate write queues, simple DRAM model | `CreditsConserved`, `Tracked`, `Drained` |
| `icnt` | 2 clusters with 2 requests each, one sub-partition, input buffers of 2 and output buffers of 1, both arbiters | `InOrder` (refinement of `FifoChannels`), `IslipFair`, `KeepsMoving` |

Why the bounds are enough to be interesting. `streams`: one slot makes launches retry;
two streams and NULL exercise the round robin and the block loop; the thread is
stopped and restarted several times; the parent's stream, the streams of its CTAs and the NULL stream
compete for the slot, and a parent may end before its children start or after they end. `dispatch`: seven CTAs on four
cores with the third kernel waiting for a slot, so slots, ids, threads and shared memory
are all contended, and a core is reused by another kernel. `barriers`: two CTAs
at the same barrier name at once, slots reused by later CTAs with other warps.
`pipeline`: with two registers and units of one place every structural and data hazard occurs; the third
program gets a slot whose last warp has just left. `simt`: four instructions give nested and overlapping branches,
loops with two exits and branches into loops; three threads give divergence inside a diverged
path. `cache_*`: more blocks than ways, fewer MSHRs than misses, a miss queue that is full; a
queue of 3 is the smallest that naive write-allocate can use (write, fetch and
write-back of one access). `DriftBound` in `cache_policies` cuts behaviours in which `m_dirty`
has drifted past every comparison made with it (see section 6). `memory`: with
queues of one place the ring of queues fills up completely and both sub-partitions
need shared credits. `icnt`: three packets compete for an output buffer of one.

Symmetry is used in `cache_policies` only: blocks,
sectors and requests are interchangeable there, and no liveness is checked.

Deadlock is checked in `icnt`, which never stops. Elsewhere the workload ends (host programs, kernels, warps,
requests), and what must not get stuck is stated as a liveness property.

## 4. Fairness

* `StreamManager`: the operating system runs every thread: strong fairness for the simulation
  thread and for each host thread. It has to be strong because a step that takes a mutex is
  enabled only now and then: the mutex is released again and again (the loop of `synchronize`
  does so in every round) and may be taken by somebody else each time. POSIX does not promise
  this of a mutex; it is an assumption. Which step of a thread is taken, so whether a
  limit is hit, is left free.
* `KernelDispatch`: the simulation loop cycles while the GPU is active, so
  the walk is weakly fair; a core with warps retires one at last (strongly fair,
  since it happens only between walks). That kernels' programs end is an assumption. No
  fairness for launches.
* `BarrierSet`: the schedulers visit every warp in every cycle: weak fairness for each warp and
  for the retirement of CTAs.
* `WarpReconvergence`: one sequential computation, weakly fair.
* `WarpPipeline`, `MemoryPartition`: one simulation thread cycles all stages. The workload is finite and
  every step carries an instruction or a request on, so weak fairness of the whole
  next-state relation is enough; no stage is promised its turn before another.
* `DataCache`: `cache_cycle` is called in every cycle, and memory answers every
  request: weak fairness of access, drain, hand-out, each fill and each write
  answer. No fairness for the arrival of requests or for flushes.
* `LocalInterconnect`: the clocks tick for ever: the sweep is weakly fair. Between two sweeps
  every cluster and every sub-partition gets its turn; as these actions are disabled
  during a sweep, they are strongly fair, and a core empties its response queue at
  last. Nobody has to send a request.

## 5. Proofs

Each theorem holds for all values of the constants that satisfy the module's
assumptions: any number of warps, kernels, clusters, hosts, streams or banks, any queue
sizes and any workload. Where a property needs more, the hypothesis is named in the theorem,
it holds of the workloads of the passing run (of `BarrierSet`: of some of its programs),
and a workload without it violates the property (section 6).

| Module | Theorem | States | Hypothesis |
|---|---|---|---|
| `BarrierSetProofs` | `TypeCorrect` | `[]TypeOK` | |
| | `SyncthreadsLockstep` | `[]Lockstep` | |
| | `ArriveFreeDeallocate`, `ArriveFreeReleases` | `[]DeallocateAsserts`, `OwnBarrierReleases` | `ArriveFree` programs |
| | `WholeCtaWakeup`, `WholeCtaReductions` | `[]NoLostWakeup`, `[]ReducedWhenReleased` | `SyncthreadsCode` or `UniformCode` programs |
| `StreamManagerProofs` | `QueuesCorrect` | `[]Queued`, the inductive invariant | `Untangled` |
| | `KernelsOwnQueues` | `[]KernelOwnsQueue` | `Untangled` |
| | `StreamsInOrder` | `InOrder`: `StreamManager` implements `StreamOrder` | `Untangled` |
| | `CallsReturnDrained` | `BlockingReturn` | `Untangled`, `TidyPrograms` |
| | `WaitsInOrder` | `EventOrder` | `Untangled`, `OneStreamEvents` |
| | `ZeroAlone` | `ZeroStartsAlone` | `Untangled`, `TidyPrograms`, `SoleUserOfZero` |
| `KernelDispatchProofs` | `DispatchBooks` | `[]Books`, the inductive invariant | |
| | `FinishedOnce`, `AssertionsHold` | `[]FinishedIsOver`, `[]AssertsHold` | |
| | `CtasAccounted` | `[]Accounted` | `SizesDivide` |
| `MemoryPartitionProofs` | `FlowCorrect` | `[]Flow`, the inductive invariant | |
| | `CreditsMatch`, `CreditsLimited` | `[]CreditsConserved`, and bounds for the credits | |
| | `RequestsTracked` | `[]Tracked` | |
| `LocalInterconnectProofs` | `TypeCorrect`, `RoutingCorrect` | ranges, and that packets are under way from their source to their destination | |
| | `CrossbarInOrder` | `InOrder`: `LocalInterconnect` implements `FifoChannels` | |
| `WarpPipelineProofs` | `PipelineInOrder` | `[]Pipe`, the inductive invariant | `NoSkippedNc` |
| | `CountersCorrect`, `RegistersCorrect`, `AnswersCorrect` | `[]CountersExact`, `[]RegistersHeld`, `[]OwnAnswers` | `NoSkippedNc` |
| `DataCacheProofs` | `CacheConsistent` | `[]Cached`, the inductive invariant | `KeptWritesAnswered` |
| | `AnsweredOnce`, `EntriesAwaited`, `RetriesClean` | `[]OneAnswer`, `[]EntryAwaited`, `CleanRetry` | `KeptWritesAnswered` |
| | `FillsFindLines` | `[]FillFindsItsLine` | `KeptWritesAnswered` |
| | `DirtyCounted` | `[]DirtyCount` | also `AtomicsNotEvicted` |
| | `WritesKept` | `[]NoLostWrite` | also `NoAtomics` |
| | `HitsHaveData` | `[]ReadableHasData` | `FillsAreKept` |
| | `ReservedFetched` | `[]ReservedAwaited` | `FillsAreKept`, `MaxMerged <= 1` |

### BarrierSet
What happens at the barriers of a CTA depends on its own program, although all CTAs of a core share
`m_bar_id_to_warps`. So the inductive invariant `BarrierInv` is `TypeOK`, `Placed` (CTAs have disjoint
warps, active warps belong to one, waiting warps are active) and a clause `CtaOK` for each CTA; a step
of one CTA leaves the others `Untouched`, and one lemma (`UntouchedOK`) serves them all. `Lockstep` is not
inductive: that a release frees *all* active warps of the CTA, and no other, needs `Parked`: a
warp is registered at the barrier it waits at, the one it issued last, and nowhere else. `Parked` holds of a
CTA without `bar.arrive`. A barrier for the whole CTA (`WholeCta`) is `__syncthreads`, or a counted
one that all the warps run alike; that the latter is complete only when all active warps are there is
a matter of cardinalities and needs `Together`, no warp exits before all are past their last barrier. Then all
active warps have passed equally many barriers (`Even`) and no complete barrier is left (`Wakes`). The case
that needs `Wakes` itself is an exit: the warps that remain may all stand at one barrier
already, and `warp_exit` must release it. It does so without broadcasting a
reduction, so `Reduces` needs `Together` again. `Loaded` says that the warps run the code of one
program, which carries a hypothesis about programs over to the CTAs. A CTA with `bar.arrive`
refutes `OwnBarrierReleases`, and a warp that exits before a `bar.red` refutes `ReducedWhenReleased`
(sections 6 and 7, `Kind = "red"`), so the hypotheses are needed.

### StreamManager
`KernelOwnsQueue` speaks of kernels on the GPU; to keep it, one must know that no other step
takes the front of that queue or the entry of `m_grid_id_to_stream` away. `Queued` adds what that
rests on: a kernel is in one queue at one place (`Unique`), because it is queued by a host that
has not got past its call, or has been launched by its parent and no longer waits (`OpsOK`, `PushOK`,
`WaitOK`); it ends once (`Apart`); and a parent is registered by its last child while its
own uid is on no list (`OneAtATime`). The last is the reason for `Untangled`: kernels launch no
others, or the GPU has a single slot. Otherwise parent and child can end in
the same cycle, and the uid of the parent is met when the parent is complete
(`NestedSlots`, section 6). `StreamsInOrder` follows from the same invariant: every action is a `Submit`,
`Perform`, `Launch` or `Complete` of `StreamOrder` or leaves its variables alone. It needs the invariant
at `Check`, where the completion of kernels must find their queues busy and not empty.

`CallsReturnDrained` is about a host that walks over the queues without `m_lock` while the
simulation thread takes operations out and other hosts put some in. Its invariant `Walked` says that what hosts have
submitted lies in queues that `empty()` looks at, on the list and not a CTA's (`UsableOK`), and
that during a walk each operation of the walking host is in a queue still to be seen (`SeenOK`): the host
submits nothing meanwhile, and a queue that it has passed was empty. A kernel
launched by the device need not be on the list; it is covered by its parent, which stays queued until the
child is over (`ChildrenOK`). That a stream stays on the list between the host's calls is a
matter of programs, `TidyPrograms`: a host submits only to streams that it has created and that nobody
destroys before; a wait in every stream goes with no other host destroying streams and no
launches from the device; hosts do not use streams of CTAs. Every workload of `streams` meets it.

`WaitsInOrder` is about `m_issued`, `m_updates` and `m_cnt`: `cudaEventRecord` counts the event up before it
queues the record, so a wait may count records that are in no queue yet, of other hosts too.
The invariant `EventsOK` numbers the queued records of an event by what `m_updates` will be when they
are reached (`RanksOK`: such numbers exist, above `m_updates` and increasing along the queue).
With one more for each host between `issue()` and its push they stay within
`m_issued` (`CountedOK`), so the number a wait captures is at least that of every record its host
made before (`WaitsOK`), and a wait that is satisfied has none of them in the queues. The numbers increase because the
records of an event are in one queue (`OneStreamEvents`: launch blocking, or programs that
record an event in one stream only), as in every workload of `streams`.

`ZeroAlone` is about the block loop of `push`. A host that has left it for stream zero finds the
other streams empty, and they stay so while it queues its operation and waits for the queues to drain
(`AloneOK`), because it is the only host that submits (`SoleUserOfZero`; with launch blocking everything
is in stream zero, and several hosts may submit). A launch from the device can be in another stream
even then; but its parent is not over and keeps its own queue busy, and that queue is stream zero
(`ZeroServed`). The invariant takes `Walked` from `CallsReturnDrained`: the host leaves `push`
only when its operation is complete. `stream_zero_race` is a workload without `SoleUserOfZero`.

### KernelDispatch
`Books` says of a kernel in a slot that it is launched and not over, and of a finished one that it left
its slot (`SlotsOK`); which kernel is the one selected last (`SelectedOK`); of a core which kernel it is bound
to, and that its CTAs are of that kernel (`BoundOK`); where a CTA's threads start (`PlacedOK`) and that CTAs
share none (`ThreadsApart`); that the occupancy of a core is the sum over its CTAs (`OccupiedOK`) and
that of a kernel the number of its CTAs, which keep it in its slot (`RunningOK`). `AssertsHold` and `FinishedIsOver`
follow in every state. `Accounted` also says that the threads of a CTA exist. With kernels sharing a core
this needs `SizesDivide`, the sizes of CTAs divide the threads of a core, because `find_available_hwtid`
does not look at the end of a range (section 6, `MixedSizes`).

### MemoryPartition
`CreditsConserved` is not inductive: a request that leaves the DRAM returns a
credit of the sub-partition of its address, so `Flow` adds that every request in a queue belongs to
the sub-partition that owns the queue. The property counts the requests in the DRAM per
sub-partition; the queues are sequences, and the count is `Len(Only(q, S))` summed over banks and
modes with `SumOf`. `CreditsLimited` is the purpose of the scheme: the shared pool stays between zero
and its limit.

`Tracked` says where requests are but not how often, and a request that is in two queues
would leave the tracker with the first of them. `TrackInv` follows each request as a token (`Token`): it is
counted in every queue (`At`), and the queues are grouped into those of the sub-partition (`Near`) and those on the
way to and from the DRAM (`Away`). Without L2 cache a request is once in one of the two. With it,
a request that goes to the DRAM waits for itself in the cache, so it is once near or waiting
(`Placed`), and what is away is the first request of an entry (`Fetching`), once, which is why a fill finds
its entry and why the same request is not also passed on to the interconnect. A write-back of the L2 is
in no place that the tracker knows and never comes back (`Outside`). Most stages move a
request within a group and change no number (`SideKept`); the others are a lemma each. The invariant rests on
`DistinctAssumption`: the requests that arrive are objects of their own, and the L2 alone
creates its write-backs. TLC checked `TrackInv` on the instance of `memory` before it was proved.

### LocalInterconnect
A channel of `FifoChannels` is the output buffer followed by the input buffer, each
restricted to packets from one source to one destination. A transfer moves the head of an input buffer
to the end of an output buffer; that this does not reorder the channel needs `RoutingCorrect`
(the packets of a channel use one input buffer and one output buffer).

### WarpPipeline
None of the three properties is inductive, and they depend on each other: a counter is exact after an
answer only if that access was counted once, a register may be released only if no other
access of the load is anywhere in the core, and an answer belongs to the warp in the slot only because the
exit of a warp waits for counters and registers. `Pipe` is one invariant with three parts. `Front`: a warp that fetches
has an empty buffer and goes on where the fetch points. `Flow`: an access that is not
answered is in exactly one place (`held`, `OnceOK`), and each MSHR entry has one fetch under way for
its line, sent by its first access (`FetchesOK`). `Back`: what is in flight belongs to the
warp of the slot and lies before its `pc` (`CurrentOK`), accesses still to be sent have
smaller numbers than those sent (`StagesOK`), and counters, `m_pending_writes` and scoreboard count what is in
flight (`Books`). `Moved`, `CameOne`, `GoneOne` say how the set of held accesses changes when one
access changes its place; a lemma per step of the load/store unit shows `Flow` and this change, a second one
shows `Back` from the change alone. `Released` is the heart of the scoreboard: a register is free
exactly when the last access to write it has gone.

`NoSkippedNc`: no `ld.global.nc` runs under `gmem_skip_L1D`. Otherwise its answer leaves the MSHR entry behind, and the
workload of `skip_nc` violates `RegistersHeld` and `OwnAnswers` as well as `MissesAwaited`.

### DataCache
The policies differ in what they do with tags and data; for requests, the MSHR table and the miss
queue only four things can happen to an access that is taken: the cache keeps it and answers at once (`Keeps`), it
is sent down as a write (`Sends`), it waits for a fetch (`Fetches`), or both (`SendsAndFetches`).
`AccessTaken` shows that every hit and miss under every policy is one of these four, within the room that was
tested for; all other lemmas speak of the four shapes. The invariant `Cached` has `TagsOK` and `MissesOK` (shapes;
a way with a valid sector has a block for its tag; a fetch fills an existing line), `IdsOK` (a request
outstanding has exactly one debtor: one position in one MSHR entry, or one write in the miss queue or
in the memory, and a request that is not outstanding has none) and `EntriesOK` (each
MSHR entry has one fetch in `fields`, whose request is in the miss queue or below, or one
position in `response`). `OneAnswer` and `EntryAwaited` state the same with cardinalities; that `IdsOK` implies
the sum of three is one is `OnceCounts`. In `WriteMissNaive` the case that the write is queued and the
fetch then finds no room is impossible, since the room for both and a write-back is tested first; `RetriesClean` rests on it.

`KeptWritesAnswered`: fetch-on-write comes with write-back, lazy fetch-on-read with write-back or
write-through. All configurations in `configs/tested-cfgs` and all of the runs are like that. Under, say,
write-through and fetch-on-write a write of a whole sector that misses is neither sent down nor answered, since
`cache_cycle` (`l2cache.cc:1205`) replies to a write that stays in the cache only under write-back.

The theorems about the data speak of the policies under which a reserved sector stays reserved until its fill
(`ReservedUntilFill`). There every action, seen from lines, data, `m_dirty` and fetches, is one of four steps
(`Step`, shown by `NextStep`): nothing changes, one sector of a line in use changes (`SomeSector`), a line is replaced by one with
a single reserved sector (`SomeWay`), or a flush clears the modified lines (`Clears`). Each invariant is shown over
these four, and each action only once. `Targeted` (a block is in one line only, the flags that combine writes with fills are
not used, the sector of a fetch is reserved) keeps itself, because a line with a reserved sector is never the victim; `DataHere` follows
the data; `DirtyRight` needs that no line is modified to which writes go past the cache, since `wr_hit_we` invalidates without
touching `m_dirty`; `NewestKept` puts every write not yet below into a modified sector, and under write-through says that there is none.

`AtomicsNotEvicted`: atomics come only to a write-back or write-through cache. The L1D takes none, and every L2 in `configs/`
is write-back. `NoAtomics`: an atomic that joins an MSHR entry whose line is gone is performed on no line (section 6).
`FillsAreKept` says of every configuration what `ReservedUntilFill` says of the one chosen, since `ReadableHasData` and
`ReservedAwaited` are stated without it. `ReservedFetched` has MSHR entries of one request, as its run has, for the same
reason as `NoAtomics`.

### Assumptions, and what is left to TLC
The selection from a sequence and the sum over the banks are recursive functions in `Folding`;
`FoldingProofs` proves the facts about them from an induction principle
over sets of natural numbers (`SetInduction`), since the library's induction
theorems cannot be used here. The community operators `SelectSeq` and `SumFunction` have no such facts.

Only model-checked:

* every liveness property, since fairness and `ENABLED` are out of the prover's reach;
* of `BarrierSet`, CTAs that mix `bar.arrive`, counted barriers of a part of the CTA and `__syncthreads`;
* `NoLostWrite` of `DataCache` with atomics, and its invariants about data under fetch-on-write and lazy
  fetch-on-read, where the code loses writes and lines (section 6);
* what the post-dominator sweeps compute, and with it `WarpReconvergence`: it needs induction over graphs.

## 6. Where the code disagrees with its documentation

Each of these is a run that TLC refutes, with a finding in `PROJECT.json`.

* `barrier_arrive`: a warp registered by `bar.arrive` at barrier 1 that waits in
  `__syncthreads` is freed when barrier 1 completes (`shader.cc:5784`).
* `stream_zero_race`: `push` checks that the other streams are empty and queues the operation
  of stream zero in two critical sections (`stream_manager.cc:1122`).
* `skip_nc`: under `gmem_skip_L1D` a `ld.global.nc` still goes through the L1D, as
  `configs/tested-cfgs/SM6_TITANX/gpgpusim.config:139` has it, but its answer is taken past the cache
  (`shader.cc:4422`): the MSHR entry waits for ever, and so does a warp that joins it.

Met while modelling, outside the passing runs. The models contain the behaviour; the runs
avoid it with the configuration named, and changing that reproduces it:

Streams and device launches (`Workloads <- ...` in `streams.cfg`)
* Parent and child that end in the same cycle: the child's end finishes the parent, which is
  still on the list of finished kernels; taking it from there finds no stream
  (`stream_manager.cc:685`). `NestedSlots`, `KernelOwnsQueue`.
* `stop_all_running_kernels` holds `m_lock` when the end of a last child destroys the
  streams of its parent's CTAs, and `destroy_stream` takes `m_lock` again: the simulation thread hangs
  (`stream_manager.cc:759`). `NestedLimit` with `PROPERTY EveryoneEnds`, `CONSTRAINT KernelOwnsQueue` and no invariant.
* With `CUDA_LAUNCH_BLOCKING` the simulation thread waits in `push` for queues that only it can
  empty (`cuda_device_runtime.cc:454`). `NestedBlocking`, `EveryoneEnds`.
* `empty()` walks the list of streams without the lock while another thread may destroy
  one; the model looks at the queues of the streams there were.
* One event recorded in two streams satisfies a wait too early (`stream_manager.cc:483`): after two kernels and
  a record in `s1`, a record in `s2` and a wait in `s3`, another record in `s2` (`EventOrder`). `Events`
  records in one stream.
* A host that destroys a stream of another host takes it from the list that `empty()` walks, and a
  `cudaDeviceSynchronize` returns while the stream has work (`BlockingReturn`); in `streams` hosts destroy their own.
* `cudaStreamSynchronize` returns at once (`cuda_runtime_api.cc:3154`); `BlockingReturn` does not
  count it.

Cores
* `bar.red` released by the exit of the last missing warp delivers no reduction
  (`shader.cc:5826`; `Kind = "red"` in `barriers.cfg`); a counted barrier of the whole CTA
  hangs after an early exit (`shader.cc:5780`).
* `find_available_hwtid` checks the start of a range of threads and not its
  end (`gpu-sim.cc:2511`; `Workloads <- MixedSizes` and `CoresPerCluster = 1` in `dispatch`, `Accounted`).
* After the CTA limit is hit a core may stay bound to a kernel that was deleted
  (`shader.cc:7017`); it is never dereferenced, because `kernel_more_cta_left` tests the limit first.
  `FinishedIsOver` states exactly this.
* A build without assertions records no occupancy, because the call stands inside one (`gpu-sim.cc:2727`).
* A memory barrier holds a warp until its registers are released; stores hold none, so it
  does not wait for their acknowledgement (`shader.cc:5960`, comment at 5967; `Scenarios <- FenceOnly` in `pipeline`,
  `PROPERTY MembarWaitsForStores`).
* When both arms of a branch in a called function return, the CALL entry stays on the stack,
  and threads and stack go apart (`abstract_hardware_model.cc:2257`; `Programs <- TwoReturns` in `simt`,
  `InSync` and `Reconverged`). `exit` in a called function leaves threads in the masks below
  (`abstract_hardware_model.cc:2152`); callees here do not exit.
* `find_idominators` asserts that every block but the entry has an immediate dominator, and
  fails when the entry is the target of a branch
  (`ptx_ir.cc:1687`); the model goes on, as a build without assertions does.

Caches
* Under lazy fetch-on-read a write to a reserved sector unprotects the line;
  the fill then hits the sector of another block (`gpu-cache.cc:3426`; `LazyConfig` in `cache_progress`,
  `ReadableHasData`).
* A miss that joins an MSHR entry which is being handed out reserves a line for good
  (`gpu-cache.cc:2745`; `MaxMerged = 2` in `cache_progress`); under fetch-on-write a write can be lost and `m_dirty`
  drifts (`gpu-cache.cc:3225`, `955`); a memory barrier invalidates reserved lines (`shader.cc:5969`), and so does a
  flush of a line with a modified and a reserved sector; `is_read_after_write_pending` never
  holds (`gpu-cache.cc:1300`). This is why `DirtyCount`, `FillFindsItsLine` and `NoLostWrite`
  carry the hypothesis `ReservedUntilFill`.
* An L1D with fetch-on-write never acknowledges a store that writes part of a sector, because what comes back is
  the answer to the fetch; `pipeline` has no such L1D.

Memory and interconnect
* With separate write queues and a low watermark of zero the DRAM never leaves the write mode, since
  no number of writes is below zero, although zero is documented as a legal value and the mode as left
  *at* the watermark (`dram_sched.cc:257`, `gpu-sim.h:1235`; `Low = 0` and `Configs <- SplitQueues` in
  `memory`, `Drained`). Writes that stay below the high watermark are never served (`dram_sched.cc:250`);
  with an L2 cache these are write-backs that nobody waits for, without one the stores behind them are not
  acknowledged, so `memory` uses separate write queues only with the L2 on.
* FR-FCFS serves the open row as long as it has requests: an endless stream of them starves the others
  (`dram_sched.cc:301`). The workloads of `memory` are finite.
* iSLIP with grants held over several cycles starves an input (`local_interconnect.cc:427`;
  `Arbiters <- HeldGrants` in `icnt`, `PROPERTY NoStarvation`), and so does the naive round robin when its
  turns and the arrivals are in step; `IslipFair` is stated for iSLIP with a grant per cycle.
* With `-icnt_subnets 1` `LocalInterconnect::Pop` reads `net[1]`, which does not exist.

## 7. Not modelled

See the components with status `not_modelled` in `PROJECT.json`: parsing,
instruction arithmetic, address hashing, statistics, power and tools have no protocol to check;
intersim2 is a vendored network simulator. They are also most of the
repository's lines: the models cover the control of the simulator's core, which is a small part of
it.

Within modelled components: SST mode, functional simulation and the sequential OpenCL thread; launches by
launched kernels; checkpoint and resume; BREAK instructions; the texture, constant and read-only caches and on-fill
allocation; the order in which the warp schedulers and the operand collector choose; the FIFO scheduler of the
DRAM and its timing constraints (any of them may delay a bank); builds without assertions.

## 8. Plan

1. Done: `BarrierSet` with proofs; `StreamManager` with `StreamOrder` and device launches; `ControlFlow`,
   `PostDominators`, `SimtStack` and their composition; `DataCache`; `KernelDispatch`; `WarpPipeline`;
   `MemoryPartition`; `LocalInterconnect` with `FifoChannels`.
2. Done: the theorems of section 5.
3. Theorems next: the masks of `SimtStack` (`InSync`) from an induction over the control-flow graph.
4. Models after that: read-only and texture caches as configurations of `DataCache`; the cache
   as a memory (a read returns the last write), once fetches carry versions; `KernelDispatch` as a
   bag of CTAs, each started and ended once; `WarpPipeline` joined to `BarrierSet` at `waiting`.
