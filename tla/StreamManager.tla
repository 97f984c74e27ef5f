----------------------------- MODULE StreamManager -----------------------------
(***************************************************************************)
(* The runtime of the simulator: host threads that call the CUDA API, the  *)
(* queues of stream_manager and CUstream_st (stream_manager.cc/.h), and    *)
(* the simulation thread gpgpu_sim_thread_concurrent that drains them      *)
(* (gpgpusim_entrypoint.cc).  The simulated GPU is reduced to the slots    *)
(* for running kernels, the cycles each kernel still needs and the list of *)
(* finished kernels (gpu-sim.cc).  A kernel may launch others from the     *)
(* device (cuda_device_runtime.cc): the simulation thread queues them, and *)
(* their parent is over when they are.                                     *)
(*                                                                         *)
(* A section of code under m_lock is one action; code that reads the       *)
(* queues without m_lock (stream_manager::empty) looks at one queue per    *)
(* action.                                                                 *)
(***************************************************************************)
EXTENDS Integers, Sequences, FiniteSets, Folding

CONSTANTS
  Host,            \* host threads
  Stream,          \* streams the hosts may create
  ZERO,            \* m_stream_zero (and m_last_stream when it is end())
  Event,           \* CUDA events
  Workloads,       \* the workloads explored
  MaxCycles,       \* bound of the model: cycles a kernel runs
  FREE             \* nobody holds the lock

Queue == Stream \cup {ZERO}

\* The operation types of stream_operation; all memcpy types behave alike.
OpKind == {"kernel", "memcpy", "event", "wait_event"}

\* A kernel also names the streams of its CTAs in which it launches others.
Call == [call     : OpKind \cup {"stream_sync", "device_sync", "create", "destroy", "exit"},
         stream   : Queue,
         event    : Event,
         children : Seq(Stream)]

\* A workload and the configuration it runs under.
Workload ==
  [program : [Host -> Seq(Call)],  \* for each host, the API calls it makes in order
   slots : Nat \ {0},              \* max_concurrent_kernel: slots of m_running_kernels
   latency : Nat,                  \* bound of the model: m_launch_latency of a kernel
   blocking : BOOLEAN,             \* m_cuda_launch_blocking
   limited : BOOLEAN]              \* a maximum cycle, instruction or CTA count is configured

\* An operation is named by the call that made it: a kernel's name is its uid.  The
\* n-th kernel launched by kernel k is <<k, n>>; bound of the model: it launches none.
OpId == LET host == Host \X (Nat \ {0}) IN host \cup host \X (Nat \ {0})

Op == [id : OpId, kind : OpKind, event : Event, cnt : Nat]

ASSUME RuntimeAssumption ==
  /\ Workloads \subseteq Workload
  /\ MaxCycles \in Nat \ {0}
  /\ ZERO \notin Stream
  /\ FREE \notin Host
  /\ Host \cap (Host \X (Nat \ {0})) = {}

VARIABLES
  load,                 \* the workload, fixed
  m_streams,            \* the streams in the order they were added
  m_last_stream,        \* where front() stopped last
  m_operations,         \* CUstream_st::m_operations of every queue
  m_pending,            \* CUstream_st::m_pending of every queue
  m_grid_id_to_stream,  \* the queue of each kernel front() has selected
  lock,                 \* who holds m_lock across several steps, a host or SIM
  issued,               \* CUevent_st::m_issued
  updates,              \* CUevent_st::m_updates
  running,              \* m_running_kernels
  finished,             \* m_finished_kernel
  left,                 \* cycles each kernel still needs
  latency,              \* m_launch_latency of each kernel
  traffic,              \* memory or interconnect busy after the last kernel
  max_hit,              \* cycle_insn_cta_max_hit()
  launched,             \* the kernels that have been launched by kernels
  m_child_kernels,      \* of each kernel, those of them that are not over
  g_cuda_device_launch_op,   \* those of them that are in no queue yet
  g_sim_active, g_sim_done, break_limit,
  g_sim_lock,           \* the host that holds g_sim_lock across several steps
  g_sim_signal_exit,    \* the semaphore exit_simulation waits for
  sim,                  \* where the simulation thread is
  checked,              \* result of check_finished_kernel in operation()
  at,                   \* where each host is in its current call
  calls,                \* API calls each host has completed
  cnt,                  \* m_cnt of the wait_event each host is pushing
  targets,              \* the queues the current call still has to push to
  unseen                \* the queues empty() has not looked at yet

queues == <<m_streams, m_last_stream, m_operations, m_pending, m_grid_id_to_stream>>
events == <<issued, updates>>
device == <<launched, m_child_kernels, g_cuda_device_launch_op>>
gpu    == <<running, finished, left, latency, traffic, max_hit, device>>
flags  == <<g_sim_active, g_sim_done, break_limit, g_sim_lock, g_sim_signal_exit>>
thread == <<sim, checked>>
hosts  == <<at, calls, cnt, targets, unseen>>
vars   == <<load, queues, lock, events, gpu, flags, thread, hosts>>

-------------------------------------------------------------------------------
Program == load.program

SIM == "sim"    \* the simulation thread as the holder of m_lock

HostKernel == {k \in UNION {{h} \X DOMAIN Program[h] : h \in Host} :
                 Program[k[1]][k[2]].call = "kernel"}

CtaStreams(k) == Program[k[1]][k[2]].children

DeviceKernel == UNION {{k} \X DOMAIN CtaStreams(k) : k \in HostKernel}

Parent(c) == c[1]
StreamOf(c) == CtaStreams(Parent(c))[c[2]]

Kernel == HostKernel \cup DeviceKernel

\* The sequences of all the elements of S.
Orders(S) ==
  {o \in [1 .. Cardinality(S) -> S] : \A x \in S : \E i \in DOMAIN o : o[i] = x}

\* gpgpu_sim::active.
GpuActive == ~max_hit /\ (running # {} \/ traffic)

QueueEmpty_NotBusy(q) == ~m_pending[q]

\* CUstream_st::empty.
QueueEmpty(q) == m_operations[q] = << >>

\* concurrent_streams_empty.
ConcurrentStreamsEmpty ==
  \A i \in 1 .. Len(m_streams) : m_operations[m_streams[i]] = << >>

\* empty_protected: the queues at one instant, under m_lock.
AllEmpty == ConcurrentStreamsEmpty /\ m_operations[ZERO] = << >>

\* A context has just been created: start_sim_thread has cleared g_sim_done and
\* started the thread.  Kernels need any number of cycles up to the bounds.
Init ==
  /\ load \in Workloads
  /\ m_streams = << >> /\ m_last_stream = ZERO
  /\ m_operations = [q \in Queue |-> << >>]
  /\ m_pending    = [q \in Queue |-> FALSE]
  /\ m_grid_id_to_stream = [k \in {} |-> ZERO]
  /\ lock = FREE
  /\ issued = [e \in Event |-> 0] /\ updates = [e \in Event |-> 0]
  /\ running = {} /\ finished = << >>
  /\ left    \in [Kernel -> 1 .. MaxCycles]
  /\ latency \in [Kernel -> 0 .. load.latency]
  /\ traffic = FALSE /\ max_hit = FALSE
  /\ launched = {} /\ m_child_kernels = [k \in Kernel |-> {}]
  /\ g_cuda_device_launch_op = << >>
  /\ g_sim_active = FALSE /\ g_sim_done = FALSE /\ break_limit = FALSE
  /\ g_sim_lock = FREE /\ g_sim_signal_exit = 0
  /\ sim = "spin" /\ checked = FALSE
  /\ at = [h \in Host |-> "call"] /\ calls = [h \in Host |-> 0]
  /\ cnt = [h \in Host |-> 0]
  /\ targets = [h \in Host |-> << >>] /\ unseen = [h \in Host |-> << >>]

-------------------------------------------------------------------------------
(***************************************************************************)
(* Host threads: libcuda's API calls and the functions they reach.         *)
(***************************************************************************)
CurrentCall(h) == Program[h][calls[h] + 1]

\* Host h is about to make API call `name`.
Calls(h, name) ==
  at[h] = "call" /\ calls[h] < Len(Program[h]) /\ CurrentCall(h).call = name

\* Does this push go to stream zero and wait for it?
Blocking(q) == q = ZERO \/ load.blocking

Return(h) ==
  /\ at' = [at EXCEPT ![h] = "call"]
  /\ calls' = [calls EXCEPT ![h] = @ + 1]

(***************************************************************************)
(* A call that pushes operations: cudaLaunch, cudaMemcpyAsync,             *)
(* cudaEventRecord (which first calls issue()) and cudaStreamWaitEvent,    *)
(* which captures num_issued() in m_cnt, does nothing for an event that    *)
(* was never recorded, and for the NULL stream pushes to every stream.     *)
(***************************************************************************)
BeginPush(h) ==
  LET c == CurrentCall(h)
      e == c.event
      qs == IF c.call = "wait_event" /\ c.stream = ZERO THEN m_streams
                                                        ELSE <<c.stream>>
  IN
  /\ \E k \in OpKind : Calls(h, k)
  /\ issued' = IF c.call = "event" THEN [issued EXCEPT ![e] = @ + 1] ELSE issued
  /\ cnt' = [cnt EXCEPT ![h] = issued[e]]
  /\ IF qs = << >> \/ (c.call = "wait_event" /\ issued[e] = 0)
       THEN Return(h) /\ UNCHANGED targets
       ELSE /\ at' = [at EXCEPT ![h] = IF Blocking(Head(qs)) THEN "block" ELSE "push"]
            /\ targets' = [targets EXCEPT ![h] = qs]
            /\ UNCHANGED calls
  /\ UNCHANGED <<queues, lock, updates, gpu, flags, thread, unseen>>

PushBlocked_NoWait(h) ==
  /\ at[h] = "block" /\ lock = FREE
  /\ at' = [at EXCEPT ![h] = "push"]
  /\ UNCHANGED <<queues, lock, events, gpu, flags, thread, calls, cnt, targets, unseen>>

\* push to stream zero: spin until the other streams are empty.
PushBlocked(h) ==
  /\ at[h] = "block" /\ lock = FREE
  /\ ConcurrentStreamsEmpty
  /\ at' = [at EXCEPT ![h] = "push"]
  /\ UNCHANGED <<queues, lock, events, gpu, flags, thread, calls, cnt, targets, unseen>>

\* The push of the first target is over: take the next one, or return.
NextTarget(h) ==
  /\ targets' = [targets EXCEPT ![h] = Tail(@)]
  /\ IF Len(targets[h]) = 1
       THEN Return(h)
       ELSE /\ at' = [at EXCEPT ![h] = IF load.blocking THEN "block" ELSE "push"]
            /\ UNCHANGED calls

NewOp(h) ==
  [id |-> <<h, calls[h] + 1>>, kind |-> CurrentCall(h).call,
   event |-> CurrentCall(h).event, cnt |-> cnt[h]]

\* push, second critical section: queue the operation, unless the simulation
\* has hit its limit.  A blocking push then waits until every queue is empty.
Push(h) ==
  LET q == IF load.blocking THEN ZERO ELSE Head(targets[h]) IN
  /\ at[h] = "push" /\ lock = FREE
  /\ m_operations' = IF max_hit THEN m_operations
                     ELSE [m_operations EXCEPT ![q] = Append(@, NewOp(h))]
  /\ IF Blocking(q)
       THEN /\ at' = [at EXCEPT ![h] = "drain"]
            /\ unseen' = [unseen EXCEPT ![h] = Append(m_streams, ZERO)]
            /\ UNCHANGED <<calls, targets>>
       ELSE NextTarget(h) /\ UNCHANGED unseen
  /\ UNCHANGED <<m_streams, m_last_stream, m_pending, m_grid_id_to_stream, lock,
                 events, gpu, flags, thread, cnt>>

\* empty() looks at one more queue, without m_lock; a queue in use makes it
\* start again.
Look(h) ==
  unseen' = [unseen EXCEPT ![h] =
               IF QueueEmpty(Head(@)) THEN Tail(@)
                                      ELSE Append(m_streams, ZERO)]

\* push, `while (!empty()) usleep`.
Drain(h) ==
  /\ at[h] = "drain"
  /\ IF unseen[h] # << >>
       THEN Look(h) /\ UNCHANGED <<at, calls, targets>>
       ELSE NextTarget(h) /\ UNCHANGED unseen
  /\ UNCHANGED <<queues, lock, events, gpu, flags, thread, cnt>>

\* cudaDeviceSynchronize, and cudaStreamSynchronize of the NULL stream.
BeginSync(h) ==
  /\ \/ Calls(h, "device_sync")
     \/ Calls(h, "stream_sync") /\ CurrentCall(h).stream = ZERO
  /\ lock = FREE
  /\ at' = [at EXCEPT ![h] = "sync"]
  /\ UNCHANGED <<queues, lock, events, gpu, flags, thread, calls, cnt, targets, unseen>>

\* cudaStreamSynchronize of any other stream returns before the line that waits.
StreamSync(h) ==
  /\ Calls(h, "stream_sync") /\ CurrentCall(h).stream # ZERO
  /\ Return(h)
  /\ UNCHANGED <<queues, lock, events, gpu, flags, thread, cnt, targets, unseen>>

\* gpgpu_context::synchronize: one round of the loop takes g_sim_lock, ...
SyncLock(h) ==
  /\ at[h] = "sync" /\ g_sim_lock = FREE
  /\ g_sim_lock' = h
  /\ unseen' = [unseen EXCEPT ![h] = Append(m_streams, ZERO)]
  /\ at' = [at EXCEPT ![h] = "sync_scan"]
  /\ UNCHANGED <<queues, lock, events, gpu, g_sim_active, g_sim_done,
                 break_limit, g_sim_signal_exit, thread, calls, cnt, targets>>

\* ... looks at the queues and then at the flags, and releases the lock.
SyncScan(h) ==
  /\ at[h] = "sync_scan"
  /\ IF unseen[h] # << >> /\ QueueEmpty(Head(unseen[h]))
       THEN Look(h) /\ UNCHANGED <<at, calls, g_sim_lock>>
       ELSE /\ g_sim_lock' = FREE /\ UNCHANGED unseen
            /\ IF (unseen[h] = << >> /\ ~g_sim_active) \/ g_sim_done
                 THEN Return(h)
                 ELSE at' = [at EXCEPT ![h] = "sync"] /\ UNCHANGED calls
  /\ UNCHANGED <<queues, lock, events, gpu, g_sim_active, g_sim_done,
                 break_limit, g_sim_signal_exit, thread, cnt, targets>>

\* cudaStreamCreate: add_stream.
AddStream(h) ==
  /\ Calls(h, "create") /\ lock = FREE
  /\ m_streams' = Append(m_streams, CurrentCall(h).stream)
  /\ Return(h)
  /\ UNCHANGED <<m_last_stream, m_operations, m_pending, m_grid_id_to_stream, lock,
                 events, gpu, flags, thread, cnt, targets, unseen>>

\* cudaStreamDestroy: CUstream_st::synchronize, then destroy_stream takes m_lock
\* and keeps it while it waits for the stream to be empty.
BeginDestroy(h) ==
  /\ Calls(h, "destroy")
  /\ m_operations[CurrentCall(h).stream] = << >>
  /\ at' = [at EXCEPT ![h] = "destroy_sync"]
  /\ UNCHANGED <<queues, lock, events, gpu, flags, thread, calls, cnt, targets, unseen>>

DestroyLock(h) ==
  /\ at[h] = "destroy_sync" /\ lock = FREE
  /\ lock' = h
  /\ at' = [at EXCEPT ![h] = "destroy"]
  /\ UNCHANGED <<queues, events, gpu, flags, thread, calls, cnt, targets, unseen>>

Destroy(h) ==
  LET s == CurrentCall(h).stream
      rest == Only(m_streams, Queue \ {s})
  IN
  /\ at[h] = "destroy"
  /\ m_operations[s] = << >>
  /\ m_streams' = rest
  /\ m_last_stream' = IF rest = << >> THEN ZERO ELSE Head(rest)
  /\ lock' = FREE
  /\ Return(h)
  /\ UNCHANGED <<m_operations, m_pending, m_grid_id_to_stream, events, gpu, flags,
                 thread, cnt, targets, unseen>>

\* exit_simulation: raise g_sim_done and wait for the thread.
BeginExit(h) ==
  /\ Calls(h, "exit")
  /\ g_sim_done' = TRUE
  /\ at' = [at EXCEPT ![h] = "exit"]
  /\ UNCHANGED <<queues, lock, events, gpu, g_sim_active, break_limit, g_sim_lock,
                 g_sim_signal_exit, thread, calls, cnt, targets, unseen>>

Exit(h) ==
  /\ at[h] = "exit" /\ g_sim_signal_exit > 0
  /\ g_sim_signal_exit' = g_sim_signal_exit - 1
  /\ Return(h)
  /\ UNCHANGED <<queues, lock, events, gpu, g_sim_active, g_sim_done, break_limit,
                 g_sim_lock, thread, cnt, targets, unseen>>

HostStep(h) ==
  \/ BeginPush(h) \/ PushBlocked(h) \/ Push(h) \/ Drain(h)
  \/ BeginSync(h) \/ StreamSync(h) \/ SyncLock(h) \/ SyncScan(h)
  \/ AddStream(h) \/ BeginDestroy(h) \/ DestroyLock(h) \/ Destroy(h)
  \/ BeginExit(h) \/ Exit(h)

-------------------------------------------------------------------------------
(***************************************************************************)
(* The simulation thread: gpgpu_sim_thread_concurrent.                     *)
(***************************************************************************)

DetectWork_IgnoresDone ==
  /\ sim = "spin" /\ lock = FREE
  /\ ~AllEmpty
  /\ sim' = "activate"
  /\ UNCHANGED <<queues, lock, events, gpu, flags, checked, hosts>>

\* Spin until there is work or the simulation is over.
DetectWork ==
  /\ sim = "spin" /\ lock = FREE
  /\ ~AllEmpty \/ g_sim_done
  /\ sim' = "activate"
  /\ UNCHANGED <<queues, lock, events, gpu, flags, checked, hosts>>

Activate ==
  /\ sim = "activate" /\ g_sim_lock = FREE
  /\ g_sim_active' = TRUE
  /\ sim' = "check"
  /\ UNCHANGED <<queues, lock, events, gpu, g_sim_done, break_limit, g_sim_lock,
                 g_sim_signal_exit, checked, hosts>>

\* record_next_done, on every queue of qs.
RecordNextDone(qs) ==
  /\ m_operations' = [q \in Queue |-> IF q \in qs THEN Tail(m_operations[q])
                                                  ELSE m_operations[q]]
  /\ m_pending' = [q \in Queue |-> m_pending[q] /\ q \notin qs]

\* m_grid_id_to_stream without the kernels ks.
Forget(ks) ==
  [k \in DOMAIN m_grid_id_to_stream \ ks |-> m_grid_id_to_stream[k]]

\* kernel_info_t::is_finished
IsFinished(k) == left[k] = 0 /\ m_child_kernels[k] = {}

\* register_finished_kernel(k) and notify_parent_finished: the kernels that are over
\* then.  The uid of a kernel with children left is forgotten: the last child to end
\* registers its parent again.
Over(k) ==
  IF ~IsFinished(k) THEN {}
  ELSE {k} \cup {p \in HostKernel : left[p] = 0 /\ m_child_kernels[p] = {k}}

\* destroy_cta_streams: the streams of the CTAs go with their kernel.
Freed(ks) == {StreamOf(c) : c \in {x \in launched : Parent(x) \in ks}}

\* check_finished_kernel; destroy_stream takes m_lock.
CheckFinishedKernel(ks) ==
  LET rest == Only(m_streams, Queue \ Freed(ks)) IN
  /\ Freed(ks) # {} => lock = FREE
  /\ finished' = Tail(finished)
  /\ RecordNextDone({m_grid_id_to_stream[k] : k \in ks})
  /\ m_grid_id_to_stream' = Forget(ks)
  /\ m_child_kernels' = [k \in Kernel |-> m_child_kernels[k] \ ks]
  /\ m_streams' = rest
  /\ m_last_stream' = IF Freed(ks) = {} THEN m_last_stream
                      ELSE IF rest = << >> THEN ZERO ELSE Head(rest)

\* operation(): check_finished_kernel, before it takes m_lock.
Check ==
  /\ sim = "check"
  /\ sim' = "front"
  /\ IF finished = << >>
       THEN checked' = FALSE /\ UNCHANGED <<queues, finished, m_child_kernels>>
       ELSE /\ checked' = (Over(Head(finished)) # {})
            /\ CheckFinishedKernel(Over(Head(finished)))
  /\ UNCHANGED <<lock, events, running, left, latency, traffic, max_hit, launched,
                 g_cuda_device_launch_op, flags, hosts>>

Serviceable_IgnoresBusy(q) == m_operations[q] # << >>

\* A queue front() may take the next operation from: not empty and not busy.
Serviceable(q) == m_operations[q] # << >> /\ ~m_pending[q]

\* The i-th stream that front() visits: round robin from the one after
\* m_last_stream, or from the first one when m_last_stream is end().
Visit(i) ==
  LET n == Len(m_streams)
      p == IF m_last_stream = ZERO THEN 0
             ELSE CHOOSE j \in 1 .. n : m_streams[j] = m_last_stream
  IN m_streams[((p + i - 1) % n) + 1]

\* front(): the queue served next, or ZERO with nothing to do.
FrontQueue ==
  IF Serviceable(ZERO) THEN ZERO
  ELSE LET ready == {i \in 1 .. Len(m_streams) : Serviceable(Visit(i))}
       IN IF ready = {} THEN ZERO
          ELSE Visit(CHOOSE i \in ready : \A j \in ready : i <= j)

\* front() moves m_last_stream along, unless it served stream zero.
FrontLast ==
  IF Serviceable(ZERO) \/ m_streams = << >> THEN m_last_stream
  ELSE IF FrontQueue # ZERO THEN FrontQueue ELSE Visit(Len(m_streams))

\* gpgpu_sim::can_start_kernel: a slot of m_running_kernels is free.
CanStartKernel == Cardinality(running) < load.slots

WaitSatisfied_Any(o) == updates[o.event] >= 1

\* do_operation on a wait_event: have the records it waits for been reached?
WaitSatisfied(o) == updates[o.event] >= o.cnt

\* A kernel that could not start counts its launch latency down.
Countdown(n) == IF n > 0 THEN n - 1 ELSE 0

LaunchKernel_Drops(q, k) ==
  /\ IF CanStartKernel /\ latency[k] = 0
       THEN /\ running' = running \cup {k}
            /\ m_pending' = [m_pending EXCEPT ![q] = TRUE]
            /\ m_grid_id_to_stream' = [x \in DOMAIN m_grid_id_to_stream \cup {k} |->
                                         IF x = k THEN q ELSE m_grid_id_to_stream[x]]
            /\ UNCHANGED <<m_operations, latency>>
       ELSE /\ latency' = [latency EXCEPT ![k] = Countdown(@)]
            /\ m_grid_id_to_stream' = Forget({k})
            /\ RecordNextDone({q})
            /\ UNCHANGED running
  /\ UNCHANGED updates

(***************************************************************************)
(* operation(), under m_lock: front() selects an operation and             *)
(* do_operation performs it.  A kernel that cannot start (no slot, or its  *)
(* launch latency is not over) and a wait_event that is not satisfied stay *)
(* at the front of their queue (cancel_front); a kernel that starts keeps  *)
(* its queue busy; everything else is popped at once (record_next_done).   *)
(***************************************************************************)
LaunchKernel(q, k) ==
  /\ IF CanStartKernel /\ latency[k] = 0
       THEN /\ running' = running \cup {k}
            /\ m_pending' = [m_pending EXCEPT ![q] = TRUE]
            /\ m_grid_id_to_stream' = [x \in DOMAIN m_grid_id_to_stream \cup {k} |->
                                         IF x = k THEN q ELSE m_grid_id_to_stream[x]]
            /\ UNCHANGED latency
       ELSE /\ latency' = [latency EXCEPT ![k] = Countdown(@)]
            /\ m_grid_id_to_stream' = Forget({k})
            /\ UNCHANGED <<running, m_pending>>
  /\ UNCHANGED <<m_operations, updates>>

UpdateEvent(q, e) ==
  /\ updates' = [updates EXCEPT ![e] = @ + 1]
  /\ RecordNextDone({q})
  /\ UNCHANGED <<m_grid_id_to_stream, running, latency>>

WaitEvent(q, o) ==
  /\ IF WaitSatisfied(o) THEN RecordNextDone({q})
                         ELSE UNCHANGED <<m_operations, m_pending>>
  /\ UNCHANGED <<m_grid_id_to_stream, running, latency, updates>>

Memcpy(q) ==
  /\ RecordNextDone({q})
  /\ UNCHANGED <<m_grid_id_to_stream, running, latency, updates>>

DoOperation(q, o) ==
  CASE o.kind = "kernel"     -> LaunchKernel(q, o.id)
    [] o.kind = "memcpy"     -> Memcpy(q)
    [] o.kind = "event"      -> UpdateEvent(q, o.event)
    [] o.kind = "wait_event" -> WaitEvent(q, o)

\* The rest of operation(), and the test after it: a finished kernel on an idle
\* GPU ends the inner loop.
Operation ==
  LET q == FrontQueue IN
  /\ sim = "front" /\ lock = FREE
  /\ IF Serviceable(q)
       THEN DoOperation(q, Head(m_operations[q]))
       ELSE UNCHANGED <<m_operations, m_pending, m_grid_id_to_stream, running,
                        latency, updates>>
  /\ m_last_stream' = FrontLast
  /\ UNCHANGED <<m_streams, lock, issued, finished, left, traffic, max_hit, device, flags,
                 checked, hosts>>
  /\ sim' = IF checked /\ ~GpuActive' THEN "deactivate" ELSE "cycle"

\* The kernels that running kernels may launch in this cycle; a kernel that ends has
\* launched all of its own.
Launches(done) ==
  LET todo == {c \in DeviceKernel \ launched : Parent(c) \in running} IN
  {new \in SUBSET todo : \A c \in todo : Parent(c) \in done => c \in new}

\* gpgpusim_cuda_launchDeviceV2: the kernel becomes a child of its parent and waits to be
\* queued; the stream of a CTA is created when the CTA first needs it.
LaunchDeviceV2(new) ==
  LET fresh == {StreamOf(c) : c \in new} \ {m_streams[i] : i \in 1 .. Len(m_streams)} IN
  /\ fresh # {} => lock = FREE
  /\ launched' = launched \cup new
  /\ m_child_kernels' = [k \in Kernel |-> m_child_kernels[k] \cup {c \in new : Parent(c) = k}]
  /\ \E o \in Orders(new) : g_cuda_device_launch_op' = g_cuda_device_launch_op \o o
  /\ \E o \in Orders(fresh) : m_streams' = m_streams \o o

\* gpgpu_sim::cycle: running kernels advance and may launch others; those that are done
\* are recorded by set_kernel_done in some order; the configured limit may be reached.
Cycle ==
  LET rest == [k \in Kernel |-> IF k \in running THEN left[k] - 1 ELSE left[k]]
      done == {k \in running : rest[k] = 0}
  IN
  /\ sim = "cycle" /\ GpuActive
  /\ left' = rest
  /\ running' = running \ done
  /\ \E o \in Orders(done) : finished' = finished \o o
  /\ \E new \in Launches(done) : LaunchDeviceV2(new)
  /\ traffic' \in IF running # {} THEN BOOLEAN ELSE {FALSE}
  /\ max_hit' \in IF load.limited THEN BOOLEAN ELSE {FALSE}
  /\ sim' = IF g_cuda_device_launch_op' = << >> THEN "test" ELSE "launch"
  /\ UNCHANGED <<m_last_stream, m_operations, m_pending, m_grid_id_to_stream, lock, events,
                 latency, flags, checked, hosts>>

DeviceOp(c) ==
  [id |-> c, kind |-> "kernel", event |-> Program[c[1][1]][c[1][2]].event, cnt |-> 0]

\* launch_one_device_kernel at the end of the cycle pushes one of the kernels that wait.
\* With launch blocking, push waits until the queues are empty: for this thread.
LaunchOneDeviceKernel ==
  LET c == Head(g_cuda_device_launch_op)
      q == IF load.blocking THEN ZERO ELSE StreamOf(c)
  IN
  /\ sim = "launch" /\ lock = FREE
  /\ load.blocking => ConcurrentStreamsEmpty
  /\ m_operations' = IF max_hit THEN m_operations
                     ELSE [m_operations EXCEPT ![q] = Append(@, DeviceOp(c))]
  /\ g_cuda_device_launch_op' = Tail(g_cuda_device_launch_op)
  /\ sim' = IF load.blocking THEN "blocked" ELSE "test"
  /\ UNCHANGED <<m_streams, m_last_stream, m_pending, m_grid_id_to_stream, lock, events,
                 running, finished, left, latency, traffic, max_hit, launched,
                 m_child_kernels, flags, checked, hosts>>

Idle ==
  /\ sim = "cycle" /\ ~GpuActive /\ ~max_hit
  /\ sim' = "test"
  /\ UNCHANGED <<queues, lock, events, gpu, flags, checked, hosts>>

(***************************************************************************)
(* The GPU is idle because the limit was hit.  stop_all_running_kernels,   *)
(* which holds m_lock, ends every kernel: the ones that had finished leave *)
(* their queues, until check_finished_kernel meets one that had not, and   *)
(* g_sim_done is raised.                                                   *)
(***************************************************************************)
StopAll ==
  /\ sim = "cycle" /\ max_hit /\ lock = FREE
  /\ lock' = SIM
  /\ running' = {}
  /\ \E o \in Orders(running) : finished' = finished \o o
  /\ sim' = "stop"
  /\ UNCHANGED <<queues, events, left, latency, traffic, max_hit, device, flags, checked,
                 hosts>>

StopOne ==
  /\ sim = "stop" /\ finished # << >> /\ IsFinished(Head(finished))
  /\ CheckFinishedKernel(Over(Head(finished)))
  /\ UNCHANGED <<lock, events, running, left, latency, traffic, max_hit, launched,
                 g_cuda_device_launch_op, flags, thread, hosts>>

Stopped ==
  /\ sim = "stop" /\ (finished # << >> => ~IsFinished(Head(finished)))
  /\ finished' = << >>
  /\ lock' = FREE
  /\ g_sim_done' = TRUE /\ break_limit' = TRUE
  /\ sim' = "test"
  /\ UNCHANGED <<queues, events, running, left, latency, traffic, max_hit, device,
                 g_sim_active, g_sim_lock, g_sim_signal_exit, checked, hosts>>

\* End of the inner loop: go on while there is work.
TestActive ==
  /\ sim = "test" /\ lock = FREE
  /\ sim' = IF (GpuActive \/ ~AllEmpty) /\ ~g_sim_done THEN "check" ELSE "deactivate"
  /\ UNCHANGED <<queues, lock, events, gpu, flags, checked, hosts>>

Deactivate_StaysActive ==
  /\ sim = "deactivate" /\ g_sim_lock = FREE
  /\ sim' = IF g_sim_done THEN "exit" ELSE "spin"
  /\ UNCHANGED <<queues, lock, events, gpu, flags, checked, hosts>>

Deactivate ==
  /\ sim = "deactivate" /\ g_sim_lock = FREE
  /\ g_sim_active' = FALSE
  /\ sim' = IF g_sim_done THEN "exit" ELSE "spin"
  /\ UNCHANGED <<queues, lock, events, gpu, g_sim_done, break_limit, g_sim_lock,
                 g_sim_signal_exit, checked, hosts>>

\* The thread ends; after break_limit the whole process exits instead.
ThreadExit ==
  /\ sim = "exit"
  /\ sim' = IF break_limit THEN "killed" ELSE "stopped"
  /\ g_sim_signal_exit' = IF break_limit THEN g_sim_signal_exit ELSE g_sim_signal_exit + 1
  /\ UNCHANGED <<queues, lock, events, gpu, g_sim_active, g_sim_done, break_limit,
                 g_sim_lock, checked, hosts>>

SimStep ==
  \/ DetectWork \/ Activate \/ Check \/ Operation \/ Cycle \/ LaunchOneDeviceKernel \/ Idle
  \/ StopAll \/ StopOne \/ Stopped \/ TestActive \/ Deactivate \/ ThreadExit

\* The threads run until the process exits.
SimThread == sim # "killed" /\ SimStep /\ UNCHANGED load
HostThread(h) == sim # "killed" /\ HostStep(h) /\ UNCHANGED load

Next == SimThread \/ \E h \in Host : HostThread(h)

Spec == Init /\ [][Next]_vars

(***************************************************************************)
(* Every thread is scheduled, and a thread that waits for a mutex which is *)
(* free again and again gets it: the loop of synchronize releases          *)
(* g_sim_lock in every round, which weak fairness would not exploit.       *)
(***************************************************************************)
FairSpec ==
  Spec /\ SF_vars(SimThread) /\ \A h \in Host : SF_vars(HostThread(h))

-------------------------------------------------------------------------------
(***************************************************************************)
(* Properties.                                                             *)
(***************************************************************************)
\* Operations that host h submitted and that are still in their queues.
Outstanding(h) ==
  {o \in UNION {{m_operations[q][i] : i \in 1 .. Len(m_operations[q])} : q \in Queue} :
     o.id[1] = h}

\* Kernels that kernels of host h have launched and that are waiting or in their queues.
Descendants(h) ==
  LET ops == UNION {{m_operations[q][i].id : i \in 1 .. Len(m_operations[q])} : q \in Queue}
      waiting == {g_cuda_device_launch_op[i] : i \in DOMAIN g_cuda_device_launch_op}
  IN {c \in DeviceKernel \cap (ops \cup waiting) : Parent(c)[1] = h}

(***************************************************************************)
(* The runtime keeps the promise of StreamOrder: retries (cancel_front),   *)
(* the unlocked completion of kernels (register_finished_kernel) and       *)
(* pushes from several threads never reorder, drop or repeat an operation. *)
(***************************************************************************)
Order == INSTANCE StreamOrder WITH queue <- m_operations, busy <- m_pending
InOrder == Order!Spec

(***************************************************************************)
(* The assertions of register_finished_kernel and record_next_done: a      *)
(* kernel the GPU runs or has finished, or whose children are not over, is *)
(* at the front of the queue that m_grid_id_to_stream names, and that      *)
(* queue is busy with it.                                                  *)
(***************************************************************************)
KernelOwnsQueue ==
  \A k \in running \cup {finished[i] : i \in 1 .. Len(finished)}
                    \cup {p \in HostKernel : m_child_kernels[p] # {}} :
    /\ k \in DOMAIN m_grid_id_to_stream
    /\ LET q == m_grid_id_to_stream[k] IN
         /\ m_pending[q]
         /\ m_operations[q] # << >>
         /\ Head(m_operations[q]).id = k

(***************************************************************************)
(* When a call that blocks returns (cudaMemcpy or another call on the NULL *)
(* stream, cudaDeviceSynchronize), everything the host submitted before is *)
(* complete with all that its kernels launched, although empty() looks at  *)
(* the queues one by one without m_lock and a kernel may end before its    *)
(* children are queued; only the end of the simulation excuses a           *)
(* synchronize.                                                            *)
(***************************************************************************)
BlockingReturn ==
  [][\A h \in Host :
       (at[h] \in {"drain", "sync_scan"} /\ at'[h] = "call")
         => \/ Outstanding(h) \cup Descendants(h) = {}
            \/ at[h] = "sync_scan" /\ g_sim_done]_vars

(***************************************************************************)
(* An operation of stream zero is taken up only when no other stream has   *)
(* an operation left (the block loop of push).                             *)
(***************************************************************************)
ZeroStartsAlone ==
  [][(sim = "front" /\ sim' # "front" /\ Serviceable(ZERO)) => ConcurrentStreamsEmpty]_vars

(***************************************************************************)
(* A stream gets past cudaStreamWaitEvent only when every record of the    *)
(* event that the same host made before has been reached by its stream.    *)
(***************************************************************************)
EventOrder ==
  [][\A q \in Queue :
       (m_operations[q] # << >> /\ m_operations'[q] = Tail(m_operations[q])) =>
         LET o == Head(m_operations[q]) IN
         o.kind = "wait_event" =>
           \A r \in Outstanding(o.id[1]) :
             ~(r.kind = "event" /\ r.event = o.event /\ r.id[2] < o.id[2])]_vars

(***************************************************************************)
(* No call blocks for ever: the hosts get through their programs, waiting  *)
(* for queues to drain, for locks and for the simulation thread to stop.   *)
(* And once g_sim_done is raised that thread ends and is not active.       *)
(***************************************************************************)
EveryoneEnds ==
  /\ <>(sim = "killed" \/ \A h \in Host : calls[h] = Len(Program[h]))
  /\ g_sim_done ~> (sim \in {"stopped", "killed"} /\ ~g_sim_active)

================================================================================
