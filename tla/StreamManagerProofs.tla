-------------------------- MODULE StreamManagerProofs --------------------------
(***************************************************************************)
(* Proofs about StreamManager: every kernel the GPU knows of owns its      *)
(* queue, the queues implement StreamOrder, a call that blocks returns     *)
(* only when the work of its host is over, and events order streams.       *)
(***************************************************************************)
EXTENDS StreamManager, FoldingProofs, FiniteSetTheorems

(***************************************************************************)
(* The theorems are about programs whose kernels launch no others, with    *)
(* any number of kernels on the GPU, and about all programs on a GPU that  *)
(* runs one kernel at a time.  Without this a parent and its last child    *)
(* may end in the same cycle, and KernelOwnsQueue fails (see the README).  *)
(***************************************************************************)
HostOnly(w) == \A h \in Host : \A n \in DOMAIN w.program[h] : w.program[h][n].children = << >>

Untangled == \A w \in Workloads : w.slots = 1 \/ HostOnly(w)

\* Where a host is while it pushes operations.
Pushing == {"block", "push", "drain"}

Places == Pushing \cup {"call", "sync", "sync_scan", "destroy_sync", "destroy", "exit"}

HostsOK ==
  /\ load \in Workloads
  /\ at \in [Host -> Places] /\ calls \in [Host -> Nat] /\ cnt \in [Host -> Nat]
  /\ targets \in [Host -> Seq(Queue)]
  /\ issued \in [Event -> Nat]

\* A host that pushes makes a call that pushes; only a wait has several targets.
PushOK ==
  \A h \in Host : at[h] \in Pushing =>
    /\ calls[h] < Len(Program[h]) /\ CurrentCall(h).call \in OpKind
    /\ targets[h] # << >>
    /\ CurrentCall(h).call # "wait_event" => Len(targets[h]) = 1

\* front() finds where it stopped.
QueuesOK ==
  /\ m_streams \in Seq(Queue)
  /\ m_last_stream = ZERO \/ \E j \in 1 .. Len(m_streams) : m_streams[j] = m_last_stream
  /\ m_operations \in [Queue -> Seq(Op)]
  /\ m_pending \in [Queue -> BOOLEAN]

GpuOK ==
  /\ running \in SUBSET Kernel /\ IsFiniteSet(running)
  /\ finished \in Seq(Kernel)
  /\ left \in [Kernel -> Int]
  /\ m_child_kernels \in [Kernel -> SUBSET DeviceKernel]
  /\ launched \in SUBSET DeviceKernel
  /\ g_cuda_device_launch_op \in Seq(DeviceKernel)

\* Kernel k is the i-th operation in queue q.
KernelOp(q, i, k) ==
  /\ q \in Queue /\ i \in 1 .. Len(m_operations[q])
  /\ m_operations[q][i].kind = "kernel" /\ m_operations[q][i].id = k

Waits(k) == \E j \in 1 .. Len(g_cuda_device_launch_op) : g_cuda_device_launch_op[j] = k

\* A queued kernel was pushed by its host, or launched by its parent; ...
Pushed(k) ==
  \/ /\ k \in HostKernel
     /\ k[2] <= calls[k[1]] + 1
     /\ k[2] = calls[k[1]] + 1 => at[k[1]] = "drain"
  \/ k \in launched /\ ~Waits(k)

OpsOK == \A q \in Queue, i \in Nat, k \in OpId : KernelOp(q, i, k) => Pushed(k)

\* ... and it is queued once.
Unique ==
  \A k \in OpId : \A q \in Queue, i \in Nat, r \in Queue, j \in Nat :
    KernelOp(q, i, k) /\ KernelOp(r, j, k) => q = r /\ i = j

\* A kernel that waits to be queued waits once.
WaitOK ==
  /\ \A i, j \in 1 .. Len(g_cuda_device_launch_op) :
       g_cuda_device_launch_op[i] = g_cuda_device_launch_op[j] => i = j
  /\ \A i \in 1 .. Len(g_cuda_device_launch_op) : g_cuda_device_launch_op[i] \in launched

\* A kernel ends once.
Apart ==
  /\ \A i, j \in 1 .. Len(finished) : finished[i] = finished[j] => i = j
  /\ \A i \in 1 .. Len(finished) : finished[i] \notin running

\* With one slot, the end of a kernel is registered before another one starts.
OneAtATime ==
  load.slots = 1 =>
    /\ \A j, k \in running : j = k
    /\ finished # << >> => running = {} /\ Len(finished) = 1 /\ sim \notin {"front", "cycle"}

Owner(k) ==
  \/ k \in running
  \/ \E i \in 1 .. Len(finished) : finished[i] = k
  \/ k \in HostKernel /\ m_child_kernels[k] # {}

\* The queue that m_grid_id_to_stream names for k is busy with k.
Owns(k, q) ==
  /\ k \in DOMAIN m_grid_id_to_stream /\ m_grid_id_to_stream[k] = q
  /\ m_pending[q] /\ KernelOp(q, 1, k)

OwnersOK == \A k \in Kernel : Owner(k) => \E q \in Queue : Owns(k, q)

\* A launch from the device has something to push.
LaunchOK == sim = "launch" => g_cuda_device_launch_op # << >>

Queued ==
  /\ HostsOK /\ PushOK /\ QueuesOK /\ GpuOK /\ OpsOK /\ Unique /\ WaitOK /\ Apart
  /\ OneAtATime /\ OwnersOK

-------------------------------------------------------------------------------
\* The kernels of the programs.  A kernel launched by a kernel launches none.
LEMMA Kernels ==
  ASSUME HostsOK
  PROVE  /\ load \in Workload /\ Program \in [Host -> Seq(Call)]
         /\ HostKernel \subseteq Host \X (Nat \ {0})
         /\ \A c \in DeviceKernel : Parent(c) \in HostKernel /\ StreamOf(c) \in Stream
         /\ Kernel \subseteq OpId
         /\ HostKernel \cap DeviceKernel = {}
<1>1. load \in Workload /\ Program \in [Host -> Seq(Call)]
  BY RuntimeAssumption DEF HostsOK, Workload, Program
<1>2. \A h \in Host : DOMAIN Program[h] = 1 .. Len(Program[h]) /\ Len(Program[h]) \in Nat
  BY <1>1
<1>3. \A k \in HostKernel : /\ k = <<k[1], k[2]>> /\ k[1] \in Host /\ k[2] \in Nat \ {0}
                            /\ k[2] \in DOMAIN Program[k[1]]
  BY <1>2 DEF HostKernel
<1>4. \A k \in HostKernel : Program[k[1]][k[2]] \in Call
  BY <1>1, <1>2, <1>3
<1>5. \A k \in HostKernel : CtaStreams(k) \in Seq(Stream)
  BY <1>4 DEF CtaStreams, Call
<1>6. ASSUME NEW c \in DeviceKernel
      PROVE  /\ Parent(c) \in HostKernel /\ StreamOf(c) \in Stream
             /\ c \in HostKernel \X (Nat \ {0})
  <2>1. PICK k \in HostKernel : c \in {k} \X DOMAIN CtaStreams(k)
    BY <1>6 DEF DeviceKernel
  <2>2. c[1] = k /\ c[2] \in DOMAIN CtaStreams(k) /\ c = <<k, c[2]>>
    BY <2>1
  <2>3. DOMAIN CtaStreams(k) = 1 .. Len(CtaStreams(k)) /\ CtaStreams(k) \in Seq(Stream)
    BY <1>5
  <2>4. CtaStreams(k)[c[2]] \in Stream
    BY <2>2, <2>3
  <2> QED BY <2>2, <2>3, <2>4 DEF Parent, StreamOf
<1>7. HostKernel \subseteq Host \X (Nat \ {0})
  BY <1>3
<1>8. Kernel \subseteq OpId
  BY <1>6, <1>7 DEF Kernel, OpId
<1>9. ASSUME NEW c \in HostKernel \cap DeviceKernel
      PROVE  FALSE
  <2>1. c[1] \in Host /\ c[1] \in HostKernel
    BY <1>7, <1>6 DEF Parent
  <2>2. c[1] \in Host \cap (Host \X (Nat \ {0}))
    BY <2>1, <1>7
  <2> QED BY <2>2, RuntimeAssumption
<1> QED BY <1>1, <1>6, <1>7, <1>8, <1>9

\* With several slots no kernel launches others.
LEMMA NoDevice ==
  ASSUME Untangled, HostsOK, load.slots # 1
  PROVE  DeviceKernel = {}
<1>1. HostOnly(load)
  BY DEF Untangled, HostsOK
<1>2. ASSUME NEW k \in HostKernel
      PROVE  DOMAIN CtaStreams(k) = {}
  <2>1. PICK h \in Host : k \in {h} \X DOMAIN Program[h]
    BY DEF HostKernel
  <2>2. k[1] = h /\ k[2] \in DOMAIN Program[h]
    BY <2>1
  <2>3. CtaStreams(k) = << >>
    BY <1>1, <2>2 DEF HostOnly, CtaStreams, Program
  <2> QED BY <2>3
<1> QED BY <1>2 DEF DeviceKernel

\* The workload is fixed, and so are its kernels.
LEMMA LoadFixed ==
  ASSUME load' = load
  PROVE  /\ Program' = Program /\ HostKernel' = HostKernel /\ DeviceKernel' = DeviceKernel
         /\ Kernel' = Kernel
<1>1. Program' = Program
  BY DEF Program
<1>2. HostKernel' = HostKernel
  BY <1>1 DEF HostKernel
<1>3. DeviceKernel' = DeviceKernel
  BY <1>1, <1>2 DEF DeviceKernel, CtaStreams
<1> QED BY <1>1, <1>2, <1>3 DEF Kernel

\* An order of a finite set has each of its elements once.
LEMMA OrdersOnce ==
  ASSUME NEW S, IsFiniteSet(S), NEW o \in Orders(S)
  PROVE  /\ o \in Seq(S) /\ Len(o) = Cardinality(S)
         /\ \A x \in S : \E i \in 1 .. Len(o) : o[i] = x
         /\ \A i, j \in 1 .. Len(o) : o[i] = o[j] => i = j
<1> DEFINE n == Cardinality(S)
<1>1. n \in Nat /\ o \in [1 .. n -> S] /\ \A x \in S : \E i \in DOMAIN o : o[i] = x
  BY FS_CardinalityType DEF Orders
<1>2. o \in Seq(S) /\ Len(o) = n /\ DOMAIN o = 1 .. n
  BY <1>1
<1>3. IsFiniteSet(1 .. n) /\ Cardinality(1 .. n) = n
  <2>1. 1 \in Int /\ n \in Int
    BY <1>1
  <2>2. IsFiniteSet(1 .. n) /\ Cardinality(1 .. n) = (IF 1 > n THEN 0 ELSE n - 1 + 1)
    BY <2>1, FS_Interval
  <2> QED BY <1>1, <2>2
<1>4. o \in Surjection(1 .. n, S)
  BY <1>1, <1>2 DEF Surjection
<1>5. o \in Injection(1 .. n, S)
  BY <1>3, <1>4, FS_SurjSameCardinalityImpliesInj
<1>6. \A i, j \in 1 .. n : o[i] = o[j] => i = j
  BY <1>5 DEF Injection, IsInjective
<1> QED BY <1>1, <1>2, <1>6

\* A set without elements has the empty order.
LEMMA OrdersNone == Orders({}) = {<< >>}
<1>1. Cardinality({}) = 0
  BY FS_EmptySet
<1>2. Orders({}) = [1 .. 0 -> {}]
  BY <1>1 DEF Orders
<1>3. << >> \in [1 .. 0 -> {}]
  OBVIOUS
<1>4. \A o \in [1 .. 0 -> {}] : o = << >>
  <2> TAKE o \in [1 .. 0 -> {}]
  <2>1. o \in Seq({}) /\ Len(o) = 0
    OBVIOUS
  <2> QED BY <2>1
<1> QED BY <1>2, <1>3, <1>4

-------------------------------------------------------------------------------
(***************************************************************************)
(* The queues.                                                             *)
(***************************************************************************)

\* record_next_done takes the front of queues that are not empty.
LEMMA PopOps ==
  ASSUME QueuesOK, NEW qs, \A q \in Queue : q \in qs => m_operations[q] # << >>,
         RecordNextDone(qs)
  PROVE  /\ m_operations' \in [Queue -> Seq(Op)] /\ m_pending' \in [Queue -> BOOLEAN]
         /\ \A q \in Queue : q \notin qs =>
              m_operations'[q] = m_operations[q] /\ m_pending'[q] = m_pending[q]
         /\ \A q \in Queue, i \in Nat, k \in OpId :
              KernelOp(q, i, k)' => KernelOp(q, IF q \in qs THEN i + 1 ELSE i, k)
<1>1. \A q \in Queue : m_operations[q] \in Seq(Op) /\ m_pending[q] \in BOOLEAN
  BY DEF QueuesOK
<1>2. \A q \in Queue : m_operations'[q] = IF q \in qs THEN Tail(m_operations[q])
                                                      ELSE m_operations[q]
  BY DEF RecordNextDone
<1>3. \A q \in Queue : m_pending'[q] = (m_pending[q] /\ q \notin qs)
  BY DEF RecordNextDone
<1>4. m_pending' \in [Queue -> BOOLEAN]
  BY DEF RecordNextDone
<1>5. \A q \in Queue : m_operations'[q] \in Seq(Op)
  <2> TAKE q \in Queue
  <2>1. m_operations[q] # << >> => Tail(m_operations[q]) \in Seq(Op)
    BY <1>1
  <2> QED BY <1>1, <1>2, <2>1
<1>6. m_operations' \in [Queue -> Seq(Op)]
  BY <1>5 DEF RecordNextDone
<1>7. ASSUME NEW q \in Queue, NEW i \in Nat, NEW k \in OpId, KernelOp(q, i, k)'
      PROVE  KernelOp(q, IF q \in qs THEN i + 1 ELSE i, k)
  <2>1. /\ i \in 1 .. Len(m_operations'[q])
        /\ m_operations'[q][i].kind = "kernel" /\ m_operations'[q][i].id = k
    BY <1>7 DEF KernelOp
  <2>2. CASE q \notin qs
    BY <1>2, <2>1, <2>2 DEF KernelOp
  <2>3. CASE q \in qs
    <3>1. m_operations[q] \in Seq(Op) /\ m_operations[q] # << >>
          /\ m_operations'[q] = Tail(m_operations[q])
      BY <1>1, <1>2, <2>3
    <3>2. i + 1 \in 1 .. Len(m_operations[q]) /\ m_operations'[q][i] = m_operations[q][i + 1]
      BY <2>1, <3>1
    <3> QED BY <2>1, <2>3, <3>2 DEF KernelOp
  <2> QED BY <2>2, <2>3
<1>8. \A q \in Queue : q \notin qs =>
        m_operations'[q] = m_operations[q] /\ m_pending'[q] = m_pending[q]
  BY <1>1, <1>2, <1>3
<1> QED BY <1>4, <1>6, <1>7, <1>8

\* So what was queued once still is.
LEMMA PopUnique ==
  ASSUME Unique, NEW qs,
         \A q \in Queue, i \in Nat, k \in OpId :
           KernelOp(q, i, k)' => KernelOp(q, IF q \in qs THEN i + 1 ELSE i, k)
  PROVE  Unique'
<1> SUFFICES ASSUME NEW k \in OpId, NEW q \in Queue, NEW i \in Nat, NEW r \in Queue, NEW j \in Nat,
                    KernelOp(q, i, k)', KernelOp(r, j, k)'
             PROVE  q = r /\ i = j
  BY DEF Unique
<1> DEFINE Before(x, n) == IF x \in qs THEN n + 1 ELSE n
<1>1. KernelOp(q, Before(q, i), k) /\ KernelOp(r, Before(r, j), k)
  OBVIOUS
<1>2. Before(q, i) \in Nat /\ Before(r, j) \in Nat
  OBVIOUS
<1>3. q = r /\ Before(q, i) = Before(r, j)
  BY <1>1, <1>2 DEF Unique
<1> QED BY <1>3

\* push appends an operation to a queue.
LEMMA PushOps ==
  ASSUME QueuesOK, NEW q \in Queue, NEW o \in Op,
         m_operations' = [m_operations EXCEPT ![q] = Append(@, o)]
  PROVE  /\ m_operations' \in [Queue -> Seq(Op)]
         /\ \A r \in Queue, i \in Nat, k \in OpId : KernelOp(r, i, k) => KernelOp(r, i, k)'
         /\ \A r \in Queue, i \in Nat, k \in OpId :
              KernelOp(r, i, k)' => \/ KernelOp(r, i, k)
                                    \/ /\ r = q /\ i = Len(m_operations[q]) + 1
                                       /\ o.kind = "kernel" /\ o.id = k
<1>1. \A r \in Queue : m_operations[r] \in Seq(Op)
  BY DEF QueuesOK
<1>2. \A r \in Queue : m_operations'[r] = IF r = q THEN Append(m_operations[q], o)
                                                  ELSE m_operations[r]
  BY DEF QueuesOK
<1>3. /\ Append(m_operations[q], o) \in Seq(Op)
      /\ Len(Append(m_operations[q], o)) = Len(m_operations[q]) + 1
      /\ \A i \in 1 .. Len(m_operations[q]) : Append(m_operations[q], o)[i] = m_operations[q][i]
      /\ Append(m_operations[q], o)[Len(m_operations[q]) + 1] = o
      /\ Len(m_operations[q]) \in Nat
  BY <1>1
<1>4. m_operations' \in [Queue -> Seq(Op)]
  BY <1>3 DEF QueuesOK
<1>5. ASSUME NEW r \in Queue, NEW i \in Nat, NEW k \in OpId, KernelOp(r, i, k)
      PROVE  KernelOp(r, i, k)'
  BY <1>2, <1>3, <1>5 DEF KernelOp
<1>6. ASSUME NEW r \in Queue, NEW i \in Nat, NEW k \in OpId, KernelOp(r, i, k)'
      PROVE  \/ KernelOp(r, i, k)
             \/ r = q /\ i = Len(m_operations[q]) + 1 /\ o.kind = "kernel" /\ o.id = k
  <2>1. CASE r # q
    BY <1>2, <1>6, <2>1 DEF KernelOp
  <2>2. CASE r = q
    BY <1>2, <1>3, <1>6, <2>2 DEF KernelOp
  <2> QED BY <2>1, <2>2
<1> QED BY <1>4, <1>5, <1>6

\* A kernel that was in no queue is queued once.
LEMMA PushUnique ==
  ASSUME Unique, QueuesOK, NEW q \in Queue, NEW o \in Op,
         m_operations' = [m_operations EXCEPT ![q] = Append(@, o)],
         o.kind = "kernel" => \A r \in Queue, i \in Nat : ~KernelOp(r, i, o.id)
  PROVE  Unique'
<1> SUFFICES ASSUME NEW k \in OpId, NEW p \in Queue, NEW i \in Nat, NEW r \in Queue, NEW j \in Nat,
                    KernelOp(p, i, k)', KernelOp(r, j, k)'
             PROVE  p = r /\ i = j
  BY DEF Unique
<1> DEFINE New(x, n) == x = q /\ n = Len(m_operations[q]) + 1 /\ o.kind = "kernel" /\ o.id = k
<1>1. KernelOp(p, i, k) \/ New(p, i)
  BY PushOps
<1>2. KernelOp(r, j, k) \/ New(r, j)
  BY PushOps
<1>3. CASE KernelOp(p, i, k) /\ KernelOp(r, j, k)
  BY <1>3 DEF Unique
<1>4. CASE New(p, i) /\ New(r, j)
  BY <1>4
<1>5. ~(KernelOp(p, i, k) /\ New(r, j)) /\ ~(KernelOp(r, j, k) /\ New(p, i))
  OBVIOUS
<1> QED BY <1>1, <1>2, <1>3, <1>4, <1>5

-------------------------------------------------------------------------------
(***************************************************************************)
(* The hosts.                                                              *)
(***************************************************************************)

\* What the step of a host leaves to the other hosts.
Others(h) ==
  /\ at \in [Host -> Places] /\ \E p \in Places : at' = [at EXCEPT ![h] = p]
  /\ calls' = calls \/ calls' = [calls EXCEPT ![h] = @ + 1]
  /\ targets' = targets \/ \E qs \in Seq(Queue) : targets' = [targets EXCEPT ![h] = qs]

\* So all hosts keep their types, and the others their state.
LEMMA OthersKept ==
  ASSUME HostsOK, load' = load, NEW h \in Host, Others(h)
  PROVE  /\ at' \in [Host -> Places] /\ calls' \in [Host -> Nat]
         /\ targets' \in [Host -> Seq(Queue)]
         /\ \A g \in Host \ {h} : at'[g] = at[g] /\ calls'[g] = calls[g] /\ targets'[g] = targets[g]
         /\ calls'[h] = calls[h] \/ calls'[h] = calls[h] + 1
<1>1. /\ at' \in [Host -> Places] /\ \A g \in Host \ {h} : at'[g] = at[g]
  BY DEF Others
<1>2. /\ calls' \in [Host -> Nat] /\ \A g \in Host \ {h} : calls'[g] = calls[g]
      /\ calls'[h] = calls[h] \/ calls'[h] = calls[h] + 1
  BY DEF Others, HostsOK
<1>3. /\ targets' \in [Host -> Seq(Queue)] /\ \A g \in Host \ {h} : targets'[g] = targets[g]
  BY DEF Others, HostsOK
<1> QED BY <1>1, <1>2, <1>3

\* Host h, if it pushes now, makes a call that pushes.
LEMMA PushKept ==
  ASSUME HostsOK, PushOK, load' = load, NEW h \in Host, Others(h),
         at'[h] \in Pushing =>
           /\ calls' = calls /\ calls[h] < Len(Program[h]) /\ CurrentCall(h).call \in OpKind
           /\ targets'[h] # << >>
           /\ CurrentCall(h).call # "wait_event" => Len(targets'[h]) = 1
  PROVE  PushOK'
<1>1. Program' = Program
  BY LoadFixed
<1> SUFFICES ASSUME NEW g \in Host, at'[g] \in Pushing
             PROVE  /\ calls'[g] < Len(Program[g])
                    /\ Program[g][calls'[g] + 1].call \in OpKind
                    /\ targets'[g] # << >>
                    /\ Program[g][calls'[g] + 1].call # "wait_event" => Len(targets'[g]) = 1
  BY <1>1 DEF PushOK, CurrentCall
<1>2. CASE g = h
  BY <1>2 DEF CurrentCall
<1>3. CASE g # h
  BY <1>3, OthersKept DEF PushOK, CurrentCall
<1> QED BY <1>2, <1>3

\* A host that calls a function makes a call of its program.
LEMMA CallType ==
  ASSUME HostsOK, NEW h \in Host, calls[h] < Len(Program[h])
  PROVE  CurrentCall(h) \in Call /\ calls[h] + 1 \in DOMAIN Program[h]
<1>1. Program[h] \in Seq(Call) /\ calls[h] \in Nat
  BY Kernels DEF HostsOK
<1>2. calls[h] + 1 \in 1 .. Len(Program[h])
  BY <1>1
<1> QED BY <1>1, <1>2 DEF CurrentCall

\* The steps of a host keep to the types and to its program.
LEMMA HostType ==
  ASSUME HostsOK, PushOK, QueuesOK, NEW h \in Host, HostStep(h), load' = load
  PROVE  HostsOK' /\ PushOK' /\ Others(h)
<1>r. Return(h) => at' = [at EXCEPT ![h] = "call"] /\ calls' = [calls EXCEPT ![h] = @ + 1]
  BY DEF Return
<1>t. at \in [Host -> Places] /\ targets \in [Host -> Seq(Queue)] /\ cnt \in [Host -> Nat]
      /\ issued \in [Event -> Nat] /\ load' \in Workloads
  BY DEF HostsOK
<1>p. "call" \notin Pushing /\ \A p \in Places \ Pushing : p \notin Pushing
  BY DEF Pushing
<1>x. ASSUME Others(h), PushOK', cnt' \in [Host -> Nat], issued' \in [Event -> Nat]
      PROVE  HostsOK' /\ PushOK' /\ Others(h)
  BY <1>x, <1>t, OthersKept DEF HostsOK
<1>s. ASSUME NEW p \in Places \ Pushing, at' = [at EXCEPT ![h] = p], targets' = targets,
             calls' = calls \/ calls' = [calls EXCEPT ![h] = @ + 1], UNCHANGED <<cnt, issued>>
      PROVE  HostsOK' /\ PushOK' /\ Others(h)
  <2>1. Others(h)
    BY <1>s, <1>t DEF Others
  <2>2. at'[h] = p
    BY <1>s, <1>t
  <2>3. PushOK'
    BY <2>1, <2>2, <1>s, PushKept
  <2> QED BY <2>1, <2>3, <1>s, <1>t, <1>x
<1>u. ASSUME UNCHANGED <<at, calls, targets, cnt, issued>>
      PROVE  HostsOK' /\ PushOK' /\ Others(h)
  <2>1. at' = [at EXCEPT ![h] = at[h]] /\ at[h] \in Places
    BY <1>u, <1>t
  <2>2. Others(h)
    BY <2>1, <1>u, <1>t DEF Others
  <2>3. PushOK'
    BY <2>2, <1>u, PushKept DEF PushOK
  <2> QED BY <2>2, <2>3, <1>u, <1>t, <1>x
<1>n. ASSUME at[h] \in Pushing, NextTarget(h), UNCHANGED <<cnt, issued>>
      PROVE  HostsOK' /\ PushOK' /\ Others(h)
  <2>1. targets[h] \in Seq(Queue) /\ targets[h] # << >> /\ Tail(targets[h]) \in Seq(Queue)
    BY <1>n, <1>t DEF PushOK
  <2>2. targets' = [targets EXCEPT ![h] = Tail(targets[h])]
    BY <1>n DEF NextTarget
  <2>3. CASE Len(targets[h]) = 1
    <3>1. at' = [at EXCEPT ![h] = "call"] /\ calls' = [calls EXCEPT ![h] = @ + 1]
      BY <1>n, <2>3, <1>r DEF NextTarget
    <3>2. Others(h) /\ at'[h] = "call"
      BY <1>t, <3>1, <2>1, <2>2 DEF Others, Places
    <3>3. PushOK'
      BY <1>p, <3>2, PushKept
    <3> QED BY <3>2, <3>3, <1>n, <1>t, <1>x
  <2>4. CASE Len(targets[h]) # 1
    <3>1. PICK p \in {"block", "push"} : at' = [at EXCEPT ![h] = p]
      BY <1>n, <2>4 DEF NextTarget
    <3>2. calls' = calls
      BY <1>n, <2>4 DEF NextTarget
    <3>3. Others(h)
      BY <1>t, <3>1, <3>2, <2>1, <2>2 DEF Others, Places, Pushing
    <3>4. targets'[h] # << >> /\ CurrentCall(h).call = "wait_event"
      <4>1. CurrentCall(h).call = "wait_event"
        BY <1>n, <2>4 DEF PushOK
      <4>2. targets'[h] = Tail(targets[h])
        BY <1>t, <2>2
      <4>3. Len(targets[h]) \in Nat /\ Len(targets[h]) # 0 /\ Len(targets[h]) # 1
        BY <2>1, <2>4
      <4>4. Len(Tail(targets[h])) = Len(targets[h]) - 1
        BY <2>1
      <4>5. Len(Tail(targets[h])) # 0
        BY <4>3, <4>4
      <4>6. Len(<< >>) = 0
        OBVIOUS
      <4>7. Tail(targets[h]) # << >>
        BY ONLY <4>5, <4>6
      <4> QED BY <4>1, <4>2, <4>7
    <3>5. PushOK'
      BY <1>n, <3>2, <3>3, <3>4, PushKept DEF PushOK
    <3> QED BY <3>3, <3>5, <1>n, <1>t, <1>x
  <2> QED BY <2>3, <2>4
<1>1. CASE BeginPush(h)
  <2> DEFINE c == CurrentCall(h)
             qs == IF c.call = "wait_event" /\ c.stream = ZERO THEN m_streams ELSE <<c.stream>>
  <2>1. calls[h] < Len(Program[h]) /\ c.call \in OpKind /\ at[h] = "call"
    BY <1>1 DEF BeginPush, Calls
  <2>2. c \in Call /\ c.stream \in Queue /\ c.event \in Event
    BY <2>1, CallType DEF Call
  <2>3. qs \in Seq(Queue) /\ (c.call # "wait_event" => Len(qs) = 1)
    BY <2>2 DEF QueuesOK
  <2>4. issued' \in [Event -> Nat]
    <3>1. issued' = issued \/ issued' = [issued EXCEPT ![c.event] = @ + 1]
      BY <1>1 DEF BeginPush
    <3> QED BY <1>t, <3>1, <2>2
  <2>5. cnt' = [cnt EXCEPT ![h] = issued[c.event]] /\ issued[c.event] \in Nat
    BY <1>1, <1>t, <2>2 DEF BeginPush
  <2>6. cnt' \in [Host -> Nat]
    BY <1>t, <2>5
  <2>7. CASE Return(h) /\ targets' = targets
    <3>1. Others(h) /\ at'[h] = "call"
      BY <2>7, <1>t, <1>r DEF Others, Places
    <3>2. PushOK'
      BY <1>p, <3>1, PushKept
    <3> QED BY <3>1, <3>2, <2>4, <2>6, <1>x
  <2>8. CASE ~(Return(h) /\ targets' = targets)
    <3>1. /\ qs # << >> /\ targets' = [targets EXCEPT ![h] = qs] /\ calls' = calls
          /\ \E p \in {"block", "push"} : at' = [at EXCEPT ![h] = p]
      BY <1>1, <2>8 DEF BeginPush
    <3> HIDE DEF qs
    <3>2. Others(h) /\ targets'[h] = qs
      BY <3>1, <2>3, <1>t DEF Others, Places, Pushing
    <3>3. PushOK'
      BY <3>1, <3>2, <2>1, <2>3, PushKept
    <3> QED BY <3>2, <3>3, <2>4, <2>6, <1>x
  <2> QED BY <2>7, <2>8
<1>2. CASE PushBlocked(h)
  <2>1. /\ at[h] = "block" /\ at' = [at EXCEPT ![h] = "push"]
        /\ UNCHANGED <<calls, targets, cnt, issued>>
    BY <1>2 DEF PushBlocked, events
  <2>2. Others(h) /\ at[h] \in Pushing
    BY <2>1, <1>t DEF Others, Places, Pushing
  <2>3. PushOK'
    BY <2>1, <2>2, PushKept DEF PushOK
  <2> QED BY <2>1, <2>2, <2>3, <1>t, <1>x
<1>3. CASE Push(h)
  <2>1. at[h] = "push" /\ at[h] \in Pushing /\ UNCHANGED <<cnt, issued>>
    BY <1>3 DEF Push, events, Pushing
  <2>2. CASE NextTarget(h)
    BY <2>1, <2>2, <1>n
  <2>3. CASE ~NextTarget(h)
    <3>1. at' = [at EXCEPT ![h] = "drain"] /\ UNCHANGED <<calls, targets>>
      BY <1>3, <2>3 DEF Push
    <3>2. Others(h)
      BY <3>1, <1>t DEF Others, Places, Pushing
    <3>3. PushOK'
      BY <2>1, <3>1, <3>2, PushKept DEF PushOK
    <3> QED BY <2>1, <3>2, <3>3, <1>t, <1>x
  <2> QED BY <2>2, <2>3
<1>4. CASE Drain(h)
  <2>1. at[h] \in Pushing /\ UNCHANGED <<cnt, issued>>
    BY <1>4 DEF Drain, events, Pushing
  <2>2. CASE NextTarget(h)
    BY <2>1, <2>2, <1>n
  <2>3. CASE ~NextTarget(h)
    BY <1>4, <2>1, <2>3, <1>u DEF Drain
  <2> QED BY <2>2, <2>3
<1>q. {"call", "sync", "sync_scan", "destroy_sync", "destroy", "exit"} \subseteq Places \ Pushing
  BY DEF Places, Pushing
<1>5. CASE BeginSync(h)
  BY <1>5, <1>s, <1>q DEF BeginSync, events
<1>6. CASE StreamSync(h)
  BY <1>6, <1>s, <1>q, <1>r DEF StreamSync, events
<1>7. CASE SyncLock(h)
  BY <1>7, <1>s, <1>q DEF SyncLock, events
<1>8. CASE SyncScan(h)
  <2>1. UNCHANGED <<cnt, targets, issued>>
    BY <1>8 DEF SyncScan, events
  <2>2. \/ UNCHANGED <<at, calls>>
        \/ Return(h)
        \/ at' = [at EXCEPT ![h] = "sync"] /\ UNCHANGED calls
    BY <1>8 DEF SyncScan
  <2> QED BY <2>1, <2>2, <1>u, <1>s, <1>q, <1>r
<1>9. CASE AddStream(h)
  BY <1>9, <1>s, <1>q, <1>r DEF AddStream, events
<1>10. CASE BeginDestroy(h)
  BY <1>10, <1>s, <1>q DEF BeginDestroy, events
<1>11. CASE DestroyLock(h)
  BY <1>11, <1>s, <1>q DEF DestroyLock, events
<1>12. CASE Destroy(h)
  BY <1>12, <1>s, <1>q, <1>r DEF Destroy, events
<1>13. CASE BeginExit(h)
  BY <1>13, <1>s, <1>q DEF BeginExit, events
<1>14. CASE Exit(h)
  BY <1>14, <1>s, <1>q, <1>r DEF Exit, events
<1> QED
  BY <1>1, <1>2, <1>3, <1>4, <1>5, <1>6, <1>7, <1>8, <1>9, <1>10, <1>11, <1>12, <1>13, <1>14
     DEF HostStep

\* A kernel that was pushed stays pushed, whatever a host does.
LEMMA HostPushed ==
  ASSUME HostsOK, PushOK, QueuesOK, NEW h \in Host, HostStep(h), load' = load,
         UNCHANGED device, NEW k \in OpId, Pushed(k)
  PROVE  Pushed(k)'
<1>1. HostKernel' = HostKernel /\ Others(h)
  BY HostType, LoadFixed
<1>2. CASE k \in launched /\ ~Waits(k)
  BY <1>2 DEF Pushed, Waits, device
<1>3. CASE ~(k \in launched /\ ~Waits(k))
  <2> DEFINE g == k[1]
             n == k[2]
  <2>1. /\ k \in HostKernel /\ g \in Host /\ n \in Nat
        /\ n <= calls[g] + 1
        /\ n = calls[g] + 1 => at[g] = "drain"
    BY <1>3, Kernels DEF Pushed
  <2>2. calls[g] \in Nat /\ calls[h] \in Nat
    BY <2>1 DEF HostsOK
  <2>3. CASE g # h
    <3>1. calls'[g] = calls[g] /\ at'[g] = at[g]
      BY <1>1, <2>1, <2>3, OthersKept
    <3> QED BY <1>1, <2>1, <3>1 DEF Pushed
  <2>4. CASE g = h /\ calls'[h] = calls[h] + 1
    BY <1>1, <2>1, <2>2, <2>4 DEF Pushed
  <2>5. CASE g = h /\ calls'[h] = calls[h] /\ n # calls[h] + 1
    BY <1>1, <2>1, <2>2, <2>5 DEF Pushed
  <2>6. CASE g = h /\ calls'[h] = calls[h] /\ n = calls[h] + 1
    <3>1. at[h] = "drain" /\ CurrentCall(h).call = "kernel"
      BY <2>1, <2>6 DEF HostKernel, CurrentCall
    <3>2. Len(targets[h]) = 1
      BY <3>1 DEF PushOK, Pushing
    <3>3. ~NextTarget(h)
      BY <3>2, <2>2, <2>6 DEF NextTarget, Return, HostsOK
    <3>4. Drain(h)
      BY <3>1 DEF HostStep, BeginPush, PushBlocked, Push, BeginSync, StreamSync, SyncLock, SyncScan,
                  AddStream, BeginDestroy, DestroyLock, Destroy, BeginExit, Exit, Calls
    <3>5. at' = at
      BY <3>3, <3>4 DEF Drain
    <3> QED BY <1>1, <2>1, <2>6, <3>1, <3>5 DEF Pushed
  <2> QED BY <1>1, <2>3, <2>4, <2>5, <2>6, OthersKept
<1> QED BY <1>2, <1>3

\* The steps of a host leave the GPU alone.
LEMMA HostFrame ==
  ASSUME NEW h \in Host, HostStep(h)
  PROVE  /\ UNCHANGED <<gpu, thread, m_pending, m_grid_id_to_stream, updates, break_limit>>
         /\ m_operations' = m_operations \/ Push(h)
         /\ UNCHANGED <<m_streams, m_last_stream>> \/ AddStream(h) \/ Destroy(h)
<1>1. UNCHANGED <<gpu, thread, m_pending, m_grid_id_to_stream, updates, break_limit>>
  BY DEF HostStep, BeginPush, PushBlocked, Push, Drain, BeginSync, StreamSync, SyncLock, SyncScan,
         AddStream, BeginDestroy, DestroyLock, Destroy, BeginExit, Exit, queues, events, flags
<1>2. m_operations' = m_operations \/ Push(h)
  BY DEF HostStep, BeginPush, PushBlocked, Drain, BeginSync, StreamSync, SyncLock, SyncScan,
         AddStream, BeginDestroy, DestroyLock, Destroy, BeginExit, Exit, queues
<1>3. UNCHANGED <<m_streams, m_last_stream>> \/ AddStream(h) \/ Destroy(h)
  BY DEF HostStep, BeginPush, PushBlocked, Push, Drain, BeginSync, StreamSync, SyncLock, SyncScan,
         BeginDestroy, DestroyLock, BeginExit, Exit, queues
<1> QED BY <1>1, <1>2, <1>3

\* What is left of a list of streams: front() starts at the first one.
LEMMA StreamsLeft ==
  ASSUME m_streams \in Seq(Queue), NEW S,
         m_streams' = Only(m_streams, S),
         m_last_stream' = IF m_streams' = << >> THEN ZERO ELSE Head(m_streams')
  PROVE  /\ m_streams' \in Seq(Queue)
         /\ m_last_stream' = ZERO \/ \E j \in 1 .. Len(m_streams') : m_streams'[j] = m_last_stream'
<1>1. m_streams' \in Seq(Queue)
  BY OnlyType
<1>2. CASE m_streams' # << >>
  <2>1. 1 \in 1 .. Len(m_streams') /\ Head(m_streams') = m_streams'[1]
    BY <1>1, <1>2
  <2> QED BY <1>1, <1>2, <2>1
<1>3. CASE m_streams' = << >>
  BY <1>1, <1>3
<1> QED BY <1>2, <1>3

\* The operation that a host pushes: a kernel that no queue has.
LEMMA NewOpFresh ==
  ASSUME HostsOK, PushOK, OpsOK, QueuesOK, GpuOK, NEW h \in Host, at[h] = "push"
  PROVE  /\ NewOp(h) \in Op
         /\ NewOp(h).kind = "kernel" =>
              /\ NewOp(h).id \in HostKernel
              /\ \A r \in Queue, i \in Nat : ~KernelOp(r, i, NewOp(h).id)
<1>1. calls[h] < Len(Program[h]) /\ CurrentCall(h).call \in OpKind /\ calls[h] \in Nat
  BY DEF PushOK, Pushing, HostsOK
<1>2. CurrentCall(h) \in Call /\ calls[h] + 1 \in DOMAIN Program[h]
  BY <1>1, CallType
<1>3. CurrentCall(h).event \in Event /\ cnt[h] \in Nat
  BY <1>2 DEF Call, HostsOK
<1>4. <<h, calls[h] + 1>> \in OpId
  BY <1>1 DEF OpId
<1>5. NewOp(h) \in Op
  BY <1>1, <1>3, <1>4 DEF Op, NewOp
<1>6. ASSUME NewOp(h).kind = "kernel"
      PROVE  <<h, calls[h] + 1>> \in HostKernel
  <2>1. Program[h][calls[h] + 1].call = "kernel"
    BY <1>6 DEF NewOp, CurrentCall
  <2> QED BY <2>1, <1>2 DEF HostKernel
<1>7. ASSUME <<h, calls[h] + 1>> \in HostKernel, NEW r \in Queue, NEW i \in Nat,
             KernelOp(r, i, <<h, calls[h] + 1>>)
      PROVE  FALSE
  <2>1. Pushed(<<h, calls[h] + 1>>)
    BY <1>4, <1>7 DEF OpsOK
  <2>2. <<h, calls[h] + 1>> \notin launched
    BY <1>7, Kernels DEF GpuOK
  <2> QED BY <2>1, <2>2 DEF Pushed
<1>8. NewOp(h).id = <<h, calls[h] + 1>>
  BY DEF NewOp
<1> QED BY <1>5, <1>6, <1>7, <1>8

\* The steps of a host keep every kernel's queue.
LEMMA HostKeeps ==
  ASSUME Queued, NEW h \in Host, HostStep(h), load' = load
  PROVE  Queued'
<1>f. Program' = Program /\ HostKernel' = HostKernel /\ DeviceKernel' = DeviceKernel /\ Kernel' = Kernel
  BY LoadFixed
<1>g. /\ UNCHANGED <<running, finished, left, m_child_kernels, launched, g_cuda_device_launch_op,
                     sim, m_pending, m_grid_id_to_stream>>
      /\ UNCHANGED device
  BY HostFrame DEF gpu, device, thread
<1>1. HostsOK' /\ PushOK'
  BY HostType DEF Queued
<1>2. GpuOK' /\ WaitOK' /\ Apart' /\ OneAtATime'
  BY <1>f, <1>g DEF Queued, GpuOK, WaitOK, Apart, OneAtATime
<1>3. ASSUME NEW k \in OpId, Pushed(k)
      PROVE  Pushed(k)'
  BY <1>3, <1>g, HostPushed DEF Queued
<1>4. /\ m_streams' \in Seq(Queue)
      /\ m_last_stream' = ZERO \/ \E j \in 1 .. Len(m_streams') : m_streams'[j] = m_last_stream'
  <2>1. CASE UNCHANGED <<m_streams, m_last_stream>>
    BY <2>1 DEF Queued, QueuesOK
  <2>2. CASE AddStream(h)
    <3>1. /\ m_streams' = Append(m_streams, CurrentCall(h).stream) /\ m_last_stream' = m_last_stream
          /\ calls[h] < Len(Program[h])
      BY <2>2 DEF AddStream, Calls
    <3>2. CurrentCall(h).stream \in Queue
      BY <3>1, CallType DEF Queued, Call
    <3>3. /\ m_streams' \in Seq(Queue) /\ Len(m_streams') = Len(m_streams) + 1
          /\ \A j \in 1 .. Len(m_streams) : m_streams'[j] = m_streams[j] /\ j \in 1 .. Len(m_streams')
      BY <3>1, <3>2 DEF Queued, QueuesOK
    <3> QED BY <3>1, <3>3 DEF Queued, QueuesOK
  <2>3. CASE Destroy(h)
    <3> DEFINE S == Queue \ {CurrentCall(h).stream}
    <3>1. /\ m_streams' = Only(m_streams, S)
          /\ m_last_stream' = IF m_streams' = << >> THEN ZERO ELSE Head(m_streams')
      BY <2>3 DEF Destroy
    <3>2. m_streams \in Seq(Queue)
      BY DEF Queued, QueuesOK
    <3> HIDE DEF S
    <3> QED BY <3>1, <3>2, StreamsLeft
  <2> QED BY <2>1, <2>2, <2>3, HostFrame
<1>5. /\ m_operations' \in [Queue -> Seq(Op)] /\ Unique'
      /\ \A q \in Queue, i \in Nat, k \in OpId : KernelOp(q, i, k) => KernelOp(q, i, k)'
      /\ \A q \in Queue, i \in Nat, k \in OpId : KernelOp(q, i, k)' => Pushed(k)'
  <2>1. CASE m_operations' = m_operations
    <3>1. \A q \in Queue, i \in Nat, k \in OpId : KernelOp(q, i, k) <=> KernelOp(q, i, k)'
      BY <2>1 DEF KernelOp
    <3> QED BY <2>1, <3>1, <1>3 DEF Queued, QueuesOK, OpsOK, Unique
  <2>2. CASE m_operations' # m_operations
    <3> DEFINE q == IF load.blocking THEN ZERO ELSE Head(targets[h])
    <3>1. Push(h) /\ at[h] = "push"
      BY <2>2, HostFrame DEF Push
    <3>2. m_operations' = [m_operations EXCEPT ![q] = Append(@, NewOp(h))]
      BY <2>2, <3>1 DEF Push
    <3>3. q \in Queue
      <4>1. targets[h] \in Seq(Queue) /\ targets[h] # << >>
        BY <3>1 DEF Queued, HostsOK, PushOK, Pushing
      <4>2. Head(targets[h]) \in Queue
        BY <4>1
      <4> QED BY <4>2 DEF Queue
    <3> HIDE DEF q
    <3>4. /\ NewOp(h) \in Op
          /\ NewOp(h).kind = "kernel" =>
               /\ NewOp(h).id \in HostKernel
               /\ \A r \in Queue, i \in Nat : ~KernelOp(r, i, NewOp(h).id)
      BY <3>1, NewOpFresh DEF Queued
    <3>o. PICK o \in Op : o = NewOp(h)
      BY <3>4
    <3>u. m_operations' = [m_operations EXCEPT ![q] = Append(@, o)] /\ QueuesOK
      BY <3>2, <3>o DEF Queued
    <3>5. Unique'
      BY <3>3, <3>4, <3>o, <3>u, PushUnique DEF Queued
    <3>6. /\ m_operations' \in [Queue -> Seq(Op)]
          /\ \A r \in Queue, i \in Nat, k \in OpId : KernelOp(r, i, k) => KernelOp(r, i, k)'
          /\ \A r \in Queue, i \in Nat, k \in OpId :
               KernelOp(r, i, k)' => \/ KernelOp(r, i, k)
                                     \/ /\ r = q /\ i = Len(m_operations[q]) + 1
                                        /\ o.kind = "kernel" /\ o.id = k
      BY <3>3, <3>u, PushOps
    <3>7. o.kind = "kernel" => Pushed(o.id)'
      <4> SUFFICES ASSUME o.kind = "kernel" PROVE Pushed(o.id)'
        OBVIOUS
      <4>1. o.id = <<h, calls[h] + 1>> /\ o.id \in HostKernel
        BY <3>4, <3>o DEF NewOp
      <4>2. calls[h] \in Nat /\ at \in [Host -> Places] /\ calls \in [Host -> Nat]
        BY DEF Queued, HostsOK
      <4>3. at'[h] = "drain" \/ calls'[h] = calls[h] + 1
        <5>1. CASE at' = [at EXCEPT ![h] = "drain"]
          BY <4>2, <5>1
        <5>2. CASE NextTarget(h)
          <6>1. CurrentCall(h).call = "kernel"
            BY <3>o DEF NewOp
          <6>2. Len(targets[h]) = 1
            BY <3>1, <6>1 DEF Queued, PushOK, Pushing
          <6> QED BY <4>2, <5>2, <6>2 DEF NextTarget, Return
        <5> QED BY <3>1, <5>1, <5>2 DEF Push
      <4>4. calls'[h] = calls[h] \/ calls'[h] = calls[h] + 1
        BY HostType, OthersKept DEF Queued
      <4> QED BY <1>f, <4>1, <4>2, <4>3, <4>4 DEF Pushed
    <3>8. \A r \in Queue, i \in Nat, k \in OpId : KernelOp(r, i, k)' => Pushed(k)'
      BY <1>3, <3>6, <3>7 DEF Queued, OpsOK
    <3> QED BY <3>5, <3>6, <3>8
  <2> QED BY <2>1, <2>2
<1>6. QueuesOK' /\ OpsOK' /\ Unique'
  BY <1>4, <1>5, <1>g DEF Queued, QueuesOK, OpsOK
<1>7. OwnersOK'
  <2>1. \A k \in Kernel, q \in Queue : Owns(k, q) => Owns(k, q)'
    BY <1>5, <1>g, Kernels DEF Owns, Queued
  <2>2. \A k \in Kernel : Owner(k)' => Owner(k)
    BY <1>f, <1>g DEF Owner
  <2> QED BY <1>f, <2>1, <2>2 DEF Queued, OwnersOK
<1> QED BY <1>1, <1>2, <1>6, <1>7 DEF Queued

-------------------------------------------------------------------------------
(***************************************************************************)
(* The simulation thread.                                                  *)
(***************************************************************************)

\* The queue of a kernel that owns one is no other owner's.
LEMMA OwnsOnce ==
  ASSUME NEW k \in Kernel, NEW x \in Kernel, NEW q \in Queue, Owns(k, q), Owns(x, q)
  PROVE  k = x
BY DEF Owns, KernelOp

\* An owner keeps its queue while other queues lose their fronts.
LEMMA OwnerStays ==
  ASSUME QueuesOK, HostsOK, NEW k \in Kernel, NEW q \in Queue, Owns(k, q),
         NEW qs, q \notin qs, \A r \in Queue : r \in qs => m_operations[r] # << >>,
         RecordNextDone(qs),
         k \in DOMAIN m_grid_id_to_stream',
         m_grid_id_to_stream'[k] = m_grid_id_to_stream[k]
  PROVE  Owns(k, q)'
<1>1. m_operations'[q] = m_operations[q] /\ m_pending'[q] = m_pending[q]
  BY PopOps
<1>2. KernelOp(q, 1, k)'
  BY <1>1 DEF Owns, KernelOp
<1> QED BY <1>1, <1>2 DEF Owns

\* The i-th queue that front() visits is a queue of the list.
LEMMA VisitIs ==
  ASSUME QueuesOK, NEW i \in 1 .. Len(m_streams)
  PROVE  Visit(i) \in Queue /\ \E j \in 1 .. Len(m_streams) : m_streams[j] = Visit(i)
<1> DEFINE n == Len(m_streams)
           p == IF m_last_stream = ZERO THEN 0
                  ELSE CHOOSE j \in 1 .. n : m_streams[j] = m_last_stream
<1>1. n \in Nat /\ i \in 1 .. n /\ m_streams \in Seq(Queue) /\ n > 0
  BY DEF QueuesOK
<1>2. p \in 0 .. n
  <2>1. CASE m_last_stream = ZERO
    BY <1>1, <2>1
  <2>2. CASE m_last_stream # ZERO
    <3>1. \E j \in 1 .. n : m_streams[j] = m_last_stream
      BY <2>2 DEF QueuesOK
    <3>2. p \in 1 .. n
      BY <2>2, <3>1
    <3> QED BY <1>1, <3>2
  <2> QED BY <2>1, <2>2
<1>3. Visit(i) = m_streams[((p + i - 1) % n) + 1]
  BY DEF Visit
<1> HIDE DEF p
<1>4. p + i - 1 \in Int
  BY <1>1, <1>2
<1> DEFINE j == ((p + i - 1) % n) + 1
<1>5. j \in 1 .. n
  BY <1>1, <1>4
<1>6. Visit(i) = m_streams[j]
  BY <1>3
<1> HIDE DEF j, n
<1>7. m_streams[j] \in Queue
  BY <1>1, <1>5 DEF n
<1> QED BY <1>5, <1>6, <1>7 DEF n

\* What front() returns, and where it stops.
LEMMA FrontIs ==
  ASSUME QueuesOK
  PROVE  /\ FrontQueue \in Queue
         /\ FrontLast = ZERO \/ \E j \in 1 .. Len(m_streams) : m_streams[j] = FrontLast
<1> DEFINE n == Len(m_streams)
           ready == {i \in 1 .. n : Serviceable(Visit(i))}
           first == CHOOSE i \in ready : \A j \in ready : i <= j
<1>1. n \in Nat /\ m_streams \in Seq(Queue)
  BY DEF QueuesOK
<1>2. ready # {} => first \in 1 .. n
  <2> SUFFICES ASSUME ready # {} PROVE first \in 1 .. n
    OBVIOUS
  <2>1. ready \in SUBSET Nat
    BY <1>1
  <2>2. \E i \in ready : \A j \in ready : i <= j
    BY <2>1, LeastExists
  <2>3. first \in ready
    BY <2>2
  <2> QED BY <2>3
<1>3. FrontQueue = IF Serviceable(ZERO) \/ ready = {} THEN ZERO ELSE Visit(first)
  BY DEF FrontQueue
<1> HIDE DEF first, ready
<1>4. FrontQueue = ZERO \/ \E j \in 1 .. n : FrontQueue \in Queue /\ m_streams[j] = FrontQueue
  <2>1. CASE Serviceable(ZERO) \/ ready = {}
    BY <1>3, <2>1
  <2>2. CASE ~(Serviceable(ZERO) \/ ready = {})
    <3>1. FrontQueue = Visit(first) /\ first \in 1 .. Len(m_streams)
      BY <1>2, <1>3, <2>2
    <3> QED BY <3>1, VisitIs
  <2> QED BY <2>1, <2>2
<1>5. FrontQueue \in Queue
  BY <1>4 DEF Queue
<1>6. FrontLast = m_last_stream \/ \E j \in 1 .. n : m_streams[j] = FrontLast
  <2>1. CASE Serviceable(ZERO) \/ m_streams = << >>
    BY <2>1 DEF FrontLast
  <2>2. CASE ~(Serviceable(ZERO) \/ m_streams = << >>) /\ FrontQueue # ZERO
    BY <2>2, <1>4 DEF FrontLast
  <2>3. CASE ~(Serviceable(ZERO) \/ m_streams = << >>) /\ FrontQueue = ZERO
    <3>1. n \in 1 .. n
      BY <1>1, <2>3
    <3>2. FrontLast = Visit(Len(m_streams))
      BY <2>3 DEF FrontLast
    <3> QED BY <3>1, <3>2, VisitIs
  <2> QED BY <2>1, <2>2, <2>3
<1> QED BY <1>5, <1>6 DEF QueuesOK

\* The kernels that are over have a queue each, and nothing is left of them.
LEMMA OverIs ==
  ASSUME Queued, Untangled, finished # << >>, NEW ks, ks = Over(Head(finished))
  PROVE  /\ ks \subseteq Kernel /\ \A k \in ks : Owner(k)
         /\ \A k \in ks :
              /\ k \notin running
              /\ \A i \in 2 .. Len(finished) : finished[i] # k
              /\ m_child_kernels[k] \subseteq ks
<1> DEFINE f == Head(finished)
<1>1. /\ f \in Kernel /\ f = finished[1] /\ 1 \in 1 .. Len(finished) /\ Owner(f)
      /\ Len(finished) \in Nat
  BY DEF Queued, GpuOK, Owner
<1>2. f \notin running /\ \A i \in 2 .. Len(finished) : finished[i] # f
  BY <1>1 DEF Queued, Apart
<1>3. CASE ~IsFinished(f)
  BY <1>3 DEF Over
<1>4. CASE IsFinished(f)
  <2> DEFINE ps == {p \in HostKernel : left[p] = 0 /\ m_child_kernels[p] = {f}}
  <2>1. ks = {f} \cup ps /\ m_child_kernels[f] = {}
    BY <1>4 DEF Over, IsFinished
  <2>2. \A p \in ps : p \in Kernel /\ Owner(p) /\ m_child_kernels[p] = {f}
    BY DEF Owner, Kernel
  <2>3. ASSUME NEW p \in ps
        PROVE  p \notin running /\ \A i \in 2 .. Len(finished) : finished[i] # p
    <3>1. DeviceKernel # {}
      BY <2>2, <2>3 DEF Queued, GpuOK
    <3>2. load.slots = 1
      BY <3>1, NoDevice DEF Queued
    <3>3. running = {} /\ Len(finished) = 1
      BY <3>2 DEF Queued, OneAtATime
    <3> QED BY <3>3
  <2> QED BY <1>1, <1>2, <2>1, <2>2, <2>3
<1> QED BY <1>3, <1>4

\* check_finished_kernel takes the kernels that are over, and only them, from their queues.
LEMMA FinishKeeps ==
  ASSUME Queued, Untangled, finished # << >>, CheckFinishedKernel(Over(Head(finished))),
         UNCHANGED <<load, running, left, launched, g_cuda_device_launch_op, at, calls, cnt,
                     targets, issued>>
  PROVE  Queued' /\ \E qs \in SUBSET Queue : Order!Complete(qs)
<1>f. Program' = Program /\ HostKernel' = HostKernel /\ DeviceKernel' = DeviceKernel /\ Kernel' = Kernel
  BY LoadFixed
<1>ks. PICK ks : ks = Over(Head(finished))
  OBVIOUS
<1> DEFINE qs == {m_grid_id_to_stream[k] : k \in ks}
<1>1. /\ ks \subseteq Kernel /\ \A k \in ks : Owner(k)
      /\ \A k \in ks : /\ k \notin running
                       /\ \A i \in 2 .. Len(finished) : finished[i] # k
                       /\ m_child_kernels[k] \subseteq ks
  BY <1>ks, OverIs
<1>2. /\ finished' = Tail(finished)
      /\ RecordNextDone(qs)
      /\ m_grid_id_to_stream' = Forget(ks)
      /\ m_child_kernels' = [k \in Kernel |-> m_child_kernels[k] \ ks]
      /\ m_streams' = Only(m_streams, Queue \ Freed(ks))
      /\ m_last_stream' = IF Freed(ks) = {} THEN m_last_stream
                          ELSE IF m_streams' = << >> THEN ZERO ELSE Head(m_streams')
  BY <1>ks DEF CheckFinishedKernel
<1>3. \A k \in ks : \E q \in Queue : Owns(k, q) /\ m_grid_id_to_stream[k] = q
  BY <1>1 DEF Queued, OwnersOK, Owns
<1>4. qs \in SUBSET Queue
  BY <1>3
<1>5. ASSUME NEW q \in qs
      PROVE  m_pending[q] /\ m_operations[q] # << >>
  <2>1. PICK k \in ks : q = m_grid_id_to_stream[k]
    BY <1>5
  <2>2. Owns(k, q) /\ q \in Queue
    BY <1>3, <2>1
  <2>3. 1 \in 1 .. Len(m_operations[q]) /\ m_operations[q] \in Seq(Op)
    BY <2>2 DEF Owns, KernelOp, Queued, QueuesOK
  <2> QED BY <2>2, <2>3 DEF Owns
<1>6. \A k \in Kernel, q \in Queue : Owns(k, q) /\ k \notin ks => q \notin qs
  BY <1>1, <1>3, OwnsOnce
<1> HIDE DEF qs
<1>7. /\ m_operations' \in [Queue -> Seq(Op)] /\ m_pending' \in [Queue -> BOOLEAN]
      /\ \A q \in Queue, i \in Nat, k \in OpId :
           KernelOp(q, i, k)' => KernelOp(q, IF q \in qs THEN i + 1 ELSE i, k)
  BY <1>2, <1>5, PopOps DEF Queued
<1>8. HostsOK' /\ PushOK'
  BY <1>f DEF Queued, HostsOK, PushOK, CurrentCall
<1>9. /\ m_streams' \in Seq(Queue)
      /\ m_last_stream' = ZERO \/ \E j \in 1 .. Len(m_streams') : m_streams'[j] = m_last_stream'
  <2>1. m_streams \in Seq(Queue)
    BY DEF Queued, QueuesOK
  <2>2. CASE Freed(ks) = {}
    <3>1. Queue \subseteq Queue \ Freed(ks)
      BY <2>2
    <3>2. m_streams' = m_streams /\ m_last_stream' = m_last_stream
      BY <1>2, <2>1, <2>2, <3>1, OnlyAll
    <3> QED BY <3>2 DEF Queued, QueuesOK
  <2>3. CASE Freed(ks) # {}
    <3>1. m_last_stream' = IF m_streams' = << >> THEN ZERO ELSE Head(m_streams')
      BY <1>2, <2>3
    <3> QED BY <1>2, <2>1, <3>1, StreamsLeft
  <2> QED BY <2>2, <2>3
<1>10. QueuesOK'
  BY <1>7, <1>9 DEF QueuesOK
<1>11. Unique'
  BY <1>7, PopUnique DEF Queued
<1>12. OpsOK'
  <2>1. \A k \in OpId : Pushed(k) => Pushed(k)'
    BY <1>f DEF Pushed, Waits
  <2>2. \A q \in Queue, i \in Nat, k \in OpId : KernelOp(q, i, k)' => \E j \in Nat : KernelOp(q, j, k)
    BY <1>7
  <2> QED BY <2>1, <2>2 DEF Queued, OpsOK
<1>13. /\ finished \in Seq(Kernel) /\ Len(finished) \in Nat /\ Len(finished) > 0
       /\ finished' \in Seq(Kernel) /\ Len(finished') = Len(finished) - 1
       /\ \A i \in 1 .. Len(finished') : finished'[i] = finished[i + 1] /\ i + 1 \in 2 .. Len(finished)
  BY <1>2 DEF Queued, GpuOK
<1>14. \A i \in 1 .. Len(finished') : i \in Nat /\ i + 1 \in 1 .. Len(finished)
  BY <1>13
<1>15. GpuOK'
  <2>1. m_child_kernels' \in [Kernel -> SUBSET DeviceKernel]
    BY <1>2 DEF Queued, GpuOK
  <2> QED BY <1>f, <1>13, <2>1 DEF Queued, GpuOK
<1>16. WaitOK'
  BY DEF Queued, WaitOK
<1>17. Apart'
  <2>1. \A i, j \in 1 .. Len(finished') : finished'[i] = finished'[j] => i = j
    BY <1>13, <1>14 DEF Queued, Apart
  <2> QED BY <1>13, <1>14, <2>1 DEF Queued, Apart
<1>18. OneAtATime'
  <2>1. load.slots = 1 => finished' = << >>
    <3> SUFFICES ASSUME load.slots = 1 PROVE finished' = << >>
      OBVIOUS
    <3>1. Len(finished) = 1
      BY DEF Queued, OneAtATime
    <3> QED BY <1>13, <3>1
  <2> QED BY <2>1 DEF Queued, OneAtATime
<1>19. OwnersOK'
  <2> SUFFICES ASSUME NEW k \in Kernel, Owner(k)'
               PROVE  \E q \in Queue : Owns(k, q)'
    BY <1>f DEF OwnersOK
  <2>1. Owner(k) /\ k \notin ks
    <3>1. CASE k \in running'
      BY <1>1, <3>1 DEF Owner
    <3>2. CASE \E i \in 1 .. Len(finished') : finished'[i] = k
      BY <1>1, <1>13, <1>14, <3>2 DEF Owner
    <3>3. CASE k \in HostKernel' /\ m_child_kernels'[k] # {}
      <4>1. m_child_kernels'[k] = m_child_kernels[k] \ ks
        BY <1>2
      <4>2. m_child_kernels[k] # {} /\ ~(m_child_kernels[k] \subseteq ks)
        BY <3>3, <4>1
      <4> QED BY <1>1, <1>f, <3>3, <4>2 DEF Owner
    <3> QED BY <3>1, <3>2, <3>3 DEF Owner
  <2>2. PICK q \in Queue : Owns(k, q)
    BY <2>1 DEF Queued, OwnersOK
  <2>3. q \notin qs
    BY <1>6, <2>1, <2>2
  <2>4. k \in DOMAIN m_grid_id_to_stream' /\ m_grid_id_to_stream'[k] = m_grid_id_to_stream[k]
    BY <1>2, <2>1, <2>2 DEF Forget, Owns
  <2> QED BY <1>2, <1>5, <2>2, <2>3, <2>4, OwnerStays DEF Queued
<1>20. Order!Complete(qs)
  BY <1>2, <1>5 DEF RecordNextDone, Order!Complete
<1> QED
  BY <1>4, <1>8, <1>10, <1>11, <1>12, <1>15, <1>16, <1>17, <1>18, <1>19, <1>20 DEF Queued

\* A queue that may be served is no owner's, and the kernel at its front owns nothing yet.
LEMMA ServedIsFree ==
  ASSUME Queued, NEW q \in Queue, Serviceable(q)
  PROVE  /\ Head(m_operations[q]) \in Op /\ m_operations[q] # << >> /\ ~m_pending[q]
         /\ \A k \in Kernel, r \in Queue : Owns(k, r) => r # q
         /\ Head(m_operations[q]).kind = "kernel" =>
              /\ Head(m_operations[q]).id \in Kernel
              /\ ~Owner(Head(m_operations[q]).id)
              /\ KernelOp(q, 1, Head(m_operations[q]).id)
<1>1. m_operations[q] \in Seq(Op) /\ m_operations[q] # << >> /\ ~m_pending[q]
  BY DEF Queued, QueuesOK, Serviceable
<1>2. /\ Head(m_operations[q]) \in Op /\ Head(m_operations[q]) = m_operations[q][1]
      /\ 1 \in 1 .. Len(m_operations[q])
  BY <1>1
<1>3. \A k \in Kernel, r \in Queue : Owns(k, r) => r # q
  BY <1>1 DEF Owns
<1>4. ASSUME Head(m_operations[q]).kind = "kernel"
      PROVE  /\ Head(m_operations[q]).id \in Kernel
             /\ ~Owner(Head(m_operations[q]).id)
             /\ KernelOp(q, 1, Head(m_operations[q]).id)
  <2> DEFINE k == Head(m_operations[q]).id
  <2>1. k \in OpId /\ KernelOp(q, 1, k)
    BY <1>2, <1>4 DEF Op, KernelOp
  <2>2. Pushed(k)
    BY <2>1 DEF Queued, OpsOK
  <2>3. k \in Kernel
    BY <2>2 DEF Pushed, Kernel, Queued, GpuOK
  <2>4. ASSUME Owner(k)
        PROVE  FALSE
    <3>1. PICK r \in Queue : Owns(k, r)
      BY <2>3, <2>4 DEF Queued, OwnersOK
    <3>2. KernelOp(r, 1, k) /\ r # q
      BY <1>3, <2>3, <3>1 DEF Owns
    <3> QED BY <2>1, <3>2 DEF Queued, Unique
  <2> QED BY <2>1, <2>3, <2>4
<1> QED BY <1>1, <1>2, <1>3, <1>4

\* What operation() does to the operation at the front of queue q.
Pops(q) ==
  /\ Head(m_operations[q]).kind # "kernel"
  /\ RecordNextDone({q})
  /\ UNCHANGED <<m_grid_id_to_stream, running>>

Starts(q) ==
  LET k == Head(m_operations[q]).id IN
  /\ Head(m_operations[q]).kind = "kernel" /\ CanStartKernel
  /\ running' = running \cup {k}
  /\ m_pending' = [m_pending EXCEPT ![q] = TRUE]
  /\ m_grid_id_to_stream' = [x \in DOMAIN m_grid_id_to_stream \cup {k} |->
                               IF x = k THEN q ELSE m_grid_id_to_stream[x]]
  /\ UNCHANGED m_operations

Retries(q) ==
  /\ UNCHANGED <<m_operations, m_pending, running>>
  /\ \/ UNCHANGED m_grid_id_to_stream
     \/ /\ Head(m_operations[q]).kind = "kernel"
        /\ m_grid_id_to_stream' = Forget({Head(m_operations[q]).id})

\* There is no fourth thing it does.
LEMMA OperationDoes ==
  ASSUME QueuesOK, Operation
  PROVE  LET q == FrontQueue IN
         \/ Serviceable(q) /\ (Pops(q) \/ Starts(q) \/ Retries(q))
         \/ UNCHANGED <<m_operations, m_pending, m_grid_id_to_stream, running>>
<1>q. PICK q \in Queue : q = FrontQueue
  BY FrontIs
<1>1. CASE ~Serviceable(q)
  BY <1>q, <1>1 DEF Operation
<1>2. CASE Serviceable(q)
  <2> DEFINE o == Head(m_operations[q])
  <2>1. m_operations[q] \in Seq(Op) /\ m_operations[q] # << >>
    BY <1>2 DEF QueuesOK, Serviceable
  <2>2. o.kind \in OpKind
    <3>1. o \in Op
      BY <2>1
    <3> QED BY <3>1 DEF Op
  <2>3. DoOperation(q, o)
    BY <1>q, <1>2 DEF Operation
  <2>4. CASE o.kind = "kernel"
    <3>1. LaunchKernel(q, o.id)
      BY <2>3, <2>4 DEF DoOperation
    <3> QED BY <1>q, <1>2, <2>4, <3>1 DEF LaunchKernel, Starts, Retries
  <2>5. CASE o.kind = "memcpy"
    <3>1. Memcpy(q)
      BY <2>3, <2>5 DEF DoOperation
    <3> QED BY <1>q, <1>2, <2>5, <3>1 DEF Memcpy, Pops
  <2>6. CASE o.kind = "event"
    <3>1. UpdateEvent(q, o.event)
      BY <2>3, <2>6 DEF DoOperation
    <3> QED BY <1>q, <1>2, <2>6, <3>1 DEF UpdateEvent, Pops
  <2>7. CASE o.kind = "wait_event"
    <3>1. WaitEvent(q, o)
      BY <2>3, <2>7 DEF DoOperation
    <3> QED BY <1>q, <1>2, <2>7, <3>1 DEF WaitEvent, Pops, Retries
  <2> QED BY <2>2, <2>4, <2>5, <2>6, <2>7 DEF OpKind
<1> QED BY <1>q, <1>1, <1>2

\* What remains true whatever operation() does with the operation it selects.
LEMMA OperationFrame ==
  ASSUME Queued, Operation, load' = load
  PROVE  /\ UNCHANGED <<finished, left, launched, m_child_kernels, g_cuda_device_launch_op>>
         /\ HostsOK' /\ PushOK' /\ WaitOK'
         /\ m_streams' \in Seq(Queue)
         /\ m_last_stream' = ZERO \/ \E j \in 1 .. Len(m_streams') : m_streams'[j] = m_last_stream'
         /\ \A k \in OpId : Pushed(k) => Pushed(k)'
         /\ load.slots = 1 => finished = << >>
         /\ Kernel' = Kernel /\ HostKernel' = HostKernel /\ DeviceKernel' = DeviceKernel
<1>f. Program' = Program /\ HostKernel' = HostKernel /\ DeviceKernel' = DeviceKernel /\ Kernel' = Kernel
  BY LoadFixed
<1>1. /\ sim = "front" /\ m_last_stream' = FrontLast /\ m_streams' = m_streams
      /\ UNCHANGED <<finished, left, device, hosts, issued>>
  BY DEF Operation
<1>2. UNCHANGED <<launched, m_child_kernels, g_cuda_device_launch_op, at, calls, cnt, targets>>
  BY <1>1 DEF device, hosts
<1>3. HostsOK' /\ PushOK' /\ WaitOK'
  BY <1>f, <1>1, <1>2 DEF Queued, HostsOK, PushOK, WaitOK, CurrentCall
<1>4. \A k \in OpId : Pushed(k) => Pushed(k)'
  BY <1>f, <1>2 DEF Pushed, Waits
<1>5. load.slots = 1 => finished = << >>
  BY <1>1 DEF Queued, OneAtATime
<1>6. /\ m_streams' \in Seq(Queue)
      /\ m_last_stream' = ZERO \/ \E j \in 1 .. Len(m_streams') : m_streams'[j] = m_last_stream'
  BY <1>1, FrontIs DEF Queued, QueuesOK
<1> QED BY <1>f, <1>1, <1>2, <1>3, <1>4, <1>5, <1>6

\* operation() keeps every kernel's queue, and gives one to the kernel it starts.
LEMMA OperationKeeps ==
  ASSUME Queued, Operation, load' = load
  PROVE  Queued' /\ (Order!Next \/ UNCHANGED <<m_operations, m_pending>>)
<1>f. /\ UNCHANGED <<finished, left, launched, m_child_kernels, g_cuda_device_launch_op>>
      /\ HostsOK' /\ PushOK' /\ WaitOK'
      /\ m_streams' \in Seq(Queue)
      /\ m_last_stream' = ZERO \/ \E j \in 1 .. Len(m_streams') : m_streams'[j] = m_last_stream'
      /\ \A k \in OpId : Pushed(k) => Pushed(k)'
      /\ load.slots = 1 => finished = << >>
      /\ Kernel' = Kernel /\ HostKernel' = HostKernel /\ DeviceKernel' = DeviceKernel
  BY OperationFrame
<1>q. PICK q \in Queue : q = FrontQueue
  BY FrontIs DEF Queued
<1>t. m_operations \in [Queue -> Seq(Op)] /\ m_pending \in [Queue -> BOOLEAN] /\ Kernel \subseteq OpId
  BY Kernels DEF Queued, QueuesOK
\* The queues stay; no kernel starts.
<1>k. ASSUME UNCHANGED <<m_operations, m_pending, running>>,
             \A k \in Kernel : Owner(k) =>
               /\ k \in DOMAIN m_grid_id_to_stream'
               /\ m_grid_id_to_stream'[k] = m_grid_id_to_stream[k]
      PROVE  Queued'
  <2>1. \A r \in Queue, i \in Nat, k \in OpId : KernelOp(r, i, k)' <=> KernelOp(r, i, k)
    BY <1>k DEF KernelOp
  <2>2. QueuesOK' /\ OpsOK' /\ Unique'
    <3>1. QueuesOK'
      BY <1>k, <1>f, <1>t DEF QueuesOK
    <3>2. OpsOK'
      BY <1>f, <2>1 DEF Queued, OpsOK
    <3>3. Unique'
      BY <2>1 DEF Queued, Unique
    <3> QED BY <3>1, <3>2, <3>3
  <2>3. GpuOK' /\ Apart'
    BY <1>k, <1>f DEF Queued, GpuOK, Apart
  <2>4. OneAtATime'
    BY <1>k, <1>f DEF Queued, OneAtATime
  <2>5. \A k \in Kernel : Owner(k)' => Owner(k)
    BY <1>k, <1>f DEF Owner
  <2>6. ASSUME NEW k \in Kernel, Owner(k)
        PROVE  \E r \in Queue : Owns(k, r)'
    <3>1. PICK r \in Queue : Owns(k, r)
      BY <2>6 DEF Queued, OwnersOK
    <3>2. KernelOp(r, 1, k)'
      BY <1>t, <2>1, <3>1 DEF Owns
    <3> QED BY <1>k, <2>6, <3>1, <3>2 DEF Owns
  <2> QED BY <1>f, <2>2, <2>3, <2>4, <2>5, <2>6 DEF Queued, OwnersOK
<1>1. CASE UNCHANGED <<m_operations, m_pending, m_grid_id_to_stream, running>>
  <2>1. \A k \in Kernel : Owner(k) => k \in DOMAIN m_grid_id_to_stream
    BY DEF Queued, OwnersOK, Owns
  <2> QED BY <1>1, <2>1, <1>k
<1>2. CASE Serviceable(q) /\ Retries(q)
  <2>1. UNCHANGED <<m_operations, m_pending, running>>
    BY <1>2 DEF Retries
  <2>2. ASSUME NEW k \in Kernel, Owner(k)
        PROVE  /\ k \in DOMAIN m_grid_id_to_stream'
               /\ m_grid_id_to_stream'[k] = m_grid_id_to_stream[k]
    <3>1. k \in DOMAIN m_grid_id_to_stream
      BY <2>2 DEF Queued, OwnersOK, Owns
    <3>2. CASE UNCHANGED m_grid_id_to_stream
      BY <3>1, <3>2
    <3>3. CASE /\ Head(m_operations[q]).kind = "kernel"
               /\ m_grid_id_to_stream' = Forget({Head(m_operations[q]).id})
      <4>1. k # Head(m_operations[q]).id
        BY <1>2, <2>2, <3>3, ServedIsFree
      <4> QED BY <3>1, <3>3, <4>1 DEF Forget
    <3> QED BY <1>2, <3>2, <3>3 DEF Retries
  <2> QED BY <2>1, <2>2, <1>k
<1>3. CASE Serviceable(q) /\ Pops(q)
  <2> DEFINE qs == {q}
  <2>1. /\ RecordNextDone(qs) /\ m_operations[q] # << >> /\ ~m_pending[q]
        /\ Head(m_operations[q]).kind # "kernel"
        /\ UNCHANGED <<m_grid_id_to_stream, running>>
    BY <1>3, ServedIsFree DEF Pops
  <2>2. \A r \in Queue : r \in qs => m_operations[r] # << >>
    BY <2>1
  <2>o. Order!Perform(q)
    <3>1. m_pending' = m_pending
      BY <1>t, <2>1 DEF RecordNextDone
    <3>2. m_operations' = [m_operations EXCEPT ![q] = Tail(@)]
      BY <1>t, <2>1 DEF RecordNextDone
    <3> QED BY <2>1, <3>1, <3>2 DEF Order!Perform
  <2>d. q \in qs
    OBVIOUS
  <2>e. \A r \in Queue : r # q => r \notin qs
    OBVIOUS
  <2> HIDE DEF qs
  <2>3. /\ m_operations' \in [Queue -> Seq(Op)] /\ m_pending' \in [Queue -> BOOLEAN]
        /\ \A r \in Queue, i \in Nat, k \in OpId :
             KernelOp(r, i, k)' => KernelOp(r, IF r \in qs THEN i + 1 ELSE i, k)
    BY <2>1, <2>2, PopOps DEF Queued
  <2>4. Unique'
    BY <2>3, PopUnique DEF Queued
  <2>5. OpsOK'
    <3>1. \A r \in Queue, i \in Nat, k \in OpId : KernelOp(r, i, k)' => \E j \in Nat : KernelOp(r, j, k)
      BY <2>3
    <3> QED BY <1>f, <3>1 DEF Queued, OpsOK
  <2>6. QueuesOK'
    BY <1>f, <2>3 DEF QueuesOK
  <2>7. GpuOK' /\ Apart'
    BY <2>1, <1>f DEF Queued, GpuOK, Apart
  <2>8. OneAtATime'
    BY <2>1, <1>f DEF Queued, OneAtATime
  <2>9. ASSUME NEW k \in Kernel, Owner(k)'
        PROVE  \E r \in Queue : Owns(k, r)'
    <3>1. Owner(k)
      BY <2>1, <2>9, <1>f DEF Owner
    <3>2. PICK r \in Queue : Owns(k, r)
      BY <3>1 DEF Queued, OwnersOK
    <3>3. r \notin qs
      BY <1>3, <2>e, <3>2, ServedIsFree
    <3>4. k \in DOMAIN m_grid_id_to_stream' /\ m_grid_id_to_stream'[k] = m_grid_id_to_stream[k]
      BY <2>1, <3>2 DEF Owns
    <3> QED BY <2>1, <2>2, <3>2, <3>3, <3>4, OwnerStays DEF Queued
  <2> QED
    BY <1>f, <2>o, <2>4, <2>5, <2>6, <2>7, <2>8, <2>9 DEF Queued, OwnersOK, Order!Next
<1>4. CASE Serviceable(q) /\ Starts(q)
  <2>k. PICK k \in Kernel : k = Head(m_operations[q]).id /\ ~Owner(k) /\ KernelOp(q, 1, k)
    BY <1>4, ServedIsFree DEF Starts
  <2>1. /\ Head(m_operations[q]).kind = "kernel" /\ CanStartKernel
        /\ running' = running \cup {k}
        /\ m_pending' = [m_pending EXCEPT ![q] = TRUE]
        /\ m_grid_id_to_stream' = [x \in DOMAIN m_grid_id_to_stream \cup {k} |->
                                     IF x = k THEN q ELSE m_grid_id_to_stream[x]]
        /\ UNCHANGED m_operations
    BY <1>4, <2>k DEF Starts
  <2>o. Order!Launch(q)
    BY <1>4, <2>1, ServedIsFree DEF Order!Launch
  <2>2. \A r \in Queue, i \in Nat, x \in OpId : KernelOp(r, i, x)' <=> KernelOp(r, i, x)
    BY <2>1 DEF KernelOp
  <2>3. QueuesOK' /\ OpsOK' /\ Unique'
    <3>1. QueuesOK'
      BY <2>1, <1>f, <1>t DEF QueuesOK
    <3>2. OpsOK'
      BY <1>f, <2>2 DEF Queued, OpsOK
    <3>3. Unique'
      BY <2>2 DEF Queued, Unique
    <3> QED BY <3>1, <3>2, <3>3
  <2>4. GpuOK'
    <3>1. IsFiniteSet(running \cup {k})
      BY FS_AddElement DEF Queued, GpuOK
    <3> QED BY <2>1, <1>f, <3>1 DEF Queued, GpuOK
  <2>5. Apart'
    BY <2>1, <1>f, <2>k DEF Queued, Apart, Owner
  <2>6. OneAtATime'
    <3>1. load.slots = 1 => running = {}
      <4>1. IsFiniteSet(running)
        BY DEF Queued, GpuOK
      <4>2. Cardinality(running) \in Nat /\ (Cardinality(running) = 0 <=> running = {})
        BY <4>1, FS_CardinalityType, FS_EmptySet
      <4> QED BY <2>1, <4>2 DEF CanStartKernel
    <3> QED BY <2>1, <1>f, <3>1 DEF OneAtATime
  <2>7. ASSUME NEW x \in Kernel, Owner(x)'
        PROVE  \E r \in Queue : Owns(x, r)'
    <3>1. CASE x = k
      <4>1. k \in DOMAIN m_grid_id_to_stream' /\ m_grid_id_to_stream'[k] = q /\ m_pending'[q]
        BY <1>t, <2>1
      <4>2. KernelOp(q, 1, k)'
        BY <1>t, <2>2, <2>k
      <4> QED BY <3>1, <4>1, <4>2 DEF Owns
    <3>2. CASE x # k
      <4>1. Owner(x)
        BY <2>1, <2>7, <3>2, <1>f DEF Owner
      <4>2. PICK r \in Queue : Owns(x, r)
        BY <4>1 DEF Queued, OwnersOK
      <4>3. /\ x \in DOMAIN m_grid_id_to_stream' /\ m_grid_id_to_stream'[x] = r
            /\ m_pending'[r]
        BY <1>t, <2>1, <3>2, <4>2 DEF Owns
      <4>4. KernelOp(r, 1, x)'
        BY <1>t, <2>2, <4>2 DEF Owns
      <4> QED BY <4>3, <4>4 DEF Owns
    <3> QED BY <3>1, <3>2
  <2> QED BY <1>f, <2>o, <2>3, <2>4, <2>5, <2>6, <2>7 DEF Queued, OwnersOK, Order!Next
<1> QED
  <2>1. \/ Serviceable(q) /\ (Pops(q) \/ Starts(q) \/ Retries(q))
        \/ UNCHANGED <<m_operations, m_pending, m_grid_id_to_stream, running>>
    BY <1>q, OperationDoes DEF Queued
  <2> QED BY <2>1, <1>1, <1>2, <1>3, <1>4 DEF Retries

\* One list behind another, with no element twice.
OneByOne(s) == \A i, j \in 1 .. Len(s) : s[i] = s[j] => i = j
Foreign(s, t) == \A i \in 1 .. Len(s), j \in 1 .. Len(t) : s[i] # t[j]
From(r, s, t) == \A i \in 1 .. Len(r) : \/ \E j \in 1 .. Len(s) : r[i] = s[j]
                                        \/ \E j \in 1 .. Len(t) : r[i] = t[j]

LEMMA ConcatOnce ==
  ASSUME NEW V, NEW s \in Seq(V), NEW t \in Seq(V), NEW r, r = s \o t,
         OneByOne(s), OneByOne(t), Foreign(s, t)
  PROVE  r \in Seq(V) /\ OneByOne(r) /\ From(r, s, t)
<1> DEFINE m == Len(s)
           n == Len(t)
<1>1. m \in Nat /\ n \in Nat /\ r \in Seq(V) /\ Len(r) = m + n
  OBVIOUS
<1>2. \A i \in 1 .. m + n : r[i] = IF i <= m THEN s[i] ELSE t[i - m]
  OBVIOUS
<1> HIDE DEF m, n
<1>3. \A i \in 1 .. m + n : (i <= m => i \in 1 .. m) /\ (~(i <= m) => i - m \in 1 .. n)
  BY <1>1
<1>4. \A i \in 1 .. m + n : \/ \E j \in 1 .. m : r[i] = s[j]
                            \/ \E j \in 1 .. n : r[i] = t[j]
  BY <1>2, <1>3
<1>5. ASSUME NEW i \in 1 .. m + n, NEW j \in 1 .. m + n, r[i] = r[j]
      PROVE  i = j
  <2>1. CASE i <= m /\ j <= m
    BY <1>2, <1>3, <1>5, <2>1 DEF m, OneByOne
  <2>2. CASE ~(i <= m) /\ ~(j <= m)
    <3>1. i - m = j - m
      <4>1. i - m \in 1 .. n /\ j - m \in 1 .. n /\ t[i - m] = t[j - m]
        BY <1>2, <1>3, <1>5, <2>2
      <4> QED BY <4>1 DEF n, OneByOne
    <3> QED BY <1>1, <3>1
  <2>3. CASE i <= m /\ ~(j <= m)
    BY <1>2, <1>3, <1>5, <2>3 DEF m, n, Foreign
  <2>4. CASE ~(i <= m) /\ j <= m
    BY <1>2, <1>3, <1>5, <2>4 DEF m, n, Foreign
  <2> QED BY <2>1, <2>2, <2>3, <2>4
<1> QED BY <1>1, <1>4, <1>5 DEF m, n, OneByOne, From

\* What kernels launch in one cycle is finite, and so are the streams it needs.
LEMMA LaunchesFinite ==
  ASSUME Queued, Untangled, NEW done, NEW new \in Launches(done)
  PROVE  /\ new \subseteq DeviceKernel \ launched /\ \A c \in new : Parent(c) \in running
         /\ IsFiniteSet(new)
         /\ IsFiniteSet({StreamOf(c) : c \in new} \ {m_streams[i] : i \in 1 .. Len(m_streams)})
         /\ {StreamOf(c) : c \in new} \subseteq Queue
<1>1. new \subseteq DeviceKernel \ launched /\ \A c \in new : Parent(c) \in running
  BY DEF Launches
<1>2. IsFiniteSet(new)
  <2>1. CASE new = {}
    BY <2>1, FS_EmptySet
  <2>2. CASE new # {}
    <3>1. load.slots = 1
      BY <1>1, <2>2, NoDevice DEF Queued
    <3>2. PICK p \in running : \A c \in new : Parent(c) = p
      BY <1>1, <2>2, <3>1 DEF Queued, OneAtATime
    <3>3. p \in HostKernel
      BY <1>1, <2>2, <3>2, Kernels DEF Queued
    <3> DEFINE ns == DOMAIN CtaStreams(p)
    <3>4. ASSUME NEW c \in new
          PROVE  c \in {p} \X ns
      <4>1. PICK k \in HostKernel : c \in {k} \X DOMAIN CtaStreams(k)
        BY <1>1, <3>4 DEF DeviceKernel
      <4>2. k = p
        BY <3>2, <3>4, <4>1 DEF Parent
      <4> QED BY <4>1, <4>2
    <3>5. IsFiniteSet(ns)
      <4>1. PICK h \in Host : p \in {h} \X DOMAIN Program[h]
        BY <3>3 DEF HostKernel
      <4>2. Program[p[1]][p[2]] \in Call
        BY <4>1, Kernels DEF Queued
      <4>3. CtaStreams(p) \in Seq(Stream)
        BY <4>2 DEF CtaStreams, Call
      <4>4. PICK n \in Nat : ns = 1 .. n
        BY <4>3
      <4>5. 1 \in Int /\ n \in Int
        OBVIOUS
      <4> QED BY <4>4, <4>5, FS_Interval
    <3>6. IsFiniteSet({p} \X ns)
      <4>1. IsFiniteSet({p})
        BY FS_Singleton
      <4> HIDE DEF ns
      <4> QED BY <3>5, <4>1, FS_Product
    <3>7. new \subseteq {p} \X ns
      BY <3>4
    <3> HIDE DEF ns
    <3> QED BY <3>6, <3>7, FS_Subset
  <2> QED BY <2>1, <2>2
<1>3. IsFiniteSet({StreamOf(c) : c \in new})
  <2> DEFINE T == {StreamOf(c) : c \in new}
             f == [c \in new |-> StreamOf(c)]
  <2>1. f \in Surjection(new, T)
    BY DEF Surjection
  <2> HIDE DEF f, T
  <2>2. IsFiniteSet(T)
    BY <1>2, <2>1, FS_Surjection
  <2> QED BY <2>2 DEF T
<1>4. IsFiniteSet({StreamOf(c) : c \in new} \ {m_streams[i] : i \in 1 .. Len(m_streams)})
  BY <1>3, FS_Subset
<1>5. {StreamOf(c) : c \in new} \subseteq Queue
  BY <1>1, Kernels DEF Queued, Queue
<1> QED BY <1>1, <1>2, <1>4, <1>5

\* gpgpu_sim::cycle: the kernels that end are each recorded once, and keep their queues.
LEMMA CycleKeeps ==
  ASSUME Queued, Untangled, Cycle, load' = load
  PROVE  Queued' /\ UNCHANGED <<m_operations, m_pending>>
<1>f. Program' = Program /\ HostKernel' = HostKernel /\ DeviceKernel' = DeviceKernel /\ Kernel' = Kernel
  BY LoadFixed
<1> DEFINE rest == [k \in Kernel |-> IF k \in running THEN left[k] - 1 ELSE left[k]]
           done == {k \in running : rest[k] = 0}
<1>1. /\ sim = "cycle" /\ sim' \in {"test", "launch"}
      /\ left' = rest /\ running' = running \ done
      /\ \E o \in Orders(done) : finished' = finished \o o
      /\ \E new \in Launches(done) : LaunchDeviceV2(new)
      /\ UNCHANGED <<m_last_stream, m_operations, m_pending, m_grid_id_to_stream, events, hosts>>
  BY DEF Cycle
<1>u. UNCHANGED <<at, calls, cnt, targets, issued>>
  BY <1>1 DEF hosts, events
<1>l. left' \in [Kernel -> Int]
  BY <1>1 DEF Queued, GpuOK
<1>d. done \subseteq running
  OBVIOUS
<1> HIDE DEF done, rest
<1>2. IsFiniteSet(done) /\ done \subseteq Kernel /\ IsFiniteSet(running')
  BY <1>1, <1>d, FS_Subset DEF Queued, GpuOK
<1>3. PICK o \in Orders(done) : finished' = finished \o o
  BY <1>1
<1>4. /\ o \in Seq(done)
      /\ \A i, j \in 1 .. Len(o) : o[i] = o[j] => i = j
  BY <1>2, OrdersOnce
<1>5. o \in Seq(Kernel) /\ finished \in Seq(Kernel) /\ \A i \in 1 .. Len(o) : o[i] \in done
  BY <1>2, <1>4 DEF Queued, GpuOK
<1>6. /\ finished' \in Seq(Kernel)
      /\ \A i, j \in 1 .. Len(finished') : finished'[i] = finished'[j] => i = j
      /\ \A i \in 1 .. Len(finished') : \/ \E j \in 1 .. Len(finished) : finished'[i] = finished[j]
                                        \/ \E j \in 1 .. Len(o) : finished'[i] = o[j]
  <2>1. \A i, j \in 1 .. Len(finished) : finished[i] = finished[j] => i = j
    BY DEF Queued, Apart
  <2>2. \A i \in 1 .. Len(finished), j \in 1 .. Len(o) : finished[i] # o[j]
    BY <1>5, <1>d DEF Queued, Apart
  <2>3. o \in Seq(Kernel) /\ finished \in Seq(Kernel)
    BY <1>5
  <2>4. OneByOne(finished) /\ OneByOne(o) /\ Foreign(finished, o)
    BY ONLY <1>4, <2>1, <2>2 DEF OneByOne, Foreign
  <2>r. PICK r : r = finished \o o
    OBVIOUS
  <2>5. r \in Seq(Kernel) /\ OneByOne(r) /\ From(r, finished, o)
    BY ONLY <2>3, <2>4, <2>r, ConcatOnce
  <2>6. finished' = r
    BY <1>3, <2>r
  <2>7. \A i, j \in 1 .. Len(r) : r[i] = r[j] => i = j
    BY <2>5 DEF OneByOne
  <2>8. \A i \in 1 .. Len(r) : \/ \E j \in 1 .. Len(finished) : r[i] = finished[j]
                             \/ \E j \in 1 .. Len(o) : r[i] = o[j]
    BY <2>5 DEF From
  <2> QED BY ONLY <2>5, <2>6, <2>7, <2>8
<1>7. PICK new \in Launches(done) : LaunchDeviceV2(new)
  BY <1>1
<1> DEFINE fresh == {StreamOf(c) : c \in new} \ {m_streams[i] : i \in 1 .. Len(m_streams)}
<1>8. /\ new \subseteq DeviceKernel \ launched /\ \A c \in new : Parent(c) \in running
      /\ IsFiniteSet(new) /\ IsFiniteSet(fresh) /\ fresh \subseteq Queue
  BY LaunchesFinite
<1>9. /\ launched' = launched \cup new
      /\ m_child_kernels' = [k \in Kernel |-> m_child_kernels[k] \cup {c \in new : Parent(c) = k}]
      /\ \E n \in Orders(new) : g_cuda_device_launch_op' = g_cuda_device_launch_op \o n
      /\ \E s \in Orders(fresh) : m_streams' = m_streams \o s
  BY <1>7 DEF LaunchDeviceV2
<1> HIDE DEF fresh
<1>10. PICK n \in Orders(new) : g_cuda_device_launch_op' = g_cuda_device_launch_op \o n
  BY <1>9
<1>11. PICK s \in Orders(fresh) : m_streams' = m_streams \o s
  BY <1>9
<1>12. /\ n \in Seq(DeviceKernel) /\ \A i \in 1 .. Len(n) : n[i] \in new
       /\ \A i, j \in 1 .. Len(n) : n[i] = n[j] => i = j
  <2>1. n \in Seq(new) /\ \A i, j \in 1 .. Len(n) : n[i] = n[j] => i = j
    BY <1>8, OrdersOnce
  <2> QED BY <2>1, <1>8
<1>13. /\ g_cuda_device_launch_op' \in Seq(DeviceKernel)
       /\ \A i, j \in 1 .. Len(g_cuda_device_launch_op') :
            g_cuda_device_launch_op'[i] = g_cuda_device_launch_op'[j] => i = j
       /\ \A i \in 1 .. Len(g_cuda_device_launch_op') :
            \/ Waits(g_cuda_device_launch_op'[i]) /\ g_cuda_device_launch_op'[i] \in launched
            \/ g_cuda_device_launch_op'[i] \in new
  <2> DEFINE g == g_cuda_device_launch_op
  <2>1. /\ g \in Seq(DeviceKernel) /\ \A i, j \in 1 .. Len(g) : g[i] = g[j] => i = j
        /\ \A i \in 1 .. Len(g) : g[i] \in launched
    BY DEF Queued, GpuOK, WaitOK
  <2>2. \A i \in 1 .. Len(g), j \in 1 .. Len(n) : g[i] # n[j]
    BY <1>8, <1>12, <2>1
  <2>3. /\ g' \in Seq(DeviceKernel)
        /\ \A i, j \in 1 .. Len(g') : g'[i] = g'[j] => i = j
        /\ \A i \in 1 .. Len(g') : \/ \E j \in 1 .. Len(g) : g'[i] = g[j]
                                   \/ \E j \in 1 .. Len(n) : g'[i] = n[j]
    <3>1. OneByOne(g) /\ OneByOne(n) /\ Foreign(g, n)
      BY ONLY <1>12, <2>1, <2>2 DEF OneByOne, Foreign
    <3>2. n \in Seq(DeviceKernel) /\ g \in Seq(DeviceKernel)
      BY <1>12, <2>1
    <3>r. PICK r : r = g \o n
      OBVIOUS
    <3>3. r \in Seq(DeviceKernel) /\ OneByOne(r) /\ From(r, g, n)
      BY ONLY <3>1, <3>2, <3>r, ConcatOnce
    <3>4. g' = r
      BY <1>10, <3>r
    <3>5. \A i, j \in 1 .. Len(r) : r[i] = r[j] => i = j
      BY <3>3 DEF OneByOne
    <3>6. \A i \in 1 .. Len(r) : \/ \E j \in 1 .. Len(g) : r[i] = g[j]
                               \/ \E j \in 1 .. Len(n) : r[i] = n[j]
      BY <3>3 DEF From
    <3> QED BY ONLY <3>3, <3>4, <3>5, <3>6
  <2> QED BY <1>12, <2>1, <2>3 DEF Waits
<1>14. HostsOK' /\ PushOK'
  BY <1>f, <1>u DEF Queued, HostsOK, PushOK, CurrentCall
<1>15. QueuesOK'
  <2>1. m_streams \in Seq(Queue) /\ s \in Seq(Queue)
    <3>1. s \in Seq(fresh)
      BY <1>8, OrdersOnce
    <3> QED BY <1>8, <3>1 DEF Queued, QueuesOK
  <2>2. /\ m_streams' \in Seq(Queue)
        /\ \A j \in 1 .. Len(m_streams) : j \in 1 .. Len(m_streams') /\ m_streams'[j] = m_streams[j]
    BY <1>11, <2>1
  <2> QED BY <1>1, <2>2 DEF Queued, QueuesOK
<1>16. \A q \in Queue, i \in Nat, k \in OpId : KernelOp(q, i, k)' <=> KernelOp(q, i, k)
  BY <1>1 DEF KernelOp
<1>17. ASSUME NEW k \in OpId, Pushed(k)
       PROVE  Pushed(k)'
  <2>1. CASE k \in launched /\ ~Waits(k)
    <3>1. k \in launched' /\ k \notin new
      BY <1>8, <1>9, <2>1
    <3>2. ~Waits(k)'
      BY <1>13, <2>1, <3>1 DEF Waits
    <3> QED BY <3>1, <3>2 DEF Pushed
  <2>2. CASE ~(k \in launched /\ ~Waits(k))
    BY <1>f, <1>u, <1>17, <2>2 DEF Pushed
  <2> QED BY <2>1, <2>2
<1>18. OpsOK' /\ Unique'
  BY <1>16, <1>17 DEF Queued, OpsOK, Unique
<1>19. WaitOK'
  BY <1>9, <1>13 DEF WaitOK
<1>20. GpuOK'
  <2>1. m_child_kernels' \in [Kernel -> SUBSET DeviceKernel]
    BY <1>8, <1>9 DEF Queued, GpuOK
  <2>2. launched' \in SUBSET DeviceKernel /\ running' \in SUBSET Kernel
    BY <1>1, <1>8, <1>9 DEF Queued, GpuOK
  <2> QED BY <1>f, <1>2, <1>6, <1>l, <1>13, <2>1, <2>2 DEF GpuOK
<1>21. Apart'
  <2>1. \A i \in 1 .. Len(finished') : finished'[i] \notin running'
    BY <1>1, <1>5, <1>6 DEF Queued, Apart
  <2> QED BY <1>6, <2>1 DEF Apart
<1>22. OneAtATime'
  <2> SUFFICES ASSUME load.slots = 1
               PROVE  /\ \A j, k \in running' : j = k
                      /\ finished' # << >> =>
                           running' = {} /\ Len(finished') = 1 /\ sim' \notin {"front", "cycle"}
    BY DEF OneAtATime
  <2>1. finished = << >> /\ \A j, k \in running : j = k
    BY <1>1 DEF Queued, OneAtATime
  <2>2. finished' = o
    BY <1>3, <1>5, <2>1
  <2>3. ASSUME o # << >>
        PROVE  running' = {} /\ Len(o) = 1
    <3>1. Len(o) \in Nat /\ Len(o) > 0 /\ o[1] \in done
      BY <1>5, <2>3
    <3>2. Len(o) >= 2 => o[1] = o[2]
      BY <1>5, <1>d, <2>1, <3>1
    <3>3. Len(o) = 1
      <4>1. ASSUME Len(o) >= 2
            PROVE  FALSE
        <5>1. 1 \in 1 .. Len(o) /\ 2 \in 1 .. Len(o) /\ o[1] = o[2]
          BY <3>1, <3>2, <4>1
        <5>2. 1 = 2
          BY <1>4, <5>1
        <5> QED BY <5>2
      <4>2. ~(Len(o) >= 2)
        BY <4>1
      <4>3. Len(o) \in Nat /\ Len(o) > 0
        BY <3>1
      <4>4. \A m \in Nat : m > 0 /\ ~(m >= 2) => m = 1
        OBVIOUS
      <4> QED BY <4>2, <4>3, <4>4
    <3>4. running' = {}
      BY <1>1, <1>d, <2>1, <3>1
    <3> QED BY <3>3, <3>4
  <2> QED BY <1>1, <2>1, <2>2, <2>3
<1>23. ASSUME NEW k \in Kernel, Owner(k)'
       PROVE  \E q \in Queue : Owns(k, q)'
  <2>1. Owner(k)
    <3>1. CASE k \in running'
      BY <1>1, <3>1 DEF Owner
    <3>2. CASE \E i \in 1 .. Len(finished') : finished'[i] = k
      BY <1>5, <1>6, <1>d, <3>2 DEF Owner
    <3>3. CASE k \in HostKernel' /\ m_child_kernels'[k] # {}
      <4>1. m_child_kernels'[k] = m_child_kernels[k] \cup {c \in new : Parent(c) = k}
        BY <1>9
      <4> QED BY <1>f, <1>8, <3>3, <4>1 DEF Owner
    <3> QED BY <1>23, <3>1, <3>2, <3>3 DEF Owner
  <2>2. PICK q \in Queue : Owns(k, q)
    BY <2>1 DEF Queued, OwnersOK
  <2>3. KernelOp(q, 1, k)'
    BY <1>16, <2>2, Kernels DEF Owns, Queued
  <2> QED BY <1>1, <2>2, <2>3 DEF Owns
<1> QED
  BY <1>f, <1>1, <1>14, <1>15, <1>18, <1>19, <1>20, <1>21, <1>22, <1>23 DEF Queued, OwnersOK

\* A push is a submission.
LEMMA SubmitIs ==
  ASSUME QueuesOK, NEW q \in Queue, NEW o \in Op, UNCHANGED m_pending,
         m_operations' = [m_operations EXCEPT ![q] = Append(@, o)]
  PROVE  Order!Submit(q)
<1>1. m_operations[q] \in Seq(Op) /\ m_operations'[q] = Append(m_operations[q], o)
  BY DEF QueuesOK
<1>2. m_operations'[q][Len(m_operations'[q])] = o /\ m_operations'[q] # << >>
  BY <1>1
<1> QED BY <1>2 DEF Order!Submit

\* launch_one_device_kernel queues a kernel that waited, once.
LEMMA LaunchOneKeeps ==
  ASSUME Queued, LaunchOneDeviceKernel, g_cuda_device_launch_op # << >>, load' = load
  PROVE  Queued' /\ (Order!Next \/ UNCHANGED <<m_operations, m_pending>>)
<1>f. Program' = Program /\ HostKernel' = HostKernel /\ DeviceKernel' = DeviceKernel /\ Kernel' = Kernel
  BY LoadFixed
<1> DEFINE g == g_cuda_device_launch_op
<1>g. /\ g \in Seq(DeviceKernel) /\ Head(g) = g[1] /\ g[1] \in DeviceKernel
      /\ 1 \in 1 .. Len(g) /\ g[1] \in launched
  BY DEF Queued, GpuOK, WaitOK
<1>c. PICK c \in DeviceKernel : c = Head(g)
  BY <1>g
<1>q. PICK q : q = IF load.blocking THEN ZERO ELSE StreamOf(c)
  OBVIOUS
<1>1. /\ sim = "launch" /\ sim' \in {"blocked", "test"}
      /\ m_operations' = IF max_hit THEN m_operations
                         ELSE [m_operations EXCEPT ![q] = Append(@, DeviceOp(c))]
      /\ g' = Tail(g)
      /\ UNCHANGED <<m_streams, m_last_stream, m_pending, m_grid_id_to_stream, running, finished,
                     left, launched, m_child_kernels, events, hosts>>
  BY <1>c, <1>q DEF LaunchOneDeviceKernel
<1>u. UNCHANGED <<at, calls, cnt, targets, issued>>
  BY <1>1 DEF hosts, events
<1>2. q \in Queue
  BY <1>q, Kernels DEF Queued, Queue
<1>3. c \in launched /\ Waits(c) /\ c \in OpId /\ c \notin HostKernel
  BY <1>c, <1>g, Kernels DEF Queued, Waits, Kernel
<1>4. DeviceOp(c) \in Op /\ DeviceOp(c).kind = "kernel" /\ DeviceOp(c).id = c
  <2>1. Parent(c) \in HostKernel
    BY Kernels DEF Queued
  <2>2. PICK h \in Host : c[1] \in {h} \X DOMAIN Program[h]
    BY <2>1 DEF HostKernel, Parent
  <2>3. Program[c[1][1]][c[1][2]] \in Call
    BY <2>2, Kernels DEF Queued
  <2>4. Program[c[1][1]][c[1][2]].event \in Event
    BY <2>3 DEF Call
  <2> QED BY <1>3, <2>4 DEF DeviceOp, Op, OpKind
<1>5. \A r \in Queue, i \in Nat : ~KernelOp(r, i, c)
  BY <1>3 DEF Queued, OpsOK, Pushed
<1>o. PICK o \in Op : o = DeviceOp(c)
  BY <1>4
<1>6. /\ g' \in Seq(DeviceKernel)
      /\ \A i \in 1 .. Len(g') : i + 1 \in 1 .. Len(g) /\ i + 1 # 1 /\ g'[i] = g[i + 1]
      /\ \A i \in 1 .. Len(g') : i \in Nat
  BY <1>1, <1>g
<1>7. \A i \in 1 .. Len(g') : g'[i] # c
  BY <1>6, <1>c, <1>g DEF Queued, WaitOK
<1>8. ~Waits(c)' /\ \A k \in OpId : ~Waits(k) => ~Waits(k)'
  BY <1>6, <1>7 DEF Waits
<1>9. Pushed(c)' /\ \A k \in OpId : Pushed(k) => Pushed(k)'
  BY <1>1, <1>u, <1>f, <1>3, <1>8 DEF Pushed
<1>10. WaitOK'
  <2>1. \A i, j \in 1 .. Len(g') : g'[i] = g'[j] => i = j
    BY <1>6 DEF Queued, WaitOK
  <2> QED BY <1>1, <1>6, <2>1 DEF Queued, WaitOK
<1> HIDE DEF g
<1>11. HostsOK' /\ PushOK'
  BY <1>f, <1>u DEF Queued, HostsOK, PushOK, CurrentCall
<1>12. GpuOK' /\ Apart' /\ OneAtATime'
  BY <1>1, <1>f, <1>6 DEF Queued, GpuOK, Apart, OneAtATime, g
<1>13. /\ m_operations' \in [Queue -> Seq(Op)] /\ Unique'
       /\ \A r \in Queue, i \in Nat, k \in OpId : KernelOp(r, i, k) => KernelOp(r, i, k)'
       /\ \A r \in Queue, i \in Nat, k \in OpId :
            KernelOp(r, i, k)' => KernelOp(r, i, k) \/ k = c
  <2>1. CASE m_operations' = m_operations
    <3>1. \A r \in Queue, i \in Nat, k \in OpId : KernelOp(r, i, k) <=> KernelOp(r, i, k)'
      BY <2>1 DEF KernelOp
    <3> QED BY <2>1, <3>1 DEF Queued, QueuesOK, Unique
  <2>2. CASE m_operations' = [m_operations EXCEPT ![q] = Append(@, o)]
    <3>1. QueuesOK /\ Unique
      BY DEF Queued
    <3>2. Unique'
      BY <1>2, <1>4, <1>5, <1>o, <2>2, <3>1, PushUnique
    <3>3. /\ m_operations' \in [Queue -> Seq(Op)]
          /\ \A r \in Queue, i \in Nat, k \in OpId : KernelOp(r, i, k) => KernelOp(r, i, k)'
          /\ \A r \in Queue, i \in Nat, k \in OpId :
               KernelOp(r, i, k)' => \/ KernelOp(r, i, k)
                                     \/ /\ r = q /\ i = Len(m_operations[q]) + 1
                                        /\ o.kind = "kernel" /\ o.id = k
      BY <1>2, <2>2, <3>1, PushOps
    <3> QED BY <1>4, <1>o, <3>2, <3>3
  <2> QED BY <1>1, <1>o, <2>1, <2>2
<1>14. OpsOK'
  BY <1>9, <1>13 DEF Queued, OpsOK
<1>15. QueuesOK'
  BY <1>1, <1>13 DEF Queued, QueuesOK
<1>16. OwnersOK'
  <2>1. \A k \in Kernel, r \in Queue : Owns(k, r) => Owns(k, r)'
    BY <1>1, <1>13, Kernels DEF Owns, Queued
  <2>2. \A k \in Kernel : Owner(k)' => Owner(k)
    BY <1>1, <1>f DEF Owner
  <2> QED BY <1>f, <2>1, <2>2 DEF Queued, OwnersOK
<1>17. Order!Submit(q) \/ UNCHANGED <<m_operations, m_pending>>
  <2>1. CASE m_operations' = m_operations
    BY <1>1, <2>1
  <2>2. CASE m_operations' = [m_operations EXCEPT ![q] = Append(@, o)]
    BY <1>1, <1>2, <2>2, SubmitIs DEF Queued
  <2> QED BY <1>1, <1>o, <2>1, <2>2
<1> QED
  BY <1>2, <1>10, <1>11, <1>12, <1>13, <1>14, <1>15, <1>16, <1>17 DEF Queued, Order!Next

\* stop_all_running_kernels records every kernel as finished, once.
LEMMA StopAllKeeps ==
  ASSUME Queued, StopAll, load' = load
  PROVE  Queued' /\ UNCHANGED <<m_operations, m_pending>>
<1>f. Program' = Program /\ HostKernel' = HostKernel /\ DeviceKernel' = DeviceKernel /\ Kernel' = Kernel
  BY LoadFixed
<1>1. /\ sim = "cycle" /\ sim' = "stop" /\ running' = {}
      /\ \E o \in Orders(running) : finished' = finished \o o
      /\ UNCHANGED <<queues, events, left, device, hosts>>
  BY DEF StopAll
<1>u. /\ UNCHANGED <<m_streams, m_last_stream, m_operations, m_pending, m_grid_id_to_stream>>
      /\ UNCHANGED <<at, calls, cnt, targets, issued>>
      /\ UNCHANGED <<launched, m_child_kernels, g_cuda_device_launch_op>>
  BY <1>1 DEF queues, events, hosts, device
<1>2. IsFiniteSet(running) /\ running \subseteq Kernel /\ finished \in Seq(Kernel)
  BY DEF Queued, GpuOK
<1>3. PICK o \in Orders(running) : finished' = finished \o o
  BY <1>1
<1>4. /\ o \in Seq(running) /\ Len(o) = Cardinality(running)
      /\ \A i, j \in 1 .. Len(o) : o[i] = o[j] => i = j
  BY <1>2, OrdersOnce
<1>5. o \in Seq(Kernel) /\ \A i \in 1 .. Len(o) : o[i] \in running
  BY <1>2, <1>4
<1>6. /\ finished' \in Seq(Kernel)
      /\ \A i, j \in 1 .. Len(finished') : finished'[i] = finished'[j] => i = j
      /\ \A i \in 1 .. Len(finished') : \/ \E j \in 1 .. Len(finished) : finished'[i] = finished[j]
                                        \/ \E j \in 1 .. Len(o) : finished'[i] = o[j]
  <2>1. \A i, j \in 1 .. Len(finished) : finished[i] = finished[j] => i = j
    BY DEF Queued, Apart
  <2>2. \A i \in 1 .. Len(finished), j \in 1 .. Len(o) : finished[i] # o[j]
    BY <1>5 DEF Queued, Apart
  <2>3. o \in Seq(Kernel) /\ finished \in Seq(Kernel)
    BY <1>2, <1>5
  <2>4. OneByOne(finished) /\ OneByOne(o) /\ Foreign(finished, o)
    BY ONLY <1>4, <2>1, <2>2 DEF OneByOne, Foreign
  <2>r. PICK r : r = finished \o o
    OBVIOUS
  <2>5. r \in Seq(Kernel) /\ OneByOne(r) /\ From(r, finished, o)
    BY ONLY <2>3, <2>4, <2>r, ConcatOnce
  <2>6. finished' = r
    BY <1>3, <2>r
  <2>7. \A i, j \in 1 .. Len(r) : r[i] = r[j] => i = j
    BY <2>5 DEF OneByOne
  <2>8. \A i \in 1 .. Len(r) : \/ \E j \in 1 .. Len(finished) : r[i] = finished[j]
                             \/ \E j \in 1 .. Len(o) : r[i] = o[j]
    BY <2>5 DEF From
  <2> QED BY ONLY <2>5, <2>6, <2>7, <2>8
<1>7. HostsOK' /\ PushOK' /\ WaitOK'
  BY <1>f, <1>u DEF Queued, HostsOK, PushOK, WaitOK, CurrentCall
<1>8. \A q \in Queue, i \in Nat, k \in OpId : KernelOp(q, i, k)' <=> KernelOp(q, i, k)
  BY <1>u DEF KernelOp
<1>9. \A k \in OpId : Pushed(k) => Pushed(k)'
  BY <1>f, <1>u DEF Pushed, Waits
<1>10. QueuesOK' /\ OpsOK' /\ Unique'
  BY <1>u, <1>8, <1>9 DEF Queued, QueuesOK, OpsOK, Unique
<1>11. GpuOK' /\ Apart'
  <2>1. IsFiniteSet({})
    BY FS_EmptySet
  <2> QED BY <1>f, <1>u, <1>1, <1>6, <2>1 DEF Queued, GpuOK, Apart
<1>12. OneAtATime'
  <2> SUFFICES ASSUME load.slots = 1, finished' # << >> PROVE Len(finished') = 1
    BY <1>1 DEF OneAtATime
  <2>1. finished = << >> /\ \A j, k \in running : j = k
    BY <1>1 DEF Queued, OneAtATime
  <2>2. finished' = o
    BY <1>3, <1>5, <2>1
  <2>3. Len(o) \in Nat /\ Len(o) > 0
    BY <1>5, <2>2
  <2>4. ASSUME Len(o) >= 2
        PROVE  FALSE
    <3>1. 1 \in 1 .. Len(o) /\ 2 \in 1 .. Len(o) /\ o[1] = o[2]
      BY <1>5, <2>1, <2>3, <2>4
    <3>2. 1 = 2
      BY <1>4, <3>1
    <3> QED BY <3>2
  <2>5. ~(Len(o) >= 2)
    BY <2>4
  <2> QED BY <2>2, <2>3, <2>5
<1>13. ASSUME NEW k \in Kernel, Owner(k)'
       PROVE  \E q \in Queue : Owns(k, q)'
  <2>1. Owner(k)
    BY <1>13, <1>1, <1>5, <1>6, <1>u, <1>f DEF Owner
  <2>2. PICK q \in Queue : Owns(k, q)
    BY <2>1 DEF Queued, OwnersOK
  <2>3. KernelOp(q, 1, k)'
    BY <1>8, <2>2, Kernels DEF Owns, Queued
  <2> QED BY <1>u, <2>2, <2>3 DEF Owns
<1> QED
  BY <1>f, <1>u, <1>7, <1>10, <1>11, <1>12, <1>13 DEF Queued, OwnersOK

\* Steps that leave the queues and the kernels as they are, or forget finished kernels.
LEMMA QuietKeeps ==
  ASSUME Queued, load' = load, UNCHANGED <<queues, events, device, hosts, running, left>>,
         \/ finished' = finished /\ (finished = << >> \/ sim' \notin {"front", "cycle"})
         \/ finished' = << >>
  PROVE  Queued' /\ UNCHANGED <<m_operations, m_pending>>
<1>f. Program' = Program /\ HostKernel' = HostKernel /\ DeviceKernel' = DeviceKernel /\ Kernel' = Kernel
  BY LoadFixed
<1>u. /\ UNCHANGED <<m_streams, m_last_stream, m_operations, m_pending, m_grid_id_to_stream>>
      /\ UNCHANGED <<at, calls, cnt, targets, issued>>
      /\ UNCHANGED <<launched, m_child_kernels, g_cuda_device_launch_op, running, left>>
  BY DEF queues, events, hosts, device
<1>1. finished' \in Seq(Kernel)
  <2>1. finished \in Seq(Kernel) /\ << >> \in Seq(Kernel)
    BY DEF Queued, GpuOK
  <2> QED BY <2>1
<1>2. HostsOK' /\ PushOK' /\ WaitOK'
  BY <1>f, <1>u DEF Queued, HostsOK, PushOK, WaitOK, CurrentCall
<1>3. \A q \in Queue, i \in Nat, k \in OpId : KernelOp(q, i, k)' <=> KernelOp(q, i, k)
  BY <1>u DEF KernelOp
<1>4. \A k \in OpId : Pushed(k) => Pushed(k)'
  BY <1>f, <1>u DEF Pushed, Waits
<1>5. QueuesOK' /\ OpsOK' /\ Unique'
  BY <1>u, <1>3, <1>4 DEF Queued, QueuesOK, OpsOK, Unique
<1>6. GpuOK' /\ Apart' /\ OneAtATime'
  BY <1>f, <1>u, <1>1 DEF Queued, GpuOK, Apart, OneAtATime
<1>7. ASSUME NEW k \in Kernel, Owner(k)'
      PROVE  \E q \in Queue : Owns(k, q)'
  <2>1. Owner(k)
    BY <1>7, <1>u, <1>f DEF Owner
  <2>2. PICK q \in Queue : Owns(k, q)
    BY <2>1 DEF Queued, OwnersOK
  <2>3. KernelOp(q, 1, k)'
    BY <1>3, <2>2, Kernels DEF Owns, Queued
  <2> QED BY <1>u, <2>2, <2>3 DEF Owns
<1> QED
  BY <1>f, <1>u, <1>2, <1>5, <1>6, <1>7 DEF Queued, OwnersOK

-------------------------------------------------------------------------------
\* Every step keeps the kernels' queues, and is a step of StreamOrder.
LEMMA QueuedInductive ==
  ASSUME Untangled, Queued, LaunchOK, [Next]_vars
  PROVE  Queued' /\ LaunchOK' /\ (Order!Next \/ UNCHANGED <<m_operations, m_pending>>)
<1>1. ASSUME NEW h \in Host, HostThread(h)
      PROVE  Queued' /\ LaunchOK' /\ (Order!Next \/ UNCHANGED <<m_operations, m_pending>>)
  <2>1. HostStep(h) /\ load' = load
    BY <1>1 DEF HostThread
  <2>2. Queued'
    BY <2>1, HostKeeps
  <2>3. UNCHANGED <<sim, g_cuda_device_launch_op, m_pending>> /\ (m_operations' = m_operations \/ Push(h))
    BY <2>1, HostFrame DEF gpu, device, thread
  <2>4. CASE m_operations' = m_operations
    BY <2>2, <2>3, <2>4 DEF LaunchOK
  <2>5. CASE Push(h) /\ m_operations' # m_operations
    <3> DEFINE q == IF load.blocking THEN ZERO ELSE Head(targets[h])
    <3>1. at[h] = "push" /\ m_operations' = [m_operations EXCEPT ![q] = Append(@, NewOp(h))]
      BY <2>5 DEF Push
    <3>2. q \in Queue
      <4>1. targets[h] \in Seq(Queue) /\ targets[h] # << >>
        BY <3>1 DEF Queued, HostsOK, PushOK, Pushing
      <4>2. Head(targets[h]) \in Queue
        BY <4>1
      <4> QED BY <4>2 DEF Queue
    <3> HIDE DEF q
    <3>3. NewOp(h) \in Op
      BY <3>1, NewOpFresh DEF Queued
    <3>4. PICK o \in Op : o = NewOp(h)
      BY <3>3
    <3>5. Order!Submit(q)
      BY <2>3, <3>1, <3>2, <3>4, SubmitIs DEF Queued
    <3> QED BY <2>2, <2>3, <3>2, <3>5 DEF LaunchOK, Order!Next
  <2> QED BY <2>3, <2>4, <2>5
<1>2. CASE SimThread
  <2>1. SimStep /\ load' = load
    BY <1>2 DEF SimThread
  <2>q. ASSUME UNCHANGED <<queues, events, device, hosts, running, left>>,
               \/ finished' = finished /\ (finished = << >> \/ sim' \notin {"front", "cycle"})
               \/ finished' = << >>,
               sim' # "launch"
        PROVE  Queued' /\ LaunchOK' /\ UNCHANGED <<m_operations, m_pending>>
    <3>1. LaunchOK'
      BY <2>q DEF LaunchOK
    <3> QED BY <2>1, <2>q, <3>1, QuietKeeps
  <2>f. ASSUME finished # << >>, CheckFinishedKernel(Over(Head(finished))), sim' # "launch",
               UNCHANGED <<running, left, launched, g_cuda_device_launch_op, at, calls, cnt, targets,
                           issued>>
        PROVE  Queued' /\ LaunchOK' /\ Order!Next
    <3>1. Queued' /\ \E qs \in SUBSET Queue : Order!Complete(qs)
      BY <2>1, <2>f, FinishKeeps
    <3> QED BY <2>f, <3>1 DEF LaunchOK, Order!Next
  <2>2. CASE DetectWork \/ TestActive \/ Idle
    BY <2>2, <2>q DEF DetectWork, TestActive, Idle, gpu
  <2>3. CASE Activate \/ Deactivate \/ ThreadExit
    BY <2>3, <2>q DEF Activate, Deactivate, ThreadExit, gpu
  <2>4. CASE Check
    <3>1. UNCHANGED <<lock, events, running, left, launched, g_cuda_device_launch_op, hosts>>
          /\ sim' = "front"
      BY <2>4 DEF Check
    <3>2. CASE finished = << >>
      <4>1. UNCHANGED <<queues, finished, m_child_kernels>>
        BY <2>4, <3>2 DEF Check
      <4> QED BY <3>1, <3>2, <4>1, <2>q DEF device
    <3>3. CASE finished # << >>
      <4>1. CheckFinishedKernel(Over(Head(finished)))
        BY <2>4, <3>3 DEF Check
      <4> QED BY <3>1, <3>3, <4>1, <2>f DEF events, hosts
    <3> QED BY <3>2, <3>3
  <2>5. CASE StopOne
    BY <2>5, <2>f DEF StopOne, events, hosts, thread, LaunchOK
  <2>6. CASE Operation
    <3>1. Queued' /\ (Order!Next \/ UNCHANGED <<m_operations, m_pending>>)
      BY <2>1, <2>6, OperationKeeps
    <3>2. sim' # "launch"
      BY <2>6 DEF Operation
    <3> QED BY <3>1, <3>2 DEF LaunchOK
  <2>7. CASE Cycle
    <3>1. Queued' /\ UNCHANGED <<m_operations, m_pending>>
      BY <2>1, <2>7, CycleKeeps
    <3>2. LaunchOK'
      BY <2>7 DEF Cycle, LaunchOK
    <3> QED BY <3>1, <3>2
  <2>8. CASE LaunchOneDeviceKernel
    <3>1. g_cuda_device_launch_op # << >> /\ sim' # "launch"
      BY <2>8 DEF LaunchOneDeviceKernel, LaunchOK
    <3>2. Queued' /\ (Order!Next \/ UNCHANGED <<m_operations, m_pending>>)
      BY <2>1, <2>8, <3>1, LaunchOneKeeps
    <3> QED BY <3>1, <3>2 DEF LaunchOK
  <2>9. CASE StopAll
    <3>1. Queued' /\ UNCHANGED <<m_operations, m_pending>>
      BY <2>1, <2>9, StopAllKeeps
    <3>2. sim' # "launch"
      BY <2>9 DEF StopAll
    <3> QED BY <3>1, <3>2 DEF LaunchOK
  <2>10. CASE Stopped
    <3>1. UNCHANGED <<queues, events, device, hosts, running, left>> /\ finished' = << >> /\ sim' = "test"
      BY <2>10 DEF Stopped
    <3> QED BY <3>1, <2>q
  <2> QED
    BY <2>1, <2>2, <2>3, <2>4, <2>5, <2>6, <2>7, <2>8, <2>9, <2>10 DEF SimStep
<1>3. CASE UNCHANGED vars
  <2>1. UNCHANGED <<load, queues, events, gpu, thread, hosts>>
    BY <1>3 DEF vars
  <2>2. UNCHANGED <<load, queues, events, device, hosts, running, left, finished, sim,
                    g_cuda_device_launch_op>>
    BY <2>1 DEF gpu, device, thread
  <2>3. finished = << >> \/ sim' \notin {"front", "cycle"} \/ finished # << >>
    OBVIOUS
  <2>4. Queued'
    <3>f. /\ Program' = Program /\ HostKernel' = HostKernel /\ DeviceKernel' = DeviceKernel
          /\ Kernel' = Kernel
      BY <2>2, LoadFixed
    <3>u. /\ UNCHANGED <<m_streams, m_last_stream, m_operations, m_pending, m_grid_id_to_stream>>
          /\ UNCHANGED <<at, calls, cnt, targets, issued>>
          /\ UNCHANGED <<launched, m_child_kernels, running, left>>
      BY <2>2 DEF queues, events, hosts, device
    <3>1. HostsOK' /\ PushOK' /\ WaitOK' /\ GpuOK' /\ Apart' /\ OneAtATime' /\ QueuesOK'
      BY <3>f, <3>u, <2>2 DEF Queued, HostsOK, PushOK, WaitOK, GpuOK, Apart, OneAtATime, QueuesOK,
                              CurrentCall
    <3>2. \A q \in Queue, i \in Nat, k \in OpId : KernelOp(q, i, k)' <=> KernelOp(q, i, k)
      BY <3>u DEF KernelOp
    <3>3. OpsOK' /\ Unique'
      BY <3>f, <3>u, <2>2, <3>2 DEF Queued, OpsOK, Unique, Pushed, Waits
    <3>4. OwnersOK'
      BY <3>f, <3>u, <2>2 DEF Queued, OwnersOK, Owner, Owns, KernelOp
    <3> QED BY <3>1, <3>3, <3>4 DEF Queued
  <2> QED BY <2>2, <2>4 DEF LaunchOK, queues
<1> QED BY <1>1, <1>2, <1>3 DEF Next

\* Initially nothing is queued.
LEMMA QueuedInit == Init => Queued /\ LaunchOK
<1> SUFFICES ASSUME Init PROVE Queued /\ LaunchOK
  OBVIOUS
<1>1. /\ load \in Workloads /\ m_streams = << >> /\ m_last_stream = ZERO
      /\ m_operations = [q \in Queue |-> << >>] /\ m_pending = [q \in Queue |-> FALSE]
      /\ issued = [e \in Event |-> 0] /\ running = {} /\ finished = << >>
      /\ left \in [Kernel -> 1 .. MaxCycles] /\ launched = {}
      /\ m_child_kernels = [k \in Kernel |-> {}] /\ g_cuda_device_launch_op = << >>
      /\ sim = "spin" /\ at = [h \in Host |-> "call"] /\ calls = [h \in Host |-> 0]
      /\ cnt = [h \in Host |-> 0] /\ targets = [h \in Host |-> << >>]
  BY DEF Init
<1>2. HostsOK
  BY <1>1 DEF HostsOK, Places, Pushing
<1>3. PushOK
  BY <1>1 DEF PushOK, Pushing
<1>4. QueuesOK
  <2>1. << >> \in Seq(Queue) /\ << >> \in Seq(Op)
    OBVIOUS
  <2> QED BY <1>1, <2>1 DEF QueuesOK
<1>5. GpuOK
  <2>1. MaxCycles \in Nat
    BY RuntimeAssumption
  <2>2. \A x \in 1 .. MaxCycles : x \in Int
    BY <2>1
  <2>3. left \in [Kernel -> Int]
    BY <1>1, <2>2
  <2>4. IsFiniteSet(running)
    BY <1>1, FS_EmptySet
  <2>5. finished \in Seq(Kernel) /\ g_cuda_device_launch_op \in Seq(DeviceKernel)
    BY <1>1
  <2> QED BY <1>1, <2>3, <2>4, <2>5 DEF GpuOK
<1>6. \A q, i, k : ~KernelOp(q, i, k)
  <2>1. ASSUME NEW q, NEW i, NEW k, KernelOp(q, i, k)
        PROVE  FALSE
    <3>1. q \in Queue /\ m_operations[q] = << >> /\ i \in 1 .. Len(m_operations[q])
      BY <1>1, <2>1 DEF KernelOp
    <3>2. i \in 1 .. 0
      BY <3>1
    <3> QED BY <3>2
  <2> QED BY <2>1
<1>7. OpsOK /\ Unique
  BY <1>6 DEF OpsOK, Unique
<1>8. \A i : i \notin 1 .. Len(<< >>)
  OBVIOUS
<1>9. WaitOK /\ Apart
  BY <1>1, <1>8 DEF WaitOK, Apart
<1>10. OneAtATime
  BY <1>1 DEF OneAtATime
<1>11. \A k \in Kernel : ~Owner(k)
  BY <1>1, <1>8 DEF Owner, Kernel
<1>12. OwnersOK
  BY <1>11 DEF OwnersOK
<1> QED BY <1>1, <1>2, <1>3, <1>4, <1>5, <1>7, <1>9, <1>10, <1>12 DEF Queued, LaunchOK

-------------------------------------------------------------------------------
\* What the runtime knows of its queues holds in every state: hosts and kernels are
\* where their calls left them, no kernel is queued, waits or ends twice, and the queue
\* of a kernel that the GPU knows of is busy with it.
THEOREM QueuesCorrect == ASSUME Untangled PROVE Spec => []Queued
<1> DEFINE Inv == Queued /\ LaunchOK
<1>1. Init => Inv
  BY QueuedInit
<1>2. Inv /\ [Next]_vars => Inv'
  BY QueuedInductive
<1>3. Inv => Queued
  OBVIOUS
<1> HIDE DEF Inv
<1> QED BY <1>1, <1>2, <1>3, PTL DEF Spec

\* The assertions of register_finished_kernel and record_next_done hold: a kernel the GPU
\* runs or has finished, or whose children are not over, is at the front of the queue
\* that m_grid_id_to_stream names, and that queue is busy with it.
THEOREM KernelsOwnQueues == ASSUME Untangled PROVE Spec => []KernelOwnsQueue
<1>1. Queued => KernelOwnsQueue
  <2> SUFFICES ASSUME Queued,
                      NEW k \in running \cup {finished[i] : i \in 1 .. Len(finished)}
                                        \cup {p \in HostKernel : m_child_kernels[p] # {}}
               PROVE  /\ k \in DOMAIN m_grid_id_to_stream
                      /\ m_pending[m_grid_id_to_stream[k]]
                      /\ m_operations[m_grid_id_to_stream[k]] # << >>
                      /\ Head(m_operations[m_grid_id_to_stream[k]]).id = k
    BY DEF KernelOwnsQueue
  <2>1. Owner(k)
    BY DEF Owner
  <2>2. k \in Kernel
    BY DEF Queued, GpuOK, Kernel
  <2>3. PICK q \in Queue : Owns(k, q)
    BY <2>1, <2>2 DEF Queued, OwnersOK
  <2>4. /\ k \in DOMAIN m_grid_id_to_stream /\ m_grid_id_to_stream[k] = q /\ m_pending[q]
        /\ 1 \in 1 .. Len(m_operations[q]) /\ m_operations[q][1].id = k
    BY <2>3 DEF Owns, KernelOp
  <2>5. m_operations[q] \in Seq(Op)
    BY DEF Queued, QueuesOK
  <2>6. m_operations[q] # << >> /\ Head(m_operations[q]) = m_operations[q][1]
    BY <2>4, <2>5
  <2> QED BY <2>4, <2>6
<1> QED BY <1>1, QueuesCorrect, PTL

\* StreamManager implements StreamOrder: retries, the unlocked completion of kernels and
\* pushes from several threads never reorder, drop or repeat an operation.
THEOREM StreamsInOrder == ASSUME Untangled PROVE Spec => InOrder
<1> DEFINE Inv == Queued /\ LaunchOK
<1>1. Init => Inv
  BY QueuedInit
<1>2. Inv /\ [Next]_vars => Inv'
  BY QueuedInductive
<1>3. Init => Order!Init
  BY DEF Init, Order!Init
<1>4. Inv /\ [Next]_vars => [Order!Next]_(Order!vars)
  BY QueuedInductive DEF Order!vars
<1> HIDE DEF Inv
<1> QED BY <1>1, <1>2, <1>3, <1>4, PTL DEF Spec, InOrder, Order!Spec

-------------------------------------------------------------------------------
(***************************************************************************)
(* A call that blocks looks at the queues one by one.  The theorem about   *)
(* it needs programs that use streams as the CUDA manuals have it: a host  *)
(* submits to a stream that it has created itself and that nobody destroys *)
(* before; a wait for an event in every stream goes with no other host     *)
(* destroying streams and with no launches from the device; and the hosts  *)
(* have no access to the streams of CTAs.                                  *)
(***************************************************************************)
Tidy(w) ==
  LET call(h, n) == w.program[h][n]
      everywhere(h, n) == call(h, n).call = "wait_event" /\ call(h, n).stream = ZERO
      submits(h, n) == call(h, n).call \in OpKind /\ call(h, n).stream # ZERO
  IN \A h \in Host : \A n \in DOMAIN w.program[h] :
       /\ submits(h, n) =>
            /\ \E m \in 1 .. n - 1 :
                 call(h, m).call = "create" /\ call(h, m).stream = call(h, n).stream
            /\ \A g \in Host : \A m \in DOMAIN w.program[g] :
                 /\ call(g, m).call = "destroy" /\ call(g, m).stream = call(h, n).stream
                      => g = h /\ m > n
                 /\ \A i \in DOMAIN call(g, m).children : call(g, m).children[i] # call(h, n).stream
       /\ everywhere(h, n) =>
            \A g \in Host : \A m \in DOMAIN w.program[g] :
              /\ call(g, m).call = "destroy" => g = h
              /\ call(g, m).children = << >>

TidyPrograms == \A w \in Workloads : Tidy(w)

\* Operation e is in queue q, and some operation of host h is.
In(q, e) == \E j \in 1 .. Len(m_operations[q]) : m_operations[q][j] = e
Has(q, h) == \E e \in Op : In(q, e) /\ e.id[1] = h

\* A host can use q: empty() finds it, and no kernel takes it away when it ends.
Listed(q) == q = ZERO \/ \E j \in 1 .. Len(m_streams) : m_streams[j] = q
OfCta(q) == \E c \in DeviceKernel : StreamOf(c) = q
Usable(q) == Listed(q) /\ ~OfCta(q)

Everywhere(h) == CurrentCall(h).call = "wait_event" /\ CurrentCall(h).stream = ZERO

\* A host that waits makes the call that waits.
CallOK ==
  \A h \in Host :
    LET c == CurrentCall(h).call IN
    /\ at[h] \in {"sync", "sync_scan"} => c \in {"device_sync", "stream_sync"}
    /\ at[h] \in {"destroy_sync", "destroy"} => calls[h] < Len(Program[h]) /\ c = "destroy"
    /\ at[h] = "exit" => c = "exit"

\* The streams that a host has created and has yet to submit to are there, ...
CreatedOK ==
  \A h \in Host : \A m, n \in DOMAIN Program[h] :
    (/\ m <= calls[h] /\ calls[h] < n
     /\ Program[h][m].call = "create" /\ Program[h][n].call \in OpKind
     /\ Program[h][m].stream = Program[h][n].stream) => Listed(Program[h][n].stream)

\* ... and those that it is submitting to, ...
TargetsOK ==
  \A h \in Host : at[h] \in Pushing =>
    \A i \in 1 .. Len(targets[h]) :
      /\ Usable(targets[h][i])
      /\ Everywhere(h) \/ targets[h][i] = CurrentCall(h).stream

\* ... so what hosts submit is where empty() looks, ...
UsableOK == \A q \in Queue, h \in Host : Has(q, h) => Usable(q)

\* ... and in a walk over the queues it is in one that is still to be seen.
Walking == {"drain", "sync_scan"}

SeenOK ==
  /\ unseen \in [Host -> Seq(Queue)]
  /\ \A h \in Host : at[h] \in Walking =>
       \A q \in Queue : Has(q, h) => \E j \in 1 .. Len(unseen[h]) : unseen[h][j] = q

\* A kernel launched by a kernel keeps its parent from being over.
ChildrenOK ==
  \A c \in DeviceKernel :
    (Waits(c) \/ \E q \in Queue, i \in Nat : KernelOp(q, i, c)) => c \in m_child_kernels[Parent(c)]

\* What no host submitted is a kernel.
KindsOK == \A q \in Queue, e \in Op : In(q, e) => e.id[1] \in Host \/ e.kind = "kernel"

Walked == CallOK /\ CreatedOK /\ TargetsOK /\ UsableOK /\ SeenOK /\ ChildrenOK /\ KindsOK

\* push adds one operation.
LEMMA PushIn ==
  ASSUME QueuesOK, NEW q \in Queue, NEW o \in Op,
         m_operations' = [m_operations EXCEPT ![q] = Append(@, o)]
  PROVE  \A r \in Queue, e \in Op : In(r, e)' => In(r, e) \/ (r = q /\ e = o)
<1> SUFFICES ASSUME NEW r \in Queue, NEW e \in Op, In(r, e)'
             PROVE  In(r, e) \/ (r = q /\ e = o)
  OBVIOUS
<1>1. m_operations[r] \in Seq(Op) /\ m_operations[q] \in Seq(Op)
  BY DEF QueuesOK
<1>2. PICK j \in 1 .. Len(m_operations'[r]) : m_operations'[r][j] = e
  BY DEF In
<1>3. CASE r # q
  <2>1. m_operations'[r] = m_operations[r]
    BY <1>3 DEF QueuesOK
  <2> QED BY <1>2, <2>1 DEF In
<1>4. CASE r = q
  <2>1. m_operations'[r] = Append(m_operations[q], o)
    BY <1>4 DEF QueuesOK
  <2>2. j = Len(m_operations[q]) + 1 \/ j \in 1 .. Len(m_operations[q])
    BY <1>1, <1>2, <2>1
  <2>3. CASE j = Len(m_operations[q]) + 1
    BY <1>1, <1>2, <1>4, <2>1, <2>3
  <2>4. CASE j \in 1 .. Len(m_operations[q])
    <3>1. m_operations'[r][j] = m_operations[q][j]
      BY <1>1, <2>1, <2>4
    <3> QED BY <1>2, <1>4, <2>4, <3>1 DEF In
  <2> QED BY <2>2, <2>3, <2>4
<1> QED BY <1>3, <1>4

\* record_next_done adds none.
LEMMA PopIn ==
  ASSUME QueuesOK, NEW qs, \A q \in Queue : q \in qs => m_operations[q] # << >>,
         RecordNextDone(qs)
  PROVE  \A r \in Queue, e \in Op : In(r, e)' => In(r, e)
<1> SUFFICES ASSUME NEW r \in Queue, NEW e \in Op, In(r, e)'
             PROVE  In(r, e)
  OBVIOUS
<1>1. m_operations[r] \in Seq(Op)
  BY DEF QueuesOK
<1>2. PICK j \in 1 .. Len(m_operations'[r]) : m_operations'[r][j] = e
  BY DEF In
<1>3. CASE r \notin qs
  <2>1. m_operations'[r] = m_operations[r]
    BY <1>3 DEF RecordNextDone
  <2> QED BY <1>2, <2>1 DEF In
<1>4. CASE r \in qs
  <2>1. m_operations'[r] = Tail(m_operations[r]) /\ m_operations[r] # << >>
    BY <1>4 DEF RecordNextDone
  <2>2. j + 1 \in 1 .. Len(m_operations[r]) /\ m_operations'[r][j] = m_operations[r][j + 1]
    BY <1>1, <1>2, <2>1
  <2> QED BY <1>2, <2>2 DEF In
<1> QED BY <1>3, <1>4

\* What a tidy program says of the streams that its hosts submit to.
LEMMA TidyFacts ==
  ASSUME TidyPrograms, HostsOK, NEW h \in Host, NEW n \in DOMAIN Program[h],
         Program[h][n].call \in OpKind
  PROVE  /\ Program[h][n].stream # ZERO =>
              /\ \E m \in DOMAIN Program[h] :
                   /\ m < n /\ Program[h][m].call = "create"
                   /\ Program[h][m].stream = Program[h][n].stream
              /\ \A g \in Host : \A m \in DOMAIN Program[g] :
                   /\ Program[g][m].call = "destroy" /\ Program[g][m].stream = Program[h][n].stream
                        => g = h /\ m > n
              /\ ~OfCta(Program[h][n].stream)
         /\ Program[h][n].call = "wait_event" /\ Program[h][n].stream = ZERO =>
              /\ \A g \in Host : \A m \in DOMAIN Program[g] :
                   Program[g][m].call = "destroy" => g = h
              /\ DeviceKernel = {}
<1>1. Tidy(load)
  BY DEF TidyPrograms, HostsOK
<1>2. \A g \in Host : Program[g] \in Seq(Call)
  BY Kernels
<1>d. \A c \in DeviceKernel : \E g \in Host : \E m \in DOMAIN Program[g] :
        c[2] \in DOMAIN Program[g][m].children /\ StreamOf(c) = Program[g][m].children[c[2]]
  <2> TAKE c \in DeviceKernel
  <2>1. PICK k \in HostKernel : c \in {k} \X DOMAIN CtaStreams(k)
    BY DEF DeviceKernel
  <2>2. c[1] = k /\ c[2] \in DOMAIN CtaStreams(k)
    BY <2>1
  <2>3. PICK g \in Host : k \in {g} \X DOMAIN Program[g]
    BY DEF HostKernel
  <2>4. k[1] = g /\ k[2] \in DOMAIN Program[g]
    BY <2>3
  <2> QED BY <2>2, <2>4 DEF CtaStreams, StreamOf, Parent
<1>3. ASSUME Program[h][n].stream # ZERO
      PROVE  /\ \E m \in DOMAIN Program[h] :
                  /\ m < n /\ Program[h][m].call = "create"
                  /\ Program[h][m].stream = Program[h][n].stream
             /\ \A g \in Host : \A m \in DOMAIN Program[g] :
                  /\ Program[g][m].call = "destroy" /\ Program[g][m].stream = Program[h][n].stream
                       => g = h /\ m > n
             /\ ~OfCta(Program[h][n].stream)
  <2>1. /\ \E m \in 1 .. n - 1 :
             Program[h][m].call = "create" /\ Program[h][m].stream = Program[h][n].stream
        /\ \A g \in Host : \A m \in DOMAIN Program[g] :
             /\ Program[g][m].call = "destroy" /\ Program[g][m].stream = Program[h][n].stream
                  => g = h /\ m > n
             /\ \A i \in DOMAIN Program[g][m].children :
                  Program[g][m].children[i] # Program[h][n].stream
    BY <1>1, <1>3 DEF Tidy, Program
  <2>2. \A m \in 1 .. n - 1 : m \in DOMAIN Program[h] /\ m < n
    BY <1>2
  <2> QED BY <1>d, <2>1, <2>2 DEF OfCta
<1>4. ASSUME Program[h][n].call = "wait_event", Program[h][n].stream = ZERO
      PROVE  /\ \A g \in Host : \A m \in DOMAIN Program[g] :
                  Program[g][m].call = "destroy" => g = h
             /\ DeviceKernel = {}
  <2>1. \A g \in Host : \A m \in DOMAIN Program[g] :
             /\ Program[g][m].call = "destroy" => g = h
             /\ Program[g][m].children = << >>
    BY <1>1, <1>4 DEF Tidy, Program
  <2>2. DOMAIN << >> = {}
    OBVIOUS
  <2> QED BY <1>d, <2>1, <2>2
<1> QED BY <1>3, <1>4

\* Streams that are added or removed leave the others where they are.
LEMMA ListedKept ==
  ASSUME m_streams \in Seq(Queue), NEW q \in Queue, Listed(q), NEW S, NEW t \in Seq(Queue),
         \/ m_streams' = m_streams
         \/ m_streams' = m_streams \o t
         \/ m_streams' = Only(m_streams, Queue \ S) /\ q \notin S
  PROVE  Listed(q)'
<1>1. CASE q = ZERO \/ m_streams' = m_streams
  BY <1>1 DEF Listed
<1>2. CASE q # ZERO /\ m_streams' = m_streams \o t
  <2>1. PICK j \in 1 .. Len(m_streams) : m_streams[j] = q
    BY <1>2 DEF Listed
  <2>2. j \in 1 .. Len(m_streams \o t) /\ (m_streams \o t)[j] = m_streams[j]
    BY <2>1
  <2> QED BY <1>2, <2>1, <2>2 DEF Listed
<1>3. CASE q # ZERO /\ m_streams' = Only(m_streams, Queue \ S) /\ q \notin S
  <2>1. (\E j \in 1 .. Len(m_streams) : m_streams[j] = q) /\ q \in Queue \ S
    BY <1>3 DEF Listed
  <2>2. PICK T : T = Queue \ S
    OBVIOUS
  <2>3. (\E j \in 1 .. Len(Only(m_streams, T)) : Only(m_streams, T)[j] = q)
          <=> q \in T /\ \E j \in 1 .. Len(m_streams) : m_streams[j] = q
    BY OnlyElements
  <2>4. m_streams' = Only(m_streams, T)
    BY <1>3, <2>2
  <2> QED BY <2>1, <2>2, <2>3, <2>4 DEF Listed
<1> QED BY <1>1, <1>2, <1>3

\* The queues of a new walk.
LEMMA AllSeen ==
  ASSUME m_streams \in Seq(Queue)
  PROVE  /\ Append(m_streams, ZERO) \in Seq(Queue)
         /\ \A q \in Queue : Listed(q) =>
              \E j \in 1 .. Len(Append(m_streams, ZERO)) : Append(m_streams, ZERO)[j] = q
<1>1. ZERO \in Queue
  BY DEF Queue
<1>2. Append(m_streams, ZERO) \in Seq(Queue)
  BY <1>1
<1>3. ASSUME NEW q \in Queue, Listed(q)
      PROVE  \E j \in 1 .. Len(Append(m_streams, ZERO)) : Append(m_streams, ZERO)[j] = q
  <2>1. CASE q = ZERO
    <3>1. /\ Len(m_streams) + 1 \in 1 .. Len(Append(m_streams, ZERO))
          /\ Append(m_streams, ZERO)[Len(m_streams) + 1] = ZERO
      OBVIOUS
    <3> QED BY <2>1, <3>1
  <2>2. CASE q # ZERO
    <3>1. PICK j \in 1 .. Len(m_streams) : m_streams[j] = q
      BY <1>3, <2>2 DEF Listed
    <3>2. j \in 1 .. Len(Append(m_streams, ZERO)) /\ Append(m_streams, ZERO)[j] = m_streams[j]
      BY <3>1
    <3> QED BY <3>1, <3>2
  <2> QED BY <2>1, <2>2
<1> QED BY <1>2, <1>3


\* What a host does to the list of streams and to the queues.
LEMMA HostMoves ==
  ASSUME Queued, Walked, TidyPrograms, NEW h \in Host, HostStep(h), load' = load
  PROVE  /\ \A q \in Queue : Listed(q) =>
              Listed(q)' \/ (Destroy(h) /\ q = CurrentCall(h).stream /\ q # ZERO)
         /\ \A q \in Queue, e \in Op : In(q, e)' =>
              In(q, e) \/ (Push(h) /\ e.id = <<h, calls[h] + 1>> /\ Usable(q))
<1>q. QueuesOK /\ HostsOK /\ PushOK /\ OpsOK /\ GpuOK /\ m_streams \in Seq(Queue)
  BY DEF Queued, QueuesOK
<1>1. ASSUME NEW q \in Queue, Listed(q)
      PROVE  Listed(q)' \/ (Destroy(h) /\ q = CurrentCall(h).stream /\ q # ZERO)
  <2>0. << >> \in Seq(Queue)
    OBVIOUS
  <2>1. CASE m_streams' = m_streams
    BY <1>q, <1>1, <2>0, <2>1, ListedKept
  <2>2. CASE AddStream(h)
    <3>1. m_streams' = Append(m_streams, CurrentCall(h).stream) /\ calls[h] < Len(Program[h])
      BY <2>2 DEF AddStream, Calls
    <3>2. CurrentCall(h).stream \in Queue
      BY <1>q, <3>1, CallType DEF Call
    <3>3. /\ <<CurrentCall(h).stream>> \in Seq(Queue)
          /\ m_streams' = m_streams \o <<CurrentCall(h).stream>>
      BY <1>q, <3>1, <3>2
    <3> QED BY <1>q, <1>1, <3>3, ListedKept
  <2>3. CASE Destroy(h)
    <3>1. m_streams' = Only(m_streams, Queue \ {CurrentCall(h).stream})
      BY <2>3 DEF Destroy
    <3>2. CASE q \notin {CurrentCall(h).stream}
      BY <1>q, <1>1, <2>0, <3>1, <3>2, ListedKept
    <3>3. CASE q \in {CurrentCall(h).stream}
      BY <2>3, <3>3 DEF Listed
    <3> QED BY <3>2, <3>3
  <2> QED BY <2>1, <2>2, <2>3, HostFrame
<1>2. ASSUME NEW q \in Queue, NEW e \in Op, In(q, e)', ~In(q, e)
      PROVE  Push(h) /\ e.id = <<h, calls[h] + 1>> /\ Usable(q)
  <2> DEFINE r == IF load.blocking THEN ZERO ELSE Head(targets[h])
  <2>1. Push(h) /\ m_operations' # m_operations
    BY <1>2, HostFrame DEF In
  <2>2. at[h] = "push" /\ m_operations' = [m_operations EXCEPT ![r] = Append(@, NewOp(h))]
    BY <2>1 DEF Push
  <2>3. targets[h] \in Seq(Queue) /\ targets[h] # << >>
    BY <1>q, <2>2 DEF HostsOK, PushOK, Pushing
  <2>4. Head(targets[h]) \in Queue /\ Head(targets[h]) = targets[h][1] /\ 1 \in 1 .. Len(targets[h])
    BY <2>3
  <2>5. Usable(ZERO)
    <3>1. ~OfCta(ZERO)
      BY <1>q, Kernels, RuntimeAssumption DEF OfCta
    <3> QED BY <3>1 DEF Usable, Listed
  <2>6. Usable(Head(targets[h]))
    BY <2>2, <2>4 DEF Walked, TargetsOK, Pushing
  <2>7. r \in Queue /\ Usable(r)
    BY <2>4, <2>5, <2>6 DEF Queue
  <2> HIDE DEF r
  <2>8. PICK o \in Op : o = NewOp(h)
    BY <1>q, <2>2, NewOpFresh
  <2>9. m_operations' = [m_operations EXCEPT ![r] = Append(@, o)]
    BY <2>2, <2>8
  <2>10. q = r /\ e = o
    BY <1>q, <1>2, <2>7, <2>9, PushIn
  <2> QED BY <2>1, <2>7, <2>8, <2>10 DEF NewOp
<1> QED BY <1>1, <1>2

\* A host stays in the call that it waits for.
LEMMA HostCalls ==
  ASSUME Queued, Walked, NEW h \in Host, HostStep(h), load' = load
  PROVE  CallOK' /\ (calls'[h] # calls[h] /\ CurrentCall(h).call = "create" => AddStream(h))
<1>f. Program' = Program
  BY LoadFixed
<1>o. /\ \A g \in Host \ {h} : at'[g] = at[g] /\ calls'[g] = calls[g]
      /\ calls'[h] = calls[h] \/ calls'[h] = calls[h] + 1
      /\ at \in [Host -> Places] /\ calls \in [Host -> Nat]
  BY HostType, OthersKept DEF Queued, HostsOK
<1> DEFINE c == CurrentCall(h).call
           Fits(p) ==
             /\ p \in {"sync", "sync_scan"} => c \in {"device_sync", "stream_sync"}
             /\ p \in {"destroy_sync", "destroy"} => calls[h] < Len(Program[h]) /\ c = "destroy"
             /\ p = "exit" => c = "exit"
<1>1. Fits(at[h])
  BY DEF Walked, CallOK
<1>p. at[h] \in Pushing => c \in OpKind
  BY DEF Queued, PushOK
<1>k. OpKind \cap {"create", "destroy", "device_sync", "stream_sync", "exit"} = {}
  BY DEF OpKind
<1>r. Return(h) => at'[h] = "call"
  BY <1>o DEF Return
<1>n. NextTarget(h) => at'[h] \in {"call", "push", "block"}
  BY <1>o, <1>r DEF NextTarget
<1>2. /\ Fits(at'[h])
      /\ calls'[h] # calls[h] /\ c = "create" => AddStream(h)
  <2>1. CASE BeginPush(h)
    <3>1. c \in OpKind
      BY <2>1 DEF BeginPush, Calls
    <3>2. at'[h] \in {"call", "push", "block"}
      BY <2>1, <1>o, <1>r DEF BeginPush
    <3> QED BY <1>k, <3>1, <3>2
  <2>2. CASE PushBlocked(h)
    <3>1. at'[h] = "push" /\ calls' = calls
      BY <2>2, <1>o DEF PushBlocked
    <3> QED BY <3>1
  <2>3. CASE Push(h)
    <3>1. at[h] \in Pushing
      BY <2>3 DEF Push, Pushing
    <3>2. at'[h] \in {"call", "push", "block", "drain"}
      BY <2>3, <1>o, <1>n DEF Push
    <3> QED BY <1>k, <1>p, <3>1, <3>2
  <2>4. CASE Drain(h)
    <3>1. at[h] \in Pushing /\ at[h] = "drain"
      BY <2>4 DEF Drain, Pushing
    <3>2. at'[h] \in {"call", "push", "block", "drain"}
      BY <2>4, <3>1, <1>o, <1>n DEF Drain
    <3> QED BY <1>k, <1>p, <3>1, <3>2
  <2>5. CASE BeginSync(h)
    <3>1. c \in {"device_sync", "stream_sync"} /\ at'[h] = "sync" /\ calls' = calls
      BY <2>5, <1>o DEF BeginSync, Calls
    <3> QED BY <3>1
  <2>6. CASE StreamSync(h)
    <3>1. c = "stream_sync" /\ at'[h] = "call"
      BY <2>6, <1>r DEF StreamSync, Calls
    <3> QED BY <3>1
  <2>7. CASE SyncLock(h)
    <3>1. at[h] = "sync" /\ at'[h] = "sync_scan" /\ calls' = calls
      BY <2>7, <1>o DEF SyncLock
    <3> QED BY <1>1, <3>1
  <2>8. CASE SyncScan(h)
    <3>1. at[h] = "sync_scan" /\ at'[h] \in {"sync_scan", "call", "sync"}
      BY <2>8, <1>o, <1>r DEF SyncScan
    <3> QED BY <1>1, <3>1
  <2>9. CASE AddStream(h)
    <3>1. at'[h] = "call"
      BY <2>9, <1>r DEF AddStream
    <3> QED BY <2>9, <3>1
  <2>10. CASE BeginDestroy(h)
    <3>1. c = "destroy" /\ calls[h] < Len(Program[h]) /\ at'[h] = "destroy_sync" /\ calls' = calls
      BY <2>10, <1>o DEF BeginDestroy, Calls
    <3> QED BY <3>1
  <2>11. CASE DestroyLock(h)
    <3>1. at[h] = "destroy_sync" /\ at'[h] = "destroy" /\ calls' = calls
      BY <2>11, <1>o DEF DestroyLock
    <3> QED BY <1>1, <3>1
  <2>12. CASE Destroy(h)
    <3>1. at[h] = "destroy" /\ at'[h] = "call"
      BY <2>12, <1>r DEF Destroy
    <3> QED BY <1>1, <3>1
  <2>13. CASE BeginExit(h)
    <3>1. c = "exit" /\ at'[h] = "exit" /\ calls' = calls
      BY <2>13, <1>o DEF BeginExit, Calls
    <3> QED BY <3>1
  <2>14. CASE Exit(h)
    <3>1. at[h] = "exit" /\ at'[h] = "call"
      BY <2>14, <1>r DEF Exit
    <3> QED BY <1>1, <3>1
  <2> QED
    BY <2>1, <2>2, <2>3, <2>4, <2>5, <2>6, <2>7, <2>8, <2>9, <2>10, <2>11, <2>12, <2>13, <2>14
       DEF HostStep
<1>3. calls'[h] # calls[h] => at'[h] = "call"
  <2>1. calls' # calls => Return(h)
    BY DEF HostStep, BeginPush, PushBlocked, Push, Drain, BeginSync, StreamSync, SyncLock, SyncScan,
           AddStream, BeginDestroy, DestroyLock, Destroy, BeginExit, Exit, NextTarget
  <2> QED BY <1>r, <2>1
<1>4. CallOK'
  <2> SUFFICES ASSUME NEW g \in Host
               PROVE  LET d == Program[g][calls'[g] + 1].call IN
                      /\ at'[g] \in {"sync", "sync_scan"} => d \in {"device_sync", "stream_sync"}
                      /\ at'[g] \in {"destroy_sync", "destroy"} => calls'[g] < Len(Program[g]) /\ d = "destroy"
                      /\ at'[g] = "exit" => d = "exit"
    BY <1>f DEF CallOK, CurrentCall
  <2>1. CASE g # h
    BY <1>o, <2>1 DEF Walked, CallOK, CurrentCall
  <2>2. CASE g = h /\ calls'[h] = calls[h]
    BY <1>2, <2>2 DEF CurrentCall
  <2>3. CASE g = h /\ calls'[h] # calls[h]
    BY <1>3, <2>3
  <2> QED BY <2>1, <2>2, <2>3
<1> QED BY <1>2, <1>4

\* The streams that hosts use stay in the list while they use them.
LEMMA HostStreams ==
  ASSUME Queued, Walked, TidyPrograms, NEW h \in Host, HostStep(h), load' = load
  PROVE  CreatedOK' /\ UsableOK'
<1>f. Program' = Program /\ DeviceKernel' = DeviceKernel
  BY LoadFixed
<1>c. \A q : OfCta(q)' <=> OfCta(q)
  BY <1>f DEF OfCta, StreamOf, CtaStreams, Parent
<1>o. /\ \A g \in Host \ {h} : calls'[g] = calls[g]
      /\ calls'[h] = calls[h] \/ calls'[h] = calls[h] + 1
      /\ calls \in [Host -> Nat] /\ HostsOK
      /\ \A g \in Host : Program[g] \in Seq(Call)
  BY HostType, OthersKept, Kernels DEF Queued, HostsOK
<1>m. /\ \A q \in Queue : Listed(q) =>
           Listed(q)' \/ (Destroy(h) /\ q = CurrentCall(h).stream /\ q # ZERO)
      /\ \A q \in Queue, e \in Op : In(q, e)' =>
           In(q, e) \/ (Push(h) /\ e.id = <<h, calls[h] + 1>> /\ Usable(q))
  BY HostMoves
<1>d. Destroy(h) => /\ calls[h] + 1 \in DOMAIN Program[h] /\ CurrentCall(h).call = "destroy"
                    /\ CurrentCall(h) = Program[h][calls[h] + 1]
                    /\ m_operations[CurrentCall(h).stream] = << >>
                    /\ calls'[h] = calls[h] + 1
  <2> SUFFICES ASSUME Destroy(h)
               PROVE  /\ calls[h] + 1 \in DOMAIN Program[h] /\ CurrentCall(h).call = "destroy"
                      /\ m_operations[CurrentCall(h).stream] = << >>
                      /\ calls'[h] = calls[h] + 1
    BY DEF CurrentCall
  <2>1. calls[h] < Len(Program[h]) /\ CurrentCall(h).call = "destroy"
    BY DEF Destroy, Walked, CallOK
  <2> QED BY <1>o, <2>1, CallType DEF Destroy, Return
<1>1. ASSUME NEW g \in Host, NEW m \in DOMAIN Program[g], NEW n \in DOMAIN Program[g],
             m <= calls'[g], calls'[g] < n,
             Program[g][m].call = "create", Program[g][n].call \in OpKind,
             Program[g][m].stream = Program[g][n].stream,
             NEW q, q = Program[g][n].stream
      PROVE  Listed(q)'
  <2>1. m \in Nat /\ n \in Nat /\ q \in Queue
    <3>1. m \in Nat /\ n \in Nat /\ Program[g][n] \in Call
      BY <1>o
    <3> QED BY <1>1, <3>1 DEF Call
  <2>2. CASE m <= calls[g]
    <3>1. calls[g] < n
      BY <1>1, <1>o, <2>1
    <3>2. Listed(q)
      BY <1>1, <2>2, <3>1 DEF Walked, CreatedOK
    <3>3. ASSUME Destroy(h), q = CurrentCall(h).stream, q # ZERO
          PROVE  FALSE
      <4>1. h = g /\ calls[h] + 1 > n
        <5>1. /\ calls[h] + 1 \in DOMAIN Program[h] /\ Program[h][calls[h] + 1].call = "destroy"
              /\ Program[h][calls[h] + 1].stream = q
          BY <1>d, <3>3
        <5>2. \A x \in Host : \A k \in DOMAIN Program[x] :
                Program[x][k].call = "destroy" /\ Program[x][k].stream = q => x = g /\ k > n
          <6>1. Program[g][n].stream # ZERO
            BY <1>1, <3>3
          <6>2. \A x \in Host : \A k \in DOMAIN Program[x] :
                  Program[x][k].call = "destroy" /\ Program[x][k].stream = Program[g][n].stream
                    => x = g /\ k > n
            BY <1>1, <1>o, <6>1, TidyFacts
          <6> QED BY <1>1, <6>2
        <5> QED BY <5>1, <5>2
      <4>2. calls'[g] = calls[h] + 1
        BY <1>d, <3>3, <4>1
      <4> QED BY <1>1, <1>o, <2>1, <4>1, <4>2
    <3> QED BY <1>m, <2>1, <3>2, <3>3
  <2>3. CASE ~(m <= calls[g])
    <3>1. g = h /\ calls'[h] = calls[h] + 1 /\ m = calls[h] + 1
      BY <1>1, <1>o, <2>1, <2>3
    <3>2. CurrentCall(h).call = "create" /\ CurrentCall(h).stream = q
      BY <1>1, <3>1 DEF CurrentCall
    <3>3. AddStream(h)
      BY <1>o, <3>1, <3>2, HostCalls
    <3>4. m_streams' = Append(m_streams, q) /\ m_streams \in Seq(Queue)
      BY <3>2, <3>3 DEF AddStream, Queued, QueuesOK
    <3>5. Len(m_streams) + 1 \in 1 .. Len(m_streams') /\ m_streams'[Len(m_streams) + 1] = q
      BY <2>1, <3>4
    <3> QED BY <3>5 DEF Listed
  <2> QED BY <2>2, <2>3
<1>2. ASSUME NEW q \in Queue, NEW g \in Host, Has(q, g)'
      PROVE  Usable(q)'
  <2>1. PICK e \in Op : In(q, e)' /\ e.id[1] = g
    BY <1>2 DEF Has
  <2>2. CASE In(q, e)
    <3>1. Usable(q)
      BY <2>1, <2>2 DEF Walked, UsableOK, Has
    <3>2. ASSUME Destroy(h), q = CurrentCall(h).stream
          PROVE  FALSE
      <4>1. m_operations[q] = << >>
        BY <1>d, <3>2
      <4>2. PICK j \in 1 .. Len(m_operations[q]) : TRUE
        BY <2>2 DEF In
      <4>3. j \in 1 .. 0
        BY <4>1, <4>2
      <4> QED BY <4>3
    <3> QED BY <1>c, <1>m, <3>1, <3>2 DEF Usable
  <2>3. CASE ~In(q, e)
    <3>1. Push(h) /\ Usable(q)
      BY <1>m, <2>1, <2>3
    <3>2. ~Destroy(h)
      BY <3>1 DEF Push, Destroy
    <3> QED BY <1>c, <1>m, <3>1, <3>2 DEF Usable
  <2> QED BY <2>2, <2>3
<1>3. CreatedOK'
  <2> SUFFICES ASSUME NEW g \in Host, NEW m \in DOMAIN Program[g], NEW n \in DOMAIN Program[g],
                      m <= calls'[g], calls'[g] < n,
                      Program[g][m].call = "create", Program[g][n].call \in OpKind,
                      Program[g][m].stream = Program[g][n].stream,
                      NEW q, q = Program[g][n].stream
               PROVE  Listed(q)'
    BY <1>f DEF CreatedOK
  <2> QED BY <1>1
<1>4. UsableOK'
  BY <1>2 DEF UsableOK
<1> QED BY <1>3, <1>4

\* The streams that a call submits to are in the list until it has done so.
LEMMA HostTargets ==
  ASSUME Queued, Walked, TidyPrograms, NEW h \in Host, HostStep(h), load' = load
  PROVE  TargetsOK'
<1>f. Program' = Program /\ DeviceKernel' = DeviceKernel
  BY LoadFixed
<1>c. \A q : OfCta(q)' <=> OfCta(q)
  BY <1>f DEF OfCta, StreamOf, CtaStreams, Parent
<1>o. /\ \A g \in Host \ {h} : at'[g] = at[g] /\ calls'[g] = calls[g] /\ targets'[g] = targets[g]
      /\ at \in [Host -> Places] /\ calls \in [Host -> Nat] /\ targets \in [Host -> Seq(Queue)]
      /\ m_streams \in Seq(Queue) /\ HostsOK
  BY HostType, OthersKept DEF Queued, HostsOK, QueuesOK
<1>m. \A q \in Queue : Listed(q) =>
        Listed(q)' \/ (Destroy(h) /\ q = CurrentCall(h).stream /\ q # ZERO)
  BY HostMoves
<1>z. Usable(ZERO)
  <2>1. ~OfCta(ZERO)
    BY <1>o, Kernels, RuntimeAssumption DEF OfCta
  <2> QED BY <2>1 DEF Usable, Listed
<1> DEFINE Fits(g, q) ==
             /\ Usable(q)
             /\ Everywhere(g) \/ q = CurrentCall(g).stream
<1>1. ASSUME NEW g \in Host, g # h, at[g] \in Pushing, NEW i \in 1 .. Len(targets[g])
      PROVE  Usable(targets[g][i])' /\ (Everywhere(g) \/ targets[g][i] = CurrentCall(g).stream)'
  <2> DEFINE n == calls[g] + 1
  <2>q. PICK q : q = targets[g][i]
    OBVIOUS
  <2>1. Fits(g, q) /\ q \in Queue
    BY <1>1, <1>o, <2>q DEF Walked, TargetsOK
  <2>2. n \in DOMAIN Program[g] /\ CurrentCall(g) = Program[g][n] /\ CurrentCall(g).call \in OpKind
    BY <1>1, CallType DEF Queued, PushOK, CurrentCall
  <2>3. ASSUME Destroy(h), q = CurrentCall(h).stream, q # ZERO
        PROVE  FALSE
    <3>1. /\ calls[h] < Len(Program[h]) /\ CurrentCall(h).call = "destroy"
          /\ CurrentCall(h) = Program[h][calls[h] + 1]
      BY <2>3 DEF Destroy, Walked, CallOK, CurrentCall
    <3>2. calls[h] + 1 \in DOMAIN Program[h]
      BY <1>o, <3>1, CallType
    <3>3. CASE Everywhere(g)
      BY <1>1, <1>o, <2>2, <3>1, <3>2, <3>3, TidyFacts DEF Everywhere
    <3>4. CASE q = CurrentCall(g).stream
      BY <1>1, <1>o, <2>2, <2>3, <3>1, <3>2, <3>4, TidyFacts
    <3> QED BY <2>1, <3>3, <3>4
  <2>4. Listed(q)'
    BY <1>m, <2>1, <2>3 DEF Usable
  <2>u. Usable(q)'
    BY <1>c, <2>1, <2>4 DEF Usable
  <2>5. CurrentCall(g)' = CurrentCall(g)
    BY <1>1, <1>f, <1>o DEF CurrentCall
  <2>6. targets'[g][i] = q
    BY <1>1, <1>o, <2>q
  <2>7. Usable(targets[g][i])'
    BY <2>u, <2>6
  <2> QED BY <2>q, <2>1, <2>5, <2>6, <2>7 DEF Everywhere
<1>r. Return(h) => at'[h] = "call"
  BY <1>o DEF Return
<1>p. "call" \notin Pushing /\ \A p \in Places \ Pushing : p \notin Pushing
  BY DEF Pushing
<1>n. ASSUME at[h] \in Pushing, NextTarget(h), at'[h] \in Pushing
      PROVE  calls' = calls /\ \A i \in 1 .. Len(targets'[h]) : Fits(h, targets'[h][i])
  <2>1. targets'[h] = Tail(targets[h]) /\ targets[h] \in Seq(Queue) /\ targets[h] # << >>
    BY <1>n, <1>o DEF NextTarget, Queued, PushOK
  <2>2. calls' = calls
    BY <1>n, <1>p, <1>r DEF NextTarget
  <2>3. \A i \in 1 .. Len(targets'[h]) : /\ i + 1 \in 1 .. Len(targets[h])
                                         /\ targets'[h][i] = targets[h][i + 1]
    BY <2>1
  <2>4. \A i \in 1 .. Len(targets[h]) : Fits(h, targets[h][i])
    BY <1>n DEF Walked, TargetsOK
  <2> QED BY <2>2, <2>3, <2>4
<1>2. ASSUME at'[h] \in Pushing
      PROVE  /\ calls'[h] = calls[h] /\ ~Destroy(h)
             /\ \A i \in 1 .. Len(targets'[h]) : Fits(h, targets'[h][i])
  <2>k. at[h] \in Pushing => \A i \in 1 .. Len(targets[h]) : Fits(h, targets[h][i])
    BY DEF Walked, TargetsOK
  <2>1. CASE BeginPush(h)
    <3> DEFINE c == CurrentCall(h)
               qs == IF Everywhere(h) THEN m_streams ELSE <<c.stream>>
    <3>1. calls[h] < Len(Program[h]) /\ c.call \in OpKind
      BY <2>1 DEF BeginPush, Calls
    <3>2. /\ calls[h] + 1 \in DOMAIN Program[h] /\ c = Program[h][calls[h] + 1]
          /\ c \in Call /\ c.stream \in Queue
      BY <1>o, <3>1, CallType DEF Call, CurrentCall
    <3>3. calls' = calls /\ targets'[h] = qs
      BY <2>1, <1>2, <1>o, <1>p, <1>r DEF BeginPush, Everywhere
    <3>4. CASE Everywhere(h)
      <4>1. DeviceKernel = {}
        BY <1>o, <3>1, <3>2, <3>4, TidyFacts DEF Everywhere
      <4>2. \A i \in 1 .. Len(m_streams) : Usable(m_streams[i])
        BY <4>1 DEF Usable, Listed, OfCta
      <4> QED BY <2>1, <3>3, <3>4, <4>2 DEF BeginPush, Destroy, Calls
    <3>5. CASE ~Everywhere(h)
      <4>1. Usable(c.stream)
        <5>1. CASE c.stream = ZERO
          BY <1>z, <5>1
        <5>2. CASE c.stream # ZERO
          <6>1. PICK m \in DOMAIN Program[h] :
                  /\ m < calls[h] + 1 /\ Program[h][m].call = "create"
                  /\ Program[h][m].stream = c.stream
            BY <1>o, <3>1, <3>2, <5>2, TidyFacts
          <6>2. Program[h] \in Seq(Call)
            BY <1>o, Kernels
          <6>3. m <= calls[h] /\ calls[h] < calls[h] + 1
            BY <1>o, <6>1, <6>2
          <6>4. Listed(c.stream)
            BY <3>1, <3>2, <6>1, <6>3 DEF Walked, CreatedOK
          <6>5. ~OfCta(c.stream)
            BY <1>o, <3>1, <3>2, <5>2, TidyFacts
          <6> QED BY <6>4, <6>5 DEF Usable
        <5> QED BY <5>1, <5>2
      <4>2. Len(<<c.stream>>) = 1 /\ <<c.stream>>[1] = c.stream
        OBVIOUS
      <4>3. \A i \in 1 .. Len(<<c.stream>>) : i = 1
        BY <4>2
      <4> QED BY <2>1, <3>3, <3>5, <4>1, <4>2, <4>3 DEF BeginPush, Destroy, Calls
    <3> QED BY <3>4, <3>5
  <2>2. CASE PushBlocked(h)
    <3>1. at[h] = "block" /\ calls' = calls /\ targets' = targets
      BY <2>2 DEF PushBlocked
    <3> QED BY <2>k, <3>1 DEF Pushing, Destroy
  <2>3. CASE Push(h)
    <3>1. at[h] = "push" /\ at[h] \in Pushing
      BY <2>3 DEF Push, Pushing
    <3>2. NextTarget(h) \/ UNCHANGED <<calls, targets>>
      BY <2>3 DEF Push
    <3> QED BY <1>2, <1>n, <2>k, <3>1, <3>2 DEF Destroy
  <2>4. CASE Drain(h)
    <3>1. at[h] = "drain" /\ at[h] \in Pushing
      BY <2>4 DEF Drain, Pushing
    <3>2. NextTarget(h) \/ UNCHANGED <<calls, targets>>
      BY <2>4 DEF Drain
    <3> QED BY <1>2, <1>n, <2>k, <3>1, <3>2 DEF Destroy
  <2>5. ~(BeginPush(h) \/ PushBlocked(h) \/ Push(h) \/ Drain(h)) => at'[h] \notin Pushing
    <3>1. ~(BeginPush(h) \/ PushBlocked(h) \/ Push(h) \/ Drain(h)) =>
            at'[h] \in {"call", "sync", "sync_scan", "destroy_sync", "destroy", "exit"}
      BY <1>o, <1>r DEF HostStep, BeginSync, StreamSync, SyncLock, SyncScan, AddStream, BeginDestroy,
                        DestroyLock, Destroy, BeginExit, Exit
    <3> QED BY <3>1 DEF Pushing
  <2> QED BY <1>2, <2>1, <2>2, <2>3, <2>4, <2>5
<1>3. ASSUME NEW i \in 1 .. Len(targets'[h]), at'[h] \in Pushing
      PROVE  Usable(targets[h][i])' /\ (Everywhere(h) \/ targets[h][i] = CurrentCall(h).stream)'
  <2>1. Fits(h, targets'[h][i]) /\ calls'[h] = calls[h] /\ ~Destroy(h)
    BY <1>2, <1>3
  <2>2. targets'[h][i] \in Queue
    <3>1. targets'[h] \in Seq(Queue)
      BY HostType DEF Queued, HostsOK
    <3> QED BY <3>1
  <2>3. CurrentCall(h)' = CurrentCall(h)
    BY <1>f, <2>1 DEF CurrentCall
  <2> QED BY <1>c, <1>m, <2>1, <2>2, <2>3 DEF Usable, Everywhere
<1> SUFFICES ASSUME NEW g \in Host, at'[g] \in Pushing, NEW i \in 1 .. Len(targets'[g])
             PROVE  Usable(targets[g][i])' /\ (Everywhere(g) \/ targets[g][i] = CurrentCall(g).stream)'
  BY DEF TargetsOK
<1> QED BY <1>1, <1>3, <1>o

\* A host queues an operation of its own, and no kernel launched by a kernel.
LEMMA HostKinds ==
  ASSUME Queued, Walked, TidyPrograms, NEW h \in Host, HostStep(h), load' = load
  PROVE  /\ ChildrenOK' /\ KindsOK'
         /\ \A g \in Host, q \in Queue : Has(q, g)' => Has(q, g) \/ (g = h /\ at[h] = "push")
<1>f. Program' = Program /\ DeviceKernel' = DeviceKernel
  BY LoadFixed
<1>g. UNCHANGED <<m_child_kernels, g_cuda_device_launch_op>>
  BY HostFrame DEF gpu, device
<1>m. \A q \in Queue, e \in Op : In(q, e)' =>
        In(q, e) \/ (at[h] = "push" /\ e.id = <<h, calls[h] + 1>>)
  BY HostMoves DEF Push
<1>1. KindsOK'
  BY <1>m DEF KindsOK, Walked
<1>2. \A c \in DeviceKernel : Parent(c) \in HostKernel /\ c \in OpId /\ c[1] \notin Host
  <2>1. \A c \in DeviceKernel : Parent(c) \in Host \X (Nat \ {0}) /\ c \in OpId
    BY Kernels DEF Queued, Kernel
  <2> QED BY <2>1, Kernels, RuntimeAssumption DEF Parent, Queued
<1>3. ASSUME NEW c \in DeviceKernel, NEW q \in Queue, NEW i \in Nat, KernelOp(q, i, c)'
      PROVE  \E j \in Nat : KernelOp(q, j, c)
  <2>1. m_operations'[q] \in Seq(Op)
    BY HostKeeps DEF Queued, QueuesOK
  <2>2. PICK e \in Op : e = m_operations'[q][i]
    BY <1>3, <2>1 DEF KernelOp
  <2>3. In(q, e)' /\ e.kind = "kernel" /\ e.id = c
    BY <1>3, <2>2 DEF KernelOp, In
  <2>4. e.id # <<h, calls[h] + 1>>
    BY <1>2, <2>3
  <2>5. PICK j \in 1 .. Len(m_operations[q]) : m_operations[q][j] = e
    BY <1>m, <2>3, <2>4 DEF In
  <2> QED BY <2>3, <2>5 DEF KernelOp
<1>4. ChildrenOK'
  <2> SUFFICES ASSUME NEW c \in DeviceKernel, (Waits(c) \/ \E q \in Queue, i \in Nat : KernelOp(q, i, c))'
               PROVE  c \in m_child_kernels[Parent(c)]
    BY <1>f, <1>g DEF ChildrenOK, Parent
  <2>1. Waits(c)' <=> Waits(c)
    BY <1>g DEF Waits
  <2> QED BY <1>3, <2>1 DEF Walked, ChildrenOK
<1>5. \A g \in Host, q \in Queue : Has(q, g)' => Has(q, g) \/ (g = h /\ at[h] = "push")
  BY <1>m DEF Has
<1> QED BY <1>1, <1>4, <1>5

\* A walk that passes a queue misses nothing: the queue is empty, and its host submits nothing
\* before the walk is over.
LEMMA HostSees ==
  ASSUME Queued, Walked, TidyPrograms, NEW h \in Host, HostStep(h), load' = load
  PROVE  SeenOK'
<1>o. /\ \A g \in Host \ {h} : at'[g] = at[g]
      /\ at \in [Host -> Places] /\ unseen \in [Host -> Seq(Queue)] /\ m_streams \in Seq(Queue)
  BY HostType, OthersKept DEF Queued, HostsOK, QueuesOK, Walked, SeenOK
<1>u. UsableOK' /\ \A g \in Host, q \in Queue : Has(q, g)' => Has(q, g) \/ (g = h /\ at[h] = "push")
  BY HostStreams, HostKinds
<1>a. /\ Append(m_streams, ZERO) \in Seq(Queue)
      /\ \A q \in Queue : Listed(q) =>
           \E j \in 1 .. Len(Append(m_streams, ZERO)) : Append(m_streams, ZERO)[j] = q
  BY <1>o, AllSeen
<1> DEFINE Sees(u) == \A q \in Queue : Has(q, h)' => \E j \in 1 .. Len(u) : u[j] = q
\* A walk starts with every queue.
<1>b. ASSUME m_streams' = m_streams
      PROVE  Sees(Append(m_streams, ZERO))
  <2>1. \A q \in Queue : Has(q, h)' => Listed(q)
    BY <1>b, <1>u DEF UsableOK, Usable, Listed
  <2> QED BY <1>a, <2>1
\* A walk goes on.
<1>l. ASSUME Look(h), at[h] \in Walking, unseen[h] # << >>, m_streams' = m_streams
      PROVE  \E u \in Seq(Queue) : unseen' = [unseen EXCEPT ![h] = u] /\ Sees(u)
  <2>1. /\ unseen[h] \in Seq(Queue) /\ Tail(unseen[h]) \in Seq(Queue)
        /\ Head(unseen[h]) = unseen[h][1]
    BY <1>l, <1>o
  <2>2. CASE QueueEmpty(Head(unseen[h]))
    <3>1. unseen' = [unseen EXCEPT ![h] = Tail(unseen[h])]
      BY <2>2, <1>l DEF Look
    <3>2. ASSUME NEW q \in Queue, Has(q, h)'
          PROVE  \E j \in 1 .. Len(Tail(unseen[h])) : Tail(unseen[h])[j] = q
      <4>1. Has(q, h)
        BY <1>l, <1>u, <3>2 DEF Walking
      <4>2. PICK j \in 1 .. Len(unseen[h]) : unseen[h][j] = q
        BY <1>l, <4>1 DEF Walked, SeenOK
      <4>3. m_operations[q] # << >>
        <5>1. PICK e \in Op : In(q, e)
          BY <4>1 DEF Has
        <5>2. PICK i \in 1 .. Len(m_operations[q]) : TRUE
          BY <5>1 DEF In
        <5>3. 1 .. Len(<< >>) = {}
          OBVIOUS
        <5> QED BY <5>2, <5>3
      <4>4. j # 1
        BY <2>1, <2>2, <4>2, <4>3 DEF QueueEmpty
      <4>5. j - 1 \in 1 .. Len(Tail(unseen[h])) /\ Tail(unseen[h])[j - 1] = unseen[h][j]
        BY <1>l, <2>1, <4>2, <4>4
      <4> QED BY <4>2, <4>5
    <3> QED BY <2>1, <3>1, <3>2
  <2>3. CASE ~QueueEmpty(Head(unseen[h]))
    <3>1. unseen' = [unseen EXCEPT ![h] = Append(m_streams, ZERO)]
      BY <2>3, <1>l DEF Look
    <3> QED BY <1>a, <1>b, <1>l, <3>1
  <2> QED BY <2>2, <2>3
\* It is over when the host is somewhere else.
<1>1. \E u \in Seq(Queue) : unseen' = [unseen EXCEPT ![h] = u] /\ (at'[h] \in Walking => Sees(u))
  <2>e. unseen = [unseen EXCEPT ![h] = unseen[h]] /\ unseen[h] \in Seq(Queue)
    BY <1>o
  <2>r. Return(h) => at'[h] = "call"
    BY <1>o DEF Return
  <2>n. NextTarget(h) => at'[h] \in {"call", "push", "block"}
    BY <1>o, <2>r DEF NextTarget
  <2>1. CASE Push(h)
    <3>1. m_streams' = m_streams
      BY <2>1 DEF Push
    <3>2. CASE unseen' = [unseen EXCEPT ![h] = Append(m_streams, ZERO)]
      BY <1>a, <1>b, <3>1, <3>2
    <3>3. CASE NextTarget(h) /\ UNCHANGED unseen
      BY <2>e, <2>n, <3>3 DEF Walking
    <3> QED BY <2>1, <3>2, <3>3 DEF Push
  <2>2. CASE Drain(h)
    <3>1. at[h] \in Walking /\ m_streams' = m_streams
      BY <2>2 DEF Drain, Walking, queues
    <3>2. CASE unseen[h] # << >>
      <4>1. Look(h)
        BY <2>2, <3>2 DEF Drain
      <4> QED BY <1>l, <3>1, <3>2, <4>1
    <3>3. CASE unseen[h] = << >>
      <4>1. NextTarget(h) /\ UNCHANGED unseen
        BY <2>2, <3>3 DEF Drain
      <4> QED BY <2>e, <2>n, <4>1 DEF Walking
    <3> QED BY <3>2, <3>3
  <2>3. CASE SyncLock(h)
    <3>1. m_streams' = m_streams /\ unseen' = [unseen EXCEPT ![h] = Append(m_streams, ZERO)]
      BY <2>3 DEF SyncLock, queues
    <3> QED BY <1>a, <1>b, <3>1
  <2>4. CASE SyncScan(h)
    <3>1. at[h] \in Walking /\ m_streams' = m_streams
      BY <2>4 DEF SyncScan, Walking, queues
    <3>2. CASE unseen[h] # << >> /\ QueueEmpty(Head(unseen[h]))
      <4>1. Look(h)
        BY <2>4, <3>2 DEF SyncScan
      <4> QED BY <1>l, <3>1, <3>2, <4>1
    <3>3. CASE ~(unseen[h] # << >> /\ QueueEmpty(Head(unseen[h])))
      <4>1. UNCHANGED unseen /\ at'[h] \in {"call", "sync"}
        BY <1>o, <2>4, <2>r, <3>3 DEF SyncScan
      <4> QED BY <2>e, <4>1 DEF Walking
    <3> QED BY <3>2, <3>3
  <2>5. CASE ~(Push(h) \/ Drain(h) \/ SyncLock(h) \/ SyncScan(h))
    <3>1. UNCHANGED unseen
      BY <2>5 DEF HostStep, BeginPush, PushBlocked, BeginSync, StreamSync, AddStream, BeginDestroy,
                  DestroyLock, Destroy, BeginExit, Exit
    <3>2. at'[h] \in {"call", "push", "block", "sync", "destroy_sync", "destroy", "exit"}
      BY <1>o, <2>5, <2>r DEF HostStep, BeginPush, PushBlocked, BeginSync, StreamSync, AddStream,
                  BeginDestroy, DestroyLock, Destroy, BeginExit, Exit
    <3> QED BY <2>e, <3>1, <3>2 DEF Walking
  <2> QED BY <2>1, <2>2, <2>3, <2>4, <2>5
<1>2. PICK u \in Seq(Queue) : unseen' = [unseen EXCEPT ![h] = u] /\ (at'[h] \in Walking => Sees(u))
  BY <1>1
<1>3. unseen' \in [Host -> Seq(Queue)] /\ unseen'[h] = u /\ \A g \in Host \ {h} : unseen'[g] = unseen[g]
  BY <1>2, <1>o
<1>4. ASSUME NEW g \in Host, at'[g] \in Walking, NEW q \in Queue, Has(q, g)'
      PROVE  \E j \in 1 .. Len(unseen'[g]) : unseen'[g][j] = q
  <2>1. CASE g = h
    BY <1>2, <1>3, <1>4, <2>1
  <2>2. CASE g # h
    <3>1. at'[g] = at[g] /\ unseen'[g] = unseen[g]
      BY <1>3, <1>o, <2>2
    <3>2. Has(q, g)
      BY <1>4, <1>u, <2>2
    <3>3. \E j \in 1 .. Len(unseen[g]) : unseen[g][j] = q
      BY <1>4, <3>1, <3>2 DEF Walked, SeenOK
    <3> QED BY <3>1, <3>3
  <2> QED BY <2>1, <2>2
<1> QED BY <1>3, <1>4 DEF SeenOK

\* What the steps of the simulation thread leave alone, so that the walks go on: they
\* remove the streams of CTAs only, and submit nothing in the name of a host.
SimLeaves ==
  /\ \A q \in Queue : Usable(q) => Listed(q)'
  /\ \A q \in Queue, e \in Op : In(q, e)' => In(q, e) \/ (e.kind = "kernel" /\ e.id[1] \notin Host)
  /\ ChildrenOK'
  /\ UNCHANGED <<load, at, calls, targets, unseen>>

\* Most of them queue nothing at all.
NoneQueued == \A q \in Queue, e \in Op : In(q, e)' => In(q, e)

LEMMA SimWalks ==
  ASSUME Queued, Walked, TidyPrograms, SimLeaves
  PROVE  Walked'
<1>f. Program' = Program /\ DeviceKernel' = DeviceKernel
  BY LoadFixed DEF SimLeaves
<1>c. \A q : OfCta(q)' <=> OfCta(q)
  BY <1>f DEF OfCta, StreamOf, CtaStreams, Parent
<1>u. \A q \in Queue : Usable(q) => Usable(q)'
  BY <1>c DEF Usable, SimLeaves
<1>h. \A q \in Queue, h \in Host : Has(q, h)' => Has(q, h)
  BY DEF Has, SimLeaves
<1>p. \A h \in Host : CurrentCall(h)' = CurrentCall(h) /\ Program[h] \in Seq(Call)
  BY <1>f, Kernels DEF CurrentCall, SimLeaves, Queued
<1>1. CallOK'
  BY <1>f, <1>p DEF Walked, CallOK, SimLeaves
<1>2. TargetsOK'
  <2> SUFFICES ASSUME NEW h \in Host, at[h] \in Pushing, NEW i \in 1 .. Len(targets[h])
               PROVE  Usable(targets[h][i])' /\ (Everywhere(h) \/ targets[h][i] = CurrentCall(h).stream)'
    BY DEF TargetsOK, SimLeaves
  <2>1. targets[h][i] \in Queue /\ targets'[h][i] = targets[h][i]
    <3>1. targets[h] \in Seq(Queue)
      BY DEF Queued, HostsOK
    <3> QED BY <3>1 DEF SimLeaves
  <2>2. Usable(targets[h][i]) /\ (Everywhere(h) \/ targets[h][i] = CurrentCall(h).stream)
    BY DEF Walked, TargetsOK
  <2>3. Usable(targets[h][i])'
    <3>1. Listed(targets[h][i])'
      BY <2>1, <2>2 DEF SimLeaves, Listed, Usable
    <3> QED BY <1>c, <2>1, <2>2, <3>1 DEF Usable
  <2> QED BY <1>p, <2>1, <2>2, <2>3 DEF Everywhere
<1>3. CreatedOK'
  <2> SUFFICES ASSUME NEW h \in Host, NEW m \in DOMAIN Program[h], NEW n \in DOMAIN Program[h],
                      m <= calls[h], calls[h] < n,
                      Program[h][m].call = "create", Program[h][n].call \in OpKind,
                      Program[h][m].stream = Program[h][n].stream,
                      NEW q, q = Program[h][n].stream
               PROVE  Listed(q)'
    BY <1>f DEF CreatedOK, SimLeaves
  <2>1. q \in Queue
    <3>1. Program[h][n] \in Call
      BY <1>p
    <3> QED BY <3>1 DEF Call
  <2>2. CASE q = ZERO
    BY <2>2 DEF Listed
  <2>3. CASE q # ZERO
    <3>1. Listed(q)
      BY DEF Walked, CreatedOK
    <3>2. ~OfCta(q)
      BY <2>3, TidyFacts DEF Queued
    <3> QED BY <2>1, <3>1, <3>2 DEF Usable, SimLeaves
  <2> QED BY <2>2, <2>3
<1>4. UsableOK'
  BY <1>h, <1>u DEF Walked, UsableOK
<1>5. SeenOK'
  BY <1>h DEF Walked, SeenOK, SimLeaves
<1>6. KindsOK'
  BY DEF Walked, KindsOK, SimLeaves
<1> QED BY <1>1, <1>2, <1>3, <1>4, <1>5, <1>6 DEF SimLeaves, Walked

\* A kernel launched by a kernel that is over is in no queue, and its parent forgets it.
LEMMA FinishLeaves ==
  ASSUME Queued, Walked, Untangled, finished # << >>, CheckFinishedKernel(Over(Head(finished))),
         UNCHANGED <<load, at, calls, targets, unseen, g_cuda_device_launch_op>>
  PROVE  SimLeaves /\ NoneQueued
<1>f. DeviceKernel' = DeviceKernel
  BY LoadFixed
<1>ks. PICK ks : ks = Over(Head(finished))
  OBVIOUS
<1> DEFINE qs == {m_grid_id_to_stream[k] : k \in ks}
<1>1. /\ RecordNextDone(qs)
      /\ m_child_kernels' = [k \in Kernel |-> m_child_kernels[k] \ ks]
      /\ m_streams' = Only(m_streams, Queue \ Freed(ks))
  BY <1>ks DEF CheckFinishedKernel
<1>2. \A k \in ks : \E q \in Queue : Owns(k, q) /\ m_grid_id_to_stream[k] = q
  <2>1. ks \subseteq Kernel /\ \A k \in ks : Owner(k)
    BY <1>ks, OverIs
  <2> QED BY <2>1 DEF Queued, OwnersOK, Owns
<1>3. \A q \in qs : q \in Queue /\ m_operations[q] # << >>
  <2> TAKE q \in qs
  <2>1. PICK k \in ks : Owns(k, q) /\ q \in Queue
    BY <1>2
  <2>2. 1 \in 1 .. Len(m_operations[q]) /\ 1 .. Len(<< >>) = {}
    BY <2>1 DEF Owns, KernelOp
  <2> QED BY <2>1, <2>2
<1>4. QueuesOK /\ OpsOK /\ Unique /\ m_streams \in Seq(Queue)
  BY DEF Queued, QueuesOK
<1>5. \A c \in DeviceKernel : c \in ks =>
        \E r \in Queue : r \in qs /\ KernelOp(r, 1, c)
  BY <1>2 DEF Owns
<1>d. \A c \in DeviceKernel : /\ c \in OpId /\ c \notin HostKernel
                              /\ Parent(c) \in Kernel
  BY Kernels DEF Queued, Kernel
<1> HIDE DEF qs
<1>6. /\ \A q \in Queue, i \in Nat, k \in OpId :
           KernelOp(q, i, k)' => KernelOp(q, IF q \in qs THEN i + 1 ELSE i, k)
      /\ \A r \in Queue, e \in Op : In(r, e)' => In(r, e)
  BY <1>1, <1>3, <1>4, PopOps, PopIn
<1>7. \A q \in Queue : Usable(q) => Listed(q)'
  <2>1. \A q \in Freed(ks) : OfCta(q)
    BY DEF Freed, OfCta, Queued, GpuOK
  <2>2. << >> \in Seq(Queue)
    OBVIOUS
  <2> QED BY <1>1, <1>4, <2>1, <2>2, ListedKept DEF Usable
<1>8. ASSUME NEW c \in DeviceKernel, (Waits(c) \/ \E q \in Queue, i \in Nat : KernelOp(q, i, c))'
      PROVE  c \in m_child_kernels'[Parent(c)]
  <2>1. CASE Waits(c)'
    <3>1. Waits(c)
      BY <2>1 DEF Waits
    <3>2. c \notin ks
      BY <1>4, <1>5, <1>d, <3>1 DEF OpsOK, Pushed
    <3>3. c \in m_child_kernels[Parent(c)]
      BY <3>1 DEF Walked, ChildrenOK
    <3> QED BY <1>1, <1>d, <3>2, <3>3
  <2>2. CASE \E q \in Queue, i \in Nat : KernelOp(q, i, c)'
    <3>1. PICK q \in Queue, i \in Nat : KernelOp(q, i, c)'
      BY <2>2
    <3>2. PICK j \in Nat : j = IF q \in qs THEN i + 1 ELSE i
      OBVIOUS
    <3>3. KernelOp(q, j, c)
      BY <1>6, <1>d, <3>1, <3>2
    <3>4. c \notin ks
      <4> SUFFICES ASSUME c \in ks PROVE FALSE
        OBVIOUS
      <4>1. PICK r \in Queue : r \in qs /\ KernelOp(r, 1, c)
        BY <1>5
      <4>2. q = r /\ j = 1
        BY <1>4, <1>d, <3>3, <4>1 DEF Unique
      <4>3. i \in 1 .. Len(m_operations'[q])
        BY <3>1 DEF KernelOp
      <4> QED BY <3>2, <4>1, <4>2, <4>3
    <3>5. c \in m_child_kernels[Parent(c)]
      BY <3>3 DEF Walked, ChildrenOK
    <3> QED BY <1>1, <1>d, <3>4, <3>5
  <2> QED BY <1>8, <2>1, <2>2
<1>9. ChildrenOK'
  BY <1>f, <1>8 DEF ChildrenOK, Parent
<1> QED BY <1>6, <1>7, <1>9 DEF SimLeaves, NoneQueued

\* operation() takes an operation that no kernel submitted, or none.
LEMMA OperationLeaves ==
  ASSUME Queued, Walked, Operation, load' = load
  PROVE  SimLeaves /\ NoneQueued
<1>f. DeviceKernel' = DeviceKernel
  BY LoadFixed
<1>1. UNCHANGED <<m_streams, at, calls, targets, unseen, m_child_kernels, g_cuda_device_launch_op>>
  BY DEF Operation, hosts, device
<1>2. /\ \A q \in Queue, i \in Nat, k \in OpId : KernelOp(q, i, k)' => \E j \in Nat : KernelOp(q, j, k)
      /\ \A r \in Queue, e \in Op : In(r, e)' => In(r, e)
  <2>q. PICK q \in Queue : q = FrontQueue
    BY FrontIs DEF Queued
  <2>1. CASE Serviceable(q) /\ Pops(q)
    <3>1. RecordNextDone({q}) /\ m_operations[q] # << >>
      BY <2>1 DEF Pops, Serviceable
    <3>2. /\ \A r \in Queue, i \in Nat, k \in OpId :
               KernelOp(r, i, k)' => KernelOp(r, IF r \in {q} THEN i + 1 ELSE i, k)
          /\ \A r \in Queue, e \in Op : In(r, e)' => In(r, e)
      BY <3>1, PopOps, PopIn DEF Queued
    <3>3. \A i \in Nat : i + 1 \in Nat
      OBVIOUS
    <3> QED BY <3>2, <3>3
  <2>2. CASE UNCHANGED m_operations
    BY <2>2 DEF KernelOp, In
  <2> QED BY <2>q, <2>1, <2>2, OperationDoes DEF Queued, Starts, Retries
<1>3. \A q \in Queue : Listed(q) => Listed(q)'
  BY <1>1 DEF Listed
<1>4. ChildrenOK'
  <2>1. \A c \in DeviceKernel : c \in OpId
    BY Kernels DEF Queued, Kernel
  <2>2. \A c : Waits(c)' <=> Waits(c)
    BY <1>1 DEF Waits
  <2> QED BY <1>1, <1>2, <1>f, <2>1, <2>2 DEF Walked, ChildrenOK, Parent
<1> QED BY <1>1, <1>2, <1>3, <1>4 DEF SimLeaves, NoneQueued, Usable

\* A kernel that launches another has it among its children before it is queued, ...
LEMMA CycleLeaves ==
  ASSUME Queued, Walked, Untangled, Cycle, load' = load
  PROVE  SimLeaves /\ NoneQueued
<1>f. DeviceKernel' = DeviceKernel
  BY LoadFixed
<1> DEFINE rest == [k \in Kernel |-> IF k \in running THEN left[k] - 1 ELSE left[k]]
           done == {k \in running : rest[k] = 0}
<1>1. /\ \E new \in Launches(done) : LaunchDeviceV2(new)
      /\ UNCHANGED <<m_operations, at, calls, targets, unseen>>
  BY DEF Cycle, hosts
<1> HIDE DEF done
<1>2. PICK new \in Launches(done) : LaunchDeviceV2(new)
  BY <1>1
<1> DEFINE fresh == {StreamOf(c) : c \in new} \ {m_streams[i] : i \in 1 .. Len(m_streams)}
<1>3. /\ new \subseteq DeviceKernel /\ IsFiniteSet(new) /\ IsFiniteSet(fresh) /\ fresh \subseteq Queue
  BY LaunchesFinite
<1>4. /\ m_child_kernels' = [k \in Kernel |-> m_child_kernels[k] \cup {c \in new : Parent(c) = k}]
      /\ \E n \in Orders(new) : g_cuda_device_launch_op' = g_cuda_device_launch_op \o n
      /\ \E s \in Orders(fresh) : m_streams' = m_streams \o s
  BY <1>2 DEF LaunchDeviceV2
<1> HIDE DEF fresh
<1>5. PICK n \in Orders(new) : g_cuda_device_launch_op' = g_cuda_device_launch_op \o n
  BY <1>4
<1>6. PICK s \in Orders(fresh) : m_streams' = m_streams \o s
  BY <1>4
<1>7. n \in Seq(DeviceKernel) /\ \A i \in 1 .. Len(n) : n[i] \in new
  <2>1. n \in Seq(new)
    BY <1>3, OrdersOnce
  <2> QED BY <1>3, <2>1
<1>8. s \in Seq(Queue)
  <2>1. s \in Seq(fresh)
    BY <1>3, OrdersOnce
  <2> QED BY <1>3, <2>1
<1>9. \A q \in Queue : Listed(q) => Listed(q)'
  BY <1>6, <1>8, ListedKept DEF Queued, QueuesOK
<1>10. \A c \in DeviceKernel : Waits(c)' => Waits(c) \/ c \in new
  <2> DEFINE g == g_cuda_device_launch_op
  <2> SUFFICES ASSUME NEW j \in 1 .. Len(g')
               PROVE  (\E i \in 1 .. Len(g) : g[i] = g'[j]) \/ g'[j] \in new
    BY DEF Waits
  <2>1. g \in Seq(DeviceKernel) /\ g' = g \o n
    BY <1>5 DEF Queued, GpuOK
  <2>2. CASE j <= Len(g)
    <3>1. j \in 1 .. Len(g) /\ g'[j] = g[j]
      BY <1>7, <2>1, <2>2
    <3> QED BY <3>1
  <2>3. CASE ~(j <= Len(g))
    <3>1. j - Len(g) \in 1 .. Len(n) /\ g'[j] = n[j - Len(g)]
      BY <1>7, <2>1, <2>3
    <3> QED BY <1>7, <3>1
  <2> QED BY <2>2, <2>3
<1>11. \A q, i, k : KernelOp(q, i, k)' <=> KernelOp(q, i, k)
  BY <1>1 DEF KernelOp
<1>12. ChildrenOK'
  <2>1. \A c \in DeviceKernel : Parent(c) \in Kernel
    BY Kernels DEF Queued, Kernel
  <2>2. \A c \in DeviceKernel : c \in m_child_kernels[Parent(c)] \/ c \in new
                                  => c \in m_child_kernels'[Parent(c)]
    BY <1>4, <2>1
  <2> QED BY <1>f, <1>10, <1>11, <2>2 DEF Walked, ChildrenOK, Parent
<1>13. \A q \in Queue, e \in Op : In(q, e)' => In(q, e)
  BY <1>1 DEF In
<1> QED BY <1>1, <1>9, <1>12, <1>13 DEF SimLeaves, NoneQueued, Usable

\* ... and it is queued under its own name.
LEMMA LaunchOneLeaves ==
  ASSUME Queued, Walked, LaunchOneDeviceKernel, g_cuda_device_launch_op # << >>, load' = load
  PROVE  SimLeaves
<1>f. DeviceKernel' = DeviceKernel
  BY LoadFixed
<1> DEFINE g == g_cuda_device_launch_op
<1>g. /\ g \in Seq(DeviceKernel) /\ Head(g) = g[1] /\ g[1] \in DeviceKernel
      /\ 1 \in 1 .. Len(g)
  BY DEF Queued, GpuOK
<1>c. PICK c \in DeviceKernel : c = Head(g)
  BY <1>g
<1>q. PICK q : q = IF load.blocking THEN ZERO ELSE StreamOf(c)
  OBVIOUS
<1>1. /\ m_operations' = IF max_hit THEN m_operations
                         ELSE [m_operations EXCEPT ![q] = Append(@, DeviceOp(c))]
      /\ g' = Tail(g)
      /\ UNCHANGED <<m_streams, m_child_kernels, at, calls, targets, unseen>>
  BY <1>c, <1>q DEF LaunchOneDeviceKernel, hosts
<1>2. q \in Queue
  BY <1>q, Kernels DEF Queued, Queue
<1>3. Parent(c) \in Host \X (Nat \ {0}) /\ \A d \in DeviceKernel : d \in OpId
  BY Kernels DEF Queued, Kernel
<1>4. c[1] \notin Host
  BY <1>3, RuntimeAssumption DEF Parent
<1>5. DeviceOp(c) \in Op /\ DeviceOp(c).kind = "kernel" /\ DeviceOp(c).id = c
  <2>1. Parent(c) \in HostKernel
    BY Kernels DEF Queued
  <2>2. PICK h \in Host : c[1] \in {h} \X DOMAIN Program[h]
    BY <2>1 DEF HostKernel, Parent
  <2>3. Program[c[1][1]][c[1][2]] \in Call
    BY <2>2, Kernels DEF Queued
  <2>4. Program[c[1][1]][c[1][2]].event \in Event
    BY <2>3 DEF Call
  <2> QED BY <1>3, <2>4 DEF DeviceOp, Op, OpKind
<1>o. PICK o \in Op : o = DeviceOp(c)
  BY <1>5
<1>6. /\ \A r \in Queue, e \in Op : In(r, e)' => In(r, e) \/ e = o
      /\ \A r \in Queue, i \in Nat, k \in OpId : KernelOp(r, i, k)' => KernelOp(r, i, k) \/ k = c
  <2>1. CASE m_operations' = m_operations
    BY <2>1 DEF In, KernelOp
  <2>2. CASE m_operations' = [m_operations EXCEPT ![q] = Append(@, o)]
    BY <1>2, <1>5, <1>o, <2>2, PushIn, PushOps DEF Queued
  <2> QED BY <1>1, <1>o, <2>1, <2>2
<1>7. Waits(c) /\ \A d \in DeviceKernel : Waits(d)' => Waits(d)
  <2>1. \A i \in 1 .. Len(g') : i + 1 \in 1 .. Len(g) /\ g'[i] = g[i + 1]
    BY <1>1, <1>g
  <2> QED BY <2>1, <1>c, <1>g DEF Waits
<1>8. ChildrenOK'
  <2>1. \A d \in DeviceKernel : (Waits(d) \/ \E r \in Queue, i \in Nat : KernelOp(r, i, d))' =>
          Waits(d) \/ \E r \in Queue, i \in Nat : KernelOp(r, i, d)
    BY <1>3, <1>6, <1>7
  <2> QED BY <1>1, <1>f, <2>1 DEF Walked, ChildrenOK, Parent
<1>9. \A r \in Queue : Listed(r) => Listed(r)'
  BY <1>1 DEF Listed
<1> QED BY <1>1, <1>4, <1>5, <1>6, <1>8, <1>9, <1>o DEF SimLeaves, Usable

\* Every step keeps the walks right.
LEMMA WalkedInductive ==
  ASSUME Untangled, TidyPrograms, Queued, LaunchOK, Walked, [Next]_vars
  PROVE  Walked'
<1>1. ASSUME NEW h \in Host, HostThread(h)
      PROVE  Walked'
  <2>1. HostStep(h) /\ load' = load
    BY <1>1 DEF HostThread
  <2> QED BY <2>1, HostCalls, HostStreams, HostTargets, HostKinds, HostSees DEF Walked
<1>q. ASSUME UNCHANGED <<load, queues, m_child_kernels, g_cuda_device_launch_op, hosts>>
      PROVE  Walked'
  <2>1. UNCHANGED <<load, m_streams, m_operations, at, calls, targets, unseen>>
    BY <1>q DEF queues, hosts
  <2>f. DeviceKernel' = DeviceKernel
    BY <2>1, LoadFixed
  <2>2. /\ \A q : Listed(q)' <=> Listed(q)
        /\ \A q, e : In(q, e)' <=> In(q, e)
        /\ \A q, i, k : KernelOp(q, i, k)' <=> KernelOp(q, i, k)
        /\ \A k : Waits(k)' <=> Waits(k)
    BY <1>q, <2>1 DEF Listed, In, KernelOp, Waits
  <2>3. ChildrenOK'
    BY <1>q, <2>f, <2>2 DEF Walked, ChildrenOK, Parent
  <2>4. SimLeaves
    BY <2>1, <2>2, <2>3 DEF SimLeaves, Usable
  <2> QED BY <2>4, SimWalks
<1>2. CASE SimThread
  <2>1. SimStep /\ load' = load
    BY <1>2 DEF SimThread
  <2>2. CASE DetectWork \/ Activate \/ Idle \/ StopAll \/ Stopped \/ TestActive \/ Deactivate
             \/ ThreadExit
    BY <1>q, <2>1, <2>2 DEF DetectWork, Activate, Idle, StopAll, Stopped, TestActive, Deactivate,
                            ThreadExit, gpu, device
  <2>3. CASE Check
    <3>1. UNCHANGED <<at, calls, targets, unseen, g_cuda_device_launch_op, hosts>>
      BY <2>3 DEF Check, hosts
    <3>2. CASE finished = << >>
      BY <1>q, <2>1, <2>3, <3>1, <3>2 DEF Check
    <3>3. CASE finished # << >>
      <4>1. CheckFinishedKernel(Over(Head(finished)))
        BY <2>3, <3>3 DEF Check
      <4> QED BY <2>1, <3>1, <3>3, <4>1, FinishLeaves, SimWalks
    <3> QED BY <3>2, <3>3
  <2>4. CASE StopOne
    <3>1. /\ finished # << >> /\ CheckFinishedKernel(Over(Head(finished)))
          /\ UNCHANGED <<at, calls, targets, unseen, g_cuda_device_launch_op>>
      BY <2>4 DEF StopOne, hosts
    <3> QED BY <2>1, <3>1, FinishLeaves, SimWalks
  <2>5. CASE Operation
    BY <2>1, <2>5, OperationLeaves, SimWalks
  <2>6. CASE Cycle
    BY <2>1, <2>6, CycleLeaves, SimWalks
  <2>7. CASE LaunchOneDeviceKernel
    <3>1. g_cuda_device_launch_op # << >>
      BY <2>7 DEF LaunchOneDeviceKernel, LaunchOK
    <3> QED BY <2>1, <2>7, <3>1, LaunchOneLeaves, SimWalks
  <2> QED BY <2>1, <2>2, <2>3, <2>4, <2>5, <2>6, <2>7 DEF SimStep
<1>3. CASE UNCHANGED vars
  BY <1>q, <1>3 DEF vars, gpu, device
<1> QED BY <1>1, <1>2, <1>3 DEF Next

\* Initially there is nothing to wait for.
LEMMA WalkedInit == ASSUME Init PROVE Walked
<1>1. /\ m_operations = [q \in Queue |-> << >>] /\ g_cuda_device_launch_op = << >>
      /\ at = [h \in Host |-> "call"] /\ calls = [h \in Host |-> 0]
      /\ unseen = [h \in Host |-> << >>] /\ load \in Workloads
  BY DEF Init
<1>2. \A i : i \notin 1 .. Len(<< >>)
  OBVIOUS
<1>3. CallOK
  BY <1>1 DEF CallOK
<1>4. TargetsOK
  BY <1>1 DEF TargetsOK, Pushing
<1>5. \A q \in Queue, e \in Op : ~In(q, e)
  BY <1>1, <1>2 DEF In
<1>6. UsableOK /\ KindsOK
  BY <1>5 DEF UsableOK, KindsOK, Has
<1>7. SeenOK
  <2>1. << >> \in Seq(Queue)
    OBVIOUS
  <2> QED BY <1>1, <2>1 DEF SeenOK, Walking
<1>8. CreatedOK
  <2>1. \A h \in Host : Program[h] \in Seq(Call)
    BY <1>1, RuntimeAssumption DEF Program, Workload
  <2>2. \A h \in Host : \A m \in DOMAIN Program[h] : ~(m <= calls[h])
    BY <1>1, <2>1
  <2> QED BY <2>2 DEF CreatedOK
<1>9. ChildrenOK
  BY <1>1, <1>2 DEF ChildrenOK, Waits, KernelOp
<1> QED BY <1>3, <1>4, <1>6, <1>7, <1>8, <1>9 DEF Walked

\* When the walk of a host is over it has nothing outstanding, nor have its kernels.
LEMMA WalkOver ==
  ASSUME Queued, Walked, NEW h \in Host, at[h] \in Walking, unseen[h] = << >>
  PROVE  Outstanding(h) \cup Descendants(h) = {}
<1>1. \A q \in Queue : ~Has(q, h)
  <2>1. \A j : j \notin 1 .. Len(<< >>)
    OBVIOUS
  <2> QED BY <2>1 DEF Walked, SeenOK
<1>2. \A q \in Queue : m_operations[q] \in Seq(Op)
  BY DEF Queued, QueuesOK
<1>3. ASSUME NEW o \in Outstanding(h)
      PROVE  FALSE
  <2>1. PICK q \in Queue : \E i \in 1 .. Len(m_operations[q]) : o = m_operations[q][i]
    BY DEF Outstanding
  <2>2. o \in Op /\ In(q, o) /\ o.id[1] = h
    BY <1>2, <2>1 DEF Outstanding, In
  <2> QED BY <1>1, <2>2 DEF Has
<1>4. ASSUME NEW c \in Descendants(h)
      PROVE  FALSE
  <2>1. c \in DeviceKernel /\ Parent(c)[1] = h
    BY DEF Descendants
  <2>2. Waits(c) \/ \E q \in Queue, i \in Nat : KernelOp(q, i, c)
    <3>1. CASE c \in {g_cuda_device_launch_op[i] : i \in DOMAIN g_cuda_device_launch_op}
      <4>1. DOMAIN g_cuda_device_launch_op = 1 .. Len(g_cuda_device_launch_op)
        BY DEF Queued, GpuOK
      <4> QED BY <3>1, <4>1 DEF Waits
    <3>2. CASE c \in UNION {{m_operations[q][i].id : i \in 1 .. Len(m_operations[q])} : q \in Queue}
      <4>1. PICK q \in Queue : \E i \in 1 .. Len(m_operations[q]) : c = m_operations[q][i].id
        BY <3>2
      <4>2. PICK i \in 1 .. Len(m_operations[q]) : c = m_operations[q][i].id
        BY <4>1
      <4>3. m_operations[q][i] \in Op /\ In(q, m_operations[q][i])
        BY <1>2, <4>2 DEF In
      <4>4. c[1] \notin Host
        <5>1. Parent(c) \in Host \X (Nat \ {0})
          BY <2>1, Kernels DEF Queued
        <5> QED BY <5>1, RuntimeAssumption DEF Parent
      <4>5. m_operations[q][i].kind = "kernel"
        BY <4>2, <4>3, <4>4 DEF Walked, KindsOK
      <4>6. KernelOp(q, i, c) /\ i \in Nat
        BY <4>2, <4>5 DEF KernelOp
      <4> QED BY <4>6
    <3> QED BY <3>1, <3>2 DEF Descendants
  <2> DEFINE p == Parent(c)
  <2>3. c \in m_child_kernels[p] /\ p \in HostKernel /\ p \in Kernel
    BY <2>1, <2>2, Kernels DEF Walked, ChildrenOK, Kernel, Queued
  <2>4. PICK q \in Queue : Owns(p, q)
    BY <2>3 DEF Queued, OwnersOK, Owner
  <2>5. m_operations[q][1].id = p /\ 1 \in 1 .. Len(m_operations[q])
    BY <2>4 DEF Owns, KernelOp
  <2>6. m_operations[q][1] \in Op /\ In(q, m_operations[q][1])
    BY <1>2, <2>5 DEF In
  <2> QED BY <1>1, <2>1, <2>5, <2>6 DEF Has
<1> QED BY <1>3, <1>4

\* When a call that blocks returns, everything its host submitted before is complete with all
\* that its kernels launched, although empty() looks at the queues one by one without m_lock;
\* only the end of the simulation excuses a synchronize.
THEOREM CallsReturnDrained == ASSUME Untangled, TidyPrograms PROVE Spec => BlockingReturn
<1> DEFINE Inv == Queued /\ LaunchOK /\ Walked
           Returns ==
             \A h \in Host :
               (at[h] \in {"drain", "sync_scan"} /\ at'[h] = "call")
                 => \/ Outstanding(h) \cup Descendants(h) = {}
                    \/ at[h] = "sync_scan" /\ g_sim_done
<1>1. Init => Inv
  BY QueuedInit, WalkedInit
<1>2. Inv /\ [Next]_vars => Inv'
  BY QueuedInductive, WalkedInductive
<1>3. Inv /\ [Next]_vars => [Returns]_vars
  <2> SUFFICES ASSUME Queued, Walked, Next, NEW h \in Host, at[h] \in Walking, at'[h] = "call"
               PROVE  \/ Outstanding(h) \cup Descendants(h) = {}
                      \/ at[h] = "sync_scan" /\ g_sim_done
    BY DEF Walking
  <2>1. at \in [Host -> Places]
    BY DEF Queued, HostsOK
  <2>2. ~SimThread
    <3>1. SimThread => at' = at
      BY DEF SimThread, SimStep, DetectWork, Activate, Check, Operation, Cycle, LaunchOneDeviceKernel,
             Idle, StopAll, StopOne, Stopped, TestActive, Deactivate, ThreadExit, hosts
    <3> QED BY <3>1 DEF Walking
  <2>3. PICK g \in Host : HostThread(g)
    BY <2>2 DEF Next
  <2>4. g = h /\ HostStep(h)
    <3>1. HostStep(g) /\ load' = load
      BY <2>3 DEF HostThread
    <3>2. \A x \in Host \ {g} : at'[x] = at[x]
      BY <3>1, HostType, OthersKept DEF Queued
    <3> QED BY <3>1, <3>2 DEF Walking
  <2>5. CASE at[h] = "drain"
    <3>1. Drain(h)
      BY <2>4, <2>5 DEF HostStep, BeginPush, PushBlocked, Push, BeginSync, StreamSync, SyncLock,
                        SyncScan, AddStream, BeginDestroy, DestroyLock, Destroy, BeginExit, Exit, Calls
    <3>2. unseen[h] = << >>
      BY <2>5, <3>1 DEF Drain
    <3> QED BY <3>2, WalkOver
  <2>6. CASE at[h] = "sync_scan"
    <3>1. SyncScan(h)
      BY <2>4, <2>6 DEF HostStep, BeginPush, PushBlocked, Push, Drain, BeginSync, StreamSync, SyncLock,
                        AddStream, BeginDestroy, DestroyLock, Destroy, BeginExit, Exit, Calls
    <3>2. unseen[h] = << >> \/ g_sim_done
      BY <2>1, <2>6, <3>1 DEF SyncScan
    <3> QED BY <2>6, <3>2, WalkOver
  <2> QED BY <2>5, <2>6 DEF Walking
<1>4. [][Returns]_vars => BlockingReturn
  BY DEF BlockingReturn
<1> HIDE DEF Inv, Returns
<1> QED BY <1>1, <1>2, <1>3, <1>4, PTL DEF Spec

-------------------------------------------------------------------------------
(***************************************************************************)
(* An event only counts.  That the wait of a host stands for the records   *)
(* it made before needs the records of an event to be in one queue: the    *)
(* programs record an event in one stream.                                 *)
(***************************************************************************)
OneStream(w) ==
  \A g, h \in Host : \A m \in DOMAIN w.program[g], n \in DOMAIN w.program[h] :
    (/\ w.program[g][m].call = "event" /\ w.program[h][n].call = "event"
     /\ w.program[g][m].event = w.program[h][n].event)
      => w.program[g][m].stream = w.program[h][n].stream

OneStreamEvents == \A w \in Workloads : w.blocking \/ OneStream(w)

\* Operation o is the i-th in queue q.
At(q, i, o) == i \in 1 .. Len(m_operations[q]) /\ m_operations[q][i] = o

\* A record or a wait in queue q comes from a call, and a record is in the queue of its stream.
FromCall(q, o) ==
  LET h == o.id[1]
      n == o.id[2]
  IN /\ h \in Host /\ n \in Nat /\ n <= calls[h] + 1
     /\ o.kind = "event" =>
          /\ n = calls[h] + 1 => at[h] = "drain"
          /\ n \in DOMAIN Program[h]
          /\ Program[h][n].call = "event" /\ Program[h][n].event = o.event
          /\ q = IF load.blocking THEN ZERO ELSE Program[h][n].stream

SubmittedOK ==
  \A q \in Queue, i \in Nat, o \in Op :
    At(q, i, o) /\ o.kind \in {"event", "wait_event"} => FromCall(q, o)

TargetOK ==
  \A h \in Host : at[h] \in Pushing /\ CurrentCall(h).call = "event" =>
    Head(targets[h]) = CurrentCall(h).stream

\* The hosts that have called issue() for a record that is in no queue yet.
Recording(e) ==
  {h \in Host : /\ at[h] \in {"block", "push"}
                /\ CurrentCall(h).call = "event" /\ CurrentCall(h).event = e}

\* R is what m_updates will be after each record in the queues, and T what it will be after
\* the last record of each event.  That is at most what was issued, ...
CountedOK(R, T) ==
  /\ \A e \in Event :
       /\ updates[e] <= T[e]
       /\ IsFiniteSet(Recording(e)) /\ T[e] + Cardinality(Recording(e)) <= issued[e]
  /\ \A q \in Queue, i \in Nat, o \in Op :
       At(q, i, o) /\ o.kind = "event" => updates[o.event] < R[o.id] /\ R[o.id] <= T[o.event]
  /\ \A q \in Queue, i, j \in Nat, o, p \in Op :
       (/\ At(q, i, o) /\ o.kind = "event" /\ At(q, j, p) /\ p.kind = "event"
        /\ o.event = p.event /\ i < j) => R[o.id] < R[p.id]

\* ... so a wait counts all the records that its host made before.
WaitsOK(R) ==
  /\ \A q, r \in Queue, i, j \in Nat, o, w \in Op :
       (/\ At(q, i, o) /\ o.kind = "event" /\ At(r, j, w) /\ w.kind = "wait_event"
        /\ o.event = w.event /\ o.id[1] = w.id[1] /\ o.id[2] < w.id[2]) => R[o.id] <= w.cnt
  /\ \A h \in Host : at[h] \in Pushing /\ CurrentCall(h).call = "wait_event" =>
       \A q \in Queue, i \in Nat, o \in Op :
         At(q, i, o) /\ o.kind = "event" /\ o.event = CurrentCall(h).event /\ o.id[1] = h
           => R[o.id] <= cnt[h]

RanksOK == \E R \in [OpId -> Int], T \in [Event -> Int] : CountedOK(R, T) /\ WaitsOK(R)

EventsOK == updates \in [Event -> Nat] /\ SubmittedOK /\ TargetOK /\ RanksOK

\* The records of an event are in one queue.
LEMMA OneQueue ==
  ASSUME OneStreamEvents, HostsOK, SubmittedOK,
         NEW q \in Queue, NEW i \in Nat, NEW o \in Op, At(q, i, o), o.kind = "event",
         NEW r \in Queue, NEW j \in Nat, NEW p \in Op, At(r, j, p), p.kind = "event",
         o.event = p.event
  PROVE  q = r
<1> DEFINE g == o.id[1]
           m == o.id[2]
           h == p.id[1]
           n == p.id[2]
<1>1. /\ g \in Host /\ m \in DOMAIN Program[g]
      /\ Program[g][m].call = "event" /\ Program[g][m].event = o.event
      /\ q = IF load.blocking THEN ZERO ELSE Program[g][m].stream
  BY DEF SubmittedOK, FromCall
<1>2. /\ h \in Host /\ n \in DOMAIN Program[h]
      /\ Program[h][n].call = "event" /\ Program[h][n].event = p.event
      /\ r = IF load.blocking THEN ZERO ELSE Program[h][n].stream
  BY DEF SubmittedOK, FromCall
<1> HIDE DEF g, m, h, n
<1>3. CASE load.blocking
  BY <1>1, <1>2, <1>3
<1>4. CASE ~load.blocking
  <2>1. OneStream(load)
    BY <1>4 DEF OneStreamEvents, HostsOK
  <2>2. (/\ Program[g][m].call = "event" /\ Program[h][n].call = "event"
         /\ Program[g][m].event = Program[h][n].event)
          => Program[g][m].stream = Program[h][n].stream
    BY <1>1, <1>2, <2>1 DEF OneStream, Program
  <2>3. Program[g][m].stream = Program[h][n].stream
    BY <1>1, <1>2, <2>2
  <2> QED BY <1>1, <1>2, <1>4, <2>3
<1> QED BY <1>3, <1>4

\* push adds one operation at the end, ...
LEMMA PushAt ==
  ASSUME QueuesOK, NEW q \in Queue, NEW o \in Op,
         m_operations' = [m_operations EXCEPT ![q] = Append(@, o)]
  PROVE  \A r \in Queue, i \in Nat, e \in Op :
           At(r, i, e)' => At(r, i, e) \/ (r = q /\ e = o /\ i = Len(m_operations[q]) + 1)
<1> SUFFICES ASSUME NEW r \in Queue, NEW i \in Nat, NEW e \in Op, At(r, i, e)'
             PROVE  At(r, i, e) \/ (r = q /\ e = o /\ i = Len(m_operations[q]) + 1)
  OBVIOUS
<1>1. m_operations[r] \in Seq(Op) /\ m_operations[q] \in Seq(Op)
  BY DEF QueuesOK
<1>2. i \in 1 .. Len(m_operations'[r]) /\ m_operations'[r][i] = e
  BY DEF At
<1>3. CASE r # q
  <2>1. m_operations'[r] = m_operations[r]
    BY <1>3 DEF QueuesOK
  <2> QED BY <1>2, <2>1 DEF At
<1>4. CASE r = q
  <2>1. m_operations'[r] = Append(m_operations[q], o)
    BY <1>4 DEF QueuesOK
  <2>2. i = Len(m_operations[q]) + 1 \/ i \in 1 .. Len(m_operations[q])
    BY <1>1, <1>2, <2>1
  <2>3. CASE i = Len(m_operations[q]) + 1
    BY <1>1, <1>2, <1>4, <2>1, <2>3
  <2>4. CASE i \in 1 .. Len(m_operations[q])
    <3>1. m_operations'[r][i] = m_operations[q][i]
      BY <1>1, <2>1, <2>4
    <3> QED BY <1>2, <1>4, <2>4, <3>1 DEF At
  <2> QED BY <2>2, <2>3, <2>4
<1> QED BY <1>3, <1>4

\* ... and record_next_done moves the others up.
LEMMA PopAt ==
  ASSUME QueuesOK, NEW qs, \A q \in Queue : q \in qs => m_operations[q] # << >>,
         RecordNextDone(qs)
  PROVE  \A r \in Queue, i \in Nat, e \in Op :
           At(r, i, e)' => At(r, IF r \in qs THEN i + 1 ELSE i, e)
<1> SUFFICES ASSUME NEW r \in Queue, NEW i \in Nat, NEW e \in Op, At(r, i, e)'
             PROVE  At(r, IF r \in qs THEN i + 1 ELSE i, e)
  OBVIOUS
<1>1. m_operations[r] \in Seq(Op)
  BY DEF QueuesOK
<1>2. i \in 1 .. Len(m_operations'[r]) /\ m_operations'[r][i] = e
  BY DEF At
<1>3. CASE r \notin qs
  <2>1. m_operations'[r] = m_operations[r]
    BY <1>3 DEF RecordNextDone
  <2> QED BY <1>2, <1>3, <2>1 DEF At
<1>4. CASE r \in qs
  <2>1. m_operations'[r] = Tail(m_operations[r]) /\ m_operations[r] # << >>
    BY <1>4 DEF RecordNextDone
  <2>2. i + 1 \in 1 .. Len(m_operations[r]) /\ m_operations'[r][i] = m_operations[r][i + 1]
    BY <1>1, <1>2, <2>1
  <2> QED BY <1>2, <1>4, <2>2 DEF At
<1> QED BY <1>3, <1>4

\* The simulation thread takes the fronts of some queues, which it counts if they are records,
\* and adds kernels.
LEMMA EventsMove ==
  ASSUME HostsOK, OneStreamEvents, EventsOK, UNCHANGED <<load, issued, at, calls, cnt, targets>>,
         NEW qs,
         \A q \in Queue, i \in Nat, o \in Op :
           At(q, i, o)' /\ o.kind # "kernel" => At(q, IF q \in qs THEN i + 1 ELSE i, o),
         \/ updates' = updates
         \/ \E q \in Queue, r \in Op :
              /\ q \in qs /\ At(q, 1, r) /\ r.kind = "event"
              /\ updates' = [updates EXCEPT ![r.event] = @ + 1]
  PROVE  EventsOK'
<1>f. Program' = Program
  BY LoadFixed
<1>c. \A h : CurrentCall(h)' = CurrentCall(h)
  BY <1>f DEF CurrentCall
<1> DEFINE Was(q, i) == IF q \in qs THEN i + 1 ELSE i
<1>w. /\ \A q \in Queue, i \in Nat : Was(q, i) \in Nat
      /\ \A q \in Queue, i, j \in Nat : i < j => Was(q, i) < Was(q, j)
  OBVIOUS
<1>m. \A q \in Queue, i \in Nat, o \in Op :
        At(q, i, o)' /\ o.kind # "kernel" => At(q, Was(q, i), o)
  OBVIOUS
<1>n. \A q \in Queue, i \in Nat, o \in Op : At(q, i, o)' => i >= 1
  BY DEF At
<1>d. \A q \in Queue : q \in qs => \A i \in Nat : Was(q, i) = i + 1
  OBVIOUS
<1> HIDE DEF Was
<1>1. PICK R \in [OpId -> Int], T \in [Event -> Int] : CountedOK(R, T) /\ WaitsOK(R)
  BY DEF EventsOK, RanksOK
<1>t. /\ \A o \in Op : R[o.id] \in Int /\ o.event \in Event
      /\ \A e \in Event : T[e] \in Int /\ updates[e] \in Nat
  BY DEF Op, EventsOK
<1>2. SubmittedOK'
  <2> SUFFICES ASSUME NEW q \in Queue, NEW i \in Nat, NEW o \in Op, At(q, i, o)',
                      o.kind \in {"event", "wait_event"}
               PROVE  FromCall(q, o)'
    BY DEF SubmittedOK
  <2>1. At(q, Was(q, i), o) /\ Was(q, i) \in Nat
    BY <1>w, <1>m
  <2>2. FromCall(q, o)
    BY <2>1 DEF EventsOK, SubmittedOK
  <2> QED BY <1>f, <2>2 DEF FromCall
<1>3. TargetOK'
  BY <1>c DEF EventsOK, TargetOK
<1>4. updates' \in [Event -> Nat]
  <2>1. \A r \in Op : r.event \in Event
    BY DEF Op
  <2> QED BY <2>1 DEF EventsOK
<1>5. ASSUME NEW e \in Event
      PROVE  updates'[e] <= T[e]
  <2>1. CASE updates' = updates
    BY <1>1, <2>1 DEF CountedOK
  <2>2. CASE updates' # updates
    <3>1. PICK q \in Queue, r \in Op :
            /\ q \in qs /\ At(q, 1, r) /\ r.kind = "event"
            /\ updates' = [updates EXCEPT ![r.event] = @ + 1]
      BY <2>2
    <3>2. updates[r.event] < R[r.id] /\ R[r.id] <= T[r.event]
      BY <1>1, <3>1 DEF CountedOK
    <3>3. updates[e] <= T[e]
      BY <1>1 DEF CountedOK
    <3>4. updates'[e] = IF e = r.event THEN updates[e] + 1 ELSE updates[e]
      BY <3>1 DEF EventsOK
    <3> QED BY <1>t, <3>2, <3>3, <3>4
  <2> QED BY <2>1, <2>2
<1>6. ASSUME NEW q \in Queue, NEW i \in Nat, NEW o \in Op, At(q, i, o)', o.kind = "event"
      PROVE  updates'[o.event] < R[o.id] /\ R[o.id] <= T[o.event]
  <2>1. At(q, Was(q, i), o) /\ Was(q, i) \in Nat
    BY <1>w, <1>m, <1>6
  <2>2. updates[o.event] < R[o.id] /\ R[o.id] <= T[o.event]
    BY <1>1, <1>6, <2>1 DEF CountedOK
  <2>3. CASE updates' = updates
    BY <2>2, <2>3
  <2>4. CASE updates' # updates
    <3>1. PICK p \in Queue, r \in Op :
            /\ p \in qs /\ At(p, 1, r) /\ r.kind = "event"
            /\ updates' = [updates EXCEPT ![r.event] = @ + 1]
      BY <2>4
    <3>2. updates'[o.event] = IF o.event = r.event THEN updates[o.event] + 1 ELSE updates[o.event]
      BY <1>t, <3>1 DEF EventsOK
    <3>3. CASE o.event # r.event
      BY <2>2, <3>2, <3>3
    <3>4. CASE o.event = r.event
      <4>1. p = q
        BY <1>6, <2>1, <3>1, <3>4, OneQueue DEF EventsOK
      <4>2. 1 < Was(q, i)
        BY <1>6, <1>n, <1>d, <3>1, <4>1
      <4>3. R[r.id] < R[o.id]
        BY <1>1, <1>6, <2>1, <3>1, <3>4, <4>1, <4>2 DEF CountedOK
      <4>4. updates[r.event] < R[r.id]
        BY <1>1, <3>1 DEF CountedOK
      <4> QED BY <1>t, <2>2, <3>2, <3>4, <4>3, <4>4
    <3> QED BY <3>3, <3>4
  <2> QED BY <2>3, <2>4
<1>7. \A e \in Event : Recording(e)' = Recording(e)
  BY <1>c DEF Recording
<1>8. ASSUME NEW q \in Queue, NEW i \in Nat, NEW j \in Nat, NEW o \in Op, NEW p \in Op,
             At(q, i, o)', o.kind = "event", At(q, j, p)', p.kind = "event",
             o.event = p.event, i < j
      PROVE  R[o.id] < R[p.id]
  <2>1. At(q, Was(q, i), o) /\ At(q, Was(q, j), p) /\ Was(q, i) < Was(q, j)
        /\ Was(q, i) \in Nat /\ Was(q, j) \in Nat
    BY <1>w, <1>m, <1>8
  <2> QED BY <1>1, <1>8, <2>1 DEF CountedOK
<1>9. CountedOK(R, T)'
  BY <1>1, <1>5, <1>6, <1>7, <1>8 DEF CountedOK
<1>10. ASSUME NEW q \in Queue, NEW r \in Queue, NEW i \in Nat, NEW j \in Nat,
              NEW o \in Op, NEW w \in Op,
              At(q, i, o)', o.kind = "event", At(r, j, w)', w.kind = "wait_event",
              o.event = w.event, o.id[1] = w.id[1], o.id[2] < w.id[2]
       PROVE  R[o.id] <= w.cnt
  <2>1. At(q, Was(q, i), o) /\ At(r, Was(r, j), w) /\ Was(q, i) \in Nat /\ Was(r, j) \in Nat
    BY <1>w, <1>m, <1>10
  <2> QED BY <1>1, <1>10, <2>1 DEF WaitsOK
<1>11. ASSUME NEW h \in Host, at[h] \in Pushing, CurrentCall(h).call = "wait_event",
              NEW q \in Queue, NEW i \in Nat, NEW o \in Op,
              At(q, i, o)', o.kind = "event", o.event = CurrentCall(h).event, o.id[1] = h
       PROVE  R[o.id] <= cnt[h]
  <2>1. At(q, Was(q, i), o) /\ Was(q, i) \in Nat
    BY <1>w, <1>m, <1>11
  <2> QED BY <1>1, <1>11, <2>1 DEF WaitsOK
<1>12. WaitsOK(R)'
  BY <1>c, <1>10, <1>11 DEF WaitsOK
<1> QED BY <1>2, <1>3, <1>4, <1>9, <1>12 DEF EventsOK, RanksOK

\* What a host does to its place in a call when it neither issues a record nor queues anything.
Passes(h) ==
  /\ UNCHANGED <<m_operations, issued, cnt>>
  /\ \/ /\ at'[h] \notin Pushing /\ at[h] \notin {"block", "push"}
        /\ at[h] = "drain" => calls'[h] = calls[h] + 1
     \/ /\ at[h] \in Pushing /\ at'[h] \in Pushing /\ calls'[h] = calls[h]
        /\ CurrentCall(h).call # "event" \/ targets'[h] = targets[h]
        /\ CurrentCall(h).call # "event" \/ (at[h] = "drain" <=> at'[h] = "drain")

\* It gets on to the next stream only when it waits for an event in all of them.
LEMMA NextTargetIs ==
  ASSUME HostsOK, PushOK, NEW h \in Host, at[h] \in Pushing, NextTarget(h)
  PROVE  \/ at'[h] = "call" /\ calls'[h] = calls[h] + 1
         \/ /\ at'[h] \in {"block", "push"} /\ calls'[h] = calls[h]
            /\ CurrentCall(h).call = "wait_event"
<1>1. CASE Len(targets[h]) = 1
  BY <1>1 DEF NextTarget, Return, HostsOK
<1>2. CASE Len(targets[h]) # 1
  <2>1. CurrentCall(h).call \in OpKind /\ CurrentCall(h).call = "wait_event"
    BY <1>2 DEF PushOK
  <2> QED BY <1>2, <2>1 DEF NextTarget, HostsOK
<1> QED BY <1>1, <1>2

LEMMA HostPasses ==
  ASSUME HostsOK, PushOK, NEW h \in Host, HostStep(h)
  PROVE  BeginPush(h) \/ Push(h) \/ Passes(h)
<1>t. at \in [Host -> Places] /\ calls \in [Host -> Nat]
  BY DEF HostsOK
<1>1. CASE PushBlocked(h)
  <2>1. /\ at[h] = "block" /\ at'[h] = "push"
        /\ UNCHANGED <<m_operations, issued, cnt, calls, targets>>
    BY <1>1, <1>t DEF PushBlocked, queues, events
  <2> QED BY <2>1 DEF Passes, Pushing
<1>2. CASE Drain(h)
  <2>1. at[h] = "drain" /\ UNCHANGED <<m_operations, issued, cnt>>
    BY <1>2 DEF Drain, queues, events
  <2>2. CASE NextTarget(h)
    BY <2>1, <2>2, NextTargetIs DEF Passes, Pushing
  <2>3. CASE ~NextTarget(h)
    <3>1. UNCHANGED <<at, calls, targets>>
      BY <1>2, <2>3 DEF Drain
    <3> QED BY <2>1, <3>1 DEF Passes, Pushing
  <2> QED BY <2>2, <2>3
<1>3. CASE SyncScan(h)
  <2>1. /\ at[h] = "sync_scan" /\ at'[h] \in {"sync_scan", "sync", "call"}
        /\ UNCHANGED <<m_operations, issued, cnt>>
    BY <1>3, <1>t DEF SyncScan, Return, queues, events
  <2> QED BY <2>1 DEF Passes, Pushing
<1>4. CASE \/ BeginSync(h) \/ StreamSync(h) \/ SyncLock(h) \/ AddStream(h) \/ BeginDestroy(h)
           \/ DestroyLock(h) \/ Destroy(h) \/ BeginExit(h) \/ Exit(h)
  <2>1. UNCHANGED <<m_operations, issued, cnt>>
    BY <1>4 DEF BeginSync, StreamSync, SyncLock, AddStream, BeginDestroy, DestroyLock, Destroy,
                BeginExit, Exit, queues, events
  <2>2. at[h] \in {"call", "sync", "destroy_sync", "destroy", "exit"}
    BY <1>4 DEF BeginSync, StreamSync, SyncLock, AddStream, BeginDestroy, DestroyLock, Destroy,
                BeginExit, Exit, Calls
  <2>3. at'[h] \in {"call", "sync", "sync_scan", "destroy_sync", "destroy", "exit"}
    BY <1>4, <1>t DEF BeginSync, StreamSync, SyncLock, AddStream, BeginDestroy, DestroyLock, Destroy,
                      BeginExit, Exit, Return
  <2> QED BY <2>1, <2>2, <2>3 DEF Passes, Pushing
<1> QED BY <1>1, <1>2, <1>3, <1>4 DEF HostStep

\* Whatever host h does, the operations that were queued before still come from their calls.
LEMMA SubmittedKept ==
  ASSUME HostsOK, PushOK, QueuesOK, SubmittedOK, NEW h \in Host, HostStep(h), load' = load,
         NEW q \in Queue, NEW i \in Nat, NEW o \in Op, At(q, i, o),
         o.kind \in {"event", "wait_event"}
  PROVE  FromCall(q, o)'
<1> DEFINE g == o.id[1]
           n == o.id[2]
<1>1. /\ g \in Host /\ n \in Nat /\ n <= calls[g] + 1
      /\ o.kind = "event" =>
           /\ n = calls[g] + 1 => at[g] = "drain"
           /\ n \in DOMAIN Program[g]
           /\ Program[g][n].call = "event" /\ Program[g][n].event = o.event
           /\ q = IF load.blocking THEN ZERO ELSE Program[g][n].stream
  BY DEF SubmittedOK, FromCall
<1> HIDE DEF g, n
<1>2. Others(h) /\ calls[g] \in Nat /\ calls[h] \in Nat
  BY <1>1, HostType DEF HostsOK
<1>3. n <= calls'[g] + 1
  <2>1. CASE g = h
    BY <1>1, <1>2, <2>1, OthersKept
  <2>2. CASE g # h
    BY <1>1, <1>2, <2>2, OthersKept
  <2> QED BY <2>1, <2>2
<1>4. ASSUME o.kind = "event", n = calls'[g] + 1
      PROVE  at'[g] = "drain"
  <2>1. CASE g # h
    BY <1>1, <1>2, <1>4, <2>1, OthersKept
  <2>2. CASE g = h
    <3>1. calls'[h] = calls[h]
      <4>1. calls'[h] = calls[h] \/ calls'[h] = calls[h] + 1
        BY <1>2, OthersKept
      <4>2. n <= calls[h] + 1 /\ n = calls'[h] + 1 /\ n \in Nat
        BY <1>1, <1>4, <2>2
      <4> QED BY <1>2, <4>1, <4>2
    <3>2. at[h] = "drain" /\ CurrentCall(h).call = "event"
      BY <1>1, <1>4, <2>2, <3>1 DEF CurrentCall
    <3>3. ~BeginPush(h) /\ ~Push(h)
      BY <3>2 DEF BeginPush, Push, Calls
    <3>4. Passes(h)
      BY <3>3, HostPasses
    <3>5. calls'[h] # calls[h] + 1
      BY <1>2, <3>1
    <3> QED BY <2>2, <3>2, <3>4, <3>5 DEF Passes
  <2> QED BY <2>1, <2>2
<1>5. Program' = Program
  BY LoadFixed
<1> QED BY <1>1, <1>3, <1>4, <1>5 DEF g, n, FromCall

\* A host that goes on with its call or gets to the next one changes nothing for events.
LEMMA EventsPass ==
  ASSUME Queued, EventsOK, NEW h \in Host, HostStep(h), load' = load, Passes(h)
  PROVE  EventsOK'
<1>f. Program' = Program
  BY LoadFixed
<1>q. HostsOK /\ PushOK /\ QueuesOK /\ SubmittedOK
  BY DEF Queued, EventsOK
<1>o. /\ Others(h) /\ updates' = updates /\ UNCHANGED <<m_operations, issued, cnt>>
      /\ \A g \in Host \ {h} : at'[g] = at[g] /\ calls'[g] = calls[g] /\ targets'[g] = targets[g]
  BY <1>q, HostType, HostFrame, OthersKept DEF Passes
<1>a. \A q, i, e : At(q, i, e)' <=> At(q, i, e)
  BY <1>o DEF At
<1>c. \A g \in Host : calls'[g] = calls[g] => CurrentCall(g)' = CurrentCall(g)
  BY <1>f DEF CurrentCall
<1>p. {"block", "push"} \subseteq Pushing /\ "drain" \in Pushing
      /\ \A p \in Pushing : p = "drain" \/ p \in {"block", "push"}
  BY DEF Pushing
<1>1. SubmittedOK'
  BY <1>a, <1>q, SubmittedKept DEF SubmittedOK
<1>2. TargetOK'
  <2> SUFFICES ASSUME NEW g \in Host, at'[g] \in Pushing, (CurrentCall(g).call)' = "event"
               PROVE  Head(targets'[g]) = (CurrentCall(g).stream)'
    BY DEF TargetOK
  <2>1. at[g] \in Pushing /\ CurrentCall(g)' = CurrentCall(g) /\ targets'[g] = targets[g]
    <3>1. CASE g # h
      BY <1>c, <1>o, <3>1
    <3>2. CASE g = h
      BY <1>c, <3>2 DEF Passes
    <3> QED BY <3>1, <3>2
  <2> QED BY <2>1 DEF EventsOK, TargetOK
<1>3. ASSUME NEW e \in Event
      PROVE  Recording(e)' = Recording(e)
  <2> SUFFICES ASSUME NEW g \in Host
               PROVE  (at'[g] \in {"block", "push"} /\ (CurrentCall(g).call)' = "event"
                         /\ (CurrentCall(g).event)' = e)
                      <=> (at[g] \in {"block", "push"} /\ CurrentCall(g).call = "event"
                             /\ CurrentCall(g).event = e)
    BY DEF Recording
  <2>1. CASE g # h
    BY <1>c, <1>o, <2>1
  <2>2. CASE g = h /\ at'[h] \notin Pushing /\ at[h] \notin {"block", "push"}
    BY <1>p, <2>2
  <2>3. CASE g = h /\ ~(at'[h] \notin Pushing /\ at[h] \notin {"block", "push"})
    <3>1. /\ at[h] \in Pushing /\ at'[h] \in Pushing /\ CurrentCall(h)' = CurrentCall(h)
          /\ CurrentCall(h).call # "event" \/ (at[h] = "drain" <=> at'[h] = "drain")
      BY <1>c, <2>3 DEF Passes
    <3>2. CASE CurrentCall(h).call # "event"
      BY <2>3, <3>1, <3>2
    <3>3. CASE at[h] = "drain" <=> at'[h] = "drain"
      <4>1. at'[h] \in {"block", "push"} <=> at[h] \in {"block", "push"}
        BY <1>p, <3>1, <3>3
      <4> QED BY <2>3, <3>1, <4>1
    <3> QED BY <3>1, <3>2, <3>3
  <2> QED BY <2>1, <2>2, <2>3
<1>4. PICK R \in [OpId -> Int], T \in [Event -> Int] : CountedOK(R, T) /\ WaitsOK(R)
  BY DEF EventsOK, RanksOK
<1>5. CountedOK(R, T)'
  BY <1>a, <1>o, <1>3, <1>4 DEF CountedOK
<1>6. WaitsOK(R)'
  <2>1. ASSUME NEW g \in Host, at'[g] \in Pushing, (CurrentCall(g).call)' = "wait_event"
        PROVE  at[g] \in Pushing /\ CurrentCall(g)' = CurrentCall(g)
    <3>1. CASE g # h
      BY <1>c, <1>o, <2>1, <3>1
    <3>2. CASE g = h
      BY <1>c, <2>1, <3>2 DEF Passes
    <3> QED BY <3>1, <3>2
  <2> QED BY <1>a, <1>o, <1>4, <2>1 DEF WaitsOK
<1>7. updates' \in [Event -> Nat]
  BY <1>o DEF EventsOK
<1> QED BY <1>1, <1>2, <1>5, <1>6, <1>7 DEF EventsOK, RanksOK

\* What a call that begins has its host do next.
LEMMA BeginIs ==
  ASSUME Queued, NEW h \in Host, BeginPush(h)
  PROVE  /\ at[h] = "call" /\ CurrentCall(h) \in Call /\ m_operations' = m_operations
         /\ issued' = IF CurrentCall(h).call = "event"
                        THEN [issued EXCEPT ![CurrentCall(h).event] = @ + 1] ELSE issued
         /\ cnt' = [cnt EXCEPT ![h] = issued[CurrentCall(h).event]]
         /\ \/ at'[h] = "call" /\ CurrentCall(h).call # "event"
            \/ /\ at'[h] \in {"block", "push"} /\ calls'[h] = calls[h]
               /\ CurrentCall(h).call = "event" => Head(targets'[h]) = CurrentCall(h).stream
<1> DEFINE c == CurrentCall(h)
           qs == IF c.call = "wait_event" /\ c.stream = ZERO THEN m_streams ELSE <<c.stream>>
<1>1. /\ at[h] = "call" /\ calls[h] < Len(Program[h]) /\ m_operations' = m_operations
      /\ issued' = IF c.call = "event" THEN [issued EXCEPT ![c.event] = @ + 1] ELSE issued
      /\ cnt' = [cnt EXCEPT ![h] = issued[c.event]]
      /\ IF qs = << >> \/ (c.call = "wait_event" /\ issued[c.event] = 0)
           THEN Return(h) /\ UNCHANGED targets
           ELSE /\ at' = [at EXCEPT ![h] = IF Blocking(Head(qs)) THEN "block" ELSE "push"]
                /\ targets' = [targets EXCEPT ![h] = qs]
                /\ UNCHANGED calls
  BY DEF BeginPush, Calls, queues
<1>2. c \in Call
  BY <1>1, CallType DEF Queued
<1>3. at \in [Host -> Places] /\ targets \in [Host -> Seq(Queue)]
  BY DEF Queued, HostsOK
<1>4. c.call = "event" => qs = <<c.stream>> /\ qs # << >> /\ Head(qs) = c.stream
  OBVIOUS
<1> HIDE DEF qs
<1>5. CASE Return(h) /\ UNCHANGED targets /\ c.call # "event"
  BY <1>1, <1>2, <1>3, <1>5 DEF Return
<1>6. CASE ~(Return(h) /\ UNCHANGED targets /\ c.call # "event")
  <2>1. /\ at' = [at EXCEPT ![h] = IF Blocking(Head(qs)) THEN "block" ELSE "push"]
        /\ targets' = [targets EXCEPT ![h] = qs] /\ UNCHANGED calls
    BY <1>1, <1>4, <1>6
  <2>2. at'[h] \in {"block", "push"} /\ targets'[h] = qs /\ calls'[h] = calls[h]
    BY <1>3, <2>1
  <2> QED BY <1>1, <1>2, <1>4, <2>2
<1> QED BY <1>5, <1>6

\* A record that is issued is counted as soon as it is; a wait counts what was issued.
LEMMA EventsBegin ==
  ASSUME Queued, EventsOK, NEW h \in Host, HostStep(h), load' = load, BeginPush(h)
  PROVE  EventsOK'
<1>f. Program' = Program
  BY LoadFixed
<1>q. HostsOK /\ PushOK /\ QueuesOK /\ SubmittedOK
  BY DEF Queued, EventsOK
<1>o. /\ Others(h) /\ updates' = updates
      /\ \A g \in Host \ {h} : at'[g] = at[g] /\ calls'[g] = calls[g] /\ targets'[g] = targets[g]
  BY <1>q, HostType, HostFrame, OthersKept
<1>c. \A g \in Host : calls'[g] = calls[g] => CurrentCall(g)' = CurrentCall(g)
  BY <1>f DEF CurrentCall
<1>p. "call" \notin Pushing /\ {"block", "push"} \subseteq Pushing
  BY DEF Pushing
<1> DEFINE c == CurrentCall(h)
<1>b. /\ at[h] = "call" /\ c \in Call /\ m_operations' = m_operations
      /\ issued' = IF c.call = "event" THEN [issued EXCEPT ![c.event] = @ + 1] ELSE issued
      /\ cnt' = [cnt EXCEPT ![h] = issued[c.event]]
      /\ \/ at'[h] = "call" /\ c.call # "event"
         \/ /\ at'[h] \in {"block", "push"} /\ calls'[h] = calls[h]
            /\ c.call = "event" => Head(targets'[h]) = c.stream
  BY BeginIs
<1>a. \A q, i, e : At(q, i, e)' <=> At(q, i, e)
  BY <1>b DEF At
<1>e. c.event \in Event /\ issued \in [Event -> Nat] /\ cnt \in [Host -> Nat]
  BY <1>b, <1>q DEF Call, HostsOK
<1>h. c.call = "event" => at'[h] \in {"block", "push"} /\ CurrentCall(h)' = c
  BY <1>b, <1>c
<1>1. SubmittedOK'
  BY <1>a, <1>q, SubmittedKept DEF SubmittedOK
<1>2. TargetOK'
  <2> SUFFICES ASSUME NEW g \in Host, at'[g] \in Pushing, (CurrentCall(g).call)' = "event"
               PROVE  Head(targets'[g]) = (CurrentCall(g).stream)'
    BY DEF TargetOK
  <2>1. CASE g # h
    BY <1>c, <1>o, <2>1 DEF EventsOK, TargetOK
  <2>2. CASE g = h
    BY <1>b, <1>c, <1>p, <2>2
  <2> QED BY <2>1, <2>2
<1>3. \A e \in Event :
        Recording(e)' = IF c.call = "event" /\ e = c.event THEN Recording(e) \cup {h} ELSE Recording(e)
  <2> TAKE e \in Event
  <2> DEFINE In1 == c.call = "event" /\ e = c.event
  <2> SUFFICES ASSUME NEW g \in Host
               PROVE  (at'[g] \in {"block", "push"} /\ (CurrentCall(g).call)' = "event"
                         /\ (CurrentCall(g).event)' = e)
                      <=> ((at[g] \in {"block", "push"} /\ CurrentCall(g).call = "event"
                             /\ CurrentCall(g).event = e) \/ (In1 /\ g = h))
    BY DEF Recording
  <2>1. CASE g # h
    BY <1>c, <1>o, <2>1
  <2>2. CASE g = h /\ c.call = "event"
    BY <1>b, <1>h, <2>2
  <2>3. CASE g = h /\ c.call # "event"
    BY <1>b, <1>c, <2>3
  <2> QED BY <2>1, <2>2, <2>3
<1>4. \A e \in Event : h \notin Recording(e)
  BY <1>b DEF Recording
<1>5. PICK R \in [OpId -> Int], T \in [Event -> Int] : CountedOK(R, T) /\ WaitsOK(R)
  BY DEF EventsOK, RanksOK
<1>6. ASSUME NEW e \in Event
      PROVE  IsFiniteSet(Recording(e)') /\ T[e] + Cardinality(Recording(e)') <= issued'[e]
  <2>1. IsFiniteSet(Recording(e)) /\ T[e] + Cardinality(Recording(e)) <= issued[e]
    BY <1>5 DEF CountedOK
  <2>2. CASE c.call = "event" /\ e = c.event
    <3>1. Recording(e)' = Recording(e) \cup {h} /\ issued'[e] = issued[e] + 1
      BY <1>3, <1>b, <1>e, <2>2
    <3>2. /\ IsFiniteSet(Recording(e) \cup {h})
          /\ Cardinality(Recording(e) \cup {h}) = Cardinality(Recording(e)) + 1
      BY <1>4, <2>1, FS_AddElement
    <3>3. T[e] \in Int /\ Cardinality(Recording(e)) \in Nat /\ issued[e] \in Nat
      BY <1>e, <2>1, FS_CardinalityType
    <3> QED BY <2>1, <3>1, <3>2, <3>3
  <2>3. CASE ~(c.call = "event" /\ e = c.event)
    <3>1. Recording(e)' = Recording(e) /\ issued'[e] = issued[e]
      BY <1>3, <1>b, <1>e, <2>3
    <3> QED BY <2>1, <3>1
  <2> QED BY <2>2, <2>3
<1>7. CountedOK(R, T)'
  BY <1>5, <1>6, <1>a, <1>o DEF CountedOK
<1>8. ASSUME NEW g \in Host, at'[g] \in Pushing, (CurrentCall(g).call)' = "wait_event",
             NEW q \in Queue, NEW i \in Nat, NEW o \in Op,
             At(q, i, o), o.kind = "event", o.event = (CurrentCall(g).event)', o.id[1] = g
      PROVE  R[o.id] <= cnt'[g]
  <2>1. CASE g # h
    <3>1. at[g] \in Pushing /\ CurrentCall(g)' = CurrentCall(g) /\ cnt'[g] = cnt[g]
      BY <1>b, <1>c, <1>e, <1>o, <1>8, <2>1
    <3> QED BY <1>5, <1>8, <3>1 DEF WaitsOK
  <2>2. CASE g = h
    <3>1. CurrentCall(h)' = c /\ cnt'[h] = issued[c.event]
      BY <1>b, <1>c, <1>e, <1>p, <1>8, <2>2
    <3>2. R[o.id] <= T[c.event]
      BY <1>5, <1>8, <2>2, <3>1 DEF CountedOK
    <3>3. IsFiniteSet(Recording(c.event))
          /\ T[c.event] + Cardinality(Recording(c.event)) <= issued[c.event]
      BY <1>5, <1>e DEF CountedOK
    <3>4. Cardinality(Recording(c.event)) \in Nat /\ T[c.event] \in Int /\ R[o.id] \in Int
          /\ issued[c.event] \in Nat
      BY <1>e, <3>3, FS_CardinalityType DEF Op
    <3> QED BY <2>2, <3>1, <3>2, <3>3, <3>4
  <2> QED BY <2>1, <2>2
<1>9. WaitsOK(R)'
  BY <1>a, <1>5, <1>8 DEF WaitsOK
<1>10. updates' \in [Event -> Nat]
  BY <1>o DEF EventsOK
<1> QED BY <1>1, <1>2, <1>7, <1>9, <1>10 DEF EventsOK, RanksOK

\* What a push queues, and what its host does next.
LEMMA PushIs ==
  ASSUME Queued, NEW h \in Host, Push(h)
  PROVE  /\ at[h] = "push" /\ CurrentCall(h) \in Call /\ CurrentCall(h).call \in OpKind
         /\ NewOp(h) \in Op /\ calls[h] \in Nat /\ calls[h] + 1 \in DOMAIN Program[h]
         /\ UNCHANGED <<issued, cnt>>
         /\ \/ m_operations' = m_operations
            \/ \E q \in Queue :
                 /\ m_operations' = [m_operations EXCEPT ![q] = Append(@, NewOp(h))]
                 /\ q = IF load.blocking THEN ZERO ELSE Head(targets[h])
         /\ \/ at'[h] = "drain" /\ calls'[h] = calls[h] /\ targets'[h] = targets[h]
            \/ at'[h] = "call" /\ calls'[h] = calls[h] + 1
            \/ /\ at'[h] \in {"block", "push"} /\ calls'[h] = calls[h]
               /\ CurrentCall(h).call = "wait_event"
<1>1. at[h] = "push" /\ UNCHANGED <<issued, cnt>>
  BY DEF Push, events
<1>2. at[h] \in Pushing
  BY <1>1 DEF Pushing
<1>3. CurrentCall(h).call \in OpKind /\ CurrentCall(h) \in Call /\ calls[h] + 1 \in DOMAIN Program[h]
  BY <1>2, CallType DEF Queued, PushOK
<1>4. NewOp(h) \in Op
  BY <1>1, NewOpFresh DEF Queued
<1>5. Head(targets[h]) \in Queue /\ ZERO \in Queue
  <2>1. targets[h] \in Seq(Queue) /\ targets[h] # << >>
    BY <1>2 DEF Queued, HostsOK, PushOK
  <2> QED BY <2>1 DEF Queue
<1>6. \/ m_operations' = m_operations
      \/ \E q \in Queue :
           /\ m_operations' = [m_operations EXCEPT ![q] = Append(@, NewOp(h))]
           /\ q = IF load.blocking THEN ZERO ELSE Head(targets[h])
  <2>1. PICK q \in Queue : q = IF load.blocking THEN ZERO ELSE Head(targets[h])
    BY <1>5
  <2>2. m_operations' = IF max_hit THEN m_operations
                        ELSE [m_operations EXCEPT ![q] = Append(@, NewOp(h))]
    BY <2>1 DEF Push
  <2> QED BY <2>1, <2>2
<1>7. \/ at'[h] = "drain" /\ calls'[h] = calls[h] /\ targets'[h] = targets[h]
      \/ at'[h] = "call" /\ calls'[h] = calls[h] + 1
      \/ /\ at'[h] \in {"block", "push"} /\ calls'[h] = calls[h]
         /\ CurrentCall(h).call = "wait_event"
  <2>1. CASE NextTarget(h)
    BY <1>2, <2>1, NextTargetIs DEF Queued
  <2>2. CASE ~NextTarget(h)
    BY <2>2 DEF Push, Queued, HostsOK
  <2> QED BY <2>1, <2>2
<1>8. calls[h] \in Nat
  BY DEF Queued, HostsOK
<1> QED BY <1>1, <1>3, <1>4, <1>6, <1>7, <1>8

\* A record gets the next number of its event, and the wait of a host the number captured before.
LEMMA EventsPush ==
  ASSUME Queued, EventsOK, NEW h \in Host, HostStep(h), load' = load, Push(h)
  PROVE  EventsOK'
<1>f. Program' = Program
  BY LoadFixed
<1>q. HostsOK /\ PushOK /\ QueuesOK /\ SubmittedOK
  BY DEF Queued, EventsOK
<1>o. /\ Others(h) /\ updates' = updates
      /\ \A g \in Host \ {h} : at'[g] = at[g] /\ calls'[g] = calls[g] /\ targets'[g] = targets[g]
  BY <1>q, HostType, HostFrame, OthersKept
<1>c. \A g \in Host : calls'[g] = calls[g] => CurrentCall(g)' = CurrentCall(g)
  BY <1>f DEF CurrentCall
<1>p. "call" \notin Pushing /\ {"block", "push", "drain"} \subseteq Pushing
  BY DEF Pushing
<1>n. PICK n \in Op : n = NewOp(h)
  BY PushIs
<1> DEFINE c == CurrentCall(h)
<1>b. /\ at[h] = "push" /\ c \in Call /\ calls[h] \in Nat /\ calls[h] + 1 \in DOMAIN Program[h]
      /\ UNCHANGED <<issued, cnt>>
      /\ \/ m_operations' = m_operations
         \/ \E q \in Queue :
              /\ m_operations' = [m_operations EXCEPT ![q] = Append(@, n)]
              /\ q = IF load.blocking THEN ZERO ELSE Head(targets[h])
      /\ \/ at'[h] = "drain" /\ calls'[h] = calls[h] /\ targets'[h] = targets[h]
         \/ at'[h] = "call" /\ calls'[h] = calls[h] + 1
         \/ at'[h] \in {"block", "push"} /\ calls'[h] = calls[h] /\ c.call = "wait_event"
  BY <1>n, PushIs
<1>m. /\ n.id = <<h, calls[h] + 1>> /\ n.id[1] = h /\ n.id[2] = calls[h] + 1
      /\ n.kind = c.call /\ n.event = c.event /\ n.cnt = cnt[h] /\ c.event \in Event
  BY <1>n, <1>b DEF NewOp, Call
<1>a. \A r \in Queue, i \in Nat, x \in Op :
        At(r, i, x)' => \/ At(r, i, x)
                        \/ /\ x = n /\ i = Len(m_operations[r]) + 1
                           /\ r = IF load.blocking THEN ZERO ELSE Head(targets[h])
  <2>1. CASE m_operations' = m_operations
    BY <2>1 DEF At
  <2>2. CASE m_operations' # m_operations
    <3>1. PICK q \in Queue :
            /\ m_operations' = [m_operations EXCEPT ![q] = Append(@, n)]
            /\ q = IF load.blocking THEN ZERO ELSE Head(targets[h])
      BY <1>b, <2>2
    <3>2. \A r \in Queue, i \in Nat, x \in Op :
            At(r, i, x)' => At(r, i, x) \/ (r = q /\ x = n /\ i = Len(m_operations[q]) + 1)
      BY <1>q, <3>1, PushAt
    <3> QED BY <3>1, <3>2
  <2> QED BY <2>1, <2>2
<1>1. SubmittedOK'
  <2> SUFFICES ASSUME NEW q \in Queue, NEW i \in Nat, NEW o \in Op, At(q, i, o)',
                      o.kind \in {"event", "wait_event"}
               PROVE  FromCall(q, o)'
    BY DEF SubmittedOK
  <2>1. CASE At(q, i, o)
    BY <1>q, <2>1, SubmittedKept
  <2>2. CASE ~At(q, i, o)
    <3>1. o = n /\ q = IF load.blocking THEN ZERO ELSE Head(targets[h])
      BY <1>a, <2>2
    <3>2. calls[h] + 1 <= calls'[h] + 1 /\ calls[h] + 1 \in Nat
      BY <1>b
    <3>3. ASSUME c.call = "event"
          PROVE  /\ calls[h] + 1 = calls'[h] + 1 => at'[h] = "drain"
                 /\ Head(targets[h]) = c.stream
      <4>1. calls[h] + 1 = calls'[h] + 1 => at'[h] = "drain"
        BY <1>b, <3>3
      <4> QED BY <1>b, <1>p, <3>3, <4>1 DEF EventsOK, TargetOK
    <3> QED BY <1>b, <1>f, <1>m, <3>1, <3>2, <3>3 DEF CurrentCall, FromCall
  <2> QED BY <2>1, <2>2
<1>2. TargetOK'
  <2> SUFFICES ASSUME NEW g \in Host, at'[g] \in Pushing, (CurrentCall(g).call)' = "event"
               PROVE  Head(targets'[g]) = (CurrentCall(g).stream)'
    BY DEF TargetOK
  <2>1. at[g] \in Pushing /\ CurrentCall(g)' = CurrentCall(g) /\ targets'[g] = targets[g]
    <3>1. CASE g # h
      BY <1>c, <1>o, <3>1
    <3>2. CASE g = h
      BY <1>b, <1>c, <1>p, <3>2
    <3> QED BY <3>1, <3>2
  <2> QED BY <2>1 DEF EventsOK, TargetOK
<1>3. \A e \in Event : Recording(e)' = Recording(e) \ {h}
  <2> TAKE e \in Event
  <2> SUFFICES ASSUME NEW g \in Host
               PROVE  (at'[g] \in {"block", "push"} /\ (CurrentCall(g).call)' = "event"
                         /\ (CurrentCall(g).event)' = e)
                      <=> (at[g] \in {"block", "push"} /\ CurrentCall(g).call = "event"
                             /\ CurrentCall(g).event = e /\ g # h)
    BY DEF Recording
  <2>1. CASE g # h
    BY <1>c, <1>o, <2>1
  <2>2. CASE g = h
    BY <1>b, <1>c, <2>2
  <2> QED BY <2>1, <2>2
<1>4. \A e \in Event : h \in Recording(e) <=> c.call = "event" /\ e = c.event
  BY <1>b DEF Recording
<1>5. PICK R \in [OpId -> Int], T \in [Event -> Int] : CountedOK(R, T) /\ WaitsOK(R)
  BY DEF EventsOK, RanksOK
<1>t. /\ \A x \in Op : R[x.id] \in Int /\ x.event \in Event /\ x.id \in OpId
      /\ \A e \in Event : T[e] \in Int /\ updates[e] \in Nat /\ issued[e] \in Nat
  BY <1>q DEF Op, EventsOK, HostsOK
<1>6. ASSUME NEW e \in Event
      PROVE  /\ IsFiniteSet(Recording(e)')
             /\ Cardinality(Recording(e)') =
                  IF c.call = "event" /\ e = c.event THEN Cardinality(Recording(e)) - 1
                                                     ELSE Cardinality(Recording(e))
             /\ Cardinality(Recording(e)) \in Nat
             /\ T[e] + Cardinality(Recording(e)) <= issued'[e]
  <2>1. IsFiniteSet(Recording(e)) /\ T[e] + Cardinality(Recording(e)) <= issued[e]
    BY <1>5 DEF CountedOK
  <2>2. Cardinality(Recording(e)) \in Nat
    BY <2>1, FS_CardinalityType
  <2>3. CASE h \in Recording(e)
    <3>1. /\ IsFiniteSet(Recording(e) \ {h})
          /\ Cardinality(Recording(e) \ {h}) = Cardinality(Recording(e)) - 1
      BY <2>1, <2>3, FS_RemoveElement
    <3> QED BY <1>3, <1>4, <1>b, <2>1, <2>2, <2>3, <3>1
  <2>4. CASE h \notin Recording(e)
    <3>1. Recording(e) \ {h} = Recording(e)
      BY <2>4
    <3> QED BY <1>3, <1>4, <1>b, <2>1, <2>2, <2>4, <3>1
  <2> QED BY <2>3, <2>4
<1>7. ASSUME NEW g \in Host, at'[g] \in Pushing, (CurrentCall(g).call)' = "wait_event"
      PROVE  /\ at[g] \in Pushing /\ CurrentCall(g)' = CurrentCall(g) /\ cnt'[g] = cnt[g]
             /\ CurrentCall(g).call = "wait_event"
  <2>1. CASE g # h
    BY <1>b, <1>c, <1>o, <1>7, <2>1
  <2>2. CASE g = h
    BY <1>b, <1>c, <1>p, <1>7, <2>2
  <2> QED BY <2>1, <2>2
<1>8. CASE \A r \in Queue, i \in Nat, x \in Op :
             At(r, i, x)' /\ x.kind = "event" => At(r, i, x)
  <2>1. CountedOK(R, T)'
    <3>1. \A e \in Event : /\ updates'[e] <= T[e] /\ IsFiniteSet(Recording(e)')
                           /\ T[e] + Cardinality(Recording(e)') <= issued'[e]
      <4> TAKE e \in Event
      <4>1. updates'[e] <= T[e]
        BY <1>5, <1>o DEF CountedOK
      <4>2. T[e] \in Int /\ issued'[e] \in Nat
        BY <1>t, <1>b
      <4> QED BY <1>6, <4>1, <4>2
    <3> QED BY <1>5, <1>8, <1>o, <3>1 DEF CountedOK
  <2>2. ASSUME NEW q \in Queue, NEW r \in Queue, NEW i \in Nat, NEW j \in Nat,
               NEW o \in Op, NEW w \in Op,
               At(q, i, o)', o.kind = "event", At(r, j, w)', w.kind = "wait_event",
               o.event = w.event, o.id[1] = w.id[1], o.id[2] < w.id[2]
        PROVE  R[o.id] <= w.cnt
    <3>1. At(q, i, o)
      BY <1>8, <2>2
    <3>2. CASE At(r, j, w)
      BY <1>5, <2>2, <3>1, <3>2 DEF WaitsOK
    <3>3. CASE ~At(r, j, w)
      <4>1. w = n
        BY <1>a, <2>2, <3>3
      <4> QED BY <1>5, <1>b, <1>m, <1>p, <2>2, <3>1, <4>1 DEF WaitsOK
    <3> QED BY <3>2, <3>3
  <2>3. ASSUME NEW g \in Host, at'[g] \in Pushing, (CurrentCall(g).call)' = "wait_event",
               NEW q \in Queue, NEW i \in Nat, NEW o \in Op,
               At(q, i, o)', o.kind = "event", o.event = (CurrentCall(g).event)', o.id[1] = g
        PROVE  R[o.id] <= cnt'[g]
    BY <1>5, <1>7, <1>8, <2>3 DEF WaitsOK
  <2>4. WaitsOK(R)'
    BY <2>2, <2>3 DEF WaitsOK
  <2>5. RanksOK'
    BY <2>1, <2>4 DEF RanksOK
  <2> QED BY <1>1, <1>2, <1>o, <2>5 DEF EventsOK
<1>9. CASE ~(\A r \in Queue, i \in Nat, x \in Op :
               At(r, i, x)' /\ x.kind = "event" => At(r, i, x))
  <2>1. c.call = "event" /\ n.kind = "event"
    BY <1>9, <1>a, <1>m
  <2>e. PICK e0 \in Event : e0 = c.event
    BY <1>m
  <2>2. PICK R2 \in [OpId -> Int] :
          R2[n.id] = T[e0] + 1 /\ \A x \in Op : x.id # n.id => R2[x.id] = R[x.id]
    <3> DEFINE r == [R EXCEPT ![n.id] = T[e0] + 1]
    <3>1. r \in [OpId -> Int] /\ r[n.id] = T[e0] + 1
          /\ \A x \in Op : x.id # n.id => r[x.id] = R[x.id]
      BY <1>t
    <3> QED BY <3>1
  <2>3. PICK T2 \in [Event -> Int] : \A e \in Event : T2[e] = IF e = e0 THEN T[e] + 1 ELSE T[e]
    <3> DEFINE t == [T EXCEPT ![e0] = T[e0] + 1]
    <3>1. t \in [Event -> Int] /\ \A e \in Event : t[e] = IF e = e0 THEN T[e] + 1 ELSE T[e]
      BY <1>t
    <3> QED BY <3>1
  <2>4. ASSUME NEW q \in Queue, NEW i \in Nat, NEW x \in Op, At(q, i, x), x.kind = "event"
        PROVE  R2[x.id] = R[x.id] /\ updates[x.event] < R[x.id] /\ R[x.id] <= T[x.event]
    <3>1. x.id # n.id
      <4>1. x.id[2] = calls[x.id[1]] + 1 => at[x.id[1]] = "drain"
        BY <1>q, <2>4 DEF SubmittedOK, FromCall
      <4> QED BY <1>b, <1>m, <4>1
    <3> QED BY <1>5, <2>2, <2>4, <3>1 DEF CountedOK
  <2>5. ASSUME NEW e \in Event
        PROVE  /\ updates'[e] <= T2[e] /\ IsFiniteSet(Recording(e)')
               /\ T2[e] + Cardinality(Recording(e)') <= issued'[e]
    <3>1. updates'[e] <= T[e] /\ T[e] \in Int /\ updates'[e] \in Nat /\ issued'[e] \in Nat
      BY <1>5, <1>o, <1>b, <1>t DEF CountedOK
    <3>2. CASE e = e0
      BY <1>6, <2>1, <2>e, <2>3, <3>1, <3>2
    <3>3. CASE e # e0
      BY <1>6, <2>e, <2>3, <3>1, <3>3
    <3> QED BY <3>2, <3>3
  <2>6. ASSUME NEW q \in Queue, NEW i \in Nat, NEW x \in Op, At(q, i, x)', x.kind = "event"
        PROVE  updates'[x.event] < R2[x.id] /\ R2[x.id] <= T2[x.event]
    <3>1. T2[x.event] >= T[x.event] /\ T[x.event] \in Int /\ T2[x.event] \in Int /\ R[x.id] \in Int
      BY <1>t, <2>3
    <3>2. CASE At(q, i, x)
      <4>1. R2[x.id] = R[x.id] /\ updates[x.event] < R[x.id] /\ R[x.id] <= T[x.event]
        BY <2>4, <2>6, <3>2
      <4> QED BY <1>o, <3>1, <4>1
    <3>3. CASE ~At(q, i, x)
      <4>1. x = n /\ x.event = e0
        BY <1>a, <1>m, <2>e, <2>6, <3>3
      <4>2. updates[e0] <= T[e0] /\ updates[e0] \in Nat /\ T[e0] \in Int
        BY <1>5, <1>m, <1>t DEF CountedOK
      <4> QED BY <1>m, <1>o, <2>2, <2>3, <4>1, <4>2
    <3> QED BY <3>2, <3>3
  <2>7. ASSUME NEW q \in Queue, NEW i \in Nat, NEW j \in Nat, NEW o \in Op, NEW p \in Op,
               At(q, i, o)', o.kind = "event", At(q, j, p)', p.kind = "event",
               o.event = p.event, i < j
        PROVE  R2[o.id] < R2[p.id]
    <3>1. At(q, i, o)
      <4> SUFFICES ASSUME ~At(q, i, o) PROVE FALSE
        OBVIOUS
      <4>1. i = Len(m_operations[q]) + 1 /\ Len(m_operations[q]) \in Nat
        BY <1>a, <1>q, <2>7 DEF QueuesOK
      <4>2. j <= Len(m_operations[q]) + 1
        <5>1. At(q, j, p) \/ j = Len(m_operations[q]) + 1
          BY <1>a, <2>7
        <5> QED BY <4>1, <5>1 DEF At
      <4> QED BY <2>7, <4>1, <4>2
    <3>2. CASE At(q, j, p)
      <4>1. R[o.id] < R[p.id]
        BY <1>5, <2>7, <3>1, <3>2 DEF CountedOK
      <4> QED BY <2>4, <2>7, <3>1, <3>2, <4>1
    <3>3. CASE ~At(q, j, p)
      <4>1. p = n
        BY <1>a, <2>7, <3>3
      <4>2. R2[o.id] = R[o.id] /\ R[o.id] <= T[e0] /\ R[o.id] \in Int /\ T[e0] \in Int
        BY <1>m, <1>t, <2>e, <2>4, <2>7, <3>1, <4>1
      <4> QED BY <2>2, <4>1, <4>2
    <3> QED BY <3>2, <3>3
  <2>8. CountedOK(R2, T2)'
    BY <2>5, <2>6, <2>7 DEF CountedOK
  <2>9. ASSUME NEW q \in Queue, NEW r \in Queue, NEW i \in Nat, NEW j \in Nat,
               NEW o \in Op, NEW w \in Op,
               At(q, i, o)', o.kind = "event", At(r, j, w)', w.kind = "wait_event",
               o.event = w.event, o.id[1] = w.id[1], o.id[2] < w.id[2]
        PROVE  R2[o.id] <= w.cnt
    <3>1. At(r, j, w)
      BY <1>a, <2>1, <2>9
    <3>2. At(q, i, o)
      <4> SUFFICES ASSUME ~At(q, i, o) PROVE FALSE
        OBVIOUS
      <4>1. o = n
        BY <1>a, <2>9
      <4>2. w.id[2] \in Nat /\ w.id[2] <= calls[h] + 1
        BY <1>m, <1>q, <2>9, <3>1, <4>1 DEF SubmittedOK, FromCall
      <4> QED BY <1>b, <1>m, <2>9, <4>1, <4>2
    <3>3. R[o.id] <= w.cnt
      BY <1>5, <2>9, <3>1, <3>2 DEF WaitsOK
    <3> QED BY <2>4, <2>9, <3>2, <3>3
  <2>10. ASSUME NEW g \in Host, at'[g] \in Pushing, (CurrentCall(g).call)' = "wait_event",
                NEW q \in Queue, NEW i \in Nat, NEW o \in Op,
                At(q, i, o)', o.kind = "event", o.event = (CurrentCall(g).event)', o.id[1] = g
         PROVE  R2[o.id] <= cnt'[g]
    <3>1. /\ at[g] \in Pushing /\ CurrentCall(g)' = CurrentCall(g) /\ cnt'[g] = cnt[g]
          /\ CurrentCall(g).call = "wait_event"
      BY <1>7, <2>10
    <3>2. g # h
      BY <2>1, <3>1
    <3>3. At(q, i, o)
      BY <1>a, <1>m, <2>10, <3>2
    <3>4. R[o.id] <= cnt[g]
      BY <1>5, <2>10, <3>1, <3>3 DEF WaitsOK
    <3> QED BY <2>4, <2>10, <3>1, <3>3, <3>4
  <2>11. WaitsOK(R2)'
    BY <2>9, <2>10 DEF WaitsOK
  <2>12. RanksOK'
    BY <2>2, <2>3, <2>8, <2>11 DEF RanksOK
  <2> QED BY <1>1, <1>2, <1>o, <2>12 DEF EventsOK
<1> QED BY <1>8, <1>9

\* A wait at the front of a queue that is popped has been satisfied.
WaitsServed ==
  \A q \in Queue :
    (/\ m_operations[q] # << >> /\ m_operations'[q] = Tail(m_operations[q])
     /\ Head(m_operations[q]).kind = "wait_event") => WaitSatisfied(Head(m_operations[q]))

LEMMA NotTail ==
  ASSUME QueuesOK, NEW q \in Queue, m_operations[q] # << >>
  PROVE  /\ m_operations[q] # Tail(m_operations[q])
         /\ \A o \in Op : Append(m_operations[q], o) # Tail(m_operations[q])
<1>1. m_operations[q] \in Seq(Op)
  BY DEF QueuesOK
<1>2. Len(m_operations[q]) \in Nat /\ Len(Tail(m_operations[q])) = Len(m_operations[q]) - 1
  BY <1>1
<1>3. Len(m_operations[q]) # Len(Tail(m_operations[q]))
  BY <1>2
<1>4. ASSUME NEW o \in Op
      PROVE  Append(m_operations[q], o) # Tail(m_operations[q])
  <2>1. Len(Append(m_operations[q], o)) = Len(m_operations[q]) + 1
    BY <1>1
  <2>2. Len(Append(m_operations[q], o)) # Len(Tail(m_operations[q]))
    BY <1>2, <2>1
  <2> QED BY ONLY <2>2
<1>5. m_operations[q] # Tail(m_operations[q])
  BY ONLY <1>3
<1> QED BY <1>4, <1>5

LEMMA NothingServed ==
  ASSUME QueuesOK,
         \/ m_operations' = m_operations
         \/ \E q \in Queue, o \in Op : m_operations' = [m_operations EXCEPT ![q] = Append(@, o)]
  PROVE  WaitsServed
<1> SUFFICES ASSUME NEW q \in Queue, m_operations[q] # << >>
             PROVE  m_operations'[q] # Tail(m_operations[q])
  BY DEF WaitsServed
<1>1. m_operations'[q] = m_operations[q] \/ \E o \in Op : m_operations'[q] = Append(m_operations[q], o)
  BY DEF QueuesOK
<1> QED BY <1>1, NotTail

\* Kernels that are over are no records, ...
LEMMA FinishEvents ==
  ASSUME Queued, EventsOK, Untangled, OneStreamEvents, finished # << >>,
         CheckFinishedKernel(Over(Head(finished))),
         UNCHANGED <<load, issued, updates, at, calls, cnt, targets>>
  PROVE  EventsOK' /\ WaitsServed
<1>ks. PICK ks : ks = Over(Head(finished))
  OBVIOUS
<1> DEFINE qs == {m_grid_id_to_stream[k] : k \in ks}
<1>1. RecordNextDone(qs)
  BY <1>ks DEF CheckFinishedKernel
<1>2. \A q \in qs : \E k \in Kernel : q \in Queue /\ Owns(k, q)
  <2>1. ks \subseteq Kernel /\ \A k \in ks : Owner(k)
    BY <1>ks, OverIs
  <2> QED BY <2>1 DEF Queued, OwnersOK, Owns
<1> HIDE DEF qs
<1>3. QueuesOK /\ \A q \in Queue : m_operations[q] \in Seq(Op)
  BY DEF Queued, QueuesOK
<1>4. ASSUME NEW q \in qs
      PROVE  q \in Queue /\ m_operations[q] # << >> /\ Head(m_operations[q]).kind = "kernel"
  <2>1. PICK k \in Kernel : q \in Queue /\ Owns(k, q)
    BY <1>2
  <2>2. 1 \in 1 .. Len(m_operations[q]) /\ m_operations[q][1].kind = "kernel"
    BY <2>1 DEF Owns, KernelOp
  <2>3. Head(m_operations[q]) = m_operations[q][1] /\ m_operations[q] # << >>
    BY <1>3, <2>1, <2>2
  <2> QED BY <2>1, <2>2, <2>3
<1>5. WaitsServed
  <2> SUFFICES ASSUME NEW q \in Queue, m_operations[q] # << >>,
                      m_operations'[q] = Tail(m_operations[q]),
                      Head(m_operations[q]).kind = "wait_event"
               PROVE  FALSE
    BY DEF WaitsServed
  <2>1. q \notin qs
    BY <1>4
  <2>2. m_operations'[q] = m_operations[q]
    BY <1>1, <2>1 DEF RecordNextDone
  <2>3. Head(m_operations[q]) \in Op
    BY <1>3
  <2> QED BY <1>3, <2>2, <2>3, NotTail
<1>6. \A q \in Queue, i \in Nat, o \in Op : At(q, i, o)' => At(q, IF q \in qs THEN i + 1 ELSE i, o)
  BY <1>1, <1>3, <1>4, PopAt
<1>7. HostsOK
  BY DEF Queued
<1> QED BY <1>5, <1>6, <1>7, EventsMove

\* ... a record is counted when it is taken, and a wait is taken when it has been satisfied, ...
LEMMA OperationEvents ==
  ASSUME Queued, EventsOK, OneStreamEvents, Operation, load' = load
  PROVE  EventsOK' /\ WaitsServed
<1>1. /\ UNCHANGED <<issued, at, calls, cnt, targets>>
      /\ HostsOK /\ QueuesOK /\ \A q \in Queue : m_operations[q] \in Seq(Op)
  BY DEF Operation, hosts, Queued, QueuesOK
<1>2. ASSUME UNCHANGED <<m_operations, updates>>
      PROVE  EventsOK' /\ WaitsServed
  <2>n. PICK none : none = {}
    OBVIOUS
  <2>1. \A q \in Queue, i \in Nat, o \in Op :
          At(q, i, o)' /\ o.kind # "kernel" => At(q, IF q \in none THEN i + 1 ELSE i, o)
    BY <1>2, <2>n DEF At
  <2>2. EventsOK'
    BY <1>1, <1>2, <2>1, EventsMove
  <2> QED BY <1>1, <1>2, <2>2, NothingServed
<1>q. PICK q \in Queue : q = FrontQueue
  BY <1>1, FrontIs
<1>3. CASE ~Serviceable(q)
  BY <1>2, <1>3, <1>q DEF Operation
<1>4. CASE Serviceable(q)
  <2>o. PICK o \in Op : o = Head(m_operations[q]) /\ o = m_operations[q][1] /\ At(q, 1, o)
    <3>1. m_operations[q] \in Seq(Op) /\ m_operations[q] # << >>
      BY <1>1, <1>4 DEF Serviceable
    <3>2. Head(m_operations[q]) = m_operations[q][1] /\ 1 \in 1 .. Len(m_operations[q])
          /\ Head(m_operations[q]) \in Op
      BY <3>1
    <3> QED BY <3>2 DEF At
  <2>1. DoOperation(q, o)
    BY <1>q, <1>4, <2>o DEF Operation
  <2>2. \/ UNCHANGED <<m_operations, updates>>
        \/ /\ RecordNextDone({q})
           /\ \/ updates' = updates
              \/ o.kind = "event" /\ updates' = [updates EXCEPT ![o.event] = @ + 1]
           /\ o.kind = "wait_event" => WaitSatisfied(o)
    <3>1. CASE o.kind = "kernel"
      BY <2>1, <3>1 DEF DoOperation, LaunchKernel
    <3>2. CASE o.kind = "memcpy"
      BY <2>1, <3>2 DEF DoOperation, Memcpy
    <3>3. CASE o.kind = "event"
      BY <2>1, <3>3 DEF DoOperation, UpdateEvent
    <3>4. CASE o.kind = "wait_event"
      <4>1. WaitEvent(q, o)
        BY <2>1, <3>4 DEF DoOperation
      <4> QED BY <3>4, <4>1 DEF WaitEvent
    <3>5. o.kind \in OpKind
      BY DEF Op
    <3> QED BY <3>1, <3>2, <3>3, <3>4, <3>5 DEF OpKind
  <2>3. CASE UNCHANGED <<m_operations, updates>>
    BY <1>2, <2>3
  <2>4. CASE ~UNCHANGED <<m_operations, updates>>
    <3>1. /\ RecordNextDone({q})
          /\ \/ updates' = updates
             \/ o.kind = "event" /\ updates' = [updates EXCEPT ![o.event] = @ + 1]
          /\ o.kind = "wait_event" => WaitSatisfied(o)
      BY <2>2, <2>4
    <3>2. \A r \in Queue, i \in Nat, x \in Op :
            At(r, i, x)' => At(r, IF r \in {q} THEN i + 1 ELSE i, x)
      <4>1. \A r \in Queue : r \in {q} => m_operations[r] # << >>
        BY <1>4 DEF Serviceable
      <4> QED BY <1>1, <3>1, <4>1, PopAt
    <3>3. EventsOK'
      <4>1. \/ updates' = updates
            \/ \E r \in Queue, x \in Op :
                 /\ r \in {q} /\ At(r, 1, x) /\ x.kind = "event"
                 /\ updates' = [updates EXCEPT ![x.event] = @ + 1]
        BY <2>o, <3>1
      <4> QED BY <1>1, <3>2, <4>1, EventsMove
    <3>4. WaitsServed
      <4> SUFFICES ASSUME NEW r \in Queue, m_operations[r] # << >>,
                          m_operations'[r] = Tail(m_operations[r]),
                          Head(m_operations[r]).kind = "wait_event"
                   PROVE  WaitSatisfied(Head(m_operations[r]))
        BY DEF WaitsServed
      <4>1. r = q
        <5> SUFFICES ASSUME r # q PROVE FALSE
          OBVIOUS
        <5>1. m_operations'[r] = m_operations[r]
          BY <3>1 DEF RecordNextDone
        <5> QED BY <1>1, <5>1, NotTail
      <4> QED BY <2>o, <3>1, <4>1
    <3> QED BY <3>3, <3>4
  <2> QED BY <2>3, <2>4
<1> QED BY <1>3, <1>4

\* ... and what the device launches is no record and waits for none.
LEMMA LaunchOneEvents ==
  ASSUME Queued, EventsOK, OneStreamEvents, LaunchOneDeviceKernel,
         g_cuda_device_launch_op # << >>, load' = load
  PROVE  EventsOK' /\ WaitsServed
<1>1. /\ UNCHANGED <<issued, updates, at, calls, cnt, targets>> /\ HostsOK /\ QueuesOK
  BY DEF LaunchOneDeviceKernel, hosts, events, Queued
<1> DEFINE g == g_cuda_device_launch_op
<1>c. PICK c \in DeviceKernel : c = Head(g)
  BY DEF Queued, GpuOK
<1>q. PICK q : q = IF load.blocking THEN ZERO ELSE StreamOf(c)
  OBVIOUS
<1>2. q \in Queue
  BY <1>q, Kernels DEF Queued, Queue
<1>o. PICK o \in Op : o = DeviceOp(c) /\ o.kind = "kernel"
  <2>1. Parent(c) \in HostKernel /\ c \in OpId
    BY Kernels DEF Queued, Kernel
  <2>2. PICK h \in Host : c[1] \in {h} \X DOMAIN Program[h]
    BY <2>1 DEF HostKernel, Parent
  <2>3. Program[c[1][1]][c[1][2]] \in Call
    BY <2>2, Kernels DEF Queued
  <2>4. Program[c[1][1]][c[1][2]].event \in Event
    BY <2>3 DEF Call
  <2>5. DeviceOp(c) \in Op /\ DeviceOp(c).kind = "kernel"
    BY <2>1, <2>4 DEF DeviceOp, Op, OpKind
  <2> QED BY <2>5
<1>3. \/ m_operations' = m_operations
      \/ m_operations' = [m_operations EXCEPT ![q] = Append(@, o)]
  BY <1>c, <1>o, <1>q DEF LaunchOneDeviceKernel
<1>n. PICK none : none = {}
  OBVIOUS
<1>4. \A r \in Queue, i \in Nat, x \in Op :
        At(r, i, x)' /\ x.kind # "kernel" => At(r, IF r \in none THEN i + 1 ELSE i, x)
  <2>1. CASE m_operations' = m_operations
    BY <1>n, <2>1 DEF At
  <2>2. CASE m_operations' = [m_operations EXCEPT ![q] = Append(@, o)]
    BY <1>1, <1>2, <1>n, <1>o, <2>2, PushAt
  <2> QED BY <1>3, <2>1, <2>2
<1>5. EventsOK'
  BY <1>1, <1>4, EventsMove
<1>6. WaitsServed
  BY <1>1, <1>2, <1>3, NothingServed
<1> QED BY <1>5, <1>6

LEMMA EventsInductive ==
  ASSUME Untangled, OneStreamEvents, Queued, LaunchOK, EventsOK, [Next]_vars
  PROVE  EventsOK' /\ WaitsServed
<1>h. HostsOK /\ PushOK /\ QueuesOK
  BY DEF Queued
<1>1. ASSUME NEW h \in Host, HostThread(h)
      PROVE  EventsOK' /\ WaitsServed
  <2>1. HostStep(h) /\ load' = load
    BY <1>1 DEF HostThread
  <2>2. EventsOK'
    BY <1>h, <2>1, HostPasses, EventsBegin, EventsPush, EventsPass
  <2>3. \/ m_operations' = m_operations
        \/ \E q \in Queue, o \in Op : m_operations' = [m_operations EXCEPT ![q] = Append(@, o)]
    BY <2>1, HostFrame, PushIs
  <2> QED BY <1>h, <2>2, <2>3, NothingServed
<1>q. ASSUME UNCHANGED <<load, m_operations, events, hosts>>
      PROVE  EventsOK' /\ WaitsServed
  <2>1. UNCHANGED <<issued, updates, at, calls, cnt, targets>>
    BY <1>q DEF events, hosts
  <2>n. PICK none : none = {}
    OBVIOUS
  <2>2. \A q \in Queue, i \in Nat, o \in Op :
          At(q, i, o)' /\ o.kind # "kernel" => At(q, IF q \in none THEN i + 1 ELSE i, o)
    BY <1>q, <2>n DEF At
  <2>3. EventsOK'
    BY <1>h, <1>q, <2>1, <2>2, EventsMove
  <2> QED BY <1>h, <1>q, <2>3, NothingServed
<1>2. CASE SimThread
  <2>1. SimStep /\ load' = load
    BY <1>2 DEF SimThread
  <2>2. CASE DetectWork \/ Activate \/ Idle \/ StopAll \/ Stopped \/ TestActive \/ Deactivate
             \/ ThreadExit \/ Cycle
    BY <1>q, <2>1, <2>2 DEF DetectWork, Activate, Idle, StopAll, Stopped, TestActive, Deactivate,
                            ThreadExit, Cycle, queues
  <2>3. CASE Check
    <3>1. UNCHANGED <<issued, updates, at, calls, cnt, targets, events, hosts>>
      BY <2>3 DEF Check, hosts, events
    <3>2. CASE finished = << >>
      BY <1>q, <2>1, <2>3, <3>1, <3>2 DEF Check, queues
    <3>3. CASE finished # << >>
      <4>1. CheckFinishedKernel(Over(Head(finished)))
        BY <2>3, <3>3 DEF Check
      <4> QED BY <2>1, <3>1, <3>3, <4>1, FinishEvents
    <3> QED BY <3>2, <3>3
  <2>4. CASE StopOne
    <3>1. /\ finished # << >> /\ CheckFinishedKernel(Over(Head(finished)))
          /\ UNCHANGED <<issued, updates, at, calls, cnt, targets>>
      BY <2>4 DEF StopOne, hosts, events
    <3> QED BY <2>1, <3>1, FinishEvents
  <2>5. CASE Operation
    BY <2>1, <2>5, OperationEvents
  <2>6. CASE LaunchOneDeviceKernel
    <3>1. g_cuda_device_launch_op # << >>
      BY <2>6 DEF LaunchOneDeviceKernel, LaunchOK
    <3> QED BY <2>1, <2>6, <3>1, LaunchOneEvents
  <2> QED BY <2>1, <2>2, <2>3, <2>4, <2>5, <2>6 DEF SimStep
<1>3. CASE UNCHANGED vars
  BY <1>q, <1>3 DEF vars, queues
<1> QED BY <1>1, <1>2, <1>3 DEF Next

\* Initially no event has been recorded.
LEMMA EventsInit == ASSUME Init PROVE EventsOK
<1>1. /\ m_operations = [q \in Queue |-> << >>] /\ at = [h \in Host |-> "call"]
      /\ issued = [e \in Event |-> 0] /\ updates = [e \in Event |-> 0]
  BY DEF Init
<1>2. \A q \in Queue : \A i, o : ~At(q, i, o)
  <2>1. \A i : i \notin 1 .. Len(<< >>)
    OBVIOUS
  <2> QED BY <1>1, <2>1 DEF At
<1>3. SubmittedOK /\ TargetOK /\ updates \in [Event -> Nat]
  BY <1>1, <1>2 DEF SubmittedOK, TargetOK, Pushing
<1>4. \A e \in Event : Recording(e) = {}
  BY <1>1 DEF Recording
<1>5. IsFiniteSet({}) /\ Cardinality({}) = 0
  BY FS_EmptySet
<1>6. PICK R \in [OpId -> Int], T \in [Event -> Int] : \A e \in Event : T[e] = 0
  <2>1. [i \in OpId |-> 0] \in [OpId -> Int] /\ [e \in Event |-> 0] \in [Event -> Int]
    OBVIOUS
  <2> QED BY <2>1
<1>7. CountedOK(R, T)
  <2>1. \A e \in Event : /\ updates[e] <= T[e] /\ IsFiniteSet(Recording(e))
                         /\ T[e] + Cardinality(Recording(e)) <= issued[e]
    <3> TAKE e \in Event
    <3>1. updates[e] = 0 /\ issued[e] = 0 /\ T[e] = 0 /\ Recording(e) = {}
      BY <1>1, <1>4, <1>6
    <3> QED BY <1>5, <3>1
  <2> QED BY <1>2, <2>1 DEF CountedOK
<1>8. WaitsOK(R)
  BY <1>1, <1>2 DEF WaitsOK, Pushing
<1> QED BY <1>3, <1>7, <1>8 DEF EventsOK, RanksOK

\* A stream gets past a cudaStreamWaitEvent only when every record of the event that the same
\* host made before has been reached, although the event only counts how often it was recorded
\* and reached; for events that are recorded in one stream, by any number of hosts.
THEOREM WaitsInOrder == ASSUME Untangled, OneStreamEvents PROVE Spec => EventOrder
<1> DEFINE Inv == Queued /\ LaunchOK /\ EventsOK
           Ordered ==
             \A q \in Queue :
               (m_operations[q] # << >> /\ m_operations'[q] = Tail(m_operations[q])) =>
                 LET o == Head(m_operations[q]) IN
                 o.kind = "wait_event" =>
                   \A r \in Outstanding(o.id[1]) :
                     ~(r.kind = "event" /\ r.event = o.event /\ r.id[2] < o.id[2])
<1>1. Init => Inv
  BY QueuedInit, EventsInit
<1>2. Inv /\ [Next]_vars => Inv'
  BY QueuedInductive, EventsInductive
<1>3. Inv /\ [Next]_vars => [Ordered]_vars
  <2> SUFFICES ASSUME Queued, EventsOK, WaitsServed, NEW q \in Queue, m_operations[q] # << >>,
                      m_operations'[q] = Tail(m_operations[q]),
                      NEW o, o = Head(m_operations[q]), o.kind = "wait_event",
                      NEW r \in Outstanding(o.id[1]),
                      r.kind = "event", r.event = o.event, r.id[2] < o.id[2]
               PROVE  FALSE
    BY EventsInductive
  <2>1. \A s \in Queue : m_operations[s] \in Seq(Op)
    BY DEF Queued, QueuesOK
  <2>2. o \in Op /\ At(q, 1, o)
    <3>1. o = m_operations[q][1] /\ 1 \in 1 .. Len(m_operations[q]) /\ o \in Op
      BY <2>1
    <3> QED BY <3>1 DEF At
  <2>3. PICK s \in Queue, i \in Nat : At(s, i, r) /\ r \in Op /\ r.id[1] = o.id[1]
    <3>1. PICK s \in Queue : r \in {m_operations[s][i] : i \in 1 .. Len(m_operations[s])}
      BY DEF Outstanding
    <3>2. PICK i \in 1 .. Len(m_operations[s]) : r = m_operations[s][i]
      BY <3>1
    <3>3. i \in Nat /\ r \in Op
      BY <2>1, <3>2
    <3> QED BY <3>2, <3>3 DEF At, Outstanding
  <2>4. PICK R \in [OpId -> Int], T \in [Event -> Int] : CountedOK(R, T) /\ WaitsOK(R)
    BY DEF EventsOK, RanksOK
  <2>5. updates[r.event] < R[r.id]
    BY <2>3, <2>4 DEF CountedOK
  <2>6. R[r.id] <= o.cnt
    <3>1. 1 \in Nat
      OBVIOUS
    <3> QED BY <2>2, <2>3, <2>4, <3>1 DEF WaitsOK
  <2>7. updates[r.event] >= o.cnt
    BY DEF WaitsServed, WaitSatisfied
  <2>8. R[r.id] \in Int /\ o.cnt \in Nat /\ updates[r.event] \in Nat
    BY <2>2, <2>3 DEF Op, EventsOK
  <2> QED BY <2>5, <2>6, <2>7, <2>8
<1>4. [][Ordered]_vars => EventOrder
  BY DEF EventOrder
<1> HIDE DEF Inv, Ordered
<1> QED BY <1>1, <1>2, <1>3, <1>4, PTL DEF Spec

-------------------------------------------------------------------------------
(***************************************************************************)
(* An operation of stream zero is taken up when the other streams are      *)
(* empty.  push() makes sure of it for the host that submits to stream     *)
(* zero, and for no other (see the README), so in these programs a host    *)
(* that does is the only one that submits; with CUDA_LAUNCH_BLOCKING all   *)
(* operations go to stream zero.  A stream that is created is a new one.   *)
(***************************************************************************)
SoleUser(w) ==
  LET call(h, n) == w.program[h][n] IN
  \A g, h \in Host : \A m \in DOMAIN w.program[g], n \in DOMAIN w.program[h] :
    /\ call(g, m).call = "create" => call(g, m).stream # ZERO
    /\ (/\ ~w.blocking /\ call(g, m).call \in OpKind
        /\ call(h, n).call \in OpKind \ {"wait_event"} /\ call(h, n).stream = ZERO) => g = h

SoleUserOfZero == \A w \in Workloads : SoleUser(w)

ListOK == \A i \in 1 .. Len(m_streams) : m_streams[i] # ZERO

\* Stream zero is the only target of a call, if it is one, ...
TargetZeroOK ==
  \A h \in Host : at[h] \in Pushing =>
    \A i \in 1 .. Len(targets[h]) : targets[h][i] = ZERO => i = 1 /\ ~Everywhere(h)

\* ... what the device launches goes to the other streams, ...
PlaceOK ==
  \A q \in Queue, e \in Op : In(q, e) =>
    IF load.blocking THEN q = ZERO ELSE q = ZERO => e.id[1] \in Host

\* Host h is past the block loop of a push to stream zero.
ToZero(h) == at[h] \in {"push", "drain"} /\ Head(targets[h]) = ZERO

\* ... and from the block loop to the end of the call the other streams have no operation of
\* a host.
AloneOK ==
  ~load.blocking => \A h \in Host :
    /\ ToZero(h) => \A q \in Stream, g \in Host : ~Has(q, g)
    /\ Has(ZERO, h) => at[h] = "drain" /\ Head(targets[h]) = ZERO

ZeroOK == ListOK /\ TargetZeroOK /\ PlaceOK /\ AloneOK

\* The streams in the list have been created, or belong to CTAs.
LEMMA ListKept ==
  ASSUME Untangled, SoleUserOfZero, Queued, ListOK, Next
  PROVE  ListOK'
<1>1. CASE m_streams' = m_streams
  BY <1>1 DEF ListOK
<1>2. ASSUME NEW S, m_streams' = Only(m_streams, S)
      PROVE  ListOK'
  <2>q. m_streams \in Seq(Queue)
    BY DEF Queued, QueuesOK
  <2>1. (\E j \in 1 .. Len(Only(m_streams, S)) : Only(m_streams, S)[j] = ZERO)
          <=> ZERO \in S /\ \E j \in 1 .. Len(m_streams) : m_streams[j] = ZERO
    BY <2>q, OnlyElements
  <2> QED BY <1>2, <2>1 DEF ListOK
<1>3. ASSUME NEW s \in Seq(Queue), m_streams' = m_streams \o s, \A i \in 1 .. Len(s) : s[i] # ZERO
      PROVE  ListOK'
  <2> SUFFICES ASSUME NEW i \in 1 .. Len(m_streams \o s)
               PROVE  (m_streams \o s)[i] # ZERO
    BY <1>3 DEF ListOK
  <2>1. m_streams \in Seq(Queue)
    BY DEF Queued, QueuesOK
  <2>2. CASE i <= Len(m_streams)
    <3>1. i \in 1 .. Len(m_streams) /\ (m_streams \o s)[i] = m_streams[i]
      BY <1>3, <2>1, <2>2
    <3> QED BY <3>1 DEF ListOK
  <2>3. CASE ~(i <= Len(m_streams))
    <3>1. i - Len(m_streams) \in 1 .. Len(s) /\ (m_streams \o s)[i] = s[i - Len(m_streams)]
      BY <1>3, <2>1, <2>3
    <3> QED BY <1>3, <3>1
  <2> QED BY <2>2, <2>3
<1>4. ASSUME NEW h \in Host, AddStream(h)
      PROVE  ListOK'
  <2>1. /\ m_streams' = Append(m_streams, CurrentCall(h).stream)
        /\ calls[h] < Len(Program[h]) /\ CurrentCall(h).call = "create"
    BY <1>4 DEF AddStream, Calls
  <2>2. /\ CurrentCall(h) \in Call /\ calls[h] + 1 \in DOMAIN Program[h]
        /\ CurrentCall(h) = Program[h][calls[h] + 1]
    BY <2>1, CallType DEF Queued, CurrentCall
  <2>3. CurrentCall(h).stream # ZERO /\ CurrentCall(h).stream \in Queue
    BY <2>1, <2>2 DEF SoleUserOfZero, SoleUser, Program, Queued, HostsOK, Call
  <2>4. PICK x \in Queue : x = CurrentCall(h).stream /\ x # ZERO
    BY <2>3
  <2>5. m_streams \in Seq(Queue)
    BY DEF Queued, QueuesOK
  <2>6. /\ <<x>> \in Seq(Queue) /\ \A i \in 1 .. Len(<<x>>) : <<x>>[i] # ZERO
        /\ Append(m_streams, x) = m_streams \o <<x>>
    BY <2>4, <2>5
  <2> QED BY <1>3, <2>1, <2>4, <2>6
<1>5. CASE Cycle
  <2> DEFINE done == {k \in running :
               [x \in Kernel |-> IF x \in running THEN left[x] - 1 ELSE left[x]][k] = 0}
  <2>1. \E new \in Launches(done) : LaunchDeviceV2(new)
    BY <1>5 DEF Cycle
  <2> HIDE DEF done
  <2>2. PICK new \in Launches(done) : LaunchDeviceV2(new)
    BY <2>1
  <2> DEFINE fresh == {StreamOf(c) : c \in new} \ {m_streams[i] : i \in 1 .. Len(m_streams)}
  <2>3. new \subseteq DeviceKernel /\ IsFiniteSet(fresh) /\ fresh \subseteq Queue
    BY LaunchesFinite
  <2>4. \A x \in fresh : x # ZERO
    BY <2>3, Kernels, RuntimeAssumption DEF Queued
  <2>5. \E s \in Orders(fresh) : m_streams' = m_streams \o s
    BY <2>2 DEF LaunchDeviceV2
  <2> HIDE DEF fresh
  <2>6. PICK s \in Orders(fresh) : m_streams' = m_streams \o s
    BY <2>5
  <2>7. s \in Seq(fresh)
    BY <2>3, OrdersOnce
  <2>8. s \in Seq(Queue) /\ \A i \in 1 .. Len(s) : s[i] # ZERO
    BY <2>3, <2>4, <2>7
  <2> QED BY <1>3, <2>6, <2>8
<1>6. ASSUME NEW h \in Host, HostThread(h)
      PROVE  ListOK'
  <2>1. HostStep(h)
    BY <1>6 DEF HostThread
  <2>2. CASE Destroy(h)
    BY <1>2, <2>2 DEF Destroy
  <2> QED BY <1>1, <1>4, <2>1, <2>2, HostFrame
<1>7. CASE SimThread
  <2>1. SimStep
    BY <1>7 DEF SimThread
  <2>2. CASE Check \/ StopOne
    BY <1>1, <1>2, <2>2 DEF Check, StopOne, CheckFinishedKernel, queues
  <2>3. CASE ~(Check \/ StopOne \/ Cycle)
    <3>1. m_streams' = m_streams
      BY <2>1, <2>3 DEF SimStep, DetectWork, Activate, Idle, StopAll, Stopped, TestActive, Deactivate,
                        ThreadExit, Operation, LaunchOneDeviceKernel, queues
    <3> QED BY <1>1, <3>1
  <2> QED BY <1>5, <2>2, <2>3
<1> QED BY <1>6, <1>7 DEF Next

\* A host in a push to stream zero makes a call on stream zero.
LEMMA ToZeroCall ==
  ASSUME Queued, Walked, TargetZeroOK, NEW h \in Host, at[h] \in Pushing, Head(targets[h]) = ZERO
  PROVE  /\ calls[h] + 1 \in DOMAIN Program[h] /\ CurrentCall(h) = Program[h][calls[h] + 1]
         /\ CurrentCall(h).call \in OpKind \ {"wait_event"} /\ CurrentCall(h).stream = ZERO
<1>1. /\ calls[h] < Len(Program[h]) /\ CurrentCall(h).call \in OpKind
      /\ targets[h] \in Seq(Queue) /\ targets[h] # << >>
  BY DEF Queued, PushOK, HostsOK
<1>2. targets[h][1] = ZERO /\ 1 \in 1 .. Len(targets[h])
  BY <1>1
<1>3. ~Everywhere(h) /\ (Everywhere(h) \/ targets[h][1] = CurrentCall(h).stream)
  BY <1>2 DEF TargetZeroOK, Walked, TargetsOK
<1> QED BY <1>1, <1>2, <1>3, CallType DEF Queued, Everywhere, CurrentCall

\* A host that is in a push to stream zero was so before, or has found the other streams empty.
LEMMA HostToZero ==
  ASSUME Queued, Walked, ListOK, TargetZeroOK, NEW h \in Host, HostStep(h), load' = load
  PROVE  /\ TargetZeroOK'
         /\ ~load.blocking /\ ToZero(h)' =>
              ToZero(h) \/ (ConcurrentStreamsEmpty /\ m_operations' = m_operations)
<1>f. Program' = Program
  BY LoadFixed
<1>o. /\ \A g \in Host \ {h} : at'[g] = at[g] /\ calls'[g] = calls[g] /\ targets'[g] = targets[g]
      /\ at \in [Host -> Places] /\ calls \in [Host -> Nat] /\ targets \in [Host -> Seq(Queue)]
      /\ m_streams \in Seq(Queue)
  BY HostType, OthersKept DEF Queued, HostsOK, QueuesOK
<1> DEFINE Only1(e, ts) == \A i \in 1 .. Len(ts) : ts[i] = ZERO => i = 1 /\ ~e
           Goes == ToZero(h) \/ (ConcurrentStreamsEmpty /\ m_operations' = m_operations)
           Right == /\ at'[h] \in Pushing => calls'[h] = calls[h] /\ Only1(Everywhere(h), targets'[h])
                    /\ ~load.blocking /\ ToZero(h)' => Goes
<1>r. Return(h) => at'[h] = "call"
  BY <1>o DEF Return
<1>k. at[h] \in Pushing => Only1(Everywhere(h), targets[h])
  BY DEF TargetZeroOK
<1>n. ASSUME at[h] \in Pushing, NextTarget(h), at'[h] \in Pushing
      PROVE  /\ calls' = calls /\ Only1(Everywhere(h), targets'[h])
             /\ Head(targets'[h]) # ZERO
  <2>1. /\ targets'[h] = Tail(targets[h]) /\ targets[h] \in Seq(Queue) /\ targets[h] # << >>
        /\ Len(targets[h]) # 1 /\ calls' = calls
    BY <1>n, <1>o, <1>r DEF NextTarget, Queued, PushOK, Pushing
  <2>2. \A i \in 1 .. Len(targets'[h]) : /\ i + 1 \in 1 .. Len(targets[h]) /\ i + 1 # 1
                                         /\ targets'[h][i] = targets[h][i + 1]
    BY <2>1
  <2>3. \A i \in 1 .. Len(targets'[h]) : targets'[h][i] # ZERO
    BY <1>k, <1>n, <2>2
  <2>4. 1 \in 1 .. Len(targets'[h]) /\ Head(targets'[h]) = targets'[h][1]
    <3>1. PICK ts \in Seq(Queue) : ts = targets[h] /\ ts # << >> /\ Len(ts) # 1 /\ targets'[h] = Tail(ts)
      BY <2>1
    <3>2. PICK rest \in Seq(Queue) : rest = Tail(ts) /\ rest # << >>
      <4>1. Tail(ts) \in Seq(Queue) /\ Len(Tail(ts)) = Len(ts) - 1
        BY <3>1
      <4>2. Len(ts) \in Nat /\ 1 \in 1 .. Len(ts)
        BY <3>1
      <4>3. Len(Tail(ts)) # 0
        BY <3>1, <4>1, <4>2
      <4>4. PICK rest \in Seq(Queue) : rest = Tail(ts) /\ Len(rest) # 0
        BY <4>1, <4>3
      <4>5. rest # << >>
        BY <4>4
      <4> QED BY <4>4, <4>5
    <3>3. 1 \in 1 .. Len(rest) /\ Head(rest) = rest[1]
      BY <3>2
    <3>4. rest = targets'[h]
      BY <3>1, <3>2
    <3> QED BY <3>3, <3>4
  <2> QED BY <2>1, <2>3, <2>4
<1>1. ASSUME BeginPush(h) PROVE Right
  <2> DEFINE c == CurrentCall(h)
             qs == IF Everywhere(h) THEN m_streams ELSE <<c.stream>>
  <2>1. \/ at'[h] = "call"
        \/ /\ targets'[h] = qs /\ calls'[h] = calls[h]
           /\ at'[h] = IF Blocking(Head(qs)) THEN "block" ELSE "push"
    BY <1>1, <1>o, <1>r DEF BeginPush, Everywhere
  <2>2. Only1(Everywhere(h), qs)
    <3>1. CASE Everywhere(h)
      BY <3>1 DEF ListOK
    <3>2. CASE ~Everywhere(h)
      <4>1. \A i \in 1 .. Len(<<c.stream>>) : i = 1
        OBVIOUS
      <4> QED BY <3>2, <4>1
    <3> QED BY <3>1, <3>2
  <2> QED BY <2>1, <2>2 DEF Pushing, ToZero, Blocking
<1>2. ASSUME PushBlocked(h) PROVE Right
  <2>1. /\ at[h] = "block" /\ at'[h] = "push" /\ UNCHANGED <<calls, targets, m_operations>>
        /\ ConcurrentStreamsEmpty
    BY <1>2, <1>o DEF PushBlocked, queues
  <2> QED BY <1>k, <2>1 DEF Pushing
<1>3. ASSUME Push(h) \/ Drain(h) PROVE Right
  <2>1. at[h] \in {"push", "drain"} /\ at[h] \in Pushing
    BY <1>3 DEF Push, Drain, Pushing
  <2>2. CASE NextTarget(h)
    <3>1. at'[h] \in Places
      BY HostType DEF Queued, HostsOK
    <3> QED BY <1>n, <2>1, <2>2 DEF ToZero, Pushing
  <2>3. CASE ~NextTarget(h)
    <3>1. UNCHANGED <<calls, targets>>
      BY <1>3, <2>3 DEF Push, Drain
    <3> QED BY <1>k, <2>1, <3>1 DEF ToZero
  <2> QED BY <2>2, <2>3
<1>4. ASSUME ~(BeginPush(h) \/ PushBlocked(h) \/ Push(h) \/ Drain(h))
      PROVE  Right
  <2>1. at'[h] \in {"call", "sync", "sync_scan", "destroy_sync", "destroy", "exit"}
    BY <1>4, <1>o, <1>r DEF HostStep, BeginSync, StreamSync, SyncLock, SyncScan, AddStream, BeginDestroy,
                        DestroyLock, Destroy, BeginExit, Exit
  <2> QED BY <2>1 DEF Pushing, ToZero
<1>5. Right
  BY <1>1, <1>2, <1>3, <1>4
<1>6. ASSUME NEW g \in Host, at'[g] \in Pushing
      PROVE  \A i \in 1 .. Len(targets'[g]) : targets'[g][i] = ZERO => i = 1 /\ ~Everywhere(g)'
  <2>1. /\ calls'[g] = calls[g] /\ Only1(Everywhere(g), targets'[g])
    BY <1>5, <1>6, <1>o DEF TargetZeroOK
  <2>2. CurrentCall(g)' = CurrentCall(g)
    BY <1>f, <2>1 DEF CurrentCall
  <2> QED BY <2>1, <2>2 DEF Everywhere
<1> QED BY <1>5, <1>6 DEF TargetZeroOK

\* A host queues an operation where the target of its call is, and nothing else.
LEMMA HostQueues ==
  ASSUME Queued, NEW h \in Host, HostStep(h)
  PROVE  \A q \in Queue, e \in Op : In(q, e)' =>
           \/ In(q, e)
           \/ /\ Push(h) /\ at[h] = "push" /\ e.id[1] = h
              /\ q = IF load.blocking THEN ZERO ELSE Head(targets[h])
<1>1. CASE m_operations' = m_operations
  BY <1>1 DEF In
<1>2. CASE m_operations' # m_operations
  <2>1. Push(h) /\ at[h] = "push"
    BY <1>2, HostFrame DEF Push
  <2>2. PICK r \in Queue : /\ m_operations' = [m_operations EXCEPT ![r] = Append(@, NewOp(h))]
                           /\ r = IF load.blocking THEN ZERO ELSE Head(targets[h])
    BY <1>2, <2>1, PushIs
  <2>3. PICK o \in Op : o = NewOp(h) /\ o.id[1] = h
    BY <2>1, PushIs DEF NewOp
  <2>4. m_operations' = [m_operations EXCEPT ![r] = Append(@, o)]
    BY <2>2, <2>3
  <2>5. \A q \in Queue, e \in Op : In(q, e)' => In(q, e) \/ (q = r /\ e = o)
    BY <2>4, PushIn DEF Queued
  <2> QED BY <2>1, <2>2, <2>3, <2>5
<1> QED BY <1>1, <1>2

\* While a host uses stream zero no other host submits anything.
LEMMA HostAlone ==
  ASSUME SoleUserOfZero, Queued, Walked, ZeroOK, NEW h \in Host, HostStep(h), load' = load
  PROVE  PlaceOK' /\ AloneOK'
<1>o. /\ \A g \in Host \ {h} : at'[g] = at[g] /\ calls'[g] = calls[g] /\ targets'[g] = targets[g]
      /\ at \in [Host -> Places] /\ targets \in [Host -> Seq(Queue)] /\ ZERO \notin Stream
      /\ Stream \subseteq Queue /\ ZERO \in Queue
  BY HostType, OthersKept, RuntimeAssumption DEF Queued, HostsOK, Queue
<1>q. \A q \in Queue, e \in Op : In(q, e)' =>
        \/ In(q, e)
        \/ /\ Push(h) /\ at[h] = "push" /\ e.id[1] = h
           /\ q = IF load.blocking THEN ZERO ELSE Head(targets[h])
  BY HostQueues
<1>1. PlaceOK'
  BY <1>q DEF PlaceOK, ZeroOK
<1> SUFFICES ASSUME ~load.blocking PROVE AloneOK'
  BY <1>1 DEF AloneOK
<1>h. \A q \in Queue, g \in Host : Has(q, g)' =>
        Has(q, g) \/ (g = h /\ Push(h) /\ at[h] = "push" /\ q = Head(targets[h]))
  BY <1>q DEF Has
<1>a. \A g \in Host : /\ ToZero(g) => \A q \in Stream, x \in Host : ~Has(q, x)
                      /\ Has(ZERO, g) => at[g] = "drain" /\ Head(targets[g]) = ZERO
  BY DEF ZeroOK, AloneOK
\* The host that pushes to another stream is not one that uses stream zero.
<1>2. ASSUME NEW g \in Host, ToZero(g), at[h] = "push"
      PROVE  g = h
  <2>1. /\ calls[g] + 1 \in DOMAIN Program[g] /\ CurrentCall(g) = Program[g][calls[g] + 1]
        /\ CurrentCall(g).call \in OpKind \ {"wait_event"} /\ CurrentCall(g).stream = ZERO
    BY <1>2, ToZeroCall DEF ZeroOK, ToZero, Pushing
  <2>2. calls[h] < Len(Program[h]) /\ CurrentCall(h).call \in OpKind
    BY <1>2 DEF Queued, PushOK, Pushing
  <2>3. calls[h] + 1 \in DOMAIN Program[h] /\ CurrentCall(h) = Program[h][calls[h] + 1]
    BY <2>2, CallType DEF Queued, CurrentCall
  <2> QED BY <2>1, <2>2, <2>3 DEF SoleUserOfZero, SoleUser, Program, Queued, HostsOK
<1>3. ASSUME NEW g \in Host, ToZero(g)', NEW q \in Stream, NEW x \in Host, Has(q, x)'
      PROVE  FALSE
  <2>1. CASE ToZero(g)
    <3>1. x = h /\ at[h] = "push" /\ q = Head(targets[h])
      BY <1>3, <1>a, <1>h, <1>o, <2>1
    <3>2. g = h
      BY <1>2, <2>1, <3>1
    <3> QED BY <1>3, <1>o, <2>1, <3>1, <3>2 DEF ToZero
  <2>2. CASE ~ToZero(g)
    <3>1. g = h
      BY <1>3, <1>o, <2>2 DEF ToZero
    <3>2. ConcurrentStreamsEmpty /\ m_operations' = m_operations
      BY <1>3, <2>2, <3>1, HostToZero DEF ZeroOK
    <3>3. Has(q, x)
      BY <1>3, <3>2 DEF Has, In
    <3>4. PICK j \in 1 .. Len(m_streams) : m_streams[j] = q
      BY <1>o, <3>3 DEF Walked, UsableOK, Usable, Listed
    <3>5. m_operations[q] = << >>
      BY <3>2, <3>4 DEF ConcurrentStreamsEmpty
    <3>6. PICK i : i \in 1 .. Len(m_operations[q])
      BY <3>3 DEF Has, In
    <3>7. 1 .. Len(<< >>) = {}
      OBVIOUS
    <3> QED BY <3>5, <3>6, <3>7
  <2> QED BY <2>1, <2>2
<1>4. ASSUME NEW g \in Host, Has(ZERO, g)'
      PROVE  at'[g] = "drain" /\ Head(targets'[g]) = ZERO
  <2>1. CASE Has(ZERO, g) /\ g # h
    BY <1>a, <1>o, <2>1
  <2>2. CASE Has(ZERO, g) /\ g = h
    <3>1. at[h] = "drain" /\ Head(targets[h]) = ZERO
      BY <1>a, <2>2
    <3>2. Drain(h)
      BY <3>1 DEF HostStep, BeginPush, PushBlocked, Push, BeginSync, StreamSync, SyncLock, SyncScan,
                  AddStream, BeginDestroy, DestroyLock, Destroy, BeginExit, Exit, Calls
    <3>3. unseen[h] # << >>
      <4>1. PICK j : j \in 1 .. Len(unseen[h])
        BY <1>o, <2>2, <3>1 DEF Walked, SeenOK, Walking
      <4>2. 1 .. Len(<< >>) = {}
        OBVIOUS
      <4> QED BY <4>1, <4>2
    <3>4. UNCHANGED <<at, targets>>
      BY <3>2, <3>3 DEF Drain
    <3> QED BY <2>2, <3>1, <3>4
  <2>3. CASE ~Has(ZERO, g)
    <3>1. g = h /\ Push(h) /\ ZERO = Head(targets[h])
      BY <1>4, <1>h, <1>o, <2>3
    <3>2. at' = [at EXCEPT ![h] = "drain"] /\ targets' = targets
      BY <3>1 DEF Push, Blocking
    <3> QED BY <1>o, <3>1, <3>2
  <2> QED BY <2>1, <2>2, <2>3
<1> QED BY <1>3, <1>4 DEF AloneOK

\* The simulation thread queues kernels that the device launches, and no other operation.
LEMMA SimAlone ==
  ASSUME Untangled, Queued, LaunchOK, Walked, ZeroOK, SimThread
  PROVE  TargetZeroOK' /\ PlaceOK' /\ AloneOK'
<1>s. SimStep /\ load' = load
  BY DEF SimThread
<1>f. Program' = Program
  BY <1>s, LoadFixed
<1>z. ZERO \in Queue /\ Stream \subseteq Queue /\ ZERO \notin Stream
  BY RuntimeAssumption DEF Queue
<1>1. /\ UNCHANGED <<at, calls, targets>>
      /\ \A q \in Queue, e \in Op : In(q, e)' =>
           \/ In(q, e)
           \/ e.id[1] \notin Host /\ IF load.blocking THEN q = ZERO ELSE q # ZERO
  <2>1. CASE SimLeaves /\ NoneQueued
    BY <2>1 DEF SimLeaves, NoneQueued
  <2>2. CASE DetectWork \/ Activate \/ Idle \/ StopAll \/ Stopped \/ TestActive \/ Deactivate
             \/ ThreadExit
    <3>1. UNCHANGED <<at, calls, targets, m_operations>>
      BY <2>2 DEF DetectWork, Activate, Idle, StopAll, Stopped, TestActive, Deactivate,
                  ThreadExit, queues, hosts
    <3> QED BY <3>1 DEF In
  <2>3. CASE Check
    <3>1. UNCHANGED <<at, calls, targets, unseen, g_cuda_device_launch_op>>
      BY <2>3 DEF Check, hosts
    <3>2. CASE finished = << >>
      BY <2>3, <3>1, <3>2 DEF Check, queues, In
    <3>3. CASE finished # << >>
      <4>1. CheckFinishedKernel(Over(Head(finished)))
        BY <2>3, <3>3 DEF Check
      <4> QED BY <1>s, <2>1, <3>1, <3>3, <4>1, FinishLeaves
    <3> QED BY <3>2, <3>3
  <2>4. CASE StopOne
    <3>1. /\ finished # << >> /\ CheckFinishedKernel(Over(Head(finished)))
          /\ UNCHANGED <<at, calls, targets, unseen, g_cuda_device_launch_op>>
      BY <2>4 DEF StopOne, hosts
    <3> QED BY <1>s, <2>1, <3>1, FinishLeaves
  <2>5. CASE Operation
    BY <1>s, <2>1, <2>5, OperationLeaves
  <2>6. CASE Cycle
    BY <1>s, <2>1, <2>6, CycleLeaves
  <2>7. CASE LaunchOneDeviceKernel
    <3> DEFINE c == Head(g_cuda_device_launch_op)
    <3>1. c \in DeviceKernel
      BY <2>7 DEF LaunchOK, LaunchOneDeviceKernel, Queued, GpuOK
    <3>2. PICK q \in Queue : q = (IF load.blocking THEN ZERO ELSE StreamOf(c)) /\ StreamOf(c) # ZERO
      BY <1>z, <3>1, Kernels DEF Queued
    <3>3. SimLeaves
      BY <1>s, <2>7, LaunchOneLeaves DEF LaunchOK, LaunchOneDeviceKernel
    <3>4. \A r \in Queue : r # q => m_operations'[r] = m_operations[r]
      BY <2>7, <3>2 DEF LaunchOneDeviceKernel, Queued, QueuesOK
    <3>5. \A r \in Queue, e \in Op : In(r, e)' => In(r, e) \/ r = q
      BY <3>4 DEF In
    <3>6. q # ZERO <=> ~load.blocking
      BY <3>2
    <3> QED BY <3>2, <3>3, <3>5, <3>6 DEF SimLeaves
  <2> QED BY <1>s, <2>2, <2>3, <2>4, <2>5, <2>6, <2>7 DEF SimStep
<1>2. TargetZeroOK'
  BY <1>1, <1>f DEF ZeroOK, TargetZeroOK, Everywhere, CurrentCall
<1>3. PlaceOK'
  BY <1>1, <1>s DEF ZeroOK, PlaceOK
<1>4. \A q \in Queue, h \in Host : Has(q, h)' => Has(q, h)
  BY <1>1 DEF Has
<1>5. AloneOK'
  <2> SUFFICES ASSUME ~load.blocking, NEW h \in Host
               PROVE  /\ ToZero(h)' => \A q \in Stream, g \in Host : ~Has(q, g)'
                      /\ Has(ZERO, h)' => (at[h] = "drain" /\ Head(targets[h]) = ZERO)'
    BY <1>s DEF AloneOK
  <2>1. ToZero(h)' <=> ToZero(h)
    BY <1>1 DEF ToZero
  <2> QED BY <1>1, <1>4, <1>z, <2>1 DEF ZeroOK, AloneOK
<1> QED BY <1>2, <1>3, <1>5

LEMMA ZeroInductive ==
  ASSUME Untangled, TidyPrograms, SoleUserOfZero, Queued, LaunchOK, Walked, ZeroOK, [Next]_vars
  PROVE  ZeroOK'
<1>1. ASSUME NEW h \in Host, HostThread(h)
      PROVE  ZeroOK'
  <2>1. HostStep(h) /\ load' = load /\ Next
    BY <1>1 DEF HostThread, Next
  <2> QED BY <2>1, ListKept, HostToZero, HostAlone DEF ZeroOK
<1>2. CASE SimThread
  <2>1. Next
    BY <1>2 DEF Next
  <2> QED BY <1>2, <2>1, ListKept, SimAlone DEF ZeroOK
<1>3. CASE UNCHANGED vars
  <2>1. UNCHANGED <<load, m_streams, m_operations, at, calls, targets>>
    BY <1>3 DEF vars, queues, hosts
  <2>2. Program' = Program
    BY <2>1, LoadFixed
  <2>3. ListOK' /\ TargetZeroOK'
    BY <2>1, <2>2 DEF ZeroOK, ListOK, TargetZeroOK, Everywhere, CurrentCall
  <2>4. PlaceOK' /\ AloneOK'
    BY <2>1 DEF ZeroOK, PlaceOK, AloneOK, ToZero, Has, In
  <2> QED BY <2>3, <2>4 DEF ZeroOK
<1> QED BY <1>1, <1>2, <1>3 DEF Next

LEMMA ZeroInit == ASSUME Init PROVE ZeroOK
<1>1. /\ m_streams = << >> /\ m_operations = [q \in Queue |-> << >>] /\ at = [h \in Host |-> "call"]
  BY DEF Init
<1>2. \A i : i \notin 1 .. Len(<< >>)
  OBVIOUS
<1>3. \A q \in Queue, e \in Op : ~In(q, e)
  BY <1>1, <1>2 DEF In
<1>4. ListOK /\ TargetZeroOK /\ PlaceOK
  BY <1>1, <1>2, <1>3 DEF ListOK, TargetZeroOK, PlaceOK, Pushing
<1>5. AloneOK
  BY <1>1, <1>3, RuntimeAssumption DEF AloneOK, ToZero, Has, Queue
<1> QED BY <1>4, <1>5 DEF ZeroOK

\* A kernel that a kernel has launched keeps the queue of its parent busy, so nothing is left in
\* the other streams when stream zero can be served.
LEMMA ZeroServed ==
  ASSUME Queued, Walked, ZeroOK, Serviceable(ZERO)
  PROVE  ConcurrentStreamsEmpty
<1>z. ZERO \in Queue /\ Stream = Queue \ {ZERO}
  BY RuntimeAssumption DEF Queue
<1>h. ASSUME NEW q \in Queue, m_operations[q] # << >>
      PROVE  \E e \in Op : In(q, e) /\ e = m_operations[q][1] /\ 1 \in 1 .. Len(m_operations[q])
  <2>1. m_operations[q] \in Seq(Op)
    BY DEF Queued, QueuesOK
  <2>2. 1 \in 1 .. Len(m_operations[q]) /\ m_operations[q][1] \in Op
    BY <1>h, <2>1
  <2> QED BY <2>2 DEF In
<1> SUFFICES ASSUME NEW i \in 1 .. Len(m_streams), NEW q, q = m_streams[i], m_operations[q] # << >>
             PROVE  FALSE
  BY DEF ConcurrentStreamsEmpty
<1>q. q \in Stream /\ q \in Queue
  <2>1. m_streams \in Seq(Queue) /\ q # ZERO
    BY DEF ZeroOK, ListOK, Queued, QueuesOK
  <2> QED BY <1>z, <2>1
<1>1. PICK e \in Op : In(q, e) /\ e = m_operations[q][1] /\ 1 \in 1 .. Len(m_operations[q])
  BY <1>h, <1>q
<1>2. ~load.blocking
  BY <1>1, <1>q, <1>z DEF ZeroOK, PlaceOK
<1>3. PICK h \in Host : ToZero(h)
  <2>1. PICK o \in Op : In(ZERO, o)
    BY <1>h, <1>z DEF Serviceable
  <2>2. o.id[1] \in Host
    BY <1>2, <1>z, <2>1 DEF ZeroOK, PlaceOK
  <2>3. Has(ZERO, o.id[1])
    BY <2>1 DEF Has
  <2> QED BY <1>2, <2>2, <2>3 DEF ZeroOK, AloneOK, ToZero
<1>4. \A r \in Stream, g \in Host : ~Has(r, g)
  BY <1>2, <1>3 DEF ZeroOK, AloneOK
<1>5. e.id[1] \notin Host
  BY <1>1, <1>4, <1>q DEF Has
<1>6. e.id \in OpId /\ KernelOp(q, 1, e.id)
  BY <1>1, <1>5, <1>q DEF Walked, KindsOK, KernelOp, Op
<1>7. e.id \in DeviceKernel
  <2>1. Pushed(e.id)
    BY <1>6, <1>q DEF Queued, OpsOK
  <2>2. e.id \notin HostKernel
    <3>1. \A k \in HostKernel : k[1] \in Host
      BY Kernels DEF Queued
    <3> QED BY <1>5, <3>1
  <2> QED BY <2>1, <2>2 DEF Pushed, Queued, GpuOK
<1> DEFINE p == Parent(e.id)
<1>8. e.id \in m_child_kernels[p] /\ p \in HostKernel /\ p \in Kernel /\ p[1] \in Host
  BY <1>6, <1>7, <1>q, Kernels DEF Walked, ChildrenOK, Kernel, Queued
<1>9. PICK r \in Queue : Owns(p, r)
  BY <1>8 DEF Queued, OwnersOK, Owner
<1>10. r # ZERO
  BY <1>9 DEF Owns, Serviceable
<1>11. m_operations[r] # << >> /\ m_operations[r][1].id = p
  <2>1. 1 .. Len(<< >>) = {}
    OBVIOUS
  <2> QED BY <1>9, <2>1 DEF Owns, KernelOp
<1>12. Has(r, p[1])
  BY <1>h, <1>11 DEF Has
<1> QED BY <1>4, <1>8, <1>10, <1>12, <1>z

\* An operation of stream zero is taken up only when no other stream has an operation left,
\* with kernels that launch others into the streams of their CTAs too, when the host that
\* submits to stream zero is the only one that submits; with two hosts the property fails.
THEOREM ZeroAlone ==
  ASSUME Untangled, TidyPrograms, SoleUserOfZero PROVE Spec => ZeroStartsAlone
<1> DEFINE Inv == Queued /\ LaunchOK /\ Walked /\ ZeroOK
           Alone == (sim = "front" /\ sim' # "front" /\ Serviceable(ZERO)) => ConcurrentStreamsEmpty
<1>1. Init => Inv
  BY QueuedInit, WalkedInit, ZeroInit
<1>2. Inv /\ [Next]_vars => Inv'
  BY QueuedInductive, WalkedInductive, ZeroInductive
<1>3. Inv /\ [Next]_vars => [Alone]_vars
  BY ZeroServed
<1>4. [][Alone]_vars => ZeroStartsAlone
  BY DEF ZeroStartsAlone
<1> HIDE DEF Inv, Alone
<1> QED BY <1>1, <1>2, <1>3, <1>4, PTL DEF Spec

===============================================================================
