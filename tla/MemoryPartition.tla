---------------------------- MODULE MemoryPartition ----------------------------
(***************************************************************************)
(* A memory partition (l2cache.cc): sub-partitions with an L2 cache each,  *)
(* which share one DRAM channel (dram.cc) with its FR-FCFS scheduler       *)
(* (dram_sched.cc).  Requests come from the interconnect and pass through  *)
(* a chain of bounded queues; a credit scheme limits what each             *)
(* sub-partition has in the DRAM.                                          *)
(*                                                                         *)
(* One action is one stage of cache_cycle, dram_cycle or dram_t::cycle and *)
(* moves one request from a queue to the next.  Which stages move in a     *)
(* cycle depends on latencies and timing constraints, which are left open. *)
(***************************************************************************)
EXTENDS Integers, Sequences, FiniteSets, FiniteSetsExt, Functions, Folding

CONSTANTS
  NSub,          \* m_n_sub_partition_per_memory_channel
  NBank,         \* nbk
  Row,           \* the rows of a bank
  IcntL2Size, L2DramSize, DramL2Size, L2IcntSize,   \* the queues of a sub-partition
  MissSize,      \* m_miss_queue_size of the L2 cache
  SectorChunk,   \* SECTOR_CHUNCK_SIZE: the most requests that one packet carries
  SchedSize,     \* gpgpu_frfcfs_dram_sched_queue_size
  WriteSize, High, Low,   \* gpgpu_frfcfs_dram_write_queue_size and its watermarks
  RwSize,        \* rwq
  ReturnSize,    \* gpgpu_dram_return_queue_size
  Configs,       \* [l2, split, simple]: is the L2 on, are there separate write
                 \*   queues, is the simple DRAM model used
  Workloads      \* what arrives: for each sub-partition a sequence of packets, and
                 \*   the dirty lines that its L2 cache may write back

ASSUME SizesAssumption ==
  /\ {NSub, NBank, IcntL2Size, L2DramSize, DramL2Size, L2IcntSize, MissSize, SectorChunk,
      SchedSize, WriteSize, High, RwSize, ReturnSize} \subseteq Nat \ {0}
  /\ Low \in Nat /\ Low <= High /\ High <= WriteSize
  /\ NSub <= SchedSize + ReturnSize

Sub == 0 .. NSub - 1
Bank == 0 .. NBank - 1
None == 0                       \* no row, no request
Mode == {"READ", "WRITE"}       \* memory_mode, and the queues it selects

\* The requests whose address belongs to sub-partition s.
Kind == {"read", "texture", "write", "l1_wrbk", "l2_wrbk"}
OfSub(s) == [id : Nat, kind : Kind, sp : {s}, bank : Bank, row : Row]
Request == [id : Nat, kind : Kind, sp : Sub, bank : Bank, row : Row]

\* The interconnect delivers a packet to the sub-partition of its address.
ASSUME WorkloadsAssumption ==
  \A w \in Workloads, s \in Sub :
    /\ w.packets \in [Sub -> Seq(Seq(Request))] /\ w.dirty \in [Sub -> SUBSET Request]
    /\ w.packets[s] \in Seq({q \in Seq(OfSub(s)) : Len(q) <= SectorChunk})
    /\ w.dirty[s] \subseteq OfSub(s)

\* Each request is a mem_fetch of its own, and the L2 creates its write-backs itself.
ASSUME DistinctAssumption ==
  \A w \in Workloads, s \in Sub :
    /\ \A i, k \in DOMAIN w.packets[s] :
         \A j \in DOMAIN w.packets[s][i], l \in DOMAIN w.packets[s][k] :
           w.packets[s][i][j] = w.packets[s][k][l] => i = k /\ j = l
    /\ \A i \in DOMAIN w.packets[s] : \A r \in Range(w.packets[s][i]) : r.kind # "l2_wrbk"
    /\ \A r \in w.dirty[s] : r.kind = "l2_wrbk"

VARIABLES
  cfg,
  todo,            \* packets in the output buffers of the interconnect
  rop,             \* m_rop
  icnt_L2,         \* m_icnt_L2_queue
  L2_dram,         \* m_L2_dram_queue
  dram_L2,         \* m_dram_L2_queue
  L2_icnt,         \* m_L2_icnt_queue
  tracker,         \* m_request_tracker
  dirty,           \* lines the L2 cache may still have to write back
  miss_queue,      \* the L2 cache: m_miss_queue,
  mshr,            \*   requests waiting for the fill of a fetch,
  ready,           \*   requests whose data has arrived
  private_credit, shared_credit, last_borrower,   \* m_arbitration_metadata
  latency,         \* m_dram_latency_queue
  queue,           \* m_queue and m_write_queue: of each mode and bank, oldest first
  last_row,        \* m_last_row and m_last_write_row
  mode, prio,      \* m_mode of the scheduler, dram_t::prio
  mrq, curr_row,   \* bank_t
  rwq, returnq,    \* dram_t
  answered         \* replies sent to the interconnect

l2vars == <<dirty, miss_queue, mshr, ready>>
subvars == <<todo, rop, icnt_L2, L2_icnt, tracker, l2vars, answered>>
credits == <<private_credit, shared_credit, last_borrower>>
sched == <<queue, last_row, mode, prio>>
banks == <<mrq, curr_row, rwq>>
vars == <<cfg, subvars, L2_dram, dram_L2, credits, latency, sched, banks, returnq>>

Init ==
  /\ cfg \in Configs
  /\ \E w \in Workloads : todo = w.packets /\ dirty = w.dirty
  /\ rop = [s \in Sub |-> << >>] /\ icnt_L2 = [s \in Sub |-> << >>]
  /\ L2_dram = [s \in Sub |-> << >>] /\ dram_L2 = [s \in Sub |-> << >>]
  /\ L2_icnt = [s \in Sub |-> << >>] /\ tracker = [s \in Sub |-> {}]
  /\ miss_queue = [s \in Sub |-> << >>] /\ ready = [s \in Sub |-> << >>]
  /\ mshr = [s \in Sub |-> {}]
  /\ private_credit = [s \in Sub |-> 0] /\ shared_credit = 0
  /\ last_borrower = NSub - 1
  /\ latency = << >>
  /\ queue = [m \in Mode |-> [b \in Bank |-> << >>]]
  /\ last_row = [m \in Mode |-> [b \in Bank |-> None]]
  /\ mode = "READ" /\ prio = 0
  /\ mrq = [b \in Bank |-> << >>] /\ curr_row = [b \in Bank |-> None]
  /\ rwq = << >> /\ returnq = << >>
  /\ answered = << >>

IsWrite(r) == r.kind \in {"write", "l1_wrbk", "l2_wrbk"}
IsWriteBack(r) == r.kind \in {"l1_wrbk", "l2_wrbk"}

-------------------------------------------------------------------------------
(* The sub-partition: memory_sub_partition::push, cache_cycle and pop. *)

\* full(SECTOR_CHUNCK_SIZE)
Full(s) == Len(icnt_L2[s]) + SectorChunk - 1 >= IcntL2Size

\* A packet arrives, broken up into requests for sectors.  Texture requests
\* overtake the others, which are delayed in m_rop.
PushPacket(s) ==
  LET reqs == Head(todo[s])
      direct == {r \in Range(reqs) : r.kind = "texture"}
      delayed == {r \in Range(reqs) : r.kind # "texture"}
  IN
  /\ todo[s] # << >>
  /\ ~Full(s)
  /\ todo' = [todo EXCEPT ![s] = Tail(@)]
  /\ tracker' = [tracker EXCEPT ![s] = @ \cup Range(reqs)]
  /\ icnt_L2' = [icnt_L2 EXCEPT ![s] = @ \o Only(reqs, direct)]
  /\ rop' = [rop EXCEPT ![s] = @ \o Only(reqs, delayed)]
  /\ UNCHANGED <<cfg, L2_icnt, l2vars, answered, L2_dram, dram_L2, credits, latency,
                 sched, banks, returnq>>

RopToL2(s) ==
  /\ rop[s] # << >>
  /\ Len(icnt_L2[s]) < IcntL2Size
  /\ rop' = [rop EXCEPT ![s] = Tail(@)]
  /\ icnt_L2' = [icnt_L2 EXCEPT ![s] = Append(@, Head(rop[s]))]
  /\ UNCHANGED <<cfg, todo, L2_icnt, tracker, l2vars, answered, L2_dram, dram_L2, credits,
                 latency, sched, banks, returnq>>

CanAccess(s) == icnt_L2[s] # << >> /\ Len(L2_dram[s]) < L2DramSize

\* Without L2 cache the request goes to the DRAM.
BypassL2(s) ==
  /\ ~cfg.l2 /\ CanAccess(s)
  /\ icnt_L2' = [icnt_L2 EXCEPT ![s] = Tail(@)]
  /\ L2_dram' = [L2_dram EXCEPT ![s] = Append(@, Head(icnt_L2[s]))]
  /\ UNCHANGED <<cfg, todo, rop, L2_icnt, tracker, l2vars, answered, dram_L2, credits,
                 latency, sched, banks, returnq>>

CanProbe(s) == cfg.l2 /\ CanAccess(s) /\ Len(L2_icnt[s]) < L2IcntSize

\* The request is answered at once: it hits, or it is a write that allocates a
\* line; then a dirty line may have to leave the cache.  A write-back of the L1
\* cache is not answered.
L2Answers(s, victim) ==
  LET r == Head(icnt_L2[s]) IN
  /\ CanProbe(s)
  /\ victim # << >> => IsWrite(r) /\ Len(miss_queue[s]) < MissSize
  /\ icnt_L2' = [icnt_L2 EXCEPT ![s] = Tail(@)]
  /\ IF r.kind = "l1_wrbk"
       THEN tracker' = [tracker EXCEPT ![s] = @ \ {r}] /\ UNCHANGED L2_icnt
       ELSE L2_icnt' = [L2_icnt EXCEPT ![s] = Append(@, r)] /\ UNCHANGED tracker
  /\ dirty' = [dirty EXCEPT ![s] = @ \ Range(victim)]
  /\ miss_queue' = [miss_queue EXCEPT ![s] = @ \o victim]
  /\ UNCHANGED <<cfg, todo, rop, mshr, ready, answered, L2_dram, dram_L2, credits,
                 latency, sched, banks, returnq>>

\* A read misses: it is sent on, and a dirty line may have to leave the cache.
L2Misses(s, victim) ==
  LET r == Head(icnt_L2[s]) IN
  /\ CanProbe(s)
  /\ ~IsWrite(r) /\ Len(miss_queue[s]) + 1 < MissSize
  /\ icnt_L2' = [icnt_L2 EXCEPT ![s] = Tail(@)]
  /\ mshr' = [mshr EXCEPT ![s] = @ \cup {<<r>>}]
  /\ dirty' = [dirty EXCEPT ![s] = @ \ Range(victim)]
  /\ miss_queue' = [miss_queue EXCEPT ![s] = Append(@, r) \o victim]
  /\ UNCHANGED <<cfg, todo, rop, L2_icnt, tracker, ready, answered, L2_dram, dram_L2,
                 credits, latency, sched, banks, returnq>>

\* A read waits for the fetch that another one has caused.
L2Merges(s, entry) ==
  LET r == Head(icnt_L2[s]) IN
  /\ CanProbe(s)
  /\ ~IsWrite(r) /\ entry \in mshr[s]
  /\ icnt_L2' = [icnt_L2 EXCEPT ![s] = Tail(@)]
  /\ mshr' = [mshr EXCEPT ![s] = (@ \ {entry}) \cup {Append(entry, r)}]
  /\ UNCHANGED <<cfg, todo, rop, L2_icnt, tracker, dirty, miss_queue, ready, answered,
                 L2_dram, dram_L2, credits, latency, sched, banks, returnq>>

\* baseline_cache::cycle: the next miss or write-back leaves the cache.
L2Cycle(s) ==
  /\ miss_queue[s] # << >>
  /\ Len(L2_dram[s]) < L2DramSize
  /\ miss_queue' = [miss_queue EXCEPT ![s] = Tail(@)]
  /\ L2_dram' = [L2_dram EXCEPT ![s] = Append(@, Head(miss_queue[s]))]
  /\ UNCHANGED <<cfg, todo, rop, icnt_L2, L2_icnt, tracker, dirty, mshr, ready, answered,
                 dram_L2, credits, latency, sched, banks, returnq>>

Waiters(s) == {entry \in mshr[s] : Head(entry) = Head(dram_L2[s])}

\* What comes from the DRAM fills the L2 cache, if that waits for it, and goes on to
\* the interconnect if not.
FromDram(s) ==
  /\ dram_L2[s] # << >>
  /\ dram_L2' = [dram_L2 EXCEPT ![s] = Tail(@)]
  /\ \/ \E entry \in Waiters(s) :
          /\ mshr' = [mshr EXCEPT ![s] = @ \ {entry}]
          /\ ready' = [ready EXCEPT ![s] = @ \o entry]
          /\ UNCHANGED L2_icnt
     \/ /\ Waiters(s) = {} /\ Len(L2_icnt[s]) < L2IcntSize
        /\ L2_icnt' = [L2_icnt EXCEPT ![s] = Append(@, Head(dram_L2[s]))]
        /\ UNCHANGED <<mshr, ready>>
  /\ UNCHANGED <<cfg, todo, rop, icnt_L2, tracker, dirty, miss_queue, answered, L2_dram,
                 credits, latency, sched, banks, returnq>>

ReadyToIcnt(s) ==
  /\ ready[s] # << >> /\ Len(L2_icnt[s]) < L2IcntSize
  /\ ready' = [ready EXCEPT ![s] = Tail(@)]
  /\ L2_icnt' = [L2_icnt EXCEPT ![s] = Append(@, Head(ready[s]))]
  /\ UNCHANGED <<cfg, todo, rop, icnt_L2, tracker, dirty, miss_queue, mshr, answered,
                 L2_dram, dram_L2, credits, latency, sched, banks, returnq>>

\* gpgpu_sim::cycle: the interconnect takes an answer, unless it is congested.
PopReply(s) ==
  LET r == Head(L2_icnt[s]) IN
  /\ L2_icnt[s] # << >>
  /\ L2_icnt' = [L2_icnt EXCEPT ![s] = Tail(@)]
  /\ tracker' = [tracker EXCEPT ![s] = @ \ {r}]
  /\ answered' = Append(answered, r)
  /\ UNCHANGED <<cfg, todo, rop, icnt_L2, l2vars, L2_dram, dram_L2, credits, latency,
                 sched, banks, returnq>>

-------------------------------------------------------------------------------
(* The arbitration between the sub-partitions: arbitration_metadata. *)

private_limit == 1

shared_limit ==
  SchedSize + ReturnSize - (NSub - 1) + IF cfg.split THEN WriteSize ELSE 0

HasCredits(s) ==
  private_credit[s] < private_limit \/ shared_limit = 0 \/ shared_credit < shared_limit

BorrowCredit(s) ==
  /\ last_borrower' = s
  /\ IF private_credit[s] < private_limit
       THEN private_credit' = [private_credit EXCEPT ![s] = @ + 1] /\ UNCHANGED shared_credit
       ELSE shared_credit' = shared_credit + 1 /\ UNCHANGED private_credit

ReturnCredit_SharedFirst(s) ==
  /\ IF shared_credit > 0
       THEN shared_credit' = shared_credit - 1 /\ UNCHANGED private_credit
       ELSE private_credit' = [private_credit EXCEPT ![s] = @ - 1] /\ UNCHANGED shared_credit
  /\ UNCHANGED last_borrower

ReturnCredit(s) ==
  /\ IF private_credit[s] > 0
       THEN private_credit' = [private_credit EXCEPT ![s] = @ - 1] /\ UNCHANGED shared_credit
       ELSE shared_credit' = shared_credit - 1 /\ UNCHANGED private_credit
  /\ UNCHANGED last_borrower

CanIssueToDram(s) ==
  L2_dram[s] # << >> /\ Len(dram_L2[s]) < DramL2Size /\ HasCredits(s)

QueueOf(r) == IF cfg.split /\ IsWrite(r) THEN "WRITE" ELSE "READ"

Pending(m) == SumFunctionOnSet([b \in Bank |-> Len(queue[m][b])], Bank)

DramFull(r) == Pending(QueueOf(r)) >= IF QueueOf(r) = "WRITE" THEN WriteSize ELSE SchedSize

\* The distance of sub-partition s from the one after the last borrower.
Turn(s) == (s + NSub - last_borrower - 1) % NSub

\* The first sub-partition in turn that can issue does so, unless its request
\* finds the DRAM full: then nobody does.
IssueToDram(s) ==
  LET r == Head(L2_dram[s]) IN
  /\ CanIssueToDram(s)
  /\ \A o \in Sub : CanIssueToDram(o) => Turn(s) <= Turn(o)
  /\ ~DramFull(r)
  /\ L2_dram' = [L2_dram EXCEPT ![s] = Tail(@)]
  /\ latency' = Append(latency, r)
  /\ BorrowCredit(s)
  /\ UNCHANGED <<cfg, subvars, dram_L2, sched, banks, returnq>>

SetDone_StillTracked(r) == ReturnCredit(r.sp) /\ UNCHANGED tracker

\* memory_partition_unit::set_done: a write-back is over.
SetDone(r) ==
  /\ ReturnCredit(r.sp)
  /\ tracker' = [tracker EXCEPT ![r.sp] = @ \ {r}]

\* A request that is answered goes back to its sub-partition, when there is room.
BackToSub(r) ==
  /\ Len(dram_L2[r.sp]) < DramL2Size
  /\ dram_L2' = [dram_L2 EXCEPT ![r.sp] = Append(@, r)]
  /\ ReturnCredit(r.sp)

\* simple_dram_model_cycle: the DRAM is a delay.
SimpleReturn ==
  LET r == Head(latency) IN
  /\ cfg.simple /\ latency # << >>
  /\ latency' = Tail(latency)
  /\ \/ IsWriteBack(r) /\ SetDone(r) /\ UNCHANGED dram_L2
     \/ ~IsWriteBack(r) /\ BackToSub(r) /\ UNCHANGED tracker
  /\ UNCHANGED <<cfg, todo, rop, icnt_L2, L2_icnt, l2vars, answered, L2_dram, sched, banks,
                 returnq>>

-------------------------------------------------------------------------------
(* The DRAM: dram_t and frfcfs_scheduler. *)

\* dram_t::push, and add_req in the next cycle before anybody asks whether the
\* DRAM is full.
DramPush ==
  LET r == Head(latency) IN
  /\ ~cfg.simple /\ latency # << >>
  /\ ~DramFull(r)
  /\ latency' = Tail(latency)
  /\ queue' = [queue EXCEPT ![QueueOf(r)][r.bank] = Append(@, r)]
  /\ UNCHANGED <<cfg, subvars, L2_dram, dram_L2, credits, last_row, mode, prio, banks, returnq>>

NewMode_NeverBack ==
  IF cfg.split /\ Pending("WRITE") >= High THEN "WRITE" ELSE mode

NewMode ==
  CASE cfg.split /\ mode = "READ" /\ Pending("WRITE") >= High -> "WRITE"
    [] cfg.split /\ mode = "WRITE" /\ Pending("WRITE") < Low -> "READ"
    [] OTHER -> mode

InRow(q, row) == {i \in DOMAIN q : q[i].row = row}

\* The row that the scheduler serves in a bank: the one it is at as long as
\* requests for it are left, else the open row, else the one of the oldest request.
RowToServe(m, b) ==
  LET q == queue[m][b] IN
  IF last_row[m][b] # None THEN last_row[m][b]
  ELSE IF InRow(q, curr_row[b]) # {} THEN curr_row[b]
  ELSE Head(q).row

Schedulable(m, b) == mrq[b] = << >> /\ queue[m][b] # << >>

BankTurn(b) == (b + NBank - prio) % NBank

\* scheduler_frfcfs: the first idle bank with a request gets the oldest one of its row.
Schedule(b) ==
  LET m == NewMode
      q == queue[m][b]
      row == RowToServe(m, b)
      i == Min(InRow(q, row))
      rest == SubSeq(q, 1, i - 1) \o SubSeq(q, i + 1, Len(q))
  IN
  /\ Schedulable(m, b)
  /\ \A o \in Bank : Schedulable(m, o) => BankTurn(b) <= BankTurn(o)
  /\ mode' = m
  /\ mrq' = [mrq EXCEPT ![b] = <<q[i]>>]
  /\ queue' = [queue EXCEPT ![m][b] = rest]
  /\ last_row' = [last_row EXCEPT ![m][b] = IF InRow(rest, row) = {} THEN None ELSE row]
  /\ prio' = (prio + 1) % NBank
  /\ UNCHANGED <<cfg, subvars, L2_dram, dram_L2, credits, latency, curr_row, rwq, returnq>>

\* The mode changes also when the idle banks have nothing to do in the new one.
SwitchMode ==
  /\ \E b \in Bank : mrq[b] = << >>
  /\ NewMode # mode /\ ~ \E b \in Bank : Schedulable(NewMode, b)
  /\ mode' = NewMode
  /\ UNCHANGED <<cfg, subvars, L2_dram, dram_L2, credits, latency, queue, last_row, prio,
                 banks, returnq>>

\* The row and column commands of the request of a bank.
BankCommands(b) ==
  /\ mrq[b] # << >> /\ Len(rwq) < RwSize
  /\ rwq' = rwq \o mrq[b]
  /\ curr_row' = [curr_row EXCEPT ![b] = mrq[b][1].row]
  /\ mrq' = [mrq EXCEPT ![b] = << >>]
  /\ UNCHANGED <<cfg, subvars, L2_dram, dram_L2, credits, latency, sched, returnq>>

\* dram_t::cycle: the data of a request has been transferred.
DataDone ==
  LET r == Head(rwq) IN
  /\ rwq # << >> /\ Len(returnq) < ReturnSize
  /\ rwq' = Tail(rwq)
  /\ \/ IsWriteBack(r) /\ SetDone(r) /\ UNCHANGED returnq
     \/ ~IsWriteBack(r) /\ returnq' = Append(returnq, r) /\ UNCHANGED <<tracker, credits>>
  /\ UNCHANGED <<cfg, todo, rop, icnt_L2, L2_icnt, l2vars, answered, L2_dram, dram_L2,
                 latency, sched, mrq, curr_row>>

DramReturn ==
  /\ returnq # << >>
  /\ BackToSub(Head(returnq))
  /\ returnq' = Tail(returnq)
  /\ UNCHANGED <<cfg, subvars, L2_dram, latency, sched, banks>>

-------------------------------------------------------------------------------

L2Access(s) ==
  \/ \E v \in {<< >>} \cup {<<d>> : d \in dirty[s]} : L2Answers(s, v) \/ L2Misses(s, v)
  \/ \E entry \in mshr[s] : L2Merges(s, entry)

SubCycle(s) ==
  \/ PushPacket(s) \/ RopToL2(s) \/ BypassL2(s) \/ L2Access(s) \/ L2Cycle(s)
  \/ FromDram(s) \/ ReadyToIcnt(s) \/ PopReply(s)

Next ==
  \/ \E s \in Sub : SubCycle(s) \/ IssueToDram(s)
  \/ \E b \in Bank : Schedule(b) \/ BankCommands(b)
  \/ SimpleReturn \/ DramPush \/ SwitchMode \/ DataDone \/ DramReturn

Spec == Init /\ [][Next]_vars

\* The simulation goes on for ever and tries every stage again and again: it stops
\* moving requests only when none can move.
FairSpec == Spec /\ WF_vars(Next)

-------------------------------------------------------------------------------

AllOf(queues) == UNION {Range(queues[i]) : i \in DOMAIN queues}

\* The requests of sub-partition s that are in the DRAM.
InDram(s) ==
  {r \in Range(latency) \cup AllOf(queue["READ"]) \cup AllOf(queue["WRITE"]) \cup AllOf(mrq)
           \cup Range(rwq) \cup Range(returnq) : r.sp = s}

\* How many of the requests in S are in a queue, in the queues of the banks, in the DRAM.
Count(q, S) == Len(Only(q, S))
CountAll(queues, S) == SumOf([b \in Bank |-> Count(queues[b], S)], NBank)

CountInDram(S) ==
  Count(latency, S) + CountAll(queue["READ"], S) + CountAll(queue["WRITE"], S)
    + CountAll(mrq, S) + Count(rwq, S) + Count(returnq, S)

\* The credits that the requests of sub-partition s have from the shared pool.
SharedBy(s) == CountInDram(OfSub(s)) - private_credit[s]

(***************************************************************************)
(* Credits borrowed and credits returned match, although reads, writes and *)
(* write-backs return them in three different places and the code does not *)
(* record from which pool a request took its credit: what is out of the    *)
(* two pools is what is in the DRAM, and no sub-partition gives back more  *)
(* than it took (the assertion of return_credit).                          *)
(***************************************************************************)
CreditsConserved ==
  /\ \A s \in Sub : private_credit[s] \in 0 .. private_limit /\ SharedBy(s) >= 0
  /\ shared_credit = SumOf([s \in Sub |-> SharedBy(s)], NSub)

\* The requests in sub-partition s, in its caches and on the way to and from the DRAM.
Inside(s) ==
  Range(rop[s]) \cup Range(icnt_L2[s]) \cup Range(L2_icnt[s]) \cup Range(ready[s])
  \cup (UNION {Range(entry) : entry \in mshr[s]})
  \cup {r \in Range(L2_dram[s]) \cup Range(dram_L2[s]) \cup InDram(s) : r.kind # "l2_wrbk"}

(***************************************************************************)
(* m_request_tracker, by which the simulation decides that the memory is   *)
(* idle, holds exactly the requests that are inside: none is dropped on    *)
(* the way, forgotten at its end, answered twice or answered at another    *)
(* sub-partition.  m_icnt_L2_queue has room for every packet (the          *)
(* assertion of fifo_pipeline::push), although texture requests enter it   *)
(* besides the ones that leave m_rop.                                      *)
(***************************************************************************)
Tracked ==
  /\ \A s \in Sub : tracker[s] = Inside(s) /\ \A r \in tracker[s] : r.sp = s
  /\ \A s \in Sub : tracker[s] \cap Range(answered) = {}
  /\ Cardinality(Range(answered)) = Len(answered)
  /\ \A s \in Sub : Len(icnt_L2[s]) <= IcntL2Size

\* The memory comes to rest: every request is answered or written and nothing is
\* tracked any more, so that the simulation of a kernel can end.
Drained == <>[](\A s \in Sub : todo[s] = << >> /\ tracker[s] = {})

================================================================================
