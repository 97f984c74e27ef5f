------------------------------ MODULE WarpPipeline ------------------------------
(***************************************************************************)
(* The pipeline of a shader core (shader.cc): instruction fetch, decode    *)
(* and issue, the scoreboard (scoreboard.cc), the execution units, and the *)
(* load/store unit with what it sends to the L1D cache and the memory.     *)
(*                                                                         *)
(* A warp is done when four counters and a table that different stages     *)
(* update say so, and then its slot goes to a new warp.  The order in      *)
(* which the stages take instructions, and every latency, is left open.    *)
(* A warp stands for a CTA of its own and follows one path; SimtStack and  *)
(* BarrierSet model divergence and barriers, DataCache the L1D cache.      *)
(***************************************************************************)
EXTENDS Integers, Sequences, FiniteSets, Functions

CONSTANTS
  NWarp,         \* max_warps_per_shader
  Reg,           \* registers
  AluSize,       \* instructions in the arithmetic units
  OcSize,        \* instructions in the operand collector on the way to the ldst unit
  L1QSize,       \* places of l1_latency_queue
  NetSize,       \* requests that the interconnect and the memory hold
  ResponseSize,  \* ldst_unit_response_queue_size
  Scenarios      \* [skip, latency, programs]: gmem_skip_L1D, is l1_latency > 0, and a
                 \*   sequence of programs, each of which is run by a warp of its own

ASSUME SizesAssumption ==
  /\ {NWarp, AluSize, OcSize, L1QSize, NetSize, ResponseSize} \subseteq Nat \ {0}
  /\ \A s \in Scenarios : {s.skip, s.latency} \subseteq BOOLEAN

Warp == 0 .. NWarp - 1
None == 0      \* no register, no fetch outstanding

\* The instructions: "alu", "jump" and "exit"; "shared", a read of shared memory; "load",
\* "nc" (ld.global.nc), "atomic" and "store", which access n lines from line on; "membar".
\* What reads the memory has a destination (atom has, and red is not implemented), stores
\* and barriers have none.
Op == {"alu", "jump", "exit", "shared", "load", "nc", "atomic", "store", "membar"}

Inst ==
  {r \in [op : Op, out : Reg \cup {None}, in : SUBSET Reg, n : Nat, line : Nat, target : Nat] :
     /\ r.op \in {"shared", "load", "nc", "atomic"} => r.out # None
     /\ r.op \in {"store", "membar"} => r.out = None
     /\ r.op \in {"shared", "membar"} => r.n = 0}

\* The path of a warp, its loops unrolled: a jump leaves out what follows it on the path
\* and is fetched with it, and the path ends with the exit of the warp.
Programs ==
  {p \in Seq(Inst) :
     /\ p # << >> /\ p[Len(p)].op = "exit"
     /\ \A i \in 1 .. Len(p) : p[i].op = "jump" => i < p[i].target /\ p[i].target <= Len(p)}

ASSUME ScenariosAssumption == \A s \in Scenarios : s.programs \in Seq(Programs)

VARIABLES
  cfg,                      \* the scenario
  launches,                 \* programs that wait for a slot
  prog, gen,                \* of each slot: what it runs, and how many warps it has had
  pc,                       \* the top of the SIMT stack
  next_pc, ibuffer, imiss,  \* shd_warp_t; imiss holds the address that is fetched
  fetched,                  \* m_inst_fetch_buffer
  completed, done_exit,     \* functional_done() and m_done_exit
  membar, n_atomic, stores, in_pipe,   \* m_membar, m_n_atomic, m_stores_outstanding,
                                       \*   m_inst_in_pipeline
  regs,                     \* reg_table
  pending,                  \* m_pending_writes
  alu, oc,                  \* instructions before the execution units and in them
  dispatch,                 \* m_dispatch_reg: an instruction and its accesses to send
  smem,                     \* m_pipeline_reg[0] of the ldst unit
  l1q, mshr, l1ready,       \* the L1D cache: accesses on the way to it, waiting, answered
  memory,                   \* requests that have left the core
  response, next_global, next_wb   \* m_response_fifo, m_next_global, m_next_wb

slots == <<prog, gen>>
front == <<next_pc, ibuffer, imiss, fetched>>
counters == <<membar, n_atomic, stores, in_pipe>>
board == <<regs, pending>>
units == <<alu, oc, dispatch, smem>>
l1vars == <<l1q, mshr, l1ready>>
replies == <<memory, response, next_global, next_wb>>
vars == <<cfg, launches, slots, pc, front, completed, done_exit, counters, board, units,
          l1vars, replies>>

Init ==
  /\ cfg \in Scenarios /\ launches = cfg.programs
  /\ prog = [w \in Warp |-> << >>] /\ gen = [w \in Warp |-> 0]
  /\ pc = [w \in Warp |-> 1] /\ next_pc = [w \in Warp |-> 1]
  /\ ibuffer = [w \in Warp |-> << >>] /\ imiss = [w \in Warp |-> None]
  /\ fetched = << >>
  /\ completed = [w \in Warp |-> TRUE] /\ done_exit = [w \in Warp |-> TRUE]
  /\ membar = [w \in Warp |-> FALSE]
  /\ n_atomic = [w \in Warp |-> 0] /\ stores = [w \in Warp |-> 0]
  /\ in_pipe = [w \in Warp |-> 0]
  /\ regs = [w \in Warp |-> {}] /\ pending = [w \in Warp |-> [r \in Reg |-> 0]]
  /\ alu = {} /\ oc = {} /\ dispatch = << >> /\ smem = << >>
  /\ l1q = << >> /\ mshr = {} /\ l1ready = << >>
  /\ memory = {} /\ response = << >> /\ next_global = << >> /\ next_wb = << >>

IsLoad(x) == x.inst.op \in {"load", "nc", "atomic"}     \* is_load(), not of shared memory
IsStore(x) == x.inst.op = "store"

\* The registers of an instruction: None is register 0.
Outs(inst) == {inst.out} \ {None}

-------------------------------------------------------------------------------
(* A warp gets a slot and leaves it. *)

\* reinit and init_warps: the first free slot gets the next warp.
Launch(w) ==
  /\ launches # << >>
  /\ done_exit[w] /\ \A v \in 0 .. w - 1 : ~done_exit[v]
  /\ launches' = Tail(launches)
  /\ prog' = [prog EXCEPT ![w] = Head(launches)]
  /\ gen' = [gen EXCEPT ![w] = @ + 1]
  /\ pc' = [pc EXCEPT ![w] = 1] /\ next_pc' = [next_pc EXCEPT ![w] = 1]
  /\ completed' = [completed EXCEPT ![w] = FALSE]
  /\ done_exit' = [done_exit EXCEPT ![w] = FALSE]
  /\ membar' = [membar EXCEPT ![w] = FALSE] /\ n_atomic' = [n_atomic EXCEPT ![w] = 0]
  /\ imiss' = [imiss EXCEPT ![w] = None]
  /\ UNCHANGED <<cfg, ibuffer, fetched, stores, in_pipe, board, units, l1vars, replies>>

HardwareDone(w) == completed[w] /\ stores[w] = 0 /\ in_pipe[w] = 0

WarpExits_RegistersPending(w) ==
  /\ HardwareDone(w) /\ ~done_exit[w]
  /\ done_exit' = [done_exit EXCEPT ![w] = TRUE]
  /\ UNCHANGED <<cfg, launches, slots, pc, front, completed, counters, board, units,
                 l1vars, replies>>

\* fetch: the exit of a warp, once no register of it is reserved.
WarpExits(w) ==
  /\ HardwareDone(w) /\ regs[w] = {} /\ ~done_exit[w]
  /\ done_exit' = [done_exit EXCEPT ![w] = TRUE]
  /\ UNCHANGED <<cfg, launches, slots, pc, front, completed, counters, board, units,
                 l1vars, replies>>

-------------------------------------------------------------------------------
(* Fetch and decode. *)

CanFetch(w) ==
  fetched = << >> /\ ~completed[w] /\ imiss[w] = None /\ ibuffer[w] = << >>

\* The access of the instruction cache hits or misses.
Fetch(w) ==
  /\ CanFetch(w)
  /\ \/ fetched' = <<w, next_pc[w]>> /\ UNCHANGED imiss
     \/ imiss' = [imiss EXCEPT ![w] = next_pc[w]] /\ UNCHANGED fetched
  /\ UNCHANGED <<cfg, launches, slots, pc, next_pc, ibuffer, completed, done_exit, counters,
                 board, units, l1vars, replies>>

\* An instruction miss is served; the code takes the address from the warp.
FetchReturns(w) ==
  /\ fetched = << >> /\ imiss[w] # None
  /\ fetched' = <<w, next_pc[w]>>
  /\ imiss' = [imiss EXCEPT ![w] = None]
  /\ UNCHANGED <<cfg, launches, slots, pc, next_pc, ibuffer, completed, done_exit, counters,
                 board, units, l1vars, replies>>

\* decode: a second instruction is filled in, if there is one.
Decode ==
  LET w == fetched[1]
      p == fetched[2]
      insts == IF p + 1 <= Len(prog[w]) THEN <<p, p + 1>> ELSE <<p>>
  IN
  /\ fetched # << >>
  /\ fetched' = << >>
  /\ ibuffer' = [ibuffer EXCEPT ![w] = insts]
  /\ in_pipe' = [in_pipe EXCEPT ![w] = @ + Len(insts)]
  /\ UNCHANGED <<cfg, launches, slots, pc, next_pc, imiss, completed, done_exit, membar,
                 n_atomic, stores, board, units, l1vars, replies>>

-------------------------------------------------------------------------------
(* Issue: scheduler_unit::cycle and issue_warp. *)

\* shd_warp_t::waiting
Waiting(w) == completed[w] \/ membar[w] \/ n_atomic[w] > 0

MembarDone_PipelineEmpty(w) ==
  /\ ~completed[w] /\ membar[w] /\ regs[w] = {} /\ in_pipe[w] = 0
  /\ membar' = [membar EXCEPT ![w] = FALSE]
  /\ UNCHANGED <<cfg, launches, slots, pc, front, completed, done_exit, n_atomic, stores,
                 in_pipe, board, units, l1vars, replies>>

\* warp_waiting_at_mem_barrier, which every scheduler asks in every cycle.
MembarDone(w) ==
  /\ ~completed[w] /\ membar[w] /\ regs[w] = {}
  /\ membar' = [membar EXCEPT ![w] = FALSE]
  /\ UNCHANGED <<cfg, launches, slots, pc, front, completed, done_exit, n_atomic, stores,
                 in_pipe, board, units, l1vars, replies>>

ControlHazard_CountKept(w) ==
  /\ ~Waiting(w) /\ ibuffer[w] # << >> /\ Head(ibuffer[w]) # pc[w]
  /\ next_pc' = [next_pc EXCEPT ![w] = pc[w]]
  /\ ibuffer' = [ibuffer EXCEPT ![w] = << >>]
  /\ UNCHANGED <<cfg, launches, slots, pc, imiss, fetched, completed, done_exit, counters,
                 board, units, l1vars, replies>>

\* The instruction in the buffer is not the one that comes next.
ControlHazard(w) ==
  /\ ~Waiting(w) /\ ibuffer[w] # << >> /\ Head(ibuffer[w]) # pc[w]
  /\ next_pc' = [next_pc EXCEPT ![w] = pc[w]]
  /\ in_pipe' = [in_pipe EXCEPT ![w] = @ - Len(ibuffer[w])]
  /\ ibuffer' = [ibuffer EXCEPT ![w] = << >>]
  /\ UNCHANGED <<cfg, launches, slots, pc, imiss, fetched, completed, done_exit, membar,
                 n_atomic, stores, board, units, l1vars, replies>>

\* checkCollision
Collides(w, inst) == (Outs(inst) \cup inst.in) \cap regs[w] # {}

ToMemory(inst) == inst.op \in {"shared", "load", "nc", "atomic", "store", "membar"}

\* The instruction is executed functionally here: the end of the warp empties the buffer.
Issue(w) ==
  LET inst == prog[w][pc[w]]
      x == [w |-> w, gen |-> gen[w], i |-> pc[w], inst |-> inst]
      rest == Tail(ibuffer[w])
      ends == inst.op = "exit"
  IN
  /\ ~Waiting(w) /\ ibuffer[w] # << >> /\ Head(ibuffer[w]) = pc[w]
  /\ ~Collides(w, inst)
  /\ IF ToMemory(inst)
       THEN Cardinality(oc) < OcSize /\ oc' = oc \cup {x} /\ UNCHANGED alu
       ELSE Cardinality(alu) < AluSize /\ alu' = alu \cup {x} /\ UNCHANGED oc
  /\ pc' = [pc EXCEPT ![w] = IF inst.op = "jump" THEN inst.target ELSE @ + 1]
  /\ next_pc' = [next_pc EXCEPT ![w] = pc[w] + 1]
  /\ ibuffer' = [ibuffer EXCEPT ![w] = IF ends THEN << >> ELSE rest]
  /\ in_pipe' = [in_pipe EXCEPT ![w] = @ - IF ends THEN Len(rest) ELSE 0]
  /\ completed' = [completed EXCEPT ![w] = ends]
  /\ membar' = [membar EXCEPT ![w] = inst.op = "membar"]
  /\ n_atomic' = [n_atomic EXCEPT ![w] = IF inst.op = "atomic" THEN @ + inst.n ELSE @]
  /\ regs' = [regs EXCEPT ![w] = @ \cup Outs(inst)]
  /\ UNCHANGED <<cfg, launches, slots, imiss, fetched, done_exit, stores, pending, dispatch,
                 smem, l1vars, replies>>

-------------------------------------------------------------------------------
(* Execution. *)

\* shader_core_ctx::writeback
AluWriteback(x) ==
  /\ alu' = alu \ {x}
  /\ regs' = [regs EXCEPT ![x.w] = @ \ Outs(x.inst)]
  /\ in_pipe' = [in_pipe EXCEPT ![x.w] = @ - 1]
  /\ UNCHANGED <<cfg, launches, slots, pc, front, completed, done_exit, membar, n_atomic,
                 stores, pending, oc, dispatch, smem, l1vars, replies>>

\* ldst_unit::issue
LdstIssue(x) ==
  /\ dispatch = << >>
  /\ oc' = oc \ {x}
  /\ dispatch' = <<[x |-> x, left |-> x.inst.n]>>
  /\ pending' = IF IsLoad(x)
                  THEN [pending EXCEPT ![x.w] =
                          [r \in Reg |-> @[r] + IF r \in Outs(x.inst) THEN x.inst.n ELSE 0]]
                  ELSE pending
  /\ UNCHANGED <<cfg, launches, slots, pc, front, completed, done_exit, counters, regs, alu,
                 smem, l1vars, replies>>

\* m_pending_writes without one access of instruction x, and the registers of x that
\* wait for no access any more.
OneLess(x) ==
  [pending EXCEPT ![x.w] = [r \in Reg |-> @[r] - IF r \in Outs(x.inst) THEN 1 ELSE 0]]

Arrived(x, pend) == {r \in Outs(x.inst) : pend[x.w][r] = 0}

\* The end of an instruction in the dispatch register: a load keeps the registers for
\* which accesses are pending.
Dispatched(x, pend) ==
  /\ dispatch' = << >>
  /\ in_pipe' = [in_pipe EXCEPT ![x.w] = @ - 1]
  /\ regs' = IF IsLoad(x) THEN [regs EXCEPT ![x.w] = @ \ Arrived(x, pend)] ELSE regs

\* An access has left the dispatch register; pend is m_pending_writes then.
Sent(d, pend) ==
  /\ pending' = pend
  /\ IF d.left > 1
       THEN /\ dispatch' = <<[d EXCEPT !.left = @ - 1]>>
            /\ UNCHANGED <<in_pipe, regs>>
       ELSE Dispatched(d.x, pend)

Access(d) == [w |-> d.x.w, gen |-> d.x.gen, inst |-> d.x.inst, i |-> d.x.i, k |-> d.left]

Line(a) == a.inst.line + a.k
Waiters(l) == {e \in mshr : Line(Head(e)) = l}

\* memory_cycle: what goes to the memory past the L1D cache.
Bypasses(inst) == inst.op = "atomic" \/ (cfg.skip /\ inst.op # "nc")

CountStore(a) == stores' = IF IsStore(a) THEN [stores EXCEPT ![a.w] = @ + 1] ELSE stores

SendPastL1 ==
  LET d == dispatch[1]
      a == Access(d)
  IN
  /\ dispatch # << >> /\ d.left > 0 /\ Bypasses(d.x.inst)
  /\ Cardinality(memory) < NetSize
  /\ memory' = memory \cup {a}
  /\ CountStore(a)
  /\ Sent(d, pending)
  /\ UNCHANGED <<cfg, launches, slots, pc, front, completed, done_exit, membar, n_atomic, alu,
                 oc, smem, l1vars, response, next_global, next_wb>>

ToL1 == dispatch # << >> /\ dispatch[1].left > 0 /\ ~Bypasses(dispatch[1].x.inst)
             /\ dispatch[1].x.inst.op # "shared"

\* process_memory_access_queue_l1cache, l1_latency > 0: a store counts from here on.
SendToL1Queue ==
  LET d == dispatch[1] IN
  /\ ToL1 /\ cfg.latency
  /\ Len(l1q) < L1QSize
  /\ l1q' = Append(l1q, Access(d))
  /\ CountStore(Access(d))
  /\ Sent(d, pending)
  /\ UNCHANGED <<cfg, launches, slots, pc, front, completed, done_exit, membar, n_atomic, alu,
                 oc, smem, mshr, l1ready, replies>>

\* The L1D cache sends the access on, or lets it wait for what it has sent already.
L1Misses(a) ==
  \/ /\ IsStore(a) \/ Waiters(Line(a)) = {}
     /\ Cardinality(memory) < NetSize
     /\ memory' = memory \cup {a}
     /\ mshr' = IF IsStore(a) THEN mshr ELSE mshr \cup {<<a>>}
  \/ \E e \in Waiters(Line(a)) :
       /\ IsLoad(a)
       /\ mshr' = (mshr \ {e}) \cup {Append(e, a)}
       /\ UNCHANGED memory

\* A load hits, or the cache keeps the data of a store.
L1Hits(a) == IsLoad(a) => Waiters(Line(a)) = {}

\* process_cache_access, l1_latency = 0.
AccessL1 ==
  LET d == dispatch[1]
      a == Access(d)
  IN
  /\ ToL1 /\ ~cfg.latency
  /\ \/ L1Misses(a) /\ CountStore(a) /\ Sent(d, pending)
     \/ /\ L1Hits(a) /\ Sent(d, IF IsLoad(a) THEN OneLess(a) ELSE pending)
        /\ UNCHANGED <<memory, mshr, stores>>
  /\ UNCHANGED <<cfg, launches, slots, pc, front, completed, done_exit, membar, n_atomic, alu,
                 oc, smem, l1q, l1ready, response, next_global, next_wb>>

AccessDone_FirstReleases(x) ==
  /\ pending' = OneLess(x)
  /\ regs' = [regs EXCEPT ![x.w] = @ \ Outs(x.inst)]

\* One access of x is answered; its registers that wait for no other are released.
AccessDone(x) ==
  /\ pending' = OneLess(x)
  /\ regs' = [regs EXCEPT ![x.w] = @ \ Arrived(x, OneLess(x))]

StoreAck(a) == stores' = [stores EXCEPT ![a.w] = @ - 1]

\* L1_latency_queue_cycle
L1QueueCycle ==
  LET a == Head(l1q) IN
  /\ l1q # << >>
  /\ l1q' = Tail(l1q)
  /\ \/ L1Misses(a) /\ UNCHANGED <<board, stores>>
     \/ L1Hits(a) /\ IsLoad(a) /\ AccessDone(a) /\ UNCHANGED <<memory, mshr, stores>>
     \/ L1Hits(a) /\ IsStore(a) /\ StoreAck(a) /\ UNCHANGED <<memory, mshr, board>>
  /\ UNCHANGED <<cfg, launches, slots, pc, front, completed, done_exit, membar, n_atomic,
                 in_pipe, units, l1ready, response, next_global, next_wb>>

\* ldst_unit::cycle: an instruction that sends nothing; a read of shared memory goes on.
NothingToSend ==
  LET x == dispatch[1].x IN
  /\ dispatch # << >> /\ dispatch[1].left = 0
  /\ \/ x.inst.op # "shared" /\ Dispatched(x, pending) /\ UNCHANGED smem
     \/ /\ x.inst.op = "shared" /\ smem = << >>
        /\ smem' = <<x>> /\ dispatch' = << >> /\ UNCHANGED <<in_pipe, regs>>
  /\ UNCHANGED <<cfg, launches, slots, pc, front, completed, done_exit, membar, n_atomic,
                 stores, pending, alu, oc, l1vars, replies>>

-------------------------------------------------------------------------------
(* Answers: ldst_unit::fill, cycle and writeback. *)

\* The memory answers in any order.
MemoryAnswers(a) ==
  /\ Len(response) < ResponseSize
  /\ memory' = memory \ {a}
  /\ response' = Append(response, a)
  /\ UNCHANGED <<cfg, launches, slots, pc, front, completed, done_exit, counters, board,
                 units, l1vars, next_global, next_wb>>

\* The answer of a read went past the L1D cache, as the code tells it: here ld.global.nc
\* is no exception.
AnswerBypasses(inst) == inst.op = "atomic" \/ cfg.skip

TakeResponse ==
  LET a == Head(response) IN
  /\ response # << >>
  /\ response' = Tail(response)
  /\ \/ IsStore(a) /\ StoreAck(a) /\ UNCHANGED <<mshr, l1ready, next_global>>
     \/ /\ ~IsStore(a) /\ AnswerBypasses(a.inst) /\ next_global = << >>
        /\ next_global' = <<a>>
        /\ UNCHANGED <<mshr, l1ready, stores>>
     \/ /\ ~IsStore(a) /\ ~AnswerBypasses(a.inst)
        /\ \E e \in Waiters(Line(a)) :
             mshr' = mshr \ {e} /\ l1ready' = l1ready \o e
        /\ UNCHANGED <<next_global, stores>>
  /\ UNCHANGED <<cfg, launches, slots, pc, front, completed, done_exit, membar, n_atomic,
                 in_pipe, board, units, l1q, memory, next_wb>>

\* A client gets the writeback register.
ServeClient ==
  /\ next_wb = << >>
  /\ \/ /\ smem # << >> /\ next_wb' = smem /\ smem' = << >>
        /\ in_pipe' = [in_pipe EXCEPT ![smem[1].w] = @ - 1]
        /\ UNCHANGED <<next_global, l1ready, n_atomic>>
     \/ /\ next_global # << >> /\ next_wb' = next_global /\ next_global' = << >>
        /\ n_atomic' = IF next_global[1].inst.op = "atomic"
                         THEN [n_atomic EXCEPT ![next_global[1].w] = @ - 1] ELSE n_atomic
        /\ UNCHANGED <<smem, l1ready, in_pipe>>
     \/ /\ l1ready # << >> /\ next_wb' = <<Head(l1ready)>> /\ l1ready' = Tail(l1ready)
        /\ UNCHANGED <<smem, next_global, n_atomic, in_pipe>>
  /\ UNCHANGED <<cfg, launches, slots, pc, front, completed, done_exit, membar, stores, board,
                 alu, oc, dispatch, l1q, mshr, memory, response>>

Writeback ==
  LET x == next_wb[1] IN
  /\ next_wb # << >>
  /\ next_wb' = << >>
  /\ IF x.inst.op = "shared"
       THEN regs' = [regs EXCEPT ![x.w] = @ \ Outs(x.inst)] /\ UNCHANGED pending
       ELSE AccessDone(x)
  /\ UNCHANGED <<cfg, launches, slots, pc, front, completed, done_exit, counters, units,
                 l1vars, memory, response, next_global>>

-------------------------------------------------------------------------------

Ldst ==
  \/ SendPastL1 \/ SendToL1Queue \/ AccessL1 \/ L1QueueCycle \/ NothingToSend
  \/ \E a \in memory : MemoryAnswers(a)
  \/ TakeResponse \/ ServeClient \/ Writeback

Next ==
  \/ \E w \in Warp : \/ Launch(w) \/ WarpExits(w) \/ Fetch(w) \/ FetchReturns(w)
                     \/ MembarDone(w) \/ ControlHazard(w) \/ Issue(w)
  \/ Decode
  \/ \E x \in alu : AluWriteback(x)
  \/ \E x \in oc : LdstIssue(x)
  \/ Ldst

Spec == Init /\ [][Next]_vars

\* The core is cycled as long as a warp is left: some stage that can work does.
FairSpec == Spec /\ WF_vars(Next)

-------------------------------------------------------------------------------

\* Accesses that are not answered yet, and instructions that hold a place in the core.
Outstanding ==
  Range(l1q) \cup (UNION {Range(e) : e \in mshr}) \cup Range(l1ready) \cup memory
  \cup Range(response) \cup Range(next_global) \cup {a \in Range(next_wb) : IsLoad(a)}
Issued == alu \cup oc \cup {d.x : d \in Range(dispatch)} \cup Range(smem)

\* How many accesses of instruction x are still to be sent.
Unsent(x) == IF dispatch # << >> /\ dispatch[1].x = x THEN dispatch[1].left ELSE 0

(***************************************************************************)
(* The counters by which a warp is found done are exact, although decode,  *)
(* flush, issue, three ends of an instruction and the replies of the       *)
(* memory change them: m_inst_in_pipeline counts what is in the buffer and *)
(* in the units, m_stores_outstanding and m_n_atomic the requests that are *)
(* not answered.  One too many and the warp never ends.                    *)
(***************************************************************************)
CountersExact ==
  \A w \in Warp :
    LET mine(S, kind) == {a \in S : a.w = w /\ a.inst.op = kind}
        unsent == IF dispatch # << >> /\ dispatch[1].x.w = w
                     /\ dispatch[1].x.inst.op = "atomic" THEN dispatch[1].left ELSE 0
        due == UNION {{x} \X (1 .. x.inst.n) : x \in mine(oc, "atomic")}
    IN
    /\ in_pipe[w] = Len(ibuffer[w]) + Cardinality({x \in Issued : x.w = w})
    /\ stores[w] = Cardinality(mine(Outstanding, "store"))
    /\ n_atomic[w] = Cardinality(due) + unsent
                     + Cardinality(mine(Outstanding \ Range(next_wb), "atomic"))

\* The instructions of warp w that are still to write register r.
Writers(w, r) ==
  {[gen |-> x.gen, i |-> x.i] :
     x \in {y \in Issued \cup Outstanding \cup Range(next_wb) :
              y.w = w /\ r \in Outs(y.inst)}}

(***************************************************************************)
(* The scoreboard holds a register exactly as long as the instruction      *)
(* which writes it is in flight, and there is never a second one: it is    *)
(* neither reserved twice (the abort of reserveRegister) nor released when *)
(* some of the accesses of a load are answered and others are not.         *)
(***************************************************************************)
RegistersHeld ==
  \A w \in Warp, r \in Reg :
    /\ Cardinality(Writers(w, r)) <= 1
    /\ r \in regs[w] <=> Writers(w, r) # {}

(***************************************************************************)
(* Every answer finds the warp that asked, still waiting for it.  What is  *)
(* in the core and in the memory belongs to the warp that has its slot     *)
(* now, and that is not over: no answer releases registers or counts down  *)
(* stores of a later warp of the slot.  And the address that a fetch       *)
(* brings is the one the warp goes on at (the assertion in fetch): no      *)
(* instruction is issued and no warp ends while a fetch for it is under    *)
(* way.                                                                    *)
(***************************************************************************)
OwnAnswers ==
  /\ \A x \in Issued \cup Outstanding \cup Range(next_wb) :
       x.gen = gen[x.w] /\ ~done_exit[x.w]
  /\ \A w \in Warp :
       /\ imiss[w] # None => imiss[w] = next_pc[w] /\ ~completed[w]
       /\ (fetched # << >> /\ fetched[1] = w) => fetched[2] = next_pc[w] /\ ~completed[w]

\* Every warp gets a slot and leaves it.
WarpsExit == <>[](launches = << >> /\ \A w \in Warp : done_exit[w])

(***************************************************************************)
(* The L1D cache never waits for an answer which has come already: the     *)
(* answer to a read that went through it fills it, also the answer to      *)
(* ld.global.nc under gmem_skip_L1D, which is cached nevertheless.         *)
(***************************************************************************)
MissesAwaited == \A e \in mshr : Head(e) \in memory \cup Range(response)

(***************************************************************************)
(* A memory barrier holds the warp until its writes are acknowledged, as   *)
(* the comments at warp_waiting_at_mem_barrier have it.                    *)
(***************************************************************************)
MembarWaitsForStores ==
  [][\A w \in Warp : (membar[w] /\ ~membar'[w]) => stores[w] = 0]_vars

================================================================================
