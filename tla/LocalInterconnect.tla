--------------------------- MODULE LocalInterconnect ---------------------------
(***************************************************************************)
(* The crossbar between the clusters of cores and the memory               *)
(* sub-partitions (xbar_router and LocalInterconnect in                    *)
(* local_interconnect.cc) with the code at its ends: requests go out on    *)
(* one net and the answers come back on another.  A router moves packets   *)
(* from input to output buffers once per interconnect cycle; the loop that *)
(* does so is one action per packet moved; nothing else runs meanwhile.    *)
(***************************************************************************)
EXTENDS Naturals, Sequences, Folding

CONSTANTS
  NShader, NMem,       \* n_shader (clusters) and n_mem (sub-partitions)
  InLimit, OutLimit,   \* in_buffer_limit, out_buffer_limit
  Arbiters,            \* pairs of arbiter_algo and grant_cycles
  EjectSize,           \* n_simt_ejection_buffer_size
  HeldMax,             \* requests a sub-partition takes before it is full
  Tags                 \* bound of the model: the requests of a cluster

ASSUME SizesAssumption ==
  /\ NShader \in Nat \ {0} /\ NMem \in Nat \ {0}
  /\ InLimit \in Nat \ {0} /\ OutLimit \in Nat \ {0}
  /\ EjectSize \in Nat \ {0} /\ HeldMax \in Nat \ {0}
  /\ Arbiters \subseteq {"NAIVE_RR", "iSLIP"} \X (Nat \ {0})

total_nodes == NShader + NMem
Shader == 0 .. NShader - 1
Mem == NShader .. total_nodes - 1     \* mem2device
Node == 0 .. total_nodes - 1

REQ_NET == 0
REPLY_NET == 1
Net == {REQ_NET, REPLY_NET}
IDLE == 2                             \* no Advance is running

Packet == [src : Node, dst : Node, tag : Tags]

VARIABLES
  arbiter,             \* arbit_type and grant_cycles
  in_buffers,          \* xbar_router::in_buffers, of each net and node
  out_buffers,         \* xbar_router::out_buffers
  next_node_id,        \* where NAIVE_RR starts its round
  next_node,           \* where iSLIP starts the round of an output
  grant_cycles_count,
  net, port,           \* the loop variables of Advance
  active, issued,      \* locals of iSLIP_Advance and of RR_Advance
  response_fifo,       \* simt_core_cluster::m_response_fifo
  held,                \* the requests in a sub-partition
  waiting              \* the requests of a cluster that are not answered

routers == <<in_buffers, out_buffers, next_node_id, next_node, grant_cycles_count>>
sweep == <<net, port, active, issued>>
ends == <<response_fifo, held, waiting>>
vars == <<arbiter, routers, sweep, ends>>

TypeOK ==
  /\ arbiter \in Arbiters
  /\ in_buffers \in [Net -> [Node -> Seq(Packet)]]
  /\ out_buffers \in [Net -> [Node -> Seq(Packet)]]
  /\ next_node_id \in [Net -> Node]
  /\ next_node \in [Net -> [Node -> Node]]
  /\ grant_cycles_count \in [Net -> 1 .. arbiter[2]]
  /\ net \in Net \cup {IDLE} /\ port \in 0 .. total_nodes
  /\ active \in BOOLEAN /\ issued \in SUBSET Node
  /\ response_fifo \in [Shader -> Seq(Packet)]
  /\ held \in [Mem -> Seq(Packet)]
  /\ waiting \in [Shader -> SUBSET Tags]

Init ==
  /\ arbiter \in Arbiters
  /\ in_buffers = [n \in Net |-> [d \in Node |-> << >>]]
  /\ out_buffers = [n \in Net |-> [d \in Node |-> << >>]]
  /\ next_node_id = [n \in Net |-> 0]
  /\ next_node = [n \in Net |-> [d \in Node |-> 0]]
  /\ grant_cycles_count = [n \in Net |-> arbiter[2]]
  /\ net = IDLE /\ port = 0 /\ active = FALSE /\ issued = {}
  /\ response_fifo = [s \in Shader |-> << >>]
  /\ held = [m \in Mem |-> << >>]
  /\ waiting = [s \in Shader |-> {}]

-------------------------------------------------------------------------------
(* The ends of the network. *)

Has_Buffer_In(n, d) == Len(in_buffers[n][d]) + 1 <= InLimit

Push(n, p) == in_buffers' = [in_buffers EXCEPT ![n][p.src] = Append(@, p)]

Pop(n, d) == out_buffers' = [out_buffers EXCEPT ![n][d] = Tail(@)]

\* A core sends a request through its cluster's port, when there is room.
InjectRequest(s, m, t) ==
  /\ net = IDLE
  /\ t \notin waiting[s]
  /\ Has_Buffer_In(REQ_NET, s)
  /\ Push(REQ_NET, [src |-> s, dst |-> m, tag |-> t])
  /\ waiting' = [waiting EXCEPT ![s] = @ \cup {t}]
  /\ UNCHANGED <<arbiter, out_buffers, next_node_id, next_node, grant_cycles_count,
                 sweep, response_fifo, held>>

\* gpgpu_sim::cycle, L2 part: a sub-partition that is not full takes a request.
TakeRequest(m) ==
  /\ net = IDLE
  /\ Len(held[m]) < HeldMax
  /\ out_buffers[REQ_NET][m] # << >>
  /\ held' = [held EXCEPT ![m] = Append(@, Head(out_buffers[REQ_NET][m]))]
  /\ Pop(REQ_NET, m)
  /\ UNCHANGED <<arbiter, in_buffers, next_node_id, next_node, grant_cycles_count,
                 sweep, response_fifo, waiting>>

\* gpgpu_sim::cycle, ICNT part: a sub-partition sends its next answer.
SendReply(m) ==
  LET p == Head(held[m]) IN
  /\ net = IDLE
  /\ held[m] # << >>
  /\ Has_Buffer_In(REPLY_NET, m)
  /\ Push(REPLY_NET, [src |-> m, dst |-> p.src, tag |-> p.tag])
  /\ held' = [held EXCEPT ![m] = Tail(@)]
  /\ UNCHANGED <<arbiter, out_buffers, next_node_id, next_node, grant_cycles_count,
                 sweep, response_fifo, waiting>>

\* icnt_cycle: the first answer in the fifo goes to its core, if that has room, and
\* then an answer that has arrived enters the fifo, if that has room.
IcntCycle(s, room) ==
  LET fifo == response_fifo[s]
      taken == room /\ fifo # << >>
      rest == IF taken THEN Tail(fifo) ELSE fifo
      arrived == out_buffers[REPLY_NET][s]
      pops == Len(rest) < EjectSize /\ arrived # << >>
  IN
  /\ net = IDLE
  /\ taken \/ pops
  /\ response_fifo' = [response_fifo EXCEPT ![s] = IF pops THEN Append(rest, Head(arrived)) ELSE rest]
  /\ waiting' = IF taken THEN [waiting EXCEPT ![s] = @ \ {Head(fifo).tag}] ELSE waiting
  /\ IF pops THEN Pop(REPLY_NET, s) ELSE UNCHANGED out_buffers
  /\ UNCHANGED <<arbiter, in_buffers, next_node_id, next_node, grant_cycles_count,
                 sweep, held>>

-------------------------------------------------------------------------------
(* Advance: the routers, one after the other. *)

StartSweep(n) ==
  /\ net' = n /\ port' = 0 /\ issued' = {}
  /\ active' = (n # IDLE /\ \E d \in Node : in_buffers[n][d] # << >>)

Transfer ==
  /\ net = IDLE
  /\ StartSweep(REQ_NET)
  /\ UNCHANGED <<arbiter, routers, ends>>

Has_Buffer_Out_OffByOne(d) == Len(out_buffers[net][d]) + 1 < OutLimit

Has_Buffer_Out(d) == Len(out_buffers[net][d]) + 1 <= OutLimit

Move_KeepsPacket(s) ==
  LET p == Head(in_buffers[net][s]) IN
  /\ out_buffers' = [out_buffers EXCEPT ![net][p.dst] = Append(@, p)]
  /\ UNCHANGED in_buffers

\* The first packet of input s goes to its output.
Move(s) ==
  LET p == Head(in_buffers[net][s]) IN
  /\ in_buffers' = [in_buffers EXCEPT ![net][s] = Tail(@)]
  /\ out_buffers' = [out_buffers EXCEPT ![net][p.dst] = Append(@, p)]

\* The input that turn i of RR_Advance looks at, and whether its packet can go: an
\* output takes one packet in a cycle.
RRInput(i) == (i + next_node_id[net]) % total_nodes

RRMoves(i) ==
  LET q == in_buffers[net][RRInput(i)] IN
  q # << >> /\ Has_Buffer_Out(Head(q).dst) /\ Head(q).dst \notin issued

RRTurn(i) ==
  /\ RRMoves(i)
  /\ issued' = issued \cup {Head(in_buffers[net][RRInput(i)]).dst}
  /\ Move(RRInput(i))
  /\ UNCHANGED next_node

Requests(d) ==
  {s \in Node : in_buffers[net][s] # << >> /\ Head(in_buffers[net][s]).dst = d}

\* The distance of input s from the place where output d starts its round.
Turn(d, s) == (s + total_nodes - next_node[net][d]) % total_nodes

NextNode_Granted(d, s) == s

\* Where the next round of output d starts after a grant to s.
NextNode(d, s) ==
  IF grant_cycles_count[net] = 1 THEN (s + 1) % total_nodes ELSE next_node[net][d]

IslipMoves(d) == Has_Buffer_Out(d) /\ Requests(d) # {}

\* Turn d of iSLIP_Advance: output d grants the first input of its round that asks
\* for it.
IslipTurn(d) ==
  LET first == CHOOSE s \in Requests(d) : \A o \in Requests(d) : Turn(d, s) <= Turn(d, o)
  IN
  /\ IslipMoves(d)
  /\ Move(first)
  /\ next_node' = [next_node EXCEPT ![net][d] = NextNode(d, first)]
  /\ UNCHANGED issued

Moves(i) == IF arbiter[1] = "NAIVE_RR" THEN RRMoves(i) ELSE IslipMoves(i)

\* The next turn of the loop in which a packet moves.
AdvanceTurn(i) ==
  /\ net # IDLE
  /\ i >= port /\ \A j \in port .. i - 1 : ~Moves(j)
  /\ \/ arbiter[1] = "NAIVE_RR" /\ RRTurn(i)
     \/ arbiter[1] = "iSLIP" /\ IslipTurn(i)
  /\ port' = i + 1
  /\ UNCHANGED <<arbiter, next_node_id, grant_cycles_count, net, active, ends>>

\* NAIVE_RR moves on in every cycle, whatever it has served.
RREnd == next_node_id' = [next_node_id EXCEPT ![net] = (@ + 1) % total_nodes]

\* iSLIP counts the cycles in which there was a packet at an input.
IslipEnd ==
  grant_cycles_count' =
    IF active THEN [grant_cycles_count EXCEPT ![net] = IF @ = 1 THEN arbiter[2] ELSE @ - 1]
              ELSE grant_cycles_count

\* No turn is left in which a packet moves.
EndAdvance ==
  /\ net # IDLE
  /\ \A j \in port .. total_nodes - 1 : ~Moves(j)
  /\ StartSweep(net + 1)
  /\ \/ arbiter[1] = "NAIVE_RR" /\ RREnd /\ UNCHANGED grant_cycles_count
     \/ arbiter[1] = "iSLIP" /\ IslipEnd /\ UNCHANGED next_node_id
  /\ UNCHANGED <<arbiter, in_buffers, out_buffers, next_node, ends>>

-------------------------------------------------------------------------------

Next ==
  \/ \E s \in Shader, m \in Mem, t \in Tags : InjectRequest(s, m, t)
  \/ \E m \in Mem : TakeRequest(m)
  \/ \E m \in Mem : SendReply(m)
  \/ \E s \in Shader, room \in BOOLEAN : IcntCycle(s, room)
  \/ Transfer
  \/ \E i \in Node : AdvanceTurn(i)
  \/ EndAdvance

Spec == Init /\ [][Next]_vars

(***************************************************************************)
(* Every clock domain ticks for ever and a tick visits every cluster and   *)
(* every sub-partition, so both keep getting their turn between two        *)
(* transfers; a sub-partition answers every request and a core empties its *)
(* response queue.  Nobody has to send a request.                          *)
(***************************************************************************)
Fairness ==
  /\ WF_vars(Transfer) /\ WF_vars(EndAdvance) /\ WF_vars(\E i \in Node : AdvanceTurn(i))
  /\ \A m \in Mem : SF_vars(TakeRequest(m)) /\ SF_vars(SendReply(m))
  /\ \A s \in Shader : SF_vars(IcntCycle(s, TRUE))

FairSpec == Spec /\ Fairness

-------------------------------------------------------------------------------

Between(s, d) == [src : {s}, dst : {d}, tag : Tags]

\* The packets under way on net n from s to d: those in the output buffer are ahead.
UnderWay(n, s, d) ==
  Only(out_buffers[n][d], Between(s, d)) \o Only(in_buffers[n][s], Between(s, d))

chan == [n \in Net |-> [s \in Node |-> [d \in Node |-> UnderWay(n, s, d)]]]

Channels ==
  INSTANCE FifoChannels WITH
    Nets <- Net, Nodes <- Node, Messages <- Packet, chan <- chan

\* Whatever the arbiter and the back-pressure at the ends, the crossbar delivers
\* every packet once, at its destination, and the packets of an input for an
\* output in the order in which they were pushed.
InOrder == Channels!Spec

\* Every request that a cluster has sent is answered, however the others compete
\* for the same outputs: an input that asks for an output is granted it in the end.
NoStarvation ==
  \A s \in Shader, t \in Tags : t \in waiting[s] ~> t \notin waiting[s]

\* So it is for iSLIP when grants are renewed in every cycle.
IslipFair == arbiter = <<"iSLIP", 1>> => NoStarvation

\* Requests and answers never block each other for good: as long as requests are
\* open, answers keep reaching their clusters.
KeepsMoving ==
  \/ []<>(\A s \in Shader : waiting[s] = {})
  \/ []<><<\E s \in Shader : waiting'[s] \subseteq waiting[s] /\ waiting'[s] # waiting[s]>>_vars

================================================================================
