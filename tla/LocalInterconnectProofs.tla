------------------------ MODULE LocalInterconnectProofs ------------------------
(***************************************************************************)
(* Proofs about the crossbar, for every number of clusters and             *)
(* sub-partitions, every size of the buffers and both arbiters.            *)
(***************************************************************************)
EXTENDS LocalInterconnect, FoldingProofs

\* What a remainder is: the arbiters count inputs and rounds modulo total_nodes.
LEMMA ModType == \A a \in Nat, b \in Nat \ {0} : a % b \in 0 .. b - 1
OBVIOUS

\* The ports of the crossbar are numbered clusters first.
LEMMA Nodes ==
  /\ total_nodes \in Nat \ {0}
  /\ Shader \subseteq Node /\ Mem \subseteq Node
  /\ \A i \in Node : i \in Nat /\ i + 1 \in 0 .. total_nodes /\ (i + 1) % total_nodes \in Node
<1>1. total_nodes \in Nat \ {0} /\ Shader \subseteq Node /\ Mem \subseteq Node
  BY SizesAssumption DEF total_nodes, Shader, Mem, Node
<1>2. \A i \in Node : i \in Nat /\ i + 1 \in 0 .. total_nodes /\ i + 1 \in Nat
  BY <1>1 DEF Node
<1> QED BY <1>1, <1>2, ModType DEF Node

\* What an arbiter reads at an input that is not empty is a packet.
LEMMA HeadType ==
  ASSUME NEW V, NEW q \in Seq(V), q # << >>
  PROVE  Head(q) \in V /\ Tail(q) \in Seq(V)
OBVIOUS

\* A packet joins the queue of an input.
LEMMA PushType ==
  ASSUME TypeOK, NEW n \in Net, NEW p \in Packet, Push(n, p)
  PROVE  in_buffers' \in [Net -> [Node -> Seq(Packet)]]
<1>1. in_buffers \in [Net -> [Node -> Seq(Packet)]] /\ p.src \in Node
  BY DEF TypeOK, Packet
<1>2. Append(in_buffers[n][p.src], p) \in Seq(Packet)
  BY <1>1, AppendProperties
<1>3. PICK q \in Seq(Packet) : q = Append(in_buffers[n][p.src], p)
  BY <1>2
<1>4. in_buffers' = [in_buffers EXCEPT ![n][p.src] = q]
  BY <1>3 DEF Push
<1>5. [in_buffers EXCEPT ![n][p.src] = q] \in [Net -> [Node -> Seq(Packet)]]
  BY <1>1
<1> QED BY <1>4, <1>5

\* A packet moves from an input to the output that it is for.
LEMMA MoveType ==
  ASSUME TypeOK, net \in Net, NEW s \in Node, in_buffers[net][s] # << >>, Move(s)
  PROVE  /\ in_buffers' \in [Net -> [Node -> Seq(Packet)]]
         /\ out_buffers' \in [Net -> [Node -> Seq(Packet)]]
<1>1. Head(in_buffers[net][s]) \in Packet /\ Tail(in_buffers[net][s]) \in Seq(Packet)
  <2>1. in_buffers[net][s] \in Seq(Packet)
    BY DEF TypeOK
  <2> QED BY <2>1, HeadType
<1>2. Head(in_buffers[net][s]).dst \in Node
  BY <1>1 DEF Packet
<1>3. in_buffers' \in [Net -> [Node -> Seq(Packet)]]
  BY <1>1 DEF Move, TypeOK
<1>4. out_buffers' \in [Net -> [Node -> Seq(Packet)]]
  BY <1>1, <1>2 DEF Move, TypeOK
<1> QED BY <1>3, <1>4

\* iSLIP: among the inputs that ask for an output there is a first one in its round.
LEMMA FirstRequest ==
  ASSUME TypeOK, net \in Net, NEW d \in Node, Requests(d) # {}
  PROVE  \E s \in Requests(d) : \A o \in Requests(d) : Turn(d, s) <= Turn(d, o)
<1> DEFINE U == {Turn(d, s) : s \in Requests(d)}
<1>1. \A s \in Requests(d) : Turn(d, s) \in Nat
  <2> SUFFICES ASSUME NEW s \in Requests(d) PROVE Turn(d, s) \in Nat
    OBVIOUS
  <2>1. s \in Node /\ next_node[net][d] \in Node
    BY DEF Requests, TypeOK
  <2>2. s + total_nodes - next_node[net][d] \in Nat
    BY <2>1, Nodes DEF Node
  <2> QED BY <2>2, Nodes, ModType DEF Turn
<1>2. PICK x \in U : \A y \in U : x <= y
  <2>1. U \in SUBSET Nat /\ U # {}
    BY <1>1
  <2> HIDE DEF U
  <2> QED BY <2>1, LeastExists
<1>3. PICK s \in Requests(d) : Turn(d, s) = x
  BY <1>2
<1>4. \A o \in Requests(d) : Turn(d, o) \in U
  OBVIOUS
<1> HIDE DEF U
<1> QED BY <1>2, <1>3, <1>4

\* What one turn of Advance does to the routers, whichever the arbiter: the first
\* packet of some input moves to its output.
LEMMA TurnMoves ==
  ASSUME TypeOK, NEW i \in Node, AdvanceTurn(i)
  PROVE  /\ net \in Net
         /\ \E s \in Node : in_buffers[net][s] # << >> /\ Move(s)
         /\ next_node' \in [Net -> [Node -> Node]]
         /\ issued' \in SUBSET Node
<1>1. net \in Net
  BY DEF AdvanceTurn, TypeOK
<1>2. CASE RRTurn(i)
  <2>1. RRInput(i) \in Node
    <3>1. i \in Nat /\ next_node_id[net] \in Nat
      BY <1>1, Nodes DEF TypeOK
    <3>2. i + next_node_id[net] \in Nat /\ total_nodes \in Nat \ {0}
      BY <3>1, Nodes
    <3>3. (i + next_node_id[net]) % total_nodes \in 0 .. total_nodes - 1
      BY <3>2, ModType
    <3> QED BY <3>3 DEF RRInput, Node
  <2>2. in_buffers[net][RRInput(i)] # << >> /\ Move(RRInput(i)) /\ next_node' = next_node
    BY <1>2 DEF RRTurn, RRMoves
  <2>3. Head(in_buffers[net][RRInput(i)]) \in Packet
    <3>1. in_buffers[net][RRInput(i)] \in Seq(Packet)
      BY <1>1, <2>1 DEF TypeOK
    <3> QED BY <2>2, <3>1, HeadType
  <2>4. issued' \in SUBSET Node
    <3>1. Head(in_buffers[net][RRInput(i)]).dst \in Node
      BY <2>3 DEF Packet
    <3> QED BY <1>2, <3>1 DEF RRTurn, TypeOK
  <2> QED BY <1>1, <2>1, <2>2, <2>4 DEF TypeOK
<1>3. CASE IslipTurn(i)
  <2> DEFINE First(s) == \A o \in Requests(i) : Turn(i, s) <= Turn(i, o)
             first == CHOOSE s \in Requests(i) : First(s)
  <2>1. Requests(i) # {}
    BY <1>3 DEF IslipTurn, IslipMoves
  <2>2. first \in Requests(i)
    BY <1>1, <2>1, FirstRequest
  <2>3. Move(first) /\ issued' = issued /\ next_node' = [next_node EXCEPT ![net][i] = NextNode(i, first)]
    BY <1>3 DEF IslipTurn
  <2> HIDE DEF first
  <2>4. first \in Node /\ in_buffers[net][first] # << >>
    BY <2>2 DEF Requests
  <2>5. NextNode(i, first) \in Node
    <3>1. next_node[net][i] \in Node
      BY <1>1 DEF TypeOK
    <3> QED BY <2>4, <3>1, Nodes DEF NextNode
  <2>6. next_node' \in [Net -> [Node -> Node]]
    BY <2>3, <2>5 DEF TypeOK
  <2> QED BY <1>1, <2>3, <2>4, <2>6 DEF TypeOK
<1> QED BY <1>2, <1>3 DEF AdvanceTurn

\* Every step of the two crossbars and of the units at their ends keeps the type.
LEMMA TypeInductive == TypeOK /\ [Next]_vars => TypeOK'
<1> SUFFICES ASSUME TypeOK, [Next]_vars PROVE TypeOK'
  OBVIOUS
<1> USE SizesAssumption
<1>1. ASSUME NEW s \in Shader, NEW m \in Mem, NEW t \in Tags, InjectRequest(s, m, t)
      PROVE  TypeOK'
  <2> DEFINE p == [src |-> s, dst |-> m, tag |-> t]
  <2>1. p \in Packet /\ s \in Node
    BY Nodes DEF Packet
  <2>2. in_buffers' \in [Net -> [Node -> Seq(Packet)]]
    <3>1. Push(REQ_NET, p)
      BY <1>1 DEF InjectRequest
    <3> HIDE DEF p
    <3> QED BY <2>1, <3>1, PushType DEF Net
  <2>3. waiting' \in [Shader -> SUBSET Tags]
    BY <1>1 DEF InjectRequest, TypeOK
  <2> QED BY <1>1, <2>2, <2>3 DEF InjectRequest, sweep, TypeOK
<1>2. ASSUME NEW m \in Mem, TakeRequest(m)
      PROVE  TypeOK'
  <2>1. out_buffers[REQ_NET][m] \in Seq(Packet) /\ m \in Node
    BY Nodes DEF TypeOK, Net
  <2>2. Head(out_buffers[REQ_NET][m]) \in Packet /\ Tail(out_buffers[REQ_NET][m]) \in Seq(Packet)
    BY <1>2, <2>1, HeadType DEF TakeRequest
  <2>3. held' \in [Mem -> Seq(Packet)]
    BY <1>2, <2>2 DEF TakeRequest, TypeOK
  <2>4. out_buffers' \in [Net -> [Node -> Seq(Packet)]]
    BY <1>2, <2>1, <2>2 DEF TakeRequest, Pop, TypeOK
  <2> QED BY <1>2, <2>3, <2>4 DEF TakeRequest, sweep, TypeOK
<1>3. ASSUME NEW m \in Mem, SendReply(m)
      PROVE  TypeOK'
  <2> DEFINE p == Head(held[m])
             a == [src |-> m, dst |-> p.src, tag |-> p.tag]
  <2>1. p \in Packet /\ Tail(held[m]) \in Seq(Packet)
    <3>1. held[m] \in Seq(Packet)
      BY DEF TypeOK
    <3> QED BY <1>3, <3>1, HeadType DEF SendReply
  <2>2. a \in Packet /\ a.src = m /\ m \in Node
    BY <2>1, Nodes DEF Packet
  <2>3. Push(REPLY_NET, a)
    BY <1>3 DEF SendReply
  <2> HIDE DEF a
  <2>4. in_buffers' \in [Net -> [Node -> Seq(Packet)]]
    BY <2>2, <2>3, PushType DEF Net
  <2>5. held' \in [Mem -> Seq(Packet)]
    BY <1>3, <2>1 DEF SendReply, TypeOK
  <2> QED BY <1>3, <2>4, <2>5 DEF SendReply, sweep, TypeOK
<1>4. ASSUME NEW s \in Shader, NEW room \in BOOLEAN, IcntCycle(s, room)
      PROVE  TypeOK'
  <2> DEFINE fifo == response_fifo[s]
             taken == room /\ fifo # << >>
             rest == IF taken THEN Tail(fifo) ELSE fifo
             arrived == out_buffers[REPLY_NET][s]
             pops == Len(rest) < EjectSize /\ arrived # << >>
  <2>1. fifo \in Seq(Packet) /\ arrived \in Seq(Packet) /\ s \in Node
    BY Nodes DEF TypeOK, Net
  <2>2. rest \in Seq(Packet)
    BY <2>1, HeadType
  <2>3. pops => Head(arrived) \in Packet /\ Tail(arrived) \in Seq(Packet)
    BY <2>1, HeadType
  <2>4. /\ response_fifo' = [response_fifo EXCEPT ![s] = IF pops THEN Append(rest, Head(arrived)) ELSE rest]
        /\ waiting' = IF taken THEN [waiting EXCEPT ![s] = @ \ {Head(fifo).tag}] ELSE waiting
        /\ IF pops THEN Pop(REPLY_NET, s) ELSE UNCHANGED out_buffers
    BY <1>4 DEF IcntCycle
  <2>5. out_buffers' \in [Net -> [Node -> Seq(Packet)]]
    <3>1. CASE pops
      <4>1. out_buffers' = [out_buffers EXCEPT ![REPLY_NET][s] = Tail(@)]
        BY <2>4, <3>1 DEF Pop
      <4>2. Tail(out_buffers[REPLY_NET][s]) \in Seq(Packet)
        BY <2>3, <3>1
      <4> QED BY <2>1, <4>1, <4>2 DEF TypeOK
    <3>2. CASE ~pops
      BY <2>4, <3>2 DEF TypeOK
    <3> QED BY <3>1, <3>2
  <2>6. waiting' \in [Shader -> SUBSET Tags]
    BY <2>4 DEF TypeOK
  <2> HIDE DEF fifo, taken, rest, arrived, pops
  <2>7. (IF pops THEN Append(rest, Head(arrived)) ELSE rest) \in Seq(Packet)
    BY <2>2, <2>3
  <2>8. response_fifo' \in [Shader -> Seq(Packet)]
    BY <2>4, <2>7 DEF TypeOK
  <2> QED BY <1>4, <2>5, <2>6, <2>8 DEF IcntCycle, sweep, TypeOK
<1>5. CASE Transfer
  <2>1. UNCHANGED <<arbiter, routers, ends>>
    BY <1>5 DEF Transfer
  <2>2. net' \in Net \cup {IDLE} /\ issued' \in SUBSET Node
    BY <1>5 DEF Transfer, StartSweep, Net
  <2>3. port' \in 0 .. total_nodes
    BY <1>5, Nodes DEF Transfer, StartSweep
  <2>4. active' \in BOOLEAN
    BY <1>5 DEF Transfer, StartSweep
  <2> QED BY <2>1, <2>2, <2>3, <2>4 DEF routers, ends, TypeOK
<1>6. ASSUME NEW i \in Node, AdvanceTurn(i)
      PROVE  TypeOK'
  <2>1. PICK s \in Node : in_buffers[net][s] # << >> /\ Move(s)
    BY <1>6, TurnMoves
  <2>2. /\ in_buffers' \in [Net -> [Node -> Seq(Packet)]]
        /\ out_buffers' \in [Net -> [Node -> Seq(Packet)]]
    BY <1>6, <2>1, TurnMoves, MoveType
  <2>3. next_node' \in [Net -> [Node -> Node]] /\ issued' \in SUBSET Node
    BY <1>6, TurnMoves
  <2>4. port' \in 0 .. total_nodes
    BY <1>6, Nodes DEF AdvanceTurn
  <2> QED BY <1>6, <2>2, <2>3, <2>4 DEF AdvanceTurn, ends, TypeOK
<1>7. CASE EndAdvance
  <2>1. net \in Net
    BY <1>7 DEF EndAdvance, TypeOK
  <2>2. net' \in Net \cup {IDLE} /\ port' \in 0 .. total_nodes /\ issued' \in SUBSET Node
    BY <1>7, <2>1, Nodes DEF EndAdvance, StartSweep, Net, IDLE, REQ_NET, REPLY_NET
  <2>3. active' \in BOOLEAN
    BY <1>7 DEF EndAdvance, StartSweep
  <2>4. next_node_id' \in [Net -> Node]
    <3>1. (next_node_id[net] + 1) % total_nodes \in Node
      BY <2>1, Nodes DEF TypeOK
    <3> QED BY <1>7, <3>1 DEF EndAdvance, RREnd, IslipEnd, TypeOK
  <2>5. grant_cycles_count' \in [Net -> 1 .. arbiter[2]]
    <3>1. arbiter[2] \in Nat \ {0}
      BY DEF TypeOK
    <3>2. grant_cycles_count[net] \in 1 .. arbiter[2]
      BY <2>1 DEF TypeOK
    <3>3. (IF grant_cycles_count[net] = 1 THEN arbiter[2] ELSE grant_cycles_count[net] - 1)
            \in 1 .. arbiter[2]
      BY <3>1, <3>2
    <3> QED BY <1>7, <3>3 DEF EndAdvance, RREnd, IslipEnd, TypeOK
  <2> QED BY <1>7, <2>2, <2>3, <2>4, <2>5 DEF EndAdvance, ends, TypeOK
<1>8. CASE UNCHANGED vars
  BY <1>8 DEF vars, routers, sweep, ends, TypeOK
<1> QED BY <1>1, <1>2, <1>3, <1>4, <1>5, <1>6, <1>7, <1>8 DEF Next

\* Empty buffers, and the arbiters at their first round.
LEMMA InitType == Init => TypeOK
<1> SUFFICES ASSUME Init PROVE TypeOK
  OBVIOUS
<1>1. 0 \in Node /\ 0 \in 0 .. total_nodes
  BY Nodes DEF Node
<1>2. arbiter \in Arbiters /\ arbiter[2] \in Nat \ {0} /\ arbiter[2] \in 1 .. arbiter[2]
  BY SizesAssumption DEF Init
<1>3. /\ in_buffers \in [Net -> [Node -> Seq(Packet)]]
      /\ out_buffers \in [Net -> [Node -> Seq(Packet)]]
      /\ response_fifo \in [Shader -> Seq(Packet)]
      /\ held \in [Mem -> Seq(Packet)]
  BY DEF Init
<1> QED BY <1>1, <1>2, <1>3 DEF Init, TypeOK

(***************************************************************************)
(* The state of both routers, of the loops of Advance and of the fifos at  *)
(* the ends keeps its type; above all an arbiter never computes a port     *)
(* that does not exist.                                                    *)
(***************************************************************************)
THEOREM TypeCorrect == Spec => []TypeOK
BY InitType, TypeInductive, PTL DEF Spec

-------------------------------------------------------------------------------
(* Routing. *)

\* The packets that may travel on net n.
OnNet(n) ==
  IF n = REQ_NET THEN {p \in Packet : p.src \in Shader /\ p.dst \in Mem}
                 ELSE {p \in Packet : p.src \in Mem /\ p.dst \in Shader}

From(n, s) == {p \in OnNet(n) : p.src = s}
To(n, d) == {p \in OnNet(n) : p.dst = d}

\* Every buffer holds only packets that belong there.
Routed ==
  /\ \A n \in Net, d \in Node :
       in_buffers[n][d] \in Seq(From(n, d)) /\ out_buffers[n][d] \in Seq(To(n, d))
  /\ \A m \in Mem : held[m] \in Seq(To(REQ_NET, m))
  /\ \A s \in Shader : response_fifo[s] \in Seq(To(REPLY_NET, s))

\* A push at an end of the network.
LEMMA PushRouted ==
  ASSUME TypeOK, Routed, NEW n \in Net, NEW p \in OnNet(n), Push(n, p),
         UNCHANGED <<out_buffers, response_fifo>>,
         \A m \in Mem : held'[m] \in Seq(To(REQ_NET, m))
  PROVE  Routed'
<1>1. p.src \in Node /\ p \in From(n, p.src)
  BY Nodes DEF OnNet, Packet, From
<1>2. in_buffers' = [in_buffers EXCEPT ![n][p.src] = Append(@, p)]
  BY DEF Push
<1>3. ASSUME NEW k \in Net, NEW d \in Node
      PROVE  in_buffers'[k][d] \in Seq(From(k, d))
  <2>1. in_buffers[k][d] \in Seq(From(k, d))
    BY DEF Routed
  <2>2. CASE k = n /\ d = p.src
    <3>1. in_buffers'[k][d] = Append(in_buffers[k][d], p)
      BY <1>2, <2>2 DEF TypeOK
    <3> QED BY <1>1, <2>1, <2>2, <3>1
  <2>3. CASE ~(k = n /\ d = p.src)
    <3>1. in_buffers'[k][d] = in_buffers[k][d]
      BY <1>2, <2>3 DEF TypeOK
    <3> QED BY <2>1, <3>1
  <2> QED BY <2>2, <2>3
<1>4. \A k \in Net, d \in Node : out_buffers'[k][d] \in Seq(To(k, d))
  BY DEF Routed
<1>5. \A s \in Shader : response_fifo'[s] \in Seq(To(REPLY_NET, s))
  BY DEF Routed
<1> QED BY <1>3, <1>4, <1>5 DEF Routed, From, To, OnNet

\* A pop at an end of the network.
LEMMA PopRouted ==
  ASSUME TypeOK, Routed, NEW n \in Net, NEW d \in Node, out_buffers[n][d] # << >>, Pop(n, d)
  PROVE  /\ Head(out_buffers[n][d]) \in To(n, d)
         /\ \A k \in Net, e \in Node : out_buffers'[k][e] \in Seq(To(k, e))
<1>1. \A k \in Net, e \in Node : out_buffers[k][e] \in Seq(To(k, e))
  BY DEF Routed
<1>2. Head(out_buffers[n][d]) \in To(n, d) /\ Tail(out_buffers[n][d]) \in Seq(To(n, d))
  BY <1>1, HeadType
<1>3. ASSUME NEW k \in Net, NEW e \in Node
      PROVE  out_buffers'[k][e] \in Seq(To(k, e))
  <2>1. CASE k = n /\ e = d
    <3>1. out_buffers'[k][e] = Tail(out_buffers[n][d])
      BY <2>1 DEF Pop, TypeOK
    <3> QED BY <1>2, <2>1, <3>1
  <2>2. CASE ~(k = n /\ e = d)
    <3>1. out_buffers'[k][e] = out_buffers[k][e]
      BY <2>2 DEF Pop, TypeOK
    <3> QED BY <1>1, <3>1
  <2> QED BY <2>1, <2>2
<1> QED BY <1>2, <1>3

\* A move in the router keeps a packet on its way.
LEMMA MoveRouted ==
  ASSUME TypeOK, Routed, net \in Net, NEW s \in Node, in_buffers[net][s] # << >>, Move(s)
  PROVE  /\ Head(in_buffers[net][s]) \in From(net, s)
         /\ \A k \in Net, e \in Node :
              in_buffers'[k][e] \in Seq(From(k, e)) /\ out_buffers'[k][e] \in Seq(To(k, e))
<1> DEFINE p == Head(in_buffers[net][s])
<1>1. \A k \in Net, e \in Node :
        in_buffers[k][e] \in Seq(From(k, e)) /\ out_buffers[k][e] \in Seq(To(k, e))
  BY DEF Routed
<1>2. p \in From(net, s) /\ Tail(in_buffers[net][s]) \in Seq(From(net, s))
  BY <1>1, HeadType
<1>3. p.dst \in Node /\ p \in To(net, p.dst)
  BY <1>2 DEF From, To, OnNet, Packet
<1>4. /\ in_buffers' = [in_buffers EXCEPT ![net][s] = Tail(@)]
      /\ out_buffers' = [out_buffers EXCEPT ![net][p.dst] = Append(@, p)]
  BY DEF Move
<1> HIDE DEF p
<1>5. ASSUME NEW k \in Net, NEW e \in Node
      PROVE  in_buffers'[k][e] \in Seq(From(k, e))
  <2>1. CASE k = net /\ e = s
    <3>1. in_buffers'[k][e] = Tail(in_buffers[net][s])
      BY <1>4, <2>1 DEF TypeOK
    <3> QED BY <1>2, <2>1, <3>1
  <2>2. CASE ~(k = net /\ e = s)
    <3>1. in_buffers'[k][e] = in_buffers[k][e]
      BY <1>4, <2>2 DEF TypeOK
    <3> QED BY <1>1, <3>1
  <2> QED BY <2>1, <2>2
<1>6. ASSUME NEW k \in Net, NEW e \in Node
      PROVE  out_buffers'[k][e] \in Seq(To(k, e))
  <2>1. CASE k = net /\ e = p.dst
    <3>1. out_buffers'[k][e] = Append(out_buffers[k][e], p)
      BY <1>4, <2>1 DEF TypeOK
    <3>2. out_buffers[k][e] \in Seq(To(k, e))
      BY <1>1
    <3> QED BY <1>3, <2>1, <3>1, <3>2
  <2>2. CASE ~(k = net /\ e = p.dst)
    <3>1. out_buffers'[k][e] = out_buffers[k][e]
      BY <1>4, <2>2 DEF TypeOK
    <3> QED BY <1>1, <3>1
  <2> QED BY <2>1, <2>2
<1> QED BY <1>2, <1>5, <1>6 DEF p

\* No step puts a packet into a buffer that is not on its way.
LEMMA RoutedInductive == TypeOK /\ Routed /\ [Next]_vars => Routed'
<1> SUFFICES ASSUME TypeOK, Routed, [Next]_vars PROVE Routed'
  OBVIOUS
<1>1. ASSUME NEW s \in Shader, NEW m \in Mem, NEW t \in Tags, InjectRequest(s, m, t)
      PROVE  Routed'
  <2> DEFINE p == [src |-> s, dst |-> m, tag |-> t]
  <2>1. p \in OnNet(REQ_NET) /\ REQ_NET \in Net
    BY Nodes DEF OnNet, Packet, Net
  <2>2. Push(REQ_NET, p) /\ UNCHANGED <<out_buffers, response_fifo, held>>
    BY <1>1 DEF InjectRequest
  <2>3. \A x \in Mem : held'[x] \in Seq(To(REQ_NET, x))
    BY <2>2 DEF Routed
  <2> HIDE DEF p
  <2> QED BY <2>1, <2>2, <2>3, PushRouted
<1>2. ASSUME NEW m \in Mem, TakeRequest(m)
      PROVE  Routed'
  <2>1. m \in Node /\ REQ_NET \in Net /\ out_buffers[REQ_NET][m] # << >> /\ Pop(REQ_NET, m)
    BY <1>2, Nodes DEF TakeRequest, Net
  <2>2. /\ Head(out_buffers[REQ_NET][m]) \in To(REQ_NET, m)
        /\ \A k \in Net, e \in Node : out_buffers'[k][e] \in Seq(To(k, e))
    BY <2>1, PopRouted
  <2>3. held' = [held EXCEPT ![m] = Append(@, Head(out_buffers[REQ_NET][m]))]
    BY <1>2 DEF TakeRequest
  <2>4. ASSUME NEW x \in Mem PROVE held'[x] \in Seq(To(REQ_NET, x))
    <3>1. held[x] \in Seq(To(REQ_NET, x))
      BY DEF Routed
    <3>2. held'[x] = IF x = m THEN Append(held[x], Head(out_buffers[REQ_NET][m])) ELSE held[x]
      BY <2>3 DEF TypeOK
    <3> QED BY <2>2, <3>1, <3>2
  <2>5. UNCHANGED <<in_buffers, response_fifo>>
    BY <1>2 DEF TakeRequest
  <2> QED BY <2>2, <2>4, <2>5 DEF Routed, From, To, OnNet
<1>3. ASSUME NEW m \in Mem, SendReply(m)
      PROVE  Routed'
  <2> DEFINE q == Head(held[m])
             p == [src |-> m, dst |-> q.src, tag |-> q.tag]
  <2>1. \A x \in Mem : held[x] \in Seq(To(REQ_NET, x))
    BY DEF Routed
  <2>2. q \in To(REQ_NET, m) /\ Tail(held[m]) \in Seq(To(REQ_NET, m))
    BY <1>3, <2>1, HeadType DEF SendReply
  <2>3. p \in OnNet(REPLY_NET) /\ REPLY_NET \in Net
    BY <2>2, Nodes DEF OnNet, Packet, Net, To, REQ_NET, REPLY_NET
  <2>4. Push(REPLY_NET, p) /\ UNCHANGED <<out_buffers, response_fifo>>
    BY <1>3 DEF SendReply
  <2>5. held' = [held EXCEPT ![m] = Tail(@)]
    BY <1>3 DEF SendReply
  <2>6. \A x \in Mem : held'[x] \in Seq(To(REQ_NET, x))
    <3>1. \A x \in Mem : held'[x] = IF x = m THEN Tail(held[m]) ELSE held[x]
      BY <2>5 DEF TypeOK
    <3> QED BY <2>1, <2>2, <3>1
  <2> HIDE DEF p
  <2> QED BY <2>3, <2>4, <2>6, PushRouted
<1>4. ASSUME NEW s \in Shader, NEW room \in BOOLEAN, IcntCycle(s, room)
      PROVE  Routed'
  <2> DEFINE fifo == response_fifo[s]
             taken == room /\ fifo # << >>
             rest == IF taken THEN Tail(fifo) ELSE fifo
             arrived == out_buffers[REPLY_NET][s]
             pops == Len(rest) < EjectSize /\ arrived # << >>
  <2>1. /\ response_fifo' = [response_fifo EXCEPT ![s] = IF pops THEN Append(rest, Head(arrived)) ELSE rest]
        /\ IF pops THEN Pop(REPLY_NET, s) ELSE UNCHANGED out_buffers
        /\ UNCHANGED <<in_buffers, held>>
    BY <1>4 DEF IcntCycle
  <2>2. s \in Node /\ REPLY_NET \in Net
    BY Nodes DEF Net
  <2>3. rest \in Seq(To(REPLY_NET, s))
    <3>1. fifo \in Seq(To(REPLY_NET, s))
      BY DEF Routed
    <3> QED BY <3>1, HeadType
  <2>4. pops => Head(arrived) \in To(REPLY_NET, s)
    BY <2>1, <2>2, PopRouted
  <2>5. \A k \in Net, e \in Node : out_buffers'[k][e] \in Seq(To(k, e))
    <3>1. CASE pops
      BY <2>1, <2>2, <3>1, PopRouted
    <3>2. CASE ~pops
      BY <2>1, <3>2 DEF Routed
    <3> QED BY <3>1, <3>2
  <2> HIDE DEF fifo, taken, rest, arrived, pops
  <2>6. (IF pops THEN Append(rest, Head(arrived)) ELSE rest) \in Seq(To(REPLY_NET, s))
    BY <2>3, <2>4
  <2>7. \A x \in Shader : response_fifo'[x] \in Seq(To(REPLY_NET, x))
    <3>1. \A x \in Shader : response_fifo'[x] =
            IF x = s THEN (IF pops THEN Append(rest, Head(arrived)) ELSE rest) ELSE response_fifo[x]
      BY <2>1 DEF TypeOK
    <3> QED BY <2>6, <3>1 DEF Routed
  <2> QED BY <2>1, <2>5, <2>7 DEF Routed, From, To, OnNet
<1>5. ASSUME NEW i \in Node, AdvanceTurn(i)
      PROVE  Routed'
  <2>1. PICK s \in Node : in_buffers[net][s] # << >> /\ Move(s)
    BY <1>5, TurnMoves
  <2>2. \A k \in Net, e \in Node :
          in_buffers'[k][e] \in Seq(From(k, e)) /\ out_buffers'[k][e] \in Seq(To(k, e))
    BY <1>5, <2>1, TurnMoves, MoveRouted
  <2>3. UNCHANGED <<held, response_fifo>>
    BY <1>5 DEF AdvanceTurn, ends
  <2> QED BY <2>2, <2>3 DEF Routed, From, To, OnNet
<1>6. CASE Transfer \/ EndAdvance \/ UNCHANGED vars
  <2>1. UNCHANGED <<in_buffers, out_buffers, held, response_fifo>>
    BY <1>6 DEF Transfer, EndAdvance, vars, routers, ends
  <2> QED BY <2>1 DEF Routed, From, To, OnNet
<1> QED BY <1>1, <1>2, <1>3, <1>4, <1>5, <1>6 DEF Next

(***************************************************************************)
(* Whatever waits anywhere in the crossbar or at its ends is where it      *)
(* should be: an input buffer holds packets of its node, an output buffer  *)
(* and the fifo behind it packets for its node, requests go from clusters  *)
(* to sub-partitions and answers back, so that an answer never ends at a   *)
(* sub-partition or at a cluster that it is not for.                       *)
(***************************************************************************)
THEOREM RoutingCorrect == Spec => []Routed
<1>1. Init => TypeOK /\ Routed
  <2>1. Init => Routed
    BY Nodes DEF Init, Routed
  <2>2. Init => TypeOK
    BY InitType
  <2> QED BY <2>1, <2>2
<1>2. TypeOK /\ Routed /\ [Next]_vars => (TypeOK /\ Routed)'
  BY TypeInductive, RoutedInductive
<1> QED BY <1>1, <1>2, PTL DEF Spec

-------------------------------------------------------------------------------
(* The crossbar implements FIFO channels. *)

\* The buffers of a channel and the packets that it selects from them.
LEMMA UnderWayParts ==
  ASSUME TypeOK, NEW n \in Net, NEW s \in Node, NEW d \in Node
  PROVE  /\ in_buffers[n][s] \in Seq(Packet) /\ out_buffers[n][d] \in Seq(Packet)
         /\ Only(in_buffers[n][s], Between(s, d)) \in Seq(Packet)
         /\ Only(out_buffers[n][d], Between(s, d)) \in Seq(Packet)
         /\ UnderWay(n, s, d) \in Seq(Packet)
<1>1. in_buffers[n][s] \in Seq(Packet) /\ out_buffers[n][d] \in Seq(Packet)
  BY DEF TypeOK
<1>2. /\ Only(in_buffers[n][s], Between(s, d)) \in Seq(Packet)
      /\ Only(out_buffers[n][d], Between(s, d)) \in Seq(Packet)
  BY <1>1, OnlyType
<1>3. \A x \in Seq(Packet), y \in Seq(Packet) : x \o y \in Seq(Packet)
  OBVIOUS
<1> QED BY <1>1, <1>2, <1>3 DEF UnderWay

\* When no channel changes, the refinement stutters.
LEMMA NoChannel ==
  ASSUME \A n \in Net, s \in Node, d \in Node : UnderWay(n, s, d)' = UnderWay(n, s, d)
  PROVE  chan' = chan
BY DEF chan

\* When one channel alone changes, by a send or a receive, that is a step of the
\* abstract network.
LEMMA OneChannel ==
  ASSUME NEW n \in Net, NEW s \in Node, NEW d \in Node,
         \A k \in Net, x \in Node, y \in Node :
           ~(k = n /\ x = s /\ y = d) => UnderWay(k, x, y)' = UnderWay(k, x, y),
         \/ \E m \in Packet : UnderWay(n, s, d)' = Append(UnderWay(n, s, d), m)
         \/ UnderWay(n, s, d) # << >> /\ UnderWay(n, s, d)' = Tail(UnderWay(n, s, d))
  PROVE  Channels!Next
<1>1. \A k \in Net, x \in Node, y \in Node :
        chan[k][x][y] = UnderWay(k, x, y) /\ chan'[k][x][y] = UnderWay(k, x, y)'
  BY DEF chan
<1>2. chan' = [chan EXCEPT ![n][s][d] = chan'[n][s][d]]
  <2>1. [chan[n][s] EXCEPT ![d] = chan'[n][s][d]] = chan'[n][s]
    <3>1. chan[n][s] = [y \in Node |-> chan[n][s][y]] /\ chan'[n][s] = [y \in Node |-> chan'[n][s][y]]
      BY DEF chan
    <3>2. \A y \in Node : y # d => chan'[n][s][y] = chan[n][s][y]
      BY <1>1
    <3> QED BY <3>1, <3>2
  <2>2. [chan[n] EXCEPT ![s] = chan'[n][s]] = chan'[n]
    <3>1. chan[n] = [x \in Node |-> chan[n][x]] /\ chan'[n] = [x \in Node |-> chan'[n][x]]
      BY DEF chan
    <3>2. \A x \in Node : x # s => chan'[n][x] = chan[n][x]
      BY DEF chan
    <3> QED BY <3>1, <3>2
  <2>3. [chan EXCEPT ![n] = chan'[n]] = chan'
    <3>1. chan = [k \in Net |-> chan[k]] /\ chan' = [k \in Net |-> chan'[k]]
      BY DEF chan
    <3>2. \A k \in Net : k # n => chan'[k] = chan[k]
      BY DEF chan
    <3> QED BY <3>1, <3>2
  <2>4. [chan EXCEPT ![n][s][d] = chan'[n][s][d]]
          = [chan EXCEPT ![n] = [chan[n] EXCEPT ![s] = [chan[n][s] EXCEPT ![d] = chan'[n][s][d]]]]
    OBVIOUS
  <2> QED BY <2>1, <2>2, <2>3, <2>4
<1>3. Channels!Send(n, s, d) \/ Channels!Receive(n, s, d)
  BY <1>1 DEF Channels!Send, Channels!Receive
<1> QED BY <1>2, <1>3 DEF Channels!Next

\* A push sends on the channel of the packet and on no other.
LEMMA PushSends ==
  ASSUME TypeOK, NEW n \in Net, NEW p \in Packet, Push(n, p), UNCHANGED out_buffers
  PROVE  Channels!Next
<1>1. p.src \in Node /\ p.dst \in Node /\ p \in Between(p.src, p.dst)
  BY DEF Packet, Between
<1>2. in_buffers' = [in_buffers EXCEPT ![n][p.src] = Append(@, p)]
  BY DEF Push
<1>3. ASSUME NEW k \in Net, NEW x \in Node, NEW y \in Node, ~(k = n /\ x = p.src /\ y = p.dst)
      PROVE  UnderWay(k, x, y)' = UnderWay(k, x, y)
  <2>1. CASE k = n /\ x = p.src
    <3>1. in_buffers'[k][x] = Append(in_buffers[k][x], p)
      BY <1>2, <2>1 DEF TypeOK
    <3>2. p \notin Between(x, y)
      BY <1>3, <2>1 DEF Between
    <3>3. in_buffers[k][x] \in Seq(Packet)
      BY DEF TypeOK
    <3>4. Only(Append(in_buffers[k][x], p), Between(x, y)) = Only(in_buffers[k][x], Between(x, y))
      BY <3>2, <3>3, OnlyAppend DEF AppendIf
    <3> QED BY <3>1, <3>4 DEF UnderWay, Between
  <2>2. CASE ~(k = n /\ x = p.src)
    <3>1. in_buffers'[k][x] = in_buffers[k][x]
      BY <1>2, <2>2 DEF TypeOK
    <3> QED BY <3>1 DEF UnderWay, Between
  <2> QED BY <2>1, <2>2
<1>4. UnderWay(n, p.src, p.dst)' = Append(UnderWay(n, p.src, p.dst), p)
  <2> DEFINE B == Between(p.src, p.dst)
             a == Only(out_buffers[n][p.dst], B)
             b == Only(in_buffers[n][p.src], B)
  <2>1. in_buffers'[n][p.src] = Append(in_buffers[n][p.src], p)
    BY <1>1, <1>2 DEF TypeOK
  <2>2. in_buffers[n][p.src] \in Seq(Packet) /\ a \in Seq(Packet) /\ b \in Seq(Packet)
    BY <1>1, UnderWayParts
  <2>3. Only(Append(in_buffers[n][p.src], p), B) = Append(b, p)
    BY <1>1, <2>2, OnlyAppend DEF AppendIf
  <2>4. \A x \in Seq(Packet), y \in Seq(Packet) : x \o Append(y, p) = Append(x \o y, p)
    OBVIOUS
  <2>5. a \o Append(b, p) = Append(a \o b, p)
    BY <2>2, <2>4
  <2> QED BY <2>1, <2>3, <2>5 DEF UnderWay, Between
<1> QED BY <1>1, <1>3, <1>4, OneChannel

\* A pop receives the first packet of its channel.
LEMMA PopReceives ==
  ASSUME TypeOK, Routed, NEW n \in Net, NEW d \in Node, out_buffers[n][d] # << >>,
         Pop(n, d), UNCHANGED in_buffers
  PROVE  Channels!Next
<1> DEFINE p == Head(out_buffers[n][d])
<1>1. p \in Packet /\ p.src \in Node /\ p.dst = d
  BY PopRouted, Nodes DEF To, OnNet, Packet
<1>2. out_buffers' = [out_buffers EXCEPT ![n][d] = Tail(@)]
  BY DEF Pop
<1>3. ASSUME NEW s \in Node
      PROVE  /\ out_buffers'[n][d] = Tail(out_buffers[n][d])
             /\ Only(out_buffers[n][d], Between(s, d)) =
                  IF p \in Between(s, d)
                    THEN <<p>> \o Only(Tail(out_buffers[n][d]), Between(s, d))
                    ELSE Only(Tail(out_buffers[n][d]), Between(s, d))
             /\ Only(Tail(out_buffers[n][d]), Between(s, d)) \in Seq(Packet)
  <2>1. out_buffers[n][d] \in Seq(Packet) /\ Tail(out_buffers[n][d]) \in Seq(Packet)
    BY HeadType DEF TypeOK
  <2>2. out_buffers'[n][d] = Tail(out_buffers[n][d])
    BY <1>2 DEF TypeOK
  <2> QED BY <2>1, <2>2, OnlyTail, OnlyType
<1>4. p \in Between(p.src, d) /\ \A s \in Node : s # p.src => p \notin Between(s, d)
  BY <1>1 DEF Between, Packet
<1>5. PICK o \in Node : o = p.src
  BY <1>1
<1> HIDE DEF p
<1>6. ASSUME NEW k \in Net, NEW x \in Node, NEW y \in Node, ~(k = n /\ x = o /\ y = d)
      PROVE  UnderWay(k, x, y)' = UnderWay(k, x, y)
  <2>1. CASE k = n /\ y = d
    BY <1>3, <1>4, <1>5, <1>6, <2>1 DEF UnderWay, Between
  <2>2. CASE ~(k = n /\ y = d)
    <3>1. out_buffers'[k][y] = out_buffers[k][y]
      BY <1>2, <2>2 DEF TypeOK
    <3> QED BY <3>1 DEF UnderWay, Between
  <2> QED BY <2>1, <2>2
<1>7. UnderWay(n, o, d) # << >> /\ UnderWay(n, o, d)' = Tail(UnderWay(n, o, d))
  <2> DEFINE a == Only(Tail(out_buffers[n][d]), Between(o, d))
             b == Only(in_buffers[n][o], Between(o, d))
  <2>1. a \in Seq(Packet) /\ b \in Seq(Packet)
    BY <1>3, UnderWayParts
  <2>2. UnderWay(n, o, d) = (<<p>> \o a) \o b
    BY <1>3, <1>4, <1>5 DEF UnderWay
  <2>3. UnderWay(n, o, d)' = a \o b
    BY <1>3 DEF UnderWay, Between
  <2>4. \A x \in Seq(Packet), y \in Seq(Packet) :
          (<<p>> \o x) \o y # << >> /\ Tail((<<p>> \o x) \o y) = x \o y
    BY <1>1
  <2> HIDE DEF a, b
  <2>5. (<<p>> \o a) \o b # << >> /\ Tail((<<p>> \o a) \o b) = a \o b
    BY <2>1, <2>4
  <2> QED BY <2>2, <2>3, <2>5
<1> QED BY <1>6, <1>7, OneChannel

\* A move from an input to an output buffer changes no channel: the packet leaves the
\* front of one part and joins the end of the other.
LEMMA MoveStutters ==
  ASSUME TypeOK, Routed, net \in Net, NEW s \in Node, in_buffers[net][s] # << >>, Move(s)
  PROVE  chan' = chan
<1> DEFINE p == Head(in_buffers[net][s])
<1>1. p \in Packet /\ p.src = s /\ p.dst \in Node
  BY MoveRouted, Nodes DEF From, OnNet, Packet
<1>2. /\ in_buffers' = [in_buffers EXCEPT ![net][s] = Tail(@)]
      /\ out_buffers' = [out_buffers EXCEPT ![net][p.dst] = Append(@, p)]
  BY DEF Move
<1>3. /\ in_buffers'[net][s] = Tail(in_buffers[net][s])
      /\ out_buffers'[net][p.dst] = Append(out_buffers[net][p.dst], p)
      /\ in_buffers[net][s] \in Seq(Packet) /\ Tail(in_buffers[net][s]) \in Seq(Packet)
      /\ out_buffers[net][p.dst] \in Seq(Packet)
  BY <1>1, <1>2, HeadType DEF TypeOK
<1>4. ASSUME NEW d \in Node
      PROVE  Only(in_buffers[net][s], Between(s, d)) =
               IF p \in Between(s, d)
                 THEN <<p>> \o Only(Tail(in_buffers[net][s]), Between(s, d))
                 ELSE Only(Tail(in_buffers[net][s]), Between(s, d))
  BY <1>3, OnlyTail
<1>5. ASSUME NEW x \in Node
      PROVE  Only(Append(out_buffers[net][p.dst], p), Between(x, p.dst)) =
               IF p \in Between(x, p.dst)
                 THEN Append(Only(out_buffers[net][p.dst], Between(x, p.dst)), p)
                 ELSE Only(out_buffers[net][p.dst], Between(x, p.dst))
  <2> DEFINE q == out_buffers[net][p.dst]
             B == Between(x, p.dst)
  <2>1. q \in Seq(Packet) /\ p \in Packet
    BY <1>1, <1>3
  <2> HIDE DEF p, q, B
  <2>2. Only(Append(q, p), B) = AppendIf(Only(q, B), p, B)
    BY <2>1, OnlyAppend
  <2>3. Only(Append(q, p), B) = IF p \in B THEN Append(Only(q, B), p) ELSE Only(q, B)
    BY <2>2 DEF AppendIf
  <2> QED BY <2>3 DEF q, B
<1>6. \A x \in Node, d \in Node : p \in Between(x, d) <=> x = s /\ d = p.dst
  BY <1>1 DEF Between, Packet
<1> HIDE DEF p
<1>7. ASSUME NEW k \in Net, NEW x \in Node, NEW d \in Node
      PROVE  UnderWay(k, x, d)' = UnderWay(k, x, d)
  <2>1. (k = net /\ x = s) \/ in_buffers'[k][x] = in_buffers[k][x]
    BY <1>2 DEF TypeOK
  <2>2. (k = net /\ d = p.dst) \/ out_buffers'[k][d] = out_buffers[k][d]
    BY <1>1, <1>2 DEF TypeOK
  <2>3. CASE k = net /\ x = s /\ d = p.dst
    <3> DEFINE a == Only(out_buffers[net][p.dst], Between(s, p.dst))
               b == Only(Tail(in_buffers[net][s]), Between(s, p.dst))
    <3>1. a \in Seq(Packet) /\ b \in Seq(Packet)
      BY <1>3, OnlyType
    <3>2. UnderWay(k, x, d) = a \o (<<p>> \o b)
      BY <1>1, <1>4, <1>6, <2>3 DEF UnderWay
    <3>3. UnderWay(k, x, d)' = Append(a, p) \o b
      BY <1>1, <1>3, <1>5, <1>6, <2>3 DEF UnderWay, Between
    <3>4. \A y \in Seq(Packet), z \in Seq(Packet) : Append(y, p) \o z = y \o (<<p>> \o z)
      BY <1>1
    <3> HIDE DEF a, b
    <3>5. Append(a, p) \o b = a \o (<<p>> \o b)
      BY <3>1, <3>4
    <3> QED BY <3>2, <3>3, <3>5
  <2>4. CASE k = net /\ x = s /\ d # p.dst
    <3>1. Only(in_buffers[net][s], Between(s, d)) = Only(Tail(in_buffers[net][s]), Between(s, d))
      BY <1>4, <1>6, <2>4
    <3> QED BY <1>3, <2>2, <2>4, <3>1 DEF UnderWay, Between
  <2>5. CASE k = net /\ x # s /\ d = p.dst
    <3>1. Only(Append(out_buffers[net][p.dst], p), Between(x, d)) = Only(out_buffers[net][p.dst], Between(x, d))
      BY <1>5, <1>6, <2>5
    <3> QED BY <1>3, <2>1, <2>5, <3>1 DEF UnderWay, Between
  <2>6. CASE ~(k = net /\ x = s) /\ ~(k = net /\ d = p.dst)
    BY <2>1, <2>2, <2>6 DEF UnderWay, Between
  <2> QED BY <2>3, <2>4, <2>5, <2>6
<1> QED BY <1>7, NoChannel

\* Every step of the crossbar is a step of the abstract network or a stutter.
LEMMA StepSimulation ==
  ASSUME TypeOK, Routed, [Next]_vars
  PROVE  [Channels!Next]_chan
<1>1. ASSUME NEW s \in Shader, NEW m \in Mem, NEW t \in Tags, InjectRequest(s, m, t)
      PROVE  Channels!Next
  <2> DEFINE p == [src |-> s, dst |-> m, tag |-> t]
  <2>1. p \in Packet /\ REQ_NET \in Net
    BY Nodes DEF Packet, Net
  <2>2. Push(REQ_NET, p) /\ UNCHANGED out_buffers
    BY <1>1 DEF InjectRequest
  <2> HIDE DEF p
  <2> QED BY <2>1, <2>2, PushSends
<1>2. ASSUME NEW m \in Mem, TakeRequest(m)
      PROVE  Channels!Next
  <2>1. m \in Node /\ REQ_NET \in Net
    BY Nodes DEF Net
  <2> QED BY <1>2, <2>1, PopReceives DEF TakeRequest
<1>3. ASSUME NEW m \in Mem, SendReply(m)
      PROVE  Channels!Next
  <2> DEFINE p == [src |-> m, dst |-> Head(held[m]).src, tag |-> Head(held[m]).tag]
  <2>1. Head(held[m]) \in Packet
    <3>1. held[m] \in Seq(Packet)
      BY DEF TypeOK
    <3> QED BY <1>3, <3>1, HeadType DEF SendReply
  <2>2. p \in Packet /\ REPLY_NET \in Net
    BY <2>1, Nodes DEF Packet, Net
  <2>3. Push(REPLY_NET, p) /\ UNCHANGED out_buffers
    BY <1>3 DEF SendReply
  <2> HIDE DEF p
  <2> QED BY <2>2, <2>3, PushSends
<1>4. ASSUME NEW s \in Shader, NEW room \in BOOLEAN, IcntCycle(s, room)
      PROVE  [Channels!Next]_chan
  <2>1. s \in Node /\ REPLY_NET \in Net
    BY Nodes DEF Net
  <2>2. UNCHANGED in_buffers
    BY <1>4 DEF IcntCycle
  <2>3. CASE out_buffers[REPLY_NET][s] # << >> /\ Pop(REPLY_NET, s)
    BY <2>1, <2>2, <2>3, PopReceives
  <2>4. CASE UNCHANGED out_buffers
    BY <2>2, <2>4, NoChannel DEF UnderWay, Between
  <2> QED BY <1>4, <2>3, <2>4 DEF IcntCycle
<1>5. ASSUME NEW i \in Node, AdvanceTurn(i)
      PROVE  chan' = chan
  BY <1>5, TurnMoves, MoveStutters
<1>6. CASE Transfer \/ EndAdvance \/ UNCHANGED vars
  <2>1. UNCHANGED <<in_buffers, out_buffers>>
    BY <1>6 DEF Transfer, EndAdvance, vars, routers
  <2> QED BY <2>1, NoChannel DEF UnderWay, Between
<1> QED BY <1>1, <1>2, <1>3, <1>4, <1>5, <1>6 DEF Next

(***************************************************************************)
(* The crossbar, with either arbiter and with any buffer sizes, implements *)
(* FIFO channels: between two nodes of a net no packet is lost, delivered  *)
(* twice, delivered elsewhere or overtaken by a later one, although the    *)
(* routers and the pushes and pops at the ends compete for the buffers.    *)
(***************************************************************************)
THEOREM CrossbarInOrder == Spec => InOrder
<1>1. Init => Channels!Init
  <2> SUFFICES ASSUME Init PROVE Channels!Init
    OBVIOUS
  <2>1. ASSUME NEW n \in Net, NEW s \in Node, NEW d \in Node
        PROVE  UnderWay(n, s, d) = << >>
    <3>1. in_buffers[n][s] = << >> /\ out_buffers[n][d] = << >>
      BY DEF Init
    <3> QED BY <3>1, OnlyEmpty DEF UnderWay
  <2> QED BY <2>1 DEF chan, Channels!Init
<1>2. TypeOK /\ Routed /\ [Next]_vars => [Channels!Next]_chan
  BY StepSimulation
<1> QED BY <1>1, <1>2, TypeCorrect, RoutingCorrect, PTL DEF Spec, InOrder, Channels!Spec

================================================================================
