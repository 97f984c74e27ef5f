------------------------------ MODULE ControlFlow ------------------------------
(***************************************************************************)
(* The control-flow graph of a PTX function (function_info in ptx_ir.cc).  *)
(* A function is a sequence of instructions; its basic blocks are numbered *)
(* from 0 in the order of the code, and the last number is the             *)
(* distinguished exit block, which holds no instruction.                   *)
(*                                                                         *)
(* A function here ends with an instruction that does not fall through.    *)
(***************************************************************************)
EXTENDS Integers, Sequences, FiniteSets

\* What an instruction is for the control flow: RET, RETP and EXIT behave alike
\* except that a ret in a called function goes back to the caller.
Opcode == {"alu", "bra", "call", "ret", "exit"}

\* pred: the instruction has a guard predicate; target: index of the label of a
\* bra, or number of the function of a call.
Instruction(n) == [op : Opcode, pred : BOOLEAN, target : 1 .. n]

\* create_basic_blocks: the first instruction, the labels, and what follows an
\* instruction that may leave the block.
Leaders(f) ==
  LET n == Len(f) IN
  {1}
  \cup {f[i].target : i \in {j \in 1 .. n : f[j].op = "bra"}}
  \cup {i + 1 : i \in {j \in 1 .. n - 1 : \/ f[j].op \in {"bra", "ret", "exit"}
                                          \/ f[j].op = "call" /\ f[j].pred}}

\* bb_id of the exit block.
ExitBlock(f) == Cardinality(Leaders(f))

Blocks(f) == 0 .. ExitBlock(f)

\* get_bb of the i-th instruction.
BlockOf(f, i) == Cardinality({l \in Leaders(f) : l <= i}) - 1

\* ptx_begin and ptx_end of block b.
BlockBegin(f, b) == CHOOSE l \in Leaders(f) : BlockOf(f, l) = b

BlockEnd(f, b) ==
  CHOOSE i \in 1 .. Len(f) :
    BlockOf(f, i) = b /\ (i = Len(f) \/ BlockOf(f, i + 1) # b)

\* connect_basic_blocks: successor_ids of block b.
Succ(f, b) ==
  LET e == BlockEnd(f, b)
      jump == CASE f[e].op \in {"ret", "exit"} -> {ExitBlock(f)}
                [] f[e].op = "bra"             -> {BlockOf(f, f[e].target)}
                [] OTHER                       -> {}
      fall == IF f[e].op \in {"ret", "exit", "bra"} /\ ~f[e].pred
                THEN {} ELSE {BlockOf(f, e + 1)}
  IN IF b = ExitBlock(f) THEN {} ELSE jump \cup fall

\* The graph: successor_ids of every block.
Graph(f) == [b \in Blocks(f) |-> Succ(f, b)]

-------------------------------------------------------------------------------
(***************************************************************************)
(* Dominance in a graph g, by its meaning: which blocks lie on every path. *)
(***************************************************************************)
LastBlock(g) == Cardinality(DOMAIN g) - 1

\* predecessor_ids of block b.
Pred(g, b) == {p \in DOMAIN g : b \in g[p]}

\* Blocks on the paths that start at block b and never enter block `avoid`.
ReachAvoiding(g, b, avoid) ==
  LET R[k \in 0 .. LastBlock(g) + 1] ==
        IF k = 0 THEN {b} \ {avoid}
        ELSE LET r == R[k - 1] IN r \cup ((UNION {g[x] : x \in r}) \ {avoid})
  IN R[LastBlock(g) + 1]

Reach(g, b) == ReachAvoiding(g, b, -1)

\* Block d lies on every path from block b to the exit block.
PostDominates(g, d, b) == LastBlock(g) \notin ReachAvoiding(g, b, d)

\* Block d lies on every path from the entry block to block b.
Dominates(g, d, b) == b \notin ReachAvoiding(g, 0, d)

\* Block d is the nearest block after b that lies on every path to the exit.
ImmediatelyPostDominates(g, d, b) ==
  /\ d # b /\ PostDominates(g, d, b)
  /\ \A x \in DOMAIN g \ {b} : PostDominates(g, x, b) => PostDominates(g, x, d)

\* Block d is the nearest block before b that lies on every path from the entry.
ImmediatelyDominates(g, d, b) ==
  /\ d # b /\ Dominates(g, d, b)
  /\ \A x \in DOMAIN g \ {b} : Dominates(g, x, b) => Dominates(g, x, d)

\* From every block the end of the function can be reached.
Terminating(g) == \A b \in DOMAIN g : LastBlock(g) \in Reach(g, b)

================================================================================
