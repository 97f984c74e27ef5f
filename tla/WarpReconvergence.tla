--------------------------- MODULE WarpReconvergence ---------------------------
(***************************************************************************)
(* A program from its analysis to the end of a warp: do_pdom runs on every *)
(* function, pre_decode stores the reconvergence PC of each branch in the  *)
(* instructions (cuda-sim.cc), and a warp executes the program with them.  *)
(***************************************************************************)
EXTENDS SimtStack

VARIABLES
  fn,      \* the function that is analysed
  g, phase, h, change, dom, pdom, idom, ipdom   \* of the analysis

Analysis == INSTANCE PostDominators

avars == <<g, phase, h, change, dom, pdom, idom, ipdom>>
allvars == <<vars, fn, avars>>

Init ==
  /\ code \in Programs
  /\ fn = 1 /\ Analysis!Init
  /\ recvg = << >>
  /\ pc = [t \in Thread |-> NULL_PC] /\ callstack = [t \in Thread |-> << >>]
  /\ done = Thread /\ stack = << >>

Analyse ==
  /\ Analysis!Next \/ (fn <= Len(code) /\ Analysis!Start(Graph(code[fn])))
  /\ UNCHANGED <<vars, fn>>

ConvergePoint_LastBlock(p) ==
  LET f == code[p[1]]
      b == BlockOf(f, p[2])
      d == CHOOSE x \in pdom[b] \ {b} : \A y \in pdom[b] \ {b} : y <= x
  IN IF f[p[2]].op # "bra" THEN NULL_PC
     ELSE IF d = ExitBlock(f) THEN RETURN_PC ELSE <<p[1], BlockBegin(f, d)>>

\* get_reconvergence_pairs and get_converge_point: the first instruction of the
\* immediate postdominator that the analysis has found for a branch.
ConvergePoint(p) ==
  LET f == code[p[1]]
      d == CHOOSE x \in ipdom[BlockOf(f, p[2])] : TRUE
  IN IF f[p[2]].op # "bra" THEN NULL_PC
     ELSE IF d = ExitBlock(f) THEN RETURN_PC ELSE <<p[1], BlockBegin(f, d)>>

\* pre_decode of the function that has been analysed.
PreDecode ==
  LET here == {<<fn, i>> : i \in 1 .. Len(code[fn])} IN
  /\ phase = "done"
  /\ recvg' = [p \in DOMAIN recvg \cup here |->
                 IF p \in here THEN ConvergePoint(p) ELSE recvg[p]]
  /\ fn' = fn + 1
  /\ phase' = "idle"
  /\ UNCHANGED <<code, pc, callstack, done, stack, g, h, change, dom, pdom, idom, ipdom>>

\* The kernel is launched when all its functions have been decoded.
LaunchWarp ==
  /\ phase = "idle" /\ fn > Len(code)
  /\ \E mask \in (SUBSET Thread) \ {{}} : Launch(mask)
  /\ phase' = "launched"
  /\ UNCHANGED <<code, recvg, fn, g, h, change, dom, pdom, idom, ipdom>>

Execute == Issue /\ UNCHANGED <<fn, avars>>

Next == Analyse \/ PreDecode \/ LaunchWarp \/ Execute

Spec == Init /\ [][Next]_allvars

\* The analysis is one thread that waits for nothing, and a warp that is alone on its core
\* is issued again and again.
FairSpec == Spec /\ WF_allvars(Next)

-------------------------------------------------------------------------------

\* At the end of the analysis of a function, get_reconvergence_pairs finds for each block
\* exactly the nearest block that lies on every path to the exit, and find_break_target
\* finds the nearest one on every path from the entry.
NearestDominators == Analysis!ReconvergencePoint /\ Analysis!ImmediateDominator

\* No branch leads back, and functions call only later ones.
NoLoops ==
  \A k \in DOMAIN code :
    /\ LET G == Graph(code[k]) IN \A b \in DOMAIN G : \A s \in G[b] : b \notin Reach(G, s)
    /\ \A i \in DOMAIN code[k] : code[k][i].op = "call" => code[k][i].target > k

(***************************************************************************)
(* The sweeps of the analysis reach a fixed point for every function, and  *)
(* a warp whose program has no loop and no recursion comes to its end,     *)
(* wherever its threads diverge, return and exit: update pops every entry  *)
(* that it has pushed.                                                     *)
(***************************************************************************)
WarpEnds == <>(phase = "launched" /\ (NoLoops => done = Thread))

================================================================================
