----------------------------- MODULE PostDominators -----------------------------
(***************************************************************************)
(* function_info::do_pdom (ptx_ir.cc): the analysis that finds, for each   *)
(* branch of a PTX function, the block where diverged threads of a warp    *)
(* meet again.  It computes the dominator and postdominator sets of all    *)
(* blocks by iteration and thins them out to immediate (post)dominators.   *)
(* One action is one visit of a block, or one of the loops that follow.    *)
(* WarpReconvergence runs it on the functions of a program.                *)
(***************************************************************************)
EXTENDS ControlFlow

VARIABLES
  g,       \* successor_ids, once connect_basic_blocks has run
  phase,   \* the step of do_pdom that is next
  h,       \* the block the running sweep visits next
  change,  \* has this sweep changed a set?
  dom,     \* dominator_ids
  pdom,    \* postdominator_ids
  idom,    \* Tmp_ids at the end of find_idominators
  ipdom    \* Tmp_ids at the end of find_ipostdominators

vars == <<g, phase, h, change, dom, pdom, idom, ipdom>>

B == DOMAIN g
Exit == LastBlock(g)

Init ==
  /\ phase = "idle" /\ h = 1 /\ change = FALSE
  /\ g = << >> /\ dom = << >> /\ pdom = << >> /\ idom = << >> /\ ipdom = << >>

\* The analysis of a function with this graph starts.
Start(graph) ==
  LET all == DOMAIN graph
      last == LastBlock(graph)
  IN
  /\ phase = "idle"
  /\ g' = graph
  /\ phase' = "dominators" /\ h' = 1 /\ change' = FALSE
  /\ dom'   = [b \in all |-> IF b = 0 THEN {0} ELSE all]
  /\ pdom'  = [b \in all |-> IF b = last THEN {last} ELSE all]
  /\ idom'  = [b \in all |-> {}]
  /\ ipdom' = [b \in all |-> {}]

\* intersect(): what the sets have in common; all blocks when there is none.
Meet(sets) == {b \in B : \A s \in sets : b \in s}

VisitDom_KeepsChange ==
  LET T == Meet({dom[p] : p \in Pred(g, h)}) \cup {h}
      changed == change \/ T # dom[h]
  IN
  /\ phase = "dominators"
  /\ dom' = [dom EXCEPT ![h] = T]
  /\ change' = changed
  /\ IF h < Exit THEN h' = h + 1 /\ UNCHANGED phase
     ELSE IF changed THEN h' = 1 /\ UNCHANGED phase
     ELSE phase' = "idominators" /\ UNCHANGED h
  /\ UNCHANGED <<g, pdom, idom, ipdom>>

\* One visit of find_dominators.  A sweep that changed something is repeated;
\* at the end the sets of blocks without predecessor are cleared.
VisitDom ==
  LET T == Meet({dom[p] : p \in Pred(g, h)}) \cup {h}
      changed == change \/ T # dom[h]
      swept == [dom EXCEPT ![h] = T]
  IN
  /\ phase = "dominators"
  /\ IF h < Exit
       THEN h' = h + 1 /\ change' = changed /\ dom' = swept /\ UNCHANGED phase
       ELSE IF changed
         THEN h' = 1 /\ change' = FALSE /\ dom' = swept /\ UNCHANGED phase
         ELSE /\ phase' = "idominators"
              /\ dom' = [b \in B |-> IF b # 0 /\ Pred(g, b) = {} THEN {} ELSE swept[b]]
              /\ UNCHANGED <<h, change>>
  /\ UNCHANGED <<g, pdom, idom, ipdom>>

\* The nested loops over Tmp_ids: every s that is still there, in increasing
\* order, removes the other elements of its own set.
Thin(sets, n) ==
  LET T[k \in 0 .. Exit + 1] ==
        IF k = 0 THEN sets[n] \ {n}
        ELSE LET t == T[k - 1]
             IN IF k - 1 \in t THEN t \ (sets[k - 1] \ {k - 1}) ELSE t
  IN T[Exit + 1]

FindIdominators ==
  /\ phase = "idominators"
  /\ idom' = [n \in B |-> Thin(dom, n)]
  /\ phase' = "postdominators" /\ h' = Exit - 1 /\ change' = FALSE
  /\ UNCHANGED <<g, dom, pdom, ipdom>>

VisitPostdom_OneSweep ==
  /\ phase = "postdominators"
  /\ pdom' = [pdom EXCEPT ![h] = Meet({pdom[s] : s \in g[h]}) \cup {h}]
  /\ IF h > 0 THEN h' = h - 1 /\ UNCHANGED phase
              ELSE phase' = "ipostdominators" /\ UNCHANGED h
  /\ UNCHANGED <<g, change, dom, idom, ipdom>>

\* One visit of find_postdominators, which sweeps from the last block to the first.
VisitPostdom ==
  LET T == Meet({pdom[s] : s \in g[h]}) \cup {h}
      changed == change \/ T # pdom[h]
  IN
  /\ phase = "postdominators"
  /\ pdom' = [pdom EXCEPT ![h] = T]
  /\ IF h > 0
       THEN h' = h - 1 /\ change' = changed /\ UNCHANGED phase
       ELSE IF changed
         THEN h' = Exit - 1 /\ change' = FALSE /\ UNCHANGED phase
         ELSE phase' = "ipostdominators" /\ UNCHANGED <<h, change>>
  /\ UNCHANGED <<g, dom, idom, ipdom>>

FindIpostdominators ==
  /\ phase = "ipostdominators"
  /\ ipdom' = [n \in B |-> IF n = Exit THEN pdom[n] \ {n} ELSE Thin(pdom, n)]
  /\ phase' = "done"
  /\ UNCHANGED <<g, h, change, dom, pdom, idom>>

Next == VisitDom \/ FindIdominators \/ VisitPostdom \/ FindIpostdominators

-------------------------------------------------------------------------------

\* At the end, get_reconvergence_pairs finds for each block exactly the nearest
\* block that lies on every path to the exit.
ReconvergencePoint ==
  phase = "done" =>
    \A b \in B \ {Exit} : \E d \in B :
      ipdom[b] = {d} /\ ImmediatelyPostDominates(g, d, b)

\* At the end, the immediate dominators that find_break_target climbs are right
\* for every block the function can reach.
ImmediateDominator ==
  phase = "done" =>
    \A b \in Reach(g, 0) \ {0} : \E d \in B :
      idom[b] = {d} /\ ImmediatelyDominates(g, d, b)

================================================================================
