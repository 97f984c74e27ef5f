------------------------------- MODULE SimtStack -------------------------------
(***************************************************************************)
(* A warp: threads that execute one instruction together, and the stack    *)
(* that says which of them are active and where diverged threads meet      *)
(* again (simt_stack and core_t in abstract_hardware_model.cc).  The       *)
(* functional simulator keeps a program counter and a call stack of its    *)
(* own for every thread (ptx_thread_info in ptx_sim.cc); the timing model  *)
(* and the functional one have to agree.  WarpReconvergence puts the warp  *)
(* together with the analysis that finds the reconvergence points.         *)
(***************************************************************************)
EXTENDS ControlFlow

CONSTANTS
  WarpSize,   \* m_warp_size
  Programs,   \* programs: sequences of functions, the first one is the kernel
  MaxDepth    \* bound of the model: nested calls of a thread

ASSUME WarpAssumption == WarpSize \in Nat \ {0} /\ MaxDepth \in Nat

Thread == 1 .. WarpSize

\* A program counter is a function and the index of an instruction in it.
NULL_PC == <<0, 1>>      \* null_pc, NO_BRANCH_DIVERGENCE: (address_type)-1
RETURN_PC == <<0, 2>>    \* RECONVERGE_RETURN_PC: (address_type)-2
BASE_PC == <<0, 0>>      \* m_PC = 0 of the first entry of a call stack

VARIABLES
  code,       \* the program
  recvg,      \* reconvergence_pc of each instruction (pre_decode)
  pc,         \* ptx_thread_info::m_PC
  callstack,  \* ptx_thread_info::m_callstack: the return addresses
  done,       \* the threads that have exited
  stack       \* simt_stack::m_stack, the top is the last element

vars == <<code, recvg, pc, callstack, done, stack>>

Entry(p, mask, rpc, type) == [pc |-> p, mask |-> mask, recvg |-> rpc, type |-> type]

Top == stack[Len(stack)]

\* launch: the threads that exist are active and start the kernel.
Launch(mask) ==
  /\ pc' = [t \in Thread |-> <<1, 1>>]
  /\ callstack' = [t \in Thread |-> <<BASE_PC>>]
  /\ done' = Thread \ mask
  /\ stack' = <<Entry(<<1, 1>>, mask, NULL_PC, "NORMAL")>>

-------------------------------------------------------------------------------
(***************************************************************************)
(* execute_warp_inst_t: every active thread executes the instruction; it   *)
(* is skipped by the threads whose predicate is false.                     *)
(***************************************************************************)
Follow(p) == <<p[1], p[2] + 1>>

Front(s) == SubSeq(s, 1, Len(s) - 1)

Last(s) == s[Len(s)]

\* bra_impl, call_impl, ret_impl: the next PC of a thread that executes i at p.
NextPC(i, p, calls) ==
  CASE i.op = "bra"  -> <<p[1], i.target>>
    [] i.op = "call" -> <<i.target, 1>>
    [] i.op = "ret"  -> Last(calls)
    [] OTHER         -> Follow(p)

\* callstack_push and callstack_pop.
NextCallstack(i, p, calls) ==
  CASE i.op = "call" -> Append(calls, Follow(p))
    [] i.op = "ret"  -> Front(calls)
    [] OTHER         -> calls

\* exit_impl, and ret_impl when the call stack becomes empty.
Exits(i, calls) == i.op = "exit" \/ (i.op = "ret" /\ Len(calls) = 1)

-------------------------------------------------------------------------------
(***************************************************************************)
(* simt_stack::update, after instruction i at PC p.  path[q] is the set of *)
(* active threads that go on at q; rpc is the reconvergence PC of i.       *)
(***************************************************************************)

\* Entries for the paths qs, the not-taken one first, so that the taken one runs
\* first; the first of them reuses an existing entry of the given type.
PathEntries(qs, path, p, rpc, type) ==
  LET entry(q, ty) == Entry(q, path[q], rpc, ty)
      taken == CHOOSE q \in qs : q # Follow(p)
  IN CASE qs = {}                            -> << >>
       [] Cardinality(qs) = 1                -> <<entry(CHOOSE q \in qs : TRUE, type)>>
       [] OTHER -> <<entry(Follow(p), type), entry(taken, "NORMAL")>>

\* The warp diverges: unless it reconverges where the top entry does, the top
\* entry waits at the reconvergence PC, below the paths that are not there yet.
Diverge(path, p, rpc) ==
  LET live == {q \in DOMAIN path : q # rpc /\ ~(q = Top.recvg /\ Top.type # "CALL")} IN
  IF rpc # Top.recvg
    THEN Front(stack) \o <<[Top EXCEPT !.pc = rpc]>>
           \o PathEntries(live, path, p, rpc, "NORMAL")
    ELSE Front(stack) \o PathEntries(live, path, p, rpc, Top.type)

\* All threads go on at q: they leave the top entry if they reconverge there.
Converge(path, q) ==
  IF q = Top.recvg /\ Top.type # "CALL"
    THEN Front(stack)
    ELSE Append(Front(stack), Entry(q, path[q], Top.recvg, Top.type))

ReturnFromCall_KeepsPC(q) == Front(stack)

\* The call returns to q: drop the CALL entry, and the caller's entry too if it
\* reconverges there.
ReturnFromCall(q) ==
  LET caller == stack[Len(stack) - 1] IN
  IF q = caller.recvg /\ caller.type # "CALL"
    THEN SubSeq(stack, 1, Len(stack) - 2)
    ELSE Append(SubSeq(stack, 1, Len(stack) - 2), [caller EXCEPT !.pc = q])

Update(i, path, p, rpc) ==
  LET q == CHOOSE x \in DOMAIN path : TRUE IN
  IF DOMAIN path = {} THEN Front(stack)
  ELSE IF i.op = "call" THEN Append(stack, Entry(q, path[q], NULL_PC, "CALL"))
  ELSE IF i.op = "ret" /\ Top.type = "CALL" THEN ReturnFromCall(q)
  ELSE IF Cardinality(DOMAIN path) = 1 THEN Converge(path, q)
  ELSE Diverge(path, p, rpc)

\* updateSIMTStack: a branch without a reconvergence block reconverges at the
\* return address of the first thread of the warp that has not exited.
ReconvergencePC(p, calls, over) ==
  IF recvg[p] = RETURN_PC /\ over # Thread
    THEN Last(calls[CHOOSE t \in Thread \ over : \A u \in Thread \ over : t <= u])
    ELSE recvg[p]

-------------------------------------------------------------------------------
(***************************************************************************)
(* The warp issues the instruction at the top of its stack.  The guards    *)
(* are the assertions of ptx_exec_inst and update: the active threads are  *)
(* at that instruction, and calls and returns do not diverge.              *)
(***************************************************************************)
Agrees(t) == t \notin done /\ pc[t] = Top.pc

Issue ==
  LET p == Top.pc
      i == code[p[1]][p[2]]
      mask == Top.mask
  IN
  /\ done # Thread
  /\ stack # << >>
  /\ \A t \in mask : Agrees(t)
  /\ i.op = "call" => \A t \in mask : Len(callstack[t]) <= MaxDepth
  /\ \E act \in IF i.pred THEN SUBSET mask ELSE {mask} :
       LET over == done \cup {t \in act : Exits(i, callstack[t])}
           next == [t \in Thread |-> IF t \in act THEN NextPC(i, p, callstack[t])
                                     ELSE IF t \in mask THEN Follow(p) ELSE pc[t]]
           calls == [t \in Thread |-> IF t \in act THEN NextCallstack(i, p, callstack[t])
                                                   ELSE callstack[t]]
           path == [q \in {next[t] : t \in mask \ over} |->
                      {t \in mask \ over : next[t] = q}]
       IN /\ (i.op = "call" \/ (i.op = "ret" /\ Top.type = "CALL"))
               => Cardinality(DOMAIN path) <= 1
          /\ done' = over
          /\ pc' = next
          /\ callstack' = calls
          /\ stack' = Update(i, path, p, ReconvergencePC(p, calls, over))
  /\ UNCHANGED <<code, recvg>>

-------------------------------------------------------------------------------

Live == Thread \ done

(***************************************************************************)
(* The stack and the threads agree.  The threads that the stack makes      *)
(* active have not exited and are at its PC (the assertions of update and  *)
(* ptx_exec_inst), and every thread that is left is in the stack, where    *)
(* its uppermost entry waits at the PC of the thread: no thread is lost,   *)
(* skips code or executes it twice after a reconvergence.                  *)
(***************************************************************************)
InSync ==
  Live # {} =>
    /\ stack # << >> /\ \A t \in Top.mask : Agrees(t)
    /\ \A t \in Live :
         LET in == {k \in 1 .. Len(stack) : t \in stack[k].mask}
             top == CHOOSE k \in in : \A j \in in : j <= k
         IN in # {} /\ stack[top].pc = pc[t]

(***************************************************************************)
(* Threads are together again as soon as the program allows it: a block of *)
(* the kernel that every thread passes exactly once is executed by all the *)
(* threads at the same time.                                               *)
(***************************************************************************)
Reconverged ==
  LET f == code[1]
      g == Graph(f)
      b == BlockOf(f, Top.pc[2])
      once == PostDominates(g, b, 0) /\ ~ \E s \in g[b] : b \in Reach(g, s)
  IN (Live # {} /\ Top.pc[1] = 1 /\ once) => Top.mask = Live

================================================================================
