-------------------------- MODULE MCWarpReconvergence --------------------------
(* Small programs: all control-flow graphs of a few instructions, and calls. *)
EXTENDS WarpReconvergence

I(o, p, t) == [op |-> o, pred |-> p, target |-> t]
Alu  == I("alu", FALSE, 1)
ExitI(p) == I("exit", p, 1)
Ret(p)  == I("ret", p, 1)
Bra(p, t) == I("bra", p, t)
Call(k) == I("call", FALSE, k)

Ends(f) == Terminating(Graph(f))

\* Every kernel of n instructions that can always end.
Kernels(n) ==
  LET body == {Alu, ExitI(FALSE), ExitI(TRUE)} \cup {Bra(p, t) : p \in BOOLEAN, t \in 1 .. n}
      last == {ExitI(FALSE)} \cup {Bra(FALSE, t) : t \in 1 .. n}
  IN {f \in {Append(s, x) : s \in [1 .. n - 1 -> body], x \in last} : Ends(f)}

\* Kernels and functions that call: loops and branches around the calls, and a
\* function with one return at its end.
Callers == {<<a, b, c, ExitI(FALSE)>> :
              a \in {Bra(TRUE, 3), Bra(TRUE, 4), Call(2)},
              b \in {Call(2), Alu, Bra(FALSE, 4)},
              c \in {Call(2), Alu, Bra(TRUE, 1), ExitI(TRUE)}}
Callees == {<<a, b, Ret(FALSE)>> :
              a \in {Alu, Bra(TRUE, 3), Bra(FALSE, 3)},
              b \in {Alu, Call(2), Bra(TRUE, 1)}}
Calls == {<<a, b>> : a \in {f \in Callers : Ends(f)}, b \in {f \in Callees : Ends(f)}}

\* A call in one arm of a branch, to a function that returns in two places.
TwoReturns == {<< <<Bra(TRUE, 3), Call(2), ExitI(FALSE)>>,
                  <<Bra(TRUE, 3), Ret(FALSE), Ret(FALSE)>> >>}

AllPrograms == {<<f>> : f \in Kernels(4)} \cup Calls

================================================================================
