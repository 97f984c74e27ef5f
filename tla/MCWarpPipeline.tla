----------------------------- MODULE MCWarpPipeline -----------------------------
(* Small programs for a core with two warp slots and two registers. *)
EXTENDS WarpPipeline

I(op, out, in, n) == [op |-> op, out |-> out, in |-> in, n |-> n, line |-> 0, target |-> 0]
Exit == I("exit", 0, {}, 0)
Jump(t) == [I("jump", 0, {}, 0) EXCEPT !.target = t]

MCReg == {1, 2}

\* A load in two parts, whose result is used, stored and overwritten.
LoadUse == <<I("load", 1, {}, 2), I("alu", 2, {1}, 0), I("store", 0, {2}, 1), Exit>>
\* The same register is written again, then the warp ends with the load under way.
Overwrite == <<I("store", 0, {}, 2), I("alu", 1, {}, 0), I("load", 1, {}, 1), Exit>>
\* A jump over an instruction, a memory barrier and an atomic operation.
Fence == <<Jump(3), I("alu", 1, {}, 0), I("membar", 0, {}, 0), I("atomic", 1, {}, 2), Exit>>
Shared == <<I("shared", 1, {}, 0), I("nc", 2, {}, 1), Exit>>

Nc == <<I("nc", 1, {}, 1), Exit>>
StoreFence == <<I("store", 0, {}, 1), I("membar", 0, {}, 0), Exit>>

S(skip, latency, programs) == [skip |-> skip, latency |-> latency, programs |-> programs]

MCScenarios ==
  [skip : {FALSE}, latency : BOOLEAN, programs : {<<LoadUse, Overwrite>>, <<Fence, Shared, Nc>>}]
  \cup {S(TRUE, TRUE, <<LoadUse, Overwrite>>)}

\* A store and a memory barrier.
FenceOnly == {S(FALSE, TRUE, <<StoreFence>>)}

\* Two warps read the same line past gmem_skip_L1D.
SkipNc == {S(TRUE, TRUE, <<Nc, Nc>>)}

================================================================================
