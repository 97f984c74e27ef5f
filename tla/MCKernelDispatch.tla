--------------------------- MODULE MCKernelDispatch ---------------------------
(* Small instances of KernelDispatch: three kernels in two slots. *)
EXTENDS KernelDispatch

CONSTANTS k1, k2, k3

Load(concurrent, limit, grid, size, smem, latency) ==
  [concurrent |-> concurrent, limit |-> limit,
   grid    |-> [k \in Kernel |-> grid[k]],    size    |-> [k \in Kernel |-> size[k]],
   smem    |-> [k \in Kernel |-> smem[k]],    latency |-> [k \in Kernel |-> latency[k]]]

Three(x, y, z) == [k \in Kernel |-> CASE k = k1 -> x [] k = k2 -> y [] k = k3 -> z]

\* Sizes that divide the threads of a core, in both modes, with and without a
\* CTA limit, with shared memory or CTA ids as the scarce resource.
MCWorkloads ==
  {Load(m, lim, Three(5, 1, 1), Three(1, 2, 1), Three(1, 0, 2), Three(0, 1, 2)) :
     m \in BOOLEAN, lim \in {0, 3}}

\* A small CTA on the core makes a larger one start beside it.
MixedSizes ==
  {Load(TRUE, 0, Three(1, 1, 1), Three(1, 3, 2), Three(0, 0, 0), Three(0, 0, 0))}

===============================================================================
