--------------------------- MODULE MCMemoryPartition ---------------------------
(* Small workloads for a memory partition with two sub-partitions and two banks. *)
EXTENDS MemoryPartition, TLC

Req(i, k, s, b, r) == [id |-> i, kind |-> k, sp |-> s, bank |-> b, row |-> r]

Load(p0, p1, d0, d1) == [packets |-> 0 :> p0 @@ 1 :> p1, dirty |-> 0 :> d0 @@ 1 :> d1]

\* Texture reads in one packet behind another read, and the write-backs of both caches.
Textures ==
  Load(<< <<Req(1, "read", 0, 0, 1)>>, <<Req(2, "texture", 0, 0, 2), Req(3, "texture", 0, 0, 1)>> >>,
       << <<Req(4, "l1_wrbk", 1, 0, 1)>> >>, {Req(5, "l2_wrbk", 0, 1, 1)}, {})

\* Both sub-partitions write back and read on, in two rows of a bank.
WriteBacks ==
  Load(<< <<Req(1, "read", 0, 0, 1)>>, <<Req(2, "read", 0, 0, 2)>> >>,
       << <<Req(3, "write", 1, 0, 2)>>, <<Req(4, "read", 1, 0, 1)>> >>,
       {Req(5, "l2_wrbk", 0, 0, 1)}, {Req(6, "l2_wrbk", 1, 0, 2)})

MCWorkloads == {Textures, WriteBacks}

C(l2, split, simple) == [l2 |-> l2, split |-> split, simple |-> simple]

\* With the L2 cache on, only write-backs are written to the DRAM.
MCConfigs == {C(FALSE, FALSE, FALSE), C(TRUE, FALSE, FALSE), C(TRUE, TRUE, FALSE),
              C(TRUE, FALSE, TRUE), C(FALSE, FALSE, TRUE)}

SplitQueues == {C(TRUE, TRUE, FALSE)}

MCRows == {1, 2}

================================================================================
