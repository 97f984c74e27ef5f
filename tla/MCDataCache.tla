------------------------------ MODULE MCDataCache ------------------------------
(* Instances of DataCache for TLC: the configurations the runs explore. *)
EXTENDS DataCache, TLC

CONSTANTS b1, b2, b3, s1, s2, r1, r2, r3, h1, h2, none

\* Requests and sectors are interchangeable, and so are blocks: the blocks of local memory
\* are chosen in the initial state.
Symmetry == Permutations(Ids) \cup Permutations(Blocks) \cup Permutations(Sectors)

AnyBytes == {{h1}, {h1, h2}}

Policies(write, alloc) ==
  [write |-> write, alloc |-> alloc, replacement |-> "LRU", wr_percent |-> 0,
   local |-> {}, ops |-> {"read", "write"}, masks |-> {{h1, h2}},
   invalidates |-> {}]

\* The L2 of the older configurations; flushed between kernels; with atomics.
Naive == Policies("WRITE_BACK", "WRITE_ALLOCATE")
NaiveFlushed == [Naive EXCEPT !.invalidates = {"flush"}]
NaiveAtomic == [Naive EXCEPT !.ops = @ \cup {"atomic"}]

\* The L1 of the older configurations: writes to global memory evict.
LocalWriteBack ==
  {[Policies("LOCAL_WB_GLOBAL_WT", "NO_WRITE_ALLOCATE") EXCEPT !.local = {b}] : b \in Blocks}

\* The L2 of the recent configurations.
Lazy == [Policies("WRITE_BACK", "LAZY_FETCH_ON_READ") EXCEPT !.masks = AnyBytes]

\* The L1 of the recent configurations, invalidated at memory barriers.
WriteThrough ==
  [Policies("WRITE_THROUGH", "LAZY_FETCH_ON_READ") EXCEPT !.invalidates = {"invalidate"}]

\* Fetch-on-write, first-in first-out, and a limit on the share of modified lines.
FetchOnWrite ==
  [Policies("WRITE_BACK", "FETCH_ON_WRITE") EXCEPT !.replacement = "FIFO", !.wr_percent = 50,
                                                  !.masks = AnyBytes]

AllConfigs == {NaiveFlushed, Lazy, WriteThrough, FetchOnWrite} \cup LocalWriteBack
OlderConfigs == {NaiveAtomic} \cup LocalWriteBack
LazyConfig == {Lazy}

\* m_dirty drifts upwards without bound under some policies; two above the number of ways
\* is past every comparison that is made with it.
DriftBound == dirty \in -1 .. Ways + 1
=============================================================================
