---------------------------- MODULE MCBarrierSet ----------------------------
(* Small instances of BarrierSet: the CTA programs the runs use. *)
EXTENDS BarrierSet

CONSTANT Kind   \* which family of programs the run explores

\* PTX bar instructions, with one barrier name per digit.
Sync(b)      == [bar_type |-> "SYNC",   bar_id |-> b, bar_count |-> ALL]
SyncN(b, n)  == [bar_type |-> "SYNC",   bar_id |-> b, bar_count |-> n * WarpSize]
Arrive(b, n) == [bar_type |-> "ARRIVE", bar_id |-> b, bar_count |-> n * WarpSize]
Red(b, n)    == [bar_type |-> "RED",    bar_id |-> b, bar_count |-> n * WarpSize]

\* __syncthreads only: all the warps run the same barriers, some exit early.
SyncPrograms ==
  {<< <<Sync(0), Sync(1), Sync(0)>>, <<Sync(0), Sync(1), Sync(0)>> >>,
   << <<Sync(0), Sync(0)>>, <<Sync(0)>>, << >> >>}

\* Named barriers between some of the warps, producer/consumer hand-over with
\* bar.arrive, and reductions over all the warps.
NamedPrograms ==
  {<< <<Arrive(1, 2)>>, <<SyncN(1, 2)>> >>,
   << <<SyncN(0, 2), Red(1, 3)>>, <<SyncN(0, 2), Red(1, 3)>>, <<Red(1, 3)>> >>}

\* A producer that arrives at barrier 1 and then waits for the whole CTA.
ArriveThenSyncPrograms ==
  {<< <<Arrive(1, 2), Sync(0)>>, <<SyncN(1, 2), Sync(0)>> >>,
   << <<Sync(0)>>, <<Sync(0)>> >>}

\* bar.red without a thread count: bar_impl sets it to the size of the CTA.
RedPrograms == {<< <<Red(0, 2)>>, << >> >>, << <<Red(0, 3)>>, <<Red(0, 3)>>, <<Red(0, 3)>> >>}

MCPrograms ==
  CASE Kind = "any"    -> SyncPrograms \cup NamedPrograms
    [] Kind = "arrive" -> ArriveThenSyncPrograms
    [] Kind = "red"    -> RedPrograms

=============================================================================
