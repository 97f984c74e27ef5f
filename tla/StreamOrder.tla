------------------------------ MODULE StreamOrder ------------------------------
(***************************************************************************)
(* What the runtime promises of CUDA streams: every stream is a queue of   *)
(* operations that are performed one at a time and in the order of their   *)
(* submission.  A kernel occupies its stream from its launch until its     *)
(* completion; any other operation is performed in one step.  Operations   *)
(* of different streams are not ordered.                                   *)
(***************************************************************************)
EXTENDS Sequences

CONSTANTS Queue, Op

VARIABLES
  queue,   \* for each stream, the operations that are not complete
  busy     \* for each stream, whether the kernel at its front is running

vars == <<queue, busy>>

Init ==
  /\ queue = [q \in Queue |-> << >>]
  /\ busy  = [q \in Queue |-> FALSE]

\* A new operation appears at the end of stream q.
Submit(q) ==
  LET o == queue'[q][Len(queue'[q])] IN
  /\ queue'[q] # << >> /\ o \in Op
  /\ queue' = [queue EXCEPT ![q] = Append(@, o)]
  /\ UNCHANGED busy

Perform(q) ==
  /\ ~busy[q] /\ queue[q] # << >> /\ Head(queue[q]).kind # "kernel"
  /\ queue' = [queue EXCEPT ![q] = Tail(@)]
  /\ UNCHANGED busy

Launch(q) ==
  /\ ~busy[q] /\ queue[q] # << >> /\ Head(queue[q]).kind = "kernel"
  /\ busy' = [busy EXCEPT ![q] = TRUE]
  /\ UNCHANGED queue

\* Kernels of the streams in qs complete.
Complete(qs) ==
  /\ \A q \in qs : busy[q] /\ queue[q] # << >>
  /\ queue' = [q \in Queue |-> IF q \in qs THEN Tail(queue[q]) ELSE queue[q]]
  /\ busy'  = [q \in Queue |-> busy[q] /\ q \notin qs]

Next ==
  \/ \E q \in Queue : Submit(q) \/ Perform(q) \/ Launch(q)
  \/ \E qs \in SUBSET Queue : Complete(qs)

Spec == Init /\ [][Next]_vars

================================================================================
