------------------------- MODULE MemoryPartitionProofs -------------------------
(***************************************************************************)
(* Proofs about a memory partition, for every number of sub-partitions and *)
(* banks, every size of the queues and any requests that arrive.           *)
(***************************************************************************)
EXTENDS MemoryPartition, FoldingProofs, FiniteSetTheorems

\* Of each sub-partition: a queue, a set and a set of queues of its own requests, and
\* packets of them.
Queues == {f \in [Sub -> Seq(Request)] : \A s \in Sub : f[s] \in Seq(OfSub(s))}
Sets == {f \in [Sub -> SUBSET Request] : \A s \in Sub : f[s] \subseteq OfSub(s)}
Entries ==
  {f \in [Sub -> SUBSET Seq(Request)] : \A s \in Sub : f[s] \subseteq Seq(OfSub(s)) \ {<< >>}}
Packets(s) == {q \in Seq(OfSub(s)) : Len(q) <= SectorChunk}
Arrivals == {f \in [Sub -> Seq(Seq(Request))] : \A s \in Sub : f[s] \in Seq(Packets(s))}

\* A sub-partition and its caches hold requests for its own addresses only.
HomeOK ==
  /\ todo \in Arrivals
  /\ rop \in Queues /\ icnt_L2 \in Queues /\ L2_dram \in Queues /\ dram_L2 \in Queues
  /\ L2_icnt \in Queues /\ miss_queue \in Queues /\ ready \in Queues
  /\ dirty \in Sets /\ tracker \in Sets /\ mshr \in Entries

\* m_icnt_L2_queue never holds more than it has room for.
RoomOK == \A s \in Sub : Len(icnt_L2[s]) <= IcntL2Size

DramOK ==
  /\ latency \in Seq(Request) /\ rwq \in Seq(Request) /\ returnq \in Seq(Request)
  /\ queue \in [Mode -> [Bank -> Seq(Request)]]
  /\ mrq \in [Bank -> Seq(Request)]
  /\ mode \in Mode /\ last_row \in [Mode -> [Bank -> Row \cup {None}]]
  /\ curr_row \in [Bank -> Row \cup {None}]

\* m_last_row points to a bin of the requests for a row, and that bin is not empty.
RowServed ==
  \A m \in Mode, b \in Bank :
    last_row[m][b] # None => InRow(queue[m][b], last_row[m][b]) # {}

CreditsOK == private_credit \in [Sub -> Int] /\ shared_credit \in Int

Flow == HomeOK /\ RoomOK /\ DramOK /\ RowServed /\ CreditsOK

-------------------------------------------------------------------------------

\* A request of a sub-partition is a request.
LEMMA OfSubRequest ==
  /\ \A s \in Sub : OfSub(s) \subseteq Request /\ \A r \in OfSub(s) : r.sp = s
  /\ \A r \in Request : r.sp \in Sub /\ r.bank \in Bank /\ r \in OfSub(r.sp) /\ r.row \in Row
BY DEF OfSub, Request

\* Sequences over a smaller set are sequences over the larger one.
LEMMA SeqMono == ASSUME NEW V, NEW W, V \subseteq W PROVE Seq(V) \subseteq Seq(W)
OBVIOUS

\* The first request of a queue and the rest of it.
LEMMA HeadTail ==
  ASSUME NEW V, NEW q \in Seq(V), q # << >>
  PROVE  Head(q) \in V /\ Tail(q) \in Seq(V) /\ Len(Tail(q)) = Len(q) - 1
OBVIOUS

\* One queue of one sub-partition changes.
LEMMA QueueChange ==
  ASSUME NEW f \in Queues, NEW s \in Sub, NEW q \in Seq(OfSub(s))
  PROVE  [f EXCEPT ![s] = q] \in Queues /\ [f EXCEPT ![s] = q][s] = q
<1>1. q \in Seq(Request)
  BY OfSubRequest, SeqMono
<1> QED BY <1>1 DEF Queues

\* A request joins a queue of its sub-partition.
LEMMA QueueAppend ==
  ASSUME NEW f \in Queues, NEW s \in Sub, NEW r \in OfSub(s)
  PROVE  [f EXCEPT ![s] = Append(@, r)] \in Queues
<1>1. Append(f[s], r) \in Seq(OfSub(s))
  BY DEF Queues
<1> QED BY <1>1, QueueChange

\* Requests join a queue of their sub-partition.
LEMMA QueueConcat ==
  ASSUME NEW f \in Queues, NEW s \in Sub, NEW q \in Seq(OfSub(s))
  PROVE  [f EXCEPT ![s] = @ \o q] \in Queues
<1>1. f[s] \o q \in Seq(OfSub(s))
  BY DEF Queues
<1> QED BY <1>1, QueueChange

\* The first request leaves a queue.
LEMMA QueueTail ==
  ASSUME NEW f \in Queues, NEW s \in Sub, f[s] # << >>
  PROVE  /\ Head(f[s]) \in OfSub(s) /\ Head(f[s]) \in Request
         /\ [f EXCEPT ![s] = Tail(@)] \in Queues
<1>1. Head(f[s]) \in OfSub(s) /\ Tail(f[s]) \in Seq(OfSub(s))
  BY HeadTail DEF Queues
<1> QED BY <1>1, OfSubRequest, QueueChange

\* A victim of a cache is a dirty line of its sub-partition.
LEMMA VictimType ==
  ASSUME dirty \in Sets, NEW s \in Sub, NEW v \in {<< >>} \cup {<<d>> : d \in dirty[s]}
  PROVE  v \in Seq(OfSub(s))
<1>1. CASE v = << >>
  BY <1>1
<1>2. ASSUME NEW d \in dirty[s], v = <<d>>
      PROVE  v \in Seq(OfSub(s))
  <2>1. d \in OfSub(s)
    BY DEF Sets
  <2> QED BY <1>2, <2>1
<1> QED BY <1>1, <1>2

\* The stages of a sub-partition keep requests at home.
LEMMA SubCycleHome ==
  ASSUME HomeOK, RoomOK, NEW s \in Sub, SubCycle(s)
  PROVE  HomeOK' /\ RoomOK'
<1> USE DEF HomeOK
<1>1. CASE PushPacket(s)
  <2> DEFINE reqs == Head(todo[s])
             direct == {r \in Range(reqs) : r.kind = "texture"}
             delayed == {r \in Range(reqs) : r.kind # "texture"}
  <2>1. reqs \in Packets(s) /\ Tail(todo[s]) \in Seq(Packets(s))
    <3>1. todo[s] \in Seq(Packets(s)) /\ todo[s] # << >>
      BY <1>1 DEF Arrivals, PushPacket
    <3> QED BY <3>1, HeadTail
  <2>2. reqs \in Seq(OfSub(s)) /\ Len(reqs) <= SectorChunk
    BY <2>1 DEF Packets
  <2>3. Only(reqs, direct) \in Seq(OfSub(s)) /\ Only(reqs, delayed) \in Seq(OfSub(s))
    BY <2>2, OnlyType
  <2>4. Len(Only(reqs, direct)) <= Len(reqs)
    BY <2>2, OnlyLen
  <2>5. todo' \in Arrivals
    <3>1. todo' = [todo EXCEPT ![s] = Tail(todo[s])]
      BY <1>1 DEF PushPacket
    <3>2. Tail(todo[s]) \in Seq(Seq(Request))
      <4>1. Packets(s) \subseteq Seq(Request)
        BY OfSubRequest, SeqMono DEF Packets
      <4> QED BY <2>1, <4>1, SeqMono
    <3> QED BY <2>1, <3>1, <3>2 DEF Arrivals
  <2>6. /\ icnt_L2' = [icnt_L2 EXCEPT ![s] = @ \o Only(reqs, direct)]
        /\ rop' = [rop EXCEPT ![s] = @ \o Only(reqs, delayed)]
        /\ tracker' = [tracker EXCEPT ![s] = @ \cup Range(reqs)]
        /\ ~Full(s)
        /\ UNCHANGED <<dirty, miss_queue, mshr, ready, L2_icnt, L2_dram, dram_L2>>
    BY <1>1 DEF PushPacket, l2vars
  <2> HIDE DEF direct, delayed
  <2>7. icnt_L2' \in Queues /\ rop' \in Queues
    BY <2>3, <2>6, QueueConcat
  <2>8. tracker' \in Sets
    <3>1. Range(reqs) \subseteq OfSub(s)
      BY <2>2 DEF Range
    <3> QED BY <2>6, <3>1, OfSubRequest DEF Sets
  <2>9. RoomOK'
    <3> DEFINE q == icnt_L2[s]
               d == Only(reqs, direct)
    <3>1. q \in Seq(OfSub(s)) /\ SectorChunk \in Nat /\ IcntL2Size \in Nat
      BY SizesAssumption DEF Queues
    <3>2. Len(q) + SectorChunk <= IcntL2Size
      <4>1. ~(Len(q) + SectorChunk - 1 >= IcntL2Size) /\ Len(q) \in Nat
        BY <2>6, <3>1 DEF Full
      <4> QED BY <3>1, <4>1
    <3>3. Len(q \o d) <= IcntL2Size
      <4> HIDE DEF q, d, reqs
      <4>1. d \in Seq(OfSub(s)) /\ Len(d) \in Nat /\ Len(q) \in Nat /\ Len(reqs) \in Nat
        BY <2>2, <2>3, <3>1 DEF d
      <4>2. Len(d) <= SectorChunk
        BY <2>2, <2>4, <3>1, <4>1 DEF d
      <4>3. Len(q \o d) = Len(q) + Len(d)
        BY <3>1, <4>1
      <4> QED BY <3>1, <3>2, <4>1, <4>2, <4>3
    <3>4. \A x \in Sub : icnt_L2'[x] = IF x = s THEN q \o d ELSE icnt_L2[x]
      BY <2>6 DEF Queues
    <3> QED BY <3>3, <3>4 DEF RoomOK
  <2> QED BY <2>5, <2>6, <2>7, <2>8, <2>9
<1>2. CASE RopToL2(s)
  <2>1. /\ rop[s] # << >> /\ Len(icnt_L2[s]) < IcntL2Size
        /\ rop' = [rop EXCEPT ![s] = Tail(@)]
        /\ icnt_L2' = [icnt_L2 EXCEPT ![s] = Append(@, Head(rop[s]))]
        /\ UNCHANGED <<todo, dirty, miss_queue, mshr, ready, tracker, L2_icnt, L2_dram, dram_L2>>
    BY <1>2 DEF RopToL2, l2vars
  <2>2. Head(rop[s]) \in OfSub(s) /\ rop' \in Queues
    BY <2>1, QueueTail
  <2>3. icnt_L2' \in Queues
    BY <2>1, <2>2, QueueAppend
  <2>4. RoomOK'
    <3>1. icnt_L2[s] \in Seq(OfSub(s))
      BY DEF Queues
    <3>2. Len(Append(icnt_L2[s], Head(rop[s]))) <= IcntL2Size
      <4>1. Len(Append(icnt_L2[s], Head(rop[s]))) = Len(icnt_L2[s]) + 1 /\ Len(icnt_L2[s]) \in Nat
        BY <3>1
      <4>2. IcntL2Size \in Nat
        BY SizesAssumption
      <4> QED BY ONLY <2>1, <4>1, <4>2
    <3>3. \A x \in Sub : icnt_L2'[x] = IF x = s THEN Append(icnt_L2[s], Head(rop[s])) ELSE icnt_L2[x]
      BY <2>1 DEF Queues
    <3> QED BY <3>2, <3>3 DEF RoomOK
  <2> QED BY <2>1, <2>2, <2>3, <2>4
<1>3. ASSUME icnt_L2[s] # << >>, icnt_L2' = [icnt_L2 EXCEPT ![s] = Tail(@)]
      PROVE  Head(icnt_L2[s]) \in OfSub(s) /\ icnt_L2' \in Queues /\ RoomOK'
  <2>1. Head(icnt_L2[s]) \in OfSub(s) /\ icnt_L2' \in Queues
    BY <1>3, QueueTail
  <2>2. Len(Tail(icnt_L2[s])) <= IcntL2Size
    <3>1. icnt_L2[s] \in Seq(OfSub(s))
      BY DEF Queues
    <3>2. Len(Tail(icnt_L2[s])) = Len(icnt_L2[s]) - 1 /\ Len(icnt_L2[s]) \in Nat
      BY <1>3, <3>1, HeadTail
    <3>3. IcntL2Size \in Nat /\ Len(icnt_L2[s]) <= IcntL2Size
      BY SizesAssumption DEF RoomOK
    <3> QED BY ONLY <3>2, <3>3
  <2>3. \A x \in Sub : icnt_L2'[x] = IF x = s THEN Tail(icnt_L2[s]) ELSE icnt_L2[x]
    BY <1>3 DEF Queues
  <2> QED BY <2>1, <2>2, <2>3 DEF RoomOK
<1>4. CASE BypassL2(s)
  <2>1. /\ icnt_L2[s] # << >> /\ icnt_L2' = [icnt_L2 EXCEPT ![s] = Tail(@)]
        /\ L2_dram' = [L2_dram EXCEPT ![s] = Append(@, Head(icnt_L2[s]))]
        /\ UNCHANGED <<todo, rop, dirty, miss_queue, mshr, ready, tracker, L2_icnt, dram_L2>>
    BY <1>4 DEF BypassL2, CanAccess, l2vars
  <2>2. L2_dram' \in Queues
    BY <1>3, <2>1, QueueAppend
  <2> QED BY <1>3, <2>1, <2>2
<1>5. ASSUME NEW v \in {<< >>} \cup {<<d>> : d \in dirty[s]}, L2Answers(s, v)
      PROVE  HomeOK' /\ RoomOK'
  <2> DEFINE r == Head(icnt_L2[s])
  <2>1. /\ icnt_L2[s] # << >> /\ icnt_L2' = [icnt_L2 EXCEPT ![s] = Tail(@)]
        /\ dirty' = [dirty EXCEPT ![s] = @ \ Range(v)]
        /\ miss_queue' = [miss_queue EXCEPT ![s] = @ \o v]
        /\ UNCHANGED <<todo, rop, mshr, ready, L2_dram, dram_L2>>
    BY <1>5 DEF L2Answers, CanProbe, CanAccess
  <2>2. miss_queue' \in Queues
    BY <1>5, <2>1, VictimType, QueueConcat
  <2>3. dirty' \in Sets
    BY <2>1 DEF Sets
  <2>4. CASE r.kind = "l1_wrbk"
    <3>1. tracker' = [tracker EXCEPT ![s] = @ \ {r}] /\ UNCHANGED L2_icnt
      BY <1>5, <2>4 DEF L2Answers
    <3>2. tracker' \in Sets
      BY <3>1 DEF Sets
    <3> QED BY <1>3, <2>1, <2>2, <2>3, <3>1, <3>2
  <2>5. CASE r.kind # "l1_wrbk"
    <3>1. L2_icnt' = [L2_icnt EXCEPT ![s] = Append(@, r)] /\ UNCHANGED tracker
      BY <1>5, <2>5 DEF L2Answers
    <3>2. L2_icnt' \in Queues
      BY <1>3, <2>1, <3>1, QueueAppend
    <3> QED BY <1>3, <2>1, <2>2, <2>3, <3>1, <3>2
  <2> QED BY <2>4, <2>5
<1>6. ASSUME NEW v \in {<< >>} \cup {<<d>> : d \in dirty[s]}, L2Misses(s, v)
      PROVE  HomeOK' /\ RoomOK'
  <2> DEFINE r == Head(icnt_L2[s])
  <2>1. /\ icnt_L2[s] # << >> /\ icnt_L2' = [icnt_L2 EXCEPT ![s] = Tail(@)]
        /\ mshr' = [mshr EXCEPT ![s] = @ \cup {<<r>>}]
        /\ dirty' = [dirty EXCEPT ![s] = @ \ Range(v)]
        /\ miss_queue' = [miss_queue EXCEPT ![s] = Append(@, r) \o v]
        /\ UNCHANGED <<todo, rop, tracker, ready, L2_icnt, L2_dram, dram_L2>>
    BY <1>6 DEF L2Misses, CanProbe, CanAccess
  <2>2. r \in OfSub(s)
    BY <1>3, <2>1
  <2>3. miss_queue' \in Queues
    <3>1. v \in Seq(OfSub(s)) /\ miss_queue[s] \in Seq(OfSub(s))
      BY VictimType DEF Queues
    <3> HIDE DEF r
    <3>2. Append(miss_queue[s], r) \o v \in Seq(OfSub(s))
      BY <2>2, <3>1
    <3> QED BY <2>1, <3>2, QueueChange DEF r
  <2>4. dirty' \in Sets
    BY <2>1 DEF Sets
  <2>5. mshr' \in Entries
    <3>1. <<r>> \in Seq(OfSub(s)) \ {<< >>} /\ <<r>> \in Seq(Request)
      BY <2>2, OfSubRequest
    <3> HIDE DEF r
    <3> QED BY <2>1, <3>1 DEF Entries, r
  <2> QED BY <1>3, <2>1, <2>3, <2>4, <2>5
<1>7. ASSUME NEW entry \in mshr[s], L2Merges(s, entry)
      PROVE  HomeOK' /\ RoomOK'
  <2> DEFINE r == Head(icnt_L2[s])
  <2>1. /\ icnt_L2[s] # << >> /\ icnt_L2' = [icnt_L2 EXCEPT ![s] = Tail(@)]
        /\ mshr' = [mshr EXCEPT ![s] = (@ \ {entry}) \cup {Append(entry, r)}]
        /\ UNCHANGED <<todo, rop, tracker, dirty, miss_queue, ready, L2_icnt, L2_dram, dram_L2>>
    BY <1>7 DEF L2Merges, CanProbe, CanAccess
  <2>2. r \in OfSub(s) /\ entry \in Seq(OfSub(s)) /\ r \in Request /\ entry \in Seq(Request)
    BY <1>3, <2>1, OfSubRequest DEF Entries
  <2> HIDE DEF r
  <2>3. Append(entry, r) \in Seq(OfSub(s)) \ {<< >>} /\ Append(entry, r) \in Seq(Request)
    BY <2>2
  <2>4. mshr' \in Entries
    BY <2>1, <2>3 DEF Entries
  <2> QED BY <1>3, <2>1, <2>4
<1>8. CASE L2Cycle(s)
  <2>1. /\ miss_queue[s] # << >> /\ miss_queue' = [miss_queue EXCEPT ![s] = Tail(@)]
        /\ L2_dram' = [L2_dram EXCEPT ![s] = Append(@, Head(miss_queue[s]))]
        /\ UNCHANGED <<todo, rop, icnt_L2, tracker, dirty, mshr, ready, L2_icnt, dram_L2>>
    BY <1>8 DEF L2Cycle
  <2>2. Head(miss_queue[s]) \in OfSub(s) /\ miss_queue' \in Queues
    BY <2>1, QueueTail
  <2>3. L2_dram' \in Queues
    BY <2>1, <2>2, QueueAppend
  <2> QED BY <2>1, <2>2, <2>3 DEF RoomOK
<1>9. CASE FromDram(s)
  <2>1. /\ dram_L2[s] # << >> /\ dram_L2' = [dram_L2 EXCEPT ![s] = Tail(@)]
        /\ UNCHANGED <<todo, rop, icnt_L2, tracker, dirty, miss_queue, L2_dram>>
    BY <1>9 DEF FromDram
  <2>2. Head(dram_L2[s]) \in OfSub(s) /\ dram_L2' \in Queues
    BY <2>1, QueueTail
  <2>3. ASSUME NEW entry \in Waiters(s), mshr' = [mshr EXCEPT ![s] = @ \ {entry}],
               ready' = [ready EXCEPT ![s] = @ \o entry], UNCHANGED L2_icnt
        PROVE  HomeOK' /\ RoomOK'
    <3>1. entry \in Seq(OfSub(s))
      BY DEF Waiters, Entries
    <3>2. ready' \in Queues
      BY <2>3, <3>1, QueueConcat
    <3>3. mshr' \in Entries
      BY <2>3 DEF Entries
    <3> QED BY <2>1, <2>2, <2>3, <3>2, <3>3 DEF RoomOK
  <2>4. ASSUME L2_icnt' = [L2_icnt EXCEPT ![s] = Append(@, Head(dram_L2[s]))],
               UNCHANGED <<mshr, ready>>
        PROVE  HomeOK' /\ RoomOK'
    <3>1. L2_icnt' \in Queues
      BY <2>2, <2>4, QueueAppend
    <3> QED BY <2>1, <2>2, <2>4, <3>1 DEF RoomOK
  <2> QED BY <1>9, <2>3, <2>4 DEF FromDram
<1>10. CASE ReadyToIcnt(s)
  <2>1. /\ ready[s] # << >> /\ ready' = [ready EXCEPT ![s] = Tail(@)]
        /\ L2_icnt' = [L2_icnt EXCEPT ![s] = Append(@, Head(ready[s]))]
        /\ UNCHANGED <<todo, rop, icnt_L2, tracker, dirty, miss_queue, mshr, L2_dram, dram_L2>>
    BY <1>10 DEF ReadyToIcnt
  <2>2. Head(ready[s]) \in OfSub(s) /\ ready' \in Queues
    BY <2>1, QueueTail
  <2>3. L2_icnt' \in Queues
    BY <2>1, <2>2, QueueAppend
  <2> QED BY <2>1, <2>2, <2>3 DEF RoomOK
<1>11. CASE PopReply(s)
  <2>1. /\ L2_icnt[s] # << >> /\ L2_icnt' = [L2_icnt EXCEPT ![s] = Tail(@)]
        /\ tracker' = [tracker EXCEPT ![s] = @ \ {Head(L2_icnt[s])}]
        /\ UNCHANGED <<todo, rop, icnt_L2, dirty, miss_queue, mshr, ready, L2_dram, dram_L2>>
    BY <1>11 DEF PopReply, l2vars
  <2>2. L2_icnt' \in Queues
    BY <2>1, QueueTail
  <2>3. tracker' \in Sets
    BY <2>1 DEF Sets
  <2> QED BY <2>1, <2>2, <2>3 DEF RoomOK
<1> QED BY <1>1, <1>2, <1>4, <1>5, <1>6, <1>7, <1>8, <1>9, <1>10, <1>11 DEF SubCycle, L2Access

-------------------------------------------------------------------------------
(* How the numbers of requests in the queues change. *)

One(r, S) == IF r \in S THEN 1 ELSE 0

\* Whether a request is counted.
LEMMA OneIs ==
  ASSUME NEW r, NEW S
  PROVE  One(r, S) \in {0, 1} /\ (r \in S <=> One(r, S) = 1)
BY DEF One

\* A number of requests is a natural number, and zero in an empty queue.
LEMMA CountType ==
  ASSUME NEW q \in Seq(Request), NEW S
  PROVE  Count(q, S) \in Nat /\ Count(<< >>, S) = 0
<1>1. Only(q, S) \in Seq(Request)
  BY OnlyType
<1>2. Len(<< >>) = 0
  OBVIOUS
<1> QED BY <1>1, <1>2, OnlyEmpty DEF Count

\* A request joins a queue.
LEMMA CountAppend ==
  ASSUME NEW q \in Seq(Request), NEW r \in Request, NEW S
  PROVE  Count(Append(q, r), S) = Count(q, S) + One(r, S)
<1>1. Only(Append(q, r), S) = AppendIf(Only(q, S), r, S)
  BY OnlyAppend
<1>2. Only(q, S) \in Seq(Request)
  BY OnlyType
<1>3. \A x \in Seq(Request) : Len(Append(x, r)) = Len(x) + 1 /\ Len(x) = Len(x) + 0
  OBVIOUS
<1>4. CASE r \in S
  <2>1. One(r, S) = 1
    BY <1>4, OneIs
  <2> QED BY <1>1, <1>2, <1>3, <1>4, <2>1 DEF Count, AppendIf
<1>5. CASE r \notin S
  <2>1. One(r, S) = 0
    BY <1>5, OneIs
  <2> QED BY <1>1, <1>2, <1>3, <1>5, <2>1 DEF Count, AppendIf
<1> QED BY <1>4, <1>5

\* The first request leaves a queue.
LEMMA CountTail ==
  ASSUME NEW q \in Seq(Request), q # << >>, NEW S
  PROVE  Count(Tail(q), S) = Count(q, S) - One(Head(q), S)
<1>1. Head(q) \in Request /\ Tail(q) \in Seq(Request)
  BY HeadTail
<1>2. Only(q, S) = IF Head(q) \in S THEN <<Head(q)>> \o Only(Tail(q), S)
                                                 ELSE Only(Tail(q), S)
  BY OnlyTail
<1>3. Only(Tail(q), S) \in Seq(Request)
  BY <1>1, OnlyType
<1>4. \A x \in Seq(Request) : Len(x) = Len(<<Head(q)>> \o x) - 1 /\ Len(x) = Len(x) - 0
  BY <1>1
<1>5. CASE Head(q) \in S
  <2>1. One(Head(q), S) = 1
    BY <1>1, <1>5, OneIs
  <2> QED BY <1>2, <1>3, <1>4, <1>5, <2>1 DEF Count
<1>6. CASE Head(q) \notin S
  <2>1. One(Head(q), S) = 0
    BY <1>1, <1>6, OneIs
  <2> QED BY <1>2, <1>3, <1>4, <1>6, <2>1 DEF Count
<1> QED BY <1>5, <1>6

\* One queue is moved behind another one.
LEMMA CountConcat ==
  ASSUME NEW p \in Seq(Request), NEW q \in Seq(Request), NEW S
  PROVE  Count(p \o q, S) = Count(p, S) + Count(q, S)
<1>1. Only(p \o q, S) = Only(p, S) \o Only(q, S)
  BY OnlyConcat
<1>2. Only(p, S) \in Seq(Request) /\ Only(q, S) \in Seq(Request)
  BY OnlyType
<1>3. \A x \in Seq(Request), y \in Seq(Request) : Len(x \o y) = Len(x) + Len(y)
  OBVIOUS
<1> QED BY <1>1, <1>2, <1>3 DEF Count

\* A request is taken out of the middle of a queue.
LEMMA CountRemove ==
  ASSUME NEW q \in Seq(Request), NEW i \in 1 .. Len(q), NEW S
  PROVE  LET rest == SubSeq(q, 1, i - 1) \o SubSeq(q, i + 1, Len(q))
         IN  rest \in Seq(Request) /\ Count(rest, S) = Count(q, S) - One(q[i], S)
<1> DEFINE rest == SubSeq(q, 1, i - 1) \o SubSeq(q, i + 1, Len(q))
<1>1. /\ rest \in Seq(Request)
      /\ Len(Only(rest, S)) = Len(Only(q, S)) - IF q[i] \in S THEN 1 ELSE 0
  BY OnlyRemove
<1>2. q[i] \in Request
  OBVIOUS
<1>3. (IF q[i] \in S THEN 1 ELSE 0) = One(q[i], S)
  BY <1>2, OneIs
<1> HIDE DEF rest
<1>4. Count(rest, S) = Count(q, S) - One(q[i], S)
  BY <1>1, <1>3 DEF Count
<1> QED BY <1>1, <1>4 DEF rest

\* The queue of one bank changes.
LEMMA CountAllChange ==
  ASSUME NEW f \in [Bank -> Seq(Request)], NEW b \in Bank, NEW q \in Seq(Request), NEW S
  PROVE  /\ CountAll(f, S) \in Nat
         /\ CountAll([f EXCEPT ![b] = q], S) = CountAll(f, S) + Count(q, S) - Count(f[b], S)
<1> DEFINE g == [x \in Bank |-> Count(f[x], S)]
<1>1. NBank \in Nat /\ Bank = 0 .. NBank - 1
  BY SizesAssumption DEF Bank
<1>2. g \in [0 .. NBank - 1 -> Nat] /\ g[b] = Count(f[b], S)
  BY <1>1, CountType
<1>3. CountAll(f, S) \in Nat
  <2> HIDE DEF g
  <2>1. SumOf(g, NBank) \in Nat
    BY <1>1, <1>2, SumOfNat
  <2> QED BY <2>1 DEF CountAll, g
<1>4. [x \in Bank |-> Count([f EXCEPT ![b] = q][x], S)] = [g EXCEPT ![b] = Count(q, S)]
  OBVIOUS
<1>5. SumOf([g EXCEPT ![b] = Count(q, S)], NBank) = SumOf(g, NBank) + Count(q, S) - g[b]
  <2>1. Count(q, S) \in Int
    BY CountType
  <2>2. g \in [0 .. NBank - 1 -> Int] /\ b \in 0 .. NBank - 1
    BY <1>1, <1>2
  <2> HIDE DEF g
  <2> QED BY <1>1, <2>1, <2>2, SumOfChange
<1>6. CountAll([f EXCEPT ![b] = q], S) = SumOf([g EXCEPT ![b] = Count(q, S)], NBank)
  BY <1>4 DEF CountAll
<1>7. CountAll(f, S) = SumOf(g, NBank)
  BY DEF CountAll
<1> QED BY <1>2, <1>3, <1>5, <1>6, <1>7

\* Of the request that the scheduler picks: it is in the queue and in the row.
LEMMA Picked ==
  ASSUME DramOK, RowServed, NEW b \in Bank, NEW m \in Mode, queue[m][b] # << >>
  PROVE  LET i == Min(InRow(queue[m][b], RowToServe(m, b)))
         IN  i \in 1 .. Len(queue[m][b]) /\ RowToServe(m, b) \in Row \cup {None}
<1> DEFINE q == queue[m][b]
           row == RowToServe(m, b)
<1>1. q \in Seq(Request) /\ q # << >>
  BY DEF DramOK
<1>2. 1 \in 1 .. Len(q) /\ Head(q) = q[1] /\ q[1] \in Request /\ DOMAIN q = 1 .. Len(q)
  BY <1>1
<1>3. InRow(q, row) # {} /\ row \in Row \cup {None}
  <2>1. CASE last_row[m][b] # None
    BY <2>1 DEF RowToServe, RowServed, DramOK
  <2>2. CASE last_row[m][b] = None /\ InRow(q, curr_row[b]) # {}
    BY <2>2 DEF RowToServe, DramOK
  <2>3. CASE last_row[m][b] = None /\ InRow(q, curr_row[b]) = {}
    <3>1. row = q[1].row
      BY <1>2, <2>3 DEF RowToServe
    <3>2. 1 \in InRow(q, row)
      BY <1>2, <3>1 DEF InRow
    <3> QED BY <1>2, <3>1, <3>2, OfSubRequest
  <2> QED BY <2>1, <2>2, <2>3
<1>4. InRow(q, row) \in SUBSET Nat /\ InRow(q, row) \subseteq 1 .. Len(q)
  BY <1>2 DEF InRow
<1> HIDE DEF q, row
<1>5. \E x \in InRow(q, row) : \A y \in InRow(q, row) : x <= y
  BY <1>3, <1>4, LeastExists
<1>6. Min(InRow(q, row)) \in InRow(q, row)
  BY <1>5 DEF Min
<1> QED BY <1>3, <1>4, <1>6 DEF q, row

\* The queues of all banks of a mode, and of both modes.
SetQueue(f, m, b, q) == [f EXCEPT ![m][b] = q]
QueuesCount(f, S) == CountAll(f["READ"], S) + CountAll(f["WRITE"], S)
Recounted(f, m, b, q, S) ==
  /\ CountAll(SetQueue(f, m, b, q)["READ"], S) \in Nat
  /\ CountAll(SetQueue(f, m, b, q)["WRITE"], S) \in Nat
  /\ QueuesCount(SetQueue(f, m, b, q), S) = QueuesCount(f, S) + Count(q, S) - Count(f[m][b], S)

\* The requests of a sub-partition in the queues of all banks are counted by a number.
LEMMA CountAllType ==
  ASSUME NEW f \in [Bank -> Seq(Request)], NEW S
  PROVE  CountAll(f, S) \in Nat
<1>1. 0 \in Bank /\ << >> \in Seq(Request)
  BY SizesAssumption DEF Bank
<1> QED BY <1>1, CountAllChange

\* The queue of one mode and bank changes.
LEMMA QueueCount ==
  ASSUME NEW f \in [Mode -> [Bank -> Seq(Request)]], NEW m \in Mode, NEW b \in Bank,
         NEW q \in Seq(Request), NEW S
  PROVE  Recounted(f, m, b, q, S)
<1> DEFINE h == f[m]
           g == SetQueue(f, m, b, q)
<1>1. /\ g \in [Mode -> [Bank -> Seq(Request)]] /\ g[m] = [h EXCEPT ![b] = q]
      /\ h \in [Bank -> Seq(Request)] /\ f[m][b] = h[b] /\ f[m] = h
      /\ \A k \in Mode : k # m => g[k] = f[k]
  BY DEF SetQueue
<1> HIDE DEF g, h
<1>2. CountAll(g[m], S) = CountAll(f[m], S) + Count(q, S) - Count(f[m][b], S)
  <2>1. h \in [Bank -> Seq(Request)]
    BY <1>1
  <2>2. CountAll([h EXCEPT ![b] = q], S) = CountAll(h, S) + Count(q, S) - Count(h[b], S)
    BY ONLY <2>1, b \in Bank, q \in Seq(Request), CountAllChange
  <2> QED BY ONLY <1>1, <2>2
<1>3. Count(q, S) \in Nat /\ Count(f[m][b], S) \in Nat
  BY CountType
<1>4. /\ CountAll(f["READ"], S) \in Nat /\ CountAll(f["WRITE"], S) \in Nat
      /\ CountAll(g["READ"], S) \in Nat /\ CountAll(g["WRITE"], S) \in Nat
  BY <1>1, CountAllType DEF Mode
<1>5. QueuesCount(g, S) = QueuesCount(f, S) + Count(q, S) - Count(f[m][b], S)
  <2>1. CASE m = "READ" /\ g["WRITE"] = f["WRITE"]
    BY <1>2, <1>3, <1>4, <2>1 DEF QueuesCount
  <2>2. CASE m = "WRITE" /\ g["READ"] = f["READ"]
    BY <1>2, <1>3, <1>4, <2>2 DEF QueuesCount
  <2> QED BY <1>1, <2>1, <2>2 DEF Mode
<1> QED BY <1>4, <1>5 DEF g, Recounted

\* What is counted in the DRAM: six numbers.
LEMMA InDramType ==
  ASSUME DramOK, NEW S
  PROVE  /\ Count(latency, S) \in Nat /\ Count(rwq, S) \in Nat /\ Count(returnq, S) \in Nat
         /\ CountAll(queue["READ"], S) \in Nat /\ CountAll(queue["WRITE"], S) \in Nat
         /\ CountAll(mrq, S) \in Nat
         /\ CountInDram(S) \in Nat
<1>1. Count(latency, S) \in Nat /\ Count(rwq, S) \in Nat /\ Count(returnq, S) \in Nat
  BY CountType DEF DramOK
<1>2. /\ queue["READ"] \in [Bank -> Seq(Request)] /\ queue["WRITE"] \in [Bank -> Seq(Request)]
      /\ mrq \in [Bank -> Seq(Request)]
  BY DEF DramOK, Mode
<1>3. /\ CountAll(queue["READ"], S) \in Nat /\ CountAll(queue["WRITE"], S) \in Nat
      /\ CountAll(mrq, S) \in Nat
  BY <1>2, CountAllType
<1> QED BY <1>1, <1>3 DEF CountInDram

\* dram_t::push and add_req: a request joins the queue of its bank.
LEMMA PushInDram ==
  ASSUME DramOK, RowServed, DramPush
  PROVE  DramOK' /\ RowServed' /\ \A S : CountInDram(S)' = CountInDram(S)
<1> DEFINE r == Head(latency)
           m == QueueOf(r)
           q == Append(queue[m][r.bank], r)
<1>1. /\ latency # << >> /\ latency' = Tail(latency)
      /\ queue' = [queue EXCEPT ![m][r.bank] = Append(@, r)]
      /\ UNCHANGED <<last_row, mode, mrq, curr_row, rwq, returnq>>
  BY DEF DramPush, banks
<1>2. latency \in Seq(Request) /\ r \in Request /\ latency' \in Seq(Request) /\ r.bank \in Bank
  BY <1>1, HeadTail, OfSubRequest DEF DramOK
<1>3. m \in Mode
  BY DEF QueueOf, Mode
<1>4. queue[m][r.bank] \in Seq(Request) /\ q \in Seq(Request)
  BY <1>2, <1>3 DEF DramOK
<1>5. queue' = [queue EXCEPT ![m][r.bank] = q]
  BY <1>1
<1>6. queue' \in [Mode -> [Bank -> Seq(Request)]]
  BY <1>2, <1>3, <1>4, <1>5 DEF DramOK
<1>7. DramOK'
  BY <1>1, <1>2, <1>6 DEF DramOK
<1>r. /\ last_row' = last_row
      /\ \A k \in Mode, b \in Bank : InRow(queue[k][b], last_row[k][b])' = InRow(queue'[k][b], last_row[k][b])
  BY <1>1 DEF InRow
<1>8. RowServed'
  <2> SUFFICES ASSUME NEW k \in Mode, NEW b \in Bank, last_row[k][b] # None
               PROVE  InRow(queue'[k][b], last_row[k][b]) # {}
    BY <1>r DEF RowServed
  <2>1. PICK i \in DOMAIN queue[k][b] : queue[k][b][i].row = last_row[k][b]
    BY DEF RowServed, InRow
  <2>2. queue'[k][b] = queue[k][b] \/ queue'[k][b] = Append(queue[k][b], r)
    BY <1>1, <1>2, <1>3 DEF DramOK
  <2>3. queue[k][b] \in Seq(Request)
    BY DEF DramOK
  <2>4. i \in DOMAIN queue'[k][b] /\ queue'[k][b][i] = queue[k][b][i]
    <3> DEFINE f == queue[k][b]
    <3>1. f \in Seq(Request) /\ i \in DOMAIN f
      BY <2>1, <2>3
    <3> HIDE DEF r, f
    <3>2. i \in DOMAIN Append(f, r) /\ Append(f, r)[i] = f[i]
      BY <1>2, <3>1
    <3> QED BY <2>1, <2>2, <3>2 DEF f
  <2> QED BY <2>1, <2>4 DEF InRow
<1>9. ASSUME NEW S
      PROVE  CountInDram(S)' = CountInDram(S)
  <2>1. Count(latency', S) = Count(latency, S) - One(r, S)
    BY <1>1, <1>2, CountTail
  <2>2. Count(q, S) = Count(queue[m][r.bank], S) + One(r, S)
    BY <1>2, <1>4, CountAppend
  <2>3. One(r, S) \in Int /\ Count(queue[m][r.bank], S) \in Nat
    BY <1>2, <1>4, OneIs, CountType
  <2>4. queue \in [Mode -> [Bank -> Seq(Request)]] /\ r.bank \in Bank
    BY <1>2 DEF DramOK
  <2> HIDE DEF r, m, q
  <2>5. /\ CountAll(queue'["READ"], S) \in Nat /\ CountAll(queue'["WRITE"], S) \in Nat
        /\ QueuesCount(queue', S) = QueuesCount(queue, S) + Count(q, S) - Count(queue[m][r.bank], S)
    <3>1. queue' = SetQueue(queue, m, r.bank, q)
      BY <1>5 DEF SetQueue
    <3>2. Recounted(queue, m, r.bank, q, S)
      BY ONLY <1>3, <1>4, <2>4, QueueCount
    <3> QED BY ONLY <3>1, <3>2 DEF Recounted
  <2>6. QueuesCount(queue', S) = QueuesCount(queue, S) + One(r, S)
    BY <2>2, <2>3, <2>5, InDramType DEF QueuesCount
  <2>7. mrq' = mrq /\ rwq' = rwq /\ returnq' = returnq
    BY <1>1
  <2> QED BY <2>1, <2>3, <2>5, <2>6, <2>7, InDramType DEF CountInDram, QueuesCount
<1> QED BY <1>7, <1>8, <1>9

\* The scheduler moves a request from a queue to its bank.
LEMMA ScheduleInDram ==
  ASSUME DramOK, RowServed, NEW b \in Bank, Schedule(b)
  PROVE  DramOK' /\ RowServed' /\ \A S : CountInDram(S)' = CountInDram(S)
<1> DEFINE m == NewMode
           q == queue[m][b]
           row == RowToServe(m, b)
           i == Min(InRow(q, row))
           rest == SubSeq(q, 1, i - 1) \o SubSeq(q, i + 1, Len(q))
           at == IF InRow(rest, row) = {} THEN None ELSE row
<1>1. /\ q # << >> /\ mrq[b] = << >>
      /\ mode' = m /\ mrq' = [mrq EXCEPT ![b] = <<q[i]>>]
      /\ queue' = [queue EXCEPT ![m][b] = rest]
      /\ last_row' = [last_row EXCEPT ![m][b] = at]
      /\ UNCHANGED <<latency, curr_row, rwq, returnq>>
  BY DEF Schedule, Schedulable
<1>2. m \in Mode
  BY DEF NewMode, DramOK, Mode
<1>3. i \in 1 .. Len(q) /\ row \in Row \cup {None}
  BY <1>1, <1>2, Picked
<1>4. q \in Seq(Request)
  BY <1>2 DEF DramOK
<1> HIDE DEF m, q, row, i
<1>5. q[i] \in Request /\ <<q[i]>> \in Seq(Request)
  BY <1>3, <1>4
<1>6. rest \in Seq(Request) /\ \A S : Count(rest, S) = Count(q, S) - One(q[i], S)
  BY <1>3, <1>4, CountRemove
<1> HIDE DEF rest
<1>7. at \in Row \cup {None} /\ (at # None => InRow(rest, at) # {})
  BY <1>3
<1> HIDE DEF at
<1>8. queue' = SetQueue(queue, m, b, rest) /\ queue \in [Mode -> [Bank -> Seq(Request)]]
  BY <1>1 DEF SetQueue, DramOK
<1>9. queue' \in [Mode -> [Bank -> Seq(Request)]]
  BY <1>2, <1>6, <1>8 DEF SetQueue
<1>10. mrq' \in [Bank -> Seq(Request)]
  BY <1>1, <1>5 DEF DramOK
<1>11. last_row' \in [Mode -> [Bank -> Row \cup {None}]]
  BY <1>1, <1>7 DEF DramOK
<1>12. DramOK'
  BY <1>1, <1>2, <1>9, <1>10, <1>11 DEF DramOK
<1>13. RowServed'
  <2> SUFFICES ASSUME NEW k \in Mode, NEW c \in Bank, last_row'[k][c] # None
               PROVE  InRow(queue'[k][c], last_row'[k][c]) # {}
    BY DEF RowServed, InRow
  <2>1. CASE k = m /\ c = b
    <3>1. queue'[k][c] = rest /\ last_row'[k][c] = at
      BY <1>1, <1>2, <2>1 DEF DramOK
    <3> QED BY <1>7, <3>1
  <2>2. CASE ~(k = m /\ c = b)
    <3>1. queue'[k][c] = queue[k][c] /\ last_row'[k][c] = last_row[k][c]
      BY <1>1, <1>2, <2>2 DEF DramOK
    <3> QED BY <3>1 DEF RowServed
  <2> QED BY <2>1, <2>2
<1>14. ASSUME NEW S
       PROVE  CountInDram(S)' = CountInDram(S)
  <2>1. /\ CountAll(queue'["READ"], S) \in Nat /\ CountAll(queue'["WRITE"], S) \in Nat
        /\ QueuesCount(queue', S) = QueuesCount(queue, S) + Count(rest, S) - Count(queue[m][b], S)
    <3>1. Recounted(queue, m, b, rest, S)
      BY ONLY <1>2, <1>6, <1>8, b \in Bank, QueueCount
    <3> QED BY ONLY <1>8, <3>1 DEF Recounted
  <2>2. One(q[i], S) \in Int /\ Count(q, S) \in Nat /\ Count(rest, S) = Count(q, S) - One(q[i], S)
    BY <1>4, <1>5, <1>6, OneIs, CountType
  <2>3. QueuesCount(queue', S) = QueuesCount(queue, S) - One(q[i], S)
    BY <2>1, <2>2, InDramType DEF QueuesCount, q
  <2>4. CountAll(mrq', S) = CountAll(mrq, S) + Count(<<q[i]>>, S) - Count(<< >>, S)
    <3>1. mrq \in [Bank -> Seq(Request)]
      BY DEF DramOK
    <3>2. CountAll([mrq EXCEPT ![b] = <<q[i]>>], S)
            = CountAll(mrq, S) + Count(<<q[i]>>, S) - Count(mrq[b], S)
      BY ONLY <1>5, <3>1, b \in Bank, CountAllChange
    <3> QED BY ONLY <1>1, <3>2
  <2>5. Count(<< >>, S) = 0 /\ Count(<<q[i]>>, S) = One(q[i], S)
    <3>1. << >> \in Seq(Request) /\ <<q[i]>> = Append(<< >>, q[i])
      OBVIOUS
    <3>2. Count(<< >>, S) = 0
      BY <3>1, CountType
    <3>3. Count(Append(<< >>, q[i]), S) = Count(<< >>, S) + One(q[i], S)
      BY <1>5, <3>1, CountAppend
    <3> QED BY <2>2, <3>1, <3>2, <3>3
  <2>6. latency' = latency /\ rwq' = rwq /\ returnq' = returnq
    BY <1>1
  <2> DEFINE others == Count(rwq, S) + Count(returnq, S)
  <2>7. CountInDram(S) = Count(latency, S) + QueuesCount(queue, S) + CountAll(mrq, S) + others
    BY InDramType DEF CountInDram, QueuesCount
  <2>8. CountAll(mrq', S) = CountAll(mrq, S) + One(q[i], S)
    BY <2>2, <2>4, <2>5, InDramType
  <2>9. CountAll(mrq', S) \in Int /\ others \in Int /\ QueuesCount(queue, S) \in Int
    BY <2>2, <2>8, InDramType DEF QueuesCount
  <2>10. CountInDram(S)' = Count(latency, S) + QueuesCount(queue', S) + CountAll(mrq', S) + others
    BY <2>1, <2>6, <2>9, InDramType DEF CountInDram, QueuesCount
  <2> HIDE DEF others
  <2>11. CountInDram(S)' = Count(latency, S) + (QueuesCount(queue, S) - One(q[i], S))
                             + (CountAll(mrq, S) + One(q[i], S)) + others
    BY <2>3, <2>8, <2>10
  <2> QED BY <2>2, <2>7, <2>9, <2>11, InDramType
<1> QED BY <1>12, <1>13, <1>14

\* The commands of a bank are given: its request waits for the data transfer.
LEMMA CommandsInDram ==
  ASSUME DramOK, RowServed, NEW b \in Bank, BankCommands(b)
  PROVE  DramOK' /\ RowServed' /\ \A S : CountInDram(S)' = CountInDram(S)
<1>1. /\ mrq[b] # << >> /\ rwq' = rwq \o mrq[b]
      /\ curr_row' = [curr_row EXCEPT ![b] = mrq[b][1].row]
      /\ mrq' = [mrq EXCEPT ![b] = << >>]
      /\ UNCHANGED <<latency, queue, last_row, mode, returnq>>
  BY DEF BankCommands, sched
<1>2. mrq[b] \in Seq(Request) /\ rwq \in Seq(Request) /\ mrq \in [Bank -> Seq(Request)]
  BY DEF DramOK
<1>3. mrq[b][1] \in Request /\ rwq' \in Seq(Request) /\ << >> \in Seq(Request)
  BY <1>1, <1>2
<1>4. curr_row' \in [Bank -> Row \cup {None}]
  BY <1>1, <1>3, OfSubRequest DEF DramOK
<1>5. DramOK'
  BY <1>1, <1>3, <1>4 DEF DramOK
<1>6. RowServed'
  BY <1>1 DEF RowServed, InRow
<1>7. ASSUME NEW S
      PROVE  CountInDram(S)' = CountInDram(S)
  <2>1. Count(rwq', S) = Count(rwq, S) + Count(mrq[b], S)
    BY ONLY <1>1, <1>2, CountConcat
  <2>2. CountAll([mrq EXCEPT ![b] = << >>], S)
          = CountAll(mrq, S) + Count(<< >>, S) - Count(mrq[b], S)
    BY ONLY <1>2, <1>3, b \in Bank, CountAllChange
  <2>3. Count(<< >>, S) = 0 /\ Count(mrq[b], S) \in Nat
    BY <1>2, CountType
  <2>4. CountAll(mrq', S) = CountAll(mrq, S) - Count(mrq[b], S)
    BY <1>1, <2>2, <2>3, InDramType
  <2>5. latency' = latency /\ queue' = queue /\ returnq' = returnq
    BY <1>1
  <2> QED BY <2>1, <2>3, <2>4, <2>5, InDramType DEF CountInDram
<1> QED BY <1>5, <1>6, <1>7

-------------------------------------------------------------------------------
\* A request enters the DRAM.
LEMMA IssueInDram ==
  ASSUME Flow, NEW x \in Sub, IssueToDram(x)
  PROVE  \A S : CountInDram(S)' = CountInDram(S) + One(Head(L2_dram[x]), S)
<1> DEFINE r == Head(L2_dram[x])
<1>1. /\ L2_dram[x] # << >> /\ latency' = Append(latency, r)
      /\ UNCHANGED <<sched, banks, returnq>>
  BY DEF IssueToDram, CanIssueToDram
<1>2. r \in Request /\ latency \in Seq(Request)
  BY <1>1, QueueTail DEF Flow, HomeOK, DramOK
<1> SUFFICES ASSUME NEW S
             PROVE  CountInDram(S)' = CountInDram(S) + One(r, S)
  OBVIOUS
<1>3. Count(latency', S) = Count(latency, S) + One(r, S)
  BY <1>1, <1>2, CountAppend
<1>4. UNCHANGED <<queue, mrq, rwq, returnq>> /\ One(r, S) \in Int
  BY <1>1, OneIs DEF sched, banks
<1> HIDE DEF r
<1> QED BY <1>3, <1>4, InDramType DEF CountInDram, Flow

\* A request leaves the latency queue of the simple DRAM model.
LEMMA SimpleReturnInDram ==
  ASSUME Flow, SimpleReturn
  PROVE  \A S : CountInDram(S)' \in Nat /\ CountInDram(S)' = CountInDram(S) - One(Head(latency), S)
<1> DEFINE r == Head(latency)
<1>1. latency # << >> /\ latency' = Tail(latency) /\ UNCHANGED <<sched, banks, returnq>>
  BY DEF SimpleReturn
<1>2. latency \in Seq(Request) /\ r \in Request /\ latency' \in Seq(Request)
  BY <1>1, HeadTail DEF Flow, DramOK
<1> SUFFICES ASSUME NEW S
             PROVE  CountInDram(S)' \in Nat /\ CountInDram(S)' = CountInDram(S) - One(r, S)
  OBVIOUS
<1>3. Count(latency', S) = Count(latency, S) - One(r, S) /\ Count(latency', S) \in Nat
  BY <1>1, <1>2, CountTail, CountType
<1>4. UNCHANGED <<queue, mrq, rwq, returnq>> /\ One(r, S) \in Int
  BY <1>1, OneIs DEF sched, banks
<1> HIDE DEF r
<1> QED BY <1>3, <1>4, InDramType DEF CountInDram, Flow

\* A request leaves the return queue of the DRAM.
LEMMA DramReturnInDram ==
  ASSUME Flow, DramReturn
  PROVE  \A S : CountInDram(S)' \in Nat /\ CountInDram(S)' = CountInDram(S) - One(Head(returnq), S)
<1> DEFINE r == Head(returnq)
<1>1. returnq # << >> /\ returnq' = Tail(returnq) /\ UNCHANGED <<sched, banks, latency>>
  BY DEF DramReturn
<1>2. returnq \in Seq(Request) /\ r \in Request /\ returnq' \in Seq(Request)
  BY <1>1, HeadTail DEF Flow, DramOK
<1> SUFFICES ASSUME NEW S
             PROVE  CountInDram(S)' \in Nat /\ CountInDram(S)' = CountInDram(S) - One(r, S)
  OBVIOUS
<1>3. Count(returnq', S) = Count(returnq, S) - One(r, S) /\ Count(returnq', S) \in Nat
  BY <1>1, <1>2, CountTail, CountType
<1>4. UNCHANGED <<queue, mrq, rwq, latency>> /\ One(r, S) \in Int
  BY <1>1, OneIs DEF sched, banks
<1> HIDE DEF r
<1> QED BY <1>3, <1>4, InDramType DEF CountInDram, Flow

\* The data of a request has been transferred: a write-back leaves the DRAM, any other
\* request moves on to the return queue.
LEMMA DataDoneInDram ==
  ASSUME Flow, DataDone
  PROVE  /\ UNCHANGED returnq =>
              \A S : CountInDram(S)' \in Nat /\ CountInDram(S)' = CountInDram(S) - One(Head(rwq), S)
         /\ returnq' = Append(returnq, Head(rwq)) => \A S : CountInDram(S)' = CountInDram(S)
<1> DEFINE r == Head(rwq)
<1>1. /\ rwq # << >> /\ rwq' = Tail(rwq) /\ UNCHANGED <<latency, sched, mrq>>
  BY DEF DataDone
<1>2. rwq \in Seq(Request) /\ r \in Request /\ rwq' \in Seq(Request)
  BY <1>1, HeadTail DEF Flow, DramOK
<1>3. UNCHANGED <<queue, mrq, latency>>
  BY <1>1 DEF sched
<1>4. ASSUME NEW S
      PROVE  /\ Count(rwq', S) = Count(rwq, S) - One(r, S) /\ Count(rwq', S) \in Nat
             /\ One(r, S) \in Int
  <2>1. Count(rwq', S) = Count(rwq, S) - One(r, S)
    BY <1>1, <1>2, CountTail
  <2>2. Count(rwq', S) \in Nat
    BY <1>2, CountType
  <2>3. One(r, S) \in Int
    BY OneIs
  <2> QED BY <2>1, <2>2, <2>3
<1>5. ASSUME UNCHANGED returnq, NEW S
      PROVE  CountInDram(S)' \in Nat /\ CountInDram(S)' = CountInDram(S) - One(r, S)
  <2> HIDE DEF r
  <2> QED BY <1>3, <1>4, <1>5, InDramType DEF CountInDram, Flow
<1>6. ASSUME returnq' = Append(returnq, r), NEW S
      PROVE  CountInDram(S)' = CountInDram(S)
  <2>1. returnq \in Seq(Request)
    BY DEF Flow, DramOK
  <2>2. Count(returnq', S) = Count(returnq, S) + One(r, S)
    BY <1>2, <1>6, <2>1, CountAppend
  <2> HIDE DEF r
  <2> QED BY <1>3, <1>4, <2>2, InDramType DEF CountInDram, Flow
<1> QED BY <1>5, <1>6

-------------------------------------------------------------------------------
(* Credits. *)

\* The sub-partitions, for the lemmas about sums.
LEMMA Subs == NSub \in Nat /\ Sub = 0 .. NSub - 1
BY SizesAssumption DEF Sub

\* No credit moves and no request enters or leaves the DRAM.
LEMMA CreditsKept ==
  ASSUME CreditsConserved, UNCHANGED <<private_credit, shared_credit>>,
         \A s \in Sub : CountInDram(OfSub(s))' = CountInDram(OfSub(s))
  PROVE  CreditsConserved'
<1>1. \A s \in Sub : SharedBy(s)' = SharedBy(s)
  BY DEF SharedBy
<1>2. [s \in Sub |-> SharedBy(s)]' = [s \in Sub |-> SharedBy(s)]
  BY <1>1
<1> QED BY <1>1, <1>2 DEF CreditsConserved, private_limit

\* arbitration_metadata::borrow_credit, for a request that enters the DRAM.
LEMMA CreditsBorrowed ==
  ASSUME DramOK, CreditsOK, CreditsConserved, NEW x \in Sub, BorrowCredit(x),
         \A s \in Sub : CountInDram(OfSub(s))' = CountInDram(OfSub(s)) + IF s = x THEN 1 ELSE 0
  PROVE  CreditsOK' /\ CreditsConserved'
<1> DEFINE f == [s \in Sub |-> SharedBy(s)]
<1>1. \A s \in Sub : CountInDram(OfSub(s)) \in Nat /\ private_credit[s] \in Int /\ SharedBy(s) \in Int
  BY InDramType DEF CreditsOK, SharedBy
<1>2. f \in [0 .. NSub - 1 -> Int] /\ x \in 0 .. NSub - 1
  BY <1>1, Subs
<1>3. CASE private_credit[x] < private_limit
  <2>1. private_credit' = [private_credit EXCEPT ![x] = @ + 1] /\ shared_credit' = shared_credit
    BY <1>3 DEF BorrowCredit
  <2>2. CreditsOK'
    BY <1>1, <2>1 DEF CreditsOK
  <2>3. ASSUME NEW s \in Sub
        PROVE  SharedBy(s)' = SharedBy(s) /\ private_credit'[s] \in 0 .. private_limit
    <3>1. private_credit'[s] = IF s = x THEN private_credit[s] + 1 ELSE private_credit[s]
      BY <2>1 DEF CreditsOK
    <3>2. private_credit[s] \in 0 .. 1
      BY DEF CreditsConserved, private_limit
    <3>3. CountInDram(OfSub(s))' = CountInDram(OfSub(s)) + IF s = x THEN 1 ELSE 0
      OBVIOUS
    <3> QED BY <1>1, <1>3, <3>1, <3>2, <3>3 DEF SharedBy, private_limit
  <2>4. [s \in Sub |-> SharedBy(s)]' = f
    BY <2>3
  <2> QED BY <2>1, <2>2, <2>3, <2>4 DEF CreditsConserved, private_limit
<1>4. CASE ~(private_credit[x] < private_limit)
  <2>1. private_credit' = private_credit /\ shared_credit' = shared_credit + 1
    BY <1>4 DEF BorrowCredit
  <2>2. CreditsOK'
    BY <2>1 DEF CreditsOK
  <2>3. ASSUME NEW s \in Sub
        PROVE  SharedBy(s)' = SharedBy(s) + (IF s = x THEN 1 ELSE 0) /\ SharedBy(s)' >= 0
    <3>1. CountInDram(OfSub(s))' = CountInDram(OfSub(s)) + IF s = x THEN 1 ELSE 0
      OBVIOUS
    <3>2. SharedBy(s) >= 0
      BY DEF CreditsConserved
    <3> QED BY <1>1, <2>1, <3>1, <3>2 DEF SharedBy
  <2>4. [s \in Sub |-> SharedBy(s)]' = [f EXCEPT ![x] = f[x] + 1]
    <3>1. [s \in Sub |-> SharedBy(s)]' = [s \in Sub |-> SharedBy(s) + IF s = x THEN 1 ELSE 0]
      BY <2>3
    <3>2. \A s \in Sub : (SharedBy(s) + IF s = x THEN 1 ELSE 0) = IF s = x THEN f[x] + 1 ELSE f[s]
      BY <1>1
    <3> QED BY <3>1, <3>2
  <2>5. SumOf([f EXCEPT ![x] = f[x] + 1], NSub) = SumOf(f, NSub) + 1
    <3>1. f[x] \in Int /\ f[x] + 1 \in Int
      BY <1>2
    <3> HIDE DEF f
    <3>2. SumOf(f, NSub) \in Int
      BY <1>2, Subs, SumOfType
    <3>3. SumOf([f EXCEPT ![x] = f[x] + 1], NSub) = SumOf(f, NSub) + (f[x] + 1) - f[x]
      BY <1>2, <3>1, Subs, SumOfChange
    <3> QED BY <3>1, <3>2, <3>3
  <2>6. shared_credit' = SumOf([s \in Sub |-> SharedBy(s)]', NSub)
    BY <2>1, <2>4, <2>5 DEF CreditsConserved
  <2> QED BY <2>1, <2>2, <2>3, <2>6 DEF CreditsConserved, private_limit
<1> QED BY <1>3, <1>4

\* arbitration_metadata::return_credit, for a request that leaves the DRAM: if it finds
\* the private pool untouched, then the shared pool is not, as its assertion says.
LEMMA CreditsReturned ==
  ASSUME DramOK, CreditsOK, CreditsConserved, NEW x \in Sub, ReturnCredit(x),
         \A s \in Sub : /\ CountInDram(OfSub(s))' \in Nat
                        /\ CountInDram(OfSub(s))' = CountInDram(OfSub(s)) - IF s = x THEN 1 ELSE 0
  PROVE  CreditsOK' /\ CreditsConserved'
<1> DEFINE f == [s \in Sub |-> SharedBy(s)]
<1>1. \A s \in Sub : CountInDram(OfSub(s)) \in Nat /\ private_credit[s] \in Int /\ SharedBy(s) \in Int
  BY InDramType DEF CreditsOK, SharedBy
<1>2. f \in [0 .. NSub - 1 -> Int] /\ x \in 0 .. NSub - 1
  BY <1>1, Subs
<1>3. CASE private_credit[x] > 0
  <2>1. private_credit' = [private_credit EXCEPT ![x] = @ - 1] /\ shared_credit' = shared_credit
    BY <1>3 DEF ReturnCredit
  <2>2. CreditsOK'
    BY <1>1, <2>1 DEF CreditsOK
  <2>3. ASSUME NEW s \in Sub
        PROVE  SharedBy(s)' = SharedBy(s) /\ private_credit'[s] \in 0 .. private_limit
    <3>1. private_credit'[s] = IF s = x THEN private_credit[s] - 1 ELSE private_credit[s]
      BY <2>1 DEF CreditsOK
    <3>2. private_credit[s] \in 0 .. 1
      BY DEF CreditsConserved, private_limit
    <3>3. CountInDram(OfSub(s))' = CountInDram(OfSub(s)) - IF s = x THEN 1 ELSE 0
      OBVIOUS
    <3> QED BY <1>1, <1>3, <3>1, <3>2, <3>3 DEF SharedBy, private_limit
  <2>4. [s \in Sub |-> SharedBy(s)]' = f
    BY <2>3
  <2> QED BY <2>1, <2>2, <2>3, <2>4 DEF CreditsConserved, private_limit
<1>4. CASE ~(private_credit[x] > 0)
  <2>1. private_credit' = private_credit /\ shared_credit' = shared_credit - 1
    BY <1>4 DEF ReturnCredit
  <2>2. CreditsOK'
    BY <2>1 DEF CreditsOK
  <2>3. ASSUME NEW s \in Sub
        PROVE  SharedBy(s)' = SharedBy(s) - (IF s = x THEN 1 ELSE 0) /\ SharedBy(s)' >= 0
    <3>1. CountInDram(OfSub(s))' = CountInDram(OfSub(s)) - (IF s = x THEN 1 ELSE 0) /\ CountInDram(OfSub(s))' \in Nat
      OBVIOUS
    <3>2. SharedBy(s) >= 0 /\ private_credit[s] \in 0 .. 1
      BY DEF CreditsConserved, private_limit
    <3>3. private_credit[x] = 0
      BY <1>4 DEF CreditsConserved, private_limit
    <3> QED BY <1>1, <2>1, <3>1, <3>2, <3>3 DEF SharedBy
  <2>4. [s \in Sub |-> SharedBy(s)]' = [f EXCEPT ![x] = f[x] - 1]
    <3>1. [s \in Sub |-> SharedBy(s)]' = [s \in Sub |-> SharedBy(s) - IF s = x THEN 1 ELSE 0]
      BY <2>3
    <3>2. \A s \in Sub : (SharedBy(s) - IF s = x THEN 1 ELSE 0) = IF s = x THEN f[x] - 1 ELSE f[s]
      BY <1>1
    <3> QED BY <3>1, <3>2
  <2>5. SumOf([f EXCEPT ![x] = f[x] - 1], NSub) = SumOf(f, NSub) - 1
    <3>1. f[x] \in Int /\ f[x] - 1 \in Int
      BY <1>2
    <3> HIDE DEF f
    <3>2. SumOf(f, NSub) \in Int
      BY <1>2, Subs, SumOfType
    <3>3. SumOf([f EXCEPT ![x] = f[x] - 1], NSub) = SumOf(f, NSub) + (f[x] - 1) - f[x]
      BY <1>2, <3>1, Subs, SumOfChange
    <3> QED BY <3>1, <3>2, <3>3
  <2>6. shared_credit' = SumOf([s \in Sub |-> SharedBy(s)]', NSub)
    BY <2>1, <2>4, <2>5 DEF CreditsConserved
  <2> QED BY <2>1, <2>2, <2>3, <2>6 DEF CreditsConserved, private_limit
<1> QED BY <1>3, <1>4

\* A request that leaves the DRAM gives its credit back and ends, or goes back to its
\* sub-partition.
Leaves(r) ==
  \/ SetDone(r) /\ UNCHANGED dram_L2
  \/ BackToSub(r) /\ UNCHANGED tracker

\* A request that leaves the DRAM goes to the queue of its own sub-partition, or is
\* done with, and gives back one credit there.
LEMMA LeavesHome ==
  ASSUME HomeOK, RoomOK, NEW r \in Request, Leaves(r),
         UNCHANGED <<todo, rop, icnt_L2, L2_icnt, l2vars, L2_dram>>
  PROVE  HomeOK' /\ RoomOK' /\ ReturnCredit(r.sp) /\ r.sp \in Sub
<1>1. r.sp \in Sub /\ r \in OfSub(r.sp)
  BY OfSubRequest
<1>2. CASE SetDone(r) /\ UNCHANGED dram_L2
  <2>1. tracker' = [tracker EXCEPT ![r.sp] = @ \ {r}]
    BY <1>2 DEF SetDone
  <2>2. tracker' \in Sets
    BY <2>1 DEF HomeOK, Sets
  <2> QED BY <1>1, <1>2, <2>2 DEF SetDone, HomeOK, RoomOK, l2vars
<1>3. CASE BackToSub(r) /\ UNCHANGED tracker
  <2>1. dram_L2' = [dram_L2 EXCEPT ![r.sp] = Append(@, r)]
    BY <1>3 DEF BackToSub
  <2>2. dram_L2' \in Queues
    BY <1>1, <2>1, QueueAppend DEF HomeOK
  <2> QED BY <1>1, <1>3, <2>2 DEF BackToSub, HomeOK, RoomOK, l2vars
<1> QED BY <1>2, <1>3 DEF Leaves

\* memory_partition_unit::dram_cycle: a request enters the DRAM with a credit.
LEMMA IssueStep ==
  ASSUME Flow, CreditsConserved, NEW x \in Sub, IssueToDram(x)
  PROVE  Flow' /\ CreditsConserved'
<1> DEFINE r == Head(L2_dram[x])
<1>1. /\ L2_dram[x] # << >> /\ L2_dram' = [L2_dram EXCEPT ![x] = Tail(@)]
      /\ latency' = Append(latency, r) /\ BorrowCredit(x)
      /\ UNCHANGED <<subvars, dram_L2, sched, banks, returnq>>
  BY DEF IssueToDram, CanIssueToDram
<1>2. r \in OfSub(x) /\ r \in Request /\ L2_dram' \in Queues
  BY <1>1, QueueTail DEF Flow, HomeOK
<1>3. HomeOK' /\ RoomOK'
  BY <1>1, <1>2 DEF Flow, HomeOK, RoomOK, subvars, l2vars
<1>4. DramOK' /\ RowServed'
  <2>1. latency' \in Seq(Request)
    BY <1>1, <1>2 DEF Flow, DramOK
  <2> QED BY <1>1, <2>1 DEF Flow, DramOK, RowServed, InRow, sched, banks
<1>5. ASSUME NEW s \in Sub
      PROVE  CountInDram(OfSub(s))' = CountInDram(OfSub(s)) + IF s = x THEN 1 ELSE 0
  <2>1. One(r, OfSub(s)) = IF s = x THEN 1 ELSE 0
    <3>1. r \in OfSub(s) <=> s = x
      BY <1>2, OfSubRequest
    <3> QED BY <3>1 DEF One
  <2> QED BY <2>1, IssueInDram
<1>6. CreditsOK' /\ CreditsConserved'
  BY <1>1, <1>5, CreditsBorrowed DEF Flow
<1> QED BY <1>3, <1>4, <1>6 DEF Flow

\* A request leaves the DRAM: simple_dram_model_cycle and dram_cycle.
LEMMA ReturnStep ==
  ASSUME Flow, CreditsConserved, NEW r \in Request, Leaves(r),
         UNCHANGED <<todo, rop, icnt_L2, L2_icnt, l2vars, L2_dram>>, DramOK', RowServed',
         \A s \in Sub : CountInDram(OfSub(s))' \in Nat /\ CountInDram(OfSub(s))' = CountInDram(OfSub(s)) - One(r, OfSub(s))
  PROVE  Flow' /\ CreditsConserved'
<1>1. HomeOK' /\ RoomOK' /\ ReturnCredit(r.sp) /\ r.sp \in Sub
  BY LeavesHome DEF Flow
<1>2. \A s \in Sub : One(r, OfSub(s)) = IF s = r.sp THEN 1 ELSE 0
  <2>1. \A s \in Sub : r \in OfSub(s) <=> s = r.sp
    BY OfSubRequest
  <2> QED BY <2>1 DEF One
<1>3. CreditsOK' /\ CreditsConserved'
  BY <1>1, <1>2, CreditsReturned DEF Flow
<1> QED BY <1>1, <1>3 DEF Flow

\* The return from the latency queue of the simple DRAM model keeps the flow and the
\* credits.
LEMMA SimpleReturnStep ==
  ASSUME Flow, CreditsConserved, SimpleReturn
  PROVE  Flow' /\ CreditsConserved'
<1> DEFINE r == Head(latency)
<1>1. /\ latency # << >> /\ latency' = Tail(latency) /\ Leaves(r)
      /\ UNCHANGED <<todo, rop, icnt_L2, L2_icnt, l2vars, L2_dram, sched, banks, returnq>>
  BY DEF SimpleReturn, Leaves
<1>2. latency \in Seq(Request) /\ r \in Request /\ latency' \in Seq(Request)
  BY <1>1, HeadTail DEF Flow, DramOK
<1>3. DramOK' /\ RowServed'
  BY <1>1, <1>2 DEF Flow, DramOK, RowServed, InRow, sched, banks
<1>4. \A s \in Sub : /\ CountInDram(OfSub(s))' \in Nat
                     /\ CountInDram(OfSub(s))' = CountInDram(OfSub(s)) - One(r, OfSub(s))
  BY SimpleReturnInDram
<1> QED BY <1>1, <1>2, <1>3, <1>4, ReturnStep

\* So does the return from the DRAM's own return queue.
LEMMA DramReturnStep ==
  ASSUME Flow, CreditsConserved, DramReturn
  PROVE  Flow' /\ CreditsConserved'
<1> DEFINE r == Head(returnq)
<1>1. /\ returnq # << >> /\ returnq' = Tail(returnq) /\ Leaves(r)
      /\ UNCHANGED <<todo, rop, icnt_L2, L2_icnt, l2vars, L2_dram, sched, banks, latency>>
  BY DEF DramReturn, Leaves, subvars
<1>2. returnq \in Seq(Request) /\ r \in Request /\ returnq' \in Seq(Request)
  BY <1>1, HeadTail DEF Flow, DramOK
<1>3. DramOK' /\ RowServed'
  BY <1>1, <1>2 DEF Flow, DramOK, RowServed, InRow, sched, banks
<1>4. \A s \in Sub : /\ CountInDram(OfSub(s))' \in Nat
                     /\ CountInDram(OfSub(s))' = CountInDram(OfSub(s)) - One(r, OfSub(s))
  BY DramReturnInDram
<1> QED BY <1>1, <1>2, <1>3, <1>4, ReturnStep

\* dram_t::cycle: a write-back is over, any other request waits to return.
LEMMA DataDoneStep ==
  ASSUME Flow, CreditsConserved, DataDone
  PROVE  Flow' /\ CreditsConserved'
<1> DEFINE r == Head(rwq)
<1>1. /\ rwq # << >> /\ rwq' = Tail(rwq)
      /\ UNCHANGED <<todo, rop, icnt_L2, L2_icnt, l2vars, L2_dram, dram_L2, latency, sched,
                     mrq, curr_row>>
  BY DEF DataDone
<1>2. rwq \in Seq(Request) /\ r \in Request /\ rwq' \in Seq(Request)
  BY <1>1, HeadTail DEF Flow, DramOK
<1>4. CASE SetDone(r) /\ UNCHANGED returnq
  <2>1. DramOK' /\ RowServed'
    BY <1>1, <1>2, <1>4 DEF Flow, DramOK, RowServed, InRow, sched
  <2>2. \A s \in Sub : /\ CountInDram(OfSub(s))' \in Nat
                       /\ CountInDram(OfSub(s))' = CountInDram(OfSub(s)) - One(r, OfSub(s))
    BY <1>4, DataDoneInDram
  <2>3. Leaves(r)
    BY <1>1, <1>4 DEF Leaves
  <2> QED BY <1>1, <1>2, <2>1, <2>2, <2>3, ReturnStep
<1>5. CASE returnq' = Append(returnq, r) /\ UNCHANGED <<tracker, credits>>
  <2>1. returnq \in Seq(Request) /\ returnq' \in Seq(Request)
    BY <1>2, <1>5 DEF Flow, DramOK
  <2>2. DramOK' /\ RowServed'
    BY <1>1, <1>2, <2>1 DEF Flow, DramOK, RowServed, InRow, sched
  <2>3. HomeOK' /\ RoomOK' /\ CreditsOK'
    BY <1>1, <1>5 DEF Flow, HomeOK, RoomOK, CreditsOK, l2vars, credits
  <2>4. \A s \in Sub : CountInDram(OfSub(s))' = CountInDram(OfSub(s))
    BY <1>5, DataDoneInDram
  <2>5. CreditsConserved'
    BY <1>5, <2>4, CreditsKept DEF credits
  <2> QED BY <2>2, <2>3, <2>5 DEF Flow
<1> QED BY <1>4, <1>5 DEF DataDone

\* No step of a partition loses track of a request or of a credit.
LEMMA FlowInductive ==
  ASSUME Flow, CreditsConserved, [Next]_vars
  PROVE  Flow' /\ CreditsConserved'
<1>1. ASSUME NEW s \in Sub, SubCycle(s)
      PROVE  Flow' /\ CreditsConserved'
  <2>1. UNCHANGED <<credits, latency, sched, banks, returnq>>
    BY <1>1 DEF SubCycle, PushPacket, RopToL2, BypassL2, L2Access, L2Answers, L2Misses, L2Merges,
                L2Cycle, FromDram, ReadyToIcnt, PopReply
  <2>2. HomeOK' /\ RoomOK'
    BY <1>1, SubCycleHome DEF Flow
  <2>3. DramOK' /\ RowServed' /\ CreditsOK'
    BY <2>1 DEF Flow, DramOK, RowServed, InRow, CreditsOK, credits, sched, banks
  <2>4. CreditsConserved'
    BY <2>1, CreditsKept DEF CountInDram, credits, sched, banks
  <2> QED BY <2>2, <2>3, <2>4 DEF Flow
<1>2. ASSUME DramOK', RowServed', \A s \in Sub : CountInDram(OfSub(s))' = CountInDram(OfSub(s)),
             UNCHANGED <<subvars, L2_dram, dram_L2, credits>>
      PROVE  Flow' /\ CreditsConserved'
  <2>1. HomeOK' /\ RoomOK' /\ CreditsOK'
    BY <1>2 DEF Flow, HomeOK, RoomOK, CreditsOK, subvars, l2vars, credits
  <2>2. CreditsConserved'
    BY <1>2, CreditsKept DEF credits
  <2> QED BY <1>2, <2>1, <2>2 DEF Flow
<1>3. CASE DramPush
  <2>1. UNCHANGED <<subvars, L2_dram, dram_L2, credits>>
    BY <1>3 DEF DramPush
  <2> QED BY <1>2, <1>3, <2>1, PushInDram DEF Flow
<1>4. ASSUME NEW b \in Bank, Schedule(b)
      PROVE  Flow' /\ CreditsConserved'
  <2>1. UNCHANGED <<subvars, L2_dram, dram_L2, credits>>
    BY <1>4 DEF Schedule
  <2> QED BY <1>2, <1>4, <2>1, ScheduleInDram DEF Flow
<1>5. ASSUME NEW b \in Bank, BankCommands(b)
      PROVE  Flow' /\ CreditsConserved'
  <2>1. UNCHANGED <<subvars, L2_dram, dram_L2, credits>>
    BY <1>5 DEF BankCommands
  <2> QED BY <1>2, <1>5, <2>1, CommandsInDram DEF Flow
<1>6. CASE SwitchMode
  <2>1. /\ mode' = NewMode
        /\ UNCHANGED <<subvars, L2_dram, dram_L2, credits, latency, queue, last_row, banks, returnq>>
    BY <1>6 DEF SwitchMode
  <2>2. mode' \in Mode
    BY <2>1 DEF NewMode, Flow, DramOK, Mode
  <2>3. DramOK' /\ RowServed'
    BY <2>1, <2>2 DEF Flow, DramOK, RowServed, InRow, banks
  <2>4. \A s \in Sub : CountInDram(OfSub(s))' = CountInDram(OfSub(s))
    BY <2>1 DEF CountInDram, banks
  <2> QED BY <1>2, <2>1, <2>3, <2>4
<1>7. CASE UNCHANGED vars
  <2>1. UNCHANGED <<subvars, L2_dram, dram_L2, credits, latency, sched, banks, returnq>>
    BY <1>7 DEF vars
  <2>2. DramOK' /\ RowServed'
    BY <2>1 DEF Flow, DramOK, RowServed, InRow, sched, banks
  <2>3. \A s \in Sub : CountInDram(OfSub(s))' = CountInDram(OfSub(s))
    BY <2>1 DEF CountInDram, sched, banks
  <2> QED BY <1>2, <2>1, <2>2, <2>3
<1> QED BY <1>1, <1>3, <1>4, <1>5, <1>6, <1>7, IssueStep, SimpleReturnStep, DataDoneStep,
           DramReturnStep DEF Next

-------------------------------------------------------------------------------

\* At first nothing is in the DRAM.
LEMMA NoneInDram ==
  ASSUME Init, NEW S
  PROVE  CountInDram(S) = 0
<1>1. << >> \in Seq(Request)
  OBVIOUS
<1>2. Count(latency, S) = 0 /\ Count(rwq, S) = 0 /\ Count(returnq, S) = 0
  BY <1>1, CountType DEF Init
<1>3. ASSUME NEW f \in [Bank -> Seq(Request)], \A b \in Bank : f[b] = << >>
      PROVE  CountAll(f, S) = 0
  <2> DEFINE g == [b \in Bank |-> Count(f[b], S)]
  <2>1. \A b \in Bank : Count(f[b], S) = 0
    BY <1>1, <1>3, CountType
  <2>2. NBank \in Nat /\ Bank = 0 .. NBank - 1
    BY SizesAssumption DEF Bank
  <2>3. g \in [0 .. NBank - 1 -> Int] /\ \A b \in 0 .. NBank - 1 : g[b] = 0
    BY <2>1, <2>2
  <2> HIDE DEF g
  <2>4. SumOf(g, NBank) = 0
    BY <2>2, <2>3, SumOfZero
  <2> QED BY <2>4 DEF CountAll, g
<1>4. CountAll(queue["READ"], S) = 0 /\ CountAll(queue["WRITE"], S) = 0
  <2>1. \A m \in Mode : /\ queue[m] \in [Bank -> Seq(Request)]
                        /\ \A b \in Bank : queue[m][b] = << >>
    BY <1>1 DEF Init
  <2> QED BY <1>3, <2>1 DEF Mode
<1>5. CountAll(mrq, S) = 0
  <2>1. mrq \in [Bank -> Seq(Request)] /\ \A b \in Bank : mrq[b] = << >>
    BY <1>1 DEF Init
  <2> QED BY <1>3, <2>1
<1> QED BY <1>2, <1>4, <1>5 DEF CountInDram

\* At first every queue is empty and no credit is out.
LEMMA FlowInit ==
  ASSUME Init
  PROVE  Flow /\ CreditsConserved
<1>1. \A s \in Sub : << >> \in Seq(OfSub(s)) /\ << >> \in Seq(Request)
  OBVIOUS
<1>2. todo \in Arrivals /\ dirty \in Sets
  <2>1. PICK w \in Workloads : todo = w.packets /\ dirty = w.dirty
    BY DEF Init
  <2>2. /\ w.packets \in [Sub -> Seq(Seq(Request))] /\ w.dirty \in [Sub -> SUBSET Request]
        /\ \A s \in Sub : w.packets[s] \in Seq(Packets(s)) /\ w.dirty[s] \subseteq OfSub(s)
    <3>1. 0 \in Sub
      BY SizesAssumption DEF Sub
    <3>2. w.packets \in [Sub -> Seq(Seq(Request))] /\ w.dirty \in [Sub -> SUBSET Request]
      BY <3>1, WorkloadsAssumption
    <3>3. \A s \in Sub : w.packets[s] \in Seq(Packets(s)) /\ w.dirty[s] \subseteq OfSub(s)
      BY WorkloadsAssumption DEF Packets
    <3> QED BY <3>2, <3>3
  <2> QED BY <2>1, <2>2 DEF Arrivals, Sets
<1>3. HomeOK
  BY <1>1, <1>2 DEF Init, HomeOK, Queues, Sets, Entries
<1>4. RoomOK
  <2>1. \A s \in Sub : icnt_L2[s] = << >>
    BY DEF Init
  <2> QED BY <2>1, SizesAssumption DEF RoomOK
<1>5. DramOK /\ CreditsOK
  BY DEF Init, DramOK, CreditsOK, Mode
<1>6. RowServed
  BY DEF Init, RowServed
<1>7. ASSUME NEW s \in Sub
      PROVE  SharedBy(s) = 0
  BY NoneInDram DEF SharedBy, Init
<1>8. SumOf([s \in Sub |-> SharedBy(s)], NSub) = 0
  <2> DEFINE g == [s \in Sub |-> SharedBy(s)]
  <2>1. g \in [0 .. NSub - 1 -> Int] /\ \A s \in 0 .. NSub - 1 : g[s] = 0
    BY <1>7, Subs
  <2> HIDE DEF g
  <2>2. SumOf(g, NSub) = 0
    BY <2>1, Subs, SumOfZero
  <2> QED BY <2>2 DEF g
<1>9. CreditsConserved
  BY <1>7, <1>8 DEF CreditsConserved, Init, private_limit
<1> QED BY <1>3, <1>4, <1>5, <1>6, <1>9 DEF Flow

(***************************************************************************)
(* Requests stay in the sub-partition of their address on their way        *)
(* through its queues and the DRAM; m_icnt_L2_queue never overflows (the   *)
(* assertion of fifo_pipeline::push), although texture requests enter it   *)
(* besides the ones that leave m_rop; and the row that the scheduler       *)
(* serves has a request (frfcfs_scheduler::schedule takes the back of the  *)
(* bin that m_last_row points to without a test that it is not empty).     *)
(***************************************************************************)
THEOREM FlowCorrect == Spec => []Flow
<1>1. Flow /\ CreditsConserved /\ [Next]_vars => Flow' /\ CreditsConserved'
  BY FlowInductive
<1> QED BY FlowInit, <1>1, PTL DEF Spec

(***************************************************************************)
(* Credits borrowed and returned match: borrow_credit and return_credit do *)
(* not record whose request took a credit from which pool, and still what  *)
(* is out of the pools is what is in the DRAM, and no sub-partition gives  *)
(* back more than it took (the assertion of return_credit).                *)
(***************************************************************************)
THEOREM CreditsMatch == Spec => []CreditsConserved
<1>1. Flow /\ CreditsConserved /\ [Next]_vars => Flow' /\ CreditsConserved'
  BY FlowInductive
<1> QED BY FlowInit, <1>1, PTL DEF Spec

(***************************************************************************)
(* The pools are never overdrawn: has_credits, tested a stage before       *)
(* borrow_credit, is still true there, so the DRAM never holds more        *)
(* requests of a sub-partition than its own credit and the shared ones.    *)
(***************************************************************************)
WithinLimits ==
  /\ shared_credit \in 0 .. shared_limit
  /\ \A s \in Sub : CountInDram(OfSub(s)) <= private_limit + shared_limit

\* A step leaves the configuration alone, and the shared pool too unless it borrows or returns.
LEMMA StepCredit ==
  [Next]_vars =>
    /\ cfg' = cfg
    /\ \/ \E r : ReturnCredit(r)
       \/ \E s \in Sub : IssueToDram(s)
       \/ UNCHANGED shared_credit
<1> DEFINE Q == /\ cfg' = cfg
                /\ \/ \E r : ReturnCredit(r)
                   \/ \E s \in Sub : IssueToDram(s)
                   \/ UNCHANGED shared_credit
<1>1. ASSUME NEW s \in Sub, SubCycle(s)
      PROVE  cfg' = cfg /\ shared_credit' = shared_credit
  <2>1. L2Access(s) => cfg' = cfg /\ shared_credit' = shared_credit
    BY DEF L2Access, L2Answers, L2Misses, L2Merges, credits
  <2>2. PushPacket(s) \/ RopToL2(s) \/ BypassL2(s) => cfg' = cfg /\ shared_credit' = shared_credit
    BY DEF PushPacket, RopToL2, BypassL2, credits
  <2>3. L2Cycle(s) \/ FromDram(s) => cfg' = cfg /\ shared_credit' = shared_credit
    BY DEF L2Cycle, FromDram, credits
  <2>4. ReadyToIcnt(s) \/ PopReply(s) => cfg' = cfg /\ shared_credit' = shared_credit
    BY DEF ReadyToIcnt, PopReply, credits
  <2> QED BY <1>1, <2>1, <2>2, <2>3, <2>4 DEF SubCycle
<1>2. ASSUME NEW s \in Sub, IssueToDram(s)
      PROVE  Q
  BY <1>2 DEF IssueToDram
<1>3. ASSUME NEW b \in Bank, Schedule(b) \/ BankCommands(b)
      PROVE  Q
  BY <1>3 DEF Schedule, BankCommands, credits
<1>4. SimpleReturn => Q
  BY DEF SimpleReturn, SetDone, BackToSub
<1>5. DramPush \/ SwitchMode => Q
  BY DEF DramPush, SwitchMode, credits
<1>6. DataDone => Q
  BY DEF DataDone, SetDone, credits
<1>7. DramReturn => Q
  BY DEF DramReturn, BackToSub
<1>8. UNCHANGED vars => Q
  BY DEF vars, credits
<1> HIDE DEF Q
<1>9. [Next]_vars => Q
  BY <1>1, <1>2, <1>3, <1>4, <1>5, <1>6, <1>7, <1>8 DEF Next, Q
<1> QED BY <1>9 DEF Q

\* The limit of the shared pool does not change, and it is not the 0 that lifts it.
LEMMA SharedLimit ==
  /\ shared_limit \in Nat /\ shared_limit >= 1
  /\ [Next]_vars => shared_limit' = shared_limit
<1>1. shared_limit \in Nat /\ shared_limit >= 1
  BY SizesAssumption DEF shared_limit
<1>2. ASSUME [Next]_vars
      PROVE  shared_limit' = shared_limit
  <2>1. cfg' = cfg
    BY <1>2, StepCredit
  <2> QED BY <2>1 DEF shared_limit
<1> QED BY <1>1, <1>2

\* A natural number in a sum of natural numbers is at most that sum.
LEMMA SharedPart ==
  ASSUME Flow, CreditsConserved, NEW s \in Sub
  PROVE  SharedBy(s) \in Nat /\ SharedBy(s) <= shared_credit /\ shared_credit \in Nat
<1> DEFINE f == [x \in Sub |-> SharedBy(x)]
           g == [f EXCEPT ![s] = 0]
<1>1. \A x \in Sub : CountInDram(OfSub(x)) \in Nat /\ private_credit[x] \in Int /\ SharedBy(x) \in Nat
  BY InDramType DEF Flow, CreditsOK, SharedBy, CreditsConserved
<1>2. f \in [0 .. NSub - 1 -> Nat] /\ g \in [0 .. NSub - 1 -> Nat] /\ f[s] = SharedBy(s)
  BY <1>1, Subs
<1>3. shared_credit = SumOf(f, NSub)
  BY DEF CreditsConserved
<1> HIDE DEF f
<1>4. SumOf(g, NSub) = SumOf(f, NSub) + 0 - f[s]
  <2>1. f \in [0 .. NSub - 1 -> Int] /\ s \in 0 .. NSub - 1 /\ 0 \in Int
    BY <1>2, Subs
  <2> QED BY <2>1, Subs, SumOfChange
<1> HIDE DEF g
<1>5. SumOf(g, NSub) \in Nat /\ SumOf(f, NSub) \in Nat
  BY <1>2, Subs, SumOfNat
<1> QED BY <1>1, <1>2, <1>3, <1>4, <1>5

\* The pools are never overdrawn.
THEOREM CreditsLimited == Spec => []WithinLimits
<1> DEFINE Within == shared_credit \in 0 .. shared_limit
           Whole == shared_credit \in Nat
<1>1. Init => Within
  BY SharedLimit DEF Init
<1>2. Flow /\ CreditsConserved /\ Within /\ Whole' /\ [Next]_vars => Within'
  <2> SUFFICES ASSUME Flow, CreditsConserved, Within, Whole', [Next]_vars
               PROVE  Within'
    OBVIOUS
  <2>1. shared_credit' <= shared_limit
    <3>1. ASSUME NEW r, ReturnCredit(r)
          PROVE  shared_credit' <= shared_limit
      BY <3>1, SharedLimit DEF ReturnCredit
    <3>2. ASSUME NEW s \in Sub, IssueToDram(s)
          PROVE  shared_credit' <= shared_limit
      BY <3>2, SharedLimit DEF IssueToDram, CanIssueToDram, HasCredits, BorrowCredit
    <3>3. CASE UNCHANGED shared_credit
      BY <3>3, SharedLimit
    <3> QED BY <3>1, <3>2, <3>3, StepCredit
  <2> QED BY <2>1, SharedLimit
<1>3. Flow /\ CreditsConserved /\ Within => WithinLimits
  <2> SUFFICES ASSUME Flow, CreditsConserved, Within, NEW s \in Sub
               PROVE  CountInDram(OfSub(s)) <= private_limit + shared_limit
    BY DEF WithinLimits
  <2>1. SharedBy(s) <= shared_credit /\ CountInDram(OfSub(s)) \in Nat /\ private_credit[s] \in Int
    BY SharedPart, InDramType DEF Flow, CreditsOK
  <2>2. private_credit[s] <= private_limit
    BY DEF CreditsConserved, private_limit
  <2> QED BY <2>1, <2>2, SharedLimit DEF SharedBy, private_limit
<1>4. Flow /\ CreditsConserved => Whole
  <2>1. 0 \in Sub
    BY SizesAssumption DEF Sub
  <2> QED BY <2>1, SharedPart
<1>5. Flow /\ CreditsConserved /\ [Next]_vars => Flow' /\ CreditsConserved'
  BY FlowInductive
<1>6. Init => Flow /\ CreditsConserved
  BY FlowInit
<1> HIDE DEF Within, Whole
<1> QED BY <1>1, <1>2, <1>3, <1>4, <1>5, <1>6, PTL DEF Spec

-------------------------------------------------------------------------------
(* Where a request is: its numbers in the queues. *)

\* What is in a queue.
LEMMA RangeIs ==
  ASSUME NEW V, NEW q \in Seq(V)
  PROVE  /\ \A r : r \in Range(q) <=> \E i \in 1 .. Len(q) : q[i] = r
         /\ Range(q) \subseteq V
BY DEF Range

\* A request is counted in a queue when it is in the queue.
LEMMA CountIs ==
  ASSUME NEW q \in Seq(Request), NEW r
  PROVE  Count(q, {r}) \in Nat /\ (Count(q, {r}) = 0 <=> r \notin Range(q))
<1>0. PICK S : S = {r}
  OBVIOUS
<1> DEFINE p == Only(q, S)
<1>1. p \in Seq(Request)
  BY OnlyType
<1>2. \A e : (\E i \in 1 .. Len(p) : p[i] = e) <=> e \in S /\ \E i \in 1 .. Len(q) : q[i] = e
  <2> TAKE e
  <2> QED BY OnlyElements
<1>3. r \in Range(q) <=> \E i \in 1 .. Len(q) : q[i] = r
  BY RangeIs
<1> HIDE DEF p
<1>4. Len(p) \in Nat /\ (Len(p) = 0 <=> ~ \E i \in 1 .. Len(p) : p[i] = r)
  <2>1. Len(p) \in Nat
    BY <1>1
  <2>2. ASSUME Len(p) # 0
        PROVE  \E i \in 1 .. Len(p) : p[i] = r
    <3>1. 1 \in 1 .. Len(p)
      BY <2>1, <2>2
    <3>2. p[1] \in S
      BY <1>2, <3>1
    <3> QED BY <1>0, <3>1, <3>2
  <2> QED BY <2>1, <2>2
<1>5. Len(p) = 0 <=> r \notin Range(q)
  BY <1>0, <1>2, <1>3, <1>4
<1> QED BY <1>0, <1>4, <1>5 DEF Count, p

\* The elements of two queues, one behind the other.
LEMMA ConcatIs ==
  ASSUME NEW V, NEW a \in Seq(V), NEW b \in Seq(V)
  PROVE  /\ Len(a \o b) = Len(a) + Len(b)
         /\ \A k \in 1 .. Len(a \o b) : (a \o b)[k] = IF k <= Len(a) THEN a[k] ELSE b[k - Len(a)]
OBVIOUS

\* In a queue without duplicates a request is counted once.
Apart(q) == \A i, j \in 1 .. Len(q) : q[i] = q[j] => i = j

LEMMA CountOnce ==
  ASSUME NEW q \in Seq(Request), Apart(q), NEW r, r \in Range(q)
  PROVE  Count(q, {r}) = 1
<1>1. PICK i \in 1 .. Len(q) : q[i] = r
  BY RangeIs
<1> DEFINE a == SubSeq(q, 1, i - 1)
           b == SubSeq(q, i + 1, Len(q))
           rest == a \o b
<1>2. rest \in Seq(Request) /\ Count(rest, {r}) = Count(q, {r}) - One(q[i], {r})
  BY CountRemove
<1>3. \A k \in 1 .. Len(rest) : rest[k] # r
  <2> SUFFICES ASSUME NEW k \in 1 .. Len(rest)
               PROVE  rest[k] # r
    OBVIOUS
  <2>1. /\ a \in Seq(Request) /\ Len(a) = i - 1 /\ \A j \in 1 .. Len(a) : a[j] = q[j]
        /\ b \in Seq(Request) /\ Len(b) = Len(q) - i /\ \A j \in 1 .. Len(b) : b[j] = q[j + i]
        /\ Len(q) \in Nat
    OBVIOUS
  <2> HIDE DEF a, b
  <2>2. /\ Len(rest) = Len(a) + Len(b)
        /\ rest[k] = IF k <= Len(a) THEN a[k] ELSE b[k - Len(a)]
    BY <2>1, ConcatIs
  <2> HIDE DEF rest
  <2>3. CASE k <= Len(a)
    <3>1. rest[k] = q[k] /\ k \in 1 .. Len(q) /\ k # i
      BY <2>1, <2>2, <2>3
    <3> QED BY <1>1, <3>1 DEF Apart
  <2>4. CASE k > Len(a)
    <3>1. k - Len(a) \in 1 .. Len(b) /\ k - Len(a) + i = k + 1 /\ k + 1 \in 1 .. Len(q) /\ k + 1 # i
      BY <2>1, <2>2, <2>4
    <3>2. rest[k] = q[k + 1]
      BY <2>1, <2>2, <2>4, <3>1
    <3> QED BY <1>1, <3>1, <3>2 DEF Apart
  <2> QED BY <2>1, <2>3, <2>4
<1> HIDE DEF rest, a, b
<1>4. Count(rest, {r}) = 0
  BY <1>2, <1>3, CountIs, RangeIs
<1>5. One(q[i], {r}) = 1 /\ Count(q, {r}) \in Nat
  BY <1>1, CountIs DEF One
<1> QED BY <1>2, <1>4, <1>5

\* A selection of requests holds a request as often as they do, if it is selected.
LEMMA CountOnly ==
  ASSUME NEW q \in Seq(Request), NEW A, NEW r
  PROVE  Count(Only(q, A), {r}) = IF r \in A THEN Count(q, {r}) ELSE 0
<1>1. CASE r \notin A
  <2>1. Only(q, A) \in Seq(Request)
    BY OnlyType
  <2>2. ~ \E i \in 1 .. Len(Only(q, A)) : Only(q, A)[i] = r
    BY <1>1, OnlyElements
  <2>3. r \notin Range(Only(q, A))
    BY <2>1, <2>2, RangeIs
  <2> QED BY <1>1, <2>1, <2>3, CountIs
<1>2. CASE r \in A
  <2> DEFINE Front(k) == SubSeq(q, 1, k)
             T == {k \in Nat : k <= Len(q) => Count(Only(Front(k), A), {r}) = Count(Front(k), {r})}
  <2>1. 0 \in T
    <3>1. Front(0) = << >>
      OBVIOUS
    <3> QED BY <3>1, OnlyEmpty
  <2>2. ASSUME NEW k \in T
        PROVE  k + 1 \in T
    <3> SUFFICES ASSUME k + 1 <= Len(q)
                 PROVE  Count(Only(Front(k + 1), A), {r}) = Count(Front(k + 1), {r})
      OBVIOUS
    <3> DEFINE p == Front(k)
               e == q[k + 1]
    <3>1. Front(k + 1) = Append(p, e) /\ p \in Seq(Request) /\ e \in Request
      OBVIOUS
    <3>2. Count(Only(p, A), {r}) = Count(p, {r})
      OBVIOUS
    <3> HIDE DEF p, e, Front
    <3>3. Only(Append(p, e), A) = AppendIf(Only(p, A), e, A)
      BY <3>1, OnlyAppend
    <3>4. Only(p, A) \in Seq(Request)
      BY <3>1, OnlyType
    <3>5. Count(Append(p, e), {r}) = Count(p, {r}) + One(e, {r}) /\ Count(p, {r}) \in Nat
      BY <3>1, CountAppend, CountType
    <3>6. CASE e \in A
      <4>1. Count(Append(Only(p, A), e), {r}) = Count(Only(p, A), {r}) + One(e, {r})
        BY <3>1, <3>4, CountAppend
      <4> QED BY <3>1, <3>2, <3>3, <3>5, <3>6, <4>1 DEF AppendIf
    <3>7. CASE e \notin A
      <4>1. One(e, {r}) = 0
        BY <1>2, <3>7 DEF One
      <4>2. Only(Append(p, e), A) = Only(p, A)
        BY <3>3, <3>7 DEF AppendIf
      <4>3. Count(Append(p, e), {r}) = Count(p, {r})
        BY <3>5, <4>1
      <4> QED BY <3>1, <3>2, <4>2, <4>3
    <3> QED BY <3>6, <3>7
  <2>3. T = Nat
    <3> HIDE DEF T
    <3>1. T \in SUBSET Nat
      BY DEF T
    <3> QED BY <2>1, <2>2, <3>1, SetInduction
  <2>4. Front(Len(q)) = q /\ Len(q) \in Nat /\ Len(q) <= Len(q)
    OBVIOUS
  <2>5. Len(q) \in T
    BY ONLY <2>3, <2>4
  <2> HIDE DEF Front
  <2> QED BY <1>2, <2>4, <2>5
<1> QED BY <1>1, <1>2

\* A request is counted in the queues of the banks when it is in one of them.
LEMMA CountAllIs ==
  ASSUME NEW f \in [Bank -> Seq(Request)], NEW r
  PROVE  CountAll(f, {r}) \in Nat /\ (CountAll(f, {r}) = 0 <=> r \notin AllOf(f))
<1>1. CountAll(f, {r}) \in Nat
  BY CountAllType
<1>2. r \in AllOf(f) <=> \E b \in Bank : r \in Range(f[b])
  BY DEF AllOf
<1>3. ASSUME r \notin AllOf(f)
      PROVE  CountAll(f, {r}) = 0
  <2>0. PICK S : S = {r}
    OBVIOUS
  <2> DEFINE g == [b \in Bank |-> Count(f[b], S)]
  <2>1. NBank \in Nat /\ Bank = 0 .. NBank - 1
    BY SizesAssumption DEF Bank
  <2>2. \A b \in Bank : Count(f[b], S) = 0
    BY <1>2, <1>3, <2>0, CountIs
  <2>3. g \in [0 .. NBank - 1 -> Int] /\ \A b \in 0 .. NBank - 1 : g[b] = 0
    BY <2>1, <2>2
  <2> HIDE DEF g
  <2>4. SumOf(g, NBank) = 0
    BY <2>1, <2>3, SumOfZero
  <2> QED BY <2>0, <2>4 DEF CountAll, g
<1>4. ASSUME NEW b \in Bank, r \in Range(f[b])
      PROVE  CountAll(f, {r}) # 0
  <2>1. Count(f[b], {r}) \in Nat \ {0}
    BY <1>4, CountIs
  <2>2. << >> \in Seq(Request)
    OBVIOUS
  <2>3. Count(<< >>, {r}) = 0
    BY <2>2, CountType
  <2>4. CountAll([f EXCEPT ![b] = << >>], {r}) = CountAll(f, {r}) + Count(<< >>, {r}) - Count(f[b], {r})
    BY <2>2, CountAllChange
  <2>5. CountAll([f EXCEPT ![b] = << >>], {r}) \in Nat
    <3>1. [f EXCEPT ![b] = << >>] \in [Bank -> Seq(Request)]
      BY <2>2
    <3> QED BY <3>1, CountAllType
  <2> QED BY <1>1, <2>1, <2>3, <2>4, <2>5
<1> QED BY <1>1, <1>2, <1>3, <1>4

\* A request is counted in the DRAM when it is there.
LEMMA InDramIs ==
  ASSUME DramOK, NEW r \in Request
  PROVE  CountInDram({r}) \in Nat /\ (CountInDram({r}) = 0 <=> r \notin InDram(r.sp))
<1> DEFINE a == Count(latency, {r})
           b == CountAll(queue["READ"], {r})
           c == CountAll(queue["WRITE"], {r})
           d == CountAll(mrq, {r})
           e == Count(rwq, {r})
           f == Count(returnq, {r})
<1>1. /\ a \in Nat /\ (a = 0 <=> r \notin Range(latency))
      /\ e \in Nat /\ (e = 0 <=> r \notin Range(rwq))
      /\ f \in Nat /\ (f = 0 <=> r \notin Range(returnq))
  BY CountIs DEF DramOK
<1>2. /\ b \in Nat /\ (b = 0 <=> r \notin AllOf(queue["READ"]))
      /\ c \in Nat /\ (c = 0 <=> r \notin AllOf(queue["WRITE"]))
      /\ d \in Nat /\ (d = 0 <=> r \notin AllOf(mrq))
  <2>1. queue["READ"] \in [Bank -> Seq(Request)] /\ queue["WRITE"] \in [Bank -> Seq(Request)]
    BY DEF DramOK, Mode
  <2>2. mrq \in [Bank -> Seq(Request)]
    BY DEF DramOK
  <2> QED BY <2>1, <2>2, CountAllIs
<1>3. CountInDram({r}) = a + b + c + d + e + f
  BY DEF CountInDram
<1>4. r \in InDram(r.sp) <=> \/ r \in Range(latency) \/ r \in AllOf(queue["READ"])
                             \/ r \in AllOf(queue["WRITE"]) \/ r \in AllOf(mrq)
                             \/ r \in Range(rwq) \/ r \in Range(returnq)
  BY DEF InDram
<1> HIDE DEF a, b, c, d, e, f
<1>5. CountInDram({r}) \in Nat
  BY <1>1, <1>2, <1>3
<1>6. CountInDram({r}) = 0 <=> a = 0 /\ b = 0 /\ c = 0 /\ d = 0 /\ e = 0 /\ f = 0
  BY <1>1, <1>2, <1>3
<1> QED BY <1>1, <1>2, <1>4, <1>5, <1>6

\* How often a request is in a queue, and in the queues of its sub-partition.
Times(q, r) == Count(q, {r})
At(f, r) == Times(f[r.sp], r)
Same(h, r) == IF h = r THEN 1 ELSE 0

\* The queues of the sub-partitions after one of them has changed.
WithAppend(f, s, h) == [f EXCEPT ![s] = Append(@, h)]
WithConcat(f, s, q) == [f EXCEPT ![s] = @ \o q]
WithTail(f, s) == [f EXCEPT ![s] = Tail(@)]

\* The numbers of a request in a queue that changes.
LEMMA TimesMove ==
  ASSUME NEW q \in Seq(Request), NEW r
  PROVE  /\ Times(q, r) \in Nat /\ (Times(q, r) = 0 <=> r \notin Range(q))
         /\ \A h \in Request : Times(Append(q, h), r) = Times(q, r) + Same(h, r)
         /\ \A p \in Seq(Request) : Times(q \o p, r) = Times(q, r) + Times(p, r)
         /\ q # << >> => Times(Tail(q), r) = Times(q, r) - Same(Head(q), r)
<1>1. Times(q, r) \in Nat /\ (Times(q, r) = 0 <=> r \notin Range(q))
  BY CountIs DEF Times
<1>2. \A h : One(h, {r}) = Same(h, r)
  BY DEF One, Same
<1>3. ASSUME NEW h \in Request
      PROVE  Times(Append(q, h), r) = Times(q, r) + Same(h, r)
  <2>1. Count(Append(q, h), {r}) = Count(q, {r}) + One(h, {r})
    BY CountAppend
  <2> QED BY <1>2, <2>1 DEF Times
<1>4. ASSUME NEW p \in Seq(Request)
      PROVE  Times(q \o p, r) = Times(q, r) + Times(p, r)
  <2>1. Count(q \o p, {r}) = Count(q, {r}) + Count(p, {r})
    BY CountConcat
  <2> QED BY <2>1 DEF Times
<1>5. ASSUME q # << >>
      PROVE  Times(Tail(q), r) = Times(q, r) - Same(Head(q), r)
  <2>1. Count(Tail(q), {r}) = Count(q, {r}) - One(Head(q), {r})
    BY <1>5, CountTail
  <2> QED BY <1>2, <2>1 DEF Times
<1> QED BY <1>1, <1>3, <1>4, <1>5

\* A queue of a sub-partition as a queue.
LEMMA QueueOfSub ==
  ASSUME NEW f \in Queues, NEW s \in Sub
  PROVE  f[s] \in Seq(Request) /\ f[s] \in Seq(OfSub(s)) /\ DOMAIN f = Sub
BY DEF Queues

\* A request is counted in the queues of its sub-partition when it is in one.
LEMMA AtIs ==
  ASSUME NEW f \in Queues, NEW r \in Request
  PROVE  At(f, r) \in Nat /\ (At(f, r) = 0 <=> r \notin Range(f[r.sp]))
<1>1. f[r.sp] \in Seq(Request)
  BY OfSubRequest, QueueOfSub
<1> QED BY <1>1, TimesMove DEF At

\* A request joins a queue of sub-partition s.
LEMMA AtAppend ==
  ASSUME NEW f \in Queues, NEW s \in Sub, NEW h \in OfSub(s), NEW r \in Request
  PROVE  At(WithAppend(f, s, h), r) = At(f, r) + Same(h, r)
<1>1. /\ DOMAIN f = Sub /\ f[s] \in Seq(Request) /\ h \in Request /\ h.sp = s /\ r.sp \in Sub
      /\ At(f, r) \in Nat
  BY OfSubRequest, QueueOfSub, AtIs
<1>2. \A x \in Sub : WithAppend(f, s, h)[x] = IF x = s THEN Append(f[s], h) ELSE f[x]
  BY <1>1 DEF WithAppend
<1>3. CASE r.sp = s
  <2>1. Times(Append(f[s], h), r) = Times(f[s], r) + Same(h, r)
    BY <1>1, TimesMove
  <2> QED BY <1>2, <1>3, <2>1 DEF At
<1>4. CASE r.sp # s
  <2>1. Same(h, r) = 0
    BY <1>1, <1>4 DEF Same
  <2>2. At(WithAppend(f, s, h), r) = At(f, r)
    BY <1>1, <1>2, <1>4 DEF At
  <2> QED BY <1>1, <2>1, <2>2
<1> QED BY <1>3, <1>4

\* Requests join a queue of sub-partition s.
LEMMA AtConcat ==
  ASSUME NEW f \in Queues, NEW s \in Sub, NEW q \in Seq(OfSub(s)), NEW r \in Request
  PROVE  At(WithConcat(f, s, q), r) = At(f, r) + Times(q, r)
<1>1. /\ DOMAIN f = Sub /\ f[s] \in Seq(Request) /\ q \in Seq(Request) /\ r.sp \in Sub
      /\ At(f, r) \in Nat
  BY OfSubRequest, SeqMono, QueueOfSub, AtIs
<1>2. \A x \in Sub : WithConcat(f, s, q)[x] = IF x = s THEN f[s] \o q ELSE f[x]
  BY <1>1 DEF WithConcat
<1>3. CASE r.sp = s
  <2>1. Times(f[s] \o q, r) = Times(f[s], r) + Times(q, r)
    BY <1>1, TimesMove
  <2> QED BY <1>2, <1>3, <2>1 DEF At
<1>4. CASE r.sp # s
  <2>1. r \notin Range(q)
    <3>1. Range(q) \subseteq OfSub(s)
      BY RangeIs
    <3> QED BY <1>4, <3>1, OfSubRequest
  <2>2. Times(q, r) = 0
    BY <1>1, <2>1, TimesMove
  <2>3. At(WithConcat(f, s, q), r) = At(f, r)
    BY <1>1, <1>2, <1>4 DEF At
  <2> QED BY <1>1, <2>2, <2>3
<1> QED BY <1>3, <1>4

\* The first request leaves a queue of sub-partition s.
LEMMA AtTail ==
  ASSUME NEW f \in Queues, NEW s \in Sub, f[s] # << >>, NEW r \in Request
  PROVE  /\ At(WithTail(f, s), r) = At(f, r) - Same(Head(f[s]), r)
         /\ At(f, r) >= Same(Head(f[s]), r)
<1>1. /\ DOMAIN f = Sub /\ f[s] \in Seq(Request) /\ Head(f[s]) \in OfSub(s) /\ r.sp \in Sub
      /\ At(f, r) \in Nat /\ WithTail(f, s) \in Queues
  BY OfSubRequest, QueueOfSub, QueueTail, AtIs DEF WithTail
<1>2. \A x \in Sub : WithTail(f, s)[x] = IF x = s THEN Tail(f[s]) ELSE f[x]
  BY <1>1 DEF WithTail
<1>3. At(WithTail(f, s), r) = At(f, r) - Same(Head(f[s]), r)
  <2>1. CASE r.sp = s
    <3>1. Times(Tail(f[s]), r) = Times(f[s], r) - Same(Head(f[s]), r)
      BY <1>1, TimesMove
    <3> QED BY <1>2, <2>1, <3>1 DEF At
  <2>2. CASE r.sp # s
    <3>1. Same(Head(f[s]), r) = 0
      BY <1>1, <2>2, OfSubRequest DEF Same
    <3>2. At(WithTail(f, s), r) = At(f, r)
      BY <1>1, <1>2, <2>2 DEF At
    <3> QED BY <1>1, <3>1, <3>2
  <2> QED BY <2>1, <2>2
<1>4. At(WithTail(f, s), r) \in Nat /\ Same(Head(f[s]), r) \in Nat
  BY <1>1, AtIs DEF Same
<1> QED BY <1>1, <1>3, <1>4

-------------------------------------------------------------------------------
(* No request is dropped or duplicated. *)

\* How often a request is in its sub-partition, on the way to and from the DRAM, and on
\* the way back; what waits for a fetch, is fetched, or has not arrived yet.
Near(r) == At(rop, r) + At(icnt_L2, r) + At(L2_icnt, r) + At(ready, r)
Away(r) == At(miss_queue, r) + At(L2_dram, r) + At(dram_L2, r) + CountInDram({r})
Back(r) == At(dram_L2, r) + Times(returnq, r)
Waiting(r) == \E e \in mshr[r.sp] : r \in Range(e)
Fetching(r) == \E e \in mshr[r.sp] : Head(e) = r
Unsent(r) == \E i \in DOMAIN todo[r.sp] : r \in Range(todo[r.sp][i])
Answers(r) == Times(answered, r)
Traced(r) == r \in tracker[r.sp]

\* With the L2 cache a request that goes to the DRAM waits for itself in the cache;
\* without, it is there.
Placed(r) == Near(r) + IF cfg.l2 THEN (IF Waiting(r) THEN 1 ELSE 0) ELSE Away(r)

\* A request is in one place, which the tracker knows, or is answered, or has yet to
\* arrive; what the L2 sends to the DRAM is the request that it waits for.
Once(r) ==
  /\ Placed(r) + Answers(r) + (IF Unsent(r) THEN 1 ELSE 0) <= 1
  /\ Away(r) <= 1
  /\ Traced(r) <=> Placed(r) = 1
  /\ cfg.l2 /\ Away(r) >= 1 => Fetching(r)
  /\ Waiting(r) => cfg.l2 /\ ~IsWrite(r)

\* A write-back of the L2 is not tracked and does not come back.
Outside(r) ==
  Near(r) = 0 /\ Back(r) = 0 /\ Answers(r) = 0 /\ ~Waiting(r) /\ ~Unsent(r) /\ ~Traced(r)

Token(r) == IF r.kind = "l2_wrbk" THEN Outside(r) ELSE Once(r)

\* No two requests of a cache's entries, or of the packets that arrive, are the same.
EntriesOK ==
  \A s \in Sub : \A e, f \in mshr[s] : \A i \in 1 .. Len(e), j \in 1 .. Len(f) :
    e[i] = f[j] => e = f /\ i = j
Scattered(packets) ==
  \A i, k \in 1 .. Len(packets) : \A j \in 1 .. Len(packets[i]), l \in 1 .. Len(packets[k]) :
    packets[i][j] = packets[k][l] => i = k /\ j = l
ArrivalsOK == \A s \in Sub : Scattered(todo[s])
DirtyOK == \A s \in Sub : \A r \in dirty[s] : r.kind = "l2_wrbk"
PlainOK == cfg.l2 \/ \A s \in Sub : miss_queue[s] = << >>
AnsweredOK ==
  /\ answered \in Seq(Request)
  /\ IsFiniteSet(Range(answered)) /\ Cardinality(Range(answered)) = Len(answered)

Apartness == EntriesOK /\ ArrivalsOK /\ DirtyOK /\ PlainOK /\ AnsweredOK
TrackInv == Apartness /\ \A r \in Request : Token(r)

\* The numbers of a request.
LEMMA Numbers ==
  ASSUME Flow, TrackInv, NEW r \in Request
  PROVE  /\ At(rop, r) \in Nat /\ At(icnt_L2, r) \in Nat /\ At(L2_icnt, r) \in Nat
         /\ At(ready, r) \in Nat /\ At(miss_queue, r) \in Nat /\ At(L2_dram, r) \in Nat
         /\ At(dram_L2, r) \in Nat /\ Times(returnq, r) \in Nat /\ CountInDram({r}) \in Nat
         /\ Near(r) \in Nat /\ Away(r) \in Nat /\ Back(r) \in Nat /\ Answers(r) \in Nat
<1>1. /\ At(rop, r) \in Nat /\ At(icnt_L2, r) \in Nat /\ At(L2_icnt, r) \in Nat
      /\ At(ready, r) \in Nat /\ At(miss_queue, r) \in Nat /\ At(L2_dram, r) \in Nat
      /\ At(dram_L2, r) \in Nat
  BY AtIs DEF Flow, HomeOK
<1>2. Times(returnq, r) \in Nat /\ Times(answered, r) \in Nat
  BY TimesMove DEF Flow, DramOK, TrackInv, Apartness, AnsweredOK
<1>3. CountInDram({r}) \in Nat
  BY InDramType DEF Flow
<1>4. Near(r) \in Nat
  BY <1>1 DEF Near
<1>5. Away(r) \in Nat
  BY <1>1, <1>3 DEF Away
<1>6. Back(r) \in Nat
  BY <1>1, <1>2 DEF Back
<1> QED BY <1>1, <1>2, <1>3, <1>4, <1>5, <1>6 DEF Answers

\* The parts of the numbers, before and after a step.
LEMMA Parts ==
  \A r : /\ Near(r) = At(rop, r) + At(icnt_L2, r) + At(L2_icnt, r) + At(ready, r)
         /\ Near(r)' = At(rop', r) + At(icnt_L2', r) + At(L2_icnt', r) + At(ready', r)
         /\ Away(r) = At(miss_queue, r) + At(L2_dram, r) + At(dram_L2, r) + CountInDram({r})
         /\ Away(r)' = At(miss_queue', r) + At(L2_dram', r) + At(dram_L2', r) + CountInDram({r})'
         /\ Back(r) = At(dram_L2, r) + Times(returnq, r)
         /\ Back(r)' = At(dram_L2', r) + Times(returnq', r)
         /\ Answers(r) = Times(answered, r) /\ Answers(r)' = Times(answered', r)
BY DEF Near, Away, Back, Answers

\* Whether one request is another one: 1 or 0.
LEMMA SameIs ==
  \A h, r : /\ Same(h, r) \in {0, 1} /\ (Same(h, r) = 1 <=> h = r)
            /\ One(h, {r}) = Same(h, r)
BY DEF Same, One

\* A step that changes no number of a request and nothing that is said of it.
LEMMA TokenSame ==
  ASSUME NEW r, Token(r), cfg' = cfg, Near(r)' = Near(r), Away(r)' = Away(r),
         r.kind = "l2_wrbk" => Back(r)' = Back(r), Answers(r)' = Answers(r),
         Waiting(r)' <=> Waiting(r), Fetching(r) => Fetching(r)', Unsent(r)' <=> Unsent(r),
         Traced(r)' <=> Traced(r)
  PROVE  Token(r)'
<1>1. Placed(r)' = Placed(r)
  BY DEF Placed
<1>2. (IF Unsent(r)' THEN 1 ELSE 0) = (IF Unsent(r) THEN 1 ELSE 0)
  OBVIOUS
<1>3. Once(r) => Once(r)'
  BY <1>1, <1>2 DEF Once
<1>4. r.kind = "l2_wrbk" /\ Outside(r) => Outside(r)'
  BY DEF Outside
<1> QED BY <1>3, <1>4 DEF Token

\* A request moves to another queue at the same side.
LEMMA TokenKept ==
  ASSUME NEW r \in Request, Token(r), Near(r)' = Near(r), Away(r)' = Away(r),
         r.kind = "l2_wrbk" => Back(r)' = Back(r),
         UNCHANGED <<cfg, mshr, todo, tracker, answered>>
  PROVE  Token(r)'
<1>1. (Waiting(r)' <=> Waiting(r)) /\ (Fetching(r) => Fetching(r)')
  BY DEF Waiting, Fetching
<1>2. (Unsent(r)' <=> Unsent(r)) /\ (Traced(r)' <=> Traced(r)) /\ Answers(r)' = Answers(r)
  BY DEF Unsent, Traced, Answers
<1> QED BY <1>1, <1>2, TokenSame

\* The sets and sequences of requests do not change.
LEMMA ApartnessKept ==
  ASSUME Apartness, UNCHANGED <<cfg, mshr, todo, dirty, answered>>, PlainOK'
  PROVE  Apartness'
BY DEF Apartness, EntriesOK, ArrivalsOK, DirtyOK, AnsweredOK

\* What is fetched waits.
LEMMA FetchingWaits ==
  ASSUME Flow, NEW r \in Request, Fetching(r)
  PROVE  Waiting(r)
<1>1. PICK e \in mshr[r.sp] : Head(e) = r
  BY DEF Fetching
<1>2. e \in Seq(Request) /\ e # << >>
  BY OfSubRequest DEF Flow, HomeOK, Entries
<1>3. Head(e) = e[1] /\ 1 \in 1 .. Len(e)
  BY <1>2
<1>4. r \in Range(e)
  BY <1>1, <1>2, <1>3, RangeIs
<1> QED BY <1>4 DEF Waiting

\* All requests stay at their side.
LEMMA SideKept ==
  ASSUME TrackInv, PlainOK', UNCHANGED <<cfg, mshr, todo, dirty, tracker, answered>>,
         \A r \in Request : /\ Near(r)' = Near(r) /\ Away(r)' = Away(r)
                            /\ r.kind = "l2_wrbk" => Back(r)' = Back(r)
  PROVE  TrackInv'
<1>1. Apartness'
  BY ApartnessKept DEF TrackInv
<1>2. \A r \in Request : Token(r)'
  BY TokenKept DEF TrackInv
<1> QED BY <1>1, <1>2 DEF TrackInv

\* A request leaves m_rop.
LEMMA RopToL2Track ==
  ASSUME Flow, TrackInv, NEW s \in Sub, RopToL2(s)
  PROVE  TrackInv'
<1> DEFINE h == Head(rop[s])
<1>1. /\ rop[s] # << >> /\ rop' = WithTail(rop, s) /\ icnt_L2' = WithAppend(icnt_L2, s, h)
      /\ UNCHANGED <<cfg, todo, L2_icnt, tracker, dirty, miss_queue, mshr, ready, answered>>
      /\ UNCHANGED <<L2_dram, dram_L2, latency, queue, mrq, rwq, returnq>>
  BY DEF RopToL2, WithTail, WithAppend, l2vars, sched, banks
<1>2. h \in OfSub(s) /\ rop \in Queues /\ icnt_L2 \in Queues
  BY <1>1, QueueTail DEF Flow, HomeOK
<1> HIDE DEF h
<1>3. ASSUME NEW r \in Request
      PROVE  Near(r)' = Near(r) /\ Away(r)' = Away(r) /\ Back(r)' = Back(r)
  <2>1. At(rop', r) = At(rop, r) - Same(h, r)
    BY <1>1, <1>2, AtTail DEF h
  <2>2. At(icnt_L2', r) = At(icnt_L2, r) + Same(h, r)
    BY <1>1, <1>2, AtAppend
  <2>3. Near(r)' = Near(r)
    <3>1. /\ At(rop, r) \in Nat /\ At(icnt_L2, r) \in Nat /\ At(L2_icnt, r) \in Nat
          /\ At(ready, r) \in Nat
      BY Numbers
    <3> QED BY ONLY <1>1, <2>1, <2>2, <3>1, Parts, SameIs
  <2> QED BY <1>1, <2>3 DEF Away, Back, CountInDram
<1>4. PlainOK'
  BY <1>1 DEF TrackInv, Apartness, PlainOK
<1> QED BY <1>1, <1>3, <1>4, SideKept

\* A request of the L2 leaves for the interconnect.
LEMMA ReadyToIcntTrack ==
  ASSUME Flow, TrackInv, NEW s \in Sub, ReadyToIcnt(s)
  PROVE  TrackInv'
<1> DEFINE h == Head(ready[s])
<1>1. /\ ready[s] # << >> /\ ready' = WithTail(ready, s) /\ L2_icnt' = WithAppend(L2_icnt, s, h)
      /\ UNCHANGED <<cfg, todo, rop, icnt_L2, tracker, dirty, miss_queue, mshr, answered>>
      /\ UNCHANGED <<L2_dram, dram_L2, latency, queue, mrq, rwq, returnq>>
  BY DEF ReadyToIcnt, WithTail, WithAppend, sched, banks
<1>2. h \in OfSub(s) /\ ready \in Queues /\ L2_icnt \in Queues
  BY <1>1, QueueTail DEF Flow, HomeOK
<1> HIDE DEF h
<1>3. ASSUME NEW r \in Request
      PROVE  Near(r)' = Near(r) /\ Away(r)' = Away(r) /\ Back(r)' = Back(r)
  <2>1. At(ready', r) = At(ready, r) - Same(h, r)
    BY <1>1, <1>2, AtTail DEF h
  <2>2. At(L2_icnt', r) = At(L2_icnt, r) + Same(h, r)
    BY <1>1, <1>2, AtAppend
  <2>3. Near(r)' = Near(r)
    <3>1. /\ At(rop, r) \in Nat /\ At(icnt_L2, r) \in Nat /\ At(L2_icnt, r) \in Nat
          /\ At(ready, r) \in Nat
      BY Numbers
    <3> QED BY ONLY <1>1, <2>1, <2>2, <3>1, Parts, SameIs
  <2> QED BY <1>1, <2>3 DEF Away, Back, CountInDram
<1>4. PlainOK'
  BY <1>1 DEF TrackInv, Apartness, PlainOK
<1> QED BY <1>1, <1>3, <1>4, SideKept

\* A miss or a write-back leaves the L2.
LEMMA L2CycleTrack ==
  ASSUME Flow, TrackInv, NEW s \in Sub, L2Cycle(s)
  PROVE  TrackInv'
<1> DEFINE h == Head(miss_queue[s])
<1>1. /\ miss_queue[s] # << >> /\ miss_queue' = WithTail(miss_queue, s)
      /\ L2_dram' = WithAppend(L2_dram, s, h)
      /\ UNCHANGED <<cfg, todo, rop, icnt_L2, L2_icnt, tracker, dirty, mshr, ready, answered>>
      /\ UNCHANGED <<dram_L2, latency, queue, mrq, rwq, returnq>>
  BY DEF L2Cycle, WithTail, WithAppend, sched, banks
<1>2. h \in OfSub(s) /\ miss_queue \in Queues /\ L2_dram \in Queues
  BY <1>1, QueueTail DEF Flow, HomeOK
<1> HIDE DEF h
<1>3. ASSUME NEW r \in Request
      PROVE  Near(r)' = Near(r) /\ Away(r)' = Away(r) /\ Back(r)' = Back(r)
  <2>1. At(miss_queue', r) = At(miss_queue, r) - Same(h, r)
    BY <1>1, <1>2, AtTail DEF h
  <2>2. At(L2_dram', r) = At(L2_dram, r) + Same(h, r)
    BY <1>1, <1>2, AtAppend
  <2>3. CountInDram({r})' = CountInDram({r})
    BY <1>1 DEF CountInDram
  <2>4. Away(r)' = Away(r)
    <3>1. /\ At(miss_queue, r) \in Nat /\ At(L2_dram, r) \in Nat /\ At(dram_L2, r) \in Nat
          /\ CountInDram({r}) \in Nat
      BY Numbers
    <3> QED BY ONLY <1>1, <2>1, <2>2, <2>3, <3>1, Parts, SameIs
  <2> QED BY <1>1, <2>4 DEF Near, Back
<1>4. PlainOK'
  BY <1>1 DEF TrackInv, Apartness, PlainOK
<1> QED BY <1>1, <1>3, <1>4, SideKept

\* A request enters the DRAM.
LEMMA IssueTrack ==
  ASSUME Flow, TrackInv, NEW s \in Sub, IssueToDram(s)
  PROVE  TrackInv'
<1> DEFINE h == Head(L2_dram[s])
<1>1. /\ L2_dram[s] # << >> /\ L2_dram' = WithTail(L2_dram, s)
      /\ UNCHANGED <<cfg, todo, rop, icnt_L2, L2_icnt, tracker, dirty, miss_queue, mshr, ready>>
      /\ UNCHANGED <<answered, dram_L2, returnq>>
  BY DEF IssueToDram, CanIssueToDram, WithTail, subvars, l2vars
<1>2. L2_dram \in Queues
  BY DEF Flow, HomeOK
<1>3. \A S : CountInDram(S)' = CountInDram(S) + One(h, S)
  BY IssueInDram
<1> HIDE DEF h
<1>4. ASSUME NEW r \in Request
      PROVE  Near(r)' = Near(r) /\ Away(r)' = Away(r) /\ Back(r)' = Back(r)
  <2>1. At(L2_dram', r) = At(L2_dram, r) - Same(h, r)
    BY <1>1, <1>2, AtTail DEF h
  <2>2. CountInDram({r})' = CountInDram({r}) + Same(h, r)
    BY <1>3, SameIs
  <2>3. Away(r)' = Away(r)
    <3>1. /\ At(miss_queue, r) \in Nat /\ At(L2_dram, r) \in Nat /\ At(dram_L2, r) \in Nat
          /\ CountInDram({r}) \in Nat
      BY Numbers
    <3> QED BY ONLY <1>1, <2>1, <2>2, <3>1, Parts, SameIs
  <2> QED BY <1>1, <2>3 DEF Near, Back
<1>5. PlainOK'
  BY <1>1 DEF TrackInv, Apartness, PlainOK
<1> QED BY <1>1, <1>4, <1>5, SideKept

\* The DRAM handles its requests.
LEMMA InDramTrack ==
  ASSUME TrackInv, UNCHANGED <<cfg, subvars, L2_dram, dram_L2, returnq>>,
         \A S : CountInDram(S)' = CountInDram(S)
  PROVE  TrackInv'
<1>1. UNCHANGED <<todo, rop, icnt_L2, L2_icnt, tracker, dirty, miss_queue, mshr, ready, answered>>
  BY DEF subvars, l2vars
<1>2. ASSUME NEW r \in Request
      PROVE  Near(r)' = Near(r) /\ Away(r)' = Away(r) /\ Back(r)' = Back(r)
  <2>1. CountInDram({r})' = CountInDram({r})
    OBVIOUS
  <2> QED BY <1>1, <2>1 DEF Near, Away, Back
<1>3. PlainOK'
  BY <1>1 DEF TrackInv, Apartness, PlainOK
<1> QED BY <1>1, <1>2, <1>3, SideKept

\* A request leaves the return queue of the DRAM.
LEMMA DramReturnTrack ==
  ASSUME Flow, TrackInv, DramReturn
  PROVE  TrackInv'
<1> DEFINE h == Head(returnq)
<1>1. /\ returnq # << >> /\ returnq' = Tail(returnq) /\ dram_L2' = WithAppend(dram_L2, h.sp, h)
      /\ UNCHANGED <<cfg, todo, rop, icnt_L2, L2_icnt, tracker, dirty, miss_queue, mshr, ready>>
      /\ UNCHANGED <<answered, L2_dram>>
  BY DEF DramReturn, BackToSub, WithAppend, subvars, l2vars
<1>2. /\ dram_L2 \in Queues /\ returnq \in Seq(Request) /\ h \in Request
      /\ h.sp \in Sub /\ h \in OfSub(h.sp)
  <2>1. returnq \in Seq(Request)
    BY DEF Flow, DramOK
  <2>2. h \in Request
    BY <1>1, <2>1, HeadTail
  <2> QED BY <2>1, <2>2, OfSubRequest DEF Flow, HomeOK
<1>3. \A S : CountInDram(S)' = CountInDram(S) - One(h, S)
  BY DramReturnInDram
<1> HIDE DEF h
<1>4. ASSUME NEW r \in Request
      PROVE  Near(r)' = Near(r) /\ Away(r)' = Away(r) /\ Back(r)' = Back(r)
  <2>1. At(dram_L2', r) = At(dram_L2, r) + Same(h, r)
    BY <1>1, <1>2, AtAppend
  <2>2. CountInDram({r})' = CountInDram({r}) - Same(h, r)
    BY <1>3, SameIs
  <2>3. Times(returnq', r) = Times(returnq, r) - Same(h, r)
    BY <1>1, <1>2, TimesMove DEF h
  <2>4. /\ At(miss_queue, r) \in Nat /\ At(L2_dram, r) \in Nat /\ At(dram_L2, r) \in Nat
        /\ CountInDram({r}) \in Nat /\ Times(returnq, r) \in Nat
    BY Numbers
  <2>5. Away(r)' = Away(r)
    BY ONLY <1>1, <2>1, <2>2, <2>4, Parts, SameIs
  <2>6. Back(r)' = Back(r)
    BY ONLY <2>1, <2>3, <2>4, Parts, SameIs
  <2> QED BY <1>1, <2>5, <2>6 DEF Near
<1>5. PlainOK'
  BY <1>1 DEF TrackInv, Apartness, PlainOK
<1> QED BY <1>1, <1>4, <1>5, SideKept

\* A request that is no write-back goes back from the simple DRAM model.
LEMMA SimpleBackTrack ==
  ASSUME Flow, TrackInv, SimpleReturn, BackToSub(Head(latency)), UNCHANGED tracker,
         ~IsWriteBack(Head(latency))
  PROVE  TrackInv'
<1> DEFINE h == Head(latency)
<1>1. /\ latency # << >> /\ dram_L2' = WithAppend(dram_L2, h.sp, h)
      /\ UNCHANGED <<cfg, todo, rop, icnt_L2, L2_icnt, tracker, dirty, miss_queue, mshr, ready>>
      /\ UNCHANGED <<answered, L2_dram, returnq>>
  BY DEF SimpleReturn, BackToSub, WithAppend, l2vars
<1>2. /\ dram_L2 \in Queues /\ h \in Request /\ h.sp \in Sub /\ h \in OfSub(h.sp)
      /\ h.kind # "l2_wrbk"
  <2>1. latency \in Seq(Request)
    BY DEF Flow, DramOK
  <2>2. h \in Request
    BY <1>1, <2>1, HeadTail
  <2> QED BY <2>1, <2>2, OfSubRequest DEF Flow, HomeOK, IsWriteBack
<1>3. \A S : CountInDram(S)' = CountInDram(S) - One(h, S)
  BY SimpleReturnInDram
<1> HIDE DEF h
<1>4. ASSUME NEW r \in Request
      PROVE  /\ Near(r)' = Near(r) /\ Away(r)' = Away(r)
             /\ r.kind = "l2_wrbk" => Back(r)' = Back(r)
  <2>1. At(dram_L2', r) = At(dram_L2, r) + Same(h, r)
    BY <1>1, <1>2, AtAppend
  <2>2. CountInDram({r})' = CountInDram({r}) - Same(h, r)
    BY <1>3, SameIs
  <2>3. /\ At(miss_queue, r) \in Nat /\ At(L2_dram, r) \in Nat /\ At(dram_L2, r) \in Nat
        /\ CountInDram({r}) \in Nat /\ Times(returnq, r) \in Nat
    BY Numbers
  <2>4. Away(r)' = Away(r)
    BY ONLY <1>1, <2>1, <2>2, <2>3, Parts, SameIs
  <2>5. ASSUME r.kind = "l2_wrbk"
        PROVE  Back(r)' = Back(r)
    <3>1. Same(h, r) = 0
      BY <1>2, <2>5, SameIs
    <3> QED BY ONLY <1>1, <2>1, <2>3, <3>1, Parts
  <2> QED BY <1>1, <2>4, <2>5 DEF Near
<1>5. PlainOK'
  BY <1>1 DEF TrackInv, Apartness, PlainOK
<1> QED BY <1>1, <1>4, <1>5, SideKept

\* A request that is no write-back moves to the return queue of the DRAM.
LEMMA DataBackTrack ==
  ASSUME Flow, TrackInv, DataDone, returnq' = Append(returnq, Head(rwq)), UNCHANGED tracker,
         ~IsWriteBack(Head(rwq))
  PROVE  TrackInv'
<1> DEFINE h == Head(rwq)
<1>1. /\ rwq # << >>
      /\ UNCHANGED <<cfg, todo, rop, icnt_L2, L2_icnt, tracker, dirty, miss_queue, mshr, ready>>
      /\ UNCHANGED <<answered, L2_dram, dram_L2>>
  BY DEF DataDone, l2vars
<1>2. h \in Request /\ h.kind # "l2_wrbk" /\ returnq \in Seq(Request)
  <2>1. rwq \in Seq(Request) /\ returnq \in Seq(Request)
    BY DEF Flow, DramOK
  <2>2. h \in Request
    BY <1>1, <2>1, HeadTail
  <2> QED BY <2>1, <2>2 DEF IsWriteBack
<1>3. returnq' = Append(returnq, h) /\ \A S : CountInDram(S)' = CountInDram(S)
  BY DataDoneInDram
<1> HIDE DEF h
<1>4. ASSUME NEW r \in Request
      PROVE  /\ Near(r)' = Near(r) /\ Away(r)' = Away(r)
             /\ r.kind = "l2_wrbk" => Back(r)' = Back(r)
  <2>1. CountInDram({r})' = CountInDram({r})
    BY <1>3
  <2>2. ASSUME r.kind = "l2_wrbk"
        PROVE  Back(r)' = Back(r)
    <3>1. Same(h, r) = 0
      BY <1>2, <2>2, SameIs
    <3>2. Times(returnq', r) = Times(returnq, r) + Same(h, r) /\ Times(returnq, r) \in Nat
      BY <1>2, <1>3, TimesMove
    <3>3. At(dram_L2, r) \in Nat
      BY Numbers
    <3> QED BY ONLY <1>1, <3>1, <3>2, <3>3, Parts
  <2> QED BY <1>1, <2>1, <2>2 DEF Near, Away
<1>5. PlainOK'
  BY <1>1 DEF TrackInv, Apartness, PlainOK
<1> QED BY <1>1, <1>4, <1>5, SideKept

\* A write-back is over.
LEMMA SetDoneTrack ==
  ASSUME Flow, TrackInv, NEW h \in Request, IsWriteBack(h), SetDone(h),
         UNCHANGED <<cfg, todo, rop, icnt_L2, L2_icnt, l2vars, answered, L2_dram, dram_L2, returnq>>,
         \A S : CountInDram(S)' \in Nat /\ CountInDram(S)' = CountInDram(S) - One(h, S)
  PROVE  TrackInv'
<1>1. /\ UNCHANGED <<cfg, todo, rop, icnt_L2, L2_icnt, dirty, miss_queue, mshr, ready>>
      /\ UNCHANGED <<answered, L2_dram, dram_L2, returnq>>
      /\ tracker' = [tracker EXCEPT ![h.sp] = @ \ {h}]
  BY DEF SetDone, l2vars
<1>2. tracker \in Sets /\ h.sp \in Sub /\ DOMAIN tracker = Sub
  BY OfSubRequest DEF Flow, HomeOK, Sets
<1>3. ASSUME NEW r \in Request
      PROVE  Token(r)'
  <2>1. CountInDram({r})' = CountInDram({r}) - Same(h, r) /\ CountInDram({r})' \in Nat
    BY SameIs
  <2>2. Near(r)' = Near(r) /\ Back(r)' = Back(r)
    BY <1>1 DEF Near, Back
  <2>3. /\ At(miss_queue, r) \in Nat /\ At(L2_dram, r) \in Nat /\ At(dram_L2, r) \in Nat
        /\ CountInDram({r}) \in Nat
    BY Numbers
  <2>4. Away(r)' = Away(r) - Same(h, r)
    BY ONLY <1>1, <2>1, <2>3, Parts, SameIs
  <2>5. Away(r) >= Same(h, r)
    BY ONLY <2>1, <2>3, Parts, SameIs
  <2>6. Near(r) \in Nat /\ Away(r) \in Nat /\ Answers(r) \in Nat
    BY Numbers
  <2>7. Waiting(r)' = Waiting(r) /\ Fetching(r)' = Fetching(r)
    BY <1>1 DEF Waiting, Fetching
  <2>8. Unsent(r)' = Unsent(r) /\ Answers(r)' = Answers(r) /\ cfg' = cfg
    BY <1>1 DEF Unsent, Answers
  <2>9. Traced(r)' <=> Traced(r) /\ r # h
    BY <1>1, <1>2, OfSubRequest DEF Traced
  <2>10. Token(r)
    BY DEF TrackInv
  <2>11. CASE r.kind = "l2_wrbk"
    <3>1. Outside(r)
      BY <2>10, <2>11 DEF Token
    <3>2. Outside(r)'
      BY <2>2, <2>7, <2>8, <2>9, <3>1 DEF Outside
    <3> QED BY <2>11, <3>2 DEF Token
  <2>12. CASE r.kind # "l2_wrbk" /\ r # h
    <3>1. Same(h, r) = 0
      BY <2>12, SameIs
    <3>2. Away(r)' = Away(r)
      BY <2>4, <2>6, <3>1
    <3>3. Traced(r)' <=> Traced(r)
      BY <2>9, <2>12
    <3> QED BY <2>2, <2>7, <2>8, <2>10, <3>2, <3>3, TokenSame
  <2>13. CASE r.kind # "l2_wrbk" /\ r = h
    <3>1. Once(r)
      BY <2>10, <2>13 DEF Token
    <3>2. Same(h, r) = 1 /\ Away(r) >= 1
      BY <2>5, <2>13, SameIs
    <3>3. Away(r) = 1 /\ Away(r)' = 0
      BY <2>4, <2>6, <3>1, <3>2 DEF Once
    <3>4. ~cfg.l2 /\ ~Waiting(r)
      <4>1. IsWrite(r)
        BY <2>13 DEF IsWrite, IsWriteBack
      <4>2. ~Waiting(r)
        BY <3>1, <4>1 DEF Once
      <4>3. ~Fetching(r)
        BY <4>2, FetchingWaits
      <4> QED BY <3>1, <3>2, <4>2, <4>3 DEF Once
    <3>5. Placed(r) = Near(r) + 1 /\ Placed(r)' = Near(r)
      <4>1. Placed(r) = Near(r) + Away(r) /\ Placed(r)' = Near(r)' + Away(r)'
        BY <2>8, <3>4 DEF Placed
      <4> QED BY <2>2, <2>6, <3>3, <4>1
    <3>6. Placed(r)' = 0 /\ Answers(r) = 0 /\ ~Unsent(r)
      BY <2>6, <3>1, <3>5 DEF Once
    <3>7. ~Traced(r)'
      BY <2>9, <2>13
    <3> QED BY <2>7, <2>8, <2>13, <3>3, <3>4, <3>6, <3>7 DEF Token, Once
  <2> QED BY <2>11, <2>12, <2>13
<1>4. PlainOK'
  BY <1>1 DEF TrackInv, Apartness, PlainOK
<1>5. Apartness'
  BY <1>1, <1>4, ApartnessKept DEF TrackInv
<1> QED BY <1>3, <1>5 DEF TrackInv

\* Without L2 a request goes to the DRAM.
LEMMA BypassTrack ==
  ASSUME Flow, TrackInv, NEW s \in Sub, BypassL2(s)
  PROVE  TrackInv'
<1> DEFINE h == Head(icnt_L2[s])
<1>1. /\ icnt_L2[s] # << >> /\ icnt_L2' = WithTail(icnt_L2, s)
      /\ L2_dram' = WithAppend(L2_dram, s, h)
      /\ UNCHANGED <<cfg, todo, rop, L2_icnt, tracker, dirty, miss_queue, mshr, ready, answered>>
      /\ UNCHANGED <<dram_L2, latency, queue, mrq, rwq, returnq>> /\ ~cfg.l2
  BY DEF BypassL2, CanAccess, WithTail, WithAppend, l2vars, sched, banks
<1>2. h \in OfSub(s) /\ icnt_L2 \in Queues /\ L2_dram \in Queues
  BY <1>1, QueueTail DEF Flow, HomeOK
<1> HIDE DEF h
<1>3. ASSUME NEW r \in Request
      PROVE  Token(r)'
  <2>1. At(icnt_L2', r) = At(icnt_L2, r) - Same(h, r) /\ At(icnt_L2, r) >= Same(h, r)
    BY <1>1, <1>2, AtTail DEF h
  <2>2. At(L2_dram', r) = At(L2_dram, r) + Same(h, r)
    BY <1>1, <1>2, AtAppend
  <2>3. CountInDram({r})' = CountInDram({r})
    BY <1>1 DEF CountInDram
  <2>4. /\ At(rop, r) \in Nat /\ At(icnt_L2, r) \in Nat /\ At(L2_icnt, r) \in Nat
        /\ At(ready, r) \in Nat
    BY Numbers
  <2>5. /\ At(miss_queue, r) \in Nat /\ At(L2_dram, r) \in Nat /\ At(dram_L2, r) \in Nat
        /\ CountInDram({r}) \in Nat
    BY Numbers
  <2>6. Near(r)' = Near(r) - Same(h, r) /\ Near(r) >= Same(h, r)
    BY ONLY <1>1, <2>1, <2>4, Parts, SameIs
  <2>7. Away(r)' = Away(r) + Same(h, r)
    <3>1. At(miss_queue', r) = At(miss_queue, r) /\ At(dram_L2', r) = At(dram_L2, r)
      BY <1>1
    <3> QED BY ONLY <2>2, <2>3, <2>5, <3>1, Parts, SameIs
  <2>8. Back(r)' = Back(r)
    BY <1>1 DEF Back
  <2>9. Near(r) \in Nat /\ Away(r) \in Nat /\ Answers(r) \in Nat
    BY Numbers
  <2>10. Token(r)
    BY DEF TrackInv
  <2>11. CASE r = h
    <3>1. Same(h, r) = 1
      BY <2>11, SameIs
    <3>2. Near(r) >= 1 /\ Near(r)' = Near(r) - 1 /\ Away(r)' = Away(r) + 1
      BY <2>6, <2>7, <3>1
    <3>3. r.kind # "l2_wrbk" /\ Once(r)
      BY <2>10, <3>2 DEF Token, Outside
    <3>4. /\ Answers(r)' = Answers(r) /\ (Unsent(r)' <=> Unsent(r)) /\ (Waiting(r)' <=> Waiting(r))
          /\ (Traced(r)' <=> Traced(r)) /\ cfg' = cfg
      BY <1>1 DEF Answers, Unsent, Waiting, Traced
    <3>5. Placed(r) = Near(r) + Away(r) /\ Placed(r)' = Near(r)' + Away(r)'
      BY <1>1 DEF Placed
    <3>6. Placed(r)' = Placed(r) /\ Placed(r) <= 1
      <4>1. Placed(r) + Answers(r) + (IF Unsent(r) THEN 1 ELSE 0) <= 1
        BY <3>3 DEF Once
      <4> QED BY <2>9, <3>2, <3>5, <4>1
    <3>7. Away(r)' <= 1
      BY <2>9, <3>2, <3>5, <3>6
    <3> QED BY <1>1, <3>3, <3>4, <3>6, <3>7 DEF Token, Once
  <2>12. CASE r # h
    <3>1. Same(h, r) = 0
      BY <2>12, SameIs
    <3>2. Near(r)' = Near(r) /\ Away(r)' = Away(r)
      BY <2>6, <2>7, <2>9, <3>1
    <3> QED BY <1>1, <2>8, <2>10, <3>2, TokenKept
  <2> QED BY <2>11, <2>12
<1>4. PlainOK'
  BY <1>1 DEF TrackInv, Apartness, PlainOK
<1>5. Apartness'
  BY <1>1, <1>4, ApartnessKept DEF TrackInv
<1> QED BY <1>3, <1>5 DEF TrackInv

\* A request leaves m_icnt_L2_queue, and the sub-partition itself.
LEMMA ProbeNear ==
  ASSUME Flow, TrackInv, NEW s \in Sub, icnt_L2[s] # << >>, icnt_L2' = WithTail(icnt_L2, s),
         UNCHANGED <<rop, L2_icnt, ready>>, NEW r \in Request
  PROVE  /\ Near(r)' = Near(r) - Same(Head(icnt_L2[s]), r)
         /\ Near(r) >= Same(Head(icnt_L2[s]), r)
<1> DEFINE x == Same(Head(icnt_L2[s]), r)
<1>1. At(icnt_L2', r) = At(icnt_L2, r) - x /\ At(icnt_L2, r) >= x /\ x \in Nat
  BY AtTail, SameIs DEF Flow, HomeOK
<1>2. /\ At(rop, r) \in Nat /\ At(icnt_L2, r) \in Nat /\ At(L2_icnt, r) \in Nat
      /\ At(ready, r) \in Nat
  BY Numbers
<1> HIDE DEF x
<1>3. Near(r)' = At(rop, r) + At(icnt_L2', r) + At(L2_icnt, r) + At(ready, r)
  BY DEF Near
<1>4. Near(r)' = Near(r) - x /\ Near(r) >= x
  BY ONLY <1>1, <1>2, <1>3, Parts
<1> QED BY <1>4 DEF x

\* The requests that the L2 sends on behind the ones it already has: a request and a victim.
LEMMA VictimTimes ==
  ASSUME Flow, TrackInv, NEW s \in Sub, NEW v \in {<< >>} \cup {<<d>> : d \in dirty[s]}
  PROVE  v \in Seq(OfSub(s)) /\ \A r \in Request : r.kind # "l2_wrbk" => Times(v, r) = 0
<1>1. v \in Seq(OfSub(s))
  BY VictimType DEF Flow, HomeOK
<1>2. v \in Seq(Request)
  BY <1>1, OfSubRequest, SeqMono
<1>3. \A r \in Range(v) : r.kind = "l2_wrbk"
  <2>1. \A d \in dirty[s] : d.kind = "l2_wrbk"
    BY DEF TrackInv, Apartness, DirtyOK
  <2> QED BY <1>2, <2>1, RangeIs
<1> QED BY <1>1, <1>2, <1>3, TimesMove

\* The request at the head of m_icnt_L2_queue is nowhere else.
LEMMA HeadPlaced ==
  ASSUME Flow, TrackInv, NEW h \in Request, Near(h) >= 1
  PROVE  /\ h.kind # "l2_wrbk" /\ Once(h) /\ Traced(h) /\ Answers(h) = 0 /\ ~Unsent(h)
         /\ Near(h) = 1 /\ Placed(h) = 1 /\ ~Waiting(h) /\ ~Fetching(h) /\ Away(h) = 0
<1>1. Near(h) \in Nat /\ Away(h) \in Nat /\ Answers(h) \in Nat
  BY Numbers
<1>2. h.kind # "l2_wrbk" /\ Once(h)
  BY <1>1 DEF TrackInv, Token, Outside
<1>3. Placed(h) + Answers(h) + (IF Unsent(h) THEN 1 ELSE 0) <= 1
  BY <1>2 DEF Once
<1>4. Placed(h) >= Near(h) /\ Placed(h) \in Nat
  BY <1>1 DEF Placed
<1>5. Placed(h) = 1 /\ Near(h) = 1 /\ Answers(h) = 0 /\ ~Unsent(h)
  BY <1>1, <1>3, <1>4
<1>6. Traced(h)
  BY <1>2, <1>5 DEF Once
<1>7. ~Waiting(h)
  <2>1. Waiting(h) => cfg.l2
    BY <1>2 DEF Once
  <2> QED BY <1>5, <2>1 DEF Placed
<1>8. ~Fetching(h)
  BY <1>7, FetchingWaits
<1>9. Away(h) = 0
  <2>1. CASE cfg.l2
    BY <1>1, <1>2, <1>8, <2>1 DEF Once
  <2>2. CASE ~cfg.l2
    <3>1. Placed(h) = Near(h) + Away(h)
      BY <2>2 DEF Placed
    <3> QED BY <1>1, <1>5, <3>1
  <2> QED BY <2>1, <2>2
<1> QED BY <1>2, <1>5, <1>6, <1>7, <1>8, <1>9

\* The packets that arrive do not change.
LEMMA ArrivalsKept ==
  ASSUME ArrivalsOK, todo' = todo
  PROVE  ArrivalsOK'
BY DEF ArrivalsOK

\* The L2 answers a request, or is written by a write-back of the L1.
LEMMA L2AnswersTrack ==
  ASSUME Flow, TrackInv, NEW s \in Sub, NEW v \in {<< >>} \cup {<<d>> : d \in dirty[s]},
         L2Answers(s, v)
  PROVE  TrackInv'
<1> DEFINE h == Head(icnt_L2[s])
<1>1. /\ icnt_L2[s] # << >> /\ icnt_L2' = WithTail(icnt_L2, s)
      /\ miss_queue' = WithConcat(miss_queue, s, v) /\ dirty' = [dirty EXCEPT ![s] = @ \ Range(v)]
      /\ UNCHANGED <<cfg, todo, rop, mshr, ready, answered>>
      /\ UNCHANGED <<L2_dram, dram_L2, latency, queue, mrq, rwq, returnq>> /\ cfg.l2
  BY DEF L2Answers, CanProbe, CanAccess, WithTail, WithConcat, sched, banks
<1>2. /\ h \in OfSub(s) /\ h \in Request /\ h.sp = s /\ icnt_L2 \in Queues /\ L2_icnt \in Queues
      /\ miss_queue \in Queues /\ tracker \in Sets /\ DOMAIN tracker = Sub
  BY <1>1, QueueTail, OfSubRequest DEF Flow, HomeOK, Sets
<1>3. \/ /\ h.kind = "l1_wrbk" /\ tracker' = [tracker EXCEPT ![s] = @ \ {h}] /\ L2_icnt' = L2_icnt
      \/ /\ h.kind # "l1_wrbk" /\ L2_icnt' = WithAppend(L2_icnt, s, h) /\ tracker' = tracker
  BY DEF L2Answers, WithAppend
<1> HIDE DEF h
<1>4. ASSUME NEW r \in Request
      PROVE  Token(r)'
  <2>1. At(miss_queue', r) = At(miss_queue, r) + Times(v, r)
    BY <1>1, <1>2, VictimTimes, AtConcat
  <2>2. CountInDram({r})' = CountInDram({r})
    BY <1>1 DEF CountInDram
  <2>3. /\ At(miss_queue, r) \in Nat /\ At(L2_dram, r) \in Nat /\ At(dram_L2, r) \in Nat
        /\ CountInDram({r}) \in Nat
    BY Numbers
  <2>4. ASSUME r.kind # "l2_wrbk"
        PROVE  Away(r)' = Away(r)
    <3>1. Times(v, r) = 0
      BY <2>4, VictimTimes
    <3>2. At(L2_dram', r) = At(L2_dram, r) /\ At(dram_L2', r) = At(dram_L2, r)
      BY <1>1
    <3> QED BY ONLY <2>1, <2>2, <2>3, <3>1, <3>2, Parts
  <2>5. /\ Back(r)' = Back(r) /\ (Waiting(r)' <=> Waiting(r)) /\ (Fetching(r)' <=> Fetching(r))
        /\ (Unsent(r)' <=> Unsent(r)) /\ Answers(r)' = Answers(r) /\ cfg' = cfg
    BY <1>1 DEF Back, Waiting, Fetching, Unsent, Answers
  <2>6. Near(r) \in Nat /\ Token(r)
    BY Numbers DEF TrackInv
  <2>7. At(icnt_L2', r) = At(icnt_L2, r) - Same(h, r) /\ At(icnt_L2, r) >= Same(h, r)
    BY <1>1, <1>2, AtTail DEF h
  <2>8. ASSUME Near(r)' = Near(r), Traced(r)' <=> Traced(r)
        PROVE  Token(r)'
    <3>1. CASE r.kind = "l2_wrbk"
      BY <2>5, <2>6, <2>8, <3>1 DEF Token, Outside
    <3>2. CASE r.kind # "l2_wrbk"
      BY <2>4, <2>5, <2>6, <2>8, <3>2, TokenSame
    <3> QED BY <3>1, <3>2
  <2>9. CASE h.kind = "l1_wrbk" /\ tracker' = [tracker EXCEPT ![s] = @ \ {h}] /\ L2_icnt' = L2_icnt
    <3>1. Near(r)' = Near(r) - Same(h, r) /\ Near(r) >= Same(h, r)
      BY <1>1, <2>9, ProbeNear DEF h
    <3>2. Traced(r)' <=> Traced(r) /\ r # h
      BY <1>2, <2>9, OfSubRequest DEF Traced
    <3>3. CASE r # h
      <4>1. Near(r)' = Near(r)
        <5>1. Same(h, r) = 0
          BY <3>3, SameIs
        <5> QED BY <2>6, <3>1, <5>1
      <4> QED BY <2>8, <3>2, <3>3, <4>1
    <3>4. CASE r = h
      <4>1. Near(r) >= 1 /\ Near(r)' = Near(r) - 1
        <5>1. Same(h, r) = 1
          BY <3>4, SameIs
        <5> QED BY <3>1, <5>1
      <4>2. /\ r.kind # "l2_wrbk" /\ Once(r) /\ Answers(r) = 0 /\ ~Unsent(r) /\ Near(r) = 1
            /\ ~Waiting(r) /\ Away(r) = 0
        BY <4>1, HeadPlaced
      <4>3. Placed(r)' = 0
        BY <1>1, <2>5, <4>1, <4>2 DEF Placed
      <4> QED BY <2>4, <2>5, <3>2, <3>4, <4>2, <4>3 DEF Token, Once
    <3> QED BY <3>3, <3>4
  <2>10. CASE h.kind # "l1_wrbk" /\ L2_icnt' = WithAppend(L2_icnt, s, h) /\ tracker' = tracker
    <3>1. At(L2_icnt', r) = At(L2_icnt, r) + Same(h, r)
      BY <1>2, <2>10, AtAppend
    <3>2. Near(r)' = Near(r)
      <4>1. /\ At(rop, r) \in Nat /\ At(icnt_L2, r) \in Nat /\ At(L2_icnt, r) \in Nat
            /\ At(ready, r) \in Nat
        BY Numbers
      <4>2. At(rop', r) = At(rop, r) /\ At(ready', r) = At(ready, r)
        BY <1>1
      <4> QED BY ONLY <2>7, <3>1, <4>1, <4>2, Parts, SameIs
    <3>3. Traced(r)' <=> Traced(r)
      BY <2>10 DEF Traced
    <3> QED BY <2>8, <3>2, <3>3
  <2> QED BY <1>3, <2>9, <2>10
<1>5. Apartness'
  <2>1. PlainOK'
    BY <1>1 DEF PlainOK
  <2>2. DirtyOK'
    <3>1. \A x \in Sub : dirty'[x] \subseteq dirty[x]
      BY <1>1 DEF Flow, HomeOK, Sets
    <3> QED BY <3>1 DEF TrackInv, Apartness, DirtyOK
  <2>3. EntriesOK' /\ ArrivalsOK' /\ AnsweredOK'
    <3>1. EntriesOK /\ ArrivalsOK /\ AnsweredOK
      BY DEF TrackInv, Apartness
    <3>2. EntriesOK'
      BY <1>1, <3>1 DEF EntriesOK
    <3>3. ArrivalsOK'
      BY <1>1, <3>1, ArrivalsKept
    <3>4. AnsweredOK'
      BY <1>1, <3>1 DEF AnsweredOK
    <3> QED BY <3>2, <3>3, <3>4
  <2> QED BY <2>1, <2>2, <2>3 DEF Apartness
<1> QED BY <1>4, <1>5 DEF TrackInv

\* The L2 sends a read to the DRAM and waits for it.
LEMMA L2MissesTrack ==
  ASSUME Flow, TrackInv, NEW s \in Sub, NEW v \in {<< >>} \cup {<<d>> : d \in dirty[s]},
         L2Misses(s, v)
  PROVE  TrackInv'
<1> DEFINE h == Head(icnt_L2[s])
           m == WithAppend(miss_queue, s, h)
<1>1. /\ icnt_L2[s] # << >> /\ icnt_L2' = WithTail(icnt_L2, s)
      /\ miss_queue' = [miss_queue EXCEPT ![s] = Append(@, h) \o v]
      /\ dirty' = [dirty EXCEPT ![s] = @ \ Range(v)] /\ mshr' = [mshr EXCEPT ![s] = @ \cup {<<h>>}]
      /\ UNCHANGED <<cfg, todo, rop, L2_icnt, tracker, ready, answered>>
      /\ UNCHANGED <<L2_dram, dram_L2, latency, queue, mrq, rwq, returnq>> /\ cfg.l2
      /\ ~IsWrite(h)
  BY DEF L2Misses, CanProbe, CanAccess, WithTail, sched, banks
<1>2. /\ h \in OfSub(s) /\ h \in Request /\ h.sp = s /\ icnt_L2 \in Queues
      /\ miss_queue \in Queues /\ mshr \in Entries /\ DOMAIN mshr = Sub
  <2>1. icnt_L2 \in Queues /\ miss_queue \in Queues /\ mshr \in Entries
    BY DEF Flow, HomeOK
  <2>2. h \in OfSub(s)
    BY <1>1, <2>1, QueueTail
  <2>3. DOMAIN mshr = Sub
    BY <2>1 DEF Entries
  <2> QED BY <2>1, <2>2, <2>3, OfSubRequest
<1> HIDE DEF h
<1>3. miss_queue' = WithConcat(m, s, v) /\ m \in Queues
  <2>1. m \in Queues
    BY <1>2, QueueAppend DEF WithAppend
  <2>2. [m EXCEPT ![s] = @ \o v] = [miss_queue EXCEPT ![s] = Append(@, h) \o v]
    BY <1>2 DEF WithAppend, Queues
  <2> QED BY <1>1, <2>1, <2>2 DEF WithConcat
<1> HIDE DEF m
<1>4. Near(h) >= 1
  <2>1. Near(h) >= Same(h, h) /\ Same(h, h) = 1
    BY <1>1, <1>2, ProbeNear, SameIs DEF h
  <2> QED BY <2>1
<1>5. \A e : e \in mshr'[s] <=> e \in mshr[s] \/ e = <<h>>
  BY <1>1, <1>2
<1>6. \A x \in Sub : x # s => mshr'[x] = mshr[x]
  BY <1>1, <1>2
<1>7. Head(<<h>>) = h /\ <<h>> \in Seq(Request) /\ Len(<<h>>) = 1 /\ <<h>>[1] = h
  BY <1>2
<1>8. Range(<<h>>) = {h}
  <2>1. DOMAIN <<h>> = {1}
    OBVIOUS
  <2> QED BY <1>7, <2>1 DEF Range
<1>9. ASSUME NEW r \in Request
      PROVE  (Waiting(r)' <=> Waiting(r) \/ r = h) /\ (Fetching(r)' <=> Fetching(r) \/ r = h)
  <2>1. r.sp \in Sub
    BY OfSubRequest
  <2>2. CASE r.sp = s
    BY <1>5, <1>7, <1>8, <2>2 DEF Waiting, Fetching
  <2>3. CASE r.sp # s
    BY <1>2, <1>6, <2>1, <2>3 DEF Waiting, Fetching
  <2> QED BY <2>2, <2>3
<1>10. ASSUME NEW r \in Request
       PROVE  Token(r)'
  <2>1. At(miss_queue', r) = At(m, r) + Times(v, r)
    BY <1>3, VictimTimes, AtConcat
  <2>2. At(m, r) = At(miss_queue, r) + Same(h, r)
    BY <1>2, AtAppend DEF m
  <2>3. CountInDram({r})' = CountInDram({r})
    BY <1>1 DEF CountInDram
  <2>4. /\ At(miss_queue, r) \in Nat /\ At(L2_dram, r) \in Nat /\ At(dram_L2, r) \in Nat
        /\ CountInDram({r}) \in Nat /\ Near(r) \in Nat /\ Away(r) \in Nat
    BY Numbers
  <2>5. ASSUME r.kind # "l2_wrbk"
        PROVE  Away(r)' = Away(r) + Same(h, r)
    <3>1. Times(v, r) = 0
      BY <2>5, VictimTimes
    <3>2. At(L2_dram', r) = At(L2_dram, r) /\ At(dram_L2', r) = At(dram_L2, r)
      BY <1>1
    <3> QED BY ONLY <2>1, <2>2, <2>3, <2>4, <3>1, <3>2, Parts, SameIs
  <2>6. /\ Back(r)' = Back(r) /\ (Traced(r)' <=> Traced(r))
        /\ (Unsent(r)' <=> Unsent(r)) /\ Answers(r)' = Answers(r) /\ cfg' = cfg
    BY <1>1 DEF Back, Traced, Unsent, Answers
  <2>7. Near(r)' = Near(r) - Same(h, r)
    BY <1>1, ProbeNear DEF h
  <2>8. Token(r)
    BY DEF TrackInv
  <2>9. CASE r # h
    <3>1. Same(h, r) = 0
      BY <2>9, SameIs
    <3>2. Near(r)' = Near(r) /\ (r.kind # "l2_wrbk" => Away(r)' = Away(r))
      BY <2>4, <2>5, <2>7, <3>1
    <3>3. (Waiting(r)' <=> Waiting(r)) /\ (Fetching(r)' <=> Fetching(r))
      BY <1>9, <2>9
    <3>4. CASE r.kind = "l2_wrbk"
      BY <2>6, <2>8, <3>2, <3>3, <3>4 DEF Token, Outside
    <3>5. CASE r.kind # "l2_wrbk"
      BY <2>6, <2>8, <3>2, <3>3, <3>5, TokenSame
    <3> QED BY <3>4, <3>5
  <2>10. CASE r = h
    <3>1. /\ r.kind # "l2_wrbk" /\ Once(r) /\ Traced(r) /\ Answers(r) = 0 /\ ~Unsent(r)
          /\ Near(r) = 1 /\ Away(r) = 0
      BY <1>4, <2>10, HeadPlaced
    <3>2. Same(h, r) = 1
      BY <2>10, SameIs
    <3>3. Near(r)' = 0 /\ Away(r)' = 1
      BY <2>5, <2>7, <3>1, <3>2
    <3>4. Waiting(r)' /\ Fetching(r)'
      BY <1>9, <2>10
    <3>5. Placed(r)' = 1
      BY <1>1, <3>3, <3>4 DEF Placed
    <3> QED BY <1>1, <2>6, <2>10, <3>1, <3>3, <3>4, <3>5 DEF Token, Once
  <2> QED BY <2>9, <2>10
<1>11. EntriesOK'
  <2>1. EntriesOK /\ ~Waiting(h)
    BY <1>2, <1>4, HeadPlaced DEF TrackInv, Apartness
  <2>2. \A e \in mshr[s] : e \in Seq(Request) /\ \A i \in 1 .. Len(e) : e[i] # h
    <3> SUFFICES ASSUME NEW e \in mshr[s]
                 PROVE  e \in Seq(Request) /\ \A i \in 1 .. Len(e) : e[i] # h
      OBVIOUS
    <3>1. e \in Seq(Request)
      BY <1>2 DEF Entries
    <3>2. h \notin Range(e)
      BY <1>2, <2>1 DEF Waiting
    <3> QED BY <3>1, <3>2, RangeIs
  <2> SUFFICES ASSUME NEW x \in Sub, NEW e \in mshr'[x], NEW f \in mshr'[x],
                      NEW i \in 1 .. Len(e), NEW j \in 1 .. Len(f), e[i] = f[j]
               PROVE  e = f /\ i = j
    BY DEF EntriesOK
  <2>3. CASE x # s \/ (e \in mshr[s] /\ f \in mshr[s])
    BY <1>6, <2>1, <2>3 DEF EntriesOK
  <2>4. CASE x = s /\ e = <<h>> /\ f = <<h>>
    BY <1>7, <2>4
  <2>5. CASE x = s /\ e = <<h>> /\ f \in mshr[s]
    BY <1>7, <2>2, <2>5
  <2>6. CASE x = s /\ e \in mshr[s] /\ f = <<h>>
    BY <1>7, <2>2, <2>6
  <2> QED BY <1>5, <2>3, <2>4, <2>5, <2>6
<1>12. Apartness'
  <2>1. PlainOK'
    BY <1>1 DEF PlainOK
  <2>2. DirtyOK'
    <3>1. \A x \in Sub : dirty'[x] \subseteq dirty[x]
      BY <1>1 DEF Flow, HomeOK, Sets
    <3> QED BY <3>1 DEF TrackInv, Apartness, DirtyOK
  <2>3. ArrivalsOK /\ AnsweredOK
    BY DEF TrackInv, Apartness
  <2>4. ArrivalsOK'
    BY <1>1, <2>3, ArrivalsKept
  <2>5. AnsweredOK'
    BY <1>1, <2>3 DEF AnsweredOK
  <2> QED BY <1>11, <2>1, <2>2, <2>4, <2>5 DEF Apartness
<1> QED BY <1>10, <1>12 DEF TrackInv

\* The entries of the caches change.
LEMMA ApartnessMoved ==
  ASSUME Apartness, EntriesOK', cfg' = cfg, todo' = todo, dirty' = dirty,
         answered' = answered, miss_queue' = miss_queue
  PROVE  Apartness'
<1>1. ArrivalsOK'
  BY ArrivalsKept DEF Apartness
<1>2. DirtyOK'
  BY DEF Apartness, DirtyOK
<1>3. PlainOK'
  BY DEF Apartness, PlainOK
<1>4. AnsweredOK'
  BY DEF Apartness, AnsweredOK
<1> QED BY <1>1, <1>2, <1>3, <1>4 DEF Apartness

\* A read waits with another one.
LEMMA L2MergesTrack ==
  ASSUME Flow, TrackInv, NEW s \in Sub, NEW entry \in mshr[s], L2Merges(s, entry)
  PROVE  TrackInv'
<1> DEFINE h == Head(icnt_L2[s])
           both == Append(entry, h)
<1>1. /\ icnt_L2[s] # << >> /\ icnt_L2' = WithTail(icnt_L2, s)
      /\ mshr' = [mshr EXCEPT ![s] = (@ \ {entry}) \cup {both}]
      /\ UNCHANGED <<cfg, todo, rop, L2_icnt, tracker, dirty, miss_queue, ready, answered>>
      /\ UNCHANGED <<L2_dram, dram_L2, latency, queue, mrq, rwq, returnq>> /\ cfg.l2
      /\ ~IsWrite(h)
  BY DEF L2Merges, CanProbe, CanAccess, WithTail, sched, banks
<1>2. /\ h \in OfSub(s) /\ h \in Request /\ h.sp = s /\ icnt_L2 \in Queues
      /\ mshr \in Entries /\ DOMAIN mshr = Sub /\ entry \in Seq(Request) /\ entry # << >>
  <2>1. icnt_L2 \in Queues /\ mshr \in Entries
    BY DEF Flow, HomeOK
  <2>2. h \in OfSub(s)
    BY <1>1, <2>1, QueueTail
  <2>3. DOMAIN mshr = Sub /\ entry \in Seq(Request) /\ entry # << >>
    BY <2>1 DEF Entries
  <2> QED BY <2>1, <2>2, <2>3, OfSubRequest
<1>3. Near(h) >= 1
  <2>1. Near(h) >= Same(h, h) /\ Same(h, h) = 1
    BY <1>1, <1>2, ProbeNear, SameIs DEF h
  <2> QED BY <2>1
<1> HIDE DEF h
<1>4. /\ both \in Seq(Request) /\ Len(both) = Len(entry) + 1 /\ both[Len(entry) + 1] = h
      /\ \A i \in 1 .. Len(entry) : both[i] = entry[i]
      /\ Head(both) = Head(entry) /\ Len(entry) \in Nat
  BY <1>2
<1>5. \A r : r \in Range(both) <=> r \in Range(entry) \/ r = h
  <2> TAKE r
  <2>1. r \in Range(both) <=> \E i \in 1 .. Len(both) : both[i] = r
    BY <1>4, RangeIs
  <2>2. r \in Range(entry) <=> \E i \in 1 .. Len(entry) : entry[i] = r
    BY <1>2, RangeIs
  <2>3. \A i \in 1 .. Len(both) : i \in 1 .. Len(entry) \/ i = Len(entry) + 1
    BY <1>4
  <2>4. Len(entry) + 1 \in 1 .. Len(both) /\ \A i \in 1 .. Len(entry) : i \in 1 .. Len(both)
    BY <1>4
  <2> HIDE DEF both
  <2> QED BY <1>4, <2>1, <2>2, <2>3, <2>4
<1> HIDE DEF both
<1>6. \A e : e \in mshr'[s] <=> (e \in mshr[s] /\ e # entry) \/ e = both
  BY <1>1, <1>2
<1>7. \A x \in Sub : x # s => mshr'[x] = mshr[x]
  BY <1>1, <1>2
<1>8. ASSUME NEW r \in Request
      PROVE  (Waiting(r)' <=> Waiting(r) \/ r = h) /\ (Fetching(r) => Fetching(r)')
  <2>1. r.sp \in Sub
    BY OfSubRequest
  <2>2. CASE r.sp = s
    <3>1. Waiting(r) <=> \E e \in mshr[s] : r \in Range(e)
      BY <2>2 DEF Waiting
    <3>2. Waiting(r)' <=> \E e \in mshr'[s] : r \in Range(e)
      BY <2>2 DEF Waiting
    <3>3. Waiting(r)' <=> Waiting(r) \/ r = h
      BY <1>5, <1>6, <3>1, <3>2
    <3>4. ASSUME Fetching(r)
          PROVE  Fetching(r)'
      <4>1. PICK e \in mshr[s] : Head(e) = r
        BY <2>2, <3>4 DEF Fetching
      <4>2. CASE e = entry
        BY <1>4, <1>6, <2>2, <4>1, <4>2 DEF Fetching
      <4>3. CASE e # entry
        BY <1>6, <2>2, <4>1, <4>3 DEF Fetching
      <4> QED BY <4>2, <4>3
    <3> QED BY <3>3, <3>4
  <2>3. CASE r.sp # s
    BY <1>2, <1>7, <2>1, <2>3 DEF Waiting, Fetching
  <2> QED BY <2>2, <2>3
<1>9. ASSUME NEW r \in Request
      PROVE  Token(r)'
  <2>1. /\ Back(r)' = Back(r) /\ (Traced(r)' <=> Traced(r)) /\ Away(r)' = Away(r)
        /\ (Unsent(r)' <=> Unsent(r)) /\ Answers(r)' = Answers(r) /\ cfg' = cfg
    BY <1>1 DEF Back, Traced, Unsent, Answers, Away, CountInDram
  <2>2. Near(r)' = Near(r) - Same(h, r) /\ Near(r) \in Nat
    BY <1>1, ProbeNear, Numbers DEF h
  <2>3. Token(r)
    BY DEF TrackInv
  <2>4. CASE r # h
    <3>1. Same(h, r) = 0
      BY <2>4, SameIs
    <3>2. Near(r)' = Near(r)
      BY <2>2, <3>1
    <3>3. (Waiting(r)' <=> Waiting(r)) /\ (Fetching(r) => Fetching(r)')
      BY <1>8, <2>4
    <3> QED BY <2>1, <2>3, <3>2, <3>3, TokenSame
  <2>5. CASE r = h
    <3>1. /\ r.kind # "l2_wrbk" /\ Once(r) /\ Traced(r) /\ Answers(r) = 0 /\ ~Unsent(r)
          /\ Near(r) = 1 /\ Away(r) = 0
      BY <1>3, <2>5, HeadPlaced
    <3>2. Same(h, r) = 1
      BY <2>5, SameIs
    <3>3. Near(r)' = 0
      BY <2>2, <3>1, <3>2
    <3>4. Waiting(r)'
      BY <1>8, <2>5
    <3>5. Placed(r)' = 1
      BY <1>1, <3>3, <3>4 DEF Placed
    <3> QED BY <1>1, <2>1, <2>5, <3>1, <3>4, <3>5 DEF Token, Once
  <2> QED BY <2>4, <2>5
<1>10. EntriesOK'
  <2>1. EntriesOK /\ ~Waiting(h)
    BY <1>2, <1>3, HeadPlaced DEF TrackInv, Apartness
  <2>2. \A e \in mshr[s] : e \in Seq(Request) /\ \A i \in 1 .. Len(e) : e[i] # h
    <3> SUFFICES ASSUME NEW e \in mshr[s]
                 PROVE  e \in Seq(Request) /\ \A i \in 1 .. Len(e) : e[i] # h
      OBVIOUS
    <3>1. e \in Seq(Request)
      BY <1>2 DEF Entries
    <3>2. h \notin Range(e)
      BY <1>2, <2>1 DEF Waiting
    <3> QED BY <3>1, <3>2, RangeIs
  <2>3. \A e, f \in mshr[s] : \A i \in 1 .. Len(e), j \in 1 .. Len(f) : e[i] = f[j] => e = f /\ i = j
    BY <2>1 DEF EntriesOK
  <2>4. \A i \in 1 .. Len(both) : \/ i \in 1 .. Len(entry) /\ both[i] = entry[i]
                                  \/ i = Len(entry) + 1 /\ both[i] = h
    BY <1>4
  <2> SUFFICES ASSUME NEW x \in Sub, NEW e \in mshr'[x], NEW f \in mshr'[x],
                      NEW i \in 1 .. Len(e), NEW j \in 1 .. Len(f), e[i] = f[j]
               PROVE  e = f /\ i = j
    BY DEF EntriesOK
  <2>5. CASE x # s
    BY <1>7, <2>1, <2>5 DEF EntriesOK
  <2>6. CASE x = s /\ e = both /\ f = both
    <3>1. CASE i \in 1 .. Len(entry) /\ j \in 1 .. Len(entry)
      BY <2>3, <2>4, <2>6, <3>1, <1>4
    <3>2. CASE i = Len(entry) + 1 /\ j \in 1 .. Len(entry)
      BY <1>4, <2>2, <2>6, <3>2
    <3>3. CASE i \in 1 .. Len(entry) /\ j = Len(entry) + 1
      BY <1>4, <2>2, <2>6, <3>3
    <3>4. CASE i = Len(entry) + 1 /\ j = Len(entry) + 1
      BY <2>6, <3>4
    <3> QED BY <2>4, <2>6, <3>1, <3>2, <3>3, <3>4
  <2>7. CASE x = s /\ e = both /\ f \in mshr[s] /\ f # entry
    BY <2>2, <2>3, <2>4, <2>7
  <2>8. CASE x = s /\ e \in mshr[s] /\ e # entry /\ f = both
    BY <2>2, <2>3, <2>4, <2>8
  <2>9. CASE x = s /\ e \in mshr[s] /\ f \in mshr[s]
    BY <2>3, <2>9
  <2> QED BY <1>6, <2>5, <2>6, <2>7, <2>8, <2>9
<1>11. Apartness'
  BY <1>1, <1>10, ApartnessMoved DEF TrackInv
<1> QED BY <1>9, <1>11 DEF TrackInv

\* A request joins the ones that are answered.
LEMMA OneMoreAnswered ==
  ASSUME AnsweredOK, NEW h \in Request, Answers(h) = 0, answered' = Append(answered, h)
  PROVE  AnsweredOK'
<1>1. answered \in Seq(Request) /\ h \notin Range(answered)
  BY TimesMove DEF AnsweredOK, Answers
<1>2. answered' \in Seq(Request) /\ Len(answered') = Len(answered) + 1
  BY <1>1
<1>3. Range(answered') = Range(answered) \cup {h}
  <2>1. \A i \in 1 .. Len(answered) : answered'[i] = answered[i]
    BY <1>1
  <2>2. answered'[Len(answered) + 1] = h /\ Len(answered) \in Nat
    BY <1>1
  <2>3. \A r : r \in Range(answered') <=> \E i \in 1 .. Len(answered') : answered'[i] = r
    BY <1>2, RangeIs
  <2>4. \A r : r \in Range(answered) <=> \E i \in 1 .. Len(answered) : answered[i] = r
    BY <1>1, RangeIs
  <2>5. \A i \in 1 .. Len(answered') : i \in 1 .. Len(answered) \/ i = Len(answered) + 1
    BY <1>2, <2>2
  <2>6. Len(answered) + 1 \in 1 .. Len(answered') /\ \A i \in 1 .. Len(answered) : i \in 1 .. Len(answered')
    BY <1>2, <2>2
  <2>7. ASSUME NEW r
        PROVE  r \in Range(answered') <=> r \in Range(answered) \/ r = h
    BY ONLY <2>1, <2>2, <2>3, <2>4, <2>5, <2>6
  <2> QED BY <2>7
<1>4. Cardinality(Range(answered')) = Cardinality(Range(answered)) + 1 /\ IsFiniteSet(Range(answered'))
  BY <1>1, <1>3, FS_AddElement DEF AnsweredOK
<1> QED BY <1>2, <1>4 DEF AnsweredOK

\* The interconnect takes an answer.
LEMMA PopReplyTrack ==
  ASSUME Flow, TrackInv, NEW s \in Sub, PopReply(s)
  PROVE  TrackInv'
<1> DEFINE h == Head(L2_icnt[s])
<1>1. /\ L2_icnt[s] # << >> /\ L2_icnt' = WithTail(L2_icnt, s)
      /\ tracker' = [tracker EXCEPT ![s] = @ \ {h}] /\ answered' = Append(answered, h)
      /\ UNCHANGED <<cfg, todo, rop, icnt_L2, dirty, miss_queue, mshr, ready>>
      /\ UNCHANGED <<L2_dram, dram_L2, latency, queue, mrq, rwq, returnq>>
  BY DEF PopReply, WithTail, l2vars, sched, banks
<1>2. /\ h \in OfSub(s) /\ h \in Request /\ h.sp = s /\ L2_icnt \in Queues
      /\ tracker \in Sets /\ DOMAIN tracker = Sub
  BY <1>1, QueueTail, OfSubRequest DEF Flow, HomeOK, Sets
<1>3. ASSUME NEW r \in Request
      PROVE  Near(r)' = Near(r) - Same(h, r) /\ Near(r) >= Same(h, r) /\ Near(r) \in Nat
  <2>1. At(L2_icnt', r) = At(L2_icnt, r) - Same(h, r) /\ At(L2_icnt, r) >= Same(h, r)
    BY <1>1, <1>2, AtTail
  <2>2. /\ At(rop, r) \in Nat /\ At(icnt_L2, r) \in Nat /\ At(L2_icnt, r) \in Nat
        /\ At(ready, r) \in Nat /\ Near(r) \in Nat
    BY Numbers
  <2>3. At(rop', r) = At(rop, r) /\ At(icnt_L2', r) = At(icnt_L2, r) /\ At(ready', r) = At(ready, r)
    BY <1>1
  <2> HIDE DEF h
  <2> QED BY ONLY <2>1, <2>2, <2>3, Parts, SameIs
<1> HIDE DEF h
<1>4. Near(h) >= 1
  <2>1. Near(h) >= Same(h, h) /\ Same(h, h) = 1
    BY <1>2, <1>3, SameIs
  <2> QED BY <2>1
<1>5. ASSUME NEW r \in Request
      PROVE  Token(r)'
  <2>1. /\ Back(r)' = Back(r) /\ Away(r)' = Away(r) /\ (Waiting(r)' <=> Waiting(r))
        /\ (Fetching(r)' <=> Fetching(r)) /\ (Unsent(r)' <=> Unsent(r)) /\ cfg' = cfg
    BY <1>1 DEF Back, Away, Waiting, Fetching, Unsent, CountInDram
  <2>2. Answers(r)' = Answers(r) + Same(h, r) /\ Answers(r) \in Nat
    <3>1. answered \in Seq(Request)
      BY DEF TrackInv, Apartness, AnsweredOK
    <3> QED BY <1>1, <1>2, <3>1, TimesMove DEF Answers
  <2>3. Traced(r)' <=> Traced(r) /\ r # h
    BY <1>1, <1>2, OfSubRequest DEF Traced
  <2>4. Token(r)
    BY DEF TrackInv
  <2>5. Near(r)' = Near(r) - Same(h, r) /\ Near(r) \in Nat
    BY <1>3
  <2>6. CASE r # h
    <3>1. Same(h, r) = 0
      BY <2>6, SameIs
    <3>2. Near(r)' = Near(r) /\ Answers(r)' = Answers(r)
      BY <2>2, <2>5, <3>1
    <3>3. Traced(r)' <=> Traced(r)
      BY <2>3, <2>6
    <3> QED BY <2>1, <2>4, <3>2, <3>3, TokenSame
  <2>7. CASE r = h
    <3>1. /\ r.kind # "l2_wrbk" /\ Once(r) /\ Answers(r) = 0 /\ ~Unsent(r) /\ Near(r) = 1
          /\ ~Waiting(r) /\ Away(r) = 0
      BY <1>4, <2>7, HeadPlaced
    <3>2. Same(h, r) = 1
      BY <2>7, SameIs
    <3>3. Near(r)' = 0 /\ Answers(r)' = 1
      BY <2>2, <2>5, <3>1, <3>2
    <3>4. Placed(r)' = 0
      BY <2>1, <3>1, <3>3 DEF Placed
    <3> QED BY <2>1, <2>3, <2>7, <3>1, <3>3, <3>4 DEF Token, Once
  <2> QED BY <2>6, <2>7
<1>6. Apartness'
  <2>1. Apartness /\ Answers(h) = 0
    BY <1>2, <1>4, HeadPlaced DEF TrackInv
  <2>2. AnsweredOK'
    BY <1>1, <1>2, <2>1, OneMoreAnswered DEF Apartness
  <2>3. ArrivalsOK'
    BY <1>1, <2>1, ArrivalsKept DEF Apartness
  <2>4. EntriesOK'
    BY <1>1, <2>1 DEF Apartness, EntriesOK
  <2>5. DirtyOK' /\ PlainOK'
    BY <1>1, <2>1 DEF Apartness, DirtyOK, PlainOK
  <2> QED BY <2>2, <2>3, <2>4, <2>5 DEF Apartness
<1> QED BY <1>5, <1>6 DEF TrackInv

\* A request leaves m_dram_L2_queue.
LEMMA FromDramAway ==
  ASSUME Flow, TrackInv, NEW s \in Sub, FromDram(s), NEW r \in Request
  PROVE  /\ Away(r)' = Away(r) - Same(Head(dram_L2[s]), r)
         /\ Away(r) >= Same(Head(dram_L2[s]), r)
         /\ Back(r)' = Back(r) - Same(Head(dram_L2[s]), r)
         /\ Back(r) >= Same(Head(dram_L2[s]), r)
<1> DEFINE x == Same(Head(dram_L2[s]), r)
<1>1. /\ dram_L2[s] # << >> /\ dram_L2' = WithTail(dram_L2, s)
      /\ UNCHANGED <<miss_queue, L2_dram, latency, queue, mrq, rwq, returnq>>
  BY DEF FromDram, WithTail, sched, banks
<1>2. At(dram_L2', r) = At(dram_L2, r) - x /\ At(dram_L2, r) >= x /\ x \in Nat
  BY <1>1, AtTail, SameIs DEF Flow, HomeOK
<1>3. /\ At(miss_queue, r) \in Nat /\ At(L2_dram, r) \in Nat /\ At(dram_L2, r) \in Nat
      /\ CountInDram({r}) \in Nat /\ Times(returnq, r) \in Nat
  BY Numbers
<1>4. /\ At(miss_queue', r) = At(miss_queue, r) /\ At(L2_dram', r) = At(L2_dram, r)
      /\ CountInDram({r})' = CountInDram({r}) /\ Times(returnq', r) = Times(returnq, r)
  BY <1>1 DEF CountInDram
<1> HIDE DEF x
<1>5. Away(r)' = Away(r) - x /\ Away(r) >= x
  BY ONLY <1>2, <1>3, <1>4, Parts
<1>6. Back(r)' = Back(r) - x /\ Back(r) >= x
  BY ONLY <1>2, <1>3, <1>4, Parts
<1> QED BY <1>5, <1>6 DEF x

\* A fill: the requests that wait for it are ready.
LEMMA FillTrack ==
  ASSUME Flow, TrackInv, NEW s \in Sub, FromDram(s), NEW entry \in Waiters(s),
         mshr' = [mshr EXCEPT ![s] = @ \ {entry}], ready' = WithConcat(ready, s, entry),
         UNCHANGED L2_icnt
  PROVE  TrackInv'
<1> DEFINE h == Head(dram_L2[s])
<1>1. /\ dram_L2[s] # << >> /\ ready' = WithConcat(ready, s, entry)
      /\ UNCHANGED <<cfg, todo, rop, icnt_L2, tracker, dirty, miss_queue, answered>>
  BY DEF FromDram
<1>2. /\ h \in OfSub(s) /\ h \in Request /\ h.sp = s /\ ready \in Queues /\ mshr \in Entries
      /\ DOMAIN mshr = Sub
  BY <1>1, QueueTail, OfSubRequest DEF Flow, HomeOK, Entries
<1>3. /\ entry \in mshr[s] /\ Head(entry) = h /\ entry \in Seq(OfSub(s)) /\ entry \in Seq(Request)
      /\ entry # << >>
  BY <1>2, OfSubRequest DEF Waiters, Entries
<1>4. \A r \in Request : /\ Away(r)' = Away(r) - Same(h, r) /\ Away(r) >= Same(h, r)
                         /\ Back(r)' = Back(r) - Same(h, r) /\ Back(r) >= Same(h, r)
  BY FromDramAway
<1> HIDE DEF h
<1>5. h \in Range(entry) /\ Range(entry) \subseteq OfSub(s)
  <2>1. Head(entry) = entry[1] /\ 1 \in 1 .. Len(entry)
    BY <1>3
  <2> QED BY <1>3, <2>1, RangeIs
<1>6. EntriesOK
  BY DEF TrackInv, Apartness
<1>7. ASSUME NEW e \in mshr[s], NEW r \in Range(entry), r \in Range(e)
      PROVE  e = entry
  <2>1. e \in Seq(Request)
    BY <1>2 DEF Entries
  <2>2. PICK i \in 1 .. Len(e) : e[i] = r
    BY <1>7, <2>1, RangeIs
  <2>3. PICK j \in 1 .. Len(entry) : entry[j] = r
    BY <1>3, <1>7, RangeIs
  <2> QED BY <1>3, <1>6, <2>2, <2>3 DEF EntriesOK
<1>8. ASSUME NEW e \in mshr[s]
      PROVE  Head(e) \in Range(e)
  <2>1. e \in Seq(Request) /\ e # << >>
    BY <1>2 DEF Entries
  <2>2. Head(e) = e[1] /\ 1 \in 1 .. Len(e)
    BY <2>1
  <2> QED BY <2>1, <2>2, RangeIs
<1>9. \A e : e \in mshr'[s] <=> e \in mshr[s] /\ e # entry
  BY <1>2
<1>10. \A x \in Sub : x # s => mshr'[x] = mshr[x]
  BY <1>2
<1>11. ASSUME NEW r \in Request
       PROVE  Token(r)'
  <2>1. At(ready', r) = At(ready, r) + Times(entry, r)
    BY <1>1, <1>2, <1>3, AtConcat
  <2>2. /\ At(rop, r) \in Nat /\ At(icnt_L2, r) \in Nat /\ At(L2_icnt, r) \in Nat
        /\ At(ready, r) \in Nat
    BY Numbers
  <2>3. Near(r) \in Nat /\ Away(r) \in Nat /\ Answers(r) \in Nat /\ Back(r) \in Nat
    BY Numbers
  <2>4. Times(entry, r) \in Nat
    BY <1>3, TimesMove
  <2>5. Near(r)' = Near(r) + Times(entry, r)
    <3>1. At(rop', r) = At(rop, r) /\ At(icnt_L2', r) = At(icnt_L2, r) /\ At(L2_icnt', r) = At(L2_icnt, r)
      BY <1>1
    <3> QED BY ONLY <2>1, <2>2, <2>4, <3>1, Parts
  <2>6. /\ (Traced(r)' <=> Traced(r)) /\ (Unsent(r)' <=> Unsent(r)) /\ Answers(r)' = Answers(r)
        /\ cfg' = cfg
    BY <1>1 DEF Traced, Unsent, Answers
  <2>7. Token(r)
    BY DEF TrackInv
  <2>8. Away(r)' = Away(r) - Same(h, r) /\ Away(r) >= Same(h, r) /\ Back(r)' = Back(r) - Same(h, r)
    BY <1>4
  <2>9. CASE r \notin Range(entry)
    <3>1. Times(entry, r) = 0 /\ Same(h, r) = 0
      BY <1>3, <1>5, <2>9, TimesMove, SameIs
    <3>2. Near(r)' = Near(r) /\ Away(r)' = Away(r) /\ Back(r)' = Back(r)
      BY <2>3, <2>5, <2>8, <3>1
    <3>3. (Waiting(r)' <=> Waiting(r)) /\ (Fetching(r) => Fetching(r)')
      <4>1. r.sp \in Sub
        BY OfSubRequest
      <4>2. CASE r.sp = s
        BY <1>8, <1>9, <2>9, <4>2 DEF Waiting, Fetching
      <4>3. CASE r.sp # s
        BY <1>10, <4>1, <4>3 DEF Waiting, Fetching
      <4> QED BY <4>2, <4>3
    <3> QED BY <2>6, <2>7, <3>2, <3>3, TokenSame
  <2>10. CASE r \in Range(entry)
    <3>1. Waiting(r) /\ r.sp = s
      BY <1>3, <1>5, <2>10, OfSubRequest DEF Waiting
    <3>2. r.kind # "l2_wrbk" /\ Once(r)
      BY <2>7, <3>1 DEF Token, Outside
    <3>3. cfg.l2
      BY <3>1, <3>2 DEF Once
    <3>4. Placed(r) = Near(r) + 1
      BY <3>1, <3>3 DEF Placed
    <3>5. Placed(r) + Answers(r) + (IF Unsent(r) THEN 1 ELSE 0) <= 1
      BY <3>2 DEF Once
    <3>6. Near(r) = 0 /\ Answers(r) = 0 /\ ~Unsent(r) /\ Placed(r) = 1
      BY <2>3, <3>4, <3>5
    <3>7. Times(entry, r) = 1
      <4>1. Apart(entry)
        BY <1>3, <1>6 DEF Apart, EntriesOK
      <4> QED BY <1>3, <2>10, <4>1, CountOnce DEF Times
    <3>8. ~Waiting(r)'
      BY <1>7, <1>9, <2>10, <3>1 DEF Waiting
    <3>9. Placed(r)' = 1
      BY <2>3, <2>5, <2>6, <3>3, <3>6, <3>7, <3>8 DEF Placed
    <3>10. Away(r)' = 0
      <4>1. CASE r = h
        <5>1. Same(h, r) = 1
          BY <4>1, SameIs
        <5>2. Away(r) <= 1
          BY <3>2 DEF Once
        <5> QED BY <2>3, <2>8, <5>1, <5>2
      <4>2. CASE r # h
        <5>1. ~Fetching(r)
          BY <1>3, <1>7, <1>8, <2>10, <3>1, <4>2 DEF Fetching
        <5>2. Away(r) = 0
          BY <2>3, <3>2, <3>3, <5>1 DEF Once
        <5>3. Same(h, r) = 0
          BY <4>2, SameIs
        <5> QED BY <2>8, <5>2, <5>3
      <4> QED BY <4>1, <4>2
    <3>11. Traced(r)
      BY <3>2, <3>6 DEF Once
    <3> QED BY <2>6, <3>2, <3>6, <3>8, <3>9, <3>10, <3>11 DEF Token, Once
  <2> QED BY <2>9, <2>10
<1>12. EntriesOK'
  <2>1. \A x \in Sub : \A e \in mshr'[x] : e \in mshr[x]
    BY <1>9, <1>10
  <2> QED BY <1>6, <2>1 DEF EntriesOK
<1>13. Apartness'
  BY <1>1, <1>12, ApartnessMoved DEF TrackInv
<1> QED BY <1>11, <1>13 DEF TrackInv

\* What the L2 does not wait for goes on to the interconnect.
LEMMA ForwardTrack ==
  ASSUME Flow, TrackInv, NEW s \in Sub, FromDram(s), Waiters(s) = {},
         L2_icnt' = WithAppend(L2_icnt, s, Head(dram_L2[s])), UNCHANGED <<mshr, ready>>
  PROVE  TrackInv'
<1> DEFINE h == Head(dram_L2[s])
<1>1. /\ dram_L2[s] # << >> /\ L2_icnt' = WithAppend(L2_icnt, s, h)
      /\ UNCHANGED <<cfg, todo, rop, icnt_L2, tracker, dirty, miss_queue, answered>>
  BY DEF FromDram
<1>2. h \in OfSub(s) /\ h \in Request /\ h.sp = s /\ L2_icnt \in Queues
  BY <1>1, QueueTail, OfSubRequest DEF Flow, HomeOK
<1>3. ~Fetching(h)
  BY <1>2 DEF Fetching, Waiters
<1>4. \A r \in Request : /\ Away(r)' = Away(r) - Same(h, r) /\ Away(r) >= Same(h, r)
                         /\ Back(r)' = Back(r) - Same(h, r) /\ Back(r) >= Same(h, r)
  BY FromDramAway
<1> HIDE DEF h
<1>5. ASSUME NEW r \in Request
      PROVE  Token(r)'
  <2>1. At(L2_icnt', r) = At(L2_icnt, r) + Same(h, r)
    BY <1>1, <1>2, AtAppend
  <2>2. /\ At(rop, r) \in Nat /\ At(icnt_L2, r) \in Nat /\ At(L2_icnt, r) \in Nat
        /\ At(ready, r) \in Nat
    BY Numbers
  <2>3. Near(r) \in Nat /\ Away(r) \in Nat /\ Answers(r) \in Nat /\ Back(r) \in Nat
    BY Numbers
  <2>4. Near(r)' = Near(r) + Same(h, r)
    <3>1. At(rop', r) = At(rop, r) /\ At(icnt_L2', r) = At(icnt_L2, r) /\ At(ready', r) = At(ready, r)
      BY <1>1
    <3> QED BY ONLY <2>1, <2>2, <3>1, Parts, SameIs
  <2>5. /\ (Traced(r)' <=> Traced(r)) /\ (Unsent(r)' <=> Unsent(r)) /\ Answers(r)' = Answers(r)
        /\ (Waiting(r)' <=> Waiting(r)) /\ (Fetching(r)' <=> Fetching(r)) /\ cfg' = cfg
    BY <1>1 DEF Traced, Unsent, Answers, Waiting, Fetching
  <2>6. Token(r)
    BY DEF TrackInv
  <2>7. /\ Away(r)' = Away(r) - Same(h, r) /\ Away(r) >= Same(h, r)
        /\ Back(r)' = Back(r) - Same(h, r) /\ Back(r) >= Same(h, r)
    BY <1>4
  <2>8. CASE r # h
    <3>1. Same(h, r) = 0
      BY <2>8, SameIs
    <3>2. Near(r)' = Near(r) /\ Away(r)' = Away(r) /\ Back(r)' = Back(r)
      BY <2>3, <2>4, <2>7, <3>1
    <3> QED BY <2>5, <2>6, <3>2, TokenSame
  <2>9. CASE r = h
    <3>1. Same(h, r) = 1
      BY <2>9, SameIs
    <3>2. Back(r) >= 1 /\ Away(r) >= 1
      BY <2>7, <3>1
    <3>3. r.kind # "l2_wrbk" /\ Once(r)
      BY <2>6, <3>2 DEF Token, Outside
    <3>4. ~cfg.l2 /\ ~Waiting(r)
      BY <1>3, <2>9, <3>2, <3>3 DEF Once
    <3>5. Away(r) = 1 /\ Away(r)' = 0 /\ Near(r)' = Near(r) + 1
      BY <2>3, <2>4, <2>7, <3>1, <3>2, <3>3 DEF Once
    <3>6. Placed(r) = Near(r) + 1 /\ Placed(r)' = Near(r) + 1
      <4>1. Placed(r) = Near(r) + Away(r) /\ Placed(r)' = Near(r)' + Away(r)'
        BY <2>5, <3>4 DEF Placed
      <4> QED BY <2>3, <3>5, <4>1
    <3> QED BY <2>5, <3>3, <3>4, <3>5, <3>6 DEF Token, Once
  <2> QED BY <2>8, <2>9
<1>6. EntriesOK'
  BY DEF TrackInv, Apartness, EntriesOK
<1>7. Apartness'
  BY <1>1, <1>6, ApartnessMoved DEF TrackInv
<1> QED BY <1>5, <1>7 DEF TrackInv

\* The first packet and the ones behind it.
Carried(packets, r) == \E i \in 1 .. Len(packets) : r \in Range(packets[i])

LEMMA FirstPacket ==
  ASSUME NEW p \in Seq(Seq(Request)), p # << >>, Scattered(p)
  PROVE  /\ Scattered(Tail(p)) /\ Apart(Head(p))
         /\ \A r : Carried(p, r) <=> r \in Range(Head(p)) \/ Carried(Tail(p), r)
         /\ \A r \in Range(Head(p)) : ~Carried(Tail(p), r)
<1> DEFINE t == Tail(p)
<1>1. /\ Len(p) \in Nat /\ Len(p) >= 1 /\ Head(p) = p[1] /\ Len(t) = Len(p) - 1
      /\ \A i \in 1 .. Len(t) : t[i] = p[i + 1]
  OBVIOUS
<1>2. \A i \in 1 .. Len(p) : p[i] \in Seq(Request)
  OBVIOUS
<1> HIDE DEF t
<1>3. Scattered(t)
  <2> SUFFICES ASSUME NEW i \in 1 .. Len(t), NEW k \in 1 .. Len(t), NEW j \in 1 .. Len(t[i]),
                      NEW l \in 1 .. Len(t[k]), t[i][j] = t[k][l]
               PROVE  i = k /\ j = l
    BY DEF Scattered
  <2>1. PICK a \in 1 .. Len(p) : a = i + 1
    BY ONLY i \in 1 .. Len(t), <1>1
  <2>2. PICK b \in 1 .. Len(p) : b = k + 1
    BY ONLY k \in 1 .. Len(t), <1>1
  <2>3. t[i] = p[a] /\ t[k] = p[b]
    BY <1>1, <2>1, <2>2
  <2>4. j \in 1 .. Len(p[a]) /\ l \in 1 .. Len(p[b]) /\ p[a][j] = p[b][l]
    BY <2>3
  <2>5. a = b /\ j = l
    BY ONLY Scattered(p), <2>4, a \in 1 .. Len(p), b \in 1 .. Len(p) DEF Scattered
  <2> QED BY ONLY <2>1, <2>2, <2>5, i \in 1 .. Len(t), k \in 1 .. Len(t), <1>1
<1>4. Apart(Head(p))
  <2>1. 1 \in 1 .. Len(p)
    BY <1>1
  <2> QED BY <1>1, <2>1 DEF Apart, Scattered
<1>5. ASSUME NEW r
      PROVE  Carried(p, r) <=> r \in Range(Head(p)) \/ Carried(t, r)
  <2>1. ASSUME NEW i \in 1 .. Len(p), r \in Range(p[i])
        PROVE  r \in Range(Head(p)) \/ Carried(t, r)
    <3>1. CASE i = 1
      BY <1>1, <2>1, <3>1
    <3>2. CASE i # 1
      <4>1. i - 1 \in 1 .. Len(t) /\ t[i - 1] = p[i]
        <5>1. i - 1 \in 1 .. Len(t) /\ i - 1 + 1 = i
          BY <1>1, <3>2
        <5> QED BY <1>1, <5>1
      <4> QED BY <2>1, <4>1 DEF Carried
    <3> QED BY <3>1, <3>2
  <2>2. ASSUME r \in Range(Head(p))
        PROVE  Carried(p, r)
    <3>1. 1 \in 1 .. Len(p)
      BY <1>1
    <3> QED BY <1>1, <2>2, <3>1 DEF Carried
  <2>3. ASSUME NEW i \in 1 .. Len(t), r \in Range(t[i])
        PROVE  Carried(p, r)
    <3>1. i + 1 \in 1 .. Len(p)
      BY <1>1
    <3> QED BY <1>1, <2>3, <3>1 DEF Carried
  <2> QED BY <2>1, <2>2, <2>3 DEF Carried
<1>6. ASSUME NEW r \in Range(Head(p)), NEW i \in 1 .. Len(t), r \in Range(t[i])
      PROVE  FALSE
  <2>1. i + 1 \in 1 .. Len(p) /\ t[i] = p[i + 1] /\ 1 \in 1 .. Len(p) /\ i + 1 # 1
    BY <1>1
  <2>2. PICK j \in 1 .. Len(p[1]) : p[1][j] = r
    BY <1>1, <1>2, <1>6, <2>1, RangeIs
  <2>3. PICK l \in 1 .. Len(p[i + 1]) : p[i + 1][l] = r
    BY <1>2, <1>6, <2>1, RangeIs
  <2> QED BY <2>1, <2>2, <2>3 DEF Scattered
<1> QED BY <1>3, <1>4, <1>5, <1>6 DEF Carried, t

\* Every request of a packet goes to one of the two queues.
LEMMA SplitTimes ==
  ASSUME NEW q \in Seq(Request), NEW A, NEW B, NEW r,
         r \in Range(q) => (r \in A <=> r \notin B)
  PROVE  /\ Times(q, r) \in Nat /\ Times(Only(q, A), r) \in Nat /\ Times(Only(q, B), r) \in Nat
         /\ Times(Only(q, A), r) + Times(Only(q, B), r) = Times(q, r)
<1>1. Times(q, r) \in Nat /\ (Times(q, r) = 0 <=> r \notin Range(q))
  BY TimesMove
<1>2. Times(Only(q, A), r) = IF r \in A THEN Times(q, r) ELSE 0
  BY CountOnly DEF Times
<1>3. Times(Only(q, B), r) = IF r \in B THEN Times(q, r) ELSE 0
  BY CountOnly DEF Times
<1> QED BY <1>1, <1>2, <1>3

\* A request that has not arrived is nowhere.
LEMMA UnsentNowhere ==
  ASSUME Flow, TrackInv, NEW r \in Request, Unsent(r)
  PROVE  r.kind # "l2_wrbk" /\ Near(r) = 0 /\ Away(r) = 0 /\ Answers(r) = 0 /\ ~Waiting(r)
<1>1. Near(r) \in Nat /\ Away(r) \in Nat /\ Answers(r) \in Nat
  BY Numbers
<1>2. r.kind # "l2_wrbk" /\ Once(r)
  BY DEF TrackInv, Token, Outside
<1>3. Placed(r) + Answers(r) + (IF Unsent(r) THEN 1 ELSE 0) <= 1
  BY <1>2 DEF Once
<1>4. Placed(r) \in Nat /\ Placed(r) >= Near(r)
  BY <1>1 DEF Placed
<1>5. Placed(r) = 0 /\ Answers(r) = 0 /\ Near(r) = 0
  BY <1>1, <1>3, <1>4
<1>6. CASE cfg.l2
  <2>1. ~Waiting(r)
    BY <1>5, <1>6 DEF Placed
  <2>2. ~Fetching(r)
    BY <2>1, FetchingWaits
  <2>3. Away(r) = 0
    BY <1>1, <1>2, <1>6, <2>2 DEF Once
  <2> QED BY <1>2, <1>5, <2>1, <2>3
<1>7. CASE ~cfg.l2
  <2>1. ~Waiting(r)
    BY <1>2, <1>7 DEF Once
  <2>2. Placed(r) = Near(r) + Away(r)
    BY <1>7 DEF Placed
  <2> QED BY <1>1, <1>2, <1>5, <2>1, <2>2
<1> QED BY <1>6, <1>7

\* A packet arrives.
LEMMA PushPacketTrack ==
  ASSUME Flow, TrackInv, NEW s \in Sub, PushPacket(s)
  PROVE  TrackInv'
<1> DEFINE reqs == Head(todo[s])
           direct == {r \in Range(reqs) : r.kind = "texture"}
           delayed == {r \in Range(reqs) : r.kind # "texture"}
<1>1. /\ todo[s] # << >> /\ todo' = [todo EXCEPT ![s] = Tail(@)]
      /\ tracker' = [tracker EXCEPT ![s] = @ \cup Range(reqs)]
      /\ icnt_L2' = WithConcat(icnt_L2, s, Only(reqs, direct))
      /\ rop' = WithConcat(rop, s, Only(reqs, delayed))
      /\ UNCHANGED <<cfg, L2_icnt, dirty, miss_queue, mshr, ready, answered>>
      /\ UNCHANGED <<L2_dram, dram_L2, latency, queue, mrq, rwq, returnq>>
  BY DEF PushPacket, WithConcat, l2vars, sched, banks
<1>2. /\ icnt_L2 \in Queues /\ rop \in Queues /\ tracker \in Sets /\ DOMAIN tracker = Sub
      /\ todo \in Arrivals /\ DOMAIN todo = Sub
  BY DEF Flow, HomeOK, Sets, Arrivals
<1>3. reqs \in Seq(OfSub(s)) /\ reqs \in Seq(Request)
  <2>1. todo[s] \in Seq(Packets(s))
    BY <1>2 DEF Arrivals
  <2>2. reqs \in Packets(s)
    BY <1>1, <2>1, HeadTail
  <2>3. reqs \in Seq(OfSub(s))
    BY <2>2 DEF Packets
  <2> QED BY <2>3, OfSubRequest, SeqMono
<1>4. Only(reqs, direct) \in Seq(OfSub(s)) /\ Only(reqs, delayed) \in Seq(OfSub(s))
  BY <1>3, OnlyType
<1>5. /\ Scattered(Tail(todo[s])) /\ Apart(reqs)
      /\ \A r : Carried(todo[s], r) <=> r \in Range(reqs) \/ Carried(Tail(todo[s]), r)
      /\ \A r \in Range(reqs) : ~Carried(Tail(todo[s]), r)
  <2>1. todo[s] \in Seq(Seq(Request)) /\ Scattered(todo[s])
    BY <1>2 DEF Arrivals, TrackInv, Apartness, ArrivalsOK
  <2> QED BY <1>1, <2>1, FirstPacket
<1>6. \A x \in Sub : todo'[x] = IF x = s THEN Tail(todo[s]) ELSE todo[x]
  BY <1>1, <1>2
<1>7. \A r : r \in Range(reqs) => (r \in direct <=> r \notin delayed)
  OBVIOUS
<1>8. \A x \in Sub : tracker'[x] = IF x = s THEN tracker[s] \cup Range(reqs) ELSE tracker[x]
  BY <1>1, <1>2
<1>9. Range(reqs) \subseteq OfSub(s)
  BY <1>3, RangeIs
<1> HIDE DEF reqs, direct, delayed
<1>10. ASSUME NEW r \in Request
       PROVE  /\ Unsent(r) <=> Unsent(r)' \/ r \in Range(reqs)
              /\ Traced(r)' <=> Traced(r) \/ r \in Range(reqs)
              /\ r \in Range(reqs) => ~Unsent(r)'
  <2>1. r.sp \in Sub /\ (r \in Range(reqs) => r.sp = s)
    BY <1>9, OfSubRequest
  <2>2. DOMAIN todo[r.sp] = 1 .. Len(todo[r.sp]) /\ DOMAIN todo'[r.sp] = 1 .. Len(todo'[r.sp])
    <3>1. todo[r.sp] \in Seq(Seq(Request)) /\ todo[s] \in Seq(Seq(Request))
      BY <1>2, <2>1 DEF Arrivals
    <3>2. todo'[r.sp] \in Seq(Seq(Request))
      BY <1>1, <1>6, <2>1, <3>1, HeadTail
    <3> QED BY <3>1, <3>2
  <2>3. Unsent(r) <=> Carried(todo[r.sp], r)
    BY <2>2 DEF Unsent, Carried
  <2>4. Unsent(r)' <=> Carried(todo'[r.sp], r)
    BY <2>2 DEF Unsent, Carried
  <2>5. CASE r.sp = s
    BY <1>5, <1>6, <1>8, <2>1, <2>3, <2>4, <2>5 DEF Traced
  <2>6. CASE r.sp # s
    BY <1>6, <1>8, <2>1, <2>3, <2>4, <2>6 DEF Traced
  <2> QED BY <2>5, <2>6
<1>11. ASSUME NEW r \in Request
       PROVE  Token(r)'
  <2>1. /\ At(icnt_L2', r) = At(icnt_L2, r) + Times(Only(reqs, direct), r)
        /\ At(rop', r) = At(rop, r) + Times(Only(reqs, delayed), r)
    BY <1>1, <1>2, <1>4, AtConcat
  <2>2. /\ Times(reqs, r) \in Nat /\ Times(Only(reqs, direct), r) \in Nat
        /\ Times(Only(reqs, delayed), r) \in Nat
        /\ Times(Only(reqs, direct), r) + Times(Only(reqs, delayed), r) = Times(reqs, r)
    BY <1>3, <1>7, SplitTimes
  <2>3. /\ At(rop, r) \in Nat /\ At(icnt_L2, r) \in Nat /\ At(L2_icnt, r) \in Nat
        /\ At(ready, r) \in Nat
    BY Numbers
  <2>4. Near(r)' = Near(r) + Times(reqs, r) /\ Near(r) \in Nat
    <3>1. At(L2_icnt', r) = At(L2_icnt, r) /\ At(ready', r) = At(ready, r)
      BY <1>1
    <3> QED BY ONLY <2>1, <2>2, <2>3, <3>1, Parts
  <2>5. /\ Back(r)' = Back(r) /\ Away(r)' = Away(r) /\ (Waiting(r)' <=> Waiting(r))
        /\ (Fetching(r)' <=> Fetching(r)) /\ Answers(r)' = Answers(r) /\ cfg' = cfg
    BY <1>1 DEF Back, Away, Waiting, Fetching, Answers, CountInDram
  <2>6. Token(r)
    BY DEF TrackInv
  <2>7. CASE r \notin Range(reqs)
    <3>1. Times(reqs, r) = 0
      BY <1>3, <2>7, TimesMove
    <3>2. Near(r)' = Near(r)
      BY <2>4, <3>1
    <3>3. (Unsent(r)' <=> Unsent(r)) /\ (Traced(r)' <=> Traced(r))
      BY <1>10, <2>7
    <3> QED BY <2>5, <2>6, <3>2, <3>3, TokenSame
  <2>8. CASE r \in Range(reqs)
    <3>1. Unsent(r) /\ ~Unsent(r)' /\ Traced(r)'
      BY <1>10, <2>8
    <3>2. /\ r.kind # "l2_wrbk" /\ Near(r) = 0 /\ Away(r) = 0 /\ Answers(r) = 0 /\ ~Waiting(r)
      BY <3>1, UnsentNowhere
    <3>3. Times(reqs, r) = 1
      BY <1>3, <1>5, <2>8, CountOnce DEF Times
    <3>4. Near(r)' = 1
      BY <2>4, <3>2, <3>3
    <3>5. Placed(r)' = 1
      BY <2>5, <3>2, <3>4 DEF Placed
    <3> QED BY <2>5, <3>1, <3>2, <3>5 DEF Token, Once
  <2> QED BY <2>7, <2>8
<1>12. Apartness'
  <2>1. Apartness
    BY DEF TrackInv
  <2>2. ArrivalsOK'
    BY <1>5, <1>6, <2>1 DEF Apartness, ArrivalsOK
  <2>3. EntriesOK'
    BY <1>1, <2>1 DEF Apartness, EntriesOK
  <2>4. DirtyOK' /\ PlainOK' /\ AnsweredOK'
    BY <1>1, <2>1 DEF Apartness, DirtyOK, PlainOK, AnsweredOK
  <2> QED BY <2>2, <2>3, <2>4 DEF Apartness
<1> QED BY <1>11, <1>12 DEF TrackInv

-------------------------------------------------------------------------------
(* The tracker is right. *)

\* At first nothing is inside.
LEMMA TrackInit ==
  ASSUME Init
  PROVE  TrackInv
<1>0. Flow
  BY FlowInit
<1>1. PICK w \in Workloads : todo = w.packets /\ dirty = w.dirty
  BY DEF Init
<1>2. << >> \in Seq(Request)
  OBVIOUS
<1>3. ASSUME NEW s \in Sub
      PROVE  /\ rop[s] = << >> /\ icnt_L2[s] = << >> /\ L2_dram[s] = << >> /\ dram_L2[s] = << >>
             /\ L2_icnt[s] = << >> /\ miss_queue[s] = << >> /\ ready[s] = << >>
             /\ mshr[s] = {} /\ tracker[s] = {}
  BY DEF Init
<1>4. returnq = << >> /\ answered = << >>
  BY DEF Init
<1>5. ASSUME NEW r
      PROVE  Times(<< >>, r) = 0
  <2>1. ~ \E i \in 1 .. Len(<< >>) : << >>[i] = r
    OBVIOUS
  <2> QED BY <1>2, <2>1, RangeIs, TimesMove
<1>6. ASSUME NEW s \in Sub
      PROVE  /\ Scattered(todo[s]) /\ todo[s] \in Seq(Seq(Request))
             /\ \A i \in DOMAIN todo[s] : \A r \in Range(todo[s][i]) : r.kind # "l2_wrbk"
             /\ \A r \in dirty[s] : r.kind = "l2_wrbk"
  <2>1. todo[s] \in Seq(Seq(Request))
    BY <1>0 DEF Flow, HomeOK, Arrivals
  <2>2. DOMAIN todo[s] = 1 .. Len(todo[s])
        /\ \A i \in 1 .. Len(todo[s]) : DOMAIN todo[s][i] = 1 .. Len(todo[s][i])
    BY <2>1
  <2>3. /\ \A i, k \in DOMAIN todo[s] : \A j \in DOMAIN todo[s][i], l \in DOMAIN todo[s][k] :
             todo[s][i][j] = todo[s][k][l] => i = k /\ j = l
        /\ \A i \in DOMAIN todo[s] : \A r \in Range(todo[s][i]) : r.kind # "l2_wrbk"
        /\ \A r \in dirty[s] : r.kind = "l2_wrbk"
    BY <1>1, DistinctAssumption
  <2>4. Scattered(todo[s])
    <3> SUFFICES ASSUME NEW i \in 1 .. Len(todo[s]), NEW k \in 1 .. Len(todo[s]),
                        NEW j \in 1 .. Len(todo[s][i]), NEW l \in 1 .. Len(todo[s][k]),
                        todo[s][i][j] = todo[s][k][l]
                 PROVE  i = k /\ j = l
      BY DEF Scattered
    <3>1. i \in DOMAIN todo[s] /\ k \in DOMAIN todo[s]
      BY <2>2
    <3>2. j \in DOMAIN todo[s][i] /\ l \in DOMAIN todo[s][k]
      BY <2>2
    <3> QED BY <2>3, <3>1, <3>2
  <2> QED BY <2>1, <2>3, <2>4
<1>7. ASSUME NEW r \in Request
      PROVE  Token(r)
  <2>1. r.sp \in Sub
    BY OfSubRequest
  <2>2. /\ At(rop, r) = 0 /\ At(icnt_L2, r) = 0 /\ At(L2_icnt, r) = 0 /\ At(ready, r) = 0
        /\ At(miss_queue, r) = 0 /\ At(L2_dram, r) = 0 /\ At(dram_L2, r) = 0
        /\ Times(returnq, r) = 0 /\ Times(answered, r) = 0
    BY <1>3, <1>4, <1>5, <2>1 DEF At
  <2>3. CountInDram({r}) = 0
    BY NoneInDram
  <2>4. Near(r) = 0 /\ Away(r) = 0 /\ Back(r) = 0 /\ Answers(r) = 0
    BY ONLY <2>2, <2>3 DEF Near, Away, Back, Answers
  <2>5. ~Waiting(r) /\ ~Traced(r)
    BY <1>3, <2>1 DEF Waiting, Traced
  <2>6. Placed(r) = 0
    BY <2>4, <2>5 DEF Placed
  <2>7. r.kind = "l2_wrbk" => ~Unsent(r)
    BY <1>6, <2>1 DEF Unsent
  <2> QED BY <2>4, <2>5, <2>6, <2>7 DEF Token, Outside, Once
<1>8. AnsweredOK
  <2>1. Range(answered) = {}
    BY <1>4 DEF Range
  <2>2. Len(answered) = 0
    BY <1>4
  <2>3. IsFiniteSet({}) /\ Cardinality({}) = 0
    BY FS_EmptySet
  <2> QED BY <1>2, <1>4, <2>1, <2>2, <2>3 DEF AnsweredOK
<1>9. EntriesOK /\ PlainOK
  BY <1>3 DEF EntriesOK, PlainOK
<1>10. ArrivalsOK /\ DirtyOK
  BY <1>6 DEF ArrivalsOK, DirtyOK
<1> QED BY <1>7, <1>8, <1>9, <1>10 DEF TrackInv, Apartness

\* Every step keeps requests in one place.
LEMMA TrackNext ==
  ASSUME Flow, TrackInv, [Next]_vars
  PROVE  TrackInv'
<1>1. ASSUME NEW s \in Sub, SubCycle(s)
      PROVE  TrackInv'
  <2>1. CASE L2Access(s)
    <3>1. ASSUME NEW v \in {<< >>} \cup {<<d>> : d \in dirty[s]}, L2Answers(s, v) \/ L2Misses(s, v)
          PROVE  TrackInv'
      BY <3>1, L2AnswersTrack, L2MissesTrack
    <3>2. ASSUME NEW entry \in mshr[s], L2Merges(s, entry)
          PROVE  TrackInv'
      BY <3>2, L2MergesTrack
    <3> QED BY <2>1, <3>1, <3>2 DEF L2Access
  <2>2. CASE FromDram(s)
    <3>1. ASSUME NEW entry \in Waiters(s), mshr' = [mshr EXCEPT ![s] = @ \ {entry}],
                 ready' = [ready EXCEPT ![s] = @ \o entry], UNCHANGED L2_icnt
          PROVE  TrackInv'
      <4>1. ready' = WithConcat(ready, s, entry)
        BY <3>1 DEF WithConcat
      <4> QED BY <2>2, <3>1, <4>1, FillTrack
    <3>2. ASSUME Waiters(s) = {}, L2_icnt' = [L2_icnt EXCEPT ![s] = Append(@, Head(dram_L2[s]))],
                 UNCHANGED <<mshr, ready>>
          PROVE  TrackInv'
      <4>1. L2_icnt' = WithAppend(L2_icnt, s, Head(dram_L2[s]))
        BY <3>2 DEF WithAppend
      <4> QED BY <2>2, <3>2, <4>1, ForwardTrack
    <3> QED BY <2>2, <3>1, <3>2 DEF FromDram
  <2> QED BY <1>1, <2>1, <2>2, PushPacketTrack, RopToL2Track, BypassTrack, L2CycleTrack,
             ReadyToIcntTrack, PopReplyTrack DEF SubCycle
<1>2. ASSUME NEW s \in Sub, IssueToDram(s)
      PROVE  TrackInv'
  BY <1>2, IssueTrack
<1>3. ASSUME NEW b \in Bank, Schedule(b) \/ BankCommands(b)
      PROVE  TrackInv'
  <2>1. UNCHANGED <<cfg, subvars, L2_dram, dram_L2, returnq>>
    BY <1>3 DEF Schedule, BankCommands
  <2>2. \A S : CountInDram(S)' = CountInDram(S)
    BY <1>3, ScheduleInDram, CommandsInDram DEF Flow
  <2> QED BY <2>1, <2>2, InDramTrack
<1>4. CASE DramPush
  <2>1. UNCHANGED <<cfg, subvars, L2_dram, dram_L2, returnq>>
    BY <1>4 DEF DramPush
  <2>2. \A S : CountInDram(S)' = CountInDram(S)
    BY <1>4, PushInDram DEF Flow
  <2> QED BY <2>1, <2>2, InDramTrack
<1>5. CASE SwitchMode \/ UNCHANGED vars
  <2>1. UNCHANGED <<cfg, subvars, L2_dram, dram_L2, returnq, latency, queue, banks>>
    BY <1>5 DEF SwitchMode, vars, sched
  <2>2. \A S : CountInDram(S)' = CountInDram(S)
    BY <2>1 DEF CountInDram, banks
  <2> QED BY <2>1, <2>2, InDramTrack
<1>6. CASE SimpleReturn
  <2> DEFINE h == Head(latency)
  <2>1. /\ latency # << >>
        /\ UNCHANGED <<cfg, todo, rop, icnt_L2, L2_icnt, l2vars, answered, L2_dram, returnq>>
        /\ \/ IsWriteBack(h) /\ SetDone(h) /\ UNCHANGED dram_L2
           \/ ~IsWriteBack(h) /\ BackToSub(h) /\ UNCHANGED tracker
    BY <1>6 DEF SimpleReturn
  <2>2. h \in Request
    BY <2>1, HeadTail DEF Flow, DramOK
  <2>3. \A S : CountInDram(S)' \in Nat /\ CountInDram(S)' = CountInDram(S) - One(h, S)
    BY <1>6, SimpleReturnInDram
  <2> HIDE DEF h
  <2>4. CASE IsWriteBack(h) /\ SetDone(h) /\ UNCHANGED dram_L2
    BY <2>1, <2>2, <2>3, <2>4, SetDoneTrack
  <2>5. CASE ~IsWriteBack(h) /\ BackToSub(h) /\ UNCHANGED tracker
    BY <1>6, <2>5, SimpleBackTrack DEF h
  <2> QED BY <2>1, <2>4, <2>5
<1>7. CASE DataDone
  <2> DEFINE h == Head(rwq)
  <2>1. /\ rwq # << >>
        /\ UNCHANGED <<cfg, todo, rop, icnt_L2, L2_icnt, l2vars, answered, L2_dram, dram_L2>>
        /\ \/ IsWriteBack(h) /\ SetDone(h) /\ UNCHANGED returnq
           \/ ~IsWriteBack(h) /\ returnq' = Append(returnq, h) /\ UNCHANGED tracker
    BY <1>7 DEF DataDone
  <2>2. h \in Request
    BY <2>1, HeadTail DEF Flow, DramOK
  <2> HIDE DEF h
  <2>4. CASE IsWriteBack(h) /\ SetDone(h) /\ UNCHANGED returnq
    <3>1. \A S : CountInDram(S)' \in Nat /\ CountInDram(S)' = CountInDram(S) - One(h, S)
      BY <1>7, <2>4, DataDoneInDram DEF h
    <3> QED BY <2>1, <2>2, <2>4, <3>1, SetDoneTrack
  <2>5. CASE ~IsWriteBack(h) /\ returnq' = Append(returnq, h) /\ UNCHANGED tracker
    BY <1>7, <2>5, DataBackTrack DEF h
  <2> QED BY <2>1, <2>4, <2>5
<1>8. CASE DramReturn
  BY <1>8, DramReturnTrack
<1> QED BY <1>1, <1>2, <1>3, <1>4, <1>5, <1>6, <1>7, <1>8 DEF Next

\* What is inside is what has a place.
LEMMA InsideIs ==
  ASSUME Flow, TrackInv, NEW s \in Sub
  PROVE  tracker[s] = Inside(s) /\ \A r \in tracker[s] : r.sp = s
<1>1. tracker[s] \subseteq OfSub(s)
  BY DEF Flow, HomeOK, Sets
<1>2. Inside(s) \subseteq OfSub(s)
  <2>1. /\ Range(rop[s]) \subseteq OfSub(s) /\ Range(icnt_L2[s]) \subseteq OfSub(s)
        /\ Range(L2_icnt[s]) \subseteq OfSub(s) /\ Range(ready[s]) \subseteq OfSub(s)
        /\ Range(L2_dram[s]) \subseteq OfSub(s) /\ Range(dram_L2[s]) \subseteq OfSub(s)
    BY RangeIs, QueueOfSub DEF Flow, HomeOK
  <2>2. \A e \in mshr[s] : Range(e) \subseteq OfSub(s)
    <3>1. mshr[s] \subseteq Seq(OfSub(s))
      BY DEF Flow, HomeOK, Entries
    <3> QED BY <3>1, RangeIs
  <2>3. InDram(s) \subseteq OfSub(s)
    <3>1. Range(latency) \subseteq Request /\ Range(rwq) \subseteq Request /\ Range(returnq) \subseteq Request
      BY RangeIs DEF Flow, DramOK
    <3>2. \A f \in [Bank -> Seq(Request)] : AllOf(f) \subseteq Request
      BY RangeIs DEF AllOf
    <3>3. /\ queue["READ"] \in [Bank -> Seq(Request)] /\ queue["WRITE"] \in [Bank -> Seq(Request)]
          /\ mrq \in [Bank -> Seq(Request)]
      BY DEF Flow, DramOK, Mode
    <3>4. /\ AllOf(queue["READ"]) \subseteq Request /\ AllOf(queue["WRITE"]) \subseteq Request
          /\ AllOf(mrq) \subseteq Request
      BY <3>2, <3>3
    <3>5. \A r \in InDram(s) : r \in Request /\ r.sp = s
      BY <3>1, <3>4 DEF InDram
    <3> QED BY <3>5, OfSubRequest
  <2>4. UNION {Range(e) : e \in mshr[s]} \subseteq OfSub(s)
    BY <2>2
  <2> QED BY <2>1, <2>3, <2>4 DEF Inside
<1>3. ASSUME NEW r \in OfSub(s)
      PROVE  r \in tracker[s] <=> r \in Inside(s)
  <2>1. r \in Request /\ r.sp = s
    BY OfSubRequest
  <2>2. /\ At(rop, r) \in Nat /\ (At(rop, r) = 0 <=> r \notin Range(rop[s]))
        /\ At(icnt_L2, r) \in Nat /\ (At(icnt_L2, r) = 0 <=> r \notin Range(icnt_L2[s]))
        /\ At(L2_icnt, r) \in Nat /\ (At(L2_icnt, r) = 0 <=> r \notin Range(L2_icnt[s]))
        /\ At(ready, r) \in Nat /\ (At(ready, r) = 0 <=> r \notin Range(ready[s]))
    BY <2>1, AtIs DEF Flow, HomeOK
  <2>3. /\ At(L2_dram, r) \in Nat /\ (At(L2_dram, r) = 0 <=> r \notin Range(L2_dram[s]))
        /\ At(dram_L2, r) \in Nat /\ (At(dram_L2, r) = 0 <=> r \notin Range(dram_L2[s]))
        /\ At(miss_queue, r) \in Nat /\ (At(miss_queue, r) = 0 <=> r \notin Range(miss_queue[s]))
    BY <2>1, AtIs DEF Flow, HomeOK
  <2>4. CountInDram({r}) \in Nat /\ (CountInDram({r}) = 0 <=> r \notin InDram(s))
    BY <2>1, InDramIs DEF Flow
  <2> DEFINE Beside == r \in Range(rop[s]) \/ r \in Range(icnt_L2[s]) \/ r \in Range(L2_icnt[s])
                       \/ r \in Range(ready[s])
             Beyond == r \in Range(L2_dram[s]) \/ r \in Range(dram_L2[s]) \/ r \in InDram(s)
  <2>5. Near(r) \in Nat /\ (Near(r) = 0 <=> ~Beside)
    BY <2>2 DEF Near
  <2>6. Away(r) \in Nat /\ (Away(r) = 0 <=> ~Beyond /\ r \notin Range(miss_queue[s]))
    BY <2>3, <2>4 DEF Away
  <2>7. r \in Inside(s) <=> Beside \/ Waiting(r) \/ (Beyond /\ r.kind # "l2_wrbk")
    <3>1. r \in UNION {Range(e) : e \in mshr[s]} <=> Waiting(r)
      BY <2>1 DEF Waiting
    <3> QED BY <3>1 DEF Inside
  <2>8. r \in tracker[s] <=> Traced(r)
    BY <2>1 DEF Traced
  <2>9. Token(r)
    BY <2>1 DEF TrackInv
  <2> HIDE DEF Beside, Beyond
  <2>10. CASE r.kind = "l2_wrbk"
    BY <2>5, <2>7, <2>8, <2>9, <2>10 DEF Token, Outside
  <2>11. CASE r.kind # "l2_wrbk"
    <3>1. Once(r) /\ Answers(r) \in Nat
      BY <2>1, <2>9, <2>11, Numbers DEF Token
    <3>2. Placed(r) \in Nat /\ Placed(r) <= 1
      <4>1. Placed(r) \in Nat
        BY <2>5, <2>6 DEF Placed
      <4>2. Placed(r) + Answers(r) + (IF Unsent(r) THEN 1 ELSE 0) <= 1
        BY <3>1 DEF Once
      <4> QED BY <3>1, <4>1, <4>2
    <3>3. Traced(r) <=> Placed(r) = 1
      BY <3>1 DEF Once
    <3>4. CASE cfg.l2
      <4>1. Placed(r) # 0 <=> Beside \/ Waiting(r)
        BY <2>5, <3>4 DEF Placed
      <4>2. Beyond => Waiting(r)
        BY <2>1, <2>6, <3>1, <3>4, FetchingWaits DEF Once
      <4> QED BY <2>7, <2>8, <2>11, <3>2, <3>3, <4>1, <4>2
    <3>5. CASE ~cfg.l2
      <4>1. ~Waiting(r)
        BY <3>1, <3>5 DEF Once
      <4>2. r \notin Range(miss_queue[s])
        <5>1. miss_queue[s] = << >>
          BY <3>5 DEF TrackInv, Apartness, PlainOK
        <5> QED BY <5>1 DEF Range
      <4>3. Placed(r) = Near(r) + Away(r)
        BY <3>5 DEF Placed
      <4>4. Placed(r) # 0 <=> Beside \/ Beyond
        BY <2>5, <2>6, <4>2, <4>3
      <4> QED BY <2>7, <2>8, <2>11, <3>2, <3>3, <4>1, <4>4
    <3> QED BY <3>4, <3>5
  <2> QED BY <2>10, <2>11
<1>4. \A r \in tracker[s] : r.sp = s
  BY <1>1, OfSubRequest
<1> QED BY <1>1, <1>2, <1>3, <1>4

(***************************************************************************)
(* m_request_tracker holds exactly the requests that are inside, although  *)
(* memory_sub_partition::push enters them and different places take them   *)
(* out: pop when one is answered, set_done when a write-back leaves the    *)
(* DRAM, cache_cycle when the L2 takes a write-back of the L1.  No         *)
(* request is dropped on the way, forgotten at its end, answered twice or  *)
(* answered at another sub-partition, and m_icnt_L2_queue has room for     *)
(* every packet.                                                           *)
(***************************************************************************)
THEOREM RequestsTracked == Spec => []Tracked
<1>1. Flow /\ TrackInv => Tracked
  <2> SUFFICES ASSUME Flow, TrackInv
               PROVE  Tracked
    OBVIOUS
  <2>1. ASSUME NEW s \in Sub
        PROVE  tracker[s] \cap Range(answered) = {}
    <3> SUFFICES ASSUME NEW r \in tracker[s], r \in Range(answered)
                 PROVE  FALSE
      OBVIOUS
    <3>1. r \in Request /\ r.sp = s
      BY InsideIs DEF Flow, HomeOK, Sets
    <3>2. Traced(r) /\ Answers(r) # 0 /\ Answers(r) \in Nat
      BY <3>1, TimesMove DEF Traced, Answers, TrackInv, Apartness, AnsweredOK
    <3>3. Once(r)
      BY <3>1, <3>2 DEF TrackInv, Token, Outside
    <3> QED BY <3>2, <3>3 DEF Once
  <2> QED BY <2>1, InsideIs DEF Tracked, TrackInv, Apartness, AnsweredOK, Flow, RoomOK
<1>2. Init => Flow /\ CreditsConserved /\ TrackInv
  BY FlowInit, TrackInit
<1>3. Flow /\ CreditsConserved /\ TrackInv /\ [Next]_vars => Flow' /\ CreditsConserved' /\ TrackInv'
  BY FlowInductive, TrackNext
<1> QED BY <1>1, <1>2, <1>3, PTL DEF Spec

================================================================================
